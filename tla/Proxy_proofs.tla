---------------------------- MODULE Proxy_proofs ----------------------------
(***************************************************************************)
(* The proxy implements PaidForwarding, for every set of requests, every   *)
(* policy and every set of 402 answers.                                    *)
(*                                                                         *)
(* The argument: nothing is handed over before the second forward, what is *)
(* signed was validated, and only the steps after the second forward give  *)
(* an answer that admits a payment.                                        *)
(***************************************************************************)
EXTENDS Proxy, PaymentPolicy_proofs

Unpaid == {"idle", "probe", "reply", "parse", "sign", "send"}

RequestInv(r) ==
  /\ pc[r] # "done" => answer[r] = {}
  /\ pc[r] \in Unpaid => handed[r] = {}
  /\ pc[r] = "sign" => offer[r] \in Offers
  /\ pc[r] = "send" => header[r] \in AllowedPayments
  /\ pc[r] = "await" => handed[r] # {}
  /\ pc[r] = "idle" => forwards[r] = 0
  /\ pc[r] \in Unpaid \ {"idle"} => forwards[r] = 1

Inv == TypeOK /\ \A r \in Requests : RequestInv(r)

Answers == FreeErrors \union PaidErrors \union OtherAnswers

-----------------------------------------------------------------------------
\* An entry that passes the validations is an allowed payment.
LEMMA ValidIsAllowed ==
  ASSUME NEW o \in Offers, Validate(o) = "valid"
  PROVE  [to |-> PickScheme(o).payTo, amount |-> PickScheme(o).amount]
           \in AllowedPayments
<1> DEFINE a == PickScheme(o)
           p == [to |-> a.payTo, amount |-> a.amount]
<1>1. o \in Seq(Accept)
  BY ProxyAssumption
<1>2. /\ a.payTo \in Recipients
      /\ a.amount \in Amount
      /\ \E i \in DOMAIN o : a = o[i]
      /\ Compatible(a)
      /\ ExpectedRecipient # None => a.payTo = ExpectedRecipient
      /\ MaxPayment # None => a.amount <= MaxPayment
  BY <1>1, ValidOffer
<1> HIDE DEF a
<1>3. p \in Payment /\ p.to = a.payTo /\ p.amount = a.amount
  BY <1>2 DEF Payment
<1>4. \E i \in DOMAIN o :
        Compatible(o[i]) /\ o[i].payTo = p.to /\ o[i].amount = p.amount
  BY <1>2, <1>3
<1> HIDE DEF p
<1>5. p \in AllowedPayments
  BY <1>2, <1>3, <1>4, Zenon DEF AllowedPayments
<1> QED
  BY <1>5, Zenon DEF p, a

\* The validations fail in four ways, all of them before a payment.
LEMMA RefusalIsFree ==
  ASSUME NEW o PROVE ErrorType(Validate(o)) \in FreeErrors
  BY DEF ErrorType, FreeErrors

\* A step for one request leaves the others alone.
LEMMA OthersUntouched ==
  ASSUME TypeOK, NEW r \in Requests, HandlerStep(r) \/ HangUp(r),
         NEW q \in Requests, q # r
  PROVE  /\ pc'[q] = pc[q] /\ answer'[q] = answer[q] /\ handed'[q] = handed[q]
         /\ offer'[q] = offer[q] /\ header'[q] = header[q]
         /\ forwards'[q] = forwards[q]
<1> USE DEF TypeOK, Goto, Reply, PassOn
<1>1. CASE Forward(r)             BY <1>1 DEF Forward
<1>2. CASE Receive(r)             BY <1>2 DEF Receive
<1>3. CASE ProbeFails(r)          BY <1>3 DEF ProbeFails
<1>4. CASE ProbePassedOn(r)       BY <1>4 DEF ProbePassedOn
<1>5. CASE ProbeDemandsPayment(r) BY <1>5 DEF ProbeDemandsPayment
<1>6. CASE InvalidBody(r)         BY <1>6 DEF InvalidBody
<1>7. CASE ParseBody(r)           BY <1>7 DEF ParseBody
<1>8. CASE Refuse(r)              BY <1>8 DEF Refuse
<1>9. CASE SigningFails(r)        BY <1>9 DEF SigningFails
<1>10. CASE Sign(r)               BY <1>10 DEF Sign
<1>11. CASE Resend(r)             BY <1>11 DEF Resend
<1>12. CASE ResendFails(r)        BY <1>12 DEF ResendFails
<1>13. CASE PaymentRejected(r)    BY <1>13 DEF PaymentRejected
<1>14. CASE PaidPassedOn(r)       BY <1>14 DEF PaidPassedOn
<1>15. CASE HangUp(r)             BY <1>15 DEF HangUp
<1> QED
  BY <1>1, <1>2, <1>3, <1>4, <1>5, <1>6, <1>7, <1>8, <1>9, <1>10, <1>11,
     <1>12, <1>13, <1>14, <1>15, Zenon DEF HandlerStep

\* The kinds of a step, as far as payments and answers go.
Silent(r) == /\ UNCHANGED <<handed, answer>>
             /\ pc[r] \in Unpaid /\ pc'[r] \in Unpaid
HandOver(r) == /\ pc[r] = "send" /\ pc'[r] = "await"
               /\ handed' = [handed EXCEPT ![r] = {header[r]}]
               /\ UNCHANGED answer
Closes(r) == \E a \in Answers :
               /\ pc[r] # "done" /\ pc'[r] = "done"
               /\ answer' = [answer EXCEPT ![r] = {a}]
               /\ UNCHANGED handed
               /\ a \in FreeErrors => pc[r] \in Unpaid
               /\ a \in PaidErrors => pc[r] = "await"

\* Each step of a handler is of one of them.
LEMMA Kinds ==
  ASSUME Inv, NEW r \in Requests, HandlerStep(r) \/ HangUp(r)
  PROVE  Silent(r) \/ HandOver(r) \/ Closes(r)
<1> USE DEF Inv, TypeOK, RequestInv, Unpaid, Goto, Reply, PassOn, Silent, Closes,
            Answers, FreeErrors, PaidErrors, OtherAnswers
<1>1. CASE Forward(r)             BY <1>1 DEF Forward
<1>2. CASE Receive(r)
  <2>1. handed' = handed
    BY <1>2 DEF Receive, ForwardedPayments
  <2> QED
    BY <1>2, <2>1 DEF Receive
<1>3. CASE ProbeFails(r)          BY <1>3 DEF ProbeFails
<1>4. CASE ProbePassedOn(r)       BY <1>4 DEF ProbePassedOn
<1>5. CASE ProbeDemandsPayment(r) BY <1>5 DEF ProbeDemandsPayment
<1>6. CASE InvalidBody(r)         BY <1>6 DEF InvalidBody
<1>7. CASE ParseBody(r)           BY <1>7 DEF ParseBody
<1>8. CASE Refuse(r)              BY <1>8, RefusalIsFree DEF Refuse
<1>9. CASE SigningFails(r)        BY <1>9 DEF SigningFails
<1>10. CASE Sign(r)               BY <1>10 DEF Sign
<1>11. CASE Resend(r)
  <2>1. handed' = [handed EXCEPT ![r] = {header[r]}]
    BY <1>11 DEF Resend, ForwardedPayments
  <2> QED
    BY <1>11, <2>1 DEF Resend, HandOver
<1>12. CASE ResendFails(r)        BY <1>12 DEF ResendFails
<1>13. CASE PaymentRejected(r)    BY <1>13 DEF PaymentRejected
<1>14. CASE PaidPassedOn(r)       BY <1>14 DEF PaidPassedOn
<1>15. CASE HangUp(r)             BY <1>15 DEF HangUp
<1> QED
  BY <1>1, <1>2, <1>3, <1>4, <1>5, <1>6, <1>7, <1>8, <1>9, <1>10, <1>11,
     <1>12, <1>13, <1>14, <1>15, Zenon DEF HandlerStep

-----------------------------------------------------------------------------
\* The invariant, for a step of the request itself.
LEMMA RequestStep ==
  ASSUME Inv, NEW r \in Requests, HandlerStep(r) \/ HangUp(r)
  PROVE  TypeOK' /\ RequestInv(r)'
<1> USE DEF Inv, TypeOK, RequestInv, Unpaid, Goto, Reply, PassOn,
            FreeErrors, PaidErrors, OtherAnswers
<1>1. CASE Forward(r)             BY <1>1 DEF Forward
<1>2. CASE Receive(r)             BY <1>2 DEF Receive, ForwardedPayments
<1>3. CASE ProbeFails(r)          BY <1>3 DEF ProbeFails
<1>4. CASE ProbePassedOn(r)       BY <1>4 DEF ProbePassedOn
<1>5. CASE ProbeDemandsPayment(r) BY <1>5 DEF ProbeDemandsPayment
<1>6. CASE InvalidBody(r)         BY <1>6 DEF InvalidBody
<1>7. CASE ParseBody(r)           BY <1>7 DEF ParseBody
<1>8. CASE Refuse(r)              BY <1>8, RefusalIsFree DEF Refuse
<1>9. CASE SigningFails(r)        BY <1>9 DEF SigningFails
<1>10. CASE Sign(r)
  <2> DEFINE p == [to |-> PickScheme(offer[r]).payTo,
                   amount |-> PickScheme(offer[r]).amount]
  <2>1. p \in AllowedPayments
    BY <1>10, ValidIsAllowed DEF Sign
  <2>2. p \in Payment
    BY <2>1 DEF AllowedPayments
  <2>3. header' = [header EXCEPT ![r] = p]
    BY <1>10 DEF Sign
  <2>4. AllowedPayments' = AllowedPayments
    BY DEF AllowedPayments, Payment
  <2> HIDE DEF p
  <2> QED
    BY <1>10, <2>1, <2>2, <2>3, <2>4 DEF Sign
<1>11. CASE Resend(r)
  <2>1. header[r] \in Payment
    BY <1>11 DEF Resend, AllowedPayments
  <2>2. handed' = [handed EXCEPT ![r] = {header[r]}]
    BY <1>11 DEF Resend, ForwardedPayments
  <2> QED
    BY <1>11, <2>1, <2>2 DEF Resend
<1>12. CASE ResendFails(r)        BY <1>12 DEF ResendFails
<1>13. CASE PaymentRejected(r)    BY <1>13 DEF PaymentRejected
<1>14. CASE PaidPassedOn(r)       BY <1>14 DEF PaidPassedOn
<1>15. CASE HangUp(r)             BY <1>15 DEF HangUp
<1> QED
  BY <1>1, <1>2, <1>3, <1>4, <1>5, <1>6, <1>7, <1>8, <1>9, <1>10, <1>11,
     <1>12, <1>13, <1>14, <1>15, Zenon DEF HandlerStep

\* The invariant holds at every step of any handler.
THEOREM Invariance == Spec => []Inv
<1>1. Init => Inv
  BY DEF Init, Inv, TypeOK, RequestInv, Unpaid
<1>2. Inv /\ [Next]_vars => Inv'
  <2> SUFFICES ASSUME Inv, [Next]_vars PROVE Inv'
    OBVIOUS
  <2>1. CASE UNCHANGED vars
    <3>1. TypeOK'
      BY <2>1 DEF vars, Inv, TypeOK
    <3>2. \A r \in Requests : RequestInv(r)'
      BY <2>1 DEF vars, Inv, RequestInv, AllowedPayments, Payment
    <3> QED
      BY <3>1, <3>2 DEF Inv
  <2>2. ASSUME NEW r \in Requests, HandlerStep(r) \/ HangUp(r) PROVE Inv'
    <3>1. TypeOK' /\ RequestInv(r)'
      BY <2>2, RequestStep
    <3>2. ASSUME NEW q \in Requests, q # r PROVE RequestInv(q)'
      <4>1. /\ pc'[q] = pc[q] /\ answer'[q] = answer[q] /\ handed'[q] = handed[q]
            /\ offer'[q] = offer[q] /\ header'[q] = header[q]
            /\ forwards'[q] = forwards[q]
        BY <2>2, <3>2, OthersUntouched DEF Inv
      <4>2. AllowedPayments' = AllowedPayments
        BY DEF AllowedPayments, Payment
      <4> QED
        BY <4>1, <4>2 DEF Inv, RequestInv
    <3> QED
      BY <3>1, <3>2 DEF Inv
  <2> QED
    BY <2>1, <2>2 DEF Next
<1> QED
  BY <1>1, <1>2, PTL DEF Spec

\* Types; in particular a request is forwarded twice at most.
THEOREM TypeCorrect == Spec => []TypeOK
<1>1. Inv => TypeOK
  BY DEF Inv
<1> QED
  BY <1>1, Invariance, PTL

\* The handler implements PaidForwarding: one allowed payment at most, and no
\* answer that contradicts it.
THEOREM Refinement == Spec => ImplementsPaidForwarding
<1>1. Init => Paid!Init
  BY DEF Init, Paid!Init
<1>2. Inv /\ [Next]_vars => [Paid!Next]_(Paid!vars)
  <2> SUFFICES ASSUME Inv, [Next]_vars PROVE [Paid!Next]_(Paid!vars)
    OBVIOUS
  <2> USE DEF Paid!vars
  <2>1. CASE UNCHANGED vars
    BY <2>1 DEF vars
  <2>2. ASSUME NEW r \in Requests, HandlerStep(r) \/ HangUp(r)
        PROVE  [Paid!Next]_(Paid!vars)
    <3>1. CASE Silent(r)
      BY <3>1 DEF Silent
    <3>2. CASE HandOver(r)
      <4>1. Paid!Pay(r)
        BY <3>2 DEF HandOver, Paid!Pay, Inv, RequestInv, Unpaid
      <4> QED
        BY <4>1 DEF Paid!Next
    <3>3. CASE Closes(r)
      <4>1. Paid!Answer(r)
        BY <3>3 DEF Closes, Paid!Answer, Inv, RequestInv, Unpaid, Answers
      <4> QED
        BY <4>1 DEF Paid!Next
    <3> QED
      BY <2>2, <3>1, <3>2, <3>3, Kinds
  <2> QED
    BY <2>1, <2>2 DEF Next
<1> QED
  BY <1>1, <1>2, Invariance, PTL DEF Spec, ImplementsPaidForwarding, Paid!Spec
=============================================================================
