-------------------------- MODULE Payments_proofs --------------------------
(***************************************************************************)
(* Theorems about Payments for every set of calls, every policy, every set *)
(* of 402 answers and every number of retries.                             *)
(*                                                                         *)
(* None of the safety properties is inductive by itself: that a response   *)
(* stayed within the cap rests on the running total being right, which     *)
(* rests on the amount in the header being the one that was validated.     *)
(* Inv states what is true of a call at each place it can be.              *)
(***************************************************************************)
EXTENDS Payments, PaymentPolicy_proofs, FiniteSetTheorems, SequenceTheorems

\* The amount being paid is the validated one.
Paying(c) ==
  /\ offer[c] \in Offers
  /\ Validate(offer[c]) = "valid"
  /\ header[c] \in Transfer
  /\ header[c].to = PickScheme(offer[c]).payTo
  /\ header[c].amount = PickScheme(offer[c]).amount

\* A call that is not done has no outcome, and before its first payment it has
\* spent nothing.
FreshInv(c) ==
  /\ pc[c] # "done" => outcome[c] = "none"
  /\ pc[c] = "idle" => attempt[c] = 0 /\ posts[c] = 0
  /\ pc[c] = "sign" => offer[c] \in Offers
  /\ pc[c] \in {"send", "await"} => Paying(c)
  /\ pc[c] \in {"idle", "probe", "sign", "send"} /\ attempt[c] = 0
       => spent[c] = 0

\* The running total is the money handed over, less the payment under way; with
\* the answer it is all of it.
TotalInv(c) ==
  /\ pc[c] \in {"idle", "loop", "probe", "sign", "send"}
       => total[c] = SaturatingAdd(spent[c], 0)
  /\ pc[c] = "await" =>
       /\ header[c].amount <= spent[c]
       /\ total[c] = SaturatingAdd(spent[c] - header[c].amount, 0)
       /\ attempt[c] = 0 => spent[c] = header[c].amount
  /\ outcome[c] = "ok" => total[c] = SaturatingAdd(spent[c], 0)

\* Between payments a call is within the cap.
BudgetInv(c) ==
  /\ Capped /\ pc[c] \in {"idle", "loop", "probe", "sign", "send"}
       => spent[c] <= MaxPayment
  /\ Capped /\ pc[c] = "await" => spent[c] - header[c].amount <= MaxPayment
  /\ Capped => spent[c] <= 2 * MaxPayment
  /\ Capped /\ outcome[c] = "ok" => spent[c] <= MaxPayment
  /\ outcome[c] = "BudgetExceeded" => spent[c] > MaxPayment

PostsInv(c) ==
  /\ pc[c] \in {"probe", "sign", "send"} => posts[c] <= 2 * attempt[c] + 1
  /\ pc[c] \in {"await", "loop", "done"} => posts[c] <= 2 * attempt[c] + 2

CallInv(c) == FreshInv(c) /\ TotalInv(c) /\ BudgetInv(c) /\ PostsInv(c)

Inv == /\ TypeOK
       /\ \A c \in Calls : CallInv(c)
       /\ TransfersHonourPolicy

Locals(c) == <<pc[c], attempt[c], total[c], response[c], offer[c], header[c],
               outcome[c], posts[c], spent[c]>>

-----------------------------------------------------------------------------
\* A step of one call leaves the state of the others alone.
LEMMA OthersUntouched ==
  ASSUME TypeOK, NEW c \in Calls, CallStep(c) \/ Drop(c), NEW d \in Calls, d # c
  PROVE  Locals(d)' = Locals(d)
<1> USE DEF TypeOK, Locals, Goto, Return, Post, history, local
<1>1. CASE Start(c)               BY <1>1 DEF Start
<1>2. CASE ProbeOk(c)             BY <1>2 DEF ProbeOk
<1>3. CASE ProbeDemandsPayment(c) BY <1>3 DEF ProbeDemandsPayment
<1>4. CASE ProbeFails(c)          BY <1>4 DEF ProbeFails
<1>5. CASE Refuse(c)              BY <1>5 DEF Refuse
<1>6. CASE SigningFails(c)        BY <1>6 DEF SigningFails
<1>7. CASE Sign(c)                BY <1>7 DEF Sign
<1>8. CASE Send(c)                BY <1>8 DEF Send
<1>9. CASE SendFails(c)           BY <1>9 DEF SendFails
<1>10. CASE PaidOk(c)             BY <1>10 DEF PaidOk
<1>11. CASE PaidOverBudget(c)     BY <1>11 DEF PaidOverBudget
<1>12. CASE PaidFails(c)          BY <1>12 DEF PaidFails
<1>13. CASE Retry(c)              BY <1>13 DEF Retry
<1>14. CASE Finish(c)             BY <1>14 DEF Finish
<1>15. CASE Drop(c)               BY <1>15 DEF Drop
<1> QED
  BY <1>1, <1>2, <1>3, <1>4, <1>5, <1>6, <1>7, <1>8, <1>9, <1>10, <1>11,
     <1>12, <1>13, <1>14, <1>15, Zenon DEF CallStep

-----------------------------------------------------------------------------
(* What one step of a call does to the invariant of that call.             *)

\* The amount being paid is a u64 within the cap.
LEMMA PayingFacts ==
  ASSUME NEW c \in Calls, Paying(c)
  PROVE  /\ PickScheme(offer[c]).amount \in Nat
         /\ header[c].amount \in Amount
         /\ header[c].amount \in Nat
         /\ header[c].amount = PickScheme(offer[c]).amount
         /\ MaxPayment # None => header[c].amount <= MaxPayment
<1>1. offer[c] \in Seq(Accept) /\ Validate(offer[c]) = "valid"
  BY PaymentsAssumption DEF Paying
<1> QED
  BY <1>1, ValidOffer DEF Paying, Amount

\* The new total is a u64.
LEMMA TotalWithType ==
  ASSUME Inv, NEW c \in Calls, Paying(c)
  PROVE  TotalWith(c) \in Amount
<1>1. total[c] \in Nat /\ PickScheme(offer[c]).amount \in Nat
  BY PayingFacts DEF Inv, TypeOK, Amount
<1> QED
  BY <1>1, SaturatingAddProperties, Zenon DEF TotalWith

\* A step of a call keeps every type.
LEMMA TypeStep ==
  ASSUME Inv, NEW c \in Calls, CallStep(c) \/ Drop(c)
  PROVE  TypeOK'
<1> USE DEF TypeOK, Goto, Return, Post, history, chain, PC, Errors, ValidationErrors
<1>0. CallInv(c)
  BY DEF Inv
<1>1. CASE Start(c)               BY <1>1 DEF Start, Inv
<1>2. CASE ProbeOk(c)             BY <1>2 DEF ProbeOk, Inv
<1>3. CASE ProbeDemandsPayment(c) BY <1>3 DEF ProbeDemandsPayment, Inv
<1>4. CASE ProbeFails(c)          BY <1>4 DEF ProbeFails, Inv
<1>5. CASE Refuse(c)
  <2>1. Validate(offer[c]) \in ValidationErrors \union {"ParseError"}
    BY <1>5, Zenon DEF Refuse, Validate
  <2> QED
    BY <1>5, <2>1 DEF Refuse, Inv
<1>6. CASE SigningFails(c)        BY <1>6 DEF SigningFails, Inv
<1>7. CASE Sign(c)
  <2>1. offer[c] \in Seq(Accept) /\ Validate(offer[c]) = "valid"
    BY <1>0, <1>7, PaymentsAssumption DEF Sign, CallInv, FreshInv
  <2>2. [to |-> PickScheme(offer[c]).payTo, amount |-> PickScheme(offer[c]).amount,
         blockhash |-> blockhash] \in Transfer
    BY <2>1, ValidOffer DEF Transfer, Inv
  <2> QED
    BY <1>7, <2>2 DEF Sign, Inv
<1>8. CASE Send(c)
  <2>1. Paying(c)
    BY <1>0, <1>8 DEF Send, CallInv, FreshInv
  <2>2. header[c] \in Transfer /\ header[c].amount \in Nat
    BY <2>1, PayingFacts, Zenon DEF Paying
  <2> QED
    BY <1>8, <2>2 DEF Send, Inv
<1>9. CASE SendFails(c)           BY <1>9 DEF SendFails, Inv
<1>10. CASE PaidOk(c)
  <2>1. Paying(c)
    BY <1>0, <1>10 DEF PaidOk, CallInv, FreshInv
  <2>2. TotalWith(c) \in Amount
    BY <2>1, TotalWithType
  <2> QED
    BY <1>10, <2>2 DEF PaidOk, Inv
<1>11. CASE PaidOverBudget(c)
  <2>1. Paying(c)
    BY <1>0, <1>11 DEF PaidOverBudget, CallInv, FreshInv
  <2>2. TotalWith(c) \in Amount
    BY <2>1, TotalWithType
  <2> QED
    BY <1>11, <2>2 DEF PaidOverBudget, Inv
<1>12. CASE PaidFails(c)          BY <1>12 DEF PaidFails, Inv
<1>13. CASE Retry(c)              BY <1>13, PaymentsAssumption DEF Retry, Inv
<1>14. CASE Finish(c)             BY <1>14 DEF Finish, Inv
<1>15. CASE Drop(c)               BY <1>15 DEF Drop, Inv
<1> QED
  BY <1>1, <1>2, <1>3, <1>4, <1>5, <1>6, <1>7, <1>8, <1>9, <1>10, <1>11,
     <1>12, <1>13, <1>14, <1>15, Zenon DEF CallStep

\* An error before the payment is answered changes neither total nor spending.
LEMMA ReturnKeepsInv ==
  ASSUME Inv, NEW c \in Calls, NEW from \in PC \ {"idle", "done"}, NEW r,
         Return(c, from, r), r \notin {"ok", "BudgetExceeded"},
         posts'[c] = posts[c] \/ (from = "send" /\ posts'[c] = posts[c] + 1),
         spent'[c] = spent[c], attempt'[c] = attempt[c]
  PROVE  CallInv(c)'
<1>1. CallInv(c) /\ pc[c] = from /\ pc'[c] = "done" /\ outcome'[c] = r
  BY DEF Inv, TypeOK, Return, Goto
<1>2. FreshInv(c)' /\ TotalInv(c)'
  BY <1>1 DEF FreshInv, TotalInv
<1>3. BudgetInv(c)'
  BY <1>1 DEF CallInv, BudgetInv
<1>4. PostsInv(c)'
  <2>1. posts[c] \in Nat /\ attempt[c] \in Nat
    BY DEF Inv, TypeOK
  <2> QED
    BY <1>1, <2>1 DEF CallInv, PostsInv, PC
<1> QED
  BY <1>2, <1>3, <1>4 DEF CallInv

\* When a payment is answered, the new total is the money handed over.
PaidTotal(c) ==
  /\ TotalWith(c) = SaturatingAdd(spent[c], 0)
  /\ TotalWith(c) \in Nat
  /\ TotalWith(c) <= spent[c]
  /\ TotalWith(c) < U64Max => TotalWith(c) = spent[c]
  /\ MaxPayment # None => header[c].amount <= MaxPayment

\* The header holds the amount that was validated, so the total catches up.
LEMMA PaidTotalHolds ==
  ASSUME Inv, NEW c \in Calls, pc[c] = "await"
  PROVE  PaidTotal(c)
<1> DEFINE h == header[c].amount
           rest == spent[c] - h
<1>1. Paying(c) /\ h <= spent[c] /\ total[c] = SaturatingAdd(rest, 0)
  BY DEF Inv, CallInv, FreshInv, TotalInv
<1>2. /\ h \in Nat
      /\ h = PickScheme(offer[c]).amount
      /\ MaxPayment # None => h <= MaxPayment
  BY <1>1, PayingFacts, Zenon
<1>3. spent[c] \in Nat
  BY DEF Inv, TypeOK
<1>4. rest \in Nat /\ rest + h = spent[c]
  BY <1>1, <1>2, <1>3
<1>5. TotalWith(c) = SaturatingAdd(SaturatingAdd(rest, 0), h)
  BY <1>1, <1>2, Zenon DEF TotalWith
<1> HIDE DEF rest
<1>6. TotalWith(c) = SaturatingAdd(spent[c], 0)
  BY <1>2, <1>4, <1>5, SaturatingAddProperties
<1>7. /\ SaturatingAdd(spent[c], 0) \in Amount
      /\ SaturatingAdd(spent[c], 0) <= spent[c] + 0
      /\ SaturatingAdd(spent[c], 0) < U64Max
           => SaturatingAdd(spent[c], 0) = spent[c] + 0
  BY <1>3, SaturatingAddProperties
<1> QED
  BY <1>2, <1>3, <1>6, <1>7 DEF PaidTotal, Amount

\* A call's own step keeps every part of its invariant.
LEMMA CallInvStep ==
  ASSUME Inv, NEW c \in Calls, CallStep(c) \/ Drop(c)
  PROVE  CallInv(c)'
<1> USE DEF Goto
<1>0. CallInv(c) /\ TypeOK
  BY DEF Inv
<1>a. /\ posts[c] \in Nat /\ attempt[c] \in Nat /\ spent[c] \in Nat
      /\ total[c] \in Nat
  BY <1>0 DEF TypeOK, Amount
<1>1. CASE Start(c)
  BY <1>0, <1>1, <1>a DEF Start, Post, TypeOK, CallInv, FreshInv, TotalInv,
     BudgetInv, PostsInv, history, chain
<1>2. CASE ProbeOk(c)
  BY <1>0, <1>2, <1>a DEF ProbeOk, TypeOK, CallInv, FreshInv, TotalInv,
     BudgetInv, PostsInv, history, chain
<1>3. CASE ProbeDemandsPayment(c)
  BY <1>0, <1>3, <1>a DEF ProbeDemandsPayment, TypeOK, CallInv, FreshInv,
     TotalInv, BudgetInv, PostsInv, history, chain
<1>4. CASE ProbeFails(c)
  BY <1>4, ReturnKeepsInv DEF ProbeFails, history, PC
<1>5. CASE Refuse(c)
  <2>1. Validate(offer[c]) \notin {"ok", "BudgetExceeded"}
    BY <1>5, Zenon DEF Refuse, Validate
  <2> QED
    BY <1>5, <2>1, ReturnKeepsInv DEF Refuse, history, PC
<1>6. CASE SigningFails(c)
  BY <1>6, ReturnKeepsInv DEF SigningFails, history, PC
<1>7. CASE Sign(c)
  <2>1. /\ offer[c] \in Offers
        /\ Validate(offer[c]) = "valid"
        /\ offer[c] \in Seq(Accept)
    BY <1>0, <1>7, PaymentsAssumption DEF Sign, CallInv, FreshInv
  <2>2. /\ pc[c] = "sign" /\ pc'[c] = "send"
        /\ header'[c] = [to |-> PickScheme(offer[c]).payTo,
                         amount |-> PickScheme(offer[c]).amount,
                         blockhash |-> blockhash]
        /\ UNCHANGED <<attempt, total, offer, outcome, posts, spent>>
    BY <1>0, <1>7 DEF Sign, TypeOK, history
  <2>3. header'[c] \in Transfer
    BY <1>0, <2>1, <2>2, ValidOffer DEF Transfer, TypeOK
  <2>4. Paying(c)'
    BY <2>1, <2>2, <2>3 DEF Paying
  <2>5. FreshInv(c)'
    BY <1>0, <2>2, <2>4 DEF CallInv, FreshInv
  <2>6. TotalInv(c)' /\ BudgetInv(c)' /\ PostsInv(c)'
    BY <1>0, <1>a, <2>2 DEF CallInv, TotalInv, BudgetInv, PostsInv
  <2> QED
    BY <2>5, <2>6 DEF CallInv
<1>8. CASE Send(c)
  <2>1. Paying(c)
    BY <1>0, <1>8 DEF Send, CallInv, FreshInv
  <2>2. /\ header[c].amount \in Nat
        /\ MaxPayment # None => header[c].amount <= MaxPayment
    BY <2>1, PayingFacts, Zenon
  <2>3. /\ pc[c] = "send" /\ pc'[c] = "await"
        /\ spent'[c] = spent[c] + header[c].amount
        /\ posts'[c] = posts[c] + 1
        /\ UNCHANGED <<attempt, total, offer, header, outcome>>
    BY <1>0, <1>8 DEF Send, Post, TypeOK
  <2>4. Paying(c)'
    BY <2>1, <2>3 DEF Paying
  <2>5. FreshInv(c)'
    BY <1>0, <2>3, <2>4 DEF CallInv, FreshInv
  <2>6. spent'[c] - header[c].amount = spent[c]
    BY <1>a, <2>2, <2>3
  <2>7. TotalInv(c)'
    BY <1>0, <1>a, <2>2, <2>3, <2>6 DEF CallInv, FreshInv, TotalInv
  <2>8. BudgetInv(c)'
    BY <1>0, <1>a, <2>2, <2>3, <2>6, PolicyAssumption
       DEF CallInv, FreshInv, BudgetInv, Capped
  <2>9. PostsInv(c)'
    BY <1>0, <1>a, <2>3 DEF CallInv, PostsInv
  <2> QED
    BY <2>5, <2>7, <2>8, <2>9 DEF CallInv
<1>9. CASE SendFails(c)
  BY <1>0, <1>9, ReturnKeepsInv DEF SendFails, Post, TypeOK, PC
<1>10. CASE PaidOk(c)
  <2>1. /\ pc[c] = "await" /\ pc'[c] = "loop"
        /\ total'[c] = TotalWith(c)
        /\ ~OverBudget(c)
        /\ UNCHANGED <<attempt, outcome, posts, spent>>
    BY <1>0, <1>10 DEF PaidOk, TypeOK, history
  <2>2. PaidTotal(c)
    BY <1>10, PaidTotalHolds DEF PaidOk
  <2>3. FreshInv(c)'
    BY <1>0, <2>1 DEF CallInv, FreshInv
  <2>4. TotalInv(c)'
    BY <2>1, <2>2 DEF TotalInv, PaidTotal
  <2>5. Capped => spent[c] <= MaxPayment
    <3>1. CASE attempt[c] = 0
      BY <1>0, <2>1, <2>2, <3>1 DEF CallInv, TotalInv, PaidTotal, Capped
    <3>2. CASE attempt[c] # 0 /\ Capped
      BY <1>a, <2>1, <2>2, <3>2, PolicyAssumption DEF OverBudget, PaidTotal, Capped
    <3> QED
      BY <3>1, <3>2
  <2>6. BudgetInv(c)' /\ PostsInv(c)'
    BY <1>0, <1>a, <2>1, <2>5 DEF CallInv, FreshInv, BudgetInv, PostsInv
  <2> QED
    BY <2>3, <2>4, <2>6 DEF CallInv
<1>11. CASE PaidOverBudget(c)
  <2>1. /\ pc[c] = "await" /\ pc'[c] = "done"
        /\ outcome'[c] = "BudgetExceeded"
        /\ OverBudget(c)
        /\ UNCHANGED <<attempt, posts, spent>>
    BY <1>0, <1>11 DEF PaidOverBudget, Return, TypeOK, history
  <2>2. PaidTotal(c)
    BY <1>11, PaidTotalHolds DEF PaidOverBudget, Return
  <2>3. FreshInv(c)' /\ TotalInv(c)'
    BY <2>1 DEF FreshInv, TotalInv
  <2>4. spent[c] > MaxPayment
    BY <1>a, <2>1, <2>2, PolicyAssumption DEF OverBudget, PaidTotal
  <2>5. BudgetInv(c)' /\ PostsInv(c)'
    BY <1>0, <1>a, <2>1, <2>4 DEF CallInv, BudgetInv, PostsInv
  <2> QED
    BY <2>3, <2>5 DEF CallInv
<1>12. CASE PaidFails(c)
  BY <1>12, ReturnKeepsInv DEF PaidFails, history, PC
<1>13. CASE Retry(c)
  BY <1>0, <1>13, <1>a DEF Retry, Post, TypeOK, CallInv, FreshInv,
     TotalInv, BudgetInv, PostsInv, history, chain
<1>14. CASE Finish(c)
  BY <1>0, <1>14, <1>a DEF Finish, Return, TypeOK, CallInv, FreshInv,
     TotalInv, BudgetInv, PostsInv, history, chain
<1>15. CASE Drop(c)
  BY <1>15, ReturnKeepsInv DEF Drop, history, PC
<1> QED
  BY <1>1, <1>2, <1>3, <1>4, <1>5, <1>6, <1>7, <1>8, <1>9, <1>10, <1>11,
     <1>12, <1>13, <1>14, <1>15, Zenon DEF CallStep

\* A step of a call submits only what the policy allows.
LEMMA PolicyStep ==
  ASSUME Inv, NEW c \in Calls, CallStep(c) \/ Drop(c)
  PROVE  TransfersHonourPolicy'
<1>1. CASE Send(c)
  <2>1. Paying(c)
    BY <1>1 DEF Send, Goto, Inv, CallInv, FreshInv
  <2>2. offer[c] \in Seq(Accept)
    BY <2>1, PaymentsAssumption DEF Paying
  <2>3. PolicyAllows(header[c])
    BY <2>1, <2>2, ValidOffer DEF Paying, PolicyAllows
  <2> QED
    BY <1>1, <2>3 DEF Send, Inv, TransfersHonourPolicy
<1>2. CASE ~Send(c)
  <2>1. UNCHANGED submitted
    BY <1>2 DEF CallStep, Drop, chain, Start, ProbeOk, ProbeDemandsPayment,
       ProbeFails, Refuse, SigningFails, Sign, SendFails, PaidOk,
       PaidOverBudget, PaidFails, Retry, Finish
  <2> QED
    BY <2>1 DEF Inv, TransfersHonourPolicy
<1> QED
  BY <1>1, <1>2

-----------------------------------------------------------------------------
\* Inv holds initially and every step keeps it.
THEOREM Invariance == Spec => []Inv
<1>1. Init => Inv
  BY PolicyAssumption, PaymentsAssumption
     DEF Init, Inv, TypeOK, PC, Amount, CallInv, FreshInv, TotalInv, BudgetInv,
         PostsInv, TransfersHonourPolicy, SaturatingAdd, Capped
<1>2. Inv /\ [Next]_vars => Inv'
  <2> SUFFICES ASSUME Inv, [Next]_vars PROVE Inv'
    OBVIOUS
  <2>1. ASSUME NEW c \in Calls, CallStep(c) \/ Drop(c) PROVE Inv'
    <3>1. ASSUME NEW d \in Calls, d # c PROVE CallInv(d)'
      <4>1. CallInv(d) /\ Locals(d)' = Locals(d)
        BY <2>1, <3>1, OthersUntouched DEF Inv
      <4> QED
        BY <4>1 DEF Locals, CallInv, FreshInv, Paying, TotalInv, BudgetInv, PostsInv
    <3>2. CallInv(c)'
      BY <2>1, CallInvStep
    <3>3. TypeOK' /\ TransfersHonourPolicy'
      BY <2>1, TypeStep, PolicyStep
    <3> QED
      BY <3>1, <3>2, <3>3 DEF Inv
  <2>2. ASSUME UNCHANGED <<local, history, submitted>>, TypeOK' PROVE Inv'
    BY <2>2 DEF Inv, local, history, CallInv, FreshInv, Paying, TotalInv,
       BudgetInv, PostsInv, TransfersHonourPolicy
  <2>3. CASE NewBlockhash
    <3>1. TypeOK'
      BY <2>3, PaymentsAssumption
         DEF Inv, TypeOK, NewBlockhash, local, history
    <3> QED
      BY <2>2, <2>3, <3>1 DEF NewBlockhash
  <2>4. ASSUME NEW tx \in submitted, Settle(tx) PROVE Inv'
    <3>1. tx.amount \in Nat /\ tx.amount <= funds
      BY <2>4 DEF Inv, TypeOK, Settle, Transfer, Amount
    <3>2. TypeOK'
      BY <2>4, <3>1, PaymentsAssumption DEF Inv, TypeOK, Settle, local, history
    <3> QED
      BY <2>2, <2>4, <3>2 DEF Settle
  <2>5. CASE UNCHANGED vars
    <3>1. TypeOK'
      BY <2>5 DEF Inv, TypeOK, vars
    <3> QED
      BY <2>2, <2>5, <3>1 DEF vars, local, history
  <2> QED
    BY <2>1, <2>3, <2>4, <2>5 DEF Next
<1> QED
  BY <1>1, <1>2, PTL DEF Spec

\* Every variable has its type; total_paid_atomic never leaves the u64 range.
THEOREM TypeCorrect == Spec => []TypeOK
<1>1. Inv => TypeOK
  BY DEF Inv
<1> QED
  BY <1>1, Invariance, PTL

\* At each decision to pay, the running total is the money handed over.
THEOREM AccountingHolds == Spec => []Accounting
<1>1. Inv => Accounting
  BY DEF Inv, CallInv, TotalInv, Accounting
<1> QED
  BY <1>1, Invariance, PTL

\* No number of retries makes a call hand over more than twice the cap.
THEOREM SpendIsBounded == Spec => []SpendWithinTwiceCap
<1>1. Inv => SpendWithinTwiceCap
  BY DEF Inv, CallInv, BudgetInv, SpendWithinTwiceCap
<1> QED
  BY <1>1, Invariance, PTL

\* A response is returned only for a call within its cap.
THEOREM ResponsesStayWithinCap == Spec => []OkWithinCap
<1>1. Inv => OkWithinCap
  BY DEF Inv, CallInv, BudgetInv, OkWithinCap
<1> QED
  BY <1>1, Invariance, PTL

\* BudgetExceeded is never reported by mistake.
THEOREM BudgetErrorIsTrue == Spec => []BudgetErrorMeansOverspent
<1>1. Inv => BudgetErrorMeansOverspent
  BY DEF Inv, CallInv, BudgetInv, BudgetErrorMeansOverspent
<1> QED
  BY <1>1, Invariance, PTL

\* Only transfers the policy allows ever reach the gateway.
THEOREM PolicyIsHonoured == Spec => []TransfersHonourPolicy
<1>1. Inv => TransfersHonourPolicy
  BY DEF Inv
<1> QED
  BY <1>1, Invariance, PTL

\* A call makes a bounded number of POSTs.
THEOREM PostsAreBounded == Spec => []BoundedPosts
<1>1. ASSUME Inv, NEW c \in Calls PROVE posts[c] <= 2 * (MaxQualityRetries + 1)
  <2>1. /\ pc[c] \in PC /\ posts[c] \in Nat
        /\ attempt[c] \in Nat /\ attempt[c] <= MaxQualityRetries
        /\ MaxQualityRetries \in Nat
    BY <1>1, PaymentsAssumption DEF Inv, TypeOK
  <2>2. FreshInv(c) /\ PostsInv(c)
    BY <1>1 DEF Inv, CallInv
  <2> QED
    BY <2>1, <2>2 DEF FreshInv, PostsInv, PC
<1>2. Inv => BoundedPosts
  BY <1>1 DEF BoundedPosts
<1> QED
  BY <1>2, Invariance, PTL

-----------------------------------------------------------------------------
(* The paid request implements Allowance.                                  *)

\* As far as the owner of the wallet sees, a step of a call does nothing, hands a
\* transfer over, or concludes.
Silent(c)   == UNCHANGED <<spent, outcome, submitted>>
HandOver(c) == /\ pc[c] = "send"
               /\ spent' = [spent EXCEPT ![c] = @ + header[c].amount]
               /\ submitted' = submitted \union {header[c]}
               /\ UNCHANGED outcome
Closes(c)   == \E r \in {"ok"} \union Errors :
                 /\ pc[c] # "done" /\ pc'[c] = "done"
                 /\ outcome' = [outcome EXCEPT ![c] = r]
                 /\ UNCHANGED <<spent, submitted>>
                 /\ r = "BudgetExceeded" => Capped

\* Each step of a call is of one of these kinds; none of them executes a transfer.
LEMMA Kinds ==
  ASSUME Inv, NEW c \in Calls, CallStep(c) \/ Drop(c)
  PROVE  /\ Silent(c) \/ HandOver(c) \/ Closes(c)
         /\ UNCHANGED <<settled, funds>>
<1> USE DEF TypeOK, Goto, Return, Post, history, chain, Errors, ValidationErrors,
            Silent, HandOver, Closes
<1>0. TypeOK
  BY DEF Inv
<1>1. CASE Start(c)               BY <1>0, <1>1 DEF Start
<1>2. CASE ProbeOk(c)             BY <1>0, <1>2 DEF ProbeOk
<1>3. CASE ProbeDemandsPayment(c) BY <1>0, <1>3 DEF ProbeDemandsPayment
<1>4. CASE ProbeFails(c)          BY <1>0, <1>4 DEF ProbeFails
<1>5. CASE Refuse(c)
  <2>1. Validate(offer[c]) \in ValidationErrors \union {"ParseError"}
    BY <1>5, Zenon DEF Refuse, Validate, ValidationErrors
  <2> QED
    BY <1>0, <1>5, <2>1 DEF Refuse
<1>6. CASE SigningFails(c)        BY <1>0, <1>6 DEF SigningFails
<1>7. CASE Sign(c)                BY <1>0, <1>7 DEF Sign
<1>8. CASE Send(c)                BY <1>0, <1>8 DEF Send
<1>9. CASE SendFails(c)           BY <1>0, <1>9 DEF SendFails
<1>10. CASE PaidOk(c)             BY <1>0, <1>10 DEF PaidOk
<1>11. CASE PaidOverBudget(c)
  <2>1. Paying(c) /\ OverBudget(c)
    BY <1>11 DEF PaidOverBudget, Inv, CallInv, FreshInv
  <2>2. TotalWith(c) \in Amount
    BY <2>1, TotalWithType
  <2>3. Capped
    BY <2>1, <2>2, PolicyAssumption DEF OverBudget, Capped, Amount
  <2> QED
    BY <1>0, <1>11, <2>3 DEF PaidOverBudget
<1>12. CASE PaidFails(c)          BY <1>0, <1>12 DEF PaidFails
<1>13. CASE Retry(c)              BY <1>0, <1>13 DEF Retry
<1>14. CASE Finish(c)             BY <1>0, <1>14 DEF Finish
<1>15. CASE Drop(c)               BY <1>0, <1>15 DEF Drop
<1> QED
  BY <1>1, <1>2, <1>3, <1>4, <1>5, <1>6, <1>7, <1>8, <1>9, <1>10, <1>11,
     <1>12, <1>13, <1>14, <1>15, Zenon DEF CallStep

\* A call sends a payment only while it is within its limit, and only a permitted one.
LEMMA HandOverIsPromised ==
  ASSUME Inv, TransfersHonourPolicy', NEW c \in Calls, HandOver(c),
         UNCHANGED <<settled, funds>>
  PROVE  Promise!HandOver(c)
<1>1. outcome[c] = "none" /\ header[c] \in Transfer
  BY DEF HandOver, Inv, CallInv, FreshInv, Paying
<1>2. Capped => spent[c] <= MaxPayment
  BY DEF HandOver, Inv, CallInv, BudgetInv
<1>3. Promise!WithinLimit(c)
  BY <1>2 DEF Promise!WithinLimit
<1>4. PolicyAllows(header[c])
  BY DEF HandOver, TransfersHonourPolicy, PolicyAllows
<1> QED
  BY <1>1, <1>3, <1>4 DEF Promise!HandOver, HandOver

\* What a call returns tells whether it is within its limit.
LEMMA ConclusionIsPromised ==
  ASSUME Inv, Inv', NEW c \in Calls, Closes(c), UNCHANGED <<settled, funds>>
  PROVE  Promise!Conclude(c)
<1>1. PICK r \in {"ok"} \union Errors :
        /\ pc[c] # "done"
        /\ outcome' = [outcome EXCEPT ![c] = r]
        /\ UNCHANGED <<spent, submitted>>
        /\ r = "BudgetExceeded" => Capped
  BY DEF Closes
<1>2. outcome[c] = "none" /\ outcome'[c] = r
  BY <1>1 DEF Inv, TypeOK, CallInv, FreshInv
<1>3. /\ r = "ok" => (Capped => spent[c] <= MaxPayment)
      /\ r = "BudgetExceeded" => spent[c] > MaxPayment
  BY <1>1, <1>2 DEF Inv, CallInv, BudgetInv, Capped
<1>4. r = "ok" => Promise!WithinLimit(c)
  BY <1>3 DEF Promise!WithinLimit
<1>5. r = "BudgetExceeded" => ~Promise!WithinLimit(c)
  <2>1. Capped => MaxPayment \in Nat /\ None \notin Nat /\ spent[c] \in Nat
    BY PolicyAssumption DEF Capped, Inv, TypeOK
  <2> QED
    BY <1>1, <1>3, <2>1 DEF Promise!WithinLimit, Capped
<1>6. r \in {"ok", "BudgetExceeded"} \union (Errors \ {"BudgetExceeded"})
  OBVIOUS
<1> QED
  BY <1>1, <1>2, <1>4, <1>5, <1>6 DEF Promise!Conclude

\* A call hands over permitted transfers only, and none once it is over the limit
\* or has returned; what it returns tells on which side of the limit it is; and
\* nothing but those transfers, each once, leaves the wallet.
THEOREM PaymentsKeepThePromise ==
  Spec => ImplementsAllowance
<1>1. Init => Promise!Init
  BY DEF Init, Promise!Init
<1>2. Inv /\ Inv' /\ [Next]_vars => [Promise!Next]_(Promise!vars)
  <2> SUFFICES ASSUME Inv, Inv', [Next]_vars
               PROVE  [Promise!Next]_(Promise!vars)
    OBVIOUS
  <2>1. ASSUME UNCHANGED <<spent, outcome, submitted, settled, funds>>
        PROVE  UNCHANGED Promise!vars
    BY <2>1 DEF Promise!vars
  <2>2. ASSUME NEW c \in Calls, CallStep(c) \/ Drop(c)
        PROVE  [Promise!Next]_(Promise!vars)
    <3>1. UNCHANGED <<settled, funds>> /\ (Silent(c) \/ HandOver(c) \/ Closes(c))
      BY <2>2, Kinds
    <3>2. CASE Silent(c)
      BY <2>1, <3>1, <3>2 DEF Silent
    <3>3. CASE HandOver(c)
      BY <3>1, <3>3, HandOverIsPromised DEF Promise!Next, Inv
    <3>4. CASE Closes(c)
      BY <3>1, <3>4, ConclusionIsPromised DEF Promise!Next
    <3> QED
      BY <3>1, <3>2, <3>3, <3>4
  <2>3. CASE NewBlockhash
    BY <2>1, <2>3 DEF NewBlockhash, local, history
  <2>4. ASSUME NEW tx \in submitted, Settle(tx)
        PROVE  [Promise!Next]_(Promise!vars)
    <3>1. Promise!Execute(tx)
      BY <2>4 DEF Settle, local, history, Promise!Execute
    <3> QED
      BY <3>1 DEF Promise!Next
  <2>5. CASE UNCHANGED vars
    BY <2>1, <2>5 DEF vars
  <2> QED
    BY <2>2, <2>3, <2>4, <2>5 DEF Next
<1> QED
  BY <1>1, <1>2, Invariance, PTL DEF Spec, ImplementsAllowance, Promise!Spec

-----------------------------------------------------------------------------
(* Folds and sums over a finite set: that they have a value, what it is,   *)
(* and that a sum does not depend on the order in which it is made.        *)

\* A nonempty collection of subsets of a finite set has a member that leaves the
\* collection whichever element it loses.
LEMMA SmallestMember ==
  ASSUME NEW S, IsFiniteSet(S), NEW B \in SUBSET (SUBSET S), B # {}
  PROVE  \E s \in B : \A x \in s : s \ {x} \notin B
<1> DEFINE Sizes == {n \in Nat : \E s \in B : Cardinality(s) = n}
<1>1. \A s \in B : IsFiniteSet(s) /\ Cardinality(s) \in Nat
  BY FS_Subset, FS_CardinalityType, Zenon
<1>2. Sizes \in SUBSET Nat /\ Sizes # {}
  BY <1>1
<1>3. PICK n \in Sizes : \A k \in Sizes : n <= k
  BY <1>2, LeastNatural, Zenon
<1>4. PICK s \in B : Cardinality(s) = n
  BY <1>3
<1>5. ASSUME NEW x \in s, s \ {x} \in B PROVE FALSE
  <2>1. Cardinality(s \ {x}) = n - 1
    BY <1>1, <1>4, FS_RemoveElement
  <2>2. Cardinality(s \ {x}) \in Sizes
    BY <1>1, <1>5, Zenon
  <2>3. n \in Nat
    OBVIOUS
  <2>4. n <= Cardinality(s \ {x})
    BY <1>3, <2>2, Zenon
  <2> QED
    BY <2>1, <2>3, <2>4
<1> QED
  BY <1>4, <1>5, Zenon

\* P says which element of a nonempty set is next.
IsChoice(P, S) == \A s \in SUBSET S : s # {} => P[s] \in s

\* g is the fold of every subset of S: D says how the element that is next and
\* the fold of the rest make a value.
IsFold(g, S, D, base, P) ==
  g = [s \in SUBSET S |-> IF s = {} THEN base ELSE D[<<P[s], g[s \ {P[s]}]>>]]

\* A finite set has a fold, of the type of its step.
LEMMA FoldExists ==
  ASSUME NEW S, IsFiniteSet(S), NEW V, NEW base \in V, NEW D \in [S \X V -> V],
         NEW P, IsChoice(P, S)
  PROVE  \E g \in [SUBSET S -> V] : IsFold(g, S, D, base, P)
<1> DEFINE Upto(n) == {s \in SUBSET S : Cardinality(s) <= n}
           Step(g, s) == IF s = {} THEN base ELSE D[<<P[s], g[s \ {P[s]}]>>]
           Good(g, n) == /\ g \in [Upto(n) -> V]
                         /\ g = [s \in Upto(n) |-> Step(g, s)]
           Bad == {n \in Nat : ~ \E g : Good(g, n)}
<1>1. \A s \in SUBSET S : IsFiniteSet(s) /\ Cardinality(s) \in Nat
  BY FS_Subset, FS_CardinalityType, Zenon
<1>2. \A s \in SUBSET S : Cardinality(s) <= 0 => s = {}
  BY <1>1, FS_EmptySet
<1>3. ASSUME NEW n \in Nat, NEW s \in Upto(n + 1), s # {}
      PROVE  P[s] \in S /\ s \ {P[s]} \in Upto(n)
  <2>1. P[s] \in s /\ P[s] \in S /\ IsFiniteSet(s) /\ Cardinality(s) \in Nat
    BY <1>1, <1>3 DEF IsChoice
  <2>2. Cardinality(s \ {P[s]}) = Cardinality(s) - 1
    BY <2>1, FS_RemoveElement
  <2> QED
    BY <1>3, <2>1, <2>2
<1>4. Bad = {}
  <2> SUFFICES ASSUME Bad # {} PROVE FALSE
    OBVIOUS
  <2>1. PICK n \in Bad : \A k \in Bad : n <= k
    <3>1. Bad \in SUBSET Nat
      OBVIOUS
    <3> HIDE DEF Bad
    <3> QED
      BY <3>1, LeastNatural, Zenon
  <2>2. n \in Nat /\ ~ \E g : Good(g, n)
    OBVIOUS
  <2>3. CASE n = 0
    <3> DEFINE h == [s \in Upto(0) |-> base]
    <3>1. \A s \in Upto(0) : s = {}
      BY <1>2
    <3>2. Good(h, 0)
      <4> HIDE DEF Upto
      <4>1. \A s \in Upto(0) : Step(h, s) = base
        BY <3>1, Zenon
      <4> HIDE DEF Step
      <4> QED
        BY <4>1
    <3> QED
      BY <2>2, <2>3, <3>2, Zenon
  <2>4. CASE n # 0
    <3> DEFINE m == n - 1
    <3>1. m \in Nat /\ n = m + 1 /\ ~(n <= m)
      BY <2>2, <2>4
    <3> HIDE DEF m
    <3>2. m \notin Bad
      BY <2>1, <3>1, Zenon
    <3>3. PICK g : Good(g, m)
      BY <3>1, <3>2
    <3> DEFINE h == [s \in Upto(n) |-> Step(g, s)]
    <3>4. Upto(m) \subseteq Upto(n)
      BY <1>1, <3>1
    <3>5. ASSUME NEW s \in Upto(n), s # {}
          PROVE  P[s] \in S /\ s \ {P[s]} \in Upto(m)
      BY <1>3, <3>1, <3>5
    <3> HIDE DEF Upto
    <3>6. g \in [Upto(m) -> V] /\ \A s \in Upto(m) : g[s] = Step(g, s)
      <4> HIDE DEF Step
      <4> QED
        BY <3>3
    <3>7. \A s \in Upto(m) : h[s] = g[s]
      <4> HIDE DEF Step
      <4> QED
        BY <3>4, <3>6
    <3>8. ASSUME NEW s \in Upto(n) PROVE Step(g, s) \in V
      BY <3>5, <3>6
    <3>9. ASSUME NEW s \in Upto(n) PROVE Step(h, s) = Step(g, s)
      <4> HIDE DEF h
      <4> QED
        BY <3>5, <3>7
    <3>10. Good(h, n)
      <4> HIDE DEF Step
      <4>1. h \in [Upto(n) -> V]
        BY <3>8
      <4>2. \A s \in Upto(n) : Step(h, s) = Step(g, s)
        BY <3>9
      <4>3. h = [s \in Upto(n) |-> Step(g, s)]
        OBVIOUS
      <4> HIDE DEF h
      <4> QED
        BY <4>1, <4>2, <4>3
    <3> QED
      BY <2>2, <3>10, Zenon
  <2> QED
    BY <2>3, <2>4
<1>5. Cardinality(S) \in Nat
  BY <1>1
<1>6. PICK g : Good(g, Cardinality(S))
  BY <1>4, <1>5
<1>7. Upto(Cardinality(S)) = SUBSET S
  BY FS_Subset
<1> QED
  BY <1>6, <1>7, Zenon DEF IsFold

\* The element the library's sum takes next from a set.
Pick(s) == CHOOSE x \in s : TRUE

\* One step of the sum, from the sums g of the smaller sets.
SumStep(f, g, s) == IF s = {} THEN 0 ELSE f[Pick(s)] + g[s \ {Pick(s)}]

IsSum(f, g, S) == g = [s \in SUBSET S |-> SumStep(f, g, s)]

\* The library's sum is that of some function that satisfies its recursion, if
\* there is one.
LEMMA SumUnfolds ==
  ASSUME NEW f, NEW S
  PROVE  SumFunctionOnSet(f, S) = (CHOOSE g : IsSum(f, g, S))[S]
BY DEF SumFunctionOnSet, FoldFunctionOnSet, MapThenFoldSet, IsSum, SumStep, Pick

\* There is one.
LEMMA SumExists ==
  ASSUME NEW f, NEW S, IsFiniteSet(S), \A x \in S : f[x] \in Nat
  PROVE  \E g \in [SUBSET S -> Nat] : IsSum(f, g, S)
<1> DEFINE D == [p \in S \X Nat |-> f[p[1]] + p[2]]
           P == [s \in SUBSET S |-> Pick(s)]
<1>1. D \in [S \X Nat -> Nat]
  OBVIOUS
<1>2. IsChoice(P, S)
  BY DEF Pick, IsChoice
<1>3. 0 \in Nat
  OBVIOUS
<1> HIDE DEF D, P
<1>4. PICK g \in [SUBSET S -> Nat] : IsFold(g, S, D, 0, P)
  BY <1>1, <1>2, <1>3, FoldExists, Zenon
<1>5. ASSUME NEW s \in SUBSET S
      PROVE  (IF s = {} THEN 0 ELSE D[<<P[s], g[s \ {P[s]}]>>]) = SumStep(f, g, s)
  <2>1. CASE s = {}
    BY <2>1 DEF SumStep
  <2>2. CASE s # {}
    <3>1. P[s] = Pick(s) /\ P[s] \in S /\ g[s \ {P[s]}] \in Nat
      BY <1>2, <2>2 DEF P, IsChoice
    <3>2. D[<<P[s], g[s \ {P[s]}]>>] = f[P[s]] + g[s \ {P[s]}]
      BY <3>1 DEF D
    <3> QED
      BY <2>2, <3>1, <3>2 DEF SumStep
  <2> QED
    BY <2>1, <2>2
<1>6. IsSum(f, g, S)
  BY <1>4, <1>5 DEF IsSum, IsFold
<1> QED
  BY <1>6

\* The sums of two functions, over two sets, agree on the subsets of both.
LEMMA SumUnique ==
  ASSUME NEW f, NEW S, NEW R, NEW g, NEW h, IsSum(f, g, S), IsSum(f, h, R),
         NEW s, s \subseteq S, s \subseteq R, IsFiniteSet(s)
  PROVE  g[s] = h[s]
<1> DEFINE Bad == {t \in SUBSET s : g[t] # h[t]}
<1> SUFFICES ASSUME Bad # {} PROVE FALSE
  OBVIOUS
<1>1. Bad \in SUBSET (SUBSET s)
  OBVIOUS
<1>2. PICK t \in Bad : \A x \in t : t \ {x} \notin Bad
  <2> HIDE DEF Bad
  <2> QED
    BY <1>1, SmallestMember, Zenon
<1>3. t \in SUBSET S /\ t \in SUBSET R /\ g[t] # h[t]
  OBVIOUS
<1>4. g[t] = SumStep(f, g, t) /\ h[t] = SumStep(f, h, t)
  BY <1>3 DEF IsSum
<1>5. CASE t = {}
  BY <1>3, <1>4, <1>5 DEF SumStep
<1>6. CASE t # {}
  <2>1. Pick(t) \in t
    BY <1>6 DEF Pick
  <2>2. g[t \ {Pick(t)}] = h[t \ {Pick(t)}]
    BY <1>2, <2>1
  <2> QED
    BY <1>3, <1>4, <1>6, <2>2 DEF SumStep
<1> QED
  BY <1>5, <1>6

\* The recursion of the sum.
LEMMA SumRecursion ==
  ASSUME NEW f, NEW S, IsFiniteSet(S), \A x \in S : f[x] \in Nat
  PROVE  SumFunctionOnSet(f, S) =
           IF S = {} THEN 0
           ELSE f[Pick(S)] + SumFunctionOnSet(f, S \ {Pick(S)})
<1> DEFINE R == S \ {Pick(S)}
           g == CHOOSE g : IsSum(f, g, S)
           h == CHOOSE h : IsSum(f, h, R)
<1>1. IsFiniteSet(R)
  BY FS_Subset
<1>2. IsSum(f, g, S) /\ IsSum(f, h, R)
  BY <1>1, SumExists, Zenon
<1>3. SumFunctionOnSet(f, S) = g[S] /\ SumFunctionOnSet(f, R) = h[R]
  BY SumUnfolds, Zenon
<1> HIDE DEF g, h
<1>4. g[S] = SumStep(f, g, S)
  BY <1>2 DEF IsSum
<1>5. g[R] = h[R]
  BY <1>1, <1>2, SumUnique
<1> QED
  BY <1>3, <1>4, <1>5 DEF SumStep

\* A sum of naturals is a natural.
LEMMA SumType ==
  ASSUME NEW f, NEW S, IsFiniteSet(S), \A x \in S : f[x] \in Nat
  PROVE  SumFunctionOnSet(f, S) \in Nat
<1> DEFINE g == CHOOSE g : IsSum(f, g, S)
<1>1. PICK h \in [SUBSET S -> Nat] : IsSum(f, h, S)
  BY SumExists
<1>2. IsSum(f, g, S)
  BY <1>1, Zenon
<1>3. SumFunctionOnSet(f, S) = g[S]
  BY SumUnfolds, Zenon
<1> HIDE DEF g
<1>4. g[S] = h[S]
  BY <1>1, <1>2, SumUnique
<1> QED
  BY <1>1, <1>3, <1>4

\* Any element may be taken first.
LEMMA SumOneMore ==
  ASSUME NEW f, NEW S, IsFiniteSet(S), \A x \in S : f[x] \in Nat, NEW x \in S
  PROVE  SumFunctionOnSet(f, S) = f[x] + SumFunctionOnSet(f, S \ {x})
<1> DEFINE Sum(t) == SumFunctionOnSet(f, t)
           Bad == {t \in SUBSET S : \E y \in t : Sum(t) # f[y] + Sum(t \ {y})}
<1> SUFFICES ASSUME Bad # {} PROVE FALSE
  BY Zenon
<1>0. PICK t \in Bad : \A z \in t : t \ {z} \notin Bad
  <2>1. Bad \in SUBSET (SUBSET S)
    OBVIOUS
  <2> HIDE DEF Bad
  <2> QED
    BY <2>1, SmallestMember, Zenon
<1>1. PICK y \in t : Sum(t) # f[y] + Sum(t \ {y})
  BY Zenon
<1> DEFINE p == Pick(t)
<1>2. t \in SUBSET S /\ p \in t
  BY Zenon DEF Pick
<1>3. \A u \in SUBSET S : Sum(u) \in Nat /\ IsFiniteSet(u)
  <2> SUFFICES ASSUME NEW u \in SUBSET S PROVE Sum(u) \in Nat /\ IsFiniteSet(u)
    BY Zenon
  <2>1. IsFiniteSet(u) /\ \A z \in u : f[z] \in Nat
    BY FS_Subset
  <2> QED
    BY <2>1, SumType
<1>4. Sum(t) = f[p] + Sum(t \ {p})
  BY <1>2, <1>3, SumRecursion
<1> HIDE DEF p, Sum
<1>5. p # y
  BY <1>1, <1>4
<1>6. t \ {p} \notin Bad /\ t \ {y} \notin Bad
  BY <1>0, <1>2, Zenon
<1>7. /\ t \ {p} \in SUBSET S /\ y \in t \ {p}
      /\ t \ {y} \in SUBSET S /\ p \in t \ {y}
  BY <1>2, <1>5
<1>8. Sum(t \ {p}) = f[y] + Sum((t \ {p}) \ {y})
  BY <1>6, <1>7, Zenon
<1>9. Sum(t \ {y}) = f[p] + Sum((t \ {y}) \ {p})
  BY <1>6, <1>7, Zenon
<1>10. (t \ {p}) \ {y} = (t \ {y}) \ {p} /\ (t \ {y}) \ {p} \in SUBSET S
  BY <1>2
<1>11. f[p] \in Nat /\ f[y] \in Nat /\ Sum((t \ {y}) \ {p}) \in Nat
  BY <1>2, <1>3, <1>10
<1>12. Sum(t \ {p}) = f[y] + Sum((t \ {y}) \ {p})
  BY <1>8, <1>10, Zenon
<1> HIDE DEF Bad
<1> QED
  BY <1>1, <1>4, <1>9, <1>11, <1>12

\* Larger terms make a larger sum.
LEMMA SumMonotonic ==
  ASSUME NEW f, NEW g, NEW S, IsFiniteSet(S),
         \A x \in S : f[x] \in Nat /\ g[x] \in Nat /\ f[x] <= g[x]
  PROVE  SumFunctionOnSet(f, S) <= SumFunctionOnSet(g, S)
<1> DEFINE Bad == {t \in SUBSET S :
                     ~(SumFunctionOnSet(f, t) <= SumFunctionOnSet(g, t))}
<1> SUFFICES ASSUME Bad # {} PROVE FALSE
  BY Zenon
<1>1. PICK t \in Bad : \A x \in t : t \ {x} \notin Bad
  <2>1. Bad \in SUBSET (SUBSET S)
    OBVIOUS
  <2> HIDE DEF Bad
  <2> QED
    BY <2>1, SmallestMember, Zenon
<1>2. t \in SUBSET S /\ ~(SumFunctionOnSet(f, t) <= SumFunctionOnSet(g, t))
  BY Zenon
<1> DEFINE p == Pick(t)  r == t \ {p}
<1>3. /\ SumFunctionOnSet(f, t) = IF t = {} THEN 0
            ELSE f[p] + SumFunctionOnSet(f, r)
      /\ SumFunctionOnSet(g, t) = IF t = {} THEN 0
            ELSE g[p] + SumFunctionOnSet(g, r)
  BY <1>2, FS_Subset, SumRecursion, Zenon
<1>4. t # {}
  BY <1>2, <1>3
<1>5. p \in t /\ p \in S
  BY <1>2, <1>4 DEF Pick
<1>6. r \in SUBSET S /\ IsFiniteSet(r)
  BY <1>2, FS_Subset
<1>7. SumFunctionOnSet(f, r) <= SumFunctionOnSet(g, r)
  BY <1>1, <1>5, <1>6, Zenon
<1> HIDE DEF p, r, Bad
<1>8. f[p] \in Nat /\ g[p] \in Nat /\ f[p] <= g[p]
  BY <1>5
<1>9. SumFunctionOnSet(f, r) \in Nat /\ SumFunctionOnSet(g, r) \in Nat
  BY <1>6, SumType
<1> QED
  BY <1>2, <1>3, <1>4, <1>7, <1>8, <1>9

-----------------------------------------------------------------------------
(* The quality retries: what the count of windows finds, and what a call   *)
(* that returns an answer has done about it.                               *)

\* The last of a set of positions.
LEMMA LastPosition ==
  ASSUME NEW n \in Nat, NEW s \in SUBSET (1 .. n), s # {}
  PROVE  Max(s) \in s
<1> DEFINE Bounds == {b \in Nat : \A x \in s : x <= b}
<1>1. n \in Bounds /\ Bounds \in SUBSET Nat
  OBVIOUS
<1>2. PICK b \in Bounds : \A k \in Bounds : b <= k
  <2> HIDE DEF Bounds
  <2> QED
    BY <1>1, LeastNatural, Zenon
<1>3. b \in Nat /\ \A x \in s : x <= b /\ x \in Nat /\ x >= 1
  OBVIOUS
<1>4. b \in s
  <2> SUFFICES ASSUME b \notin s PROVE FALSE
    OBVIOUS
  <2>0. PICK y : y \in s
    OBVIOUS
  <2>1. b - 1 \in Nat /\ ~(b <= b - 1)
    BY <1>3, <2>0
  <2>2. \A z \in s : z <= b - 1
    BY <1>3
  <2> QED
    BY <1>2, <2>1, <2>2
<1>5. \A y \in s : b >= y
  BY <1>3
<1> QED
  BY <1>4, <1>5 DEF Max

\* F has the words of every part of the text.
IsWords(F, text) ==
  F = [r \in SUBSET DOMAIN text |->
         IF r = {} THEN <<>>
         ELSE IF text[Max(r)] = Space THEN F[r \ {Max(r)}]
         ELSE Append(F[r \ {Max(r)}], text[Max(r)])]

\* The words of a text are a sequence of tokens.
LEMMA WordsType ==
  ASSUME NEW text \in Seq(Tokens)
  PROVE  Words(text) \in Seq(Tokens)
<1> DEFINE S == DOMAIN text
           V == Seq(Tokens)
           P == [r \in SUBSET S |-> Max(r)]
           D == [p \in S \X V |-> IF text[p[1]] = Space THEN p[2]
                                  ELSE Append(p[2], text[p[1]])]
           G == CHOOSE G : IsWords(G, text)
<1>1. S = 1 .. Len(text) /\ Len(text) \in Nat
  OBVIOUS
<1>2. IsFiniteSet(S)
  BY <1>1, FS_Interval
<1>3. IsChoice(P, S)
  BY <1>1, LastPosition DEF IsChoice
<1>4. D \in [S \X V -> V] /\ <<>> \in V
  OBVIOUS
<1>5. Words(text) = G[S]
  BY Zenon DEF Words, FoldLeft, MapThenFoldSet, IsWords
<1> HIDE DEF D, P, S, G
<1>6. PICK g \in [SUBSET S -> V] : IsFold(g, S, D, <<>>, P)
  <2> HIDE DEF V
  <2> QED
    BY <1>2, <1>3, <1>4, FoldExists, Zenon
<1>7. \A r \in SUBSET S : r # {} => Max(r) \in r /\ P[r] = Max(r)
  BY <1>1, LastPosition DEF P
<1>8. IsWords(g, text)
  <2>1. ASSUME NEW r \in SUBSET S, r # {}
        PROVE  D[<<P[r], g[r \ {P[r]}]>>] =
                 IF text[Max(r)] = Space THEN g[r \ {Max(r)}]
                 ELSE Append(g[r \ {Max(r)}], text[Max(r)])
    <3>1. Max(r) \in S /\ P[r] = Max(r) /\ g[r \ {Max(r)}] \in V
      BY <1>7, <2>1
    <3> QED
      BY <3>1 DEF D
  <2> QED
    BY <1>6, <2>1 DEF IsFold, IsWords, S
<1>9. IsWords(G, text)
  BY <1>8, Zenon DEF G
<1> DEFINE Bad == {r \in SUBSET S : G[r] \notin V}
<1>10. Bad = {}
  <2> SUFFICES ASSUME Bad # {} PROVE FALSE
    OBVIOUS
  <2>1. PICK r \in Bad : \A x \in r : r \ {x} \notin Bad
    <3>1. Bad \in SUBSET (SUBSET S)
      OBVIOUS
    <3> HIDE DEF Bad
    <3> QED
      BY <1>2, <3>1, SmallestMember, Zenon
  <2>2. r \in SUBSET S /\ G[r] \notin V
    OBVIOUS
  <2>3. G[r] = IF r = {} THEN <<>>
               ELSE IF text[Max(r)] = Space THEN G[r \ {Max(r)}]
               ELSE Append(G[r \ {Max(r)}], text[Max(r)])
    BY <1>9, <2>2 DEF IsWords, S
  <2>4. r # {}
    BY <2>2, <2>3
  <2>5. Max(r) \in r /\ text[Max(r)] \in Tokens
    <3>1. Max(r) \in r /\ Max(r) \in 1 .. Len(text)
      BY <1>1, <1>7, <2>2, <2>4
    <3> QED
      BY <3>1
  <2>6. G[r \ {Max(r)}] \in V
    BY <2>1, <2>2, <2>5
  <2> QED
    BY <2>2, <2>3, <2>4, <2>5, <2>6
<1> QED
  BY <1>5, <1>10

\* F has what the first choice and every part of the rest join to.
IsContent(F, first, rest) ==
  F = [r \in SUBSET DOMAIN rest |->
         IF r = {} THEN first
         ELSE F[r \ {Max(r)}] \o <<Space>> \o rest[Max(r)]]

\* The joined choices are a sequence of tokens.
LEMMA ContentType ==
  ASSUME NEW answer \in Seq(Seq(Tokens))
  PROVE  AggregateContent(answer) \in Seq(Tokens)
<1>0. CASE answer = <<>>
  <2>1. AggregateContent(answer) = <<>>
    BY <1>0, Zenon DEF AggregateContent
  <2> QED
    BY <2>1
<1> SUFFICES ASSUME answer # <<>> PROVE AggregateContent(answer) \in Seq(Tokens)
  BY <1>0
<1> DEFINE first == Head(answer)
           rest == Tail(answer)
           S == DOMAIN rest
           V == Seq(Tokens)
           P == [r \in SUBSET S |-> Max(r)]
           D == [p \in S \X V |-> p[2] \o <<Space>> \o rest[p[1]]]
           G == CHOOSE G : IsContent(G, first, rest)
<1>1. /\ first \in V /\ rest \in Seq(V)
      /\ S = 1 .. Len(rest) /\ Len(rest) \in Nat
  OBVIOUS
<1>2. IsFiniteSet(S)
  BY <1>1, FS_Interval
<1>3. IsChoice(P, S)
  BY <1>1, LastPosition DEF IsChoice
<1>4. AggregateContent(answer) = G[S]
  BY Zenon DEF AggregateContent, FoldLeft, MapThenFoldSet, IsContent
<1> HIDE DEF first, rest
<1>5. \A x \in S : \A v \in V : v \o <<Space>> \o rest[x] \in V
  BY <1>1, QualityAssumption
<1>6. D \in [S \X V -> V]
  <2> HIDE DEF S, V
  <2> QED
    BY <1>5
<1> HIDE DEF D, P, S, G
<1>7. PICK g \in [SUBSET S -> V] : IsFold(g, S, D, first, P)
  <2> HIDE DEF V
  <2> QED
    BY <1>1, <1>2, <1>3, <1>6, FoldExists, Zenon
<1>8. \A r \in SUBSET S : r # {} => Max(r) \in r /\ P[r] = Max(r)
  BY <1>1, LastPosition DEF P
<1> HIDE DEF V
<1>9. IsContent(g, first, rest)
  <2>1. ASSUME NEW r \in SUBSET S, r # {}
        PROVE  D[<<P[r], g[r \ {P[r]}]>>] = g[r \ {Max(r)}] \o <<Space>> \o rest[Max(r)]
    <3>1. Max(r) \in S /\ P[r] = Max(r) /\ g[r \ {Max(r)}] \in V
      BY <1>8, <2>1
    <3> QED
      BY <3>1 DEF D
  <2> QED
    BY <1>7, <2>1 DEF IsFold, IsContent, S
<1>10. IsContent(G, first, rest)
  BY <1>9, Zenon DEF G
<1> DEFINE Bad == {r \in SUBSET S : G[r] \notin V}
<1>11. Bad = {}
  <2> SUFFICES ASSUME Bad # {} PROVE FALSE
    OBVIOUS
  <2>1. PICK r \in Bad : \A x \in r : r \ {x} \notin Bad
    <3>1. Bad \in SUBSET (SUBSET S)
      OBVIOUS
    <3> HIDE DEF Bad
    <3> QED
      BY <1>2, <3>1, SmallestMember, Zenon
  <2>2. r \in SUBSET S /\ G[r] \notin V
    OBVIOUS
  <2>3. G[r] = IF r = {} THEN first
               ELSE G[r \ {Max(r)}] \o <<Space>> \o rest[Max(r)]
    BY <1>10, <2>2 DEF IsContent, S
  <2>4. r # {}
    BY <1>1, <2>2, <2>3
  <2>5. Max(r) \in r /\ Max(r) \in S
    BY <1>8, <2>2, <2>4
  <2>6. G[r \ {Max(r)}] \in V
    BY <2>1, <2>2, <2>5
  <2> QED
    BY <1>5, <2>2, <2>3, <2>4, <2>5, <2>6
<1> QED
  BY <1>4, <1>11 DEF V

\* A finite set has a subset of every size up to its own.
LEMMA SubsetOfSize ==
  ASSUME NEW M, IsFiniteSet(M), NEW k \in Nat, k <= Cardinality(M)
  PROVE  \E S \in SUBSET M : Cardinality(S) = k
<1> DEFINE m == Cardinality(M)
<1>1. m \in Nat /\ ExistsBijection(1 .. m, M)
  BY FS_CardinalityType
<1>2. PICK f : f \in Bijection(1 .. m, M)
  BY <1>1, Zenon DEF ExistsBijection
<1> DEFINE S == {f[x] : x \in 1 .. k}
           g == [x \in 1 .. k |-> f[x]]
<1>3. f \in [1 .. m -> M] /\ \A x, y \in 1 .. m : f[x] = f[y] => x = y
  BY <1>2 DEF Bijection, Injection, IsInjective
<1>4. 1 .. k \subseteq 1 .. m
  BY <1>1
<1> HIDE DEF m
<1>5. S \in SUBSET M
  BY <1>3, <1>4
<1>6. g \in [1 .. k -> S]
  OBVIOUS
<1>7. g \in Injection(1 .. k, S)
  BY <1>3, <1>4, <1>6 DEF Injection, IsInjective
<1>8. g \in Surjection(1 .. k, S)
  BY <1>6 DEF Surjection
<1>9. ExistsBijection(1 .. k, S)
  BY <1>7, <1>8, Zenon DEF ExistsBijection, Bijection
<1>10. Cardinality(S) = k
  BY <1>9, FS_CountingElements
<1> QED
  BY <1>5, <1>10, Zenon

\* Two windows are equal when the same phrase starts at both.
LEMMA WindowsCompare ==
  ASSUME NEW T, NEW words \in Seq(T),
         NEW i \in DOMAIN Windows(words), NEW j \in DOMAIN Windows(words)
  PROVE  Windows(words)[i] = Windows(words)[j] <=> SamePhrase(words, i, j)
<1> DEFINE n == Len(words)  w == RepetitionWindow
<1>1. w \in Nat \ {0} /\ n \in Nat
  BY QualityAssumption
<1>2. i \in 1 .. n - w + 1 /\ j \in 1 .. n - w + 1
  BY DEF Windows
<1>3. /\ Windows(words)[i] = SubSeq(words, i, i + w - 1)
      /\ Windows(words)[j] = SubSeq(words, j, j + w - 1)
  BY DEF Windows
<1> DEFINE WI == SubSeq(words, i, i + w - 1)
           WJ == SubSeq(words, j, j + w - 1)
<1>4. /\ WI \in Seq(T) /\ Len(WI) = w /\ \A x \in 1 .. w : WI[x] = words[i + x - 1]
      /\ WJ \in Seq(T) /\ Len(WJ) = w /\ \A x \in 1 .. w : WJ[x] = words[j + x - 1]
  BY <1>1, <1>2
<1> HIDE DEF WI, WJ
<1>5. WI = WJ <=> \A x \in 1 .. w : WI[x] = WJ[x]
  BY <1>4, SeqEqual
<1> HIDE DEF n, w
<1>6. (\A x \in 1 .. w : WI[x] = WJ[x])
        <=> \A d \in 0 .. w - 1 : words[i + d] = words[j + d]
  <2>1. ASSUME \A x \in 1 .. w : WI[x] = WJ[x], NEW d \in 0 .. w - 1
        PROVE  words[i + d] = words[j + d]
    <3>1. d + 1 \in 1 .. w /\ i + (d + 1) - 1 = i + d /\ j + (d + 1) - 1 = j + d
      BY <1>1, <1>2
    <3> QED
      BY <1>4, <2>1, <3>1, Zenon
  <2>2. ASSUME \A d \in 0 .. w - 1 : words[i + d] = words[j + d], NEW x \in 1 .. w
        PROVE  WI[x] = WJ[x]
    <3>1. x - 1 \in 0 .. w - 1 /\ i + (x - 1) = i + x - 1 /\ j + (x - 1) = j + x - 1
      BY <1>1, <1>2
    <3> QED
      BY <1>4, <2>2, <3>1, Zenon
  <2> QED
    BY <2>1, <2>2, Zenon
<1>7. \A d \in 0 .. w - 1 : {i, j} \subseteq 1 .. n - d
  BY <1>1, <1>2
<1> QED
  BY <1>3, <1>5, <1>6, <1>7, Zenon DEF SamePhrase, WI, WJ, n, w

\* The count of windows finds a loop exactly when some phrase is said at as many
\* places as the threshold.
LEMMA LoopsAreFound ==
  ASSUME NEW T, NEW words \in Seq(T)
  PROVE  HasRepetitiveLoop(words) <=>
           \E S \in kSubset(RepetitionThreshold, DOMAIN words) :
             \A i, j \in S : SamePhrase(words, i, j)
<1> DEFINE D == DOMAIN Windows(words)
           Alike(i) == {j \in D : Windows(words)[j] = Windows(words)[i]}
           k == RepetitionThreshold
<1>1. /\ Len(words) \in Nat /\ DOMAIN words = 1 .. Len(words)
      /\ RepetitionWindow \in Nat \ {0} /\ k \in Nat \ {0}
  BY QualityAssumption
<1>2. D = 1 .. Len(words) - RepetitionWindow + 1
  BY DEF Windows
<1>3. D \subseteq DOMAIN words /\ IsFiniteSet(D)
  BY <1>1, <1>2, FS_Interval
<1> HIDE DEF D
<1>4. ASSUME NEW i \in D PROVE IsFiniteSet(Alike(i)) /\ Cardinality(Alike(i)) \in Nat
  <2>1. Alike(i) \in SUBSET D
    OBVIOUS
  <2> QED
    BY <1>3, <2>1, FS_Subset, FS_CardinalityType, Zenon
<1>5. HasRepetitiveLoop(words) <=> \E i \in D : Cardinality(Alike(i)) >= k
  BY Zenon DEF HasRepetitiveLoop, D
<1> HIDE DEF k
<1>6. ASSUME NEW i \in D, Cardinality(Alike(i)) >= k
      PROVE  \E S \in kSubset(k, DOMAIN words) :
               \A a, b \in S : SamePhrase(words, a, b)
  <2>1. k <= Cardinality(Alike(i))
    BY <1>1, <1>4, <1>6
  <2>2. PICK S \in SUBSET Alike(i) : Cardinality(S) = k
    BY <1>1, <1>4, <2>1, SubsetOfSize
  <2>3. S \in kSubset(k, DOMAIN words)
    BY <1>3, <2>2 DEF kSubset
  <2>4. ASSUME NEW a \in S, NEW b \in S PROVE SamePhrase(words, a, b)
    <3>1. a \in D /\ b \in D /\ Windows(words)[a] = Windows(words)[b]
      BY <2>2
    <3> QED
      BY <3>1, WindowsCompare, Zenon DEF D
  <2> QED
    BY <2>3, <2>4, Zenon
<1>7. ASSUME NEW S \in kSubset(k, DOMAIN words),
             \A a, b \in S : SamePhrase(words, a, b)
      PROVE  \E i \in D : Cardinality(Alike(i)) >= k
  <2>1. S \in SUBSET (DOMAIN words) /\ Cardinality(S) = k
    BY DEF kSubset
  <2>2. S # {}
    BY <1>1, <2>1, FS_EmptySet
  <2>3. PICK i : i \in S
    BY <2>2
  <2>4. ASSUME NEW j \in S PROVE j \in Alike(i)
    <3>1. SamePhrase(words, j, i)
      BY <1>7, <2>3
    <3>2. RepetitionWindow - 1 \in 0 .. RepetitionWindow - 1
      BY <1>1
    <3>3. {j, i} \subseteq 1 .. Len(words) - (RepetitionWindow - 1)
      BY <3>1, <3>2, Zenon DEF SamePhrase
    <3>4. j \in D /\ i \in D
      BY <1>1, <1>2, <3>3
    <3> QED
      BY <3>1, <3>4, WindowsCompare, Zenon DEF D
  <2>5. i \in D /\ S \in SUBSET Alike(i)
    BY <2>3, <2>4
  <2>6. Cardinality(S) <= Cardinality(Alike(i))
    BY <1>4, <2>5, FS_Subset, Zenon
  <2> QED
    BY <1>1, <1>4, <2>1, <2>5, <2>6
<1> QED
  BY <1>5, <1>6, <1>7, Zenon DEF k

\* is_degraded finds a bad answer exactly when there is something bad in it: for
\* an answer of any number of choices, of any length, over any tokens.
THEOREM DegradedIsNotGood ==
  ASSUME NEW a \in Answer
  PROVE  IsDegraded(a) <=> ~ReadsWell(a)
<1> DEFINE text == AggregateContent(a)
           words == Words(text)
<1>1. HasRepetitiveLoop(words) <=>
        ~ \A S \in kSubset(RepetitionThreshold, DOMAIN words) :
            \E i, j \in S : ~SamePhrase(words, i, j)
  <2>1. a \in Seq(Seq(Tokens))
    <3>1. a \in Seq(Text)
      BY DEF Answer
    <3>2. \A i \in 1 .. Len(a) : a[i] \in Text
      BY <3>1
    <3>3. \A i \in 1 .. Len(a) : a[i] \in Seq(Tokens)
      BY <3>2 DEF Text
    <3>4. a = [i \in 1 .. Len(a) |-> a[i]] /\ Len(a) \in Nat
      BY <3>1
    <3> QED
      BY <3>3, <3>4
  <2>2. words \in Seq(Tokens)
    BY <2>1, ContentType, WordsType, Zenon
  <2> QED
    BY <2>2, LoopsAreFound, Zenon
<1> HIDE DEF text
<1>2. IsDegraded(a) <=>
        \/ words = <<>>
        \/ \E phrase \in KnownErrorPhrases : ContainsPhrase(text, phrase)
        \/ HasRepetitiveLoop(words)
        \/ ByteLen(text) > TruncationMinLen /\ Last(text) \in Alphanumeric
  BY Zenon DEF IsDegraded, EndsMidWord, text
<1>3. ReadsWell(a) <=>
        /\ words # <<>>
        /\ \A phrase \in KnownErrorPhrases : ~ContainsPhrase(text, phrase)
        /\ \A S \in kSubset(RepetitionThreshold, DOMAIN words) :
             \E i, j \in S : ~SamePhrase(words, i, j)
        /\ ByteLen(text) > TruncationMinLen => Last(text) \notin Alphanumeric
  BY Zenon DEF ReadsWell, text
<1> QED
  BY <1>1, <1>2, <1>3, Zenon

\* Where a call holds an answer and returns it.
AnswerInv(c) ==
  /\ pc[c] = "loop" \/ outcome[c] = "ok" => response[c] \in Answers
  /\ pc[c] # "done" => outcome[c] # "ok"
  /\ QualityCheck /\ outcome[c] = "ok" =>
       response[c] \notin Degraded \/ attempt[c] = MaxQualityRetries

\* A step of a call keeps what is known of its answer.
LEMMA AnswerStep ==
  ASSUME TypeOK, NEW c \in Calls, AnswerInv(c), CallStep(c) \/ Drop(c)
  PROVE  AnswerInv(c)'
<1> USE DEF TypeOK, AnswerInv, Goto, Return, Post, history, chain, Errors,
            ValidationErrors
<1>1. CASE Start(c)               BY <1>1 DEF Start
<1>2. CASE ProbeOk(c)             BY <1>2 DEF ProbeOk
<1>3. CASE ProbeDemandsPayment(c) BY <1>3 DEF ProbeDemandsPayment
<1>4. CASE ProbeFails(c)          BY <1>4 DEF ProbeFails
<1>5. CASE Refuse(c)
  <2>1. Validate(offer[c]) # "ok"
    BY Zenon DEF Validate
  <2> QED
    BY <1>5, <2>1 DEF Refuse
<1>6. CASE SigningFails(c)        BY <1>6 DEF SigningFails
<1>7. CASE Sign(c)                BY <1>7 DEF Sign
<1>8. CASE Send(c)                BY <1>8 DEF Send
<1>9. CASE SendFails(c)           BY <1>9 DEF SendFails
<1>10. CASE PaidOk(c)             BY <1>10 DEF PaidOk
<1>11. CASE PaidOverBudget(c)     BY <1>11 DEF PaidOverBudget
<1>12. CASE PaidFails(c)          BY <1>12 DEF PaidFails
<1>13. CASE Retry(c)              BY <1>13 DEF Retry
<1>14. CASE Finish(c)             BY <1>14 DEF Finish
<1>15. CASE Drop(c)               BY <1>15 DEF Drop
<1> QED
  BY <1>1, <1>2, <1>3, <1>4, <1>5, <1>6, <1>7, <1>8, <1>9, <1>10, <1>11,
     <1>12, <1>13, <1>14, <1>15, Zenon DEF CallStep

\* A response that is still degraded is returned only by a call whose retries
\* are used up, whatever happened on the way.
THEOREM AnswersAreChecked == Spec => [](\A c \in Calls : AnswerInv(c))
<1> DEFINE AllAnswers == \A c \in Calls : AnswerInv(c)
<1>1. Init => AllAnswers
  BY DEF Init, AnswerInv
<1>2. TypeOK /\ AllAnswers /\ [Next]_vars => AllAnswers'
  <2> SUFFICES ASSUME TypeOK, AllAnswers, [Next]_vars, NEW c \in Calls
               PROVE  AnswerInv(c)'
    BY DEF AnswerInv
  <2>1. ASSUME NEW d \in Calls, CallStep(d) \/ Drop(d) PROVE AnswerInv(c)'
    <3>1. CASE d = c
      BY <2>1, <3>1, AnswerStep
    <3>2. CASE d # c
      BY <2>1, <3>2, OthersUntouched DEF Locals, AnswerInv
    <3> QED
      BY <3>1, <3>2
  <2>2. CASE UNCHANGED local
    BY <2>2 DEF local, AnswerInv
  <2> QED
    BY <2>1, <2>2 DEF Next, NewBlockhash, Settle, vars, local
<1> HIDE DEF AllAnswers
<1>3. Spec => []AllAnswers
  BY <1>1, <1>2, TypeCorrect, PTL DEF Spec
<1> QED
  BY <1>3 DEF AllAnswers

\* A call returns a bad answer only when no retry is left.
THEOREM RetriesAreWorthTheirMoney == Spec => []OkIsGoodOrExhausted
<1>1. (\A c \in Calls : AnswerInv(c)) => OkIsGoodOrExhausted
  <2> SUFFICES ASSUME NEW c \in Calls, AnswerInv(c), QualityCheck, outcome[c] = "ok"
               PROVE  response[c] \in GoodAnswers \/ attempt[c] = MaxQualityRetries
    BY DEF OkIsGoodOrExhausted
  <2>1. response[c] \in Answers
    BY DEF AnswerInv
  <2>2. CASE response[c] \notin Degraded
    <3>1. ~IsDegraded(response[c])
      BY <2>1, <2>2 DEF Degraded
    <3>2. ReadsWell(response[c])
      BY <2>1, <3>1, DegradedIsNotGood, PaymentsAssumption, Zenon
    <3> QED
      BY <2>1, <3>2 DEF GoodAnswers
  <2> QED
    BY <2>2 DEF AnswerInv
<1> QED
  BY <1>1, AnswersAreChecked, PTL

-----------------------------------------------------------------------------
(* Where the wallet's money went.                                          *)

Price == [tx \in Transfer |-> tx.amount]

\* What the gateway holds and has not settled.
Pending == SumFunctionOnSet(Price, submitted \ settled)

\* All that left the wallet, or still may, was handed over by some call.
LossInv ==
  /\ IsFiniteSet(submitted)
  /\ (InitialFunds - funds) + Pending <= SumFunction(spent)

\* One call spends more: so does the sum of the calls.
LEMMA OneSpendsMore ==
  ASSUME NEW f \in [Calls -> Nat], NEW c \in Calls, NEW n \in Nat
  PROVE  SumFunction([f EXCEPT ![c] = @ + n]) = SumFunction(f) + n
<1> DEFINE g == [f EXCEPT ![c] = @ + n]
           Others == Calls \ {c}
<1>1. g \in [Calls -> Nat] /\ g[c] = f[c] + n /\ \A d \in Others : g[d] = f[d]
  OBVIOUS
<1>2. IsFiniteSet(Calls) /\ IsFiniteSet(Others)
  BY PaymentsAssumption, FS_Subset
<1> HIDE DEF g
<1>3. /\ SumFunctionOnSet(f, Calls) = f[c] + SumFunctionOnSet(f, Others)
      /\ SumFunctionOnSet(g, Calls) = g[c] + SumFunctionOnSet(g, Others)
  BY <1>1, <1>2, SumOneMore
<1>4. \A d \in Others : f[d] \in Nat /\ g[d] \in Nat /\ f[d] <= g[d] /\ g[d] <= f[d]
  BY <1>1
<1>5. /\ SumFunctionOnSet(f, Others) <= SumFunctionOnSet(g, Others)
      /\ SumFunctionOnSet(g, Others) <= SumFunctionOnSet(f, Others)
  BY <1>2, <1>4, SumMonotonic
<1>6. SumFunctionOnSet(f, Others) \in Nat /\ SumFunctionOnSet(g, Others) \in Nat
  BY <1>2, <1>4, SumType
<1>7. f[c] \in Nat
  OBVIOUS
<1>8. SumFunctionOnSet(g, Calls) = SumFunctionOnSet(f, Calls) + n
  BY <1>1, <1>3, <1>5, <1>6, <1>7
<1>9. /\ SumFunction(f) = SumFunctionOnSet(f, Calls)
      /\ SumFunction(g) = SumFunctionOnSet(g, Calls)
  BY <1>1, Zenon DEF SumFunction
<1> QED
  BY <1>8, <1>9, Zenon DEF g

\* Submitted transfers have a price.
LEMMA PricesOfSubmitted ==
  ASSUME TypeOK, LossInv, NEW T, T \subseteq submitted
  PROVE  /\ IsFiniteSet(T)
         /\ \A tx \in T : Price[tx] = tx.amount /\ Price[tx] \in Nat
         /\ SumFunctionOnSet(Price, T) \in Nat
<1>1. IsFiniteSet(T)
  BY FS_Subset DEF LossInv
<1>2. \A tx \in T : Price[tx] = tx.amount /\ Price[tx] \in Nat
  BY DEF Price, TypeOK, Transfer, Amount
<1> QED
  BY <1>1, <1>2, SumType

\* Handing over a transfer, new or sent before, is paid for by its call.
LEMMA SendKeepsLoss ==
  ASSUME Inv, LossInv, NEW c \in Calls, Send(c)
  PROVE  LossInv'
<1> DEFINE tx == header[c]
<1>1. tx \in Transfer /\ tx.amount \in Nat
  <2>1. Paying(c)
    BY DEF Inv, CallInv, FreshInv, Send, Goto
  <2> QED
    BY <2>1, PayingFacts DEF Paying
<1>2. /\ submitted' = submitted \union {tx}
      /\ spent' = [spent EXCEPT ![c] = @ + tx.amount]
      /\ UNCHANGED <<settled, funds>>
  BY DEF Send
<1>3. TypeOK /\ spent \in [Calls -> Nat] /\ settled \subseteq submitted
  BY DEF Inv, TypeOK
<1>4. SumFunction(spent') = SumFunction(spent) + tx.amount
  BY <1>1, <1>2, <1>3, OneSpendsMore
<1>5. IsFiniteSet(submitted')
  BY <1>2, FS_AddElement DEF LossInv
<1>6. /\ funds \in Nat /\ InitialFunds \in Nat
      /\ SumFunction(spent) \in Nat /\ Pending \in Nat
  <2>1. SumFunction(spent) \in Nat
    BY <1>3, PaymentsAssumption, SumType DEF SumFunction
  <2>2. Pending \in Nat
    BY <1>3, PricesOfSubmitted DEF Pending
  <2> QED
    BY <1>3, <2>1, <2>2, PaymentsAssumption DEF TypeOK
<1>7. Pending' = Pending \/ Pending' = tx.amount + Pending
  <2>1. Pending' = SumFunctionOnSet(Price, submitted' \ settled)
    BY <1>2 DEF Pending, Price, Transfer, Amount
  <2>2. CASE tx \in submitted
    <3>1. submitted' \ settled = submitted \ settled
      BY <1>2, <2>2
    <3> QED
      BY <2>1, <3>1 DEF Pending
  <2>3. CASE tx \notin submitted
    <3> DEFINE T == submitted' \ settled
    <3>1. tx \in T /\ T \ {tx} = submitted \ settled
      BY <1>2, <1>3, <2>3
    <3>2. IsFiniteSet(T)
      BY <1>5, FS_Subset
    <3>3. Price[tx] = tx.amount /\ \A t \in T : Price[t] \in Nat
      BY <1>1, <1>2, <1>3, PricesOfSubmitted DEF Price
    <3> HIDE DEF T
    <3>4. SumFunctionOnSet(Price, T) = Price[tx] + SumFunctionOnSet(Price, T \ {tx})
      BY <3>1, <3>2, <3>3, SumOneMore
    <3> QED
      BY <2>1, <3>1, <3>3, <3>4 DEF Pending, T
  <2> QED
    BY <2>2, <2>3
<1> HIDE DEF tx
<1> QED
  BY <1>1, <1>2, <1>4, <1>5, <1>6, <1>7 DEF LossInv

\* Settling moves money that was pending out of the wallet.
LEMMA SettleKeepsLoss ==
  ASSUME Inv, LossInv, NEW tx \in submitted, Settle(tx)
  PROVE  LossInv'
<1> DEFINE T == submitted \ settled
<1>1. TypeOK /\ settled \subseteq submitted
  BY DEF Inv, TypeOK
<1>2. tx \in T /\ tx.amount <= funds
      /\ settled' = settled \union {tx} /\ funds' = funds - tx.amount
      /\ UNCHANGED <<submitted, spent>>
  BY DEF Settle, history
<1>3. submitted' \ settled' = T \ {tx}
  BY <1>2
<1>4. IsFiniteSet(T) /\ \A t \in T : Price[t] = t.amount /\ Price[t] \in Nat
  BY <1>1, PricesOfSubmitted
<1> HIDE DEF T
<1>5. SumFunctionOnSet(Price, T) = Price[tx] + SumFunctionOnSet(Price, T \ {tx})
  BY <1>2, <1>4, SumOneMore
<1>6. Pending' = SumFunctionOnSet(Price, T \ {tx})
  BY <1>3 DEF Pending, Price, Transfer, Amount
<1>7. Pending = tx.amount + Pending'
  BY <1>2, <1>4, <1>5, <1>6, Zenon DEF Pending, T
<1>8. tx.amount \in Nat /\ Pending' \in Nat /\ funds \in Nat /\ InitialFunds \in Nat
      /\ SumFunction(spent) \in Nat
  <2>1. SumFunction(spent) \in Nat
    BY <1>1, PaymentsAssumption, SumType DEF SumFunction, TypeOK
  <2>2. Pending' \in Nat
    BY <1>1, <1>6, PricesOfSubmitted DEF T
  <2>3. tx.amount \in Nat
    BY <1>2, <1>4
  <2>4. funds \in Nat /\ InitialFunds \in Nat
    BY <1>1, PaymentsAssumption DEF TypeOK
  <2> QED
    BY <2>1, <2>2, <2>3, <2>4, Zenon
<1>9. (InitialFunds - funds) + Pending <= SumFunction(spent)
  BY DEF LossInv
<1>10. (InitialFunds - funds') + Pending' <= SumFunction(spent)
  BY <1>2, <1>7, <1>8, <1>9
<1>11. SumFunction(spent') = SumFunction(spent)
  BY <1>2
<1> QED
  BY <1>2, <1>10, <1>11 DEF LossInv

\* The wallet never loses more than the calls handed over: no transfer counts
\* twice against it, whichever calls sent it.
THEOREM LossIsHandedOver == Spec => []LossInv
<1>1. Init => LossInv
  <2> SUFFICES ASSUME Init PROVE LossInv
    OBVIOUS
  <2>1. submitted = {} /\ settled = {} /\ funds = InitialFunds
        /\ spent \in [Calls -> Nat]
    BY DEF Init
  <2>2. Pending = 0 /\ IsFiniteSet({})
    BY <2>1, FS_EmptySet, SumRecursion DEF Pending
  <2>3. SumFunction(spent) \in Nat
    BY <2>1, PaymentsAssumption, SumType DEF SumFunction
  <2> QED
    BY <2>1, <2>2, <2>3, PaymentsAssumption DEF LossInv
<1>2. Inv /\ LossInv /\ [Next]_vars => LossInv'
  <2> SUFFICES ASSUME Inv, LossInv, [Next]_vars PROVE LossInv'
    OBVIOUS
  <2>1. ASSUME UNCHANGED <<submitted, settled, funds, spent>> PROVE LossInv'
    BY <2>1 DEF LossInv, Pending, Price, Transfer, Amount
  <2>2. ASSUME NEW c \in Calls, CallStep(c) \/ Drop(c) PROVE LossInv'
    <3>1. CASE Send(c)
      BY <3>1, SendKeepsLoss
    <3>2. CASE ~Send(c)
      <4>1. UNCHANGED <<submitted, settled, funds, spent>>
        BY <2>2, <3>2 DEF CallStep, Drop, chain, history, Start, ProbeOk,
           ProbeDemandsPayment, ProbeFails, Refuse, SigningFails, Sign,
           SendFails, PaidOk, PaidOverBudget, PaidFails, Retry, Finish
      <4> QED
        BY <2>1, <4>1
    <3> QED
      BY <3>1, <3>2
  <2>3. CASE NewBlockhash
    BY <2>1, <2>3 DEF NewBlockhash, history
  <2>4. ASSUME NEW tx \in submitted, Settle(tx) PROVE LossInv'
    BY <2>4, SettleKeepsLoss
  <2>5. CASE UNCHANGED vars
    BY <2>1, <2>5 DEF vars
  <2> QED
    BY <2>2, <2>3, <2>4, <2>5 DEF Next
<1> QED
  BY <1>1, <1>2, Invariance, PTL DEF Spec

\* While no call has failed and none is paying, the wallet has lost no more than
\* the totals the calls account for.
THEOREM WalletLossIsCounted == Spec => []LossAccountedFor
<1>1. Inv /\ LossInv => LossAccountedFor
  <2> SUFFICES ASSUME Inv, LossInv, Capped,
                      \A c \in Calls : pc[c] \in {"idle", "loop"} \/ outcome[c] = "ok"
               PROVE  InitialFunds - funds <= SumFunction(total)
    BY DEF LossAccountedFor
  <2>1. ASSUME NEW c \in Calls PROVE total[c] = spent[c] /\ spent[c] \in Nat
    <3>1. total[c] = SaturatingAdd(spent[c], 0) /\ spent[c] <= MaxPayment
      BY DEF Inv, CallInv, TotalInv, BudgetInv
    <3>2. spent[c] \in Nat
      BY DEF Inv, TypeOK
    <3> QED
      BY <3>1, <3>2, PolicyAssumption DEF Capped, SaturatingAdd, Amount
  <2>2. DOMAIN total = Calls /\ DOMAIN spent = Calls
    BY DEF Inv, TypeOK
  <2>3. IsFiniteSet(Calls)
    BY PaymentsAssumption
  <2>4. \A c \in Calls : spent[c] \in Nat /\ total[c] \in Nat /\ spent[c] <= total[c]
    BY <2>1
  <2>5. SumFunction(spent) <= SumFunction(total)
    BY <2>2, <2>3, <2>4, SumMonotonic DEF SumFunction
  <2>6. /\ Pending \in Nat /\ SumFunction(spent) \in Nat /\ SumFunction(total) \in Nat
        /\ InitialFunds - funds \in Int
    <3>1. SumFunction(spent) \in Nat /\ SumFunction(total) \in Nat
      BY <2>2, <2>3, <2>4, SumType DEF SumFunction
    <3>2. Pending \in Nat
      BY PricesOfSubmitted DEF Inv, Pending
    <3> QED
      BY <3>1, <3>2, PaymentsAssumption DEF Inv, TypeOK
  <2> QED
    BY <2>5, <2>6 DEF LossInv
<1> QED
  BY <1>1, Invariance, LossIsHandedOver, PTL
=============================================================================
