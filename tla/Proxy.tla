------------------------------- MODULE Proxy --------------------------------
(***************************************************************************)
(* The catch-all handler of solvela-client-proxy, for requests served      *)
(* concurrently: each is forwarded to the gateway, a 402 answer is paid    *)
(* for, and the request is forwarded once more with the payment.           *)
(*                                                                         *)
(* The gateway is external and may give any answer to any forward.  The    *)
(* program that sent the request may hang up at any await, which drops the *)
(* handler.  Methods, bodies, paths and the other headers are passed on    *)
(* alike and left out.                                                     *)
(***************************************************************************)
EXTENDS PaymentPolicy

CONSTANTS
  Requests,
  Offers,          \* the accepts lists that 402 answers may carry
  Foreign          \* a payment that came with the caller's own headers

ASSUME ProxyAssumption ==
  /\ Offers \subseteq Seq(Accept)
  /\ Foreign \notin [to : Recipients, amount : Amount]

VARIABLES
  pc,        \* where the handler of each request is
  supplied,  \* the payments in the caller's PAYMENT-SIGNATURE header
  offer,     \* the accepts list being paid
  header,    \* the signed payment, or None
  forwards,  \* how often the request was sent to the gateway
  handed,    \* the payments the gateway received for the request
  answer     \* the set of answers to the caller: none or one

vars == <<pc, supplied, offer, header, forwards, handed, answer>>

Payment == [to : Recipients, amount : Amount]

\* Errors the proxy answers with before anything was paid, after a payment,
\* and either way.
FreeErrors == {"gateway_timeout", "invalid_402_body", "no_compatible_scheme",
               "recipient_mismatch", "amount_exceeds_max", "signing_error",
               "proxy_error"}
PaidErrors == {"payment_rejected"}
OtherAnswers == {"passed", "gateway_unreachable", "hung_up"}

\* client_error_to_response, for the errors of sign_payment_for_402.
ErrorType(e) ==
  CASE e = "NoCompatibleScheme" -> "no_compatible_scheme"
    [] e = "RecipientMismatch"  -> "recipient_mismatch"
    [] e = "AmountExceedsMax"   -> "amount_exceeds_max"
    [] OTHER                    -> "proxy_error"

Init ==
  /\ pc       = [r \in Requests |-> "idle"]
  /\ supplied = [r \in Requests |-> {}]
  /\ offer    = [r \in Requests |-> <<>>]
  /\ header   = [r \in Requests |-> None]
  /\ forwards = [r \in Requests |-> 0]
  /\ handed   = [r \in Requests |-> {}]
  /\ answer   = [r \in Requests |-> {}]

-----------------------------------------------------------------------------
Goto(r, from, to) == pc[r] = from /\ pc' = [pc EXCEPT ![r] = to]

\* The handler returns.
Reply(r, from, a) ==
  /\ Goto(r, from, "done")
  /\ answer' = [answer EXCEPT ![r] = {a}]
  /\ UNCHANGED <<supplied, offer, header, forwards, handed>>

\* build_passthrough_response: the answer of the gateway is passed on.
PassOn(r, from) == Reply(r, from, "passed")

\* forward_headers: the caller's payment is stripped.
ForwardedPayments(r) == {}

-----------------------------------------------------------------------------
(* proxy_handler.                                                          *)

Forward(r) ==
  /\ Goto(r, "idle", "probe")
  /\ \E s \in {{}, {Foreign}} : supplied' = [supplied EXCEPT ![r] = s]
  /\ forwards' = [forwards EXCEPT ![r] = @ + 1]
  /\ UNCHANGED <<offer, header, handed, answer>>

\* What arrives at the gateway with the first forward.
Receive(r) ==
  /\ Goto(r, "probe", "reply")
  /\ handed' = [handed EXCEPT ![r] = @ \union ForwardedPayments(r)]
  /\ UNCHANGED <<supplied, offer, header, forwards, answer>>

\* Mutant: the forward is repeated until it succeeds.
ProbeRepeats(r) ==
  /\ Goto(r, "reply", "probe")
  /\ UNCHANGED <<supplied, offer, header, forwards, handed, answer>>

\* A timeout, or any other failure to get an answer.
ProbeFails(r) == \E from \in {"probe", "reply"} :
  \E a \in {"gateway_timeout", "gateway_unreachable"} : Reply(r, from, a)

\* Any status but 402.
ProbePassedOn(r) == PassOn(r, "reply")

ProbeDemandsPayment(r) ==
  /\ Goto(r, "reply", "parse")
  /\ UNCHANGED <<supplied, offer, header, forwards, handed, answer>>

-----------------------------------------------------------------------------
(* handle_402.                                                             *)

\* The body cannot be read in time, or does not parse.
InvalidBody(r) == Reply(r, "parse", "invalid_402_body")

ParseBody(r) ==
  /\ Goto(r, "parse", "sign")
  /\ \E o \in Offers : offer' = [offer EXCEPT ![r] = o]
  /\ UNCHANGED <<supplied, header, forwards, handed, answer>>

Refuse(r) == /\ Validate(offer[r]) # "valid"
             /\ Reply(r, "sign", ErrorType(Validate(offer[r])))

SigningFails(r) == /\ Validate(offer[r]) = "valid"
                   /\ Reply(r, "sign", "signing_error")

Sign(r) ==
  /\ Goto(r, "sign", "send")
  /\ Validate(offer[r]) = "valid"
  /\ LET a == PickScheme(offer[r]) IN
     header' = [header EXCEPT ![r] = [to |-> a.payTo, amount |-> a.amount]]
  /\ UNCHANGED <<supplied, offer, forwards, handed, answer>>

\* The request is forwarded again, with the payment.
Resend(r) ==
  /\ Goto(r, "send", "await")
  /\ forwards' = [forwards EXCEPT ![r] = @ + 1]
  /\ handed' = [handed EXCEPT ![r] = @ \union ForwardedPayments(r) \union {header[r]}]
  /\ UNCHANGED <<supplied, offer, header, answer>>

\* Mutant: a timeout of the paid forward is told as one of the first.
ResendFailsAlike(r) == \E from \in {"send", "await"} :
  \E a \in {"gateway_timeout", "gateway_unreachable"} : Reply(r, from, a)

\* The gateway cannot be reached, or its answer does not come: one error for
\* both, whatever became of the payment.
ResendFails(r) == \E from \in {"send", "await"} : Reply(r, from, "gateway_unreachable")

\* Mutant: a second 402 is paid again.
PayAgain(r) ==
  /\ Goto(r, "await", "parse")
  /\ UNCHANGED <<supplied, offer, header, forwards, handed, answer>>

PaymentRejected(r) == Reply(r, "await", "payment_rejected")

\* Any status but 402, an error of the gateway included.
PaidPassedOn(r) == PassOn(r, "await")

\* The caller hangs up while the handler awaits something.
HangUp(r) == \E from \in {"probe", "reply", "parse", "sign", "send", "await"} :
               Reply(r, from, "hung_up")

HandlerStep(r) ==
  \/ Forward(r) \/ Receive(r)
  \/ ProbeFails(r) \/ ProbePassedOn(r) \/ ProbeDemandsPayment(r)
  \/ InvalidBody(r) \/ ParseBody(r)
  \/ Refuse(r) \/ SigningFails(r) \/ Sign(r)
  \/ Resend(r) \/ ResendFails(r) \/ PaymentRejected(r) \/ PaidPassedOn(r)

Next == \E r \in Requests : HandlerStep(r) \/ HangUp(r)

Spec == Init /\ [][Next]_vars

\* Every await of the handler ends: its HTTP client, and the one that asks for
\* the blockhash, have timeouts.
FairSpec == Spec /\ \A r \in Requests : WF_vars(HandlerStep(r))

-----------------------------------------------------------------------------
(* Properties.                                                             *)

\* Types; a request is forwarded twice at most.
TypeOK ==
  /\ pc       \in [Requests -> {"idle", "probe", "reply", "parse", "sign", "send",
                                "await", "done"}]
  /\ supplied \in [Requests -> SUBSET {Foreign}]
  /\ offer    \in [Requests -> Offers \union {<<>>}]
  /\ header   \in [Requests -> Payment \union {None}]
  /\ forwards \in [Requests -> 0 .. 2]
  /\ handed   \in [Requests -> SUBSET (Payment \union {Foreign})]
  /\ answer   \in [Requests -> SUBSET (FreeErrors \union PaidErrors \union OtherAnswers)]

\* The payments the policy of the client allows.
AllowedPayments ==
  {p \in Payment :
     /\ \E o \in Offers : \E i \in DOMAIN o :
          Compatible(o[i]) /\ o[i].payTo = p.to /\ o[i].amount = p.amount
     /\ ExpectedRecipient # None => p.to = ExpectedRecipient
     /\ MaxPayment # None => p.amount <= MaxPayment}

Paid == INSTANCE PaidForwarding WITH Allowed <- AllowedPayments

\* The handler pays at most once for a request, an allowed amount to the allowed
\* recipient, never with the caller's own header, and the answer does not
\* contradict what was paid.
ImplementsPaidForwarding == Paid!Spec

\* Every request is answered.
Answered == \A r \in Requests : pc[r] = "probe" ~> pc[r] = "done"
=============================================================================
