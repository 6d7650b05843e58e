--------------------------- MODULE PaidForwarding ---------------------------
(***************************************************************************)
(* What the proxy promises to the programs behind it, and chat_stream to   *)
(* its caller: a request costs at most one payment, which the policy       *)
(* allows, and the answer tells whether it can have cost anything.         *)
(***************************************************************************)
CONSTANTS
  Requests,
  Allowed,      \* the payments that the policy allows
  FreeErrors,   \* answers given before any payment
  PaidErrors,   \* answers given after a payment only
  OtherAnswers  \* answers that leave it open

VARIABLES
  handed,  \* the payments handed over for each request
  answer   \* the set of answers to each request: none or one

vars == <<handed, answer>>

Init == /\ handed = [r \in Requests |-> {}]
        /\ answer = [r \in Requests |-> {}]

Pay(r) == /\ handed[r] = {} /\ answer[r] = {}
          /\ \E payment \in Allowed : handed' = [handed EXCEPT ![r] = {payment}]
          /\ UNCHANGED answer

Answer(r) == /\ answer[r] = {}
             /\ \E a \in FreeErrors \union PaidErrors \union OtherAnswers :
                  /\ a \in FreeErrors => handed[r] = {}
                  /\ a \in PaidErrors => handed[r] # {}
                  /\ answer' = [answer EXCEPT ![r] = {a}]
             /\ UNCHANGED handed

Next == \E r \in Requests : Pay(r) \/ Answer(r)

Spec == Init /\ [][Next]_vars
=============================================================================
