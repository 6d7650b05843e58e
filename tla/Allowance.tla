------------------------------ MODULE Allowance ------------------------------
(***************************************************************************)
(* What the paid request promises to the owner of the wallet: a call hands *)
(* over permitted transfers only, and none once it is over its limit or    *)
(* has returned; what it returns tells on which side of the limit it is;   *)
(* and nothing but those transfers, each once, leaves the wallet.          *)
(***************************************************************************)
EXTENDS Naturals

CONSTANTS
  Calls,
  Transfers,     \* what can be signed
  Permitted,     \* the transfers that the policy allows
  Limit,         \* what a call may spend before it must stop, or None
  None,
  Failures,      \* results that leave it open what was spent
  InitialFunds

VARIABLES
  given,     \* the money each call has handed over
  result,    \* what each call returned, or "none"
  held,      \* the transfers handed over by all of them
  executed,  \* those that left the wallet
  funds      \* what is left in the wallet

vars == <<given, result, held, executed, funds>>

WithinLimit(c) == Limit # None => given[c] <= Limit

Init ==
  /\ given    = [c \in Calls |-> 0]
  /\ result   = [c \in Calls |-> "none"]
  /\ held     = {}
  /\ executed = {}
  /\ funds    = InitialFunds

HandOver(c) ==
  /\ result[c] = "none"
  /\ WithinLimit(c)
  /\ \E tx \in Transfers :
       /\ given' = [given EXCEPT ![c] = @ + tx.amount]
       /\ held' = held \union {tx}
       /\ tx \in Permitted
  /\ UNCHANGED <<result, executed, funds>>

Conclude(c) ==
  /\ result[c] = "none"
  /\ \E r \in {"ok", "BudgetExceeded"} \union Failures :
       /\ r = "ok" => WithinLimit(c)
       /\ r = "BudgetExceeded" => ~WithinLimit(c)
       /\ result' = [result EXCEPT ![c] = r]
  /\ UNCHANGED <<given, held, executed, funds>>

Execute(tx) ==
  /\ tx \in held \ executed
  /\ tx.amount <= funds
  /\ executed' = executed \union {tx}
  /\ funds' = funds - tx.amount
  /\ UNCHANGED <<given, result, held>>

Next == \/ \E c \in Calls : HandOver(c) \/ Conclude(c)
        \/ \E tx \in held : Execute(tx)

Spec == Init /\ [][Next]_vars
=============================================================================
