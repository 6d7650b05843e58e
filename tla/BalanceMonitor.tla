--------------------------- MODULE BalanceMonitor ---------------------------
(***************************************************************************)
(* The two readers of the wallet's USDC balance: the background task       *)
(* BalanceMonitor::run, which keeps the client's shared balance_state, and *)
(* the callers of SolvelaClient::usdc_balance_of.  Both ask the RPC node   *)
(* the same question and read its answer the same way, while the account   *)
(* changes and the node fails.  Amounts are atomic USDC.                   *)
(*                                                                         *)
(* Time is abstracted: any time may pass before a tick of the monitor's    *)
(* interval, or before an answer (the monitor's HTTP client has no         *)
(* timeout, so its answer may never come).                                 *)
(***************************************************************************)
EXTENDS Integers, Sequences

CONSTANTS
  Monitor,     \* the background task
  Callers,     \* the calls to usdc_balance_of
  Unknown,     \* nothing yet; as a value of balance_state, u64::MAX
  Balances,    \* the balances the account may have
  Threshold,   \* low_balance_threshold
  ExactUpTo,   \* the f64 product ui_amount * 1e6 is exact up to this amount
  MaxPolls     \* bound: the number of successful polls

ASSUME BalanceMonitorAssumption ==
  /\ Monitor \notin Callers
  /\ Unknown \notin Callers \union {Monitor} \union Nat
  /\ Balances \subseteq Nat
  /\ 0 \in Balances
  /\ Threshold \in Nat
  /\ ExactUpTo \in Nat
  /\ MaxPolls \in Nat

Askers == Callers \union {Monitor}

VARIABLES
  account,  \* the balance of the token account; 0 also if it does not exist
  phase,    \* where each asker is
  reply,    \* the answer on its way to an asker
  shared,   \* balance_state
  wasLow,   \* was_low
  alarms,   \* the amounts the low-balance callback was called with
  result,   \* what a caller's query returned
  polls,    \* history: the amounts of the successful polls
  held,     \* history: the balances of the account since an asker asked
  shown,    \* history: those since the poll that shared comes from was sent
  misread   \* history: shared comes from an answer that has no amount

monitorHist == <<polls, held, shown, misread>>
monitorVars == <<account, phase, reply, shared, wasLow, alarms, result, monitorHist>>

\* An answer states an amount, has an error object or no uiAmount, or is a
\* failure: no connection, an HTTP error, a body that is not JSON.
Answer == [kind : {"amount"}, amount : Balances]
            \union [kind : {"noAmount", "failure"}, amount : {0}]

\* fetch_balance, and the same code in usdc_balance_of: an error object is
\* taken for a missing account, whatever its code.
Succeeds(a) == a.kind # "failure"
UiAmount(a) == IF a.kind = "amount" THEN a.amount ELSE 0

\* Mutant: one unit may be missing from zero, too.
TruncatedFromZero(amount) == {amount, amount - 1}

\* "as u64" truncates a product that rounding may leave just below the amount.
Truncated(amount) == {amount} \union IF amount > ExactUpTo THEN {amount - 1} ELSE {}

IsLow(amount) == amount < Threshold

MonitorTypeOK ==
  /\ account \in Balances
  /\ phase   \in [Askers -> {"idle", "asked", "answered", "exited"}]
  /\ reply   \in [Askers -> Answer \union {Unknown}]
  /\ shared  \in Nat \union {Unknown}
  /\ wasLow  \in BOOLEAN
  /\ alarms  \in Seq(Balances)
  /\ result  \in [Callers -> Balances \union {Unknown}]
  /\ polls   \in Seq(Balances)
  /\ held    \in [Askers -> SUBSET Balances]
  /\ shown   \in SUBSET Balances
  /\ misread \in BOOLEAN

\* The monitor exits at once if the wallet's address does not parse.
MonitorInit ==
  /\ account \in Balances
  /\ phase \in {[a \in Askers |-> IF a = Monitor THEN p ELSE "idle"] :
                  p \in {"idle", "exited"}}
  /\ reply   = [a \in Askers |-> Unknown]
  /\ shared  = Unknown
  /\ wasLow  = FALSE
  /\ alarms  = <<>>
  /\ result  = [c \in Callers |-> Unknown]
  /\ polls   = <<>>
  /\ held    = [a \in Askers |-> {}]
  /\ shown   = {}
  /\ misread = FALSE

-----------------------------------------------------------------------------
\* A tick of the monitor's interval, or a call of usdc_balance_of.
Ask(a) ==
  /\ phase[a] = "idle"
  /\ a = Monitor => Len(polls) < MaxPolls
  /\ phase' = [phase EXCEPT ![a] = "asked"]
  /\ held' = [held EXCEPT ![a] = {account}]
  /\ UNCHANGED <<account, reply, shared, wasLow, alarms, result, polls, shown, misread>>

\* The node answers: the balance it sees, an error, or not at all.
Serve(a) ==
  /\ phase[a] = "asked"
  /\ phase' = [phase EXCEPT ![a] = "answered"]
  /\ \E r \in Answer : /\ r.kind = "amount" => r.amount = account
                       /\ reply' = [reply EXCEPT ![a] = r]
  /\ UNCHANGED <<account, shared, wasLow, alarms, result, monitorHist>>

\* Payments, deposits, the closing of the account.
AccountChanges ==
  /\ account' \in Balances \ {account}
  /\ held' = [a \in Askers |-> IF phase[a] = "idle" THEN held[a]
                                ELSE held[a] \union {account'}]
  /\ shown' = shown \union {account'}
  /\ UNCHANGED <<phase, reply, shared, wasLow, alarms, result, polls, misread>>

\* Mutant: the callback is called for every low balance.
ApplyEveryTime ==
  LET amount == UiAmount(reply[Monitor]) IN
  /\ phase[Monitor] = "answered" /\ Succeeds(reply[Monitor])
  /\ phase' = [phase EXCEPT ![Monitor] = "idle"]
  /\ shared' \in Truncated(amount)
  /\ alarms' = IF IsLow(amount) THEN Append(alarms, amount) ELSE alarms
  /\ wasLow' = IsLow(amount)
  /\ polls' = Append(polls, amount)
  /\ shown' = held[Monitor]
  /\ misread' = (reply[Monitor].kind # "amount")
  /\ UNCHANGED <<account, reply, result, held>>

\* A successful poll: the balance is stored, then the callback is called if
\* the balance is low and was not at the last successful poll.
Apply ==
  LET amount == UiAmount(reply[Monitor]) IN
  /\ phase[Monitor] = "answered" /\ Succeeds(reply[Monitor])
  /\ phase' = [phase EXCEPT ![Monitor] = "idle"]
  /\ shared' \in Truncated(amount)
  /\ alarms' = IF IsLow(amount) /\ ~wasLow THEN Append(alarms, amount) ELSE alarms
  /\ wasLow' = IsLow(amount)
  /\ polls' = Append(polls, amount)
  /\ shown' = held[Monitor]
  /\ misread' = (reply[Monitor].kind # "amount")
  /\ UNCHANGED <<account, reply, result, held>>

\* Mutants: a failed poll forgets that the balance was low; it stores zero.
PollFailsForgetting ==
  /\ phase[Monitor] = "answered" /\ ~Succeeds(reply[Monitor])
  /\ phase' = [phase EXCEPT ![Monitor] = "idle"]
  /\ wasLow' = FALSE
  /\ UNCHANGED <<account, reply, shared, alarms, result, monitorHist>>
PollFailsToZero ==
  /\ phase[Monitor] = "answered" /\ ~Succeeds(reply[Monitor])
  /\ phase' = [phase EXCEPT ![Monitor] = "idle"]
  /\ shared' = 0
  /\ UNCHANGED <<account, reply, wasLow, alarms, result, monitorHist>>

\* A failed poll is logged and changes nothing.
PollFails ==
  /\ phase[Monitor] = "answered" /\ ~Succeeds(reply[Monitor])
  /\ phase' = [phase EXCEPT ![Monitor] = "idle"]
  /\ UNCHANGED <<account, reply, shared, wasLow, alarms, result, monitorHist>>

\* usdc_balance_of returns; a failure, and a timeout, is Err(BalanceError).
Return(c) ==
  /\ phase[c] = "answered"
  /\ phase' = [phase EXCEPT ![c] = "exited"]
  /\ result' = [result EXCEPT ![c] =
       IF Succeeds(reply[c]) THEN UiAmount(reply[c]) ELSE Unknown]
  /\ UNCHANGED <<account, reply, shared, wasLow, alarms, monitorHist>>

\* The monitor's task is aborted at an await: a tick, or a request.
Abort ==
  /\ phase[Monitor] \in {"idle", "asked", "answered"}
  /\ phase' = [phase EXCEPT ![Monitor] = "exited"]
  /\ UNCHANGED <<account, reply, shared, wasLow, alarms, result, monitorHist>>

MonitorNext ==
  \/ \E a \in Askers : Ask(a) \/ Serve(a)
  \/ Apply \/ PollFails \/ Abort
  \/ \E c \in Callers : Return(c)
  \/ AccountChanges

MonitorSpec == MonitorInit /\ [][MonitorNext]_monitorVars

-----------------------------------------------------------------------------
(* Properties.                                                             *)

\* The callback is called once each time the successful polls fall below the
\* threshold, and never in between, whatever polls fail meanwhile.
AlarmsAreFalls ==
  LET Falls(i) == IsLow(polls[i]) /\ (i > 1 => ~IsLow(polls[i - 1])) IN
  \E at \in [DOMAIN alarms -> DOMAIN polls] :
    /\ \A j, k \in DOMAIN alarms : j < k => at[j] < at[k]
    /\ {at[k] : k \in DOMAIN alarms} = {i \in DOMAIN polls : Falls(i)}
    /\ \A k \in DOMAIN alarms : alarms[k] = polls[at[k]]

\* The client's copy is, to one unit, a balance that the account had since the
\* last successful poll was sent, if that poll's answer had an amount; failed
\* polls leave it alone.
SharedIsRecent ==
  shared # Unknown /\ ~misread => \E b \in shown : shared \in Truncated(b)

\* A query that returns a balance returns one that the account had meanwhile.
\* The documentation of usdc_balance_of says that a failure for another reason
\* than a missing account is an error.
QueryTellsTheBalance ==
  \A c \in Callers : result[c] # Unknown => result[c] \in held[c]
=============================================================================
