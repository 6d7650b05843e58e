---------------------------- MODULE ChatRouting -----------------------------
(***************************************************************************)
(* The first two steps of SolvelaClient::chat and chat_stream, which the   *)
(* code repeats in both: the balance guard and the session lookup settle   *)
(* the model of the request.  Calls that share one client interleave at    *)
(* every lock, and BalanceMonitor writes the balance meanwhile.  The       *)
(* actions say nothing of the state that the extending modules add.        *)
(***************************************************************************)
EXTENDS SessionTable

CONSTANTS
  Calls, Conversations, Messages, Models,
  FallbackModel,  \* config.free_fallback_model, or None
  SessionsOn,     \* config.enable_sessions
  Polled,         \* the balances that BalanceMonitor may store, if it runs
  MaxTime         \* bound: the clock stops there

ASSUME ChatRoutingAssumption ==
  /\ None \notin Calls \union Models \union SessionEntry(Models, Messages)
  /\ FallbackModel \in Models \union {None}
  /\ SessionsOn \in BOOLEAN
  /\ Polled \subseteq {"zero", "positive"}
  /\ MaxTime \in Nat

VARIABLES
  now,       \* Instant::now
  balance,   \* balance_state: "unknown" (u64::MAX), "zero" or "positive"
  sessions,  \* session_store: the table, by conversation
  pc,        \* where each call is
  request,   \* the caller's request
  model,     \* effective_req.model
  guard      \* the balance the call read, if it did

settled == <<request, model, guard>>
routing == <<now, balance, sessions, pc, settled>>

\* The first message, from which the session id is derived, belongs to the
\* conversation; the content hash and the cache key cover all messages.
Request == [sid : Conversations, msgs : Messages, model : Models]

RoutingTypeOK ==
  /\ now      \in 0 .. MaxTime
  /\ balance  \in {"unknown", "zero", "positive"}
  /\ sessions \in [Conversations -> SessionEntry(Models, Messages) \union {None}]
  /\ request  \in [Calls -> Request \union {None}]
  /\ model    \in [Calls -> Models \union {None}]
  /\ guard    \in [Calls -> {"unknown", "zero", "positive", None}]

RoutingInit ==
  /\ now      = 0
  /\ balance  = "unknown"
  /\ sessions = [s \in Conversations |-> None]
  /\ pc       = [c \in Calls |-> "idle"]
  /\ request  = [c \in Calls |-> None]
  /\ model    = [c \in Calls |-> None]
  /\ guard    = [c \in Calls |-> None]

-----------------------------------------------------------------------------
Goto(c, from, to) == pc[c] = from /\ pc' = [pc EXCEPT ![c] = to]

\* used_fallback: decided once, by the balance read at the start of the call.
UsesFallback(c) == FallbackModel # None /\ guard[c] = "zero"

\* Mutant: the session overrides the fallback.
RoutedBySession(c, sessionModel) == sessionModel

\* The model in effect once the session is known.
Routed(c, sessionModel) == IF UsesFallback(c) THEN model[c] ELSE sessionModel

\* Step 1, the balance guard: one relaxed load, if a fallback is configured.
Begin(c) ==
  /\ Goto(c, "idle", IF SessionsOn THEN "session" ELSE "routed")
  /\ guard' = [guard EXCEPT ![c] = IF FallbackModel # None THEN balance ELSE None]
  /\ \E r \in Request :
       /\ request' = [request EXCEPT ![c] = r]
       /\ model' = [model EXCEPT ![c] =
            IF FallbackModel # None /\ balance = "zero" THEN FallbackModel
            ELSE r.model]
  /\ UNCHANGED <<now, balance, sessions>>

\* Step 2, get_or_create: the read lock, then the write lock.
FindSession(c) ==
  /\ pc[c] \in {"session", "missed"}
  /\ Live(sessions[request[c].sid], now)
  /\ pc' = [pc EXCEPT ![c] = "routed"]
  /\ model' = [model EXCEPT ![c] = Routed(c, sessions[request[c].sid].model)]
  /\ UNCHANGED <<now, balance, sessions, request, guard>>

MissSession(c) ==
  /\ Goto(c, "session", "missed")
  /\ ~Live(sessions[request[c].sid], now)
  /\ UNCHANGED <<now, balance, sessions, settled>>

\* Mutant: the table is not read again under the write lock.
CreateUnchecked(c) ==
  /\ Goto(c, "missed", "routed")
  /\ sessions' = [sessions EXCEPT ![request[c].sid] = FreshEntry(model[c], now)]
  /\ UNCHANGED <<now, balance, settled>>

CreateSession(c) ==
  /\ Goto(c, "missed", "routed")
  /\ ~Live(sessions[request[c].sid], now)
  /\ sessions' = [sessions EXCEPT ![request[c].sid] = FreshEntry(model[c], now)]
  /\ UNCHANGED <<now, balance, settled>>

Route(c) == Begin(c) \/ FindSession(c) \/ MissSession(c) \/ CreateSession(c)

\* record_request, in whatever session the id has by now.
RecordRequest(c, from, to) ==
  LET r == request[c] IN
  /\ Goto(c, from, to)
  /\ sessions' = IF SessionsOn /\ sessions[r.sid] # None
                   THEN [sessions EXCEPT ![r.sid] = Recorded(@, r.msgs)]
                   ELSE sessions
  /\ UNCHANGED <<now, balance, settled>>

-----------------------------------------------------------------------------
\* BalanceMonitor stores the result of a poll.
Poll == /\ balance' \in Polled
        /\ UNCHANGED <<now, sessions, pc, settled>>

Tick == /\ now < MaxTime
        /\ now' = now + 1
        /\ UNCHANGED <<balance, sessions, pc, settled>>
=============================================================================
