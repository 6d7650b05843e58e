---------------------------- MODULE SessionStore ----------------------------
(***************************************************************************)
(* The session store shared by the concurrent calls of chat.               *)
(*                                                                         *)
(* get_or_create looks the session up under the read lock, releases it,    *)
(* and takes the write lock only when there is no live session, so other   *)
(* callers, the clock and cleanup_expired come between the two steps.      *)
(* record_request comes after the answer of the gateway, when the session  *)
(* the caller was routed by may have expired or been replaced; a call that *)
(* fails, or is answered from the cache, never records.                    *)
(***************************************************************************)
EXTENDS SessionTable

CONSTANTS
  Callers, Sessions, Models, Hashes,
  MaxTime,   \* bound: the clock stops there
  MaxLog     \* bound: hashes recorded per session

ASSUME SessionStoreAssumption ==
  /\ None \notin Models \union SessionEntry(Models, Hashes)
  /\ None \notin [model : Models, start : Nat]
  /\ MaxTime \in Nat
  /\ MaxLog \in Nat

VARIABLES
  now,       \* Instant::now, in units of the time to live
  sessions,  \* SessionStore.sessions
  pc,        \* where each caller is
  request,   \* what the caller asks with: session id, model and content hash
  routed,    \* SessionInfo.model of the caller, None outside of its request
  joined,    \* history: when the caller was given its model
  log        \* history: every hash recorded in the session since it was created

vars   == <<now, sessions, pc, request, routed, joined, log>>
caller == <<pc, request, routed, joined>>

Request == [sid : Sessions, model : Models, hash : Hashes]

TypeOK ==
  /\ now      \in 0 .. MaxTime
  /\ sessions \in [Sessions -> SessionEntry(Models, Hashes) \union {None}]
  /\ pc       \in [Callers -> {"idle", "missed", "routed"}]
  /\ request  \in [Callers -> Request \union {None}]
  /\ routed   \in [Callers -> Models \union {None}]
  /\ joined   \in [Callers -> 0 .. MaxTime]
  /\ log      \in [Sessions -> Seq(Hashes)]

Init ==
  /\ now      = 0
  /\ sessions = [s \in Sessions |-> None]
  /\ pc       = [c \in Callers |-> "idle"]
  /\ request  = [c \in Callers |-> None]
  /\ routed   = [c \in Callers |-> None]
  /\ joined   = [c \in Callers |-> 0]
  /\ log      = [s \in Sessions |-> <<>>]

-----------------------------------------------------------------------------
\* The caller has its model and goes on to the gateway.
GiveModel(c, model) ==
  /\ pc' = [pc EXCEPT ![c] = "routed"]
  /\ routed' = [routed EXCEPT ![c] = model]
  /\ joined' = [joined EXCEPT ![c] = now]

\* get_or_create under the read lock.
Lookup(c) ==
  /\ pc[c] = "idle"
  /\ \E r \in Request :
       /\ request' = [request EXCEPT ![c] = r]
       /\ \/ /\ Live(sessions[r.sid], now)
             /\ GiveModel(c, sessions[r.sid].model)
          \/ /\ ~Live(sessions[r.sid], now)
             /\ pc' = [pc EXCEPT ![c] = "missed"]
             /\ UNCHANGED <<routed, joined>>
  /\ UNCHANGED <<now, sessions, log>>

\* Mutant: the caller keeps the model it asked with.
FindOwnModel(c) ==
  /\ pc[c] = "missed"
  /\ Live(sessions[request[c].sid], now)
  /\ GiveModel(c, request[c].model)
  /\ UNCHANGED <<now, sessions, request, log>>

\* get_or_create under the write lock: another caller has been faster ...
FindUnderWriteLock(c) ==
  /\ pc[c] = "missed"
  /\ Live(sessions[request[c].sid], now)
  /\ GiveModel(c, sessions[request[c].sid].model)
  /\ UNCHANGED <<now, sessions, request, log>>

\* Mutant: a live session is not looked for again under the write lock.
CreateUnchecked(c) ==
  LET r == request[c] IN
  /\ pc[c] = "missed"
  /\ sessions' = [sessions EXCEPT ![r.sid] = FreshEntry(r.model, now)]
  /\ log' = [log EXCEPT ![r.sid] = <<>>]
  /\ GiveModel(c, r.model)
  /\ UNCHANGED <<now, request>>

\* ... or the session is created, or replaced when it has expired.
Create(c) ==
  LET r == request[c] IN
  /\ pc[c] = "missed"
  /\ ~Live(sessions[r.sid], now)
  /\ sessions' = [sessions EXCEPT ![r.sid] = FreshEntry(r.model, now)]
  /\ log' = [log EXCEPT ![r.sid] = <<>>]
  /\ GiveModel(c, r.model)
  /\ UNCHANGED <<now, request>>

\* The caller is done with its request.
Forget(c) ==
  /\ pc[c] = "routed"
  /\ pc' = [pc EXCEPT ![c] = "idle"]
  /\ request' = [request EXCEPT ![c] = None]
  /\ routed' = [routed EXCEPT ![c] = None]
  /\ joined' = [joined EXCEPT ![c] = 0]

\* Mutant: the entry is assumed to be there.
RecordWithoutEntry(c) ==
  LET r == request[c] IN
  /\ Forget(c)
  /\ Len(log[r.sid]) < MaxLog
  /\ sessions' = [sessions EXCEPT ![r.sid] =
       IF @ = None THEN [recent |-> <<r.hash>>] ELSE Recorded(@, r.hash)]
  /\ log' = [log EXCEPT ![r.sid] = Append(@, r.hash)]
  /\ UNCHANGED now

\* record_request: the entry is taken as it is found, expired or not.
Record(c) ==
  LET r == request[c] IN
  /\ Forget(c)
  /\ IF sessions[r.sid] = None THEN UNCHANGED <<sessions, log>>
     ELSE /\ Len(log[r.sid]) < MaxLog
          /\ sessions' = [sessions EXCEPT ![r.sid] = Recorded(@, r.hash)]
          /\ log' = [log EXCEPT ![r.sid] = Append(@, r.hash)]
  /\ UNCHANGED now

\* The request failed, or was answered from the cache.
Abandon(c) == Forget(c) /\ UNCHANGED <<now, sessions, log>>

\* Mutant: sessions go one unit of time too early.
CleanupEarly ==
  /\ sessions' = WithoutExpired(sessions, now + 1)
  /\ log' = [s \in Sessions |-> IF sessions'[s] = None THEN <<>> ELSE log[s]]
  /\ UNCHANGED <<now, caller>>

CleanupExpired ==
  /\ sessions' = WithoutExpired(sessions, now)
  /\ log' = [s \in Sessions |-> IF sessions'[s] = None THEN <<>> ELSE log[s]]
  /\ UNCHANGED <<now, caller>>

Tick == /\ now < MaxTime
        /\ now' = now + 1
        /\ UNCHANGED <<sessions, caller, log>>

Next ==
  \/ \E c \in Callers : \/ Lookup(c) \/ FindUnderWriteLock(c) \/ Create(c)
                        \/ Record(c) \/ Abandon(c)
  \/ CleanupExpired
  \/ Tick

Spec == Init /\ [][Next]_vars

-----------------------------------------------------------------------------
(* Properties.                                                             *)

\* While a session lives its model and its birth stay as they were, and an
\* escalation is not taken back, whichever callers race to create it and
\* whenever the cleanup runs.
LiveSessionsAreSticky ==
  [][\A s \in Sessions : Live(sessions[s], now) =>
       /\ sessions'[s] # None
       /\ sessions'[s].model = sessions[s].model
       /\ sessions'[s].created = sessions[s].created
       /\ sessions[s].escalated => sessions'[s].escalated]_vars

\* A caller on its way to the gateway whose session has neither expired nor been
\* replaced was given the model of that session: so were all its competitors.
CallersAgree ==
  \A c \in Callers :
    pc[c] = "routed" =>
      LET entry == sessions[request[c].sid] IN
      Live(entry, now) /\ entry.created <= joined[c] => routed[c] = entry.model

\* A session is escalated exactly when, at some time since it was created, the
\* last MaxRecentHashes requests contained one hash often enough.
EscalatedAfterThreeStrikes ==
  \A s \in Sessions : sessions[s] # None =>
    (sessions[s].escalated <=>
       \E last \in DOMAIN log[s] : \E hash \in Hashes :
         ThreeStrikeThreshold <=
           Cardinality({i \in DOMAIN log[s] : /\ last - MaxRecentHashes < i
                                              /\ i <= last
                                              /\ log[s][i] = hash}))

\* The sessions as StickySessions sees them: an expired one does not exist.
LiveSessions ==
  [s \in Sessions |->
     IF Live(sessions[s], now)
       THEN [model |-> sessions[s].model, start |-> sessions[s].created]
       ELSE None]

Sticky == INSTANCE StickySessions WITH clock <- now, current <- LiveSessions

\* The two-phase lookup hands out models as if it were one step.
ImplementsStickySessions == Sticky!Spec
=============================================================================
