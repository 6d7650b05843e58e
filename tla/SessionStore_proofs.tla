------------------------- MODULE SessionStore_proofs ------------------------
(***************************************************************************)
(* SessionStore implements StickySessions, for every number of callers and *)
(* sessions, every time to live and every window.                          *)
(*                                                                         *)
(* The refinement needs only that a caller holds a model exactly between   *)
(* the end of its lookup and the end of its request.  That callers agree   *)
(* needs in addition that a session which takes the place of another is    *)
(* younger than every caller of the other.  That the escalation is exact   *)
(* needs that the hashes an entry keeps are the last ones of its history.  *)
(***************************************************************************)
EXTENDS SessionStore, FiniteSetTheorems, TLAPS

CallerInv(c) ==
  /\ pc[c] = "idle" => routed[c] = None
  /\ pc[c] = "missed" => routed[c] = None /\ request[c] \in Request
  /\ pc[c] = "routed" => routed[c] \in Models /\ request[c] \in Request

Inv == TypeOK /\ \A c \in Callers : CallerInv(c)

-----------------------------------------------------------------------------
\* Recording a hash leaves model and birth alone.
LEMMA RecordedEntry ==
  ASSUME NEW e \in SessionEntry(Models, Hashes), NEW h \in Hashes
  PROVE  /\ Recorded(e, h) \in SessionEntry(Models, Hashes)
         /\ Recorded(e, h).model = e.model
         /\ Recorded(e, h).created = e.created
         /\ e.escalated => Recorded(e, h).escalated
<1>1. Push(e.recent, h) \in Seq(Hashes)
  BY SessionTableAssumption DEF Push, SessionEntry
<1>2. StruckOut(Push(e.recent, h)) \in BOOLEAN
  BY DEF StruckOut
<1> QED
  BY <1>1, <1>2 DEF Recorded, SessionEntry

\* A new entry, its model and its birth.
LEMMA FreshEntryType ==
  ASSUME NEW m \in Models, NEW t \in Nat
  PROVE  /\ FreshEntry(m, t) \in SessionEntry(Models, Hashes)
         /\ FreshEntry(m, t).model = m
         /\ FreshEntry(m, t).created = t
  BY DEF FreshEntry, SessionEntry

-----------------------------------------------------------------------------
\* Forget empties what the caller holds.
LEMMA ForgetType ==
  ASSUME Inv, NEW c \in Callers, Forget(c)
  PROVE  /\ pc'      = [pc EXCEPT ![c] = "idle"]
         /\ routed'  = [routed EXCEPT ![c] = None]
         /\ pc[c] = "routed"
         /\ request' \in [Callers -> Request \union {None}]
         /\ joined'  \in [Callers -> 0 .. MaxTime]
         /\ \A d \in Callers : d # c => request'[d] = request[d]
  BY SessionStoreAssumption DEF Inv, TypeOK, Forget

\* Recording changes at most one entry, and never its model or its birth.
LEMMA RecordTable ==
  ASSUME Inv, NEW c \in Callers, Record(c)
  PROVE  /\ sessions' \in [Sessions -> SessionEntry(Models, Hashes) \union {None}]
         /\ log' \in [Sessions -> Seq(Hashes)]
         /\ \A s \in Sessions :
              \/ sessions'[s] = sessions[s]
              \/ /\ sessions[s] \in SessionEntry(Models, Hashes)
                 /\ sessions'[s] \in SessionEntry(Models, Hashes)
                 /\ sessions'[s].model = sessions[s].model
                 /\ sessions'[s].created = sessions[s].created
                 /\ sessions[s].escalated => sessions'[s].escalated
<1> DEFINE r == request[c]
<1>1. r \in Request /\ r.sid \in Sessions /\ r.hash \in Hashes
  BY DEF Inv, CallerInv, Record, Forget, Request
<1>2. CASE sessions[r.sid] = None
  BY <1>2 DEF Inv, TypeOK, Record
<1>3. CASE sessions[r.sid] # None
  <2>1. sessions[r.sid] \in SessionEntry(Models, Hashes)
    BY <1>1, <1>3 DEF Inv, TypeOK
  <2>2. /\ sessions' = [sessions EXCEPT ![r.sid] = Recorded(sessions[r.sid], r.hash)]
        /\ log' = [log EXCEPT ![r.sid] = Append(log[r.sid], r.hash)]
    BY <1>3 DEF Record
  <2>3. /\ Recorded(sessions[r.sid], r.hash) \in SessionEntry(Models, Hashes)
        /\ Recorded(sessions[r.sid], r.hash).model = sessions[r.sid].model
        /\ Recorded(sessions[r.sid], r.hash).created = sessions[r.sid].created
        /\ sessions[r.sid].escalated => Recorded(sessions[r.sid], r.hash).escalated
    BY <1>1, <2>1, RecordedEntry
  <2>4. sessions' \in [Sessions -> SessionEntry(Models, Hashes) \union {None}]
    BY <1>1, <2>2, <2>3 DEF Inv, TypeOK
  <2>5. log' \in [Sessions -> Seq(Hashes)]
    BY <1>1, <2>2 DEF Inv, TypeOK
  <2>6. ASSUME NEW s \in Sessions, s # r.sid PROVE sessions'[s] = sessions[s]
    BY <2>2, <2>6 DEF Inv, TypeOK
  <2>7. sessions'[r.sid] = Recorded(sessions[r.sid], r.hash)
    BY <1>1, <2>2 DEF Inv, TypeOK
  <2> QED
    BY <2>1, <2>3, <2>4, <2>5, <2>6, <2>7
<1> QED
  BY <1>2, <1>3

\* Every variable has its type, and a caller holds a model exactly when it is
\* routed.
THEOREM Invariance == Spec => []Inv
<1>1. Init => Inv
  BY SessionStoreAssumption DEF Init, Inv, TypeOK, CallerInv
<1>2. Inv /\ [Next]_vars => Inv'
  <2> SUFFICES ASSUME Inv, [Next]_vars PROVE Inv'
    OBVIOUS
  <2> USE DEF Inv, TypeOK
  <2>1. ASSUME NEW c \in Callers, Lookup(c) PROVE Inv'
    <3>1. PICK r \in Request :
            /\ request' = [request EXCEPT ![c] = r]
            /\ \/ /\ Live(sessions[r.sid], now)
                  /\ GiveModel(c, sessions[r.sid].model)
               \/ /\ ~Live(sessions[r.sid], now)
                  /\ pc' = [pc EXCEPT ![c] = "missed"]
                  /\ UNCHANGED <<routed, joined>>
      BY <2>1 DEF Lookup
    <3>2. r.sid \in Sessions
      BY DEF Request
    <3>3. Live(sessions[r.sid], now) => sessions[r.sid].model \in Models
      BY <3>2 DEF Live, SessionEntry
    <3>4. pc[c] = "idle" /\ UNCHANGED <<now, sessions, log>>
      BY <2>1 DEF Lookup
    <3>5. CASE Live(sessions[r.sid], now)
      BY <3>1, <3>3, <3>4, <3>5 DEF GiveModel, CallerInv
    <3>6. CASE ~Live(sessions[r.sid], now)
      BY <3>1, <3>4, <3>6 DEF CallerInv
    <3> QED
      BY <3>5, <3>6
  <2>2. ASSUME NEW c \in Callers, FindUnderWriteLock(c) PROVE Inv'
    <3>1. request[c] \in Request /\ request[c].sid \in Sessions
      BY <2>2 DEF FindUnderWriteLock, CallerInv, Request
    <3>2. sessions[request[c].sid].model \in Models
      BY <2>2, <3>1 DEF FindUnderWriteLock, Live, SessionEntry
    <3> QED
      BY <2>2, <3>1, <3>2 DEF FindUnderWriteLock, GiveModel, CallerInv
  <2>3. ASSUME NEW c \in Callers, Create(c) PROVE Inv'
    <3>1. request[c] \in Request /\ request[c].sid \in Sessions
          /\ request[c].model \in Models
      BY <2>3 DEF Create, CallerInv, Request
    <3>2. FreshEntry(request[c].model, now) \in SessionEntry(Models, Hashes)
      BY <3>1, FreshEntryType
    <3>3. /\ sessions' = [sessions EXCEPT ![request[c].sid] =
                            FreshEntry(request[c].model, now)]
          /\ log' = [log EXCEPT ![request[c].sid] = <<>>]
          /\ pc' = [pc EXCEPT ![c] = "routed"]
          /\ routed' = [routed EXCEPT ![c] = request[c].model]
          /\ joined' = [joined EXCEPT ![c] = now]
          /\ UNCHANGED <<now, request>>
      BY <2>3 DEF Create, GiveModel
    <3>4. TypeOK'
      BY <3>1, <3>2, <3>3
    <3>5. \A d \in Callers : CallerInv(d)'
      BY <3>1, <3>3 DEF CallerInv
    <3> QED
      BY <3>4, <3>5
  <2>4. ASSUME NEW c \in Callers, Record(c) PROVE Inv'
    <3>1. Forget(c) /\ now' = now
      BY <2>4 DEF Record
    <3>2. /\ sessions' \in [Sessions -> SessionEntry(Models, Hashes) \union {None}]
          /\ log' \in [Sessions -> Seq(Hashes)]
      BY <2>4, RecordTable, Zenon
    <3>3. /\ pc'      = [pc EXCEPT ![c] = "idle"]
          /\ routed'  = [routed EXCEPT ![c] = None]
          /\ request' \in [Callers -> Request \union {None}]
          /\ joined'  \in [Callers -> 0 .. MaxTime]
          /\ \A d \in Callers : d # c => request'[d] = request[d]
      BY <3>1, ForgetType, Zenon
    <3>4. TypeOK'
      BY <3>1, <3>2, <3>3
    <3>5. \A d \in Callers : CallerInv(d)'
      BY <3>3 DEF CallerInv
    <3> QED
      BY <3>4, <3>5
  <2>5. ASSUME NEW c \in Callers, Abandon(c) PROVE Inv'
    BY <2>5, ForgetType DEF Abandon, CallerInv
  <2>6. CASE CleanupExpired
    BY <2>6 DEF CleanupExpired, WithoutExpired, caller, CallerInv
  <2>7. CASE Tick
    BY <2>7, SessionStoreAssumption DEF Tick, caller, CallerInv
  <2>8. CASE UNCHANGED vars
    BY <2>8 DEF vars, CallerInv
  <2> QED
    BY <2>1, <2>2, <2>3, <2>4, <2>5, <2>6, <2>7, <2>8 DEF Next
<1> QED
  BY <1>1, <1>2, PTL DEF Spec

\* Every variable has its type.
THEOREM TypeCorrect == Spec => []TypeOK
<1>1. Inv => TypeOK
  BY DEF Inv
<1> QED
  BY <1>1, Invariance, PTL

-----------------------------------------------------------------------------
\* A step that keeps model and birth of every entry, at the same time, keeps
\* the live sessions.
LEMMA SameLiveSessions ==
  ASSUME now' = now,
         \A s \in Sessions :
           \/ sessions'[s] = sessions[s]
           \/ /\ sessions[s] # None
              /\ sessions'[s] # None
              /\ sessions'[s].model = sessions[s].model
              /\ sessions'[s].created = sessions[s].created
  PROVE  LiveSessions' = LiveSessions
<1>1. ASSUME NEW s \in Sessions
      PROVE  (IF Live(sessions[s], now)
                THEN [model |-> sessions[s].model, start |-> sessions[s].created]
                ELSE None)' =
             (IF Live(sessions[s], now)
                THEN [model |-> sessions[s].model, start |-> sessions[s].created]
                ELSE None)
  BY DEF Live
<1> QED
  BY <1>1, Zenon DEF LiveSessions

\* A live session is one for StickySessions, and no other is.
LEMMA LiveSessionsValue ==
  ASSUME Inv, NEW s \in Sessions
  PROVE  /\ Live(sessions[s], now) => /\ LiveSessions[s] # None
                                     /\ LiveSessions[s].model = sessions[s].model
                                     /\ LiveSessions[s].start = sessions[s].created
         /\ ~Live(sessions[s], now) => LiveSessions[s] = None
<1>1. Live(sessions[s], now) =>
        /\ [model |-> sessions[s].model, start |-> sessions[s].created]
             \in [model : Models, start : Nat]
  BY DEF Inv, TypeOK, Live, SessionEntry
<1> QED
  BY <1>1, SessionStoreAssumption DEF LiveSessions

\* The two-phase lookup refines the one-step lookup of StickySessions: a caller
\* that finds a live session in either phase joins it, one that creates begins
\* it, and nothing else that happens to the table is visible.
THEOREM Refinement == Spec => ImplementsStickySessions
<1>1. Init => Sticky!Init
  BY DEF Init, Sticky!Init, LiveSessions, Live
<1>2. Inv /\ [Next]_vars => [Sticky!Next]_(Sticky!vars)
  <2> SUFFICES ASSUME Inv, [Next]_vars PROVE [Sticky!Next]_(Sticky!vars)
    OBVIOUS
  <2> USE DEF Sticky!vars
  <2>1. ASSUME NEW c \in Callers, Lookup(c) PROVE [Sticky!Next]_(Sticky!vars)
    <3>1. PICK r \in Request :
            /\ request' = [request EXCEPT ![c] = r]
            /\ \/ /\ Live(sessions[r.sid], now)
                  /\ GiveModel(c, sessions[r.sid].model)
               \/ /\ ~Live(sessions[r.sid], now)
                  /\ pc' = [pc EXCEPT ![c] = "missed"]
                  /\ UNCHANGED <<routed, joined>>
      BY <2>1 DEF Lookup
    <3>2. r.sid \in Sessions /\ UNCHANGED <<now, sessions>>
      BY <2>1 DEF Lookup, Request
    <3>3. LiveSessions' = LiveSessions
      BY <3>2, SameLiveSessions
    <3>4. CASE Live(sessions[r.sid], now)
      <4>1. Sticky!Join(c, r.sid)
        BY <2>1, <3>1, <3>2, <3>3, <3>4, LiveSessionsValue
           DEF Lookup, Inv, CallerInv, GiveModel, Sticky!Join
      <4> QED
        BY <3>2, <4>1 DEF Sticky!Next
    <3>5. CASE ~Live(sessions[r.sid], now)
      BY <3>1, <3>2, <3>3, <3>5
    <3> QED
      BY <3>4, <3>5
  <2>2. ASSUME NEW c \in Callers, FindUnderWriteLock(c) PROVE Sticky!Next
    <3>1. request[c].sid \in Sessions /\ routed[c] = None
      BY <2>2 DEF FindUnderWriteLock, Inv, CallerInv, Request
    <3>2. LiveSessions' = LiveSessions
      BY <2>2, SameLiveSessions DEF FindUnderWriteLock
    <3>3. Sticky!Join(c, request[c].sid)
      BY <2>2, <3>1, <3>2, LiveSessionsValue
         DEF FindUnderWriteLock, GiveModel, Sticky!Join
    <3> QED
      BY <3>1, <3>3 DEF Sticky!Next
  <2>3. ASSUME NEW c \in Callers, Create(c) PROVE Sticky!Next
    <3> DEFINE r == request[c]
               e == FreshEntry(r.model, now)
    <3>1. r.sid \in Sessions /\ r.model \in Models /\ routed[c] = None
      BY <2>3 DEF Create, Inv, CallerInv, Request
    <3>2. /\ sessions' = [sessions EXCEPT ![r.sid] = e]
          /\ now' = now
          /\ routed' = [routed EXCEPT ![c] = r.model]
          /\ ~Live(sessions[r.sid], now)
      BY <2>3 DEF Create, GiveModel
    <3>3. /\ e \in SessionEntry(Models, Hashes)
          /\ e.model = r.model
          /\ e.created = now
      BY <3>1, FreshEntryType DEF Inv, TypeOK
    <3>4. Live(e, now) <=> SessionTtl > 0
      BY <3>3, SessionStoreAssumption, SessionTableAssumption DEF Live, Inv, TypeOK
    <3>5. ASSUME NEW s \in Sessions
          PROVE  LiveSessions'[s] =
                   IF s = r.sid
                     THEN IF SessionTtl > 0 THEN [model |-> r.model, start |-> now]
                          ELSE None
                     ELSE LiveSessions[s]
      <4>1. LiveSessions'[s] = IF Live(sessions'[s], now)
              THEN [model |-> sessions'[s].model, start |-> sessions'[s].created]
              ELSE None
        BY <3>2 DEF LiveSessions, Live
      <4>2. CASE s = r.sid
        <5>1. sessions'[s] = e
          BY <3>1, <3>2, <4>2 DEF Inv, TypeOK
        <5> HIDE DEF e
        <5> QED
          BY <3>3, <3>4, <4>1, <4>2, <5>1
      <4>3. CASE s # r.sid
        <5>1. sessions'[s] = sessions[s]
          BY <3>2, <4>3 DEF Inv, TypeOK
        <5> QED
          BY <4>1, <4>3, <5>1 DEF LiveSessions
      <4> QED
        BY <4>2, <4>3
    <3>6. LiveSessions' = [LiveSessions EXCEPT ![r.sid] =
            IF SessionTtl > 0 THEN [model |-> r.model, start |-> now] ELSE None]
      BY <3>1, <3>5, Zenon DEF LiveSessions
    <3>7. Sticky!Begin(c, r.sid, r.model)
      BY <3>1, <3>2, <3>6, LiveSessionsValue DEF Sticky!Begin
    <3> QED
      BY <3>1, <3>7 DEF Sticky!Next
  <2>4. ASSUME NEW c \in Callers, Forget(c), LiveSessions' = LiveSessions, now' = now
        PROVE  Sticky!Next
    <3>1. routed[c] # None
      BY <2>4, SessionStoreAssumption DEF Forget, Inv, CallerInv
    <3> QED
      BY <2>4, <3>1 DEF Forget, Sticky!Leave, Sticky!Next
  <2>5. ASSUME NEW c \in Callers, Record(c) PROVE Sticky!Next
    <3>1. LiveSessions' = LiveSessions
      BY <2>5, RecordTable, SameLiveSessions, SessionStoreAssumption DEF Record
    <3> QED
      BY <2>4, <2>5, <3>1 DEF Record
  <2>6. ASSUME NEW c \in Callers, Abandon(c) PROVE Sticky!Next
    BY <2>4, <2>6, SameLiveSessions DEF Abandon
  <2>7. CASE CleanupExpired
    <3>1. now' = now /\ routed' = routed /\ sessions' = WithoutExpired(sessions, now)
      BY <2>7 DEF CleanupExpired, caller
    <3>2. ASSUME NEW s \in Sessions
          PROVE  sessions'[s] = IF Live(sessions[s], now) THEN sessions[s] ELSE None
      BY <3>1 DEF WithoutExpired, Inv, TypeOK
    <3>3. LiveSessions' = LiveSessions
      BY <3>1, <3>2 DEF LiveSessions, Live
    <3> QED
      BY <3>1, <3>3
  <2>8. CASE Tick
    <3>1. now' = now + 1 /\ now \in Nat /\ UNCHANGED <<sessions, routed>>
      BY <2>8, SessionStoreAssumption DEF Tick, caller, Inv, TypeOK
    <3>2. ASSUME NEW s \in Sessions
          PROVE  LiveSessions'[s] =
                   IF LiveSessions[s] # None /\ now' - LiveSessions[s].start < SessionTtl
                     THEN LiveSessions[s] ELSE None
      <4>1. LiveSessions'[s] = IF Live(sessions[s], now')
              THEN [model |-> sessions[s].model, start |-> sessions[s].created]
              ELSE None
        BY <3>1 DEF LiveSessions, Live
      <4>2. sessions[s] # None => sessions[s].created \in Nat
        BY DEF Inv, TypeOK, SessionEntry
      <4>3. Live(sessions[s], now') => Live(sessions[s], now)
        BY <3>1, <4>2, SessionTableAssumption DEF Live
      <4>4. CASE Live(sessions[s], now)
        <5>1. LiveSessions[s] = [model |-> sessions[s].model,
                                 start |-> sessions[s].created]
          BY <4>4 DEF LiveSessions
        <5>2. LiveSessions[s] # None /\ LiveSessions[s].start = sessions[s].created
          BY <4>4, LiveSessionsValue
        <5>3. Live(sessions[s], now') <=> now' - LiveSessions[s].start < SessionTtl
          BY <4>4, <5>2 DEF Live
        <5> QED
          BY <4>1, <5>1, <5>2, <5>3, Zenon
      <4>5. CASE ~Live(sessions[s], now)
        BY <4>1, <4>3, <4>5, LiveSessionsValue, Zenon
      <4> QED
        BY <4>4, <4>5
    <3>3. LiveSessions' = [s \in Sessions |->
            IF LiveSessions[s] # None /\ now' - LiveSessions[s].start < SessionTtl
              THEN LiveSessions[s] ELSE None]
      BY <3>2, Zenon DEF LiveSessions
    <3> QED
      BY <3>1, <3>3 DEF Sticky!Tick, Sticky!Next
  <2>9. CASE UNCHANGED vars
    BY <2>9, SameLiveSessions DEF vars
  <2> QED
    BY <2>1, <2>2, <2>3, <2>5, <2>6, <2>7, <2>8, <2>9 DEF Next
<1> QED
  BY <1>1, <1>2, Invariance, PTL DEF Spec, ImplementsStickySessions, Sticky!Spec

-----------------------------------------------------------------------------
\* No race and no cleanup changes a live session's model or birth, or takes an
\* escalation back.
THEOREM Stickiness == Spec => LiveSessionsAreSticky
<1> DEFINE Kept(s) == /\ sessions'[s] # None
                      /\ sessions'[s].model = sessions[s].model
                      /\ sessions'[s].created = sessions[s].created
                      /\ sessions[s].escalated => sessions'[s].escalated
           Step == \A s \in Sessions : Live(sessions[s], now) => Kept(s)
<1>1. Inv /\ [Next]_vars => [Step]_vars
  <2> SUFFICES ASSUME Inv, Next, NEW s \in Sessions, Live(sessions[s], now)
               PROVE  Kept(s)
    BY Zenon
  <2>1. sessions'[s] = sessions[s] => Kept(s)
    BY DEF Live
  <2>2. ASSUME NEW c \in Callers, Create(c) PROVE Kept(s)
    <3>1. sessions'[s] = sessions[s]
      BY <2>2 DEF Create, Inv, TypeOK
    <3> QED
      BY <2>1, <3>1
  <2>3. ASSUME NEW c \in Callers, Record(c) PROVE Kept(s)
    BY <2>1, <2>3, RecordTable, SessionStoreAssumption
  <2>4. CASE CleanupExpired
    BY <2>1, <2>4 DEF CleanupExpired, WithoutExpired, Inv, TypeOK
  <2>5. CASE UNCHANGED sessions
    BY <2>1, <2>5
  <2> QED
    BY <2>2, <2>3, <2>4, <2>5
       DEF Next, Lookup, FindUnderWriteLock, Abandon, Tick
<1> QED
  BY <1>1, Invariance, PTL DEF Spec, LiveSessionsAreSticky

-----------------------------------------------------------------------------
\* A session is not born in the future, and a caller joined in the past: strictly
\* so once its session has expired or is gone, since a session lives through the
\* moment in which a caller joins it.
BirthInv ==
  /\ \A s \in Sessions : sessions[s] # None => sessions[s].created <= now
  /\ \A c \in Callers : pc[c] = "routed" =>
       /\ joined[c] <= now
       /\ SessionTtl > 0 /\ ~Live(sessions[request[c].sid], now) => joined[c] < now

AgreeInv == Inv /\ BirthInv /\ CallersAgree

\* A routed caller keeps what it agreed on while the entry of its session does.
LEMMA EntryKept ==
  ASSUME AgreeInv, Inv', now' = now,
         \A s \in Sessions : sessions'[s] # None =>
           sessions[s] # None /\ sessions'[s].model = sessions[s].model
             /\ sessions'[s].created = sessions[s].created,
         \A s \in Sessions : Live(sessions[s], now) => sessions'[s] # None,
         \A c \in Callers : pc'[c] = "routed" =>
           /\ pc[c] = "routed"
           /\ UNCHANGED <<request[c], routed[c], joined[c]>>
  PROVE  AgreeInv'
<1>1. ASSUME NEW c \in Callers, pc'[c] = "routed"
      PROVE  /\ request'[c].sid \in Sessions /\ request'[c].sid = request[c].sid
             /\ pc[c] = "routed" /\ routed'[c] = routed[c] /\ joined'[c] = joined[c]
             /\ Live(sessions'[request[c].sid], now) <=> Live(sessions[request[c].sid], now)
  BY <1>1 DEF AgreeInv, Inv, CallerInv, Request, Live
<1>2. BirthInv'
  BY <1>1 DEF AgreeInv, BirthInv, Inv, TypeOK, SessionEntry, Live
<1>3. CallersAgree'
  <2> SUFFICES ASSUME NEW c \in Callers, pc'[c] = "routed",
                      Live(sessions'[request[c].sid], now),
                      sessions'[request[c].sid].created <= joined[c]
               PROVE  routed[c] = sessions'[request[c].sid].model
    BY <1>1 DEF CallersAgree, Live
  <2>1. sessions'[request[c].sid] # None /\ Live(sessions[request[c].sid], now)
    BY <1>1 DEF Live
  <2> QED
    BY <1>1, <2>1 DEF AgreeInv, CallersAgree
<1> QED
  BY <1>2, <1>3 DEF AgreeInv

\* A caller that is given the model of a session that lives agrees with it, and
\* no entry changes.
LEMMA Joining ==
  ASSUME AgreeInv, Inv', NEW c \in Callers, NEW r \in Request,
         request' = [request EXCEPT ![c] = r],
         Live(sessions[r.sid], now), GiveModel(c, sessions[r.sid].model),
         UNCHANGED <<now, sessions>>
  PROVE  AgreeInv'
<1>1. /\ r.sid \in Sessions /\ request'[c] = r /\ routed'[c] = sessions[r.sid].model
      /\ joined'[c] = now /\ now \in Nat
  BY SessionStoreAssumption DEF AgreeInv, Inv, TypeOK, Request, GiveModel
<1>2. ASSUME NEW d \in Callers, d # c
      PROVE  UNCHANGED <<pc[d], request[d], routed[d], joined[d]>>
  BY <1>2 DEF AgreeInv, Inv, TypeOK, GiveModel
<1>3. BirthInv'
  BY <1>1, <1>2 DEF AgreeInv, BirthInv, Live
<1>4. CallersAgree'
  BY <1>1, <1>2 DEF AgreeInv, CallersAgree, Live
<1> QED
  BY <1>3, <1>4 DEF AgreeInv

\* A new session is younger than every caller of the one it replaces.
LEMMA Creating ==
  ASSUME AgreeInv, Inv', NEW c \in Callers, Create(c)
  PROVE  AgreeInv'
<1> DEFINE r == request[c]
           e == FreshEntry(r.model, now)
<1>1. r \in Request /\ r.sid \in Sessions /\ r.model \in Models /\ now \in Nat
  BY SessionStoreAssumption DEF AgreeInv, Inv, TypeOK, CallerInv, Create, Request
<1>2. e # None /\ e.model = r.model /\ e.created = now
  BY <1>1, FreshEntryType, SessionStoreAssumption
<1>3. /\ sessions' = [sessions EXCEPT ![r.sid] = e]
      /\ now' = now /\ request' = request /\ ~Live(sessions[r.sid], now)
      /\ pc' = [pc EXCEPT ![c] = "routed"]
      /\ routed' = [routed EXCEPT ![c] = r.model]
      /\ joined' = [joined EXCEPT ![c] = now]
  BY DEF Create, GiveModel
<1> HIDE DEF e
<1>4. sessions'[r.sid] = e /\ \A s \in Sessions : s # r.sid => sessions'[s] = sessions[s]
  BY <1>1, <1>3 DEF AgreeInv, Inv, TypeOK
<1>5. routed'[c] = r.model /\ joined'[c] = now
  BY <1>3 DEF AgreeInv, Inv, TypeOK
<1>6. ASSUME NEW d \in Callers, d # c
      PROVE  UNCHANGED <<pc[d], routed[d], joined[d]>>
  BY <1>3, <1>6 DEF AgreeInv, Inv, TypeOK
<1>7. Live(e, now) => SessionTtl > 0
  BY <1>1, <1>2, SessionTableAssumption DEF Live
<1>8. ASSUME NEW d \in Callers, pc'[d] = "routed"
      PROVE  /\ request[d].sid \in Sessions /\ joined'[d] \in Nat /\ joined'[d] <= now
             /\ d # c => pc[d] = "routed"
  BY <1>1, <1>5, <1>6, <1>8, SessionStoreAssumption
     DEF AgreeInv, BirthInv, Inv, TypeOK, CallerInv, Request
<1>9. BirthInv'
  <2>1. \A s \in Sessions : sessions'[s] # None => sessions'[s].created <= now
    BY <1>1, <1>2, <1>4 DEF AgreeInv, BirthInv
  <2>2. ASSUME NEW d \in Callers, pc'[d] = "routed", SessionTtl > 0,
               ~Live(sessions'[request[d].sid], now)
        PROVE  joined'[d] < now
    <3>1. SessionTtl > 0 => Live(e, now)
      BY <1>1, <1>2, SessionTableAssumption DEF Live
    <3>2. request[d].sid # r.sid
      BY <1>4, <2>2, <3>1
    <3> QED
      BY <1>4, <1>6, <1>8, <2>2, <3>2 DEF AgreeInv, BirthInv
  <2> QED
    BY <1>3, <1>8, <2>1, <2>2 DEF BirthInv, Live
<1>10. CallersAgree'
  <2> SUFFICES ASSUME NEW d \in Callers, pc'[d] = "routed",
                      Live(sessions'[request[d].sid], now),
                      sessions'[request[d].sid].created <= joined'[d]
               PROVE  routed'[d] = sessions'[request[d].sid].model
    BY <1>3 DEF CallersAgree, Live
  <2>1. CASE d = c
    BY <1>2, <1>4, <1>5, <2>1
  <2>2. CASE d # c /\ request[d].sid = r.sid
    <3>1. joined[d] < now
      BY <1>3, <1>4, <1>7, <1>8, <2>2 DEF AgreeInv, BirthInv
    <3> QED
      BY <1>1, <1>2, <1>4, <1>6, <1>8, <2>2, <3>1
  <2>3. CASE d # c /\ request[d].sid # r.sid
    BY <1>4, <1>6, <1>8, <2>3 DEF AgreeInv, CallersAgree
  <2> QED
    BY <2>1, <2>2, <2>3
<1> QED
  BY <1>9, <1>10 DEF AgreeInv

\* Callers on their way to the gateway that joined one live session hold one
\* model, whichever of them created it and in whatever order they took the locks.
THEOREM Agreement == Spec => []CallersAgree
<1>1. Init => AgreeInv
  <2>1. Init => Inv
    BY SessionStoreAssumption DEF Init, Inv, TypeOK, CallerInv
  <2> QED
    BY <2>1 DEF Init, AgreeInv, BirthInv, CallersAgree
<1>2. AgreeInv /\ Inv' /\ [Next]_vars => AgreeInv'
  <2> SUFFICES ASSUME AgreeInv, Inv', [Next]_vars PROVE AgreeInv'
    OBVIOUS
  <2>1. ASSUME NEW c \in Callers, Lookup(c) PROVE AgreeInv'
    <3>1. PICK r \in Request :
            /\ request' = [request EXCEPT ![c] = r]
            /\ \/ /\ Live(sessions[r.sid], now)
                  /\ GiveModel(c, sessions[r.sid].model)
               \/ /\ ~Live(sessions[r.sid], now)
                  /\ pc' = [pc EXCEPT ![c] = "missed"]
                  /\ UNCHANGED <<routed, joined>>
      BY <2>1 DEF Lookup
    <3>2. UNCHANGED <<now, sessions>>
      BY <2>1 DEF Lookup
    <3>3. CASE Live(sessions[r.sid], now)
      BY <3>1, <3>2, <3>3, Joining
    <3>4. CASE ~Live(sessions[r.sid], now)
      <4>1. \A d \in Callers : pc'[d] = "routed" =>
              pc[d] = "routed" /\ UNCHANGED <<request[d], routed[d], joined[d]>>
        BY <3>1, <3>4 DEF AgreeInv, Inv, TypeOK
      <4> QED
        BY <3>2, <4>1, EntryKept DEF Live
    <3> QED
      BY <3>3, <3>4
  <2>2. ASSUME NEW c \in Callers, FindUnderWriteLock(c) PROVE AgreeInv'
    <3>1. request[c] \in Request /\ request' = [request EXCEPT ![c] = request[c]]
      BY <2>2 DEF FindUnderWriteLock, AgreeInv, Inv, TypeOK, CallerInv
    <3> QED
      BY <2>2, <3>1, Joining DEF FindUnderWriteLock
  <2>3. ASSUME NEW c \in Callers, Forget(c) \/ UNCHANGED caller
        PROVE  \A d \in Callers : pc'[d] = "routed" =>
                 pc[d] = "routed" /\ UNCHANGED <<request[d], routed[d], joined[d]>>
    BY <2>3 DEF Forget, caller, AgreeInv, Inv, TypeOK
  <2>4. ASSUME NEW c \in Callers, Record(c) PROVE AgreeInv'
    <3>1. \A s \in Sessions :
            \/ sessions'[s] = sessions[s]
            \/ /\ sessions[s] # None /\ sessions'[s] # None
               /\ sessions'[s].model = sessions[s].model
               /\ sessions'[s].created = sessions[s].created
      BY <2>4, RecordTable, SessionStoreAssumption DEF AgreeInv
    <3> QED
      BY <2>3, <2>4, <3>1, EntryKept DEF Record, Live
  <2>5. ASSUME NEW c \in Callers, Abandon(c) PROVE AgreeInv'
    BY <2>3, <2>5, EntryKept DEF Abandon, Live
  <2>6. CASE CleanupExpired
    <3>1. /\ UNCHANGED caller /\ now' = now
          /\ \A s \in Sessions :
               sessions'[s] = IF Live(sessions[s], now) THEN sessions[s] ELSE None
      BY <2>6 DEF CleanupExpired, WithoutExpired, AgreeInv, Inv, TypeOK
    <3>2. \A d \in Callers : pc'[d] = "routed" =>
            pc[d] = "routed" /\ UNCHANGED <<request[d], routed[d], joined[d]>>
      BY <3>1 DEF caller
    <3> QED
      BY <3>1, <3>2, EntryKept DEF Live
  <2>7. CASE Tick
    <3>1. /\ now' = now + 1 /\ now \in Nat
          /\ UNCHANGED <<sessions, pc, request, routed, joined>>
          /\ \A c \in Callers : joined[c] \in Nat
      BY <2>7, SessionStoreAssumption DEF Tick, caller, AgreeInv, Inv, TypeOK
    <3>2. \A s \in Sessions : sessions[s] # None => sessions[s].created \in Nat
      BY DEF AgreeInv, Inv, TypeOK, SessionEntry
    <3>3. \A s \in Sessions : Live(sessions[s], now') => Live(sessions[s], now)
      BY <3>1, <3>2, SessionTableAssumption DEF Live
    <3>4. \A c \in Callers : pc[c] = "routed" => request[c].sid \in Sessions
      BY DEF AgreeInv, Inv, CallerInv, Request
    <3>5. BirthInv'
      BY <3>1, <3>2 DEF AgreeInv, BirthInv
    <3>6. CallersAgree'
      BY <3>1, <3>3, <3>4 DEF AgreeInv, CallersAgree, Live
    <3> QED
      BY <3>5, <3>6 DEF AgreeInv
  <2>8. CASE UNCHANGED vars
    BY <2>8 DEF vars, AgreeInv, BirthInv, CallersAgree, Live
  <2> QED
    BY <2>1, <2>2, <2>4, <2>5, <2>6, <2>7, <2>8, Creating DEF Next
<1>3. AgreeInv => CallersAgree
  BY DEF AgreeInv
<1> QED
  BY <1>1, <1>2, <1>3, Invariance, PTL DEF Spec

-----------------------------------------------------------------------------
\* The requests of a session that counted when the one numbered last was recorded.
Window(l, last, hash) ==
  {i \in DOMAIN l : last - MaxRecentHashes < i /\ i <= last /\ l[i] = hash}

Struck(l) == \E last \in DOMAIN l : \E hash \in Hashes :
               ThreeStrikeThreshold <= Cardinality(Window(l, last, hash))

\* The hashes that a session keeps are the last of those recorded in it.
Keeps(recent, l) ==
  /\ Len(recent) <= MaxRecentHashes
  /\ Len(recent) <= Len(l)
  /\ Len(recent) < MaxRecentHashes => Len(recent) = Len(l)
  /\ \A i \in 1 .. Len(recent) : recent[i] = l[Len(l) - Len(recent) + i]

StrikeInv ==
  \A s \in Sessions : sessions[s] # None =>
    /\ Keeps(sessions[s].recent, log[s])
    /\ sessions[s].escalated <=> Struck(log[s])

\* One more hash, in the session and in its history.
LEMMA KeepsPushed ==
  ASSUME NEW recent \in Seq(Hashes), NEW l \in Seq(Hashes), NEW h \in Hashes,
         Keeps(recent, l)
  PROVE  Keeps(Push(recent, h), Append(l, h))
<1> DEFINE q == Push(recent, h)
           m == Append(l, h)
<1>1. m \in Seq(Hashes) /\ Len(m) = Len(l) + 1 /\ m[Len(l) + 1] = h
      /\ \A i \in 1 .. Len(l) : m[i] = l[i]
  OBVIOUS
<1>2. /\ Len(recent) \in Nat /\ Len(l) \in Nat /\ MaxRecentHashes \in Nat
      /\ Len(recent) <= MaxRecentHashes /\ Len(recent) <= Len(l)
      /\ Len(recent) < MaxRecentHashes => Len(recent) = Len(l)
  BY SessionTableAssumption DEF Keeps
<1>3. \A i \in 1 .. Len(recent) : recent[i] = l[Len(l) - Len(recent) + i]
  BY DEF Keeps
<1>4. CASE Len(recent) >= MaxRecentHashes
  <2>1. recent # <<>> /\ Len(recent) = MaxRecentHashes
    BY <1>4, SessionTableAssumption DEF Keeps
  <2>2. /\ Tail(recent) \in Seq(Hashes) /\ Len(Tail(recent)) = Len(recent) - 1
        /\ \A i \in 1 .. Len(recent) - 1 : Tail(recent)[i] = recent[i + 1]
    BY <2>1
  <2>3. q = Append(Tail(recent), h)
    BY <1>4 DEF Push
  <2>4. /\ Len(q) = Len(recent) /\ q[Len(recent)] = h
        /\ \A i \in 1 .. Len(recent) - 1 : q[i] = recent[i + 1]
    BY <2>2, <2>3
  <2> HIDE DEF q, m
  <2>5. \A i \in 1 .. Len(q) : q[i] = m[Len(m) - Len(q) + i]
    <3> SUFFICES ASSUME NEW i \in 1 .. Len(q) PROVE q[i] = m[Len(m) - Len(q) + i]
      OBVIOUS
    <3>1. CASE i = Len(q)
      BY <1>1, <1>2, <2>4, <3>1
    <3>2. CASE i \in 1 .. Len(recent) - 1
      <4>1. q[i] = recent[i + 1] /\ i + 1 \in 1 .. Len(recent)
        BY <1>2, <2>4, <3>2
      <4>2. recent[i + 1] = l[Len(l) - Len(recent) + (i + 1)]
        BY <1>3, <4>1
      <4>3. Len(l) - Len(recent) + (i + 1) \in 1 .. Len(l)
        BY <1>2, <4>1
      <4>4. Len(m) - Len(q) + i = Len(l) - Len(recent) + (i + 1)
        BY <1>1, <1>2, <2>4
      <4> QED
        BY <1>1, <4>1, <4>2, <4>3, <4>4
    <3> QED
      BY <1>2, <2>1, <2>4, <3>1, <3>2
  <2>6. Keeps(q, m)
    BY <1>1, <1>2, <2>1, <2>4, <2>5, SessionTableAssumption DEF Keeps
  <2> QED
    BY <2>6 DEF q, m
<1>5. CASE Len(recent) < MaxRecentHashes
  <2>1. q = Append(recent, h) /\ Len(recent) = Len(l)
    BY <1>5, SessionTableAssumption DEF Push, Keeps
  <2>2. Len(q) = Len(recent) + 1 /\ q[Len(recent) + 1] = h
        /\ \A i \in 1 .. Len(recent) : q[i] = recent[i]
    BY <2>1
  <2> HIDE DEF q, m
  <2>3. \A i \in 1 .. Len(q) : q[i] = m[Len(m) - Len(q) + i]
    <3> SUFFICES ASSUME NEW i \in 1 .. Len(q) PROVE q[i] = m[i]
      BY <1>1, <1>2, <2>1, <2>2
    <3>1. CASE i = Len(q)
      BY <1>1, <1>2, <2>1, <2>2, <3>1
    <3>2. CASE i \in 1 .. Len(recent)
      <4>1. recent[i] = l[Len(l) - Len(recent) + i] /\ Len(l) - Len(recent) + i = i
        BY <1>2, <1>3, <2>1, <3>2
      <4> QED
        BY <1>1, <2>1, <2>2, <3>2, <4>1
    <3> QED
      BY <1>2, <2>2, <3>1, <3>2
  <2>4. Keeps(q, m)
    BY <1>1, <1>5, <1>2, <2>1, <2>2, <2>3, SessionTableAssumption DEF Keeps
  <2> QED
    BY <2>4 DEF q, m
<1> QED
  BY <1>4, <1>5, SessionTableAssumption

\* What is counted in the hashes kept is what the history has in its last window:
\* the positions of the one are those of the other, moved.
LEMMA CountOfKept ==
  ASSUME NEW recent \in Seq(Hashes), NEW l \in Seq(Hashes), NEW h, Keeps(recent, l)
  PROVE  Occurrences(recent, h) = Cardinality(Window(l, Len(l), h))
<1> DEFINE S == {i \in DOMAIN recent : recent[i] = h}
           T == Window(l, Len(l), h)
           d == Len(l) - Len(recent)
           f == [i \in S |-> d + i]
<1>1. DOMAIN recent = 1 .. Len(recent) /\ DOMAIN l = 1 .. Len(l)
  OBVIOUS
<1>2. /\ d \in Nat /\ d = Len(l) - Len(recent)
      /\ Len(recent) \in Nat /\ Len(l) \in Nat /\ MaxRecentHashes \in Nat
      /\ Len(recent) <= MaxRecentHashes
      /\ Len(recent) < MaxRecentHashes => Len(recent) = Len(l)
  BY SessionTableAssumption DEF Keeps
<1>3. \A i \in 1 .. Len(recent) : recent[i] = l[d + i]
  BY DEF Keeps
<1> HIDE DEF d
<1>4. IsFiniteSet(S)
  <2>1. IsFiniteSet(1 .. Len(recent))
    BY <1>2, FS_Interval
  <2> QED
    BY <1>1, <2>1, FS_Subset
<1>5. ASSUME NEW i \in S PROVE d + i \in T
  <2>1. i \in 1 .. Len(recent) /\ recent[i] = h
    BY <1>1
  <2>2. l[d + i] = h
    BY <1>3, <2>1
  <2>3. d + i \in 1 .. Len(l) /\ Len(l) - MaxRecentHashes < d + i /\ d + i <= Len(l)
    BY <1>2, <2>1
  <2> QED
    BY <1>1, <2>2, <2>3 DEF Window
<1>6. ASSUME NEW j \in T PROVE j - d \in S /\ d + (j - d) = j
  <2>1. j \in 1 .. Len(l) /\ Len(l) - MaxRecentHashes < j /\ l[j] = h
    BY <1>1 DEF Window
  <2>2. j - d \in 1 .. Len(recent)
    BY <1>2, <2>1
  <2>3. recent[j - d] = l[d + (j - d)]
    BY <1>3, <2>2
  <2>4. d + (j - d) = j
    BY <1>2, <2>1
  <2> QED
    BY <1>1, <2>1, <2>2, <2>3, <2>4
<1>7. f \in Bijection(S, T)
  <2>1. f \in [S -> T]
    BY <1>5
  <2>2. \A i, j \in S : f[i] = f[j] => i = j
    BY <1>2
  <2>3. \A j \in T : \E i \in S : f[i] = j
    BY <1>6
  <2> HIDE DEF S, T, f
  <2> QED
    BY <2>1, <2>2, <2>3 DEF Bijection, Injection, Surjection, IsInjective
<1>8. ExistsBijection(S, T)
  BY <1>7 DEF ExistsBijection
<1>9. Cardinality(T) = Cardinality(S)
  BY <1>4, <1>8, FS_Bijection
<1> QED
  BY <1>9 DEF Occurrences

\* The test of record_request looks at the last window of the history.
LEMMA StruckOutOfKept ==
  ASSUME NEW recent \in Seq(Hashes), NEW l \in Seq(Hashes), Keeps(recent, l)
  PROVE  StruckOut(recent) <=>
           \E h \in Hashes : ThreeStrikeThreshold <= Cardinality(Window(l, Len(l), h))
<1>1. ASSUME NEW h PROVE Occurrences(recent, h) = Cardinality(Window(l, Len(l), h))
  BY CountOfKept
<1>2. ASSUME NEW h
      PROVE  Occurrences(recent, h) \in Nat
             /\ (Occurrences(recent, h) > 0 => \E i \in DOMAIN recent : recent[i] = h)
  <2>1. IsFiniteSet(DOMAIN recent)
    BY FS_Interval
  <2>2. IsFiniteSet({i \in DOMAIN recent : recent[i] = h})
    BY <2>1, FS_Subset
  <2> QED
    BY <2>2, FS_CardinalityType, FS_EmptySet DEF Occurrences
<1>3. ASSUME StruckOut(recent)
      PROVE \E h \in Hashes : ThreeStrikeThreshold <= Cardinality(Window(l, Len(l), h))
  <2>1. PICK i \in DOMAIN recent : Occurrences(recent, recent[i]) >= ThreeStrikeThreshold
    BY <1>3 DEF StruckOut
  <2>2. recent[i] \in Hashes
    OBVIOUS
  <2> QED
    BY <1>1, <1>2, <2>1, <2>2, SessionTableAssumption
<1>4. ASSUME NEW h \in Hashes, ThreeStrikeThreshold <= Cardinality(Window(l, Len(l), h))
      PROVE  StruckOut(recent)
  <2>1. Occurrences(recent, h) >= ThreeStrikeThreshold
    BY <1>1, <1>2, <1>4, SessionTableAssumption
  <2>2. PICK i \in DOMAIN recent : recent[i] = h
    BY <1>2, <2>1, SessionTableAssumption
  <2> QED
    BY <2>1, <2>2 DEF StruckOut
<1> QED
  BY <1>3, <1>4

\* One more hash adds one window and leaves the earlier ones as they are.
LEMMA StruckByAppend ==
  ASSUME NEW l \in Seq(Hashes), NEW h \in Hashes
  PROVE  Struck(Append(l, h)) <=>
           \/ Struck(l)
           \/ \E g \in Hashes : ThreeStrikeThreshold <=
                Cardinality(Window(Append(l, h), Len(Append(l, h)), g))
<1> DEFINE m == Append(l, h)
<1>1. /\ m \in Seq(Hashes) /\ Len(m) = Len(l) + 1 /\ Len(l) \in Nat
      /\ \A i \in 1 .. Len(l) : m[i] = l[i]
      /\ DOMAIN m = 1 .. Len(l) + 1 /\ DOMAIN l = 1 .. Len(l)
  OBVIOUS
<1> HIDE DEF m
<1>2. ASSUME NEW last \in DOMAIN l, NEW g PROVE Window(m, last, g) = Window(l, last, g)
  BY <1>1 DEF Window
<1>3. DOMAIN m = DOMAIN l \union {Len(m)}
  BY <1>1
<1>4. Struck(m) <=> \/ Struck(l)
                    \/ \E g \in Hashes : ThreeStrikeThreshold <=
                         Cardinality(Window(m, Len(m), g))
  BY <1>2, <1>3, Zenon DEF Struck
<1> QED
  BY <1>4 DEF m

\* record_request keeps the two in step.
LEMMA StrikeStep ==
  ASSUME Inv, StrikeInv, NEW c \in Callers, Record(c)
  PROVE  StrikeInv'
<1> DEFINE r == request[c]
           e == sessions[r.sid]
<1>1. r \in Request /\ r.sid \in Sessions /\ r.hash \in Hashes
  BY DEF Inv, CallerInv, Record, Forget, Request
<1>2. CASE e = None
  BY <1>2 DEF Record, StrikeInv
<1>3. CASE e # None
  <2> DEFINE recent == Push(e.recent, r.hash)
             l == Append(log[r.sid], r.hash)
  <2>1. /\ e \in SessionEntry(Models, Hashes) /\ e.recent \in Seq(Hashes)
        /\ e.escalated \in BOOLEAN /\ log[r.sid] \in Seq(Hashes)
    BY <1>1, <1>3 DEF Inv, TypeOK, SessionEntry
  <2>2. /\ sessions' = [sessions EXCEPT ![r.sid] = Recorded(e, r.hash)]
        /\ log' = [log EXCEPT ![r.sid] = l]
    BY <1>3 DEF Record
  <2>3. /\ sessions'[r.sid] = Recorded(e, r.hash) /\ log'[r.sid] = l
        /\ \A s \in Sessions : s # r.sid =>
             sessions'[s] = sessions[s] /\ log'[s] = log[s]
    BY <1>1, <2>2 DEF Inv, TypeOK
  <2>4. /\ Recorded(e, r.hash).recent = recent
        /\ Recorded(e, r.hash).escalated = (e.escalated \/ StruckOut(recent))
    BY <2>1 DEF Recorded, SessionEntry
  <2>5. Keeps(e.recent, log[r.sid]) /\ (e.escalated <=> Struck(log[r.sid]))
    BY <1>1, <1>3 DEF StrikeInv
  <2>6. Keeps(recent, l)
    BY <1>1, <2>1, <2>5, KeepsPushed
  <2>7. recent \in Seq(Hashes) /\ l \in Seq(Hashes)
    BY <1>1, <2>1, SessionTableAssumption DEF Push
  <2> HIDE DEF recent
  <2>8. StruckOut(recent) <=>
          \E h \in Hashes : ThreeStrikeThreshold <= Cardinality(Window(l, Len(l), h))
    BY <2>6, <2>7, StruckOutOfKept
  <2>9. Struck(l) <=> (Struck(log[r.sid]) \/ StruckOut(recent))
    BY <1>1, <2>1, <2>8, StruckByAppend
  <2> HIDE DEF e, r, l
  <2>10. Recorded(e, r.hash).escalated <=> Struck(l)
    BY <2>4, <2>5, <2>9
  <2> QED
    BY <2>3, <2>4, <2>6, <2>10 DEF StrikeInv
<1> QED
  BY <1>2, <1>3

-----------------------------------------------------------------------------
\* A session is escalated exactly when, at some time since it was created, one
\* hash came ThreeStrikeThreshold times within MaxRecentHashes requests, whatever
\* the two numbers and whoever recorded what in between: dropping the oldest hash
\* of the window loses no strike, and no strike is counted twice.
THEOREM Escalation == Spec => []EscalatedAfterThreeStrikes
<1>1. Init => StrikeInv
  BY DEF Init, StrikeInv
<1>2. Inv /\ StrikeInv /\ [Next]_vars => StrikeInv'
  <2> SUFFICES ASSUME Inv, StrikeInv, [Next]_vars PROVE StrikeInv'
    OBVIOUS
  <2>1. ASSUME NEW c \in Callers, Create(c) PROVE StrikeInv'
    <3> DEFINE r == request[c]
               e == FreshEntry(r.model, now)
    <3>1. r.sid \in Sessions
      BY <2>1 DEF Create, Inv, CallerInv, Request
    <3>2. /\ sessions' = [sessions EXCEPT ![r.sid] = e]
          /\ log' = [log EXCEPT ![r.sid] = <<>>]
      BY <2>1 DEF Create
    <3>3. /\ sessions'[r.sid] = e /\ log'[r.sid] = <<>>
          /\ \A s \in Sessions : s # r.sid =>
               sessions'[s] = sessions[s] /\ log'[s] = log[s]
      BY <3>1, <3>2 DEF Inv, TypeOK
    <3>4. Keeps(e.recent, <<>>) /\ ~e.escalated /\ ~Struck(<<>>)
      BY SessionTableAssumption DEF FreshEntry, Keeps, Struck
    <3> HIDE DEF e
    <3> QED
      BY <3>3, <3>4 DEF StrikeInv
  <2>2. CASE CleanupExpired
    <3>1. \A s \in Sessions :
            /\ sessions'[s] = IF Live(sessions[s], now) THEN sessions[s] ELSE None
            /\ log'[s] = IF sessions'[s] = None THEN <<>> ELSE log[s]
      BY <2>2 DEF CleanupExpired, WithoutExpired, Inv, TypeOK
    <3> QED
      BY <3>1 DEF StrikeInv
  <2>3. CASE UNCHANGED <<sessions, log>>
    BY <2>3 DEF StrikeInv
  <2> QED
    BY <2>1, <2>2, <2>3, StrikeStep
       DEF Next, Lookup, FindUnderWriteLock, Abandon, Tick, vars
<1>3. StrikeInv => EscalatedAfterThreeStrikes
  BY DEF StrikeInv, EscalatedAfterThreeStrikes, Struck, Window
<1> QED
  BY <1>1, <1>2, <1>3, Invariance, PTL DEF Spec
=============================================================================
