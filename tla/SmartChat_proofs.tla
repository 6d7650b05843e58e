-------------------------- MODULE SmartChat_proofs --------------------------
(***************************************************************************)
(* chat around the paid request (module SmartChat), and the monitor that   *)
(* keeps the balance it reads (module BalanceMonitor): type correctness of *)
(* both and their safety properties, for any calls, conversations, models, *)
(* capacity, time to live and window, and any balances and threshold.      *)
(*                                                                         *)
(* The argument for the cache: an entry holds the response of a call whose *)
(* key is that of the entry, and a key is final before it is used.  What   *)
(* was offered for a key is younger than its entry by the deduplication    *)
(* window at most, so an entry that expires takes nothing young with it;   *)
(* what a full list pushes out and what it keeps are more keys than fit,   *)
(* and all were offered.  For the money: the balance is read once, and the *)
(* session cannot change the model of a call that found none.  For the     *)
(* monitor: was_low is what the last successful poll found, and an answer  *)
(* on its way tells a balance of the time since it was asked for.          *)
(***************************************************************************)
EXTENDS SmartChat, BalanceMonitor, FiniteSetTheorems, SequenceTheorems, TLAPS

\* The lemmas on lists of ResponseCache_proofs say nothing of its other parameters.
Lists == INSTANCE ResponseCache_proofs WITH
  Keys <- {}, Responses <- {}, MaxUses <- 0,
  inner <- <<>>, uses <- 0, lastUse <- <<>>, lastOffer <- <<>>

Keys == Models \X Conversations \X Messages

States == {"idle", "session", "missed", "routed", "upstream", "store", "record", "done"}

\* The call has an answer of its own or may return one: its model and its request
\* stay what they are.
Final(c) == pc[c] \in {"store", "record", "done"}

CallInv(c) ==
  /\ pc[c] # "idle" => request[c] \in Request /\ model[c] \in Models
  /\ pc[c] # "idle" /\ UsesFallback(c) => model[c] = FallbackModel
  /\ pc[c] \in {"store", "record"} => answer[c] = c
  /\ answer[c] # None => /\ Final(c) /\ Final(answer[c])
                         /\ CacheKey(answer[c]) = CacheKey(c)
  /\ stored[c] # None => CacheOn /\ pc[c] \in {"record", "done"} /\ stored[c] <= now

\* An entry holds the response of a call for its key that was offered, and refuses
\* the offers of the deduplication window only.
EntryInv(e) ==
  /\ stored[e.response] # None /\ CacheKey(e.response) = e.key
  /\ \A d \in Calls : stored[d] # None /\ CacheKey(d) = e.key =>
       stored[d] <= e.inserted + DedupWindow

StoredKeys == {CacheKey(e) : e \in {e \in Calls : stored[e] # None}}

Aged(d) == now - stored[d] > CacheTtl - DedupWindow

\* What was offered is there, unless it is old or more keys than fit were offered.
KeptIn(list, d) ==
  \/ stored[d] = None \/ Aged(d)
  \/ Cached(list, CacheKey(d))
  \/ MaxEntries < Cardinality(StoredKeys)

Inv ==
  /\ TypeOK
  /\ \A c \in Calls : CallInv(c)
  /\ \A i \in DOMAIN cache : EntryInv(cache[i])
  /\ \A d \in Calls : KeptIn(cache, d)

-----------------------------------------------------------------------------
(* The list of the cache: the lemmas of ResponseCache_proofs, for the      *)
(* operators of this module.                                               *)

\* Their assumptions hold.
LEMMA ListsAssumptions ==
  Lists!CacheTableAssumption /\ Lists!ResponseCacheAssumption
<1>1. IsFiniteSet({})
  BY FS_EmptySet
<1> QED
  BY <1>1, CacheTableAssumption, ChatRoutingAssumption, SmartChatAssumption
     DEF Lists!CacheTableAssumption, Lists!ResponseCacheAssumption,
         Lists!IsFiniteSet, IsFiniteSet

\* The entry that EntryOf finds.
LEMMA CachedEntry ==
  ASSUME NEW list, NEW k, Cached(list, k)
  PROVE  /\ EntryOf(list, k).key = k
         /\ \E i \in DOMAIN list : EntryOf(list, k) = list[i]
  BY DEF Cached, EntryOf, Position

\* In a list with one entry for a key, each entry is the one EntryOf finds.
LEMMA EntryIsOf ==
  ASSUME NEW list, Lists!OneEntryPerKey(list), NEW i \in DOMAIN list
  PROVE  Cached(list, list[i].key) /\ EntryOf(list, list[i].key) = list[i]
  BY DEF Cached, EntryOf, Position, Lists!OneEntryPerKey

\* A lookup keeps the entries, but for an expired one of its key.
LEMMA AfterGetKeeps ==
  ASSUME NEW E, NEW list \in Seq(E), NEW k, NEW t, Lists!OneEntryPerKey(list)
  PROVE  LET n == AfterGet(list, k, t) IN
         /\ n \in Seq(E) /\ Len(n) <= Len(list)
         /\ Lists!OneEntryPerKey(n)
         /\ \A i \in DOMAIN n : \E j \in DOMAIN list : n[i] = list[j]
         /\ \A h : Cached(list, h) /\ (h = k => Hit(list, k, t)) => Cached(n, h)
<1>1. Lists!AfterGet(list, k, t) = AfterGet(list, k, t)
  BY DEF Lists!AfterGet, Lists!Hit, Lists!Cached, Lists!EntryOf, Lists!Position,
     Lists!Without, Lists!RemoveAt,
     RemoveAt, AfterGet, Hit, Cached, EntryOf, Position, Without
<1>2. Lists!Hit(list, k, t) = Hit(list, k, t)
  BY DEF Lists!Hit, Lists!Cached, Lists!EntryOf, Lists!Position, Hit, Cached,
     EntryOf, Position
<1>3. \A l, h : Lists!Cached(l, h) = Cached(l, h)
  BY DEF Lists!Cached, Cached
<1> DEFINE m == Lists!AfterGet(list, k, t)
<1>4. /\ m \in Seq(E) /\ Len(m) <= Len(list)
      /\ Lists!OneEntryPerKey(m)
      /\ \A i \in DOMAIN m : \E j \in DOMAIN list : m[i] = list[j]
      /\ \A h : Lists!Cached(list, h) /\ (h = k => Lists!Hit(list, k, t)) =>
           Lists!Cached(m, h)
  BY ListsAssumptions, Lists!AfterGetKeeps
<1> QED
  BY <1>1, <1>2, <1>3, <1>4, Zenon

\* An accepted put brings its entry to the front and keeps the others, but for the
\* one that a full list gives up.
LEMMA AfterPutKeeps ==
  ASSUME NEW K, NEW R, NEW list \in Seq(CacheEntry(K, R)), Len(list) <= MaxEntries,
         Lists!OneEntryPerKey(list), NEW k \in K, NEW r \in R, NEW t \in Nat,
         ~PutRefused(list, k, t)
  PROVE  LET n == AfterPut(list, k, r, t)
             e == [key |-> k, response |-> r, inserted |-> t]
         IN  /\ n \in Seq(CacheEntry(K, R)) /\ Len(n) <= MaxEntries
             /\ Lists!OneEntryPerKey(n)
             /\ Cached(n, k) /\ EntryOf(n, k) = e
             /\ \A i \in DOMAIN n : n[i] = e \/ \E j \in DOMAIN list : n[i] = list[j]
             /\ \A h : h # k /\ Cached(list, h) =>
                  Cached(n, h) \/ Len(n) = MaxEntries
<1> DEFINE m == Lists!AfterPut(list, k, r, t)
           e == [key |-> k, response |-> r, inserted |-> t]
           w == Lists!Without(list, k)
<1>1. /\ m = AfterPut(list, k, r, t)
      /\ Lists!PutRefused(list, k, t) = PutRefused(list, k, t)
  BY DEF Lists!AfterPut, Lists!PutRefused, Lists!Pushed, Lists!Cached, Lists!EntryOf,
     Lists!Position, Lists!Without, Lists!RemoveAt, RemoveAt,
     AfterPut, PutRefused, Pushed, Cached, EntryOf, Position, Without
<1>2. Lists!CacheEntry(K, R) = CacheEntry(K, R)
  BY DEF Lists!CacheEntry, CacheEntry
<1>3. \A l, h : Lists!Cached(l, h) = Cached(l, h) /\ Lists!EntryOf(l, h) = EntryOf(l, h)
  BY DEF Lists!Cached, Cached, Lists!EntryOf, EntryOf, Lists!Position, Position
<1>4. /\ m \in Seq(Lists!CacheEntry(K, R)) /\ Len(m) <= MaxEntries
      /\ Lists!OneEntryPerKey(m)
      /\ Lists!Cached(m, k) /\ Lists!EntryOf(m, k) = e
      /\ \A i \in DOMAIN m : m[i] = e \/ \E j \in DOMAIN list : m[i] = list[j]
      /\ \A h : h # k /\ Lists!Cached(list, h) =>
           \/ Lists!Cached(m, h) /\ Lists!EntryOf(m, h) = Lists!EntryOf(list, h)
           \/ /\ Len(m) = MaxEntries /\ MaxEntries \in DOMAIN w
              /\ w[MaxEntries].key = h
  <2>1. list \in Seq(Lists!CacheEntry(K, R)) /\ ~Lists!PutRefused(list, k, t)
    BY <1>1, <1>2
  <2>2. Lists!PutKeeps(list, m, K, R, k, r, t)
    BY <2>1, ListsAssumptions, Lists!AfterPutKeeps, Zenon
  <2> HIDE DEF m
  <2> QED
    BY <2>2 DEF Lists!PutKeeps
<1> HIDE DEF m, e, w
<1>5. \A h : h # k /\ Cached(list, h) => Cached(m, h) \/ Len(m) = MaxEntries
  BY <1>3, <1>4, Zenon
<1>6. m \in Seq(CacheEntry(K, R)) /\ Cached(m, k) /\ EntryOf(m, k) = e
  BY <1>2, <1>3, <1>4, Zenon
<1> QED
  BY <1>1, <1>4, <1>5, <1>6, Zenon DEF e

\* A full list has as many keys as entries.
LEMMA FullList ==
  ASSUME NEW E, NEW list \in Seq(E), Lists!OneEntryPerKey(list), Len(list) = MaxEntries,
         NEW S, IsFiniteSet(S), \A i \in DOMAIN list : list[i].key \in S
  PROVE  MaxEntries <= Cardinality(S)
<1>1. Lists!IsFiniteSet(S)
  BY DEF Lists!IsFiniteSet, IsFiniteSet
<1>2. MaxEntries <= Lists!Cardinality(S)
  BY <1>1, ListsAssumptions, Lists!FullList
<1>3. Lists!Cardinality(S) = Cardinality(S)
  BY Zenon DEF Lists!Cardinality, Cardinality
<1> QED
  BY <1>2, <1>3

\* The keys of the responses that were offered are finitely many.
LEMMA StoredFinite ==
  IsFiniteSet(StoredKeys) /\ Cardinality(StoredKeys) \in Nat
<1> DEFINE S == {e \in Calls : stored[e] # None}
           f == [e \in S |-> CacheKey(e)]
<1>1. IsFiniteSet(S)
  BY SmartChatAssumption, FS_Subset
<1>2. StoredKeys = {CacheKey(e) : e \in S}
  BY DEF StoredKeys
<1> HIDE DEF S
<1>3. f \in Surjection(S, StoredKeys)
  BY <1>2 DEF Surjection
<1> QED
  BY <1>1, <1>3, FS_Surjection, FS_CardinalityType

-----------------------------------------------------------------------------
(* The steps of a call.                                                    *)

\* The types of what the calls keep.
LEMMA CallTypes ==
  ASSUME Inv, NEW c \in Calls
  PROVE  /\ pc[c] \in States /\ now \in Nat /\ now \in 0 .. MaxTime /\ MaxTime \in Nat
         /\ answer[c] \in Calls \union {None}
         /\ stored[c] \in Nat \union {None}
         /\ pc[c] # "idle" => CacheKey(c) \in Keys
  BY ChatRoutingAssumption
     DEF Inv, TypeOK, RoutingTypeOK, States, CallInv, CacheKey, KeyOf, Keys, Request

\* Recording leaves an entry an entry.
LEMMA RecordedEntry ==
  ASSUME NEW e \in SessionEntry(Models, Messages), NEW h \in Messages
  PROVE  Recorded(e, h) \in SessionEntry(Models, Messages)
<1>1. Push(e.recent, h) \in Seq(Messages)
  BY SessionTableAssumption DEF Push, SessionEntry
<1>2. StruckOut(Push(e.recent, h)) \in BOOLEAN
  BY DEF StruckOut
<1> QED
  BY <1>1, <1>2 DEF Recorded, SessionEntry

\* What was offered stays offered under its key.
LEMMA OffersStay ==
  ASSUME Inv, UNCHANGED <<now, stored>>,
         \A d \in Calls : stored[d] # None => CacheKey(d)' = CacheKey(d)
  PROVE  /\ StoredKeys' = StoredKeys
         /\ \A d \in Calls : Aged(d)' = Aged(d)
         /\ \A d \in Calls : \A l : stored[d] = None \/ KeptIn(l, d) =>
              \/ stored'[d] = None \/ Aged(d)'
              \/ Cached(l, CacheKey(d)')
              \/ MaxEntries < Cardinality(StoredKeys')
<1>1. StoredKeys' = StoredKeys
  BY DEF StoredKeys
<1>2. \A d \in Calls : Aged(d)' = Aged(d)
  BY DEF Aged
<1> QED
  BY <1>1, <1>2 DEF KeptIn

\* The step of a call whose request and model are settled, and of one that stores
\* nothing: what it returns is its own, or what a final call with its key got.
LEMMA StepHolds ==
  ASSUME Inv, NEW c \in Calls, NEW to \in States, NEW a \in Calls \union {None},
         pc[c] # "idle", to # "idle",
         pc' = [pc EXCEPT ![c] = to], answer' = [answer EXCEPT ![c] = a],
         UNCHANGED <<now, balance, request, model, guard, stored>>,
         sessions' \in [Conversations -> SessionEntry(Models, Messages) \union {None}],
         Final(c) => to \in {"store", "record", "done"},
         stored[c] # None => to \in {"record", "done"},
         to \in {"store", "record"} => a = c,
         a # None => /\ to \in {"store", "record", "done"} /\ (a = c \/ Final(a))
                     /\ CacheKey(a) = CacheKey(c),
         cache' \in Seq(CacheEntry(Keys, Calls)), Len(cache') <= MaxEntries,
         Lists!OneEntryPerKey(cache'),
         \A i \in DOMAIN cache' : \E j \in DOMAIN cache : cache'[i] = cache[j],
         \A d \in Calls : KeptIn(cache', d)
  PROVE  Inv'
<1>1. TypeOK'
  BY DEF Inv, TypeOK, RoutingTypeOK, States, Keys, Lists!OneEntryPerKey
<1>2. /\ pc'[c] = to /\ answer'[c] = a
      /\ \A d \in Calls \ {c} : pc'[d] = pc[d] /\ answer'[d] = answer[d]
      /\ \A d \in Calls : Final(d) => Final(d)'
      /\ \A d : CacheKey(d)' = CacheKey(d) /\ UsesFallback(d)' = UsesFallback(d)
  BY DEF Inv, TypeOK, Final, CacheKey, UsesFallback
<1>3. ASSUME NEW d \in Calls, d # c PROVE CallInv(d)'
  <2>1. CallInv(d) /\ answer[d] \in Calls \union {None}
    BY DEF Inv, TypeOK
  <2> QED
    BY <1>2, <1>3, <2>1 DEF CallInv
<1>4. CallInv(c)'
  <2>1. CallInv(c)
    BY DEF Inv
  <2>2. a # None => Final(c)' /\ Final(a)'
    BY <1>2 DEF Final
  <2> QED
    BY <1>2, <2>1, <2>2 DEF CallInv
<1>5. \A i \in DOMAIN cache' : EntryInv(cache'[i])
  BY DEF Inv
<1>6. \A i \in DOMAIN cache' : EntryInv(cache[i])'
  BY <1>2, <1>5 DEF EntryInv
<1>7. \A d \in Calls : KeptIn(cache, d)'
  BY <1>2, OffersStay DEF KeptIn
<1> QED
  BY <1>1, <1>3, <1>4, <1>6, <1>7 DEF Inv

\* The cache as it is satisfies what StepHolds asks of it.
LEMMA CacheKept ==
  ASSUME Inv
  PROVE  /\ cache \in Seq(CacheEntry(Keys, Calls)) /\ Len(cache) <= MaxEntries
         /\ Lists!OneEntryPerKey(cache)
         /\ \A i \in DOMAIN cache : \E j \in DOMAIN cache : cache[i] = cache[j]
         /\ \A d \in Calls : KeptIn(cache, d)
  BY DEF Inv, TypeOK, Keys, Lists!OneEntryPerKey

\* The state of the sessions is none of the cache's business.
LEMMA SessionsTyped ==
  ASSUME Inv
  PROVE  sessions \in [Conversations -> SessionEntry(Models, Messages) \union {None}]
  BY DEF Inv, TypeOK, RoutingTypeOK

\* What an entry of the cache is made of.
LEMMA EntryFields ==
  ASSUME Inv, NEW i \in DOMAIN cache
  PROVE  /\ cache[i].key \in Keys /\ cache[i].response \in Calls
         /\ cache[i].inserted \in Nat
<1>1. cache \in Seq(CacheEntry(Keys, Calls))
  BY CacheKept
<1>2. cache[i] \in CacheEntry(Keys, Calls)
  BY <1>1
<1> QED
  BY <1>2 DEF CacheEntry

\* What a lookup leaves in the cache: an entry is removed only when all that was
\* offered for its key is old.
LEMMA AfterLookup ==
  ASSUME Inv, NEW k
  PROVE  LET n == AfterGet(cache, k, now) IN
         /\ n \in Seq(CacheEntry(Keys, Calls)) /\ Len(n) <= MaxEntries
         /\ Lists!OneEntryPerKey(n)
         /\ \A i \in DOMAIN n : \E j \in DOMAIN cache : n[i] = cache[j]
         /\ \A d \in Calls : KeptIn(n, d)
<1> DEFINE n == AfterGet(cache, k, now)
<1>1. /\ n \in Seq(CacheEntry(Keys, Calls)) /\ Len(n) <= Len(cache)
      /\ Lists!OneEntryPerKey(n)
      /\ \A i \in DOMAIN n : \E j \in DOMAIN cache : n[i] = cache[j]
      /\ \A h : Cached(cache, h) /\ (h = k => Hit(cache, k, now)) => Cached(n, h)
  BY CacheKept, AfterGetKeeps
<1> HIDE DEF n
<1>2. Len(n) <= MaxEntries
  BY <1>1, CacheKept, CacheTableAssumption
<1>3. ASSUME NEW d \in Calls PROVE KeptIn(n, d)
  <2>1. CASE CacheKey(d) = k => Hit(cache, k, now)
    BY <1>1, <2>1, CacheKept DEF KeptIn
  <2>2. CASE CacheKey(d) = k /\ ~Hit(cache, k, now) /\ Cached(cache, k) /\ stored[d] # None
    <3>1. /\ EntryOf(cache, k).key = k
          /\ \E i \in DOMAIN cache : EntryOf(cache, k) = cache[i]
      BY <2>2, CachedEntry
    <3>2. stored[d] <= EntryOf(cache, k).inserted + DedupWindow
      BY <2>2, <3>1 DEF Inv, EntryInv
    <3>3. EntryOf(cache, k).inserted \in Nat
      BY <3>1, EntryFields
    <3>4. now - EntryOf(cache, k).inserted > CacheTtl
      BY <2>2, <3>3, CallTypes, CacheTableAssumption DEF Hit
    <3>5. Aged(d)
      BY <2>2, <3>2, <3>3, <3>4, CallTypes, CacheTableAssumption DEF Aged
    <3> QED
      BY <3>5 DEF KeptIn
  <2>3. CASE CacheKey(d) = k /\ (~Cached(cache, k) \/ stored[d] = None)
    BY <2>3, CacheKept DEF KeptIn
  <2> QED
    BY <2>1, <2>2, <2>3
<1> QED
  BY <1>1, <1>2, <1>3 DEF n

\* A hit: the response is that of a call with the key of the entry.
LEMMA AnswerFromCacheHolds ==
  ASSUME Inv, NEW c \in Calls, AnswerFromCache(c)
  PROVE  Inv'
<1> DEFINE k == CacheKey(c)
           a == EntryOf(cache, k).response
<1>1. /\ pc[c] = "routed" /\ pc' = [pc EXCEPT ![c] = "done"]
      /\ Hit(cache, k, now)
      /\ answer' = [answer EXCEPT ![c] = a]
      /\ cache' = AfterGet(cache, k, now)
      /\ UNCHANGED <<now, balance, sessions, request, model, guard, stored>>
  BY DEF AnswerFromCache, Goto, settled
<1>2. Cached(cache, k)
  BY <1>1 DEF Hit
<1>3. PICK i \in DOMAIN cache : EntryOf(cache, k) = cache[i] /\ cache[i].key = k
  BY <1>2, CachedEntry
<1>4. a \in Calls /\ stored[a] # None /\ CacheKey(a) = k
  BY <1>3, EntryFields DEF Inv, EntryInv
<1>5. Final(a)
  BY <1>4 DEF Inv, CallInv, Final
<1>6. stored[c] = None
  BY <1>1 DEF Inv, CallInv
<1> HIDE DEF a
<1>7. /\ cache' \in Seq(CacheEntry(Keys, Calls)) /\ Len(cache') <= MaxEntries
      /\ Lists!OneEntryPerKey(cache')
      /\ \A j \in DOMAIN cache' : \E m \in DOMAIN cache : cache'[j] = cache[m]
      /\ \A d \in Calls : KeptIn(cache', d)
  BY <1>1, AfterLookup
<1> QED
  BY <1>1, <1>4, <1>5, <1>6, <1>7, SessionsTyped, StepHolds DEF States

\* A miss.
LEMMA GoUpstreamHolds ==
  ASSUME Inv, NEW c \in Calls, GoUpstream(c)
  PROVE  Inv'
<1>1. /\ pc[c] = "routed" /\ pc' = [pc EXCEPT ![c] = "upstream"]
      /\ cache' = IF CacheOn THEN AfterGet(cache, CacheKey(c), now) ELSE cache
      /\ UNCHANGED <<now, balance, sessions, request, model, guard, answer, stored>>
  BY DEF GoUpstream, Goto, settled
<1>2. /\ stored[c] = None /\ answer[c] = None /\ ~Final(c)
      /\ answer' = [answer EXCEPT ![c] = None]
  BY <1>1 DEF Inv, TypeOK, CallInv, Final
<1>3. /\ cache' \in Seq(CacheEntry(Keys, Calls)) /\ Len(cache') <= MaxEntries
      /\ Lists!OneEntryPerKey(cache')
      /\ \A j \in DOMAIN cache' : \E m \in DOMAIN cache : cache'[j] = cache[m]
      /\ \A d \in Calls : KeptIn(cache', d)
  BY <1>1, AfterLookup, CacheKept
<1> QED
  BY <1>1, <1>2, <1>3, SessionsTyped, StepHolds DEF States

\* The gateway answers or fails.
LEMMA GatewayHolds ==
  ASSUME Inv, NEW c \in Calls, GatewayAnswers(c) \/ GatewayFails(c)
  PROVE  Inv'
<1>1. /\ pc[c] = "upstream" /\ UNCHANGED <<now, balance, sessions, request, model, guard,
                                          cache, stored>>
      /\ \/ pc' = [pc EXCEPT ![c] = "store"] /\ answer' = [answer EXCEPT ![c] = c]
         \/ pc' = [pc EXCEPT ![c] = "done"] /\ answer' = answer
  BY DEF GatewayAnswers, GatewayFails, Goto, settled
<1>2. stored[c] = None /\ answer[c] = None /\ ~Final(c)
  BY <1>1 DEF Inv, TypeOK, CallInv, Final
<1>3. answer' = answer => answer' = [answer EXCEPT ![c] = None]
  BY <1>2 DEF Inv, TypeOK
<1> QED
  BY <1>1, <1>2, <1>3, CacheKept, SessionsTyped, StepHolds DEF States

\* The record counts in the session as it is found.
LEMMA RecordHolds ==
  ASSUME Inv, NEW c \in Calls, Record(c)
  PROVE  Inv'
<1> DEFINE sid == request[c].sid
<1>1. /\ pc[c] = "record" /\ pc' = [pc EXCEPT ![c] = "done"]
      /\ sessions' = IF SessionsOn /\ sessions[sid] # None
                       THEN [sessions EXCEPT ![sid] = Recorded(sessions[sid], request[c].msgs)]
                       ELSE sessions
      /\ UNCHANGED <<now, balance, request, model, guard, cache, answer, stored>>
  BY DEF Record, RecordRequest, Goto, settled
<1>2. /\ answer[c] = c /\ answer' = [answer EXCEPT ![c] = c]
  BY <1>1 DEF Inv, TypeOK, CallInv
<1>3. sid \in Conversations /\ request[c].msgs \in Messages
  BY <1>1 DEF Inv, CallInv, Request
<1>4. sessions' \in [Conversations -> SessionEntry(Models, Messages) \union {None}]
  <2>1. CASE SessionsOn /\ sessions[sid] # None
    <3>1. sessions[sid] \in SessionEntry(Models, Messages)
      BY <1>3, <2>1, SessionsTyped
    <3>2. Recorded(sessions[sid], request[c].msgs) \in SessionEntry(Models, Messages)
      BY <1>3, <3>1, RecordedEntry
    <3> QED
      BY <1>1, <2>1, <3>2, SessionsTyped
  <2>2. CASE ~(SessionsOn /\ sessions[sid] # None)
    BY <1>1, <2>2, SessionsTyped
  <2> QED
    BY <2>1, <2>2
<1> QED
  BY <1>1, <1>2, <1>4, CacheKept, StepHolds DEF States

\* A call that is dropped returns nothing; what it stored stays.
LEMMA DropHolds ==
  ASSUME Inv, NEW c \in Calls, Drop(c)
  PROVE  Inv'
<1>1. /\ pc[c] \in {"session", "missed", "record"} /\ pc' = [pc EXCEPT ![c] = "done"]
      /\ answer' = [answer EXCEPT ![c] = None]
      /\ UNCHANGED <<now, balance, sessions, request, model, guard, cache, stored>>
  BY DEF Drop, Goto, settled
<1> QED
  BY <1>1, CacheKept, SessionsTyped, StepHolds DEF States

-----------------------------------------------------------------------------
(* The response is offered to the cache.                                   *)

\* More keys may have been offered, never fewer.
LEMMA StoredGrows ==
  ASSUME Inv, NEW c \in Calls, stored' = [stored EXCEPT ![c] = now],
         UNCHANGED <<model, request>>
  PROVE  /\ StoredKeys \subseteq StoredKeys' /\ CacheKey(c) \in StoredKeys'
         /\ IsFiniteSet(StoredKeys') /\ Cardinality(StoredKeys') \in Nat
         /\ Cardinality(StoredKeys) <= Cardinality(StoredKeys')
<1>1. stored'[c] # None /\ \A d \in Calls \ {c} : stored'[d] = stored[d]
  BY CallTypes, SmartChatAssumption DEF Inv, TypeOK
<1>2. \A d : CacheKey(d)' = CacheKey(d)
  BY DEF CacheKey
<1>3. StoredKeys \subseteq StoredKeys' /\ CacheKey(c) \in StoredKeys'
  BY <1>1, <1>2 DEF StoredKeys
<1> DEFINE S == {d \in Calls : stored'[d] # None}
           f == [d \in S |-> CacheKey(d)]
<1>4. IsFiniteSet(S)
  BY SmartChatAssumption, FS_Subset
<1>5. StoredKeys' = {CacheKey(d) : d \in S}
  BY <1>2 DEF StoredKeys
<1> HIDE DEF S
<1>6. f \in Surjection(S, StoredKeys')
  BY <1>5 DEF Surjection
<1>7. IsFiniteSet(StoredKeys') /\ Cardinality(StoredKeys') \in Nat
  BY <1>4, <1>6, FS_Surjection, FS_CardinalityType
<1> QED
  BY <1>3, <1>7, FS_Subset

\* A young entry refuses the offer, or the new one comes to the front; if one that
\* was in a full list is pushed out, then the keys that stay and its own have all
\* been offered.
LEMMA StoreHolds ==
  ASSUME Inv, NEW c \in Calls, Store(c)
  PROVE  Inv'
<1> DEFINE k == CacheKey(c)
<1>1. /\ pc[c] = "store" /\ pc' = [pc EXCEPT ![c] = "record"]
      /\ UNCHANGED <<now, balance, sessions, request, model, guard, answer>>
      /\ CacheOn => /\ cache' = AfterPut(cache, k, answer[c], now)
                    /\ stored' = [stored EXCEPT ![c] = now]
      /\ ~CacheOn => UNCHANGED <<cache, stored>>
  BY DEF Store, Goto, settled
<1>2. /\ answer[c] = c /\ answer' = [answer EXCEPT ![c] = c] /\ stored[c] = None
  BY <1>1 DEF Inv, TypeOK, CallInv
<1>3. CASE ~CacheOn
  <2>1. UNCHANGED <<cache, stored>>
    BY <1>1, <1>3
  <2>2. "record" \in States /\ c \in Calls \union {None}
    BY DEF States
  <2> QED
    BY <1>1, <1>2, <2>1, <2>2, CacheKept, SessionsTyped, StepHolds
<1>4. CASE CacheOn
  <2>1. /\ cache' = AfterPut(cache, k, c, now) /\ stored' = [stored EXCEPT ![c] = now]
        /\ k \in Keys /\ now \in Nat
    BY <1>1, <1>2, <1>4, CallTypes
  <2>2. /\ pc'[c] = "record" /\ answer'[c] = c
        /\ stored'[c] = now /\ stored'[c] # None
        /\ \A d \in Calls \ {c} : pc'[d] = pc[d] /\ stored'[d] = stored[d]
        /\ \A d \in Calls : Final(d) => Final(d)'
        /\ \A d : CacheKey(d)' = CacheKey(d) /\ UsesFallback(d)' = UsesFallback(d)
    BY <1>1, <1>2, <2>1, CallTypes, SmartChatAssumption
       DEF Inv, TypeOK, Final, CacheKey, UsesFallback
  <2>3. \A d \in Calls : CallInv(d)'
    <3>1. ASSUME NEW d \in Calls, d # c PROVE CallInv(d)'
      <4>1. CallInv(d) /\ answer[d] \in Calls \union {None}
        BY DEF Inv, TypeOK
      <4> QED
        BY <1>1, <2>2, <3>1, <4>1 DEF CallInv
    <3>2. CallInv(c)'
      <4>1. CallInv(c) /\ Final(c)
        BY <1>1 DEF Inv, Final
      <4> QED
        BY <1>1, <1>4, <2>1, <2>2, <4>1 DEF CallInv
    <3> QED
      BY <3>1, <3>2
  <2>4. /\ StoredKeys \subseteq StoredKeys' /\ k \in StoredKeys'
        /\ IsFiniteSet(StoredKeys') /\ Cardinality(StoredKeys') \in Nat
        /\ Cardinality(StoredKeys) <= Cardinality(StoredKeys')
    BY <1>1, <2>1, StoredGrows
  <2>5. Cardinality(StoredKeys) \in Nat /\ MaxEntries \in Nat
    BY StoredFinite, CacheTableAssumption
  <2>6. ASSUME NEW d \in Calls, stored[d] # None, ~Cached(cache, CacheKey(d))
        PROVE  KeptIn(cache, d)'
    <3>1. Aged(d) \/ MaxEntries < Cardinality(StoredKeys)
      BY <2>6, CacheKept DEF KeptIn
    <3>2. d # c
      BY <1>2, <2>6
    <3> QED
      BY <1>1, <2>2, <2>4, <2>5, <3>1, <3>2 DEF KeptIn, Aged
  <2>7. CASE PutRefused(cache, k, now)
    <3>1. cache' = cache
      BY <2>1, <2>7 DEF AfterPut
    <3>2. /\ Cached(cache, k) /\ EntryOf(cache, k).key = k
          /\ now - EntryOf(cache, k).inserted < DedupWindow
      BY <2>7, CachedEntry DEF PutRefused
    <3>3. TypeOK'
      BY <1>1, <2>1, <3>1 DEF Inv, TypeOK, RoutingTypeOK
    <3>4. ASSUME NEW i \in DOMAIN cache PROVE EntryInv(cache[i])'
      <4>1. EntryInv(cache[i]) /\ cache[i].response \in Calls /\ cache[i].inserted \in Nat
        BY EntryFields DEF Inv
      <4>2. cache[i].key = k => now <= cache[i].inserted + DedupWindow
        <5>1. cache[i].key = k => EntryOf(cache, k) = cache[i]
          BY CacheKept, EntryIsOf
        <5> QED
          BY <2>1, <3>2, <4>1, <5>1, CacheTableAssumption
      <4> QED
        BY <2>2, <3>1, <4>1, <4>2 DEF EntryInv
    <3>5. \A d \in Calls : KeptIn(cache, d)'
      <4> SUFFICES ASSUME NEW d \in Calls PROVE KeptIn(cache, d)'
        OBVIOUS
      <4>1. CASE Cached(cache, CacheKey(d))
        BY <2>2, <3>1, <4>1 DEF KeptIn
      <4>2. CASE ~Cached(cache, CacheKey(d))
        <5>1. d # c
          BY <3>2, <4>2
        <5> QED
          BY <2>2, <2>6, <4>2, <5>1 DEF KeptIn
      <4> QED
        BY <4>1, <4>2
    <3> QED
      BY <2>3, <3>1, <3>3, <3>4, <3>5 DEF Inv
  <2>8. CASE ~PutRefused(cache, k, now)
    <3> DEFINE e == [key |-> k, response |-> c, inserted |-> now]
    <3>1. /\ cache' \in Seq(CacheEntry(Keys, Calls)) /\ Len(cache') <= MaxEntries
          /\ Lists!OneEntryPerKey(cache')
          /\ Cached(cache', k) /\ EntryOf(cache', k) = e
          /\ \A i \in DOMAIN cache' :
               cache'[i] = e \/ \E j \in DOMAIN cache : cache'[i] = cache[j]
          /\ \A h : h # k /\ Cached(cache, h) =>
               Cached(cache', h) \/ Len(cache') = MaxEntries
      BY <2>1, <2>8, CacheKept, AfterPutKeeps
    <3>2. e.key = k /\ e.response = c /\ e.inserted = now
      OBVIOUS
    <3> HIDE DEF e
    <3>3. TypeOK'
      BY <1>1, <2>1, <3>1 DEF Inv, TypeOK, RoutingTypeOK, Keys, Lists!OneEntryPerKey
    <3>4. ASSUME NEW i \in DOMAIN cache' PROVE EntryInv(cache[i])'
      <4>1. CASE cache'[i] = e
        <5>1. stored'[c] # None /\ CacheKey(c)' = k
          BY <2>2
        <5>2. ASSUME NEW d \in Calls, stored'[d] # None
              PROVE  stored'[d] <= now + DedupWindow
          <6>1. stored'[d] \in Nat /\ stored'[d] <= now
            BY <1>1, <2>1, <2>2, <2>3, <3>3, <5>2 DEF CallInv, TypeOK
          <6> QED
            BY <2>1, <6>1, CacheTableAssumption
        <5> QED
          BY <3>2, <4>1, <5>1, <5>2 DEF EntryInv
      <4>2. CASE cache'[i] # e
        <5>1. PICK j \in DOMAIN cache : cache'[i] = cache[j]
          BY <3>1, <4>2
        <5>2. cache'[i].key # k
          BY <3>1, <4>2, EntryIsOf
        <5>3. EntryInv(cache[j]) /\ cache[j].response \in Calls
          BY EntryFields DEF Inv
        <5>4. stored'[cache[j].response] # None
          BY <2>2, <5>3 DEF EntryInv
        <5> QED
          BY <2>2, <5>1, <5>2, <5>3, <5>4 DEF EntryInv
      <4> QED
        BY <4>1, <4>2
    <3>5. ASSUME NEW h \in StoredKeys', ~Cached(cache', h), Len(cache') = MaxEntries
          PROVE  MaxEntries < Cardinality(StoredKeys')
      <4> DEFINE S == StoredKeys' \ {h}
      <4>1. \A i \in DOMAIN cache' : cache'[i].key \in S
        <5> SUFFICES ASSUME NEW i \in DOMAIN cache' PROVE cache'[i].key \in S
          OBVIOUS
        <5>1. cache'[i] \in CacheEntry(Keys, Calls)
          BY <3>1
        <5>2. cache'[i].response \in Calls
          BY <5>1 DEF CacheEntry
        <5>3. cache'[i].key \in StoredKeys'
          BY <3>4, <5>2 DEF EntryInv, StoredKeys
        <5> QED
          BY <3>5, <5>3 DEF Cached
      <4>2. IsFiniteSet(S) /\ Cardinality(S) = Cardinality(StoredKeys') - 1
        BY <2>4, FS_RemoveElement
      <4> HIDE DEF S
      <4>3. MaxEntries <= Cardinality(S)
        BY <3>1, <3>5, <4>1, <4>2, FullList
      <4> QED
        BY <2>4, <2>5, <4>2, <4>3
    <3>6. \A d \in Calls : KeptIn(cache, d)'
      <4> SUFFICES ASSUME NEW d \in Calls, stored'[d] # None PROVE KeptIn(cache, d)'
        BY DEF KeptIn
      <4>1. CacheKey(d) \in StoredKeys'
        BY <2>2 DEF StoredKeys
      <4>2. CASE Cached(cache, CacheKey(d)) \/ CacheKey(d) = k
        <5>1. \/ Cached(cache', CacheKey(d))
              \/ Len(cache') = MaxEntries /\ ~Cached(cache', CacheKey(d))
          BY <3>1, <4>2
        <5> QED
          BY <2>2, <3>5, <4>1, <5>1 DEF KeptIn
      <4>3. CASE ~Cached(cache, CacheKey(d)) /\ CacheKey(d) # k
        BY <2>2, <2>6, <4>3
      <4> QED
        BY <4>2, <4>3
    <3> QED
      BY <2>3, <3>3, <3>4, <3>6 DEF Inv
  <2> QED
    BY <2>7, <2>8
<1> QED
  BY <1>3, <1>4

-----------------------------------------------------------------------------
(* Routing, the monitor and the clock.                                     *)

\* What a routing step does to its own call, and to the sessions.
LEMMA RouteTypes ==
  ASSUME Inv, NEW c \in Calls, Route(c)
  PROVE  /\ UNCHANGED <<now, balance>>
         /\ \A d \in Calls \ {c} : UNCHANGED <<pc[d], request[d], model[d], guard[d]>>
         /\ pc[c] \in {"idle", "session", "missed"}
         /\ pc'[c] \in {"session", "missed", "routed"}
         /\ pc' \in [Calls -> States]
         /\ request' \in [Calls -> Request \union {None}]
         /\ model' \in [Calls -> Models \union {None}]
         /\ guard' \in [Calls -> {"unknown", "zero", "positive", None}]
         /\ request'[c] \in Request /\ model'[c] \in Models
         /\ FallbackModel # None /\ guard'[c] = "zero" => model'[c] = FallbackModel
         /\ sessions' \in [Conversations -> SessionEntry(Models, Messages) \union {None}]
<1>0. /\ pc \in [Calls -> States] /\ request \in [Calls -> Request \union {None}]
      /\ model \in [Calls -> Models \union {None}]
      /\ guard \in [Calls -> {"unknown", "zero", "positive", None}]
      /\ balance \in {"unknown", "zero", "positive"} /\ now \in Nat
      /\ CallInv(c)
  BY CallTypes DEF Inv, TypeOK, RoutingTypeOK, States
<1>1. CASE Begin(c)
  <2>1. PICK r \in Request :
          /\ request' = [request EXCEPT ![c] = r]
          /\ model' = [model EXCEPT ![c] =
               IF FallbackModel # None /\ balance = "zero" THEN FallbackModel ELSE r.model]
    BY <1>1 DEF Begin
  <2>2. (IF FallbackModel # None /\ balance = "zero" THEN FallbackModel ELSE r.model)
          \in Models
    BY ChatRoutingAssumption DEF Request
  <2>3. /\ pc[c] = "idle"
        /\ pc' = [pc EXCEPT ![c] = IF SessionsOn THEN "session" ELSE "routed"]
        /\ guard' = [guard EXCEPT ![c] = IF FallbackModel # None THEN balance ELSE None]
        /\ UNCHANGED <<now, balance, sessions>>
    BY <1>1 DEF Begin, Goto
  <2>4. FallbackModel # None /\ guard'[c] = "zero" => model'[c] = FallbackModel
    BY <1>0, <2>1, <2>3
  <2> QED
    BY <1>0, <2>1, <2>2, <2>3, <2>4, SessionsTyped DEF States
<1>2. CASE FindSession(c)
  <2>1. /\ pc[c] \in {"session", "missed"} /\ pc' = [pc EXCEPT ![c] = "routed"]
        /\ Live(sessions[request[c].sid], now)
        /\ model' = [model EXCEPT ![c] = Routed(c, sessions[request[c].sid].model)]
        /\ UNCHANGED <<now, balance, sessions, request, guard>>
    BY <1>2 DEF FindSession
  <2>2. request[c] \in Request /\ model[c] \in Models /\ request[c].sid \in Conversations
    BY <1>0, <2>1 DEF CallInv, Request
  <2>3. sessions[request[c].sid].model \in Models
    BY <2>1, <2>2, SessionsTyped DEF Live, SessionEntry
  <2>4. Routed(c, sessions[request[c].sid].model) \in Models
    BY <2>2, <2>3 DEF Routed
  <2>5. FallbackModel # None /\ guard[c] = "zero" => model'[c] = FallbackModel
    BY <1>0, <2>1 DEF CallInv, UsesFallback, Routed
  <2> QED
    BY <1>0, <2>1, <2>2, <2>4, <2>5, SessionsTyped DEF States
<1>3. CASE MissSession(c)
  <2>1. /\ pc[c] = "session" /\ pc' = [pc EXCEPT ![c] = "missed"]
        /\ UNCHANGED <<now, balance, sessions, request, model, guard>>
    BY <1>3 DEF MissSession, Goto, settled
  <2> QED
    BY <1>0, <2>1, SessionsTyped DEF States, CallInv, UsesFallback
<1>4. CASE CreateSession(c)
  <2>1. /\ pc[c] = "missed" /\ pc' = [pc EXCEPT ![c] = "routed"]
        /\ sessions' = [sessions EXCEPT ![request[c].sid] = FreshEntry(model[c], now)]
        /\ UNCHANGED <<now, balance, request, model, guard>>
    BY <1>4 DEF CreateSession, Goto, settled
  <2>2. FreshEntry(model[c], now) \in SessionEntry(Models, Messages)
    BY <1>0, <2>1 DEF CallInv, FreshEntry, SessionEntry
  <2> QED
    BY <1>0, <2>1, <2>2, SessionsTyped DEF States, CallInv, UsesFallback
<1> QED
  BY <1>1, <1>2, <1>3, <1>4 DEF Route

\* A call that is being routed has no part in the cache yet.
LEMMA RouteHolds ==
  ASSUME Inv, NEW c \in Calls, Route(c), UNCHANGED <<cache, answer, stored>>
  PROVE  Inv'
<1>1. TypeOK'
  <2>1. UNCHANGED <<now, balance>>
    BY RouteTypes
  <2> QED
    BY <2>1, RouteTypes DEF Inv, TypeOK, RoutingTypeOK, States
<1>2. ~Final(c) /\ stored[c] = None /\ answer[c] = None
  BY RouteTypes DEF Inv, CallInv, Final
<1>3. ASSUME NEW d \in Calls, d # c
      PROVE  /\ CacheKey(d)' = CacheKey(d) /\ Final(d)' = Final(d)
             /\ UsesFallback(d)' = UsesFallback(d)
  BY <1>3, RouteTypes DEF CacheKey, KeyOf, Final, UsesFallback
<1>4. UNCHANGED now
  BY RouteTypes
<1>5. ASSUME NEW d \in Calls, d # c PROVE CallInv(d)'
  <2>1. CallInv(d) /\ answer[d] \in Calls \union {None}
    BY DEF Inv, TypeOK
  <2>2. answer[d] # None => answer[d] # c
    BY <1>2, <2>1 DEF CallInv
  <2>3. UNCHANGED <<pc[d], request[d], model[d], answer[d], stored[d]>>
    BY <1>5, RouteTypes
  <2>4. /\ CacheKey(d)' = CacheKey(d) /\ UsesFallback(d)' = UsesFallback(d)
        /\ Final(d)' = Final(d)
    BY <1>3, <1>5
  <2>5. answer[d] # None => /\ CacheKey(answer[d])' = CacheKey(answer[d])
                            /\ Final(answer[d])' = Final(answer[d])
    BY <1>3, <2>1, <2>2
  <2> QED
    BY <1>4, <2>1, <2>3, <2>4, <2>5 DEF CallInv
<1>6. CallInv(c)'
  BY <1>2, RouteTypes DEF CallInv, UsesFallback
<1>7. \A d \in Calls : stored[d] # None => CacheKey(d)' = CacheKey(d)
  BY <1>2, <1>3
<1>8. \A i \in DOMAIN cache : EntryInv(cache[i])'
  BY <1>7, EntryFields DEF Inv, EntryInv
<1>9. \A d \in Calls : KeptIn(cache, d)'
  BY <1>4, <1>7, OffersStay, CacheKept DEF KeptIn
<1> QED
  BY <1>1, <1>5, <1>6, <1>8, <1>9 DEF Inv

\* The balance and the clock: offers get older.
LEMMA EnvironmentHolds ==
  ASSUME Inv, Poll \/ Tick, UNCHANGED <<cache, answer, stored>>
  PROVE  Inv'
<1>1. /\ UNCHANGED <<sessions, pc, request, model, guard>>
      /\ now \in Nat /\ now' \in Nat /\ now <= now' /\ now' \in 0 .. MaxTime
      /\ balance' \in {"unknown", "zero", "positive"}
  <2>1. now \in Nat /\ now \in 0 .. MaxTime /\ MaxTime \in Nat
    BY ChatRoutingAssumption DEF Inv, TypeOK, RoutingTypeOK
  <2>2. UNCHANGED <<sessions, pc, request, model, guard>>
    BY DEF Poll, Tick, settled
  <2>3. balance' \in {"unknown", "zero", "positive"}
    BY ChatRoutingAssumption DEF Poll, Tick, Inv, TypeOK, RoutingTypeOK
  <2>4. now' = now \/ (now < MaxTime /\ now' = now + 1)
    BY DEF Poll, Tick
  <2> QED
    BY <2>1, <2>2, <2>3, <2>4
<1>2. TypeOK'
  BY <1>1 DEF Inv, TypeOK, RoutingTypeOK
<1>3. \A d : /\ CacheKey(d)' = CacheKey(d) /\ UsesFallback(d)' = UsesFallback(d)
             /\ Final(d)' = Final(d)
  BY <1>1 DEF CacheKey, UsesFallback, Final
<1>4. ASSUME NEW d \in Calls PROVE CallInv(d)'
  <2>1. CallInv(d)
    BY DEF Inv
  <2>2. stored[d] # None => stored[d] <= now'
    BY <1>1, <2>1, CallTypes DEF CallInv
  <2> QED
    BY <1>1, <1>3, <2>1, <2>2 DEF CallInv
<1>5. \A i \in DOMAIN cache : EntryInv(cache[i])'
  BY <1>3 DEF Inv, EntryInv
<1>6. StoredKeys' = StoredKeys
  BY <1>3 DEF StoredKeys
<1>7. ASSUME NEW d \in Calls PROVE KeptIn(cache, d)'
  <2>1. stored[d] # None /\ Aged(d) => Aged(d)'
    BY <1>1, CallTypes, CacheTableAssumption DEF Aged
  <2>2. KeptIn(cache, d)
    BY DEF Inv
  <2> QED
    BY <1>3, <1>6, <2>1, <2>2 DEF KeptIn
<1> QED
  BY <1>2, <1>4, <1>5, <1>7 DEF Inv

\* Every step keeps the invariant.
LEMMA Invariant ==
  Spec => []Inv
<1>1. Init => Inv
  <2> SUFFICES ASSUME Init PROVE Inv
    OBVIOUS
  <2>1. TypeOK
    BY ChatRoutingAssumption, CacheTableAssumption
       DEF Init, RoutingInit, TypeOK, RoutingTypeOK
  <2>2. \A c \in Calls : CallInv(c) /\ KeptIn(cache, c)
    BY DEF Init, RoutingInit, CallInv, KeptIn
  <2>3. \A i \in DOMAIN cache : EntryInv(cache[i])
    BY DEF Init
  <2> QED
    BY <2>1, <2>2, <2>3 DEF Inv
<1>2. Inv /\ [Next]_vars => Inv'
  <2> SUFFICES ASSUME Inv, [Next]_vars PROVE Inv'
    OBVIOUS
  <2>1. CASE UNCHANGED vars
    <3>1. UNCHANGED <<now, balance, sessions, pc, request, model, guard, cache, answer,
                      stored>>
      BY <2>1 DEF vars, routing, settled
    <3>2. TypeOK'
      BY <3>1 DEF Inv, TypeOK, RoutingTypeOK
    <3>3. \A d \in Calls : CallInv(d)'
      BY <3>1 DEF Inv, CallInv, CacheKey, UsesFallback, Final
    <3>4. \A i \in DOMAIN cache : EntryInv(cache[i])'
      BY <3>1 DEF Inv, EntryInv, CacheKey
    <3>5. \A d \in Calls : KeptIn(cache, d)'
      BY <3>1 DEF Inv, KeptIn, CacheKey, Aged, StoredKeys
    <3> QED
      BY <3>1, <3>2, <3>3, <3>4, <3>5 DEF Inv
  <2> QED
    BY <2>1, RouteHolds, AnswerFromCacheHolds, GoUpstreamHolds, GatewayHolds, StoreHolds,
       RecordHolds, DropHolds, EnvironmentHolds DEF Next
<1> QED
  BY <1>1, <1>2, PTL DEF Spec

-----------------------------------------------------------------------------
\* The stores that the calls share stay well formed, for any number of calls and
\* any capacity.
THEOREM TypeCorrect ==
  Spec => []TypeOK
<1>1. Inv => TypeOK
  BY DEF Inv
<1> QED
  BY <1>1, Invariant, PTL

\* A call never gets the response of another conversation, other messages or
\* another model: the key is the final model, and stays what it was.
THEOREM OwnModel ==
  Spec => []CacheServesOwnModel
<1>1. Inv => CacheServesOwnModel
  BY DEF Inv, CallInv, CacheServesOwnModel, CacheKey
<1> QED
  BY <1>1, Invariant, PTL

\* A call that found no money is answered by the fallback model, from the gateway
\* or from the cache.
THEOREM FallbackOnly ==
  Spec => []NoMoneyMeansFallback
<1>1. ASSUME Inv, NEW c \in Calls, Decided(c), UsesFallback(c)
      PROVE  /\ model[c] = FallbackModel
             /\ answer[c] # None => model[answer[c]] = FallbackModel
  <2>1. CallInv(c) /\ (answer[c] # None => CacheKey(answer[c]) = CacheKey(c))
    BY <1>1 DEF Inv, CallInv
  <2>2. pc[c] # "idle"
    BY <1>1, <2>1 DEF Decided, CallInv, Final
  <2> QED
    BY <1>1, <2>1, <2>2 DEF CallInv, CacheKey, KeyOf
<1>2. Inv => NoMoneyMeansFallback
  BY <1>1 DEF NoMoneyMeansFallback
<1> QED
  BY <1>2, Invariant, PTL

\* A call goes upstream only if no response for its key was offered lately, or more
\* keys than the cache holds were: an entry that refused an offer is younger than
\* the window, so what was offered is served for CacheTtl - DedupWindow at least.
THEOREM NoSecondPurchase ==
  Spec => NoRepeatPurchase
<1> DEFINE Once == \A c, d \in Calls :
       /\ pc[c] = "routed" /\ pc'[c] = "upstream"
       /\ stored[d] # None /\ CacheKey(c) = CacheKey(d)
       /\ now - stored[d] <= CacheTtl - DedupWindow
       => MaxEntries < Cardinality({CacheKey(e) : e \in {e \in Calls : stored[e] # None}})
<1>1. ASSUME Inv, Next, NEW c \in Calls, pc[c] = "routed", pc'[c] = "upstream"
      PROVE  GoUpstream(c)
  <2>0. pc \in [Calls -> States]
    BY <1>1 DEF Inv, TypeOK, States
  <2>1. ASSUME NEW d \in Calls, Route(d) PROVE FALSE
    BY <1>1, <2>1, RouteTypes
  <2>2. ASSUME NEW d \in Calls,
               \/ AnswerFromCache(d) \/ GatewayAnswers(d) \/ GatewayFails(d)
               \/ Store(d) \/ Record(d) \/ Drop(d)
        PROVE  FALSE
    <3>1. PICK to \in States \ {"upstream"} : pc' = [pc EXCEPT ![d] = to]
      BY <2>2 DEF AnswerFromCache, GatewayAnswers, GatewayFails, Store, Record,
         RecordRequest, Drop, Goto, States
    <3> QED
      BY <1>1, <2>0, <3>1
  <2>3. ASSUME Poll \/ Tick PROVE FALSE
    BY <1>1, <2>3 DEF Poll, Tick
  <2>4. PICK d \in Calls : GoUpstream(d)
    BY <1>1, <2>1, <2>2, <2>3 DEF Next
  <2>5. d = c
    BY <1>1, <2>0, <2>4 DEF GoUpstream, Goto
  <2> QED
    BY <2>4, <2>5
<1>2. ASSUME Inv, NEW c \in Calls, NEW d \in Calls, GoUpstream(c),
             stored[d] # None, CacheKey(c) = CacheKey(d),
             now - stored[d] <= CacheTtl - DedupWindow
      PROVE  MaxEntries < Cardinality(StoredKeys)
  <2> DEFINE k == CacheKey(d)
  <2>1. CacheOn /\ ~Hit(cache, k, now)
    BY <1>2 DEF Inv, CallInv, GoUpstream
  <2>2. now \in Nat /\ stored[d] \in Nat
    BY <1>2, CallTypes
  <2>3. ~Aged(d)
    BY <1>2, <2>2, CacheTableAssumption DEF Aged
  <2>4. ~Cached(cache, k)
    <3> SUFFICES ASSUME Cached(cache, k) PROVE FALSE
      OBVIOUS
    <3>1. PICK i \in DOMAIN cache : EntryOf(cache, k) = cache[i] /\ cache[i].key = k
      BY CachedEntry
    <3>2. stored[d] <= cache[i].inserted + DedupWindow
      BY <1>2, <3>1 DEF Inv, EntryInv
    <3>3. cache[i].inserted \in Nat
      BY <1>2, EntryFields
    <3>4. now - cache[i].inserted <= CacheTtl
      BY <1>2, <2>2, <3>2, <3>3, CacheTableAssumption
    <3> QED
      BY <2>1, <3>1, <3>4 DEF Hit
  <2> QED
    BY <1>2, <2>3, <2>4 DEF Inv, KeptIn
<1>3. Inv /\ [Next]_vars => [Once]_vars
  BY <1>1, <1>2 DEF StoredKeys
<1> QED
  BY <1>3, Invariant, PTL DEF Spec, NoRepeatPurchase

-----------------------------------------------------------------------------
(* The monitor of the balance.                                             *)

Falls(list, i) == IsLow(list[i]) /\ (i > 1 => ~IsLow(list[i - 1]))

\* The polls at which the alarms were raised, in their order.
AlarmedAt(raised, list, at) ==
  /\ at \in [DOMAIN raised -> DOMAIN list]
  /\ \A j, k \in DOMAIN raised : j < k => at[j] < at[k]
  /\ {at[k] : k \in DOMAIN raised} = {i \in DOMAIN list : Falls(list, i)}
  /\ \A k \in DOMAIN raised : raised[k] = list[at[k]]

\* The monitor remembers what the last successful poll found.
FallInv ==
  /\ wasLow <=> polls # <<>> /\ IsLow(polls[Len(polls)])
  /\ \E at : AlarmedAt(alarms, polls, at)

\* An answer on its way is a balance that the account had since it was asked for.
AnswerInv(a) ==
  /\ phase[a] \in {"asked", "answered"} => account \in held[a]
  /\ phase[a] = "answered" =>
       reply[a] \in Answer /\ (reply[a].kind = "amount" => reply[a].amount \in held[a])

MonitorInv ==
  /\ MonitorTypeOK
  /\ FallInv
  /\ \A a \in Askers : AnswerInv(a)
  /\ SharedIsRecent

\* What an answer that succeeds says, and what is stored of it.
LEMMA AmountTypes ==
  ASSUME NEW r \in Answer, Succeeds(r)
  PROVE  /\ UiAmount(r) \in Balances /\ UiAmount(r) \in Nat
         /\ Truncated(UiAmount(r)) \subseteq Nat
<1>1. UiAmount(r) \in Balances
  BY BalanceMonitorAssumption DEF Answer, UiAmount
<1>2. UiAmount(r) \in Nat /\ ExactUpTo \in Nat
  BY <1>1, BalanceMonitorAssumption
<1> QED
  BY <1>1, <1>2 DEF Truncated

\* One more poll: an alarm if it falls, and only then.
LEMMA AlarmStep ==
  ASSUME MonitorTypeOK, FallInv, NEW amount \in Balances,
         alarms' = (IF IsLow(amount) /\ ~wasLow THEN Append(alarms, amount) ELSE alarms),
         wasLow' = IsLow(amount), polls' = Append(polls, amount)
  PROVE  FallInv'
<1> DEFINE n == Len(polls)
           m == Len(alarms)
<1>1. /\ n \in Nat /\ m \in Nat /\ polls \in Seq(Balances) /\ alarms \in Seq(Balances)
      /\ DOMAIN polls = 1 .. n /\ DOMAIN alarms = 1 .. m
  BY DEF MonitorTypeOK
<1>2. /\ polls' \in Seq(Balances) /\ Len(polls') = n + 1 /\ DOMAIN polls' = 1 .. n + 1
      /\ polls'[n + 1] = amount /\ \A i \in 1 .. n : polls'[i] = polls[i]
  BY <1>1
<1>3. wasLow' <=> polls' # <<>> /\ IsLow(polls'[Len(polls')])
  BY <1>1, <1>2
<1>4. \A i \in 1 .. n : Falls(polls', i) <=> Falls(polls, i)
  BY <1>1, <1>2 DEF Falls, IsLow
<1>5. Falls(polls', n + 1) <=> IsLow(amount) /\ ~wasLow
  <2>1. n = 0 <=> polls = <<>>
    BY <1>1
  <2>2. n > 0 => n \in 1 .. n /\ (n + 1) - 1 = n /\ n + 1 > 1
    BY <1>1
  <2>3. n = 0 => ~(n + 1 > 1)
    BY <1>1
  <2>4. n = 0 \/ n > 0
    BY <1>1
  <2> QED
    BY <1>2, <2>1, <2>2, <2>3, <2>4 DEF FallInv, Falls, IsLow
<1>6. PICK at : AlarmedAt(alarms, polls, at)
  BY DEF FallInv
<1>7. /\ at \in [1 .. m -> 1 .. n]
      /\ \A j, k \in 1 .. m : j < k => at[j] < at[k]
      /\ {at[k] : k \in 1 .. m} = {i \in 1 .. n : Falls(polls, i)}
      /\ \A k \in 1 .. m : alarms[k] = polls[at[k]]
  BY <1>1, <1>6 DEF AlarmedAt
<1> HIDE DEF n, m
<1>8. CASE IsLow(amount) /\ ~wasLow
  <2> DEFINE new == [k \in 1 .. m + 1 |-> IF k <= m THEN at[k] ELSE n + 1]
  <2>1. /\ DOMAIN alarms' = 1 .. m + 1 /\ alarms'[m + 1] = amount
        /\ \A k \in 1 .. m : alarms'[k] = alarms[k]
    BY <1>1, <1>8 DEF m
  <2>2. \A k \in 1 .. m : k \in 1 .. m + 1 /\ new[k] = at[k] /\ at[k] \in 1 .. n
    BY <1>1, <1>7
  <2>3. m + 1 \in 1 .. m + 1 /\ new[m + 1] = n + 1
    BY <1>1
  <2>4. \A k \in 1 .. m + 1 : k \in 1 .. m \/ k = m + 1
    BY <1>1
  <2>5. \A i \in 1 .. n + 1 : i \in 1 .. n \/ i = n + 1
    BY <1>1
  <2>6. \A i \in 1 .. n : i \in 1 .. n + 1 /\ i # n + 1 /\ i < n + 1
    BY <1>1
  <2>7. new \in [1 .. m + 1 -> 1 .. n + 1]
    BY <1>1, <1>7
  <2> HIDE DEF new
  <2>8. \A j, k \in 1 .. m + 1 : j < k => new[j] < new[k]
    <3> SUFFICES ASSUME NEW j \in 1 .. m + 1, NEW k \in 1 .. m + 1, j < k
                 PROVE  new[j] < new[k]
      OBVIOUS
    <3>1. j \in 1 .. m
      BY <1>1
    <3> QED
      BY <1>7, <2>2, <2>3, <2>4, <2>6, <3>1
  <2>9. {new[k] : k \in 1 .. m + 1} = {i \in 1 .. n + 1 : Falls(polls', i)}
    <3>1. ASSUME NEW k \in 1 .. m + 1
          PROVE  new[k] \in 1 .. n + 1 /\ Falls(polls', new[k])
      <4>1. CASE k = m + 1
        BY <1>5, <1>8, <2>3, <2>7, <4>1
      <4>2. CASE k \in 1 .. m
        BY <1>4, <1>7, <2>2, <2>6, <4>2
      <4> QED
        BY <2>4, <4>1, <4>2
    <3>2. ASSUME NEW i \in 1 .. n + 1, Falls(polls', i)
          PROVE  \E k \in 1 .. m + 1 : new[k] = i
      <4>1. CASE i = n + 1
        BY <2>3, <4>1
      <4>2. CASE i \in 1 .. n
        <5>1. Falls(polls, i)
          BY <1>4, <3>2, <4>2
        <5>2. PICK k \in 1 .. m : at[k] = i
          BY <1>7, <4>2, <5>1
        <5> QED
          BY <2>2, <5>2
      <4> QED
        BY <2>5, <4>1, <4>2
    <3> QED
      BY <3>1, <3>2
  <2>10. \A k \in 1 .. m + 1 : alarms'[k] = polls'[new[k]]
    BY <1>2, <1>7, <2>1, <2>2, <2>3, <2>4
  <2>11. AlarmedAt(alarms', polls', new)
    BY <1>2, <2>1, <2>7, <2>8, <2>9, <2>10 DEF AlarmedAt
  <2> QED
    BY <1>3, <2>11 DEF FallInv
<1>9. CASE ~(IsLow(amount) /\ ~wasLow)
  <2>1. alarms' = alarms
    BY <1>9
  <2>2. \A i \in 1 .. n : i \in 1 .. n + 1
    BY <1>1
  <2>3. \A i \in 1 .. n + 1 : i \in 1 .. n \/ i = n + 1
    BY <1>1
  <2>4. at \in [1 .. m -> 1 .. n + 1] /\ \A k \in 1 .. m : at[k] \in 1 .. n
    BY <1>7, <2>2
  <2>5. {i \in 1 .. n + 1 : Falls(polls', i)} = {i \in 1 .. n : Falls(polls, i)}
    BY <1>4, <1>5, <1>9, <2>2, <2>3
  <2>6. \A k \in 1 .. m : alarms'[k] = polls'[at[k]]
    BY <1>2, <1>7, <2>1, <2>4
  <2>7. AlarmedAt(alarms', polls', at)
    BY <1>1, <1>2, <1>7, <2>1, <2>4, <2>5, <2>6 DEF AlarmedAt
  <2> QED
    BY <1>3, <2>7 DEF FallInv
<1> QED
  BY <1>8, <1>9

\* What leaves polls, alarms and the memory of the monitor alone.
LEMMA AlarmsKept ==
  ASSUME FallInv, UNCHANGED <<polls, alarms, wasLow>>
  PROVE  FallInv'
  BY DEF FallInv, AlarmedAt, Falls, IsLow

\* Every step of the monitor, its callers and the account.
LEMMA MonitorStep ==
  ASSUME MonitorInv, [MonitorNext]_monitorVars
  PROVE  MonitorInv'
<1>1. ASSUME NEW a \in Askers, Ask(a)
      PROVE  MonitorInv'
  <2>1. MonitorTypeOK' /\ FallInv'
    BY <1>1, AlarmsKept DEF Ask, MonitorInv, MonitorTypeOK
  <2>2. \A b \in Askers : AnswerInv(b)'
    BY <1>1 DEF Ask, MonitorInv, MonitorTypeOK, AnswerInv
  <2>3. SharedIsRecent'
    BY <1>1 DEF Ask, MonitorInv, SharedIsRecent
  <2> QED
    BY <2>1, <2>2, <2>3 DEF MonitorInv
<1>2. ASSUME NEW a \in Askers, Serve(a)
      PROVE  MonitorInv'
  <2>0. PICK r \in Answer : /\ r.kind = "amount" => r.amount = account
                            /\ reply' = [reply EXCEPT ![a] = r]
    BY <1>2 DEF Serve
  <2>1. MonitorTypeOK' /\ FallInv'
    BY <1>2, <2>0, AlarmsKept DEF Serve, monitorHist, MonitorInv, MonitorTypeOK
  <2>2. \A b \in Askers : AnswerInv(b)'
    BY <1>2, <2>0 DEF Serve, monitorHist, MonitorInv, MonitorTypeOK, AnswerInv
  <2>3. SharedIsRecent'
    BY <1>2 DEF Serve, monitorHist, MonitorInv, SharedIsRecent
  <2> QED
    BY <2>1, <2>2, <2>3 DEF MonitorInv
<1>3. ASSUME AccountChanges
      PROVE  MonitorInv'
  <2>1. MonitorTypeOK' /\ FallInv'
    BY <1>3, AlarmsKept DEF AccountChanges, MonitorInv, MonitorTypeOK
  <2>2. \A b \in Askers : AnswerInv(b)'
    BY <1>3 DEF AccountChanges, MonitorInv, MonitorTypeOK, AnswerInv
  <2>3. SharedIsRecent'
    BY <1>3 DEF AccountChanges, MonitorInv, SharedIsRecent
  <2> QED
    BY <2>1, <2>2, <2>3 DEF MonitorInv
<1>4. ASSUME Apply
      PROVE  MonitorInv'
  <2> DEFINE amount == UiAmount(reply[Monitor])
  <2>1. /\ phase[Monitor] = "answered" /\ Succeeds(reply[Monitor])
        /\ phase' = [phase EXCEPT ![Monitor] = "idle"]
        /\ shared' \in Truncated(amount)
        /\ alarms' = IF IsLow(amount) /\ ~wasLow THEN Append(alarms, amount) ELSE alarms
        /\ wasLow' = IsLow(amount)
        /\ polls' = Append(polls, amount)
        /\ shown' = held[Monitor]
        /\ misread' = (reply[Monitor].kind # "amount")
        /\ UNCHANGED <<account, reply, result, held>>
    BY <1>4 DEF Apply
  <2>2. Monitor \in Askers
    BY DEF Askers
  <2>3. reply[Monitor] \in Answer /\ (reply[Monitor].kind = "amount" => amount \in held[Monitor])
    BY <2>1, <2>2 DEF MonitorInv, AnswerInv, UiAmount
  <2>4. amount \in Balances /\ amount \in Nat /\ Truncated(amount) \subseteq Nat
    BY <2>1, <2>3, AmountTypes
  <2> HIDE DEF amount
  <2>5. FallInv'
    BY <2>1, <2>4, AlarmStep DEF MonitorInv
  <2>6. MonitorTypeOK'
    <3>1. wasLow' \in BOOLEAN /\ misread' \in BOOLEAN
      BY <2>1 DEF IsLow
    <3>2. polls' \in Seq(Balances) /\ alarms' \in Seq(Balances) /\ shared' \in Nat
      BY <2>1, <2>4 DEF MonitorInv, MonitorTypeOK
    <3> QED
      BY <2>1, <2>2, <3>1, <3>2 DEF MonitorInv, MonitorTypeOK
  <2>7. \A b \in Askers : AnswerInv(b)'
    BY <2>1, <2>2 DEF MonitorInv, MonitorTypeOK, AnswerInv
  <2>8. SharedIsRecent'
    BY <2>1, <2>3 DEF SharedIsRecent, Truncated
  <2> QED
    BY <2>5, <2>6, <2>7, <2>8 DEF MonitorInv
<1>5. ASSUME PollFails \/ Abort
      PROVE  MonitorInv'
  <2>1. /\ \E p \in {"idle", "exited"} : phase' = [phase EXCEPT ![Monitor] = p]
        /\ UNCHANGED <<account, reply, shared, wasLow, alarms, result, polls, held,
                       shown, misread>>
    BY <1>5 DEF PollFails, Abort, monitorHist
  <2>2. MonitorTypeOK' /\ FallInv'
    BY <2>1, AlarmsKept DEF MonitorInv, MonitorTypeOK
  <2>3. \A b \in Askers : AnswerInv(b)'
    BY <2>1 DEF MonitorInv, MonitorTypeOK, AnswerInv
  <2>4. SharedIsRecent'
    BY <2>1 DEF MonitorInv, SharedIsRecent
  <2> QED
    BY <2>2, <2>3, <2>4 DEF MonitorInv
<1>6. ASSUME NEW c \in Callers, Return(c)
      PROVE  MonitorInv'
  <2>0. /\ phase' = [phase EXCEPT ![c] = "exited"]
        /\ result' = [result EXCEPT ![c] =
             IF Succeeds(reply[c]) THEN UiAmount(reply[c]) ELSE Unknown]
        /\ UNCHANGED <<account, reply, shared, wasLow, alarms, polls, held, shown, misread>>
        /\ phase[c] = "answered" /\ c \in Askers
    BY <1>6 DEF Return, monitorHist, Askers
  <2>1. reply[c] \in Answer
    BY <2>0 DEF MonitorInv, AnswerInv
  <2>2. (IF Succeeds(reply[c]) THEN UiAmount(reply[c]) ELSE Unknown)
          \in Balances \union {Unknown}
    BY <2>1, AmountTypes
  <2>3. MonitorTypeOK' /\ FallInv'
    BY <2>0, <2>2, AlarmsKept DEF MonitorInv, MonitorTypeOK
  <2>4. \A b \in Askers : AnswerInv(b)'
    BY <2>0 DEF MonitorInv, MonitorTypeOK, AnswerInv
  <2>5. SharedIsRecent'
    BY <2>0 DEF MonitorInv, SharedIsRecent
  <2> QED
    BY <2>3, <2>4, <2>5 DEF MonitorInv
<1>7. CASE UNCHANGED monitorVars
  BY <1>7, AlarmsKept DEF monitorVars, monitorHist, MonitorInv, MonitorTypeOK, AnswerInv,
     SharedIsRecent
<1> QED
  BY <1>1, <1>2, <1>3, <1>4, <1>5, <1>6, <1>7 DEF MonitorNext

\* The monitor's invariant holds.
LEMMA MonitorInvariant ==
  MonitorSpec => []MonitorInv
<1>1. MonitorInit => MonitorInv
  <2> SUFFICES ASSUME MonitorInit PROVE MonitorInv
    OBVIOUS
  <2>1. MonitorTypeOK
    <3>1. phase \in [Askers -> {"idle", "asked", "answered", "exited"}]
      BY DEF MonitorInit
    <3>2. /\ held \in [Askers -> SUBSET Balances] /\ shown \in SUBSET Balances
          /\ account \in Balances /\ wasLow \in BOOLEAN /\ misread \in BOOLEAN
      BY DEF MonitorInit
    <3>3. /\ reply \in [Askers -> Answer \union {Unknown}]
          /\ result \in [Callers -> Balances \union {Unknown}]
          /\ shared \in Nat \union {Unknown}
          /\ polls \in Seq(Balances) /\ alarms \in Seq(Balances)
      BY DEF MonitorInit
    <3> QED
      BY <3>1, <3>2, <3>3 DEF MonitorTypeOK
  <2>2. AlarmedAt(alarms, polls, <<>>)
    BY DEF MonitorInit, AlarmedAt
  <2>3. FallInv
    BY <2>2 DEF MonitorInit, FallInv
  <2>4. \A a \in Askers : AnswerInv(a)
    BY DEF MonitorInit, AnswerInv
  <2>5. SharedIsRecent
    BY DEF MonitorInit, SharedIsRecent
  <2> QED
    BY <2>1, <2>3, <2>4, <2>5 DEF MonitorInv
<1> QED
  BY <1>1, MonitorStep, PTL DEF MonitorSpec

\* What the monitor stores is a whole number of atomic units, for any balances.
THEOREM MonitorTypeCorrect ==
  MonitorSpec => []MonitorTypeOK
<1>1. MonitorInv => MonitorTypeOK
  BY DEF MonitorInv
<1> QED
  BY <1>1, MonitorInvariant, PTL

\* The alarms are the falls of the successful polls below the threshold, all of
\* them and in their order, whatever polls fail meanwhile.
THEOREM EveryFallIsAlarmed ==
  MonitorSpec => []AlarmsAreFalls
<1>1. MonitorInv => AlarmsAreFalls
  BY DEF MonitorInv, FallInv, AlarmedAt, AlarmsAreFalls, Falls
<1> QED
  BY <1>1, MonitorInvariant, PTL

\* The client's copy is a balance of the time since its poll was sent, to one unit.
THEOREM RecentBalance ==
  MonitorSpec => []SharedIsRecent
<1>1. MonitorInv => SharedIsRecent
  BY DEF MonitorInv
<1> QED
  BY <1>1, MonitorInvariant, PTL

\* What chat sees of the shared balance.
Shown == IF shared = Unknown THEN "unknown" ELSE IF shared = 0 THEN "zero" ELSE "positive"

\* The balance of ChatRouting is the one the monitor keeps; nothing else moves.
ChatSees == INSTANCE ChatRouting WITH
  balance <- Shown, Polled <- {"zero", "positive"},
  now <- 0, sessions <- <<>>, pc <- <<>>, request <- <<>>, model <- <<>>, guard <- <<>>

\* What chat sees of the monitor is what ChatRouting says of it: an unknown balance
\* at first, and then any poll, whose balance is never unknown again.
THEOREM MonitorPolls ==
  MonitorSpec => Shown = "unknown" /\ [][ChatSees!Poll]_Shown
<1>1. MonitorInit => Shown = "unknown"
  BY DEF MonitorInit, Shown
<1>2. MonitorInv /\ [MonitorNext]_monitorVars => [ChatSees!Poll]_Shown
  <2> SUFFICES ASSUME MonitorInv, [MonitorNext]_monitorVars, Shown' # Shown
               PROVE  ChatSees!Poll
    OBVIOUS
  <2>1. MonitorInv'
    BY MonitorStep
  <2>2. CASE Apply
    <3>1. reply[Monitor] \in Answer /\ Succeeds(reply[Monitor])
      BY <2>2 DEF Apply, MonitorInv, AnswerInv, Askers
    <3>2. shared' \in Nat
      BY <2>2, <3>1, AmountTypes DEF Apply
    <3>3. shared' # Unknown
      BY <3>2, BalanceMonitorAssumption
    <3> QED
      BY <3>2, <3>3 DEF Shown, ChatSees!Poll, ChatSees!settled
  <2>3. CASE ~Apply
    <3>1. UNCHANGED shared
      BY <2>3 DEF MonitorNext, Ask, Serve, PollFails, Abort, Return, AccountChanges,
         monitorVars
    <3> QED
      BY <3>1 DEF Shown
  <2> QED
    BY <2>2, <2>3
<1> QED
  BY <1>1, <1>2, MonitorInvariant, PTL DEF MonitorSpec
=============================================================================
