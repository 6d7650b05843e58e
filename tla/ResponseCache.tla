--------------------------- MODULE ResponseCache ----------------------------
(***************************************************************************)
(* The response cache shared by the calls of chat.  Every operation runs   *)
(* under one mutex and is one step; the calls that make them are not told  *)
(* apart.                                                                  *)
(***************************************************************************)
EXTENDS CacheTable, FiniteSets

CONSTANTS
  Keys,        \* the u64 hashes
  Responses, None,
  MaxTime,   \* bound: the clock stops there
  MaxUses    \* bound: hits and accepted puts

ASSUME ResponseCacheAssumption ==
  /\ IsFiniteSet(Keys)
  /\ None \notin Responses /\ None \notin Nat
  /\ MaxTime \in Nat
  /\ MaxUses \in Nat

VARIABLES
  now,        \* Instant::now
  inner,      \* ResponseCache.inner
  answer,     \* what the last get returned
  uses,       \* history: hits and accepted puts so far
  lastUse,    \* history: the number of the last use of each key
  lastOffer   \* history: when each response was last put for each key

vars == <<now, inner, answer, uses, lastUse, lastOffer>>

NoAnswer == [key |-> None, response |-> None]

\* The list never holds two entries for a key, nor more than MaxEntries.
TypeOK ==
  /\ now       \in 0 .. MaxTime
  /\ inner     \in Seq(CacheEntry(Keys, Responses))
  /\ Len(inner) <= MaxEntries
  /\ \A i, j \in DOMAIN inner : inner[i].key = inner[j].key => i = j
  /\ answer    \in [key : Keys, response : Responses] \union {NoAnswer}
  /\ uses      \in 0 .. MaxUses
  /\ lastUse   \in [Keys -> 0 .. MaxUses]
  /\ lastOffer \in [Keys -> [Responses -> 0 .. MaxTime \union {None}]]

Init ==
  /\ now       = 0
  /\ inner     = <<>>
  /\ answer    = NoAnswer
  /\ uses      = 0
  /\ lastUse   = [k \in Keys |-> 0]
  /\ lastOffer = [k \in Keys |-> [r \in Responses |-> None]]

\* A use of the key, for the history.
Use(key) == /\ uses < MaxUses
            /\ uses' = uses + 1
            /\ lastUse' = [lastUse EXCEPT ![key] = uses + 1]

Get(key) ==
  /\ inner' = AfterGet(inner, key, now)
  /\ IF Hit(inner, key, now)
       THEN /\ answer' = [key |-> key, response |-> EntryOf(inner, key).response]
            /\ Use(key)
       ELSE answer' = NoAnswer /\ UNCHANGED <<uses, lastUse>>
  /\ UNCHANGED <<now, lastOffer>>

Put(key, response) ==
  /\ inner' = AfterPut(inner, key, response, now)
  /\ IF PutRefused(inner, key, now) THEN UNCHANGED <<uses, lastUse>> ELSE Use(key)
  /\ lastOffer' = [lastOffer EXCEPT ![key][response] = now]
  /\ answer' = NoAnswer
  /\ UNCHANGED now

Tick == /\ now < MaxTime
        /\ now' = now + 1
        /\ answer' = NoAnswer
        /\ UNCHANGED <<inner, uses, lastUse, lastOffer>>

Next == \/ \E k \in Keys : Get(k) \/ \E r \in Responses : Put(k, r)
        \/ Tick

Spec == Init /\ [][Next]_vars

-----------------------------------------------------------------------------
(* Properties.                                                             *)

\* What get returns was put for that key, no longer than the time to live ago.
HitsAreFresh ==
  answer # NoAnswer =>
    LET offered == lastOffer[answer.key][answer.response] IN
    offered # None /\ now - offered <= CacheTtl

\* A response that was offered for a key, even if the deduplication window
\* refused it, makes the key a hit for CacheTtl - DedupWindow at least, unless
\* as many other keys as the cache holds were used since.
Retention ==
  \A k \in Keys : \A r \in Responses :
    \/ lastOffer[k][r] = None
    \/ now - lastOffer[k][r] > CacheTtl - DedupWindow
    \/ Hit(inner, k, now)
    \/ Cardinality({j \in Keys : lastUse[j] > lastUse[k]}) >= MaxEntries
=============================================================================
