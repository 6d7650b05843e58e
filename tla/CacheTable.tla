----------------------------- MODULE CacheTable -----------------------------
(***************************************************************************)
(* The operations of ResponseCache on its LRU list: a sequence of entries, *)
(* the most recently used first, with at most one entry for a key.  A key  *)
(* stands for the hash of a model and a list of messages.                  *)
(***************************************************************************)
EXTENDS Integers, SequencesExt

CONSTANTS
  MaxEntries,   \* capacity of the LruCache
  CacheTtl,     \* ResponseCache.ttl
  DedupWindow   \* ResponseCache.dedup_window

ASSUME CacheTableAssumption ==
  /\ MaxEntries \in Nat \ {0}
  /\ CacheTtl \in Nat
  /\ DedupWindow \in Nat

CacheEntry(Keys, Responses) == [key : Keys, response : Responses, inserted : Nat]

Cached(cache, key) == \E i \in DOMAIN cache : cache[i].key = key

Position(cache, key) == CHOOSE i \in DOMAIN cache : cache[i].key = key

\* LruCache::peek: the entry of a cached key.
EntryOf(cache, key) == cache[Position(cache, key)]

\* LruCache::pop.
Without(cache, key) ==
  IF Cached(cache, key) THEN RemoveAt(cache, Position(cache, key)) ELSE cache

\* An entry is served up to and including the age CacheTtl.
Hit(cache, key, now) ==
  Cached(cache, key) /\ now - EntryOf(cache, key).inserted <= CacheTtl

\* Mutant: a hit does not count as a use.
AfterPeek(cache, key, now) ==
  IF Hit(cache, key, now) THEN cache ELSE Without(cache, key)

\* ResponseCache::get: a hit moves the entry to the front, an expired entry is
\* removed.
AfterGet(cache, key, now) ==
  IF Hit(cache, key, now)
    THEN <<EntryOf(cache, key)>> \o Without(cache, key)
    ELSE Without(cache, key)

\* A younger entry for the same key is kept, and not moved.
PutRefused(cache, key, now) ==
  Cached(cache, key) /\ now - EntryOf(cache, key).inserted < DedupWindow

\* Mutant: a full cache takes one more.
PushedBeyondFull(cache, entry) ==
  <<entry>> \o IF Len(cache) <= MaxEntries THEN cache
               ELSE SubSeq(cache, 1, MaxEntries)

Pushed(cache, entry) ==
  <<entry>> \o IF Len(cache) < MaxEntries THEN cache
               ELSE SubSeq(cache, 1, MaxEntries - 1)

\* Mutants: the old entry stays in the list; a refused put renews the entry.
AfterPutKeepingOld(cache, key, response, now) ==
  IF PutRefused(cache, key, now) THEN cache
  ELSE Pushed(cache, [key |-> key, response |-> response, inserted |-> now])
AfterPutRenewing(cache, key, response, now) ==
  Pushed(Without(cache, key),
         [key |-> key, inserted |-> now,
          response |-> IF PutRefused(cache, key, now)
                         THEN EntryOf(cache, key).response ELSE response])

\* ResponseCache::put: the new entry replaces that of its key, or pushes the
\* least recently used one out of a full cache.
AfterPut(cache, key, response, now) ==
  IF PutRefused(cache, key, now) THEN cache
  ELSE Pushed(Without(cache, key),
              [key |-> key, response |-> response, inserted |-> now])
=============================================================================
