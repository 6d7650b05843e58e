---------------------------- MODULE SessionTable ----------------------------
(***************************************************************************)
(* The operations on one entry of SessionStore's map, and on the map: a    *)
(* function from session ids to entries, None where there is no entry.     *)
(* request_count is written and never read, and is left out.               *)
(***************************************************************************)
EXTENDS Integers, Sequences, FiniteSets

CONSTANTS
  None,                 \* no entry
  SessionTtl,           \* SessionStore.ttl
  MaxRecentHashes,      \* MAX_RECENT_HASHES
  ThreeStrikeThreshold  \* THREE_STRIKE_THRESHOLD

ASSUME SessionTableAssumption ==
  /\ SessionTtl \in Nat
  /\ MaxRecentHashes \in Nat \ {0}
  /\ ThreeStrikeThreshold \in Nat \ {0}

SessionEntry(Models, Hashes) ==
  [model : Models, created : Nat, recent : Seq(Hashes), escalated : BOOLEAN]

\* The age of a session counts from its creation and is never refreshed.
Live(entry, now) == entry # None /\ now - entry.created < SessionTtl

FreshEntry(model, now) ==
  [model |-> model, created |-> now, recent |-> <<>>, escalated |-> FALSE]

Occurrences(recent, hash) == Cardinality({i \in DOMAIN recent : recent[i] = hash})

StruckOut(recent) ==
  \E i \in DOMAIN recent : Occurrences(recent, recent[i]) >= ThreeStrikeThreshold

\* Mutant: the window is one hash shorter.
PushDroppingEarly(recent, hash) ==
  Append(IF Len(recent) >= MaxRecentHashes - 1 THEN Tail(recent) ELSE recent, hash)

\* The window of the last MaxRecentHashes hashes after one more.
Push(recent, hash) ==
  Append(IF Len(recent) >= MaxRecentHashes THEN Tail(recent) ELSE recent, hash)

\* record_request on an entry that exists.
Recorded(entry, hash) ==
  LET recent == Push(entry.recent, hash) IN
  [entry EXCEPT !.recent = recent, !.escalated = @ \/ StruckOut(recent)]

\* cleanup_expired.
WithoutExpired(table, now) ==
  [s \in DOMAIN table |-> IF Live(table[s], now) THEN table[s] ELSE None]
=============================================================================
