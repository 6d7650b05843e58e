------------------------ MODULE ResponseCache_proofs ------------------------
(***************************************************************************)
(* The list of the cache, and the properties of ResponseCache for any set  *)
(* of keys and responses, any capacity, time to live and window.           *)
(*                                                                         *)
(* The argument: the operations keep one entry for a key and leave the     *)
(* others in their order, which is that of the last uses.  So what a full  *)
(* list gives up is the key used least recently, and every key in the list *)
(* was used since.  An offer for a key that is in the list is younger than *)
(* its entry by the deduplication window at most.                          *)
(***************************************************************************)
EXTENDS ResponseCache, FiniteSetTheorems, SequenceTheorems, TLAPS

-----------------------------------------------------------------------------
(* Lists with one entry for a key.                                         *)

OneEntryPerKey(list) ==
  \A i, j \in DOMAIN list : list[i].key = list[j].key => i = j

\* The entries of one list, where they are in another, in the same order.
Places(part, list) ==
  {m \in [DOMAIN part -> DOMAIN list] :
     /\ \A i \in DOMAIN part : part[i] = list[m[i]]
     /\ \A i, j \in DOMAIN part : i < j => m[i] < m[j]}

\* What an entry is made of.
LEMMA EntryFields ==
  ASSUME NEW K, NEW R, NEW list \in Seq(CacheEntry(K, R)), NEW i \in DOMAIN list
  PROVE  /\ list[i] \in CacheEntry(K, R)
         /\ list[i].key \in K /\ list[i].response \in R /\ list[i].inserted \in Nat
<1>1. list[i] \in CacheEntry(K, R)
  OBVIOUS
<1> QED
  BY <1>1 DEF CacheEntry

\* What EntryOf finds.
LEMMA EntryAtPosition ==
  ASSUME NEW list, NEW k, Cached(list, k)
  PROVE  /\ Position(list, k) \in DOMAIN list
         /\ EntryOf(list, k) = list[Position(list, k)]
         /\ EntryOf(list, k).key = k
  BY DEF Cached, Position, EntryOf

\* In a list with one entry for a key, each entry is the one EntryOf finds.
LEMMA OnlyEntry ==
  ASSUME NEW list, OneEntryPerKey(list), NEW i \in DOMAIN list
  PROVE  /\ Cached(list, list[i].key)
         /\ Position(list, list[i].key) = i
         /\ EntryOf(list, list[i].key) = list[i]
<1>1. Cached(list, list[i].key)
  BY DEF Cached
<1>2. Position(list, list[i].key) = i
  BY <1>1, EntryAtPosition DEF OneEntryPerKey
<1> QED
  BY <1>1, <1>2 DEF EntryOf

\* Taking the entry of a key out of a list keeps the others, in their order.
LEMMA WithoutPlaces ==
  ASSUME NEW E, NEW list \in Seq(E), NEW k, OneEntryPerKey(list)
  PROVE  LET w == Without(list, k) IN
         /\ w \in Seq(E)
         /\ Len(w) = IF Cached(list, k) THEN Len(list) - 1 ELSE Len(list)
         /\ \E m \in Places(w, list) :
              /\ \A i \in DOMAIN w : w[i].key # k
              /\ \A i \in DOMAIN list : list[i].key # k => \E j \in DOMAIN w : m[j] = i
<1> DEFINE w == Without(list, k)
           p == Position(list, k)
<1>1. CASE Cached(list, k)
  <2>1. p \in 1 .. Len(list) /\ list[p].key = k
    BY <1>1, EntryAtPosition
  <2>2. w = SubSeq(list, 1, p - 1) \o SubSeq(list, p + 1, Len(list))
    BY <1>1 DEF Without, RemoveAt
  <2> HIDE DEF p, w
  <2>3. /\ w \in Seq(E) /\ Len(w) = Len(list) - 1
        /\ \A i \in 1 .. Len(w) : w[i] = IF i < p THEN list[i] ELSE list[i + 1]
    <3> DEFINE a == SubSeq(list, 1, p - 1)
               b == SubSeq(list, p + 1, Len(list))
    <3>1. a \in Seq(E) /\ Len(a) = p - 1 /\ \A i \in 1 .. p - 1 : a[i] = list[i]
      BY <2>1
    <3>2. /\ b \in Seq(E) /\ Len(b) = Len(list) - p
          /\ \A i \in 1 .. Len(list) - p : b[i] = list[p + i]
      BY <2>1
    <3>3. w = a \o b
      BY <2>2
    <3> HIDE DEF a, b
    <3>4. /\ w \in Seq(E) /\ Len(w) = Len(a) + Len(b)
          /\ \A i \in 1 .. Len(a) + Len(b) :
               w[i] = IF i <= Len(a) THEN a[i] ELSE b[i - Len(a)]
      BY <3>1, <3>2, <3>3, ConcatProperties
    <3>5. Len(a) + Len(b) = Len(list) - 1
      BY <2>1, <3>1, <3>2
    <3>6. ASSUME NEW i \in 1 .. Len(list) - 1
          PROVE  w[i] = IF i < p THEN list[i] ELSE list[i + 1]
      <4>1. w[i] = IF i <= p - 1 THEN a[i] ELSE b[i - (p - 1)]
        BY <3>1, <3>4, <3>5
      <4>2. CASE i < p
        BY <2>1, <3>1, <4>1, <4>2
      <4>3. CASE i >= p
        <5>1. i - (p - 1) \in 1 .. Len(list) - p /\ p + (i - (p - 1)) = i + 1
          BY <2>1, <4>3
        <5>2. w[i] = b[i - (p - 1)]
          BY <2>1, <4>1, <4>3
        <5>3. b[i - (p - 1)] = list[i + 1]
          BY <3>2, <5>1
        <5> QED
          BY <2>1, <4>3, <5>2, <5>3
      <4> QED
        BY <2>1, <4>2, <4>3
    <3> QED
      BY <3>4, <3>5, <3>6
  <2> DEFINE m == [i \in 1 .. Len(w) |-> IF i < p THEN i ELSE i + 1]
  <2>4. DOMAIN w = 1 .. Len(w) /\ DOMAIN list = 1 .. Len(list)
    BY <2>3
  <2>5. m \in Places(w, list)
    BY <2>1, <2>3, <2>4 DEF Places
  <2>6. \A i \in DOMAIN w : w[i].key # k
    <3> SUFFICES ASSUME NEW i \in 1 .. Len(w), w[i].key = k PROVE FALSE
      BY <2>4
    <3>1. PICK j \in 1 .. Len(list) : w[i] = list[j] /\ j # p
      BY <2>1, <2>3
    <3> QED
      BY <2>1, <2>4, <3>1 DEF OneEntryPerKey
  <2>7. ASSUME NEW i \in DOMAIN list, list[i].key # k PROVE \E j \in DOMAIN w : m[j] = i
    <3>1. i \in 1 .. Len(list) /\ i # p
      BY <2>1, <2>4, <2>7
    <3>2. CASE i < p
      <4>1. i \in 1 .. Len(w) /\ m[i] = i
        BY <2>1, <2>3, <3>1, <3>2
      <4> QED
        BY <2>4, <4>1
    <3>3. CASE i > p
      <4>1. i - 1 \in 1 .. Len(w) /\ m[i - 1] = i
        BY <2>1, <2>3, <3>1, <3>3
      <4> QED
        BY <2>4, <4>1
    <3> QED
      BY <2>1, <3>1, <3>2, <3>3
  <2> HIDE DEF m
  <2>8. \E q \in Places(w, list) :
          /\ \A i \in DOMAIN w : w[i].key # k
          /\ \A i \in DOMAIN list : list[i].key # k => \E j \in DOMAIN w : q[j] = i
    BY <2>5, <2>6, <2>7, Zenon
  <2> QED
    BY <1>1, <2>3, <2>8 DEF w
<1>2. CASE ~Cached(list, k)
  <2>1. w = list
    BY <1>2 DEF Without
  <2> DEFINE m == [i \in DOMAIN list |-> i]
  <2>2. m \in Places(list, list)
    BY DEF Places
  <2>3. \A i \in DOMAIN list : list[i].key # k /\ m[i] = i
    BY <1>2 DEF Cached
  <2> HIDE DEF m
  <2> QED
    BY <1>2, <2>1, <2>2, <2>3
<1> QED
  BY <1>1, <1>2

\* What there is without a key: every other one, with its entry.
LEMMA WithoutKey ==
  ASSUME NEW E, NEW list \in Seq(E), NEW k, OneEntryPerKey(list)
  PROVE  LET w == Without(list, k) IN
         /\ OneEntryPerKey(w)
         /\ ~Cached(w, k)
         /\ \A i \in DOMAIN w : \E j \in DOMAIN list : w[i] = list[j]
         /\ \A h : h # k /\ Cached(list, h) =>
              Cached(w, h) /\ EntryOf(w, h) = EntryOf(list, h)
<1> DEFINE w == Without(list, k)
<1>0. /\ w \in Seq(E)
      /\ \E m \in Places(w, list) :
           /\ \A i \in DOMAIN w : w[i].key # k
           /\ \A i \in DOMAIN list : list[i].key # k => \E j \in DOMAIN w : m[j] = i
  BY WithoutPlaces
<1> HIDE DEF w
<1>1. PICK m \in Places(w, list) :
        /\ \A i \in DOMAIN w : w[i].key # k
        /\ \A i \in DOMAIN list : list[i].key # k => \E j \in DOMAIN w : m[j] = i
  BY <1>0
<1>2. w \in Seq(E)
  BY <1>0
<1>3. /\ m \in [DOMAIN w -> DOMAIN list]
      /\ \A i \in DOMAIN w : w[i] = list[m[i]]
      /\ \A i, j \in DOMAIN w : i < j => m[i] < m[j]
  BY DEF Places
<1>4. DOMAIN w = 1 .. Len(w) /\ DOMAIN list = 1 .. Len(list) /\ Len(w) \in Nat
      /\ Len(list) \in Nat
  BY <1>2
<1>5. OneEntryPerKey(w)
  <2> SUFFICES ASSUME NEW i \in DOMAIN w, NEW j \in DOMAIN w, w[i].key = w[j].key
               PROVE  i = j
    BY DEF OneEntryPerKey
  <2>1. m[i] = m[j] /\ m[i] \in 1 .. Len(list)
    BY <1>3, <1>4 DEF OneEntryPerKey
  <2> QED
    BY <1>3, <1>4, <2>1
<1>6. ~Cached(w, k)
  BY <1>1 DEF Cached
<1>7. ASSUME NEW h, h # k, Cached(list, h)
      PROVE  Cached(w, h) /\ EntryOf(w, h) = EntryOf(list, h)
  <2>1. PICK i \in DOMAIN list : list[i].key = h /\ EntryOf(list, h) = list[i]
    BY <1>7, EntryAtPosition
  <2>2. PICK j \in DOMAIN w : m[j] = i
    BY <1>1, <1>7, <2>1
  <2>3. w[j] = list[i]
    BY <1>3, <2>2
  <2> QED
    BY <1>5, <2>1, <2>3, OnlyEntry
<1> QED
  BY <1>3, <1>5, <1>6, <1>7 DEF w

\* An entry in front of a list that has none for its key.
LEMMA InFront ==
  ASSUME NEW E, NEW list \in Seq(E), NEW e \in E, OneEntryPerKey(list),
         ~Cached(list, e.key)
  PROVE  LET n == <<e>> \o list IN
         /\ n \in Seq(E) /\ Len(n) = Len(list) + 1
         /\ n[1] = e /\ \A i \in 1 .. Len(list) : n[i + 1] = list[i]
         /\ OneEntryPerKey(n)
         /\ Cached(n, e.key) /\ EntryOf(n, e.key) = e
         /\ \A h : Cached(list, h) => Cached(n, h) /\ EntryOf(n, h) = EntryOf(list, h)
<1> DEFINE n == <<e>> \o list
<1>1. /\ n \in Seq(E) /\ Len(n) = Len(list) + 1
      /\ n[1] = e /\ \A i \in 1 .. Len(list) : n[i + 1] = list[i]
  OBVIOUS
<1> HIDE DEF n
<1>2. DOMAIN n = 1 .. Len(list) + 1 /\ DOMAIN list = 1 .. Len(list) /\ Len(list) \in Nat
  BY <1>1
<1>3. ASSUME NEW i \in DOMAIN n, i # 1
      PROVE  i - 1 \in DOMAIN list /\ n[i] = list[i - 1] /\ n[i].key # e.key
  <2>1. i - 1 \in 1 .. Len(list) /\ n[(i - 1) + 1] = list[i - 1] /\ (i - 1) + 1 = i
    BY <1>1, <1>2, <1>3
  <2> QED
    BY <1>2, <2>1 DEF Cached
<1>4. OneEntryPerKey(n)
  <2> SUFFICES ASSUME NEW i \in DOMAIN n, NEW j \in DOMAIN n, n[i].key = n[j].key
               PROVE  i = j
    BY DEF OneEntryPerKey
  <2>1. CASE i = 1 \/ j = 1
    BY <1>1, <1>3, <2>1
  <2>2. CASE i # 1 /\ j # 1
    <3>1. i - 1 = j - 1
      BY <1>3, <2>2 DEF OneEntryPerKey
    <3> QED
      BY <1>2, <3>1
  <2> QED
    BY <2>1, <2>2
<1>5. 1 \in DOMAIN n
  BY <1>2
<1>6. Cached(n, e.key) /\ EntryOf(n, e.key) = e
  BY <1>1, <1>4, <1>5, OnlyEntry
<1>7. ASSUME NEW h, Cached(list, h)
      PROVE  Cached(n, h) /\ EntryOf(n, h) = EntryOf(list, h)
  <2>1. PICK i \in DOMAIN list : list[i].key = h /\ EntryOf(list, h) = list[i]
    BY <1>7, EntryAtPosition
  <2>2. i + 1 \in DOMAIN n /\ n[i + 1] = list[i]
    BY <1>1, <1>2
  <2> QED
    BY <1>4, <2>1, <2>2, OnlyEntry
<1> QED
  BY <1>1, <1>4, <1>6, <1>7 DEF n

\* The first n entries of a list.
LEMMA FirstEntries ==
  ASSUME NEW E, NEW list \in Seq(E), NEW n \in Nat, n <= Len(list), OneEntryPerKey(list)
  PROVE  LET f == SubSeq(list, 1, n) IN
         /\ f \in Seq(E) /\ Len(f) = n /\ \A i \in 1 .. n : f[i] = list[i]
         /\ OneEntryPerKey(f)
         /\ \A i \in 1 .. n : /\ Cached(f, list[i].key)
                              /\ EntryOf(f, list[i].key) = list[i]
         /\ \A h : Cached(f, h) => Cached(list, h)
<1> DEFINE f == SubSeq(list, 1, n)
<1>1. f \in Seq(E) /\ Len(f) = n /\ \A i \in 1 .. n : f[i] = list[i]
  OBVIOUS
<1>2. DOMAIN f = 1 .. n /\ 1 .. n \subseteq DOMAIN list
  BY <1>1
<1> HIDE DEF f
<1>3. OneEntryPerKey(f)
  BY <1>1, <1>2 DEF OneEntryPerKey
<1>4. \A i \in 1 .. n : Cached(f, list[i].key) /\ EntryOf(f, list[i].key) = list[i]
  BY <1>1, <1>2, <1>3, OnlyEntry
<1>5. \A h : Cached(f, h) => Cached(list, h)
  BY <1>1, <1>2 DEF Cached
<1> QED
  BY <1>1, <1>3, <1>4, <1>5 DEF f

\* A new entry in front, and the last one out of a full list.
LEMMA PushedShape ==
  ASSUME NEW E, NEW w \in Seq(E), NEW e \in E, Len(w) <= MaxEntries,
         OneEntryPerKey(w), ~Cached(w, e.key)
  PROVE  LET n == Pushed(w, e) IN
         /\ n \in Seq(E)
         /\ Len(n) = IF Len(w) < MaxEntries THEN Len(w) + 1 ELSE MaxEntries
         /\ n[1] = e /\ \A i \in 1 .. Len(n) - 1 : n[i + 1] = w[i]
         /\ OneEntryPerKey(n)
         /\ Cached(n, e.key) /\ EntryOf(n, e.key) = e
         /\ \A i \in 1 .. Len(n) - 1 : /\ Cached(n, w[i].key)
                                       /\ EntryOf(n, w[i].key) = w[i]
<1> DEFINE l == IF Len(w) < MaxEntries THEN Len(w) ELSE MaxEntries - 1
           f == SubSeq(w, 1, l)
           n == <<e>> \o f
<1>1. /\ l \in Nat /\ l <= Len(w)
      /\ l + 1 = IF Len(w) < MaxEntries THEN Len(w) + 1 ELSE MaxEntries
  BY CacheTableAssumption
<1>2. Len(w) < MaxEntries => f = w
  OBVIOUS
<1>3. Pushed(w, e) = n
  BY <1>2 DEF Pushed
<1> HIDE DEF l
<1>4. /\ f \in Seq(E) /\ Len(f) = l /\ \A i \in 1 .. l : f[i] = w[i]
      /\ OneEntryPerKey(f)
      /\ \A i \in 1 .. l : Cached(f, w[i].key) /\ EntryOf(f, w[i].key) = w[i]
      /\ ~Cached(f, e.key)
  BY <1>1, FirstEntries
<1> HIDE DEF f
<1>5. /\ n \in Seq(E) /\ Len(n) = l + 1
      /\ n[1] = e /\ \A i \in 1 .. l : n[i + 1] = f[i]
      /\ OneEntryPerKey(n)
      /\ Cached(n, e.key) /\ EntryOf(n, e.key) = e
      /\ \A h : Cached(f, h) => Cached(n, h) /\ EntryOf(n, h) = EntryOf(f, h)
  BY <1>4, InFront
<1> HIDE DEF n
<1>6. Len(n) - 1 = l
  BY <1>1, <1>5
<1>7. \A i \in 1 .. l : /\ n[i + 1] = w[i]
                        /\ Cached(n, w[i].key) /\ EntryOf(n, w[i].key) = w[i]
  BY <1>4, <1>5
<1> QED
  BY <1>1, <1>3, <1>5, <1>6, <1>7

-----------------------------------------------------------------------------
(* The two operations.                                                     *)

\* What a get leaves in the list: all that was there, or all but an expired entry.
LEMMA AfterGetKeeps ==
  ASSUME NEW E, NEW list \in Seq(E), NEW k, NEW t, OneEntryPerKey(list)
  PROVE  LET n == AfterGet(list, k, t) IN
         /\ n \in Seq(E) /\ Len(n) <= Len(list)
         /\ OneEntryPerKey(n)
         /\ \A i \in DOMAIN n : \E j \in DOMAIN list : n[i] = list[j]
         /\ \A h : Cached(list, h) /\ (h = k => Hit(list, k, t)) =>
              Cached(n, h) /\ EntryOf(n, h) = EntryOf(list, h)
<1> DEFINE w == Without(list, k)
           e == EntryOf(list, k)
           n == <<e>> \o w
<1>1. /\ w \in Seq(E)
      /\ Len(w) = IF Cached(list, k) THEN Len(list) - 1 ELSE Len(list)
  BY WithoutPlaces
<1>2. /\ OneEntryPerKey(w) /\ ~Cached(w, k)
      /\ \A i \in DOMAIN w : \E j \in DOMAIN list : w[i] = list[j]
      /\ \A h : h # k /\ Cached(list, h) =>
           Cached(w, h) /\ EntryOf(w, h) = EntryOf(list, h)
  BY WithoutKey
<1> HIDE DEF w
<1>3. CASE Hit(list, k, t)
  <2>1. Cached(list, k)
    BY <1>3 DEF Hit
  <2>2. /\ Position(list, k) \in DOMAIN list /\ e = list[Position(list, k)] /\ e.key = k
        /\ e \in E
    BY <2>1, EntryAtPosition
  <2> HIDE DEF e
  <2>3. /\ n \in Seq(E) /\ Len(n) = Len(w) + 1
        /\ n[1] = e /\ \A i \in 1 .. Len(w) : n[i + 1] = w[i]
        /\ OneEntryPerKey(n)
        /\ Cached(n, k) /\ EntryOf(n, k) = e
        /\ \A h : Cached(w, h) => Cached(n, h) /\ EntryOf(n, h) = EntryOf(w, h)
    BY <1>1, <1>2, <2>2, InFront
  <2> HIDE DEF n
  <2>4. ASSUME NEW i \in DOMAIN n PROVE \E j \in DOMAIN list : n[i] = list[j]
    <3>1. CASE i = 1
      BY <2>2, <2>3, <3>1
    <3>2. CASE i # 1
      <4>1. i - 1 \in 1 .. Len(w) /\ (i - 1) + 1 = i
        BY <1>1, <2>3, <3>2
      <4>2. n[i] = w[i - 1] /\ i - 1 \in DOMAIN w
        BY <1>1, <2>3, <4>1
      <4> QED
        BY <1>2, <4>2
    <3> QED
      BY <3>1, <3>2
  <2>5. AfterGet(list, k, t) = n
    BY <1>3 DEF AfterGet, n, e, w
  <2>6. EntryOf(list, k) = e
    BY DEF e
  <2> QED
    BY <1>1, <1>2, <2>1, <2>3, <2>4, <2>5, <2>6
<1>4. CASE ~Hit(list, k, t)
  <2>1. AfterGet(list, k, t) = w
    BY <1>4 DEF AfterGet, w
  <2> QED
    BY <1>1, <1>2, <1>4, <2>1
<1> QED
  BY <1>3, <1>4

\* The list n after an accepted put: the new entry is in front, the others follow,
\* but for the last of a list that would get too long.
PutKeeps(list, n, K, R, k, r, t) ==
  LET e == [key |-> k, response |-> r, inserted |-> t]
      w == Without(list, k)
  IN  /\ n \in Seq(CacheEntry(K, R)) /\ Len(n) <= MaxEntries
      /\ OneEntryPerKey(n)
      /\ Cached(n, k) /\ EntryOf(n, k) = e
      /\ n[1] = e /\ \A i \in 1 .. Len(n) - 1 : i \in DOMAIN w /\ n[i + 1] = w[i]
      /\ \A i \in DOMAIN n : n[i] = e \/ \E j \in DOMAIN list : n[i] = list[j]
      /\ \A h : h # k /\ Cached(list, h) =>
           \/ Cached(n, h) /\ EntryOf(n, h) = EntryOf(list, h)
           \/ /\ Len(n) = MaxEntries /\ MaxEntries \in DOMAIN w
              /\ w[MaxEntries].key = h

\* What an accepted put leaves in the list: the new entry, and all that was there
\* for other keys but the last entry of a full list.
LEMMA AfterPutKeeps ==
  ASSUME NEW K, NEW R, NEW list \in Seq(CacheEntry(K, R)), Len(list) <= MaxEntries,
         OneEntryPerKey(list), NEW k \in K, NEW r \in R, NEW t \in Nat,
         ~PutRefused(list, k, t)
  PROVE  PutKeeps(list, AfterPut(list, k, r, t), K, R, k, r, t)
<1> DEFINE n == AfterPut(list, k, r, t)
           e == [key |-> k, response |-> r, inserted |-> t]
           w == Without(list, k)
           E == CacheEntry(K, R)
<1>1. /\ w \in Seq(E) /\ Len(w) <= MaxEntries
  <2>1. /\ w \in Seq(E)
        /\ Len(w) = IF Cached(list, k) THEN Len(list) - 1 ELSE Len(list)
    BY WithoutPlaces
  <2> HIDE DEF w
  <2> QED
    BY <2>1, CacheTableAssumption
<1>2. /\ OneEntryPerKey(w) /\ ~Cached(w, k)
      /\ \A i \in DOMAIN w : \E j \in DOMAIN list : w[i] = list[j]
      /\ \A h : h # k /\ Cached(list, h) =>
           Cached(w, h) /\ EntryOf(w, h) = EntryOf(list, h)
  BY WithoutKey
<1>3. n = Pushed(w, e)
  BY DEF AfterPut
<1>4. e \in E /\ e.key = k
  BY DEF CacheEntry
<1> HIDE DEF w, e, n, E
<1>5. /\ n \in Seq(E)
      /\ Len(n) = IF Len(w) < MaxEntries THEN Len(w) + 1 ELSE MaxEntries
      /\ n[1] = e /\ \A i \in 1 .. Len(n) - 1 : n[i + 1] = w[i]
      /\ OneEntryPerKey(n)
      /\ Cached(n, k) /\ EntryOf(n, k) = e
      /\ \A i \in 1 .. Len(n) - 1 : /\ Cached(n, w[i].key)
                                    /\ EntryOf(n, w[i].key) = w[i]
  BY <1>1, <1>2, <1>3, <1>4, PushedShape
<1>6. /\ Len(n) <= MaxEntries /\ Len(n) \in Nat /\ Len(w) \in Nat /\ Len(n) - 1 <= Len(w)
      /\ DOMAIN w = 1 .. Len(w) /\ DOMAIN n = 1 .. Len(n) /\ MaxEntries \in Nat \ {0}
  BY <1>1, <1>5, CacheTableAssumption
<1>7. \A i \in 1 .. Len(n) - 1 : i \in DOMAIN w /\ n[i + 1] = w[i]
  BY <1>5, <1>6
<1>8. ASSUME NEW i \in DOMAIN n PROVE n[i] = e \/ \E j \in DOMAIN list : n[i] = list[j]
  <2>1. CASE i = 1
    BY <1>5, <2>1
  <2>2. CASE i # 1
    <3>1. i - 1 \in 1 .. Len(n) - 1 /\ (i - 1) + 1 = i
      BY <1>6, <2>2
    <3>2. i - 1 \in DOMAIN w /\ n[i] = w[i - 1]
      BY <1>7, <3>1
    <3> QED
      BY <1>2, <3>2
  <2> QED
    BY <2>1, <2>2
<1>9. ASSUME NEW h, h # k, Cached(list, h)
      PROVE  \/ Cached(n, h) /\ EntryOf(n, h) = EntryOf(list, h)
             \/ /\ Len(n) = MaxEntries /\ MaxEntries \in DOMAIN w
                /\ w[MaxEntries].key = h
  <2>1. Cached(w, h) /\ EntryOf(w, h) = EntryOf(list, h)
    BY <1>2, <1>9
  <2>2. PICK i \in DOMAIN w : w[i].key = h /\ EntryOf(w, h) = w[i]
    BY <2>1, EntryAtPosition
  <2>3. CASE i \in 1 .. Len(n) - 1
    BY <1>5, <2>1, <2>2, <2>3
  <2>4. CASE i \notin 1 .. Len(n) - 1
    <3>1. i = MaxEntries /\ Len(n) = MaxEntries
      BY <1>1, <1>5, <1>6, <2>4
    <3> QED
      BY <2>2, <3>1
  <2> QED
    BY <2>3, <2>4
<1> QED
  BY <1>5, <1>6, <1>7, <1>8, <1>9 DEF PutKeeps, n, e, w, E

\* A set that holds the keys of a full list has as many elements as the list.
LEMMA FullList ==
  ASSUME NEW E, NEW list \in Seq(E), OneEntryPerKey(list), Len(list) = MaxEntries,
         NEW S, IsFiniteSet(S), \A i \in DOMAIN list : list[i].key \in S
  PROVE  MaxEntries <= Cardinality(S)
<1> DEFINE f == [i \in 1 .. MaxEntries |-> list[i].key]
<1>1. DOMAIN list = 1 .. MaxEntries /\ MaxEntries \in Nat \ {0}
  BY CacheTableAssumption
<1>2. f \in Injection(1 .. MaxEntries, S)
  <2>1. f \in [1 .. MaxEntries -> S]
    BY <1>1
  <2>2. \A i, j \in 1 .. MaxEntries : f[i] = f[j] => i = j
    BY <1>1 DEF OneEntryPerKey
  <2> HIDE DEF f
  <2> QED
    BY <2>1, <2>2 DEF Injection, IsInjective
<1>3. Cardinality(1 .. MaxEntries) = MaxEntries
  BY <1>1, FS_Interval
<1> QED
  BY <1>2, <1>3, FS_Injection

-----------------------------------------------------------------------------
(* The list is in the order of the last uses.                              *)

Ordered(list, rank) ==
  \A i, j \in DOMAIN list : i < j => rank[list[j].key] < rank[list[i].key]

\* Entries taken in their order are in the same order.
LEMMA OrderedPart ==
  ASSUME NEW part, NEW list, NEW rank, Ordered(list, rank), NEW m \in Places(part, list)
  PROVE  Ordered(part, rank)
  BY DEF Ordered, Places

\* A key in front that was used after all the others.
LEMMA OrderedInFront ==
  ASSUME NEW E, NEW w \in Seq(E), NEW n \in Seq(E), NEW k \in Keys, NEW top \in Nat,
         NEW rank \in [Keys -> Nat], \A j \in Keys : rank[j] < top,
         Ordered(w, rank), ~Cached(w, k), \A i \in DOMAIN w : w[i].key \in Keys,
         n[1].key = k, \A i \in 1 .. Len(n) - 1 : i \in DOMAIN w /\ n[i + 1] = w[i]
  PROVE  Ordered(n, [rank EXCEPT ![k] = top])
<1> DEFINE new == [rank EXCEPT ![k] = top]
<1>1. new[k] = top /\ \A j \in Keys : j # k => new[j] = rank[j]
  OBVIOUS
<1> HIDE DEF new
<1>2. ASSUME NEW i \in DOMAIN n, i # 1
      PROVE  /\ i - 1 \in DOMAIN w /\ n[i] = w[i - 1] /\ n[i].key \in Keys
             /\ new[n[i].key] = rank[w[i - 1].key]
  <2>1. i - 1 \in 1 .. Len(n) - 1 /\ (i - 1) + 1 = i
    BY <1>2
  <2>2. i - 1 \in DOMAIN w /\ n[i] = w[i - 1]
    BY <2>1
  <2> QED
    BY <1>1, <2>2 DEF Cached
<1> SUFFICES ASSUME NEW i \in DOMAIN n, NEW j \in DOMAIN n, i < j
             PROVE  new[n[j].key] < new[n[i].key]
  BY DEF Ordered, new
<1>3. j # 1 /\ i \in Nat /\ j \in Nat /\ i >= 1
  OBVIOUS
<1>4. CASE i = 1
  BY <1>1, <1>2, <1>3, <1>4
<1>5. CASE i # 1
  <2>1. i - 1 < j - 1
    BY <1>3
  <2> QED
    BY <1>2, <1>3, <1>5, <2>1 DEF Ordered
<1> QED
  BY <1>4, <1>5

-----------------------------------------------------------------------------
\* The keys used since the last use of one.
Overtaking(k) == {j \in Keys : lastUse[j] > lastUse[k]}

\* Every entry was offered, when it was put or later, and no offer for its key is
\* younger than the entry by more than the deduplication window.
OfferInv ==
  /\ \A i \in DOMAIN inner :
       LET offered == lastOffer[inner[i].key] IN
       /\ offered[inner[i].response] # None
       /\ inner[i].inserted <= offered[inner[i].response]
       /\ \A r \in Responses :
            offered[r] # None => offered[r] <= inner[i].inserted + DedupWindow
  /\ \A k \in Keys : \A r \in Responses :
       lastOffer[k][r] # None => lastOffer[k][r] <= now

UseInv ==
  /\ Ordered(inner, lastUse)
  /\ \A k \in Keys : lastUse[k] <= uses

KeptInv ==
  \A k \in Keys : \A r \in Responses :
    \/ lastOffer[k][r] = None
    \/ now - lastOffer[k][r] > CacheTtl - DedupWindow
    \/ Cached(inner, k)
    \/ MaxEntries <= Cardinality(Overtaking(k))

Inv == TypeOK /\ OfferInv /\ UseInv /\ KeptInv /\ HitsAreFresh

\* A used key overtakes others and is overtaken by none.
LEMMA UseCounts ==
  ASSUME TypeOK, UseInv, NEW k \in Keys, Use(k)
  PROVE  /\ uses' \in 0 .. MaxUses /\ lastUse' \in [Keys -> 0 .. MaxUses]
         /\ uses' = uses + 1 /\ lastUse' = [lastUse EXCEPT ![k] = uses + 1]
         /\ \A j \in Keys : lastUse'[j] <= uses'
         /\ \A j \in Keys \ {k} : /\ lastUse'[j] = lastUse[j]
                                  /\ Overtaking(j) \subseteq Overtaking(j)'
<1>1. /\ uses < MaxUses /\ uses \in Nat /\ MaxUses \in Nat
      /\ uses' = uses + 1 /\ lastUse' = [lastUse EXCEPT ![k] = uses + 1]
  BY ResponseCacheAssumption DEF Use, TypeOK
<1>2. lastUse'[k] = uses + 1 /\ \A j \in Keys \ {k} : lastUse'[j] = lastUse[j]
  BY <1>1 DEF TypeOK
<1>3. \A j \in Keys : lastUse[j] \in Nat /\ lastUse[j] <= uses
  BY DEF TypeOK, UseInv
<1>4. \A j \in Keys : lastUse'[j] <= uses'
  BY <1>1, <1>2, <1>3
<1>5. \A j \in Keys \ {k} : Overtaking(j) \subseteq Overtaking(j)'
  BY <1>1, <1>2, <1>3 DEF Overtaking
<1> QED
  BY <1>1, <1>2, <1>4, <1>5 DEF TypeOK

\* More keys do not make fewer.
LEMMA OvertakingGrows ==
  ASSUME NEW S, NEW T, S \subseteq T, T \subseteq Keys, MaxEntries <= Cardinality(S)
  PROVE  MaxEntries <= Cardinality(T)
<1>1. IsFiniteSet(T) /\ S \in SUBSET T
  BY ResponseCacheAssumption, FS_Subset
<1>2. IsFiniteSet(S) /\ Cardinality(S) <= Cardinality(T)
  BY <1>1, FS_Subset
<1> QED
  BY <1>1, <1>2, FS_CardinalityType, CacheTableAssumption

\* What a step has to show of the offers for a key when it leaves them, the key's
\* entry and the clock alone.
LEMMA KeptKey ==
  ASSUME TypeOK, KeptInv, NEW k \in Keys, NEW r \in Responses,
         lastOffer'[k][r] = lastOffer[k][r], now' = now,
         Overtaking(k) \subseteq Overtaking(k)',
         Cached(inner, k) => Cached(inner', k)
  PROVE  \/ lastOffer'[k][r] = None
         \/ now' - lastOffer'[k][r] > CacheTtl - DedupWindow
         \/ Cached(inner', k)
         \/ MaxEntries <= Cardinality(Overtaking(k)')
<1>1. CASE MaxEntries <= Cardinality(Overtaking(k))
  BY <1>1, OvertakingGrows DEF Overtaking
<1>2. CASE ~ (MaxEntries <= Cardinality(Overtaking(k)))
  BY <1>2 DEF KeptInv
<1> QED
  BY <1>1, <1>2

\* A get brings a key to the front, or removes an entry too old to matter.
LEMMA GetHolds ==
  ASSUME Inv, NEW k \in Keys, Get(k)
  PROVE  Inv'
<1> DEFINE E == CacheEntry(Keys, Responses)
<1>1. /\ inner \in Seq(E) /\ Len(inner) <= MaxEntries /\ OneEntryPerKey(inner)
      /\ now \in Nat /\ MaxEntries \in Nat /\ now' = now /\ lastOffer' = lastOffer
      /\ inner' = AfterGet(inner, k, now)
  BY CacheTableAssumption, ResponseCacheAssumption
     DEF Inv, TypeOK, OneEntryPerKey, Get
<1>2. /\ inner' \in Seq(E) /\ Len(inner') <= Len(inner)
      /\ OneEntryPerKey(inner')
      /\ \A i \in DOMAIN inner' : \E j \in DOMAIN inner : inner'[i] = inner[j]
      /\ \A h : Cached(inner, h) /\ (h = k => Hit(inner, k, now)) =>
           Cached(inner', h) /\ EntryOf(inner', h) = EntryOf(inner, h)
  BY <1>1, AfterGetKeeps
<1>3. PICK m \in Places(Without(inner, k), inner) : TRUE
  BY <1>1, WithoutPlaces
<1>4. Ordered(Without(inner, k), lastUse)
  BY <1>3, OrderedPart DEF Inv, UseInv
<1>5. OfferInv'
  BY <1>1, <1>2 DEF Inv, OfferInv
<1>6. CASE Hit(inner, k, now)
  <2>1. /\ answer' = [key |-> k, response |-> EntryOf(inner, k).response]
        /\ Use(k)
    BY <1>6 DEF Get
  <2>2. /\ uses' \in 0 .. MaxUses /\ lastUse' \in [Keys -> 0 .. MaxUses]
        /\ uses' = uses + 1 /\ lastUse' = [lastUse EXCEPT ![k] = uses + 1]
        /\ \A j \in Keys : lastUse'[j] <= uses'
        /\ \A j \in Keys \ {k} : Overtaking(j) \subseteq Overtaking(j)'
    BY <2>1, UseCounts DEF Inv
  <2>3. /\ Cached(inner, k) /\ now - EntryOf(inner, k).inserted <= CacheTtl
        /\ EntryOf(inner, k).key = k
        /\ \E i \in DOMAIN inner : EntryOf(inner, k) = inner[i]
    BY <1>6, EntryAtPosition DEF Hit
  <2>4. EntryOf(inner, k) \in E /\ EntryOf(inner, k).response \in Responses
    BY <1>1, <2>3, EntryFields
  <2>5. TypeOK'
    <3>1. answer' \in [key : Keys, response : Responses] \union {NoAnswer}
      BY <2>1, <2>4
    <3>2. Len(inner') <= MaxEntries
      BY <1>1, <1>2
    <3> QED
      BY <1>1, <1>2, <2>2, <3>1, <3>2 DEF Inv, TypeOK, OneEntryPerKey
  <2>6. HitsAreFresh'
    <3>1. /\ lastOffer[k][EntryOf(inner, k).response] # None
          /\ EntryOf(inner, k).inserted <= lastOffer[k][EntryOf(inner, k).response]
      BY <2>3 DEF Inv, OfferInv
    <3>2. lastOffer[k][EntryOf(inner, k).response] \in Nat
      BY <2>4, <3>1, ResponseCacheAssumption DEF Inv, TypeOK
    <3>3. EntryOf(inner, k).inserted \in Nat
      BY <1>1, <2>3, EntryFields
    <3>4. /\ answer'.key = k /\ answer'.response = EntryOf(inner, k).response
          /\ lastOffer' = lastOffer /\ now' = now
      BY <1>1, <2>1
    <3>5. now - lastOffer[k][EntryOf(inner, k).response] <= CacheTtl
      BY <1>1, <2>3, <3>1, <3>2, <3>3, CacheTableAssumption
    <3> QED
      BY <3>1, <3>4, <3>5 DEF HitsAreFresh
  <2>7. UseInv'
    <3> DEFINE e == EntryOf(inner, k)
               w == Without(inner, k)
    <3>1. inner' = <<e>> \o w
      BY <1>1, <1>6 DEF AfterGet
    <3>2. w \in Seq(E) /\ ~Cached(w, k) /\ \A i \in DOMAIN w : w[i].key \in Keys
      <4>1. w \in Seq(E)
        BY <1>1, WithoutPlaces
      <4>2. ~Cached(w, k)
        BY <1>1, WithoutKey
      <4> HIDE DEF w
      <4> QED
        BY <4>1, <4>2, EntryFields
    <3> HIDE DEF e, w, E
    <3>3. /\ inner'[1] = e /\ \A i \in 1 .. Len(inner') - 1 :
                                 i \in DOMAIN w /\ inner'[i + 1] = w[i]
      BY <2>4, <3>1, <3>2 DEF e
    <3>4. e.key = k
      BY <2>3 DEF e
    <3>5. Ordered(w, lastUse)
      BY <1>4 DEF w
    <3>6. /\ lastUse \in [Keys -> Nat] /\ uses + 1 \in Nat
          /\ \A j \in Keys : lastUse[j] < uses + 1
      BY DEF Inv, TypeOK, UseInv
    <3>7. Ordered(inner', [lastUse EXCEPT ![k] = uses + 1])
      BY <1>2, <3>2, <3>3, <3>4, <3>5, <3>6, OrderedInFront
    <3> QED
      BY <2>2, <3>7 DEF UseInv
  <2>8. KeptInv'
    <3> SUFFICES ASSUME NEW h \in Keys, NEW r \in Responses
                 PROVE  \/ lastOffer'[h][r] = None
                        \/ now' - lastOffer'[h][r] > CacheTtl - DedupWindow
                        \/ Cached(inner', h)
                        \/ MaxEntries <= Cardinality(Overtaking(h)')
      BY DEF KeptInv, Overtaking
    <3>1. CASE h # k
      BY <1>1, <1>2, <2>2, <3>1, KeptKey DEF Inv
    <3>2. CASE h = k
      BY <1>2, <1>6, <2>3, <3>2
    <3> QED
      BY <3>1, <3>2
  <2> QED
    BY <1>5, <2>5, <2>6, <2>7, <2>8 DEF Inv
<1>7. CASE ~Hit(inner, k, now)
  <2>1. answer' = NoAnswer /\ UNCHANGED <<uses, lastUse>>
    BY <1>7 DEF Get
  <2>2. TypeOK'
    <3>1. Len(inner') <= MaxEntries
      BY <1>1, <1>2
    <3> QED
      BY <1>1, <1>2, <2>1, <3>1 DEF Inv, TypeOK, OneEntryPerKey
  <2>3. HitsAreFresh'
    BY <2>1 DEF HitsAreFresh, NoAnswer
  <2>4. UseInv'
    <3>1. inner' = Without(inner, k)
      BY <1>1, <1>7 DEF AfterGet
    <3> QED
      BY <1>4, <2>1, <3>1 DEF Inv, UseInv
  <2>5. KeptInv'
    <3> SUFFICES ASSUME NEW h \in Keys, NEW r \in Responses
                 PROVE  \/ lastOffer'[h][r] = None
                        \/ now' - lastOffer'[h][r] > CacheTtl - DedupWindow
                        \/ Cached(inner', h)
                        \/ MaxEntries <= Cardinality(Overtaking(h)')
      BY DEF KeptInv, Overtaking
    <3>1. Overtaking(h) \subseteq Overtaking(h)'
      BY <2>1 DEF Overtaking
    <3>2. CASE h # k \/ ~Cached(inner, h)
      BY <1>1, <1>2, <3>1, <3>2, KeptKey DEF Inv
    <3>3. CASE h = k /\ Cached(inner, k) /\ lastOffer[k][r] # None
      <4>1. /\ ~ (now - EntryOf(inner, k).inserted <= CacheTtl)
            /\ EntryOf(inner, k).key = k
            /\ \E i \in DOMAIN inner : EntryOf(inner, k) = inner[i]
        BY <1>7, <3>3, EntryAtPosition DEF Hit
      <4>2. lastOffer[k][r] <= EntryOf(inner, k).inserted + DedupWindow
        BY <3>3, <4>1 DEF Inv, OfferInv
      <4>3. EntryOf(inner, k).inserted \in Nat
        BY <1>1, <4>1, EntryFields
      <4>4. lastOffer[k][r] \in Nat
        BY <3>3, ResponseCacheAssumption DEF Inv, TypeOK
      <4>5. now - lastOffer[k][r] > CacheTtl - DedupWindow
        BY <1>1, <4>1, <4>2, <4>3, <4>4, CacheTableAssumption
      <4> QED
        BY <1>1, <3>3, <4>5
    <3> QED
      BY <1>1, <3>2, <3>3
  <2> QED
    BY <1>5, <2>2, <2>3, <2>4, <2>5 DEF Inv
<1> QED
  BY <1>6, <1>7

\* A put leaves a young entry as it is, or brings a new one to the front; the key
\* it pushes out has been overtaken by all that stay.
LEMMA PutHolds ==
  ASSUME Inv, NEW k \in Keys, NEW r \in Responses, Put(k, r)
  PROVE  Inv'
<1> DEFINE E == CacheEntry(Keys, Responses)
<1>1. /\ inner \in Seq(E) /\ Len(inner) <= MaxEntries /\ OneEntryPerKey(inner)
      /\ now \in Nat /\ now \in 0 .. MaxTime /\ MaxEntries \in Nat
      /\ now' = now /\ answer' = NoAnswer
      /\ lastOffer' = [lastOffer EXCEPT ![k][r] = now]
      /\ inner' = AfterPut(inner, k, r, now)
  BY CacheTableAssumption, ResponseCacheAssumption
     DEF Inv, TypeOK, OneEntryPerKey, Put
<1>2. /\ lastOffer' \in [Keys -> [Responses -> 0 .. MaxTime \union {None}]]
      /\ lastOffer'[k][r] = now
      /\ \A h \in Keys, q \in Responses : h # k \/ q # r => lastOffer'[h][q] = lastOffer[h][q]
  BY <1>1 DEF Inv, TypeOK
<1>3. HitsAreFresh'
  BY <1>1 DEF HitsAreFresh, NoAnswer
<1>4. \A h \in Keys : \A q \in Responses :
        lastOffer'[h][q] # None => lastOffer'[h][q] <= now
  BY <1>1, <1>2 DEF Inv, OfferInv
<1>5. \A i \in DOMAIN inner : /\ inner[i].key \in Keys /\ inner[i].response \in Responses
                               /\ inner[i].inserted \in Nat
  BY <1>1, EntryFields
<1>6. CASE PutRefused(inner, k, now)
  <2>1. inner' = inner /\ UNCHANGED <<uses, lastUse>>
    BY <1>1, <1>6 DEF AfterPut, Put
  <2>2. /\ Cached(inner, k) /\ now - EntryOf(inner, k).inserted < DedupWindow
        /\ EntryOf(inner, k).key = k
        /\ \E i \in DOMAIN inner : EntryOf(inner, k) = inner[i]
    BY <1>6, EntryAtPosition DEF PutRefused
  <2>3. TypeOK'
    BY <1>1, <1>2, <2>1 DEF Inv, TypeOK
  <2>4. OfferInv'
    <3> SUFFICES ASSUME NEW i \in DOMAIN inner
                 PROVE  LET offered == lastOffer'[inner[i].key] IN
                        /\ offered[inner[i].response] # None
                        /\ inner[i].inserted <= offered[inner[i].response]
                        /\ \A q \in Responses :
                             offered[q] # None => offered[q] <= inner[i].inserted + DedupWindow
      BY <1>1, <1>4, <2>1 DEF OfferInv
    <3>1. /\ lastOffer[inner[i].key][inner[i].response] # None
          /\ inner[i].inserted <= lastOffer[inner[i].key][inner[i].response]
          /\ \A q \in Responses : lastOffer[inner[i].key][q] # None =>
               lastOffer[inner[i].key][q] <= inner[i].inserted + DedupWindow
      BY DEF Inv, OfferInv
    <3>2. CASE inner[i].key # k
      BY <1>2, <1>5, <3>1, <3>2
    <3>3. CASE inner[i].key = k
      <4>1. EntryOf(inner, k) = inner[i]
        BY <1>1, <3>3, OnlyEntry
      <4>2. now <= inner[i].inserted + DedupWindow
        BY <1>1, <1>5, <2>2, <4>1, CacheTableAssumption
      <4>3. lastOffer[k][inner[i].response] \in Nat
        BY <1>5, <3>1, <3>3, ResponseCacheAssumption DEF Inv, TypeOK
      <4>4. lastOffer[k][inner[i].response] <= now
        BY <1>5, <3>1, <3>3 DEF Inv, OfferInv
      <4>5. /\ lastOffer'[k][inner[i].response] # None
            /\ inner[i].inserted <= lastOffer'[k][inner[i].response]
        <5>1. now # None
          BY <1>1, ResponseCacheAssumption
        <5>2. inner[i].inserted <= now
          BY <1>1, <1>5, <3>1, <3>3, <4>3, <4>4
        <5> QED
          BY <1>2, <1>5, <3>1, <3>3, <5>1, <5>2
      <4>6. ASSUME NEW q \in Responses, lastOffer'[k][q] # None
            PROVE  lastOffer'[k][q] <= inner[i].inserted + DedupWindow
        BY <1>2, <3>1, <3>3, <4>2, <4>6
      <4> QED
        BY <3>3, <4>5, <4>6
    <3> QED
      BY <3>2, <3>3
  <2>5. UseInv'
    BY <2>1 DEF Inv, UseInv
  <2>6. KeptInv'
    <3> SUFFICES ASSUME NEW h \in Keys, NEW q \in Responses
                 PROVE  \/ lastOffer'[h][q] = None
                        \/ now' - lastOffer'[h][q] > CacheTtl - DedupWindow
                        \/ Cached(inner', h)
                        \/ MaxEntries <= Cardinality(Overtaking(h)')
      BY DEF KeptInv, Overtaking
    <3>1. CASE h = k
      BY <2>1, <2>2, <3>1
    <3>2. CASE h # k
      BY <1>1, <1>2, <2>1, <3>2, KeptKey DEF Inv, Overtaking
    <3> QED
      BY <3>1, <3>2
  <2> QED
    BY <1>3, <2>3, <2>4, <2>5, <2>6 DEF Inv
<1>7. CASE ~PutRefused(inner, k, now)
  <2> DEFINE e == [key |-> k, response |-> r, inserted |-> now]
             w == Without(inner, k)
  <2>1. /\ inner' \in Seq(E) /\ Len(inner') <= MaxEntries
        /\ OneEntryPerKey(inner')
        /\ Cached(inner', k) /\ EntryOf(inner', k) = e
        /\ inner'[1] = e
        /\ \A i \in 1 .. Len(inner') - 1 : i \in DOMAIN w /\ inner'[i + 1] = w[i]
        /\ \A i \in DOMAIN inner' : inner'[i] = e \/ \E j \in DOMAIN inner : inner'[i] = inner[j]
        /\ \A h : h # k /\ Cached(inner, h) =>
             \/ Cached(inner', h) /\ EntryOf(inner', h) = EntryOf(inner, h)
             \/ /\ Len(inner') = MaxEntries /\ MaxEntries \in DOMAIN w
                /\ w[MaxEntries].key = h
    BY <1>1, <1>7, AfterPutKeeps DEF PutKeeps
  <2>2. Use(k)
    BY <1>7 DEF Put
  <2>3. /\ uses' \in 0 .. MaxUses /\ lastUse' \in [Keys -> 0 .. MaxUses]
        /\ uses' = uses + 1 /\ lastUse' = [lastUse EXCEPT ![k] = uses + 1]
        /\ \A j \in Keys : lastUse'[j] <= uses'
        /\ \A j \in Keys \ {k} : /\ lastUse'[j] = lastUse[j]
                                 /\ Overtaking(j) \subseteq Overtaking(j)'
    BY <2>2, UseCounts DEF Inv
  <2>4. e.key = k /\ e.response = r /\ e.inserted = now
    OBVIOUS
  <2>5. w \in Seq(E) /\ ~Cached(w, k) /\ \A i \in DOMAIN w : w[i].key \in Keys
    <3>1. w \in Seq(E)
      BY <1>1, WithoutPlaces
    <3>2. ~Cached(w, k)
      BY <1>1, WithoutKey
    <3> HIDE DEF w
    <3> QED
      BY <3>1, <3>2, EntryFields
  <2>6. Ordered(w, lastUse)
    <3>1. PICK m \in Places(w, inner) : TRUE
      BY <1>1, WithoutPlaces
    <3> QED
      BY <3>1, OrderedPart DEF Inv, UseInv
  <2> HIDE DEF e, w
  <2>7. TypeOK'
    BY <1>1, <1>2, <2>1, <2>3 DEF Inv, TypeOK, OneEntryPerKey
  <2>8. UseInv'
    <3>1. /\ lastUse \in [Keys -> Nat] /\ uses + 1 \in Nat
          /\ \A j \in Keys : lastUse[j] < uses + 1
      BY DEF Inv, TypeOK, UseInv
    <3>2. Ordered(inner', [lastUse EXCEPT ![k] = uses + 1])
      BY <2>1, <2>4, <2>5, <2>6, <3>1, OrderedInFront
    <3> QED
      BY <2>3, <3>2 DEF UseInv
  <2>9. OfferInv'
    <3> SUFFICES ASSUME NEW i \in DOMAIN inner'
                 PROVE  LET offered == lastOffer'[inner'[i].key] IN
                        /\ offered[inner'[i].response] # None
                        /\ inner'[i].inserted <= offered[inner'[i].response]
                        /\ \A q \in Responses :
                             offered[q] # None => offered[q] <= inner'[i].inserted + DedupWindow
      BY <1>1, <1>4 DEF OfferInv
    <3>1. CASE inner'[i] = e
      <4>1. now # None
        BY <1>1, ResponseCacheAssumption
      <4>2. \A q \in Responses : lastOffer'[k][q] # None => lastOffer'[k][q] <= now + DedupWindow
        <5> SUFFICES ASSUME NEW q \in Responses, lastOffer'[k][q] # None
                     PROVE  lastOffer'[k][q] <= now + DedupWindow
          OBVIOUS
        <5>1. lastOffer'[k][q] <= now /\ lastOffer'[k][q] \in Nat
          BY <1>2, <1>4, ResponseCacheAssumption
        <5> QED
          BY <1>1, <5>1, CacheTableAssumption
      <4> QED
        BY <1>1, <1>2, <2>4, <3>1, <4>1, <4>2
    <3>2. CASE inner'[i] # e
      <4>1. PICK j \in DOMAIN inner : inner'[i] = inner[j]
        BY <2>1, <3>2
      <4>2. inner'[i].key # k
        BY <2>1, <3>2, OnlyEntry
      <4> QED
        BY <1>2, <1>5, <4>1, <4>2 DEF Inv, OfferInv
    <3> QED
      BY <3>1, <3>2
  <2>10. KeptInv'
    <3> SUFFICES ASSUME NEW h \in Keys, NEW q \in Responses
                 PROVE  \/ lastOffer'[h][q] = None
                        \/ now' - lastOffer'[h][q] > CacheTtl - DedupWindow
                        \/ Cached(inner', h)
                        \/ MaxEntries <= Cardinality(Overtaking(h)')
      BY DEF KeptInv, Overtaking
    <3>1. CASE h = k
      BY <2>1, <3>1
    <3>2. CASE h # k /\ (Cached(inner, h) => Cached(inner', h))
      BY <1>1, <1>2, <2>3, <3>2, KeptKey DEF Inv
    <3>3. CASE h # k /\ Cached(inner, h) /\ ~Cached(inner', h)
      <4>1. /\ Len(inner') = MaxEntries /\ MaxEntries \in DOMAIN w
            /\ w[MaxEntries].key = h
        BY <2>1, <3>3
      <4>2. ASSUME NEW i \in DOMAIN inner' PROVE inner'[i].key \in Overtaking(h)'
        <5>1. inner'[i].key \in Keys
          BY <2>1, EntryFields
        <5>2. CASE i = 1
          <6>1. lastUse'[k] = uses + 1 /\ lastUse'[h] = lastUse[h]
            BY <2>3, <3>3 DEF Inv, TypeOK
          <6>2. lastUse[h] <= uses /\ lastUse[h] \in Nat /\ uses \in Nat
            BY DEF Inv, UseInv, TypeOK
          <6> QED
            BY <2>1, <2>4, <5>1, <5>2, <6>1, <6>2 DEF Overtaking
        <5>3. CASE i # 1
          <6>1. i - 1 \in 1 .. Len(inner') - 1 /\ (i - 1) + 1 = i /\ i - 1 < MaxEntries
            BY <2>1, <4>1, <5>3
          <6>2. inner'[i] = w[i - 1] /\ i - 1 \in DOMAIN w
            BY <2>1, <6>1
          <6>3. lastUse[h] < lastUse[w[i - 1].key]
            BY <2>6, <4>1, <6>1, <6>2 DEF Ordered
          <6>4. w[i - 1].key # k
            BY <2>5, <6>2 DEF Cached
          <6> QED
            BY <2>3, <3>3, <5>1, <6>2, <6>3, <6>4 DEF Overtaking
        <5> QED
          BY <5>2, <5>3
      <4>3. IsFiniteSet(Overtaking(h)')
        BY ResponseCacheAssumption, FS_Subset DEF Overtaking
      <4> QED
        BY <2>1, <4>1, <4>2, <4>3, FullList
    <3> QED
      BY <3>1, <3>2, <3>3
  <2> QED
    BY <1>3, <2>7, <2>8, <2>9, <2>10 DEF Inv
<1> QED
  BY <1>6, <1>7

\* Time makes offers older.
LEMMA TickHolds ==
  ASSUME Inv, Tick
  PROVE  Inv'
<1>1. /\ now \in Nat /\ now < MaxTime /\ now' = now + 1 /\ answer' = NoAnswer
      /\ UNCHANGED <<inner, uses, lastUse, lastOffer>> /\ MaxTime \in Nat
  BY ResponseCacheAssumption DEF Tick, Inv, TypeOK
<1>2. TypeOK'
  BY <1>1 DEF Inv, TypeOK
<1>3. HitsAreFresh'
  BY <1>1 DEF HitsAreFresh, NoAnswer
<1>4. \A k \in Keys : \A r \in Responses :
        lastOffer[k][r] # None => lastOffer[k][r] \in Nat /\ lastOffer[k][r] <= now
  BY ResponseCacheAssumption DEF Inv, TypeOK, OfferInv
<1>5. OfferInv'
  <2>1. \A k \in Keys : \A r \in Responses :
          lastOffer'[k][r] # None => lastOffer'[k][r] <= now'
    BY <1>1, <1>4
  <2> QED
    BY <1>1, <2>1 DEF Inv, OfferInv
<1>6. UseInv'
  BY <1>1 DEF Inv, UseInv
<1>7. KeptInv'
  <2> SUFFICES ASSUME NEW k \in Keys, NEW r \in Responses, lastOffer[k][r] # None,
                      now - lastOffer[k][r] > CacheTtl - DedupWindow
               PROVE  now' - lastOffer[k][r] > CacheTtl - DedupWindow
    BY <1>1 DEF Inv, KeptInv, Overtaking
  <2> QED
    BY <1>1, <1>4, CacheTableAssumption
<1> QED
  BY <1>2, <1>3, <1>5, <1>6, <1>7 DEF Inv

\* Every operation keeps the invariant.
LEMMA Invariant ==
  Spec => []Inv
<1>1. Init => Inv
  <2> SUFFICES ASSUME Init PROVE Inv
    OBVIOUS
  <2>1. TypeOK
    BY ResponseCacheAssumption, CacheTableAssumption DEF Init, TypeOK
  <2>2. OfferInv /\ UseInv /\ KeptInv /\ HitsAreFresh
    BY DEF Init, OfferInv, UseInv, Ordered, KeptInv, HitsAreFresh, NoAnswer
  <2> QED
    BY <2>1, <2>2 DEF Inv
<1>2. Inv /\ [Next]_vars => Inv'
  <2> SUFFICES ASSUME Inv, [Next]_vars PROVE Inv'
    OBVIOUS
  <2>1. CASE UNCHANGED vars
    BY <2>1 DEF vars, Inv, TypeOK, OfferInv, UseInv, KeptInv, Overtaking, HitsAreFresh
  <2> QED
    BY <2>1, GetHolds, PutHolds, TickHolds DEF Next
<1> QED
  BY <1>1, <1>2, PTL DEF Spec

-----------------------------------------------------------------------------
\* The list holds at most MaxEntries entries and never two for a key, for any
\* capacity, time to live and deduplication window.
THEOREM TypeCorrect ==
  Spec => []TypeOK
<1>1. Inv => TypeOK
  BY DEF Inv
<1> QED
  BY <1>1, Invariant, PTL

\* What get returns was put for that key, no longer than the time to live ago.
THEOREM FreshHits ==
  Spec => []HitsAreFresh
<1>1. Inv => HitsAreFresh
  BY DEF Inv
<1> QED
  BY <1>1, Invariant, PTL

\* What was offered stays available for CacheTtl - DedupWindow, unless as many
\* keys as the cache holds were used since: the order of the list is that of the
\* last uses, so an evicted key is the one used least recently, and an entry that
\* refuses an offer is not older than the offer by more than the window.
THEOREM KeepsOffers ==
  Spec => []Retention
<1>1. ASSUME Inv, NEW k \in Keys, NEW r \in Responses, lastOffer[k][r] # None,
             ~ (now - lastOffer[k][r] > CacheTtl - DedupWindow), Cached(inner, k)
      PROVE  Hit(inner, k, now)
  <2>1. /\ EntryOf(inner, k).key = k
        /\ \E i \in DOMAIN inner : EntryOf(inner, k) = inner[i]
    BY <1>1, EntryAtPosition
  <2>2. lastOffer[k][r] <= EntryOf(inner, k).inserted + DedupWindow
    BY <1>1, <2>1 DEF Inv, OfferInv
  <2>3. EntryOf(inner, k).inserted \in Nat
    BY <1>1, <2>1, EntryFields DEF Inv, TypeOK
  <2>4. lastOffer[k][r] \in Nat /\ now \in Nat
    BY <1>1, ResponseCacheAssumption DEF Inv, TypeOK
  <2>5. now - EntryOf(inner, k).inserted <= CacheTtl
    BY <1>1, <2>2, <2>3, <2>4, CacheTableAssumption
  <2> QED
    BY <1>1, <2>5 DEF Hit
<1>2. Inv => Retention
  <2> SUFFICES ASSUME Inv, NEW k \in Keys, NEW r \in Responses
               PROVE  \/ lastOffer[k][r] = None
                      \/ now - lastOffer[k][r] > CacheTtl - DedupWindow
                      \/ Hit(inner, k, now)
                      \/ Cardinality(Overtaking(k)) >= MaxEntries
    BY DEF Retention, Overtaking
  <2>1. IsFiniteSet(Overtaking(k))
    BY ResponseCacheAssumption, FS_Subset DEF Overtaking
  <2>2. Cardinality(Overtaking(k)) \in Nat
    BY <2>1, FS_CardinalityType
  <2> QED
    BY <1>1, <2>2, CacheTableAssumption DEF Inv, KeptInv
<1> QED
  BY <1>2, Invariant, PTL
=============================================================================
