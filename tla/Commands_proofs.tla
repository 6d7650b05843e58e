-------------------------- MODULE Commands_proofs --------------------------
(***************************************************************************)
(* The commands keep what WalletFile promises, for any number of           *)
(* processes, any keys and any lengths of their texts, and every client    *)
(* they make has the cap and the recipient it was asked to have, for every *)
(* cap, default and u64.                                                   *)
(*                                                                         *)
(* The argument for the file: a saver that met no other one finds in the   *)
(* file what it has written so far, and while it writes nobody else does;  *)
(* so the file holds its key when it is done, for as long as nobody opens  *)
(* the file, and a load that began after that reads a prefix of that key's *)
(* text.  A process without force that passed the check saw no file.       *)
(*                                                                         *)
(* The argument for the commands: every step of a command is a step of the *)
(* wallet file or leaves it alone; and what MakeClient builds is not       *)
(* changed before the process ends.                                        *)
(***************************************************************************)
EXTENDS Commands, SequenceTheorems, TLAPS

-----------------------------------------------------------------------------
(* The wallet file: what every use of it preserves.                        *)

\* A step of a process, whatever command it runs.
FileNext ==
  \/ \E p \in Savers : \/ \E k \in Keys : \E f \in {{}, {p}} : Check(p, k, f)
                       \/ SaveStep(p) \/ SaverDies(p)
  \/ \E p \in Loaders : LoadCall(p) \/ LoadStep(p)

\* The first n cells of a key's text.
Prefix(k, n) == [i \in 1 .. n |-> <<k, i>>]

SaverInv(p) ==
  /\ pc[p] \in {"checked", "writing", "saved"} => key[p] \in Keys
  /\ pc[p] \in {"idle", "checked"} => offset[p] = 0
  /\ pc[p] = "writing" => file # None
  /\ pc[p] = "saved" => offset[p] = TextLen[key[p]]
  /\ p \notin contested /\ pc[p] \in {"writing", "saved"} =>
       /\ \A q \in Savers \ {p} : pc[q] # "writing"
       /\ file = Prefix(key[p], offset[p])

LoaderInv(l) ==
  /\ pc[l] = "idle" => read[l] = <<>>
  /\ pc[l] = "reading" => file # None
  /\ \A p \in after[l] : pc[p] = "saved"
  /\ \A p \in after[l] \ contested :
       /\ pc[l] \notin {"no_wallet", "invalid"}
       /\ pc[l] = "loaded" => key[l] = key[p]
       /\ pc[l] = "reading" =>
            /\ Len(read[l]) <= TextLen[key[p]]
            /\ read[l] = Prefix(key[p], Len(read[l]))

\* No process without force has passed the check while the old key is there.
OldKeyInv ==
  original # None /\ (\A p \in force : pc[p] \in {"checked", "idle"}) =>
    /\ file = original
    /\ \A p \in Savers \ force : pc[p] \notin {"checked", "writing"}

FileInv ==
  /\ FileTypeOK
  /\ \A p \in Savers : SaverInv(p)
  /\ \A l \in Loaders : LoaderInv(l)
  /\ OldKeyInv

-----------------------------------------------------------------------------
(* Texts.                                                                  *)

\* The maximum of two numbers.
LEMMA MaxOfTwo ==
  ASSUME NEW a \in Nat, NEW b \in Nat
  PROVE  Max({a, b}) = IF a >= b THEN a ELSE b
<1> DEFINE m == IF a >= b THEN a ELSE b
<1>1. m \in {a, b} /\ \A y \in {a, b} : m >= y
  OBVIOUS
<1>2. \A x \in {a, b} : (\A y \in {a, b} : x >= y) => x = m
  OBVIOUS
<1> HIDE DEF m
<1>3. (CHOOSE x \in {a, b} : \A y \in {a, b} : x >= y) = m
  BY <1>1, <1>2, Zenon
<1> QED
  BY <1>3, Zenon DEF m, Max

\* A prefix of a key's text is a sequence of cells.
LEMMA PrefixIsText ==
  ASSUME NEW k \in Keys, NEW n \in 0 .. TextLen[k]
  PROVE  /\ Prefix(k, n) \in Seq(Cell)
         /\ Len(Prefix(k, n)) = n
         /\ DOMAIN Prefix(k, n) = 1 .. n
         /\ \A i \in 1 .. n : Prefix(k, n)[i] = <<k, i>>
<1>1. TextLen[k] \in Nat
  BY WalletFileAssumption
<1>2. \A i \in 1 .. n : <<k, i>> \in {k} \X (1 .. TextLen[k])
  BY <1>1
<1>3. \A i \in 1 .. n : <<k, i>> \in Cell
  BY <1>2, Zenon DEF Cell
<1> QED
  BY <1>1, <1>3 DEF Prefix

\* A whole text is parsed as its own key and no other.
LEMMA TextIsParsed ==
  ASSUME NEW k \in Keys PROVE Parsed(Text(k)) = {k}
<1>1. \A h \in Keys : TextLen[h] \in Nat \ {0}
  BY WalletFileAssumption
<1>2. ASSUME NEW h \in Keys, Text(k) = Text(h) PROVE h = k
  <2>1. Text(k)[1] = <<k, 1>> /\ Text(h)[1] = <<h, 1>>
    BY <1>1 DEF Text
  <2> QED
    BY <2>1, <1>2
<1> QED
  BY <1>2 DEF Parsed

\* What p writes from the end of its own prefix makes a longer prefix.
LEMMA WrittenIsPrefix ==
  ASSUME NEW p, key[p] \in Keys, offset[p] \in 0 .. TextLen[key[p]],
         file = Prefix(key[p], offset[p]),
         NEW n \in offset[p] + 1 .. TextLen[key[p]]
  PROVE  Written(p, n) = Prefix(key[p], n)
<1>1. TextLen[key[p]] \in Nat /\ offset[p] \in Nat /\ n \in Nat
  BY WalletFileAssumption
<1>2. Len(file) = offset[p] /\ DOMAIN file = 1 .. offset[p]
      /\ \A i \in 1 .. offset[p] : file[i] = <<key[p], i>>
  BY PrefixIsText
<1>3. Max({Len(file), n}) = n
  BY <1>1, <1>2, MaxOfTwo
<1>4. \A i \in 1 .. n :
        (IF i \in offset[p] + 1 .. n THEN <<key[p], i>>
         ELSE IF i \in DOMAIN file THEN file[i] ELSE Hole) = <<key[p], i>>
  BY <1>1, <1>2
<1> QED
  BY <1>3, <1>4, Zenon DEF Written, Prefix

\* Whatever was in the file, it holds cells after a write.
LEMMA WrittenIsText ==
  ASSUME NEW p, key[p] \in Keys, offset[p] \in Nat, file \in Seq(Cell),
         NEW n \in offset[p] + 1 .. TextLen[key[p]]
  PROVE  Written(p, n) \in Seq(Cell)
<1>1. TextLen[key[p]] \in Nat /\ n \in Nat /\ Len(file) \in Nat
  BY WalletFileAssumption
<1>2. Max({Len(file), n}) \in Nat
  BY <1>1, MaxOfTwo
<1>3. \A i \in offset[p] + 1 .. n : <<key[p], i>> \in Cell
  <2>1. \A i \in offset[p] + 1 .. n : <<key[p], i>> \in {key[p]} \X (1 .. TextLen[key[p]])
    BY <1>1
  <2> QED
    BY <2>1, Zenon DEF Cell
<1>4. Hole \in Cell
  BY DEF Cell
<1>5. \A i \in DOMAIN file : file[i] \in Cell
  OBVIOUS
<1>6. \A i \in 1 .. Max({Len(file), n}) :
        (IF i \in offset[p] + 1 .. n THEN <<key[p], i>>
         ELSE IF i \in DOMAIN file THEN file[i] ELSE Hole) \in Cell
  BY <1>3, <1>4, <1>5, Zenon
<1> DEFINE m == Max({Len(file), n})
<1>7. Written(p, n) \in [1 .. m -> Cell]
  BY <1>6, Zenon DEF Written
<1>8. m \in Nat
  BY <1>2
<1> HIDE DEF m
<1> QED
  BY <1>7, <1>8, SeqDef
-----------------------------------------------------------------------------
(* The induction.                                                          *)

\* At the start no process has done anything.
LEMMA FileInitHolds ==
  FileInit => FileInv
<1> SUFFICES ASSUME FileInit PROVE FileInv
  OBVIOUS
<1> USE DEF FileInit, Processes
<1>1. Text(OldKey) \in Seq(Cell)
  <2>1. OldKey \in Keys /\ TextLen[OldKey] \in 0 .. TextLen[OldKey]
    BY WalletFileAssumption
  <2>2. Text(OldKey) = Prefix(OldKey, TextLen[OldKey])
    BY DEF Text, Prefix
  <2> QED
    BY <2>1, <2>2, PrefixIsText
<1>2. FileTypeOK
  <2>1. \A l \in Loaders : read[l] \in Seq(Cell)
    OBVIOUS
  <2> QED
    BY <1>1, <2>1 DEF FileTypeOK
<1>3. \A p \in Savers : SaverInv(p)
  BY DEF SaverInv
<1>4. \A l \in Loaders : LoaderInv(l)
  BY DEF LoaderInv
<1>5. OldKeyInv
  BY DEF OldKeyInv
<1> QED
  BY <1>2, <1>3, <1>4, <1>5 DEF FileInv

\* A call of save_wallet: without force it goes on only where it saw no file.
LEMMA CheckHolds ==
  ASSUME FileInv, NEW p \in Savers, NEW k \in Keys, NEW f \in {{}, {p}}, Check(p, k, f)
  PROVE  FileInv'
<1> USE DEF Check, Goto, Processes, saving, loading
<1>0. FileTypeOK /\ p \in Processes /\ p \notin Loaders /\ pc[p] = "idle"
  BY WalletFileAssumption DEF FileInv
<1>1. FileTypeOK'
  BY <1>0, WalletFileAssumption DEF FileTypeOK, FileInv, SaverInv
<1>2. \A q \in Savers : SaverInv(q)'
  BY <1>0 DEF FileTypeOK, FileInv, SaverInv
<1>3. \A l \in Loaders : LoaderInv(l)'
  BY <1>0 DEF FileTypeOK, FileInv, LoaderInv
<1>4. OldKeyInv'
  BY <1>0 DEF FileTypeOK, FileInv, OldKeyInv
<1> QED
  BY <1>1, <1>2, <1>3, <1>4 DEF FileInv

\* A save that fails, or whose process dies.
LEMMA SaveEndsHolds ==
  ASSUME FileInv, NEW p \in Savers, SaveFails(p) \/ WriteFails(p) \/ SaverDies(p)
  PROVE  FileInv'
<1> USE DEF Processes, saving, loading
<1>0. FileTypeOK /\ p \in Processes /\ p \notin Loaders
  BY WalletFileAssumption DEF FileInv
<1>1. /\ pc' = [pc EXCEPT ![p] = IF @ \in {"checked", "writing"} THEN "failed" ELSE @]
      /\ UNCHANGED <<file, original, key, force, offset, contested, read, after>>
  BY <1>0 DEF SaveFails, WriteFails, SaverDies, Goto, FileTypeOK
<1>2. FileTypeOK'
  BY <1>0, <1>1 DEF FileTypeOK
<1>3. \A q \in Savers : SaverInv(q)'
  BY <1>0, <1>1 DEF FileTypeOK, FileInv, SaverInv
<1>4. \A l \in Loaders : LoaderInv(l)'
  BY <1>0, <1>1 DEF FileTypeOK, FileInv, LoaderInv
<1>5. OldKeyInv'
  BY <1>0, <1>1 DEF FileTypeOK, FileInv, OldKeyInv
<1> QED
  BY <1>2, <1>3, <1>4, <1>5 DEF FileInv

\* The truncation contests every saver that has or had the file.
LEMMA OpenHolds ==
  ASSUME FileInv, NEW p \in Savers, Open(p)
  PROVE  FileInv'
<1> USE DEF Open, Goto, Processes, saving, loading
<1>0. FileTypeOK /\ p \in Processes /\ p \notin Loaders /\ pc[p] = "checked"
      /\ key[p] \in Keys /\ offset[p] = 0
  BY WalletFileAssumption DEF FileInv, SaverInv
<1>1. Prefix(key[p], 0) = <<>> /\ <<>> # None
  <2>1. Prefix(key[p], 0) = <<>>
    BY DEF Prefix
  <2>2. <<>> \in Seq(Cell) /\ None \notin Seq(Cell)
    BY WalletFileAssumption
  <2>3. <<>> # None
    BY <2>2, Zenon
  <2> QED
    BY <2>1, <2>3
<1>2. Met(p) \subseteq Savers
  BY DEF Met
<1>3. FileTypeOK'
  BY <1>0, <1>2 DEF FileTypeOK
<1>4. \A q \in Savers : SaverInv(q)'
  <2> SUFFICES ASSUME NEW q \in Savers PROVE SaverInv(q)'
    OBVIOUS
  <2>1. CASE q = p
    <3>1. /\ pc'[p] = "writing" /\ key'[p] = key[p] /\ offset'[p] = 0
          /\ file' = <<>> /\ contested' = contested \union Met(p)
          /\ \A w \in Savers \ {p} : pc'[w] = pc[w]
      BY <1>0 DEF FileTypeOK
    <3>2. p \notin contested' => \A w \in Savers : pc[w] # "writing"
      BY <3>1 DEF Met
    <3> QED
      BY <1>0, <1>1, <2>1, <3>1, <3>2 DEF SaverInv
  <2>2. CASE q # p
    <3>1. /\ pc'[q] = pc[q] /\ key'[q] = key[q] /\ offset'[q] = offset[q]
          /\ contested' = contested \union Met(p) /\ file' = <<>>
      BY <1>0, <2>2 DEF FileTypeOK
    <3>2. pc[q] \in {"writing", "saved"} => q \in contested'
      BY <2>2, <3>1 DEF Met
    <3>3. SaverInv(q)
      BY DEF FileInv
    <3> QED
      BY <1>1, <3>1, <3>2, <3>3 DEF SaverInv
  <2> QED
    BY <2>1, <2>2
<1>5. \A l \in Loaders : LoaderInv(l)'
  <2> SUFFICES ASSUME NEW l \in Loaders PROVE LoaderInv(l)'
    OBVIOUS
  <2>1. \A q \in after[l] : pc[q] = "saved" /\ q # p /\ q \in Met(p)
    BY <1>0 DEF FileTypeOK, FileInv, LoaderInv, Met
  <2> QED
    BY <1>0, <1>1, <2>1 DEF FileTypeOK, FileInv, LoaderInv
<1>6. OldKeyInv'
  BY <1>0 DEF FileTypeOK, FileInv, OldKeyInv
<1> QED
  BY <1>3, <1>4, <1>5, <1>6 DEF FileInv

\* A saver writes only what extends its own prefix, or it is contested.
LEMMA WriteHolds ==
  ASSUME FileInv, NEW p \in Savers, Write(p)
  PROVE  FileInv'
<1> USE DEF Goto, Processes, saving, loading
<1>0. /\ FileTypeOK /\ p \in Processes /\ p \notin Loaders /\ pc[p] = "writing"
      /\ key[p] \in Keys /\ TextLen[key[p]] \in Nat
      /\ offset[p] \in 0 .. TextLen[key[p]] /\ file \in Seq(Cell)
  <2>1. FileTypeOK /\ SaverInv(p) /\ pc[p] = "writing" /\ p \in Processes /\ p \notin Loaders
    BY WalletFileAssumption DEF FileInv, Write
  <2>2. key[p] \in Keys /\ key[p] # None
    BY <2>1, WalletFileAssumption DEF SaverInv
  <2> QED
    BY <2>1, <2>2, WalletFileAssumption DEF SaverInv, FileTypeOK
<1>1. PICK n \in offset[p] + 1 .. TextLen[key[p]] :
        /\ pc' = [pc EXCEPT ![p] = IF n = TextLen[key[p]] THEN "saved" ELSE "writing"]
        /\ file' = Written(p, n)
        /\ offset' = [offset EXCEPT ![p] = n]
        /\ UNCHANGED <<original, key, force, contested, read, after>>
  BY DEF Write
<1>2. n \in 0 .. TextLen[key[p]]
  BY <1>0
<1>3. Written(p, n) \in Seq(Cell) /\ Written(p, n) # None
  <2>1. offset[p] \in Nat
    BY <1>0
  <2>2. Written(p, n) \in Seq(Cell)
    BY <1>0, <2>1, WrittenIsText
  <2> QED
    BY <2>2, WalletFileAssumption
<1>4. p \notin contested => Written(p, n) = Prefix(key[p], n)
  <2>1. p \notin contested => file = Prefix(key[p], offset[p])
    BY <1>0 DEF FileInv, SaverInv
  <2> QED
    BY <1>0, <2>1, WrittenIsPrefix
<1>5. FileTypeOK'
  <2>1. /\ file' \in Seq(Cell) \union {None}
        /\ \A q \in Savers : offset'[q] <= (IF key'[q] = None THEN 0 ELSE TextLen[key'[q]])
    <3>1. key[p] # None
      BY <1>0, WalletFileAssumption
    <3> QED
      BY <1>0, <1>1, <1>2, <1>3, <3>1 DEF FileTypeOK
  <2> QED
    BY <1>0, <1>1, <2>1 DEF FileTypeOK
<1>6. \A q \in Savers : SaverInv(q)'
  <2> SUFFICES ASSUME NEW q \in Savers PROVE SaverInv(q)'
    OBVIOUS
  <2>1. CASE q = p
    <3>1. /\ pc'[p] = IF n = TextLen[key[p]] THEN "saved" ELSE "writing"
          /\ key'[p] = key[p] /\ offset'[p] = n /\ contested' = contested
          /\ \A w \in Savers \ {p} : pc'[w] = pc[w]
      BY <1>0, <1>1 DEF FileTypeOK
    <3>2. p \notin contested => \A w \in Savers \ {p} : pc[w] # "writing"
      BY <1>0 DEF FileInv, SaverInv
    <3> QED
      BY <1>0, <1>1, <1>3, <1>4, <2>1, <3>1, <3>2 DEF SaverInv
  <2>2. CASE q # p
    BY <1>0, <1>1, <1>3, <2>2 DEF FileTypeOK, FileInv, SaverInv
  <2> QED
    BY <2>1, <2>2
<1>7. \A l \in Loaders : LoaderInv(l)'
  <2> SUFFICES ASSUME NEW l \in Loaders PROVE LoaderInv(l)'
    OBVIOUS
  <2>1. \A q \in after[l] : pc[q] = "saved" /\ q # p
    BY <1>0 DEF FileInv, LoaderInv
  <2> QED
    BY <1>0, <1>1, <1>3, <2>1 DEF FileTypeOK, FileInv, LoaderInv
<1>8. OldKeyInv'
  BY <1>0, <1>1 DEF FileTypeOK, FileInv, OldKeyInv
<1> QED
  BY <1>5, <1>6, <1>7, <1>8 DEF FileInv

\* A loader changes only what is its own.
LEMMA LoaderStep ==
  ASSUME FileInv, NEW l \in Loaders,
         UNCHANGED <<file, original, force, offset, contested>>,
         pc' = [pc EXCEPT ![l] = pc'[l]], pc'[l] \notin {"checked", "writing"},
         \A q \in Savers : key'[q] = key[q],
         FileTypeOK', LoaderInv(l)',
         \A m \in Loaders \ {l} :
           read'[m] = read[m] /\ after'[m] = after[m] /\ key'[m] = key[m]
  PROVE  FileInv'
<1> USE DEF Processes
<1>0. FileTypeOK /\ l \in Processes /\ l \notin Savers
  BY WalletFileAssumption DEF FileInv
<1>1. \A q \in Savers : pc'[q] = pc[q]
  BY <1>0 DEF FileTypeOK
<1>2. \A q \in Savers : SaverInv(q)'
  BY <1>1 DEF FileInv, SaverInv
<1>3. \A m \in Loaders : LoaderInv(m)'
  <2> SUFFICES ASSUME NEW m \in Loaders \ {l} PROVE LoaderInv(m)'
    OBVIOUS
  <2>1. pc'[m] = pc[m] /\ after[m] \subseteq Savers
    BY <1>0 DEF FileTypeOK
  <2> QED
    BY <1>1, <2>1 DEF FileInv, LoaderInv
<1>4. OldKeyInv'
  BY <1>0, <1>1 DEF FileTypeOK, FileInv, OldKeyInv
<1> QED
  BY <1>2, <1>3, <1>4 DEF FileInv

\* A load that looks at the file after a save finds that key's text in it.
LEMMA LoadCallHolds ==
  ASSUME FileInv, NEW l \in Loaders, LoadCall(l)
  PROVE  FileInv'
<1> USE DEF Processes, Goto, saving, loading
<1>0. FileTypeOK /\ l \in Processes /\ l \notin Savers /\ pc[l] = "idle"
      /\ read[l] = <<>>
  BY WalletFileAssumption DEF FileInv, LoadCall, LoadFromEnv, BeginLoad, LoaderInv
<1>1. CASE LoadFromEnv(l)
  <2>1. PICK result \in {"invalid_env", "from_env"} : pc' = [pc EXCEPT ![l] = result]
    BY <1>1 DEF LoadFromEnv
  <2>2. UNCHANGED <<file, original, key, force, offset, contested, read, after>>
    BY <1>1 DEF LoadFromEnv
  <2>3. FileTypeOK'
    BY <1>0, <2>1, <2>2 DEF FileTypeOK
  <2>4. pc'[l] = result
    BY <1>0, <2>1 DEF FileTypeOK
  <2>5. \A q \in after[l] : pc[q] = "saved" /\ pc'[q] = "saved"
    BY <1>0, <2>1 DEF FileInv, LoaderInv, FileTypeOK
  <2>6. LoaderInv(l)'
    BY <1>0, <2>2, <2>4, <2>5 DEF LoaderInv
  <2> QED
    BY <2>1, <2>2, <2>3, <2>4, <2>6, LoaderStep
<1>2. CASE BeginLoad(l)
  <2>1. PICK to \in {"no_wallet", "reading"} :
          /\ pc' = [pc EXCEPT ![l] = to]
          /\ to = "no_wallet" <=> file = None
    BY <1>2 DEF BeginLoad
  <2>2. /\ after' = [after EXCEPT ![l] = {q \in Savers : pc[q] = "saved"}]
        /\ UNCHANGED <<file, original, key, force, offset, contested, read>>
    BY <1>2 DEF BeginLoad
  <2>3. FileTypeOK'
    BY <1>0, <2>1, <2>2 DEF FileTypeOK
  <2>4. /\ pc'[l] = to
        /\ after'[l] = {q \in Savers : pc[q] = "saved"}
        /\ \A q \in Savers : pc'[q] = pc[q]
    BY <1>0, <2>1, <2>2 DEF FileTypeOK
  <2>5. ASSUME NEW q \in after'[l] \ contested
        PROVE  /\ file # None
               /\ 0 <= TextLen[key[q]] /\ <<>> = Prefix(key[q], 0)
    <3>1. q \in Savers /\ pc[q] = "saved" /\ q \notin contested
      BY <2>4, <2>5
    <3>2. key[q] \in Keys /\ file = Prefix(key[q], TextLen[key[q]])
      BY <3>1 DEF FileInv, SaverInv
    <3>3. TextLen[key[q]] \in Nat
      BY <3>2, WalletFileAssumption
    <3>4. file \in Seq(Cell)
      BY <3>2, <3>3, PrefixIsText
    <3> QED
      BY <3>3, <3>4, WalletFileAssumption DEF Prefix
  <2>6. LoaderInv(l)'
    BY <1>0, <2>1, <2>2, <2>4, <2>5 DEF LoaderInv
  <2>7. \A m \in Loaders \ {l} : after'[m] = after[m]
    BY <1>0, <2>2 DEF FileTypeOK
  <2> QED
    BY <2>1, <2>2, <2>3, <2>4, <2>6, <2>7, LoaderStep
<1> QED
  BY <1>1, <1>2 DEF LoadCall

\* What a read has after it went on to a position of the file: what it had, then
\* what the file holds from there to that position.
LEMMA ReadsOn ==
  ASSUME NEW S, NEW t \in Seq(S), NEW s \in Seq(S), NEW n \in Len(s) + 1 .. Len(t)
  PROVE  LET more == s \o SubSeq(t, Len(s) + 1, n)
         IN  /\ more \in Seq(S) /\ Len(more) = n
             /\ \A i \in 1 .. n : more[i] = IF i <= Len(s) THEN s[i] ELSE t[i]
<1> DEFINE rest == SubSeq(t, Len(s) + 1, n)
<1>1. Len(s) \in Nat /\ Len(t) \in Nat /\ n \in Nat /\ Len(s) + 1 <= n /\ n <= Len(t)
  OBVIOUS
<1>2. /\ rest \in Seq(S) /\ Len(rest) = n - Len(s)
      /\ \A i \in 1 .. n - Len(s) : rest[i] = t[i + Len(s)]
  <2>1. \A i \in Len(s) + 1 .. n : t[i] \in S
    BY <1>1
  <2> QED
    BY <1>1, <2>1
<1> HIDE DEF rest
<1>3. (s \o rest) \in Seq(S) /\ Len(s \o rest) = n
  BY <1>1, <1>2
<1>4. ASSUME NEW i \in 1 .. n
      PROVE  (s \o rest)[i] = IF i <= Len(s) THEN s[i] ELSE t[i]
  <2>1. CASE i <= Len(s)
    BY <1>1, <1>2, <2>1
  <2>2. CASE ~(i <= Len(s))
    <3>1. i - Len(s) \in 1 .. n - Len(s) /\ (i - Len(s)) + Len(s) = i
      BY <1>1, <2>2
    <3>2. rest[i - Len(s)] = t[i]
      BY <1>2, <3>1
    <3>3. (s \o rest)[i] = rest[i - Len(s)]
      BY <1>1, <1>2, <2>2
    <3> QED
      BY <2>2, <3>2, <3>3
  <2> QED
    BY <2>1, <2>2
<1> QED
  BY <1>3, <1>4 DEF rest

\* A read appends what follows in the text; at its end that text is parsed.
LEMMA LoadStepHolds ==
  ASSUME FileInv, NEW l \in Loaders, LoadStep(l)
  PROVE  FileInv'
<1> USE DEF Processes, Goto, saving, loading
<1>0. FileTypeOK /\ l \in Processes /\ l \notin Savers /\ pc[l] = "reading"
  BY WalletFileAssumption DEF FileInv, LoadStep, Read, ReadFails, Parse
<1>1. ASSUME NEW p \in after[l] \ contested
      PROVE  /\ p \in Savers /\ pc[p] = "saved"
             /\ key[p] \in Keys /\ TextLen[key[p]] \in Nat
             /\ file = Prefix(key[p], TextLen[key[p]])
             /\ Len(file) = TextLen[key[p]]
             /\ Len(read[l]) \in 0 .. TextLen[key[p]]
             /\ read[l] = Prefix(key[p], Len(read[l]))
  <2>1. p \in Savers /\ pc[p] = "saved"
    BY <1>0 DEF FileInv, LoaderInv, FileTypeOK
  <2>2. key[p] \in Keys /\ file = Prefix(key[p], TextLen[key[p]])
    BY <2>1 DEF FileInv, SaverInv
  <2>3. TextLen[key[p]] \in Nat
    BY <2>2, WalletFileAssumption
  <2>4. /\ Len(read[l]) <= TextLen[key[p]]
        /\ read[l] = Prefix(key[p], Len(read[l]))
    BY <1>0 DEF FileInv, LoaderInv
  <2>5. Len(read[l]) \in Nat
    BY <1>0 DEF FileTypeOK
  <2> QED
    BY <2>1, <2>2, <2>3, <2>4, <2>5, PrefixIsText
<1>2. CASE Read(l)
  <2>1. PICK n \in Len(read[l]) + 1 .. Len(file) :
          read' = [read EXCEPT ![l] = @ \o SubSeq(file, Len(@) + 1, n)]
    BY <1>2 DEF Read
  <2>2. UNCHANGED <<file, original, pc, key, force, offset, contested, after>>
    BY <1>2 DEF Read
  <2>3. file \in Seq(Cell) /\ read[l] \in Seq(Cell)
    BY <1>0 DEF FileTypeOK, FileInv, LoaderInv
  <2> DEFINE more == read[l] \o SubSeq(file, Len(read[l]) + 1, n)
  <2>4. /\ more \in Seq(Cell) /\ Len(more) = n
        /\ \A i \in 1 .. n : more[i] = IF i <= Len(read[l]) THEN read[l][i] ELSE file[i]
    BY <2>3, ReadsOn, Zenon
  <2>5. ASSUME NEW p \in after[l] \ contested
        PROVE  Len(more) <= TextLen[key[p]] /\ more = Prefix(key[p], Len(more))
    <3>1. \A i \in 1 .. n : more[i] = <<key[p], i>>
      <4>1. \A i \in 1 .. Len(read[l]) : read[l][i] = <<key[p], i>>
        BY <1>1, PrefixIsText
      <4>2. \A i \in 1 .. Len(file) : file[i] = <<key[p], i>>
        BY <1>1, PrefixIsText
      <4>3. n <= Len(file) /\ n \in Nat /\ Len(file) \in Nat /\ Len(read[l]) \in Nat
        BY <2>3
      <4> HIDE DEF more
      <4>4. ASSUME NEW i \in 1 .. n
            PROVE  more[i] = <<key[p], i>>
        <5>1. i \in 1 .. Len(file) /\ (i <= Len(read[l]) => i \in 1 .. Len(read[l]))
          BY <4>3
        <5>2. (more[i] = read[l][i] /\ i <= Len(read[l])) \/ more[i] = file[i]
          BY <2>4, Zenon
        <5> QED
          BY <4>1, <4>2, <5>1, <5>2, Zenon
      <4> QED
        BY <4>4, Zenon
    <3>2. n \in 0 .. TextLen[key[p]]
      BY <1>1, <2>3
    <3> HIDE DEF more
    <3>3. more = [i \in 1 .. n |-> <<key[p], i>>]
      <4>1. more = [i \in DOMAIN more |-> more[i]] /\ DOMAIN more = 1 .. n
        BY <2>4
      <4> QED
        BY <3>1, <4>1, Zenon
    <3> QED
      BY <2>4, <3>2, <3>3 DEF Prefix
  <2>6. read' = [read EXCEPT ![l] = more]
    BY <2>1, <2>3 DEF FileTypeOK
  <2> HIDE DEF more
  <2>7. FileTypeOK'
    BY <1>0, <2>2, <2>4, <2>6 DEF FileTypeOK
  <2>8. read'[l] = more
    BY <1>0, <2>6 DEF FileTypeOK
  <2>9. /\ \A q \in after[l] : pc[q] = "saved"
        /\ file # None
    BY <1>0 DEF LoaderInv, FileInv
  <2>10. LoaderInv(l)'
    BY <1>0, <2>2, <2>5, <2>8, <2>9 DEF LoaderInv
  <2>11. pc' = [pc EXCEPT ![l] = pc'[l]] /\ pc'[l] = "reading"
    BY <1>0, <2>2 DEF FileTypeOK
  <2>12. \A m \in Loaders \ {l} : read'[m] = read[m]
    BY <1>0, <2>6 DEF FileTypeOK
  <2> QED
    BY <2>2, <2>7, <2>10, <2>11, <2>12, LoaderStep
<1>3. CASE ReadFails(l)
  <2>1. /\ pc' = [pc EXCEPT ![l] = "unreadable"]
        /\ UNCHANGED <<file, original, key, force, offset, contested, read, after>>
    BY <1>3 DEF ReadFails
  <2>2. FileTypeOK'
    BY <1>0, <2>1 DEF FileTypeOK
  <2>3. pc'[l] = "unreadable" /\ \A q \in Savers : pc'[q] = pc[q]
    BY <1>0, <2>1 DEF FileTypeOK
  <2>4. after[l] \subseteq Savers
    BY <1>0 DEF FileTypeOK
  <2>5. \A q \in after[l] : pc[q] = "saved"
    BY DEF LoaderInv, FileInv
  <2>6. LoaderInv(l)'
    BY <1>0, <2>1, <2>3, <2>4, <2>5 DEF LoaderInv
  <2> QED
    BY <2>1, <2>2, <2>3, <2>6, LoaderStep
<1>4. CASE Parse(l)
  <2> DEFINE to == IF Parsed(read[l]) = {} THEN "invalid" ELSE "loaded"
             k  == IF Parsed(read[l]) = {} THEN None ELSE CHOOSE h \in Parsed(read[l]) : TRUE
  <2>1. /\ pc' = [pc EXCEPT ![l] = to]
        /\ key' = [key EXCEPT ![l] = k]
        /\ UNCHANGED <<file, original, force, offset, contested, read, after>>
        /\ Len(read[l]) >= Len(file)
    BY <1>4 DEF Parse
  <2>2. k \in Keys \union {None}
    BY DEF Parsed
  <2>3. ASSUME NEW p \in after[l] \ contested PROVE to = "loaded" /\ k = key[p]
    <3>1. Len(read[l]) = TextLen[key[p]]
      BY <1>1, <2>1
    <3>2. read[l] = Text(key[p])
      BY <1>1, <3>1 DEF Prefix, Text
    <3>3. Parsed(read[l]) = {key[p]}
      BY <1>1, <3>2, TextIsParsed
    <3> QED
      BY <3>3
  <2>4. to \in {"invalid", "loaded"}
    OBVIOUS
  <2> HIDE DEF to, k
  <2>5. FileTypeOK'
    BY <1>0, <2>1, <2>2, <2>4 DEF FileTypeOK
  <2>6. /\ pc'[l] = to /\ key'[l] = k
        /\ \A q \in Savers : pc'[q] = pc[q] /\ key'[q] = key[q]
        /\ after[l] \subseteq Savers
    BY <1>0, <2>1 DEF FileTypeOK
  <2>7. LoaderInv(l)'
    BY <1>0, <2>1, <2>3, <2>4, <2>6 DEF LoaderInv, FileInv
  <2>8. \A m \in Loaders \ {l} : key'[m] = key[m]
    BY <1>0, <2>1 DEF FileTypeOK
  <2> QED
    BY <2>1, <2>4, <2>5, <2>6, <2>7, <2>8, LoaderStep
<1> QED
  BY <1>2, <1>3, <1>4 DEF LoadStep

\* Every step keeps the invariant.
LEMMA FileInvHolds ==
  FileInv /\ [FileNext]_fileVars => FileInv'
<1> SUFFICES ASSUME FileInv, [FileNext]_fileVars PROVE FileInv'
  OBVIOUS
<1>1. CASE UNCHANGED fileVars
  BY <1>1 DEF FileInv, FileTypeOK, SaverInv, LoaderInv, OldKeyInv, fileVars,
              saving, loading
<1>2. ASSUME NEW p \in Savers, NEW k \in Keys, NEW f \in {{}, {p}}, Check(p, k, f)
      PROVE  FileInv'
  BY <1>2, CheckHolds
<1>3. ASSUME NEW p \in Savers, SaveStep(p) \/ SaverDies(p) PROVE FileInv'
  BY <1>3, SaveEndsHolds, OpenHolds, WriteHolds DEF SaveStep
<1>4. ASSUME NEW l \in Loaders, LoadCall(l) \/ LoadStep(l) PROVE FileInv'
  BY <1>4, LoadCallHolds, LoadStepHolds
<1> QED
  BY <1>1, <1>2, <1>3, <1>4 DEF FileNext

\* The invariant says what the properties ask for.
LEMMA FileInvSuffices ==
  FileInv => SavedIsLoadable /\ OldKeyNeedsForce /\ LoadFindsSavedKey
<1> SUFFICES ASSUME FileInv
             PROVE  SavedIsLoadable /\ OldKeyNeedsForce /\ LoadFindsSavedKey
  OBVIOUS
<1>1. SavedIsLoadable
  BY DEF FileInv, SaverInv, SavedIsLoadable, Prefix, Text
<1>2. OldKeyNeedsForce
  BY DEF FileInv, OldKeyInv, OldKeyNeedsForce
<1>3. LoadFindsSavedKey
  BY DEF FileInv, LoaderInv, LoadFindsSavedKey
<1> QED
  BY <1>1, <1>2, <1>3

-----------------------------------------------------------------------------
(* The commands.                                                           *)

\* A command does with the wallet file what WalletFile says, or nothing.
LEMMA CommandsUseTheFile ==
  Next => [FileNext]_fileVars
<1> SUFFICES ASSUME Next PROVE [FileNext]_fileVars
  OBVIOUS
<1>1. ASSUME NEW p \in Processes, Die(p) PROVE FileNext \/ UNCHANGED fileVars
  BY <1>1 DEF Die, FileNext
<1>2. ASSUME NEW p \in Savers,
             Create(p) \/ Import(p) \/ ImportRefuses(p) \/ Saving(p) \/ SaveEnds(p)
               \/ WalletError(p)
      PROVE  FileNext \/ UNCHANGED fileVars
  <2>1. FreshKeys \subseteq Keys
    BY DEF FreshKeys
  <2>2. ASSUME NEW k \in Keys, Save(p, k) PROVE FileNext
    BY <2>2 DEF Save, FileNext
  <2> QED
    BY <1>2, <2>1, <2>2 DEF Create, Import, ImportRefuses, Saving, SaveEnds, WalletError,
                            FileNext
<1>3. ASSUME NEW p \in Loaders,
             BeginLoading(p) \/ Loading(p) \/ WalletError(p)
               \/ PrintKey(p) \/ AskToExport(p) \/ Answered(p)
               \/ NoHttpClient(p) \/ MakeClient(p) \/ Query(p) \/ Chat(p)
               \/ Serve(p) \/ ServerError(p)
               \/ DoctorWallet(p) \/ DoctorCheck(p) \/ DoctorEnds(p)
      PROVE  FileNext \/ UNCHANGED fileVars
  <2>1. CASE BeginLoading(p) \/ Loading(p)
    BY <2>1 DEF BeginLoading, Loading, FileNext
  <2>2. CASE WalletError(p) \/ PrintKey(p) \/ AskToExport(p) \/ Answered(p)
               \/ NoHttpClient(p) \/ Query(p) \/ Chat(p) \/ Serve(p) \/ ServerError(p)
               \/ DoctorWallet(p) \/ DoctorEnds(p)
    BY <2>2, Zenon DEF WalletError, PrintKey, AskToExport, Answered, NoHttpClient, Query, Chat,
                Serve, ServerError, DoctorWallet, DoctorEnds
  <2>3. CASE MakeClient(p) \/ DoctorCheck(p)
    BY <2>3, Zenon DEF MakeClient, DoctorCheck
  <2> QED
    BY <1>3, <2>1, <2>2, <2>3, Zenon
<1> QED
  BY <1>1, <1>2, <1>3, Zenon DEF Next

\* Whatever the commands do with the file, its invariant holds.
LEMMA FileInvariant ==
  Spec => []FileInv
<1>1. Init => FileInv
  BY FileInitHolds DEF Init
<1>2. FileInv /\ [Next]_vars => FileInv'
  <2>1. [Next]_vars => [FileNext]_fileVars
    BY CommandsUseTheFile DEF vars
  <2> QED
    BY <2>1, FileInvHolds
<1> QED
  BY <1>1, <1>2, PTL DEF Spec

\* Whatever else runs, and whenever a process dies: after a save that had the
\* file to itself, the file holds the key that was saved.
THEOREM SavedKeyIsThere ==
  Spec => []SavedIsLoadable
<1>1. FileInv => SavedIsLoadable
  BY FileInvSuffices
<1> QED
  BY <1>1, FileInvariant, PTL

\* A wallet that was there at the start is lost to no race, failure or crash of
\* commands that were not given force.
THEOREM OldKeyIsSafe ==
  Spec => []OldKeyNeedsForce
<1>1. FileInv => OldKeyNeedsForce
  BY FileInvSuffices
<1> QED
  BY <1>1, FileInvariant, PTL

\* A command that begins to load after a save, with no other save since, uses
\* the key of that save, in however many parts the file is read.
THEOREM LoadsTheSavedKey ==
  Spec => []LoadFindsSavedKey
<1>1. FileInv => LoadFindsSavedKey
  BY FileInvSuffices
<1> QED
  BY <1>1, FileInvariant, PTL

-----------------------------------------------------------------------------
(* The clients.                                                            *)

\* What ClientsAreAsAsked says of one process.
IsAsAsked(config, cmd, args) ==
  /\ config.gateway_url.slashes = 0
  /\ config.expected_recipient = args.recipient
  /\ CASE args.cap = Unset -> config.max_payment_amount = DefaultMaxPayment
       [] args.cap \in Int /\ cmd = "chat" -> config.max_payment_amount = args.cap
       [] args.cap = NaN -> config.max_payment_amount = 0
       [] cmd = "proxy" /\ args.cap \in Int ->
            LET error == 10 * config.max_payment_amount - args.cap IN
            IF args.cap % 10 = 0 /\ args.cap \in 0 .. 10 * U64Max THEN error = 0
            ELSE \/ error \in -6 .. 6
                 \/ args.cap < 0 /\ config.max_payment_amount = 0
                 \/ args.cap > 10 * U64Max /\ config.max_payment_amount = U64Max

ClientInv ==
  /\ DOMAIN client = Processes /\ DOMAIN command = Processes /\ DOMAIN asked = Processes
  /\ \A p \in Processes :
       client[p] # None => IsAsAsked(client[p].config, command[p], asked[p])

\* What round and the cast make of a product.
LEMMA RoundedIs ==
  ASSUME NEW product \in Int
  PROVE  Rounded(product) =
           IF product < -5 THEN 0
           ELSE IF (product + 5) \div 10 >= U64Max THEN U64Max
           ELSE (product + 5) \div 10
<1> DEFINE quotient == (product + 5) \div 10
           positive == IF quotient >= 0 THEN quotient ELSE 0
           capped   == IF positive >= U64Max THEN U64Max ELSE positive
<1>1. U64Max \in Nat /\ product # NaN
  BY ClientConfigAssumption
<1>2. quotient \in Int /\ (product < -5 => quotient < 0) /\ (product >= -5 => quotient >= 0)
  OBVIOUS
<1> HIDE DEF quotient
<1>3. Max({0, quotient}) = positive
  <2>1. positive \in {0, quotient} /\ \A y \in {0, quotient} : positive >= y
    BY <1>2
  <2>2. \A x \in {0, quotient} : (\A y \in {0, quotient} : x >= y) => x = positive
    BY <1>2
  <2> HIDE DEF positive
  <2> QED
    BY <2>1, <2>2, Zenon DEF Max
<1>4. Min({U64Max, positive}) = capped
  <2>1. capped \in {U64Max, positive} /\ \A y \in {U64Max, positive} : capped <= y
    BY <1>1, <1>2
  <2>2. \A x \in {U64Max, positive} : (\A y \in {U64Max, positive} : x <= y) => x = capped
    BY <1>1, <1>2
  <2> HIDE DEF positive, capped
  <2> QED
    BY <2>1, <2>2, Zenon DEF Min
<1>5. Rounded(product) = capped
  BY <1>1, <1>3, <1>4, Zenon DEF Rounded, quotient
<1> QED
  BY <1>1, <1>2, <1>5 DEF quotient

\* A cap in USDC becomes the nearest cap that a u64 can hold, but for the error of
\* Products.
LEMMA CapIsNear ==
  ASSUME NEW cap \in Int, NEW m \in AtomicCaps(cap)
  PROVE  IF cap % 10 = 0 /\ cap \in 0 .. 10 * U64Max THEN 10 * m - cap = 0
         ELSE \/ 10 * m - cap \in -6 .. 6
              \/ cap < 0 /\ m = 0
              \/ cap > 10 * U64Max /\ m = U64Max
<1>1. cap # Unset /\ cap # NaN /\ U64Max \in Nat
  BY ClientConfigAssumption
<1>2. PICK product \in cap - 1 .. cap + 1 : m = Rounded(product)
  BY <1>1 DEF AtomicCaps, Products
<1>3. m = IF product < -5 THEN 0
          ELSE IF (product + 5) \div 10 >= U64Max THEN U64Max
          ELSE (product + 5) \div 10
  BY <1>2, RoundedIs
<1> QED
  BY <1>1, <1>3

\* A builder's configuration has what was set, and the default of the rest.
LEMMA BuiltConfig ==
  ASSUME NEW builder
  PROVE  LET config == BuildConfig(builder) IN
         /\ config.gateway_url = IF builder.gateway_url = Unset
              THEN [host |-> "localhost", slashes |-> 0] ELSE builder.gateway_url
         /\ config.expected_recipient = IF builder.expected_recipient = Unset
              THEN Unset ELSE builder.expected_recipient
         /\ config.max_payment_amount = IF builder.max_payment_amount = Unset
              THEN DefaultMaxPayment ELSE builder.max_payment_amount
<1>1. {"gateway_url", "expected_recipient", "max_payment_amount"} \subseteq DOMAIN Default
  BY DEF Default
<1>2. /\ Default.gateway_url = [host |-> "localhost", slashes |-> 0]
      /\ Default.expected_recipient = Unset
      /\ Default.max_payment_amount = DefaultMaxPayment
  BY DEF Default
<1> QED
  BY <1>1, <1>2 DEF BuildConfig

\* The builder that balance, chat and doctor begin with.
LEMMA EndpointsAre ==
  /\ DOMAIN Endpoints = DOMAIN Default
  /\ Endpoints.gateway_url = Trimmed(Gateway)
  /\ Endpoints.expected_recipient = Unset
  /\ Endpoints.max_payment_amount = Unset
  BY DEF Endpoints, With, Builder, Default

\* Every configuration a command may end up with is what was asked for.
LEMMA ConfigsAreAsAsked ==
  ASSUME NEW cmd \in ClientCommands, NEW args \in Asked(cmd),
         NEW config \in Configs(cmd, args)
  PROVE  IsAsAsked(config, cmd, args)
<1> USE ClientConfigAssumption, CommandsAssumption
<1>1. Trimmed(Gateway).slashes = 0
  BY DEF Trimmed
<1>2. CASE cmd = "proxy"
  <2>1. args.cap \in ProxyCaps \union {Unset} /\ ProxyCaps \subseteq Int \union {NaN}
    BY <1>2 DEF Asked
  <2>2. PICK m \in AtomicCaps(args.cap) : config = ProxyConfig(m, args.recipient)
    BY <1>2 DEF Configs
  <2>3. /\ config.gateway_url = Trimmed(Gateway)
        /\ config.expected_recipient = args.recipient
        /\ config.max_payment_amount = m
    BY <2>2 DEF ProxyConfig, Default
  <2>4. CASE args.cap = Unset
    <3>1. m = DefaultMaxPayment
      BY <2>4 DEF AtomicCaps, Default
    <3> QED
      BY <1>1, <1>2, <2>3, <2>4, <3>1 DEF IsAsAsked
  <2>5. CASE args.cap = NaN
    <3>1. m = 0
      BY <2>5 DEF AtomicCaps, Products, Rounded
    <3> QED
      BY <1>1, <1>2, <2>3, <2>5, <3>1 DEF IsAsAsked
  <2>6. CASE args.cap \in Int
    BY <1>1, <1>2, <2>3, <2>6, CapIsNear DEF IsAsAsked
  <2> QED
    BY <2>1, <2>4, <2>5, <2>6
<1>3. CASE cmd = "chat"
  <2>1. args.cap \in ChatCaps \union {Unset} /\ args.recipient = Unset
        /\ ChatCaps \subseteq Int
    BY <1>3 DEF Asked
  <2> DEFINE builder == With(Endpoints, "max_payment_amount", args.cap)
  <2>2. config = BuildConfig(builder)
    BY <1>3 DEF Configs, ChatConfig
  <2>3. /\ builder.gateway_url = Trimmed(Gateway)
        /\ builder.expected_recipient = Unset
        /\ builder.max_payment_amount = args.cap
    <3>1. "max_payment_amount" \in DOMAIN Endpoints
      BY EndpointsAre DEF Default
    <3> QED
      BY <3>1, EndpointsAre DEF With
  <2> HIDE DEF builder
  <2>4. /\ config.gateway_url.slashes = 0
        /\ config.expected_recipient = Unset
        /\ config.max_payment_amount =
             IF args.cap = Unset THEN DefaultMaxPayment ELSE args.cap
    BY <1>1, <2>2, <2>3, BuiltConfig
  <2>5. args.cap # NaN
    BY <2>1
  <2>6. CASE args.cap = Unset
    <3>1. config.max_payment_amount = DefaultMaxPayment
      BY <2>4, <2>6
    <3> QED
      BY <1>3, <2>1, <2>4, <2>6, <3>1 DEF IsAsAsked
  <2>7. CASE args.cap # Unset
    <3>1. config.max_payment_amount = args.cap
      BY <2>4, <2>7
    <3> QED
      BY <1>3, <2>1, <2>4, <2>5, <2>7, <3>1 DEF IsAsAsked
  <2> QED
    BY <2>6, <2>7
<1>4. CASE cmd \in {"balance", "models"}
  <2>1. args = NothingAsked
    BY <1>4 DEF Asked
  <2>2. PICK builder \in {Endpoints, With(Builder, "gateway_url", Trimmed(Gateway))} :
          config = BuildConfig(builder)
    BY <1>4 DEF Configs
  <2>3. /\ builder.gateway_url = Trimmed(Gateway)
        /\ builder.expected_recipient = Unset
        /\ builder.max_payment_amount = Unset
    <3>1. CASE builder = Endpoints
      BY <3>1, EndpointsAre
    <3>2. CASE builder = With(Builder, "gateway_url", Trimmed(Gateway))
      <4>1. /\ {"gateway_url", "expected_recipient", "max_payment_amount"} \subseteq DOMAIN Default
            /\ "gateway_url" # "expected_recipient" /\ "gateway_url" # "max_payment_amount"
        BY DEF Default
      <4>2. \A f \in DOMAIN Default :
              builder[f] = IF f = "gateway_url" THEN Trimmed(Gateway) ELSE Unset
        BY <3>2 DEF With, Builder
      <4> QED
        BY <4>1, <4>2
    <3> QED
      BY <3>1, <3>2
  <2>4. /\ config.gateway_url.slashes = 0
        /\ config.expected_recipient = Unset
        /\ config.max_payment_amount = DefaultMaxPayment
    BY <1>1, <2>2, <2>3, BuiltConfig
  <2> QED
    BY <1>4, <2>1, <2>4 DEF IsAsAsked, NothingAsked
<1> QED
  BY <1>2, <1>3, <1>4 DEF ClientCommands

\* A client is made of such a configuration, and kept to the end of its process.
LEMMA ClientInvariant ==
  Spec => []ClientInv
<1>1. Init => ClientInv
  BY DEF Init, ClientInv
<1>2. ClientInv /\ [Next]_vars => ClientInv'
  <2> SUFFICES ASSUME ClientInv, [Next]_vars PROVE ClientInv'
    OBVIOUS
  <2>1. ASSUME NEW p \in Processes,
               /\ client' = [client EXCEPT ![p] = None]
               /\ command' = [command EXCEPT ![p] = None]
               /\ asked' = [asked EXCEPT ![p] = NothingAsked]
        PROVE  ClientInv'
    BY <2>1 DEF ClientInv
  <2>2. ASSUME UNCHANGED <<client, command, asked>> PROVE ClientInv'
    BY <2>2 DEF ClientInv
  <2>3. ASSUME NEW p \in Processes, MakeClient(p) PROVE ClientInv'
    <3>1. PICK cmd \in ClientCommands : \E args \in Asked(cmd) : \E config \in Configs(cmd, args) :
            /\ command' = [command EXCEPT ![p] = cmd]
            /\ asked' = [asked EXCEPT ![p] = args]
            /\ client' = [client EXCEPT ![p] = NewClient(config)]
      BY <2>3, Zenon DEF MakeClient
    <3>2. PICK args \in Asked(cmd) : \E config \in Configs(cmd, args) :
            /\ command' = [command EXCEPT ![p] = cmd]
            /\ asked' = [asked EXCEPT ![p] = args]
            /\ client' = [client EXCEPT ![p] = NewClient(config)]
      BY <3>1, Zenon
    <3>3. PICK config \in Configs(cmd, args) :
            /\ command' = [command EXCEPT ![p] = cmd]
            /\ asked' = [asked EXCEPT ![p] = args]
            /\ client' = [client EXCEPT ![p] = NewClient(config)]
      BY <3>2, Zenon
    <3>4. IsAsAsked(config, cmd, args)
      BY ConfigsAreAsAsked
    <3>5. NewClient(config).config = config
      BY DEF NewClient
    <3> QED
      BY <3>3, <3>4, <3>5 DEF ClientInv
  <2>4. ASSUME NEW p \in Processes, NEW code, Exit(p, code) PROVE ClientInv'
    BY <2>1, <2>4 DEF Exit
  <2>5. CASE UNCHANGED vars
    BY <2>2, <2>5 DEF vars, process
  <2>6. ASSUME NEW p \in Processes, Die(p) PROVE ClientInv'
    BY <2>4, <2>6 DEF Die
  <2>7. ASSUME NEW p \in Savers,
               Create(p) \/ Import(p) \/ ImportRefuses(p) \/ Saving(p) \/ SaveEnds(p)
                 \/ WalletError(p)
        PROVE  ClientInv'
    <3>1. p \in Processes
      BY DEF Processes
    <3>2. CASE Create(p) \/ Import(p) \/ Saving(p)
      BY <2>2, <3>2 DEF Create, Import, Save, Saving, process
    <3>3. CASE ImportRefuses(p) \/ SaveEnds(p) \/ WalletError(p)
      BY <2>4, <3>1, <3>3 DEF ImportRefuses, SaveEnds, WalletError
    <3> QED
      BY <2>7, <3>2, <3>3
  <2>8. ASSUME NEW p \in Loaders,
               BeginLoading(p) \/ Loading(p) \/ WalletError(p)
                 \/ PrintKey(p) \/ AskToExport(p) \/ Answered(p)
                 \/ NoHttpClient(p) \/ MakeClient(p) \/ Query(p) \/ Chat(p)
                 \/ Serve(p) \/ ServerError(p)
                 \/ DoctorWallet(p) \/ DoctorCheck(p) \/ DoctorEnds(p)
        PROVE  ClientInv'
    <3>1. p \in Processes
      BY DEF Processes
    <3>2. CASE BeginLoading(p) \/ Loading(p) \/ AskToExport(p) \/ Serve(p) \/ DoctorWallet(p)
      BY <2>2, <3>2 DEF BeginLoading, Loading, AskToExport, Serve, DoctorWallet, process
    <3>3. CASE DoctorCheck(p)
      BY <2>2, <3>3, Zenon DEF DoctorCheck
    <3>4. CASE WalletError(p) \/ PrintKey(p) \/ NoHttpClient(p) \/ Query(p)
                 \/ ServerError(p) \/ DoctorEnds(p)
      BY <2>4, <3>1, <3>4, Zenon DEF WalletError, PrintKey, NoHttpClient, Query, ServerError,
                                     DoctorEnds
    <3>5. CASE Answered(p) \/ Chat(p)
      BY <2>4, <3>1, <3>5 DEF Answered, Chat
    <3>6. CASE MakeClient(p)
      BY <2>3, <3>1, <3>6
    <3> QED
      BY <2>8, <3>2, <3>3, <3>4, <3>5, <3>6, Zenon
  <2> QED
    BY <2>5, <2>6, <2>7, <2>8, Zenon DEF Next
<1> QED
  BY <1>1, <1>2, PTL DEF Spec

\* Every client of a command has the cap and the recipient that its arguments ask
\* for, or the default cap; only a cap that is no number of atomic units is rounded,
\* given the error that Products allows.
THEOREM ClientsHaveTheirCap ==
  Spec => []ClientsAreAsAsked
<1>1. ClientInv => ClientsAreAsAsked
  BY Zenon DEF ClientInv, ClientsAreAsAsked, IsAsAsked
<1> QED
  BY <1>1, ClientInvariant, PTL

-----------------------------------------------------------------------------
(* The report of doctor.                                                   *)

\* What ReportAgrees says of one line.
TrueLine(said, hasFailed) ==
  /\ said.check \in {"models", "payment"} =>
       /\ said.verdict = "FAIL" => said.refused
       /\ said.refused /\ ~said.odd => said.verdict = "FAIL"
  /\ said.verdict = "skipped" => hasFailed

\* A check that was made and is not among those that are well has failed.
Remembered(at, well, hasFailed) ==
  /\ at \in {"gateway", "models", "rpc", "balance"} /\ "wallet" \notin well => hasFailed
  /\ at \in {"models", "rpc", "balance", "payment"} /\ "gateway" \notin well => hasFailed
  /\ at \in {"balance", "payment"} /\ "rpc" \notin well => hasFailed

DoctorInv ==
  /\ DOMAIN stage = Processes /\ DOMAIN line = Processes /\ DOMAIN ok = Processes
  /\ \A p \in Processes :
       /\ TrueLine(line[p], p \in failed)
       /\ Remembered(stage[p], ok[p], p \in failed)

\* Where doctor finds a failure the client's call fails; the client's call fails on
\* odd successes besides, and on nothing else.
LEMMA VerdictsAgree ==
  ASSUME NEW r \in Reply, NEW check \in {"models", "payment"}
  PROVE  /\ Verdict(check, r) = "FAIL" => ClientRefuses(check, r)
         /\ ClientRefuses(check, r) /\ ~IsOdd(r) => Verdict(check, r) = "FAIL"
<1>1. CASE check = "models"
  BY <1>1 DEF Verdict, ModelsVerdict, ClientRefuses, ModelsOk, IsOdd, Ok, IsSuccess
<1>2. CASE check = "payment"
  BY <1>2 DEF Verdict, PaymentVerdict, ClientRefuses, EstimateOk, Parses, IsOdd, Ok,
              IsSuccess
<1> QED
  BY <1>1, <1>2

\* A line says "skipped" of no reply.
LEMMA VerdictIsNoSkip ==
  ASSUME NEW r \in Reply, NEW check \in CheckNames \ {"wallet"}
  PROVE  Verdict(check, r) # "skipped"
<1>1. check \in {"gateway", "models", "rpc", "balance", "payment"}
  BY DEF CheckNames, Checks
<1> QED
  BY <1>1 DEF Verdict, GatewayVerdict, ModelsVerdict, RpcVerdict, BalanceVerdict,
              PaymentVerdict, Ok

\* A check that is made tells the truth, and one that is skipped follows a FAIL.
LEMMA DoctorCheckHolds ==
  ASSUME DoctorInv, NEW p \in Processes, DoctorCheck(p)
  PROVE  DoctorInv'
<1>1. PICK i \in 2 .. Len(Checks) :
        LET check == Checks[i]
            next  == IF i = Len(Checks) THEN "reported" ELSE Checks[i + 1]
        IN  /\ Advance(p, check, next)
            /\ IF Skipped(check, ok[p])
                 THEN /\ Say(p, [NoLine EXCEPT !.check = check, !.verdict = "skipped"])
                      /\ UNCHANGED ok
                 ELSE \E r \in Reply :
                   /\ Say(p, [check   |-> check,
                              verdict |-> Verdict(check, r),
                              refused |-> ClientRefuses(check, r),
                              odd     |-> IsOdd(r)])
                   /\ ok' = IF check \in {"gateway", "rpc"} /\ Verdict(check, r) # "FAIL"
                              THEN [ok EXCEPT ![p] = @ \union {check}] ELSE ok
  BY Zenon DEF DoctorCheck
<1> DEFINE check == Checks[i]
           next  == IF i = Len(Checks) THEN "reported" ELSE Checks[i + 1]
<1>2. <<check, next>> \in {<<"gateway", "models">>, <<"models", "rpc">>, <<"rpc", "balance">>,
                          <<"balance", "payment">>, <<"payment", "reported">>}
  BY DEF Checks
<1>3. check \in CheckNames \ {"wallet"}
  BY DEF CheckNames, Checks
<1>4. /\ stage[p] = check /\ stage' = [stage EXCEPT ![p] = next]
      /\ IF Skipped(check, ok[p])
           THEN /\ Say(p, [NoLine EXCEPT !.check = check, !.verdict = "skipped"])
                /\ UNCHANGED ok
           ELSE \E r \in Reply :
             /\ Say(p, [check   |-> check,
                        verdict |-> Verdict(check, r),
                        refused |-> ClientRefuses(check, r),
                        odd     |-> IsOdd(r)])
             /\ ok' = IF check \in {"gateway", "rpc"} /\ Verdict(check, r) # "FAIL"
                        THEN [ok EXCEPT ![p] = @ \union {check}] ELSE ok
  BY <1>1 DEF Advance
<1> HIDE DEF check, next
<1>5. DOMAIN stage = Processes /\ DOMAIN line = Processes /\ DOMAIN ok = Processes
      /\ Remembered(check, ok[p], p \in failed)
  BY <1>4 DEF DoctorInv
<1>6. stage'[p] = next
  BY <1>4, <1>5
\* What remains to be shown of the new line.
<1>7. ASSUME NEW said, Say(p, said),
             DOMAIN ok' = Processes, ok[p] \subseteq ok'[p],
             \A q \in Processes \ {p} : ok'[q] = ok[q],
             TrueLine(said, p \in failed'),
             check \in {"gateway", "rpc"} /\ check \notin ok'[p] => said.verdict = "FAIL"
      PROVE  DoctorInv'
  <2>1. /\ line' = [line EXCEPT ![p] = said]
        /\ failed' = IF said.verdict = "FAIL" THEN failed \union {p} ELSE failed
    BY <1>7 DEF Say
  <2>2. /\ DOMAIN stage' = Processes /\ DOMAIN line' = Processes /\ DOMAIN ok' = Processes
        /\ line'[p] = said
    BY <1>4, <1>5, <1>7, <2>1
  <2>3. Remembered(next, ok'[p], p \in failed')
    <3>1. p \in failed => p \in failed'
      BY <2>1
    <3>2. check \in {"gateway", "rpc"} /\ check \notin ok'[p] => p \in failed'
      BY <1>7, <2>1
    <3> QED
      BY <1>2, <1>5, <1>7, <3>1, <3>2 DEF Remembered
  <2>4. ASSUME NEW q \in Processes, q # p
        PROVE  TrueLine(line'[q], q \in failed') /\ Remembered(stage'[q], ok'[q], q \in failed')
    <3>1. line'[q] = line[q] /\ stage'[q] = stage[q] /\ ok'[q] = ok[q]
          /\ (q \in failed' <=> q \in failed)
      BY <1>4, <1>5, <1>7, <2>1, <2>4
    <3>2. TrueLine(line[q], q \in failed) /\ Remembered(stage[q], ok[q], q \in failed)
      BY DEF DoctorInv
    <3> QED
      BY <3>1, <3>2 DEF TrueLine, Remembered
  <2> QED
    BY <1>6, <1>7, <2>2, <2>3, <2>4 DEF DoctorInv
<1>8. CASE Skipped(check, ok[p])
  <2> DEFINE said == [NoLine EXCEPT !.check = check, !.verdict = "skipped"]
  <2>1. Say(p, said) /\ ok' = ok
    BY <1>4, <1>8
  <2>2. said.verdict = "skipped" /\ ~said.refused
    BY DEF NoLine
  <2> HIDE DEF said
  <2>3. p \in failed /\ failed' = failed
    BY <1>2, <1>5, <1>8, <2>1, <2>2 DEF Say, Skipped, Remembered
  <2>4. TrueLine(said, p \in failed')
    BY <2>2, <2>3 DEF TrueLine
  <2>5. check \notin {"gateway", "rpc"}
    BY <1>8 DEF Skipped
  <2> QED
    BY <1>5, <1>7, <2>1, <2>4, <2>5
<1>9. CASE ~Skipped(check, ok[p])
  <2>1. PICK r \in Reply :
          /\ Say(p, [check   |-> check,
                     verdict |-> Verdict(check, r),
                     refused |-> ClientRefuses(check, r),
                     odd     |-> IsOdd(r)])
          /\ ok' = IF check \in {"gateway", "rpc"} /\ Verdict(check, r) # "FAIL"
                     THEN [ok EXCEPT ![p] = @ \union {check}] ELSE ok
    BY <1>4, <1>9, Zenon
  <2> DEFINE said == [check   |-> check,
                      verdict |-> Verdict(check, r),
                      refused |-> ClientRefuses(check, r),
                      odd     |-> IsOdd(r)]
  <2>2. /\ said.check = check /\ said.verdict = Verdict(check, r)
        /\ (said.refused <=> ClientRefuses(check, r))
        /\ (said.odd <=> IsOdd(r))
    OBVIOUS
  <2>3. Say(p, said)
    BY <2>1
  <2> HIDE DEF said
  <2>4. TrueLine(said, p \in failed')
    <3>1. said.verdict # "skipped"
      BY <1>3, <2>2, VerdictIsNoSkip
    <3>2. check \in {"models", "payment"} =>
            /\ said.verdict = "FAIL" => said.refused
            /\ said.refused /\ ~said.odd => said.verdict = "FAIL"
      BY <2>2, VerdictsAgree
    <3> QED
      BY <2>2, <3>1, <3>2 DEF TrueLine
  <2>5. /\ DOMAIN ok' = Processes /\ ok[p] \subseteq ok'[p]
        /\ \A q \in Processes \ {p} : ok'[q] = ok[q]
    BY <1>5, <2>1
  <2>6. check \in {"gateway", "rpc"} /\ check \notin ok'[p] => said.verdict = "FAIL"
    BY <1>5, <2>1, <2>2
  <2> QED
    BY <1>7, <2>3, <2>4, <2>5, <2>6
<1> QED
  BY <1>8, <1>9

\* A step of a process that leaves doctor's lines alone, and stays out of its stages.
LEMMA OtherStageHolds ==
  ASSUME DoctorInv, NEW p \in Processes, NEW to, to \notin CheckNames \ {"wallet"},
         stage' = [stage EXCEPT ![p] = to], UNCHANGED diagnosis
  PROVE  DoctorInv'
<1>1. CheckNames = {"wallet", "gateway", "models", "rpc", "balance", "payment"}
  BY DEF CheckNames, Checks
<1> QED
  BY <1>1 DEF DoctorInv, diagnosis, Remembered

\* The end of a process takes its lines with it.
LEMMA ExitHolds ==
  ASSUME DoctorInv, NEW p \in Processes, NEW code \in Exits, Exit(p, code)
  PROVE  DoctorInv'
<1>1. /\ stage' = [stage EXCEPT ![p] = code] /\ ok' = [ok EXCEPT ![p] = {}]
      /\ line' = [line EXCEPT ![p] = NoLine] /\ failed' = failed \ {p}
  BY DEF Exit
<1>2. TrueLine(NoLine, FALSE) /\ Remembered(code, {}, FALSE)
  BY DEF TrueLine, NoLine, Remembered, Exits
<1>3. ASSUME NEW q \in Processes
      PROVE  TrueLine(line'[q], q \in failed') /\ Remembered(stage'[q], ok'[q], q \in failed')
  <2>1. CASE q = p
    <3>1. line'[q] = NoLine /\ stage'[q] = code /\ ok'[q] = {} /\ q \notin failed'
      BY <1>1, <2>1 DEF DoctorInv
    <3> QED
      BY <1>2, <3>1 DEF TrueLine, Remembered
  <2>2. CASE q # p
    <3>1. line'[q] = line[q] /\ stage'[q] = stage[q] /\ ok'[q] = ok[q]
          /\ (q \in failed' <=> q \in failed)
      BY <1>1, <2>2 DEF DoctorInv
    <3> QED
      BY <3>1 DEF DoctorInv, TrueLine, Remembered
  <2> QED
    BY <2>1, <2>2
<1> QED
  BY <1>1, <1>3 DEF DoctorInv

\* What doctor remembers and has printed agree at every step of any command.
LEMMA DoctorInvariant ==
  Spec => []DoctorInv
<1>1. Init => DoctorInv
  BY DEF Init, DoctorInv, TrueLine, Remembered, NoLine
<1>2. DoctorInv /\ [Next]_vars => DoctorInv'
  <2> SUFFICES ASSUME DoctorInv, [Next]_vars PROVE DoctorInv'
    OBVIOUS
  <2>1. CASE UNCHANGED vars
    BY <2>1 DEF vars, process, diagnosis, DoctorInv
  <2>2. CheckNames \ {"wallet"} = {"gateway", "models", "rpc", "balance", "payment"}
    BY DEF CheckNames, Checks
  <2>3. "exit0" \in Exits /\ "exit1" \in Exits
    BY DEF Exits
  <2>4. ASSUME NEW p \in Processes, Die(p) PROVE DoctorInv'
    BY <2>3, <2>4, ExitHolds DEF Die
  <2>5. ASSUME NEW p \in Savers,
               Create(p) \/ Import(p) \/ ImportRefuses(p) \/ Saving(p) \/ SaveEnds(p)
                 \/ WalletError(p)
        PROVE  DoctorInv'
    <3>1. p \in Processes
      BY DEF Processes
    <3>2. CASE Create(p) \/ Import(p)
      <4>1. stage' = [stage EXCEPT ![p] = "wallet"] /\ UNCHANGED diagnosis
        BY <3>2 DEF Create, Import, Save, Advance
      <4> QED
        BY <2>2, <3>1, <4>1, OtherStageHolds
    <3>3. CASE Saving(p)
      BY <3>3 DEF Saving, process, diagnosis, DoctorInv
    <3>4. CASE ImportRefuses(p) \/ SaveEnds(p) \/ WalletError(p)
      BY <2>3, <3>1, <3>4, ExitHolds DEF ImportRefuses, SaveEnds, WalletError
    <3> QED
      BY <2>5, <3>2, <3>3, <3>4
  <2>6. ASSUME NEW p \in Loaders,
               BeginLoading(p) \/ Loading(p) \/ WalletError(p)
                 \/ PrintKey(p) \/ AskToExport(p) \/ Answered(p)
                 \/ NoHttpClient(p) \/ MakeClient(p) \/ Query(p) \/ Chat(p)
                 \/ Serve(p) \/ ServerError(p)
                 \/ DoctorWallet(p) \/ DoctorCheck(p) \/ DoctorEnds(p)
        PROVE  DoctorInv'
    <3>1. p \in Processes
      BY DEF Processes
    <3>2. CASE BeginLoading(p) \/ AskToExport(p) \/ MakeClient(p) \/ Serve(p)
      <4>1. PICK to \in {"wallet", "prompt", "client", "serving"} :
              stage' = [stage EXCEPT ![p] = to]
        BY <3>2 DEF BeginLoading, AskToExport, MakeClient, Serve, Advance
      <4>2. UNCHANGED diagnosis
        BY <3>2, Zenon DEF BeginLoading, AskToExport, MakeClient, Serve, diagnosis
      <4> QED
        BY <2>2, <3>1, <4>1, <4>2, OtherStageHolds
    <3>3. CASE Loading(p)
      BY <3>3 DEF Loading, process, diagnosis, DoctorInv
    <3>4. CASE WalletError(p) \/ PrintKey(p) \/ NoHttpClient(p) \/ ServerError(p) \/ DoctorEnds(p)
      BY <2>3, <3>1, <3>4, ExitHolds DEF WalletError, PrintKey, NoHttpClient, ServerError, DoctorEnds
    <3>5. CASE Answered(p) \/ Chat(p) \/ Query(p)
      <4>1. \E code \in Exits : Exit(p, code)
        BY <2>3, <3>5, Zenon DEF Answered, Chat, Query, Exits
      <4> QED
        BY <3>1, <4>1, ExitHolds
    <3>6. CASE DoctorWallet(p)
      <4> DEFINE said == [NoLine EXCEPT !.check = "wallet", !.verdict = Ok(HasKey(p))]
      <4>1. /\ stage' = [stage EXCEPT ![p] = "gateway"]
            /\ Say(p, said)
            /\ ok' = IF HasKey(p) THEN [ok EXCEPT ![p] = {"wallet"}] ELSE ok
        BY <3>6 DEF DoctorWallet, Advance
      <4>2. /\ said.check = "wallet"
            /\ said.verdict = IF HasKey(p) THEN "ok" ELSE "FAIL"
        BY DEF NoLine, Ok
      <4> HIDE DEF said
      <4>3. /\ line' = [line EXCEPT ![p] = said]
            /\ failed' = IF HasKey(p) THEN failed ELSE failed \union {p}
        BY <4>1, <4>2 DEF Say
      <4>4. TrueLine(said, p \in failed') /\ Remembered("gateway", ok'[p], p \in failed')
        BY <3>1, <4>1, <4>2, <4>3 DEF TrueLine, Remembered, DoctorInv
      <4>5. ASSUME NEW q \in Processes
            PROVE  TrueLine(line'[q], q \in failed') /\ Remembered(stage'[q], ok'[q], q \in failed')
        <5>1. CASE q = p
          BY <3>1, <4>1, <4>3, <4>4, <5>1 DEF DoctorInv
        <5>2. CASE q # p
          <6>1. line'[q] = line[q] /\ stage'[q] = stage[q] /\ ok'[q] = ok[q]
                /\ (q \in failed' <=> q \in failed)
            BY <4>1, <4>3, <5>2 DEF DoctorInv
          <6> QED
            BY <6>1 DEF DoctorInv, TrueLine, Remembered
        <5> QED
          BY <5>1, <5>2
      <4> QED
        BY <4>1, <4>3, <4>5 DEF DoctorInv
    <3>7. CASE DoctorCheck(p)
      BY <3>1, <3>7, DoctorCheckHolds
    <3> QED
      BY <2>6, <3>2, <3>3, <3>4, <3>5, <3>6, <3>7, Zenon
  <2> QED
    BY <2>1, <2>4, <2>5, <2>6, Zenon DEF Next
<1> QED
  BY <1>1, <1>2, PTL DEF Spec

\* Whatever the gateway answers, doctor's own reading of the models and of the probe
\* finds no failure where the client's call finds none, misses none but on an odd
\* success, and nothing is skipped without a FAIL.
THEOREM DoctorIsRight ==
  Spec => []ReportAgrees
<1>1. DoctorInv => ReportAgrees
  BY DEF DoctorInv, TrueLine, ReportAgrees
<1> QED
  BY <1>1, DoctorInvariant, PTL

-----------------------------------------------------------------------------
(* Types.                                                                  *)

\* What TypeOK says of a client, and of a line of doctor.
TypedClient(c) ==
  c # None => /\ DOMAIN c.config = DOMAIN Default
              /\ c.config.max_payment_amount \in 0 .. U64Max

Stages == Exits \union CheckNames \union {"idle", "prompt", "client", "serving", "reported"}

Lines ==
  [check : CheckNames \union {"none"}, refused : BOOLEAN, odd : BOOLEAN,
   verdict : {"none", "ok", "WARN", "FAIL", "skipped"}]

\* TypeOK of what a process has but for the wallet file.
ProcessTypeOK ==
  /\ stage   \in [Processes -> Stages]
  /\ command \in [Processes -> ClientCommands \union {None}]
  /\ DOMAIN asked = Processes /\ \A p \in Processes : asked[p] \in Asked(command[p])
  /\ DOMAIN client = Processes /\ \A p \in Processes : TypedClient(client[p])
  /\ ok      \in [Processes -> SUBSET {"wallet", "gateway", "rpc"}]
  /\ line    \in [Processes -> Lines]
  /\ failed  \subseteq Loaders

\* The stages that the actions name are stages.
LEMMA StagesAre ==
  /\ CheckNames = {"wallet", "gateway", "models", "rpc", "balance", "payment"}
  /\ {"idle", "wallet", "gateway", "prompt", "client", "serving", "exit0", "exit1"}
       \subseteq Stages
  BY DEF CheckNames, Checks, Stages, Exits

\* Who asks for nothing asks for something every command can be asked.
LEMMA NothingIsAsked ==
  ASSUME NEW cmd PROVE NothingAsked \in Asked(cmd)
  BY DEF NothingAsked, Asked

\* The line of a process that has printed nothing.
LEMMA EmptyLineIsTyped ==
  NoLine \in Lines
  BY DEF NoLine, Lines

\* A configuration of a command has the fields of the default and a u64 for a cap.
LEMMA ConfigsAreTyped ==
  ASSUME NEW cmd \in ClientCommands, NEW args \in Asked(cmd),
         NEW config \in Configs(cmd, args)
  PROVE  /\ DOMAIN config = DOMAIN Default
         /\ config.max_payment_amount \in 0 .. U64Max
<1> USE ClientConfigAssumption, CommandsAssumption
<1>1. CASE cmd = "proxy"
  <2>1. args.cap \in ProxyCaps \union {Unset} /\ ProxyCaps \subseteq Int \union {NaN}
    BY <1>1 DEF Asked
  <2>2. PICK m \in AtomicCaps(args.cap) : config = ProxyConfig(m, args.recipient)
    BY <1>1 DEF Configs
  <2>3. DOMAIN config = DOMAIN Default /\ config.max_payment_amount = m
    BY <2>2 DEF ProxyConfig, Default
  <2>4. m \in 0 .. U64Max
    <3>1. CASE args.cap = Unset
      BY <3>1 DEF AtomicCaps, Default
    <3>2. CASE args.cap = NaN
      BY <3>2 DEF AtomicCaps, Products, Rounded
    <3>3. CASE args.cap \in Int
      <4>1. PICK product \in Int : m = Rounded(product)
        BY <3>3 DEF AtomicCaps, Products
      <4> QED
        BY <4>1, RoundedIs
    <3> QED
      BY <2>1, <3>1, <3>2, <3>3
  <2> QED
    BY <2>3, <2>4
<1>2. CASE cmd # "proxy"
  <2>1. PICK builder : /\ config = BuildConfig(builder)
                       /\ \/ builder.max_payment_amount = Unset
                          \/ builder.max_payment_amount \in 0 .. U64Max
    <3>1. CASE cmd = "chat"
      <4>1. "max_payment_amount" \in DOMAIN Endpoints
        BY EndpointsAre DEF Default
      <4>2. With(Endpoints, "max_payment_amount", args.cap).max_payment_amount = args.cap
        BY <4>1 DEF With
      <4>3. args.cap \in 0 .. U64Max \union {Unset}
        BY <3>1 DEF Asked
      <4> QED
        BY <3>1, <4>2, <4>3 DEF Configs, ChatConfig
    <3>2. CASE cmd = "balance"
      BY <3>2, EndpointsAre DEF Configs
    <3>3. CASE cmd = "models"
      <4>1. "max_payment_amount" \in DOMAIN Default
        BY DEF Default
      <4>2. With(Builder, "gateway_url", Trimmed(Gateway)).max_payment_amount = Unset
        BY <4>1 DEF With, Builder
      <4> QED
        BY <3>3, <4>2 DEF Configs
    <3> QED
      BY <1>2, <3>1, <3>2, <3>3 DEF ClientCommands
  <2>2. DOMAIN config = DOMAIN Default
    BY <2>1 DEF BuildConfig
  <2> QED
    BY <2>1, <2>2, BuiltConfig
<1> QED
  BY <1>1, <1>2

\* The end of a process.
LEMMA ExitIsTyped ==
  ASSUME ProcessTypeOK, NEW p \in Processes, NEW code \in Exits, Exit(p, code)
  PROVE  ProcessTypeOK'
<1>1. code \in Stages
  BY DEF Stages
<1>2. NothingAsked \in Asked(None) /\ NoLine \in Lines
  BY NothingIsAsked, EmptyLineIsTyped
<1>3. ASSUME NEW q \in Processes
      PROVE  asked'[q] \in Asked(command'[q]) /\ TypedClient(client'[q])
  <2>1. CASE q = p
    <3>1. asked'[q] = NothingAsked /\ command'[q] = None /\ client'[q] = None
      BY <2>1 DEF Exit, ProcessTypeOK
    <3> QED
      BY <1>2, <3>1 DEF TypedClient
  <2>2. CASE q # p
    <3>1. asked'[q] = asked[q] /\ command'[q] = command[q] /\ client'[q] = client[q]
      BY <2>2 DEF Exit, ProcessTypeOK
    <3> QED
      BY <3>1 DEF ProcessTypeOK
  <2> QED
    BY <2>1, <2>2
<1>4. DOMAIN asked' = Processes /\ DOMAIN client' = Processes
  BY DEF Exit, ProcessTypeOK
<1>5. stage' \in [Processes -> Stages]
  BY <1>1 DEF Exit, ProcessTypeOK
<1>6. command' \in [Processes -> ClientCommands \union {None}]
  BY DEF Exit, ProcessTypeOK
<1>7. ok' \in [Processes -> SUBSET {"wallet", "gateway", "rpc"}] /\ failed' \subseteq Loaders
  BY DEF Exit, ProcessTypeOK
<1>8. line' \in [Processes -> Lines]
  BY <1>2 DEF Exit, ProcessTypeOK
<1> QED
  BY <1>3, <1>4, <1>5, <1>6, <1>7, <1>8 DEF ProcessTypeOK

\* A step to another stage, with the client as it was.
LEMMA StageIsTyped ==
  ASSUME ProcessTypeOK, NEW p \in Processes, NEW to \in Stages,
         stage' = [stage EXCEPT ![p] = to], UNCHANGED <<command, asked, client, diagnosis>>
  PROVE  ProcessTypeOK'
  BY DEF ProcessTypeOK, diagnosis

\* A client is built from a configuration of its command.
LEMMA MakeClientIsTyped ==
  ASSUME ProcessTypeOK, NEW p \in Processes, MakeClient(p)
  PROVE  ProcessTypeOK'
<1>1. PICK cmd \in ClientCommands : \E args \in Asked(cmd) : \E config \in Configs(cmd, args) :
        /\ stage' = [stage EXCEPT ![p] = "client"]
        /\ command' = [command EXCEPT ![p] = cmd]
        /\ asked' = [asked EXCEPT ![p] = args]
        /\ client' = [client EXCEPT ![p] = NewClient(config)]
        /\ UNCHANGED diagnosis
  BY Zenon DEF MakeClient
<1>2. PICK args \in Asked(cmd) : \E config \in Configs(cmd, args) :
        /\ stage' = [stage EXCEPT ![p] = "client"]
        /\ command' = [command EXCEPT ![p] = cmd]
        /\ asked' = [asked EXCEPT ![p] = args]
        /\ client' = [client EXCEPT ![p] = NewClient(config)]
        /\ UNCHANGED diagnosis
  BY <1>1, Zenon
<1>3. PICK config \in Configs(cmd, args) :
        /\ stage' = [stage EXCEPT ![p] = "client"]
        /\ command' = [command EXCEPT ![p] = cmd]
        /\ asked' = [asked EXCEPT ![p] = args]
        /\ client' = [client EXCEPT ![p] = NewClient(config)]
        /\ UNCHANGED diagnosis
  BY <1>2, Zenon
<1>4. DOMAIN config = DOMAIN Default /\ config.max_payment_amount \in 0 .. U64Max
  BY ConfigsAreTyped
<1>5. TypedClient(NewClient(config))
  <2>1. NewClient(config).config = config
    BY DEF NewClient
  <2> QED
    BY <1>4, <2>1 DEF TypedClient
<1>6. ASSUME NEW q \in Processes
      PROVE  asked'[q] \in Asked(command'[q]) /\ TypedClient(client'[q])
  <2>1. CASE q = p
    <3>1. asked'[q] = args /\ command'[q] = cmd /\ client'[q] = NewClient(config)
      BY <1>3, <2>1 DEF ProcessTypeOK
    <3> QED
      BY <1>5, <3>1
  <2>2. CASE q # p
    <3>1. asked'[q] = asked[q] /\ command'[q] = command[q] /\ client'[q] = client[q]
      BY <1>3, <2>2 DEF ProcessTypeOK
    <3> QED
      BY <3>1 DEF ProcessTypeOK
  <2> QED
    BY <2>1, <2>2
<1>7. DOMAIN asked' = Processes /\ DOMAIN client' = Processes
  BY <1>3 DEF ProcessTypeOK
<1>8. stage' \in [Processes -> Stages]
      /\ command' \in [Processes -> ClientCommands \union {None}]
  BY <1>3, StagesAre DEF ProcessTypeOK
<1>9. ok' \in [Processes -> SUBSET {"wallet", "gateway", "rpc"}]
      /\ line' \in [Processes -> Lines] /\ failed' \subseteq Loaders
  BY <1>3 DEF ProcessTypeOK, diagnosis
<1> QED
  BY <1>6, <1>7, <1>8, <1>9 DEF ProcessTypeOK

\* A line is printed, and what is well may grow.
LEMMA LineIsTyped ==
  ASSUME ProcessTypeOK, NEW p \in Loaders, NEW to \in Stages, NEW said \in Lines,
         NEW well \in SUBSET {"wallet", "gateway", "rpc"},
         stage' = [stage EXCEPT ![p] = to], Say(p, said),
         ok' = [ok EXCEPT ![p] = well], UNCHANGED <<command, asked, client>>
  PROVE  ProcessTypeOK'
<1>1. stage' \in [Processes -> Stages] /\ line' \in [Processes -> Lines]
      /\ ok' \in [Processes -> SUBSET {"wallet", "gateway", "rpc"}]
  BY DEF ProcessTypeOK, Say
<1>2. failed' \subseteq Loaders
  BY DEF ProcessTypeOK, Say
<1> QED
  BY <1>1, <1>2 DEF ProcessTypeOK

\* The first check of doctor, which finds a key or none.
LEMMA DoctorWalletIsTyped ==
  ASSUME ProcessTypeOK, NEW p \in Loaders, DoctorWallet(p)
  PROVE  ProcessTypeOK'
<1> DEFINE said == [NoLine EXCEPT !.check = "wallet", !.verdict = Ok(HasKey(p))]
           well == IF HasKey(p) THEN {"wallet"} ELSE ok[p]
<1>1. said \in Lines
  BY StagesAre DEF NoLine, Ok, Lines
<1>2. ok \in [Processes -> SUBSET {"wallet", "gateway", "rpc"}] /\ p \in Processes
  BY DEF ProcessTypeOK, Processes
<1>3. well \in SUBSET {"wallet", "gateway", "rpc"}
  BY <1>2
<1>4. /\ stage' = [stage EXCEPT ![p] = "gateway"] /\ Say(p, said)
      /\ UNCHANGED <<command, asked, client>>
  BY DEF DoctorWallet, Advance
<1>5. ok' = [ok EXCEPT ![p] = well]
  BY <1>2 DEF DoctorWallet
<1> HIDE DEF said, well
<1> QED
  BY <1>1, <1>3, <1>4, <1>5, StagesAre, LineIsTyped

\* Every reply makes a line.
LEMMA VerdictIsTyped ==
  ASSUME NEW r \in Reply, NEW check \in CheckNames \ {"wallet"}
  PROVE  [check |-> check, verdict |-> Verdict(check, r),
          refused |-> ClientRefuses(check, r),
          odd |-> IsOdd(r)] \in Lines
<1>1. check \in {"gateway", "models", "rpc", "balance", "payment"}
  BY StagesAre
<1>2. Verdict(check, r) \in {"ok", "WARN", "FAIL"}
  BY <1>1 DEF Verdict, GatewayVerdict, ModelsVerdict, RpcVerdict, BalanceVerdict,
              PaymentVerdict, Ok
<1>3. ClientRefuses(check, r) \in BOOLEAN
  BY DEF ClientRefuses
<1>4. IsOdd(r) \in BOOLEAN
  BY DEF IsOdd
<1> QED
  BY <1>2, <1>3, <1>4 DEF Lines

\* The later checks of doctor, which may be skipped.
LEMMA DoctorCheckIsTyped ==
  ASSUME ProcessTypeOK, NEW p \in Loaders, DoctorCheck(p)
  PROVE  ProcessTypeOK'
<1>1. PICK i \in 2 .. Len(Checks) :
        LET check == Checks[i]
            next  == IF i = Len(Checks) THEN "reported" ELSE Checks[i + 1]
        IN  /\ Advance(p, check, next)
            /\ IF Skipped(check, ok[p])
                 THEN /\ Say(p, [NoLine EXCEPT !.check = check, !.verdict = "skipped"])
                      /\ UNCHANGED ok
                 ELSE \E r \in Reply :
                   /\ Say(p, [check   |-> check,
                              verdict |-> Verdict(check, r),
                              refused |-> ClientRefuses(check, r),
                              odd     |-> IsOdd(r)])
                   /\ ok' = IF check \in {"gateway", "rpc"} /\ Verdict(check, r) # "FAIL"
                              THEN [ok EXCEPT ![p] = @ \union {check}] ELSE ok
            /\ UNCHANGED <<fileVars, command, asked, client>>
  BY Zenon DEF DoctorCheck
<1> DEFINE check == Checks[i]
           next  == IF i = Len(Checks) THEN "reported" ELSE Checks[i + 1]
<1>2. check \in CheckNames \ {"wallet"} /\ next \in Stages
  BY DEF CheckNames, Checks, Stages
<1>3. stage' = [stage EXCEPT ![p] = next] /\ UNCHANGED <<command, asked, client>>
  BY <1>1, Zenon DEF Advance
<1>4. IF Skipped(check, ok[p])
        THEN /\ Say(p, [NoLine EXCEPT !.check = check, !.verdict = "skipped"])
             /\ UNCHANGED ok
        ELSE \E r \in Reply :
          /\ Say(p, [check   |-> check,
                     verdict |-> Verdict(check, r),
                     refused |-> ClientRefuses(check, r),
                     odd     |-> IsOdd(r)])
          /\ ok' = IF check \in {"gateway", "rpc"} /\ Verdict(check, r) # "FAIL"
                     THEN [ok EXCEPT ![p] = @ \union {check}] ELSE ok
  BY <1>1, Zenon
<1> HIDE DEF check, next
<1>5. ok \in [Processes -> SUBSET {"wallet", "gateway", "rpc"}] /\ p \in Processes
  BY DEF ProcessTypeOK, Processes
<1>6. ok = [ok EXCEPT ![p] = ok[p]] /\ ok[p] \in SUBSET {"wallet", "gateway", "rpc"}
  BY <1>5
<1>7. CASE Skipped(check, ok[p])
  <2> DEFINE said == [NoLine EXCEPT !.check = check, !.verdict = "skipped"]
  <2>1. said \in Lines
    BY <1>2 DEF NoLine, Lines
  <2>2. Say(p, said) /\ ok' = [ok EXCEPT ![p] = ok[p]]
    BY <1>4, <1>6, <1>7
  <2> HIDE DEF said
  <2> QED
    BY <1>2, <1>3, <1>6, <2>1, <2>2, LineIsTyped
<1>8. CASE ~Skipped(check, ok[p])
  <2>1. PICK r \in Reply :
          /\ Say(p, [check   |-> check,
                     verdict |-> Verdict(check, r),
                     refused |-> ClientRefuses(check, r),
                     odd     |-> IsOdd(r)])
          /\ ok' = IF check \in {"gateway", "rpc"} /\ Verdict(check, r) # "FAIL"
                     THEN [ok EXCEPT ![p] = @ \union {check}] ELSE ok
    BY <1>4, <1>8, Zenon
  <2> DEFINE said == [check   |-> check,
                      verdict |-> Verdict(check, r),
                      refused |-> ClientRefuses(check, r),
                      odd     |-> IsOdd(r)]
  <2>2. said \in Lines
    BY <1>2, VerdictIsTyped
  <2>3. PICK well \in SUBSET {"wallet", "gateway", "rpc"} : ok' = [ok EXCEPT ![p] = well]
    <3>1. CASE check \in {"gateway", "rpc"} /\ Verdict(check, r) # "FAIL"
      <4>1. ok' = [ok EXCEPT ![p] = ok[p] \union {check}]
        BY <1>5, <2>1, <3>1
      <4>2. ok[p] \union {check} \in SUBSET {"wallet", "gateway", "rpc"}
        BY <1>6, <3>1
      <4> QED
        BY <4>1, <4>2
    <3>2. CASE ~(check \in {"gateway", "rpc"} /\ Verdict(check, r) # "FAIL")
      BY <1>6, <2>1, <3>2
    <3> QED
      BY <3>1, <3>2
  <2>4. Say(p, said)
    BY <2>1
  <2> HIDE DEF said
  <2> QED
    BY <1>2, <1>3, <2>2, <2>3, <2>4, LineIsTyped
<1> QED
  BY <1>7, <1>8

\* Every step of every command keeps the types.
LEMMA ProcessTypes ==
  Spec => []ProcessTypeOK
<1>1. Init => ProcessTypeOK
  BY StagesAre, NothingIsAsked, EmptyLineIsTyped DEF Init, ProcessTypeOK, TypedClient
<1>2. ProcessTypeOK /\ [Next]_vars => ProcessTypeOK'
  <2> SUFFICES ASSUME ProcessTypeOK, [Next]_vars PROVE ProcessTypeOK'
    OBVIOUS
  <2>1. ASSUME UNCHANGED process PROVE ProcessTypeOK'
    BY <2>1 DEF process, diagnosis, ProcessTypeOK
  <2>2. "exit0" \in Exits /\ "exit1" \in Exits
    BY DEF Exits
  <2>3. ASSUME NEW p \in Processes, Die(p) PROVE ProcessTypeOK'
    BY <2>2, <2>3, ExitIsTyped DEF Die
  <2>4. ASSUME NEW p \in Savers,
               Create(p) \/ Import(p) \/ ImportRefuses(p) \/ Saving(p) \/ SaveEnds(p)
                 \/ WalletError(p)
        PROVE  ProcessTypeOK'
    <3>1. p \in Processes
      BY DEF Processes
    <3>2. CASE Create(p) \/ Import(p)
      <4>1. /\ stage' = [stage EXCEPT ![p] = "wallet"]
            /\ UNCHANGED <<command, asked, client, diagnosis>>
        BY <3>2 DEF Create, Import, Save, Advance
      <4> QED
        BY <3>1, <4>1, StagesAre, StageIsTyped
    <3>3. CASE Saving(p)
      BY <2>1, <3>3 DEF Saving
    <3>4. CASE ImportRefuses(p) \/ SaveEnds(p) \/ WalletError(p)
      BY <2>2, <3>1, <3>4, ExitIsTyped DEF ImportRefuses, SaveEnds, WalletError
    <3> QED
      BY <2>4, <3>2, <3>3, <3>4
  <2>5. ASSUME NEW p \in Loaders,
               BeginLoading(p) \/ Loading(p) \/ WalletError(p)
                 \/ PrintKey(p) \/ AskToExport(p) \/ Answered(p)
                 \/ NoHttpClient(p) \/ MakeClient(p) \/ Query(p) \/ Chat(p)
                 \/ Serve(p) \/ ServerError(p)
                 \/ DoctorWallet(p) \/ DoctorCheck(p) \/ DoctorEnds(p)
        PROVE  ProcessTypeOK'
    <3>1. p \in Processes
      BY DEF Processes
    <3>2. CASE BeginLoading(p) \/ AskToExport(p) \/ Serve(p)
      <4>1. PICK to \in {"wallet", "prompt", "serving"} :
              stage' = [stage EXCEPT ![p] = to]
        BY <3>2 DEF BeginLoading, AskToExport, Serve, Advance
      <4>2. UNCHANGED <<command, asked, client, diagnosis>>
        BY <3>2, Zenon DEF BeginLoading, AskToExport, Serve
      <4> QED
        BY <3>1, <4>1, <4>2, StagesAre, StageIsTyped
    <3>3. CASE Loading(p)
      BY <2>1, <3>3 DEF Loading
    <3>4. CASE WalletError(p) \/ PrintKey(p) \/ NoHttpClient(p) \/ ServerError(p) \/ DoctorEnds(p)
      BY <2>2, <3>1, <3>4, ExitIsTyped DEF WalletError, PrintKey, NoHttpClient, ServerError, DoctorEnds
    <3>5. CASE Answered(p) \/ Chat(p) \/ Query(p)
      <4>1. \E code \in Exits : Exit(p, code)
        BY <2>2, <3>5, Zenon DEF Answered, Chat, Query, Exits
      <4> QED
        BY <3>1, <4>1, ExitIsTyped
    <3>6. CASE MakeClient(p)
      BY <3>1, <3>6, MakeClientIsTyped
    <3>7. CASE DoctorWallet(p)
      BY <3>7, DoctorWalletIsTyped
    <3>8. CASE DoctorCheck(p)
      BY <3>8, DoctorCheckIsTyped
    <3> QED
      BY <2>5, <3>2, <3>3, <3>4, <3>5, <3>6, <3>7, <3>8, Zenon
  <2> QED
    BY <2>1, <2>3, <2>4, <2>5, Zenon DEF Next, vars
<1> QED
  BY <1>1, <1>2, PTL DEF Spec

\* Type correctness of every command: the offsets and parts of the wallet file, the
\* stages of the processes, and clients whose cap is a u64.
THEOREM TypeCorrect ==
  Spec => []TypeOK
<1>1. FileInv /\ ProcessTypeOK => TypeOK
  BY DEF FileInv, ProcessTypeOK, TypeOK, Stages, Lines, TypedClient
<1> QED
  BY <1>1, FileInvariant, ProcessTypes, PTL
=============================================================================
