----------------------------- MODULE WalletFile -----------------------------
(***************************************************************************)
(* save_wallet and load_wallet, called by processes that run at the same   *)
(* time and may crash between any two system calls.  The text of a key is  *)
(* a sequence of cells, each a part that one write or read may end after;  *)
(* texts differ in length, because bytes are written in decimal.  The      *)
(* module that extends this one says which process calls what, and when.   *)
(***************************************************************************)
EXTENDS Integers, Sequences, FiniteSetsExt

CONSTANTS
  None,
  Savers, Loaders,   \* processes
  Keys,
  TextLen,           \* the length of a key's text, in cells
  OldKey             \* the key of the file that may be there at the start

\* A cell nobody wrote, left where a write begins beyond the end of the file.
Hole == <<None, 0>>

Cell == {Hole} \union UNION {{k} \X (1 .. TextLen[k]) : k \in Keys}

ASSUME WalletFileAssumption ==
  /\ TextLen \in [Keys -> Nat \ {0}]
  /\ OldKey \in Keys
  /\ None \notin Keys \union Seq(Cell)
  /\ Savers \intersect Loaders = {}

VARIABLES
  file,       \* the wallet file: its text, or None
  original,   \* history: the file at the start
  pc,         \* where each process is
  key,        \* the key a saver was given; the result of a loader
  force,      \* the savers that were given force
  offset,     \* cells written by a saver
  read,       \* cells read by a loader
  contested,  \* history: savers that did not have the file to themselves
  after       \* history: the savers that had returned when a loader began

saving   == <<force, offset, contested>>
loading  == <<read, after>>
fileVars == <<file, original, pc, key, saving, loading>>

Processes == Savers \union Loaders

\* The key in JSON, an array of its bytes.
Text(k) == [i \in 1 .. TextLen[k] |-> <<k, i>>]

\* Only the whole text of one key parses as a keypair whose halves match.
Parsed(text) == {k \in Keys : text = Text(k)}

FileInit ==
  /\ file \in {None, Text(OldKey)}
  /\ original  = file
  /\ pc        = [p \in Processes |-> "idle"]
  /\ key       = [p \in Processes |-> None]
  /\ force     = {}
  /\ offset    = [p \in Savers |-> 0]
  /\ read      = [p \in Loaders |-> <<>>]
  /\ contested = {}
  /\ after     = [p \in Loaders |-> {}]

Goto(p, from, to) == pc[p] = from /\ pc' = [pc EXCEPT ![p] = to]

-----------------------------------------------------------------------------
(* save_wallet.                                                            *)

\* Mutant: the file is not looked for.
CheckNothing(p, k, f) ==
  /\ Goto(p, "idle", "checked")
  /\ key' = [key EXCEPT ![p] = k]
  /\ force' = force \union f
  /\ UNCHANGED <<file, original, offset, contested, loading>>

\* A call with key k begins: unless force is given, f = {p}, no file may exist.
Check(p, k, f) ==
  /\ Goto(p, "idle", IF file # None /\ f = {} THEN "refused" ELSE "checked")
  /\ key' = [key EXCEPT ![p] = k]
  /\ force' = force \union f
  /\ UNCHANGED <<file, original, offset, contested, loading>>

\* The directory cannot be made, or the file cannot be opened.
SaveFails(p) ==
  /\ Goto(p, "checked", "failed")
  /\ UNCHANGED <<file, original, key, saving, loading>>

\* The savers that p meets or replaces when it opens the file, itself included
\* if another one is still writing.
Met(p) ==
  {q \in Savers \ {p} : pc[q] \in {"writing", "saved"}}
    \union {q \in {p} : \E w \in Savers : pc[w] = "writing"}

\* Mutant: the file is opened without truncating it.
OpenKeepingText(p) ==
  /\ Goto(p, "checked", "writing")
  /\ file' = IF file = None THEN <<>> ELSE file
  /\ contested' = contested \union Met(p)
  /\ UNCHANGED <<original, key, force, offset, loading>>

\* The file is created, or truncated, in one system call.
Open(p) ==
  /\ Goto(p, "checked", "writing")
  /\ file' = <<>>
  /\ contested' = contested \union Met(p)
  /\ UNCHANGED <<original, key, force, offset, loading>>

\* The text after p wrote it from its offset up to cell n.
Written(p, n) ==
  [i \in 1 .. Max({Len(file), n}) |->
     IF i \in offset[p] + 1 .. n THEN <<key[p], i>>
     ELSE IF i \in DOMAIN file THEN file[i] ELSE Hole]

\* Mutant: the end of the written part is added, not its length.
WriteAddingEnd(p) ==
  pc[p] = "writing" /\ \E n \in offset[p] + 1 .. TextLen[key[p]] :
    /\ Goto(p, "writing", IF n = TextLen[key[p]] THEN "saved" ELSE "writing")
    /\ file' = Written(p, n)
    /\ offset' = [offset EXCEPT ![p] = @ + n]
    /\ UNCHANGED <<original, key, force, contested, loading>>

\* One write of write_all, which repeats it until all is written.
Write(p) ==
  pc[p] = "writing" /\ \E n \in offset[p] + 1 .. TextLen[key[p]] :
    /\ Goto(p, "writing", IF n = TextLen[key[p]] THEN "saved" ELSE "writing")
    /\ file' = Written(p, n)
    /\ offset' = [offset EXCEPT ![p] = n]
    /\ UNCHANGED <<original, key, force, contested, loading>>

\* The disk is full.
WriteFails(p) ==
  /\ Goto(p, "writing", "failed")
  /\ UNCHANGED <<file, original, key, saving, loading>>

\* The process dies while it saves.
SaverDies(p) ==
  /\ pc' = [pc EXCEPT ![p] = IF @ \in {"checked", "writing"} THEN "failed" ELSE @]
  /\ UNCHANGED <<file, original, key, saving, loading>>

-----------------------------------------------------------------------------
(* load_wallet.                                                            *)

\* The environment variable is set, to a key or not: the file is not looked at.
LoadFromEnv(p) ==
  /\ \E result \in {"invalid_env", "from_env"} : Goto(p, "idle", result)
  /\ UNCHANGED <<file, original, key, saving, loading>>

\* It is not set, or empty: the file is opened, if there is one.
BeginLoad(p) ==
  /\ Goto(p, "idle", IF file = None THEN "no_wallet" ELSE "reading")
  /\ after' = [after EXCEPT ![p] = {q \in Savers : pc[q] = "saved"}]
  /\ UNCHANGED <<file, original, key, saving, read>>

\* One read of read_to_string, which repeats it until the end of the file.
Read(p) ==
  /\ pc[p] = "reading"
  /\ \E n \in Len(read[p]) + 1 .. Len(file) :
       read' = [read EXCEPT ![p] = @ \o SubSeq(file, Len(@) + 1, n)]
  /\ UNCHANGED <<file, original, pc, key, saving, after>>

\* The file cannot be opened or read.
ReadFails(p) ==
  /\ Goto(p, "reading", "unreadable")
  /\ UNCHANGED <<file, original, key, saving, loading>>

\* Mutant: one read is taken for the whole file.
ParseAtOnce(p) ==
  /\ pc[p] = "reading" /\ (read[p] # <<>> \/ file = <<>>)
  /\ Goto(p, "reading", IF Parsed(read[p]) = {} THEN "invalid" ELSE "loaded")
  /\ key' = [key EXCEPT ![p] =
       IF Parsed(read[p]) = {} THEN None ELSE CHOOSE k \in Parsed(read[p]) : TRUE]
  /\ UNCHANGED <<file, original, saving, loading>>

\* The end of the file: what was read is parsed.
Parse(p) ==
  /\ pc[p] = "reading" /\ Len(read[p]) >= Len(file)
  /\ Goto(p, "reading", IF Parsed(read[p]) = {} THEN "invalid" ELSE "loaded")
  /\ key' = [key EXCEPT ![p] =
       IF Parsed(read[p]) = {} THEN None ELSE CHOOSE k \in Parsed(read[p]) : TRUE]
  /\ UNCHANGED <<file, original, saving, loading>>

-----------------------------------------------------------------------------
SaveStep(p) == SaveFails(p) \/ Open(p) \/ Write(p) \/ WriteFails(p)
LoadCall(p) == LoadFromEnv(p) \/ BeginLoad(p)
LoadStep(p) == Read(p) \/ ReadFails(p) \/ Parse(p)

-----------------------------------------------------------------------------
(* Properties.                                                             *)

\* Types; the offset of a saver never passes its text.
FileTypeOK ==
  /\ file \in Seq(Cell) \union {None}
  /\ original \in {None, Text(OldKey)}
  /\ pc \in [Processes -> {"idle", "refused", "checked", "writing", "saved", "failed",
                           "no_wallet", "reading", "unreadable", "invalid", "loaded",
                           "invalid_env", "from_env"}]
  /\ key \in [Processes -> Keys \union {None}]
  /\ force \subseteq Savers
  /\ offset \in [Savers -> Nat]
  /\ \A p \in Savers : offset[p] <= (IF key[p] = None THEN 0 ELSE TextLen[key[p]])
  /\ read \in [Loaders -> Seq(Cell)]
  /\ contested \subseteq Savers
  /\ after \in [Loaders -> SUBSET Savers]

\* After a save that had the file to itself, the file holds that key, whatever
\* longer text or half-written rest was there before.
SavedIsLoadable ==
  \A p \in Savers : pc[p] = "saved" /\ p \notin contested => file = Text(key[p])

\* A wallet that was there at the start survives every call without force: a
\* crash, a race or a failure can only cost a key that force gave up.
OldKeyNeedsForce ==
  original # None /\ (\A p \in force : pc[p] \in {"checked", "idle"})
    => file = original

\* A load that begins after a save, with no other save since, finds its key.
LoadFindsSavedKey ==
  \A l \in Loaders : \A p \in after[l] \ contested :
    pc[l] \in {"loaded", "invalid", "no_wallet"} =>
      pc[l] = "loaded" /\ key[l] = key[p]
=============================================================================
