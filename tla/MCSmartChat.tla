---------------------------- MODULE MCSmartChat -----------------------------
(***************************************************************************)
(* Instances of SmartChat for TLC.                                         *)
(***************************************************************************)
EXTENDS SmartChat, TLC

Interchangeable == Permutations(Calls) \union Permutations(Messages)
=============================================================================
