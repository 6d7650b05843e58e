-------------------------- MODULE MCResponseCache ---------------------------
(***************************************************************************)
(* Instances of ResponseCache for TLC.                                     *)
(***************************************************************************)
EXTENDS ResponseCache, TLC

\* Keys and responses are never compared but for equality.
Interchangeable == Permutations(Keys) \union Permutations(Responses)
=============================================================================
