----------------------------- MODULE MCCommands -----------------------------
(***************************************************************************)
(* An instance of Commands for TLC.                                        *)
(***************************************************************************)
EXTENDS Commands, TLC

CONSTANTS old, short, brief   \* keys; the text of the old one is longer

MCKeys == {old, short, brief}
MCTextLen == (old :> 2) @@ (short :> 1) @@ (brief :> 1)

MCGateway == [host |-> "gateway", slashes |-> 2]

\* Caps in tenths of an atomic unit: none, too much for a u64, whole, between two
\* numbers, and no number at all.
MCProxyCaps == {-7, 20, 25, 120, NaN}

Interchangeable == Permutations(Savers)
=============================================================================
