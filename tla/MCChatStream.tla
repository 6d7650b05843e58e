---------------------------- MODULE MCChatStream ----------------------------
(***************************************************************************)
(* Instances of ChatStream for TLC.                                        *)
(***************************************************************************)
EXTENDS ChatStream, TLC

CONSTANTS gateway, stranger   \* two wallet addresses

MCRecipients == {gateway, stranger}

Exact(to, amount) == [scheme |-> "exact", network |-> "solana", asset |-> "usdc",
                      payTo |-> to, amount |-> amount]

\* A list to be paid, and one that is refused.
MCOffers ==
  { <<[Exact(gateway, 3) EXCEPT !.scheme = "escrow"], Exact(gateway, 2)>>,
    <<Exact(stranger, 1)>> }

Interchangeable == Permutations(Calls)
=============================================================================
