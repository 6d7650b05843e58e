------------------------------ MODULE MCProxy -------------------------------
(***************************************************************************)
(* An instance of Proxy for TLC.                                           *)
(***************************************************************************)
EXTENDS Proxy, TLC

CONSTANTS gateway, stranger   \* two wallet addresses

MCRecipients == {gateway, stranger}

Exact(to, amount) == [scheme |-> "exact", network |-> "solana", asset |-> "usdc",
                      payTo |-> to, amount |-> amount]

\* One answer per validation that can fail, and a list whose first entry cannot
\* be signed for.
MCOffers ==
  { <<[Exact(gateway, 3) EXCEPT !.scheme = "escrow"], Exact(gateway, 2)>>,
    <<[Exact(gateway, 1) EXCEPT !.asset = "other"]>>,
    <<Exact(stranger, 1)>>,
    <<Exact(gateway, None)>>,
    <<Exact(gateway, 4)>> }
=============================================================================
