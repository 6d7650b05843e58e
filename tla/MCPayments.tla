----------------------------- MODULE MCPayments -----------------------------
(***************************************************************************)
(* Instances of Payments for TLC.                                          *)
(***************************************************************************)
EXTENDS Payments, TLC

CONSTANTS
  gateway, stranger,                \* two wallet addresses
  space, wordI, wordCannot, wordA, cut, full    \* tokens

MCRecipients == {gateway, stranger}

Exact(to, amount) == [scheme |-> "exact", network |-> "solana", asset |-> "usdc",
                      payTo |-> to, amount |-> amount]

\* One answer per validation that can fail, a list whose first entry cannot be
\* signed for, and amounts that pass or break a cap of 3 alone or together.
MCOffers ==
  { <<Exact(gateway, 3)>>,
    <<[Exact(gateway, 3) EXCEPT !.scheme = "escrow"], Exact(gateway, 1)>>,
    <<[Exact(gateway, 1) EXCEPT !.network = "other"]>>,
    <<Exact(stranger, 1)>>,
    <<Exact(gateway, None)>>,
    <<Exact(gateway, 4)>> }

\* Tokens of the answers; cut and full are long words, the first of which makes a
\* text just long enough to count as truncated.
MCTokens == {space, wordI, wordCannot, wordA, cut, full}
MCBytes == (space :> 1) @@ (wordI :> 1) @@ (wordCannot :> 6) @@ (wordA :> 1) @@ (cut :> 101)
             @@ (full :> 100)
MCAlphanumeric == MCTokens \ {space}
MCPhrases == {<<{wordI}, {space}, {wordCannot}>>}

Repeat(n) == [k \in 1 .. 2 * n - 1 |-> IF k % 2 = 1 THEN wordA ELSE space]

\* Good answers that just fail to match a rule, and one bad answer for each
\* rule; the loop shows only once the two choices are joined.
MCAnswers ==
  { <<Repeat(3), Repeat(3)>>, <<<<full>>>>,
    <<>>, <<<<wordI, space, wordCannot>>>>, <<Repeat(4), Repeat(3)>>, <<<<cut>>>> }

\* is_degraded is exact on all short texts of three tokens.
ASSUME QualityIsExact ==
  \A w \in BoundedSeq({wordI, wordCannot, wordA}, 8) :
    LET spaced == [k \in 1 .. 2 * Len(w) |-> IF k % 2 = 1 THEN w[k \div 2 + 1] ELSE space]
    IN  IsDegraded(<<spaced>>) = ~ReadsWell(<<spaced>>)

Interchangeable == Permutations(Calls)
=============================================================================
