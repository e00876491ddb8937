--------------------------- MODULE MCBatchScoring ---------------------------
(* Instances of BatchScoring for TLC. *)
EXTENDS BatchScoring

\* A conversation that fits, one that fills the budget exactly, one that fits
\* at the second tier, and three that are folded: to one message, to all but
\* the oldest, to none.
Sizes(t, p) == [tier |-> [n \in Tiers |-> t[n + 1]], parts |-> p]
Conversations ==
    { Sizes(<<2, 2, 2, 2, 2>>, <<1>>),
      Sizes(<<8, 8, 8, 8, 8>>, <<7>>),
      Sizes(<<9, 10, 3, 3, 3>>, <<1, 1>>),
      Sizes(<<12, 11, 11, 10, 9>>, <<4, 5, 3>>),
      Sizes(<<12, 12, 12, 9, 9>>, <<4, 1, 2>>),
      Sizes(<<20, 20, 20, 20, 20>>, <<19>>) }

\* Anchors and tool results, small, half of the budget, and too large; at most
\* as many as the cap lets through, and one list that is longer.
Small == [kind |-> "anchor", text |-> 1, asks |-> 1]
Large == [kind |-> "tool", text |-> 4, asks |-> 1]
Huge == [kind |-> "anchor", text |-> 9, asks |-> 1]
Waiting ==
    UNION {[1..n -> {Small, Large, Huge}] : n \in 1..2} \cup {<<Huge, Small, Large>>}

\* The Dvoretzky-Kiefer-Wolfowitz bound in thirds, rounded up.
Bound(n) == CASE n = 1 -> 4 [] n = 2 -> 3 [] n = 3 -> 3 [] OTHER -> 2
=============================================================================
