----------------------------- MODULE MCRollups -----------------------------
EXTENDS Rollups, TLC
CONSTANTS w
CoversWeek == w :> {1, 2}
InOrder == 1 :> 1 @@ 2 :> 2 @@ w :> 1
Targets == {<<1>>, <<2>>}
FromTwo == 1 :> 1 @@ 3 :> 1
ToTwo == 1 :> 1 @@ 3 :> 2
UnderTwo == 1 :> {} @@ 3 :> {1}
Alike == Permutations(Builders)
=============================================================================
