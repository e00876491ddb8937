------------------------------ MODULE MCPrepass ------------------------------
(* Instances of Prepass for TLC. *)
EXTENDS Prepass, TLC

CONSTANTS a1, a2, a3, t1, s1, s2, s3

\* One conversation; two conversations and text of a summary; one conversation
\* and text of a summary.
OneOwner == a1 :> s1 @@ a2 :> s1 @@ t1 :> s1
TwoOwners == a1 :> s1 @@ a2 :> NoSession @@ a3 :> s2
WithSummary == a1 :> s1 @@ a2 :> s1 @@ a3 :> NoSession

RankOne == a1 :> 1 @@ a2 :> 2 @@ t1 :> 3
RankTwo == a2 :> 1 @@ a1 :> 2 @@ a3 :> 3
RankSummary == a3 :> 1 @@ a1 :> 2 @@ a2 :> 3

\* a2 does not fit beside another candidate; t1 fits no request at all.
SizesOne == a1 :> 1 @@ a2 :> 2 @@ t1 :> 3
SizesTwo == a1 :> 1 @@ a2 :> 1 @@ a3 :> 1
SizesSummary == a1 :> 1 @@ a2 :> 1 @@ a3 :> 1
=============================================================================
