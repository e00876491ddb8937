------------------------- MODULE EvidenceBlockProofs -------------------------
(***************************************************************************)
(* Theorems about EvidenceBlock, for any rows, sizes, budget and cap.       *)
(***************************************************************************)
EXTENDS EvidenceBlock, FiniteSetTheorems, TLAPS

\* The rows of the block are finitely many, and no more than the walked ones.
LEMMA FullIsCounted ==
  ASSUME TypeOK
  PROVE  /\ IsFiniteSet(full) /\ Cardinality(full) \in Nat
         /\ Cardinality(full) <= walked
<1>1. walked \in Nat /\ full \subseteq 1..walked
  BY DEF TypeOK
<1>2. IsFiniteSet(1..walked) /\ Cardinality(1..walked) = walked
  BY <1>1, FS_Interval
<1> QED BY <1>1, <1>2, FS_Subset, FS_CardinalityType

\* More tokens used leave no more room for a receipt.
LEMMA RoomShrinks ==
  ASSUME NEW a \in Nat, NEW b \in Nat, b >= a, NEW c \in Nat, NEW d \in Nat, a + c > d
  PROVE  b + c > d
  OBVIOUS

\* The row at hand is new, and its size a number.
LEMMA RowFacts ==
  ASSUME TypeOK, Render
  PROVE  /\ walked \in Nat /\ Row \in 1..Len(rows) /\ Row \notin 1..walked
         /\ walked' = Row /\ walked' \in 0..Len(rows) /\ rows[Row] \in Nat
         /\ Cardinality(full \cup {Row}) = Cardinality(full) + 1
<1>1. walked \in Nat /\ Len(rows) \in Nat /\ walked < Len(rows) /\ walked' = walked + 1
  BY DEF TypeOK, Render, Row
<1>2. Row \in 1..Len(rows) /\ Row \notin 1..walked /\ walked' \in 0..Len(rows)
  BY <1>1 DEF Row
<1>3. rows[Row] \in Nat
  BY <1>2 DEF TypeOK
<1>4. Row \notin full
  BY <1>2 DEF TypeOK
<1> QED BY <1>1, <1>2, <1>3, <1>4, FullIsCounted, FS_AddElement DEF Row
-----------------------------------------------------------------------------
\* The typing invariant holds at the start ...
LEMMA TypeInit == Init => TypeOK
<1>1. Init => rows \in Seq(Nat) /\ Len(rows) \in Nat
  BY BlockNumbers DEF Init
<1> QED BY <1>1, BlockNumbers DEF Init, TypeOK

\* ... and every row keeps it.
LEMMA TypeNext == TypeOK /\ [Next]_vars => TypeOK'
<1> USE BlockNumbers
<1> SUFFICES ASSUME TypeOK, [Next]_vars PROVE TypeOK'
  OBVIOUS
<1>1. ASSUME Render, UNCHANGED <<kind, rows>>
      PROVE  /\ kind' \in {"hint", "anchor"} /\ rows' \in Seq(Nat)
             /\ walked' \in 0..Len(rows') /\ 1..walked' = (1..walked) \cup {Row}
             /\ Row \notin 1..walked /\ rows[Row] \in Nat
  <2>1. 1..(walked + 1) = (1..walked) \cup {walked + 1}
    BY DEF TypeOK
  <2> QED BY <1>1, <2>1, RowFacts DEF TypeOK, Row
<1>2. CASE Show
  <2>1. full' \subseteq 1..walked' /\ receipts' \subseteq (1..walked') \ full'
    BY <1>1, <1>2 DEF Show, TypeOK
  <2>2. used' \in Nat
    BY <1>1, <1>2 DEF Show, TypeOK
  <2>3. Unseen \in Nat
    BY <1>2, FullIsCounted DEF Show, Render, Unseen, TypeOK
  <2>4. dropped' \in Nat
    BY <1>2, <2>3 DEF Show, TypeOK
  <2> QED BY <1>1, <1>2, <2>1, <2>2, <2>4 DEF Show, TypeOK
<1>3. CASE Withhold
  <2>1. full' \subseteq 1..walked' /\ receipts' \subseteq (1..walked') \ full'
    BY <1>1, <1>3 DEF Withhold, TypeOK
  <2>2. used' \in Nat /\ dropped' \in Nat
    BY <1>3 DEF Withhold, TypeOK
  <2> QED BY <1>1, <1>3, <2>1, <2>2 DEF Withhold, TypeOK
<1>4. CASE Skip
  <2>1. full' \subseteq 1..walked' /\ receipts' \subseteq (1..walked') \ full'
    BY <1>1, <1>4 DEF Skip, TypeOK
  <2> QED BY <1>1, <1>4, <2>1 DEF Skip, TypeOK
<1>5. CASE UNCHANGED vars
  BY <1>5 DEF vars, TypeOK
<1> QED BY <1>2, <1>3, <1>4, <1>5 DEF Next

\* Every variable keeps its type; a row is shown, receipted or neither.
THEOREM TypeCorrect == Spec => []TypeOK
<1> QED BY TypeInit, TypeNext, PTL DEF Spec
-----------------------------------------------------------------------------
\* A block that carries anything is within the budget.
THEOREM BlockIsBounded == Spec => []WithinBudget
<1>1. Init => WithinBudget
  BY DEF Init, WithinBudget
<1>2. TypeOK /\ WithinBudget /\ [Next]_vars => WithinBudget'
  <2> SUFFICES ASSUME TypeOK, WithinBudget, [Next]_vars PROVE WithinBudget'
    OBVIOUS
  <2>1. CASE Show
    BY <2>1 DEF Show, Fits, WithinBudget
  <2>2. CASE Withhold
    BY <2>2 DEF Withhold, Fits, WithinBudget
  <2>3. CASE Skip \/ UNCHANGED vars
    BY <2>3 DEF Skip, vars, WithinBudget
  <2> QED BY <2>1, <2>2, <2>3 DEF Next
<1> QED BY <1>1, <1>2, TypeCorrect, PTL DEF Spec

\* The tokens used only grow: what did not fit will not fit.
THEOREM NoRowCrowdsAnotherOut == Spec => []NothingCrowdedOut
<1>1. Init => NothingCrowdedOut
  BY DEF Init, NothingCrowdedOut
<1>2. TypeOK /\ NothingCrowdedOut /\ [Next]_vars => NothingCrowdedOut'
  <2> SUFFICES ASSUME TypeOK, NothingCrowdedOut, [Next]_vars PROVE NothingCrowdedOut'
    OBVIOUS
  <2>1. CASE UNCHANGED vars
    BY <2>1 DEF vars, NothingCrowdedOut
  <2>2. ASSUME Show \/ Withhold \/ Skip PROVE NothingCrowdedOut'
    <3> SUFFICES ASSUME NEW i \in (1..walked') \ full' PROVE used' + rows'[i] > Budget'
      BY DEF NothingCrowdedOut
    <3>1. Render /\ rows' = rows /\ full \subseteq full'
      BY <2>2 DEF Show, Withhold, Skip
    <3>2. i \in 1..walked \/ i = Row
      BY <3>1, RowFacts DEF Row
    <3>3. used \in Nat /\ used' \in Nat /\ used' >= used
      BY <2>2, <3>1, RowFacts, BlockNumbers DEF Show, Withhold, Skip, TypeOK
    <3>4. i \in 1..Len(rows) /\ rows[i] \in Nat
      BY <3>1, <3>2, RowFacts DEF TypeOK
    <3>5. CASE i \in 1..walked
      BY <3>1, <3>3, <3>4, <3>5, BlockNumbers DEF NothingCrowdedOut
    <3>6. CASE i = Row
      <4>1. ~ Show
        BY <3>6 DEF Show
      <4>2. used + rows[i] > Budget
        BY <2>2, <3>3, <3>4, <3>6, <4>1, BlockNumbers DEF Withhold, Skip, Fits
      <4> QED BY <3>1, <3>3, <3>4, <4>2, BlockNumbers
    <3> QED BY <3>2, <3>5, <3>6
  <2> QED BY <2>1, <2>2 DEF Next
<1> QED BY <1>1, <1>2, TypeCorrect, PTL DEF Spec

\* A hint accounts for every row it walked.
THEOREM HintAccountsForAll == Spec => []HintAccounts
<1>1. Init => HintAccounts
  BY FS_EmptySet DEF Init, HintAccounts
<1>2. TypeOK /\ HintAccounts /\ [Next]_vars => HintAccounts'
  <2> SUFFICES ASSUME TypeOK, HintAccounts, [Next]_vars, kind' = "hint"
               PROVE  /\ dropped' + Cardinality(full') = walked'
                      /\ receipts' # (1..walked') \ full' => used' + Receipt > Budget
    BY DEF HintAccounts
  <2>1. CASE UNCHANGED vars
    BY <2>1 DEF vars, HintAccounts
  <2>2. ASSUME Show \/ Withhold
        PROVE  /\ kind = "hint" /\ Render /\ walked' = walked + 1
               /\ 1..walked' = (1..walked) \cup {Row} /\ Row \notin 1..walked
    <3>1. Render /\ kind' = kind
      BY <2>2 DEF Show, Withhold
    <3>2. walked \in Nat /\ 1..(walked + 1) = (1..walked) \cup {walked + 1}
      BY DEF TypeOK
    <3> QED BY <3>1, <3>2, RowFacts DEF Row
  <2>3. CASE Show
    <3>1. Cardinality(full') = Cardinality(full) + 1 /\ dropped' = dropped
      BY <2>2, <2>3, RowFacts DEF Show
    <3>2. (1..walked') \ full' = (1..walked) \ full
      BY <2>2, <2>3 DEF Show
    <3>3. used \in Nat /\ used' \in Nat /\ used' >= used
      BY <2>2, <2>3, RowFacts DEF Show, TypeOK
    <3>4. /\ dropped + Cardinality(full) = walked
          /\ receipts # (1..walked) \ full => used + Receipt > Budget
      BY <2>2, <2>3 DEF HintAccounts
    <3>5. dropped' + Cardinality(full') = walked'
      <4>1. dropped \in Nat /\ walked \in Nat /\ Cardinality(full) \in Nat
        BY FullIsCounted DEF TypeOK
      <4>2. walked' = walked + 1
        BY <2>2, <2>3
      <4> QED BY <3>1, <3>4, <4>1, <4>2
    <3>6. receipts' = receipts
      BY <2>3 DEF Show
    <3>7. used + Receipt > Budget => used' + Receipt > Budget
      <4>1. Budget \in Nat /\ Receipt \in Nat
        BY BlockNumbers
      <4> QED BY <3>3, <4>1, RoomShrinks
    <3> QED BY <3>2, <3>4, <3>5, <3>6, <3>7
  <2>4. CASE Withhold
    <3>1. dropped' + Cardinality(full') = walked'
      BY <2>2, <2>4, FullIsCounted DEF Withhold, HintAccounts, TypeOK
    <3>2. CASE Fits(Receipt)
      <4>1. (1..walked') \ full' = ((1..walked) \ full) \cup {Row}
        BY <2>2, <2>4 DEF Withhold, TypeOK
      <4>2. receipts' = receipts \cup {Row} /\ used' = used + Receipt
        BY <2>4, <3>2 DEF Withhold
      <4>3. receipts # (1..walked) \ full => used' + Receipt > Budget
        <5>1. receipts # (1..walked) \ full => used + Receipt > Budget
          BY <2>2, <2>4 DEF HintAccounts
        <5>2. used \in Nat /\ used' = used + Receipt
          BY <4>2 DEF TypeOK
        <5> QED BY <5>1, <5>2, BlockNumbers
      <4>4. receipts' # (1..walked') \ full' => receipts # (1..walked) \ full
        BY <4>1, <4>2
      <4> QED BY <3>1, <4>3, <4>4
    <3>3. CASE ~ Fits(Receipt)
      BY <2>4, <3>1, <3>3, BlockNumbers DEF Withhold, Fits, TypeOK
    <3> QED BY <3>2, <3>3
  <2>5. ~ Skip
    BY DEF Skip
  <2> QED BY <2>1, <2>3, <2>4, <2>5 DEF Next
<1> QED BY <1>1, <1>2, TypeCorrect, PTL DEF Spec

\* An anchor block's drop count is exact until the cap ends the scan, and never
\* too low then.
THEOREM AnchorAccountsForAll == Spec => []AnchorAccounts
<1>1. Init => AnchorAccounts
  <2> SUFFICES ASSUME Init, kind = "anchor" PROVE AnchorAccounts
    BY DEF AnchorAccounts
  <2>1. Cardinality(full) = 0 /\ ~Capped
    BY FS_EmptySet, BlockNumbers DEF Init, Capped
  <2> QED BY <2>1 DEF Init, AnchorAccounts
<1>2. TypeOK /\ AnchorAccounts /\ [Next]_vars => AnchorAccounts'
  <2> SUFFICES ASSUME TypeOK, AnchorAccounts, [Next]_vars, kind' = "anchor"
               PROVE  IF Capped' THEN dropped' + Cardinality(full') >= Len(rows')
                                 ELSE dropped' + Cardinality(full') = walked'
    BY DEF AnchorAccounts
  <2>1. CASE UNCHANGED vars
    BY <2>1 DEF vars, AnchorAccounts, Capped
  <2>2. ASSUME Show \/ Skip
        PROVE  /\ kind = "anchor" /\ rows' = rows /\ ~Capped /\ Len(rows) \in Nat
               /\ dropped + Cardinality(full) = walked /\ walked' = walked + 1
               /\ walked \in Nat /\ dropped \in Nat /\ walked' <= Len(rows)
               /\ Cardinality(full) \in Nat /\ Cardinality(full) < MaxRows
    <3>1. Render /\ kind' = kind /\ rows' = rows /\ kind = "anchor"
      BY <2>2 DEF Show, Skip
    <3>2. ~Capped /\ walked \in Nat /\ dropped \in Nat /\ Len(rows) \in Nat
      BY <3>1 DEF Render, TypeOK
    <3>3. walked' = walked + 1 /\ walked' <= Len(rows)
      BY <3>1, RowFacts DEF Row
    <3>4. dropped + Cardinality(full) = walked
      BY <3>1, <3>2 DEF AnchorAccounts
    <3> QED BY <3>1, <3>2, <3>3, <3>4, FullIsCounted, BlockNumbers DEF Capped
  <2>3. CASE Show
    <3>1. Cardinality(full') = Cardinality(full) + 1
      BY <2>3, RowFacts DEF Show
    <3>2. Capped' <=> Cardinality(full) + 1 = MaxRows
      BY <2>2, <2>3, <3>1, BlockNumbers DEF Capped
    <3>3. CASE Cardinality(full) + 1 = MaxRows
      <4>1. dropped' = dropped + (Len(rows) - (Cardinality(full) + 1))
        BY <2>2, <2>3, <3>3 DEF Show, Unseen
      <4>2. dropped' + Cardinality(full') >= Len(rows')
        BY <2>2, <2>3, <3>1, <4>1
      <4> QED BY <3>2, <3>3, <4>2
    <3>4. CASE Cardinality(full) + 1 # MaxRows
      <4>1. dropped' = dropped
        BY <2>3, <3>4 DEF Show
      <4>2. dropped' + Cardinality(full') = walked'
        BY <2>2, <2>3, <3>1, <4>1
      <4> QED BY <3>2, <3>4, <4>2
    <3> QED BY <3>3, <3>4
  <2>4. CASE Skip
    <3>1. full' = full /\ dropped' = dropped + 1 /\ ~Capped'
      BY <2>2, <2>4 DEF Skip, Capped
    <3> QED BY <2>2, <2>4, <3>1
  <2>5. ~ Withhold
    BY DEF Withhold
  <2> QED BY <2>1, <2>3, <2>4, <2>5 DEF Next
<1> QED BY <1>1, <1>2, TypeCorrect, PTL DEF Spec
=============================================================================
