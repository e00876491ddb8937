---------------------------- MODULE EvidenceBlock ----------------------------
(***************************************************************************)
(* How kept evidence is rendered under hint_budget_tokens (prepass.py):     *)
(* hint_block, whose oversized rows leave a receipt, and                    *)
(* active_context_block, whose oversized rows are skipped and which stops   *)
(* after MaxRows.  One step per row, in order of the keep score.  Sizes are *)
(* tokens, the line separator included.                                     *)
(***************************************************************************)
EXTENDS Integers, Sequences, FiniteSets

CONSTANTS
    Budget,    \* hint_budget_tokens
    Header,    \* the block's first line
    Receipt,   \* the line of _withheld_pointer
    MaxRows,   \* ANCHOR_BLOCK_MAX_ROWS
    Inputs     \* the lists of row sizes a block is asked for

ASSUME BlockNumbers ==
    /\ Budget \in Nat \ {0} /\ Header \in Nat /\ Receipt \in Nat
    /\ MaxRows \in Nat \ {0}
    /\ Inputs \subseteq Seq(Nat)

VARIABLES
    kind,      \* "hint" or "anchor"
    rows,      \* the sizes of the rows, best score first
    walked,    \* rows rendered so far
    used,      \* tokens of the lines so far
    full,      \* rows in the block at full length
    receipts,  \* rows in the block as a receipt
    dropped    \* jev_hint_dropped or jev_anchor_block_dropped

vars == <<kind, rows, walked, used, full, receipts, dropped>>

TypeOK ==
    /\ kind \in {"hint", "anchor"}
    /\ rows \in Seq(Nat)
    /\ walked \in 0..Len(rows)
    /\ used \in Nat
    /\ full \subseteq 1..walked
    /\ receipts \subseteq (1..walked) \ full
    /\ dropped \in Nat

Init ==
    /\ kind \in {"hint", "anchor"}
    /\ rows \in Inputs
    /\ walked = 0 /\ used = Header
    /\ full = {} /\ receipts = {} /\ dropped = 0

-----------------------------------------------------------------------------
Row == walked + 1

\* Mutant: the budget is checked before the row is added.
Fits_bug(size) == used <= Budget

Fits(size) == used + size <= Budget

\* The anchor block is full of rows, whatever they cost.
Capped == kind = "anchor" /\ Cardinality(full) >= MaxRows

Render == walked < Len(rows) /\ ~Capped /\ walked' = Row

\* Mutant: what the cap cuts off is not counted.
Unseen_lost == 0

\* What the row that fills the cap leaves: the rows less the admitted ones.
Unseen == Len(rows) - (Cardinality(full) + 1)

\* The row is admitted; the one that fills the cap ends the scan.
Show ==
    /\ Render
    /\ Fits(rows[Row])
    /\ full' = full \cup {Row} /\ used' = used + rows[Row]
    /\ dropped' = IF kind = "anchor" /\ Cardinality(full) + 1 = MaxRows
                  THEN dropped + Unseen ELSE dropped
    /\ UNCHANGED <<kind, rows, receipts>>

\* Mutant: an oversized row leaves nothing.
Withhold_bug ==
    /\ kind = "hint"
    /\ Render
    /\ ~Fits(rows[Row])
    /\ dropped' = dropped + 1
    /\ UNCHANGED <<kind, rows, used, full, receipts>>

\* hint_block: a receipt if at least that fits.
Withhold ==
    /\ kind = "hint"
    /\ Render
    /\ ~Fits(rows[Row])
    /\ dropped' = dropped + 1
    /\ IF Fits(Receipt)
         THEN receipts' = receipts \cup {Row} /\ used' = used + Receipt
         ELSE UNCHANGED <<receipts, used>>
    /\ UNCHANGED <<kind, rows, full>>

\* Mutant: an oversized row ends the scan.
Skip_bug ==
    /\ kind = "anchor"
    /\ walked < Len(rows) /\ ~Capped
    /\ ~Fits(rows[Row])
    /\ walked' = Len(rows) /\ dropped' = dropped + 1
    /\ UNCHANGED <<kind, rows, used, full, receipts>>

\* active_context_block: skipped, and the scan goes on.
Skip ==
    /\ kind = "anchor"
    /\ Render
    /\ ~Fits(rows[Row])
    /\ dropped' = dropped + 1
    /\ UNCHANGED <<kind, rows, used, full, receipts>>

Next == Show \/ Withhold \/ Skip

Spec == Init /\ [][Next]_vars

-----------------------------------------------------------------------------
(* Properties. *)

\* A block that carries anything is within hint_budget_tokens, receipts
\* included.
WithinBudget == full \cup receipts # {} => used <= Budget

\* No oversized row costs another its place ("a large high-scoring anchor says
\* nothing about the smaller ones after it", prepass.py:352-356): when the scan
\* ends, a row it passed over fits no more beside what is in the block.
NothingCrowdedOut == \A i \in (1..walked) \ full : used + rows[i] > Budget

\* jev_hint_dropped counts the rows a hint does not carry at full length, and a
\* row that leaves no receipt had no room for one.
HintAccounts ==
    kind = "hint" =>
        /\ dropped + Cardinality(full) = walked
        /\ receipts # (1..walked) \ full => used + Receipt > Budget

\* jev_anchor_block_dropped is the number of rows left out as long as the cap
\* does not end the scan, and never less than that when it does.
AnchorAccounts ==
    kind = "anchor" =>
        IF Capped THEN dropped + Cardinality(full) >= Len(rows)
                  ELSE dropped + Cardinality(full) = walked
=============================================================================
