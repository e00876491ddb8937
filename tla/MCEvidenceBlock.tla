--------------------------- MODULE MCEvidenceBlock ---------------------------
(* Instances of EvidenceBlock for TLC. *)
EXTENDS EvidenceBlock

\* Every list of up to five rows: small, medium, and one that never fits.
UpToFive == UNION {[1..n -> {2, 4, 9}] : n \in 0..5}
=============================================================================
