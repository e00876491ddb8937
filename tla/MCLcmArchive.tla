---------------------------- MODULE MCLcmArchive ----------------------------
(* Instances of LcmArchive for TLC. *)
EXTENDS LcmArchive, TLC

Alike == Permutations(Texts)
=============================================================================
