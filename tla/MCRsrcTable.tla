----------------------------- MODULE MCRsrcTable -----------------------------
(* The resource table, for model checking: three ids for four resources. *)
EXTENDS RsrcTable, TLC
CONSTANTS b1, b2, b3, b4, m1, m2
MCSymmetry == Permutations(Block) \cup Permutations(Teams)
=============================================================================
