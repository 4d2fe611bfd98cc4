---------------------------- MODULE MCFreeSpace ----------------------------
(* FreeSpace for TLC: which of the other systems' partitions is which does *)
(* not matter.                                                             *)
EXTENDS FreeSpace, TLC

OthersSymmetry == Permutations(Others)
=============================================================================
