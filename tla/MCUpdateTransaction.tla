------------------------ MODULE MCUpdateTransaction ------------------------
(* Small instances of UpdateTransaction for TLC.                           *)
EXTENDS UpdateTransaction, TLC

WriteSymmetry == Permutations(Writes)
=============================================================================
