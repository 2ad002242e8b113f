------------------------------ MODULE MCVideoIO ------------------------------
(* Instances of VideoIO for TLC. *)
EXTENDS VideoIO, TLC

InputSymmetry == Permutations(Inputs)
=============================================================================
