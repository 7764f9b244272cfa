--------------------------- MODULE MCStatusMessage ---------------------------
(* Instances of StatusMessage for TLC.                                     *)
EXTENDS StatusMessage, TLC

CONSTANTS j1, j2, j3

JobSymmetry == Permutations({j1, j2, j3})
=============================================================================
