---------------------------- MODULE MCRecovery ----------------------------
(* Recovery for TLC.                                                        *)
EXTENDS Recovery, TLC

Symmetry == Permutations(Loop)
=============================================================================
