------------------------------ MODULE MCPause ------------------------------
(* Model-checking instance of PauseControl.                                 *)
EXTENDS PauseControl, TLC

MCMinScore == -5

Symmetry == Permutations(Handler)
=============================================================================
