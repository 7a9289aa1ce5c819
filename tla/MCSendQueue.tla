---------------------------- MODULE MCSendQueue ----------------------------
(* SendQueue for TLC.                                                        *)
EXTENDS SendQueue, TLC

Symmetry == Permutations(Caller)
=============================================================================
