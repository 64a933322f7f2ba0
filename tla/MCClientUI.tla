----------------------------- MODULE MCClientUI -----------------------------
(* Instances of ClientUI for TLC.                                            *)
EXTENDS ClientUI, TLC

CONSTANTS d1, d2

Symmetry == Permutations({d1, d2})
=============================================================================
