------------------------------- MODULE MCAccess -------------------------------
(* An instance of Access for TLC.                                          *)
EXTENDS Access, TLC

Symmetry == Permutations(Workers)
=============================================================================
