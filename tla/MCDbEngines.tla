----------------------------- MODULE MCDbEngines -----------------------------
(* Instances of DbEngines for TLC: a project with two databases and, where  *)
(* requests interleave, another with one.                                  *)
EXTENDS DbEngines, TLC

CONSTANTS p1, p2, n1, n2, n3

MCOwner == [n \in Names |-> IF n = n3 THEN p2 ELSE p1]

WorkerSymmetry == Permutations(Workers)
=============================================================================
