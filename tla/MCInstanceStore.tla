-------------------------- MODULE MCInstanceStore --------------------------
(* Two processes that open, lose and reopen one file.                      *)
EXTENDS InstanceStore, TLC

CONSTANTS p1, p2, e1, e2

Symmetry == Permutations(Processes) \cup Permutations(Executions)
=============================================================================
