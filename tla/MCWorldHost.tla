---------------------------- MODULE MCWorldHost ----------------------------
(* A small instance of WorldHost.  Agents and principals are               *)
(* interchangeable: no handler prefers one of them.                        *)
EXTENDS WorldHost, TLC

CONSTANTS a1, a2, p1, p2

Symmetry == Permutations(Agents) \cup Permutations(Principals)
=============================================================================
