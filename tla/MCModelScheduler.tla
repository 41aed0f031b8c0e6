-------------------------- MODULE MCModelScheduler --------------------------
(***************************************************************************)
(* Model checking of ModelScheduler: values for the constants.             *)
(***************************************************************************)
EXTENDS ModelScheduler

CONSTANTS a1, a2, b1, b2, c1, A, B, C, P, Q

\* Two workloads that mix the two providers and one that uses one of them.
MixedWorkloads == (a1 :> A) @@ (a2 :> A) @@ (b1 :> B) @@ (b2 :> B) @@ (c1 :> C)
MixedProviders == (a1 :> P) @@ (a2 :> Q) @@ (b1 :> Q) @@ (b2 :> P) @@ (c1 :> P)
MixedLimits == (P :> 1) @@ (Q :> 2)

\* One provider: a lane is held back only by the global cap.
SingleProvider == [j \in Jobs |-> P]
SingleLimit == P :> 2
=============================================================================
