-------------------------- MODULE MCDebugStepping --------------------------
(* Two runs of an instance whose boundaries have four stages.              *)
EXTENDS DebugStepping
=============================================================================
