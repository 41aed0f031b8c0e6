------------------------------ MODULE StepLine ------------------------------
(***************************************************************************)
(* What single-step debugging promises: the stages of a boundary are done  *)
(* once each and in order, every one of them costs a request of its own,   *)
(* and nothing is committed before the last.                               *)
(***************************************************************************)
EXTENDS Naturals

CONSTANTS Runs, LastStage

VARIABLES
  granted,   \* accepted requests
  done,      \* stages done so far
  progress   \* how far each run is in its boundary

lineVars == <<granted, done, progress>>

LineInit == granted = 0 /\ done = 0 /\ progress = [r \in Runs |-> 0]

Grant == granted' = granted + 1 /\ UNCHANGED <<done, progress>>

\* The last stage is the commit, after which the run is at its next boundary.
DoStage(r) ==
  /\ done < granted
  /\ done' = done + 1
  /\ progress' = [progress EXCEPT ![r] = IF @ = LastStage THEN 0 ELSE @ + 1]
  /\ UNCHANGED granted

LineNext == Grant \/ \E r \in Runs : DoStage(r)

LineSpec == LineInit /\ [][LineNext]_lineVars
=============================================================================
