---------------------------- MODULE DebugStepping ----------------------------
(***************************************************************************)
(* Single-step debugging of one world instance (server/world-host.ts): the *)
(* stage gate at which an attempt parks, the checkpoint it persists, the   *)
(* requests that let it do one stage more, and the recovery of a parked    *)
(* run from its recorded stages after a restart.                           *)
(*                                                                         *)
(* Requests arrive late, twice and in any order.  Runs without a gate,     *)
(* windows other than the one for reactions, and leases are the business   *)
(* of WorldHost; here they are there as far as they meet a gate.           *)
(***************************************************************************)
EXTENDS Integers, Sequences, FiniteSets

CONSTANTS
  LastStage,       \* index of atomic-commit
  ReactionStage,   \* index of reaction-perception, the first stage of completeStep
  MaxRuns, MaxBoundaries, MaxExecutions, MaxGeneration, MaxRestarts, MaxDamaged  \* bounds

ASSUME StagesAssumption ==
  /\ LastStage \in Nat /\ ReactionStage \in 1 .. LastStage - 1
  /\ {MaxRuns, MaxBoundaries, MaxExecutions, MaxGeneration, MaxRestarts, MaxDamaged} \subseteq Nat
  /\ MaxBoundaries > 0 /\ MaxGeneration > 1

VARIABLES
  doc,         \* the persisted document: debugSteppingEnabled, revision, runs
  attempts,    \* executeRunBoundary calls in progress
  gates,       \* debugStageGates: by run, the execution of the attempt at the gate
  recoveries,  \* debugRecoveries: by run, the checkpoint to continue from
  executions,  \* the ledger: status, stages sealed in the trace, whether damaged
  accepted,    \* requests that were accepted
  finished,    \* stages that were done, outside of replays
  restarts

vars == <<doc, attempts, gates, recoveries, executions, accepted, finished, restarts>>

RunIds == 1 .. MaxRuns
Stages == 0 .. LastStage
Executions == 1 .. MaxExecutions

NoCheckpoint == [run |-> 0, execution |-> 0, generation |-> 0, boundary |-> 0, stage |-> 0]
NoRequest == [checkpoint |-> NoCheckpoint, id |-> 0]
NoExecution == [status |-> "none", sealed |-> 0, damaged |-> FALSE]

Current == Len(doc.runs)
CurrentStatus == IF doc.runs = <<>> THEN "none" ELSE doc.runs[Current].status

Statuses == {"queued", "running", "paused", "debug-paused", "budget-paused", "awaiting-decision",
             "awaiting-reaction", "preparation-invalidated", "completed", "failed"}

\* A faulty variant: a parked run does not stand in the way of another one.
BusyButParked == {"queued", "running", "paused", "budget-paused", "awaiting-decision", "awaiting-reaction"}

\* Statuses with which a run keeps advance() from starting another.
Busy == {"queued", "running", "paused", "debug-paused", "budget-paused", "awaiting-decision",
         "awaiting-reaction"}

\* createRun: the run keeps the setting it was created under.
NewRun(requested, generation) ==
  [status |-> "queued", generation |-> generation, step |-> doc.enabled, requested |-> requested,
   committed |-> 0, reacting |-> FALSE, checkpoint |-> NoCheckpoint, lastRequest |-> NoRequest]

Init ==
  /\ doc = [enabled |-> FALSE, revision |-> 0, runs |-> <<>>]
  /\ attempts = {}
  /\ gates = [r \in RunIds |-> 0]
  /\ recoveries = [r \in RunIds |-> NoCheckpoint]
  /\ executions = [e \in Executions |-> NoExecution]
  /\ accepted = {} /\ finished = {}
  /\ restarts = 0

-----------------------------------------------------------------------------
(* Requests of clients other than next-step. *)

SetDebugMode(enabled) ==
  /\ doc.enabled # enabled
  /\ doc' = [doc EXCEPT !.enabled = enabled]
  /\ UNCHANGED <<attempts, gates, recoveries, executions, accepted, finished, restarts>>

Advance(requested) ==
  /\ CurrentStatus \notin Busy /\ Len(doc.runs) < MaxRuns
  /\ doc' = [doc EXCEPT !.runs = Append(@, NewRun(requested, 1))]
  /\ UNCHANGED <<attempts, gates, recoveries, executions, accepted, finished, restarts>>

\* submitAction of the only player replaces a run that stands still, a parked
\* one included: nobody tells its gate.
Replace ==
  /\ CurrentStatus \in {"paused", "budget-paused", "debug-paused"} /\ Len(doc.runs) < MaxRuns
  /\ doc' = [doc EXCEPT !.runs = Append([@ EXCEPT ![Current].status = "completed"], NewRun(0, 2))]
  /\ UNCHANGED <<attempts, gates, recoveries, executions, accepted, finished, restarts>>

\* The players answer, or the deadline of their window passes.
Answer ==
  /\ CurrentStatus \in {"awaiting-decision", "awaiting-reaction"}
  /\ doc.runs[Current].generation < MaxGeneration /\ doc.runs[Current].committed < MaxBoundaries
  /\ doc' = [doc EXCEPT !.runs[Current].status = "queued", !.runs[Current].generation = @ + 1]
  /\ UNCHANGED <<attempts, gates, recoveries, executions, accepted, finished, restarts>>

-----------------------------------------------------------------------------
(* Attempts. *)

NewExecution == CHOOSE e \in Executions : executions[e].status = "none"

\* driveRun and the start of executeRunBoundary.  A recovered attempt replays
\* the recorded stages and goes on with the one after them.
StartAttempt(r) ==
  LET run == doc.runs[r]
      recovery == recoveries[r]
      recovered == recovery # NoCheckpoint
      begun == [run EXCEPT !.status = "running"]
      first == IF recovered THEN recovery.stage ELSE IF run.reacting THEN ReactionStage ELSE 0
  IN /\ run.status = "queued"
     /\ \E e \in Executions : executions[e].status = "none"
     /\ doc' = [doc EXCEPT !.runs[r] = begun]
     /\ attempts' = attempts \cup
          {[run |-> r, execution |-> NewExecution, enabled |-> doc.enabled,
            revision |-> doc.revision, snapshot |-> begun,
            stage |-> IF run.step THEN first ELSE LastStage,
            point |-> IF run.step /\ ~recovered THEN "arriving" ELSE "working"]}
     /\ executions' = [executions EXCEPT ![NewExecution] =
          [status |-> "running", sealed |-> first, damaged |-> FALSE]]
     /\ gates' = IF run.step THEN [gates EXCEPT ![r] = NewExecution] ELSE gates
     /\ recoveries' = [recoveries EXCEPT ![r] = NoCheckpoint]
     /\ UNCHANGED <<accepted, finished, restarts>>

\* A faulty variant: the checkpoint names the stage that has just been done.
CheckpointOfDoneStage(attempt, stage) ==
  [run |-> attempt.run, execution |-> attempt.execution, stage |-> IF stage = 0 THEN 0 ELSE stage - 1,
   generation |-> doc.runs[attempt.run].generation, boundary |-> doc.runs[attempt.run].committed]

CheckpointAt(attempt, stage) ==
  [run |-> attempt.run, execution |-> attempt.execution, stage |-> stage,
   generation |-> doc.runs[attempt.run].generation, boundary |-> doc.runs[attempt.run].committed]

\* persistDebugCheckpoint, before the attempt waits at the gate.
Park(attempt, stage) ==
  LET checkpoint == CheckpointAt(attempt, stage)
  IN /\ doc.runs[attempt.run].status \in {"running", "debug-paused"}
     /\ doc' = [doc EXCEPT !.runs[attempt.run].status = "debug-paused",
                           !.runs[attempt.run].checkpoint = checkpoint]
     /\ attempts' = (attempts \ {attempt})
                      \cup {[attempt EXCEPT !.stage = stage, !.point = "parked"]}

Arrive(attempt) ==
  /\ attempt.point = "arriving"
  /\ Park(attempt, attempt.stage)
  /\ UNCHANGED <<gates, recoveries, executions, accepted, finished, restarts>>

Stage(attempt) ==
  [run |-> attempt.run, boundary |-> attempt.snapshot.committed,
   execution |-> attempt.execution, stage |-> attempt.stage]

\* A faulty variant: the last stage is not the last.
FinishAnyStage(attempt) ==
  /\ attempt.point = "working"
  /\ Park(attempt, attempt.stage + 1)
  /\ executions' = [executions EXCEPT ![attempt.execution].sealed = attempt.stage + 1]
  /\ finished' = finished \cup {Stage(attempt)}
  /\ UNCHANGED <<gates, recoveries, accepted, restarts>>

\* after(stage): its end is in the trace before the attempt parks at the next.
FinishStage(attempt) ==
  /\ attempt.point = "working" /\ attempt.stage < LastStage
  /\ Park(attempt, attempt.stage + 1)
  /\ executions' = [executions EXCEPT ![attempt.execution].sealed = attempt.stage + 1]
  /\ finished' = finished \cup {Stage(attempt)}
  /\ UNCHANGED <<gates, recoveries, accepted, restarts>>

\* The run is still the one the attempt started from.
Unchanged(attempt) ==
  LET run == doc.runs[attempt.run]
  IN run.generation = attempt.snapshot.generation /\ run.status = "running"
       /\ doc.revision = attempt.revision

Ends(attempt, status) ==
  /\ attempts' = attempts \ {attempt}
  /\ executions' = [executions EXCEPT ![attempt.execution].status = status]

OpensGate(attempt) == gates' = [gates EXCEPT ![attempt.run] = 0]

\* The preparation asks a player for reactions: the snapshot is written with
\* the checkpoint and request id of its time.
AwaitReactions(attempt) ==
  /\ attempt.point = "working" /\ attempt.stage = ReactionStage /\ ~attempt.snapshot.reacting
  /\ Unchanged(attempt)
  /\ doc' = [doc EXCEPT !.enabled = attempt.enabled,
               !.runs[attempt.run] =
                  [attempt.snapshot EXCEPT !.status = "awaiting-reaction", !.reacting = TRUE]]
  /\ Ends(attempt, "succeeded") /\ OpensGate(attempt)
  /\ UNCHANGED <<recoveries, accepted, finished, restarts>>

\* The status of a run after a boundary; that of a player, who requests no
\* number of boundaries (0), may end with any.
Outcomes(requested, committed) ==
  IF requested # 0 /\ committed >= requested THEN {"completed"}
  ELSE {"awaiting-decision", "budget-paused"}
         \cup (IF requested = 0 THEN {"completed"} ELSE {})
         \cup (IF committed < MaxBoundaries THEN {"queued"} ELSE {})

\* The whole snapshot is written but for the debugging fields of its run.
Commit(attempt) ==
  LET committed == attempt.snapshot.committed + 1
      run == doc.runs[attempt.run]
  IN /\ attempt.point = "working" /\ attempt.stage = LastStage
     /\ Unchanged(attempt)
     /\ \E status \in Outcomes(run.requested, committed) :
          doc' = [doc EXCEPT !.enabled = attempt.enabled, !.revision = @ + 1,
                    !.runs[attempt.run] =
                       [attempt.snapshot EXCEPT
                          !.status = status, !.committed = committed, !.reacting = FALSE,
                          !.checkpoint = run.checkpoint, !.lastRequest = run.lastRequest]]
     /\ finished' = IF run.step THEN finished \cup {Stage(attempt)} ELSE finished
     /\ Ends(attempt, "succeeded") /\ OpensGate(attempt)
     /\ UNCHANGED <<recoveries, accepted, restarts>>

\* A stage throws: a run that is another generation by now is left alone.
FailAttempt(attempt) ==
  /\ attempt.point = "working"
  /\ \E status \in {"failed", "paused"} \cup
                     (IF attempt.snapshot.reacting THEN {"preparation-invalidated"} ELSE {}) :
       doc' = IF doc.runs[attempt.run].generation = attempt.snapshot.generation
              THEN [doc EXCEPT !.runs[attempt.run].status = status, !.runs[attempt.run].reacting = FALSE]
              ELSE doc
  /\ Ends(attempt, "failed") /\ OpensGate(attempt)
  /\ UNCHANGED <<recoveries, accepted, finished, restarts>>

\* A cancelled gate lets the attempt go with an AbortError.
AbortAttempt(attempt) ==
  /\ attempt.point = "cancelled"
  /\ Ends(attempt, "cancelled") /\ OpensGate(attempt)
  /\ UNCHANGED <<doc, recoveries, accepted, finished, restarts>>
-----------------------------------------------------------------------------
(* advanceDebugStep: one section under the lock and what follows it.  The   *)
(* gate is looked up before the lock is taken; no section that a request for *)
(* a parked run can wait for opens or sets a gate.                          *)

\* A faulty variant: any checkpoint of the generation will do.
AppliesToAnyCheckpoint(request) ==
  LET run == doc.runs[request.checkpoint.run]
  IN /\ run.generation = request.checkpoint.generation
     /\ run.status = "debug-paused"

\* Neither served already nor meant for a checkpoint that is gone.
Applies(request) ==
  LET run == doc.runs[request.checkpoint.run]
  IN /\ run.generation = request.checkpoint.generation
     /\ run.lastRequest # request
     /\ run.status = "debug-paused" /\ run.checkpoint = request.checkpoint

HasGate(r) == gates[r] # 0

\* debugCheckpointValidationError and, for a continuation without a gate,
\* debugCheckpointReplayValidationError.
Valid(r) ==
  LET run == doc.runs[r]
      checkpoint == run.checkpoint
      source == executions[checkpoint.execution]
  IN /\ checkpoint # NoCheckpoint
     /\ checkpoint.generation = run.generation /\ checkpoint.boundary = run.committed
     /\ ~source.damaged
     /\ HasGate(r) \/ source.sealed >= checkpoint.stage

Invalidated(run) ==
  [run EXCEPT !.status = "preparation-invalidated", !.generation = @ + 1, !.reacting = FALSE]

AtGate(r) == {attempt \in attempts : attempt.execution = gates[r]}

Refuse(request) ==
  LET r == request.checkpoint.run
  IN /\ Applies(request) /\ ~Valid(r) /\ doc.runs[r].generation < MaxGeneration
     /\ doc' = [doc EXCEPT !.runs[r] = Invalidated(@)]
     /\ attempts' = (attempts \ AtGate(r)) \cup {[a EXCEPT !.point = "cancelled"] : a \in AtGate(r)}
     /\ gates' = [gates EXCEPT ![r] = 0]
     /\ UNCHANGED <<recoveries, executions, accepted, finished, restarts>>

\* The attempt at the gate does the stage it is parked at.
Release(request) ==
  LET r == request.checkpoint.run
  IN /\ Applies(request) /\ Valid(r) /\ HasGate(r)
     /\ doc' = [doc EXCEPT !.runs[r].status = "running", !.runs[r].lastRequest = request]
     /\ attempts' = (attempts \ AtGate(r)) \cup {[a EXCEPT !.point = "working"] : a \in AtGate(r)}
     /\ accepted' = accepted \cup {request}
     /\ UNCHANGED <<gates, recoveries, executions, finished, restarts>>

\* A faulty variant: the gate is taken for granted.
RecoverAtGate(request) ==
  LET r == request.checkpoint.run
  IN /\ Applies(request) /\ Valid(r) /\ ~HasGate(r)
     /\ doc' = [doc EXCEPT !.runs[r].status = "running", !.runs[r].lastRequest = request]
     /\ accepted' = accepted \cup {request}
     /\ UNCHANGED <<attempts, gates, recoveries, executions, finished, restarts>>

\* After a restart: a new attempt continues from the checkpoint.
Recover(request) ==
  LET r == request.checkpoint.run
      source == request.checkpoint.execution
  IN /\ Applies(request) /\ Valid(r) /\ ~HasGate(r)
     /\ doc' = [doc EXCEPT !.runs[r].status = "queued", !.runs[r].lastRequest = request]
     /\ recoveries' = [recoveries EXCEPT ![r] = request.checkpoint]
     /\ executions' = [executions EXCEPT ![source].status = IF @ = "running" THEN "cancelled" ELSE @]
     /\ accepted' = accepted \cup {request}
     /\ UNCHANGED <<attempts, gates, finished, restarts>>

-----------------------------------------------------------------------------
(* What happens around the process. *)

\* The checkpoint of a parked run, or the trace it stands on, is found to be
\* missing, altered or of another build.
Damage(e) ==
  /\ ~executions[e].damaged
  /\ \E r \in DOMAIN doc.runs : doc.runs[r].status = "debug-paused" /\ doc.runs[r].checkpoint.execution = e
  /\ Cardinality({f \in Executions : executions[f].damaged}) < MaxDamaged
  /\ executions' = [executions EXCEPT ![e].damaged = TRUE]
  /\ UNCHANGED <<doc, attempts, gates, recoveries, accepted, finished, restarts>>

\* restoreSchedule: a parked run keeps its checkpoint, a step in progress is lost.
Restored(r) ==
  LET run == doc.runs[r]
      source == executions[run.checkpoint.execution]
      resumable == /\ run.checkpoint.generation = run.generation
                   /\ run.checkpoint.boundary = run.committed
                   /\ ~source.damaged /\ source.sealed >= run.checkpoint.stage
  IN IF run.status \notin {"queued", "running", "debug-paused"} THEN run
     ELSE IF ~run.step THEN [run EXCEPT !.status = "paused", !.generation = @ + 1]
     ELSE IF run.status = "debug-paused" /\ resumable THEN run
     ELSE Invalidated(run)

Restart ==
  /\ restarts < MaxRestarts
  /\ \A r \in DOMAIN doc.runs : doc.runs[r].generation < MaxGeneration
  /\ doc' = [doc EXCEPT !.runs = [r \in DOMAIN @ |-> Restored(r)]]
  /\ attempts' = {}
  /\ gates' = [r \in RunIds |-> 0]
  /\ recoveries' = [r \in RunIds |-> NoCheckpoint]
  /\ executions' = [e \in Executions |-> [executions[e] EXCEPT !.status = IF @ = "running" THEN "failed" ELSE @]]
  /\ restarts' = restarts + 1
  /\ UNCHANGED <<accepted, finished>>

AttemptStep(attempt) ==
  \/ Arrive(attempt) \/ FinishStage(attempt) \/ AwaitReactions(attempt)
  \/ Commit(attempt) \/ FailAttempt(attempt) \/ AbortAttempt(attempt)

\* The checkpoints that clients may name: those of the runs and earlier ones.
Seen == {doc.runs[r].checkpoint : r \in DOMAIN doc.runs} \cup {request.checkpoint : request \in accepted}

\* Any number of clients may ask for a step from a checkpoint; call the first
\* request that is accepted there 1, and a later one 2.
Asked ==
  {request \in [checkpoint : Seen \ {NoCheckpoint}, id : 1 .. 2] :
     request.id = 2 => [request EXCEPT !.id = 1] \in accepted}

NextStep(request) == Refuse(request) \/ Release(request) \/ Recover(request)

Next ==
  \/ \E enabled \in BOOLEAN : SetDebugMode(enabled)
  \/ \E requested \in 1 .. MaxBoundaries : Advance(requested)
  \/ Replace
  \/ Answer
  \/ \E r \in DOMAIN doc.runs : StartAttempt(r)
  \/ \E attempt \in attempts : AttemptStep(attempt)
  \/ \E request \in Asked : NextStep(request)
  \/ \E e \in Executions : Damage(e)
  \/ Restart

Spec == Init /\ [][Next]_vars

\* Timers of 0 ms fire and stages end; no client is fair.
Fairness ==
  /\ \A r \in RunIds : WF_vars(r \in DOMAIN doc.runs /\ StartAttempt(r))
  /\ \A e \in Executions :
       WF_vars(\E attempt \in attempts : attempt.execution = e /\ AttemptStep(attempt))

FairSpec == Spec /\ Fairness

-----------------------------------------------------------------------------
(* Properties. *)

Checkpoints == [run : 0 .. MaxRuns, execution : 0 .. MaxExecutions, generation : 0 .. MaxGeneration,
                boundary : 0 .. MaxBoundaries, stage : Stages]
Requests == [checkpoint : Checkpoints, id : 0 .. 2]
RunRecords ==
  [status : Statuses, step : BOOLEAN,
   generation : 1 .. MaxGeneration, requested : 0 .. MaxBoundaries, committed : 0 .. MaxBoundaries,
   reacting : BOOLEAN, checkpoint : Checkpoints, lastRequest : Requests]

TypeOK ==
  /\ doc \in [enabled : BOOLEAN, revision : Nat, runs : Seq(RunRecords)]
  /\ \A a \in attempts :
       a \in [run : RunIds, execution : Executions, enabled : BOOLEAN, revision : Nat,
              snapshot : RunRecords, stage : Stages,
              point : {"arriving", "working", "parked", "cancelled"}]
  /\ gates \in [RunIds -> 0 .. MaxExecutions]
  /\ recoveries \in [RunIds -> Checkpoints]
  /\ executions \in [Executions -> [status : {"none", "running", "succeeded", "failed", "cancelled"},
                                    sealed : Stages, damaged : BOOLEAN]]
  /\ accepted \subseteq Requests

\* A run that shows a checkpoint can be stepped on from it: the attempt at its
\* gate is parked at that very stage, or, when the process of that attempt is
\* gone, its trace holds all the stages before.  Only damage takes that away.
CheckpointLeadsOn ==
  \A r \in DOMAIN doc.runs : doc.runs[r].status = "debug-paused" =>
    LET checkpoint == doc.runs[r].checkpoint
    IN /\ executions[checkpoint.execution].damaged \/ Valid(r)
       /\ HasGate(r) =>
            \E a \in attempts :
              /\ a.execution = gates[r] /\ a.execution = checkpoint.execution
              /\ a.point = "parked" /\ a.stage = checkpoint.stage
              /\ executions[a.execution].status = "running"

\* However often runs are replaced, invalidated and recovered, one attempt at
\* most is past its gate.
OneAtWork ==
  \A a, b \in attempts : a.point \in {"arriving", "working"} /\ b.point \in {"arriving", "working"} => a = b

Progress(r) ==
  IF r \notin DOMAIN doc.runs THEN 0
  ELSE Cardinality({f.stage : f \in {f \in finished : f.run = r /\ f.boundary = doc.runs[r].committed}})

Line == INSTANCE StepLine WITH
  Runs <- RunIds, granted <- Cardinality(accepted), done <- Cardinality(finished),
  progress <- [r \in RunIds |-> Progress(r)]

\* "POST run/next advances exactly one checkpoint" (docs/specs/0015): requests
\* that come twice, late or after a restart never do a second stage, no stage is
\* done again outside a replay or left out, and the commit is a stage like them.
ImplementsStepLine == Line!LineSpec

\* A run that is on its way, while the ledger has room for its execution.
OnItsWay(r) ==
  /\ r \in DOMAIN doc.runs /\ doc.runs[r].status \in {"queued", "running"}
  /\ doc.runs[r].status = "queued" => \E e \in Executions : executions[e].status = "none"

\* A request that was accepted takes effect: the run stops again, at the next
\* stage, committed, failed or waiting for players.
StepsSettle == \A r \in RunIds : OnItsWay(r) ~> ~OnItsWay(r)
=============================================================================
