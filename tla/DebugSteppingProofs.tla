------------------------ MODULE DebugSteppingProofs ------------------------
(***************************************************************************)
(* Theorems about DebugStepping, for any number of stages, runs, boundaries,*)
(* executions, generations, restarts and damaged traces that satisfies     *)
(* StagesAssumption: however runs are replaced, invalidated and recovered, *)
(* one attempt at most is past its gate, and a checkpoint leads on.        *)
(***************************************************************************)
EXTENDS DebugStepping, SequenceTheorems, TLAPS

(* The types the proof needs; unlike TypeOK they name no bound.             *)
CheckpointType == [run : Nat, execution : Nat, generation : Nat, boundary : Nat, stage : Nat]
RequestType == [checkpoint : CheckpointType, id : Nat]
RunType ==
  [status : Statuses, step : BOOLEAN, generation : Nat, requested : Nat, committed : Nat,
   reacting : BOOLEAN, checkpoint : CheckpointType, lastRequest : RequestType]
AttemptType ==
  [run : Nat, execution : Executions, enabled : BOOLEAN, revision : Nat, snapshot : RunType,
   stage : Nat, point : {"arriving", "working", "parked", "cancelled"}]
ExecutionType ==
  [status : {"none", "running", "succeeded", "failed", "cancelled"}, sealed : Nat, damaged : BOOLEAN]

DocTyped == doc \in [enabled : BOOLEAN, revision : Nat, runs : Seq(RunType)] /\ Len(doc.runs) <= MaxRuns

RestTyped ==
  /\ attempts \subseteq AttemptType
  /\ gates \in [RunIds -> Nat]
  /\ recoveries \in [RunIds -> CheckpointType]
  /\ executions \in [Executions -> ExecutionType]
  /\ accepted \subseteq RequestType

-----------------------------------------------------------------------------
(* The inductive invariant.                                                 *)

AtWork(a) == a.point \in {"arriving", "working"}

(* Only the newest run is on its way or parked.                             *)
OnlyCurrent ==
  \A r \in DOMAIN doc.runs : doc.runs[r].status \in {"queued", "running", "debug-paused"} => r = Current

(* An attempt past its gate belongs to a run that says so.                  *)
WorkersRun ==
  \A a \in attempts : a.run \in DOMAIN doc.runs /\ (AtWork(a) => doc.runs[a.run].status = "running")

(* No two attempts share an execution, and none will be given one of them.  *)
ExecutionsApart ==
  /\ \A a \in attempts : executions[a.execution].status # "none"
  /\ \A a, b \in attempts : a.execution = b.execution => a = b

(* The gate of a run is never that of an attempt of another run.            *)
GatesHold ==
  \A r \in RunIds : gates[r] # 0 =>
    /\ gates[r] \in Executions /\ executions[gates[r]].status # "none"
    /\ \A a \in attempts : a.execution = gates[r] => a.run = r

(* Every checkpoint that a client may name is one of a run of the document. *)
Known(c) == c = NoCheckpoint \/ c.run \in DOMAIN doc.runs
RunsKnown == \A r \in DOMAIN doc.runs : Known(doc.runs[r].checkpoint)
CheckpointsKnown ==
  /\ RunsKnown
  /\ \A a \in attempts : Known(a.snapshot.checkpoint)
  /\ \A request \in accepted : Known(request.checkpoint)

(* An attempt past its gate runs in the ledger; of a single-step run it is  *)
(* the one at the gate, and what precedes its stage is in its trace.        *)
WorkersReady ==
  \A a \in attempts : AtWork(a) =>
    /\ executions[a.execution].status = "running"
    /\ IF doc.runs[a.run].step THEN gates[a.run] = a.execution
       ELSE a.stage = LastStage /\ a.point = "working"
    /\ a.point = "arriving" => executions[a.execution].sealed >= a.stage

(* What a cancelled attempt will do to the gate of its run does not matter. *)
CancelledGone ==
  \A a \in attempts : a.point = "cancelled" => doc.runs[a.run].status = "preparation-invalidated"

(* CheckpointLeadsOn, but for damage.                                       *)
ParkedAtGate(r, checkpoint) ==
  \E a \in attempts :
    /\ a.execution = gates[r] /\ a.execution = checkpoint.execution
    /\ a.point = "parked" /\ a.stage = checkpoint.stage
    /\ executions[a.execution].status = "running"
ParkedReady ==
  \A r \in DOMAIN doc.runs : doc.runs[r].status = "debug-paused" =>
    LET checkpoint == doc.runs[r].checkpoint
    IN /\ doc.runs[r].step
       /\ checkpoint # NoCheckpoint /\ checkpoint.execution \in Executions
       /\ checkpoint.generation = doc.runs[r].generation
       /\ checkpoint.boundary = doc.runs[r].committed
       /\ executions[checkpoint.execution].sealed >= checkpoint.stage
       /\ gates[r] # 0 => ParkedAtGate(r, checkpoint)

Leads == WorkersReady /\ CancelledGone /\ ParkedReady

IInv ==
  /\ DocTyped /\ RestTyped
  /\ OnlyCurrent /\ WorkersRun /\ ExecutionsApart /\ GatesHold /\ CheckpointsKnown
  /\ OneAtWork /\ Leads

LEMMA NoCheckpointType == NoCheckpoint \in CheckpointType /\ NoRequest \in RequestType
  BY DEF NoCheckpoint, NoRequest, CheckpointType, RequestType

LEMMA ExecutionsAreNumbers == Executions \subseteq Nat /\ 0 \notin Executions
  BY StagesAssumption DEF Executions

LEMMA InvalidatedType ==
  ASSUME NEW run \in RunType
  PROVE  /\ Invalidated(run) \in RunType /\ Invalidated(run).checkpoint = run.checkpoint
         /\ Invalidated(run).status = "preparation-invalidated" /\ Invalidated(run).step = run.step
  <1> DEFINE n == run.generation + 1
  <1>1. n \in Nat
    BY DEF RunType
  <1>2. Invalidated(run) = [run EXCEPT !.status = "preparation-invalidated", !.generation = n, !.reacting = FALSE]
    BY DEF Invalidated, RunType
  <1> HIDE DEF n
  <1> QED
    BY <1>1, <1>2 DEF RunType, Statuses

LEMMA InitHolds == Init => IInv
  <1> SUFFICES ASSUME Init PROVE IInv
    OBVIOUS
  <1>1. <<>> \in Seq(RunType) /\ Len(<<>>) = 0 /\ DOMAIN <<>> = {}
    BY EmptySeq
  <1>2. DocTyped
    BY <1>1, StagesAssumption DEF Init, DocTyped
  <1>3. RestTyped
    BY NoCheckpointType DEF Init, RestTyped, NoExecution, ExecutionType
  <1> QED
    BY <1>1, <1>2, <1>3 DEF Init, IInv, OnlyCurrent, WorkersRun, ExecutionsApart, GatesHold,
       CheckpointsKnown, RunsKnown, OneAtWork, Leads, WorkersReady, CancelledGone, ParkedReady

-----------------------------------------------------------------------------
(* Lemmas about the document.                                               *)

LEMMA FunctionIsSeq ==
  ASSUME NEW S, NEW n \in Nat, NEW f \in [1 .. n -> S]
  PROVE  f \in Seq(S) /\ Len(f) = n
  OBVIOUS

LEMMA RunsTyped ==
  ASSUME DocTyped
  PROVE  /\ doc.runs \in Seq(RunType) /\ Len(doc.runs) \in Nat
         /\ Current = Len(doc.runs) /\ DOMAIN doc.runs = 1 .. Current
         /\ DOMAIN doc.runs \subseteq RunIds
         /\ \A r \in DOMAIN doc.runs : doc.runs[r] \in RunType
  <1>1. doc.runs \in Seq(RunType) /\ Len(doc.runs) <= MaxRuns
    BY DEF DocTyped
  <1>2. Len(doc.runs) \in Nat /\ DOMAIN doc.runs = 1 .. Len(doc.runs)
    BY <1>1, LenProperties
  <1>3. \A r \in 1 .. Len(doc.runs) : doc.runs[r] \in RunType
    BY <1>1, ElementOfSeq
  <1> QED
    BY <1>1, <1>2, <1>3, StagesAssumption DEF Current, RunIds

(* One run changes, and if it is live now it is the newest one.             *)
LEMMA RunChanges ==
  ASSUME DocTyped, OnlyCurrent, NEW r \in DOMAIN doc.runs, NEW x \in RunType,
         doc'.runs = [doc.runs EXCEPT ![r] = x],
         doc' \in [enabled : BOOLEAN, revision : Nat, runs : {doc'.runs}],
         x.status \in {"queued", "running", "debug-paused"} => r = Current
  PROVE  /\ DocTyped' /\ OnlyCurrent'
         /\ DOMAIN doc'.runs = DOMAIN doc.runs /\ Current' = Current
         /\ doc'.runs[r] = x
         /\ \A q \in DOMAIN doc.runs : q # r => doc'.runs[q] = doc.runs[q]
  <1>1. /\ doc.runs \in Seq(RunType) /\ r \in 1 .. Len(doc.runs)
        /\ DOMAIN doc.runs = 1 .. Len(doc.runs) /\ Current = Len(doc.runs)
    BY RunsTyped
  <1>2. /\ doc'.runs \in Seq(RunType) /\ Len(doc'.runs) = Len(doc.runs)
        /\ \A q \in 1 .. Len(doc.runs) : doc'.runs[q] = IF q = r THEN x ELSE doc.runs[q]
    BY <1>1, ExceptSeq
  <1>3. DOMAIN doc'.runs = DOMAIN doc.runs /\ Current' = Current
    BY <1>1, <1>2, LenProperties DEF Current
  <1>4. DocTyped'
    BY <1>2 DEF DocTyped
  <1>5. OnlyCurrent'
    BY <1>1, <1>2, <1>3 DEF OnlyCurrent
  <1> QED
    BY <1>1, <1>2, <1>3, <1>4, <1>5

(* A run is added when the newest one is not live any more.                 *)
LEMMA RunAdded ==
  ASSUME DocTyped, OnlyCurrent, NEW runs \in Seq(RunType), NEW x \in RunType,
         Len(runs) = Len(doc.runs), Len(doc.runs) < MaxRuns,
         doc'.runs = Append(runs, x),
         doc' \in [enabled : BOOLEAN, revision : Nat, runs : {doc'.runs}],
         \A r \in DOMAIN doc.runs : runs[r].status \notin {"queued", "running", "debug-paused"}
  PROVE  /\ DocTyped' /\ OnlyCurrent'
         /\ Current' \in DOMAIN doc'.runs /\ DOMAIN doc'.runs = DOMAIN doc.runs \cup {Current'}
         /\ Current' \notin DOMAIN doc.runs
         /\ doc'.runs[Current'] = x
         /\ \A q \in DOMAIN doc.runs : doc'.runs[q] = runs[q]
  <1>1. /\ Len(doc.runs) \in Nat /\ DOMAIN doc.runs = 1 .. Len(doc.runs)
    BY RunsTyped
  <1>2. /\ doc'.runs \in Seq(RunType) /\ Len(doc'.runs) = Len(doc.runs) + 1
        /\ \A q \in 1 .. Len(doc.runs) : doc'.runs[q] = runs[q]
        /\ doc'.runs[Len(doc.runs) + 1] = x
    BY <1>1, AppendProperties
  <1>3. DOMAIN doc'.runs = 1 .. Len(doc.runs) + 1 /\ Current' = Len(doc.runs) + 1
    BY <1>1, <1>2, LenProperties DEF Current
  <1>4. DocTyped'
    <2>1. Len(doc'.runs) <= MaxRuns
      BY <1>1, <1>2, StagesAssumption
    <2> QED
      BY <1>2, <2>1 DEF DocTyped
  <1>5. OnlyCurrent'
    BY <1>1, <1>2, <1>3 DEF OnlyCurrent
  <1> QED
    BY <1>1, <1>2, <1>3, <1>4, <1>5

-----------------------------------------------------------------------------
(* One lemma for each action.                                               *)

LEMMA SetDebugModeHolds ==
  ASSUME IInv, NEW enabled \in BOOLEAN, SetDebugMode(enabled)
  PROVE  IInv'
  <1>1. doc' = [doc EXCEPT !.enabled = enabled]
        /\ UNCHANGED <<attempts, gates, recoveries, executions, accepted>>
    BY DEF SetDebugMode
  <1>2. DocTyped' /\ doc'.runs = doc.runs
    BY <1>1 DEF IInv, DocTyped
  <1> QED
    BY <1>1, <1>2 DEF IInv, RestTyped, OnlyCurrent, WorkersRun, ExecutionsApart, GatesHold,
       CheckpointsKnown, RunsKnown, Known, OneAtWork, Current, Leads, WorkersReady, CancelledGone,
       ParkedReady, ParkedAtGate

(* A new run is nobody's: no attempt is past its gate when it is made.      *)
LEMMA NewRunHolds ==
  ASSUME IInv, NEW runs \in Seq(RunType), NEW x \in RunType,
         Len(runs) = Len(doc.runs), Len(doc.runs) < MaxRuns,
         doc' = [doc EXCEPT !.runs = Append(runs, x)],
         \A r \in DOMAIN doc.runs :
           /\ runs[r].status \notin {"queued", "running", "debug-paused"}
           /\ runs[r].checkpoint = doc.runs[r].checkpoint
           /\ doc.runs[r].status # "running"
           /\ doc.runs[r].status = "preparation-invalidated" => runs[r] = doc.runs[r],
         x.checkpoint = NoCheckpoint, x.status = "queued",
         UNCHANGED <<attempts, gates, recoveries, executions, accepted>>
  PROVE  IInv'
  <1>1. doc'.runs = Append(runs, x) /\ doc' \in [enabled : BOOLEAN, revision : Nat, runs : {doc'.runs}]
    BY DEF IInv, DocTyped
  <1>2. /\ DocTyped' /\ OnlyCurrent'
        /\ DOMAIN doc'.runs = DOMAIN doc.runs \cup {Current'}
        /\ doc'.runs[Current'] = x
        /\ \A q \in DOMAIN doc.runs : doc'.runs[q] = runs[q]
    BY <1>1, RunAdded DEF IInv
  <1>3. WorkersRun' /\ OneAtWork'
    BY <1>2 DEF IInv, WorkersRun, OneAtWork, AtWork
  <1>4. CheckpointsKnown'
    BY <1>2 DEF IInv, CheckpointsKnown, RunsKnown, Known
  <1>5. Leads'
    BY <1>2 DEF IInv, Leads, WorkersRun, WorkersReady, CancelledGone, ParkedReady, AtWork
  <1> QED
    BY <1>2, <1>3, <1>4, <1>5 DEF IInv, RestTyped, ExecutionsApart, GatesHold

LEMMA AdvanceHolds ==
  ASSUME IInv, NEW requested \in 1 .. MaxBoundaries, Advance(requested)
  PROVE  IInv'
  <1> DEFINE x == NewRun(requested, 1)
  <1>1. /\ x \in RunType /\ x.checkpoint = NoCheckpoint /\ x.status = "queued"
    BY NoCheckpointType, StagesAssumption DEF NewRun, RunType, Statuses, IInv, DocTyped
  <1>2. /\ doc.runs \in Seq(RunType) /\ Len(doc.runs) < MaxRuns
        /\ doc' = [doc EXCEPT !.runs = Append(doc.runs, x)]
        /\ UNCHANGED <<attempts, gates, recoveries, executions, accepted>>
    BY RunsTyped DEF Advance, IInv
  <1>3. \A r \in DOMAIN doc.runs : doc.runs[r].status \notin {"queued", "running", "debug-paused"}
    BY RunsTyped DEF Advance, IInv, OnlyCurrent, CurrentStatus, Busy
  <1> HIDE DEF x
  <1> QED
    BY <1>1, <1>2, <1>3, NewRunHolds

LEMMA ReplaceHolds ==
  ASSUME IInv, Replace
  PROVE  IInv'
  <1> DEFINE x == NewRun(0, 2)
             old == [doc.runs[Current] EXCEPT !.status = "completed"]
             runs == [doc.runs EXCEPT ![Current] = old]
  <1>1. /\ x \in RunType /\ x.checkpoint = NoCheckpoint /\ x.status = "queued"
    BY NoCheckpointType DEF NewRun, RunType, Statuses, IInv, DocTyped
  <1>2. /\ doc.runs \in Seq(RunType) /\ Len(doc.runs) < MaxRuns /\ Len(doc.runs) \in Nat
        /\ Current = Len(doc.runs) /\ DOMAIN doc.runs = 1 .. Current /\ doc.runs # <<>>
        /\ CurrentStatus = doc.runs[Current].status
        /\ CurrentStatus \in {"paused", "budget-paused", "debug-paused"}
    BY RunsTyped DEF Replace, IInv, CurrentStatus
  <1>3. Current \in DOMAIN doc.runs
    BY <1>2
  <1>4. /\ doc' = [doc EXCEPT !.runs = Append(runs, x)]
        /\ UNCHANGED <<attempts, gates, recoveries, executions, accepted>>
    BY DEF Replace
  <1>5. /\ old \in RunType /\ old.status = "completed"
        /\ old.checkpoint = doc.runs[Current].checkpoint
    BY <1>3, RunsTyped DEF IInv, RunType, Statuses
  <1>6. /\ runs \in Seq(RunType) /\ Len(runs) = Len(doc.runs)
        /\ \A q \in DOMAIN doc.runs : runs[q] = IF q = Current THEN old ELSE doc.runs[q]
    BY <1>2, <1>3, <1>5, ExceptSeq
  <1> HIDE DEF x, old, runs
  <1>7. \A r \in DOMAIN doc.runs :
           /\ runs[r].status \notin {"queued", "running", "debug-paused"}
           /\ runs[r].checkpoint = doc.runs[r].checkpoint
           /\ doc.runs[r].status # "running"
           /\ doc.runs[r].status = "preparation-invalidated" => runs[r] = doc.runs[r]
    BY <1>2, <1>5, <1>6 DEF IInv, OnlyCurrent
  <1> QED
    BY <1>1, <1>2, <1>4, <1>6, <1>7, NewRunHolds

(* One run changes, and names no checkpoint that no run has.                *)
LEMMA RunRewritten ==
  ASSUME IInv, NEW r \in DOMAIN doc.runs, NEW x \in RunType,
         doc'.runs = [doc.runs EXCEPT ![r] = x],
         doc' \in [enabled : BOOLEAN, revision : Nat, runs : {doc'.runs}],
         x.status \in {"queued", "running", "debug-paused"} => r = Current,
         Known(x.checkpoint)
  PROVE  /\ DocTyped' /\ OnlyCurrent'
         /\ DOMAIN doc'.runs = DOMAIN doc.runs
         /\ doc'.runs[r] = x
         /\ \A q \in DOMAIN doc.runs : q # r => doc'.runs[q] = doc.runs[q]
         /\ RunsKnown'
         /\ \A c : Known(c) => Known(c)'
  <1>1. /\ DocTyped' /\ OnlyCurrent'
        /\ DOMAIN doc'.runs = DOMAIN doc.runs
        /\ doc'.runs[r] = x
        /\ \A q \in DOMAIN doc.runs : q # r => doc'.runs[q] = doc.runs[q]
    BY RunChanges DEF IInv
  <1>2. \A c : Known(c) => Known(c)'
    BY <1>1 DEF Known
  <1>3. RunsKnown'
    BY <1>1 DEF IInv, CheckpointsKnown, RunsKnown, Known
  <1> QED
    BY <1>1, <1>2, <1>3

LEMMA AnswerHolds ==
  ASSUME IInv, Answer
  PROVE  IInv'
  <1> DEFINE r == Current
             x == [doc.runs[r] EXCEPT !.status = "queued", !.generation = @ + 1]
  <1>1. r \in DOMAIN doc.runs /\ doc.runs[r].status \in {"awaiting-decision", "awaiting-reaction"}
    BY RunsTyped DEF Answer, IInv, CurrentStatus
  <1>2. doc.runs[r] \in RunType
    BY <1>1, RunsTyped DEF IInv
  <1>3. x \in RunType /\ x.status = "queued" /\ x.checkpoint = doc.runs[r].checkpoint
    <2> DEFINE y == [doc.runs[r] EXCEPT !.status = "queued"]
    <2>1. y \in RunType /\ y.status = "queued" /\ y.checkpoint = doc.runs[r].checkpoint
      BY <1>2 DEF RunType, Statuses
    <2>2. x = [y EXCEPT !.generation = doc.runs[r].generation + 1]
      BY <1>2 DEF RunType
    <2>3. doc.runs[r].generation + 1 \in Nat
      BY <1>2 DEF RunType
    <2> HIDE DEF x, y
    <2> QED
      BY <2>1, <2>2, <2>3 DEF RunType
  <1>4. /\ doc'.runs = [doc.runs EXCEPT ![r] = x]
        /\ doc' \in [enabled : BOOLEAN, revision : Nat, runs : {doc'.runs}]
        /\ UNCHANGED <<attempts, gates, recoveries, executions, accepted>>
    BY <1>1, <1>2 DEF Answer, IInv, DocTyped
  <1>5. Known(x.checkpoint)
    BY <1>1, <1>3 DEF IInv, CheckpointsKnown, RunsKnown
  <1> HIDE DEF x
  <1>6. /\ DocTyped' /\ OnlyCurrent'
        /\ DOMAIN doc'.runs = DOMAIN doc.runs /\ doc'.runs[r] = x
        /\ \A q \in DOMAIN doc.runs : q # r => doc'.runs[q] = doc.runs[q]
        /\ RunsKnown'
        /\ \A c : Known(c) => Known(c)'
    BY <1>1, <1>3, <1>4, <1>5, RunRewritten
  <1>7. WorkersRun'
    BY <1>1, <1>4, <1>6 DEF IInv, WorkersRun, AtWork
  <1>8. CheckpointsKnown'
    BY <1>4, <1>6 DEF IInv, CheckpointsKnown
  <1>9. Leads'
    <2>1. \A q \in DOMAIN doc.runs : doc.runs[q].status \notin {"queued", "running", "debug-paused"}
      BY <1>1 DEF IInv, OnlyCurrent
    <2> QED
      BY <2>1, <1>1, <1>3, <1>4, <1>6 DEF IInv, Leads, WorkersRun, WorkersReady, CancelledGone,
         ParkedReady, AtWork
  <1> QED
    BY <1>4, <1>6, <1>7, <1>8, <1>9 DEF IInv, RestTyped, ExecutionsApart, GatesHold, OneAtWork

-----------------------------------------------------------------------------
(* Attempts.                                                                *)

(* An attempt past its gate is the only one, and works on the newest run.   *)
LEMMA Alone ==
  ASSUME IInv, NEW a \in attempts, AtWork(a)
  PROVE  /\ a \in AttemptType /\ a.run \in DOMAIN doc.runs /\ a.run = Current /\ a.run \in RunIds
         /\ doc.runs[a.run] \in RunType /\ doc.runs[a.run].status = "running"
         /\ \A b \in attempts : AtWork(b) => b = a
  <1>1. a \in AttemptType /\ a.run \in DOMAIN doc.runs /\ doc.runs[a.run].status = "running"
    BY DEF IInv, RestTyped, WorkersRun
  <1>2. a.run = Current
    BY <1>1 DEF IInv, OnlyCurrent
  <1> QED
    BY <1>1, <1>2, RunsTyped DEF IInv, OneAtWork, AtWork

LEMMA NobodyWorks ==
  ASSUME IInv, NEW r \in DOMAIN doc.runs, doc.runs[r].status \in {"queued", "debug-paused"}
  PROVE  /\ r = Current /\ r \in RunIds /\ doc.runs[r] \in RunType
         /\ \A a \in attempts : ~AtWork(a)
  <1>1. r = Current /\ r \in RunIds /\ doc.runs[r] \in RunType
    BY RunsTyped DEF IInv, OnlyCurrent
  <1>2. ASSUME NEW a \in attempts, AtWork(a)
        PROVE  FALSE
    BY <1>1, <1>2, Alone
  <1> QED
    BY <1>1, <1>2

(* An attempt ends and leaves the gate of its run open, whoever set it.     *)
LEMMA AttemptLeaves ==
  ASSUME IInv, NEW a \in attempts, NEW status \in {"succeeded", "failed", "cancelled"},
         Ends(a, status), OpensGate(a), UNCHANGED <<recoveries, accepted>>
  PROVE  /\ RestTyped' /\ ExecutionsApart'
         /\ \A r \in RunIds : gates'[r] # 0 =>
              /\ gates'[r] \in Executions /\ executions'[gates'[r]].status # "none"
              /\ \A b \in attempts' : b.execution = gates'[r] => b.run = r
         /\ attempts' = attempts \ {a}
         /\ \A r \in RunIds : r # a.run => gates'[r] = gates[r]
         /\ \A e \in Executions : /\ executions'[e].sealed = executions[e].sealed
                                  /\ e # a.execution => executions'[e] = executions[e]
  <1>1. /\ attempts' = attempts \ {a} /\ a \in AttemptType /\ a.execution \in Executions
        /\ executions' = [executions EXCEPT ![a.execution].status = status]
        /\ gates' = [gates EXCEPT ![a.run] = 0]
    BY DEF Ends, OpensGate, IInv, RestTyped, AttemptType
  <1>2. /\ executions' \in [Executions -> ExecutionType]
        /\ \A e \in Executions : /\ executions[e].status # "none" => executions'[e].status # "none"
                                 /\ executions'[e].sealed = executions[e].sealed
                                 /\ e # a.execution => executions'[e] = executions[e]
    BY <1>1 DEF IInv, RestTyped, ExecutionType
  <1>3. /\ gates' \in [RunIds -> Nat]
        /\ \A r \in RunIds : gates'[r] \in {gates[r], 0} /\ (r # a.run => gates'[r] = gates[r])
    BY <1>1 DEF IInv, RestTyped
  <1>4. RestTyped'
    BY <1>1, <1>2, <1>3 DEF IInv, RestTyped
  <1>5. ExecutionsApart'
    BY <1>1, <1>2 DEF IInv, RestTyped, ExecutionsApart, AttemptType
  <1> QED
    BY <1>1, <1>2, <1>3, <1>4, <1>5 DEF IInv, GatesHold

(* ... after it has written its run for the last time.                      *)
LEMMA WorkerLeaves ==
  ASSUME IInv, NEW a \in attempts, AtWork(a), NEW x \in RunType,
         doc'.runs = [doc.runs EXCEPT ![a.run] = x],
         doc' \in [enabled : BOOLEAN, revision : Nat, runs : {doc'.runs}],
         Known(x.checkpoint), x.status # "debug-paused",
         NEW status \in {"succeeded", "failed", "cancelled"},
         Ends(a, status), OpensGate(a), UNCHANGED <<recoveries, accepted>>
  PROVE  IInv'
  <1>1. /\ DocTyped' /\ OnlyCurrent' /\ RunsKnown'
        /\ DOMAIN doc'.runs = DOMAIN doc.runs /\ doc'.runs[a.run] = x
        /\ \A q \in DOMAIN doc.runs : q # a.run => doc'.runs[q] = doc.runs[q]
        /\ \A c : Known(c) => Known(c)'
    BY Alone, RunRewritten
  <1>2. /\ RestTyped' /\ ExecutionsApart' /\ GatesHold'
        /\ attempts' = attempts \ {a}
    BY AttemptLeaves DEF GatesHold
  <1>3. \A b \in attempts' : b \in attempts /\ ~AtWork(b)
    BY <1>2, Alone
  <1>4. WorkersRun' /\ OneAtWork'
    BY <1>1, <1>3 DEF IInv, WorkersRun, OneAtWork, AtWork
  <1>5. CheckpointsKnown'
    BY <1>1, <1>2 DEF IInv, CheckpointsKnown
  <1>6. Leads'
    <2>1. \A q \in DOMAIN doc.runs : q # a.run => doc.runs[q].status # "debug-paused"
      BY Alone DEF IInv, OnlyCurrent
    <2>2. \A b \in attempts : b.point = "cancelled" => b.run # a.run /\ b.run \in DOMAIN doc.runs
      BY Alone DEF IInv, Leads, CancelledGone, WorkersRun
    <2> QED
      BY <2>1, <2>2, <1>1, <1>3 DEF IInv, Leads, WorkersReady, CancelledGone, ParkedReady, AtWork
  <1> QED
    BY <1>1, <1>2, <1>4, <1>5, <1>6 DEF IInv

LEMMA AbortAttemptHolds ==
  ASSUME IInv, NEW a \in attempts, AbortAttempt(a)
  PROVE  IInv'
  <1>1. doc' = doc /\ Ends(a, "cancelled") /\ OpensGate(a) /\ UNCHANGED <<recoveries, accepted>>
    BY DEF AbortAttempt
  <1>2. /\ RestTyped' /\ ExecutionsApart' /\ GatesHold'
        /\ attempts' = attempts \ {a}
        /\ \A r \in RunIds : r # a.run => gates'[r] = gates[r]
        /\ \A e \in Executions : /\ executions'[e].sealed = executions[e].sealed
                                 /\ e # a.execution => executions'[e] = executions[e]
    BY <1>1, AttemptLeaves DEF GatesHold
  <1>3. doc.runs[a.run].status = "preparation-invalidated" /\ DOMAIN doc.runs \subseteq RunIds
    BY RunsTyped DEF AbortAttempt, IInv, Leads, CancelledGone
  <1>4. \A b \in attempts' : b \in attempts /\ b.execution \in Executions /\ b.execution # a.execution
                              /\ b.run \in DOMAIN doc.runs
    BY <1>2 DEF IInv, ExecutionsApart, RestTyped, AttemptType, WorkersRun
  <1>5. WorkersReady' /\ CancelledGone'
    BY <1>1, <1>2, <1>3, <1>4 DEF IInv, Leads, WorkersReady, CancelledGone, WorkersRun, AtWork
  <1>6. ParkedReady'
    <2> SUFFICES ASSUME NEW r \in DOMAIN doc.runs, doc.runs[r].status = "debug-paused", gates'[r] # 0
                 PROVE  ParkedAtGate(r, doc.runs[r].checkpoint)'
      BY <1>1, <1>2 DEF IInv, Leads, ParkedReady
    <2>1. gates'[r] = gates[r] /\ ParkedAtGate(r, doc.runs[r].checkpoint)
      BY <1>2, <1>3 DEF IInv, Leads, ParkedReady
    <2>2. a.point # "parked"
      BY DEF AbortAttempt
    <2> QED
      BY <1>1, <1>2, <1>4, <2>1, <2>2 DEF ParkedAtGate
  <1> QED
    BY <1>1, <1>2, <1>5, <1>6 DEF IInv, DocTyped, OnlyCurrent, WorkersRun, CheckpointsKnown, RunsKnown,
       Known, OneAtWork, Current, AtWork, Leads

LEMMA FailAttemptHolds ==
  ASSUME IInv, NEW a \in attempts, FailAttempt(a)
  PROVE  IInv'
  <1>1. /\ AtWork(a) /\ Ends(a, "failed") /\ OpensGate(a) /\ UNCHANGED <<recoveries, accepted>>
    BY DEF FailAttempt, AtWork
  <1>2. PICK status \in {"failed", "paused", "preparation-invalidated"} :
          doc' = IF doc.runs[a.run].generation = a.snapshot.generation
                 THEN [doc EXCEPT !.runs[a.run].status = status, !.runs[a.run].reacting = FALSE]
                 ELSE doc
    BY DEF FailAttempt
  <1>3. a.run \in DOMAIN doc.runs /\ doc.runs[a.run] \in RunType /\ Known(doc.runs[a.run].checkpoint)
        /\ doc.runs[a.run].status = "running"
    BY <1>1, Alone DEF IInv, CheckpointsKnown, RunsKnown
  <1>4. CASE doc' = doc
    <2>1. /\ doc'.runs = [doc.runs EXCEPT ![a.run] = doc.runs[a.run]]
          /\ doc' \in [enabled : BOOLEAN, revision : Nat, runs : {doc'.runs}]
      BY <1>3, <1>4, RunsTyped DEF IInv, DocTyped
    <2> QED
      BY <1>1, <1>3, <2>1, WorkerLeaves
  <1>5. CASE doc' = [doc EXCEPT !.runs[a.run].status = status, !.runs[a.run].reacting = FALSE]
    <2> DEFINE x == [doc.runs[a.run] EXCEPT !.status = status, !.reacting = FALSE]
    <2>1. x \in RunType /\ x.checkpoint = doc.runs[a.run].checkpoint /\ x.status = status
      BY <1>3 DEF RunType, Statuses
    <2>2. doc'.runs = [doc.runs EXCEPT ![a.run] = x]
          /\ doc' \in [enabled : BOOLEAN, revision : Nat, runs : {doc'.runs}]
      BY <1>3, <1>5 DEF IInv, DocTyped
    <2> HIDE DEF x
    <2> QED
      BY <1>1, <1>3, <2>1, <2>2, WorkerLeaves
  <1> QED
    BY <1>2, <1>4, <1>5

LEMMA AwaitReactionsHolds ==
  ASSUME IInv, NEW a \in attempts, AwaitReactions(a)
  PROVE  IInv'
  <1> DEFINE x == [a.snapshot EXCEPT !.status = "awaiting-reaction", !.reacting = TRUE]
  <1>1. /\ AtWork(a) /\ Ends(a, "succeeded") /\ OpensGate(a) /\ UNCHANGED <<recoveries, accepted>>
        /\ doc' = [doc EXCEPT !.enabled = a.enabled, !.runs[a.run] = x]
    BY DEF AwaitReactions, AtWork
  <1>2. /\ a.run \in DOMAIN doc.runs /\ a.snapshot \in RunType /\ a.enabled \in BOOLEAN
        /\ Known(a.snapshot.checkpoint)
    BY <1>1, Alone DEF AttemptType, IInv, CheckpointsKnown
  <1>3. x \in RunType /\ x.checkpoint = a.snapshot.checkpoint /\ x.status = "awaiting-reaction"
    BY <1>2 DEF RunType, Statuses
  <1> HIDE DEF x
  <1>4. doc'.runs = [doc.runs EXCEPT ![a.run] = x]
        /\ doc' \in [enabled : BOOLEAN, revision : Nat, runs : {doc'.runs}]
    BY <1>1, <1>2 DEF IInv, DocTyped
  <1> QED
    BY <1>1, <1>2, <1>3, <1>4, WorkerLeaves

LEMMA CommitHolds ==
  ASSUME IInv, NEW a \in attempts, Commit(a)
  PROVE  IInv'
  <1> DEFINE committed == a.snapshot.committed + 1
             run == doc.runs[a.run]
             X(status) == [a.snapshot EXCEPT
                             !.status = status, !.committed = committed, !.reacting = FALSE,
                             !.checkpoint = run.checkpoint, !.lastRequest = run.lastRequest]
  <1>1. /\ AtWork(a) /\ Ends(a, "succeeded") /\ OpensGate(a) /\ UNCHANGED <<recoveries, accepted>>
    BY DEF Commit, AtWork
  <1>2. PICK status \in Outcomes(run.requested, committed) :
          doc' = [doc EXCEPT !.enabled = a.enabled, !.revision = @ + 1, !.runs[a.run] = X(status)]
    BY DEF Commit
  <1>3. /\ a.run \in DOMAIN doc.runs /\ a.snapshot \in RunType /\ a.enabled \in BOOLEAN
        /\ run \in RunType /\ Known(run.checkpoint)
    BY <1>1, Alone DEF AttemptType, IInv, CheckpointsKnown, RunsKnown
  <1>4. /\ status \in Statuses /\ status # "debug-paused" /\ committed \in Nat
        /\ run.checkpoint \in CheckpointType /\ run.lastRequest \in RequestType
    BY <1>3 DEF Outcomes, Statuses, RunType
  <1> DEFINE x == X(status)
  <1> HIDE DEF committed, run
  <1>5. x \in RunType /\ x.checkpoint = run.checkpoint /\ x.status = status
    BY <1>3, <1>4 DEF RunType
  <1> HIDE DEF X, x
  <1>6. doc'.runs = [doc.runs EXCEPT ![a.run] = x]
        /\ doc' \in [enabled : BOOLEAN, revision : Nat, runs : {doc'.runs}]
    <2> DEFINE n == doc.revision + 1
               runs == [doc.runs EXCEPT ![a.run] = x]
    <2>1. doc' = [doc EXCEPT !.enabled = a.enabled, !.revision = n, !.runs = runs]
      BY <1>2 DEF x
    <2>2. n \in Nat /\ doc \in [enabled : BOOLEAN, revision : Nat, runs : Seq(RunType)]
      BY DEF IInv, DocTyped
    <2> HIDE DEF n, runs
    <2>3. doc'.runs = runs /\ doc'.enabled = a.enabled /\ doc'.revision = n
          /\ doc' \in [enabled : BOOLEAN, revision : Nat, runs : {runs}]
      BY <1>3, <2>1, <2>2
    <2> QED
      BY <2>3 DEF runs
  <1> QED
    BY <1>1, <1>3, <1>4, <1>5, <1>6, WorkerLeaves

(* Parking writes the run of the only attempt past its gate, and leaves     *)
(* nobody past a gate.                                                      *)
LEMMA ParkHolds ==
  ASSUME IInv, NEW a \in attempts, AtWork(a), NEW stage \in Nat, Park(a, stage),
         executions' \in [Executions -> ExecutionType],
         \A e \in Executions : executions'[e].status = executions[e].status,
         doc.runs[a.run].step, executions'[a.execution].sealed >= stage,
         UNCHANGED <<gates, recoveries, accepted>>
  PROVE  IInv'
  <1> DEFINE x == [doc.runs[a.run] EXCEPT !.status = "debug-paused", !.checkpoint = CheckpointAt(a, stage)]
             parked == [a EXCEPT !.stage = stage, !.point = "parked"]
  <1>1. /\ a \in AttemptType /\ a.run \in DOMAIN doc.runs /\ a.run = Current
        /\ doc.runs[a.run] \in RunType /\ \A b \in attempts : AtWork(b) => b = a
    BY Alone
  <1>2. /\ CheckpointAt(a, stage) \in CheckpointType /\ Known(CheckpointAt(a, stage))
        /\ CheckpointAt(a, stage) # NoCheckpoint
        /\ CheckpointAt(a, stage).execution = a.execution /\ CheckpointAt(a, stage).stage = stage
        /\ CheckpointAt(a, stage).generation = doc.runs[a.run].generation
        /\ CheckpointAt(a, stage).boundary = doc.runs[a.run].committed
    <2>1. /\ a.run \in Nat /\ a.execution \in Nat
          /\ doc.runs[a.run].generation \in Nat /\ doc.runs[a.run].committed \in Nat
      BY <1>1, ExecutionsAreNumbers DEF AttemptType, RunType
    <2>2. a.run # 0
      BY <1>1, RunsTyped DEF IInv
    <2> QED
      BY <1>1, <2>1, <2>2 DEF CheckpointAt, CheckpointType, Known, NoCheckpoint
  <1>3. /\ x \in RunType /\ x.checkpoint = CheckpointAt(a, stage) /\ x.step = doc.runs[a.run].step
        /\ x.generation = doc.runs[a.run].generation /\ x.committed = doc.runs[a.run].committed
    BY <1>1, <1>2 DEF RunType, Statuses
  <1>4. doc'.runs = [doc.runs EXCEPT ![a.run] = x]
        /\ doc' \in [enabled : BOOLEAN, revision : Nat, runs : {doc'.runs}]
    BY <1>1 DEF Park, IInv, DocTyped
  <1> HIDE DEF x
  <1>5. /\ DocTyped' /\ OnlyCurrent' /\ RunsKnown'
        /\ DOMAIN doc'.runs = DOMAIN doc.runs /\ doc'.runs[a.run] = x
        /\ \A q \in DOMAIN doc.runs : q # a.run => doc'.runs[q] = doc.runs[q]
        /\ \A c : Known(c) => Known(c)'
    BY <1>1, <1>2, <1>3, <1>4, RunRewritten
  <1>6. /\ parked \in AttemptType /\ ~AtWork(parked) /\ parked.run = a.run
        /\ parked.execution = a.execution /\ parked.snapshot = a.snapshot
        /\ parked.point = "parked" /\ parked.stage = stage
    BY <1>1 DEF AttemptType, AtWork
  <1>7. attempts' = (attempts \ {a}) \cup {parked}
    BY DEF Park
  <1> HIDE DEF parked
  <1>8. RestTyped'
    BY <1>6, <1>7 DEF IInv, RestTyped
  <1>9. WorkersRun' /\ OneAtWork'
    <2>1. \A b \in attempts' : ~AtWork(b) /\ b.run \in DOMAIN doc.runs
      BY <1>1, <1>6, <1>7 DEF IInv, WorkersRun
    <2> QED
      BY <2>1, <1>5 DEF WorkersRun, OneAtWork, AtWork
  <1>10. ExecutionsApart'
    <2>1. \A b \in attempts' : b.execution \in Executions
      BY <1>8 DEF RestTyped, AttemptType
    <2> QED
      BY <2>1, <1>1, <1>6, <1>7 DEF IInv, ExecutionsApart
  <1>11. GatesHold'
    BY <1>6, <1>7 DEF IInv, GatesHold
  <1>12. CheckpointsKnown'
    BY <1>5, <1>6, <1>7 DEF IInv, CheckpointsKnown
  <1>13. Leads'
    <2>1. \A q \in DOMAIN doc.runs : q # a.run => doc.runs[q].status # "debug-paused"
      BY <1>1 DEF IInv, OnlyCurrent
    <2>2. \A b \in attempts : b.point = "cancelled" => b.run # a.run /\ b.run \in DOMAIN doc.runs
      BY Alone DEF IInv, Leads, CancelledGone, WorkersRun
    <2>3. WorkersReady'
      BY <1>1, <1>6, <1>7 DEF WorkersReady, AtWork
    <2>4. CancelledGone'
      BY <2>2, <1>5, <1>6, <1>7 DEF IInv, Leads, CancelledGone
    <2>5. /\ a.execution \in Executions /\ gates[a.run] = a.execution
          /\ executions[a.execution].status = "running"
      BY <1>1 DEF AttemptType, IInv, Leads, WorkersReady
    <2>6. /\ parked \in attempts' /\ parked.execution = gates'[a.run] /\ parked.execution = x.checkpoint.execution
          /\ parked.point = "parked" /\ parked.stage = x.checkpoint.stage
          /\ executions'[parked.execution].status = "running"
      BY <2>5, <1>2, <1>3, <1>6, <1>7
    <2>7. ASSUME NEW r \in DOMAIN doc'.runs, doc'.runs[r].status = "debug-paused"
          PROVE  r = a.run /\ doc'.runs[r] = x
      BY <2>1, <2>7, <1>5
    <2>8. /\ x.step /\ x.checkpoint # NoCheckpoint /\ x.checkpoint.execution \in Executions
          /\ x.checkpoint.generation = x.generation /\ x.checkpoint.boundary = x.committed
          /\ executions'[x.checkpoint.execution].sealed >= x.checkpoint.stage
      BY <2>5, <1>2, <1>3
    <2>9. ParkedReady'
      BY <2>6, <2>7, <2>8 DEF ParkedReady, ParkedAtGate
    <2> QED
      BY <2>3, <2>4, <2>9 DEF Leads
  <1> QED
    BY <1>5, <1>8, <1>9, <1>10, <1>11, <1>12, <1>13 DEF IInv

LEMMA ArriveHolds ==
  ASSUME IInv, NEW a \in attempts, Arrive(a)
  PROVE  IInv'
  <1>1. /\ AtWork(a) /\ Park(a, a.stage) /\ UNCHANGED <<gates, recoveries, executions, accepted>>
        /\ a.stage \in Nat /\ a.point = "arriving"
    BY DEF Arrive, AtWork, IInv, RestTyped, AttemptType
  <1>2. executions \in [Executions -> ExecutionType]
    BY DEF IInv, RestTyped
  <1>3. doc.runs[a.run].step /\ executions[a.execution].sealed >= a.stage
    BY <1>1 DEF IInv, Leads, WorkersReady
  <1> QED
    BY <1>1, <1>2, <1>3, ParkHolds

LEMMA FinishStageHolds ==
  ASSUME IInv, NEW a \in attempts, FinishStage(a)
  PROVE  IInv'
  <1>1. /\ AtWork(a) /\ Park(a, a.stage + 1) /\ UNCHANGED <<gates, recoveries, accepted>>
        /\ executions' = [executions EXCEPT ![a.execution].sealed = a.stage + 1]
        /\ a.stage + 1 \in Nat /\ a.stage < LastStage /\ a.stage \in Nat
    BY DEF FinishStage, AtWork, IInv, RestTyped, AttemptType
  <1>2. /\ executions' \in [Executions -> ExecutionType]
        /\ \A e \in Executions : executions'[e].status = executions[e].status
        /\ executions'[a.execution].sealed >= a.stage + 1
    <2> DEFINE n == a.stage + 1
    <2>1. /\ n \in Nat /\ executions' = [executions EXCEPT ![a.execution].sealed = n]
          /\ a.execution \in Executions
      BY <1>1 DEF IInv, RestTyped, AttemptType
    <2>2. n >= a.stage + 1
      BY <1>1
    <2> HIDE DEF n
    <2>3. /\ executions' \in [Executions -> ExecutionType]
          /\ \A e \in Executions : executions'[e].status = executions[e].status
          /\ executions'[a.execution].sealed = n
      BY <2>1 DEF IInv, RestTyped, ExecutionType
    <2> QED
      BY <2>2, <2>3
  <1>3. doc.runs[a.run].step
    BY <1>1, StagesAssumption DEF IInv, Leads, WorkersReady
  <1> QED
    BY <1>1, <1>2, <1>3, ParkHolds

(* A queued run has nobody at work; its attempt becomes the only one, with  *)
(* an execution no attempt and no gate has.                                 *)
LEMMA StartAttemptHolds ==
  ASSUME IInv, NEW r \in DOMAIN doc.runs, StartAttempt(r)
  PROVE  IInv'
  <1> DEFINE x == [doc.runs[r] EXCEPT !.status = "running"]
             e == NewExecution
             first == IF recoveries[r] # NoCheckpoint THEN recoveries[r].stage
                      ELSE IF doc.runs[r].reacting THEN ReactionStage ELSE 0
             new == [run |-> r, execution |-> e, enabled |-> doc.enabled,
                     revision |-> doc.revision, snapshot |-> x,
                     stage |-> IF doc.runs[r].step THEN first ELSE LastStage,
                     point |-> IF doc.runs[r].step /\ ~(recoveries[r] # NoCheckpoint) THEN "arriving" ELSE "working"]
  <1>1. /\ doc.runs[r].status = "queued" /\ \E f \in Executions : executions[f].status = "none"
        /\ doc' = [doc EXCEPT !.runs[r] = x] /\ attempts' = attempts \cup {new}
        /\ executions' = [executions EXCEPT ![e] = [status |-> "running", sealed |-> first, damaged |-> FALSE]]
        /\ gates' = IF doc.runs[r].step THEN [gates EXCEPT ![r] = e] ELSE gates
        /\ recoveries' = [recoveries EXCEPT ![r] = NoCheckpoint]
        /\ UNCHANGED accepted
    BY DEF StartAttempt
  <1>2. /\ r = Current /\ r \in RunIds /\ r \in Nat /\ doc.runs[r] \in RunType
        /\ \A a \in attempts : ~AtWork(a)
    BY <1>1, NobodyWorks DEF RunIds
  <1>3. e \in Executions /\ executions[e].status = "none"
    BY <1>1 DEF NewExecution
  <1>4. /\ x \in RunType /\ x.checkpoint = doc.runs[r].checkpoint /\ x.status = "running"
        /\ x.step = doc.runs[r].step /\ Known(x.checkpoint)
    BY <1>2 DEF RunType, Statuses, IInv, CheckpointsKnown, RunsKnown
  <1>5. doc'.runs = [doc.runs EXCEPT ![r] = x]
        /\ doc' \in [enabled : BOOLEAN, revision : Nat, runs : {doc'.runs}]
    BY <1>1, <1>2 DEF IInv, DocTyped
  <1>6. first \in Nat /\ LastStage \in Nat
    BY <1>2, StagesAssumption DEF IInv, RestTyped, CheckpointType
  <1> HIDE DEF x, e, first
  <1>7. /\ new \in AttemptType /\ AtWork(new) /\ new.run = r /\ new.execution = e /\ new.snapshot = x
        /\ new.stage = IF doc.runs[r].step THEN first ELSE LastStage
        /\ ~doc.runs[r].step => new.point = "working"
    BY <1>2, <1>3, <1>4, <1>6 DEF AttemptType, AtWork, IInv, DocTyped
  <1> HIDE DEF new
  <1>8. /\ DocTyped' /\ OnlyCurrent' /\ RunsKnown'
        /\ DOMAIN doc'.runs = DOMAIN doc.runs /\ doc'.runs[r] = x
        /\ \A q \in DOMAIN doc.runs : q # r => doc'.runs[q] = doc.runs[q]
        /\ \A c : Known(c) => Known(c)'
    BY <1>2, <1>4, <1>5, RunRewritten
  <1>9. /\ executions' \in [Executions -> ExecutionType] /\ executions'[e].status = "running"
        /\ executions'[e].sealed = first
        /\ \A f \in Executions : executions[f].status # "none" => executions'[f].status # "none"
    BY <1>1, <1>3, <1>6 DEF IInv, RestTyped, ExecutionType
  <1>10. RestTyped'
    <2>1. attempts' \subseteq AttemptType
      BY <1>1, <1>7 DEF IInv, RestTyped
    <2>2. gates' \in [RunIds -> Nat]
      BY <1>1, <1>3, ExecutionsAreNumbers DEF IInv, RestTyped
    <2>3. recoveries' \in [RunIds -> CheckpointType]
      BY <1>1, NoCheckpointType DEF IInv, RestTyped
    <2> QED
      BY <2>1, <2>2, <2>3, <1>1, <1>9 DEF IInv, RestTyped
  <1>11. WorkersRun'
    BY <1>1, <1>2, <1>4, <1>7, <1>8 DEF IInv, WorkersRun, AtWork
  <1>12. OneAtWork'
    BY <1>1, <1>2 DEF OneAtWork, AtWork
  <1>13. \A a \in attempts : a.execution \in Executions /\ a.execution # e
    BY <1>3 DEF IInv, RestTyped, AttemptType, ExecutionsApart
  <1>14. ExecutionsApart'
    BY <1>1, <1>3, <1>7, <1>9, <1>13 DEF IInv, ExecutionsApart
  <1>15. GatesHold'
    <2> SUFFICES ASSUME NEW q \in RunIds, gates'[q] # 0
                 PROVE  /\ gates'[q] \in Executions /\ executions'[gates'[q]].status # "none"
                        /\ \A a \in attempts' : a.execution = gates'[q] => a.run = q
      BY DEF GatesHold
    <2>1. CASE gates'[q] = gates[q]
      <3>1. gates[q] \in Executions /\ executions[gates[q]].status # "none" /\ gates[q] # e
        BY <2>1, <1>3 DEF IInv, GatesHold
      <3> QED
        BY <2>1, <3>1, <1>1, <1>7, <1>9 DEF IInv, GatesHold
    <2>2. CASE q = r /\ gates'[q] = e
      BY <2>2, <1>1, <1>3, <1>7, <1>9, <1>13
    <2> QED
      BY <2>1, <2>2, <1>1, <1>2 DEF IInv, RestTyped
  <1>16. CheckpointsKnown'
    BY <1>1, <1>4, <1>7, <1>8 DEF IInv, CheckpointsKnown
  <1>17. WorkersReady'
    <2> SUFFICES ASSUME NEW a \in attempts', AtWork(a)
                 PROVE  /\ executions'[a.execution].status = "running"
                        /\ IF doc'.runs[a.run].step THEN gates'[a.run] = a.execution
                           ELSE a.stage = LastStage /\ a.point = "working"
                        /\ a.point = "arriving" => executions'[a.execution].sealed >= a.stage
      BY DEF WorkersReady, AtWork
    <2>1. a = new
      BY <1>1, <1>2
    <2>2. doc.runs[r].step => gates'[r] = e
      BY <1>1, <1>2 DEF IInv, RestTyped
    <2>3. new.point = "arriving" => executions'[e].sealed >= new.stage
      BY <1>6, <1>7, <1>9
    <2> QED
      BY <2>1, <2>2, <2>3, <1>4, <1>7, <1>8, <1>9
  <1>18. CancelledGone' /\ ParkedReady'
    <2>1. \A a \in attempts' : a.point = "cancelled" => a \in attempts /\ a.run # r /\ a.run \in DOMAIN doc.runs
      BY <1>1, <1>7 DEF IInv, Leads, CancelledGone, WorkersRun, AtWork
    <2>2. \A q \in DOMAIN doc.runs : doc.runs[q].status # "debug-paused"
      BY <1>1, <1>2 DEF IInv, OnlyCurrent
    <2> QED
      BY <2>1, <2>2, <1>4, <1>8 DEF IInv, Leads, CancelledGone, ParkedReady
  <1> QED
    BY <1>8, <1>10, <1>11, <1>12, <1>14, <1>15, <1>16, <1>17, <1>18 DEF IInv, Leads

-----------------------------------------------------------------------------
(* Requests for a step.                                                     *)

LEMMA RequestsTyped ==
  ASSUME IInv, NEW request \in Asked
  PROVE  /\ request \in RequestType /\ request.checkpoint.run \in DOMAIN doc.runs
         /\ Known(request.checkpoint)
  <1>1. /\ request.checkpoint \in Seen /\ request.checkpoint # NoCheckpoint
        /\ request \in [checkpoint : Seen, id : 1 .. 2]
    BY DEF Asked
  <1>2. \A c \in Seen : c \in CheckpointType /\ Known(c)
    BY RunsTyped DEF Seen, IInv, CheckpointsKnown, RunsKnown, RestTyped, RequestType, RunType
  <1> QED
    BY <1>1, <1>2 DEF RequestType, Known

(* What happens to the attempt at a gate happens to one attempt at most,    *)
(* and to one of that run.                                                  *)
LEMMA GateMoves ==
  ASSUME IInv, NEW r \in RunIds, NEW p \in {"working", "cancelled"},
         attempts' = (attempts \ AtGate(r)) \cup {[a EXCEPT !.point = p] : a \in AtGate(r)}
  PROVE  /\ attempts' \subseteq AttemptType
         /\ \A b \in attempts' : \E a \in attempts :
              /\ b.run = a.run /\ b.execution = a.execution /\ b.snapshot = a.snapshot
              /\ b = a \/ (b.point = p /\ a.run = r /\ a.execution = gates[r])
         /\ \A b, c \in attempts' : b.execution = c.execution => b = c
         /\ \A b, c \in attempts' : b \notin attempts /\ c \notin attempts => b = c
  <1> DEFINE Moved(a) == [a EXCEPT !.point = p]
  <1>1. \A a \in attempts : a \in AttemptType /\ a.execution \in Executions
    BY DEF IInv, RestTyped, AttemptType
  <1>2. \A a \in attempts : /\ Moved(a) \in AttemptType /\ Moved(a).point = p
                             /\ Moved(a).run = a.run /\ Moved(a).execution = a.execution
                             /\ Moved(a).snapshot = a.snapshot
    BY <1>1 DEF AttemptType
  <1>3. /\ AtGate(r) \subseteq attempts /\ \A a \in AtGate(r) : a.execution = gates[r] /\ a.run = r
        /\ \A a, b \in AtGate(r) : a = b
    <2>1. AtGate(r) = {a \in attempts : a.execution = gates[r]}
      BY DEF AtGate
    <2>2. \A a \in AtGate(r) : gates[r] # 0
      BY <2>1, <1>1, ExecutionsAreNumbers
    <2> QED
      BY <2>1, <2>2 DEF IInv, GatesHold, ExecutionsApart
  <1>4. attempts' = (attempts \ AtGate(r)) \cup {Moved(a) : a \in AtGate(r)}
    OBVIOUS
  <1> HIDE DEF Moved
  <1>5. \A b \in attempts' : \E a \in attempts : b = IF a \in AtGate(r) THEN Moved(a) ELSE a
    BY <1>3, <1>4
  <1>6. \A b \in attempts' : b \in AttemptType /\ \E a \in attempts :
              /\ b.run = a.run /\ b.execution = a.execution /\ b.snapshot = a.snapshot
              /\ b = a \/ (b.point = p /\ a.run = r /\ a.execution = gates[r])
    BY <1>1, <1>2, <1>3, <1>5
  <1>7. \A b, c \in attempts' : b.execution = c.execution => b = c
    BY <1>2, <1>5 DEF IInv, ExecutionsApart
  <1>8. \A b, c \in attempts' : b \notin attempts /\ c \notin attempts => b = c
    BY <1>3, <1>4
  <1> QED
    BY <1>6, <1>7, <1>8

(* Whatever a request does to a parked run, the attempt at its gate is the  *)
(* only one that can be past a gate afterwards.                             *)
LEMMA StepRequested ==
  ASSUME IInv, NEW r \in DOMAIN doc.runs, doc.runs[r].status = "debug-paused",
         NEW x \in RunType, Known(x.checkpoint),
         doc' = [doc EXCEPT !.runs = [doc.runs EXCEPT ![r] = x]],
         x.step = doc.runs[r].step, x.status # "debug-paused",
         NEW p \in {"working", "cancelled"}, p = "working" => x.status = "running" /\ gates' = gates,
         p = "cancelled" => x.status = "preparation-invalidated",
         attempts' = (attempts \ AtGate(r)) \cup {[a EXCEPT !.point = p] : a \in AtGate(r)},
         gates' \in {gates, [gates EXCEPT ![r] = 0]},
         UNCHANGED <<recoveries, executions>>,
         accepted' \subseteq RequestType, \A request \in accepted' : Known(request.checkpoint)
  PROVE  IInv'
  <1>1. /\ r = Current /\ r \in RunIds /\ \A a \in attempts : ~AtWork(a)
    BY NobodyWorks
  <1>2. doc'.runs = [doc.runs EXCEPT ![r] = x]
        /\ doc' \in [enabled : BOOLEAN, revision : Nat, runs : {doc'.runs}]
    BY DEF IInv, DocTyped
  <1>3. /\ DocTyped' /\ OnlyCurrent' /\ RunsKnown'
        /\ DOMAIN doc'.runs = DOMAIN doc.runs /\ doc'.runs[r] = x
        /\ \A q \in DOMAIN doc.runs : q # r => doc'.runs[q] = doc.runs[q]
        /\ \A c : Known(c) => Known(c)'
    BY <1>1, <1>2, RunRewritten
  <1>4. /\ attempts' \subseteq AttemptType
        /\ \A b \in attempts' : \E a \in attempts :
              /\ b.run = a.run /\ b.execution = a.execution /\ b.snapshot = a.snapshot
              /\ b = a \/ (b.point = p /\ a.run = r /\ a.execution = gates[r])
        /\ \A b, c \in attempts' : b.execution = c.execution => b = c
        /\ \A b, c \in attempts' : b \notin attempts /\ c \notin attempts => b = c
    BY <1>1, GateMoves
  <1>5. gates' \in [RunIds -> Nat] /\ \A q \in RunIds : gates'[q] \in {gates[q], 0}
    BY DEF IInv, RestTyped
  <1>6. RestTyped'
    BY <1>4, <1>5 DEF IInv, RestTyped
  <1>7. WorkersRun'
    BY <1>1, <1>3, <1>4 DEF IInv, WorkersRun, AtWork
  <1>8. ExecutionsApart'
    BY <1>4 DEF IInv, ExecutionsApart
  <1>9. GatesHold'
    BY <1>4, <1>5 DEF IInv, GatesHold
  <1>10. CheckpointsKnown'
    BY <1>3, <1>4 DEF IInv, CheckpointsKnown
  <1>11. OneAtWork'
    BY <1>1, <1>4 DEF OneAtWork, AtWork
  <1>12. WorkersReady'
    <2> SUFFICES ASSUME NEW b \in attempts', AtWork(b)
                 PROVE  /\ executions[b.execution].status = "running"
                        /\ doc'.runs[b.run].step /\ gates'[b.run] = b.execution
                        /\ b.point = "working"
      BY DEF WorkersReady, AtWork
    <2>1. b.run = r /\ b.execution = gates[r] /\ b.point = p /\ p = "working"
      BY <1>1, <1>4 DEF AtWork
    <2>2. gates[r] # 0
      BY <2>1, <1>4, ExecutionsAreNumbers DEF AttemptType
    <2>3. doc.runs[r].step /\ executions[gates[r]].status = "running"
      BY <2>2 DEF IInv, Leads, ParkedReady, ParkedAtGate
    <2> QED
      BY <2>1, <2>3, <1>3
  <1>13. CancelledGone'
    <2> SUFFICES ASSUME NEW b \in attempts', b.point = "cancelled"
                 PROVE  doc'.runs[b.run].status = "preparation-invalidated"
      BY DEF CancelledGone
    <2>1. PICK a \in attempts : /\ b.run = a.run
                                /\ b = a \/ (b.point = p /\ a.run = r)
      BY <1>4
    <2>2. CASE b = a
      BY <2>2, <1>3 DEF IInv, Leads, CancelledGone, WorkersRun
    <2>3. CASE b.point = p /\ a.run = r
      BY <2>1, <2>3, <1>3
    <2> QED
      BY <2>1, <2>2, <2>3
  <1>14. ParkedReady'
    <2>1. \A q \in DOMAIN doc.runs : doc'.runs[q].status # "debug-paused"
      BY <1>1, <1>3 DEF IInv, OnlyCurrent
    <2> QED
      BY <2>1, <1>3 DEF ParkedReady
  <1> QED
    BY <1>3, <1>6, <1>7, <1>8, <1>9, <1>10, <1>11, <1>12, <1>13, <1>14 DEF IInv, Leads

LEMMA RefuseHolds ==
  ASSUME IInv, NEW request \in Asked, Refuse(request)
  PROVE  IInv'
  <1> DEFINE r == request.checkpoint.run
             x == Invalidated(doc.runs[r])
  <1>1. /\ r \in DOMAIN doc.runs /\ doc.runs[r].status = "debug-paused" /\ doc.runs[r] \in RunType
    BY RequestsTyped, RunsTyped DEF Refuse, Applies, IInv
  <1>2. /\ x \in RunType /\ x.checkpoint = doc.runs[r].checkpoint /\ x.step = doc.runs[r].step
        /\ x.status = "preparation-invalidated"
    BY <1>1, InvalidatedType
  <1>3. /\ doc' = [doc EXCEPT !.runs = [doc.runs EXCEPT ![r] = x]]
        /\ attempts' = (attempts \ AtGate(r)) \cup {[a EXCEPT !.point = "cancelled"] : a \in AtGate(r)}
        /\ gates' = [gates EXCEPT ![r] = 0]
        /\ UNCHANGED <<recoveries, executions, accepted>>
    BY DEF Refuse
  <1>4. /\ accepted' \subseteq RequestType /\ \A q \in accepted' : Known(q.checkpoint)
        /\ Known(x.checkpoint)
    BY <1>1, <1>2, <1>3 DEF IInv, RestTyped, CheckpointsKnown, RunsKnown
  <1> HIDE DEF r, x
  <1> QED
    BY <1>1, <1>2, <1>3, <1>4, StepRequested

LEMMA ReleaseHolds ==
  ASSUME IInv, NEW request \in Asked, Release(request)
  PROVE  IInv'
  <1> DEFINE r == request.checkpoint.run
             x == [doc.runs[r] EXCEPT !.status = "running", !.lastRequest = request]
  <1>1. /\ r \in DOMAIN doc.runs /\ doc.runs[r].status = "debug-paused" /\ doc.runs[r] \in RunType
        /\ request \in RequestType /\ Known(request.checkpoint)
    BY RequestsTyped, RunsTyped DEF Release, Applies, IInv
  <1>2. /\ x \in RunType /\ x.checkpoint = doc.runs[r].checkpoint /\ x.step = doc.runs[r].step
        /\ x.status = "running"
    BY <1>1 DEF RunType, Statuses
  <1>3. /\ doc' = [doc EXCEPT !.runs[r].status = "running", !.runs[r].lastRequest = request]
        /\ attempts' = (attempts \ AtGate(r)) \cup {[a EXCEPT !.point = "working"] : a \in AtGate(r)}
        /\ accepted' = accepted \cup {request}
        /\ UNCHANGED <<gates, recoveries, executions>>
    BY DEF Release
  <1>4. doc' = [doc EXCEPT !.runs = [doc.runs EXCEPT ![r] = x]]
    BY <1>1, <1>3 DEF IInv, DocTyped
  <1>5. /\ accepted' \subseteq RequestType /\ \A q \in accepted' : Known(q.checkpoint)
        /\ Known(x.checkpoint)
    BY <1>1, <1>2, <1>3 DEF IInv, RestTyped, CheckpointsKnown, RunsKnown
  <1> HIDE DEF r, x
  <1> QED
    BY <1>1, <1>2, <1>3, <1>4, <1>5, StepRequested

(* A recovery queues the run again; nobody is past a gate before its        *)
(* attempt starts.                                                          *)
LEMMA RecoverHolds ==
  ASSUME IInv, NEW request \in Asked, Recover(request)
  PROVE  IInv'
  <1> DEFINE r == request.checkpoint.run
             source == request.checkpoint.execution
             x == [doc.runs[r] EXCEPT !.status = "queued", !.lastRequest = request]
  <1>1. /\ r \in DOMAIN doc.runs /\ doc.runs[r].status = "debug-paused" /\ doc.runs[r] \in RunType
        /\ request \in RequestType /\ Known(request.checkpoint)
        /\ r = Current /\ \A a \in attempts : ~AtWork(a)
    BY RequestsTyped, RunsTyped, NobodyWorks DEF Recover, Applies, IInv
  <1>2. x \in RunType /\ x.checkpoint = doc.runs[r].checkpoint /\ x.status = "queued"
    BY <1>1 DEF RunType, Statuses
  <1>3. /\ doc' = [doc EXCEPT !.runs[r].status = "queued", !.runs[r].lastRequest = request]
        /\ recoveries' = [recoveries EXCEPT ![r] = request.checkpoint]
        /\ executions' = [executions EXCEPT ![source].status = IF @ = "running" THEN "cancelled" ELSE @]
        /\ accepted' = accepted \cup {request}
        /\ UNCHANGED <<attempts, gates>>
    BY DEF Recover
  <1>4. doc'.runs = [doc.runs EXCEPT ![r] = x]
        /\ doc' \in [enabled : BOOLEAN, revision : Nat, runs : {doc'.runs}]
    BY <1>1, <1>3 DEF IInv, DocTyped
  <1>5. Known(x.checkpoint)
    BY <1>1, <1>2 DEF IInv, CheckpointsKnown, RunsKnown
  <1>6. /\ executions' \in [Executions -> ExecutionType]
        /\ \A e \in Executions : executions[e].status # "none" => executions'[e].status # "none"
    BY <1>3 DEF IInv, RestTyped, ExecutionType
  <1> HIDE DEF r, x, source
  <1>7. /\ DocTyped' /\ OnlyCurrent' /\ RunsKnown'
        /\ DOMAIN doc'.runs = DOMAIN doc.runs /\ doc'.runs[r] = x
        /\ \A q \in DOMAIN doc.runs : q # r => doc'.runs[q] = doc.runs[q]
        /\ \A c : Known(c) => Known(c)'
    BY <1>1, <1>2, <1>4, <1>5, RunRewritten
  <1>8. recoveries' \in [RunIds -> CheckpointType]
    BY <1>1, <1>3 DEF IInv, RestTyped, RequestType
  <1>9. RestTyped'
    BY <1>1, <1>3, <1>6, <1>8 DEF IInv, RestTyped
  <1>10. WorkersRun' /\ OneAtWork'
    BY <1>1, <1>3, <1>7 DEF IInv, WorkersRun, OneAtWork, AtWork
  <1>11. ExecutionsApart' /\ GatesHold'
    BY <1>3, <1>6 DEF IInv, ExecutionsApart, GatesHold, RestTyped, AttemptType
  <1>12. CheckpointsKnown'
    BY <1>1, <1>3, <1>7 DEF IInv, CheckpointsKnown
  <1>13. Leads'
    <2>1. \A q \in DOMAIN doc.runs : q # r => doc.runs[q].status # "debug-paused"
      BY <1>1 DEF IInv, OnlyCurrent
    <2>2. WorkersReady'
      BY <1>1, <1>3 DEF WorkersReady, AtWork
    <2>3. CancelledGone'
      BY <1>1, <1>3, <1>7 DEF IInv, Leads, CancelledGone, WorkersRun
    <2>4. ParkedReady'
      BY <2>1, <1>2, <1>7 DEF ParkedReady
    <2> QED
      BY <2>2, <2>3, <2>4 DEF Leads
  <1> QED
    BY <1>7, <1>9, <1>10, <1>11, <1>12, <1>13 DEF IInv

-----------------------------------------------------------------------------
(* What happens around the process.                                         *)

LEMMA DamageHolds ==
  ASSUME IInv, NEW e \in Executions, Damage(e)
  PROVE  IInv'
  <1>1. /\ executions' = [executions EXCEPT ![e].damaged = TRUE]
        /\ UNCHANGED <<doc, attempts, gates, recoveries, accepted>>
    BY DEF Damage
  <1>2. /\ executions' \in [Executions -> ExecutionType]
        /\ \A f \in Executions : /\ executions'[f].status = executions[f].status
                                 /\ executions'[f].sealed = executions[f].sealed
    BY <1>1 DEF IInv, RestTyped, ExecutionType
  <1>3. DocTyped' /\ RestTyped' /\ OnlyCurrent' /\ WorkersRun' /\ CheckpointsKnown' /\ OneAtWork'
    BY <1>1, <1>2 DEF IInv, DocTyped, RestTyped, OnlyCurrent, WorkersRun, CheckpointsKnown, RunsKnown,
       Known, OneAtWork, Current
  <1>4. ExecutionsApart' /\ GatesHold'
    BY <1>1, <1>2 DEF IInv, ExecutionsApart, GatesHold, RestTyped, AttemptType
  <1>5. \A a \in attempts : a.execution \in Executions
    BY DEF IInv, RestTyped, AttemptType
  <1>6. WorkersReady' /\ CancelledGone'
    BY <1>1, <1>2, <1>5 DEF IInv, Leads, WorkersReady, CancelledGone, AtWork
  <1>7. ParkedReady'
    BY <1>1, <1>2, <1>5 DEF IInv, Leads, ParkedReady, ParkedAtGate
  <1> QED
    BY <1>3, <1>4, <1>6, <1>7 DEF IInv, Leads

(* A restart leaves no attempt; a run is parked afterwards only if it was.  *)
LEMMA RestoredRun ==
  ASSUME IInv, NEW r \in DOMAIN doc.runs
  PROVE  /\ Restored(r) \in RunType /\ Restored(r).checkpoint = doc.runs[r].checkpoint
         /\ Restored(r).status \in {"queued", "running", "debug-paused"} => r = Current
         /\ Restored(r).status = "debug-paused" => Restored(r) = doc.runs[r]
  <1> DEFINE run == doc.runs[r]
             n == run.generation + 1
             stopped == [run EXCEPT !.status = "paused", !.generation = n]
  <1>1. run \in RunType
    BY RunsTyped DEF IInv
  <1>2. Restored(r) \in {run, [run EXCEPT !.status = "paused", !.generation = @ + 1], Invalidated(run)}
    BY DEF Restored
  <1>3. n \in Nat /\ stopped = [run EXCEPT !.status = "paused", !.generation = @ + 1]
    BY <1>1 DEF RunType
  <1>4. run.status \in {"queued", "running", "debug-paused"} => r = Current
    BY DEF IInv, OnlyCurrent
  <1> HIDE DEF n, run
  <1>5. stopped \in RunType /\ stopped.checkpoint = run.checkpoint /\ stopped.status = "paused"
    BY <1>1, <1>3 DEF RunType, Statuses
  <1> HIDE DEF stopped
  <1>6. Restored(r) \in {run, stopped, Invalidated(run)}
    BY <1>2, <1>3
  <1> QED
    BY <1>1, <1>4, <1>5, <1>6, InvalidatedType DEF run

LEMMA RestartHolds ==
  ASSUME IInv, Restart
  PROVE  IInv'
  <1> DEFINE runs == [r \in DOMAIN doc.runs |-> Restored(r)]
  <1>1. /\ doc' = [doc EXCEPT !.runs = runs] /\ attempts' = {}
        /\ gates' = [r \in RunIds |-> 0] /\ recoveries' = [r \in RunIds |-> NoCheckpoint]
        /\ executions' = [e \in Executions |->
             [executions[e] EXCEPT !.status = IF @ = "running" THEN "failed" ELSE @]]
        /\ UNCHANGED accepted
    BY DEF Restart
  <1>2. /\ Len(doc.runs) \in Nat /\ DOMAIN doc.runs = 1 .. Len(doc.runs) /\ Current = Len(doc.runs)
    BY RunsTyped DEF IInv
  <1>3. runs \in [1 .. Len(doc.runs) -> RunType]
    BY <1>2, RestoredRun
  <1>4. runs \in Seq(RunType) /\ Len(runs) = Len(doc.runs)
    BY <1>2, <1>3, FunctionIsSeq
  <1>5. \A r \in DOMAIN doc.runs : runs[r] = Restored(r)
    OBVIOUS
  <1> HIDE DEF runs
  <1>6. doc'.runs = runs /\ DocTyped'
    BY <1>1, <1>4 DEF IInv, DocTyped
  <1>7. DOMAIN doc'.runs = DOMAIN doc.runs /\ Current' = Current
    BY <1>2, <1>3, <1>4, <1>6 DEF Current
  <1>8. OnlyCurrent'
    BY <1>5, <1>6, <1>7, RestoredRun DEF OnlyCurrent
  <1>9. RestTyped'
    BY <1>1, NoCheckpointType DEF IInv, RestTyped, ExecutionType
  <1>10. CheckpointsKnown'
    BY <1>1, <1>5, <1>6, <1>7, RestoredRun DEF IInv, CheckpointsKnown, RunsKnown, Known
  <1>11. WorkersRun' /\ ExecutionsApart' /\ GatesHold' /\ OneAtWork'
    BY <1>1 DEF WorkersRun, ExecutionsApart, GatesHold, OneAtWork
  <1>12. Leads'
    <2>1. \A e \in Executions : executions'[e].sealed = executions[e].sealed
      BY <1>1 DEF IInv, RestTyped, ExecutionType
    <2>2. \A r \in DOMAIN doc.runs : gates'[r] = 0
      BY <1>1, RunsTyped DEF IInv
    <2>3. ParkedReady'
      BY <2>1, <2>2, <1>5, <1>6, <1>7, RestoredRun DEF IInv, Leads, ParkedReady
    <2> QED
      BY <2>3, <1>1 DEF Leads, WorkersReady, CancelledGone
  <1> QED
    BY <1>6, <1>8, <1>9, <1>10, <1>11, <1>12 DEF IInv

-----------------------------------------------------------------------------
LEMMA StepHolds == IInv /\ [Next]_vars => IInv'
  <1> SUFFICES ASSUME IInv, [Next]_vars
               PROVE  IInv'
    OBVIOUS
  <1>1. ASSUME NEW enabled \in BOOLEAN, SetDebugMode(enabled) PROVE IInv'
    BY <1>1, SetDebugModeHolds
  <1>2. ASSUME NEW requested \in 1 .. MaxBoundaries, Advance(requested) PROVE IInv'
    BY <1>2, AdvanceHolds
  <1>3. CASE Replace
    BY <1>3, ReplaceHolds
  <1>4. CASE Answer
    BY <1>4, AnswerHolds
  <1>5. ASSUME NEW r \in DOMAIN doc.runs, StartAttempt(r) PROVE IInv'
    BY <1>5, StartAttemptHolds
  <1>6. ASSUME NEW a \in attempts, AttemptStep(a) PROVE IInv'
    BY <1>6, ArriveHolds, FinishStageHolds, AwaitReactionsHolds, CommitHolds, FailAttemptHolds,
       AbortAttemptHolds DEF AttemptStep
  <1>7. ASSUME NEW request \in Asked, NextStep(request) PROVE IInv'
    BY <1>7, RefuseHolds, ReleaseHolds, RecoverHolds DEF NextStep
  <1>8. ASSUME NEW e \in Executions, Damage(e) PROVE IInv'
    BY <1>8, DamageHolds
  <1>9. CASE Restart
    BY <1>9, RestartHolds
  <1>10. CASE UNCHANGED vars
    BY <1>10 DEF vars, IInv, DocTyped, RestTyped, OnlyCurrent, WorkersRun, ExecutionsApart, GatesHold,
       CheckpointsKnown, RunsKnown, Known, OneAtWork, Current, Leads, WorkersReady, CancelledGone,
       ParkedReady, ParkedAtGate
  <1> QED
    BY <1>1, <1>2, <1>3, <1>4, <1>5, <1>6, <1>7, <1>8, <1>9, <1>10 DEF Next

LEMMA Inductive == Spec => []IInv
  BY InitHolds, StepHolds, PTL DEF Spec

(* A cancelled gate, a gate that was replaced and a recovery that has not   *)
(* begun never add up to two attempts that do stages at once, of one run or *)
(* of two (advanceDebugStep, executeRunBoundary and DebugStageGate).        *)
THEOREM OneAttemptAtWork == Spec => []OneAtWork
  <1>1. IInv => OneAtWork
    BY DEF IInv
  <1> QED
    BY <1>1, Inductive, PTL

(* advanceDebugStep finds what it needs at every checkpoint a run shows:    *)
(* the parked attempt at its gate, or a trace that holds all the stages     *)
(* before it; only damage to the ledger takes that away.                    *)
THEOREM CheckpointsLead == Spec => []CheckpointLeadsOn
  <1>1. ASSUME IInv, NEW r \in DOMAIN doc.runs, doc.runs[r].status = "debug-paused"
        PROVE  LET checkpoint == doc.runs[r].checkpoint
               IN /\ executions[checkpoint.execution].damaged \/ Valid(r)
                  /\ HasGate(r) =>
                       \E a \in attempts :
                         /\ a.execution = gates[r] /\ a.execution = checkpoint.execution
                         /\ a.point = "parked" /\ a.stage = checkpoint.stage
                         /\ executions[a.execution].status = "running"
    BY <1>1 DEF IInv, Leads, ParkedReady, ParkedAtGate, Valid, HasGate
  <1>2. IInv => CheckpointLeadsOn
    BY <1>1 DEF CheckpointLeadsOn
  <1> QED
    BY <1>2, Inductive, PTL
=============================================================================
