--------------------------- MODULE StepLineProofs ---------------------------
(***************************************************************************)
(* DebugStepping implements StepLine, for any number of stages, runs,      *)
(* boundaries, executions, generations, restarts and damaged traces that   *)
(* satisfies StagesAssumption: requests that come twice, late or after a   *)
(* restart never do a second stage, and no stage is done again or left out.*)
(***************************************************************************)
EXTENDS DebugSteppingProofs, FiniteSetTheorems

-----------------------------------------------------------------------------
(* The inductive invariant, on top of that of DebugSteppingProofs.  It is    *)
(* said of one run at a time: the run, its recovery, its gate, its attempts, *)
(* the checkpoints of the requests accepted for it, and its finished stages. *)

(* The attempt of a live run has a snapshot that agrees with the run, and    *)
(* no attempt is left when the run is queued, waits or stands still.         *)
Matches(snapshot, run) ==
  /\ snapshot.committed = run.committed /\ snapshot.generation = run.generation
  /\ snapshot.step = run.step /\ snapshot.reacting = run.reacting /\ snapshot.requested = run.requested
Placed(run, gate, mine) ==
  \A a \in mine :
    /\ run.status \in {"running", "debug-paused", "completed", "preparation-invalidated"}
    /\ run.status = "running" => AtWork(a)
    /\ run.status = "debug-paused" => a.point = "parked"
    /\ run.status \in {"running", "debug-paused"} =>
         Matches(a.snapshot, run) /\ (run.step => gate = a.execution)

(* A recovery is that of an accepted request for the run as it is now.       *)
RecoveryFits(run, recovery, asked) ==
  recovery # NoCheckpoint =>
    /\ run.status = "queued" /\ run.step /\ recovery \in asked
    /\ recovery.boundary = run.committed /\ recovery.generation = run.generation

(* Each finished stage had a request of its own, and was finished once.      *)
StagesPaid(run, asked, done) ==
  /\ \A c \in asked : c.generation <= run.generation /\ c.boundary <= run.committed
  /\ \A f \in done :
       /\ run.step /\ f.boundary <= run.committed
       /\ \E c \in asked : c.boundary = f.boundary /\ c.stage = f.stage
  /\ \A f, g \in done : f.boundary = g.boundary /\ f.stage = g.stage => f = g

(* The stages before this one are done in the boundary, and in this          *)
(* generation of the run nobody was let through to "open" or beyond.         *)
DoneStages(done, boundary) == {f.stage : f \in {f \in done : f.boundary = boundary}}
StandsAt(run, asked, done, stage, open) ==
  /\ DoneStages(done, run.committed) = 0 .. stage - 1
  /\ \A c \in asked : c.generation = run.generation /\ c.boundary = run.committed => c.stage < open

(* Where a run stands that is stepped on, and that its stage was asked for.  *)
First(run) == IF run.reacting THEN ReactionStage ELSE 0
QueuedStands(run, recovery, asked, done) ==
  IF recovery = NoCheckpoint THEN StandsAt(run, asked, done, First(run), 0)
  ELSE StandsAt(run, asked, done, recovery.stage, recovery.stage + 1)
AttemptStands(run, a, asked, done) ==
  IF a.point = "arriving" THEN StandsAt(run, asked, done, a.stage, 0)
  ELSE /\ StandsAt(run, asked, done, a.stage, a.stage + 1)
       /\ \E c \in asked : c.boundary = run.committed /\ c.stage = a.stage
Stands(run, recovery, mine, asked, done) ==
  /\ run.status = "queued" => QueuedStands(run, recovery, asked, done)
  /\ run.status = "running" => \A a \in mine : AttemptStands(run, a, asked, done)
  /\ run.status = "debug-paused" =>
       StandsAt(run, asked, done, run.checkpoint.stage, run.checkpoint.stage)
  /\ run.status = "awaiting-reaction" =>
       run.reacting /\ DoneStages(done, run.committed) = 0 .. ReactionStage - 1
  /\ run.status = "awaiting-decision" =>
       ~run.reacting /\ DoneStages(done, run.committed) = {}

Unfinished(run) ==
  run.status \in {"queued", "running", "debug-paused", "awaiting-reaction"} => run.committed < MaxBoundaries

RunGood(run, recovery, gate, mine, asked, done) ==
  /\ run \in RunRecords /\ Unfinished(run)
  /\ Placed(run, gate, mine)
  /\ RecoveryFits(run, recovery, asked)
  /\ StagesPaid(run, asked, done)
  /\ run.step => Stands(run, recovery, mine, asked, done)

Mine(r) == {a \in attempts : a.run = r}
AskedOf(r) == {request.checkpoint : request \in {q \in accepted : q.checkpoint.run = r}}
DoneOf(r) == {f \in finished : f.run = r}

RunsGood ==
  \A r \in DOMAIN doc.runs :
    RunGood(doc.runs[r], recoveries[r], gates[r], Mine(r), AskedOf(r), DoneOf(r))

(* Nothing is there for a run that is not.                                   *)
NothingAhead ==
  /\ \A f \in finished : f.run \in DOMAIN doc.runs
  /\ \A request \in accepted : request.checkpoint.run \in DOMAIN doc.runs
  /\ \A r \in RunIds : recoveries[r] # NoCheckpoint => r \in DOMAIN doc.runs

(* The bounds, where RunGood does not name them.                             *)
Bounded ==
  /\ \A a \in attempts : a.snapshot \in RunRecords /\ a.stage \in Stages
  /\ recoveries \in [RunIds -> Checkpoints]
  /\ \A e \in Executions : executions[e].sealed \in Stages
  /\ accepted \subseteq Requests /\ IsFiniteSet(accepted) /\ IsFiniteSet(finished)

JInv == RunsGood /\ NothingAhead /\ Bounded


-----------------------------------------------------------------------------
(* Lemmas about the parts of the invariant.                                 *)

LEMMA Bounds ==
  /\ LastStage \in Nat /\ ReactionStage \in 1 .. LastStage - 1 /\ ReactionStage \in Stages
  /\ 0 \in Stages /\ LastStage \in Stages /\ Stages \subseteq Nat
  /\ MaxRuns \in Nat /\ MaxBoundaries \in Nat /\ MaxExecutions \in Nat /\ MaxGeneration \in Nat
  /\ 0 \in 0 .. MaxBoundaries /\ 1 \in 1 .. MaxGeneration /\ 2 \in 1 .. MaxGeneration
  /\ NoCheckpoint \in Checkpoints /\ NoRequest \in Requests
  <1>1. /\ LastStage \in Nat /\ ReactionStage \in 1 .. LastStage - 1
        /\ MaxRuns \in Nat /\ MaxBoundaries \in Nat /\ MaxExecutions \in Nat /\ MaxGeneration \in Nat
        /\ MaxBoundaries > 0 /\ MaxGeneration > 1
    BY StagesAssumption
  <1>2. /\ ReactionStage \in Stages /\ 0 \in Stages /\ LastStage \in Stages /\ Stages \subseteq Nat
    BY <1>1 DEF Stages
  <1>3. NoCheckpoint \in Checkpoints
    BY <1>1, <1>2 DEF NoCheckpoint, Checkpoints
  <1>4. NoRequest \in Requests
    BY <1>3 DEF NoRequest, Requests
  <1> QED
    BY <1>1, <1>2, <1>3, <1>4

LEMMA RecordTyped ==
  ASSUME NEW run \in RunRecords
  PROVE  /\ run.status \in Statuses /\ run.step \in BOOLEAN /\ run.reacting \in BOOLEAN
         /\ run.generation \in 1 .. MaxGeneration /\ run.generation \in Nat
         /\ run.requested \in 0 .. MaxBoundaries
         /\ run.committed \in 0 .. MaxBoundaries /\ run.committed \in Nat
         /\ run.checkpoint \in Checkpoints /\ run.lastRequest \in Requests
  BY Bounds DEF RunRecords

LEMMA CheckpointTyped ==
  ASSUME NEW c \in Checkpoints
  PROVE  c.run \in Nat /\ c.execution \in Nat /\ c.generation \in Nat /\ c.boundary \in Nat
         /\ c.stage \in Stages /\ c.stage \in Nat
  <1>1. /\ c.run \in 0 .. MaxRuns /\ c.execution \in 0 .. MaxExecutions
        /\ c.generation \in 0 .. MaxGeneration /\ c.boundary \in 0 .. MaxBoundaries /\ c.stage \in Stages
    BY DEF Checkpoints
  <1>2. c.stage \in Nat
    BY <1>1, Bounds
  <1>3. MaxRuns \in Nat /\ MaxBoundaries \in Nat /\ MaxExecutions \in Nat /\ MaxGeneration \in Nat
    BY Bounds
  <1> QED
    BY <1>1, <1>2, <1>3

(* Everything that happens, happens to one run.                             *)
Touches(r) ==
  /\ DOMAIN doc'.runs = DOMAIN doc.runs
  /\ \A q \in DOMAIN doc.runs : q # r =>
       doc'.runs[q] = doc.runs[q] /\ recoveries'[q] = recoveries[q] /\ gates'[q] = gates[q]
  /\ \A a : a.run # r => (a \in attempts' <=> a \in attempts)
  /\ \A request : request.checkpoint.run # r => (request \in accepted' <=> request \in accepted)
  /\ \A f : f.run # r => (f \in finished' <=> f \in finished)

LEMMA OneRunTouched ==
  ASSUME RunsGood, NEW r \in DOMAIN doc.runs, Touches(r),
         RunGood(doc'.runs[r], recoveries'[r], gates'[r], Mine(r)', AskedOf(r)', DoneOf(r)')
  PROVE  RunsGood'
  <1> SUFFICES ASSUME NEW q \in DOMAIN doc'.runs
               PROVE  RunGood(doc'.runs[q], recoveries'[q], gates'[q], Mine(q)', AskedOf(q)', DoneOf(q)')
    BY DEF RunsGood
  <1>1. CASE q = r
    BY <1>1
  <1>2. CASE q # r
    <2>1. q \in DOMAIN doc.runs /\ doc'.runs[q] = doc.runs[q] /\ recoveries'[q] = recoveries[q]
          /\ gates'[q] = gates[q]
      BY <1>2 DEF Touches
    <2>2. Mine(q)' = Mine(q)
      BY <1>2 DEF Touches, Mine
    <2>3. AskedOf(q)' = AskedOf(q)
      BY <1>2 DEF Touches, AskedOf
    <2>4. DoneOf(q)' = DoneOf(q)
      BY <1>2 DEF Touches, DoneOf
    <2> QED
      BY <2>1, <2>2, <2>3, <2>4 DEF RunsGood
  <1> QED
    BY <1>1, <1>2

(* What holds of a run of the document.                                     *)
LEMMA RunIsGood ==
  ASSUME IInv, JInv, NEW r \in DOMAIN doc.runs
  PROVE  /\ r \in RunIds /\ r \in Nat /\ doc.runs[r] \in RunRecords /\ doc.runs[r] \in RunType
         /\ Unfinished(doc.runs[r])
         /\ Placed(doc.runs[r], gates[r], Mine(r))
         /\ RecoveryFits(doc.runs[r], recoveries[r], AskedOf(r))
         /\ StagesPaid(doc.runs[r], AskedOf(r), DoneOf(r))
         /\ doc.runs[r].step => Stands(doc.runs[r], recoveries[r], Mine(r), AskedOf(r), DoneOf(r))
         /\ AskedOf(r) \subseteq Checkpoints /\ recoveries[r] \in Checkpoints
  <1>1. r \in RunIds /\ doc.runs[r] \in RunType
    BY RunsTyped DEF IInv
  <1>2. AskedOf(r) \subseteq Checkpoints
    BY DEF JInv, Bounded, AskedOf, Requests
  <1> QED
    BY <1>1, <1>2 DEF JInv, RunsGood, RunGood, RunIds, Bounded

-----------------------------------------------------------------------------
(* What a step does to the line of stages: nothing, a request more, or a    *)
(* stage more that was asked for and is the next one of its boundary.       *)

(* Runs that are stepped on stay in their boundaries.                       *)
Standing ==
  \A r \in DOMAIN doc.runs :
    r \in DOMAIN doc'.runs /\ (doc'.runs[r].committed = doc.runs[r].committed \/ DoneOf(r) = {})

Quiet == accepted' = accepted /\ finished' = finished /\ Standing

Grants(request) ==
  /\ request \notin accepted /\ accepted' = accepted \cup {request}
  /\ finished' = finished /\ Standing

(* A finished stage of a run is the next one, asked for, and not done yet.  *)
Does(f) ==
  /\ accepted' = accepted /\ finished' = finished \cup {f}
  /\ DOMAIN doc'.runs = DOMAIN doc.runs /\ f.run \in DOMAIN doc.runs
  /\ f.boundary = doc.runs[f.run].committed /\ f.stage \in Stages
  /\ DoneStages(DoneOf(f.run), f.boundary) = 0 .. f.stage - 1
  /\ \E c \in AskedOf(f.run) : c.boundary = f.boundary /\ c.stage = f.stage
  /\ doc'.runs[f.run].committed = IF f.stage = LastStage THEN f.boundary + 1 ELSE f.boundary
  /\ \A q \in DOMAIN doc.runs : q # f.run => doc'.runs[q].committed = doc.runs[q].committed

Follows == Quiet \/ (\E request : Grants(request)) \/ (\E f : Does(f))

-----------------------------------------------------------------------------
(* One lemma for each action.                                               *)

LEMMA NothingMoves ==
  ASSUME IInv, JInv, doc'.runs = doc.runs,
         UNCHANGED <<attempts, gates, recoveries, accepted, finished>>,
         \A e \in Executions : executions'[e].sealed \in Stages
  PROVE  JInv' /\ Quiet
  <1>1. RunsGood' /\ NothingAhead'
    BY DEF JInv, RunsGood, NothingAhead, Mine, AskedOf, DoneOf
  <1>2. Bounded'
    BY DEF JInv, Bounded
  <1> QED
    BY <1>1, <1>2 DEF JInv, Quiet, Standing

LEMMA SetDebugModeMoves ==
  ASSUME IInv, JInv, NEW enabled \in BOOLEAN, SetDebugMode(enabled)
  PROVE  JInv' /\ Follows
  <1>1. doc'.runs = doc.runs
    BY DEF SetDebugMode, IInv, DocTyped
  <1>2. UNCHANGED <<attempts, gates, recoveries, executions, accepted, finished>>
    BY DEF SetDebugMode
  <1> QED
    BY <1>1, <1>2, NothingMoves DEF Follows, JInv, Bounded

LEMMA DamageMoves ==
  ASSUME IInv, JInv, NEW e \in Executions, Damage(e)
  PROVE  JInv' /\ Follows
  <1>1. /\ executions' = [executions EXCEPT ![e].damaged = TRUE]
        /\ UNCHANGED <<doc, attempts, gates, recoveries, accepted, finished>>
    BY DEF Damage
  <1>2. \A f \in Executions : executions'[f].sealed = executions[f].sealed
    BY <1>1 DEF IInv, RestTyped, ExecutionType
  <1> QED
    BY <1>1, <1>2, NothingMoves DEF Follows, JInv, Bounded

(* A run that is put aside asks for nothing more.                           *)
LEMMA StoppedGood ==
  ASSUME NEW run \in RunRecords, NEW x \in RunRecords, NEW recovery, NEW gate, NEW mine, NEW asked, NEW done,
         RunGood(run, recovery, gate, mine, asked, done),
         x.status \in {"completed", "paused", "preparation-invalidated", "failed"},
         x.generation >= run.generation, x.committed = run.committed, x.step = run.step,
         asked \subseteq Checkpoints,
         NEW left, left # {} => x.status \in {"completed", "preparation-invalidated"}, NEW gate2
  PROVE  RunGood(x, NoCheckpoint, gate2, left, asked, done)
  <1>1. Placed(x, gate2, left) /\ Unfinished(x) /\ RecoveryFits(x, NoCheckpoint, asked)
    BY DEF Placed, Unfinished, RecoveryFits
  <1>2. x.generation \in Nat /\ run.generation \in Nat /\ \A c \in asked : c.generation \in Nat
    BY RecordTyped, CheckpointTyped
  <1>3. \A c \in asked : c.generation <= x.generation
    BY <1>2 DEF RunGood, StagesPaid
  <1>4. StagesPaid(x, asked, done)
    BY <1>3 DEF RunGood, StagesPaid
  <1>5. Stands(x, NoCheckpoint, left, asked, done)
    BY DEF Stands
  <1> QED
    BY <1>1, <1>4, <1>5 DEF RunGood

(* A new run has nothing yet; the older ones are as they were, or put aside.*)
LEMMA NewRunMoves ==
  ASSUME IInv, JInv, NEW x \in RunRecords, x.status = "queued", x.committed = 0, ~x.reacting,
         Current' \notin DOMAIN doc.runs, DOMAIN doc'.runs = DOMAIN doc.runs \cup {Current'},
         Current' \in RunIds, doc'.runs[Current'] = x,
         \A r \in DOMAIN doc.runs :
           /\ RunGood(doc'.runs[r], recoveries[r], gates[r], Mine(r), AskedOf(r), DoneOf(r))
           /\ doc'.runs[r].committed = doc.runs[r].committed,
         UNCHANGED <<attempts, gates, recoveries, executions, accepted, finished>>
  PROVE  JInv' /\ Quiet
  <1> DEFINE new == Current'
  <1>1. \A r : Mine(r)' = Mine(r) /\ AskedOf(r)' = AskedOf(r) /\ DoneOf(r)' = DoneOf(r)
    BY DEF Mine, AskedOf, DoneOf
  <1>2. Mine(new) = {} /\ AskedOf(new) = {} /\ DoneOf(new) = {} /\ recoveries[new] = NoCheckpoint
    BY DEF IInv, WorkersRun, JInv, NothingAhead, Mine, AskedOf, DoneOf
  <1>3. RunGood(x, NoCheckpoint, gates[new], {}, {}, {})
    <2>1. Placed(x, gates[new], {}) /\ RecoveryFits(x, NoCheckpoint, {}) /\ StagesPaid(x, {}, {})
      BY DEF Placed, RecoveryFits, StagesPaid
    <2>2. Unfinished(x)
      BY StagesAssumption DEF Unfinished
    <2>3. DoneStages({}, 0) = {} /\ 0 .. 0 - 1 = {}
      BY DEF DoneStages
    <2>4. StandsAt(x, {}, {}, 0, 0)
      BY <2>3 DEF StandsAt
    <2>5. QueuedStands(x, NoCheckpoint, {}, {})
      BY <2>4 DEF QueuedStands, First
    <2>6. Stands(x, NoCheckpoint, {}, {}, {})
      BY <2>5 DEF Stands
    <2> QED
      BY <2>1, <2>2, <2>6 DEF RunGood
  <1>4. \A r \in DOMAIN doc'.runs :
          RunGood(doc'.runs[r], recoveries'[r], gates'[r], Mine(r)', AskedOf(r)', DoneOf(r)')
    <2> SUFFICES ASSUME NEW r \in DOMAIN doc'.runs
                 PROVE  RunGood(doc'.runs[r], recoveries[r], gates[r], Mine(r), AskedOf(r), DoneOf(r))
      BY <1>1
    <2>1. CASE r = new
      BY <2>1, <1>2, <1>3
    <2>2. CASE r \in DOMAIN doc.runs
      BY <2>2
    <2> QED
      BY <2>1, <2>2
  <1>5. RunsGood'
    BY <1>4 DEF RunsGood
  <1>6. NothingAhead' /\ Bounded'
    BY DEF JInv, NothingAhead, Bounded
  <1> QED
    BY <1>5, <1>6 DEF JInv, Quiet, Standing

(* A run is added to runs of which none is live.                            *)
LEMMA RunComes ==
  ASSUME IInv, IInv', JInv, NEW x \in RunRecords, x \in RunType,
         x.status = "queued", x.committed = 0, ~x.reacting,
         NEW runs \in Seq(RunType), Len(runs) = Len(doc.runs), Len(doc.runs) < MaxRuns,
         doc' = [doc EXCEPT !.runs = Append(runs, x)],
         \A r \in DOMAIN doc.runs :
           /\ runs[r].status \notin {"queued", "running", "debug-paused"}
           /\ RunGood(runs[r], recoveries[r], gates[r], Mine(r), AskedOf(r), DoneOf(r))
           /\ runs[r].committed = doc.runs[r].committed,
         UNCHANGED <<attempts, gates, recoveries, executions, accepted, finished>>
  PROVE  JInv' /\ Follows
  <1>1. /\ doc'.runs = Append(runs, x)
        /\ doc' \in [enabled : BOOLEAN, revision : Nat, runs : {doc'.runs}]
    BY DEF IInv, DocTyped
  <1>2. /\ Current' \in DOMAIN doc'.runs /\ DOMAIN doc'.runs = DOMAIN doc.runs \cup {Current'}
        /\ Current' \notin DOMAIN doc.runs
        /\ doc'.runs[Current'] = x
        /\ \A q \in DOMAIN doc.runs : doc'.runs[q] = runs[q]
    BY <1>1, RunAdded DEF IInv
  <1>3. Current' \in RunIds
    <2>1. doc'.runs \in Seq(RunType) /\ Len(doc'.runs) <= MaxRuns
      BY DEF IInv, DocTyped
    <2>2. DOMAIN doc'.runs = 1 .. Len(doc'.runs) /\ Len(doc'.runs) \in Nat
      BY <2>1, LenProperties
    <2> QED
      BY <1>2, <2>1, <2>2, StagesAssumption DEF RunIds
  <1> QED
    BY <1>2, <1>3, NewRunMoves DEF Follows

LEMMA AdvanceMoves ==
  ASSUME IInv, IInv', JInv, NEW requested \in 1 .. MaxBoundaries, Advance(requested)
  PROVE  JInv' /\ Follows
  <1> DEFINE x == NewRun(requested, 1)
  <1>1. x \in RunRecords /\ x.status = "queued" /\ x.committed = 0 /\ ~x.reacting
    BY Bounds DEF NewRun, RunRecords, Statuses, IInv, DocTyped
  <1>2. x \in RunType
    BY NoCheckpointType, StagesAssumption DEF NewRun, RunType, Statuses, IInv, DocTyped
  <1>3. /\ doc.runs \in Seq(RunType) /\ Len(doc.runs) < MaxRuns
        /\ doc' = [doc EXCEPT !.runs = Append(doc.runs, x)]
        /\ UNCHANGED <<attempts, gates, recoveries, executions, accepted, finished>>
    BY RunsTyped DEF Advance, IInv
  <1>4. \A r \in DOMAIN doc.runs : doc.runs[r].status \notin {"queued", "running", "debug-paused"}
    BY RunsTyped DEF Advance, IInv, OnlyCurrent, CurrentStatus, Busy
  <1> HIDE DEF x
  <1> QED
    BY <1>1, <1>2, <1>3, <1>4, RunComes DEF JInv, RunsGood

LEMMA ReplaceMoves ==
  ASSUME IInv, IInv', JInv, Replace
  PROVE  JInv' /\ Follows
  <1> DEFINE x == NewRun(0, 2)
             old == [doc.runs[Current] EXCEPT !.status = "completed"]
             runs == [doc.runs EXCEPT ![Current] = old]
  <1>1. x \in RunRecords /\ x.status = "queued" /\ x.committed = 0 /\ ~x.reacting
    BY Bounds DEF NewRun, RunRecords, Statuses, IInv, DocTyped
  <1>2. x \in RunType
    BY NoCheckpointType DEF NewRun, RunType, Statuses, IInv, DocTyped
  <1>3. /\ doc.runs \in Seq(RunType) /\ Len(doc.runs) < MaxRuns /\ Len(doc.runs) \in Nat
        /\ Current = Len(doc.runs) /\ DOMAIN doc.runs = 1 .. Current /\ Current \in DOMAIN doc.runs
        /\ doc.runs[Current].status \in {"paused", "budget-paused", "debug-paused"}
        /\ doc' = [doc EXCEPT !.runs = Append(runs, x)]
        /\ UNCHANGED <<attempts, gates, recoveries, executions, accepted, finished>>
    BY RunsTyped DEF Replace, IInv, CurrentStatus
  <1>4. doc.runs[Current] \in RunRecords /\ doc.runs[Current] \in RunType
    BY <1>3, RunIsGood
  <1>5. /\ old \in RunType /\ old \in RunRecords /\ old.status = "completed"
        /\ old.generation = doc.runs[Current].generation
        /\ old.committed = doc.runs[Current].committed /\ old.step = doc.runs[Current].step
    BY <1>4 DEF RunType, RunRecords, Statuses
  <1>6. /\ runs \in Seq(RunType) /\ Len(runs) = Len(doc.runs)
        /\ \A q \in DOMAIN doc.runs : runs[q] = IF q = Current THEN old ELSE doc.runs[q]
    BY <1>3, <1>5, ExceptSeq
  <1> HIDE DEF x, old, runs
  <1>7. RunGood(old, recoveries[Current], gates[Current], Mine(Current), AskedOf(Current), DoneOf(Current))
    <2>1. recoveries[Current] = NoCheckpoint
      BY <1>3, RunIsGood DEF RecoveryFits
    <2>2. old.generation >= doc.runs[Current].generation
      BY <1>4, <1>5, RecordTyped
    <2>3. AskedOf(Current) \subseteq Checkpoints
      BY <1>3, RunIsGood
    <2>4. RunGood(doc.runs[Current], recoveries[Current], gates[Current],
                  Mine(Current), AskedOf(Current), DoneOf(Current))
      BY <1>3 DEF JInv, RunsGood
    <2> QED
      BY <1>4, <1>5, <2>1, <2>2, <2>3, <2>4, StoppedGood
  <1>8. \A r \in DOMAIN doc.runs :
           /\ runs[r].status \notin {"queued", "running", "debug-paused"}
           /\ RunGood(runs[r], recoveries[r], gates[r], Mine(r), AskedOf(r), DoneOf(r))
           /\ runs[r].committed = doc.runs[r].committed
    BY <1>5, <1>6, <1>7 DEF IInv, OnlyCurrent, JInv, RunsGood
  <1> QED
    BY <1>1, <1>2, <1>3, <1>6, <1>8, RunComes

LEMMA AnswerMoves ==
  ASSUME IInv, JInv, Answer
  PROVE  JInv' /\ Follows
  <1>0. PICK r \in DOMAIN doc.runs : r = Current
    BY RunsTyped DEF Answer, IInv, CurrentStatus
  <1> DEFINE run == doc.runs[r]
             n == run.generation + 1
             x == [run EXCEPT !.status = "queued", !.generation = n]
  <1>1. /\ run.status \in {"awaiting-decision", "awaiting-reaction"}
        /\ run.generation < MaxGeneration /\ run.committed < MaxBoundaries
    BY <1>0, RunsTyped DEF Answer, IInv, CurrentStatus
  <1>2. /\ run \in RunRecords /\ Placed(run, gates[r], Mine(r))
        /\ RecoveryFits(run, recoveries[r], AskedOf(r))
        /\ StagesPaid(run, AskedOf(r), DoneOf(r))
        /\ run.step => Stands(run, recoveries[r], Mine(r), AskedOf(r), DoneOf(r))
        /\ AskedOf(r) \subseteq Checkpoints
    BY <1>1, RunIsGood
  <1>3. n \in 1 .. MaxGeneration /\ n > run.generation
    BY <1>1, <1>2, RecordTyped, Bounds
  <1>4. /\ doc'.runs = [doc.runs EXCEPT ![r] = x]
        /\ UNCHANGED <<attempts, gates, recoveries, executions, accepted, finished>>
    BY <1>0, <1>1, <1>2 DEF Answer, IInv, DocTyped, RunRecords
  <1> HIDE DEF n
  <1>5. /\ x \in RunRecords /\ x.status = "queued" /\ x.generation = n /\ x.committed = run.committed
        /\ x.step = run.step /\ x.reacting = run.reacting
    BY <1>2, <1>3 DEF RunRecords, Statuses
  <1> HIDE DEF x, run
  <1>6. doc'.runs[r] = x /\ DOMAIN doc'.runs = DOMAIN doc.runs
        /\ \A q \in DOMAIN doc.runs : q # r => doc'.runs[q] = doc.runs[q]
    BY <1>1, <1>4
  <1>7. recoveries[r] = NoCheckpoint /\ Mine(r) = {}
    BY <1>1, <1>2 DEF RecoveryFits, Placed
  <1>8. \A c \in AskedOf(r) : c.generation < n /\ c.generation <= n
    BY <1>2, <1>3, RecordTyped, CheckpointTyped, Bounds DEF StagesPaid
  <1>9. StagesPaid(x, AskedOf(r), DoneOf(r))
    BY <1>2, <1>5, <1>8 DEF StagesPaid
  <1>10. ASSUME run.step PROVE Stands(x, recoveries[r], Mine(r), AskedOf(r), DoneOf(r))
    <2>1. DoneStages(DoneOf(r), x.committed) = 0 .. First(x) - 1
      <3>1. CASE run.status = "awaiting-reaction"
        BY <1>2, <1>5, <1>10, <3>1 DEF Stands, First
      <3>2. CASE run.status = "awaiting-decision"
        <4>1. ~x.reacting /\ DoneStages(DoneOf(r), x.committed) = {}
          BY <1>2, <1>5, <1>10, <3>2 DEF Stands
        <4>2. First(x) = 0 /\ 0 .. 0 - 1 = {}
          BY <4>1 DEF First
        <4> QED
          BY <4>1, <4>2
      <3> QED
        BY <1>1, <3>1, <3>2
    <2>2. \A c \in AskedOf(r) : ~(c.generation = x.generation)
      BY <1>2, <1>5, <1>8, <1>3, CheckpointTyped
    <2>3. QueuedStands(x, recoveries[r], AskedOf(r), DoneOf(r))
      BY <1>7, <2>1, <2>2 DEF QueuedStands, StandsAt
    <2> QED
      BY <1>5, <2>3 DEF Stands
  <1>11. RunGood(x, recoveries[r], gates[r], Mine(r), AskedOf(r), DoneOf(r))
    <2>1. Unfinished(x) /\ Placed(x, gates[r], Mine(r)) /\ RecoveryFits(x, recoveries[r], AskedOf(r))
      BY <1>1, <1>5, <1>7 DEF Unfinished, Placed, RecoveryFits, run
    <2> QED
      BY <1>5, <1>9, <1>10, <2>1 DEF RunGood
  <1>12. RunGood(doc'.runs[r], recoveries'[r], gates'[r], Mine(r)', AskedOf(r)', DoneOf(r)')
    BY <1>4, <1>6, <1>11 DEF Mine, AskedOf, DoneOf
  <1>13. RunsGood'
    BY <1>12, <1>1, <1>4, <1>6, OneRunTouched DEF JInv, Touches
  <1> QED
    BY <1>1, <1>4, <1>5, <1>6, <1>13 DEF JInv, NothingAhead, Bounded, Follows, Quiet, Standing, run

-----------------------------------------------------------------------------
(* Attempts that end.                                                       *)

LEMMA LeavingTouches ==
  ASSUME IInv, JInv, NEW a \in attempts, NEW x,
         doc'.runs = [doc.runs EXCEPT ![a.run] = x],
         NEW status \in {"succeeded", "failed", "cancelled"},
         Ends(a, status), OpensGate(a), UNCHANGED <<recoveries, accepted>>,
         finished' \in {finished, finished \cup {Stage(a)}}
  PROVE  /\ Touches(a.run) /\ NothingAhead' /\ Bounded'
         /\ a.run \in DOMAIN doc.runs /\ doc'.runs[a.run] = x
         /\ Mine(a.run)' = Mine(a.run) \ {a} /\ AskedOf(a.run)' = AskedOf(a.run)
         /\ finished' = finished => DoneOf(a.run)' = DoneOf(a.run)
         /\ recoveries'[a.run] = recoveries[a.run]
  <1>1. /\ a.run \in DOMAIN doc.runs /\ attempts' = attempts \ {a}
        /\ \A q \in RunIds : q # a.run => gates'[q] = gates[q]
        /\ \A e \in Executions : executions'[e].sealed = executions[e].sealed
    BY AttemptLeaves DEF IInv, WorkersRun
  <1>2. /\ DOMAIN doc'.runs = DOMAIN doc.runs /\ doc'.runs[a.run] = x
        /\ \A q \in DOMAIN doc.runs : q # a.run => doc'.runs[q] = doc.runs[q]
        /\ DOMAIN doc.runs \subseteq RunIds
    BY <1>1, RunsTyped DEF IInv
  <1>3. Stage(a).run = a.run
    BY DEF Stage
  <1>4. Touches(a.run)
    BY <1>1, <1>2, <1>3 DEF Touches
  <1>5. NothingAhead'
    BY <1>1, <1>2, <1>3 DEF JInv, NothingAhead
  <1>6. IsFiniteSet(finished')
    BY FS_AddElement DEF JInv, Bounded
  <1>7. Bounded'
    BY <1>1, <1>6 DEF JInv, Bounded
  <1> QED
    BY <1>1, <1>2, <1>4, <1>5, <1>7 DEF Mine, AskedOf, DoneOf

(* An attempt at work is the only one of its run, and its snapshot agrees.  *)
LEMMA WorkerIsMine ==
  ASSUME IInv, JInv, NEW a \in attempts, AtWork(a)
  PROVE  /\ a.run \in DOMAIN doc.runs /\ Mine(a.run) = {a}
         /\ a.snapshot \in RunRecords /\ Matches(a.snapshot, doc.runs[a.run])
         /\ doc.runs[a.run].status = "running" /\ recoveries[a.run] = NoCheckpoint
         /\ doc.runs[a.run].step => gates[a.run] = a.execution
         /\ doc.runs[a.run].step => AttemptStands(doc.runs[a.run], a, AskedOf(a.run), DoneOf(a.run))
  <1>1. /\ a.run \in DOMAIN doc.runs /\ doc.runs[a.run].status = "running" /\ a \in Mine(a.run)
        /\ \A b \in attempts : AtWork(b) => b = a
    BY Alone DEF Mine
  <1>2. /\ Placed(doc.runs[a.run], gates[a.run], Mine(a.run))
        /\ RecoveryFits(doc.runs[a.run], recoveries[a.run], AskedOf(a.run))
        /\ doc.runs[a.run].step => Stands(doc.runs[a.run], recoveries[a.run], Mine(a.run), AskedOf(a.run), DoneOf(a.run))
    BY <1>1, RunIsGood
  <1>3. Mine(a.run) = {a}
    BY <1>1, <1>2 DEF Placed, Mine
  <1>4. a.snapshot \in RunRecords
    BY DEF JInv, Bounded
  <1> QED
    BY <1>1, <1>2, <1>3, <1>4 DEF Placed, RecoveryFits, Stands

LEMMA AbortAttemptMoves ==
  ASSUME IInv, JInv, NEW a \in attempts, AbortAttempt(a)
  PROVE  JInv' /\ Follows
  <1> DEFINE run == doc.runs[a.run]
  <1>1. /\ doc' = doc /\ Ends(a, "cancelled") /\ OpensGate(a) /\ UNCHANGED <<recoveries, accepted, finished>>
        /\ a.run \in DOMAIN doc.runs /\ run.status = "preparation-invalidated"
    BY DEF AbortAttempt, IInv, Leads, CancelledGone, WorkersRun
  <1>2. doc'.runs = [doc.runs EXCEPT ![a.run] = run]
    BY <1>1, RunsTyped DEF IInv
  <1>3. /\ Touches(a.run) /\ NothingAhead' /\ Bounded' /\ doc'.runs[a.run] = run
        /\ AskedOf(a.run)' = AskedOf(a.run) /\ DoneOf(a.run)' = DoneOf(a.run)
        /\ recoveries'[a.run] = recoveries[a.run]
    BY <1>1, <1>2, LeavingTouches
  <1>4. /\ run \in RunRecords /\ recoveries[a.run] = NoCheckpoint /\ AskedOf(a.run) \subseteq Checkpoints
    BY <1>1, RunIsGood DEF RecoveryFits
  <1>5. RunGood(run, recoveries[a.run], gates[a.run], Mine(a.run), AskedOf(a.run), DoneOf(a.run))
    BY <1>1 DEF JInv, RunsGood
  <1>6. run.generation >= run.generation
    BY <1>4, RecordTyped
  <1> HIDE DEF run
  <1>7. RunGood(run, NoCheckpoint, gates'[a.run], Mine(a.run)', AskedOf(a.run), DoneOf(a.run))
    BY <1>1, <1>4, <1>5, <1>6, StoppedGood
  <1>8. RunsGood'
    BY <1>1, <1>3, <1>4, <1>7, OneRunTouched DEF JInv
  <1> QED
    BY <1>1, <1>3, <1>8 DEF JInv, Follows, Quiet, Standing

LEMMA FailAttemptMoves ==
  ASSUME IInv, JInv, NEW a \in attempts, FailAttempt(a)
  PROVE  JInv' /\ Follows
  <1> DEFINE run == doc.runs[a.run]
  <1>1. /\ AtWork(a) /\ Ends(a, "failed") /\ OpensGate(a) /\ UNCHANGED <<recoveries, accepted, finished>>
    BY DEF FailAttempt, AtWork
  <1>2. /\ a.run \in DOMAIN doc.runs /\ Mine(a.run) = {a} /\ Matches(a.snapshot, run)
        /\ run \in RunRecords /\ recoveries[a.run] = NoCheckpoint /\ AskedOf(a.run) \subseteq Checkpoints
        /\ RunGood(run, recoveries[a.run], gates[a.run], Mine(a.run), AskedOf(a.run), DoneOf(a.run))
    BY <1>1, WorkerIsMine, RunIsGood DEF JInv, RunsGood
  <1>3. PICK status \in {"failed", "paused", "preparation-invalidated"} :
          doc' = [doc EXCEPT !.runs[a.run].status = status, !.runs[a.run].reacting = FALSE]
    BY <1>2 DEF FailAttempt, Matches
  <1> DEFINE x == [run EXCEPT !.status = status, !.reacting = FALSE]
  <1>4. doc'.runs = [doc.runs EXCEPT ![a.run] = x]
    BY <1>2, <1>3 DEF IInv, DocTyped
  <1>5. /\ x \in RunRecords /\ x.status = status /\ x.committed = run.committed /\ x.step = run.step
        /\ x.generation = run.generation
    BY <1>2 DEF RunRecords, Statuses
  <1>6. x.generation >= run.generation
    BY <1>2, <1>5, RecordTyped
  <1> HIDE DEF x, run
  <1>7. /\ Touches(a.run) /\ NothingAhead' /\ Bounded' /\ doc'.runs[a.run] = x
        /\ Mine(a.run)' = {} /\ AskedOf(a.run)' = AskedOf(a.run) /\ DoneOf(a.run)' = DoneOf(a.run)
        /\ recoveries'[a.run] = NoCheckpoint
    BY <1>1, <1>2, <1>4, LeavingTouches
  <1>8. RunGood(x, NoCheckpoint, gates'[a.run], {}, AskedOf(a.run), DoneOf(a.run))
    BY <1>2, <1>5, <1>6, StoppedGood
  <1>9. RunsGood'
    BY <1>2, <1>7, <1>8, OneRunTouched DEF JInv
  <1> QED
    BY <1>1, <1>5, <1>7, <1>9 DEF JInv, Follows, Quiet, Standing, Touches, run

LEMMA AwaitReactionsMoves ==
  ASSUME IInv, JInv, NEW a \in attempts, AwaitReactions(a)
  PROVE  JInv' /\ Follows
  <1> DEFINE run == doc.runs[a.run]
             x == [a.snapshot EXCEPT !.status = "awaiting-reaction", !.reacting = TRUE]
  <1>1. /\ AtWork(a) /\ a.point = "working" /\ a.stage = ReactionStage
        /\ Ends(a, "succeeded") /\ OpensGate(a) /\ UNCHANGED <<recoveries, accepted, finished>>
        /\ doc' = [doc EXCEPT !.enabled = a.enabled, !.runs[a.run] = x]
    BY DEF AwaitReactions, AtWork
  <1>2. /\ a.run \in DOMAIN doc.runs /\ Mine(a.run) = {a} /\ Matches(a.snapshot, run)
        /\ a.snapshot \in RunRecords /\ recoveries[a.run] = NoCheckpoint
        /\ run.status = "running" /\ Unfinished(run)
        /\ StagesPaid(run, AskedOf(a.run), DoneOf(a.run))
        /\ run.step => AttemptStands(run, a, AskedOf(a.run), DoneOf(a.run))
    BY <1>1, WorkerIsMine, RunIsGood
  <1>3. doc'.runs = [doc.runs EXCEPT ![a.run] = x]
    BY <1>1 DEF IInv, DocTyped
  <1>4. /\ x \in RunRecords /\ x.status = "awaiting-reaction" /\ x.reacting
        /\ x.committed = run.committed /\ x.step = run.step /\ x.generation = run.generation
    BY <1>2 DEF RunRecords, Statuses, Matches
  <1> HIDE DEF x, run
  <1>5. /\ Touches(a.run) /\ NothingAhead' /\ Bounded' /\ doc'.runs[a.run] = x
        /\ Mine(a.run)' = {} /\ AskedOf(a.run)' = AskedOf(a.run) /\ DoneOf(a.run)' = DoneOf(a.run)
        /\ recoveries'[a.run] = NoCheckpoint
    BY <1>1, <1>2, <1>3, LeavingTouches
  <1>6. RunGood(x, NoCheckpoint, gates'[a.run], {}, AskedOf(a.run), DoneOf(a.run))
    <2>1. Placed(x, gates'[a.run], {}) /\ RecoveryFits(x, NoCheckpoint, AskedOf(a.run)) /\ Unfinished(x)
      BY <1>2, <1>4 DEF Placed, RecoveryFits, Unfinished
    <2>2. StagesPaid(x, AskedOf(a.run), DoneOf(a.run))
      BY <1>2, <1>4 DEF StagesPaid
    <2>3. run.step => DoneStages(DoneOf(a.run), run.committed) = 0 .. ReactionStage - 1
      BY <1>1, <1>2 DEF AttemptStands, StandsAt
    <2>4. x.step => Stands(x, NoCheckpoint, {}, AskedOf(a.run), DoneOf(a.run))
      BY <1>4, <2>3 DEF Stands
    <2> QED
      BY <1>4, <2>1, <2>2, <2>4 DEF RunGood
  <1>7. RunsGood'
    BY <1>2, <1>5, <1>6, OneRunTouched DEF JInv
  <1> QED
    BY <1>1, <1>4, <1>5, <1>7 DEF JInv, Follows, Quiet, Standing, Touches, run

(* Finishing a stage that was asked for and is the next one.                *)
LEMMA StageAdded ==
  ASSUME NEW run \in RunRecords, NEW x \in RunRecords, NEW asked \in SUBSET Checkpoints, NEW done,
         StagesPaid(run, asked, done), run.step, x.step,
         x.generation = run.generation, x.committed >= run.committed,
         NEW f, f.boundary = run.committed, f.stage \in Stages,
         DoneStages(done, run.committed) = 0 .. f.stage - 1,
         \E c \in asked : c.boundary = f.boundary /\ c.stage = f.stage
  PROVE  /\ StagesPaid(x, asked, done \cup {f})
         /\ DoneStages(done \cup {f}, run.committed) = 0 .. f.stage
         /\ \A boundary : boundary # run.committed =>
              DoneStages(done \cup {f}, boundary) = DoneStages(done, boundary)
  <1>1. /\ run.committed \in Nat /\ x.committed \in Nat /\ run.generation \in Nat /\ f.stage \in Nat
        /\ \A c \in asked : c.boundary \in Nat /\ c.generation \in Nat
    BY RecordTyped, CheckpointTyped, Bounds
  <1>2. f.stage \notin DoneStages(done, run.committed)
    BY <1>1
  <1>3. \A g \in done : ~(g.boundary = f.boundary /\ g.stage = f.stage)
    BY <1>2 DEF DoneStages
  <1>4. StagesPaid(x, asked, done \cup {f})
    <2>1. \A c \in asked : c.generation <= x.generation /\ c.boundary <= x.committed
      BY <1>1 DEF StagesPaid
    <2>2. ASSUME NEW g \in done
          PROVE  g.boundary <= x.committed /\ \E c \in asked : c.boundary = g.boundary /\ c.stage = g.stage
      <3>1. PICK c \in asked : c.boundary = g.boundary /\ c.stage = g.stage
        BY DEF StagesPaid
      <3> QED
        BY <2>1, <3>1
    <2>3. f.boundary <= x.committed
      BY <1>1
    <2>4. \A g, h \in done \cup {f} : g.boundary = h.boundary /\ g.stage = h.stage => g = h
      BY <1>3 DEF StagesPaid
    <2> QED
      BY <2>1, <2>2, <2>3, <2>4 DEF StagesPaid
  <1>5. DoneStages(done \cup {f}, run.committed) = DoneStages(done, run.committed) \cup {f.stage}
    BY DEF DoneStages
  <1>6. (0 .. f.stage - 1) \cup {f.stage} = 0 .. f.stage
    BY <1>1
  <1>7. \A boundary : boundary # run.committed =>
          DoneStages(done \cup {f}, boundary) = DoneStages(done, boundary)
    BY DEF DoneStages
  <1> QED
    BY <1>4, <1>5, <1>6, <1>7

(* No stage of a later boundary is done.                                    *)
LEMMA LaterBoundaries ==
  ASSUME NEW run \in RunRecords, NEW asked \in SUBSET Checkpoints, NEW done,
         StagesPaid(run, asked, done), NEW boundary \in Nat, boundary > run.committed
  PROVE  DoneStages(done, boundary) = {} /\ \A c \in asked : c.boundary # boundary
  <1>1. run.committed \in Nat /\ \A c \in asked : c.boundary \in Nat
    BY RecordTyped, CheckpointTyped
  <1>2. \A c \in asked : c.boundary # boundary
    BY <1>1 DEF StagesPaid
  <1>3. \A f \in done : f.boundary # boundary
    BY <1>2 DEF StagesPaid
  <1> QED
    BY <1>2, <1>3 DEF DoneStages

(* What a commit writes; a run of a player may end anywhere.                *)
LEMMA CommittedRun ==
  ASSUME IInv, JInv, NEW a \in attempts, Commit(a)
  PROVE  LET run == doc.runs[a.run]
         IN \E x \in RunRecords :
              /\ doc'.runs = [doc.runs EXCEPT ![a.run] = x]
              /\ x.committed = run.committed + 1 /\ x.step = run.step /\ x.generation = run.generation
              /\ ~x.reacting /\ Unfinished(x)
              /\ x.status \in {"completed", "awaiting-decision", "budget-paused", "queued"}
  <1> DEFINE run == doc.runs[a.run]
             committed == a.snapshot.committed + 1
             X(status) == [a.snapshot EXCEPT
                             !.status = status, !.committed = committed, !.reacting = FALSE,
                             !.checkpoint = run.checkpoint, !.lastRequest = run.lastRequest]
  <1>1. AtWork(a)
    BY DEF Commit, AtWork
  <1>2. /\ a.run \in DOMAIN doc.runs /\ Matches(a.snapshot, run) /\ a.snapshot \in RunRecords
        /\ run \in RunRecords /\ Unfinished(run) /\ run.status = "running"
    BY <1>1, WorkerIsMine, RunIsGood
  <1>3. PICK status \in Outcomes(run.requested, committed) :
          doc' = [doc EXCEPT !.enabled = a.enabled, !.revision = @ + 1, !.runs[a.run] = X(status)]
    BY DEF Commit
  <1>4. /\ status \in {"completed", "awaiting-decision", "budget-paused", "queued"}
        /\ status = "queued" => committed < MaxBoundaries
    BY <1>3 DEF Outcomes
  <1>5. committed = run.committed + 1 /\ committed \in 0 .. MaxBoundaries
    BY <1>2, RecordTyped, Bounds DEF Matches, Unfinished
  <1>6. run.checkpoint \in Checkpoints /\ run.lastRequest \in Requests
    BY <1>2, RecordTyped
  <1> DEFINE x == X(status)
  <1>7. doc'.runs = [doc.runs EXCEPT ![a.run] = x]
    BY <1>3 DEF IInv, DocTyped
  <1> HIDE DEF committed, run
  <1>8. /\ x \in RunRecords /\ x.status = status /\ x.committed = committed /\ ~x.reacting
        /\ x.step = run.step /\ x.generation = run.generation
    BY <1>2, <1>4, <1>5, <1>6 DEF RunRecords, Statuses, Matches
  <1> HIDE DEF X, x
  <1>9. Unfinished(x)
    BY <1>4, <1>8 DEF Unfinished
  <1> QED
    BY <1>4, <1>5, <1>7, <1>8, <1>9 DEF run

LEMMA CommitMoves ==
  ASSUME IInv, JInv, NEW a \in attempts, Commit(a)
  PROVE  JInv' /\ Follows
  <1> DEFINE run == doc.runs[a.run]
             asked == AskedOf(a.run)
             done == DoneOf(a.run)
             f == Stage(a)
  <1>1. /\ AtWork(a) /\ a.point = "working" /\ a.stage = LastStage
        /\ Ends(a, "succeeded") /\ OpensGate(a) /\ UNCHANGED <<recoveries, accepted>>
        /\ finished' = IF run.step THEN finished \cup {f} ELSE finished
    BY DEF Commit, AtWork
  <1>2. /\ a.run \in DOMAIN doc.runs /\ Mine(a.run) = {a} /\ Matches(a.snapshot, run)
        /\ recoveries[a.run] = NoCheckpoint /\ run \in RunRecords
        /\ StagesPaid(run, asked, done) /\ asked \subseteq Checkpoints
        /\ run.step => AttemptStands(run, a, asked, done)
    BY <1>1, WorkerIsMine, RunIsGood
  <1>3. PICK x \in RunRecords :
          /\ doc'.runs = [doc.runs EXCEPT ![a.run] = x]
          /\ x.committed = run.committed + 1 /\ x.step = run.step /\ x.generation = run.generation
          /\ ~x.reacting /\ Unfinished(x)
          /\ x.status \in {"completed", "awaiting-decision", "budget-paused", "queued"}
    BY CommittedRun
  <1>4. /\ f.run = a.run /\ f.boundary = run.committed /\ f.stage = LastStage /\ f.stage \in Stages
    BY <1>1, <1>2, Bounds DEF Stage, Matches
  <1>5. /\ Touches(a.run) /\ NothingAhead' /\ Bounded' /\ doc'.runs[a.run] = x
        /\ Mine(a.run)' = {} /\ AskedOf(a.run)' = asked
        /\ finished' = finished => DoneOf(a.run)' = done
        /\ recoveries'[a.run] = NoCheckpoint
    BY <1>1, <1>2, <1>3, LeavingTouches
  <1>6. DoneOf(a.run)' = IF run.step THEN done \cup {f} ELSE done
    BY <1>1, <1>4 DEF DoneOf
  <1> HIDE DEF run, asked, done, f
  <1>7. Placed(x, gates'[a.run], {}) /\ RecoveryFits(x, NoCheckpoint, asked)
    BY DEF Placed, RecoveryFits
  <1>8. run.committed \in Nat /\ x.committed \in Nat /\ x.committed > run.committed /\ x.committed >= run.committed
    BY <1>2, <1>3, RecordTyped
  <1>9. CASE run.step
    <2>1. /\ DoneStages(done, run.committed) = 0 .. f.stage - 1
          /\ \E c \in asked : c.boundary = f.boundary /\ c.stage = f.stage
      BY <1>1, <1>2, <1>4, <1>9 DEF AttemptStands, StandsAt
    <2>2. /\ StagesPaid(x, asked, done \cup {f})
          /\ DoneStages(done \cup {f}, x.committed) = DoneStages(done, x.committed)
      <3>1. asked \in SUBSET Checkpoints /\ x.step /\ x.committed # run.committed
        BY <1>2, <1>3, <1>8, <1>9
      <3>2. /\ StagesPaid(x, asked, done \cup {f})
            /\ \A boundary : boundary # run.committed =>
                 DoneStages(done \cup {f}, boundary) = DoneStages(done, boundary)
        BY <1>2, <1>3, <1>4, <1>8, <1>9, <2>1, <3>1, StageAdded
      <3> QED
        BY <3>1, <3>2
    <2>3. DoneStages(done, x.committed) = {} /\ \A c \in asked : c.boundary # x.committed
      BY <1>2, <1>8, LaterBoundaries
    <2>4. First(x) = 0 /\ 0 .. 0 - 1 = {}
      BY <1>3 DEF First
    <2>5. QueuedStands(x, NoCheckpoint, asked, done \cup {f})
      BY <2>2, <2>3, <2>4 DEF QueuedStands, StandsAt
    <2>6. Stands(x, NoCheckpoint, {}, asked, done \cup {f})
      BY <1>3, <2>2, <2>3, <2>5 DEF Stands
    <2>7. RunGood(x, NoCheckpoint, gates'[a.run], {}, asked, done \cup {f})
      BY <1>3, <1>7, <2>2, <2>6 DEF RunGood
    <2>8. RunsGood'
      BY <1>2, <1>5, <1>6, <1>9, <2>7, OneRunTouched DEF JInv
    <2>9. Does(f)
      <3>1. accepted' = accepted /\ finished' = finished \cup {f}
        BY <1>1, <1>9 DEF run, f
      <3>2. /\ DOMAIN doc'.runs = DOMAIN doc.runs
            /\ \A q \in DOMAIN doc.runs : q # f.run => doc'.runs[q].committed = doc.runs[q].committed
        BY <1>4, <1>5 DEF Touches
      <3>3. /\ f.run \in DOMAIN doc.runs /\ f.boundary = doc.runs[f.run].committed /\ f.stage = LastStage
            /\ f.stage \in Stages
            /\ doc'.runs[f.run].committed = f.boundary + 1
        BY <1>2, <1>3, <1>4, <1>5 DEF run
      <3>4. /\ DoneStages(DoneOf(f.run), f.boundary) = 0 .. f.stage - 1
            /\ \E c \in AskedOf(f.run) : c.boundary = f.boundary /\ c.stage = f.stage
        BY <1>4, <2>1 DEF asked, done
      <3> QED
        BY <3>1, <3>2, <3>3, <3>4 DEF Does
    <2> QED
      BY <1>5, <2>8, <2>9 DEF JInv, Follows
  <1>10. CASE ~run.step
    <2>1. done = {} /\ finished' = finished
      BY <1>1, <1>2, <1>10 DEF StagesPaid, run
    <2>2. \A c \in asked : c.generation <= x.generation /\ c.boundary <= x.committed
      BY <1>2, <1>3, <1>8, CheckpointTyped DEF StagesPaid
    <2>3. StagesPaid(x, asked, done)
      BY <2>1, <2>2 DEF StagesPaid
    <2>4. RunGood(x, NoCheckpoint, gates'[a.run], {}, asked, done)
      BY <1>3, <1>7, <1>10, <2>3 DEF RunGood
    <2>5. RunsGood'
      BY <1>2, <1>5, <2>1, <2>4, OneRunTouched DEF JInv
    <2>6. Quiet
      BY <1>1, <1>5, <2>1 DEF Quiet, Standing, Touches, done
    <2> QED
      BY <1>5, <2>5, <2>6 DEF JInv, Follows
  <1> QED
    BY <1>9, <1>10

-----------------------------------------------------------------------------
(* Attempts that park, and attempts that start.                             *)

LEMMA ParkedRun ==
  ASSUME IInv, JInv, NEW a \in attempts, AtWork(a), NEW stage \in Stages, Park(a, stage),
         doc.runs[a.run].step, UNCHANGED <<gates, recoveries, accepted>>,
         finished' \in {finished, finished \cup {Stage(a)}},
         \A e \in Executions : executions'[e].sealed \in Stages
  PROVE  LET run == doc.runs[a.run]
         IN \E x \in RunRecords :
              /\ doc'.runs[a.run] = x
              /\ x.status = "debug-paused" /\ x.checkpoint.stage = stage
              /\ x.committed = run.committed /\ x.step /\ x.generation = run.generation
              /\ Unfinished(x) /\ Placed(x, gates'[a.run], Mine(a.run)')
              /\ recoveries'[a.run] = NoCheckpoint /\ AskedOf(a.run)' = AskedOf(a.run)
              /\ Touches(a.run) /\ NothingAhead' /\ Bounded'
  <1> DEFINE run == doc.runs[a.run]
             c == CheckpointAt(a, stage)
             x == [run EXCEPT !.status = "debug-paused", !.checkpoint = c]
             parked == [a EXCEPT !.stage = stage, !.point = "parked"]
  <1>1. /\ a.run \in DOMAIN doc.runs /\ Mine(a.run) = {a} /\ Matches(a.snapshot, run)
        /\ a.snapshot \in RunRecords /\ run \in RunRecords /\ Unfinished(run) /\ run.status = "running"
        /\ recoveries[a.run] = NoCheckpoint /\ gates[a.run] = a.execution
        /\ a \in AttemptType /\ a.run \in RunIds
    BY WorkerIsMine, RunIsGood, Alone
  <1>2. c \in Checkpoints /\ c.stage = stage
    <2>1. /\ run.generation \in 0 .. MaxGeneration /\ run.committed \in 0 .. MaxBoundaries
          /\ a.run \in 0 .. MaxRuns
      BY <1>1, RecordTyped, Bounds DEF RunIds
    <2>2. a.execution \in 0 .. MaxExecutions
      BY <1>1, Bounds DEF AttemptType, Executions
    <2> HIDE DEF run
    <2>3. c = [run |-> a.run, execution |-> a.execution, stage |-> stage,
               generation |-> run.generation, boundary |-> run.committed]
      BY DEF CheckpointAt, run
    <2> HIDE DEF c
    <2> QED
      BY <2>1, <2>2, <2>3 DEF Checkpoints
  <1>3. /\ doc'.runs = [doc.runs EXCEPT ![a.run] = x]
        /\ attempts' = (attempts \ {a}) \cup {parked}
    BY <1>1 DEF Park, IInv, DocTyped
  <1> HIDE DEF c
  <1>4. /\ x \in RunRecords /\ x.status = "debug-paused" /\ x.checkpoint = c
        /\ x.committed = run.committed /\ x.step = run.step /\ x.generation = run.generation
        /\ x.reacting = run.reacting /\ x.requested = run.requested
    BY <1>1, <1>2 DEF RunRecords, Statuses
  <1>5. /\ parked.run = a.run /\ parked.snapshot = a.snapshot /\ parked.execution = a.execution
        /\ parked.point = "parked" /\ parked.stage = stage
    BY <1>1 DEF AttemptType
  <1> HIDE DEF parked, x, run
  <1>6. /\ DOMAIN doc'.runs = DOMAIN doc.runs /\ doc'.runs[a.run] = x
        /\ \A q \in DOMAIN doc.runs : q # a.run => doc'.runs[q] = doc.runs[q]
    BY <1>1, <1>3
  <1>7. Mine(a.run)' = {parked} /\ AskedOf(a.run)' = AskedOf(a.run)
    BY <1>1, <1>3, <1>5 DEF Mine, AskedOf
  <1>8. Placed(x, gates'[a.run], {parked})
    BY <1>1, <1>4, <1>5 DEF Placed, Matches
  <1>9. Unfinished(x)
    BY <1>1, <1>4 DEF Unfinished
  <1>10. Stage(a).run = a.run
    BY DEF Stage
  <1>11. Touches(a.run)
    BY <1>3, <1>5, <1>6, <1>10 DEF Touches
  <1>12. NothingAhead'
    BY <1>1, <1>6, <1>10 DEF JInv, NothingAhead
  <1>13. Bounded'
    <2>1. IsFiniteSet(finished')
      BY FS_AddElement DEF JInv, Bounded
    <2> QED
      BY <2>1, <1>1, <1>3, <1>5 DEF JInv, Bounded
  <1> QED
    BY <1>1, <1>2, <1>4, <1>6, <1>7, <1>8, <1>9, <1>11, <1>12, <1>13 DEF run

LEMMA ArriveMoves ==
  ASSUME IInv, JInv, NEW a \in attempts, Arrive(a)
  PROVE  JInv' /\ Follows
  <1> DEFINE run == doc.runs[a.run]
             asked == AskedOf(a.run)
             done == DoneOf(a.run)
  <1>1. /\ AtWork(a) /\ a.point = "arriving" /\ a.stage \in Stages /\ Park(a, a.stage)
        /\ UNCHANGED <<gates, recoveries, executions, accepted, finished>>
        /\ \A e \in Executions : executions'[e].sealed \in Stages
    BY DEF Arrive, AtWork, JInv, Bounded
  <1>2. run.step
    BY <1>1 DEF IInv, Leads, WorkersReady
  <1>3. PICK x \in RunRecords :
              /\ doc'.runs[a.run] = x
              /\ x.status = "debug-paused" /\ x.checkpoint.stage = a.stage
              /\ x.committed = run.committed /\ x.step /\ x.generation = run.generation
              /\ Unfinished(x) /\ Placed(x, gates'[a.run], Mine(a.run)')
              /\ recoveries'[a.run] = NoCheckpoint /\ AskedOf(a.run)' = AskedOf(a.run)
              /\ Touches(a.run) /\ NothingAhead' /\ Bounded'
    BY <1>1, <1>2, ParkedRun
  <1>4. /\ a.run \in DOMAIN doc.runs /\ run \in RunRecords /\ StagesPaid(run, asked, done)
        /\ AttemptStands(run, a, asked, done) /\ asked \subseteq Checkpoints
    BY <1>1, <1>2, WorkerIsMine, RunIsGood
  <1>5. DoneOf(a.run)' = done
    BY <1>1 DEF DoneOf
  <1> HIDE DEF run, asked, done
  <1>6. StandsAt(x, asked, done, a.stage, a.stage)
    <2>1. StandsAt(run, asked, done, a.stage, 0)
      BY <1>1, <1>4 DEF AttemptStands
    <2>2. \A c \in asked : ~(c.stage < 0)
      BY <1>4, CheckpointTyped
    <2> QED
      BY <1>3, <2>1, <2>2 DEF StandsAt
  <1>7. Stands(x, NoCheckpoint, Mine(a.run)', asked, done)
    BY <1>3, <1>6 DEF Stands
  <1>8. StagesPaid(x, asked, done)
    BY <1>2, <1>3, <1>4 DEF StagesPaid
  <1>9. RunGood(x, NoCheckpoint, gates'[a.run], Mine(a.run)', asked, done)
    BY <1>3, <1>7, <1>8 DEF RunGood, RecoveryFits
  <1>10. RunsGood'
    BY <1>3, <1>4, <1>5, <1>9, OneRunTouched DEF JInv, asked
  <1>11. Quiet
    BY <1>1, <1>3 DEF Quiet, Standing, Touches, run
  <1> QED
    BY <1>3, <1>10, <1>11 DEF JInv, Follows

LEMMA FinishStageMoves ==
  ASSUME IInv, JInv, NEW a \in attempts, FinishStage(a)
  PROVE  JInv' /\ Follows
  <1> DEFINE run == doc.runs[a.run]
             asked == AskedOf(a.run)
             done == DoneOf(a.run)
             f == Stage(a)
             n == a.stage + 1
  <1>1. /\ AtWork(a) /\ a.point = "working" /\ a.stage \in Stages /\ a.stage < LastStage /\ Park(a, n)
        /\ executions' = [executions EXCEPT ![a.execution].sealed = n]
        /\ finished' = finished \cup {f} /\ UNCHANGED <<gates, recoveries, accepted>>
    BY DEF FinishStage, AtWork, JInv, Bounded
  <1>2. n \in Stages /\ n - 1 = a.stage /\ a.stage # LastStage
    BY <1>1, Bounds DEF Stages
  <1>3. run.step
    BY <1>1, Bounds DEF IInv, Leads, WorkersReady
  <1>4. \A e \in Executions : executions'[e].sealed \in Stages
    BY <1>1, <1>2 DEF IInv, RestTyped, ExecutionType, JInv, Bounded
  <1>5. /\ a.run \in DOMAIN doc.runs /\ run \in RunRecords /\ StagesPaid(run, asked, done)
        /\ AttemptStands(run, a, asked, done) /\ Matches(a.snapshot, run)
        /\ asked \in SUBSET Checkpoints
    BY <1>1, <1>3, WorkerIsMine, RunIsGood
  <1>6. PICK x \in RunRecords :
              /\ doc'.runs[a.run] = x
              /\ x.status = "debug-paused" /\ x.checkpoint.stage = n
              /\ x.committed = run.committed /\ x.step /\ x.generation = run.generation
              /\ Unfinished(x) /\ Placed(x, gates'[a.run], Mine(a.run)')
              /\ recoveries'[a.run] = NoCheckpoint /\ AskedOf(a.run)' = AskedOf(a.run)
              /\ Touches(a.run) /\ NothingAhead' /\ Bounded'
    <2> HIDE DEF n
    <2> QED
      BY <1>1, <1>2, <1>3, <1>4, ParkedRun
  <1>7. f.run = a.run /\ f.boundary = run.committed /\ f.stage = a.stage
    BY <1>5 DEF Stage, Matches
  <1>8. DoneOf(a.run)' = done \cup {f}
    BY <1>1, <1>7 DEF DoneOf
  <1> HIDE DEF run, asked, done, f, n
  <1>9. /\ DoneStages(done, run.committed) = 0 .. f.stage - 1
        /\ \E c \in asked : c.boundary = f.boundary /\ c.stage = f.stage
        /\ \A c \in asked : c.generation = run.generation /\ c.boundary = run.committed => c.stage < n
    BY <1>1, <1>5, <1>7 DEF AttemptStands, StandsAt, n
  <1>10. x.committed >= run.committed
    BY <1>6, RecordTyped
  <1>11. StagesPaid(x, asked, done \cup {f}) /\ DoneStages(done \cup {f}, run.committed) = 0 .. f.stage
    BY <1>1, <1>3, <1>5, <1>6, <1>7, <1>9, <1>10, StageAdded
  <1>12. StandsAt(x, asked, done \cup {f}, n, n)
    BY <1>2, <1>6, <1>7, <1>9, <1>11 DEF StandsAt
  <1>13. Stands(x, NoCheckpoint, Mine(a.run)', asked, done \cup {f})
    BY <1>6, <1>12 DEF Stands
  <1>14. RunGood(x, NoCheckpoint, gates'[a.run], Mine(a.run)', asked, done \cup {f})
    BY <1>6, <1>11, <1>13 DEF RunGood, RecoveryFits
  <1>15. RunsGood'
    BY <1>5, <1>6, <1>8, <1>14, OneRunTouched DEF JInv, asked
  <1>16. Does(f)
    <2>1. /\ DOMAIN doc'.runs = DOMAIN doc.runs /\ accepted' = accepted /\ finished' = finished \cup {f}
          /\ \A q \in DOMAIN doc.runs : q # f.run => doc'.runs[q].committed = doc.runs[q].committed
      BY <1>1, <1>6, <1>7 DEF Touches
    <2>2. /\ f.run \in DOMAIN doc.runs /\ f.boundary = doc.runs[f.run].committed /\ f.stage \in Stages
          /\ doc'.runs[f.run].committed = f.boundary /\ f.stage # LastStage
      BY <1>1, <1>2, <1>5, <1>6, <1>7 DEF run
    <2>3. /\ DoneStages(DoneOf(f.run), f.boundary) = 0 .. f.stage - 1
          /\ \E c \in AskedOf(f.run) : c.boundary = f.boundary /\ c.stage = f.stage
      BY <1>7, <1>9 DEF asked, done
    <2> QED
      BY <2>1, <2>2, <2>3 DEF Does
  <1> QED
    BY <1>6, <1>15, <1>16 DEF JInv, Follows

LEMMA StartAttemptMoves ==
  ASSUME IInv, JInv, NEW r \in DOMAIN doc.runs, StartAttempt(r)
  PROVE  JInv' /\ Follows
  <1> DEFINE run == doc.runs[r]
             recovery == recoveries[r]
             recovered == recovery # NoCheckpoint
             asked == AskedOf(r)
             done == DoneOf(r)
             x == [run EXCEPT !.status = "running"]
             first == IF recovered THEN recovery.stage ELSE First(run)
             new == [run |-> r, execution |-> NewExecution, enabled |-> doc.enabled,
                     revision |-> doc.revision, snapshot |-> x,
                     stage |-> IF run.step THEN first ELSE LastStage,
                     point |-> IF run.step /\ ~recovered THEN "arriving" ELSE "working"]
  <1>1. /\ run.status = "queued" /\ \E f \in Executions : executions[f].status = "none"
        /\ doc' = [doc EXCEPT !.runs[r] = x] /\ attempts' = attempts \cup {new}
        /\ executions' = [executions EXCEPT ![NewExecution] =
                            [status |-> "running", sealed |-> first, damaged |-> FALSE]]
        /\ gates' = IF run.step THEN [gates EXCEPT ![r] = NewExecution] ELSE gates
        /\ recoveries' = [recoveries EXCEPT ![r] = NoCheckpoint]
        /\ UNCHANGED <<accepted, finished>>
    BY DEF StartAttempt, First
  <1>2. /\ r \in RunIds /\ run \in RunRecords /\ Unfinished(run) /\ Placed(run, gates[r], Mine(r))
        /\ RecoveryFits(run, recovery, asked) /\ StagesPaid(run, asked, done)
        /\ run.step => Stands(run, recovery, Mine(r), asked, done)
        /\ recovery \in Checkpoints
    BY RunIsGood
  <1>3. Mine(r) = {}
    BY <1>1, <1>2 DEF Placed
  <1>4. first \in Stages /\ LastStage \in Stages
    BY <1>2, Bounds, CheckpointTyped DEF First
  <1>5. NewExecution \in Executions
    BY <1>1 DEF NewExecution
  <1>6. /\ x \in RunRecords /\ x.status = "running" /\ x.committed = run.committed /\ x.step = run.step
        /\ x.generation = run.generation /\ x.reacting = run.reacting /\ x.requested = run.requested
    BY <1>2 DEF RunRecords, Statuses
  <1>7. doc'.runs = [doc.runs EXCEPT ![r] = x]
    BY <1>1 DEF IInv, DocTyped
  <1> HIDE DEF x
  <1>8. /\ DOMAIN doc'.runs = DOMAIN doc.runs /\ doc'.runs[r] = x
        /\ \A q \in DOMAIN doc.runs : q # r => doc'.runs[q] = doc.runs[q]
    BY <1>7
  <1>9. /\ gates'[r] = IF run.step THEN NewExecution ELSE gates[r]
        /\ recoveries'[r] = NoCheckpoint
        /\ \A q \in DOMAIN doc.runs : q # r => gates'[q] = gates[q] /\ recoveries'[q] = recoveries[q]
    <2>1. DOMAIN doc.runs \subseteq RunIds
      BY RunsTyped DEF IInv
    <2> QED
      BY <2>1, <1>1, <1>2 DEF IInv, RestTyped
  <1>10. \A e \in Executions : executions'[e].sealed \in Stages
    BY <1>1, <1>4 DEF JInv, Bounded, IInv, RestTyped
  <1>11. /\ new.run = r /\ new.snapshot = x /\ new.execution = NewExecution /\ AtWork(new)
         /\ new.stage \in Stages /\ (run.step => new.stage = first)
         /\ run.step => (new.point = "arriving" <=> ~recovered)
    BY <1>4 DEF AtWork
  <1> HIDE DEF new, first, run, recovery, asked, done
  <1>12. /\ Mine(r)' = {new} /\ AskedOf(r)' = asked /\ DoneOf(r)' = done
    BY <1>1, <1>3, <1>11 DEF Mine, AskedOf, DoneOf, asked, done
  <1>13. Touches(r)
    BY <1>1, <1>8, <1>9, <1>11 DEF Touches
  <1>14. Placed(x, gates'[r], {new})
    BY <1>6, <1>9, <1>11 DEF Placed, Matches
  <1>15. StagesPaid(x, asked, done) /\ Unfinished(x) /\ RecoveryFits(x, NoCheckpoint, asked)
    BY <1>1, <1>2, <1>6 DEF StagesPaid, Unfinished, RecoveryFits
  <1>16. ASSUME run.step PROVE AttemptStands(x, new, asked, done)
    <2>1. QueuedStands(run, recovery, asked, done)
      BY <1>1, <1>2, <1>16 DEF Stands
    <2>2. CASE recovered
      <3>1. /\ StandsAt(run, asked, done, recovery.stage, recovery.stage + 1)
            /\ recovery \in asked /\ recovery.boundary = run.committed
            /\ new.stage = recovery.stage /\ new.point # "arriving"
        BY <1>2, <1>11, <1>16, <2>1, <2>2 DEF QueuedStands, RecoveryFits, first
      <3>2. StandsAt(x, asked, done, new.stage, new.stage + 1)
        BY <3>1, <1>6 DEF StandsAt
      <3> QED
        BY <3>1, <3>2, <1>6 DEF AttemptStands
    <2>3. CASE ~recovered
      <3>1. /\ StandsAt(run, asked, done, First(run), 0)
            /\ new.stage = First(run) /\ new.point = "arriving"
        BY <1>11, <1>16, <2>1, <2>3 DEF QueuedStands, first
      <3>2. StandsAt(x, asked, done, new.stage, 0)
        BY <3>1, <1>6 DEF StandsAt
      <3> QED
        BY <3>1, <3>2 DEF AttemptStands
    <2> QED
      BY <2>2, <2>3
  <1>17. x.step => Stands(x, NoCheckpoint, {new}, asked, done)
    BY <1>6, <1>16 DEF Stands
  <1>18. RunGood(x, NoCheckpoint, gates'[r], {new}, asked, done)
    BY <1>6, <1>14, <1>15, <1>17 DEF RunGood
  <1>19. RunsGood'
    BY <1>8, <1>9, <1>12, <1>13, <1>18, OneRunTouched DEF JInv
  <1>20. NothingAhead'
    BY <1>1, <1>8 DEF JInv, NothingAhead, IInv, RestTyped
  <1>21. Bounded'
    BY <1>1, <1>6, <1>10, <1>11, Bounds DEF JInv, Bounded
  <1>22. Quiet
    BY <1>1, <1>6, <1>8 DEF Quiet, Standing, run
  <1> QED
    BY <1>19, <1>20, <1>21, <1>22 DEF JInv, Follows

-----------------------------------------------------------------------------
(* Requests.                                                                *)

LEMMA GateTouches ==
  ASSUME IInv, JInv, NEW r \in RunIds, NEW p \in {"working", "cancelled"},
         attempts' = (attempts \ AtGate(r)) \cup {[a EXCEPT !.point = p] : a \in AtGate(r)}
  PROVE  /\ \A b : b.run # r => (b \in attempts' <=> b \in attempts)
         /\ \A b \in attempts' : b.snapshot \in RunRecords /\ b.stage \in Stages
         /\ \A b \in attempts' : b \in attempts \/
              \E a \in AtGate(r) : /\ a \in attempts /\ b.run = a.run /\ b.execution = a.execution
                                   /\ b.stage = a.stage /\ b.snapshot = a.snapshot /\ b.point = p
         /\ attempts' \cap AtGate(r) \subseteq {a \in attempts : a.point = p}
  <1> DEFINE Moved(a) == [a EXCEPT !.point = p]
  <1>1. \A a \in attempts : /\ Moved(a).run = a.run /\ Moved(a).execution = a.execution
                             /\ Moved(a).snapshot = a.snapshot /\ Moved(a).stage = a.stage
                             /\ Moved(a).point = p
    BY DEF IInv, RestTyped, AttemptType
  <1>2. /\ AtGate(r) \subseteq attempts /\ \A a \in AtGate(r) : a.run = r
    <2>1. \A a \in attempts : a.execution \in Executions
      BY DEF IInv, RestTyped, AttemptType
    <2> QED
      BY <2>1, ExecutionsAreNumbers DEF AtGate, IInv, GatesHold
  <1>3. attempts' = (attempts \ AtGate(r)) \cup {Moved(a) : a \in AtGate(r)}
    OBVIOUS
  <1>4. \A a \in attempts : a.snapshot \in RunRecords /\ a.stage \in Stages
    BY DEF JInv, Bounded
  <1>5. attempts' \cap AtGate(r) \subseteq {a \in attempts : a.point = p}
    BY <1>1, <1>2, <1>3
  <1> HIDE DEF Moved
  <1> QED
    BY <1>1, <1>2, <1>3, <1>4, <1>5

(* A request that applies is one that has not been accepted, for the next   *)
(* stage of its boundary.                                                   *)
LEMMA RequestFresh ==
  ASSUME IInv, JInv, NEW request \in Asked, Applies(request)
  PROVE  LET r == request.checkpoint.run
             run == doc.runs[r]
             c == request.checkpoint
         IN /\ r \in DOMAIN doc.runs /\ r \in RunIds /\ run.status = "debug-paused" /\ run.step
            /\ run \in RunRecords /\ c = run.checkpoint /\ c # NoCheckpoint
            /\ c.generation = run.generation /\ c.boundary = run.committed
            /\ request \in Requests /\ request \notin accepted
            /\ StagesPaid(run, AskedOf(r) \cup {c}, DoneOf(r))
            /\ StandsAt(run, AskedOf(r) \cup {c}, DoneOf(r), c.stage, c.stage + 1)
            /\ c \in Checkpoints
            /\ recoveries[r] = NoCheckpoint
  <1> DEFINE r == request.checkpoint.run
             run == doc.runs[r]
             c == request.checkpoint
             asked == AskedOf(r)
             done == DoneOf(r)
  <1>1. r \in DOMAIN doc.runs /\ run.status = "debug-paused" /\ run.checkpoint = c
    BY RequestsTyped DEF Applies
  <1>2. /\ run.step /\ c # NoCheckpoint /\ c.generation = run.generation /\ c.boundary = run.committed
    BY <1>1 DEF IInv, Leads, ParkedReady
  <1>3. /\ r \in RunIds /\ run \in RunRecords /\ StagesPaid(run, asked, done)
        /\ StandsAt(run, asked, done, c.stage, c.stage)
        /\ RecoveryFits(run, recoveries[r], asked) /\ asked \subseteq Checkpoints
    BY <1>1, <1>2, RunIsGood DEF Stands
  <1>4. c \in Checkpoints /\ c.stage \in Nat
    BY <1>1, <1>3, RecordTyped, CheckpointTyped
  <1>5. c \notin asked
    BY <1>2, <1>3, <1>4 DEF StandsAt
  <1>6. request \notin accepted
    BY <1>5 DEF AskedOf
  <1>7. request \in Requests
    BY <1>4 DEF Asked, Requests
  <1> HIDE DEF c, asked, done, run
  <1>8. /\ c.generation <= run.generation /\ c.boundary <= run.committed
    BY <1>2, <1>3, RecordTyped
  <1>9. StagesPaid(run, asked \cup {c}, done)
    <2>1. \A d \in asked \cup {c} : d.generation <= run.generation /\ d.boundary <= run.committed
      BY <1>3, <1>8 DEF StagesPaid
    <2>2. \A f \in done : /\ run.step /\ f.boundary <= run.committed
                          /\ \E d \in asked : d.boundary = f.boundary /\ d.stage = f.stage
      BY <1>3 DEF StagesPaid
    <2>3. \A f, g \in done : f.boundary = g.boundary /\ f.stage = g.stage => f = g
      BY <1>3 DEF StagesPaid
    <2> QED
      BY <2>1, <2>2, <2>3 DEF StagesPaid
  <1>10. StandsAt(run, asked \cup {c}, done, c.stage, c.stage + 1)
    <2>1. \A d \in asked : d.stage \in Nat
      BY <1>3, CheckpointTyped
    <2>2. ASSUME NEW d \in asked \cup {c}, d.generation = run.generation, d.boundary = run.committed
          PROVE  d.stage < c.stage + 1
      <3>1. CASE d = c
        BY <3>1, <1>4
      <3>2. CASE d \in asked
        BY <3>2, <2>1, <2>2, <1>3, <1>4 DEF StandsAt
      <3> QED
        BY <3>1, <3>2
    <2> QED
      BY <2>2, <1>3 DEF StandsAt
  <1>11. recoveries[r] = NoCheckpoint
    BY <1>1, <1>3 DEF RecoveryFits
  <1> QED
    BY <1>1, <1>2, <1>3, <1>4, <1>6, <1>7, <1>9, <1>10, <1>11 DEF c, asked, done, run

LEMMA RefuseMoves ==
  ASSUME IInv, JInv, NEW request \in Asked, Refuse(request)
  PROVE  JInv' /\ Follows
  <1>0. PICK r : r = request.checkpoint.run
    OBVIOUS
  <1> DEFINE run == doc.runs[r]
             x == Invalidated(run)
             n == run.generation + 1
  <1>1. /\ run.generation < MaxGeneration
        /\ doc' = [doc EXCEPT !.runs[r] = x]
        /\ attempts' = (attempts \ AtGate(r)) \cup {[a EXCEPT !.point = "cancelled"] : a \in AtGate(r)}
        /\ gates' = [gates EXCEPT ![r] = 0]
        /\ UNCHANGED <<recoveries, executions, accepted, finished>>
    BY <1>0 DEF Refuse
  <1>2. /\ r \in DOMAIN doc.runs /\ r \in RunIds /\ run \in RunRecords /\ recoveries[r] = NoCheckpoint
        /\ AskedOf(r) \subseteq Checkpoints
        /\ RunGood(run, recoveries[r], gates[r], Mine(r), AskedOf(r), DoneOf(r))
    BY <1>0, RequestFresh, RunIsGood DEF Refuse, JInv, RunsGood
  <1>3. n \in 1 .. MaxGeneration /\ n >= run.generation
    BY <1>1, <1>2, RecordTyped, Bounds
  <1>4. x = [run EXCEPT !.status = "preparation-invalidated", !.generation = n, !.reacting = FALSE]
    BY <1>2 DEF Invalidated, RunRecords
  <1>5. doc'.runs = [doc.runs EXCEPT ![r] = x]
    BY <1>1, <1>2 DEF IInv, DocTyped
  <1> HIDE DEF n, x
  <1>6. /\ x \in RunRecords /\ x.status = "preparation-invalidated" /\ x.generation = n
        /\ x.committed = run.committed /\ x.step = run.step
    BY <1>2, <1>3, <1>4 DEF RunRecords, Statuses
  <1>7. /\ DOMAIN doc'.runs = DOMAIN doc.runs /\ doc'.runs[r] = x
        /\ \A q \in DOMAIN doc.runs : q # r => doc'.runs[q] = doc.runs[q]
    BY <1>2, <1>5
  <1>8. /\ \A b : b.run # r => (b \in attempts' <=> b \in attempts)
        /\ \A b \in attempts' : b.snapshot \in RunRecords /\ b.stage \in Stages
    BY <1>1, <1>2, GateTouches
  <1>9. Touches(r)
    BY <1>1, <1>7, <1>8, RunsTyped DEF Touches, IInv, RestTyped
  <1> HIDE DEF run
  <1>10. RunGood(x, NoCheckpoint, gates'[r], Mine(r)', AskedOf(r), DoneOf(r))
    BY <1>2, <1>3, <1>6, StoppedGood
  <1>11. RunsGood'
    <2>1. AskedOf(r)' = AskedOf(r) /\ DoneOf(r)' = DoneOf(r) /\ recoveries'[r] = NoCheckpoint
      BY <1>1, <1>2 DEF AskedOf, DoneOf
    <2> QED
      BY <2>1, <1>2, <1>7, <1>9, <1>10, OneRunTouched DEF JInv
  <1>12. NothingAhead' /\ Bounded'
    BY <1>1, <1>7, <1>8 DEF JInv, NothingAhead, Bounded
  <1>13. Quiet
    BY <1>1, <1>6, <1>7 DEF Quiet, Standing, run
  <1> QED
    BY <1>11, <1>12, <1>13 DEF JInv, Follows

(* Nothing moves around the other runs.                                     *)
OthersStay(r) ==
  /\ \A q \in RunIds : q # r => gates'[q] = gates[q] /\ recoveries'[q] = recoveries[q]
  /\ \A b : b.run # r => (b \in attempts' <=> b \in attempts)

(* What accepting a request writes to the document.                         *)
WritesRequest(r, status, request) ==
  doc' = [doc EXCEPT !.runs[r].status = status, !.runs[r].lastRequest = request]

(* What holds of the run then.                                              *)
GrantedRun(r, request, status, x) ==
  LET run == doc.runs[r]
      c == request.checkpoint
  IN /\ doc'.runs[r] = x /\ x.status = status
     /\ x.committed = run.committed /\ x.step /\ x.generation = run.generation
     /\ x.reacting = run.reacting /\ x.requested = run.requested
     /\ Unfinished(x)
     /\ StagesPaid(x, AskedOf(r)', DoneOf(r)')
     /\ StandsAt(x, AskedOf(r)', DoneOf(r)', c.stage, c.stage + 1)
     /\ c = run.checkpoint /\ c \in AskedOf(r)'
     /\ c.boundary = x.committed /\ c.generation = x.generation
     /\ Touches(r) /\ Grants(request)
     /\ \A q \in accepted' : q.checkpoint.run \in DOMAIN doc'.runs
     /\ accepted' \subseteq Requests /\ IsFiniteSet(accepted')

(* Accepting a request: what changes, and what holds of the run afterwards. *)
LEMMA GrantTouches ==
  ASSUME IInv, JInv, NEW request \in Asked, Applies(request), NEW r, r = request.checkpoint.run,
         NEW status \in {"running", "queued"},
         WritesRequest(r, status, request), accepted' = accepted \cup {request}, finished' = finished, OthersStay(r)
  PROVE  \E x \in RunRecords : GrantedRun(r, request, status, x)
  <1> DEFINE run == doc.runs[r]
             c == request.checkpoint
             x == [run EXCEPT !.status = status, !.lastRequest = request]
  <1>1. /\ r \in DOMAIN doc.runs /\ r \in RunIds /\ run.status = "debug-paused" /\ run.step
        /\ run \in RunRecords /\ c = run.checkpoint
        /\ c.generation = run.generation /\ c.boundary = run.committed
        /\ request \in Requests /\ request \notin accepted
        /\ StagesPaid(run, AskedOf(r) \cup {c}, DoneOf(r))
        /\ StandsAt(run, AskedOf(r) \cup {c}, DoneOf(r), c.stage, c.stage + 1)
    BY RequestFresh
  <1>2. Unfinished(run)
    BY <1>1, RunIsGood
  <1>3. doc'.runs = [doc.runs EXCEPT ![r] = x]
    BY <1>1 DEF WritesRequest, IInv, DocTyped
  <1>4. /\ x \in RunRecords /\ x.status = status /\ x.committed = run.committed /\ x.step = run.step
        /\ x.generation = run.generation /\ x.reacting = run.reacting /\ x.requested = run.requested
    BY <1>1 DEF RunRecords, Statuses
  <1> HIDE DEF x
  <1>5. /\ DOMAIN doc'.runs = DOMAIN doc.runs /\ doc'.runs[r] = x
        /\ \A q \in DOMAIN doc.runs : q # r => doc'.runs[q] = doc.runs[q]
    BY <1>1, <1>3
  <1>6. AskedOf(r)' = AskedOf(r) \cup {c} /\ DoneOf(r)' = DoneOf(r)
    BY DEF AskedOf, DoneOf
  <1>7. Touches(r)
    BY <1>5, RunsTyped DEF Touches, OthersStay, IInv
  <1>8. Grants(request)
    BY <1>1, <1>4, <1>5 DEF Grants, Standing
  <1>9. accepted' \subseteq Requests /\ IsFiniteSet(accepted')
    BY <1>1, FS_AddElement DEF JInv, Bounded
  <1>10. \A q \in accepted' : q.checkpoint.run \in DOMAIN doc'.runs
    BY <1>1, <1>5 DEF JInv, NothingAhead
  <1> HIDE DEF run, c
  <1>11. StagesPaid(x, AskedOf(r)', DoneOf(r)')
    BY <1>1, <1>4, <1>6 DEF StagesPaid
  <1>12. StandsAt(x, AskedOf(r)', DoneOf(r)', c.stage, c.stage + 1)
    BY <1>1, <1>4, <1>6 DEF StandsAt
  <1>13. Unfinished(x)
    BY <1>1, <1>2, <1>4 DEF Unfinished
  <1> QED
    BY <1>1, <1>4, <1>5, <1>6, <1>7, <1>8, <1>9, <1>10, <1>11, <1>12, <1>13 DEF run, c, GrantedRun

LEMMA ReleaseMoves ==
  ASSUME IInv, JInv, NEW request \in Asked, Release(request)
  PROVE  JInv' /\ Follows
  <1>0. PICK r : r = request.checkpoint.run
    OBVIOUS
  <1> DEFINE run == doc.runs[r]
  <1>1. /\ Applies(request) /\ gates[r] # 0
        /\ doc' = [doc EXCEPT !.runs[r].status = "running", !.runs[r].lastRequest = request]
        /\ attempts' = (attempts \ AtGate(r)) \cup {[a EXCEPT !.point = "working"] : a \in AtGate(r)}
        /\ accepted' = accepted \cup {request}
        /\ UNCHANGED <<gates, recoveries, executions, finished>>
    BY <1>0 DEF Release, HasGate
  <1>2. /\ r \in DOMAIN doc.runs /\ r \in RunIds /\ run.status = "debug-paused" /\ run.step
        /\ recoveries[r] = NoCheckpoint
    BY <1>0, <1>1, RequestFresh
  <1>3. /\ \A b : b.run # r => (b \in attempts' <=> b \in attempts)
        /\ \A b \in attempts' : b.snapshot \in RunRecords /\ b.stage \in Stages
        /\ \A b \in attempts' : b \in attempts \/
              \E a \in AtGate(r) : /\ a \in attempts /\ b.run = a.run /\ b.execution = a.execution
                                   /\ b.stage = a.stage /\ b.snapshot = a.snapshot /\ b.point = "working"
        /\ attempts' \cap AtGate(r) \subseteq {a \in attempts : a.point = "working"}
    BY <1>1, <1>2, GateTouches
  <1>x. PICK x \in RunRecords : GrantedRun(r, request, "running", x)
    <2>1. OthersStay(r)
      BY <1>1, <1>3 DEF OthersStay
    <2>2. WritesRequest(r, "running", request)
      BY <1>1 DEF WritesRequest
    <2> QED
      BY <1>0, <1>1, <2>1, <2>2, GrantTouches
  <1>4. /\ doc'.runs[r] = x /\ x.status = "running"
        /\ x.committed = run.committed /\ x.step /\ x.generation = run.generation
        /\ x.reacting = run.reacting /\ x.requested = run.requested
        /\ Unfinished(x)
        /\ StagesPaid(x, AskedOf(r)', DoneOf(r)')
        /\ StandsAt(x, AskedOf(r)', DoneOf(r)', run.checkpoint.stage, run.checkpoint.stage + 1)
        /\ run.checkpoint \in AskedOf(r)' /\ run.checkpoint.boundary = x.committed
        /\ Touches(r) /\ Grants(request)
        /\ \A q \in accepted' : q.checkpoint.run \in DOMAIN doc'.runs
        /\ accepted' \subseteq Requests /\ IsFiniteSet(accepted')
    BY <1>0, <1>x DEF GrantedRun
  <1>5. Placed(run, gates[r], Mine(r))
    BY <1>2, RunIsGood
  <1>6. \A a \in attempts : a.run = r =>
          /\ a \in AtGate(r) /\ a.point = "parked" /\ Matches(a.snapshot, run) /\ gates[r] = a.execution
          /\ a.stage = run.checkpoint.stage
    <2>1. \A a \in attempts : a.run = r =>
            a.point = "parked" /\ Matches(a.snapshot, run) /\ gates[r] = a.execution
      BY <1>2, <1>5 DEF Placed, Mine
    <2>2. PICK a \in attempts : a.execution = gates[r] /\ a.stage = run.checkpoint.stage
      BY <1>1, <1>2 DEF IInv, Leads, ParkedReady, ParkedAtGate
    <2> QED
      BY <2>1, <2>2 DEF IInv, ExecutionsApart, AtGate
  <1>7. ASSUME NEW b \in attempts', b.run = r
        PROVE  /\ b.point = "working" /\ Matches(b.snapshot, run) /\ gates[r] = b.execution
               /\ b.stage = run.checkpoint.stage
    <2>1. CASE b \in attempts
      BY <2>1, <1>3, <1>6, <1>7
    <2>2. CASE \E a \in AtGate(r) : /\ a \in attempts /\ b.run = a.run /\ b.execution = a.execution
                                   /\ b.stage = a.stage /\ b.snapshot = a.snapshot /\ b.point = "working"
      BY <2>2, <1>6, <1>7
    <2> QED
      BY <2>1, <2>2, <1>3
  <1> HIDE DEF run
  <1>8. Placed(x, gates'[r], Mine(r)')
    BY <1>1, <1>2, <1>4, <1>7 DEF Placed, Mine, Matches, AtWork
  <1>9. ASSUME NEW b \in Mine(r)'
        PROVE  AttemptStands(x, b, AskedOf(r)', DoneOf(r)')
    BY <1>4, <1>7 DEF Mine, AttemptStands
  <1>10. Stands(x, recoveries'[r], Mine(r)', AskedOf(r)', DoneOf(r)')
    BY <1>4, <1>9 DEF Stands
  <1>11. RunGood(x, recoveries'[r], gates'[r], Mine(r)', AskedOf(r)', DoneOf(r)')
    BY <1>1, <1>2, <1>4, <1>8, <1>10 DEF RunGood, RecoveryFits
  <1>12. RunsGood'
    BY <1>2, <1>4, <1>11, OneRunTouched DEF JInv
  <1>13. NothingAhead'
    BY <1>1, <1>4 DEF JInv, NothingAhead, Touches
  <1>14. Bounded'
    BY <1>1, <1>3, <1>4 DEF JInv, Bounded
  <1> QED
    BY <1>4, <1>12, <1>13, <1>14 DEF JInv, Follows

LEMMA RecoverMoves ==
  ASSUME IInv, JInv, NEW request \in Asked, Recover(request)
  PROVE  JInv' /\ Follows
  <1>0. PICK r : r = request.checkpoint.run
    OBVIOUS
  <1> DEFINE run == doc.runs[r]
             c == request.checkpoint
  <1>1. /\ Applies(request) /\ gates[r] = 0
        /\ doc' = [doc EXCEPT !.runs[r].status = "queued", !.runs[r].lastRequest = request]
        /\ recoveries' = [recoveries EXCEPT ![r] = c]
        /\ executions' = [executions EXCEPT ![c.execution].status = IF @ = "running" THEN "cancelled" ELSE @]
        /\ accepted' = accepted \cup {request}
        /\ UNCHANGED <<attempts, gates, finished>>
    BY <1>0 DEF Recover, HasGate
  <1>2. /\ r \in DOMAIN doc.runs /\ r \in RunIds /\ run.status = "debug-paused" /\ run.step
        /\ c \in Checkpoints /\ c # NoCheckpoint
    BY <1>0, <1>1, RequestFresh
  <1>x. PICK x \in RunRecords : GrantedRun(r, request, "queued", x)
    <2>1. OthersStay(r)
      BY <1>1 DEF OthersStay, IInv, RestTyped
    <2>2. WritesRequest(r, "queued", request)
      BY <1>1 DEF WritesRequest
    <2> QED
      BY <1>0, <1>1, <2>1, <2>2, GrantTouches
  <1>3. /\ doc'.runs[r] = x /\ x.status = "queued"
        /\ x.committed = run.committed /\ x.step /\ x.generation = run.generation
        /\ Unfinished(x)
        /\ StagesPaid(x, AskedOf(r)', DoneOf(r)')
        /\ StandsAt(x, AskedOf(r)', DoneOf(r)', run.checkpoint.stage, run.checkpoint.stage + 1)
        /\ run.checkpoint \in AskedOf(r)' /\ run.checkpoint.boundary = x.committed
        /\ run.checkpoint.generation = x.generation
        /\ run.checkpoint = c
        /\ Touches(r) /\ Grants(request)
        /\ \A q \in accepted' : q.checkpoint.run \in DOMAIN doc'.runs
        /\ accepted' \subseteq Requests /\ IsFiniteSet(accepted')
    BY <1>0, <1>x DEF GrantedRun
  <1>4. /\ recoveries'[r] = c /\ recoveries' \in [RunIds -> Checkpoints]
        /\ \A q \in RunIds : q # r => recoveries'[q] = recoveries[q]
    BY <1>1, <1>2 DEF JInv, Bounded
  <1>5. Mine(r)' = {}
    <2>1. \A a \in Mine(r) : gates[r] = a.execution
      BY <1>2, RunIsGood DEF Placed
    <2>2. \A a \in attempts : a.execution # 0
      BY ExecutionsAreNumbers DEF IInv, RestTyped, AttemptType
    <2> QED
      BY <1>1, <2>1, <2>2 DEF Mine
  <1>6. \A e \in Executions : executions'[e].sealed = executions[e].sealed
    BY <1>1 DEF IInv, RestTyped, ExecutionType
  <1> HIDE DEF run, c
  <1>7. /\ Placed(x, gates'[r], {}) /\ RecoveryFits(x, c, AskedOf(r)')
    BY <1>3 DEF Placed, RecoveryFits
  <1>8. Stands(x, c, {}, AskedOf(r)', DoneOf(r)')
    BY <1>2, <1>3 DEF Stands, QueuedStands
  <1>9. RunGood(x, recoveries'[r], gates'[r], Mine(r)', AskedOf(r)', DoneOf(r)')
    BY <1>3, <1>4, <1>5, <1>7, <1>8 DEF RunGood
  <1>10. RunsGood'
    BY <1>2, <1>3, <1>9, OneRunTouched DEF JInv
  <1>11. NothingAhead'
    BY <1>1, <1>2, <1>3, <1>4 DEF JInv, NothingAhead, Touches
  <1>12. Bounded'
    BY <1>1, <1>3, <1>4, <1>6 DEF JInv, Bounded
  <1> QED
    BY <1>3, <1>10, <1>11, <1>12 DEF JInv, Follows

-----------------------------------------------------------------------------
(* Restarts.                                                                *)

(* A run that is not on its way needs nobody.                               *)
LEMMA CalmGood ==
  ASSUME NEW run, NEW recovery, NEW gate, NEW mine, NEW asked, NEW done,
         RunGood(run, recovery, gate, mine, asked, done),
         run.status \notin {"queued", "running"}, NEW gate2
  PROVE  RunGood(run, NoCheckpoint, gate2, {}, asked, done)
  <1>1. Placed(run, gate2, {}) /\ RecoveryFits(run, NoCheckpoint, asked)
    BY DEF Placed, RecoveryFits
  <1>2. run.step => Stands(run, NoCheckpoint, {}, asked, done)
    BY DEF RunGood, Stands
  <1> QED
    BY <1>1, <1>2 DEF RunGood

LEMMA RestoredGood ==
  ASSUME IInv, JInv, NEW r \in DOMAIN doc.runs, doc.runs[r].generation < MaxGeneration
  PROVE  /\ RunGood(Restored(r), NoCheckpoint, 0, {}, AskedOf(r), DoneOf(r))
         /\ Restored(r).committed = doc.runs[r].committed
  <1> DEFINE run == doc.runs[r]
             n == run.generation + 1
             paused == [run EXCEPT !.status = "paused", !.generation = n]
             invalidated == [run EXCEPT !.status = "preparation-invalidated", !.generation = n, !.reacting = FALSE]
  <1>1. /\ run \in RunRecords /\ AskedOf(r) \subseteq Checkpoints
        /\ RunGood(run, recoveries[r], gates[r], Mine(r), AskedOf(r), DoneOf(r))
    BY RunIsGood DEF JInv, RunsGood
  <1>2. n \in 1 .. MaxGeneration /\ n >= run.generation
    BY <1>1, RecordTyped, Bounds
  <1>3. (Restored(r) = run /\ run.status \notin {"queued", "running"}) \/ Restored(r) \in {paused, invalidated}
    <2>1. /\ paused = [run EXCEPT !.status = "paused", !.generation = @ + 1]
          /\ invalidated = Invalidated(run)
      BY <1>1 DEF Invalidated, RunRecords
    <2>2. \/ Restored(r) = run /\ run.status \notin {"queued", "running"}
          \/ Restored(r) = [run EXCEPT !.status = "paused", !.generation = @ + 1]
          \/ Restored(r) = Invalidated(run)
      <3> HIDE DEF paused, invalidated
      <3> QED
        BY DEF Restored
    <2> QED
      BY <2>1, <2>2
  <1> HIDE DEF run, n
  <1>4. \A x \in {paused, invalidated} :
          /\ x \in RunRecords /\ x.status \in {"paused", "preparation-invalidated"} /\ x.generation = n
          /\ x.committed = run.committed /\ x.step = run.step
    BY <1>1, <1>2 DEF RunRecords, Statuses
  <1> HIDE DEF paused, invalidated
  <1>5. CASE Restored(r) = run /\ run.status \notin {"queued", "running"}
    BY <1>1, <1>5, CalmGood DEF run
  <1>6. CASE Restored(r) \in {paused, invalidated}
    <2>1. PICK x \in {paused, invalidated} : x = Restored(r)
      BY <1>6
    <2>2. x \in RunRecords /\ x.status \in {"paused", "preparation-invalidated"} /\ x.generation >= run.generation
          /\ x.committed = run.committed /\ x.step = run.step
      BY <1>2, <1>4
    <2>3. RunGood(x, NoCheckpoint, 0, {}, AskedOf(r), DoneOf(r))
      BY <1>1, <2>2, StoppedGood
    <2> QED
      BY <2>1, <2>2, <2>3 DEF run
  <1> QED
    BY <1>3, <1>5, <1>6

LEMMA RestartMoves ==
  ASSUME IInv, JInv, Restart
  PROVE  JInv' /\ Follows
  <1>1. /\ doc' = [doc EXCEPT !.runs = [r \in DOMAIN doc.runs |-> Restored(r)]] /\ attempts' = {}
        /\ gates' = [r \in RunIds |-> 0] /\ recoveries' = [r \in RunIds |-> NoCheckpoint]
        /\ executions' = [e \in Executions |->
             [executions[e] EXCEPT !.status = IF @ = "running" THEN "failed" ELSE @]]
        /\ UNCHANGED <<accepted, finished>>
        /\ \A r \in DOMAIN doc.runs : doc.runs[r].generation < MaxGeneration
    BY DEF Restart
  <1>2. /\ DOMAIN doc'.runs = DOMAIN doc.runs
        /\ \A r \in DOMAIN doc.runs : doc'.runs[r] = Restored(r)
    BY <1>1 DEF IInv, DocTyped
  <1>3. DOMAIN doc.runs \subseteq RunIds
    BY RunsTyped DEF IInv
  <1>4. RunsGood'
    <2> SUFFICES ASSUME NEW r \in DOMAIN doc.runs
                 PROVE  RunGood(doc'.runs[r], recoveries'[r], gates'[r], Mine(r)', AskedOf(r)', DoneOf(r)')
      BY <1>2 DEF RunsGood
    <2>1. /\ recoveries'[r] = NoCheckpoint /\ gates'[r] = 0 /\ Mine(r)' = {}
          /\ AskedOf(r)' = AskedOf(r) /\ DoneOf(r)' = DoneOf(r)
      BY <1>1, <1>3 DEF Mine, AskedOf, DoneOf
    <2>2. RunGood(Restored(r), NoCheckpoint, 0, {}, AskedOf(r), DoneOf(r))
      BY <1>1, RestoredGood
    <2> QED
      BY <1>2, <2>1, <2>2
  <1>5. NothingAhead'
    BY <1>1, <1>2 DEF JInv, NothingAhead
  <1>6. Bounded'
    <2>1. \A e \in Executions : executions'[e].sealed = executions[e].sealed
      BY <1>1 DEF IInv, RestTyped, ExecutionType
    <2> QED
      BY <2>1, <1>1, Bounds DEF JInv, Bounded
  <1>7. Quiet
    BY <1>1, <1>2, RestoredGood DEF Quiet, Standing
  <1> QED
    BY <1>4, <1>5, <1>6, <1>7 DEF JInv, Follows

-----------------------------------------------------------------------------
LEMMA InitGood == Init => JInv
  <1> SUFFICES ASSUME Init PROVE JInv
    OBVIOUS
  <1>1. doc.runs = <<>> /\ DOMAIN doc.runs = {}
    BY DEF Init
  <1>2. RunsGood /\ NothingAhead
    BY <1>1 DEF Init, RunsGood, NothingAhead
  <1>3. Bounded
    BY Bounds, FS_EmptySet DEF Init, Bounded, NoExecution
  <1> QED
    BY <1>2, <1>3 DEF JInv

LEMMA StepMoves ==
  ASSUME IInv, JInv, [Next]_vars
  PROVE  IInv' /\ JInv' /\ Follows
  <1>0. IInv'
    BY StepHolds
  <1>1. ASSUME NEW enabled \in BOOLEAN, SetDebugMode(enabled) PROVE JInv' /\ Follows
    BY <1>1, SetDebugModeMoves
  <1>2. ASSUME NEW requested \in 1 .. MaxBoundaries, Advance(requested) PROVE JInv' /\ Follows
    BY <1>0, <1>2, AdvanceMoves
  <1>3. CASE Replace
    BY <1>0, <1>3, ReplaceMoves
  <1>4. CASE Answer
    BY <1>0, <1>4, AnswerMoves
  <1>5. ASSUME NEW r \in DOMAIN doc.runs, StartAttempt(r) PROVE JInv' /\ Follows
    BY <1>5, StartAttemptMoves
  <1>6. ASSUME NEW a \in attempts, AttemptStep(a) PROVE JInv' /\ Follows
    BY <1>6, ArriveMoves, FinishStageMoves, AwaitReactionsMoves, CommitMoves, FailAttemptMoves,
       AbortAttemptMoves DEF AttemptStep
  <1>7. ASSUME NEW request \in Asked, NextStep(request) PROVE JInv' /\ Follows
    BY <1>7, RefuseMoves, ReleaseMoves, RecoverMoves DEF NextStep
  <1>8. ASSUME NEW e \in Executions, Damage(e) PROVE JInv' /\ Follows
    BY <1>8, DamageMoves
  <1>9. CASE Restart
    BY <1>0, <1>9, RestartMoves
  <1>10. CASE UNCHANGED vars
    <2>1. /\ doc'.runs = doc.runs /\ UNCHANGED <<attempts, gates, recoveries, accepted, finished>>
          /\ \A e \in Executions : executions'[e].sealed \in Stages
      BY <1>10 DEF vars, JInv, Bounded
    <2> QED
      BY <1>0, <2>1, NothingMoves DEF Follows
  <1> QED
    BY <1>0, <1>1, <1>2, <1>3, <1>4, <1>5, <1>6, <1>7, <1>8, <1>9, <1>10 DEF Next

LEMMA StaysGood == Spec => [](IInv /\ JInv)
  <1>1. Init => IInv /\ JInv
    BY InitHolds, InitGood
  <1>2. IInv /\ JInv /\ [Next]_vars => (IInv /\ JInv)'
    BY StepMoves
  <1> QED
    BY <1>1, <1>2, PTL DEF Spec

-----------------------------------------------------------------------------
(* The bounds of the model are never exceeded, and every checkpoint,        *)
(* request and snapshot is one a document can hold.                         *)
THEOREM TypeCorrect == Spec => []TypeOK
  <1>1. IInv /\ JInv => TypeOK
    <2> SUFFICES ASSUME IInv, JInv PROVE TypeOK
      OBVIOUS
    <2>1. doc.runs \in Seq(RunRecords)
      <3>1. /\ doc.runs \in Seq(RunType) /\ Len(doc.runs) \in Nat /\ DOMAIN doc.runs = 1 .. Len(doc.runs)
        BY RunsTyped DEF IInv
      <3>2. \A r \in 1 .. Len(doc.runs) : doc.runs[r] \in RunRecords
        BY <3>1, RunIsGood
      <3>3. doc.runs \in [1 .. Len(doc.runs) -> RunRecords]
        BY <3>1, <3>2, SeqDef
      <3> QED
        BY <3>1, <3>3, FunctionIsSeq
    <2>2. doc \in [enabled : BOOLEAN, revision : Nat, runs : Seq(RunRecords)]
      BY <2>1 DEF IInv, DocTyped
    <2>3. \A a \in attempts :
            a \in [run : RunIds, execution : Executions, enabled : BOOLEAN, revision : Nat,
                   snapshot : RunRecords, stage : Stages,
                   point : {"arriving", "working", "parked", "cancelled"}]
      <3>1. \A a \in attempts : a.run \in RunIds /\ a.snapshot \in RunRecords /\ a.stage \in Stages
        BY RunsTyped DEF IInv, WorkersRun, JInv, Bounded
      <3> QED
        BY <3>1 DEF IInv, RestTyped, AttemptType
    <2>4. gates \in [RunIds -> 0 .. MaxExecutions]
      <3>1. \A r \in RunIds : gates[r] \in 0 .. MaxExecutions
        BY StagesAssumption DEF IInv, GatesHold, Executions
      <3> QED
        BY <3>1 DEF IInv, RestTyped
    <2>5. executions \in [Executions -> [status : {"none", "running", "succeeded", "failed", "cancelled"},
                                          sealed : Stages, damaged : BOOLEAN]]
      BY DEF IInv, RestTyped, ExecutionType, JInv, Bounded
    <2> QED
      BY <2>2, <2>3, <2>4, <2>5 DEF TypeOK, JInv, Bounded
  <1> QED
    BY <1>1, StaysGood, PTL

-----------------------------------------------------------------------------
(* The refinement.                                                          *)

(* Stages that were each asked for are no more than the requests.           *)
LEMMA PaidStages ==
  ASSUME NEW F, NEW A, IsFiniteSet(F), IsFiniteSet(A),
         \A f \in F : \E q \in A :
           q.checkpoint.run = f.run /\ q.checkpoint.boundary = f.boundary /\ q.checkpoint.stage = f.stage,
         \A f, g \in F : f.run = g.run /\ f.boundary = g.boundary /\ f.stage = g.stage => f = g
  PROVE  Cardinality(F) <= Cardinality(A)
  <1> DEFINE Pays(q, f) == /\ q.checkpoint.run = f.run /\ q.checkpoint.boundary = f.boundary
                           /\ q.checkpoint.stage = f.stage
             request == [f \in F |-> CHOOSE q \in A : Pays(q, f)]
  <1>1. \A f \in F : request[f] \in A /\ Pays(request[f], f)
    OBVIOUS
  <1>2. request \in [F -> A]
    BY <1>1
  <1>3. \A f, g \in F : request[f] = request[g] => f = g
    <2> SUFFICES ASSUME NEW f \in F, NEW g \in F, request[f] = request[g] PROVE f = g
      OBVIOUS
    <2>1. Pays(request[f], f) /\ Pays(request[f], g)
      BY <1>1
    <2>2. f.run = g.run /\ f.boundary = g.boundary /\ f.stage = g.stage
      BY <2>1
    <2> QED
      BY <2>2
  <1>4. Cardinality(F) \in Nat /\ Cardinality(A) \in Nat
    BY FS_CardinalityType
  <1> HIDE DEF request
  <1>5. ~(Cardinality(A) < Cardinality(F))
    BY <1>2, <1>3, FS_PigeonHole
  <1> QED
    BY <1>4, <1>5

(* How far a run is, by its finished stages.                                *)
Far(done, boundary) == Cardinality(DoneStages(done, boundary))
LEMMA ProgressNow ==
  ASSUME NEW r
  PROVE  Progress(r) = IF r \notin DOMAIN doc.runs THEN 0 ELSE Far(DoneOf(r), doc.runs[r].committed)
  <1>1. {f.stage : f \in {f \in finished : f.run = r /\ f.boundary = doc.runs[r].committed}}
          = DoneStages(DoneOf(r), doc.runs[r].committed)
    BY DEF DoneStages, DoneOf
  <1> QED
    BY <1>1 DEF Progress, Far

LEMMA ProgressThen ==
  ASSUME NEW r
  PROVE  Progress(r)' = IF r \notin DOMAIN doc'.runs THEN 0 ELSE Far(DoneOf(r)', doc'.runs[r].committed)
  <1>1. {f.stage : f \in {f \in finished' : f.run = r /\ f.boundary = doc'.runs[r].committed}}
          = DoneStages(DoneOf(r)', doc'.runs[r].committed)
    BY DEF DoneStages, DoneOf
  <1> QED
    BY <1>1 DEF Progress, Far

LEMMA NothingIsFar ==
  ASSUME NEW boundary
  PROVE  Far({}, boundary) = 0
  <1>1. DoneStages({}, boundary) = {}
    BY DEF DoneStages
  <1> QED
    BY <1>1, FS_EmptySet DEF Far

(* Without a stage more, no run is further or less far.                     *)
LEMMA StandingStill ==
  ASSUME JInv, Standing, finished' = finished
  PROVE  \A r \in RunIds : Progress(r)' = Progress(r)
  <1> SUFFICES ASSUME NEW r \in RunIds PROVE Progress(r)' = Progress(r)
    OBVIOUS
  <1>1. DoneOf(r)' = DoneOf(r)
    BY DEF DoneOf
  <1>2. CASE r \notin DOMAIN doc.runs
    <2>1. DoneOf(r) = {}
      BY <1>2 DEF JInv, NothingAhead, DoneOf
    <2>2. Progress(r)' = 0
      BY <1>1, <2>1, ProgressThen, NothingIsFar
    <2>3. Progress(r) = 0
      BY <1>2, ProgressNow
    <2> QED
      BY <2>2, <2>3
  <1>3. CASE r \in DOMAIN doc.runs
    <2>1. Progress(r) = Far(DoneOf(r), doc.runs[r].committed)
      BY <1>3, ProgressNow
    <2>2. Progress(r)' = Far(DoneOf(r), doc'.runs[r].committed)
      BY <1>1, <1>3, ProgressThen DEF Standing
    <2>3. CASE doc'.runs[r].committed = doc.runs[r].committed
      BY <2>1, <2>2, <2>3
    <2>4. CASE DoneOf(r) = {}
      BY <2>1, <2>2, <2>4, NothingIsFar
    <2> QED
      BY <1>3, <2>3, <2>4 DEF Standing
  <1> QED
    BY <1>2, <1>3

(* A stage more has its request among the others'.                          *)
LEMMA StageIsPaid ==
  ASSUME JInv, JInv', NEW f, Does(f)
  PROVE  /\ f \notin finished
         /\ Cardinality(finished') = Cardinality(finished) + 1
         /\ Cardinality(finished) < Cardinality(accepted)
  <1>1. f \notin finished
    <2> SUFFICES ASSUME f \in finished PROVE FALSE
      OBVIOUS
    <2>1. f \in DoneOf(f.run)
      BY DEF DoneOf
    <2>2. f.stage \in DoneStages(DoneOf(f.run), f.boundary)
      BY <2>1 DEF DoneStages
    <2>3. f.stage \in 0 .. f.stage - 1 /\ f.stage \in Nat
      BY <2>2, Bounds DEF Does
    <2> QED
      BY <2>3
  <1>2. IsFiniteSet(finished) /\ IsFiniteSet(accepted) /\ IsFiniteSet(finished')
    BY DEF JInv, Bounded
  <1>3. Cardinality(finished') = Cardinality(finished) + 1
    BY <1>1, <1>2, FS_AddElement DEF Does
  <1>4. \A g \in finished' :
          /\ g.run \in DOMAIN doc'.runs /\ g \in DoneOf(g.run)'
          /\ StagesPaid(doc'.runs[g.run], AskedOf(g.run)', DoneOf(g.run)')
    BY DEF JInv, NothingAhead, RunsGood, RunGood, DoneOf
  <1>5. \A g \in finished' : \E q \in accepted :
          q.checkpoint.run = g.run /\ q.checkpoint.boundary = g.boundary /\ q.checkpoint.stage = g.stage
    <2> SUFFICES ASSUME NEW g \in finished'
                 PROVE  \E q \in accepted : /\ q.checkpoint.run = g.run /\ q.checkpoint.boundary = g.boundary
                                            /\ q.checkpoint.stage = g.stage
      OBVIOUS
    <2>1. PICK c \in AskedOf(g.run)' : c.boundary = g.boundary /\ c.stage = g.stage
      BY <1>4 DEF StagesPaid
    <2>2. \E q \in accepted' : q.checkpoint = c /\ c.run = g.run
      BY DEF AskedOf
    <2> QED
      BY <2>1, <2>2 DEF Does
  <1>6. \A g, h \in finished' : g.run = h.run /\ g.boundary = h.boundary /\ g.stage = h.stage => g = h
    <2> SUFFICES ASSUME NEW g \in finished', NEW h \in finished',
                        g.run = h.run, g.boundary = h.boundary, g.stage = h.stage
                 PROVE  g = h
      OBVIOUS
    <2>1. g \in DoneOf(g.run)' /\ h \in DoneOf(g.run)'
      BY DEF DoneOf
    <2> QED
      BY <1>4, <2>1 DEF StagesPaid
  <1>7. Cardinality(finished') <= Cardinality(accepted)
    BY <1>2, <1>5, <1>6, PaidStages
  <1>8. Cardinality(finished) \in Nat /\ Cardinality(accepted) \in Nat
    BY <1>2, FS_CardinalityType
  <1> QED
    BY <1>1, <1>3, <1>7, <1>8

(* The run of the stage is one further, or at its next boundary; the other  *)
(* runs are where they were.                                                *)
LEMMA StageIsNext ==
  ASSUME IInv, JInv, IInv', JInv', NEW f, Does(f)
  PROVE  /\ f.run \in RunIds
         /\ Progress(f.run)' = IF Progress(f.run) = LastStage THEN 0 ELSE Progress(f.run) + 1
         /\ \A q \in RunIds : q # f.run => Progress(q)' = Progress(q)
  <1>1. f.run \in DOMAIN doc.runs /\ f.run \in RunIds /\ f.run \in DOMAIN doc'.runs
    BY RunIsGood DEF Does
  <1>2. /\ f.boundary = doc.runs[f.run].committed /\ f.boundary \in Nat
        /\ f.stage \in Nat /\ f.stage <= LastStage /\ LastStage \in Nat
    BY <1>1, RunIsGood, RecordTyped, Bounds DEF Does, Stages
  <1>3. DoneOf(f.run)' = DoneOf(f.run) \cup {f}
    BY DEF Does, DoneOf
  <1>4. DoneStages(DoneOf(f.run), f.boundary) = 0 .. f.stage - 1
    BY DEF Does
  <1>5. Progress(f.run) = f.stage
    <2>1. Progress(f.run) = Cardinality(0 .. f.stage - 1)
      BY <1>1, <1>2, <1>4, ProgressNow DEF Far
    <2>2. Cardinality(0 .. f.stage - 1) = f.stage
      <3>1. f.stage - 1 \in Int /\ 0 \in Int
        BY <1>2
      <3>2. Cardinality(0 .. f.stage - 1) = IF 0 > f.stage - 1 THEN 0 ELSE f.stage - 1 - 0 + 1
        BY <3>1, FS_Interval
      <3> QED
        BY <1>2, <3>2
    <2> QED
      BY <2>1, <2>2
  <1>6. ASSUME f.stage # LastStage PROVE Progress(f.run)' = Progress(f.run) + 1
    <2>1. doc'.runs[f.run].committed = f.boundary
      BY <1>6 DEF Does
    <2>2. DoneStages(DoneOf(f.run)', f.boundary) = DoneStages(DoneOf(f.run), f.boundary) \cup {f.stage}
      BY <1>3 DEF DoneStages
    <2>3. (0 .. f.stage - 1) \cup {f.stage} = 0 .. f.stage
      BY <1>2
    <2>4. Progress(f.run)' = Cardinality(0 .. f.stage)
      BY <1>1, <1>4, <2>1, <2>2, <2>3, ProgressThen DEF Far
    <2>5. Cardinality(0 .. f.stage) = f.stage + 1
      BY <1>2, FS_Interval
    <2> QED
      BY <1>5, <2>4, <2>5
  <1>7. ASSUME f.stage = LastStage PROVE Progress(f.run)' = 0
    <2>1. doc'.runs[f.run].committed = f.boundary + 1
      BY <1>7 DEF Does
    <2>2. \A g \in DoneOf(f.run) : g.boundary <= f.boundary
      BY <1>1, <1>2, RunIsGood DEF StagesPaid
    <2>3. DoneStages(DoneOf(f.run)', f.boundary + 1) = {}
      <3>1. \A g \in DoneOf(f.run)' : g.boundary # f.boundary + 1
        BY <1>2, <1>3, <2>2
      <3> QED
        BY <3>1 DEF DoneStages
    <2> QED
      BY <1>1, <2>1, <2>3, ProgressThen, FS_EmptySet DEF Far
  <1>8. \A q \in RunIds : q # f.run => Progress(q)' = Progress(q)
    <2> SUFFICES ASSUME NEW q \in RunIds, q # f.run PROVE Progress(q)' = Progress(q)
      OBVIOUS
    <2>1. DoneOf(q)' = DoneOf(q)
      BY DEF Does, DoneOf
    <2>2. CASE q \in DOMAIN doc.runs
      <3>1. q \in DOMAIN doc'.runs /\ doc'.runs[q].committed = doc.runs[q].committed
        BY <2>2 DEF Does
      <3> QED
        BY <2>1, <2>2, <3>1, ProgressNow, ProgressThen
    <2>3. CASE q \notin DOMAIN doc.runs
      <3>1. q \notin DOMAIN doc'.runs
        BY <2>3 DEF Does
      <3> QED
        BY <2>3, <3>1, ProgressNow, ProgressThen
    <2> QED
      BY <2>2, <2>3
  <1> QED
    BY <1>1, <1>5, <1>6, <1>7, <1>8

LEMMA StepImplements ==
  ASSUME IInv, JInv, IInv', JInv', Follows
  PROVE  [Line!LineNext]_(Line!lineVars)
  <1>1. CASE Quiet
    <2>1. \A r \in RunIds : Progress(r)' = Progress(r)
      BY <1>1, StandingStill DEF Quiet
    <2>2. [r \in RunIds |-> Progress(r)]' = [r \in RunIds |-> Progress(r)]
      BY <2>1
    <2>3. Cardinality(accepted)' = Cardinality(accepted) /\ Cardinality(finished)' = Cardinality(finished)
      BY <1>1 DEF Quiet
    <2> QED
      BY <2>2, <2>3 DEF Line!lineVars
  <1>2. ASSUME NEW request, Grants(request) PROVE Line!Grant
    <2>1. \A r \in RunIds : Progress(r)' = Progress(r)
      BY <1>2, StandingStill DEF Grants
    <2>2. [r \in RunIds |-> Progress(r)]' = [r \in RunIds |-> Progress(r)]
      BY <2>1
    <2>3. Cardinality(accepted') = Cardinality(accepted) + 1
      BY <1>2, FS_AddElement DEF Grants, JInv, Bounded
    <2>4. Cardinality(finished') = Cardinality(finished)
      BY <1>2 DEF Grants
    <2> QED
      BY <2>2, <2>3, <2>4 DEF Line!Grant
  <1>3. ASSUME NEW f, Does(f) PROVE f.run \in RunIds /\ Line!DoStage(f.run)
    <2>1. /\ Cardinality(finished') = Cardinality(finished) + 1
          /\ Cardinality(finished) < Cardinality(accepted)
      BY <1>3, StageIsPaid
    <2>2. Cardinality(accepted') = Cardinality(accepted)
      BY <1>3 DEF Does
    <2>3. /\ f.run \in RunIds
          /\ Progress(f.run)' = IF Progress(f.run) = LastStage THEN 0 ELSE Progress(f.run) + 1
          /\ \A q \in RunIds : q # f.run => Progress(q)' = Progress(q)
      BY <1>3, StageIsNext
    <2>4. [r \in RunIds |-> Progress(r)]'
            = [[r \in RunIds |-> Progress(r)] EXCEPT ![f.run] = IF @ = LastStage THEN 0 ELSE @ + 1]
      BY <2>3
    <2> QED
      BY <2>1, <2>2, <2>3, <2>4 DEF Line!DoStage
  <1> QED
    BY <1>1, <1>2, <1>3 DEF Follows, Line!LineNext

(* The program, with its replacements, retries and restarts, implements     *)
(* single-step debugging as StepLine promises it: every stage costs an      *)
(* accepted request of its own, and the stages of a boundary are done in    *)
(* order, each once.                                                        *)
THEOREM DebuggingImplementsLine == Spec => ImplementsStepLine
  <1>1. Init => Line!LineInit
    <2> SUFFICES ASSUME Init PROVE Line!LineInit
      OBVIOUS
    <2>1. DOMAIN doc.runs = {} /\ accepted = {} /\ finished = {}
      BY DEF Init
    <2>2. \A r \in RunIds : Progress(r) = 0
      BY <2>1, ProgressNow
    <2>3. [r \in RunIds |-> Progress(r)] = [r \in RunIds |-> 0]
      BY <2>2
    <2> QED
      BY <2>1, <2>3, FS_EmptySet DEF Line!LineInit
  <1>2. (IInv /\ JInv) /\ [Next]_vars /\ (IInv /\ JInv)' => [Line!LineNext]_(Line!lineVars)
    BY StepMoves, StepImplements
  <1> QED
    BY <1>1, <1>2, StaysGood, PTL DEF Spec, ImplementsStepLine, Line!LineSpec
=============================================================================
