# Verification of the Living World Engine

TLA+ models of the parts of this repository that hold state across
asynchronous steps, TLC runs that check them on small instances, and TLAPS
proofs of the results that matter most. Paths are relative to the root of the
repository; line numbers refer to it.

## 1. The system

A browser talks to the API routes (`src/app/api`), which call the **world
host** (`src/server/world-host.ts`). A world instance is one JSON document; the
host changes it under a per-instance lock and drives runs of the **simulation
runtime** (`src/engine/runtime`), whose steps are computed by an **execution
algorithm** (`src/engine/algorithms/eager-reference`) with many model calls.
Model calls of all instances pass one **model scheduler**
(`src/engine/models/model-scheduler.ts`). Documents and execution traces live in
one SQLite file, the **local database** (`src/server/local-database.ts`).

| Component | State | Operations | Interacts through | Hard because | Correct when |
|---|---|---|---|---|---|
| Model scheduler | lanes, rotation and its index, four counters | schedule, remove (timeout, abort), drain, finally | promises and timers of callers | every path must drain, count and keep the rotation index | limits hold, counters and lanes exact, no lost wake-up, fair lanes |
| World host | instance document, per-run and per-instance timers, attempts in progress, the lock | advance, submitAction, submitReaction, pauseRun, resumeRun, transferControl, setRealtime, renameInstance, driveRun, executeRunBoundary, restoreSchedule, single-step debugging | the store's compare-and-swap, timers, awaits on the engine | a boundary is computed outside the lock from a clone of the document; handlers, deadlines, ticks and restarts interleave with it | one live run, no step lost or doubled, no orphaned run or window, valid documents |
| World instance document | the document | validation, serialisation | called by every write | a handler throws if it builds an invalid document | every reachable document is valid |
| Local database | writer lease, instances with generations, executions with status, traces with buffered writers, artifacts, cache | acquire/renew/assert lease, compareAndSwapInstance, begin/finishExecution, emit/flush, atomic commit, recovery, close | SQLite transactions, heartbeat | two processes, a crash between writes, nested transactions, a cache and buffers that a rollback does not undo | writes are fenced, a commit and its execution end together, executions end once, no update or event lost |
| Shared resources | claims of activities on pools, queues | planSharedResourceAdmissions, applySharedResourceAdmissions, promotion | called by a step | connected queues across pools | all or nothing, no overtaking, never over capacity |
| Temporal mechanics | clock, activities | choice of the next boundary, settlement | called by a step | integer rounding, ties | time advances, no boundary is skipped |
| Simulation runtime, committer | simulation state | prepareStep, completePreparedStep, canonical commit, stage hooks | world host, algorithm | preparation may be stale when completed; the committer recomputes what the algorithm did | one revision per step, no partial commit |
| Execution algorithm | slots of a step | action compilation, agent minds, batching, retries | model gateway | partial failure of one slot | every slot answered once, in order |
| Truth engine and action resolution | none of its own | resolution of actions, dependency groups, random draws | algorithm | data | deterministic for equal inputs |
| Model gateway and repair | attempts of a call | transport retries, repairs | scheduler, HTTP | retry of what may have succeeded | bounded attempts |
| Debug checkpoints | gate, checkpoint, recovery | setDebugMode, advanceDebugStep, stage hooks | world host, ledger | a gate of a running attempt against a persisted checkpoint; requests late, twice, after a restart | each request does one stage, each stage is done once, a shown checkpoint leads on |
| Experiments, inspector, import, web application | catalogues, projections | offline or read-only | | | |

Properties, by component, that the project states or plans are listed with
their hazards in `PROJECT.json`.

## 2. Modules

| Module | What it is |
|---|---|
| `ModelScheduler` | the model scheduler, complete |
| `MCModelScheduler` | an instance with two providers and three workloads |
| `MCModelSchedulerFair` | the same with a history variable: who was started while whom waited |
| `ModelSchedulerProofs` | theorems about `ModelScheduler`, for every instance |
| `WorldLine` | abstract: a line of committed steps that only grows, accepted intents that enter it at most once |
| `WorldHost` | the world host for one instance |
| `MCWorldHost` | instances of it with one or two players and agents |
| `WorldHostProofs` | theorems about `WorldHost`, for every instance without `overlap` and `staleResume` |
| `StepLine` | abstract: stages done once each and in order, one request for each |
| `DebugStepping` | single-step debugging in the world host: gate, checkpoint, requests, recovery |
| `MCDebugStepping` | an instance with four stages and two runs |
| `DebugSteppingProofs` | theorems about `DebugStepping`, for every instance |
| `StepLineProofs` | its type correctness and its refinement of `StepLine`, for every instance |
| `CommitLedger` | abstract: executions that begin and end once and succeed in the step that makes their version durable |
| `InstanceStore` | the local database as several processes use it |
| `MCInstanceStore` | an instance with two processes and two executions |
| `InstanceStoreProofs` | theorems about `InstanceStore`, for every instance |
| `Activities` | one world step as far as activities, shared resources and decision points go |
| `MCActivities` | an instance with three agents, a queued and an adjudicated pool |
| `ActivitiesProofs` | theorems about the decision points of `Activities`, for every instance |
| `ScheduleProofs` | about its times: types, and what no step passes, for every instance |
| `AllocationProofs` | about its pools and queues, for every instance |

### ModelScheduler

`lanes`, `rotation`, `nextRotationIndex`, `active`, `queued`,
`activeByProvider` and `activeByWorkload` are the fields of
`FairModelScheduler`; `laneKeys` is the key set of the lanes map, and a counter
that the code deletes at zero is zero. `status` says where the promise of each
request is. The code runs in JavaScript turns: `Schedule` (schedule), `Discard`
(remove, by timeout or abort) and `Release` (the finally callback) end in a call
of `drain()`. While `draining` holds, the turn is inside the loop of `drain`;
`StartNext` is one iteration (takeNext, with the skipped lanes as `offset`) and
`DrainReturns` leaves it. No other action interleaves, as in the code. `Settle`
is the settlement of `execute()` before `finally` runs. Providers unknown to the
options and blank workload ids are refused before any state changes and are left
out.

### WorldHost

`doc` is the persisted document, reduced to what the control flow reads:
title (a counter of renames), scheduler mode and generation, who controls which
agent, the agents engaged in an activity without a decision point, the committed
steps (each the set of intents it executed), the runs in order of creation, the
action window, and the accepted intents. `attempts` are calls of
`executeRunBoundary` in progress with the clone of the document each works on;
`drives` are the due calls of `driveRun`; `timer` is the one timer of the
instance; `arrival` is the `transferControl` that holds the lock over its model
call; `ticks` are realtime ticks that wait for the lock.

Every handler under the instance lock is one action (`LockFree` is its guard);
the lock is held across actions only by `transferControl` (`TakeControl`, then
`Arrive`). A boundary is `StartAttempt`, then one of `AwaitReactions`,
`CommitAttempt`, `FailAttempt` or `AttemptFenced`; `Current` is the comparison
the code makes before it writes, and the write replaces the whole document, as
in the code. `AttemptEnds` is the loop of `driveRun`. `Restart` kills the process
and runs `restoreSchedule`.

The step engine is external: a commit chooses the agents that stay engaged,
whether the root activity ended and whether the wall-time budget is used up.
`Supplied` is the check by which the engine refuses a boundary. An intent is the
index of its record, and `deadlineAt` is never null (the runtime configuration
has a positive window time). The agents of the world are fixed: that a commit
gives policy bindings to agents the step created and takes them from agents it
removed (2039 to 2050) is left out.

`Environment` names the optional events of an instance, so that each run asks
one question: `batch`, `realtime`, `rename`, `pause`, `transfer`, `handover`
(transfer while a window exists), `reaction`, `crash`, `overlap` (a submission
while a run is queued or running) and `staleResume` (resume of a run that is not
the newest). `overlap` and `staleResume` are the two events after which the code
does not keep runs serial; they occur only in the runs that show this.

### DebugStepping

`doc` is the document reduced to the debugging setting, the revision and the
runs. A run that was created while single-stepping is on (`step`) stops before
every stage: its attempt writes a checkpoint (`persistDebugCheckpoint`) and
waits at its gate. The points of an attempt are `arriving` (on the way to the
first stop), `parked`, `working` (the stage it was let through to) and
`cancelled`. `Applies` is the check of generation, request id, status and
checkpoint in `advanceDebugStep`; behind it lie three outcomes: `Refuse` (the
checkpoint is found invalid: the run is invalidated and the gate cancelled),
`Release` (the gate of a living attempt opens) and `Recover` (there is no gate:
a new execution replays the recorded stages and goes on). `sealed` counts the
stages whose end the trace of an execution holds, which is what
`debugCheckpointReplayValidationError` looks for. A replay is one jump, because a
replayed stage answers its model calls from the trace. The code has ten stages;
the model has a first one, one before the reactions, the one with the reactions
(`ReactionStage`) and the commit (`LastStage`), which are the ones it treats
differently. Windows for decisions, leases and the timers are `WorldHost`'s
business and appear here as `Answer` and the choice of `Outcomes`. The fence of
`WorldHost` (`AttemptFenced`) is no action here: nothing in this module changes
the generation of a run while its attempt works.

A request names the checkpoint it was made for; request ids are numbered in the
order in which they are accepted there. A client may send any request for any
checkpoint that was ever shown, at any time and any number of times.

### InstanceStore

The variables `lock`, `instance`, `status` and `trace` are tables; the others are
the memory of processes, lost in `Crash` and `Close`. A version of the instance
stands for the writes that led to it. Each SQLite transaction is one action, so
the two transactions in which `recoverInterruptedExecutions` closes one
execution are two (`MarkInterrupted`, `CloseInterrupted`), and the check and the
INSERT of `beginExecution` are two (`CheckBegin`, `InsertExecution`). What the code
changes in memory before a transaction fails is changed in the model also:
`CommitFails` leaves the version in the cache and the writer unregistered.
`Expire` is the passing of `expires_at`; the lease is not given up by that, only
open to be taken, as in the code. `faults` counts failures of a write or of a
COMMIT.

`SuspendInBegin` says whether a takeover may fall between the two statements of
`beginExecution`. Both are synchronous, and a takeover needs the process to be
held up for longer than the lease lasts; the runs and one theorem assume that
this does not happen there. Everything else holds either way.

### Activities

One step is `Prepare` (prepareStep), `Complete` (the onset reaction, the second
admission, the choice of the boundary, the advance), `Resolve` (what truth
decides about the actions that meet, reconcileTemporalOutcomes) and `Finish`
(settlement, decision points, promotion of the queues, and the committer's
verdict, after which the candidate becomes the state or is dropped as a whole).
An activity is named by its actor, since a new action replaces what its actor
did. `Works` says what an action of an agent may plan: claims on pools,
duration, checkpoint interval, stages, whether it can be interrupted, and after
how many seconds an assertion it depends on fails. Truth is external: it chooses
the outcome of each resolved activity and who notices what. The onset reactions
are one round: each agent of `Asked` may get a request, and whoever does decides
for itself (`Decisions`), so a step may have several pauses, cancellations and
replacements at once.

`Admissions` decides the proposals in the order of their ids, as
`planSharedResourceAdmissions` does: `decided` is a recursive function of the
proposal, and what it says of the lower ids is what the code's working copy of
the usage holds. `Component` is the least set that contains an activity and is
closed under sharing a pool, which the loop of `queuedComponents` computes.
`Reservable` is stated without the loop of
`promoteSharedResourceQueues`: an activity is reserved exactly if it and all
before it in its connected queue fit together. The committer checks the
candidate by recomputing it with the same functions; where both sides call the
same function on the same data they agree, and `Verdict` has the comparisons
that can differ, in the order of the code.

`NoIdleCapacity` speaks of the queue as it was before the last promotions
(`Waited`), because a promotion may take out the activity that connected two
others: who is left waiting is short of something, or waits behind an older
member of that queue who is. It does not say that the oldest of those who want a
pool is short of one, which the code does not give: an activity waits behind
every older one it is connected with, also through pools it does not want
itself.

## 3. Runs

| Run | Asks | Result |
|---|---|---|
| `scheduler` | limits, exact counters, exact lanes, no idle capacity, every queued request leaves the queue | holds |
| `scheduler_fair` | is a waiting lane overtaken twice | violated: see findings |
| `host` | validity, serial runs, no orphans, window matches run, revisions partitioned, runs move forward, refinement of `WorldLine`; with realtime, transfers, pauses, reactions and restarts | holds |
| `host_live` | runs settle and windows resolve, with batches, reactions and restarts, realtime off and no transfer during a window; transfers undo no rename | holds |
| `host_settings` | does the scheduler generation ever go back | violated |
| `host_late` | is an intent executed twice | violated |
| `host_realtime` | does a window always resolve when realtime is on | violated |
| `host_serial` | are two boundaries of one instance computed at once | violated |
| `store` | fencing, executions end once and with their version, generations name contents, no lost update, traces in order, recovery complete, refinement of `CommitLedger` | holds |
| `activities` | capacity, no idle capacity, no overtaking, stable admissions, no boundary skipped, decision points of free agents, no paused agent without one | holds |
| `activities_paused` | can an agent with a decision point replace its paused activity | violated |
| `debug` | a shown checkpoint leads on, one attempt at work, accepted steps settle, refinement of `StepLine` | holds |

**Bounds.** The scheduler runs with five requests: two for each of two
workloads, so lanes have order, a third workload, so the rotation has a middle,
two providers with limit 1 or 2 under a global limit of 2, so a lane may be held
back by its provider alone, and a queue of three, so it fills up. Each request
is submitted once, which makes the run finite. The host runs with two agents and
two players (one agent and one player in `host_live`, which leaves out
`realtime` and `handover` because `WindowsResolve` fails with either, as section
4 shows), two runs, three generations of each run (first execution, a pause or
deadline, and one more), two revisions, two intents, and one rename in
`host_live`. A lease is two commits, so `driveRun` loops and the lease is
exhausted at the last revision; a run is resumed and commits again after its
wall-time budget was used up. Window ids are reused when nothing refers to them.
In the `host` run agents and players are symmetric; no temporal property with
fairness is checked with symmetry. Bounds are guards on the actions that would
exceed them (`MaxRevision`, `MaxRuns`, `MaxGeneration`,
`MaxSchedulerGeneration`, `MaxIntents`, `MaxTitle`); instances may stop there,
so deadlock is not checked, and `Collecting` restricts `WindowsResolve` to
windows whose run may still enter another generation.

The database runs with two processes that open the file three times between
them (so one comes back after it lost the lease), two executions (one may be
interrupted while the other commits), three generations, two events for each
execution with a buffer of two (so a batch is written when the buffer is full,
and by a flush before), and one failing write or commit. The activities run with
three agents: one may take a place in a forge of two, one needs both places,
the third, a participant's, takes a place or rides the one horse; a staged, a
bounded and an open-ended schedule, a limited assertion, a timer, and four
seconds of world time with a span of three, so several steps follow each other.
The debug run has two runs of two boundaries, four executions, three generations,
one restart and one damaged execution: enough for a parked run to be recovered,
parked again, replaced and refused.

**Fairness.** Scheduler: a turn ends, a model call ends (each transport attempt
has a timeout and there are at most three), a due callback runs. Queue timers
and callers are not fair: the queue must drain without them. Host: an armed
timer fires, be it a deadline or a realtime tick, a tick that waits gets the
lock, due driveRun calls run, an attempt ends, an arrival ends; these are timers
and awaits of a single-threaded process, and lock waiters are served in order.
Debugging: a timer of 0 ms starts the attempt of a queued run, and an attempt
that is not parked goes on. No request of a client and no restart is fair.
`StepsSettle` speaks of runs for whose execution the bounded ledger has room
(`OnItsWay`). The database and the activities have safety properties only: what
they promise eventually depends on callers.

## 4. Findings

Each is a run that TLC ends with a counterexample.

1. **Rotation** (`scheduler_fair`). A lane is dropped when its workload has
   nothing queued or running, and created again at the end of the rotation. The
   search index stands behind the lane served last, so when that was the last
   one the new lane is the next to be served. Two workloads that alternate keep a
   third waiting. `docs/game-design/model-gateway.md:76` promises fair rotation.
2. **Lost realtime switch** (`host_settings`). A boundary commits its clone,
   scheduler included. `docs/game-design/engine-runtime.md:117`.
3. **Late submission** (`host_late`). Between a deadline and the start of its
   run the window is open and the run queued; a submission then creates a second
   run for the same window. `docs/game-design/engine-runtime.md:121`.
4. **Deadline lost** (`host_realtime`). An instance has one timer. `advance`
   (1608), `driveRun` (1802) and `setRealtime` (2712) arm the realtime tick over
   the deadline of the open window, because `scheduleAt` (2725) cancels whatever
   timer there is. The tick is refused, the refusal swallowed, and no timer is
   left: a window opened in realtime mode does not time out, so an absent player
   stops the world until another one submits or the process restarts.
   `docs/decisions/0062-world-instance-participation-and-action-window.md:31`,
   `docs/game-design/engine-runtime.md:115`. Taking control of an agent while a
   window is open cancels the timer as well (2601);
   `tlc -config MCWorldHostHandover.cfg MCWorldHost.tla` ends with that
   counterexample to the same property.
5. **Stale resume** (`host_serial`). `resumeRun` does not look for another run
   in progress. `docs/decisions/0062-world-instance-participation-and-action-window.md:29`.
6. **Paused activity** (`activities_paused`). An activity that is paused for a
   reaction keeps the time at which the step began; the step commits at a later
   one. Its agent gets a decision point, and whatever it decides,
   `cancelActivity` throws (`temporal.ts:1468`) and the step is not prepared.
   `docs/architecture.md:64` says an action may replace a paused activity. The
   test of that path (`world-instance-host.test.ts:806`) stops before the next
   action.

Behaviours met while modelling that no document contradicts, or that a model
without more of the engine cannot show, are listed as hazards with a note in
`PROJECT.json`: a blocked reservation that the committer never accepts, plans of
queued replacements missing from the candidate, single-step runs that end
paused, and the time at a gate that counts against the budget.

## 5. Proofs

`ModelSchedulerProofs` proves, for every finite set of requests and any
workloads, providers and limits that satisfy `JobsAssumption` and
`OptionsAssumption` (the constructor's checks):

- `TypeCorrect`: `Spec => []TypeOK`, in particular no counter goes below zero
  and `nextRotationIndex` stays in the rotation;
- `CountersAreExact`: `Spec => []CountersExact`;
- `CapsRespected`: `Spec => []ConcurrencyCaps`;
- `LanesAreExact`: `Spec => []LanesExact`;
- `NoCapacityIdles`: `Spec => []WorkConserving`.

None is inductive alone. `CountersExact` needs that drain starts a queued request
and only once, which is `LanesHold`: a lane holds exactly the queued requests
of its workload, each at one position. That `nextRotationIndex` stays in range
when a lane is dropped needs that the lane is in the rotation, which is
`KeysHold`; its second part, that a workload with a request queued or in flight
has a lane, in turn needs exact counters, because `Release` decides by them. The
caps follow from `CapsHold`, about counters, and `CountersExact`. The inductive
invariant `IInv` is the conjunction. One lemma per action shows that it is
preserved; `LeaveLane` serves the two actions that take a request out of a lane,
`FlightGrows` and `FlightShrinks` the counting, `CleanupHolds` the two actions
that may drop a lane, and `RemoveAtProperties` says what removal from a sequence
does.

The last two theorems rest on a second invariant on top of the first, `KInv`:
`RotationHolds`, the rotation lists lanes only and each once; `LanesNeeded`, a
lane has a request waiting or in flight; and `WorkConserving` itself. The last
is where every path must drain: between turns it holds because the loop of
`drain` ends only when no lane has a startable head (`DrainLeavesNothing`).
`takeNext` looks at the lanes in rotation from `nextRotationIndex` on, so the
loop goes on as long as some lane can be started because the rotation reaches
every lane (`EveryLaneIsSeen`) and there is a first startable one from the index
on (`LeastElement`: a nonempty set of natural numbers has a least element, from
the well-foundedness of the naturals).

`WorldHostProofs` proves, for any agents, principals, limits and bounds that
satisfy the assumptions of `WorldHost`, and for every `Environment` without
`overlap` and `staleResume` (`SerialEnvironment`):

- of every state, `TypeCorrect` (`TypeOK`), `DocumentsValid` (`DocumentValid`),
  `OneLiveRun` (`SingleLiveRun`), `NoRunOrphaned` (`NoOrphanRun`),
  `WindowsMatchRuns` (`WindowMatchesRun`), `RevisionsArePartitioned`
  (`RevisionsPartitioned`) and `BoundariesAreSerial` (`StrictlySerial`);
- of every step, `RunsOnlyMoveForward` (`RunsMoveForward`) and
  `ArrivalsKeepWrites` (`ArrivalKeepsWrites`);
- `HostImplementsLine`: `Spec => ImplementsWorldLine`, step by step.

`SerialEnvironment` is not a convenience: the runs `host_late` and `host_serial`
show that the code breaks these properties after the two events (section 4). All ten theorems need one inductive invariant, `IInv`,
because everything depends on who may write the document next:

- `DocHolds` says it of a document alone, so that it can be said of the
  document a transfer holds back as well: only the newest run is live, a run
  that executes has a lease of its own generation with room for its commit, the
  window fits the newest run and the revision, no two players have one agent,
  each revision has one owner; and what will be executed, the answers in the
  window and the roots of a run before its first commit, was accepted and not
  yet executed (`IntentsHold`), without which a commit could execute an intent
  twice.
- `AttemptsHold`: an attempt whose generation is still that of its run is the
  only such attempt, its run is the newest and is running, and the clone it
  works on agrees with the document in everything but title, realtime and
  scheduler generation. That is why writing the whole clone back loses nothing
  else. `StrictlySerial` alone is not inductive: it says nothing of the clone.
- `DrivesHold` is `NoOrphanRun` said of generations, `WorkTyped` the types.
- `ArrivalHolds`: the document a transfer of control holds back over its model
  call is what it would compute now, unless the document was written
  meanwhile (`raced`), and then it is refused.

Each action has a lemma (`PauseHolds`, `CommitAttemptHolds`, ...). The long ones
first name what the action does to the document with an operator of its own
(`Committed`, `Submitting`, `Transferred`), so that the invariant is argued about
a few records and not about the code's nested updates. `Follows` collects what every step owes to the action property
and to the refinement.

`InstanceStoreProofs` proves, for any processes, executions and bounds that
satisfy `StoreAssumption`:

- `TypeCorrect`, `ExecutionsEndOnce` (`EndsOnce`), `OwnersWrite`
  (`WritesFenced`), `NoUpdateIsLost` (`NoLostUpdate`), `GenerationsNameContents`
  (`GenerationNamesContent`), `CommitsEndExecutions` (`CommitEndsExecution`),
  `EventsAreInOrder` (`TraceInOrder`);
- `StoreImplementsLedger`: `Spec => ImplementsLedger`, step by step under the
  refinement mapping;
- `OpenedMeansRecovered` (`NothingInterrupted`), under `~SuspendInBegin`.

Five strengthenings carry them. `BeginsHold`: an execution that a process is
about to insert has no row yet and is nobody else's, so an execution begins
once; `ExecutionsEndOnce` and the refinement need it. `VersionsHold`: nobody holds
a generation above the stored one, and who holds the stored generation holds the
stored version; the first half is what makes the second inductive, because a
write then gives a generation that no other process can be holding. Neither
mentions the cache: `ReadInstance` trusts it only for the very text of the row,
so what a failed commit left there is harmless. `RecoveryHolds`: an execution
that runs was begun by the owner, or the owner has still to close it, and a
process in the middle of `beginExecution` owns the lease; the last part is what
`~SuspendInBegin` gives. `BuffersHold`: buffered events were emitted by the
process that runs the execution, so a flush adds events of its caller only,
which `OwnersWrite` needs. `OrderHolds` tells `TraceInOrder` where the trace ends
and the buffer begins: the trace has the first events, the buffer the next ones
up to the last one emitted if a process still runs the execution, and an
execution not begun has emitted nothing, which is why its runner starts with all
its events accounted for. `CommitEndsExecution` is inductive together with
`TypeOK`, `BeginsHold` and `VersionsHold`. The refinement needs the latter three: a
commit maps to `CommitOf` because its execution runs, and because the version it
writes extends the stored one, so that no other execution leaves the ledger.

`ActivitiesProofs` proves, for any agents, works, pools, timers and bounds that
satisfy `ActivitiesAssumption`, `DecisionPointsAreFree` (`DecisionsFree`) and
`PausedAgentsDecide` (`PausedMayDecide`). Both speak of committed steps, so the
inductive invariant follows a step through its phases. `PreparedHolds`: what is
prepared for an agent outside `External` is not paused, because a paused
activity means a decision point (that is `PausedMayDecide` itself), an agent
with a decision point must act, and an action is active, queued or blocked.
`AdvancedHolds`: from then on a pause comes with a decision point of the
candidate; a reaction is the only new pause before `Finish`. Of the admission
the proof uses only that it leaves a proposal as it is, queues it or blocks it.

`ScheduleProofs` adds what concerns time, under the same assumptions:

- `TypeCorrect`: `Spec => []TypeOK`;
- `AppointmentsAreMet`: a committed step passes no completion and no failing
  assertion of an activity that runs throughout it, and no end of a stage of a
  profile whose first checkpoint is not later than the end of its first stage;
- `NothingIsSkipped`: `Spec => NothingSkipped`, if all profiles are of that kind
  (`StagesMet`).

The assumption `StagesMet` is no convenience either. `createActivity`
(`temporal.ts:607`) sets the first boundary of a staged activity to its first
checkpoint or its completion, whichever is earlier; only later boundaries look
at the ends of stages (`nextActivityBoundary`). The validation of profiles
(`temporal.ts:325`) does not relate a stage's checkpoint to its duration, so a
first stage that is shorter than its checkpoint can be passed. No document says
that it may not be, so this is a hazard in `PROJECT.json` and no finding.

The inductive invariant is `SchedInv`: every activity, in the world and in each
phase of a step, is `Sound`. It is one of a planned work, was updated no later
than now, and if it runs, its next boundary lies ahead and nothing it is
scheduled for lies between now and that boundary (`Clear`). `TypeOK` alone says
nothing of the schedule. A step ends at the minimum of all boundaries
(`SelectedBoundary`), so whoever is not due stays sound, and whoever is due gets
a next boundary with nothing before it (`NextBoundary`). After the advance
`Crossed` says the same looking back, which survives the pauses of the rest of
the step, because they change neither the work nor the start. That
the admission is a function at all, defined for every proposal, is
`RankedRecursion`: a value that depends only on lower ranks exists for all,
by the well-foundedness of the naturals.

`AllocationProofs` proves, again for every instance:

- `CapacityIsRespected` (`CapacityRespected`) and `NobodyWaitsForFree`
  (`NoIdleCapacity`);
- `AdmissionsAreStable` (`AdmissionsStable`);
- `QueuesAreInOrder`: `Spec => NoOvertaking`.

Its inductive invariant `AllocInv` adds to `SchedInv` where the activities of a
candidate come from. `PreparedOrder`: those of the agents who act begin now, the
others are what they were with the reservations started, and the admission was
planned from just that, so that planning it again decides the same.
`AdvancedOrder` (`History`): from then on whoever waits either was proposed now
or waits as before, and what starts with the claims of a queue passes nobody who
waits for one of its pools, since an admission is not granted with a queue
ahead (`AdmissionKinds`). `WorldOrder`: whoever waits in a world has waited
since an earlier second, so that a proposal is never before it in a queue. A
promotion takes a prefix of each queue (`ReservablePrefix`, `PromotedInOrder`);
together these are `NobodyOvertakes`.

Capacity is a matter of sums over sets of agents. That a sum does not depend on
the order in which the elements are taken (`SumRemove`), that it grows with its
function (`SumPlus`) and that zeros add nothing (`SumSame`) is proved by minimal
counterexamples: of the sets for which such a statement fails one has least
cardinality. With these, `CommitmentFits` shows that the committer's check
covers exactly what the invariant counts, and `CommitmentShort` that the first
member of a queue that did not fit behind the reserved ones is short in the
committed world, where these hold their claims.

`DebugSteppingProofs` proves, for any stages and bounds that satisfy
`StagesAssumption`, `OneAttemptAtWork` (`OneAtWork`) and `CheckpointsLead`
(`CheckpointLeadsOn`). The argument is that everything live is in one place.
`OnlyCurrent`: only the newest run is queued, running or parked. `WorkersRun`: an
attempt past its gate belongs to a run that is running, so to the newest one, and
when a run is queued or parked nobody is past a gate; whatever a request or a
restart does then brings at most one attempt to work, because `ExecutionsApart`
and `GatesHold` leave one attempt at a gate, of the run the gate belongs to.
`CheckpointsKnown` says that a request names a run of the document. For the
second theorem, `WorkersReady` ties an attempt at work to the gate of its run and
to a trace with the stages before its own, so that the checkpoint it writes when
it parks satisfies `ParkedReady`; and `CancelledGone` says that the run of a
cancelled attempt was invalidated, which no action undoes, so that the late
cleanup of such an attempt never takes the gate of a parked run away.

`StepLineProofs` builds on that and proves `TypeCorrect` and
`DebuggingImplementsLine` (`Spec => ImplementsStepLine`). What `IInv` lacks is
the account of the stages: nothing in it says that a stage at work was asked
for. `RunsGood` keeps that account run by run: every finished stage of a run
was paid for by a request of its own (`StagesPaid`), and the stages finished of
its boundary are exactly those before the one where its checkpoint, its
recovery or its attempt stands, which itself has been asked for exactly if an
attempt or a recovery was let through to it (`Stands`). Gates and recoveries
fit their run (`Placed`, `RecoveryFits`). `NothingAhead` says that runs not yet
created have nothing finished or asked for, and `Bounded` gives the types that
the account rests on. Every action then is one of three: `Quiet`, it `Grants`
one request, or it `Does` one stage (`Follows`). The
refinement needs two facts more. Finished stages map one-to-one into accepted
requests, so by the pigeonhole principle there are never more of them; and the
stage an attempt finishes is the number of those its boundary has finished.

Every invariant and every action property that a passing run checks is thus
stated by a theorem, and so are the three refinements. Only model-checked are
all liveness properties (`QueueDrains`, `RunsSettle`, `WindowsResolve`,
`StepsSettle`), which are out of the reach of the proof system together with
fairness and ENABLED, and what `WorldHost` does after `overlap` or
`staleResume`. No module declares a RECURSIVE operator.

## 6. Not modelled

- In modelled components: deletion of an instance while the host uses it, the
  wording of creation and arrival, abort controllers (they only end an attempt
  early), millisecond timestamps, failures of the ledger before an attempt
  starts, artifacts and their deduplication, conditions and extensions of
  activities, and the clock of the wall-time budget.
- Truth engine, action resolution, observations, agent minds, prompts and
  schemas of the language models (`truth-engine.ts`, `llm-schemas.ts`,
  `prompts.ts` and most of `eager-reference.ts`): these transform one document
  into another around model calls. They keep no state between steps, and what
  they must satisfy is checked by the committer by recomputation; a model would
  repeat their data handling field by field. Their effect appears as the choice
  in `Resolve` and `CommitAttempt`.
- Model gateway and repair: a loop over the attempts of one call with no shared
  state but the scheduler, which is modelled.
- Experiments, inspector, import, catalogue, web application, benchmarks and
  scripts: offline, read-only or user interface. They make up most of the
  repository's lines, so the part of it that is modelled is small although it is
  where its state changes.

## 7. Plan

What is left, in order of worth:

1. Proofs: which of the properties of `WorldHost` survive `overlap`, a submission
   accepted while a run executes; at present all theorems exclude it.
2. Composition of `WorldHost` with the refusals of `InstanceStore` (a ledger
   that refuses an execution, hazard at `world-host.ts:1773`).
3. Liveness of the realtime scheduler (hazards at `world-host.ts:2601` and
   `2773`), and conditions as a source of boundaries in `Activities`.
