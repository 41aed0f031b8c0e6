--------------------------- MODULE ModelScheduler ---------------------------
(***************************************************************************)
(* FairModelScheduler (engine/models/model-scheduler.ts): the one queue    *)
(* in front of every model call of the process.  Each workload (a world    *)
(* instance) owns a FIFO lane; drain() starts the head of the next lane in *)
(* the rotation while the global cap and the cap of the head's provider    *)
(* leave room.                                                             *)
(*                                                                         *)
(* The scheduler runs in JavaScript turns.  schedule(), remove() and the   *)
(* finally() callback all end in a call of drain(), whose loop starts any  *)
(* number of jobs before the turn ends.  draining is TRUE while the call   *)
(* stack is inside that loop: every other action requires ~draining, so no *)
(* handler runs between the statements before drain() and its return.      *)
(***************************************************************************)
EXTENDS Integers, FiniteSets, SequencesExt

CONSTANTS
  Jobs,                 \* request slots: one call of schedule() at a time each
  Workloads,            \* workload ids
  Providers,            \* provider ids
  workloadOf,           \* the workloadId of each request
  providerOf,           \* the providerId of each request
  globalConcurrency,    \* options.globalConcurrency
  maxQueuedRequests,    \* options.maxQueuedRequests
  providerConcurrency,  \* options.providerConcurrency
  Resubmits             \* whether a caller issues another request after one ended

ASSUME JobsAssumption ==
  /\ IsFiniteSet(Jobs)
  /\ workloadOf \in [Jobs -> Workloads]
  /\ providerOf \in [Jobs -> Providers]
  /\ Resubmits \in BOOLEAN

\* The constructor throws on any other options (lines 70-85).
ASSUME OptionsAssumption ==
  /\ globalConcurrency \in Nat \ {0}
  /\ maxQueuedRequests \in Nat
  /\ maxQueuedRequests >= globalConcurrency
  /\ providerConcurrency \in [Providers -> Nat \ {0}]

VARIABLES
  lanes,              \* lanes[w]: the queued jobs of w, empty when w has no lane
  laneKeys,           \* the keys of the lanes map
  rotation,           \* the lanes in rotation order
  nextRotationIndex,  \* 0-based index at which takeNext starts to look
  active, queued,     \* the two counters
  activeByProvider, activeByWorkload,
  status,             \* where the promise of each request stands
  draining            \* the turn is inside the loop of drain()

counters == <<active, queued, activeByProvider, activeByWorkload>>
vars == <<lanes, laneKeys, rotation, nextRotationIndex, counters, status, draining>>

(***************************************************************************)
(* idle: not yet submitted; queued: in a lane; running: execute() called   *)
(* and not settled; settled: the caller's promise is resolved or rejected  *)
(* but finally() has not run; done: finally() has run; rejected: refused   *)
(* or discarded without running.                                           *)
(***************************************************************************)
Statuses == {"idle", "queued", "running", "settled", "done", "rejected"}

Submittable(j) == status[j] \in IF Resubmits THEN {"idle", "done", "rejected"} ELSE {"idle"}

-----------------------------------------------------------------------------
(* Helpers *)

SetStatus(j, s) == status' = [status EXCEPT ![j] = s]

\* indexOf, counted from 1.
Position(s, x) == CHOOSE i \in 1..Len(s) : s[i] = x

\* removeLane without the correction of nextRotationIndex.
RemoveLaneKeepingIndex(w) ==
  /\ laneKeys' = laneKeys \ {w}
  /\ rotation' = RemoveAt(rotation, Position(rotation, w))
  /\ UNCHANGED nextRotationIndex

RemoveLane(w) ==
  LET index == Position(rotation, w)
      moved == IF index <= nextRotationIndex THEN nextRotationIndex - 1 ELSE nextRotationIndex
  IN  /\ laneKeys' = laneKeys \ {w}
      /\ rotation' = RemoveAt(rotation, index)
      /\ nextRotationIndex' = IF Len(rotation) = 1 THEN 0 ELSE moved

KeepLanes == UNCHANGED <<laneKeys, rotation, nextRotationIndex>>

\* The lane that takeNext() looks at after skipping offset lanes.
RotationIndex(offset) == ((nextRotationIndex % Len(rotation)) + offset) % Len(rotation)
LaneAt(offset) == rotation[RotationIndex(offset) + 1]

\* Startable without the comparison with the provider's limit.
StartableAnyProvider(w) == lanes[w] # <<>>

Startable(w) ==
  /\ lanes[w] # <<>>
  /\ LET p == providerOf[Head(lanes[w])] IN activeByProvider[p] < providerConcurrency[p]

\* The offset of the lane takeNext() takes, when it takes one.
Takes(offset) ==
  /\ offset \in 0..(Len(rotation) - 1)
  /\ Startable(LaneAt(offset))
  /\ \A earlier \in 0..(offset - 1) : ~Startable(LaneAt(earlier))

-----------------------------------------------------------------------------
Init ==
  /\ lanes = [w \in Workloads |-> <<>>]
  /\ laneKeys = {}
  /\ rotation = <<>>
  /\ nextRotationIndex = 0
  /\ active = 0
  /\ queued = 0
  /\ activeByProvider = [p \in Providers |-> 0]
  /\ activeByWorkload = [w \in Workloads |-> 0]
  /\ status = [j \in Jobs |-> "idle"]
  /\ draining = FALSE

(* schedule(): the request is refused before it is queued, because its     *)
(* signal is already aborted or because the queue is full.                 *)
Refuse(j) ==
  /\ ~draining
  /\ Submittable(j)
  /\ \E aborted \in BOOLEAN : aborted \/ queued >= maxQueuedRequests
  /\ SetStatus(j, "rejected")
  /\ UNCHANGED <<lanes, laneKeys, rotation, nextRotationIndex, counters, draining>>

(* schedule(): the request joins the lane of its workload, which is created *)
(* at the end of the rotation when the workload has none.                  *)
Schedule(j) ==
  LET w == workloadOf[j] IN
  /\ ~draining
  /\ Submittable(j)
  /\ queued < maxQueuedRequests
  /\ lanes' = [lanes EXCEPT ![w] = Append(@, j)]
  /\ laneKeys' = laneKeys \cup {w}
  /\ rotation' = IF w \in laneKeys THEN rotation ELSE Append(rotation, w)
  /\ queued' = queued + 1
  /\ SetStatus(j, "queued")
  /\ draining' = TRUE
  /\ UNCHANGED <<nextRotationIndex, active, activeByProvider, activeByWorkload>>

\* remove() that does not drain after it took the job out of its lane.
DiscardWithoutDrain(j) ==
  LET w == workloadOf[j]
      rest == RemoveAt(lanes[w], Position(lanes[w], j))
  IN
  /\ ~draining
  /\ status[j] = "queued"
  /\ lanes' = [lanes EXCEPT ![w] = rest]
  /\ queued' = queued - 1
  /\ IF rest = <<>> /\ activeByWorkload[w] = 0 THEN RemoveLane(w) ELSE KeepLanes
  /\ SetStatus(j, "rejected")
  /\ UNCHANGED <<active, activeByProvider, activeByWorkload, draining>>

(* remove(): the queue timeout or the abort signal of a queued job fires.  *)
(* Both are disarmed when takeNext() takes the job, so neither reaches a   *)
(* job that runs.                                                          *)
Discard(j) ==
  LET w == workloadOf[j]
      rest == RemoveAt(lanes[w], Position(lanes[w], j))
  IN
  /\ ~draining
  /\ status[j] = "queued"
  /\ lanes' = [lanes EXCEPT ![w] = rest]
  /\ queued' = queued - 1
  /\ IF rest = <<>> /\ activeByWorkload[w] = 0 THEN RemoveLane(w) ELSE KeepLanes
  /\ SetStatus(j, "rejected")
  /\ draining' = TRUE
  /\ UNCHANGED <<active, activeByProvider, activeByWorkload>>

(* drain(): one iteration of the loop, takeNext() and the call of execute() *)
StartNext(offset) ==
  LET w == LaneAt(offset)
      j == Head(lanes[w])
      p == providerOf[j]
  IN
  /\ draining
  /\ active < globalConcurrency
  /\ Takes(offset)
  /\ lanes' = [lanes EXCEPT ![w] = Tail(@)]
  /\ queued' = queued - 1
  /\ nextRotationIndex' = RotationIndex(offset) + 1
  /\ active' = active + 1
  /\ activeByProvider' = [activeByProvider EXCEPT ![p] = @ + 1]
  /\ activeByWorkload' = [activeByWorkload EXCEPT ![w] = @ + 1]
  /\ SetStatus(j, "running")
  /\ UNCHANGED <<laneKeys, rotation, draining>>

(* drain(): the loop ends at the global cap or when takeNext() finds none. *)
DrainReturns ==
  /\ draining
  /\ \/ active >= globalConcurrency
     \/ \A offset \in 0..(Len(rotation) - 1) : ~Takes(offset)
  /\ draining' = FALSE
  /\ UNCHANGED <<lanes, laneKeys, rotation, nextRotationIndex, counters, status>>

(* execute() settles: then() or catch() answers the caller.  The counters  *)
(* still hold the job, and the caller may already schedule its next one.   *)
Settle(j) ==
  /\ ~draining
  /\ status[j] = "running"
  /\ SetStatus(j, "settled")
  /\ UNCHANGED <<lanes, laneKeys, rotation, nextRotationIndex, counters, draining>>

\* finally() without cleanupWorkload().
ReleaseWithoutCleanup(j) ==
  LET w == workloadOf[j] p == providerOf[j] IN
  /\ ~draining
  /\ status[j] = "settled"
  /\ active' = active - 1
  /\ activeByProvider' = [activeByProvider EXCEPT ![p] = @ - 1]
  /\ activeByWorkload' = [activeByWorkload EXCEPT ![w] = @ - 1]
  /\ KeepLanes
  /\ SetStatus(j, "done")
  /\ draining' = TRUE
  /\ UNCHANGED <<lanes, queued>>

\* finally() that forgets the per-provider counter.
ReleaseKeepingProvider(j) ==
  LET w == workloadOf[j] IN
  /\ ~draining
  /\ status[j] = "settled"
  /\ active' = active - 1
  /\ activeByWorkload' = [activeByWorkload EXCEPT ![w] = @ - 1]
  /\ IF activeByWorkload[w] = 1 /\ lanes[w] = <<>> THEN RemoveLane(w) ELSE KeepLanes
  /\ SetStatus(j, "done")
  /\ draining' = TRUE
  /\ UNCHANGED <<lanes, queued, activeByProvider>>

(* finally(): the counters give the job back, cleanupWorkload() drops a    *)
(* lane with nothing queued and nothing running, and drain() follows.      *)
Release(j) ==
  LET w == workloadOf[j] p == providerOf[j] IN
  /\ ~draining
  /\ status[j] = "settled"
  /\ active' = active - 1
  /\ activeByProvider' = [activeByProvider EXCEPT ![p] = @ - 1]
  /\ activeByWorkload' = [activeByWorkload EXCEPT ![w] = @ - 1]
  /\ IF activeByWorkload[w] = 1 /\ lanes[w] = <<>> THEN RemoveLane(w) ELSE KeepLanes
  /\ SetStatus(j, "done")
  /\ draining' = TRUE
  /\ UNCHANGED <<lanes, queued>>

Drain == DrainReturns \/ \E offset \in 0..(Len(rotation) - 1) : StartNext(offset)

Next ==
  \/ \E j \in Jobs : \/ Refuse(j)
                     \/ Schedule(j)
                     \/ Discard(j)
                     \/ Settle(j)
                     \/ Release(j)
  \/ DrainReturns
  \/ \E offset \in 0..(Len(rotation) - 1) : StartNext(offset)

Spec == Init /\ [][Next]_vars

(***************************************************************************)
(* A turn that has begun ends, a model call ends (the driver bounds each   *)
(* attempt), and a promise callback that is due runs.  Neither the callers *)
(* nor the queue timers are fair: a request must not need its timer.       *)
(***************************************************************************)
Fairness ==
  /\ WF_vars(Drain)
  /\ \A j \in Jobs : WF_vars(Settle(j)) /\ WF_vars(Release(j))

FairSpec == Spec /\ Fairness

-----------------------------------------------------------------------------
(* Properties *)

InFlight == {j \in Jobs : status[j] \in {"running", "settled"}}
Waiting == {j \in Jobs : status[j] = "queued"}

(* The type invariant of the state of the FairModelScheduler object. *)
TypeOK ==
  /\ lanes \in [Workloads -> Seq(Jobs)]
  /\ laneKeys \in SUBSET Workloads
  /\ rotation \in Seq(Workloads)
  /\ nextRotationIndex \in 0..Len(rotation)
  /\ active \in Nat
  /\ queued \in 0..maxQueuedRequests
  /\ activeByProvider \in [Providers -> Nat]
  /\ activeByWorkload \in [Workloads -> Nat]
  /\ status \in [Jobs -> Statuses]
  /\ draining \in BOOLEAN

(* Whatever is submitted, timed out and aborted in whatever order, the     *)
(* requests really in flight stay within the global limit and within the   *)
(* limit of each provider (drain and takeNext).                            *)
ConcurrencyCaps ==
  /\ Cardinality(InFlight) <= globalConcurrency
  /\ \A p \in Providers :
        Cardinality({j \in InFlight : providerOf[j] = p}) <= providerConcurrency[p]

(* The four counters never drift from the requests they count, across the  *)
(* start, settlement, timeout and abort paths that update them.            *)
CountersExact ==
  /\ active = Cardinality(InFlight)
  /\ queued = Cardinality(Waiting)
  /\ \A p \in Providers :
        activeByProvider[p] = Cardinality({j \in InFlight : providerOf[j] = p})
  /\ \A w \in Workloads :
        activeByWorkload[w] = Cardinality({j \in InFlight : workloadOf[j] = w})

(* A queued request sits exactly once in the lane of its workload, the     *)
(* rotation lists each lane once, and a lane is kept exactly as long as    *)
(* its workload has a request queued or in flight: no request is stranded  *)
(* in a lane the rotation forgot, and no lane leaks.                       *)
LanesExact ==
  /\ ToSet(rotation) = laneKeys
  /\ Cardinality(laneKeys) = Len(rotation)
  /\ \A w \in Workloads :
        /\ ToSet(lanes[w]) = {j \in Waiting : workloadOf[j] = w}
        /\ Len(lanes[w]) = Cardinality(ToSet(lanes[w]))
        /\ w \in laneKeys <=> \E j \in Waiting \cup InFlight : workloadOf[j] = w

(* Between turns no capacity is left unused: when the global cap has room, *)
(* the head of every lane is held back by the cap of its own provider.     *)
(* Each of schedule, remove and finally must drain for this to hold.       *)
WorkConserving ==
  ~draining /\ active < globalConcurrency => \A w \in Workloads : ~Startable(w)

(* With callers that do not come back, every queued request leaves the     *)
(* queue although its timer never fires: no wake-up is lost, and a lane    *)
(* whose head waits for a busy provider is served in the end.              *)
QueueDrains == \A j \in Jobs : status[j] = "queued" ~> status[j] # "queued"
=============================================================================
