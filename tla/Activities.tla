----------------------------- MODULE Activities -----------------------------
(***************************************************************************)
(* One world step as far as activities go: who may act, shared resource    *)
(* pools and their queues, the next temporal boundary, decision points, and *)
(* the checks with which the committer accepts or rejects the candidate    *)
(* (engine/mechanics/temporal.ts, shared-resource-allocation.ts,           *)
(* eager-reference.ts, canonical-committer.ts).                            *)
(*                                                                         *)
(* An activity is named by its actor: a new action cancels whatever its    *)
(* actor was doing, so an agent has at most one live activity.             *)
(***************************************************************************)
EXTENDS Naturals, Sequences, FiniteSetsExt, Functions

CONSTANTS
  Agents,             \* numbers: their order stands for the order of the activity ids
  External,           \* agents of participants, who may be late or step in
  Pools,
  Capacity,           \* of each pool
  Contention,         \* "reject", "queue" or "adjudicate", of each pool
  PausedRetention,    \* pools whose claims a paused activity keeps
  Works,              \* what an action of each agent may plan
  Timers,             \* when the timer of an agent is due; 0: no timer
  MaxAutonomousSpan,
  MaxElapsed          \* bound: no step starts at or after this time

ASSUME ActivitiesAssumption ==
  /\ Agents \subseteq Nat /\ IsFiniteSet(Agents)
  /\ External \subseteq Agents /\ PausedRetention \subseteq Pools
  /\ Capacity \in [Pools -> Nat] /\ Timers \in [Agents -> Nat]
  /\ Contention \in [Pools -> {"reject", "queue", "adjudicate"}]
  /\ MaxAutonomousSpan \in Nat \ {0} /\ MaxElapsed \in Nat
  /\ \A g \in Agents : \A w \in Works[g] :
       /\ w.claims \in [Pools -> Nat] /\ w.interruptible \in BOOLEAN
       /\ w.checkpoint \in Nat \ {0} /\ w.duration \in Nat /\ w.limit \in Nat
       \* derivedSchedule: stages follow one another and end with the activity.
       /\ w.stages \in Seq([ends : Nat \ {0}, checkpoint : Nat \ {0}])
       /\ \A i, j \in DOMAIN w.stages : i < j => w.stages[i].ends < w.stages[j].ends
       /\ w.stages # <<>> => /\ w.checkpoint = w.stages[1].checkpoint
                             /\ w.duration = w.stages[Len(w.stages)].ends

VARIABLES
  elapsed,      \* truth.elapsedSeconds
  activities,   \* truth.activities
  decisions,    \* agents with a decision point in the last committed step
  phase,
  candidate,    \* the step under construction
  verdict       \* what became of the last candidate

world == <<elapsed, activities, decisions>>
vars == <<elapsed, activities, decisions, phase, candidate, verdict>>

NoActivity == [status |-> "none"]
NoCandidate == [activities |-> <<>>]

Live(a) == a.status \in {"active", "paused", "queued", "ready"}
Stopped(a, status) == [a EXCEPT !.status = status, !.next = 0]

Init ==
  /\ elapsed = 0
  /\ activities = [g \in Agents |-> NoActivity]
  /\ decisions = {}
  /\ phase = "idle"
  /\ candidate = NoCandidate
  /\ verdict = "none"

-----------------------------------------------------------------------------
(* Time. *)

\* createActivity: since is the start, or the time of enqueueing while it waits.
CreateActivity(w, at, deadline) ==
  [status |-> "active", work |-> w, since |-> at, updated |-> at, deadline |-> deadline,
   next |-> at + (IF w.duration = 0 THEN w.checkpoint ELSE Min({w.duration, w.checkpoint}))]

Ends(a) == a.since + a.work.duration

\* evaluateActivityContinuation, for an assertion about elapsed seconds.
Continues(a, at) == a.deadline = 0 \/ at < a.deadline

\* A faulty variant: the end of the current stage is not a boundary.
NextBoundaryIgnoringStages(a, at) ==
  IF a.work.duration = 0 THEN at + a.work.checkpoint ELSE Min({Ends(a), at + a.work.checkpoint})

NextActivityBoundary(a, at) ==
  LET stages == a.work.stages
      current == stages[Min({i \in DOMAIN stages : at < a.since + stages[i].ends})]
  IN CASE stages # <<>> -> Min({a.since + current.ends, at + current.checkpoint})
       [] stages = <<>> /\ a.work.duration = 0 -> at + a.work.checkpoint
       [] OTHER -> Min({Ends(a), at + a.work.checkpoint})

\* The boundaries of an active activity: its next checkpoint or completion, and
\* the second at which a continuation assertion fails.
Boundaries(a) == {a.next} \cup ({a.deadline} \ 0 .. elapsed)

SelectTemporalBoundary(acts) ==
  Min({elapsed + MaxAutonomousSpan}
      \cup (UNION {Boundaries(acts[g]) : g \in {h \in Agents : acts[h].status = "active"}})
      \cup {Timers[g] : g \in {h \in Agents : Timers[h] > elapsed}})

Due(acts, to) == {g \in Agents : acts[g].status = "active" /\ to \in Boundaries(acts[g])}

\* advanceTemporalState.
Advanced(acts, to) ==
  [g \in Agents |->
     IF acts[g].status # "active" THEN acts[g]
     ELSE IF acts[g].work.duration > 0 /\ to >= Ends(acts[g]) THEN Stopped(acts[g], "completed")
     ELSE IF g \in Due(acts, to)
          THEN [acts[g] EXCEPT !.updated = to, !.next = NextActivityBoundary(acts[g], to)]
     ELSE [acts[g] EXCEPT !.updated = to]]

-----------------------------------------------------------------------------
(* Shared resources. *)

Claims(a) == a.work.claims
PoolsOf(a) == {p \in Pools : Claims(a)[p] > 0}

\* sharedResourceContentionForClaims: the strongest policy among the pools.
ContentionOf(a) ==
  LET policies == {Contention[p] : p \in PoolsOf(a)}
  IN IF "adjudicate" \in policies THEN "adjudicate"
     ELSE IF "queue" \in policies THEN "queue" ELSE "reject"

\* A faulty variant: a paused activity holds nothing.
HeldWhileRunning(a) ==
  [p \in Pools |-> IF a.status \in {"ready", "active"} THEN Claims(a)[p] ELSE 0]

\* claimsHeldByActivity.
HeldBy(a) ==
  [p \in Pools |->
     IF a.status \in {"ready", "active"} \/ (a.status = "paused" /\ p \in PausedRetention)
     THEN Claims(a)[p] ELSE 0]

Usage(acts, counted) ==
  [p \in Pools |-> SumFunctionOnSet([g \in Agents |-> HeldBy(acts[g])[p]], counted)]

Shortage(a, usage) == {p \in PoolsOf(a) : usage[p] + Claims(a)[p] > Capacity[p]}

QueuedIn(acts) == {g \in Agents : acts[g].status = "queued"}

Linked(acts, g, h) == PoolsOf(acts[g]) \cap PoolsOf(acts[h]) # {}

\* hasOlderConnectedQueue: a component that meets the pools of g has a member
\* that does.
QueueAhead(acts, g) == \E q \in QueuedIn(acts) : Linked(acts, q, g)

\* planSharedResourceAdmissions: proposals are decided in the order of their
\* ids, and what is granted counts for the ones that follow.
Admissions(acts, proposals) ==
  LET Holders(kind, g) == (Agents \ proposals) \cup {h \in proposals : h < g /\ kind[h] = "granted"}
      Short(kind, g) == Shortage(acts[g], Usage(acts, Holders(kind, g)))
      Waits(g) == ContentionOf(acts[g]) = "queue" /\ QueueAhead(acts, g)
      decided[g \in proposals] ==
        IF Short(decided, g) = {} /\ ~Waits(g) THEN "granted" ELSE ContentionOf(acts[g])
      Contested(g) == IF Short(decided, g) = {} THEN PoolsOf(acts[g]) ELSE Short(decided, g)
      Rivals(g) == {h \in Holders(decided, g) : \E p \in Contested(g) : HeldBy(acts[h])[p] > 0}
  IN [kind |-> decided,
      rivals |-> UNION {Rivals(g) : g \in {g \in proposals : decided[g] = "adjudicate"}}]

\* applySharedResourceAdmissions: an adjudicated proposal stays active.
Admitted(acts, kind) ==
  [g \in Agents |->
     IF g \notin DOMAIN kind THEN acts[g]
     ELSE IF kind[g] = "queue" THEN Stopped(acts[g], "queued")
     ELSE IF kind[g] = "reject" THEN Stopped(acts[g], "blocked")
     ELSE acts[g]]

\* queuedComponents: the queued activities linked to q by the pools they want,
\* the least set with q that has whatever is linked to one of its members.
Component(acts, q) ==
  LET queued == QueuedIn(acts)
      Closed(set) == \A g \in set : \A h \in queued : Linked(acts, g, h) => h \in set
  IN {g \in queued : \A set \in SUBSET queued : q \in set /\ Closed(set) => g \in set}

Before(acts, g, h) ==
  acts[g].since < acts[h].since \/ (acts[g].since = acts[h].since /\ g <= h)

UpTo(acts, q) == {g \in Component(acts, q) : Before(acts, g, q)}

\* A faulty variant: an activity is passed over when it does not fit.
ReservableSkipping(acts) ==
  {q \in QueuedIn(acts) : Shortage(acts[q], Usage(acts, Agents)) = {}
     /\ \A g \in QueuedIn(acts) : Shortage(acts[g], Usage(acts, Agents)) = {} => Before(acts, q, g)}

\* A faulty variant: the head of each queue is reserved and nothing behind it.
ReservableHeads(acts) ==
  {q \in QueuedIn(acts) : UpTo(acts, q) = {q} /\ Shortage(acts[q], Usage(acts, Agents)) = {}}

\* promoteSharedResourceQueues reserves, in each component, the longest prefix
\* of the queue that fits: it stops at the first activity that does not.
Reservable(acts) ==
  LET usage == Usage(acts, Agents)
      Fits(r) == \A p \in PoolsOf(acts[r]) :
        usage[p] + SumFunction([g \in UpTo(acts, r) |-> Claims(acts[g])[p]]) <= Capacity[p]
  IN {q \in QueuedIn(acts) : \A r \in UpTo(acts, q) : Fits(r)}

Promoted(acts) ==
  [g \in Agents |-> IF g \in Reservable(acts) THEN [acts[g] EXCEPT !.status = "ready"] ELSE acts[g]]

\* validateSharedResourceCapacity.
WithinCapacity(acts) == \A p \in Pools : Usage(acts, Agents)[p] <= Capacity[p]

-----------------------------------------------------------------------------
(* prepareStep: reservations start, and eligible agents act. *)

\* decisionEligibleAgentIds.
Eligible == {g \in Agents : ~Live(activities[g]) \/ g \in decisions}

Reserved == {g \in Agents : activities[g].status = "ready"}

\* startReadyActivity plans from the current time; waiting earns nothing.
StartReady(a) ==
  LET started == CreateActivity(a.work, elapsed, a.deadline)
  IN IF a.status # "ready" THEN a
     ELSE IF Continues(started, elapsed) THEN started ELSE Stopped(started, "blocked")

\* The activity of an action of this step, which must be able to start: its
\* assertion fails `limit' seconds later, or never.
Onset(w) == CreateActivity(w, elapsed, IF w.limit = 0 THEN 0 ELSE elapsed + w.limit)

Plans(acting) == {f \in [acting -> UNION {Works[g] : g \in acting}] : \A g \in acting : f[g] \in Works[g]}

\* cancelActivity and cancelDeferredActivity throw for any other activity.
Cancellable(a) == a.status = "queued" \/ (a.work.interruptible /\ a.updated = elapsed)

\* What the actions of the step replace. An agent of a participant may be late:
\* the step then has no action for it.
Replaced(acting) == {g \in acting : Live(StartReady(activities[g]))}
Actors == {acting \in SUBSET (Eligible \cup External) : Eligible \ External \subseteq acting}

Prepare(acting) ==
  LET started == [g \in Agents |-> StartReady(activities[g])]
  IN /\ phase = "idle" /\ elapsed < MaxElapsed
     /\ \A g \in Replaced(acting) : Cancellable(started[g])
     /\ \E choice \in Plans(acting) :
          LET planned == [g \in Agents |-> IF g \in acting THEN Onset(choice[g]) ELSE started[g]]
          IN candidate' = [activities |-> Admitted(planned, Admissions(planned, acting).kind),
                           fresh |-> acting,
                           started |-> Reserved,
                           unstarted |-> {g \in Reserved : started[g].status = "blocked"},
                           cancelled |-> Replaced(acting)]
     /\ phase' = "prepared"
     /\ verdict' = "none"
     /\ UNCHANGED world

\* cancelActivity throws: there is no step.
PreparationFails(acting) ==
  /\ phase = "idle" /\ elapsed < MaxElapsed
  /\ \E g \in Replaced(acting) : ~Cancellable(StartReady(activities[g]))
  /\ verdict' = "cannot be cancelled"
  /\ UNCHANGED <<world, phase, candidate>>

-----------------------------------------------------------------------------
(* completeStep: one round of reactions, the boundary, and the advance. *)

\* Who may be asked for a reaction to what another agent has begun: the actor of
\* an interruptible activity, ongoing or just prepared.
Ongoing == {g \in Agents \ candidate.fresh : activities[g].status = "active"}
Asked == {g \in Ongoing \cup candidate.fresh :
            /\ candidate.activities[g].status = "active"
            /\ candidate.activities[g].work.interruptible
            /\ candidate.fresh \ {g} # {}}

\* What g may decide: the actor of a prepared action keeps or replaces it.
Decisions(g) ==
  {[kind |-> "none"]}
    \cup IF g \notin Asked THEN {}
         ELSE {[kind |-> "continue"]} \cup [kind : {"replace"}, choice : Works[g]]
                \cup IF g \in candidate.fresh THEN {} ELSE [kind : {"pause", "cancel"}]

\* One round: a decision of each agent that got a request.
Reactions == {r \in [Agents -> UNION {Decisions(g) : g \in Agents}] : \A g \in Agents : r[g] \in Decisions(g)}
NoReaction == [g \in Agents |-> [kind |-> "none"]]

Reacting(r, kinds) == {g \in Agents : r[g].kind \in kinds}

\* A faulty variant: what the preparation has queued is not proposed afresh.
ProposedAgainButQueued(r) ==
  [g \in Agents |->
     LET a == candidate.activities[g]
     IN CASE r[g].kind = "pause" -> Stopped(a, "paused")
          [] r[g].kind = "cancel" -> Stopped(a, "cancelled")
          [] r[g].kind = "replace" -> Onset(r[g].choice)
          [] OTHER -> a]

\* The activities on which the admission is planned again: every prepared one
\* is a proposal as if nothing had been decided about it.
ProposedAgain(r) ==
  [g \in Agents |->
     LET a == candidate.activities[g]
     IN CASE r[g].kind = "pause" -> Stopped(a, "paused")
          [] r[g].kind = "cancel" -> Stopped(a, "cancelled")
          [] r[g].kind = "replace" -> Onset(r[g].choice)
          [] g \in candidate.fresh /\ a.status \in {"queued", "blocked"} ->
               CreateActivity(a.work, elapsed, a.deadline)
          [] OTHER -> a]

Complete ==
  /\ phase = "prepared"
  /\ \E r \in Reactions :
    LET fresh == candidate.fresh \cup Reacting(r, {"replace"})
        proposed == ProposedAgain(r)
        plan == Admissions(proposed, fresh)
        admitted == Admitted(proposed, plan.kind)
        to == SelectTemporalBoundary(admitted)
        due == Due(admitted, to)
        advanced == Advanced(admitted, to)
        woken == {g \in Agents : Timers[g] = to}
        deferred == {g \in fresh : plan.kind[g] \in {"queue", "reject"}}
        rivals == {g \in Agents \cap plan.rivals : admitted[g].status \notin {"none", "queued"}}
    IN /\ candidate' =
            [activities |-> advanced, fresh |-> fresh, to |-> to, due |-> due,
             kept |-> Reacting(r, {"continue"}),
             started |-> candidate.started, unstarted |-> candidate.unstarted,
             cancelled |-> candidate.cancelled,
             queued |-> {g \in fresh : plan.kind[g] = "queue"},
             resolving |-> ((((fresh \ deferred) \cup rivals) \ woken) \cup due),
             points |-> {g \in Agents : advanced[g].status = "completed"} \cup woken
                          \cup {g \in fresh : plan.kind[g] = "reject"} \cup candidate.unstarted
                          \cup Reacting(r, {"pause", "cancel"})]
       /\ phase' = "advanced"
       /\ UNCHANGED <<world, verdict>>

\* Truth settles the actions that meet in this step. reconcileTemporalOutcomes
\* ends what has failed, and what was waiting for its condition.
\* replaceActivityTransition, and reconcileTemporalOutcomes likewise, drop every
\* transition the activity had in this step: also the one that started it.
Resolve ==
  /\ phase = "advanced"
  /\ \E outcome \in [candidate.resolving -> {"continuing", "succeeded", "failed"}] :
    LET ends == {g \in candidate.resolving :
                   /\ candidate.activities[g].status = "active"
                   /\ \/ outcome[g] = "failed"
                      \/ outcome[g] = "succeeded" /\ candidate.activities[g].work.duration = 0}
        result == [continuing |-> "active", succeeded |-> "completed", failed |-> "failed"]
    IN /\ candidate' =
            [candidate EXCEPT
               !.activities = [g \in Agents |-> IF g \in ends THEN Stopped(@[g], result[outcome[g]]) ELSE @[g]],
               !.points = @ \cup ends,
               !.started = @ \ (ends \ candidate.fresh)]
       /\ phase' = "resolved"
       /\ UNCHANGED <<world, verdict>>

\* settleActivityContexts. Who may be paused because its actor noticed what
\* another one did: activities that are affected and not themselves resolved.
Noticeable ==
  LET stirring == candidate.resolving \cup candidate.fresh
                    \cup {g \in Agents : Timers[g] = candidate.to}
  IN {g \in Agents :
        /\ candidate.activities[g].status = "active" /\ candidate.activities[g].work.interruptible
        /\ g \notin candidate.kept
        /\ g \in (Agents \ candidate.resolving) \cup candidate.due
        /\ stirring \ {g} # {}}

Broken == {g \in candidate.due :
             /\ candidate.activities[g].status = "active"
             /\ ~Continues(candidate.activities[g], candidate.to)}

\* An activity stands aside for a decision point of its actor if it may.
Settled(acts, points) ==
  [g \in Agents |-> IF g \in points /\ acts[g].status = "active" /\ acts[g].work.interruptible
                    THEN Stopped(acts[g], "paused") ELSE acts[g]]

\* A faulty variant: a decision point is kept even if its agent stays occupied.
RetainedAlways(acts, points) == points

\* A faulty variant: an agent keeps it only when nothing of it is left.
RetainedWhenIdle(acts, points) == {g \in points : ~Live(acts[g])}

\* Otherwise the decision point is dropped.
Retained(acts, points) == {g \in points : acts[g].status # "active"}

\* What the committer compares (validateCandidateBoundary), in its order:
\* reservations that start, deferrals that follow from the admissions, a plan in
\* place of what was cancelled, and the capacity after the promotions.
StartsMatch(started) == started = Reserved
AdmissionsMatch == candidate.unstarted = {}
CancellationsReplaced ==
  candidate.cancelled \subseteq (candidate.fresh \ candidate.queued) \cup Reserved

Verdict(promoted, started) ==
  IF ~StartsMatch(started) THEN "starts do not match"
  ELSE IF ~AdmissionsMatch THEN "admissions do not match"
  ELSE IF ~CancellationsReplaced THEN "cancelled without a plan"
  ELSE IF ~WithinCapacity(promoted) THEN "exceeds capacity" ELSE "committed"

\* A faulty variant: what has ended still counts.
KeptAlways(a) == a

\* What has ended no longer matters to later steps.
Kept(a) == IF Live(a) THEN a ELSE NoActivity

\* The rest of completeStep, and the committer: all or nothing.
Finish ==
  /\ phase = "resolved"
  /\ \E noticed \in SUBSET Noticeable :
    LET pausing == noticed \ Broken
        acts == [g \in Agents |->
                   IF g \in Broken THEN Stopped(candidate.activities[g], "blocked")
                   ELSE IF g \in pausing THEN Stopped(candidate.activities[g], "paused")
                   ELSE candidate.activities[g]]
        points == candidate.points \cup Broken \cup pausing
        settled == Settled(acts, points)
        promoted == Promoted(settled)
        replaced == {g \in Agents : settled[g].status # candidate.activities[g].status}
        result == Verdict(promoted, candidate.started \ (replaced \ candidate.fresh))
    IN /\ verdict' = result
       /\ IF result = "committed"
          THEN /\ activities' = [g \in Agents |-> Kept(promoted[g])]
               /\ elapsed' = candidate.to
               /\ decisions' = Retained(settled, points)
          ELSE UNCHANGED world
       /\ candidate' = NoCandidate
       /\ phase' = "idle"

Next ==
  \/ \E acting \in Actors : Prepare(acting) \/ PreparationFails(acting)
  \/ Complete
  \/ Resolve
  \/ Finish

Spec == Init /\ [][Next]_vars

-----------------------------------------------------------------------------
(* Properties. *)

Activity(g) == [status : {"active", "paused", "queued", "ready"}, work : Works[g], since : Nat,
                updated : Nat, deadline : Nat, next : Nat]

TypeOK ==
  /\ elapsed \in Nat
  /\ \A g \in Agents : activities[g] \in Activity(g) \cup {NoActivity}
  /\ decisions \in SUBSET Agents
  /\ phase \in {"idle", "prepared", "advanced", "resolved"}
  /\ phase = "idle" <=> candidate = NoCandidate

\* However reservations, pauses, reactions, adjudication and promotion fall
\* together, no committed state has more claims on a pool than its capacity.
CapacityRespected ==
  \A p \in Pools :
    LET counted == {g \in Agents : \/ activities[g].status \in {"active", "ready"}
                                   \/ activities[g].status = "paused" /\ p \in PausedRetention}
    IN SumFunction([g \in counted |-> activities[g].work.claims[p]]) <= Capacity[p]

Free(p) == Capacity[p] - Usage(activities, Agents)[p]

\* The activities as they waited before the promotions of the last step.
Waited(acts) ==
  [g \in Agents |-> IF acts[g].status = "ready" THEN [acts[g] EXCEPT !.status = "queued"] ELSE acts[g]]

\* Nobody waits for what is free: whoever waits is short of something, or waits
\* behind an older one in its connected queue that is.
NoIdleCapacity ==
  \A q \in QueuedIn(activities) :
    \E r \in QueuedIn(activities) \cap UpTo(Waited(activities), q) :
      \E p \in PoolsOf(activities[r]) : Claims(activities[r])[p] > Free(p)

\* The activity of g gets its claims in this step, through the queue or past it.
Gains(g) ==
  /\ activities'[g].status \in {"active", "ready"} /\ activities[g].status # "ready"
  /\ activities[g].status = "queued" \/ activities'[g].since = elapsed
  /\ ContentionOf(activities'[g]) = "queue"

\* No step lets a younger activity, or a new one, have a pool for which an older
\* one keeps waiting, even when only the younger one fits.
NoOvertaking ==
  [][\A q, g \in Agents :
       /\ activities[q].status = "queued" /\ activities'[q] = activities[q]
       /\ Gains(g) /\ PoolsOf(activities'[g]) \cap PoolsOf(activities[q]) # {}
       => activities[g].status = "queued" /\ Before(activities, g, q)]_vars

\* The seconds at which something is due in the life of a scheduled activity.
Milestones(a) ==
  {a.since + a.work.stages[i].ends : i \in DOMAIN a.work.stages}
    \cup ({a.deadline} \ {0})
    \cup (IF a.work.duration > 0 THEN {Ends(a)} ELSE {})

\* World time never jumps over the end of a stage, a completion or the failure
\* of an assertion of an activity that runs throughout the step.
NothingSkipped ==
  [][\A g \in Agents :
       activities'[g].status \in {"active", "paused"} /\ activities'[g].updated = elapsed' =>
         \A m \in Milestones(activities'[g]) : m <= elapsed \/ m >= elapsed']_vars

\* An agent with a decision point is not occupied by an activity that goes on.
DecisionsFree == \A g \in decisions : activities[g].status # "active"

\* Nothing resumes a paused activity: its agent has a decision point, unless it
\* belongs to a participant who let the decision pass.
PausedMayDecide ==
  \A g \in Agents \ External : activities[g].status = "paused" => g \in decisions

\* What was admitted while a reaction was awaited is what will be admitted if
\* there is none: a decision that arrives late changes nothing for the others.
AdmissionsStable ==
  phase = "prepared" =>
    Admitted(ProposedAgain(NoReaction), Admissions(ProposedAgain(NoReaction), candidate.fresh).kind)
      = candidate.activities

\* "after pause, an ordinary natural-language action may cancel or replace the
\* Activity" (docs/architecture.md:64): an agent that may decide can do so.
PausedMayBeReplaced ==
  \A g \in decisions : activities[g].status = "paused" => Cancellable(activities[g])
=============================================================================
