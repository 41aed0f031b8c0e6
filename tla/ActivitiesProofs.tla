-------------------------- MODULE ActivitiesProofs --------------------------
(***************************************************************************)
(* Theorems about Activities, for all agents, pools, capacities, works,    *)
(* timers and bounds that satisfy ActivitiesAssumption: a decision point   *)
(* belongs to an agent who is free to decide, and a paused activity leaves *)
(* its agent with a decision point.                                        *)
(*                                                                         *)
(* Of an admission nothing is needed here but that it leaves a proposal as *)
(* it is, or queues or blocks it.  What is admitted, and the times at which *)
(* steps end, are the matter of ScheduleProofs and AllocationProofs.       *)
(***************************************************************************)
EXTENDS Activities, TLAPS

HaveStatus(acts) == \A g \in Agents : "status" \in DOMAIN acts[g]

(* The step under construction, as far as the theorems depend on it: who    *)
(* acts covers everybody who must, and a pause comes with a decision point. *)
PreparedHolds ==
  phase = "prepared" =>
    /\ HaveStatus(candidate.activities)
    /\ candidate.fresh \subseteq Agents /\ candidate.unstarted \subseteq Agents
    /\ \A g \in Agents \ External : candidate.activities[g].status # "paused"

AdvancedHolds ==
  phase \in {"advanced", "resolved"} =>
    /\ {"activities", "points", "started"} \subseteq DOMAIN candidate
    /\ HaveStatus(candidate.activities)
    /\ candidate.points \subseteq Agents /\ candidate.due \subseteq Agents
    /\ candidate.resolving \subseteq Agents
    /\ \A g \in Agents \ External : candidate.activities[g].status = "paused" => g \in candidate.points

IInv ==
  /\ HaveStatus(activities) /\ PreparedHolds /\ AdvancedHolds
  /\ PausedMayDecide /\ DecisionsFree

LEMMA InitHolds == Init => IInv
  BY DEF Init, IInv, HaveStatus, PreparedHolds, AdvancedHolds, PausedMayDecide, DecisionsFree, NoActivity

-----------------------------------------------------------------------------
(* What the operators of a step do to the status of an activity.            *)

LEMMA StoppedStatus ==
  ASSUME NEW a, NEW s, "status" \in DOMAIN a
  PROVE  Stopped(a, s).status = s /\ "status" \in DOMAIN Stopped(a, s)
  BY DEF Stopped

LEMMA CreatedStatus ==
  ASSUME NEW w, NEW at, NEW deadline
  PROVE  /\ CreateActivity(w, at, deadline).status = "active"
         /\ "status" \in DOMAIN CreateActivity(w, at, deadline)
  BY DEF CreateActivity

(* An activity that is paused after the admissions was proposed like that.  *)
LEMMA AdmittedStatus ==
  ASSUME NEW acts, NEW kind, HaveStatus(acts)
  PROVE  /\ HaveStatus(Admitted(acts, kind))
         /\ \A g \in Agents : Admitted(acts, kind)[g].status = "paused" => acts[g].status = "paused"
  <1> SUFFICES ASSUME NEW g \in Agents
               PROVE  /\ "status" \in DOMAIN Admitted(acts, kind)[g]
                      /\ Admitted(acts, kind)[g].status = "paused" => acts[g].status = "paused"
    BY DEF HaveStatus
  <1>1. Admitted(acts, kind)[g] \in {acts[g], Stopped(acts[g], "queued"), Stopped(acts[g], "blocked")}
    BY DEF Admitted
  <1> QED
    BY <1>1, StoppedStatus DEF HaveStatus

(* A reservation starts or is blocked; nothing else changes.                *)
LEMMA StartedStatus ==
  ASSUME NEW a, "status" \in DOMAIN a
  PROVE  /\ "status" \in DOMAIN StartReady(a)
         /\ StartReady(a).status = "paused" => a.status = "paused"
  <1>1. StartReady(a) = a \/ \E s \in {"active", "blocked"} : 
          StartReady(a).status = s /\ "status" \in DOMAIN StartReady(a)
    BY CreatedStatus, StoppedStatus DEF StartReady
  <1> QED
    BY <1>1

(* The advance pauses nothing.                                              *)
LEMMA AdvancedStatus ==
  ASSUME NEW acts, NEW to, HaveStatus(acts)
  PROVE  /\ HaveStatus(Advanced(acts, to))
         /\ \A g \in Agents : Advanced(acts, to)[g].status = "paused" => acts[g].status = "paused"
  <1> SUFFICES ASSUME NEW g \in Agents
               PROVE  /\ "status" \in DOMAIN Advanced(acts, to)[g]
                      /\ Advanced(acts, to)[g].status = "paused" => acts[g].status = "paused"
    BY DEF HaveStatus
  <1> DEFINE n == NextActivityBoundary(acts[g], to)
  <1> HIDE DEF n
  <1>1. \/ Advanced(acts, to)[g] = acts[g]
        \/ Advanced(acts, to)[g] = Stopped(acts[g], "completed")
        \/ Advanced(acts, to)[g] = [acts[g] EXCEPT !.updated = to, !.next = n]
        \/ Advanced(acts, to)[g] = [acts[g] EXCEPT !.updated = to]
    BY DEF Advanced, n
  <1>2. "status" \in DOMAIN acts[g]
    BY DEF HaveStatus
  <1> QED
    BY <1>1, <1>2, StoppedStatus

(* A decision point of an occupied agent pauses the activity or is dropped. *)
LEMMA SettledStatus ==
  ASSUME NEW acts, NEW points, HaveStatus(acts)
  PROVE  /\ HaveStatus(Settled(acts, points))
         /\ \A g \in Agents : Settled(acts, points)[g].status = "paused" =>
                                g \in points \/ acts[g].status = "paused"
  <1> SUFFICES ASSUME NEW g \in Agents
               PROVE  /\ "status" \in DOMAIN Settled(acts, points)[g]
                      /\ Settled(acts, points)[g].status = "paused" =>
                           g \in points \/ acts[g].status = "paused"
    BY DEF HaveStatus
  <1>1. \/ Settled(acts, points)[g] = acts[g]
        \/ g \in points /\ Settled(acts, points)[g] = Stopped(acts[g], "paused")
    BY DEF Settled
  <1> QED
    BY <1>1, StoppedStatus DEF HaveStatus

(* A promotion touches only what waits, and what is committed is neither    *)
(* active nor paused unless it was so before the promotion.                 *)
LEMMA CommittedStatus ==
  ASSUME NEW acts, HaveStatus(acts), NEW g \in Agents, NEW s \in {"active", "paused"},
         Kept(Promoted(acts)[g]).status = s
  PROVE  acts[g].status = s
  <1>1. \/ Promoted(acts)[g] = acts[g]
        \/ Promoted(acts)[g] = [acts[g] EXCEPT !.status = "ready"]
    BY DEF Promoted
  <1>2. Kept(Promoted(acts)[g]) \in {Promoted(acts)[g], NoActivity}
    BY DEF Kept
  <1>3. NoActivity.status # s
    BY DEF NoActivity
  <1>4. CASE Promoted(acts)[g] = [acts[g] EXCEPT !.status = "ready"]
    <2>1. Promoted(acts)[g].status = "ready"
      BY <1>4 DEF HaveStatus
    <2> QED
      BY <2>1, <1>2, <1>3
  <1> QED
    BY <1>1, <1>2, <1>3, <1>4

LEMMA CommittedHaveStatus ==
  ASSUME NEW acts, HaveStatus(acts), NEW g \in Agents
  PROVE  "status" \in DOMAIN Kept(Promoted(acts)[g])
  BY DEF Kept, Promoted, NoActivity, HaveStatus

-----------------------------------------------------------------------------
(* The invariant is preserved, one lemma for each action.                   *)

(* Whoever is paused has a decision point and must act, so what is prepared *)
(* for him has just been planned and is not paused.                         *)
LEMMA PrepareHolds ==
  ASSUME IInv, NEW acting \in Actors, Prepare(acting)
  PROVE  IInv'
  <1> DEFINE started == [g \in Agents |-> StartReady(activities[g])]
             Planned(choice) == [g \in Agents |-> IF g \in acting THEN Onset(choice[g]) ELSE started[g]]
  <1>1. PICK choice \in Plans(acting) :
          candidate' = [activities |-> Admitted(Planned(choice), Admissions(Planned(choice), acting).kind),
                        fresh |-> acting,
                        started |-> Reserved,
                        unstarted |-> {g \in Reserved : started[g].status = "blocked"},
                        cancelled |-> Replaced(acting)]
    BY DEF Prepare
  <1>2. phase' = "prepared" /\ UNCHANGED world
    BY DEF Prepare
  <1>3. acting \subseteq Agents /\ Eligible \ External \subseteq acting
    BY ActivitiesAssumption DEF Actors, Eligible
  <1>4. HaveStatus(Planned(choice))
    BY CreatedStatus, StartedStatus DEF IInv, HaveStatus, Onset
  <1>5. ASSUME NEW g \in Agents \ External
        PROVE  Planned(choice)[g].status # "paused"
    <2>1. CASE g \in acting
      BY <2>1, CreatedStatus DEF Onset
    <2>2. CASE g \notin acting
      <3>1. activities[g].status # "paused"
        BY <2>2, <1>3 DEF IInv, PausedMayDecide, Eligible
      <3> QED
        BY <3>1, <2>2, StartedStatus DEF IInv, HaveStatus
    <2> QED
      BY <2>1, <2>2
  <1> DEFINE acts == Planned(choice)
             kind == Admissions(acts, acting).kind
  <1>6. /\ candidate'.activities = Admitted(acts, kind)
        /\ candidate'.fresh = acting /\ candidate'.unstarted \subseteq Agents
    BY <1>1 DEF Reserved
  <1> HIDE DEF acts, kind
  <1>7. PreparedHolds'
    <2>1. HaveStatus(Admitted(acts, kind))
      BY <1>4, AdmittedStatus DEF acts
    <2>2. \A g \in Agents \ External : Admitted(acts, kind)[g].status # "paused"
      BY <1>4, <1>5, AdmittedStatus DEF acts
    <2> QED
      BY <2>1, <2>2, <1>3, <1>6 DEF PreparedHolds, HaveStatus
  <1> QED
    BY <1>2, <1>7 DEF IInv, HaveStatus, AdvancedHolds, PausedMayDecide, DecisionsFree, world

(* What an agent decides: to end, pause or replace what is active, and to   *)
(* replace it by something it may do.                                       *)
LEMMA ReactionDecided ==
  ASSUME NEW r \in Reactions, NEW g \in Agents
  PROVE  /\ r[g].kind \in {"pause", "cancel", "replace"} => candidate.activities[g].status = "active"
         /\ r[g].kind = "replace" => r[g].choice \in Works[g]
  <1>1. r[g] \in Decisions(g)
    BY DEF Reactions
  <1>2. CASE r[g] = [kind |-> "none"] \/ r[g] = [kind |-> "continue"]
    BY <1>2
  <1>3. CASE g \in Asked /\ r[g] \in [kind : {"replace"}, choice : Works[g]]
    BY <1>3 DEF Asked
  <1>4. CASE g \in Asked /\ r[g] \in [kind : {"pause", "cancel"}]
    BY <1>4 DEF Asked
  <1> QED
    BY <1>1, <1>2, <1>3, <1>4 DEF Decisions

(* A reaction that pauses is the only source of a new pause, and it comes   *)
(* with a decision point.                                                   *)
LEMMA CompleteHolds ==
  ASSUME IInv, Complete
  PROVE  IInv'
  <1>1. phase = "prepared" /\ phase' = "advanced" /\ UNCHANGED world
    BY DEF Complete
  <1>2. PICK r \in Reactions :
          LET fresh == candidate.fresh \cup Reacting(r, {"replace"})
              proposed == ProposedAgain(r)
              plan == Admissions(proposed, fresh)
              admitted == Admitted(proposed, plan.kind)
              to == SelectTemporalBoundary(admitted)
              due == Due(admitted, to)
              advanced == Advanced(admitted, to)
              woken == {g \in Agents : Timers[g] = to}
              deferred == {g \in fresh : plan.kind[g] \in {"queue", "reject"}}
              rivals == {g \in Agents \cap plan.rivals : admitted[g].status \notin {"none", "queued"}}
          IN candidate' =
               [activities |-> advanced, fresh |-> fresh, to |-> to, due |-> due,
                kept |-> Reacting(r, {"continue"}),
                started |-> candidate.started, unstarted |-> candidate.unstarted,
                cancelled |-> candidate.cancelled,
                queued |-> {g \in fresh : plan.kind[g] = "queue"},
                resolving |-> ((((fresh \ deferred) \cup rivals) \ woken) \cup due),
                points |-> {g \in Agents : advanced[g].status = "completed"} \cup woken
                             \cup {g \in fresh : plan.kind[g] = "reject"} \cup candidate.unstarted
                             \cup Reacting(r, {"pause", "cancel"})]
    BY DEF Complete
  <1> DEFINE fresh == candidate.fresh \cup Reacting(r, {"replace"})
             proposed == ProposedAgain(r)
             plan == Admissions(proposed, fresh)
             admitted == Admitted(proposed, plan.kind)
             to == SelectTemporalBoundary(admitted)
             advanced == Advanced(admitted, to)
  <1>3. PreparedHolds /\ HaveStatus(candidate.activities)
        /\ candidate.fresh \subseteq Agents /\ candidate.unstarted \subseteq Agents
    BY <1>1 DEF IInv, PreparedHolds
  <1>4. fresh \subseteq Agents /\ \A kinds : Reacting(r, kinds) \subseteq Agents
    BY <1>3 DEF Reacting
  <1>5. HaveStatus(proposed)
    <2> SUFFICES ASSUME NEW g \in Agents
                 PROVE  "status" \in DOMAIN proposed[g]
      BY DEF HaveStatus
    <2>1. "status" \in DOMAIN candidate.activities[g]
      BY <1>3 DEF HaveStatus
    <2> QED
      BY <2>1, StoppedStatus, CreatedStatus DEF ProposedAgain, Onset
  <1>6. ASSUME NEW g \in Agents \ External, proposed[g].status = "paused"
        PROVE  r[g].kind = "pause"
    <2>1. /\ "status" \in DOMAIN candidate.activities[g]
          /\ candidate.activities[g].status # "paused"
      BY <1>1, <1>3 DEF PreparedHolds, HaveStatus
    <2> QED
      BY <1>6, <2>1, StoppedStatus, CreatedStatus DEF ProposedAgain, Onset
  <1>7. /\ candidate'.activities = advanced
        /\ {"activities", "points", "started"} \subseteq DOMAIN candidate'
        /\ candidate'.due = Due(admitted, to)
        /\ candidate'.points \subseteq Agents /\ candidate'.resolving \subseteq Agents
        /\ \A g \in Agents : r[g].kind = "pause" => g \in candidate'.points
    <2>1. Due(admitted, to) \subseteq Agents
      BY DEF Due
    <2> HIDE DEF plan, admitted, to, advanced
    <2> QED
      BY <1>2, <1>3, <1>4, <2>1 DEF plan, admitted, to, advanced, Reacting
  <1> HIDE DEF proposed, plan, admitted, to, advanced
  <1>8. HaveStatus(admitted)
        /\ \A g \in Agents : admitted[g].status = "paused" => proposed[g].status = "paused"
    BY <1>5, AdmittedStatus DEF admitted
  <1>9. HaveStatus(advanced)
        /\ \A g \in Agents : advanced[g].status = "paused" => admitted[g].status = "paused"
    BY <1>8, AdvancedStatus DEF advanced
  <1>10. candidate'.due \subseteq Agents
    BY <1>7 DEF Due
  <1>11. AdvancedHolds'
    BY <1>6, <1>7, <1>8, <1>9, <1>10 DEF AdvancedHolds, HaveStatus
  <1> QED
    BY <1>1, <1>11 DEF IInv, HaveStatus, PreparedHolds, PausedMayDecide, DecisionsFree, world

(* Truth pauses nothing and takes no decision point away.                   *)
LEMMA ResolveHolds ==
  ASSUME IInv, Resolve
  PROVE  IInv'
  <1>1. phase = "advanced" /\ phase' = "resolved" /\ UNCHANGED world
    BY DEF Resolve
  <1>2. AdvancedHolds /\ HaveStatus(candidate.activities)
        /\ {"activities", "points", "started"} \subseteq DOMAIN candidate
        /\ candidate.points \subseteq Agents /\ candidate.resolving \subseteq Agents
    BY <1>1 DEF IInv, AdvancedHolds
  <1>3. PICK outcome \in [candidate.resolving -> {"continuing", "succeeded", "failed"}] :
          LET ends == {g \in candidate.resolving :
                         /\ candidate.activities[g].status = "active"
                         /\ \/ outcome[g] = "failed"
                            \/ outcome[g] = "succeeded" /\ candidate.activities[g].work.duration = 0}
              result == [continuing |-> "active", succeeded |-> "completed", failed |-> "failed"]
          IN candidate' =
               [candidate EXCEPT
                  !.activities = [g \in Agents |-> IF g \in ends THEN Stopped(@[g], result[outcome[g]]) ELSE @[g]],
                  !.points = @ \cup ends,
                  !.started = @ \ (ends \ candidate.fresh)]
    BY DEF Resolve
  <1> DEFINE ends == {g \in candidate.resolving :
                        /\ candidate.activities[g].status = "active"
                        /\ \/ outcome[g] = "failed"
                           \/ outcome[g] = "succeeded" /\ candidate.activities[g].work.duration = 0}
             result == [continuing |-> "active", succeeded |-> "completed", failed |-> "failed"]
             acts == [g \in Agents |-> IF g \in ends THEN Stopped(candidate.activities[g], result[outcome[g]])
                                       ELSE candidate.activities[g]]
  <1>4. ends \subseteq candidate.resolving
        /\ \A g \in ends : result[outcome[g]] \in {"completed", "failed"}
    OBVIOUS
  <1>5. candidate' = [candidate EXCEPT !.activities = acts, !.points = candidate.points \cup ends,
                                       !.started = candidate.started \ (ends \ candidate.fresh)]
    BY <1>3
  <1> HIDE DEF ends, acts, result
  <1>6. /\ candidate'.activities = acts /\ candidate'.points = candidate.points \cup ends
        /\ candidate'.due = candidate.due /\ candidate'.resolving = candidate.resolving
        /\ DOMAIN candidate' = DOMAIN candidate
    BY <1>2, <1>5
  <1>7. ASSUME NEW g \in Agents
        PROVE  /\ "status" \in DOMAIN acts[g]
               /\ acts[g].status = "paused" => candidate.activities[g].status = "paused"
    <2>1. acts[g] = candidate.activities[g]
          \/ \E s \in {"completed", "failed"} : acts[g] = Stopped(candidate.activities[g], s)
      BY <1>4 DEF acts
    <2> QED
      BY <2>1, <1>2, StoppedStatus DEF HaveStatus
  <1>8. AdvancedHolds'
    BY <1>1, <1>2, <1>4, <1>6, <1>7 DEF AdvancedHolds, HaveStatus
  <1> QED
    BY <1>1, <1>8 DEF IInv, HaveStatus, PreparedHolds, PausedMayDecide, DecisionsFree, world

(* What is committed: every pause of the step is a decision point, and a    *)
(* decision point is kept by those only whose activity does not go on.      *)
LEMMA FinishHolds ==
  ASSUME IInv, Finish
  PROVE  IInv'
  <1>1. phase = "resolved" /\ phase' = "idle"
    BY DEF Finish
  <1>2. /\ HaveStatus(candidate.activities)
        /\ candidate.points \subseteq Agents /\ candidate.due \subseteq Agents
        /\ \A g \in Agents \ External :
             candidate.activities[g].status = "paused" => g \in candidate.points
    BY <1>1 DEF IInv, AdvancedHolds
  <1>3. PICK noticed \in SUBSET Noticeable :
          LET pausing == noticed \ Broken
              acts == [g \in Agents |->
                         IF g \in Broken THEN Stopped(candidate.activities[g], "blocked")
                         ELSE IF g \in pausing THEN Stopped(candidate.activities[g], "paused")
                         ELSE candidate.activities[g]]
              points == candidate.points \cup Broken \cup pausing
              settled == Settled(acts, points)
          IN \/ UNCHANGED world
             \/ /\ activities' = [g \in Agents |-> Kept(Promoted(settled)[g])]
                /\ decisions' = Retained(settled, points)
    BY DEF Finish
  <1> DEFINE pausing == noticed \ Broken
             acts == [g \in Agents |->
                        IF g \in Broken THEN Stopped(candidate.activities[g], "blocked")
                        ELSE IF g \in pausing THEN Stopped(candidate.activities[g], "paused")
                        ELSE candidate.activities[g]]
             points == candidate.points \cup Broken \cup pausing
             settled == Settled(acts, points)
  <1>4. CASE UNCHANGED world
    BY <1>1, <1>4 DEF IInv, HaveStatus, PreparedHolds, AdvancedHolds, PausedMayDecide, DecisionsFree, world
  <1>5. CASE /\ activities' = [g \in Agents |-> Kept(Promoted(settled)[g])]
             /\ decisions' = Retained(settled, points)
    <2>1. points \subseteq Agents
      BY <1>2 DEF Broken, Noticeable
    <2>2. ASSUME NEW g \in Agents
          PROVE  /\ "status" \in DOMAIN acts[g]
                 /\ g \notin External /\ acts[g].status = "paused" => g \in points
      <3>1. "status" \in DOMAIN candidate.activities[g]
        BY <1>2 DEF HaveStatus
      <3>2. CASE g \in Broken
        BY <3>1, <3>2, StoppedStatus
      <3>3. CASE g \notin Broken /\ g \in pausing
        BY <3>1, <3>3, StoppedStatus
      <3>4. CASE g \notin Broken /\ g \notin pausing
        BY <3>1, <3>4, <1>2
      <3> QED
        BY <3>2, <3>3, <3>4
    <2> HIDE DEF acts, points
    <2>3. HaveStatus(acts)
      BY <2>2 DEF HaveStatus
    <2>4. /\ HaveStatus(settled)
          /\ \A g \in Agents : settled[g].status = "paused" => g \in points \/ acts[g].status = "paused"
      BY <2>3, SettledStatus
    <2> HIDE DEF settled
    <2>5. HaveStatus(activities')
      BY <1>5, <2>4, CommittedHaveStatus DEF HaveStatus
    <2>6. PausedMayDecide'
      <3> SUFFICES ASSUME NEW g \in Agents \ External, activities'[g].status = "paused"
                   PROVE  g \in decisions'
        BY DEF PausedMayDecide
      <3>1. settled[g].status = "paused"
        BY <1>5, <2>4, CommittedStatus
      <3> QED
        BY <1>5, <2>2, <2>4, <3>1 DEF Retained
    <2>7. DecisionsFree'
      <3> SUFFICES ASSUME NEW g \in decisions', activities'[g].status = "active"
                   PROVE  FALSE
        BY DEF DecisionsFree
      <3>1. g \in Agents /\ settled[g].status # "active"
        BY <1>5, <2>1 DEF Retained
      <3> QED
        BY <1>5, <2>4, <3>1, CommittedStatus
    <2> QED
      BY <1>1, <2>5, <2>6, <2>7 DEF IInv, HaveStatus, PreparedHolds, AdvancedHolds
  <1> QED
    BY <1>3, <1>4, <1>5

LEMMA StepHolds == IInv /\ [Next]_vars => IInv'
  <1> SUFFICES ASSUME IInv, [Next]_vars
               PROVE  IInv'
    OBVIOUS
  <1>1. CASE \E acting \in Actors : Prepare(acting)
    BY <1>1, PrepareHolds
  <1>2. CASE \E acting \in Actors : PreparationFails(acting)
    BY <1>2 DEF PreparationFails, IInv, HaveStatus, PreparedHolds, AdvancedHolds, PausedMayDecide,
                DecisionsFree, world
  <1>3. CASE Complete
    BY <1>3, CompleteHolds
  <1>4. CASE Resolve
    BY <1>4, ResolveHolds
  <1>5. CASE Finish
    BY <1>5, FinishHolds
  <1>6. CASE UNCHANGED vars
    BY <1>6 DEF vars, IInv, HaveStatus, PreparedHolds, AdvancedHolds, PausedMayDecide, DecisionsFree
  <1> QED
    BY <1>1, <1>2, <1>3, <1>4, <1>5, <1>6 DEF Next

LEMMA Inductive == Spec => []IInv
  BY InitHolds, StepHolds, PTL DEF Spec

-----------------------------------------------------------------------------
(* settleActivityContexts pauses the activity of an agent with a decision   *)
(* point or drops the point: no committed step asks an agent to decide      *)
(* whose activity goes on.                                                  *)
THEOREM DecisionPointsAreFree == Spec => []DecisionsFree
  <1>1. IInv => DecisionsFree
    BY DEF IInv
  <1> QED
    BY <1>1, Inductive, PTL

(* Nothing in temporal.ts resumes a paused activity by itself; its agent is *)
(* asked to decide in the step that follows the pause, whichever handler    *)
(* paused it, unless a participant lets the decision pass.                  *)
THEOREM PausedAgentsDecide == Spec => []PausedMayDecide
  <1>1. IInv => PausedMayDecide
    BY DEF IInv
  <1> QED
    BY <1>1, Inductive, PTL
=============================================================================
