------------------------------ MODULE WorldHost ------------------------------
(***************************************************************************)
(* WorldHost (server/world-host.ts) for one world instance: the persisted  *)
(* instance document and the asynchronous work around it.  Handlers run    *)
(* under the instance lock (serialized) and are one action each; what they *)
(* leave running is explicit:                                              *)
(*  - a boundary attempt (executeRunBoundary) works on a private snapshot  *)
(*    of the document, outside the lock, and ends by writing the whole     *)
(*    snapshot back if its run and revision are still the ones it started  *)
(*    from;                                                                *)
(*  - transferControl holds the lock while it awaits the arrival text, and *)
(*    its write fails when the document changed meanwhile;                 *)
(*  - one timer per instance serves both the window deadline and the       *)
(*    realtime tick: arming either replaces the other.                     *)
(* The step engine is external: a commit picks the agents left without a   *)
(* decision point and whether the root activity has ended.  Single-step    *)
(* debugging is not part of this module.                                   *)
(***************************************************************************)
EXTENDS Integers, FiniteSets, Sequences

CONSTANTS
  Agents, Principals,
  Observer,         \* a principal that controls no agent
  maxActiveParticipants,
  runLeaseMaxCommits,
  Environment,      \* the optional events, see below
  \* Bounds
  MaxRevision, MaxRuns, MaxGeneration, MaxSchedulerGeneration, MaxIntents, MaxTitle

ASSUME AgentsAssumption == IsFiniteSet(Agents) /\ IsFiniteSet(Principals) /\ Observer \notin Agents

(***************************************************************************)
(* batch: advance() over two boundaries; realtime, rename, pause: the      *)
(* requests of these names; transfer: control changes hands, and handover: *)
(* even while a window is open; reaction: the engine asks for reactions;   *)
(* crash: the process restarts; overlap: a player submits while a run      *)
(* executes; staleResume: a client resumes a run that is not the newest.   *)
(***************************************************************************)
ASSUME EnvironmentAssumption ==
  Environment \subseteq {"batch", "realtime", "rename", "pause", "transfer", "handover",
                        "reaction", "crash", "overlap", "staleResume"}

ASSUME LimitsAssumption ==
  /\ {maxActiveParticipants, runLeaseMaxCommits, MaxGeneration, MaxSchedulerGeneration, MaxIntents}
       \subseteq Nat \ {0}
  /\ {MaxRevision, MaxRuns, MaxTitle} \subseteq Nat

VARIABLES
  doc,       \* the persisted WorldInstanceDocument
  attempts,  \* executeRunBoundary calls in progress, with their snapshots
  drives,    \* driveRun calls due: from a 0 ms timer (scheduleRun) or from advance()
  timer,     \* timers.get(instanceId)
  arrival,   \* the transferControl that holds the lock, if any
  ticks      \* realtime ticks past their check, waiting for the lock

vars == <<doc, attempts, drives, timer, arrival, ticks>>

-----------------------------------------------------------------------------
(* The document.  An intent is the index of its entry in participantIntents, *)
(* of which the agent is kept.                                             *)

RunStatuses == {"queued", "running", "paused", "awaiting-decision", "awaiting-reaction",
                "preparation-invalidated", "completed", "failed", "budget-paused"}

\* Without awaiting-decision.
BusyButDeciding == {"queued", "running", "paused", "awaiting-reaction", "budget-paused"}

\* Statuses that make advance() refuse to start another run.
Busy == {"queued", "running", "paused", "awaiting-decision", "awaiting-reaction", "budget-paused"}
Executing == {"queued", "running"}
Live == Executing \cup {"awaiting-decision", "awaiting-reaction"}

NoLease == [generation |-> 0, commitCount |-> 0]
NoSubmissions == [a \in Agents |-> 0]
NoWindow == [kind |-> "none", id |-> 0, status |-> "closed", baseRevision |-> 0,
             required |-> {}, submissions |-> NoSubmissions, actions |-> {}]

\* The newest run; createdAt grows along the sequence.
CurrentStatus(d) == IF d.runs = <<>> THEN "none" ELSE d.runs[Len(d.runs)].status

\* The filter on external bindings is missing.
ExternalOfAll(d) == {d.controls[p] : p \in Principals}

External(d) == {d.controls[p] : p \in Principals} \ {Observer}

\* externalDecisionAgentIds: engaged are the agents busy without a decision point.
Required(d) == External(d) \ d.engaged

Submitted(w) == {a \in w.required : w.submissions[a] # 0}
SubmittedIntents(w) == {w.submissions[a] : a \in Submitted(w)}
Complete(w) == w.required \subseteq Submitted(w)

\* A window id no pending timer and no stored window refers to.
NewWindowId == CHOOSE i \in 1..3 : i \notin {doc.window.id, timer.window}

Window(kind, d, required, actions) ==
  [kind |-> kind, id |-> NewWindowId, status |-> "open", baseRevision |-> Len(d.history),
   required |-> required, submissions |-> NoSubmissions, actions |-> actions]

NewRun(requested, status) ==
  [status |-> status, generation |-> 1, requested |-> requested, roots |-> {},
   lease |-> NoLease, committed |-> <<>>]

\* The lease of the old generation is kept.
NextGenerationKeepingLease(run, status) ==
  [run EXCEPT !.status = status, !.generation = @ + 1]

\* The run enters a new generation with the given status and without a lease.
NextGeneration(run, status) ==
  [run EXCEPT !.status = status, !.generation = @ + 1, !.lease = NoLease]

-----------------------------------------------------------------------------
(* Timers, the lock and the store *)

NoTimer == [kind |-> "none", window |-> 0, generation |-> 0]
DeadlineTimer(d) == [kind |-> "deadline", window |-> d.window.id, generation |-> 0]
RealtimeTimer(d) == [kind |-> "realtime", window |-> 0, generation |-> d.schedulerGeneration]

\* Only scheduleRealtime.
RearmedForRealtime(d, t) == IF d.realtime THEN RealtimeTimer(d) ELSE t

\* scheduleWindowDeadline, then scheduleRealtime, over the pending timer t.
Rearmed(d, t) == IF d.realtime THEN RealtimeTimer(d)
                 ELSE IF d.window # NoWindow THEN DeadlineTimer(d) ELSE t

LockFree == arrival = {}

\* persist: any write makes the compare-and-swap of a pending arrival fail.
Persist(d) == doc' = d /\ arrival' = {[a EXCEPT !.raced = TRUE] : a \in arrival}

Due(r) == drives \cup {[run |-> r, caller |-> "timer"]}

(* createInstance: its principal starts as the observer or as an agent.   *)
Init ==
  /\ \E creator \in Principals, start \in Agents \cup {Observer} :
        doc = [title |-> 0, realtime |-> FALSE, schedulerGeneration |-> 1,
               controls |-> [p \in Principals |-> IF p = creator THEN start ELSE Observer],
               engaged |-> {}, history |-> <<>>, runs |-> <<>>, window |-> NoWindow, intents |-> <<>>]
  /\ attempts = {} /\ drives = {} /\ timer = NoTimer /\ arrival = {} /\ ticks = {}

-----------------------------------------------------------------------------
(* advance and the realtime tick *)

\* The locked part of advance() and, unless a run is due, its last lines.
StartRun(requested, pending) ==
  LET required == Required(doc)
      awaited == required # {}
      d == [doc EXCEPT
              !.runs = Append(@, NewRun(requested, IF awaited THEN "awaiting-decision" ELSE "queued")),
              !.window = IF awaited THEN Window("decision", doc, required, {}) ELSE @]
  IN  /\ CurrentStatus(doc) \notin Busy
      /\ Len(doc.runs) < MaxRuns
      /\ Persist(d)
      /\ drives' = IF awaited THEN drives ELSE drives \cup {[run |-> Len(d.runs), caller |-> "advance"]}
      /\ timer' = IF awaited THEN Rearmed(d, pending) ELSE pending
      /\ UNCHANGED attempts

Advance ==
  /\ LockFree
  /\ \E steps \in IF "batch" \in Environment THEN {1, 2} ELSE {1} : StartRun(steps, timer)
  /\ UNCHANGED ticks

\* A refused tick answers 409, which the timer swallows: nothing re-arms it.
TickAdvances(revision, pending) ==
  \/ revision = Len(doc.history) /\ StartRun(1, pending)
  \/ /\ revision # Len(doc.history) \/ CurrentStatus(doc) \in Busy
     /\ timer' = pending
     /\ UNCHANGED <<doc, attempts, drives, arrival>>

(* scheduleRealtime: the check of mode and generation reads the document   *)
(* without the lock; advance() then waits for it.                          *)
RealtimeFires ==
  /\ timer.kind = "realtime"
  /\ IF ~doc.realtime \/ doc.schedulerGeneration # timer.generation
     THEN timer' = NoTimer /\ UNCHANGED <<doc, attempts, drives, arrival, ticks>>
     ELSE IF LockFree
     THEN TickAdvances(Len(doc.history), NoTimer) /\ UNCHANGED ticks
     ELSE /\ ticks' = ticks \cup {Len(doc.history)}
          /\ timer' = NoTimer
          /\ UNCHANGED <<doc, attempts, drives, arrival>>

WaitingTickAdvances ==
  /\ LockFree
  /\ \E revision \in ticks :
        /\ TickAdvances(revision, timer)
        /\ ticks' = ticks \ {revision}

SetRealtime(enabled) ==
  LET d == [doc EXCEPT !.realtime = enabled, !.schedulerGeneration = @ + 1] IN
  /\ "realtime" \in Environment
  /\ LockFree
  /\ doc.schedulerGeneration < MaxSchedulerGeneration
  /\ Persist(d)
  /\ timer' = IF enabled THEN RealtimeTimer(d) ELSE NoTimer
  /\ UNCHANGED <<attempts, drives, ticks>>

(* renameInstance does not take the lock. *)
Rename ==
  /\ "rename" \in Environment
  /\ doc.title < MaxTitle
  /\ Persist([doc EXCEPT !.title = @ + 1])
  /\ UNCHANGED <<attempts, drives, timer, ticks>>

-----------------------------------------------------------------------------
(* Submissions and window deadlines *)

(* submitAction: the agent's intent joins the decision window, which is    *)
(* opened, for a run created if need be, when there is none.  A paused run *)
(* is replaced.  persist() refuses a submission of an agent the window     *)
(* does not require.                                                       *)
SubmitAction(a) ==
  LET status == CurrentStatus(doc)
      replaces == status \in {"paused", "budget-paused"}
      required == IF replaces THEN {a} ELSE Required(doc)
      retired == IF replaces THEN [doc.runs EXCEPT ![Len(doc.runs)].status = "completed"] ELSE doc.runs
      runs == IF status = "awaiting-decision" THEN doc.runs
              ELSE Append(retired, NewRun(0, "awaiting-decision"))
      discarded == \/ replaces
                   \/ status = "preparation-invalidated" /\ doc.window.status = "resolving"
      window == IF discarded \/ doc.window = NoWindow
                THEN Window("decision", doc, required, {}) ELSE doc.window
      filled == [window EXCEPT !.submissions[a] = Len(doc.intents) + 1]
      run == Len(runs)
      renewed == [NextGeneration(runs[run], "queued") EXCEPT !.roots = SubmittedIntents(filled)]
      d == [doc EXCEPT !.runs = IF Complete(filled) THEN [runs EXCEPT ![run] = renewed] ELSE runs,
                       !.window = filled,
                       !.intents = Append(@, a)]
  IN
  /\ LockFree
  /\ a \in External(doc) \cap required
  /\ status \in Executing => "overlap" \in Environment
  /\ window.kind = "decision" /\ window.status = "open"
  /\ a \in window.required /\ window.submissions[a] = 0
  /\ Len(doc.intents) < MaxIntents /\ run <= MaxRuns /\ runs[run].generation < MaxGeneration
  /\ Persist(d)
  /\ IF Complete(filled) THEN drives' = Due(run) /\ UNCHANGED timer
                         ELSE UNCHANGED drives /\ timer' = DeadlineTimer(d)
  /\ UNCHANGED <<attempts, ticks>>

(* submitAction and submitReaction with a known submissionId change        *)
(* nothing, but arm the deadline of the stored window, whichever window    *)
(* the first submission was for.                                           *)
Resubmit(a) ==
  /\ LockFree
  /\ a \in External(doc) /\ doc.window # NoWindow
  /\ doc.window.submissions[a] # 0 \/ \E i \in DOMAIN doc.intents : doc.intents[i] = a
  /\ timer' = DeadlineTimer(doc)
  /\ UNCHANGED <<doc, attempts, drives, arrival, ticks>>

(* submitReaction *)
SubmitReaction(a) ==
  LET n == Len(doc.runs)
      filled == [doc.window EXCEPT !.submissions[a] = 1]
      d == [doc EXCEPT !.window = filled,
                       !.runs[n] = IF Complete(filled) THEN NextGeneration(@, "queued") ELSE @]
  IN
  /\ LockFree
  /\ doc.window.kind = "reaction" /\ doc.window.status = "open"
  /\ CurrentStatus(doc) = "awaiting-reaction"
  /\ a \in External(doc) \cap doc.window.required
  /\ doc.window.submissions[a] = 0
  /\ doc.runs[n].generation < MaxGeneration
  /\ Persist(d)
  /\ IF Complete(filled) THEN drives' = Due(n) /\ UNCHANGED timer
                         ELSE UNCHANGED drives /\ timer' = DeadlineTimer(d)
  /\ UNCHANGED <<attempts, ticks>>

\* What the deadline checks under the lock before it queues the run.
DeadlineApplies(window) ==
  /\ doc.window.id = window /\ doc.window.status = "open"
  /\ CurrentStatus(doc) = IF doc.window.kind = "decision" THEN "awaiting-decision" ELSE "awaiting-reaction"

(* scheduleWindowDeadline: the run goes on with the submissions there are. *)
(* The window stays open until driveRun takes the run up.                  *)
DeadlineFires ==
  LET n == Len(doc.runs)
      roots == IF doc.window.kind = "decision" THEN SubmittedIntents(doc.window) ELSE doc.runs[n].roots
  IN
  /\ timer.kind = "deadline"
  /\ LockFree
  /\ timer' = NoTimer
  /\ IF DeadlineApplies(timer.window)
     THEN /\ doc.runs[n].generation < MaxGeneration
          /\ Persist([doc EXCEPT !.runs[n] = [NextGeneration(@, "queued") EXCEPT !.roots = roots]])
          /\ drives' = Due(n)
     ELSE UNCHANGED <<doc, arrival, drives>>
  /\ UNCHANGED <<attempts, ticks>>

-----------------------------------------------------------------------------
(* Boundary attempts *)

(* driveRun, up to the first await of executeRunBoundary *)
StartAttempt(drive) ==
  LET run == doc.runs[drive.run]
      lease == IF run.lease = NoLease THEN [generation |-> run.generation, commitCount |-> 0] ELSE run.lease
      d == [doc EXCEPT !.runs[drive.run] = [@ EXCEPT !.status = "running", !.lease = lease],
                       !.window.status = IF @ = "open" THEN "resolving" ELSE @]
  IN
  /\ LockFree
  /\ drive.run \in DOMAIN doc.runs /\ run.status = "queued"
  /\ Persist(d)
  /\ attempts' = attempts \cup {[run |-> drive.run, generation |-> run.generation,
                                  caller |-> drive.caller, snapshot |-> d]}
  /\ drives' = drives \ {drive}
  /\ UNCHANGED <<timer, ticks>>

(* driveRun finds the run no longer queued; advance() still ends by arming *)
(* the timers.                                                             *)
SkipDrive(drive) ==
  /\ LockFree
  /\ drive.run \in DOMAIN doc.runs => doc.runs[drive.run].status # "queued"
  /\ drives' = drives \ {drive}
  /\ timer' = IF drive.caller = "advance" THEN Rearmed(doc, timer) ELSE timer
  /\ UNCHANGED <<doc, attempts, arrival, ticks>>

\* driveRun without its loop.
AttemptEndsOnce(attempt, d) ==
  /\ attempts' = attempts \ {attempt}
  /\ timer' = Rearmed(d, timer)
  /\ UNCHANGED <<drives, ticks>>

\* The loop of driveRun after an attempt that left the document d.
AttemptEnds(attempt, d) ==
  /\ attempts' = attempts \ {attempt}
  /\ IF attempt.run \in DOMAIN d.runs /\ d.runs[attempt.run].status = "queued"
     THEN /\ drives' = drives \cup {[run |-> attempt.run, caller |-> attempt.caller]}
          /\ UNCHANGED timer
     ELSE UNCHANGED drives /\ timer' = Rearmed(d, timer)
  /\ UNCHANGED ticks

SameGeneration(attempt) ==
  attempt.run \in DOMAIN doc.runs /\ doc.runs[attempt.run].generation = attempt.generation

\* The fence looks at the revision only.
CurrentRevision(attempt) == Len(doc.history) = Len(attempt.snapshot.history)

\* The run, its generation and the revision are those the attempt started from.
Current(attempt) ==
  /\ SameGeneration(attempt)
  /\ doc.runs[attempt.run].status = "running"
  /\ Len(doc.history) = Len(attempt.snapshot.history)

(* executeRunBoundary: an attempt that lost its run leaves no trace, be it *)
(* at the fence before its write or in its error handler.                  *)
AttemptFenced(attempt) ==
  /\ ~Current(attempt)
  /\ AttemptEnds(attempt, doc)
  /\ UNCHANGED <<doc, arrival>>

\* Every boundary without a window repeats the root intents.
ExternalActionsRepeated(s, r) ==
  CASE s.window.kind = "reaction" -> s.window.actions
    [] s.window.kind = "decision" -> SubmittedIntents(s.window)
    [] OTHER -> s.runs[r].roots

\* request.externalActions: what the boundary of a snapshot executes.
ExternalActions(s, r) ==
  CASE s.window.kind = "reaction" -> s.window.actions
    [] s.window.kind = "decision" -> SubmittedIntents(s.window)
    [] OTHER -> IF s.runs[r].committed = <<>> THEN s.runs[r].roots ELSE {}

(* The engine refuses a boundary unless each external agent with a decision *)
(* to take either acts or idles (an answer missing from the window), and    *)
(* unless the agents that act are external.                                *)
Supplied(s, r) ==
  LET acting == {s.intents[i] : i \in ExternalActions(s, r)} IN
  s.window.kind # "reaction" =>
    /\ Required(s) \subseteq acting \cup s.window.required
    /\ acting \subseteq External(s)

(* executeRunBoundary: the preparation asks external agents for reactions. *)
AwaitReactions(attempt, required) ==
  LET s == attempt.snapshot
      window == Window("reaction", s, required, ExternalActions(s, attempt.run))
      d == [s EXCEPT !.window = window, !.runs[attempt.run].status = "awaiting-reaction"]
  IN
  /\ "reaction" \in Environment
  /\ s.window.kind # "reaction"
  /\ required # {} /\ required \subseteq External(s)
  /\ Supplied(s, attempt.run)
  /\ Current(attempt)
  /\ Persist(d)
  /\ AttemptEnds(attempt, d)

\* The run after a commit, by the order of the tests in executeRunBoundary.
NextStatus(run, rootComplete, required, wallTimeUp) ==
  CASE run.requested # 0 /\ Len(run.committed) >= run.requested -> "completed"
    [] run.requested = 0 /\ rootComplete -> "completed"
    [] required # {} -> "awaiting-decision"
    [] run.lease.commitCount >= runLeaseMaxCommits \/ wallTimeUp -> "budget-paused"
    [] OTHER -> "queued"

\* The run records the revision it started from.
SteppedRecordingSource(s, r, engaged, rootComplete, wallTimeUp) ==
  LET required == External(s) \ engaged
      run == [s.runs[r] EXCEPT !.committed = Append(@, Len(s.history)), !.lease.commitCount = @ + 1]
      stepped == [s EXCEPT !.history = Append(@, ExternalActions(s, r)), !.engaged = engaged,
                           !.runs[r] = [run EXCEPT !.status = "completed"]]
  IN [stepped EXCEPT !.window = NoWindow]

(* The document an attempt wants to write: its snapshot, one step later.   *)
(* A completed participant run hands over to a new run when somebody has   *)
(* to decide.  The agents of the world are fixed: the policy bindings of   *)
(* agents the step created or removed (2039 to 2050) are left out.         *)
Stepped(s, r, engaged, rootComplete, wallTimeUp) ==
  LET history == Append(s.history, ExternalActions(s, r))
      required == External(s) \ engaged
      run == [s.runs[r] EXCEPT !.committed = Append(@, Len(history)), !.lease.commitCount = @ + 1]
      status == NextStatus(run, rootComplete, required, wallTimeUp)
      stepped == [s EXCEPT !.history = history, !.engaged = engaged,
                           !.runs[r] = [run EXCEPT !.status = status]]
      handsOver == status = "completed" /\ run.requested = 0 /\ required # {}
      opens == handsOver \/ status = "awaiting-decision"
  IN [stepped EXCEPT
        !.runs = IF handsOver THEN Append(@, NewRun(0, "awaiting-decision")) ELSE @,
        !.window = IF opens THEN Window("decision", stepped, required, {}) ELSE NoWindow]

(* executeRunBoundary: the fenced write of the whole snapshot *)
CommitAttempt(attempt) ==
  \E engaged \in SUBSET Agents, rootComplete, wallTimeUp \in BOOLEAN :
    LET d == Stepped(attempt.snapshot, attempt.run, engaged, rootComplete, wallTimeUp) IN
    /\ Len(doc.history) < MaxRevision
    /\ Supplied(attempt.snapshot, attempt.run)
    /\ Current(attempt)
    /\ Len(d.runs) <= MaxRuns
    /\ Persist(d)
    /\ AttemptEnds(attempt, d)

\* The error handler leaves the window.
FailAttemptKeepingWindow(attempt) ==
  \E status \in {"failed", "paused", "preparation-invalidated"} :
    LET d == [doc EXCEPT !.runs[attempt.run].status = status] IN
    /\ SameGeneration(attempt)
    /\ Persist(d)
    /\ AttemptEnds(attempt, d)

(* executeRunBoundary: the error handler writes on the latest document. *)
FailAttempt(attempt) ==
  \E status \in {"failed", "paused", "preparation-invalidated"} :
    LET d == [doc EXCEPT !.runs[attempt.run].status = status, !.window = NoWindow] IN
    /\ SameGeneration(attempt)
    /\ Persist(d)
    /\ AttemptEnds(attempt, d)

-----------------------------------------------------------------------------
(* Controls *)

(* pauseRun *)
Pause(r) ==
  /\ "pause" \in Environment
  /\ LockFree
  /\ r \in DOMAIN doc.runs /\ doc.runs[r].status \in Executing
  /\ doc.runs[r].generation < MaxGeneration
  /\ Persist([doc EXCEPT !.runs[r] = NextGeneration(@, "paused")])
  /\ drives' = drives \ {[run |-> r, caller |-> "timer"]}
  /\ UNCHANGED <<attempts, timer, ticks>>

(* resumeRun: any run in a resumable status, current or not *)
Resume(r) ==
  /\ LockFree
  /\ r \in DOMAIN doc.runs
  /\ doc.runs[r].status \in {"paused", "budget-paused", "preparation-invalidated"}
  /\ r # Len(doc.runs) => "staleResume" \in Environment
  /\ doc.runs[r].generation < MaxGeneration
  /\ Persist([doc EXCEPT !.runs[r] = NextGeneration(@, "queued")])
  /\ drives' = Due(r)
  /\ UNCHANGED <<attempts, timer, ticks>>

(* reconcileActionWindow, over a document whose controls have changed *)
Reconciled(d) ==
  LET n == Len(d.runs)
      required == Required(d)
      window == [d.window EXCEPT !.required = required,
                   !.submissions = [a \in Agents |-> IF a \in required THEN @[a] ELSE 0]]
      Ends(from, to) == [d EXCEPT !.window = NoWindow,
                           !.runs[n].status = IF @ = from THEN to ELSE @]
  IN CASE d.window.kind = "none" -> d
       [] d.window.kind = "reaction" -> Ends("awaiting-reaction", "preparation-invalidated")
       [] d.window.kind = "decision" /\ required = {} -> Ends("awaiting-decision", "completed")
       [] d.window.kind = "decision" /\ required # {}
            /\ Complete(window) /\ CurrentStatus(d) = "awaiting-decision" ->
            [d EXCEPT !.window = [window EXCEPT !.status = "resolving"],
                      !.runs[n] = [NextGeneration(@, "queued") EXCEPT !.roots = SubmittedIntents(window)]]
       [] OTHER -> [d EXCEPT !.window = window]

\* The run reconcileActionWindow asks to schedule.
Queued(d) == IF CurrentStatus(d) = "queued" THEN {Len(d.runs)} ELSE {}

\* What transferControl checks first, and the bounds of this module.
Transferable ==
  /\ "transfer" \in Environment
  /\ doc.window # NoWindow => "handover" \in Environment
  /\ LockFree
  /\ CurrentStatus(doc) \notin Executing
  /\ doc.window.status # "resolving"
  /\ doc.runs # <<>> => doc.runs[Len(doc.runs)].generation < MaxGeneration

(* transferControl to the observer, who may already be one: an open       *)
(* window is reconciled even then.                                         *)
Release(p) ==
  LET d == Reconciled([doc EXCEPT !.controls[p] = Observer]) IN
  /\ Transferable
  /\ Persist(d)
  /\ drives' = drives \cup {[run |-> r, caller |-> "timer"] : r \in Queued(d)}
  /\ UNCHANGED <<attempts, timer, ticks>>

(* transferControl to an agent, up to the await of the arrival text.  It   *)
(* stops the realtime scheduler and cancels the instance's timer.          *)
TakeControl(p, a) ==
  LET others == External([doc EXCEPT !.controls[p] = Observer])
      d == Reconciled([doc EXCEPT !.controls[p] = a])
  IN
  /\ Transferable
  /\ a # doc.controls[p]
  /\ a \notin others
  /\ Cardinality(others) < maxActiveParticipants
  /\ doc.schedulerGeneration < MaxSchedulerGeneration
  /\ arrival' = {[next |-> [d EXCEPT !.realtime = FALSE, !.schedulerGeneration = @ + 1],
                  schedules |-> Queued(d), raced |-> FALSE]}
  /\ timer' = NoTimer
  /\ UNCHANGED <<doc, attempts, drives, ticks>>

\* The transfer writes whatever happened meanwhile.
ArriveUnconditionally ==
  \E a \in arrival :
    /\ arrival' = {}
    /\ doc' = a.next
    /\ drives' = drives \cup {[run |-> r, caller |-> "timer"] : r \in a.schedules}
    /\ UNCHANGED <<attempts, timer, ticks>>

(* transferControl after the await: the write, unless the document changed *)
Arrive ==
  \E a \in arrival :
    /\ arrival' = {}
    /\ IF a.raced THEN UNCHANGED <<doc, drives>>
       ELSE /\ doc' = a.next
            /\ drives' = drives \cup {[run |-> r, caller |-> "timer"] : r \in a.schedules}
    /\ UNCHANGED <<attempts, timer, ticks>>

(* The process dies and a new one starts: the constructor runs             *)
(* restoreSchedule on the stored document.                                 *)
Restart ==
  LET Recovered(run) == IF run.status \in Executing THEN NextGeneration(run, "paused") ELSE run
      realtimes == doc.window.status # "open" /\ doc.realtime
      d == [doc EXCEPT !.runs = [r \in DOMAIN @ |-> Recovered(@[r])],
                       !.schedulerGeneration = IF realtimes THEN @ + 1 ELSE @]
  IN
  /\ "crash" \in Environment
  /\ \A r \in DOMAIN doc.runs : doc.runs[r].generation < MaxGeneration
  /\ doc.schedulerGeneration < MaxSchedulerGeneration
  /\ doc' = d
  /\ timer' = IF doc.window.status = "open" THEN DeadlineTimer(d)
              ELSE IF realtimes THEN RealtimeTimer(d) ELSE NoTimer
  /\ attempts' = {} /\ drives' = {} /\ arrival' = {} /\ ticks' = {}

-----------------------------------------------------------------------------
AttemptStep(attempt) ==
  \/ \E required \in SUBSET Agents : AwaitReactions(attempt, required)
  \/ CommitAttempt(attempt)
  \/ FailAttempt(attempt)
  \/ AttemptFenced(attempt)

DriveStep(drive) == StartAttempt(drive) \/ SkipDrive(drive)

Next ==
  \/ Advance
  \/ \E enabled \in BOOLEAN : SetRealtime(enabled)
  \/ RealtimeFires
  \/ WaitingTickAdvances
  \/ Rename
  \/ \E a \in Agents : \/ SubmitAction(a)
                       \/ Resubmit(a)
                       \/ SubmitReaction(a)
  \/ DeadlineFires
  \/ \E drive \in drives : StartAttempt(drive)
  \/ \E drive \in drives : SkipDrive(drive)
  \/ \E attempt \in attempts, required \in SUBSET Agents : AwaitReactions(attempt, required)
  \/ \E attempt \in attempts : \/ CommitAttempt(attempt)
                               \/ FailAttempt(attempt)
                               \/ AttemptFenced(attempt)
  \/ \E r \in 1..MaxRuns : Pause(r) \/ Resume(r)
  \/ \E p \in Principals : Release(p) \/ \E a \in Agents : TakeControl(p, a)
  \/ Arrive
  \/ Restart

Spec == Init /\ [][Next]_vars

(***************************************************************************)
(* Armed timers fire, a lock waiter gets the lock, model calls end (each   *)
(* is bounded by a timeout and a number of tries), and the code after an   *)
(* await runs.  No request of a client is fair.                            *)
(***************************************************************************)
Fairness ==
  /\ \A r \in 1..MaxRuns : WF_vars(\E drive \in drives : drive.run = r /\ DriveStep(drive))
  /\ \A r \in 1..MaxRuns, g \in 1..MaxGeneration :
        WF_vars(\E t \in attempts : t.run = r /\ t.generation = g /\ AttemptStep(t))
  /\ WF_vars(DeadlineFires)
  /\ WF_vars(RealtimeFires)
  /\ WF_vars(WaitingTickAdvances)
  /\ WF_vars(Arrive)

FairSpec == Spec /\ Fairness

-----------------------------------------------------------------------------
(* Properties *)

Intents == 1..MaxIntents
RunIds == 1..MaxRuns
Generations == 1..MaxGeneration

RunRecords ==
  [status : RunStatuses, generation : Generations, requested : 0..2, roots : SUBSET Intents,
   lease : [generation : 0..MaxGeneration, commitCount : 0..runLeaseMaxCommits],
   committed : Seq(1..MaxRevision)]

Windows ==
  [kind : {"none", "decision", "reaction"}, id : 0..3, status : {"closed", "open", "resolving"},
   baseRevision : 0..MaxRevision, required : SUBSET Agents,
   submissions : [Agents -> 0..MaxIntents], actions : SUBSET Intents]

Documents ==
  [title : 0..MaxTitle, realtime : BOOLEAN, schedulerGeneration : 1..MaxSchedulerGeneration,
   controls : [Principals -> Agents \cup {Observer}], engaged : SUBSET Agents,
   history : Seq(SUBSET Intents), runs : Seq(RunRecords), window : Windows, intents : Seq(Agents)]

Callers == {"timer", "advance"}

(* The type invariant of the document and of the work in progress. *)
TypeOK ==
  /\ doc \in Documents
  /\ \A t \in attempts :
        /\ t.run \in RunIds /\ t.generation \in Generations /\ t.caller \in Callers
        /\ t.snapshot \in Documents
  /\ drives \subseteq [run : RunIds, caller : Callers]
  /\ timer \in [kind : {"none", "deadline", "realtime"}, window : 0..3,
               generation : 0..MaxSchedulerGeneration]
  /\ \A a \in arrival : a.next \in Documents
  /\ Cardinality(arrival) <= 1
  /\ ticks \subseteq 0..MaxRevision

(* Every document a handler writes passes validateWorldInstanceDocument    *)
(* (world-instance-store.ts), so no compare-and-swap throws halfway        *)
(* through a handler: the window belongs to the current revision and asks  *)
(* externally controlled agents only, a lease belongs to the generation of *)
(* its run and exists while the run executes, an agent has one controller. *)
DocumentValid ==
  /\ doc.window # NoWindow =>
        /\ doc.window.baseRevision = Len(doc.history)
        /\ doc.window.required \subseteq External(doc)
        /\ {a \in Agents : doc.window.submissions[a] # 0} \subseteq doc.window.required
  /\ \A r \in DOMAIN doc.runs : LET run == doc.runs[r] IN
        /\ run.lease # NoLease => run.lease.generation = run.generation
        /\ run.status = "running" => run.lease # NoLease
        /\ run.lease.commitCount <= runLeaseMaxCommits
  /\ \A p, q \in Principals :
        p # q /\ doc.controls[p] = doc.controls[q] => doc.controls[p] = Observer

(* The world is strictly serial: at most one run of the instance is        *)
(* queued, running or waiting for players, and it is the newest one, which *)
(* is the run every handler looks at.                                      *)
SingleLiveRun ==
  \A r \in DOMAIN doc.runs : doc.runs[r].status \in Live => r = Len(doc.runs)

(* No run is left behind by the loops, timers, pauses and failures: a      *)
(* running run has an attempt of its generation in progress and a queued   *)
(* run has a driveRun coming, so the state a client sees is going to       *)
(* change.                                                                 *)
NoOrphanRun ==
  \A r \in DOMAIN doc.runs :
    /\ doc.runs[r].status = "running" => \E t \in attempts : t.run = r /\ Current(t)
    /\ doc.runs[r].status = "queued" => \E drive \in drives : drive.run = r

(* A run that awaits its players has an open window that collects what     *)
(* they are asked for, and no window outlives its run: there is one only   *)
(* while the newest run is live, or paused, when the window stays for the  *)
(* resumption (a submission replaces run and window).                      *)
WindowMatchesRun ==
  /\ CurrentStatus(doc) = "awaiting-decision" => doc.window.kind = "decision" /\ doc.window.status = "open"
  /\ CurrentStatus(doc) = "awaiting-reaction" => doc.window.kind = "reaction" /\ doc.window.status = "open"
  /\ doc.window # NoWindow => CurrentStatus(doc) \in Live \cup {"paused"}

(* The places <<run, index>> at which runs list a revision.                 *)
Owners(runs, n) ==
  {o \in (DOMAIN runs) \X (1..MaxRevision) :
     o[2] \in DOMAIN runs[o[1]].committed /\ runs[o[1]].committed[o[2]] = n}

(* Every committed revision is listed by exactly one run, and once: no     *)
(* attempt that was paused, superseded or resumed adds a step of its own.  *)
RevisionsPartitioned == \A n \in 1..Len(doc.history) : Cardinality(Owners(doc.runs, n)) = 1

(* A run only moves forward: its generation never goes back, its committed *)
(* revisions stay, and a pause holds until a client resumes or replaces    *)
(* the run, whatever the attempt that was in progress still does.          *)
RunsMoveForward ==
  [][\A r \in DOMAIN doc.runs : LET run == doc.runs[r] next == doc'.runs[r] IN
        /\ r \in DOMAIN doc'.runs
        /\ next.generation >= run.generation
        /\ SubSeq(next.committed, 1, Len(run.committed)) = run.committed
        /\ run.status = "paused" =>
              next.status \in {"paused", "completed"} \/ next.generation > run.generation]_doc

(* A transfer of control that awaited its arrival text does not undo what  *)
(* was written meanwhile without the lock (renameInstance).                *)
ArrivalKeepsWrites == [][arrival # {} /\ arrival' = {} => doc'.title = doc.title]_vars

Line == INSTANCE WorldLine WITH accepted <- 1..Len(doc.intents), line <- doc.history

(* The document implements WorldLine: steps are only appended, whatever    *)
(* attempts, deadlines, retries and restarts interleave; an accepted       *)
(* intent is never lost and is executed at most once.                      *)
ImplementsWorldLine == Line!LineSpec

(* engine-runtime.md:117: the scheduler generation invalidates the timers  *)
(* from before a pause or a re-enabling, so it must never go back to an    *)
(* earlier one.                                                            *)
SchedulerGenerationGrows == [][doc'.schedulerGeneration >= doc.schedulerGeneration]_doc

(* engine-runtime.md:121: one participant intent corresponds to one        *)
(* WorldRun, so no intent is executed by two steps of the world.           *)
IntentsExecutedOnce ==
  \A m, n \in DOMAIN doc.history : m # n => doc.history[m] \cap doc.history[n] = {}

(* ADR 0062:29: the scheduler is strictly serial for one instance, so no   *)
(* two boundaries are computed, both fit to be written, at the same time.  *)
StrictlySerial == \A t, u \in attempts : Current(t) /\ Current(u) => t = u

(* A run that executes comes to rest: it completes, fails, awaits players  *)
(* or exhausts its lease, although driveRun loops as long as it is queued. *)
RunsSettle == CurrentStatus(doc) \in Executing ~> CurrentStatus(doc) \notin Executing

\* The window of this id waits for players, and its run may still enter
\* another generation (MaxGeneration).
Collecting(id) ==
  /\ doc.window.id = id /\ doc.window.status = "open"
  /\ CurrentStatus(doc) \in {"awaiting-decision", "awaiting-reaction"}
  /\ doc.runs[Len(doc.runs)].generation < MaxGeneration

(* Nobody waits for an absent player for ever: a window that collects      *)
(* submissions is answered, or its deadline comes and the run goes on      *)
(* without the missing ones, also across restarts of the process (ADR      *)
(* 0062:31, engine-runtime.md:115).  So it is as long as nothing takes the *)
(* timer of the instance from the deadline: the code loses it to the       *)
(* realtime tick and to a transfer of control during the window.           *)
WindowsResolve == \A id \in 1..3 : Collecting(id) ~> ~Collecting(id)
=============================================================================
