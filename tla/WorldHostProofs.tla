-------------------------- MODULE WorldHostProofs --------------------------
(***************************************************************************)
(* Theorems about WorldHost, for any agents, principals, limits and bounds *)
(* that satisfy its assumptions: whatever attempts, deadlines, ticks,      *)
(* transfers, pauses, failures and restarts interleave, the document stays *)
(* valid and implements the abstract line of steps, as long as the two     *)
(* events after which the code is known not to keep runs serial stay away. *)
(***************************************************************************)
EXTENDS WorldHost, SequenceTheorems, FiniteSetTheorems, TLAPS

(* No submission while a run executes, no resume of a run that is not the  *)
(* newest.                                                                 *)
SerialEnvironment == "overlap" \notin Environment /\ "staleResume" \notin Environment

-----------------------------------------------------------------------------
(* The inductive invariant: what holds of a document.                       *)

DocTyped(d) ==
  /\ d \in Documents
  /\ Len(d.runs) <= MaxRuns /\ Len(d.history) <= MaxRevision /\ Len(d.intents) <= MaxIntents

(* A lease has room for the commit of a run that executes; the k-th         *)
(* revision of a run is at least k, and none lies ahead.                    *)
RunHolds(run, revision) ==
  /\ run.lease # NoLease => run.lease.generation = run.generation
  /\ run.status = "running" => run.lease # NoLease
  /\ run.status \in Executing => run.lease.commitCount < runLeaseMaxCommits
  /\ \A k \in DOMAIN run.committed : k <= run.committed[k] /\ run.committed[k] <= revision

RunsHold(runs, revision) ==
  \A r \in DOMAIN runs : RunHolds(runs[r], revision) /\ (runs[r].status \in Live => r = Len(runs))

(* WindowMatchesRun and the part of DocumentValid about the window.         *)
WindowFits(window, status, revision, external) ==
  /\ window.kind = "none" => window = NoWindow
  /\ status = "awaiting-decision" => window.kind = "decision" /\ window.status = "open"
  /\ status = "awaiting-reaction" => window.kind = "reaction" /\ window.status = "open"
  /\ window # NoWindow =>
       /\ status \in Live \cup {"paused"}
       /\ window.baseRevision = revision
       /\ window.required \subseteq external
       /\ {a \in Agents : window.submissions[a] # 0} \subseteq window.required
WindowHolds(d) == WindowFits(d.window, CurrentStatus(d), Len(d.history), External(d))

ControlsHold(d) ==
  \A p, q \in Principals : p # q /\ d.controls[p] = d.controls[q] => d.controls[p] = Observer

(* What is going to be executed was accepted and has not been executed: the *)
(* answers in the window, and the roots of the newest run until its first   *)
(* commit.                                                                  *)
ExecutedBy(d) == UNION {d.history[n] : n \in DOMAIN d.history}
Pending(d) == (1 .. Len(d.intents)) \ ExecutedBy(d)
AnswersPending(window, pending) ==
  /\ window.kind = "decision" => SubmittedIntents(window) \subseteq pending
  /\ window.kind = "reaction" => window.actions \subseteq pending
RootsPending(run, pending) == run.committed = <<>> => run.roots \subseteq pending
IntentsHold(d) ==
  /\ ExecutedBy(d) \subseteq 1 .. Len(d.intents)
  /\ AnswersPending(d.window, Pending(d))
  /\ d.runs # <<>> => RootsPending(d.runs[Len(d.runs)], Pending(d))

(* RevisionsPartitioned, without counting.                                  *)
RevisionsHold(d) == \A n \in 1 .. Len(d.history) : \E o : Owners(d.runs, n) = {o}

DocHolds(d) ==
  /\ DocTyped(d)
  /\ RunsHold(d.runs, Len(d.history)) /\ WindowHolds(d) /\ ControlsHold(d)
  /\ IntentsHold(d) /\ RevisionsHold(d)

-----------------------------------------------------------------------------
(* The inductive invariant: what holds of the work around the document.     *)

ArrivalType == [next : Documents, schedules : SUBSET RunIds, raced : BOOLEAN]

WorkTyped ==
  /\ \A t \in attempts :
        /\ t.run \in RunIds /\ t.generation \in Generations /\ t.caller \in Callers
        /\ t.snapshot \in Documents
  /\ drives \subseteq [run : RunIds, caller : Callers]
  /\ timer \in [kind : {"none", "deadline", "realtime"}, window : 0..3,
               generation : 0..MaxSchedulerGeneration]
  /\ arrival \subseteq ArrivalType /\ \A a, b \in arrival : a = b
  /\ ticks \subseteq 0..MaxRevision

(* The parts of a snapshot that a write of it must not set back.            *)
Agree(d, s) ==
  /\ s.runs = d.runs /\ s.history = d.history /\ s.window = d.window
  /\ s.intents = d.intents /\ s.controls = d.controls

(* An attempt whose generation is still that of its run is the only one,    *)
(* its run is the newest and is running, and its snapshot is up to date.    *)
AttemptsHold ==
  /\ \A t \in attempts :
       /\ t.run \in DOMAIN doc.runs /\ t.generation <= doc.runs[t.run].generation
       /\ SameGeneration(t) =>
            t.run = Len(doc.runs) /\ doc.runs[t.run].status = "running" /\ Agree(doc, t.snapshot)
  /\ \A t, u \in attempts : SameGeneration(t) /\ SameGeneration(u) => t = u

(* NoOrphanRun, said of generations.                                        *)
DrivesHold ==
  \A r \in DOMAIN doc.runs :
    /\ doc.runs[r].status = "running" => \E t \in attempts : t.run = r /\ SameGeneration(t)
    /\ doc.runs[r].status = "queued" => \E drive \in drives : drive.run = r

(* A transfer that nothing has raced will write what it would write now.    *)
Movable(d) ==
  /\ CurrentStatus(d) \notin Executing
  /\ d.window.status # "resolving"
  /\ d.runs # <<>> => d.runs[Len(d.runs)].generation < MaxGeneration
Handed(d, p, c) == Reconciled([d EXCEPT !.controls[p] = c])
ArrivalHolds ==
  \A a \in arrival : ~a.raced =>
    /\ Movable(doc) /\ doc.schedulerGeneration < MaxSchedulerGeneration
    /\ \E p \in Principals, c \in Agents :
         /\ c \notin External([doc EXCEPT !.controls[p] = Observer])
         /\ a.next = [Handed(doc, p, c) EXCEPT !.realtime = FALSE, !.schedulerGeneration = @ + 1]
         /\ a.schedules = Queued(Handed(doc, p, c))

IInv == DocHolds(doc) /\ WorkTyped /\ AttemptsHold /\ DrivesHold /\ ArrivalHolds

(* One step of RunsMoveForward.                                             *)
Forward(old, new) ==
  \A r \in DOMAIN old : LET run == old[r] next == new[r] IN
    /\ r \in DOMAIN new
    /\ next.generation >= run.generation
    /\ SubSeq(next.committed, 1, Len(run.committed)) = run.committed
    /\ run.status = "paused" =>
          next.status \in {"paused", "completed"} \/ next.generation > run.generation

-----------------------------------------------------------------------------
(* Types.                                                                   *)

LEMMA Limits ==
  /\ MaxRevision \in Nat /\ MaxRuns \in Nat /\ MaxIntents \in Nat /\ MaxTitle \in Nat
  /\ MaxIntents > 0 /\ runLeaseMaxCommits \in Nat /\ runLeaseMaxCommits > 0
  /\ MaxGeneration \in Nat /\ MaxGeneration > 0
  /\ MaxSchedulerGeneration \in Nat /\ MaxSchedulerGeneration > 0
  /\ Observer \notin Agents
  BY LimitsAssumption, AgentsAssumption

LEMMA RunTyped ==
  ASSUME NEW run \in RunRecords
  PROVE  /\ run.status \in RunStatuses /\ run.generation \in Generations /\ run.generation \in Nat
         /\ run.generation > 0 /\ run.requested \in 0..2 /\ run.roots \subseteq Intents
         /\ run.lease \in [generation : 0..MaxGeneration, commitCount : 0..runLeaseMaxCommits]
         /\ run.committed \in Seq(1..MaxRevision)
         /\ run = [status |-> run.status, generation |-> run.generation, requested |-> run.requested,
                   roots |-> run.roots, lease |-> run.lease, committed |-> run.committed]
  BY Limits DEF RunRecords, Generations

LEMMA DocumentTyped ==
  ASSUME NEW d, DocTyped(d)
  PROVE  /\ d \in Documents
         /\ d.runs \in Seq(RunRecords) /\ Len(d.runs) \in Nat /\ Len(d.runs) <= MaxRuns
         /\ DOMAIN d.runs = 1 .. Len(d.runs) /\ DOMAIN d.runs \subseteq RunIds
         /\ \A r \in DOMAIN d.runs : d.runs[r] \in RunRecords
         /\ d.runs # <<>> => Len(d.runs) \in DOMAIN d.runs
         /\ d.history \in Seq(SUBSET Intents) /\ Len(d.history) \in Nat /\ Len(d.history) <= MaxRevision
         /\ d.intents \in Seq(Agents) /\ Len(d.intents) \in Nat /\ Len(d.intents) <= MaxIntents
         /\ d.window \in Windows /\ d.engaged \subseteq Agents
         /\ d.controls \in [Principals -> Agents \cup {Observer}]
         /\ d.title \in 0..MaxTitle /\ d.realtime \in BOOLEAN
         /\ d.schedulerGeneration \in 1..MaxSchedulerGeneration
  <1>1. /\ d \in Documents
        /\ d.runs \in Seq(RunRecords) /\ d.history \in Seq(SUBSET Intents) /\ d.intents \in Seq(Agents)
        /\ Len(d.runs) <= MaxRuns /\ Len(d.history) <= MaxRevision /\ Len(d.intents) <= MaxIntents
    BY DEF DocTyped, Documents
  <1>2. /\ d.window \in Windows /\ d.engaged \subseteq Agents
        /\ d.controls \in [Principals -> Agents \cup {Observer}]
        /\ d.title \in 0..MaxTitle /\ d.realtime \in BOOLEAN
        /\ d.schedulerGeneration \in 1..MaxSchedulerGeneration
    BY <1>1 DEF Documents
  <1>3. /\ Len(d.runs) \in Nat /\ DOMAIN d.runs = 1 .. Len(d.runs)
        /\ Len(d.history) \in Nat /\ Len(d.intents) \in Nat
    BY <1>1, LenProperties
  <1>4. \A r \in DOMAIN d.runs : d.runs[r] \in RunRecords
    BY <1>1, <1>3, ElementOfSeq
  <1>5. d.runs # <<>> => Len(d.runs) # 0
    BY <1>1, EmptySeq
  <1>6. DOMAIN d.runs \subseteq RunIds
    BY <1>1, <1>3, Limits DEF RunIds
  <1> QED
    BY <1>1, <1>2, <1>3, <1>4, <1>5, <1>6

LEMMA NoWindowTyped ==
  /\ NoWindow \in Windows /\ NoWindow.kind = "none" /\ NoWindow.status = "closed"
  /\ NoWindow.required = {} /\ NoWindow.actions = {} /\ NoWindow.submissions = [a \in Agents |-> 0]
  /\ SubmittedIntents(NoWindow) = {}
  <1>1. [a \in Agents |-> 0] \in [Agents -> 0..MaxIntents]
    BY Limits
  <1> QED
    BY <1>1, Limits DEF NoWindow, NoSubmissions, Windows, SubmittedIntents, Submitted

LEMMA NewWindowIdTyped == NewWindowId \in 0..3
  <1>1. \E i \in 1..3 : i \notin {doc.window.id, timer.window}
    OBVIOUS
  <1>2. NewWindowId \in 1..3
    BY <1>1 DEF NewWindowId
  <1> QED
    BY <1>2

Opened(w, kind, d, required, actions) ==
  /\ w \in Windows /\ w # NoWindow
  /\ w.kind = kind /\ w.status = "open" /\ w.baseRevision = Len(d.history)
  /\ w.required = required /\ w.actions = actions /\ w.submissions = NoSubmissions
  /\ SubmittedIntents(w) = {}

LEMMA OpenedWindow ==
  ASSUME NEW kind, kind = "decision" \/ kind = "reaction", NEW d, DocTyped(d),
         NEW required, required \subseteq Agents, NEW actions, actions \subseteq Intents
  PROVE  Opened(Window(kind, d, required, actions), kind, d, required, actions)
  <1> DEFINE w == Window(kind, d, required, actions)
  <1>1. Len(d.history) \in 0..MaxRevision
    BY DocumentTyped, Limits
  <1>2. NoSubmissions \in [Agents -> 0..MaxIntents]
    BY Limits DEF NoSubmissions
  <1>3. w = [kind |-> kind, id |-> NewWindowId, status |-> "open", baseRevision |-> Len(d.history),
             required |-> required, submissions |-> NoSubmissions, actions |-> actions]
    BY DEF Window
  <1> HIDE DEF w
  <1>4. w \in Windows
    BY <1>1, <1>2, <1>3, NewWindowIdTyped DEF Windows
  <1>5. /\ w.kind = kind /\ w.status = "open" /\ w.baseRevision = Len(d.history)
        /\ w.required = required /\ w.actions = actions /\ w.submissions = NoSubmissions
    BY <1>3
  <1>6. w # NoWindow
    BY <1>5, NoWindowTyped
  <1>7. SubmittedIntents(w) = {}
    BY <1>5 DEF SubmittedIntents, Submitted, NoSubmissions
  <1> QED
    BY <1>4, <1>5, <1>6, <1>7 DEF w, Opened

LEMMA NewRunTyped ==
  ASSUME NEW requested \in 0..2, NEW status \in RunStatuses
  PROVE  LET run == NewRun(requested, status) IN
         /\ run \in RunRecords /\ run.status = status /\ run.requested = requested
         /\ run.committed = <<>> /\ run.roots = {} /\ run.lease = NoLease /\ run.generation = 1
  <1>1. <<>> \in Seq(1..MaxRevision)
    BY EmptySeq
  <1> QED
    BY <1>1, Limits DEF NewRun, RunRecords, Generations, NoLease

LEMMA NextGenerationTyped ==
  ASSUME NEW run \in RunRecords, NEW status \in RunStatuses, run.generation < MaxGeneration
  PROVE  LET next == NextGeneration(run, status) IN
         /\ next \in RunRecords /\ next.status = status /\ next.generation = run.generation + 1
         /\ next.committed = run.committed /\ next.roots = run.roots /\ next.requested = run.requested
         /\ next.lease = NoLease
  <1> DEFINE g == run.generation + 1
  <1>1. g \in Generations
    BY Limits DEF RunRecords, Generations
  <1>2. NextGeneration(run, status) = [run EXCEPT !.status = status, !.generation = g, !.lease = NoLease]
    BY DEF NextGeneration, RunRecords
  <1>3. NoLease \in [generation : 0..MaxGeneration, commitCount : 0..runLeaseMaxCommits]
    BY Limits DEF NoLease
  <1> HIDE DEF g
  <1>4. NextGeneration(run, status) \in RunRecords
    BY <1>1, <1>2, <1>3 DEF RunRecords
  <1>5. run = [status |-> run.status, generation |-> run.generation, requested |-> run.requested,
               roots |-> run.roots, lease |-> run.lease, committed |-> run.committed]
    BY DEF RunRecords
  <1> QED
    BY <1>2, <1>4, <1>5 DEF g

-----------------------------------------------------------------------------
(* Steps that commit nothing: the lists of revisions stay as they are.      *)

Quiet(old, new) ==
  /\ DOMAIN old \subseteq DOMAIN new
  /\ \A r \in DOMAIN old :
       /\ new[r].committed = old[r].committed
       /\ new[r].generation >= old[r].generation
       /\ old[r].status = "paused" =>
            new[r].status \in {"paused", "completed"} \/ new[r].generation > old[r].generation
  /\ \A r \in DOMAIN new : r \notin DOMAIN old => new[r].committed = <<>>

LEMMA QuietOwners ==
  ASSUME NEW old, NEW new, Quiet(old, new), NEW n
  PROVE  Owners(new, n) = Owners(old, n)
  <1>1. \A r \in DOMAIN new : r \notin DOMAIN old => DOMAIN new[r].committed = {}
    BY EmptySeq DEF Quiet
  <1> QED
    BY <1>1 DEF Quiet, Owners

LEMMA QuietForward ==
  ASSUME NEW old \in Seq(RunRecords), NEW new, Quiet(old, new)
  PROVE  Forward(old, new)
  <1>1. ASSUME NEW r \in DOMAIN old
        PROVE  SubSeq(old[r].committed, 1, Len(old[r].committed)) = old[r].committed
    <2>1. r \in 1 .. Len(old)
      BY LenProperties
    <2>2. old[r] \in RunRecords
      BY <2>1, ElementOfSeq
    <2>3. old[r].committed \in Seq(1..MaxRevision)
      BY <2>2 DEF RunRecords
    <2> HIDE DEF Forward
    <2> DEFINE c == old[r].committed
    <2> HIDE DEF c
    <2>4. c \in Seq(1..MaxRevision)
      BY <2>3 DEF c
    <2>5. SubSeq(c, 1, Len(c)) = c
      BY <2>4
    <2> QED
      BY <2>5 DEF c
  <1> QED
    BY <1>1 DEF Quiet, Forward

(* The changes documents undergo, by name.                                  *)
WithNewest(runs, x) == [runs EXCEPT ![Len(runs)] = x]
WithAdded(runs, x) == Append(runs, x)
With(d, runs, w) == [d EXCEPT !.runs = runs, !.window = w]

(* The newest run changes.                                                  *)
LEMMA CurrentChanges ==
  ASSUME NEW runs \in Seq(RunRecords), NEW revision, RunsHold(runs, revision), runs # <<>>,
         NEW x \in RunRecords, RunHolds(x, revision),
         x.committed = runs[Len(runs)].committed,
         x.generation >= runs[Len(runs)].generation,
         runs[Len(runs)].status = "paused" =>
           x.status \in {"paused", "completed"} \/ x.generation > runs[Len(runs)].generation
  PROVE  LET new == WithNewest(runs, x) IN
         /\ new \in Seq(RunRecords) /\ Len(new) = Len(runs) /\ new # <<>> /\ DOMAIN new = DOMAIN runs
         /\ Len(runs) \in DOMAIN runs /\ new[Len(runs)] = x
         /\ \A r \in DOMAIN runs : r # Len(runs) => new[r] = runs[r]
         /\ RunsHold(new, revision) /\ Quiet(runs, new)
  <1> DEFINE n == Len(runs)
             new == WithNewest(runs, x)
  <1>1. n \in Nat /\ n # 0 /\ DOMAIN runs = 1 .. n /\ n \in 1 .. n
    BY LenProperties, EmptySeq
  <1>2. /\ new \in Seq(RunRecords) /\ Len(new) = n
        /\ \A r \in 1 .. n : new[r] = IF r = n THEN x ELSE runs[r]
    BY <1>1, ExceptSeq DEF WithNewest
  <1>3. DOMAIN new = 1 .. n /\ new # <<>>
    BY <1>1, <1>2, LenProperties, EmptySeq
  <1>4. new[n] = x /\ \A r \in DOMAIN runs : r # n => new[r] = runs[r]
    BY <1>1, <1>2
  <1>8. \A r \in 1 .. n : runs[r] \in RunRecords
    BY <1>1, ElementOfSeq
  <1>5. \A r \in 1 .. n : runs[r].generation \in Nat
    BY <1>8, RunTyped
  <1> HIDE DEF n, new
  <1>6. RunsHold(new, revision)
    BY <1>1, <1>2, <1>3 DEF RunsHold, n
  <1>7. Quiet(runs, new)
    <2>1. /\ x.committed = runs[n].committed /\ x.generation >= runs[n].generation
          /\ runs[n].status = "paused" =>
               x.status \in {"paused", "completed"} \/ x.generation > runs[n].generation
      BY DEF n
    <2>2. \A r \in 1 .. n : r # n => new[r].generation >= runs[r].generation
      BY <1>2, <1>5
    <2> QED
      BY <1>1, <1>3, <1>4, <2>1, <2>2 DEF Quiet
  <1> QED
    BY <1>1, <1>2, <1>3, <1>6, <1>7, <1>4 DEF n, new

(* A run is added when the newest one is not live any more.                 *)
LEMMA RunAdded ==
  ASSUME NEW runs \in Seq(RunRecords), NEW revision, RunsHold(runs, revision),
         runs # <<>> => runs[Len(runs)].status \notin Live,
         NEW x \in RunRecords, RunHolds(x, revision), x.committed = <<>>
  PROVE  LET new == WithAdded(runs, x) IN
         /\ new \in Seq(RunRecords) /\ Len(new) = Len(runs) + 1 /\ new # <<>>
         /\ DOMAIN new = 1 .. (Len(runs) + 1) /\ DOMAIN runs \subseteq DOMAIN new
         /\ new[Len(new)] = x
         /\ \A r \in DOMAIN runs : new[r] = runs[r]
         /\ RunsHold(new, revision) /\ Quiet(runs, new)
  <1> DEFINE n == Len(runs)
             new == WithAdded(runs, x)
  <1>1. n \in Nat /\ DOMAIN runs = 1 .. n /\ (n # 0 => runs # <<>>)
    BY LenProperties, EmptySeq
  <1>2. /\ new \in Seq(RunRecords) /\ Len(new) = n + 1
        /\ \A r \in 1 .. n : new[r] = runs[r]
        /\ new[n + 1] = x
    BY <1>1, AppendProperties DEF WithAdded
  <1>3. DOMAIN new = 1 .. (n + 1) /\ new # <<>>
    BY <1>1, <1>2, LenProperties, EmptySeq
  <1>4. \A r \in 1 .. n : runs[r] \in RunRecords
    BY <1>1, ElementOfSeq
  <1>5. \A r \in 1 .. n : runs[r].generation \in Nat
    BY <1>4, RunTyped
  <1> HIDE DEF n, new
  <1>6. RunsHold(new, revision)
    <2> SUFFICES ASSUME NEW r \in 1 .. (n + 1)
                 PROVE  RunHolds(new[r], revision) /\ (new[r].status \in Live => r = n + 1)
      BY <1>2, <1>3 DEF RunsHold
    <2>1. CASE r = n + 1
      BY <1>2, <2>1
    <2>2. CASE r \in 1 .. n
      <3>1. n # 0 /\ runs # <<>>
        BY <1>1, <2>2
      <3> QED
        BY <1>1, <1>2, <2>2, <3>1 DEF RunsHold, n
    <2> QED
      BY <1>1, <2>1, <2>2
  <1>7. Quiet(runs, new)
    BY <1>1, <1>2, <1>3, <1>5 DEF Quiet
  <1> QED
    BY <1>1, <1>2, <1>3, <1>6, <1>7 DEF n, new

(* A document whose runs have changed quietly holds again.                  *)
LEMMA DocumentChanges ==
  ASSUME NEW d, DocHolds(d), NEW e, DocTyped(e),
         e.history = d.history, Len(e.intents) >= Len(d.intents),
         Quiet(d.runs, e.runs), RunsHold(e.runs, Len(e.history)),
         WindowHolds(e), ControlsHold(e),
         AnswersPending(e.window, Pending(e)),
         e.runs # <<>> => RootsPending(e.runs[Len(e.runs)], Pending(e))
  PROVE  DocHolds(e) /\ Forward(d.runs, e.runs)
  <1>1. Len(d.intents) \in Nat /\ Len(e.intents) \in Nat /\ d.runs \in Seq(RunRecords)
    BY DocumentTyped DEF DocHolds
  <1>2. IntentsHold(e)
    <2>1. ExecutedBy(e) = ExecutedBy(d) /\ ExecutedBy(d) \subseteq 1 .. Len(d.intents)
      BY DEF DocHolds, IntentsHold, ExecutedBy
    <2>2. ExecutedBy(e) \subseteq 1 .. Len(e.intents)
      BY <1>1, <2>1
    <2> QED
      BY <2>2 DEF IntentsHold
  <1>3. RevisionsHold(e)
    <2> SUFFICES ASSUME NEW n \in 1 .. Len(e.history)
                 PROVE  \E o : Owners(e.runs, n) = {o}
      BY DEF RevisionsHold
    <2>1. n \in 1 .. Len(d.history) /\ RevisionsHold(d)
      BY DEF DocHolds
    <2>2. PICK o : Owners(d.runs, n) = {o}
      BY <2>1 DEF RevisionsHold
    <2>3. Owners(e.runs, n) = Owners(d.runs, n)
      BY QuietOwners
    <2> QED
      BY <2>2, <2>3
  <1> QED
    BY <1>1, <1>2, <1>3, QuietForward DEF DocHolds

LEMMA DocumentWith ==
  ASSUME NEW d, DocTyped(d), NEW runs \in Seq(RunRecords), Len(runs) <= MaxRuns, NEW w \in Windows
  PROVE  LET e == With(d, runs, w) IN
         /\ DocTyped(e) /\ e.runs = runs /\ e.window = w
         /\ e.history = d.history /\ e.intents = d.intents /\ e.controls = d.controls
         /\ e.engaged = d.engaged /\ e.title = d.title
         /\ e.realtime = d.realtime /\ e.schedulerGeneration = d.schedulerGeneration
  <1> DEFINE e == With(d, runs, w)
  <1>1. /\ e.runs = runs /\ e.window = w
        /\ e.history = d.history /\ e.intents = d.intents /\ e.controls = d.controls
        /\ e.engaged = d.engaged /\ e.title = d.title
        /\ e.realtime = d.realtime /\ e.schedulerGeneration = d.schedulerGeneration
    BY DEF DocTyped, Documents, With
  <1>2. e \in Documents
    BY DEF DocTyped, Documents, With
  <1> HIDE DEF e
  <1>3. DocTyped(e)
    BY <1>1, <1>2 DEF DocTyped
  <1> QED
    BY <1>1, <1>3 DEF e

(* The newest run of a document changes, and its window with it.            *)
LEMMA NewestChanges ==
  ASSUME NEW d, DocHolds(d), d.runs # <<>>, NEW x \in RunRecords, NEW w \in Windows,
         RunHolds(x, Len(d.history)),
         x.committed = d.runs[Len(d.runs)].committed,
         x.generation >= d.runs[Len(d.runs)].generation,
         d.runs[Len(d.runs)].status = "paused" =>
           x.status \in {"paused", "completed"} \/ x.generation > d.runs[Len(d.runs)].generation,
         WindowFits(w, x.status, Len(d.history), External(d)),
         AnswersPending(w, Pending(d)), RootsPending(x, Pending(d))
  PROVE  LET e == With(d, WithNewest(d.runs, x), w) IN
         /\ DocHolds(e) /\ Forward(d.runs, e.runs)
         /\ CurrentStatus(e) = x.status /\ Len(e.runs) = Len(d.runs) /\ Len(d.runs) \in RunIds
         /\ e.runs[Len(d.runs)] = x /\ e.window = w
         /\ e.history = d.history /\ e.intents = d.intents /\ e.title = d.title
  <1> DEFINE runs == WithNewest(d.runs, x)
             e == With(d, runs, w)
  <1>1. /\ DocTyped(d) /\ d.runs \in Seq(RunRecords) /\ RunsHold(d.runs, Len(d.history))
        /\ Len(d.runs) <= MaxRuns /\ Len(d.runs) \in RunIds /\ Len(d.intents) \in Nat
    BY DocumentTyped DEF DocHolds
  <1>2. /\ runs \in Seq(RunRecords) /\ Len(runs) = Len(d.runs) /\ runs # <<>>
        /\ runs[Len(d.runs)] = x /\ RunsHold(runs, Len(d.history)) /\ Quiet(d.runs, runs)
    BY <1>1, CurrentChanges
  <1> HIDE DEF runs
  <1>3. /\ DocTyped(e) /\ e.runs = runs /\ e.window = w
        /\ e.history = d.history /\ e.intents = d.intents /\ e.controls = d.controls /\ e.title = d.title
    BY <1>1, <1>2, DocumentWith
  <1> HIDE DEF e
  <1>4. CurrentStatus(e) = x.status
    BY <1>2, <1>3 DEF CurrentStatus
  <1>5. WindowHolds(e) /\ ControlsHold(e) /\ Pending(e) = Pending(d)
    BY <1>3, <1>4 DEF WindowHolds, External, DocHolds, ControlsHold, Pending, ExecutedBy
  <1>6. DocHolds(e) /\ Forward(d.runs, e.runs)
    BY <1>1, <1>2, <1>3, <1>5, DocumentChanges
  <1> QED
    BY <1>1, <1>2, <1>3, <1>4, <1>6 DEF e, runs

(* The same, for where the hypotheses and the conclusion are long.          *)
Becomes(d, x, w) ==
  /\ DocHolds(d) /\ d.runs # <<>> /\ x \in RunRecords /\ w \in Windows
  /\ RunHolds(x, Len(d.history)) /\ x.committed = d.runs[Len(d.runs)].committed
  /\ x.generation >= d.runs[Len(d.runs)].generation
  /\ d.runs[Len(d.runs)].status = "paused" =>
       x.status \in {"paused", "completed"} \/ x.generation > d.runs[Len(d.runs)].generation
  /\ WindowFits(w, x.status, Len(d.history), External(d))
  /\ AnswersPending(w, Pending(d)) /\ RootsPending(x, Pending(d))
Became(e, d, x) ==
  /\ DocHolds(e) /\ Forward(d.runs, e.runs) /\ CurrentStatus(e) = x.status
  /\ Len(e.runs) = Len(d.runs) /\ Len(d.runs) \in RunIds
  /\ e.history = d.history /\ e.intents = d.intents

LEMMA NewestBecomes ==
  ASSUME NEW d, NEW x, NEW w, Becomes(d, x, w)
  PROVE  Became(With(d, WithNewest(d.runs, x), w), d, x)
  <1>1. /\ DocHolds(d) /\ d.runs # <<>> /\ x \in RunRecords /\ w \in Windows
        /\ RunHolds(x, Len(d.history)) /\ x.committed = d.runs[Len(d.runs)].committed
        /\ x.generation >= d.runs[Len(d.runs)].generation
        /\ d.runs[Len(d.runs)].status = "paused" =>
             x.status \in {"paused", "completed"} \/ x.generation > d.runs[Len(d.runs)].generation
        /\ WindowFits(w, x.status, Len(d.history), External(d))
        /\ AnswersPending(w, Pending(d)) /\ RootsPending(x, Pending(d))
    BY DEF Becomes
  <1> QED
    BY <1>1, NewestChanges DEF Became

(* A run is added to a document whose newest run is not live.               *)
LEMMA NewestAdded ==
  ASSUME NEW d, DocHolds(d), d.runs # <<>> => d.runs[Len(d.runs)].status \notin Live,
         Len(d.runs) < MaxRuns, NEW x \in RunRecords, NEW w \in Windows,
         RunHolds(x, Len(d.history)), x.committed = <<>>,
         WindowFits(w, x.status, Len(d.history), External(d)),
         AnswersPending(w, Pending(d)), RootsPending(x, Pending(d))
  PROVE  LET e == With(d, WithAdded(d.runs, x), w) IN
         /\ DocHolds(e) /\ Forward(d.runs, e.runs)
         /\ CurrentStatus(e) = x.status /\ Len(e.runs) = Len(d.runs) + 1 /\ Len(e.runs) \in RunIds
         /\ e.history = d.history /\ e.intents = d.intents
  <1> DEFINE runs == WithAdded(d.runs, x)
             e == With(d, runs, w)
  <1>1. /\ DocTyped(d) /\ d.runs \in Seq(RunRecords) /\ RunsHold(d.runs, Len(d.history))
        /\ Len(d.runs) \in Nat /\ Len(d.intents) \in Nat
    BY DocumentTyped DEF DocHolds
  <1>2. /\ runs \in Seq(RunRecords) /\ Len(runs) = Len(d.runs) + 1 /\ runs # <<>>
        /\ runs[Len(runs)] = x /\ RunsHold(runs, Len(d.history)) /\ Quiet(d.runs, runs)
    BY <1>1, RunAdded
  <1> HIDE DEF runs
  <1>3. Len(runs) <= MaxRuns /\ Len(runs) \in RunIds
    BY <1>1, <1>2, Limits DEF RunIds
  <1>4. /\ DocTyped(e) /\ e.runs = runs /\ e.window = w
        /\ e.history = d.history /\ e.intents = d.intents /\ e.controls = d.controls
    BY <1>1, <1>2, <1>3, DocumentWith
  <1> HIDE DEF e
  <1>5. CurrentStatus(e) = x.status
    BY <1>2, <1>4 DEF CurrentStatus
  <1>6. WindowHolds(e) /\ ControlsHold(e) /\ Pending(e) = Pending(d)
    BY <1>4, <1>5 DEF WindowHolds, External, DocHolds, ControlsHold, Pending, ExecutedBy
  <1>7. DocHolds(e) /\ Forward(d.runs, e.runs)
    BY <1>1, <1>2, <1>4, <1>6, DocumentChanges
  <1> QED
    BY <1>2, <1>3, <1>4, <1>5, <1>7 DEF e, runs

-----------------------------------------------------------------------------
(* The work around the document.                                            *)

TimerType == [kind : {"none", "deadline", "realtime"}, window : 0..3,
              generation : 0..MaxSchedulerGeneration]

(* What a step does to the document.                                        *)
LineStep ==
  \/ doc'.history = doc.history /\ doc'.intents = doc.intents
  \/ doc'.history = doc.history /\ Len(doc'.intents) = Len(doc.intents) + 1
  \/ /\ doc'.intents = doc.intents
     /\ \E S \in SUBSET Pending(doc) : doc'.history = Append(doc.history, S)
Follows == Forward(doc.runs, doc'.runs) /\ LineStep

LEMMA PersistHolds ==
  ASSUME WorkTyped, NEW d, Persist(d)
  PROVE  /\ doc' = d
         /\ arrival' \subseteq ArrivalType /\ \A a, b \in arrival' : a = b
         /\ ArrivalHolds'
  <1>1. doc' = d /\ arrival' = {[a EXCEPT !.raced = TRUE] : a \in arrival}
    BY DEF Persist
  <1>2. \A a \in ArrivalType : [a EXCEPT !.raced = TRUE] \in ArrivalType /\ [a EXCEPT !.raced = TRUE].raced
    BY DEF ArrivalType
  <1>3. arrival' \subseteq ArrivalType /\ \A a \in arrival' : a.raced
    BY <1>1, <1>2 DEF WorkTyped
  <1>4. \A a, b \in arrival' : a = b
    BY <1>1 DEF WorkTyped
  <1> QED
    BY <1>1, <1>3, <1>4 DEF ArrivalHolds

(* Nobody computes a boundary that may be written unless the newest run is  *)
(* running.                                                                 *)
LEMMA NobodyWorks ==
  ASSUME IInv, CurrentStatus(doc) # "running"
  PROVE  \A t \in attempts : ~SameGeneration(t)
  <1> SUFFICES ASSUME NEW t \in attempts, SameGeneration(t) PROVE FALSE
    OBVIOUS
  <1>1. t.run \in DOMAIN doc.runs /\ t.run = Len(doc.runs) /\ doc.runs[t.run].status = "running"
    BY DEF IInv, AttemptsHold
  <1>2. doc.runs # <<>>
    BY <1>1, EmptySeq
  <1> QED
    BY <1>1, <1>2 DEF CurrentStatus

LEMMA AttemptsStale ==
  ASSUME IInv, DocHolds(doc'), attempts' \subseteq attempts, Forward(doc.runs, doc'.runs),
         \A t \in attempts' : SameGeneration(t) => doc'.runs[t.run].generation > doc.runs[t.run].generation
  PROVE  AttemptsHold' /\ \A t \in attempts' : ~SameGeneration(t)'
  <1>1. ASSUME NEW t \in attempts'
        PROVE  /\ t.run \in DOMAIN doc'.runs /\ t.generation <= doc'.runs[t.run].generation
               /\ t.generation # doc'.runs[t.run].generation
    <2>1. t.run \in DOMAIN doc.runs /\ t.generation <= doc.runs[t.run].generation
      BY DEF IInv, AttemptsHold
    <2>2. t.run \in DOMAIN doc'.runs /\ doc'.runs[t.run].generation >= doc.runs[t.run].generation
      BY <2>1 DEF Forward
    <2>3. doc.runs[t.run] \in RunRecords /\ doc'.runs[t.run] \in RunRecords
      BY <2>1, <2>2, DocumentTyped DEF IInv, DocHolds
    <2>4. t.generation \in Nat /\ doc'.runs[t.run].generation \in Nat /\ doc.runs[t.run].generation \in Nat
      BY <2>3, RunTyped DEF IInv, WorkTyped, Generations
    <2> QED
      BY <2>1, <2>2, <2>4 DEF SameGeneration
  <1> QED
    BY <1>1 DEF AttemptsHold, SameGeneration

LEMMA DrivesNewest ==
  ASSUME DocHolds(doc'),
         CurrentStatus(doc') = "running" => \E t \in attempts' : t.run = Len(doc'.runs) /\ SameGeneration(t)',
         CurrentStatus(doc') = "queued" => \E drive \in drives' : drive.run = Len(doc'.runs)
  PROVE  DrivesHold'
  <1> SUFFICES ASSUME NEW r \in DOMAIN doc'.runs, doc'.runs[r].status \in Executing
               PROVE  CurrentStatus(doc') = doc'.runs[r].status /\ r = Len(doc'.runs)
    BY DEF DrivesHold, Executing
  <1>1. r = Len(doc'.runs)
    BY DEF DocHolds, RunsHold, Live
  <1>2. doc'.runs # <<>>
    BY EmptySeq
  <1> QED
    BY <1>1, <1>2 DEF CurrentStatus

(* A handler or an attempt writes a document in which nobody computes.      *)
LEMMA DocumentWritten ==
  ASSUME IInv, NEW e, Persist(e), DocHolds(e), Forward(doc.runs, e.runs), attempts' \subseteq attempts,
         \A t \in attempts' : SameGeneration(t) => e.runs[t.run].generation > doc.runs[t.run].generation,
         CurrentStatus(e) # "running",
         CurrentStatus(e) = "queued" => \E drive \in drives' : drive.run = Len(e.runs),
         drives' \subseteq [run : RunIds, caller : Callers], timer' \in TimerType,
         ticks' \subseteq 0..MaxRevision
  PROVE  IInv' /\ Forward(doc.runs, doc'.runs) /\ doc' = e
  <1>1. /\ doc' = e /\ arrival' \subseteq ArrivalType /\ \A a, b \in arrival' : a = b
        /\ ArrivalHolds'
    BY PersistHolds DEF IInv
  <1>2. AttemptsHold'
    BY <1>1, AttemptsStale
  <1>3. DrivesHold'
    BY <1>1, DrivesNewest
  <1>4. WorkTyped'
    BY <1>1 DEF IInv, WorkTyped, TimerType
  <1> QED
    BY <1>1, <1>2, <1>3, <1>4 DEF IInv

LEMMA TimersTyped ==
  ASSUME NEW d, DocTyped(d)
  PROVE  /\ NoTimer \in TimerType /\ DeadlineTimer(d) \in TimerType /\ RealtimeTimer(d) \in TimerType
         /\ \A t \in TimerType : Rearmed(d, t) \in TimerType
  <1>1. d.window.id \in 0..3 /\ d.schedulerGeneration \in 0..MaxSchedulerGeneration
    BY DocumentTyped, Limits DEF Windows
  <1>2. /\ NoTimer \in TimerType /\ DeadlineTimer(d) \in TimerType /\ RealtimeTimer(d) \in TimerType
    BY <1>1, Limits DEF NoTimer, DeadlineTimer, RealtimeTimer, TimerType
  <1> QED
    BY <1>2 DEF Rearmed

LEMMA WindowsAskExternal ==
  ASSUME NEW d, DocTyped(d)
  PROVE  External(d) \subseteq Agents /\ Required(d) \subseteq External(d)
  BY DocumentTyped DEF External, Required

-----------------------------------------------------------------------------
(* One lemma for each action.                                               *)

(* The document stays as it is and nobody starts or stops computing.        *)
LEMMA DocumentKept ==
  ASSUME IInv, UNCHANGED <<doc, attempts, arrival>>, drives' = drives,
         timer' \in TimerType, ticks' \subseteq 0..MaxRevision
  PROVE  IInv' /\ Follows
  <1>1. WorkTyped'
    BY DEF IInv, WorkTyped, TimerType
  <1>2. AttemptsHold' /\ DrivesHold'
    BY DEF IInv, AttemptsHold, DrivesHold, SameGeneration
  <1>4. ArrivalHolds'
    BY DEF IInv, ArrivalHolds
  <1>3. Forward(doc.runs, doc.runs)
    <2>1. doc.runs \in Seq(RunRecords) /\ Quiet(doc.runs, doc.runs)
      BY DocumentTyped, RunTyped DEF IInv, DocHolds, Quiet
    <2> QED
      BY <2>1, QuietForward
  <1> QED
    BY <1>1, <1>2, <1>3, <1>4 DEF IInv, Follows, LineStep

LEMMA StartRunHolds ==
  ASSUME IInv, NEW requested \in {1, 2}, NEW pending \in TimerType, StartRun(requested, pending),
         ticks' \subseteq 0..MaxRevision
  PROVE  IInv' /\ Follows
  <1> DEFINE required == Required(doc)
             awaited == required # {}
             x == NewRun(requested, IF awaited THEN "awaiting-decision" ELSE "queued")
             w == IF awaited THEN Window("decision", doc, required, {}) ELSE doc.window
             d == With(doc, WithAdded(doc.runs, x), w)
  <1>1. /\ DocHolds(doc) /\ DocTyped(doc) /\ WindowHolds(doc) /\ WorkTyped
        /\ required \subseteq External(doc) /\ required \in SUBSET Agents
    BY WindowsAskExternal DEF IInv, DocHolds
  <1>2. /\ CurrentStatus(doc) \notin Busy /\ Len(doc.runs) < MaxRuns
        /\ Persist(d)
        /\ drives' = IF awaited THEN drives ELSE drives \cup {[run |-> Len(d.runs), caller |-> "advance"]}
        /\ timer' = IF awaited THEN Rearmed(d, pending) ELSE pending
        /\ UNCHANGED attempts
    BY DEF StartRun, With, WithAdded
  <1>3. doc.window = NoWindow /\ (doc.runs # <<>> => doc.runs[Len(doc.runs)].status \notin Live)
    BY <1>1, <1>2 DEF WindowHolds, WindowFits, CurrentStatus, Busy, Live, Executing
  <1>4. /\ w \in Windows /\ AnswersPending(w, Pending(doc))
        /\ ~awaited => w = NoWindow
        /\ awaited => /\ w # NoWindow /\ w.kind = "decision" /\ w.status = "open"
                      /\ w.baseRevision = Len(doc.history) /\ w.required = required
                      /\ w.submissions = NoSubmissions
    <2>1. CASE awaited
      <3> DEFINE v == Window("decision", doc, required, {})
      <3>1. /\ v \in Windows /\ v # NoWindow
            /\ v.kind = "decision" /\ v.status = "open" /\ v.baseRevision = Len(doc.history)
            /\ v.required = required /\ v.actions = {} /\ v.submissions = NoSubmissions
            /\ SubmittedIntents(v) = {}
        <4>1. Opened(v, "decision", doc, required, {})
          BY <1>1, OpenedWindow
        <4> QED
          BY <4>1 DEF Opened
      <3>2. w = v
        BY <2>1
      <3> HIDE DEF v, w, required
      <3> QED
        BY <2>1, <3>1, <3>2 DEF AnswersPending
    <2>2. CASE ~awaited
      BY <1>3, <2>2, NoWindowTyped DEF AnswersPending
    <2> QED
      BY <2>1, <2>2
  <1> HIDE DEF w
  <1>5. /\ x \in RunRecords /\ x.committed = <<>> /\ x.roots = {} /\ x.lease = NoLease
        /\ x.status = IF awaited THEN "awaiting-decision" ELSE "queued"
    BY NewRunTyped DEF RunStatuses
  <1> HIDE DEF x, awaited
  <1>6. RunHolds(x, Len(doc.history)) /\ RootsPending(x, Pending(doc))
    BY <1>5, EmptySeq, Limits DEF RunHolds, NoLease, Executing, RootsPending
  <1>7. WindowFits(w, x.status, Len(doc.history), External(doc))
    BY <1>1, <1>4, <1>5, NoWindowTyped DEF WindowFits, Live, Executing, awaited, NoSubmissions
  <1>8. /\ DocHolds(d) /\ Forward(doc.runs, d.runs)
        /\ CurrentStatus(d) = x.status /\ Len(d.runs) \in RunIds
        /\ d.history = doc.history /\ d.intents = doc.intents
    BY <1>1, <1>2, <1>3, <1>4, <1>5, <1>6, <1>7, NewestAdded
  <1> HIDE DEF d
  <1>9. \A t \in attempts' : ~SameGeneration(t)
    BY <1>2, NobodyWorks DEF Busy
  <1>10. ASSUME x.status = "queued" PROVE \E drive \in drives' : drive.run = Len(d.runs)
    <2>1. ~awaited
      BY <1>5, <1>10
    <2>2. [run |-> Len(d.runs), caller |-> "advance"] \in drives'
      BY <1>2, <2>1
    <2> QED
      BY <2>2
  <1>11. timer' \in TimerType
    BY <1>2, <1>8, TimersTyped DEF DocHolds
  <1>12. drives' \subseteq [run : RunIds, caller : Callers]
    BY <1>1, <1>2, <1>8 DEF WorkTyped, Callers
  <1>13. IInv' /\ Forward(doc.runs, doc'.runs) /\ doc' = d
    BY <1>2, <1>5, <1>8, <1>9, <1>10, <1>11, <1>12, DocumentWritten
  <1> QED
    BY <1>8, <1>13 DEF Follows, LineStep

LEMMA AdvanceHolds ==
  ASSUME IInv, Advance
  PROVE  IInv' /\ Follows
  <1>1. timer \in TimerType /\ ticks' \subseteq 0..MaxRevision
    BY DEF Advance, IInv, WorkTyped, TimerType
  <1> QED
    BY <1>1, StartRunHolds DEF Advance

LEMMA TickHolds ==
  ASSUME IInv, NEW revision, NEW pending \in TimerType, TickAdvances(revision, pending),
         ticks' \subseteq 0..MaxRevision
  PROVE  IInv' /\ Follows
  <1>1. CASE StartRun(1, pending)
    BY <1>1, StartRunHolds
  <1>2. CASE timer' = pending /\ UNCHANGED <<doc, attempts, drives, arrival>>
    BY <1>2, DocumentKept
  <1> QED
    BY <1>1, <1>2 DEF TickAdvances

LEMMA RealtimeFiresHolds ==
  ASSUME IInv, RealtimeFires
  PROVE  IInv' /\ Follows
  <1>1. NoTimer \in TimerType /\ ticks \subseteq 0..MaxRevision /\ Len(doc.history) \in 0..MaxRevision
    BY TimersTyped, DocumentTyped, Limits DEF IInv, DocHolds, WorkTyped
  <1>2. CASE timer' = NoTimer /\ UNCHANGED <<doc, attempts, drives, arrival, ticks>>
    BY <1>1, <1>2, DocumentKept
  <1>3. CASE TickAdvances(Len(doc.history), NoTimer) /\ UNCHANGED ticks
    BY <1>1, <1>3, TickHolds
  <1>4. CASE /\ ticks' = ticks \cup {Len(doc.history)} /\ timer' = NoTimer
             /\ UNCHANGED <<doc, attempts, drives, arrival>>
    <2>1. ticks' \subseteq 0..MaxRevision
      BY <1>1, <1>4
    <2> QED
      BY <1>1, <1>4, <2>1, DocumentKept
  <1> QED
    BY <1>2, <1>3, <1>4 DEF RealtimeFires

LEMMA WaitingTickHolds ==
  ASSUME IInv, WaitingTickAdvances
  PROVE  IInv' /\ Follows
  <1>1. PICK revision \in ticks : TickAdvances(revision, timer) /\ ticks' = ticks \ {revision}
    BY DEF WaitingTickAdvances
  <1>2. timer \in TimerType /\ ticks' \subseteq 0..MaxRevision
    BY <1>1 DEF IInv, WorkTyped, TimerType
  <1> QED
    BY <1>1, <1>2, TickHolds

LEMMA AgreeingHolds ==
  ASSUME NEW d, DocHolds(d), NEW e \in Documents, Agree(d, e)
  PROVE  DocHolds(e) /\ Forward(d.runs, e.runs) /\ CurrentStatus(e) = CurrentStatus(d)
  <1>1. d.runs \in Seq(RunRecords) /\ Quiet(d.runs, d.runs)
    BY DocumentTyped, RunTyped DEF DocHolds, Quiet
  <1>2. DocTyped(e)
    BY DEF DocHolds, DocTyped, Agree
  <1>3. ExecutedBy(e) = ExecutedBy(d) /\ Pending(e) = Pending(d) /\ External(e) = External(d)
    BY DEF Agree, ExecutedBy, Pending, External
  <1>4. CurrentStatus(e) = CurrentStatus(d)
    BY DEF Agree, CurrentStatus
  <1>5. WindowHolds(e) /\ ControlsHold(e) /\ IntentsHold(e) /\ RevisionsHold(e)
    BY <1>3, <1>4 DEF DocHolds, Agree, WindowHolds, ControlsHold, IntentsHold, RevisionsHold
  <1>6. Forward(d.runs, e.runs)
    BY <1>1, QuietForward DEF Agree
  <1> QED
    BY <1>2, <1>4, <1>5, <1>6 DEF DocHolds, Agree

(* The title or the scheduler changes.                                      *)
LEMMA SettingsWritten ==
  ASSUME IInv, NEW e \in Documents, Agree(doc, e), Persist(e), UNCHANGED <<attempts, drives, ticks>>,
         timer' \in TimerType
  PROVE  IInv' /\ Follows
  <1>1. /\ doc' = e /\ arrival' \subseteq ArrivalType /\ \A a, b \in arrival' : a = b
        /\ ArrivalHolds'
    BY PersistHolds DEF IInv
  <1>2. DocHolds(doc') /\ Forward(doc.runs, doc'.runs) /\ CurrentStatus(doc') = CurrentStatus(doc)
    BY <1>1, AgreeingHolds DEF IInv
  <1>3. doc'.runs = doc.runs /\ \A s : Agree(doc, s) => Agree(doc', s)
    BY <1>1 DEF Agree
  <1>4. AttemptsHold' /\ DrivesHold'
    BY <1>3 DEF IInv, AttemptsHold, DrivesHold, SameGeneration
  <1>5. WorkTyped'
    BY <1>1 DEF IInv, WorkTyped, TimerType
  <1> QED
    BY <1>1, <1>2, <1>4, <1>5 DEF IInv, Follows, LineStep, Agree

LEMMA SetRealtimeHolds ==
  ASSUME IInv, NEW enabled \in BOOLEAN, SetRealtime(enabled)
  PROVE  IInv' /\ Follows
  <1> DEFINE g == doc.schedulerGeneration + 1
             d == [doc EXCEPT !.realtime = enabled, !.schedulerGeneration = g]
  <1>1. /\ DocTyped(doc) /\ doc \in Documents /\ g \in 1..MaxSchedulerGeneration
    BY DocumentTyped, Limits DEF SetRealtime, IInv, DocHolds
  <1>2. /\ Persist(d) /\ UNCHANGED <<attempts, drives, ticks>>
        /\ timer' = IF enabled THEN RealtimeTimer(d) ELSE NoTimer
    BY <1>1 DEF SetRealtime, Documents
  <1> HIDE DEF g
  <1>3. /\ d \in Documents /\ Agree(doc, d)
    BY <1>1 DEF Documents, Agree
  <1>4. DocTyped(d)
    BY <1>1, <1>3 DEF DocTyped, Agree
  <1> HIDE DEF d
  <1>5. timer' \in TimerType
    BY <1>2, <1>4, TimersTyped
  <1> QED
    BY <1>2, <1>3, <1>5, SettingsWritten

LEMMA RenameHolds ==
  ASSUME IInv, Rename
  PROVE  IInv' /\ Follows
  <1> DEFINE g == doc.title + 1
             d == [doc EXCEPT !.title = g]
  <1>1. doc \in Documents /\ g \in 0..MaxTitle
    BY DocumentTyped, Limits DEF Rename, IInv, DocHolds
  <1>2. Persist(d) /\ UNCHANGED <<attempts, drives, timer, ticks>>
    BY <1>1 DEF Rename, Documents
  <1> HIDE DEF g
  <1>3. d \in Documents /\ Agree(doc, d)
    BY <1>1 DEF Documents, Agree
  <1> HIDE DEF d
  <1>4. timer' \in TimerType
    BY <1>2 DEF IInv, WorkTyped, TimerType
  <1> QED
    BY <1>2, <1>3, <1>4, SettingsWritten

LEMMA ResubmitHolds ==
  ASSUME IInv, NEW a \in Agents, Resubmit(a)
  PROVE  IInv' /\ Follows
  <1>1. timer' \in TimerType /\ ticks' \subseteq 0..MaxRevision
    BY TimersTyped DEF Resubmit, IInv, DocHolds, WorkTyped
  <1> QED
    BY <1>1, DocumentKept DEF Resubmit

LEMMA SkipDriveHolds ==
  ASSUME IInv, NEW drive \in drives, SkipDrive(drive)
  PROVE  IInv' /\ Follows
  <1>1. /\ UNCHANGED <<doc, attempts, arrival, ticks>> /\ drives' = drives \ {drive}
        /\ drive.run \in DOMAIN doc.runs => doc.runs[drive.run].status # "queued"
        /\ timer' = IF drive.caller = "advance" THEN Rearmed(doc, timer) ELSE timer
    BY DEF SkipDrive
  <1>2. timer' \in TimerType
    BY <1>1, TimersTyped DEF IInv, DocHolds, WorkTyped, TimerType
  <1>3. WorkTyped'
    BY <1>1, <1>2 DEF IInv, WorkTyped, TimerType
  <1>4. AttemptsHold'
    BY <1>1 DEF IInv, AttemptsHold, SameGeneration
  <1>5. DrivesHold'
    BY <1>1 DEF IInv, DrivesHold, SameGeneration
  <1>6. ArrivalHolds'
    BY <1>1 DEF IInv, ArrivalHolds
  <1>7. Forward(doc.runs, doc.runs)
    BY AgreeingHolds DEF IInv, Agree, DocHolds, DocTyped
  <1> QED
    BY <1>1, <1>3, <1>4, <1>5, <1>6, <1>7 DEF IInv, Follows, LineStep

LEMMA FencedHolds ==
  ASSUME IInv, NEW attempt \in attempts, AttemptFenced(attempt)
  PROVE  IInv' /\ Follows
  <1>1. /\ UNCHANGED <<doc, arrival, ticks>> /\ attempts' = attempts \ {attempt}
        /\ drives \subseteq drives' /\ drives' \subseteq drives \cup {[run |-> attempt.run, caller |-> attempt.caller]}
        /\ timer' \in {timer, Rearmed(doc, timer)}
        /\ ~Current(attempt)
    BY DEF AttemptFenced, AttemptEnds
  <1>2. timer' \in TimerType
    BY <1>1, TimersTyped DEF IInv, DocHolds, WorkTyped, TimerType
  <1>3. WorkTyped'
    BY <1>1, <1>2 DEF IInv, WorkTyped, TimerType
  <1>4. AttemptsHold'
    BY <1>1 DEF IInv, AttemptsHold, SameGeneration
  <1>5. ~SameGeneration(attempt)
    BY <1>1 DEF IInv, AttemptsHold, Agree, Current
  <1>6. DrivesHold'
    BY <1>1, <1>5 DEF IInv, DrivesHold, SameGeneration
  <1>7. ArrivalHolds'
    BY <1>1 DEF IInv, ArrivalHolds
  <1>8. Forward(doc.runs, doc.runs)
    BY AgreeingHolds DEF IInv, Agree, DocHolds, DocTyped
  <1> QED
    BY <1>1, <1>3, <1>4, <1>6, <1>7, <1>8 DEF IInv, Follows, LineStep

LEMMA WithNewestWindow ==
  ASSUME NEW d \in Documents, NEW x, NEW w
  PROVE  /\ [d EXCEPT !.runs[Len(d.runs)] = x, !.window = w] = With(d, WithNewest(d.runs, x), w)
         /\ [d EXCEPT !.window = w, !.runs[Len(d.runs)] = x] = With(d, WithNewest(d.runs, x), w)
         /\ [d EXCEPT !.runs[Len(d.runs)] = x] = With(d, WithNewest(d.runs, x), d.window)
  BY DEF Documents, With, WithNewest

(* What the newest run of the document brings along.                        *)
LEMMA NewestTyped ==
  ASSUME IInv, doc.runs # <<>>
  PROVE  LET run == doc.runs[Len(doc.runs)] IN
         /\ Len(doc.runs) \in DOMAIN doc.runs /\ Len(doc.runs) \in RunIds
         /\ run \in RunRecords /\ RunHolds(run, Len(doc.history)) /\ RootsPending(run, Pending(doc))
         /\ CurrentStatus(doc) = run.status
         /\ WindowFits(doc.window, run.status, Len(doc.history), External(doc))
         /\ AnswersPending(doc.window, Pending(doc)) /\ doc.window \in Windows
         /\ doc \in Documents /\ DocHolds(doc) /\ run.generation \in Nat
  <1>1. DocHolds(doc) /\ DocTyped(doc) /\ CurrentStatus(doc) = doc.runs[Len(doc.runs)].status
    BY DEF IInv, DocHolds, CurrentStatus
  <1>2. /\ Len(doc.runs) \in DOMAIN doc.runs /\ Len(doc.runs) \in RunIds
        /\ doc.runs[Len(doc.runs)] \in RunRecords /\ doc.window \in Windows /\ doc \in Documents
    BY <1>1, DocumentTyped
  <1> QED
    BY <1>1, <1>2, RunTyped DEF DocHolds, RunsHold, IntentsHold, WindowHolds

(* An executing run is the newest.                                          *)
LEMMA ExecutingIsNewest ==
  ASSUME IInv, NEW r \in DOMAIN doc.runs, doc.runs[r].status \in Live
  PROVE  r = Len(doc.runs) /\ doc.runs # <<>>
  BY EmptySeq DEF IInv, DocHolds, RunsHold

LEMMA PauseHolds ==
  ASSUME IInv, NEW r, Pause(r)
  PROVE  IInv' /\ Follows
  <1> DEFINE run == doc.runs[Len(doc.runs)]
             x == NextGeneration(run, "paused")
             d == With(doc, WithNewest(doc.runs, x), doc.window)
  <1>1. r = Len(doc.runs) /\ doc.runs # <<>> /\ run.status \in Executing
    BY ExecutingIsNewest DEF Pause, Live
  <1>2. /\ run \in RunRecords /\ RunHolds(run, Len(doc.history)) /\ RootsPending(run, Pending(doc))
        /\ WindowFits(doc.window, run.status, Len(doc.history), External(doc))
        /\ AnswersPending(doc.window, Pending(doc)) /\ doc.window \in Windows
        /\ doc \in Documents /\ DocHolds(doc) /\ run.generation \in Nat
    BY <1>1, NewestTyped
  <1>3. /\ run.generation < MaxGeneration
        /\ Persist(d) /\ UNCHANGED <<attempts, timer, ticks>> /\ drives' \subseteq drives
    BY <1>1, <1>2, WithNewestWindow DEF Pause
  <1>4. /\ x \in RunRecords /\ x.status = "paused" /\ x.generation = run.generation + 1
        /\ x.committed = run.committed /\ x.roots = run.roots /\ x.lease = NoLease
    BY <1>2, <1>3, NextGenerationTyped DEF RunStatuses
  <1> HIDE DEF x, run
  <1>5. RunHolds(x, Len(doc.history)) /\ RootsPending(x, Pending(doc))
    BY <1>2, <1>4 DEF RunHolds, RootsPending, Executing
  <1>6. WindowFits(doc.window, x.status, Len(doc.history), External(doc))
    BY <1>1, <1>2, <1>4 DEF WindowFits, Executing
  <1>7. /\ DocHolds(d) /\ Forward(doc.runs, d.runs) /\ CurrentStatus(d) = "paused"
        /\ d.runs[Len(doc.runs)] = x /\ d.history = doc.history /\ d.intents = doc.intents
    BY <1>1, <1>2, <1>4, <1>5, <1>6, NewestChanges DEF run
  <1> HIDE DEF d
  <1>8. \A t \in attempts' : SameGeneration(t) => d.runs[t.run].generation > doc.runs[t.run].generation
    BY <1>2, <1>3, <1>4, <1>7 DEF IInv, AttemptsHold, run
  <1>9. timer' \in TimerType /\ ticks' \subseteq 0..MaxRevision /\ drives' \subseteq [run : RunIds, caller : Callers]
    BY <1>3 DEF IInv, WorkTyped, TimerType
  <1>10. IInv' /\ Forward(doc.runs, doc'.runs) /\ doc' = d
    BY <1>3, <1>7, <1>8, <1>9, DocumentWritten
  <1> QED
    BY <1>7, <1>10 DEF Follows, LineStep

LEMMA DueTyped ==
  ASSUME IInv, NEW r \in RunIds
  PROVE  Due(r) \subseteq [run : RunIds, caller : Callers] /\ \E drive \in Due(r) : drive.run = r
  <1>1. [run |-> r, caller |-> "timer"] \in [run : RunIds, caller : Callers]
    BY DEF Callers
  <1>2. [run |-> r, caller |-> "timer"] \in Due(r)
    BY DEF Due
  <1> QED
    BY <1>1, <1>2 DEF Due, IInv, WorkTyped

LEMMA ResumeHolds ==
  ASSUME IInv, SerialEnvironment, NEW r, Resume(r)
  PROVE  IInv' /\ Follows
  <1> DEFINE run == doc.runs[Len(doc.runs)]
             x == NextGeneration(run, "queued")
             d == With(doc, WithNewest(doc.runs, x), doc.window)
  <1>1. /\ r = Len(doc.runs) /\ doc.runs # <<>>
        /\ run.status \in {"paused", "budget-paused", "preparation-invalidated"}
    BY EmptySeq DEF Resume, SerialEnvironment
  <1>2. /\ run \in RunRecords /\ RunHolds(run, Len(doc.history)) /\ RootsPending(run, Pending(doc))
        /\ WindowFits(doc.window, run.status, Len(doc.history), External(doc))
        /\ AnswersPending(doc.window, Pending(doc)) /\ doc.window \in Windows
        /\ doc \in Documents /\ DocHolds(doc) /\ run.generation \in Nat
        /\ CurrentStatus(doc) = run.status /\ Len(doc.runs) \in RunIds
    BY <1>1, NewestTyped
  <1>3. /\ run.generation < MaxGeneration
        /\ Persist(d) /\ UNCHANGED <<attempts, timer, ticks>> /\ drives' = Due(Len(doc.runs))
    BY <1>1, <1>2, WithNewestWindow DEF Resume
  <1>4. /\ x \in RunRecords /\ x.status = "queued" /\ x.generation = run.generation + 1
        /\ x.committed = run.committed /\ x.roots = run.roots /\ x.lease = NoLease
    BY <1>2, <1>3, NextGenerationTyped DEF RunStatuses
  <1> HIDE DEF x, run
  <1>5. RunHolds(x, Len(doc.history)) /\ RootsPending(x, Pending(doc))
    BY <1>2, <1>4, Limits DEF RunHolds, RootsPending, NoLease
  <1>6. WindowFits(doc.window, x.status, Len(doc.history), External(doc))
    BY <1>1, <1>2, <1>4 DEF WindowFits, Live, Executing
  <1>7. /\ DocHolds(d) /\ Forward(doc.runs, d.runs) /\ CurrentStatus(d) = "queued"
        /\ d.runs[Len(doc.runs)] = x /\ d.history = doc.history /\ d.intents = doc.intents
        /\ Len(d.runs) = Len(doc.runs)
    BY <1>1, <1>2, <1>4, <1>5, <1>6, NewestChanges DEF run
  <1> HIDE DEF d
  <1>8. \A t \in attempts' : ~SameGeneration(t)
    BY <1>1, <1>2, <1>3, NobodyWorks
  <1>9. timer' \in TimerType /\ ticks' \subseteq 0..MaxRevision
    BY <1>3 DEF IInv, WorkTyped, TimerType
  <1>10. IInv' /\ Forward(doc.runs, doc'.runs) /\ doc' = d
    BY <1>2, <1>3, <1>7, <1>8, <1>9, DueTyped, DocumentWritten
  <1> QED
    BY <1>7, <1>10 DEF Follows, LineStep

LEMMA PendingTyped ==
  ASSUME NEW d, DocTyped(d)
  PROVE  Pending(d) \subseteq Intents
  BY DocumentTyped, Limits DEF Pending, Intents

LEMMA RenewedTyped ==
  ASSUME NEW run \in RunRecords, run.generation < MaxGeneration, NEW roots \in SUBSET Intents
  PROVE  LET x == [NextGeneration(run, "queued") EXCEPT !.roots = roots] IN
         /\ x \in RunRecords /\ x.status = "queued" /\ x.generation = run.generation + 1
         /\ x.committed = run.committed /\ x.roots = roots /\ x.lease = NoLease
  <1> DEFINE next == NextGeneration(run, "queued")
             x == [next EXCEPT !.roots = roots]
  <1>1. /\ next \in RunRecords /\ next.status = "queued" /\ next.generation = run.generation + 1
        /\ next.committed = run.committed /\ next.lease = NoLease
    BY NextGenerationTyped DEF RunStatuses
  <1> HIDE DEF next
  <1>2. /\ x \in RunRecords /\ x.status = next.status /\ x.generation = next.generation
        /\ x.committed = next.committed /\ x.roots = roots /\ x.lease = next.lease
    BY <1>1 DEF RunRecords
  <1> QED
    BY <1>1, <1>2 DEF next

(* A run that waited for players goes on.                                   *)
LEMMA WaitingRunGoesOn ==
  ASSUME IInv, doc.runs # <<>>, NEW w \in Windows, NEW x \in RunRecords,
         LET run == doc.runs[Len(doc.runs)] IN
           /\ run.status \in {"awaiting-decision", "awaiting-reaction"}
           /\ x.generation = run.generation + 1 /\ x.committed = run.committed,
         x.status = "queued", x.lease = NoLease, RootsPending(x, Pending(doc)),
         WindowFits(w, "queued", Len(doc.history), External(doc)), AnswersPending(w, Pending(doc)),
         Persist(With(doc, WithNewest(doc.runs, x), w)),
         UNCHANGED <<attempts, ticks>>, drives' = Due(Len(doc.runs)), timer' \in TimerType
  PROVE  IInv' /\ Follows
  <1> DEFINE run == doc.runs[Len(doc.runs)]
             d == With(doc, WithNewest(doc.runs, x), w)
  <1>1. /\ run \in RunRecords /\ RunHolds(run, Len(doc.history))
        /\ DocHolds(doc) /\ run.generation \in Nat
        /\ CurrentStatus(doc) = run.status /\ Len(doc.runs) \in RunIds
    BY NewestTyped
  <1>2. /\ run.status \in {"awaiting-decision", "awaiting-reaction"}
        /\ x.generation = run.generation + 1 /\ x.committed = run.committed
    OBVIOUS
  <1> HIDE DEF run
  <1>3. RunHolds(x, Len(doc.history))
    BY <1>1, <1>2, Limits DEF RunHolds, NoLease
  <1>4. x.generation >= run.generation /\ run.status # "paused"
    BY <1>1, <1>2
  <1>5. /\ DocHolds(d) /\ Forward(doc.runs, d.runs) /\ CurrentStatus(d) = "queued"
        /\ d.history = doc.history /\ d.intents = doc.intents
        /\ Len(d.runs) = Len(doc.runs)
    BY <1>1, <1>2, <1>3, <1>4, NewestChanges DEF run
  <1>6. Persist(d)
    OBVIOUS
  <1> HIDE DEF d
  <1>7. \A t \in attempts' : ~SameGeneration(t)
    BY <1>1, <1>2, NobodyWorks
  <1>8. ticks' \subseteq 0..MaxRevision
    BY DEF IInv, WorkTyped
  <1>9. IInv' /\ Forward(doc.runs, doc'.runs) /\ doc' = d
    BY <1>1, <1>5, <1>6, <1>7, <1>8, DueTyped, DocumentWritten
  <1> QED
    BY <1>5, <1>9 DEF Follows, LineStep

LEMMA DeadlineFiresHolds ==
  ASSUME IInv, DeadlineFires
  PROVE  IInv' /\ Follows
  <1> DEFINE run == doc.runs[Len(doc.runs)]
             roots == IF doc.window.kind = "decision" THEN SubmittedIntents(doc.window) ELSE run.roots
             x == [NextGeneration(run, "queued") EXCEPT !.roots = roots]
             d == With(doc, WithNewest(doc.runs, x), doc.window)
  <1>1. NoTimer \in TimerType /\ ticks \subseteq 0..MaxRevision
    BY TimersTyped DEF IInv, DocHolds, WorkTyped
  <1>2. CASE ~DeadlineApplies(timer.window)
    <2>1. UNCHANGED <<doc, attempts, arrival>> /\ drives' = drives /\ timer' = NoTimer /\ ticks' = ticks
      BY <1>2 DEF DeadlineFires
    <2> QED
      BY <1>1, <2>1, DocumentKept
  <1>3. CASE DeadlineApplies(timer.window)
    <2>1. /\ doc.runs # <<>> /\ run.status \in {"awaiting-decision", "awaiting-reaction"}
      BY <1>3 DEF DeadlineApplies, CurrentStatus
    <2>2. /\ run \in RunRecords /\ RootsPending(run, Pending(doc))
          /\ WindowFits(doc.window, run.status, Len(doc.history), External(doc))
          /\ AnswersPending(doc.window, Pending(doc)) /\ doc.window \in Windows
          /\ doc \in Documents /\ DocTyped(doc)
      BY <2>1, NewestTyped DEF DocHolds
    <2>3. /\ run.generation < MaxGeneration
          /\ Persist(d) /\ UNCHANGED <<attempts, ticks>> /\ timer' = NoTimer /\ drives' = Due(Len(doc.runs))
      BY <1>3, <2>2, WithNewestWindow DEF DeadlineFires
    <2>4. roots \in SUBSET Intents /\ (run.committed = <<>> => roots \subseteq Pending(doc))
      BY <2>2, PendingTyped, RunTyped DEF AnswersPending, RootsPending
    <2> HIDE DEF roots, run
    <2>5. /\ x \in RunRecords /\ x.status = "queued" /\ x.generation = run.generation + 1
          /\ x.committed = run.committed /\ x.roots = roots /\ x.lease = NoLease
      BY <2>2, <2>3, <2>4, RenewedTyped
    <2> HIDE DEF x
    <2>6. RootsPending(x, Pending(doc))
      BY <2>4, <2>5 DEF RootsPending
    <2>7. WindowFits(doc.window, "queued", Len(doc.history), External(doc))
      BY <2>1, <2>2 DEF WindowFits, Live, Executing
    <2> QED
      BY <1>1, <2>1, <2>2, <2>3, <2>5, <2>6, <2>7, WaitingRunGoesOn DEF run
  <1> QED
    BY <1>2, <1>3

LEMMA SubmitReactionHolds ==
  ASSUME IInv, NEW a \in Agents, SubmitReaction(a)
  PROVE  IInv' /\ Follows
  <1> DEFINE run == doc.runs[Len(doc.runs)]
             filled == [doc.window EXCEPT !.submissions[a] = 1]
  <1>1. doc.runs # <<>> /\ run.status = "awaiting-reaction"
    BY DEF SubmitReaction, CurrentStatus
  <1>2. /\ run \in RunRecords /\ RunHolds(run, Len(doc.history)) /\ RootsPending(run, Pending(doc))
        /\ WindowFits(doc.window, run.status, Len(doc.history), External(doc))
        /\ AnswersPending(doc.window, Pending(doc)) /\ doc.window \in Windows
        /\ doc \in Documents /\ DocTyped(doc) /\ DocHolds(doc)
        /\ run.generation \in Nat /\ CurrentStatus(doc) = run.status
    BY <1>1, NewestTyped DEF DocHolds
  <1>3. /\ filled \in Windows /\ filled.kind = doc.window.kind /\ filled.status = doc.window.status
        /\ filled.baseRevision = doc.window.baseRevision /\ filled.required = doc.window.required
        /\ filled.actions = doc.window.actions
        /\ filled.submissions = [doc.window.submissions EXCEPT ![a] = 1]
    <2>1. [doc.window.submissions EXCEPT ![a] = 1] \in [Agents -> 0..MaxIntents]
      BY <1>2, Limits DEF Windows
    <2> QED
      BY <1>2, <2>1 DEF Windows
  <1>4. /\ doc.window.kind = "reaction" /\ doc.window.status = "open" /\ a \in doc.window.required
        /\ run.generation < MaxGeneration /\ UNCHANGED <<attempts, ticks>>
    BY DEF SubmitReaction
  <1>5. AnswersPending(filled, Pending(doc)) /\ filled # NoWindow
    BY <1>2, <1>3, <1>4, NoWindowTyped DEF AnswersPending
  <1>6. /\ WindowFits(filled, "awaiting-reaction", Len(doc.history), External(doc))
        /\ WindowFits(filled, "queued", Len(doc.history), External(doc))
    <2>1. {b \in Agents : filled.submissions[b] # 0} \subseteq filled.required
      BY <1>1, <1>2, <1>3, <1>4, NoWindowTyped DEF WindowFits, Windows
    <2>2. /\ filled.baseRevision = Len(doc.history) /\ filled.required \subseteq External(doc)
          /\ filled.kind = "reaction" /\ filled.status = "open"
      BY <1>1, <1>2, <1>3, <1>4, NoWindowTyped DEF WindowFits
    <2> HIDE DEF filled
    <2> QED
      BY <1>5, <2>1, <2>2 DEF WindowFits, Live, Executing
  <1>7. CASE Complete(filled)
    <2> DEFINE x == NextGeneration(run, "queued")
               d == With(doc, WithNewest(doc.runs, x), filled)
    <2>1. [doc EXCEPT !.window = filled, !.runs[Len(doc.runs)] = x] = d
      <3> HIDE DEF x, filled
      <3> QED
        BY <1>2 DEF Documents, With, WithNewest
    <2>2. Persist(d) /\ drives' = Due(Len(doc.runs)) /\ timer' = timer
      BY <1>7, <2>1 DEF SubmitReaction
    <2>3. /\ x \in RunRecords /\ x.status = "queued" /\ x.generation = run.generation + 1
          /\ x.committed = run.committed /\ x.roots = run.roots /\ x.lease = NoLease
      BY <1>2, <1>4, NextGenerationTyped DEF RunStatuses
    <2> HIDE DEF x, run, filled
    <2>4. RootsPending(x, Pending(doc)) /\ timer' \in TimerType
      BY <1>2, <2>2, <2>3 DEF RootsPending, IInv, WorkTyped, TimerType
    <2> QED
      BY <1>1, <1>3, <1>4, <1>5, <1>6, <2>2, <2>3, <2>4, WaitingRunGoesOn DEF run
  <1>8. CASE ~Complete(filled)
    <2> DEFINE d == With(doc, WithNewest(doc.runs, run), filled)
    <2>1. [doc EXCEPT !.window = filled, !.runs[Len(doc.runs)] = run] = d
      <3> HIDE DEF run, filled
      <3> QED
        BY <1>2 DEF Documents, With, WithNewest
    <2>2. Persist(d) /\ drives' = drives /\ timer' = DeadlineTimer(d)
      BY <1>8, <2>1 DEF SubmitReaction
    <2> HIDE DEF filled
    <2>3. /\ DocHolds(d) /\ Forward(doc.runs, d.runs) /\ CurrentStatus(d) = "awaiting-reaction"
          /\ d.history = doc.history /\ d.intents = doc.intents
      BY <1>1, <1>2, <1>3, <1>5, <1>6, NewestChanges
    <2> HIDE DEF d
    <2>4. timer' \in TimerType /\ ticks' \subseteq 0..MaxRevision /\ drives' \subseteq [run : RunIds, caller : Callers]
      BY <1>4, <2>2, <2>3, TimersTyped DEF DocHolds, IInv, WorkTyped
    <2>5. \A t \in attempts' : ~SameGeneration(t)
      BY <1>1, <1>2, <1>4, NobodyWorks
    <2>6. IInv' /\ Forward(doc.runs, doc'.runs) /\ doc' = d
      BY <1>4, <2>2, <2>3, <2>4, <2>5, DocumentWritten
    <2> QED
      BY <2>3, <2>6 DEF Follows, LineStep
  <1> QED
    BY <1>7, <1>8

(* driveRun takes the newest run up: the new attempt is the only one that  *)
(* works for it.                                                           *)
LEMMA StartAttemptHolds ==
  ASSUME IInv, NEW drive \in drives, StartAttempt(drive)
  PROVE  IInv' /\ Follows
  <1> DEFINE run == doc.runs[Len(doc.runs)]
             lease == IF run.lease = NoLease THEN [generation |-> run.generation, commitCount |-> 0]
                      ELSE run.lease
             x == [run EXCEPT !.status = "running", !.lease = lease]
             status == IF doc.window.status = "open" THEN "resolving" ELSE doc.window.status
             w == [doc.window EXCEPT !.status = status]
             d == With(doc, WithNewest(doc.runs, x), w)
             new == [run |-> Len(doc.runs), generation |-> run.generation,
                     caller |-> drive.caller, snapshot |-> d]
  <1>1. drive.run = Len(doc.runs) /\ doc.runs # <<>> /\ run.status = "queued"
    BY ExecutingIsNewest DEF StartAttempt, Live, Executing
  <1>2. /\ run \in RunRecords /\ RunHolds(run, Len(doc.history)) /\ RootsPending(run, Pending(doc))
        /\ WindowFits(doc.window, run.status, Len(doc.history), External(doc))
        /\ AnswersPending(doc.window, Pending(doc)) /\ doc.window \in Windows
        /\ doc \in Documents /\ DocHolds(doc) /\ WorkTyped /\ CurrentStatus(doc) = run.status
        /\ run.generation \in Nat /\ run.generation > 0 /\ run.generation \in Generations
        /\ Len(doc.runs) \in RunIds
    BY <1>1, NewestTyped, RunTyped DEF IInv
  <1>3. Persist(d) /\ attempts' = attempts \cup {new}
    <2>1. [doc EXCEPT !.runs[Len(doc.runs)] = x,
                      !.window.status = IF @ = "open" THEN "resolving" ELSE @] = d
      <3> HIDE DEF run, lease
      <3> QED
        BY <1>2 DEF Documents, With, WithNewest, Windows
    <2>2. [doc.runs[Len(doc.runs)] EXCEPT !.status = "running", !.lease = lease] = x
      OBVIOUS
    <2> QED
      BY <1>1, <2>1, <2>2 DEF StartAttempt
  <1>4. drives' = drives \ {drive} /\ UNCHANGED <<timer, ticks>> /\ drive.caller \in Callers
    BY <1>2 DEF StartAttempt, WorkTyped
  <1>5. /\ lease \in [generation : 0..MaxGeneration, commitCount : 0..runLeaseMaxCommits]
        /\ lease # NoLease /\ lease.generation = run.generation /\ lease.commitCount < runLeaseMaxCommits
    <2>1. CASE run.lease = NoLease
      BY <1>2, <2>1, Limits DEF NoLease, Generations
    <2>2. CASE run.lease # NoLease
      BY <1>1, <1>2, <2>2, RunTyped DEF RunHolds, Executing
    <2> QED
      BY <2>1, <2>2
  <1> HIDE DEF lease, run
  <1>6. /\ x \in RunRecords /\ x.status = "running" /\ x.generation = run.generation
        /\ x.committed = run.committed /\ x.roots = run.roots /\ x.lease = lease
    BY <1>2, <1>5 DEF RunRecords, RunStatuses
  <1>7. /\ w \in Windows /\ w.kind = doc.window.kind /\ w.submissions = doc.window.submissions
        /\ w.required = doc.window.required /\ w.actions = doc.window.actions
        /\ w.baseRevision = doc.window.baseRevision
        /\ doc.window = NoWindow => w = doc.window
    BY <1>2, NoWindowTyped DEF Windows
  <1> HIDE DEF x, w
  <1>8. RunHolds(x, Len(doc.history)) /\ RootsPending(x, Pending(doc))
    BY <1>2, <1>5, <1>6 DEF RunHolds, RootsPending
  <1>9. WindowFits(w, "running", Len(doc.history), External(doc)) /\ AnswersPending(w, Pending(doc))
    <2>1. CASE doc.window = NoWindow
      BY <1>2, <1>7, <2>1 DEF WindowFits
    <2>2. CASE doc.window # NoWindow
      BY <1>2, <1>7, <2>2, NoWindowTyped
         DEF WindowFits, AnswersPending, SubmittedIntents, Submitted, Live, Executing
    <2> QED
      BY <2>1, <2>2
  <1>10. /\ DocHolds(d) /\ Forward(doc.runs, d.runs) /\ CurrentStatus(d) = "running"
         /\ d.runs[Len(doc.runs)] = x /\ d.history = doc.history /\ d.intents = doc.intents
         /\ Len(d.runs) = Len(doc.runs)
    BY <1>1, <1>2, <1>6, <1>7, <1>8, <1>9, NewestChanges DEF run
  <1>11. /\ DOMAIN d.runs = DOMAIN doc.runs /\ Len(doc.runs) \in DOMAIN d.runs
         /\ \A r \in DOMAIN doc.runs : d.runs[r].generation = doc.runs[r].generation
    <2>1. d.runs = WithNewest(doc.runs, x) /\ Len(doc.runs) \in DOMAIN doc.runs
      BY <1>1, <1>2, <1>10, DocumentTyped DEF With, DocHolds, Documents
    <2>2. \A r \in DOMAIN doc.runs : r # Len(doc.runs) => d.runs[r] = doc.runs[r]
      BY <2>1 DEF WithNewest
    <2>3. DOMAIN d.runs = DOMAIN doc.runs
      BY <2>1 DEF WithNewest
    <2> QED
      BY <1>6, <1>10, <2>1, <2>2, <2>3 DEF run
  <1>12. d \in Documents
    BY <1>10 DEF DocHolds, DocTyped
  <1> HIDE DEF d
  <1>13. /\ doc' = d /\ arrival' \subseteq ArrivalType /\ \A a, b \in arrival' : a = b
         /\ ArrivalHolds'
    BY <1>2, <1>3, PersistHolds
  <1>14. WorkTyped'
    <2>1. /\ new.run \in RunIds /\ new.generation \in Generations /\ new.caller \in Callers
          /\ new.snapshot \in Documents
      BY <1>2, <1>4, <1>12
    <2> HIDE DEF new
    <2> QED
      BY <1>2, <1>3, <1>4, <1>13, <2>1 DEF WorkTyped, TimerType
  <1>15. AttemptsHold'
    <2>1. \A t \in attempts : ~SameGeneration(t)
      BY <1>1, <1>2, NobodyWorks
    <2>2. \A t \in attempts : /\ t.run \in DOMAIN doc.runs /\ t.generation <= doc.runs[t.run].generation
                              /\ t.generation # doc.runs[t.run].generation
      BY <2>1 DEF IInv, AttemptsHold, SameGeneration
    <2>3. \A t \in attempts : /\ t.run \in DOMAIN d.runs /\ t.generation <= d.runs[t.run].generation
                              /\ t.generation # d.runs[t.run].generation
      BY <1>11, <2>2
    <2>4. /\ new.run = Len(d.runs) /\ new.run \in DOMAIN d.runs /\ new.generation = d.runs[new.run].generation
          /\ d.runs[new.run].status = "running" /\ new.generation <= d.runs[new.run].generation
          /\ Agree(d, new.snapshot)
      BY <1>2, <1>6, <1>10, <1>11 DEF Agree
    <2> HIDE DEF new
    <2> QED
      BY <1>3, <1>13, <2>3, <2>4 DEF AttemptsHold, SameGeneration
  <1>16. DrivesHold'
    <2>1. /\ new \in attempts' /\ new.run = Len(d.runs) /\ new.run \in DOMAIN d.runs
          /\ d.runs[new.run].generation = new.generation
      BY <1>3, <1>6, <1>10, <1>11
    <2> HIDE DEF new
    <2>2. PICK t \in attempts' : /\ t.run = Len(d.runs) /\ t.run \in DOMAIN d.runs
                                /\ d.runs[t.run].generation = t.generation
      BY <2>1
    <2>3. SameGeneration(t)'
      BY <1>13, <2>2 DEF SameGeneration
    <2> QED
      BY <1>10, <1>13, <2>2, <2>3, DrivesNewest
  <1> QED
    BY <1>10, <1>13, <1>14, <1>15, <1>16 DEF IInv, Follows, LineStep

(* The attempt that works for the newest run writes a document and ends;   *)
(* the loop of driveRun goes on with a run it leaves queued.               *)
LEMMA AttemptWrites ==
  ASSUME IInv, NEW attempt \in attempts, SameGeneration(attempt),
         NEW e, Persist(e), AttemptEnds(attempt, e), DocHolds(e), Forward(doc.runs, e.runs),
         CurrentStatus(e) # "running",
         CurrentStatus(e) = "queued" => Len(e.runs) = attempt.run
  PROVE  IInv' /\ Forward(doc.runs, doc'.runs) /\ doc' = e
  <1>1. /\ attempts' = attempts \ {attempt} /\ UNCHANGED ticks
        /\ drives \subseteq drives' /\ drives' \subseteq drives \cup {[run |-> attempt.run, caller |-> attempt.caller]}
        /\ timer' \in {timer, Rearmed(e, timer)}
    BY DEF AttemptEnds
  <1>2. \A t \in attempts' : ~SameGeneration(t)
    BY <1>1 DEF IInv, AttemptsHold
  <1>3. drives' \subseteq [run : RunIds, caller : Callers] /\ ticks' \subseteq 0..MaxRevision
    BY <1>1 DEF IInv, WorkTyped
  <1>4. timer' \in TimerType
    BY <1>1, TimersTyped DEF DocHolds, IInv, WorkTyped, TimerType
  <1>5. ASSUME CurrentStatus(e) = "queued" PROVE \E drive \in drives' : drive.run = Len(e.runs)
    <2>1. e.runs # <<>> /\ e.runs[attempt.run].status = "queued" /\ Len(e.runs) = attempt.run
      BY <1>5 DEF CurrentStatus
    <2>2. attempt.run \in DOMAIN e.runs
      BY <2>1, DocumentTyped DEF DocHolds
    <2>3. [run |-> attempt.run, caller |-> attempt.caller] \in drives'
      BY <2>1, <2>2 DEF AttemptEnds
    <2> QED
      BY <2>1, <2>3
  <1>6. attempts' \subseteq attempts
    BY <1>1
  <1> QED
    BY <1>2, <1>3, <1>4, <1>5, <1>6, DocumentWritten

(* What an attempt that may write knows.                                    *)
LEMMA AttemptTyped ==
  ASSUME IInv, NEW attempt \in attempts, SameGeneration(attempt)
  PROVE  /\ doc.runs # <<>> /\ attempt.run = Len(doc.runs) /\ CurrentStatus(doc) = "running"
         /\ DocHolds(doc) /\ DocHolds(attempt.snapshot) /\ Agree(doc, attempt.snapshot)
  <1>1. /\ attempt.run \in DOMAIN doc.runs /\ attempt.run = Len(doc.runs)
        /\ doc.runs[attempt.run].status = "running" /\ Agree(doc, attempt.snapshot)
    BY DEF IInv, AttemptsHold
  <1>2. doc.runs # <<>>
    BY <1>1, EmptySeq
  <1>3. DocHolds(attempt.snapshot)
    BY <1>1, AgreeingHolds DEF IInv, WorkTyped
  <1> QED
    BY <1>1, <1>2, <1>3 DEF IInv, CurrentStatus

LEMMA FailAttemptHolds ==
  ASSUME IInv, NEW attempt \in attempts, FailAttempt(attempt)
  PROVE  IInv' /\ Follows
  <1>1. PICK status \in {"failed", "paused", "preparation-invalidated"} :
          LET d == [doc EXCEPT !.runs[attempt.run].status = status, !.window = NoWindow] IN
          SameGeneration(attempt) /\ Persist(d) /\ AttemptEnds(attempt, d)
    BY DEF FailAttempt
  <1> DEFINE run == doc.runs[Len(doc.runs)]
             x == [run EXCEPT !.status = status]
             d == With(doc, WithNewest(doc.runs, x), NoWindow)
  <1>2. /\ doc.runs # <<>> /\ attempt.run = Len(doc.runs) /\ run.status = "running"
        /\ SameGeneration(attempt)
    BY <1>1, AttemptTyped DEF CurrentStatus
  <1>3. /\ run \in RunRecords /\ RunHolds(run, Len(doc.history)) /\ RootsPending(run, Pending(doc))
        /\ doc \in Documents /\ DocHolds(doc) /\ run.generation \in Nat
    BY <1>2, NewestTyped
  <1>4. Persist(d) /\ AttemptEnds(attempt, d)
    <2>1. [doc EXCEPT !.runs[Len(doc.runs)].status = status, !.window = NoWindow] = d
      BY <1>3 DEF Documents, With, WithNewest
    <2> QED
      BY <1>1, <1>2, <2>1
  <1> HIDE DEF run
  <1>5. /\ x \in RunRecords /\ x.status = status /\ x.generation = run.generation
        /\ x.committed = run.committed /\ x.roots = run.roots /\ x.lease = run.lease
    BY <1>3 DEF RunRecords, RunStatuses
  <1> HIDE DEF x
  <1>6. RunHolds(x, Len(doc.history)) /\ RootsPending(x, Pending(doc))
    BY <1>3, <1>5 DEF RunHolds, RootsPending, Executing
  <1>7. WindowFits(NoWindow, x.status, Len(doc.history), External(doc)) /\ AnswersPending(NoWindow, Pending(doc))
    BY <1>5, NoWindowTyped DEF WindowFits, AnswersPending
  <1>8. /\ DocHolds(d) /\ Forward(doc.runs, d.runs) /\ CurrentStatus(d) = status
        /\ d.history = doc.history /\ d.intents = doc.intents
    BY <1>2, <1>3, <1>5, <1>6, <1>7, NoWindowTyped, NewestChanges DEF run
  <1> HIDE DEF d
  <1>9. IInv' /\ Forward(doc.runs, doc'.runs) /\ doc' = d
    BY <1>2, <1>4, <1>8, AttemptWrites
  <1> QED
    BY <1>8, <1>9 DEF Follows, LineStep

(* A boundary executes accepted intents no step has executed.              *)
LEMMA ExternalActionsPending ==
  ASSUME NEW s, DocHolds(s), s.runs # <<>>
  PROVE  /\ ExternalActions(s, Len(s.runs)) \subseteq Pending(s)
         /\ Pending(s) \subseteq Intents
  <1>1. AnswersPending(s.window, Pending(s)) /\ RootsPending(s.runs[Len(s.runs)], Pending(s))
    BY DEF DocHolds, IntentsHold
  <1>2. Pending(s) \subseteq Intents
    BY PendingTyped DEF DocHolds
  <1> QED
    BY <1>1, <1>2 DEF ExternalActions, AnswersPending, RootsPending

LEMMA AwaitReactionsHolds ==
  ASSUME IInv, NEW attempt \in attempts, NEW required \in SUBSET Agents,
         AwaitReactions(attempt, required)
  PROVE  IInv' /\ Follows
  <1> DEFINE s == attempt.snapshot
             run == s.runs[Len(s.runs)]
             actions == ExternalActions(s, Len(s.runs))
             w == Window("reaction", s, required, actions)
             x == [run EXCEPT !.status = "awaiting-reaction"]
             d == With(s, WithNewest(s.runs, x), w)
  <1>1. Current(attempt) /\ SameGeneration(attempt) /\ required \subseteq External(s)
    BY DEF AwaitReactions, Current
  <1>2. /\ doc.runs # <<>> /\ attempt.run = Len(doc.runs) /\ CurrentStatus(doc) = "running"
        /\ DocHolds(doc) /\ DocHolds(s) /\ Agree(doc, s)
    BY <1>1, AttemptTyped
  <1>3. /\ s.runs = doc.runs /\ s.history = doc.history /\ s.intents = doc.intents
        /\ attempt.run = Len(s.runs) /\ s.runs # <<>> /\ run.status = "running"
    BY <1>2 DEF Agree, CurrentStatus
  <1>4. /\ DocTyped(s) /\ s \in Documents /\ run \in RunRecords /\ RunHolds(run, Len(s.history))
        /\ RootsPending(run, Pending(s)) /\ run.generation \in Nat
    <2>1. DocTyped(s) /\ Len(s.runs) \in DOMAIN s.runs
      BY <1>2, <1>3, DocumentTyped DEF DocHolds
    <2>2. RunsHold(s.runs, Len(s.history)) /\ IntentsHold(s)
      BY <1>2 DEF DocHolds
    <2>3. run \in RunRecords /\ s \in Documents
      BY <2>1, DocumentTyped
    <2>4. RunHolds(run, Len(s.history)) /\ RootsPending(run, Pending(s))
      BY <1>3, <2>1, <2>2 DEF RunsHold, IntentsHold
    <2> QED
      BY <2>1, <2>3, <2>4, RunTyped
  <1>5. Persist(d) /\ AttemptEnds(attempt, d)
    <2>1. [s EXCEPT !.window = w, !.runs[Len(s.runs)].status = "awaiting-reaction"] = d
      <3> HIDE DEF w, s
      <3> QED
        BY <1>4 DEF Documents, With, WithNewest
    <2> QED
      BY <1>3, <2>1 DEF AwaitReactions
  <1>6. actions \subseteq Pending(s) /\ actions \in SUBSET Intents
    BY <1>2, <1>3, ExternalActionsPending
  <1> HIDE DEF s, actions
  <1>7. /\ w \in Windows /\ w # NoWindow
        /\ w.kind = "reaction" /\ w.status = "open" /\ w.baseRevision = Len(s.history)
        /\ w.required = required /\ w.actions = actions /\ w.submissions = NoSubmissions
    <2>1. Opened(w, "reaction", s, required, actions)
      BY <1>4, <1>6, OpenedWindow
    <2> QED
      BY <2>1 DEF Opened
  <1> HIDE DEF w
  <1>8. /\ x \in RunRecords /\ x.status = "awaiting-reaction" /\ x.generation = run.generation
        /\ x.committed = run.committed /\ x.roots = run.roots /\ x.lease = run.lease
    <2> HIDE DEF run
    <2> QED
      BY <1>4 DEF RunRecords, RunStatuses
  <1> HIDE DEF x, run
  <1>9. RunHolds(x, Len(s.history)) /\ RootsPending(x, Pending(s))
    BY <1>4, <1>8 DEF RunHolds, RootsPending, Executing
  <1>10. WindowFits(w, x.status, Len(s.history), External(s)) /\ AnswersPending(w, Pending(s))
    BY <1>1, <1>6, <1>7, <1>8, NoWindowTyped DEF WindowFits, AnswersPending, Live, NoSubmissions
  <1>11. x.generation >= run.generation
    BY <1>4, <1>8
  <1>12. /\ DocHolds(d) /\ Forward(s.runs, d.runs) /\ CurrentStatus(d) = "awaiting-reaction"
         /\ d.history = s.history /\ d.intents = s.intents
    BY <1>2, <1>3, <1>7, <1>8, <1>9, <1>10, <1>11, NewestChanges DEF run
  <1> HIDE DEF d
  <1>13. IInv' /\ Forward(doc.runs, doc'.runs) /\ doc' = d
    BY <1>1, <1>3, <1>5, <1>12, AttemptWrites
  <1> QED
    BY <1>3, <1>12, <1>13 DEF Follows, LineStep

(* The run after a commit that creates the revision m + 1.                  *)
Committing(run, m, status) ==
  [run EXCEPT !.status = status, !.committed = Append(@, m + 1), !.lease.commitCount = @ + 1]

SteppedRun(x, run, m, status) ==
  /\ x \in RunRecords /\ x.status = status /\ x.generation = run.generation
  /\ x.committed = Append(run.committed, m + 1) /\ RunHolds(x, m + 1)
  /\ Len(run.committed) \in Nat /\ Len(run.committed) <= m
  /\ \A k \in DOMAIN run.committed : run.committed[k] # m + 1
  /\ \A k \in DOMAIN run.committed : x.committed[k] = run.committed[k]
  /\ x.committed[Len(run.committed) + 1] = m + 1 /\ x.committed # <<>>
  /\ DOMAIN run.committed = 1 .. Len(run.committed) /\ DOMAIN x.committed = 1 .. (Len(run.committed) + 1)

LEMMA CommittingHolds ==
  ASSUME NEW run \in RunRecords, NEW m \in Nat, m < MaxRevision, RunHolds(run, m), run.status = "running",
         NEW status \in RunStatuses, status # "running",
         status = "queued" => run.lease.commitCount + 1 < runLeaseMaxCommits
  PROVE  SteppedRun(Committing(run, m, status), run, m, status)
  <1> DEFINE x == Committing(run, m, status)
             L == Len(run.committed)
             c == Append(run.committed, m + 1)
             lease == [run.lease EXCEPT !.commitCount = @ + 1]
  <1>1. /\ run.committed \in Seq(1..MaxRevision) /\ L \in Nat /\ DOMAIN run.committed = 1 .. L
        /\ m + 1 \in 1..MaxRevision
        /\ run.lease \in [generation : 0..MaxGeneration, commitCount : 0..runLeaseMaxCommits]
        /\ run.generation \in Nat /\ run.generation > 0
    BY RunTyped, Limits, LenProperties
  <1>2. /\ c \in Seq(1..MaxRevision) /\ Len(c) = L + 1
        /\ \A k \in 1 .. L : c[k] = run.committed[k]
        /\ c[L + 1] = m + 1
    BY <1>1, AppendProperties
  <1>3. DOMAIN c = 1 .. (L + 1) /\ c # <<>>
    BY <1>1, <1>2, LenProperties, EmptySeq
  <1>4. \A k \in 1 .. L : run.committed[k] \in 1..MaxRevision
    BY <1>1, ElementOfSeq
  <1>5. \A k \in 1 .. L : k <= run.committed[k] /\ run.committed[k] <= m
    BY <1>1 DEF RunHolds
  <1>6. L <= m
    BY <1>1, <1>4, <1>5
  <1>7. /\ lease \in [generation : 0..MaxGeneration, commitCount : 0..runLeaseMaxCommits]
        /\ lease.generation = run.generation /\ lease # NoLease
        /\ lease.commitCount = run.lease.commitCount + 1
    <2> DEFINE old == run.lease
    <2>1. old.generation = run.generation /\ old.commitCount < runLeaseMaxCommits
      BY DEF RunHolds, Executing
    <2>2. old \in [generation : 0..MaxGeneration, commitCount : 0..runLeaseMaxCommits] /\ lease = [old EXCEPT !.commitCount = @ + 1]
      BY <1>1
    <2> HIDE DEF old, lease
    <2>3. old.commitCount + 1 \in 0..runLeaseMaxCommits
      BY <2>1, <2>2, Limits
    <2>4. /\ lease \in [generation : 0..MaxGeneration, commitCount : 0..runLeaseMaxCommits]
          /\ lease.generation = run.generation /\ lease.commitCount = old.commitCount + 1
      BY <2>1, <2>2, <2>3
    <2>5. lease # NoLease
      BY <1>1, <2>4 DEF NoLease
    <2> QED
      BY <2>4, <2>5 DEF old
  <1>8. x = [run EXCEPT !.status = status, !.committed = c, !.lease = lease]
    BY DEF Committing, RunRecords
  <1> HIDE DEF c, lease
  <1>9. /\ x \in RunRecords /\ x.status = status /\ x.generation = run.generation
        /\ x.committed = c /\ x.lease = lease
    BY <1>2, <1>7, <1>8 DEF RunRecords
  <1>10. ASSUME NEW k \in 1 .. (L + 1)
         PROVE  k <= c[k] /\ c[k] <= m + 1
    <2> DEFINE v == c[k]
    <2>1. CASE k = L + 1
      BY <1>1, <1>2, <1>6, <2>1
    <2>2. CASE k # L + 1
      <3>1. k \in 1 .. L
        BY <1>1, <2>2
      <3>2. v \in 1..MaxRevision /\ k <= v /\ v <= m
        BY <1>2, <1>4, <1>5, <3>1
      <3> HIDE DEF v
      <3>3. k <= v /\ v <= m + 1
        BY <1>1, <3>1, <3>2
      <3> QED
        BY <3>3 DEF v
    <2> QED
      BY <2>1, <2>2
  <1> HIDE DEF x, L
  <1>11. RunHolds(x, m + 1)
    BY <1>3, <1>7, <1>9, <1>10 DEF RunHolds, Executing
  <1>12. \A k \in 1 .. L : run.committed[k] # m + 1
    BY <1>4, <1>5
  <1> QED
    BY <1>1, <1>2, <1>3, <1>6, <1>9, <1>11, <1>12 DEF SteppedRun, x, c, L

(* A document whose newest run has committed a step.                        *)
Stepping(s, S, engaged, x, w) ==
  [s EXCEPT !.history = Append(@, S), !.engaged = engaged, !.runs = WithNewest(s.runs, x), !.window = w]

SteppingTyped(e, s, S, x, w) ==
  /\ DocTyped(e) /\ e.history = Append(s.history, S) /\ Len(e.history) = Len(s.history) + 1
  /\ e.runs = WithNewest(s.runs, x) /\ Len(e.runs) = Len(s.runs) /\ e.runs # <<>>
  /\ DOMAIN e.runs = DOMAIN s.runs /\ Len(s.runs) \in DOMAIN s.runs
  /\ e.runs[Len(s.runs)] = x
  /\ \A r \in DOMAIN s.runs : r # Len(s.runs) => e.runs[r] = s.runs[r]
  /\ e.window = w /\ e.intents = s.intents /\ e.controls = s.controls
  /\ ExecutedBy(e) = ExecutedBy(s) \cup S

LEMMA SteppingIsTyped ==
  ASSUME NEW s, DocTyped(s), s.runs # <<>>, Len(s.history) < MaxRevision,
         NEW S \in SUBSET Intents, NEW engaged \in SUBSET Agents, NEW x \in RunRecords, NEW w \in Windows
  PROVE  SteppingTyped(Stepping(s, S, engaged, x, w), s, S, x, w)
  <1> DEFINE e == Stepping(s, S, engaged, x, w)
             history == Append(s.history, S)
             runs == WithNewest(s.runs, x)
             n == Len(s.runs)
             m == Len(s.history)
  <1>1. /\ s \in Documents /\ s.runs \in Seq(RunRecords) /\ n \in DOMAIN s.runs /\ n <= MaxRuns
        /\ DOMAIN s.runs = 1 .. n /\ n \in Nat
        /\ s.history \in Seq(SUBSET Intents) /\ m \in Nat /\ Len(s.intents) <= MaxIntents
    BY DocumentTyped
  <1>2. /\ runs \in Seq(RunRecords) /\ Len(runs) = n
        /\ \A r \in 1 .. n : runs[r] = IF r = n THEN x ELSE s.runs[r]
    BY <1>1, ExceptSeq DEF WithNewest
  <1>3. DOMAIN runs = 1 .. n /\ runs # <<>>
    BY <1>1, <1>2, LenProperties, EmptySeq
  <1>4. /\ history \in Seq(SUBSET Intents) /\ Len(history) = m + 1
        /\ \A k \in 1 .. m : history[k] = s.history[k]
        /\ history[m + 1] = S
    BY <1>1, AppendProperties
  <1>5. DOMAIN history = 1 .. (m + 1) /\ DOMAIN s.history = 1 .. m
    BY <1>1, <1>4, LenProperties
  <1>6. e = [s EXCEPT !.history = history, !.engaged = engaged, !.runs = runs, !.window = w]
    BY DEF Stepping
  <1> HIDE DEF history, runs, n, m
  <1>7. e \in Documents
    BY <1>1, <1>2, <1>4, <1>6 DEF Documents
  <1>8. /\ e.history = history /\ e.runs = runs /\ e.window = w /\ e.intents = s.intents
        /\ e.controls = s.controls
    BY <1>1, <1>6 DEF Documents
  <1> HIDE DEF e
  <1>9. DocTyped(e)
    BY <1>1, <1>2, <1>4, <1>7, <1>8, Limits DEF DocTyped, n, m
  <1>10. ExecutedBy(e) = ExecutedBy(s) \cup S
    <2>1. 1 .. (m + 1) = (1 .. m) \cup {m + 1}
      BY <1>1
    <2>2. \A i : i \in ExecutedBy(e) <=> \E k \in 1 .. (m + 1) : i \in history[k]
      BY <1>5, <1>8 DEF ExecutedBy
    <2>3. \A i : i \in ExecutedBy(s) <=> \E k \in 1 .. m : i \in s.history[k]
      BY <1>5 DEF ExecutedBy
    <2> QED
      BY <1>4, <2>1, <2>2, <2>3
  <1> QED
    BY <1>1, <1>2, <1>3, <1>4, <1>8, <1>9, <1>10 DEF SteppingTyped, e, history, runs, n, m

LEMMA ExtendedSequence ==
  ASSUME NEW T, NEW c \in Seq(T), NEW v \in T
  PROVE  SubSeq(Append(c, v), 1, Len(c)) = c
  <1>1. /\ Append(c, v) \in Seq(T) /\ Len(Append(c, v)) = Len(c) + 1 /\ Len(c) \in Nat
        /\ \A k \in 1 .. Len(c) : Append(c, v)[k] = c[k]
    BY AppendProperties, LenProperties
  <1> DEFINE e == Append(c, v)
             b == SubSeq(e, 1, Len(c))
  <1> HIDE DEF e
  <1>2. /\ b \in Seq(T) /\ Len(b) = Len(c)
        /\ \A k \in 1 .. Len(c) : b[k] = e[k]
    BY <1>1, SubSeqProperties DEF e
  <1> HIDE DEF b
  <1>3. \A k \in 1 .. Len(c) : b[k] = c[k]
    BY <1>1, <1>2 DEF e
  <1>4. b = c
    BY <1>2, <1>3, SeqEqual
  <1> QED
    BY <1>4 DEF b, e

(* A step of the newest run.                                                *)
StepRecorded(e, s, S, x) ==
  /\ DocHolds(e) /\ Forward(s.runs, e.runs) /\ CurrentStatus(e) = x.status
  /\ Len(e.runs) = Len(s.runs) /\ DOMAIN e.runs = DOMAIN s.runs
  /\ e.history = Append(s.history, S) /\ e.intents = s.intents /\ External(e) = External(s)

LEMMA SteppingHolds ==
  ASSUME NEW s, DocHolds(s), s.runs # <<>>, Len(s.history) < MaxRevision,
         NEW S \in SUBSET Pending(s), NEW engaged \in SUBSET Agents, NEW x, NEW w \in Windows,
         NEW status, SteppedRun(x, s.runs[Len(s.runs)], Len(s.history), status),
         s.runs[Len(s.runs)].status = "running",
         WindowFits(w, status, Len(s.history) + 1, External(s)), AnswersPending(w, {})
  PROVE  StepRecorded(Stepping(s, S, engaged, x, w), s, S, x)
  <1> DEFINE e == Stepping(s, S, engaged, x, w)
             n == Len(s.runs)
             m == Len(s.history)
             run == s.runs[n]
             L == Len(run.committed)
  <1>1. /\ DocTyped(s) /\ S \in SUBSET Intents /\ x \in RunRecords
    BY PendingTyped DEF DocHolds, SteppedRun
  <1>2. SteppingTyped(e, s, S, x, w)
    BY <1>1, SteppingIsTyped
  <1> HIDE DEF e
  <1>3. /\ n \in DOMAIN s.runs /\ DOMAIN s.runs = 1 .. n /\ n \in Nat /\ m \in Nat
        /\ \A r \in DOMAIN s.runs : s.runs[r] \in RunRecords
        /\ Len(s.intents) \in Nat
    BY <1>1, DocumentTyped
  <1>4. /\ x.status = status /\ x.generation = run.generation
        /\ x.committed = Append(run.committed, m + 1) /\ RunHolds(x, m + 1)
        /\ L \in Nat /\ L <= m
        /\ \A k \in DOMAIN run.committed : run.committed[k] # m + 1
        /\ \A k \in DOMAIN run.committed : x.committed[k] = run.committed[k]
        /\ x.committed[L + 1] = m + 1 /\ x.committed # <<>>
        /\ DOMAIN run.committed = 1 .. L /\ DOMAIN x.committed = 1 .. (L + 1)
    BY DEF SteppedRun
  <1>5. /\ DocTyped(e) /\ e.history = Append(s.history, S) /\ Len(e.history) = m + 1
        /\ Len(e.runs) = n /\ e.runs # <<>> /\ DOMAIN e.runs = DOMAIN s.runs
        /\ e.runs[n] = x /\ \A r \in DOMAIN s.runs : r # n => e.runs[r] = s.runs[r]
        /\ e.window = w /\ e.intents = s.intents /\ e.controls = s.controls
        /\ ExecutedBy(e) = ExecutedBy(s) \cup S
    BY <1>2 DEF SteppingTyped
  <1>6. /\ RunsHold(s.runs, m) /\ WindowHolds(s) /\ ControlsHold(s) /\ IntentsHold(s) /\ RevisionsHold(s)
    BY DEF DocHolds
  <1>7. /\ WindowFits(w, status, m + 1, External(s)) /\ run.status = "running"
    OBVIOUS
  <1> HIDE DEF n, m
  <1>8. \A r \in DOMAIN s.runs : \A k \in DOMAIN s.runs[r].committed : s.runs[r].committed[k] \in 1..MaxRevision
    <2> TAKE r \in DOMAIN s.runs
    <2>1. s.runs[r].committed \in Seq(1..MaxRevision)
      BY <1>3, RunTyped
    <2> QED
      BY <2>1, LenProperties, ElementOfSeq
  <1>9. RunsHold(e.runs, m + 1)
    <2> SUFFICES ASSUME NEW r \in DOMAIN s.runs
                 PROVE  RunHolds(e.runs[r], m + 1) /\ (e.runs[r].status \in Live => r = n)
      BY <1>5 DEF RunsHold
    <2>1. CASE r = n
      BY <1>4, <1>5, <2>1
    <2>2. CASE r # n
      <3>1. e.runs[r] = s.runs[r] /\ RunHolds(s.runs[r], m) /\ s.runs[r].status \notin Live
        BY <1>5, <1>6, <2>2 DEF RunsHold, n
      <3>2. RunHolds(s.runs[r], m + 1)
        BY <1>3, <1>8, <3>1, Limits DEF RunHolds
      <3> QED
        BY <3>1, <3>2
    <2> QED
      BY <2>1, <2>2
  <1>10. CurrentStatus(e) = status /\ External(e) = External(s)
    BY <1>4, <1>5 DEF CurrentStatus, External
  <1>11. WindowHolds(e)
    BY <1>5, <1>7, <1>10 DEF WindowHolds
  <1>12. ControlsHold(e)
    BY <1>5, <1>6 DEF ControlsHold
  <1>13. IntentsHold(e)
    <2>1. ExecutedBy(e) \subseteq 1 .. Len(e.intents)
      BY <1>5, <1>6 DEF IntentsHold, Pending
    <2>2. AnswersPending(w, Pending(e))
      BY DEF AnswersPending
    <2>3. RootsPending(e.runs[Len(e.runs)], Pending(e))
      BY <1>4, <1>5 DEF RootsPending
    <2> QED
      BY <1>5, <2>1, <2>2, <2>3 DEF IntentsHold
  <1>14. RevisionsHold(e)
    <2> SUFFICES ASSUME NEW k \in 1 .. (m + 1)
                 PROVE  \E o : Owners(e.runs, k) = {o}
      BY <1>5 DEF RevisionsHold
    <2>1. CASE k \in 1 .. m
      <3>1. \A r \in DOMAIN s.runs : \A i \in 1..MaxRevision :
              i \in DOMAIN e.runs[r].committed /\ e.runs[r].committed[i] = k
              <=> i \in DOMAIN s.runs[r].committed /\ s.runs[r].committed[i] = k
        <4> TAKE r \in DOMAIN s.runs
        <4> TAKE i \in 1..MaxRevision
        <4>1. CASE r # n
          BY <1>5, <4>1
        <4>2. CASE r = n
          <5>1. e.runs[r].committed = x.committed /\ s.runs[r].committed = run.committed /\ k # m + 1
            BY <1>3, <1>5, <2>1, <4>2
          <5>2. 1 .. (L + 1) = (1 .. L) \cup {L + 1}
            BY <1>4
          <5> QED
            BY <1>4, <5>1, <5>2
        <4> QED
          BY <4>1, <4>2
      <3>2. Owners(e.runs, k) = Owners(s.runs, k)
        BY <1>5, <3>1 DEF Owners
      <3>3. \E o : Owners(s.runs, k) = {o}
        BY <1>6, <2>1 DEF RevisionsHold, m
      <3> QED
        BY <3>2, <3>3
    <2>2. CASE k = m + 1
      <3>1. L + 1 \in 1..MaxRevision
        BY <1>3, <1>4, Limits DEF m
      <3>2. \A r \in DOMAIN s.runs : \A i \in DOMAIN s.runs[r].committed : s.runs[r].committed[i] # m + 1
        <4>1. \A r \in DOMAIN s.runs : \A i \in DOMAIN s.runs[r].committed : s.runs[r].committed[i] <= m
          BY <1>6 DEF RunsHold, RunHolds
        <4> QED
          BY <1>3, <1>8, <4>1
      <3>3. \A r \in DOMAIN s.runs : \A i \in 1..MaxRevision :
              i \in DOMAIN e.runs[r].committed /\ e.runs[r].committed[i] = k <=> r = n /\ i = L + 1
        <4> TAKE r \in DOMAIN s.runs
        <4> TAKE i \in 1..MaxRevision
        <4>1. CASE r # n
          BY <1>5, <2>2, <3>2, <4>1
        <4>2. CASE r = n
          <5>1. e.runs[r].committed = x.committed
            BY <1>5, <4>2
          <5>2. 1 .. (L + 1) = (1 .. L) \cup {L + 1} /\ L + 1 \notin 1 .. L
            <6>1. L \in Nat
              BY <1>4
            <6> HIDE DEF L
            <6> QED
              BY <6>1
          <5>3. /\ DOMAIN x.committed = 1 .. (L + 1) /\ x.committed[L + 1] = m + 1
                /\ \A l \in 1 .. L : x.committed[l] # m + 1
            BY <1>4
          <5> HIDE DEF L
          <5>4. i \in DOMAIN x.committed /\ x.committed[i] = m + 1 <=> i = L + 1
            BY <5>2, <5>3
          <5> QED
            BY <2>2, <4>2, <5>1, <5>4
        <4> QED
          BY <4>1, <4>2
      <3>4. Owners(e.runs, k) = {<<n, L + 1>>}
        BY <1>3, <1>5, <3>1, <3>3 DEF Owners
      <3> QED
        BY <3>4
    <2>3. m \in Nat
      BY <1>3
    <2>4. k \in 1 .. m \/ k = m + 1
      BY <2>3
    <2> QED
      BY <2>1, <2>2, <2>4
  <1>15. Forward(s.runs, e.runs)
    <2> SUFFICES ASSUME NEW r \in DOMAIN s.runs
                 PROVE  /\ e.runs[r].generation >= s.runs[r].generation
                        /\ SubSeq(e.runs[r].committed, 1, Len(s.runs[r].committed)) = s.runs[r].committed
                        /\ s.runs[r].status = "paused" =>
                             e.runs[r].status \in {"paused", "completed"} \/ e.runs[r].generation > s.runs[r].generation
      BY <1>5 DEF Forward
    <2>1. s.runs[r].committed \in Seq(1..MaxRevision) /\ s.runs[r].generation \in Nat
      BY <1>3, RunTyped
    <2>2. CASE r = n
      <3>1. m + 1 \in 1..MaxRevision
        BY <1>3, Limits DEF m
      <3>2. SubSeq(Append(run.committed, m + 1), 1, Len(run.committed)) = run.committed
        BY <2>1, <2>2, <3>1, ExtendedSequence
      <3>3. e.runs[r] = x /\ s.runs[r] = run
        BY <1>5, <2>2
      <3>4. x.generation = run.generation /\ run.generation \in Nat /\ x.committed = Append(run.committed, m + 1)
        BY <1>4, <2>1, <3>3
      <3>5. run.status # "paused"
        BY <1>7
      <3> HIDE DEF run
      <3> QED
        BY <3>2, <3>3, <3>4, <3>5
    <2>3. CASE r # n
      <3>1. SubSeq(s.runs[r].committed, 1, Len(s.runs[r].committed)) = s.runs[r].committed
        BY <2>1, SubSeqFull
      <3> QED
        BY <1>5, <2>1, <2>3, <3>1
    <2> QED
      BY <2>2, <2>3
  <1>16. DocHolds(e)
    BY <1>5, <1>9, <1>11, <1>12, <1>13, <1>14 DEF DocHolds
  <1> QED
    BY <1>4, <1>5, <1>10, <1>15, <1>16 DEF StepRecorded, e, n

(* Stepped in terms of the changes named above.                             *)
HandsOver(s, status, engaged) ==
  status = "completed" /\ s.runs[Len(s.runs)].requested = 0 /\ External(s) \ engaged # {}
SteppedWindow(s, S, engaged, x) ==
  IF HandsOver(s, x.status, engaged) \/ x.status = "awaiting-decision"
  THEN Window("decision", Stepping(s, S, engaged, x, s.window), External(s) \ engaged, {}) ELSE NoWindow
SteppedForm(s, S, engaged, x) ==
  LET w == SteppedWindow(s, S, engaged, x)
      e == Stepping(s, S, engaged, x, NoWindow)
  IN IF HandsOver(s, x.status, engaged)
     THEN With(e, WithAdded(e.runs, NewRun(0, "awaiting-decision")), w)
     ELSE Stepping(s, S, engaged, x, w)

StepsTo(s, engaged, rootComplete, wallTimeUp, status) ==
  LET run == s.runs[Len(s.runs)]
      m == Len(s.history)
      x == Committing(run, m, status)
  IN /\ status \in {"completed", "awaiting-decision", "budget-paused", "queued"}
     /\ status = "queued" => run.lease.commitCount + 1 < runLeaseMaxCommits
     /\ status = "awaiting-decision" => External(s) \ engaged # {}
     /\ SteppedRun(x, run, m, status)
     /\ Stepped(s, Len(s.runs), engaged, rootComplete, wallTimeUp)
          = SteppedForm(s, ExternalActions(s, Len(s.runs)), engaged, x)

LEMMA SteppedIsForm ==
  ASSUME NEW s, DocTyped(s), s.runs # <<>>, Len(s.history) < MaxRevision,
         NEW engaged \in SUBSET Agents, NEW rootComplete \in BOOLEAN, NEW wallTimeUp \in BOOLEAN,
         ExternalActions(s, Len(s.runs)) \subseteq Intents,
         RunHolds(s.runs[Len(s.runs)], Len(s.history)), s.runs[Len(s.runs)].status = "running"
  PROVE  \E status \in RunStatuses : StepsTo(s, engaged, rootComplete, wallTimeUp, status)
  <1> DEFINE n == Len(s.runs)
             m == Len(s.history)
             run == s.runs[n]
             S == ExternalActions(s, n)
             history == Append(s.history, S)
             required == External(s) \ engaged
             counted == [run EXCEPT !.committed = Append(@, m + 1), !.lease.commitCount = @ + 1]
             status == NextStatus(counted, rootComplete, required, wallTimeUp)
             x == Committing(run, m, status)
             stepped == Stepping(s, S, engaged, x, s.window)
             w == SteppedWindow(s, S, engaged, x)
             e == Stepping(s, S, engaged, x, NoWindow)
             handsOver == HandsOver(s, status, engaged)
  <1>1. /\ s \in Documents /\ run \in RunRecords /\ m \in Nat /\ n \in DOMAIN s.runs
        /\ s.history \in Seq(SUBSET Intents) /\ S \in SUBSET Intents /\ s.window \in Windows
    BY DocumentTyped
  <1>2. Len(history) = m + 1
    BY <1>1, AppendProperties
  <1>3. /\ counted.lease.commitCount = run.lease.commitCount + 1 /\ counted.requested = run.requested
        /\ run.lease.commitCount \in Nat
    <2> HIDE DEF run
    <2>1. /\ counted.lease.commitCount = run.lease.commitCount + 1 /\ counted.requested = run.requested
      BY <1>1 DEF RunRecords
    <2>2. run.lease.commitCount \in 0..runLeaseMaxCommits
      BY <1>1 DEF RunRecords
    <2> QED
      BY <2>1, <2>2, Limits
  <1>4. /\ status \in {"completed", "awaiting-decision", "budget-paused", "queued"}
        /\ status = "queued" => run.lease.commitCount + 1 < runLeaseMaxCommits
        /\ status = "awaiting-decision" => required # {}
        /\ status \in RunStatuses
    <2> HIDE DEF counted, required, run
    <2>1. /\ status \in {"completed", "awaiting-decision", "budget-paused", "queued"}
          /\ status = "queued" => ~(counted.lease.commitCount >= runLeaseMaxCommits)
          /\ status = "awaiting-decision" => required # {}
      BY DEF NextStatus
    <2> HIDE DEF status
    <2> QED
      BY <1>3, <2>1, Limits DEF RunStatuses
  <1>5. SteppedRun(x, run, m, status)
    <2> HIDE DEF status, run, m
    <2> QED
      BY <1>1, <1>4, CommittingHolds DEF run, m
  <1>6. x.status = status
    BY <1>5 DEF SteppedRun
  <1>7. x = [counted EXCEPT !.status = status]
    <2> HIDE DEF status, run, m
    <2> QED
      BY <1>1 DEF Committing, RunRecords
  <1>8. Stepped(s, n, engaged, rootComplete, wallTimeUp)
          = [[s EXCEPT !.history = history, !.engaged = engaged, !.runs[n] = [counted EXCEPT !.status = status]]
              EXCEPT !.runs = IF status = "completed" /\ counted.requested = 0 /\ required # {}
                              THEN Append(@, NewRun(0, "awaiting-decision")) ELSE @,
                     !.window = IF (status = "completed" /\ counted.requested = 0 /\ required # {})
                                    \/ status = "awaiting-decision"
                                THEN Window("decision",
                                       [s EXCEPT !.history = history, !.engaged = engaged,
                                                 !.runs[n] = [counted EXCEPT !.status = status]], required, {})
                                ELSE NoWindow]
    BY <1>2 DEF Stepped
  <1>9. stepped = [s EXCEPT !.history = history, !.engaged = engaged, !.runs[n] = [counted EXCEPT !.status = status]]
    <2> HIDE DEF x, S, counted, status
    <2> QED
      BY <1>1, <1>7 DEF Stepping, WithNewest, Documents
  <1>10. handsOver <=> status = "completed" /\ counted.requested = 0 /\ required # {}
    <2> HIDE DEF status, counted
    <2> QED
      BY <1>3 DEF HandsOver
  <1>11. w = IF handsOver \/ status = "awaiting-decision" THEN Window("decision", stepped, required, {}) ELSE NoWindow
    <2> HIDE DEF x, status, stepped
    <2> QED
      BY <1>6 DEF SteppedWindow, stepped
  <1>12. Stepped(s, n, engaged, rootComplete, wallTimeUp)
           = [stepped EXCEPT !.runs = IF handsOver THEN Append(@, NewRun(0, "awaiting-decision")) ELSE @, !.window = w]
    <2> HIDE DEF status, counted, stepped, handsOver, w, required
    <2> QED
      BY <1>8, <1>9, <1>10, <1>11
  <1> HIDE DEF w, handsOver, status
  <1>13. CASE handsOver
    <2>1. Stepped(s, n, engaged, rootComplete, wallTimeUp)
            = [stepped EXCEPT !.runs = Append(stepped.runs, NewRun(0, "awaiting-decision")), !.window = w]
      <3> HIDE DEF stepped
      <3> QED
        BY <1>12, <1>13
    <2>2. With(e, WithAdded(e.runs, NewRun(0, "awaiting-decision")), w)
            = [stepped EXCEPT !.runs = Append(stepped.runs, NewRun(0, "awaiting-decision")), !.window = w]
      <3> HIDE DEF S, x
      <3> QED
        BY <1>1 DEF Stepping, With, WithAdded, Documents
    <2>3. SteppedForm(s, S, engaged, x) = With(e, WithAdded(e.runs, NewRun(0, "awaiting-decision")), w)
      <3> HIDE DEF x, e
      <3> QED
        BY <1>6, <1>13 DEF SteppedForm, handsOver, e, w
    <2> QED
      BY <1>4, <1>5, <2>1, <2>2, <2>3 DEF StepsTo
  <1>14. CASE ~handsOver
    <2>1. Stepped(s, n, engaged, rootComplete, wallTimeUp) = [stepped EXCEPT !.runs = stepped.runs, !.window = w]
      <3> HIDE DEF stepped
      <3> QED
        BY <1>12, <1>14
    <2>2. Stepping(s, S, engaged, x, w) = [stepped EXCEPT !.runs = stepped.runs, !.window = w]
      <3> HIDE DEF S, x
      <3> QED
        BY <1>1 DEF Stepping, Documents
    <2>3. SteppedForm(s, S, engaged, x) = Stepping(s, S, engaged, x, w)
      <3> HIDE DEF x
      <3> QED
        BY <1>6, <1>14 DEF SteppedForm, handsOver, w
    <2> QED
      BY <1>4, <1>5, <2>1, <2>2, <2>3 DEF StepsTo
  <1> QED
    BY <1>13, <1>14

(* What a commit makes of a document, whichever way the run goes on.        *)
Committed(d, s, S) ==
  /\ DocHolds(d) /\ Forward(s.runs, d.runs) /\ CurrentStatus(d) # "running"
  /\ CurrentStatus(d) = "queued" => Len(d.runs) = Len(s.runs)
  /\ d.history = Append(s.history, S) /\ d.intents = s.intents

LEMMA SteppedFormHolds ==
  ASSUME NEW s, DocHolds(s), s.runs # <<>>, Len(s.history) < MaxRevision,
         NEW S \in SUBSET Pending(s), NEW engaged \in SUBSET Agents, NEW x,
         NEW status \in {"completed", "awaiting-decision", "budget-paused", "queued"},
         status = "awaiting-decision" => External(s) \ engaged # {},
         SteppedRun(x, s.runs[Len(s.runs)], Len(s.history), status),
         s.runs[Len(s.runs)].status = "running",
         Len(SteppedForm(s, S, engaged, x).runs) <= MaxRuns
  PROVE  Committed(SteppedForm(s, S, engaged, x), s, S)
  <1> DEFINE n == Len(s.runs)
             m == Len(s.history)
             required == External(s) \ engaged
             stepped == Stepping(s, S, engaged, x, s.window)
             w == SteppedWindow(s, S, engaged, x)
             e == Stepping(s, S, engaged, x, NoWindow)
             handsOver == HandsOver(s, status, engaged)
  <1>1. /\ DocTyped(s) /\ S \in SUBSET Intents /\ x \in RunRecords /\ x.status = status
        /\ s.window \in Windows /\ m \in Nat /\ n \in Nat /\ n <= MaxRuns
        /\ required \subseteq Agents /\ required \subseteq External(s)
    BY PendingTyped, DocumentTyped, WindowsAskExternal DEF DocHolds, SteppedRun
  <1>2. DocTyped(stepped) /\ Len(stepped.history) = m + 1
    <2>1. SteppingTyped(stepped, s, S, x, s.window)
      BY <1>1, SteppingIsTyped
    <2> QED
      BY <2>1 DEF SteppingTyped
  <1>3. w = IF handsOver \/ status = "awaiting-decision" THEN Window("decision", stepped, required, {}) ELSE NoWindow
    BY <1>1 DEF SteppedWindow
  <1> HIDE DEF stepped, w, e, required
  <1>4. ASSUME w # NoWindow
        PROVE  /\ w \in Windows /\ w.kind = "decision" /\ w.status = "open" /\ w.baseRevision = m + 1
               /\ w.required = required /\ w.submissions = NoSubmissions /\ SubmittedIntents(w) = {}
    <2>1. Opened(Window("decision", stepped, required, {}), "decision", stepped, required, {})
      BY <1>1, <1>2, OpenedWindow
    <2> HIDE DEF handsOver
    <2>2. Opened(w, "decision", stepped, required, {})
      BY <1>3, <1>4, <2>1
    <2> QED
      BY <1>2, <2>2 DEF Opened
  <1>5. w \in Windows /\ AnswersPending(w, {})
    BY <1>4, NoWindowTyped DEF AnswersPending
  <1>6. ASSUME w # NoWindow
        PROVE  WindowFits(w, "awaiting-decision", m + 1, External(s))
    <2>1. {a \in Agents : w.submissions[a] # 0} = {}
      BY <1>4, <1>6 DEF NoSubmissions
    <2> QED
      BY <1>1, <1>4, <1>6, <2>1, NoWindowTyped DEF WindowFits, Live
  <1>7. CASE ~handsOver
    <2>1. status = "awaiting-decision" => w # NoWindow
      <3>1. Opened(Window("decision", stepped, required, {}), "decision", stepped, required, {})
        BY <1>1, <1>2, OpenedWindow
      <3> QED
        BY <1>3, <3>1 DEF Opened
    <2>2. WindowFits(w, status, m + 1, External(s))
      <3>1. CASE status = "awaiting-decision"
        BY <1>6, <2>1, <3>1
      <3>2. CASE status # "awaiting-decision"
        BY <1>3, <1>7, <3>2, NoWindowTyped DEF WindowFits
      <3> QED
        BY <3>1, <3>2
    <2> DEFINE d == Stepping(s, S, engaged, x, w)
    <2>3. StepRecorded(d, s, S, x)
      BY <1>5, <2>2, SteppingHolds
    <2>4. SteppedForm(s, S, engaged, x) = d
      BY <1>1, <1>7 DEF SteppedForm, w
    <2> HIDE DEF d
    <2> QED
      BY <1>1, <2>3, <2>4 DEF StepRecorded, Committed
  <1>8. CASE handsOver
    <2> DEFINE y == NewRun(0, "awaiting-decision")
               d == With(e, WithAdded(e.runs, y), w)
    <2>1. status = "completed"
      BY <1>8 DEF HandsOver
    <2>2. w # NoWindow
      <3>1. Opened(Window("decision", stepped, required, {}), "decision", stepped, required, {})
        BY <1>1, <1>2, OpenedWindow
      <3> QED
        BY <1>3, <1>8, <3>1 DEF Opened
    <2>3. WindowFits(NoWindow, status, m + 1, External(s)) /\ AnswersPending(NoWindow, {})
      BY <2>1, NoWindowTyped DEF WindowFits, AnswersPending
    <2>4. StepRecorded(e, s, S, x)
      BY <2>3, NoWindowTyped, SteppingHolds DEF e
    <2>5. /\ DocHolds(e) /\ Forward(s.runs, e.runs) /\ CurrentStatus(e) = "completed" /\ Len(e.runs) = n
          /\ DOMAIN e.runs = DOMAIN s.runs
          /\ e.history = Append(s.history, S) /\ e.intents = s.intents /\ External(e) = External(s)
      BY <1>1, <2>1, <2>4 DEF StepRecorded
    <2>6. SteppedForm(s, S, engaged, x) = d
      BY <1>1, <1>8 DEF SteppedForm, w, e
    <2>7. DocTyped(e) /\ e.runs \in Seq(RunRecords) /\ RunsHold(e.runs, Len(e.history)) /\ Len(e.history) = m + 1
      <3>1. s.history \in Seq(SUBSET Intents)
        BY <1>1, DocumentTyped
      <3>2. Len(Append(s.history, S)) = m + 1
        BY <1>1, <3>1, AppendProperties
      <3> QED
        BY <2>5, <3>2, DocumentTyped DEF DocHolds
    <2>8. /\ y \in RunRecords /\ y.committed = <<>> /\ y.roots = {} /\ y.lease = NoLease
          /\ y.status = "awaiting-decision"
      BY NewRunTyped DEF RunStatuses
    <2> HIDE DEF y
    <2>9. RunHolds(y, Len(e.history)) /\ RootsPending(y, Pending(e))
      BY <2>8, EmptySeq DEF RunHolds, Executing, RootsPending
    <2>10. WindowFits(w, y.status, Len(e.history), External(e)) /\ AnswersPending(w, Pending(e))
      BY <1>5, <1>6, <2>2, <2>5, <2>7, <2>8 DEF AnswersPending
    <2>11. e.runs # <<>> => e.runs[Len(e.runs)].status \notin Live
      BY <2>5 DEF CurrentStatus, Live, Executing
    <2>12. /\ Len(WithAdded(e.runs, y)) = n + 1
           /\ \A r \in DOMAIN e.runs : r \in DOMAIN WithAdded(e.runs, y) /\ WithAdded(e.runs, y)[r] = e.runs[r]
      BY <2>5, <2>7, <2>8, <2>9, <2>11, RunAdded
    <2>13. d.runs = WithAdded(e.runs, y)
      BY <2>7 DEF With, DocTyped, Documents
    <2>14. n < MaxRuns
      BY <1>1, <2>6, <2>12, <2>13, Limits
    <2>15. /\ DocHolds(d) /\ CurrentStatus(d) = "awaiting-decision"
           /\ d.history = e.history /\ d.intents = e.intents
      <3>1. w \in Windows
        BY <1>5
      <3> QED
        BY <2>5, <2>8, <2>9, <2>10, <2>11, <2>14, <3>1, NewestAdded
    <2> HIDE DEF d
    <2>16. Forward(s.runs, d.runs)
      BY <2>5, <2>12, <2>13 DEF Forward
    <2> QED
      BY <2>5, <2>6, <2>15, <2>16 DEF Committed
  <1> QED
    BY <1>7, <1>8

LEMMA CommitAttemptHolds ==
  ASSUME IInv, NEW attempt \in attempts, CommitAttempt(attempt)
  PROVE  IInv' /\ Follows
  <1> DEFINE s == attempt.snapshot
             S == ExternalActions(s, Len(s.runs))
  <1>1. PICK engaged \in SUBSET Agents, rootComplete \in BOOLEAN, wallTimeUp \in BOOLEAN :
          LET d == Stepped(s, attempt.run, engaged, rootComplete, wallTimeUp) IN
          /\ Len(doc.history) < MaxRevision /\ Current(attempt) /\ Len(d.runs) <= MaxRuns
          /\ Persist(d) /\ AttemptEnds(attempt, d)
    BY DEF CommitAttempt
  <1>2. /\ doc.runs # <<>> /\ attempt.run = Len(doc.runs) /\ CurrentStatus(doc) = "running"
        /\ SameGeneration(attempt)
        /\ DocHolds(s) /\ Agree(doc, s)
    BY <1>1, AttemptTyped DEF Current
  <1>3. /\ s.runs = doc.runs /\ s.history = doc.history /\ s.intents = doc.intents
        /\ attempt.run = Len(s.runs) /\ s.runs # <<>> /\ s.runs[Len(s.runs)].status = "running"
        /\ Pending(s) = Pending(doc) /\ Len(s.history) < MaxRevision
    BY <1>1, <1>2 DEF Agree, CurrentStatus, Pending, ExecutedBy
  <1>4. S \subseteq Pending(s) /\ S \subseteq Intents
    BY <1>2, <1>3, ExternalActionsPending
  <1>5. DocTyped(s) /\ RunHolds(s.runs[Len(s.runs)], Len(s.history))
    <2>1. DocTyped(s) /\ RunsHold(s.runs, Len(s.history))
      BY <1>2 DEF DocHolds
    <2>2. Len(s.runs) \in DOMAIN s.runs
      BY <1>3, <2>1, DocumentTyped
    <2> QED
      BY <2>1, <2>2 DEF RunsHold
  <1> HIDE DEF s
  <1>6. PICK status \in RunStatuses : StepsTo(s, engaged, rootComplete, wallTimeUp, status)
    BY <1>3, <1>4, <1>5, SteppedIsForm
  <1> DEFINE x == Committing(s.runs[Len(s.runs)], Len(s.history), status)
             d == SteppedForm(s, S, engaged, x)
  <1> HIDE DEF S, x
  <1>7. Stepped(s, attempt.run, engaged, rootComplete, wallTimeUp) = d
    BY <1>3, <1>6 DEF x, S, StepsTo
  <1>8. Persist(d) /\ AttemptEnds(attempt, d) /\ Len(d.runs) <= MaxRuns
    BY <1>1, <1>7
  <1>9. /\ SteppedRun(x, s.runs[Len(s.runs)], Len(s.history), status)
        /\ status = "awaiting-decision" => External(s) \ engaged # {}
        /\ status \in {"completed", "awaiting-decision", "budget-paused", "queued"}
    BY <1>6 DEF x, StepsTo
  <1>10. Committed(d, s, S)
    BY <1>2, <1>3, <1>4, <1>8, <1>9, SteppedFormHolds
  <1> HIDE DEF d
  <1>11. /\ DocHolds(d) /\ Forward(doc.runs, d.runs) /\ CurrentStatus(d) # "running"
         /\ CurrentStatus(d) = "queued" => Len(d.runs) = attempt.run
         /\ d.history = Append(doc.history, S) /\ d.intents = doc.intents
    BY <1>3, <1>10 DEF Committed
  <1>12. IInv' /\ Forward(doc.runs, doc'.runs) /\ doc' = d
    BY <1>2, <1>8, <1>11, AttemptWrites
  <1> QED
    BY <1>3, <1>4, <1>11, <1>12 DEF Follows, LineStep

(* An intent is accepted.                                                   *)
Accepting(d, a) == [d EXCEPT !.intents = Append(@, a)]
IntentAccepted(e, d) ==
  /\ DocHolds(e) /\ e.runs = d.runs /\ e.history = d.history /\ e.window = d.window
  /\ e.controls = d.controls /\ e.title = d.title
  /\ Len(e.intents) = Len(d.intents) + 1
  /\ Pending(e) = Pending(d) \cup {Len(d.intents) + 1}

LEMMA AcceptingHolds ==
  ASSUME NEW d, DocHolds(d), NEW a \in Agents, Len(d.intents) < MaxIntents
  PROVE  IntentAccepted(Accepting(d, a), d)
  <1> DEFINE e == Accepting(d, a)
             intents == Append(d.intents, a)
             L == Len(d.intents)
  <1>1. /\ DocTyped(d) /\ d \in Documents /\ d.intents \in Seq(Agents) /\ L \in Nat
        /\ d.runs \in Seq(RunRecords)
        /\ Len(d.runs) <= MaxRuns /\ Len(d.history) <= MaxRevision
    BY DocumentTyped DEF DocHolds
  <1>2. intents \in Seq(Agents) /\ Len(intents) = L + 1
    BY <1>1, AppendProperties
  <1>3. e = [d EXCEPT !.intents = intents]
    BY DEF Accepting
  <1> HIDE DEF intents
  <1>4. /\ e \in Documents /\ e.runs = d.runs /\ e.history = d.history /\ e.window = d.window
        /\ e.controls = d.controls /\ e.title = d.title /\ e.intents = intents
    BY <1>1, <1>2, <1>3 DEF Documents
  <1> HIDE DEF e, L
  <1>5. L < MaxIntents /\ L + 1 <= MaxIntents
    BY <1>1, Limits DEF L
  <1>6. DocTyped(e)
    BY <1>1, <1>2, <1>4, <1>5 DEF DocTyped
  <1>7. ExecutedBy(e) = ExecutedBy(d) /\ CurrentStatus(e) = CurrentStatus(d) /\ External(e) = External(d)
    BY <1>4 DEF ExecutedBy, CurrentStatus, External
  <1>8. Pending(e) = Pending(d) \cup {L + 1}
    <2>1. 1 .. (L + 1) = (1 .. L) \cup {L + 1} /\ L + 1 \notin 1 .. L
      BY <1>1
    <2>2. ExecutedBy(d) \subseteq 1 .. L
      BY DEF DocHolds, IntentsHold, L
    <2> QED
      BY <1>2, <1>4, <1>7, <2>1, <2>2 DEF Pending, L
  <1>9. /\ AnswersPending(e.window, Pending(e))
        /\ e.runs # <<>> => RootsPending(e.runs[Len(e.runs)], Pending(e))
    BY <1>4, <1>8 DEF DocHolds, IntentsHold, AnswersPending, RootsPending
  <1>10. WindowHolds(e) /\ ControlsHold(e) /\ RunsHold(e.runs, Len(e.history))
    BY <1>4, <1>7 DEF DocHolds, WindowHolds, ControlsHold
  <1>11. Quiet(d.runs, e.runs)
    BY <1>1, <1>4, DocumentTyped, RunTyped DEF Quiet
  <1>12. Len(e.intents) >= Len(d.intents)
    BY <1>1, <1>2, <1>4 DEF L
  <1>13. DocHolds(e)
    BY <1>4, <1>6, <1>9, <1>10, <1>11, <1>12, DocumentChanges
  <1> QED
    BY <1>2, <1>4, <1>8, <1>13 DEF IntentAccepted, e, L

(* The window an intent fills.                                              *)
Collects(w, d) ==
  /\ w \in Windows /\ w.kind = "decision" /\ w.status = "open" /\ w.baseRevision = Len(d.history)
  /\ w.required \subseteq External(d)
  /\ {a \in Agents : w.submissions[a] # 0} \subseteq w.required
  /\ SubmittedIntents(w) \subseteq Pending(d)

LEMMA FilledCollects ==
  ASSUME NEW w, NEW d, NEW e, DocTyped(d), Collects(w, d), IntentAccepted(e, d), NEW a \in w.required,
         Len(d.intents) < MaxIntents
  PROVE  Collects([w EXCEPT !.submissions[a] = Len(d.intents) + 1], e)
  <1> DEFINE i == Len(d.intents) + 1
             submissions == [w.submissions EXCEPT ![a] = i]
             f == [w EXCEPT !.submissions = submissions]
  <1>1. /\ i \in 0..MaxIntents /\ w \in Windows /\ w.required \subseteq Agents
        /\ w.submissions \in [Agents -> 0..MaxIntents]
    BY DocumentTyped, Limits DEF Collects, Windows
  <1>2. /\ e.history = d.history /\ External(e) = External(d) /\ Pending(e) = Pending(d) \cup {i}
    BY DEF IntentAccepted, External
  <1>3. [w EXCEPT !.submissions[a] = Len(d.intents) + 1] = f
    BY <1>1 DEF Windows
  <1> HIDE DEF i
  <1>4. /\ submissions \in [Agents -> 0..MaxIntents]
        /\ \A b \in Agents : submissions[b] = IF b = a THEN i ELSE w.submissions[b]
    BY <1>1
  <1> HIDE DEF submissions
  <1>5. /\ f \in Windows /\ f.kind = w.kind /\ f.status = w.status /\ f.baseRevision = w.baseRevision
        /\ f.required = w.required /\ f.submissions = submissions
    BY <1>1, <1>4 DEF Windows
  <1> HIDE DEF f
  <1>6. SubmittedIntents(f) \subseteq SubmittedIntents(w) \cup {i}
    BY <1>1, <1>4, <1>5 DEF SubmittedIntents, Submitted
  <1>7. {b \in Agents : f.submissions[b] # 0} \subseteq f.required
    BY <1>4, <1>5 DEF Collects
  <1> QED
    BY <1>2, <1>3, <1>5, <1>6, <1>7 DEF Collects

LEMMA CollectsFits ==
  ASSUME NEW w, NEW d, Collects(w, d)
  PROVE  /\ w \in Windows /\ AnswersPending(w, Pending(d)) /\ w # NoWindow
         /\ WindowFits(w, "awaiting-decision", Len(d.history), External(d))
         /\ WindowFits(w, "queued", Len(d.history), External(d))
  BY NoWindowTyped DEF Collects, WindowFits, AnswersPending, Live, Executing

(* The document a submission writes.                                        *)
Submitting(d) ==
  /\ DocHolds(d) /\ Forward(doc.runs, d.runs) /\ d.history = doc.history
  /\ Len(d.intents) = Len(doc.intents) + 1

LEMMA SubmissionWritten ==
  ASSUME IInv, NEW d, Submitting(d), CurrentStatus(doc) # "running",
         CurrentStatus(d) \in {"queued", "awaiting-decision"}, Persist(d), UNCHANGED <<attempts, ticks>>,
         CurrentStatus(d) = "queued" => drives' = Due(Len(d.runs)) /\ timer' = timer,
         CurrentStatus(d) # "queued" => drives' = drives /\ timer' = DeadlineTimer(d)
  PROVE  IInv' /\ Follows
  <1>1. \A t \in attempts' : ~SameGeneration(t)
    BY NobodyWorks
  <1>2. timer' \in TimerType /\ ticks' \subseteq 0..MaxRevision
    BY TimersTyped DEF Submitting, DocHolds, IInv, WorkTyped, TimerType
  <1>3. Len(d.runs) \in RunIds
    <2>1. d.runs # <<>>
      BY DEF CurrentStatus
    <2> QED
      BY <2>1, DocumentTyped DEF Submitting, DocHolds
  <1>4. drives' \subseteq [run : RunIds, caller : Callers]
    BY <1>3, DueTyped DEF IInv, WorkTyped
  <1>5. CurrentStatus(d) = "queued" => \E drive \in drives' : drive.run = Len(d.runs)
    BY <1>3, DueTyped
  <1>6. IInv' /\ Forward(doc.runs, doc'.runs) /\ doc' = d
    BY <1>1, <1>2, <1>4, <1>5, DocumentWritten DEF Submitting
  <1> QED
    BY <1>6 DEF Follows, LineStep, Submitting

(* The newest run is asked for decisions and gets one more.                 *)
LEMMA DecisionAdded ==
  ASSUME IInv, NEW a \in Agents, Len(doc.intents) < MaxIntents, doc.runs # <<>>,
         CurrentStatus(doc) = "awaiting-decision", doc.runs[Len(doc.runs)].generation < MaxGeneration,
         NEW filled, Collects(filled, Accepting(doc, a)),
         NEW x, LET run == doc.runs[Len(doc.runs)] IN
                x = IF Complete(filled)
                    THEN [NextGeneration(run, "queued") EXCEPT !.roots = SubmittedIntents(filled)] ELSE run,
         NEW d, d = With(Accepting(doc, a), WithNewest(doc.runs, x), filled)
  PROVE  /\ Submitting(d) /\ Len(d.runs) = Len(doc.runs)
         /\ CurrentStatus(d) = IF Complete(filled) THEN "queued" ELSE "awaiting-decision"
  <1> DEFINE run == doc.runs[Len(doc.runs)]
             e == Accepting(doc, a)
             m == Len(doc.history)
  <1>1. /\ run \in RunRecords /\ RunHolds(run, m) /\ RootsPending(run, Pending(doc))
        /\ DocHolds(doc) /\ run.generation \in Nat /\ run.status = "awaiting-decision"
        /\ doc.runs \in Seq(RunRecords)
    BY NewestTyped, DocumentTyped DEF DocHolds
  <1>2. IntentAccepted(e, doc)
    BY <1>1, AcceptingHolds
  <1> HIDE DEF e
  <1>3. /\ DocHolds(e) /\ e.runs = doc.runs /\ e.history = doc.history /\ e.window = doc.window
        /\ Len(e.intents) = Len(doc.intents) + 1
        /\ Pending(e) = Pending(doc) \cup {Len(doc.intents) + 1}
    BY <1>2 DEF IntentAccepted
  <1>4. /\ filled \in Windows /\ AnswersPending(filled, Pending(e))
        /\ WindowFits(filled, "awaiting-decision", m, External(e))
        /\ WindowFits(filled, "queued", m, External(e))
        /\ SubmittedIntents(filled) \subseteq Pending(e)
    BY <1>3, CollectsFits DEF Collects, e
  <1>5. SubmittedIntents(filled) \in SUBSET Intents
    BY <1>3, <1>4, PendingTyped DEF DocHolds
  <1>6. /\ x \in RunRecords /\ x.committed = run.committed /\ x.generation >= run.generation
        /\ RunHolds(x, m) /\ RootsPending(x, Pending(e))
        /\ x.status = IF Complete(filled) THEN "queued" ELSE "awaiting-decision"
    <2>1. CASE Complete(filled)
      <3> DEFINE y == [NextGeneration(run, "queued") EXCEPT !.roots = SubmittedIntents(filled)]
      <3>1. run.generation < MaxGeneration /\ x = y
        BY <2>1
      <3> HIDE DEF run
      <3>2. /\ y \in RunRecords /\ y.status = "queued" /\ y.generation = run.generation + 1
            /\ y.committed = run.committed /\ y.roots = SubmittedIntents(filled) /\ y.lease = NoLease
        BY <1>1, <1>5, <3>1, RenewedTyped
      <3> HIDE DEF y
      <3>3. RunHolds(y, m)
        BY <1>1, <3>2, Limits DEF RunHolds, NoLease
      <3>4. RootsPending(y, Pending(e))
        BY <1>4, <3>2 DEF RootsPending
      <3>5. y.generation >= run.generation
        BY <1>1, <3>2
      <3>6. x = y
        BY <3>1
      <3> QED
        BY <2>1, <3>2, <3>3, <3>4, <3>5, <3>6
    <2>2. CASE ~Complete(filled)
      <3>1. x = run
        BY <2>2
      <3> HIDE DEF run
      <3> QED
        BY <1>1, <1>3, <2>2, <3>1 DEF RootsPending
    <2> QED
      BY <2>1, <2>2
  <1>7. WindowFits(filled, x.status, m, External(e)) /\ run.status # "paused"
    BY <1>1, <1>4, <1>6
  <1>8. /\ DocHolds(d) /\ Forward(e.runs, d.runs) /\ CurrentStatus(d) = x.status
        /\ Len(d.runs) = Len(e.runs) /\ d.history = e.history /\ d.intents = e.intents
    <2> DEFINE f == With(e, WithNewest(e.runs, x), filled)
    <2>1. d = f
      BY <1>3 DEF e
    <2>2. e.runs[Len(e.runs)] = run /\ e.runs # <<>> /\ Len(e.history) = m
      BY <1>3
    <2> HIDE DEF run, m
    <2>3. Becomes(e, x, filled)
      BY <1>3, <1>4, <1>6, <1>7, <2>2 DEF Becomes
    <2>4. Became(f, e, x)
      BY <2>3, NewestBecomes
    <2> HIDE DEF f
    <2> QED
      BY <2>1, <2>4 DEF Became
  <1> QED
    BY <1>3, <1>6, <1>8 DEF Submitting

LEMMA AppendedReplaced ==
  ASSUME NEW T, NEW s \in Seq(T), NEW y \in T, NEW x \in T
  PROVE  /\ Len(Append(s, y)) = Len(s) + 1 /\ Append(s, y)[Len(s) + 1] = y
         /\ [Append(s, y) EXCEPT ![Len(s) + 1] = x] = Append(s, x)
  <1> DEFINE b == Append(s, y)
             c == Append(s, x)
             n == Len(s)
  <1>1. /\ b \in Seq(T) /\ Len(b) = n + 1 /\ n \in Nat /\ \A k \in 1 .. n : b[k] = s[k]
        /\ b[n + 1] = y /\ c \in Seq(T) /\ Len(c) = n + 1 /\ \A k \in 1 .. n : c[k] = s[k]
        /\ c[n + 1] = x
    BY AppendProperties, LenProperties
  <1> HIDE DEF b, c, n
  <1>2. /\ [b EXCEPT ![n + 1] = x] \in Seq(T) /\ Len([b EXCEPT ![n + 1] = x]) = n + 1
        /\ \A k \in 1 .. (n + 1) : [b EXCEPT ![n + 1] = x][k] = IF k = n + 1 THEN x ELSE b[k]
    <2>1. n + 1 \in 1 .. Len(b)
      BY <1>1
    <2> QED
      BY <1>1, <2>1, ExceptSeq
  <1>3. \A k \in 1 .. (n + 1) : k \in 1 .. n \/ k = n + 1
    BY <1>1
  <1>4. \A k \in 1 .. (n + 1) : [b EXCEPT ![n + 1] = x][k] = c[k]
    BY <1>1, <1>2, <1>3
  <1> DEFINE f == [b EXCEPT ![n + 1] = x]
  <1>5. f = c
    <2> HIDE DEF f
    <2> QED
      BY <1>1, <1>2, <1>4, SeqEqual DEF f
  <1> QED
    BY <1>1, <1>5 DEF b, c, n

(* A new run collects decisions; the run it replaces is closed.             *)
LEMMA DecisionOpened ==
  ASSUME IInv, NEW a \in Agents, Len(doc.intents) < MaxIntents, Len(doc.runs) < MaxRuns,
         CurrentStatus(doc) \notin Live,
         NEW filled, Collects(filled, Accepting(doc, a)),
         1 < MaxGeneration, doc.runs = <<>> => CurrentStatus(doc) = "none",
         NEW retired, LET status == CurrentStatus(doc) IN
                      retired = IF status \in {"paused", "budget-paused"}
                                THEN [doc.runs EXCEPT ![Len(doc.runs)].status = "completed"] ELSE doc.runs,
         NEW x, LET y == NewRun(0, "awaiting-decision") IN
                x = IF Complete(filled)
                    THEN [NextGeneration(y, "queued") EXCEPT !.roots = SubmittedIntents(filled)] ELSE y,
         NEW d, d = With(Accepting(doc, a), WithAdded(retired, x), filled)
  PROVE  /\ Submitting(d) /\ Len(d.runs) = Len(doc.runs) + 1
         /\ CurrentStatus(d) = IF Complete(filled) THEN "queued" ELSE "awaiting-decision"
  <1> DEFINE e == Accepting(doc, a)
             m == Len(doc.history)
             y == NewRun(0, "awaiting-decision")
  <1>1. /\ DocHolds(doc) /\ doc.runs \in Seq(RunRecords)
    BY DocumentTyped DEF IInv, DocHolds
  <1>2. IntentAccepted(e, doc)
    BY <1>1, AcceptingHolds
  <1> HIDE DEF e
  <1>3. /\ DocHolds(e) /\ DocTyped(e) /\ e.runs = doc.runs /\ e.history = doc.history /\ e.window = doc.window
        /\ Len(e.intents) = Len(doc.intents) + 1
    BY <1>2 DEF IntentAccepted, DocHolds
  <1>4. /\ filled \in Windows /\ AnswersPending(filled, Pending(e))
        /\ WindowFits(filled, "awaiting-decision", m, External(e))
        /\ WindowFits(filled, "queued", m, External(e))
        /\ SubmittedIntents(filled) \subseteq Pending(e)
    BY <1>3, CollectsFits DEF Collects, e
  <1>5. SubmittedIntents(filled) \in SUBSET Intents
    BY <1>3, <1>4, PendingTyped DEF DocHolds
  <1>6. /\ x \in RunRecords /\ x.committed = <<>> /\ RunHolds(x, m) /\ RootsPending(x, Pending(e))
        /\ x.status = IF Complete(filled) THEN "queued" ELSE "awaiting-decision"
    <2>1. /\ y \in RunRecords /\ y.status = "awaiting-decision" /\ y.committed = <<>> /\ y.roots = {}
          /\ y.lease = NoLease /\ y.generation = 1
      BY NewRunTyped DEF RunStatuses
    <2>2. CASE Complete(filled)
      <3> DEFINE z == [NextGeneration(y, "queued") EXCEPT !.roots = SubmittedIntents(filled)]
      <3>1. x = z
        BY <2>2
      <3> HIDE DEF y
      <3>2. /\ z \in RunRecords /\ z.status = "queued" /\ z.committed = y.committed
            /\ z.roots = SubmittedIntents(filled) /\ z.lease = NoLease
        BY <1>5, <2>1, RenewedTyped
      <3> HIDE DEF z
      <3>3. RunHolds(z, m)
        BY <2>1, <3>2, EmptySeq, Limits DEF RunHolds, NoLease
      <3> QED
        BY <1>4, <2>1, <2>2, <3>1, <3>2, <3>3 DEF RootsPending
    <2>3. CASE ~Complete(filled)
      <3>1. x = y
        BY <2>3
      <3> HIDE DEF y
      <3> QED
        BY <2>1, <2>3, <3>1, EmptySeq DEF RunHolds, Executing, RootsPending
    <2> QED
      BY <2>2, <2>3
  <1>7. WindowFits(filled, x.status, m, External(e))
    BY <1>4, <1>6
  <1> HIDE DEF y
  <1>8. \E mid : /\ DocHolds(mid) /\ Forward(doc.runs, mid.runs) /\ mid.runs = retired
                 /\ Len(mid.runs) = Len(doc.runs) /\ mid.history = doc.history /\ mid.intents = e.intents
                 /\ CurrentStatus(mid) \notin Live /\ mid.controls = e.controls
                 /\ With(mid, WithAdded(retired, x), filled) = d
    <2>1. CASE CurrentStatus(doc) \in {"paused", "budget-paused"}
      <3> DEFINE run == doc.runs[Len(doc.runs)]
                 z == [run EXCEPT !.status = "completed"]
                 mid == With(e, WithNewest(e.runs, z), NoWindow)
      <3>1. doc.runs # <<>>
        BY <2>1
      <3>2. /\ run \in RunRecords /\ RunHolds(run, m) /\ RootsPending(run, Pending(doc)) /\ run.generation \in Nat
        BY <3>1, NewestTyped
      <3>3. Pending(doc) \subseteq Pending(e)
        BY <1>2 DEF IntentAccepted
      <3> HIDE DEF run
      <3>4. /\ z \in RunRecords /\ z.status = "completed" /\ z.generation = run.generation
            /\ z.committed = run.committed /\ z.roots = run.roots /\ z.lease = run.lease
        BY <3>2 DEF RunRecords, RunStatuses
      <3>5. retired = WithNewest(e.runs, z)
        BY <1>1, <1>3, <2>1 DEF WithNewest, run
      <3> HIDE DEF z
      <3>6. RunHolds(z, m) /\ RootsPending(z, Pending(e))
        BY <3>2, <3>3, <3>4 DEF RunHolds, RootsPending, Executing
      <3>7. WindowFits(NoWindow, z.status, m, External(e)) /\ AnswersPending(NoWindow, Pending(e))
        BY <3>4, NoWindowTyped DEF WindowFits, AnswersPending
      <3>8. z.generation >= run.generation
        BY <3>2, <3>4
      <3>9. /\ DocHolds(mid) /\ Forward(e.runs, mid.runs) /\ CurrentStatus(mid) = z.status
            /\ Len(mid.runs) = Len(e.runs) /\ mid.history = e.history /\ mid.intents = e.intents
        BY <1>3, <3>1, <3>4, <3>6, <3>7, <3>8, NoWindowTyped, NewestChanges DEF run
      <3>10. mid.runs = retired /\ mid.controls = e.controls
        BY <1>3, <3>5 DEF With, DocTyped, Documents
      <3>11. With(mid, WithAdded(retired, x), filled) = d
        BY <1>3, <3>5 DEF With, DocTyped, Documents, e
      <3> HIDE DEF mid
      <3> QED
        BY <1>3, <3>4, <3>9, <3>10, <3>11 DEF Live, Executing
    <2>2. CASE CurrentStatus(doc) \notin {"paused", "budget-paused"}
      <3>1. retired = e.runs
        BY <1>3, <2>2
      <3>2. Forward(doc.runs, e.runs)
        BY <1>1, <1>3, AgreeingHolds DEF Agree, DocHolds, DocTyped
      <3>3. CurrentStatus(e) = CurrentStatus(doc)
        BY <1>3 DEF CurrentStatus
      <3> QED
        BY <1>3, <3>1, <3>2, <3>3 DEF e
    <2> QED
      BY <2>1, <2>2
  <1>9. PICK mid : /\ DocHolds(mid) /\ Forward(doc.runs, mid.runs) /\ mid.runs = retired
                   /\ Len(mid.runs) = Len(doc.runs) /\ mid.history = doc.history /\ mid.intents = e.intents
                   /\ CurrentStatus(mid) \notin Live /\ mid.controls = e.controls
                   /\ With(mid, WithAdded(retired, x), filled) = d
    BY <1>8
  <1>10. External(mid) = External(e) /\ Pending(mid) = Pending(e)
    BY <1>3, <1>9 DEF External, Pending, ExecutedBy
  <1>11. /\ mid.runs \in Seq(RunRecords) /\ RunsHold(mid.runs, m) /\ DocTyped(mid)
         /\ mid.runs # <<>> => mid.runs[Len(mid.runs)].status \notin Live
    BY <1>9, DocumentTyped DEF DocHolds, CurrentStatus
  <1>12. /\ DocHolds(d) /\ CurrentStatus(d) = x.status /\ Len(d.runs) = Len(mid.runs) + 1
         /\ d.history = mid.history /\ d.intents = mid.intents
    <2> DEFINE f == With(mid, WithAdded(mid.runs, x), filled)
    <2>1. f = d
      BY <1>9
    <2>2. Len(mid.runs) < MaxRuns /\ Len(mid.history) = m
      BY <1>9
    <2> HIDE DEF m
    <2>3. /\ DocHolds(f) /\ CurrentStatus(f) = x.status /\ Len(f.runs) = Len(mid.runs) + 1
          /\ f.history = mid.history /\ f.intents = mid.intents
      BY <1>4, <1>6, <1>7, <1>9, <1>10, <1>11, <2>2, NewestAdded
    <2> HIDE DEF f
    <2> QED
      BY <2>1, <2>3
  <1>13. /\ \A r \in DOMAIN mid.runs : r \in DOMAIN WithAdded(mid.runs, x) /\ WithAdded(mid.runs, x)[r] = mid.runs[r]
    <2> HIDE DEF m
    <2>1. /\ Len(WithAdded(mid.runs, x)) = Len(mid.runs) + 1 /\ WithAdded(mid.runs, x) \in Seq(RunRecords)
          /\ \A r \in 1 .. Len(mid.runs) : WithAdded(mid.runs, x)[r] = mid.runs[r]
      BY <1>6, <1>11, AppendProperties DEF WithAdded
    <2>2. /\ DOMAIN mid.runs = 1 .. Len(mid.runs) /\ Len(mid.runs) \in Nat
          /\ DOMAIN WithAdded(mid.runs, x) = 1 .. (Len(mid.runs) + 1)
      BY <1>11, <2>1, LenProperties
    <2> DEFINE n == Len(mid.runs)
    <2>3. 1 .. n \subseteq 1 .. (n + 1)
      <3> HIDE DEF n
      <3> QED
        BY <2>2 DEF n
    <2> QED
      BY <2>1, <2>2, <2>3
  <1>14. d.runs = WithAdded(mid.runs, x)
    BY <1>9, <1>11 DEF With, DocTyped, Documents
  <1>15. Forward(doc.runs, d.runs)
    BY <1>9, <1>13, <1>14 DEF Forward
  <1> QED
    BY <1>3, <1>6, <1>9, <1>12, <1>15 DEF Submitting

LEMMA SubmitActionHolds ==
  ASSUME IInv, SerialEnvironment, NEW a \in Agents, SubmitAction(a)
  PROVE  IInv' /\ Follows
  <1> DEFINE status == CurrentStatus(doc)
             replaces == status \in {"paused", "budget-paused"}
             required == IF replaces THEN {a} ELSE Required(doc)
             retired == IF replaces THEN [doc.runs EXCEPT ![Len(doc.runs)].status = "completed"] ELSE doc.runs
             runs == IF status = "awaiting-decision" THEN doc.runs
                     ELSE Append(retired, NewRun(0, "awaiting-decision"))
             discarded == \/ replaces
                          \/ status = "preparation-invalidated" /\ doc.window.status = "resolving"
             window == IF discarded \/ doc.window = NoWindow
                       THEN Window("decision", doc, required, {}) ELSE doc.window
             filled == [window EXCEPT !.submissions[a] = Len(doc.intents) + 1]
             run == Len(runs)
             renewed == [NextGeneration(runs[run], "queued") EXCEPT !.roots = SubmittedIntents(filled)]
             e == Accepting(doc, a)
             R == IF Complete(filled) THEN [runs EXCEPT ![run] = renewed] ELSE runs
             d == With(e, R, filled)
  <1>1. /\ DocHolds(doc) /\ DocTyped(doc) /\ doc \in Documents /\ doc.runs \in Seq(RunRecords)
        /\ Len(doc.runs) \in Nat
        /\ WindowFits(doc.window, status, Len(doc.history), External(doc))
        /\ doc.window \in Windows /\ AnswersPending(doc.window, Pending(doc))
        /\ Required(doc) \subseteq External(doc) /\ External(doc) \subseteq Agents
    BY DocumentTyped, WindowsAskExternal DEF IInv, DocHolds, WindowHolds, IntentsHold
  <1>2. /\ a \in External(doc) /\ a \in required
        /\ status \notin Executing
        /\ window.kind = "decision" /\ window.status = "open"
        /\ a \in window.required
        /\ Len(doc.intents) < MaxIntents /\ run <= MaxRuns /\ runs[run].generation < MaxGeneration
        /\ UNCHANGED <<attempts, ticks>>
    BY DEF SubmitAction, SerialEnvironment
  <1>3. Persist(d)
    <2>1. Persist([doc EXCEPT !.runs = R, !.window = filled, !.intents = Append(@, a)])
      BY DEF SubmitAction
    <2>2. [doc EXCEPT !.runs = R, !.window = filled, !.intents = Append(@, a)] = d
      <3> HIDE DEF R, filled
      <3> QED
        BY <1>1 DEF With, Accepting, Documents
    <2> QED
      BY <2>1, <2>2
  <1>4. IF Complete(filled) THEN drives' = Due(run) /\ UNCHANGED timer
                            ELSE UNCHANGED drives /\ timer' = DeadlineTimer(d)
    <2>1. d.window = filled
      BY <1>1 DEF With, Accepting, Documents
    <2> HIDE DEF filled, run, R, d
    <2>2. IF Complete(filled) THEN drives' = Due(run) /\ UNCHANGED timer
          ELSE UNCHANGED drives /\ timer' = [kind |-> "deadline", window |-> filled.id, generation |-> 0]
      <3>1. [doc EXCEPT !.runs = R, !.window = filled, !.intents = Append(@, a)].window = filled
        BY <1>1 DEF Documents
      <3> QED
        BY <3>1 DEF SubmitAction, DeadlineTimer, filled, run, R
    <2> QED
      BY <2>1, <2>2 DEF DeadlineTimer
  <1>5. IntentAccepted(e, doc)
    BY <1>1, <1>2, AcceptingHolds
  <1>6. CASE status = "awaiting-decision"
    <2>1. doc.runs # <<>> /\ runs = doc.runs /\ run = Len(doc.runs)
      BY <1>6 DEF CurrentStatus
    <2>2. window = doc.window
      BY <1>1, <1>6, NoWindowTyped DEF WindowFits
    <2> HIDE DEF window, e
    <2>3. Collects(window, doc)
      BY <1>1, <1>2, <1>6, <2>2, NoWindowTyped DEF WindowFits, AnswersPending, Collects
    <2>4. Collects(filled, e)
      BY <1>1, <1>2, <1>5, <2>3, FilledCollects
    <2> DEFINE old == doc.runs[Len(doc.runs)]
               x == IF Complete(filled)
                    THEN [NextGeneration(old, "queued") EXCEPT !.roots = SubmittedIntents(filled)] ELSE old
    <2>5. R = WithNewest(doc.runs, x)
      <3> HIDE DEF filled, runs
      <3>1. doc.runs = [doc.runs EXCEPT ![Len(doc.runs)] = doc.runs[Len(doc.runs)]]
        BY <1>1
      <3> QED
        BY <2>1, <3>1 DEF WithNewest
    <2>6. old.generation < MaxGeneration
      BY <1>2, <2>1
    <2> HIDE DEF filled, runs, R
    <2>7. /\ Submitting(d) /\ Len(d.runs) = Len(doc.runs)
          /\ CurrentStatus(d) = IF Complete(filled) THEN "queued" ELSE "awaiting-decision"
      <3>1. d = With(e, WithNewest(doc.runs, x), filled)
        BY <2>5
      <3> HIDE DEF d
      <3> QED
        BY <1>2, <1>6, <2>1, <2>4, <2>6, <3>1, DecisionAdded DEF e
    <2> HIDE DEF d
    <2>8. /\ CurrentStatus(d) = "queued" => drives' = Due(Len(d.runs)) /\ timer' = timer
          /\ CurrentStatus(d) # "queued" => drives' = drives /\ timer' = DeadlineTimer(d)
      BY <1>4, <2>1, <2>7
    <2> QED
      BY <1>2, <1>3, <1>6, <2>7, <2>8, SubmissionWritten
  <1>7. CASE status \in {"awaiting-reaction"}
    <2>1. window = doc.window /\ doc.window.kind = "reaction"
      BY <1>1, <1>7, NoWindowTyped DEF WindowFits
    <2> QED
      BY <1>2, <2>1
  <1>8. CASE status \notin Live
    <2>1. window = Window("decision", doc, required, {})
      BY <1>1, <1>8 DEF WindowFits, Live
    <2>2. required \subseteq External(doc)
      BY <1>1, <1>2
    <2> HIDE DEF required
    <2>3. Opened(window, "decision", doc, required, {})
      <3>1. required \subseteq Agents
        BY <1>1, <2>2
      <3> HIDE DEF window
      <3> QED
        BY <1>1, <2>1, <3>1, OpenedWindow
    <2> HIDE DEF window, e
    <2>4. Collects(window, doc)
      BY <2>2, <2>3 DEF Opened, Collects, NoSubmissions
    <2>5. Collects(filled, e)
      BY <1>1, <1>2, <1>5, <2>4, FilledCollects
    <2> DEFINE y == NewRun(0, "awaiting-decision")
               x == IF Complete(filled)
                    THEN [NextGeneration(y, "queued") EXCEPT !.roots = SubmittedIntents(filled)] ELSE y
    <2>6. runs = Append(retired, y)
      BY <1>8 DEF Live
    <2>7. retired \in Seq(RunRecords) /\ Len(retired) = Len(doc.runs)
      <3>1. CASE replaces
        <4> DEFINE old == doc.runs[Len(doc.runs)]
                   z == [old EXCEPT !.status = "completed"]
        <4>1. doc.runs # <<>>
          BY <3>1 DEF CurrentStatus
        <4>2. old \in RunRecords /\ Len(doc.runs) \in 1 .. Len(doc.runs)
          BY <1>1, <4>1, DocumentTyped
        <4>3. retired = [doc.runs EXCEPT ![Len(doc.runs)] = z]
          BY <3>1
        <4> HIDE DEF old
        <4>4. z \in RunRecords
          BY <4>2 DEF RunRecords, RunStatuses
        <4> HIDE DEF z, retired
        <4> QED
          BY <1>1, <4>2, <4>3, <4>4, ExceptSeq
      <3>2. CASE ~replaces
        BY <1>1, <3>2
      <3> QED
        BY <3>1, <3>2
    <2>8. y \in RunRecords /\ y.generation = 1
      BY NewRunTyped DEF RunStatuses
    <2> HIDE DEF y, retired
    <2>9. /\ run = Len(doc.runs) + 1 /\ runs[run] = y
          /\ \A z \in RunRecords : [runs EXCEPT ![run] = z] = Append(retired, z)
      <3>1. /\ Len(Append(retired, y)) = Len(retired) + 1 /\ Append(retired, y)[Len(retired) + 1] = y
            /\ \A z \in RunRecords : [Append(retired, y) EXCEPT ![Len(retired) + 1] = z] = Append(retired, z)
        BY <2>7, <2>8, AppendedReplaced
      <3> HIDE DEF runs
      <3> QED
        BY <2>6, <2>7, <3>1
    <2>10. Len(doc.runs) < MaxRuns /\ 1 < MaxGeneration
      <3> HIDE DEF run, runs
      <3>1. runs[run].generation = 1
        BY <2>8, <2>9
      <3> QED
        BY <1>1, <1>2, <2>9, <3>1, Limits
    <2> HIDE DEF filled
    <2>11. R = WithAdded(retired, x)
      <3>1. CASE Complete(filled)
        <4>1. SubmittedIntents(filled) \in SUBSET Intents
          BY <1>5, <2>5, PendingTyped DEF IntentAccepted, DocHolds, Collects
        <4>2. x \in RunRecords
          BY <2>8, <2>10, <3>1, <4>1, RenewedTyped
        <4>3. R = [runs EXCEPT ![run] = x]
          <5> HIDE DEF runs, run
          <5> QED
            BY <2>9, <3>1
        <4> HIDE DEF x, runs, run, R
        <4> QED
          BY <2>9, <4>2, <4>3 DEF WithAdded
      <3>2. CASE ~Complete(filled)
        BY <2>6, <3>2 DEF WithAdded
      <3> QED
        BY <3>1, <3>2
    <2> HIDE DEF runs, R
    <2>12. /\ Submitting(d) /\ Len(d.runs) = Len(doc.runs) + 1
           /\ CurrentStatus(d) = IF Complete(filled) THEN "queued" ELSE "awaiting-decision"
      <3>1. d = With(e, WithAdded(retired, x), filled)
        BY <2>11
      <3>2. doc.runs = <<>> => CurrentStatus(doc) = "none"
        BY DEF CurrentStatus
      <3>3. retired = IF status \in {"paused", "budget-paused"}
                      THEN [doc.runs EXCEPT ![Len(doc.runs)].status = "completed"] ELSE doc.runs
        BY DEF retired
      <3> HIDE DEF d
      <3> QED
        BY <1>2, <1>8, <2>5, <2>10, <3>1, <3>2, <3>3, DecisionOpened DEF e, y
    <2> HIDE DEF d
    <2>13. /\ CurrentStatus(d) = "queued" => drives' = Due(Len(d.runs)) /\ timer' = timer
           /\ CurrentStatus(d) # "queued" => drives' = drives /\ timer' = DeadlineTimer(d)
      BY <1>4, <2>9, <2>12
    <2>14. CurrentStatus(doc) # "running"
      BY <1>8 DEF Live, Executing
    <2> QED
      BY <1>2, <1>3, <2>12, <2>13, <2>14, SubmissionWritten
  <1> QED
    BY <1>2, <1>6, <1>7, <1>8 DEF Live

(* What a transfer writes.                                                  *)
Transferred(e, d) ==
  /\ DocHolds(e) /\ Forward(d.runs, e.runs) /\ CurrentStatus(e) # "running"
  /\ e.history = d.history /\ e.intents = d.intents /\ e.title = d.title
  /\ e.schedulerGeneration = d.schedulerGeneration

(* The controls have changed: the window may ask agents nobody controls.    *)
Recontrolled(e, d) ==
  /\ e \in Documents /\ ControlsHold(e)
  /\ e.runs = d.runs /\ e.history = d.history /\ e.window = d.window /\ e.intents = d.intents
  /\ e.title = d.title /\ e.schedulerGeneration = d.schedulerGeneration

LEMMA ControlsChange ==
  ASSUME NEW d, DocHolds(d), NEW p \in Principals, NEW c \in Agents \cup {Observer},
         c \notin External([d EXCEPT !.controls[p] = Observer])
  PROVE  Recontrolled([d EXCEPT !.controls[p] = c], d)
  <1> DEFINE e == [d EXCEPT !.controls[p] = c]
             o == [d EXCEPT !.controls[p] = Observer]
  <1>1. d \in Documents /\ d.controls \in [Principals -> Agents \cup {Observer}] /\ ControlsHold(d)
    BY DocumentTyped DEF DocHolds
  <1>2. /\ e \in Documents
        /\ e.runs = d.runs /\ e.history = d.history /\ e.window = d.window /\ e.intents = d.intents
        /\ e.title = d.title /\ e.schedulerGeneration = d.schedulerGeneration
        /\ e.controls = [d.controls EXCEPT ![p] = c]
    BY <1>1 DEF Documents
  <1>3. o.controls = [d.controls EXCEPT ![p] = Observer]
    BY <1>1 DEF Documents
  <1>4. c \notin External(o)
    OBVIOUS
  <1> HIDE DEF e, o
  <1>5. \A q \in Principals : q # p /\ d.controls[q] = c => c = Observer
    <2> SUFFICES ASSUME NEW q \in Principals, q # p, d.controls[q] = c, c # Observer PROVE FALSE
      OBVIOUS
    <2>1. o.controls[q] = c
      BY <1>1, <1>3
    <2> QED
      BY <1>4, <2>1 DEF External
  <1>6. ControlsHold(e)
    BY <1>1, <1>2, <1>5 DEF ControlsHold
  <1> QED
    BY <1>2, <1>6 DEF Recontrolled, e

(* The newest run and the window follow the new controls.                   *)
Follow(e, d, x, w) ==
  /\ DocHolds(d) /\ Recontrolled(e, d) /\ d.runs # <<>> /\ x \in RunRecords /\ w \in Windows
  /\ RunHolds(x, Len(d.history)) /\ x.committed = d.runs[Len(d.runs)].committed
  /\ x.generation >= d.runs[Len(d.runs)].generation
  /\ d.runs[Len(d.runs)].status = "paused" => x.status \in {"paused", "completed"}
  /\ WindowFits(w, x.status, Len(d.history), External(e)) /\ x.status # "running"
  /\ AnswersPending(w, Pending(d)) /\ RootsPending(x, Pending(d))

LEMMA FollowHolds ==
  ASSUME NEW e, NEW d, NEW x, NEW w, Follow(e, d, x, w)
  PROVE  Transferred(With(e, WithNewest(e.runs, x), w), d)
  <1> DEFINE runs == WithNewest(d.runs, x)
             f == With(e, runs, w)
             m == Len(d.history)
  <1>1. /\ DocHolds(d) /\ Recontrolled(e, d) /\ d.runs # <<>> /\ x \in RunRecords /\ w \in Windows
        /\ RunHolds(x, m) /\ x.committed = d.runs[Len(d.runs)].committed
        /\ x.generation >= d.runs[Len(d.runs)].generation
        /\ d.runs[Len(d.runs)].status = "paused" => x.status \in {"paused", "completed"}
        /\ WindowFits(w, x.status, m, External(e)) /\ x.status # "running"
        /\ AnswersPending(w, Pending(d)) /\ RootsPending(x, Pending(d))
    BY DEF Follow
  <1>2. /\ DocTyped(d) /\ d.runs \in Seq(RunRecords) /\ RunsHold(d.runs, m)
        /\ Len(d.runs) <= MaxRuns /\ Len(d.intents) \in Nat
    BY <1>1, DocumentTyped DEF DocHolds
  <1>3. /\ runs \in Seq(RunRecords) /\ Len(runs) = Len(d.runs) /\ runs # <<>>
        /\ runs[Len(d.runs)] = x /\ RunsHold(runs, m) /\ Quiet(d.runs, runs)
    BY <1>1, <1>2, CurrentChanges
  <1>4. DocTyped(e)
    BY <1>1, <1>2 DEF Recontrolled, DocTyped
  <1> HIDE DEF runs
  <1>5. /\ DocTyped(f) /\ f.runs = runs /\ f.window = w
        /\ f.history = e.history /\ f.intents = e.intents /\ f.controls = e.controls /\ f.title = e.title
        /\ f.schedulerGeneration = e.schedulerGeneration
    BY <1>1, <1>2, <1>3, <1>4, DocumentWith
  <1> HIDE DEF f
  <1>6. /\ e.history = d.history /\ e.intents = d.intents /\ e.title = d.title
        /\ e.schedulerGeneration = d.schedulerGeneration /\ ControlsHold(e) /\ e.runs = d.runs
    BY <1>1 DEF Recontrolled
  <1>7. CurrentStatus(f) = x.status
    BY <1>3, <1>5 DEF CurrentStatus
  <1>8. WindowHolds(f) /\ ControlsHold(f) /\ Pending(f) = Pending(d)
    BY <1>1, <1>5, <1>6, <1>7 DEF WindowHolds, External, ControlsHold, Pending, ExecutedBy
  <1>9. DocHolds(f) /\ Forward(d.runs, f.runs)
    BY <1>1, <1>2, <1>3, <1>5, <1>6, <1>8, DocumentChanges
  <1> QED
    BY <1>1, <1>5, <1>6, <1>7, <1>9 DEF Transferred, f, runs

(* The window as reconcileActionWindow rewrites it.                         *)
Reasked(window, required) ==
  [window EXCEPT !.required = required,
                 !.submissions = [a \in Agents |-> IF a \in required THEN @[a] ELSE 0]]

LEMMA ReaskedFits ==
  ASSUME NEW d, DocHolds(d), NEW e, Recontrolled(e, d), d.window.kind = "decision"
  PROVE  LET w == Reasked(d.window, Required(e)) IN
         /\ w \in Windows /\ w.kind = "decision" /\ w.status = d.window.status
         /\ WindowFits(w, CurrentStatus(d), Len(d.history), External(e))
         /\ SubmittedIntents(w) \subseteq Pending(d) /\ AnswersPending(w, Pending(d))
  <1> DEFINE required == Required(e)
             submissions == [a \in Agents |-> IF a \in required THEN d.window.submissions[a] ELSE 0]
             w == Reasked(d.window, required)
  <1>1. /\ d.window \in Windows /\ WindowFits(d.window, CurrentStatus(d), Len(d.history), External(d))
        /\ SubmittedIntents(d.window) \subseteq Pending(d)
        /\ d.window.required \subseteq Agents /\ d.window.submissions \in [Agents -> 0..MaxIntents]
    BY DocumentTyped DEF DocHolds, WindowHolds, IntentsHold, AnswersPending, Windows
  <1>2. required \subseteq External(e) /\ required \subseteq Agents
    <2>1. DocTyped(e)
      BY DEF Recontrolled, DocHolds, DocTyped
    <2> QED
      BY <2>1, WindowsAskExternal
  <1> HIDE DEF required
  <1>3. submissions \in [Agents -> 0..MaxIntents]
    BY <1>1, Limits
  <1>4. w = [d.window EXCEPT !.required = required, !.submissions = submissions]
    BY <1>1 DEF Reasked, Windows
  <1>5. \A a \in Agents : submissions[a] = IF a \in required THEN d.window.submissions[a] ELSE 0
    OBVIOUS
  <1> HIDE DEF submissions
  <1>6. /\ w \in Windows /\ w.kind = d.window.kind /\ w.status = d.window.status
        /\ w.baseRevision = d.window.baseRevision /\ w.required = required /\ w.submissions = submissions
    BY <1>1, <1>2, <1>3, <1>4 DEF Windows
  <1> HIDE DEF w
  <1>7. d.window # NoWindow /\ w # NoWindow
    BY <1>6, NoWindowTyped
  <1>8. WindowFits(w, CurrentStatus(d), Len(d.history), External(e))
    BY <1>1, <1>2, <1>5, <1>6, <1>7 DEF WindowFits
  <1>9. SubmittedIntents(w) \subseteq SubmittedIntents(d.window)
    BY <1>1, <1>2, <1>5, <1>6, <1>7 DEF SubmittedIntents, Submitted, WindowFits
  <1> QED
    BY <1>1, <1>6, <1>8, <1>9 DEF AnswersPending, w, required

LEMMA ReconciledHolds ==
  ASSUME NEW d, DocHolds(d), Movable(d), NEW e, Recontrolled(e, d)
  PROVE  Transferred(Reconciled(e), d)
  <1> DEFINE n == Len(d.runs)
             m == Len(d.history)
             run == d.runs[n]
             status == CurrentStatus(d)
             required == Required(e)
             asked == Reasked(d.window, required)
  <1>1. /\ DocTyped(d) /\ d.runs \in Seq(RunRecords) /\ d.window \in Windows
        /\ WindowFits(d.window, status, m, External(d))
        /\ AnswersPending(d.window, Pending(d))
        /\ RunsHold(d.runs, m) /\ IntentsHold(d)
    BY DocumentTyped DEF DocHolds, WindowHolds, IntentsHold
  <1>2. /\ e \in Documents /\ ControlsHold(e)
        /\ e.runs = d.runs /\ e.history = d.history /\ e.window = d.window /\ e.intents = d.intents
        /\ e.title = d.title /\ e.schedulerGeneration = d.schedulerGeneration
    BY DEF Recontrolled
  <1>3. CurrentStatus(e) = status /\ status \notin Executing
    BY <1>2 DEF CurrentStatus, Movable
  <1>4. Reconciled(e) =
          LET Ends(from, to) == [e EXCEPT !.window = NoWindow,
                                   !.runs[n].status = IF @ = from THEN to ELSE @]
          IN CASE e.window.kind = "none" -> e
               [] e.window.kind = "reaction" -> Ends("awaiting-reaction", "preparation-invalidated")
               [] e.window.kind = "decision" /\ required = {} -> Ends("awaiting-decision", "completed")
               [] e.window.kind = "decision" /\ required # {}
                    /\ Complete(asked) /\ CurrentStatus(e) = "awaiting-decision" ->
                    [e EXCEPT !.window = [asked EXCEPT !.status = "resolving"],
                              !.runs[n] = [NextGeneration(@, "queued") EXCEPT !.roots = SubmittedIntents(asked)]]
               [] OTHER -> [e EXCEPT !.window = asked]
    BY <1>2 DEF Reconciled, Reasked
  <1>5. d.window.kind \in {"none", "decision", "reaction"}
    BY <1>1 DEF Windows
  <1>6. ASSUME d.window.kind # "none"
        PROVE  /\ d.window # NoWindow /\ status \in {"awaiting-decision", "awaiting-reaction", "paused"}
               /\ d.runs # <<>> /\ run \in RunRecords /\ RunHolds(run, m) /\ RootsPending(run, Pending(d))
               /\ run.status = status /\ run.generation \in Nat /\ run.generation < MaxGeneration
               /\ status \in {"awaiting-reaction"} => d.window.kind = "reaction"
               /\ status \in {"awaiting-decision"} => d.window.kind = "decision"
    <2>1. d.window # NoWindow
      BY <1>6, NoWindowTyped
    <2>2. /\ status \in {"awaiting-decision", "awaiting-reaction", "paused"}
          /\ status \in {"awaiting-reaction"} => d.window.kind = "reaction"
          /\ status \in {"awaiting-decision"} => d.window.kind = "decision"
      BY <1>1, <1>3, <2>1 DEF WindowFits, Live
    <2>3. d.runs # <<>> /\ run.status = status
      BY <2>2 DEF CurrentStatus
    <2>4. n \in DOMAIN d.runs /\ run \in RunRecords
      BY <1>1, <2>3, DocumentTyped
    <2>5. RunHolds(run, m) /\ RootsPending(run, Pending(d)) /\ run.generation < MaxGeneration
      BY <1>1, <2>3, <2>4 DEF RunsHold, IntentsHold, Movable
    <2> QED
      BY <2>1, <2>2, <2>3, <2>4, <2>5, RunTyped
  <1>7. CASE d.window.kind = "none"
    <2>1. Reconciled(e) = e
      BY <1>2, <1>4, <1>7
    <2>2. d.window = NoWindow
      BY <1>1, <1>7 DEF WindowFits
    <2>3. WindowHolds(e)
      BY <1>1, <1>2, <1>3, <2>2 DEF WindowHolds, WindowFits
    <2>4. /\ DocTyped(e) /\ ExecutedBy(e) = ExecutedBy(d) /\ Pending(e) = Pending(d)
      BY <1>1, <1>2 DEF DocTyped, ExecutedBy, Pending
    <2>5. DocHolds(e)
      BY <1>2, <2>3, <2>4 DEF DocHolds, IntentsHold, RevisionsHold
    <2>6. Forward(d.runs, e.runs)
      BY <1>2, AgreeingHolds DEF Agree, DocHolds, DocTyped
    <2> QED
      BY <1>2, <1>3, <2>1, <2>5, <2>6 DEF Transferred, Executing
  <1>8. ASSUME NEW from, NEW to \in {"preparation-invalidated", "completed"},
               d.window.kind # "none", status \in {from, "paused"}, from # "paused",
               Reconciled(e) = [e EXCEPT !.window = NoWindow, !.runs[n].status = IF @ = from THEN to ELSE @]
        PROVE  Transferred(Reconciled(e), d)
    <2> DEFINE next == IF run.status = from THEN to ELSE run.status
               x == [run EXCEPT !.status = next]
    <2>1. Reconciled(e) = With(e, WithNewest(e.runs, x), NoWindow)
      <3> HIDE DEF next
      <3>1. e.runs[n] = run
        BY <1>2
      <3>2. [e EXCEPT !.window = NoWindow, !.runs[n].status = IF @ = from THEN to ELSE @]
              = [e EXCEPT !.window = NoWindow, !.runs[n] = x]
        BY <1>2, <3>1 DEF Documents, next
      <3>3. [e EXCEPT !.window = NoWindow, !.runs[n] = x] = With(e, WithNewest(e.runs, x), NoWindow)
        <4> HIDE DEF x
        <4> QED
          BY <1>2 DEF Documents, With, WithNewest
      <3> QED
        BY <1>8, <3>2, <3>3
    <2>2. next \in {"preparation-invalidated", "completed", "paused"} /\ (run.status = "paused" => next \in {"paused", "completed"})
      <3>1. CASE run.status = from
        <4>1. next = to
          BY <3>1
        <4>2. run.status # "paused"
          BY <1>6, <1>8, <3>1
        <4> QED
          BY <4>1, <4>2
      <3>2. CASE run.status # from
        BY <1>6, <1>8, <3>2
      <3> QED
        BY <3>1, <3>2
    <2>3. x \in RunRecords /\ x.status = next /\ x.generation = run.generation /\ x.committed = run.committed
          /\ x.roots = run.roots /\ x.lease = run.lease
      <3>1. run \in RunRecords /\ next \in RunStatuses
        BY <1>6, <1>8, <2>2 DEF RunStatuses
      <3> HIDE DEF next, run
      <3> QED
        BY <3>1 DEF RunRecords
    <2>4. RunHolds(x, m) /\ RootsPending(x, Pending(d)) /\ x.generation >= run.generation
      <3>1. RunHolds(run, m) /\ RootsPending(run, Pending(d)) /\ run.generation \in Nat
        BY <1>6, <1>8
      <3> HIDE DEF next, run, x
      <3> QED
        BY <2>2, <2>3, <3>1 DEF RunHolds, RootsPending, Executing
    <2>5. /\ WindowFits(NoWindow, x.status, m, External(e)) /\ x.status # "running"
          /\ AnswersPending(NoWindow, Pending(d))
      <3> HIDE DEF next, x
      <3> QED
        BY <2>2, <2>3, NoWindowTyped DEF WindowFits, AnswersPending
    <2>6. x.committed = run.committed /\ (run.status = "paused" => x.status \in {"paused", "completed"})
      BY <2>2, <2>3
    <2> HIDE DEF x, next
    <2>7. Follow(e, d, x, NoWindow)
      BY <1>6, <1>8, <2>3, <2>4, <2>5, <2>6, NoWindowTyped DEF Follow
    <2> QED
      BY <2>1, <2>7, FollowHolds
  <1>9. CASE d.window.kind = "reaction"
    <2>1. Reconciled(e) = [e EXCEPT !.window = NoWindow,
                             !.runs[n].status = IF @ = "awaiting-reaction" THEN "preparation-invalidated" ELSE @]
      BY <1>2, <1>4, <1>9
    <2>2. status \in {"awaiting-reaction", "paused"}
      BY <1>6, <1>9
    <2> QED
      BY <1>8, <1>9, <2>1, <2>2
  <1>10. CASE d.window.kind = "decision" /\ required = {}
    <2>1. Reconciled(e) = [e EXCEPT !.window = NoWindow,
                             !.runs[n].status = IF @ = "awaiting-decision" THEN "completed" ELSE @]
      BY <1>2, <1>4, <1>10
    <2>2. status \in {"awaiting-decision", "paused"}
      BY <1>6, <1>10
    <2> QED
      BY <1>8, <1>10, <2>1, <2>2
  <1>11. ASSUME d.window.kind = "decision"
         PROVE  /\ asked \in Windows /\ asked.kind = "decision" /\ asked.status = d.window.status
                /\ WindowFits(asked, status, m, External(e))
                /\ SubmittedIntents(asked) \subseteq Pending(d) /\ AnswersPending(asked, Pending(d))
    BY <1>11, ReaskedFits
  <1> HIDE DEF asked
  <1>12. CASE /\ d.window.kind = "decision" /\ required # {}
              /\ Complete(asked) /\ status = "awaiting-decision"
    <2> DEFINE w == [asked EXCEPT !.status = "resolving"]
               x == [NextGeneration(run, "queued") EXCEPT !.roots = SubmittedIntents(asked)]
    <2>1. Reconciled(e) = With(e, WithNewest(e.runs, x), w)
      <3>1. Reconciled(e) = [e EXCEPT !.window = w,
                               !.runs[n] = [NextGeneration(@, "queued") EXCEPT !.roots = SubmittedIntents(asked)]]
        BY <1>2, <1>3, <1>4, <1>12
      <3>2. [e EXCEPT !.window = w, !.runs[n] = [NextGeneration(@, "queued") EXCEPT !.roots = SubmittedIntents(asked)]]
              = [e EXCEPT !.window = w, !.runs[n] = x]
        <4> HIDE DEF w
        <4> QED
          BY <1>2 DEF Documents
      <3>3. [e EXCEPT !.window = w, !.runs[n] = x] = With(e, WithNewest(e.runs, x), w)
        <4> HIDE DEF x, w
        <4> QED
          BY <1>2 DEF Documents, With, WithNewest
      <3> QED
        BY <3>1, <3>2, <3>3
    <2>2. /\ run \in RunRecords /\ RunHolds(run, m) /\ run.generation \in Nat /\ run.generation < MaxGeneration
          /\ run.status = "awaiting-decision" /\ d.runs # <<>>
      BY <1>6, <1>12
    <2>3. SubmittedIntents(asked) \in SUBSET Intents
      BY <1>1, <1>11, <1>12, PendingTyped
    <2> HIDE DEF run
    <2>4. /\ x \in RunRecords /\ x.status = "queued" /\ x.generation = run.generation + 1
          /\ x.committed = run.committed /\ x.roots = SubmittedIntents(asked) /\ x.lease = NoLease
      BY <2>2, <2>3, RenewedTyped
    <2> HIDE DEF x
    <2>5. /\ w \in Windows /\ w.kind = "decision" /\ w.status = "resolving" /\ w.required = asked.required
          /\ w.submissions = asked.submissions /\ w.baseRevision = asked.baseRevision
      BY <1>11, <1>12 DEF Windows
    <2> HIDE DEF w
    <2>6. RunHolds(x, m) /\ RootsPending(x, Pending(d)) /\ x.generation >= run.generation
      BY <1>11, <1>12, <2>2, <2>4, Limits DEF RunHolds, RootsPending, NoLease
    <2>7. SubmittedIntents(w) = SubmittedIntents(asked)
      BY <2>5 DEF SubmittedIntents, Submitted
    <2>8. /\ WindowFits(w, x.status, m, External(e)) /\ AnswersPending(w, Pending(d))
      BY <1>11, <1>12, <2>4, <2>5, <2>7, NoWindowTyped DEF WindowFits, AnswersPending, Live, Executing
    <2>9. Follow(e, d, x, w)
      BY <2>2, <2>4, <2>5, <2>6, <2>8 DEF Follow, run
    <2> QED
      BY <2>1, <2>9, FollowHolds
  <1>13. CASE /\ d.window.kind = "decision" /\ required # {}
              /\ ~(Complete(asked) /\ status = "awaiting-decision")
    <2>1. Reconciled(e) = [e EXCEPT !.window = asked]
      BY <1>2, <1>3, <1>4, <1>13
    <2>2. [e EXCEPT !.window = asked] = With(e, WithNewest(e.runs, run), asked)
      <3>1. e.runs = WithNewest(e.runs, run)
        BY <1>1, <1>2 DEF WithNewest
      <3>2. [e EXCEPT !.window = asked] = With(e, e.runs, asked)
        BY <1>2 DEF Documents, With
      <3> QED
        BY <3>1, <3>2
    <2>3. /\ run \in RunRecords /\ RunHolds(run, m) /\ run.generation \in Nat /\ RootsPending(run, Pending(d))
          /\ run.status = status /\ d.runs # <<>> /\ status \in {"awaiting-decision", "awaiting-reaction", "paused"}
      BY <1>6, <1>13
    <2>4. Follow(e, d, run, asked)
      BY <1>11, <1>13, <2>3 DEF Follow
    <2> QED
      BY <2>1, <2>2, <2>4, FollowHolds
  <1> QED
    BY <1>5, <1>7, <1>9, <1>10, <1>12, <1>13

(* Controls that change hands.                                              *)
LEMMA HandedHolds ==
  ASSUME NEW d, DocHolds(d), Movable(d), NEW p \in Principals, NEW c \in Agents \cup {Observer},
         c \notin External([d EXCEPT !.controls[p] = Observer])
  PROVE  Transferred(Handed(d, p, c), d)
  <1> DEFINE e == [d EXCEPT !.controls[p] = c]
  <1>1. Recontrolled(e, d)
    BY ControlsChange
  <1> HIDE DEF e
  <1>2. Transferred(Reconciled(e), d)
    BY <1>1, ReconciledHolds
  <1> QED
    BY <1>2 DEF Handed, e

LEMMA QueuedTyped ==
  ASSUME NEW d, DocHolds(d)
  PROVE  Queued(d) \subseteq RunIds /\ (CurrentStatus(d) = "queued" => Len(d.runs) \in Queued(d))
  <1>1. CurrentStatus(d) = "queued" => Len(d.runs) \in RunIds
    <2>1. CurrentStatus(d) = "queued" => d.runs # <<>>
      BY DEF CurrentStatus
    <2> QED
      BY <2>1, DocumentTyped DEF DocHolds
  <1> QED
    BY <1>1 DEF Queued

LEMMA Scheduled ==
  ASSUME IInv, NEW runs \in SUBSET RunIds,
         drives' = drives \cup {[run |-> r, caller |-> "timer"] : r \in runs}
  PROVE  /\ drives' \subseteq [run : RunIds, caller : Callers]
         /\ \A r \in runs : \E drive \in drives' : drive.run = r
  <1>1. \A r \in runs : [run |-> r, caller |-> "timer"] \in drives' /\ [run |-> r, caller |-> "timer"].run = r
    OBVIOUS
  <1>2. \A r \in RunIds : [run |-> r, caller |-> "timer"] \in [run : RunIds, caller : Callers]
    BY DEF Callers
  <1>3. drives' \subseteq [run : RunIds, caller : Callers]
    BY <1>2 DEF IInv, WorkTyped
  <1> QED
    BY <1>1, <1>3

LEMMA ReleaseHolds ==
  ASSUME IInv, NEW p \in Principals, Release(p)
  PROVE  IInv' /\ Follows
  <1> DEFINE d == Handed(doc, p, Observer)
  <1>1. /\ Movable(doc) /\ Persist(d) /\ UNCHANGED <<attempts, timer, ticks>>
        /\ drives' = drives \cup {[run |-> r, caller |-> "timer"] : r \in Queued(d)}
    BY DEF Release, Transferable, Movable, Handed
  <1>2. Observer \notin External([doc EXCEPT !.controls[p] = Observer])
    BY DEF External
  <1>3. Transferred(d, doc)
    BY <1>1, <1>2, HandedHolds DEF IInv
  <1> HIDE DEF d
  <1>4. /\ DocHolds(d) /\ Forward(doc.runs, d.runs) /\ CurrentStatus(d) # "running"
        /\ d.history = doc.history /\ d.intents = doc.intents
    BY <1>3 DEF Transferred
  <1>5. \A t \in attempts' : ~SameGeneration(t)
    BY <1>1, NobodyWorks DEF Movable, Executing
  <1>6. Queued(d) \in SUBSET RunIds /\ (CurrentStatus(d) = "queued" => Len(d.runs) \in Queued(d))
    BY <1>4, QueuedTyped
  <1>7. /\ drives' \subseteq [run : RunIds, caller : Callers]
        /\ CurrentStatus(d) = "queued" => \E drive \in drives' : drive.run = Len(d.runs)
    BY <1>1, <1>6, Scheduled
  <1>8. timer' \in TimerType /\ ticks' \subseteq 0..MaxRevision
    BY <1>1 DEF IInv, WorkTyped, TimerType
  <1>9. IInv' /\ Forward(doc.runs, doc'.runs) /\ doc' = d
    BY <1>1, <1>4, <1>5, <1>7, <1>8, DocumentWritten
  <1> QED
    BY <1>4, <1>9 DEF Follows, LineStep

(* The document a transfer keeps for after the arrival text.                *)
Paused(d) == [d EXCEPT !.realtime = FALSE, !.schedulerGeneration = @ + 1]

LEMMA PausedHolds ==
  ASSUME NEW d, DocHolds(d), d.schedulerGeneration < MaxSchedulerGeneration
  PROVE  /\ Paused(d) \in Documents /\ Agree(d, Paused(d)) /\ Paused(d).title = d.title
  <1> DEFINE g == d.schedulerGeneration + 1
  <1>1. d \in Documents /\ g \in 1..MaxSchedulerGeneration
    BY DocumentTyped, Limits DEF DocHolds
  <1>2. Paused(d) = [d EXCEPT !.realtime = FALSE, !.schedulerGeneration = g]
    BY <1>1 DEF Paused, Documents
  <1> HIDE DEF g
  <1> QED
    BY <1>1, <1>2 DEF Documents, Agree

LEMMA TakeControlHolds ==
  ASSUME IInv, NEW p \in Principals, NEW a \in Agents, TakeControl(p, a)
  PROVE  IInv' /\ Follows
  <1> DEFINE d == Handed(doc, p, a)
             new == [next |-> Paused(d), schedules |-> Queued(d), raced |-> FALSE]
  <1>1. /\ Movable(doc) /\ doc.schedulerGeneration < MaxSchedulerGeneration
        /\ a \notin External([doc EXCEPT !.controls[p] = Observer])
        /\ arrival' = {new} /\ timer' = NoTimer /\ UNCHANGED <<doc, attempts, drives, ticks>>
    BY DEF TakeControl, Transferable, Movable, Handed, Paused
  <1>2. Transferred(d, doc)
    BY <1>1, HandedHolds DEF IInv
  <1>3. Queued(d) \subseteq RunIds /\ Paused(d) \in Documents
    <2> HIDE DEF d
    <2> QED
      BY <1>1, <1>2, QueuedTyped, PausedHolds DEF Transferred
  <1>4. new \in ArrivalType
    <2> HIDE DEF d
    <2> QED
      BY <1>3 DEF ArrivalType
  <1>5. arrival' \subseteq ArrivalType /\ \A x, y \in arrival' : x = y
    <2> HIDE DEF new
    <2> QED
      BY <1>1, <1>4
  <1>6. ArrivalHolds'
    <2>1. doc' = doc
      BY <1>1
    <2>2. \E q \in Principals, c \in Agents :
            /\ c \notin External([doc EXCEPT !.controls[q] = Observer])
            /\ new.next = [Handed(doc, q, c) EXCEPT !.realtime = FALSE, !.schedulerGeneration = @ + 1]
            /\ new.schedules = Queued(Handed(doc, q, c))
      BY <1>1 DEF Paused
    <2> HIDE DEF new
    <2>3. arrival' = {new}
      BY <1>1
    <2> QED
      BY <1>1, <2>1, <2>2, <2>3 DEF ArrivalHolds
  <1>7. NoTimer \in TimerType
    BY TimersTyped DEF IInv, DocHolds
  <1>8. WorkTyped'
    BY <1>1, <1>5, <1>7 DEF IInv, WorkTyped, TimerType
  <1>9. AttemptsHold' /\ DrivesHold'
    BY <1>1 DEF IInv, AttemptsHold, DrivesHold, SameGeneration
  <1>10. Forward(doc.runs, doc.runs)
    BY AgreeingHolds DEF IInv, Agree, DocHolds, DocTyped
  <1> QED
    BY <1>1, <1>6, <1>8, <1>9, <1>10 DEF IInv, Follows, LineStep

LEMMA ArriveHolds ==
  ASSUME IInv, Arrive
  PROVE  IInv' /\ Follows /\ doc'.title = doc.title
  <1>1. PICK a \in arrival :
          /\ arrival' = {} /\ UNCHANGED <<attempts, timer, ticks>>
          /\ IF a.raced THEN UNCHANGED <<doc, drives>>
             ELSE /\ doc' = a.next
                  /\ drives' = drives \cup {[run |-> r, caller |-> "timer"] : r \in a.schedules}
    BY DEF Arrive
  <1>2. ArrivalHolds' /\ arrival' \subseteq ArrivalType /\ \A x, y \in arrival' : x = y
    BY <1>1 DEF ArrivalHolds
  <1>3. CASE a.raced
    <2>1. UNCHANGED <<doc, drives, attempts, timer, ticks>>
      BY <1>1, <1>3
    <2>2. WorkTyped'
      BY <1>2, <2>1 DEF IInv, WorkTyped
    <2>3. AttemptsHold' /\ DrivesHold'
      BY <2>1 DEF IInv, AttemptsHold, DrivesHold, SameGeneration
    <2>4. Forward(doc.runs, doc.runs)
      BY AgreeingHolds DEF IInv, Agree, DocHolds, DocTyped
    <2> QED
      BY <1>2, <2>1, <2>2, <2>3, <2>4 DEF IInv, Follows, LineStep
  <1>4. CASE ~a.raced
    <2>1. /\ Movable(doc) /\ doc.schedulerGeneration < MaxSchedulerGeneration
          /\ \E p \in Principals, c \in Agents :
               /\ c \notin External([doc EXCEPT !.controls[p] = Observer])
               /\ a.next = [Handed(doc, p, c) EXCEPT !.realtime = FALSE, !.schedulerGeneration = @ + 1]
               /\ a.schedules = Queued(Handed(doc, p, c))
      BY <1>4 DEF IInv, ArrivalHolds
    <2>2. PICK p \in Principals, c \in Agents :
               /\ c \notin External([doc EXCEPT !.controls[p] = Observer])
               /\ a.next = Paused(Handed(doc, p, c))
               /\ a.schedules = Queued(Handed(doc, p, c))
      BY <2>1 DEF Paused
    <2> DEFINE d == Handed(doc, p, c)
    <2>3. Transferred(d, doc)
      BY <2>1, <2>2, HandedHolds DEF IInv
    <2>4. doc' = Paused(d) /\ drives' = drives \cup {[run |-> r, caller |-> "timer"] : r \in Queued(d)}
      BY <1>1, <1>4, <2>2
    <2> HIDE DEF d
    <2>5. /\ DocHolds(d) /\ Forward(doc.runs, d.runs) /\ CurrentStatus(d) # "running"
          /\ d.history = doc.history /\ d.intents = doc.intents /\ d.title = doc.title
          /\ d.schedulerGeneration < MaxSchedulerGeneration
      BY <2>1, <2>3 DEF Transferred
    <2>6. doc' \in Documents /\ Agree(d, doc') /\ doc'.title = d.title
      BY <2>4, <2>5, PausedHolds
    <2>7. DocHolds(doc') /\ CurrentStatus(doc') = CurrentStatus(d)
      BY <2>5, <2>6, AgreeingHolds
    <2>8. Forward(doc.runs, doc'.runs) /\ doc'.history = doc.history /\ doc'.intents = doc.intents
      BY <2>5, <2>6 DEF Agree
    <2>9. Queued(d) \in SUBSET RunIds /\ (CurrentStatus(d) = "queued" => Len(d.runs) \in Queued(d))
      BY <2>5, QueuedTyped
    <2>10. /\ drives' \subseteq [run : RunIds, caller : Callers]
           /\ CurrentStatus(d) = "queued" => \E drive \in drives' : drive.run = Len(d.runs)
      BY <2>4, <2>9, Scheduled
    <2>11. \A t \in attempts' : ~SameGeneration(t)
      BY <1>1, <2>1, NobodyWorks DEF Movable, Executing
    <2>12. AttemptsHold'
      BY <1>1, <2>7, <2>8, <2>11, AttemptsStale
    <2>13. DrivesHold'
      BY <2>5, <2>6, <2>7, <2>10, DrivesNewest DEF Agree
    <2>14. WorkTyped'
      BY <1>1, <1>2, <2>10 DEF IInv, WorkTyped
    <2> QED
      BY <1>2, <2>5, <2>6, <2>7, <2>8, <2>12, <2>13, <2>14 DEF IInv, Follows, LineStep
  <1> QED
    BY <1>3, <1>4

(* A restart stops the newest run, the only one that executes.              *)
LEMMA RestartHolds ==
  ASSUME IInv, Restart
  PROVE  IInv' /\ Follows /\ doc'.title = doc.title
  <1> DEFINE Recovered(run) == IF run.status \in Executing THEN NextGeneration(run, "paused") ELSE run
             realtimes == doc.window.status # "open" /\ doc.realtime
             runs == [r \in DOMAIN doc.runs |-> Recovered(doc.runs[r])]
             g == IF realtimes THEN doc.schedulerGeneration + 1 ELSE doc.schedulerGeneration
             d == [doc EXCEPT !.runs = runs, !.schedulerGeneration = g]
  <1>1. /\ DocHolds(doc) /\ DocTyped(doc) /\ doc \in Documents /\ doc.runs \in Seq(RunRecords)
        /\ DOMAIN doc.runs = 1 .. Len(doc.runs) /\ doc.window \in Windows
        /\ g \in 1..MaxSchedulerGeneration
        /\ \A r \in DOMAIN doc.runs : doc.runs[r].generation < MaxGeneration
    BY DocumentTyped, Limits DEF IInv, DocHolds, Restart
  <1>2. /\ doc' = d
        /\ timer' = IF doc.window.status = "open" THEN DeadlineTimer(d)
                    ELSE IF realtimes THEN RealtimeTimer(d) ELSE NoTimer
        /\ attempts' = {} /\ drives' = {} /\ arrival' = {} /\ ticks' = {}
    <2>1. [doc EXCEPT !.runs = [r \in DOMAIN @ |-> Recovered(@[r])],
                      !.schedulerGeneration = IF realtimes THEN @ + 1 ELSE @] = d
      BY <1>1 DEF Documents
    <2> QED
      BY <2>1 DEF Restart
  <1> HIDE DEF g
  <1>3. \E mid : /\ DocHolds(mid) /\ Forward(doc.runs, mid.runs) /\ CurrentStatus(mid) \notin Executing
                 /\ mid.runs = runs /\ mid.history = doc.history /\ mid.window = doc.window
                 /\ mid.intents = doc.intents /\ mid.controls = doc.controls
    <2>1. CASE doc.runs = <<>>
      <3>1. runs = doc.runs
        BY <1>1, <2>1
      <3>2. Forward(doc.runs, doc.runs)
        BY <1>1, AgreeingHolds DEF Agree
      <3> QED
        BY <1>1, <2>1, <3>1, <3>2 DEF CurrentStatus, Executing
    <2>2. CASE doc.runs # <<>>
      <3> DEFINE n == Len(doc.runs)
                 run == doc.runs[n]
                 x == Recovered(run)
                 mid == With(doc, WithNewest(doc.runs, x), doc.window)
      <3>1. /\ n \in DOMAIN doc.runs /\ run \in RunRecords /\ RunHolds(run, Len(doc.history))
            /\ RootsPending(run, Pending(doc)) /\ run.generation \in Nat
            /\ WindowFits(doc.window, run.status, Len(doc.history), External(doc))
            /\ AnswersPending(doc.window, Pending(doc))
        BY <2>2, NewestTyped
      <3>2. run.generation < MaxGeneration
        BY <1>1, <3>1
      <3>3. \A r \in DOMAIN doc.runs : r # n => doc.runs[r].status \notin Executing
        BY <1>1 DEF DocHolds, RunsHold, Live
      <3>4. runs = WithNewest(doc.runs, x)
        <4>1. doc.runs = [r \in DOMAIN doc.runs |-> doc.runs[r]]
          BY <1>1
        <4>2. \A r \in DOMAIN doc.runs : runs[r] = IF r = n THEN x ELSE doc.runs[r]
          BY <3>3
        <4>3. \A r \in DOMAIN doc.runs : WithNewest(doc.runs, x)[r] = IF r = n THEN x ELSE doc.runs[r]
          <5> HIDE DEF x
          <5> QED
            BY <1>1 DEF WithNewest
        <4>4. DOMAIN WithNewest(doc.runs, x) = DOMAIN doc.runs /\ DOMAIN runs = DOMAIN doc.runs
          BY DEF WithNewest
        <4>5. WithNewest(doc.runs, x) = [r \in DOMAIN doc.runs |-> WithNewest(doc.runs, x)[r]]
          <5> HIDE DEF x
          <5> QED
            BY <1>1 DEF WithNewest
        <4> HIDE DEF x, Recovered
        <4> QED
          BY <4>2, <4>3, <4>4, <4>5
      <3>5. /\ x \in RunRecords /\ x.committed = run.committed /\ x.generation >= run.generation
            /\ x.roots = run.roots /\ x.status \notin Executing
            /\ \/ x.status = run.status
               \/ x.status = "paused" /\ run.status \in Executing
            /\ RunHolds(x, Len(doc.history))
        <4>1. CASE run.status \in Executing
          <5> DEFINE next == NextGeneration(run, "paused")
          <5>1. x = next
            BY <4>1
          <5> HIDE DEF run, x
          <5>2. /\ next \in RunRecords /\ next.status = "paused" /\ next.generation = run.generation + 1
                /\ next.committed = run.committed /\ next.roots = run.roots /\ next.lease = NoLease
            BY <3>1, <3>2, NextGenerationTyped DEF RunStatuses
          <5> HIDE DEF next
          <5>3. RunHolds(next, Len(doc.history))
            BY <3>1, <5>2 DEF RunHolds, Executing
          <5> QED
            BY <3>1, <4>1, <5>1, <5>2, <5>3 DEF Executing
        <4>2. CASE run.status \notin Executing
          <5>1. x = run
            BY <4>2
          <5> HIDE DEF run, x
          <5>2. run.generation >= run.generation
            BY <3>1
          <5> HIDE DEF RunRecords, RunHolds, Executing
          <5> QED
            BY <3>1, <4>2, <5>1, <5>2
        <4> QED
          BY <4>1, <4>2
      <3> HIDE DEF x, run, runs
      <3>6. WindowFits(doc.window, x.status, Len(doc.history), External(doc))
        BY <3>1, <3>5 DEF WindowFits
      <3>7. RootsPending(x, Pending(doc))
        BY <3>1, <3>5 DEF RootsPending
      <3>8. run.status = "paused" => x.status = "paused"
        BY <3>5 DEF Executing
      <3>9. Becomes(doc, x, doc.window)
        BY <1>1, <2>2, <3>1, <3>5, <3>6, <3>7, <3>8 DEF Becomes, run
      <3>10. Became(mid, doc, x)
        BY <3>9, NewestBecomes
      <3>11. mid.runs = runs /\ mid.window = doc.window /\ mid.controls = doc.controls
        BY <1>1, <3>4 DEF With, Documents
      <3> HIDE DEF mid
      <3>12. CurrentStatus(mid) \notin Executing
        BY <3>5, <3>10 DEF Became
      <3> QED
        BY <3>10, <3>11, <3>12 DEF Became
    <2> QED
      BY <2>1, <2>2
  <1>4. PICK mid : /\ DocHolds(mid) /\ Forward(doc.runs, mid.runs) /\ CurrentStatus(mid) \notin Executing
                   /\ mid.runs = runs /\ mid.history = doc.history /\ mid.window = doc.window
                   /\ mid.intents = doc.intents /\ mid.controls = doc.controls
    BY <1>3
  <1> HIDE DEF runs
  <1>5. runs \in Seq(RunRecords)
    BY <1>4, DocumentTyped DEF DocHolds
  <1>6. /\ d \in Documents /\ d.runs = runs /\ d.history = doc.history /\ d.window = doc.window
        /\ d.intents = doc.intents /\ d.controls = doc.controls /\ d.title = doc.title
    BY <1>1, <1>5 DEF Documents
  <1> HIDE DEF d
  <1>7. Agree(mid, d)
    BY <1>4, <1>6 DEF Agree
  <1>8. DocHolds(d) /\ CurrentStatus(d) \notin Executing /\ Forward(doc.runs, d.runs)
    BY <1>4, <1>6, <1>7, AgreeingHolds
  <1>9. timer' \in TimerType
    <2>1. DeadlineTimer(d) \in TimerType /\ RealtimeTimer(d) \in TimerType /\ NoTimer \in TimerType
      BY <1>8, TimersTyped DEF DocHolds
    <2> QED
      BY <1>2, <2>1
  <1>10. DrivesHold'
    BY <1>2, <1>8, DrivesNewest DEF Executing
  <1>11. WorkTyped' /\ AttemptsHold' /\ ArrivalHolds'
    BY <1>2, <1>9 DEF WorkTyped, AttemptsHold, ArrivalHolds, TimerType
  <1> QED
    BY <1>2, <1>6, <1>8, <1>10, <1>11 DEF IInv, Follows, LineStep

-----------------------------------------------------------------------------
(* Every behaviour.                                                         *)

LEMMA InitHolds ==
  ASSUME Init
  PROVE  IInv
  <1>1. PICK creator \in Principals, start \in Agents \cup {Observer} :
        doc = [title |-> 0, realtime |-> FALSE, schedulerGeneration |-> 1,
               controls |-> [p \in Principals |-> IF p = creator THEN start ELSE Observer],
               engaged |-> {}, history |-> <<>>, runs |-> <<>>, window |-> NoWindow, intents |-> <<>>]
    BY DEF Init
  <1> DEFINE controls == [p \in Principals |-> IF p = creator THEN start ELSE Observer]
  <1>2. /\ doc.title = 0 /\ doc.realtime = FALSE /\ doc.schedulerGeneration = 1 /\ doc.controls = controls
        /\ doc.engaged = {} /\ doc.history = <<>> /\ doc.runs = <<>> /\ doc.window = NoWindow
        /\ doc.intents = <<>>
    BY <1>1
  <1>3. attempts = {} /\ drives = {} /\ timer = NoTimer /\ arrival = {} /\ ticks = {}
    BY DEF Init
  <1>4. doc \in Documents
    <2>1. controls \in [Principals -> Agents \cup {Observer}]
      OBVIOUS
    <2>2. /\ <<>> \in Seq(SUBSET Intents) /\ <<>> \in Seq(RunRecords) /\ <<>> \in Seq(Agents)
      BY EmptySeq
    <2> HIDE DEF controls
    <2> QED
      BY <1>1, <2>1, <2>2, Limits, NoWindowTyped DEF Documents, controls
  <1>5. /\ DOMAIN doc.runs = {} /\ DOMAIN doc.history = {} /\ Len(doc.runs) = 0 /\ Len(doc.history) = 0
        /\ Len(doc.intents) = 0
    BY <1>2, EmptySeq
  <1>6. DocTyped(doc)
    BY <1>4, <1>5, Limits DEF DocTyped
  <1>7. ControlsHold(doc)
    BY <1>2 DEF ControlsHold
  <1>8. WindowHolds(doc) /\ RunsHold(doc.runs, Len(doc.history))
    BY <1>2, <1>5, NoWindowTyped DEF WindowHolds, WindowFits, CurrentStatus, RunsHold
  <1>9. IntentsHold(doc)
    BY <1>2, <1>5, NoWindowTyped DEF IntentsHold, ExecutedBy, AnswersPending
  <1>10. RevisionsHold(doc)
    BY <1>5 DEF RevisionsHold
  <1>11. NoTimer \in TimerType
    BY <1>6, TimersTyped
  <1>12. WorkTyped /\ AttemptsHold /\ DrivesHold /\ ArrivalHolds
    BY <1>3, <1>5, <1>11 DEF WorkTyped, AttemptsHold, DrivesHold, ArrivalHolds, TimerType
  <1> QED
    BY <1>6, <1>7, <1>8, <1>9, <1>10, <1>12 DEF IInv, DocHolds

LEMMA NextHolds ==
  ASSUME IInv, SerialEnvironment, Next
  PROVE  IInv' /\ Follows
  <1>1. CASE Advance
    BY <1>1, AdvanceHolds
  <1>2. CASE \E enabled \in BOOLEAN : SetRealtime(enabled)
    BY <1>2, SetRealtimeHolds
  <1>3. CASE RealtimeFires
    BY <1>3, RealtimeFiresHolds
  <1>4. CASE WaitingTickAdvances
    BY <1>4, WaitingTickHolds
  <1>5. CASE Rename
    BY <1>5, RenameHolds
  <1>6. CASE \E a \in Agents : SubmitAction(a)
    BY <1>6, SubmitActionHolds
  <1>7. CASE \E a \in Agents : Resubmit(a)
    BY <1>7, ResubmitHolds
  <1>8. CASE \E a \in Agents : SubmitReaction(a)
    BY <1>8, SubmitReactionHolds
  <1>9. CASE DeadlineFires
    BY <1>9, DeadlineFiresHolds
  <1>10. CASE \E drive \in drives : StartAttempt(drive)
    BY <1>10, StartAttemptHolds
  <1>11. CASE \E drive \in drives : SkipDrive(drive)
    BY <1>11, SkipDriveHolds
  <1>12. CASE \E attempt \in attempts, required \in SUBSET Agents : AwaitReactions(attempt, required)
    BY <1>12, AwaitReactionsHolds
  <1>13. CASE \E attempt \in attempts : CommitAttempt(attempt)
    BY <1>13, CommitAttemptHolds
  <1>14. CASE \E attempt \in attempts : FailAttempt(attempt)
    BY <1>14, FailAttemptHolds
  <1>15. CASE \E attempt \in attempts : AttemptFenced(attempt)
    BY <1>15, FencedHolds
  <1>16. CASE \E r \in 1..MaxRuns : Pause(r)
    BY <1>16, PauseHolds
  <1>17. CASE \E r \in 1..MaxRuns : Resume(r)
    BY <1>17, ResumeHolds
  <1>18. CASE \E p \in Principals : Release(p)
    BY <1>18, ReleaseHolds
  <1>19. CASE \E p \in Principals, a \in Agents : TakeControl(p, a)
    BY <1>19, TakeControlHolds
  <1>20. CASE Arrive
    BY <1>20, ArriveHolds
  <1>21. CASE Restart
    BY <1>21, RestartHolds
  <1> QED
    BY <1>1, <1>2, <1>3, <1>4, <1>5, <1>6, <1>7, <1>8, <1>9, <1>10, <1>11, <1>12, <1>13, <1>14,
       <1>15, <1>16, <1>17, <1>18, <1>19, <1>20, <1>21 DEF Next

LEMMA StutterHolds ==
  ASSUME IInv, UNCHANGED vars
  PROVE  IInv' /\ Follows
  BY DocumentKept DEF vars, IInv, WorkTyped, TimerType

(* Only the end of an arrival empties the lock that one held.               *)
LEMMA TitleKept ==
  ASSUME Next, arrival # {}, arrival' = {}
  PROVE  doc'.title = doc.title \/ Arrive \/ Restart
  <1>1. ASSUME NEW d, Persist(d)
        PROVE  FALSE
    <2>1. PICK a : a \in arrival
      OBVIOUS
    <2>2. [a EXCEPT !.raced = TRUE] \in arrival'
      BY <1>1, <2>1 DEF Persist
    <2> QED
      BY <2>2
  <1>2. UNCHANGED arrival => FALSE
    OBVIOUS
  <1>3. ASSUME NEW steps, NEW pending, StartRun(steps, pending)
        PROVE  FALSE
    BY <1>1, <1>3 DEF StartRun
  <1>4. ASSUME NEW revision, NEW pending, TickAdvances(revision, pending)
        PROVE  FALSE
    BY <1>2, <1>3, <1>4 DEF TickAdvances
  <1>5. ~LockFree
    BY DEF LockFree
  <1>6. CASE Rename
    BY <1>1, <1>6 DEF Rename
  <1>7. CASE RealtimeFires
    BY <1>2, <1>5, <1>7 DEF RealtimeFires
  <1>8. CASE \E attempt \in attempts, required \in SUBSET Agents : AwaitReactions(attempt, required)
    BY <1>1, <1>8 DEF AwaitReactions
  <1>9. CASE \E attempt \in attempts : CommitAttempt(attempt)
    BY <1>1, <1>9 DEF CommitAttempt
  <1>10. CASE \E attempt \in attempts : FailAttempt(attempt)
    BY <1>1, <1>10 DEF FailAttempt
  <1>11. CASE \E attempt \in attempts : AttemptFenced(attempt)
    BY <1>2, <1>11 DEF AttemptFenced
  <1> QED
    BY <1>5, <1>6, <1>7, <1>8, <1>9, <1>10, <1>11
       DEF Next, Advance, SetRealtime, WaitingTickAdvances, SubmitAction, Resubmit, SubmitReaction,
           DeadlineFires, StartAttempt, SkipDrive, Pause, Resume, Transferable, Release, TakeControl

(* The inductive step: what one step, or a stutter, keeps and may do.       *)
KeepsTitle == arrival # {} /\ arrival' = {} => doc'.title = doc.title

LEMMA StepHolds ==
  ASSUME IInv, SerialEnvironment, [Next]_vars
  PROVE  IInv' /\ Follows /\ KeepsTitle
  <1>1. CASE Next
    <2>1. IInv' /\ Follows
      BY <1>1, NextHolds
    <2>2. KeepsTitle
      BY <1>1, TitleKept, ArriveHolds, RestartHolds DEF KeepsTitle
    <2> QED
      BY <2>1, <2>2
  <1>2. CASE UNCHANGED vars
    <2>1. KeepsTitle
      BY <1>2 DEF vars, KeepsTitle
    <2> QED
      BY <1>2, <2>1, StutterHolds
  <1> QED
    BY <1>1, <1>2

(* IInv holds in every state of the specification.                           *)
LEMMA Invariant ==
  ASSUME SerialEnvironment
  PROVE  Spec => []IInv
  <1>1. Init => IInv
    BY InitHolds
  <1>2. IInv /\ [Next]_vars => IInv'
    BY StepHolds
  <1> QED
    BY <1>1, <1>2, PTL DEF Spec

-----------------------------------------------------------------------------
(* What the document and the work around it are at any time.                *)

(* The document has the type of a world instance document, every snapshot   *)
(* and pending transfer too, and at most one transfer holds the lock.       *)
THEOREM TypeCorrect ==
  ASSUME SerialEnvironment
  PROVE  Spec => []TypeOK
  <1>1. IInv => TypeOK
    <2> SUFFICES ASSUME IInv PROVE TypeOK
      OBVIOUS
    <2>1. Cardinality(arrival) <= 1
      <3>1. CASE arrival = {}
        BY <3>1, FS_EmptySet
      <3>2. CASE arrival # {}
        <4>1. PICK a : a \in arrival
          BY <3>2
        <4>2. arrival = {a}
          BY <4>1 DEF IInv, WorkTyped
        <4> QED
          BY <4>2, FS_Singleton
      <3> QED
        BY <3>1, <3>2
    <2>2. \A a \in arrival : a.next \in Documents
      BY DEF IInv, WorkTyped, ArrivalType
    <2> QED
      BY <2>1, <2>2 DEF IInv, DocHolds, DocTyped, WorkTyped, TypeOK
  <1> QED
    BY <1>1, Invariant, PTL

(* Every document the handlers and attempts write passes the store's own    *)
(* validation: none of them can write a window of another revision, ask an  *)
(* agent nobody controls, or leave a lease of another generation.           *)
THEOREM DocumentsValid ==
  ASSUME SerialEnvironment
  PROVE  Spec => []DocumentValid
  <1>1. IInv => DocumentValid
    <2> SUFFICES ASSUME IInv PROVE DocumentValid
      OBVIOUS
    <2>1. ASSUME doc.window # NoWindow
          PROVE  /\ doc.window.baseRevision = Len(doc.history)
                 /\ doc.window.required \subseteq External(doc)
                 /\ {a \in Agents : doc.window.submissions[a] # 0} \subseteq doc.window.required
      BY <2>1 DEF IInv, DocHolds, WindowHolds, WindowFits
    <2>2. ASSUME NEW r \in DOMAIN doc.runs
          PROVE  LET run == doc.runs[r] IN
                 /\ run.lease # NoLease => run.lease.generation = run.generation
                 /\ run.status = "running" => run.lease # NoLease
                 /\ run.lease.commitCount <= runLeaseMaxCommits
      <3>1. doc.runs[r] \in RunRecords
        BY DocumentTyped DEF IInv, DocHolds
      <3>2. doc.runs[r].lease.commitCount <= runLeaseMaxCommits
        BY <3>1, RunTyped, Limits
      <3> QED
        BY <3>2 DEF IInv, DocHolds, RunsHold, RunHolds
    <2>3. ControlsHold(doc)
      BY DEF IInv, DocHolds
    <2> QED
      BY <2>1, <2>2, <2>3 DEF DocumentValid, ControlsHold
  <1> QED
    BY <1>1, Invariant, PTL

(* Strictly serial: however handlers, deadlines, ticks, transfers, pauses   *)
(* and restarts interleave, only the newest run of the instance is ever     *)
(* queued, running or waiting for players.                                  *)
THEOREM OneLiveRun ==
  ASSUME SerialEnvironment
  PROVE  Spec => []SingleLiveRun
  <1>1. IInv => SingleLiveRun
    BY DEF IInv, DocHolds, RunsHold, SingleLiveRun
  <1> QED
    BY <1>1, Invariant, PTL

(* No run is left queued without a driveRun coming, or running without an   *)
(* attempt that may still write it, so no client waits for a run that       *)
(* nothing is going to change.                                              *)
THEOREM NoRunOrphaned ==
  ASSUME SerialEnvironment
  PROVE  Spec => []NoOrphanRun
  <1>1. IInv => NoOrphanRun
    <2> SUFFICES ASSUME IInv, NEW r \in DOMAIN doc.runs
                 PROVE  /\ doc.runs[r].status = "running" => \E t \in attempts : t.run = r /\ Current(t)
                        /\ doc.runs[r].status = "queued" => \E drive \in drives : drive.run = r
      BY DEF NoOrphanRun
    <2>1. ASSUME doc.runs[r].status = "running"
          PROVE  \E t \in attempts : t.run = r /\ Current(t)
      <3>1. PICK t \in attempts : t.run = r /\ SameGeneration(t)
        BY <2>1 DEF IInv, DrivesHold
      <3>2. Agree(doc, t.snapshot) /\ doc.runs[t.run].status = "running"
        BY <3>1 DEF IInv, AttemptsHold
      <3> QED
        BY <3>1, <3>2 DEF Current, Agree
    <2>2. doc.runs[r].status = "queued" => \E drive \in drives : drive.run = r
      BY DEF IInv, DrivesHold
    <2> QED
      BY <2>1, <2>2
  <1> QED
    BY <1>1, Invariant, PTL

(* A run that waits for its players has an open window to collect their     *)
(* answers, and no window outlives the run that waits on it.                *)
THEOREM WindowsMatchRuns ==
  ASSUME SerialEnvironment
  PROVE  Spec => []WindowMatchesRun
  <1>1. IInv => WindowMatchesRun
    BY DEF IInv, DocHolds, WindowHolds, WindowFits, WindowMatchesRun
  <1> QED
    BY <1>1, Invariant, PTL

(* Every committed revision is listed by exactly one run, once: a paused,   *)
(* superseded or restarted attempt never adds a step of its own.            *)
THEOREM RevisionsArePartitioned ==
  ASSUME SerialEnvironment
  PROVE  Spec => []RevisionsPartitioned
  <1>1. IInv => RevisionsPartitioned
    <2> SUFFICES ASSUME IInv, NEW n \in 1 .. Len(doc.history)
                 PROVE  Cardinality(Owners(doc.runs, n)) = 1
      BY DEF RevisionsPartitioned
    <2>1. PICK o : Owners(doc.runs, n) = {o}
      BY DEF IInv, DocHolds, RevisionsHold
    <2> QED
      BY <2>1, FS_Singleton
  <1> QED
    BY <1>1, Invariant, PTL

(* No two attempts are ever both fit to write their boundary.               *)
THEOREM BoundariesAreSerial ==
  ASSUME SerialEnvironment
  PROVE  Spec => []StrictlySerial
  <1>1. IInv => StrictlySerial
    BY DEF IInv, AttemptsHold, StrictlySerial, Current
  <1> QED
    BY <1>1, Invariant, PTL

-----------------------------------------------------------------------------
(* What a step may do to the document.                                      *)

(* A run's generation never goes back, its committed revisions stay, and a  *)
(* pause holds until a client resumes or replaces the run, whatever the     *)
(* attempt that was in progress still does.                                 *)
THEOREM RunsOnlyMoveForward ==
  ASSUME SerialEnvironment
  PROVE  Spec => RunsMoveForward
  <1>1. IInv /\ [Next]_vars =>
          [\A r \in DOMAIN doc.runs : LET run == doc.runs[r] next == doc'.runs[r] IN
             /\ r \in DOMAIN doc'.runs
             /\ next.generation >= run.generation
             /\ SubSeq(next.committed, 1, Len(run.committed)) = run.committed
             /\ run.status = "paused" =>
                   next.status \in {"paused", "completed"} \/ next.generation > run.generation]_doc
    BY StepHolds DEF Follows, Forward
  <1> QED
    BY <1>1, Invariant, PTL DEF Spec, RunsMoveForward

(* A transfer of control that awaited its arrival text does not undo a      *)
(* rename made meanwhile.                                                   *)
THEOREM ArrivalsKeepWrites ==
  ASSUME SerialEnvironment
  PROVE  Spec => ArrivalKeepsWrites
  <1>1. IInv /\ [Next]_vars => [arrival # {} /\ arrival' = {} => doc'.title = doc.title]_vars
    BY StepHolds DEF KeepsTitle
  <1> QED
    BY <1>1, Invariant, PTL DEF Spec, ArrivalKeepsWrites

(* The document implements WorldLine: an intent once accepted stays         *)
(* accepted, the line of steps only grows, and what a step executes was     *)
(* accepted and not executed before.  Every step of the host appends one    *)
(* intent, commits one step of the line, or leaves both alone.              *)
THEOREM HostImplementsLine ==
  ASSUME SerialEnvironment
  PROVE  Spec => ImplementsWorldLine
  <1>1. Init => Line!LineInit
    <2>1. Init => doc.history = <<>> /\ doc.intents = <<>>
      BY DEF Init
    <2> QED
      BY <2>1, EmptySeq DEF Line!LineInit
  <1>2. IInv /\ [Next]_vars => [Line!LineNext]_(Line!lineVars)
    <2> SUFFICES ASSUME IInv, [Next]_vars
                 PROVE  [Line!LineNext]_(Line!lineVars)
      OBVIOUS
    <2>1. LineStep /\ IInv'
      BY StepHolds DEF Follows
    <2>2. /\ Len(doc.intents) \in Nat /\ Len(doc'.intents) \in Nat
          /\ Len(doc.intents) <= MaxIntents /\ Len(doc'.intents) <= MaxIntents
      BY <2>1, DocumentTyped DEF IInv, DocHolds
    <2>3. CASE doc'.history = doc.history /\ doc'.intents = doc.intents
      BY <2>3 DEF Line!lineVars
    <2>4. CASE doc'.history = doc.history /\ Len(doc'.intents) = Len(doc.intents) + 1
      <3> DEFINE i == Len(doc.intents) + 1
      <3>1. i \in Intents
        BY <2>2, <2>4, Limits DEF Intents
      <3>2. i \notin 1 .. Len(doc.intents)
        BY <2>2
      <3>3. 1 .. Len(doc'.intents) = (1 .. Len(doc.intents)) \cup {i}
        BY <2>2, <2>4
      <3>4. Line!Accept(i)
        BY <2>4, <3>2, <3>3 DEF Line!Accept
      <3> QED
        BY <3>1, <3>4 DEF Line!LineNext
    <2>5. CASE /\ doc'.intents = doc.intents
               /\ \E S \in SUBSET Pending(doc) : doc'.history = Append(doc.history, S)
      <3>1. PICK S \in SUBSET Pending(doc) : doc'.history = Append(doc.history, S)
        BY <2>5
      <3>2. S \subseteq (1 .. Len(doc.intents)) \ Line!Executed
        BY <3>1 DEF Pending, ExecutedBy, Line!Executed
      <3>3. Line!Commit(S)
        BY <2>5, <3>1, <3>2 DEF Line!Commit
      <3> QED
        BY <3>2, <3>3 DEF Line!LineNext
    <2> QED
      BY <2>1, <2>3, <2>4, <2>5 DEF LineStep
  <1> QED
    BY <1>1, <1>2, Invariant, PTL DEF Spec, ImplementsWorldLine, Line!LineSpec
=============================================================================
