--------------------------- MODULE InstanceStore ---------------------------
(***************************************************************************)
(* The local database (server/local-database.ts) as several processes use  *)
(* it: the writer lease, one instance row with its generation, the         *)
(* execution ledger, the trace writers that buffer events in memory, and   *)
(* the cache of validated documents.                                       *)
(*                                                                         *)
(* A SQLite transaction is one action.  What a failed transaction leaves   *)
(* behind in memory is part of the model: `faults' counts the failures of  *)
(* a write or of a COMMIT (a full disk).                                   *)
(***************************************************************************)
EXTENDS Naturals, Sequences

CONSTANTS
  Processes,        \* operating-system processes that may open the file
  Executions,
  None,             \* no process, no execution
  MaxGeneration,    \* bound: generations of the instance
  MaxEmitted,       \* bound: events emitted by one execution
  MaxPendingExecutionEvents,
  MaxFaults,        \* bound: failed writes and commits
  MaxOpenings,      \* bound: how often the file is opened
  SuspendInBegin    \* may a takeover fall between the statements of beginExecution?

ASSUME StoreAssumption ==
  /\ None \notin Processes \cup Executions
  /\ MaxGeneration \in Nat /\ MaxEmitted \in Nat /\ MaxFaults \in Nat /\ MaxOpenings \in Nat
  /\ MaxPendingExecutionEvents \in Nat \ {0}
  /\ SuspendInBegin \in BOOLEAN

VARIABLES
  lock,        \* table instance_lock: its owner and whether expires_at has passed
  instance,    \* table world_instances: the row of the instance
  status,      \* table executions: status
  trace,       \* table execution_events, by execution
  mode,        \* what each process does with the file
  todo,        \* executions the constructor found running and has still to close
  between,     \* the execution a process is in the middle of closing or beginning
  runner,      \* the process whose memory holds the work of an execution
  registered,  \* executions whose writer is in executionWriters
  emitted,     \* number of events emitted so far
  pending,     \* pendingEvents of each trace writer
  held,        \* the version a process has read or written last
  cache,       \* validatedInstances
  faults,
  openings

tables == <<instance, status, trace>>
memory == <<mode, todo, between, runner, registered, emitted, pending, held, cache>>
bounds == <<faults, openings>>
vars == <<lock, tables, memory, bounds>>

Modes == {"down", "acquired", "recovering", "open"}
Statuses == {"none", "running", "succeeded", "failed"}
Terminal == {"succeeded", "failed"}
Event == [by : Processes, kind : {"emitted", "commit", "recovered", "failed"}, number : 0 .. MaxEmitted]

\* A version of the document stands for the writes that led to it: who wrote
\* it, for which execution, and which length of the trace it refers to.
Write == [by : Processes, execution : Executions \cup {None}, reference : Nat]
NoVersion == [generation |-> 0, writes |-> <<>>]
Version == instance.version
Versions == [generation : 0 .. MaxGeneration, writes : Seq(Write)]

TypeOK ==
  /\ lock \in [owner : Processes \cup {None}, expired : BOOLEAN]
  /\ instance \in [version : Versions, deleted : BOOLEAN]
  /\ status \in [Executions -> Statuses]
  /\ trace \in [Executions -> Seq(Event)]
  /\ mode \in [Processes -> Modes]
  /\ todo \in [Processes -> SUBSET Executions]
  /\ between \in [Processes -> Executions \cup {None}]
  /\ runner \in [Executions -> Processes \cup {None}]
  /\ registered \in SUBSET Executions
  /\ emitted \in [Executions -> 0 .. MaxEmitted]
  /\ pending \in [Executions -> Seq(Event)]
  /\ held \in [Processes -> Versions]
  /\ cache \in [Processes -> Versions]
  /\ faults \in 0 .. MaxFaults
  /\ openings \in 0 .. MaxOpenings

Init ==
  /\ lock = [owner |-> None, expired |-> FALSE]
  /\ instance = [version |-> NoVersion, deleted |-> FALSE]
  /\ status = [e \in Executions |-> "none"]
  /\ trace = [e \in Executions |-> <<>>]
  /\ mode = [p \in Processes |-> "down"]
  /\ todo = [p \in Processes |-> {}]
  /\ between = [p \in Processes |-> None]
  /\ runner = [e \in Executions |-> None]
  /\ registered = {}
  /\ emitted = [e \in Executions |-> 0]
  /\ pending = [e \in Executions |-> <<>>]
  /\ held = [p \in Processes |-> NoVersion]
  /\ cache = [p \in Processes |-> NoVersion]
  /\ faults = 0
  /\ openings = 0

-----------------------------------------------------------------------------
(* The writer lease. *)

Owns(p) == lock.owner = p

\* assertInstanceLease renews an expired lease that nobody took over.
Renewed == [lock EXCEPT !.expired = FALSE]

\* Time passes beyond expires_at while the owner's heartbeat is held up.
Expire ==
  /\ lock.owner # None /\ ~lock.expired
  /\ lock' = [lock EXCEPT !.expired = TRUE]
  /\ UNCHANGED <<tables, memory, bounds>>

\* The heartbeat of an owner; that of any other process only stops itself.
RenewInstanceLease(p) ==
  /\ mode[p] = "open" /\ Owns(p) /\ lock.expired
  /\ lock' = Renewed
  /\ UNCHANGED <<tables, memory, bounds>>

\* A new process opens the file: nobody else holds a lease that counts.
AcquireInstanceLease(p) ==
  /\ mode[p] = "down" /\ openings < MaxOpenings
  /\ \A q \in Processes \ {p} : Owns(q) => lock.expired \/ mode[q] = "down"
  /\ SuspendInBegin \/ \A q \in Processes : mode[q] = "open" => between[q] = None
  /\ lock' = [owner |-> p, expired |-> FALSE]
  /\ mode' = [mode EXCEPT ![p] = "acquired"]
  /\ openings' = openings + 1
  /\ UNCHANGED <<tables, todo, between, runner, registered, emitted, pending, held, cache, faults>>

-----------------------------------------------------------------------------
(* The trace of an execution. *)

Entry(p, kind, n) == [by |-> p, kind |-> kind, number |-> n]

\* Faulty variants: a write without the lease, a write after the end.
AppendableUnfenced(p, e) == status[e] = "running"
AppendableAnytime(p, e) == Owns(p) /\ status[e] # "none"

\* persistExecutionEvents refuses without the lease or after the end.
Appendable(p, e) == Owns(p) /\ status[e] = "running"

\* The writer of e can be emptied: nothing to write, or the write succeeds.
Flushable(p, e) == e \in registered /\ pending[e] # <<>> => Appendable(p, e)

Flushed(e) == IF e \in registered THEN trace[e] \o pending[e] ELSE trace[e]

\* What stays in the buffer: a writer no longer registered is not asked.
Unflushed(e) == IF e \in registered THEN <<>> ELSE pending[e]

\* A faulty variant: a batch whose write fails is dropped.
EmitDroppingBatch(p, e) ==
  LET grown == Append(pending[e], Entry(p, "emitted", emitted[e] + 1))
  IN /\ mode[p] = "open" /\ runner[e] = p /\ emitted[e] < MaxEmitted
     /\ emitted' = [emitted EXCEPT ![e] = @ + 1]
     /\ IF Len(grown) < MaxPendingExecutionEvents
        THEN pending' = [pending EXCEPT ![e] = grown] /\ UNCHANGED faults
        ELSE pending' = [pending EXCEPT ![e] = <<>>] /\ faults < MaxFaults /\ faults' = faults + 1
     /\ UNCHANGED <<lock, tables, mode, todo, between, runner, registered, held, cache, openings>>

Emit(p, e) ==
  LET grown == Append(pending[e], Entry(p, "emitted", emitted[e] + 1))
  IN /\ mode[p] = "open" /\ runner[e] = p /\ emitted[e] < MaxEmitted
     /\ emitted' = [emitted EXCEPT ![e] = @ + 1]
     /\ \/ /\ Len(grown) < MaxPendingExecutionEvents
           /\ pending' = [pending EXCEPT ![e] = grown]
           /\ UNCHANGED <<lock, trace, faults>>
        \/ /\ Len(grown) >= MaxPendingExecutionEvents /\ Appendable(p, e)
           /\ trace' = [trace EXCEPT ![e] = @ \o grown]
           /\ pending' = [pending EXCEPT ![e] = <<>>]
           /\ lock' = Renewed
           /\ UNCHANGED faults
        \/ \* The write fails: the batch goes back to the front of the buffer.
           /\ Len(grown) >= MaxPendingExecutionEvents
           /\ Appendable(p, e) => faults < MaxFaults
           /\ faults' = IF Appendable(p, e) THEN faults + 1 ELSE faults
           /\ pending' = [pending EXCEPT ![e] = grown]
           /\ UNCHANGED <<lock, trace>>
     /\ UNCHANGED <<instance, status, mode, todo, between, runner, registered, held, cache, openings>>

Flush(p, e) ==
  /\ mode[p] = "open" /\ runner[e] = p /\ pending[e] # <<>> /\ Appendable(p, e)
  /\ trace' = [trace EXCEPT ![e] = @ \o pending[e]]
  /\ pending' = [pending EXCEPT ![e] = <<>>]
  /\ lock' = Renewed
  /\ UNCHANGED <<instance, status, mode, todo, between, runner, registered, emitted, held, cache, bounds>>

-----------------------------------------------------------------------------
(* Executions. *)

\* beginExecution first checks the lease ...
CheckBegin(p, e) ==
  /\ mode[p] = "open" /\ between[p] = None
  /\ status[e] = "none" /\ \A q \in Processes : between[q] # e
  /\ Owns(p)
  /\ lock' = Renewed
  /\ between' = [between EXCEPT ![p] = e]
  /\ UNCHANGED <<tables, mode, todo, runner, registered, emitted, pending, held, cache, bounds>>

\* ... and inserts the row in a statement of its own.
InsertExecution(p) ==
  /\ mode[p] = "open" /\ between[p] # None
  /\ status' = [status EXCEPT ![between[p]] = "running"]
  /\ runner' = [runner EXCEPT ![between[p]] = p]
  /\ registered' = registered \cup {between[p]}
  /\ between' = [between EXCEPT ![p] = None]
  /\ UNCHANGED <<lock, instance, trace, mode, todo, emitted, pending, held, cache, bounds>>

\* finishExecution with an error, as failExecution of the host calls it.
FailExecution(p, e) ==
  /\ mode[p] = "open" /\ runner[e] = p
  /\ Flushable(p, e) /\ Appendable(p, e)
  /\ trace' = [trace EXCEPT ![e] = Append(Flushed(e), Entry(p, "failed", 0))]
  /\ status' = [status EXCEPT ![e] = "failed"]
  /\ pending' = [pending EXCEPT ![e] = Unflushed(e)]
  /\ registered' = registered \ {e}
  /\ lock' = Renewed
  /\ UNCHANGED <<instance, mode, todo, between, runner, emitted, held, cache, bounds>>

-----------------------------------------------------------------------------
(* Versions of the instance. *)

\* A faulty variant: the generation is not compared.
SwapsAny(p) == ~instance.deleted

\* The INSERT or UPDATE applies to the generation the process has seen.
Swaps(p) == ~instance.deleted /\ Version.generation = held[p].generation

\* A faulty variant: the generation is counted by the statement and by the caller.
NextVersionTwice(p, e, reference) ==
  [generation |-> held[p].generation + 2,
   writes |-> Append(held[p].writes, [by |-> p, execution |-> e, reference |-> reference])]

NextVersion(p, e, reference) ==
  [generation |-> held[p].generation + 1,
   writes |-> Append(held[p].writes, [by |-> p, execution |-> e, reference |-> reference])]

\* compareAndSwapInstance by itself.
CompareAndSwap(p) ==
  /\ mode[p] = "open" /\ held[p].generation \in 1 .. MaxGeneration - 1
  /\ Owns(p) /\ Swaps(p)
  /\ instance' = [instance EXCEPT !.version = NextVersion(p, None, 0)]
  /\ held' = [held EXCEPT ![p] = NextVersion(p, None, 0)]
  /\ cache' = [cache EXCEPT ![p] = NextVersion(p, None, 0)]
  /\ lock' = Renewed
  /\ UNCHANGED <<status, trace, mode, todo, between, runner, registered, emitted, pending, bounds>>

\* createInstanceAndFinishExecution (from no row) and
\* compareAndSwapInstanceAndFinishExecution: the buffer is written first, then
\* one outer transaction holds the commit event, the new version and the end.
Committing(p, e) ==
  /\ mode[p] = "open" /\ runner[e] = p /\ held[p].generation < MaxGeneration
  /\ Flushable(p, e) /\ Appendable(p, e)

\* A faulty variant: the end of the execution is left to a later transaction.
CommitWithoutFinish(p, e) ==
  LET reference == Len(Flushed(e)) + 1
      next == NextVersion(p, e, reference)
  IN /\ Committing(p, e) /\ Swaps(p)
     /\ instance' = [instance EXCEPT !.version = next]
     /\ trace' = [trace EXCEPT ![e] = Append(Flushed(e), Entry(p, "commit", 0))]
     /\ held' = [held EXCEPT ![p] = next]
     /\ cache' = [cache EXCEPT ![p] = next]
     /\ pending' = [pending EXCEPT ![e] = Unflushed(e)]
     /\ lock' = Renewed
     /\ UNCHANGED <<status, mode, todo, between, runner, registered, emitted, bounds>>

CommitAndFinish(p, e) ==
  LET reference == Len(Flushed(e)) + 1
      next == NextVersion(p, e, reference)
  IN /\ Committing(p, e) /\ Swaps(p)
     /\ instance' = [instance EXCEPT !.version = next]
     /\ trace' = [trace EXCEPT ![e] = Append(Flushed(e), Entry(p, "commit", 0))]
     /\ status' = [status EXCEPT ![e] = "succeeded"]
     /\ held' = [held EXCEPT ![p] = next]
     /\ cache' = [cache EXCEPT ![p] = next]
     /\ pending' = [pending EXCEPT ![e] = Unflushed(e)]
     /\ registered' = registered \ {e}
     /\ lock' = Renewed
     /\ UNCHANGED <<mode, todo, between, runner, emitted, bounds>>

\* A faulty variant: the inner transactions are durable by themselves.
CommitFailsHalfway(p, e) ==
  LET next == NextVersion(p, e, Len(Flushed(e)) + 1)
  IN /\ Committing(p, e) /\ Swaps(p) /\ faults < MaxFaults
     /\ faults' = faults + 1
     /\ instance' = [instance EXCEPT !.version = next]
     /\ trace' = [trace EXCEPT ![e] = Append(Flushed(e), Entry(p, "commit", 0))]
     /\ pending' = [pending EXCEPT ![e] = Unflushed(e)]
     /\ cache' = [cache EXCEPT ![p] = next]
     /\ registered' = registered \ {e}
     /\ UNCHANGED <<lock, status, mode, todo, between, runner, emitted, held, openings>>

\* The inner transactions succeed and the outer COMMIT fails: the tables keep
\* only the flush, but the cache and the map of writers were changed.
CommitFails(p, e) ==
  /\ Committing(p, e) /\ Swaps(p) /\ faults < MaxFaults
  /\ faults' = faults + 1
  /\ trace' = [trace EXCEPT ![e] = Flushed(e)]
  /\ pending' = [pending EXCEPT ![e] = Unflushed(e)]
  /\ cache' = [cache EXCEPT ![p] = NextVersion(p, e, Len(Flushed(e)) + 1)]
  /\ registered' = registered \ {e}
  /\ UNCHANGED <<lock, instance, status, mode, todo, between, runner, emitted, held, openings>>

\* Another generation is stored: the outer transaction is rolled back.
CommitConflicts(p, e) ==
  /\ Committing(p, e) /\ ~Swaps(p) /\ e \in registered /\ pending[e] # <<>>
  /\ trace' = [trace EXCEPT ![e] = Flushed(e)]
  /\ pending' = [pending EXCEPT ![e] = Unflushed(e)]
  /\ lock' = Renewed
  /\ UNCHANGED <<instance, status, mode, todo, between, runner, registered, emitted, held, cache, bounds>>

DeleteInstance(p) ==
  /\ mode[p] = "open" /\ Owns(p) /\ Swaps(p) /\ held[p].generation > 0
  /\ instance' = [version |-> NoVersion, deleted |-> TRUE]
  /\ cache' = [cache EXCEPT ![p] = NoVersion]
  /\ lock' = Renewed
  /\ UNCHANGED <<status, trace, mode, todo, between, runner, registered, emitted, pending, held, bounds>>

-----------------------------------------------------------------------------
(* Reading needs no lease: the cache must not hide what others wrote. *)

\* A faulty variant: a cached document is recognised by its generation alone.
CachedGeneration(p) == cache[p].generation = Version.generation

CachedInstance(p) == cache[p] = Version

ReadInstance(p) ==
  /\ mode[p] = "open" /\ Version.generation > 0
  /\ held' = [held EXCEPT ![p] = IF CachedInstance(p) THEN cache[p] ELSE Version]
  /\ cache' = [cache EXCEPT ![p] = IF CachedInstance(p) THEN cache[p] ELSE Version]
  /\ UNCHANGED <<lock, tables, mode, todo, between, runner, registered, emitted, pending, bounds>>

\* listInstances drops what is no longer stored; the size limit drops an entry
\* when documents of other instances crowd it out.
DropCached(p) ==
  /\ mode[p] = "open" /\ cache[p] # NoVersion
  /\ cache' = [cache EXCEPT ![p] = NoVersion]
  /\ UNCHANGED <<lock, tables, mode, todo, between, runner, registered, emitted, pending, held, bounds>>

-----------------------------------------------------------------------------
(* Opening, closing and losing a process. *)

SelectInterrupted(p) ==
  LET running == {e \in Executions : status[e] = "running"}
  IN /\ mode[p] = "acquired"
     /\ todo' = [todo EXCEPT ![p] = running]
     /\ mode' = [mode EXCEPT ![p] = IF running = {} THEN "open" ELSE "recovering"]
     /\ UNCHANGED <<lock, tables, between, runner, registered, emitted, pending, held, cache, bounds>>

\* recoverInterruptedExecutions: one transaction says why ...
MarkInterrupted(p, e) ==
  /\ mode[p] = "recovering" /\ between[p] = None /\ e \in todo[p]
  /\ Appendable(p, e)
  /\ trace' = [trace EXCEPT ![e] = Append(@, Entry(p, "recovered", 0))]
  /\ between' = [between EXCEPT ![p] = e]
  /\ lock' = Renewed
  /\ UNCHANGED <<instance, status, mode, todo, runner, registered, emitted, pending, held, cache, bounds>>

\* A faulty variant: the database is served after the first execution is closed.
CloseFirstInterrupted(p) ==
  LET e == between[p]
  IN /\ mode[p] = "recovering" /\ e # None /\ Appendable(p, e)
     /\ trace' = [trace EXCEPT ![e] = Append(@, Entry(p, "failed", 0))]
     /\ status' = [status EXCEPT ![e] = "failed"]
     /\ mode' = [mode EXCEPT ![p] = "open"]
     /\ between' = [between EXCEPT ![p] = None]
     /\ UNCHANGED <<lock, instance, todo, runner, registered, emitted, pending, held, cache, bounds>>

\* ... and a second one ends the execution.
CloseInterrupted(p) ==
  LET e == between[p]
  IN /\ mode[p] = "recovering" /\ e # None /\ Appendable(p, e)
     /\ trace' = [trace EXCEPT ![e] = Append(@, Entry(p, "failed", 0))]
     /\ status' = [status EXCEPT ![e] = "failed"]
     /\ todo' = [todo EXCEPT ![p] = @ \ {e}]
     /\ mode' = [mode EXCEPT ![p] = IF todo[p] = {e} THEN "open" ELSE "recovering"]
     /\ between' = [between EXCEPT ![p] = None]
     /\ lock' = Renewed
     /\ UNCHANGED <<instance, runner, registered, emitted, pending, held, cache, bounds>>

\* Its memory is gone; executions it had begun lose their runner.
Forgets(p) ==
  LET lost == {e \in Executions : runner[e] = p}
  IN /\ mode' = [mode EXCEPT ![p] = "down"]
     /\ todo' = [todo EXCEPT ![p] = {}]
     /\ between' = [between EXCEPT ![p] = None]
     /\ runner' = [e \in Executions |-> IF e \in lost THEN None ELSE runner[e]]
     /\ registered' = registered \ lost
     /\ pending' = [e \in Executions |-> IF e \in lost THEN <<>> ELSE pending[e]]
     /\ held' = [held EXCEPT ![p] = NoVersion]
     /\ cache' = [cache EXCEPT ![p] = NoVersion]
     /\ UNCHANGED <<instance, status, emitted, bounds>>

\* The process dies, or its constructor throws because the lease was taken over.
Crash(p) ==
  /\ mode[p] # "down"
  /\ Forgets(p)
  /\ UNCHANGED <<lock, trace>>

\* close() empties every writer first and throws if that fails.
Close(p) ==
  LET own == {e \in registered : runner[e] = p}
  IN /\ mode[p] = "open" /\ between[p] = None
     /\ \A e \in own : Flushable(p, e)
     /\ trace' = [e \in Executions |-> IF e \in own THEN Flushed(e) ELSE trace[e]]
     /\ lock' = IF Owns(p) THEN [owner |-> None, expired |-> FALSE] ELSE lock
     /\ Forgets(p)

Next ==
  \/ Expire
  \/ \E p \in Processes :
       \/ RenewInstanceLease(p) \/ AcquireInstanceLease(p)
       \/ SelectInterrupted(p) \/ CloseInterrupted(p)
       \/ InsertExecution(p) \/ CompareAndSwap(p) \/ DeleteInstance(p)
       \/ ReadInstance(p) \/ DropCached(p) \/ Crash(p) \/ Close(p)
       \/ \E e \in Executions :
            \/ Emit(p, e) \/ Flush(p, e) \/ CheckBegin(p, e) \/ FailExecution(p, e)
            \/ CommitAndFinish(p, e) \/ CommitFails(p, e) \/ CommitConflicts(p, e)
            \/ MarkInterrupted(p, e)

Spec == Init /\ [][Next]_vars

-----------------------------------------------------------------------------
(* Properties. *)

\* An execution that has ended never changes again, and nothing is added to its
\* trace: a writer that outlived its process's lease cannot reopen it.
EndsOnce ==
  [][\A e \in Executions :
       status[e] \in Terminal => status'[e] = status[e] /\ trace'[e] = trace[e]]_vars

\* While the instance exists, an execution has succeeded exactly if a version
\* of the instance was written for it, and that version refers to the last
\* event of its trace.
CommitEndsExecution ==
  /\ \A i \in DOMAIN Version.writes :
       LET w == Version.writes[i]
       IN w.execution # None => /\ status[w.execution] = "succeeded"
                                /\ w.reference = Len(trace[w.execution])
  /\ ~instance.deleted =>
       \A e \in Executions : status[e] = "succeeded" =>
         \E i \in DOMAIN Version.writes : Version.writes[i].execution = e

\* Fencing: whatever reaches the instance or a trace was written by the process
\* that held the lease, however late the writer noticed that it had lost it.
WritesFenced ==
  [][/\ instance' # instance /\ ~instance'.deleted =>
          Version'.writes[Len(Version'.writes)].by = lock.owner
     /\ \A e \in Executions : \A i \in Len(trace[e]) + 1 .. Len(trace'[e]) :
          trace'[e][i].by = lock.owner]_vars

\* No write is lost: each version extends the one before.
NoLostUpdate ==
  [][~instance'.deleted => \E n \in 0 .. Len(Version'.writes) :
       Version.writes = SubSeq(Version'.writes, 1, n)]_vars

\* A generation names one content: what a process holds under the stored
\* generation is what is stored, whatever its cache kept from a commit that
\* failed.
GenerationNamesContent ==
  \A p \in Processes :
    held[p].generation = Version.generation /\ ~instance.deleted => held[p] = Version

\* The events emitted in s carry the numbers 1 to n, once each and in this order.
Emissions(s) == {i \in DOMAIN s : s[i].kind = "emitted"}
InSequence(s, n) ==
  /\ {s[i].number : i \in Emissions(s)} = 1 .. n
  /\ \A i, j \in Emissions(s) : i < j => s[i].number < s[j].number

\* The emitted events reach the trace in order and without gaps, and while
\* their writer lives the rest of them is in its buffer.
TraceInOrder ==
  \A e \in Executions :
    \E n \in 0 .. emitted[e] :
      /\ InSequence(trace[e] \o pending[e], n)
      /\ runner[e] # None => n = emitted[e]

\* A process that has opened the file finds nothing left over: every execution
\* that runs was begun by it.
NothingInterrupted ==
  \A p \in Processes : mode[p] = "open" /\ Owns(p) =>
    \A e \in Executions : status[e] = "running" => runner[e] = p

\* The database implements the ledger: crashes, takeovers, failed commits and
\* stale writers never separate the end of an execution from its version.
Committed == {Version.writes[i].execution : i \in DOMAIN Version.writes} \ {None}

Ledger == INSTANCE CommitLedger WITH outcome <- status, committed <- Committed
ImplementsLedger == Ledger!LedgerSpec
=============================================================================
