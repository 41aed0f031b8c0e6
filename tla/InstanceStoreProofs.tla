------------------------ MODULE InstanceStoreProofs ------------------------
EXTENDS InstanceStore, SequenceTheorems, TLAPS

(* What is appended to a trace or a document has the type of its elements. *)
LEMMA PartTypes ==
  ASSUME TypeOK
  PROVE  /\ Renewed \in [owner : Processes \cup {None}, expired : BOOLEAN]
         /\ \A p \in Processes : \A n \in 0 .. MaxEmitted :
              \A kind \in {"emitted", "commit", "recovered", "failed"} : Entry(p, kind, n) \in Event
         /\ \A e \in Executions : /\ Flushed(e) \in Seq(Event) /\ Unflushed(e) \in Seq(Event)
                                  /\ Len(Flushed(e)) \in Nat
         /\ \A p \in Processes : \A e \in Executions \cup {None} : \A n \in Nat :
              held[p].generation < MaxGeneration => NextVersion(p, e, n) \in Versions
         /\ NoVersion \in Versions /\ Version \in Versions
         /\ 0 \in 0 .. MaxEmitted
  <1> USE DEF TypeOK
  <1>1. Renewed \in [owner : Processes \cup {None}, expired : BOOLEAN]
    BY DEF Renewed
  <1>2. \A p \in Processes : \A n \in 0 .. MaxEmitted :
          \A kind \in {"emitted", "commit", "recovered", "failed"} : Entry(p, kind, n) \in Event
    BY DEF Entry, Event
  <1>3. ASSUME NEW e \in Executions
        PROVE  Flushed(e) \in Seq(Event) /\ Unflushed(e) \in Seq(Event) /\ Len(Flushed(e)) \in Nat
    <2>1. trace[e] \in Seq(Event) /\ pending[e] \in Seq(Event) /\ <<>> \in Seq(Event)
      BY EmptySeq
    <2>2. trace[e] \o pending[e] \in Seq(Event)
      BY <2>1, ConcatProperties
    <2>3. Flushed(e) \in Seq(Event) /\ Unflushed(e) \in Seq(Event)
      BY <2>1, <2>2 DEF Flushed, Unflushed
    <2> QED
      BY <2>3, LenProperties
  <1>4. ASSUME NEW p \in Processes, NEW e \in Executions \cup {None}, NEW n \in Nat,
               held[p].generation < MaxGeneration
        PROVE  NextVersion(p, e, n) \in Versions
    <2>1. held[p] \in Versions /\ held[p].writes \in Seq(Write) /\ held[p].generation \in 0 .. MaxGeneration
      BY DEF Versions
    <2>2. [by |-> p, execution |-> e, reference |-> n] \in Write
      BY DEF Write
    <2>3. Append(held[p].writes, [by |-> p, execution |-> e, reference |-> n]) \in Seq(Write)
      BY <2>1, <2>2, AppendProperties
    <2>4. held[p].generation + 1 \in 0 .. MaxGeneration
      BY <1>4, <2>1, StoreAssumption
    <2> QED
      BY <2>3, <2>4 DEF NextVersion, Versions
  <1>5. NoVersion \in Versions
    BY EmptySeq, StoreAssumption DEF NoVersion, Versions
  <1>6. Version \in Versions /\ 0 \in 0 .. MaxEmitted
    BY StoreAssumption DEF Version
  <1> QED
    BY <1>1, <1>2, <1>3, <1>4, <1>5, <1>6

-----------------------------------------------------------------------------
(* Every variable keeps its type. *)
LEMMA InitType == Init => TypeOK
  <1>1. \A S : <<>> \in Seq(S)
    BY EmptySeq
  <1> QED
    BY <1>1, StoreAssumption DEF Init, TypeOK, Modes, Statuses, NoVersion, Versions

LEMMA NextType == TypeOK /\ [Next]_vars => TypeOK'
  <1> SUFFICES ASSUME TypeOK, [Next]_vars PROVE TypeOK'
    OBVIOUS
  <1>0. CASE UNCHANGED vars
    BY <1>0 DEF vars, tables, memory, bounds, TypeOK, Version
  <1>1. CASE Expire
    BY <1>1 DEF Expire, TypeOK, tables, memory, bounds
  <1>2. ASSUME NEW p \in Processes, RenewInstanceLease(p) PROVE TypeOK'
    BY <1>2, PartTypes DEF RenewInstanceLease, TypeOK, tables, memory, bounds
  <1>3. ASSUME NEW p \in Processes, AcquireInstanceLease(p) PROVE TypeOK'
    BY <1>3, StoreAssumption DEF AcquireInstanceLease, TypeOK, tables, Modes
  <1>4. ASSUME NEW p \in Processes, SelectInterrupted(p) PROVE TypeOK'
    BY <1>4 DEF SelectInterrupted, TypeOK, tables, bounds, Modes
  <1>5. ASSUME NEW p \in Processes, CloseInterrupted(p) PROVE TypeOK'
    <2>1. between[p] \in Executions
      BY <1>5 DEF CloseInterrupted, TypeOK
    <2>2. Append(trace[between[p]], Entry(p, "failed", 0)) \in Seq(Event)
      BY <2>1, PartTypes, AppendProperties DEF TypeOK
    <2> QED
      BY <1>5, <2>1, <2>2, PartTypes DEF CloseInterrupted, TypeOK, bounds, Modes, Statuses
  <1>6. ASSUME NEW p \in Processes, InsertExecution(p) PROVE TypeOK'
    BY <1>6 DEF InsertExecution, TypeOK, bounds, Statuses
  <1>7. ASSUME NEW p \in Processes, CompareAndSwap(p) PROVE TypeOK'
    <2>1. held[p].generation < MaxGeneration
      BY <1>7, StoreAssumption DEF CompareAndSwap, TypeOK, Versions
    <2>2. NextVersion(p, None, 0) \in Versions
      BY <2>1, PartTypes
    <2> QED
      BY <1>7, <2>2, PartTypes DEF CompareAndSwap, TypeOK, bounds
  <1>8. ASSUME NEW p \in Processes, DeleteInstance(p) PROVE TypeOK'
    BY <1>8, PartTypes DEF DeleteInstance, TypeOK, bounds
  <1>9. ASSUME NEW p \in Processes, ReadInstance(p) PROVE TypeOK'
    BY <1>9, PartTypes DEF ReadInstance, TypeOK, tables, bounds
  <1>10. ASSUME NEW p \in Processes, DropCached(p) PROVE TypeOK'
    BY <1>10, PartTypes DEF DropCached, TypeOK, tables, bounds
  <1>11. ASSUME NEW p \in Processes, Crash(p) PROVE TypeOK'
    BY <1>11, PartTypes, EmptySeq DEF Crash, Forgets, TypeOK, bounds, Modes
  <1>12. ASSUME NEW p \in Processes, Close(p) PROVE TypeOK'
    BY <1>12, PartTypes, EmptySeq DEF Close, Forgets, TypeOK, bounds, Modes
  <1>13. ASSUME NEW p \in Processes, NEW e \in Executions, Emit(p, e) PROVE TypeOK'
    <2> DEFINE grown == Append(pending[e], Entry(p, "emitted", emitted[e] + 1))
    <2>1. emitted[e] + 1 \in 0 .. MaxEmitted
      BY <1>13, StoreAssumption DEF Emit, TypeOK
    <2>2. grown \in Seq(Event)
      BY <2>1, PartTypes, AppendProperties DEF TypeOK
    <2>3. trace[e] \o grown \in Seq(Event)
      BY <2>2, ConcatProperties DEF TypeOK
    <2> HIDE DEF grown
    <2>4. /\ emitted' = [emitted EXCEPT ![e] = emitted[e] + 1]
          /\ pending' \in {[pending EXCEPT ![e] = grown], [pending EXCEPT ![e] = <<>>]}
          /\ trace' \in {trace, [trace EXCEPT ![e] = trace[e] \o grown]}
          /\ lock' \in {lock, Renewed}
      BY <1>13 DEF Emit, grown
    <2>5. faults' \in 0 .. MaxFaults
      BY <1>13, StoreAssumption DEF Emit, TypeOK
    <2>6. UNCHANGED <<instance, status, mode, todo, between, runner, registered, held, cache, openings>>
      BY <1>13 DEF Emit
    <2>7. /\ trace' \in [Executions -> Seq(Event)]
          /\ pending' \in [Executions -> Seq(Event)]
          /\ emitted' \in [Executions -> 0 .. MaxEmitted]
      <3> USE DEF TypeOK
      <3>1. trace' \in [Executions -> Seq(Event)]
        BY <2>3, <2>4
      <3>2. <<>> \in Seq(Event)
        BY EmptySeq
      <3>3. pending' \in [Executions -> Seq(Event)]
        BY <2>2, <2>4, <3>2
      <3>4. emitted' \in [Executions -> 0 .. MaxEmitted]
        BY <2>1, <2>4
      <3> QED
        BY <3>1, <3>3, <3>4
    <2>8. lock' \in [owner : Processes \cup {None}, expired : BOOLEAN]
      BY <2>4, PartTypes DEF TypeOK
    <2> QED
      BY <2>5, <2>6, <2>7, <2>8 DEF TypeOK, Version
  <1>14. ASSUME NEW p \in Processes, NEW e \in Executions, Flush(p, e) PROVE TypeOK'
    <2>1. trace[e] \o pending[e] \in Seq(Event)
      BY ConcatProperties DEF TypeOK
    <2> QED
      BY <1>14, <2>1, PartTypes, EmptySeq DEF Flush, TypeOK, bounds
  <1>15. ASSUME NEW p \in Processes, NEW e \in Executions, CheckBegin(p, e) PROVE TypeOK'
    BY <1>15, PartTypes DEF CheckBegin, TypeOK, tables, bounds
  <1>16. ASSUME NEW p \in Processes, NEW e \in Executions, FailExecution(p, e) PROVE TypeOK'
    <2>1. Append(Flushed(e), Entry(p, "failed", 0)) \in Seq(Event)
      BY PartTypes, AppendProperties
    <2> QED
      BY <1>16, <2>1, PartTypes DEF FailExecution, TypeOK, bounds, Statuses
  <1>17. ASSUME NEW p \in Processes, NEW e \in Executions, CommitAndFinish(p, e) PROVE TypeOK'
    <2>1. Append(Flushed(e), Entry(p, "commit", 0)) \in Seq(Event)
      BY PartTypes, AppendProperties
    <2>2. NextVersion(p, e, Len(Flushed(e)) + 1) \in Versions
      BY <1>17, PartTypes DEF CommitAndFinish, Committing
    <2> QED
      BY <1>17, <2>1, <2>2, PartTypes DEF CommitAndFinish, TypeOK, bounds, Statuses
  <1>18. ASSUME NEW p \in Processes, NEW e \in Executions, CommitFails(p, e) PROVE TypeOK'
    <2>1. NextVersion(p, e, Len(Flushed(e)) + 1) \in Versions
      BY <1>18, PartTypes DEF CommitFails, Committing
    <2> QED
      BY <1>18, <2>1, PartTypes, StoreAssumption DEF CommitFails, TypeOK
  <1>19. ASSUME NEW p \in Processes, NEW e \in Executions, CommitConflicts(p, e) PROVE TypeOK'
    BY <1>19, PartTypes DEF CommitConflicts, TypeOK, bounds
  <1>20. ASSUME NEW p \in Processes, NEW e \in Executions, MarkInterrupted(p, e) PROVE TypeOK'
    <2>1. Append(trace[e], Entry(p, "recovered", 0)) \in Seq(Event)
      BY PartTypes, AppendProperties DEF TypeOK
    <2> QED
      BY <1>20, <2>1, PartTypes DEF MarkInterrupted, TypeOK, bounds
  <1> QED
    BY <1>0, <1>1, <1>2, <1>3, <1>4, <1>5, <1>6, <1>7, <1>8, <1>9, <1>10, <1>11, <1>12, <1>13,
       <1>14, <1>15, <1>16, <1>17, <1>18, <1>19, <1>20 DEF Next

(* What every process and table holds has its type, in every reachable     *)
(* state and for any number of processes, executions and failures.         *)
THEOREM TypeCorrect == Spec => []TypeOK
  <1>1. Init => TypeOK
    BY InitType
  <1>2. TypeOK /\ [Next]_vars => TypeOK'
    BY NextType
  <1> QED
    BY <1>1, <1>2, PTL DEF Spec

-----------------------------------------------------------------------------
(***************************************************************************)
(* Executions end once.  A row is only inserted for an execution that has  *)
(* no row yet, although the lease is checked before and the row is written *)
(* in a second statement: hence BeginsHold.                                *)
(***************************************************************************)
BeginsHold ==
  /\ \A p \in Processes : mode[p] = "open" /\ between[p] # None => status[between[p]] = "none"
  /\ \A p, q \in Processes :
        mode[p] = "open" /\ mode[q] = "open" /\ between[p] # None /\ between[p] = between[q] => p = q
  /\ \A p \in Processes : mode[p] \in {"down", "acquired"} => between[p] = None

(* The only ways in which the row or the trace of an execution changes.     *)
LegalStep(e) ==
  /\ status[e] # "running" => trace'[e] = trace[e]
  /\ \/ status'[e] = status[e]
     \/ status[e] = "none" /\ status'[e] = "running"
     \/ status[e] = "running" /\ status'[e] \in Terminal

(* Writing a buffer that is empty, or that must not be written, adds        *)
(* nothing to a trace.                                                      *)
LEMMA FlushNothing ==
  ASSUME TypeOK, NEW p \in Processes, NEW e \in Executions, Flushable(p, e), status[e] # "running"
  PROVE  Flushed(e) = trace[e]
  <1>1. trace[e] \in Seq(Event)
    BY DEF TypeOK
  <1>2. e \in registered => pending[e] = <<>>
    BY DEF Flushable, Appendable
  <1>3. trace[e] \o <<>> = trace[e]
    BY <1>1, ConcatEmptySeq
  <1> QED
    BY <1>2, <1>3 DEF Flushed

LEMMA StepsAreLegal ==
  ASSUME TypeOK, BeginsHold, [Next]_vars
  PROVE  \A e \in Executions : LegalStep(e)
  <1> USE DEF LegalStep
  <1>0. CASE UNCHANGED <<status, trace>>
    BY <1>0
  <1>1. CASE UNCHANGED vars
    BY <1>1, <1>0 DEF vars, tables
  <1>2. CASE Expire
    BY <1>2, <1>0 DEF Expire, tables
  <1>3. ASSUME NEW p \in Processes,
               \/ RenewInstanceLease(p) \/ AcquireInstanceLease(p) \/ SelectInterrupted(p)
               \/ CompareAndSwap(p) \/ DeleteInstance(p) \/ ReadInstance(p) \/ DropCached(p) \/ Crash(p)
        PROVE  UNCHANGED <<status, trace>>
    BY <1>3 DEF RenewInstanceLease, AcquireInstanceLease, SelectInterrupted, CompareAndSwap,
                DeleteInstance, ReadInstance, DropCached, Crash, Forgets, tables
  <1>4. ASSUME NEW p \in Processes, CloseInterrupted(p), NEW e \in Executions PROVE LegalStep(e)
    BY <1>4 DEF CloseInterrupted, Appendable, Terminal, TypeOK
  <1>5. ASSUME NEW p \in Processes, InsertExecution(p), NEW e \in Executions PROVE LegalStep(e)
    BY <1>5 DEF InsertExecution, BeginsHold, TypeOK
  <1>6. ASSUME NEW p \in Processes, Close(p), NEW e \in Executions PROVE LegalStep(e)
    <2>1. status' = status
      BY <1>6 DEF Close, Forgets
    <2>2. CASE e \in registered /\ runner[e] = p
      <3>1. Flushable(p, e) /\ trace'[e] = Flushed(e)
        BY <1>6, <2>2 DEF Close
      <3> QED
        BY <2>1, <3>1, FlushNothing
    <2>3. CASE ~(e \in registered /\ runner[e] = p)
      BY <1>6, <2>1, <2>3 DEF Close
    <2> QED
      BY <2>2, <2>3
  <1>7. ASSUME NEW p \in Processes, NEW f \in Executions, NEW e \in Executions,
               Emit(p, f) \/ Flush(p, f) \/ MarkInterrupted(p, f)
        PROVE  LegalStep(e)
    <2>1. status' = status
      BY <1>7 DEF Emit, Flush, MarkInterrupted
    <2>2. trace' = trace \/ (status[f] = "running" /\ \E t : trace' = [trace EXCEPT ![f] = t])
      BY <1>7 DEF Emit, Flush, MarkInterrupted, Appendable
    <2> QED
      BY <2>1, <2>2 DEF TypeOK
  <1>8. ASSUME NEW p \in Processes, NEW f \in Executions, NEW e \in Executions, CheckBegin(p, f)
        PROVE  LegalStep(e)
    BY <1>8 DEF CheckBegin, tables
  <1>9. ASSUME NEW p \in Processes, NEW f \in Executions, NEW e \in Executions,
               FailExecution(p, f) \/ CommitAndFinish(p, f)
        PROVE  LegalStep(e)
    <2>1. status[f] = "running"
      BY <1>9 DEF FailExecution, CommitAndFinish, Committing, Appendable
    <2>2. /\ \E t : trace' = [trace EXCEPT ![f] = t]
          /\ \E s \in Terminal : status' = [status EXCEPT ![f] = s]
      BY <1>9 DEF FailExecution, CommitAndFinish, Terminal
    <2> QED
      BY <2>1, <2>2 DEF TypeOK
  <1>10. ASSUME NEW p \in Processes, NEW f \in Executions, NEW e \in Executions,
                CommitFails(p, f) \/ CommitConflicts(p, f)
         PROVE  LegalStep(e)
    <2>1. status[f] = "running" /\ status' = status
      BY <1>10 DEF CommitFails, CommitConflicts, Committing, Appendable
    <2>2. \E t : trace' = [trace EXCEPT ![f] = t]
      BY <1>10 DEF CommitFails, CommitConflicts
    <2> QED
      BY <2>1, <2>2 DEF TypeOK
  <1> QED
    BY <1>0, <1>1, <1>2, <1>3, <1>4, <1>5, <1>6, <1>7, <1>8, <1>9, <1>10 DEF Next

LEMMA InitBegins == Init => BeginsHold
  BY DEF Init, BeginsHold

LEMMA NextBegins == TypeOK /\ BeginsHold /\ [Next]_vars => BeginsHold'
  <1> SUFFICES ASSUME TypeOK, BeginsHold, [Next]_vars PROVE BeginsHold'
    OBVIOUS
  <1> USE DEF BeginsHold
  <1>0. CASE UNCHANGED <<status, mode, between>>
    BY <1>0
  <1>1. CASE UNCHANGED vars \/ Expire
    BY <1>1, <1>0 DEF vars, tables, memory, Expire
  <1>2. ASSUME NEW p \in Processes,
               RenewInstanceLease(p) \/ CompareAndSwap(p) \/ DeleteInstance(p) \/ ReadInstance(p) \/ DropCached(p)
        PROVE  UNCHANGED <<status, mode, between>>
    BY <1>2 DEF RenewInstanceLease, CompareAndSwap, DeleteInstance, ReadInstance, DropCached, tables, memory
  <1>3. ASSUME NEW p \in Processes, NEW e \in Executions,
               Emit(p, e) \/ Flush(p, e) \/ CommitFails(p, e) \/ CommitConflicts(p, e)
        PROVE  UNCHANGED <<status, mode, between>>
    BY <1>3 DEF Emit, Flush, CommitFails, CommitConflicts
  <1>4. ASSUME NEW p \in Processes, AcquireInstanceLease(p) \/ SelectInterrupted(p) PROVE BeginsHold'
    <2>1. /\ status' = status /\ between' = between /\ between[p] = None
          /\ mode' = [mode EXCEPT ![p] = mode'[p]]
      BY <1>4 DEF AcquireInstanceLease, SelectInterrupted, tables, TypeOK
    <2> QED
      BY <2>1 DEF TypeOK
  <1>5. ASSUME NEW p \in Processes, CloseInterrupted(p) PROVE BeginsHold'
    BY <1>5 DEF CloseInterrupted, Appendable, TypeOK
  <1>6. ASSUME NEW p \in Processes, InsertExecution(p) PROVE BeginsHold'
    BY <1>6 DEF InsertExecution, TypeOK
  <1>7. ASSUME NEW p \in Processes, Crash(p) \/ Close(p) PROVE BeginsHold'
    <2>1. /\ status' = status
          /\ between' = [between EXCEPT ![p] = None] /\ mode' = [mode EXCEPT ![p] = "down"]
      BY <1>7 DEF Crash, Close, Forgets
    <2>2. between'[p] = None /\ mode'[p] = "down"
      BY <2>1 DEF TypeOK
    <2>3. \A q \in Processes \ {p} : between'[q] = between[q] /\ mode'[q] = mode[q]
      BY <2>1 DEF TypeOK
    <2> QED
      BY <2>1, <2>2, <2>3
  <1>8. ASSUME NEW p \in Processes, NEW e \in Executions, CheckBegin(p, e) PROVE BeginsHold'
    BY <1>8 DEF CheckBegin, tables, TypeOK
  <1>9. ASSUME NEW p \in Processes, NEW e \in Executions, FailExecution(p, e) \/ CommitAndFinish(p, e)
        PROVE  BeginsHold'
    <2>1. status[e] = "running" /\ UNCHANGED <<mode, between>> /\ \E s : status' = [status EXCEPT ![e] = s]
      BY <1>9 DEF FailExecution, CommitAndFinish, Committing, Appendable
    <2> QED
      BY <2>1 DEF TypeOK
  <1>10. ASSUME NEW p \in Processes, NEW e \in Executions, MarkInterrupted(p, e) PROVE BeginsHold'
    BY <1>10 DEF MarkInterrupted, TypeOK
  <1> QED
    BY <1>0, <1>1, <1>2, <1>3, <1>4, <1>5, <1>6, <1>7, <1>8, <1>9, <1>10 DEF Next

(* An execution that has ended keeps its status and its trace for ever,    *)
(* whatever late writers, takeovers and recoveries do.                     *)
THEOREM ExecutionsEndOnce == Spec => EndsOnce
  <1>1. Init => TypeOK /\ BeginsHold
    BY InitType, InitBegins
  <1>2. TypeOK /\ BeginsHold /\ [Next]_vars => (TypeOK /\ BeginsHold)'
    BY NextType, NextBegins
  <1>3. TypeOK /\ BeginsHold /\ [Next]_vars =>
          [\A e \in Executions : status[e] \in Terminal => status'[e] = status[e] /\ trace'[e] = trace[e]]_vars
    BY StepsAreLegal DEF LegalStep, Terminal
  <1> QED
    BY <1>1, <1>2, <1>3, PTL DEF Spec, EndsOnce
-----------------------------------------------------------------------------
(***************************************************************************)
(* Versions.  What a process holds is a version that was stored once; if   *)
(* its generation is still the stored one, so is its content.              *)
(***************************************************************************)
VersionsHold ==
  /\ Version.generation = 0 => Version = NoVersion
  /\ ~instance.deleted => \A p \in Processes :
       /\ held[p].generation <= Version.generation
       /\ held[p].generation = Version.generation => held[p] = Version

(* Only three operations write the row of the instance; every other step    *)
(* leaves it and lets a process hold what is stored, or nothing.            *)
LEMMA StepsOfTheRow ==
  ASSUME TypeOK, [Next]_vars
  PROVE  \/ /\ UNCHANGED instance
            /\ \/ held' = held
               \/ \E p \in Processes : held' = [held EXCEPT ![p] = Version]
               \/ \E p \in Processes : held' = [held EXCEPT ![p] = NoVersion]
         \/ \E p \in Processes : CompareAndSwap(p) \/ DeleteInstance(p)
         \/ \E p \in Processes : \E e \in Executions : CommitAndFinish(p, e)
  <1>1. CASE UNCHANGED vars \/ Expire
    BY <1>1 DEF vars, tables, memory, Expire
  <1>2. ASSUME NEW p \in Processes,
               \/ RenewInstanceLease(p) \/ AcquireInstanceLease(p) \/ SelectInterrupted(p)
               \/ CloseInterrupted(p) \/ InsertExecution(p) \/ DropCached(p)
        PROVE  UNCHANGED <<instance, held>>
    BY <1>2 DEF RenewInstanceLease, AcquireInstanceLease, SelectInterrupted, CloseInterrupted,
                InsertExecution, DropCached, tables, memory
  <1>3. ASSUME NEW p \in Processes, NEW e \in Executions,
               \/ Emit(p, e) \/ Flush(p, e) \/ CheckBegin(p, e) \/ FailExecution(p, e)
               \/ CommitFails(p, e) \/ CommitConflicts(p, e) \/ MarkInterrupted(p, e)
        PROVE  UNCHANGED <<instance, held>>
    BY <1>3 DEF Emit, Flush, CheckBegin, FailExecution, CommitFails, CommitConflicts, MarkInterrupted, tables
  <1>4. ASSUME NEW p \in Processes, ReadInstance(p)
        PROVE  UNCHANGED instance /\ held' = [held EXCEPT ![p] = Version]
    BY <1>4 DEF ReadInstance, CachedInstance, tables
  <1>5. ASSUME NEW p \in Processes, Crash(p) \/ Close(p)
        PROVE  UNCHANGED instance /\ held' = [held EXCEPT ![p] = NoVersion]
    BY <1>5 DEF Crash, Close, Forgets
  <1> QED
    BY <1>1, <1>2, <1>3, <1>4, <1>5 DEF Next

(* A version that adds the write w to the stored one.                       *)
Extends(next, w) ==
  /\ next.generation = Version.generation + 1
  /\ Len(next.writes) = Len(Version.writes) + 1
  /\ DOMAIN next.writes = 1 .. Len(Version.writes) + 1
  /\ \A i \in 1 .. Len(Version.writes) : next.writes[i] = Version.writes[i]
  /\ next.writes[Len(Version.writes) + 1] = w
  /\ SubSeq(next.writes, 1, Len(Version.writes)) = Version.writes

(* A write that is let through extends the stored version.                  *)
LEMMA SwapExtends ==
  ASSUME TypeOK, VersionsHold, NEW p \in Processes, Swaps(p), NEW e \in Executions \cup {None}, NEW n \in Nat
  PROVE  ~instance.deleted /\ Extends(NextVersion(p, e, n), [by |-> p, execution |-> e, reference |-> n])
  <1> DEFINE w == [by |-> p, execution |-> e, reference |-> n]
             s == Version.writes
             t == Append(s, w)
  <1>1. ~instance.deleted /\ held[p] = Version
    BY DEF Swaps, VersionsHold
  <1>2. s \in Seq(Write) /\ w \in Write /\ Version.generation \in Nat
    BY DEF TypeOK, Version, Versions, Write
  <1>3. NextVersion(p, e, n) = [generation |-> Version.generation + 1, writes |-> t]
    BY <1>1 DEF NextVersion
  <1> HIDE DEF w, s
  <1>4. /\ t \in Seq(Write) /\ Len(t) = Len(s) + 1 /\ Len(s) \in Nat
        /\ \A i \in 1 .. Len(s) : t[i] = s[i]
        /\ t[Len(s) + 1] = w
    BY <1>2, AppendProperties, LenProperties
  <1>5. DOMAIN t = 1 .. Len(s) + 1
    BY <1>4, LenProperties
  <1>6. SubSeq(t, 1, Len(s)) = s
    <2>1. \A i \in 1 .. Len(s) : t[i] \in Write
      BY <1>2, <1>4, ElementOfSeq
    <2>2. /\ SubSeq(t, 1, Len(s)) \in Seq(Write)
          /\ Len(SubSeq(t, 1, Len(s))) = Len(s)
          /\ \A i \in 1 .. Len(s) : SubSeq(t, 1, Len(s))[i] = s[i]
      BY <2>1, <1>4, SubSeqProperties
    <2> QED
      BY <2>2, <1>2, SeqEqual
  <1> HIDE DEF t
  <1>7. /\ NextVersion(p, e, n).writes = t
        /\ NextVersion(p, e, n).generation = Version.generation + 1
    BY <1>3
  <1> QED
    BY <1>1, <1>4, <1>5, <1>6, <1>7 DEF w, s, Extends
LEMMA InitVersions == Init => VersionsHold
  BY DEF Init, VersionsHold, Version, NoVersion

(* A write through p replaces the row by a version of a new generation,     *)
(* which p alone holds.                                                     *)
LEMMA SwapKeepsVersions ==
  ASSUME TypeOK, VersionsHold, NEW p \in Processes, Swaps(p),
         NEW e \in Executions \cup {None}, NEW n \in Nat,
         instance' = [instance EXCEPT !.version = NextVersion(p, e, n)],
         held' = [held EXCEPT ![p] = NextVersion(p, e, n)]
  PROVE  VersionsHold'
  <1> DEFINE next == NextVersion(p, e, n)
  <1>1. ~instance.deleted /\ next.generation = Version.generation + 1
    BY SwapExtends DEF Extends
  <1> HIDE DEF next
  <1>2. Version' = next /\ instance'.deleted = instance.deleted
    BY DEF Version, TypeOK, next
  <1>3. held'[p] = next /\ \A q \in Processes \ {p} : held'[q] = held[q]
    BY DEF TypeOK, next
  <1>4. /\ Version.generation \in Nat
        /\ \A q \in Processes : held[q].generation \in Nat /\ held[q].generation <= Version.generation
    BY <1>1 DEF TypeOK, Version, Versions, VersionsHold
  <1> QED
    BY <1>1, <1>2, <1>3, <1>4 DEF VersionsHold

LEMMA NextVersions == TypeOK /\ VersionsHold /\ [Next]_vars => VersionsHold'
  <1> SUFFICES ASSUME TypeOK, VersionsHold, [Next]_vars PROVE VersionsHold'
    OBVIOUS
  <1>0. /\ Version \in Versions /\ Version.generation \in Nat
        /\ NoVersion.generation = 0
        /\ \A p \in Processes : held[p] \in Versions
    BY DEF TypeOK, Version, Versions, NoVersion
  <1>1. ASSUME UNCHANGED instance, held' = held PROVE VersionsHold'
    BY <1>1 DEF VersionsHold, Version
  <1>2. ASSUME NEW p \in Processes, NEW v \in {Version, NoVersion},
               UNCHANGED instance, held' = [held EXCEPT ![p] = v]
        PROVE  VersionsHold'
    <2>1. Version' = Version /\ instance'.deleted = instance.deleted
      BY <1>2 DEF Version
    <2>2. held'[p] = v /\ \A q \in Processes \ {p} : held'[q] = held[q]
      BY <1>2 DEF TypeOK
    <2> QED
      BY <2>1, <2>2, <1>0 DEF VersionsHold
  <1>3. ASSUME NEW p \in Processes, CompareAndSwap(p) PROVE VersionsHold'
    BY <1>3, SwapKeepsVersions DEF CompareAndSwap
  <1>4. ASSUME NEW p \in Processes, DeleteInstance(p) PROVE VersionsHold'
    BY <1>4 DEF DeleteInstance, VersionsHold, Version
  <1>5. ASSUME NEW p \in Processes, NEW e \in Executions, CommitAndFinish(p, e) PROVE VersionsHold'
    <2>1. Len(Flushed(e)) + 1 \in Nat
      BY PartTypes
    <2>2. /\ Swaps(p)
          /\ instance' = [instance EXCEPT !.version = NextVersion(p, e, Len(Flushed(e)) + 1)]
          /\ held' = [held EXCEPT ![p] = NextVersion(p, e, Len(Flushed(e)) + 1)]
      BY <1>5 DEF CommitAndFinish
    <2> QED
      BY <2>1, <2>2, SwapKeepsVersions
  <1> QED
    BY <1>1, <1>2, <1>3, <1>4, <1>5, StepsOfTheRow

(* A generation names one content: a process that holds the generation that *)
(* is stored holds what is stored, also after commits that failed when its  *)
(* cache had already taken them in.                                         *)
THEOREM GenerationsNameContents == Spec => []GenerationNamesContent
  <1>1. Init => TypeOK /\ VersionsHold
    BY InitType, InitVersions
  <1>2. TypeOK /\ VersionsHold /\ [Next]_vars => (TypeOK /\ VersionsHold)'
    BY NextType, NextVersions
  <1>3. VersionsHold => GenerationNamesContent
    BY DEF VersionsHold, GenerationNamesContent
  <1> QED
    BY <1>1, <1>2, <1>3, PTL DEF Spec

(* No write is lost: the versions of an instance form one line, each the    *)
(* one before with one write added.                                         *)
THEOREM NoUpdateIsLost == Spec => NoLostUpdate
  <1>1. Init => TypeOK /\ VersionsHold
    BY InitType, InitVersions
  <1>2. TypeOK /\ VersionsHold /\ [Next]_vars => (TypeOK /\ VersionsHold)'
    BY NextType, NextVersions
  <1>3. TypeOK /\ VersionsHold /\ [Next]_vars =>
          [~instance'.deleted => \E n \in 0 .. Len(Version'.writes) :
              Version.writes = SubSeq(Version'.writes, 1, n)]_vars
    <2> SUFFICES ASSUME TypeOK, VersionsHold, [Next]_vars, ~instance'.deleted
                 PROVE  \E n \in 0 .. Len(Version'.writes) : Version.writes = SubSeq(Version'.writes, 1, n)
      OBVIOUS
    <2>0. Version.writes \in Seq(Write) /\ Len(Version.writes) \in Nat
      BY LenProperties DEF TypeOK, Version, Versions
    <2>1. CASE UNCHANGED instance
      <3>1. Version' = Version
        BY <2>1 DEF Version
      <3>2. SubSeq(Version.writes, 1, Len(Version.writes)) = Version.writes
        BY <2>0, SubSeqFull
      <3> QED
        BY <3>1, <3>2, <2>0
    <2>2. ASSUME NEW p \in Processes, CompareAndSwap(p)
          PROVE  \E n \in 0 .. Len(Version'.writes) : Version.writes = SubSeq(Version'.writes, 1, n)
      <3>1. Swaps(p) /\ Version' = NextVersion(p, None, 0)
        BY <2>2 DEF CompareAndSwap, Version, TypeOK
      <3>2. Extends(Version', [by |-> p, execution |-> None, reference |-> 0])
        BY <3>1, SwapExtends
      <3> QED
        BY <3>2, <2>0 DEF Extends
    <2>3. ASSUME NEW p \in Processes, DeleteInstance(p) PROVE FALSE
      BY <2>3 DEF DeleteInstance
    <2>4. ASSUME NEW p \in Processes, NEW e \in Executions, CommitAndFinish(p, e)
          PROVE  \E n \in 0 .. Len(Version'.writes) : Version.writes = SubSeq(Version'.writes, 1, n)
      <3>1. Swaps(p) /\ Version' = NextVersion(p, e, Len(Flushed(e)) + 1)
        BY <2>4 DEF CommitAndFinish, Version, TypeOK
      <3>2. Len(Flushed(e)) + 1 \in Nat
        BY PartTypes
      <3>3. Extends(Version', [by |-> p, execution |-> e, reference |-> Len(Flushed(e)) + 1])
        BY <3>1, <3>2, SwapExtends
      <3> QED
        BY <3>3, <2>0 DEF Extends
    <2> QED
      BY <2>1, <2>2, <2>3, <2>4, StepsOfTheRow
  <1> QED
    BY <1>1, <1>2, <1>3, PTL DEF Spec, NoLostUpdate
-----------------------------------------------------------------------------
(***************************************************************************)
(* The ledger.  The end of an execution and the version written for it     *)
(* appear in one step and stay together.                                   *)
(***************************************************************************)

(* The operations that change the row of the instance or of an execution.   *)
LEMMA StepsOfTheLedger ==
  ASSUME TypeOK, [Next]_vars
  PROVE  \/ UNCHANGED <<instance, status>>
         \/ \E p \in Processes : InsertExecution(p) \/ CloseInterrupted(p) \/ CompareAndSwap(p) \/ DeleteInstance(p)
         \/ \E p \in Processes : \E e \in Executions : FailExecution(p, e) \/ CommitAndFinish(p, e)
  <1>1. CASE UNCHANGED vars \/ Expire
    BY <1>1 DEF vars, tables, Expire
  <1>2. ASSUME NEW p \in Processes,
               \/ RenewInstanceLease(p) \/ AcquireInstanceLease(p) \/ SelectInterrupted(p)
               \/ ReadInstance(p) \/ DropCached(p) \/ Crash(p) \/ Close(p)
        PROVE  UNCHANGED <<instance, status>>
    BY <1>2 DEF RenewInstanceLease, AcquireInstanceLease, SelectInterrupted, ReadInstance, DropCached,
                Crash, Close, Forgets, tables
  <1>3. ASSUME NEW p \in Processes, NEW e \in Executions,
               \/ Emit(p, e) \/ Flush(p, e) \/ CheckBegin(p, e)
               \/ CommitFails(p, e) \/ CommitConflicts(p, e) \/ MarkInterrupted(p, e)
        PROVE  UNCHANGED <<instance, status>>
    BY <1>3 DEF Emit, Flush, CheckBegin, CommitFails, CommitConflicts, MarkInterrupted, tables
  <1> QED
    BY <1>1, <1>2, <1>3 DEF Next

(* The commit of an execution: its status, its trace and the new version.   *)
LEMMA CommitStep ==
  ASSUME TypeOK, VersionsHold, NEW p \in Processes, NEW e \in Executions, CommitAndFinish(p, e)
  PROVE  /\ status[e] = "running" /\ status' = [status EXCEPT ![e] = "succeeded"]
         /\ \A f \in Executions \ {e} : trace'[f] = trace[f]
         /\ Len(trace'[e]) = Len(Flushed(e)) + 1 /\ Len(Flushed(e)) \in Nat
         /\ ~instance.deleted /\ ~instance'.deleted
         /\ Extends(Version', [by |-> p, execution |-> e, reference |-> Len(Flushed(e)) + 1])
  <1> DEFINE n == Len(Flushed(e)) + 1
  <1>1. /\ n \in Nat /\ Len(Flushed(e)) \in Nat /\ Flushed(e) \in Seq(Event)
        /\ Entry(p, "commit", 0) \in Event
    BY PartTypes
  <1>2. Len(Append(Flushed(e), Entry(p, "commit", 0))) = Len(Flushed(e)) + 1
    BY <1>1, AppendProperties
  <1>3. /\ Swaps(p) /\ status[e] = "running" /\ status' = [status EXCEPT ![e] = "succeeded"]
        /\ trace' = [trace EXCEPT ![e] = Append(Flushed(e), Entry(p, "commit", 0))]
        /\ instance' = [instance EXCEPT !.version = NextVersion(p, e, n)]
    BY DEF CommitAndFinish, Committing, Appendable
  <1>4. Len(trace'[e]) = Len(Flushed(e)) + 1 /\ \A f \in Executions \ {e} : trace'[f] = trace[f]
    BY <1>2, <1>3 DEF TypeOK
  <1>5. Version' = NextVersion(p, e, n) /\ instance'.deleted = instance.deleted
    BY <1>3 DEF Version, TypeOK
  <1>6. ~instance.deleted /\ Extends(NextVersion(p, e, n), [by |-> p, execution |-> e, reference |-> n])
    BY <1>1, <1>3, SwapExtends
  <1> QED
    BY <1>1, <1>3, <1>4, <1>5, <1>6

(* A write outside an execution adds a version that names none.             *)
LEMMA SwapStep ==
  ASSUME TypeOK, VersionsHold, NEW p \in Processes, CompareAndSwap(p)
  PROVE  /\ UNCHANGED <<status, trace>> /\ ~instance.deleted /\ ~instance'.deleted
         /\ Extends(Version', [by |-> p, execution |-> None, reference |-> 0])
  <1>1. /\ Swaps(p) /\ UNCHANGED <<status, trace>> /\ Version' = NextVersion(p, None, 0)
        /\ instance'.deleted = instance.deleted
    BY DEF CompareAndSwap, Version, TypeOK
  <1>2. ~instance.deleted /\ Extends(NextVersion(p, None, 0), [by |-> p, execution |-> None, reference |-> 0])
    BY <1>1, SwapExtends
  <1> QED
    BY <1>1, <1>2

(* The writes of the stored version, by their index.                        *)
LEMMA WritesIndexed ==
  ASSUME TypeOK
  PROVE  /\ DOMAIN Version.writes = 1 .. Len(Version.writes) /\ Len(Version.writes) \in Nat
         /\ \A i \in DOMAIN Version.writes : Version.writes[i] \in Write
  <1>1. Version.writes \in Seq(Write)
    BY DEF TypeOK, Version, Versions
  <1> QED
    BY <1>1, LenProperties, ElementOfSeq

LEMMA InitCommits == Init => CommitEndsExecution
  BY DEF Init, CommitEndsExecution, Version, NoVersion

LEMMA NextCommits ==
  TypeOK /\ BeginsHold /\ VersionsHold /\ CommitEndsExecution /\ [Next]_vars => CommitEndsExecution'
  <1> SUFFICES ASSUME TypeOK, BeginsHold, VersionsHold, CommitEndsExecution, [Next]_vars
               PROVE  CommitEndsExecution'
    OBVIOUS
  <1>0. \A e \in Executions : LegalStep(e)
    BY StepsAreLegal
  <1>1. ASSUME UNCHANGED instance, \A e \in Executions : status'[e] = "succeeded" => status[e] = "succeeded"
        PROVE  CommitEndsExecution'
    <2>1. Version' = Version /\ instance' = instance
      BY <1>1 DEF Version
    <2>2. \A i \in DOMAIN Version.writes : Version.writes[i].execution # None => Version.writes[i].execution \in Executions
      BY WritesIndexed DEF Write
    <2>3. \A e \in Executions : status[e] = "succeeded" => status'[e] = "succeeded" /\ trace'[e] = trace[e]
      BY <1>0 DEF LegalStep
    <2> QED
      BY <1>1, <2>1, <2>2, <2>3 DEF CommitEndsExecution
  <1>2. CASE UNCHANGED <<instance, status>>
    BY <1>1, <1>2
  <1>3. ASSUME NEW p \in Processes, InsertExecution(p) \/ CloseInterrupted(p) PROVE CommitEndsExecution'
    <2>1. UNCHANGED instance
      BY <1>3 DEF InsertExecution, CloseInterrupted
    <2>2. \A e \in Executions : status'[e] = "succeeded" => status[e] = "succeeded"
      BY <1>3 DEF InsertExecution, CloseInterrupted, TypeOK
    <2> QED
      BY <2>1, <2>2, <1>1
  <1>4. ASSUME NEW p \in Processes, NEW e \in Executions, FailExecution(p, e) PROVE CommitEndsExecution'
    <2>1. UNCHANGED instance /\ status' = [status EXCEPT ![e] = "failed"]
      BY <1>4 DEF FailExecution
    <2>2. \A f \in Executions : status'[f] = "succeeded" => status[f] = "succeeded"
      BY <2>1 DEF TypeOK
    <2> QED
      BY <2>1, <2>2, <1>1
  <1>5. ASSUME NEW p \in Processes, DeleteInstance(p) PROVE CommitEndsExecution'
    BY <1>5 DEF DeleteInstance, CommitEndsExecution, Version, NoVersion
  <1>6. ASSUME NEW p \in Processes, CompareAndSwap(p) PROVE CommitEndsExecution'
    <2> DEFINE k == Len(Version.writes)
    <2>0. /\ UNCHANGED <<status, trace>> /\ ~instance.deleted
          /\ Extends(Version', [by |-> p, execution |-> None, reference |-> 0])
      BY <1>6, SwapStep
    <2>1. /\ UNCHANGED <<status, trace>> /\ ~instance.deleted
          /\ DOMAIN Version'.writes = 1 .. k + 1
          /\ \A i \in 1 .. k : Version'.writes[i] = Version.writes[i]
          /\ Version'.writes[k + 1].execution = None
      BY <2>0 DEF Extends
    <2>2. DOMAIN Version.writes = 1 .. k /\ k \in Nat
      BY WritesIndexed
    <2> HIDE DEF k
    <2>3. ~instance'.deleted
      BY <1>6, SwapStep
    <2>4. ASSUME NEW i \in 1 .. k + 1, Version'.writes[i].execution # None
          PROVE  i \in 1 .. k /\ Version'.writes[i] = Version.writes[i]
      BY <2>1, <2>2, <2>4
    <2>5. ASSUME NEW i \in 1 .. k PROVE i \in 1 .. k + 1 /\ Version'.writes[i] = Version.writes[i]
      BY <2>1, <2>2
    <2>6. ASSUME NEW i \in 1 .. k + 1, Version'.writes[i].execution # None
          PROVE  /\ status'[Version'.writes[i].execution] = "succeeded"
                 /\ Version'.writes[i].reference = Len(trace'[Version'.writes[i].execution])
      <3>1. i \in DOMAIN Version.writes /\ Version'.writes[i] = Version.writes[i]
        BY <2>2, <2>4, <2>6
      <3>2. /\ status[Version.writes[i].execution] = "succeeded"
            /\ Version.writes[i].reference = Len(trace[Version.writes[i].execution])
        BY <3>1, <2>6 DEF CommitEndsExecution
      <3> QED
        BY <3>1, <3>2, <2>1
    <2>7. ASSUME NEW e \in Executions, status'[e] = "succeeded"
          PROVE  \E i \in 1 .. k + 1 : Version'.writes[i].execution = e
      <3>1. PICK i \in 1 .. k : Version.writes[i].execution = e
        BY <2>7, <2>1, <2>2 DEF CommitEndsExecution
      <3> QED
        BY <3>1, <2>5
    <2> QED
      BY <2>1, <2>6, <2>7 DEF CommitEndsExecution
  <1>7. ASSUME NEW p \in Processes, NEW e \in Executions, CommitAndFinish(p, e) PROVE CommitEndsExecution'
    <2> DEFINE k == Len(Version.writes)
    <2>0. /\ status[e] = "running" /\ status' = [status EXCEPT ![e] = "succeeded"]
          /\ \A f \in Executions \ {e} : trace'[f] = trace[f]
          /\ ~instance.deleted /\ Len(trace'[e]) = Len(Flushed(e)) + 1
          /\ Extends(Version', [by |-> p, execution |-> e, reference |-> Len(Flushed(e)) + 1])
      BY <1>7, CommitStep
    <2>1. /\ status[e] = "running" /\ status' = [status EXCEPT ![e] = "succeeded"]
          /\ \A f \in Executions \ {e} : trace'[f] = trace[f]
          /\ ~instance.deleted
          /\ DOMAIN Version'.writes = 1 .. k + 1
          /\ \A i \in 1 .. k : Version'.writes[i] = Version.writes[i]
          /\ Version'.writes[k + 1].execution = e
          /\ Version'.writes[k + 1].reference = Len(trace'[e])
      BY <2>0 DEF Extends
    <2>2. /\ DOMAIN Version.writes = 1 .. k /\ k \in Nat
          /\ \A i \in 1 .. k : Version.writes[i].execution # None => Version.writes[i].execution \in Executions
      BY WritesIndexed DEF Write
    <2>3. status'[e] = "succeeded" /\ \A f \in Executions \ {e} : status'[f] = status[f]
      BY <2>1 DEF TypeOK
    <2> HIDE DEF k
    <2>4. ASSUME NEW i \in 1 .. k + 1, Version'.writes[i].execution # None
          PROVE  /\ status'[Version'.writes[i].execution] = "succeeded"
                 /\ Version'.writes[i].reference = Len(trace'[Version'.writes[i].execution])
      <3>1. CASE i = k + 1
        BY <3>1, <2>1, <2>3
      <3>2. CASE i \in 1 .. k
        <4>1. /\ Version'.writes[i] = Version.writes[i]
              /\ Version.writes[i].execution \in Executions
              /\ status[Version.writes[i].execution] = "succeeded"
              /\ Version.writes[i].reference = Len(trace[Version.writes[i].execution])
          BY <3>2, <2>1, <2>2, <2>4 DEF CommitEndsExecution
        <4> QED
          BY <4>1, <2>1, <2>3
      <3> QED
        BY <3>1, <3>2, <2>2
    <2>5. ASSUME NEW f \in Executions, status'[f] = "succeeded"
          PROVE  \E i \in 1 .. k + 1 : Version'.writes[i].execution = f
      <3>1. CASE f = e
        BY <3>1, <2>1, <2>2
      <3>2. CASE f # e
        <4>1. PICK i \in 1 .. k : Version.writes[i].execution = f
          BY <3>2, <2>5, <2>1, <2>2, <2>3 DEF CommitEndsExecution
        <4> QED
          BY <4>1, <2>1, <2>2
      <3> QED
        BY <3>1, <3>2
    <2> QED
      BY <2>1, <2>4, <2>5 DEF CommitEndsExecution
  <1> QED
    BY <1>2, <1>3, <1>4, <1>5, <1>6, <1>7, StepsOfTheLedger

(* While the instance exists, an execution has succeeded exactly if one of  *)
(* its versions was written for it, and that version refers to the last     *)
(* event of the trace.                                                      *)
THEOREM CommitsEndExecutions == Spec => []CommitEndsExecution
  <1>1. Init => TypeOK /\ BeginsHold /\ VersionsHold /\ CommitEndsExecution
    BY InitType, InitBegins, InitVersions, InitCommits
  <1>2. TypeOK /\ BeginsHold /\ VersionsHold /\ CommitEndsExecution /\ [Next]_vars =>
          (TypeOK /\ BeginsHold /\ VersionsHold /\ CommitEndsExecution)'
    BY NextType, NextBegins, NextVersions, NextCommits
  <1> QED
    BY <1>1, <1>2, PTL DEF Spec
LEMMA LedgerSteps ==
  ASSUME TypeOK, BeginsHold, VersionsHold, [Next]_vars
  PROVE  [Ledger!LedgerNext]_<<status, Committed>>
  <1>1. ASSUME UNCHANGED instance PROVE Committed' = Committed
    BY <1>1 DEF Committed, Version
  <1>2. CASE UNCHANGED <<instance, status>>
    BY <1>1, <1>2
  <1>3. ASSUME NEW p \in Processes, InsertExecution(p)
        PROVE  \E e \in Executions : Ledger!BeginOf(e)
    <2>1. /\ mode[p] = "open" /\ between[p] \in Executions
          /\ UNCHANGED instance /\ status' = [status EXCEPT ![between[p]] = "running"]
      BY <1>3 DEF InsertExecution, TypeOK
    <2>2. status[between[p]] = "none"
      BY <2>1, StoreAssumption DEF BeginsHold
    <2> QED
      BY <2>1, <2>2, <1>1 DEF Ledger!BeginOf
  <1>4. ASSUME NEW p \in Processes, CloseInterrupted(p)
        PROVE  \E e \in Executions : Ledger!FailureOf(e)
    <2>1. /\ between[p] \in Executions /\ status[between[p]] = "running"
          /\ UNCHANGED instance /\ status' = [status EXCEPT ![between[p]] = "failed"]
      BY <1>4 DEF CloseInterrupted, Appendable, TypeOK
    <2> QED
      BY <2>1, <1>1 DEF Ledger!FailureOf
  <1>5. ASSUME NEW p \in Processes, NEW e \in Executions, FailExecution(p, e)
        PROVE  Ledger!FailureOf(e)
    <2>1. status[e] = "running" /\ UNCHANGED instance /\ status' = [status EXCEPT ![e] = "failed"]
      BY <1>5 DEF FailExecution, Appendable
    <2> QED
      BY <2>1, <1>1 DEF Ledger!FailureOf
  <1>6. ASSUME NEW p \in Processes, DeleteInstance(p) PROVE Ledger!Forget
    <2>1. UNCHANGED status /\ Version' = NoVersion
      BY <1>6 DEF DeleteInstance, Version
    <2>2. Committed' = {}
      BY <2>1 DEF Committed, NoVersion
    <2> QED
      BY <2>1, <2>2 DEF Ledger!Forget
  <1>7. ASSUME NEW e \in Executions \cup {None}, NEW p \in Processes, NEW n \in Nat,
               Extends(Version', [by |-> p, execution |-> e, reference |-> n])
        PROVE  Committed' = (Committed \cup {e}) \ {None}
    <2> DEFINE k == Len(Version.writes)
    <2>1. /\ DOMAIN Version.writes = 1 .. k /\ k \in Nat
          /\ DOMAIN Version'.writes = 1 .. k + 1
          /\ \A i \in 1 .. k : Version'.writes[i] = Version.writes[i]
          /\ Version'.writes[k + 1].execution = e
      BY <1>7, WritesIndexed DEF Extends
    <2> HIDE DEF k
    <2>2. 1 .. k + 1 = (1 .. k) \cup {k + 1}
      BY <2>1
    <2>3. {Version'.writes[i].execution : i \in 1 .. k + 1} = {Version.writes[i].execution : i \in 1 .. k} \cup {e}
      BY <2>1, <2>2
    <2> QED
      BY <2>1, <2>3 DEF Committed
  <1>8. ASSUME NEW p \in Processes, CompareAndSwap(p) PROVE UNCHANGED <<status, Committed>>
    <2>1. UNCHANGED status /\ Extends(Version', [by |-> p, execution |-> None, reference |-> 0])
      BY <1>8, SwapStep
    <2>2. Committed' = (Committed \cup {None}) \ {None}
      BY <2>1, <1>7
    <2> QED
      BY <2>1, <2>2 DEF Committed
  <1>9. ASSUME NEW p \in Processes, NEW e \in Executions, CommitAndFinish(p, e)
        PROVE  Ledger!CommitOf(e)
    <2>1. /\ status[e] = "running" /\ status' = [status EXCEPT ![e] = "succeeded"]
          /\ Len(Flushed(e)) \in Nat
          /\ Extends(Version', [by |-> p, execution |-> e, reference |-> Len(Flushed(e)) + 1])
      BY <1>9, CommitStep
    <2>2. Committed' = (Committed \cup {e}) \ {None}
      BY <2>1, <1>7
    <2>3. Committed' = Committed \cup {e}
      BY <2>2, StoreAssumption DEF Committed
    <2> QED
      BY <2>1, <2>3 DEF Ledger!CommitOf
  <1> QED
    BY <1>2, <1>3, <1>4, <1>5, <1>6, <1>8, <1>9, StepsOfTheLedger DEF Ledger!LedgerNext

(* The database implements the ledger: an execution begins once and ends    *)
(* once, and succeeds in the step that makes its version durable, through   *)
(* crashes, takeovers, failed commits and writers that lost the lease.      *)
THEOREM StoreImplementsLedger == Spec => ImplementsLedger
  <1>1. Init => TypeOK /\ BeginsHold /\ VersionsHold
    BY InitType, InitBegins, InitVersions
  <1>2. TypeOK /\ BeginsHold /\ VersionsHold /\ [Next]_vars => (TypeOK /\ BeginsHold /\ VersionsHold)'
    BY NextType, NextBegins, NextVersions
  <1>3. Init => Ledger!LedgerInit
    BY DEF Init, Ledger!LedgerInit, Committed, Version, NoVersion
  <1>4. TypeOK /\ BeginsHold /\ VersionsHold /\ [Next]_vars => [Ledger!LedgerNext]_Ledger!ledgerVars
    BY LedgerSteps DEF Ledger!ledgerVars
  <1> QED
    BY <1>1, <1>2, <1>3, <1>4, PTL DEF Spec, ImplementsLedger, Ledger!LedgerSpec
-----------------------------------------------------------------------------
(***************************************************************************)
(* Recovery.  Between the opening of the file and the first execution of   *)
(* its new owner, every execution that runs is still to be closed.  This   *)
(* needs that no takeover falls between the statements of beginExecution.  *)
(***************************************************************************)
RecoveryHolds ==
  \A p \in Processes :
    /\ mode[p] = "open" /\ between[p] # None => Owns(p)
    /\ mode[p] = "recovering" /\ Owns(p) =>
         \A e \in Executions : status[e] = "running" => e \in todo[p]
    /\ mode[p] = "open" /\ Owns(p) =>
         \A e \in Executions : status[e] = "running" => runner[e] = p

LEMMA InitRecovery == Init => RecoveryHolds
  BY StoreAssumption DEF Init, RecoveryHolds, Owns

(* A step that starts no execution and changes none of the processes' parts *)
(* in recovery keeps them.                                                  *)
LEMMA RecoveryFrame ==
  ASSUME RecoveryHolds, UNCHANGED <<mode, todo, between, runner>>, lock'.owner = lock.owner,
         \A e \in Executions : status'[e] = "running" => status[e] = "running"
  PROVE  RecoveryHolds'
  BY DEF RecoveryHolds, Owns

LEMMA NextRecovery ==
  ASSUME ~SuspendInBegin, TypeOK, BeginsHold, RecoveryHolds, [Next]_vars
  PROVE  RecoveryHolds'
  <1>0. Renewed.owner = lock.owner
    BY DEF Renewed, TypeOK
  <1>1. CASE UNCHANGED vars \/ Expire
    BY <1>1, RecoveryFrame DEF vars, tables, memory, Expire, TypeOK
  <1>2. ASSUME NEW p \in Processes,
               \/ RenewInstanceLease(p) \/ CompareAndSwap(p) \/ DeleteInstance(p)
               \/ ReadInstance(p) \/ DropCached(p)
        PROVE  RecoveryHolds'
    <2>1. UNCHANGED <<mode, todo, between, runner, status>> /\ lock'.owner = lock.owner
      BY <1>0, <1>2 DEF RenewInstanceLease, CompareAndSwap, DeleteInstance, ReadInstance, DropCached,
                        tables, memory
    <2> QED
      BY <2>1, RecoveryFrame
  <1>3. ASSUME NEW p \in Processes, NEW e \in Executions,
               Emit(p, e) \/ Flush(p, e) \/ CommitFails(p, e) \/ CommitConflicts(p, e)
        PROVE  RecoveryHolds'
    <2>1. UNCHANGED <<mode, todo, between, runner, status>> /\ lock'.owner = lock.owner
      BY <1>0, <1>3 DEF Emit, Flush, CommitFails, CommitConflicts
    <2> QED
      BY <2>1, RecoveryFrame
  <1>4. ASSUME NEW p \in Processes, NEW e \in Executions, FailExecution(p, e) \/ CommitAndFinish(p, e)
        PROVE  RecoveryHolds'
    <2>1. /\ UNCHANGED <<mode, todo, between, runner>> /\ lock'.owner = lock.owner
          /\ \E s \in Terminal : status' = [status EXCEPT ![e] = s]
      BY <1>0, <1>4 DEF FailExecution, CommitAndFinish, Terminal
    <2>2. \A f \in Executions : status'[f] = "running" => status[f] = "running"
      BY <2>1 DEF TypeOK, Terminal
    <2> QED
      BY <2>1, <2>2, RecoveryFrame
  <1>5. ASSUME NEW p \in Processes, AcquireInstanceLease(p) PROVE RecoveryHolds'
    <2>1. /\ \A q \in Processes : mode[q] = "open" => between[q] = None
          /\ lock'.owner = p /\ mode' = [mode EXCEPT ![p] = "acquired"]
          /\ UNCHANGED <<status, todo, between, runner>>
      BY <1>5 DEF AcquireInstanceLease, tables
    <2>2. mode'[p] = "acquired" /\ \A q \in Processes \ {p} : mode'[q] = mode[q]
      BY <2>1 DEF TypeOK
    <2> QED
      BY <2>1, <2>2 DEF RecoveryHolds, Owns
  <1>6. ASSUME NEW p \in Processes, SelectInterrupted(p) PROVE RecoveryHolds'
    <2> DEFINE running == {e \in Executions : status[e] = "running"}
    <2>1. /\ mode[p] = "acquired"
          /\ UNCHANGED <<lock, status, between, runner>>
          /\ todo' = [todo EXCEPT ![p] = running]
          /\ mode' = [mode EXCEPT ![p] = IF running = {} THEN "open" ELSE "recovering"]
      BY <1>6 DEF SelectInterrupted, tables
    <2>2. /\ todo'[p] = running /\ mode'[p] = (IF running = {} THEN "open" ELSE "recovering")
          /\ \A q \in Processes \ {p} : mode'[q] = mode[q] /\ todo'[q] = todo[q]
      BY <2>1 DEF TypeOK
    <2>3. \A e \in Executions : status[e] = "running" => e \in running
      OBVIOUS
    <2>4. between[p] = None
      BY <2>1 DEF BeginsHold
    <2> HIDE DEF running
    <2> QED
      BY <2>1, <2>2, <2>3, <2>4 DEF RecoveryHolds, Owns
  <1>7. ASSUME NEW p \in Processes, CloseInterrupted(p) PROVE RecoveryHolds'
    <2>1. /\ mode[p] = "recovering" /\ between[p] \in Executions /\ Owns(p)
          /\ status' = [status EXCEPT ![between[p]] = "failed"]
          /\ todo' = [todo EXCEPT ![p] = todo[p] \ {between[p]}]
          /\ mode' = [mode EXCEPT ![p] = IF todo[p] = {between[p]} THEN "open" ELSE "recovering"]
          /\ between' = [between EXCEPT ![p] = None]
          /\ runner' = runner /\ lock'.owner = lock.owner
      BY <1>0, <1>7 DEF CloseInterrupted, Appendable, TypeOK
    <2>2. /\ todo'[p] = todo[p] \ {between[p]} /\ between'[p] = None
          /\ mode'[p] = (IF todo[p] = {between[p]} THEN "open" ELSE "recovering")
          /\ \A q \in Processes \ {p} : mode'[q] = mode[q] /\ todo'[q] = todo[q] /\ between'[q] = between[q]
          /\ status'[between[p]] = "failed"
          /\ \A e \in Executions \ {between[p]} : status'[e] = status[e]
      BY <2>1 DEF TypeOK
    <2>3. \A e \in Executions : status'[e] = "running" => status[e] = "running" /\ e \in todo'[p]
      BY <2>1, <2>2 DEF RecoveryHolds
    <2>4. mode'[p] = "open" => \A e \in Executions : status'[e] # "running"
      BY <2>2, <2>3
    <2> QED
      BY <2>1, <2>2, <2>3, <2>4 DEF RecoveryHolds, Owns
  <1>8. ASSUME NEW p \in Processes, InsertExecution(p) PROVE RecoveryHolds'
    <2>1. /\ Owns(p) /\ mode[p] = "open" /\ between[p] \in Executions
          /\ status' = [status EXCEPT ![between[p]] = "running"]
          /\ runner' = [runner EXCEPT ![between[p]] = p]
          /\ between' = [between EXCEPT ![p] = None]
          /\ UNCHANGED <<lock, mode, todo>>
      BY <1>8 DEF InsertExecution, RecoveryHolds, TypeOK
    <2>2. /\ runner'[between[p]] = p /\ between'[p] = None
          /\ \A e \in Executions \ {between[p]} : status'[e] = status[e] /\ runner'[e] = runner[e]
          /\ \A q \in Processes \ {p} : between'[q] = between[q]
      BY <2>1 DEF TypeOK
    <2> QED
      BY <2>1, <2>2 DEF RecoveryHolds, Owns
  <1>9. ASSUME NEW p \in Processes, NEW e \in Executions, CheckBegin(p, e) PROVE RecoveryHolds'
    <2>1. /\ Owns(p) /\ mode[p] = "open" /\ between' = [between EXCEPT ![p] = e]
          /\ UNCHANGED <<status, mode, todo, runner>> /\ lock'.owner = lock.owner
      BY <1>0, <1>9 DEF CheckBegin, tables
    <2>2. \A q \in Processes \ {p} : between'[q] = between[q]
      BY <2>1 DEF TypeOK
    <2> QED
      BY <2>1, <2>2 DEF RecoveryHolds, Owns
  <1>10. ASSUME NEW p \in Processes, NEW e \in Executions, MarkInterrupted(p, e) PROVE RecoveryHolds'
    <2>1. /\ mode[p] = "recovering" /\ between' = [between EXCEPT ![p] = e]
          /\ UNCHANGED <<status, mode, todo, runner>> /\ lock'.owner = lock.owner
      BY <1>0, <1>10 DEF MarkInterrupted
    <2>2. \A q \in Processes \ {p} : between'[q] = between[q]
      BY <2>1 DEF TypeOK
    <2> QED
      BY <2>1, <2>2 DEF RecoveryHolds, Owns
  <1>11. ASSUME NEW p \in Processes, Crash(p) \/ Close(p) PROVE RecoveryHolds'
    <2>1. /\ status' = status /\ mode' = [mode EXCEPT ![p] = "down"]
          /\ todo' = [todo EXCEPT ![p] = {}] /\ between' = [between EXCEPT ![p] = None]
          /\ \A e \in Executions : runner[e] # p => runner'[e] = runner[e]
      BY <1>11 DEF Crash, Close, Forgets
    <2>2. lock'.owner = lock.owner \/ (lock.owner = p /\ lock'.owner = None)
      BY <1>11 DEF Crash, Close, Owns
    <2>3. /\ mode'[p] = "down"
          /\ \A q \in Processes \ {p} : mode'[q] = mode[q] /\ todo'[q] = todo[q] /\ between'[q] = between[q]
      BY <2>1 DEF TypeOK
    <2> QED
      BY <2>1, <2>2, <2>3, StoreAssumption DEF RecoveryHolds, Owns
  <1> QED
    BY <1>1, <1>2, <1>3, <1>4, <1>5, <1>6, <1>7, <1>8, <1>9, <1>10, <1>11 DEF Next

(* If no takeover falls between the check of the lease and the insertion of *)
(* a row, a process that has opened the file finds nothing left over: every *)
(* execution that runs was begun by it.                                     *)
THEOREM OpenedMeansRecovered ==
  ASSUME ~SuspendInBegin
  PROVE  Spec => []NothingInterrupted
  <1>1. Init => TypeOK /\ BeginsHold /\ RecoveryHolds
    BY InitType, InitBegins, InitRecovery
  <1>2. TypeOK /\ BeginsHold /\ RecoveryHolds /\ [Next]_vars => (TypeOK /\ BeginsHold /\ RecoveryHolds)'
    BY NextType, NextBegins, NextRecovery
  <1>3. RecoveryHolds => NothingInterrupted
    BY DEF RecoveryHolds, NothingInterrupted
  <1> QED
    BY <1>1, <1>2, <1>3, PTL DEF Spec
-----------------------------------------------------------------------------
(***************************************************************************)
(* Fencing.  A buffer holds only what its own process emitted, so whoever  *)
(* may write it is the author of what it writes.                           *)
(***************************************************************************)
BuffersHold ==
  \A e \in Executions :
    /\ status[e] = "none" => runner[e] = None
    /\ runner[e] = None => pending[e] = <<>>
    /\ \A i \in DOMAIN pending[e] : pending[e][i].by = runner[e]

LEMMA InitBuffers == Init => BuffersHold
  BY DEF Init, BuffersHold

(* A step that begins nothing and only empties buffers keeps them.          *)
LEMMA BuffersFrame ==
  ASSUME BuffersHold, UNCHANGED runner,
         \A e \in Executions : status'[e] = "none" => status[e] = "none",
         \A e \in Executions : pending'[e] \in {pending[e], <<>>}
  PROVE  BuffersHold'
  <1>1. DOMAIN <<>> = {}
    OBVIOUS
  <1>2. ASSUME NEW e \in Executions
        PROVE  /\ status'[e] = "none" => runner'[e] = None
               /\ runner'[e] = None => pending'[e] = <<>>
               /\ \A i \in DOMAIN pending'[e] : pending'[e][i].by = runner'[e]
    <2>1. CASE pending'[e] = pending[e]
      BY <2>1 DEF BuffersHold
    <2>2. CASE pending'[e] = <<>>
      BY <2>2, <1>1 DEF BuffersHold
    <2> QED
      BY <2>1, <2>2
  <1> QED
    BY <1>2 DEF BuffersHold

(* What an execution has buffered after one more event.                     *)
LEMMA Grown ==
  ASSUME TypeOK, BuffersHold, NEW p \in Processes, NEW e \in Executions, Emit(p, e)
  PROVE  LET grown == Append(pending[e], Entry(p, "emitted", emitted[e] + 1))
         IN /\ grown \in Seq(Event)
            /\ \A i \in DOMAIN grown : grown[i].by = p
            /\ runner[e] = p
            /\ UNCHANGED <<instance, status, runner>>
            /\ \A f \in Executions \ {e} : pending'[f] = pending[f] /\ trace'[f] = trace[f]
            /\ pending'[e] \in {grown, <<>>}
            /\ trace'[e] = trace[e] \/ (Owns(p) /\ trace'[e] = trace[e] \o grown)
  <1> DEFINE entry == Entry(p, "emitted", emitted[e] + 1)
             grown == Append(pending[e], entry)
  <1>1. entry \in Event /\ entry.by = p
    <2>1. emitted[e] + 1 \in 0 .. MaxEmitted
      BY StoreAssumption DEF Emit, TypeOK
    <2> QED
      BY <2>1, PartTypes DEF Entry
  <1>2. runner[e] = p /\ pending[e] \in Seq(Event)
    BY DEF Emit, TypeOK
  <1> HIDE DEF entry
  <1>3. /\ grown \in Seq(Event) /\ Len(grown) = Len(pending[e]) + 1 /\ Len(pending[e]) \in Nat
        /\ \A i \in 1 .. Len(pending[e]) : grown[i] = pending[e][i]
        /\ grown[Len(pending[e]) + 1] = entry
    BY <1>1, <1>2, AppendProperties, LenProperties
  <1>4. DOMAIN grown = 1 .. Len(pending[e]) + 1 /\ DOMAIN pending[e] = 1 .. Len(pending[e])
    BY <1>2, <1>3, LenProperties
  <1>5. \A i \in DOMAIN grown : grown[i].by = p
    BY <1>1, <1>2, <1>3, <1>4 DEF BuffersHold
  <1> HIDE DEF grown
  <1>6. /\ UNCHANGED <<instance, status, runner>>
        /\ pending' \in {[pending EXCEPT ![e] = grown], [pending EXCEPT ![e] = <<>>]}
        /\ trace' = trace \/ (Owns(p) /\ trace' = [trace EXCEPT ![e] = trace[e] \o grown])
    BY DEF Emit, Appendable, grown, entry
  <1>7. /\ \A f \in Executions \ {e} : pending'[f] = pending[f] /\ trace'[f] = trace[f]
        /\ pending'[e] \in {grown, <<>>}
        /\ trace'[e] = trace[e] \/ (Owns(p) /\ trace'[e] = trace[e] \o grown)
    BY <1>6 DEF TypeOK
  <1> QED
    BY <1>2, <1>3, <1>5, <1>6, <1>7 DEF grown, entry

LEMMA NextBuffers ==
  TypeOK /\ BeginsHold /\ BuffersHold /\ [Next]_vars => BuffersHold'
  <1> SUFFICES ASSUME TypeOK, BeginsHold, BuffersHold, [Next]_vars PROVE BuffersHold'
    OBVIOUS
  <1>0. \A e \in Executions : status'[e] = "none" => status[e] = "none"
    BY StepsAreLegal DEF LegalStep, Terminal
  <1>1. CASE UNCHANGED <<runner, pending>>
    BY <1>0, <1>1, BuffersFrame
  <1>2. CASE UNCHANGED vars \/ Expire
    BY <1>1, <1>2 DEF vars, memory, Expire
  <1>3. ASSUME NEW p \in Processes,
               \/ RenewInstanceLease(p) \/ AcquireInstanceLease(p) \/ SelectInterrupted(p)
               \/ CloseInterrupted(p) \/ CompareAndSwap(p) \/ DeleteInstance(p) \/ ReadInstance(p) \/ DropCached(p)
        PROVE  UNCHANGED <<runner, pending>>
    BY <1>3 DEF RenewInstanceLease, AcquireInstanceLease, SelectInterrupted, CloseInterrupted,
                CompareAndSwap, DeleteInstance, ReadInstance, DropCached, memory
  <1>4. ASSUME NEW p \in Processes, NEW e \in Executions, CheckBegin(p, e) \/ MarkInterrupted(p, e)
        PROVE  UNCHANGED <<runner, pending>>
    BY <1>4 DEF CheckBegin, MarkInterrupted
  <1>5. ASSUME NEW p \in Processes, NEW e \in Executions,
               \/ Flush(p, e) \/ FailExecution(p, e) \/ CommitAndFinish(p, e)
               \/ CommitFails(p, e) \/ CommitConflicts(p, e)
        PROVE  BuffersHold'
    <2>1. UNCHANGED runner /\ \E s \in {pending[e], <<>>} : pending' = [pending EXCEPT ![e] = s]
      BY <1>5 DEF Flush, FailExecution, CommitAndFinish, CommitFails, CommitConflicts, Unflushed
    <2>2. \A f \in Executions : pending'[f] \in {pending[f], <<>>}
      BY <2>1 DEF TypeOK
    <2> QED
      BY <2>1, <2>2, <1>0, BuffersFrame
  <1>6. ASSUME NEW p \in Processes, NEW e \in Executions, Emit(p, e) PROVE BuffersHold'
    <2>1. PICK grown : /\ \A i \in DOMAIN grown : grown[i].by = p
                       /\ runner[e] = p /\ UNCHANGED <<status, runner>>
                       /\ \A f \in Executions \ {e} : pending'[f] = pending[f]
                       /\ pending'[e] \in {grown, <<>>}
      BY <1>6, Grown
    <2>2. DOMAIN <<>> = {} /\ p # None
      BY StoreAssumption
    <2> QED
      BY <2>1, <2>2 DEF BuffersHold
  <1>7. ASSUME NEW p \in Processes, InsertExecution(p) PROVE BuffersHold'
    <2>1. /\ between[p] \in Executions /\ status[between[p]] = "none"
          /\ status' = [status EXCEPT ![between[p]] = "running"]
          /\ runner' = [runner EXCEPT ![between[p]] = p] /\ UNCHANGED pending
      BY <1>7 DEF InsertExecution, BeginsHold, TypeOK
    <2>2. pending[between[p]] = <<>> /\ DOMAIN <<>> = {}
      BY <2>1 DEF BuffersHold
    <2>3. /\ status'[between[p]] = "running"
          /\ \A f \in Executions \ {between[p]} : runner'[f] = runner[f] /\ status'[f] = status[f]
      BY <2>1 DEF TypeOK
    <2>4. ASSUME NEW f \in Executions
          PROVE  /\ status'[f] = "none" => runner'[f] = None
                 /\ runner'[f] = None => pending'[f] = <<>>
                 /\ \A i \in DOMAIN pending'[f] : pending'[f][i].by = runner'[f]
      <3>1. CASE f = between[p]
        BY <3>1, <2>1, <2>2, <2>3
      <3>2. CASE f # between[p]
        BY <3>2, <2>1, <2>3 DEF BuffersHold
      <3> QED
        BY <3>1, <3>2
    <2> QED
      BY <2>4 DEF BuffersHold
  <1>8. ASSUME NEW p \in Processes, Crash(p) \/ Close(p) PROVE BuffersHold'
    <2>1. /\ status' = status
          /\ \A e \in Executions : runner[e] = p => runner'[e] = None /\ pending'[e] = <<>>
          /\ \A e \in Executions : runner[e] # p => runner'[e] = runner[e] /\ pending'[e] = pending[e]
      BY <1>8 DEF Crash, Close, Forgets
    <2>2. DOMAIN <<>> = {}
      OBVIOUS
    <2> QED
      BY <2>1, <2>2 DEF BuffersHold
  <1> QED
    BY <1>1, <1>2, <1>3, <1>4, <1>5, <1>6, <1>7, <1>8 DEF Next
(* The events a step adds to s to make t were written by the lease's owner. *)
Fenced(s, t) == \A i \in Len(s) + 1 .. Len(t) : t[i].by = lock.owner

LEMMA FencedSame == ASSUME NEW s \in Seq(Event) PROVE Fenced(s, s)
  BY LenProperties DEF Fenced

LEMMA FencedConcat ==
  ASSUME NEW s \in Seq(Event), NEW t \in Seq(Event), \A i \in DOMAIN t : t[i].by = lock.owner
  PROVE  Fenced(s, s \o t)
  <1>1. /\ Len(s) \in Nat /\ Len(t) \in Nat /\ DOMAIN t = 1 .. Len(t)
        /\ Len(s \o t) = Len(s) + Len(t)
        /\ \A i \in 1 .. Len(s) + Len(t) : (s \o t)[i] = IF i <= Len(s) THEN s[i] ELSE t[i - Len(s)]
    BY LenProperties, ConcatProperties
  <1>2. ASSUME NEW i \in Len(s) + 1 .. Len(s \o t) PROVE (s \o t)[i].by = lock.owner
    <2>1. i \in 1 .. Len(s) + Len(t) /\ ~(i <= Len(s)) /\ i - Len(s) \in DOMAIN t
      BY <1>1
    <2>2. (s \o t)[i] = t[i - Len(s)]
      BY <1>1, <2>1
    <2> QED
      BY <2>1, <2>2
  <1> QED
    BY <1>2 DEF Fenced

LEMMA FencedAppend ==
  ASSUME NEW s \in Seq(Event), NEW t \in Seq(Event), Fenced(s, t), NEW x \in Event, x.by = lock.owner
  PROVE  Fenced(s, Append(t, x))
  <1>1. /\ Len(s) \in Nat /\ Len(t) \in Nat /\ Len(Append(t, x)) = Len(t) + 1
        /\ \A i \in 1 .. Len(t) : Append(t, x)[i] = t[i]
        /\ Append(t, x)[Len(t) + 1] = x
    BY LenProperties, AppendProperties
  <1>2. ASSUME NEW i \in Len(s) + 1 .. Len(Append(t, x)) PROVE Append(t, x)[i].by = lock.owner
    <2>1. CASE i = Len(t) + 1
      BY <2>1, <1>1
    <2>2. CASE i # Len(t) + 1
      <3>1. i \in Len(s) + 1 .. Len(t) /\ i \in 1 .. Len(t)
        BY <2>2, <1>1
      <3> QED
        BY <3>1, <1>1 DEF Fenced
    <2> QED
      BY <2>1, <2>2
  <1> QED
    BY <1>2 DEF Fenced

(* Emptying the buffer of an own execution is fenced, or adds nothing.      *)
LEMMA FencedFlush ==
  ASSUME TypeOK, BuffersHold, NEW p \in Processes, NEW e \in Executions, runner[e] = p, Flushable(p, e)
  PROVE  Flushed(e) \in Seq(Event) /\ Fenced(trace[e], Flushed(e))
  <1>1. trace[e] \in Seq(Event) /\ pending[e] \in Seq(Event) /\ Flushed(e) \in Seq(Event)
    BY PartTypes DEF TypeOK
  <1>2. CASE e \in registered /\ pending[e] # <<>>
    <2>1. lock.owner = p
      BY <1>2 DEF Flushable, Appendable, Owns
    <2>2. \A i \in DOMAIN pending[e] : pending[e][i].by = lock.owner
      BY <2>1 DEF BuffersHold
    <2> QED
      BY <1>1, <1>2, <2>2, FencedConcat DEF Flushed
  <1>3. CASE e \notin registered \/ pending[e] = <<>>
    <2>1. trace[e] \o <<>> = trace[e]
      BY <1>1, ConcatEmptySeq
    <2>2. Flushed(e) = trace[e]
      BY <1>3, <2>1 DEF Flushed
    <2> QED
      BY <1>1, <2>2, FencedSame
  <1> QED
    BY <1>2, <1>3

LEMMA StepsOfTheTrace ==
  ASSUME TypeOK, BeginsHold, BuffersHold, [Next]_vars, NEW f \in Executions
  PROVE  Fenced(trace[f], trace'[f])
  <1>0. trace[f] \in Seq(Event) /\ Fenced(trace[f], trace[f])
    BY FencedSame DEF TypeOK
  <1>1. CASE UNCHANGED trace
    BY <1>0, <1>1
  <1>2. CASE UNCHANGED vars \/ Expire
    BY <1>1, <1>2 DEF vars, tables, Expire
  <1>3. ASSUME NEW p \in Processes,
               \/ RenewInstanceLease(p) \/ AcquireInstanceLease(p) \/ SelectInterrupted(p)
               \/ InsertExecution(p) \/ CompareAndSwap(p) \/ DeleteInstance(p)
               \/ ReadInstance(p) \/ DropCached(p) \/ Crash(p)
        PROVE  UNCHANGED trace
    BY <1>3 DEF RenewInstanceLease, AcquireInstanceLease, SelectInterrupted, InsertExecution,
                CompareAndSwap, DeleteInstance, ReadInstance, DropCached, Crash, tables
  <1>4. ASSUME NEW p \in Processes, NEW e \in Executions, CheckBegin(p, e) PROVE UNCHANGED trace
    BY <1>4 DEF CheckBegin, tables
  <1>5. ASSUME NEW p \in Processes, NEW e \in Executions, NEW t \in Seq(Event), NEW x \in Event,
               lock.owner = p, x.by = p, Fenced(trace[e], t), trace' = [trace EXCEPT ![e] = Append(t, x)]
        PROVE  Fenced(trace[f], trace'[f])
    <2>1. trace[e] \in Seq(Event)
      BY DEF TypeOK
    <2>2. Fenced(trace[e], Append(t, x))
      BY <1>5, <2>1, FencedAppend
    <2> QED
      BY <1>0, <1>5, <2>2 DEF TypeOK
  <1>6. ASSUME NEW p \in Processes, NEW e \in Executions, runner[e] = p, Flushable(p, e),
               trace' = [trace EXCEPT ![e] = Flushed(e)]
        PROVE  Fenced(trace[f], trace'[f])
    BY <1>0, <1>6, FencedFlush DEF TypeOK
  <1>7. ASSUME NEW p \in Processes PROVE Entry(p, "failed", 0).by = p /\ Entry(p, "commit", 0).by = p /\ Entry(p, "recovered", 0).by = p
    BY DEF Entry
  <1>8. ASSUME NEW p \in Processes
        PROVE  {Entry(p, "failed", 0), Entry(p, "commit", 0), Entry(p, "recovered", 0)} \subseteq Event
    BY PartTypes
  <1>9. ASSUME NEW p \in Processes, NEW e \in Executions, FailExecution(p, e) \/ CommitAndFinish(p, e)
        PROVE  Fenced(trace[f], trace'[f])
    <2>1. /\ runner[e] = p /\ Flushable(p, e) /\ lock.owner = p
          /\ \E x \in {Entry(p, "failed", 0), Entry(p, "commit", 0)} :
               trace' = [trace EXCEPT ![e] = Append(Flushed(e), x)]
      BY <1>9 DEF FailExecution, CommitAndFinish, Committing, Appendable, Owns
    <2>2. Flushed(e) \in Seq(Event) /\ Fenced(trace[e], Flushed(e))
      BY <2>1, FencedFlush
    <2>3. PICK x \in {Entry(p, "failed", 0), Entry(p, "commit", 0)} :
                 trace' = [trace EXCEPT ![e] = Append(Flushed(e), x)]
      BY <2>1
    <2>4. x \in Event /\ x.by = p
      BY <1>7, <1>8
    <2> QED
      BY <2>1, <2>2, <2>3, <2>4, <1>5
  <1>10. ASSUME NEW p \in Processes, NEW e \in Executions, CommitFails(p, e) \/ CommitConflicts(p, e)
         PROVE  Fenced(trace[f], trace'[f])
    <2>1. runner[e] = p /\ Flushable(p, e) /\ trace' = [trace EXCEPT ![e] = Flushed(e)]
      BY <1>10 DEF CommitFails, CommitConflicts, Committing
    <2> QED
      BY <2>1, <1>6
  <1>11. ASSUME NEW p \in Processes, NEW e \in Executions, MarkInterrupted(p, e)
         PROVE  Fenced(trace[f], trace'[f])
    <2>1. lock.owner = p /\ trace' = [trace EXCEPT ![e] = Append(trace[e], Entry(p, "recovered", 0))]
      BY <1>11 DEF MarkInterrupted, Appendable, Owns
    <2>2. trace[e] \in Seq(Event) /\ Fenced(trace[e], trace[e])
      BY FencedSame DEF TypeOK
    <2> QED
      BY <2>1, <2>2, <1>5, <1>7, <1>8
  <1>12. ASSUME NEW p \in Processes, CloseInterrupted(p) PROVE Fenced(trace[f], trace'[f])
    <2>1. /\ between[p] \in Executions /\ lock.owner = p
          /\ trace' = [trace EXCEPT ![between[p]] = Append(trace[between[p]], Entry(p, "failed", 0))]
      BY <1>12 DEF CloseInterrupted, Appendable, Owns, TypeOK
    <2>2. trace[between[p]] \in Seq(Event) /\ Fenced(trace[between[p]], trace[between[p]])
      BY <2>1, FencedSame DEF TypeOK
    <2> QED
      BY <2>1, <2>2, <1>5, <1>7, <1>8
  <1>13. ASSUME NEW p \in Processes, NEW e \in Executions, Flush(p, e) PROVE Fenced(trace[f], trace'[f])
    <2>1. /\ lock.owner = p /\ runner[e] = p
          /\ trace' = [trace EXCEPT ![e] = trace[e] \o pending[e]]
      BY <1>13 DEF Flush, Appendable, Owns
    <2>2. /\ trace[e] \in Seq(Event) /\ pending[e] \in Seq(Event)
          /\ \A i \in DOMAIN pending[e] : pending[e][i].by = lock.owner
      BY <2>1 DEF BuffersHold, TypeOK
    <2>3. Fenced(trace[e], trace[e] \o pending[e])
      BY <2>2, FencedConcat
    <2> QED
      BY <2>1, <2>3, <1>0 DEF TypeOK
  <1>14. ASSUME NEW p \in Processes, NEW e \in Executions, Emit(p, e) PROVE Fenced(trace[f], trace'[f])
    <2> DEFINE grown == Append(pending[e], Entry(p, "emitted", emitted[e] + 1))
    <2>1. /\ grown \in Seq(Event)
          /\ \A i \in DOMAIN grown : grown[i].by = p
          /\ \A g \in Executions \ {e} : trace'[g] = trace[g]
          /\ trace'[e] = trace[e] \/ (Owns(p) /\ trace'[e] = trace[e] \o grown)
      BY <1>14, Grown
    <2> HIDE DEF grown
    <2>2. trace[e] \in Seq(Event) /\ Fenced(trace[e], trace[e])
      BY FencedSame DEF TypeOK
    <2>3. Owns(p) => Fenced(trace[e], trace[e] \o grown)
      BY <2>1, <2>2, FencedConcat DEF Owns
    <2> QED
      BY <2>1, <2>2, <2>3, <1>0
  <1>15. ASSUME NEW p \in Processes, Close(p) PROVE Fenced(trace[f], trace'[f])
    <2>1. CASE f \in registered /\ runner[f] = p
      <3>1. Flushable(p, f) /\ trace'[f] = Flushed(f)
        BY <1>15, <2>1 DEF Close
      <3> QED
        BY <2>1, <3>1, FencedFlush
    <2>2. CASE ~(f \in registered /\ runner[f] = p)
      BY <1>0, <1>15, <2>2 DEF Close
    <2> QED
      BY <2>1, <2>2
  <1> QED
    BY <1>1, <1>2, <1>3, <1>4, <1>9, <1>10, <1>11, <1>12, <1>13, <1>14, <1>15 DEF Next

(* Fencing: what reaches the instance or a trace was written by the process *)
(* that held the lease at that moment, and events by their own emitter.     *)
THEOREM OwnersWrite == Spec => WritesFenced
  <1>1. Init => TypeOK /\ BeginsHold /\ VersionsHold /\ BuffersHold
    BY InitType, InitBegins, InitVersions, InitBuffers
  <1>2. TypeOK /\ BeginsHold /\ VersionsHold /\ BuffersHold /\ [Next]_vars =>
          (TypeOK /\ BeginsHold /\ VersionsHold /\ BuffersHold)'
    BY NextType, NextBegins, NextVersions, NextBuffers
  <1>3. ASSUME TypeOK, BeginsHold, VersionsHold, BuffersHold, [Next]_vars
        PROVE  /\ instance' # instance /\ ~instance'.deleted =>
                    Version'.writes[Len(Version'.writes)].by = lock.owner
               /\ \A e \in Executions : \A i \in Len(trace[e]) + 1 .. Len(trace'[e]) :
                    trace'[e][i].by = lock.owner
    <2>1. ASSUME NEW p \in Processes, NEW e \in Executions \cup {None}, NEW n \in Nat, Owns(p),
                 Extends(Version', [by |-> p, execution |-> e, reference |-> n])
          PROVE  Version'.writes[Len(Version'.writes)].by = lock.owner
      BY <2>1 DEF Extends, Owns
    <2>2. ASSUME NEW p \in Processes, CompareAndSwap(p)
          PROVE  Version'.writes[Len(Version'.writes)].by = lock.owner
      <3>1. Owns(p)
        BY <2>2 DEF CompareAndSwap
      <3> QED
        BY <2>1, <2>2, <1>3, <3>1, SwapStep
    <2>3. ASSUME NEW p \in Processes, DeleteInstance(p) PROVE instance'.deleted
      BY <2>3 DEF DeleteInstance
    <2>4. ASSUME NEW p \in Processes, NEW e \in Executions, CommitAndFinish(p, e)
          PROVE  Version'.writes[Len(Version'.writes)].by = lock.owner
      <3>1. Owns(p) /\ Len(Flushed(e)) + 1 \in Nat
        BY <2>4, <1>3, PartTypes DEF CommitAndFinish, Committing, Appendable
      <3>2. Extends(Version', [by |-> p, execution |-> e, reference |-> Len(Flushed(e)) + 1])
        BY <2>4, <1>3, CommitStep
      <3> QED
        BY <2>1, <3>1, <3>2
    <2>5. \A e \in Executions : \A i \in Len(trace[e]) + 1 .. Len(trace'[e]) : trace'[e][i].by = lock.owner
      BY <1>3, StepsOfTheTrace DEF Fenced
    <2> QED
      BY <1>3, <2>2, <2>3, <2>4, <2>5, StepsOfTheRow
  <1> QED
    BY <1>1, <1>2, <1>3, PTL DEF Spec, WritesFenced

-----------------------------------------------------------------------------
(***************************************************************************)
(* The order of the events.  TraceInOrder does not say which events are    *)
(* still in the buffer, nor that an execution about to begin has emitted   *)
(* none: Orders splits the emitted events into those of the trace and the  *)
(* rest, for one execution with trace t, buffer b and n emitted events.    *)
(***************************************************************************)
Continues(b, w) == \A i \in DOMAIN b : b[i].kind = "emitted" /\ b[i].number = w + i
Orders(t, b, alive, n) ==
  \E w \in 0 .. n :
    /\ InSequence(t, w) /\ Continues(b, w)
    /\ w + Len(b) <= n /\ (alive => w + Len(b) = n)

OrderHolds ==
  \A e \in Executions :
    /\ Orders(trace[e], pending[e], runner[e] # None, emitted[e])
    /\ status[e] = "none" => emitted[e] = 0

LEMMA EventFields ==
  \A x \in Event : x.number \in Nat
  BY StoreAssumption DEF Event

LEMMA InSequenceAppend ==
  ASSUME NEW s \in Seq(Event), NEW n \in Nat, InSequence(s, n), NEW x \in Event, x.kind # "emitted"
  PROVE  InSequence(Append(s, x), n)
  <1> DEFINE t == Append(s, x)
  <1>1. /\ Len(s) \in Nat /\ DOMAIN s = 1 .. Len(s)
        /\ t \in Seq(Event) /\ Len(t) = Len(s) + 1 /\ DOMAIN t = 1 .. Len(t)
        /\ \A i \in 1 .. Len(s) : t[i] = s[i]
        /\ t[Len(s) + 1] = x
    BY LenProperties, AppendProperties
  <1> HIDE DEF t
  <1>2. Emissions(t) = Emissions(s)
    BY <1>1 DEF Emissions
  <1>3. \A i \in Emissions(s) : t[i] = s[i]
    BY <1>1 DEF Emissions
  <1>4. {t[i].number : i \in Emissions(t)} = {s[i].number : i \in Emissions(s)}
    BY <1>2, <1>3
  <1>5. InSequence(t, n)
    BY <1>2, <1>3, <1>4 DEF InSequence
  <1> QED
    BY <1>5 DEF t

LEMMA InSequenceConcat ==
  ASSUME NEW s \in Seq(Event), NEW b \in Seq(Event), NEW w \in Nat, InSequence(s, w), Continues(b, w)
  PROVE  InSequence(s \o b, w + Len(b))
  <1> DEFINE t == s \o b
  <1>1. /\ Len(s) \in Nat /\ DOMAIN s = 1 .. Len(s)
        /\ Len(b) \in Nat /\ DOMAIN b = 1 .. Len(b)
        /\ t \in Seq(Event) /\ Len(t) = Len(s) + Len(b) /\ DOMAIN t = 1 .. Len(t)
        /\ \A i \in 1 .. Len(s) + Len(b) : t[i] = IF i <= Len(s) THEN s[i] ELSE b[i - Len(s)]
    BY LenProperties, ConcatProperties
  <1> HIDE DEF t
  <1>2. ASSUME NEW i \in Emissions(t), i <= Len(s)
        PROVE  i \in Emissions(s) /\ t[i] = s[i] /\ t[i].number \in 1 .. w
    <2>1. i \in 1 .. Len(s) /\ t[i] = s[i] /\ t[i].kind = "emitted"
      BY <1>1, <1>2 DEF Emissions
    <2>2. i \in Emissions(s)
      BY <1>1, <2>1 DEF Emissions
    <2>3. s[i].number \in 1 .. w
      BY <2>2 DEF InSequence
    <2> QED
      BY <2>1, <2>2, <2>3
  <1>3. ASSUME NEW i \in Emissions(t), ~(i <= Len(s))
        PROVE  i \in Int /\ t[i].number = w + (i - Len(s)) /\ i - Len(s) \in 1 .. Len(b)
    <2>1. i \in 1 .. Len(s) + Len(b) /\ i - Len(s) \in 1 .. Len(b) /\ t[i] = b[i - Len(s)]
      BY <1>1, <1>3 DEF Emissions
    <2> QED
      BY <1>1, <2>1 DEF Continues
  <1>4. \A i \in Emissions(t) : i \in Int
    BY <1>1 DEF Emissions
  <1>5. ASSUME NEW i \in Emissions(t) PROVE t[i].number \in 1 .. w + Len(b)
    BY <1>1, <1>2, <1>3, <1>4
  <1>6. ASSUME NEW m \in 1 .. w + Len(b) PROVE \E i \in Emissions(t) : t[i].number = m
    <2>1. CASE m <= w
      <3>1. PICK i \in Emissions(s) : s[i].number = m
        BY <2>1 DEF InSequence
      <3>2. i \in 1 .. Len(s) /\ s[i].kind = "emitted" /\ t[i] = s[i] /\ i \in DOMAIN t
        BY <1>1 DEF Emissions
      <3> QED
        BY <3>1, <3>2 DEF Emissions
    <2>2. CASE ~(m <= w)
      <3>1. m - w \in 1 .. Len(b)
        BY <1>1, <2>2
      <3>2. /\ Len(s) + (m - w) \in 1 .. Len(s) + Len(b) /\ ~(Len(s) + (m - w) <= Len(s))
            /\ Len(s) + (m - w) - Len(s) = m - w
        BY <1>1, <3>1
      <3>3. t[Len(s) + (m - w)] = b[m - w] /\ Len(s) + (m - w) \in DOMAIN t
        BY <1>1, <3>2
      <3>4. b[m - w].kind = "emitted" /\ b[m - w].number = w + (m - w)
        BY <1>1, <3>1 DEF Continues
      <3>5. w + (m - w) = m
        OBVIOUS
      <3> QED
        BY <3>3, <3>4, <3>5 DEF Emissions
    <2> QED
      BY <2>1, <2>2
  <1>7. {t[i].number : i \in Emissions(t)} = 1 .. w + Len(b)
    BY <1>5, <1>6
  <1>8. ASSUME NEW i \in Emissions(t), NEW j \in Emissions(t), i < j PROVE t[i].number < t[j].number
    <2>1. CASE j <= Len(s)
      <3>1. i <= Len(s)
        BY <2>1, <1>8, <1>4, <1>1
      <3>2. i \in Emissions(s) /\ j \in Emissions(s) /\ t[i] = s[i] /\ t[j] = s[j]
        BY <2>1, <3>1, <1>2
      <3> QED
        BY <3>2, <1>8 DEF InSequence
    <2>2. CASE i <= Len(s) /\ ~(j <= Len(s))
      <3>1. t[i].number \in 1 .. w
        BY <2>2, <1>2
      <3>2. t[j].number = w + (j - Len(s)) /\ j - Len(s) \in 1 .. Len(b)
        BY <2>2, <1>3
      <3> QED
        BY <3>1, <3>2, <1>1
    <2>3. CASE ~(i <= Len(s))
      <3>1. ~(j <= Len(s))
        BY <2>3, <1>8, <1>4, <1>1
      <3>2. /\ t[i].number = w + (i - Len(s)) /\ i - Len(s) \in 1 .. Len(b)
            /\ t[j].number = w + (j - Len(s)) /\ j - Len(s) \in 1 .. Len(b)
        BY <2>3, <3>1, <1>3
      <3> QED
        BY <3>2, <1>8, <1>4, <1>1
    <2> QED
      BY <2>1, <2>2, <2>3
  <1> QED
    BY <1>7, <1>8 DEF InSequence, t

LEMMA OrdersFlushed ==
  ASSUME NEW t \in Seq(Event), NEW b \in Seq(Event), NEW alive \in BOOLEAN, NEW n \in Nat, Orders(t, b, alive, n)
  PROVE  Orders(t \o b, <<>>, alive, n)
  <1>1. PICK w \in 0 .. n : /\ InSequence(t, w) /\ Continues(b, w)
                            /\ w + Len(b) <= n /\ (alive => w + Len(b) = n)
    BY DEF Orders
  <1>2. Len(b) \in Nat /\ w \in Nat
    BY LenProperties
  <1>3. InSequence(t \o b, w + Len(b))
    BY <1>1, <1>2, InSequenceConcat
  <1>4. Continues(<<>>, w + Len(b)) /\ Len(<<>>) = 0
    BY DEF Continues
  <1>5. w + Len(b) \in 0 .. n /\ w + Len(b) + Len(<<>>) <= n
    BY <1>1, <1>2, <1>4
  <1>6. alive => w + Len(b) + Len(<<>>) = n
    BY <1>1, <1>2, <1>4
  <1> QED
    BY <1>3, <1>4, <1>5, <1>6 DEF Orders

LEMMA OrdersSaid ==
  ASSUME NEW t \in Seq(Event), NEW b \in Seq(Event), NEW alive \in BOOLEAN, NEW n \in Nat,
         Orders(t, b, alive, n), NEW x \in Event, x.kind # "emitted"
  PROVE  Orders(Append(t, x), b, alive, n)
  <1>1. PICK w \in 0 .. n : /\ InSequence(t, w) /\ Continues(b, w)
                            /\ w + Len(b) <= n /\ (alive => w + Len(b) = n)
    BY DEF Orders
  <1>2. InSequence(Append(t, x), w)
    BY <1>1, InSequenceAppend
  <1> QED
    BY <1>1, <1>2 DEF Orders

LEMMA OrdersEmitted ==
  ASSUME NEW t \in Seq(Event), NEW b \in Seq(Event), NEW n \in Nat, Orders(t, b, TRUE, n),
         NEW x \in Event, x.kind = "emitted", x.number = n + 1
  PROVE  Orders(t, Append(b, x), TRUE, n + 1)
  <1> DEFINE c == Append(b, x)
  <1>1. PICK w \in 0 .. n : InSequence(t, w) /\ Continues(b, w) /\ w + Len(b) = n
    BY DEF Orders
  <1>2. /\ Len(b) \in Nat /\ DOMAIN b = 1 .. Len(b) /\ Len(c) = Len(b) + 1 /\ DOMAIN c = 1 .. Len(c)
        /\ \A i \in 1 .. Len(b) : c[i] = b[i]
        /\ c[Len(b) + 1] = x
    BY LenProperties, AppendProperties
  <1> HIDE DEF c
  <1>3. ASSUME NEW i \in DOMAIN c PROVE c[i].kind = "emitted" /\ c[i].number = w + i
    <2>1. CASE i = Len(b) + 1
      BY <2>1, <1>1, <1>2
    <2>2. CASE i # Len(b) + 1
      <3>1. i \in 1 .. Len(b)
        BY <2>2, <1>2
      <3> QED
        BY <3>1, <1>1, <1>2 DEF Continues
    <2> QED
      BY <2>1, <2>2
  <1>4. w \in 0 .. n + 1 /\ w + Len(c) = n + 1 /\ w + Len(c) <= n + 1
    BY <1>1, <1>2
  <1>5. Continues(c, w)
    BY <1>3 DEF Continues
  <1> QED
    BY <1>1, <1>4, <1>5 DEF Orders, c

LEMMA OrdersForgotten ==
  ASSUME NEW t, NEW b \in Seq(Event), NEW alive \in BOOLEAN, NEW n \in Nat, Orders(t, b, alive, n)
  PROVE  Orders(t, <<>>, FALSE, n)
  <1>1. PICK w \in 0 .. n : InSequence(t, w)
    BY DEF Orders
  <1>2. Continues(<<>>, w) /\ Len(<<>>) = 0
    BY DEF Continues
  <1>3. w + Len(<<>>) <= n
    BY <1>2
  <1> QED
    BY <1>1, <1>2, <1>3 DEF Orders

LEMMA OrdersKept ==
  ASSUME TypeOK, OrderHolds, NEW e \in Executions
  PROVE  /\ trace[e] \in Seq(Event) /\ pending[e] \in Seq(Event) /\ (runner[e] # None) \in BOOLEAN
         /\ emitted[e] \in Nat /\ <<>> \in Seq(Event) /\ Flushed(e) \in Seq(Event)
         /\ Orders(trace[e], pending[e], runner[e] # None, emitted[e])
         /\ Orders(Flushed(e), Unflushed(e), runner[e] # None, emitted[e])
         /\ Orders(trace[e], <<>>, FALSE, emitted[e])
         /\ Orders(Flushed(e), <<>>, FALSE, emitted[e])
  <1>1. /\ trace[e] \in Seq(Event) /\ pending[e] \in Seq(Event) /\ emitted[e] \in Nat
        /\ <<>> \in Seq(Event) /\ Flushed(e) \in Seq(Event) /\ Unflushed(e) \in Seq(Event)
    BY EmptySeq, PartTypes, StoreAssumption DEF TypeOK
  <1>2. Orders(trace[e], pending[e], runner[e] # None, emitted[e])
    BY DEF OrderHolds
  <1>3. Orders(trace[e] \o pending[e], <<>>, runner[e] # None, emitted[e])
    BY <1>1, <1>2, OrdersFlushed
  <1>4. Orders(Flushed(e), Unflushed(e), runner[e] # None, emitted[e])
    BY <1>2, <1>3 DEF Flushed, Unflushed
  <1>5. Orders(trace[e], <<>>, FALSE, emitted[e]) /\ Orders(Flushed(e), <<>>, FALSE, emitted[e])
    BY <1>1, <1>2, <1>4, OrdersForgotten
  <1> QED
    BY <1>1, <1>2, <1>4, <1>5

LEMMA OrderOfOne ==
  ASSUME TypeOK, BeginsHold, BuffersHold, OrderHolds, [Next]_vars, NEW e \in Executions
  PROVE  Orders(trace'[e], pending'[e], runner'[e] # None, emitted'[e])
  <1> DEFINE Goal == Orders(trace'[e], pending'[e], runner'[e] # None, emitted'[e])
  <1>1. /\ trace[e] \in Seq(Event) /\ pending[e] \in Seq(Event) /\ (runner[e] # None) \in BOOLEAN
        /\ emitted[e] \in Nat /\ Flushed(e) \in Seq(Event)
        /\ Orders(trace[e], pending[e], runner[e] # None, emitted[e])
        /\ Orders(Flushed(e), Unflushed(e), runner[e] # None, emitted[e])
        /\ Orders(trace[e], <<>>, FALSE, emitted[e])
        /\ Orders(Flushed(e), <<>>, FALSE, emitted[e])
        /\ Orders(trace[e] \o pending[e], <<>>, runner[e] # None, emitted[e])
    BY OrdersKept, OrdersFlushed
  <1>2. ASSUME NEW p \in Processes, NEW kind \in {"commit", "failed", "recovered"}
        PROVE  Entry(p, kind, 0) \in Event /\ Entry(p, kind, 0).kind # "emitted"
    <2>1. Entry(p, kind, 0) \in Event
      BY PartTypes
    <2> QED
      BY <2>1 DEF Entry
  <1>3. CASE UNCHANGED <<trace, pending, runner, emitted>>
    BY <1>1, <1>3
  <1>4. CASE UNCHANGED vars \/ Expire
    BY <1>3, <1>4 DEF vars, tables, memory, Expire
  <1>5. ASSUME NEW p \in Processes,
               \/ RenewInstanceLease(p) \/ AcquireInstanceLease(p) \/ SelectInterrupted(p)
               \/ CompareAndSwap(p) \/ DeleteInstance(p) \/ ReadInstance(p) \/ DropCached(p)
        PROVE  UNCHANGED <<trace, pending, runner, emitted>>
    BY <1>5 DEF RenewInstanceLease, AcquireInstanceLease, SelectInterrupted,
                CompareAndSwap, DeleteInstance, ReadInstance, DropCached, tables, memory
  <1>6. ASSUME NEW p \in Processes, NEW f \in Executions, CheckBegin(p, f)
        PROVE  UNCHANGED <<trace, pending, runner, emitted>>
    BY <1>6 DEF CheckBegin, tables
  <1>7. ASSUME NEW p \in Processes, NEW f \in Executions,
               NEW x \in {Entry(p, "failed", 0), Entry(p, "commit", 0)},
               trace' = [trace EXCEPT ![f] = Append(Flushed(f), x)],
               pending' = [pending EXCEPT ![f] = Unflushed(f)], UNCHANGED <<runner, emitted>>
        PROVE  Goal
    <2>1. CASE e = f
      <3>1. x \in Event /\ x.kind # "emitted"
        BY <1>2
      <3>2. Unflushed(e) \in Seq(Event)
        BY PartTypes
      <3>3. Orders(Append(Flushed(e), x), Unflushed(e), runner[e] # None, emitted[e])
        BY <1>1, <3>1, <3>2, OrdersSaid
      <3> QED
        BY <2>1, <3>3, <1>7 DEF TypeOK
    <2>2. CASE e # f
      BY <2>2, <1>7, <1>1 DEF TypeOK
    <2> QED
      BY <2>1, <2>2
  <1>8. ASSUME NEW p \in Processes, NEW f \in Executions, FailExecution(p, f) \/ CommitAndFinish(p, f) PROVE Goal
    <2>1. /\ \E x \in {Entry(p, "failed", 0), Entry(p, "commit", 0)} :
               trace' = [trace EXCEPT ![f] = Append(Flushed(f), x)]
          /\ pending' = [pending EXCEPT ![f] = Unflushed(f)] /\ UNCHANGED <<runner, emitted>>
      BY <1>8 DEF FailExecution, CommitAndFinish
    <2> QED
      BY <2>1, <1>7
  <1>9. ASSUME NEW p \in Processes, NEW f \in Executions, CommitFails(p, f) \/ CommitConflicts(p, f) PROVE Goal
    <2>1. /\ trace' = [trace EXCEPT ![f] = Flushed(f)] /\ pending' = [pending EXCEPT ![f] = Unflushed(f)]
          /\ UNCHANGED <<runner, emitted>>
      BY <1>9 DEF CommitFails, CommitConflicts
    <2>2. CASE e = f
      BY <2>1, <2>2, <1>1 DEF TypeOK
    <2>3. CASE e # f
      BY <2>1, <2>3, <1>1 DEF TypeOK
    <2> QED
      BY <2>2, <2>3
  <1>10. ASSUME NEW p \in Processes, NEW f \in Executions, NEW kind \in {"failed", "recovered"},
                trace' = [trace EXCEPT ![f] = Append(trace[f], Entry(p, kind, 0))],
                UNCHANGED <<pending, runner, emitted>>
         PROVE  Goal
    <2>1. CASE e = f
      <3>1. Orders(Append(trace[e], Entry(p, kind, 0)), pending[e], runner[e] # None, emitted[e])
        BY <1>1, <1>2, OrdersSaid
      <3> QED
        BY <2>1, <3>1, <1>10 DEF TypeOK
    <2>2. CASE e # f
      BY <2>2, <1>10, <1>1 DEF TypeOK
    <2> QED
      BY <2>1, <2>2
  <1>11. ASSUME NEW p \in Processes, NEW f \in Executions, MarkInterrupted(p, f) PROVE Goal
    BY <1>11, <1>10 DEF MarkInterrupted
  <1>12. ASSUME NEW p \in Processes, CloseInterrupted(p) PROVE Goal
    <2>1. between[p] \in Executions
      BY <1>12 DEF CloseInterrupted, TypeOK
    <2> QED
      BY <2>1, <1>12, <1>10 DEF CloseInterrupted
  <1>13. ASSUME NEW p \in Processes, NEW f \in Executions, Flush(p, f) PROVE Goal
    <2>1. /\ trace' = [trace EXCEPT ![f] = trace[f] \o pending[f]]
          /\ pending' = [pending EXCEPT ![f] = <<>>] /\ UNCHANGED <<runner, emitted>>
      BY <1>13 DEF Flush
    <2>2. CASE e = f
      BY <2>1, <2>2, <1>1 DEF TypeOK
    <2>3. CASE e # f
      BY <2>1, <2>3, <1>1 DEF TypeOK
    <2> QED
      BY <2>2, <2>3
  <1>14. ASSUME NEW p \in Processes, NEW f \in Executions, Emit(p, f) PROVE Goal
    <2> DEFINE x == Entry(p, "emitted", emitted[f] + 1)
               grown == Append(pending[f], x)
    <2>1. /\ runner[f] = p /\ emitted[f] < MaxEmitted /\ runner' = runner
          /\ emitted' = [emitted EXCEPT ![f] = emitted[f] + 1]
          /\ \/ pending' = [pending EXCEPT ![f] = grown] /\ trace' = trace
             \/ pending' = [pending EXCEPT ![f] = <<>>] /\ trace' = [trace EXCEPT ![f] = trace[f] \o grown]
      BY <1>14 DEF Emit
    <2>2. CASE e = f
      <3>1. x.kind = "emitted" /\ x.number = emitted[e] + 1
        BY <2>2 DEF Entry
      <3>2. x \in Event /\ emitted[e] + 1 \in Nat
        <4>1. emitted[e] + 1 \in 0 .. MaxEmitted
          BY <2>1, <2>2, StoreAssumption DEF TypeOK
        <4> QED
          BY <4>1, <2>2, PartTypes
      <3>3. (runner[e] # None) = TRUE
        BY <2>1, <2>2, StoreAssumption
      <3> HIDE DEF x
      <3>4. grown \in Seq(Event)
        BY <1>1, <2>2, <3>2, AppendProperties
      <3>5. Orders(trace[e], pending[e], TRUE, emitted[e])
        BY <1>1, <3>3
      <3>6. Orders(trace[e], grown, TRUE, emitted[e] + 1)
        BY <1>1, <2>2, <3>1, <3>2, <3>5, OrdersEmitted
      <3> HIDE DEF grown
      <3>7. Orders(trace[e] \o grown, <<>>, TRUE, emitted[e] + 1)
        BY <1>1, <3>2, <3>4, <3>6, OrdersFlushed
      <3>8. emitted'[e] = emitted[e] + 1 /\ (runner'[e] # None) = TRUE
        BY <2>1, <2>2, <3>3 DEF TypeOK
      <3>9. \/ pending'[e] = grown /\ trace'[e] = trace[e]
            \/ pending'[e] = <<>> /\ trace'[e] = trace[e] \o grown
        BY <2>1, <2>2 DEF TypeOK
      <3> QED
        BY <3>6, <3>7, <3>8, <3>9
    <2>3. CASE e # f
      <3> HIDE DEF grown, x
      <3>1. pending'[e] = pending[e] /\ trace'[e] = trace[e] /\ emitted'[e] = emitted[e] /\ runner' = runner
        BY <2>1, <2>3 DEF TypeOK
      <3> QED
        BY <3>1, <1>1
    <2> QED
      BY <2>2, <2>3
  <1>15. ASSUME NEW p \in Processes, InsertExecution(p) PROVE Goal
    <2>1. /\ between[p] \in Executions /\ status[between[p]] = "none"
          /\ runner' = [runner EXCEPT ![between[p]] = p] /\ UNCHANGED <<trace, pending, emitted>>
      BY <1>15 DEF InsertExecution, BeginsHold, TypeOK
    <2>2. CASE e = between[p]
      <3>1. emitted[e] = 0 /\ pending[e] = <<>>
        BY <2>1, <2>2 DEF OrderHolds, BuffersHold
      <3>2. Orders(trace[e], <<>>, TRUE, 0)
        <4>1. PICK w \in 0 .. 0 : InSequence(trace[e], w) /\ Continues(<<>>, w)
          BY <1>1, <3>1 DEF Orders
        <4>2. w = 0 /\ Len(<<>>) = 0
          OBVIOUS
        <4>3. w + Len(<<>>) = 0
          BY <4>2
        <4> QED
          BY <4>1, <4>3 DEF Orders
      <3>3. (runner'[e] # None) = TRUE
        BY <2>1, <2>2, StoreAssumption DEF TypeOK
      <3> QED
        BY <2>1, <3>1, <3>2, <3>3
    <2>3. CASE e # between[p]
      <3>1. runner'[e] = runner[e]
        BY <2>1, <2>3 DEF TypeOK
      <3> QED
        BY <2>1, <3>1, <1>1
    <2> QED
      BY <2>2, <2>3
  <1>16. ASSUME NEW p \in Processes, Crash(p) PROVE Goal
    <2>1. /\ trace' = trace /\ emitted' = emitted
          /\ runner[e] = p => (runner'[e] # None) = FALSE /\ pending'[e] = <<>>
          /\ runner[e] # p => runner'[e] = runner[e] /\ pending'[e] = pending[e]
      BY <1>16 DEF Crash, Forgets
    <2> QED
      BY <2>1, <1>1
  <1>17. ASSUME NEW p \in Processes, Close(p) PROVE Goal
    <2>1. /\ emitted' = emitted
          /\ trace'[e] = IF e \in registered /\ runner[e] = p THEN Flushed(e) ELSE trace[e]
          /\ runner[e] = p => (runner'[e] # None) = FALSE /\ pending'[e] = <<>>
          /\ runner[e] # p => runner'[e] = runner[e] /\ pending'[e] = pending[e]
      BY <1>17 DEF Close, Forgets
    <2> QED
      BY <2>1, <1>1
  <1> QED
    BY <1>3, <1>4, <1>5, <1>6, <1>8, <1>9, <1>11, <1>12, <1>13, <1>14, <1>15, <1>16, <1>17 DEF Next

LEMMA NextOrder ==
  TypeOK /\ BeginsHold /\ BuffersHold /\ OrderHolds /\ [Next]_vars => OrderHolds'
  <1> SUFFICES ASSUME TypeOK, BeginsHold, BuffersHold, OrderHolds, [Next]_vars PROVE OrderHolds'
    OBVIOUS
  <1>1. \A e \in Executions : Orders(trace'[e], pending'[e], runner'[e] # None, emitted'[e])
    BY OrderOfOne
  <1>2. ASSUME NEW e \in Executions, status'[e] = "none" PROVE emitted'[e] = 0
    <2>1. status[e] = "none" /\ runner[e] = None /\ emitted[e] = 0
      BY <1>2, StepsAreLegal DEF LegalStep, Terminal, BuffersHold, OrderHolds
    <2>2. ASSUME NEW p \in Processes, NEW f \in Executions, Emit(p, f) PROVE emitted'[e] = emitted[e]
      <3>1. runner[f] = p /\ p # None
        BY <2>2, StoreAssumption DEF Emit
      <3> QED
        BY <2>1, <2>2, <3>1 DEF Emit, TypeOK
    <2>3. CASE UNCHANGED vars \/ Expire
      BY <2>1, <2>3 DEF vars, memory, Expire
    <2>4. ASSUME NEW p \in Processes,
                 \/ RenewInstanceLease(p) \/ AcquireInstanceLease(p) \/ SelectInterrupted(p) \/ CloseInterrupted(p)
                 \/ InsertExecution(p) \/ CompareAndSwap(p) \/ DeleteInstance(p)
                 \/ ReadInstance(p) \/ DropCached(p) \/ Crash(p) \/ Close(p)
          PROVE  emitted' = emitted
      BY <2>4 DEF RenewInstanceLease, AcquireInstanceLease, SelectInterrupted, CloseInterrupted, InsertExecution,
                  CompareAndSwap, DeleteInstance, ReadInstance, DropCached, Crash, Close, Forgets, memory
    <2>5. ASSUME NEW p \in Processes, NEW f \in Executions,
                 \/ Flush(p, f) \/ CheckBegin(p, f) \/ FailExecution(p, f) \/ CommitAndFinish(p, f)
                 \/ CommitFails(p, f) \/ CommitConflicts(p, f) \/ MarkInterrupted(p, f)
          PROVE  emitted' = emitted
      BY <2>5 DEF Flush, CheckBegin, FailExecution, CommitAndFinish, CommitFails, CommitConflicts, MarkInterrupted
    <2> QED
      BY <2>1, <2>2, <2>3, <2>4, <2>5 DEF Next
  <1> QED
    BY <1>1, <1>2 DEF OrderHolds

LEMMA InitOrder == Init => OrderHolds
  <1> SUFFICES ASSUME Init, NEW e \in Executions
               PROVE  Orders(trace[e], pending[e], runner[e] # None, emitted[e]) /\ emitted[e] = 0
    BY DEF OrderHolds
  <1>1. trace[e] = <<>> /\ pending[e] = <<>> /\ emitted[e] = 0
    BY DEF Init
  <1>2. Emissions(<<>>) = {} /\ Continues(<<>>, 0)
    BY DEF Emissions, Continues
  <1>3. InSequence(<<>>, 0)
    BY <1>2 DEF InSequence
  <1>4. 0 \in 0 .. 0 /\ 0 + Len(<<>>) = 0
    OBVIOUS
  <1>5. Orders(<<>>, <<>>, runner[e] # None, 0)
    BY <1>2, <1>3, <1>4 DEF Orders
  <1> QED
    BY <1>1, <1>5

(* The emitted events of an execution reach its trace in the order in which *)
(* they were emitted and without gaps; what is missing is in the buffer of  *)
(* its writer, or was lost with the writer, at the end.                     *)
THEOREM EventsAreInOrder == Spec => []TraceInOrder
  <1>1. Init => TypeOK /\ BeginsHold /\ BuffersHold /\ OrderHolds
    BY InitType, InitBegins, InitBuffers, InitOrder
  <1>2. TypeOK /\ BeginsHold /\ BuffersHold /\ OrderHolds /\ [Next]_vars =>
          (TypeOK /\ BeginsHold /\ BuffersHold /\ OrderHolds)'
    BY NextType, NextBegins, NextBuffers, NextOrder
  <1>3. TypeOK /\ OrderHolds => TraceInOrder
    <2> SUFFICES ASSUME TypeOK, OrderHolds, NEW e \in Executions
                 PROVE  \E n \in 0 .. emitted[e] : /\ InSequence(trace[e] \o pending[e], n)
                                                   /\ runner[e] # None => n = emitted[e]
      BY DEF TraceInOrder
    <2>1. trace[e] \in Seq(Event) /\ pending[e] \in Seq(Event) /\ emitted[e] \in Nat
      BY OrdersKept
    <2>2. PICK w \in 0 .. emitted[e] :
                  /\ InSequence(trace[e], w) /\ Continues(pending[e], w)
                  /\ w + Len(pending[e]) <= emitted[e] /\ (runner[e] # None => w + Len(pending[e]) = emitted[e])
      BY DEF OrderHolds, Orders
    <2>3. Len(pending[e]) \in Nat /\ w \in Nat
      BY <2>1, LenProperties
    <2>4. InSequence(trace[e] \o pending[e], w + Len(pending[e]))
      BY <2>1, <2>2, <2>3, InSequenceConcat
    <2>5. w + Len(pending[e]) \in 0 .. emitted[e]
      BY <2>1, <2>2, <2>3
    <2> QED
      BY <2>2, <2>4, <2>5
  <1> QED
    BY <1>1, <1>2, <1>3, PTL DEF Spec
=============================================================================
