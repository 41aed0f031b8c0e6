------------------------ MODULE ModelSchedulerProofs ------------------------
EXTENDS ModelScheduler, FiniteSetTheorems, FunctionTheorems, SequenceTheorems, WellFoundedInduction, TLAPS

(* RemoveAt shortens a sequence by one and keeps the other elements, in    *)
(* their order.                                                            *)
LEMMA RemoveAtProperties ==
  ASSUME NEW S, NEW s \in Seq(S), NEW i \in 1..Len(s)
  PROVE  /\ RemoveAt(s, i) \in Seq(S)
         /\ Len(RemoveAt(s, i)) = Len(s) - 1
         /\ \A k \in 1..(Len(s) - 1) : RemoveAt(s, i)[k] = IF k < i THEN s[k] ELSE s[k + 1]
  <1> DEFINE front == SubSeq(s, 1, i - 1)
             back == SubSeq(s, i + 1, Len(s))
  <1>0. Len(s) \in Nat /\ i \in Int /\ \A k \in 1..Len(s) : s[k] \in S
    BY LenProperties, ElementOfSeq
  <1>1. front \in Seq(S) /\ Len(front) = i - 1 /\ \A k \in 1..(i - 1) : front[k] = s[k]
    <2>1. \A k \in 1..(i - 1) : s[k] \in S
      BY <1>0
    <2>2. /\ front \in Seq(S)
          /\ Len(front) = IF 1 <= i - 1 THEN (i - 1) - 1 + 1 ELSE 0
          /\ \A k \in 1..((i - 1) - 1 + 1) : front[k] = s[1 + k - 1]
      BY <1>0, <2>1, SubSeqProperties
    <2> QED
      BY <1>0, <2>2
  <1>2. back \in Seq(S) /\ Len(back) = Len(s) - i /\ \A k \in 1..(Len(s) - i) : back[k] = s[i + k]
    <2>1. \A k \in (i + 1)..Len(s) : s[k] \in S
      BY <1>0
    <2>2. /\ back \in Seq(S)
          /\ Len(back) = IF i + 1 <= Len(s) THEN Len(s) - (i + 1) + 1 ELSE 0
          /\ \A k \in 1..(Len(s) - (i + 1) + 1) : back[k] = s[(i + 1) + k - 1]
      BY <1>0, <2>1, SubSeqProperties
    <2> QED
      BY <1>0, <2>2
  <1>3. RemoveAt(s, i) = front \o back
    BY DEF RemoveAt
  <1>4. /\ front \o back \in Seq(S)
        /\ Len(front \o back) = Len(front) + Len(back)
        /\ \A k \in 1..(Len(front) + Len(back)) :
              (front \o back)[k] = IF k <= Len(front) THEN front[k] ELSE back[k - Len(front)]
    BY <1>1, <1>2, ConcatProperties
  <1> HIDE DEF front, back
  <1> QED
    BY <1>0, <1>1, <1>2, <1>3, <1>4

(* What the counters gain or lose when one request enters or leaves the    *)
(* set they count.                                                         *)
LEMMA CountUpdate ==
  ASSUME NEW A \in SUBSET Jobs, NEW j \in Jobs
  PROVE  /\ Cardinality(A) \in Nat
         /\ j \notin A => Cardinality(A \cup {j}) = Cardinality(A) + 1
         /\ j \in A => /\ Cardinality(A \ {j}) = Cardinality(A) - 1
                       /\ Cardinality(A) >= 1
  <1>1. IsFiniteSet(A)
    BY JobsAssumption, FS_Subset
  <1>2. Cardinality(A) \in Nat
    BY <1>1, FS_CardinalityType
  <1>3. j \notin A => Cardinality(A \cup {j}) = Cardinality(A) + 1
    BY <1>1, FS_AddElement
  <1>4. ASSUME j \in A
        PROVE  Cardinality(A \ {j}) = Cardinality(A) - 1 /\ Cardinality(A) >= 1
    <2>1. IsFiniteSet(A \ {j})
      BY <1>1, FS_Subset
    <2>2. Cardinality(A \ {j}) \in Nat
      BY <2>1, FS_CardinalityType
    <2>3. (A \ {j}) \cup {j} = A /\ j \notin A \ {j}
      BY <1>4
    <2>4. Cardinality(A) = Cardinality(A \ {j}) + 1
      BY <2>1, <2>3, FS_AddElement
    <2> QED
      BY <2>2, <2>4
  <1> QED
    BY <1>2, <1>3, <1>4

-----------------------------------------------------------------------------
(***************************************************************************)
(* The inductive invariant.  The counters are exact only if drain() starts *)
(* queued requests and only those, hence LanesHold: a lane holds exactly   *)
(* the queued requests of its workload, each once.  nextRotationIndex      *)
(* stays in range only if a lane that is removed is in the rotation, hence *)
(* KeysHold.                                                               *)
(***************************************************************************)
InLane(w, j) == \E i \in 1..Len(lanes[w]) : lanes[w][i] = j

LanesHold ==
  /\ \A w \in Workloads : \A i \in 1..Len(lanes[w]) :
        status[lanes[w][i]] = "queued" /\ workloadOf[lanes[w][i]] = w
  /\ \A w \in Workloads : \A i, k \in 1..Len(lanes[w]) : lanes[w][i] = lanes[w][k] => i = k
  /\ \A j \in Jobs : status[j] = "queued" => InLane(workloadOf[j], j)

KeysHold ==
  /\ \A w \in laneKeys : \E i \in 1..Len(rotation) : rotation[i] = w
  /\ \A j \in Jobs : status[j] \in {"queued", "running", "settled"} => workloadOf[j] \in laneKeys

CapsHold ==
  /\ active <= globalConcurrency
  /\ \A p \in Providers : activeByProvider[p] <= providerConcurrency[p]

IInv == TypeOK /\ CountersExact /\ LanesHold /\ KeysHold /\ CapsHold

FlightOf(p) == {j \in InFlight : providerOf[j] = p}
FlightIn(w) == {j \in InFlight : workloadOf[j] = w}

-----------------------------------------------------------------------------
(* The scheduler starts with nothing queued and nothing in flight.         *)
LEMMA InitHolds == Init => IInv
  <1> SUFFICES ASSUME Init PROVE IInv
    OBVIOUS
  <1> USE DEF Init
  <1>1. InFlight = {} /\ Waiting = {}
    BY DEF InFlight, Waiting
  <1>2. Cardinality({}) = 0
    BY FS_EmptySet
  <1>3. TypeOK
    <2>1. <<>> \in Seq(Jobs) /\ <<>> \in Seq(Workloads) /\ Len(<<>>) = 0
      BY EmptySeq
    <2>2. lanes \in [Workloads -> Seq(Jobs)] /\ rotation \in Seq(Workloads) /\ 0 \in 0..Len(rotation)
      BY <2>1
    <2>3. 0 \in 0..maxQueuedRequests
      BY OptionsAssumption
    <2> QED
      BY <2>2, <2>3 DEF TypeOK, Statuses
  <1>4. CountersExact
    <2>1. \A p \in Providers : FlightOf(p) = {}
      BY <1>1 DEF FlightOf
    <2>2. \A w \in Workloads : FlightIn(w) = {}
      BY <1>1 DEF FlightIn
    <2> QED
      BY <1>1, <1>2, <2>1, <2>2 DEF CountersExact, FlightOf, FlightIn
  <1>5. LanesHold
    BY EmptySeq DEF LanesHold
  <1>6. KeysHold
    BY DEF KeysHold
  <1>7. CapsHold
    BY OptionsAssumption DEF CapsHold
  <1> QED
    BY <1>3, <1>4, <1>5, <1>6, <1>7 DEF IInv

(* Refusing, settling and leaving drain() move no request between the      *)
(* queue and the provider.                                                 *)
LEMMA QuietSteps ==
  ASSUME IInv, UNCHANGED <<lanes, laneKeys, rotation, nextRotationIndex, counters>>,
         draining' \in BOOLEAN,
         \/ \E j \in Jobs : Refuse(j) \/ Settle(j)
         \/ UNCHANGED status
  PROVE  IInv'
  <1> USE DEF IInv
  <1>1. /\ status' \in [Jobs -> Statuses]
        /\ \A j \in Jobs : status'[j] = "queued" <=> status[j] = "queued"
        /\ \A j \in Jobs : status'[j] \in {"running", "settled"} <=> status[j] \in {"running", "settled"}
    BY DEF TypeOK, Refuse, Settle, SetStatus, Submittable, Statuses
  <1>2. InFlight' = InFlight /\ Waiting' = Waiting
    BY <1>1 DEF InFlight, Waiting
  <1>3. TypeOK'
    BY <1>1 DEF TypeOK, counters
  <1>4. CountersExact'
    BY <1>2 DEF CountersExact, counters
  <1>5. LanesHold'
    <2>1. \A w \in Workloads : \A i \in 1..Len(lanes[w]) : lanes[w][i] \in Jobs
      BY ElementOfSeq DEF TypeOK
    <2> QED
      BY <1>1, <2>1 DEF LanesHold, InLane
  <1>6. KeysHold'
    BY <1>1 DEF KeysHold
  <1>7. CapsHold'
    BY DEF CapsHold, counters
  <1> QED
    BY <1>3, <1>4, <1>5, <1>6, <1>7

(* schedule() puts a request that was neither queued nor in flight at the  *)
(* end of its lane.                                                        *)
LEMMA ScheduleStep ==
  ASSUME IInv, NEW j \in Jobs, Schedule(j)
  PROVE  IInv'
  <1> DEFINE w == workloadOf[j]
  <1> USE DEF IInv
  <1>1. w \in Workloads /\ lanes[w] \in Seq(Jobs) /\ rotation \in Seq(Workloads)
    BY JobsAssumption DEF TypeOK
  <1>2. /\ Append(lanes[w], j) \in Seq(Jobs)
        /\ Len(Append(lanes[w], j)) = Len(lanes[w]) + 1
        /\ \A i \in 1..Len(lanes[w]) : Append(lanes[w], j)[i] = lanes[w][i]
        /\ Append(lanes[w], j)[Len(lanes[w]) + 1] = j
        /\ Len(lanes[w]) \in Nat
    BY <1>1, AppendProperties, LenProperties
  <1>3. /\ Append(rotation, w) \in Seq(Workloads)
        /\ Len(Append(rotation, w)) = Len(rotation) + 1
        /\ \A i \in 1..Len(rotation) : Append(rotation, w)[i] = rotation[i]
        /\ Append(rotation, w)[Len(rotation) + 1] = w
        /\ Len(rotation) \in Nat
    BY <1>1, AppendProperties, LenProperties
  <1>4. status[j] \notin {"queued", "running", "settled"}
    BY DEF Schedule, Submittable
  <1>5. /\ status' = [status EXCEPT ![j] = "queued"]
        /\ status' \in [Jobs -> Statuses]
    BY DEF Schedule, SetStatus, TypeOK, Statuses
  <1>6. lanes' = [lanes EXCEPT ![w] = Append(@, j)] /\ lanes' \in [Workloads -> Seq(Jobs)]
    BY <1>1, <1>2 DEF Schedule, TypeOK
  <1>7. \A v \in Workloads : lanes'[v] = IF v = w THEN Append(lanes[w], j) ELSE lanes[v]
    BY <1>1, <1>6 DEF TypeOK
  <1>8. \A v \in Workloads : \A i \in 1..Len(lanes[v]) : lanes[v][i] \in Jobs /\ lanes[v][i] # j
    BY <1>4, ElementOfSeq DEF LanesHold, TypeOK
  <1>20. /\ lanes'[w] = Append(lanes[w], j)
         /\ Len(lanes'[w]) = Len(lanes[w]) + 1
         /\ \A i \in 1..Len(lanes'[w]) :
               \/ i \in 1..Len(lanes[w]) /\ lanes'[w][i] = lanes[w][i]
               \/ i = Len(lanes[w]) + 1 /\ lanes'[w][i] = j
    <2>1. lanes'[w] = Append(lanes[w], j)
      BY <1>1, <1>7
    <2>2. ASSUME NEW i \in 1..(Len(lanes[w]) + 1)
          PROVE  i \in 1..Len(lanes[w]) \/ i = Len(lanes[w]) + 1
      BY <1>2
    <2> QED
      BY <2>1, <2>2, <1>2
  <1>9. TypeOK'
    <2>1. laneKeys' \in SUBSET Workloads /\ rotation' \in Seq(Workloads)
      BY <1>1, <1>3 DEF Schedule, TypeOK
    <2>2. nextRotationIndex' \in 0..Len(rotation')
      BY <1>1, <1>3 DEF Schedule, TypeOK
    <2>3. queued' \in 0..maxQueuedRequests
      BY OptionsAssumption DEF Schedule, TypeOK
    <2> QED
      BY <1>5, <1>6, <2>1, <2>2, <2>3 DEF Schedule, TypeOK
  <1>10. CountersExact'
    <2>1. InFlight' = InFlight
      BY <1>4, <1>5 DEF InFlight, TypeOK
    <2>2. Waiting' = Waiting \cup {j} /\ j \notin Waiting /\ Waiting \in SUBSET Jobs
      BY <1>4, <1>5 DEF Waiting, TypeOK
    <2>3. Cardinality(Waiting') = Cardinality(Waiting) + 1
      BY <2>2, CountUpdate
    <2> QED
      BY <2>1, <2>3 DEF Schedule, CountersExact
  <1>11. LanesHold'
    <2>1. ASSUME NEW v \in Workloads, NEW i \in 1..Len(lanes'[v])
          PROVE  status'[lanes'[v][i]] = "queued" /\ workloadOf[lanes'[v][i]] = v
      <3>1. CASE v = w
        <4>1. lanes[w][i] \in Jobs => status'[lanes[w][i]] = IF lanes[w][i] = j THEN "queued" ELSE status[lanes[w][i]]
          BY <1>5 DEF TypeOK
        <4>2. status'[j] = "queued"
          BY <1>5 DEF TypeOK
        <4>3. CASE i \in 1..Len(lanes[w]) /\ lanes'[w][i] = lanes[w][i]
          BY <3>1, <4>1, <4>3, <1>1, <1>8 DEF LanesHold
        <4>4. CASE lanes'[w][i] = j
          BY <3>1, <4>2, <4>4
        <4> QED
          BY <3>1, <4>3, <4>4, <1>20
      <3>2. CASE v # w
        BY <3>2, <1>5, <1>7, <1>8 DEF LanesHold, TypeOK
      <3> QED
        BY <3>1, <3>2
    <2>2. ASSUME NEW v \in Workloads, NEW i \in 1..Len(lanes'[v]), NEW k \in 1..Len(lanes'[v]),
                 lanes'[v][i] = lanes'[v][k]
          PROVE  i = k
      <3>1. CASE v = w
        <4>1. \A m \in 1..Len(lanes[w]) : lanes[w][m] # j
          BY <1>1, <1>8
        <4>2. \A m, n \in 1..Len(lanes[w]) : lanes[w][m] = lanes[w][n] => m = n
          BY <1>1 DEF LanesHold
        <4> QED
          BY <3>1, <2>2, <4>1, <4>2, <1>20
      <3>2. CASE v # w
        BY <3>2, <2>2, <1>7 DEF LanesHold
      <3> QED
        BY <3>1, <3>2
    <2>3. ASSUME NEW k \in Jobs, status'[k] = "queued"
          PROVE  InLane(workloadOf[k], k)'
      <3>1. CASE k = j
        <4>1. Len(lanes[w]) + 1 \in 1..Len(lanes'[w]) /\ lanes'[w][Len(lanes[w]) + 1] = j
          BY <1>2, <1>20
        <4> QED
          BY <3>1, <4>1 DEF InLane
      <3>2. CASE k # j
        <4>1. InLane(workloadOf[k], k) /\ workloadOf[k] \in Workloads
          BY <3>2, <2>3, <1>5, JobsAssumption DEF LanesHold, TypeOK
        <4>2. CASE workloadOf[k] = w
          <5>1. PICK i \in 1..Len(lanes[w]) : lanes[w][i] = k
            BY <4>1, <4>2 DEF InLane
          <5>2. i \in 1..Len(lanes'[w]) /\ lanes'[w][i] = k
            BY <5>1, <1>2, <1>20
          <5> QED
            BY <5>2, <4>2 DEF InLane
        <4>3. CASE workloadOf[k] # w
          BY <4>1, <4>3, <1>7 DEF InLane
        <4> QED
          BY <4>2, <4>3
      <3> QED
        BY <3>1, <3>2
    <2> QED
      BY <2>1, <2>2, <2>3 DEF LanesHold
  <1>12. KeysHold'
    <2>1. \A v \in laneKeys' : \E i \in 1..Len(rotation') : rotation'[i] = v
      <3>1. CASE w \in laneKeys
        BY <3>1 DEF Schedule, KeysHold
      <3>2. CASE w \notin laneKeys
        BY <3>2, <1>3 DEF Schedule, KeysHold
      <3> QED
        BY <3>1, <3>2
    <2>2. \A k \in Jobs : status'[k] \in {"queued", "running", "settled"} => workloadOf[k] \in laneKeys'
      BY <1>5 DEF Schedule, KeysHold, TypeOK
    <2> QED
      BY <2>1, <2>2 DEF KeysHold
  <1>13. CapsHold'
    BY DEF Schedule, CapsHold
  <1> QED
    BY <1>9, <1>10, <1>11, <1>12, <1>13

(* A queued request that leaves its lane, for the provider or for good:    *)
(* rest is the lane without the request that stood at position i.          *)
LEMMA LeaveLane ==
  ASSUME IInv, NEW j \in Jobs, NEW i \in 1..Len(lanes[workloadOf[j]]), NEW rest \in Seq(Jobs),
         lanes[workloadOf[j]][i] = j,
         Len(rest) = Len(lanes[workloadOf[j]]) - 1,
         \A k \in 1..Len(rest) :
            rest[k] = IF k < i THEN lanes[workloadOf[j]][k] ELSE lanes[workloadOf[j]][k + 1],
         NEW s \in Statuses \ {"queued"},
         lanes' = [lanes EXCEPT ![workloadOf[j]] = rest],
         status' = [status EXCEPT ![j] = s]
  PROVE  /\ lanes' \in [Workloads -> Seq(Jobs)]
         /\ status' \in [Jobs -> Statuses]
         /\ LanesHold'
         /\ queued - 1 \in 0..maxQueuedRequests
         /\ queued - 1 = Cardinality(Waiting')
  <1> DEFINE w == workloadOf[j]
  <1> USE DEF IInv
  <1>1. w \in Workloads /\ lanes[w] \in Seq(Jobs) /\ Len(lanes[w]) \in Nat /\ Len(rest) \in Nat
    BY JobsAssumption, LenProperties DEF TypeOK
  <1>2. lanes' \in [Workloads -> Seq(Jobs)] /\ \A v \in Workloads : lanes'[v] = IF v = w THEN rest ELSE lanes[v]
    BY <1>1 DEF TypeOK
  <1>3. status' \in [Jobs -> Statuses] /\ \A k \in Jobs : status'[k] = IF k = j THEN s ELSE status[k]
    BY DEF TypeOK
  <1>4. status[j] = "queued"
    BY <1>1 DEF LanesHold
  <1>5. \A v \in Workloads : \A m \in 1..Len(lanes[v]) : lanes[v][m] \in Jobs
    BY ElementOfSeq DEF TypeOK
  <1>6. \A m \in 1..Len(rest) : \E n \in 1..Len(lanes[w]) :
           n # i /\ rest[m] = lanes[w][n] /\ n = IF m < i THEN m ELSE m + 1
    <2> TAKE m \in 1..Len(rest)
    <2>1. CASE m < i
      BY <1>1, <2>1
    <2>2. CASE ~(m < i)
      <3>1. m + 1 \in 1..Len(lanes[w]) /\ m + 1 # i /\ rest[m] = lanes[w][m + 1]
        BY <1>1, <2>2
      <3> QED
        BY <2>2, <3>1
    <2> QED
      BY <2>1, <2>2
  <1>7. \A m, n \in 1..Len(lanes[w]) : lanes[w][m] = lanes[w][n] => m = n
    BY <1>1 DEF LanesHold
  <1>8. LanesHold'
    <2>1. ASSUME NEW v \in Workloads, NEW m \in 1..Len(lanes'[v])
          PROVE  status'[lanes'[v][m]] = "queued" /\ workloadOf[lanes'[v][m]] = v
      <3>1. CASE v = w
        <4>1. m \in 1..Len(rest) /\ lanes'[v][m] = rest[m]
          BY <3>1, <1>1, <1>2
        <4>2. PICK n \in 1..Len(lanes[w]) : n # i /\ rest[m] = lanes[w][n]
          BY <4>1, <1>6
        <4>3. lanes[w][n] # j
          BY <4>2, <1>7
        <4>4. status[lanes[w][n]] = "queued" /\ workloadOf[lanes[w][n]] = w /\ lanes[w][n] \in Jobs
          BY <1>1, <1>5 DEF LanesHold
        <4> QED
          BY <3>1, <4>1, <4>2, <4>3, <4>4, <1>3
      <3>2. CASE v # w
        <4>1. lanes'[v] = lanes[v]
          BY <3>2, <1>2
        <4>2. status[lanes[v][m]] = "queued" /\ workloadOf[lanes[v][m]] = v /\ lanes[v][m] \in Jobs
          BY <4>1, <1>5 DEF LanesHold
        <4> QED
          BY <3>2, <4>1, <4>2, <1>3
      <3> QED
        BY <3>1, <3>2
    <2>2. ASSUME NEW v \in Workloads, NEW m \in 1..Len(lanes'[v]), NEW n \in 1..Len(lanes'[v]),
                 lanes'[v][m] = lanes'[v][n]
          PROVE  m = n
      <3>1. CASE v = w
        <4>1. m \in 1..Len(rest) /\ n \in 1..Len(rest) /\ rest[m] = rest[n]
          BY <3>1, <2>2, <1>1, <1>2
        <4>2. PICK a \in 1..Len(lanes[w]) : rest[m] = lanes[w][a] /\ a = IF m < i THEN m ELSE m + 1
          BY <4>1, <1>6
        <4>3. PICK b \in 1..Len(lanes[w]) : rest[n] = lanes[w][b] /\ b = IF n < i THEN n ELSE n + 1
          BY <4>1, <1>6
        <4>4. a = b
          BY <4>1, <4>2, <4>3, <1>7
        <4> QED
          BY <4>1, <4>2, <4>3, <4>4, <1>1
      <3>2. CASE v # w
        BY <3>2, <2>2, <1>2 DEF LanesHold
      <3> QED
        BY <3>1, <3>2
    <2>3. ASSUME NEW k \in Jobs, status'[k] = "queued"
          PROVE  InLane(workloadOf[k], k)'
      <3>1. k # j /\ status[k] = "queued"
        BY <2>3, <1>3
      <3>2. InLane(workloadOf[k], k) /\ workloadOf[k] \in Workloads
        BY <3>1, JobsAssumption DEF LanesHold
      <3>3. CASE workloadOf[k] = w
        <4>1. PICK n \in 1..Len(lanes[w]) : lanes[w][n] = k
          BY <3>2, <3>3 DEF InLane
        <4>2. n # i
          BY <4>1, <3>1
        <4>3. CASE n < i
          <5>1. n \in 1..Len(rest) /\ rest[n] = k
            BY <4>1, <4>3, <1>1
          <5> QED
            BY <5>1, <3>3, <1>1, <1>2 DEF InLane
        <4>4. CASE n > i
          <5>1. n - 1 \in 1..Len(rest) /\ ~(n - 1 < i) /\ (n - 1) + 1 = n
            BY <4>4, <1>1
          <5>2. rest[n - 1] = k
            BY <4>1, <5>1
          <5> QED
            BY <5>1, <5>2, <3>3, <1>1, <1>2 DEF InLane
        <4> QED
          BY <4>2, <4>3, <4>4
      <3>4. CASE workloadOf[k] # w
        BY <3>2, <3>4, <1>2 DEF InLane
      <3> QED
        BY <3>3, <3>4
    <2> QED
      BY <2>1, <2>2, <2>3 DEF LanesHold
  <1>9. Waiting' = Waiting \ {j} /\ j \in Waiting /\ Waiting \in SUBSET Jobs
    BY <1>3, <1>4 DEF Waiting
  <1>10. queued - 1 = Cardinality(Waiting') /\ queued >= 1
    BY <1>9, CountUpdate DEF CountersExact
  <1>11. queued - 1 \in 0..maxQueuedRequests
    BY <1>10, OptionsAssumption DEF TypeOK
  <1> QED
    BY <1>2, <1>3, <1>8, <1>10, <1>11

(* removeLane takes one lane out of the rotation, keeps the others, and    *)
(* keeps nextRotationIndex within the rotation.                            *)
LEMMA RemoveLaneHolds ==
  ASSUME TypeOK, KeysHold, NEW w \in laneKeys, RemoveLane(w)
  PROVE  /\ laneKeys' = laneKeys \ {w}
         /\ rotation' \in Seq(Workloads)
         /\ nextRotationIndex' \in 0..Len(rotation')
         /\ \A v \in laneKeys' : \E i \in 1..Len(rotation') : rotation'[i] = v
  <1> DEFINE index == Position(rotation, w)
  <1>1. index \in 1..Len(rotation) /\ rotation[index] = w
    BY DEF KeysHold, Position
  <1>2. rotation \in Seq(Workloads) /\ Len(rotation) \in Nat /\ nextRotationIndex \in 0..Len(rotation)
    BY LenProperties DEF TypeOK
  <1>3. laneKeys' = laneKeys \ {w} /\ rotation' = RemoveAt(rotation, index)
    BY DEF RemoveLane
  <1> HIDE DEF index
  <1>4. /\ rotation' \in Seq(Workloads)
        /\ Len(rotation') = Len(rotation) - 1
        /\ \A k \in 1..(Len(rotation) - 1) : rotation'[k] = IF k < index THEN rotation[k] ELSE rotation[k + 1]
    BY <1>1, <1>2, <1>3, RemoveAtProperties
  <1>5. nextRotationIndex' \in 0..Len(rotation')
    <2>1. nextRotationIndex' = IF Len(rotation) = 1 THEN 0
                               ELSE IF index <= nextRotationIndex THEN nextRotationIndex - 1 ELSE nextRotationIndex
      BY DEF RemoveLane, index
    <2> QED
      BY <1>1, <1>2, <1>4, <2>1
  <1>6. ASSUME NEW v \in laneKeys'
        PROVE  \E i \in 1..Len(rotation') : rotation'[i] = v
    <2>1. PICK k \in 1..Len(rotation) : rotation[k] = v
      BY <1>3 DEF KeysHold
    <2>2. k # index
      BY <2>1, <1>1, <1>3
    <2>3. CASE k < index
      <3>1. k \in 1..Len(rotation') /\ rotation'[k] = v
        BY <2>1, <2>3, <1>1, <1>2, <1>4
      <3> QED
        BY <3>1
    <2>4. CASE k > index
      <3>1. k - 1 \in 1..Len(rotation') /\ ~(k - 1 < index) /\ (k - 1) + 1 = k
        BY <2>4, <1>1, <1>2, <1>4
      <3>2. rotation'[k - 1] = v
        BY <3>1, <2>1, <1>4
      <3> QED
        BY <3>1, <3>2
    <2> QED
      BY <2>2, <2>3, <2>4, <1>1
  <1> QED
    BY <1>3, <1>4, <1>5, <1>6

(* drain() counts the request it starts, and finally() the request that    *)
(* ended, once: globally, for its provider and for its workload.           *)
LEMMA FlightGrows ==
  ASSUME TypeOK, CountersExact, NEW j \in Jobs, j \notin InFlight,
         status' = [status EXCEPT ![j] = "running"],
         active' = active + 1,
         activeByProvider' = [activeByProvider EXCEPT ![providerOf[j]] = @ + 1],
         activeByWorkload' = [activeByWorkload EXCEPT ![workloadOf[j]] = @ + 1],
         queued' = Cardinality(Waiting')
  PROVE  CountersExact'
  <1>1. InFlight' = InFlight \cup {j} /\ InFlight \in SUBSET Jobs
    BY DEF InFlight, TypeOK
  <1>2. active' = Cardinality(InFlight')
    BY <1>1, CountUpdate DEF CountersExact
  <1>3. ASSUME NEW p \in Providers
        PROVE  activeByProvider'[p] = Cardinality(FlightOf(p)')
    <2>1. FlightOf(p) \in SUBSET Jobs /\ activeByProvider[p] = Cardinality(FlightOf(p)) /\ j \notin FlightOf(p)
      BY <1>1 DEF FlightOf, CountersExact
    <2>2. CASE providerOf[j] = p
      <3>1. FlightOf(p)' = FlightOf(p) \cup {j}
        BY <1>1, <2>2 DEF FlightOf
      <3>2. activeByProvider'[p] = activeByProvider[p] + 1
        BY <2>2 DEF TypeOK
      <3> QED
        BY <2>1, <3>1, <3>2, CountUpdate
    <2>3. CASE providerOf[j] # p
      <3>1. FlightOf(p)' = FlightOf(p)
        BY <1>1, <2>3 DEF FlightOf
      <3>2. activeByProvider'[p] = activeByProvider[p]
        BY <2>3 DEF TypeOK
      <3> QED
        BY <2>1, <3>1, <3>2
    <2> QED
      BY <2>2, <2>3
  <1>4. ASSUME NEW w \in Workloads
        PROVE  activeByWorkload'[w] = Cardinality(FlightIn(w)')
    <2>1. FlightIn(w) \in SUBSET Jobs /\ activeByWorkload[w] = Cardinality(FlightIn(w)) /\ j \notin FlightIn(w)
      BY <1>1 DEF FlightIn, CountersExact
    <2>2. CASE workloadOf[j] = w
      <3>1. FlightIn(w)' = FlightIn(w) \cup {j}
        BY <1>1, <2>2 DEF FlightIn
      <3>2. activeByWorkload'[w] = activeByWorkload[w] + 1
        BY <2>2 DEF TypeOK
      <3> QED
        BY <2>1, <3>1, <3>2, CountUpdate
    <2>3. CASE workloadOf[j] # w
      <3>1. FlightIn(w)' = FlightIn(w)
        BY <1>1, <2>3 DEF FlightIn
      <3>2. activeByWorkload'[w] = activeByWorkload[w]
        BY <2>3 DEF TypeOK
      <3> QED
        BY <2>1, <3>1, <3>2
    <2> QED
      BY <2>2, <2>3
  <1> QED
    BY <1>2, <1>3, <1>4 DEF CountersExact, FlightOf, FlightIn

LEMMA FlightShrinks ==
  ASSUME TypeOK, CountersExact, NEW j \in InFlight,
         status' = [status EXCEPT ![j] = "done"],
         active' = active - 1,
         activeByProvider' = [activeByProvider EXCEPT ![providerOf[j]] = @ - 1],
         activeByWorkload' = [activeByWorkload EXCEPT ![workloadOf[j]] = @ - 1],
         queued' = queued
  PROVE  /\ CountersExact'
         /\ active' \in Nat
         /\ activeByProvider' \in [Providers -> Nat]
         /\ activeByWorkload' \in [Workloads -> Nat]
  <1>1. InFlight' = InFlight \ {j} /\ InFlight \in SUBSET Jobs /\ j \in Jobs
    BY DEF InFlight, TypeOK
  <1>2. active' = Cardinality(InFlight') /\ active' \in Nat
    <2>1. active - 1 = Cardinality(InFlight \ {j}) /\ active >= 1
      BY <1>1, CountUpdate DEF CountersExact
    <2> QED
      BY <1>1, <2>1 DEF TypeOK
  <1>3. ASSUME NEW p \in Providers
        PROVE  activeByProvider'[p] = Cardinality(FlightOf(p)') /\ activeByProvider'[p] \in Nat
    <2>1. /\ FlightOf(p) \in SUBSET Jobs
          /\ activeByProvider[p] = Cardinality(FlightOf(p))
          /\ activeByProvider[p] \in Nat
      BY <1>1 DEF FlightOf, CountersExact, TypeOK
    <2>2. CASE providerOf[j] = p
      <3>1. FlightOf(p)' = FlightOf(p) \ {j} /\ j \in FlightOf(p)
        BY <1>1, <2>2 DEF FlightOf
      <3>2. activeByProvider'[p] = activeByProvider[p] - 1
        BY <2>2 DEF TypeOK
      <3>3. Cardinality(FlightOf(p) \ {j}) = Cardinality(FlightOf(p)) - 1 /\ Cardinality(FlightOf(p)) >= 1
        BY <1>1, <2>1, <3>1, CountUpdate
      <3> QED
        BY <2>1, <3>1, <3>2, <3>3
    <2>3. CASE providerOf[j] # p
      <3>1. FlightOf(p)' = FlightOf(p)
        BY <1>1, <2>3 DEF FlightOf
      <3>2. activeByProvider'[p] = activeByProvider[p]
        BY <2>3 DEF TypeOK
      <3> QED
        BY <2>1, <3>1, <3>2
    <2> QED
      BY <2>2, <2>3
  <1>4. ASSUME NEW w \in Workloads
        PROVE  activeByWorkload'[w] = Cardinality(FlightIn(w)') /\ activeByWorkload'[w] \in Nat
    <2>1. /\ FlightIn(w) \in SUBSET Jobs
          /\ activeByWorkload[w] = Cardinality(FlightIn(w))
          /\ activeByWorkload[w] \in Nat
      BY <1>1 DEF FlightIn, CountersExact, TypeOK
    <2>2. CASE workloadOf[j] = w
      <3>1. FlightIn(w)' = FlightIn(w) \ {j} /\ j \in FlightIn(w)
        BY <1>1, <2>2 DEF FlightIn
      <3>2. activeByWorkload'[w] = activeByWorkload[w] - 1
        BY <2>2 DEF TypeOK
      <3>3. Cardinality(FlightIn(w) \ {j}) = Cardinality(FlightIn(w)) - 1 /\ Cardinality(FlightIn(w)) >= 1
        BY <1>1, <2>1, <3>1, CountUpdate
      <3> QED
        BY <2>1, <3>1, <3>2, <3>3
    <2>3. CASE workloadOf[j] # w
      <3>1. FlightIn(w)' = FlightIn(w)
        BY <1>1, <2>3 DEF FlightIn
      <3>2. activeByWorkload'[w] = activeByWorkload[w]
        BY <2>3 DEF TypeOK
      <3> QED
        BY <2>1, <3>1, <3>2
    <2> QED
      BY <2>2, <2>3
  <1>5. Waiting' = Waiting
    BY DEF Waiting, InFlight, TypeOK
  <1>6. activeByProvider' \in [Providers -> Nat] /\ activeByWorkload' \in [Workloads -> Nat]
    <2>1. DOMAIN activeByProvider' = Providers /\ activeByProvider' = [p \in Providers |-> activeByProvider'[p]]
      BY DEF TypeOK
    <2>2. DOMAIN activeByWorkload' = Workloads /\ activeByWorkload' = [w \in Workloads |-> activeByWorkload'[w]]
      BY DEF TypeOK
    <2> QED
      BY <1>3, <1>4, <2>1, <2>2
  <1> QED
    BY <1>2, <1>3, <1>4, <1>5, <1>6 DEF CountersExact, FlightOf, FlightIn

-----------------------------------------------------------------------------
(* takeNext() looks only at lanes of the rotation.                         *)
LEMMA RotationIndexInRange ==
  ASSUME TypeOK, NEW offset \in 0..(Len(rotation) - 1)
  PROVE  /\ RotationIndex(offset) \in 0..(Len(rotation) - 1)
         /\ LaneAt(offset) \in Workloads
         /\ RotationIndex(offset) + 1 \in 0..Len(rotation)
  <1>1. rotation \in Seq(Workloads) /\ Len(rotation) \in Nat
    BY LenProperties DEF TypeOK
  <1>2. Len(rotation) > 0
    BY <1>1
  <1>3. \A a \in Int : a % Len(rotation) \in 0..(Len(rotation) - 1)
    BY <1>1, <1>2
  <1>4. nextRotationIndex \in Int /\ offset \in Int
    BY <1>1 DEF TypeOK
  <1>5. (nextRotationIndex % Len(rotation)) + offset \in Int
    BY <1>3, <1>4, <1>1
  <1>6. RotationIndex(offset) \in 0..(Len(rotation) - 1)
    BY <1>3, <1>5 DEF RotationIndex
  <1>7. RotationIndex(offset) + 1 \in 1..Len(rotation)
    BY <1>1, <1>6
  <1>8. LaneAt(offset) \in Workloads
    BY <1>1, <1>7, ElementOfSeq DEF LaneAt
  <1> QED
    BY <1>1, <1>6, <1>7, <1>8

(* drain() starts the head of a lane: it was queued, its provider has room *)
(* and so has the process.                                                 *)
LEMMA StartStep ==
  ASSUME IInv, NEW offset \in 0..(Len(rotation) - 1), StartNext(offset)
  PROVE  IInv'
  <1> DEFINE w == LaneAt(offset)
             j == Head(lanes[w])
             p == providerOf[j]
  <1> USE DEF IInv
  <1>1. w \in Workloads /\ RotationIndex(offset) + 1 \in 0..Len(rotation)
    BY RotationIndexInRange
  <1>2. lanes[w] \in Seq(Jobs) /\ lanes[w] # <<>> /\ activeByProvider[p] < providerConcurrency[p]
    BY <1>1 DEF StartNext, Takes, Startable, TypeOK
  <1>3. /\ j = lanes[w][1] /\ j \in Jobs /\ 1 \in 1..Len(lanes[w])
        /\ Tail(lanes[w]) \in Seq(Jobs)
        /\ Len(Tail(lanes[w])) = Len(lanes[w]) - 1
        /\ \A k \in 1..Len(Tail(lanes[w])) : Tail(lanes[w])[k] = lanes[w][k + 1]
    <2>1. Len(lanes[w]) \in Nat /\ Len(lanes[w]) > 0
      BY <1>2, LenProperties, EmptySeq
    <2>2. /\ Head(lanes[w]) \in Jobs
          /\ Tail(lanes[w]) \in Seq(Jobs)
          /\ Len(Tail(lanes[w])) = Len(lanes[w]) - 1
          /\ \A k \in 1..Len(Tail(lanes[w])) : Tail(lanes[w])[k] = lanes[w][k + 1]
      BY <1>2, HeadTailProperties
    <2>3. Head(lanes[w]) = lanes[w][1]
      BY <1>2
    <2> QED
      BY <2>1, <2>2, <2>3
  <1>4. status[j] = "queued" /\ workloadOf[j] = w
    BY <1>1, <1>3 DEF LanesHold
  <1>5. /\ lanes' = [lanes EXCEPT ![workloadOf[j]] = Tail(lanes[w])]
        /\ status' = [status EXCEPT ![j] = "running"]
    BY <1>4 DEF StartNext, SetStatus
  <1>6. /\ active' = active + 1 /\ active < globalConcurrency
        /\ activeByProvider' = [activeByProvider EXCEPT ![p] = @ + 1]
        /\ activeByWorkload' = [activeByWorkload EXCEPT ![workloadOf[j]] = @ + 1]
        /\ queued' = queued - 1 /\ nextRotationIndex' = RotationIndex(offset) + 1
        /\ UNCHANGED <<laneKeys, rotation, draining>>
    BY <1>4 DEF StartNext
  <1>7. p \in Providers
    BY <1>3, JobsAssumption
  <1> HIDE DEF w, j, p
  <1>8. /\ lanes' \in [Workloads -> Seq(Jobs)]
        /\ status' \in [Jobs -> Statuses]
        /\ LanesHold'
        /\ queued - 1 \in 0..maxQueuedRequests
        /\ queued - 1 = Cardinality(Waiting')
    <2>1. "running" \in Statuses \ {"queued"}
      BY DEF Statuses
    <2>2. lanes[workloadOf[j]] = lanes[w]
      BY <1>4
    <2>3. /\ 1 \in 1..Len(lanes[workloadOf[j]])
          /\ lanes[workloadOf[j]][1] = j
          /\ Len(Tail(lanes[w])) = Len(lanes[workloadOf[j]]) - 1
      BY <1>3, <2>2
    <2>4. \A k \in 1..Len(Tail(lanes[w])) :
            Tail(lanes[w])[k] = IF k < 1 THEN lanes[workloadOf[j]][k] ELSE lanes[workloadOf[j]][k + 1]
      BY <1>3, <2>2, LenProperties
    <2> QED
      BY <1>3, <1>5, <2>1, <2>3, <2>4, LeaveLane
  <1>9. TypeOK'
    <2>1. active' \in Nat /\ activeByProvider' \in [Providers -> Nat] /\ activeByWorkload' \in [Workloads -> Nat]
      <3>1. \A q \in Providers : activeByProvider'[q] = IF q = p THEN activeByProvider[q] + 1 ELSE activeByProvider[q]
        BY <1>6 DEF TypeOK
      <3>2. \A v \in Workloads : activeByWorkload'[v] = IF v = workloadOf[j] THEN activeByWorkload[v] + 1
                                                        ELSE activeByWorkload[v]
        BY <1>6 DEF TypeOK
      <3>3. /\ activeByProvider' = [q \in Providers |-> activeByProvider'[q]]
            /\ activeByWorkload' = [v \in Workloads |-> activeByWorkload'[v]]
        BY <1>6 DEF TypeOK
      <3>4. \A q \in Providers : activeByProvider'[q] \in Nat
        BY <3>1 DEF TypeOK
      <3>5. ASSUME NEW v \in Workloads PROVE activeByWorkload'[v] \in Nat
        <4>1. activeByWorkload[v] \in Nat
          BY DEF TypeOK
        <4> QED
          BY <3>2, <4>1
      <3>6. activeByProvider' \in [Providers -> Nat]
        BY <3>3, <3>4
      <3>7. activeByWorkload' \in [Workloads -> Nat]
        BY <3>3, <3>5
      <3> QED
        BY <1>6, <3>6, <3>7 DEF TypeOK
    <2> QED
      BY <1>1, <1>6, <1>8, <2>1 DEF TypeOK
  <1>10. CountersExact'
    <2>1. j \notin InFlight
      BY <1>4 DEF InFlight
    <2>2. queued' = Cardinality(Waiting')
      BY <1>6, <1>8
    <2>3. activeByProvider' = [activeByProvider EXCEPT ![providerOf[j]] = @ + 1]
      BY <1>6 DEF p
    <2> QED
      BY <1>3, <1>5, <1>6, <2>1, <2>2, <2>3, FlightGrows
  <1>11. KeysHold'
    <2>1. \A k \in Jobs : status'[k] \in {"queued", "running", "settled"} =>
                           status[k] \in {"queued", "running", "settled"}
      BY <1>3, <1>4, <1>5 DEF TypeOK
    <2> QED
      BY <1>6, <2>1 DEF KeysHold
  <1>12. CapsHold'
    <2>1. active' <= globalConcurrency
      BY <1>6, OptionsAssumption DEF TypeOK
    <2>2. ASSUME NEW q \in Providers
          PROVE  activeByProvider'[q] <= providerConcurrency[q]
      <3>1. CASE q = p
        <4>1. activeByProvider'[q] = activeByProvider[p] + 1 /\ activeByProvider[p] \in Nat
          BY <3>1, <1>6, <1>7 DEF TypeOK
        <4>2. providerConcurrency[p] \in Nat
          BY <1>7, OptionsAssumption
        <4> QED
          BY <3>1, <4>1, <4>2, <1>2
      <3>2. CASE q # p
        BY <3>2, <1>6 DEF TypeOK, CapsHold
      <3> QED
        BY <3>1, <3>2
    <2> QED
      BY <2>1, <2>2 DEF CapsHold
  <1> QED
    BY <1>8, <1>9, <1>10, <1>11, <1>12
(* The end of remove() and of finally(): the lane of w is dropped only     *)
(* when no request of w is queued or in flight any more.                   *)
LEMMA CleanupHolds ==
  ASSUME IInv, CountersExact', LanesHold', NEW w \in laneKeys,
         \/ /\ lanes'[w] = <<>> /\ activeByWorkload'[w] = 0
            /\ RemoveLane(w)
         \/ KeepLanes,
         status' \in [Jobs -> Statuses],
         \A k \in Jobs : status'[k] \in {"queued", "running", "settled"} =>
                         status[k] \in {"queued", "running", "settled"}
  PROVE  /\ laneKeys' \in SUBSET Workloads
         /\ rotation' \in Seq(Workloads)
         /\ nextRotationIndex' \in 0..Len(rotation')
         /\ KeysHold'
  <1> USE DEF IInv
  <1>1. CASE KeepLanes
    BY <1>1 DEF KeepLanes, TypeOK, KeysHold
  <1>2. CASE lanes'[w] = <<>> /\ activeByWorkload'[w] = 0 /\ RemoveLane(w)
    <2>1. /\ laneKeys' = laneKeys \ {w}
          /\ rotation' \in Seq(Workloads)
          /\ nextRotationIndex' \in 0..Len(rotation')
          /\ \A v \in laneKeys' : \E i \in 1..Len(rotation') : rotation'[i] = v
      BY <1>2, RemoveLaneHolds
    <2>2. ASSUME NEW k \in Jobs, status'[k] \in {"queued", "running", "settled"}
          PROVE  workloadOf[k] # w
      <3>1. ASSUME status'[k] = "queued", workloadOf[k] = w
            PROVE  FALSE
        <4>1. InLane(w, k)'
          BY <3>1 DEF LanesHold
        <4> QED
          BY <4>1, <1>2, EmptySeq DEF InLane
      <3>2. ASSUME status'[k] \in {"running", "settled"}, workloadOf[k] = w
            PROVE  FALSE
        <4>1. k \in FlightIn(w)' /\ FlightIn(w)' \in SUBSET Jobs
          BY <3>2 DEF FlightIn, InFlight
        <4>2. Cardinality(FlightIn(w)') = 0
          BY <1>2 DEF CountersExact, FlightIn, TypeOK
        <4>3. Cardinality(FlightIn(w)') >= 1
          BY <4>1, CountUpdate
        <4> QED
          BY <4>2, <4>3
      <3> QED
        BY <2>2, <3>1, <3>2
    <2>3. \A k \in Jobs : status'[k] \in {"queued", "running", "settled"} => workloadOf[k] \in laneKeys'
      BY <2>1, <2>2 DEF KeysHold
    <2> QED
      BY <2>1, <2>3 DEF KeysHold, TypeOK
  <1> QED
    BY <1>1, <1>2

(* remove() takes a queued request out of its lane and drops the lane when *)
(* nothing of its workload is left.                                        *)
LEMMA DiscardStep ==
  ASSUME IInv, NEW j \in Jobs, Discard(j)
  PROVE  IInv'
  <1> DEFINE w == workloadOf[j]
             rest == RemoveAt(lanes[w], Position(lanes[w], j))
  <1> USE DEF IInv
  <1>1. status[j] = "queued" /\ w \in Workloads /\ w \in laneKeys /\ lanes[w] \in Seq(Jobs)
    BY JobsAssumption DEF Discard, KeysHold, TypeOK
  <1>2. Position(lanes[w], j) \in 1..Len(lanes[w]) /\ lanes[w][Position(lanes[w], j)] = j
    BY <1>1 DEF LanesHold, InLane, Position
  <1>3. /\ lanes' = [lanes EXCEPT ![workloadOf[j]] = rest]
        /\ status' = [status EXCEPT ![j] = "rejected"]
        /\ queued' = queued - 1 /\ draining' = TRUE
        /\ UNCHANGED <<active, activeByProvider, activeByWorkload>>
        /\ IF rest = <<>> /\ activeByWorkload[w] = 0 THEN RemoveLane(w) ELSE KeepLanes
    BY DEF Discard, SetStatus
  <1>4. /\ rest \in Seq(Jobs)
        /\ Len(rest) = Len(lanes[w]) - 1
        /\ \A k \in 1..(Len(lanes[w]) - 1) :
              rest[k] = IF k < Position(lanes[w], j) THEN lanes[w][k] ELSE lanes[w][k + 1]
    BY <1>1, <1>2, RemoveAtProperties
  <1> HIDE DEF rest
  <1>5. "rejected" \in Statuses \ {"queued"}
    BY DEF Statuses
  <1>6. /\ lanes' \in [Workloads -> Seq(Jobs)]
        /\ status' \in [Jobs -> Statuses]
        /\ LanesHold'
        /\ queued - 1 \in 0..maxQueuedRequests
        /\ queued - 1 = Cardinality(Waiting')
    BY <1>2, <1>3, <1>4, <1>5, LeaveLane
  <1>7. CountersExact'
    <2>1. InFlight' = InFlight
      BY <1>1, <1>3 DEF InFlight, TypeOK
    <2> QED
      BY <1>3, <1>6, <2>1 DEF CountersExact
  <1>8. /\ laneKeys' \in SUBSET Workloads
        /\ rotation' \in Seq(Workloads)
        /\ nextRotationIndex' \in 0..Len(rotation')
        /\ KeysHold'
    <2>1. lanes'[w] = rest
      BY <1>1, <1>3 DEF TypeOK
    <2>2. \A k \in Jobs : status'[k] \in {"queued", "running", "settled"} =>
                           status[k] \in {"queued", "running", "settled"}
      BY <1>1, <1>3 DEF TypeOK
    <2> QED
      BY <1>1, <1>3, <1>6, <1>7, <2>1, <2>2, CleanupHolds
  <1>9. TypeOK' /\ CapsHold'
    BY <1>3, <1>6, <1>8 DEF TypeOK, CapsHold
  <1> QED
    BY <1>6, <1>7, <1>8, <1>9

(* finally() gives the counters of an ended request back.                  *)
LEMMA ReleaseStep ==
  ASSUME IInv, NEW j \in Jobs, Release(j)
  PROVE  IInv'
  <1> DEFINE w == workloadOf[j]
  <1> USE DEF IInv
  <1>1. status[j] = "settled" /\ j \in InFlight /\ w \in Workloads /\ w \in laneKeys /\ providerOf[j] \in Providers
    BY JobsAssumption DEF Release, KeysHold, InFlight
  <1>2. /\ status' = [status EXCEPT ![j] = "done"]
        /\ active' = active - 1
        /\ activeByProvider' = [activeByProvider EXCEPT ![providerOf[j]] = @ - 1]
        /\ activeByWorkload' = [activeByWorkload EXCEPT ![workloadOf[j]] = @ - 1]
        /\ draining' = TRUE
        /\ UNCHANGED <<lanes, queued>>
        /\ IF activeByWorkload[w] = 1 /\ lanes[w] = <<>> THEN RemoveLane(w) ELSE KeepLanes
    BY DEF Release, SetStatus
  <1>3. /\ CountersExact'
        /\ active' \in Nat
        /\ activeByProvider' \in [Providers -> Nat]
        /\ activeByWorkload' \in [Workloads -> Nat]
    BY <1>1, <1>2, FlightShrinks
  <1>4. /\ status' \in [Jobs -> Statuses]
        /\ \A k \in Jobs : status'[k] = IF k = j THEN "done" ELSE status[k]
    BY <1>2 DEF TypeOK, Statuses
  <1>5. LanesHold'
    <2>1. \A v \in Workloads : \A i \in 1..Len(lanes[v]) : lanes[v][i] \in Jobs /\ lanes[v][i] # j
      BY <1>1, ElementOfSeq DEF LanesHold, TypeOK
    <2>2. \A k \in Jobs : status'[k] = "queued" <=> status[k] = "queued"
      BY <1>1, <1>4
    <2>3. lanes' = lanes
      BY <1>2
    <2> QED
      BY <2>1, <2>2, <2>3 DEF LanesHold, InLane
  <1>6. /\ laneKeys' \in SUBSET Workloads
        /\ rotation' \in Seq(Workloads)
        /\ nextRotationIndex' \in 0..Len(rotation')
        /\ KeysHold'
    <2>1. activeByWorkload'[w] = activeByWorkload[w] - 1 /\ lanes'[w] = lanes[w]
      BY <1>1, <1>2 DEF TypeOK
    <2>2. \A k \in Jobs : status'[k] \in {"queued", "running", "settled"} =>
                           status[k] \in {"queued", "running", "settled"}
      BY <1>1, <1>4
    <2>3. \/ lanes'[w] = <<>> /\ activeByWorkload'[w] = 0 /\ RemoveLane(w)
          \/ KeepLanes
      BY <1>2, <2>1
    <2> QED
      BY <1>1, <1>3, <1>4, <1>5, <2>2, <2>3, CleanupHolds
  <1>7. TypeOK'
    BY <1>2, <1>3, <1>4, <1>6 DEF TypeOK
  <1>8. CapsHold'
    <2>1. active' <= globalConcurrency
      BY <1>2, OptionsAssumption DEF TypeOK, CapsHold
    <2>2. ASSUME NEW p \in Providers
          PROVE  activeByProvider'[p] <= providerConcurrency[p]
      <3>1. activeByProvider[p] \in Nat /\ providerConcurrency[p] \in Nat /\ activeByProvider[p] <= providerConcurrency[p]
        BY OptionsAssumption DEF TypeOK, CapsHold
      <3>2. activeByProvider'[p] = activeByProvider[p] \/ activeByProvider'[p] = activeByProvider[p] - 1
        BY <1>2 DEF TypeOK
      <3> QED
        BY <3>1, <3>2
    <2> QED
      BY <2>1, <2>2 DEF CapsHold
  <1> QED
    BY <1>3, <1>5, <1>6, <1>7, <1>8

-----------------------------------------------------------------------------
(* Every step of the scheduler preserves the inductive invariant.          *)
LEMMA NextHolds == IInv /\ [Next]_vars => IInv'
  <1> SUFFICES ASSUME IInv, [Next]_vars PROVE IInv'
    OBVIOUS
  <1>1. CASE UNCHANGED vars
    <2>1. draining' \in BOOLEAN
      BY <1>1 DEF vars, IInv, TypeOK
    <2> QED
      BY <1>1, <2>1, QuietSteps DEF vars
  <1>2. ASSUME NEW j \in Jobs, Refuse(j) PROVE IInv'
    <2>1. draining' \in BOOLEAN
      BY <1>2 DEF Refuse, IInv, TypeOK
    <2> QED
      BY <1>2, <2>1, QuietSteps DEF Refuse
  <1>3. ASSUME NEW j \in Jobs, Schedule(j) PROVE IInv'
    BY <1>3, ScheduleStep
  <1>4. ASSUME NEW j \in Jobs, Discard(j) PROVE IInv'
    BY <1>4, DiscardStep
  <1>5. ASSUME NEW j \in Jobs, Settle(j) PROVE IInv'
    <2>1. draining' \in BOOLEAN
      BY <1>5 DEF Settle, IInv, TypeOK
    <2> QED
      BY <1>5, <2>1, QuietSteps DEF Settle
  <1>6. ASSUME NEW j \in Jobs, Release(j) PROVE IInv'
    BY <1>6, ReleaseStep
  <1>7. CASE DrainReturns
    BY <1>7, QuietSteps DEF DrainReturns
  <1>8. ASSUME NEW offset \in 0..(Len(rotation) - 1), StartNext(offset) PROVE IInv'
    BY <1>8, StartStep
  <1> QED
    BY <1>1, <1>2, <1>3, <1>4, <1>5, <1>6, <1>7, <1>8 DEF Next

LEMMA Inductive == Spec => []IInv
  BY InitHolds, NextHolds, PTL DEF Spec

(* The state of the scheduler object keeps its type: in particular         *)
(* nextRotationIndex never leaves the rotation and no counter goes below   *)
(* zero, whatever order requests are scheduled, settled, timed out and     *)
(* aborted in.                                                             *)
THEOREM TypeCorrect == Spec => []TypeOK
  <1>1. IInv => TypeOK
    BY DEF IInv
  <1> QED
    BY <1>1, Inductive, PTL

(* The four counters are the numbers of requests they stand for, for any   *)
(* set of requests, workloads and providers.                               *)
THEOREM CountersAreExact == Spec => []CountersExact
  <1>1. IInv => CountersExact
    BY DEF IInv
  <1> QED
    BY <1>1, Inductive, PTL

(* No schedule of callers exceeds the limits of the constructor's options. *)
THEOREM CapsRespected == Spec => []ConcurrencyCaps
  <1>1. IInv => ConcurrencyCaps
    BY DEF IInv, CapsHold, CountersExact, ConcurrencyCaps
  <1> QED
    BY <1>1, Inductive, PTL

-----------------------------------------------------------------------------
(***************************************************************************)
(* A second inductive invariant, on top of the first: the rotation lists   *)
(* lanes only, each once; a lane is kept for a reason; and no capacity is  *)
(* left idle between turns.                                                *)
(***************************************************************************)
RotationHolds ==
  /\ \A i \in 1..Len(rotation) : rotation[i] \in laneKeys
  /\ \A i, k \in 1..Len(rotation) : rotation[i] = rotation[k] => i = k

LanesNeeded == \A w \in laneKeys : lanes[w] # <<>> \/ activeByWorkload[w] > 0

KInv == RotationHolds /\ LanesNeeded /\ WorkConserving

(* removeLane takes out the one entry of the lane.                         *)
LEMMA RemoveLaneRotates ==
  ASSUME IInv, RotationHolds, NEW w \in laneKeys, RemoveLane(w)
  PROVE  RotationHolds'
  <1> DEFINE index == Position(rotation, w)
  <1>1. index \in 1..Len(rotation) /\ rotation[index] = w
    BY DEF IInv, KeysHold, Position
  <1>2. rotation \in Seq(Workloads) /\ Len(rotation) \in Nat
    BY LenProperties DEF IInv, TypeOK
  <1>3. laneKeys' = laneKeys \ {w} /\ rotation' = RemoveAt(rotation, index)
    BY DEF RemoveLane
  <1> HIDE DEF index
  <1>4. /\ Len(rotation') = Len(rotation) - 1
        /\ \A k \in 1..(Len(rotation) - 1) : rotation'[k] = IF k < index THEN rotation[k] ELSE rotation[k + 1]
    BY <1>1, <1>2, <1>3, RemoveAtProperties
  <1>5. ASSUME NEW k \in 1..Len(rotation')
        PROVE  LET i == IF k < index THEN k ELSE k + 1 IN
               i \in 1..Len(rotation) /\ i # index /\ rotation'[k] = rotation[i]
    BY <1>1, <1>2, <1>4
  <1>6. \A k \in 1..Len(rotation') : rotation'[k] \in laneKeys'
    BY <1>1, <1>3, <1>5 DEF RotationHolds
  <1>7. ASSUME NEW k \in 1..Len(rotation'), NEW m \in 1..Len(rotation'), rotation'[k] = rotation'[m]
        PROVE  k = m
    <2> DEFINE i == IF k < index THEN k ELSE k + 1
               n == IF m < index THEN m ELSE m + 1
    <2>1. i \in 1..Len(rotation) /\ n \in 1..Len(rotation) /\ rotation[i] = rotation[n]
      BY <1>5, <1>7
    <2>2. i = n
      BY <2>1 DEF RotationHolds
    <2> QED
      BY <1>1, <1>2, <1>4, <2>2
  <1> QED
    BY <1>6, <1>7 DEF RotationHolds

(* Every set of natural numbers has a least element.                       *)
LEMMA LeastElement ==
  ASSUME NEW T \in SUBSET Nat, T # {}
  PROVE  \E x \in T : \A y \in T : x <= y
  <1> DEFINE R == {ss \in Nat \X Nat : ss[1] < ss[2]}
  <1>1. IsWellFoundedOn(OpToRel(<, Nat), Nat)
    BY NatLessThanWellFounded
  <1>2. OpToRel(<, Nat) = R
    BY DEF OpToRel
  <1>3. IsWellFoundedOn(R, Nat)
    BY <1>1, <1>2
  <1> HIDE DEF R
  <1>4. PICK x \in T : \A y \in T : ~(<<y, x>> \in R)
    BY <1>3, WFMin
  <1>5. \A y \in T : ~(y < x)
    BY <1>4 DEF R
  <1> QED
    BY <1>5

(* The search of takeNext() comes past every lane of the rotation.         *)
LEMMA EveryLaneIsSeen ==
  ASSUME TypeOK, NEW i \in 1..Len(rotation)
  PROVE  \E offset \in 0..(Len(rotation) - 1) : LaneAt(offset) = rotation[i]
  <1> DEFINE n == Len(rotation)
             base == nextRotationIndex % n
             offset == IF i - 1 >= base THEN i - 1 - base ELSE i - 1 - base + n
  <1>1. n \in Nat /\ n > 0 /\ nextRotationIndex \in Nat /\ i \in 1..n
    BY LenProperties DEF TypeOK
  <1>2. RotationIndex(offset) = (base + offset) % n
    BY DEF RotationIndex
  <1> HIDE DEF n
  <1>3. base \in 0..(n - 1)
    BY <1>1
  <1> HIDE DEF base
  <1>4. offset \in 0..(n - 1) /\ (base + offset = i - 1 \/ base + offset = i - 1 + n)
    BY <1>1, <1>3
  <1> HIDE DEF offset
  <1>5. (i - 1) % n = i - 1 /\ (i - 1 + n) % n = i - 1
    BY <1>1
  <1>6. RotationIndex(offset) = i - 1
    BY <1>2, <1>4, <1>5
  <1>7. LaneAt(offset) = rotation[i]
    BY <1>1, <1>6 DEF LaneAt
  <1> QED
    BY <1>4, <1>7 DEF n

(* drain() returns only when no lane is startable or the process is full:  *)
(* if a lane is startable, takeNext() takes the first such lane.           *)
LEMMA DrainLeavesNothing ==
  ASSUME IInv, DrainReturns, active < globalConcurrency, NEW w \in Workloads
  PROVE  ~Startable(w)
  <1> SUFFICES ASSUME Startable(w) PROVE FALSE
    OBVIOUS
  <1> DEFINE T == {offset \in 0..(Len(rotation) - 1) : Startable(LaneAt(offset))}
  <1>1. w \in laneKeys
    <2>1. lanes[w] \in Seq(Jobs) /\ lanes[w] # <<>>
      BY DEF Startable, IInv, TypeOK
    <2>2. 1 \in 1..Len(lanes[w]) /\ lanes[w][1] \in Jobs
      BY <2>1, LenProperties, EmptySeq, ElementOfSeq
    <2> QED
      BY <2>2 DEF IInv, LanesHold, KeysHold
  <1>2. PICK i \in 1..Len(rotation) : rotation[i] = w
    BY <1>1 DEF IInv, KeysHold
  <1>3. \E offset \in 0..(Len(rotation) - 1) : LaneAt(offset) = w
    BY <1>2, EveryLaneIsSeen DEF IInv
  <1>4. T # {} /\ T \in SUBSET Nat
    BY <1>3
  <1>5. PICK first \in T : \A offset \in T : first <= offset
    BY <1>4, LeastElement
  <1>6. Len(rotation) \in Nat
    BY LenProperties DEF IInv, TypeOK
  <1>7. ASSUME NEW earlier \in 0..(first - 1)
        PROVE  ~Startable(LaneAt(earlier))
    BY <1>4, <1>5, <1>6
  <1>8. Takes(first)
    BY <1>5, <1>7 DEF Takes
  <1>9. active \in Nat
    BY DEF IInv, TypeOK
  <1> QED
    BY <1>5, <1>8, <1>9, OptionsAssumption DEF DrainReturns

(* Unless a lane is added or dropped, the rotation stays as it is.         *)
LEMMA RotationKept ==
  ASSUME RotationHolds, UNCHANGED <<laneKeys, rotation>>
  PROVE  RotationHolds'
  BY DEF RotationHolds

LEMMA ScheduleKeeps ==
  ASSUME IInv, KInv, NEW j \in Jobs, Schedule(j)
  PROVE  KInv'
  <1> DEFINE w == workloadOf[j]
  <1>1. w \in Workloads /\ lanes[w] \in Seq(Jobs) /\ rotation \in Seq(Workloads) /\ Len(rotation) \in Nat
    BY JobsAssumption, LenProperties DEF IInv, TypeOK
  <1>2. RotationHolds'
    <2>1. CASE w \in laneKeys
      <3>1. UNCHANGED <<laneKeys, rotation>>
        BY <2>1 DEF Schedule
      <3> QED
        BY <3>1, RotationKept DEF KInv
    <2>2. CASE w \notin laneKeys
      <3>1. rotation' = Append(rotation, w) /\ laneKeys' = laneKeys \cup {w}
        BY <2>2 DEF Schedule
      <3> HIDE DEF w
      <3>2. /\ Len(rotation') = Len(rotation) + 1
            /\ \A i \in 1..Len(rotation) : rotation'[i] = rotation[i]
            /\ rotation'[Len(rotation) + 1] = w
        BY <1>1, <3>1, AppendProperties
      <3>3. \A i \in 1..Len(rotation) : rotation'[i] \in laneKeys /\ rotation'[i] # w
        BY <2>2, <3>2 DEF KInv, RotationHolds
      <3>4. \A i \in 1..Len(rotation') : i \in 1..Len(rotation) \/ i = Len(rotation) + 1
        BY <1>1, <3>2
      <3>5. \A i \in 1..Len(rotation') : rotation'[i] \in laneKeys'
        BY <3>1, <3>2, <3>3, <3>4
      <3>6. ASSUME NEW i \in 1..Len(rotation'), NEW k \in 1..Len(rotation'), rotation'[i] = rotation'[k]
            PROVE  i = k
        <4>1. CASE i = Len(rotation) + 1 \/ k = Len(rotation) + 1
          BY <3>2, <3>3, <3>4, <3>6, <4>1
        <4>2. CASE i \in 1..Len(rotation) /\ k \in 1..Len(rotation)
          BY <3>2, <3>6, <4>2 DEF KInv, RotationHolds
        <4> QED
          BY <3>4, <4>1, <4>2
      <3> QED
        BY <3>5, <3>6 DEF RotationHolds
    <2> QED
      BY <2>1, <2>2
  <1>3. LanesNeeded'
    <2>1. lanes' = [lanes EXCEPT ![w] = Append(lanes[w], j)] /\ laneKeys' = laneKeys \cup {w}
          /\ UNCHANGED activeByWorkload
      BY DEF Schedule
    <2>2. Len(Append(lanes[w], j)) = Len(lanes[w]) + 1 /\ Len(lanes[w]) \in Nat
      BY <1>1, AppendProperties, LenProperties
    <2>3. Append(lanes[w], j) # <<>>
      BY <2>2, EmptySeq
    <2>4. DOMAIN lanes = Workloads
      BY DEF IInv, TypeOK
    <2> HIDE DEF w
    <2> QED
      BY <1>1, <2>1, <2>3, <2>4 DEF KInv, LanesNeeded
  <1>4. WorkConserving'
    BY DEF Schedule, WorkConserving
  <1> QED
    BY <1>2, <1>3, <1>4 DEF KInv

LEMMA DiscardKeeps ==
  ASSUME IInv, KInv, NEW j \in Jobs, Discard(j)
  PROVE  KInv'
  <1> DEFINE w == workloadOf[j]
             rest == RemoveAt(lanes[w], Position(lanes[w], j))
  <1>1. w \in Workloads /\ w \in laneKeys
    BY JobsAssumption DEF IInv, Discard, KeysHold
  <1>2. /\ lanes' = [lanes EXCEPT ![w] = rest] /\ UNCHANGED activeByWorkload /\ draining' = TRUE
        /\ IF rest = <<>> /\ activeByWorkload[w] = 0 THEN RemoveLane(w) ELSE KeepLanes
    BY DEF Discard
  <1>3. DOMAIN lanes = Workloads /\ activeByWorkload[w] \in Nat
    BY <1>1 DEF IInv, TypeOK
  <1> HIDE DEF rest, w
  <1>4. CASE rest = <<>> /\ activeByWorkload[w] = 0
    <2>1. RemoveLane(w) /\ laneKeys' = laneKeys \ {w}
      BY <1>2, <1>4 DEF RemoveLane
    <2>2. RotationHolds'
      BY <1>1, <2>1, RemoveLaneRotates DEF KInv
    <2>3. LanesNeeded'
      BY <1>2, <1>3, <2>1 DEF KInv, LanesNeeded
    <2> QED
      BY <1>2, <2>2, <2>3 DEF KInv, WorkConserving
  <1>5. CASE ~(rest = <<>> /\ activeByWorkload[w] = 0)
    <2>1. UNCHANGED <<laneKeys, rotation>>
      BY <1>2, <1>5 DEF KeepLanes
    <2>2. RotationHolds'
      BY <2>1, RotationKept DEF KInv
    <2>3. LanesNeeded'
      BY <1>1, <1>2, <1>3, <1>5, <2>1 DEF KInv, LanesNeeded
    <2> QED
      BY <1>2, <2>2, <2>3 DEF KInv, WorkConserving
  <1> QED
    BY <1>4, <1>5

LEMMA ReleaseKeeps ==
  ASSUME IInv, KInv, NEW j \in Jobs, Release(j)
  PROVE  KInv'
  <1> DEFINE w == workloadOf[j]
  <1>1. w \in Workloads /\ w \in laneKeys
    BY JobsAssumption DEF IInv, Release, KeysHold
  <1>2. /\ activeByWorkload' = [activeByWorkload EXCEPT ![w] = @ - 1] /\ UNCHANGED lanes /\ draining' = TRUE
        /\ IF activeByWorkload[w] = 1 /\ lanes[w] = <<>> THEN RemoveLane(w) ELSE KeepLanes
    BY DEF Release
  <1>3. DOMAIN activeByWorkload = Workloads /\ activeByWorkload[w] \in Nat
    BY <1>1 DEF IInv, TypeOK
  <1>4. activeByWorkload[w] >= 1
    <2>1. j \in FlightIn(w) /\ FlightIn(w) \in SUBSET Jobs
      BY DEF Release, FlightIn, InFlight
    <2>2. activeByWorkload[w] = Cardinality(FlightIn(w))
      BY <1>1 DEF IInv, CountersExact, FlightIn
    <2> QED
      BY <2>1, <2>2, CountUpdate
  <1> HIDE DEF w
  <1>5. CASE activeByWorkload[w] = 1 /\ lanes[w] = <<>>
    <2>1. RemoveLane(w) /\ laneKeys' = laneKeys \ {w}
      BY <1>2, <1>5 DEF RemoveLane
    <2>2. RotationHolds'
      BY <1>1, <2>1, RemoveLaneRotates DEF KInv
    <2>3. LanesNeeded'
      BY <1>2, <1>3, <2>1 DEF KInv, LanesNeeded
    <2> QED
      BY <1>2, <2>2, <2>3 DEF KInv, WorkConserving
  <1>6. CASE ~(activeByWorkload[w] = 1 /\ lanes[w] = <<>>)
    <2>1. UNCHANGED <<laneKeys, rotation>>
      BY <1>2, <1>6 DEF KeepLanes
    <2>2. RotationHolds'
      BY <2>1, RotationKept DEF KInv
    <2>3. activeByWorkload'[w] = activeByWorkload[w] - 1
      BY <1>1, <1>2, <1>3
    <2>4. LanesNeeded'
      BY <1>1, <1>2, <1>3, <1>4, <1>6, <2>1, <2>3 DEF KInv, LanesNeeded
    <2> QED
      BY <1>2, <2>2, <2>4 DEF KInv, WorkConserving
  <1> QED
    BY <1>5, <1>6

LEMMA StartKeeps ==
  ASSUME IInv, KInv, NEW offset \in 0..(Len(rotation) - 1), StartNext(offset)
  PROVE  KInv'
  <1> DEFINE w == LaneAt(offset)
  <1>1. w \in Workloads
    BY RotationIndexInRange DEF IInv
  <1>2. /\ lanes' = [lanes EXCEPT ![w] = Tail(@)]
        /\ activeByWorkload' = [activeByWorkload EXCEPT ![w] = @ + 1]
        /\ UNCHANGED <<laneKeys, rotation, draining>> /\ draining
    BY DEF StartNext
  <1>3. DOMAIN lanes = Workloads /\ DOMAIN activeByWorkload = Workloads /\ activeByWorkload[w] \in Nat
    BY <1>1 DEF IInv, TypeOK
  <1> HIDE DEF w
  <1>4. LanesNeeded'
    BY <1>1, <1>2, <1>3 DEF KInv, LanesNeeded
  <1> QED
    BY <1>2, <1>4, RotationKept DEF KInv, WorkConserving

LEMMA NextKeeps == IInv /\ KInv /\ [Next]_vars => KInv'
  <1> SUFFICES ASSUME IInv, KInv, [Next]_vars PROVE KInv'
    OBVIOUS
  <1>1. ASSUME UNCHANGED <<lanes, laneKeys, rotation, counters>>, draining' = draining
        PROVE  KInv'
    BY <1>1, RotationKept DEF KInv, LanesNeeded, WorkConserving, Startable, counters
  <1>2. CASE UNCHANGED vars
    BY <1>1, <1>2 DEF vars
  <1>3. ASSUME NEW j \in Jobs, Refuse(j) \/ Settle(j) PROVE KInv'
    BY <1>1, <1>3 DEF Refuse, Settle
  <1>4. ASSUME NEW j \in Jobs, Schedule(j) PROVE KInv'
    BY <1>4, ScheduleKeeps
  <1>5. ASSUME NEW j \in Jobs, Discard(j) PROVE KInv'
    BY <1>5, DiscardKeeps
  <1>6. ASSUME NEW j \in Jobs, Release(j) PROVE KInv'
    BY <1>6, ReleaseKeeps
  <1>7. CASE DrainReturns
    <2>1. UNCHANGED <<lanes, laneKeys, rotation, counters>>
      BY <1>7 DEF DrainReturns
    <2>2. RotationHolds' /\ LanesNeeded'
      BY <2>1, RotationKept DEF KInv, LanesNeeded, counters
    <2>3. active < globalConcurrency => \A w \in Workloads : ~Startable(w)
      BY <1>7, DrainLeavesNothing
    <2>4. WorkConserving'
      BY <2>1, <2>3 DEF WorkConserving, Startable, counters
    <2> QED
      BY <2>2, <2>4 DEF KInv
  <1>8. ASSUME NEW offset \in 0..(Len(rotation) - 1), StartNext(offset) PROVE KInv'
    BY <1>8, StartKeeps
  <1> QED
    BY <1>2, <1>3, <1>4, <1>5, <1>6, <1>7, <1>8 DEF Next

LEMMA KInvHolds == Spec => [](IInv /\ KInv)
  <1>1. Init => KInv
    <2> SUFFICES ASSUME Init PROVE KInv
      OBVIOUS
    <2>1. Len(rotation) = 0
      BY EmptySeq DEF Init
    <2> QED
      BY <2>1 DEF Init, KInv, RotationHolds, LanesNeeded, WorkConserving, Startable
  <1> QED
    BY <1>1, InitHolds, NextHolds, NextKeeps, PTL DEF Spec

(* A sequence without repetitions has as many elements as its length.      *)
LEMMA DistinctElements ==
  ASSUME NEW S, NEW s \in Seq(S), \A i, k \in 1..Len(s) : s[i] = s[k] => i = k
  PROVE  Cardinality(ToSet(s)) = Len(s)
  <1>1. Len(s) \in Nat /\ DOMAIN s = 1..Len(s) /\ s = [i \in 1..Len(s) |-> s[i]]
    BY LenProperties
  <1>2. ToSet(s) = {s[i] : i \in 1..Len(s)}
    BY <1>1 DEF ToSet
  <1>3. s \in [1..Len(s) -> ToSet(s)]
    BY <1>1, <1>2
  <1>4. s \in Bijection(1..Len(s), ToSet(s))
    BY <1>2, <1>3, Fun_IsBij
  <1>5. ExistsBijection(1..Len(s), ToSet(s))
    BY <1>4 DEF ExistsBijection
  <1> QED
    BY <1>1, <1>5, FS_CountingElements

-----------------------------------------------------------------------------
(* A queued request sits exactly once in the lane of its workload, the     *)
(* rotation lists each lane once, and a lane exists exactly as long as its *)
(* workload has a request queued or in flight.                             *)
THEOREM LanesAreExact == Spec => []LanesExact
  <1>1. IInv /\ KInv => LanesExact
    <2> SUFFICES ASSUME IInv, KInv PROVE LanesExact
      OBVIOUS
    <2>1. rotation \in Seq(Workloads) /\ DOMAIN rotation = 1..Len(rotation)
      BY LenProperties DEF IInv, TypeOK
    <2>2. ToSet(rotation) = laneKeys
      BY <2>1 DEF IInv, KInv, KeysHold, RotationHolds, ToSet
    <2>3. Cardinality(laneKeys) = Len(rotation)
      BY <2>1, <2>2, DistinctElements DEF KInv, RotationHolds
    <2>4. ASSUME NEW w \in Workloads
          PROVE  /\ ToSet(lanes[w]) = {j \in Waiting : workloadOf[j] = w}
                 /\ Len(lanes[w]) = Cardinality(ToSet(lanes[w]))
      <3>1. lanes[w] \in Seq(Jobs) /\ DOMAIN lanes[w] = 1..Len(lanes[w])
        BY LenProperties DEF IInv, TypeOK
      <3>2. \A i \in 1..Len(lanes[w]) : lanes[w][i] \in Jobs
        BY <3>1, ElementOfSeq
      <3>3. ToSet(lanes[w]) = {j \in Waiting : workloadOf[j] = w}
        BY <3>1, <3>2 DEF IInv, LanesHold, InLane, ToSet, Waiting
      <3>4. Len(lanes[w]) = Cardinality(ToSet(lanes[w]))
        BY <3>1, DistinctElements DEF IInv, LanesHold
      <3> QED
        BY <3>3, <3>4
    <2>5. ASSUME NEW w \in Workloads, NEW j \in Waiting \cup InFlight, workloadOf[j] = w
          PROVE  w \in laneKeys
      BY <2>5 DEF IInv, KeysHold, Waiting, InFlight
    <2>6. ASSUME NEW w \in laneKeys
          PROVE  \E j \in Waiting \cup InFlight : workloadOf[j] = w
      <3>1. w \in Workloads /\ lanes[w] \in Seq(Jobs)
        BY DEF IInv, TypeOK
      <3>2. CASE lanes[w] # <<>>
        <4>1. 1 \in 1..Len(lanes[w]) /\ lanes[w][1] \in Jobs
          BY <3>1, <3>2, LenProperties, EmptySeq, ElementOfSeq
        <4>2. lanes[w][1] \in Waiting /\ workloadOf[lanes[w][1]] = w
          BY <3>1, <4>1 DEF IInv, LanesHold, Waiting
        <4> QED
          BY <4>2
      <3>3. CASE activeByWorkload[w] > 0
        <4>0. activeByWorkload[w] = Cardinality(FlightIn(w))
          BY <3>1 DEF IInv, CountersExact, FlightIn
        <4>1. Cardinality(FlightIn(w)) # 0
          BY <3>3, <4>0
        <4>2. FlightIn(w) # {}
          BY <4>1, FS_EmptySet
        <4> QED
          BY <4>2 DEF FlightIn
      <3> QED
        BY <3>2, <3>3 DEF KInv, LanesNeeded
    <2> QED
      BY <2>2, <2>3, <2>4, <2>5, <2>6 DEF LanesExact
  <1> QED
    BY <1>1, KInvHolds, PTL

(* Between turns no capacity is left unused: when the global cap has room, *)
(* the head of every lane waits for its own provider, for any number of    *)
(* workloads and wherever nextRotationIndex stands.                        *)
THEOREM NoCapacityIdles == Spec => []WorkConserving
  <1>1. KInv => WorkConserving
    BY DEF KInv
  <1> QED
    BY <1>1, KInvHolds, PTL
=============================================================================
