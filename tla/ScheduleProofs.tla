--------------------------- MODULE ScheduleProofs ---------------------------
(***************************************************************************)
(* The times of Activities: types, and what a committed step may not pass. *)
(*                                                                         *)
(* An activity under way is Sound: its next boundary lies ahead, and a     *)
(* completion, a failing assertion or a stage end that lies ahead is not   *)
(* beyond that boundary.  A step ends at the least of all boundaries, so   *)
(* every activity that is not due stays Sound as time advances, and one    *)
(* that is due gets its next boundary by NextActivityBoundary.  SchedInv   *)
(* carries this through the phases of a step.                              *)
(***************************************************************************)
EXTENDS ActivitiesProofs, WellFoundedInduction

-----------------------------------------------------------------------------
(* Least elements, and functions defined by recursion over a rank.          *)

LEMMA LeastElement ==
  ASSUME NEW T \in SUBSET Nat, T # {}
  PROVE  \E x \in T : \A y \in T : x <= y
  <1> DEFINE R == {ss \in Nat \X Nat : ss[1] < ss[2]}
  <1>1. IsWellFoundedOn(OpToRel(<, Nat), Nat)
    BY NatLessThanWellFounded
  <1>2. OpToRel(<, Nat) = R
    BY DEF OpToRel
  <1>3. IsWellFoundedOn(R, Nat)
    BY <1>1, <1>2
  <1> HIDE DEF R
  <1>4. PICK x \in T : \A y \in T : ~(<<y, x>> \in R)
    BY <1>3, WFMin
  <1>5. \A y \in T : ~(y < x)
    BY <1>4 DEF R
  <1> QED
    BY <1>5

LEMMA MinOf ==
  ASSUME NEW T \in SUBSET Nat, T # {}
  PROVE  Min(T) \in T /\ Min(T) \in Nat /\ \A y \in T : Min(T) <= y
  <1>1. PICK x \in T : \A y \in T : x <= y
    BY LeastElement
  <1>2. Min(T) \in T /\ \A y \in T : Min(T) =< y
    BY <1>1 DEF Min
  <1> QED
    BY <1>2

(* A function each of whose values depends only on the values of lower rank *)
(* exists.                                                                  *)
AgreeBelow(f, g, P, rank, n) == \A y \in P : rank[y] < n => f[y] = g[y]
Solves(f, P, rank, D, n) == \A x \in P : rank[x] < n => f[x] = D[<<f, x>>]
Recursion(P, V, rank, D) ==
  /\ V # {} /\ rank \in [P -> Nat] /\ D \in [[P -> V] \X P -> V]
  /\ \A f, g \in [P -> V] : \A x \in P : AgreeBelow(f, g, P, rank, rank[x]) => D[<<f, x>>] = D[<<g, x>>]

LEMMA RankedRecursion ==
  ASSUME NEW P, NEW V, NEW rank, NEW D, Recursion(P, V, rank, D)
  PROVE  \E f \in [P -> V] : \A x \in P : f[x] = D[<<f, x>>]
  <1> PICK v \in V : TRUE
    BY DEF Recursion
  <1> /\ rank \in [P -> Nat] /\ D \in [[P -> V] \X P -> V]
    BY DEF Recursion
  <1>0. \A f, g \in [P -> V] : \A x \in P : AgreeBelow(f, g, P, rank, rank[x]) => D[<<f, x>>] = D[<<g, x>>]
    BY DEF Recursion
  <1>1. \A n \in Nat : \E f \in [P -> V] : Solves(f, P, rank, D, n)
    <2> DEFINE bad == {n \in Nat : ~\E f \in [P -> V] : Solves(f, P, rank, D, n)}
    <2> SUFFICES ASSUME bad # {} PROVE FALSE
      OBVIOUS
    <2>1. PICK n \in bad : \A m \in bad : n <= m
      BY LeastElement
    <2>2. [x \in P |-> v] \in [P -> V] /\ Solves([x \in P |-> v], P, rank, D, 0)
      BY DEF Solves
    <2>3. n \in Nat \ {0} /\ n - 1 \in Nat /\ ~(n <= n - 1)
      <3>1. n \in Nat /\ n # 0
        BY <2>1, <2>2
      <3> QED
        BY <3>1
    <2>4. PICK f \in [P -> V] : Solves(f, P, rank, D, n - 1)
      BY <2>1, <2>3
    <2> DEFINE g == [x \in P |-> IF rank[x] = n - 1 THEN D[<<f, x>>] ELSE f[x]]
    <2>5. g \in [P -> V]
      OBVIOUS
    <2>6. \A m \in Nat : m <= n - 1 => AgreeBelow(f, g, P, rank, m)
      BY <2>3 DEF AgreeBelow
    <2>7. ASSUME NEW x \in P, rank[x] < n PROVE g[x] = D[<<g, x>>]
      <3>1. rank[x] \in Nat /\ rank[x] <= n - 1
        BY <2>3, <2>7
      <3>2. D[<<f, x>>] = D[<<g, x>>]
        BY <3>1, <2>5, <2>6, <1>0
      <3>3. g[x] = D[<<f, x>>]
        BY <3>1, <2>3, <2>4 DEF Solves
      <3> QED
        BY <3>2, <3>3
    <2> HIDE DEF g
    <2>8. Solves(g, P, rank, D, n)
      BY <2>7 DEF Solves
    <2> QED
      BY <2>1, <2>5, <2>8
  <1>2. ASSUME NEW n \in Nat, NEW f \in [P -> V], NEW g \in [P -> V],
               Solves(f, P, rank, D, n), Solves(g, P, rank, D, n)
        PROVE  AgreeBelow(f, g, P, rank, n)
    <2> DEFINE bad == {m \in Nat : \E x \in P : rank[x] = m /\ m < n /\ f[x] # g[x]}
    <2>1. ASSUME bad # {} PROVE FALSE
      <3>1. PICK m \in bad : \A k \in bad : m <= k
        BY <2>1, LeastElement
      <3>2. PICK x \in P : rank[x] = m /\ m < n /\ f[x] # g[x]
        BY <3>1
      <3>3. AgreeBelow(f, g, P, rank, rank[x])
        BY <3>1, <3>2 DEF AgreeBelow
      <3>4. D[<<f, x>>] = D[<<g, x>>]
        BY <3>3, <1>0
      <3> QED
        BY <3>2, <3>4, <1>2 DEF Solves
    <2> QED
      BY <2>1 DEF AgreeBelow
  <1> DEFINE F == [n \in Nat |-> CHOOSE f \in [P -> V] : Solves(f, P, rank, D, n)]
             h == [x \in P |-> F[rank[x] + 1][x]]
  <1>3. \A n \in Nat : F[n] \in [P -> V] /\ Solves(F[n], P, rank, D, n)
    BY <1>1
  <1> HIDE DEF F
  <1>4. h \in [P -> V]
    BY <1>3
  <1>5. ASSUME NEW x \in P PROVE h[x] = D[<<h, x>>]
    <2> DEFINE k == F[rank[x] + 1]
    <2>1. k \in [P -> V] /\ Solves(k, P, rank, D, rank[x] + 1)
      BY <1>3
    <2> HIDE DEF k
    <2>2. ASSUME NEW y \in P, rank[y] < rank[x] PROVE k[y] = h[y]
      <3> DEFINE l == F[rank[y] + 1]
      <3>0. rank[y] + 1 \in Nat
        OBVIOUS
      <3>1. l \in [P -> V] /\ Solves(l, P, rank, D, rank[y] + 1)
        BY <3>0, <1>3
      <3>2. h[y] = l[y]
        OBVIOUS
      <3> HIDE DEF l, h
      <3>3. rank[y] + 1 \in Nat /\ rank[y] < rank[y] + 1
        OBVIOUS
      <3>4. Solves(k, P, rank, D, rank[y] + 1)
        BY <2>1, <2>2 DEF Solves
      <3>5. AgreeBelow(k, l, P, rank, rank[y] + 1)
        BY <1>2, <2>1, <3>1, <3>3, <3>4
      <3> QED
        BY <3>2, <3>3, <3>5 DEF AgreeBelow
    <2>3. D[<<k, x>>] = D[<<h, x>>]
      <3> HIDE DEF h
      <3>1. AgreeBelow(k, h, P, rank, rank[x])
        BY <2>2 DEF AgreeBelow
      <3> QED
        BY <3>1, <2>1, <1>4, <1>0
    <2>4. k[x] = D[<<k, x>>]
      BY <2>1 DEF Solves
    <2>5. h[x] = k[x]
      BY DEF k
    <2> QED
      BY <2>3, <2>4, <2>5
  <1> HIDE DEF h
  <1> QED
    BY <1>4, <1>5

-----------------------------------------------------------------------------
(* The admissions.  Each proposal is decided, and one that is granted though *)
(* its contention is "queue" has no queue ahead.                             *)
Kinds == {"granted", "adjudicate", "queue", "reject"}

LEMMA ContentionKind ==
  ASSUME NEW a PROVE ContentionOf(a) \in Kinds \ {"granted"}
  BY DEF ContentionOf, Kinds

LEMMA AdmissionKinds ==
  ASSUME NEW acts, NEW proposals \in SUBSET Agents, NEW kind, kind = Admissions(acts, proposals).kind
  PROVE  /\ kind \in [proposals -> Kinds] /\ DOMAIN kind = proposals
         /\ \A g \in proposals : kind[g] # "granted" => kind[g] = ContentionOf(acts[g])
         /\ \A g \in proposals : kind[g] = "granted" => ~(ContentionOf(acts[g]) = "queue" /\ QueueAhead(acts, g))
  <1> DEFINE Holders(f, g) == (Agents \ proposals) \cup {h \in proposals : h < g /\ f[h] = "granted"}
             Waits(g) == ContentionOf(acts[g]) = "queue" /\ QueueAhead(acts, g)
             Fit(f, g) == Shortage(acts[g], Usage(acts, Holders(f, g))) = {}
             Value(f, g) == IF Fit(f, g) /\ ~Waits(g) THEN "granted" ELSE ContentionOf(acts[g])
             D == [x \in [proposals -> Kinds] \X proposals |-> Value(x[1], x[2])]
             rank == [g \in proposals |-> g]
  <1>1. \A f, g : Value(f, g) \in Kinds
    BY ContentionKind DEF Kinds
  <1>2. rank \in [proposals -> Nat] /\ "granted" \in Kinds
    BY ActivitiesAssumption DEF Kinds
  <1>3. ASSUME NEW f \in [proposals -> Kinds], NEW k \in [proposals -> Kinds], NEW g \in proposals,
               AgreeBelow(f, k, proposals, rank, rank[g])
        PROVE  Value(f, g) = Value(k, g)
    <2>1. {h \in proposals : h < g /\ f[h] = "granted"} = {h \in proposals : h < g /\ k[h] = "granted"}
      BY <1>3 DEF AgreeBelow
    <2>2. Holders(f, g) = Holders(k, g)
      BY <2>1
    <2> HIDE DEF Holders
    <2> QED
      BY <2>2
  <1> HIDE DEF Value, rank
  <1>4. D \in [[proposals -> Kinds] \X proposals -> Kinds]
    BY <1>1
  <1>5. \A f \in [proposals -> Kinds] : \A g \in proposals : D[<<f, g>>] = Value(f, g)
    OBVIOUS
  <1> HIDE DEF D
  <1>6. \A f, k \in [proposals -> Kinds] : \A g \in proposals :
          AgreeBelow(f, k, proposals, rank, rank[g]) => D[<<f, g>>] = D[<<k, g>>]
    BY <1>3, <1>5
  <1>7. \E f \in [proposals -> Kinds] : \A g \in proposals : f[g] = D[<<f, g>>]
    <2>1. Recursion(proposals, Kinds, rank, D)
      BY <1>2, <1>4, <1>6 DEF Recursion
    <2> QED
      BY <2>1, RankedRecursion
  <1>8. \E f : f = [g \in proposals |-> Value(f, g)]
    BY <1>5, <1>7
  <1>9. kind = CHOOSE f : f = [g \in proposals |-> Value(f, g)]
    BY DEF Admissions, Value
  <1>10. kind = [g \in proposals |-> Value(kind, g)]
    BY <1>8, <1>9
  <1>11. \A g \in proposals : kind[g] = Value(kind, g)
    BY <1>10
  <1>12. kind \in [proposals -> Kinds] /\ DOMAIN kind = proposals
    BY <1>1, <1>10
  <1>13. ASSUME NEW g \in proposals
         PROVE  /\ kind[g] # "granted" => kind[g] = ContentionOf(acts[g])
                /\ kind[g] = "granted" => ~Waits(g)
    <2>1. kind[g] = IF Fit(kind, g) /\ ~Waits(g) THEN "granted" ELSE ContentionOf(acts[g])
      BY <1>11 DEF Value
    <2>2. ContentionOf(acts[g]) # "granted"
      BY ContentionKind
    <2> HIDE DEF Fit, Waits
    <2> QED
      BY <2>1, <2>2
  <1> QED
    BY <1>12, <1>13

-----------------------------------------------------------------------------
(* The types of works and of activities, in a world or in a candidate.      *)
AnyStatus == {"active", "paused", "queued", "ready", "completed", "blocked", "failed", "cancelled"}
Record(g) == [status : AnyStatus, work : Works[g], since : Nat, updated : Nat, deadline : Nat, next : Nat]
StageType == [ends : Nat \ {0}, checkpoint : Nat \ {0}]

LEMMA WorkTyped ==
  ASSUME NEW g \in Agents, NEW w \in Works[g]
  PROVE  /\ w.claims \in [Pools -> Nat] /\ w.interruptible \in BOOLEAN
         /\ w.checkpoint \in Nat \ {0} /\ w.duration \in Nat /\ w.limit \in Nat
         /\ w.stages \in Seq(StageType) /\ Len(w.stages) \in Nat /\ DOMAIN w.stages = 1 .. Len(w.stages)
         /\ \A i \in 1 .. Len(w.stages) : w.stages[i] \in StageType
         /\ \A i, j \in 1 .. Len(w.stages) : i < j => w.stages[i].ends < w.stages[j].ends
         /\ w.stages # <<>> => /\ w.checkpoint = w.stages[1].checkpoint
                               /\ w.duration = w.stages[Len(w.stages)].ends
                               /\ Len(w.stages) \in 1 .. Len(w.stages) /\ 1 \in 1 .. Len(w.stages)
                               /\ w.duration > 0
  <1>1. /\ w.claims \in [Pools -> Nat] /\ w.interruptible \in BOOLEAN
        /\ w.checkpoint \in Nat \ {0} /\ w.duration \in Nat /\ w.limit \in Nat
        /\ w.stages \in Seq(StageType)
        /\ \A i, j \in DOMAIN w.stages : i < j => w.stages[i].ends < w.stages[j].ends
        /\ w.stages # <<>> => /\ w.checkpoint = w.stages[1].checkpoint
                              /\ w.duration = w.stages[Len(w.stages)].ends
    BY ActivitiesAssumption DEF StageType
  <1> DEFINE s == w.stages
  <1> HIDE DEF s
  <1>2. /\ Len(s) \in Nat /\ DOMAIN s = 1 .. Len(s)
        /\ \A i \in 1 .. Len(s) : s[i] \in StageType
        /\ s # <<>> => Len(s) \in 1 .. Len(s) /\ 1 \in 1 .. Len(s)
    BY <1>1 DEF s
  <1>3. s # <<>> => s[Len(s)].ends > 0
    BY <1>2 DEF StageType
  <1> QED
    BY <1>1, <1>2, <1>3 DEF s

LEMMA RecordTyped ==
  ASSUME NEW g \in Agents, NEW a \in Record(g)
  PROVE  /\ a.status \in AnyStatus /\ a.work \in Works[g] /\ a.since \in Nat /\ a.updated \in Nat
         /\ a.deadline \in Nat /\ a.next \in Nat /\ a.work.duration \in Nat
         /\ Ends(a) \in Nat
         /\ "status" \in DOMAIN a /\ a # NoActivity
  <1>1. /\ a.status \in AnyStatus /\ a.work \in Works[g] /\ a.since \in Nat /\ a.updated \in Nat
        /\ a.deadline \in Nat /\ a.next \in Nat /\ "status" \in DOMAIN a
    BY DEF Record
  <1>2. a.work.duration \in Nat
    BY <1>1, WorkTyped
  <1>3. Ends(a) \in Nat
    BY <1>1, <1>2 DEF Ends
  <1>4. a # NoActivity
    BY <1>1 DEF AnyStatus, NoActivity
  <1> QED
    BY <1>1, <1>2, <1>3, <1>4

LEMMA StoppedTyped ==
  ASSUME NEW g \in Agents, NEW a \in Record(g), NEW s \in AnyStatus
  PROVE  /\ Stopped(a, s) \in Record(g) /\ Stopped(a, s).status = s
         /\ Stopped(a, s).work = a.work /\ Stopped(a, s).since = a.since
         /\ Stopped(a, s).updated = a.updated /\ Stopped(a, s).deadline = a.deadline
  BY DEF Stopped, Record

(* A running activity has its next boundary ahead of it.                    *)
Ahead(a, now) == a.status = "active" => now < a.next

LEMMA CreatedTyped ==
  ASSUME NEW g \in Agents, NEW w \in Works[g], NEW at \in Nat, NEW deadline \in Nat
  PROVE  LET a == CreateActivity(w, at, deadline) IN
         /\ a \in Record(g) /\ a.status = "active" /\ a.work = w /\ a.since = at /\ a.updated = at
         /\ a.deadline = deadline /\ Ahead(a, at)
         /\ w.duration > 0 => a.next <= at + w.duration
         /\ a.next <= at + w.checkpoint
  <1> DEFINE step == IF w.duration = 0 THEN w.checkpoint ELSE Min({w.duration, w.checkpoint})
             a == CreateActivity(w, at, deadline)
  <1>1. w.duration \in Nat /\ w.checkpoint \in Nat \ {0}
    BY WorkTyped
  <1>2. step \in Nat \ {0} /\ step <= w.checkpoint /\ (w.duration > 0 => step <= w.duration)
    <2>1. CASE w.duration = 0
      BY <1>1, <2>1
    <2>2. CASE w.duration # 0
      <3> DEFINE S == {w.duration, w.checkpoint}
      <3>1. S \in SUBSET Nat /\ S # {}
        BY <1>1
      <3>2. Min(S) \in S /\ Min(S) \in Nat /\ \A y \in S : Min(S) <= y
        BY <3>1, MinOf
      <3>3. step = Min(S)
        BY <2>2
      <3> QED
        BY <1>1, <2>2, <3>2, <3>3
    <2> QED
      BY <2>1, <2>2
  <1>3. a = [status |-> "active", work |-> w, since |-> at, updated |-> at, deadline |-> deadline,
             next |-> at + step]
    BY DEF CreateActivity
  <1> HIDE DEF step, a
  <1>4. at + step \in Nat /\ at < at + step
        /\ at + step <= at + w.checkpoint /\ (w.duration > 0 => at + step <= at + w.duration)
    BY <1>1, <1>2
  <1>5. a \in Record(g)
    BY <1>3, <1>4 DEF Record, AnyStatus
  <1>6. /\ a.status = "active" /\ a.work = w /\ a.since = at /\ a.updated = at
        /\ a.deadline = deadline /\ a.next = at + step
    BY <1>3
  <1>7. Ahead(a, at)
    BY <1>4, <1>6 DEF Ahead
  <1> QED
    BY <1>4, <1>5, <1>6, <1>7 DEF a

(* The first boundary of a staged activity is the first checkpoint, whether  *)
(* or not the first stage ends before; every later one is taken with the    *)
(* ends of the stages.  Due in the schedule of an activity are its own end   *)
(* and the ends of its stages, if the first checkpoint is not beyond them.  *)
Met(w) == w.stages # <<>> => w.checkpoint <= w.stages[1].ends

Instants(a) ==
  (IF Met(a.work) THEN {a.since + a.work.stages[i].ends : i \in DOMAIN a.work.stages} ELSE {})
    \cup (IF a.work.duration > 0 THEN {Ends(a)} ELSE {})
Clear(a, from, to) == \A m \in Instants(a) : m <= from \/ m >= to

(* nextActivityBoundary of what has not ended comes later, and before       *)
(* anything that is scheduled.                                              *)
LEMMA NextBoundary ==
  ASSUME NEW g \in Agents, NEW a \in Record(g), NEW at \in Nat, a.work.duration > 0 => at < Ends(a)
  PROVE  /\ NextActivityBoundary(a, at) \in Nat
         /\ at < NextActivityBoundary(a, at)
         /\ Clear(a, at, NextActivityBoundary(a, at))
  <1> DEFINE w == a.work
             stages == w.stages
             later == {i \in DOMAIN stages : at < a.since + stages[i].ends}
             current == stages[Min(later)]
             n == NextActivityBoundary(a, at)
  <1>1. /\ w \in Works[g] /\ a.since \in Nat /\ w.duration \in Nat /\ w.checkpoint \in Nat \ {0}
        /\ Ends(a) \in Nat /\ Ends(a) = a.since + w.duration
    BY RecordTyped, WorkTyped DEF Ends
  <1>2. /\ Len(stages) \in Nat /\ DOMAIN stages = 1 .. Len(stages)
        /\ \A i \in 1 .. Len(stages) : stages[i] \in StageType
        /\ \A i, j \in 1 .. Len(stages) : i < j => stages[i].ends < stages[j].ends
        /\ stages # <<>> => /\ w.duration = stages[Len(stages)].ends
                            /\ Len(stages) \in 1 .. Len(stages) /\ w.duration > 0
    BY <1>1, WorkTyped
  <1>3. CASE stages # <<>>
    <2>1. later \in SUBSET Nat /\ Len(stages) \in later
      BY <1>1, <1>2, <1>3
    <2>2. Min(later) \in later /\ \A i \in later : Min(later) <= i
      <3>1. later # {}
        BY <2>1
      <3> HIDE DEF later
      <3> QED
        BY <2>1, <3>1, MinOf
    <2>3. /\ Min(later) \in 1 .. Len(stages) /\ at < a.since + current.ends
          /\ current.ends \in Nat \ {0} /\ current.checkpoint \in Nat \ {0}
      BY <1>2, <2>2 DEF StageType
    <2> DEFINE from == a.since
               end == current.ends
               check == current.checkpoint
               S == {from + end, at + check}
    <2>4. n = Min(S)
      BY <1>3 DEF NextActivityBoundary
    <2>a. from \in Nat /\ end \in Nat /\ check \in Nat \ {0} /\ at < from + end
      BY <1>1, <2>3
    <2> HIDE DEF end, check, from
    <2>5. n \in S /\ n <= from + end
      <3>1. S \in SUBSET Nat /\ S # {}
        BY <2>a
      <3>2. from + end \in S
        OBVIOUS
      <3> HIDE DEF S, n
      <3> QED
        BY <2>4, <3>1, <3>2, MinOf
    <2> HIDE DEF n
    <2>6. n \in Nat /\ at < n
      BY <2>a, <2>5
    <2>7. ASSUME NEW i \in 1 .. Len(stages)
          PROVE  a.since + stages[i].ends <= at \/ a.since + stages[i].ends >= n
      <3>1. stages[i].ends \in Nat
        BY <1>2 DEF StageType
      <3>2. CASE i \in later
        <4>1. Min(later) <= i
          BY <2>2, <3>2
        <4>2. Min(later) = i \/ current.ends < stages[i].ends
          <5> DEFINE k == Min(later)
          <5>1. k \in 1 .. Len(stages) /\ k <= i /\ current = stages[k]
            BY <2>3, <4>1
          <5> HIDE DEF k, current
          <5>2. k = i \/ k < i
            BY <5>1, <1>2
          <5>3. k = i \/ current.ends < stages[i].ends
            BY <5>1, <5>2, <1>2
          <5> QED
            BY <5>3 DEF k
        <4> DEFINE e == stages[i].ends
        <4>3. Min(later) = i => end = e
          BY DEF end
        <4>4. (end = e \/ end < e) /\ e \in Nat
          BY <4>2, <4>3, <3>1 DEF end
        <4> HIDE DEF e
        <4>5. from + e >= n
          BY <2>a, <2>5, <2>6, <4>4
        <4>6. a.since + stages[i].ends >= n
          BY <4>5 DEF e, from
        <4> QED
          BY <4>6
      <3>3. CASE i \notin later
        BY <1>1, <1>2, <3>1, <3>3
      <3> QED
        BY <3>2, <3>3
    <2>8. Ends(a) = a.since + stages[Len(stages)].ends
      BY <1>1, <1>2, <1>3
    <2>9. Clear(a, at, n)
      BY <1>2, <1>3, <2>7, <2>8 DEF Clear, Instants
    <2> QED
      BY <2>6, <2>9 DEF n
  <1>4. CASE stages = <<>>
    <2>0. Instants(a) = IF w.duration > 0 THEN {Ends(a)} ELSE {}
      BY <1>4 DEF Instants
    <2>1. CASE w.duration = 0
      <3>1. n = at + w.checkpoint
        BY <1>4, <2>1 DEF NextActivityBoundary
      <3>2. Clear(a, at, n)
        BY <2>0, <2>1 DEF Clear
      <3> HIDE DEF n
      <3>3. n \in Nat /\ at < n
        BY <3>1, <1>1
      <3> QED
        BY <3>2, <3>3 DEF n
    <2>2. CASE w.duration # 0
      <3> DEFINE S == {Ends(a), at + w.checkpoint}
      <3>1. n = Min(S)
        BY <1>4, <2>2 DEF NextActivityBoundary
      <3>2. n \in S /\ n <= Ends(a)
        <4>1. S \in SUBSET Nat /\ Ends(a) \in S
          BY <1>1
        <4>2. S # {}
          BY <4>1
        <4> HIDE DEF S, n
        <4> QED
          BY <3>1, <4>1, <4>2, MinOf
      <3> HIDE DEF n
      <3>3. n \in Nat /\ at < n
        BY <1>1, <2>2, <3>2
      <3>4. Clear(a, at, n)
        BY <2>0, <2>2, <1>1, <3>2, <3>3 DEF Clear
      <3> QED
        BY <3>3, <3>4 DEF n
    <2> QED
      BY <2>1, <2>2
  <1> QED
    BY <1>3, <1>4

-----------------------------------------------------------------------------
(* An activity at a time: typed, with its next boundary ahead, and with     *)
(* nothing that is due before that.                                         *)
Sound(g, a, now) ==
  \/ a = NoActivity
  \/ /\ a \in Record(g) /\ Ahead(a, now) /\ a.updated <= now
     /\ a.status = "active" => Clear(a, now, a.next)

(* What runs throughout the step passed nothing that is due.                *)
Appointed(a) == Instants(a) \cup ({a.deadline} \ {0})
Crossed(a, from, to) ==
  a.status \in {"active", "paused"} /\ a.updated = to =>
    \A m \in Appointed(a) : m <= from \/ m >= to

AllSound(acts, now) == \A g \in Agents : Sound(g, acts[g], now)

LEMMA SoundStatus ==
  ASSUME NEW g \in Agents, NEW a, NEW now, Sound(g, a, now), a.status \in AnyStatus
  PROVE  a \in Record(g) /\ Ahead(a, now) /\ a.updated <= now /\ "status" \in DOMAIN a
         /\ (a.status = "active" => Clear(a, now, a.next))
  BY RecordTyped DEF Sound, NoActivity, AnyStatus

LEMMA SoundStopped ==
  ASSUME NEW g \in Agents, NEW a, NEW now, Sound(g, a, now), a # NoActivity, NEW s \in AnyStatus \ {"active"}
  PROVE  Sound(g, Stopped(a, s), now) /\ Stopped(a, s) # NoActivity
  <1>1. a \in Record(g) /\ a.updated <= now
    BY DEF Sound
  <1>2. Stopped(a, s) \in Record(g) /\ Stopped(a, s).status = s /\ Stopped(a, s).updated = a.updated
    BY <1>1, StoppedTyped
  <1>3. Stopped(a, s) # NoActivity
    BY <1>2, RecordTyped
  <1> QED
    BY <1>1, <1>2, <1>3 DEF Sound, Ahead

LEMMA SoundCreated ==
  ASSUME NEW g \in Agents, NEW w \in Works[g], NEW now \in Nat, NEW deadline \in Nat
  PROVE  Sound(g, CreateActivity(w, now, deadline), now) /\ CreateActivity(w, now, deadline) # NoActivity
  <1> DEFINE a == CreateActivity(w, now, deadline)
  <1>1. /\ a \in Record(g) /\ a.status = "active" /\ a.work = w /\ a.since = now /\ a.updated = now
        /\ Ahead(a, now)
        /\ w.duration > 0 => a.next <= now + w.duration
        /\ a.next <= now + w.checkpoint
    BY CreatedTyped
  <1> HIDE DEF a
  <1>2. a # NoActivity /\ a.next \in Nat
    BY <1>1, RecordTyped
  <1>3. Clear(a, now, a.next)
    <2> DEFINE stages == w.stages
    <2>1. /\ w.checkpoint \in Nat /\ w.duration \in Nat
          /\ Len(stages) \in Nat /\ DOMAIN stages = 1 .. Len(stages)
          /\ \A i \in 1 .. Len(stages) : stages[i] \in StageType
          /\ \A i, j \in 1 .. Len(stages) : i < j => stages[i].ends < stages[j].ends
          /\ stages # <<>> => 1 \in 1 .. Len(stages)
      BY WorkTyped
    <2>2. ASSUME Met(w), NEW i \in 1 .. Len(stages) PROVE now + stages[i].ends >= a.next
      <3>1. stages # <<>> /\ 1 \in 1 .. Len(stages)
        BY <2>1, <2>2
      <3>2. w.checkpoint <= stages[1].ends
        BY <3>1, <2>2 DEF Met
      <3>3. stages[i].ends \in Nat /\ stages[1].ends \in Nat
        BY <2>1, <3>1 DEF StageType
      <3>4. i = 1 \/ 1 < i
        BY <2>1
      <3>5. i = 1 \/ stages[1].ends < stages[i].ends
        BY <2>1, <3>1, <3>4
      <3> DEFINE e == stages[i].ends
                 f == stages[1].ends
      <3>6. e = f \/ f < e
        BY <3>5
      <3> HIDE DEF e, f
      <3>7. now + e >= a.next
        BY <1>1, <1>2, <2>1, <3>2, <3>3, <3>6 DEF e, f
      <3> QED
        BY <3>7 DEF e
    <2>3. w.duration > 0 => Ends(a) >= a.next
      BY <1>1, <1>2, <2>1 DEF Ends
    <2> QED
      BY <1>1, <2>1, <2>2, <2>3 DEF Clear, Instants
  <1>4. Sound(g, a, now)
    BY <1>1, <1>3 DEF Sound
  <1> QED
    BY <1>2, <1>4 DEF a

LEMMA SoundStarted ==
  ASSUME NEW g \in Agents, NEW a, elapsed \in Nat, Sound(g, a, elapsed)
  PROVE  Sound(g, StartReady(a), elapsed)
  <1>1. CASE a.status # "ready"
    BY <1>1 DEF StartReady
  <1>2. CASE a.status = "ready"
    <2>1. a \in Record(g)
      BY <1>2, SoundStatus DEF AnyStatus
    <2>2. a.work \in Works[g] /\ a.deadline \in Nat
      BY <2>1, RecordTyped
    <2> DEFINE started == CreateActivity(a.work, elapsed, a.deadline)
    <2>3. Sound(g, started, elapsed) /\ started # NoActivity
      BY <2>2, SoundCreated
    <2> HIDE DEF started
    <2>4. Sound(g, Stopped(started, "blocked"), elapsed)
      BY <2>3, SoundStopped DEF AnyStatus
    <2>5. StartReady(a) \in {started, Stopped(started, "blocked")}
      BY <1>2 DEF StartReady, started
    <2> QED
      BY <2>3, <2>4, <2>5
  <1> QED
    BY <1>1, <1>2

LEMMA SoundOnset ==
  ASSUME NEW g \in Agents, NEW w \in Works[g], elapsed \in Nat
  PROVE  Sound(g, Onset(w), elapsed) /\ Onset(w) # NoActivity
  <1>1. (IF w.limit = 0 THEN 0 ELSE elapsed + w.limit) \in Nat
    BY WorkTyped
  <1> QED
    BY <1>1, SoundCreated DEF Onset

LEMMA SoundAdmitted ==
  ASSUME NEW acts, NEW proposals \in SUBSET Agents, NEW now, AllSound(acts, now),
         \A g \in proposals : acts[g] # NoActivity
  PROVE  LET admitted == Admitted(acts, Admissions(acts, proposals).kind) IN
         /\ AllSound(admitted, now)
         /\ \A g \in proposals : admitted[g] # NoActivity
  <1> DEFINE kind == Admissions(acts, proposals).kind
             admitted == Admitted(acts, kind)
  <1>1. DOMAIN kind = proposals
    BY AdmissionKinds
  <1> HIDE DEF kind
  <1>2. ASSUME NEW g \in Agents
        PROVE  Sound(g, admitted[g], now) /\ (g \in proposals => admitted[g] # NoActivity)
    <2>1. Sound(g, acts[g], now)
      BY DEF AllSound
    <2>2. CASE g \notin proposals
      BY <1>1, <2>1, <2>2 DEF Admitted
    <2>3. CASE g \in proposals
      <3>1. /\ Sound(g, Stopped(acts[g], "queued"), now) /\ Stopped(acts[g], "queued") # NoActivity
            /\ Sound(g, Stopped(acts[g], "blocked"), now) /\ Stopped(acts[g], "blocked") # NoActivity
        BY <2>1, <2>3, SoundStopped DEF AnyStatus
      <3>2. admitted[g] \in {acts[g], Stopped(acts[g], "queued"), Stopped(acts[g], "blocked")}
        BY DEF Admitted
      <3> HIDE DEF admitted
      <3> QED
        BY <2>1, <2>3, <3>1, <3>2
    <2> QED
      BY <2>2, <2>3
  <1> QED
    BY <1>2 DEF AllSound, kind

(* The boundary of a step lies ahead, and not beyond the next boundary of   *)
(* any running activity or the failure of its assertion.                    *)
LEMMA SelectedBoundary ==
  ASSUME elapsed \in Nat, NEW acts, AllSound(acts, elapsed), NEW to, to = SelectTemporalBoundary(acts)
  PROVE  /\ to \in Nat /\ elapsed < to
         /\ \A g \in Agents : acts[g].status = "active" =>
              to <= acts[g].next /\ (elapsed < acts[g].deadline => to <= acts[g].deadline)
  <1> DEFINE running == {g \in Agents : acts[g].status = "active"}
             ends == UNION {Boundaries(acts[g]) : g \in running}
             due == {Timers[g] : g \in {h \in Agents : Timers[h] > elapsed}}
             S == {elapsed + MaxAutonomousSpan} \cup ends \cup due
  <1>1. ASSUME NEW g \in running
        PROVE  /\ acts[g].next \in Nat /\ elapsed < acts[g].next /\ acts[g].deadline \in Nat
               /\ \A m \in Boundaries(acts[g]) : m \in Nat /\ elapsed < m
    <2>1. acts[g] \in Record(g) /\ Ahead(acts[g], elapsed) /\ acts[g].status = "active"
      BY SoundStatus DEF AllSound, AnyStatus
    <2>2. acts[g].next \in Nat /\ elapsed < acts[g].next /\ acts[g].deadline \in Nat
      BY <2>1, RecordTyped DEF Ahead
    <2> QED
      BY <2>2 DEF Boundaries
  <1>2. ASSUME NEW m \in S PROVE m \in Nat /\ elapsed < m
    <2>1. CASE m = elapsed + MaxAutonomousSpan
      <3>1. MaxAutonomousSpan \in Nat \ {0}
        BY ActivitiesAssumption
      <3> QED
        BY <2>1, <3>1
    <2>2. CASE m \in ends
      <3>1. PICK g \in running : m \in Boundaries(acts[g])
        BY <2>2
      <3> QED
        BY <1>1, <3>1
    <2>3. CASE m \in due
      <3>1. PICK g \in Agents : m = Timers[g] /\ Timers[g] > elapsed
        BY <2>3
      <3>2. Timers[g] \in Nat
        BY ActivitiesAssumption
      <3> QED
        BY <3>1, <3>2
    <2> HIDE DEF ends, due
    <2> QED
      BY <2>1, <2>2, <2>3
  <1>3. ASSUME NEW g \in running
        PROVE  acts[g].next \in S /\ (elapsed < acts[g].deadline => acts[g].deadline \in S)
    <2>1. Boundaries(acts[g]) \subseteq S
      OBVIOUS
    <2>2. acts[g].next \in Boundaries(acts[g])
      BY DEF Boundaries
    <2>3. elapsed < acts[g].deadline => acts[g].deadline \notin 0 .. elapsed
      BY <1>1
    <2>4. elapsed < acts[g].deadline => acts[g].deadline \in Boundaries(acts[g])
      BY <2>3 DEF Boundaries
    <2> HIDE DEF S
    <2> QED
      BY <2>1, <2>2, <2>4
  <1>4. to = Min(S)
    BY DEF SelectTemporalBoundary
  <1>6. S # {}
    <2> HIDE DEF ends, due
    <2> QED
      OBVIOUS
  <1> HIDE DEF S
  <1>5. to \in S /\ \A m \in S : to <= m
    BY <1>2, <1>4, <1>6, MinOf
  <1> QED
    BY <1>2, <1>3, <1>5

LEMMA SoundMoved ==
  ASSUME elapsed \in Nat, NEW g \in Agents, NEW a \in Record(g), NEW to \in Nat, NEW n \in Nat,
         a.status = "active", elapsed < to, to < n, to <= a.next,
         elapsed < a.deadline => to <= a.deadline,
         Clear(a, elapsed, a.next), Clear(a, to, n),
         NEW b, b = [a EXCEPT !.updated = to, !.next = n]
  PROVE  Sound(g, b, to) /\ Crossed(b, elapsed, to)
  <1>1. /\ a.next \in Nat /\ a.deadline \in Nat /\ Ends(a) \in Nat /\ a.work.duration \in Nat
        /\ a.since \in Nat /\ a.work \in Works[g]
    BY RecordTyped DEF Record
  <1>2. /\ b \in Record(g) /\ b.status = "active" /\ b.updated = to /\ b.next = n
        /\ b.work = a.work /\ b.since = a.since /\ b.deadline = a.deadline
    BY DEF Record, AnyStatus
  <1>3. Instants(b) = Instants(a) /\ Appointed(b) = Instants(a) \cup ({a.deadline} \ {0})
    BY <1>2 DEF Instants, Appointed, Ends
  <1>4. Sound(g, b, to)
    BY <1>2, <1>3 DEF Sound, Ahead, Clear
  <1>5. ASSUME NEW m \in Appointed(b) PROVE m <= elapsed \/ m >= to
    <2>1. CASE m \in Instants(a)
      <3>1. m <= elapsed \/ m >= a.next
        BY <1>5, <2>1 DEF Clear
      <3>2. m \in Nat
        <4>1. \A i \in DOMAIN a.work.stages : a.work.stages[i].ends \in Nat
          BY <1>1, WorkTyped DEF StageType
        <4> QED
          BY <1>1, <2>1, <4>1 DEF Instants
      <3> QED
        BY <1>1, <3>1, <3>2
    <2>2. CASE m = a.deadline
      BY <1>1, <2>2
    <2> QED
      BY <1>3, <1>5, <2>1, <2>2
  <1> QED
    BY <1>4, <1>5 DEF Crossed

LEMMA SoundAdvanced ==
  ASSUME elapsed \in Nat, NEW acts, AllSound(acts, elapsed), NEW to, to = SelectTemporalBoundary(acts)
  PROVE  /\ AllSound(Advanced(acts, to), to)
         /\ \A g \in Agents : Crossed(Advanced(acts, to)[g], elapsed, to)
  <1>1. /\ to \in Nat /\ elapsed < to
        /\ \A g \in Agents : acts[g].status = "active" =>
             to <= acts[g].next /\ (elapsed < acts[g].deadline => to <= acts[g].deadline)
    BY SelectedBoundary
  <1> SUFFICES ASSUME NEW g \in Agents
               PROVE  Sound(g, Advanced(acts, to)[g], to) /\ Crossed(Advanced(acts, to)[g], elapsed, to)
    BY DEF AllSound
  <1> DEFINE a == acts[g]
             b == Advanced(acts, to)[g]
             n == NextActivityBoundary(a, to)
  <1>2. Sound(g, a, elapsed)
    BY DEF AllSound
  <1>3. CASE a.status # "active"
    <2>1. b = a
      BY <1>3 DEF Advanced
    <2>2. a = NoActivity \/ (a \in Record(g) /\ a.updated <= elapsed /\ a.updated \in Nat)
      BY <1>2, RecordTyped DEF Sound
    <2> HIDE DEF a, b
    <2>3. Sound(g, a, to)
      BY <1>1, <1>3, <2>2 DEF Sound, Ahead
    <2>4. Crossed(a, elapsed, to)
      <3>1. CASE a = NoActivity
        BY <3>1 DEF Crossed, NoActivity
      <3>2. CASE a.updated <= elapsed /\ a.updated \in Nat
        BY <1>1, <3>2 DEF Crossed
      <3> QED
        BY <2>2, <3>1, <3>2
    <2>5. Sound(g, b, to) /\ Crossed(b, elapsed, to)
      BY <2>1, <2>3, <2>4
    <2> QED
      BY <2>5 DEF a, b
  <1>4. CASE a.status = "active"
    <2>1. /\ a \in Record(g) /\ Clear(a, elapsed, a.next)
          /\ to <= a.next /\ (elapsed < a.deadline => to <= a.deadline)
      BY <1>1, <1>2, <1>4, SoundStatus DEF AnyStatus
    <2>2. /\ a.next \in Nat /\ a.deadline \in Nat /\ Ends(a) \in Nat /\ a.work.duration \in Nat
          /\ a.since \in Nat /\ a.work \in Works[g]
      BY <2>1, RecordTyped
    <2>3. CASE a.work.duration > 0 /\ to >= Ends(a)
      <3>1. b = Stopped(a, "completed")
        BY <1>4, <2>3 DEF Advanced
      <3>2. b \in Record(g) /\ b.status = "completed" /\ b.updated = a.updated
        BY <2>1, <3>1, StoppedTyped DEF AnyStatus
      <3>3. a.updated \in Nat /\ a.updated <= elapsed
        BY <1>2, <1>4, <2>1, SoundStatus, RecordTyped DEF AnyStatus
      <3> HIDE DEF a, b
      <3>4. b.updated <= to
        BY <1>1, <3>2, <3>3
      <3>5. Sound(g, b, to) /\ Crossed(b, elapsed, to)
        BY <3>2, <3>4 DEF Sound, Crossed, Ahead
      <3> QED
        BY <3>5 DEF a, b
    <2>4. CASE ~(a.work.duration > 0 /\ to >= Ends(a))
      <3>1. a.work.duration > 0 => to < Ends(a)
        BY <1>1, <2>2, <2>4
      <3>2. n \in Nat /\ to < n /\ Clear(a, to, n)
        BY <1>1, <2>1, <3>1, NextBoundary
      <3>4. CASE g \in Due(acts, to)
        <4>1. b = [a EXCEPT !.updated = to, !.next = n]
          BY <1>4, <2>4, <3>4 DEF Advanced
        <4>2. Sound(g, b, to) /\ Crossed(b, elapsed, to)
          <5> HIDE DEF a, b, n
          <5> QED
            BY <1>1, <1>4, <2>1, <3>2, <4>1, SoundMoved
        <4> QED
          BY <4>2 DEF a, b
      <3>5. CASE g \notin Due(acts, to)
        <4>1. b = [a EXCEPT !.updated = to]
          BY <1>4, <2>4, <3>5 DEF Advanced
        <4>2. to # a.next
          BY <1>4, <3>5 DEF Due, Boundaries
        <4> HIDE DEF a, b, n
        <4>3. b = [a EXCEPT !.updated = to, !.next = a.next]
          BY <2>1, <4>1 DEF Record
        <4>4. to < a.next
          BY <1>1, <2>1, <2>2, <4>2
        <4>5. Clear(a, to, a.next)
          <5> SUFFICES ASSUME NEW m \in Instants(a) PROVE m <= to \/ m >= a.next
            BY DEF Clear
          <5>1. m <= elapsed \/ m >= a.next
            BY <2>1 DEF Clear
          <5>2. m \in Nat
            <6>1. \A i \in DOMAIN a.work.stages : a.work.stages[i].ends \in Nat
              BY <2>2, WorkTyped DEF StageType
            <6> QED
              BY <2>2, <6>1 DEF Instants
          <5> QED
            BY <1>1, <5>1, <5>2
        <4>6. Sound(g, b, to) /\ Crossed(b, elapsed, to)
          BY <1>1, <1>4, <2>1, <2>2, <4>3, <4>4, <4>5, SoundMoved
        <4> QED
          BY <4>6 DEF a, b
      <3> QED
        BY <3>4, <3>5
    <2> QED
      BY <2>3, <2>4
  <1> QED
    BY <1>3, <1>4

-----------------------------------------------------------------------------
(* The invariant: the world is sound, and so is the step under construction, *)
(* before the advance at the time of the world and after it at the boundary. *)
WorldSound == elapsed \in Nat /\ decisions \in SUBSET Agents /\ AllSound(activities, elapsed)
              /\ \A g \in Agents : activities[g] \in Activity(g) \cup {NoActivity}

PhaseHolds == phase \in {"idle", "prepared", "advanced", "resolved"}
              /\ (phase = "idle" <=> candidate = NoCandidate)

PreparedSound ==
  phase = "prepared" =>
    /\ AllSound(candidate.activities, elapsed)
    /\ \A g \in candidate.fresh : candidate.activities[g] # NoActivity

AdvancedSound ==
  phase \in {"advanced", "resolved"} =>
    /\ "to" \in DOMAIN candidate /\ candidate.to \in Nat /\ elapsed < candidate.to
    /\ AllSound(candidate.activities, candidate.to)
    /\ \A g \in Agents : Crossed(candidate.activities[g], elapsed, candidate.to)

SchedInv == IInv /\ WorldSound /\ PhaseHolds /\ PreparedSound /\ AdvancedSound

LEMMA SchedInit == Init => SchedInv
  <1> SUFFICES ASSUME Init PROVE SchedInv
    OBVIOUS
  <1>1. /\ elapsed = 0 /\ activities = [g \in Agents |-> NoActivity] /\ decisions = {}
        /\ phase = "idle" /\ candidate = NoCandidate
    BY DEF Init
  <1>2. WorldSound
    BY <1>1 DEF WorldSound, AllSound, Sound
  <1> QED
    BY <1>1, <1>2, InitHolds DEF SchedInv, PhaseHolds, PreparedSound, AdvancedSound

LEMMA SchedPrepare ==
  ASSUME SchedInv, IInv', NEW acting \in Actors, Prepare(acting)
  PROVE  SchedInv'
  <1> DEFINE started == [g \in Agents |-> StartReady(activities[g])]
             Planned(choice) == [g \in Agents |-> IF g \in acting THEN Onset(choice[g]) ELSE started[g]]
  <1>1. PICK choice \in Plans(acting) :
          candidate' = [activities |-> Admitted(Planned(choice), Admissions(Planned(choice), acting).kind),
                        fresh |-> acting,
                        started |-> Reserved,
                        unstarted |-> {g \in Reserved : started[g].status = "blocked"},
                        cancelled |-> Replaced(acting)]
    BY DEF Prepare
  <1>2. phase' = "prepared" /\ UNCHANGED world
    BY DEF Prepare
  <1>3. acting \in SUBSET Agents
    BY ActivitiesAssumption DEF Actors, Eligible
  <1>4. elapsed \in Nat /\ \A g \in Agents : Sound(g, activities[g], elapsed)
    BY DEF SchedInv, WorldSound, AllSound
  <1>5. \A g \in acting : choice[g] \in Works[g]
    BY DEF Plans
  <1>6. ASSUME NEW g \in Agents
        PROVE  Sound(g, Planned(choice)[g], elapsed) /\ (g \in acting => Planned(choice)[g] # NoActivity)
    <2>1. CASE g \in acting
      BY <2>1, <1>4, <1>5, SoundOnset
    <2>2. CASE g \notin acting
      BY <2>2, <1>4, SoundStarted
    <2> QED
      BY <2>1, <2>2
  <1> DEFINE acts == Planned(choice)
             admitted == Admitted(acts, Admissions(acts, acting).kind)
  <1>7. candidate'.activities = admitted /\ candidate'.fresh = acting /\ "fresh" \in DOMAIN candidate'
    BY <1>1
  <1> HIDE DEF acts
  <1>8. AllSound(acts, elapsed) /\ \A g \in acting : acts[g] # NoActivity
    BY <1>3, <1>6 DEF AllSound, acts
  <1>9. AllSound(admitted, elapsed) /\ \A g \in acting : admitted[g] # NoActivity
    BY <1>3, <1>8, SoundAdmitted
  <1> HIDE DEF admitted
  <1>10. PreparedSound'
    BY <1>2, <1>7, <1>9 DEF PreparedSound, AllSound, world
  <1>11. candidate' # NoCandidate
    BY <1>7 DEF NoCandidate
  <1>12. WorldSound'
    BY <1>2 DEF SchedInv, WorldSound, AllSound, world
  <1> QED
    BY <1>2, <1>10, <1>11, <1>12 DEF SchedInv, PhaseHolds, AdvancedSound

(* A reaction leaves nothing unsound behind: what it replaces is planned    *)
(* anew, what was queued or blocked starts over as a proposal.              *)
LEMMA SoundProposed ==
  ASSUME SchedInv, phase = "prepared", NEW r \in Reactions,
         NEW fresh, fresh = candidate.fresh \cup Reacting(r, {"replace"})
  PROVE  /\ AllSound(ProposedAgain(r), elapsed)
         /\ fresh \in SUBSET Agents
         /\ \A g \in fresh : ProposedAgain(r)[g] # NoActivity
  <1>1. /\ elapsed \in Nat /\ candidate.fresh \subseteq Agents
        /\ \A g \in Agents : Sound(g, candidate.activities[g], elapsed)
        /\ \A g \in candidate.fresh : candidate.activities[g] # NoActivity
    BY DEF SchedInv, WorldSound, IInv, PreparedHolds, PreparedSound, AllSound
  <1>2. \A g \in Agents :
          /\ r[g].kind \in {"pause", "cancel", "replace"} => candidate.activities[g].status = "active"
          /\ r[g].kind = "replace" => r[g].choice \in Works[g]
    BY ReactionDecided
  <1>3. fresh \in SUBSET Agents
    BY <1>1 DEF Reacting
  <1>4. ASSUME NEW g \in Agents
        PROVE  /\ Sound(g, ProposedAgain(r)[g], elapsed)
               /\ g \in fresh => ProposedAgain(r)[g] # NoActivity
    <2> DEFINE a == candidate.activities[g]
               b == ProposedAgain(r)[g]
    <2>1. Sound(g, a, elapsed)
      BY <1>1
    <2>2. CASE r[g].kind \in {"pause", "cancel"}
      <3>1. a # NoActivity
        BY <1>2, <2>2 DEF NoActivity
      <3>2. b \in {Stopped(a, "paused"), Stopped(a, "cancelled")}
        <4>1. CASE r[g].kind = "pause"
          BY <1>2, <2>2, <4>1 DEF ProposedAgain
        <4>2. CASE r[g].kind = "cancel"
          BY <1>2, <2>2, <4>2 DEF ProposedAgain
        <4> QED
          BY <2>2, <4>1, <4>2
      <3> HIDE DEF a, b
      <3>3. Sound(g, b, elapsed) /\ b # NoActivity
        BY <2>1, <3>1, <3>2, SoundStopped DEF AnyStatus
      <3> QED
        BY <3>3 DEF b
    <2>3. CASE r[g].kind = "replace"
      <3>1. b = Onset(r[g].choice)
        <4>1. r[g].kind # "pause" /\ r[g].kind # "cancel"
          BY <2>3
        <4> QED
          BY <1>2, <2>3, <4>1 DEF ProposedAgain
      <3> QED
        BY <1>1, <1>2, <2>3, <3>1, SoundOnset
    <2>4. CASE r[g].kind \notin {"pause", "cancel", "replace"}
               /\ g \in candidate.fresh /\ a.status \in {"queued", "blocked"}
      <3>1. b = CreateActivity(a.work, elapsed, a.deadline)
        BY <2>4 DEF ProposedAgain
      <3>2. a \in Record(g)
        BY <2>1, <2>4, SoundStatus DEF AnyStatus
      <3>3. a.work \in Works[g] /\ a.deadline \in Nat
        BY <3>2, RecordTyped
      <3>4. Sound(g, b, elapsed) /\ b # NoActivity
        BY <1>1, <3>1, <3>3, SoundCreated
      <3> QED
        BY <3>4
    <2>5. CASE r[g].kind \notin {"pause", "cancel", "replace"}
               /\ ~(g \in candidate.fresh /\ a.status \in {"queued", "blocked"})
      <3>1. b = a
        BY <2>5 DEF ProposedAgain
      <3>2. g \in fresh => g \in candidate.fresh
        BY <2>5 DEF Reacting
      <3> QED
        BY <1>1, <2>1, <3>1, <3>2
    <2> QED
      BY <2>2, <2>3, <2>4, <2>5
  <1> QED
    BY <1>3, <1>4 DEF AllSound

LEMMA SchedComplete ==
  ASSUME SchedInv, IInv', Complete
  PROVE  SchedInv'
  <1>1. phase = "prepared" /\ phase' = "advanced" /\ UNCHANGED world
    BY DEF Complete
  <1>2. PICK r \in Reactions :
          LET fresh == candidate.fresh \cup Reacting(r, {"replace"})
              proposed == ProposedAgain(r)
              plan == Admissions(proposed, fresh)
              admitted == Admitted(proposed, plan.kind)
              to == SelectTemporalBoundary(admitted)
              due == Due(admitted, to)
              advanced == Advanced(admitted, to)
              woken == {g \in Agents : Timers[g] = to}
              deferred == {g \in fresh : plan.kind[g] \in {"queue", "reject"}}
              rivals == {g \in Agents \cap plan.rivals : admitted[g].status \notin {"none", "queued"}}
          IN candidate' =
               [activities |-> advanced, fresh |-> fresh, to |-> to, due |-> due,
                kept |-> Reacting(r, {"continue"}),
                started |-> candidate.started, unstarted |-> candidate.unstarted,
                cancelled |-> candidate.cancelled,
                queued |-> {g \in fresh : plan.kind[g] = "queue"},
                resolving |-> ((((fresh \ deferred) \cup rivals) \ woken) \cup due),
                points |-> {g \in Agents : advanced[g].status = "completed"} \cup woken
                             \cup {g \in fresh : plan.kind[g] = "reject"} \cup candidate.unstarted
                             \cup Reacting(r, {"pause", "cancel"})]
    BY DEF Complete
  <1> DEFINE fresh == candidate.fresh \cup Reacting(r, {"replace"})
             proposed == ProposedAgain(r)
             admitted == Admitted(proposed, Admissions(proposed, fresh).kind)
             to == SelectTemporalBoundary(admitted)
             advanced == Advanced(admitted, to)
  <1>4. candidate'.activities = advanced /\ candidate'.to = to /\ {"to", "fresh"} \subseteq DOMAIN candidate'
    BY <1>2
  <1>5. AllSound(proposed, elapsed) /\ fresh \in SUBSET Agents /\ \A g \in fresh : proposed[g] # NoActivity
    BY <1>1, SoundProposed
  <1> HIDE DEF proposed, fresh
  <1>6. AllSound(admitted, elapsed)
    BY <1>5, SoundAdmitted
  <1> HIDE DEF admitted
  <1>7. elapsed \in Nat
    BY DEF SchedInv, WorldSound
  <1>8. to \in Nat /\ elapsed < to
    BY <1>6, <1>7, SelectedBoundary
  <1>9. AllSound(advanced, to) /\ \A g \in Agents : Crossed(advanced[g], elapsed, to)
    BY <1>6, <1>7, SoundAdvanced
  <1> HIDE DEF to, advanced
  <1>10. AdvancedSound'
    BY <1>1, <1>4, <1>8, <1>9 DEF AdvancedSound, AllSound, Crossed, world
  <1>11. candidate' # NoCandidate
    BY <1>4 DEF NoCandidate
  <1>12. WorldSound'
    BY <1>1 DEF SchedInv, WorldSound, AllSound, world
  <1> QED
    BY <1>1, <1>10, <1>11, <1>12 DEF SchedInv, PhaseHolds, PreparedSound

(* An activity that is ended or paused keeps its milestones.                *)
LEMMA CrossedStopped ==
  ASSUME NEW g \in Agents, NEW a \in Record(g), NEW from, NEW to, Crossed(a, from, to), a.status = "active",
         NEW s \in AnyStatus
  PROVE  Crossed(Stopped(a, s), from, to)
  <1>1. /\ Stopped(a, s).work = a.work /\ Stopped(a, s).since = a.since
        /\ Stopped(a, s).updated = a.updated /\ Stopped(a, s).deadline = a.deadline
    BY StoppedTyped
  <1>2. Appointed(Stopped(a, s)) = Appointed(a)
    BY <1>1 DEF Appointed, Instants, Ends
  <1> QED
    BY <1>1, <1>2 DEF Crossed

(* What both halves of the rest of a step do to an activity.                *)
Endings == {"paused", "blocked", "completed", "failed"}
StopsSome(before, after) ==
  \A g \in Agents : \/ after[g] = before[g]
                    \/ /\ before[g].status = "active"
                       /\ \E s \in Endings : after[g] = Stopped(before[g], s)

LEMMA SoundStopsSome ==
  ASSUME NEW before, NEW after, NEW from, NEW to, AllSound(before, to),
         \A g \in Agents : Crossed(before[g], from, to), StopsSome(before, after)
  PROVE  AllSound(after, to) /\ \A g \in Agents : Crossed(after[g], from, to)
  <1> SUFFICES ASSUME NEW g \in Agents PROVE Sound(g, after[g], to) /\ Crossed(after[g], from, to)
    BY DEF AllSound
  <1>1. Sound(g, before[g], to) /\ Crossed(before[g], from, to)
    BY DEF AllSound
  <1>2. CASE after[g] = before[g]
    BY <1>1, <1>2
  <1>3. CASE before[g].status = "active" /\ \E s \in Endings : after[g] = Stopped(before[g], s)
    <2>1. PICK s \in Endings : after[g] = Stopped(before[g], s)
      BY <1>3
    <2>2. before[g] \in Record(g) /\ before[g] # NoActivity
      BY <1>1, <1>3, SoundStatus, RecordTyped DEF AnyStatus
    <2> QED
      BY <1>1, <1>3, <2>1, <2>2, SoundStopped, CrossedStopped DEF Endings, AnyStatus
  <1> QED
    BY <1>2, <1>3 DEF StopsSome

(* Truth ends some of what was running.                                     *)
LEMMA ResolveStops ==
  ASSUME SchedInv, Resolve
  PROVE  /\ StopsSome(candidate.activities, candidate'.activities)
         /\ DOMAIN candidate' = DOMAIN candidate
         /\ \A x \in DOMAIN candidate \ {"activities", "points", "started"} : candidate'[x] = candidate[x]
  <1>1. /\ {"activities", "points", "started"} \subseteq DOMAIN candidate
        /\ candidate.resolving \subseteq Agents
    BY DEF SchedInv, IInv, AdvancedHolds, Resolve
  <1>2. PICK outcome \in [candidate.resolving -> {"continuing", "succeeded", "failed"}] :
          LET ends == {g \in candidate.resolving :
                         /\ candidate.activities[g].status = "active"
                         /\ \/ outcome[g] = "failed"
                            \/ outcome[g] = "succeeded" /\ candidate.activities[g].work.duration = 0}
              result == [continuing |-> "active", succeeded |-> "completed", failed |-> "failed"]
          IN candidate' =
               [candidate EXCEPT
                  !.activities = [g \in Agents |-> IF g \in ends THEN Stopped(@[g], result[outcome[g]]) ELSE @[g]],
                  !.points = @ \cup ends,
                  !.started = @ \ (ends \ candidate.fresh)]
    BY DEF Resolve
  <1> DEFINE ends == {g \in candidate.resolving :
                        /\ candidate.activities[g].status = "active"
                        /\ \/ outcome[g] = "failed"
                           \/ outcome[g] = "succeeded" /\ candidate.activities[g].work.duration = 0}
             result == [continuing |-> "active", succeeded |-> "completed", failed |-> "failed"]
             acts == [g \in Agents |-> IF g \in ends THEN Stopped(candidate.activities[g], result[outcome[g]])
                                       ELSE candidate.activities[g]]
  <1>3. \A g \in ends : candidate.activities[g].status = "active" /\ result[outcome[g]] \in {"completed", "failed"}
    OBVIOUS
  <1>4. candidate' = [candidate EXCEPT !.activities = acts, !.points = candidate.points \cup ends,
                                       !.started = candidate.started \ (ends \ candidate.fresh)]
    BY <1>2
  <1> HIDE DEF ends, result
  <1>5. StopsSome(candidate.activities, acts)
    BY <1>3 DEF StopsSome, Endings
  <1> HIDE DEF acts
  <1> QED
    BY <1>1, <1>4, <1>5

LEMMA SchedResolve ==
  ASSUME SchedInv, IInv', Resolve
  PROVE  SchedInv'
  <1>1. phase = "advanced" /\ phase' = "resolved" /\ UNCHANGED world
    BY DEF Resolve
  <1>2. /\ "to" \in DOMAIN candidate
        /\ candidate.to \in Nat /\ elapsed < candidate.to /\ AllSound(candidate.activities, candidate.to)
        /\ \A g \in Agents : Crossed(candidate.activities[g], elapsed, candidate.to)
    BY <1>1 DEF SchedInv, AdvancedSound
  <1>3. /\ candidate'.to = candidate.to /\ DOMAIN candidate' = DOMAIN candidate
        /\ StopsSome(candidate.activities, candidate'.activities)
    BY <1>2, ResolveStops
  <1>4. /\ AllSound(candidate'.activities, candidate.to)
        /\ \A g \in Agents : Crossed(candidate'.activities[g], elapsed, candidate.to)
    BY <1>2, <1>3, SoundStopsSome
  <1>5. AdvancedSound'
    BY <1>1, <1>2, <1>3, <1>4 DEF AdvancedSound, AllSound, Crossed, world
  <1>6. candidate' # NoCandidate
    BY <1>2, <1>3 DEF NoCandidate
  <1>7. WorldSound'
    BY <1>1 DEF SchedInv, WorldSound, AllSound, world
  <1> QED
    BY <1>1, <1>5, <1>6, <1>7 DEF SchedInv, PhaseHolds, PreparedSound

(* What is committed is what was settled, reserved if it waited and fits,   *)
(* and forgotten if it has ended.                                           *)
LEMMA SoundCommitted ==
  ASSUME NEW acts, NEW to, AllSound(acts, to), NEW g \in Agents,
         NEW c, c = Kept(Promoted(acts)[g])
  PROVE  /\ Sound(g, c, to)
         /\ c \in Activity(g) \cup {NoActivity}
         /\ c.status \in {"active", "paused"} => c = acts[g]
  <1> DEFINE a == acts[g]
             b == Promoted(acts)[g]
             reserved == [a EXCEPT !.status = "ready"]
  <1>1. Sound(g, a, to)
    BY DEF AllSound
  <1>2. b = a \/ (a.status = "queued" /\ b = reserved)
    BY DEF Promoted, Reservable, QueuedIn
  <1>3. c = NoActivity \/ (c = b /\ Live(b))
    BY DEF Kept
  <1>4. NoActivity.status = "none"
    BY DEF NoActivity
  <1> HIDE DEF a, b
  <1>5. CASE c = NoActivity
    BY <1>4, <1>5 DEF Sound
  <1>6. CASE c = a /\ Live(a)
    <2>1. a \in Record(g)
      BY <1>1, <1>6, SoundStatus DEF Live, AnyStatus
    <2>2. a \in Activity(g)
      BY <1>6, <2>1 DEF Live, Record, Activity
    <2> QED
      BY <1>1, <1>6, <2>2 DEF a
  <1>7. CASE c = reserved /\ a.status = "queued"
    <2>1. a \in Record(g) /\ a.updated <= to
      BY <1>1, <1>7, SoundStatus DEF AnyStatus
    <2>2. c \in Record(g) /\ c.status = "ready" /\ c.updated = a.updated
      BY <1>7, <2>1 DEF Record, AnyStatus
    <2>3. c \in Activity(g)
      BY <2>2 DEF Record, Activity
    <2>4. Sound(g, c, to)
      BY <2>1, <2>2 DEF Sound, Ahead
    <2> QED
      BY <2>2, <2>3, <2>4
  <1> QED
    BY <1>2, <1>3, <1>5, <1>6, <1>7

LEMMA StopsSettled ==
  ASSUME NEW acts, NEW points
  PROVE  StopsSome(acts, Settled(acts, points))
  BY DEF StopsSome, Settled, Endings

(* The rest of a step ends or pauses some of what was running, twice, and   *)
(* commits the result with its promotions only if that is within capacity.  *)
Settles(acts) == \E mid : StopsSome(candidate.activities, mid) /\ StopsSome(mid, acts)

Commits(acts) ==
  /\ Settles(acts) /\ WithinCapacity(Promoted(acts))
  /\ activities' = [g \in Agents |-> Kept(Promoted(acts)[g])] /\ elapsed' = candidate.to

LEMMA VerdictCommitted ==
  ASSUME NEW promoted, NEW started, Verdict(promoted, started) = "committed"
  PROVE  WithinCapacity(promoted)
  BY DEF Verdict

LEMMA FinishSettles ==
  ASSUME Finish
  PROVE  UNCHANGED world \/ \E acts : Commits(acts)
  <1>1. PICK noticed \in SUBSET Noticeable :
          LET pausing == noticed \ Broken
              acts == [g \in Agents |->
                         IF g \in Broken THEN Stopped(candidate.activities[g], "blocked")
                         ELSE IF g \in pausing THEN Stopped(candidate.activities[g], "paused")
                         ELSE candidate.activities[g]]
              points == candidate.points \cup Broken \cup pausing
              settled == Settled(acts, points)
              promoted == Promoted(settled)
          IN \/ UNCHANGED world
             \/ /\ \E started : Verdict(promoted, started) = "committed"
                /\ activities' = [g \in Agents |-> Kept(promoted[g])]
                /\ elapsed' = candidate.to
    BY DEF Finish
  <1> DEFINE pausing == noticed \ Broken
             acts == [g \in Agents |->
                        IF g \in Broken THEN Stopped(candidate.activities[g], "blocked")
                        ELSE IF g \in pausing THEN Stopped(candidate.activities[g], "paused")
                        ELSE candidate.activities[g]]
             points == candidate.points \cup Broken \cup pausing
             settled == Settled(acts, points)
  <1>2. CASE UNCHANGED world
    BY <1>2
  <1>3. CASE /\ \E started : Verdict(Promoted(settled), started) = "committed"
             /\ activities' = [g \in Agents |-> Kept(Promoted(settled)[g])]
             /\ elapsed' = candidate.to
    <2>1. \A g \in Broken \cup pausing : candidate.activities[g].status = "active"
      BY DEF Broken, Noticeable
    <2>2. StopsSome(candidate.activities, acts)
      BY <2>1 DEF StopsSome, Endings
    <2> HIDE DEF acts, points
    <2>3. StopsSome(acts, settled)
      BY StopsSettled
    <2> HIDE DEF settled
    <2>4. WithinCapacity(Promoted(settled))
      BY <1>3, VerdictCommitted
    <2>5. Commits(settled)
      BY <1>3, <2>2, <2>3, <2>4 DEF Commits, Settles
    <2> QED
      BY <2>5
  <1> QED
    BY <1>1, <1>2, <1>3

(* What is committed has passed nothing that was due in the step.           *)
Committed == \E acts :
  /\ AllSound(acts, elapsed') /\ \A g \in Agents : Crossed(acts[g], elapsed, elapsed')
  /\ activities' = [g \in Agents |-> Kept(Promoted(acts)[g])]

LEMMA FinishCommits ==
  ASSUME SchedInv, Finish
  PROVE  /\ phase' = "idle" /\ candidate' = NoCandidate
         /\ UNCHANGED world \/ (Committed /\ elapsed' \in Nat)
  <1>1. phase = "resolved" /\ phase' = "idle" /\ candidate' = NoCandidate
    BY DEF Finish
  <1>2. /\ candidate.to \in Nat /\ AllSound(candidate.activities, candidate.to)
        /\ \A g \in Agents : Crossed(candidate.activities[g], elapsed, candidate.to)
    BY <1>1 DEF SchedInv, AdvancedSound
  <1>3. ASSUME NEW acts, Commits(acts) PROVE Committed /\ elapsed' \in Nat
    <2>1. PICK mid : StopsSome(candidate.activities, mid) /\ StopsSome(mid, acts)
      BY <1>3 DEF Commits, Settles
    <2>2. AllSound(mid, candidate.to) /\ \A g \in Agents : Crossed(mid[g], elapsed, candidate.to)
      BY <1>2, <2>1, SoundStopsSome
    <2>3. AllSound(acts, candidate.to) /\ \A g \in Agents : Crossed(acts[g], elapsed, candidate.to)
      BY <2>1, <2>2, SoundStopsSome
    <2> QED
      BY <1>2, <1>3, <2>3 DEF Commits, Committed
  <1> QED
    BY <1>1, <1>3, FinishSettles

LEMMA SchedFinish ==
  ASSUME SchedInv, IInv', Finish
  PROVE  SchedInv'
  <1>1. /\ phase' = "idle" /\ candidate' = NoCandidate
        /\ UNCHANGED world \/ (Committed /\ elapsed' \in Nat)
    BY FinishCommits
  <1>2. decisions' \in SUBSET Agents
    <2>1. /\ candidate.points \subseteq Agents /\ decisions \in SUBSET Agents
      BY DEF SchedInv, IInv, AdvancedHolds, WorldSound, Finish
    <2>2. Broken \subseteq Agents /\ Noticeable \subseteq Agents
      BY DEF SchedInv, IInv, AdvancedHolds, Finish, Broken, Noticeable
    <2>3. UNCHANGED decisions \/ \E settled : \E points \in SUBSET Agents : decisions' = Retained(settled, points)
      <3>1. PICK noticed \in SUBSET Noticeable : \E settled :
              \/ UNCHANGED decisions
              \/ decisions' = Retained(settled, candidate.points \cup Broken \cup (noticed \ Broken))
        BY DEF Finish, world
      <3> QED
        BY <2>1, <2>2, <3>1
    <2> QED
      BY <2>1, <2>3 DEF Retained
  <1>3. CASE UNCHANGED world
    <2>1. WorldSound'
      BY <1>3 DEF SchedInv, WorldSound, AllSound, world
    <2> QED
      BY <1>1, <2>1 DEF SchedInv, PhaseHolds, PreparedSound, AdvancedSound
  <1>4. CASE Committed /\ elapsed' \in Nat
    <2>1. PICK acts : /\ AllSound(acts, elapsed')
                      /\ activities' = [g \in Agents |-> Kept(Promoted(acts)[g])]
      BY <1>4 DEF Committed
    <2>2. \A g \in Agents : /\ Sound(g, activities'[g], elapsed')
                            /\ activities'[g] \in Activity(g) \cup {NoActivity}
      BY <2>1, SoundCommitted
    <2>3. WorldSound'
      BY <1>2, <1>4, <2>2 DEF WorldSound, AllSound
    <2> QED
      BY <1>1, <2>3 DEF SchedInv, PhaseHolds, PreparedSound, AdvancedSound
  <1> QED
    BY <1>1, <1>3, <1>4

LEMMA SchedStep == SchedInv /\ [Next]_vars => SchedInv'
  <1> SUFFICES ASSUME SchedInv, [Next]_vars
               PROVE  SchedInv'
    OBVIOUS
  <1> IInv'
    BY StepHolds DEF SchedInv
  <1>1. CASE \E acting \in Actors : Prepare(acting)
    BY <1>1, SchedPrepare
  <1>2. CASE \E acting \in Actors : PreparationFails(acting)
    BY <1>2 DEF PreparationFails, SchedInv, WorldSound, AllSound, PhaseHolds, PreparedSound, AdvancedSound, world
  <1>3. CASE Complete
    BY <1>3, SchedComplete
  <1>4. CASE Resolve
    BY <1>4, SchedResolve
  <1>5. CASE Finish
    BY <1>5, SchedFinish
  <1>6. CASE UNCHANGED vars
    BY <1>6 DEF vars, SchedInv, WorldSound, AllSound, Crossed, PhaseHolds, PreparedSound, AdvancedSound
  <1> QED
    BY <1>1, <1>2, <1>3, <1>4, <1>5, <1>6 DEF Next

LEMMA SchedInductive == Spec => []SchedInv
  BY SchedInit, SchedStep, PTL DEF Spec

-----------------------------------------------------------------------------
(* What is committed are activities of planned works: live, with their      *)
(* times in order, whatever reactions, outcomes and pauses the step had.    *)
THEOREM TypeCorrect == Spec => []TypeOK
  <1>1. SchedInv => TypeOK
    BY DEF SchedInv, WorldSound, PhaseHolds, TypeOK
  <1> QED
    BY <1>1, SchedInductive, PTL

(* For every activity that runs throughout a step: what is due has passed   *)
(* before, or is not passed by this step.                                   *)
AppointmentsMet ==
  \A g \in Agents :
    activities'[g].status \in {"active", "paused"} /\ activities'[g].updated = elapsed' =>
      \A m \in Appointed(activities'[g]) : m <= elapsed \/ m >= elapsed'

LEMMA MilestonesTyped ==
  ASSUME NEW g \in Agents, NEW a \in Record(g)
  PROVE  Milestones(a) \subseteq Nat /\ Appointed(a) \subseteq Milestones(a)
  <1>1. /\ a.since \in Nat /\ a.deadline \in Nat /\ Ends(a) \in Nat /\ a.work \in Works[g]
    BY RecordTyped
  <1>2. \A i \in DOMAIN a.work.stages : a.work.stages[i].ends \in Nat
    BY <1>1, WorkTyped DEF StageType
  <1>3. Milestones(a) \subseteq Nat
    BY <1>1, <1>2 DEF Milestones
  <1>4. Appointed(a) \subseteq Milestones(a)
    BY DEF Milestones, Appointed, Instants
  <1> QED
    BY <1>3, <1>4

LEMMA StepMeetsAppointments ==
  ASSUME SchedInv, [Next]_vars
  PROVE  AppointmentsMet
  <1> SUFFICES ASSUME NEW g \in Agents, activities'[g].status \in {"active", "paused"},
                      activities'[g].updated = elapsed', NEW m \in Appointed(activities'[g])
               PROVE  m <= elapsed \/ m >= elapsed'
    BY DEF AppointmentsMet
  <1>1. CASE UNCHANGED world
    <2>1. activities' = activities /\ elapsed' = elapsed /\ elapsed \in Nat
      BY <1>1 DEF world, SchedInv, WorldSound
    <2>2. activities[g] \in Record(g)
      BY <2>1, SoundStatus DEF SchedInv, WorldSound, AllSound, AnyStatus
    <2>3. m \in Nat
      BY <2>1, <2>2, MilestonesTyped
    <2> QED
      BY <2>1, <2>3
  <1>2. CASE Committed
    <2>1. PICK acts :
            /\ AllSound(acts, elapsed') /\ \A h \in Agents : Crossed(acts[h], elapsed, elapsed')
            /\ activities' = [h \in Agents |-> Kept(Promoted(acts)[h])]
      BY <1>2 DEF Committed
    <2>2. activities'[g] = acts[g]
      BY <2>1, SoundCommitted
    <2> QED
      BY <2>1, <2>2 DEF Crossed
  <1>3. UNCHANGED world \/ Committed
    BY FinishCommits DEF Next, vars, world, Prepare, PreparationFails, Complete, Resolve
  <1> QED
    BY <1>1, <1>2, <1>3

(* selectTemporalBoundary takes the earliest of all boundaries: an activity *)
(* that runs throughout a step is advanced past no completion and no        *)
(* failure of its assertion, whatever its profile is; and past no end of a  *)
(* stage, unless the first checkpoint of the profile is later than that.    *)
THEOREM AppointmentsAreMet == Spec => [][AppointmentsMet]_vars
  <1>1. SchedInv /\ [Next]_vars => AppointmentsMet
    BY StepMeetsAppointments
  <1> QED
    BY <1>1, SchedInductive, PTL DEF Spec

StagesMet == \A g \in Agents : \A w \in Works[g] : Met(w)

LEMMA StepPasses ==
  ASSUME StagesMet, SchedInv, [Next]_vars
  PROVE  \A g \in Agents :
           activities'[g].status \in {"active", "paused"} /\ activities'[g].updated = elapsed' =>
             \A m \in Milestones(activities'[g]) : m <= elapsed \/ m >= elapsed'
  <1> SUFFICES ASSUME NEW g \in Agents, activities'[g].status \in {"active", "paused"},
                      activities'[g].updated = elapsed', NEW m \in Milestones(activities'[g])
               PROVE  m <= elapsed \/ m >= elapsed'
    OBVIOUS
  <1> DEFINE a == activities'[g]
  <1>1. WorldSound'
    BY SchedStep DEF SchedInv
  <1>2. Sound(g, a, elapsed')
    BY <1>1 DEF WorldSound, AllSound
  <1>3. a \in Record(g)
    BY <1>2, SoundStatus DEF AnyStatus
  <1>4. a.work \in Works[g]
    BY <1>3, RecordTyped
  <1>5. Milestones(a) = Appointed(a)
    BY <1>4 DEF Milestones, Appointed, Instants, StagesMet
  <1>6. AppointmentsMet
    BY StepMeetsAppointments
  <1> QED
    BY <1>5, <1>6 DEF AppointmentsMet

(* With profiles whose first checkpoint is not later than the end of their  *)
(* first stage, no step passes the end of a stage, a completion or the      *)
(* failure of an assertion of what runs throughout the step.                *)
THEOREM NothingIsSkipped ==
  ASSUME StagesMet
  PROVE  Spec => NothingSkipped
  <1>1. SchedInv /\ [Next]_vars => \A g \in Agents :
          activities'[g].status \in {"active", "paused"} /\ activities'[g].updated = elapsed' =>
            \A m \in Milestones(activities'[g]) : m <= elapsed \/ m >= elapsed'
    BY StepPasses
  <1> QED
    BY <1>1, SchedInductive, PTL DEF Spec, NothingSkipped
=============================================================================
