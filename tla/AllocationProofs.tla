-------------------------- MODULE AllocationProofs --------------------------
(***************************************************************************)
(* The shared resource pools of Activities: no world claims more of a pool *)
(* than there is, nobody waits for what is free, a younger activity does   *)
(* not overtake an older one, and planning admissions twice gives the same *)
(* decisions.                                                              *)
(*                                                                         *)
(* Three things carry the proofs.  Sums over finite sets do not depend on  *)
(* the order of the addends.  Who a committed activity was before the step *)
(* is known from History: what waits has waited since its proposal, and    *)
(* what begins with the claims of a queue passes nobody in it.  And what   *)
(* is promoted is a prefix of each queue, cut where it ceases to fit.      *)
(***************************************************************************)
EXTENDS ScheduleProofs, FiniteSetTheorems

-----------------------------------------------------------------------------
(* Sums of functions over finite sets.  FoldFunctionOnSet takes elements    *)
(* away in the order in which CHOOSE picks them; that any order will do is  *)
(* what makes a sum grow with its set and with its function.                *)
Addends(f, T) == \A x \in T : f[x] \in Nat

Unfolds(iter, f, T) ==
  /\ iter \in [SUBSET T -> Nat]
  /\ \A S \in SUBSET T :
       iter[S] = IF S = {} THEN 0 ELSE f[CHOOSE x \in S : TRUE] + iter[S \ {CHOOSE x \in S : TRUE}]

LEMMA SumRecursion ==
  ASSUME NEW T, IsFiniteSet(T), NEW f, Addends(f, T)
  PROVE  \E iter : Unfolds(iter, f, T) /\ SumFunctionOnSet(f, T) = iter[T]
  <1> DEFINE pick(S) == CHOOSE x \in S : TRUE
             Value(iter, S) == IF S = {} THEN 0 ELSE f[pick(S)] + iter[S \ {pick(S)}]
             P == SUBSET T
             rank == [S \in P |-> Cardinality(S)]
             D == [z \in [P -> Nat] \X P |-> Value(z[1], z[2])]
  <1>1. \A S \in P : IsFiniteSet(S) /\ Cardinality(S) \in Nat
    BY FS_Subset, FS_CardinalityType
  <1>2. ASSUME NEW S \in P, S # {}
        PROVE  /\ pick(S) \in S /\ pick(S) \in T /\ S \ {pick(S)} \in P
               /\ Cardinality(S \ {pick(S)}) < Cardinality(S)
               /\ f[pick(S)] \in Nat
    <2>1. pick(S) \in S
      BY <1>2
    <2> HIDE DEF pick
    <2>2. Cardinality(S \ {pick(S)}) = Cardinality(S) - 1
      BY <1>1, <2>1, FS_RemoveElement
    <2> QED
      BY <1>1, <2>1, <2>2 DEF Addends
  <1> HIDE DEF pick
  <1>3. \A iter \in [P -> Nat] : \A S \in P : Value(iter, S) \in Nat
    <2> SUFFICES ASSUME NEW iter \in [P -> Nat], NEW S \in P PROVE Value(iter, S) \in Nat
      OBVIOUS
    <2>1. CASE S = {}
      BY <2>1
    <2>2. CASE S # {}
      <3>1. f[pick(S)] \in Nat /\ iter[S \ {pick(S)}] \in Nat
        BY <1>2, <2>2
      <3> QED
        BY <2>2, <3>1
    <2> QED
      BY <2>1, <2>2
  <1>4. ASSUME NEW g \in [P -> Nat], NEW h \in [P -> Nat], NEW S \in P, AgreeBelow(g, h, P, rank, rank[S])
        PROVE  Value(g, S) = Value(h, S)
    <2>1. CASE S = {}
      BY <2>1
    <2>2. CASE S # {}
      <3>1. S \ {pick(S)} \in P /\ rank[S \ {pick(S)}] < rank[S]
        BY <1>2, <2>2
      <3>2. g[S \ {pick(S)}] = h[S \ {pick(S)}]
        BY <1>4, <3>1 DEF AgreeBelow
      <3> QED
        BY <2>2, <3>2
    <2> QED
      BY <2>1, <2>2
  <1>5. rank \in [P -> Nat]
    BY <1>1
  <1> HIDE DEF Value, rank
  <1>6. D \in [[P -> Nat] \X P -> Nat] /\ \A g \in [P -> Nat] : \A S \in P : D[<<g, S>>] = Value(g, S)
    BY <1>3
  <1> HIDE DEF D
  <1>7. Recursion(P, Nat, rank, D)
    <2>1. \A g, h \in [P -> Nat] : \A S \in P : AgreeBelow(g, h, P, rank, rank[S]) => D[<<g, S>>] = D[<<h, S>>]
      <3> SUFFICES ASSUME NEW g \in [P -> Nat], NEW h \in [P -> Nat], NEW S \in P,
                          AgreeBelow(g, h, P, rank, rank[S])
                   PROVE  D[<<g, S>>] = D[<<h, S>>]
        OBVIOUS
      <3>1. Value(g, S) = Value(h, S)
        BY <1>4
      <3> QED
        BY <3>1, <1>6
    <2>2. Nat # {}
      OBVIOUS
    <2> HIDE DEF P
    <2> QED
      BY <1>5, <1>6, <2>1, <2>2 DEF Recursion
  <1>8. \E iter \in [P -> Nat] : \A S \in P : iter[S] = D[<<iter, S>>]
    BY <1>7, RankedRecursion
  <1>9. \E iter : iter = [S \in P |-> Value(iter, S)]
    BY <1>6, <1>8
  <1> DEFINE sum == CHOOSE iter : iter = [S \in P |-> Value(iter, S)]
  <1>10. sum = [S \in P |-> Value(sum, S)]
    BY <1>9
  <1>11. SumFunctionOnSet(f, T) = sum[T]
    BY DEF SumFunctionOnSet, FoldFunctionOnSet, MapThenFoldSet, Value, pick
  <1> HIDE DEF sum
  <1>12. \A S \in P : sum[S] = Value(sum, S)
    BY <1>10
  <1>13. sum \in [P -> Nat]
    <2>1. sum = [S \in P |-> sum[S]]
      BY <1>10, <1>12
    <2> DEFINE bad == {n \in Nat : \E S \in P : rank[S] = n /\ sum[S] \notin Nat}
    <2>2. ASSUME bad # {} PROVE FALSE
      <3>1. PICK n \in bad : \A m \in bad : n <= m
        BY <2>2, LeastElement
      <3>2. PICK S \in P : rank[S] = n /\ sum[S] \notin Nat
        BY <3>1
      <3>3. CASE S = {}
        BY <1>12, <3>2, <3>3 DEF Value
      <3>4. CASE S # {}
        <4>1. S \ {pick(S)} \in P /\ rank[S \ {pick(S)}] < rank[S] /\ f[pick(S)] \in Nat
          BY <1>2, <3>4 DEF rank
        <4>2. rank[S \ {pick(S)}] \in Nat /\ n \in Nat
          BY <1>5, <3>1, <4>1
        <4>3. sum[S \ {pick(S)}] \in Nat
          BY <3>1, <3>2, <4>1, <4>2
        <4>4. sum[S] = f[pick(S)] + sum[S \ {pick(S)}]
          BY <1>12, <3>4 DEF Value
        <4> QED
          BY <3>2, <4>1, <4>3, <4>4
      <3> QED
        BY <3>3, <3>4
    <2>3. \A S \in P : sum[S] \in Nat
      BY <1>5, <2>2
    <2> QED
      BY <2>1, <2>3
  <1>14. Unfolds(sum, f, T)
    BY <1>12, <1>13 DEF Value, pick, Unfolds
  <1> QED
    BY <1>11, <1>14

LEMMA UnfoldsOnce ==
  ASSUME NEW T, IsFiniteSet(T), NEW S \in SUBSET T, NEW f, NEW g, NEW h, Unfolds(g, f, T), Unfolds(h, f, S)
  PROVE  g[S] = h[S]
  <1> DEFINE bad == {n \in Nat : \E R \in SUBSET S : Cardinality(R) = n /\ g[R] # h[R]}
  <1>1. ASSUME bad # {} PROVE FALSE
    <2>1. PICK n \in bad : \A m \in bad : n <= m
      BY <1>1, LeastElement
    <2>2. PICK R \in SUBSET S : Cardinality(R) = n /\ g[R] # h[R]
      BY <2>1
    <2> DEFINE x == CHOOSE x \in R : TRUE
    <2>3. IsFiniteSet(R) /\ R \in SUBSET T
      BY FS_Subset
    <2>4. R # {}
      BY <2>2, <2>3 DEF Unfolds
    <2>5. x \in R
      BY <2>4
    <2>6. g[R] = f[x] + g[R \ {x}] /\ h[R] = f[x] + h[R \ {x}]
      BY <2>3, <2>4 DEF Unfolds
    <2> HIDE DEF x
    <2>7. Cardinality(R \ {x}) = n - 1 /\ n \in Nat
      BY <2>1, <2>2, <2>3, <2>5, FS_RemoveElement
    <2>8. IsFiniteSet(R \ {x}) /\ Cardinality(R \ {x}) \in Nat
      BY <2>3, FS_RemoveElement, FS_CardinalityType
    <2>9. R \ {x} \in SUBSET S
      OBVIOUS
    <2>10. Cardinality(R \ {x}) \notin bad
      <3>1. ~(n <= Cardinality(R \ {x}))
        BY <2>7, <2>8
      <3> HIDE DEF bad
      <3> QED
        BY <2>1, <3>1
    <2>11. g[R \ {x}] = h[R \ {x}]
      BY <2>8, <2>9, <2>10
    <2> QED
      BY <2>2, <2>6, <2>11
  <1>2. Cardinality(S) \in Nat
    BY FS_Subset, FS_CardinalityType
  <1> QED
    BY <1>1, <1>2

LEMMA SumUnfolds ==
  ASSUME NEW T, IsFiniteSet(T), NEW f, Addends(f, T)
  PROVE  /\ SumFunctionOnSet(f, T) \in Nat
         /\ T = {} => SumFunctionOnSet(f, T) = 0
         /\ T # {} => \E x \in T : SumFunctionOnSet(f, T) = f[x] + SumFunctionOnSet(f, T \ {x})
  <1>1. PICK iter : Unfolds(iter, f, T) /\ SumFunctionOnSet(f, T) = iter[T]
    BY SumRecursion
  <1>2. SumFunctionOnSet(f, T) \in Nat /\ (T = {} => SumFunctionOnSet(f, T) = 0)
    BY <1>1 DEF Unfolds
  <1>3. ASSUME T # {}
        PROVE  \E x \in T : SumFunctionOnSet(f, T) = f[x] + SumFunctionOnSet(f, T \ {x})
    <2> DEFINE x == CHOOSE x \in T : TRUE
    <2>1. x \in T
      BY <1>3
    <2>2. iter[T] = f[x] + iter[T \ {x}]
      BY <1>1, <1>3 DEF Unfolds
    <2> HIDE DEF x
    <2>3. IsFiniteSet(T \ {x}) /\ Addends(f, T \ {x})
      BY FS_RemoveElement DEF Addends
    <2>4. PICK rest : Unfolds(rest, f, T \ {x}) /\ SumFunctionOnSet(f, T \ {x}) = rest[T \ {x}]
      BY <2>3, SumRecursion
    <2>5. iter[T \ {x}] = rest[T \ {x}]
      BY <1>1, <2>4, UnfoldsOnce
    <2> QED
      BY <1>1, <2>1, <2>2, <2>4, <2>5
  <1> QED
    BY <1>2, <1>3

(* Any element may be taken away first.                                     *)
LEMMA SumRemove ==
  ASSUME NEW T, IsFiniteSet(T), NEW f, Addends(f, T), NEW y \in T
  PROVE  SumFunctionOnSet(f, T) = f[y] + SumFunctionOnSet(f, T \ {y})
  <1> DEFINE Sum(S) == SumFunctionOnSet(f, S)
             bad == {n \in Nat : \E S \in SUBSET T : \E z \in S : Cardinality(S) = n /\ Sum(S) # f[z] + Sum(S \ {z})}
  <1>0. \A S \in SUBSET T : IsFiniteSet(S) /\ Cardinality(S) \in Nat /\ Addends(f, S) /\ Sum(S) \in Nat
    <2> SUFFICES ASSUME NEW S \in SUBSET T PROVE IsFiniteSet(S) /\ Cardinality(S) \in Nat /\ Addends(f, S) /\ Sum(S) \in Nat
      OBVIOUS
    <2>1. IsFiniteSet(S) /\ Cardinality(S) \in Nat /\ Addends(f, S)
      BY FS_Subset, FS_CardinalityType DEF Addends
    <2> QED
      BY <2>1, SumUnfolds
  <1>00. \A S \in SUBSET T : S # {} => \E x \in S : Sum(S) = f[x] + Sum(S \ {x})
    BY <1>0, SumUnfolds
  <1> HIDE DEF Sum
  <1>1. ASSUME bad # {} PROVE FALSE
    <2>1. PICK n \in bad : \A m \in bad : n <= m
      BY <1>1, LeastElement
    <2>2. PICK S \in SUBSET T : \E z \in S : Cardinality(S) = n /\ Sum(S) # f[z] + Sum(S \ {z})
      BY <2>1
    <2>3. PICK z \in S : Cardinality(S) = n /\ Sum(S) # f[z] + Sum(S \ {z})
      BY <2>2
    <2>4. PICK x \in S : Sum(S) = f[x] + Sum(S \ {x})
      BY <1>00, <2>3
    <2>5. x # z
      BY <2>3, <2>4
    <2>6. /\ Cardinality(S \ {x}) = n - 1 /\ Cardinality(S \ {z}) = n - 1 /\ n \in Nat
          /\ n - 1 \in Nat
      <3>1. Cardinality(S \ {x}) = n - 1 /\ Cardinality(S \ {z}) = n - 1
        BY <1>0, <2>3, <2>4, FS_RemoveElement
      <3>2. S \ {x} \in SUBSET T
        OBVIOUS
      <3> QED
        BY <1>0, <2>1, <3>1, <3>2
    <2>7. n - 1 \notin bad
      BY <2>1, <2>6
    <2>8. S \ {x} \in SUBSET T /\ S \ {z} \in SUBSET T /\ z \in S \ {x} /\ x \in S \ {z}
      BY <2>5
    <2>9. \A R \in SUBSET T : \A w \in R : Cardinality(R) = n - 1 => Sum(R) = f[w] + Sum(R \ {w})
      BY <2>6, <2>7
    <2> HIDE DEF bad
    <2>10. Sum(S \ {x}) = f[z] + Sum((S \ {x}) \ {z}) /\ Sum(S \ {z}) = f[x] + Sum((S \ {z}) \ {x})
      BY <2>6, <2>8, <2>9
    <2>11. (S \ {x}) \ {z} = (S \ {z}) \ {x}
      OBVIOUS
    <2> DEFINE s == Sum((S \ {z}) \ {x})
               a == f[x]
               b == f[z]
    <2>12. s \in Nat /\ a \in Nat /\ b \in Nat
      <3>1. (S \ {z}) \ {x} \in SUBSET T
        OBVIOUS
      <3> QED
        BY <1>0, <3>1 DEF Addends
    <2>13. Sum(S) = a + (b + s) /\ Sum(S \ {z}) = a + s /\ Sum(S) # b + Sum(S \ {z})
      BY <2>3, <2>4, <2>10, <2>11
    <2> HIDE DEF s, a, b
    <2> QED
      BY <2>12, <2>13
  <1>2. Cardinality(T) \in Nat
    BY FS_CardinalityType
  <1>3. Sum(T) = f[y] + Sum(T \ {y})
    BY <1>1, <1>2
  <1> QED
    BY <1>3 DEF Sum

LEMMA MinimalSet ==
  ASSUME NEW T, IsFiniteSet(T), NEW bad \in SUBSET (SUBSET T), bad # {}
  PROVE  \E S \in bad : S \in SUBSET T /\ IsFiniteSet(S) /\ \A x \in S : S \ {x} \notin bad
  <1>1. \A S \in bad : IsFiniteSet(S) /\ Cardinality(S) \in Nat
    BY FS_Subset, FS_CardinalityType
  <1> DEFINE sizes == {Cardinality(S) : S \in bad}
  <1>2. sizes \in SUBSET Nat /\ sizes # {}
    BY <1>1
  <1>3. PICK n \in sizes : \A m \in sizes : n <= m
    BY <1>2, LeastElement
  <1>4. PICK S \in bad : Cardinality(S) = n
    BY <1>3
  <1>5. ASSUME NEW x \in S PROVE S \ {x} \notin bad
    <2>1. Cardinality(S \ {x}) = n - 1 /\ n \in Nat
      BY <1>1, <1>4, FS_RemoveElement
    <2>2. Cardinality(S \ {x}) \notin sizes
      <3>1. ~(n <= Cardinality(S \ {x}))
        BY <2>1
      <3> HIDE DEF sizes
      <3> QED
        BY <1>3, <3>1
    <2> QED
      BY <2>2
  <1> QED
    BY <1>1, <1>4, <1>5

(* Outside a set a function that is zero there adds nothing.                *)
LEMMA SumSame ==
  ASSUME NEW T, IsFiniteSet(T), NEW A \in SUBSET T, NEW f, NEW g, Addends(g, T),
         \A x \in A : f[x] = g[x], \A x \in T \ A : g[x] = 0
  PROVE  SumFunctionOnSet(f, A) = SumFunctionOnSet(g, T)
  <1> DEFINE bad == {S \in SUBSET T : SumFunctionOnSet(f, S \cap A) # SumFunctionOnSet(g, S)}
  <1>0. ASSUME NEW S \in SUBSET T
        PROVE  /\ IsFiniteSet(S) /\ Addends(g, S) /\ IsFiniteSet(S \cap A) /\ Addends(f, S \cap A)
    <2>1. S \cap A \in SUBSET T
      OBVIOUS
    <2> QED
      BY <2>1, FS_Subset DEF Addends
  <1>1. ASSUME bad # {} PROVE FALSE
    <2>0. bad \in SUBSET (SUBSET T)
      OBVIOUS
    <2>1. PICK S \in bad : S \in SUBSET T /\ \A x \in S : S \ {x} \notin bad
      <3> HIDE DEF bad
      <3> QED
        BY <1>1, <2>0, MinimalSet
    <2>2. CASE S = {}
      <3>1. S \cap A = {}
        BY <2>2
      <3> QED
        BY <1>0, <2>1, <2>2, <3>1, SumUnfolds
    <2>3. CASE S # {}
      <3>1. PICK x \in S : TRUE
        BY <2>3
      <3>2. SumFunctionOnSet(f, (S \ {x}) \cap A) = SumFunctionOnSet(g, S \ {x})
        BY <2>1, <3>1
      <3>3. SumFunctionOnSet(g, S) = g[x] + SumFunctionOnSet(g, S \ {x})
        BY <1>0, <2>1, <3>1, SumRemove
      <3>4. SumFunctionOnSet(g, S \ {x}) \in Nat
        <4>1. S \ {x} \in SUBSET T
          BY <2>1
        <4> QED
          BY <4>1, <1>0, SumUnfolds
      <3>5. CASE x \in A
        <4>1. SumFunctionOnSet(f, S \cap A) = f[x] + SumFunctionOnSet(f, (S \cap A) \ {x})
          BY <1>0, <2>1, <3>1, <3>5, SumRemove
        <4>2. (S \cap A) \ {x} = (S \ {x}) \cap A
          OBVIOUS
        <4>3. f[x] = g[x]
          BY <3>5
        <4> QED
          BY <2>1, <3>2, <3>3, <4>1, <4>2, <4>3
      <3>6. CASE x \notin A
        <4>1. (S \ {x}) \cap A = S \cap A
          BY <3>6
        <4>2. g[x] = 0
          BY <2>1, <3>1, <3>6
        <4>3. SumFunctionOnSet(g, S) = SumFunctionOnSet(g, S \ {x})
          BY <3>3, <3>4, <4>2
        <4> QED
          BY <2>1, <3>2, <4>1, <4>3
      <3> QED
        BY <3>5, <3>6
    <2> QED
      BY <2>2, <2>3
  <1>2. T \cap A = A
    OBVIOUS
  <1>3. T \notin bad
    BY <1>1
  <1> QED
    BY <1>2, <1>3

(* The sum of two functions is no greater than that of one that is no less  *)
(* than both together.                                                      *)
LEMMA SumPlus ==
  ASSUME NEW T, IsFiniteSet(T), NEW f, NEW g, NEW h, Addends(f, T), Addends(g, T), Addends(h, T),
         \A x \in T : f[x] + g[x] <= h[x]
  PROVE  SumFunctionOnSet(f, T) + SumFunctionOnSet(g, T) <= SumFunctionOnSet(h, T)
  <1> DEFINE F(S) == SumFunctionOnSet(f, S)
             G(S) == SumFunctionOnSet(g, S)
             H(S) == SumFunctionOnSet(h, S)
             bad == {S \in SUBSET T : ~(F(S) + G(S) <= H(S))}
  <1>0. ASSUME NEW S \in SUBSET T
        PROVE  IsFiniteSet(S) /\ Addends(f, S) /\ Addends(g, S) /\ Addends(h, S)
    BY FS_Subset DEF Addends
  <1>1. \A S \in SUBSET T : F(S) \in Nat /\ G(S) \in Nat /\ H(S) \in Nat
    BY <1>0, SumUnfolds
  <1>2. \A S \in SUBSET T : S = {} => F(S) = 0 /\ G(S) = 0 /\ H(S) = 0
    BY <1>0, SumUnfolds
  <1>3. \A S \in SUBSET T : \A x \in S :
          F(S) = f[x] + F(S \ {x}) /\ G(S) = g[x] + G(S \ {x}) /\ H(S) = h[x] + H(S \ {x})
    BY <1>0, SumRemove
  <1> HIDE DEF F, G, H
  <1>4. ASSUME bad # {} PROVE FALSE
    <2>0. bad \in SUBSET (SUBSET T)
      OBVIOUS
    <2>1. PICK S \in bad : S \in SUBSET T /\ \A x \in S : S \ {x} \notin bad
      <3> HIDE DEF bad
      <3> QED
        BY <1>4, <2>0, MinimalSet
    <2>2. S # {}
      BY <1>2, <2>1
    <2>3. PICK x \in S : TRUE
      BY <2>2
    <2> DEFINE R == S \ {x}
    <2>4. R \in SUBSET T /\ R \notin bad
      BY <2>1, <2>3
    <2>5. F(R) + G(R) <= H(R) /\ ~(F(S) + G(S) <= H(S))
      BY <2>1, <2>4
    <2>6. F(S) = f[x] + F(R) /\ G(S) = g[x] + G(R) /\ H(S) = h[x] + H(R)
      BY <1>3, <2>1, <2>3
    <2>7. /\ f[x] \in Nat /\ g[x] \in Nat /\ h[x] \in Nat /\ f[x] + g[x] <= h[x]
          /\ F(R) \in Nat /\ G(R) \in Nat /\ H(R) \in Nat
      BY <1>1, <2>1, <2>3, <2>4 DEF Addends
    <2> HIDE DEF R
    <2> QED
      BY <2>5, <2>6, <2>7
  <1>5. T \notin bad
    BY <1>4
  <1> QED
    BY <1>5 DEF F, G, H

-----------------------------------------------------------------------------
(* The queues.  Before orders what waits; a component is the same for each  *)
(* of its members; whoever is before a member has no more before it.        *)
Times(acts) == \A g \in QueuedIn(acts) : acts[g].since \in Nat

LEMMA BeforeOrder ==
  ASSUME NEW acts, Times(acts), NEW g \in QueuedIn(acts), NEW h \in QueuedIn(acts), NEW k \in QueuedIn(acts)
  PROVE  /\ Before(acts, g, g)
         /\ Before(acts, g, h) \/ Before(acts, h, g)
         /\ Before(acts, g, h) /\ Before(acts, h, k) => Before(acts, g, k)
         /\ Before(acts, g, h) /\ Before(acts, h, g) => g = h
  <1>1. /\ acts[g].since \in Nat /\ acts[h].since \in Nat /\ acts[k].since \in Nat
        /\ g \in Nat /\ h \in Nat /\ k \in Nat
    BY ActivitiesAssumption DEF Times, QueuedIn
  <1> QED
    BY <1>1 DEF Before

Closed(acts, set) == \A g \in set : \A h \in QueuedIn(acts) : Linked(acts, g, h) => h \in set

LEMMA ComponentOf ==
  ASSUME NEW acts, NEW q \in QueuedIn(acts)
  PROVE  /\ Component(acts, q) \in SUBSET QueuedIn(acts)
         /\ q \in Component(acts, q)
         /\ Closed(acts, Component(acts, q))
         /\ \A set \in SUBSET QueuedIn(acts) : q \in set /\ Closed(acts, set) => Component(acts, q) \subseteq set
  <1>1. Component(acts, q) =
          {g \in QueuedIn(acts) : \A set \in SUBSET QueuedIn(acts) : q \in set /\ Closed(acts, set) => g \in set}
    BY DEF Component, Closed
  <1>2. q \in Component(acts, q)
    BY <1>1
  <1>3. ASSUME NEW g \in Component(acts, q), NEW h \in QueuedIn(acts), Linked(acts, g, h)
        PROVE  h \in Component(acts, q)
    <2> SUFFICES ASSUME NEW set \in SUBSET QueuedIn(acts), q \in set, Closed(acts, set)
                 PROVE  h \in set
      BY <1>1
    <2>1. g \in set
      BY <1>1, <1>3
    <2> QED
      BY <1>3, <2>1 DEF Closed
  <1>4. Closed(acts, Component(acts, q))
    BY <1>3 DEF Closed
  <1> QED
    BY <1>1, <1>2, <1>4

LEMMA SameComponent ==
  ASSUME NEW acts, NEW q \in QueuedIn(acts), NEW g \in Component(acts, q)
  PROVE  Component(acts, g) = Component(acts, q)
  <1>1. \A h \in QueuedIn(acts) : \A k \in Component(acts, h) :
          k \in QueuedIn(acts) /\ Component(acts, k) \subseteq Component(acts, h)
    BY ComponentOf
  <1> DEFINE set == {h \in QueuedIn(acts) : q \in Component(acts, h)}
  <1>2. q \in set /\ set \in SUBSET QueuedIn(acts)
    BY ComponentOf
  <1>3. Closed(acts, set)
    <2> SUFFICES ASSUME NEW h \in set, NEW k \in QueuedIn(acts), Linked(acts, h, k)
                 PROVE  q \in Component(acts, k)
      BY DEF Closed
    <2>1. Linked(acts, k, h)
      BY DEF Linked
    <2>2. h \in Component(acts, k)
      BY <2>1, ComponentOf DEF Closed
    <2> QED
      BY <1>1, <2>2
  <1>4. q \in Component(acts, g)
    BY <1>2, <1>3, ComponentOf
  <1> QED
    BY <1>1, <1>4

LEMMA UpToNested ==
  ASSUME NEW acts, Times(acts), NEW q \in QueuedIn(acts), NEW r \in UpTo(acts, q)
  PROVE  /\ r \in QueuedIn(acts) /\ Before(acts, r, q) /\ UpTo(acts, r) \subseteq UpTo(acts, q)
         /\ r \in UpTo(acts, r) /\ q \in UpTo(acts, q)
  <1>1. r \in Component(acts, q) /\ Before(acts, r, q)
    BY DEF UpTo
  <1>2. r \in QueuedIn(acts) /\ Component(acts, r) = Component(acts, q)
    BY <1>1, ComponentOf, SameComponent
  <1>3. \A k \in Component(acts, q) : k \in QueuedIn(acts)
    BY ComponentOf
  <1>4. ASSUME NEW k \in UpTo(acts, r) PROVE k \in UpTo(acts, q)
    <2>1. k \in Component(acts, q) /\ Before(acts, k, r)
      BY <1>2 DEF UpTo
    <2>2. Before(acts, k, q)
      BY <1>1, <1>2, <1>3, <2>1, BeforeOrder
    <2> QED
      BY <2>1, <2>2 DEF UpTo
  <1>5. Before(acts, r, r) /\ Before(acts, q, q)
    BY <1>2, BeforeOrder
  <1> QED
    BY <1>1, <1>2, <1>4, <1>5, ComponentOf DEF UpTo

LEMMA ReservablePrefix ==
  ASSUME NEW acts, Times(acts), NEW q \in Reservable(acts), NEW r \in UpTo(acts, q)
  PROVE  r \in Reservable(acts)
  <1> DEFINE usage == Usage(acts, Agents)
             Fits(k) == \A p \in PoolsOf(acts[k]) :
               usage[p] + SumFunction([g \in UpTo(acts, k) |-> Claims(acts[g])[p]]) <= Capacity[p]
  <1>1. Reservable(acts) = {k \in QueuedIn(acts) : \A l \in UpTo(acts, k) : Fits(l)}
    BY DEF Reservable
  <1> HIDE DEF Fits
  <1>2. q \in QueuedIn(acts) /\ \A l \in UpTo(acts, q) : Fits(l)
    BY <1>1
  <1>3. r \in QueuedIn(acts) /\ UpTo(acts, r) \subseteq UpTo(acts, q)
    BY <1>2, UpToNested
  <1> QED
    BY <1>1, <1>2, <1>3

(* A promotion leaves nobody behind who waits for the same pool and is      *)
(* before what is promoted.                                                 *)
LEMMA PromotedInOrder ==
  ASSUME NEW acts, Times(acts), NEW g \in Reservable(acts), NEW q \in QueuedIn(acts) \ Reservable(acts),
         Linked(acts, g, q)
  PROVE  Before(acts, g, q)
  <1>1. g \in QueuedIn(acts)
    BY DEF Reservable
  <1> SUFFICES ASSUME Before(acts, q, g) PROVE FALSE
    BY <1>1, BeforeOrder
  <1>2. q \in Component(acts, g)
    BY <1>1, ComponentOf DEF Closed
  <1>3. q \in UpTo(acts, g)
    BY <1>2 DEF UpTo
  <1> QED
    BY <1>3, ReservablePrefix

-----------------------------------------------------------------------------
(* Where the activities of a step under construction come from: those of    *)
(* the agents who act begin now, and the others were there.  What waited    *)
(* still waits as it did, and what begins with the claims of a queue passes *)
(* nobody who waits for one of them.                                        *)
Begun(a) == a.since = elapsed /\ a.status # "ready"

Passes(a, fresh) ==
  a.status = "active" /\ ContentionOf(a) = "queue" =>
    \A q \in Agents \ fresh : activities[q].status = "queued" => PoolsOf(activities[q]) \cap PoolsOf(a) = {}

Inherited(a, old) ==
  /\ a.status # "ready"
  /\ old.status = "queued" => a = old
  /\ a.status = "queued" => old.status = "queued"
  /\ a.status = "active" => \/ old.status = "ready" /\ a.since = elapsed
                            \/ old.status = "active" /\ a.since = old.since

History(acts, fresh) ==
  \A g \in Agents :
    IF g \in fresh THEN Begun(acts[g]) /\ Passes(acts[g], fresh) ELSE Inherited(acts[g], activities[g])

(* Before the reactions nothing else has happened to the others than that   *)
(* reservations have started, and what was admitted would be so again.      *)
PreparedOrder ==
  phase = "prepared" =>
    /\ \A g \in Agents : IF g \in candidate.fresh THEN Begun(candidate.activities[g])
                         ELSE candidate.activities[g] = StartReady(activities[g])
    /\ AdmissionsStable

AdvancedOrder ==
  phase \in {"advanced", "resolved"} =>
    "fresh" \in DOMAIN candidate /\ History(candidate.activities, candidate.fresh)

(* Nothing that is under way or waits has begun at the time of the world.   *)
WorldOrder == \A g \in Agents : activities[g].status \in {"active", "queued"} => activities[g].since < elapsed

AllocInv ==
  /\ SchedInv /\ WorldOrder /\ PreparedOrder /\ AdvancedOrder
  /\ CapacityRespected /\ NoIdleCapacity

LEMMA StartedHistory ==
  ASSUME NEW g \in Agents, NEW a, Sound(g, a, elapsed)
  PROVE  Inherited(StartReady(a), a)
  <1>1. CASE a.status # "ready"
    BY <1>1 DEF StartReady, Inherited
  <1>2. CASE a.status = "ready"
    <2> DEFINE started == CreateActivity(a.work, elapsed, a.deadline)
    <2>1. started.status = "active" /\ "status" \in DOMAIN started /\ started.since = elapsed
      BY DEF CreateActivity
    <2> HIDE DEF started
    <2>2. Stopped(started, "blocked").status = "blocked"
      BY <2>1, StoppedStatus
    <2>3. StartReady(a) \in {started, Stopped(started, "blocked")}
      BY <1>2 DEF StartReady, started
    <2> QED
      BY <1>2, <2>1, <2>2, <2>3 DEF Inherited
  <1> QED
    BY <1>1, <1>2

(* An admission changes the status of a proposal at most.                   *)
LEMMA AdmittedHistory ==
  ASSUME NEW acts, NEW proposals \in SUBSET Agents, NEW admitted,
         admitted = Admitted(acts, Admissions(acts, proposals).kind)
  PROVE  /\ \A g \in Agents \ proposals : admitted[g] = acts[g]
         /\ \A g \in proposals : \/ admitted[g] = acts[g] /\ (ContentionOf(acts[g]) = "queue" => ~QueueAhead(acts, g))
                                 \/ admitted[g] \in {Stopped(acts[g], "queued"), Stopped(acts[g], "blocked")}
  <1> DEFINE kind == Admissions(acts, proposals).kind
  <1>1. /\ kind \in [proposals -> Kinds] /\ DOMAIN kind = proposals
        /\ \A g \in proposals : kind[g] # "granted" => kind[g] = ContentionOf(acts[g])
        /\ \A g \in proposals : kind[g] = "granted" => ~(ContentionOf(acts[g]) = "queue" /\ QueueAhead(acts, g))
    BY AdmissionKinds
  <1>2. admitted = Admitted(acts, kind)
    OBVIOUS
  <1> HIDE DEF kind
  <1>3. \A g \in Agents \ proposals : admitted[g] = acts[g]
    BY <1>1, <1>2 DEF Admitted
  <1>4. ASSUME NEW g \in proposals
        PROVE  \/ admitted[g] = acts[g] /\ (ContentionOf(acts[g]) = "queue" => ~QueueAhead(acts, g))
               \/ admitted[g] \in {Stopped(acts[g], "queued"), Stopped(acts[g], "blocked")}
    <2>1. CASE kind[g] = "granted"
      <3>1. admitted[g] = acts[g]
        BY <1>1, <1>2, <2>1 DEF Admitted
      <3> QED
        BY <1>1, <2>1, <3>1
    <2>2. CASE kind[g] = "adjudicate"
      <3>1. admitted[g] = acts[g] /\ ContentionOf(acts[g]) = "adjudicate"
        BY <1>1, <1>2, <2>2 DEF Admitted
      <3> QED
        BY <3>1
    <2>3. CASE kind[g] \in {"queue", "reject"}
      BY <1>1, <1>2, <2>3 DEF Admitted
    <2> QED
      BY <1>1, <2>1, <2>2, <2>3 DEF Kinds
  <1> QED
    BY <1>3, <1>4

LEMMA OnsetBegun ==
  ASSUME NEW w
  PROVE  Onset(w).since = elapsed /\ Onset(w).status = "active"
  BY DEF Onset, CreateActivity

LEMMA StoppedFields ==
  ASSUME NEW g \in Agents, NEW a, NEW now, Sound(g, a, now), a # NoActivity, NEW s
  PROVE  /\ Stopped(a, s).status = s /\ Stopped(a, s).work = a.work /\ Stopped(a, s).since = a.since
         /\ Stopped(a, s).deadline = a.deadline
  <1>1. a \in Record(g)
    BY DEF Sound
  <1> QED
    BY <1>1 DEF Record, Stopped

(* Planning the admission again, with no reaction, starts from what was     *)
(* planned first.                                                           *)
LEMMA PrepareOrders ==
  ASSUME AllocInv, NEW acting \in Actors, Prepare(acting)
  PROVE  PreparedOrder'
  <1> DEFINE started == [g \in Agents |-> StartReady(activities[g])]
             Planned(choice) == [g \in Agents |-> IF g \in acting THEN Onset(choice[g]) ELSE started[g]]
  <1>1. PICK choice \in Plans(acting) :
          candidate' = [activities |-> Admitted(Planned(choice), Admissions(Planned(choice), acting).kind),
                        fresh |-> acting,
                        started |-> Reserved,
                        unstarted |-> {g \in Reserved : started[g].status = "blocked"},
                        cancelled |-> Replaced(acting)]
    BY DEF Prepare
  <1>2. phase' = "prepared" /\ UNCHANGED world
    BY DEF Prepare
  <1>3. acting \in SUBSET Agents
    BY ActivitiesAssumption DEF Actors, Eligible
  <1>4. elapsed \in Nat /\ \A g \in acting : choice[g] \in Works[g]
    BY DEF AllocInv, SchedInv, WorldSound, Plans
  <1> DEFINE acts == Planned(choice)
             admitted == Admitted(acts, Admissions(acts, acting).kind)
  <1>5. candidate'.activities = admitted /\ candidate'.fresh = acting
    BY <1>1
  <1>6. /\ acts = [g \in Agents |-> acts[g]]
        /\ \A g \in Agents \ acting : acts[g] = StartReady(activities[g])
        /\ \A g \in acting : acts[g] = Onset(choice[g])
    BY <1>3
  <1> HIDE DEF acts
  <1>7. /\ \A g \in Agents \ acting : admitted[g] = acts[g]
        /\ \A g \in acting : admitted[g] \in {acts[g], Stopped(acts[g], "queued"), Stopped(acts[g], "blocked")}
    BY <1>3, AdmittedHistory
  <1>8. ASSUME NEW g \in acting
        PROVE  /\ acts[g].since = elapsed /\ acts[g].status = "active"
               /\ acts[g] = CreateActivity(acts[g].work, elapsed, acts[g].deadline)
               /\ \A s : /\ Stopped(acts[g], s).status = s /\ Stopped(acts[g], s).work = acts[g].work
                         /\ Stopped(acts[g], s).since = elapsed
                         /\ Stopped(acts[g], s).deadline = acts[g].deadline
    <2>1. acts[g] = Onset(choice[g])
      BY <1>6
    <2>2. Sound(g, Onset(choice[g]), elapsed) /\ Onset(choice[g]) # NoActivity
      BY <1>3, <1>4, SoundOnset
    <2>3. \E w, d : Onset(choice[g]) = CreateActivity(w, elapsed, d)
      BY DEF Onset
    <2>4. PICK w, d : acts[g] = CreateActivity(w, elapsed, d)
      BY <2>1, <2>3
    <2>5. CreateActivity(w, elapsed, d).work = w /\ CreateActivity(w, elapsed, d).deadline = d
          /\ CreateActivity(w, elapsed, d).since = elapsed /\ CreateActivity(w, elapsed, d).status = "active"
      BY DEF CreateActivity
    <2> QED
      BY <1>3, <2>1, <2>2, <2>4, <2>5, StoppedFields
  <1> HIDE DEF admitted
  <1>9. ASSUME NEW g \in Agents
        PROVE  IF g \in acting THEN admitted[g].since = elapsed /\ admitted[g].status # "ready"
               ELSE admitted[g] = StartReady(activities[g])
    BY <1>6, <1>7, <1>8
  <1>10. ProposedAgain(NoReaction)' = [g \in Agents |->
           IF g \in acting /\ admitted[g].status \in {"queued", "blocked"}
           THEN CreateActivity(admitted[g].work, elapsed, admitted[g].deadline) ELSE admitted[g]]
    BY <1>2, <1>5 DEF ProposedAgain, NoReaction, CreateActivity, world
  <1>11. ASSUME NEW g \in Agents
         PROVE  (IF g \in acting /\ admitted[g].status \in {"queued", "blocked"}
                 THEN CreateActivity(admitted[g].work, elapsed, admitted[g].deadline) ELSE admitted[g]) = acts[g]
    BY <1>7, <1>8
  <1>12. ProposedAgain(NoReaction)' = acts
    BY <1>6, <1>10, <1>11
  <1>13. AdmissionsStable'
    BY <1>5, <1>12 DEF AdmissionsStable, admitted, Admitted, Admissions
  <1> QED
    BY <1>2, <1>5, <1>9, <1>13 DEF PreparedOrder, Begun, StartReady, CreateActivity, Continues, world

LEMMA SameWork ==
  ASSUME NEW a, NEW b, a.work = b.work
  PROVE  PoolsOf(a) = PoolsOf(b) /\ Claims(a) = Claims(b) /\ ContentionOf(a) = ContentionOf(b)
  <1>1. Claims(a) = Claims(b)
    BY DEF Claims
  <1>2. PoolsOf(a) = PoolsOf(b)
    BY <1>1 DEF PoolsOf
  <1> QED
    BY <1>1, <1>2 DEF ContentionOf

(* The advance completes an activity or lets it run on, and touches nothing *)
(* else.                                                                    *)
LEMMA AdvancedFields ==
  ASSUME NEW acts, NEW now, NEW to, AllSound(acts, now), NEW g \in Agents, NEW b, b = Advanced(acts, to)[g]
  PROVE  \/ b = acts[g] /\ acts[g].status # "active"
         \/ /\ acts[g].status = "active" /\ b.status \in {"active", "completed"}
            /\ b.work = acts[g].work /\ b.since = acts[g].since
  <1> DEFINE a == acts[g]
             n == NextActivityBoundary(a, to)
  <1>1. CASE a.status # "active"
    BY <1>1 DEF Advanced
  <1>2. CASE a.status = "active"
    <2>1. a \in Record(g)
      BY <1>2, SoundStatus DEF AllSound, AnyStatus
    <2>2. \/ b = Stopped(a, "completed")
          \/ b = [a EXCEPT !.updated = to, !.next = n]
          \/ b = [a EXCEPT !.updated = to]
      BY <1>2 DEF Advanced
    <2> HIDE DEF a, n
    <2>3. /\ b.status \in {"active", "completed"} /\ b.work = a.work /\ b.since = a.since
      <3>1. CASE b = Stopped(a, "completed")
        BY <2>1, <3>1 DEF Record, Stopped
      <3>2. CASE b = [a EXCEPT !.updated = to, !.next = n] \/ b = [a EXCEPT !.updated = to]
        BY <1>2, <2>1, <3>2 DEF Record
      <3> QED
        BY <2>2, <3>1, <3>2
    <2> QED
      BY <1>2, <2>3 DEF a
  <1> QED
    BY <1>1, <1>2

LEMMA ProposedHistory ==
  ASSUME AllocInv, phase = "prepared", NEW r \in Reactions,
         NEW fresh, fresh = candidate.fresh \cup Reacting(r, {"replace"}),
         NEW g \in Agents
  PROVE  IF g \in fresh THEN Begun(ProposedAgain(r)[g]) ELSE Inherited(ProposedAgain(r)[g], activities[g])
  <1> DEFINE a == candidate.activities[g]
             b == ProposedAgain(r)[g]
  <1>1. /\ Sound(g, a, elapsed) /\ Sound(g, activities[g], elapsed) /\ candidate.fresh \subseteq Agents
        /\ IF g \in candidate.fresh THEN Begun(a) ELSE a = StartReady(activities[g])
    BY DEF AllocInv, SchedInv, WorldSound, IInv, PreparedHolds, PreparedSound, AllSound, PreparedOrder
  <1>2. g \notin candidate.fresh => Inherited(a, activities[g])
    BY <1>1, StartedHistory
  <1>3. /\ r[g].kind \in {"pause", "cancel", "replace"} => candidate.activities[g].status = "active"
        /\ r[g].kind = "replace" => r[g].choice \in Works[g]
    BY ReactionDecided
  <1>4. CASE r[g].kind \in {"pause", "cancel"}
    <2>1. b \in {Stopped(a, "paused"), Stopped(a, "cancelled")}
      <3>1. CASE r[g].kind = "pause"
        BY <1>3, <1>4, <3>1 DEF ProposedAgain
      <3>2. CASE r[g].kind = "cancel"
        BY <1>3, <1>4, <3>2 DEF ProposedAgain
      <3> QED
        BY <1>4, <3>1, <3>2
    <2>2. a.status = "active" /\ a # NoActivity /\ r[g].kind # "replace"
      BY <1>3, <1>4 DEF NoActivity
    <2> HIDE DEF a, b
    <2>3. b.status \in {"paused", "cancelled"} /\ b.since = a.since
      BY <1>1, <2>1, <2>2, StoppedFields
    <2>4. g \in fresh => Begun(b)
      BY <1>1, <2>2, <2>3 DEF Begun, Reacting
    <2>5. g \notin fresh => Inherited(b, activities[g])
      BY <1>2, <2>2, <2>3 DEF Inherited
    <2> QED
      BY <2>4, <2>5 DEF b
  <1>5. CASE r[g].kind = "replace"
    <2>1. b = Onset(r[g].choice)
      BY <1>3, <1>5 DEF ProposedAgain
    <2> QED
      BY <1>5, <2>1, OnsetBegun DEF Begun, Reacting
  <1>6. CASE r[g].kind \notin {"pause", "cancel", "replace"}
    <2>1. g \in fresh <=> g \in candidate.fresh
      BY <1>6 DEF Reacting
    <2>2. CASE g \in candidate.fresh /\ a.status \in {"queued", "blocked"}
      <3>1. b = CreateActivity(a.work, elapsed, a.deadline)
        BY <1>6, <2>2 DEF ProposedAgain
      <3>2. b.since = elapsed /\ b.status = "active"
        BY <3>1 DEF CreateActivity
      <3> QED
        BY <2>1, <2>2, <3>2 DEF Begun
    <2>3. CASE ~(g \in candidate.fresh /\ a.status \in {"queued", "blocked"})
      <3>1. b = a
        BY <1>6, <2>3 DEF ProposedAgain
      <3> QED
        BY <1>1, <1>2, <2>1, <3>1
    <2> QED
      BY <2>2, <2>3
  <1> QED
    BY <1>4, <1>5, <1>6

LEMMA CompleteOrders ==
  ASSUME AllocInv, Complete
  PROVE  AdvancedOrder'
  <1>1. phase = "prepared" /\ phase' = "advanced" /\ UNCHANGED world
    BY DEF Complete
  <1>2. PICK r \in Reactions :
          LET fresh == candidate.fresh \cup Reacting(r, {"replace"})
              proposed == ProposedAgain(r)
              plan == Admissions(proposed, fresh)
              admitted == Admitted(proposed, plan.kind)
              to == SelectTemporalBoundary(admitted)
              due == Due(admitted, to)
              advanced == Advanced(admitted, to)
              woken == {g \in Agents : Timers[g] = to}
              deferred == {g \in fresh : plan.kind[g] \in {"queue", "reject"}}
              rivals == {g \in Agents \cap plan.rivals : admitted[g].status \notin {"none", "queued"}}
          IN candidate' =
               [activities |-> advanced, fresh |-> fresh, to |-> to, due |-> due,
                kept |-> Reacting(r, {"continue"}),
                started |-> candidate.started, unstarted |-> candidate.unstarted,
                cancelled |-> candidate.cancelled,
                queued |-> {g \in fresh : plan.kind[g] = "queue"},
                resolving |-> ((((fresh \ deferred) \cup rivals) \ woken) \cup due),
                points |-> {g \in Agents : advanced[g].status = "completed"} \cup woken
                             \cup {g \in fresh : plan.kind[g] = "reject"} \cup candidate.unstarted
                             \cup Reacting(r, {"pause", "cancel"})]
    BY DEF Complete
  <1> DEFINE fresh == candidate.fresh \cup Reacting(r, {"replace"})
             proposed == ProposedAgain(r)
             admitted == Admitted(proposed, Admissions(proposed, fresh).kind)
             to == SelectTemporalBoundary(admitted)
             advanced == Advanced(admitted, to)
  <1>3. candidate'.activities = advanced /\ candidate'.fresh = fresh /\ "fresh" \in DOMAIN candidate'
    BY <1>2
  <1>4. /\ AllSound(proposed, elapsed) /\ fresh \in SUBSET Agents
        /\ \A g \in fresh : proposed[g] # NoActivity
    BY <1>1, SoundProposed DEF AllocInv
  <1>5. \A g \in Agents : IF g \in fresh THEN Begun(proposed[g]) ELSE Inherited(proposed[g], activities[g])
    BY <1>1, ProposedHistory
  <1> HIDE DEF proposed, fresh
  <1>6. AllSound(admitted, elapsed)
    BY <1>4, SoundAdmitted
  <1>7. /\ \A g \in Agents \ fresh : admitted[g] = proposed[g]
        /\ \A g \in fresh :
             \/ admitted[g] = proposed[g] /\ (ContentionOf(proposed[g]) = "queue" => ~QueueAhead(proposed, g))
             \/ admitted[g] \in {Stopped(proposed[g], "queued"), Stopped(proposed[g], "blocked")}
    BY <1>4, AdmittedHistory
  <1> HIDE DEF admitted, to
  <1>8. \A g \in Agents :
          \/ advanced[g] = admitted[g] /\ admitted[g].status # "active"
          \/ /\ admitted[g].status = "active" /\ advanced[g].status \in {"active", "completed"}
             /\ advanced[g].work = admitted[g].work /\ advanced[g].since = admitted[g].since
    BY <1>6, AdvancedFields
  <1> HIDE DEF advanced
  <1>9. ASSUME NEW g \in fresh
        PROVE  Begun(advanced[g]) /\ Passes(advanced[g], fresh)
    <2>1. Sound(g, proposed[g], elapsed) /\ proposed[g] # NoActivity /\ Begun(proposed[g])
      BY <1>4, <1>5 DEF AllSound
    <2>2. CASE /\ admitted[g] = proposed[g]
               /\ ContentionOf(proposed[g]) = "queue" => ~QueueAhead(proposed, g)
      <3>1. Begun(advanced[g])
        BY <1>4, <1>8, <2>1, <2>2 DEF Begun
      <3>2. ASSUME advanced[g].status = "active", ContentionOf(advanced[g]) = "queue",
                   NEW q \in Agents \ fresh, activities[q].status = "queued"
            PROVE  PoolsOf(activities[q]) \cap PoolsOf(advanced[g]) = {}
        <4>1. advanced[g].work = proposed[g].work
          BY <1>4, <1>8, <2>2, <3>2
        <4>2. ContentionOf(proposed[g]) = "queue" /\ PoolsOf(advanced[g]) = PoolsOf(proposed[g])
          BY <3>2, <4>1, SameWork
        <4>3. proposed[q] = activities[q]
          BY <1>5, <3>2 DEF Inherited
        <4>4. q \in QueuedIn(proposed)
          BY <3>2, <4>3 DEF QueuedIn
        <4>5. ~Linked(proposed, q, g)
          BY <2>2, <4>2, <4>4 DEF QueueAhead
        <4> QED
          BY <4>2, <4>3, <4>5 DEF Linked
      <3> QED
        BY <3>1, <3>2 DEF Passes
    <2>3. CASE admitted[g] \in {Stopped(proposed[g], "queued"), Stopped(proposed[g], "blocked")}
      <3>1. admitted[g].status \in {"queued", "blocked"} /\ admitted[g].since = proposed[g].since
        BY <1>4, <2>1, <2>3, StoppedFields
      <3>2. advanced[g] = admitted[g]
        BY <1>4, <1>8, <3>1
      <3> QED
        BY <2>1, <3>1, <3>2 DEF Begun, Passes
    <2> QED
      BY <1>7, <2>2, <2>3
  <1>10. ASSUME NEW g \in Agents \ fresh
         PROVE  Inherited(advanced[g], activities[g])
    <2>1. Inherited(admitted[g], activities[g])
      BY <1>5, <1>7
    <2> QED
      BY <1>8, <2>1 DEF Inherited
  <1>11. History(advanced, fresh)
    BY <1>9, <1>10 DEF History
  <1> QED
    BY <1>1, <1>3, <1>11 DEF AdvancedOrder, History, Begun, Passes, Inherited, world

(* Nothing that is stopped in the rest of the step gets any further.        *)
LEMMA StoppedHistory ==
  ASSUME NEW before, NEW after, NEW fresh, NEW to, AllSound(before, to), History(before, fresh),
         StopsSome(before, after)
  PROVE  AllSound(after, to) /\ History(after, fresh)
  <1>1. ASSUME NEW g \in Agents
        PROVE  /\ Sound(g, after[g], to)
               /\ IF g \in fresh THEN Begun(after[g]) /\ Passes(after[g], fresh)
                  ELSE Inherited(after[g], activities[g])
    <2>1. /\ Sound(g, before[g], to)
          /\ IF g \in fresh THEN Begun(before[g]) /\ Passes(before[g], fresh)
             ELSE Inherited(before[g], activities[g])
      BY DEF AllSound, History
    <2>2. CASE after[g] = before[g]
      BY <2>1, <2>2
    <2>3. CASE before[g].status = "active" /\ \E s \in Endings : after[g] = Stopped(before[g], s)
      <3>1. PICK s \in Endings : after[g] = Stopped(before[g], s)
        BY <2>3
      <3>2. before[g] # NoActivity /\ s \in AnyStatus \ {"active"} /\ s \notin {"ready", "queued"}
        BY <2>3 DEF NoActivity, Endings, AnyStatus
      <3>3. Sound(g, after[g], to)
        BY <2>1, <3>1, <3>2, SoundStopped
      <3>4. after[g].status = s /\ after[g].since = before[g].since
        BY <2>1, <3>1, <3>2, StoppedFields
      <3>5. g \in fresh => Begun(after[g]) /\ Passes(after[g], fresh)
        BY <2>1, <3>2, <3>4 DEF Begun, Passes
      <3>6. g \notin fresh => Inherited(after[g], activities[g])
        BY <2>1, <2>3, <3>2, <3>4 DEF Inherited
      <3> QED
        BY <3>3, <3>5, <3>6
    <2> QED
      BY <2>2, <2>3 DEF StopsSome
  <1> QED
    BY <1>1 DEF AllSound, History

LEMMA ResolveOrders ==
  ASSUME AllocInv, Resolve
  PROVE  AdvancedOrder'
  <1>1. phase = "advanced" /\ phase' = "resolved" /\ UNCHANGED world
    BY DEF Resolve
  <1>2. /\ "fresh" \in DOMAIN candidate /\ History(candidate.activities, candidate.fresh)
        /\ AllSound(candidate.activities, candidate.to)
    BY <1>1 DEF AllocInv, AdvancedOrder, SchedInv, AdvancedSound
  <1>3. /\ candidate'.fresh = candidate.fresh /\ DOMAIN candidate' = DOMAIN candidate
        /\ StopsSome(candidate.activities, candidate'.activities)
    BY <1>2, ResolveStops DEF AllocInv
  <1>4. History(candidate'.activities, candidate.fresh)
    BY <1>2, <1>3, StoppedHistory
  <1> QED
    BY <1>1, <1>2, <1>3, <1>4 DEF AdvancedOrder, History, Begun, Passes, Inherited, world

(* What a step commits, when it does: the promotion of a settled world with *)
(* the history of the step.                                                 *)
CommitsInOrder(acts, fresh) ==
  /\ AllSound(acts, elapsed') /\ History(acts, fresh) /\ elapsed < elapsed' /\ elapsed' \in Nat
  /\ WithinCapacity(Promoted(acts))
  /\ activities' = [g \in Agents |-> Kept(Promoted(acts)[g])]

LEMMA FinishInOrder ==
  ASSUME AllocInv, Finish
  PROVE  UNCHANGED world \/ \E acts, fresh : CommitsInOrder(acts, fresh)
  <1>1. phase = "resolved"
    BY DEF Finish
  <1>2. /\ History(candidate.activities, candidate.fresh) /\ AllSound(candidate.activities, candidate.to)
        /\ elapsed < candidate.to /\ candidate.to \in Nat
    BY <1>1 DEF AllocInv, AdvancedOrder, SchedInv, AdvancedSound
  <1>3. ASSUME NEW acts, Commits(acts) PROVE CommitsInOrder(acts, candidate.fresh)
    <2>1. PICK mid : StopsSome(candidate.activities, mid) /\ StopsSome(mid, acts)
      BY <1>3 DEF Commits, Settles
    <2>2. AllSound(mid, candidate.to) /\ History(mid, candidate.fresh)
      BY <1>2, <2>1, StoppedHistory
    <2>3. AllSound(acts, candidate.to) /\ History(acts, candidate.fresh)
      BY <2>1, <2>2, StoppedHistory
    <2> QED
      BY <1>2, <1>3, <2>3 DEF Commits, CommitsInOrder
  <1> QED
    BY <1>3, FinishSettles

LEMMA SoundTimes ==
  ASSUME NEW acts, NEW now, AllSound(acts, now)
  PROVE  Times(acts)
  <1> SUFFICES ASSUME NEW g \in Agents, acts[g].status = "queued" PROVE acts[g].since \in Nat
    BY DEF Times, QueuedIn
  <1>1. acts[g] \in Record(g)
    BY SoundStatus DEF AllSound, AnyStatus
  <1> QED
    BY <1>1 DEF Record

(* The status of what is committed tells what was settled.                  *)
LEMMA CommittedFrom ==
  ASSUME NEW acts, NEW now, AllSound(acts, now), NEW g \in Agents, NEW c, c = Kept(Promoted(acts)[g]),
         acts[g].status # "ready"
  PROVE  /\ g \in Reservable(acts) <=> c.status = "ready"
         /\ g \in Reservable(acts) => /\ acts[g].status = "queued" /\ c.work = acts[g].work
                                      /\ c.since = acts[g].since
         /\ c.status \in {"active", "paused", "queued"} => c = acts[g]
         /\ acts[g].status = "queued" /\ g \notin Reservable(acts) => c = acts[g]
  <1>1. CASE g \in Reservable(acts)
    <2>1. acts[g].status = "queued"
      BY <1>1 DEF Reservable, QueuedIn
    <2>2. acts[g] \in Record(g)
      BY <2>1, SoundStatus DEF AllSound, AnyStatus
    <2>3. Promoted(acts)[g] = [acts[g] EXCEPT !.status = "ready"]
      BY <1>1 DEF Promoted
    <2> DEFINE a == acts[g]
               b == Promoted(acts)[g]
    <2> HIDE DEF a
    <2>4. b = [a EXCEPT !.status = "ready"] /\ a \in Record(g)
      BY <2>2, <2>3 DEF a
    <2> HIDE DEF b
    <2>5. b.status = "ready" /\ b.work = a.work /\ b.since = a.since
      BY <2>4 DEF Record
    <2>6. c = b
      BY <2>5 DEF Kept, Live, b
    <2> QED
      BY <1>1, <2>1, <2>5, <2>6 DEF a
  <1>2. CASE g \notin Reservable(acts)
    <2>1. c = Kept(acts[g])
      BY <1>2 DEF Promoted
    <2>2. c = acts[g] \/ (c = NoActivity /\ ~Live(acts[g]))
      BY <2>1 DEF Kept
    <2> QED
      BY <1>2, <2>2 DEF NoActivity, Live
  <1> QED
    BY <1>1, <1>2

LEMMA FinishOrdersWorld ==
  ASSUME AllocInv, Finish
  PROVE  WorldOrder'
  <1>1. CASE UNCHANGED world
    BY <1>1 DEF AllocInv, WorldOrder, world
  <1>2. ASSUME NEW acts, NEW fresh, CommitsInOrder(acts, fresh) PROVE WorldOrder'
    <2> SUFFICES ASSUME NEW g \in Agents, activities'[g].status \in {"active", "queued"}
                 PROVE  activities'[g].since < elapsed'
      BY DEF WorldOrder
    <2>1. /\ AllSound(acts, elapsed') /\ elapsed < elapsed' /\ elapsed' \in Nat
          /\ activities'[g] = Kept(Promoted(acts)[g])
          /\ IF g \in fresh THEN Begun(acts[g]) ELSE Inherited(acts[g], activities[g])
      BY <1>2 DEF CommitsInOrder, History
    <2>2. activities'[g] = acts[g]
      BY <2>1, CommittedFrom DEF Begun, Inherited
    <2>3. elapsed \in Nat /\ WorldOrder /\ AllSound(activities, elapsed)
      BY DEF AllocInv, SchedInv, WorldSound
    <2>4. CASE g \in fresh
      BY <2>1, <2>2, <2>4 DEF Begun
    <2>5. CASE g \notin fresh
      <3>1. acts[g] \in Record(g)
        BY <2>1, <2>2, SoundStatus DEF AllSound, AnyStatus
      <3>2. acts[g].since \in Nat
        BY <3>1 DEF Record
      <3>3. CASE activities'[g].status = "queued"
        BY <2>1, <2>2, <2>3, <2>5, <3>2, <3>3 DEF Inherited, WorldOrder
      <3>4. CASE activities'[g].status = "active"
        <4>1. \/ acts[g].since = elapsed
              \/ acts[g].since = activities[g].since /\ activities[g].status = "active"
          BY <2>1, <2>2, <2>5, <3>4 DEF Inherited
        <4> QED
          BY <2>1, <2>2, <2>3, <3>2, <4>1 DEF WorldOrder
      <3> QED
        BY <3>3, <3>4
    <2> QED
      BY <2>4, <2>5
  <1> QED
    BY <1>1, <1>2, FinishInOrder

LEMMA NobodyOvertakes ==
  ASSUME AllocInv, [Next]_vars, NEW q \in Agents, NEW g \in Agents,
         activities[q].status = "queued", activities'[q] = activities[q], Gains(g),
         PoolsOf(activities'[g]) \cap PoolsOf(activities[q]) # {}
  PROVE  activities[g].status = "queued" /\ Before(activities, g, q)
  <1>1. /\ elapsed \in Nat /\ WorldOrder /\ activities[q].since < elapsed
        /\ activities'[g].status \in {"active", "ready"} /\ activities[g].status # "ready"
        /\ activities[g].status = "queued" \/ activities'[g].since = elapsed
        /\ ContentionOf(activities'[g]) = "queue"
    BY DEF AllocInv, SchedInv, WorldSound, WorldOrder, Gains
  <1>2. CASE UNCHANGED world
    <2>1. activities' = activities
      BY <1>2 DEF world
    <2>2. activities[g].status = "active" /\ activities[g].since = elapsed
      BY <1>1, <2>1
    <2> QED
      BY <1>1, <2>2 DEF WorldOrder
  <1>3. ASSUME NEW acts, NEW fresh, CommitsInOrder(acts, fresh)
        PROVE  activities[g].status = "queued" /\ Before(activities, g, q)
    <2>1. /\ AllSound(acts, elapsed') /\ History(acts, fresh)
          /\ activities'[g] = Kept(Promoted(acts)[g]) /\ activities'[q] = Kept(Promoted(acts)[q])
          /\ acts[g].status # "ready" /\ acts[q].status # "ready"
      BY <1>3 DEF CommitsInOrder, History, Begun, Inherited
    <2>2. /\ g \in Reservable(acts) <=> activities'[g].status = "ready"
          /\ g \in Reservable(acts) => /\ acts[g].status = "queued" /\ activities'[g].work = acts[g].work
          /\ activities'[g].status \in {"active", "paused", "queued"} => activities'[g] = acts[g]
      BY <2>1, CommittedFrom
    <2>3. q \notin Reservable(acts) /\ acts[q] = activities[q]
      BY <2>1, CommittedFrom
    <2>4. q \notin fresh
      BY <1>1, <2>1, <2>3 DEF History, Begun
    <2>5. CASE activities'[g].status = "ready"
      <3>1. g \in Reservable(acts) /\ q \in QueuedIn(acts) \ Reservable(acts) /\ Times(acts)
        BY <2>1, <2>2, <2>3, <2>5, SoundTimes DEF QueuedIn
      <3>2. PoolsOf(activities'[g]) = PoolsOf(acts[g])
        BY <2>2, <2>5, SameWork
      <3>3. Linked(acts, g, q)
        BY <2>3, <3>2 DEF Linked
      <3>4. Before(acts, g, q)
        BY <3>1, <3>3, PromotedInOrder
      <3>5. acts[g].since \in Nat /\ acts[q].since \in Nat /\ acts[g].status = "queued"
        BY <3>1, <2>2 DEF Times, QueuedIn
      <3>6. g \notin fresh
        <4> SUFFICES ASSUME g \in fresh PROVE FALSE
          OBVIOUS
        <4>1. acts[g].since = elapsed
          BY <2>1 DEF History, Begun
        <4> QED
          BY <1>1, <2>3, <3>4, <3>5, <4>1 DEF Before
      <3>7. activities[g].status = "queued" /\ acts[g] = activities[g]
        BY <2>1, <3>5, <3>6 DEF History, Inherited
      <3> QED
        BY <2>3, <3>4, <3>7 DEF Before
    <2>6. CASE activities'[g].status = "active"
      <3>1. acts[g] = activities'[g]
        BY <2>2, <2>6
      <3>2. CASE g \in fresh
        <4>1. Passes(acts[g], fresh)
          BY <2>1, <3>2 DEF History
        <4>2. PoolsOf(activities[q]) \cap PoolsOf(acts[g]) = {}
          BY <1>1, <2>4, <2>6, <3>1, <4>1 DEF Passes
        <4> QED
          BY <3>1, <4>2
      <3>3. CASE g \notin fresh
        <4>1. Inherited(acts[g], activities[g])
          BY <2>1, <3>3 DEF History
        <4>2. activities[g].status = "active" /\ acts[g].since = activities[g].since
          BY <1>1, <2>6, <3>1, <4>1 DEF Inherited
        <4> QED
          BY <1>1, <3>1, <4>2 DEF WorldOrder
      <3> QED
        BY <3>2, <3>3
    <2> QED
      BY <1>1, <2>5, <2>6
  <1>4. UNCHANGED world \/ \E acts, fresh : CommitsInOrder(acts, fresh)
    BY FinishInOrder DEF Next, vars, world, Prepare, PreparationFails, Complete, Resolve
  <1> QED
    BY <1>2, <1>3, <1>4

-----------------------------------------------------------------------------
(* The claims that are held.                                                *)
Held(acts, p) == [g \in Agents |-> HeldBy(acts[g])[p]]

LEMMA HeldTyped ==
  ASSUME NEW g \in Agents, NEW a, NEW now, Sound(g, a, now), NEW p \in Pools
  PROVE  /\ HeldBy(a)[p] \in Nat
         /\ a \in Record(g) => Claims(a)[p] \in Nat
         /\ ~Live(a) => HeldBy(a)[p] = 0
         /\ a.status = "queued" => HeldBy(a)[p] = 0
  <1>1. ASSUME a \in Record(g) PROVE Claims(a)[p] \in Nat
    <2>1. a.work \in Works[g]
      BY <1>1, RecordTyped
    <2>2. a.work.claims \in [Pools -> Nat]
      BY <2>1, WorkTyped
    <2> QED
      BY <2>2 DEF Claims
  <1>2. HeldBy(a)[p] = IF a.status \in {"ready", "active"} \/ (a.status = "paused" /\ p \in PausedRetention)
                       THEN Claims(a)[p] ELSE 0
    BY DEF HeldBy
  <1>3. CASE a = NoActivity
    <2>1. a.status = "none"
      BY <1>3 DEF NoActivity
    <2> QED
      BY <1>1, <1>2, <2>1
  <1>4. CASE a \in Record(g)
    BY <1>1, <1>2, <1>4 DEF Live
  <1> QED
    BY <1>3, <1>4 DEF Sound

LEMMA UsageHeld ==
  ASSUME NEW acts, NEW p \in Pools
  PROVE  Usage(acts, Agents)[p] = SumFunctionOnSet(Held(acts, p), Agents)
  BY DEF Usage, Held

LEMMA HeldAddends ==
  ASSUME NEW acts, NEW now, AllSound(acts, now), NEW p \in Pools
  PROVE  Addends(Held(acts, p), Agents)
  BY HeldTyped DEF Held, Addends, AllSound

(* What a world is that a step may commit.                                  *)
Commitment(acts, c) ==
  /\ \E now : AllSound(acts, now)
  /\ \A g \in Agents : acts[g].status # "ready"
  /\ WithinCapacity(Promoted(acts))
  /\ c = [g \in Agents |-> Kept(Promoted(acts)[g])]

LEMMA CommitmentHeld ==
  ASSUME NEW acts, NEW c, Commitment(acts, c), NEW p \in Pools
  PROVE  /\ Held(c, p) = Held(Promoted(acts), p)
         /\ Addends(Held(c, p), Agents)
         /\ Usage(c, Agents)[p] \in Nat /\ Usage(c, Agents)[p] <= Capacity[p] /\ Capacity[p] \in Nat
         /\ \A g \in Agents : g \in Reservable(acts) => Held(c, p)[g] = Claims(acts[g])[p]
         /\ \A g \in Agents : g \notin Reservable(acts) => Held(c, p)[g] = Held(acts, p)[g]
  <1>1. PICK now : AllSound(acts, now)
    BY DEF Commitment
  <1>2. ASSUME NEW g \in Agents
        PROVE  /\ HeldBy(c[g])[p] \in Nat
               /\ HeldBy(c[g])[p] = HeldBy(Promoted(acts)[g])[p]
               /\ g \in Reservable(acts) => HeldBy(c[g])[p] = Claims(acts[g])[p]
               /\ g \notin Reservable(acts) => HeldBy(c[g])[p] = HeldBy(acts[g])[p]
    <2>1. c[g] = Kept(Promoted(acts)[g]) /\ acts[g].status # "ready" /\ Sound(g, acts[g], now)
      BY <1>1 DEF Commitment, AllSound
    <2>2. Sound(g, c[g], now)
      BY <1>1, <2>1, SoundCommitted
    <2>3. HeldBy(NoActivity)[p] = 0
      BY DEF HeldBy, NoActivity
    <2>4. CASE g \in Reservable(acts)
      <3>1. c[g].status = "ready" /\ c[g].work = acts[g].work
        BY <1>1, <2>1, <2>4, CommittedFrom
      <3>2. c[g] = Promoted(acts)[g]
        BY <2>1, <3>1 DEF Kept, NoActivity
      <3>3. HeldBy(c[g])[p] = Claims(acts[g])[p]
        BY <3>1 DEF HeldBy, Claims
      <3> QED
        BY <2>2, <2>4, <3>2, <3>3, HeldTyped
    <2>5. CASE g \notin Reservable(acts)
      <3>1. Promoted(acts)[g] = acts[g]
        BY <2>5 DEF Promoted
      <3>2. c[g] = acts[g] \/ (c[g] = NoActivity /\ ~Live(acts[g]))
        BY <2>1, <3>1 DEF Kept
      <3>3. ~Live(acts[g]) => HeldBy(acts[g])[p] = 0
        BY <2>1, HeldTyped
      <3> QED
        BY <2>2, <2>3, <2>5, <3>1, <3>2, <3>3, HeldTyped
    <2> QED
      BY <2>4, <2>5
  <1>3. Held(c, p) = Held(Promoted(acts), p) /\ Addends(Held(c, p), Agents)
    BY <1>2 DEF Held, Addends
  <1>4. Usage(c, Agents)[p] \in Nat
    BY <1>3, UsageHeld, SumUnfolds, ActivitiesAssumption
  <1>5. Usage(c, Agents)[p] <= Capacity[p]
    BY <1>3, UsageHeld DEF Commitment, WithinCapacity
  <1>6. Capacity[p] \in Nat
    BY ActivitiesAssumption
  <1> QED
    BY <1>2, <1>3, <1>4, <1>5, <1>6 DEF Held

(* Whatever was settled, the committer's check covers all that counts.      *)
LEMMA CommitmentFits ==
  ASSUME NEW acts, NEW c, Commitment(acts, c), NEW p \in Pools, NEW counted,
         counted = {g \in Agents : \/ c[g].status \in {"active", "ready"}
                                   \/ c[g].status = "paused" /\ p \in PausedRetention}
  PROVE  SumFunction([g \in counted |-> c[g].work.claims[p]]) <= Capacity[p]
  <1> DEFINE f == [g \in counted |-> c[g].work.claims[p]]
  <1>1. /\ \A g \in counted : f[g] = Held(c, p)[g]
        /\ \A g \in Agents \ counted : Held(c, p)[g] = 0
    BY DEF Held, HeldBy, Claims
  <1>2. SumFunction(f) = SumFunctionOnSet(f, counted)
    BY DEF SumFunction
  <1>3. Addends(Held(c, p), Agents) /\ Usage(c, Agents)[p] <= Capacity[p]
    BY CommitmentHeld
  <1>4. counted \in SUBSET Agents /\ IsFiniteSet(Agents)
    BY ActivitiesAssumption
  <1> HIDE DEF f
  <1>5. SumFunctionOnSet(f, counted) = SumFunctionOnSet(Held(c, p), Agents)
    BY <1>1, <1>3, <1>4, SumSame
  <1>6. SumFunction(f) <= Capacity[p]
    BY <1>2, <1>3, <1>5, UsageHeld
  <1> QED
    BY <1>6 DEF f

LEMMA FirstOf ==
  ASSUME NEW acts, Times(acts), NEW S \in SUBSET QueuedIn(acts), S # {}
  PROVE  \E r \in S : \A k \in S : Before(acts, r, k)
  <1> DEFINE times == {acts[g].since : g \in S}
  <1>1. times \in SUBSET Nat /\ times # {}
    BY DEF Times
  <1>2. PICK t \in times : \A u \in times : t <= u
    BY <1>1, LeastElement
  <1> DEFINE earliest == {g \in S : acts[g].since = t}
  <1>3. earliest # {} /\ earliest \in SUBSET Nat
    BY ActivitiesAssumption DEF QueuedIn
  <1>4. PICK r \in earliest : \A k \in earliest : r <= k
    BY <1>3, LeastElement
  <1>5. ASSUME NEW k \in S PROVE Before(acts, r, k)
    <2>1. acts[r].since = t /\ acts[k].since \in Nat /\ t \in Nat /\ t <= acts[k].since
      BY <1>1, <1>2, <1>4 DEF Times
    <2>2. acts[k].since = t => r <= k
      BY <1>4
    <2> QED
      BY <2>1, <2>2 DEF Before
  <1> QED
    BY <1>4, <1>5

(* A queue depends on who waits in it, for what and since when; a promotion *)
(* changes none of these for those who waited.                              *)
LEMMA SameQueue ==
  ASSUME NEW a, NEW b, QueuedIn(a) = QueuedIn(b),
         \A g \in QueuedIn(a) : a[g].work = b[g].work /\ a[g].since = b[g].since,
         NEW q \in QueuedIn(a)
  PROVE  UpTo(a, q) = UpTo(b, q)
  <1>1. \A g, h \in QueuedIn(a) : Linked(a, g, h) <=> Linked(b, g, h)
    BY SameWork DEF Linked
  <1>2. Component(a, q) = Component(b, q)
    BY <1>1 DEF Component
  <1>3. Component(a, q) \subseteq QueuedIn(a)
    BY DEF Component
  <1> QED
    BY <1>2, <1>3 DEF UpTo, Before

LEMMA WaitedQueue ==
  ASSUME NEW acts, NEW c, Commitment(acts, c), NEW q \in QueuedIn(acts)
  PROVE  UpTo(Waited(c), q) = UpTo(acts, q)
  <1>1. PICK now : AllSound(acts, now)
    BY DEF Commitment
  <1> DEFINE w == Waited(c)
  <1>2. ASSUME NEW g \in Agents
        PROVE  /\ w[g].status = "queued" <=> acts[g].status = "queued"
               /\ acts[g].status = "queued" => w[g].work = acts[g].work /\ w[g].since = acts[g].since
    <2>1. c[g] = Kept(Promoted(acts)[g]) /\ acts[g].status # "ready"
      BY DEF Commitment
    <2>2. /\ g \in Reservable(acts) <=> c[g].status = "ready"
          /\ g \in Reservable(acts) => /\ acts[g].status = "queued" /\ c[g].work = acts[g].work
                                       /\ c[g].since = acts[g].since
          /\ c[g].status \in {"active", "paused", "queued"} => c[g] = acts[g]
          /\ acts[g].status = "queued" /\ g \notin Reservable(acts) => c[g] = acts[g]
      BY <1>1, <2>1, CommittedFrom
    <2>3. CASE g \in Reservable(acts)
      <3>1. "status" \in DOMAIN c[g]
        <4>1. Sound(g, c[g], now)
          BY <1>1, <2>1, SoundCommitted
        <4> QED
          BY <2>2, <2>3, <4>1, SoundStatus DEF AnyStatus, Record
      <3> DEFINE a == c[g]
      <3>2. w[g] = [a EXCEPT !.status = "queued"]
        BY <2>2, <2>3 DEF Waited
      <3> HIDE DEF a, w
      <3>3. w[g].status = "queued" /\ w[g].work = a.work /\ w[g].since = a.since
        BY <3>1, <3>2 DEF a
      <3> QED
        BY <2>2, <2>3, <3>3 DEF a
    <2>4. CASE g \notin Reservable(acts)
      <3>1. w[g] = c[g]
        BY <2>2, <2>4 DEF Waited
      <3> QED
        BY <2>2, <2>4, <3>1
    <2> QED
      BY <2>3, <2>4
  <1> HIDE DEF w
  <1>3. QueuedIn(w) = QueuedIn(acts)
    BY <1>2 DEF QueuedIn
  <1>4. \A g \in QueuedIn(w) : w[g].work = acts[g].work /\ w[g].since = acts[g].since
    BY <1>2, <1>3 DEF QueuedIn
  <1>5. UpTo(w, q) = UpTo(acts, q)
    BY <1>3, <1>4, SameQueue
  <1> QED
    BY <1>5 DEF w

(* The first of those before q that does not fit, with what is reserved     *)
(* for the ones before it, is short of something.                           *)
LEMMA CommitmentShort ==
  ASSUME NEW acts, NEW c, Commitment(acts, c), NEW q \in QueuedIn(c)
  PROVE  \E r \in QueuedIn(c) \cap UpTo(Waited(c), q) :
           \E p \in PoolsOf(c[r]) : Claims(c[r])[p] > Capacity[p] - Usage(c, Agents)[p]
  <1>1. PICK now : AllSound(acts, now)
    BY DEF Commitment
  <1>2. Times(acts)
    BY <1>1, SoundTimes
  <1>3. \A g \in Agents : c[g] = Kept(Promoted(acts)[g]) /\ acts[g].status # "ready"
    BY DEF Commitment
  <1>4. q \in QueuedIn(acts) \ Reservable(acts) /\ c[q] = acts[q]
    BY <1>1, <1>3, CommittedFrom DEF QueuedIn
  <1> DEFINE usage == Usage(acts, Agents)
             Fits(k) == \A p \in PoolsOf(acts[k]) :
               usage[p] + SumFunction([g \in UpTo(acts, k) |-> Claims(acts[g])[p]]) <= Capacity[p]
             failing == {r \in UpTo(acts, q) : ~Fits(r)}
  <1>5. Reservable(acts) = {k \in QueuedIn(acts) : \A l \in UpTo(acts, k) : Fits(l)}
    BY DEF Reservable
  <1> HIDE DEF Fits
  <1>6. failing # {}
    BY <1>4, <1>5
  <1>7. \A r \in UpTo(acts, q) :
          /\ r \in QueuedIn(acts) /\ Before(acts, r, q) /\ UpTo(acts, r) \subseteq UpTo(acts, q)
          /\ r \in UpTo(acts, r)
    BY <1>2, <1>4, UpToNested
  <1>8. failing \in SUBSET QueuedIn(acts)
    BY <1>7
  <1>9. PICK r \in failing : \A k \in failing : Before(acts, r, k)
    BY <1>2, <1>6, <1>8, FirstOf
  <1>10. /\ r \in UpTo(acts, q) /\ ~Fits(r) /\ r \in QueuedIn(acts) /\ r \in UpTo(acts, r)
         /\ UpTo(acts, r) \subseteq UpTo(acts, q) /\ Before(acts, r, q) /\ r \in Agents
    BY <1>7, <1>9 DEF QueuedIn
  <1> DEFINE rest == UpTo(acts, r) \ {r}
  <1>11. ASSUME NEW k \in rest PROVE k \in Reservable(acts)
    <2>1. k \in QueuedIn(acts) /\ Before(acts, k, r) /\ UpTo(acts, k) \subseteq UpTo(acts, r)
      BY <1>2, <1>10, UpToNested
    <2>2. ASSUME NEW l \in UpTo(acts, k) PROVE Fits(l)
      <3> SUFFICES ASSUME ~Fits(l) PROVE FALSE
        OBVIOUS
      <3>1. l \in failing
        BY <1>10, <2>1
      <3>2. Before(acts, r, l) /\ l \in QueuedIn(acts)
        BY <1>8, <1>9, <3>1
      <3>3. Before(acts, l, k)
        BY <1>2, <2>1, UpToNested
      <3>4. Before(acts, r, k)
        BY <1>2, <1>10, <2>1, <3>2, <3>3, BeforeOrder
      <3>5. k = r
        BY <1>2, <1>10, <2>1, <3>4, BeforeOrder
      <3> QED
        BY <3>5
    <2> QED
      BY <1>5, <2>1, <2>2
  <1>12. r \notin Reservable(acts)
    BY <1>5, <1>10
  <1>13. c[r] = acts[r] /\ r \in QueuedIn(c) /\ r \in UpTo(Waited(c), q)
    <2>1. c[r] = acts[r]
      BY <1>1, <1>3, <1>10, <1>12, CommittedFrom DEF QueuedIn
    <2> QED
      BY <1>4, <1>10, <2>1, WaitedQueue DEF QueuedIn
  <1>14. PICK p \in PoolsOf(acts[r]) :
           ~(usage[p] + SumFunction([g \in UpTo(acts, r) |-> Claims(acts[g])[p]]) <= Capacity[p])
    BY <1>10 DEF Fits
  <1>15. p \in Pools
    BY DEF PoolsOf
  <1> DEFINE cl == [g \in UpTo(acts, r) |-> Claims(acts[g])[p]]
             K == [g \in Agents |-> IF g \in rest THEN cl[g] ELSE 0]
             F == Held(acts, p)
             H == Held(c, p)
  <1>16. UpTo(acts, r) \in SUBSET Agents /\ IsFiniteSet(Agents)
    BY <1>7, <1>10, ActivitiesAssumption DEF QueuedIn
  <1>17. \A g \in UpTo(acts, r) : Claims(acts[g])[p] \in Nat /\ F[g] = 0
    <2> SUFFICES ASSUME NEW g \in UpTo(acts, r) PROVE Claims(acts[g])[p] \in Nat /\ F[g] = 0
      OBVIOUS
    <2>1. g \in Agents /\ acts[g].status = "queued"
      BY <1>7, <1>10 DEF QueuedIn
    <2>2. Sound(g, acts[g], now) /\ acts[g] \in Record(g)
      BY <1>1, <2>1, SoundStatus DEF AllSound, AnyStatus
    <2> QED
      BY <1>15, <2>1, <2>2, HeldTyped DEF Held
  <1>18. cl[r] = Claims(acts[r])[p] /\ cl[r] \in Nat
    BY <1>10, <1>17
  <1>19. Addends(cl, UpTo(acts, r)) /\ Addends(K, Agents) /\ Addends(F, Agents) /\ Addends(H, Agents)
    <2>1. Addends(cl, UpTo(acts, r)) /\ Addends(K, Agents)
      BY <1>17 DEF Addends
    <2> QED
      BY <1>1, <1>15, <2>1, HeldAddends, CommitmentHeld
  <1>20. \A g \in Agents : F[g] + K[g] <= H[g]
    <2> SUFFICES ASSUME NEW g \in Agents PROVE F[g] + K[g] <= H[g]
      OBVIOUS
    <2>1. F[g] \in Nat /\ H[g] \in Nat
      BY <1>19 DEF Addends
    <2>2. CASE g \in rest
      <3>1. H[g] = Claims(acts[g])[p]
        BY <1>11, <1>15, <2>2, CommitmentHeld
      <3>2. F[g] = 0 /\ K[g] = Claims(acts[g])[p] /\ Claims(acts[g])[p] \in Nat
        BY <1>17, <2>2
      <3> HIDE DEF F, H, K
      <3> QED
        BY <3>1, <3>2
    <2>3. CASE g \notin rest
      <3>1. K[g] = 0
        BY <2>3
      <3>2. g \notin Reservable(acts) => H[g] = F[g]
        BY <1>15, CommitmentHeld
      <3>3. g \in Reservable(acts) => F[g] = 0
        BY <1>1, <1>15, HeldTyped DEF AllSound, Held, Reservable, QueuedIn
      <3> HIDE DEF F, H, K
      <3> QED
        BY <2>1, <3>1, <3>2, <3>3
    <2> QED
      BY <2>2, <2>3
  <1>21. SumFunction(cl) = SumFunctionOnSet(cl, UpTo(acts, r))
    BY DEF SumFunction
  <1>22. usage[p] = SumFunctionOnSet(F, Agents) /\ Usage(c, Agents)[p] = SumFunctionOnSet(H, Agents)
    BY <1>15, UsageHeld
  <1>23. ~(usage[p] + SumFunction(cl) <= Capacity[p])
    BY <1>14
  <1>24. rest \in SUBSET Agents /\ (\A g \in rest : cl[g] = K[g]) /\ (\A g \in Agents \ rest : K[g] = 0)
    BY <1>16
  <1> HIDE DEF cl, F, H, K, usage
  <1>25. SumFunctionOnSet(cl, UpTo(acts, r)) = cl[r] + SumFunctionOnSet(cl, rest)
    <2>1. IsFiniteSet(UpTo(acts, r))
      BY <1>16, FS_Subset
    <2> QED
      BY <1>10, <1>19, <2>1, SumRemove
  <1>26. SumFunctionOnSet(cl, rest) = SumFunctionOnSet(K, Agents)
    <2> HIDE DEF rest
    <2> QED
      BY <1>16, <1>19, <1>24, SumSame
  <1>27. SumFunctionOnSet(F, Agents) + SumFunctionOnSet(K, Agents) <= SumFunctionOnSet(H, Agents)
    BY <1>16, <1>19, <1>20, SumPlus
  <1>28. /\ SumFunctionOnSet(F, Agents) \in Nat /\ SumFunctionOnSet(K, Agents) \in Nat
         /\ SumFunctionOnSet(H, Agents) \in Nat /\ Capacity[p] \in Nat
    BY <1>15, <1>16, <1>19, SumUnfolds, ActivitiesAssumption
  <1>29. cl[r] > Capacity[p] - Usage(c, Agents)[p]
    <2> DEFINE sf == SumFunctionOnSet(F, Agents)
               sk == SumFunctionOnSet(K, Agents)
               sh == SumFunctionOnSet(H, Agents)
               cr == cl[r]
               cap == Capacity[p]
    <2>1. /\ sf \in Nat /\ sk \in Nat /\ sh \in Nat /\ cap \in Nat /\ cr \in Nat
          /\ sf + sk <= sh /\ ~(sf + (cr + sk) <= cap)
      BY <1>18, <1>21, <1>22, <1>23, <1>25, <1>26, <1>27, <1>28
    <2> HIDE DEF sf, sk, sh, cr, cap
    <2>2. cr > cap - sh
      BY <2>1
    <2> QED
      BY <1>22, <2>2 DEF sh, cr, cap
  <1> QED
    BY <1>13, <1>18, <1>29

LEMMA FinishFits ==
  ASSUME AllocInv, Finish
  PROVE  CapacityRespected' /\ NoIdleCapacity'
  <1>1. CASE UNCHANGED world
    <2>1. activities' = activities
      BY <1>1 DEF world
    <2> QED
      BY <2>1 DEF AllocInv, CapacityRespected, NoIdleCapacity, Free
  <1>2. ASSUME NEW acts, NEW fresh, CommitsInOrder(acts, fresh)
        PROVE  CapacityRespected' /\ NoIdleCapacity'
    <2>1. Commitment(acts, activities')
      BY <1>2 DEF CommitsInOrder, Commitment, History, Begun, Inherited
    <2>2. CapacityRespected'
      BY <2>1, CommitmentFits DEF CapacityRespected
    <2>3. NoIdleCapacity'
      BY <2>1, CommitmentShort DEF NoIdleCapacity, Free
    <2> QED
      BY <2>2, <2>3
  <1> QED
    BY <1>1, <1>2, FinishInOrder

-----------------------------------------------------------------------------
(* The invariant, and what it says of a step.                               *)
LEMMA NothingHeld ==
  ASSUME NEW p \in Pools, activities = [g \in Agents |-> NoActivity]
  PROVE  SumFunction([g \in {} |-> activities[g].work.claims[p]]) <= Capacity[p]
  <1> DEFINE f == [g \in {} |-> activities[g].work.claims[p]]
  <1>1. SumFunction(f) = SumFunctionOnSet(f, {})
    BY DEF SumFunction
  <1>2. SumFunctionOnSet(f, {}) = 0
    BY FS_EmptySet, SumUnfolds DEF Addends
  <1>3. Capacity[p] \in Nat
    BY ActivitiesAssumption
  <1> HIDE DEF f
  <1>4. SumFunction(f) <= Capacity[p]
    BY <1>1, <1>2, <1>3
  <1> QED
    BY <1>4 DEF f

LEMMA AllocInit == Init => AllocInv
  <1> SUFFICES ASSUME Init PROVE AllocInv
    OBVIOUS
  <1>1. activities = [g \in Agents |-> NoActivity] /\ phase = "idle"
    BY DEF Init
  <1>2. \A g \in Agents : activities[g].status = "none"
    BY <1>1 DEF NoActivity
  <1>3. WorldOrder /\ PreparedOrder /\ AdvancedOrder
    BY <1>1, <1>2 DEF WorldOrder, PreparedOrder, AdvancedOrder
  <1>4. NoIdleCapacity
    BY <1>2 DEF NoIdleCapacity, QueuedIn
  <1>5. CapacityRespected
    <2> SUFFICES ASSUME NEW p \in Pools
                 PROVE  LET counted == {g \in Agents : \/ activities[g].status \in {"active", "ready"}
                                                       \/ activities[g].status = "paused" /\ p \in PausedRetention}
                        IN SumFunction([g \in counted |-> activities[g].work.claims[p]]) <= Capacity[p]
      BY DEF CapacityRespected
    <2> DEFINE counted == {g \in Agents : \/ activities[g].status \in {"active", "ready"}
                                          \/ activities[g].status = "paused" /\ p \in PausedRetention}
    <2>1. counted = {}
      BY <1>2
    <2> HIDE DEF counted
    <2>2. SumFunction([g \in counted |-> activities[g].work.claims[p]]) <= Capacity[p]
      BY <1>1, <2>1, NothingHeld
    <2> QED
      BY <2>2 DEF counted
  <1> QED
    BY <1>3, <1>4, <1>5, SchedInit DEF AllocInv

LEMMA AllocStep == AllocInv /\ [Next]_vars => AllocInv'
  <1> SUFFICES ASSUME AllocInv, [Next]_vars
               PROVE  AllocInv'
    OBVIOUS
  <1>0. SchedInv'
    BY SchedStep DEF AllocInv
  <1>1. ASSUME UNCHANGED world PROVE WorldOrder' /\ CapacityRespected' /\ NoIdleCapacity'
    BY <1>1 DEF world, AllocInv, WorldOrder, CapacityRespected, NoIdleCapacity, Free
  <1>2. CASE \E acting \in Actors : Prepare(acting)
    <2>1. PICK acting \in Actors : Prepare(acting)
      BY <1>2
    <2>2. PreparedOrder' /\ UNCHANGED world /\ phase' = "prepared"
      BY <2>1, PrepareOrders DEF Prepare
    <2> QED
      BY <1>0, <1>1, <2>2 DEF AllocInv, AdvancedOrder
  <1>3. CASE \E acting \in Actors : PreparationFails(acting)
    <2>1. UNCHANGED world /\ phase' = "idle"
      BY <1>3 DEF PreparationFails
    <2> QED
      BY <1>0, <1>1, <2>1 DEF AllocInv, PreparedOrder, AdvancedOrder
  <1>4. CASE Complete
    <2>1. AdvancedOrder' /\ UNCHANGED world /\ phase' = "advanced"
      BY <1>4, CompleteOrders DEF Complete
    <2> QED
      BY <1>0, <1>1, <2>1 DEF AllocInv, PreparedOrder
  <1>5. CASE Resolve
    <2>1. AdvancedOrder' /\ UNCHANGED world /\ phase' = "resolved"
      BY <1>5, ResolveOrders DEF Resolve
    <2> QED
      BY <1>0, <1>1, <2>1 DEF AllocInv, PreparedOrder
  <1>6. CASE Finish
    <2>1. WorldOrder' /\ CapacityRespected' /\ NoIdleCapacity' /\ phase' = "idle"
      BY <1>6, FinishOrdersWorld, FinishFits DEF Finish
    <2> QED
      BY <1>0, <2>1 DEF AllocInv, PreparedOrder, AdvancedOrder
  <1>7. CASE UNCHANGED vars
    <2>1. UNCHANGED world
      BY <1>7 DEF vars, world
    <2>2. phase' = phase /\ candidate' = candidate /\ activities' = activities /\ elapsed' = elapsed
      BY <1>7 DEF vars
    <2>3. ProposedAgain(NoReaction)' = ProposedAgain(NoReaction)
      BY <2>2 DEF ProposedAgain, NoReaction, CreateActivity, Stopped, Onset
    <2>4. AdmissionsStable => AdmissionsStable'
      BY <2>2, <2>3 DEF AdmissionsStable, Admitted, Admissions
    <2>5. PreparedOrder'
      BY <2>2, <2>4 DEF AllocInv, PreparedOrder, Begun, StartReady, CreateActivity, Continues
    <2>6. AdvancedOrder'
      BY <2>2 DEF AllocInv, AdvancedOrder, History, Begun, Passes, Inherited
    <2> QED
      BY <1>0, <1>1, <2>1, <2>5, <2>6 DEF AllocInv
  <1> QED
    BY <1>2, <1>3, <1>4, <1>5, <1>6, <1>7 DEF Next

LEMMA AllocInductive == Spec => []AllocInv
  BY AllocInit, AllocStep, PTL DEF Spec

(* validateSharedResourceCapacity guards every commit, after the pauses and *)
(* the promotions: no committed world claims more of a pool than there is,  *)
(* for any number of agents and pools and any claims.                       *)
THEOREM CapacityIsRespected == Spec => []CapacityRespected
  <1>1. AllocInv => CapacityRespected
    BY DEF AllocInv
  <1> QED
    BY <1>1, AllocInductive, PTL

(* promoteSharedResourceQueues reserves whatever fits: who still waits is   *)
(* short of something that others hold, or waits behind one who is.         *)
THEOREM NobodyWaitsForFree == Spec => []NoIdleCapacity
  <1>1. AllocInv => NoIdleCapacity
    BY DEF AllocInv
  <1> QED
    BY <1>1, AllocInductive, PTL

(* planSharedResourceAdmissions is a function of what is proposed: planned  *)
(* again without a reaction, it decides as it did before.                   *)
THEOREM AdmissionsAreStable == Spec => []AdmissionsStable
  <1>1. AllocInv => AdmissionsStable
    BY DEF AllocInv, PreparedOrder, AdmissionsStable
  <1> QED
    BY <1>1, AllocInductive, PTL

(* Neither an admission, which hasOlderConnectedQueue holds back, nor a     *)
(* promotion, which takes a prefix of the queue, gives a pool to a younger  *)
(* activity while an older one goes on waiting for it.                      *)
THEOREM QueuesAreInOrder == Spec => NoOvertaking
  <1>1. AllocInv /\ [Next]_vars =>
          \A q, g \in Agents :
            /\ activities[q].status = "queued" /\ activities'[q] = activities[q]
            /\ Gains(g) /\ PoolsOf(activities'[g]) \cap PoolsOf(activities[q]) # {}
            => activities[g].status = "queued" /\ Before(activities, g, q)
    BY NobodyOvertakes
  <1> QED
    BY <1>1, AllocInductive, PTL DEF Spec, NoOvertaking
=============================================================================
