------------------------ MODULE CaptureLimitsProofs ------------------------
(***************************************************************************)
(* Facts about the limits of the capture queue, for all their values: what *)
(* Bytes sums, and what trimming keeps.                                    *)
(***************************************************************************)
EXTENDS CaptureTrimLoop, TLAPS, FiniteSetTheorems, SequenceTheorems, WellFoundedInduction

(* Induction over a finite set, in the form the provers can use: of a      *)
(* family of its subsets that is not empty, some are minimal.              *)
LEMMA MinimalSubset ==
    ASSUME NEW S, IsFiniteSet(S), NEW T \in SUBSET (SUBSET S), T # {}
    PROVE  \E m \in T : \A n \in T : n \subseteq m => n = m
<1>1. T \subseteq FiniteSubsetsOf(S)
  BY FS_Subset DEF FiniteSubsetsOf
<1>2. PICK m \in T : \A n \in T : ~(<<n, m>> \in StrictSubsetOrdering(S))
  BY <1>1, FS_StrictSubsetOrderingWellFounded, WFMin
<1> QED
  BY <1>2 DEF StrictSubsetOrdering

(* A non-empty set of naturals has a least element: the set of those below *)
(* it is a minimal one for strict inclusion.                               *)
LEMMA LeastNatural ==
    ASSUME NEW S \in SUBSET Nat, S # {}
    PROVE  \E m \in S : \A n \in S : m <= n
<1> DEFINE Below(b) == {a \in S : a < b}
           T == {Below(x) : x \in S}
<1> HIDE DEF T
<1>1. \A x \in S : Below(x) \in FiniteSubsetsOf(Nat)
  <2> TAKE x \in S
  <2>1. Below(x) \in SUBSET Nat
    OBVIOUS
  <2>2. \A n \in Below(x) : n <= x
    OBVIOUS
  <2>3. IsFiniteSet(Below(x))
    BY <2>1, <2>2, FS_BoundedSetOfNaturals
  <2> QED
    BY <2>1, <2>3 DEF FiniteSubsetsOf
<1>2. T \subseteq FiniteSubsetsOf(Nat) /\ T # {}
  BY <1>1 DEF T
<1>3. PICK B \in T : \A C \in T : ~(<<C, B>> \in StrictSubsetOrdering(Nat))
  <2> QED
    BY <1>2, FS_StrictSubsetOrderingWellFounded, WFMin
<1>4. PICK m \in S : B = Below(m)
  BY DEF T
<1>5. \A n \in S : m <= n
  <2> SUFFICES ASSUME NEW n \in S, n < m
               PROVE  FALSE
    OBVIOUS
  <2>1. ASSUME NEW b \in Below(n)
        PROVE  b \in Below(m)
    <3>1. b \in Nat /\ n \in Nat /\ m \in Nat /\ b < n
      OBVIOUS
    <3> QED
      BY <3>1
  <2>2. n \in Below(m) /\ n \notin Below(n)
    OBVIOUS
  <2>3. <<Below(n), Below(m)>> \in StrictSubsetOrdering(Nat)
    BY <2>1, <2>2, <1>1 DEF FiniteSubsetsOf, StrictSubsetOrdering
  <2> QED
    BY <1>3, <1>4, <2>3 DEF T
<1> QED
  BY <1>5

-----------------------------------------------------------------------------
(* Bytes is a sum: it does not depend on the order in which the fold that  *)
(* defines it takes the entries.                                           *)

Picked(S) == CHOOSE x \in S : TRUE

Sums(g, S) ==
    g = [s \in SUBSET S |-> IF s = {} THEN 0 ELSE Picked(s).size + g[s \ {Picked(s)}]]

\* The fold behind Bytes, with the recursive function under a name.
LEMMA BytesUnfolded ==
    ASSUME NEW S
    PROVE  Bytes(S) = (CHOOSE g : Sums(g, S))[S]
BY DEF Bytes, MapThenSumSet, MapThenFoldSet, Sums, Picked

\* A set that is not empty has an element to pick.
LEMMA PickedIn ==
    ASSUME NEW S, S # {}
    PROVE  Picked(S) \in S
BY DEF Picked

\* The recursion has one solution only, whatever set it is solved for.
LEMMA SumsAgree ==
    ASSUME NEW S, IsFiniteSet(S), NEW T \in SUBSET S, NEW g, NEW h, Sums(g, S), Sums(h, T)
    PROVE  \A s \in SUBSET T : g[s] = h[s]
<1> DEFINE Wrong == {s \in SUBSET T : g[s] # h[s]}
<1> SUFFICES ASSUME Wrong # {}
             PROVE  FALSE
  OBVIOUS
<1>1. Wrong \in SUBSET (SUBSET S)
  OBVIOUS
<1> HIDE DEF Wrong
<1>2. PICK m \in Wrong : \A n \in Wrong : n \subseteq m => n = m
  BY <1>1, MinimalSubset
<1>3. m \in SUBSET T /\ g[m] # h[m]
  BY DEF Wrong
<1>4. CASE m = {}
  BY <1>3, <1>4 DEF Sums
<1>5. CASE m # {}
  <2> DEFINE rest == m \ {Picked(m)}
  <2>1. rest \in SUBSET T /\ rest # m /\ rest \subseteq m
    BY <1>3, <1>5, PickedIn
  <2>2. g[rest] = h[rest]
    BY <2>1, <1>2 DEF Wrong
  <2>3. g[m] = Picked(m).size + g[rest]
    BY <1>3, <1>5 DEF Sums
  <2>4. h[m] = Picked(m).size + h[rest]
    BY <1>3, <1>5 DEF Sums
  <2> QED
    BY <1>3, <2>2, <2>3, <2>4
<1> QED
  BY <1>4, <1>5

\* And it has a solution for every finite set.
LEMMA SumsExist ==
    ASSUME NEW S, IsFiniteSet(S)
    PROVE  \E g : Sums(g, S)
<1> DEFINE Wrong == {s \in SUBSET S : ~\E g : Sums(g, s)}
<1> SUFFICES ASSUME S \in Wrong
             PROVE  FALSE
  OBVIOUS
<1>1. Wrong \in SUBSET (SUBSET S)
  OBVIOUS
<1>2. PICK m \in Wrong : \A n \in Wrong : n \subseteq m => n = m
  <2> HIDE DEF Wrong
  <2> QED
    BY <1>1, MinimalSubset
<1>3. m \in SUBSET S /\ ~\E g : Sums(g, m)
  OBVIOUS
<1> DEFINE G == [s \in SUBSET m |->
                   IF s = {} THEN 0 ELSE Picked(s).size + Bytes(s \ {Picked(s)})]
<1>4. ASSUME NEW n \in SUBSET m, n # m
      PROVE  Bytes(n) = G[n]
  <2>1. \E g : Sums(g, n)
    BY <1>2, <1>4
  <2> DEFINE g == CHOOSE h : Sums(h, n)
  <2>2. Sums(g, n) /\ Bytes(n) = g[n]
    BY <2>1, BytesUnfolded
  <2> HIDE DEF g
  <2>3. CASE n = {}
    BY <2>2, <2>3 DEF Sums
  <2>4. CASE n # {}
    <3> DEFINE rest == n \ {Picked(n)}
    <3>1. rest \in SUBSET n /\ rest \in SUBSET m /\ rest # m
      BY <2>4, PickedIn
    <3>2. \E h : Sums(h, rest)
      BY <1>2, <3>1
    <3> DEFINE h == CHOOSE k : Sums(k, rest)
    <3>3. Sums(h, rest) /\ Bytes(rest) = h[rest]
      BY <3>2, BytesUnfolded
    <3> HIDE DEF h
    <3>4. IsFiniteSet(n)
      BY <1>3, FS_Subset
    <3>5. g[rest] = h[rest]
      BY <2>2, <3>1, <3>3, <3>4, SumsAgree
    <3>6. g[n] = Picked(n).size + g[rest]
      BY <2>2, <2>4 DEF Sums
    <3> QED
      BY <2>2, <2>4, <3>3, <3>5, <3>6
  <2> QED
    BY <2>3, <2>4
<1>5. Sums(G, m)
  <2>1. ASSUME NEW s \in SUBSET m, s # {}
        PROVE  G[s] = Picked(s).size + G[s \ {Picked(s)}]
    <3>1. s \ {Picked(s)} \in SUBSET m /\ s \ {Picked(s)} # m
      BY <2>1, PickedIn
    <3> QED
      BY <2>1, <3>1, <1>4
  <2>2. G = [s \in SUBSET m |-> IF s = {} THEN 0 ELSE Picked(s).size + G[s \ {Picked(s)}]]
    <3>1. \A s \in SUBSET m :
            G[s] = IF s = {} THEN 0 ELSE Picked(s).size + G[s \ {Picked(s)}]
      BY <2>1
    <3> QED
      BY <3>1, Zenon
  <2> HIDE DEF G
  <2> QED
    BY <2>2 DEF Sums
<1> QED
  BY <1>3, <1>5

\* The equation of the fold.
LEMMA BytesEquation ==
    ASSUME NEW S, IsFiniteSet(S)
    PROVE  Bytes(S) = IF S = {} THEN 0 ELSE Picked(S).size + Bytes(S \ {Picked(S)})
<1> DEFINE g == CHOOSE h : Sums(h, S)
<1>1. Sums(g, S) /\ Bytes(S) = g[S]
  BY SumsExist, BytesUnfolded
<1> HIDE DEF g
<1>2. CASE S = {}
  BY <1>1, <1>2 DEF Sums
<1>3. CASE S # {}
  <2> DEFINE rest == S \ {Picked(S)}
             h == CHOOSE k : Sums(k, rest)
  <2>1. rest \in SUBSET S /\ IsFiniteSet(rest)
    BY FS_RemoveElement
  <2>2. Sums(h, rest) /\ Bytes(rest) = h[rest]
    BY <2>1, SumsExist, BytesUnfolded
  <2> HIDE DEF h
  <2>3. g[rest] = h[rest]
    BY <1>1, <2>1, <2>2, SumsAgree
  <2>4. g[S] = Picked(S).size + g[rest]
    BY <1>1, <1>3 DEF Sums
  <2> QED
    BY <1>1, <1>3, <2>2, <2>3, <2>4
<1> QED
  BY <1>2, <1>3

(* Finite sets of things that have a size: what the queue holds.           *)
Sized(S) == IsFiniteSet(S) /\ \A e \in S : e.size \in Nat

LEMMA SizedSubset ==
    ASSUME NEW S, Sized(S), NEW T \in SUBSET S
    PROVE  Sized(T)
BY FS_Subset DEF Sized

LEMMA BytesType ==
    ASSUME NEW S, Sized(S)
    PROVE  Bytes(S) \in Nat
<1> DEFINE Wrong == {s \in SUBSET S : Bytes(s) \notin Nat}
<1> SUFFICES ASSUME S \in Wrong
             PROVE  FALSE
  OBVIOUS
<1>1. PICK m \in Wrong : \A n \in Wrong : n \subseteq m => n = m
  <2>1. Wrong \in SUBSET (SUBSET S) /\ Wrong # {} /\ IsFiniteSet(S)
    BY DEF Sized
  <2> HIDE DEF Wrong
  <2> QED
    BY <2>1, MinimalSubset
<1>2. m \in SUBSET S /\ Bytes(m) \notin Nat /\ Sized(m) /\ IsFiniteSet(m)
  BY SizedSubset DEF Sized
<1>3. m # {}
  BY <1>2, BytesEquation
<1>4. Picked(m) \in m /\ Picked(m).size \in Nat
  BY <1>2, <1>3, PickedIn DEF Sized
<1>5. Bytes(m \ {Picked(m)}) \in Nat
  BY <1>1, <1>2, <1>4
<1> QED
  BY <1>2, <1>3, <1>4, <1>5, BytesEquation

\* Any entry may be taken out first.
LEMMA BytesRemove ==
    ASSUME NEW S, Sized(S), NEW x \in S
    PROVE  Bytes(S) = x.size + Bytes(S \ {x})
<1> DEFINE Wrong == {s \in SUBSET S : \E e \in s : Bytes(s) # e.size + Bytes(s \ {e})}
<1> SUFFICES ASSUME S \in Wrong
             PROVE  FALSE
  OBVIOUS
<1>1. PICK m \in Wrong : \A n \in Wrong : n \subseteq m => n = m
  <2>1. Wrong \in SUBSET (SUBSET S) /\ Wrong # {} /\ IsFiniteSet(S)
    BY DEF Sized
  <2> HIDE DEF Wrong
  <2> QED
    BY <2>1, MinimalSubset
<1>2. PICK e \in m : Bytes(m) # e.size + Bytes(m \ {e})
  OBVIOUS
<1> DEFINE p == Picked(m)
           restE == m \ {e}
           restP == m \ {p}
           both == (m \ {p}) \ {e}
<1>3. m \in SUBSET S /\ Sized(m) /\ IsFiniteSet(m) /\ p \in m
  BY <1>2, SizedSubset, PickedIn DEF Sized
<1>4. /\ restE \in SUBSET S /\ restP \in SUBSET S
      /\ Bytes(restE) \in Nat /\ Bytes(restP) \in Nat /\ Bytes(both) \in Nat
      /\ e.size \in Nat /\ p.size \in Nat
  BY <1>3, SizedSubset, BytesType DEF Sized
<1>5. Bytes(m) = p.size + Bytes(restP)
  BY <1>2, <1>3, BytesEquation
<1>6. e # p
  BY <1>2, <1>5
<1>7. Bytes(restP) = e.size + Bytes(restP \ {e})
  BY <1>1, <1>3, <1>4, <1>6
<1>8. Bytes(restE) = p.size + Bytes(restE \ {p})
  BY <1>1, <1>2, <1>3, <1>4, <1>6
<1>9. restE \ {p} = both /\ restP \ {e} = both
  OBVIOUS
<1> HIDE DEF p, restE, restP, both
<1>10. Bytes(m) = e.size + Bytes(restE)
  BY <1>4, <1>5, <1>7, <1>8, <1>9
<1> QED
  BY <1>2, <1>10 DEF restE

\* Fewer entries are no larger.
LEMMA BytesMonotone ==
    ASSUME NEW S, Sized(S), NEW T \in SUBSET S
    PROVE  Bytes(T) <= Bytes(S)
<1> DEFINE Wrong == {s \in SUBSET S : T \subseteq s /\ ~(Bytes(T) <= Bytes(s))}
<1> SUFFICES ASSUME S \in Wrong
             PROVE  FALSE
  OBVIOUS
<1>1. PICK m \in Wrong : \A n \in Wrong : n \subseteq m => n = m
  <2>1. Wrong \in SUBSET (SUBSET S) /\ Wrong # {} /\ IsFiniteSet(S)
    BY DEF Sized
  <2> HIDE DEF Wrong
  <2> QED
    BY <2>1, MinimalSubset
<1>2. Sized(m) /\ Sized(T) /\ Bytes(T) \in Nat /\ Bytes(m) \in Nat
  BY SizedSubset, BytesType
<1>3. PICK e \in m : e \notin T
  BY <1>2
<1>4. Sized(m \ {e}) /\ Bytes(m \ {e}) \in Nat /\ e.size \in Nat
  BY <1>2, SizedSubset, BytesType DEF Sized
<1>5. Bytes(T) <= Bytes(m \ {e})
  BY <1>1, <1>3
<1>6. Bytes(m) = e.size + Bytes(m \ {e})
  BY <1>2, BytesRemove
<1> QED
  BY <1>2, <1>4, <1>5, <1>6

\* An entry alone has its own size.
LEMMA BytesSingle ==
    ASSUME NEW e, e.size \in Nat
    PROVE  Bytes({e}) = e.size
<1>1. Sized({e}) /\ {e} \ {e} = {}
  BY FS_Singleton DEF Sized
<1>2. Bytes({}) = 0
  BY FS_EmptySet, BytesEquation
<1> QED
  BY <1>1, <1>2, BytesRemove

-----------------------------------------------------------------------------
(* The order of eviction, on what a queue can hold: finitely many captures *)
(* that are told apart by their ids.                                       *)

IsQueue(S) ==
    /\ IsFiniteSet(S)
    /\ S \subseteq Entries(Nat, Nat)
    /\ \A a, b \in S : a.id = b.id => a = b

LEMMA QueueSubset ==
    ASSUME NEW S, IsQueue(S), NEW T \in SUBSET S
    PROVE  IsQueue(T)
BY FS_Subset DEF IsQueue

LEMMA QueueSized ==
    ASSUME NEW S, IsQueue(S)
    PROVE  Sized(S)
BY DEF IsQueue, Sized, Entries

\* The order is strict and total on a queue.
LEMMA EvictionOrder ==
    ASSUME NEW S, IsQueue(S)
    PROVE  /\ \A a \in S : ~EvictedBefore(a, a)
           /\ \A a, b, c \in S : EvictedBefore(a, b) /\ EvictedBefore(b, c) => EvictedBefore(a, c)
           /\ \A a, b \in S : a # b => EvictedBefore(a, b) \/ EvictedBefore(b, a)
<1>1. \A a \in S : a.id \in Nat
  BY DEF IsQueue, Entries
<1>2. \A a, b \in S : a # b => a.id # b.id
  BY DEF IsQueue
<1> QED
  BY <1>1, <1>2 DEF EvictedBefore, IsIdea

\* Whoever is evicted later is outlasted by fewer.
LEMMA OutlastingShrinks ==
    ASSUME NEW S, IsQueue(S), NEW a \in S, NEW b \in S, EvictedBefore(a, b)
    PROVE  /\ Outlasting(S, b) \cup {b} \subseteq Outlasting(S, a)
           /\ b \notin Outlasting(S, b)
BY EvictionOrder DEF Outlasting

\* Of any part of a queue one entry is the first to be evicted.
LEMMA FirstEvicted ==
    ASSUME NEW S, IsQueue(S), NEW K \in SUBSET S, K # {}
    PROVE  \E first \in K : K \ {first} \subseteq Outlasting(S, first)
<1> DEFINE Rest(e) == S \ Outlasting(S, e)
           T == {Rest(e) : e \in K}
<1>1. T \in SUBSET (SUBSET S) /\ T # {} /\ IsFiniteSet(S)
  <2>1. \A e \in K : Rest(e) \in SUBSET S
    OBVIOUS
  <2>2. IsFiniteSet(S)
    BY DEF IsQueue
  <2> HIDE DEF Rest
  <2> QED
    BY <2>1, <2>2
<1> HIDE DEF T
<1>2. PICK m \in T : \A n \in T : n \subseteq m => n = m
  BY <1>1, MinimalSubset
<1>3. PICK first \in K : m = Rest(first)
  BY DEF T
<1>4. ASSUME NEW e \in K, e # first
      PROVE  e \in Outlasting(S, first)
  <2>1. e \in S /\ first \in S
    OBVIOUS
  <2>2. CASE EvictedBefore(first, e)
    BY <2>1, <2>2 DEF Outlasting
  <2>3. CASE EvictedBefore(e, first)
    <3>1. Outlasting(S, first) \cup {first} \subseteq Outlasting(S, e) /\ first \notin Outlasting(S, first)
      BY <2>1, <2>3, OutlastingShrinks
    <3>2. Rest(e) \subseteq Rest(first) /\ Rest(e) # Rest(first)
      BY <2>1, <3>1
    <3> QED
      BY <1>2, <1>3, <3>2 DEF T
  <2> QED
    BY <1>4, <2>1, <2>2, <2>3, EvictionOrder
<1> QED
  BY <1>4

-----------------------------------------------------------------------------
(* What trimming keeps. *)

\* Trimming only takes away.
LEMMA TrimmedSubset ==
    ASSUME NEW S
    PROVE  Trimmed(S) \subseteq WithinCount(S) /\ WithinCount(S) \subseteq S
BY DEF Trimmed, WithinBytes, WithinCount

\* The first loop leaves a queue within the item limit: the first entry it
\* kept is outlasted by all the others it kept.
LEMMA WithinCountBounded ==
    ASSUME NEW S, IsQueue(S)
    PROVE  IsQueue(WithinCount(S)) /\ Cardinality(WithinCount(S)) <= MaxItems
<1> DEFINE K == WithinCount(S)
<1>1. K \in SUBSET S /\ IsQueue(K) /\ IsFiniteSet(K)
  BY QueueSubset DEF WithinCount, IsQueue
<1>2. CASE K = {}
  BY <1>1, <1>2, FS_EmptySet, LimitsAssumption
<1>3. CASE K # {}
  <2>1. PICK first \in K : K \ {first} \subseteq Outlasting(S, first)
    BY <1>1, <1>3, FirstEvicted
  <2>2. IsFiniteSet(Outlasting(S, first))
    BY FS_Subset DEF Outlasting, IsQueue
  <2>3. Cardinality(K \ {first}) <= Cardinality(Outlasting(S, first))
    BY <2>1, <2>2, FS_Subset
  <2>4. Cardinality(Outlasting(S, first)) < MaxItems
    BY <2>1 DEF WithinCount
  <2>5. Cardinality(K \ {first}) = Cardinality(K) - 1
    BY <1>1, FS_RemoveElement
  <2>6. Cardinality(K) \in Nat /\ Cardinality(Outlasting(S, first)) \in Nat
    BY <1>1, <2>2, FS_CardinalityType
  <2> HIDE DEF K
  <2> QED
    BY <1>1, <2>3, <2>4, <2>5, <2>6, LimitsAssumption DEF K
<1> QED
  BY <1>2, <1>3

\* The second leaves one within the byte limit, or a single entry.
LEMMA WithinBytesBounded ==
    ASSUME NEW S, IsQueue(S)
    PROVE  Bytes(WithinBytes(S)) <= MaxBytes \/ Cardinality(WithinBytes(S)) <= 1
<1> DEFINE K == WithinBytes(S)
<1>1. K \in SUBSET S
  BY DEF WithinBytes
<1>2. CASE K = {}
  BY <1>2, FS_EmptySet
<1>3. CASE K # {}
  <2>1. PICK first \in K : K \ {first} \subseteq Outlasting(S, first)
    BY <1>1, <1>3, FirstEvicted
  <2> DEFINE All == Outlasting(S, first) \cup {first}
  <2>2. All \in SUBSET S /\ K \in SUBSET All
    BY <1>1, <2>1 DEF Outlasting
  <2>3. CASE Outlasting(S, first) = {}
    <3>1. K = {first}
      BY <2>1, <2>3
    <3> QED
      BY <3>1, FS_Singleton
  <2>4. CASE Bytes(All) <= MaxBytes
    <3>1. Sized(All) /\ Sized(K)
      BY <1>1, <2>2, QueueSized, SizedSubset
    <3>2. Bytes(K) <= Bytes(All) /\ Bytes(K) \in Nat /\ Bytes(All) \in Nat
      BY <2>2, <3>1, BytesMonotone, BytesType
    <3> QED
      BY <2>4, <3>2, LimitsAssumption
  <2> QED
    BY <2>1, <2>3, <2>4 DEF WithinBytes
<1> QED
  BY <1>2, <1>3

\* Whatever outlasts an entry that is kept is kept.
LEMMA TrimmedIsUpwardClosed ==
    ASSUME NEW S, IsQueue(S), NEW a \in Trimmed(S), NEW b \in S, EvictedBefore(a, b)
    PROVE  b \in Trimmed(S)
<1> DEFINE W == WithinCount(S)
<1>1. a \in W /\ a \in S /\ W \in SUBSET S /\ IsQueue(W) /\ a \in WithinBytes(W)
  BY TrimmedSubset, QueueSubset DEF Trimmed
<1>2. b \in W
  <2>1. Outlasting(S, b) \in SUBSET Outlasting(S, a)
    BY <1>1, OutlastingShrinks
  <2>2. IsFiniteSet(Outlasting(S, a))
    BY FS_Subset DEF Outlasting, IsQueue
  <2>3. /\ Cardinality(Outlasting(S, b)) <= Cardinality(Outlasting(S, a))
        /\ IsFiniteSet(Outlasting(S, b))
    BY <2>1, <2>2, FS_Subset
  <2>4. Cardinality(Outlasting(S, b)) \in Nat /\ Cardinality(Outlasting(S, a)) \in Nat
    BY <2>2, <2>3, FS_CardinalityType
  <2>5. Cardinality(Outlasting(S, a)) < MaxItems
    BY <1>1 DEF WithinCount
  <2> QED
    BY <2>3, <2>4, <2>5, LimitsAssumption DEF WithinCount
<1> HIDE DEF W
<1>3. /\ Outlasting(W, b) \cup {b} \in SUBSET (Outlasting(W, a) \cup {a})
      /\ Outlasting(W, a) # {}
  BY <1>1, <1>2, OutlastingShrinks
<1>4. Bytes(Outlasting(W, a) \cup {a}) <= MaxBytes
  BY <1>1, <1>3 DEF WithinBytes
<1>5. Sized(Outlasting(W, a) \cup {a})
  <2>1. Outlasting(W, a) \cup {a} \in SUBSET W
    BY <1>1 DEF Outlasting
  <2> QED
    BY <1>1, <2>1, QueueSized, SizedSubset
<1>6. Sized(Outlasting(W, b) \cup {b})
  BY <1>3, <1>5, SizedSubset
<1>7. /\ Bytes(Outlasting(W, b) \cup {b}) \in Nat /\ Bytes(Outlasting(W, a) \cup {a}) \in Nat
      /\ Bytes(Outlasting(W, b) \cup {b}) <= Bytes(Outlasting(W, a) \cup {a})
  BY <1>3, <1>5, <1>6, BytesType, BytesMonotone
<1>8. Bytes(Outlasting(W, b) \cup {b}) <= MaxBytes
  BY <1>4, <1>7, LimitsAssumption
<1> QED
  BY <1>2, <1>8 DEF Trimmed, WithinBytes, W

\* An idea makes room only for ideas: if one is evicted, all that is kept is.
THEOREM IdeasAreEvictedLast ==
    ASSUME NEW S, IsQueue(S), NEW e \in S, e \notin Trimmed(S), IsIdea(e), NEW o \in Trimmed(S)
    PROVE  IsIdea(o)
BY TrimmedIsUpwardClosed DEF EvictedBefore

\* A queue that may hold anything keeps something.
LEMMA TrimmedKeepsOne ==
    ASSUME NEW S, IsQueue(S), S # {}, MaxItems > 0
    PROVE  Trimmed(S) # {}
<1> DEFINE T == {Outlasting(S, e) : e \in S}
<1>1. T \in SUBSET (SUBSET S) /\ T # {} /\ IsFiniteSet(S)
  <2>1. \A e \in S : Outlasting(S, e) \in SUBSET S
    BY DEF Outlasting
  <2> QED
    BY <2>1 DEF IsQueue
<1>2. PICK m \in T : \A n \in T : n \subseteq m => n = m
  <2> HIDE DEF T
  <2> QED
    BY <1>1, MinimalSubset
<1>3. PICK last \in S : m = Outlasting(S, last)
  OBVIOUS
<1>4. Outlasting(S, last) = {}
  <2> SUFFICES ASSUME NEW o \in S, EvictedBefore(last, o)
               PROVE  FALSE
    BY DEF Outlasting
  <2>1. Outlasting(S, o) \cup {o} \subseteq Outlasting(S, last) /\ o \notin Outlasting(S, o)
    BY OutlastingShrinks
  <2> QED
    BY <1>2, <1>3, <2>1
<1>5. last \in WithinCount(S)
  BY <1>4, FS_EmptySet DEF WithinCount
<1>6. Outlasting(WithinCount(S), last) = {}
  BY <1>4 DEF Outlasting, WithinCount
<1> QED
  BY <1>5, <1>6 DEF Trimmed, WithinBytes

-----------------------------------------------------------------------------
(* The two loops, step by step. *)

\* A queue within a limit stays as it is.
LEMMA NothingToDrop ==
    ASSUME NEW S, IsQueue(S)
    PROVE  /\ Cardinality(S) <= MaxItems => WithinCount(S) = S
           /\ Bytes(S) <= MaxBytes \/ Cardinality(S) <= 1 => WithinBytes(S) = S
<1>0. IsFiniteSet(S) /\ Cardinality(S) \in Nat /\ Sized(S) /\ Bytes(S) \in Nat
  BY FS_CardinalityType, QueueSized, BytesType DEF IsQueue
<1>1. ASSUME NEW e \in S
      PROVE  /\ Outlasting(S, e) \in SUBSET (S \ {e})
             /\ Outlasting(S, e) \cup {e} \in SUBSET S
  BY EvictionOrder DEF Outlasting
<1>2. ASSUME NEW e \in S, Cardinality(S) <= MaxItems
      PROVE  e \in WithinCount(S)
  <2>1. IsFiniteSet(S \ {e}) /\ Cardinality(S \ {e}) = Cardinality(S) - 1
    BY <1>0, FS_RemoveElement
  <2>2. /\ Cardinality(Outlasting(S, e)) <= Cardinality(S \ {e})
        /\ IsFiniteSet(Outlasting(S, e))
    BY <1>1, <2>1, FS_Subset
  <2>3. Cardinality(Outlasting(S, e)) \in Nat
    BY <2>2, FS_CardinalityType
  <2> QED
    BY <1>0, <1>2, <2>1, <2>2, <2>3, LimitsAssumption DEF WithinCount
<1>3. ASSUME NEW e \in S, Bytes(S) <= MaxBytes
      PROVE  e \in WithinBytes(S)
  <2>1. Sized(Outlasting(S, e) \cup {e})
    BY <1>0, <1>1, SizedSubset
  <2>2. /\ Bytes(Outlasting(S, e) \cup {e}) \in Nat
        /\ Bytes(Outlasting(S, e) \cup {e}) <= Bytes(S)
    BY <1>0, <1>1, <2>1, BytesType, BytesMonotone
  <2> QED
    BY <1>0, <1>3, <2>2, LimitsAssumption DEF WithinBytes
<1>4. ASSUME NEW e \in S, Cardinality(S) <= 1
      PROVE  e \in WithinBytes(S)
  <2>1. Cardinality(S) = 1
    BY <1>0, <1>4, FS_EmptySet
  <2>2. S = {e}
    BY <1>0, <2>1, FS_Singleton
  <2>3. Outlasting(S, e) = {}
    BY <1>1, <2>2
  <2> QED
    BY <2>3 DEF WithinBytes
<1> QED
  BY <1>2, <1>3, <1>4 DEF WithinCount, WithinBytes

\* Beyond a limit, the first entry to be evicted makes no difference to what
\* will be kept.
LEMMA DropFirst ==
    ASSUME NEW S, IsQueue(S), NEW first \in S, S \ {first} \subseteq Outlasting(S, first)
    PROVE  /\ Cardinality(S) > MaxItems => WithinCount(S \ {first}) = WithinCount(S)
           /\ Bytes(S) > MaxBytes /\ Cardinality(S) > 1 =>
                WithinBytes(S \ {first}) = WithinBytes(S)
<1> DEFINE R == S \ {first}
<1>0. IsFiniteSet(S) /\ Cardinality(S) \in Nat /\ Bytes(S) \in Nat
  BY FS_CardinalityType, QueueSized, BytesType DEF IsQueue
<1>1. Outlasting(S, first) = R
  BY EvictionOrder DEF Outlasting
<1>2. ASSUME NEW e \in R
      PROVE  Outlasting(R, e) = Outlasting(S, e)
  <2>1. EvictedBefore(first, e)
    BY <1>1 DEF Outlasting
  <2>2. ~EvictedBefore(e, first)
    BY <2>1, EvictionOrder
  <2> QED
    BY <2>2 DEF Outlasting
<1>3. Cardinality(R) = Cardinality(S) - 1
  BY <1>0, FS_RemoveElement
<1>4. ASSUME Cardinality(S) > MaxItems
      PROVE  WithinCount(R) = WithinCount(S)
  <2>1. first \notin WithinCount(S)
    <3>1. ~(Cardinality(R) < MaxItems)
      BY <1>0, <1>3, <1>4, LimitsAssumption
    <3> QED
      BY <1>1, <3>1 DEF WithinCount
  <2> QED
    BY <1>2, <2>1 DEF WithinCount
<1>5. ASSUME Bytes(S) > MaxBytes, Cardinality(S) > 1
      PROVE  WithinBytes(R) = WithinBytes(S)
  <2>1. first \notin WithinBytes(S)
    <3>1. R # {}
      BY <1>0, <1>3, <1>5, FS_EmptySet
    <3>2. R \cup {first} = S
      OBVIOUS
    <3>3. ~(Bytes(S) <= MaxBytes)
      BY <1>0, <1>5, LimitsAssumption
    <3> QED
      BY <1>1, <3>1, <3>2, <3>3 DEF WithinBytes
  <2> QED
    BY <1>2, <2>1 DEF WithinBytes
<1> QED
  BY <1>4, <1>5

-----------------------------------------------------------------------------
(* The queue as an array: of each set of captures there is one, in the     *)
(* order of their ids.                                                     *)

\* An array is a function on its positions.
LEMMA ArrayType ==
    ASSUME NEW q \in Arrays
    PROVE  /\ q \in Seq(Entries(Nat, Nat))
           /\ Len(q) \in Nat /\ DOMAIN q = 1 .. Len(q)
           /\ \A i \in 1 .. Len(q) : q[i] \in Entries(Nat, Nat) /\ q[i].id \in Nat
           /\ \A i, j \in 1 .. Len(q) : q[i].id < q[j].id <=> i < j
           /\ \A i, j \in 1 .. Len(q) : q[i].id = q[j].id => i = j
           /\ ToSet(q) = {q[i] : i \in 1 .. Len(q)}
<1>1. /\ q \in Seq(Entries(Nat, Nat)) /\ Len(q) \in Nat /\ DOMAIN q = 1 .. Len(q)
      /\ \A i \in 1 .. Len(q) : q[i] \in Entries(Nat, Nat)
      /\ \A i, j \in 1 .. Len(q) : i < j => q[i].id < q[j].id
  BY LenProperties, ElementOfSeq DEF Arrays
<1>2. \A i \in 1 .. Len(q) : q[i].id \in Nat
  BY <1>1 DEF Entries
<1>3. \A i, j \in 1 .. Len(q) : (q[i].id < q[j].id <=> i < j) /\ (q[i].id = q[j].id => i = j)
  <2> TAKE i, j \in 1 .. Len(q)
  <2>1. i < j \/ j < i \/ i = j
    BY <1>1
  <2> QED
    BY <1>1, <1>2, <2>1
<1> QED
  BY <1>1, <1>2, <1>3 DEF ToSet

\* As many entries as positions, also of its beginnings.
LEMMA PrefixCount ==
    ASSUME NEW q \in Arrays, NEW n \in 0 .. Len(q)
    PROVE  /\ IsFiniteSet({q[i] : i \in 1 .. n})
           /\ Cardinality({q[i] : i \in 1 .. n}) = n
<1> DEFINE T == {q[i] : i \in 1 .. n}
           b == [i \in 1 .. n |-> q[i]]
<1>1. \A i, j \in 1 .. n : q[i] = q[j] => i = j
  BY ArrayType
<1>2. b \in Bijection(1 .. n, T)
  BY <1>1 DEF Bijection, Injection, Surjection, IsInjective
<1>3. ExistsBijection(1 .. n, T)
  BY <1>2 DEF ExistsBijection
<1>4. n \in Nat /\ IsFiniteSet(1 .. n)
  BY ArrayType, FS_Interval
<1> QED
  BY <1>3, <1>4, FS_Bijection, FS_CountingElements

\* Its entries form a queue.
LEMMA ArrayIsQueue ==
    ASSUME NEW q \in Arrays
    PROVE  IsQueue(ToSet(q)) /\ Cardinality(ToSet(q)) = Len(q)
<1>1. IsFiniteSet(ToSet(q)) /\ Cardinality(ToSet(q)) = Len(q)
  <2>1. Len(q) \in 0 .. Len(q) /\ ToSet(q) = {q[i] : i \in 1 .. Len(q)}
    BY ArrayType
  <2> QED
    BY <2>1, PrefixCount
<1> QED
  BY <1>1, ArrayType DEF IsQueue

\* An array is the only one of its entries.
LEMMA ArrayOfSet ==
    ASSUME NEW q \in Arrays
    PROVE  AsArray(ToSet(q)) = q
<1> DEFINE S == ToSet(q)
           n == Len(q)
           Before(e) == {o \in S : o.id < e.id}
<1>0. /\ n \in Nat /\ S = {q[i] : i \in 1 .. n} /\ Cardinality(S) = n
      /\ \A i, j \in 1 .. n : q[i].id < q[j].id <=> i < j
      /\ q = [i \in 1 .. n |-> q[i]]
  BY ArrayType, ArrayIsQueue
<1> HIDE DEF S, n
<1>1. ASSUME NEW i \in 1 .. n
      PROVE  Cardinality(Before(q[i])) = i - 1
  <2>1. i - 1 \in 0 .. n /\ 1 .. i - 1 \subseteq 1 .. n /\ \A j \in 1 .. n : j < i <=> j \in 1 .. i - 1
    <3>1. n \in Nat /\ i \in 1 .. n
      BY <1>0
    <3> QED
      BY <3>1
  <2>2. Cardinality({q[j] : j \in 1 .. i - 1}) = i - 1
    BY <2>1, PrefixCount DEF n
  <2>3. Before(q[i]) = {q[j] : j \in 1 .. i - 1}
    BY <1>0, <2>1
  <2> QED
    BY <2>2, <2>3
<1>2. ASSUME NEW i \in 1 .. n
      PROVE  (CHOOSE e \in S : Cardinality(Before(e)) = i - 1) = q[i]
  <2>1. q[i] \in S /\ Cardinality(Before(q[i])) = i - 1
    BY <1>0, <1>1
  <2>2. ASSUME NEW e \in S, Cardinality(Before(e)) = i - 1
        PROVE  e = q[i]
    <3>1. PICK j \in 1 .. n : e = q[j]
      BY <1>0
    <3>2. j - 1 = i - 1
      BY <1>1, <2>2, <3>1
    <3> QED
      BY <1>0, <3>1, <3>2
  <2> HIDE DEF Before
  <2> QED
    BY <2>1, <2>2
<1> QED
  BY <1>0, <1>2 DEF AsArray, S

\* Taking one position out of an array leaves an array.
LEMMA RemoveAtArray ==
    ASSUME NEW q \in Arrays, NEW k \in 1 .. Len(q)
    PROVE  /\ RemoveAt(q, k) \in Arrays
           /\ Len(RemoveAt(q, k)) = Len(q) - 1
           /\ ToSet(RemoveAt(q, k)) = ToSet(q) \ {q[k]}
<1> DEFINE E == Entries(Nat, Nat)
           n == Len(q)
           head == SubSeq(q, 1, k - 1)
           tail == SubSeq(q, k + 1, n)
           r == RemoveAt(q, k)
           At(i) == IF i < k THEN i ELSE i + 1
<1>0. n \in Nat /\ k \in 1 .. n
  BY ArrayType
<1>1. head \in Seq(E) /\ Len(head) = k - 1 /\ \A i \in 1 .. k - 1 : head[i] = q[i]
  <2>1. \A i \in 1 .. k - 1 : q[i] \in E
    BY <1>0, ArrayType
  <2> HIDE DEF E
  <2>2. /\ head \in Seq(E) /\ Len(head) = IF 1 <= k - 1 THEN k - 1 - 1 + 1 ELSE 0
        /\ \A i \in 1 .. k - 1 - 1 + 1 : head[i] = q[1 + i - 1]
    BY <1>0, <2>1, SubSeqProperties
  <2> HIDE DEF head
  <2> QED
    BY <1>0, <2>2
<1>2. tail \in Seq(E) /\ Len(tail) = n - k /\ \A i \in 1 .. n - k : tail[i] = q[k + i]
  <2>1. \A i \in k + 1 .. n : q[i] \in E
    BY <1>0, ArrayType
  <2> HIDE DEF E
  <2>2. /\ tail \in Seq(E) /\ Len(tail) = IF k + 1 <= n THEN n - (k + 1) + 1 ELSE 0
        /\ \A i \in 1 .. n - (k + 1) + 1 : tail[i] = q[k + 1 + i - 1]
    BY <1>0, <2>1, SubSeqProperties
  <2> HIDE DEF tail, n
  <2>3. Len(tail) = n - k
    BY <1>0, <2>2
  <2>4. ASSUME NEW i \in 1 .. n - k
        PROVE  tail[i] = q[k + i]
    <3>1. i \in 1 .. n - (k + 1) + 1 /\ k + 1 + i - 1 = k + i
      BY <1>0
    <3> QED
      BY <2>2, <3>1
  <2> QED
    BY <2>2, <2>3, <2>4
<1>3. r = head \o tail
  BY DEF RemoveAt
<1> HIDE DEF head, tail, r, E
<1>4. r \in Seq(E) /\ Len(r) = n - 1
  BY <1>0, <1>1, <1>2, <1>3, ConcatProperties
<1>5. ASSUME NEW i \in 1 .. n - 1
      PROVE  r[i] = q[At(i)] /\ At(i) \in 1 .. n /\ At(i) # k
  <2>1. r[i] = IF i <= k - 1 THEN head[i] ELSE tail[i - (k - 1)]
    <3>1. \A x \in 1 .. (k - 1) + (n - k) :
             r[x] = IF x <= k - 1 THEN head[x] ELSE tail[x - (k - 1)]
      BY <1>1, <1>2, <1>3, ConcatProperties
    <3>2. i \in 1 .. (k - 1) + (n - k)
      BY <1>0
    <3> QED
      BY <3>1, <3>2
  <2>2. CASE i < k
    BY <1>0, <1>1, <2>1, <2>2
  <2>3. CASE ~(i < k)
    <3>1. i - (k - 1) \in 1 .. n - k /\ k + (i - (k - 1)) = i + 1 /\ ~(i <= k - 1)
      BY <1>0, <2>3
    <3> QED
      BY <1>0, <1>2, <2>1, <2>3, <3>1
  <2> QED
    BY <2>2, <2>3
<1>6. DOMAIN r = 1 .. n - 1
  BY <1>4, LenProperties
<1>7. r \in Arrays
  <2>1. ASSUME NEW i \in 1 .. n - 1, NEW j \in 1 .. n - 1, i < j
        PROVE  r[i].id < r[j].id
    <3>1. At(i) < At(j)
      BY <1>0, <2>1
    <3> QED
      BY <1>5, <3>1, ArrayType
  <2> QED
    BY <1>4, <1>6, <2>1 DEF Arrays, E
<1>8. ToSet(r) = ToSet(q) \ {q[k]}
  <2>1. ASSUME NEW j \in 1 .. n, j # k
        PROVE  \E i \in 1 .. n - 1 : q[j] = r[i]
    <3>1. CASE j < k
      <4>1. j \in 1 .. n - 1 /\ At(j) = j
        BY <1>0, <3>1
      <4> QED
        BY <1>5, <4>1
    <3>2. CASE j > k
      <4>1. j - 1 \in 1 .. n - 1 /\ At(j - 1) = j
        BY <1>0, <3>2
      <4> QED
        BY <1>5, <4>1
    <3> QED
      BY <1>0, <2>1, <3>1, <3>2
  <2>2. \A j \in 1 .. n : j # k => q[j] # q[k]
    BY ArrayType
  <2>3. ToSet(q) = {q[j] : j \in 1 .. n} /\ ToSet(r) = {r[i] : i \in 1 .. n - 1}
    BY <1>6, ArrayType DEF ToSet
  <2>4. ToSet(r) \subseteq ToSet(q) \ {q[k]}
    <3> SUFFICES ASSUME NEW i \in 1 .. n - 1
                 PROVE  r[i] \in ToSet(q) /\ r[i] # q[k]
      BY <2>3
    <3> HIDE DEF n, At
    <3> QED
      BY <1>5, <2>2, <2>3
  <2>5. ToSet(q) \ {q[k]} \subseteq ToSet(r)
    <3> HIDE DEF n
    <3> QED
      BY <2>1, <2>3
  <2> QED
    BY <2>4, <2>5
<1> QED
  BY <1>4, <1>7, <1>8 DEF r

\* Appending a capture with a greater id gives an array.
LEMMA AppendArray ==
    ASSUME NEW q \in Arrays, NEW e \in Entries(Nat, Nat), \A o \in ToSet(q) : o.id < e.id
    PROVE  Append(q, e) \in Arrays /\ ToSet(Append(q, e)) = ToSet(q) \cup {e}
<1> DEFINE E == Entries(Nat, Nat)
           n == Len(q)
           r == Append(q, e)
<1>1. /\ q \in Seq(E) /\ e \in E /\ n \in Nat /\ ToSet(q) = {q[i] : i \in 1 .. n}
      /\ \A i, j \in 1 .. n : i < j => q[i].id < q[j].id
  BY ArrayType
<1>2. r \in Seq(E) /\ Len(r) = n + 1 /\ \A i \in 1 .. n + 1 : r[i] = IF i = n + 1 THEN e ELSE q[i]
  <2> HIDE DEF E
  <2>1. r \in Seq(E) /\ Len(r) = n + 1 /\ r[n + 1] = e /\ \A i \in 1 .. n : r[i] = q[i]
    BY <1>1, AppendProperties
  <2>2. \A i \in 1 .. n + 1 : i = n + 1 \/ i \in 1 .. n
    BY <1>1
  <2> QED
    BY <2>1, <2>2
<1>3. DOMAIN r = 1 .. n + 1
  BY <1>2, LenProperties
<1> HIDE DEF r, n, E
<1>4. ASSUME NEW i \in 1 .. n + 1, NEW j \in 1 .. n + 1, i < j
      PROVE  r[i].id < r[j].id
  <2>1. i \in 1 .. n /\ i # n + 1 /\ r[i] = q[i] /\ q[i] \in ToSet(q)
    BY <1>1, <1>2, <1>4
  <2>2. CASE j = n + 1
    BY <1>2, <2>1, <2>2
  <2>3. CASE j # n + 1
    <3>1. j \in 1 .. n
      BY <1>1, <2>3
    <3> QED
      BY <1>1, <1>2, <1>4, <2>1, <2>3, <3>1
  <2> QED
    BY <2>2, <2>3
<1>5. r \in Arrays
  BY <1>2, <1>3, <1>4 DEF Arrays, E
<1>6. ToSet(r) = ToSet(q) \cup {e}
  <2>1. ToSet(r) = {r[i] : i \in 1 .. n + 1}
    BY <1>3 DEF ToSet
  <2>2. \A i \in 1 .. n : r[i] = q[i] /\ i \in 1 .. n + 1
    BY <1>1, <1>2
  <2>3. n + 1 \in 1 .. n + 1 /\ r[n + 1] = e
    BY <1>1, <1>2
  <2>4. \A i \in 1 .. n + 1 : i = n + 1 \/ i \in 1 .. n
    BY <1>1
  <2> QED
    BY <1>1, <2>1, <2>2, <2>3, <2>4
<1> QED
  BY <1>5, <1>6 DEF r

\* Every queue can be put in order: the last captured goes last.
LEMMA ArrayExists ==
    ASSUME NEW S, IsQueue(S)
    PROVE  \E q \in Arrays : ToSet(q) = S
<1> DEFINE Wrong == {s \in SUBSET S : ~\E q \in Arrays : ToSet(q) = s}
<1> SUFFICES ASSUME S \in Wrong
             PROVE  FALSE
  OBVIOUS
<1>1. PICK m \in Wrong : \A n \in Wrong : n \subseteq m => n = m
  <2>1. Wrong \in SUBSET (SUBSET S) /\ Wrong # {} /\ IsFiniteSet(S)
    BY DEF IsQueue
  <2> HIDE DEF Wrong
  <2> QED
    BY <2>1, MinimalSubset
<1>2. m \in SUBSET S /\ IsQueue(m) /\ IsFiniteSet(m) /\ ~\E q \in Arrays : ToSet(q) = m
  BY QueueSubset DEF IsQueue
<1>3. CASE m = {}
  <2>1. << >> \in Seq(Entries(Nat, Nat)) /\ DOMAIN << >> = {}
    BY EmptySeq
  <2>2. << >> \in Arrays /\ ToSet(<< >>) = {}
    BY <2>1 DEF Arrays, ToSet
  <2> QED
    BY <1>2, <1>3, <2>2
<1>4. CASE m # {}
  <2> DEFINE Above(e) == {o \in m : e.id < o.id}
             T == {Above(e) : e \in m}
  <2>1. PICK a \in T : \A b \in T : b \subseteq a => b = a
    <3>1. T \in SUBSET (SUBSET m) /\ T # {}
      BY <1>4
    <3> HIDE DEF T
    <3> QED
      BY <1>2, <3>1, MinimalSubset
  <2>2. PICK top \in m : a = Above(top)
    OBVIOUS
  <2>3. \A e \in m : e.id \in Nat /\ e \in Entries(Nat, Nat)
    BY <1>2 DEF IsQueue, Entries
  <2>4. ASSUME NEW e \in m, e # top
        PROVE  e.id < top.id
    <3>1. e.id # top.id /\ e.id \in Nat /\ top.id \in Nat
      BY <1>2, <2>3, <2>4 DEF IsQueue
    <3>2. CASE top.id < e.id
      <4>1. Above(e) \subseteq Above(top) /\ e \in Above(top) /\ e \notin Above(e)
        BY <2>3, <3>1, <3>2
      <4> QED
        BY <2>1, <2>2, <4>1
    <3> QED
      BY <3>1, <3>2
  <2>5. PICK q \in Arrays : ToSet(q) = m \ {top}
    <3>1. m \ {top} \in SUBSET S /\ m \ {top} \subseteq m /\ m \ {top} # m
      BY <1>2, <2>2
    <3> QED
      BY <1>1, <3>1
  <2>6. Append(q, top) \in Arrays /\ ToSet(Append(q, top)) = m
    BY <2>2, <2>3, <2>4, <2>5, AppendArray
  <2> QED
    BY <1>2, <2>6
<1> QED
  BY <1>3, <1>4

\* AsArray is that array.
LEMMA AsArrayType ==
    ASSUME NEW S, IsQueue(S)
    PROVE  AsArray(S) \in Arrays /\ ToSet(AsArray(S)) = S
BY ArrayExists, ArrayOfSet

-----------------------------------------------------------------------------
(* What a flush takes of the array. *)

\* The first n entries of an array are one.
LEMMA PrefixArray ==
    ASSUME NEW q \in Arrays, NEW n \in 0 .. Len(q)
    PROVE  SubSeq(q, 1, n) \in Arrays /\ ToSet(SubSeq(q, 1, n)) = {q[i] : i \in 1 .. n}
<1> DEFINE r == SubSeq(q, 1, n)
<1>1. n \in Int /\ \A i \in 1 .. n : i \in 1 .. Len(q)
  BY ArrayType
<1>2. \A i \in 1 .. n : q[i] \in Entries(Nat, Nat)
  BY <1>1, ArrayType
<1>3. /\ r \in Seq(Entries(Nat, Nat)) /\ Len(r) = IF 1 <= n THEN n - 1 + 1 ELSE 0
      /\ \A i \in 1 .. n - 1 + 1 : r[i] = q[1 + i - 1]
  <2> HIDE DEF r
  <2>1. 1 \in Int
    OBVIOUS
  <2> QED
    BY <1>1, <1>2, <2>1, SubSeqProperties DEF r
<1>4. n \in Nat
  BY ArrayType
<1>5. Len(r) = n /\ DOMAIN r = 1 .. n
  BY <1>3, <1>4, LenProperties
<1>6. \A i \in 1 .. n : r[i] = q[i]
  BY <1>3, <1>4
<1>7. \A i, j \in 1 .. n : i < j => q[i].id < q[j].id
  BY <1>1, ArrayType
<1> HIDE DEF r
<1>8. r \in Arrays
  BY <1>3, <1>5, <1>6, <1>7 DEF Arrays
<1>9. ToSet(r) = {q[i] : i \in 1 .. n}
  BY <1>5, <1>6 DEF ToSet
<1> QED
  BY <1>8, <1>9 DEF r

(* items.slice(0, 100): a flush takes the beginning of the array, which is *)
(* what the closed form counts out, and in the order of the array.         *)
THEOREM SnapshotIsSlice ==
    ASSUME NEW q \in Arrays
    PROVE  LET n == IF Len(q) < BatchSize THEN Len(q) ELSE BatchSize
           IN  AsArray(Snapshot(ToSet(q))) = SubSeq(q, 1, n)
<1> DEFINE n == IF Len(q) < BatchSize THEN Len(q) ELSE BatchSize
<1>1. /\ Len(q) \in Nat /\ BatchSize \in Nat /\ n \in 0 .. Len(q)
      /\ \A i \in 1 .. Len(q) : i - 1 < BatchSize <=> i \in 1 .. n
      /\ 1 .. n \subseteq 1 .. Len(q)
  <2>1. Len(q) \in Nat /\ BatchSize \in Nat
    BY ArrayType, LimitsAssumption
  <2> QED
    BY <2>1
<1>2. ASSUME NEW i \in 1 .. Len(q)
      PROVE  Cardinality({o \in ToSet(q) : o.id < q[i].id}) = i - 1
  <2>1. i - 1 \in 0 .. Len(q) /\ \A j \in 1 .. Len(q) : j < i <=> j \in 1 .. i - 1
    BY <1>1
  <2>2. {o \in ToSet(q) : o.id < q[i].id} = {q[j] : j \in 1 .. i - 1}
    <3>1. 1 .. i - 1 \subseteq 1 .. Len(q)
      BY <1>1
    <3> QED
      BY <2>1, <3>1, ArrayType
  <2> QED
    BY <2>1, <2>2, PrefixCount
<1> HIDE DEF n
<1>3. Snapshot(ToSet(q)) = {q[i] : i \in 1 .. n}
  <2>1. ToSet(q) = {q[i] : i \in 1 .. Len(q)}
    BY ArrayType
  <2>2. \A i \in 1 .. Len(q) : q[i] \in Snapshot(ToSet(q)) <=> i \in 1 .. n
    BY <1>1, <1>2, <2>1 DEF Snapshot
  <2> QED
    BY <1>1, <2>1, <2>2 DEF Snapshot
<1>4. SubSeq(q, 1, n) \in Arrays /\ ToSet(SubSeq(q, 1, n)) = {q[i] : i \in 1 .. n}
  BY <1>1, PrefixArray
<1>5. AsArray(Snapshot(ToSet(q))) = SubSeq(q, 1, n)
  BY <1>3, <1>4, ArrayOfSet
<1> QED
  BY <1>5 DEF n

\* It takes no more than BatchSize entries of any queue.
LEMMA SnapshotBounded ==
    ASSUME NEW S, IsQueue(S)
    PROVE  IsFiniteSet(Snapshot(S)) /\ Cardinality(Snapshot(S)) <= BatchSize
<1>1. PICK q \in Arrays : ToSet(q) = S
  BY ArrayExists
<1> DEFINE n == IF Len(q) < BatchSize THEN Len(q) ELSE BatchSize
<1>2. n \in 0 .. Len(q) /\ n <= BatchSize
  <2>1. Len(q) \in Nat /\ BatchSize \in Nat
    BY ArrayType, LimitsAssumption
  <2> QED
    BY <2>1
<1>3. AsArray(Snapshot(S)) = SubSeq(q, 1, n)
  BY <1>1, SnapshotIsSlice
<1> HIDE DEF n
<1>4. IsQueue(Snapshot(S))
  BY QueueSubset DEF Snapshot
<1>5. Snapshot(S) = {q[i] : i \in 1 .. n}
  BY <1>2, <1>3, <1>4, AsArrayType, PrefixArray
<1> QED
  BY <1>2, <1>5, PrefixCount

-----------------------------------------------------------------------------
(* dropOldestEvictable, and the loops over it. *)

\* It takes out the first entry to be evicted.
LEMMA OldestEvictableIsFirst ==
    ASSUME NEW q \in Arrays, Len(q) > 0
    PROVE  /\ DropOldestEvictable(q) \in Arrays
           /\ Len(DropOldestEvictable(q)) = Len(q) - 1
           /\ \E first \in ToSet(q) :
                 /\ ToSet(q) \ {first} \subseteq Outlasting(ToSet(q), first)
                 /\ ToSet(DropOldestEvictable(q)) = ToSet(q) \ {first}
<1> DEFINE n == Len(q)
           others == {i \in DOMAIN q : ~IsIdea(q[i])}
           k == IF others = {} THEN 1 ELSE Min(others)
<1>1. /\ n \in Nat /\ DOMAIN q = 1 .. n /\ ToSet(q) = {q[i] : i \in 1 .. n}
      /\ \A i, j \in 1 .. n : q[i].id < q[j].id <=> i < j
  BY ArrayType
<1>2. n > 0 /\ DropOldestEvictable(q) = RemoveAt(q, k)
  BY DEF DropOldestEvictable
<1> HIDE DEF n
<1>3. /\ k \in 1 .. n
      /\ others # {} => k \in others /\ \A i \in others : k <= i
  <2>1. CASE others = {}
    BY <1>1, <1>2, <2>1
  <2>2. CASE others # {}
    <3>1. others \in SUBSET Nat
      BY <1>1
    <3>2. PICK least \in others : \A i \in others : least <= i
      <4> HIDE DEF others
      <4> QED
        BY <2>2, <3>1, LeastNatural
    <3>3. k \in others /\ \A i \in others : k <= i
      BY <2>2, <3>2 DEF Min
    <3> QED
      BY <1>1, <3>3
  <2> QED
    BY <2>1, <2>2
<1> HIDE DEF k
<1>4. ASSUME NEW i \in 1 .. n, i # k
      PROVE  EvictedBefore(q[k], q[i])
  <2>1. CASE others = {}
    <3>1. k < i
      <4>1. k = 1
        BY <2>1 DEF k
      <4> QED
        BY <1>1, <1>4, <4>1
    <3>2. IsIdea(q[k]) /\ IsIdea(q[i])
      BY <1>1, <1>3, <2>1
    <3> QED
      BY <1>1, <1>3, <3>1, <3>2 DEF EvictedBefore
  <2>2. CASE others # {} /\ IsIdea(q[i])
    BY <1>3, <2>2 DEF EvictedBefore
  <2>3. CASE others # {} /\ ~IsIdea(q[i])
    <3>1. ~IsIdea(q[k]) /\ k <= i
      BY <1>1, <1>3, <2>3
    <3>2. k < i
      BY <1>1, <1>3, <1>4, <3>1
    <3> QED
      BY <1>1, <1>3, <2>3, <3>1, <3>2 DEF EvictedBefore
  <2> QED
    BY <2>1, <2>2, <2>3
<1>5. /\ DropOldestEvictable(q) \in Arrays
      /\ Len(DropOldestEvictable(q)) = n - 1
      /\ ToSet(DropOldestEvictable(q)) = ToSet(q) \ {q[k]}
  BY <1>2, <1>3, RemoveAtArray DEF n
<1>6. q[k] \in ToSet(q) /\ ToSet(q) \ {q[k]} \subseteq Outlasting(ToSet(q), q[k])
  BY <1>1, <1>3, <1>4 DEF Outlasting
<1> QED
  BY <1>5, <1>6 DEF n

\* The first loop.
LEMMA LoopKeepsWithinCount ==
    ASSUME NEW q \in Arrays
    PROVE  DropWhileTooLong[q] = AsArray(WithinCount(ToSet(q)))
<1> DEFINE f == DropWhileTooLong
           Step(g) == [a \in Arrays |-> IF Len(a) > MaxItems THEN g[DropOldestEvictable(a)] ELSE a]
           closed == [a \in Arrays |-> AsArray(WithinCount(ToSet(a)))]
<1>1. ASSUME NEW a \in Arrays
      PROVE  closed[a] = IF Len(a) > MaxItems THEN closed[DropOldestEvictable(a)] ELSE a
  <2>1. IsQueue(ToSet(a)) /\ Cardinality(ToSet(a)) = Len(a) /\ Len(a) \in Nat
    BY ArrayIsQueue, ArrayType
  <2>2. CASE Len(a) > MaxItems
    <3>1. Len(a) > 0
      BY <2>1, <2>2, LimitsAssumption
    <3>2. /\ DropOldestEvictable(a) \in Arrays
          /\ WithinCount(ToSet(DropOldestEvictable(a))) = WithinCount(ToSet(a))
      BY <2>1, <2>2, <3>1, OldestEvictableIsFirst, DropFirst
    <3> QED
      BY <2>2, <3>2
  <2>3. CASE ~(Len(a) > MaxItems)
    <3>1. Cardinality(ToSet(a)) <= MaxItems
      BY <2>1, <2>3, LimitsAssumption
    <3> QED
      BY <2>1, <2>3, <3>1, NothingToDrop, ArrayOfSet
  <2> QED
    BY <2>2, <2>3
<1>2. closed = Step(closed)
  <2> HIDE DEF closed
  <2>1. closed = [a \in Arrays |-> closed[a]]
    BY DEF closed
  <2> QED
    BY <1>1, <2>1
<1>3. f = Step(f)
  <2>1. \E g : g = Step(g)
    BY <1>2
  <2>2. f = CHOOSE g : g = Step(g)
    BY DEF DropWhileTooLong
  <2> HIDE DEF f, Step
  <2> QED
    BY <2>1, <2>2
<1> HIDE DEF f
<1>4. ASSUME NEW a \in Arrays
      PROVE  f[a] = IF Len(a) > MaxItems THEN f[DropOldestEvictable(a)] ELSE a
  BY <1>3
<1> HIDE DEF closed, Step
<1> DEFINE Wrong == {Len(a) : a \in {b \in Arrays : f[b] # closed[b]}}
<1>5. Wrong = {}
  <2> SUFFICES ASSUME Wrong # {}
               PROVE  FALSE
    OBVIOUS
  <2>1. Wrong \in SUBSET Nat
    BY ArrayType
  <2>2. PICK least \in Wrong : \A i \in Wrong : least <= i
    <3> HIDE DEF Wrong
    <3> QED
      BY <2>1, LeastNatural
  <2>3. PICK a \in Arrays : Len(a) = least /\ f[a] # closed[a]
    OBVIOUS
  <2>4. Len(a) > MaxItems
    BY <1>1, <1>4, <2>3
  <2>5. Len(a) \in Nat /\ Len(a) > 0
    BY <2>4, ArrayType, LimitsAssumption
  <2>6. /\ DropOldestEvictable(a) \in Arrays
        /\ Len(DropOldestEvictable(a)) = Len(a) - 1
    BY <2>5, OldestEvictableIsFirst
  <2>7. f[DropOldestEvictable(a)] # closed[DropOldestEvictable(a)]
    BY <1>1, <1>4, <2>3, <2>4
  <2>8. least <= Len(a) - 1
    BY <2>2, <2>6, <2>7
  <2> QED
    BY <2>3, <2>5, <2>8
<1> QED
  BY <1>5 DEF closed, f

\* The second loop.
LEMMA LoopKeepsWithinBytes ==
    ASSUME NEW q \in Arrays
    PROVE  DropWhileTooLarge[q] = AsArray(WithinBytes(ToSet(q)))
<1> DEFINE TooLarge(a) == Bytes(ToSet(a)) > MaxBytes /\ Len(a) > 1
           f == DropWhileTooLarge
           Step(g) == [a \in Arrays |-> IF TooLarge(a) THEN g[DropOldestEvictable(a)] ELSE a]
           closed == [a \in Arrays |-> AsArray(WithinBytes(ToSet(a)))]
<1>1. ASSUME NEW a \in Arrays
      PROVE  closed[a] = IF TooLarge(a) THEN closed[DropOldestEvictable(a)] ELSE a
  <2>1. IsQueue(ToSet(a)) /\ Cardinality(ToSet(a)) = Len(a) /\ Len(a) \in Nat
    BY ArrayIsQueue, ArrayType
  <2>2. CASE TooLarge(a)
    <3>1. Len(a) > 0
      BY <2>1, <2>2, LimitsAssumption
    <3>2. /\ DropOldestEvictable(a) \in Arrays
          /\ WithinBytes(ToSet(DropOldestEvictable(a))) = WithinBytes(ToSet(a))
      BY <2>1, <2>2, <3>1, OldestEvictableIsFirst, DropFirst
    <3> QED
      BY <2>2, <3>2
  <2>3. CASE ~TooLarge(a)
    <3>1. Bytes(ToSet(a)) \in Nat
      BY <2>1, QueueSized, BytesType
    <3>2. Bytes(ToSet(a)) <= MaxBytes \/ Cardinality(ToSet(a)) <= 1
      BY <2>1, <2>3, <3>1, LimitsAssumption
    <3> QED
      BY <2>1, <2>3, <3>2, NothingToDrop, ArrayOfSet
  <2> QED
    BY <2>2, <2>3
<1>2. closed = Step(closed)
  <2> HIDE DEF closed
  <2>1. closed = [a \in Arrays |-> closed[a]]
    BY DEF closed
  <2> QED
    BY <1>1, <2>1
<1>3. f = Step(f)
  <2>1. \E g : g = Step(g)
    BY <1>2
  <2>2. f = CHOOSE g : g = Step(g)
    BY DEF DropWhileTooLarge
  <2> HIDE DEF f, Step
  <2> QED
    BY <2>1, <2>2
<1> HIDE DEF f
<1>4. ASSUME NEW a \in Arrays
      PROVE  f[a] = IF TooLarge(a) THEN f[DropOldestEvictable(a)] ELSE a
  BY <1>3
<1> HIDE DEF closed, Step
<1> DEFINE Wrong == {Len(a) : a \in {b \in Arrays : f[b] # closed[b]}}
<1>5. Wrong = {}
  <2> SUFFICES ASSUME Wrong # {}
               PROVE  FALSE
    OBVIOUS
  <2>1. Wrong \in SUBSET Nat
    BY ArrayType
  <2>2. PICK least \in Wrong : \A i \in Wrong : least <= i
    <3> HIDE DEF Wrong
    <3> QED
      BY <2>1, LeastNatural
  <2>3. PICK a \in Arrays : Len(a) = least /\ f[a] # closed[a]
    OBVIOUS
  <2>4. TooLarge(a)
    BY <1>1, <1>4, <2>3
  <2>5. Len(a) \in Nat /\ Len(a) > 0
    BY <2>4, ArrayType, LimitsAssumption
  <2>6. /\ DropOldestEvictable(a) \in Arrays
        /\ Len(DropOldestEvictable(a)) = Len(a) - 1
    BY <2>5, OldestEvictableIsFirst
  <2>7. f[DropOldestEvictable(a)] # closed[DropOldestEvictable(a)]
    BY <1>1, <1>4, <2>3, <2>4
  <2>8. least <= Len(a) - 1
    BY <2>2, <2>6, <2>7
  <2> QED
    BY <2>3, <2>5, <2>8
<1> QED
  BY <1>5 DEF closed, f

(* The two loops compute the closed form, for every queue and every limit. *)
THEOREM TrimLoopIsTrimmed ==
    ASSUME NEW q \in Arrays
    PROVE  TrimLoop(q) = AsArray(Trimmed(ToSet(q)))
<1> DEFINE W == WithinCount(ToSet(q))
<1>1. IsQueue(W)
  BY ArrayIsQueue, WithinCountBounded
<1>2. AsArray(W) \in Arrays /\ ToSet(AsArray(W)) = W
  BY <1>1, AsArrayType
<1> QED
  BY <1>2, LoopKeepsWithinCount, LoopKeepsWithinBytes DEF TrimLoop, Trimmed
=============================================================================
