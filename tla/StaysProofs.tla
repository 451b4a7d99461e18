---------------------------- MODULE StaysProofs ----------------------------
(* Proofs about stays, subscriptions and the evidence they lead to; the last *)
(* part, from Twin on, shows that deriving in steps is deriving at once.     *)
EXTENDS EvidenceFollowed, FiniteSetTheorems, WellFoundedInduction, SequenceTheorems, TLAPS

----------------------------------------------------------------------------
(* Least, largest and first elements.                                        *)

\* A nonempty finite set with a strict order on it has a first element: what comes before an
\* element is a set, and one of these sets is minimal by inclusion.
LEMMA HasFirst ==
  ASSUME NEW S, IsFiniteSet(S), S # {}, NEW R,
         \A x \in S : <<x, x>> \notin R,
         \A x, y, z \in S : <<x, y>> \in R /\ <<y, z>> \in R => <<x, z>> \in R
  PROVE  \E x \in S : \A y \in S : <<y, x>> \notin R
<1> DEFINE Preceding(x) == {y \in S : <<y, x>> \in R}
           T == {Preceding(x) : x \in S}
<1>1. T \subseteq FiniteSubsetsOf(S) /\ T # {}
  <2>1. \A x \in S : Preceding(x) \in SUBSET S OBVIOUS
  <2>2. \A W \in SUBSET S : IsFiniteSet(W) BY FS_Subset
  <2>3. T \subseteq SUBSET S OBVIOUS
  <2>4. T # {}
    <3>1. PICK x \in S : TRUE OBVIOUS
    <3>2. Preceding(x) \in T OBVIOUS
    <3>3. QED BY <3>2
  <2>5. QED BY <2>2, <2>3, <2>4 DEF FiniteSubsetsOf
<1>2. IsWellFoundedOn(StrictSubsetOrdering(S), FiniteSubsetsOf(S))
  BY FS_StrictSubsetOrderingWellFounded
<1> HIDE DEF T
<1>3. PICK U \in T : \A W \in T : <<W, U>> \notin StrictSubsetOrdering(S)
  BY <1>1, <1>2, WFMin
<1>4. PICK x \in S : U = Preceding(x)
  BY DEF T
<1>5. ASSUME NEW y \in S, <<y, x>> \in R PROVE FALSE
  <2>1. Preceding(y) \subseteq Preceding(x) BY <1>5
  <2>2. y \in Preceding(x) /\ y \notin Preceding(y) BY <1>5
  <2>3. Preceding(y) \in SUBSET S /\ Preceding(x) \in SUBSET S OBVIOUS
  <2>4. <<Preceding(y), Preceding(x)>> \in StrictSubsetOrdering(S)
    BY <2>1, <2>2, <2>3 DEF StrictSubsetOrdering
  <2>5. Preceding(y) \in T BY DEF T
  <2>6. QED BY <1>3, <1>4, <2>4, <2>5
<1>6. QED BY <1>5

\* A nonempty finite set of naturals has a largest element.
LEMMA HasLargest ==
  ASSUME NEW S \in SUBSET Nat, S # {}, IsFiniteSet(S)
  PROVE  \E x \in S : \A y \in S : y <= x
<1>1. PICK R : R = {p \in S \X S : p[1] > p[2]}
  OBVIOUS
<1>2. \A x, y \in S : <<x, y>> \in R <=> x > y
  BY <1>1
<1>3. /\ \A x \in S : <<x, x>> \notin R
      /\ \A x, y, z \in S : <<x, y>> \in R /\ <<y, z>> \in R => <<x, z>> \in R
  BY <1>2
<1>4. PICK x \in S : \A y \in S : <<y, x>> \notin R
  <2> DEFINE First(A, Q) == \E x \in A : \A y \in A : <<y, x>> \notin Q
  <2>1. First(S, R) BY <1>3, HasFirst
  <2>2. QED BY <2>1
<1>5. ASSUME NEW y \in S PROVE y <= x
  <2>1. ~ (y > x) BY <1>2, <1>4
  <2>2. x \in Nat /\ y \in Nat OBVIOUS
  <2>3. QED BY <2>1, <2>2
<1>6. QED BY <1>5

\* A nonempty set of naturals has a least element.
LEMMA HasLeast ==
  ASSUME NEW S \in SUBSET Nat, S # {}
  PROVE  \E x \in S : \A y \in S : x <= y
<1>1. PICK top \in S : TRUE
  OBVIOUS
<1>2. PICK T : T = {n \in 0 .. top : top - n \in S}
  OBVIOUS
<1>3. T \in SUBSET Nat /\ T \in SUBSET (0 .. top) /\ 0 \in T
  BY <1>1, <1>2
<1>4. IsFiniteSet(T)
  <2>1. top \in Int /\ 0 \in Int BY <1>1
  <2>2. IsFiniteSet(0 .. top) BY <2>1, FS_Interval
  <2>3. QED BY <1>3, <2>2, FS_Subset
<1>5. PICK b \in T : \A n \in T : n <= b
  BY <1>3, <1>4, HasLargest
<1>6. b \in 0 .. top /\ top - b \in S
  BY <1>2
<1>7. ASSUME NEW y \in S PROVE top - b <= y
  <2>1. y <= top => top - y \in T
    BY <1>1, <1>2
  <2>2. y <= top => top - y <= b
    BY <1>5, <2>1
  <2>3. QED BY <1>1, <1>6, <2>2
<1>8. QED BY <1>6, <1>7

\* What Min returns.
LEMMA MinOfNaturals ==
  ASSUME NEW S \in SUBSET Nat, S # {}
  PROVE  Min(S) \in S /\ \A y \in S : Min(S) <= y
BY HasLeast DEF Min

\* The largest of some numbers, or 0.
LEMMA LastOfNaturals ==
  ASSUME NEW S \in SUBSET Nat, IsFiniteSet(S)
  PROVE  /\ LastOf(S) \in Nat /\ LastOf(S) \in S \cup {0}
         /\ \A y \in S : y <= LastOf(S)
         /\ S # {} => LastOf(S) \in S
<1> DEFINE T == S \cup {0}
<1>1. T \in SUBSET Nat /\ T # {} /\ IsFiniteSet(T)
  BY FS_AddElement
<1>2. PICK x \in T : \A y \in T : y <= x
  <2> HIDE DEF T
  <2>1. QED BY <1>1, HasLargest
<1>3. Max(T) \in T /\ \A y \in T : y <= Max(T)
  BY <1>2 DEF Max
<1>4. ASSUME S # {} PROVE Max(T) \in S
  <2>1. PICK s \in S : TRUE BY <1>4
  <2>2. s <= Max(T) BY <1>3
  <2>3. Max(T) = 0 => s = 0 BY <1>1, <1>3, <2>2
  <2>4. QED BY <1>3, <2>3
<1>5. QED BY <1>1, <1>3, <1>4 DEF LastOf

----------------------------------------------------------------------------
(* The loops: what a function of the number of rounds says round by round.   *)

\* The loop of begin.
AreRounds(g, t, c, V, top) ==
  /\ g[0] = [c |-> c, taken |-> <<>>]
  /\ \A n \in 1 .. top : g[n] = Absorb(t, g[n - 1], V)

LEMMA AbsorbingRounds ==
  ASSUME NEW t, NEW c, NEW V, IsFiniteSet(DOMAIN t.rows)
  PROVE  AreRounds(Absorbing(t, c, V), t, c, V, Cardinality(DOMAIN t.rows))
<1> DEFINE top == Cardinality(DOMAIN t.rows)
           start == [c |-> c, taken |-> <<>>]
           Upto(h, m) ==
             h = [n \in 0 .. m |-> IF n = 0 THEN start
                                  ELSE Absorb(t, h[n - 1], V)]
           Bad == {m \in 0 .. top : ~ \E h : Upto(h, m)}
<1>1. top \in Nat BY FS_CardinalityType
<1> HIDE DEF start
<1>2. SUFFICES \E h : Upto(h, top)
  <2>1. PICK h : Upto(h, top) BY <1>2
  <2>2. PICK g : g = Absorbing(t, c, V) OBVIOUS
  <2>3. Upto(g, top) BY <2>1, <2>2 DEF Absorbing, start
  <2>4. g[0] = start /\ \A n \in 1 .. top : g[n] = Absorb(t, g[n - 1], V)
    <3> HIDE DEF top
    <3>1. QED BY <1>1, <2>3
  <2>5. AreRounds(g, t, c, V, top)
    <3> HIDE DEF top
    <3>1. QED BY <2>4 DEF AreRounds, start
  <2>6. QED BY <2>2, <2>5
<1> HIDE DEF top
<1>3. SUFFICES ASSUME Bad # {} PROVE FALSE
  BY <1>1
<1>4. PICK m \in Bad : \A k \in Bad : m <= k
  <2>1. Bad \in SUBSET Nat BY <1>1
  <2> HIDE DEF Bad
  <2>2. QED BY <1>3, <2>1, HasLeast
<1>5. m \in 0 .. top /\ ~ \E h : Upto(h, m)
  OBVIOUS
<1>6. CASE m = 0
  <2>1. Upto([n \in 0 .. 0 |-> start], 0) OBVIOUS
  <2>2. QED BY <1>5, <1>6, <2>1
<1>7. CASE m # 0
  <2>1. m - 1 \in 0 .. top /\ m \in Nat BY <1>1, <1>5, <1>7
  <2>2. PICK h : Upto(h, m - 1)
    <3>1. m - 1 \notin Bad
      <4> HIDE DEF Bad
      <4>1. ~ (m <= m - 1) BY <2>1
      <4>2. QED BY <1>4, <4>1
    <3>2. QED BY <2>1, <3>1
  <2>3. PICK g : g = [n \in 0 .. m |-> IF n = m THEN Absorb(t, h[n - 1], V) ELSE h[n]] OBVIOUS
  <2>4. \A n \in 0 .. m : g[n] = IF n = 0 THEN start ELSE Absorb(t, g[n - 1], V)
    BY <1>7, <2>1, <2>2, <2>3
  <2>5. Upto(g, m) BY <2>3, <2>4
  <2>6. QED BY <1>5, <2>5
<1>8. QED BY <1>6, <1>7

\* The removal of the absorbed rows.
LEMMA RemovingRounds ==
  ASSUME NEW t, NEW taken, NEW keeper, Len(taken) \in Nat
  PROVE  LET Round == RemovingOthers(t, taken, keeper) IN
         /\ Round[0] = t
         /\ \A n \in 1 .. Len(taken) :
              Round[n] = (IF taken[n] = keeper THEN Round[n - 1] ELSE RemoveRow(Round[n - 1], taken[n]))
<1> DEFINE top == Len(taken)
           start == t
           Upto(h, m) ==
             h = [n \in 0 .. m |-> IF n = 0 THEN start
                                  ELSE (IF taken[n] = keeper THEN h[n - 1] ELSE RemoveRow(h[n - 1], taken[n]))]
           Bad == {m \in 0 .. top : ~ \E h : Upto(h, m)}
<1>1. top \in Nat OBVIOUS
<1> HIDE DEF start
<1>2. SUFFICES \E h : Upto(h, top)
  <2>1. PICK h : Upto(h, top) BY <1>2
  <2>2. PICK g : g = RemovingOthers(t, taken, keeper) OBVIOUS
  <2>3. Upto(g, top) BY <2>1, <2>2 DEF RemovingOthers, start
  <2>4. g[0] = start /\ \A n \in 1 .. top : g[n] = (IF taken[n] = keeper THEN g[n - 1] ELSE RemoveRow(g[n - 1], taken[n]))
    <3> HIDE DEF top
    <3>1. QED BY <1>1, <2>3
  <2>5. QED BY <2>2, <2>4 DEF start
<1> HIDE DEF top
<1>3. SUFFICES ASSUME Bad # {} PROVE FALSE
  BY <1>1
<1>4. PICK m \in Bad : \A k \in Bad : m <= k
  <2>1. Bad \in SUBSET Nat BY <1>1
  <2> HIDE DEF Bad
  <2>2. QED BY <1>3, <2>1, HasLeast
<1>5. m \in 0 .. top /\ ~ \E h : Upto(h, m)
  OBVIOUS
<1>6. CASE m = 0
  <2>1. Upto([n \in 0 .. 0 |-> start], 0) OBVIOUS
  <2>2. QED BY <1>5, <1>6, <2>1
<1>7. CASE m # 0
  <2>1. m - 1 \in 0 .. top /\ m \in Nat BY <1>1, <1>5, <1>7
  <2>2. PICK h : Upto(h, m - 1)
    <3>1. m - 1 \notin Bad
      <4> HIDE DEF Bad
      <4>1. ~ (m <= m - 1) BY <2>1
      <4>2. QED BY <1>4, <4>1
    <3>2. QED BY <2>1, <3>1
  <2>3. PICK g : g = [n \in 0 .. m |-> IF n = m THEN (IF taken[n] = keeper THEN h[n - 1] ELSE RemoveRow(h[n - 1], taken[n])) ELSE h[n]] OBVIOUS
  <2>4. \A n \in 0 .. m : g[n] = IF n = 0 THEN start ELSE (IF taken[n] = keeper THEN g[n - 1] ELSE RemoveRow(g[n - 1], taken[n]))
    BY <1>7, <2>1, <2>2, <2>3
  <2>5. Upto(g, m) BY <2>3, <2>4
  <2>6. QED BY <1>5, <2>5
<1>8. QED BY <1>6, <1>7

\* The queue of one fix.
LEMMA FeedingRounds ==
  ASSUME NEW t, NEW s, NEW V, Rounds(t) \in Nat
  PROVE  LET Round == Feeding(t, s, V) IN
         /\ Round[0] = [t |-> t, queue |-> <<s>>]
         /\ \A n \in 1 .. Rounds(t) :
              Round[n] = Place(Round[n - 1], V)
<1> DEFINE top == Rounds(t)
           start == [t |-> t, queue |-> <<s>>]
           Upto(h, m) ==
             h = [n \in 0 .. m |-> IF n = 0 THEN start
                                  ELSE Place(h[n - 1], V)]
           Bad == {m \in 0 .. top : ~ \E h : Upto(h, m)}
<1>1. top \in Nat OBVIOUS
<1> HIDE DEF start
<1>2. SUFFICES \E h : Upto(h, top)
  <2>1. PICK h : Upto(h, top) BY <1>2
  <2>2. PICK g : g = Feeding(t, s, V) OBVIOUS
  <2>3. Upto(g, top) BY <2>1, <2>2 DEF Feeding, start
  <2>4. g[0] = start /\ \A n \in 1 .. top : g[n] = Place(g[n - 1], V)
    <3> HIDE DEF top
    <3>1. QED BY <1>1, <2>3
  <2>5. QED BY <2>2, <2>4 DEF start
<1> HIDE DEF top
<1>3. SUFFICES ASSUME Bad # {} PROVE FALSE
  BY <1>1
<1>4. PICK m \in Bad : \A k \in Bad : m <= k
  <2>1. Bad \in SUBSET Nat BY <1>1
  <2> HIDE DEF Bad
  <2>2. QED BY <1>3, <2>1, HasLeast
<1>5. m \in 0 .. top /\ ~ \E h : Upto(h, m)
  OBVIOUS
<1>6. CASE m = 0
  <2>1. Upto([n \in 0 .. 0 |-> start], 0) OBVIOUS
  <2>2. QED BY <1>5, <1>6, <2>1
<1>7. CASE m # 0
  <2>1. m - 1 \in 0 .. top /\ m \in Nat BY <1>1, <1>5, <1>7
  <2>2. PICK h : Upto(h, m - 1)
    <3>1. m - 1 \notin Bad
      <4> HIDE DEF Bad
      <4>1. ~ (m <= m - 1) BY <2>1
      <4>2. QED BY <1>4, <4>1
    <3>2. QED BY <2>1, <3>1
  <2>3. PICK g : g = [n \in 0 .. m |-> IF n = m THEN Place(h[n - 1], V) ELSE h[n]] OBVIOUS
  <2>4. \A n \in 0 .. m : g[n] = IF n = 0 THEN start ELSE Place(g[n - 1], V)
    BY <1>7, <2>1, <2>2, <2>3
  <2>5. Upto(g, m) BY <2>3, <2>4
  <2>6. QED BY <1>5, <2>5
<1>8. QED BY <1>6, <1>7

\* The fixes of a run.
LEMMA FeedingAllRounds ==
  ASSUME NEW t, NEW fixes, NEW V, LastOf(DOMAIN fixes) \in Nat
  PROVE  LET Round == FeedingAll(t, fixes, V) IN
         /\ Round[0] = t
         /\ \A n \in 1 .. LastOf(DOMAIN fixes) :
              Round[n] = (IF n \in DOMAIN fixes THEN Feed(Round[n - 1], fixes[n], V) ELSE Round[n - 1])
<1> DEFINE top == LastOf(DOMAIN fixes)
           start == t
           Upto(h, m) ==
             h = [n \in 0 .. m |-> IF n = 0 THEN start
                                  ELSE (IF n \in DOMAIN fixes THEN Feed(h[n - 1], fixes[n], V) ELSE h[n - 1])]
           Bad == {m \in 0 .. top : ~ \E h : Upto(h, m)}
<1>1. top \in Nat OBVIOUS
<1> HIDE DEF start
<1>2. SUFFICES \E h : Upto(h, top)
  <2>1. PICK h : Upto(h, top) BY <1>2
  <2>2. PICK g : g = FeedingAll(t, fixes, V) OBVIOUS
  <2>3. Upto(g, top) BY <2>1, <2>2 DEF FeedingAll, start
  <2>4. g[0] = start /\ \A n \in 1 .. top : g[n] = (IF n \in DOMAIN fixes THEN Feed(g[n - 1], fixes[n], V) ELSE g[n - 1])
    <3> HIDE DEF top
    <3>1. QED BY <1>1, <2>3
  <2>5. QED BY <2>2, <2>4 DEF start
<1> HIDE DEF top
<1>3. SUFFICES ASSUME Bad # {} PROVE FALSE
  BY <1>1
<1>4. PICK m \in Bad : \A k \in Bad : m <= k
  <2>1. Bad \in SUBSET Nat BY <1>1
  <2> HIDE DEF Bad
  <2>2. QED BY <1>3, <2>1, HasLeast
<1>5. m \in 0 .. top /\ ~ \E h : Upto(h, m)
  OBVIOUS
<1>6. CASE m = 0
  <2>1. Upto([n \in 0 .. 0 |-> start], 0) OBVIOUS
  <2>2. QED BY <1>5, <1>6, <2>1
<1>7. CASE m # 0
  <2>1. m - 1 \in 0 .. top /\ m \in Nat BY <1>1, <1>5, <1>7
  <2>2. PICK h : Upto(h, m - 1)
    <3>1. m - 1 \notin Bad
      <4> HIDE DEF Bad
      <4>1. ~ (m <= m - 1) BY <2>1
      <4>2. QED BY <1>4, <4>1
    <3>2. QED BY <2>1, <3>1
  <2>3. PICK g : g = [n \in 0 .. m |-> IF n = m THEN (IF n \in DOMAIN fixes THEN Feed(h[n - 1], fixes[n], V) ELSE h[n - 1]) ELSE h[n]] OBVIOUS
  <2>4. \A n \in 0 .. m : g[n] = IF n = 0 THEN start ELSE (IF n \in DOMAIN fixes THEN Feed(g[n - 1], fixes[n], V) ELSE g[n - 1])
    BY <1>7, <2>1, <2>2, <2>3
  <2>5. Upto(g, m) BY <2>3, <2>4
  <2>6. QED BY <1>5, <2>5
<1>8. QED BY <1>6, <1>7

\* The rows a visit has come to cover.
LEMMA ReconcilingRounds ==
  ASSUME NEW l, LastOf(DOMAIN l.rows) \in Nat
  PROVE  LET Round == Reconciling(l) IN
         /\ Round[0] = [t |-> l, cursor |-> IF IdsRestarted THEN 0 ELSE cursor]
         /\ \A n \in 1 .. LastOf(DOMAIN l.rows) :
              Round[n] = (IF n \in Covered(l) THEN Reconcile(Round[n - 1], n) ELSE Round[n - 1])
<1> DEFINE top == LastOf(DOMAIN l.rows)
           start == [t |-> l, cursor |-> IF IdsRestarted THEN 0 ELSE cursor]
           Upto(h, m) ==
             h = [n \in 0 .. m |-> IF n = 0 THEN start
                                  ELSE (IF n \in Covered(l) THEN Reconcile(h[n - 1], n) ELSE h[n - 1])]
           Bad == {m \in 0 .. top : ~ \E h : Upto(h, m)}
<1>1. top \in Nat OBVIOUS
<1> HIDE DEF start
<1>2. SUFFICES \E h : Upto(h, top)
  <2>1. PICK h : Upto(h, top) BY <1>2
  <2>2. PICK g : g = Reconciling(l) OBVIOUS
  <2>3. Upto(g, top) BY <2>1, <2>2 DEF Reconciling, start
  <2>4. g[0] = start /\ \A n \in 1 .. top : g[n] = (IF n \in Covered(l) THEN Reconcile(g[n - 1], n) ELSE g[n - 1])
    <3> HIDE DEF top
    <3>1. QED BY <1>1, <2>3
  <2>5. QED BY <2>2, <2>4 DEF start
<1> HIDE DEF top
<1>3. SUFFICES ASSUME Bad # {} PROVE FALSE
  BY <1>1
<1>4. PICK m \in Bad : \A k \in Bad : m <= k
  <2>1. Bad \in SUBSET Nat BY <1>1
  <2> HIDE DEF Bad
  <2>2. QED BY <1>3, <2>1, HasLeast
<1>5. m \in 0 .. top /\ ~ \E h : Upto(h, m)
  OBVIOUS
<1>6. CASE m = 0
  <2>1. Upto([n \in 0 .. 0 |-> start], 0) OBVIOUS
  <2>2. QED BY <1>5, <1>6, <2>1
<1>7. CASE m # 0
  <2>1. m - 1 \in 0 .. top /\ m \in Nat BY <1>1, <1>5, <1>7
  <2>2. PICK h : Upto(h, m - 1)
    <3>1. m - 1 \notin Bad
      <4> HIDE DEF Bad
      <4>1. ~ (m <= m - 1) BY <2>1
      <4>2. QED BY <1>4, <4>1
    <3>2. QED BY <2>1, <3>1
  <2>3. PICK g : g = [n \in 0 .. m |-> IF n = m THEN (IF n \in Covered(l) THEN Reconcile(h[n - 1], n) ELSE h[n - 1]) ELSE h[n]] OBVIOUS
  <2>4. \A n \in 0 .. m : g[n] = IF n = 0 THEN start ELSE (IF n \in Covered(l) THEN Reconcile(g[n - 1], n) ELSE g[n - 1])
    BY <1>7, <2>1, <2>2, <2>3
  <2>5. Upto(g, m) BY <2>3, <2>4
  <2>6. QED BY <1>5, <2>5
<1>8. QED BY <1>6, <1>7


----------------------------------------------------------------------------
(* Clusters.                                                                 *)

Fix == [id : Nat \ {0}, ts : Nat, pos : Positions, n : Nat \ {0}]
Cluster == [start : Nat, end : Nat, sum : Int, count : Nat \ {0}, of : SUBSET Nat]

\* The centroid lies between two of the positions.
Spread(c) == \E a, b \in Positions : a * c.count <= c.sum /\ c.sum <= b * c.count

ClusterOK(c) == c \in Cluster /\ Spread(c)

\* What Larger and Smaller return is a number.
LEMMA LargerSmaller ==
  \A a, b \in Nat : Larger(a, b) \in Nat /\ Smaller(a, b) \in Nat
BY DEF Larger, Smaller

\* The cluster of one fix is one.
LEMMA ClusterOfOK ==
  ASSUME NEW s \in Fix
  PROVE  ClusterOK(ClusterOf(s)) /\ ClusterOf(s).start = s.ts
<1>1. s.pos \in Positions /\ s.pos \in Int /\ s.ts \in Nat /\ s.n \in Nat
  BY StayAssumption DEF Fix
<1>2. ClusterOf(s) \in Cluster
  BY <1>1 DEF ClusterOf, Cluster
<1>3. s.pos * 1 <= s.pos /\ s.pos <= s.pos * 1
  BY <1>1
<1>4. ClusterOf(s).count = 1 /\ ClusterOf(s).sum = s.pos /\ ClusterOf(s).start = s.ts
  BY DEF ClusterOf
<1>5. Spread(ClusterOf(s))
  BY <1>1, <1>3, <1>4 DEF Spread
<1>6. QED BY <1>2, <1>4, <1>5 DEF ClusterOK

\* A count times a centroid is an integer.
LEMMA Products ==
  /\ \A a \in Int, m, n \in Nat : a * (m + n) = a * m + a * n
  /\ \A a, b \in Int, n \in Nat : a <= b => a * n <= b * n
OBVIOUS

\* A cluster with a fix more is one.
LEMMA AddSampleOK ==
  ASSUME NEW c, ClusterOK(c), NEW s \in Fix
  PROVE  ClusterOK(AddSample(c, s)) /\ AddSample(c, s).start = c.start
<1> DEFINE d == AddSample(c, s)
<1>1. s.pos \in Positions /\ s.pos \in Int /\ s.ts \in Nat /\ s.n \in Nat
  BY StayAssumption DEF Fix
<1>2. c \in Cluster /\ c.sum \in Int /\ c.count \in Nat \ {0} /\ c.end \in Nat /\ c.of \in SUBSET Nat
  BY DEF ClusterOK, Cluster
<1>3. /\ d.start = c.start /\ d.end = Larger(c.end, s.ts) /\ d.sum = c.sum + s.pos
      /\ d.count = c.count + 1 /\ d.of = c.of \cup {s.n}
  BY <1>2 DEF AddSample, Cluster
<1>4. d \in Cluster
  <2>1. Larger(c.end, s.ts) \in Nat BY <1>1, <1>2, LargerSmaller
  <2>2. c.sum + s.pos \in Int /\ c.count + 1 \in Nat \ {0} /\ c.of \cup {s.n} \in SUBSET Nat
    BY <1>1, <1>2
  <2>3. QED BY <1>2, <2>1, <2>2 DEF AddSample, Cluster
<1>5. PICK a \in Positions, b \in Positions : a * c.count <= c.sum /\ c.sum <= b * c.count
  BY DEF ClusterOK, Spread
<1>6. a \in Int /\ b \in Int BY StayAssumption
<1>7. PICK l \in Positions : l <= a /\ l <= s.pos
  BY <1>1, <1>6
<1>8. PICK h \in Positions : b <= h /\ s.pos <= h
  BY <1>1, <1>6
<1>9. l * (c.count + 1) <= c.sum + s.pos /\ c.sum + s.pos <= h * (c.count + 1)
  <2>1. l \in Int /\ h \in Int /\ 1 \in Nat /\ c.count \in Nat BY <1>2, StayAssumption
  <2>2. l * c.count <= a * c.count /\ b * c.count <= h * c.count
    BY <1>6, <1>7, <1>8, <2>1, Products
  <2>3. l * (c.count + 1) = l * c.count + l /\ h * (c.count + 1) = h * c.count + h
    <3>1. l * 1 = l /\ h * 1 = h BY <2>1
    <3>2. QED BY <2>1, <3>1, Products
  <2>4. /\ l * c.count \in Int /\ h * c.count \in Int /\ a * c.count \in Int
        /\ b * c.count \in Int
    BY <1>2, <1>6, <2>1
  <2>5. QED BY <1>1, <1>2, <1>5, <1>7, <1>8, <2>1, <2>2, <2>3, <2>4
<1>10. Spread(d) BY <1>3, <1>9 DEF Spread
<1>11. QED BY <1>3, <1>4, <1>10 DEF ClusterOK

\* Two clusters merged are one.
LEMMA MergeClustersOK ==
  ASSUME NEW c, ClusterOK(c), NEW d, ClusterOK(d)
  PROVE  ClusterOK(MergeClusters(c, d))
<1> DEFINE e == MergeClusters(c, d)
<1>1. /\ c.start \in Nat /\ c.end \in Nat /\ c.sum \in Int /\ c.count \in Nat \ {0} /\ c.of \in SUBSET Nat
      /\ d.start \in Nat /\ d.end \in Nat /\ d.sum \in Int /\ d.count \in Nat \ {0} /\ d.of \in SUBSET Nat
  BY DEF ClusterOK, Cluster
<1>2. e.sum = c.sum + d.sum /\ e.count = c.count + d.count
  BY DEF MergeClusters
<1>3. e \in Cluster
  <2>1. Smaller(c.start, d.start) \in Nat /\ Larger(c.end, d.end) \in Nat
    BY <1>1, LargerSmaller
  <2>2. c.sum + d.sum \in Int /\ c.count + d.count \in Nat \ {0} /\ c.of \cup d.of \in SUBSET Nat
    BY <1>1
  <2>3. QED BY <2>1, <2>2 DEF MergeClusters, Cluster
<1>4. PICK a \in Positions, b \in Positions : a * c.count <= c.sum /\ c.sum <= b * c.count
  BY DEF ClusterOK, Spread
<1>5. PICK f \in Positions, g \in Positions : f * d.count <= d.sum /\ d.sum <= g * d.count
  BY DEF ClusterOK, Spread
<1>6. a \in Int /\ b \in Int /\ f \in Int /\ g \in Int BY StayAssumption
<1>7. PICK l \in Positions : l <= a /\ l <= f
  BY <1>6
<1>8. PICK h \in Positions : b <= h /\ g <= h
  BY <1>6
<1>9. l * (c.count + d.count) <= c.sum + d.sum /\ c.sum + d.sum <= h * (c.count + d.count)
  <2>1. l \in Int /\ h \in Int /\ c.count \in Nat /\ d.count \in Nat BY <1>1, StayAssumption
  <2>2. /\ l * c.count <= a * c.count /\ b * c.count <= h * c.count
        /\ l * d.count <= f * d.count /\ g * d.count <= h * d.count
    BY <1>6, <1>7, <1>8, <2>1, Products
  <2>3. /\ l * (c.count + d.count) = l * c.count + l * d.count
        /\ h * (c.count + d.count) = h * c.count + h * d.count
    BY <2>1, Products
  <2>4. /\ l * c.count \in Int /\ h * c.count \in Int /\ a * c.count \in Int /\ b * c.count \in Int
        /\ l * d.count \in Int /\ h * d.count \in Int /\ f * d.count \in Int /\ g * d.count \in Int
    BY <1>6, <2>1
  <2>5. QED BY <1>1, <1>4, <1>5, <2>2, <2>3, <2>4
<1>10. Spread(e) BY <1>2, <1>9 DEF Spread
<1>11. QED BY <1>3, <1>10 DEF ClusterOK


----------------------------------------------------------------------------
(* What holds of a tracker all through a run.  old are the stays its ledger  *)
(* was made of, F is what it was fed, V the visits; todo are the rows still  *)
(* to be reconciled and held the row another tracker over the same ledger    *)
(* has open.                                                                 *)

Row == [id : Nat, closed : BOOLEAN, c : Cluster]

\* A row with the id of a stored stay began when that stay did.
RowOK(r, old) == r \in Row /\ Spread(r.c) /\ \A s \in old : s.id = r.id => s.c.start = r.c.start

IsTracker(t) ==
  t = [rows |-> t.rows, removed |-> t.removed, open |-> t.open, pending |-> t.pending,
       fresh |-> t.fresh]
IsMap(f) == f = [k \in DOMAIN f |-> f[k]]
Numbered(f, top) == IsMap(f) /\ DOMAIN f \subseteq 1 .. top
Holds(f, id) == \E k \in DOMAIN f : f[k].id = id

LedgerOK(t, old) ==
  /\ IsTracker(t) /\ t.fresh \in Nat \ {0}
  /\ Numbered(t.rows, t.fresh - 1) /\ \A k \in DOMAIN t.rows : RowOK(t.rows[k], old)
  /\ Numbered(t.removed, t.fresh - 1) /\ \A k \in DOMAIN t.removed : RowOK(t.removed[k], old)

\* A stored stay is in the ledger or among the removed, and its id is in one place only: no row
\* is written twice or forgotten.
IsKept(t, old) == \A s \in old : Holds(t.rows, s.id) \/ Holds(t.removed, s.id)
IsOf(r, old) == \E s \in old : s.id = r.id
OneRowEach(t, old) ==
  /\ \A j, k \in DOMAIN t.rows : t.rows[j].id = t.rows[k].id => j = k \/ t.rows[j].id = 0
  /\ \A j, k \in DOMAIN t.removed : t.removed[j].id = t.removed[k].id => j = k
  /\ \A j \in DOMAIN t.rows : \A k \in DOMAIN t.removed : t.rows[j].id # t.removed[k].id
  /\ \A j \in DOMAIN t.rows : t.rows[j].id = 0 \/ IsOf(t.rows[j], old)
  /\ \A k \in DOMAIN t.removed : t.removed[k].id # 0 /\ IsOf(t.removed[k], old)

StoredKept(t, old) == IsKept(t, old) /\ OneRowEach(t, old)

ClearRows(t, V, todo) == \A k \in DOMAIN t.rows \ todo : ~ OverlapsVisit(t.rows[k].c, V)

OpenOK(t, held) ==
  /\ t.open # NoRow => t.open \in DOMAIN t.rows \ held
  /\ \A k \in held : k \in DOMAIN t.rows /\ t.rows[k].closed = FALSE

IsDwell(p, F) ==
  /\ p = [members |-> p.members, cluster |-> p.cluster] /\ p.members \in Seq(F)
  /\ p.members # <<>> => ClusterOK(p.cluster)

Good(t, old, F, V, todo, held) ==
  /\ LedgerOK(t, old) /\ StoredKept(t, old)
  /\ ClearRows(t, V, todo) /\ OpenOK(t, held) /\ IsDwell(t.pending, F)

Agree(w, f, S) == \A j \in S : w[j] = f[j]
IsWith(w, f, k, x) ==
  DOMAIN w = DOMAIN f \cup {k} /\ w[k] = x /\ IsMap(w) /\ Agree(w, f, DOMAIN f \ {k})
IsWithout(w, f, K) ==
  DOMAIN w = DOMAIN f \ K /\ IsMap(w) /\ Agree(w, f, DOMAIN f \ K)

\* What With stores, and what it leaves alone.
LEMMA WithFacts ==
  ASSUME NEW f, NEW k, NEW x
  PROVE  IsWith(With(f, k, x), f, k, x)
<1>1. PICK w : w = With(f, k, x) OBVIOUS
<1>2. DOMAIN w = DOMAIN f \cup {k} /\ w[k] = x BY <1>1 DEF With
<1>3. Agree(w, f, DOMAIN f \ {k}) BY <1>1 DEF With, Agree
<1>4. IsMap(w) BY <1>1 DEF With, IsMap
<1>5. QED BY <1>1, <1>2, <1>3, <1>4 DEF IsWith

\* What Without leaves.
LEMMA WithoutFacts ==
  ASSUME NEW f, NEW K
  PROVE  IsWithout(Without(f, K), f, K)
<1>1. PICK w : w = Without(f, K) OBVIOUS
<1>2. DOMAIN w = DOMAIN f \ K BY <1>1 DEF Without
<1>3. Agree(w, f, DOMAIN f \ K) BY <1>1 DEF Without, Agree
<1>4. IsMap(w) BY <1>1 DEF Without, IsMap
<1>5. QED BY <1>1, <1>2, <1>3, <1>4 DEF IsWithout

\* No dwell is the empty one.
LEMMA NoDwellIsDwell == \A F : IsDwell(NoDwell, F)
<1>1. ASSUME NEW F PROVE <<>> \in Seq(F) OBVIOUS
<1>2. QED BY <1>1 DEF NoDwell, IsDwell

\* Opening another row, and a new dwell.
LEMMA SetOpenGood ==
  ASSUME NEW old, NEW t, NEW F, NEW V, NEW todo, NEW held, Good(t, old, F, V, todo, held),
         NEW k, k = NoRow \/ k \in DOMAIN t.rows \ held
  PROVE  LET u == [t EXCEPT !.open = k] IN
         /\ Good(u, old, F, V, todo, held)
         /\ u.open = k /\ u.rows = t.rows /\ u.removed = t.removed
         /\ u.pending = t.pending /\ u.fresh = t.fresh
<1>1. PICK u : u = [t EXCEPT !.open = k] OBVIOUS
<1>2. IsTracker(t) BY DEF Good, LedgerOK
<1>3. /\ IsTracker(u) /\ u.open = k /\ u.rows = t.rows /\ u.removed = t.removed
      /\ u.pending = t.pending /\ u.fresh = t.fresh
  BY <1>1, <1>2 DEF IsTracker
<1>4. Good(u, old, F, V, todo, held)
  BY <1>3 DEF Good, LedgerOK, StoredKept, IsKept, OneRowEach, ClearRows, OpenOK
<1>5. QED BY <1>1, <1>3, <1>4

\* The dwell that waits may be any.
LEMMA SetPendingGood ==
  ASSUME NEW old, NEW t, NEW F, NEW V, NEW todo, NEW held, Good(t, old, F, V, todo, held),
         NEW p, IsDwell(p, F)
  PROVE  LET u == [t EXCEPT !.pending = p] IN
         /\ Good(u, old, F, V, todo, held)
         /\ u.pending = p /\ u.rows = t.rows /\ u.removed = t.removed
         /\ u.open = t.open /\ u.fresh = t.fresh
<1>1. PICK u : u = [t EXCEPT !.pending = p] OBVIOUS
<1>2. IsTracker(t) BY DEF Good, LedgerOK
<1>3. /\ IsTracker(u) /\ u.pending = p /\ u.rows = t.rows /\ u.removed = t.removed
      /\ u.open = t.open /\ u.fresh = t.fresh
  BY <1>1, <1>2 DEF IsTracker
<1>4. Good(u, old, F, V, todo, held)
  BY <1>3 DEF Good, LedgerOK, StoredKept, IsKept, OneRowEach, ClearRows, OpenOK
<1>5. QED BY <1>1, <1>3, <1>4

\* A row that grows, is closed or goes on keeps its id and its start.
LEMMA SetRowGood ==
  ASSUME NEW old, NEW t, NEW F, NEW V, NEW todo, NEW held, Good(t, old, F, V, todo, held),
         NEW k \in DOMAIN t.rows \ held, NEW c, ClusterOK(c), c.start = t.rows[k].c.start,
         k \in todo \/ ~ OverlapsVisit(c, V), NEW closed \in BOOLEAN
  PROVE  LET u == SetRow(t, k, c, closed) IN
         /\ Good(u, old, F, V, todo, held)
         /\ u.open = t.open /\ u.pending = t.pending /\ u.fresh = t.fresh
         /\ DOMAIN u.rows = DOMAIN t.rows
<1>1. PICK u : u = SetRow(t, k, c, closed) OBVIOUS
<1>2. PICK r : r = [id |-> t.rows[k].id, closed |-> closed, c |-> c] OBVIOUS
<1>3. IsTracker(t) BY DEF Good, LedgerOK
<1>4. /\ IsTracker(u) /\ u.open = t.open /\ u.rows = With(t.rows, k, r) /\ u.removed = t.removed
      /\ u.pending = t.pending /\ u.fresh = t.fresh
  BY <1>1, <1>2, <1>3 DEF IsTracker, SetRow
<1>5. DOMAIN u.rows = DOMAIN t.rows /\ u.rows[k] = r /\ Numbered(u.rows, t.fresh - 1)
      /\ \A j \in DOMAIN t.rows \ {k} : u.rows[j] = t.rows[j]
  <2>1. k \in DOMAIN t.rows /\ DOMAIN t.rows \subseteq 1 .. (t.fresh - 1)
    BY Zenon DEF Numbered, Good, LedgerOK
  <2>2. /\ DOMAIN u.rows = DOMAIN t.rows \cup {k} /\ u.rows[k] = r /\ IsMap(u.rows)
        /\ \A j \in DOMAIN t.rows \ {k} : u.rows[j] = t.rows[j]
    <3>1. IsWith(u.rows, t.rows, k, r) BY <1>4, WithFacts
    <3>2. QED BY <3>1 DEF IsWith, Agree
  <2>3. DOMAIN u.rows = DOMAIN t.rows BY <2>1, <2>2, Zenon
  <2>4. QED BY <2>1, <2>2, <2>3, Zenon DEF Numbered
<1>6. RowOK(t.rows[k], old) BY DEF Good, LedgerOK
<1>7. RowOK(r, old)
  <2>1. r \in Row /\ r.c = c /\ r.id = t.rows[k].id
    BY <1>2, <1>6 DEF Row, RowOK, ClusterOK
  <2>2. QED BY <1>6, <2>1 DEF RowOK, ClusterOK
<1>8. LedgerOK(u, old)
  <2>1. \A j \in DOMAIN u.rows : RowOK(u.rows[j], old)
    <3>1. \A j \in DOMAIN t.rows : RowOK(t.rows[j], old) BY DEF Good, LedgerOK
    <3>2. QED BY <1>5, <1>7, <3>1, Zenon
  <2>2. QED BY <1>4, <1>5, <2>1, Zenon DEF LedgerOK, Good
<1>9. StoredKept(u, old)
  <2>1. \A j \in DOMAIN t.rows : u.rows[j].id = t.rows[j].id
    <3>1. u.rows[k].id = t.rows[k].id BY <1>2, <1>5
    <3>2. QED BY <1>5, <3>1, Zenon
  <2>2. IsKept(u, old)
    <3>1. \A id : Holds(t.rows, id) => Holds(u.rows, id) BY <1>5, <2>1, Zenon DEF Holds
    <3>2. QED BY <1>4, <3>1, Zenon DEF StoredKept, IsKept, Good
  <2>3. OneRowEach(u, old)
    <3>1. OneRowEach(t, old) BY DEF StoredKept, Good
    <3>2. QED BY <1>4, <1>5, <2>1, <3>1 DEF OneRowEach, IsOf
  <2>4. QED BY <2>2, <2>3 DEF StoredKept
<1>10. ClearRows(u, V, todo)
  <2>1. u.rows[k].c = c BY <1>2, <1>5
  <2>2. QED BY <1>5, <2>1, Zenon DEF ClearRows, Good
<1>11. OpenOK(u, held)
  BY <1>4, <1>5, Zenon DEF OpenOK, Good
<1>12. Good(u, old, F, V, todo, held)
  BY <1>4, <1>8, <1>9, <1>10, <1>11 DEF Good
<1>13. QED BY <1>1, <1>4, <1>5, <1>12


\* A larger set of numbers to number by.
LEMMA NumberedWider ==
  ASSUME NEW f, NEW a \in Nat, Numbered(f, a), NEW b \in Nat, a <= b
  PROVE  Numbered(f, b)
<1>1. 1 .. a \subseteq 1 .. b OBVIOUS
<1>2. QED BY <1>1, Zenon DEF Numbered

\* A row taken out is remembered, if it is stored; the others stay as they are.
LEMMA RemoveRowGood ==
  ASSUME NEW old, NEW t, NEW F, NEW V, NEW todo, NEW held, Good(t, old, F, V, todo, held),
         NEW k \in DOMAIN t.rows \ held, \A s \in old : s.id # 0
  PROVE  LET u == RemoveRow(t, k) IN
         /\ LedgerOK(u, old) /\ StoredKept(u, old) /\ ClearRows(u, V, todo) /\ IsDwell(u.pending, F)
         /\ u.open = t.open /\ u.pending = t.pending /\ u.fresh = t.fresh + 1
         /\ DOMAIN u.rows = DOMAIN t.rows \ {k}
         /\ \A j \in DOMAIN u.rows : u.rows[j] = t.rows[j]
         /\ t.open # k => Good(u, old, F, V, todo, held)
<1>1. PICK u : u = RemoveRow(t, k) OBVIOUS
<1>2. PICK r : r = t.rows[k] OBVIOUS
<1>3. IsTracker(t) BY DEF Good, LedgerOK
<1>4. /\ IsTracker(u) /\ u.open = t.open /\ u.rows = Without(t.rows, {k})
      /\ u.removed = IF r.id = 0 THEN t.removed ELSE With(t.removed, t.fresh, r)
      /\ u.pending = t.pending /\ u.fresh = t.fresh + 1
  BY <1>1, <1>2, <1>3 DEF IsTracker, RemoveRow
<1>5. /\ DOMAIN u.rows = DOMAIN t.rows \ {k} /\ IsMap(u.rows)
      /\ \A j \in DOMAIN t.rows \ {k} : u.rows[j] = t.rows[j]
  <2>1. IsWithout(u.rows, t.rows, {k}) BY <1>4, WithoutFacts
  <2>2. QED BY <2>1 DEF IsWithout, Agree
<1>6. /\ t.fresh \in Nat \ {0} /\ DOMAIN t.rows \subseteq 1 .. (t.fresh - 1)
      /\ IsMap(t.removed) /\ DOMAIN t.removed \subseteq 1 .. (t.fresh - 1)
      /\ \A j \in DOMAIN t.rows : RowOK(t.rows[j], old)
      /\ \A j \in DOMAIN t.removed : RowOK(t.removed[j], old)
  BY Zenon DEF Good, LedgerOK, Numbered
<1>7. PICK f : f = t.fresh /\ f \in Nat \ {0} BY <1>6
<1>8. f \notin DOMAIN t.removed /\ 1 .. (f - 1) \subseteq 1 .. f /\ f \in 1 .. f
      /\ f + 1 \in Nat \ {0} /\ (f + 1) - 1 = f
  BY <1>6, <1>7
<1>9. /\ IsMap(u.removed) /\ DOMAIN u.removed \subseteq 1 .. f
      /\ \A j \in DOMAIN u.removed : RowOK(u.removed[j], old)
      /\ \A id : Holds(t.removed, id) => Holds(u.removed, id)
      /\ r.id # 0 => Holds(u.removed, r.id)
  <2>1. CASE r.id = 0
    <3>1. u.removed = t.removed BY <1>4, <2>1
    <3>2. DOMAIN u.removed \subseteq 1 .. f BY <1>6, <1>7, <1>8, <3>1
    <3>3. QED BY <1>6, <2>1, <3>1, <3>2, Zenon
  <2>2. CASE r.id # 0
    <3>1. u.removed = With(t.removed, f, r) BY <1>4, <1>7, <2>2
    <3>2. /\ DOMAIN u.removed = DOMAIN t.removed \cup {f} /\ u.removed[f] = r /\ IsMap(u.removed)
          /\ \A j \in DOMAIN t.removed \ {f} : u.removed[j] = t.removed[j]
      <4>1. IsWith(u.removed, t.removed, f, r) BY <3>1, WithFacts
      <4>2. QED BY <4>1 DEF IsWith, Agree
    <3>3. DOMAIN u.removed \subseteq 1 .. f BY <1>6, <1>7, <1>8, <3>2
    <3>4. RowOK(r, old) BY <1>2, <1>6
    <3>5. \A j \in DOMAIN u.removed : RowOK(u.removed[j], old)
      BY <1>6, <3>2, <3>4, Zenon
    <3>6. \A id : Holds(t.removed, id) => Holds(u.removed, id)
      BY <1>8, <3>2, Zenon DEF Holds
    <3>7. Holds(u.removed, r.id) BY <3>2, Zenon DEF Holds
    <3>8. QED BY <3>2, <3>3, <3>5, <3>6, <3>7
  <2>3. QED BY <2>1, <2>2
<1>10. LedgerOK(u, old)
  <2>1. u.fresh \in Nat \ {0} /\ u.fresh - 1 = f BY <1>4, <1>7, <1>8
  <2>2. DOMAIN u.rows \subseteq 1 .. f BY <1>5, <1>6, <1>7, <1>8
  <2>3. Numbered(u.rows, u.fresh - 1) /\ Numbered(u.removed, u.fresh - 1)
    BY <1>5, <1>9, <2>1, <2>2, Zenon DEF Numbered
  <2>4. \A j \in DOMAIN u.rows : RowOK(u.rows[j], old) BY <1>5, <1>6, Zenon
  <2>5. QED BY <1>4, <1>9, <2>1, <2>3, <2>4, Zenon DEF LedgerOK
<1>11. IsKept(u, old)
  <2>1. ASSUME NEW s \in old PROVE Holds(u.rows, s.id) \/ Holds(u.removed, s.id)
    <3>1. Holds(t.rows, s.id) \/ Holds(t.removed, s.id) BY Zenon DEF Good, StoredKept, IsKept
    <3>2. CASE Holds(t.removed, s.id) BY <1>9, <3>2
    <3>3. CASE Holds(t.rows, s.id)
      <4>1. PICK j \in DOMAIN t.rows : t.rows[j].id = s.id BY <3>3, Zenon DEF Holds
      <4>2. CASE j = k BY <1>2, <1>9, <4>1, <4>2
      <4>3. CASE j # k BY <1>5, <4>1, <4>3, Zenon DEF Holds
      <4>4. QED BY <4>2, <4>3
    <3>4. QED BY <3>1, <3>2, <3>3
  <2>2. QED BY <2>1, Zenon DEF IsKept
<1>12. ClearRows(u, V, todo)
  BY <1>5, Zenon DEF ClearRows, Good
<1>13. IsDwell(u.pending, F) BY <1>4 DEF Good
<1>14. OneRowEach(u, old)
  <2>1. OneRowEach(t, old) BY DEF StoredKept, Good
  <2>2. CASE r.id = 0
    <3>1. u.removed = t.removed BY <1>4, <2>2
    <3>2. QED BY <1>5, <2>1, <3>1 DEF OneRowEach
  <2>3. CASE r.id # 0
    <3>1. u.removed = With(t.removed, f, r) BY <1>4, <1>7, <2>3
    <3>2. /\ DOMAIN u.removed = DOMAIN t.removed \cup {f} /\ u.removed[f] = r
          /\ \A j \in DOMAIN t.removed : u.removed[j] = t.removed[j]
      <4>1. IsWith(u.removed, t.removed, f, r) BY <3>1, WithFacts
      <4>2. QED BY <1>8, <4>1, Zenon DEF IsWith, Agree
    <3>3. k \in DOMAIN t.rows OBVIOUS
    <3>4. \A j \in DOMAIN u.rows : j \in DOMAIN t.rows /\ j # k BY <1>5
    <3>5. \A j, i \in DOMAIN u.removed : u.removed[j].id = u.removed[i].id => j = i
      <4>1. \A j \in DOMAIN t.removed : t.removed[j].id # r.id
        BY <1>2, <2>1, <3>3, Zenon DEF OneRowEach
      <4>2. QED BY <2>1, <3>2, <4>1, Zenon DEF OneRowEach
    <3>6. \A j \in DOMAIN u.rows : \A i \in DOMAIN u.removed : u.rows[j].id # u.removed[i].id
      <4>1. \A j \in DOMAIN u.rows : u.rows[j].id # r.id
        BY <1>2, <1>5, <2>1, <2>3, <3>3, <3>4, Zenon DEF OneRowEach
      <4>2. \A j \in DOMAIN u.rows : \A i \in DOMAIN t.removed : u.rows[j].id # u.removed[i].id
        <5>1. \A j \in DOMAIN t.rows : \A i \in DOMAIN t.removed : t.rows[j].id # t.removed[i].id
          BY <2>1, Zenon DEF OneRowEach
        <5>2. \A j \in DOMAIN u.rows : u.rows[j] = t.rows[j] /\ j \in DOMAIN t.rows BY <1>5
        <5>3. QED BY <3>2, <5>1, <5>2
      <4>3. QED BY <3>2, <4>1, <4>2, Zenon
    <3>7. \A i \in DOMAIN u.removed : u.removed[i].id # 0 /\ IsOf(u.removed[i], old)
      <4>1. IsOf(r, old) BY <1>2, <2>1, <2>3, <3>3, Zenon DEF OneRowEach
      <4>2. QED BY <2>1, <2>3, <3>2, <4>1, Zenon DEF OneRowEach
    <3>8. /\ \A j, i \in DOMAIN u.rows : u.rows[j].id = u.rows[i].id => j = i \/ u.rows[j].id = 0
          /\ \A j \in DOMAIN u.rows : u.rows[j].id = 0 \/ IsOf(u.rows[j], old)
      BY <1>5, <2>1, <3>4, Zenon DEF OneRowEach
    <3>9. QED BY <3>5, <3>6, <3>7, <3>8, Zenon DEF OneRowEach
  <2>4. QED BY <2>2, <2>3
<1>15. StoredKept(u, old) BY <1>11, <1>14 DEF StoredKept
<1>16. ASSUME t.open # k PROVE Good(u, old, F, V, todo, held)
  <2>1. OpenOK(u, held)
    BY <1>4, <1>5, <1>16, Zenon DEF OpenOK, Good
  <2>2. QED BY <1>10, <1>12, <1>13, <1>15, <2>1 DEF Good
<1>17. QED BY <1>1, <1>4, <1>5, <1>10, <1>12, <1>13, <1>15, <1>16


\* A new row, or one that comes back with its id, is the open one.
LEMMA InsertRowGood ==
  ASSUME NEW old, NEW t, NEW F, NEW V, NEW todo, NEW held, Good(t, old, F, V, todo, held),
         NEW c, ClusterOK(c), ~ OverlapsVisit(c, V), \A s \in old : s.id # 0
  PROVE  LET u == InsertRow(t, c) IN
         Good(u, old, F, V, todo, held) /\ u.pending = t.pending
<1>1. PICK u : u = InsertRow(t, c) OBVIOUS
<1>2. PICK again : again = StartingAt(t.removed, c) OBVIOUS
<1>3. PICK first : first = Min(again) OBVIOUS
<1>4. PICK r : r = [id |-> IF again = {} THEN 0 ELSE t.removed[first].id, closed |-> FALSE, c |-> c]
  OBVIOUS
<1>5. IsTracker(t) BY DEF Good, LedgerOK
<1>6. /\ IsTracker(u) /\ u.open = t.fresh /\ u.rows = With(t.rows, t.fresh, r)
      /\ u.removed = IF again = {} THEN t.removed ELSE Without(t.removed, {first})
      /\ u.pending = t.pending /\ u.fresh = t.fresh + 1
  BY <1>1, <1>2, <1>3, <1>4, <1>5 DEF IsTracker, InsertRow
<1>7. PICK f : f = t.fresh OBVIOUS
<1>8. /\ f \in Nat \ {0} /\ DOMAIN t.rows \subseteq 1 .. (f - 1)
      /\ IsMap(t.removed) /\ DOMAIN t.removed \subseteq 1 .. (f - 1)
      /\ \A j \in DOMAIN t.rows : RowOK(t.rows[j], old)
      /\ \A j \in DOMAIN t.removed : RowOK(t.removed[j], old)
  BY <1>7, Zenon DEF Good, LedgerOK, Numbered
<1>9. /\ f \notin DOMAIN t.rows /\ 1 .. (f - 1) \subseteq 1 .. f /\ f \in 1 .. f
      /\ f + 1 \in Nat \ {0} /\ (f + 1) - 1 = f /\ f # 0
  BY <1>8
<1>10. again # {} => first \in again /\ again \subseteq DOMAIN t.removed
  <2>1. again \subseteq DOMAIN t.removed BY <1>2 DEF StartingAt
  <2>2. again \in SUBSET Nat BY <1>8, <2>1
  <2>3. QED BY <1>3, <2>1, <2>2, MinOfNaturals
<1>11. again # {} => RowOK(t.removed[first], old) /\ t.removed[first].c.start = c.start
  BY <1>2, <1>8, <1>10 DEF StartingAt
<1>12. RowOK(r, old)
  <2>1. CASE again = {}
    <3>1. r = [id |-> 0, closed |-> FALSE, c |-> c] BY <1>4, <2>1
    <3>2. r \in Row /\ r.c = c /\ r.id = 0 BY <3>1 DEF Row, ClusterOK
    <3>3. \A s \in old : s.id # r.id BY <3>2
    <3>4. QED BY <3>2, <3>3, Zenon DEF RowOK, ClusterOK
  <2>2. CASE again # {}
    <3>1. r = [id |-> t.removed[first].id, closed |-> FALSE, c |-> c] BY <1>4, <2>2
    <3>2. t.removed[first] \in Row BY <1>11, <2>2 DEF RowOK
    <3>3. r \in Row /\ r.c = c /\ r.id = t.removed[first].id BY <3>1, <3>2 DEF Row, ClusterOK
    <3>4. \A s \in old : s.id = r.id => s.c.start = r.c.start
      BY <1>11, <2>2, <3>3, Zenon DEF RowOK
    <3>5. QED BY <3>3, <3>4, Zenon DEF RowOK, ClusterOK
  <2>3. QED BY <2>1, <2>2
<1>13. /\ DOMAIN u.rows = DOMAIN t.rows \cup {f} /\ u.rows[f] = r /\ IsMap(u.rows)
       /\ \A j \in DOMAIN t.rows : j # f /\ u.rows[j] = t.rows[j]
  <2>1. IsWith(u.rows, t.rows, f, r) BY <1>6, <1>7, WithFacts
  <2>2. QED BY <1>9, <2>1 DEF IsWith, Agree
<1>14. /\ IsMap(u.removed) /\ DOMAIN u.removed \subseteq DOMAIN t.removed
       /\ \A j \in DOMAIN u.removed : u.removed[j] = t.removed[j]
       /\ \A j \in DOMAIN t.removed :
            j \in DOMAIN u.removed \/ (again # {} /\ j = first)
  <2>1. CASE again = {}
    <3>1. u.removed = t.removed BY <1>6, <2>1
    <3>2. QED BY <1>8, <3>1, Zenon
  <2>2. CASE again # {}
    <3>1. IsWithout(u.removed, t.removed, {first}) BY <1>6, <2>2, WithoutFacts
    <3>2. QED BY <2>2, <3>1 DEF IsWithout, Agree
  <2>3. QED BY <2>1, <2>2
<1>15. LedgerOK(u, old)
  <2>1. u.fresh \in Nat \ {0} /\ u.fresh - 1 = f BY <1>6, <1>7, <1>9
  <2>2. DOMAIN u.rows \subseteq 1 .. f BY <1>8, <1>9, <1>13
  <2>3. DOMAIN u.removed \subseteq 1 .. f BY <1>8, <1>9, <1>14
  <2>4. Numbered(u.rows, u.fresh - 1) /\ Numbered(u.removed, u.fresh - 1)
    BY <1>13, <1>14, <2>1, <2>2, <2>3, Zenon DEF Numbered
  <2>5. \A j \in DOMAIN u.rows : RowOK(u.rows[j], old) BY <1>8, <1>12, <1>13, Zenon
  <2>6. \A j \in DOMAIN u.removed : RowOK(u.removed[j], old) BY <1>8, <1>14, Zenon
  <2>7. QED BY <1>6, <2>1, <2>4, <2>5, <2>6, Zenon DEF LedgerOK
<1>16. IsKept(u, old)
  <2>1. ASSUME NEW s \in old PROVE Holds(u.rows, s.id) \/ Holds(u.removed, s.id)
    <3>1. Holds(t.rows, s.id) \/ Holds(t.removed, s.id) BY Zenon DEF Good, StoredKept, IsKept
    <3>2. CASE Holds(t.rows, s.id)
      <4>1. PICK j \in DOMAIN t.rows : t.rows[j].id = s.id BY <3>2, Zenon DEF Holds
      <4>2. QED BY <1>13, <4>1, Zenon DEF Holds
    <3>3. CASE Holds(t.removed, s.id)
      <4>1. PICK j \in DOMAIN t.removed : t.removed[j].id = s.id BY <3>3, Zenon DEF Holds
      <4>2. CASE j \in DOMAIN u.removed BY <1>14, <4>1, <4>2, Zenon DEF Holds
      <4>3. CASE again # {} /\ j = first
        <5>1. u.rows[f].id = s.id BY <1>4, <1>13, <4>1, <4>3
        <5>2. QED BY <1>13, <5>1, Zenon DEF Holds
      <4>4. QED BY <1>14, <4>2, <4>3
    <3>4. QED BY <3>1, <3>2, <3>3
  <2>2. QED BY <2>1, Zenon DEF IsKept
<1>17. ClearRows(u, V, todo)
  <2>1. u.rows[f].c = c BY <1>4, <1>13
  <2>2. QED BY <1>13, <2>1, Zenon DEF ClearRows, Good
<1>18. OpenOK(u, held)
  <2>1. \A k \in held : k \in DOMAIN t.rows /\ t.rows[k].closed = FALSE BY Zenon DEF Good, OpenOK
  <2>2. f \notin held BY <1>9, <2>1
  <2>3. QED BY <1>6, <1>7, <1>13, <2>1, <2>2, Zenon DEF OpenOK
<1>19. OneRowEach(u, old)
  <2>1. OneRowEach(t, old) BY DEF StoredKept, Good
  <2>2. CASE again = {}
    <3>1. u.removed = t.removed BY <1>6, <2>2
    <3>2. r = [id |-> 0, closed |-> FALSE, c |-> c] BY <1>4, <2>2
    <3>3. u.rows[f].id = 0 BY <1>13, <3>2
    <3>4. \A k \in DOMAIN t.removed : t.removed[k].id # 0 BY <2>1, Zenon DEF OneRowEach
    <3>5. \A j, k \in DOMAIN u.rows : u.rows[j].id = u.rows[k].id => j = k \/ u.rows[j].id = 0
      BY <1>13, <2>1, <3>3 DEF OneRowEach
    <3>6. \A j \in DOMAIN u.rows : u.rows[j].id = 0 \/ IsOf(u.rows[j], old)
      BY <1>13, <2>1, <3>3, Zenon DEF OneRowEach
    <3>7. \A j \in DOMAIN u.rows : \A k \in DOMAIN t.removed : u.rows[j].id # t.removed[k].id
      BY <1>13, <2>1, <3>3, <3>4 DEF OneRowEach
    <3>8. /\ \A j, k \in DOMAIN u.removed : u.removed[j].id = u.removed[k].id => j = k
          /\ \A k \in DOMAIN u.removed : u.removed[k].id # 0 /\ IsOf(u.removed[k], old)
      <4>1. /\ \A j, k \in DOMAIN t.removed : t.removed[j].id = t.removed[k].id => j = k
            /\ \A k \in DOMAIN t.removed : t.removed[k].id # 0 /\ IsOf(t.removed[k], old)
        BY <2>1, Zenon DEF OneRowEach
      <4>2. QED BY <3>1, <4>1, Zenon
    <3>9. \A j \in DOMAIN u.rows : \A k \in DOMAIN u.removed : u.rows[j].id # u.removed[k].id
      BY <3>1, <3>7, Zenon
    <3>10. QED BY <3>5, <3>6, <3>8, <3>9, Zenon DEF OneRowEach
  <2>3. CASE again # {}
    <3>1. r = [id |-> t.removed[first].id, closed |-> FALSE, c |-> c] BY <1>4, <2>3
    <3>2. u.rows[f].id = t.removed[first].id BY <1>13, <3>1
    <3>3. first \in DOMAIN t.removed BY <1>10, <2>3
    <3>4. first \notin DOMAIN u.removed
      <4>1. IsWithout(u.removed, t.removed, {first}) BY <1>6, <2>3, WithoutFacts
      <4>2. QED BY <4>1 DEF IsWithout
    <3>5. \A j, k \in DOMAIN u.rows : u.rows[j].id = u.rows[k].id => j = k \/ u.rows[j].id = 0
      <4>1. \A j \in DOMAIN t.rows : u.rows[j].id # u.rows[f].id
        <5>1. \A j \in DOMAIN t.rows : t.rows[j].id # t.removed[first].id
          BY <2>1, <3>3, Zenon DEF OneRowEach
        <5>2. \A j \in DOMAIN t.rows : u.rows[j] = t.rows[j] BY <1>13, Zenon
        <5>3. QED BY <3>2, <5>1, <5>2, Zenon
      <4>2. QED BY <1>13, <2>1, <4>1, Zenon DEF OneRowEach
    <3>6. \A j \in DOMAIN u.rows : \A k \in DOMAIN u.removed : u.rows[j].id # u.removed[k].id
      <4>1. \A k \in DOMAIN u.removed : u.removed[k].id # t.removed[first].id
        BY <1>14, <2>1, <3>3, <3>4, Zenon DEF OneRowEach
      <4>2. \A j \in DOMAIN t.rows : \A k \in DOMAIN u.removed : u.rows[j].id # u.removed[k].id
        <5>1. \A k \in DOMAIN u.removed : k \in DOMAIN t.removed /\ u.removed[k] = t.removed[k]
          BY <1>14
        <5>2. \A j \in DOMAIN t.rows : \A k \in DOMAIN t.removed : t.rows[j].id # t.removed[k].id
          BY <2>1, Zenon DEF OneRowEach
        <5>3. QED BY <1>13, <5>1, <5>2
      <4>3. QED BY <1>13, <3>2, <4>1, <4>2, Zenon
    <3>7. \A j \in DOMAIN u.rows : u.rows[j].id = 0 \/ IsOf(u.rows[j], old)
      <4>1. IsOf(t.removed[first], old) BY <2>1, <3>3, Zenon DEF OneRowEach
      <4>2. IsOf(u.rows[f], old) BY <3>2, <4>1, Zenon DEF IsOf
      <4>3. QED BY <1>13, <2>1, <4>2, Zenon DEF OneRowEach
    <3>8. /\ \A j, k \in DOMAIN u.removed : u.removed[j].id = u.removed[k].id => j = k
          /\ \A k \in DOMAIN u.removed : u.removed[k].id # 0 /\ IsOf(u.removed[k], old)
      BY <1>14, <2>1, Zenon DEF OneRowEach
    <3>9. QED BY <3>5, <3>6, <3>7, <3>8, Zenon DEF OneRowEach
  <2>4. QED BY <2>2, <2>3
<1>20. StoredKept(u, old) BY <1>16, <1>19 DEF StoredKept
<1>21. Good(u, old, F, V, todo, held)
  BY <1>6, <1>15, <1>17, <1>18, <1>20 DEF Good
<1>22. QED BY <1>1, <1>6, <1>21

----------------------------------------------------------------------------
(* What begins a stay: the rows it absorbs, the one it keeps.                *)

\* The rows of a ledger are finitely many.
LEMMA RowsAreFinite ==
  ASSUME NEW old, NEW t, LedgerOK(t, old)
  PROVE  /\ IsFiniteSet(DOMAIN t.rows) /\ DOMAIN t.rows \in SUBSET Nat
         /\ Cardinality(DOMAIN t.rows) \in Nat
<1>1. PICK top \in Nat : DOMAIN t.rows \subseteq 1 .. top
  <2>1. t.fresh - 1 \in Nat BY DEF LedgerOK
  <2>2. DOMAIN t.rows \subseteq 1 .. (t.fresh - 1) BY DEF LedgerOK, Numbered
  <2>3. QED BY <2>1, <2>2
<1>2. IsFiniteSet(1 .. top)
  <2>1. 1 \in Int /\ top \in Int OBVIOUS
  <2>2. QED BY <2>1, FS_Interval
<1>3. IsFiniteSet(DOMAIN t.rows) BY <1>1, <1>2, FS_Subset
<1>4. QED BY <1>1, <1>3, FS_CardinalityType

Distinct(q) == \A i, j \in DOMAIN q : i # j => q[i] # q[j]

\* What has been absorbed: closed rows, each once, and nothing a visit claims.
IsAbsorbed(t, all, V, held) ==
  /\ all = [c |-> all.c, taken |-> all.taken]
  /\ ClusterOK(all.c) /\ ~ OverlapsVisit(all.c, V)
  /\ all.taken \in Seq(DOMAIN t.rows \ held) /\ Distinct(all.taken)

\* The row to absorb is one of those that can be, and none of them ends later.
LEMMA EndingLatestIsOne ==
  ASSUME NEW old, NEW t, LedgerOK(t, old), NEW M \in SUBSET DOMAIN t.rows, M # {}
  PROVE  LET k == EndingLatest(t, M) IN k \in M /\ \A j \in M : t.rows[j].c.end <= t.rows[k].c.end
<1>1. IsFiniteSet(M) /\ M \in SUBSET Nat
  BY RowsAreFinite, FS_Subset
<1>2. \A k \in M : t.rows[k].c.end \in Nat
  <2>1. \A k \in M : RowOK(t.rows[k], old) BY DEF LedgerOK
  <2>2. QED BY <2>1 DEF RowOK, Row, Cluster
<1>3. PICK R : R = {p \in M \X M : EndsBefore(t, p[2], p[1])}
  OBVIOUS
<1>4. \A x, y \in M : <<x, y>> \in R <=> EndsBefore(t, y, x)
  BY <1>3
<1>5. /\ \A x \in M : ~ EndsBefore(t, x, x)
      /\ \A x, y, z \in M : EndsBefore(t, y, x) /\ EndsBefore(t, z, y) => EndsBefore(t, z, x)
  BY <1>1, <1>2 DEF EndsBefore
<1>6. /\ \A x \in M : <<x, x>> \notin R
      /\ \A x, y, z \in M : <<x, y>> \in R /\ <<y, z>> \in R => <<x, z>> \in R
  BY <1>4, <1>5, Zenon
<1>7. PICK k \in M : \A y \in M : <<y, k>> \notin R
  <2> DEFINE First(A, Q) == \E x \in A : \A y \in A : <<y, x>> \notin Q
  <2>1. First(M, R) BY <1>1, <1>6, HasFirst
  <2>2. QED BY <2>1
<1>8. \E x \in M : \A y \in M : ~ EndsBefore(t, x, y)
  BY <1>4, <1>7, Zenon
<1>9. PICK last : last = EndingLatest(t, M) OBVIOUS
<1>10. last \in M /\ \A j \in M : ~ EndsBefore(t, last, j)
  BY <1>8, <1>9, Zenon DEF EndingLatest
<1>11. \A j \in M : t.rows[j].c.end <= t.rows[last].c.end
  BY <1>2, <1>10 DEF EndsBefore
<1>12. QED BY <1>9, <1>10, <1>11

\* A round.
LEMMA AbsorbOK ==
  ASSUME NEW old, NEW t, NEW held, LedgerOK(t, old), OpenOK(t, held), NEW V, NEW all,
         IsAbsorbed(t, all, V, held)
  PROVE  IsAbsorbed(t, Absorb(t, all, V), V, held)
<1>1. PICK M : M = Mergeable(t, all.c, ToSet(all.taken), V)
  OBVIOUS
<1>2. CASE M = {}
  <2>1. Absorb(t, all, V) = all BY <1>1, <1>2 DEF Absorb
  <2>2. QED BY <2>1
<1>3. CASE M # {}
  <2>1. PICK k : k = EndingLatest(t, M) OBVIOUS
  <2>2. k \in M /\ M \in SUBSET DOMAIN t.rows
    <3>1. M \in SUBSET DOMAIN t.rows BY <1>1 DEF Mergeable
    <3>2. QED BY <1>3, <2>1, <3>1, EndingLatestIsOne
  <2>3. PICK c : c = MergeClusters(t.rows[k].c, all.c) OBVIOUS
  <2>4. /\ k \in DOMAIN t.rows /\ k \notin ToSet(all.taken) /\ t.rows[k].closed
        /\ ~ OverlapsVisit(c, V)
    BY <1>1, <2>2, <2>3, Zenon DEF Mergeable
  <2>5. k \in DOMAIN t.rows \ held
    <3>1. k \in held => t.rows[k].closed = FALSE BY Zenon DEF OpenOK
    <3>2. QED BY <2>4, <3>1, Zenon
  <2>6. ClusterOK(c)
    <3>1. RowOK(t.rows[k], old) BY <2>4 DEF LedgerOK
    <3>2. ClusterOK(t.rows[k].c) BY <3>1 DEF RowOK, Row, ClusterOK
    <3>3. QED BY <2>3, <3>2, MergeClustersOK DEF IsAbsorbed
  <2>7. PICK q : q = Append(all.taken, k) OBVIOUS
  <2>8. q \in Seq(DOMAIN t.rows \ held) /\ Distinct(q)
    <3>1. PICK o : o = all.taken OBVIOUS
    <3>2. o \in Seq(DOMAIN t.rows \ held) /\ Distinct(o) BY <3>1 DEF IsAbsorbed
    <3>3. \A i \in DOMAIN o : o[i] # k BY <2>4, <3>1 DEF ToSet
    <3>4. /\ q \in Seq(DOMAIN t.rows \ held) /\ Len(o) \in Nat /\ DOMAIN o = 1 .. Len(o)
          /\ DOMAIN q = 1 .. (Len(o) + 1) /\ q[Len(o) + 1] = k
          /\ \A i \in 1 .. Len(o) : q[i] = o[i]
      BY <2>5, <2>7, <3>1, <3>2
    <3>5. \A i \in DOMAIN q : i \in DOMAIN o \/ i = Len(o) + 1 BY <3>4
    <3>6. Distinct(q)
      BY <3>2, <3>3, <3>4, <3>5, Zenon DEF Distinct
    <3>7. QED BY <3>4, <3>6
  <2>9. Absorb(t, all, V) = [c |-> c, taken |-> q]
    BY <1>1, <1>3, <2>1, <2>3, <2>7 DEF Absorb
  <2>10. QED BY <2>4, <2>6, <2>8, <2>9 DEF IsAbsorbed
<1>4. QED BY <1>2, <1>3

\* What begin absorbs: rows of the ledger, each once, and a cluster clear of the visits.
LEMMA AbsorbedOK ==
  ASSUME NEW old, NEW t, NEW held, LedgerOK(t, old), OpenOK(t, held), NEW V, NEW c, ClusterOK(c),
         ~ OverlapsVisit(c, V)
  PROVE  IsAbsorbed(t, Absorbed(t, c, V), V, held)
<1>1. PICK top : top = Cardinality(DOMAIN t.rows) OBVIOUS
<1>2. PICK g : g = Absorbing(t, c, V) OBVIOUS
<1>3. top \in Nat /\ IsFiniteSet(DOMAIN t.rows) BY <1>1, RowsAreFinite
<1>4. g[0] = [c |-> c, taken |-> <<>>] /\ \A n \in 1 .. top : g[n] = Absorb(t, g[n - 1], V)
  <2>1. AreRounds(g, t, c, V, top) BY <1>1, <1>2, <1>3, AbsorbingRounds
  <2>2. QED BY <2>1 DEF AreRounds
<1> DEFINE Bad == {n \in 0 .. top : ~ IsAbsorbed(t, g[n], V, held)}
<1>5. IsAbsorbed(t, g[0], V, held)
  <2>1. Distinct(<<>>) BY DEF Distinct
  <2>2. <<>> \in Seq(DOMAIN t.rows \ held) OBVIOUS
  <2>3. QED BY <1>4, <2>1, <2>2 DEF IsAbsorbed
<1>6. Bad = {}
  <2>1. SUFFICES ASSUME Bad # {} PROVE FALSE OBVIOUS
  <2>2. PICK m \in Bad : \A k \in Bad : m <= k
    <3>1. Bad \in SUBSET Nat BY <1>3
    <3> HIDE DEF Bad
    <3>2. QED BY <2>1, <3>1, HasLeast
  <2>3. m \in 0 .. top /\ ~ IsAbsorbed(t, g[m], V, held) OBVIOUS
  <2>4. m # 0 BY <1>5, <2>3
  <2>5. m - 1 \in 0 .. top /\ m \in 1 .. top /\ ~ (m <= m - 1) BY <1>3, <2>3, <2>4
  <2>6. m - 1 \notin Bad
    <3> HIDE DEF Bad
    <3>1. QED BY <2>2, <2>5
  <2>7. IsAbsorbed(t, g[m - 1], V, held) BY <2>5, <2>6
  <2>8. QED BY <1>4, <2>3, <2>5, <2>7, AbsorbOK
<1>7. top \in 0 .. top BY <1>3
<1>8. IsAbsorbed(t, g[top], V, held) BY <1>6, <1>7
<1>9. QED BY <1>1, <1>2, <1>8 DEF Absorbed

IdsPositive(old) == \A s \in old : s.id # 0

\* NoRow numbers no row.
LEMMA NoRowIsNoKey ==
  ASSUME NEW old, NEW t, LedgerOK(t, old)
  PROVE  NoRow \notin DOMAIN t.rows
<1>1. DOMAIN t.rows \subseteq 1 .. (t.fresh - 1) BY DEF LedgerOK, Numbered
<1>2. QED BY <1>1 DEF NoRow

\* The row begin keeps is the first absorbed that starts when the whole does, if there is one.
Starters(t, all) == {i \in DOMAIN all.taken : t.rows[all.taken[i]].c.start = all.c.start}
LEMMA KeeperIs ==
  ASSUME NEW t, NEW all
  PROVE  /\ Starters(t, all) = {} => Keeper(t, all) = NoRow
         /\ Starters(t, all) # {} => Keeper(t, all) = all.taken[Min(Starters(t, all))]
BY Zenon DEF Keeper, Starters

\* The row begin keeps, if any, is one of the ledger's with the start of the whole.
LEMMA KeeperOK ==
  ASSUME NEW t, NEW all, NEW V, NEW held, IsAbsorbed(t, all, V, held)
  PROVE  LET k == Keeper(t, all) IN
         k = NoRow \/ (k \in DOMAIN t.rows \ held /\ t.rows[k].c.start = all.c.start)
<1>1. PICK began : began = Starters(t, all) OBVIOUS
<1>2. PICK k : k = Keeper(t, all) OBVIOUS
<1>3. CASE began = {}
  <2>1. k = NoRow BY <1>1, <1>2, <1>3, KeeperIs, Zenon
  <2>2. QED BY <1>2, <2>1
<1>4. CASE began # {}
  <2>1. PICK i : i = Min(began) OBVIOUS
  <2>2. PICK q : q = all.taken OBVIOUS
  <2>3. q \in Seq(DOMAIN t.rows \ held) BY <2>2 DEF IsAbsorbed
  <2>4. began \in SUBSET Nat
    <3>1. DOMAIN q = 1 .. Len(q) /\ Len(q) \in Nat BY <2>3
    <3>2. QED BY <1>1, <2>2, <3>1 DEF Starters
  <2>5. i \in began BY <1>4, <2>1, <2>4, MinOfNaturals
  <2>6. i \in DOMAIN q /\ t.rows[q[i]].c.start = all.c.start BY <1>1, <2>2, <2>5 DEF Starters
  <2>7. q[i] \in DOMAIN t.rows \ held
    <3>1. DOMAIN q = 1 .. Len(q) BY <2>3
    <3>2. i \in 1 .. Len(q) BY <2>6, <3>1, Zenon
    <3>3. QED BY <2>3, <3>2, ElementOfSeq
  <2>8. k = q[i]
    <3>1. Keeper(t, all) = all.taken[Min(began)] BY <1>1, <1>4, KeeperIs
    <3>2. QED BY <1>2, <2>1, <2>2, <3>1, Zenon
  <2>9. QED BY <1>2, <2>6, <2>7, <2>8
<1>5. QED BY <1>3, <1>4

\* The rows that are left when the first n of those taken are removed, the keeper left alone.
IsLeft(k, n, t, taken, keeper) ==
  k \in DOMAIN t.rows /\ \A i \in DOMAIN taken : i <= n /\ taken[i] = k => k = keeper

\* The tracker when the first n of the others have been removed.
IsRemoving(u, old, n, t, taken, keeper, F, V, todo, held) ==
  /\ Good(u, old, F, V, todo, held) /\ u.open = NoRow /\ u.pending = t.pending
  /\ keeper # NoRow => keeper \in DOMAIN u.rows /\ u.rows[keeper] = t.rows[keeper]
  /\ \A i \in DOMAIN taken : i <= n \/ taken[i] \in DOMAIN u.rows \ held
  /\ \A k : k \in DOMAIN u.rows <=> IsLeft(k, n, t, taken, keeper)
  /\ \A k \in DOMAIN u.rows : u.rows[k] = t.rows[k]

\* What begin removes.
LEMMA RemovingOK ==
  ASSUME NEW old, NEW t, NEW F, NEW V, NEW todo, NEW held, Good(t, old, F, V, todo, held), t.open = NoRow,
         NEW taken \in Seq(DOMAIN t.rows \ held), Distinct(taken),
         NEW keeper, keeper = NoRow \/ keeper \in DOMAIN t.rows \ held, IdsPositive(old)
  PROVE  IsRemoving(RemovingOthers(t, taken, keeper)[Len(taken)], old, Len(taken),
                    t, taken, keeper, F, V, todo, held)
<1>1. PICK top : top = Len(taken) OBVIOUS
<1>2. PICK g : g = RemovingOthers(t, taken, keeper) OBVIOUS
<1>3. top \in Nat /\ DOMAIN taken = 1 .. top BY <1>1
<1>4. /\ g[0] = t
      /\ \A n \in 1 .. top :
           g[n] = (IF taken[n] = keeper THEN g[n - 1] ELSE RemoveRow(g[n - 1], taken[n]))
  BY <1>1, <1>2, <1>3, RemovingRounds
<1> DEFINE OK(n) == IsRemoving(g[n], old, n, t, taken, keeper, F, V, todo, held)
           Bad == {n \in 0 .. top : ~ OK(n)}
<1>5. OK(0)
  <2>1. \A i \in DOMAIN taken : taken[i] \in DOMAIN t.rows \ held
    BY <1>1, <1>3, ElementOfSeq
  <2>2. \A k : k \in DOMAIN t.rows <=> IsLeft(k, 0, t, taken, keeper)
    <3>1. \A i \in DOMAIN taken : ~ (i <= 0) BY <1>3
    <3>2. QED BY <3>1, Zenon DEF IsLeft
  <2>3. QED BY <1>4, <2>1, <2>2, Zenon DEF IsRemoving
<1>6. Bad = {}
  <2>1. SUFFICES ASSUME Bad # {} PROVE FALSE OBVIOUS
  <2>2. PICK m \in Bad : \A k \in Bad : m <= k
    <3>1. Bad \in SUBSET Nat BY <1>3
    <3> HIDE DEF Bad
    <3>2. QED BY <2>1, <3>1, HasLeast
  <2>3. m \in 0 .. top /\ ~ OK(m) OBVIOUS
  <2>4. m # 0
    <3> HIDE DEF OK
    <3>1. QED BY <1>5, <2>3
  <2>5. /\ m - 1 \in 0 .. top /\ m \in 1 .. top /\ ~ (m <= m - 1) /\ m \in DOMAIN taken
        /\ \A i \in DOMAIN taken : i <= m <=> i <= m - 1 \/ i = m
    BY <1>3, <2>3, <2>4
  <2>6. m - 1 \notin Bad
    <3> HIDE DEF Bad
    <3>1. QED BY <2>2, <2>5
  <2>7. OK(m - 1)
    <3> HIDE DEF OK
    <3>1. QED BY <2>5, <2>6
  <2>8. PICK w : w = g[m - 1] OBVIOUS
  <2>9. IsRemoving(w, old, m - 1, t, taken, keeper, F, V, todo, held) BY <2>7, <2>8
  <2>10. PICK k : k = taken[m] OBVIOUS
  <2>11. k \in DOMAIN w.rows \ held BY <2>5, <2>9, <2>10 DEF IsRemoving
  <2>12. \A i \in DOMAIN taken : i = m \/ taken[i] # k
    BY <2>5, <2>10, Zenon DEF Distinct
  <2>13. CASE k = keeper
    <3>1. g[m] = w BY <1>4, <2>5, <2>8, <2>10, <2>13
    <3>2. IsRemoving(w, old, m, t, taken, keeper, F, V, todo, held)
      <4>1. \A j : j \in DOMAIN w.rows <=> IsLeft(j, m, t, taken, keeper)
        <5>1. \A j : IsLeft(j, m - 1, t, taken, keeper) <=> IsLeft(j, m, t, taken, keeper)
          BY <2>5, <2>10, <2>13, Zenon DEF IsLeft
        <5>2. QED BY <2>9, <5>1, Zenon DEF IsRemoving
      <4>2. QED BY <2>5, <2>9, <2>10, <2>11, <2>13, <4>1, Zenon DEF IsRemoving
    <3>3. QED BY <2>3, <3>1, <3>2
  <2>14. CASE k # keeper
    <3>1. PICK u : u = RemoveRow(w, k) OBVIOUS
    <3>2. g[m] = u BY <1>4, <2>5, <2>8, <2>10, <2>14, <3>1
    <3>3. Good(w, old, F, V, todo, held) /\ w.open = NoRow /\ w.pending = t.pending
      BY <2>9 DEF IsRemoving
    <3>4. w.open # k
      <4>1. NoRow \notin DOMAIN w.rows BY <3>3, NoRowIsNoKey DEF Good
      <4>2. QED BY <2>11, <3>3, <4>1
    <3>5. /\ u.open = w.open /\ u.pending = w.pending
          /\ DOMAIN u.rows = DOMAIN w.rows \ {k}
          /\ \A j \in DOMAIN u.rows : u.rows[j] = w.rows[j]
          /\ w.open # k => Good(u, old, F, V, todo, held)
      BY <2>11, <3>1, <3>3, RemoveRowGood DEF IdsPositive
    <3>6. IsRemoving(u, old, m, t, taken, keeper, F, V, todo, held)
      <4>1. keeper # NoRow => keeper \in DOMAIN u.rows /\ u.rows[keeper] = t.rows[keeper]
        BY <2>9, <2>14, <3>5, Zenon DEF IsRemoving
      <4>2. \A i \in DOMAIN taken : i <= m \/ taken[i] \in DOMAIN u.rows \ held
        BY <2>5, <2>9, <2>12, <3>5, Zenon DEF IsRemoving
      <4>3. \A j : j \in DOMAIN u.rows <=> IsLeft(j, m, t, taken, keeper)
        <5>1. \A j : j \in DOMAIN w.rows <=> IsLeft(j, m - 1, t, taken, keeper)
          BY <2>9, Zenon DEF IsRemoving
        <5>2. \A j : IsLeft(j, m, t, taken, keeper)
                       <=> IsLeft(j, m - 1, t, taken, keeper) /\ j # k
          BY <2>5, <2>10, <2>14, Zenon DEF IsLeft
        <5>3. QED BY <3>5, <5>1, <5>2
      <4>4. \A j \in DOMAIN u.rows : u.rows[j] = t.rows[j]
        <5>1. \A j \in DOMAIN w.rows : w.rows[j] = t.rows[j] BY <2>9, Zenon DEF IsRemoving
        <5>2. QED BY <3>5, <5>1
      <4>5. QED BY <3>3, <3>4, <3>5, <4>1, <4>2, <4>3, <4>4, Zenon DEF IsRemoving
    <3>7. QED BY <2>3, <3>2, <3>6
  <2>15. QED BY <2>13, <2>14
<1>7. OK(top)
  <2>1. top \in 0 .. top BY <1>3
  <2> HIDE DEF OK
  <2>2. QED BY <1>6, <2>1
<1>8. QED BY <1>1, <1>2, <1>7

\* StayTracker.begin.
LEMMA BeginGood ==
  ASSUME NEW old, NEW t, NEW F, NEW V, NEW todo, NEW held, Good(t, old, F, V, todo, held), t.open = NoRow,
         NEW c, ClusterOK(c), ~ OverlapsVisit(c, V), IdsPositive(old)
  PROVE  Good(Begin(t, c, V), old, F, V, todo, held) /\ Begin(t, c, V).pending = NoDwell
<1>1. PICK all : all = Absorbed(t, c, V) OBVIOUS
<1>2. IsAbsorbed(t, all, V, held) BY <1>1, AbsorbedOK DEF Good
<1>3. PICK keeper : keeper = Keeper(t, all) OBVIOUS
<1>4. keeper = NoRow \/ (keeper \in DOMAIN t.rows \ held /\ t.rows[keeper].c.start = all.c.start)
  BY <1>2, <1>3, KeeperOK
<1>5. PICK u : u = [t EXCEPT !.pending = NoDwell] OBVIOUS
<1>6. /\ Good(u, old, F, V, todo, held) /\ u.rows = t.rows /\ u.open = NoRow
      /\ u.pending = NoDwell
  BY <1>5, SetPendingGood, NoDwellIsDwell
<1>7. PICK taken : taken = all.taken OBVIOUS
<1>8. taken \in Seq(DOMAIN u.rows \ held) /\ Distinct(taken) BY <1>2, <1>6, <1>7 DEF IsAbsorbed
<1>9. PICK left : left = RemovingOthers(u, taken, keeper)[Len(taken)] OBVIOUS
<1>10. IsRemoving(left, old, Len(taken), u, taken, keeper, F, V, todo, held)
  BY <1>4, <1>6, <1>8, <1>9, RemovingOK
<1>11. /\ Good(left, old, F, V, todo, held) /\ left.pending = NoDwell
       /\ keeper # NoRow => keeper \in DOMAIN left.rows \ held /\ left.rows[keeper] = t.rows[keeper]
  BY <1>4, <1>6, <1>10, Zenon DEF IsRemoving
<1>12. ClusterOK(all.c) /\ ~ OverlapsVisit(all.c, V) BY <1>2 DEF IsAbsorbed
<1>13. Begin(t, c, V) = IF keeper = NoRow THEN InsertRow(left, all.c)
                        ELSE [SetRow(left, keeper, all.c, FALSE) EXCEPT !.open = keeper]
  BY <1>1, <1>3, <1>5, <1>7, <1>9 DEF Begin, Join
<1>14. CASE keeper = NoRow
  <2>1. /\ Good(InsertRow(left, all.c), old, F, V, todo, held)
        /\ InsertRow(left, all.c).pending = NoDwell
    BY <1>11, <1>12, InsertRowGood DEF IdsPositive
  <2>2. QED BY <1>13, <1>14, <2>1
<1>15. CASE keeper # NoRow
  <2>1. PICK v : v = SetRow(left, keeper, all.c, FALSE) OBVIOUS
  <2>2. keeper \in DOMAIN left.rows \ held /\ all.c.start = left.rows[keeper].c.start
    BY <1>4, <1>11, <1>15
  <2>3. /\ Good(v, old, F, V, todo, held) /\ DOMAIN v.rows = DOMAIN left.rows
        /\ v.pending = NoDwell
    <3>1. PICK closed \in BOOLEAN : closed = FALSE OBVIOUS
    <3>2. v = SetRow(left, keeper, all.c, closed) BY <2>1, <3>1
    <3>3. QED BY <1>11, <1>12, <2>2, <3>2, SetRowGood
  <2>4. /\ Good([v EXCEPT !.open = keeper], old, F, V, todo, held)
        /\ [v EXCEPT !.open = keeper].pending = NoDwell
    BY <2>2, <2>3, SetOpenGood
  <2>5. QED BY <1>13, <1>15, <2>1, <2>4
<1>16. QED BY <1>14, <1>15

----------------------------------------------------------------------------
(* A fix is placed, fed, and the run is finished.                            *)

\* A fix on its own keeps the ledger good.
LEMMA AloneGood ==
  ASSUME NEW old, NEW t, NEW F, NEW V, NEW todo, NEW held, Good(t, old, F, V, todo, held), t.open = NoRow,
         NEW s \in F, F \subseteq Fix, IdsPositive(old)
  PROVE  Good(Alone(t, s, V), old, F, V, todo, held)
<1>1. PICK c : c = ClusterOf(s) OBVIOUS
<1>2. ClusterOK(c) BY <1>1, ClusterOfOK
<1>3. CASE OverlapsVisit(c, V)
  <2>1. Alone(t, s, V) = t BY <1>1, <1>3 DEF Alone
  <2>2. QED BY <2>1
<1>4. CASE ~ OverlapsVisit(c, V) /\ IsStay(c)
  <2>1. Alone(t, s, V) = Begin(t, c, V) BY <1>1, <1>4 DEF Alone
  <2>2. QED BY <1>2, <1>4, <2>1, BeginGood
<1>5. CASE ~ OverlapsVisit(c, V) /\ ~ IsStay(c)
  <2>1. PICK p : p = [members |-> <<s>>, cluster |-> c] OBVIOUS
  <2>2. Alone(t, s, V) = [t EXCEPT !.pending = p] BY <1>1, <1>5, <2>1 DEF Alone
  <2>3. IsDwell(p, F)
    <3>1. <<s>> \in Seq(F) OBVIOUS
    <3>2. QED BY <1>2, <2>1, <3>1 DEF IsDwell
  <2>4. QED BY <2>2, <2>3, SetPendingGood
<1>6. QED BY <1>3, <1>4, <1>5

\* Closing the open row.
LEMMA ClosedGood ==
  ASSUME NEW old, NEW t, NEW F, NEW V, NEW todo, NEW held, Good(t, old, F, V, todo, held), t.open # NoRow
  PROVE  LET u == SetRow(t, t.open, t.rows[t.open].c, TRUE) IN
         Good(u, old, F, V, todo, held) /\ u.pending = t.pending
<1>1. PICK k : k = t.open OBVIOUS
<1>2. k \in DOMAIN t.rows \ held BY <1>1, Zenon DEF Good, OpenOK
<1>3. PICK c : c = t.rows[k].c OBVIOUS
<1>4. ClusterOK(c)
  <2>1. RowOK(t.rows[k], old) BY <1>2 DEF Good, LedgerOK
  <2>2. QED BY <1>3, <2>1 DEF RowOK, Row, ClusterOK
<1>5. k \in todo \/ ~ OverlapsVisit(c, V)
  BY <1>2, <1>3, Zenon DEF Good, ClearRows
<1>6. PICK closed \in BOOLEAN : closed = TRUE OBVIOUS
<1>7. PICK u : u = SetRow(t, k, c, closed) OBVIOUS
<1>8. Good(u, old, F, V, todo, held) /\ u.pending = t.pending
  BY <1>2, <1>3, <1>4, <1>5, <1>7, SetRowGood
<1>9. SetRow(t, t.open, t.rows[t.open].c, TRUE) = u BY <1>1, <1>3, <1>6, <1>7
<1>10. QED BY <1>8, <1>9

\* So does one placed in the open stay,
LEMMA PlaceInOpenGood ==
  ASSUME NEW old, NEW t, NEW F, NEW V, NEW todo, NEW held, Good(t, old, F, V, todo, held), t.open # NoRow,
         NEW s \in F, F \subseteq Fix, IdsPositive(old)
  PROVE  Good(PlaceInOpen(t, s, V), old, F, V, todo, held)
<1>1. PICK k : k = t.open OBVIOUS
<1>2. k \in DOMAIN t.rows \ held BY <1>1, Zenon DEF Good, OpenOK
<1>3. PICK c : c = t.rows[k].c OBVIOUS
<1>4. ClusterOK(c)
  <2>1. RowOK(t.rows[k], old) BY <1>2 DEF Good, LedgerOK
  <2>2. QED BY <1>3, <2>1 DEF RowOK, Row, ClusterOK
<1>5. CASE Grows(c, s, V)
  <2>1. PICK d : d = AddSample(c, s) OBVIOUS
  <2>2. ClusterOK(d) /\ d.start = t.rows[k].c.start BY <1>3, <1>4, <2>1, AddSampleOK
  <2>3. ~ OverlapsVisit(d, V) BY <1>5, <2>1 DEF Grows
  <2>4. PICK closed \in BOOLEAN : closed = FALSE OBVIOUS
  <2>5. PlaceInOpen(t, s, V) = SetRow(t, k, d, closed)
    BY <1>1, <1>3, <1>5, <2>1, <2>4 DEF PlaceInOpen
  <2>6. QED BY <1>2, <2>2, <2>3, <2>5, SetRowGood
<1>6. CASE ~ Grows(c, s, V)
  <2>1. PICK u : u = SetRow(t, t.open, t.rows[t.open].c, TRUE) OBVIOUS
  <2>2. Good(u, old, F, V, todo, held) BY <2>1, ClosedGood
  <2>3. PICK v : v = [u EXCEPT !.open = NoRow] OBVIOUS
  <2>4. Good(v, old, F, V, todo, held) /\ v.open = NoRow BY <2>2, <2>3, SetOpenGood
  <2>5. PlaceInOpen(t, s, V) = Alone(v, s, V)
    BY <1>1, <1>3, <1>6, <2>1, <2>3 DEF PlaceInOpen
  <2>6. QED BY <2>4, <2>5, AloneGood
<1>7. QED BY <1>5, <1>6

\* one that grows the dwell that waits,
LEMMA GrowPendingGood ==
  ASSUME NEW old, NEW t, NEW F, NEW V, NEW todo, NEW held, Good(t, old, F, V, todo, held), t.open = NoRow,
         t.pending.members # <<>>, NEW s \in F, F \subseteq Fix, IdsPositive(old),
         Grows(t.pending.cluster, s, V)
  PROVE  Good(GrowPending(t, s, V), old, F, V, todo, held)
<1>1. PICK c : c = AddSample(t.pending.cluster, s) OBVIOUS
<1>2. IsDwell(t.pending, F) BY DEF Good
<1>3. ClusterOK(c) /\ ~ OverlapsVisit(c, V)
  <2>1. ClusterOK(t.pending.cluster) BY <1>2 DEF IsDwell
  <2>2. ClusterOK(c) BY <1>1, <2>1, AddSampleOK
  <2>3. QED BY <1>1, <2>2 DEF Grows
<1>4. CASE IsStay(c)
  <2>1. GrowPending(t, s, V) = Begin(t, c, V) BY <1>1, <1>4 DEF GrowPending
  <2>2. QED BY <1>3, <2>1, BeginGood
<1>5. CASE ~ IsStay(c)
  <2>1. PICK p : p = [members |-> Append(t.pending.members, s), cluster |-> c] OBVIOUS
  <2>2. IsTracker(t) BY DEF Good, LedgerOK
  <2>3. GrowPending(t, s, V) = [t EXCEPT !.pending = p]
    BY <1>1, <1>5, <2>1, <2>2 DEF GrowPending, IsTracker
  <2>4. IsDwell(p, F)
    <3>1. Append(t.pending.members, s) \in Seq(F) BY <1>2 DEF IsDwell
    <3>2. QED BY <1>3, <2>1, <3>1 DEF IsDwell
  <2>5. QED BY <2>3, <2>4, SetPendingGood
<1>6. QED BY <1>4, <1>5

\* A tracker and the fixes still to be placed.
IsFeeding(x, old, F, V, todo, held) ==
  x = [t |-> x.t, queue |-> x.queue] /\ Good(x.t, old, F, V, todo, held) /\ x.queue \in Seq(F)

\* and one round of feed, whatever it does.
LEMMA PlaceGood ==
  ASSUME NEW old, NEW x, NEW F, NEW V, NEW todo, NEW held, IsFeeding(x, old, F, V, todo, held),
         F \subseteq Fix, IdsPositive(old)
  PROVE  IsFeeding(Place(x, V), old, F, V, todo, held)
<1>1. PICK t, q : t = x.t /\ q = x.queue OBVIOUS
<1>2. Good(t, old, F, V, todo, held) /\ q \in Seq(F) BY <1>1 DEF IsFeeding
<1>3. CASE q = <<>>
  <2>1. Place(x, V) = x BY <1>1, <1>3 DEF Place
  <2>2. QED BY <2>1
<1>4. CASE q # <<>>
  <2>1. PICK s, r : s = Head(q) /\ r = Tail(q) OBVIOUS
  <2>2. s \in F /\ r \in Seq(F) BY <1>2, <1>4, <2>1
  <2>3. CASE t.open # NoRow
    <3>1. Place(x, V) = [t |-> PlaceInOpen(t, s, V), queue |-> r]
      BY <1>1, <1>4, <2>1, <2>3 DEF Place
    <3>2. Good(PlaceInOpen(t, s, V), old, F, V, todo, held) BY <1>2, <2>2, <2>3, PlaceInOpenGood
    <3>3. QED BY <2>2, <3>1, <3>2 DEF IsFeeding
  <2>4. CASE t.open = NoRow /\ t.pending.members = <<>>
    <3>1. Place(x, V) = [t |-> Alone(t, s, V), queue |-> r]
      BY <1>1, <1>4, <2>1, <2>4 DEF Place
    <3>2. Good(Alone(t, s, V), old, F, V, todo, held) BY <1>2, <2>2, <2>4, AloneGood
    <3>3. QED BY <2>2, <3>1, <3>2 DEF IsFeeding
  <2>5. CASE t.open = NoRow /\ t.pending.members # <<>> /\ Grows(t.pending.cluster, s, V)
    <3>1. Place(x, V) = [t |-> GrowPending(t, s, V), queue |-> r]
      BY <1>1, <1>4, <2>1, <2>5 DEF Place
    <3>2. Good(GrowPending(t, s, V), old, F, V, todo, held) BY <1>2, <2>2, <2>5, GrowPendingGood
    <3>3. QED BY <2>2, <3>1, <3>2 DEF IsFeeding
  <2>6. CASE t.open = NoRow /\ t.pending.members # <<>> /\ ~ Grows(t.pending.cluster, s, V)
    <3>1. PICK m : m = t.pending.members OBVIOUS
    <3>2. Place(x, V) = [t |-> [t EXCEPT !.pending = NoDwell], queue |-> Tail(m) \o q]
      BY <1>1, <1>4, <2>1, <2>6, <3>1 DEF Place
    <3>3. Good([t EXCEPT !.pending = NoDwell], old, F, V, todo, held)
      BY <1>2, SetPendingGood, NoDwellIsDwell
    <3>4. m \in Seq(F) /\ m # <<>> BY <1>2, <2>6, <3>1 DEF Good, IsDwell
    <3>5. Tail(m) \o q \in Seq(F)
      <4>1. Tail(m) \in Seq(F) BY <3>4
      <4>2. QED BY <1>2, <4>1
    <3>6. QED BY <3>2, <3>3, <3>5 DEF IsFeeding
  <2>7. QED BY <2>3, <2>4, <2>5, <2>6
<1>5. QED BY <1>3, <1>4

\* The bound on the rounds is a number.
LEMMA RoundsAreNatural ==
  ASSUME NEW t, NEW F, IsDwell(t.pending, F)
  PROVE  Rounds(t) \in Nat
<1>1. PICK n : n = Len(t.pending.members) OBVIOUS
<1>2. n \in Nat BY <1>1 DEF IsDwell
<1>3. (n + 1) * (n + 1) + 1 \in Nat BY <1>2
<1>4. QED BY <1>1, <1>3 DEF Rounds

\* StayTracker.feed.
LEMMA FeedGood ==
  ASSUME NEW old, NEW t, NEW F, NEW V, NEW todo, NEW held, Good(t, old, F, V, todo, held),
         NEW s \in F, F \subseteq Fix, IdsPositive(old)
  PROVE  Good(Feed(t, s, V), old, F, V, todo, held)
<1>1. PICK top : top = Rounds(t) OBVIOUS
<1>2. PICK g : g = Feeding(t, s, V) OBVIOUS
<1>3. top \in Nat BY <1>1, RoundsAreNatural DEF Good
<1>4. g[0] = [t |-> t, queue |-> <<s>>] /\ \A n \in 1 .. top : g[n] = Place(g[n - 1], V)
  BY <1>1, <1>2, <1>3, FeedingRounds
<1> DEFINE Bad == {n \in 0 .. top : ~ IsFeeding(g[n], old, F, V, todo, held)}
<1>5. IsFeeding(g[0], old, F, V, todo, held)
  <2>1. <<s>> \in Seq(F) OBVIOUS
  <2>2. QED BY <1>4, <2>1 DEF IsFeeding
<1>6. Bad = {}
  <2>1. SUFFICES ASSUME Bad # {} PROVE FALSE OBVIOUS
  <2>2. PICK m \in Bad : \A k \in Bad : m <= k
    <3>1. Bad \in SUBSET Nat BY <1>3
    <3> HIDE DEF Bad
    <3>2. QED BY <2>1, <3>1, HasLeast
  <2>3. m \in 0 .. top /\ ~ IsFeeding(g[m], old, F, V, todo, held) OBVIOUS
  <2>4. m # 0 BY <1>5, <2>3
  <2>5. m - 1 \in 0 .. top /\ m \in 1 .. top /\ ~ (m <= m - 1) BY <1>3, <2>3, <2>4
  <2>6. m - 1 \notin Bad
    <3> HIDE DEF Bad
    <3>1. QED BY <2>2, <2>5
  <2>7. IsFeeding(g[m - 1], old, F, V, todo, held) BY <2>5, <2>6
  <2>8. QED BY <1>4, <2>3, <2>5, <2>7, PlaceGood
<1>7. top \in 0 .. top BY <1>3
<1>8. IsFeeding(g[top], old, F, V, todo, held) BY <1>6, <1>7
<1>9. QED BY <1>1, <1>2, <1>8 DEF Feed, IsFeeding

\* A list of fixes under their ids.
IsList(fixes, F) ==
  /\ DOMAIN fixes \in SUBSET Nat /\ IsFiniteSet(DOMAIN fixes)
  /\ \A i \in DOMAIN fixes : fixes[i] \in F

\* All the fixes fed in order keep the ledger good.
LEMMA FeedAllGood ==
  ASSUME NEW old, NEW t, NEW F, NEW V, NEW todo, NEW held, Good(t, old, F, V, todo, held),
         NEW fixes, IsList(fixes, F), F \subseteq Fix, IdsPositive(old)
  PROVE  Good(FeedAll(t, fixes, V), old, F, V, todo, held)
<1>1. PICK top : top = LastOf(DOMAIN fixes) OBVIOUS
<1>2. PICK g : g = FeedingAll(t, fixes, V) OBVIOUS
<1>3. top \in Nat BY <1>1, LastOfNaturals DEF IsList
<1>4. /\ g[0] = t
      /\ \A n \in 1 .. top :
           g[n] = (IF n \in DOMAIN fixes THEN Feed(g[n - 1], fixes[n], V) ELSE g[n - 1])
  BY <1>1, <1>2, <1>3, FeedingAllRounds
<1> DEFINE Bad == {n \in 0 .. top : ~ Good(g[n], old, F, V, todo, held)}
<1>5. Good(g[0], old, F, V, todo, held) BY <1>4
<1>6. Bad = {}
  <2>1. SUFFICES ASSUME Bad # {} PROVE FALSE OBVIOUS
  <2>2. PICK m \in Bad : \A k \in Bad : m <= k
    <3>1. Bad \in SUBSET Nat BY <1>3
    <3> HIDE DEF Bad
    <3>2. QED BY <2>1, <3>1, HasLeast
  <2>3. m \in 0 .. top /\ ~ Good(g[m], old, F, V, todo, held) OBVIOUS
  <2>4. m # 0 BY <1>5, <2>3
  <2>5. m - 1 \in 0 .. top /\ m \in 1 .. top /\ ~ (m <= m - 1) BY <1>3, <2>3, <2>4
  <2>6. m - 1 \notin Bad
    <3> HIDE DEF Bad
    <3>1. QED BY <2>2, <2>5
  <2>7. Good(g[m - 1], old, F, V, todo, held) BY <2>5, <2>6
  <2>8. CASE m \in DOMAIN fixes
    <3>1. fixes[m] \in F BY <2>8 DEF IsList
    <3>2. QED BY <1>4, <2>3, <2>5, <2>7, <2>8, <3>1, FeedGood
  <2>9. CASE m \notin DOMAIN fixes
    BY <1>4, <2>3, <2>5, <2>7, <2>9
  <2>10. QED BY <2>8, <2>9
<1>7. top \in 0 .. top BY <1>3
<1>8. Good(g[top], old, F, V, todo, held) BY <1>6, <1>7
<1>9. QED BY <1>1, <1>2, <1>8 DEF FeedAll

\* StayTracker.finish.
LEMMA FinishGood ==
  ASSUME NEW old, NEW t, NEW F, NEW V, NEW todo, NEW held, Good(t, old, F, V, todo, held)
  PROVE  LET u == Finish(t) IN
         Good(u, old, F, V, todo, held) /\ u.open = NoRow /\ u.pending = NoDwell
<1>1. PICK w : w = IF t.open = NoRow THEN t ELSE SetRow(t, t.open, t.rows[t.open].c, TRUE)
  OBVIOUS
<1>2. Good(w, old, F, V, todo, held)
  <2>1. CASE t.open = NoRow BY <1>1, <2>1
  <2>2. CASE t.open # NoRow
    <3>1. w = SetRow(t, t.open, t.rows[t.open].c, TRUE) BY <1>1, <2>2
    <3>2. QED BY <2>2, <3>1, ClosedGood
  <2>3. QED BY <2>1, <2>2
<1>3. PICK v : v = [w EXCEPT !.open = NoRow] OBVIOUS
<1>4. Good(v, old, F, V, todo, held) /\ v.open = NoRow BY <1>2, <1>3, SetOpenGood
<1>5. PICK u : u = [v EXCEPT !.pending = NoDwell] OBVIOUS
<1>6. Good(u, old, F, V, todo, held) /\ u.open = NoRow /\ u.pending = NoDwell
  BY <1>4, <1>5, SetPendingGood, NoDwellIsDwell
<1>7. Finish(t) = u
  <2>1. IsTracker(w) BY <1>2 DEF Good, LedgerOK
  <2>2. Finish(t) = [w EXCEPT !.open = NoRow, !.pending = NoDwell] BY <1>1 DEF Finish
  <2>3. QED BY <1>3, <1>5, <2>1, <2>2 DEF IsTracker
<1>8. QED BY <1>6, <1>7

----------------------------------------------------------------------------
(* The store: what every action keeps.                                       *)

ByOneId(S) == \A a, b \in S : a.id = b.id => a = b

SamplesOK == samples \subseteq Fix /\ IsFiniteSet(samples) /\ ByOneId(samples)

IsStored(r) == r \in Row /\ r.id # 0 /\ Spread(r.c)
StaysOK(S) == (\A r \in S : IsStored(r)) /\ IsFiniteSet(S) /\ ByOneId(S)

\* The images of a finite set are finitely many.
LEMMA ImageIsFinite ==
  ASSUME NEW S, IsFiniteSet(S), NEW f, IsMap(f), DOMAIN f = S
  PROVE  IsFiniteSet({f[x] : x \in S})
<1>1. PICK T : T = {f[x] : x \in S} OBVIOUS
<1>2. f \in Surjection(S, T)
  <2>1. f \in [S -> T] BY <1>1 DEF IsMap
  <2>2. \A y \in T : \E x \in S : f[x] = y BY <1>1
  <2>3. QED BY <2>1, <2>2 DEF Surjection, Range
<1>3. QED BY <1>1, <1>2, FS_Surjection

\* The ids of some rows.
LEMMA IdsOf ==
  ASSUME NEW S, IsFiniteSet(S), \A s \in S : s.id \in Nat
  PROVE  IsFiniteSet({s.id : s \in S}) /\ {s.id : s \in S} \in SUBSET Nat
<1>1. PICK f : f = [s \in S |-> s.id] OBVIOUS
<1>2. IsMap(f) /\ DOMAIN f = S BY <1>1 DEF IsMap
<1>3. {f[s] : s \in S} = {s.id : s \in S} BY <1>1
<1>4. IsFiniteSet({f[s] : s \in S}) BY <1>2, ImageIsFinite
<1>5. QED BY <1>3, <1>4

\* What LatestId returns.
LEMMA LatestIdOK ==
  ASSUME NEW S, S \subseteq Fix, IsFiniteSet(S)
  PROVE  LET last == LastOf({s.id : s \in S}) IN
         last \in Nat /\ (\A s \in S : s.id <= last) /\ \A i : (S # {} /\ i = last) => \E s \in S : s.id = i
<1>1. \A s \in S : s.id \in Nat BY DEF Fix
<1>2. PICK I : I = {s.id : s \in S} OBVIOUS
<1>3. IsFiniteSet(I) /\ I \in SUBSET Nat BY <1>1, <1>2, IdsOf
<1>4. LastOf(I) \in Nat /\ (\A i \in I : i <= LastOf(I)) /\ (I # {} => LastOf(I) \in I)
  BY <1>3, LastOfNaturals
<1>5. \A s \in S : s.id \in I BY <1>2
<1>6. S # {} => LastOf(I) \in I BY <1>4, <1>5
<1>7. QED BY <1>2, <1>4, <1>5, <1>6

\* Some fixes under their ids.
LEMMA ByIdIsList ==
  ASSUME SamplesOK, NEW S \in SUBSET samples
  PROVE  /\ IsList(ById(S), S)
         /\ DOMAIN ById(S) = {s.id : s \in S}
         /\ \A s \in S : s.id \in DOMAIN ById(S) /\ ById(S)[s.id] = s
<1>1. S \subseteq Fix /\ IsFiniteSet(S) /\ ByOneId(S) BY FS_Subset DEF SamplesOK, ByOneId
<1>2. PICK f : f = ById(S) OBVIOUS
<1>3. DOMAIN f = {s.id : s \in S} BY <1>2 DEF ById
<1>4. \A i \in DOMAIN f : f[i] \in S /\ f[i].id = i
  <2>1. ASSUME NEW i \in DOMAIN f PROVE f[i] \in S /\ f[i].id = i
    <3>1. \E s \in S : s.id = i BY <1>3
    <3>2. f[i] = CHOOSE s \in S : s.id = i BY <1>2, <1>3 DEF ById
    <3>3. QED BY <3>1, <3>2
  <2>2. QED BY <2>1
<1>5. IsFiniteSet(DOMAIN f) /\ DOMAIN f \in SUBSET Nat
  <2>1. \A s \in S : s.id \in Nat BY <1>1 DEF Fix
  <2>2. QED BY <1>1, <1>3, <2>1, IdsOf
<1>6. \A s \in S : s.id \in DOMAIN f /\ f[s.id] = s
  <2>1. \A s \in S : s.id \in DOMAIN f BY <1>3
  <2>2. QED BY <1>1, <1>4, <2>1, Zenon DEF ByOneId
<1>7. IsList(f, S) BY <1>4, <1>5, Zenon DEF IsList
<1>8. QED BY <1>2, <1>3, <1>6, <1>7

----------------------------------------------------------------------------
(* The ledger a run starts from.                                             *)

\* Stays are listed in one place each.
LEMMA OnePlaceEach ==
  ASSUME StaysOK(stays)
  PROVE  /\ \A r \in stays : PlaceInList(r) \in Nat \ {0}
         /\ \A a, b \in stays : PlaceInList(a) = PlaceInList(b) => a = b
<1> DEFINE Before(r) == {x \in stays : ListedBefore(x, r)}
<1>1. IsFiniteSet(stays) /\ ByOneId(stays) /\ \A r \in stays : IsStored(r) BY DEF StaysOK
<1>2. \A r \in stays : r.c.start \in Nat /\ r.id \in Nat
  BY <1>1 DEF IsStored, Row, Cluster
<1>3. \A r \in stays : IsFiniteSet(Before(r)) /\ Cardinality(Before(r)) \in Nat
  <2>1. \A r : Before(r) \in SUBSET stays OBVIOUS
  <2>2. QED BY <1>1, <2>1, FS_Subset, FS_CardinalityType
<1>4. ASSUME NEW r \in stays PROVE PlaceInList(r) \in Nat \ {0}
  <2>1. PlaceInList(r) = Cardinality(Before(r)) + 1 BY DEF PlaceInList
  <2> HIDE DEF Before
  <2>2. QED BY <1>3, <2>1
<1>5. ASSUME NEW a \in stays, NEW b \in stays, ListedBefore(a, b)
      PROVE  PlaceInList(a) < PlaceInList(b)
  <2>1. PICK A, B : A = Before(a) /\ B = Before(b) OBVIOUS
  <2>2. A \subseteq B /\ a \in B /\ a \notin A
    <3>1. \A x \in stays : ListedBefore(x, a) => ListedBefore(x, b)
      BY <1>2, <1>5 DEF ListedBefore
    <3>2. ~ ListedBefore(a, a) BY <1>2 DEF ListedBefore
    <3>3. QED BY <1>5, <2>1, <3>1, <3>2, Zenon
  <2>3. IsFiniteSet(B) /\ Cardinality(A) \in Nat /\ Cardinality(B) \in Nat
    <3> HIDE DEF Before
    <3>1. QED BY <1>3, <2>1
  <2>4. Cardinality(A) <= Cardinality(B) /\ Cardinality(A) # Cardinality(B)
    BY <2>2, <2>3, FS_Subset
  <2>5. PlaceInList(a) = Cardinality(A) + 1 /\ PlaceInList(b) = Cardinality(B) + 1
    BY <2>1 DEF PlaceInList
  <2>6. QED BY <2>3, <2>4, <2>5
<1>6. ASSUME NEW a \in stays, NEW b \in stays, PlaceInList(a) = PlaceInList(b)
      PROVE  a = b
  <2>1. ListedBefore(a, b) \/ ListedBefore(b, a) \/ a.id = b.id
    BY <1>2 DEF ListedBefore
  <2>2. ~ ListedBefore(a, b) /\ ~ ListedBefore(b, a)
    <3>1. PlaceInList(a) \in Nat /\ PlaceInList(b) \in Nat BY <1>4
    <3>2. QED BY <1>5, <1>6, <3>1
  <2>3. QED BY <1>1, <2>1, <2>2 DEF ByOneId
<1>7. QED BY <1>4, <1>6

\* Every stay of the store is listed, and nothing else.
LEMMA ListStaysOK ==
  ASSUME StaysOK(stays)
  PROVE  /\ DOMAIN ListStays \in SUBSET (Nat \ {0}) /\ IsFiniteSet(DOMAIN ListStays)
         /\ \A k \in DOMAIN ListStays : ListStays[k] \in stays
         /\ \A j, k \in DOMAIN ListStays : ListStays[j] = ListStays[k] => j = k
         /\ \A r \in stays : \E k \in DOMAIN ListStays : ListStays[k] = r
<1>1. PICK l : l = ListStays OBVIOUS
<1>2. DOMAIN l = {PlaceInList(r) : r \in stays} BY <1>1 DEF ListStays
<1>3. \A k \in DOMAIN l : l[k] \in stays /\ PlaceInList(l[k]) = k
  <2>1. ASSUME NEW k \in DOMAIN l PROVE l[k] \in stays /\ PlaceInList(l[k]) = k
    <3>1. \E r \in stays : PlaceInList(r) = k BY <1>2
    <3>2. l[k] = CHOOSE r \in stays : PlaceInList(r) = k BY <1>1, <1>2 DEF ListStays
    <3>3. QED BY <3>1, <3>2
  <2>2. QED BY <2>1
<1>4. \A r \in stays : PlaceInList(r) \in DOMAIN l /\ l[PlaceInList(r)] = r
  BY <1>2, <1>3, OnePlaceEach
<1>5. DOMAIN l \in SUBSET (Nat \ {0}) BY <1>2, OnePlaceEach
<1>6. IsFiniteSet(DOMAIN l)
  <2>1. PICK f : f = [r \in stays |-> PlaceInList(r)] OBVIOUS
  <2>2. IsMap(f) /\ DOMAIN f = stays BY <2>1 DEF IsMap
  <2>3. IsFiniteSet({f[r] : r \in stays}) BY <2>2, ImageIsFinite DEF StaysOK
  <2>4. {f[r] : r \in stays} = DOMAIN l BY <1>2, <2>1
  <2>5. QED BY <2>3, <2>4
<1>7. \A j, k \in DOMAIN l : l[j] = l[k] => j = k BY <1>3, Zenon
<1>8. QED BY <1>1, <1>3, <1>4, <1>5, <1>6, <1>7

\* The open row, between the runs over the ledger, is not closed.
OpenIsOpen(t) == t.open # NoRow => t.rows[t.open].closed = FALSE

\* The ledger a run begins with is good.
LEMMA LedgerGood ==
  ASSUME StaysOK(stays), NEW F, NEW V
  PROVE  LET l == Ledger IN
         /\ Good(l, stays, F, V, {k \in DOMAIN l.rows : OverlapsVisit(l.rows[k].c, V)}, {})
         /\ OpenIsOpen(l) /\ l.pending = NoDwell
         /\ DOMAIN l.rows \in SUBSET Nat /\ IsFiniteSet(DOMAIN l.rows)
<1>1. PICK d : d = ListStays OBVIOUS
<1>2. PICK open : open = IF IdsRestarted THEN NoRow ELSE LastOf({k \in DOMAIN d : ~ d[k].closed})
  OBVIOUS
<1>3. PICK top : top = LastOf(DOMAIN d) OBVIOUS
<1>4. /\ DOMAIN d \in SUBSET (Nat \ {0}) /\ IsFiniteSet(DOMAIN d)
      /\ \A k \in DOMAIN d : d[k] \in stays
      /\ \A j, k \in DOMAIN d : d[j] = d[k] => j = k
      /\ \A r \in stays : \E k \in DOMAIN d : d[k] = r
  BY <1>1, ListStaysOK
<1>5. PICK l : l = Ledger OBVIOUS
<1>6. l = StayLedger(d, open) BY <1>1, <1>2, <1>5 DEF Ledger
<1>7. PICK rows : rows = [k \in DOMAIN d |-> [id |-> d[k].id, closed |-> k # open, c |-> d[k].c]]
  OBVIOUS
<1>8. l = [rows |-> rows, removed |-> <<>>, open |-> open, pending |-> NoDwell, fresh |-> top + 1]
  BY <1>3, <1>6, <1>7 DEF StayLedger
<1>9. DOMAIN rows = DOMAIN d /\ IsMap(rows)
  BY <1>7 DEF IsMap
<1>10. \A k \in DOMAIN d : rows[k] = [id |-> d[k].id, closed |-> k # open, c |-> d[k].c]
  BY <1>7
<1>11. top \in Nat /\ DOMAIN d \subseteq 1 .. top
  <2>1. DOMAIN d \in SUBSET Nat BY <1>4
  <2>2. top \in Nat /\ \A k \in DOMAIN d : k <= top BY <1>3, <1>4, <2>1, LastOfNaturals
  <2>3. QED BY <1>4, <2>2
<1>12. open = NoRow \/ open \in DOMAIN d
  <2>1. PICK S : S = {k \in DOMAIN d : ~ d[k].closed} OBVIOUS
  <2>2. S \in SUBSET DOMAIN d BY <2>1
  <2>3. S \in SUBSET Nat /\ IsFiniteSet(S) BY <1>4, <2>2, FS_Subset
  <2>4. LastOf(S) \in S \cup {0} BY <2>3, LastOfNaturals
  <2>5. QED BY <1>2, <2>1, <2>2, <2>4 DEF NoRow
<1>13. \A k \in DOMAIN rows : RowOK(rows[k], stays)
  <2>1. ASSUME NEW k \in DOMAIN rows PROVE RowOK(rows[k], stays)
    <3>1. PICK s : s = d[k] OBVIOUS
    <3>2. s \in stays /\ IsStored(s) BY <1>4, <1>9, <2>1, <3>1 DEF StaysOK
    <3>3. PICK b \in BOOLEAN : b = (k # open) OBVIOUS
    <3>4. rows[k] = [id |-> s.id, closed |-> b, c |-> s.c] BY <1>9, <1>10, <3>1, <3>3
    <3>5. rows[k] \in Row /\ rows[k].id = s.id /\ rows[k].c = s.c
      BY <3>2, <3>4 DEF IsStored, Row
    <3>6. \A u \in stays : u.id = rows[k].id => u.c.start = rows[k].c.start
      BY <3>2, <3>5 DEF StaysOK, ByOneId
    <3>7. QED BY <3>2, <3>5, <3>6 DEF RowOK, IsStored
  <2>2. QED BY <2>1
<1>14. l.rows = rows /\ l.removed = <<>> /\ l.open = open /\ l.pending = NoDwell /\ l.fresh = top + 1
  BY <1>8
<1>15. LedgerOK(l, stays)
  <2>1. IsTracker(l) BY <1>8 DEF IsTracker
  <2>2. l.fresh \in Nat \ {0} /\ l.fresh - 1 = top BY <1>11, <1>14
  <2>3. Numbered(l.rows, l.fresh - 1) BY <1>9, <1>11, <1>14, <2>2 DEF Numbered
  <2>4. DOMAIN l.removed = {} /\ IsMap(l.removed)
    <3>1. DOMAIN <<>> = {} OBVIOUS
    <3>2. <<>> = [k \in DOMAIN <<>> |-> <<>>[k]] OBVIOUS
    <3>3. QED BY <1>14, <3>1, <3>2 DEF IsMap
  <2>5. Numbered(l.removed, l.fresh - 1) BY <2>4 DEF Numbered
  <2>6. \A k \in DOMAIN l.removed : RowOK(l.removed[k], stays) BY <2>4
  <2>7. QED BY <1>13, <1>14, <2>1, <2>2, <2>3, <2>5, <2>6 DEF LedgerOK
<1>16. StoredKept(l, stays)
  <2>1. ASSUME NEW s \in stays PROVE Holds(rows, s.id)
    <3>1. PICK k \in DOMAIN d : d[k] = s BY <1>4
    <3>2. PICK b : b = (k # open) OBVIOUS
    <3>3. rows[k] = [id |-> s.id, closed |-> b, c |-> s.c] BY <1>10, <3>1, <3>2
    <3>4. rows[k].id = s.id BY <3>3
    <3>5. QED BY <1>9, <3>4 DEF Holds
  <2>2. IsKept(l, stays) BY <1>14, <2>1 DEF IsKept
  <2>3. \A k \in DOMAIN rows : rows[k].id = d[k].id /\ d[k] \in stays
    <3>1. ASSUME NEW k \in DOMAIN rows PROVE rows[k].id = d[k].id
      <4>1. PICK b : b = (k # open) OBVIOUS
      <4>2. rows[k] = [id |-> d[k].id, closed |-> b, c |-> d[k].c] BY <1>9, <1>10, <4>1
      <4>3. QED BY <4>2
    <3>2. QED BY <1>4, <1>9, <3>1
  <2>4. ASSUME NEW j \in DOMAIN rows, NEW k \in DOMAIN rows, rows[j].id = rows[k].id PROVE j = k
    <3>1. d[j] \in stays /\ d[k] \in stays /\ d[j].id = d[k].id BY <2>3, <2>4
    <3>2. d[j] = d[k] BY <3>1 DEF StaysOK, ByOneId
    <3>3. QED BY <1>4, <1>9, <3>2
  <2>5. \A k \in DOMAIN rows : IsOf(rows[k], stays) BY <2>3, Zenon DEF IsOf
  <2>6. DOMAIN l.removed = {}
    <3>1. DOMAIN <<>> = {} OBVIOUS
    <3>2. QED BY <1>14, <3>1
  <2>7. OneRowEach(l, stays) BY <1>14, <2>4, <2>5, <2>6, Zenon DEF OneRowEach
  <2>8. QED BY <2>2, <2>7 DEF StoredKept
<1>17. OpenOK(l, {})
  BY <1>9, <1>12, <1>14 DEF OpenOK
<1>18. OpenIsOpen(l)
  <2>1. ASSUME open # NoRow PROVE rows[open].closed = FALSE
    <3>1. open \in DOMAIN d BY <1>12, <2>1
    <3>2. PICK b : b = (open # open) OBVIOUS
    <3>3. rows[open] = [id |-> d[open].id, closed |-> b, c |-> d[open].c] BY <1>10, <3>1, <3>2
    <3>4. rows[open].closed = b BY <3>3
    <3>5. b = FALSE BY <3>2
    <3>6. QED BY <3>4, <3>5
  <2>2. QED BY <1>14, <2>1 DEF OpenIsOpen
<1>19. ClearRows(l, V, {k \in DOMAIN l.rows : OverlapsVisit(l.rows[k].c, V)})
  BY Zenon DEF ClearRows
<1>20. Good(l, stays, F, V, {k \in DOMAIN l.rows : OverlapsVisit(l.rows[k].c, V)}, {})
  <2>1. IsDwell(l.pending, F) BY <1>14, NoDwellIsDwell
  <2>2. QED BY <1>15, <1>16, <1>17, <1>19, <2>1 DEF Good
<1>21. DOMAIN l.rows \in SUBSET Nat /\ IsFiniteSet(DOMAIN l.rows) BY <1>4, <1>9, <1>14
<1>22. QED BY <1>5, <1>14, <1>18, <1>20, <1>21

----------------------------------------------------------------------------
(* The rows a visit has come to cover are derived again.                     *)

\* A ledger between two trackers, the rows todo left to reconcile.
IsReconciling(w, todo) ==
  /\ w = [t |-> w.t, cursor |-> w.cursor]
  /\ Good(w.t, stays, Fix, Covering, todo, {}) /\ OpenIsOpen(w.t) /\ w.t.pending = NoDwell
  /\ w.cursor \in Nat /\ w.cursor <= cursor

\* A row that is gone need not be reconciled.
LEMMA GoneFromTodo ==
  ASSUME NEW t, NEW V, NEW todo, ClearRows(t, V, todo), NEW k, k \notin DOMAIN t.rows
  PROVE  ClearRows(t, V, todo \ {k})
BY Zenon DEF ClearRows

\* The dwell in progress is taken again from its first fix.
LEMMA ReconcileOpen ==
  ASSUME SamplesOK, IdsPositive(stays), cursor \in Nat, NEW w, NEW todo, IsReconciling(w, todo),
         NEW k, k \in DOMAIN w.t.rows, k = w.t.open
  PROVE  IsReconciling(Reconcile(w, k), todo \ {k})
<1>1. PICK t : t = w.t OBVIOUS
<1>2. Good(t, stays, Fix, Covering, todo, {}) /\ t.pending = NoDwell /\ k \in DOMAIN t.rows
      /\ w.cursor \in Nat /\ w.cursor <= cursor
  BY <1>1 DEF IsReconciling
<1>3. PICK u : u = RemoveRow(t, k) OBVIOUS
<1>4. k \in DOMAIN t.rows \ {} BY <1>2
<1>5. /\ LedgerOK(u, stays) /\ StoredKept(u, stays) /\ ClearRows(u, Covering, todo)
      /\ u.pending = NoDwell /\ DOMAIN u.rows = DOMAIN t.rows \ {k}
  BY <1>2, <1>3, <1>4, RemoveRowGood DEF IdsPositive
<1>6. ClearRows(u, Covering, todo \ {k}) BY <1>5, GoneFromTodo
<1>7. PICK out : out = [u EXCEPT !.open = NoRow] OBVIOUS
<1>8. /\ IsTracker(out) /\ out.open = NoRow /\ out.rows = u.rows /\ out.removed = u.removed
      /\ out.pending = NoDwell /\ out.fresh = u.fresh
  BY <1>5, <1>7 DEF LedgerOK, IsTracker
<1>9. Good(out, stays, Fix, Covering, todo \ {k}, {})
  <2>1. LedgerOK(out, stays) /\ StoredKept(out, stays) /\ ClearRows(out, Covering, todo \ {k})
    BY <1>5, <1>6, <1>8 DEF LedgerOK, StoredKept, IsKept, OneRowEach, ClearRows
  <2>2. OpenOK(out, {}) BY <1>8 DEF OpenOK
  <2>3. IsDwell(out.pending, Fix) BY <1>8, NoDwellIsDwell
  <2>4. QED BY <2>1, <2>2, <2>3 DEF Good
<1>10. OpenIsOpen(out) BY <1>8 DEF OpenIsOpen
<1>11. PICK near : near = Between(t.rows[k].c.start, t.rows[k].c.end) OBVIOUS
<1>12. PICK members : members = ById(near) OBVIOUS
<1>13. PICK back : back = IF DOMAIN members = {} THEN w.cursor
                          ELSE Smaller(w.cursor, Min(DOMAIN members) - 1)
  OBVIOUS
<1>14. back \in Nat /\ back <= cursor
  <2>1. CASE DOMAIN members = {} BY <1>2, <1>13, <2>1
  <2>2. CASE DOMAIN members # {}
    <3>1. near \in SUBSET samples BY <1>11 DEF Between
    <3>2. DOMAIN members = {s.id : s \in near} BY <1>12, <3>1, ByIdIsList
    <3>3. \A s \in near : s.id \in Nat \ {0} BY <3>1 DEF SamplesOK, Fix
    <3>4. DOMAIN members \in SUBSET Nat /\ 0 \notin DOMAIN members BY <3>2, <3>3
    <3>5. PICK i : i = Min(DOMAIN members) OBVIOUS
    <3>6. i \in DOMAIN members BY <2>2, <3>4, <3>5, MinOfNaturals
    <3>7. i - 1 \in Nat BY <3>4, <3>6
    <3>8. back = Smaller(w.cursor, i - 1) BY <1>13, <2>2, <3>5
    <3>9. back \in Nat /\ back <= w.cursor
      <4>1. PICK n \in Nat : n = w.cursor BY <1>2
      <4>2. PICK o \in Nat : o = i - 1 BY <3>7
      <4>3. back = Smaller(n, o) BY <3>8, <4>1, <4>2, Zenon
      <4>4. back \in Nat /\ back <= n BY <4>3 DEF Smaller
      <4>5. QED BY <4>1, <4>4, Zenon
    <3>10. QED BY <1>2, <3>9
  <2>3. QED BY <2>1, <2>2
<1>15. Reconcile(w, k) = [t |-> out, cursor |-> back]
  BY <1>1, <1>2, <1>3, <1>7, <1>11, <1>12, <1>13, Zenon DEF Reconcile
<1>16. QED BY <1>8, <1>9, <1>10, <1>14, <1>15 DEF IsReconciling

\* The stretch of another row is derived again, the dwell in progress left alone.
LEMMA ReconcileClosed ==
  ASSUME SamplesOK, IdsPositive(stays), NEW w, NEW todo, IsReconciling(w, todo),
         NEW k, k \in DOMAIN w.t.rows, k # w.t.open
  PROVE  IsReconciling(Reconcile(w, k), todo \ {k})
<1>1. PICK t : t = w.t OBVIOUS
<1>2. /\ Good(t, stays, Fix, Covering, todo, {}) /\ t.pending = NoDwell /\ k \in DOMAIN t.rows
      /\ OpenIsOpen(t)
  BY <1>1 DEF IsReconciling
<1>3. PICK open : open = t.open OBVIOUS
<1>4. PICK held : held = IF open = NoRow THEN {} ELSE {open} OBVIOUS
<1>5. k \notin held BY <1>1, <1>3, <1>4
<1>6. \A j \in held : j = open /\ open # NoRow BY <1>4
<1>7. PICK q : q = [t EXCEPT !.open = NoRow] OBVIOUS
<1>8. /\ IsTracker(q) /\ q.open = NoRow /\ q.rows = t.rows /\ q.removed = t.removed
      /\ q.pending = NoDwell /\ q.fresh = t.fresh
  BY <1>2, <1>7 DEF Good, LedgerOK, IsTracker
<1>9. OpenOK(q, held)
  <2>1. ASSUME NEW j \in held PROVE j \in DOMAIN t.rows /\ t.rows[j].closed = FALSE
    <3>1. j = t.open /\ t.open # NoRow BY <1>3, <1>6
    <3>2. j \in DOMAIN t.rows BY <1>2, <3>1, Zenon DEF Good, OpenOK
    <3>3. t.rows[j].closed = FALSE BY <1>2, <3>1, Zenon DEF OpenIsOpen
    <3>4. QED BY <3>2, <3>3
  <2>2. QED BY <1>8, <2>1, Zenon DEF OpenOK
<1>10. Good(q, stays, Fix, Covering, todo, held)
  BY <1>2, <1>8, <1>9 DEF Good, LedgerOK, StoredKept, IsKept, OneRowEach, ClearRows
<1>11. PICK u : u = RemoveRow(q, k) OBVIOUS
<1>12. k \in DOMAIN q.rows \ held /\ q.open # k
  <2>1. NoRow \notin DOMAIN t.rows BY <1>2, NoRowIsNoKey DEF Good
  <2>2. QED BY <1>2, <1>5, <1>8, <2>1
<1>13. Good(u, stays, Fix, Covering, todo, held) /\ DOMAIN u.rows = DOMAIN q.rows \ {k} /\ u.open = NoRow
  BY <1>8, <1>10, <1>11, <1>12, RemoveRowGood DEF IdsPositive
<1>14. Good(u, stays, Fix, Covering, todo \ {k}, held)
  <2>1. ClearRows(u, Covering, todo \ {k}) BY <1>13, GoneFromTodo DEF Good
  <2>2. QED BY <1>13, <2>1 DEF Good
<1>15. PICK out : out = [RemoveRow(t, k) EXCEPT !.open = NoRow] OBVIOUS
<1>16. out = u
  <2>1. IsTracker(t) BY <1>2 DEF Good, LedgerOK
  <2>2. PICK s : s = RemoveRow(t, k) OBVIOUS
  <2>3. /\ s.rows = Without(t.rows, {k}) /\ s.pending = t.pending /\ s.fresh = t.fresh + 1
        /\ s.removed = IF t.rows[k].id = 0 THEN t.removed ELSE With(t.removed, t.fresh, t.rows[k])
        /\ IsTracker(s)
    BY <2>1, <2>2 DEF RemoveRow, IsTracker
  <2>4. /\ u.rows = Without(q.rows, {k}) /\ u.pending = q.pending /\ u.fresh = q.fresh + 1
        /\ u.removed = IF q.rows[k].id = 0 THEN q.removed ELSE With(q.removed, q.fresh, q.rows[k])
        /\ IsTracker(u) /\ u.open = q.open
    BY <1>8, <1>11 DEF RemoveRow, IsTracker
  <2>5. IsTracker(out) /\ out.rows = s.rows /\ out.removed = s.removed /\ out.open = NoRow
        /\ out.pending = s.pending /\ out.fresh = s.fresh
    BY <1>15, <2>2, <2>3 DEF IsTracker
  <2>6. u.rows = out.rows /\ u.removed = out.removed /\ u.open = out.open
        /\ u.pending = out.pending /\ u.fresh = out.fresh
    BY <1>2, <1>8, <2>3, <2>4, <2>5
  <2>7. QED BY <2>4, <2>5, <2>6 DEF IsTracker
<1>17. PICK near : near = Between(t.rows[k].c.start, t.rows[k].c.end) OBVIOUS
<1>18. PICK members : members = ById(near) OBVIOUS
<1>19. IsList(members, Fix)
  <2>1. near \in SUBSET samples BY <1>17 DEF Between
  <2>2. IsList(members, near) BY <1>18, <2>1, ByIdIsList
  <2>3. near \subseteq Fix BY <2>1 DEF SamplesOK
  <2>4. QED BY <2>2, <2>3 DEF IsList
<1>20. PICK v : v = FeedAll(u, members, Covering) OBVIOUS
<1>21. Good(v, stays, Fix, Covering, todo \ {k}, held) BY <1>14, <1>19, <1>20, FeedAllGood
<1>22. PICK x : x = Finish(v) OBVIOUS
<1>23. Good(x, stays, Fix, Covering, todo \ {k}, held) /\ x.pending = NoDwell
  BY <1>21, <1>22, FinishGood
<1>24. PICK y : y = [x EXCEPT !.open = open] OBVIOUS
<1>25. /\ IsTracker(y) /\ y.open = open /\ y.rows = x.rows /\ y.removed = x.removed
       /\ y.pending = NoDwell /\ y.fresh = x.fresh
  BY <1>23, <1>24 DEF Good, LedgerOK, IsTracker
<1>26. open # NoRow => open \in DOMAIN x.rows /\ x.rows[open].closed = FALSE
  <2>1. open # NoRow => open \in held BY <1>4
  <2>2. QED BY <1>23, <2>1, Zenon DEF Good, OpenOK
<1>27. OpenIsOpen(y) BY <1>25, <1>26, Zenon DEF OpenIsOpen
<1>28. Good(y, stays, Fix, Covering, todo \ {k}, {})
  <2>1. OpenOK(y, {}) BY <1>25, <1>26 DEF OpenOK
  <2>2. IsDwell(y.pending, Fix) BY <1>25, NoDwellIsDwell
  <2>3. LedgerOK(y, stays) /\ StoredKept(y, stays) /\ ClearRows(y, Covering, todo \ {k})
    BY <1>23, <1>25 DEF Good, LedgerOK, StoredKept, IsKept, OneRowEach, ClearRows
  <2>4. QED BY <2>1, <2>2, <2>3 DEF Good
<1>29. Reconcile(w, k) = [w EXCEPT !.t = y]
  <2>1. k \in DOMAIN t.rows /\ k # t.open BY <1>1, <1>2
  <2>2. Reconcile(w, k)
          = [w EXCEPT !.t = [Finish(FeedAll(out, members, Covering)) EXCEPT !.open = t.open]]
    BY <1>1, <1>15, <1>17, <1>18, <2>1, Zenon DEF Reconcile
  <2>3. QED BY <1>3, <1>16, <1>20, <1>22, <1>24, <2>2
<1>30. /\ w = [t |-> w.t, cursor |-> w.cursor] /\ w.cursor \in Nat /\ w.cursor <= cursor
  BY DEF IsReconciling
<1>31. Reconcile(w, k) = [t |-> y, cursor |-> w.cursor] BY <1>29, <1>30
<1>32. QED BY <1>25, <1>27, <1>28, <1>30, <1>31 DEF IsReconciling

\* A row that has been reconciled needs no other look.
LEMMA ReconcileOK ==
  ASSUME SamplesOK, IdsPositive(stays), cursor \in Nat, NEW w, NEW todo, IsReconciling(w, todo), NEW k
  PROVE  IsReconciling(Reconcile(w, k), todo \ {k})
<1>1. CASE k \notin DOMAIN w.t.rows
  <2>1. Reconcile(w, k) = w BY <1>1 DEF Reconcile
  <2>2. ClearRows(w.t, Covering, todo \ {k}) BY <1>1, GoneFromTodo DEF IsReconciling, Good
  <2>3. QED BY <2>1, <2>2 DEF IsReconciling, Good
<1>2. CASE k \in DOMAIN w.t.rows /\ k = w.t.open BY <1>2, ReconcileOpen
<1>3. CASE k \in DOMAIN w.t.rows /\ k # w.t.open BY <1>3, ReconcileClosed
<1>4. QED BY <1>1, <1>2, <1>3

\* What every action keeps of the cursor.
CursorOK == cursor \in Nat /\ cursor <= LatestId

StoreOK == SamplesOK /\ StaysOK(stays) /\ CursorOK

\* The ids in the store are positive.
LEMMA StoredIdsPositive == StoreOK => IdsPositive(stays)
BY DEF StoreOK, StaysOK, IsStored, IdsPositive

\* After the reconciliation no row is left that a visit claims.
LEMMA ReconciledOK ==
  ASSUME StoreOK
  PROVE  IsReconciling(Reconciled, {})
<1>1. PICK l : l = Ledger OBVIOUS
<1>2. PICK todo : todo = Covered(l) OBVIOUS
<1>3. SamplesOK /\ StaysOK(stays) /\ IdsPositive(stays) /\ cursor \in Nat
  BY StoredIdsPositive DEF StoreOK, CursorOK
<1>4. /\ Good(l, stays, Fix, Covering, todo, {}) /\ OpenIsOpen(l) /\ l.pending = NoDwell
      /\ DOMAIN l.rows \in SUBSET Nat /\ IsFiniteSet(DOMAIN l.rows)
  BY <1>1, <1>2, <1>3, LedgerGood DEF Covered
<1>5. PICK top : top = LastOf(DOMAIN l.rows) OBVIOUS
<1>6. top \in Nat /\ \A k \in DOMAIN l.rows : k <= top BY <1>4, <1>5, LastOfNaturals
<1>7. todo \subseteq DOMAIN l.rows BY <1>2 DEF Covered
<1>8. PICK g : g = Reconciling(l) OBVIOUS
<1>9. PICK from : from = IF IdsRestarted THEN 0 ELSE cursor OBVIOUS
<1>10. /\ g[0] = [t |-> l, cursor |-> from]
       /\ \A n \in 1 .. top : g[n] = (IF n \in todo THEN Reconcile(g[n - 1], n) ELSE g[n - 1])
  BY <1>2, <1>5, <1>6, <1>8, <1>9, ReconcilingRounds
<1>11. from \in Nat /\ from <= cursor BY <1>3, <1>9
<1> DEFINE Left(n) == {k \in todo : k > n}
           Bad == {n \in 0 .. top : ~ IsReconciling(g[n], Left(n))}
<1>12. IsReconciling(g[0], Left(0))
  <2>1. Left(0) = todo
    <3>1. \A k \in DOMAIN l.rows : k > 0
      <4>1. DOMAIN l.rows \subseteq 1 .. (l.fresh - 1) BY <1>4 DEF Good, LedgerOK, Numbered
      <4>2. QED BY <4>1
    <3>2. QED BY <1>7, <3>1
  <2> HIDE DEF Left
  <2>2. QED BY <1>4, <1>10, <1>11, <2>1 DEF IsReconciling
<1>13. Bad = {}
  <2>1. SUFFICES ASSUME Bad # {} PROVE FALSE OBVIOUS
  <2>2. PICK m \in Bad : \A k \in Bad : m <= k
    <3>1. Bad \in SUBSET Nat BY <1>6
    <3> HIDE DEF Bad
    <3>2. QED BY <2>1, <3>1, HasLeast
  <2>3. m \in 0 .. top /\ ~ IsReconciling(g[m], Left(m)) OBVIOUS
  <2>4. m # 0 BY <1>12, <2>3
  <2>5. m - 1 \in 0 .. top /\ m \in 1 .. top /\ ~ (m <= m - 1) BY <1>6, <2>3, <2>4
  <2>6. m - 1 \notin Bad
    <3> HIDE DEF Bad
    <3>1. QED BY <2>2, <2>5
  <2>7. IsReconciling(g[m - 1], Left(m - 1)) BY <2>5, <2>6
  <2>8. Left(m) = Left(m - 1) \ {m}
    <3>1. \A k \in todo : k > m <=> k > m - 1 /\ k # m BY <1>4, <1>7, <2>5
    <3>2. QED BY <3>1, Zenon
  <2>9. CASE m \in todo
    <3>1. g[m] = Reconcile(g[m - 1], m) BY <1>10, <2>5, <2>9
    <3> HIDE DEF Left
    <3>2. QED BY <1>3, <2>3, <2>7, <2>8, <3>1, ReconcileOK
  <2>10. CASE m \notin todo
    <3>1. g[m] = g[m - 1] BY <1>10, <2>5, <2>10
    <3>2. m \notin Left(m - 1) BY <2>10
    <3> HIDE DEF Left
    <3>3. Left(m) = Left(m - 1) BY <2>8, <3>2
    <3>4. QED BY <2>3, <2>7, <3>1, <3>3
  <2>11. QED BY <2>9, <2>10
<1>14. Left(top) = {}
  <2>1. \A k \in todo : ~ (k > top) BY <1>4, <1>6, <1>7
  <2>2. QED BY <2>1
<1>15. top \in 0 .. top BY <1>6
<1>16. IsReconciling(g[top], {}) BY <1>13, <1>14, <1>15
<1>17. QED BY <1>1, <1>5, <1>8, <1>16 DEF Reconciled

----------------------------------------------------------------------------
(* What a run writes.                                                        *)

\* A row of the ledger stored under an id is a stored stay.
LEMMA StoredRow ==
  ASSUME NEW id \in Nat \ {0}, NEW r, RowOK(r, stays)
  PROVE  LET x == [id |-> id, closed |-> r.closed, c |-> r.c] IN
         IsStored(x) /\ x.id = id /\ x.c = r.c
<1>1. r.closed \in BOOLEAN /\ r.c \in Cluster /\ Spread(r.c) BY DEF RowOK, Row
<1>2. PICK b \in BOOLEAN, c \in Cluster : b = r.closed /\ c = r.c BY <1>1
<1>3. PICK x : x = [id |-> id, closed |-> b, c |-> c] OBVIOUS
<1>4. x \in Row /\ x.id = id /\ x.c = c BY <1>3 DEF Row
<1>5. [id |-> id, closed |-> r.closed, c |-> r.c] = x BY <1>2, <1>3
<1>6. IsStored(x) BY <1>1, <1>2, <1>4 DEF IsStored
<1>7. QED BY <1>2, <1>4, <1>5, <1>6

\* A stay that is not deleted takes over a row of the ledger.
LEMMA UpdatedOK ==
  ASSUME StaysOK(stays), NEW t, LedgerOK(t, stays), StoredKept(t, stays),
         NEW s \in DeleteDerivedStays(stays, t.removed)
  PROVE  \E k \in DOMAIN t.rows :
           /\ RowsOf(t, s.id) # {} /\ t.rows[k].id = s.id
           /\ UpdateDerivedStay(s, t.rows[CHOOSE j \in RowsOf(t, s.id) : TRUE])
                = [id |-> s.id, closed |-> t.rows[k].closed, c |-> t.rows[k].c]
<1>1. s \in stays /\ \A k \in DOMAIN t.removed : t.removed[k].id # s.id
  BY DEF DeleteDerivedStays
<1>2. ~ Holds(t.removed, s.id) BY <1>1, Zenon DEF Holds
<1>3. Holds(t.rows, s.id) BY <1>1, <1>2, Zenon DEF StoredKept, IsKept
<1>4. RowsOf(t, s.id) # {} BY <1>3 DEF Holds, RowsOf
<1>5. PICK k : k = CHOOSE j \in RowsOf(t, s.id) : TRUE OBVIOUS
<1>6. k \in RowsOf(t, s.id) BY <1>4, <1>5
<1>7. k \in DOMAIN t.rows /\ t.rows[k].id = s.id BY <1>6 DEF RowsOf
<1>8. PICK r : r = t.rows[k] OBVIOUS
<1>9. RowOK(r, stays) /\ r.id = s.id BY <1>7, <1>8 DEF LedgerOK
<1>10. s \in Row BY <1>1 DEF StaysOK, IsStored
<1>11. s.c.start = r.c.start BY <1>1, <1>9 DEF RowOK
<1>12. PICK d : d = r.c OBVIOUS
<1>13. d \in Cluster BY <1>9, <1>12 DEF RowOK, Row
<1>14. PICK e : e = [d EXCEPT !.start = s.c.start] OBVIOUS
<1>15. e = d BY <1>11, <1>12, <1>13, <1>14 DEF Cluster
<1>16. UpdateDerivedStay(s, r) = [s EXCEPT !.c = e, !.closed = r.closed]
  BY <1>12, <1>14 DEF UpdateDerivedStay
<1>17. UpdateDerivedStay(s, r) = [id |-> s.id, closed |-> r.closed, c |-> e]
  BY <1>10, <1>16 DEF Row
<1>18. QED BY <1>4, <1>5, <1>7, <1>8, <1>12, <1>15, <1>17

\* A table in which no row is claimed by a visit.
IsClear(S, V) == \A r \in S : ~ OverlapsVisit(r.c, V)

\* The stays that are updated or left as they were are well formed, and clear when the ledger is.
LEMMA UpdateOK ==
  ASSUME StaysOK(stays), NEW t, LedgerOK(t, stays), StoredKept(t, stays), NEW V, ClearRows(t, V, {})
  PROVE  LET U == UpdateDerivedStays(DeleteDerivedStays(stays, t.removed), t) IN
         StaysOK(U) /\ IsClear(U, V)
<1>1. PICK D : D = DeleteDerivedStays(stays, t.removed) OBVIOUS
<1>2. PICK f : f = [s \in D |->
        IF RowsOf(t, s.id) = {} THEN s
        ELSE UpdateDerivedStay(s, t.rows[CHOOSE k \in RowsOf(t, s.id) : TRUE])]
  OBVIOUS
<1>3. PICK U : U = UpdateDerivedStays(D, t) OBVIOUS
<1>4. U = {f[s] : s \in D} BY <1>2, <1>3 DEF UpdateDerivedStays
<1>5. IsMap(f) /\ DOMAIN f = D BY <1>2 DEF IsMap
<1>6. D \in SUBSET stays BY <1>1 DEF DeleteDerivedStays
<1>7. IsFiniteSet(U)
  <2>1. IsFiniteSet(D) BY <1>6, FS_Subset DEF StaysOK
  <2>2. QED BY <1>4, <1>5, <2>1, ImageIsFinite
<1>8. ASSUME NEW s \in D
      PROVE  IsStored(f[s]) /\ f[s].id = s.id /\ ~ OverlapsVisit(f[s].c, V)
  <2>1. PICK k \in DOMAIN t.rows :
          /\ RowsOf(t, s.id) # {}
          /\ UpdateDerivedStay(s, t.rows[CHOOSE j \in RowsOf(t, s.id) : TRUE])
               = [id |-> s.id, closed |-> t.rows[k].closed, c |-> t.rows[k].c]
    BY <1>1, UpdatedOK
  <2>2. PICK r : r = t.rows[k] OBVIOUS
  <2>3. f[s] = [id |-> s.id, closed |-> r.closed, c |-> r.c] BY <1>2, <2>1, <2>2
  <2>4. RowOK(r, stays) BY <2>2 DEF LedgerOK
  <2>5. s.id \in Nat \ {0}
    <3>1. IsStored(s) BY <1>6 DEF StaysOK
    <3>2. QED BY <3>1 DEF IsStored, Row
  <2>6. IsStored(f[s]) /\ f[s].id = s.id /\ f[s].c = r.c BY <2>3, <2>4, <2>5, StoredRow
  <2>7. ~ OverlapsVisit(r.c, V) BY <2>2, Zenon DEF ClearRows
  <2>8. QED BY <2>6, <2>7
<1>9. ByOneId(U)
  <2>1. ASSUME NEW a \in D, NEW b \in D, f[a].id = f[b].id PROVE f[a] = f[b]
    <3>1. a.id = b.id BY <1>8, <2>1
    <3>2. a = b BY <1>6, <3>1 DEF StaysOK, ByOneId
    <3>3. QED BY <3>2
  <2>2. ASSUME NEW x \in U, NEW y \in U, x.id = y.id PROVE x = y
    <3>1. PICK a \in D : x = f[a] BY <1>4
    <3>2. PICK b \in D : y = f[b] BY <1>4
    <3>3. QED BY <2>1, <2>2, <3>1, <3>2
  <2>3. QED BY <2>2 DEF ByOneId
<1>10. \A x \in U : IsStored(x) /\ ~ OverlapsVisit(x.c, V) BY <1>4, <1>8
<1>11. QED BY <1>1, <1>3, <1>7, <1>9, <1>10, Zenon DEF StaysOK, IsClear

\* The ids of the rows inserted are new, each its own.
LEMMA InsertOK ==
  ASSUME NEW S, StaysOK(S), NEW t, LedgerOK(t, stays), NEW V, ClearRows(t, V, {}), IsClear(S, V)
  PROVE  StaysOK(InsertStays(S, t)) /\ IsClear(InsertStays(S, t), V)
<1>1. PICK I : I = RowsOf(t, 0) OBVIOUS
<1>2. PICK last : last = LastOf({s.id : s \in S}) OBVIOUS
<1> DEFINE Upto(k) == {j \in I : j <= k}
<1>3. PICK f : f = [k \in I |->
        [id |-> last + Cardinality(Upto(k)), closed |-> t.rows[k].closed, c |-> t.rows[k].c]]
  OBVIOUS
<1>4. PICK N : N = {f[k] : k \in I} OBVIOUS
<1>5. InsertStays(S, t) = S \cup N BY <1>1, <1>2, <1>3, <1>4 DEF InsertStays
<1>6. I \in SUBSET DOMAIN t.rows BY <1>1 DEF RowsOf
<1>7. IsFiniteSet(I) /\ I \in SUBSET Nat
  <2>1. IsFiniteSet(DOMAIN t.rows) /\ DOMAIN t.rows \in SUBSET Nat BY RowsAreFinite
  <2>2. QED BY <1>6, <2>1, FS_Subset
<1>8. last \in Nat /\ \A s \in S : s.id \in Nat /\ s.id <= last
  <2>1. \A s \in S : s.id \in Nat BY DEF StaysOK, IsStored, Row
  <2>2. PICK ids : ids = {s.id : s \in S} OBVIOUS
  <2>3. IsFiniteSet(ids) /\ ids \in SUBSET Nat BY <2>1, <2>2, IdsOf DEF StaysOK
  <2>4. last \in Nat /\ \A i \in ids : i <= last BY <1>2, <2>2, <2>3, LastOfNaturals
  <2>5. QED BY <2>1, <2>2, <2>4
<1>9. ASSUME NEW k \in I
      PROVE  IsFiniteSet(Upto(k)) /\ Cardinality(Upto(k)) \in Nat \ {0}
  <2>1. Upto(k) \in SUBSET I /\ k \in Upto(k) BY <1>7
  <2>2. PICK A : A = Upto(k) OBVIOUS
  <2>3. IsFiniteSet(A) /\ A # {} BY <1>7, <2>1, <2>2, FS_Subset
  <2>4. Cardinality(A) \in Nat /\ Cardinality(A) # 0 BY <2>3, FS_CardinalityType, FS_EmptySet
  <2>5. QED BY <2>2, <2>3, <2>4
<1>10. ASSUME NEW j \in I, NEW k \in I, j < k
       PROVE  Cardinality(Upto(j)) < Cardinality(Upto(k))
  <2>1. PICK A, B : A = Upto(j) /\ B = Upto(k) OBVIOUS
  <2>2. A \in SUBSET B /\ k \in B /\ k \notin A
    <3>1. \A i \in I : i <= j => i <= k BY <1>7, <1>10
    <3>2. k <= k /\ ~ (k <= j) BY <1>7, <1>10
    <3>3. QED BY <2>1, <3>1, <3>2
  <2>3. IsFiniteSet(B) /\ Cardinality(A) \in Nat /\ Cardinality(B) \in Nat
    <3> HIDE DEF Upto
    <3>1. QED BY <1>9, <2>1
  <2>4. Cardinality(A) <= Cardinality(B) /\ Cardinality(A) # Cardinality(B)
    BY <2>2, <2>3, FS_Subset
  <2>5. Cardinality(A) < Cardinality(B) BY <2>3, <2>4
  <2>6. QED BY <2>1, <2>5
<1> HIDE DEF Upto
<1>11. ASSUME NEW k \in I
       PROVE  /\ IsStored(f[k]) /\ f[k].id = last + Cardinality(Upto(k)) /\ f[k].id > last
              /\ ~ OverlapsVisit(f[k].c, V)
  <2>1. PICK id : id = last + Cardinality(Upto(k)) OBVIOUS
  <2>2. id \in Nat \ {0} /\ id > last BY <1>8, <1>9, <2>1
  <2>3. PICK r : r = t.rows[k] OBVIOUS
  <2>4. k \in DOMAIN t.rows BY <1>6
  <2>5. RowOK(r, stays) BY <2>3, <2>4 DEF LedgerOK
  <2>6. f[k] = [id |-> id, closed |-> r.closed, c |-> r.c] BY <1>3, <2>1, <2>3
  <2>7. IsStored(f[k]) /\ f[k].id = id /\ f[k].c = r.c BY <2>2, <2>5, <2>6, StoredRow
  <2>8. ~ OverlapsVisit(r.c, V) BY <2>3, <2>4, Zenon DEF ClearRows
  <2>9. QED BY <2>1, <2>2, <2>7, <2>8
<1>12. ASSUME NEW j \in I, NEW k \in I, f[j].id = f[k].id PROVE j = k
  <2>1. PICK a, b : a = Cardinality(Upto(j)) /\ b = Cardinality(Upto(k)) OBVIOUS
  <2>2. a \in Nat /\ b \in Nat BY <1>9, <2>1
  <2>3. last + a = last + b BY <1>11, <1>12, <2>1
  <2>4. a = b BY <1>8, <2>2, <2>3
  <2>5. ~ (j < k) /\ ~ (k < j)
    <3>1. j < k => a < b BY <1>10, <2>1
    <3>2. k < j => b < a BY <1>10, <2>1
    <3>3. QED BY <2>2, <2>4, <3>1, <3>2
  <2>6. j \in Nat /\ k \in Nat BY <1>7
  <2>7. QED BY <2>5, <2>6
<1>13. IsFiniteSet(S \cup N)
  <2>1. IsMap(f) /\ DOMAIN f = I BY <1>3 DEF IsMap
  <2>2. IsFiniteSet(N) BY <1>4, <1>7, <2>1, ImageIsFinite
  <2>3. IsFiniteSet(S) BY DEF StaysOK
  <2>4. QED BY <2>2, <2>3, FS_Union
<1>14. ByOneId(S \cup N)
  <2>1. \A a, b \in S : a.id = b.id => a = b BY DEF StaysOK, ByOneId
  <2>2. \A a \in S : \A k \in I : a.id # f[k].id
    <3>1. \A a \in S : \A k \in I : a.id \in Nat /\ a.id <= last /\ f[k].id > last /\ f[k].id \in Nat
      <4>1. \A k \in I : f[k].id \in Nat BY <1>11 DEF IsStored, Row
      <4>2. QED BY <1>8, <1>11, <4>1
    <3>2. QED BY <1>8, <3>1
  <2>3. \A j, k \in I : f[j].id = f[k].id => f[j] = f[k] BY <1>12
  <2>4. \A x \in N : \E k \in I : x = f[k] BY <1>4
  <2>5. ASSUME NEW a \in N, NEW b \in N, a.id = b.id PROVE a = b
    <3>1. PICK j \in I : a = f[j] BY <2>4
    <3>2. PICK k \in I : b = f[k] BY <2>4
    <3>3. QED BY <2>3, <2>5, <3>1, <3>2
  <2>6. \A a \in S : \A b \in N : a.id # b.id BY <2>2, <2>4, Zenon
  <2>7. QED BY <2>1, <2>5, <2>6 DEF ByOneId
<1>15. \A x \in N : IsStored(x) /\ ~ OverlapsVisit(x.c, V) BY <1>4, <1>11
<1>16. StaysOK(S \cup N) BY <1>13, <1>14, <1>15 DEF StaysOK
<1>17. IsClear(S \cup N, V) BY <1>15 DEF IsClear
<1>18. QED BY <1>5, <1>16, <1>17

\* What a run writes is a store of its kind.
LEMMA WrittenOK ==
  ASSUME StaysOK(stays), NEW t, LedgerOK(t, stays), StoredKept(t, stays), NEW V, ClearRows(t, V, {})
  PROVE  StaysOK(Written(t)) /\ IsClear(Written(t), V)
<1>1. PICK U : U = UpdateDerivedStays(DeleteDerivedStays(stays, t.removed), t) OBVIOUS
<1>2. StaysOK(U) /\ IsClear(U, V) BY <1>1, UpdateOK
<1>3. Written(t) = InsertStays(U, t) BY <1>1 DEF Written
<1>4. QED BY <1>2, <1>3, InsertOK

\* What the cursor comes to: the fixes up to it that this run read, it finished with.
LEMMA NewCursorOK ==
  ASSUME SamplesOK, NEW from \in Nat, from <= LatestId,
         NEW members \in Seq(AfterId(from))
  PROVE  LET fed == ById(AfterId(from))
             to == NewCursor(from, fed, members)
         IN /\ to \in Nat /\ to <= LatestId
            /\ \A s \in samples : s.id <= to =>
                 s.id <= from \/ s.n \in {fed[i].n : i \in {j \in DOMAIN fed : j <= to}}
<1>1. PICK S : S = AfterId(from) OBVIOUS
<1>2. S \in SUBSET samples /\ \A s \in samples : s \in S <=> s.id > from BY <1>1 DEF AfterId
<1>3. PICK fed : fed = ById(S) OBVIOUS
<1>4. /\ IsList(fed, S) /\ DOMAIN fed = {s.id : s \in S}
      /\ \A s \in S : s.id \in DOMAIN fed /\ fed[s.id] = s
  BY <1>2, <1>3, ByIdIsList
<1>5. PICK to : to = NewCursor(from, fed, members) OBVIOUS
<1>6. LatestId \in Nat /\ \A s \in samples : s.id \in Nat \ {0} /\ s.id <= LatestId
  BY LatestIdOK DEF SamplesOK, LatestId, Ids, Fix
<1>7. to \in Nat /\ to <= LatestId
  <2>1. CASE members # <<>>
    <3>1. PICK h : h = Head(members) OBVIOUS
    <3>2. h \in S BY <1>1, <2>1, <3>1
    <3>3. h.id \in Nat \ {0} /\ h.id <= LatestId BY <1>2, <1>6, <3>2
    <3>4. to = h.id - 1 BY <1>5, <2>1, <3>1 DEF NewCursor
    <3>5. QED BY <1>6, <3>3, <3>4
  <2>2. CASE members = <<>> /\ DOMAIN fed = {}
    <3>1. to = from BY <1>5, <2>2 DEF NewCursor
    <3>2. QED BY <3>1
  <2>3. CASE members = <<>> /\ DOMAIN fed # {}
    <3>1. to = LastOf(DOMAIN fed) BY <1>5, <2>3 DEF NewCursor
    <3>2. to \in DOMAIN fed BY <1>4, <2>3, <3>1, LastOfNaturals DEF IsList
    <3>3. PICK s \in S : to = s.id BY <1>4, <3>2
    <3>4. QED BY <1>2, <1>6, <3>3
  <2>4. QED BY <2>1, <2>2, <2>3
<1>8. ASSUME NEW s \in samples, s.id <= to, ~ (s.id <= from)
      PROVE  s.n \in {fed[i].n : i \in {j \in DOMAIN fed : j <= to}}
  <2>1. s.id \in Nat BY <1>6
  <2>2. s.id > from BY <1>8, <2>1
  <2>3. s \in S BY <1>2, <2>2
  <2>4. s.id \in DOMAIN fed /\ fed[s.id] = s BY <1>4, <2>3
  <2>5. s.id \in {j \in DOMAIN fed : j <= to} BY <1>8, <2>4
  <2>6. QED BY <2>4, <2>5
<1>9. QED BY <1>1, <1>3, <1>5, <1>7, <1>8

\* A derivation: the stays, the cursor and what it finished with.
LEMMA DerivedOK ==
  ASSUME StoreOK
  PROVE  LET d == DerivedStays IN
         /\ StaysOK(d.stays) /\ IsClear(d.stays, Covering)
         /\ d.cursor \in Nat /\ d.cursor <= LatestId
         /\ \A s \in samples : s.id <= d.cursor => s.id <= cursor \/ s.n \in d.finished
<1>1. PICK w : w = Reconciled OBVIOUS
<1>2. IsReconciling(w, {}) BY <1>1, ReconciledOK
<1>3. PICK from : from = w.cursor OBVIOUS
<1>4. SamplesOK /\ StaysOK(stays) /\ IdsPositive(stays) /\ cursor \in Nat /\ cursor <= LatestId
  BY StoredIdsPositive DEF StoreOK, CursorOK
<1>5. /\ LatestId \in Nat /\ \A s \in samples : s.id \in Nat
  BY <1>4, LatestIdOK DEF SamplesOK, LatestId, Ids, Fix
<1>6. from \in Nat /\ from <= cursor /\ from <= LatestId
  <2>1. from \in Nat /\ from <= cursor BY <1>2, <1>3 DEF IsReconciling
  <2>2. QED BY <1>4, <1>5, <2>1
<1>7. PICK F : F = AfterId(from) OBVIOUS
<1>8. F \in SUBSET samples /\ F \subseteq Fix BY <1>4, <1>7 DEF AfterId, SamplesOK
<1>9. PICK fed : fed = ById(F) OBVIOUS
<1>10. IsList(fed, F) BY <1>4, <1>8, <1>9, ByIdIsList
<1>11. Good(w.t, stays, F, Covering, {}, {})
  <2>1. IsDwell(w.t.pending, F) BY <1>2, NoDwellIsDwell DEF IsReconciling
  <2>2. QED BY <1>2, <2>1 DEF IsReconciling, Good
<1>12. PICK t : t = FeedAll(w.t, fed, Covering) OBVIOUS
<1>13. Good(t, stays, F, Covering, {}, {}) BY <1>4, <1>8, <1>10, <1>11, <1>12, FeedAllGood
<1>14. PICK to : to = NewCursor(from, fed, t.pending.members) OBVIOUS
<1>15. PICK d : d = DerivedStays OBVIOUS
<1>16. /\ d.stays = Written(t) /\ d.cursor = to
       /\ d.finished = {fed[i].n : i \in {j \in DOMAIN fed : j <= to}}
  BY <1>1, <1>3, <1>7, <1>9, <1>12, <1>14, <1>15 DEF DerivedStays, DerivedFrom, Outcome
<1>17. StaysOK(d.stays) /\ IsClear(d.stays, Covering)
  BY <1>4, <1>13, <1>16, WrittenOK DEF Good
<1>18. t.pending.members \in Seq(AfterId(from)) BY <1>7, <1>13 DEF Good, IsDwell
<1>19. /\ to \in Nat /\ to <= LatestId
       /\ \A s \in samples : s.id <= to => s.id <= from \/ s.n \in d.finished
  BY <1>4, <1>6, <1>7, <1>9, <1>14, <1>16, <1>18, NewCursorOK
<1>20. ASSUME NEW s \in samples, s.id <= to PROVE s.id <= cursor \/ s.n \in d.finished
  <2>1. s.id <= from => s.id <= cursor BY <1>4, <1>5, <1>6
  <2>2. QED BY <1>19, <1>20, <2>1
<1>21. QED BY <1>15, <1>16, <1>17, <1>19, <1>20

----------------------------------------------------------------------------
(* The invariant of the history.                                             *)

Visit == [start : Nat, end : Nat, pos : VisitPlaces, closed : BOOLEAN]
VisitsOK == visits \subseteq Visit /\ IsFiniteSet(visits)
ClockOK == now \in Nat /\ run \in [step : {"idle", "purge", "sync"}, nowTs : Nat]

HistoryInv == StoreOK /\ VisitsOK /\ ClockOK /\ log \in Seq(Fix) /\ NoFixSkipped

\* No fix has an id above LatestId.
LEMMA LatestIdNat == SamplesOK => LatestId \in Nat /\ \A s \in samples : s.id \in Nat \ {0} /\ s.id <= LatestId
BY LatestIdOK DEF SamplesOK, LatestId, Ids, Fix

\* A fix gets an id above the cursor.
LEMMA StoreFixStep ==
  ASSUME HistoryInv, NEW p \in Positions, StoreFix(p)
  PROVE  HistoryInv'
<1>1. PICK s : s = [id |-> LatestId + 1, ts |-> now, pos |-> p, n |-> Len(log) + 1] OBVIOUS
<1>2. /\ samples' = samples \cup {s} /\ log' = Append(log, s)
      /\ UNCHANGED <<now, stays, visits, cursor, run, finished>>
  BY <1>1 DEF StoreFix
<1>3. /\ SamplesOK /\ StaysOK(stays) /\ cursor \in Nat /\ cursor <= LatestId /\ VisitsOK /\ ClockOK
      /\ log \in Seq(Fix) /\ NoFixSkipped
  BY DEF HistoryInv, StoreOK, CursorOK
<1>4. LatestId \in Nat /\ \A x \in samples : x.id \in Nat \ {0} /\ x.id <= LatestId
  BY <1>3, LatestIdNat
<1>5. s \in Fix
  <2>1. LatestId + 1 \in Nat \ {0} /\ Len(log) + 1 \in Nat \ {0} /\ now \in Nat
    BY <1>3, <1>4 DEF ClockOK
  <2>2. QED BY <1>1, <2>1 DEF Fix
<1>6. s.id = LatestId + 1 BY <1>1
<1>7. SamplesOK'
  <2>1. samples' \subseteq Fix BY <1>2, <1>3, <1>5 DEF SamplesOK
  <2>2. IsFiniteSet(samples') BY <1>2, <1>3, FS_AddElement DEF SamplesOK
  <2>3. \A x \in samples : x.id # s.id BY <1>4, <1>6
  <2>4. ByOneId(samples') BY <1>2, <1>3, <2>3 DEF SamplesOK, ByOneId
  <2>5. QED BY <2>1, <2>2, <2>4 DEF SamplesOK
<1>8. LatestId' \in Nat /\ LatestId + 1 <= LatestId'
  <2>1. LatestId' \in Nat /\ \A x \in samples' : x.id <= LatestId'
    BY <1>7, LatestIdOK DEF SamplesOK, LatestId, Ids
  <2>2. QED BY <1>2, <1>6, <2>1
<1>9. CursorOK'
  <2>1. cursor <= LatestId' BY <1>3, <1>4, <1>8
  <2>2. QED BY <1>2, <1>3, <2>1 DEF CursorOK
<1>10. NoFixSkipped'
  <2>1. ~ (s.id <= cursor) BY <1>3, <1>4, <1>6
  <2>2. QED BY <1>2, <1>3, <2>1 DEF NoFixSkipped
<1>11. StaysOK(stays)' /\ VisitsOK' /\ ClockOK'
  BY <1>2, <1>3 DEF StaysOK, VisitsOK, ClockOK
<1>12. log' \in Seq(Fix) BY <1>2, <1>3, <1>5
<1>13. QED BY <1>7, <1>9, <1>10, <1>11, <1>12 DEF HistoryInv, StoreOK

\* Steps that leave the samples, the stays and the cursor alone.
LEMMA KeptStep ==
  ASSUME HistoryInv, UNCHANGED <<samples, stays, cursor, log, finished>>, VisitsOK', ClockOK'
  PROVE  HistoryInv'
<1>1. SamplesOK' /\ StaysOK(stays)' /\ CursorOK' /\ NoFixSkipped'
  BY DEF HistoryInv, StoreOK, SamplesOK, StaysOK, CursorOK, LatestId, Ids, NoFixSkipped
<1>2. log' \in Seq(Fix) BY DEF HistoryInv
<1>3. QED BY <1>1, <1>2 DEF HistoryInv, StoreOK

\* Each action keeps the store well formed and the cursor true: a visit,
LEMMA VisitReportedStep ==
  ASSUME HistoryInv, NEW v \in PossibleVisits, VisitReported(v)
  PROVE  HistoryInv'
<1>1. visits' = visits \cup {v} /\ UNCHANGED <<now, samples, stays, cursor, run, log, finished>>
  BY DEF VisitReported
<1>2. v \in Visit BY StayAssumption DEF PossibleVisits, Visit
<1>3. VisitsOK' BY <1>1, <1>2, FS_AddElement DEF HistoryInv, VisitsOK
<1>4. ClockOK' BY <1>1 DEF HistoryInv, ClockOK
<1>5. QED BY <1>1, <1>3, <1>4, KeptStep

\* the end of one,
LEMMA VisitEndsStep ==
  ASSUME HistoryInv, NEW v \in visits, NEW t \in 0 .. MaxTime, VisitEnds(v, t)
  PROVE  HistoryInv'
<1>1. PICK e : e = [v EXCEPT !.end = t, !.closed = TRUE] OBVIOUS
<1>2. /\ visits' = (visits \ {v}) \cup {e}
      /\ UNCHANGED <<now, samples, stays, cursor, run, log, finished>>
  BY <1>1 DEF VisitEnds
<1>3. v \in Visit BY DEF HistoryInv, VisitsOK
<1>4. PICK b \in BOOLEAN : b = TRUE OBVIOUS
<1>5. e = [start |-> v.start, end |-> t, pos |-> v.pos, closed |-> b] BY <1>1, <1>3, <1>4 DEF Visit
<1>6. e \in Visit
  <2>1. t \in Nat BY StayAssumption
  <2>2. QED BY <1>3, <1>5, <2>1 DEF Visit
<1>7. IsFiniteSet(visits \ {v}) BY FS_RemoveElement DEF HistoryInv, VisitsOK
<1>8. IsFiniteSet(visits') BY <1>2, <1>7, FS_AddElement
<1>9. visits' \subseteq Visit BY <1>2, <1>6 DEF HistoryInv, VisitsOK
<1>10. VisitsOK' BY <1>8, <1>9 DEF VisitsOK
<1>11. ClockOK' BY <1>2 DEF HistoryInv, ClockOK
<1>12. QED BY <1>2, <1>10, <1>11, KeptStep

\* time,
LEMMA ClockStep ==
  ASSUME HistoryInv, ClockMoves
  PROVE  HistoryInv'
<1>1. /\ now' \in Nat /\ UNCHANGED <<samples, stays, visits, cursor, run, log, finished>>
  <2>1. CASE Tick BY <2>1 DEF Tick, HistoryInv, ClockOK
  <2>2. ASSUME NEW t \in 0 .. MaxTime, SetBack(t)
        PROVE  now' \in Nat /\ UNCHANGED <<samples, stays, visits, cursor, run, log, finished>>
    <3>1. t \in Nat BY StayAssumption
    <3>2. QED BY <2>2, <3>1 DEF SetBack
  <2>3. QED BY <2>1, <2>2 DEF ClockMoves
<1>2. VisitsOK' /\ ClockOK' BY <1>1 DEF HistoryInv, VisitsOK, ClockOK
<1>3. QED BY <1>1, <1>2, KeptStep

\* A stay that begins before the cut off begins there.
LEMMA TrimmedOK ==
  ASSUME NEW S, StaysOK(S), NEW cutoff \in Int
  PROVE  StaysOK(Trimmed(S, cutoff))
<1>1. PICK D : D = {x \in S : x.c.end >= cutoff} OBVIOUS
<1>2. PICK f : f = [r \in D |-> [r EXCEPT !.c.start = Larger(@, cutoff)]] OBVIOUS
<1>3. PICK T : T = Trimmed(S, cutoff) OBVIOUS
<1>4. T = {f[r] : r \in D} BY <1>1, <1>2, <1>3 DEF Trimmed
<1>5. D \in SUBSET S BY <1>1
<1>6. IsFiniteSet(T)
  <2>1. IsMap(f) /\ DOMAIN f = D BY <1>2 DEF IsMap
  <2>2. IsFiniteSet(D) BY <1>5, FS_Subset DEF StaysOK
  <2>3. QED BY <1>4, <2>1, <2>2, ImageIsFinite
<1>7. ASSUME NEW r \in D PROVE IsStored(f[r]) /\ f[r].id = r.id
  <2>1. IsStored(r) BY <1>5 DEF StaysOK
  <2>2. r \in Row /\ r.id # 0 /\ r.c \in Cluster /\ Spread(r.c) BY <2>1 DEF IsStored, Row
  <2>3. PICK n : n = Larger(r.c.start, cutoff) OBVIOUS
  <2>4. n \in Nat
    <3>1. r.c.start \in Nat BY <2>2 DEF Cluster
    <3>2. QED BY <2>3, <3>1 DEF Larger
  <2>5. PICK d : d = [r.c EXCEPT !.start = n] OBVIOUS
  <2>6. d \in Cluster /\ d.sum = r.c.sum /\ d.count = r.c.count BY <2>2, <2>4, <2>5 DEF Cluster
  <2>7. Spread(d) BY <2>2, <2>6 DEF Spread
  <2>8. f[r] = [r EXCEPT !.c = d] BY <1>2, <2>3, <2>5
  <2>9. f[r] \in Row /\ f[r].id = r.id /\ f[r].c = d BY <2>2, <2>6, <2>8 DEF Row
  <2>10. QED BY <2>2, <2>7, <2>9 DEF IsStored
<1>8. ByOneId(T)
  <2>1. ASSUME NEW x \in T, NEW y \in T, x.id = y.id PROVE x = y
    <3>1. PICK a \in D : x = f[a] BY <1>4
    <3>2. PICK b \in D : y = f[b] BY <1>4
    <3>3. a.id = b.id BY <1>7, <2>1, <3>1, <3>2
    <3>4. a = b BY <1>5, <3>3 DEF StaysOK, ByOneId
    <3>5. QED BY <3>1, <3>2, <3>4
  <2>2. QED BY <2>1 DEF ByOneId
<1>9. \A x \in T : IsStored(x) BY <1>4, <1>7
<1>10. QED BY <1>3, <1>6, <1>8, <1>9 DEF StaysOK

\* the visits that are left when some are trimmed,
LEMMA TrimmedVisitsOK ==
  ASSUME VisitsOK, NEW cutoff \in Int
  PROVE  TrimmedVisits(cutoff) \subseteq Visit /\ IsFiniteSet(TrimmedVisits(cutoff))
<1>1. PICK D : D = {x \in visits : x.end >= cutoff} OBVIOUS
<1>2. PICK f : f = [v \in D |-> [v EXCEPT !.start = Larger(@, cutoff)]] OBVIOUS
<1>3. TrimmedVisits(cutoff) = {f[v] : v \in D} BY <1>1, <1>2 DEF TrimmedVisits
<1>4. D \in SUBSET visits BY <1>1
<1>5. IsFiniteSet({f[v] : v \in D})
  <2>1. IsMap(f) /\ DOMAIN f = D BY <1>2 DEF IsMap
  <2>2. IsFiniteSet(D) BY <1>4, FS_Subset DEF VisitsOK
  <2>3. QED BY <2>1, <2>2, ImageIsFinite
<1>6. ASSUME NEW v \in D PROVE f[v] \in Visit
  <2>1. v \in Visit BY <1>4 DEF VisitsOK
  <2>2. Larger(v.start, cutoff) \in Nat BY <2>1 DEF Larger, Visit
  <2>3. QED BY <1>2, <2>1, <2>2 DEF Visit
<1>7. QED BY <1>3, <1>5, <1>6

\* A purge rewinds the cursor to the samples it leaves.
LEMMA PurgeStep ==
  ASSUME HistoryInv, NEW cutoff \in Int, PurgeHistory(cutoff), UNCHANGED <<now, log, finished>>,
         ClockOK'
  PROVE  HistoryInv'
<1>1. PICK left : left = DeleteSamplesBefore(cutoff) OBVIOUS
<1>2. /\ samples' = left /\ stays' = Trimmed(stays, cutoff) /\ visits' = TrimmedVisits(cutoff)
      /\ cursor' = Rewound(left)
  BY <1>1 DEF PurgeHistory
<1>3. left \in SUBSET samples BY <1>1 DEF DeleteSamplesBefore
<1>4. SamplesOK /\ StaysOK(stays) /\ cursor \in Nat /\ VisitsOK /\ log \in Seq(Fix) /\ NoFixSkipped
  BY DEF HistoryInv, StoreOK, CursorOK
<1>5. SamplesOK'
  <2>1. IsFiniteSet(left) BY <1>3, <1>4, FS_Subset DEF SamplesOK
  <2>2. QED BY <1>2, <1>3, <1>4, <2>1 DEF SamplesOK, ByOneId
<1>6. StaysOK(stays)' /\ VisitsOK'
  <2>1. StaysOK(Trimmed(stays, cutoff)) BY <1>4, TrimmedOK
  <2>2. TrimmedVisits(cutoff) \subseteq Visit /\ IsFiniteSet(TrimmedVisits(cutoff))
    BY <1>4, TrimmedVisitsOK
  <2>3. StaysOK(stays)' BY <1>2, <2>1 DEF StaysOK
  <2>4. QED BY <1>2, <2>2, <2>3 DEF VisitsOK
<1>7. PICK last : last = LastOf({s.id : s \in left}) OBVIOUS
<1>8. last \in Nat
  <2>1. left \subseteq Fix /\ IsFiniteSet(left) BY <1>2, <1>5 DEF SamplesOK
  <2>2. QED BY <1>7, <2>1, LatestIdOK
<1>9. cursor' = Smaller(cursor, last) BY <1>2, <1>7 DEF Rewound
<1>10. cursor' \in Nat /\ cursor' <= last /\ cursor' <= cursor
  BY <1>4, <1>8, <1>9 DEF Smaller
<1>11. CursorOK'
  <2>1. LatestId' = last BY <1>2, <1>7 DEF LatestId, Ids
  <2>2. QED BY <1>10, <2>1 DEF CursorOK
<1>12. NoFixSkipped'
  <2>1. ASSUME NEW s \in left, s.id <= cursor' PROVE s.n \in finished
    <3>1. s \in samples /\ s.id \in Nat BY <1>3, <1>4 DEF SamplesOK, Fix
    <3>2. s.id <= cursor BY <1>4, <1>10, <2>1, <3>1
    <3>3. QED BY <1>4, <3>1, <3>2 DEF NoFixSkipped
  <2>2. QED BY <1>2, <2>1 DEF NoFixSkipped
<1>13. log' \in Seq(Fix) BY <1>4
<1>14. QED BY <1>5, <1>6, <1>11, <1>12, <1>13 DEF HistoryInv, StoreOK

\* and a derivation.
LEMMA DeriveStaysStep ==
  ASSUME HistoryInv, DeriveStays
  PROVE  HistoryInv' /\ IsClear(stays', Covering)
<1>1. PICK d : d = DerivedStays OBVIOUS
<1>2. /\ stays' = d.stays /\ cursor' = d.cursor /\ finished' = finished \cup d.finished
      /\ run' = [step |-> "purge", nowTs |-> now] /\ UNCHANGED <<now, samples, visits, log>>
  BY <1>1 DEF DeriveStays
<1>3. StoreOK /\ VisitsOK /\ ClockOK /\ NoFixSkipped /\ log \in Seq(Fix) BY DEF HistoryInv
<1>4. /\ StaysOK(d.stays) /\ IsClear(d.stays, Covering)
      /\ d.cursor \in Nat /\ d.cursor <= LatestId
      /\ \A s \in samples : s.id <= d.cursor => s.id <= cursor \/ s.n \in d.finished
  BY <1>1, <1>3, DerivedOK
<1>5. SamplesOK' BY <1>2, <1>3 DEF StoreOK, SamplesOK
<1>6. StaysOK(stays)' BY <1>2, <1>4 DEF StaysOK
<1>7. CursorOK'
  <2>1. LatestId' = LatestId BY <1>2 DEF LatestId, Ids
  <2>2. QED BY <1>2, <1>4, <2>1 DEF CursorOK
<1>8. VisitsOK' /\ ClockOK' BY <1>2, <1>3 DEF VisitsOK, ClockOK
<1>9. NoFixSkipped'
  <2>1. ASSUME NEW s \in samples, s.id <= cursor' PROVE s.n \in finished'
    <3>1. s.id <= cursor \/ s.n \in d.finished BY <1>2, <1>4, <2>1
    <3>2. s.id <= cursor => s.n \in finished BY <1>3 DEF NoFixSkipped
    <3>3. QED BY <1>2, <3>1, <3>2
  <2>2. QED BY <1>2, <2>1 DEF NoFixSkipped
<1>10. log' \in Seq(Fix) BY <1>2, <1>3
<1>11. HistoryInv' BY <1>5, <1>6, <1>7, <1>8, <1>9, <1>10 DEF HistoryInv, StoreOK
<1>12. QED BY <1>2, <1>4, <1>11

----------------------------------------------------------------------------
(* The watch set.                                                            *)

\* A quotient is an integer.
LEMMA DividedIsInteger == \A a \in Int : \A n \in Nat \ {0} : a \div n \in Int
OBVIOUS

\* So are the coordinates of a cell.
LEMMA CellsAreIntegers ==
  /\ \A p \in Int : ShardOf(p) \in Int
  /\ \A c \in Int : PushCellOf(c) \in Int
  /\ \A c \in Cluster : CentroidOf(c) \in Int
<1>1. ShardSize \in Nat \ {0} /\ RegionSize \in Nat \ {0} BY WatchAssumption
<1>2. \A p \in Int : ShardOf(p) \in Int BY <1>1, DividedIsInteger DEF ShardOf
<1>3. \A c \in Int : PushCellOf(c) \in Int BY <1>1, DividedIsInteger DEF PushCellOf
<1>4. ASSUME NEW c \in Cluster PROVE CentroidOf(c) \in Int
  <2>1. c.sum \in Int /\ c.count \in Nat \ {0} BY DEF Cluster
  <2>2. QED BY <2>1, DividedIsInteger DEF CentroidOf
<1>5. QED BY <1>2, <1>3, <1>4

\* The cells of the history are finitely many.
LEMMA VisitedIsFinite ==
  ASSUME HistoryInv, NEW t
  PROVE  IsFiniteSet(VisitedShardCells(t)) /\ VisitedShardCells(t) \subseteq Int
<1>1. PICK since : since = t - Retention OBVIOUS
<1>2. PICK A : A = {x \in samples : x.ts >= since} OBVIOUS
<1>3. PICK B : B = {x \in stays : x.c.end >= since} OBVIOUS
<1>4. PICK C : C = {x \in visits : x.end >= since} OBVIOUS
<1>5. PICK f : f = [s \in A |-> ShardOf(s.pos)] OBVIOUS
<1>6. PICK g : g = [r \in B |-> ShardOf(CentroidOf(r.c))] OBVIOUS
<1>7. PICK h : h = [v \in C |-> ShardOf(v.pos)] OBVIOUS
<1>8. SamplesOK /\ StaysOK(stays) /\ VisitsOK BY DEF HistoryInv, StoreOK
<1>9. IsFiniteSet(A) /\ IsFiniteSet(B) /\ IsFiniteSet(C)
  <2>1. A \in SUBSET samples /\ B \in SUBSET stays /\ C \in SUBSET visits BY <1>2, <1>3, <1>4
  <2>2. QED BY <1>8, <2>1, FS_Subset DEF SamplesOK, StaysOK, VisitsOK
<1>10. VisitedShardCells(t) = {f[s] : s \in A} \cup ({g[r] : r \in B} \cup {h[v] : v \in C})
  <2>1. ListSampleShardCells(since) = {f[s] : s \in A} BY <1>2, <1>5 DEF ListSampleShardCells
  <2>2. ListStayShardCells(since) = {g[r] : r \in B} \cup {h[v] : v \in C}
    BY <1>3, <1>4, <1>6, <1>7 DEF ListStayShardCells
  <2>3. QED BY <1>1, <2>1, <2>2 DEF VisitedShardCells
<1>11. IsFiniteSet({f[s] : s \in A}) /\ IsFiniteSet({g[r] : r \in B}) /\ IsFiniteSet({h[v] : v \in C})
  <2>1. IsMap(f) /\ DOMAIN f = A BY <1>5 DEF IsMap
  <2>2. IsMap(g) /\ DOMAIN g = B BY <1>6 DEF IsMap
  <2>3. IsMap(h) /\ DOMAIN h = C BY <1>7 DEF IsMap
  <2>4. QED BY <1>9, <2>1, <2>2, <2>3, ImageIsFinite
<1>12. \A s \in A : f[s] \in Int
  <2>1. \A s \in A : s.pos \in Int BY <1>2, <1>8, StayAssumption DEF SamplesOK, Fix
  <2>2. QED BY <1>5, <2>1, CellsAreIntegers
<1>13. \A r \in B : g[r] \in Int
  <2>1. \A r \in B : r.c \in Cluster BY <1>3, <1>8 DEF StaysOK, IsStored, Row
  <2>2. QED BY <1>6, <2>1, CellsAreIntegers
<1>14. \A v \in C : h[v] \in Int
  <2>1. \A v \in C : v.pos \in Int BY <1>4, <1>8, StayAssumption DEF VisitsOK, Visit
  <2>2. QED BY <1>7, <2>1, CellsAreIntegers
<1>15. IsFiniteSet(VisitedShardCells(t))
  <2>1. PICK X, Y, Z : X = {f[s] : s \in A} /\ Y = {g[r] : r \in B} /\ Z = {h[v] : v \in C} OBVIOUS
  <2>2. IsFiniteSet(Y \cup Z) BY <1>11, <2>1, FS_Union
  <2>3. IsFiniteSet(X \cup (Y \cup Z)) BY <1>11, <2>1, <2>2, FS_Union
  <2>4. QED BY <1>10, <2>1, <2>3
<1>16. VisitedShardCells(t) \subseteq Int BY <1>10, <1>12, <1>13, <1>14
<1>17. QED BY <1>15, <1>16

\* Only finitely many areas are wanted.
LEMMA WantedIsFinite ==
  ASSUME NEW visited, IsFiniteSet(visited), visited \subseteq Int
  PROVE  IsFiniteSet(Wanted(visited)) /\ Wanted(visited) \subseteq Int
<1>1. PICK f : f = [c \in visited |-> Ring(c)] OBVIOUS
<1>2. IsMap(f) /\ DOMAIN f = visited BY <1>1 DEF IsMap
<1>3. PICK R : R = {f[c] : c \in visited} OBVIOUS
<1>4. IsFiniteSet(R) BY <1>2, <1>3, ImageIsFinite
<1>5. \A T \in R : IsFiniteSet(T)
  <2>1. ASSUME NEW c \in visited PROVE IsFiniteSet(Ring(c))
    <3>1. PICK a, b : a = c - 1 /\ b = c + 1 OBVIOUS
    <3>2. Ring(c) = {a} \cup {b} BY <3>1 DEF Ring
    <3>3. IsFiniteSet({a}) BY FS_Singleton
    <3>4. IsFiniteSet({a} \cup {b}) BY <3>3, FS_AddElement
    <3>5. QED BY <3>2, <3>4
  <2>2. QED BY <1>1, <1>3, <2>1
<1>6. IsFiniteSet(UNION R) BY <1>4, <1>5, FS_UNION
<1>7. Wanted(visited) = visited \cup UNION R BY <1>1, <1>3 DEF Wanted
<1>8. IsFiniteSet(Wanted(visited)) BY <1>6, <1>7, FS_Union
<1>9. Wanted(visited) \subseteq Int
  <2>1. \A c \in visited : Ring(c) \subseteq Int BY DEF Ring
  <2>2. QED BY <1>1, <1>3, <1>7, <2>1
<1>10. QED BY <1>8, <1>9

\* Of the regions not taken the fullest is one before which what is left fits, and all their
\* cells are left then.
LEMMA WithinCap ==
  ASSUME NEW cells, IsFiniteSet(cells), cells \subseteq Int
  PROVE  Cardinality({c \in cells : PushCellOf(c) \notin Coarsened(cells)}) <= Res5Cap
<1>1. PICK fine : fine = {c \in cells : PushCellOf(c) \notin Coarsened(cells)} OBVIOUS
<1>2. Res5Cap \in Nat BY WatchAssumption
<1>3. fine \in SUBSET cells /\ IsFiniteSet(fine)
  <2>1. fine \in SUBSET cells BY <1>1
  <2>2. QED BY <2>1, FS_Subset
<1>4. CASE fine = {}
  <2>1. Cardinality(fine) = 0 BY <1>4, FS_EmptySet
  <2>2. QED BY <1>1, <1>2, <2>1
<1>5. CASE fine # {}
  <2>1. PICK f : f = [c \in fine |-> PushCellOf(c)] OBVIOUS
  <2>2. PICK S : S = {f[c] : c \in fine} OBVIOUS
  <2>3. IsFiniteSet(S) /\ S # {} /\ S \subseteq Int
    <3>1. IsMap(f) /\ DOMAIN f = fine BY <2>1 DEF IsMap
    <3>2. IsFiniteSet(S) BY <1>3, <2>2, <3>1, ImageIsFinite
    <3>3. S # {} BY <1>5, <2>2
    <3>4. S \subseteq Int BY <1>3, <2>1, <2>2, CellsAreIntegers
    <3>5. QED BY <3>2, <3>3, <3>4
  <2>4. \A r : Cardinality(CellsOf(r, cells)) \in Nat
    <3>1. \A r : CellsOf(r, cells) \in SUBSET cells BY DEF CellsOf
    <3>2. QED BY <3>1, FS_Subset, FS_CardinalityType
  <2>5. PICK R : R = {p \in S \X S : Fuller(cells, p[1], p[2])} OBVIOUS
  <2>6. \A x, y \in S : <<x, y>> \in R <=> Fuller(cells, x, y) BY <2>5
  <2>7. /\ \A x \in S : ~ Fuller(cells, x, x)
        /\ \A x, y, z \in S : Fuller(cells, x, y) /\ Fuller(cells, y, z) => Fuller(cells, x, z)
    BY <2>3, <2>4 DEF Fuller
  <2>8. /\ \A x \in S : <<x, x>> \notin R
        /\ \A x, y, z \in S : <<x, y>> \in R /\ <<y, z>> \in R => <<x, z>> \in R
    BY <2>6, <2>7, Zenon
  <2>9. PICK r \in S : \A y \in S : <<y, r>> \notin R
    <3> DEFINE First(A, Q) == \E x \in A : \A y \in A : <<y, x>> \notin Q
    <3>1. First(S, R) BY <2>3, <2>8, HasFirst
    <3>2. QED BY <3>1
  <2>10. \A y \in S : ~ Fuller(cells, y, r) BY <2>6, <2>9, Zenon
  <2>11. PICK left : left = LeftBefore(cells, r) OBVIOUS
  <2>12. fine \in SUBSET left
    <3>1. \A c \in fine : PushCellOf(c) \in S BY <2>1, <2>2
    <3>2. QED BY <1>3, <2>10, <2>11, <3>1, Zenon DEF LeftBefore
  <2>13. IsFiniteSet(left) /\ Cardinality(left) \in Nat
    <3>1. left \in SUBSET cells BY <2>11 DEF LeftBefore
    <3>2. QED BY <3>1, FS_Subset, FS_CardinalityType
  <2>14. Cardinality(left) <= Res5Cap
    <3>1. PICK c \in fine : r = PushCellOf(c) BY <2>1, <2>2
    <3>2. c \in cells /\ r \notin Coarsened(cells) BY <1>1, <3>1
    <3>3. ~ (Cardinality(left) > Res5Cap) BY <2>11, <3>1, <3>2 DEF Coarsened
    <3>4. QED BY <1>2, <2>13, <3>3
  <2>15. Cardinality(fine) <= Cardinality(left) /\ Cardinality(fine) \in Nat
    BY <1>3, <2>12, <2>13, FS_Subset, FS_CardinalityType
  <2>16. QED BY <1>1, <1>2, <2>13, <2>14, <2>15
<1>6. QED BY <1>4, <1>5

----------------------------------------------------------------------------
(* The table.                                                                *)

Keyed(table) == \A t \in table : \A u \in table : Same(t, u) => t = u

\* What a watch set is of the cells visited.
Follows(table, visited) ==
  LET near == Wanted(visited)
      cells == {t.cell : t \in {x \in table : x.res = 5}}
      regions == {t.cell : t \in {x \in table : x.reason = "coarsened"}}
  IN /\ \A c \in near : c \in cells \/ PushCellOf(c) \in regions
     /\ cells \subseteq near /\ regions \subseteq {PushCellOf(c) : c \in near}
     /\ Cardinality(cells) <= Res5Cap
     /\ Keyed(table)
     /\ \A c \in cells : Topic(3, PushCellOf(c), "ancestor") \in table

\* The watch set a sync computes is what the history, the home and the pins call for.
LEMMA WatchSetFollows ==
  ASSUME NEW visited, IsFiniteSet(visited), visited \subseteq Int
  PROVE  Follows(WatchSetForCells(visited), visited)
<1>1. PICK near : near = Wanted(visited) OBVIOUS
<1>2. PICK coarse : coarse = Coarsened(near) OBVIOUS
<1>3. PICK fine : fine = {c \in near : PushCellOf(c) \notin coarse} OBVIOUS
<1> DEFINE Why5(c) == IF c \in visited THEN "visited" ELSE "ring"
           Why3(r) == IF r \in coarse THEN "coarsened" ELSE "ancestor"
<1>4. PICK A : A = {Topic(5, c, Why5(c)) : c \in fine} OBVIOUS
<1>5. PICK B : B = {Topic(3, r, Why3(r)) : r \in {PushCellOf(c) : c \in near}} OBVIOUS
<1>6. PICK W : W = WatchSetForCells(visited) OBVIOUS
<1>7. W = A \cup B
  BY <1>1, <1>2, <1>3, <1>4, <1>5, <1>6 DEF WatchSetForCells
<1>8. \A t \in A : t.res = 5 /\ t.reason # "coarsened" /\ t.cell \in fine /\ t = Topic(5, t.cell, Why5(t.cell))
  BY <1>4 DEF Topic
<1>9. ASSUME NEW c \in fine PROVE \E t \in A : t.cell = c
  <2>1. PICK why : why = Why5(c) OBVIOUS
  <2>2. Topic(5, c, why) \in A BY <1>4, <2>1
  <2>3. Topic(5, c, why).cell = c BY DEF Topic
  <2>4. QED BY <2>2, <2>3
<1>10. \A t \in B : /\ t.res = 3 /\ t = Topic(3, t.cell, Why3(t.cell))
                    /\ t.cell \in {PushCellOf(c) : c \in near}
                    /\ t.reason = Why3(t.cell)
  BY <1>5 DEF Topic
<1>11. \A c \in near : Topic(3, PushCellOf(c), Why3(PushCellOf(c))) \in B
  BY <1>5
<1>12. coarse \subseteq {PushCellOf(c) : c \in near}
  BY <1>2 DEF Coarsened
<1>13. PICK cells : cells = {t.cell : t \in {x \in W : x.res = 5}} OBVIOUS
<1>14. cells = fine
  <2>1. \A c \in cells : c \in fine BY <1>7, <1>8, <1>10, <1>13
  <2>2. \A c \in fine : c \in cells BY <1>7, <1>8, <1>9, <1>13
  <2>3. QED BY <2>1, <2>2
<1>15. PICK regions : regions = {t.cell : t \in {x \in W : x.reason = "coarsened"}} OBVIOUS
<1>16. \A r : Why3(r) = "coarsened" <=> r \in coarse OBVIOUS
<1> HIDE DEF Why3, Why5
<1>17. regions \subseteq coarse
  BY <1>7, <1>8, <1>10, <1>15, <1>16
<1>18. coarse \subseteq regions
  <2>1. ASSUME NEW c \in near, PushCellOf(c) \in coarse PROVE PushCellOf(c) \in regions
    <3>1. PICK t : t = Topic(3, PushCellOf(c), Why3(PushCellOf(c))) OBVIOUS
    <3>2. t \in W BY <1>7, <1>11, <3>1
    <3>3. t.cell = PushCellOf(c) /\ t.reason = Why3(PushCellOf(c)) BY <3>1 DEF Topic
    <3>4. t.reason = "coarsened" BY <1>16, <2>1, <3>3
    <3>5. QED BY <1>15, <3>2, <3>3, <3>4
  <2>2. QED BY <1>12, <2>1
<1>19. \A c \in near : c \in cells \/ PushCellOf(c) \in regions
  BY <1>3, <1>14, <1>18
<1>20. cells \subseteq near BY <1>3, <1>14
<1>21. Cardinality(cells) <= Res5Cap
  <2>1. IsFiniteSet(near) /\ near \subseteq Int BY <1>1, WantedIsFinite
  <2>2. QED BY <1>2, <1>3, <1>14, <2>1, WithinCap
<1>22. Keyed(W)
  <2>1. ASSUME NEW t \in W, NEW u \in W, Same(t, u) PROVE t = u
    <3>1. t.res = u.res /\ t.cell = u.cell BY <2>1 DEF Same
    <3>2. CASE t \in A /\ u \in A BY <1>8, <3>1, <3>2
    <3>3. CASE t \in B /\ u \in B BY <1>10, <3>1, <3>3
    <3>4. CASE t \in A /\ u \in B BY <1>8, <1>10, <3>1, <3>4
    <3>5. CASE t \in B /\ u \in A BY <1>8, <1>10, <3>1, <3>5
    <3>6. QED BY <1>7, <3>2, <3>3, <3>4, <3>5
  <2>2. QED BY <2>1 DEF Keyed
<1>23. \A c \in cells : Topic(3, PushCellOf(c), "ancestor") \in W
  <2>1. ASSUME NEW c \in fine PROVE Topic(3, PushCellOf(c), "ancestor") \in W
    <3>1. c \in near /\ PushCellOf(c) \notin coarse BY <1>3
    <3>2. Why3(PushCellOf(c)) = "ancestor" BY <3>1 DEF Why3
    <3>3. QED BY <1>7, <1>11, <3>1, <3>2
  <2>2. QED BY <1>14, <2>1
<1>24. regions \subseteq {PushCellOf(c) : c \in near} BY <1>12, <1>17
<1>25. QED BY <1>1, <1>6, <1>13, <1>15, <1>19, <1>20, <1>21, <1>22, <1>23, <1>24 DEF Follows

\* Writing the difference makes the table equal to the watch set.
LEMMA DifferenceWritten ==
  ASSUME Keyed(subscription), NEW wanted, Keyed(wanted)
  PROVE  LET diff == Difference(wanted) IN
         PutSubscriptions(DeleteSubscriptions(subscription, diff.removed), diff.put) = wanted
<1>1. PICK removed : removed = {row \in subscription : ~ \E t \in wanted : Same(row, t)} OBVIOUS
<1>2. PICK put : put = wanted \ subscription OBVIOUS
<1>3. PICK kept : kept = {row \in subscription \ removed : ~ \E t \in put : Same(row, t)} OBVIOUS
<1>4. PICK diff : diff = Difference(wanted) OBVIOUS
<1>5. diff.removed = removed /\ diff.put = put BY <1>1, <1>2, <1>4 DEF Difference
<1>6. PutSubscriptions(DeleteSubscriptions(subscription, removed), put) = kept \cup put
  BY <1>3 DEF PutSubscriptions, DeleteSubscriptions
<1>7. ASSUME NEW row \in kept PROVE row \in wanted
  <2>1. row \in subscription /\ row \notin removed /\ ~ \E t \in put : Same(row, t) BY <1>3
  <2>2. PICK t \in wanted : Same(row, t) BY <1>1, <2>1
  <2>3. t \in subscription BY <1>2, <2>1, <2>2
  <2>4. row = t BY <2>1, <2>2, <2>3 DEF Keyed
  <2>5. QED BY <2>2, <2>4
<1>8. ASSUME NEW t \in wanted, t \notin put PROVE t \in kept
  <2>1. t \in subscription BY <1>2, <1>8
  <2>2. Same(t, t) BY DEF Same
  <2>3. t \notin removed BY <1>1, <2>2
  <2>4. ASSUME NEW u \in put, Same(t, u) PROVE FALSE
    <3>1. u \in wanted BY <1>2
    <3>2. t = u BY <2>4, <3>1 DEF Keyed
    <3>3. QED BY <1>8, <3>2
  <2>5. QED BY <1>3, <2>1, <2>3, <2>4
<1>9. kept \cup put = wanted BY <1>2, <1>7, <1>8
<1>10. QED BY <1>4, <1>5, <1>6, <1>9

\* What a purge deletes was followed no longer.
LEMMA PurgeKeepsVisited ==
  ASSUME HistoryInv, NEW t \in Nat, PurgeHistory(t - Retention)
  PROVE  VisitedShardCells(t)' = VisitedShardCells(t)
<1>1. PICK since : since = t - Retention OBVIOUS
<1>2. since \in Int BY <1>1, StayAssumption
<1>3. /\ samples' = {s \in samples : s.ts >= since}
      /\ stays' = Trimmed(stays, since) /\ visits' = TrimmedVisits(since)
  BY <1>1 DEF PurgeHistory, DeleteSamplesBefore
<1>4. SamplesOK /\ StaysOK(stays) /\ VisitsOK BY DEF HistoryInv, StoreOK
<1>5. ListSampleShardCells(since)' = ListSampleShardCells(since)
  <2>1. {x \in samples' : x.ts >= since} = {x \in samples : x.ts >= since} BY <1>3
  <2>2. QED BY <2>1 DEF ListSampleShardCells
<1>6. {ShardOf(CentroidOf(r.c)) : r \in {x \in stays' : x.c.end >= since}}
        = {ShardOf(CentroidOf(r.c)) : r \in {x \in stays : x.c.end >= since}}
  <2>1. PICK D : D = {x \in stays : x.c.end >= since} OBVIOUS
  <2>2. PICK f : f = [r \in D |-> [r EXCEPT !.c.start = Larger(@, since)]] OBVIOUS
  <2>3. stays' = {f[r] : r \in D} BY <1>3, <2>1, <2>2 DEF Trimmed
  <2>4. ASSUME NEW r \in D
        PROVE  f[r].c.end = r.c.end /\ f[r].c.end >= since /\ CentroidOf(f[r].c) = CentroidOf(r.c)
    <3>1. r \in stays /\ r.c.end >= since BY <2>1
    <3>2. r \in Row /\ r.c \in Cluster BY <1>4, <3>1 DEF StaysOK, IsStored, Row
    <3>3. PICK d : d = [r.c EXCEPT !.start = Larger(@, since)] OBVIOUS
    <3>4. f[r] = [r EXCEPT !.c = d] BY <2>2, <3>3
    <3>5. d.end = r.c.end /\ d.sum = r.c.sum /\ d.count = r.c.count BY <3>2, <3>3 DEF Cluster
    <3>6. f[r].c = d BY <3>2, <3>4 DEF Row
    <3>7. QED BY <3>1, <3>5, <3>6 DEF CentroidOf
  <2>5. {x \in stays' : x.c.end >= since} = {f[r] : r \in D} BY <2>3, <2>4
  <2>6. {ShardOf(CentroidOf(x.c)) : x \in {f[r] : r \in D}} = {ShardOf(CentroidOf(r.c)) : r \in D}
    BY <2>4
  <2>7. QED BY <2>1, <2>5, <2>6
<1>7. {ShardOf(v.pos) : v \in {x \in visits' : x.end >= since}}
        = {ShardOf(v.pos) : v \in {x \in visits : x.end >= since}}
  <2>1. PICK D : D = {x \in visits : x.end >= since} OBVIOUS
  <2>2. PICK f : f = [v \in D |-> [v EXCEPT !.start = Larger(@, since)]] OBVIOUS
  <2>3. visits' = {f[v] : v \in D} BY <1>3, <2>1, <2>2 DEF TrimmedVisits
  <2>4. ASSUME NEW v \in D PROVE f[v].end >= since /\ f[v].pos = v.pos
    <3>1. v \in visits /\ v.end >= since BY <2>1
    <3>2. v \in Visit BY <1>4, <3>1 DEF VisitsOK
    <3>3. f[v].end = v.end /\ f[v].pos = v.pos BY <2>2, <3>2 DEF Visit
    <3>4. QED BY <3>1, <3>3
  <2>5. {x \in visits' : x.end >= since} = {f[v] : v \in D} BY <2>3, <2>4
  <2>6. {ShardOf(x.pos) : x \in {f[v] : v \in D}} = {ShardOf(v.pos) : v \in D} BY <2>4
  <2>7. QED BY <2>1, <2>5, <2>6
<1>8. ListStayShardCells(since)' = ListStayShardCells(since)
  BY <1>6, <1>7 DEF ListStayShardCells
<1>9. QED BY <1>1, <1>5, <1>8 DEF VisitedShardCells

----------------------------------------------------------------------------
(* Every step, and the theorems.                                             *)

\* While nothing is written and no time passes the table is the watch set, and a run that
\* began meanwhile has the time it was made for.
WatchInv ==
  /\ HistoryInv /\ Keyed(subscription)
  /\ synced => /\ run # Idle => run.nowTs = now
               /\ subscription = WatchSetForCells(VisitedShardCells(now))

\* The invariant holds at the start,
LEMMA WatchInvInit == SubscriptionsInit => WatchInv
<1> SUFFICES ASSUME SubscriptionsInit PROVE WatchInv
  OBVIOUS
<1>1. /\ now = 0 /\ samples = {} /\ stays = {} /\ visits = {} /\ cursor = 0 /\ run = Idle
      /\ log = <<>> /\ subscription = {} /\ synced = FALSE
  BY DEF SubscriptionsInit, Init
<1>2. SamplesOK /\ StaysOK(stays) /\ VisitsOK
  BY <1>1, FS_EmptySet DEF SamplesOK, StaysOK, VisitsOK, ByOneId
<1>3. CursorOK
  <2>1. LatestId \in Nat BY <1>2, LatestIdNat
  <2>2. QED BY <1>1, <2>1 DEF CursorOK
<1>4. ClockOK BY <1>1 DEF ClockOK, Idle
<1>5. log \in Seq(Fix) BY <1>1
<1>6. NoFixSkipped BY <1>1 DEF NoFixSkipped
<1>7. Keyed(subscription) BY <1>1 DEF Keyed
<1>8. QED BY <1>1, <1>2, <1>3, <1>4, <1>5, <1>6, <1>7 DEF WatchInv, HistoryInv, StoreOK

\* Steps that the watch set has not seen.
LEMMA UnseenStep ==
  ASSUME WatchInv, (NativeWrites \/ ClockMoves \/ DeriveStays) /\ synced' = FALSE /\ Elsewhere
  PROVE  WatchInv'
<1>1. HistoryInv BY DEF WatchInv
<1>2. HistoryInv'
  <2>1. CASE NativeWrites
    <3>1. CASE \E p \in Positions : StoreFix(p) BY <1>1, <3>1, StoreFixStep
    <3>2. CASE \E v \in PossibleVisits : VisitReported(v) BY <1>1, <3>2, VisitReportedStep
    <3>3. CASE \E v \in visits, t \in 0 .. MaxTime : VisitEnds(v, t)
      BY <1>1, <3>3, VisitEndsStep
    <3>4. QED BY <2>1, <3>1, <3>2, <3>3 DEF NativeWrites
  <2>2. CASE ClockMoves BY <1>1, <2>2, ClockStep
  <2>3. CASE DeriveStays BY <1>1, <2>3, DeriveStaysStep
  <2>4. QED BY <2>1, <2>2, <2>3
<1>3. Keyed(subscription)' BY DEF WatchInv, Elsewhere, Keyed
<1>4. QED BY <1>2, <1>3 DEF WatchInv

\* Steps that change nothing the table is about.
LEMMA SeenStep ==
  ASSUME WatchInv, HistoryInv', now' = now, UNCHANGED <<synced, subscription>>,
         VisitedShardCells(now)' = VisitedShardCells(now),
         synced => (run' # Idle => run'.nowTs = now)
  PROVE  WatchInv'
<1>1. Keyed(subscription)' BY DEF WatchInv, Keyed
<1>2. ASSUME synced
      PROVE  /\ run' # Idle => run'.nowTs = now'
             /\ subscription' = WatchSetForCells(VisitedShardCells(now))'
  <2>1. subscription = WatchSetForCells(VisitedShardCells(now)) BY <1>2 DEF WatchInv
  <2>2. PICK V : V = VisitedShardCells(now) OBVIOUS
  <2>3. WatchSetForCells(VisitedShardCells(now))' = WatchSetForCells(V)
    BY <2>2 DEF WatchSetForCells, Coarsened, LeftBefore, Fuller, CellsOf, Wanted, Ring, PushCellOf, Topic
  <2>4. QED BY <1>2, <2>1, <2>2, <2>3
<1>3. QED BY <1>1, <1>2 DEF WatchInv

\* is kept where nothing the watch set is computed from changes,
LEMMA QuietStep ==
  ASSUME WatchInv, DeriveFails \/ RunDies, UNCHANGED <<synced, subscription>>
  PROVE  WatchInv'
<1>1. /\ UNCHANGED <<now, samples, stays, visits, cursor, log, finished>>
      /\ run' = Idle \/ (run' = [step |-> "purge", nowTs |-> now])
  BY DEF DeriveFails, RunDies
<1>2. HistoryInv BY DEF WatchInv
<1>3. run'.nowTs = now \/ run' = Idle BY <1>1
<1>4. HistoryInv'
  <2>1. VisitsOK' BY <1>1, <1>2 DEF HistoryInv, VisitsOK
  <2>2. ClockOK' BY <1>1, <1>2 DEF HistoryInv, ClockOK, Idle
  <2>3. QED BY <1>1, <1>2, <2>1, <2>2, KeptStep
<1>5. VisitedShardCells(now)' = VisitedShardCells(now)
  BY <1>1 DEF VisitedShardCells, ListSampleShardCells, ListStayShardCells
<1>6. QED BY <1>1, <1>3, <1>4, <1>5, SeenStep

\* A purge of what is past retention, natively or in a run the table was made in.
LEMMA PurgeSeen ==
  ASSUME WatchInv, NativePurge \/ PurgeExpired, UNCHANGED <<synced, subscription>>
  PROVE  WatchInv'
<1>1. HistoryInv /\ Keyed(subscription) BY DEF WatchInv
<1>2. now \in Nat /\ run \in [step : {"idle", "purge", "sync"}, nowTs : Nat]
  BY <1>1 DEF HistoryInv, ClockOK
<1>3. PICK t : t = IF NativePurge THEN now ELSE run.nowTs OBVIOUS
<1>4. t \in Nat /\ t - Retention \in Int BY <1>2, <1>3, StayAssumption
<1>5. PurgeHistory(t - Retention) /\ UNCHANGED <<now, log, finished>>
  BY <1>3 DEF NativePurge, PurgeExpired
<1>6. /\ run' = run \/ (run # Idle /\ run'.nowTs = run.nowTs)
      /\ run' \in [step : {"idle", "purge", "sync"}, nowTs : Nat]
  BY <1>2 DEF NativePurge, PurgeExpired, Idle
<1>7. HistoryInv'
  <2>1. ClockOK' BY <1>2, <1>5, <1>6 DEF ClockOK
  <2>2. QED BY <1>1, <1>4, <1>5, <2>1, PurgeStep
<1>8. Keyed(subscription)' BY <1>1 DEF Keyed
<1>9. ASSUME synced
      PROVE  /\ run' # Idle => run'.nowTs = now'
             /\ subscription' = WatchSetForCells(VisitedShardCells(now))'
  <2>1. /\ run # Idle => run.nowTs = now
        /\ subscription = WatchSetForCells(VisitedShardCells(now))
    BY <1>9 DEF WatchInv
  <2>2. run' # Idle => run'.nowTs = now' BY <1>5, <1>6, <2>1
  <2>3. t = now
    <3>1. CASE NativePurge BY <1>3, <3>1
    <3>2. CASE ~ NativePurge
      <4>1. run.step = "purge" BY <3>2 DEF PurgeExpired
      <4>2. run # Idle BY <4>1 DEF Idle
      <4>3. QED BY <1>3, <2>1, <3>2, <4>2
    <3>3. QED BY <3>1, <3>2
  <2>4. VisitedShardCells(t)' = VisitedShardCells(t) BY <1>1, <1>4, <1>5, PurgeKeepsVisited
  <2>5. VisitedShardCells(now)' = VisitedShardCells(now)
    BY <1>5, <2>3, <2>4 DEF VisitedShardCells, ListSampleShardCells, ListStayShardCells
  <2>6. PICK V : V = VisitedShardCells(now) OBVIOUS
  <2>7. WatchSetForCells(VisitedShardCells(now))' = WatchSetForCells(V)
    BY <2>5, <2>6 DEF WatchSetForCells, Coarsened, LeftBefore, Fuller, CellsOf, Wanted, Ring, PushCellOf, Topic
  <2>8. QED BY <2>1, <2>2, <2>6, <2>7
<1>10. QED BY <1>7, <1>8, <1>9 DEF WatchInv

\* A sync makes the table the watch set of the moment the run began.
LEMMA SyncStep ==
  ASSUME WatchInv, SyncSubscriptions
  PROVE  WatchInv'
<1>1. PICK V : V = VisitedShardCells(run.nowTs) OBVIOUS
<1>2. PICK wanted : wanted = WatchSetForCells(V) OBVIOUS
<1>3. PICK diff : diff = Difference(wanted) OBVIOUS
<1>4. /\ subscription' = PutSubscriptions(DeleteSubscriptions(subscription, diff.removed), diff.put)
      /\ synced' = (now = run.nowTs) /\ run' = Idle
      /\ UNCHANGED <<now, samples, stays, visits, cursor, log, finished>>
  BY <1>1, <1>2, <1>3 DEF SyncSubscriptions
<1>5. HistoryInv /\ Keyed(subscription) BY DEF WatchInv
<1>6. Keyed(wanted)
  <2>1. IsFiniteSet(V) /\ V \subseteq Int BY <1>1, <1>5, VisitedIsFinite
  <2>2. Follows(wanted, V) BY <1>2, <2>1, WatchSetFollows
  <2>3. QED BY <2>2 DEF Follows
<1>7. subscription' = wanted BY <1>3, <1>4, <1>5, <1>6, DifferenceWritten
<1>8. HistoryInv'
  <2>1. VisitsOK' BY <1>4, <1>5 DEF HistoryInv, VisitsOK
  <2>2. ClockOK' BY <1>4, <1>5 DEF HistoryInv, ClockOK, Idle
  <2>3. QED BY <1>4, <1>5, <2>1, <2>2, KeptStep
<1>9. ASSUME synced' PROVE subscription' = WatchSetForCells(VisitedShardCells(now))'
  <2>1. now = run.nowTs BY <1>4, <1>9
  <2>2. VisitedShardCells(now)' = V
    BY <1>1, <1>4, <2>1 DEF VisitedShardCells, ListSampleShardCells, ListStayShardCells
  <2>3. WatchSetForCells(VisitedShardCells(now))' = WatchSetForCells(V)
    BY <2>2 DEF WatchSetForCells, Coarsened, LeftBefore, Fuller, CellsOf, Wanted, Ring, PushCellOf, Topic
  <2>4. QED BY <1>2, <1>7, <2>3
<1>10. Keyed(subscription)' BY <1>6, <1>7 DEF Keyed
<1>11. QED BY <1>4, <1>8, <1>9, <1>10 DEF WatchInv

\* and is kept by every step.
LEMMA WatchInvStep == WatchInv /\ [Next]_vars => WatchInv'
<1> SUFFICES ASSUME WatchInv, [Next]_vars PROVE WatchInv'
  OBVIOUS
<1>1. CASE (NativeWrites \/ ClockMoves \/ DeriveStays) /\ synced' = FALSE /\ Elsewhere
  BY <1>1, UnseenStep
<1>2. CASE (NativePurge \/ DeriveFails \/ PurgeExpired \/ RunDies) /\ UNCHANGED synced /\ Elsewhere
  <2>1. UNCHANGED <<synced, subscription>> BY <1>2 DEF Elsewhere
  <2>2. CASE NativePurge \/ PurgeExpired BY <2>1, <2>2, PurgeSeen
  <2>3. CASE DeriveFails \/ RunDies BY <2>1, <2>3, QuietStep
  <2>4. QED BY <1>2, <2>2, <2>3
<1>3. CASE SyncSubscriptions BY <1>3, SyncStep
<1>4. CASE UNCHANGED vars
  <2>1. UNCHANGED <<now, samples, stays, visits, cursor, run, log, finished, synced, subscription>>
    BY <1>4 DEF vars, historyVars
  <2>2. HistoryInv'
    <3>1. VisitsOK' /\ ClockOK' BY <2>1 DEF WatchInv, HistoryInv, VisitsOK, ClockOK
    <3>2. QED BY <2>1, <3>1, KeptStep DEF WatchInv
  <2>3. VisitedShardCells(now)' = VisitedShardCells(now)
    BY <2>1 DEF VisitedShardCells, ListSampleShardCells, ListStayShardCells
  <2>4. synced => (run' # Idle => run'.nowTs = now) BY <2>1 DEF WatchInv
  <2>5. QED BY <2>1, <2>2, <2>3, <2>4, SeenStep
<1>5. QED BY <1>1, <1>2, <1>3, <1>4 DEF Next

\* The store stays well formed whatever comes between the steps of a run: no two fixes and no
\* two stays share an id, every stay lies among the positions of its fixes, and the cursor is
\* never past the last stored fix, so that ids that start again are never taken for old ones.
THEOREM WatchInvariant == Spec => []WatchInv
<1>1. SubscriptionsInit => WatchInv BY WatchInvInit
<1>2. WatchInv /\ [Next]_vars => WatchInv' BY WatchInvStep
<1>3. QED BY <1>1, <1>2, PTL DEF Spec

\* No fix is skipped (derive.ts, REWIND_STAY_CURSOR_SQL): one at or below the cursor has been
\* finished with, for any number of fixes, visits, purges, clocks set back and runs that fail.
THEOREM NoFixIsSkipped == Spec => []NoFixSkipped
<1>1. WatchInv => NoFixSkipped BY DEF WatchInv, HistoryInv
<1>2. QED BY <1>1, WatchInvariant, PTL

\* After a run no derived stay overlaps a closed visit at its place (extract.ts, rule 6).
THEOREM RunsClearVisits == Spec => ClearOfVisits
<1> DEFINE A == run = Idle /\ run' # Idle /\ stays' # stays
                  => \A r \in stays' : ~ OverlapsVisit(r.c, Covering)
<1>1. WatchInv /\ [Next]_vars => [A]_historyVars
  <2> SUFFICES ASSUME WatchInv, [Next]_vars PROVE [A]_historyVars
    OBVIOUS
  <2>1. CASE DeriveStays
    <3>1. IsClear(stays', Covering) BY <2>1, DeriveStaysStep DEF WatchInv
    <3>2. QED BY <3>1 DEF IsClear
  <2>2. CASE NativeWrites
    <3>1. run' = run BY <2>2 DEF NativeWrites, StoreFix, VisitReported, VisitEnds
    <3>2. QED BY <3>1
  <2>3. CASE ClockMoves \/ NativePurge
    <3>1. run' = run BY <2>3 DEF ClockMoves, Tick, SetBack, NativePurge
    <3>2. QED BY <3>1
  <2>4. CASE DeriveFails \/ RunDies \/ SyncSubscriptions
    <3>1. stays' = stays BY <2>4 DEF DeriveFails, RunDies, SyncSubscriptions
    <3>2. QED BY <3>1
  <2>5. CASE PurgeExpired
    <3>1. run # Idle BY <2>5 DEF PurgeExpired, Idle
    <3>2. QED BY <3>1
  <2>6. CASE UNCHANGED vars
    BY <2>6 DEF vars
  <2>7. QED BY <2>1, <2>2, <2>3, <2>4, <2>5, <2>6 DEF Next
<1>2. QED BY <1>1, WatchInvariant, PTL DEF Spec, ClearOfVisits

\* A table that equals the watch set follows the history.
LEMMA SyncedFollows ==
  ASSUME WatchInv, synced
  PROVE  Follows(subscription, VisitedShardCells(now))
<1>1. IsFiniteSet(VisitedShardCells(now)) /\ VisitedShardCells(now) \subseteq Int
  BY VisitedIsFinite DEF WatchInv
<1>2. subscription = WatchSetForCells(VisitedShardCells(now)) BY DEF WatchInv
<1>3. QED BY <1>1, <1>2, WatchSetFollows

\* The shards followed are those of the history (watchSet.ts, sync.ts): every cell of a fix or a
\* stay within retention and its neighbours, themselves or by their region, within the cap, and
\* nothing else, for every history, geometry and cap.
THEOREM HistoryIsFollowed == Spec => []FollowsHistory
<1>1. WatchInv => FollowsHistory
  <2> SUFFICES ASSUME WatchInv, synced PROVE FollowsHistory
    BY DEF FollowsHistory
  <2>1. Follows(subscription, VisitedShardCells(now)) BY SyncedFollows
  <2>2. VisitedShardCells(now)
          = {ShardOf(s.pos) : s \in {x \in samples : x.ts >= now - Retention}}
            \cup {ShardOf(CentroidOf(r.c)) : r \in {x \in stays : x.c.end >= now - Retention}}
            \cup {ShardOf(v.pos) : v \in {x \in visits : x.end >= now - Retention}}
    BY DEF VisitedShardCells, ListSampleShardCells, ListStayShardCells
  <2>3. QED BY <2>1, <2>2 DEF FollowsHistory, Follows, Keyed
<1>2. QED BY <1>1, WatchInvariant, PTL

----------------------------------------------------------------------------
(* The history and the match rule.                                           *)

\* A quotient is at most one step below.
LEMMA Divided ==
  \A s \in Int : \A n \in Nat \ {0} : n * (s \div n) <= s /\ s < n * (s \div n) + n
OBVIOUS

\* A centroid lies between two of the positions, so it is a place.
LEMMA CentroidIsPlace ==
  ASSUME NEW c, ClusterOK(c)
  PROVE  CentroidOf(c) \in Places
<1>1. PICK s, n : s = c.sum /\ n = c.count OBVIOUS
<1>2. s \in Int /\ n \in Nat \ {0} BY <1>1 DEF ClusterOK, Cluster
<1>3. PICK a \in Positions, b \in Positions : a * n <= s /\ s <= b * n
  BY <1>1 DEF ClusterOK, Spread
<1>4. a \in Int /\ b \in Int BY StayAssumption
<1>5. PICK q : q = s \div n OBVIOUS
<1>6. q \in Int /\ n * q <= s /\ s < n * q + n BY <1>2, <1>5, Divided, DividedIsInteger
<1>7. q * n = n * q /\ q * n \in Int /\ a * n \in Int /\ b * n \in Int BY <1>2, <1>4, <1>6
<1>8. a <= q
  <2>1. SUFFICES ASSUME q + 1 <= a PROVE FALSE BY <1>4, <1>6
  <2>2. (q + 1) * n <= a * n
    <3>1. q + 1 \in Int /\ n \in Nat BY <1>2, <1>6
    <3>2. QED BY <1>4, <2>1, <3>1, Products
  <2>3. (q + 1) * n = q * n + n BY <1>2, <1>6
  <2>4. QED BY <1>2, <1>3, <1>6, <1>7, <2>2, <2>3
<1>9. q <= b
  <2>1. SUFFICES ASSUME b + 1 <= q PROVE FALSE BY <1>4, <1>6
  <2>2. (b + 1) * n <= q * n
    <3>1. b + 1 \in Int /\ n \in Nat BY <1>2, <1>4
    <3>2. QED BY <1>6, <2>1, <3>1, Products
  <2>3. (b + 1) * n = b * n + n BY <1>2, <1>4
  <2>4. QED BY <1>2, <1>3, <1>6, <1>7, <2>2, <2>3
<1>10. q \in a .. b BY <1>4, <1>6, <1>8, <1>9
<1>11. a \in Places /\ b \in Places BY GeometryAssumption
<1>12. a .. b \subseteq Places BY <1>11, GeometryAssumption
<1>13. QED BY <1>1, <1>5, <1>10, <1>12 DEF CentroidOf

\* Evidence is a row of the history within retention and within reach.
LEMMA EvidenceIsNear ==
  ASSUME NEW q, NEW S, NEW X, NEW t \in Nat,
         MatchReport(q, S, X, MatchParamsAt(t)) # {}, q.from \in Int
  PROVE  \E x : /\ Near(BoundsOf(q, MatchParamsAt(t)), x.place)
                /\ \/ x \in S /\ (x.end \in Nat => x.end >= t - Retention)
                   \/ x \in X /\ (x.ts \in Nat => x.ts >= t - Retention)
<1>1. PICK P : P = MatchParamsAt(t) OBVIOUS
<1>2. P.now = t /\ P.retention = Retention /\ P.window = MatchWindow /\ P.windowStep = MatchWindow
  BY <1>1 DEF MatchParamsAt
<1>3. PICK b : b = BoundsOf(q, P) OBVIOUS
<1>4. PICK from : from = RoundDown(q.from, MatchWindow) OBVIOUS
<1>5. from \in Int
  <2>1. q.from % MatchWindow \in Int BY RuleAssumption
  <2>2. QED BY <1>4, <2>1 DEF RoundDown
<1>6. b.from = Later(from - MatchWindow, t - Retention)
  BY <1>2, <1>3, <1>4 DEF BoundsOf, MatchBounds, CoarsenCriteria, Cutoff
<1>7. b.from \in Int /\ b.from >= t - Retention
  BY <1>5, <1>6, RuleAssumption, StayAssumption DEF Later
<1>8. MatchReport(q, S, X, P)
        = IF CanMatch(q, b, P) THEN StaysFirst(StayEvidence(b, S), SampleEvidence(b, X)) ELSE {}
  BY <1>3 DEF MatchReport, MatchWithin
<1>9. StayEvidence(b, S) # {} \/ SampleEvidence(b, X) # {}
  BY <1>1, <1>8 DEF StaysFirst
<1>10. CASE StayEvidence(b, S) # {}
  <2>1. PICK x \in S : x.end >= b.from /\ Near(b, x.place) BY <1>10 DEF StayEvidence
  <2>2. x.end \in Nat => x.end >= t - Retention
    <3>1. t - Retention \in Int BY StayAssumption
    <3>2. QED BY <1>7, <2>1, <3>1
  <2>3. QED BY <1>1, <1>3, <2>1, <2>2
<1>11. CASE SampleEvidence(b, X) # {}
  <2>1. PICK x \in X : b.from <= x.ts /\ Near(b, x.place) BY <1>11 DEF SampleEvidence
  <2>2. x.ts \in Nat => x.ts >= t - Retention
    <3>1. t - Retention \in Int BY StayAssumption
    <3>2. QED BY <1>7, <2>1, <3>1
  <2>3. QED BY <1>1, <1>3, <2>1, <2>2
<1>12. QED BY <1>9, <1>10, <1>11

\* Where the history is evidence: a place in a shard visited.
LEMMA EvidencePlace ==
  ASSUME HistoryInv, NEW q \in Reports,
         MatchReport(q, StayRows(stays, visits), FixRows(samples), MatchParamsAt(now)) # {}
  PROVE  \E p \in Places : /\ ShardOf(p) \in VisitedShardCells(now)
                           /\ Near(BoundsOf(q, MatchParamsAt(now)), p)
<1>1. SamplesOK /\ StaysOK(stays) /\ VisitsOK /\ now \in Nat BY DEF HistoryInv, StoreOK, ClockOK
<1>2. q.from \in Int BY ReportsAssumption
<1>3. PICK b : b = BoundsOf(q, MatchParamsAt(now)) OBVIOUS
<1>4. PICK x : /\ Near(b, x.place)
               /\ \/ x \in StayRows(stays, visits) /\ (x.end \in Nat => x.end >= now - Retention)
                  \/ x \in FixRows(samples) /\ (x.ts \in Nat => x.ts >= now - Retention)
  BY <1>1, <1>2, <1>3, EvidenceIsNear
<1>5. ASSUME NEW r \in stays, x = DerivedRow(r), x.end \in Nat => x.end >= now - Retention
      PROVE  x.place \in Places /\ ShardOf(x.place) \in VisitedShardCells(now)
  <2>1. ClusterOK(r.c) /\ r.c.end \in Nat
    <3>1. IsStored(r) BY <1>1 DEF StaysOK
    <3>2. QED BY <3>1 DEF IsStored, Row, Cluster, ClusterOK
  <2>2. x.place = CentroidOf(r.c) /\ x.end = r.c.end BY <1>5 DEF DerivedRow
  <2>3. x.place \in Places BY <2>1, <2>2, CentroidIsPlace
  <2>4. r.c.end >= now - Retention BY <1>5, <2>1, <2>2
  <2>5. ShardOf(x.place) \in ListStayShardCells(now - Retention)
    BY <2>2, <2>4 DEF ListStayShardCells
  <2>6. QED BY <2>3, <2>5 DEF VisitedShardCells
<1>6. ASSUME NEW v \in visits, x = VisitRow(v), x.end \in Nat => x.end >= now - Retention
      PROVE  x.place \in Places /\ ShardOf(x.place) \in VisitedShardCells(now)
  <2>1. v.end \in Nat /\ v.pos \in VisitPlaces BY <1>1 DEF VisitsOK, Visit
  <2>2. x.place = v.pos /\ x.end = v.end BY <1>6 DEF VisitRow
  <2>3. x.place \in Places BY <2>1, <2>2, GeometryAssumption
  <2>4. v.end >= now - Retention BY <1>6, <2>1, <2>2
  <2>5. ShardOf(x.place) \in ListStayShardCells(now - Retention)
    BY <2>2, <2>4 DEF ListStayShardCells
  <2>6. QED BY <2>3, <2>5 DEF VisitedShardCells
<1>7. ASSUME NEW s \in samples, x = FixRow(s), x.ts \in Nat => x.ts >= now - Retention
      PROVE  x.place \in Places /\ ShardOf(x.place) \in VisitedShardCells(now)
  <2>1. s.ts \in Nat /\ s.pos \in Positions BY <1>1 DEF SamplesOK, Fix
  <2>2. x.place = s.pos /\ x.ts = s.ts BY <1>7 DEF FixRow
  <2>3. x.place \in Places BY <2>1, <2>2, GeometryAssumption
  <2>4. s.ts >= now - Retention BY <1>7, <2>1, <2>2
  <2>5. ShardOf(x.place) \in ListSampleShardCells(now - Retention)
    BY <2>2, <2>4 DEF ListSampleShardCells
  <2>6. QED BY <2>3, <2>5 DEF VisitedShardCells
<1>8. x.place \in Places /\ ShardOf(x.place) \in VisitedShardCells(now)
  <2>1. CASE x \in StayRows(stays, visits) /\ (x.end \in Nat => x.end >= now - Retention)
    BY <1>5, <1>6, <2>1 DEF StayRows
  <2>2. CASE x \in FixRows(samples) /\ (x.ts \in Nat => x.ts >= now - Retention)
    BY <1>7, <2>2 DEF FixRows
  <2>3. QED BY <1>4, <2>1, <2>2
<1>9. QED BY <1>3, <1>4, <1>8

\* On the way there is a place in a cell the report is filed by, in the same shard or beside it.
LEMMA FiledNearby ==
  ASSUME NEW q \in Reports, NEW p \in Places, NEW t,
         Near(BoundsOf(q, MatchParamsAt(t)), p)
  PROVE  \E m \in Places : /\ CellOf[m] \in SearchAreaCells(q.center, q.radius, MatchRadius)
                           /\ ShardOf(m) \in {ShardOf(p)} \cup Ring(ShardOf(p))
<1>1. PICK M : M = MatchRadius OBVIOUS
<1>2. M \in Nat \ {0} BY <1>1, RuleAssumption
<1>3. PICK a, r : a = q.center /\ r = q.radius OBVIOUS
<1>4. a \in Places /\ r \in Nat BY <1>3, ReportsAssumption
<1>5. PICK k : k = (-r) % M OBVIOUS
<1>6. k \in Nat /\ k < M BY <1>2, <1>4, <1>5
<1>7. PICK d : d = Metric[a][p] OBVIOUS
<1>8. \A x, y \in Places : Metric[x][y] \in Nat BY MetricAssumption
<1>9. d \in Nat BY <1>4, <1>7, <1>8
<1>10. d <= r + k + M
  <2>1. PICK b : b = BoundsOf(q, MatchParamsAt(t)) OBVIOUS
  <2>2. b.center = a /\ b.reach = (r + k) + M
    BY <1>1, <1>3, <1>5, <2>1
    DEF BoundsOf, MatchBounds, CoarsenCriteria, MatchParamsAt, RoundUp
  <2>3. Metric[a][p] <= (r + k) + M BY <2>1, <2>2 DEF Near
  <2>4. QED BY <1>7, <2>3
<1>11. PICK e : e = IF d <= r + M THEN d ELSE r + M OBVIOUS
<1>12. e \in 0 .. d /\ e <= r + M /\ d - e <= M
  BY <1>2, <1>4, <1>6, <1>9, <1>10, <1>11
<1>13. PICK m \in Places : Metric[a][m] <= e /\ Metric[m][p] <= d - e
  BY <1>4, <1>7, <1>12, GeometryAssumption
<1>14. PICK c : c = CellOf[m] OBVIOUS
<1>15. c \in Cells /\ CentreOf[c] \in Places /\ Circumradius[c] \in Nat
       /\ Metric[CentreOf[c]][m] <= Circumradius[c]
  BY <1>14, CellsAssumption
<1>16. c \in SearchAreaCells(q.center, q.radius, MatchRadius)
  <2>1. Metric[a][CentreOf[c]] <= Metric[a][m] + Metric[m][CentreOf[c]]
    BY <1>4, <1>15, MetricAssumption
  <2>2. Metric[m][CentreOf[c]] = Metric[CentreOf[c]][m] BY <1>15, MetricAssumption
  <2>3. PICK u, v, w : u = Metric[a][CentreOf[c]] /\ v = Metric[a][m] /\ w = Metric[m][CentreOf[c]]
    OBVIOUS
  <2>4. u \in Nat /\ v \in Nat /\ w \in Nat BY <1>4, <1>8, <1>15, <2>3
  <2>5. u <= v + w /\ v <= e /\ w <= Circumradius[c] BY <1>13, <1>15, <2>1, <2>2, <2>3
  <2>6. u <= (r + M) + Circumradius[c] BY <1>2, <1>4, <1>12, <1>15, <2>4, <2>5
  <2>7. QED BY <1>1, <1>3, <1>15, <2>3, <2>6 DEF SearchAreaCells, CoverOf
<1>17. ShardOf(m) \in {ShardOf(p)} \cup Ring(ShardOf(p))
  <2>1. Metric[p][m] = Metric[m][p] BY MetricAssumption
  <2>2. Metric[p][m] \in Nat BY <1>8
  <2>3. Metric[p][m] <= M BY <1>2, <1>9, <1>12, <1>13, <2>1, <2>2
  <2>4. QED BY <1>1, <2>3, GeometryAssumption
<1>18. QED BY <1>14, <1>16, <1>17

\* A cell wanted is followed, itself or in its region.
LEMMA WantedIsFollowed ==
  ASSUME WatchInv, synced, NEW c \in Cells, ShardCellOf[c] \in Wanted(VisitedShardCells(now))
  PROVE  ShardKeysForCells({c}) \cap Followed # {}
<1>1. PICK V : V = VisitedShardCells(now) OBVIOUS
<1>2. PICK s : s = ShardCellOf[c] OBVIOUS
<1>3. PICK coarse : coarse = Coarsened(Wanted(V)) OBVIOUS
<1>4. s \in Wanted(V) /\ RegionOf[c] = PushCellOf(s) BY <1>1, <1>2, RuleAssumption
<1>5. subscription = WatchSetForCells(V) BY <1>1 DEF WatchInv
<1>6. /\ [res |-> 5, cell |-> s] \in ShardKeysForCells({c})
      /\ [res |-> 3, cell |-> PushCellOf(s)] \in ShardKeysForCells({c})
  BY <1>2, <1>4 DEF ShardKeysForCells
<1>7. CASE PushCellOf(s) \notin coarse
  <2>1. PICK why : why = IF s \in V THEN "visited" ELSE "ring" OBVIOUS
  <2>2. Topic(5, s, why) \in subscription
    BY <1>3, <1>4, <1>5, <1>7, <2>1 DEF WatchSetForCells
  <2>3. why # "ancestor" BY <2>1
  <2>4. PICK t \in subscription : t = Topic(5, s, why) BY <2>2
  <2>5. t.res = 5 /\ t.cell = s /\ t.reason # "ancestor" BY <2>3, <2>4 DEF Topic
  <2>6. [res |-> 5, cell |-> s] \in Followed BY <2>4, <2>5 DEF Followed
  <2>7. QED BY <1>6, <2>6
<1>8. CASE PushCellOf(s) \in coarse
  <2>1. PICK r : r = PushCellOf(s) OBVIOUS
  <2>2. Topic(3, r, "coarsened") \in subscription
    <3>1. r \in {PushCellOf(x) : x \in Wanted(V)} BY <1>4, <2>1
    <3>2. Topic(3, r, IF r \in coarse THEN "coarsened" ELSE "ancestor") \in subscription
      BY <1>3, <1>5, <3>1 DEF WatchSetForCells
    <3>3. QED BY <1>8, <2>1, <3>2
  <2>3. PICK t \in subscription : t = Topic(3, r, "coarsened") BY <2>2
  <2>4. t.res = 3 /\ t.cell = r /\ t.reason # "ancestor" BY <2>3 DEF Topic
  <2>5. [res |-> 3, cell |-> r] \in Followed BY <2>3, <2>4 DEF Followed
  <2>6. QED BY <1>6, <2>1, <2>5
<1>9. QED BY <1>7, <1>8

\* No evidence without its report (matchReport.ts, coarsenCriteria): a report that some of the
\* history is evidence for is in a shard the phone follows, although it is filed by the cells
\* of the criteria as written, for every metric in which places are reached step by step.
THEOREM EvidenceIsFound == Spec => []EvidenceIsFollowed
<1>1. WatchInv => EvidenceIsFollowed
  <2> SUFFICES ASSUME WatchInv, synced, NEW q \in Reports,
                      MatchReport(q, StayRows(stays, visits), FixRows(samples), MatchParamsAt(now)) # {}
               PROVE  FiledUnder(q) \cap Followed # {}
    BY DEF EvidenceIsFollowed
  <2>1. PICK p \in Places : /\ ShardOf(p) \in VisitedShardCells(now)
                            /\ Near(BoundsOf(q, MatchParamsAt(now)), p)
    BY EvidencePlace DEF WatchInv
  <2>2. PICK m \in Places : /\ CellOf[m] \in SearchAreaCells(q.center, q.radius, MatchRadius)
                            /\ ShardOf(m) \in {ShardOf(p)} \cup Ring(ShardOf(p))
    BY <2>1, FiledNearby
  <2>3. PICK c : c = CellOf[m] OBVIOUS
  <2>4. c \in Cells /\ ShardCellOf[c] = ShardOf(m) BY <2>3, CellsAssumption, RuleAssumption
  <2>5. ShardOf(m) \in Wanted(VisitedShardCells(now)) BY <2>1, <2>2 DEF Wanted
  <2>6. ShardKeysForCells({c}) \cap Followed # {} BY <2>4, <2>5, WantedIsFollowed
  <2>7. ShardKeysForCells({c}) \subseteq FiledUnder(q)
    BY <2>2, <2>3 DEF FiledUnder, ShardKeysForCells
  <2>8. QED BY <2>6, <2>7
<1>2. QED BY <1>1, WatchInvariant, PTL

----------------------------------------------------------------------------
(* The loops end: the rounds they are given are enough.                      *)

\* Every round of begin absorbs a row that was not absorbed before, so that after as many
\* rounds as there are rows none is left that the stay continues (extract.ts, rule 5).
THEOREM AbsorbingEnds ==
  ASSUME NEW old, NEW t, NEW held, LedgerOK(t, old), OpenOK(t, held), NEW V, NEW c, ClusterOK(c),
         ~ OverlapsVisit(c, V)
  PROVE  LET all == Absorbed(t, c, V) IN Mergeable(t, all.c, ToSet(all.taken), V) = {}
<1>1. PICK top : top = Cardinality(DOMAIN t.rows) OBVIOUS
<1>2. PICK g : g = Absorbing(t, c, V) OBVIOUS
<1>3. top \in Nat /\ IsFiniteSet(DOMAIN t.rows) BY <1>1, RowsAreFinite
<1>4. g[0] = [c |-> c, taken |-> <<>>] /\ \A n \in 1 .. top : g[n] = Absorb(t, g[n - 1], V)
  <2>1. AreRounds(g, t, c, V, top) BY <1>1, <1>2, <1>3, AbsorbingRounds
  <2>2. QED BY <2>1 DEF AreRounds
<1> DEFINE Ended(all) == Mergeable(t, all.c, ToSet(all.taken), V) = {}
           OK(n) == IsAbsorbed(t, g[n], V, held) /\ (Len(g[n].taken) = n \/ Ended(g[n]))
           Bad == {n \in 0 .. top : ~ OK(n)}
<1>5. OK(0)
  <2>1. Distinct(<<>>) BY DEF Distinct
  <2>2. <<>> \in Seq(DOMAIN t.rows \ held) OBVIOUS
  <2>3. IsAbsorbed(t, g[0], V, held) BY <1>4, <2>1, <2>2 DEF IsAbsorbed
  <2>4. Len(g[0].taken) = 0 BY <1>4
  <2>5. QED BY <2>3, <2>4
<1>6. Bad = {}
  <2>1. SUFFICES ASSUME Bad # {} PROVE FALSE OBVIOUS
  <2>2. PICK m \in Bad : \A k \in Bad : m <= k
    <3>1. Bad \in SUBSET Nat BY <1>3
    <3> HIDE DEF Bad
    <3>2. QED BY <2>1, <3>1, HasLeast
  <2>3. m \in 0 .. top /\ ~ OK(m) OBVIOUS
  <2>4. m # 0
    <3> HIDE DEF OK
    <3>1. QED BY <1>5, <2>3
  <2>5. m - 1 \in 0 .. top /\ m \in 1 .. top /\ ~ (m <= m - 1) BY <1>3, <2>3, <2>4
  <2>6. m - 1 \notin Bad
    <3> HIDE DEF Bad
    <3>1. QED BY <2>2, <2>5
  <2>7. OK(m - 1)
    <3> HIDE DEF OK
    <3>1. QED BY <2>5, <2>6
  <2>8. PICK all : all = g[m - 1] OBVIOUS
  <2>9. IsAbsorbed(t, all, V, held) /\ (Len(all.taken) = m - 1 \/ Ended(all)) BY <2>7, <2>8
  <2>10. g[m] = Absorb(t, all, V) BY <1>4, <2>5, <2>8
  <2>11. IsAbsorbed(t, g[m], V, held) BY <2>9, <2>10, AbsorbOK
  <2>12. CASE Ended(all)
    <3>1. g[m] = all BY <2>10, <2>12 DEF Absorb
    <3>2. QED BY <2>3, <2>11, <2>12, <3>1
  <2>13. CASE ~ Ended(all) /\ Len(all.taken) = m - 1
    <3>1. PICK k : k = EndingLatest(t, Mergeable(t, all.c, ToSet(all.taken), V)) OBVIOUS
    <3>2. g[m].taken = Append(all.taken, k) BY <2>10, <2>13, <3>1 DEF Absorb
    <3>3. PICK q : q = all.taken OBVIOUS
    <3>4. q \in Seq(DOMAIN t.rows \ held) /\ Len(q) = m - 1 BY <2>9, <2>13, <3>3 DEF IsAbsorbed
    <3>5. Len(Append(q, k)) = Len(q) + 1 BY <3>4
    <3>6. Len(g[m].taken) = m BY <2>5, <3>2, <3>3, <3>4, <3>5
    <3>7. QED BY <2>3, <2>11, <3>6
  <2>14. QED BY <2>9, <2>12, <2>13
<1>7. PICK all : all = g[top] OBVIOUS
<1>8. IsAbsorbed(t, all, V, held) /\ (Len(all.taken) = top \/ Ended(all))
  <2>1. top \in 0 .. top BY <1>3
  <2>2. OK(top)
    <3> HIDE DEF OK
    <3>1. QED BY <1>6, <2>1
  <2>3. QED BY <1>7, <2>2
<1>9. CASE Len(all.taken) = top
  <2>1. PICK q : q = all.taken OBVIOUS
  <2>2. q \in Seq(DOMAIN t.rows \ held) /\ Distinct(q) /\ Len(q) = top
    BY <1>8, <1>9, <2>1 DEF IsAbsorbed
  <2>3. q \in [1 .. top -> DOMAIN t.rows] /\ DOMAIN q = 1 .. top
    <3>1. q \in [1 .. Len(q) -> DOMAIN t.rows \ held] BY <2>2, LenProperties
    <3>2. QED BY <2>2, <3>1
  <2>4. q \in Injection(1 .. top, DOMAIN t.rows)
    <3>1. \A i, j \in 1 .. top : q[i] = q[j] => i = j BY <2>2, <2>3, Zenon DEF Distinct
    <3>2. QED BY <2>3, <3>1 DEF Injection, IsInjective
  <2>5. Cardinality(1 .. top) = top
    <3>1. 1 \in Int /\ top \in Int BY <1>3
    <3>2. Cardinality(1 .. top) = IF 1 > top THEN 0 ELSE top - 1 + 1 BY <3>1, FS_Interval
    <3>3. QED BY <1>3, <3>2
  <2>6. q \in Surjection(1 .. top, DOMAIN t.rows)
    BY <1>1, <1>3, <2>4, <2>5, FS_Injection
  <2>7. \A k \in DOMAIN t.rows : k \in ToSet(q)
    <3>1. \A k \in DOMAIN t.rows : \E i \in 1 .. top : q[i] = k BY <2>6 DEF Surjection
    <3>2. QED BY <2>3, <3>1 DEF ToSet
  <2>8. Ended(all) BY <2>1, <2>7 DEF Mergeable
  <2>9. QED BY <1>1, <1>2, <1>7, <2>8 DEF Absorbed
<1>10. QED BY <1>1, <1>2, <1>7, <1>8, <1>9 DEF Absorbed

\* The dwell after a fix is at most one longer.
LEMMA AloneShort ==
  ASSUME NEW old, NEW t, NEW F, NEW V, NEW todo, NEW held, Good(t, old, F, V, todo, held), t.open = NoRow,
         NEW s \in F, F \subseteq Fix, IdsPositive(old)
  PROVE  Len(Alone(t, s, V).pending.members) <= Len(t.pending.members) + 1
<1>1. PICK n : n = Len(t.pending.members) OBVIOUS
<1>2. n \in Nat BY <1>1 DEF Good, IsDwell
<1>3. Len(NoDwell.members) = 0 BY DEF NoDwell
<1>4. PICK c : c = ClusterOf(s) OBVIOUS
<1>5. ClusterOK(c) BY <1>4, ClusterOfOK
<1>6. CASE OverlapsVisit(c, V)
  <2>1. Alone(t, s, V) = t BY <1>4, <1>6 DEF Alone
  <2>2. QED BY <1>1, <1>2, <2>1
<1>7. CASE ~ OverlapsVisit(c, V) /\ IsStay(c)
  <2>1. Alone(t, s, V) = Begin(t, c, V) BY <1>4, <1>7 DEF Alone
  <2>2. Begin(t, c, V).pending = NoDwell BY <1>5, <1>7, BeginGood
  <2>3. QED BY <1>1, <1>2, <1>3, <2>1, <2>2
<1>8. CASE ~ OverlapsVisit(c, V) /\ ~ IsStay(c)
  <2>1. PICK p : p = [members |-> <<s>>, cluster |-> c] OBVIOUS
  <2>2. Alone(t, s, V) = [t EXCEPT !.pending = p] BY <1>4, <1>8, <2>1 DEF Alone
  <2>3. IsTracker(t) BY DEF Good, LedgerOK
  <2>4. Alone(t, s, V).pending = p BY <2>2, <2>3 DEF IsTracker
  <2>5. Len(p.members) = 1 BY <2>1
  <2>6. QED BY <1>1, <1>2, <2>4, <2>5
<1>9. QED BY <1>6, <1>7, <1>8

\* Placing a fix in the open stay leaves no more of the dwell,
LEMMA PlaceInOpenShort ==
  ASSUME NEW old, NEW t, NEW F, NEW V, NEW todo, NEW held, Good(t, old, F, V, todo, held), t.open # NoRow,
         NEW s \in F, F \subseteq Fix, IdsPositive(old)
  PROVE  Len(PlaceInOpen(t, s, V).pending.members) <= Len(t.pending.members) + 1
<1>1. PICK n : n = Len(t.pending.members) OBVIOUS
<1>2. n \in Nat BY <1>1 DEF Good, IsDwell
<1>3. PICK c : c = t.rows[t.open].c OBVIOUS
<1>4. IsTracker(t) BY DEF Good, LedgerOK
<1>5. CASE Grows(c, s, V)
  <2>1. PlaceInOpen(t, s, V) = SetRow(t, t.open, AddSample(c, s), FALSE)
    BY <1>3, <1>5 DEF PlaceInOpen
  <2>2. PlaceInOpen(t, s, V).pending = t.pending BY <1>4, <2>1 DEF SetRow, IsTracker
  <2>3. QED BY <1>1, <1>2, <2>2
<1>6. CASE ~ Grows(c, s, V)
  <2>1. PICK u : u = SetRow(t, t.open, t.rows[t.open].c, TRUE) OBVIOUS
  <2>2. Good(u, old, F, V, todo, held) /\ u.pending = t.pending BY <2>1, ClosedGood
  <2>3. PICK v : v = [u EXCEPT !.open = NoRow] OBVIOUS
  <2>4. Good(v, old, F, V, todo, held) /\ v.open = NoRow /\ v.pending = t.pending
    BY <2>2, <2>3, SetOpenGood
  <2>5. PlaceInOpen(t, s, V) = Alone(v, s, V) BY <1>3, <1>6, <2>1, <2>3 DEF PlaceInOpen
  <2>6. QED BY <2>4, <2>5, AloneShort
<1>7. QED BY <1>5, <1>6

\* and growing the dwell adds one fix to it at most.
LEMMA GrowPendingShort ==
  ASSUME NEW old, NEW t, NEW F, NEW V, NEW todo, NEW held, Good(t, old, F, V, todo, held), t.open = NoRow,
         t.pending.members # <<>>, NEW s \in F, F \subseteq Fix, IdsPositive(old),
         Grows(t.pending.cluster, s, V)
  PROVE  Len(GrowPending(t, s, V).pending.members) <= Len(t.pending.members) + 1
<1>1. PICK m : m = t.pending.members OBVIOUS
<1>2. IsDwell(t.pending, F) BY DEF Good
<1>3. m \in Seq(F) /\ Len(m) \in Nat BY <1>1, <1>2 DEF IsDwell
<1>4. PICK c : c = AddSample(t.pending.cluster, s) OBVIOUS
<1>5. CASE IsStay(c)
  <2>1. GrowPending(t, s, V) = Begin(t, c, V) BY <1>4, <1>5 DEF GrowPending
  <2>2. ClusterOK(t.pending.cluster) BY <1>2 DEF IsDwell
  <2>3. ClusterOK(c) /\ ~ OverlapsVisit(c, V) BY <1>4, <2>2, AddSampleOK DEF Grows
  <2>4. Begin(t, c, V).pending = NoDwell BY <2>3, BeginGood
  <2>5. Len(NoDwell.members) = 0 BY DEF NoDwell
  <2>6. QED BY <1>1, <1>3, <2>1, <2>4, <2>5
<1>6. CASE ~ IsStay(c)
  <2>1. IsTracker(t) BY DEF Good, LedgerOK
  <2>2. GrowPending(t, s, V).pending.members = Append(m, s)
    BY <1>1, <1>4, <1>6, <2>1 DEF GrowPending, IsTracker
  <2>3. Len(Append(m, s)) = Len(m) + 1 BY <1>3
  <2>4. QED BY <1>1, <1>3, <2>2, <2>3
<1>7. QED BY <1>5, <1>6

\* What is left to do: the fixes held and queued, and the queue.
Weight(held, queued) == (held + queued) * (held + queued) + queued
WeightOf(x) == Weight(Len(x.t.pending.members), Len(x.queue))

\* Squares grow with their roots.
LEMMA Squares == \A m, n \in Nat : m <= n => m * m <= n * n
<1> SUFFICES ASSUME NEW m \in Nat, NEW n \in Nat, m <= n PROVE m * m <= n * n
  OBVIOUS
<1>1. m * m <= n * m BY Products
<1>2. m * n <= n * n BY Products
<1>3. m * n = n * m /\ m * m \in Nat /\ m * n \in Nat /\ n * n \in Nat OBVIOUS
<1>4. QED BY <1>1, <1>2, <1>3

\* The weight falls when fixes come back without one of them,
LEMMA WeightFalls ==
  /\ \A h, q, k \in Nat : q # 0 /\ k <= h + 1 => Weight(k, q - 1) < Weight(h, q)
  /\ \A h, q \in Nat : h # 0 /\ q # 0 => Weight(0, (h - 1) + q) < Weight(h, q)
<1>1. ASSUME NEW h \in Nat, NEW q \in Nat, NEW k \in Nat, q # 0, k <= h + 1
      PROVE  Weight(k, q - 1) < Weight(h, q)
  <2>1. PICK m, n : m = k + (q - 1) /\ n = h + q OBVIOUS
  <2>2. m \in Nat /\ n \in Nat /\ m <= n BY <1>1, <2>1
  <2>3. m * m <= n * n BY <2>2, Squares
  <2>4. m * m \in Nat /\ n * n \in Nat BY <2>2
  <2>5. Weight(k, q - 1) = m * m + (q - 1) /\ Weight(h, q) = n * n + q BY <2>1 DEF Weight
  <2>6. QED BY <1>1, <2>3, <2>4, <2>5
<1>2. ASSUME NEW h \in Nat, NEW q \in Nat, h # 0, q # 0
      PROVE  Weight(0, (h - 1) + q) < Weight(h, q)
  <2>1. PICK m, n : m = (h - 1) + q /\ n = h + q OBVIOUS
  <2>2. m \in Nat /\ n \in Nat /\ n = m + 1 BY <1>2, <2>1
  <2>3. (m + 1) * (m + 1) = m * m + 2 * m + 1 BY <2>2
  <2>4. Weight(0, m) = m * m + m /\ Weight(h, q) = n * n + q BY <2>1, <2>2 DEF Weight
  <2>5. m * m \in Nat BY <2>2
  <2>6. m * m + m < (m * m + 2 * m + 1) + q BY <1>2, <2>2, <2>5
  <2>7. QED BY <2>1, <2>2, <2>3, <2>4, <2>6
<1>3. QED BY <1>1, <1>2

\* so every round of feed with fixes left lowers it.
LEMMA PlaceFalls ==
  ASSUME NEW old, NEW x, NEW F, NEW V, NEW todo, NEW held, IsFeeding(x, old, F, V, todo, held),
         F \subseteq Fix, IdsPositive(old), x.queue # <<>>
  PROVE  WeightOf(Place(x, V)) < WeightOf(x)
<1>1. PICK t, q : t = x.t /\ q = x.queue OBVIOUS
<1>2. Good(t, old, F, V, todo, held) /\ q \in Seq(F) /\ q # <<>> BY <1>1 DEF IsFeeding
<1>3. PICK s, r : s = Head(q) /\ r = Tail(q) OBVIOUS
<1>4. s \in F /\ r \in Seq(F) /\ Len(r) = Len(q) - 1 /\ Len(q) \in Nat /\ Len(q) # 0
  BY <1>2, <1>3
<1>5. PICK h : h = Len(t.pending.members) OBVIOUS
<1>6. h \in Nat BY <1>2, <1>5 DEF Good, IsDwell
<1>7. WeightOf(x) = Weight(h, Len(q)) BY <1>1, <1>5 DEF WeightOf
<1>8. ASSUME NEW u, Good(u, old, F, V, todo, held), Len(u.pending.members) <= h + 1,
             Place(x, V) = [t |-> u, queue |-> r]
      PROVE  WeightOf(Place(x, V)) < WeightOf(x)
  <2>1. PICK k : k = Len(u.pending.members) OBVIOUS
  <2>2. k \in Nat BY <1>8, <2>1 DEF Good, IsDwell
  <2>3. WeightOf(Place(x, V)) = Weight(k, Len(q) - 1) BY <1>4, <1>8, <2>1 DEF WeightOf
  <2>4. QED BY <1>4, <1>6, <1>7, <1>8, <2>1, <2>2, <2>3, WeightFalls
<1>9. CASE t.open # NoRow
  <2>1. Place(x, V) = [t |-> PlaceInOpen(t, s, V), queue |-> r]
    BY <1>1, <1>2, <1>3, <1>9 DEF Place
  <2>2. Good(PlaceInOpen(t, s, V), old, F, V, todo, held) BY <1>2, <1>4, <1>9, PlaceInOpenGood
  <2>3. Len(PlaceInOpen(t, s, V).pending.members) <= h + 1
    BY <1>2, <1>4, <1>5, <1>9, PlaceInOpenShort
  <2>4. QED BY <1>8, <2>1, <2>2, <2>3
<1>10. CASE t.open = NoRow /\ t.pending.members = <<>>
  <2>1. Place(x, V) = [t |-> Alone(t, s, V), queue |-> r]
    BY <1>1, <1>2, <1>3, <1>10 DEF Place
  <2>2. Good(Alone(t, s, V), old, F, V, todo, held) BY <1>2, <1>4, <1>10, AloneGood
  <2>3. Len(Alone(t, s, V).pending.members) <= h + 1 BY <1>2, <1>4, <1>5, <1>10, AloneShort
  <2>4. QED BY <1>8, <2>1, <2>2, <2>3
<1>11. CASE t.open = NoRow /\ t.pending.members # <<>> /\ Grows(t.pending.cluster, s, V)
  <2>1. Place(x, V) = [t |-> GrowPending(t, s, V), queue |-> r]
    BY <1>1, <1>2, <1>3, <1>11 DEF Place
  <2>2. Good(GrowPending(t, s, V), old, F, V, todo, held) BY <1>2, <1>4, <1>11, GrowPendingGood
  <2>3. Len(GrowPending(t, s, V).pending.members) <= h + 1
    BY <1>2, <1>4, <1>5, <1>11, GrowPendingShort
  <2>4. QED BY <1>8, <2>1, <2>2, <2>3
<1>12. CASE t.open = NoRow /\ t.pending.members # <<>> /\ ~ Grows(t.pending.cluster, s, V)
  <2>1. PICK m : m = t.pending.members OBVIOUS
  <2>2. PICK u : u = [t EXCEPT !.pending = NoDwell] OBVIOUS
  <2>3. Place(x, V) = [t |-> u, queue |-> Tail(m) \o q]
    BY <1>1, <1>2, <1>3, <1>12, <2>1, <2>2 DEF Place
  <2>4. u.pending = NoDwell BY <1>2, <2>2 DEF Good, LedgerOK, IsTracker
  <2>5. m \in Seq(F) /\ m # <<>> BY <1>2, <1>12, <2>1 DEF Good, IsDwell
  <2>6. Len(m) # 0 /\ Len(Tail(m)) = Len(m) - 1 /\ Tail(m) \in Seq(F) BY <2>5
  <2>7. Len(Tail(m) \o q) = Len(Tail(m)) + Len(q) BY <1>2, <2>6
  <2>8. Len(NoDwell.members) = 0 BY DEF NoDwell
  <2>9. WeightOf(Place(x, V)) = Weight(0, (h - 1) + Len(q))
    BY <1>5, <2>1, <2>3, <2>4, <2>6, <2>7, <2>8 DEF WeightOf
  <2>10. h # 0 BY <1>5, <2>1, <2>6
  <2>11. QED BY <1>4, <1>6, <1>7, <2>9, <2>10, WeightFalls
<1>13. QED BY <1>9, <1>10, <1>11, <1>12

\* A fix that breaks a short dwell has its fixes tried again, each time without the first: the
\* tracker comes to the end of them (extract.ts, StayTracker.feed).
THEOREM FeedingEnds ==
  ASSUME NEW old, NEW t, NEW F, NEW V, NEW todo, NEW held, Good(t, old, F, V, todo, held),
         NEW s \in F, F \subseteq Fix, IdsPositive(old)
  PROVE  Feeding(t, s, V)[Rounds(t)].queue = <<>>
<1>1. PICK top : top = Rounds(t) OBVIOUS
<1>2. PICK g : g = Feeding(t, s, V) OBVIOUS
<1>3. top \in Nat BY <1>1, RoundsAreNatural DEF Good
<1>4. g[0] = [t |-> t, queue |-> <<s>>] /\ \A n \in 1 .. top : g[n] = Place(g[n - 1], V)
  BY <1>1, <1>2, <1>3, FeedingRounds
<1> DEFINE OK(n) == /\ IsFeeding(g[n], old, F, V, todo, held)
                    /\ g[n].queue = <<>> \/ WeightOf(g[n]) <= top - n
           Bad == {n \in 0 .. top : ~ OK(n)}
<1>5. OK(0)
  <2>1. <<s>> \in Seq(F) /\ Len(<<s>>) = 1 OBVIOUS
  <2>2. IsFeeding(g[0], old, F, V, todo, held) BY <1>4, <2>1 DEF IsFeeding
  <2>3. WeightOf(g[0]) = top BY <1>1, <1>4, <2>1 DEF WeightOf, Weight, Rounds
  <2>4. QED BY <1>3, <2>2, <2>3
<1>6. \A n \in 0 .. top : IsFeeding(g[n], old, F, V, todo, held) => WeightOf(g[n]) \in Nat
  <2>1. ASSUME NEW x, IsFeeding(x, old, F, V, todo, held) PROVE WeightOf(x) \in Nat
    <3>1. PICK h, q : h = Len(x.t.pending.members) /\ q = Len(x.queue) OBVIOUS
    <3>2. h \in Nat /\ q \in Nat BY <2>1, <3>1 DEF IsFeeding, Good, IsDwell
    <3>3. (h + q) * (h + q) + q \in Nat BY <3>2
    <3>4. QED BY <3>1, <3>3 DEF WeightOf, Weight
  <2>2. QED BY <2>1
<1>7. Bad = {}
  <2>1. SUFFICES ASSUME Bad # {} PROVE FALSE OBVIOUS
  <2>2. PICK m \in Bad : \A k \in Bad : m <= k
    <3>1. Bad \in SUBSET Nat BY <1>3
    <3> HIDE DEF Bad
    <3>2. QED BY <2>1, <3>1, HasLeast
  <2>3. m \in 0 .. top /\ ~ OK(m) OBVIOUS
  <2>4. m # 0
    <3> HIDE DEF OK
    <3>1. QED BY <1>5, <2>3
  <2>5. m - 1 \in 0 .. top /\ m \in 1 .. top /\ ~ (m <= m - 1) BY <1>3, <2>3, <2>4
  <2>6. m - 1 \notin Bad
    <3> HIDE DEF Bad
    <3>1. QED BY <2>2, <2>5
  <2>7. OK(m - 1)
    <3> HIDE DEF OK
    <3>1. QED BY <2>5, <2>6
  <2>8. PICK x : x = g[m - 1] OBVIOUS
  <2>9. IsFeeding(x, old, F, V, todo, held) /\ (x.queue = <<>> \/ WeightOf(x) <= top - (m - 1))
    BY <2>7, <2>8
  <2>10. g[m] = Place(x, V) BY <1>4, <2>5, <2>8
  <2>11. IsFeeding(g[m], old, F, V, todo, held) BY <2>9, <2>10, PlaceGood
  <2>12. CASE x.queue = <<>>
    <3>1. g[m] = x BY <2>10, <2>12 DEF Place
    <3>2. QED BY <2>3, <2>11, <2>12, <3>1
  <2>13. CASE x.queue # <<>>
    <3>1. WeightOf(g[m]) < WeightOf(x) BY <2>9, <2>10, <2>13, PlaceFalls
    <3>2. WeightOf(g[m]) \in Nat /\ WeightOf(x) \in Nat
      BY <1>6, <2>3, <2>5, <2>8, <2>9, <2>11
    <3>3. PICK a, b : a = WeightOf(g[m]) /\ b = WeightOf(x) OBVIOUS
    <3>4. a \in Nat /\ b \in Nat /\ a < b /\ b <= top - (m - 1)
      BY <2>9, <2>13, <3>1, <3>2, <3>3
    <3>5. a <= top - m BY <1>3, <2>5, <3>4
    <3>6. QED BY <2>3, <2>11, <3>3, <3>5
  <2>14. QED BY <2>12, <2>13
<1>8. PICK x : x = g[top] OBVIOUS
<1>9. IsFeeding(x, old, F, V, todo, held) /\ (x.queue = <<>> \/ WeightOf(x) <= 0)
  <2>1. top \in 0 .. top /\ top - top = 0 BY <1>3
  <2>2. OK(top)
    <3> HIDE DEF OK
    <3>1. QED BY <1>7, <2>1
  <2>3. QED BY <1>8, <2>1, <2>2
<1>10. WeightOf(x) <= 0 => x.queue = <<>>
  <2>1. PICK h, q : h = Len(x.t.pending.members) /\ q = Len(x.queue) OBVIOUS
  <2>2. h \in Nat /\ q \in Nat /\ x.queue \in Seq(F) BY <1>9, <2>1 DEF IsFeeding, Good, IsDwell
  <2>3. (h + q) * (h + q) \in Nat BY <2>2
  <2>4. WeightOf(x) = (h + q) * (h + q) + q BY <2>1 DEF WeightOf, Weight
  <2>5. WeightOf(x) <= 0 => q = 0 BY <2>2, <2>3, <2>4
  <2>6. PICK z : z = x.queue OBVIOUS
  <2>7. z \in Seq(F) /\ q = Len(z) BY <2>1, <2>2, <2>6
  <2>8. q = 0 => z = <<>> BY <2>7, EmptySeq
  <2>9. QED BY <2>5, <2>6, <2>8
<1>11. QED BY <1>1, <1>2, <1>8, <1>9, <1>10

----------------------------------------------------------------------------
(* Deriving in steps leaves the stays that deriving at once would            *)
(* (SameAsAtOnce): two trackers over the same rows do the same, whatever the *)
(* rows are numbered and stored under, and a dwell still too short at the    *)
(* end of a run is found again by the next.                                  *)

----------------------------------------------------------------------------
(* Rows that say the same.                                                   *)

Twin(r, x) == r.c = x.c /\ r.closed = x.closed

\* Every row of f is in g, whatever its number and its id.
Covers(f, g) == \A j \in DOMAIN f : \E k \in DOMAIN g : Twin(f[j], g[k])
SameRows(f, g) == Covers(f, g) /\ Covers(g, f)

\* No two rows end together.
OneEndEach(f) == \A j, k \in DOMAIN f : f[j].c.end = f[k].c.end => j = k

\* The rows of two trackers, each of one the row of the other that ends with it.
Paired(t, u) == SameRows(t.rows, u.rows) /\ OneEndEach(t.rows) /\ OneEndEach(u.rows)

\* The same rows are among P as among Q.
SameTaken(t, P, u, Q) ==
  \A j \in DOMAIN t.rows : \A k \in DOMAIN u.rows :
    Twin(t.rows[j], u.rows[k]) => (j \in P <=> k \in Q)

\* Neither depends on which tracker comes first.
LEMMA PairedBack ==
  ASSUME NEW t, NEW u, NEW P, NEW Q
  PROVE  /\ Paired(t, u) => Paired(u, t)
         /\ SameTaken(t, P, u, Q) => SameTaken(u, Q, t, P)
<1>1. \A r, x : Twin(r, x) => Twin(x, r) BY DEF Twin
<1>2. Paired(t, u) => Paired(u, t) BY DEF Paired, SameRows
<1>3. SameTaken(t, P, u, Q) => SameTaken(u, Q, t, P) BY <1>1, Zenon DEF SameTaken
<1>4. QED BY <1>2, <1>3

\* Of two pairs of rows the first are one row when the second are.
LEMMA TwinsAreOne ==
  ASSUME NEW t, NEW u, Paired(t, u), NEW i \in DOMAIN t.rows, NEW j \in DOMAIN t.rows,
         NEW k \in DOMAIN u.rows, NEW l \in DOMAIN u.rows,
         Twin(t.rows[i], u.rows[k]), Twin(t.rows[j], u.rows[l])
  PROVE  i = j <=> k = l
<1>1. t.rows[i].c = u.rows[k].c /\ t.rows[j].c = u.rows[l].c BY DEF Twin
<1>2. i = j => k = l BY <1>1 DEF Paired, OneEndEach
<1>3. k = l => i = j BY <1>1 DEF Paired, OneEndEach
<1>4. QED BY <1>2, <1>3

\* A gap between two stays is interrupted by the same rows,
LEMMA InterruptedTwin ==
  ASSUME NEW t, NEW u, Paired(t, u), NEW P, NEW Q, SameTaken(t, P, u, Q),
         NEW j \in DOMAIN t.rows, NEW k \in DOMAIN u.rows, Twin(t.rows[j], u.rows[k]),
         NEW c, NEW V, Interrupted(t, j, c, P, V)
  PROVE  Interrupted(u, k, c, Q, V)
<1>1. t.rows[j].c = u.rows[k].c BY DEF Twin
<1>2. PICK from, to : from = Smaller(t.rows[j].c.end, c.end) /\ to = Larger(t.rows[j].c.start, c.start)
  OBVIOUS
<1>3. from = Smaller(u.rows[k].c.end, c.end) /\ to = Larger(u.rows[k].c.start, c.start)
  BY <1>1, <1>2
<1> DEFINE InGap(o) == o.start < to /\ o.end > from
<1>4. /\ from < to
      /\ (\E i \in DOMAIN t.rows \ (P \cup {j}) : InGap(t.rows[i].c)) \/ (\E v \in V : InGap(v))
  BY <1>2, Zenon DEF Interrupted
<1>5. Interrupted(u, k, c, Q, V)
        <=> /\ from < to
            /\ (\E i \in DOMAIN u.rows \ (Q \cup {k}) : InGap(u.rows[i].c)) \/ (\E v \in V : InGap(v))
  BY <1>3, Zenon DEF Interrupted
<1> HIDE DEF InGap
<1>6. ASSUME NEW i \in DOMAIN t.rows \ (P \cup {j}), InGap(t.rows[i].c)
      PROVE  \E l \in DOMAIN u.rows \ (Q \cup {k}) : InGap(u.rows[l].c)
  <2>1. PICK l \in DOMAIN u.rows : Twin(t.rows[i], u.rows[l]) BY DEF Paired, SameRows, Covers
  <2>2. l # k BY <2>1, TwinsAreOne
  <2>3. l \notin Q BY <2>1 DEF SameTaken
  <2>4. InGap(u.rows[l].c) BY <1>6, <2>1 DEF Twin
  <2>5. QED BY <2>2, <2>3, <2>4
<1>7. QED BY <1>4, <1>5, <1>6, Zenon

\* so the same rows can be merged with a dwell,
LEMMA MergeableTwin ==
  ASSUME NEW t, NEW u, Paired(t, u), NEW P, NEW Q, SameTaken(t, P, u, Q),
         NEW c, NEW V, NEW j \in Mergeable(t, c, P, V), NEW k \in DOMAIN u.rows,
         Twin(t.rows[j], u.rows[k])
  PROVE  k \in Mergeable(u, c, Q, V)
<1>1. t.rows[j].c = u.rows[k].c /\ t.rows[j].closed = u.rows[k].closed BY DEF Twin
<1>2. /\ j \in DOMAIN t.rows /\ j \notin P /\ t.rows[j].closed /\ CanMerge(t.rows[j].c, c)
      /\ ~ Interrupted(t, j, c, P, V) /\ ~ OverlapsVisit(MergeClusters(t.rows[j].c, c), V)
  BY Zenon DEF Mergeable
<1>3. k \notin Q BY <1>2 DEF SameTaken
<1>4. ~ Interrupted(u, k, c, Q, V)
  <2>1. Paired(u, t) /\ SameTaken(u, Q, t, P) BY PairedBack
  <2>2. Twin(u.rows[k], t.rows[j]) BY <1>1 DEF Twin
  <2>3. QED BY <1>2, <2>1, <2>2, InterruptedTwin
<1>5. u.rows[k].closed BY <1>1, <1>2, Zenon
<1>6. QED BY <1>1, <1>2, <1>3, <1>4, <1>5, Zenon DEF Mergeable

\* and of these the one that ends last is the same.
LEMMA LatestTwin ==
  ASSUME NEW old, NEW t, LedgerOK(t, old), NEW new, NEW u, LedgerOK(u, new), Paired(t, u),
         NEW P, NEW Q, SameTaken(t, P, u, Q), NEW c, NEW V, Mergeable(t, c, P, V) # {}
  PROVE  LET M == Mergeable(t, c, P, V)
             N == Mergeable(u, c, Q, V)
         IN /\ N # {} /\ EndingLatest(t, M) \in M /\ EndingLatest(u, N) \in N
            /\ Twin(t.rows[EndingLatest(t, M)], u.rows[EndingLatest(u, N)])
<1>1. PICK M, N : M = Mergeable(t, c, P, V) /\ N = Mergeable(u, c, Q, V) OBVIOUS
<1>2. M \in SUBSET DOMAIN t.rows /\ N \in SUBSET DOMAIN u.rows BY <1>1 DEF Mergeable
<1>3. \A j \in M : \A k \in DOMAIN u.rows : Twin(t.rows[j], u.rows[k]) => k \in N
  BY <1>1, MergeableTwin
<1>4. \A k \in N : \A j \in DOMAIN t.rows : Twin(u.rows[k], t.rows[j]) => j \in M
  <2>1. Paired(u, t) /\ SameTaken(u, Q, t, P) BY PairedBack
  <2>2. QED BY <1>1, <2>1, MergeableTwin
<1>5. /\ \A j \in DOMAIN t.rows : \E k \in DOMAIN u.rows : Twin(t.rows[j], u.rows[k])
      /\ \A k \in DOMAIN u.rows : \E j \in DOMAIN t.rows : Twin(u.rows[k], t.rows[j])
  BY Zenon DEF Paired, SameRows, Covers
<1>6. M # {} /\ N # {} BY <1>1, <1>2, <1>3, <1>5
<1>7. PICK j : j = EndingLatest(t, M) OBVIOUS
<1>8. PICK k : k = EndingLatest(u, N) OBVIOUS
<1>9. j \in M /\ \A i \in M : t.rows[i].c.end <= t.rows[j].c.end
  BY <1>2, <1>6, <1>7, EndingLatestIsOne
<1>10. k \in N /\ \A i \in N : u.rows[i].c.end <= u.rows[k].c.end
  BY <1>2, <1>6, <1>8, EndingLatestIsOne
<1>11. PICK l \in N : Twin(t.rows[j], u.rows[l]) BY <1>2, <1>3, <1>5, <1>9
<1>12. PICK i \in M : Twin(u.rows[k], t.rows[i]) BY <1>2, <1>4, <1>5, <1>10
<1>13. l = k
  <2>1. PICK a, b : a = u.rows[k].c.end /\ b = u.rows[l].c.end OBVIOUS
  <2>2. b = t.rows[j].c.end /\ a = t.rows[i].c.end BY <1>11, <1>12, <2>1 DEF Twin
  <2>3. b <= a /\ a <= b BY <1>9, <1>10, <2>1, <2>2
  <2>4. a \in Nat /\ b \in Nat
    <3>1. RowOK(u.rows[k], new) /\ RowOK(u.rows[l], new) BY <1>2, <1>10 DEF LedgerOK
    <3>2. QED BY <2>1, <3>1 DEF RowOK, Row, Cluster
  <2>5. a = b BY <2>3, <2>4
  <2>6. QED BY <1>2, <1>10, <2>1, <2>5 DEF Paired, OneEndEach
<1>14. QED BY <1>1, <1>6, <1>7, <1>8, <1>9, <1>10, <1>11, <1>13

\* What two dwells have come to that absorb the same rows.
SameAbsorbed(t, all, u, other) ==
  all.c = other.c /\ SameTaken(t, ToSet(all.taken), u, ToSet(other.taken))

\* A sequence with an element more.
LEMMA ToSetAppend ==
  ASSUME NEW S, NEW q \in Seq(S), NEW k \in S
  PROVE  ToSet(Append(q, k)) = ToSet(q) \cup {k}
<1>1. PICK n : n = Len(q) OBVIOUS
<1>2. PICK p : p = Append(q, k) OBVIOUS
<1>3. /\ n \in Nat /\ DOMAIN q = 1 .. n /\ DOMAIN p = 1 .. (n + 1) /\ p[n + 1] = k
      /\ \A i \in 1 .. n : p[i] = q[i]
  BY <1>1, <1>2
<1>4. 1 .. (n + 1) = (1 .. n) \cup {n + 1} BY <1>3
<1>5. QED BY <1>2, <1>3, <1>4 DEF ToSet

\* They absorb the same row next,
LEMMA AbsorbTwin ==
  ASSUME NEW old, NEW t, LedgerOK(t, old), NEW new, NEW u, LedgerOK(u, new), Paired(t, u),
         NEW V, NEW all, all.taken \in Seq(DOMAIN t.rows),
         NEW other, other.taken \in Seq(DOMAIN u.rows), SameAbsorbed(t, all, u, other)
  PROVE  SameAbsorbed(t, Absorb(t, all, V), u, Absorb(u, other, V))
<1>1. PICK c, P, Q : c = all.c /\ P = ToSet(all.taken) /\ Q = ToSet(other.taken) OBVIOUS
<1>2. c = other.c /\ SameTaken(t, P, u, Q) BY <1>1 DEF SameAbsorbed
<1>3. PICK M, N : M = Mergeable(t, c, P, V) /\ N = Mergeable(u, c, Q, V) OBVIOUS
<1>4. Paired(u, t) /\ SameTaken(u, Q, t, P) BY <1>2, PairedBack
<1>5. CASE M = {}
  <2>1. N = {} BY <1>3, <1>4, <1>5, LatestTwin
  <2>2. Absorb(t, all, V) = all BY <1>1, <1>3, <1>5 DEF Absorb
  <2>3. Absorb(u, other, V) = other BY <1>1, <1>2, <1>3, <2>1 DEF Absorb
  <2>4. QED BY <2>2, <2>3
<1>6. CASE M # {}
  <2>1. PICK j, k : j = EndingLatest(t, M) /\ k = EndingLatest(u, N) OBVIOUS
  <2>2. N # {} /\ j \in M /\ k \in N /\ Twin(t.rows[j], u.rows[k])
    BY <1>2, <1>3, <1>6, <2>1, LatestTwin
  <2>3. j \in DOMAIN t.rows /\ k \in DOMAIN u.rows BY <1>3, <2>2 DEF Mergeable
  <2>4. PICK x, y : x = Absorb(t, all, V) /\ y = Absorb(u, other, V) OBVIOUS
  <2>5. x.c = MergeClusters(t.rows[j].c, c) /\ x.taken = Append(all.taken, j)
    BY <1>1, <1>3, <1>6, <2>1, <2>4 DEF Absorb
  <2>6. y.c = MergeClusters(u.rows[k].c, c) /\ y.taken = Append(other.taken, k)
    BY <1>1, <1>2, <1>3, <2>1, <2>2, <2>4 DEF Absorb
  <2>7. x.c = y.c BY <2>2, <2>5, <2>6 DEF Twin
  <2>8. ToSet(x.taken) = P \cup {j} /\ ToSet(y.taken) = Q \cup {k}
    BY <1>1, <2>3, <2>5, <2>6, ToSetAppend
  <2>9. \A a \in DOMAIN t.rows : \A b \in DOMAIN u.rows : Twin(t.rows[a], u.rows[b]) => (a = j <=> b = k)
    BY <2>2, <2>3, TwinsAreOne
  <2>10. SameTaken(t, P \cup {j}, u, Q \cup {k}) BY <1>2, <2>9 DEF SameTaken
  <2>11. QED BY <2>4, <2>7, <2>8, <2>10 DEF SameAbsorbed
<1>7. QED BY <1>5, <1>6

\* There are as many of them in one tracker as in the other.
LEMMA PairedCount ==
  ASSUME NEW t, NEW u, Paired(t, u), IsFiniteSet(DOMAIN t.rows)
  PROVE  Cardinality(DOMAIN t.rows) = Cardinality(DOMAIN u.rows)
<1>1. PICK S, T : S = DOMAIN t.rows /\ T = DOMAIN u.rows OBVIOUS
<1>2. PICK f : f = [j \in S |-> CHOOSE k \in T : Twin(t.rows[j], u.rows[k])] OBVIOUS
<1>3. \A j \in S : f[j] \in T /\ Twin(t.rows[j], u.rows[f[j]])
  <2>1. ASSUME NEW j \in S PROVE f[j] \in T /\ Twin(t.rows[j], u.rows[f[j]])
    <3>1. \E k \in T : Twin(t.rows[j], u.rows[k]) BY <1>1 DEF Paired, SameRows, Covers
    <3>2. f[j] = CHOOSE k \in T : Twin(t.rows[j], u.rows[k]) BY <1>2
    <3>3. QED BY <3>1, <3>2
  <2>2. QED BY <2>1
<1>4. f \in [S -> T] BY <1>2, <1>3
<1>5. \A i, j \in S : f[i] = f[j] => i = j BY <1>1, <1>3, TwinsAreOne
<1>6. \A k \in T : \E j \in S : f[j] = k
  <2>1. ASSUME NEW k \in T PROVE \E j \in S : f[j] = k
    <3>1. PICK j \in S : Twin(u.rows[k], t.rows[j]) BY <1>1 DEF Paired, SameRows, Covers
    <3>2. Twin(t.rows[j], u.rows[k]) BY <3>1 DEF Twin
    <3>3. QED BY <1>1, <1>3, <3>2, TwinsAreOne
  <2>2. QED BY <2>1
<1>7. f \in Bijection(S, T)
  BY <1>4, <1>5, <1>6 DEF Bijection, Injection, Surjection, IsInjective
<1>8. ExistsBijection(S, T) BY <1>7 DEF ExistsBijection
<1>9. QED BY <1>1, <1>8, FS_Bijection

----------------------------------------------------------------------------
(* What begins a stay, in two trackers.                                      *)

\* A tracker that feeds on fixes, all its rows clear of the visits.
IsRunning(t, old, V) == Good(t, old, Fix, V, {}, {}) /\ IdsPositive(old)

\* A dwell absorbs the same rows in both.
LEMMA AbsorbedTwin ==
  ASSUME NEW old, NEW t, NEW V, IsRunning(t, old, V), NEW new, NEW u, IsRunning(u, new, V),
         Paired(t, u), NEW c, ClusterOK(c), ~ OverlapsVisit(c, V)
  PROVE  SameAbsorbed(t, Absorbed(t, c, V), u, Absorbed(u, c, V))
<1>1. /\ LedgerOK(t, old) /\ OpenOK(t, {}) /\ LedgerOK(u, new) /\ OpenOK(u, {})
  BY DEF IsRunning, Good
<1>2. PICK top : top = Cardinality(DOMAIN t.rows) OBVIOUS
<1>3. IsFiniteSet(DOMAIN t.rows) /\ IsFiniteSet(DOMAIN u.rows) /\ top \in Nat
  BY <1>1, <1>2, RowsAreFinite
<1>4. top = Cardinality(DOMAIN u.rows) BY <1>2, <1>3, PairedCount
<1>5. PICK g, h : g = Absorbing(t, c, V) /\ h = Absorbing(u, c, V) OBVIOUS
<1>6. g[0] = [c |-> c, taken |-> <<>>] /\ \A n \in 1 .. top : g[n] = Absorb(t, g[n - 1], V)
  <2>1. AreRounds(g, t, c, V, top) BY <1>2, <1>3, <1>5, AbsorbingRounds
  <2>2. QED BY <2>1 DEF AreRounds
<1>7. h[0] = [c |-> c, taken |-> <<>>] /\ \A n \in 1 .. top : h[n] = Absorb(u, h[n - 1], V)
  <2>1. AreRounds(h, u, c, V, top) BY <1>3, <1>4, <1>5, AbsorbingRounds
  <2>2. QED BY <2>1 DEF AreRounds
<1> DEFINE OK(n) == /\ IsAbsorbed(t, g[n], V, {}) /\ IsAbsorbed(u, h[n], V, {})
                    /\ SameAbsorbed(t, g[n], u, h[n])
           Bad == {n \in 0 .. top : ~ OK(n)}
<1>8. OK(0)
  <2>1. Distinct(<<>>) BY DEF Distinct
  <2>2. \A S : <<>> \in Seq(S) OBVIOUS
  <2>3. ToSet(<<>>) = {} BY DEF ToSet
  <2>4. SameAbsorbed(t, g[0], u, h[0]) BY <1>6, <1>7, <2>3 DEF SameAbsorbed, SameTaken
  <2>5. IsAbsorbed(t, g[0], V, {}) BY <1>6, <2>1, <2>2 DEF IsAbsorbed
  <2>6. IsAbsorbed(u, h[0], V, {}) BY <1>7, <2>1, <2>2 DEF IsAbsorbed
  <2>7. QED BY <2>4, <2>5, <2>6
<1>9. Bad = {}
  <2>1. SUFFICES ASSUME Bad # {} PROVE FALSE OBVIOUS
  <2>2. PICK m \in Bad : \A k \in Bad : m <= k
    <3>1. Bad \in SUBSET Nat BY <1>3
    <3> HIDE DEF Bad
    <3>2. QED BY <2>1, <3>1, HasLeast
  <2>3. m \in 0 .. top /\ ~ OK(m) OBVIOUS
  <2>4. m # 0
    <3> HIDE DEF OK
    <3>1. QED BY <1>8, <2>3
  <2>5. m - 1 \in 0 .. top /\ m \in 1 .. top /\ ~ (m <= m - 1) BY <1>3, <2>3, <2>4
  <2>6. m - 1 \notin Bad
    <3> HIDE DEF Bad
    <3>1. QED BY <2>2, <2>5
  <2>7. OK(m - 1)
    <3> HIDE DEF OK
    <3>1. QED BY <2>5, <2>6
  <2>8. PICK all, other : all = g[m - 1] /\ other = h[m - 1] OBVIOUS
  <2>9. IsAbsorbed(t, all, V, {}) /\ IsAbsorbed(u, other, V, {}) /\ SameAbsorbed(t, all, u, other)
    BY <2>7, <2>8
  <2>10. g[m] = Absorb(t, all, V) /\ h[m] = Absorb(u, other, V) BY <1>6, <1>7, <2>5, <2>8
  <2>11. IsAbsorbed(t, g[m], V, {}) /\ IsAbsorbed(u, h[m], V, {})
    BY <1>1, <2>9, <2>10, AbsorbOK
  <2>12. all.taken \in Seq(DOMAIN t.rows) /\ other.taken \in Seq(DOMAIN u.rows)
    <3>1. \A S : S \ {} = S OBVIOUS
    <3>2. QED BY <2>9, <3>1 DEF IsAbsorbed
  <2>13. SameAbsorbed(t, g[m], u, h[m]) BY <1>1, <2>9, <2>10, <2>12, AbsorbTwin
  <2>14. QED BY <2>3, <2>11, <2>13
<1>10. top \in 0 .. top BY <1>3
<1>11. SameAbsorbed(t, g[top], u, h[top]) BY <1>9, <1>10
<1>12. QED BY <1>2, <1>4, <1>5, <1>11 DEF Absorbed

\* The rows after begin: those not absorbed, and the open one in place of the others.
HasBegun(u, t, all) ==
  /\ u.open \in DOMAIN u.rows /\ u.rows[u.open].c = all.c /\ u.rows[u.open].closed = FALSE
  /\ u.pending = NoDwell
  /\ \A k : k \in DOMAIN u.rows /\ k # u.open <=> k \in DOMAIN t.rows /\ k \notin ToSet(all.taken)
  /\ \A k \in DOMAIN u.rows : k # u.open => u.rows[k] = t.rows[k]

\* What begin leaves.
LEMMA BeginRows ==
  ASSUME NEW old, NEW t, NEW V, IsRunning(t, old, V), t.open = NoRow,
         NEW c, ClusterOK(c), ~ OverlapsVisit(c, V)
  PROVE  HasBegun(Begin(t, c, V), t, Absorbed(t, c, V))
<1>1. PICK all : all = Absorbed(t, c, V) OBVIOUS
<1>2. Good(t, old, Fix, V, {}, {}) /\ IdsPositive(old) BY DEF IsRunning
<1>3. IsAbsorbed(t, all, V, {}) BY <1>1, <1>2, AbsorbedOK DEF Good
<1>4. PICK keeper : keeper = Keeper(t, all) OBVIOUS
<1>5. keeper = NoRow \/ keeper \in DOMAIN t.rows \ {} BY <1>3, <1>4, KeeperOK
<1>6. PICK v : v = [t EXCEPT !.pending = NoDwell] OBVIOUS
<1>7. Good(v, old, Fix, V, {}, {}) /\ v.rows = t.rows /\ v.open = NoRow /\ v.pending = NoDwell
  BY <1>2, <1>6, SetPendingGood, NoDwellIsDwell
<1>8. PICK taken : taken = all.taken OBVIOUS
<1>9. taken \in Seq(DOMAIN v.rows \ {}) /\ Distinct(taken) BY <1>3, <1>7, <1>8 DEF IsAbsorbed
<1>10. PICK left : left = RemovingOthers(v, taken, keeper)[Len(taken)] OBVIOUS
<1>11. IsRemoving(left, old, Len(taken), v, taken, keeper, Fix, V, {}, {})
  BY <1>2, <1>5, <1>7, <1>9, <1>10, RemovingOK
<1>12. /\ Good(left, old, Fix, V, {}, {}) /\ left.pending = NoDwell /\ left.open = NoRow
       /\ \A k : k \in DOMAIN left.rows <=> IsLeft(k, Len(taken), v, taken, keeper)
       /\ \A k \in DOMAIN left.rows : left.rows[k] = t.rows[k]
       /\ keeper # NoRow => keeper \in DOMAIN left.rows
  BY <1>7, <1>11, Zenon DEF IsRemoving
<1>13. \A k : k \in DOMAIN left.rows
                <=> k \in DOMAIN t.rows /\ (k \in ToSet(taken) => k = keeper)
  <2>1. \A i \in DOMAIN taken : i <= Len(taken)
    <3>1. DOMAIN taken = 1 .. Len(taken) BY <1>9
    <3>2. QED BY <3>1
  <2>2. \A k : k \in ToSet(taken) <=> \E i \in DOMAIN taken : taken[i] = k BY DEF ToSet
  <2>3. \A k : IsLeft(k, Len(taken), v, taken, keeper)
                 <=> k \in DOMAIN t.rows /\ (k \in ToSet(taken) => k = keeper)
    BY <1>7, <2>1, <2>2, Zenon DEF IsLeft
  <2>4. QED BY <1>12, <2>3
<1>14. keeper # NoRow => keeper \in ToSet(taken)
  <2>1. PICK began : began = Starters(t, all) OBVIOUS
  <2>2. CASE began = {} BY <1>4, <2>1, <2>2, KeeperIs, Zenon
  <2>3. CASE began # {}
    <3>1. began \in SUBSET Nat
      <4>1. DOMAIN taken = 1 .. Len(taken) /\ Len(taken) \in Nat BY <1>9
      <4>2. QED BY <1>8, <2>1, <4>1 DEF Starters
    <3>2. Min(began) \in began BY <2>3, <3>1, MinOfNaturals
    <3>3. keeper = taken[Min(began)]
      <4>1. Keeper(t, all) = all.taken[Min(began)] BY <2>1, <2>3, KeeperIs
      <4>2. QED BY <1>4, <1>8, <4>1, Zenon
    <3>4. Min(began) \in DOMAIN taken BY <1>8, <2>1, <3>2, Zenon DEF Starters
    <3>5. QED BY <3>3, <3>4, Zenon DEF ToSet
  <2>4. QED BY <2>2, <2>3
<1>15. IsTracker(left) /\ NoRow \notin DOMAIN left.rows BY <1>12, NoRowIsNoKey DEF Good, LedgerOK
<1>16. PICK u : u = Begin(t, c, V) OBVIOUS
<1>17. u = IF keeper = NoRow THEN InsertRow(left, all.c)
           ELSE [SetRow(left, keeper, all.c, FALSE) EXCEPT !.open = keeper]
  BY <1>1, <1>4, <1>6, <1>8, <1>10, <1>16 DEF Begin, Join
<1>18. \E r : /\ u.rows = With(left.rows, u.open, r) /\ r.c = all.c /\ r.closed = FALSE
              /\ u.open = (IF keeper = NoRow THEN left.fresh ELSE keeper)
              /\ u.pending = left.pending
  <2>1. CASE keeper = NoRow
    <3>1. PICK again : again = StartingAt(left.removed, all.c) OBVIOUS
    <3>2. PICK r : r = [id |-> IF again = {} THEN 0 ELSE left.removed[Min(again)].id,
                        closed |-> FALSE, c |-> all.c]
      OBVIOUS
    <3>3. u.rows = With(left.rows, left.fresh, r) /\ u.open = left.fresh /\ u.pending = left.pending
      BY <1>15, <1>17, <2>1, <3>1, <3>2 DEF InsertRow, IsTracker
    <3>4. r.c = all.c /\ r.closed = FALSE BY <3>2
    <3>5. QED BY <2>1, <3>3, <3>4
  <2>2. CASE keeper # NoRow
    <3>1. PICK r : r = [id |-> left.rows[keeper].id, closed |-> FALSE, c |-> all.c] OBVIOUS
    <3>2. u.rows = With(left.rows, keeper, r) /\ u.open = keeper /\ u.pending = left.pending
      BY <1>15, <1>17, <2>2, <3>1 DEF SetRow, IsTracker
    <3>3. r.c = all.c /\ r.closed = FALSE BY <3>1
    <3>4. QED BY <2>2, <3>2, <3>3
  <2>3. QED BY <2>1, <2>2
<1>19. PICK r : /\ u.rows = With(left.rows, u.open, r) /\ r.c = all.c /\ r.closed = FALSE
                /\ u.open = (IF keeper = NoRow THEN left.fresh ELSE keeper)
                /\ u.pending = left.pending
  BY <1>18
<1>20. /\ DOMAIN u.rows = DOMAIN left.rows \cup {u.open} /\ u.rows[u.open] = r
       /\ \A k \in DOMAIN left.rows \ {u.open} : u.rows[k] = left.rows[k]
  <2>1. IsWith(u.rows, left.rows, u.open, r) BY <1>19, WithFacts
  <2>2. QED BY <2>1 DEF IsWith, Agree
<1>21. keeper = NoRow => u.open \notin DOMAIN left.rows
  <2>1. left.fresh \in Nat /\ DOMAIN left.rows \subseteq 1 .. (left.fresh - 1)
    BY <1>12 DEF Good, LedgerOK, Numbered
  <2>2. left.fresh \notin DOMAIN left.rows BY <2>1
  <2>3. QED BY <1>19, <2>2
<1>22. \A k : k \in DOMAIN u.rows /\ k # u.open <=> k \in DOMAIN t.rows /\ k \notin ToSet(taken)
  <2>1. CASE keeper = NoRow
    <3>1. \A k \in ToSet(taken) : k # keeper
      <4>1. ToSet(taken) \subseteq DOMAIN t.rows
        <5>1. \A i \in DOMAIN taken : taken[i] \in DOMAIN t.rows
          <6>1. DOMAIN taken = 1 .. Len(taken) BY <1>9
          <6>2. QED BY <1>7, <1>9, <6>1, ElementOfSeq
        <5>2. QED BY <5>1 DEF ToSet
      <4>2. NoRow \notin DOMAIN t.rows BY <1>2, NoRowIsNoKey DEF Good
      <4>3. QED BY <2>1, <4>1, <4>2
    <3>2. \A k : k \in DOMAIN left.rows <=> k \in DOMAIN t.rows /\ k \notin ToSet(taken)
      BY <1>13, <3>1
    <3>3. \A k : k \in DOMAIN u.rows /\ k # u.open <=> k \in DOMAIN left.rows
      BY <1>20, <1>21, <2>1
    <3>4. QED BY <3>2, <3>3
  <2>2. CASE keeper # NoRow
    <3>1. u.open = keeper /\ keeper \in DOMAIN left.rows /\ keeper \in ToSet(taken)
      BY <1>12, <1>14, <1>19, <2>2
    <3>2. \A k : k \in DOMAIN u.rows /\ k # u.open <=> k \in DOMAIN left.rows /\ k # keeper
      BY <1>20, <3>1
    <3>3. \A k : k \in DOMAIN left.rows /\ k # keeper <=> k \in DOMAIN t.rows /\ k \notin ToSet(taken)
      BY <1>13, <3>1
    <3>4. QED BY <3>2, <3>3
  <2>3. QED BY <2>1, <2>2
<1>23. \A k \in DOMAIN u.rows : k # u.open => u.rows[k] = t.rows[k] BY <1>12, <1>20
<1>24. u.open \in DOMAIN u.rows /\ u.rows[u.open].c = all.c /\ u.rows[u.open].closed = FALSE
  BY <1>19, <1>20
<1>25. u.pending = NoDwell BY <1>12, <1>19
<1>26. HasBegun(u, t, all) BY <1>8, <1>22, <1>23, <1>24, <1>25 DEF HasBegun
<1>27. QED BY <1>1, <1>16, <1>26

\* Two trackers that differ in the numbers and the ids of their rows only.
Alike(t, u) ==
  /\ SameRows(t.rows, u.rows) /\ t.pending = u.pending /\ (t.open = NoRow <=> u.open = NoRow)
  /\ t.open # NoRow => Twin(t.rows[t.open], u.rows[u.open])

\* One covers the other's rows after begin,
LEMMA BegunCovers ==
  ASSUME NEW t, NEW u, Paired(t, u), NEW all, NEW other, SameAbsorbed(t, all, u, other),
         NEW x, HasBegun(x, t, all), NEW y, HasBegun(y, u, other)
  PROVE  Covers(x.rows, y.rows) /\ Twin(x.rows[x.open], y.rows[y.open])
<1>1. Twin(x.rows[x.open], y.rows[y.open]) BY DEF HasBegun, SameAbsorbed, Twin
<1>2. ASSUME NEW j \in DOMAIN x.rows PROVE \E k \in DOMAIN y.rows : Twin(x.rows[j], y.rows[k])
  <2>1. CASE j = x.open
    <3>1. y.open \in DOMAIN y.rows BY DEF HasBegun
    <3>2. QED BY <1>1, <2>1, <3>1
  <2>2. CASE j # x.open
    <3>1. j \in DOMAIN t.rows /\ j \notin ToSet(all.taken) /\ x.rows[j] = t.rows[j]
      BY <2>2, Zenon DEF HasBegun
    <3>2. PICK k \in DOMAIN u.rows : Twin(t.rows[j], u.rows[k])
      BY <3>1, Zenon DEF Paired, SameRows, Covers
    <3>3. k \notin ToSet(other.taken) BY <3>1, <3>2, Zenon DEF SameAbsorbed, SameTaken
    <3>4. k \in DOMAIN y.rows /\ y.rows[k] = u.rows[k] BY <3>2, <3>3, Zenon DEF HasBegun
    <3>5. QED BY <3>1, <3>2, <3>4
  <2>3. QED BY <2>1, <2>2
<1>3. Covers(x.rows, y.rows) BY <1>2 DEF Covers
<1>4. QED BY <1>1, <1>3

\* so begin keeps two trackers alike,
LEMMA BeginTwin ==
  ASSUME NEW old, NEW t, NEW V, IsRunning(t, old, V), NEW new, NEW u, IsRunning(u, new, V),
         Paired(t, u), t.open = NoRow, u.open = NoRow, NEW c, ClusterOK(c), ~ OverlapsVisit(c, V)
  PROVE  Alike(Begin(t, c, V), Begin(u, c, V))
<1>1. PICK all, other : all = Absorbed(t, c, V) /\ other = Absorbed(u, c, V) OBVIOUS
<1>2. PICK x, y : x = Begin(t, c, V) /\ y = Begin(u, c, V) OBVIOUS
<1>3. HasBegun(x, t, all) /\ HasBegun(y, u, other) BY <1>1, <1>2, BeginRows
<1>4. SameAbsorbed(t, all, u, other) BY <1>1, AbsorbedTwin
<1>5. Paired(u, t) /\ SameAbsorbed(u, other, t, all) BY <1>4, PairedBack DEF SameAbsorbed
<1>6. SameRows(x.rows, y.rows) /\ Twin(x.rows[x.open], y.rows[y.open])
  BY <1>3, <1>4, <1>5, BegunCovers DEF SameRows
<1>7. NoRow \notin DOMAIN x.rows /\ NoRow \notin DOMAIN y.rows
  <2>1. Good(x, old, Fix, V, {}, {}) /\ Good(y, new, Fix, V, {}, {})
    BY <1>2, BeginGood DEF IsRunning
  <2>2. QED BY <2>1, NoRowIsNoKey DEF Good
<1>8. x.open # NoRow /\ y.open # NoRow BY <1>3, <1>7 DEF HasBegun
<1>9. x.pending = y.pending BY <1>3 DEF HasBegun
<1>10. QED BY <1>2, <1>6, <1>8, <1>9 DEF Alike

\* as does a fix on its own,
LEMMA AloneTwin ==
  ASSUME NEW old, NEW t, NEW V, IsRunning(t, old, V), NEW new, NEW u, IsRunning(u, new, V),
         Paired(t, u), Alike(t, u), t.open = NoRow, NEW s \in Fix
  PROVE  Alike(Alone(t, s, V), Alone(u, s, V))
<1>1. u.open = NoRow BY DEF Alike
<1>2. PICK c : c = ClusterOf(s) OBVIOUS
<1>3. ClusterOK(c) BY <1>2, ClusterOfOK
<1>4. CASE OverlapsVisit(c, V)
  <2>1. Alone(t, s, V) = t /\ Alone(u, s, V) = u BY <1>2, <1>4 DEF Alone
  <2>2. QED BY <2>1
<1>5. CASE ~ OverlapsVisit(c, V) /\ IsStay(c)
  <2>1. Alone(t, s, V) = Begin(t, c, V) /\ Alone(u, s, V) = Begin(u, c, V)
    BY <1>2, <1>5 DEF Alone
  <2>2. QED BY <1>1, <1>3, <1>5, <2>1, BeginTwin
<1>6. CASE ~ OverlapsVisit(c, V) /\ ~ IsStay(c)
  <2>1. PICK p : p = [members |-> <<s>>, cluster |-> c] OBVIOUS
  <2>2. PICK x, y : x = Alone(t, s, V) /\ y = Alone(u, s, V) OBVIOUS
  <2>3. x = [t EXCEPT !.pending = p] /\ y = [u EXCEPT !.pending = p]
    BY <1>2, <1>6, <2>1, <2>2 DEF Alone
  <2>4. IsTracker(t) /\ IsTracker(u) BY DEF IsRunning, Good, LedgerOK
  <2>5. /\ x.rows = t.rows /\ x.open = t.open /\ x.pending = p
        /\ y.rows = u.rows /\ y.open = u.open /\ y.pending = p
    BY <2>3, <2>4 DEF IsTracker
  <2>6. QED BY <2>2, <2>5 DEF Alike
<1>7. QED BY <1>4, <1>5, <1>6

\* The rows when one of them is set.
LEMMA SetRowRows ==
  ASSUME NEW t, IsTracker(t), NEW k \in DOMAIN t.rows, NEW c, NEW closed
  PROVE  LET x == SetRow(t, k, c, closed) IN
         /\ DOMAIN x.rows = DOMAIN t.rows /\ x.rows[k].c = c /\ x.rows[k].closed = closed
         /\ \A j \in DOMAIN t.rows : j # k => x.rows[j] = t.rows[j]
         /\ x.open = t.open /\ x.pending = t.pending /\ IsTracker(x)
<1>1. PICK x : x = SetRow(t, k, c, closed) OBVIOUS
<1>2. PICK r : r = [id |-> t.rows[k].id, closed |-> closed, c |-> c] OBVIOUS
<1>3. x.rows = With(t.rows, k, r) /\ x.open = t.open /\ x.pending = t.pending /\ IsTracker(x)
  BY <1>1, <1>2 DEF SetRow, IsTracker
<1>4. IsWith(x.rows, t.rows, k, r) BY <1>3, WithFacts
<1>5. /\ DOMAIN x.rows = DOMAIN t.rows /\ x.rows[k] = r
      /\ \A j \in DOMAIN t.rows : j # k => x.rows[j] = t.rows[j]
  BY <1>4 DEF IsWith, Agree
<1>6. r.c = c /\ r.closed = closed BY <1>2
<1>7. QED BY <1>1, <1>3, <1>5, <1>6

\* The open rows set to the same.
LEMMA SetOpenTwin ==
  ASSUME NEW t, NEW u, IsTracker(t), IsTracker(u), Paired(t, u),
         NEW j \in DOMAIN t.rows, NEW k \in DOMAIN u.rows, Twin(t.rows[j], u.rows[k]),
         NEW c, NEW closed
  PROVE  LET x == SetRow(t, j, c, closed)
             y == SetRow(u, k, c, closed)
         IN Covers(x.rows, y.rows) /\ Twin(x.rows[j], y.rows[k])
<1>1. PICK x, y : x = SetRow(t, j, c, closed) /\ y = SetRow(u, k, c, closed) OBVIOUS
<1>2. /\ DOMAIN x.rows = DOMAIN t.rows /\ x.rows[j].c = c /\ x.rows[j].closed = closed
      /\ \A i \in DOMAIN t.rows : i # j => x.rows[i] = t.rows[i]
  BY <1>1, SetRowRows
<1>3. /\ DOMAIN y.rows = DOMAIN u.rows /\ y.rows[k].c = c /\ y.rows[k].closed = closed
      /\ \A i \in DOMAIN u.rows : i # k => y.rows[i] = u.rows[i]
  BY <1>1, SetRowRows
<1>4. Twin(x.rows[j], y.rows[k]) BY <1>2, <1>3 DEF Twin
<1>5. ASSUME NEW i \in DOMAIN t.rows PROVE \E l \in DOMAIN u.rows : Twin(x.rows[i], y.rows[l])
  <2>1. CASE i = j BY <1>4, <2>1
  <2>2. CASE i # j
    <3>1. PICK l \in DOMAIN u.rows : Twin(t.rows[i], u.rows[l])
      BY Zenon DEF Paired, SameRows, Covers
    <3>2. l # k BY <2>2, <3>1, TwinsAreOne
    <3>3. QED BY <1>2, <1>3, <2>2, <3>1, <3>2
  <2>3. QED BY <2>1, <2>2
<1>6. Covers(x.rows, y.rows)
  <2>1. DOMAIN x.rows = DOMAIN t.rows /\ DOMAIN y.rows = DOMAIN u.rows BY <1>2, <1>3, Zenon
  <2>2. QED BY <1>5, <2>1, Zenon DEF Covers
<1>7. QED BY <1>1, <1>4, <1>6

\* Closing the open rows keeps two trackers alike,
LEMMA CloseTwin ==
  ASSUME NEW old, NEW t, NEW V, IsRunning(t, old, V), NEW new, NEW u, IsRunning(u, new, V),
         Paired(t, u), Alike(t, u), t.open # NoRow
  PROVE  LET x == [SetRow(t, t.open, t.rows[t.open].c, TRUE) EXCEPT !.open = NoRow]
             y == [SetRow(u, u.open, u.rows[u.open].c, TRUE) EXCEPT !.open = NoRow]
         IN /\ IsRunning(x, old, V) /\ IsRunning(y, new, V) /\ Paired(x, y) /\ Alike(x, y)
            /\ x.open = NoRow
<1>1. PICK j, k : j = t.open /\ k = u.open OBVIOUS
<1>2. u.open # NoRow /\ Twin(t.rows[j], u.rows[k]) BY <1>1 DEF Alike
<1>3. /\ Good(t, old, Fix, V, {}, {}) /\ Good(u, new, Fix, V, {}, {})
      /\ IdsPositive(old) /\ IdsPositive(new)
  BY DEF IsRunning
<1>4. j \in DOMAIN t.rows /\ k \in DOMAIN u.rows BY <1>1, <1>2, <1>3, Zenon DEF Good, OpenOK
<1>5. IsTracker(t) /\ IsTracker(u) BY <1>3 DEF Good, LedgerOK
<1>6. PICK c : c = t.rows[j].c OBVIOUS
<1>7. c = u.rows[k].c BY <1>2, <1>6 DEF Twin
<1>8. PICK closed \in BOOLEAN : closed = TRUE OBVIOUS
<1>9. PICK a, b : a = SetRow(t, j, c, closed) /\ b = SetRow(u, k, c, closed) OBVIOUS
<1>10. Good(a, old, Fix, V, {}, {}) /\ Good(b, new, Fix, V, {}, {})
  <2>1. a = SetRow(t, t.open, t.rows[t.open].c, TRUE) BY <1>1, <1>6, <1>8, <1>9
  <2>2. b = SetRow(u, u.open, u.rows[u.open].c, TRUE) BY <1>1, <1>7, <1>8, <1>9
  <2>3. QED BY <1>2, <1>3, <2>1, <2>2, ClosedGood
<1>11. SameRows(a.rows, b.rows)
  <2>1. Covers(a.rows, b.rows) BY <1>2, <1>4, <1>5, <1>9, SetOpenTwin
  <2>2. Paired(u, t) /\ Twin(u.rows[k], t.rows[j]) BY <1>2, PairedBack DEF Twin
  <2>3. Covers(b.rows, a.rows) BY <1>4, <1>5, <1>9, <2>2, SetOpenTwin
  <2>4. QED BY <2>1, <2>3 DEF SameRows
<1>12. OneEndEach(a.rows)
  <2>1. DOMAIN a.rows = DOMAIN t.rows /\ \A i \in DOMAIN t.rows : a.rows[i].c = t.rows[i].c
    BY <1>4, <1>5, <1>6, <1>9, SetRowRows
  <2>2. QED BY <2>1 DEF Paired, OneEndEach
<1>13. OneEndEach(b.rows)
  <2>1. DOMAIN b.rows = DOMAIN u.rows /\ \A i \in DOMAIN u.rows : b.rows[i].c = u.rows[i].c
    BY <1>4, <1>5, <1>7, <1>9, SetRowRows
  <2>2. QED BY <2>1 DEF Paired, OneEndEach
<1>14. a.pending = t.pending /\ b.pending = u.pending BY <1>4, <1>5, <1>9, SetRowRows
<1>15. PICK x, y : x = [a EXCEPT !.open = NoRow] /\ y = [b EXCEPT !.open = NoRow] OBVIOUS
<1>16. /\ Good(x, old, Fix, V, {}, {}) /\ x.open = NoRow /\ x.rows = a.rows /\ x.pending = a.pending
       /\ Good(y, new, Fix, V, {}, {}) /\ y.open = NoRow /\ y.rows = b.rows /\ y.pending = b.pending
  BY <1>10, <1>15, SetOpenGood
<1>17. Paired(x, y) BY <1>11, <1>12, <1>13, <1>16 DEF Paired
<1>18. Alike(x, y) BY <1>11, <1>14, <1>16 DEF Alike
<1>19. IsRunning(x, old, V) /\ IsRunning(y, new, V) BY <1>3, <1>16 DEF IsRunning
<1>20. /\ x = [SetRow(t, t.open, t.rows[t.open].c, TRUE) EXCEPT !.open = NoRow]
       /\ y = [SetRow(u, u.open, u.rows[u.open].c, TRUE) EXCEPT !.open = NoRow]
  BY <1>1, <1>6, <1>7, <1>8, <1>9, <1>15
<1>21. QED BY <1>16, <1>17, <1>18, <1>19, <1>20, Zenon

\* and so do a fix placed in the open stay,
LEMMA PlaceInOpenTwin ==
  ASSUME NEW old, NEW t, NEW V, IsRunning(t, old, V), NEW new, NEW u, IsRunning(u, new, V),
         Paired(t, u), Alike(t, u), t.open # NoRow, NEW s \in Fix
  PROVE  Alike(PlaceInOpen(t, s, V), PlaceInOpen(u, s, V))
<1>1. PICK j, k : j = t.open /\ k = u.open OBVIOUS
<1>2. u.open # NoRow /\ Twin(t.rows[j], u.rows[k]) BY <1>1 DEF Alike
<1>3. Good(t, old, Fix, V, {}, {}) /\ Good(u, new, Fix, V, {}, {}) BY DEF IsRunning
<1>4. j \in DOMAIN t.rows /\ k \in DOMAIN u.rows BY <1>1, <1>2, <1>3, Zenon DEF Good, OpenOK
<1>5. IsTracker(t) /\ IsTracker(u) BY <1>3 DEF Good, LedgerOK
<1>6. PICK c : c = t.rows[j].c OBVIOUS
<1>7. c = u.rows[k].c BY <1>2, <1>6 DEF Twin
<1>8. CASE Grows(c, s, V)
  <2>1. PICK closed : closed = FALSE OBVIOUS
  <2>2. PICK d : d = AddSample(c, s) OBVIOUS
  <2>3. PICK a, b : a = SetRow(t, j, d, closed) /\ b = SetRow(u, k, d, closed) OBVIOUS
  <2>4. PlaceInOpen(t, s, V) = a BY <1>1, <1>6, <1>8, <2>1, <2>2, <2>3 DEF PlaceInOpen
  <2>5. PlaceInOpen(u, s, V) = b BY <1>1, <1>7, <1>8, <2>1, <2>2, <2>3 DEF PlaceInOpen
  <2>6. Covers(a.rows, b.rows) /\ Twin(a.rows[j], b.rows[k])
    BY <1>2, <1>4, <1>5, <2>3, SetOpenTwin
  <2>7. Paired(u, t) /\ Twin(u.rows[k], t.rows[j]) BY <1>2, PairedBack DEF Twin
  <2>8. Covers(b.rows, a.rows) BY <1>4, <1>5, <2>3, <2>7, SetOpenTwin
  <2>9. a.open = j /\ b.open = k /\ a.pending = t.pending /\ b.pending = u.pending
    BY <1>1, <1>4, <1>5, <2>3, SetRowRows
  <2>10. Alike(a, b) BY <1>1, <1>2, <2>6, <2>8, <2>9 DEF Alike, SameRows
  <2>11. QED BY <2>4, <2>5, <2>10
<1>9. CASE ~ Grows(c, s, V)
  <2>1. PICK x : x = [SetRow(t, t.open, t.rows[t.open].c, TRUE) EXCEPT !.open = NoRow] OBVIOUS
  <2>2. PICK y : y = [SetRow(u, u.open, u.rows[u.open].c, TRUE) EXCEPT !.open = NoRow] OBVIOUS
  <2>3. /\ IsRunning(x, old, V) /\ IsRunning(y, new, V) /\ Paired(x, y) /\ Alike(x, y)
        /\ x.open = NoRow
    BY <2>1, <2>2, CloseTwin
  <2>4. PlaceInOpen(t, s, V) = Alone(x, s, V) BY <1>1, <1>6, <1>9, <2>1 DEF PlaceInOpen
  <2>5. PlaceInOpen(u, s, V) = Alone(y, s, V) BY <1>1, <1>7, <1>9, <2>2 DEF PlaceInOpen
  <2>6. QED BY <2>3, <2>4, <2>5, AloneTwin
<1>10. QED BY <1>8, <1>9

\* one that grows the dwell that waits,
LEMMA GrowPendingTwin ==
  ASSUME NEW old, NEW t, NEW V, IsRunning(t, old, V), NEW new, NEW u, IsRunning(u, new, V),
         Paired(t, u), Alike(t, u), t.open = NoRow, t.pending.members # <<>>, NEW s \in Fix,
         Grows(t.pending.cluster, s, V)
  PROVE  Alike(GrowPending(t, s, V), GrowPending(u, s, V))
<1>1. u.open = NoRow /\ u.pending = t.pending BY DEF Alike
<1>2. PICK c : c = AddSample(t.pending.cluster, s) OBVIOUS
<1>3. IsTracker(t) /\ IsTracker(u) /\ IsDwell(t.pending, Fix) BY DEF IsRunning, Good, LedgerOK
<1>4. ClusterOK(c) /\ ~ OverlapsVisit(c, V)
  <2>1. ClusterOK(t.pending.cluster) BY <1>3 DEF IsDwell
  <2>2. QED BY <1>2, <2>1, AddSampleOK DEF Grows
<1>5. CASE IsStay(c)
  <2>1. GrowPending(t, s, V) = Begin(t, c, V) /\ GrowPending(u, s, V) = Begin(u, c, V)
    BY <1>1, <1>2, <1>5 DEF GrowPending
  <2>2. QED BY <1>1, <1>4, <2>1, BeginTwin
<1>6. CASE ~ IsStay(c)
  <2>1. PICK p : p = [members |-> Append(t.pending.members, s), cluster |-> c] OBVIOUS
  <2>2. PICK x, y : x = GrowPending(t, s, V) /\ y = GrowPending(u, s, V) OBVIOUS
  <2>3. x = [t EXCEPT !.pending = p]
    BY <1>2, <1>3, <1>6, <2>1, <2>2 DEF GrowPending, IsTracker
  <2>4. y = [u EXCEPT !.pending = p]
    BY <1>1, <1>2, <1>3, <1>6, <2>1, <2>2 DEF GrowPending, IsTracker
  <2>5. /\ x.rows = t.rows /\ x.open = t.open /\ x.pending = p
        /\ y.rows = u.rows /\ y.open = u.open /\ y.pending = p
    BY <1>3, <2>3, <2>4 DEF IsTracker
  <2>6. QED BY <2>2, <2>5 DEF Alike
<1>7. QED BY <1>5, <1>6

\* and a round of feed, whatever it does.
LEMMA PlaceTwin ==
  ASSUME NEW old, NEW t, NEW V, IsRunning(t, old, V), NEW new, NEW u, IsRunning(u, new, V),
         Paired(t, u), Alike(t, u), NEW q \in Seq(Fix)
  PROVE  LET x == Place([t |-> t, queue |-> q], V)
             y == Place([t |-> u, queue |-> q], V)
         IN Alike(x.t, y.t) /\ x.queue = y.queue
<1>1. PICK a, b : a = [t |-> t, queue |-> q] /\ b = [t |-> u, queue |-> q] OBVIOUS
<1>2. a.t = t /\ a.queue = q /\ b.t = u /\ b.queue = q BY <1>1
<1>3. PICK x, y : x = Place(a, V) /\ y = Place(b, V) OBVIOUS
<1>4. (t.open = NoRow <=> u.open = NoRow) /\ u.pending = t.pending BY DEF Alike
<1>5. CASE q = <<>>
  <2>1. x = a /\ y = b BY <1>2, <1>3, <1>5 DEF Place
  <2>2. QED BY <1>1, <1>2, <1>3, <2>1
<1>6. CASE q # <<>>
  <2>1. PICK s, r : s = Head(q) /\ r = Tail(q) OBVIOUS
  <2>2. s \in Fix BY <1>6, <2>1
  <2>3. CASE t.open # NoRow
    <3>1. x = [t |-> PlaceInOpen(t, s, V), queue |-> r]
      BY <1>2, <1>3, <1>6, <2>1, <2>3 DEF Place
    <3>2. y = [t |-> PlaceInOpen(u, s, V), queue |-> r]
      BY <1>2, <1>3, <1>4, <1>6, <2>1, <2>3 DEF Place
    <3>3. Alike(x.t, y.t) BY <2>2, <2>3, <3>1, <3>2, PlaceInOpenTwin
    <3>4. QED BY <1>1, <1>3, <3>1, <3>2, <3>3
  <2>4. CASE t.open = NoRow /\ t.pending.members = <<>>
    <3>1. x = [t |-> Alone(t, s, V), queue |-> r] BY <1>2, <1>3, <1>6, <2>1, <2>4 DEF Place
    <3>2. y = [t |-> Alone(u, s, V), queue |-> r] BY <1>2, <1>3, <1>4, <1>6, <2>1, <2>4 DEF Place
    <3>3. Alike(x.t, y.t) BY <2>2, <2>4, <3>1, <3>2, AloneTwin
    <3>4. QED BY <1>1, <1>3, <3>1, <3>2, <3>3
  <2>5. CASE t.open = NoRow /\ t.pending.members # <<>> /\ Grows(t.pending.cluster, s, V)
    <3>1. x = [t |-> GrowPending(t, s, V), queue |-> r]
      BY <1>2, <1>3, <1>6, <2>1, <2>5 DEF Place
    <3>2. y = [t |-> GrowPending(u, s, V), queue |-> r]
      BY <1>2, <1>3, <1>4, <1>6, <2>1, <2>5 DEF Place
    <3>3. Alike(x.t, y.t) BY <2>2, <2>5, <3>1, <3>2, GrowPendingTwin
    <3>4. QED BY <1>1, <1>3, <3>1, <3>2, <3>3
  <2>6. CASE t.open = NoRow /\ t.pending.members # <<>> /\ ~ Grows(t.pending.cluster, s, V)
    <3>1. PICK m : m = Tail(t.pending.members) \o q OBVIOUS
    <3>2. PICK v, w : v = [t EXCEPT !.pending = NoDwell] /\ w = [u EXCEPT !.pending = NoDwell]
      OBVIOUS
    <3>3. x = [t |-> v, queue |-> m] BY <1>2, <1>3, <1>6, <2>1, <2>6, <3>1, <3>2 DEF Place
    <3>4. y = [t |-> w, queue |-> m] BY <1>2, <1>3, <1>4, <1>6, <2>1, <2>6, <3>1, <3>2 DEF Place
    <3>5. /\ v.rows = t.rows /\ v.open = t.open /\ v.pending = NoDwell
          /\ w.rows = u.rows /\ w.open = u.open /\ w.pending = NoDwell
      <4>1. IsTracker(t) /\ IsTracker(u) BY DEF IsRunning, Good, LedgerOK
      <4>2. QED BY <3>2, <4>1 DEF IsTracker
    <3>6. Alike(v, w) BY <3>5 DEF Alike
    <3>7. QED BY <1>1, <1>3, <3>3, <3>4, <3>6
  <2>7. QED BY <2>3, <2>4, <2>5, <2>6
<1>7. QED BY <1>5, <1>6


----------------------------------------------------------------------------
(* A tracker that is fed fixes in order.                                     *)

IsStretch(q, l, a, b) ==
  q \in Seq(Fix) /\ Len(q) = b - a /\ \A i \in 1 .. Len(q) : q[i] = l[a + i]

Ordered(l) == l \in Seq(Fix) /\ \A i, j \in DOMAIN l : i < j => l[i].ts <= l[j].ts

\* The clusters a dwell went through while it grew.
Climbs(p, g, V) ==
  /\ g[1] = ClusterOf(p.members[1]) /\ ~ OverlapsVisit(g[1], V)
  /\ \A i \in 2 .. Len(p.members) :
       g[i] = AddSample(g[i - 1], p.members[i]) /\ Grows(g[i - 1], p.members[i], V) /\ ~ IsStay(g[i])
  /\ p.cluster = g[Len(p.members)]
Builds(p, V) == \E g : Climbs(p, g, V)

PendingIs(p, l, a, b, V) ==
  /\ IsStretch(p.members, l, a, b)
  /\ p.members = <<>> => p = NoDwell
  /\ p.members # <<>> => Builds(p, V) /\ p.cluster.start = l[a + 1].ts /\ p.cluster.end = l[b].ts

EndsBy(f, l, a) == \A k \in DOMAIN f : \E i \in 1 .. a : f[k].c.end <= l[i].ts

\* The rows are closed but the open one, and that one ends last.
OpenEndsLast(t) ==
  /\ \A k \in DOMAIN t.rows \ {t.open} : t.rows[k].closed = TRUE
  /\ t.open # NoRow =>
       /\ t.rows[t.open].closed = FALSE
       /\ \A k \in DOMAIN t.rows \ {t.open} : t.rows[k].c.end < t.rows[t.open].c.end

\* The first a of the fixes are in the rows or dropped, those from there to b in the dwell that
\* waits.
Sorted(t, l, a, b, V) ==
  /\ a \in Nat /\ b \in Nat /\ a <= b /\ b <= Len(l)
  /\ EndsBy(t.rows, l, a) /\ OneEndEach(t.rows) /\ OpenEndsLast(t) /\ (t.open # NoRow => a = b)
  /\ PendingIs(t.pending, l, a, b, V)

\* A sequence of fixes has its fixes under 1 .. Len.
LEMMA FixesOf ==
  ASSUME NEW l \in Seq(Fix)
  PROVE  Len(l) \in Nat /\ DOMAIN l = 1 .. Len(l) /\ \A i \in 1 .. Len(l) : l[i] \in Fix /\ l[i].ts \in Nat
<1>1. Len(l) \in Nat /\ DOMAIN l = 1 .. Len(l) /\ \A i \in 1 .. Len(l) : l[i] \in Fix OBVIOUS
<1>2. \A s \in Fix : s.ts \in Nat BY DEF Fix
<1>3. QED BY <1>1, <1>2

\* No fixes are a stretch from anywhere to there.
LEMMA NoStretch ==
  ASSUME NEW l, NEW a \in Nat
  PROVE  IsStretch(<<>>, l, a, a)
BY DEF IsStretch

\* Between two places they are only if the places are one.
LEMMA StretchEmpty ==
  ASSUME NEW l, NEW a \in Nat, NEW b \in Nat, NEW q, IsStretch(q, l, a, b)
  PROVE  q = <<>> <=> a = b
<1>1. q \in Seq(Fix) /\ Len(q) = b - a BY DEF IsStretch
<1>2. q = <<>> => a = b BY <1>1
<1>3. a = b => q = <<>> BY <1>1, EmptySeq
<1>4. QED BY <1>2, <1>3

\* A dwell of no fixes does not wait.
LEMMA NothingBetween ==
  ASSUME NEW p, NEW l, NEW a \in Nat, NEW V, PendingIs(p, l, a, a, V)
  PROVE  p = NoDwell /\ p.members = <<>>
<1>1. PICK q : q = p.members OBVIOUS
<1>2. IsStretch(q, l, a, a) /\ (q = <<>> => p = NoDwell) BY <1>1 DEF PendingIs
<1>3. q = <<>> <=> a = a BY <1>2, StretchEmpty
<1>4. QED BY <1>1, <1>2, <1>3

\* The fixes after the first of a stretch,
LEMMA StretchTail ==
  ASSUME NEW l, NEW a \in Nat, NEW b \in Nat, NEW q, IsStretch(q, l, a, b), q # <<>>
  PROVE  /\ Head(q) = l[a + 1] /\ a + 1 <= b
         /\ IsStretch(Tail(q), l, a + 1, b)
<1>1. q \in Seq(Fix) /\ Len(q) = b - a /\ \A i \in 1 .. Len(q) : q[i] = l[a + i] BY DEF IsStretch
<1>2. Len(q) \in Nat /\ Len(q) # 0 BY <1>1, EmptySeq
<1>3. Head(q) = q[1] BY <1>1, <1>2
<1>4. PICK r : r = Tail(q) OBVIOUS
<1>5. r \in Seq(Fix) /\ Len(r) = Len(q) - 1 /\ \A i \in 1 .. Len(r) : r[i] = q[i + 1]
  BY <1>1, <1>2, <1>4
<1>6. ASSUME NEW i \in 1 .. Len(r) PROVE r[i] = l[(a + 1) + i]
  <2>1. i + 1 \in 1 .. Len(q) /\ a + (i + 1) = (a + 1) + i BY <1>2, <1>5
  <2>2. QED BY <1>1, <1>5, <2>1
<1>7. Len(r) = b - (a + 1) BY <1>1, <1>5
<1>8. 1 \in 1 .. Len(q) /\ a + 1 <= b BY <1>1, <1>2
<1>9. QED BY <1>1, <1>3, <1>4, <1>5, <1>6, <1>7, <1>8 DEF IsStretch

\* with the next one,
LEMMA StretchAppend ==
  ASSUME NEW l, NEW a \in Nat, NEW b \in Nat, a <= b, NEW q, IsStretch(q, l, a, b), l[b + 1] \in Fix
  PROVE  IsStretch(Append(q, l[b + 1]), l, a, b + 1)
<1>1. q \in Seq(Fix) /\ Len(q) = b - a /\ \A i \in 1 .. Len(q) : q[i] = l[a + i] BY DEF IsStretch
<1>2. PICK s \in Fix : s = l[b + 1] OBVIOUS
<1>3. PICK r : r = Append(q, s) OBVIOUS
<1>4. /\ r \in Seq(Fix) /\ Len(r) = Len(q) + 1 /\ r[Len(q) + 1] = s
      /\ \A i \in 1 .. Len(q) : r[i] = q[i]
  BY <1>1, <1>3
<1>5. ASSUME NEW i \in 1 .. Len(r) PROVE r[i] = l[a + i]
  <2>1. CASE i = Len(q) + 1
    <3>1. a + i = b + 1 BY <1>1, <2>1
    <3>2. QED BY <1>2, <1>4, <2>1, <3>1
  <2>2. CASE i # Len(q) + 1
    <3>1. i \in 1 .. Len(q) BY <1>1, <1>4, <2>2
    <3>2. QED BY <1>1, <1>4, <3>1
  <2>3. QED BY <2>1, <2>2
<1>6. Len(r) = (b + 1) - a BY <1>1, <1>4
<1>7. QED BY <1>2, <1>3, <1>4, <1>5, <1>6 DEF IsStretch

\* and two stretches one after the other.
LEMMA StretchJoin ==
  ASSUME NEW l, NEW a \in Nat, NEW b \in Nat, NEW n \in Nat, NEW p, IsStretch(p, l, a, b),
         NEW q, IsStretch(q, l, b, n)
  PROVE  IsStretch(p \o q, l, a, n)
<1>1. p \in Seq(Fix) /\ Len(p) = b - a /\ \A i \in 1 .. Len(p) : p[i] = l[a + i] BY DEF IsStretch
<1>2. q \in Seq(Fix) /\ Len(q) = n - b /\ \A i \in 1 .. Len(q) : q[i] = l[b + i] BY DEF IsStretch
<1>3. PICK r : r = p \o q OBVIOUS
<1>4. PICK h, k : h = Len(p) /\ k = Len(q) OBVIOUS
<1>5. /\ r \in Seq(Fix) /\ Len(r) = h + k /\ h \in Nat /\ k \in Nat
      /\ \A i \in 1 .. h + k : r[i] = IF i <= h THEN p[i] ELSE q[i - h]
  <2>1. p \in Seq(Fix) /\ q \in Seq(Fix) BY <1>1, <1>2
  <2>2. r \in Seq(Fix) /\ Len(r) = Len(p) + Len(q) BY <1>3, <2>1, ConcatProperties
  <2>3. h \in Nat /\ k \in Nat BY <1>4, <2>1
  <2>4. \A i \in 1 .. (Len(p) + Len(q)) :
          (p \o q)[i] = IF i <= Len(p) THEN p[i] ELSE q[i - Len(p)]
    BY <2>1, ConcatProperties
  <2>5. QED BY <1>3, <1>4, <2>4, <2>2, <2>3
<1>6. ASSUME NEW i \in 1 .. h + k PROVE r[i] = l[a + i]
  <2>1. CASE i <= h
    <3>1. i \in 1 .. h BY <1>5, <2>1
    <3>2. QED BY <1>1, <1>4, <1>5, <2>1, <3>1
  <2>2. CASE ~ (i <= h)
    <3>1. PICK j : j = i - h OBVIOUS
    <3>2. j \in 1 .. k /\ b + j = a + i BY <1>1, <1>4, <1>5, <2>2, <3>1
    <3>3. r[i] = q[j] BY <1>5, <2>2, <3>1
    <3>4. q[j] = l[b + j] BY <1>2, <1>4, <3>2
    <3>5. QED BY <3>2, <3>3, <3>4
  <2>3. QED BY <2>1, <2>2
<1>7. Len(r) = n - a BY <1>1, <1>2, <1>4, <1>5
<1>8. QED BY <1>3, <1>5, <1>6, <1>7 DEF IsStretch

\* A fix that comes later is where the dwell ends,
LEMMA AddSampleEnd ==
  ASSUME NEW c, ClusterOK(c), NEW s \in Fix, c.end <= s.ts
  PROVE  AddSample(c, s).end = s.ts /\ AddSample(c, s).start = c.start
<1>1. c = [start |-> c.start, end |-> c.end, sum |-> c.sum, count |-> c.count, of |-> c.of]
      /\ c.end \in Nat
  BY DEF ClusterOK, Cluster
<1>2. s.ts \in Nat BY DEF Fix
<1>3. AddSample(c, s).end = Larger(c.end, s.ts) /\ AddSample(c, s).start = c.start
  BY <1>1 DEF AddSample
<1>4. Larger(c.end, s.ts) = s.ts BY <1>1, <1>2 DEF Larger
<1>5. QED BY <1>3, <1>4

\* and the rows before it end no later.
LEMMA RowsEndBefore ==
  ASSUME NEW old, NEW t, NEW V, IsRunning(t, old, V), NEW l, Ordered(l),
         NEW a \in Nat, EndsBy(t.rows, l, a), NEW j \in DOMAIN l, a < j, NEW k \in DOMAIN t.rows
  PROVE  t.rows[k].c.end \in Nat /\ t.rows[k].c.end <= l[j].ts
<1>1. t.rows[k].c.end \in Nat
  <2>1. RowOK(t.rows[k], old) BY DEF IsRunning, Good, LedgerOK
  <2>2. QED BY <2>1 DEF RowOK, Row, Cluster
<1>2. PICK i \in 1 .. a : t.rows[k].c.end <= l[i].ts BY DEF EndsBy
<1>3. Len(l) \in Nat /\ DOMAIN l = 1 .. Len(l) /\ \A n \in 1 .. Len(l) : l[n].ts \in Nat
  BY FixesOf DEF Ordered
<1>4. i \in 1 .. Len(l) /\ i < j BY <1>3
<1>5. l[i].ts <= l[j].ts BY <1>3, <1>4 DEF Ordered
<1>6. PICK x, y, z : x = t.rows[k].c.end /\ y = l[i].ts /\ z = l[j].ts OBVIOUS
<1>7. x \in Nat /\ y \in Nat /\ z \in Nat /\ x <= y /\ y <= z
  BY <1>1, <1>2, <1>3, <1>4, <1>5, <1>6
<1>8. QED BY <1>6, <1>7

\* What absorbs rows that end before it ends where it did.
LEMMA AbsorbedEnd ==
  ASSUME NEW old, NEW t, NEW V, IsRunning(t, old, V), NEW c, ClusterOK(c), ~ OverlapsVisit(c, V),
         \A k \in DOMAIN t.rows : t.rows[k].c.end <= c.end
  PROVE  Absorbed(t, c, V).c.end = c.end
<1>1. LedgerOK(t, old) /\ OpenOK(t, {}) BY DEF IsRunning, Good
<1>2. PICK top : top = Cardinality(DOMAIN t.rows) OBVIOUS
<1>3. IsFiniteSet(DOMAIN t.rows) /\ top \in Nat BY <1>1, <1>2, RowsAreFinite
<1>4. PICK g : g = Absorbing(t, c, V) OBVIOUS
<1>5. g[0] = [c |-> c, taken |-> <<>>] /\ \A n \in 1 .. top : g[n] = Absorb(t, g[n - 1], V)
  <2>1. AreRounds(g, t, c, V, top) BY <1>2, <1>3, <1>4, AbsorbingRounds
  <2>2. QED BY <2>1 DEF AreRounds
<1> DEFINE OK(n) == IsAbsorbed(t, g[n], V, {}) /\ g[n].c.end = c.end
           Bad == {n \in 0 .. top : ~ OK(n)}
<1>6. OK(0)
  <2>1. Distinct(<<>>) BY DEF Distinct
  <2>2. \A S : <<>> \in Seq(S) OBVIOUS
  <2>3. QED BY <1>5, <2>1, <2>2 DEF IsAbsorbed
<1>7. Bad = {}
  <2>1. SUFFICES ASSUME Bad # {} PROVE FALSE OBVIOUS
  <2>2. PICK m \in Bad : \A k \in Bad : m <= k
    <3>1. Bad \in SUBSET Nat BY <1>3
    <3> HIDE DEF Bad
    <3>2. QED BY <2>1, <3>1, HasLeast
  <2>3. m \in 0 .. top /\ ~ OK(m) OBVIOUS
  <2>4. m # 0
    <3> HIDE DEF OK
    <3>1. QED BY <1>6, <2>3
  <2>5. m - 1 \in 0 .. top /\ m \in 1 .. top /\ ~ (m <= m - 1) BY <1>3, <2>3, <2>4
  <2>6. m - 1 \notin Bad
    <3> HIDE DEF Bad
    <3>1. QED BY <2>2, <2>5
  <2>7. OK(m - 1)
    <3> HIDE DEF OK
    <3>1. QED BY <2>5, <2>6
  <2>8. PICK all : all = g[m - 1] OBVIOUS
  <2>9. IsAbsorbed(t, all, V, {}) /\ all.c.end = c.end BY <2>7, <2>8
  <2>10. g[m] = Absorb(t, all, V) BY <1>5, <2>5, <2>8
  <2>11. IsAbsorbed(t, g[m], V, {}) BY <1>1, <2>9, <2>10, AbsorbOK
  <2>12. g[m].c.end = c.end
    <3>1. PICK M : M = Mergeable(t, all.c, ToSet(all.taken), V) OBVIOUS
    <3>2. CASE M = {} BY <2>9, <2>10, <3>1, <3>2 DEF Absorb
    <3>3. CASE M # {}
      <4>1. PICK k : k = EndingLatest(t, M) OBVIOUS
      <4>2. M \in SUBSET DOMAIN t.rows BY <3>1 DEF Mergeable
      <4>3. k \in DOMAIN t.rows BY <1>1, <3>3, <4>1, <4>2, EndingLatestIsOne
      <4>4. g[m].c = MergeClusters(t.rows[k].c, all.c) BY <2>10, <3>1, <3>3, <4>1 DEF Absorb
      <4>5. g[m].c.end = Larger(t.rows[k].c.end, all.c.end) BY <4>4 DEF MergeClusters
      <4>6. PICK e, f : e = t.rows[k].c.end /\ f = c.end OBVIOUS
      <4>7. e \in Nat /\ f \in Nat /\ e <= f
        <5>1. RowOK(t.rows[k], old) BY <1>1, <4>3 DEF LedgerOK
        <5>2. e \in Nat BY <4>6, <5>1 DEF RowOK, Row, Cluster
        <5>3. f \in Nat BY <4>6 DEF ClusterOK, Cluster
        <5>4. QED BY <4>3, <4>6, <5>2, <5>3
      <4>8. Larger(e, f) = f BY <4>7 DEF Larger
      <4>9. QED BY <2>9, <4>5, <4>6, <4>8
    <3>4. QED BY <3>2, <3>3
  <2>13. QED BY <2>3, <2>11, <2>12
<1>8. top \in 0 .. top BY <1>3
<1>9. g[top].c.end = c.end BY <1>7, <1>8
<1>10. QED BY <1>2, <1>4, <1>9 DEF Absorbed

\* A stay that begins with the next fix ends last, and nothing waits.
LEMMA BeginSorted ==
  ASSUME NEW old, NEW t, NEW V, IsRunning(t, old, V), NEW l, Ordered(l), NEW a, NEW b,
         Sorted(t, l, a, b, V), t.open = NoRow, b < Len(l),
         NEW c, ClusterOK(c), ~ OverlapsVisit(c, V), c.end = l[b + 1].ts,
         \A k \in DOMAIN t.rows : t.rows[k].c.end < c.end
  PROVE  Sorted(Begin(t, c, V), l, b + 1, b + 1, V)
<1>1. /\ a \in Nat /\ b \in Nat /\ a <= b /\ b <= Len(l)
      /\ EndsBy(t.rows, l, a) /\ OneEndEach(t.rows) /\ OpenEndsLast(t)
  BY DEF Sorted
<1>2. Len(l) \in Nat BY DEF Ordered
<1>3. PICK all : all = Absorbed(t, c, V) OBVIOUS
<1>4. \A k \in DOMAIN t.rows : t.rows[k].c.end \in Nat
  <2>1. \A k \in DOMAIN t.rows : RowOK(t.rows[k], old) BY DEF IsRunning, Good, LedgerOK
  <2>2. QED BY <2>1 DEF RowOK, Row, Cluster
<1>5. c.end \in Nat BY DEF ClusterOK, Cluster
<1>6. all.c.end = c.end
  <2>1. \A k \in DOMAIN t.rows : t.rows[k].c.end <= c.end BY <1>4, <1>5
  <2>2. QED BY <1>3, <2>1, AbsorbedEnd
<1>7. PICK u : u = Begin(t, c, V) OBVIOUS
<1>8. HasBegun(u, t, all) BY <1>3, <1>7, BeginRows
<1>9. /\ u.open \in DOMAIN u.rows /\ u.rows[u.open].c.end = c.end /\ u.rows[u.open].closed = FALSE
      /\ u.pending = NoDwell
      /\ \A k \in DOMAIN u.rows \ {u.open} : k \in DOMAIN t.rows /\ u.rows[k] = t.rows[k]
  <2>1. /\ u.open \in DOMAIN u.rows /\ u.rows[u.open].c = all.c /\ u.rows[u.open].closed = FALSE
        /\ u.pending = NoDwell
    BY <1>8 DEF HasBegun
  <2>2. \A k \in DOMAIN u.rows \ {u.open} : k \in DOMAIN t.rows /\ u.rows[k] = t.rows[k]
    BY <1>8 DEF HasBegun
  <2>3. QED BY <1>6, <2>1, <2>2
<1>10. EndsBy(u.rows, l, b + 1)
  <2>1. ASSUME NEW k \in DOMAIN u.rows PROVE \E i \in 1 .. b + 1 : u.rows[k].c.end <= l[i].ts
    <3>1. CASE k = u.open
      <4>1. b + 1 \in 1 .. b + 1 BY <1>1
      <4>2. u.rows[k].c.end <= l[b + 1].ts BY <1>5, <1>9, <3>1
      <4>3. QED BY <4>1, <4>2
    <3>2. CASE k # u.open
      <4>1. k \in DOMAIN t.rows /\ u.rows[k] = t.rows[k] BY <1>9, <3>2
      <4>2. PICK i \in 1 .. a : t.rows[k].c.end <= l[i].ts BY <1>1, <4>1 DEF EndsBy
      <4>3. i \in 1 .. b + 1 BY <1>1
      <4>4. QED BY <4>1, <4>2, <4>3
    <3>3. QED BY <3>1, <3>2
  <2>2. QED BY <2>1 DEF EndsBy
<1>11. \A k \in DOMAIN u.rows \ {u.open} : u.rows[k].c.end < c.end BY <1>9
<1>12. OneEndEach(u.rows)
  <2>1. ASSUME NEW j \in DOMAIN u.rows, NEW k \in DOMAIN u.rows, u.rows[j].c.end = u.rows[k].c.end
        PROVE  j = k
    <3>1. CASE j = u.open \/ k = u.open
      <4>1. \A i \in DOMAIN u.rows \ {u.open} : u.rows[i].c.end # c.end
        <5>1. \A i \in DOMAIN u.rows \ {u.open} : u.rows[i].c.end \in Nat BY <1>4, <1>9
        <5>2. QED BY <1>5, <1>11, <5>1
      <4>2. QED BY <1>9, <2>1, <3>1, <4>1
    <3>2. CASE j # u.open /\ k # u.open BY <1>1, <1>9, <2>1, <3>2 DEF OneEndEach
    <3>3. QED BY <3>1, <3>2
  <2>2. QED BY <2>1 DEF OneEndEach
<1>13. OpenEndsLast(u)
  <2>1. \A k \in DOMAIN u.rows \ {u.open} : u.rows[k].closed = TRUE
    <3>1. \A k \in DOMAIN t.rows : t.rows[k].closed = TRUE
      <4>1. NoRow \notin DOMAIN t.rows BY NoRowIsNoKey DEF IsRunning, Good
      <4>2. QED BY <1>1, <4>1 DEF OpenEndsLast
    <3>2. QED BY <1>9, <3>1
  <2>2. QED BY <1>9, <1>11, <2>1 DEF OpenEndsLast
<1>14. PendingIs(u.pending, l, b + 1, b + 1, V)
  <2>1. IsStretch(<<>>, l, b + 1, b + 1) BY <1>1, NoStretch
  <2>2. NoDwell.members = <<>> BY DEF NoDwell
  <2>3. QED BY <1>9, <2>1, <2>2 DEF PendingIs
<1>15. b + 1 \in Nat /\ b + 1 <= b + 1 /\ b + 1 <= Len(l) BY <1>1, <1>2
<1>16. Sorted(u, l, b + 1, b + 1, V) BY <1>10, <1>12, <1>13, <1>14, <1>15 DEF Sorted
<1>17. QED BY <1>7, <1>16

\* The rows are as they were, and another dwell waits, of later fixes.
LEMMA WaitsSorted ==
  ASSUME NEW t, NEW l, NEW V, NEW a, NEW b, Sorted(t, l, a, b, V), t.open = NoRow,
         NEW u, u.rows = t.rows, u.open = NoRow,
         NEW i \in Nat, NEW j \in Nat, a <= i, i <= j, j <= Len(l), PendingIs(u.pending, l, i, j, V)
  PROVE  Sorted(u, l, i, j, V)
<1>1. a \in Nat /\ EndsBy(t.rows, l, a) /\ OneEndEach(t.rows) /\ OpenEndsLast(t) BY DEF Sorted
<1>2. EndsBy(u.rows, l, i)
  <2>1. 1 .. a \subseteq 1 .. i BY <1>1
  <2>2. QED BY <1>1, <2>1 DEF EndsBy
<1>3. OpenEndsLast(u) BY <1>1 DEF OpenEndsLast
<1>4. OneEndEach(u.rows) BY <1>1
<1>5. QED BY <1>2, <1>3, <1>4 DEF Sorted

\* Nothing waits after any fix.
LEMMA NothingWaits ==
  ASSUME NEW l, NEW V, NEW b \in Nat, NEW p, p = NoDwell
  PROVE  PendingIs(p, l, b, b, V)
<1>1. IsStretch(<<>>, l, b, b) BY NoStretch
<1>2. p.members = <<>> BY DEF NoDwell
<1>3. QED BY <1>1, <1>2 DEF PendingIs

\* A fix on its own keeps a tracker in order, with the fix in the rows, dropped or waiting,
LEMMA AloneSorted ==
  ASSUME NEW old, NEW t, NEW V, IsRunning(t, old, V), NEW l, Ordered(l), NEW b,
         Sorted(t, l, b, b, V), t.open = NoRow, b < Len(l)
  PROVE  \E i \in Nat : Sorted(Alone(t, l[b + 1], V), l, i, b + 1, V)
<1>1. b \in Nat BY DEF Sorted
<1>2. Len(l) \in Nat /\ DOMAIN l = 1 .. Len(l) /\ \A i \in 1 .. Len(l) : l[i] \in Fix /\ l[i].ts \in Nat
  BY FixesOf DEF Ordered
<1>3. /\ b + 1 \in Nat /\ b <= b + 1 /\ b + 1 <= Len(l) /\ b + 1 \in 1 .. Len(l)
      /\ b <= b /\ b + 1 <= b + 1
  BY <1>1, <1>2
<1>4. PICK s : s = l[b + 1] OBVIOUS
<1>5. s \in Fix /\ s.ts \in Nat BY <1>2, <1>3, <1>4
<1>6. PICK c : c = ClusterOf(s) OBVIOUS
<1>7. c.start = s.ts /\ c.end = s.ts BY <1>6 DEF ClusterOf
<1>8. ~ IsStay(c) BY <1>5, <1>7, StayAssumption DEF IsStay
<1>9. PICK u : u = Alone(t, s, V) OBVIOUS
<1>10. CASE OverlapsVisit(c, V)
  <2>1. u = t BY <1>6, <1>9, <1>10 DEF Alone
  <2>2. PendingIs(t.pending, l, b + 1, b + 1, V)
    <3>1. PendingIs(t.pending, l, b, b, V) BY DEF Sorted
    <3>2. t.pending = NoDwell BY <1>1, <3>1, NothingBetween
    <3>3. QED BY <1>3, <3>2, NothingWaits
  <2>3. Sorted(t, l, b + 1, b + 1, V) BY <1>3, <2>2, WaitsSorted
  <2>4. QED BY <1>3, <1>4, <1>9, <2>1, <2>3
<1>11. CASE ~ OverlapsVisit(c, V)
  <2>1. PICK p : p = [members |-> <<s>>, cluster |-> c] OBVIOUS
  <2>2. u = [t EXCEPT !.pending = p] BY <1>6, <1>8, <1>9, <1>11, <2>1 DEF Alone
  <2>3. IsTracker(t) BY DEF IsRunning, Good, LedgerOK
  <2>4. u.rows = t.rows /\ u.open = NoRow /\ u.pending = p BY <2>2, <2>3 DEF IsTracker
  <2>5. p.members = <<s>> /\ p.cluster = c /\ <<s>> # <<>> /\ <<s>>[1] = s /\ Len(<<s>>) = 1
    BY <2>1
  <2>6. IsStretch(p.members, l, b, b + 1)
    <3>1. <<s>> \in Seq(Fix) BY <1>5
    <3>2. (b + 1) - b = 1 BY <1>1
    <3>3. \A i \in 1 .. 1 : i = 1 OBVIOUS
    <3>4. QED BY <1>4, <2>5, <3>1, <3>2, <3>3 DEF IsStretch
  <2>7. Builds(p, V)
    <3>1. PICK g : g = [i \in {1} |-> c] OBVIOUS
    <3>2. g[1] = c BY <3>1
    <3>3. \A i \in 2 .. 1 : FALSE OBVIOUS
    <3>4. Climbs(p, g, V) BY <1>6, <1>11, <2>5, <3>2, <3>3 DEF Climbs
    <3>5. QED BY <3>4 DEF Builds
  <2>8. PendingIs(u.pending, l, b, b + 1, V) BY <1>4, <1>7, <2>4, <2>5, <2>6, <2>7 DEF PendingIs
  <2>9. Sorted(u, l, b, b + 1, V) BY <1>1, <1>3, <2>4, <2>8, WaitsSorted
  <2>10. QED BY <1>1, <1>4, <1>9, <2>9
<1>12. QED BY <1>10, <1>11

\* as does closing the open stay
LEMMA CloseSorted ==
  ASSUME NEW old, NEW t, NEW V, IsRunning(t, old, V), NEW l, NEW a, NEW b,
         Sorted(t, l, a, b, V), t.open # NoRow
  PROVE  LET x == [SetRow(t, t.open, t.rows[t.open].c, TRUE) EXCEPT !.open = NoRow]
         IN IsRunning(x, old, V) /\ Sorted(x, l, a, b, V) /\ x.open = NoRow
<1>1. PICK j, c : j = t.open /\ c = t.rows[j].c OBVIOUS
<1>2. Good(t, old, Fix, V, {}, {}) /\ IdsPositive(old) BY DEF IsRunning
<1>3. IsTracker(t) BY <1>2 DEF Good, LedgerOK
<1>4. j \in DOMAIN t.rows BY <1>1, <1>2, Zenon DEF Good, OpenOK
<1>5. PICK closed \in BOOLEAN : closed = TRUE OBVIOUS
<1>6. PICK y : y = SetRow(t, j, c, closed) OBVIOUS
<1>7. y = SetRow(t, t.open, t.rows[t.open].c, TRUE) BY <1>1, <1>5, <1>6
<1>8. Good(y, old, Fix, V, {}, {}) BY <1>2, <1>7, ClosedGood
<1>9. /\ DOMAIN y.rows = DOMAIN t.rows /\ y.rows[j].c = c /\ y.rows[j].closed = TRUE
      /\ \A i \in DOMAIN t.rows : i # j => y.rows[i] = t.rows[i]
      /\ y.pending = t.pending
  <2>1. /\ DOMAIN y.rows = DOMAIN t.rows /\ y.rows[j].c = c /\ y.rows[j].closed = closed
        /\ \A i \in DOMAIN t.rows : i # j => y.rows[i] = t.rows[i]
        /\ y.pending = t.pending
    BY <1>3, <1>4, <1>6, SetRowRows
  <2>2. QED BY <1>5, <2>1
<1>10. PICK x : x = [y EXCEPT !.open = NoRow] OBVIOUS
<1>11. /\ Good(x, old, Fix, V, {}, {}) /\ x.open = NoRow /\ x.rows = y.rows
       /\ x.pending = t.pending
  BY <1>8, <1>9, <1>10, SetOpenGood
<1>12. \A i \in DOMAIN t.rows : x.rows[i].c = t.rows[i].c BY <1>1, <1>9, <1>11
<1>13. DOMAIN x.rows = DOMAIN t.rows BY <1>9, <1>11
<1>14. /\ a \in Nat /\ b \in Nat /\ a <= b /\ b <= Len(l) /\ EndsBy(t.rows, l, a) /\ OneEndEach(t.rows)
       /\ PendingIs(t.pending, l, a, b, V)
  BY DEF Sorted
<1>15. OpenEndsLast(t) BY DEF Sorted
<1>16. EndsBy(x.rows, l, a) BY <1>12, <1>13, <1>14 DEF EndsBy
<1>17. OneEndEach(x.rows) BY <1>12, <1>13, <1>14 DEF OneEndEach
<1>18. OpenEndsLast(x)
  <2>1. \A i \in DOMAIN t.rows : i # j => t.rows[i].closed = TRUE BY <1>1, <1>15 DEF OpenEndsLast
  <2>2. \A i \in DOMAIN x.rows : x.rows[i].closed = TRUE BY <1>9, <1>11, <2>1
  <2>3. QED BY <1>11, <2>2 DEF OpenEndsLast
<1>19. Sorted(x, l, a, b, V) BY <1>11, <1>14, <1>16, <1>17, <1>18 DEF Sorted
<1>20. IsRunning(x, old, V) BY <1>2, <1>11 DEF IsRunning
<1>21. QED BY <1>7, <1>10, <1>11, <1>19, <1>20

\* and a fix placed there,
LEMMA PlaceInOpenSorted ==
  ASSUME NEW old, NEW t, NEW V, IsRunning(t, old, V), NEW l, Ordered(l), NEW a, NEW b,
         Sorted(t, l, a, b, V), t.open # NoRow, b < Len(l)
  PROVE  \E i \in Nat : Sorted(PlaceInOpen(t, l[b + 1], V), l, i, b + 1, V)
<1>1. PICK j, c : j = t.open /\ c = t.rows[j].c OBVIOUS
<1>2. a = b /\ a \in Nat /\ OpenEndsLast(t) BY DEF Sorted
<1>3. EndsBy(t.rows, l, a) /\ OneEndEach(t.rows) /\ PendingIs(t.pending, l, a, a, V)
  BY <1>2 DEF Sorted
<1>4. Good(t, old, Fix, V, {}, {}) BY DEF IsRunning
<1>5. IsTracker(t) /\ LedgerOK(t, old) BY <1>4 DEF Good, LedgerOK
<1>6. j \in DOMAIN t.rows BY <1>1, <1>4, Zenon DEF Good, OpenOK
<1>7. Len(l) \in Nat /\ DOMAIN l = 1 .. Len(l) /\ \A i \in 1 .. Len(l) : l[i] \in Fix /\ l[i].ts \in Nat
  BY FixesOf DEF Ordered
<1>8. /\ b + 1 \in Nat /\ b + 1 \in DOMAIN l /\ a < b + 1 /\ b + 1 <= Len(l) /\ b + 1 <= b + 1
  BY <1>2, <1>7
<1>9. PICK s : s = l[b + 1] OBVIOUS
<1>10. s \in Fix /\ s.ts \in Nat BY <1>7, <1>8, <1>9
<1>11. PICK u : u = PlaceInOpen(t, s, V) OBVIOUS
<1>12. CASE Grows(c, s, V)
  <2>1. PICK d : d = AddSample(c, s) OBVIOUS
  <2>2. PICK closed : closed = FALSE OBVIOUS
  <2>3. u = SetRow(t, j, d, closed) BY <1>1, <1>11, <1>12, <2>1, <2>2 DEF PlaceInOpen
  <2>4. /\ DOMAIN u.rows = DOMAIN t.rows /\ u.rows[j].c = d /\ u.rows[j].closed = FALSE
        /\ \A i \in DOMAIN t.rows : i # j => u.rows[i] = t.rows[i]
        /\ u.open = j /\ u.pending = t.pending
    BY <1>1, <1>5, <1>6, <2>2, <2>3, SetRowRows
  <2>5. ClusterOK(c)
    <3>1. RowOK(t.rows[j], old) BY <1>5, <1>6 DEF LedgerOK
    <3>2. QED BY <1>1, <3>1 DEF RowOK, Row, ClusterOK
  <2>6. \A i \in DOMAIN t.rows : t.rows[i].c.end \in Nat /\ t.rows[i].c.end <= s.ts
    BY <1>3, <1>2, <1>8, <1>9, RowsEndBefore
  <2>7. d.end = s.ts BY <1>1, <1>6, <1>10, <2>1, <2>5, <2>6, AddSampleEnd
  <2>8. \A i \in DOMAIN u.rows \ {j} : u.rows[i].c.end < s.ts
    <3>1. ASSUME NEW i \in DOMAIN u.rows \ {j} PROVE u.rows[i].c.end < s.ts
      <4>1. i \in DOMAIN t.rows /\ u.rows[i] = t.rows[i] BY <2>4
      <4>2. t.rows[i].c.end < t.rows[j].c.end BY <1>1, <1>2, <4>1 DEF OpenEndsLast
      <4>3. PICK x, y, z : x = t.rows[i].c.end /\ y = t.rows[j].c.end /\ z = s.ts OBVIOUS
      <4>4. x \in Nat /\ y \in Nat /\ z \in Nat /\ x < y /\ y <= z
        BY <1>6, <1>10, <2>6, <4>1, <4>2, <4>3
      <4>5. x < z BY <4>4
      <4>6. QED BY <4>1, <4>3, <4>5
    <3>2. QED BY <3>1
  <2>9. EndsBy(u.rows, l, b + 1)
    <3>1. ASSUME NEW k \in DOMAIN u.rows PROVE \E i \in 1 .. b + 1 : u.rows[k].c.end <= l[i].ts
      <4>1. CASE k = j
        <5>1. b + 1 \in 1 .. b + 1 BY <1>2
        <5>2. u.rows[k].c.end <= l[b + 1].ts BY <1>9, <1>10, <2>4, <2>7, <4>1
        <5>3. QED BY <5>1, <5>2
      <4>2. CASE k # j
        <5>1. k \in DOMAIN t.rows /\ u.rows[k] = t.rows[k] BY <2>4, <4>2
        <5>2. PICK i \in 1 .. a : t.rows[k].c.end <= l[i].ts BY <1>3, <5>1 DEF EndsBy
        <5>3. i \in 1 .. b + 1 BY <1>2
        <5>4. QED BY <5>1, <5>2, <5>3
      <4>3. QED BY <4>1, <4>2
    <3>2. QED BY <3>1 DEF EndsBy
  <2>10. OneEndEach(u.rows)
    <3>1. ASSUME NEW i \in DOMAIN u.rows, NEW k \in DOMAIN u.rows, u.rows[i].c.end = u.rows[k].c.end
          PROVE  i = k
      <4>1. CASE i = j \/ k = j
        <5>1. \A h \in DOMAIN u.rows \ {j} : u.rows[h].c.end # s.ts
          <6>1. \A h \in DOMAIN u.rows \ {j} : u.rows[h].c.end \in Nat BY <2>4, <2>6
          <6>2. QED BY <1>10, <2>8, <6>1
        <5>2. QED BY <2>4, <2>7, <3>1, <4>1, <5>1
      <4>2. CASE i # j /\ k # j BY <1>3, <2>4, <3>1, <4>2 DEF OneEndEach
      <4>3. QED BY <4>1, <4>2
    <3>2. QED BY <3>1 DEF OneEndEach
  <2>11. OpenEndsLast(u)
    <3>1. \A k \in DOMAIN t.rows : k # j => t.rows[k].closed = TRUE BY <1>1, <1>2 DEF OpenEndsLast
    <3>2. \A k \in DOMAIN u.rows \ {u.open} : u.rows[k].closed = TRUE BY <2>4, <3>1
    <3>3. \A k \in DOMAIN u.rows \ {u.open} : u.rows[k].c.end < u.rows[u.open].c.end
      BY <2>4, <2>7, <2>8
    <3>4. QED BY <2>4, <3>2, <3>3 DEF OpenEndsLast
  <2>12. PendingIs(u.pending, l, b + 1, b + 1, V)
    <3>1. t.pending = NoDwell BY <1>2, <1>3, NothingBetween
    <3>2. QED BY <1>8, <2>4, <3>1, NothingWaits
  <2>13. Sorted(u, l, b + 1, b + 1, V) BY <1>8, <2>9, <2>10, <2>11, <2>12 DEF Sorted
  <2>14. QED BY <1>8, <1>9, <1>11, <2>13
<1>13. CASE ~ Grows(c, s, V)
  <2>1. PICK x : x = [SetRow(t, t.open, t.rows[t.open].c, TRUE) EXCEPT !.open = NoRow] OBVIOUS
  <2>2. IsRunning(x, old, V) /\ Sorted(x, l, b, b, V) /\ x.open = NoRow
    BY <1>2, <2>1, CloseSorted
  <2>3. u = Alone(x, s, V) BY <1>1, <1>11, <1>13, <2>1 DEF PlaceInOpen
  <2>4. QED BY <1>9, <1>11, <2>2, <2>3, AloneSorted
<1>14. QED BY <1>12, <1>13

\* A dwell with a fix more went through one cluster more.
LEMMA BuildsOn ==
  ASSUME NEW p, p.members \in Seq(Fix), p.members # <<>>, NEW V, Builds(p, V), NEW s \in Fix,
         Grows(p.cluster, s, V), ~ IsStay(AddSample(p.cluster, s)),
         NEW q, q = [members |-> Append(p.members, s), cluster |-> AddSample(p.cluster, s)]
  PROVE  Builds(q, V)
<1>1. PICK g : Climbs(p, g, V) BY DEF Builds
<1>2. PICK m, n : m = p.members /\ n = Len(m) OBVIOUS
<1>3. m \in Seq(Fix) /\ n \in Nat /\ n # 0 BY <1>2, EmptySeq
<1>4. PICK d : d = AddSample(p.cluster, s) OBVIOUS
<1>5. PICK r : r = Append(m, s) OBVIOUS
<1>6. Len(r) = n + 1 /\ r[n + 1] = s /\ \A i \in 1 .. n : r[i] = m[i] BY <1>2, <1>3, <1>5
<1>7. q.members = r /\ q.cluster = d BY <1>2, <1>4, <1>5
<1>8. PICK h : h = [i \in 1 .. n + 1 |-> IF i = n + 1 THEN d ELSE g[i]] OBVIOUS
<1>9. h[n + 1] = d /\ \A i \in 1 .. n : h[i] = g[i]
  <2>1. n + 1 \in 1 .. n + 1 /\ \A i \in 1 .. n : i \in 1 .. n + 1 /\ i # n + 1 BY <1>3
  <2>2. QED BY <1>8, <2>1
<1>10. 1 \in 1 .. n BY <1>3
<1>11. /\ g[1] = ClusterOf(m[1]) /\ ~ OverlapsVisit(g[1], V) /\ p.cluster = g[n]
       /\ \A i \in 2 .. n : g[i] = AddSample(g[i - 1], m[i]) /\ Grows(g[i - 1], m[i], V) /\ ~ IsStay(g[i])
  BY <1>1, <1>2 DEF Climbs
<1>12. ASSUME NEW i \in 2 .. n + 1
       PROVE  h[i] = AddSample(h[i - 1], r[i]) /\ Grows(h[i - 1], r[i], V) /\ ~ IsStay(h[i])
  <2>1. CASE i = n + 1
    <3>1. i - 1 = n /\ n \in 1 .. n BY <1>3, <2>1
    <3>2. h[i - 1] = p.cluster BY <1>9, <1>11, <3>1
    <3>3. h[i] = d /\ r[i] = s BY <1>6, <1>9, <2>1
    <3>4. QED BY <1>4, <3>2, <3>3
  <2>2. CASE i # n + 1
    <3>1. i \in 2 .. n /\ i \in 1 .. n /\ i - 1 \in 1 .. n BY <1>3, <2>2
    <3>2. h[i] = g[i] /\ h[i - 1] = g[i - 1] /\ r[i] = m[i] BY <1>6, <1>9, <3>1
    <3>3. QED BY <1>11, <3>1, <3>2
  <2>3. QED BY <2>1, <2>2
<1>13. Climbs(q, h, V) BY <1>6, <1>7, <1>9, <1>10, <1>11, <1>12 DEF Climbs
<1>14. QED BY <1>13 DEF Builds

\* and one that grows the dwell that waits: it begins a stay or still waits.
LEMMA GrowPendingSorted ==
  ASSUME NEW old, NEW t, NEW V, IsRunning(t, old, V), NEW l, Ordered(l), NEW a, NEW b,
         Sorted(t, l, a, b, V), t.open = NoRow, b < Len(l), t.pending.members # <<>>,
         Grows(t.pending.cluster, l[b + 1], V)
  PROVE  \E i \in Nat : Sorted(GrowPending(t, l[b + 1], V), l, i, b + 1, V)
<1>1. /\ a \in Nat /\ b \in Nat /\ a <= b /\ b <= Len(l) /\ EndsBy(t.rows, l, a)
      /\ PendingIs(t.pending, l, a, b, V)
  BY DEF Sorted
<1>2. Len(l) \in Nat /\ DOMAIN l = 1 .. Len(l) /\ \A i \in 1 .. Len(l) : l[i] \in Fix /\ l[i].ts \in Nat
  BY FixesOf DEF Ordered
<1>3. PICK p : p = t.pending OBVIOUS
<1>4. /\ IsStretch(p.members, l, a, b) /\ Builds(p, V) /\ p.members # <<>>
      /\ p.cluster.start = l[a + 1].ts /\ p.cluster.end = l[b].ts
  BY <1>1, <1>3 DEF PendingIs
<1>5. a < b
  <2>1. a # b BY <1>1, <1>4, StretchEmpty
  <2>2. QED BY <1>1, <2>1
<1>6. /\ a + 1 \in DOMAIN l /\ b \in DOMAIN l /\ b + 1 \in DOMAIN l /\ b < b + 1 /\ a < a + 1
      /\ b + 1 \in Nat /\ a <= b + 1 /\ b + 1 <= Len(l) /\ a + 1 \in 1 .. Len(l) /\ b + 1 \in 1 .. Len(l)
      /\ a <= a /\ b \in 1 .. Len(l)
  BY <1>1, <1>2, <1>5
<1>7. PICK s : s = l[b + 1] OBVIOUS
<1>8. s \in Fix /\ s.ts \in Nat BY <1>2, <1>6, <1>7
<1>9. PICK c : c = AddSample(p.cluster, s) OBVIOUS
<1>10. Good(t, old, Fix, V, {}, {}) BY DEF IsRunning
<1>11. ClusterOK(p.cluster) BY <1>3, <1>4, <1>10 DEF Good, IsDwell
<1>12. p.cluster.end <= s.ts BY <1>4, <1>6, <1>7 DEF Ordered
<1>13. c.end = s.ts /\ c.start = l[a + 1].ts BY <1>4, <1>8, <1>9, <1>11, <1>12, AddSampleEnd
<1>14. ClusterOK(c) BY <1>8, <1>9, <1>11, AddSampleOK
<1>15. Grows(p.cluster, s, V) BY <1>3, <1>7
<1>16. ~ OverlapsVisit(c, V) BY <1>9, <1>15 DEF Grows
<1>17. PICK u : u = GrowPending(t, s, V) OBVIOUS
<1>18. CASE IsStay(c)
  <2>1. u = Begin(t, c, V) BY <1>3, <1>9, <1>17, <1>18 DEF GrowPending
  <2>2. c.start < c.end
    <3>1. PICK x, y : x = c.start /\ y = c.end OBVIOUS
    <3>2. x \in Nat /\ y \in Nat BY <1>2, <1>6, <1>8, <1>13, <3>1
    <3>3. y - x >= MinDuration BY <1>18, <3>1 DEF IsStay
    <3>4. MinDuration \in Nat /\ MinDuration > 0 BY StayAssumption
    <3>5. x < y BY <3>2, <3>3, <3>4
    <3>6. QED BY <3>1, <3>5
  <2>3. ASSUME NEW k \in DOMAIN t.rows PROVE t.rows[k].c.end < c.end
    <3>1. t.rows[k].c.end \in Nat /\ t.rows[k].c.end <= l[a + 1].ts
      BY <1>1, <1>6, RowsEndBefore
    <3>2. PICK x, y, z : x = t.rows[k].c.end /\ y = c.start /\ z = c.end OBVIOUS
    <3>3. x \in Nat /\ y \in Nat /\ z \in Nat /\ x <= y /\ y < z
      BY <1>2, <1>6, <1>8, <1>13, <2>2, <3>1, <3>2
    <3>4. x < z BY <3>3
    <3>5. QED BY <3>2, <3>4
  <2>4. c.end = l[b + 1].ts BY <1>7, <1>13
  <2>5. Sorted(Begin(t, c, V), l, b + 1, b + 1, V) BY <1>14, <1>16, <2>3, <2>4, BeginSorted
  <2>6. QED BY <1>6, <1>7, <1>17, <2>1, <2>5
<1>19. CASE ~ IsStay(c)
  <2>1. PICK q : q = [members |-> Append(p.members, s), cluster |-> c] OBVIOUS
  <2>2. IsTracker(t) /\ IsDwell(p, Fix) BY <1>3, <1>10 DEF Good, LedgerOK
  <2>3. u = [t EXCEPT !.pending = q]
    BY <1>3, <1>9, <1>17, <1>19, <2>1, <2>2 DEF GrowPending, IsTracker
  <2>4. u.rows = t.rows /\ u.open = NoRow /\ u.pending = q BY <2>2, <2>3 DEF IsTracker
  <2>5. q.members = Append(p.members, s) /\ q.cluster = c BY <2>1
  <2>6. p.members \in Seq(Fix) BY <1>4 DEF IsStretch
  <2>7. IsStretch(q.members, l, a, b + 1)
    <3>1. IsStretch(Append(p.members, l[b + 1]), l, a, b + 1)
      BY <1>1, <1>4, <1>7, <1>8, StretchAppend
    <3>2. QED BY <1>7, <2>5, <3>1
  <2>8. Builds(q, V) BY <1>4, <1>8, <1>9, <1>15, <1>19, <2>1, <2>6, BuildsOn
  <2>9. q.members # <<>>
    <3>1. Len(q.members) = Len(p.members) + 1 /\ Len(p.members) \in Nat BY <1>8, <2>5, <2>6
    <3>2. QED BY <3>1
  <2>10. PendingIs(u.pending, l, a, b + 1, V)
    BY <1>7, <1>13, <2>4, <2>5, <2>7, <2>8, <2>9 DEF PendingIs
  <2>11. Sorted(u, l, a, b + 1, V) BY <1>1, <1>6, <2>4, <2>10, WaitsSorted
  <2>12. QED BY <1>1, <1>7, <1>17, <2>11
<1>20. QED BY <1>18, <1>19

\* A tracker in the middle of feed, with the fixes it has and those in the queue.
IsOnTrack(x, l, n, V) ==
  \E a, b : /\ Sorted(x.t, l, a, b, V) /\ b <= n /\ n <= Len(l)
            /\ IsStretch(x.queue, l, b, n)

\* A round of feed keeps it so.
LEMMA PlaceOnTrack ==
  ASSUME NEW old, NEW t, NEW V, IsRunning(t, old, V), NEW l, Ordered(l), NEW n \in Nat, NEW q,
         IsOnTrack([t |-> t, queue |-> q], l, n, V)
  PROVE  IsOnTrack(Place([t |-> t, queue |-> q], V), l, n, V)
<1>1. PICK x : x = [t |-> t, queue |-> q] OBVIOUS
<1>2. x.t = t /\ x.queue = q BY <1>1
<1>3. PICK a, b : Sorted(t, l, a, b, V) /\ b <= n /\ n <= Len(l) /\ IsStretch(q, l, b, n)
  BY <1>1, <1>2 DEF IsOnTrack
<1>4. a \in Nat /\ b \in Nat /\ a <= b /\ Len(l) \in Nat BY <1>3 DEF Sorted, Ordered
<1>5. PICK y : y = Place(x, V) OBVIOUS
<1>6. CASE q = <<>>
  <2>1. y = x BY <1>2, <1>5, <1>6 DEF Place
  <2>2. QED BY <1>1, <1>5, <2>1
<1>7. CASE q # <<>>
  <2>1. PICK s, r : s = Head(q) /\ r = Tail(q) OBVIOUS
  <2>2. s = l[b + 1] /\ b + 1 <= n /\ IsStretch(r, l, b + 1, n)
    BY <1>3, <1>4, <1>7, <2>1, StretchTail
  <2>3. b < Len(l) BY <1>3, <1>4, <2>2
  <2>4. ASSUME NEW u, y = [t |-> u, queue |-> r], \E i \in Nat : Sorted(u, l, i, b + 1, V)
        PROVE  IsOnTrack(y, l, n, V)
    <3>1. y.t = u /\ y.queue = r BY <2>4
    <3>2. QED BY <1>3, <2>2, <2>4, <3>1 DEF IsOnTrack
  <2>5. CASE t.open # NoRow
    <3>1. y = [t |-> PlaceInOpen(t, s, V), queue |-> r]
      BY <1>2, <1>5, <1>7, <2>1, <2>5 DEF Place
    <3>2. QED BY <1>1, <1>3, <1>5, <2>2, <2>3, <2>4, <2>5, <3>1, PlaceInOpenSorted
  <2>6. CASE t.open = NoRow /\ t.pending.members = <<>>
    <3>1. y = [t |-> Alone(t, s, V), queue |-> r] BY <1>2, <1>5, <1>7, <2>1, <2>6 DEF Place
    <3>2. a = b
      <4>1. PICK m : m = t.pending.members OBVIOUS
      <4>2. IsStretch(m, l, a, b) BY <1>3, <4>1 DEF Sorted, PendingIs
      <4>3. m = <<>> <=> a = b BY <1>4, <4>2, StretchEmpty
      <4>4. QED BY <2>6, <4>1, <4>3
    <3>3. QED BY <1>1, <1>3, <1>5, <2>2, <2>3, <2>4, <2>6, <3>1, <3>2, AloneSorted
  <2>7. CASE t.open = NoRow /\ t.pending.members # <<>> /\ Grows(t.pending.cluster, s, V)
    <3>1. y = [t |-> GrowPending(t, s, V), queue |-> r]
      BY <1>2, <1>5, <1>7, <2>1, <2>7 DEF Place
    <3>2. QED BY <1>1, <1>3, <1>5, <2>2, <2>3, <2>4, <2>7, <3>1, GrowPendingSorted
  <2>8. CASE t.open = NoRow /\ t.pending.members # <<>> /\ ~ Grows(t.pending.cluster, s, V)
    <3>1. PICK m : m = Tail(t.pending.members) \o q OBVIOUS
    <3>2. PICK u : u = [t EXCEPT !.pending = NoDwell] OBVIOUS
    <3>3. y = [t |-> u, queue |-> m] BY <1>2, <1>5, <1>7, <2>1, <2>8, <3>1, <3>2 DEF Place
    <3>4. IsTracker(t) BY DEF IsRunning, Good, LedgerOK
    <3>5. u.rows = t.rows /\ u.open = NoRow /\ u.pending = NoDwell
      BY <2>8, <3>2, <3>4 DEF IsTracker
    <3>6. IsStretch(t.pending.members, l, a, b) BY <1>3 DEF Sorted, PendingIs
    <3>7. a + 1 <= b /\ IsStretch(Tail(t.pending.members), l, a + 1, b)
      BY <1>4, <2>8, <3>6, StretchTail
    <3>8. a + 1 \in Nat /\ a <= a + 1 /\ a + 1 <= n /\ a + 1 <= Len(l) /\ a + 1 <= a + 1
      BY <1>3, <1>4, <3>7
    <3>9. IsStretch(m, l, a + 1, n) BY <1>3, <1>4, <3>1, <3>7, <3>8, StretchJoin
    <3>10. PendingIs(u.pending, l, a + 1, a + 1, V) BY <3>5, <3>8, NothingWaits
    <3>11. Sorted(u, l, a + 1, a + 1, V) BY <1>3, <2>8, <3>5, <3>8, <3>10, WaitsSorted
    <3>12. y.t = u /\ y.queue = m BY <3>3
    <3>13. IsOnTrack(y, l, n, V) BY <1>3, <3>8, <3>9, <3>11, <3>12 DEF IsOnTrack
    <3>14. QED BY <1>1, <1>5, <3>13
  <2>9. QED BY <2>5, <2>6, <2>7, <2>8
<1>8. QED BY <1>6, <1>7

\* A fix fed to a tracker in order leaves it so.
LEMMA FeedSorted ==
  ASSUME NEW old, NEW t, NEW V, IsRunning(t, old, V), NEW l, Ordered(l), NEW n \in Nat, n < Len(l),
         NEW a, Sorted(t, l, a, n, V)
  PROVE  \A k \in 0 .. Rounds(t) :
           LET x == Feeding(t, l[n + 1], V)[k] IN
           /\ x = [t |-> x.t, queue |-> x.queue] /\ x.queue \in Seq(Fix)
           /\ IsRunning(x.t, old, V) /\ IsOnTrack(x, l, n + 1, V)
<1>1. PICK s, top : s = l[n + 1] /\ top = Rounds(t) OBVIOUS
<1>2. Good(t, old, Fix, V, {}, {}) /\ IdsPositive(old) BY DEF IsRunning
<1>3. top \in Nat BY <1>1, <1>2, RoundsAreNatural DEF Good
<1>4. Len(l) \in Nat /\ DOMAIN l = 1 .. Len(l) /\ \A i \in 1 .. Len(l) : l[i] \in Fix
  BY FixesOf DEF Ordered
<1>5. n + 1 \in 1 .. Len(l) /\ n + 1 \in Nat /\ n + 1 <= Len(l) /\ n <= n + 1 BY <1>4
<1>6. s \in Fix BY <1>1, <1>4, <1>5
<1>7. PICK g : g = Feeding(t, s, V) OBVIOUS
<1>8. g[0] = [t |-> t, queue |-> <<s>>] /\ \A k \in 1 .. top : g[k] = Place(g[k - 1], V)
  BY <1>1, <1>3, <1>7, FeedingRounds
<1> DEFINE OK(x) == /\ IsFeeding(x, old, Fix, V, {}, {}) /\ IsOnTrack(x, l, n + 1, V)
           Bad == {k \in 0 .. top : ~ OK(g[k])}
<1>9. OK(g[0])
  <2>1. <<s>> \in Seq(Fix) /\ Len(<<s>>) = 1 /\ <<s>>[1] = s BY <1>6
  <2>2. IsFeeding(g[0], old, Fix, V, {}, {}) BY <1>2, <1>8, <2>1 DEF IsFeeding
  <2>3. IsStretch(<<s>>, l, n, n + 1)
    <3>1. (n + 1) - n = 1 /\ \A i \in 1 .. 1 : i = 1 OBVIOUS
    <3>2. QED BY <1>1, <2>1, <3>1 DEF IsStretch
  <2>4. g[0].t = t /\ g[0].queue = <<s>> BY <1>8
  <2>5. IsOnTrack(g[0], l, n + 1, V) BY <1>5, <2>3, <2>4 DEF IsOnTrack
  <2>6. QED BY <2>2, <2>5
<1>10. Bad = {}
  <2>1. SUFFICES ASSUME Bad # {} PROVE FALSE OBVIOUS
  <2>2. PICK m \in Bad : \A k \in Bad : m <= k
    <3>1. Bad \in SUBSET Nat BY <1>3
    <3> HIDE DEF Bad
    <3>2. QED BY <2>1, <3>1, HasLeast
  <2>3. m \in 0 .. top /\ ~ OK(g[m]) OBVIOUS
  <2>4. m # 0
    <3> HIDE DEF OK
    <3>1. QED BY <1>9, <2>3
  <2>5. m - 1 \in 0 .. top /\ m \in 1 .. top /\ ~ (m <= m - 1) BY <1>3, <2>3, <2>4
  <2>6. m - 1 \notin Bad
    <3> HIDE DEF Bad
    <3>1. QED BY <2>2, <2>5
  <2>7. OK(g[m - 1])
    <3> HIDE DEF OK
    <3>1. QED BY <2>5, <2>6
  <2>8. PICK x : x = g[m - 1] OBVIOUS
  <2>9. IsFeeding(x, old, Fix, V, {}, {}) /\ IsOnTrack(x, l, n + 1, V) BY <2>7, <2>8
  <2>10. g[m] = Place(x, V) BY <1>8, <2>5, <2>8
  <2>11. IsFeeding(g[m], old, Fix, V, {}, {}) BY <1>2, <2>9, <2>10, PlaceGood
  <2>12. PICK u, q : u = x.t /\ q = x.queue OBVIOUS
  <2>13. x = [t |-> u, queue |-> q] /\ IsRunning(u, old, V)
    BY <1>2, <2>9, <2>12 DEF IsFeeding, IsRunning
  <2>14. IsOnTrack(Place([t |-> u, queue |-> q], V), l, n + 1, V)
    BY <1>5, <2>9, <2>13, PlaceOnTrack
  <2>15. IsOnTrack(g[m], l, n + 1, V) BY <2>10, <2>13, <2>14
  <2>16. QED BY <2>3, <2>11, <2>15
<1>11. ASSUME NEW k \in 0 .. top
       PROVE  /\ g[k] = [t |-> g[k].t, queue |-> g[k].queue] /\ g[k].queue \in Seq(Fix)
              /\ IsRunning(g[k].t, old, V) /\ IsOnTrack(g[k], l, n + 1, V)
  <2>1. OK(g[k])
    <3> HIDE DEF OK
    <3>1. QED BY <1>10
  <2>2. QED BY <1>2, <2>1 DEF IsFeeding, IsRunning
<1>12. QED BY <1>1, <1>7, <1>11

\* With the fix fed it has one more.
LEMMA FedSorted ==
  ASSUME NEW old, NEW t, NEW V, IsRunning(t, old, V), NEW l, Ordered(l), NEW n \in Nat, n < Len(l),
         NEW a, Sorted(t, l, a, n, V)
  PROVE  IsRunning(Feed(t, l[n + 1], V), old, V)
         /\ \E i : Sorted(Feed(t, l[n + 1], V), l, i, n + 1, V)
<1>1. PICK s, top : s = l[n + 1] /\ top = Rounds(t) OBVIOUS
<1>2. Good(t, old, Fix, V, {}, {}) /\ IdsPositive(old) BY DEF IsRunning
<1>3. top \in Nat BY <1>1, <1>2, RoundsAreNatural DEF Good
<1>4. top \in 0 .. top BY <1>3
<1>5. PICK x : x = Feeding(t, s, V)[top] OBVIOUS
<1>6. IsRunning(x.t, old, V) /\ IsOnTrack(x, l, n + 1, V) BY <1>1, <1>4, <1>5, FeedSorted
<1>7. s \in Fix
  <2>1. Len(l) \in Nat /\ \A i \in 1 .. Len(l) : l[i] \in Fix BY FixesOf DEF Ordered
  <2>2. n + 1 \in 1 .. Len(l) BY <2>1
  <2>3. QED BY <1>1, <2>1, <2>2
<1>8. x.queue = <<>> BY <1>1, <1>2, <1>5, <1>7, FeedingEnds
<1>9. PICK i, b : Sorted(x.t, l, i, b, V) /\ b <= n + 1 /\ IsStretch(x.queue, l, b, n + 1)
  BY <1>6 DEF IsOnTrack
<1>10. b \in Nat BY <1>9 DEF Sorted
<1>11. b = n + 1
  <2>1. PICK q : q = x.queue OBVIOUS
  <2>2. IsStretch(q, l, b, n + 1) BY <1>9, <2>1
  <2>3. n + 1 \in Nat OBVIOUS
  <2>4. q = <<>> <=> b = n + 1 BY <1>10, <2>2, <2>3, StretchEmpty
  <2>5. QED BY <1>8, <2>1, <2>4
<1>12. Feed(t, s, V) = x.t BY <1>1, <1>5 DEF Feed
<1>13. QED BY <1>1, <1>6, <1>9, <1>11, <1>12

\* Two trackers alike are so after it.
LEMMA FedTwin ==
  ASSUME NEW old, NEW t, NEW V, IsRunning(t, old, V), NEW new, NEW u, IsRunning(u, new, V),
         Alike(t, u), NEW l, Ordered(l), NEW n \in Nat, n < Len(l),
         NEW a, Sorted(t, l, a, n, V), NEW b, Sorted(u, l, b, n, V)
  PROVE  Alike(Feed(t, l[n + 1], V), Feed(u, l[n + 1], V))
<1>1. PICK s, top : s = l[n + 1] /\ top = Rounds(t) OBVIOUS
<1>2. Good(t, old, Fix, V, {}, {}) BY DEF IsRunning
<1>3. top \in Nat BY <1>1, <1>2, RoundsAreNatural DEF Good
<1>4. top = Rounds(u) BY <1>1 DEF Alike, Rounds
<1>5. PICK g, h : g = Feeding(t, s, V) /\ h = Feeding(u, s, V) OBVIOUS
<1>6. g[0] = [t |-> t, queue |-> <<s>>] /\ \A k \in 1 .. top : g[k] = Place(g[k - 1], V)
  BY <1>1, <1>3, <1>5, FeedingRounds
<1>7. h[0] = [t |-> u, queue |-> <<s>>] /\ \A k \in 1 .. top : h[k] = Place(h[k - 1], V)
  BY <1>3, <1>4, <1>5, FeedingRounds
<1>8. \A k \in 0 .. top :
        /\ g[k] = [t |-> g[k].t, queue |-> g[k].queue] /\ g[k].queue \in Seq(Fix)
        /\ IsRunning(g[k].t, old, V) /\ IsOnTrack(g[k], l, n + 1, V)
  BY <1>1, <1>5, FeedSorted
<1>9. \A k \in 0 .. top :
        /\ h[k] = [t |-> h[k].t, queue |-> h[k].queue]
        /\ IsRunning(h[k].t, new, V) /\ IsOnTrack(h[k], l, n + 1, V)
  BY <1>1, <1>4, <1>5, FeedSorted
<1> DEFINE OK(k) == Alike(g[k].t, h[k].t) /\ g[k].queue = h[k].queue
           Bad == {k \in 0 .. top : ~ OK(k)}
<1>10. OK(0) BY <1>6, <1>7
<1>11. Bad = {}
  <2>1. SUFFICES ASSUME Bad # {} PROVE FALSE OBVIOUS
  <2>2. PICK m \in Bad : \A k \in Bad : m <= k
    <3>1. Bad \in SUBSET Nat BY <1>3
    <3> HIDE DEF Bad
    <3>2. QED BY <2>1, <3>1, HasLeast
  <2>3. m \in 0 .. top /\ ~ OK(m) OBVIOUS
  <2>4. m # 0
    <3> HIDE DEF OK
    <3>1. QED BY <1>10, <2>3
  <2>5. m - 1 \in 0 .. top /\ m \in 1 .. top /\ ~ (m <= m - 1) BY <1>3, <2>3, <2>4
  <2>6. m - 1 \notin Bad
    <3> HIDE DEF Bad
    <3>1. QED BY <2>2, <2>5
  <2>7. OK(m - 1)
    <3> HIDE DEF OK
    <3>1. QED BY <2>5, <2>6
  <2>8. PICK x, y : x = g[m - 1].t /\ y = h[m - 1].t OBVIOUS
  <2>9. PICK q : q = g[m - 1].queue OBVIOUS
  <2>10. Alike(x, y) /\ q = h[m - 1].queue BY <2>7, <2>8, <2>9
  <2>11. g[m - 1] = [t |-> x, queue |-> q] /\ h[m - 1] = [t |-> y, queue |-> q]
    BY <1>8, <1>9, <2>5, <2>8, <2>9, <2>10
  <2>12. g[m] = Place([t |-> x, queue |-> q], V) /\ h[m] = Place([t |-> y, queue |-> q], V)
    BY <1>6, <1>7, <2>5, <2>11
  <2>13. q \in Seq(Fix) /\ IsRunning(x, old, V) /\ IsRunning(y, new, V)
    BY <1>8, <1>9, <2>5, <2>8, <2>9
  <2>14. OneEndEach(x.rows) /\ OneEndEach(y.rows)
    <3>1. IsOnTrack(g[m - 1], l, n + 1, V) /\ IsOnTrack(h[m - 1], l, n + 1, V)
      BY <1>8, <1>9, <2>5
    <3>2. QED BY <2>8, <3>1 DEF IsOnTrack, Sorted
  <2>15. Paired(x, y) BY <2>10, <2>14 DEF Paired, Alike
  <2>16. Alike(g[m].t, h[m].t) /\ g[m].queue = h[m].queue
    BY <2>10, <2>12, <2>13, <2>15, PlaceTwin
  <2>17. QED BY <2>3, <2>16
<1>12. top \in 0 .. top BY <1>3
<1>13. Alike(g[top].t, h[top].t) BY <1>11, <1>12
<1>14. Feed(t, s, V) = g[top].t /\ Feed(u, s, V) = h[top].t BY <1>1, <1>4, <1>5 DEF Feed
<1>15. QED BY <1>1, <1>13, <1>14

----------------------------------------------------------------------------
(* A dwell that waits is found again when its fixes are.                     *)

\* A fix placed in one round is fed.
LEMMA FedAtOnce ==
  ASSUME NEW t, NEW s, NEW V, NEW u, t.pending.members \in Seq(Fix),
         Place([t |-> t, queue |-> <<s>>], V) = [t |-> u, queue |-> <<>>]
  PROVE  Feed(t, s, V) = u
<1>1. PICK top : top = Rounds(t) OBVIOUS
<1>2. top \in Nat /\ top # 0
  <2>1. PICK k : k = Len(t.pending.members) OBVIOUS
  <2>2. k \in Nat BY <2>1
  <2>3. (k + 1) * (k + 1) \in Nat BY <2>2
  <2>4. top = (k + 1) * (k + 1) + 1 BY <1>1, <2>1 DEF Rounds
  <2>5. QED BY <2>3, <2>4
<1>3. PICK g : g = Feeding(t, s, V) OBVIOUS
<1>4. g[0] = [t |-> t, queue |-> <<s>>] /\ \A k \in 1 .. top : g[k] = Place(g[k - 1], V)
  BY <1>1, <1>2, <1>3, FeedingRounds
<1>5. PICK x : x = [t |-> u, queue |-> <<>>] OBVIOUS
<1>6. g[1] = x
  <2>1. 1 \in 1 .. top /\ 1 - 1 = 0 BY <1>2
  <2>2. g[1] = Place(g[0], V) BY <1>4, <2>1
  <2>3. QED BY <1>4, <1>5, <2>2
<1>7. Place(x, V) = x
  <2>1. x.queue = <<>> BY <1>5
  <2>2. QED BY <2>1 DEF Place
<1> DEFINE Bad == {k \in 1 .. top : g[k] # x}
<1>8. Bad = {}
  <2>1. SUFFICES ASSUME Bad # {} PROVE FALSE OBVIOUS
  <2>2. PICK m \in Bad : \A k \in Bad : m <= k
    <3>1. Bad \in SUBSET Nat BY <1>2
    <3> HIDE DEF Bad
    <3>2. QED BY <2>1, <3>1, HasLeast
  <2>3. m \in 1 .. top /\ g[m] # x OBVIOUS
  <2>4. m # 1 BY <1>6, <2>3
  <2>5. m - 1 \in 1 .. top /\ ~ (m <= m - 1) BY <1>2, <2>3, <2>4
  <2>6. m - 1 \notin Bad
    <3> HIDE DEF Bad
    <3>1. QED BY <2>2, <2>5
  <2>7. g[m - 1] = x BY <2>5, <2>6
  <2>8. QED BY <1>4, <1>7, <2>3, <2>7
<1>9. g[top] = x BY <1>2, <1>8
<1>10. QED BY <1>1, <1>3, <1>5, <1>9 DEF Feed

\* The dwell after i of its fixes.
DwellAt(m, g, i) == [members |-> [j \in 1 .. i |-> m[j]], cluster |-> g[i]]

\* A sequence is its elements.
LEMMA SequenceIs ==
  ASSUME NEW S, NEW m \in Seq(S)
  PROVE  m = [j \in 1 .. Len(m) |-> m[j]]
OBVIOUS

\* The elements of a sequence and the next one.
LEMMA OneMore ==
  ASSUME NEW S, NEW m \in Seq(S), NEW i \in Nat, i < Len(m)
  PROVE  Append([j \in 1 .. i |-> m[j]], m[i + 1]) = [j \in 1 .. i + 1 |-> m[j]]
<1>1. PICK q, r : q = [j \in 1 .. i |-> m[j]] /\ r = [j \in 1 .. i + 1 |-> m[j]] OBVIOUS
<1>2. Len(m) \in Nat /\ DOMAIN m = 1 .. Len(m) /\ \A j \in 1 .. Len(m) : m[j] \in S OBVIOUS
<1>3. i + 1 \in Nat /\ i + 1 \in 1 .. Len(m) /\ \A j \in 1 .. i : j \in 1 .. Len(m)
  BY <1>2
<1>4. \A j \in 1 .. i + 1 : j \in 1 .. Len(m) BY <1>2
<1>5. q \in Seq(S) /\ Len(q) = i /\ \A j \in 1 .. i : q[j] = m[j] BY <1>1, <1>2, <1>3
<1>6. r \in Seq(S) /\ Len(r) = i + 1 /\ \A j \in 1 .. i + 1 : r[j] = m[j] BY <1>1, <1>2, <1>3, <1>4
<1>7. PICK s \in S : s = m[i + 1] BY <1>2, <1>3
<1>8. PICK p : p = Append(q, s) OBVIOUS
<1>9. p \in Seq(S) /\ Len(p) = i + 1 /\ p[i + 1] = s /\ \A j \in 1 .. i : p[j] = q[j]
  BY <1>5, <1>8
<1>10. \A j \in 1 .. i + 1 : p[j] = r[j]
  <2>1. \A j \in 1 .. i + 1 : j = i + 1 \/ j \in 1 .. i BY <1>3
  <2>2. QED BY <1>5, <1>6, <1>7, <1>9, <2>1
<1>11. p = r BY <1>6, <1>9, <1>10, SeqEqual
<1>12. QED BY <1>1, <1>7, <1>8, <1>11

\* The tracker once the first i fixes of the dwell p are placed again.
AfterFirst(t, p, g, i) == [t EXCEPT !.pending = DwellAt(p.members, g, i)]

\* The next of the fixes makes the dwell what it was,
LEMMA NextAgain ==
  ASSUME NEW t, IsTracker(t), t.open = NoRow, NEW p, IsDwell(p, Fix), NEW V, NEW g,
         Climbs(p, g, V), NEW i \in Nat, i + 1 < Len(p.members),
         NEW u, u = AfterFirst(t, p, g, i + 1)
  PROVE  Feed(u, p.members[i + 2], V) = AfterFirst(t, p, g, i + 2)
<1>1. PICK m : m = p.members OBVIOUS
<1>2. m \in Seq(Fix) /\ Len(m) \in Nat BY <1>1 DEF IsDwell
<1>3. i + 1 \in Nat /\ i + 2 \in 2 .. Len(m) /\ (i + 2) - 1 = i + 1 /\ (i + 1) + 1 = i + 2
      /\ i + 1 < Len(m) /\ i + 2 \in 1 .. Len(m) /\ 1 \in 1 .. i + 1
  BY <1>1, <1>2
<1>4. PICK s : s = m[i + 2] OBVIOUS
<1>5. s \in Fix BY <1>2, <1>3, <1>4
<1>6. PICK c, d : c = g[i + 1] /\ d = g[i + 2] OBVIOUS
<1>7. d = AddSample(c, s) /\ Grows(c, s, V) /\ ~ IsStay(d)
  BY <1>1, <1>3, <1>4, <1>6 DEF Climbs
<1>8. PICK q, r : q = [j \in 1 .. i + 1 |-> m[j]] /\ r = [j \in 1 .. i + 2 |-> m[j]] OBVIOUS
<1>9. Append(q, s) = r BY <1>2, <1>3, <1>4, <1>8, OneMore
<1>10. q # <<>>
  <2>1. DOMAIN q = 1 .. i + 1 /\ DOMAIN <<>> = {} BY <1>8
  <2>2. QED BY <1>3, <2>1
<1>11. u.open = NoRow /\ u.pending.members = q /\ u.pending.cluster = c /\ IsTracker(u)
       /\ u.pending = [members |-> q, cluster |-> c]
  BY <1>1, <1>6, <1>8 DEF IsTracker, DwellAt, AfterFirst
<1>12. PICK v : v = [t EXCEPT !.pending = [members |-> r, cluster |-> d]] OBVIOUS
<1>13. GrowPending(u, s, V) = [u EXCEPT !.pending = [members |-> r, cluster |-> d]]
  BY <1>7, <1>9, <1>11 DEF GrowPending, IsTracker
<1>14. GrowPending(u, s, V) = v BY <1>12, <1>13 DEF IsTracker, AfterFirst
<1>15. PICK x : x = [t |-> u, queue |-> <<s>>] OBVIOUS
<1>16. x.t = u /\ x.queue = <<s>> /\ <<s>> # <<>> /\ Head(<<s>>) = s /\ Tail(<<s>>) = <<>>
  BY <1>5, <1>15
<1>17. Place(x, V) = [t |-> v, queue |-> <<>>]
  BY <1>7, <1>10, <1>11, <1>14, <1>16 DEF Place
<1>18. q \in Seq(Fix)
  <2>1. PICK k : k = i + 1 OBVIOUS
  <2>2. k \in Nat /\ \A j \in 1 .. k : m[j] \in Fix BY <1>2, <1>3, <2>1
  <2>3. q = [j \in 1 .. k |-> m[j]] BY <1>8, <2>1
  <2>4. QED BY <2>2, <2>3
<1>19. Feed(u, s, V) = v BY <1>11, <1>15, <1>17, <1>18, FedAtOnce
<1>20. QED BY <1>1, <1>4, <1>6, <1>8, <1>12, <1>19 DEF DwellAt, AfterFirst

\* as the first one makes it what it was,
LEMMA FirstAgain ==
  ASSUME NEW t, IsTracker(t), t.open = NoRow, t.pending = NoDwell, NEW p, IsDwell(p, Fix),
         p.members # <<>>, NEW V, NEW g, Climbs(p, g, V)
  PROVE  Feed(t, p.members[1], V) = [t EXCEPT !.pending = DwellAt(p.members, g, 1)]
<1>1. PICK m : m = p.members OBVIOUS
<1>2. m \in Seq(Fix) /\ Len(m) \in Nat /\ Len(m) # 0 BY <1>1, EmptySeq DEF IsDwell
<1>3. PICK s : s = m[1] OBVIOUS
<1>4. s \in Fix
  <2>1. 1 \in 1 .. Len(m) BY <1>2
  <2>2. QED BY <1>2, <1>3, <2>1
<1>5. PICK c : c = g[1] OBVIOUS
<1>6. c = ClusterOf(s) /\ ~ OverlapsVisit(c, V) BY <1>1, <1>3, <1>5 DEF Climbs
<1>7. ~ IsStay(c)
  <2>1. c.start = s.ts /\ c.end = s.ts /\ s.ts \in Nat BY <1>4, <1>6 DEF ClusterOf, Fix
  <2>2. QED BY <2>1, StayAssumption DEF IsStay
<1>8. PICK v : v = [t EXCEPT !.pending = [members |-> <<s>>, cluster |-> c]] OBVIOUS
<1>9. Alone(t, s, V) = v BY <1>6, <1>7, <1>8 DEF Alone
<1>10. PICK x : x = [t |-> t, queue |-> <<s>>] OBVIOUS
<1>11. x.t = t /\ x.queue = <<s>> /\ <<s>> # <<>> /\ Head(<<s>>) = s /\ Tail(<<s>>) = <<>>
  BY <1>4, <1>10
<1>12. t.pending.members = <<>> /\ <<>> \in Seq(Fix) BY DEF NoDwell
<1>13. Place(x, V) = [t |-> v, queue |-> <<>>] BY <1>9, <1>11, <1>12 DEF Place
<1>14. Feed(t, s, V) = v BY <1>10, <1>12, <1>13, FedAtOnce
<1>15. [j \in 1 .. 1 |-> m[j]] = <<s>>
  <2>1. PICK q : q = [j \in 1 .. 1 |-> m[j]] OBVIOUS
  <2>2. q \in Seq(Fix) /\ Len(q) = 1 /\ q[1] = s
    <3>1. \A j \in 1 .. 1 : m[j] \in Fix /\ j = 1 BY <1>3, <1>4
    <3>2. 1 \in Nat /\ 1 \in 1 .. 1 OBVIOUS
    <3>3. QED BY <1>3, <2>1, <3>1, <3>2
  <2>3. <<s>> \in Seq(Fix) /\ Len(<<s>>) = 1 /\ <<s>>[1] = s BY <1>4
  <2>4. \A j \in 1 .. 1 : q[j] = <<s>>[j]
    <3>1. \A j \in 1 .. 1 : j = 1 OBVIOUS
    <3>2. QED BY <2>2, <2>3, <3>1
  <2>5. q = <<s>> BY <2>2, <2>3, <2>4, SeqEqual
  <2>6. QED BY <2>1, <2>5
<1>16. QED BY <1>1, <1>3, <1>5, <1>8, <1>14, <1>15 DEF DwellAt

\* so the whole dwell is found again.
LEMMA FoundAgain ==
  ASSUME NEW t, IsTracker(t), t.open = NoRow, t.pending = NoDwell, NEW p, IsDwell(p, Fix),
         p.members # <<>>, NEW V, Builds(p, V), NEW h, NEW a \in Nat, h[a] = t,
         \A i \in 1 .. Len(p.members) : h[a + i] = Feed(h[(a + i) - 1], p.members[i], V)
  PROVE  h[a + Len(p.members)] = [t EXCEPT !.pending = p]
<1>1. PICK g : Climbs(p, g, V) BY DEF Builds
<1>2. PICK m, n : m = p.members /\ n = Len(m) OBVIOUS
<1>3. m \in Seq(Fix) /\ n \in Nat /\ n # 0 BY <1>2, EmptySeq DEF IsDwell
<1> DEFINE At(i) == [t EXCEPT !.pending = DwellAt(m, g, i)]
           Bad == {i \in 1 .. n : h[a + i] # At(i)}
<1>4. h[a + 1] = At(1)
  <2>1. 1 \in 1 .. n /\ (a + 1) - 1 = a BY <1>3
  <2>2. h[a + 1] = Feed(t, m[1], V) BY <1>2, <2>1
  <2>3. QED BY <1>1, <1>2, <2>2, FirstAgain
<1>5. Bad = {}
  <2>1. SUFFICES ASSUME Bad # {} PROVE FALSE OBVIOUS
  <2>2. PICK k \in Bad : \A j \in Bad : k <= j
    <3>1. Bad \in SUBSET Nat BY <1>3
    <3> HIDE DEF Bad
    <3>2. QED BY <2>1, <3>1, HasLeast
  <2>3. k \in 1 .. n /\ h[a + k] # At(k) OBVIOUS
  <2>4. k # 1
    <3> HIDE DEF At
    <3>1. QED BY <1>4, <2>3
  <2>5. PICK i : i = k - 2 OBVIOUS
  <2>6. /\ i \in Nat /\ i + 1 < n /\ i + 1 \in 1 .. n /\ i + 2 = k /\ ~ (k <= i + 1)
        /\ (a + k) - 1 = a + (i + 1)
    BY <1>3, <2>3, <2>4, <2>5
  <2>7. h[a + (i + 1)] = At(i + 1)
    <3>1. i + 1 \notin Bad
      <4> HIDE DEF Bad
      <4>1. QED BY <2>2, <2>6
    <3> HIDE DEF At
    <3>2. QED BY <2>6, <3>1
  <2>8. h[a + k] = Feed(h[(a + k) - 1], m[k], V) BY <1>2, <2>3
  <2>9. h[a + k] = Feed(At(i + 1), m[i + 2], V)
    <3> HIDE DEF At
    <3>1. QED BY <2>6, <2>7, <2>8
  <2>10. Feed(At(i + 1), m[i + 2], V) = At(i + 2)
    <3>1. PICK u : u = At(i + 1) OBVIOUS
    <3>2. u = AfterFirst(t, p, g, i + 1) BY <1>2, <3>1 DEF AfterFirst
    <3>3. i + 1 < Len(p.members) BY <1>2, <2>6
    <3>4. i \in Nat BY <2>6
    <3>5. Feed(u, p.members[i + 2], V) = AfterFirst(t, p, g, i + 2)
      <4> HIDE DEF At, Bad
      <4>1. QED BY <1>1, <3>2, <3>3, <3>4, NextAgain
    <3>6. QED BY <1>2, <3>1, <3>5 DEF AfterFirst
  <2>11. QED
    <3> HIDE DEF At
    <3>1. QED BY <2>3, <2>6, <2>9, <2>10
<1>6. n \in 1 .. n BY <1>3
<1>7. h[a + n] = At(n)
  <2> HIDE DEF At
  <2>1. QED BY <1>5, <1>6
<1>8. DwellAt(m, g, n) = p
  <2>1. m = [j \in 1 .. n |-> m[j]] BY <1>2, <1>3, SequenceIs
  <2>2. p.cluster = g[n] BY <1>1, <1>2 DEF Climbs
  <2>3. p = [members |-> m, cluster |-> g[n]] BY <1>2, <2>2 DEF IsDwell
  <2>4. QED BY <2>1, <2>3 DEF DwellAt
<1>9. QED BY <1>2, <1>7, <1>8

----------------------------------------------------------------------------
(* All the fixes, at once.                                                   *)

FedUpTo(l, V, n) == FeedingAll(StayLedger(<<>>, NoRow), l, V)[n]

\* A tracker with nothing is in order.
LEMMA NothingYet ==
  ASSUME NEW t, t = StayLedger(<<>>, NoRow), NEW V, NEW l, Len(l) \in Nat
  PROVE  IsRunning(t, {}, V) /\ Sorted(t, l, 0, 0, V) /\ DOMAIN t.rows = {}
<1>1. DOMAIN <<>> = {} OBVIOUS
<1>2. LastOf({}) = 0
  <2>1. LastOf({}) \in {} \cup {0} BY LastOfNaturals, FS_EmptySet
  <2>2. QED BY <2>1
<1>3. PICK e : e = <<>> OBVIOUS
<1>4. e = [k \in {} |-> e[k]] /\ DOMAIN e = {} BY <1>1, <1>3
<1>5. PICK f : f = [k \in DOMAIN e |-> [id |-> e[k].id, closed |-> k # NoRow, c |-> e[k].c]] OBVIOUS
<1>6. DOMAIN f = {} /\ IsMap(f) /\ IsMap(e) BY <1>4, <1>5 DEF IsMap
<1>7. t = [rows |-> f, removed |-> e, open |-> NoRow, pending |-> NoDwell, fresh |-> 0 + 1]
  BY <1>2, <1>3, <1>4, <1>5 DEF StayLedger
<1>8. t.rows = f /\ t.removed = e /\ t.open = NoRow /\ t.pending = NoDwell /\ t.fresh = 1
  BY <1>7
<1>9. IsTracker(t) BY <1>7, <1>8 DEF IsTracker
<1>10. LedgerOK(t, {}) BY <1>4, <1>6, <1>8, <1>9 DEF LedgerOK, Numbered
<1>11. StoredKept(t, {}) BY <1>4, <1>6, <1>8 DEF StoredKept, IsKept, OneRowEach
<1>12. ClearRows(t, V, {}) BY <1>6, <1>8 DEF ClearRows
<1>13. OpenOK(t, {}) BY <1>8 DEF OpenOK
<1>14. IsDwell(t.pending, Fix) BY <1>8, NoDwellIsDwell
<1>15. IsRunning(t, {}, V) BY <1>10, <1>11, <1>12, <1>13, <1>14 DEF IsRunning, Good, IdsPositive
<1>16. EndsBy(t.rows, l, 0) /\ OneEndEach(t.rows) /\ OpenEndsLast(t)
  BY <1>6, <1>8 DEF EndsBy, OneEndEach, OpenEndsLast
<1>17. PendingIs(t.pending, l, 0, 0, V) BY <1>8, NothingWaits
<1>18. Sorted(t, l, 0, 0, V) BY <1>8, <1>16, <1>17 DEF Sorted
<1>19. QED BY <1>6, <1>8, <1>15, <1>18

\* The fixes are fed one by one,
LEMMA FedOneByOne ==
  ASSUME NEW l \in Seq(Fix), NEW V
  PROVE  /\ FedUpTo(l, V, 0) = StayLedger(<<>>, NoRow)
         /\ \A n \in 1 .. Len(l) : FedUpTo(l, V, n) = Feed(FedUpTo(l, V, n - 1), l[n], V)
         /\ FeedAll(StayLedger(<<>>, NoRow), l, V) = FedUpTo(l, V, Len(l))
<1>1. PICK n : n = Len(l) OBVIOUS
<1>2. n \in Nat /\ DOMAIN l = 1 .. n BY <1>1
<1>3. LastOf(1 .. n) = n
  <2>1. 1 .. n \in SUBSET Nat /\ IsFiniteSet(1 .. n)
    <3>1. 1 \in Int /\ n \in Int BY <1>2
    <3>2. QED BY <1>2, <3>1, FS_Interval
  <2>2. PICK k : k = LastOf(1 .. n) OBVIOUS
  <2>3. k \in Nat /\ k \in (1 .. n) \cup {0} /\ \A y \in 1 .. n : y <= k
    BY <2>1, <2>2, LastOfNaturals
  <2>4. n = 0 \/ n \in 1 .. n BY <1>2
  <2>5. QED BY <1>2, <2>2, <2>3, <2>4
<1>4. PICK t : t = StayLedger(<<>>, NoRow) OBVIOUS
<1>5. PICK g : g = FeedingAll(t, l, V) OBVIOUS
<1>6. /\ g[0] = t
      /\ \A i \in 1 .. n : g[i] = (IF i \in DOMAIN l THEN Feed(g[i - 1], l[i], V) ELSE g[i - 1])
  BY <1>2, <1>3, <1>5, FeedingAllRounds
<1>7. \A i : FedUpTo(l, V, i) = g[i] BY <1>4, <1>5 DEF FedUpTo
<1>8. FeedAll(t, l, V) = g[n] BY <1>2, <1>3, <1>5 DEF FeedAll
<1>9. QED BY <1>1, <1>2, <1>4, <1>6, <1>7, <1>8

\* and the tracker stays in order.
LEMMA AtOnceSorted ==
  ASSUME NEW l, Ordered(l), NEW V, NEW n \in 0 .. Len(l)
  PROVE  IsRunning(FedUpTo(l, V, n), {}, V) /\ \E a : Sorted(FedUpTo(l, V, n), l, a, n, V)
<1>1. l \in Seq(Fix) /\ Len(l) \in Nat BY DEF Ordered
<1> DEFINE g(k) == FedUpTo(l, V, k)
           OK(k) == IsRunning(g(k), {}, V) /\ \E a : Sorted(g(k), l, a, k, V)
           Bad == {k \in 0 .. Len(l) : ~ OK(k)}
<1>2. g(0) = StayLedger(<<>>, NoRow) /\ \A k \in 1 .. Len(l) : g(k) = Feed(g(k - 1), l[k], V)
  BY <1>1, FedOneByOne
<1>3. OK(0)
  <2> HIDE DEF g
  <2>1. IsRunning(g(0), {}, V) /\ Sorted(g(0), l, 0, 0, V) BY <1>1, <1>2, NothingYet
  <2>2. QED BY <2>1
<1>4. Bad = {}
  <2> HIDE DEF g
  <2>1. SUFFICES ASSUME Bad # {} PROVE FALSE OBVIOUS
  <2>2. PICK m \in Bad : \A k \in Bad : m <= k
    <3>1. Bad \in SUBSET Nat BY <1>1
    <3> HIDE DEF Bad
    <3>2. QED BY <2>1, <3>1, HasLeast
  <2>3. m \in 0 .. Len(l) /\ ~ OK(m) OBVIOUS
  <2>4. m # 0
    <3> HIDE DEF OK
    <3>1. QED BY <1>3, <2>3
  <2>5. PICK k : k = m - 1 OBVIOUS
  <2>6. k \in Nat /\ k \in 0 .. Len(l) /\ m \in 1 .. Len(l) /\ ~ (m <= k) /\ k < Len(l) /\ m = k + 1
    BY <1>1, <2>3, <2>4, <2>5
  <2>7. OK(k)
    <3>1. k \notin Bad
      <4> HIDE DEF Bad
      <4>1. QED BY <2>2, <2>6
    <3> HIDE DEF OK
    <3>2. QED BY <2>6, <3>1
  <2>8. PICK a : Sorted(g(k), l, a, k, V) BY <2>7
  <2>9. IsRunning(g(k), {}, V) BY <2>7
  <2>10. g(m) = Feed(g(k), l[k + 1], V) BY <1>2, <2>5, <2>6
  <2>11. IsRunning(g(m), {}, V) /\ \E i : Sorted(g(m), l, i, m, V)
    <3> HIDE DEF Bad, OK
    <3>1. PICK t : t = g(k) OBVIOUS
    <3>2. IsRunning(Feed(t, l[k + 1], V), {}, V) /\ \E i : Sorted(Feed(t, l[k + 1], V), l, i, k + 1, V)
      BY <2>6, <2>8, <2>9, <3>1, FedSorted
    <3>3. QED BY <2>6, <2>10, <3>1, <3>2
  <2>12. QED BY <2>3, <2>11
<1>5. OK(n)
  <2> HIDE DEF OK
  <2>1. QED BY <1>4
<1>6. QED BY <1>5

\* Fixes that come later change nothing of it.
LEMMA FedBefore ==
  ASSUME NEW l \in Seq(Fix), NEW m \in Seq(Fix), NEW V, Len(l) <= Len(m),
         \A i \in 1 .. Len(l) : m[i] = l[i], NEW n \in 0 .. Len(l)
  PROVE  FedUpTo(m, V, n) = FedUpTo(l, V, n)
<1> DEFINE g(k) == FedUpTo(l, V, k)
           h(k) == FedUpTo(m, V, k)
           Bad == {k \in 0 .. Len(l) : h(k) # g(k)}
<1>1. Len(l) \in Nat /\ Len(m) \in Nat OBVIOUS
<1>2. g(0) = StayLedger(<<>>, NoRow) /\ \A k \in 1 .. Len(l) : g(k) = Feed(g(k - 1), l[k], V)
  BY FedOneByOne
<1>3. h(0) = StayLedger(<<>>, NoRow) /\ \A k \in 1 .. Len(m) : h(k) = Feed(h(k - 1), m[k], V)
  BY FedOneByOne
<1> HIDE DEF g, h
<1>4. Bad = {}
  <2>1. SUFFICES ASSUME Bad # {} PROVE FALSE OBVIOUS
  <2>2. PICK k \in Bad : \A j \in Bad : k <= j
    <3>1. Bad \in SUBSET Nat BY <1>1
    <3> HIDE DEF Bad
    <3>2. QED BY <2>1, <3>1, HasLeast
  <2>3. k \in 0 .. Len(l) /\ h(k) # g(k) OBVIOUS
  <2>4. k # 0 BY <1>2, <1>3, <2>3
  <2>5. k - 1 \in 0 .. Len(l) /\ k \in 1 .. Len(l) /\ k \in 1 .. Len(m) /\ ~ (k <= k - 1)
    BY <1>1, <2>3, <2>4
  <2>6. k - 1 \notin Bad
    <3> HIDE DEF Bad
    <3>1. QED BY <2>2, <2>5
  <2>7. h(k - 1) = g(k - 1) BY <2>5, <2>6
  <2>8. QED BY <1>2, <1>3, <2>3, <2>5, <2>7
<1>5. h(n) = g(n) BY <1>4
<1>6. QED BY <1>5 DEF g, h

\* They leave a tracker in order.
LEMMA SortedBefore ==
  ASSUME NEW l \in Seq(Fix), NEW m \in Seq(Fix), Len(l) <= Len(m),
         \A i \in 1 .. Len(l) : m[i] = l[i], NEW t, NEW a, NEW b, NEW V, Sorted(t, l, a, b, V)
  PROVE  Sorted(t, m, a, b, V)
<1>1. /\ a \in Nat /\ b \in Nat /\ a <= b /\ b <= Len(l)
      /\ EndsBy(t.rows, l, a) /\ OneEndEach(t.rows) /\ OpenEndsLast(t) /\ (t.open # NoRow => a = b)
      /\ PendingIs(t.pending, l, a, b, V)
  BY DEF Sorted
<1>2. Len(l) \in Nat /\ Len(m) \in Nat OBVIOUS
<1>3. b <= Len(m) BY <1>1, <1>2
<1>4. EndsBy(t.rows, m, a)
  <2>1. \A i \in 1 .. a : m[i] = l[i] BY <1>1, <1>2
  <2>2. QED BY <1>1, <2>1 DEF EndsBy
<1>5. PendingIs(t.pending, m, a, b, V)
  <2>1. PICK p : p = t.pending OBVIOUS
  <2>2. /\ IsStretch(p.members, l, a, b) /\ (p.members = <<>> => p = NoDwell)
        /\ p.members # <<>> =>
             Builds(p, V) /\ p.cluster.start = l[a + 1].ts /\ p.cluster.end = l[b].ts
    BY <1>1, <2>1 DEF PendingIs
  <2>3. IsStretch(p.members, m, a, b)
    <3>1. p.members \in Seq(Fix) /\ Len(p.members) = b - a
      BY <2>2 DEF IsStretch
    <3>2. \A i \in 1 .. Len(p.members) : p.members[i] = l[a + i] BY <2>2 DEF IsStretch
    <3>3. \A i \in 1 .. Len(p.members) : a + i \in 1 .. Len(l) BY <1>1, <1>2, <3>1
    <3>4. QED BY <3>1, <3>2, <3>3 DEF IsStretch
  <2>4. p.members # <<>> => a + 1 \in 1 .. Len(l) /\ b \in 1 .. Len(l)
    <3>1. p.members # <<>> => a # b
      <4>1. PICK q : q = p.members OBVIOUS
      <4>2. IsStretch(q, l, a, b) BY <2>2, <4>1
      <4>3. q = <<>> <=> a = b BY <1>1, <4>2, StretchEmpty
      <4>4. QED BY <4>1, <4>3
    <3>2. QED BY <1>1, <1>2, <3>1
  <2>5. QED BY <2>1, <2>2, <2>3, <2>4 DEF PendingIs
<1>6. QED BY <1>1, <1>3, <1>4, <1>5 DEF Sorted

----------------------------------------------------------------------------
(* What a run writes, and the ledger of the next run over it.                *)

\* The stays of a table and the rows of a ledger say the same.
SameStays(S, f) ==
  /\ \A s \in S : \E k \in DOMAIN f : Twin(s, f[k])
  /\ \A k \in DOMAIN f : \E s \in S : Twin(s, f[k])

\* No two stays end together.
EndOnce(S) == \A r, s \in S : r.c.end = s.c.end => r = s

\* A run writes one stay for every row of its ledger.
LEMMA WrittenRows ==
  ASSUME StaysOK(stays), NEW t, LedgerOK(t, stays), StoredKept(t, stays)
  PROVE  \E f : /\ Written(t) = {f[k] : k \in DOMAIN t.rows}
                /\ \A k \in DOMAIN t.rows : Twin(f[k], t.rows[k])
<1>1. PICK D : D = DeleteDerivedStays(stays, t.removed) OBVIOUS
<1>2. PICK U : U = UpdateDerivedStays(D, t) OBVIOUS
<1>3. PICK last : last = LastOf({s.id : s \in U}) OBVIOUS
<1>4. PICK id : id = [k \in DOMAIN t.rows |->
        IF t.rows[k].id = 0 THEN last + Cardinality({j \in RowsOf(t, 0) : j <= k}) ELSE t.rows[k].id]
  OBVIOUS
<1>5. PICK f : f = [k \in DOMAIN t.rows |->
        [id |-> id[k], closed |-> t.rows[k].closed, c |-> t.rows[k].c]]
  OBVIOUS
<1>6. ASSUME NEW k \in DOMAIN t.rows
      PROVE  f[k] = [id |-> id[k], closed |-> t.rows[k].closed, c |-> t.rows[k].c]
  BY <1>5
<1>7. ASSUME NEW k \in DOMAIN t.rows PROVE Twin(f[k], t.rows[k])
  <2>1. PICK r : r = t.rows[k] OBVIOUS
  <2>2. RowOK(r, stays) BY <2>1 DEF LedgerOK
  <2>3. r.closed \in BOOLEAN BY <2>2 DEF RowOK, Row
  <2>4. PICK b \in BOOLEAN : b = r.closed BY <2>3
  <2>5. f[k] = [id |-> id[k], closed |-> b, c |-> r.c] BY <1>6, <2>1, <2>4
  <2>6. f[k].closed = b /\ f[k].c = r.c BY <2>5
  <2>7. QED BY <2>1, <2>4, <2>6 DEF Twin
<1>8. PICK I : I = RowsOf(t, 0) OBVIOUS
<1>9. I \in SUBSET DOMAIN t.rows /\ \A k \in DOMAIN t.rows : k \in I <=> t.rows[k].id = 0
  BY <1>8 DEF RowsOf
<1>10. Written(t) = U \cup {f[k] : k \in I}
  <2>1. \A k \in I : id[k] = last + Cardinality({j \in RowsOf(t, 0) : j <= k}) BY <1>4, <1>9
  <2>2. \A k \in I : f[k] = [id |-> last + Cardinality({j \in RowsOf(t, 0) : j <= k}),
                             closed |-> t.rows[k].closed, c |-> t.rows[k].c]
    BY <1>6, <1>9, <2>1
  <2>3. PICK N : N = {f[k] : k \in I} OBVIOUS
  <2>4. InsertStays(U, t) = U \cup N
    <3>1. PICK added : added = {[id |-> last + Cardinality({j \in RowsOf(t, 0) : j <= k}),
                                closed |-> t.rows[k].closed, c |-> t.rows[k].c] : k \in I}
      OBVIOUS
    <3>2. InsertStays(U, t) = U \cup added BY <1>3, <1>8, <3>1, Zenon DEF InsertStays
    <3>3. added = N BY <2>2, <2>3, <3>1, Zenon
    <3>4. QED BY <3>2, <3>3, Zenon
  <2>5. QED BY <1>1, <1>2, <2>3, <2>4 DEF Written
<1>11. ASSUME NEW s \in D
       PROVE  \E k \in DOMAIN t.rows :
                /\ t.rows[k].id = s.id /\ RowsOf(t, s.id) # {}
                /\ UpdateDerivedStay(s, t.rows[CHOOSE j \in RowsOf(t, s.id) : TRUE]) = f[k]
                /\ k \notin I
  <2>1. PICK k \in DOMAIN t.rows :
          /\ RowsOf(t, s.id) # {} /\ t.rows[k].id = s.id
          /\ UpdateDerivedStay(s, t.rows[CHOOSE j \in RowsOf(t, s.id) : TRUE])
               = [id |-> s.id, closed |-> t.rows[k].closed, c |-> t.rows[k].c]
    BY <1>1, UpdatedOK
  <2>2. s.id # 0
    <3>1. s \in stays BY <1>1 DEF DeleteDerivedStays
    <3>2. QED BY <3>1 DEF StaysOK, IsStored
  <2>3. id[k] = s.id BY <1>4, <2>1, <2>2
  <2>4. f[k] = [id |-> s.id, closed |-> t.rows[k].closed, c |-> t.rows[k].c] BY <1>6, <2>3
  <2>5. k \notin I BY <1>9, <2>1, <2>2
  <2>6. QED BY <2>1, <2>4, <2>5
<1>12. PICK g : g = [s \in D |->
         IF RowsOf(t, s.id) = {} THEN s
         ELSE UpdateDerivedStay(s, t.rows[CHOOSE k \in RowsOf(t, s.id) : TRUE])]
  OBVIOUS
<1>13. U = {g[s] : s \in D} BY <1>2, <1>12 DEF UpdateDerivedStays
<1>14. ASSUME NEW s \in D
       PROVE  \E k \in DOMAIN t.rows : t.rows[k].id = s.id /\ g[s] = f[k] /\ k \notin I
  BY <1>11, <1>12
<1>15. ASSUME NEW k \in DOMAIN t.rows, k \notin I PROVE f[k] \in U
  <2>1. t.rows[k].id # 0 BY <1>9, <1>15
  <2>2. IsOf(t.rows[k], stays) BY <2>1, Zenon DEF StoredKept, OneRowEach
  <2>3. PICK s \in stays : s.id = t.rows[k].id BY <2>2 DEF IsOf
  <2>4. \A j \in DOMAIN t.removed : t.rows[k].id # t.removed[j].id
    BY Zenon DEF StoredKept, OneRowEach
  <2>5. s \in D BY <1>1, <2>3, <2>4 DEF DeleteDerivedStays
  <2>6. PICK j \in DOMAIN t.rows : t.rows[j].id = s.id /\ g[s] = f[j] BY <1>14, <2>5
  <2>7. j = k
    <3>1. t.rows[j].id = t.rows[k].id BY <2>3, <2>6
    <3>2. j = k \/ t.rows[j].id = 0 BY <3>1, Zenon DEF StoredKept, OneRowEach
    <3>3. QED BY <2>1, <3>1, <3>2
  <2>8. QED BY <1>13, <2>5, <2>6, <2>7
<1>16. Written(t) = {f[k] : k \in DOMAIN t.rows}
  <2>1. \A s \in D : \E k \in DOMAIN t.rows : g[s] = f[k] BY <1>14
  <2>2. U \subseteq {f[k] : k \in DOMAIN t.rows} BY <1>13, <2>1
  <2>3. \A k \in DOMAIN t.rows : f[k] \in U \cup {f[j] : j \in I} BY <1>15
  <2>4. QED BY <1>9, <1>10, <2>2, <2>3
<1>17. QED BY <1>7, <1>16

\* So the table says what the ledger said.
LEMMA WrittenSame ==
  ASSUME StaysOK(stays), NEW t, LedgerOK(t, stays), StoredKept(t, stays), OneEndEach(t.rows)
  PROVE  SameStays(Written(t), t.rows) /\ EndOnce(Written(t))
<1>1. PICK f : /\ Written(t) = {f[k] : k \in DOMAIN t.rows}
               /\ \A k \in DOMAIN t.rows : Twin(f[k], t.rows[k])
  BY WrittenRows
<1>2. SameStays(Written(t), t.rows) BY <1>1 DEF SameStays
<1>3. ASSUME NEW j \in DOMAIN t.rows, NEW k \in DOMAIN t.rows, f[j].c.end = f[k].c.end
      PROVE  f[j] = f[k]
  <2>1. t.rows[j].c.end = t.rows[k].c.end BY <1>1, <1>3 DEF Twin
  <2>2. j = k BY <2>1 DEF OneEndEach
  <2>3. QED BY <2>2
<1>4. EndOnce(Written(t)) BY <1>1, <1>3 DEF EndOnce
<1>5. QED BY <1>2, <1>4

\* The ledger over a table that says what a tracker says is like the tracker, when nothing waits.
LEMMA LedgerAlike ==
  ASSUME StaysOK(stays), ~ IdsRestarted, EndOnce(stays),
         NEW u, SameStays(stays, u.rows), OneEndEach(u.rows), OpenEndsLast(u), NoRow \notin DOMAIN u.rows,
         u.open # NoRow => u.open \in DOMAIN u.rows, u.pending = NoDwell
  PROVE  Alike(Ledger, u) /\ OneEndEach(Ledger.rows)
<1>1. PICK d : d = ListStays OBVIOUS
<1>2. /\ DOMAIN d \in SUBSET (Nat \ {0}) /\ IsFiniteSet(DOMAIN d)
      /\ \A k \in DOMAIN d : d[k] \in stays
      /\ \A j, k \in DOMAIN d : d[j] = d[k] => j = k
      /\ \A r \in stays : \E k \in DOMAIN d : d[k] = r
  BY <1>1, ListStaysOK
<1>3. PICK S : S = {k \in DOMAIN d : ~ d[k].closed} OBVIOUS
<1>4. PICK open : open = LastOf(S) OBVIOUS
<1>5. PICK l : l = Ledger OBVIOUS
<1>6. l = StayLedger(d, open) BY <1>1, <1>3, <1>4, <1>5 DEF Ledger
<1>7. /\ l.rows = [k \in DOMAIN d |-> [id |-> d[k].id, closed |-> k # open, c |-> d[k].c]]
      /\ l.open = open /\ l.pending = NoDwell
  BY <1>6 DEF StayLedger
<1>8. DOMAIN l.rows = DOMAIN d BY <1>7
<1>9. \A k \in DOMAIN d : d[k].closed \in BOOLEAN BY <1>2 DEF StaysOK, IsStored, Row
<1>10. S \in SUBSET DOMAIN d /\ S \in SUBSET Nat /\ IsFiniteSet(S)
  <2>1. S \in SUBSET DOMAIN d BY <1>3
  <2>2. QED BY <1>2, <2>1, FS_Subset
<1>11. open \in S \cup {0} /\ (S # {} => open \in S) BY <1>4, <1>10, LastOfNaturals
<1>12. ASSUME NEW k \in S PROVE u.open # NoRow /\ Twin(d[k], u.rows[u.open])
  <2>1. d[k] \in stays /\ d[k].closed = FALSE
    <3>1. k \in DOMAIN d /\ ~ d[k].closed BY <1>3
    <3>2. d[k].closed \in BOOLEAN BY <1>9, <3>1
    <3>3. d[k].closed = FALSE BY <3>1, <3>2
    <3>4. QED BY <1>2, <3>1, <3>3
  <2>2. PICK j \in DOMAIN u.rows : Twin(d[k], u.rows[j]) BY <2>1 DEF SameStays
  <2>3. u.rows[j].closed = FALSE BY <2>1, <2>2 DEF Twin
  <2>4. j = u.open BY <2>3 DEF OpenEndsLast
  <2>5. QED BY <2>2, <2>4
<1>13. ASSUME NEW j \in S, NEW k \in S PROVE j = k
  <2>1. d[j].c = u.rows[u.open].c /\ d[k].c = u.rows[u.open].c BY <1>12 DEF Twin
  <2>2. d[j] \in stays /\ d[k] \in stays /\ d[j].c.end = d[k].c.end BY <1>2, <1>10, <2>1
  <2>3. d[j] = d[k] BY <2>2 DEF EndOnce
  <2>4. QED BY <1>2, <1>10, <2>3
<1>14. ASSUME NEW k \in DOMAIN d PROVE Twin(l.rows[k], d[k])
  <2>1. PICK b \in BOOLEAN : b = (k # open) OBVIOUS
  <2>2. l.rows[k] = [id |-> d[k].id, closed |-> b, c |-> d[k].c] BY <1>7, <2>1
  <2>3. l.rows[k].closed = b /\ l.rows[k].c = d[k].c BY <2>2
  <2>4. k \in S <=> k = open
    <3>1. k \in S => k = open BY <1>11, <1>13
    <3>2. k # 0 BY <1>2
    <3>3. k = open => k \in S BY <1>11, <3>2
    <3>4. QED BY <3>1, <3>3
  <2>5. d[k].closed = b
    <3>1. d[k].closed \in BOOLEAN BY <1>9
    <3>2. k \in S <=> ~ d[k].closed BY <1>3
    <3>3. QED BY <2>1, <2>4, <3>1, <3>2
  <2>6. QED BY <2>3, <2>5 DEF Twin
<1>15. SameRows(l.rows, u.rows)
  <2>1. ASSUME NEW k \in DOMAIN d PROVE \E j \in DOMAIN u.rows : Twin(l.rows[k], u.rows[j])
    <3>1. d[k] \in stays BY <1>2
    <3>2. PICK j \in DOMAIN u.rows : Twin(d[k], u.rows[j]) BY <3>1 DEF SameStays
    <3>3. QED BY <1>14, <3>2 DEF Twin
  <2>2. ASSUME NEW j \in DOMAIN u.rows PROVE \E k \in DOMAIN d : Twin(u.rows[j], l.rows[k])
    <3>1. PICK r \in stays : Twin(r, u.rows[j]) BY DEF SameStays
    <3>2. PICK k \in DOMAIN d : d[k] = r BY <1>2
    <3>3. QED BY <1>14, <3>1, <3>2 DEF Twin
  <2>3. Covers(l.rows, u.rows) BY <1>8, <2>1 DEF Covers
  <2>4. Covers(u.rows, l.rows) BY <1>8, <2>2 DEF Covers
  <2>5. QED BY <2>3, <2>4 DEF SameRows
<1>16. OneEndEach(l.rows)
  <2>1. ASSUME NEW j \in DOMAIN d, NEW k \in DOMAIN d, l.rows[j].c.end = l.rows[k].c.end PROVE j = k
    <3>1. d[j].c.end = d[k].c.end BY <1>14, <2>1 DEF Twin
    <3>2. d[j] = d[k] BY <1>2, <3>1 DEF EndOnce
    <3>3. QED BY <1>2, <3>2
  <2>2. QED BY <1>8, <2>1 DEF OneEndEach
<1>17. open = NoRow <=> u.open = NoRow
  <2>1. open # NoRow => u.open # NoRow BY <1>11, <1>12 DEF NoRow
  <2>2. ASSUME u.open # NoRow PROVE open # NoRow
    <3>1. u.open \in DOMAIN u.rows /\ u.rows[u.open].closed = FALSE BY <2>2 DEF OpenEndsLast
    <3>2. PICK r \in stays : Twin(r, u.rows[u.open]) BY <3>1 DEF SameStays
    <3>3. PICK k \in DOMAIN d : d[k] = r BY <1>2
    <3>4. d[k].closed = FALSE BY <3>1, <3>2, <3>3 DEF Twin
    <3>5. k \in S BY <1>3, <3>4
    <3>6. open \in S BY <1>11, <3>5
    <3>7. QED BY <1>2, <1>10, <3>6 DEF NoRow
  <2>3. QED BY <2>1, <2>2
<1>18. ASSUME open # NoRow PROVE Twin(l.rows[open], u.rows[u.open])
  <2>1. open \in S /\ open \in DOMAIN d BY <1>10, <1>11, <1>18 DEF NoRow
  <2>2. QED BY <1>12, <1>14, <2>1 DEF Twin
<1>19. Alike(l, u) BY <1>7, <1>15, <1>17, <1>18 DEF Alike
<1>20. QED BY <1>5, <1>16, <1>19

\* A tracker like one in order, with one row for every end, is in order.
LEMMA SortedTwin ==
  ASSUME NEW old, NEW t, NEW V, IsRunning(t, old, V), NEW u, Alike(t, u), OneEndEach(u.rows),
         u.open # NoRow => u.open \in DOMAIN u.rows,
         NEW l, NEW a, NEW b, Sorted(t, l, a, b, V)
  PROVE  Sorted(u, l, a, b, V)
<1>1. /\ a \in Nat /\ b \in Nat /\ a <= b /\ b <= Len(l)
      /\ EndsBy(t.rows, l, a) /\ OneEndEach(t.rows) /\ OpenEndsLast(t) /\ (t.open # NoRow => a = b)
      /\ PendingIs(t.pending, l, a, b, V)
  BY DEF Sorted
<1>2. /\ Covers(u.rows, t.rows) /\ t.pending = u.pending /\ (t.open = NoRow <=> u.open = NoRow)
      /\ t.open # NoRow => Twin(t.rows[t.open], u.rows[u.open])
  BY DEF Alike, SameRows
<1>3. /\ NoRow \notin DOMAIN t.rows /\ (t.open # NoRow => t.open \in DOMAIN t.rows)
  <2>1. LedgerOK(t, old) /\ OpenOK(t, {}) BY DEF IsRunning, Good
  <2>2. QED BY <2>1, NoRowIsNoKey DEF OpenOK
<1>4. EndsBy(u.rows, l, a)
  <2>1. ASSUME NEW k \in DOMAIN u.rows PROVE \E i \in 1 .. a : u.rows[k].c.end <= l[i].ts
    <3>1. PICK j \in DOMAIN t.rows : Twin(u.rows[k], t.rows[j]) BY <1>2 DEF Covers
    <3>2. PICK i \in 1 .. a : t.rows[j].c.end <= l[i].ts BY <1>1 DEF EndsBy
    <3>3. QED BY <3>1, <3>2 DEF Twin
  <2>2. QED BY <2>1 DEF EndsBy
<1>5. ASSUME NEW k \in DOMAIN u.rows \ {u.open}
      PROVE  \E j \in DOMAIN t.rows \ {t.open} : Twin(u.rows[k], t.rows[j])
  <2>1. PICK j \in DOMAIN t.rows : Twin(u.rows[k], t.rows[j]) BY <1>2 DEF Covers
  <2>2. ASSUME j = t.open PROVE FALSE
    <3>1. t.open # NoRow BY <1>3, <2>2
    <3>2. u.open \in DOMAIN u.rows /\ u.rows[u.open].c = u.rows[k].c
      BY <1>2, <2>1, <2>2, <3>1 DEF Twin
    <3>3. QED BY <3>2 DEF OneEndEach
  <2>3. QED BY <2>1, <2>2
<1>6. OpenEndsLast(u)
  <2>1. \A k \in DOMAIN u.rows \ {u.open} : u.rows[k].closed = TRUE
    BY <1>1, <1>5 DEF OpenEndsLast, Twin
  <2>2. ASSUME u.open # NoRow
        PROVE  /\ u.rows[u.open].closed = FALSE
               /\ \A k \in DOMAIN u.rows \ {u.open} : u.rows[k].c.end < u.rows[u.open].c.end
    <3>1. t.open # NoRow /\ u.rows[u.open].c = t.rows[t.open].c
          /\ u.rows[u.open].closed = t.rows[t.open].closed
      BY <1>2, <2>2 DEF Twin
    <3>2. /\ t.rows[t.open].closed = FALSE
          /\ \A j \in DOMAIN t.rows \ {t.open} : t.rows[j].c.end < t.rows[t.open].c.end
      BY <1>1, <3>1 DEF OpenEndsLast
    <3>3. QED BY <1>5, <3>1, <3>2 DEF Twin
  <2>3. QED BY <2>1, <2>2 DEF OpenEndsLast
<1>7. QED BY <1>1, <1>2, <1>4, <1>6 DEF Sorted

\* From one number to another the fixes of a list are fed in turn.
FedOn(h, l, a, b, V) == \A n \in a + 1 .. b : h[n] = Feed(h[n - 1], l[n], V)

\* Two trackers that are alike stay so while they are fed the same fixes in order.
LEMMA AlikeToTheEnd ==
  ASSUME NEW old, NEW V, NEW l, Ordered(l), NEW m \in 0 .. Len(l), NEW h,
         IsRunning(h[m], old, V), Alike(h[m], FedUpTo(l, V, m)), \E a : Sorted(h[m], l, a, m, V),
         FedOn(h, l, m, Len(l), V)
  PROVE  /\ IsRunning(h[Len(l)], old, V) /\ Alike(h[Len(l)], FedUpTo(l, V, Len(l)))
         /\ \E a : Sorted(h[Len(l)], l, a, Len(l), V)
<1>1. l \in Seq(Fix) /\ Len(l) \in Nat BY DEF Ordered
<1> DEFINE g(k) == FedUpTo(l, V, k)
           OK(k) == /\ IsRunning(h[k], old, V) /\ Alike(h[k], g(k))
                    /\ \E a : Sorted(h[k], l, a, k, V)
           Bad == {k \in m .. Len(l) : ~ OK(k)}
<1>2. \A k \in 1 .. Len(l) : g(k) = Feed(g(k - 1), l[k], V) BY <1>1, FedOneByOne
<1>3. OK(m) OBVIOUS
<1>4. Bad = {}
  <2>1. SUFFICES ASSUME Bad # {} PROVE FALSE OBVIOUS
  <2>2. PICK n \in Bad : \A k \in Bad : n <= k
    <3>1. Bad \in SUBSET Nat BY <1>1
    <3> HIDE DEF Bad
    <3>2. QED BY <2>1, <3>1, HasLeast
  <2>3. n \in m .. Len(l) /\ ~ OK(n) OBVIOUS
  <2>4. n # m
    <3> HIDE DEF OK
    <3>1. QED BY <1>3, <2>3
  <2>5. PICK k : k = n - 1 OBVIOUS
  <2>6. /\ k \in Nat /\ k \in 0 .. Len(l) /\ k \in m .. Len(l) /\ ~ (n <= k) /\ k < Len(l)
        /\ n = k + 1 /\ n \in m + 1 .. Len(l) /\ n \in 1 .. Len(l)
    BY <1>1, <2>3, <2>4, <2>5
  <2>7. OK(k)
    <3>1. k \notin Bad
      <4> HIDE DEF Bad
      <4>1. QED BY <2>2, <2>6
    <3> HIDE DEF OK
    <3>2. QED BY <2>6, <3>1
  <2>8. PICK t : t = h[k] OBVIOUS
  <2>9. PICK u : u = g(k) OBVIOUS
  <2>10. h[n] = Feed(t, l[k + 1], V) BY <2>5, <2>6, <2>8 DEF FedOn
  <2>11. g(n) = Feed(u, l[k + 1], V) BY <1>2, <2>5, <2>6, <2>9
  <2>12. PICK a : Sorted(t, l, a, k, V) BY <2>7, <2>8
  <2>13. IsRunning(t, old, V) /\ Alike(t, u) BY <2>7, <2>8, <2>9
  <2>14. PICK b : IsRunning(u, {}, V) /\ Sorted(u, l, b, k, V) BY <2>6, <2>9, AtOnceSorted
  <2> HIDE DEF g, OK, Bad
  <2>15. Alike(h[n], g(n)) BY <2>6, <2>10, <2>11, <2>12, <2>13, <2>14, FedTwin
  <2>16. IsRunning(Feed(t, l[k + 1], V), old, V) /\ \E i : Sorted(Feed(t, l[k + 1], V), l, i, k + 1, V)
    BY <2>6, <2>12, <2>13, FedSorted
  <2>17. IsRunning(h[n], old, V) /\ \E i : Sorted(h[n], l, i, n, V) BY <2>6, <2>10, <2>16
  <2>18. QED BY <2>3, <2>15, <2>17 DEF OK
<1>5. OK(Len(l))
  <2> HIDE DEF OK
  <2>1. Len(l) \in m .. Len(l) BY <1>1
  <2>2. QED BY <1>4, <2>1
<1>6. QED BY <1>5

\* A dwell that waited is there again once its stretch of the log is fed again.
LEMMA DwellIsBack ==
  ASSUME NEW t, IsTracker(t), t.open = NoRow, t.pending = NoDwell, NEW p, IsDwell(p, Fix),
         p.members # <<>>, NEW V, Builds(p, V), NEW a \in Nat, NEW h, h[a] = t
  PROVE  \A l : \A b \in Nat :
           IsStretch(p.members, l, a, b) /\ FedOn(h, l, a, b, V) => h[b] = [t EXCEPT !.pending = p]
<1>1. ASSUME NEW l, NEW b \in Nat, IsStretch(p.members, l, a, b), FedOn(h, l, a, b, V)
      PROVE  h[b] = [t EXCEPT !.pending = p]
  <2>1. PICK q : q = p.members OBVIOUS
  <2>2. Len(q) = b - a /\ Len(q) \in Nat /\ \A i \in 1 .. Len(q) : q[i] = l[a + i]
    BY <1>1, <2>1 DEF IsStretch
  <2>3. ASSUME NEW i \in 1 .. Len(q) PROVE h[a + i] = Feed(h[(a + i) - 1], q[i], V)
    <3>1. a + i \in a + 1 .. b BY <2>2
    <3>2. h[a + i] = Feed(h[(a + i) - 1], l[a + i], V) BY <1>1, <3>1 DEF FedOn
    <3>3. QED BY <2>2, <3>2
  <2>4. \A i \in 1 .. Len(p.members) : h[a + i] = Feed(h[(a + i) - 1], p.members[i], V)
    BY <2>1, <2>3
  <2>5. h[a + Len(p.members)] = [t EXCEPT !.pending = p] BY <2>4, FoundAgain, SMT
  <2>6. a + Len(q) = b BY <2>2
  <2>7. QED BY <2>1, <2>5, <2>6
<1>2. QED BY <1>1

\* A tracker like the one that was fed all the fixes, but for the dwell that waited, finds that
\* dwell again and is like the other from there on.
LEMMA Refed ==
  ASSUME NEW old, NEW t, NEW V, IsRunning(t, old, V), t.pending = NoDwell, OneEndEach(t.rows),
         NEW l, Ordered(l), NEW b \in 0 .. Len(l), NEW a, Sorted(FedUpTo(l, V, b), l, a, b, V),
         Alike(t, [FedUpTo(l, V, b) EXCEPT !.pending = NoDwell]),
         NEW h, h[a] = t, FedOn(h, l, a, Len(l), V)
  PROVE  /\ IsRunning(h[Len(l)], old, V) /\ Alike(h[Len(l)], FedUpTo(l, V, Len(l)))
         /\ \E i : Sorted(h[Len(l)], l, i, Len(l), V)
<1>1. l \in Seq(Fix) /\ Len(l) \in Nat BY DEF Ordered
<1>2. PICK u : u = FedUpTo(l, V, b) OBVIOUS
<1>3. IsRunning(u, {}, V) BY <1>2, AtOnceSorted
<1>4. PICK p : p = u.pending OBVIOUS
<1>5. a \in Nat /\ b \in Nat /\ a <= b /\ (u.open # NoRow => a = b) /\ PendingIs(p, l, a, b, V)
  BY <1>2, <1>4 DEF Sorted
<1>6. IsTracker(t) /\ IsTracker(u) /\ IsDwell(p, Fix) /\ OpenOK(t, {})
  BY <1>3, <1>4 DEF IsRunning, Good, LedgerOK
<1>7. /\ SameRows(t.rows, u.rows) /\ (t.open = NoRow <=> u.open = NoRow)
      /\ t.open # NoRow => Twin(t.rows[t.open], u.rows[u.open])
  <2>1. PICK w : w = [u EXCEPT !.pending = NoDwell] OBVIOUS
  <2>2. w.rows = u.rows /\ w.open = u.open BY <1>6, <2>1 DEF IsTracker
  <2>3. Alike(t, w) BY <1>2, <2>1
  <2>4. QED BY <2>2, <2>3 DEF Alike
<1>8. PICK x : x = [t EXCEPT !.pending = p] OBVIOUS
<1>9. /\ IsRunning(x, old, V)
      /\ x.pending = p /\ x.rows = t.rows /\ x.open = t.open
  <2>1. Good(t, old, Fix, V, {}, {}) /\ IdsPositive(old) BY DEF IsRunning
  <2>2. Good(x, old, Fix, V, {}, {}) /\ x.pending = p /\ x.rows = t.rows /\ x.open = t.open
    BY <1>6, <1>8, <2>1, SetPendingGood
  <2>3. QED BY <2>1, <2>2 DEF IsRunning
<1>10. Alike(x, u) BY <1>4, <1>7, <1>9 DEF Alike
<1>11. Sorted(x, l, a, b, V)
  <2>1. SameRows(u.rows, x.rows) BY <1>10 DEF Alike, SameRows
  <2>2. Alike(u, x) BY <1>10, <2>1 DEF Alike, Twin
  <2>3. x.open # NoRow => x.open \in DOMAIN x.rows BY <1>6, <1>9 DEF OpenOK
  <2>4. OneEndEach(x.rows) BY <1>9
  <2>5. QED BY <1>2, <1>3, <2>2, <2>3, <2>4, SortedTwin
<1>12. h[b] = x
  <2>1. PICK q : q = p.members OBVIOUS
  <2>2. IsStretch(q, l, a, b) BY <1>5, <2>1 DEF PendingIs
  <2>3. q \in Seq(Fix) /\ Len(q) = b - a /\ \A i \in 1 .. Len(q) : q[i] = l[a + i]
    BY <2>2 DEF IsStretch
  <2>4. q = <<>> <=> a = b BY <1>5, <2>2, StretchEmpty
  <2>5. CASE q = <<>>
    <3>1. p = NoDwell /\ a = b BY <1>5, <2>1, <2>4, <2>5 DEF PendingIs
    <3>2. x = t
      <4>1. t = [rows |-> t.rows, removed |-> t.removed, open |-> t.open, pending |-> NoDwell,
                 fresh |-> t.fresh]
        BY <1>6 DEF IsTracker
      <4>2. QED BY <1>8, <3>1, <4>1
    <3>3. QED BY <3>1, <3>2
  <2>6. CASE q # <<>>
    <3>1. t.open = NoRow BY <1>5, <1>7, <2>4, <2>6
    <3>2. Builds(p, V) BY <1>5, <2>1, <2>6 DEF PendingIs
    <3>3. IsStretch(p.members, l, a, b) /\ p.members # <<>> BY <2>1, <2>2, <2>6
    <3>4. IsTracker(t) /\ IsDwell(p, Fix) /\ h[a] = t BY <1>6
    <3>5. FedOn(h, l, a, b, V)
      <4>1. \A n \in a + 1 .. b : n \in a + 1 .. Len(l) BY <1>1, <1>5
      <4>2. QED BY <4>1 DEF FedOn
    <3>6. a \in Nat /\ b \in Nat BY <1>5
    <3>7. h[b] = [t EXCEPT !.pending = p]
      BY <3>1, <3>2, <3>3, <3>4, <3>5, <3>6, DwellIsBack
    <3>8. QED BY <1>8, <3>7
  <2>7. QED BY <2>5, <2>6
<1>13. FedOn(h, l, b, Len(l), V)
  <2>1. \A n \in b + 1 .. Len(l) : n \in a + 1 .. Len(l) BY <1>1, <1>5
  <2>2. QED BY <2>1 DEF FedOn
<1>14. IsRunning(h[b], old, V) /\ Alike(h[b], FedUpTo(l, V, b)) /\ \E i : Sorted(h[b], l, i, b, V)
  BY <1>2, <1>9, <1>10, <1>11, <1>12
<1>15. QED BY <1>13, <1>14, AlikeToTheEnd

\* A table of fixes that holds the log, each fix under its place in it.
HoldsLog(S, l) == S = {l[i] : i \in DOMAIN l} /\ \A i \in DOMAIN l : l[i].id = i

\* A run reads the rest of the log.
LEMMA RestOfLog ==
  ASSUME SamplesOK, log \in Seq(Fix), HoldsLog(samples, log), NEW c \in 0 .. Len(log)
  PROVE  LET fed == ById(AfterId(c)) IN
         /\ LatestId = Len(log)
         /\ DOMAIN fed = c + 1 .. Len(log) /\ \A i \in DOMAIN fed : fed[i] = log[i]
         /\ LastOf(DOMAIN fed) = IF c = Len(log) THEN 0 ELSE Len(log)
<1>1. /\ Len(log) \in Nat /\ DOMAIN log = 1 .. Len(log)
      /\ \A i \in 1 .. Len(log) : log[i] \in samples /\ log[i].id = i
      /\ \A s \in samples : s.id \in 1 .. Len(log) /\ s = log[s.id]
  BY DEF HoldsLog
<1>2. ASSUME NEW S \in SUBSET Nat, IsFiniteSet(S), NEW n \in S, \A i \in S : i <= n PROVE LastOf(S) = n
  <2>1. LastOf(S) \in Nat /\ LastOf(S) \in S /\ n <= LastOf(S) BY <1>2, LastOfNaturals
  <2>2. LastOf(S) <= n BY <1>2, <2>1
  <2>3. QED BY <2>1, <2>2
<1>3. ASSUME NEW S, S = {} PROVE LastOf(S) = 0
  <2>1. S \in SUBSET Nat /\ IsFiniteSet(S) BY <1>3, FS_EmptySet
  <2>2. LastOf(S) \in S \cup {0} BY <2>1, LastOfNaturals
  <2>3. QED BY <1>3, <2>2
<1>4. LatestId = Len(log)
  <2>1. PICK I : I = {s.id : s \in samples} OBVIOUS
  <2>2. I = 1 .. Len(log) BY <1>1, <2>1
  <2>3. IsFiniteSet(I) /\ I \in SUBSET Nat
    <3>1. Len(log) \in Int /\ 1 \in Int BY <1>1
    <3>2. IsFiniteSet(1 .. Len(log)) BY <3>1, FS_Interval, Zenon
    <3>3. QED BY <2>2, <3>2
  <2>4. LastOf(I) = Len(log)
    <3>1. CASE Len(log) = 0
      <4>1. I = {} BY <1>1, <2>2, <3>1
      <4>2. QED BY <1>3, <3>1, <4>1
    <3>2. CASE Len(log) # 0
      <4>1. Len(log) \in I /\ \A i \in I : i <= Len(log) BY <1>1, <2>2, <3>2
      <4>2. QED BY <1>2, <2>3, <4>1
    <3>3. QED BY <3>1, <3>2
  <2>5. QED BY <2>1, <2>4 DEF LatestId, Ids
<1>5. PICK F : F = AfterId(c) OBVIOUS
<1>6. F = {s \in samples : s.id > c} BY <1>5 DEF AfterId
<1>7. PICK fed : fed = ById(F) OBVIOUS
<1>8. DOMAIN fed = {s.id : s \in F} /\ \A s \in F : s.id \in DOMAIN fed /\ fed[s.id] = s
  BY <1>6, <1>7, ByIdIsList
<1>9. DOMAIN fed = c + 1 .. Len(log)
  <2>1. \A i \in c + 1 .. Len(log) : i \in DOMAIN fed
    <3>1. ASSUME NEW i \in c + 1 .. Len(log) PROVE i \in DOMAIN fed
      <4>1. i \in 1 .. Len(log) /\ i > c BY <1>1
      <4>2. log[i] \in F /\ log[i].id = i BY <1>1, <1>6, <4>1
      <4>3. QED BY <1>8, <4>2
    <3>2. QED BY <3>1
  <2>2. \A s \in F : s.id \in c + 1 .. Len(log)
    <3>1. \A s \in F : s.id \in 1 .. Len(log) /\ s.id > c BY <1>1, <1>6
    <3>2. QED BY <1>1, <3>1
  <2>3. QED BY <1>8, <2>1, <2>2
<1>10. \A i \in DOMAIN fed : fed[i] = log[i]
  <2>1. \A s \in F : s = log[s.id] BY <1>1, <1>6
  <2>2. QED BY <1>8, <2>1
<1>11. LastOf(DOMAIN fed) = IF c = Len(log) THEN 0 ELSE Len(log)
  <2>1. PICK S : S = DOMAIN fed OBVIOUS
  <2>2. CASE c = Len(log)
    <3>1. S = {} BY <1>1, <1>9, <2>1, <2>2
    <3>2. QED BY <1>3, <2>1, <2>2, <3>1
  <2>3. CASE c # Len(log)
    <3>1. S = c + 1 .. Len(log) BY <1>9, <2>1
    <3>2. Len(log) \in S /\ \A i \in S : i <= Len(log) BY <1>1, <2>3, <3>1
    <3>3. IsFiniteSet(S) /\ S \in SUBSET Nat
      <4>1. c + 1 \in Int /\ Len(log) \in Int BY <1>1
      <4>2. IsFiniteSet(S) BY <3>1, <4>1, FS_Interval
      <4>3. S \in SUBSET Nat BY <1>1, <3>1
      <4>4. QED BY <4>2, <4>3
    <3>4. LastOf(S) = Len(log) BY <1>2, <3>2, <3>3
    <3>5. QED BY <2>1, <2>3, <3>4
  <2>4. QED BY <2>2, <2>3
<1>12. QED BY <1>4, <1>5, <1>7, <1>9, <1>10, <1>11

\* When no visit claims a stored stay a run begins with the ledger as it is stored.
LEMMA NothingCovered ==
  ASSUME StoreOK, IsClear(stays, Covering)
  PROVE  /\ ~ IdsRestarted /\ Reconciled = [t |-> Ledger, cursor |-> cursor]
         /\ IsRunning(Ledger, stays, Covering) /\ Ledger.pending = NoDwell
<1>1. PICK l : l = Ledger OBVIOUS
<1>2. SamplesOK /\ StaysOK(stays) /\ IdsPositive(stays) /\ cursor \in Nat /\ cursor <= LatestId
  BY StoredIdsPositive DEF StoreOK, CursorOK
<1>3. ~ IdsRestarted
  <2>1. LatestId \in Nat BY <1>2, LatestIdNat
  <2>2. QED BY <1>2, <2>1 DEF IdsRestarted
<1>4. /\ Good(l, stays, Fix, Covering, Covered(l), {}) /\ l.pending = NoDwell
      /\ DOMAIN l.rows \in SUBSET Nat /\ IsFiniteSet(DOMAIN l.rows)
  BY <1>1, <1>2, LedgerGood DEF Covered
<1>5. Covered(l) = {}
  <2>1. PICK d : d = ListStays OBVIOUS
  <2>2. \A k \in DOMAIN d : d[k] \in stays BY <1>2, <2>1, ListStaysOK
  <2>3. PICK open : l = StayLedger(d, open) BY <1>1, <2>1 DEF Ledger
  <2>4. l.rows = [k \in DOMAIN d |-> [id |-> d[k].id, closed |-> k # open, c |-> d[k].c]]
    BY <2>3 DEF StayLedger
  <2>5. ASSUME NEW k \in DOMAIN l.rows PROVE ~ OverlapsVisit(l.rows[k].c, Covering)
    <3>1. k \in DOMAIN d BY <2>4
    <3>2. PICK b : b = (k # open) OBVIOUS
    <3>3. l.rows[k] = [id |-> d[k].id, closed |-> b, c |-> d[k].c] BY <2>4, <3>1, <3>2
    <3>4. l.rows[k].c = d[k].c BY <3>3
    <3>5. ~ OverlapsVisit(d[k].c, Covering) BY <2>2, <3>1, Zenon DEF IsClear
    <3>6. QED BY <3>4, <3>5
  <2>6. QED BY <2>5 DEF Covered
<1>6. Reconciled = [t |-> l, cursor |-> cursor]
  <2>1. PICK top : top = LastOf(DOMAIN l.rows) OBVIOUS
  <2>2. top \in Nat BY <1>4, <2>1, LastOfNaturals
  <2>3. PICK g : g = Reconciling(l) OBVIOUS
  <2>4. PICK w : w = [t |-> l, cursor |-> cursor] OBVIOUS
  <2>5. g[0] = w /\ \A n \in 1 .. top : g[n] = g[n - 1]
    <3>1. g[0] = [t |-> l, cursor |-> IF IdsRestarted THEN 0 ELSE cursor]
          /\ \A n \in 1 .. top :
               g[n] = (IF n \in Covered(l) THEN Reconcile(g[n - 1], n) ELSE g[n - 1])
      BY <2>1, <2>2, <2>3, ReconcilingRounds
    <3>2. QED BY <1>3, <1>5, <2>4, <3>1
  <2> DEFINE Bad == {n \in 0 .. top : g[n] # w}
  <2>6. Bad = {}
    <3>1. SUFFICES ASSUME Bad # {} PROVE FALSE OBVIOUS
    <3>2. PICK m \in Bad : \A k \in Bad : m <= k
      <4>1. Bad \in SUBSET Nat BY <2>2
      <4> HIDE DEF Bad
      <4>2. QED BY <3>1, <4>1, HasLeast
    <3>3. m \in 0 .. top /\ g[m] # w OBVIOUS
    <3>4. m # 0 BY <2>5, <3>3
    <3>5. m - 1 \in 0 .. top /\ m \in 1 .. top /\ ~ (m <= m - 1) BY <2>2, <3>3, <3>4
    <3>6. m - 1 \notin Bad
      <4> HIDE DEF Bad
      <4>1. QED BY <3>2, <3>5
    <3>7. g[m - 1] = w BY <3>5, <3>6
    <3>8. QED BY <2>5, <3>3, <3>5, <3>7
  <2>7. g[top] = w
    <3>1. top \in 0 .. top BY <2>2
    <3>2. QED BY <2>6, <3>1
  <2>8. QED BY <1>1, <2>1, <2>3, <2>4, <2>7 DEF Reconciled
<1>7. IsRunning(l, stays, Covering) BY <1>2, <1>4, <1>5 DEF IsRunning
<1>8. QED BY <1>1, <1>3, <1>4, <1>6, <1>7

\* The table between two runs, as long as the clock was kept and no history was changed behind a
\* run: the stays are those of the fixes derived so far at once, and the cursor is before the
\* dwell that waits.
IsSplitOf(S, table, from, l, n, V) ==
  /\ HoldsLog(S, l) /\ n \in 0 .. Len(l)
  /\ IsClear(table, V) /\ EndOnce(table) /\ SameStays(table, FedUpTo(l, V, n).rows)
  /\ Sorted(FedUpTo(l, V, n), l, from, n, V)

IsSplit == IsSplitOf(samples, stays, cursor, log, upTo, Covering)

\* The tracker of the next run ends like one that was fed the whole log.
LEMMA RunIsAlike ==
  ASSUME StoreOK, Ordered(log), IsSplit
  PROVE  LET t == FeedAll(Ledger, ById(AfterId(cursor)), Covering) IN
         /\ IsRunning(t, stays, Covering) /\ Alike(t, FedUpTo(log, Covering, Len(log)))
         /\ \E a : Sorted(t, log, a, Len(log), Covering)
<1>1. log \in Seq(Fix) /\ Len(log) \in Nat BY DEF Ordered
<1>2. HoldsLog(samples, log) /\ upTo \in 0 .. Len(log) /\ IsClear(stays, Covering) /\ EndOnce(stays)
  BY DEF IsSplit, IsSplitOf
<1>3. PICK V : V = Covering OBVIOUS
<1>4. PICK u : u = FedUpTo(log, V, upTo) OBVIOUS
<1>5. SameStays(stays, u.rows) /\ Sorted(u, log, cursor, upTo, V) BY <1>3, <1>4 DEF IsSplit, IsSplitOf
<1>6. IsRunning(u, {}, V) BY <1>2, <1>4, AtOnceSorted
<1>7. PICK l : l = Ledger OBVIOUS
<1>8. ~ IdsRestarted /\ IsRunning(l, stays, V) /\ l.pending = NoDwell
  BY <1>2, <1>3, <1>7, NothingCovered
<1>9. PICK w : w = [u EXCEPT !.pending = NoDwell] OBVIOUS
<1>10. w.rows = u.rows /\ w.open = u.open /\ w.pending = NoDwell
  BY <1>6, <1>9 DEF IsRunning, Good, LedgerOK, IsTracker
<1>11. Alike(l, w) /\ OneEndEach(l.rows)
  <2>1. LedgerOK(u, {}) /\ OpenOK(u, {}) BY <1>6 DEF IsRunning, Good
  <2>2. NoRow \notin DOMAIN w.rows /\ (w.open # NoRow => w.open \in DOMAIN w.rows)
    BY <1>10, <2>1, NoRowIsNoKey DEF OpenOK
  <2>3. OneEndEach(w.rows) /\ OpenEndsLast(w)
    BY <1>5, <1>10 DEF Sorted, OpenEndsLast
  <2>4. SameStays(stays, w.rows) BY <1>5, <1>10
  <2>5. StaysOK(stays) BY DEF StoreOK
  <2>6. QED BY <1>2, <1>7, <1>8, <1>10, <2>2, <2>3, <2>4, <2>5, LedgerAlike
<1>12. cursor \in Nat /\ upTo \in Nat /\ cursor <= upTo /\ cursor \in 0 .. Len(log)
  BY <1>1, <1>2, <1>5 DEF Sorted
<1>13. PICK fed : fed = ById(AfterId(cursor)) OBVIOUS
<1>14. /\ DOMAIN fed = cursor + 1 .. Len(log) /\ \A i \in DOMAIN fed : fed[i] = log[i]
       /\ LastOf(DOMAIN fed) = IF cursor = Len(log) THEN 0 ELSE Len(log)
  BY <1>1, <1>2, <1>12, <1>13, RestOfLog DEF StoreOK
<1>15. PICK top : top = LastOf(DOMAIN fed) OBVIOUS
<1>16. top \in Nat /\ top = (IF cursor = Len(log) THEN 0 ELSE Len(log)) BY <1>1, <1>14, <1>15
<1>17. PICK g : g = FeedingAll(l, fed, V) OBVIOUS
<1>18. /\ g[0] = l
       /\ \A n \in 1 .. top : g[n] = (IF n \in DOMAIN fed THEN Feed(g[n - 1], fed[n], V) ELSE g[n - 1])
  BY <1>15, <1>16, <1>17, FeedingAllRounds
<1>19. PICK t : t = FeedAll(l, fed, V) OBVIOUS
<1>20. t = g[top] BY <1>15, <1>17, <1>19 DEF FeedAll
<1>21. \E h : h[cursor] = l /\ FedOn(h, log, cursor, Len(log), V) /\ h[Len(log)] = t
  <2>1. CASE cursor = Len(log)
    <3>1. PICK h : h = [i \in {Len(log)} |-> l] OBVIOUS
    <3>2. h[Len(log)] = l BY <3>1
    <3>3. t = l BY <1>16, <1>18, <1>20, <2>1
    <3>4. FedOn(h, log, cursor, Len(log), V) BY <1>1, <2>1 DEF FedOn
    <3>5. QED BY <2>1, <3>2, <3>3, <3>4
  <2>2. CASE cursor # Len(log)
    <3>1. top = Len(log) BY <1>16, <2>2
    <3>2. FedOn(g, log, cursor, Len(log), V)
      <4>1. \A n \in cursor + 1 .. Len(log) : n \in 1 .. top /\ n \in DOMAIN fed
        BY <1>1, <1>12, <1>14, <3>1
      <4>2. QED BY <1>14, <1>18, <4>1 DEF FedOn
    <3>3. g[cursor] = l
      <4> DEFINE Bad == {n \in 0 .. cursor : g[n] # l}
      <4>1. Bad = {}
        <5>1. SUFFICES ASSUME Bad # {} PROVE FALSE OBVIOUS
        <5>2. PICK m \in Bad : \A k \in Bad : m <= k
          <6>1. Bad \in SUBSET Nat BY <1>12
          <6> HIDE DEF Bad
          <6>2. QED BY <5>1, <6>1, HasLeast
        <5>3. m \in 0 .. cursor /\ g[m] # l OBVIOUS
        <5>4. m # 0 BY <1>18, <5>3
        <5>5. /\ m - 1 \in 0 .. cursor /\ m \in 1 .. top /\ ~ (m <= m - 1)
              /\ m \notin cursor + 1 .. Len(log)
          BY <1>1, <1>12, <3>1, <5>3, <5>4
        <5>6. m - 1 \notin Bad
          <6> HIDE DEF Bad
          <6>1. QED BY <5>2, <5>5
        <5>7. g[m - 1] = l BY <5>5, <5>6
        <5>8. g[m] = g[m - 1] BY <1>14, <1>18, <5>5
        <5>9. QED BY <5>3, <5>7, <5>8
      <4>2. cursor \in 0 .. cursor BY <1>12
      <4>3. QED BY <4>1, <4>2
    <3>4. QED BY <1>20, <3>1, <3>2, <3>3
  <2>3. QED BY <2>1, <2>2
<1>22. PICK h : h[cursor] = l /\ FedOn(h, log, cursor, Len(log), V) /\ h[Len(log)] = t BY <1>21
<1>23. Alike(l, [FedUpTo(log, V, upTo) EXCEPT !.pending = NoDwell]) BY <1>4, <1>9, <1>11
<1>24. Sorted(FedUpTo(log, V, upTo), log, cursor, upTo, V) BY <1>4, <1>5
<1>25. /\ IsRunning(h[Len(log)], stays, V) /\ Alike(h[Len(log)], FedUpTo(log, V, Len(log)))
       /\ \E i : Sorted(h[Len(log)], log, i, Len(log), V)
  BY <1>2, <1>8, <1>11, <1>22, <1>23, <1>24, Refed
<1>26. QED BY <1>3, <1>7, <1>13, <1>19, <1>22, <1>25

\* Its cursor comes before the dwell that waits.
LEMMA CursorBeforeDwell ==
  ASSUME SamplesOK, log \in Seq(Fix), HoldsLog(samples, log), NEW from \in 0 .. Len(log),
         NEW t, NEW V, NEW a, Sorted(t, log, a, Len(log), V)
  PROVE  NewCursor(from, ById(AfterId(from)), t.pending.members) = a
<1>1. PICK fed : fed = ById(AfterId(from)) OBVIOUS
<1>2. PICK q : q = t.pending.members OBVIOUS
<1>3. Len(log) \in Nat /\ a \in Nat /\ a <= Len(log) BY DEF Sorted
<1>4. IsStretch(q, log, a, Len(log)) BY <1>2 DEF Sorted, PendingIs
<1>5. /\ DOMAIN fed = from + 1 .. Len(log)
      /\ LastOf(DOMAIN fed) = IF from = Len(log) THEN 0 ELSE Len(log)
  BY <1>1, RestOfLog
<1>6. q = <<>> <=> a = Len(log) BY <1>3, <1>4, StretchEmpty
<1>7. CASE q = <<>>
  <2>1. CASE from = Len(log)
    <3>1. DOMAIN fed = {} BY <1>3, <1>5, <2>1
    <3>2. NewCursor(from, fed, q) = from BY <1>7, <3>1 DEF NewCursor
    <3>3. QED BY <1>1, <1>2, <1>6, <1>7, <2>1, <3>2
  <2>2. CASE from # Len(log)
    <3>1. Len(log) \in DOMAIN fed BY <1>3, <1>5, <2>2
    <3>2. NewCursor(from, fed, q) = LastOf(DOMAIN fed) BY <1>7, <3>1 DEF NewCursor
    <3>3. QED BY <1>1, <1>2, <1>5, <1>6, <1>7, <2>2, <3>2
  <2>3. QED BY <2>1, <2>2
<1>8. CASE q # <<>>
  <2>1. Head(q) = log[a + 1] /\ a + 1 <= Len(log) BY <1>3, <1>4, <1>8, StretchTail
  <2>2. a + 1 \in DOMAIN log BY <1>3, <2>1
  <2>3. log[a + 1].id = a + 1 BY <2>2 DEF HoldsLog
  <2>4. NewCursor(from, fed, q) = Head(q).id - 1 BY <1>8 DEF NewCursor
  <2>5. QED BY <1>1, <1>2, <1>3, <2>1, <2>3, <2>4
<1>9. QED BY <1>7, <1>8

\* So a run leaves the table as it found it, for the whole log.
LEMMA DerivedIsSplit ==
  ASSUME StoreOK, Ordered(log), IsSplit
  PROVE  LET d == DerivedStays
             u == FedUpTo(log, Covering, Len(log))
         IN /\ IsClear(d.stays, Covering) /\ EndOnce(d.stays) /\ SameStays(d.stays, u.rows)
            /\ Sorted(u, log, d.cursor, Len(log), Covering)
<1>1. log \in Seq(Fix) /\ Len(log) \in Nat BY DEF Ordered
<1>2. SamplesOK /\ StaysOK(stays) /\ HoldsLog(samples, log) /\ IsClear(stays, Covering)
  BY DEF IsSplit, IsSplitOf, StoreOK
<1>3. PICK V : V = Covering OBVIOUS
<1>4. PICK u : u = FedUpTo(log, V, Len(log)) OBVIOUS
<1>5. PICK fed : fed = ById(AfterId(cursor)) OBVIOUS
<1>6. PICK t : t = FeedAll(Ledger, fed, V) OBVIOUS
<1>7. IsRunning(t, stays, V) /\ Alike(t, u) /\ \E a : Sorted(t, log, a, Len(log), V)
  BY <1>3, <1>4, <1>5, <1>6, RunIsAlike
<1>8. PICK a : Sorted(t, log, a, Len(log), V) BY <1>7
<1>9. PICK d : d = DerivedStays OBVIOUS
<1>10. d.stays = Written(t) /\ d.cursor = NewCursor(cursor, fed, t.pending.members)
  <2>1. PICK w : w = Reconciled OBVIOUS
  <2>2. w = [t |-> Ledger, cursor |-> cursor] BY <1>2, <2>1, NothingCovered
  <2>3. w.t = Ledger /\ w.cursor = cursor BY <2>2
  <2>4. d = Outcome(cursor, fed, t)
    BY <1>3, <1>5, <1>6, <1>9, <2>1, <2>3 DEF DerivedStays, DerivedFrom
  <2>5. QED BY <2>4 DEF Outcome
<1>11. cursor \in 0 .. Len(log)
  <2>1. PICK x : x = FedUpTo(log, Covering, upTo) OBVIOUS
  <2>2. Sorted(x, log, cursor, upTo, Covering) /\ upTo \in 0 .. Len(log) BY <2>1 DEF IsSplit, IsSplitOf
  <2>3. cursor \in Nat /\ upTo \in Nat /\ cursor <= upTo BY <2>2 DEF Sorted
  <2>4. QED BY <1>1, <2>2, <2>3
<1>12. d.cursor = a BY <1>1, <1>2, <1>5, <1>8, <1>10, <1>11, CursorBeforeDwell
<1>13. Sorted(u, log, a, Len(log), V)
  <2>1. Len(log) \in 0 .. Len(log) BY <1>1
  <2>2. IsRunning(u, {}, V) /\ \E i : Sorted(u, log, i, Len(log), V) BY <1>4, <2>1, AtOnceSorted
  <2>3. OneEndEach(u.rows) BY <2>2 DEF Sorted
  <2>4. u.open # NoRow => u.open \in DOMAIN u.rows BY <2>2 DEF IsRunning, Good, OpenOK
  <2>5. QED BY <1>7, <1>8, <2>3, <2>4, SortedTwin
<1>14. SameStays(d.stays, t.rows) /\ EndOnce(d.stays)
  <2>1. LedgerOK(t, stays) /\ StoredKept(t, stays) BY <1>7 DEF IsRunning, Good
  <2>2. OneEndEach(t.rows) BY <1>8 DEF Sorted
  <2>3. QED BY <1>2, <1>10, <2>1, <2>2, WrittenSame
<1>15. SameStays(d.stays, u.rows)
  <2>1. Covers(t.rows, u.rows) /\ Covers(u.rows, t.rows) BY <1>7 DEF Alike, SameRows
  <2>2. ASSUME NEW s \in d.stays PROVE \E k \in DOMAIN u.rows : Twin(s, u.rows[k])
    <3>1. PICK j \in DOMAIN t.rows : Twin(s, t.rows[j]) BY <1>14 DEF SameStays
    <3>2. PICK k \in DOMAIN u.rows : Twin(t.rows[j], u.rows[k]) BY <2>1 DEF Covers
    <3>3. QED BY <3>1, <3>2 DEF Twin
  <2>3. ASSUME NEW k \in DOMAIN u.rows PROVE \E s \in d.stays : Twin(s, u.rows[k])
    <3>1. PICK j \in DOMAIN t.rows : Twin(u.rows[k], t.rows[j]) BY <2>1 DEF Covers
    <3>2. PICK s \in d.stays : Twin(s, t.rows[j]) BY <1>14 DEF SameStays
    <3>3. QED BY <3>1, <3>2 DEF Twin
  <2>4. QED BY <2>2, <2>3 DEF SameStays
<1>16. IsClear(d.stays, V) BY <1>3, <1>9, DerivedOK
<1>17. QED BY <1>3, <1>4, <1>9, <1>12, <1>13, <1>14, <1>15, <1>16

----------------------------------------------------------------------------
(* Every step, and the theorem.                                              *)

\* Until the clock goes back or history is changed behind a run.
SplitInv == disturbed \in BOOLEAN /\ (InOrder /\ ~ disturbed => IsSplit)

\* A log in order is one the lemmas are about.
LEMMA OrderedLog == log \in Seq(Fix) => (InOrder <=> Ordered(log))
BY DEF InOrder, Ordered

\* Before the first derivation there is no stay and the cursor is at the start,
LEMMA NothingStored ==
  ASSUME NEW S, NEW table, NEW from, NEW l \in Seq(Fix), NEW V, IsSplitOf(S, table, from, l, 0, V)
  PROVE  HoldsLog(S, l) /\ table = {} /\ from = 0
<1>1. PICK u : u = FedUpTo(l, V, 0) OBVIOUS
<1>2. HoldsLog(S, l) /\ SameStays(table, u.rows) /\ Sorted(u, l, from, 0, V)
  BY <1>1 DEF IsSplitOf
<1>3. u = StayLedger(<<>>, NoRow) BY <1>1, FedOneByOne
<1>4. DOMAIN u.rows = {}
  <2>1. Len(l) \in Nat OBVIOUS
  <2>2. QED BY <1>3, <2>1, NothingYet, Zenon
<1>5. table = {} BY <1>2, <1>4 DEF SameStays
<1>6. from = 0 BY <1>2 DEF Sorted
<1>7. QED BY <1>2, <1>5, <1>6

\* whatever visits have been reported.
LEMMA NothingIsSplit ==
  ASSUME NEW S, NEW l \in Seq(Fix), HoldsLog(S, l), NEW V
  PROVE  IsSplitOf(S, {}, 0, l, 0, V)
<1>1. PICK u : u = FedUpTo(l, V, 0) OBVIOUS
<1>2. u = StayLedger(<<>>, NoRow) BY <1>1, FedOneByOne
<1>3. Len(l) \in Nat OBVIOUS
<1>4. Sorted(u, l, 0, 0, V) /\ DOMAIN u.rows = {} BY <1>2, <1>3, NothingYet
<1>5. IsClear({}, V) /\ EndOnce({}) BY DEF IsClear, EndOnce
<1>6. SameStays({}, u.rows) BY <1>4 DEF SameStays
<1>7. QED BY <1>1, <1>3, <1>4, <1>5, <1>6 DEF IsSplitOf

\* One more fix leaves all that as it was.
LEMMA OneMoreFix ==
  ASSUME NEW S, NEW table, NEW from, NEW l \in Seq(Fix), NEW n, NEW V,
         IsSplitOf(S, table, from, l, n, V), NEW s \in Fix, s.id = Len(l) + 1
  PROVE  IsSplitOf(S \cup {s}, table, from, Append(l, s), n, V)
<1>1. PICK m : m = Append(l, s) OBVIOUS
<1>2. /\ m \in Seq(Fix) /\ Len(m) = Len(l) + 1 /\ Len(l) \in Nat
      /\ DOMAIN l = 1 .. Len(l) /\ DOMAIN m = 1 .. Len(l) + 1
      /\ m[Len(l) + 1] = s /\ \A i \in 1 .. Len(l) : m[i] = l[i]
  BY <1>1
<1>3. /\ S = {l[i] : i \in DOMAIN l} /\ \A i \in DOMAIN l : l[i].id = i
      /\ n \in 0 .. Len(l)
  BY DEF IsSplitOf, HoldsLog
<1>4. HoldsLog(S \cup {s}, m)
  <2>1. \A i \in DOMAIN m : i \in DOMAIN l \/ i = Len(l) + 1 BY <1>2
  <2>2. \A i \in DOMAIN m : m[i].id = i BY <1>2, <1>3, <2>1
  <2>3. \A i \in DOMAIN m : m[i] \in S \cup {s} BY <1>2, <1>3, <2>1
  <2>4. \A x \in S : \E i \in DOMAIN m : x = m[i]
    <3>1. \A i \in DOMAIN l : i \in DOMAIN m /\ m[i] = l[i] BY <1>2
    <3>2. QED BY <1>3, <3>1
  <2>5. \E i \in DOMAIN m : s = m[i]
    <3>1. Len(l) + 1 \in DOMAIN m BY <1>2
    <3>2. QED BY <1>2, <3>1
  <2>6. S \cup {s} = {m[i] : i \in DOMAIN m} BY <2>3, <2>4, <2>5
  <2>7. QED BY <2>2, <2>6 DEF HoldsLog
<1>5. n \in 0 .. Len(m) /\ Len(l) <= Len(m) BY <1>2, <1>3
<1>6. FedUpTo(m, V, n) = FedUpTo(l, V, n) BY <1>2, <1>3, <1>5, FedBefore
<1>7. PICK u : u = FedUpTo(l, V, n) OBVIOUS
<1>8. IsClear(table, V) /\ EndOnce(table) /\ SameStays(table, u.rows) /\ Sorted(u, l, from, n, V)
  BY <1>7 DEF IsSplitOf
<1>9. Sorted(u, m, from, n, V) BY <1>2, <1>5, <1>8, SortedBefore
<1>10. QED BY <1>1, <1>4, <1>5, <1>6, <1>7, <1>8, <1>9 DEF IsSplitOf

\* Each step keeps that: a fix comes last and gets the next id,
LEMMA StoreFixSplit ==
  ASSUME HistoryInv, SplitInv, NEW p \in Positions, StoreFix(p)
  PROVE  SplitInv'
<1>1. PICK s : s = [id |-> LatestId + 1, ts |-> now, pos |-> p, n |-> Len(log) + 1] OBVIOUS
<1>2. /\ samples' = samples \cup {s} /\ log' = Append(log, s)
      /\ UNCHANGED <<stays, visits, cursor, upTo, disturbed>>
  BY <1>1 DEF StoreFix
<1>3. SamplesOK /\ log \in Seq(Fix) /\ now \in Nat BY DEF HistoryInv, StoreOK, ClockOK
<1>4. LatestId \in Nat BY <1>3, LatestIdNat
<1>5. s \in Fix
  <2>1. LatestId + 1 \in Nat \ {0} /\ Len(log) + 1 \in Nat \ {0} BY <1>3, <1>4
  <2>2. QED BY <1>1, <1>3, <2>1 DEF Fix
<1>6. InOrder' => InOrder
  <2>1. \A i \in DOMAIN log : i \in DOMAIN log' /\ log'[i] = log[i] BY <1>2, <1>3, <1>5
  <2>2. QED BY <2>1 DEF InOrder
<1>7. ASSUME IsSplit PROVE IsSplit'
  <2>1. IsSplitOf(samples, stays, cursor, log, upTo, Covering) BY <1>7 DEF IsSplit
  <2>2. s.id = Len(log) + 1
    <3>1. Len(log) \in 0 .. Len(log) BY <1>3
    <3>2. HoldsLog(samples, log) BY <2>1 DEF IsSplitOf
    <3>3. LatestId = Len(log) BY <1>3, <3>1, <3>2, RestOfLog
    <3>4. QED BY <1>1, <3>3
  <2>3. IsSplitOf(samples', stays, cursor, log', upTo, Covering)
    BY <1>2, <1>3, <1>5, <2>1, <2>2, OneMoreFix
  <2>4. Covering' = Covering BY <1>2 DEF Covering
  <2>5. QED BY <1>2, <2>3, <2>4 DEF IsSplit
<1>8. QED BY <1>2, <1>6, <1>7, Zenon DEF SplitInv

\* steps that leave the history alone,
LEMMA KeptSplit ==
  ASSUME SplitInv, UNCHANGED <<samples, stays, cursor, log, upTo, Covering>>,
         disturbed' \in BOOLEAN, ~ disturbed' => ~ disturbed
  PROVE  SplitInv'
<1>1. InOrder' => InOrder BY DEF InOrder
<1>2. IsSplit => IsSplit' BY DEF IsSplit
<1>3. QED BY <1>1, <1>2, Zenon DEF SplitInv

\* a visit that is closed behind the first run disturbs, and before it there is nothing yet,
LEMMA VisitSplit ==
  ASSUME HistoryInv, SplitInv, UNCHANGED <<samples, stays, cursor, log, upTo>>,
         disturbed' = (disturbed \/ upTo > 0)
  PROVE  SplitInv'
<1>1. InOrder' => InOrder BY DEF InOrder
<1>2. ASSUME InOrder, ~ disturbed' PROVE IsSplit'
  <2>1. ~ disturbed /\ ~ (upTo > 0) BY <1>2
  <2>2. IsSplitOf(samples, stays, cursor, log, upTo, Covering) BY <1>2, <2>1 DEF SplitInv, IsSplit
  <2>3. log \in Seq(Fix) BY DEF HistoryInv
  <2>4. upTo = 0
    <3>1. upTo \in 0 .. Len(log) BY <2>2 DEF IsSplitOf
    <3>2. Len(log) \in Nat BY <2>3
    <3>3. QED BY <2>1, <3>1, <3>2
  <2>5. HoldsLog(samples, log) /\ stays = {} /\ cursor = 0
    <3>1. IsSplitOf(samples, stays, cursor, log, 0, Covering) BY <2>2, <2>4
    <3>2. QED BY <2>3, <3>1, NothingStored
  <2>6. \A V : IsSplitOf(samples, {}, 0, log, 0, V) BY <2>3, <2>5, NothingIsSplit
  <2>7. QED BY <2>4, <2>5, <2>6 DEF IsSplit
<1>3. disturbed' \in BOOLEAN OBVIOUS
<1>4. QED BY <1>1, <1>2, <1>3, Zenon DEF SplitInv

\* one that is open claims nothing,
LEMMA VisitReportedSplit ==
  ASSUME HistoryInv, SplitInv, NEW v \in PossibleVisits, VisitReported(v)
  PROVE  SplitInv'
<1>1. /\ visits' = visits \cup {v} /\ disturbed' = (disturbed \/ (v.closed /\ upTo > 0))
      /\ UNCHANGED <<samples, stays, cursor, log, upTo>>
  BY DEF VisitReported
<1>2. CASE v.closed
  <2>1. disturbed' = (disturbed \/ upTo > 0) BY <1>1, <1>2
  <2>2. QED BY <1>1, <2>1, VisitSplit
<1>3. CASE ~ v.closed
  <2>1. Covering' = Covering BY <1>1, <1>3 DEF Covering
  <2>2. disturbed' \in BOOLEAN /\ (~ disturbed' => ~ disturbed) BY <1>1
  <2>3. QED BY <1>1, <2>1, <2>2, KeptSplit
<1>4. QED BY <1>2, <1>3

\* a purge that finds nothing to delete leaves the cursor too,
LEMMA PurgeSplit ==
  ASSUME HistoryInv, SplitInv, NEW cutoff, PurgeHistory(cutoff), UNCHANGED <<log, upTo>>
  PROVE  SplitInv'
<1>1. /\ samples' = DeleteSamplesBefore(cutoff) /\ cursor' = Rewound(samples')
      /\ disturbed' = (disturbed \/ <<samples', stays', visits'>> # <<samples, stays, visits>>)
  BY DEF PurgeHistory
<1>2. CASE disturbed'
  <2>1. disturbed' \in BOOLEAN BY <1>1
  <2>2. QED BY <1>2, <2>1 DEF SplitInv
<1>3. CASE ~ disturbed'
  <2>1. samples' = samples /\ stays' = stays /\ visits' = visits /\ ~ disturbed BY <1>1, <1>3
  <2>2. cursor' = cursor
    <3>1. cursor \in Nat /\ cursor <= LatestId /\ SamplesOK BY DEF HistoryInv, StoreOK, CursorOK
    <3>2. LatestId \in Nat BY <3>1, LatestIdNat
    <3>3. cursor' = Smaller(cursor, LatestId) BY <1>1, <2>1 DEF Rewound, LatestId, Ids
    <3>4. QED BY <3>1, <3>2, <3>3 DEF Smaller
  <2>3. Covering' = Covering BY <2>1 DEF Covering
  <2>4. disturbed' \in BOOLEAN BY <1>1
  <2>5. QED BY <2>1, <2>2, <2>3, <2>4, KeptSplit
<1>4. QED BY <1>2, <1>3

\* and a derivation.
LEMMA DeriveSplit ==
  ASSUME HistoryInv, SplitInv, DeriveStays
  PROVE  SplitInv'
<1>1. PICK d : d = DerivedStays OBVIOUS
<1>2. /\ stays' = d.stays /\ cursor' = d.cursor /\ upTo' = Len(log)
      /\ UNCHANGED <<samples, visits, log, disturbed>>
  BY <1>1 DEF DeriveStays
<1>3. StoreOK /\ log \in Seq(Fix) BY DEF HistoryInv
<1>4. InOrder' => InOrder BY <1>2 DEF InOrder
<1>5. ASSUME InOrder, IsSplit PROVE IsSplit'
  <2>1. Ordered(log) BY <1>3, <1>5, OrderedLog
  <2>2. PICK u : u = FedUpTo(log, Covering, Len(log)) OBVIOUS
  <2>3. /\ IsClear(d.stays, Covering) /\ EndOnce(d.stays) /\ SameStays(d.stays, u.rows)
        /\ Sorted(u, log, d.cursor, Len(log), Covering)
    BY <1>1, <1>3, <1>5, <2>1, <2>2, DerivedIsSplit
  <2>4. HoldsLog(samples, log) BY <1>5 DEF IsSplit, IsSplitOf
  <2>5. Len(log) \in 0 .. Len(log) BY <1>3
  <2>6. IsSplitOf(samples, d.stays, d.cursor, log, Len(log), Covering)
    BY <2>2, <2>3, <2>4, <2>5 DEF IsSplitOf
  <2>7. Covering' = Covering BY <1>2 DEF Covering
  <2>8. QED BY <1>2, <2>6, <2>7 DEF IsSplit
<1>6. QED BY <1>2, <1>4, <1>5, Zenon DEF SplitInv

\* It holds at the start,
LEMMA SplitInvInit == SubscriptionsInit => SplitInv
<1> SUFFICES ASSUME SubscriptionsInit PROVE SplitInv
  OBVIOUS
<1>1. /\ samples = {} /\ stays = {} /\ cursor = 0 /\ log = <<>> /\ upTo = 0 /\ disturbed = FALSE
  BY DEF SubscriptionsInit, Init
<1>2. log \in Seq(Fix) BY <1>1
<1>3. HoldsLog(samples, log) BY <1>1 DEF HoldsLog
<1>4. IsSplit BY <1>1, <1>2, <1>3, NothingIsSplit DEF IsSplit
<1>5. QED BY <1>1, <1>4 DEF SplitInv

\* and every step keeps it.
LEMMA SplitInvStep == WatchInv /\ SplitInv /\ [Next]_vars => SplitInv'
<1> SUFFICES ASSUME WatchInv, SplitInv, [Next]_vars PROVE SplitInv'
  OBVIOUS
<1>1. HistoryInv BY DEF WatchInv
<1>2. CASE NativeWrites
  <2>1. CASE \E p \in Positions : StoreFix(p) BY <1>1, <2>1, StoreFixSplit
  <2>2. CASE \E v \in PossibleVisits : VisitReported(v) BY <1>1, <2>2, VisitReportedSplit
  <2>3. CASE \E v \in visits, t \in 0 .. MaxTime : VisitEnds(v, t)
    <3>1. UNCHANGED <<samples, stays, cursor, log, upTo>> /\ disturbed' = (disturbed \/ upTo > 0)
      BY <2>3 DEF VisitEnds
    <3>2. QED BY <1>1, <3>1, VisitSplit
  <2>4. QED BY <1>2, <2>1, <2>2, <2>3 DEF NativeWrites
<1>3. CASE DeriveStays BY <1>1, <1>3, DeriveSplit
<1>4. CASE NativePurge \/ PurgeExpired
  <2>1. CASE NativePurge
    <3>1. PurgeHistory(now - Retention) /\ UNCHANGED <<log, upTo>> BY <2>1 DEF NativePurge
    <3>2. QED BY <1>1, <3>1, PurgeSplit
  <2>2. CASE PurgeExpired
    <3>1. PurgeHistory(run.nowTs - Retention) /\ UNCHANGED <<log, upTo>> BY <2>2 DEF PurgeExpired
    <3>2. QED BY <1>1, <3>1, PurgeSplit
  <2>3. QED BY <1>4, <2>1, <2>2
<1>5. CASE ClockMoves \/ DeriveFails \/ RunDies \/ SyncSubscriptions \/ UNCHANGED vars
  <2>1. UNCHANGED <<samples, stays, visits, cursor, log, upTo, disturbed>>
    BY <1>5 DEF ClockMoves, Tick, SetBack, DeriveFails, RunDies, SyncSubscriptions, vars, historyVars
  <2>2. Covering' = Covering BY <2>1 DEF Covering
  <2>3. disturbed' \in BOOLEAN /\ (~ disturbed' => ~ disturbed) BY <2>1, Zenon DEF SplitInv
  <2>4. QED BY <2>1, <2>2, <2>3, KeptSplit
<1>6. QED BY <1>2, <1>3, <1>4, <1>5 DEF Next

\* As long as the clock was kept and no history changed behind a run, the table holds what one
\* derivation of the fixes stored up to the last run would have left, and the cursor stands right
\* before the dwell that is still too short.
THEOREM TableIsSplit == Spec => []SplitInv
<1>1. SubscriptionsInit => SplitInv BY SplitInvInit
<1>2. WatchInv /\ SplitInv /\ [Next]_vars => SplitInv' BY SplitInvStep
<1>3. QED BY <1>1, <1>2, WatchInvariant, PTL DEF Spec

\* Deriving in steps leaves what deriving once would (extract.ts: "however the fixes are split
\* across runs"), for any number of fixes, runs and visits, and for runs killed at any point.
THEOREM SplitAsAtOnce == Spec => []SameAsAtOnce
<1>1. WatchInv /\ SplitInv => SameAsAtOnce
  <2> SUFFICES ASSUME WatchInv, SplitInv, InOrder, ~ disturbed, upTo = Len(log)
               PROVE  Contents = ExtractStays(log, Covering)
    BY DEF SameAsAtOnce
  <2>1. IsSplitOf(samples, stays, cursor, log, upTo, Covering) BY DEF SplitInv, IsSplit
  <2>2. log \in Seq(Fix) BY DEF WatchInv, HistoryInv
  <2>3. PICK u : u = FeedAll(StayLedger(<<>>, NoRow), log, Covering) OBVIOUS
  <2>4. u = FedUpTo(log, Covering, upTo) BY <2>2, <2>3, FedOneByOne
  <2>5. SameStays(stays, u.rows) BY <2>1, <2>4 DEF IsSplitOf
  <2>6. PICK f : f = [r \in stays |-> [c |-> r.c, closed |-> r.closed]] OBVIOUS
  <2>7. PICK g : g = [k \in DOMAIN u.rows |-> [c |-> u.rows[k].c, closed |-> u.rows[k].closed]]
    OBVIOUS
  <2>8. Contents = {f[r] : r \in stays} BY <2>6 DEF Contents
  <2>9. ExtractStays(log, Covering) = {g[k] : k \in DOMAIN u.rows} BY <2>3, <2>7 DEF ExtractStays
  <2>10. \A r \in stays, k \in DOMAIN u.rows : Twin(r, u.rows[k]) => f[r] = g[k]
    BY <2>6, <2>7 DEF Twin
  <2>11. \A r \in stays : \E k \in DOMAIN u.rows : f[r] = g[k] BY <2>5, <2>10 DEF SameStays
  <2>12. \A k \in DOMAIN u.rows : \E r \in stays : f[r] = g[k] BY <2>5, <2>10 DEF SameStays
  <2>13. {f[r] : r \in stays} = {g[k] : k \in DOMAIN u.rows} BY <2>11, <2>12
  <2>14. QED BY <2>8, <2>9, <2>13
<1>2. QED BY <1>1, WatchInvariant, TableIsSplit, PTL
=============================================================================
