-------------------------- MODULE FetchCycleProofs --------------------------
(* Proofs about the fetcher, for every set of reports and shards, every area  *)
(* the reports widen over, every order of cover and every wait: nothing older *)
(* comes back, nothing is taken for ended that is not, and what is cached and *)
(* what is held go together.                                                  *)
EXTENDS FetchTrigger, SequenceTheorems, FiniteSetTheorems, WellFoundedInduction, TLAPS

-----------------------------------------------------------------------------
(* The larger of numbers. *)

\* A nonempty finite set of naturals has a largest element: of the sets of elements above
\* one, finite all, one is minimal by inclusion.
LEMMA HasLargest ==
  ASSUME NEW S \in SUBSET Nat, S # {}, IsFiniteSet(S)
  PROVE  \E x \in S : \A y \in S : x >= y
<1> DEFINE Above(x) == {y \in S : y > x}
           T == {Above(x) : x \in S}
<1>1. T \subseteq FiniteSubsetsOf(S) /\ T # {}
  <2>1. \A x \in S : Above(x) \subseteq S /\ IsFiniteSet(Above(x))
    BY FS_Subset
  <2>2. QED BY <2>1 DEF FiniteSubsetsOf
<1>2. IsWellFoundedOn(StrictSubsetOrdering(S), FiniteSubsetsOf(S))
  BY FS_StrictSubsetOrderingWellFounded
<1>3. PICK U \in T : \A V \in T : <<V, U>> \notin StrictSubsetOrdering(S)
  <2> HIDE DEF T
  <2>1. QED BY <1>1, <1>2, WFMin
<1>4. PICK x \in S : U = Above(x)
  OBVIOUS
<1>5. ASSUME NEW y \in S, y > x PROVE FALSE
  <2>1. /\ \A z \in S : z > y => z > x
        /\ ~ (y > y)
    BY <1>5
  <2>2. PICK V \in T : V = Above(y)
    OBVIOUS
  <2>3. y \in U /\ y \notin V
    BY <1>4, <1>5, <2>1, <2>2, Zenon
  <2>4. V \subseteq U /\ U \subseteq S
    BY <1>4, <2>1, <2>2, Zenon
  <2>5. <<V, U>> \in StrictSubsetOrdering(S)
    BY <2>3, <2>4 DEF StrictSubsetOrdering
  <2>6. QED BY <1>3, <2>5
<1>6. QED BY <1>5

\* What Max returns.
LEMMA MaxOfNaturals ==
  ASSUME NEW S \in SUBSET Nat, S # {}, IsFiniteSet(S)
  PROVE  Max(S) \in S /\ \A y \in S : y <= Max(S)
<1>1. \E x \in S : \A y \in S : x >= y
  BY HasLargest
<1>2. Max(S) \in S /\ \A y \in S : Max(S) >= y
  BY <1>1 DEF Max
<1>3. QED
  BY <1>2

\* What Max returns of two numbers.
LEMMA MaxOfTwo ==
  ASSUME NEW a \in Nat, NEW b \in Nat
  PROVE  Max({a, b}) \in {a, b} /\ a <= Max({a, b}) /\ b <= Max({a, b})
<1>1. PICK S : S = {a, b}
  OBVIOUS
<1>2. S = {a} \cup {b} /\ S \in SUBSET Nat /\ S # {} /\ a \in S /\ b \in S
  BY <1>1
<1>3. IsFiniteSet({a})
  BY FS_Singleton
<1>4. IsFiniteSet(S)
  BY <1>2, <1>3, FS_AddElement
<1>5. Max(S) \in S /\ \A y \in S : y <= Max(S)
  BY <1>2, <1>4, MaxOfNaturals
<1>6. QED BY <1>1, <1>2, <1>5

-----------------------------------------------------------------------------
(* The publisher: editions only grow, and a generation is one content until   *)
(* the shard is empty.                                                        *)

EditionsInv == editions \in Seq(Edition) /\ Len(editions) >= 1 /\ edgeFrom \in 1..Len(editions)

\* Edition e may stand after edition d.
After(e, d) ==
  /\ \A r \in Reports : d.reports[r] <= e.reports[r]
  /\ \A s \in Shards : /\ d.generation[s] <= e.generation[s]
                       /\ d.generation[s] = e.generation[s] => Content(e, s) \in {Content(d, s), {}}

GrowInv == \A i, j \in 1..Len(editions) : i <= j => After(editions[j], editions[i])

LEMMA EditionTyped ==
  ASSUME NEW e \in Edition
  PROVE  /\ \A r \in Reports : e.reports[r] \in Nat /\ e.reports[r] \in 0..Over
         /\ \A s \in Shards : e.generation[s] \in Nat
BY PublisherAssumption DEF Edition, Over

LEMMA AfterIsTransitive ==
  ASSUME NEW c \in Edition, NEW d \in Edition, NEW e \in Edition, After(d, c), After(e, d)
  PROVE  After(e, c)
<1>1. ASSUME NEW r \in Reports
      PROVE  c.reports[r] <= e.reports[r]
  <2>1. c.reports[r] \in Nat /\ d.reports[r] \in Nat /\ e.reports[r] \in Nat
    BY EditionTyped
  <2>2. c.reports[r] <= d.reports[r] /\ d.reports[r] <= e.reports[r]
    BY DEF After
  <2>3. QED BY <2>1, <2>2
<1>2. ASSUME NEW s \in Shards
      PROVE  /\ c.generation[s] <= e.generation[s]
             /\ c.generation[s] = e.generation[s] => Content(e, s) \in {Content(c, s), {}}
  <2>1. c.generation[s] \in Nat /\ d.generation[s] \in Nat /\ e.generation[s] \in Nat
    BY EditionTyped
  <2>2. c.generation[s] <= d.generation[s] /\ d.generation[s] <= e.generation[s]
    BY DEF After
  <2>3. c.generation[s] <= e.generation[s]
    BY <2>1, <2>2
  <2>4. ASSUME c.generation[s] = e.generation[s]
        PROVE  Content(e, s) \in {Content(c, s), {}}
    <3>1. c.generation[s] = d.generation[s] /\ d.generation[s] = e.generation[s]
      BY <2>1, <2>2, <2>4
    <3>2. QED BY <3>1 DEF After
  <2>5. QED BY <2>3, <2>4
<1>3. QED BY <1>1, <1>2 DEF After

LEMMA NextFollows ==
  ASSUME Latest \in Edition, NEW reports \in [Reports -> 0..Over], MayFollow(reports)
  PROVE  NextEdition(reports) \in Edition /\ After(NextEdition(reports), Latest)
<1>1. PICK bare : bare = [reports |-> reports, generation |-> Latest.generation]
  OBVIOUS
<1>2. PICK generation : generation =
        [s \in Shards |-> IF Content(bare, s) \notin {{}, Content(Latest, s)}
                            THEN Latest.generation[s] + 1 ELSE Latest.generation[s]]
  OBVIOUS
<1>3. PICK e : e = [bare EXCEPT !.generation = generation]
  OBVIOUS
<1>4. NextEdition(reports) = e
  BY <1>1, <1>2, <1>3 DEF NextEdition
<1>5. e = [reports |-> reports, generation |-> generation]
  BY <1>1, <1>3
<1>6. \A s \in Shards : Latest.generation[s] \in Nat
  BY EditionTyped
<1>7. generation \in [Shards -> Nat]
  BY <1>2, <1>6
<1>8. e \in Edition
  BY <1>5, <1>7 DEF Edition
<1>9. \A s \in Shards : Content(e, s) = Content(bare, s)
  BY <1>1, <1>5 DEF Content
<1>10. \A r \in Reports : Latest.reports[r] <= e.reports[r]
  BY <1>5, <1>8, EditionTyped DEF MayFollow
<1>11. ASSUME NEW s \in Shards
       PROVE  /\ Latest.generation[s] <= e.generation[s]
              /\ Latest.generation[s] = e.generation[s] => Content(e, s) \in {Content(Latest, s), {}}
  <2>1. e.generation[s] = IF Content(e, s) \notin {{}, Content(Latest, s)}
                            THEN Latest.generation[s] + 1 ELSE Latest.generation[s]
    BY <1>2, <1>5, <1>9
  <2>2. CASE Content(e, s) \in {{}, Content(Latest, s)}
    BY <1>6, <2>1, <2>2
  <2>3. CASE Content(e, s) \notin {{}, Content(Latest, s)}
    <3>1. e.generation[s] = Latest.generation[s] + 1
      BY <2>1, <2>3
    <3>2. QED BY <1>6, <3>1
  <2>4. QED BY <2>2, <2>3
<1>12. QED BY <1>4, <1>8, <1>10, <1>11 DEF After

\* The editions published so far stay what they are.
Grown == Len(editions) <= Len(editions') /\ \A i \in 1..Len(editions) : editions'[i] = editions[i]

LEMMA EditionsRange ==
  ASSUME EditionsInv
  PROVE  /\ Len(editions) \in Nat \ {0} /\ Len(editions) \in 1..Len(editions)
         /\ \A i \in 1..Len(editions) : editions[i] \in Edition
         /\ Latest \in Edition
<1>1. Len(editions) \in Nat /\ \A i \in 1..Len(editions) : editions[i] \in Edition
  BY ElementOfSeq, LenProperties DEF EditionsInv
<1>2. Len(editions) \in 1..Len(editions)
  BY <1>1 DEF EditionsInv
<1>3. QED BY <1>1, <1>2 DEF Latest, EditionsInv

LEMMA Published ==
  ASSUME EditionsInv, GrowInv, Publish \/ EdgesRefresh
  PROVE  EditionsInv' /\ GrowInv' /\ Grown
<1>1. CASE EdgesRefresh
  <2>1. editions' = editions /\ edgeFrom' = Len(editions)
    BY <1>1 DEF EdgesRefresh
  <2>2. QED BY <2>1, EditionsRange DEF EditionsInv, GrowInv, Grown
<1>2. CASE Publish
  <2>1. PICK reports \in [Reports -> 0..Over] :
          MayFollow(reports) /\ editions' = Append(editions, NextEdition(reports))
    BY <1>2 DEF Publish
  <2>2. PICK next : next = NextEdition(reports)
    OBVIOUS
  <2>3. next \in Edition /\ After(next, Latest)
    BY <2>1, <2>2, NextFollows, EditionsRange
  <2>4. PICK n : n = Len(editions)
    OBVIOUS
  <2>5. /\ editions' \in Seq(Edition) /\ Len(editions') = n + 1
        /\ editions'[n + 1] = next /\ \A i \in 1..n : editions'[i] = editions[i]
    BY <2>1, <2>2, <2>3, <2>4, AppendProperties DEF EditionsInv
  <2>6. /\ n \in Nat \ {0} /\ \A i \in 1..n : editions[i] \in Edition
        /\ Latest = editions[n]
    BY <2>4, EditionsRange DEF Latest
  <2>7. EditionsInv' /\ Grown
    BY <1>2, <2>4, <2>5, <2>6 DEF EditionsInv, Grown, Publish
  <2>8. ASSUME NEW i \in 1..(n + 1), NEW j \in 1..(n + 1), i <= j
        PROVE  After(editions'[j], editions'[i])
    <3>1. CASE j \in 1..n
      <4>1. i \in 1..n
        BY <2>6, <2>8, <3>1
      <4>2. After(editions[j], editions[i])
        BY <2>4, <2>8, <3>1, <4>1 DEF GrowInv
      <4>3. QED BY <2>5, <3>1, <4>1, <4>2
    <3>2. CASE j = n + 1 /\ i \in 1..n
      <4>1. After(Latest, editions[i])
        <5>1. n \in 1..n /\ i <= n
          BY <2>6, <3>2
        <5>2. QED BY <2>4, <2>6, <3>2, <5>1 DEF GrowInv
      <4>2. QED BY <2>3, <2>5, <2>6, <3>2, <4>1, AfterIsTransitive, EditionsRange
    <3>3. CASE j = n + 1 /\ i = n + 1
      <4>1. \A r \in Reports : next.reports[r] \in Nat
        BY <2>3, EditionTyped
      <4>2. \A s \in Shards : next.generation[s] \in Nat
        BY <2>3, EditionTyped
      <4>3. QED BY <2>5, <3>3, <4>1, <4>2 DEF After
    <3>4. QED BY <2>6, <3>1, <3>2, <3>3
  <2>9. GrowInv'
    BY <2>5, <2>8 DEF GrowInv
  <2>10. QED BY <2>7, <2>9
<1>3. QED BY <1>1, <1>2

-----------------------------------------------------------------------------
(* How often what happened. *)

ScenarioTypeOK ==
  scenario \in [published : SUBSET Reports, watchLists : SUBSET (SUBSET Shards), cover : Nat,
                backoffBase : Nat, backoffMax : Nat, metered : Nat, interval : Nat, recheck : Nat,
                maxCycles : Nat \ {0}, goesOn : BOOLEAN, budget : [Events -> Nat],
                left : [Events -> Nat]]

LeftInv == \A event \in Events : scenario.left[event] <= scenario.budget[event]

LEMMA ScenarioStarts ==
  ASSUME NEW s \in Scenarios, scenario = WithAllLeft(s)
  PROVE  ScenarioTypeOK /\ LeftInv /\ \A event \in Events : Never(event)
<1>1. s \in [published : SUBSET Reports, watchLists : SUBSET (SUBSET Shards), cover : Nat,
             backoffBase : Nat, backoffMax : Nat, metered : Nat, interval : Nat, recheck : Nat,
             maxCycles : Nat \ {0}, goesOn : BOOLEAN, budget : [Events -> Nat]]
  BY DeviceAssumption
<1>2. DOMAIN s = {"published", "watchLists", "cover", "backoffBase", "backoffMax", "metered",
                  "interval", "recheck", "maxCycles", "goesOn", "budget"}
  BY <1>1
<1>3. scenario = [x \in DOMAIN s \cup {"left"} |-> IF x = "left" THEN s.budget ELSE s[x]]
  BY DEF WithAllLeft
<1>4. scenario.left = s.budget /\ scenario.budget = s.budget
  BY <1>2, <1>3
<1>5. PICK t : t = [published |-> s.published, watchLists |-> s.watchLists, cover |-> s.cover,
                    backoffBase |-> s.backoffBase, backoffMax |-> s.backoffMax,
                    metered |-> s.metered, interval |-> s.interval, recheck |-> s.recheck,
                    maxCycles |-> s.maxCycles, goesOn |-> s.goesOn, budget |-> s.budget,
                    left |-> s.budget]
  OBVIOUS
<1>6. scenario = t
  BY <1>2, <1>3, <1>5
<1>7. ScenarioTypeOK
  BY <1>1, <1>5, <1>6 DEF ScenarioTypeOK
<1>8. \A event \in Events : s.budget[event] \in Nat
  BY <1>1
<1>9. QED BY <1>4, <1>7, <1>8 DEF LeftInv, Never

LEMMA Spent ==
  ASSUME ScenarioTypeOK, LeftInv, NEW event \in Events, Spend(event)
  PROVE  /\ ScenarioTypeOK' /\ LeftInv' /\ ~Never(event)'
         /\ \A e \in Events : Never(e)' => Never(e)
<1>1. PICK left : left = [scenario.left EXCEPT ![event] = @ - 1]
  OBVIOUS
<1>2. /\ scenario.left[event] > 0 /\ scenario.left \in [Events -> Nat]
      /\ scenario.budget \in [Events -> Nat]
  BY DEF Spend, ScenarioTypeOK
<1>3. left \in [Events -> Nat] /\ left[event] = scenario.left[event] - 1
      /\ \A e \in Events : e # event => left[e] = scenario.left[e]
  BY <1>1, <1>2
<1>4. scenario' = [scenario EXCEPT !.left = left]
  BY <1>1 DEF Spend
<1>5. scenario'.left = left /\ scenario'.budget = scenario.budget
  BY <1>4 DEF ScenarioTypeOK
<1>6. ScenarioTypeOK'
  BY <1>3, <1>4 DEF ScenarioTypeOK
<1>7. scenario.left[event] \in Nat /\ scenario.budget[event] \in Nat
      /\ scenario.left[event] <= scenario.budget[event]
  BY <1>2 DEF LeftInv
<1>8. left[event] < scenario.budget[event]
  BY <1>2, <1>3, <1>7
<1>9. LeftInv'
  <2>1. \A e \in Events : left[e] <= scenario.budget[e]
    BY <1>2, <1>3, <1>7, <1>8 DEF LeftInv
  <2>2. QED BY <1>5, <2>1 DEF LeftInv
<1>10. ~Never(event)'
  BY <1>3, <1>5, <1>7, <1>8 DEF Never
<1>11. \A e \in Events : Never(e)' => Never(e)
  BY <1>3, <1>5, <1>10 DEF Never
<1>12. QED BY <1>6, <1>9, <1>10, <1>11

LEMMA ScenarioStep ==
  ASSUME ScenarioTypeOK, LeftInv, scenario' = scenario \/ \E event \in Events : Spend(event)
  PROVE  ScenarioTypeOK' /\ LeftInv' /\ \A e \in Events : Never(e)' => Never(e)
<1>1. CASE scenario' = scenario
  BY <1>1 DEF ScenarioTypeOK, LeftInv, Never
<1>2. CASE \E event \in Events : Spend(event)
  BY <1>2, Spent
<1>3. QED BY <1>1, <1>2

-----------------------------------------------------------------------------
(* What is held, and what a cycle carries. *)

Lists(e, s) == {q.id : q \in Content(editions[e], s)}

\* What is held of a shard is what one of the first `bound` editions listed in it.
HeldAt(row, s, bound) ==
  \/ row = NotHeld
  \/ \E e \in 1..bound : /\ s \in ListedShards(editions[e])
                         /\ row = [generation |-> editions[e].generation[s], ids |-> Lists(e, s)]

CycleShape ==
  \/ cycle = NoCycle
  \/ \E w, x, l : cycle = [phase |-> "index", watch |-> w, elapsed |-> x, loaded |-> l]
  \/ \E w, x, l, e, a, d, n :
       cycle = [phase |-> "bundles", watch |-> w, elapsed |-> x, loaded |-> l, inForce |-> e,
                accepted |-> a, downloads |-> d, deferred |-> n]
  \/ \E w, x, l, e, a, d, f, n :
       cycle = [phase |-> "write", watch |-> w, elapsed |-> x, loaded |-> l, inForce |-> e,
                accepted |-> a, stored |-> d, failed |-> f, deferred |-> n]

\* A cycle's plan: drawn from an edition no older than any accepted before.
PlanInv ==
  cycle # NoCycle =>
    /\ cycle.watch \subseteq Shards
    /\ cycle.loaded.issued \in 0..Len(editions)
    /\ cycle.loaded.index \in {0, cycle.loaded.issued}
    /\ cycle.phase # "index" =>
         /\ cycle.inForce \in 1..Len(editions) /\ cycle.inForce >= cycle.loaded.issued
         /\ ~cycle.accepted => cycle.inForce = cycle.loaded.index
    /\ cycle.phase = "bundles" => cycle.downloads \subseteq ListedShards(editions[cycle.inForce])
    /\ cycle.phase = "write" => cycle.stored \subseteq ListedShards(editions[cycle.inForce])

\* What a cycle loaded is still what the store has, unless everything was deleted.
InStep == cycle.loaded.held = held /\ cycle.loaded.issued = issued /\ cycle.loaded.index = index

Wiped == /\ \A s \in Shards : held[s] = NotHeld
         /\ \A r \in Reports : cache[r] = 0 /\ best[r] = 0
         /\ issued = 0 /\ index = 0

LoadedInv == cycle # NoCycle => InStep \/ (Wiped /\ ~Never("deletes"))

StoreTypeOK ==
  /\ held \in [Shards -> [generation : Nat, ids : SUBSET Reports]]
  /\ cache \in [Reports -> 0..MaxRevision] /\ best \in [Reports -> 0..Over]
  /\ purged \subseteq Reports /\ watch \subseteq Shards
  /\ issued \in 0..Len(editions) /\ index \in {0, issued}

HeldInv == \A s \in Shards : HeldAt(held[s], s, Len(editions))

CycleInv == CycleShape /\ PlanInv /\ LoadedInv

\* Steps of a cycle that leave the store alone, and everything else that does.
LEMMA Read ==
  ASSUME EditionsInv, StoreTypeOK, CycleInv, ScenarioTypeOK, LeftInv,
         \/ IndexAnswered \/ BundlesAnswered \/ \E metered \in BOOLEAN : StartCycle(metered)
  PROVE  CycleInv' /\ UNCHANGED <<publisherVars, watch, held, cache, issued, index, historyVars>>
         /\ (scenario' = scenario \/ \E event \in Events : Spend(event))
<1>1. CASE \E metered \in BOOLEAN : StartCycle(metered)
  <2>1. /\ cycle' = [phase |-> "index", watch |-> watch, elapsed |-> 0,
                     loaded |-> [held |-> held, issued |-> issued, index |-> index, backoff |-> backoff]]
        /\ UNCHANGED <<publisherVars, watch, storeVars, historyVars, scenario>>
    BY <1>1 DEF StartCycle
  <2>2. PICK l : l = [held |-> held, issued |-> issued, index |-> index, backoff |-> backoff]
    OBVIOUS
  <2>3. /\ cycle' = [phase |-> "index", watch |-> watch, elapsed |-> 0, loaded |-> l]
        /\ l.held = held /\ l.issued = issued /\ l.index = index
    BY <2>1, <2>2
  <2>4. CycleShape'
    BY <2>3 DEF CycleShape
  <2>5. PlanInv' /\ LoadedInv'
    BY <2>1, <2>3 DEF PlanInv, LoadedInv, InStep, StoreTypeOK, publisherVars, storeVars
  <2>6. QED BY <2>1, <2>4, <2>5 DEF CycleInv, storeVars
<1>2. CASE BundlesAnswered
  <2>1. PICK failed \in SUBSET cycle.downloads :
          /\ scenario' = scenario \/ Spend("faults")
          /\ cycle' = [phase |-> "write", watch |-> cycle.watch, elapsed |-> cycle.elapsed,
                       loaded |-> cycle.loaded, inForce |-> cycle.inForce, accepted |-> cycle.accepted,
                       stored |-> cycle.downloads \ failed, failed |-> failed # {},
                       deferred |-> cycle.deferred]
    BY <1>2 DEF BundlesAnswered
  <2>2. /\ cycle.phase = "bundles" /\ cycle # NoCycle
        /\ UNCHANGED <<publisherVars, watch, storeVars, historyVars>>
    BY <1>2 DEF BundlesAnswered, NoCycle
  <2>3. PICK stored, fails : stored = cycle.downloads \ failed /\ fails = (failed # {})
    OBVIOUS
  <2>4. cycle' = [phase |-> "write", watch |-> cycle.watch, elapsed |-> cycle.elapsed,
                  loaded |-> cycle.loaded, inForce |-> cycle.inForce, accepted |-> cycle.accepted,
                  stored |-> stored, failed |-> fails, deferred |-> cycle.deferred]
    BY <2>1, <2>3, Zenon
  <2>5. CycleShape'
    BY <2>4 DEF CycleShape
  <2>6. /\ cycle'.phase = "write" /\ cycle'.watch = cycle.watch /\ cycle'.loaded = cycle.loaded
        /\ cycle'.inForce = cycle.inForce /\ (cycle'.accepted <=> cycle.accepted) /\ cycle'.stored = stored
        /\ stored \subseteq cycle.downloads
    BY <2>3, <2>4
  <2>7. PlanInv'
    BY <2>2, <2>6 DEF CycleInv, PlanInv, publisherVars
  <2>8. scenario' = scenario \/ \E event \in Events : Spend(event)
    BY <2>1 DEF Events
  <2>9. Never("deletes")' => Never("deletes")
    BY <2>8, ScenarioStep DEF Events
  <2>10. LoadedInv'
    BY <2>2, <2>6, <2>9 DEF CycleInv, LoadedInv, InStep, Wiped, storeVars, historyVars
  <2>11. QED BY <2>2, <2>5, <2>7, <2>8, <2>10 DEF CycleInv, storeVars
<1>3. CASE IndexAnswered
  <2>1. /\ cycle.phase = "index" /\ cycle # NoCycle
        /\ UNCHANGED <<publisherVars, watch, held, cache, issued, index, completed, historyVars, scenario>>
    BY <1>3 DEF IndexAnswered, NoCycle
  <2>2. CASE cycle' = NoCycle
    BY <2>1, <2>2 DEF CycleInv, CycleShape, PlanInv, LoadedInv
  <2>3. ASSUME NEW e \in 1..Len(editions), e >= cycle.loaded.issued, ReadIndex(e)
        PROVE  CycleInv'
    <3>1. PICK changed : changed = Changed(editions[e], cycle.watch, cycle.loaded.held)
      OBVIOUS
    <3>2. changed \subseteq ListedShards(editions[e])
      BY <3>1 DEF Changed
    <3>3. PICK downloads \in kSubset(Min({Slots, Cardinality(changed)}), changed) :
            cycle' = [phase |-> "bundles", watch |-> cycle.watch, elapsed |-> cycle.elapsed,
                      loaded |-> cycle.loaded, inForce |-> e, accepted |-> e # cycle.loaded.index,
                      downloads |-> downloads, deferred |-> Deferred(changed, downloads)]
      BY <2>3, <3>1 DEF ReadIndex
    <3>4. downloads \subseteq changed
      BY DEF kSubset
    <3>5. PICK accepted, deferred :
            accepted = (e # cycle.loaded.index) /\ deferred = Deferred(changed, downloads)
      OBVIOUS
    <3>6. cycle' = [phase |-> "bundles", watch |-> cycle.watch, elapsed |-> cycle.elapsed,
                    loaded |-> cycle.loaded, inForce |-> e, accepted |-> accepted,
                    downloads |-> downloads, deferred |-> deferred]
      BY <3>3, <3>5, Zenon
    <3>7. CycleShape'
      BY <3>6 DEF CycleShape
    <3>8. /\ cycle'.phase = "bundles" /\ cycle'.watch = cycle.watch /\ cycle'.loaded = cycle.loaded
          /\ cycle'.inForce = e /\ cycle'.downloads = downloads
      BY <3>6
    <3>9. ~cycle'.accepted => e = cycle.loaded.index
      BY <3>5, <3>6, Zenon
    <3>10. PlanInv'
      BY <2>1, <2>3, <3>2, <3>4, <3>8, <3>9 DEF CycleInv, PlanInv, publisherVars
    <3>11. LoadedInv'
      BY <2>1, <3>8 DEF CycleInv, LoadedInv, InStep, Wiped, Never, historyVars
    <3>12. QED BY <3>7, <3>10, <3>11 DEF CycleInv
  <2>4. PICK e \in edgeFrom..Len(editions) :
          \/ Acceptable(e, cycle.loaded) /\ ReadIndex(e)
          \/ /\ ~Acceptable(e, cycle.loaded) /\ cycle.loaded.index # 0
             /\ ReadIndex(cycle.loaded.index)
          \/ cycle' = NoCycle
    BY <1>3 DEF IndexAnswered
  <2>5. /\ e \in 1..Len(editions)
        /\ cycle.loaded.issued \in 0..Len(editions) /\ cycle.loaded.index \in {0, cycle.loaded.issued}
    BY <2>1, EditionsRange DEF EditionsInv, CycleInv, PlanInv
  <2>6. Acceptable(e, cycle.loaded) => e >= cycle.loaded.issued
    <3>1. cycle.loaded.issued \in Nat /\ cycle.loaded.index \in Nat /\ e \in Nat
      BY <2>5, EditionsRange
    <3>2. /\ Floor(cycle.loaded) \in {cycle.loaded.issued, cycle.loaded.index}
          /\ cycle.loaded.issued <= Floor(cycle.loaded)
      BY <3>1, MaxOfTwo DEF Floor
    <3>3. QED BY <3>1, <3>2 DEF Acceptable
  <2>7. CASE Acceptable(e, cycle.loaded) /\ ReadIndex(e)
    BY <2>1, <2>3, <2>5, <2>6, <2>7
  <2>8. CASE cycle.loaded.index # 0 /\ ReadIndex(cycle.loaded.index)
    <3>1. cycle.loaded.index = cycle.loaded.issued /\ cycle.loaded.index \in 1..Len(editions)
      BY <2>5, <2>8, EditionsRange
    <3>2. cycle.loaded.index >= cycle.loaded.issued
      BY <3>1, EditionsRange
    <3>3. QED BY <2>1, <2>3, <2>8, <3>1, <3>2
  <2>9. QED BY <2>1, <2>2, <2>4, <2>7, <2>8
<1>4. QED BY <1>1, <1>2, <1>3

\* The store is left alone: a cycle reads or comes to nothing, the clock or the watch list moves.
QuietEffect ==
  /\ UNCHANGED <<editions, edgeFrom, held, cache, issued, index, best, purged>>
  /\ watch' \subseteq Shards /\ CycleInv'
  /\ scenario' = scenario \/ \E event \in Events : Spend(event)

LEMMA CycleEnds ==
  ASSUME cycle' = NoCycle
  PROVE  CycleInv'
BY DEF CycleInv, CycleShape, PlanInv, LoadedInv

LEMMA CycleStays ==
  ASSUME CycleInv, ScenarioTypeOK, LeftInv,
         UNCHANGED <<editions, edgeFrom, held, cache, issued, index, best, purged, cycle>>,
         scenario' = scenario \/ \E event \in Events : Spend(event)
  PROVE  CycleInv'
<1>1. Never("deletes")' => Never("deletes")
  BY ScenarioStep DEF Events
<1>2. QED BY <1>1 DEF CycleInv, CycleShape, PlanInv, LoadedInv, InStep, Wiped

LEMMA ClockMovesOn ==
  ASSUME CycleInv, ScenarioTypeOK, LeftInv, NEW d \in Int, ClockMoves(d),
         scenario' = scenario \/ \E event \in Events : Spend(event)
  PROVE  CycleInv'
<1>1. UNCHANGED <<editions, edgeFrom, watch, held, cache, issued, index, best, purged>>
  BY DEF ClockMoves, publisherVars, historyVars
<1>2. CASE cycle = NoCycle
  <2>1. cycle' = cycle
    BY <1>2 DEF ClockMoves
  <2>2. QED BY <1>1, <2>1, CycleStays
<1>3. CASE cycle # NoCycle
  <2>1. PICK x : cycle' = [cycle EXCEPT !.elapsed = x]
    BY <1>3 DEF ClockMoves
  <2>2. /\ CycleShape' /\ cycle' # NoCycle
        /\ cycle'.phase = cycle.phase /\ cycle'.watch = cycle.watch /\ cycle'.loaded = cycle.loaded
        /\ cycle.phase # "index" => cycle'.inForce = cycle.inForce /\ cycle'.accepted = cycle.accepted
        /\ cycle.phase = "bundles" => cycle'.downloads = cycle.downloads
        /\ cycle.phase = "write" => cycle'.stored = cycle.stored
    <3>1. CASE \E w, y, l : cycle = [phase |-> "index", watch |-> w, elapsed |-> y, loaded |-> l]
      <4>1. PICK w, y, l : cycle = [phase |-> "index", watch |-> w, elapsed |-> y, loaded |-> l]
        BY <3>1
      <4>2. cycle' = [phase |-> "index", watch |-> w, elapsed |-> x, loaded |-> l]
        BY <2>1, <4>1
      <4>3. QED BY <4>1, <4>2 DEF CycleShape, NoCycle
    <3>2. CASE \E w, y, l, e, a, b, n :
                 cycle = [phase |-> "bundles", watch |-> w, elapsed |-> y, loaded |-> l, inForce |-> e,
                          accepted |-> a, downloads |-> b, deferred |-> n]
      <4>1. PICK w, y, l, e, a, b, n :
              cycle = [phase |-> "bundles", watch |-> w, elapsed |-> y, loaded |-> l, inForce |-> e,
                       accepted |-> a, downloads |-> b, deferred |-> n]
        BY <3>2
      <4>2. cycle' = [phase |-> "bundles", watch |-> w, elapsed |-> x, loaded |-> l, inForce |-> e,
                      accepted |-> a, downloads |-> b, deferred |-> n]
        BY <2>1, <4>1
      <4>3. QED BY <4>1, <4>2 DEF CycleShape, NoCycle
    <3>3. CASE \E w, y, l, e, a, b, f, n :
                 cycle = [phase |-> "write", watch |-> w, elapsed |-> y, loaded |-> l, inForce |-> e,
                          accepted |-> a, stored |-> b, failed |-> f, deferred |-> n]
      <4>1. PICK w, y, l, e, a, b, f, n :
              cycle = [phase |-> "write", watch |-> w, elapsed |-> y, loaded |-> l, inForce |-> e,
                       accepted |-> a, stored |-> b, failed |-> f, deferred |-> n]
        BY <3>3
      <4>2. cycle' = [phase |-> "write", watch |-> w, elapsed |-> x, loaded |-> l, inForce |-> e,
                      accepted |-> a, stored |-> b, failed |-> f, deferred |-> n]
        BY <2>1, <4>1
      <4>3. QED BY <4>1, <4>2 DEF CycleShape, NoCycle
    <3>4. QED BY <1>3, <3>1, <3>2, <3>3 DEF CycleInv, CycleShape
  <2>3. PlanInv'
    <3>1. cycle'.phase # "index" => cycle.phase # "index"
      BY <2>2
    <3>2. QED BY <1>1, <1>3, <2>2, <3>1 DEF CycleInv, PlanInv
  <2>4. Never("deletes")' => Never("deletes")
    BY ScenarioStep DEF Events
  <2>5. LoadedInv'
    BY <1>1, <1>3, <2>2, <2>4 DEF CycleInv, LoadedInv, InStep, Wiped
  <2>6. QED BY <2>2, <2>3, <2>5 DEF CycleInv
<1>4. QED BY <1>2, <1>3

LEMMA Quiet ==
  ASSUME EditionsInv, StoreTypeOK, CycleInv, ScenarioTypeOK, LeftInv,
         \/ \E metered \in BOOLEAN : PutOffByGate(metered) \/ CycleStarts(metered)
         \/ StoreUnreadable \/ CycleFails \/ ProcessEnds \/ Tick \/ ClockSetBack
         \/ CycleGoesOn /\ ~Write
         \/ WatchMoves
  PROVE  QuietEffect
<1>1. watch \subseteq Shards
  BY DEF StoreTypeOK
<1>2. CASE \E metered \in BOOLEAN : CycleStarts(metered)
  <2>1. \E metered \in BOOLEAN : StartCycle(metered)
    BY <1>2 DEF CycleStarts
  <2>2. QED BY <1>1, <2>1, Read DEF QuietEffect, publisherVars, historyVars
<1>3. CASE CycleGoesOn /\ ~Write
  <2>1. IndexAnswered \/ BundlesAnswered
    BY <1>3 DEF CycleGoesOn
  <2>2. QED BY <1>1, <2>1, Read DEF QuietEffect, publisherVars, historyVars
<1>4. CASE \/ \E metered \in BOOLEAN : PutOffByGate(metered)
           \/ StoreUnreadable
           \/ ProcessEnds /\ ~AppDies
  <2>1. /\ UNCHANGED <<editions, edgeFrom, held, cache, issued, index, best, purged, cycle, watch>>
        /\ scenario' = scenario \/ \E event \in Events : Spend(event)
    BY <1>4 DEF PutOffByGate, StoreUnreadable, ProcessEnds, vars, publisherVars, storeVars,
      historyVars, Events
  <2>2. QED BY <1>1, <2>1, CycleStays DEF QuietEffect
<1>5. CASE CycleFails \/ AppDies
  <2>1. /\ UNCHANGED <<editions, edgeFrom, held, cache, issued, index, best, purged, watch>>
        /\ cycle' = NoCycle
        /\ scenario' = scenario \/ \E event \in Events : Spend(event)
    BY <1>5 DEF CycleFails, IndexRequestFails, WriteFails, AppDies, publisherVars, storeVars,
      historyVars, Events
  <2>2. QED BY <1>1, <2>1, CycleEnds DEF QuietEffect
<1>6. CASE Tick \/ ClockSetBack
  <2>1. scenario.backoffMax \in Nat
    BY DEF ScenarioTypeOK
  <2>2. PICK d \in Int : ClockMoves(d)
    BY <1>6, <2>1 DEF Tick, ClockSetBack, Elapses
  <2>3. scenario' = scenario \/ \E event \in Events : Spend(event)
    BY <1>6 DEF Tick, ClockSetBack, Events
  <2>4. QED BY <1>1, <2>2, <2>3, ClockMovesOn DEF QuietEffect, ClockMoves, publisherVars, historyVars
<1>7. CASE WatchMoves
  <2>1. /\ UNCHANGED <<editions, edgeFrom, held, cache, issued, index, best, purged, cycle>>
        /\ Spend("moves") /\ watch' \in scenario.watchLists
    BY <1>7 DEF WatchMoves, publisherVars, storeVars, historyVars
  <2>2. watch' \subseteq Shards /\ \E event \in Events : Spend(event)
    BY <2>1 DEF ScenarioTypeOK, Events
  <2>3. QED BY <2>1, <2>2, CycleStays DEF QuietEffect
<1>8. QED BY <1>2, <1>3, <1>4, <1>5, <1>6, <1>7

-----------------------------------------------------------------------------
(* The write. *)

\* The revisions the stored bundles have of one report: the edition's, or none.
Fetched(r) ==
  {q.revision : q \in {p \in UNION {Content(editions[cycle.inForce], s) : s \in cycle.stored}
                         : p.id = r /\ p \notin Unreadable}}

LEMMA FetchedIsListed ==
  ASSUME NEW r \in Reports, NEW v \in Fetched(r)
  PROVE  /\ v \in Revisions /\ v = editions[cycle.inForce].reports[r]
         /\ \E s \in cycle.stored : r \in Lists(cycle.inForce, s)
<1>0. PICK q \in {p \in UNION {Content(editions[cycle.inForce], s) : s \in cycle.stored}
                     : p.id = r /\ p \notin Unreadable} : v = q.revision
  BY DEF Fetched
<1>1. PICK s \in cycle.stored : q \in Content(editions[cycle.inForce], s) /\ q.id = r /\ v = q.revision
  BY <1>0
<1>2. q.revision \in Revisions /\ q.revision = editions[cycle.inForce].reports[q.id]
  BY DEF Content, Query
<1>3. r \in Lists(cycle.inForce, s)
  BY <1>1 DEF Lists
<1>4. QED BY <1>1, <1>2, <1>3

LEMMA ListedIsFetched ==
  ASSUME NEW s \in cycle.stored, NEW q \in Content(editions[cycle.inForce], s), q \notin Unreadable
  PROVE  q.revision \in Fetched(q.id)
BY DEF Fetched

\* The newest of what is cached and what was fetched.
LEMMA UpsertIsNewest ==
  ASSUME NEW r \in Reports, cache[r] \in 0..MaxRevision
  PROVE  /\ Upsert(r, Fetched(r)) \in Fetched(r) \cup {cache[r]}
         /\ \A v \in Fetched(r) \cup {cache[r]} : v <= Upsert(r, Fetched(r))
         /\ Upsert(r, Fetched(r)) \in 0..MaxRevision
<1>1. MaxRevision \in Nat
  BY PublisherAssumption
<1>2. PICK S : S = Fetched(r) \cup {cache[r]}
  OBVIOUS
<1>3. S \subseteq 0..MaxRevision
  BY <1>1, <1>2, FetchedIsListed DEF Revisions
<1>4. IsFiniteSet(S) /\ S \in SUBSET Nat
  <2>1. IsFiniteSet(0..MaxRevision)
    BY <1>1, FS_Interval
  <2>2. S \in SUBSET (0..MaxRevision) /\ S \in SUBSET Nat
    BY <1>1, <1>3
  <2>3. QED BY <2>1, <2>2, FS_Subset
<1>5. S # {}
  BY <1>2
<1>6. Max(S) \in S /\ \A y \in S : y <= Max(S)
  BY <1>4, <1>5, MaxOfNaturals
<1>7. QED BY <1>2, <1>3, <1>6 DEF Upsert

WriteEffect ==
  /\ cycle # NoCycle /\ cycle.phase = "write" /\ cycle' = NoCycle
  /\ UNCHANGED <<editions, edgeFrom, watch, scenario>>
  /\ held' \in [Shards -> [generation : Nat, ids : SUBSET Reports]]
  /\ cache' \in [Reports -> 0..MaxRevision] /\ best' \in [Reports -> 0..Over]
  /\ \A s \in Shards :
       \/ /\ s \in cycle.stored
          /\ held'[s] = [generation |-> editions[cycle.inForce].generation[s],
                         ids |-> Lists(cycle.inForce, s)]
       \/ s \in Written \ cycle.stored /\ held'[s] = NotHeld
       \/ s \notin Written /\ held'[s] = held[s]
  /\ \A r \in Reports :
       /\ r \in Removed => cache'[r] = 0 /\ best'[r] = Over
       /\ r \notin Removed =>
            /\ cache'[r] \in Fetched(r) \cup {cache[r]} /\ best'[r] \in {best[r], cache'[r]}
            /\ cache[r] <= cache'[r] /\ \A v \in Fetched(r) : v <= cache'[r]
            /\ best[r] <= best'[r] /\ cache'[r] <= best'[r]
  /\ \/ cycle.accepted /\ issued' = cycle.inForce /\ index' = cycle.inForce
     \/ ~cycle.accepted /\ UNCHANGED <<issued, index>>
  /\ purged' = {r \in purged : cache'[r] = 0}

LEMMA Wrote ==
  ASSUME EditionsInv, StoreTypeOK, CycleInv, Write
  PROVE  WriteEffect
<1>1. /\ cycle.phase = "write" /\ cycle # NoCycle /\ cycle' = NoCycle
      /\ UNCHANGED <<editions, edgeFrom, watch, scenario>>
      /\ purged' = {r \in purged : cache'[r] = 0}
  BY DEF Write, NoCycle, publisherVars
<1>2. PICK e : e = cycle.inForce
  OBVIOUS
<1>3. e \in 1..Len(editions) /\ cycle.stored \subseteq ListedShards(editions[e])
      /\ cycle.stored \subseteq Shards /\ editions[e] \in Edition
  BY <1>1, <1>2, EditionsRange DEF CycleInv, PlanInv, ListedShards
<1>4. \A s \in Shards : editions[e].generation[s] \in Nat /\ Lists(e, s) \in SUBSET Reports
  BY <1>3, EditionTyped DEF Lists, Content, Query
<1>5. NotHeld \in [generation : Nat, ids : SUBSET Reports]
  BY DEF NotHeld
<1>6. held' = [s \in Shards |-> IF s \in Written THEN NowHeld[s] ELSE held[s]]
      /\ held \in [Shards -> [generation : Nat, ids : SUBSET Reports]]
  BY DEF Write, StoreTypeOK
<1>7. ASSUME NEW s \in Shards
      PROVE  /\ \/ /\ s \in cycle.stored
                   /\ held'[s] = [generation |-> editions[e].generation[s], ids |-> Lists(e, s)]
                \/ s \in Written \ cycle.stored /\ held'[s] = NotHeld
                \/ s \notin Written /\ held'[s] = held[s]
             /\ held'[s] \in [generation : Nat, ids : SUBSET Reports]
  <2>1. CASE s \in cycle.stored
    <3>1. NowHeld[s] = [generation |-> editions[e].generation[s], ids |-> Lists(e, s)]
      BY <1>2, <2>1 DEF NowHeld, Listed, Lists
    <3>2. held'[s] = NowHeld[s]
      BY <1>6, <2>1 DEF Written
    <3>3. QED BY <1>4, <2>1, <3>1, <3>2
  <2>2. CASE s \in Written \ cycle.stored
    <3>1. NowHeld[s] = NotHeld
      BY <2>2 DEF NowHeld, Written
    <3>2. QED BY <1>5, <1>6, <2>2, <3>1
  <2>3. CASE s \notin Written
    BY <1>6, <2>3
  <2>4. QED BY <2>1, <2>2, <2>3 DEF Written
<1>8. held' \in [Shards -> [generation : Nat, ids : SUBSET Reports]]
  <2>1. DOMAIN held' = Shards /\ held' = [s \in Shards |-> held'[s]]
    BY <1>6
  <2>2. QED BY <1>7, <2>1
<1>9. cache' = [r \in Reports |-> IF r \in Removed THEN 0 ELSE Upsert(r, Fetched(r))]
  BY DEF Write, StoredCache, Fetched
<1>10. cache \in [Reports -> 0..MaxRevision] /\ best \in [Reports -> 0..Over]
       /\ MaxRevision \in Nat /\ Over = MaxRevision + 1
  BY PublisherAssumption DEF StoreTypeOK, Over
<1>11. ASSUME NEW r \in Reports
       PROVE  /\ cache'[r] \in 0..MaxRevision
              /\ r \in Removed => cache'[r] = 0
              /\ r \notin Removed => /\ cache'[r] \in Fetched(r) \cup {cache[r]} /\ cache[r] <= cache'[r]
                                     /\ \A v \in Fetched(r) : v <= cache'[r]
  <2>1. cache[r] \in 0..MaxRevision
    BY <1>10
  <2>2. /\ Upsert(r, Fetched(r)) \in Fetched(r) \cup {cache[r]}
        /\ \A v \in Fetched(r) \cup {cache[r]} : v <= Upsert(r, Fetched(r))
        /\ Upsert(r, Fetched(r)) \in 0..MaxRevision
    BY <2>1, UpsertIsNewest
  <2>3. cache'[r] = IF r \in Removed THEN 0 ELSE Upsert(r, Fetched(r))
    BY <1>9
  <2>4. 0 \in 0..MaxRevision
    BY <1>10
  <2>5. QED BY <2>2, <2>3, <2>4
<1>12. cache' \in [Reports -> 0..MaxRevision]
  <2>1. cache' = [r \in Reports |-> cache'[r]]
    BY <1>9
  <2>2. QED BY <1>11, <2>1
<1>13. best' = [r \in Reports |-> IF r \in Removed THEN Over ELSE Max({best[r], cache'[r]})]
  BY DEF Write
<1>14. ASSUME NEW r \in Reports
       PROVE  /\ best'[r] \in 0..Over
              /\ r \in Removed => best'[r] = Over
              /\ r \notin Removed => /\ best'[r] \in {best[r], cache'[r]}
                                     /\ best[r] <= best'[r] /\ cache'[r] <= best'[r]
  <2>1. best[r] \in 0..Over /\ cache'[r] \in 0..Over
    BY <1>10, <1>11
  <2>2. /\ Max({best[r], cache'[r]}) \in {best[r], cache'[r]}
        /\ best[r] <= Max({best[r], cache'[r]}) /\ cache'[r] <= Max({best[r], cache'[r]})
    BY <2>1, MaxOfTwo, <1>10
  <2>3. best'[r] = IF r \in Removed THEN Over ELSE Max({best[r], cache'[r]})
    BY <1>13
  <2>4. Over \in 0..Over
    BY <1>10
  <2>5. QED BY <2>1, <2>2, <2>3, <2>4
<1>15. best' \in [Reports -> 0..Over]
  <2>1. best' = [r \in Reports |-> best'[r]]
    BY <1>13
  <2>2. QED BY <1>14, <2>1
<1>16. \/ cycle.accepted /\ issued' = e /\ index' = e
       \/ ~cycle.accepted /\ UNCHANGED <<issued, index>>
  BY <1>2 DEF Write
<1>17. QED
  BY <1>1, <1>2, <1>7, <1>8, <1>11, <1>12, <1>14, <1>15, <1>16 DEF WriteEffect

-----------------------------------------------------------------------------
(* What holds throughout. *)

\* What was purged is not cached.
CacheInv == /\ \A r \in Reports : cache[r] <= best[r]
            /\ \A r \in purged : cache[r] = 0
            /\ Never("purges") => purged = {}

\* What the newest index accepted says of a report.
Accepted(r) == IF issued = 0 THEN 0 ELSE editions[issued].reports[r]

\* Nothing held or known is newer than the newest index accepted.
BoundInv == Never("deletes") => /\ \A s \in Shards : HeldAt(held[s], s, issued)
                                /\ \A r \in Reports : best[r] <= Accepted(r)

FetchInv ==
  /\ ScenarioTypeOK /\ LeftInv /\ EditionsInv /\ GrowInv /\ StoreTypeOK /\ CycleInv
  /\ HeldInv /\ CacheInv /\ BoundInv /\ CachedIsHeld /\ NoRollback /\ HeldIsStored

(* A report stays listed where it was until it is over: areas only widen. *)
LEMMA StaysListed ==
  ASSUME EditionsInv, GrowInv, NEW i \in 1..Len(editions), NEW j \in 1..Len(editions), i <= j,
         NEW s \in Shards, NEW r \in Lists(i, s), editions[j].reports[r] # Over
  PROVE  r \in Lists(j, s)
<1>1. PICK q \in Content(editions[i], s) : q.id = r
  BY DEF Lists
<1>2. /\ q \in Query /\ r \in Reports /\ q.revision = editions[i].reports[r]
      /\ q.revision \in Revisions /\ s \in SearchArea[r][q.revision]
  BY <1>1 DEF Content, Query
<1>3. PICK v : v = editions[j].reports[r]
  OBVIOUS
<1>4. editions[j] \in Edition
  BY EditionsRange
<1>5. v \in 0..Over /\ v # Over
  BY <1>2, <1>3, <1>4, EditionTyped
<1>6. q.revision <= v
  BY <1>2, <1>3 DEF GrowInv, After
<1>7. v \in Revisions
  BY <1>2, <1>5, <1>6, PublisherAssumption DEF Over, Revisions
<1>8. SearchArea[r][q.revision] \subseteq SearchArea[r][v]
  BY <1>2, <1>6, <1>7, PublisherAssumption
<1>9. PICK p : p = [id |-> r, revision |-> v]
  OBVIOUS
<1>10. p \in Query /\ p.id = r /\ p.revision = v
  BY <1>2, <1>7, <1>9 DEF Query
<1>11. p \in Content(editions[j], s)
  BY <1>2, <1>3, <1>8, <1>10 DEF Content
<1>12. QED BY <1>10, <1>11 DEF Lists

(* Two editions that give a shard one generation list the same in it, if both list any. *)
LEMMA SameContent ==
  ASSUME EditionsInv, GrowInv, NEW i \in 1..Len(editions), NEW j \in 1..Len(editions),
         NEW s \in Shards, editions[i].generation[s] = editions[j].generation[s],
         Content(editions[i], s) # {}, Content(editions[j], s) # {}
  PROVE  Content(editions[i], s) = Content(editions[j], s)
<1>1. i <= j \/ j <= i
  BY EditionsRange
<1>2. QED BY <1>1 DEF GrowInv, After

\* What is counted as held of a shard is what some edition lists in it.
LEMMA HeldHasEdition ==
  ASSUME NEW s \in Shards, NEW bound, HeldAt(held[s], s, bound), held[s].generation > 0 \/ held[s].ids # {}
  PROVE  \E e \in 1..bound : /\ Content(editions[e], s) # {} /\ held[s].generation = editions[e].generation[s]
                             /\ held[s].ids = Lists(e, s)
<1>1. held[s] # NotHeld
  BY DEF NotHeld
<1>2. PICK e \in 1..bound : /\ s \in ListedShards(editions[e])
                            /\ held[s] = [generation |-> editions[e].generation[s], ids |-> Lists(e, s)]
  BY <1>1 DEF HeldAt
<1>3. Content(editions[e], s) # {}
  BY <1>2 DEF ListedShards
<1>4. QED BY <1>2, <1>3

LEMMA Starts ==
  ASSUME TriggeredInit
  PROVE  FetchInv
<1>1. PICK s \in Scenarios : scenario = WithAllLeft(s)
  BY DEF TriggeredInit, Init
<1>2. ScenarioTypeOK /\ LeftInv
  BY <1>1, ScenarioStarts
<1>3. PICK first : first = [reports |-> [r \in Reports |-> 0], generation |-> [t \in Shards |-> 0]]
  OBVIOUS
<1>4. first \in Edition
  BY <1>3, PublisherAssumption DEF Edition, Over
<1>5. editions = <<first>> /\ edgeFrom = 1 /\ Len(editions) = 1 /\ editions[1] = first
  BY <1>3 DEF TriggeredInit, Init, PublisherInit
<1>6. EditionsInv
  BY <1>4, <1>5 DEF EditionsInv
<1>7. GrowInv
  <2>1. After(first, first)
    BY <1>3 DEF After
  <2>2. QED BY <1>5, <2>1 DEF GrowInv
<1>8. /\ held = [t \in Shards |-> NotHeld] /\ cache = [r \in Reports |-> 0]
      /\ best = [r \in Reports |-> 0] /\ purged = {} /\ issued = 0 /\ index = 0 /\ cycle = NoCycle
      /\ watch \in scenario.watchLists
  BY DEF TriggeredInit, Init
<1>9. watch \subseteq Shards
  BY <1>2, <1>8 DEF ScenarioTypeOK
<1>10. StoreTypeOK
  BY <1>5, <1>8, <1>9, PublisherAssumption DEF StoreTypeOK, NotHeld, Over
<1>11. CycleInv
  BY <1>8 DEF CycleInv, CycleShape, PlanInv, LoadedInv
<1>12. HeldInv /\ CacheInv /\ BoundInv
  BY <1>8 DEF HeldInv, HeldAt, CacheInv, BoundInv, Accepted
<1>13. CachedIsHeld /\ NoRollback /\ HeldIsStored
  BY <1>8 DEF CachedIsHeld, NoRollback, HeldIsStored, NotHeld
<1>14. QED BY <1>2, <1>6, <1>7, <1>10, <1>11, <1>12, <1>13 DEF FetchInv

(* The store left alone. *)
LEMMA QuietKeeps ==
  ASSUME FetchInv, QuietEffect
  PROVE  FetchInv'
<1>1. ScenarioTypeOK' /\ LeftInv' /\ (Never("deletes")' => Never("deletes"))
      /\ (Never("purges")' => Never("purges"))
  BY ScenarioStep DEF FetchInv, QuietEffect, Events
<1>2. UNCHANGED <<editions, edgeFrom, held, cache, issued, index, best, purged>>
      /\ watch' \subseteq Shards /\ CycleInv'
  BY DEF QuietEffect
<1>3. EditionsInv' /\ GrowInv' /\ StoreTypeOK' /\ HeldInv'
  BY <1>2 DEF FetchInv, EditionsInv, GrowInv, StoreTypeOK, HeldInv, HeldAt, Lists
<1>4. CacheInv' /\ BoundInv'
  BY <1>1, <1>2 DEF FetchInv, CacheInv, BoundInv, HeldAt, Lists, Accepted
<1>5. CachedIsHeld' /\ NoRollback' /\ HeldIsStored'
  BY <1>1, <1>2 DEF FetchInv, CachedIsHeld, NoRollback, HeldIsStored
<1>6. QED BY <1>1, <1>2, <1>3, <1>4, <1>5 DEF FetchInv

(* A kept document that no longer verifies leaves only its date behind. *)
LEMMA RetiringKeeps ==
  ASSUME FetchInv, KeyRetired
  PROVE  FetchInv'
<1>1. /\ UNCHANGED <<editions, edgeFrom, held, cache, issued, best, purged, watch, cycle>>
      /\ cycle = NoCycle /\ index' = 0 /\ Spend("faults")
  BY DEF KeyRetired, publisherVars, historyVars
<1>2. ScenarioTypeOK' /\ LeftInv' /\ (Never("deletes")' => Never("deletes"))
      /\ (Never("purges")' => Never("purges"))
  BY <1>1, Spent DEF FetchInv, Events
<1>3. EditionsInv' /\ GrowInv' /\ HeldInv' /\ CycleInv'
  BY <1>1, CycleEnds DEF FetchInv, EditionsInv, GrowInv, HeldInv, HeldAt, Lists
<1>4. StoreTypeOK'
  BY <1>1 DEF FetchInv, StoreTypeOK
<1>5. CacheInv' /\ BoundInv'
  BY <1>1, <1>2 DEF FetchInv, CacheInv, BoundInv, HeldAt, Lists, Accepted
<1>6. CachedIsHeld' /\ NoRollback' /\ HeldIsStored'
  BY <1>1, <1>2 DEF FetchInv, CachedIsHeld, NoRollback, HeldIsStored
<1>7. QED BY <1>2, <1>3, <1>4, <1>5, <1>6 DEF FetchInv

(* A report purged leaves only what is known of it. *)
LEMMA PurgeKeeps ==
  ASSUME FetchInv, NEW r \in Reports, Purge(r)
  PROVE  FetchInv'
<1>1. /\ UNCHANGED <<editions, edgeFrom, held, issued, index, best, watch, cycle>>
      /\ cache[r] # 0 /\ cache' = [cache EXCEPT ![r] = 0] /\ purged' = purged \cup {r}
      /\ Spend("purges")
  BY DEF Purge, publisherVars
<1>2. ScenarioTypeOK' /\ LeftInv' /\ (Never("deletes")' => Never("deletes")) /\ ~Never("purges")'
  BY <1>1, Spent DEF FetchInv, Events
<1>3. EditionsInv' /\ GrowInv' /\ HeldInv'
  BY <1>1 DEF FetchInv, EditionsInv, GrowInv, HeldInv, HeldAt, Lists
<1>4. CycleInv'
  BY <1>1 DEF FetchInv, CycleInv, CycleShape, PlanInv, LoadedInv, InStep, Wiped
<1>5. cache' \in [Reports -> 0..MaxRevision] /\ cache'[r] = 0
      /\ \A p \in Reports : p # r => cache'[p] = cache[p]
  BY <1>1, PublisherAssumption DEF FetchInv, StoreTypeOK
<1>6. StoreTypeOK'
  BY <1>1, <1>5 DEF FetchInv, StoreTypeOK
<1>7. CacheInv'
  <2>1. \A p \in Reports : best[p] \in 0..Over
    BY DEF FetchInv, StoreTypeOK
  <2>2. ASSUME NEW p \in Reports
        PROVE  cache'[p] <= best[p]
    BY <1>5, <2>1, PublisherAssumption DEF FetchInv, CacheInv, Over
  <2>3. \A p \in purged' : cache'[p] = 0
    BY <1>1, <1>5 DEF FetchInv, CacheInv, StoreTypeOK
  <2>4. QED BY <1>1, <1>2, <2>2, <2>3 DEF CacheInv
<1>8. BoundInv'
  BY <1>1, <1>2 DEF FetchInv, BoundInv, HeldAt, Lists, Accepted
<1>9. CachedIsHeld' /\ NoRollback'
  BY <1>1, <1>2, <1>5 DEF FetchInv, CachedIsHeld, NoRollback
<1>10. HeldIsStored'
  <2>1. ASSUME Never("deletes"), NEW s \in Shards, NEW i \in 1..Len(editions),
               held[s].generation > 0, editions[i].generation[s] = held[s].generation,
               NEW q \in Content(editions[i], s) \ Unreadable
        PROVE  cache'[q.id] >= q.revision \/ best[q.id] = Over \/ q.id \in purged'
    <3>1. q.id \in Reports
      BY DEF Content, Query
    <3>2. cache[q.id] >= q.revision \/ best[q.id] = Over \/ q.id \in purged
      BY <2>1 DEF FetchInv, HeldIsStored
    <3>3. QED BY <1>1, <1>5, <3>1, <3>2
  <2>2. QED BY <1>1, <1>2, <2>1 DEF HeldIsStored
<1>11. QED BY <1>2, <1>3, <1>4, <1>6, <1>7, <1>8, <1>9, <1>10 DEF FetchInv

(* After everything is deleted the store is as new, whatever a cycle still carries. *)
LEMMA DeletingKeeps ==
  ASSUME FetchInv, DeleteAll
  PROVE  FetchInv'
<1>1. /\ UNCHANGED <<editions, edgeFrom, cycle>> /\ Spend("deletes")
      /\ watch' = {} /\ held' = [s \in Shards |-> NotHeld] /\ cache' = [r \in Reports |-> 0]
      /\ issued' = 0 /\ index' = 0 /\ best' = [r \in Reports |-> 0] /\ purged' = {}
  BY DEF DeleteAll, publisherVars
<1>2. ScenarioTypeOK' /\ LeftInv' /\ ~Never("deletes")'
  BY <1>1, Spent DEF FetchInv, Events
<1>3. EditionsInv' /\ GrowInv'
  BY <1>1 DEF FetchInv, EditionsInv, GrowInv
<1>4. Len(editions) \in Nat
  BY EditionsRange DEF FetchInv
<1>5. StoreTypeOK'
  BY <1>1, <1>4, PublisherAssumption DEF StoreTypeOK, NotHeld, Over
<1>6. CycleInv'
  <2>1. CycleShape' /\ PlanInv'
    BY <1>1 DEF FetchInv, CycleInv, CycleShape, PlanInv
  <2>2. Wiped'
    BY <1>1 DEF Wiped
  <2>3. QED BY <1>2, <2>1, <2>2 DEF CycleInv, LoadedInv
<1>7. HeldInv' /\ CacheInv' /\ BoundInv'
  BY <1>1, <1>2 DEF HeldInv, HeldAt, CacheInv, BoundInv
<1>8. CachedIsHeld' /\ NoRollback' /\ HeldIsStored'
  BY <1>1 DEF CachedIsHeld, NoRollback, HeldIsStored, NotHeld
<1>9. QED BY <1>2, <1>3, <1>5, <1>6, <1>7, <1>8 DEF FetchInv

(* A publication adds an edition, and is in no way a change of the device. *)
LEMMA PublishingKeeps ==
  ASSUME FetchInv, PublisherStep
  PROVE  FetchInv'
<1>1. /\ Publish \/ EdgesRefresh
      /\ UNCHANGED <<watch, held, cache, issued, index, cycle, best, purged, scenario>>
  BY DEF PublisherStep, storeVars, historyVars
<1>2. EditionsInv' /\ GrowInv' /\ Grown
  BY <1>1, Published DEF FetchInv
<1>3. /\ Len(editions) \in Nat /\ Len(editions') \in Nat
      /\ \A bound \in Nat : bound <= Len(editions) => 1..bound \subseteq 1..Len(editions)
      /\ 1..Len(editions) \subseteq 1..Len(editions') /\ 0..Len(editions) \subseteq 0..Len(editions')
  <2>1. Len(editions) \in Nat /\ Len(editions') \in Nat
    BY <1>2, EditionsRange, LenProperties DEF FetchInv, EditionsInv
  <2>2. QED BY <1>2, <2>1 DEF Grown
<1>4. ScenarioTypeOK' /\ LeftInv'
  BY <1>1 DEF FetchInv, ScenarioTypeOK, LeftInv
<1>5. StoreTypeOK'
  BY <1>1, <1>3 DEF FetchInv, StoreTypeOK
<1>6. \A e \in 1..Len(editions) :
        /\ ListedShards(editions'[e]) = ListedShards(editions[e])
        /\ \A s \in Shards : Lists(e, s)' = Lists(e, s)
  BY <1>2 DEF Grown, Lists
<1>7. ASSUME NEW s \in Shards, NEW bound \in Nat, NEW later \in Nat, bound <= Len(editions), bound <= later,
             HeldAt(held[s], s, bound)
      PROVE  HeldAt(held[s], s, later)'
  <2>1. CASE held[s] = NotHeld
    BY <1>1, <2>1 DEF HeldAt
  <2>2. CASE held[s] # NotHeld
    <3>1. PICK e \in 1..bound : /\ s \in ListedShards(editions[e])
                                /\ held[s] = [generation |-> editions[e].generation[s], ids |-> Lists(e, s)]
      BY <1>7, <2>2 DEF HeldAt
    <3>2. e \in 1..Len(editions) /\ e \in 1..later
      BY <1>3, <1>7
    <3>3. editions'[e] = editions[e] /\ Lists(e, s)' = Lists(e, s)
      BY <1>2, <1>6, <3>2 DEF Grown
    <3>4. /\ s \in ListedShards(editions'[e])
          /\ held'[s] = [generation |-> editions'[e].generation[s], ids |-> Lists(e, s)']
      BY <1>1, <3>1, <3>3
    <3>5. QED BY <3>2, <3>4 DEF HeldAt
  <2>3. QED BY <2>1, <2>2
<1>8. HeldInv'
  BY <1>2, <1>3, <1>7 DEF FetchInv, HeldInv, Grown
<1>9. CacheInv' /\ CachedIsHeld' /\ NoRollback'
  BY <1>1 DEF FetchInv, CacheInv, CachedIsHeld, NoRollback, Never
<1>10. BoundInv'
  <2>1. issued \in 0..Len(editions) /\ issued \in Nat /\ issued <= Len(editions)
    BY <1>3 DEF FetchInv, StoreTypeOK
  <2>2. \A r \in Reports : Accepted(r)' = Accepted(r)
    <3>1. issued # 0 => issued \in 1..Len(editions)
      BY <2>1
    <3>2. QED BY <1>1, <1>2, <3>1 DEF Accepted, Grown
  <2>3. QED BY <1>1, <1>7, <2>1, <2>2 DEF FetchInv, BoundInv, Never
<1>11. CycleInv'
  <2>1. CycleShape' /\ LoadedInv'
    BY <1>1 DEF FetchInv, CycleInv, CycleShape, LoadedInv, InStep, Wiped, Never
  <2>2. PlanInv'
    <3>1. SUFFICES ASSUME cycle # NoCycle
                   PROVE  PlanInv'
      BY <1>1 DEF PlanInv
    <3>2. /\ cycle.watch \subseteq Shards /\ cycle.loaded.issued \in 0..Len(editions')
          /\ cycle.loaded.index \in {0, cycle.loaded.issued}
      BY <1>3, <3>1 DEF FetchInv, CycleInv, PlanInv
    <3>3. CASE cycle.phase = "index"
      BY <1>1, <3>2, <3>3 DEF PlanInv
    <3>4. CASE cycle.phase # "index"
      <4>1. /\ cycle.inForce \in 1..Len(editions) /\ cycle.inForce >= cycle.loaded.issued
            /\ ~cycle.accepted => cycle.inForce = cycle.loaded.index
        BY <3>1, <3>4 DEF FetchInv, CycleInv, PlanInv
      <4>2. ListedShards(editions'[cycle.inForce]) = ListedShards(editions[cycle.inForce])
            /\ cycle.inForce \in 1..Len(editions')
        BY <1>3, <1>6, <4>1
      <4>3. cycle.phase = "bundles" => cycle.downloads \subseteq ListedShards(editions[cycle.inForce])
        BY <3>1 DEF FetchInv, CycleInv, PlanInv
      <4>4. cycle.phase = "write" => cycle.stored \subseteq ListedShards(editions[cycle.inForce])
        BY <3>1 DEF FetchInv, CycleInv, PlanInv
      <4>5. QED BY <1>1, <3>2, <4>1, <4>2, <4>3, <4>4 DEF PlanInv
    <3>5. QED BY <3>3, <3>4
  <2>3. QED BY <2>1, <2>2 DEF CycleInv
<1>12. HeldIsStored'
  <2>1. ASSUME Never("deletes") \/ Never("purges"), NEW s \in Shards, NEW i \in 1..Len(editions'),
               held[s].generation > 0, editions'[i].generation[s] = held[s].generation,
               NEW q \in Content(editions'[i], s) \ Unreadable
        PROVE  cache[q.id] >= q.revision \/ best[q.id] = Over \/ q.id \in purged
    <3>1. PICK e \in 1..Len(editions) :
            /\ Content(editions[e], s) # {} /\ held[s].generation = editions[e].generation[s]
      BY <2>1, HeldHasEdition DEF FetchInv, HeldInv
    <3>2. e \in 1..Len(editions') /\ editions'[e] = editions[e]
      BY <1>2, <1>3 DEF Grown
    <3>3. Content(editions'[i], s) = Content(editions'[e], s)
      <4>1. i <= e \/ e <= i
        BY <1>3, <3>2
      <4>2. editions'[i].generation[s] = editions'[e].generation[s]
        BY <2>1, <3>1, <3>2
      <4>3. Content(editions'[i], s) # {} /\ Content(editions'[e], s) # {}
        BY <3>1, <3>2
      <4>4. QED BY <1>2, <3>2, <4>1, <4>2, <4>3 DEF GrowInv, After
    <3>4. q \in Content(editions[e], s) \ Unreadable
      BY <3>2, <3>3
    <3>5. QED BY <2>1, <3>1, <3>4 DEF FetchInv, HeldIsStored
  <2>2. QED BY <1>1, <2>1 DEF HeldIsStored, Never
<1>13. QED BY <1>2, <1>4, <1>5, <1>8, <1>9, <1>10, <1>11, <1>12 DEF FetchInv

(* What the write stores of a report is what the edition in force has of it. *)
LEMMA WriteBounds ==
  ASSUME FetchInv, WriteEffect
  PROVE  /\ cycle.inForce \in 1..Len(editions) /\ editions[cycle.inForce] \in Edition
         /\ cycle.stored \subseteq ListedShards(editions[cycle.inForce])
         /\ InStep => issued <= cycle.inForce /\ issued' = cycle.inForce /\ index' = issued'
         /\ issued' \in 0..Len(editions) /\ index' \in {0, issued'}
         /\ ~InStep => Wiped /\ ~Never("deletes")
<1>1. /\ cycle.inForce \in 1..Len(editions) /\ cycle.inForce >= cycle.loaded.issued
      /\ ~cycle.accepted => cycle.inForce = cycle.loaded.index
      /\ cycle.loaded.index \in {0, cycle.loaded.issued}
      /\ cycle.stored \subseteq ListedShards(editions[cycle.inForce])
  BY DEF FetchInv, CycleInv, PlanInv, WriteEffect
<1>2. editions[cycle.inForce] \in Edition /\ Len(editions) \in Nat
  BY <1>1, EditionsRange DEF FetchInv
<1>3. issued \in 0..Len(editions) /\ index \in {0, issued}
  BY DEF FetchInv, StoreTypeOK
<1>4. InStep \/ (Wiped /\ ~Never("deletes"))
  BY DEF FetchInv, CycleInv, LoadedInv, WriteEffect
<1>5. CASE cycle.accepted
  <2>1. issued' = cycle.inForce /\ index' = cycle.inForce
    BY <1>5 DEF WriteEffect
  <2>2. QED BY <1>1, <1>2, <1>3, <1>4, <2>1 DEF InStep
<1>6. CASE ~cycle.accepted
  <2>1. issued' = issued /\ index' = index
    BY <1>6 DEF WriteEffect
  <2>2. InStep => issued = cycle.inForce /\ index = cycle.inForce
    <3>1. ASSUME InStep
          PROVE  issued = cycle.inForce /\ index = cycle.inForce
      <4>1. cycle.inForce = index
        BY <1>1, <1>6, <3>1 DEF InStep
      <4>2. index # 0
        BY <1>1, <4>1
      <4>3. QED BY <1>3, <4>1, <4>2
    <3>2. QED BY <3>1
  <2>3. QED BY <1>1, <1>2, <1>3, <1>4, <2>1, <2>2
<1>7. QED BY <1>5, <1>6

(* In step, what the cycle makes of every shard is what the store then holds. *)
LEMMA HeldAsPlanned ==
  ASSUME FetchInv, WriteEffect, InStep, NEW s \in Shards
  PROVE  NowHeld[s] = held'[s]
<1>1. CASE s \in cycle.stored
  BY <1>1 DEF WriteEffect, NowHeld, Listed, Lists, Written
<1>2. CASE s \in Written \ cycle.stored
  <2>1. held'[s] = NotHeld
    BY <1>2 DEF WriteEffect
  <2>2. s \in Emptied(editions[cycle.inForce], cycle.loaded.held)
    BY <1>2 DEF Written
  <2>3. QED BY <1>2, <2>1, <2>2 DEF NowHeld
<1>3. CASE s \notin Written
  <2>1. held'[s] = held[s]
    BY <1>3 DEF WriteEffect, Written
  <2>2. QED BY <1>3, <2>1 DEF NowHeld, Written, InStep
<1>4. QED BY <1>1, <1>2, <1>3

(* With nothing deleted, what the write drops is over. *)
LEMMA DroppedIsOver ==
  ASSUME FetchInv, WriteEffect, Never("deletes"), NEW r \in Dropped
  PROVE  editions[cycle.inForce].reports[r] = Over
<1>1. InStep
  BY WriteBounds
<1>2. PICK s \in Written : r \in cycle.loaded.held[s].ids \ NowHeld[s].ids
  BY DEF Dropped
<1>3. s \in Shards
  BY WriteBounds DEF Written, Emptied, ListedShards
<1>4. r \in held[s].ids /\ r \notin held'[s].ids
  BY <1>1, <1>2, <1>3, HeldAsPlanned DEF InStep
<1>5. HeldAt(held[s], s, issued)
  BY <1>3 DEF FetchInv, BoundInv
<1>6. PICK e \in 1..issued : r \in Lists(e, s)
  BY <1>3, <1>4, <1>5, HeldHasEdition
<1>7. e \in 1..Len(editions) /\ e <= cycle.inForce /\ cycle.inForce \in 1..Len(editions)
  BY <1>1, <1>6, WriteBounds, EditionsRange DEF FetchInv, StoreTypeOK
<1>8. SUFFICES ASSUME editions[cycle.inForce].reports[r] # Over
               PROVE  FALSE
  OBVIOUS
<1>9. r \in Lists(cycle.inForce, s)
  BY <1>3, <1>6, <1>7, <1>8, StaysListed DEF FetchInv
<1>10. s \in ListedShards(editions[cycle.inForce])
  BY <1>3, <1>9 DEF Lists, ListedShards
<1>11. s \in cycle.stored
  BY <1>2, <1>10 DEF Written, Emptied
<1>12. held'[s].ids = Lists(cycle.inForce, s)
  BY <1>3, <1>11 DEF WriteEffect, Written
<1>13. QED BY <1>4, <1>9, <1>12

(* The state of a report that the edition in force knows bounds what the write leaves. *)
LEMMA WriteKeepsBound ==
  ASSUME FetchInv, WriteEffect, Never("deletes")
  PROVE  BoundInv' /\ \A r \in Reports : best[r] <= editions[cycle.inForce].reports[r]
<1>1. InStep /\ issued' = cycle.inForce /\ issued <= cycle.inForce
      /\ cycle.inForce \in 1..Len(editions) /\ editions[cycle.inForce] \in Edition
  BY WriteBounds
<1>2. /\ \A r \in Reports : best[r] \in Nat /\ cache[r] \in Nat /\ best'[r] \in Nat
      /\ Len(editions) \in Nat
      /\ issued \in 0..Len(editions)
  BY EditionsRange DEF FetchInv, StoreTypeOK, WriteEffect
<1>3. ASSUME NEW r \in Reports
      PROVE  best[r] <= editions[cycle.inForce].reports[r]
  <2>1. best[r] <= Accepted(r)
    BY DEF FetchInv, BoundInv
  <2>2. editions[cycle.inForce].reports[r] \in Nat
    BY <1>1, EditionTyped
  <2>3. CASE issued = 0
    BY <1>2, <2>1, <2>2, <2>3 DEF Accepted
  <2>4. CASE issued # 0
    <3>1. issued \in 1..Len(editions)
      BY <1>2, <2>4
    <3>2. editions[issued].reports[r] <= editions[cycle.inForce].reports[r]
      BY <1>1, <3>1 DEF FetchInv, GrowInv, After
    <3>3. editions[issued].reports[r] \in Nat
      BY <3>1, EditionTyped, EditionsRange DEF FetchInv
    <3>4. QED BY <1>2, <2>1, <2>2, <2>4, <3>2, <3>3 DEF Accepted
  <2>5. QED BY <2>3, <2>4
<1>4. ASSUME NEW r \in Reports
      PROVE  best'[r] <= Accepted(r)'
  <2>1. Accepted(r)' = editions[cycle.inForce].reports[r]
    BY <1>1 DEF Accepted, WriteEffect
  <2>2. editions[cycle.inForce].reports[r] \in Nat
    BY <1>1, EditionTyped
  <2>3. CASE r \in Removed
    <3>1. best'[r] = Over /\ editions[cycle.inForce].reports[r] = Over
      BY <2>3, DroppedIsOver DEF WriteEffect, Removed
    <3>2. QED BY <1>2, <2>1, <3>1
  <2>4. CASE r \notin Removed
    <3>1. best'[r] \in {best[r], cache'[r]} /\ cache'[r] \in Fetched(r) \cup {cache[r]}
      BY <2>4 DEF WriteEffect
    <3>2. cache[r] <= best[r]
      BY DEF FetchInv, CacheInv
    <3>3. CASE best'[r] \in {best[r], cache[r]}
      BY <1>2, <1>3, <2>1, <2>2, <3>2, <3>3
    <3>4. CASE best'[r] \in Fetched(r)
      BY <2>1, <2>2, <3>4, FetchedIsListed
    <3>5. QED BY <3>1, <3>3, <3>4
  <2>5. QED BY <2>3, <2>4
<1>5. ASSUME NEW s \in Shards
      PROVE  HeldAt(held[s], s, issued)
  BY DEF FetchInv, BoundInv
<1>6. ASSUME NEW s \in Shards
      PROVE  HeldAt(held'[s], s, cycle.inForce)
  <2>1. CASE s \in cycle.stored
    <3>1. held'[s] = [generation |-> editions[cycle.inForce].generation[s],
                      ids |-> Lists(cycle.inForce, s)]
      BY <2>1 DEF WriteEffect, Written
    <3>2. s \in ListedShards(editions[cycle.inForce]) /\ cycle.inForce \in 1..cycle.inForce
      BY <1>1, <2>1, WriteBounds
    <3>3. QED BY <3>1, <3>2 DEF HeldAt
  <2>2. CASE held'[s] = NotHeld
    BY <2>2 DEF HeldAt
  <2>3. CASE held'[s] = held[s]
    <3>1. 1..issued \subseteq 1..cycle.inForce
      BY <1>1, <1>2
    <3>2. QED BY <1>5, <2>3, <3>1 DEF HeldAt
  <2>4. QED BY <2>1, <2>2, <2>3 DEF WriteEffect
<1>7. \A s \in Shards : HeldAt(held[s], s, issued)'
  BY <1>1, <1>6 DEF HeldAt, Lists, WriteEffect
<1>8. QED BY <1>3, <1>4, <1>7 DEF BoundInv

LEMMA WriteKeepsHeld ==
  ASSUME FetchInv, WriteEffect
  PROVE  StoreTypeOK' /\ HeldInv' /\ CacheInv'
<1>1. /\ cycle.inForce \in 1..Len(editions) /\ cycle.stored \subseteq ListedShards(editions[cycle.inForce])
      /\ issued' \in 0..Len(editions) /\ index' \in {0, issued'}
  BY WriteBounds
<1>2. UNCHANGED <<editions, watch, scenario>> /\ purged' = {r \in purged : cache'[r] = 0}
  BY DEF WriteEffect
<1>3. StoreTypeOK'
  BY <1>1, <1>2 DEF FetchInv, StoreTypeOK, WriteEffect
<1>4. ASSUME NEW s \in Shards
      PROVE  HeldAt(held'[s], s, Len(editions))
  <2>1. CASE s \in cycle.stored
    <3>1. held'[s] = [generation |-> editions[cycle.inForce].generation[s],
                      ids |-> Lists(cycle.inForce, s)]
      BY <2>1 DEF WriteEffect, Written
    <3>2. QED BY <1>1, <2>1, <3>1 DEF HeldAt
  <2>2. CASE held'[s] = NotHeld
    BY <2>2 DEF HeldAt
  <2>3. CASE held'[s] = held[s]
    BY <2>3 DEF FetchInv, HeldInv
  <2>4. QED BY <2>1, <2>2, <2>3 DEF WriteEffect
<1>5. HeldInv'
  BY <1>2, <1>4 DEF HeldInv, HeldAt, Lists
<1>6. ASSUME NEW r \in Reports
      PROVE  cache'[r] <= best'[r]
  <2>1. Over \in Nat
    BY PublisherAssumption DEF Over
  <2>2. QED BY <2>1 DEF WriteEffect
<1>7. CacheInv'
  BY <1>2, <1>6 DEF FetchInv, CacheInv, Never
<1>8. QED BY <1>3, <1>5, <1>7

(* A report no longer listed by a shard that was written stays cached only while  *)
(* another followed shard still lists it.                                         *)
LEMMA WriteKeepsCachedHeld ==
  ASSUME FetchInv, WriteEffect
  PROVE  CachedIsHeld'
<1>1. SUFFICES ASSUME NEW r \in Reports, cache'[r] # 0
               PROVE  \E s \in Shards : r \in held'[s].ids
  BY DEF CachedIsHeld
<1>2. cycle.stored \subseteq Shards
  BY WriteBounds DEF ListedShards
<1>3. r \notin Removed /\ cache'[r] \in Fetched(r) \cup {cache[r]}
  BY <1>1 DEF WriteEffect
<1>4. CASE cache'[r] \in Fetched(r)
  <2>1. PICK s \in cycle.stored : r \in Lists(cycle.inForce, s)
    BY <1>4, FetchedIsListed
  <2>2. held'[s].ids = Lists(cycle.inForce, s)
    BY <1>2 DEF WriteEffect, Written
  <2>3. QED BY <1>2, <2>1, <2>2
<1>5. CASE cache'[r] = cache[r]
  <2>1. InStep
    BY <1>1, <1>5, WriteBounds DEF Wiped
  <2>2. PICK s \in Shards : r \in held[s].ids
    BY <1>1, <1>5 DEF FetchInv, CachedIsHeld
  <2>3. CASE s \notin Written \/ r \in held'[s].ids
    BY <2>2, <2>3 DEF WriteEffect, Written
  <2>4. CASE s \in Written /\ r \notin held'[s].ids
    <3>1. r \in cycle.loaded.held[s].ids \ NowHeld[s].ids
      BY <2>1, <2>2, <2>4, HeldAsPlanned DEF InStep
    <3>2. r \in Kept
      BY <1>3, <2>4, <3>1 DEF Dropped, Removed
    <3>3. PICK t \in Followed(editions[cycle.inForce], cycle.watch) : r \in NowHeld[t].ids
      BY <3>2 DEF Kept
    <3>4. t \in Shards
      <4>1. cycle.watch \subseteq Shards
        BY DEF FetchInv, CycleInv, PlanInv, WriteEffect
      <4>2. Cover(editions[cycle.inForce], cycle.watch) \subseteq Shards
        BY DEF Cover, ListedShards
      <4>3. QED BY <4>1, <4>2 DEF Followed
    <3>5. QED BY <2>1, <3>3, <3>4, HeldAsPlanned
  <2>5. QED BY <2>3, <2>4
<1>6. QED BY <1>3, <1>4, <1>5

LEMMA WriteKeepsNewest ==
  ASSUME FetchInv, WriteEffect
  PROVE  NoRollback'
<1>1. SUFFICES ASSUME Never("deletes"), NEW r \in Reports, cache'[r] # 0
               PROVE  cache'[r] >= best'[r]
  BY DEF NoRollback, WriteEffect, Never
<1>2. /\ best[r] \in Nat /\ cache[r] \in Nat /\ best'[r] \in Nat /\ cache'[r] \in Nat
      /\ r \notin Removed
  BY <1>1 DEF FetchInv, StoreTypeOK, WriteEffect
<1>3. /\ cache'[r] \in Fetched(r) \cup {cache[r]} /\ best'[r] \in {best[r], cache'[r]}
      /\ cache[r] <= cache'[r]
  BY <1>2 DEF WriteEffect
<1>4. best[r] <= editions[cycle.inForce].reports[r]
  BY <1>1, WriteKeepsBound
<1>5. CASE cache'[r] \in Fetched(r)
  <2>1. cache'[r] = editions[cycle.inForce].reports[r]
    BY <1>5, FetchedIsListed
  <2>2. QED BY <1>2, <1>3, <1>4, <2>1
<1>6. CASE cache'[r] = cache[r]
  <2>1. cache[r] >= best[r]
    BY <1>1, <1>6 DEF FetchInv, NoRollback
  <2>2. QED BY <1>2, <1>3, <1>6, <2>1
<1>7. QED BY <1>3, <1>5, <1>6

LEMMA WriteKeepsStored ==
  ASSUME FetchInv, WriteEffect
  PROVE  HeldIsStored'
<1>1. SUFFICES ASSUME Never("deletes") \/ Never("purges"), NEW s \in Shards,
                      NEW i \in 1..Len(editions), held'[s].generation > 0,
                      editions[i].generation[s] = held'[s].generation,
                      NEW q \in Content(editions[i], s) \ Unreadable
               PROVE  cache'[q.id] >= q.revision \/ best'[q.id] = Over \/ q.id \in purged'
  BY DEF HeldIsStored, WriteEffect, Never
<1>2. PICK r : r = q.id
  OBVIOUS
<1>3. r \in Reports /\ q.revision \in Nat /\ q.revision = editions[i].reports[r]
  BY <1>2, PublisherAssumption DEF Content, Query, Revisions
<1>4. /\ cycle.inForce \in 1..Len(editions) /\ cycle.stored \subseteq ListedShards(editions[cycle.inForce])
      /\ editions[cycle.inForce] \in Edition
  BY WriteBounds
<1>5. /\ best[r] \in Nat /\ cache[r] \in Nat /\ best'[r] \in 0..Over /\ cache'[r] \in Nat
      /\ best[r] \in 0..Over /\ Over \in Nat
  BY <1>3, PublisherAssumption DEF FetchInv, StoreTypeOK, WriteEffect, Over
<1>6. CASE r \in Removed
  BY <1>2, <1>3, <1>6 DEF WriteEffect
<1>7. CASE r \notin Removed /\ s \in cycle.stored
  <2>1. held'[s].generation = editions[cycle.inForce].generation[s]
    BY <1>7 DEF WriteEffect, Written
  <2>2. Content(editions[cycle.inForce], s) # {}
    BY <1>4, <1>7 DEF ListedShards
  <2>3. q \in Content(editions[cycle.inForce], s)
    BY <1>1, <1>4, <2>1, <2>2, SameContent DEF FetchInv
  <2>4. q.revision \in Fetched(r)
    BY <1>1, <1>2, <1>7, <2>3, ListedIsFetched
  <2>5. q.revision <= cache'[r]
    BY <1>3, <1>7, <2>4 DEF WriteEffect
  <2>6. QED BY <1>2, <1>3, <1>5, <2>5
<1>8. CASE r \notin Removed /\ s \notin cycle.stored
  <2>1. held'[s] = held[s]
    BY <1>1, <1>8 DEF WriteEffect, NotHeld
  <2>2. cache[r] >= q.revision \/ best[r] = Over \/ r \in purged
    BY <1>1, <1>2, <2>1 DEF FetchInv, HeldIsStored
  <2>3. /\ cache[r] <= cache'[r] /\ best[r] <= best'[r]
        /\ cache'[r] \in Fetched(r) \cup {cache[r]}
    BY <1>3, <1>8 DEF WriteEffect
  <2>4. CASE cache[r] >= q.revision \/ best[r] = Over
    BY <1>2, <1>3, <1>5, <2>3, <2>4
  <2>5. CASE r \in purged
    <3>1. CASE cache'[r] = 0
      BY <1>2, <2>5, <3>1 DEF WriteEffect
    <3>2. CASE cache'[r] # 0
      <4>1. Never("deletes") /\ cache[r] = 0
        BY <1>1, <2>5 DEF FetchInv, CacheInv
      <4>2. cache'[r] = editions[cycle.inForce].reports[r]
        BY <1>3, <2>3, <3>2, <4>1, FetchedIsListed
      <4>3. InStep /\ issued <= cycle.inForce
        BY <4>1, WriteBounds
      <4>4. PICK e \in 1..issued : /\ Content(editions[e], s) # {}
                                   /\ held[s].generation = editions[e].generation[s]
        BY <1>1, <2>1, <4>1, HeldHasEdition DEF FetchInv, BoundInv
      <4>5. e \in 1..Len(editions) /\ e <= cycle.inForce
        BY <1>4, <4>3, <4>4, EditionsRange DEF FetchInv, StoreTypeOK
      <4>6. q \in Content(editions[e], s)
        <5>1. editions[i].generation[s] = editions[e].generation[s] /\ Content(editions[i], s) # {}
          BY <1>1, <2>1, <4>4
        <5>2. Content(editions[i], s) = Content(editions[e], s)
          BY <1>1, <4>4, <4>5, <5>1, SameContent DEF FetchInv
        <5>3. QED BY <1>1, <5>2
      <4>7. q.revision = editions[e].reports[r]
        BY <1>2, <4>6 DEF Content
      <4>8. editions[e].reports[r] <= editions[cycle.inForce].reports[r]
        BY <1>3, <1>4, <4>5 DEF FetchInv, GrowInv, After
      <4>9. QED BY <1>2, <1>3, <1>5, <4>2, <4>7, <4>8
    <3>3. QED BY <3>1, <3>2
  <2>6. QED BY <2>2, <2>4, <2>5
<1>9. QED BY <1>6, <1>7, <1>8

LEMMA WriteKeeps ==
  ASSUME FetchInv, Write
  PROVE  FetchInv'
<1>1. WriteEffect
  BY Wrote DEF FetchInv
<1>2. UNCHANGED <<editions, edgeFrom, scenario>> /\ cycle' = NoCycle
  BY <1>1 DEF WriteEffect
<1>3. ScenarioTypeOK' /\ LeftInv' /\ EditionsInv' /\ GrowInv' /\ (Never("deletes")' => Never("deletes"))
  BY <1>2 DEF FetchInv, ScenarioTypeOK, LeftInv, EditionsInv, GrowInv, Never
<1>4. StoreTypeOK' /\ HeldInv' /\ CacheInv'
  BY <1>1, WriteKeepsHeld
<1>5. CycleInv'
  BY <1>2, CycleEnds
<1>6. BoundInv'
  <2>1. CASE Never("deletes")
    BY <1>1, <2>1, WriteKeepsBound
  <2>2. CASE ~Never("deletes")
    BY <1>3, <2>2 DEF BoundInv
  <2>3. QED BY <2>1, <2>2
<1>7. CachedIsHeld' /\ NoRollback' /\ HeldIsStored'
  BY <1>1, WriteKeepsCachedHeld, WriteKeepsNewest, WriteKeepsStored
<1>8. QED BY <1>3, <1>4, <1>5, <1>6, <1>7 DEF FetchInv

LEMMA FetchInvInductive == FetchInv /\ [Next]_triggeredVars => FetchInv'
<1> SUFFICES ASSUME FetchInv, [Next]_triggeredVars
             PROVE  FetchInv'
  OBVIOUS
<1>1. CASE \/ \E metered \in BOOLEAN : PutOffByGate(metered) \/ CycleStarts(metered)
           \/ StoreUnreadable \/ CycleFails \/ ProcessEnds \/ Tick \/ ClockSetBack
           \/ CycleGoesOn /\ ~Write
           \/ Elsewhere /\ WatchMoves
  BY <1>1, Quiet, QuietKeeps DEF FetchInv
<1>2. CASE CycleGoesOn /\ Write
  BY <1>2, WriteKeeps
<1>3. CASE Elsewhere /\ ~WatchMoves
  BY <1>3, PublishingKeeps, RetiringKeeps, DeletingKeeps, PurgeKeeps DEF Elsewhere
<1>4. CASE UNCHANGED triggeredVars
  <2>1. UNCHANGED <<editions, edgeFrom, held, cache, issued, index, best, purged, cycle, watch, scenario>>
    BY <1>4 DEF triggeredVars, vars, publisherVars, storeVars, historyVars
  <2>2. watch' \subseteq Shards /\ CycleInv'
    BY <2>1, CycleStays DEF FetchInv, StoreTypeOK
  <2>3. QED BY <2>1, <2>2, QuietKeeps DEF QuietEffect
<1>5. QED BY <1>1, <1>2, <1>3, <1>4 DEF Next, TriggerStep

-----------------------------------------------------------------------------
(* Theorems. *)

LEMMA FetchInvAlways == Spec => []FetchInv
<1>1. TriggeredInit => FetchInv
  BY Starts
<1>2. QED BY <1>1, FetchInvInductive, PTL DEF Spec

(* Whatever an edge, a lost document, a change of the watch list, a failed cycle or a  *)
(* clock does, no cached report is older than it has been known, nor known to be over. *)
THEOREM NeverRolledBack == Spec => []NoRollback
<1>1. FetchInv => NoRollback
  BY DEF FetchInv
<1>2. QED BY <1>1, FetchInvAlways, PTL

(* A report the fetcher took for ended has ended on the board: what it dropped was     *)
(* listed by an edition accepted before, and areas only widen.                         *)
THEOREM EndedIsEnded == Spec => []RemovedHasEnded
<1>1. FetchInv => RemovedHasEnded
  <2>1. SUFFICES ASSUME FetchInv, Never("deletes"), NEW r \in Reports, best[r] = Over
                 PROVE  Latest.reports[r] = Over
    BY DEF RemovedHasEnded
  <2>2. Over \in Nat \ {0} /\ Over <= Accepted(r)
    BY <2>1, PublisherAssumption DEF FetchInv, BoundInv, Over
  <2>3. issued \in 1..Len(editions) /\ Over <= editions[issued].reports[r]
    BY <2>1, <2>2, EditionsRange DEF FetchInv, StoreTypeOK, Accepted
  <2>4. Len(editions) \in 1..Len(editions) /\ issued <= Len(editions)
    BY <2>1, <2>3, EditionsRange DEF FetchInv
  <2>5. editions[issued].reports[r] <= Latest.reports[r]
    BY <2>1, <2>3, <2>4 DEF FetchInv, GrowInv, After, Latest
  <2>6. editions[issued].reports[r] \in Nat /\ Latest.reports[r] \in 0..Over
    BY <2>1, <2>3, EditionsRange, EditionTyped DEF FetchInv
  <2>7. QED BY <2>2, <2>3, <2>5, <2>6
<1>2. QED BY <1>1, FetchInvAlways, PTL

(* Nothing is cached that no held shard lists, whatever was deferred, unfollowed,      *)
(* emptied or deleted, under a cycle too.                                              *)
THEOREM CachedStaysHeld == Spec => []CachedIsHeld
<1>1. FetchInv => CachedIsHeld
  BY DEF FetchInv
<1>2. QED BY <1>1, FetchInvAlways, PTL

(* What a held generation lists is stored, is over or was purged.                      *)
THEOREM HeldStaysStored == Spec => []HeldIsStored
<1>1. FetchInv => HeldIsStored
  BY DEF FetchInv
<1>2. QED BY <1>1, FetchInvAlways, PTL
=============================================================================
