------------------------ MODULE ShardCompilerProofs ------------------------
(* Proofs about the compiler, the key ring it signs with and the phones that *)
(* read what it publishes, for every set of reports and shards, every key    *)
(* ring and every release of the app.                                        *)
EXTENDS Readers, FiniteSetTheorems, WellFoundedInduction, TLAPS

-----------------------------------------------------------------------------
(* The order of the naturals. *)

\* Three facts of the order, in the form the steps below take them.
LEMMA OrderIsAntisymmetric == \A m, n \in Nat : m <= n /\ n <= m => m = n
OBVIOUS

LEMMA BetweenEquals == \A a, b, c \in Nat : a <= b /\ b <= c /\ a = c => c = b
OBVIOUS

LEMMA BelowWhenNotEqual == \A a, m, n \in Nat : a <= m /\ m <= n /\ n # m => a < n
OBVIOUS

\* A nonempty finite set of naturals has a largest element: of the sets of elements above
\* one, finite all, one is minimal by inclusion.
LEMMA HasLargest ==
  ASSUME NEW S \in SUBSET Nat, S # {}, IsFiniteSet(S)
  PROVE  \E x \in S : \A y \in S : x >= y
<1> DEFINE Above(x) == {y \in S : y > x}
           T == {Above(x) : x \in S}
<1>1. T \subseteq FiniteSubsetsOf(S) /\ T # {}
  <2>1. \A x \in S : Above(x) \subseteq S /\ IsFiniteSet(Above(x))
    BY FS_Subset
  <2>2. QED BY <2>1 DEF FiniteSubsetsOf
<1>2. IsWellFoundedOn(StrictSubsetOrdering(S), FiniteSubsetsOf(S))
  BY FS_StrictSubsetOrderingWellFounded
<1>3. PICK U \in T : \A V \in T : <<V, U>> \notin StrictSubsetOrdering(S)
  <2> HIDE DEF T
  <2>1. QED BY <1>1, <1>2, WFMin
<1>4. PICK x \in S : U = Above(x)
  OBVIOUS
<1>5. ASSUME NEW y \in S, y > x PROVE FALSE
  <2>1. /\ \A z \in S : z > y => z > x
        /\ ~ (y > y)
    BY <1>5
  <2>2. PICK V \in T : V = Above(y)
    OBVIOUS
  <2>3. y \in U /\ y \notin V
    BY <1>4, <1>5, <2>1, <2>2, Zenon
  <2>4. V \subseteq U /\ U \subseteq S
    BY <1>4, <2>1, <2>2, Zenon
  <2>5. <<V, U>> \in StrictSubsetOrdering(S)
    BY <2>3, <2>4 DEF StrictSubsetOrdering
  <2>6. QED BY <1>3, <2>5
<1>6. QED BY <1>5

-----------------------------------------------------------------------------
(* The key ring. *)

(* A key that may sign is found when there is one, and none other is. *)
LEMMA SignerMaySign ==
  ASSUME NEW now \in Nat, MaySign(now) # {}
  PROVE  SignerAt(now) \in MaySign(now)
<1> DEFINE from == [k \in MaySign(now) |-> k.from]
           S == {k.from : k \in MaySign(now)}
<1>1. IsFiniteSet(MaySign(now)) /\ MaySign(now) \subseteq Ring
  BY RingAssumption, FS_Subset DEF MaySign, Accepts
<1>2. S \in SUBSET Nat /\ S # {}
  BY <1>1, RingAssumption DEF Accepts
<1>3. from \in Surjection(MaySign(now), S)
  BY Zenon DEF Surjection
<1>4. IsFiniteSet(S)
  BY <1>1, <1>3, FS_Surjection
<1>5. PICK x \in S : \A y \in S : x >= y
  BY <1>2, <1>4, HasLargest
<1>6. PICK k \in MaySign(now) : k.from = x
  OBVIOUS
<1>7. \A j \in MaySign(now) : j.from \in Nat /\ j.from <= k.from
  BY <1>1, <1>5, <1>6, RingAssumption DEF Accepts
<1>8. QED
  BY <1>7 DEF SignerAt

(* The id of a signer is a key's, or says that there is none. *)
LEMMA SignerNamed ==
  ASSUME NEW now \in Nat
  PROVE  /\ SignerAt(now).id \in Keys \cup {NoKey.id}
         /\ MaySign(now) # {} => SignerAt(now).id # NoKey.id
<1>1. CASE MaySign(now) = {}
  BY <1>1 DEF SignerAt
<1>2. CASE MaySign(now) # {}
  <2>1. SignerAt(now) \in Ring
    BY <1>2, SignerMaySign DEF MaySign
  <2>2. SignerAt(now).id \in Keys
    BY <2>1 DEF Keys
  <2>3. QED
    BY <1>2, <2>2, NoneIsNoKey DEF NoKey
<1>3. QED
  BY <1>1, <1>2

(* A release pins every key that will sign in its life: the key in force at   *)
(* any later second was signing, announced or inside its overlap when the     *)
(* release was cut (signerAt, trustedAt).                                     *)
THEOREM PinsOutlastRotation ==
  ASSUME NEW cut \in Nat, NEW now \in Nat, cut <= now, MaySign(now) # {}
  PROVE  SignerAt(now) \in TrustedAt(cut)
<1>1. SignerAt(now) \in Ring /\ Trusted(SignerAt(now), now)
  BY SignerMaySign DEF MaySign
<1>2. SignerAt(now).until \in Nat
  BY <1>1, RingAssumption DEF Accepts
<1>3. QED
  BY <1>1, <1>2 DEF Trusted, TrustedAt

-----------------------------------------------------------------------------
(* The compiler. *)

USE ReportsAssumption, BoundsAssumption
USE DEF SetReportStatus, PutShardIndexState, AddPendingCdnPaths, ClearPendingCdnPaths

(* Every step keeps every variable in its type. *)
LEMMA InitTypeOK == Init => TypeOK
BY DEF Init, TypeOK, Revisions

LEMMA FiledType == TypeOK => \A now \in Nat : Filed(now) \in [Shards -> SUBSET Query]
BY SignerNamed DEF TypeOK, Filed, FiledOf, SignedQuery, Broadcastable, Query, KeyIds

LEMMA NextGenerationType ==
  ASSUME NEW row \in [generation : Nat, content : SUBSET Query], NEW content \in SUBSET Query
  PROVE  NextGeneration(row, content) \in [generation : Nat, content : SUBSET Query]
BY DEF NextGeneration

LEMMA ReportStepTypeOK ==
  ASSUME TypeOK, NEW r \in Reports,
         Release(r) \/ Reject(r) \/ Widen(r) \/ End(r) \/ Expire(r)
  PROVE  TypeOK'
<1>1. CASE Release(r)
  BY <1>1 DEF TypeOK, Release, tableVars, storeVars, passVars, budgetVars
<1>2. CASE Reject(r)
  BY <1>2 DEF TypeOK, Reject, tableVars, storeVars, passVars, budgetVars
<1>3. CASE Widen(r)
  BY <1>3 DEF TypeOK, Widen, Revisions, tableVars, storeVars, passVars, budgetVars
<1>4. CASE End(r)
  BY <1>4 DEF TypeOK, End, tableVars, storeVars, passVars, budgetVars
<1>5. CASE Expire(r)
  BY <1>5 DEF TypeOK, Expire, tableVars, storeVars, passVars, budgetVars
<1>6. QED BY <1>1, <1>2, <1>3, <1>4, <1>5

LEMMA WantedType ==
  TypeOK => Wanted \subseteq BundleKey /\ WantedListing \in Listing /\ StoredKeys \subseteq BundleKey
BY DEF TypeOK, Wanted, WantedListing, StoredKeys, KeyOf, Listed, BundleKey, Bundle, Listing

LEMMA PassStepTypeOK ==
  ASSUME TypeOK, PassStep
  PROVE  TypeOK'
<1> USE DEF TypeOK
<1>1. CASE Plan
  <2> DEFINE planned == [s \in Shards |-> NextGeneration(generations[s], Filed(clock)[s])]
  <2>1. Filed(clock) \in [Shards -> SUBSET Query]
    BY FiledType
  <2>2. planned \in [Shards -> [generation : Nat, content : SUBSET Query]]
    BY <2>1, NextGenerationType
  <2>3. generations' = planned /\ changed' \subseteq Shards
    BY <1>1 DEF Plan
  <2>4. QED
    BY <1>1, <2>2, <2>3 DEF Plan, reportVars, storeVars, budgetVars
<1>2. CASE Compare
  <2>1. WantedListing \in Listing /\ Wanted \subseteq BundleKey /\ StoredKeys \subseteq BundleKey
    BY WantedType
  <2>2. SignerAt(passNow).id \in KeyIds
    BY SignerNamed DEF KeyIds
  <2>3. \A u \in BOOLEAN : IssuedAt(u) \in Nat
    BY DEF IssuedAt, Index, Absent
  <2>4. draft' \in Index \cup {Absent}
    BY <1>2, <2>1, <2>2, <2>3 DEF Compare, Index
  <2>5. toWrite' \subseteq BundleKey /\ toDelete' \subseteq BundleKey
    BY <1>2, <2>1 DEF Compare
  <2>6. cdnPending' \subseteq BundleKey \cup {IndexPath}
    BY <1>2, <2>1 DEF Compare, PathsToPurge
  <2>7. QED
    BY <1>2, <2>4, <2>5, <2>6 DEF Compare, reportVars, storeVars, budgetVars
<1>3. CASE PutIndex
  BY <1>3 DEF PutIndex, EdgeCopyBecomesStale, reportVars, tableVars, budgetVars
<1>4. CASE RecordIndex
  BY <1>4 DEF RecordIndex, reportVars, storeVars, budgetVars
<1>5. CASE Invalidate
  BY <1>5 DEF Invalidate, PassEnds, reportVars, budgetVars
<1>6. CASE \E k \in toWrite : PutBundle(k)
  <2>1. PICK k \in toWrite : PutBundle(k)
    BY <1>6
  <2>2. [shard |-> k.shard, generation |-> k.generation,
         queries |-> generations[k.shard].content] \in Bundle
    BY <2>1 DEF BundleKey, Bundle
  <2>3. bundles' \subseteq Bundle /\ written' \subseteq Bundle
    BY <2>1, <2>2 DEF PutBundle
  <2>4. stale' \subseteq BundleKey \cup {IndexPath}
    BY <2>1 DEF PutBundle, EdgeCopyBecomesStale
  <2>5. QED
    BY <2>1, <2>3, <2>4 DEF PutBundle, reportVars, tableVars, budgetVars
<1>7. CASE \E k \in toDelete : DeleteBundle(k)
  <2>1. PICK k \in toDelete : DeleteBundle(k)
    BY <1>7
  <2>2. stale' \subseteq BundleKey \cup {IndexPath} /\ bundles' \subseteq Bundle
    BY <2>1 DEF DeleteBundle, EdgeCopyBecomesStale
  <2>3. QED
    BY <2>1, <2>2 DEF DeleteBundle, reportVars, tableVars, budgetVars
<1>8. QED BY <1>1, <1>2, <1>3, <1>4, <1>5, <1>6, <1>7 DEF PassStep

LEMMA NextTypeOK == TypeOK /\ [Next]_vars => TypeOK'
<1> SUFFICES ASSUME TypeOK, [Next]_vars PROVE TypeOK'
  OBVIOUS
<1>1. CASE \E r \in Reports : Release(r) \/ Reject(r) \/ Widen(r) \/ End(r) \/ Expire(r)
  BY <1>1, ReportStepTypeOK
<1>2. CASE Tick
  BY <1>2 DEF TypeOK, Tick, reportVars, tableVars, storeVars, passVars, budgetVars
<1>3. CASE StepBack
  BY <1>3 DEF TypeOK, StepBack, reportVars, tableVars, storeVars, passVars
<1>4. CASE PassStep
  BY <1>4, PassStepTypeOK
<1>5. CASE PassDies
  BY <1>5 DEF TypeOK, PassDies, PassEnds, reportVars, tableVars, storeVars
<1>6. CASE LoseObject
  BY <1>6 DEF TypeOK, LoseObject, reportVars, tableVars, passVars
<1>7. CASE UNCHANGED vars
  BY <1>7 DEF TypeOK, vars, reportVars, tableVars, storeVars, passVars, budgetVars
<1>8. QED BY <1>1, <1>2, <1>3, <1>4, <1>5, <1>6, <1>7 DEF Next

(* Every reachable state of the server, the store and a pass is well typed. *)
THEOREM TypeCorrect == Spec => []TypeOK
BY InitTypeOK, NextTypeOK, PTL DEF Spec

-----------------------------------------------------------------------------
(* Only released reports are ever published *)

\* Released is final, so it is enough that generation rows and bundles hold
\* queries whose report is released, at a revision the report has reached.
Genuine(queries) ==
  \A q \in queries : review[q.id] = "released" /\ q.revision <= revision[q.id]
GenuineInv ==
  /\ \A s \in Shards : Genuine(generations[s].content)
  /\ \A b \in written : Genuine(b.queries)

LEMMA ReviewMovesForward ==
  ASSUME TypeOK, [Next]_vars
  PROVE  \A r \in Reports : /\ review[r] = "released" => review'[r] = "released"
                            /\ revision[r] <= revision'[r]
<1>1. CASE \E r \in Reports : Release(r) \/ Reject(r) \/ Widen(r) \/ End(r) \/ Expire(r)
  <2>1. PICK r \in Reports : Release(r) \/ Reject(r) \/ Widen(r) \/ End(r) \/ Expire(r)
    BY <1>1
  <2>2. CASE Release(r)
    BY <2>2 DEF TypeOK, Revisions, Release
  <2>3. CASE Reject(r)
    BY <2>3 DEF TypeOK, Revisions, Reject
  <2>4. CASE Widen(r)
    BY <2>4 DEF TypeOK, Revisions, Widen
  <2>5. CASE End(r)
    BY <2>5 DEF TypeOK, Revisions, End
  <2>6. CASE Expire(r)
    BY <2>6 DEF TypeOK, Revisions, Expire
  <2>7. QED BY <2>1, <2>2, <2>3, <2>4, <2>5, <2>6
<1>2. CASE ~ \E r \in Reports : Release(r) \/ Reject(r) \/ Widen(r) \/ End(r) \/ Expire(r)
  <2>1. review' = review /\ revision' = revision
    BY <1>2 DEF Next, vars, reportVars, Tick, StepBack, PassDies, LoseObject, PassStep,
                Plan, Compare, PutBundle, PutIndex, RecordIndex, DeleteBundle, Invalidate
  <2>2. QED BY <2>1 DEF TypeOK, Revisions
<1>3. QED BY <1>1, <1>2

LEMMA FiledIsGenuine ==
  TypeOK => \A now \in Nat : \A s \in Shards : Genuine(Filed(now)[s])
BY DEF TypeOK, Filed, FiledOf, SignedQuery, Broadcastable, Genuine, Revisions

\* What a step may add to the generation rows and to the bundles ever put.
LEMMA ContentSteps ==
  ASSUME TypeOK, [Next]_vars
  PROVE  /\ \A s \in Shards : generations'[s].content \in {generations[s].content, Filed(clock)[s]}
         /\ \A b \in written' \ written : \E s \in Shards : b.queries = generations[s].content
<1>1. CASE Plan
  BY <1>1 DEF TypeOK, Plan, NextGeneration, storeVars
<1>2. CASE \E k \in toWrite : PutBundle(k)
  BY <1>2 DEF TypeOK, PutBundle, tableVars, BundleKey
<1>3. CASE ~Plan /\ ~ \E k \in toWrite : PutBundle(k)
  <2>1. UNCHANGED <<generations, written>>
    BY <1>3 DEF Next, vars, tableVars, storeVars, Release, Reject, Widen, End, Expire,
                Tick, StepBack, PassDies, LoseObject, PassStep,
                Compare, PutIndex, RecordIndex, DeleteBundle, Invalidate
  <2>2. QED BY <2>1
<1>4. QED BY <1>1, <1>2, <1>3

LEMMA GenuineStep == TypeOK /\ GenuineInv /\ [Next]_vars => GenuineInv'
<1> SUFFICES ASSUME TypeOK, GenuineInv, [Next]_vars PROVE GenuineInv'
  OBVIOUS
<1>1. \A queries \in SUBSET Query : Genuine(queries) => Genuine(queries)'
  BY ReviewMovesForward, NextTypeOK, SMTT(30) DEF Genuine, Query, TypeOK, Revisions
<1>2. \A s \in Shards : Genuine(generations[s].content) /\ Genuine(Filed(clock)[s])
  BY FiledIsGenuine DEF GenuineInv, TypeOK
<1>3. Filed(clock) \in [Shards -> SUBSET Query]
  BY FiledType DEF TypeOK
<1>4. (\A s \in Shards : Genuine(generations[s].content))'
  <2> SUFFICES ASSUME NEW s \in Shards PROVE Genuine(generations[s].content)'
    OBVIOUS
  <2>1. generations'[s].content \in {generations[s].content, Filed(clock)[s]}
    BY ContentSteps
  <2>2. /\ generations[s].content \in SUBSET Query
        /\ Filed(clock)[s] \in SUBSET Query
    BY <1>3 DEF TypeOK
  <2>3. \A queries \in {generations[s].content, Filed(clock)[s]} :
          \A q \in queries : review'[q.id] = "released" /\ q.revision <= revision'[q.id]
    BY <1>1, <1>2, <2>2 DEF Genuine
  <2>4. QED BY <2>1, <2>3 DEF Genuine
<1>5. (\A b \in written : Genuine(b.queries))'
  <2> SUFFICES ASSUME NEW b \in written' PROVE Genuine(b.queries)'
    OBVIOUS
  <2>1. b.queries \in SUBSET Query /\ Genuine(b.queries)
    <3>1. CASE b \in written
      BY <3>1 DEF GenuineInv, TypeOK, Bundle
    <3>2. CASE b \notin written
      BY <3>2, <1>2, ContentSteps DEF TypeOK
    <3>3. QED BY <3>1, <3>2
  <2>2. QED BY <1>1, <2>1
<1>6. QED BY <1>4, <1>5 DEF GenuineInv

(* No bundle ever put, by a pass that finished or one that died, holds a      *)
(* report the operator did not release or a revision it never had: the gate   *)
(* of listBroadcastable is the only way into a bundle.                        *)
THEOREM OnlyReleasedIsPublished == Spec => []OnlyReleasedPublished
<1>1. Init => GenuineInv
  BY DEF Init, GenuineInv, Genuine
<1>2. GenuineInv => OnlyReleasedPublished
  BY DEF GenuineInv, Genuine, OnlyReleasedPublished
<1>3. QED BY <1>1, <1>2, GenuineStep, TypeCorrect, PTL DEF Spec

-----------------------------------------------------------------------------
(* A bundle's key determines its contents for ever *)

\* Bundles are put only in the phase after the comparison, and only wanted ones.
WriteListInv ==
  /\ phase \in {"idle", "planned"} => toWrite = {}
  /\ toWrite \subseteq Wanted

\* A row is at or past every number put for its shard; while it is at one, it
\* still holds that bundle's queries, unless the shard has emptied since.
NumberingInv ==
  /\ WriteListInv
  /\ \A b \in written : b.generation <= generations[b.shard].generation
  /\ \A b \in written : b.generation = generations[b.shard].generation
                         => generations[b.shard].content \in {b.queries, {}}
  /\ OneContentPerKey

LEMMA PlanRows ==
  ASSUME TypeOK, Plan, NEW s \in Shards
  PROVE  /\ generations'[s] \in [generation : Nat, content : SUBSET Query]
         /\ generations[s].generation <= generations'[s].generation
         /\ generations'[s].generation = generations[s].generation
              => generations'[s].content \in {generations[s].content, {}}
<1>1. Filed(clock)[s] \in SUBSET Query
  BY FiledType DEF TypeOK
<1>2. generations'[s] = NextGeneration(generations[s], Filed(clock)[s])
  BY DEF Plan
<1>3. QED BY <1>1, <1>2 DEF NextGeneration, TypeOK

LEMMA NumberingStep == TypeOK /\ NumberingInv /\ [Next]_vars => NumberingInv'
<1> SUFFICES ASSUME TypeOK, NumberingInv, [Next]_vars PROVE NumberingInv'
  OBVIOUS
<1>1. CASE Plan
  <2>1. WriteListInv'
    BY <1>1 DEF Plan, WriteListInv, NumberingInv
  <2>2. written' = written
    BY <1>1 DEF Plan, storeVars
  <2>3. ASSUME NEW b \in written
        PROVE  /\ b.generation <= generations'[b.shard].generation
               /\ b.generation = generations'[b.shard].generation
                    => generations'[b.shard].content \in {b.queries, {}}
    <3>1. b.shard \in Shards /\ b.generation \in Nat
      BY DEF TypeOK, Bundle
    <3>2. generations[b.shard].generation \in Nat
      BY <3>1 DEF TypeOK
    <3>3. /\ b.generation <= generations[b.shard].generation
          /\ b.generation = generations[b.shard].generation
               => generations[b.shard].content \in {b.queries, {}}
      BY DEF NumberingInv
    <3>4. /\ generations'[b.shard].generation \in Nat
          /\ generations[b.shard].generation <= generations'[b.shard].generation
          /\ generations'[b.shard].generation = generations[b.shard].generation
               => generations'[b.shard].content \in {generations[b.shard].content, {}}
      BY <1>1, <3>1, PlanRows
    <3>5. b.generation <= generations'[b.shard].generation
      BY <3>1, <3>2, <3>3, <3>4
    <3>6. ASSUME b.generation = generations'[b.shard].generation
          PROVE  generations[b.shard].generation = generations'[b.shard].generation
      <4>1. /\ generations[b.shard].generation <= generations'[b.shard].generation
            /\ generations'[b.shard].generation <= generations[b.shard].generation
        BY <3>3, <3>4, <3>6
      <4>2. QED BY <3>2, <3>4, <4>1, OrderIsAntisymmetric, Zenon
    <3>7. ASSUME b.generation = generations'[b.shard].generation
          PROVE  generations'[b.shard].content \in {b.queries, {}}
      <4>1. generations[b.shard].content \in {b.queries, {}}
        BY <3>3, <3>6, <3>7
      <4>2. generations'[b.shard].content \in {generations[b.shard].content, {}}
        BY <3>4, <3>6, <3>7
      <4>3. QED BY <4>1, <4>2
    <3>8. QED BY <3>5, <3>7
  <2>4. OneContentPerKey'
    BY <2>2 DEF NumberingInv, OneContentPerKey
  <2>5. QED BY <2>1, <2>2, <2>3, <2>4 DEF NumberingInv
<1>2. CASE Compare
  <2>1. UNCHANGED <<generations, written>> /\ WriteListInv'
    BY <1>2 DEF Compare, WriteListInv, storeVars, Wanted, Listed
  <2>2. QED BY <2>1 DEF NumberingInv, OneContentPerKey
<1>3. CASE \E k \in toWrite : PutBundle(k)
  <2>1. PICK k \in toWrite : PutBundle(k)
    BY <1>3
  <2> DEFINE new == [shard |-> k.shard, generation |-> k.generation,
                     queries |-> generations[k.shard].content]
  <2>2. generations' = generations /\ written' = written \cup {new}
    BY <2>1 DEF PutBundle, tableVars
  <2>3. WriteListInv'
    BY <2>1, <2>2 DEF PutBundle, NumberingInv, WriteListInv, Wanted, Listed
  <2>4. /\ k.shard \in Shards
        /\ k.generation = generations[k.shard].generation
        /\ generations[k.shard].content # {}
    BY DEF NumberingInv, WriteListInv, Wanted, Listed
  <2>5. \A b \in written : KeyOf(b) = KeyOf(new) => b = new
    BY <2>4 DEF NumberingInv, KeyOf, TypeOK, Bundle
  <2>6. OneContentPerKey'
    BY <2>2, <2>5 DEF NumberingInv, OneContentPerKey
  <2>7. \A b \in written' :
          /\ b.generation <= generations[b.shard].generation
          /\ b.generation = generations[b.shard].generation
               => generations[b.shard].content \in {b.queries, {}}
    <3>1. new.generation <= generations[new.shard].generation
      BY <2>4 DEF TypeOK
    <3>2. generations[new.shard].content = new.queries
      OBVIOUS
    <3>3. QED BY <2>2, <3>1, <3>2 DEF NumberingInv
  <2>8. QED BY <2>2, <2>3, <2>6, <2>7 DEF NumberingInv
<1>4. CASE ~Plan /\ ~Compare /\ ~ \E k \in toWrite : PutBundle(k)
  <2>1. generations' = generations /\ written' = written
    BY <1>4 DEF Next, vars, tableVars, storeVars, Release, Reject, Widen, End, Expire,
                Tick, StepBack, PassDies, LoseObject, PassStep,
                PutIndex, RecordIndex, DeleteBundle, Invalidate
  <2>2. toWrite' = {} \/ (toWrite' = toWrite /\ (phase' \in {"idle", "planned"} => phase' = phase))
    BY <1>4 DEF Next, vars, passVars, PassEnds, Release, Reject, Widen, End, Expire,
                Tick, StepBack, PassDies, LoseObject, PassStep,
                PutIndex, RecordIndex, DeleteBundle, Invalidate
  <2>3. WriteListInv'
    BY <2>1, <2>2 DEF NumberingInv, WriteListInv, Wanted, Listed
  <2>4. QED BY <2>1, <2>3 DEF NumberingInv, OneContentPerKey
<1>5. QED BY <1>1, <1>2, <1>3, <1>4

(* Two bundles ever put under one key hold the same queries, whatever passes  *)
(* died in between and however often the shard emptied or the key rotated.    *)
THEOREM OneContentPerKeyForever == Spec => []OneContentPerKey
<1>1. Init => NumberingInv
  BY DEF Init, NumberingInv, WriteListInv, OneContentPerKey
<1>2. NumberingInv => OneContentPerKey
  BY DEF NumberingInv
<1>3. QED BY <1>1, <1>2, NumberingStep, TypeCorrect, PTL DEF Spec

-----------------------------------------------------------------------------
(* The index never names a missing bundle *)

\* Where a pass stands: what it has yet to write covers what the store lacks,
\* what it will delete is not wanted, and the index is either the recorded one or
\* the one this pass is about to record.
ProgressInv ==
  /\ WriteListInv
  /\ phase = "planned" => MaySign(passNow) # {}
  /\ phase # "record" => index = indexState
  /\ phase = "record" => index = draft
  /\ phase \in {"bundles", "record", "deletes"} => Wanted \subseteq StoredKeys \cup toWrite
  /\ phase = "bundles" =>
       (IF draft = Absent THEN index.shards ELSE draft.shards) = WantedListing
  /\ phase \in {"record", "deletes"} => toWrite = {} /\ index.shards = WantedListing
  /\ toDelete \cap Wanted = {}
  /\ phase \in {"idle", "planned"} => toDelete = {}
  /\ Closed

LEMMA NamedIsWanted ==
  ASSUME NEW i, i.shards = WantedListing
  PROVE  NamedBy(i) \subseteq Wanted
BY DEF NamedBy, WantedListing, Wanted

LEMMA KeysAfterPut ==
  ASSUME TypeOK, NEW k \in toWrite, PutBundle(k)
  PROVE  StoredKeys' = StoredKeys \cup {k}
<1> DEFINE new == [shard |-> k.shard, generation |-> k.generation,
                   queries |-> generations[k.shard].content]
<1>1. bundles' = bundles \cup {new}
  BY DEF PutBundle
<1>2. KeyOf(new) = k
  BY DEF KeyOf, TypeOK, BundleKey
<1>3. QED BY <1>1, <1>2 DEF StoredKeys

LEMMA KeysAfterDelete ==
  ASSUME NEW k \in toDelete, DeleteBundle(k)
  PROVE  StoredKeys' = StoredKeys \ {k}
BY DEF DeleteBundle, StoredKeys

LEMMA LossesStay == TypeOK /\ [Next]_vars /\ losses' = 0 => losses = 0
<1>1. CASE LoseObject
  BY <1>1 DEF TypeOK, LoseObject
<1>2. CASE ~LoseObject
  BY <1>2 DEF Next, vars, budgetVars, Release, Reject, Widen, End, Expire, Tick, StepBack,
              PassDies, PassStep, Plan, Compare, PutBundle, PutIndex, RecordIndex,
              DeleteBundle, Invalidate
<1>3. QED BY <1>1, <1>2

\* A step outside the pass leaves everything ProgressInv speaks of alone.
LEMMA OutsideThePass ==
  ASSUME losses' = 0, TypeOK, [Next]_vars, ~PassStep, ~PassDies
  PROVE  UNCHANGED <<generations, indexState, bundles, index, phase, passNow, toWrite, toDelete, draft>>
<1>1. ~LoseObject
  BY DEF TypeOK, LoseObject
<1>2. QED
  BY <1>1 DEF Next, vars, tableVars, storeVars, passVars,
              Release, Reject, Widen, End, Expire, Tick, StepBack

LEMMA ProgressStep ==
  ASSUME losses' = 0, ~DiesAfterIndexPut, TypeOK, ProgressInv, [Next]_vars
  PROVE  ProgressInv'
<1> USE DEF ProgressInv, WriteListInv
<1>1. CASE Plan
  BY <1>1 DEF Plan, storeVars, Closed, NamedBy, StoredKeys
<1>2. CASE Compare
  <2>1. UNCHANGED <<generations, indexState, bundles, index>> /\ phase = "planned" /\ phase' = "bundles"
    BY <1>2 DEF Compare, storeVars
  <2>2. Wanted' = Wanted /\ StoredKeys' = StoredKeys /\ WantedListing' = WantedListing
    BY <2>1 DEF Wanted, WantedListing, Listed, StoredKeys
  <2>3. toWrite' = Wanted \ StoredKeys /\ toDelete' = StoredKeys \ Wanted
    BY <1>2 DEF Compare
  <2>4. IF draft' = Absent THEN index.shards = WantedListing ELSE draft'.shards = WantedListing
    <3>1. CASE draft' = Absent
      <4>1. SignerAt(passNow).id # NoKey.id
        BY <2>1, SignerNamed DEF TypeOK
      <4> DEFINE unchanged == /\ indexState # Absent
                             /\ indexState.key = SignerAt(passNow).id
                             /\ indexState.shards = WantedListing
      <4> DEFINE new == [issued |-> IssuedAt(unchanged), key |-> SignerAt(passNow).id,
                         shards |-> WantedListing]
      <4>2. indexState.shards = WantedListing
        <5>1. new.key # Absent.key
          BY <4>1 DEF Absent
        <5>2. draft' = new \/ unchanged
          BY <1>2 DEF Compare, WriteIndex
        <5>3. QED BY <3>1, <5>1, <5>2
      <4>3. QED BY <2>1, <3>1, <4>2
    <3>2. CASE draft' # Absent
      BY <1>2, <3>2 DEF Compare
    <3>3. QED BY <3>1, <3>2
  <2>5. Closed'
    BY <2>1, <2>2 DEF Closed, NamedBy
  <2>6. QED BY <2>1, <2>2, <2>3, <2>4, <2>5
<1>3. CASE \E k \in toWrite : PutBundle(k)
  <2>1. PICK k \in toWrite : PutBundle(k)
    BY <1>3
  <2>2. /\ UNCHANGED <<generations, indexState, index, phase, draft, toDelete>>
        /\ phase = "bundles" /\ toWrite' = toWrite \ {k}
    BY <2>1 DEF PutBundle, tableVars
  <2>3. Wanted' = Wanted /\ WantedListing' = WantedListing
    BY <2>2 DEF Wanted, WantedListing, Listed
  <2>4. StoredKeys' = StoredKeys \cup {k}
    BY <2>1, KeysAfterPut
  <2>5. Closed'
    BY <2>2, <2>4 DEF Closed, NamedBy
  <2>6. QED BY <2>2, <2>3, <2>4, <2>5
<1>4. CASE PutIndex
  <2>1. /\ UNCHANGED <<generations, indexState, bundles, draft, toWrite, toDelete>>
        /\ index' = draft /\ phase = "bundles" /\ phase' = "record" /\ toWrite = {} /\ draft # Absent
    BY <1>4 DEF PutIndex, BundlesWritten, tableVars
  <2>2. Wanted' = Wanted /\ StoredKeys' = StoredKeys /\ WantedListing' = WantedListing
    BY <2>1 DEF Wanted, WantedListing, Listed, StoredKeys
  <2>3. Closed'
    BY <2>1, <2>2, NamedIsWanted DEF Closed, NamedBy
  <2>4. QED BY <2>1, <2>2, <2>3
<1>5. CASE RecordIndex
  <2>1. /\ UNCHANGED <<generations, bundles, index, draft, toWrite, toDelete>>
        /\ indexState' = draft /\ phase = "record" /\ phase' = "deletes"
    BY <1>5 DEF RecordIndex, storeVars
  <2>2. Wanted' = Wanted /\ StoredKeys' = StoredKeys /\ WantedListing' = WantedListing
    BY <2>1 DEF Wanted, WantedListing, Listed, StoredKeys
  <2>3. QED BY <2>1, <2>2 DEF Closed, NamedBy
<1>6. CASE \E k \in toDelete : DeleteBundle(k)
  <2>1. PICK k \in toDelete : DeleteBundle(k)
    BY <1>6
  <2>2. /\ UNCHANGED <<generations, indexState, index, phase, draft, toWrite>>
        /\ IndexSettled /\ toDelete' = toDelete \ {k}
    BY <2>1 DEF DeleteBundle, tableVars
  <2>3. Wanted' = Wanted /\ WantedListing' = WantedListing
    BY <2>2 DEF Wanted, WantedListing, Listed
  <2>4. StoredKeys' = StoredKeys \ {k} /\ k \notin Wanted
    BY <2>1, KeysAfterDelete
  <2>5. index.shards = WantedListing
    BY <2>2 DEF IndexSettled
  <2>6. Closed'
    BY <2>2, <2>4, <2>5, NamedIsWanted DEF Closed, NamedBy
  <2>7. QED BY <2>2, <2>3, <2>4, <2>6
<1>7. CASE Invalidate \/ PassDies
  <2>1. /\ UNCHANGED <<generations, indexState, bundles, index>>
        /\ phase # "record" /\ phase' = "idle" /\ toWrite' = {} /\ toDelete' = {}
    BY <1>7 DEF Invalidate, PassDies, PassEnds, IndexSettled, tableVars, storeVars
  <2>2. QED BY <2>1 DEF Closed, NamedBy, StoredKeys
<1>8. CASE ~PassStep /\ ~PassDies
  <2>1. UNCHANGED <<generations, indexState, bundles, index, phase, passNow, toWrite, toDelete, draft>>
    BY <1>8, OutsideThePass
  <2>2. Wanted' = Wanted /\ StoredKeys' = StoredKeys /\ WantedListing' = WantedListing
    BY <2>1 DEF Wanted, WantedListing, Listed, StoredKeys
  <2>3. QED BY <2>1, <2>2 DEF Closed, NamedBy
<1>9. QED
  BY <1>1, <1>2, <1>3, <1>4, <1>5, <1>6, <1>7, <1>8 DEF PassStep

(* As long as the store loses nothing, and if no pass dies between putting    *)
(* index.json and recording it, every bundle the index names is in the store  *)
(* at every instant.                                                          *)
THEOREM IndexIsAlwaysClosed ==
  ASSUME ~DiesAfterIndexPut
  PROVE  Spec => []IndexClosed
<1>1. Init => (losses = 0 => ProgressInv)
  BY DEF Init, ProgressInv, WriteListInv, Closed, NamedBy, Absent
<1>2. (losses = 0 => ProgressInv) => IndexClosed
  BY DEF ProgressInv, IndexClosed
<1>3. TypeOK /\ (losses = 0 => ProgressInv) /\ [Next]_vars => (losses = 0 => ProgressInv)'
  BY LossesStay, ProgressStep
<1>4. QED BY <1>1, <1>2, <1>3, TypeCorrect, PTL DEF Spec

USE DEF BundleKey

-----------------------------------------------------------------------------
(* What is put is worth reading: bundles are numbered, not empty, and hold   *)
(* queries a device's schema accepts.                                        *)

AllFit(queries) == \A q \in queries : Fits(<<q.id, q.revision>>)
ContentInv ==
  /\ \A s \in Shards : /\ AllFit(generations[s].content)
                       /\ generations[s].content # {} => generations[s].generation > 0
  /\ \A b \in written : b.generation > 0 /\ b.queries # {} /\ AllFit(b.queries)
  /\ bundles \subseteq written

LEMMA FiledFits == \A s \in Shards : AllFit(Filed(clock)[s])
<1> SUFFICES ASSUME NEW s \in Shards, NEW q \in Filed(clock)[s] PROVE Fits(<<q.id, q.revision>>)
  BY Zenon DEF AllFit
<1>1. PICK r \in {x \in Broadcastable(clock) : Writable(x)} :
        q = SignedQuery(r, SignerAt(clock).id)
  BY Zenon DEF Filed, FiledOf
<1>2. q.id = r /\ q.revision = revision[r]
  BY <1>1 DEF SignedQuery
<1>3. QED BY <1>1, <1>2, Zenon DEF Writable

\* A planned row holds what was filed, under a number of its own if that is new.
LEMMA PlannedRow ==
  ASSUME TypeOK, Plan, NEW s \in Shards
  PROVE  /\ generations'[s].content = Filed(clock)[s]
         /\ generations'[s].content = generations[s].content \/ generations'[s].content = {}
              \/ generations'[s].generation > 0
<1>1. Filed(clock)[s] \in SUBSET Query
  BY FiledType DEF TypeOK
<1>2. generations'[s] = NextGeneration(generations[s], Filed(clock)[s])
  BY DEF Plan
<1>3. generations[s] \in [generation : Nat, content : SUBSET Query]
  BY DEF TypeOK
<1>4. QED BY <1>1, <1>2, <1>3 DEF NextGeneration

\* What PutBundle adds, and where.
BundleOf(k) ==
  [shard |-> k.shard, generation |-> k.generation, queries |-> generations[k.shard].content]

LEMMA PutIsWanted ==
  ASSUME TypeOK, NumberingInv, NEW k \in toWrite, PutBundle(k)
  PROVE  /\ k.shard \in Shards
         /\ k.generation = generations[k.shard].generation
         /\ generations[k.shard].content # {}
         /\ written' = written \cup {BundleOf(k)}
         /\ bundles' = bundles \cup {BundleOf(k)}
         /\ generations' = generations
<1>1. k \in Wanted
  BY DEF NumberingInv, WriteListInv
<1>2. QED BY <1>1 DEF PutBundle, Wanted, Listed, tableVars, BundleOf

LEMMA ContentStep == TypeOK /\ NumberingInv /\ ContentInv /\ [Next]_vars => ContentInv'
<1> SUFFICES ASSUME TypeOK, NumberingInv, ContentInv, [Next]_vars PROVE ContentInv'
  OBVIOUS
<1>1. CASE Plan
  <2>1. written' = written /\ bundles' = bundles
    BY <1>1 DEF Plan, storeVars
  <2> SUFFICES ASSUME NEW s \in Shards
               PROVE  /\ AllFit(generations'[s].content)
                      /\ generations'[s].content # {} => generations'[s].generation > 0
    BY <2>1 DEF ContentInv, AllFit
  <2>2. AllFit(generations'[s].content)
    BY <1>1, PlannedRow, FiledFits
  <2>3. generations[s].content # {} => generations[s].generation > 0
    BY DEF ContentInv
  <2>4. /\ generations[s].generation \in Nat /\ generations'[s].generation \in Nat
        /\ generations[s].generation <= generations'[s].generation
    BY <1>1, PlanRows DEF TypeOK
  <2>5. QED BY <1>1, <2>2, <2>3, <2>4, PlannedRow
<1>2. CASE \E k \in toWrite : PutBundle(k)
  <2>1. PICK k \in toWrite : PutBundle(k)
    BY <1>2
  <2>2. BundleOf(k).generation > 0 /\ BundleOf(k).queries # {} /\ AllFit(BundleOf(k).queries)
    BY <2>1, PutIsWanted DEF ContentInv, BundleOf
  <2>3. /\ written' = written \cup {BundleOf(k)} /\ bundles' = bundles \cup {BundleOf(k)}
        /\ generations' = generations
    BY <2>1, PutIsWanted
  <2>4. QED BY <2>2, <2>3 DEF ContentInv, AllFit
<1>3. CASE ~Plan /\ ~ \E k \in toWrite : PutBundle(k)
  <2>1. UNCHANGED <<generations, written>> /\ bundles' \subseteq bundles
    BY <1>3 DEF Next, vars, tableVars, storeVars, Release, Reject, Widen, End, Expire,
                Tick, StepBack, PassDies, LoseObject, PassStep,
                Compare, PutIndex, RecordIndex, DeleteBundle, Invalidate
  <2>2. QED BY <2>1 DEF ContentInv, AllFit
<1>4. QED BY <1>1, <1>2, <1>3

-----------------------------------------------------------------------------
(* An index and all it names carry one key *)

KeyedBy(queries, id) == \A q \in queries : q.key = id

\* An index i, published, recorded or about to be: it names no generation to come;
\* a row still at a generation it names, and every bundle ever put under a key it
\* names, was signed by its key.
Alike(i) ==
  /\ i.key = NoKey.id => i = Absent
  /\ \A s \in Shards : /\ i.shards[s] <= generations[s].generation
                       /\ i.shards[s] = generations[s].generation
                            => KeyedBy(generations[s].content, i.key)
  /\ \A b \in written : i.shards[b.shard] = b.generation => KeyedBy(b.queries, i.key)

\* Between reading the reports and comparing, every row is signed by the pass's key.
PlannedInv ==
  phase = "planned" => /\ MaySign(passNow) # {}
                       /\ \A s \in Shards : KeyedBy(generations[s].content, SignerAt(passNow).id)

AlikeInv == PlannedInv /\ Alike(index) /\ Alike(indexState) /\ Alike(draft)

LEMMA AbsentAlike == TypeOK /\ ContentInv => Alike(Absent)
<1> SUFFICES ASSUME TypeOK, ContentInv PROVE Alike(Absent)
  OBVIOUS
<1>1. \A s \in Shards : /\ generations[s].generation \in Nat
                        /\ generations[s].content # {} => generations[s].generation > 0
  BY DEF TypeOK, ContentInv
<1>2. \A b \in written : b.shard \in Shards /\ b.generation > 0
  BY DEF TypeOK, ContentInv, Bundle
<1>3. \A s \in Shards : Absent.shards[s] = 0
  BY DEF Absent
<1>4. ASSUME NEW s \in Shards
      PROVE  /\ Absent.shards[s] <= generations[s].generation
             /\ Absent.shards[s] = generations[s].generation
                  => KeyedBy(generations[s].content, Absent.key)
  BY <1>1, <1>3 DEF KeyedBy
<1>5. \A b \in written : Absent.shards[b.shard] # b.generation
  BY <1>2, <1>3
<1>6. QED BY <1>4, <1>5 DEF Alike

LEMMA PlanAlike ==
  ASSUME TypeOK, Plan, NEW i, \A s \in Shards : i.shards[s] \in Nat, Alike(i)
  PROVE  \A s \in Shards : /\ i.shards[s] <= generations'[s].generation
                           /\ i.shards[s] = generations'[s].generation
                                => KeyedBy(generations'[s].content, i.key)
<1> SUFFICES ASSUME NEW s \in Shards
             PROVE  /\ i.shards[s] <= generations'[s].generation
                    /\ i.shards[s] = generations'[s].generation
                         => KeyedBy(generations'[s].content, i.key)
  OBVIOUS
<1>1. /\ i.shards[s] \in Nat /\ i.shards[s] <= generations[s].generation
      /\ i.shards[s] = generations[s].generation => KeyedBy(generations[s].content, i.key)
  BY DEF Alike
<1>2. /\ generations[s].generation \in Nat /\ generations'[s].generation \in Nat
      /\ generations[s].generation <= generations'[s].generation
      /\ generations'[s].generation = generations[s].generation
           => generations'[s].content \in {generations[s].content, {}}
  BY PlanRows DEF TypeOK
<1>3. ASSUME i.shards[s] = generations'[s].generation
      PROVE  KeyedBy(generations'[s].content, i.key)
  <2>1. generations'[s].generation = generations[s].generation
    <3>1. \A a, b, c \in Nat : a <= b /\ b <= c /\ a = c => c = b
      BY BetweenEquals, Zenon
    <3>2. QED BY <1>1, <1>2, <1>3, <3>1
  <2>2. KeyedBy(generations[s].content, i.key)
    BY <1>1, <1>3, <2>1
  <2>3. KeyedBy({}, i.key)
    BY DEF KeyedBy
  <2>4. QED BY <1>2, <2>1, <2>2, <2>3
<1>4. i.shards[s] <= generations'[s].generation
  BY <1>1, <1>2
<1>5. QED BY <1>3, <1>4

LEMMA PutAlike ==
  ASSUME TypeOK, NumberingInv, NEW k \in toWrite, PutBundle(k), NEW i, Alike(i)
  PROVE  \A b \in written' : i.shards[b.shard] = b.generation => KeyedBy(b.queries, i.key)
<1>1. i.shards[BundleOf(k).shard] = BundleOf(k).generation => KeyedBy(BundleOf(k).queries, i.key)
  BY PutIsWanted DEF Alike, BundleOf
<1>2. QED BY <1>1, PutIsWanted DEF Alike

\* The index a pass draws up lists rows it has just signed.
LEMMA DraftAlike ==
  ASSUME TypeOK, NumberingInv, ContentInv, PlannedInv, Compare, draft' # Absent
  PROVE  Alike(draft')
<1> DEFINE signer == SignerAt(passNow).id
<1>1. /\ draft'.key = signer /\ draft'.shards = WantedListing
      /\ phase = "planned"
  BY DEF Compare
<1>2. signer # NoKey.id
  BY <1>1, SignerNamed DEF PlannedInv, TypeOK
<1>3. \A s \in Shards : KeyedBy(generations[s].content, signer)
  BY <1>1 DEF PlannedInv
<1>4. \A s \in Shards : /\ generations[s].generation \in Nat
                        /\ WantedListing[s] = IF s \in Listed THEN generations[s].generation ELSE 0
  BY DEF TypeOK, WantedListing
<1> HIDE DEF signer
<1>5. \A s \in Shards : WantedListing[s] <= generations[s].generation
  BY <1>4
<1>6. ASSUME NEW b \in written, WantedListing[b.shard] = b.generation
      PROVE  KeyedBy(b.queries, signer)
  <2>1. b.shard \in Shards /\ b.generation > 0
    BY DEF TypeOK, Bundle, ContentInv
  <2>2. b.shard \in Listed /\ b.generation = generations[b.shard].generation
    BY <1>4, <1>6, <2>1
  <2>3. generations[b.shard].content = b.queries
    BY <2>2 DEF NumberingInv, Listed
  <2>4. QED BY <1>3, <2>1, <2>3
<1>7. QED BY <1>1, <1>2, <1>3, <1>5, <1>6 DEF Alike

LEMMA PlannedStep ==
  ASSUME TypeOK, PlannedInv, [Next]_vars
  PROVE  PlannedInv'
<1>1. CASE Plan
  <2>1. passNow' = clock /\ MaySign(clock) # {}
    BY <1>1 DEF Plan
  <2>2. \A s \in Shards : KeyedBy(Filed(clock)[s], SignerAt(clock).id)
    BY DEF Filed, FiledOf, SignedQuery, KeyedBy
  <2>3. \A s \in Shards : generations'[s].content = Filed(clock)[s]
    BY <1>1, PlannedRow
  <2>4. QED BY <2>1, <2>2, <2>3 DEF PlannedInv, KeyedBy
<1>2. CASE ~Plan
  <2>1. phase' = "planned" => phase = "planned" /\ UNCHANGED <<passNow, generations>>
    BY <1>2 DEF Next, vars, tableVars, passVars, PassEnds, Release, Reject, Widen, End, Expire,
                Tick, StepBack, PassDies, LoseObject, PassStep,
                Compare, PutBundle, PutIndex, RecordIndex, DeleteBundle, Invalidate
  <2>2. QED BY <2>1 DEF PlannedInv, KeyedBy
<1>3. QED BY <1>1, <1>2

\* Where an index came from: it stayed, it is the draft, or it is gone.
LEMMA IndexesMove ==
  ASSUME [Next]_vars, ~Compare
  PROVE  /\ index' \in {index, draft, Absent}
         /\ indexState' \in {indexState, draft}
         /\ draft' \in {draft, Absent}
BY DEF Next, vars, tableVars, storeVars, passVars, PassEnds, Release, Reject, Widen, End, Expire,
       Tick, StepBack, PassDies, LoseObject, PassStep,
       Plan, PutBundle, PutIndex, RecordIndex, DeleteBundle, Invalidate

\* An index that stays as it is stays alike.
LEMMA AlikeStays ==
  ASSUME TypeOK, NumberingInv, [Next]_vars, NEW i, \A s \in Shards : i.shards[s] \in Nat, Alike(i)
  PROVE  /\ \A s \in Shards : /\ i.shards[s] <= generations'[s].generation
                              /\ i.shards[s] = generations'[s].generation
                                   => KeyedBy(generations'[s].content, i.key)
         /\ \A b \in written' : i.shards[b.shard] = b.generation => KeyedBy(b.queries, i.key)
<1>1. CASE Plan
  <2>1. written' = written
    BY <1>1 DEF Plan, storeVars
  <2>2. QED BY <1>1, <2>1, PlanAlike DEF Alike
<1>2. CASE \E k \in toWrite : PutBundle(k)
  <2>1. PICK k \in toWrite : PutBundle(k)
    BY <1>2
  <2>2. generations' = generations
    BY <2>1, PutIsWanted
  <2>3. QED BY <2>1, <2>2, PutAlike DEF Alike
<1>3. CASE ~Plan /\ ~ \E k \in toWrite : PutBundle(k)
  <2>1. UNCHANGED <<generations, written>>
    BY <1>3 DEF Next, vars, tableVars, storeVars, Release, Reject, Widen, End, Expire,
                Tick, StepBack, PassDies, LoseObject, PassStep,
                Compare, PutIndex, RecordIndex, DeleteBundle, Invalidate
  <2>2. QED BY <2>1 DEF Alike
<1>4. QED BY <1>1, <1>2, <1>3

LEMMA AlikeStep ==
  TypeOK /\ NumberingInv /\ ContentInv /\ AlikeInv /\ [Next]_vars => AlikeInv'
<1> SUFFICES ASSUME TypeOK, NumberingInv, ContentInv, AlikeInv, [Next]_vars PROVE AlikeInv'
  OBVIOUS
<1>1. TypeOK' /\ ContentInv' /\ PlannedInv'
  BY NextTypeOK, ContentStep, PlannedStep DEF AlikeInv
<1>2. Alike(Absent)'
  BY <1>1, AbsentAlike, PTL
<1> DEFINE Stays(i) ==
      /\ i.key = NoKey.id => i = Absent
      /\ \A s \in Shards : /\ i.shards[s] <= generations'[s].generation
                           /\ i.shards[s] = generations'[s].generation
                                => KeyedBy(generations'[s].content, i.key)
      /\ \A b \in written' : i.shards[b.shard] = b.generation => KeyedBy(b.queries, i.key)
<1>3. Stays(index) /\ Stays(indexState) /\ Stays(draft) /\ Stays(Absent)
  <2>1. \A i \in {index, indexState, draft} : \A s \in Shards : i.shards[s] \in Nat
    BY DEF TypeOK, Index, Listing, Absent
  <2>2. \A i \in {index, indexState, draft} : Alike(i)
    BY DEF AlikeInv
  <2>3. \A i \in {index, indexState, draft} : Stays(i)
    BY <2>1, <2>2, AlikeStays DEF Alike
  <2>4. Stays(Absent)
    BY <1>2 DEF Alike, KeyedBy
  <2>5. QED BY <2>3, <2>4
<1> HIDE DEF Stays
<1>4. CASE ~Compare
  <2>1. Stays(index') /\ Stays(indexState') /\ Stays(draft')
    BY <1>3, <1>4, IndexesMove
  <2>2. QED BY <1>1, <2>1 DEF AlikeInv, Alike, Stays, KeyedBy
<1>5. CASE Compare
  <2>1. UNCHANGED <<generations, written, index, indexState>>
    BY <1>5 DEF Compare, storeVars
  <2>2. Stays(index') /\ Stays(indexState')
    BY <1>3, <2>1
  <2>3. CASE draft' = Absent
    BY <1>1, <1>3, <2>2, <2>3 DEF AlikeInv, Alike, Stays, KeyedBy
  <2>4. CASE draft' # Absent
    <3>1. Alike(draft')
      BY <1>5, <2>4, DraftAlike DEF AlikeInv
    <3>2. Stays(draft')
      BY <2>1, <3>1 DEF Alike, Stays, KeyedBy
    <3>3. QED BY <1>1, <2>2, <3>2 DEF AlikeInv, Alike, Stays, KeyedBy
  <2>5. QED BY <2>3, <2>4
<1>6. QED BY <1>4, <1>5

ReadersInv == TypeOK /\ NumberingInv /\ ContentInv /\ AlikeInv

LEMMA ReadersInvariant == Spec => []ReadersInv
<1>1. Init => ReadersInv
  <2> SUFFICES ASSUME Init PROVE ReadersInv
    OBVIOUS
  <2>1. TypeOK
    BY InitTypeOK
  <2>2. NumberingInv
    BY DEF Init, NumberingInv, WriteListInv, OneContentPerKey
  <2>3. ContentInv
    BY DEF Init, ContentInv, AllFit
  <2>4. Alike(Absent)
    BY <2>1, <2>3, AbsentAlike
  <2>5. QED BY <2>1, <2>2, <2>3, <2>4 DEF Init, ReadersInv, AlikeInv, PlannedInv
<1>2. ReadersInv /\ [Next]_vars => ReadersInv'
  BY NextTypeOK, NumberingStep, ContentStep, AlikeStep DEF ReadersInv
<1>3. QED BY <1>1, <1>2, PTL DEF Spec

(* In every state of every pass, whatever died, was lost or rotated: the      *)
(* bundles a published index names, and their queries, carry its key.         *)
THEOREM NamedIsSignedAlike == Spec => []SignedAlike
<1>1. ReadersInv => SignedAlike
  BY DEF ReadersInv, ContentInv, AlikeInv, Alike, KeyedBy, SignedAlike
<1>2. QED BY <1>1, ReadersInvariant, PTL

-----------------------------------------------------------------------------
(* What a device reads *)

LEMMA SignedVerifies ==
  ASSUME NEW kind, NEW body, NEW pinned, NEW k \in pinned
  PROVE  VerifyDocument(kind, SignDocument(kind, Draft(k.id, body), k), pinned)
<1> DEFINE d == Draft(k.id, body)
           signed == SignDocument(kind, d, k)
           made == [by |-> k.public, over |-> SigningInput(kind, d)]
<1>1. [signed EXCEPT !.sig = Unsigned] = d
  <2>1. signed = [v |-> Version, key |-> k.id, body |-> body, sig |-> made]
    BY DEF SignDocument, Draft
  <2> HIDE DEF made, signed
  <2>2. [[v |-> Version, key |-> k.id, body |-> body, sig |-> made] EXCEPT !.sig = Unsigned]
          = [v |-> Version, key |-> k.id, body |-> body, sig |-> Unsigned]
    OBVIOUS
  <2>3. QED BY <2>1, <2>2 DEF Draft
<1>2. signed.key = k.id /\ signed.sig = [by |-> k.public, over |-> SigningInput(kind, d)]
  BY DEF SignDocument, Draft
<1>3. [d EXCEPT !.sig = Unsigned] = d
  BY DEF Draft
<1>4. SigningInput(kind, signed) = SigningInput(kind, d)
  BY <1>1, <1>3, Zenon DEF SigningInput
<1>5. QED BY <1>2, <1>4, Zenon DEF VerifyDocument

LEMMA DocumentMembers ==
  ASSUME NEW kind, NEW body, NEW key, NEW k
  PROVE  LET d == SignDocument(kind, Draft(key, body), k)
         IN  d.v = Version /\ d.key = key /\ d.body = body
BY DEF SignDocument, Draft

LEMMA NamedKey ==
  ASSUME NEW id \in Keys
  PROVE  KeyNamed(id) \in Ring /\ KeyNamed(id).id = id /\ \A k \in Ring : k.id = id => k = KeyNamed(id)
<1>1. \E k \in Ring : k.id = id
  BY DEF Keys
<1>2. KeyNamed(id) \in Ring /\ KeyNamed(id).id = id
  BY <1>1 DEF KeyNamed
<1>3. QED BY <1>2, RingAssumption DEF Accepts

(* For every release of the app and in every state: the index a phone reads   *)
(* is refused, or it is accepted with every bundle it names and every query   *)
(* in them.  A rotation never leaves a phone with half of a publication.      *)
THEOREM WholeOrNotAtAll == Spec => []AllOrNothing
<1> SUFFICES ReadersInv => AllOrNothing
  BY ReadersInvariant, PTL
<1> SUFFICES ASSUME ReadersInv, index # Absent, NEW cut \in Nat,
                    ~ReadsNothing(TrustedAt(cut))
             PROVE  ReadsInFull(TrustedAt(cut))
  BY DEF AllOrNothing
<1> DEFINE pinned == TrustedAt(cut)
           key == KeyNamed(index.key)
<1>1. index.key \in Keys
  BY DEF ReadersInv, TypeOK, AlikeInv, Alike, Index, KeyIds
<1>2. key \in Ring /\ key.id = index.key /\ \A k \in Ring : k.id = index.key => k = key
  BY <1>1, NamedKey
<1>3. key \in pinned
  <2>1. ReadShardIndex(IndexDocument, pinned).accepted
    BY DEF ReadsNothing
  <2>2. VerifyDocument("index", IndexDocument, pinned)
    BY <2>1 DEF ReadShardIndex, Refused
  <2>3. IndexDocument.key = index.key
    BY DocumentMembers DEF IndexDocument
  <2>4. PICK k \in pinned : k.id = index.key
    BY <2>2, <2>3 DEF VerifyDocument
  <2>5. k \in Ring
    BY <2>4 DEF TrustedAt
  <2>6. QED BY <1>2, <2>4, <2>5
<1> HIDE DEF pinned, key
<1>4. ReadShardIndex(IndexDocument, pinned).accepted
  BY DEF ReadsNothing, pinned
<1>5. ASSUME NEW b \in bundles, KeyOf(b) \in NamedBy(index)
      PROVE  LET read == ReadShardBundle(BundleDocument(b), pinned)
             IN  read.accepted /\ read.queries = read.bundle.queries
  <2>1. b \in written /\ b.queries # {} /\ AllFit(b.queries)
    BY DEF ReadersInv, ContentInv
  <2>2. index.shards[b.shard] = b.generation
    BY <1>5 DEF KeyOf, NamedBy
  <2>3. \A q \in b.queries : q.key = index.key
    BY <2>1, <2>2 DEF ReadersInv, AlikeInv, Alike, KeyedBy
  <2>4. (CHOOSE q \in b.queries : TRUE).key = index.key
    BY <2>1, <2>3
  <2> DEFINE body == [shard |-> b.shard, generation |-> b.generation,
                      queries |-> {QueryDocument(q) : q \in b.queries}]
             d == BundleDocument(b)
  <2>5. d = SignDocument("bundle", Draft(key.id, body), key)
    BY <1>2, <2>4 DEF BundleDocument, key
  <2>6. VerifyDocument("bundle", d, pinned)
    BY <1>3, <2>5, SignedVerifies, ZenonT(40)
  <2>7. d.v = Version /\ d.body = body
    BY <2>5, DocumentMembers
  <2>8. \A q \in b.queries : ReadableQuery(QueryDocument(q), pinned)
    <3> SUFFICES ASSUME NEW q \in b.queries PROVE ReadableQuery(QueryDocument(q), pinned)
      OBVIOUS
    <3>1. QueryDocument(q) = SignDocument("query", Draft(key.id, <<q.id, q.revision>>), key)
      BY <1>2, <2>3, Zenon DEF QueryDocument, key
    <3>2. VerifyDocument("query", QueryDocument(q), pinned)
      BY <1>3, <3>1, SignedVerifies
    <3>3. QueryDocument(q).v = Version /\ QueryDocument(q).body = <<q.id, q.revision>>
      BY <3>1, DocumentMembers
    <3>4. Fits(<<q.id, q.revision>>)
      BY <2>1 DEF AllFit
    <3>5. QED BY <3>2, <3>3, <3>4 DEF ReadableQuery, ParseBroadcastQuery
  <2> HIDE DEF d
  <2>9. d.body.queries = {QueryDocument(q) : q \in b.queries}
    BY <2>7
  <2>10. {q \in d.body.queries : ReadableQuery(q, pinned)} = d.body.queries
    BY <2>8, <2>9
  <2>11. QED BY <2>6, <2>7, <2>10 DEF ReadShardBundle, d
<1>6. QED BY <1>4, <1>5 DEF ReadsInFull, pinned

-----------------------------------------------------------------------------
(* No edge copy is left behind *)

\* What a pass has still to purge is recorded, except for the bundles it puts under a
\* number that nothing published before: no edge was ever asked for those.
PendingInv ==
  /\ stale \subseteq cdnPending
  /\ toDelete \subseteq cdnPending
  /\ phase = "planned" =>
       \A s \in changed : /\ index.shards[s] < generations[s].generation
                          /\ indexState.shards[s] < generations[s].generation
  /\ phase = "bundles" =>
       /\ draft # Absent => IndexPath \in cdnPending
       /\ \A k \in toWrite : k \in cdnPending \/ k \notin NamedBy(index) \cup NamedBy(indexState)

LEMMA PendingStep ==
  ASSUME ReadersInv, PendingInv, [Next]_vars
  PROVE  PendingInv'
<1> USE DEF PendingInv
<1>1. CASE Plan
  <2>1. /\ UNCHANGED <<stale, cdnPending, toDelete, index, indexState>> /\ phase' = "planned"
        /\ changed' = {s \in Shards : generations'[s].generation # generations[s].generation}
    BY <1>1 DEF Plan, storeVars
  <2>2. ASSUME NEW s \in changed'
        PROVE  /\ index.shards[s] < generations'[s].generation
               /\ indexState.shards[s] < generations'[s].generation
    <3>1. s \in Shards /\ generations'[s].generation # generations[s].generation
      BY <2>1
    <3>2. /\ generations[s].generation \in Nat /\ generations'[s].generation \in Nat
          /\ generations[s].generation <= generations'[s].generation
      BY <1>1, <3>1, PlanRows DEF ReadersInv, TypeOK
    <3>3. /\ index.shards[s] <= generations[s].generation
          /\ indexState.shards[s] <= generations[s].generation
      BY <3>1 DEF ReadersInv, AlikeInv, Alike
    <3>4. \A i \in {index, indexState} : i.shards[s] \in Nat
      BY <3>1 DEF ReadersInv, TypeOK, Index, Listing, Absent
    <3>5. \A a, m, n \in Nat : a <= m /\ m <= n /\ n # m => a < n
      BY BelowWhenNotEqual, Zenon
    <3>6. QED BY <3>1, <3>2, <3>3, <3>4, <3>5
  <2>3. QED BY <2>1, <2>2
<1>2. CASE Compare
  <2>1. /\ UNCHANGED <<stale, index, indexState, generations>> /\ phase = "planned" /\ phase' = "bundles"
        /\ toWrite' = Wanted \ StoredKeys /\ toDelete' = StoredKeys \ Wanted
    BY <1>2 DEF Compare, storeVars
  <2>2. PICK unchanged \in BOOLEAN :
          /\ cdnPending' = cdnPending \cup PathsToPurge(Wanted \ StoredKeys, StoredKeys \ Wanted, unchanged)
          /\ ~WriteIndex(unchanged) => draft' = Absent
    BY <1>2 DEF Compare
  <2>3. /\ cdnPending \subseteq cdnPending' /\ toDelete' \subseteq cdnPending'
        /\ \A k \in toWrite' : k.shard \notin changed => k \in cdnPending'
        /\ draft' # Absent => IndexPath \in cdnPending'
    BY <2>1, <2>2 DEF PathsToPurge
  <2>4. ASSUME NEW k \in toWrite', k.shard \in changed
        PROVE  k \notin NamedBy(index) \cup NamedBy(indexState)
    <3>1. k \in Wanted
      BY <2>1
    <3>2. k.shard \in Shards /\ k.generation = generations[k.shard].generation
      BY <3>1 DEF Wanted, Listed
    <3>3. /\ index.shards[k.shard] < k.generation /\ indexState.shards[k.shard] < k.generation
          /\ index.shards[k.shard] \in Nat /\ indexState.shards[k.shard] \in Nat
      BY <2>1, <2>4, <3>2 DEF ReadersInv, TypeOK, Index, Listing, Absent
    <3>4. k.generation # index.shards[k.shard] /\ k.generation # indexState.shards[k.shard]
      BY <3>3
    <3>5. QED BY <3>4 DEF NamedBy
  <2>5. QED BY <2>1, <2>3, <2>4
<1>3. CASE \E k \in toWrite : PutBundle(k)
  <2>1. PICK k \in toWrite : PutBundle(k)
    BY <1>3
  <2>2. /\ phase = "bundles" /\ phase' = "bundles" /\ toWrite' \subseteq toWrite
        /\ UNCHANGED <<cdnPending, toDelete, draft, index, indexState>>
    BY <2>1 DEF PutBundle, tableVars
  <2>3. stale' \subseteq cdnPending
    BY <2>1, <2>2 DEF PutBundle, EdgeCopyBecomesStale
  <2>4. QED BY <2>2, <2>3
<1>4. CASE PutIndex
  <2>1. /\ phase = "bundles" /\ phase' = "record" /\ draft # Absent
        /\ UNCHANGED <<cdnPending, toDelete>> /\ stale' \subseteq stale \cup {IndexPath}
    BY <1>4 DEF PutIndex, EdgeCopyBecomesStale, tableVars
  <2>2. QED BY <2>1
<1>5. CASE RecordIndex
  BY <1>5 DEF RecordIndex, storeVars
<1>6. CASE \E k \in toDelete : DeleteBundle(k)
  <2>1. PICK k \in toDelete : DeleteBundle(k)
    BY <1>6
  <2>2. /\ UNCHANGED <<cdnPending, index, indexState, generations, changed, phase, toWrite, draft>>
        /\ toDelete' \subseteq toDelete /\ stale' \subseteq stale \cup {k}
    BY <2>1 DEF DeleteBundle, EdgeCopyBecomesStale, tableVars
  <2>3. QED BY <2>2
<1>7. CASE Invalidate
  BY <1>7 DEF Invalidate, PassEnds
<1>8. CASE PassDies
  <2>1. /\ stale' \subseteq stale /\ toDelete' = {} /\ phase' = "idle" /\ cdnPending' = cdnPending
    BY <1>8 DEF PassDies, PassEnds, tableVars
  <2>2. QED BY <2>1
<1>9. CASE LoseObject
  BY <1>9 DEF LoseObject, tableVars, passVars
<1>10. CASE ~PassStep /\ ~PassDies /\ ~LoseObject
  <2>1. UNCHANGED <<stale, cdnPending, toDelete, toWrite, draft, changed, phase, index, indexState, generations>>
    BY <1>10 DEF Next, vars, tableVars, storeVars, passVars, Release, Reject, Widen, End, Expire,
                 Tick, StepBack
  <2>2. QED BY <2>1
<1>11. QED
  BY <1>1, <1>2, <1>3, <1>4, <1>5, <1>6, <1>7, <1>8, <1>9, <1>10 DEF PassStep

(* However a pass ends, and wherever one died, an edge copy it made wrong is on the *)
(* list of paths to purge: the list is written before the store is touched.         *)
THEOREM NoEdgeCopyIsLeft == Spec => []StaleIsPending
<1>1. Init => PendingInv
  BY DEF Init, PendingInv
<1>2. PendingInv => StaleIsPending
  BY DEF PendingInv, StaleIsPending
<1>3. QED BY <1>1, <1>2, PendingStep, ReadersInvariant, PTL DEF Spec

-----------------------------------------------------------------------------
(* An index lists the newest number of every shard                           *)

PutKeys == {KeyOf(b) : b \in written}

\* Each shard the index lists is listed at a number that was put, and none was put above it.
ListsNewest ==
  \A s \in Shards : index.shards[s] > 0 =>
    /\ [shard |-> s, generation |-> index.shards[s]] \in PutKeys
    /\ \A b \in written : b.shard = s => b.generation <= index.shards[s]

\* Whatever the store has lost, a pass that goes on to the index has put, or is still to
\* put, each bundle it wants, or an earlier pass did.
NewestInv ==
  phase = "bundles" => /\ Wanted \subseteq PutKeys \cup toWrite
                       /\ draft # Absent => draft.shards = WantedListing

\* Rows change in the first step of a pass only, and nothing put is ever forgotten.
LEMMA NewestStep ==
  TypeOK /\ NumberingInv /\ ContentInv /\ NewestInv /\ [Next]_vars => NewestInv'
<1> SUFFICES ASSUME TypeOK, NumberingInv, ContentInv, NewestInv, [Next]_vars PROVE NewestInv'
  OBVIOUS
<1>1. CASE Compare
  <2>1. generations' = generations /\ written' = written /\ toWrite' = Wanted \ StoredKeys
    BY <1>1 DEF Compare, storeVars
  <2>2. StoredKeys \subseteq PutKeys
    BY DEF StoredKeys, PutKeys, ContentInv
  <2>3. Wanted' = Wanted /\ PutKeys' = PutKeys /\ WantedListing' = WantedListing
    BY <2>1 DEF Wanted, Listed, PutKeys, WantedListing
  <2>4. draft' # Absent => draft'.shards = WantedListing
    BY <1>1 DEF Compare
  <2>5. QED BY <2>1, <2>2, <2>3, <2>4 DEF NewestInv
<1>2. CASE \E k \in toWrite : PutBundle(k)
  <2>1. PICK k \in toWrite : PutBundle(k)
    BY <1>2
  <2>2. /\ phase = "bundles" /\ draft' = draft /\ toWrite' = toWrite \ {k}
        /\ generations' = generations /\ written' = written \cup {BundleOf(k)}
    BY <2>1, PutIsWanted DEF PutBundle
  <2>3. Wanted' = Wanted /\ WantedListing' = WantedListing
    BY <2>2 DEF Wanted, Listed, WantedListing
  <2>4. KeyOf(BundleOf(k)) = k
    BY DEF KeyOf, BundleOf, TypeOK
  <2>5. PutKeys' = PutKeys \cup {k}
    BY <2>2, <2>4 DEF PutKeys
  <2>6. QED BY <2>2, <2>3, <2>5 DEF NewestInv
<1>3. CASE ~Compare /\ ~ \E k \in toWrite : PutBundle(k)
  <2>1. \/ phase' # "bundles"
        \/ UNCHANGED <<phase, generations, written, toWrite, draft>>
    BY <1>3 DEF Next, vars, passVars, tableVars, storeVars, PassEnds, Release, Reject, Widen,
                End, Expire, Tick, StepBack, PassDies, LoseObject, PassStep, Plan,
                PutIndex, RecordIndex, DeleteBundle, Invalidate
  <2>2. QED BY <2>1 DEF NewestInv, Wanted, Listed, PutKeys, WantedListing
<1>4. QED BY <1>1, <1>2, <1>3

\* So the index that is put lists the newest, and one that is lost lists nothing.
LEMMA NewestIsPut ==
  TypeOK /\ NumberingInv /\ NewestInv /\ [Next]_vars => (index' # index => ListsNewest')
<1> SUFFICES ASSUME TypeOK, NumberingInv, NewestInv, [Next]_vars, index' # index PROVE ListsNewest'
  OBVIOUS
<1>1. CASE PutIndex
  <2>1. /\ phase = "bundles" /\ toWrite = {} /\ draft # Absent
        /\ index' = draft /\ written' = written
    BY <1>1 DEF PutIndex, BundlesWritten
  <2>2. Wanted \subseteq PutKeys /\ index'.shards = WantedListing
    BY <2>1 DEF NewestInv
  <2>3. ASSUME NEW s \in Shards, index'.shards[s] > 0
        PROVE  /\ [shard |-> s, generation |-> index'.shards[s]] \in PutKeys
               /\ \A b \in written : b.shard = s => b.generation <= index'.shards[s]
    <3>1. s \in Listed /\ index'.shards[s] = generations[s].generation
      BY <2>2, <2>3 DEF WantedListing
    <3>2. [shard |-> s, generation |-> index'.shards[s]] \in Wanted
      BY <3>1 DEF Wanted
    <3>3. QED BY <2>2, <3>1, <3>2 DEF NumberingInv
  <2>4. QED BY <2>1, <2>3 DEF ListsNewest, PutKeys
<1>2. CASE LoseObject
  <2>1. index' = Absent
    BY <1>2 DEF LoseObject
  <2>2. QED BY <2>1 DEF ListsNewest, Absent
<1>3. CASE ~PutIndex /\ ~LoseObject
  BY <1>3 DEF Next, vars, storeVars, Release, Reject, Widen, End, Expire, Tick, StepBack,
              PassDies, PassStep, Plan, Compare, PutBundle, RecordIndex, DeleteBundle, Invalidate
<1>4. QED BY <1>1, <1>2, <1>3

(* "Generations only go up" (plan.ts), which is why a device leaves alone a shard it    *)
(* holds at a number above the index's: an index that is put lists every shard at the   *)
(* highest number ever put for it, so never below one listed before, whatever passes    *)
(* died, the store lost, or the clock did, and however often the shard was empty.       *)
THEOREM GenerationsOnlyGoUp == Spec => [][index' # index => ListsNewest']_vars
<1>1. Init => NewestInv
  BY DEF Init, NewestInv
<1>2. TypeOK /\ NumberingInv /\ NewestInv /\ [Next]_vars
        => [index' # index => ListsNewest']_vars
  BY NewestIsPut
<1>3. ReadersInv => TypeOK /\ NumberingInv /\ ContentInv
  BY DEF ReadersInv
<1>4. QED BY <1>1, <1>2, <1>3, NewestStep, ReadersInvariant, PTL DEF Spec

-----------------------------------------------------------------------------
(* A new index is issued later *)

\* Outside the instant in which it is put and not yet recorded, the index in the store
\* is the recorded one or lost; the draft of another is issued later than that one.
IssuedInv ==
  /\ phase # "record" => index \in {indexState, Absent}
  /\ phase = "record" => index = draft
  /\ phase = "bundles" /\ draft # Absent => draft = indexState \/ LaterThan(draft, indexState)

LEMMA IssuedStep ==
  ASSUME ~DiesAfterIndexPut, TypeOK, IssuedInv, [Next]_vars
  PROVE  /\ IssuedInv'
         /\ index' \notin {index, Absent, indexState} => LaterThan(index', index)
<1> USE DEF IssuedInv
<1>1. CASE Compare
  <2>1. UNCHANGED <<index, indexState>> /\ phase = "planned" /\ phase' = "bundles"
    BY <1>1 DEF Compare, storeVars
  <2> DEFINE unchanged == /\ indexState # Absent
                          /\ indexState.key = SignerAt(passNow).id
                          /\ indexState.shards = WantedListing
  <2>2. ASSUME draft' # Absent
        PROVE  draft' = indexState \/ LaterThan(draft', indexState)
    <3>1. draft' = [issued |-> IssuedAt(unchanged), key |-> SignerAt(passNow).id,
                    shards |-> WantedListing]
      BY <1>1, <2>2 DEF Compare
    <3>2. CASE unchanged
      <4>1. indexState \in Index /\ IssuedAt(unchanged) = indexState.issued
        BY <3>2 DEF TypeOK, IssuedAt
      <4>2. indexState = [issued |-> indexState.issued, key |-> indexState.key, shards |-> indexState.shards]
        BY <4>1 DEF Index
      <4>3. QED BY <3>1, <3>2, <4>1, <4>2
    <3>3. CASE ~unchanged
      <4>1. indexState.issued \in Nat /\ passNow \in Nat
        BY DEF TypeOK, Index, Absent
      <4>2. draft'.issued = IF indexState = Absent \/ passNow > indexState.issued THEN passNow
                                                                             ELSE indexState.issued + 1
        BY <3>1, <3>3 DEF IssuedAt
      <4>3. QED BY <4>1, <4>2 DEF LaterThan
    <3>4. QED BY <3>2, <3>3
  <2>3. QED BY <2>1, <2>2
<1>2. CASE PutIndex
  <2>1. /\ phase = "bundles" /\ phase' = "record" /\ draft # Absent /\ index' = draft
        /\ UNCHANGED <<indexState, draft>>
    BY <1>2 DEF PutIndex, tableVars
  <2>2. index \in {indexState, Absent} /\ (draft = indexState \/ LaterThan(draft, indexState))
    BY <2>1
  <2>3. LaterThan(draft, Absent)
    BY DEF LaterThan
  <2>4. QED BY <2>1, <2>2, <2>3
<1>3. CASE RecordIndex
  BY <1>3 DEF RecordIndex, storeVars
<1>4. CASE LoseObject
  BY <1>4 DEF LoseObject, tableVars, passVars
<1>5. CASE ~Compare /\ ~PutIndex /\ ~RecordIndex /\ ~LoseObject
  <2>1. UNCHANGED <<index, indexState>>
    BY <1>5 DEF Next, vars, tableVars, storeVars, Release, Reject, Widen, End, Expire,
                Tick, StepBack, PassDies, PassStep, Plan, PutBundle, DeleteBundle, Invalidate
  <2>2. \/ phase' \in {"idle", "planned"} /\ phase # "record"
        \/ phase' = phase /\ draft' = draft
    BY <1>5 DEF Next, vars, passVars, Release, Reject, Widen, End, Expire, IndexSettled,
                Tick, StepBack, PassDies, PassEnds, PassStep, Plan, PutBundle, DeleteBundle, Invalidate
  <2>3. QED BY <2>1, <2>2 DEF LaterThan
<1>6. QED BY <1>1, <1>2, <1>3, <1>4, <1>5

(* Every index put is issued strictly later than the one it replaces, however the   *)
(* clock is set back, unless a pass may die between putting one and recording it.   *)
THEOREM EveryIndexIsIssuedLater ==
  ASSUME ~DiesAfterIndexPut
  PROVE  Spec => IndexIssuedLater
<1>1. Init => IssuedInv
  BY DEF Init, IssuedInv
<1>2. TypeOK /\ IssuedInv /\ [Next]_vars => IssuedInv'
  BY IssuedStep
<1>3. TypeOK /\ IssuedInv /\ [Next]_vars =>
        [index' \notin {index, Absent, indexState} => LaterThan(index', index)]_<<index, indexState>>
  BY IssuedStep
<1>4. QED BY <1>1, <1>2, <1>3, TypeCorrect, PTL DEF Spec, IndexIssuedLater

-----------------------------------------------------------------------------
(* Readers see whole publications: the passes implement the board *)

Snapshot == [s \in Shards |-> generations[s].content]
Shown(s) == UNION {b.queries : b \in {c \in bundles : KeyOf(c) = [shard |-> s, generation |-> index.shards[s]]}}

\* While no object is lost, where a pass stands is as ProgressInv says.
BoardInv == ReadersInv /\ (losses = 0 => ProgressInv)

(* An index that lists what is wanted, with all of it stored, shows the snapshot. *)
LEMMA WantedIsShown ==
  ASSUME ReadersInv, NEW i, i.shards = WantedListing, Wanted \subseteq StoredKeys, NEW s \in Shards
  PROVE  UNION {b.queries : b \in {c \in bundles : KeyOf(c) = [shard |-> s, generation |-> i.shards[s]]}}
           = generations[s].content
<1>1. PICK key : key = [shard |-> s, generation |-> i.shards[s]]
  OBVIOUS
<1>2. \A b \in bundles : b \in written /\ b \in Bundle /\ b.generation > 0
  BY DEF ReadersInv, TypeOK, ContentInv
<1>3. CASE s \in Listed
  <2>1. i.shards[s] = generations[s].generation
    BY <1>3 DEF WantedListing
  <2>2. key \in Wanted
    BY <1>1, <1>3, <2>1 DEF Wanted
  <2>3. PICK b \in bundles : KeyOf(b) = key
    BY <2>2 DEF StoredKeys
  <2>4. b.shard = s /\ b.generation = generations[s].generation
    BY <1>1, <2>1, <2>3 DEF KeyOf
  <2>5. generations[s].content = b.queries
    BY <1>2, <1>3, <2>4 DEF ReadersInv, NumberingInv, Listed
  <2>6. {c \in bundles : KeyOf(c) = key} = {b}
    BY <1>2, <2>3 DEF ReadersInv, NumberingInv, OneContentPerKey
  <2>7. UNION {c.queries : c \in {b}} = b.queries
    OBVIOUS
  <2>8. QED BY <1>1, <2>5, <2>6, <2>7
<1>4. CASE s \notin Listed
  <2>1. i.shards[s] = 0 /\ generations[s].content = {}
    BY <1>4 DEF WantedListing, Listed
  <2>2. {c \in bundles : KeyOf(c) = key} = {}
    BY <1>1, <1>2, <2>1 DEF KeyOf
  <2>3. UNION {c.queries : c \in {}} = {}
    OBVIOUS
  <2>4. QED BY <1>1, <2>1, <2>2, <2>3
<1>5. QED BY <1>3, <1>4

LEMMA VisibleIsShown == Visible = [s \in Shards |-> Shown(s)]
BY DEF Visible, Shown

(* Bundles come before the index that names them and go after it stops. *)
LEMMA BundleStepShowsNothing ==
  ASSUME BoardInv, losses = 0,
         (\E k \in toWrite : PutBundle(k)) \/ (\E k \in toDelete : DeleteBundle(k))
  PROVE  Visible' = Visible /\ generations' = generations
<1>1. ProgressInv
  BY DEF BoardInv
<1>2. CASE \E k \in toWrite : PutBundle(k)
  <2>1. PICK k \in toWrite : PutBundle(k)
    BY <1>2
  <2>2. bundles' = bundles \cup {BundleOf(k)} /\ index' = index /\ generations' = generations
    BY <2>1 DEF PutBundle, BundleOf, tableVars
  <2>3. KeyOf(BundleOf(k)) = k
    BY DEF BoardInv, ReadersInv, TypeOK, BundleOf, KeyOf
  <2>4. ASSUME NEW s \in Shards
        PROVE  Shown(s)' = Shown(s)
    <3>1. PICK key : key = [shard |-> s, generation |-> index.shards[s]]
      OBVIOUS
    <3>2. CASE k # key
      <4>1. {c \in bundles' : KeyOf(c) = key} = {c \in bundles : KeyOf(c) = key}
        BY <2>2, <2>3, <3>2
      <4>2. QED BY <2>2, <3>1, <4>1 DEF Shown
    <3>3. CASE k = key
      <4>1. k.generation > 0
        BY <2>1, PutIsWanted DEF BoardInv, ReadersInv, ContentInv
      <4>2. k \in NamedBy(index)
        BY <3>1, <3>3, <4>1 DEF NamedBy
      <4>3. k \in StoredKeys
        BY <1>1, <4>2 DEF ProgressInv, Closed
      <4>4. PICK b \in bundles : KeyOf(b) = k
        BY <4>3 DEF StoredKeys
      <4>5. b \in written /\ b.shard = k.shard /\ b.generation = k.generation
        BY <4>4 DEF BoardInv, ReadersInv, ContentInv, KeyOf
      <4>6. /\ k.shard \in Shards /\ k.generation = generations[k.shard].generation
            /\ generations[k.shard].content # {}
        BY <2>1, PutIsWanted DEF BoardInv, ReadersInv
      <4>7. generations[k.shard].content = b.queries
        BY <4>5, <4>6 DEF BoardInv, ReadersInv, NumberingInv
      <4>8. b \in Bundle
        BY <4>4 DEF BoardInv, ReadersInv, TypeOK
      <4>9. BundleOf(k) = b
        BY <4>5, <4>7, <4>8 DEF BundleOf, Bundle
      <4>10. bundles' = bundles
        BY <2>2, <4>4, <4>9
      <4>11. QED BY <2>2, <4>10 DEF Shown
    <3>4. QED BY <3>2, <3>3
  <2>5. QED BY <2>2, <2>4, VisibleIsShown DEF Visible, Shown
<1>3. CASE \E k \in toDelete : DeleteBundle(k)
  <2>1. PICK k \in toDelete : DeleteBundle(k)
    BY <1>3
  <2>2. /\ bundles' = {b \in bundles : KeyOf(b) # k} /\ index' = index /\ generations' = generations
        /\ IndexSettled
    BY <2>1 DEF DeleteBundle, tableVars
  <2>3. index.shards = WantedListing /\ k \notin Wanted
    BY <1>1, <2>2 DEF ProgressInv, IndexSettled
  <2>4. k \notin NamedBy(index)
    BY <2>3, NamedIsWanted
  <2>5. ASSUME NEW s \in Shards
        PROVE  Shown(s)' = Shown(s)
    <3>1. PICK key : key = [shard |-> s, generation |-> index.shards[s]]
      OBVIOUS
    <3>2. \A c \in bundles : KeyOf(c) = key => key.generation > 0
      BY DEF BoardInv, ReadersInv, ContentInv, KeyOf
    <3>3. key.generation > 0 => key \in NamedBy(index)
      BY <3>1 DEF NamedBy
    <3>4. {c \in bundles' : KeyOf(c) = key} = {c \in bundles : KeyOf(c) = key}
      BY <2>2, <2>4, <3>2, <3>3
    <3>5. QED BY <2>2, <3>1, <3>4 DEF Shown
  <2>6. QED BY <2>2, <2>5 DEF Visible, Shown
<1>4. QED BY <1>2, <1>3

LEMMA BoardStep ==
  ASSUME ~DiesAfterIndexPut, BoardInv, [Next]_vars
  PROVE  [B!Next]_<<Filed(clock), Snapshot, Visible, losses = 0>>
<1>1. CASE losses' # 0
  BY <1>1 DEF B!Next, B!Lapse
<1>2. CASE losses' = 0
  <2>1. losses = 0 /\ ProgressInv /\ ReadersInv /\ TypeOK
    BY <1>2, LossesStay DEF BoardInv, ReadersInv
  <2>2. CASE Plan
    <3>1. Snapshot' = Filed(clock)
      <4>1. Filed(clock) \in [Shards -> SUBSET Query]
        BY <2>1, FiledType DEF TypeOK
      <4>2. \A s \in Shards : generations'[s].content = Filed(clock)[s]
        BY <2>1, <2>2, PlannedRow
      <4>3. QED BY <4>1, <4>2 DEF Snapshot
    <3>2. UNCHANGED <<review, status, revision, clock, bundles, index>>
      BY <2>2 DEF Plan, reportVars, storeVars
    <3>3. Filed(clock)' = Filed(clock) /\ Visible' = Visible
      BY <3>2 DEF Filed, FiledOf, Broadcastable, SignedQuery, Writable, Visible
    <3>4. B!Take
      BY <3>1, <3>3 DEF B!Take, Snapshot
    <3>5. QED BY <3>4 DEF B!Next
  <2>3. CASE PutIndex
    <3>1. /\ index' = draft /\ phase = "bundles" /\ toWrite = {} /\ draft # Absent
          /\ UNCHANGED <<review, status, revision, clock, bundles, generations>>
      BY <2>3 DEF PutIndex, BundlesWritten, reportVars, tableVars
    <3>2. draft.shards = WantedListing /\ Wanted \subseteq StoredKeys
      BY <2>1, <3>1 DEF ProgressInv
    <3>3. Visible' = Snapshot
      BY <2>1, <3>1, <3>2, WantedIsShown DEF Visible, Snapshot
    <3>4. Filed(clock)' = Filed(clock) /\ Snapshot' = Snapshot
      BY <3>1 DEF Filed, FiledOf, Broadcastable, SignedQuery, Writable, Snapshot
    <3>5. B!Publish
      BY <3>3, <3>4 DEF B!Publish, Snapshot
    <3>6. QED BY <3>5 DEF B!Next
  <2>4. CASE (\E k \in toWrite : PutBundle(k)) \/ (\E k \in toDelete : DeleteBundle(k))
    <3>1. Visible' = Visible /\ Snapshot' = Snapshot
      BY <2>1, <2>4, BundleStepShowsNothing DEF BoardInv, Snapshot
    <3>2. QED BY <3>1 DEF B!Next, B!Change, Snapshot
  <2>5. CASE ~Plan /\ ~PutIndex /\ ~(\E k \in toWrite : PutBundle(k)) /\ ~(\E k \in toDelete : DeleteBundle(k))
    <3>1. ~LoseObject
      BY <1>2, <2>1 DEF LoseObject, TypeOK
    <3>2. UNCHANGED <<generations, bundles, index>>
      BY <2>5, <3>1 DEF Next, vars, tableVars, storeVars, Release, Reject, Widen, End, Expire,
                        Tick, StepBack, PassDies, PassStep, Compare, RecordIndex, Invalidate
    <3>3. Visible' = Visible /\ Snapshot' = Snapshot
      BY <3>2 DEF Visible, Snapshot
    <3>4. QED BY <3>3 DEF B!Next, B!Change, Snapshot
  <2>6. QED BY <2>2, <2>3, <2>4, <2>5
<1>3. QED BY <1>1, <1>2

(* What a reader sees is replaced as a whole, by what the last pass read at one     *)
(* moment, as long as the store keeps its objects and every index put is recorded.  *)
THEOREM PassesPublishWholeBoards ==
  ASSUME ~DiesAfterIndexPut
  PROVE  Spec => PublishesAtomically
<1>1. Init => B!Init
  BY DEF Init, B!Init, Visible, Snapshot
<1>2. Init => (losses = 0 => ProgressInv)
  BY DEF Init, ProgressInv, WriteListInv, Closed, NamedBy, Absent
<1>3. TypeOK /\ (losses = 0 => ProgressInv) /\ [Next]_vars => (losses = 0 => ProgressInv)'
  BY LossesStay, ProgressStep
<1>4. ReadersInv => TypeOK
  BY DEF ReadersInv
<1>5. ReadersInv /\ (losses = 0 => ProgressInv) /\ [Next]_vars
        => [B!Next]_<<Filed(clock), [s \in Shards |-> generations[s].content], Visible, losses = 0>>
  BY BoardStep DEF BoardInv, Snapshot
<1>6. QED
  BY <1>1, <1>2, <1>3, <1>4, <1>5, ReadersInvariant, PTL DEF Spec, PublishesAtomically, B!Spec
=============================================================================
