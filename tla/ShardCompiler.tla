---------------------------- MODULE ShardCompiler ----------------------------
(***************************************************************************)
(* One compiler that turns the reports which may be broadcast into signed  *)
(* shard bundles and a signed index, in an object store behind a CDN.      *)
(* The pass is a sequence of steps over three stores that share no         *)
(* transaction (the database, the object store, the CDN); it may die       *)
(* between any two of them, and the reports change while it runs.          *)
(*                                                                         *)
(* A query is the record a device would store; a content hash is the set   *)
(* of queries itself.  Generation 0 stands for "no row" and "not listed".  *)
(***************************************************************************)
EXTENDS Payload

CONSTANTS
  Reports,       \* query ids
  Shards,        \* H3 cells of resolution 5 and 3
  MaxRevision,   \* bound on widening edits
  SearchArea,    \* SearchArea[r][v]: the shards revision v of report r touches
  ExpiresAt,     \* ExpiresAt[r]: the second report r expires
  DiesAfterIndexPut,  \* may a pass die between putting index.json and recording it?
  Scenarios      \* which reports take part, and how often each event may happen

Revisions == 1..MaxRevision

ASSUME ReportsAssumption ==
  /\ MaxRevision \in Nat \ {0}
  /\ SearchArea \in [Reports -> [Revisions -> SUBSET Shards]]
  /\ ExpiresAt \in [Reports -> Nat]
ASSUME BoundsAssumption ==
  /\ DiesAfterIndexPut \in BOOLEAN
  /\ \A s \in Scenarios :
       /\ s.withdrawn \subseteq Reports  \* rejected and ended before the first pass
       /\ s.lastSecond \in Nat          \* bound on the server's clock
       /\ s.stepBacks \in Nat           \* bound on the times the clock is set back
       /\ s.faults \in Nat              \* bound on passes that die and purges that fail
       /\ s.losses \in Nat              \* bound on objects the store loses

VARIABLES
  review, status, revision,  \* the columns of `reports` a pass depends on
  clock,                     \* the server's clock
  generations,               \* table shard_generations
  indexState,                \* table shard_index_state, or Absent
  cdnPending,                \* table shard_cdn_pending
  bundles,                   \* objects under shards/
  index,                     \* the object index.json, or Absent
  stale,                     \* CDN paths whose edge copy differs from the store
  phase, passNow, changed, toWrite, toDelete, draft,  \* the pass in progress
  written,                   \* history: every bundle ever put
  scenario,                  \* the one this behaviour follows
  stepBacks, faults, losses  \* counters of its bounded events

reportVars == <<review, status, revision>>
tableVars == <<generations, indexState, cdnPending>>
storeVars == <<bundles, index, stale, written>>
passVars == <<phase, passNow, changed, toWrite, toDelete, draft>>
budgetVars == <<scenario, stepBacks, faults, losses>>
vars == <<reportVars, clock, tableVars, storeVars, passVars, budgetVars>>

-----------------------------------------------------------------------------
(* Data *)

KeyIds == Keys \cup {NoKey.id}
Query == [id: Reports, revision: Revisions, key: KeyIds]
BundleKey == [shard: Shards, generation: Nat]
Bundle == [shard: Shards, generation: Nat, queries: SUBSET Query]
Listing == [Shards -> Nat]
Index == [issued: Nat, key: KeyIds, shards: Listing]
Absent == [issued |-> 0, key |-> NoKey.id, shards |-> [s \in Shards |-> 0]]
IndexPath == [shard |-> "index", generation |-> 0]

UnreviewedBroadcastable(now) ==  \* mutant: the review state is not asked for
  {r \in Reports : status[r] = "active" /\ ExpiresAt[r] > now /\ review[r] # "rejected"}

\* Released, active, unexpired: the only reports a pass may read.
Broadcastable(now) ==
  {r \in Reports : /\ review[r] = "released"
                   /\ status[r] = "active"
                   /\ ExpiresAt[r] > now}

SignedQuery(r, signer) == [id |-> r, revision |-> revision[r], key |-> signer]

\* A report that does not make a valid query is left out, and only that one.
Writable(r) == Fits(<<r, revision[r]>>)

FiledOf(reports, signer) ==
  [s \in Shards |-> {SignedQuery(r, signer) : r \in {q \in reports : s \in SearchArea[q][revision[q]]}}]

\* Every report filed under every shard its search area touches.
Filed(now) == FiledOf({r \in Broadcastable(now) : Writable(r)}, SignerAt(now).id)

KeyOf(b) == [shard |-> b.shard, generation |-> b.generation]
StoredKeys == {KeyOf(b) : b \in bundles}
NamedBy(i) == {[shard |-> s, generation |-> i.shards[s]] : s \in {t \in Shards : i.shards[t] > 0}}

-----------------------------------------------------------------------------
(* The server's other work: reviews, edits, ends, expiry, the clock *)

Release(r) ==
  /\ review[r] = "pending"
  /\ status[r] = "active" /\ clock < ExpiresAt[r]
  /\ review' = [review EXCEPT ![r] = "released"]
  /\ UNCHANGED <<status, revision, clock, tableVars, storeVars, passVars, budgetVars>>

Reject(r) ==
  /\ review[r] = "pending"
  /\ review' = [review EXCEPT ![r] = "rejected"]
  /\ status' = [status EXCEPT ![r] = IF @ = "active" /\ clock >= ExpiresAt[r] THEN "expired" ELSE @]
  /\ UNCHANGED <<revision, clock, tableVars, storeVars, passVars, budgetVars>>

Widen(r) ==
  /\ review[r] # "rejected"
  /\ status[r] = "active" /\ clock < ExpiresAt[r]
  /\ revision[r] < MaxRevision
  /\ revision' = [revision EXCEPT ![r] = @ + 1]
  /\ UNCHANGED <<review, status, clock, tableVars, storeVars, passVars, budgetVars>>

SetReportStatus(r, to) == status' = [status EXCEPT ![r] = to]

End(r) ==
  /\ status[r] = "active" /\ clock < ExpiresAt[r]
  /\ SetReportStatus(r, "ended")
  /\ UNCHANGED <<review, revision, clock, tableVars, storeVars, passVars, budgetVars>>

\* The first request that reads the report after its expiry records it.
Expire(r) ==
  /\ status[r] = "active" /\ clock >= ExpiresAt[r]
  /\ SetReportStatus(r, "expired")
  /\ UNCHANGED <<review, revision, clock, tableVars, storeVars, passVars, budgetVars>>

Tick ==
  /\ clock < scenario.lastSecond
  /\ clock' = clock + 1
  /\ UNCHANGED <<reportVars, tableVars, storeVars, passVars, budgetVars>>

StepBack ==
  /\ stepBacks < scenario.stepBacks /\ clock > 0
  /\ clock' = clock - 1
  /\ stepBacks' = stepBacks + 1
  /\ UNCHANGED <<reportVars, tableVars, storeVars, passVars, scenario, faults, losses>>

-----------------------------------------------------------------------------
(* The pass *)

PutShardIndexState(state) == indexState' = state
AddPendingCdnPaths(paths) == cdnPending' = cdnPending \cup paths
ClearPendingCdnPaths(paths) == cdnPending' = cdnPending \ paths

Listed == {s \in Shards : generations[s].content # {}}
Wanted == {[shard |-> s, generation |-> generations[s].generation] : s \in Listed}
WantedListing == [s \in Shards |-> IF s \in Listed THEN generations[s].generation ELSE 0]

NextGenerationForgetting(row, content) ==  \* mutant: an emptied shard starts over
  IF content = {} THEN [generation |-> 0, content |-> {}]
  ELSE IF content # row.content THEN [generation |-> row.generation + 1, content |-> content]
  ELSE row

NextGenerationUnsigned(row, content) ==  \* mutant: a new signature is no change
  IF content # {} /\ {<<q.id, q.revision>> : q \in content} # {<<q.id, q.revision>> : q \in row.content}
    THEN [generation |-> row.generation + 1, content |-> content]
    ELSE [row EXCEPT !.content = content]

\* A shard moves up a generation when its queries change and are not empty; an
\* emptied shard keeps its number, so it continues from there if it fills again.
NextGeneration(row, content) ==
  IF content # {} /\ content # row.content
    THEN [generation |-> row.generation + 1, content |-> content]
    ELSE [row EXCEPT !.content = content]

\* Steps 1 to 3: read and sign the reports, assign generations in one transaction.
\* Without a key in force the pass ends here: nothing is published unsigned.
Plan ==
  /\ phase = "idle" /\ MaySign(clock) # {}
  /\ LET filed == Filed(clock)
         planned == [s \in Shards |-> NextGeneration(generations[s], filed[s])]
     IN  /\ generations' = planned
         /\ changed' = {s \in Shards : planned[s].generation # generations[s].generation}
  /\ passNow' = clock
  /\ phase' = "planned"
  /\ UNCHANGED <<reportVars, clock, indexState, cdnPending, storeVars,
                 toWrite, toDelete, draft, budgetVars>>

IssuedNoEarlier(unchanged) ==  \* mutant: no earlier than the recorded one, but maybe equal
  IF unchanged THEN indexState.issued
  ELSE IF indexState = Absent \/ passNow > indexState.issued THEN passNow
  ELSE indexState.issued

\* An index that lists anything else than the recorded one is issued strictly later.
IssuedAt(unchanged) ==
  IF unchanged THEN indexState.issued
  ELSE IF indexState = Absent \/ passNow > indexState.issued THEN passNow
  ELSE indexState.issued + 1

WriteIndexIfChanged(unchanged) == ~unchanged  \* mutant: a lost index.json is not missed

WriteIndex(unchanged) == ~unchanged \/ index = Absent

PurgeWithoutDeleted(missing, extra, unchanged) ==  \* mutant: deleted bundles stay at the edge
  {k \in missing : k.shard \notin changed} \cup (IF WriteIndex(unchanged) THEN {IndexPath} ELSE {})

\* What the CDN has to drop: index.json if it changes, deleted bundles, and bundles
\* whose number did not just change, for which the edge may hold a 404.
PathsToPurge(missing, extra, unchanged) ==
  extra \cup {k \in missing : k.shard \notin changed}
        \cup (IF WriteIndex(unchanged) THEN {IndexPath} ELSE {})

\* Step 4, first half: what the store lacks and what it should lose, and the
\* paths the CDN will have to drop, recorded before anything changes.
Compare ==
  /\ phase = "planned"
  /\ LET signer == SignerAt(passNow).id
         missing == Wanted \ StoredKeys
         extra == StoredKeys \ Wanted
         unchanged == /\ indexState # Absent
                      /\ indexState.key = signer /\ indexState.shards = WantedListing
     IN  /\ toWrite' = missing
         /\ toDelete' = extra
         /\ draft' = IF WriteIndex(unchanged)
                       THEN [issued |-> IssuedAt(unchanged), key |-> signer, shards |-> WantedListing]
                       ELSE Absent
         /\ AddPendingCdnPaths(PathsToPurge(missing, extra, unchanged))
  /\ phase' = "bundles"
  /\ passNow' = 0 /\ changed' = {}  \* not read again in this pass
  /\ UNCHANGED <<reportVars, clock, generations, indexState, storeVars, budgetVars>>

\* The edge may hold a copy of path p that this change makes wrong.
EdgeCopyBecomesStale(p) == stale' \in {stale, stale \cup {p}}

\* The edge can hold a 404 only for a bundle some index sent a device to.
PutBundle(k) ==
  /\ phase = "bundles" /\ k \in toWrite
  /\ LET b == [shard |-> k.shard, generation |-> k.generation,
               queries |-> generations[k.shard].content]
     IN  /\ bundles' = bundles \cup {b}
         /\ written' = written \cup {b}
  /\ toWrite' = toWrite \ {k}
  /\ IF k \in NamedBy(index) \cup NamedBy(indexState)
       THEN EdgeCopyBecomesStale(k)
       ELSE UNCHANGED stale
  /\ UNCHANGED <<reportVars, clock, tableVars, index, phase, passNow, changed, toDelete, draft, budgetVars>>

IndexFirst == TRUE  \* mutant: the index does not wait for the bundles it names

BundlesWritten == toWrite = {}

PutIndex ==
  /\ phase = "bundles" /\ BundlesWritten /\ draft # Absent
  /\ index' = draft
  /\ EdgeCopyBecomesStale(IndexPath)
  /\ phase' = "record"
  /\ UNCHANGED <<reportVars, clock, tableVars, bundles, written,
                 passNow, changed, toWrite, toDelete, draft, budgetVars>>

RecordIndex ==
  /\ phase = "record"
  /\ PutShardIndexState(draft)
  /\ phase' = "deletes"
  /\ UNCHANGED <<reportVars, clock, generations, cdnPending, storeVars,
                 passNow, changed, toWrite, toDelete, draft, budgetVars>>

DeletesFirst == phase \in {"bundles", "deletes"} /\ toWrite = {}  \* mutant: deletes before the index

\* The index is as it should be: recorded just now, or left alone.
IndexSettled == phase = "deletes" \/ (phase = "bundles" /\ toWrite = {} /\ draft = Absent)

DeleteBundle(k) ==
  /\ IndexSettled /\ k \in toDelete
  /\ bundles' = {b \in bundles : KeyOf(b) # k}
  /\ toDelete' = toDelete \ {k}
  /\ EdgeCopyBecomesStale(k)
  /\ UNCHANGED <<reportVars, clock, tableVars, index, written,
                 phase, passNow, changed, toWrite, draft, budgetVars>>

PassEnds ==
  /\ phase' = "idle" /\ passNow' = 0 /\ changed' = {}
  /\ toWrite' = {} /\ toDelete' = {} /\ draft' = Absent

\* Step 5: every path still pending, from this pass or an earlier one.
Invalidate ==
  /\ IndexSettled /\ toDelete = {}
  /\ stale' = stale \ cdnPending
  /\ ClearPendingCdnPaths(cdnPending)
  /\ PassEnds
  /\ UNCHANGED <<reportVars, clock, generations, indexState, bundles, index, written, budgetVars>>

PassStep ==
  \/ Plan \/ Compare \/ PutIndex \/ RecordIndex \/ Invalidate
  \/ \E k \in toWrite : PutBundle(k)
  \/ \E k \in toDelete : DeleteBundle(k)

\* The CDN takes the paths in batches: some are dropped at the edge when it refuses one.
DroppedByThen == IF IndexSettled /\ toDelete = {} THEN SUBSET (stale \cap cdnPending) ELSE {{}}

\* The process dies, a store call throws, or the CDN refuses the purge: what the
\* pass held in memory is gone and the next pass starts over, with every path pending.
PassDies ==
  /\ phase # "idle" /\ faults < scenario.faults
  /\ phase = "record" => DiesAfterIndexPut
  /\ faults' = faults + 1
  /\ \E dropped \in DroppedByThen : stale' = stale \ dropped
  /\ PassEnds
  /\ UNCHANGED <<reportVars, clock, tableVars, bundles, index, written, scenario, stepBacks, losses>>

\* The object store loses an object between passes.
LoseObject ==
  /\ phase = "idle" /\ losses < scenario.losses
  /\ losses' = losses + 1
  /\ \/ \E b \in bundles : bundles' = bundles \ {b} /\ UNCHANGED index
     \/ index # Absent /\ index' = Absent /\ UNCHANGED bundles
  /\ UNCHANGED <<reportVars, clock, tableVars, stale, written, passVars, scenario, stepBacks, faults>>

Init ==
  /\ scenario \in Scenarios
  /\ review = [r \in Reports |-> IF r \in scenario.withdrawn THEN "rejected" ELSE "pending"]
  /\ status = [r \in Reports |-> IF r \in scenario.withdrawn THEN "ended" ELSE "active"]
  /\ revision = [r \in Reports |-> 1]
  /\ clock = 0
  /\ generations = [s \in Shards |-> [generation |-> 0, content |-> {}]]
  /\ indexState = Absent /\ index = Absent
  /\ cdnPending = {} /\ stale = {} /\ bundles = {} /\ written = {}
  /\ phase = "idle" /\ passNow = 0 /\ changed = {}
  /\ toWrite = {} /\ toDelete = {} /\ draft = Absent
  /\ stepBacks = 0 /\ faults = 0 /\ losses = 0

Next ==
  \/ \E r \in Reports : Release(r) \/ Reject(r) \/ Widen(r) \/ End(r) \/ Expire(r)
  \/ Tick \/ StepBack
  \/ PassStep \/ PassDies \/ LoseObject

Spec == Init /\ [][Next]_vars

\* The worker's timer starts passes for as long as the server runs.
FairSpec == Spec /\ WF_vars(PassStep)

-----------------------------------------------------------------------------
(* Properties *)

\* Every variable holds a value of its type; a pass that is not running holds nothing.
TypeOK ==
  /\ review \in [Reports -> {"pending", "released", "rejected"}]
  /\ status \in [Reports -> {"active", "ended", "expired"}]
  /\ revision \in [Reports -> Revisions]
  /\ clock \in Nat /\ passNow \in Nat
  /\ generations \in [Shards -> [generation : Nat, content : SUBSET Query]]
  /\ indexState \in Index \cup {Absent}
  /\ index \in Index \cup {Absent}
  /\ draft \in Index \cup {Absent}
  /\ cdnPending \subseteq BundleKey \cup {IndexPath}
  /\ stale \subseteq BundleKey \cup {IndexPath}
  /\ bundles \subseteq Bundle /\ written \subseteq Bundle
  /\ phase \in {"idle", "planned", "bundles", "record", "deletes"}
  /\ changed \subseteq Shards
  /\ toWrite \subseteq BundleKey /\ toDelete \subseteq BundleKey
  /\ stepBacks \in Nat /\ faults \in Nat /\ losses \in Nat

\* No bundle that was ever put, by a pass that finished or one that died, holds
\* a report the operator did not release, or a revision the report never had.
OnlyReleasedPublished ==
  \A b \in written : \A q \in b.queries :
    review[q.id] = "released" /\ q.revision <= revision[q.id]

\* `shards/<cell>/<n>.json` never holds different bytes later, across deaths,
\* emptied shards and key rotations: a device would not fetch it again.
OneContentPerKey ==
  \A b, c \in written : KeyOf(b) = KeyOf(c) => b = c

\* At every instant, inside a pass or after one died, the index a device reads
\* names only bundles that are in the store, as long as the store loses nothing.
Closed == NamedBy(index) \subseteq StoredKeys
IndexClosed == losses = 0 => Closed

\* An edge copy made wrong by a pass is recorded for purging, however the pass ends.
StaleIsPending == stale \subseteq cdnPending

\* A new index.json is issued strictly later than the one it replaces, even when
\* the clock is set back; a repaired one is the recorded one.
LaterThan(i, j) == j = Absent \/ i.issued > j.issued
IndexIssuedLater ==
  [][index' \notin {index, Absent, indexState} => LaterThan(index', index)]_<<index, indexState>>

\* What a device would read: the queries of the bundles the index names.
Visible ==
  [s \in Shards |-> UNION {b.queries : b \in {c \in bundles : KeyOf(c) = [shard |-> s, generation |-> index.shards[s]]}}]

\* Readers see whole publications only (the abstract specification Board).
B == INSTANCE Board WITH
       current <- Filed(clock),
       snapshot <- [s \in Shards |-> generations[s].content],
       board <- Visible,
       intact <- losses = 0
PublishesAtomically == B!Spec

\* Once changes stop, readers see exactly the reports that may be broadcast, each
\* under every shard of its area, and no edge copy is left behind.
Converges == <>[](Visible = Filed(clock) /\ stale = {})
=============================================================================
