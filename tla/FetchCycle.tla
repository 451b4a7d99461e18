----------------------------- MODULE FetchCycle -----------------------------
(***************************************************************************)
(* The bundle fetcher of a device: one cycle reads the index, downloads the *)
(* followed shards whose generation moved, as many as it has requests for,  *)
(* and writes everything it learned in one transaction.  While it waits for *)
(* the network the publisher publishes, the watch list moves, maintenance   *)
(* purges, the owner deletes everything, the clock moves or the app dies.   *)
(*                                                                         *)
(* Times are differences from the device's clock, so time is unbounded:    *)
(* `wait` is retry_at - now and stays 0 once the time has come, `since` is *)
(* now - at and stays at the metered interval once that has passed.             *)
(***************************************************************************)
EXTENDS Publisher, Integers, FiniteSetsExt, TLC

CONSTANTS
  CoverRank,        \* CoverRank[s]: the place of s in this device's cover order
  Slots,
  Unreadable,       \* queries in a form this build cannot read
  Scenarios         \* what is published and followed, the waits, and how often events happen

Events == {"moves",      \* changes of the watch list
           "faults",     \* failed requests and writes, deaths, retired keys
           "purges",     \* reports purged as expired
           "stepBacks",  \* times the clock is set back
           "deletes"}    \* "Delete all my data"

ASSUME DeviceAssumption ==
  /\ CoverRank \in [Shards -> Nat]
  /\ \A s, t \in Shards : CoverRank[s] = CoverRank[t] => s = t
  /\ Slots \in Nat \ {0} /\ Unreadable \subseteq Query
  /\ \A s \in Scenarios :
       /\ s \in [published : SUBSET Reports,
                 watchLists : SUBSET (SUBSET Shards),  \* the shard-key lists maintenance may leave
                 cover : Nat,                          \* COVER_SHARDS
                 backoffBase : Nat, backoffMax : Nat, metered : Nat,
                 interval : Nat, recheck : Nat,        \* FETCH_TRIGGER_*_SEC
                 maxCycles : Nat \ {0},
                 goesOn : BOOLEAN,  \* do wakes, answers and time go on for ever?
                 budget : [Events -> Nat]]
       /\ s.backoffBase <= s.backoffMax

VARIABLES
  watch,      \* table subscription, less its ancestors: the shard-key list
  held,       \* kv: what is held of each shard; generation 0 where nothing is
  cache,      \* table report_cache: the revision of each cached report, or 0
  issued,     \* kv: issued_at of the newest index accepted, or 0
  index,      \* kv: the edition whose index document is kept, or 0
  backoff,    \* kv: failures in a row and the wait they earned
  completed,  \* kv: the last completed cycle
  cycle,      \* the cycle in progress
  best,       \* history: the newest state of each report this store has known
  purged,     \* history: reports purged as expired
  scenario    \* the one this behaviour follows, and what is left of its events

storeVars == <<held, cache, issued, index, backoff, completed>>
historyVars == <<best, purged>>
vars == <<publisherVars, watch, storeVars, cycle, historyVars, scenario>>

NotHeld == [generation |-> 0, ids |-> {}]
NoBackoff == [failures |-> 0, wait |-> 0]
NeverCompleted == [since |-> scenario.metered, deferred |-> 0]
NoCycle == [phase |-> "none"]
Spend(event) == scenario.left[event] > 0 /\ scenario' = [scenario EXCEPT !.left[event] = @ - 1]
Never(event) == scenario.left[event] = scenario.budget[event]

-----------------------------------------------------------------------------
(* The plan of a cycle *)

\* The first few listed shards it does not watch, in this device's own order.  A
\* device that watches nothing has no region and no cover.
Cover(e, watched) ==
  LET candidates == ListedShards(e) \ watched
      before(s) == {t \in candidates : CoverRank[t] < CoverRank[s]}
  IN  {s \in candidates : watched # {} /\ Cardinality(before(s)) < scenario.cover}

Followed(e, watched) == watched \cup Cover(e, watched)

\* Generations only go up: one held above the index's is left alone.
Changed(e, watched, h) ==
  {s \in Followed(e, watched) \cap ListedShards(e) : h[s].generation < e.generation[s]}

\* Held and no longer listed, followed or not.
Emptied(e, h) == {s \in Shards \ ListedShards(e) : h[s].generation > 0}

-----------------------------------------------------------------------------
(* Waiting *)

\* Doubled for each failure in a row; one more than reaches the cap changes nothing.
Delay[failures \in Nat] ==
  IF failures <= 1 THEN scenario.backoffBase ELSE Min({scenario.backoffMax, 2 * Delay[failures - 1]})

BackoffAfter(previous, elapsed) ==
  LET delay == Delay[previous.failures + 1]
  IN  [failures |-> IF delay = Delay[previous.failures + 2] THEN Max({previous.failures, 1})
                                                           ELSE previous.failures + 1,
       wait |-> Max({0, delay - elapsed})]

\* A wait longer than any backoff was left by a clock that has since been set back.
BackedOff == backoff.wait \in 1..scenario.backoffMax

PutOff(metered) ==
  /\ metered
  /\ completed.deferred = 0
  /\ completed.since >= 0 /\ completed.since < scenario.metered

-----------------------------------------------------------------------------
(* One cycle.  A call made while one runs joins it. *)

StartCycle(metered) ==
  /\ cycle = NoCycle
  /\ ~BackedOff /\ ~PutOff(metered)
  /\ cycle' = [phase |-> "index", watch |-> watch, elapsed |-> 0,
               loaded |-> [held |-> held, issued |-> issued, index |-> index, backoff |-> backoff]]
  /\ UNCHANGED <<publisherVars, watch, storeVars, historyVars, scenario>>

IndexRequestFails ==
  /\ cycle.phase = "index"
  /\ Spend("faults")
  /\ backoff' = BackoffAfter(cycle.loaded.backoff, cycle.elapsed)
  /\ cycle' = NoCycle
  /\ UNCHANGED <<publisherVars, watch, held, cache, issued, index, completed, historyVars>>

FloorOfHeld(loaded) == loaded.index  \* mutant: what was accepted before is forgotten with its document

\* The newest index ever accepted, whether or not its document still verifies.
Floor(loaded) == Max({loaded.issued, loaded.index})

AcceptableNewer(e, loaded) == e > Floor(loaded)  \* mutant: the same index again is too old

Acceptable(e, loaded) == e >= Floor(loaded)

Deferred(changed, downloads) == Cardinality(changed \ downloads)

\* The plan is drawn from the edition in force: a random choice of changed shards.
ReadIndex(e) ==
  LET edition == editions[e]
      changed == Changed(edition, cycle.watch, cycle.loaded.held)
  IN  \E downloads \in kSubset(Min({Slots, Cardinality(changed)}), changed) :
        cycle' = [phase |-> "bundles", watch |-> cycle.watch, elapsed |-> cycle.elapsed,
                  loaded |-> cycle.loaded, inForce |-> e, accepted |-> e # cycle.loaded.index,
                  downloads |-> downloads, deferred |-> Deferred(changed, downloads)]

\* An edge answers with any edition it may still hold: 304 if it is the one held.
IndexAnswered ==
  /\ cycle.phase = "index"
  /\ \E e \in edgeFrom..Len(editions) :
       \/ /\ Acceptable(e, cycle.loaded)
          /\ ReadIndex(e)
          /\ UNCHANGED backoff
       \/ /\ ~Acceptable(e, cycle.loaded) /\ cycle.loaded.index # 0
          /\ ReadIndex(cycle.loaded.index)
          /\ UNCHANGED backoff
       \/ /\ ~Acceptable(e, cycle.loaded) /\ cycle.loaded.index = 0
          /\ backoff' = BackoffAfter(cycle.loaded.backoff, cycle.elapsed)
          /\ cycle' = NoCycle
  /\ UNCHANGED <<publisherVars, watch, held, cache, issued, index, completed, historyVars, scenario>>

\* The origin has deleted a bundle the newest edition does not name.
MayBeGone(s) ==
  \/ s \notin ListedShards(Latest)
  \/ Latest.generation[s] # editions[cycle.inForce].generation[s]

\* The answers for all downloads; one that fails does not stop the others.
BundlesAnswered ==
  /\ cycle.phase = "bundles"
  /\ \E failed \in SUBSET cycle.downloads :
       /\ \/ (\A s \in failed : MayBeGone(s)) /\ UNCHANGED scenario
          \/ (\E s \in failed : ~MayBeGone(s)) /\ Spend("faults")
       /\ cycle' = [phase |-> "write", watch |-> cycle.watch, elapsed |-> cycle.elapsed,
                    loaded |-> cycle.loaded, inForce |-> cycle.inForce, accepted |-> cycle.accepted,
                    stored |-> cycle.downloads \ failed, failed |-> failed # {},
                    deferred |-> cycle.deferred]
  /\ UNCHANGED <<publisherVars, watch, storeVars, historyVars>>

ListedReadable(s) ==  \* mutant: entries this build cannot read count as gone
  {q.id : q \in Content(editions[cycle.inForce], s) \ Unreadable}

Listed(s) == {q.id : q \in Content(editions[cycle.inForce], s)}

\* What the write makes of the shards the cycle knew: the stored ones at their new
\* generation, unread entries included, and nothing of the emptied ones.
NowHeld ==
  [s \in Shards |->
     IF s \in cycle.stored
       THEN [generation |-> editions[cycle.inForce].generation[s], ids |-> Listed(s)]
     ELSE IF s \in Emptied(editions[cycle.inForce], cycle.loaded.held) THEN NotHeld
     ELSE cycle.loaded.held[s]]

WriteAllKnown == Shards  \* mutant: what was held before is written again

\* The shards whose row the transaction writes or deletes.
Written == cycle.stored \cup Emptied(editions[cycle.inForce], cycle.loaded.held)

DroppedByStored ==  \* mutant: an emptied shard ends nothing
  UNION {cycle.loaded.held[s].ids \ NowHeld[s].ids : s \in cycle.stored}

\* Listed by what was held of a shard and not by what now is.
Dropped == UNION {cycle.loaded.held[s].ids \ NowHeld[s].ids : s \in Written}

\* The bundles of one report's shards arrive one at a time: a report stays until no
\* followed shard lists it.
Kept == UNION {NowHeld[s].ids : s \in Followed(editions[cycle.inForce], cycle.watch)}

\* Only a strictly newer revision replaces a stored one.
Upsert(r, fetched) == Max(fetched \cup {cache[r]})

Removed == Dropped \ Kept

StoredCache ==
  [r \in Reports |->
     LET fetched == {q.revision : q \in {p \in UNION {Content(editions[cycle.inForce], s) : s \in cycle.stored}
                                           : p.id = r /\ p \notin Unreadable}}
     IN  IF r \in Removed THEN 0 ELSE Upsert(r, fetched)]

\* The transaction: reports, removals, held shards, index, backoff, completion.
Write ==
  /\ cycle.phase = "write"
  /\ held' = [s \in Shards |-> IF s \in Written THEN NowHeld[s] ELSE held[s]]
  /\ cache' = StoredCache
  /\ IF cycle.accepted
       THEN issued' = cycle.inForce /\ index' = cycle.inForce
       ELSE UNCHANGED <<issued, index>>
  /\ IF cycle.failed
       THEN /\ backoff' = BackoffAfter(cycle.loaded.backoff, cycle.elapsed)
            /\ UNCHANGED completed
       ELSE /\ backoff' = NoBackoff
            /\ completed' = [since |-> Min({scenario.metered, cycle.elapsed}), deferred |-> cycle.deferred]
  /\ best' = [r \in Reports |-> IF r \in Removed THEN Over ELSE Max({best[r], cache'[r]})]
  /\ purged' = {r \in purged : cache'[r] = 0}
  /\ cycle' = NoCycle
  /\ UNCHANGED <<publisherVars, watch, scenario>>

\* Rolled back: only the wait is recorded, on its own.
WriteFails ==
  /\ cycle.phase = "write"
  /\ Spend("faults")
  /\ backoff' \in {backoff, BackoffAfter(cycle.loaded.backoff, cycle.elapsed)}
  /\ cycle' = NoCycle
  /\ UNCHANGED <<publisherVars, watch, held, cache, issued, index, completed, historyVars>>

-----------------------------------------------------------------------------
(* Everything else that happens to the device *)

AppDies ==
  /\ cycle # NoCycle
  /\ Spend("faults")
  /\ cycle' = NoCycle
  /\ UNCHANGED <<publisherVars, watch, storeVars, historyVars>>

\* An update of the app no longer trusts the key that signed the index kept.
KeyRetired ==
  /\ cycle = NoCycle /\ index # 0
  /\ Spend("faults")
  /\ index' = 0
  /\ UNCHANGED <<publisherVars, watch, held, cache, issued, backoff, completed, cycle, historyVars>>

WatchMoves ==
  /\ Spend("moves")
  /\ watch' \in scenario.watchLists \ {watch}
  /\ UNCHANGED <<publisherVars, storeVars, cycle, historyVars>>

\* Maintenance deletes a report its clock says has expired.
Purge(r) ==
  /\ cache[r] # 0
  /\ Spend("purges")
  /\ cache' = [cache EXCEPT ![r] = 0]
  /\ purged' = purged \cup {r}
  /\ UNCHANGED <<publisherVars, watch, held, issued, index, backoff, completed, cycle, best>>

\* The store is replaced by an empty one; a cycle in progress goes on and writes
\* into it.
DeleteAll ==
  /\ Spend("deletes")
  /\ watch' = {}
  /\ held' = [s \in Shards |-> NotHeld] /\ cache' = [r \in Reports |-> 0]
  /\ issued' = 0 /\ index' = 0
  /\ backoff' = NoBackoff /\ completed' = NeverCompleted
  /\ best' = [r \in Reports |-> 0] /\ purged' = {}
  /\ UNCHANGED <<publisherVars, cycle>>

\* Moves the device's clock on by d seconds, or back where d is negative.
ClockMoves(d) ==
  /\ backoff' = IF backoff.failures = 0 THEN backoff
                ELSE [backoff EXCEPT !.wait = Max({0, @ - d})]
  /\ completed' = [completed EXCEPT !.since = Min({scenario.metered, @ + d})]
  /\ cycle' = IF cycle = NoCycle THEN cycle
              ELSE [cycle EXCEPT !.elapsed = Min({Max({scenario.metered, scenario.backoffMax}), @ + d})]
  /\ UNCHANGED <<publisherVars, watch, held, cache, issued, index, historyVars>>

-----------------------------------------------------------------------------

WithAllLeft(s) == [x \in DOMAIN s \cup {"left"} |-> IF x = "left" THEN s.budget ELSE s[x]]

Init ==
  /\ PublisherInit
  /\ scenario \in {WithAllLeft(s) : s \in Scenarios}
  /\ watch \in scenario.watchLists
  /\ held = [s \in Shards |-> NotHeld] /\ cache = [r \in Reports |-> 0]
  /\ issued = 0 /\ index = 0
  /\ backoff = NoBackoff /\ completed = NeverCompleted
  /\ cycle = NoCycle
  /\ best = [r \in Reports |-> 0] /\ purged = {}

PublisherStep ==
  /\ Publish \/ EdgesRefresh
  /\ \A r \in Reports \ scenario.published : Latest.reports'[r] = Latest.reports[r]
  /\ UNCHANGED <<watch, storeVars, cycle, historyVars, scenario>>

-----------------------------------------------------------------------------
(* Properties *)

\* Neither a stale edge, a lost document, a newly followed shard nor a failed cycle
\* brings back an older revision or a report that was removed as ended.
NoRollback == Never("deletes") => \A r \in Reports : cache[r] # 0 => cache[r] >= best[r]

\* The fetcher removes a report only once it has ended: one that is still published
\* is never taken for ended because a shard, an edge or a cycle is behind.
RemovedHasEnded == Never("deletes") => \A r \in Reports : best[r] = Over => Latest.reports[r] = Over

\* Nothing is cached that no held shard lists: there is always a generation to come
\* whose arrival can end it, whatever was deferred, unfollowed, emptied or deleted.
CachedIsHeld == \A r \in Reports : cache[r] # 0 => \E s \in Shards : r \in held[s].ids

\* A generation counted as held is not asked for again, so what it lists is stored,
\* unless the report ended since or was purged.  Only where everything was deleted under
\* a cycle, and a report it stored then purged, can an older index bring back an older
\* revision: the floor that kept it out went with the data.
HeldIsStored ==
  Never("deletes") \/ Never("purges") =>
    \A s \in Shards : \A i \in 1..Len(editions) :
      held[s].generation > 0 /\ editions[i].generation[s] = held[s].generation =>
        \A q \in Content(editions[i], s) \ Unreadable :
          cache[q.id] >= q.revision \/ best[q.id] = Over \/ q.id \in purged

\* Once the publisher and the device settle, every followed shard is held at its
\* latest generation, its reports are cached as last published, and what has ended
\* is gone but for the copies that only a shard no longer followed still lists.
UpToDate ==
  LET followed == Followed(Latest, watch)
  IN  /\ Changed(Latest, watch, held) = {}
      /\ \A s \in followed : \A q \in Content(Latest, s) \ Unreadable :
           cache[q.id] = q.revision \/ q.id \in purged
      /\ \A r \in Reports : cache[r] # 0 /\ Latest.reports[r] = Over =>
           \E s \in Shards \ followed : r \in held[s].ids
CatchesUp == <>[](scenario.goesOn => UpToDate)
=============================================================================
