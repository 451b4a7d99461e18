--------------------------- MODULE Subscriptions ---------------------------
(* The subscription manager (packages/shared/src/subscription): the last     *)
(* step but one of a maintenance run makes the table `subscription` equal to *)
(* the watch set of the history.  The run derives stays, purges and syncs;   *)
(* native writes, native purges and the clock come between its steps.        *)
(*                                                                           *)
(* A res-5 cell is ShardSize positions, its neighbours are the cells beside  *)
(* it, and a res-3 region is RegionSize cells.  The times of a row and what a  *)
(* run returns for the push task are left out.                               *)
EXTENDS StayDerivation

CONSTANTS ShardSize,   \* positions in a res-5 cell
          RegionSize,  \* res-5 cells in a res-3 cell
          Res5Cap      \* SUBSCRIPTION_RES5_CAP

ASSUME WatchAssumption == {ShardSize, RegionSize} \subseteq Nat \ {0} /\ Res5Cap \in Nat

VARIABLES subscription,  \* the table
          synced         \* history: nothing was written and no time passed since the last sync

vars == <<historyVars, subscription, synced>>

----------------------------------------------------------------------------
(* watchSet.ts                                                               *)

ShardOf(position) == position \div ShardSize
CentroidOf(c) == c.sum \div c.count
Ring(cell) == {cell - 1, cell + 1}
PushCellOf(cell) == cell \div RegionSize

OnlyVisited(visited) == visited  \* mutant
Wanted(visited) == visited \cup UNION {Ring(c) : c \in visited}

CellsOf(region, cells) == {c \in cells : PushCellOf(c) = region}

\* Fullest first, then lowest.
Fuller(cells, a, b) ==
  LET n(region) == Cardinality(CellsOf(region, cells))
  IN n(a) > n(b) \/ (n(a) = n(b) /\ a < b)

\* What is left of the cells when the fuller regions have been taken.
LeftBefore(cells, region) == {c \in cells : ~ Fuller(cells, PushCellOf(c), region)}

\* Regions are taken, fullest first, until what is left fits.
Coarsened(cells) ==
  {region \in {PushCellOf(c) : c \in cells} : Cardinality(LeftBefore(cells, region)) > Res5Cap}

Topic(res, cell, reason) == [res |-> res, cell |-> cell, reason |-> reason]

WatchSetForCells(visited) ==
  LET cells == Wanted(visited)
      coarse == Coarsened(cells)
  IN {Topic(5, c, IF c \in visited THEN "visited" ELSE "ring")
        : c \in {x \in cells : PushCellOf(x) \notin coarse}}
     \cup {Topic(3, r, IF r \in coarse THEN "coarsened" ELSE "ancestor")
             : r \in {PushCellOf(c) : c \in cells}}

ListSampleShardCells(since) == {ShardOf(s.pos) : s \in {x \in samples : x.ts >= since}}

\* The cells of both kinds of stay, as the shards they are in.
ListStayShardCells(since) ==
  {ShardOf(CentroidOf(r.c)) : r \in {x \in stays : x.c.end >= since}}
  \cup {ShardOf(v.pos) : v \in {x \in visits : x.end >= since}}

VisitedUnbounded(nowTs) ==  \* mutant: what the purge has not deleted yet counts
  ListSampleShardCells(0) \cup ListStayShardCells(0)

\* The shard cells of the fixes and stays within retention, purged or not.
VisitedShardCells(nowTs) ==
  ListSampleShardCells(nowTs - Retention) \cup ListStayShardCells(nowTs - Retention)

----------------------------------------------------------------------------
(* sync.ts                                                                   *)

Same(a, b) == a.res = b.res /\ a.cell = b.cell

\* Only the difference is written: rows no longer wanted are deleted, new ones and
\* those with a new reason are put.
Difference(wanted) ==
  [removed |-> {row \in subscription : ~ \E t \in wanted : Same(row, t)},
   put |-> wanted \ subscription]

DeleteSubscriptions(table, rows) == table \ rows

\* A row of the same topic takes the new reason.
PutSubscriptions(table, rows) ==
  {row \in table : ~ \E t \in rows : Same(row, t)} \cup rows

SyncSubscriptions ==
  /\ run.step = "sync"
  /\ LET diff == Difference(WatchSetForCells(VisitedShardCells(run.nowTs)))
     IN subscription' = PutSubscriptions(DeleteSubscriptions(subscription, diff.removed), diff.put)
  /\ synced' = (now = run.nowTs)
  /\ run' = Idle
  /\ UNCHANGED <<now, samples, stays, visits, cursor, log, finished, upTo, disturbed, tally>>

Elsewhere == UNCHANGED subscription

SubscriptionsInit == Init /\ subscription = {} /\ synced = FALSE

Next ==
  \/ (NativeWrites \/ ClockMoves \/ DeriveStays) /\ synced' = FALSE /\ Elsewhere
  \* RunDies is also a sync that fails: nothing of it is written.
  \/ (NativePurge \/ DeriveFails \/ PurgeExpired \/ RunDies) /\ UNCHANGED synced /\ Elsewhere
  \/ SyncSubscriptions

Spec == SubscriptionsInit /\ [][Next]_vars

----------------------------------------------------------------------------
\* The shards followed are those of the history, and of nothing that is past retention: after
\* a run, and whichever purge comes first, every cell of a fix or a stay and its neighbours are
\* followed themselves or by their region, within the cap, and nothing else is
\* (watchSet.ts: "what a consumer can rely on"; sync.ts: "it shrinks with the history").
FollowsHistory ==
  synced =>
    LET near == Wanted({ShardOf(s.pos) : s \in {x \in samples : x.ts >= now - Retention}}
                       \cup {ShardOf(CentroidOf(r.c)) : r \in {x \in stays : x.c.end >= now - Retention}}
                       \cup {ShardOf(v.pos) : v \in {x \in visits : x.end >= now - Retention}})
        cells == {t.cell : t \in {x \in subscription : x.res = 5}}
        regions == {t.cell : t \in {x \in subscription : x.reason = "coarsened"}}
    IN /\ \A c \in near : c \in cells \/ PushCellOf(c) \in regions
       /\ cells \subseteq near /\ regions \subseteq {PushCellOf(c) : c \in near}
       /\ Cardinality(cells) <= Res5Cap
       /\ \A t \in subscription : \A u \in subscription : Same(t, u) => t = u
       /\ \A c \in cells : Topic(3, PushCellOf(c), "ancestor") \in subscription
=============================================================================
