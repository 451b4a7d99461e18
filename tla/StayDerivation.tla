--------------------------- MODULE StayDerivation ---------------------------
(* How a phone turns the fixes it stored into stays: deriveStays             *)
(* (packages/shared/src/stay) run again and again over a table that the      *)
(* native capture module writes to and that the retention purge empties.     *)
(*                                                                           *)
(* A position is a number and "the same place" is within Radius of it. A     *)
(* centroid is kept exactly, as the sum of the member positions and their    *)
(* number, because the tracker compares it with the next fix. Times are      *)
(* small numbers. radius_m and the cell of a row follow from its members and *)
(* are left out. `log`, `finished`, `upTo`, `disturbed`, a sample's `n` and  *)
(* a cluster's `of` are history: they say which fix is meant and no code     *)
(* reads them.                                                               *)
EXTENDS Integers, FiniteSets, SequencesExt

CONSTANTS Positions,     \* where a fix may be
          VisitPlaces,   \* where a visit may be
          Radius,        \* STAY_RADIUS_M
          MinDuration,   \* STAY_MIN_DURATION_SEC
          MergeGap,      \* STAY_MERGE_GAP_SEC
          Retention,     \* RETENTION_SEC
          MaxTime,       \* bound: the latest time of the device clock
          MaxFixes,      \* bound: fixes ever stored
          MaxEvents      \* bound: clocks set back and visits reported, together

ASSUME StayAssumption ==
  /\ Positions \cup VisitPlaces \subseteq Int
  /\ {Radius, MinDuration, MergeGap, Retention, MaxTime, MaxEvents} \subseteq Nat
  /\ MinDuration > 0

VARIABLES now,        \* the device clock
          samples,    \* location_sample
          stays,      \* the 'derived' rows of stay
          visits,     \* the 'visit' rows of stay
          cursor,     \* kv stay.derivation.last_sample_id
          run,        \* the maintenance run: its next step and its nowTs
          log,        \* history: every fix in the order it was stored
          finished,   \* history: the fixes a run has finished with
          upTo,       \* history: how many fixes had been stored at the last derivation
          disturbed,  \* history: a purge or a late visit came after a derivation
          tally       \* events counted against the bounds

historyVars == <<now, samples, stays, visits, cursor, run, log, finished, upTo, disturbed, tally>>

Idle == [step |-> "idle", nowTs |-> 0]

----------------------------------------------------------------------------
(* cluster.ts: the arithmetic of one dwell.                                  *)

Larger(a, b) == IF a >= b THEN a ELSE b
Smaller(a, b) == IF a <= b THEN a ELSE b
Distance(a, b) == IF a >= b THEN a - b ELSE b - a

ClusterOf(s) == [start |-> s.ts, end |-> s.ts, sum |-> s.pos, count |-> 1, of |-> {s.n}]

IsSamePlace(a, b) ==
  Distance(a.sum * b.count, b.sum * a.count) <= Radius * a.count * b.count

AddSample(c, s) ==
  [c EXCEPT !.end = Larger(@, s.ts), !.sum = @ + s.pos, !.count = @ + 1, !.of = @ \cup {s.n}]

IsStay(c) == c.end - c.start >= MinDuration

CanMerge(a, b) ==
  /\ b.start - a.end <= MergeGap
  /\ a.start - b.end <= MergeGap
  /\ IsSamePlace(a, b)

MergeClusters(a, b) ==
  [start |-> Smaller(a.start, b.start), end |-> Larger(a.end, b.end),
   sum |-> a.sum + b.sum, count |-> a.count + b.count, of |-> a.of \cup b.of]

\* A visit row in the shape of a cluster: one coordinate, whatever built it.
AsCluster(v) == [start |-> v.start, end |-> v.end, sum |-> v.pos, count |-> 1, of |-> {}]

OverlapsVisit(c, V) ==
  \E v \in V : v.start <= c.end /\ c.start <= v.end /\ IsSamePlace(AsCluster(v), c)

----------------------------------------------------------------------------
(* extract.ts: the ledger of one run and the tracker over it.  The rows of a *)
(* ledger are kept under numbers, in the order they were added: the number   *)
(* stands for the identity of the object, and the rows removed are numbered  *)
(* by when.  A row is [id, closed, c], id 0 before it is inserted.  The      *)
(* tracker works on [rows, removed, open, pending, fresh]: open is a row or  *)
(* NoRow, pending the dwell that is too short, fresh the next number.  A     *)
(* loop of the code is a function of the number of its rounds.               *)

NoRow == 0
NoDwell == [members |-> <<>>, cluster |-> ClusterOf([ts |-> 0, pos |-> 0, n |-> 0])]

Without(f, keys) == [k \in DOMAIN f \ keys |-> f[k]]
With(f, k, x) == [j \in DOMAIN f \cup {k} |-> IF j = k THEN x ELSE f[j]]
StartingAt(rows, c) == {k \in DOMAIN rows : rows[k].c.start = c.start}

SetRow(t, k, c, closed) ==
  [t EXCEPT !.rows = With(@, k, [id |-> @[k].id, closed |-> closed, c |-> c])]

\* StayLedger.remove: a row that is stored is remembered.
RemoveRow(t, k) ==
  [t EXCEPT !.rows = Without(@, {k}),
            !.removed = IF t.rows[k].id = 0 THEN @ ELSE With(@, t.fresh, t.rows[k]),
            !.fresh = @ + 1]

\* StayLedger.insert: a row removed in this run that began at the same instant comes back.
InsertRow(t, c) ==
  LET again == StartingAt(t.removed, c)
      id == IF again = {} THEN 0 ELSE t.removed[Min(again)].id
  IN [t EXCEPT !.rows = With(@, t.fresh, [id |-> id, closed |-> FALSE, c |-> c]),
               !.removed = IF again = {} THEN @ ELSE Without(@, {Min(again)}),
               !.open = t.fresh, !.fresh = @ + 1]

\* Another stay, or a visit, lies in the gap between the two.
Interrupted(t, k, c, taken, V) ==
  LET from == Smaller(t.rows[k].c.end, c.end)
      to == Larger(t.rows[k].c.start, c.start)
      InGap(o) == o.start < to /\ o.end > from
  IN /\ from < to
     /\ \/ \E j \in DOMAIN t.rows \ (taken \cup {k}) : InGap(t.rows[j].c)
        \/ \E v \in V : InGap(v)

\* Rule 5: the closed rows the dwell continues.
Mergeable(t, c, taken, V) ==
  {k \in DOMAIN t.rows \ taken :
     /\ t.rows[k].closed
     /\ CanMerge(t.rows[k].c, c)
     /\ ~ Interrupted(t, k, c, taken, V)
     /\ ~ OverlapsVisit(MergeClusters(t.rows[k].c, c), V)}

\* The one that ends last, and of several the one listed last.
EndsBefore(t, j, k) ==
  t.rows[j].c.end < t.rows[k].c.end \/ (t.rows[j].c.end = t.rows[k].c.end /\ j < k)
EndingLatest(t, M) == CHOOSE k \in M : \A j \in M : ~ EndsBefore(t, k, j)

\* A round of the loop of StayTracker.begin: the merged cluster and the rows it absorbed, in order.
Absorb(t, all, V) ==
  LET M == Mergeable(t, all.c, ToSet(all.taken), V)
      k == EndingLatest(t, M)
  IN IF M = {} THEN all
     ELSE [c |-> MergeClusters(t.rows[k].c, all.c), taken |-> Append(all.taken, k)]

Absorbing(t, c, V) ==
  LET Round[n \in 0 .. Cardinality(DOMAIN t.rows)] ==
        IF n = 0 THEN [c |-> c, taken |-> <<>>] ELSE Absorb(t, Round[n - 1], V)
  IN Round

Absorbed(t, c, V) == Absorbing(t, c, V)[Cardinality(DOMAIN t.rows)]

\* The row that began first keeps its id.
Keeper(t, all) ==
  LET began == {i \in DOMAIN all.taken : t.rows[all.taken[i]].c.start = all.c.start}
  IN IF began = {} THEN NoRow ELSE all.taken[Min(began)]

\* The first n of the others are removed.
RemovingOthers(t, taken, keeper) ==
  LET Left[n \in 0 .. Len(taken)] ==
        IF n = 0 THEN t
        ELSE IF taken[n] = keeper THEN Left[n - 1] ELSE RemoveRow(Left[n - 1], taken[n])
  IN Left

Join(t, all) ==
  LET keeper == Keeper(t, all)
      left == RemovingOthers([t EXCEPT !.pending = NoDwell], all.taken, keeper)[Len(all.taken)]
  IN IF keeper = NoRow THEN InsertRow(left, all.c)
     ELSE [SetRow(left, keeper, all.c, FALSE) EXCEPT !.open = keeper]

\* Rules 2 and 5.
Begin(t, c, V) == Join(t, Absorbed(t, c, V))

GrowsAcross(c, s, V) == IsSamePlace(ClusterOf(s), c)  \* mutant
\* StayTracker.grow succeeds: the fix is at the place and no visit is in the way.
Grows(c, s, V) == IsSamePlace(ClusterOf(s), c) /\ ~ OverlapsVisit(AddSample(c, s), V)

\* The end of StayTracker.place: the fix on its own.
Alone(t, s, V) ==
  IF OverlapsVisit(ClusterOf(s), V) THEN t
  ELSE IF IsStay(ClusterOf(s)) THEN Begin(t, ClusterOf(s), V)
  ELSE [t EXCEPT !.pending = [members |-> <<s>>, cluster |-> ClusterOf(s)]]

\* The open stay grows, or is closed before the fix.
PlaceInOpen(t, s, V) ==
  LET c == t.rows[t.open].c
  IN IF Grows(c, s, V) THEN SetRow(t, t.open, AddSample(c, s), FALSE)
     ELSE Alone([SetRow(t, t.open, c, TRUE) EXCEPT !.open = NoRow], s, V)

GrowPending(t, s, V) ==
  LET grown == AddSample(t.pending.cluster, s)
  IN IF IsStay(grown) THEN Begin(t, grown, V)
     ELSE [t EXCEPT !.pending = [members |-> Append(@.members, s), cluster |-> grown]]

\* StayTracker.place, of the first in the queue: a broken short dwell is tried again from its
\* second fix.
Place(x, V) ==
  LET t == x.t
      s == Head(x.queue)
      Placed(u) == [t |-> u, queue |-> Tail(x.queue)]
  IN IF x.queue = <<>> THEN x
     ELSE IF t.open # NoRow THEN Placed(PlaceInOpen(t, s, V))
     ELSE IF t.pending.members = <<>> THEN Placed(Alone(t, s, V))
     ELSE IF Grows(t.pending.cluster, s, V) THEN Placed(GrowPending(t, s, V))
     ELSE [t |-> [t EXCEPT !.pending = NoDwell], queue |-> Tail(t.pending.members) \o x.queue]

\* Every time a dwell is broken a fix is dropped, so the queue is empty by then.
Rounds(t) == (Len(t.pending.members) + 1) * (Len(t.pending.members) + 1) + 1

Feeding(t, s, V) ==
  LET Round[n \in 0 .. Rounds(t)] ==
        IF n = 0 THEN [t |-> t, queue |-> <<s>>] ELSE Place(Round[n - 1], V)
  IN Round

\* StayTracker.feed.
Feed(t, s, V) == Feeding(t, s, V)[Rounds(t)].t

LastOf(numbers) == Max(numbers \cup {0})

\* The fixes under the first n numbers are fed.
FeedingAll(t, fixes, V) ==
  LET Fed[n \in 0 .. LastOf(DOMAIN fixes)] ==
        IF n = 0 THEN t
        ELSE IF n \in DOMAIN fixes THEN Feed(Fed[n - 1], fixes[n], V) ELSE Fed[n - 1]
  IN Fed

FeedAll(t, fixes, V) == FeedingAll(t, fixes, V)[LastOf(DOMAIN fixes)]

\* StayTracker.finish.
Finish(t) ==
  LET closed == IF t.open = NoRow THEN t ELSE SetRow(t, t.open, t.rows[t.open].c, TRUE)
  IN [closed EXCEPT !.open = NoRow, !.pending = NoDwell]

\* StayLedger and the tracker over it: the stored rows, closed but for the one that goes on.
StayLedger(derived, open) ==
  [rows |-> [k \in DOMAIN derived |->
     [id |-> derived[k].id, closed |-> k # open, c |-> derived[k].c]],
   removed |-> <<>>, open |-> open, pending |-> NoDwell, fresh |-> LastOf(DOMAIN derived) + 1]

\* extractStays: the rows of a list of fixes, all at once.
ExtractStays(fixes, V) ==
  LET t == FeedAll(StayLedger(<<>>, NoRow), fixes, V)
  IN {[c |-> t.rows[k].c, closed |-> t.rows[k].closed] : k \in DOMAIN t.rows}

----------------------------------------------------------------------------
(* derive.ts: one run over the store, in one transaction.                    *)

Ids == {s.id : s \in samples}
LatestId == LastOf(Ids)
\* In the order of their ids, each under its own.
ById(S) == [i \in {s.id : s \in S} |-> CHOOSE s \in S : s.id = i]
Between(a, b) == {s \in samples : a <= s.ts /\ s.ts <= b}
AfterId(i) == {s \in samples : s.id > i}
Covering == {v \in visits : v.closed}

IdsRestarted == cursor > LatestId

\* listStaysOverlapping, of all time: by start, then id.
ListedBefore(a, b) == a.c.start < b.c.start \/ (a.c.start = b.c.start /\ a.id < b.id)
PlaceInList(r) == Cardinality({x \in stays : ListedBefore(x, r)}) + 1
ListStays == [k \in {PlaceInList(r) : r \in stays} |-> CHOOSE r \in stays : PlaceInList(r) = k]

\* The last open row continues, the rest close.
Ledger ==
  LET openAt == {k \in DOMAIN ListStays : ~ ListStays[k].closed}
  IN StayLedger(ListStays, IF IdsRestarted THEN NoRow ELSE LastOf(openAt))

\* One row a visit has come to cover: take it out and derive its stretch again. The dwell in
\* progress is taken again from its first fix by the rest of the run instead.
Reconcile(w, k) ==
  LET t == w.t
      members == ById(Between(t.rows[k].c.start, t.rows[k].c.end))
      out == [RemoveRow(t, k) EXCEPT !.open = NoRow]
  IN IF k \notin DOMAIN t.rows THEN w
     ELSE IF k = t.open
     THEN [t |-> out,
           cursor |-> IF DOMAIN members = {} THEN w.cursor
                      ELSE Smaller(w.cursor, Min(DOMAIN members) - 1)]
     ELSE [w EXCEPT !.t = [Finish(FeedAll(out, members, Covering)) EXCEPT !.open = t.open]]

\* The rows to reconcile, listed before any is.
Covered(l) == {k \in DOMAIN l.rows : OverlapsVisit(l.rows[k].c, Covering)}

Reconciling(l) ==
  LET Done[n \in 0 .. LastOf(DOMAIN l.rows)] ==
        IF n = 0 THEN [t |-> l, cursor |-> IF IdsRestarted THEN 0 ELSE cursor]
        ELSE IF n \in Covered(l) THEN Reconcile(Done[n - 1], n) ELSE Done[n - 1]
  IN Done

Reconciled == Reconciling(Ledger)[LastOf(DOMAIN Ledger.rows)]

DeleteDerivedStays(table, removed) ==
  {s \in table : \A k \in DOMAIN removed : removed[k].id # s.id}

\* Only these columns, and not when the stay began, can be changed.
UpdateDerivedStay(s, row) == [s EXCEPT !.c = [row.c EXCEPT !.start = s.c.start], !.closed = row.closed]

RowsOf(t, id) == {k \in DOMAIN t.rows : t.rows[k].id = id}

UpdateDerivedStays(table, t) ==
  {IF RowsOf(t, s.id) = {} THEN s
   ELSE UpdateDerivedStay(s, t.rows[CHOOSE k \in RowsOf(t, s.id) : TRUE]) : s \in table}

\* The id is a rowid, one more than the largest there is.
InsertStays(table, t) ==
  LET NextId(k) == LastOf({s.id : s \in table}) + Cardinality({j \in RowsOf(t, 0) : j <= k})
  IN table \cup {[id |-> NextId(k), closed |-> t.rows[k].closed, c |-> t.rows[k].c] : k \in RowsOf(t, 0)}

\* StayLedger.changes, written: deletes, then updates, then inserts.
Written(t) == InsertStays(UpdateDerivedStays(DeleteDerivedStays(stays, t.removed), t), t)

\* The last fix fed is finished with, but a dwell still too short is read again.
ForgetsPending(from, fed, members) == IF DOMAIN fed = {} THEN from ELSE LastOf(DOMAIN fed)  \* mutant
NewCursor(from, fed, members) ==
  IF members # <<>> THEN Head(members).id - 1
  ELSE IF DOMAIN fed = {} THEN from ELSE LastOf(DOMAIN fed)

Outcome(from, fed, t) ==
  LET to == NewCursor(from, fed, t.pending.members)
  IN [stays |-> Written(t), cursor |-> to,
      finished |-> {fed[i].n : i \in {j \in DOMAIN fed : j <= to}}]

DerivedFrom(w) ==
  LET fed == ById(AfterId(w.cursor)) IN Outcome(w.cursor, fed, FeedAll(w.t, fed, Covering))

DerivedStays == DerivedFrom(Reconciled)

----------------------------------------------------------------------------
Init ==
  /\ now = 0 /\ samples = {} /\ stays = {} /\ visits = {} /\ cursor = 0
  /\ run = Idle
  /\ log = <<>> /\ finished = {} /\ upTo = 0 /\ disturbed = FALSE
  /\ tally = [back |-> 0, visits |-> 0]

(* The native capture module and the clock. They do not wait for a run.      *)

\* INSERT_LOCATION_SAMPLE_SQL: the id is a rowid, one more than the largest stored.
StoreFix(p) ==
  LET s == [id |-> LatestId + 1, ts |-> now, pos |-> p, n |-> Len(log) + 1] IN
  /\ Len(log) < MaxFixes
  /\ samples' = samples \cup {s}
  /\ log' = Append(log, s)
  /\ UNCHANGED <<now, stays, visits, cursor, run, finished, upTo, disturbed, tally>>

\* INSERT_VISIT_STAY_SQL: an arrival (open) or a whole visit, reported at any time after it.
VisitReported(v) ==
  /\ tally.back + tally.visits < MaxEvents
  /\ v.end <= now
  /\ IF v.closed THEN v.start < v.end ELSE v.start = v.end
  /\ visits' = visits \cup {v}
  /\ disturbed' = (disturbed \/ (v.closed /\ upTo > 0))
  /\ tally' = [tally EXCEPT !.visits = @ + 1]
  /\ UNCHANGED <<now, samples, stays, cursor, run, log, finished, upTo>>

\* CLOSE_VISIT_STAY_SQL.
VisitEnds(v, t) ==
  /\ v \in visits /\ ~ v.closed
  /\ v.start <= t /\ t <= now
  /\ visits' = (visits \ {v}) \cup {[v EXCEPT !.end = t, !.closed = TRUE]}
  /\ disturbed' = (disturbed \/ upTo > 0)
  /\ UNCHANGED <<now, samples, stays, cursor, run, log, finished, upTo, tally>>

Tick ==
  /\ now < MaxTime
  /\ now' = now + 1
  /\ UNCHANGED <<samples, stays, visits, cursor, run, log, finished, upTo, disturbed, tally>>

SetBack(t) ==
  /\ tally.back + tally.visits < MaxEvents
  /\ t < now
  /\ now' = t
  /\ tally' = [tally EXCEPT !.back = @ + 1]
  /\ UNCHANGED <<samples, stays, visits, cursor, run, log, finished, upTo, disturbed>>

\* The four statements of a purge that concern history, in their order.
Trimmed(S, cutoff) ==
  {[r EXCEPT !.c.start = Larger(@, cutoff)] : r \in {x \in S : x.c.end >= cutoff}}

TrimmedVisits(cutoff) ==
  {[v EXCEPT !.start = Larger(@, cutoff)] : v \in {x \in visits : x.end >= cutoff}}

\* REWIND_STAY_CURSOR_SQL, over the samples that are left.
NotRewound(left) == cursor  \* mutant
Rewound(left) == Smaller(cursor, LastOf({s.id : s \in left}))

DeleteSamplesBefore(cutoff) == {s \in samples : s.ts >= cutoff}

PurgeHistory(cutoff) ==
  LET left == DeleteSamplesBefore(cutoff) IN
  /\ samples' = left
  /\ stays' = Trimmed(stays, cutoff)
  /\ visits' = TrimmedVisits(cutoff)
  /\ cursor' = Rewound(left)
  /\ disturbed' = (disturbed \/ <<samples', stays', visits'>> # <<samples, stays, visits>>)

\* The purge of a capture wake that runs no JavaScript.
NativePurge ==
  /\ PurgeHistory(now - Retention)
  /\ UNCHANGED <<now, run, log, finished, upTo, tally>>

(* A maintenance run reads the clock once.  It derives, and purges even when *)
(* that failed.                                                              *)

DeriveStays ==
  /\ run = Idle
  /\ \E d \in {DerivedStays} :
     /\ stays' = d.stays
     /\ cursor' = d.cursor
     /\ finished' = finished \cup d.finished
  /\ upTo' = Len(log)
  /\ run' = [step |-> "purge", nowTs |-> now]
  /\ UNCHANGED <<now, samples, visits, log, disturbed, tally>>

\* The transaction is rolled back.
DeriveFails ==
  /\ run = Idle
  /\ run' = [step |-> "purge", nowTs |-> now]
  /\ UNCHANGED <<now, samples, stays, visits, cursor, log, finished, upTo, disturbed, tally>>

PurgeExpired ==
  /\ run.step = "purge"
  /\ run' = [run EXCEPT !.step = "sync"]
  /\ PurgeHistory(run.nowTs - Retention)
  /\ UNCHANGED <<now, log, finished, upTo, tally>>

\* The app is killed in the middle of a run.
RunDies ==
  /\ run # Idle
  /\ run' = Idle
  /\ UNCHANGED <<now, samples, stays, visits, cursor, log, finished, upTo, disturbed, tally>>

PossibleVisits == [start : 0 .. MaxTime, end : 0 .. MaxTime, pos : VisitPlaces, closed : BOOLEAN]

\* Steps of the native module, and of the clock.
NativeWrites ==
  \/ \E p \in Positions : StoreFix(p)
  \/ \E v \in PossibleVisits : VisitReported(v)
  \/ \E v \in visits, t \in 0 .. MaxTime : VisitEnds(v, t)
ClockMoves == Tick \/ \E t \in 0 .. MaxTime : SetBack(t)

----------------------------------------------------------------------------
Contents == {[c |-> r.c, closed |-> r.closed] : r \in stays}

\* The clock did not go back between two fixes.
InOrder == \A i, j \in DOMAIN log : i < j => log[i].ts <= log[j].ts

\* Deriving in steps leaves what deriving once would: as long as no history was purged and no
\* visit was reported behind a run, the rows are those of extractStays over every fix
\* (extract.ts: "however the fixes are split across runs"; a run killed at any point included).
\* When the clock goes back two stays may end together, and which of them a later dwell
\* continues depends on the order of the ledger, which is another one in every run.
SameAsAtOnce ==
  InOrder /\ ~ disturbed /\ upTo = Len(log) => Contents = ExtractStays(log, Covering)

\* No fix is skipped: one at or below the cursor has been finished with by some run, whatever
\* was purged and whichever row ids were used again (derive.ts, REWIND_STAY_CURSOR_SQL).
NoFixSkipped == \A s \in samples : s.id <= cursor => s.n \in finished

\* Right after a run no stay is claimed twice: no derived row overlaps a closed visit at its
\* place (extract.ts, rule 6).
ClearOfVisits ==
  [][run = Idle /\ run' # Idle /\ stays' # stays
       => \A r \in stays' : ~ OverlapsVisit(r.c, Covering)]_historyVars
=============================================================================
