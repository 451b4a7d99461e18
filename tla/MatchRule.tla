----------------------------- MODULE MatchRule -----------------------------
(* The match rule (packages/shared/src/match/matchReport) and the cover of a *)
(* search area (packages/shared/src/geo): is a phone's history evidence for  *)
(* a report, and under which shards is the report filed?  Pure: history, the *)
(* report and the time go in.  The order of the evidence is left out.        *)
(*                                                                           *)
(* Places are the points of any metric space; distances are whole metres.  A *)
(* res-7 cell has a centre and no point further from it than its             *)
(* circumradius.  The checks of the parameters and of NaN are left out.      *)
EXTENDS Integers, FiniteSets

CONSTANTS
  Places,        \* where the centre of a report may be, and a person
  Metric,        \* their distances: haversineMeters
  Cells,         \* res-7 cells
  CellOf,        \* matchCellAt
  CentreOf,      \* cellToLatLng of a res-7 cell
  Circumradius,  \* circumradiusMeters
  ShardCellOf,   \* the res-5 cell a res-7 cell is filed under
  RegionOf       \* the res-3 cell a res-7 cell is filed under

ASSUME MetricAssumption ==
  /\ Metric \in [Places -> [Places -> Nat]]
  /\ \A a, b, c \in Places : Metric[a][c] <= Metric[a][b] + Metric[b][c]
  /\ \A a, b \in Places : Metric[a][b] = Metric[b][a]

ASSUME CellsAssumption ==
  /\ CellOf \in [Places -> Cells] /\ CentreOf \in [Cells -> Places]
  /\ Circumradius \in [Cells -> Nat]
  /\ \A p \in Places : Metric[CentreOf[CellOf[p]]][p] <= Circumradius[CellOf[p]]

----------------------------------------------------------------------------
(* geo/h3.ts *)

\* Every res-7 cell that can hold a point within `reach` of the centre.
CoverOf(center, reach) == {c \in Cells : Metric[center][CentreOf[c]] <= reach + Circumradius[c]}

SearchAreaCells(center, radius, matchRadius) == CoverOf(center, radius + matchRadius)

\* What a report with these cells is filed under.
ShardKeysForCells(cells) ==
  {[res |-> 5, cell |-> ShardCellOf[c]] : c \in cells}
  \cup {[res |-> 3, cell |-> RegionOf[c]] : c \in cells}

----------------------------------------------------------------------------
(* matchReport.ts *)

RoundDown(value, step) == value - (value % step)
RoundUp(value, step) == value + ((-value) % step)
Later(a, b) == IF a >= b THEN a ELSE b
Earlier(a, b) == IF a <= b THEN a ELSE b

\* The criteria on the grid: rounded outward.  The centre is not rounded.
CoarsenCriteria(criteria, params) ==
  [center |-> criteria.center,
   radius |-> RoundUp(criteria.radius, params.radiusStep),
   from |-> RoundDown(criteria.from, params.windowStep),
   to |-> RoundUp(criteria.to, params.windowStep)]

Cutoff(params) == params.now - params.retention

\* Where and when history can be evidence; the window is the report's, on the grid.
MatchBounds(coarse, params) ==
  [center |-> coarse.center,
   reach |-> coarse.radius + params.radius,
   from |-> Later(coarse.from - params.window, Cutoff(params)),
   to |-> coarse.to + params.window,
   window |-> [from |-> coarse.from, to |-> coarse.to],
   cutoff |-> Cutoff(params)]

\* The report has not expired and not all of its time range is past retention.
CanMatch(query, bounds, params) == query.expires > params.now /\ bounds.from <= bounds.to

Near(bounds, place) == Metric[bounds.center][place] <= bounds.reach

\* Seconds between an interval and the window.
Gap(bounds, start, end) ==
  Later(0, Later(start - bounds.window.to, bounds.window.from - end))

Evidence(kind, row, distance, dt) == [kind |-> kind, id |-> row.id, distance |-> distance, dt |-> dt]

FromCutoff(stay, bounds) == Later(stay.start, bounds.cutoff)

\* A stay that overlaps the window, the part of it before the retention cutoff left out.
StayEvidence(bounds, stays) ==
  {Evidence("stay", s, Metric[bounds.center][s.place], Gap(bounds, FromCutoff(s, bounds), s.end))
     : s \in {x \in stays : /\ x.start <= x.end /\ x.start <= bounds.to /\ x.end >= bounds.from
                            /\ Near(bounds, x.place)}}

SampleEvidence(bounds, samples) ==
  {Evidence("sample", s, Metric[bounds.center][s.place], Gap(bounds, s.ts, s.ts))
     : s \in {x \in samples : bounds.from <= x.ts /\ x.ts <= bounds.to /\ Near(bounds, x.place)}}

\* Stays are the stronger signal; fixes are the fallback.
StaysFirst(stayEvidence, sampleEvidence) == IF stayEvidence # {} THEN stayEvidence ELSE sampleEvidence

MatchWithin(query, bounds, params, stays, samples) ==
  IF CanMatch(query, bounds, params)
  THEN StaysFirst(StayEvidence(bounds, stays), SampleEvidence(bounds, samples))
  ELSE {}

BoundsOf(query, params) == MatchBounds(CoarsenCriteria(query, params), params)

MatchReport(query, stays, samples, params) ==
  MatchWithin(query, BoundsOf(query, params), params, stays, samples)

----------------------------------------------------------------------------
(* match/runner.ts: a report judged for the first time.                      *)

ListSamplesInCells(samples, cells, from, to) ==
  {s \in samples : CellOf[s.place] \in cells /\ from <= s.ts /\ s.ts <= to}

\* Stays first; only then the fixes, and of them those in the cover of what can match.
Retrospective(query, stays, samples, params) ==
  LET bounds == BoundsOf(query, params)
      cover == SearchAreaCells(bounds.center, bounds.reach - params.radius, params.radius)
      found == MatchReport(query, stays, {}, params)
  IN IF found # {} THEN found
     ELSE MatchReport(query, {}, ListSamplesInCells(samples, cover, bounds.from, bounds.to), params)
=============================================================================
