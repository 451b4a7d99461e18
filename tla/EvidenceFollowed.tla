-------------------------- MODULE EvidenceFollowed --------------------------
(* The phone's history, the watch set kept from it and the match rule, put   *)
(* together: the shards a phone follows are those of the reports it could    *)
(* match.  A place is a position of module StayDerivation; a stay is where   *)
(* its centroid is, rounded down.                                            *)
EXTENDS Subscriptions, MatchRule

CONSTANTS Reports,      \* reports that may be published: criteria and `expires`
          MatchRadius,  \* MATCH_RADIUS_M
          MatchWindow   \* MATCH_WINDOW_SEC

ASSUME RuleAssumption ==
  /\ MatchRadius \in Nat \ {0} /\ MatchWindow \in Nat \ {0}
  /\ \A p \in Places : ShardOf(p) = ShardCellOf[CellOf[p]]
  /\ \A c \in Cells : RegionOf[c] = PushCellOf(ShardCellOf[c])

\* A report is about a place and a time.
ASSUME ReportsAssumption ==
  Reports \subseteq [center : Places, radius : Nat, from : Nat, to : Nat, expires : Nat]

\* What the two halves rest on: an average of places is a place, any distance shorter than that
\* of two places is reached on the way, and a shard and its neighbours hold all that is within
\* the match radius of it.
ASSUME GeometryAssumption ==
  /\ Positions \cup VisitPlaces \subseteq Places
  /\ Places \subseteq Int /\ \A a, b \in Places : a .. b \subseteq Places
  /\ \A a, b \in Places : \A d \in 0 .. Metric[a][b] :
       \E m \in Places : Metric[a][m] <= d /\ Metric[m][b] <= Metric[a][b] - d
  /\ \A a, b \in Places :
       Metric[a][b] <= MatchRadius => ShardOf(b) \in {ShardOf(a)} \cup Ring(ShardOf(a))

MatchParamsAt(t) ==
  [now |-> t, radius |-> MatchRadius, window |-> MatchWindow,
   radiusStep |-> MatchRadius, windowStep |-> MatchWindow, retention |-> Retention]

DerivedRow(r) == [id |-> r.id, start |-> r.c.start, end |-> r.c.end, place |-> CentroidOf(r.c)]
VisitRow(v) == [id |-> 0, start |-> v.start, end |-> v.end, place |-> v.pos]
FixRow(s) == [id |-> s.id, ts |-> s.ts, place |-> s.pos]

StayRows(derived, visited) == {DerivedRow(r) : r \in derived} \cup {VisitRow(v) : v \in visited}
FixRows(fixes) == {FixRow(s) : s \in fixes}

\* What the compiler files a report under: the cells are those of the report as written.
FiledUnder(report) ==
  ShardKeysForCells(SearchAreaCells(report.center, report.radius, MatchRadius))

\* What the fetcher asks for: the res-5 cells and the regions followed in their place.
Followed == {[res |-> t.res, cell |-> t.cell] : t \in {x \in subscription : x.reason # "ancestor"}}

----------------------------------------------------------------------------
\* No evidence without its report: after a sync every report that some of the history is
\* evidence for is in a shard the phone follows, although the criteria are read on the grid and
\* the report is filed by the cells of the criteria as written, which may not hold the evidence
\* (matchReport.ts, coarsenCriteria: "it can hold cells the report's own `cells` does not").
EvidenceIsFollowed ==
  synced => \A q \in Reports :
    MatchReport(q, StayRows(stays, visits), FixRows(samples), MatchParamsAt(now)) # {}
      => FiledUnder(q) \cap Followed # {}
=============================================================================
