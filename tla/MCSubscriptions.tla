--------------------------- MODULE MCSubscriptions ---------------------------
(* A line of places, two to a res-7 cell and four to a shard.  The centre of *)
(* a cell is its second place, so the cover of a report does not hold every  *)
(* place its criteria on the grid reach.                                     *)
EXTENDS EvidenceFollowed

MCPlaces == -9..11
MCMetric == [a \in MCPlaces |-> [b \in MCPlaces |-> IF a > b THEN a - b ELSE b - a]]
MCCells == -5..5
MCCellOf == [p \in MCPlaces |-> p \div 2]
MCCentreOf == [c \in MCCells |-> 2 * c + 1]
MCCircumradius == [c \in MCCells |-> 1]
MCShardCellOf == [c \in MCCells |-> c \div 2]
MCRegionOf == [c \in MCCells |-> (c \div 2) \div 2]

Report(center, radius, from, to, expires) ==
  [center |-> center, radius |-> radius, from |-> from, to |-> to, expires |-> expires]
\* One filed beside the shard of its evidence, one over two shards, one on the edge of a
\* region, one that expires.
MCReports == {Report(-4, 1, 0, 0, 9), Report(2, 1, 2, 2, 9), Report(6, 0, 1, 1, 9), Report(2, 0, 0, 2, 1)}
=============================================================================
