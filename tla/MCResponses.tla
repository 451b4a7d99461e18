---------------------------- MODULE MCResponses ----------------------------
(* One report: two devices that may retry under a new key and two fetches of *)
(* the phone; or three edits on a line of places; or one device whose tip is *)
(* followed from its queue; or the operator's page in two tabs.              *)
EXTENDS TipJourney, TLC

CONSTANTS d1, d2, f1, f2

MCSenders == {d1}
MCDevices == {d1, d2}
MCFetches == {f1, f2}

MCPlaces == {-8, -4, 0, 2, 4, 8}
MCMetric == [a \in MCPlaces |-> [b \in MCPlaces |-> IF a > b THEN a - b ELSE b - a]]
MCCells == MCPlaces
MCCellOf == [p \in MCPlaces |-> p]
MCCircumradius == [c \in MCCells |-> 0]
At(center, radius, from, to) == [center |-> center, radius |-> radius, from |-> from, to |-> to]
MCInitial == At(0, 1, 1, 1)
\* Moves with and without the radius they need, one within the tolerance, a wider window, a
\* window that moves, a smaller radius and a description.
MCPatches ==
  {[sets |-> {"center"}, to |-> c] : c \in {At(4, 4, 1, 1), At(8, 4, 1, 1)}}
  \cup {[sets |-> {"center", "radius"}, to |-> c] : c \in {At(2, 2, 1, 1), At(4, 4, 1, 1)}}
  \cup {[sets |-> {"window"}, to |-> At(0, 1, 0, 1)], [sets |-> {"window"}, to |-> At(0, 1, 2, 3)],
        [sets |-> {"radius"}, to |-> At(0, 0, 1, 1)], [sets |-> {}, to |-> MCInitial]}
=============================================================================
