--------------------------- MODULE MCMatchRunner ---------------------------
(* One report; its second revision edits a description, the third widens.   *)
(* Either history arrives while the clock is left alone, or the clock jumps *)
(* either way while passes stop half way.                                   *)
EXTENDS MatchRunner, TLC

CONSTANT r1

MCOneReport == {r1}
MCCriteria == <<1, 1, 2>>
MCWindow == [from |-> 2, to |-> 4]

Scenario(revisions, fixes, visits, faults, jumps) ==
  [revisions |-> revisions,
   budget |-> [fixes |-> fixes, visits |-> visits, faults |-> faults, jumps |-> jumps]]

HistoryArrives == Scenario({1, 2, 3}, 1, 1, 0, 0)
ClockRunsWild == Scenario({2, 3}, 1, 0, 1, 1)
ClockRunsAhead == Scenario({2, 3}, 1, 0, 0, 2)

MCScenarios == {HistoryArrives, ClockRunsWild}
MCAhead == {ClockRunsAhead}
=============================================================================
