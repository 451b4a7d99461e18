---------------------------- MODULE MCFetchCycle ----------------------------
(* Two reports and three shards: r1 widens from s1 into s2, r2 lies in s2   *)
(* and s3.  Either both are published, to a device that covers one shard it *)
(* does not watch and never has to wait, or the first alone, to a device    *)
(* without cover that waits.  Its clock is set back, or its watch list moves *)
(* while it is emptied by its owner or suffers a fault; or it watches both   *)
(* shards and has to ask for them in two cycles.                             *)
EXTENDS FetchTrigger

CONSTANTS r1, r2, s1, s2, s3

MCReports == {r1, r2}
MCShards == {s1, s2, s3}
MCSearchArea ==
  r1 :> <<{s1}, {s1, s2}>> @@ r2 :> <<{s2, s3}, {s2, s3}>>
MCCoverRank == s1 :> 3 @@ s2 :> 1 @@ s3 :> 2
MCUnreadable == {[id |-> r2, revision |-> 2]}

Budget(moves, faults, purges, stepBacks, deletes) ==
  [moves |-> moves, faults |-> faults, purges |-> purges, stepBacks |-> stepBacks, deletes |-> deletes]

Covering ==
  [published |-> MCReports, watchLists |-> {{s1}, {s2, s3}}, cover |-> 1,
   backoffBase |-> 0, backoffMax |-> 0, metered |-> 0,
   interval |-> 0, recheck |-> 0, maxCycles |-> 1, goesOn |-> FALSE, budget |-> Budget(1, 1, 1, 0, 0)]
Waiting(budget) ==
  [published |-> {r1}, watchLists |-> {{s1}, {s2}}, cover |-> 0,
   backoffBase |-> 1, backoffMax |-> 2, metered |-> 1,
   interval |-> 1, recheck |-> 1, maxCycles |-> 2, goesOn |-> TRUE, budget |-> budget]

Backlog == [Waiting(Budget(0, 1, 0, 0, 0)) EXCEPT !.watchLists = {{s1, s2}}]

MCScenarios ==
  {Covering, Waiting(Budget(0, 1, 0, 1, 0)), Waiting(Budget(1, 0, 0, 0, 1)),
   Waiting(Budget(1, 1, 0, 0, 0)), Backlog}
=============================================================================
