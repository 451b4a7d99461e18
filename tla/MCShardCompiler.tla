--------------------------- MODULE MCShardCompiler ---------------------------
(* Two reports over two shards: the first is alone in shard s1 until it is    *)
(* widened into s2, where the second report lives.  Either both are published *)
(* by passes that may die, or the first alone while two of three things go     *)
(* wrong: a pass dies, the clock is set back across a key rotation, the store   *)
(* loses an object.                                                           *)
EXTENDS Readers

CONSTANTS r1, r2, s1, s2,
  FirstExpiresAt, SecondExpiresAt,  \* when they expire
  RotateAt                          \* when the second signing key takes over

MCReports == {r1, r2}
MCShards == {s1, s2}
MCSearchArea == [r \in Reports |-> [v \in Revisions |->
                   IF r = r2 THEN {s2} ELSE IF v = 1 THEN {s1} ELSE {s1, s2}]]
MCExpiresAt == [r \in Reports |-> IF r = r2 THEN SecondExpiresAt ELSE FirstExpiresAt]
\* The first key is trusted for one second more, then it is dropped.
MCRing ==
  {[id |-> "old", public |-> "o", signs |-> TRUE, from |-> 0, until |-> RotateAt + 1],
   [id |-> "new", public |-> "n", signs |-> TRUE, from |-> RotateAt, until |-> 0]}
MCUnwritable == {<<r2, 2>>} \cap (Reports \X Revisions)

BothReports ==
  [withdrawn |-> {}, lastSecond |-> 1, stepBacks |-> 0, faults |-> 1, losses |-> 0]
FirstAlone(deaths, setBack, lost) ==
  [withdrawn |-> {r2}, lastSecond |-> 2, stepBacks |-> setBack, faults |-> deaths, losses |-> lost]

MCScenarios == {BothReports, FirstAlone(1, 1, 0), FirstAlone(1, 0, 1), FirstAlone(0, 1, 1)}
MCBothReports == {BothReports}
=============================================================================
