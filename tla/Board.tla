-------------------------------- MODULE Board --------------------------------
(***************************************************************************)
(* What publishing promises a reader who fetches the index and then the    *)
(* bundles it names: the board always shows one snapshot of the reports    *)
(* that were broadcastable at one moment, complete in every shard, and it  *)
(* is replaced as a whole by a later snapshot.                             *)
(***************************************************************************)
VARIABLES
  current,   \* what may be broadcast now, filed by shard
  snapshot,  \* what it was when the last pass read it
  board,     \* what a reader sees
  intact     \* has the store kept every object?

Init == snapshot = board

Change == UNCHANGED <<snapshot, board>>
Take == snapshot' = current /\ UNCHANGED <<current, board>>
Publish == board' = snapshot /\ UNCHANGED <<current, snapshot>>

\* A store that has lost an object is repaired by later passes; meanwhile nothing is promised.
Lapse == ~intact'

Next == Change \/ Take \/ Publish \/ Lapse

Spec == Init /\ [][Next]_<<current, snapshot, board, intact>>
=============================================================================
