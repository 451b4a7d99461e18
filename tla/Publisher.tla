------------------------------ MODULE Publisher ------------------------------
(***************************************************************************)
(* What a device that fetches can count on: the shard compiler replaces the *)
(* board as a whole, an edition at a time, each issued later than the one   *)
(* before; a bundle path never changes its bytes; the bundles an edition no *)
(* longer names are deleted; and an edge may go on answering with an older  *)
(* index for a while.  Module ShardCompiler is where these are checked.     *)
(***************************************************************************)
EXTENDS Naturals, Sequences, FiniteSets

CONSTANTS
  Reports, Shards,
  MaxRevision,   \* bound on widening edits
  SearchArea,    \* SearchArea[r][v]: the shards revision v of report r touches
  MaxEditions    \* bound on publications

Revisions == 1..MaxRevision
Over == MaxRevision + 1  \* the state of a report that ended or expired

ASSUME PublisherAssumption ==
  /\ MaxRevision \in Nat \ {0} /\ MaxEditions \in Nat \ {0}
  /\ SearchArea \in [Reports -> [Revisions -> SUBSET Shards]]
  /\ \A r \in Reports : \A v, w \in Revisions : v <= w => SearchArea[r][v] \subseteq SearchArea[r][w]

VARIABLES
  editions,  \* every publication so far; an edition's number is its issued_at
  edgeFrom   \* the oldest edition an edge may still answer with

publisherVars == <<editions, edgeFrom>>

\* An edition: the revision of each report (0 before its release), and the newest
\* generation of each shard, kept while the shard is empty.
Edition == [reports : [Reports -> 0..Over], generation : [Shards -> Nat]]

Query == [id : Reports, revision : Revisions]

Content(e, s) ==
  {q \in Query : q.revision = e.reports[q.id] /\ s \in SearchArea[q.id][q.revision]}

\* The shards an index lists.
ListedShards(e) == {s \in Shards : Content(e, s) # {}}

Latest == editions[Len(editions)]

\* Widening edits raise a revision, and what is over stays over.
MayFollow(reports) ==
  /\ reports # Latest.reports
  /\ \A r \in Reports : /\ reports[r] >= Latest.reports[r]
                        /\ reports[r] = Over => Latest.reports[r] # 0

NextEdition(reports) ==
  LET bare == [reports |-> reports, generation |-> Latest.generation]
  IN  [bare EXCEPT !.generation =
         [s \in Shards |-> IF Content(bare, s) \notin {{}, Content(Latest, s)}
                             THEN Latest.generation[s] + 1 ELSE Latest.generation[s]]]

Publish ==
  /\ Len(editions) < MaxEditions
  /\ \E reports \in [Reports -> 0..Over] :
       MayFollow(reports) /\ editions' = Append(editions, NextEdition(reports))
  /\ UNCHANGED edgeFrom

\* The purge went through, or the edge copies of index.json passed their max-age.
EdgesRefresh ==
  /\ edgeFrom < Len(editions)
  /\ edgeFrom' = Len(editions)
  /\ UNCHANGED editions

PublisherInit ==
  /\ editions = <<[reports |-> [r \in Reports |-> 0], generation |-> [s \in Shards |-> 0]]>>
  /\ edgeFrom = 1
=============================================================================
