------------------------------ MODULE Readers ------------------------------
(* The documents the compiler publishes, and the devices that read them: an  *)
(* app pins the keys that were trusted when its release was cut.             *)
EXTENDS ShardCompiler

KeyNamed(id) == CHOOSE k \in Ring : k.id = id

QueryDocument(q) ==
  SignDocument("query", Draft(q.key, <<q.id, q.revision>>), KeyNamed(q.key))

\* The signer of a pass signs the bundles it puts, and the queries in them.
BundleDocument(b) ==
  LET key == (CHOOSE q \in b.queries : TRUE).key
  IN  SignDocument("bundle",
        Draft(key, [shard |-> b.shard, generation |-> b.generation,
                    queries |-> {QueryDocument(q) : q \in b.queries}]), KeyNamed(key))

IndexDocument == SignDocument("index", Draft(index.key, [issued |-> index.issued, shards |-> index.shards]), KeyNamed(index.key))

\* A device reads all of it: no bundle is refused and no query skipped.
ReadsInFull(pinned) ==
  /\ ReadShardIndex(IndexDocument, pinned).accepted
  /\ \A b \in bundles : KeyOf(b) \in NamedBy(index) =>
       LET read == ReadShardBundle(BundleDocument(b), pinned)
       IN  read.accepted /\ read.queries = read.bundle.queries

\* A device reads none of it and keeps what it has.
ReadsNothing(pinned) == ~ReadShardIndex(IndexDocument, pinned).accepted

\* In the middle of a rotation or a pass, every bundle the index names was signed
\* by the key that signed the index, and so was every query in it ("Every live
\* query and bundle is re-signed" at a rotation).
SignedAlike ==
  \A b \in bundles : index.shards[b.shard] = b.generation => \A q \in b.queries : q.key = index.key

\* So whatever release a phone runs, it can read a board as a whole or not at all:
\* never an index it accepts that names bundles, or bundles that hold queries,
\* which it then drops in silence.
AllOrNothing ==
  index # Absent => \A cut \in Nat : ReadsInFull(TrustedAt(cut)) \/ ReadsNothing(TrustedAt(cut))
=============================================================================
