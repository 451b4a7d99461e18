------------------------------ MODULE Payload ------------------------------
(* Signed documents (shared/src/payload): how a query, a bundle and an index *)
(* are signed, and what a device makes of one it was handed.  A document is  *)
(* its members, so the order they came in is no part of it.                  *)
EXTENDS KeyRing

CONSTANT Unwritable  \* bodies of queries that fail the schema a device applies

Version == 1
Unsigned == [by |-> "nobody", over |-> "nothing"]
Draft(key, body) == [v |-> Version, key |-> key, body |-> body, sig |-> Unsigned]

\* The kind separates the domains; key_id is inside what is signed, sig is not.
SigningInput(kind, document) == [kind |-> kind, signed |-> [document EXCEPT !.sig = Unsigned]]

SignDocument(kind, document, signer) ==
  [document EXCEPT !.sig = [by |-> signer.public, over |-> SigningInput(kind, document)]]

\* Checked on the raw document, before any schema: a key that is pinned made this
\* signature over these members of this kind.
VerifyDocument(kind, document, pinned) ==
  \E k \in pinned : /\ k.id = document.key
                    /\ document.sig = [by |-> k.public, over |-> SigningInput(kind, document)]

Fits(body) == body \notin Unwritable

\* The version is asked first: a format of later is skipped whole, never guessed at.
ParseBroadcastQuery(document) == document.v = Version /\ Fits(document.body)

ReadableQuery(document, pinned) ==
  VerifyDocument("query", document, pinned) /\ ParseBroadcastQuery(document)

Refused == [accepted |-> FALSE]

\* The bundle as a whole, then its queries one by one: an unreadable one is skipped.
ReadShardBundle(document, pinned) ==
  IF VerifyDocument("bundle", document, pinned) /\ document.v = Version
    THEN [accepted |-> TRUE, bundle |-> document.body,
          queries |-> {q \in document.body.queries : ReadableQuery(q, pinned)}]
    ELSE Refused

ReadShardIndex(document, pinned) ==
  IF VerifyDocument("index", document, pinned) /\ document.v = Version
    THEN [accepted |-> TRUE, index |-> document.body]
    ELSE Refused
=============================================================================
