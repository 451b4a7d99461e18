------------------------------ MODULE KeyRing ------------------------------
(* The publisher's signing keys and their rotation (server/src/shards/keys): *)
(* which key signs at a second, and which keys a release of the app cut at   *)
(* that second pins.                                                         *)
EXTENDS Naturals, FiniteSets

CONSTANT Ring  \* the configured keys: id, public, signs (is the seed here?), from, until (0: no end)

Keys == {k.id : k \in Ring}

\* What the constructor refuses to start without: it stops at a key id that appears
\* twice, and at two signing keys that start together (the signer would depend on the
\* order they are configured in).
Accepts(ring) ==
  /\ ring # {} /\ IsFiniteSet(ring)
  /\ \A k \in ring : k.signs \in BOOLEAN /\ k.from \in Nat /\ k.until \in Nat
  /\ \A j, k \in ring : j.id = k.id => j = k
  /\ \A j, k \in ring : j.signs /\ k.signs /\ j.from = k.from => j = k
ASSUME RingAssumption == Accepts(Ring)
ASSUME NoneIsNoKey == "none" \notin Keys

Trusted(k, now) == k.until = 0 \/ now < k.until

MaySign(now) == {k \in Ring : k.signs /\ k.from <= now /\ Trusted(k, now)}

NoKey == [id |-> "none"]

\* Of the keys that may sign, the one that started last; without one, nothing is signed.
SignerAt(now) ==
  IF MaySign(now) = {} THEN NoKey
  ELSE CHOOSE k \in MaySign(now) : \A j \in MaySign(now) : j.from <= k.from

\* The signer, the keys inside their overlap, and those announced for later.
TrustedAt(now) == {k \in Ring : Trusted(k, now)}
=============================================================================
