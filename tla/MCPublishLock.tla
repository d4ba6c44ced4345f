--------------------------- MODULE MCPublishLock ---------------------------
(* Small instances of PublishLock for TLC.                                 *)
EXTENDS PublishLock, TLC

CONSTANTS b1, b2, c1, c2, c3

TwoBatches == {b1, b2}
TwoClients == {c1, c2}
ThreeClients == {c1, c2, c3}

\* Batch ids and clients are only compared for equality.
Symmetry == Permutations(Batches) \cup Permutations(Clients)
=============================================================================
