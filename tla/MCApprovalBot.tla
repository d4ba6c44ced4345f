--------------------------- MODULE MCApprovalBot ---------------------------
(* Small instances of ApprovalBot for TLC.                                 *)
EXTENDS ApprovalBot, TLC

CONSTANTS b1, b2

OneBatch == {b1}
TwoBatches == {b1, b2}

\* Batch ids are only compared for equality.
Symmetry == Permutations(Batches)
=============================================================================
