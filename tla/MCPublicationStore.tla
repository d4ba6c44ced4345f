------------------------- MODULE MCPublicationStore -------------------------
(* Small instances of PublicationStore for TLC.                            *)
EXTENDS PublicationStore, TLC

CONSTANTS b1, b2, b3, p1, p2

ThreeBatches == {b1, b2, b3}
TwoProducts == {p1, p2}
OneProduct == {p1}

\* Bounds: the second day, and a third batch on the first day, are for windows
\* and their releases, when all products have posts, with one attempt of each
\* batch, and of two batches in all; the third batch is a release, or there is a
\* held window.  Two attempts of a batch go with attempts of other batches of
\* its product, and preflights with single approvals.  A post is replaced unseen,
\* or recorded as published by hand, on the first day and with two batches.  The
\* numbers of a day begin with 1.
Used == {b \in Batches : Exists(b)}
PostedByHand(p) ==
    posts[p] = "PUBLISHED" /\ \A b \in Used :
        batches[b].summary = {p} => batches[b].publish # "PUBLISHED"
Numbered(d, p) ==
    queue[d][p].status # "NONE" \/ \E h \in history : h.day = d /\ h.product = p
SmallInstance ==
    /\ Cardinality(Used) > 2 =>
        /\ today = 1 /\ begins = {}
        /\ \E b \in Used : batches[b].source = "release" \/ batches[b].status = "HELD"
        /\ \E b \in Used : batches[b].attempt = 0
    /\ \A b, c \in Used : batches[b].attempt > 1 /\ batches[c].attempt > 0 =>
            batches[b].summary = batches[c].summary
    /\ ~\E b, c \in Used : batches[b].source = "preflight" /\ batches[c].source = "master"
    /\ overwritten # {} => \A b \in Used : batches[b].source = "single"
    /\ today = 2 \/ Cardinality(Used) > 2 =>
        /\ overwritten = {}
        /\ \A p \in Products : ~PostedByHand(p) /\ posts[p] # "NONE"
        /\ \A b \in Used : batches[b].source \in {"master", "release"}
                           /\ batches[b].attempt <= 1
    /\ \A d \in Days, p \in Products : queue[d][p].sequence > 1 =>
            \E q \in Products \ {p} : Numbered(d, q)

\* Batch and product ids are only compared for equality.
Symmetry == Permutations(Batches) \cup Permutations(Products)
=============================================================================
