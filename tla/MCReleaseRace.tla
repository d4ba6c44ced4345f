--------------------------- MODULE MCReleaseRace ---------------------------
(* A small instance of ReleaseRace for TLC.                                *)
EXTENDS ReleaseRace, TLC

CONSTANTS i1, i2, m1, m2, r1, r2

TwoItems == {i1, i2}
TwoMasters == {m1, m2}
TwoReleasers == {r1, r2}

\* Products, windows and tasks are only compared for equality.
Symmetry == Permutations(Items) \cup Permutations(Masters)
            \cup Permutations(Releasers)
=============================================================================
