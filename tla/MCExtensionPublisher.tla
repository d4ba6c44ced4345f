------------------------ MODULE MCExtensionPublisher ------------------------
(* Small instances of ExtensionPublisher for TLC.                          *)
EXTENDS ExtensionPublisher, TLC

CONSTANTS b1, b2, b3, p1, p2, t1, t2, w1, w2

OneBatch == {b1}
TwoBatches == {b1, b2}
ThreeBatches == {b1, b2, b3}
OneProduct == {p1}
TwoProducts == {p1, p2}
OnePoll == {w1}
TwoPolls == {w1, w2}
OneTab == {t1}
TwoTabs == {t1, t2}

\* Ids are only compared for equality.
Symmetry == Permutations(Batches) \cup Permutations(Products)
            \cup Permutations(Polls) \cup Permutations(Tabs)
=============================================================================
