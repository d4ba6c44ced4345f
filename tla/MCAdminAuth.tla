---------------------------- MODULE MCAdminAuth ----------------------------
(* A small instance of AdminAuth for TLC.                                  *)
EXTENDS AdminAuth

CONSTANTS a1, p1, p2, k1, k2, t1, t2, t3

OneAddress == {a1}
TwoPasswords == {p1, p2}
TwoTokens == {k1, k2}
ThreeThreads == {t1, t2, t3}
=============================================================================
