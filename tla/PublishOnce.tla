---------------------------- MODULE PublishOnce ----------------------------
(***************************************************************************)
(* What the publication lock of automation_store.py promises, without its  *)
(* tables: every product has at most one live publication attempt.  An     *)
(* attempt is taken only when the product has none; it is dropped when the *)
(* attempt is known to have failed before the public click; an attempt     *)
(* whose outcome is PUBLISHED or unknown is simply never dropped again.    *)
(* The breakable lock promises that until somebody replaces a product's    *)
(* blocking record without having seen it: it is broken then, for good.    *)
(***************************************************************************)
CONSTANTS
    Products,   \* Toss products
    Batches,    \* approval batches, in whose name an attempt is made
    Broken      \* no batch: stands for the attempts of a broken lock

VARIABLE attempts   \* attempts[p]: the batches with a live attempt for p

Init == attempts = [p \in Products |-> {}]

\* Batch b starts publishing p: allowed only when nobody else is.
Acquire(p, b) ==
    /\ attempts[p] = {}
    /\ attempts' = [attempts EXCEPT ![p] = {b}]

\* The attempt of b failed before the public click; p may be tried again.
Drop(p, b) ==
    /\ attempts[p] = {b}
    /\ attempts' = [attempts EXCEPT ![p] = {}]

Next == \E p \in Products, b \in Batches : Acquire(p, b) \/ Drop(p, b)

Spec == Init /\ [][Next]_attempts

\* The record of p, which is locked, is replaced from outside.
Break(p) == attempts' = [attempts EXCEPT ![p] = {Broken}]

BreakableNext == Next \/ \E p \in Products : Break(p)

BreakableSpec == Init /\ [][BreakableNext]_attempts
=============================================================================
