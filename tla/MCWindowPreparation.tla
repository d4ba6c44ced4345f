------------------------ MODULE MCWindowPreparation ------------------------
(* A small instance of WindowPreparation for TLC.                          *)
EXTENDS WindowPreparation, TLC

CONSTANTS i1, i2, m1, m2, m3, r1, r2, s1, s2, k1

TwoItems == {i1, i2}
ThreeMasters == {m1, m2, m3}
TwoMasters == {m1, m2}
TwoReleasers == {r1, r2}
TwoScripts == {s1, s2}
OneKey == {k1}

\* Products, windows, tasks and scripts are only compared for equality.
Symmetry == Permutations(Items) \cup Permutations(Masters)
            \cup Permutations(Releasers) \cup Permutations(Scripts)
\* At most MaxBusy processes are in progress at a time, of any kind.
CONSTANT MaxBusy
Busy == Cardinality({r \in Releasers : task[r].step # "idle"})
        + Cardinality({s \in Scripts : job[s].step # "idle"})
        + Cardinality({i \in Items : itemLock[i] = Recorder})
\* Pauses come while no script runs and with two windows.  An expired window is
\* that of a request, the others are held.  Three windows are those of a
\* prepared one, a request for it and one more, for all the products, and are
\* emptied by one task at a time.
SmallInstance ==
    /\ Busy <= MaxBusy
    /\ paused => \A s \in Scripts : job[s].step = "idle"
    /\ \A m \in Masters : decision[m] = "EXPIRED" => windows[m].source = "request"
    /\ Len(sent) = 3 =>
            /\ ~paused
            /\ Cardinality({r \in Releasers : task[r].step # "idle"}) <= 1
            /\ \E m \in Masters : windows[m].source = "request"
            /\ \A m \in Masters : windows[m].source # "daily" /\ decision[m] # "EXPIRED"
                                 /\ ItemsOf(m) = Items
=============================================================================
