---------------------------- MODULE ReleaseRace ----------------------------
(***************************************************************************)
(* release_next_scheduled_toss_item, statement by statement, for the queue *)
(* of one day.                                                             *)
(*                                                                         *)
(* PublicationStore takes the transaction as one step and leaves open what *)
(* was seen before its COMMIT.  Here the release tasks, which are separate *)
(* processes, interleave in PostgreSQL's READ COMMITTED: the pause flag is *)
(* read in a transaction of its own, and both SELECTs skip rows that       *)
(* somebody has locked.  The second one takes the rows of its snapshot in  *)
(* order; it locks each together with the row it joins, the master batch,  *)
(* looks at it again, and keeps the locks of those it leaves behind.  The  *)
(* requests of the extension lock a released row while they record its     *)
(* outcome.                                                                *)
(*                                                                         *)
(* WindowPreparation adds the scripts that fill the queue meanwhile.       *)
(***************************************************************************)
EXTENDS Integers, Sequences, FiniteSets

CONSTANTS
    Releasers,   \* running release tasks
    Items,       \* products, the key of the rows of a day
    Masters,     \* approval batches of windows that may ever be drawn
    NoMaster,    \* a NULL batch id
    MaxSequence, \* CHECK (sequence_no BETWEEN 1 AND 10)
    Nobody,      \* no lock
    Recorder     \* the extension's request that records an outcome

ASSUME ItemsAssumption == IsFiniteSet(Items) /\ MaxSequence \in Nat \ {0}
ASSUME ReleasersAssumption == IsFiniteSet(Releasers)
ASSUME NobodyAssumption == {Nobody, Recorder} \cap Releasers = {}
                           /\ Nobody # Recorder /\ NoMaster \notin Masters

VARIABLES
    row,        \* the committed row of every product
    decision,   \* the status of every master, "NONE" before it is created
    itemLock,   \* who holds the lock of a product's row
    masterLock, \* who holds the lock of a master's row
    task,       \* the step of each release task, and its item
    paused,     \* telegram_bot_state 'mobile_toss_release_paused'
    grace       \* history: releases that the last pause came too late for

vars == <<row, decision, itemLock, masterLock, task, paused, grace>>

\* PUBLISH_UNKNOWN ends a row as PUBLISHED does; both block the product.
Finished == {"PUBLISHED", "FAILED_PRE_SUBMIT"}

Row == [status : {"NONE", "QUEUED", "RELEASED"} \cup Finished,
        number : 0..MaxSequence, master : Masters \cup {NoMaster},
        releases : Nat]   \* how many release batches were made from the row

NoRow == [status |-> "NONE", number |-> 0, master |-> NoMaster, releases |-> 0]

QueuedRow(m, number) ==
    [status |-> "QUEUED", number |-> number, master |-> m, releases |-> 0]

Idle == [step |-> "idle"]
Approved == {m \in Masters : decision[m] = "APPROVED"}
Released == {i \in Items : row[i].status = "RELEASED"}
Queued == {i \in Items : row[i].status = "QUEUED"}

Free(S) == \A i \in S : itemLock[i] = Nobody

Unlocked(locks, owner) ==
    [x \in DOMAIN locks |-> IF locks[x] = owner THEN Nobody ELSE locks[x]]

EndTransaction(r) ==
    /\ itemLock' = Unlocked(itemLock, r)
    /\ masterLock' = Unlocked(masterLock, r)
    /\ task' = [task EXCEPT ![r] = Idle]

-----------------------------------------------------------------------------
(* A release task                                                          *)

ReadPauseUnchecked(r) ==
    /\ task[r].step = "idle"
    /\ task' = [task EXCEPT ![r] = [step |-> "not paused"]]
    /\ UNCHANGED <<row, decision, itemLock, masterLock, paused, grace>>

\* mobile_toss_release_paused, in its own transaction.
ReadPause(r) ==
    /\ task[r].step = "idle"
    /\ ~paused
    /\ task' = [task EXCEPT ![r] = [step |-> "not paused"]]
    /\ UNCHANGED <<row, decision, itemLock, masterLock, paused, grace>>

\* SELECT ... WHERE status = 'RELEASED' LIMIT 1 FOR UPDATE SKIP LOCKED: a
\* released item that nobody has locked ends the task, which has locked it
\* until then.
CheckReleased(r) ==
    /\ task[r].step = "not paused"
    /\ IF \A i \in Released : itemLock[i] # Nobody
       THEN /\ task' = [task EXCEPT ![r] = [step |-> "nothing released"]]
            /\ UNCHANGED itemLock
       ELSE /\ task' = [task EXCEPT ![r] = [step |-> "found"]]
            /\ \E i \in Released : /\ itemLock[i] = Nobody
                                   /\ itemLock' = [itemLock EXCEPT ![i] = r]
    /\ UNCHANGED <<row, decision, masterLock, paused, grace>>

QueuedItems == {i \in Queued : row[i].master \in Masters}

\* The items that the second SELECT asks for.
Candidates == {i \in Queued : row[i].master \in Approved}

\* SELECT ... JOIN ... ORDER BY sequence_no LIMIT 1 FOR UPDATE SKIP LOCKED: the
\* snapshot of the statement.
StartScan(r) ==
    /\ task[r].step = "nothing released"
    /\ task' = [task EXCEPT ![r] = [step |-> "scan",
           rows |-> {[item |-> i, number |-> row[i].number,
                      master |-> row[i].master] : i \in Candidates}]]
    /\ UNCHANGED <<row, decision, itemLock, masterLock, paused, grace>>

\* Equal numbers of two windows tie.
IsNext(x, rows) == x \in rows /\ \A y \in rows : x.number <= y.number

PickUnlocked(r) ==
    /\ task[r].step = "scan"
    /\ \E x \in task[r].rows :
        /\ IsNext(x, task[r].rows)
        /\ task' = [task EXCEPT ![r] = [step |-> "picked", item |-> x.item]]
    /\ UNCHANGED <<row, decision, itemLock, masterLock, paused, grace>>

\* The next row of the snapshot is locked, or skipped: it has been deleted, or
\* somebody has locked it.
LockItem(r) ==
    /\ task[r].step = "scan"
    /\ \E x \in task[r].rows :
        LET rest == task[r].rows \ {x}
        IN  /\ IsNext(x, task[r].rows)
            /\ IF row[x.item].master = x.master /\ itemLock[x.item] = Nobody
               THEN /\ itemLock' = [itemLock EXCEPT ![x.item] = r]
                    /\ task' = [task EXCEPT ![r] =
                                  [step |-> "join", rows |-> rest,
                                   item |-> x.item, master |-> x.master]]
               ELSE /\ task' = [task EXCEPT ![r].rows = rest]
                    /\ UNCHANGED itemLock
    /\ UNCHANGED <<row, decision, masterLock, paused, grace>>

\* The row is picked if it still is what was asked for.
Picked(r) ==
    task' = [task EXCEPT ![r] =
                IF task[r].item \in Candidates
                THEN [step |-> "picked", item |-> task[r].item]
                ELSE [step |-> "scan", rows |-> task[r].rows]]

LeaveMaster(r) ==
    /\ task[r].step = "join"
    /\ Picked(r)
    /\ UNCHANGED <<row, decision, itemLock, masterLock, paused, grace>>

\* The master is locked as well, and the row looked at again.  If another task
\* has the master the row is skipped.
LockMaster(r) ==
    /\ task[r].step = "join"
    /\ IF masterLock[task[r].master] \in {Nobody, r}
       THEN /\ masterLock' = [masterLock EXCEPT ![task[r].master] = r]
            /\ Picked(r)
       ELSE /\ task' = [task EXCEPT ![r] = [step |-> "scan", rows |-> task[r].rows]]
            /\ UNCHANGED masterLock
    /\ UNCHANGED <<row, decision, itemLock, paused, grace>>

\* INSERT of the release batch, UPDATE of the item, COMMIT.
CommitRelease(r) ==
    /\ task[r].step = "picked"
    /\ row' = [row EXCEPT ![task[r].item].status = "RELEASED",
                          ![task[r].item].releases = @ + 1]
    /\ grace' = IF paused THEN grace - 1 ELSE grace
    /\ EndTransaction(r)
    /\ UNCHANGED <<decision, paused>>

\* An item is still released, or none is left to pick: the task ends.  Or it
\* is killed or loses its connection: ROLLBACK.
Leave(r) ==
    /\ task[r].step # "idle"
    /\ EndTransaction(r)
    /\ UNCHANGED <<row, decision, paused, grace>>

-----------------------------------------------------------------------------
(* The rest of the system                                                  *)

\* UPDATE scheduled_toss_publish_items by an outcome, before its COMMIT.
LockForRecord(i) ==
    /\ i \in Released /\ itemLock[i] = Nobody
    /\ itemLock' = [itemLock EXCEPT ![i] = Recorder]
    /\ UNCHANGED <<row, decision, masterLock, task, paused, grace>>

\* The COMMIT, or a ROLLBACK.
EndRecord(i) ==
    /\ itemLock[i] = Recorder
    /\ row' \in {row} \cup {[row EXCEPT ![i].status = s] : s \in Finished}
    /\ itemLock' = [itemLock EXCEPT ![i] = Nobody]
    /\ UNCHANGED <<decision, masterLock, task, paused, grace>>

\* The buttons of the panel.  A pause comes too late for the tasks that have
\* read the flag.
SetPaused(value) ==
    /\ paused # value
    /\ paused' = value
    /\ grace' = IF value
                THEN Cardinality({r \in Releasers : task[r].step # "idle"})
                ELSE 0
    /\ UNCHANGED <<row, decision, itemLock, masterLock, task>>

\* Queued rows of approved windows, numbered apart within a window.
QueuedWindows ==
    {rows \in [Items -> {QueuedRow(m, n) : m \in Masters, n \in 1..MaxSequence}] :
        \A i, j \in Items :
            rows[i].master = rows[j].master /\ rows[i].number = rows[j].number
                => i = j}

Init ==
    /\ row \in QueuedWindows
    /\ decision = [m \in Masters |-> "APPROVED"]
    /\ itemLock = [i \in Items |-> Nobody]
    /\ masterLock = [m \in Masters |-> Nobody]
    /\ task = [r \in Releasers |-> Idle]
    /\ paused = FALSE
    /\ grace = 0

Release ==
    \/ \E r \in Releasers : ReadPause(r) \/ CheckReleased(r) \/ StartScan(r)
                            \/ LockItem(r) \/ LockMaster(r)
                            \/ CommitRelease(r) \/ Leave(r)
    \/ \E i \in Items : LockForRecord(i) \/ EndRecord(i)
    \/ \E value \in BOOLEAN : SetPaused(value)

Spec == Init /\ [][Release]_vars

-----------------------------------------------------------------------------
(* Properties                                                              *)

\* "While an item of the day is RELEASED the next one is not released"
\* (docs/OPERATIONS.md, sequential release).
OneReleased == Cardinality(Released) <= 1

\* The row locks keep two release tasks from creating two batches, and so two
\* approvals for publishing, for one row.
ReleasedOnce == \A i \in Items : row[i].releases <= 1

\* Two tasks at once never release two items of the same window from the same
\* picture of the queue: the lock of the joined master row makes the second
\* task find nothing, although it was not asked for.
OneTaskPerMaster ==
    \A r, s \in Releasers :
        task[r].step = "picked" /\ task[s].step = "picked" /\ r # s =>
            row[task[r].item].master # row[task[s].item].master

\* A pause stops the following releases (docs/OPERATIONS.md:48): afterwards at
\* most those tasks still release an item that had begun when it was tapped,
\* and each of them one.
PauseStopsFollowing == grace >= 0
=============================================================================
