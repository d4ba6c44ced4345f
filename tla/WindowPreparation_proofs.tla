--------------------- MODULE WindowPreparation_proofs ---------------------
(***************************************************************************)
(* Theorems about WindowPreparation, and the release tasks of ReleaseRace  *)
(* in it, for any number of products, windows, scripts and tasks.          *)
(***************************************************************************)
EXTENDS WindowPreparation, FiniteSetTheorems, TLAPS

-----------------------------------------------------------------------------
(* The inductive invariant                                                 *)

Answers == {"NONE", "PENDING", "APPROVED", "HELD", "EXPIRED"}

Scanned == [item : Items, number : 0..MaxSequence, master : Masters]

TaskStates ==
    {Idle, [step |-> "not paused"], [step |-> "found"], [step |-> "nothing released"]}
    \cup [step : {"scan"}, rows : SUBSET Scanned]
    \cup [step : {"join"}, rows : SUBSET Scanned, item : Items, master : Masters]
    \cup [step : {"picked"}, item : Items]

RaceTypes ==
    /\ row \in [Items -> Row]
    /\ decision \in [Masters -> Answers]
    /\ itemLock \in [Items -> Releasers \cup {Nobody, Recorder}]
    /\ masterLock \in [Masters -> Releasers \cup {Nobody}]
    /\ task \in [Releasers -> TaskStates]

\* A batch is made exactly when a row leaves the queue.
ReleasesAreCounted ==
    \A i \in Items :
        row[i].releases = IF row[i].status \in {"NONE", "QUEUED"} THEN 0 ELSE 1

\* A task has locked the item whose master it locks next.  What it has picked
\* is still queued behind an approved window, and it holds both locks.
PicksAreLocked ==
    \A r \in Releasers :
        /\ task[r].step = "join" =>
              itemLock[task[r].item] = r /\ row[task[r].item].master = task[r].master
        /\ task[r].step = "picked" =>
              LET i == task[r].item
              IN  /\ row[i].status = "QUEUED"
                  /\ row[i].master \in Approved
                  /\ itemLock[i] = r
                  /\ masterLock[row[i].master] = r

\* Whatever is locked, also what a task has left behind, is a row.
LocksAreOfRows == \A i \in Items : itemLock[i] # Nobody => row[i].master \in Masters

\* Outcomes are recorded for released rows.
RecordedIsReleased ==
    \A i \in Items : itemLock[i] = Recorder => row[i].status = "RELEASED"

\* A row belongs to the window that has its product in its message; when it
\* has left the queue, the window is approved.
RowsHaveWindows ==
    \A i \in Items : row[i].status # "NONE" =>
        /\ row[i].master \in Masters
        /\ row[i].status # "QUEUED" => row[i].master \in Approved

RaceInv ==
    /\ RaceTypes
    /\ ReleasesAreCounted
    /\ PicksAreLocked
    /\ LocksAreOfRows
    /\ RecordedIsReleased
    /\ RowsHaveWindows

Sources == {"prepare", "daily", "request"}
Messages == {items \in Seq(Items) :
                \A a, b \in DOMAIN items : items[a] = items[b] => a = b}
Window == [source : Sources, key : Keys, items : Messages]

JobStates ==
    {Idle}
    \cup [step : {"collect"}, source : Sources, key : Keys]
    \cup [step : {"send"}, source : Sources, key : Keys, items : Messages,
          prepared : Masters \cup {NoMaster}]
    \cup [step : {"queue"}, master : Masters]
    \cup [step : {"insert"}, master : Masters, last : 0..MaxSequence, done : Nat]
    \cup [step : {"lock"}, key : Keys]
    \cup [step : {"relink"}, master : Masters, prepared : Masters]

PreparationTypes ==
    /\ windows \in [Masters -> Window \cup {NoWindow}]
    /\ sent \in Seq(Masters)
    /\ job \in [Scripts -> JobStates]
    /\ \A m \in Masters : decision[m] # "NONE" => windows[m] \in Window

\* The rows that a script inserts are within the limit, and the products had
\* none and get none from another script.
InsertedAreNew ==
    \A s \in Scripts : job[s].step = "insert" =>
        /\ job[s].done \in 0..Len(windows[job[s].master].items)
        /\ job[s].last + job[s].done <= MaxSequence
        /\ \A i \in Items : i \in Inserted(s) => row[i] = NoRow
        /\ \A t \in Scripts : s # t /\ job[t].step = "insert" =>
                Inserted(s) \cap Inserted(t) = {}

\* A script queues items or moves rows for a window that it has sent.
JobsHaveWindows ==
    \A s \in Scripts : job[s].step \in {"queue", "insert", "relink"} =>
        decision[job[s].master] # "NONE"

\* Rows are only moved from a held window, to one of the same items.
RelinkedIsHeld ==
    \A s \in Scripts :
        /\ job[s].step = "send" /\ job[s].prepared # NoMaster =>
                /\ decision[job[s].prepared] = "HELD"
                /\ job[s].items = windows[job[s].prepared].items
        /\ job[s].step = "relink" =>
                /\ decision[job[s].prepared] = "HELD"
                /\ windows[job[s].master].items = windows[job[s].prepared].items

\* Every row is of an item in the message of a window that was sent.
RowsAreOfItems ==
    \A i \in Items : row[i].status # "NONE" =>
        decision[row[i].master] # "NONE" /\ i \in ItemsOf(row[i].master)

PreparationInv ==
    /\ PreparationTypes
    /\ InsertedAreNew
    /\ JobsHaveWindows
    /\ RelinkedIsHeld
    /\ RowsAreOfItems

DayInv == RaceInv /\ PreparationInv

-----------------------------------------------------------------------------
(* Release tasks keep the invariant of the queue                           *)

\* What a task is joining or has picked is the row of a product.
LEMMA PickedIsItem ==
    ASSUME RaceTypes, NEW r \in Releasers
    PROVE  /\ task[r].step = "picked" => task[r].item \in Items
           /\ task[r].step = "join" =>
                /\ task[r].item \in Items /\ task[r].master \in Masters
                /\ task[r].rows \in SUBSET Scanned
           /\ task[r].step = "scan" =>
                task[r] \in [step : {"scan"}, rows : SUBSET Scanned]
<1>1. task[r] \in TaskStates
  BY DEF RaceTypes
<1>2. /\ Idle.step = "idle" /\ [step |-> "not paused"].step = "not paused"
      /\ [step |-> "found"].step = "found"
      /\ [step |-> "nothing released"].step = "nothing released"
  BY DEF Idle
<1>3. \/ task[r].step \in {"idle", "not paused", "found", "nothing released"}
      \/ task[r].step = "scan" /\ task[r] \in [step : {"scan"}, rows : SUBSET Scanned]
      \/ /\ task[r].step = "join" /\ task[r].item \in Items
         /\ task[r].master \in Masters /\ task[r].rows \in SUBSET Scanned
      \/ task[r].step = "picked" /\ task[r].item \in Items
  BY <1>1, <1>2 DEF TaskStates
<1> QED BY <1>3

\* A task that goes on to a state in which it has locked nothing new.
LEMMA GoOnKeepsRace ==
    ASSUME RaceInv, NEW r \in Releasers, NEW state \in TaskStates,
           task' = [task EXCEPT ![r] = state], state.step \notin {"join", "picked"},
           UNCHANGED <<row, decision, itemLock, masterLock>>
    PROVE  RaceInv'
<1>1. RaceTypes'
  BY DEF RaceInv, RaceTypes
<1>2. PicksAreLocked'
  BY DEF RaceInv, RaceTypes, PicksAreLocked, Approved
<1> QED
  BY <1>1, <1>2
  DEF RaceInv, ReleasesAreCounted, LocksAreOfRows, RecordedIsReleased, RowsHaveWindows,
      Approved

\* The flag and the snapshot are read without a lock.
LEMMA LooksKeepRace ==
    ASSUME RaceInv, NEW r \in Releasers, ReadPause(r) \/ StartScan(r)
    PROVE  RaceInv'
<1>1. CASE ReadPause(r)
  <2>1. [step |-> "not paused"] \in TaskStates
    BY DEF TaskStates
  <2> QED BY <1>1, <2>1, GoOnKeepsRace DEF ReadPause
<1>2. CASE StartScan(r)
  <2> DEFINE rows == {[item |-> i, number |-> row[i].number,
                       master |-> row[i].master] : i \in Candidates}
             state == [step |-> "scan", rows |-> rows]
  <2>1. \A i \in Candidates : /\ i \in Items /\ row[i].number \in 0..MaxSequence
                              /\ row[i].master \in Masters
    BY DEF Candidates, Queued, Approved, RaceInv, RaceTypes, Row
  <2>2. rows \in SUBSET Scanned
    BY <2>1 DEF Scanned
  <2> HIDE DEF rows
  <2>3. state \in TaskStates /\ state.step = "scan"
    BY <2>2 DEF TaskStates
  <2> QED BY <1>2, <2>3, GoOnKeepsRace DEF StartScan, rows
<1> QED BY <1>1, <1>2

\* The end of a task's transaction frees its locks and no other.
LEMMA EndKeepsTypes ==
    ASSUME RaceTypes, NEW r \in Releasers, EndTransaction(r)
    PROVE  /\ itemLock' \in [Items -> Releasers \cup {Nobody, Recorder}]
           /\ masterLock' \in [Masters -> Releasers \cup {Nobody}]
           /\ task' \in [Releasers -> TaskStates]
           /\ task'[r].step \notin {"join", "picked"}
           /\ \A s \in Releasers : s # r => task'[s] = task[s]
           /\ \A i \in Items : itemLock[i] # r => itemLock'[i] = itemLock[i]
           /\ \A i \in Items : itemLock'[i] \in {itemLock[i], Nobody}
           /\ \A m \in Masters : masterLock[m] # r => masterLock'[m] = masterLock[m]
BY DEF RaceTypes, EndTransaction, Unlocked, TaskStates, Idle

\* A transaction that ends without a change of rows keeps the invariant.
LEMMA EndKeepsRace ==
    ASSUME RaceInv, NEW r \in Releasers, EndTransaction(r), UNCHANGED <<row, decision>>
    PROVE  RaceInv'
<1>1. RaceTypes'
  BY EndKeepsTypes DEF RaceInv, RaceTypes
<1>2. PicksAreLocked'
  <2>1. \A s \in Releasers : task'[s].step \in {"join", "picked"} =>
            s # r /\ task'[s] = task[s] /\ task[s].item \in Items
    BY EndKeepsTypes, PickedIsItem DEF RaceInv
  <2>2. \A i \in Items : itemLock[i] # r => itemLock'[i] = itemLock[i]
    BY EndKeepsTypes DEF RaceInv
  <2>3. \A m \in Masters : masterLock[m] # r => masterLock'[m] = masterLock[m]
    BY EndKeepsTypes DEF RaceInv
  <2> QED BY <2>1, <2>2, <2>3 DEF RaceInv, PicksAreLocked, Approved
<1>3. LocksAreOfRows' /\ RecordedIsReleased'
  BY NobodyAssumption, EndKeepsTypes DEF RaceInv, LocksAreOfRows, RecordedIsReleased
<1> QED
  BY <1>1, <1>2, <1>3 DEF RaceInv, ReleasesAreCounted, RowsHaveWindows, Approved

\* A task locks an item that nobody has locked.
LEMMA LockingKeepsRace ==
    ASSUME RaceInv, NEW r \in Releasers, NEW i \in Items, NEW state \in TaskStates,
           itemLock[i] = Nobody, itemLock' = [itemLock EXCEPT ![i] = r],
           row[i].master \in Masters,
           task' = [task EXCEPT ![r] = state], state.step # "picked",
           state.step = "join" => state.item = i /\ row[i].master = state.master,
           UNCHANGED <<row, decision, masterLock>>
    PROVE  RaceInv'
<1>1. RaceTypes'
  BY DEF RaceInv, RaceTypes
<1>2. \A s \in Releasers : s # r => task'[s] = task[s]
  BY DEF RaceInv, RaceTypes
<1>3. task'[r] = state /\ itemLock'[i] = r
  BY DEF RaceInv, RaceTypes
<1>4. \A j \in Items : j # i => itemLock'[j] = itemLock[j]
  BY DEF RaceInv, RaceTypes
<1>5. PicksAreLocked'
  <2>1. \A s \in Releasers : s # r /\ task[s].step \in {"join", "picked"} =>
            task[s].item \in Items /\ task[s].item # i
    BY PickedIsItem, NobodyAssumption DEF RaceInv, PicksAreLocked
  <2> QED BY <1>2, <1>3, <1>4, <2>1 DEF RaceInv, PicksAreLocked, Approved
<1>6. LocksAreOfRows' /\ RecordedIsReleased'
  BY <1>3, <1>4, NobodyAssumption DEF RaceInv, LocksAreOfRows, RecordedIsReleased
<1> QED
  BY <1>1, <1>5, <1>6 DEF RaceInv, ReleasesAreCounted, RowsHaveWindows, Approved

\* The check of the released rows locks one of them, if any is free.
LEMMA CheckKeepsRace ==
    ASSUME RaceInv, NEW r \in Releasers, CheckReleased(r)
    PROVE  RaceInv'
<1>1. /\ [step |-> "nothing released"] \in TaskStates /\ [step |-> "found"] \in TaskStates
      /\ [step |-> "nothing released"].step = "nothing released"
      /\ [step |-> "found"].step = "found"
  BY DEF TaskStates
<1>2. CASE \A i \in Released : itemLock[i] # Nobody
  BY <1>1, <1>2, GoOnKeepsRace DEF CheckReleased
<1>3. CASE ~\A i \in Released : itemLock[i] # Nobody
  <2>1. PICK i \in Released : itemLock[i] = Nobody /\ itemLock' = [itemLock EXCEPT ![i] = r]
    BY <1>3 DEF CheckReleased
  <2>2. i \in Items /\ row[i].master \in Masters
    BY <2>1 DEF Released, RaceInv, RowsHaveWindows
  <2>3. /\ task' = [task EXCEPT ![r] = [step |-> "found"]]
        /\ UNCHANGED <<row, decision, masterLock>>
    BY <1>3 DEF CheckReleased
  <2> QED BY <1>1, <2>1, <2>2, <2>3, LockingKeepsRace
<1> QED BY <1>2, <1>3

\* The scan locks the next item, or skips it.
LEMMA LockItemKeepsRace ==
    ASSUME RaceInv, NEW r \in Releasers, LockItem(r)
    PROVE  RaceInv'
<1>1. PICK x \in task[r].rows :
        IF row[x.item].master = x.master /\ itemLock[x.item] = Nobody
        THEN /\ itemLock' = [itemLock EXCEPT ![x.item] = r]
             /\ task' = [task EXCEPT ![r] =
                           [step |-> "join", rows |-> task[r].rows \ {x},
                            item |-> x.item, master |-> x.master]]
        ELSE /\ task' = [task EXCEPT ![r].rows = task[r].rows \ {x}]
             /\ UNCHANGED itemLock
  BY DEF LockItem
<1>2. task[r] \in [step : {"scan"}, rows : SUBSET Scanned]
  BY PickedIsItem DEF RaceInv, LockItem
<1>3. /\ task[r].rows \ {x} \in SUBSET Scanned
      /\ x.item \in Items /\ x.master \in Masters
  BY <1>2 DEF Scanned
<1>4. UNCHANGED <<row, decision, masterLock>>
  BY DEF LockItem
<1>5. CASE row[x.item].master = x.master /\ itemLock[x.item] = Nobody
  <2> DEFINE state == [step |-> "join", rows |-> task[r].rows \ {x},
                       item |-> x.item, master |-> x.master]
  <2>1. state \in TaskStates
    BY <1>3 DEF TaskStates
  <2>2. state.step = "join" /\ state.item = x.item /\ state.master = x.master
    OBVIOUS
  <2>3. task' = [task EXCEPT ![r] = state] /\ itemLock' = [itemLock EXCEPT ![x.item] = r]
    BY <1>1, <1>5
  <2> HIDE DEF state
  <2> QED BY <1>3, <1>4, <1>5, <2>1, <2>2, <2>3, LockingKeepsRace
<1>6. CASE ~(row[x.item].master = x.master /\ itemLock[x.item] = Nobody)
  <2> DEFINE state == [task[r] EXCEPT !.rows = task[r].rows \ {x}]
  <2>1. state \in [step : {"scan"}, rows : SUBSET Scanned] /\ state.step = "scan"
    BY <1>2, <1>3
  <2>2. state \in TaskStates
    BY <2>1 DEF TaskStates
  <2>3. task' = [task EXCEPT ![r] = state] /\ UNCHANGED itemLock
    BY <1>1, <1>6
  <2> HIDE DEF state
  <2> QED BY <1>4, <2>1, <2>2, <2>3, GoOnKeepsRace
<1> QED BY <1>5, <1>6

\* What is picked has been looked at under both locks.
LEMMA LockMasterKeepsRace ==
    ASSUME RaceInv, NEW r \in Releasers, LockMaster(r)
    PROVE  RaceInv'
<1> DEFINE i == task[r].item
           m == task[r].master
           onward == [step |-> "scan", rows |-> task[r].rows]
           picked == [step |-> "picked", item |-> i]
<1>1. /\ i \in Items /\ m \in Masters /\ task[r].rows \in SUBSET Scanned
      /\ itemLock[i] = r /\ row[i].master = m
  BY PickedIsItem DEF RaceInv, PicksAreLocked, LockMaster
<1>2. onward \in TaskStates /\ onward.step = "scan"
  BY <1>1 DEF TaskStates
<1>3. picked \in TaskStates /\ picked.step = "picked" /\ picked.item = i
  BY <1>1 DEF TaskStates
<1>4. UNCHANGED <<row, decision, itemLock>>
  BY DEF LockMaster
<1>5. CASE masterLock[m] \notin {Nobody, r}
  BY <1>2, <1>4, <1>5, GoOnKeepsRace DEF LockMaster
<1>6. CASE masterLock[m] \in {Nobody, r}
  <2>1. masterLock' = [masterLock EXCEPT ![m] = r] /\ Picked(r)
    BY <1>6 DEF LockMaster
  <2>2. PICK state \in {onward, picked} :
          /\ task' = [task EXCEPT ![r] = state]
          /\ state = picked => i \in Candidates
    <3>1. onward # picked
      BY <1>2, <1>3
    <3>2. CASE i \in Candidates
      BY <2>1, <3>2 DEF Picked
    <3>3. CASE i \notin Candidates
      BY <2>1, <3>1, <3>3 DEF Picked
    <3> QED BY <3>2, <3>3
  <2> HIDE DEF onward, picked
  <2>3. RaceTypes'
    BY <1>1, <1>2, <1>3, <1>4, <2>1, <2>2 DEF RaceInv, RaceTypes
  <2>4. /\ task'[r] = state /\ masterLock'[m] = r
        /\ \A s \in Releasers : s # r => task'[s] = task[s]
        /\ \A n \in Masters : masterLock[n] \notin {Nobody, r} =>
                masterLock'[n] = masterLock[n]
    BY <1>1, <1>6, <2>1, <2>2 DEF RaceInv, RaceTypes
  <2>5. PicksAreLocked'
    <3> SUFFICES ASSUME NEW s \in Releasers
                 PROVE  /\ task'[s].step = "join" =>
                            /\ itemLock[task'[s].item] = s
                            /\ row[task'[s].item].master = task'[s].master
                        /\ task'[s].step = "picked" =>
                            /\ row[task'[s].item].status = "QUEUED"
                            /\ row[task'[s].item].master \in Approved
                            /\ itemLock[task'[s].item] = s
                            /\ masterLock'[row[task'[s].item].master] = s
      BY <1>4 DEF PicksAreLocked, Approved
    <3>1. CASE s = r
      BY <1>1, <1>2, <1>3, <2>2, <2>4, <3>1 DEF Candidates, Queued
    <3>2. CASE s # r
      <4>1. task'[s] = task[s]
        BY <2>4, <3>2
      <4>2. task[s].step = "picked" => masterLock'[row[task[s].item].master] = s
        BY <2>4, <3>2, NobodyAssumption DEF RaceInv, PicksAreLocked, Approved
      <4> QED BY <4>1, <4>2 DEF RaceInv, PicksAreLocked
    <3> QED BY <3>1, <3>2
  <2> QED
    BY <1>4, <2>3, <2>5
    DEF RaceInv, ReleasesAreCounted, LocksAreOfRows, RecordedIsReleased, RowsHaveWindows,
        Approved
<1> QED BY <1>5, <1>6

\* CommitRelease makes one batch, of the row that the task has locked.
LEMMA CommitKeepsRace ==
    ASSUME RaceInv, NEW r \in Releasers, CommitRelease(r)
    PROVE  RaceInv'
<1> DEFINE i == task[r].item
<1>1. /\ i \in Items /\ row[i].status = "QUEUED" /\ row[i].master \in Approved
      /\ itemLock[i] = r /\ masterLock[row[i].master] = r
  BY PickedIsItem DEF RaceInv, PicksAreLocked, CommitRelease
<1>2. EndTransaction(r) /\ UNCHANGED decision
  BY DEF CommitRelease
<1>3. /\ row' \in [Items -> Row]
      /\ row'[i].status = "RELEASED" /\ row'[i].master = row[i].master
      /\ row'[i].releases = row[i].releases + 1
      /\ \A j \in Items : j # i => row'[j] = row[j]
  BY <1>1 DEF RaceInv, RaceTypes, CommitRelease, Row
<1>4. RaceTypes'
  BY <1>2, <1>3, EndKeepsTypes DEF RaceInv, RaceTypes
<1>5. ReleasesAreCounted'
  BY <1>1, <1>3 DEF RaceInv, ReleasesAreCounted
<1>6. PicksAreLocked'
  <2>1. \A s \in Releasers : task'[s].step \in {"join", "picked"} =>
            /\ s # r /\ task'[s] = task[s] /\ task[s].item \in Items
            /\ itemLock[task[s].item] = s /\ task[s].item # i
    BY <1>1, <1>2, EndKeepsTypes, PickedIsItem DEF RaceInv, PicksAreLocked
  <2>2. \A j \in Items : itemLock[j] # r => itemLock'[j] = itemLock[j]
    BY <1>2, EndKeepsTypes DEF RaceInv
  <2>3. \A m \in Masters : masterLock[m] # r => masterLock'[m] = masterLock[m]
    BY <1>2, EndKeepsTypes DEF RaceInv
  <2> HIDE DEF i
  <2> QED BY <1>2, <1>3, <2>1, <2>2, <2>3 DEF RaceInv, PicksAreLocked, Approved
<1>7. RecordedIsReleased' /\ LocksAreOfRows'
  BY <1>2, <1>3, NobodyAssumption, EndKeepsTypes
  DEF RaceInv, RecordedIsReleased, LocksAreOfRows
<1>8. RowsHaveWindows'
  BY <1>1, <1>2, <1>3 DEF RaceInv, RowsHaveWindows, Approved
<1> QED BY <1>4, <1>5, <1>6, <1>7, <1>8 DEF RaceInv

\* Recorders lock released rows only, and finish them.
LEMMA RecorderKeepsRace ==
    ASSUME RaceInv, NEW i \in Items, LockForRecord(i) \/ EndRecord(i)
    PROVE  RaceInv'
<1>1. CASE LockForRecord(i)
  <2>1. /\ row[i].status = "RELEASED"
        /\ itemLock' = [itemLock EXCEPT ![i] = Recorder]
        /\ UNCHANGED <<row, decision, masterLock, task>>
    BY <1>1 DEF LockForRecord, Released
  <2>2. RaceTypes' /\ RecordedIsReleased' /\ LocksAreOfRows'
    BY <2>1 DEF RaceInv, RaceTypes, RecordedIsReleased, LocksAreOfRows, RowsHaveWindows
  <2>3. PicksAreLocked'
    <3>1. \A s \in Releasers : task[s].step \in {"join", "picked"} =>
              task[s].item \in Items /\ task[s].item # i
      BY <1>1, PickedIsItem, NobodyAssumption DEF RaceInv, PicksAreLocked, LockForRecord
    <3> QED BY <2>1, <3>1 DEF RaceInv, RaceTypes, PicksAreLocked, Approved
  <2> QED
    BY <2>1, <2>2, <2>3 DEF RaceInv, ReleasesAreCounted, RowsHaveWindows, Approved
<1>2. CASE EndRecord(i)
  <2>1. row[i].status = "RELEASED"
    BY <1>2 DEF RaceInv, RecordedIsReleased, EndRecord
  <2>2. /\ row' \in [Items -> Row]
        /\ row'[i].status \in {"RELEASED"} \cup Finished
        /\ row'[i].master = row[i].master /\ row'[i].releases = row[i].releases
        /\ \A j \in Items : j # i => row'[j] = row[j]
    <3>1. CASE row' = row
      BY <2>1, <3>1 DEF RaceInv, RaceTypes
    <3>2. ASSUME NEW s \in Finished, row' = [row EXCEPT ![i].status = s]
          PROVE  <2>2!1 /\ <2>2!2 /\ <2>2!3 /\ <2>2!4
      BY <3>2 DEF RaceInv, RaceTypes, Row
    <3> QED BY <1>2, <3>1, <3>2 DEF EndRecord
  <2>3. /\ itemLock' = [itemLock EXCEPT ![i] = Nobody]
        /\ UNCHANGED <<decision, masterLock, task>>
    BY <1>2 DEF EndRecord
  <2>4. RaceTypes'
    BY <2>2, <2>3 DEF RaceInv, RaceTypes
  <2>5. ReleasesAreCounted'
    BY <2>1, <2>2 DEF RaceInv, ReleasesAreCounted, Finished
  <2>6. PicksAreLocked'
    <3>1. \A s \in Releasers : task[s].step \in {"join", "picked"} =>
              task[s].item \in Items /\ task[s].item # i
      BY <1>2, PickedIsItem, NobodyAssumption DEF RaceInv, PicksAreLocked, EndRecord
    <3> QED BY <2>2, <2>3, <3>1 DEF RaceInv, RaceTypes, PicksAreLocked, Approved
  <2>7. RecordedIsReleased' /\ LocksAreOfRows'
    BY <2>2, <2>3, NobodyAssumption
    DEF RaceInv, RaceTypes, RecordedIsReleased, LocksAreOfRows
  <2>8. RowsHaveWindows'
    BY <2>1, <2>2, <2>3 DEF RaceInv, RowsHaveWindows, Approved
  <2> QED BY <2>4, <2>5, <2>6, <2>7, <2>8 DEF RaceInv
<1> QED BY <1>1, <1>2

\* Steps that leave the queue, its locks and the answers alone.
LEMMA SameRace ==
    ASSUME RaceInv, UNCHANGED <<row, decision, itemLock, masterLock, task>>
    PROVE  RaceInv'
BY DEF RaceInv, RaceTypes, ReleasesAreCounted, PicksAreLocked, LocksAreOfRows,
       RecordedIsReleased, RowsHaveWindows, Approved

\* Steps that take no approval back and leave locked rows alone.
LEMMA LockedRowsKeepRace ==
    ASSUME RaceInv, UNCHANGED <<itemLock, masterLock, task>>,
           Approved \subseteq Approved',
           \A i \in Items : itemLock[i] # Nobody => row'[i] = row[i]
    PROVE  PicksAreLocked' /\ LocksAreOfRows' /\ RecordedIsReleased'
<1>1. \A r \in Releasers : task[r].step \in {"join", "picked"} =>
          row'[task[r].item] = row[task[r].item]
  BY PickedIsItem, NobodyAssumption DEF RaceInv, PicksAreLocked
<1>2. PicksAreLocked'
  BY <1>1 DEF RaceInv, PicksAreLocked
<1>3. LocksAreOfRows' /\ RecordedIsReleased'
  BY NobodyAssumption DEF RaceInv, LocksAreOfRows, RecordedIsReleased
<1> QED BY <1>2, <1>3

\* Every step of ReleaseRace keeps its invariant.
LEMMA ReleaseKeepsRace == RaceInv /\ Release => RaceInv'
<1> SUFFICES ASSUME RaceInv, Release PROVE RaceInv'
  OBVIOUS
<1>1. ASSUME NEW r \in Releasers, ReadPause(r) \/ StartScan(r) PROVE RaceInv'
  BY <1>1, LooksKeepRace
<1>2. ASSUME NEW r \in Releasers, CheckReleased(r) \/ LockItem(r) \/ LockMaster(r)
      PROVE  RaceInv'
  BY <1>2, CheckKeepsRace, LockItemKeepsRace, LockMasterKeepsRace
<1>3. ASSUME NEW r \in Releasers, CommitRelease(r) PROVE RaceInv'
  BY <1>3, CommitKeepsRace
<1>4. ASSUME NEW r \in Releasers, Leave(r) PROVE RaceInv'
  BY <1>4, EndKeepsRace DEF Leave
<1>5. ASSUME NEW i \in Items, LockForRecord(i) \/ EndRecord(i) PROVE RaceInv'
  BY <1>5, RecorderKeepsRace
<1>6. ASSUME NEW value \in BOOLEAN, SetPaused(value) PROVE RaceInv'
  BY <1>6, SameRace DEF SetPaused
<1> QED BY <1>1, <1>2, <1>3, <1>4, <1>5, <1>6 DEF Release

\* No step of a release makes a row, takes one away or gives it to another
\* window.
LEMMA ReleaseKeepsMasters ==
    ASSUME RaceInv, Release
    PROVE  /\ UNCHANGED decision
           /\ \A i \in Items :
                \/ row'[i] = row[i]
                \/ /\ row[i].status # "NONE" /\ row'[i].status \notin {"NONE", "QUEUED"}
                   /\ row'[i].master = row[i].master
<1>1. ASSUME NEW r \in Releasers, CommitRelease(r)
      PROVE  \A i \in Items :
                \/ row'[i] = row[i]
                \/ /\ row[i].status # "NONE" /\ row'[i].status \notin {"NONE", "QUEUED"}
                   /\ row'[i].master = row[i].master
  <2>1. task[r].item \in Items /\ row[task[r].item].status = "QUEUED"
    BY <1>1, PickedIsItem DEF RaceInv, PicksAreLocked, CommitRelease
  <2> QED BY <1>1, <2>1 DEF RaceInv, RaceTypes, CommitRelease, Row
<1>2. ASSUME NEW j \in Items, EndRecord(j)
      PROVE  \A i \in Items :
                \/ row'[i] = row[i]
                \/ /\ row[i].status # "NONE" /\ row'[i].status \notin {"NONE", "QUEUED"}
                   /\ row'[i].master = row[i].master
  <2>1. row[j].status = "RELEASED"
    BY <1>2 DEF RaceInv, RecordedIsReleased, EndRecord
  <2>2. ASSUME NEW s \in Finished, row' = [row EXCEPT ![j].status = s]
        PROVE  \A i \in Items :
                \/ row'[i] = row[i]
                \/ /\ row[i].status # "NONE" /\ row'[i].status \notin {"NONE", "QUEUED"}
                   /\ row'[i].master = row[i].master
    BY <2>1, <2>2 DEF RaceInv, RaceTypes, Row, Finished
  <2> QED BY <1>2, <2>2 DEF EndRecord
<1>3. UNCHANGED decision
  BY DEF Release, ReadPause, CheckReleased, StartScan, LockItem, LockMaster,
         CommitRelease, Leave, LockForRecord, EndRecord, SetPaused
<1>4. \/ UNCHANGED row
      \/ \E r \in Releasers : CommitRelease(r)
      \/ \E i \in Items : EndRecord(i)
  BY DEF Release, ReadPause, CheckReleased, StartScan, LockItem, LockMaster,
         Leave, LockForRecord, SetPaused
<1> QED BY <1>1, <1>2, <1>3, <1>4

-----------------------------------------------------------------------------
(* Preparation keeps the invariant                                         *)

\* The rows that a script has inserted stay those of its job and its window.
LEMMA ReleaseKeepsPreparation ==
    ASSUME DayInv, Release, UNCHANGED preparing
    PROVE  PreparationInv'
<1>1. UNCHANGED <<decision, windows, sent, job>>
  BY ReleaseKeepsMasters DEF DayInv, preparing
<1>2. PreparationTypes' /\ JobsHaveWindows' /\ RelinkedIsHeld'
  BY <1>1 DEF DayInv, PreparationInv, PreparationTypes, JobsHaveWindows, RelinkedIsHeld
<1>3. \A i \in Items : row[i] = NoRow => row'[i] = NoRow
  BY ReleaseKeepsMasters DEF DayInv, NoRow
<1>4. InsertedAreNew'
  <2>1. \A t \in Scripts : Inserted(t)' = Inserted(t)
    BY <1>1 DEF Inserted
  <2> QED BY <1>1, <1>3, <2>1 DEF DayInv, PreparationInv, InsertedAreNew
<1>5. RowsAreOfItems'
  BY <1>1, ReleaseKeepsMasters DEF DayInv, PreparationInv, RowsAreOfItems, ItemsOf
<1> QED BY <1>2, <1>4, <1>5 DEF PreparationInv

\* A script that holds nothing uncommitted takes up another step.
LEMMA GotoKeepsPreparation ==
    ASSUME DayInv, NEW s \in Scripts, NEW state \in JobStates, Goto(s, state),
           UNCHANGED <<row, decision, windows, sent>>,
           state.step # "insert",
           state.step \in {"queue", "relink"} => decision[state.master] # "NONE",
           state.step = "send" /\ state.prepared # NoMaster =>
                /\ decision[state.prepared] = "HELD"
                /\ state.items = windows[state.prepared].items,
           state.step = "relink" =>
                /\ decision[state.prepared] = "HELD"
                /\ windows[state.master].items = windows[state.prepared].items
    PROVE  PreparationInv'
<1>1. /\ job'[s] = state
      /\ \A t \in Scripts : t # s => job'[t] = job[t]
      /\ job' \in [Scripts -> JobStates]
  BY DEF DayInv, PreparationInv, PreparationTypes, Goto
<1>2. PreparationTypes'
  BY <1>1 DEF DayInv, PreparationInv, PreparationTypes
<1>3. InsertedAreNew'
  <2>1. \A t \in Scripts : job'[t].step = "insert" =>
            job'[t] = job[t] /\ Inserted(t)' = Inserted(t)
    BY <1>1 DEF Inserted
  <2> QED BY <2>1 DEF DayInv, PreparationInv, InsertedAreNew
<1>4. JobsHaveWindows'
  BY <1>1 DEF DayInv, PreparationInv, JobsHaveWindows
<1>5. RelinkedIsHeld'
  BY <1>1 DEF DayInv, PreparationInv, RelinkedIsHeld
<1>6. RowsAreOfItems'
  BY DEF DayInv, PreparationInv, RowsAreOfItems, ItemsOf
<1> QED BY <1>2, <1>3, <1>4, <1>5, <1>6 DEF PreparationInv

\* The choice of some products is a message.
LEMMA SummariesAreMessages == \A S \in SUBSET Items : Summaries(S) \subseteq Messages
<1> SUFFICES ASSUME NEW S \in SUBSET Items, NEW items \in Summaries(S)
             PROVE  items \in Messages
  OBVIOUS
<1>1. PICK n \in 1..MaxSequence : items \in [1..n -> S]
  BY DEF Summaries
<1>2. items \in Seq(Items)
  BY <1>1
<1> QED BY <1>2 DEF Summaries, Messages

\* The step before the message, and the ends of a script.
LEMMA LooksKeepPreparation ==
    ASSUME DayInv, NEW s \in Scripts,
           \/ \E k \in Keys : StartWindow(s, k) \/ StartDaily(s, k) \/ LookForActive(s, k)
           \/ ReadCandidates(s) \/ LockPrepared(s) \/ Fail(s) \/ FailQueue(s)
    PROVE  RaceInv' /\ PreparationInv'
<1>1. UNCHANGED <<row, decision, itemLock, masterLock, task, windows, sent>>
  BY DEF StartWindow, StartDaily, LookForActive, ReadCandidates, LockPrepared,
         Fail, FailQueue, AbortQueue, releasing
<1>2. RaceInv'
  BY <1>1, SameRace DEF DayInv
<1>3. CASE \E k \in Keys : StartWindow(s, k) \/ StartDaily(s, k)
  <2>1. PICK k \in Keys, source \in Sources :
            Goto(s, [step |-> "collect", source |-> source, key |-> k])
    BY <1>3 DEF StartWindow, StartDaily, Sources
  <2> DEFINE state == [step |-> "collect", source |-> source, key |-> k]
  <2>2. Goto(s, state) /\ state \in JobStates /\ state.step = "collect"
    BY <2>1 DEF JobStates
  <2> HIDE DEF state
  <2> QED BY <1>1, <1>2, <2>2, GotoKeepsPreparation
<1>4. CASE \E k \in Keys : LookForActive(s, k)
  <2>1. PICK k \in Keys : Goto(s, [step |-> "lock", key |-> k])
    BY <1>4 DEF LookForActive
  <2> DEFINE state == [step |-> "lock", key |-> k]
  <2>2. Goto(s, state) /\ state \in JobStates /\ state.step = "lock"
    BY <2>1 DEF JobStates
  <2> HIDE DEF state
  <2> QED BY <1>1, <1>2, <2>1, <2>2, GotoKeepsPreparation
<1>5. CASE ReadCandidates(s)
  <2>1. job[s].step = "collect" /\ job[s] \in JobStates
    BY <1>5 DEF ReadCandidates, DayInv, PreparationInv, PreparationTypes
  <2>2. job[s].source \in Sources /\ job[s].key \in Keys
    BY <2>1 DEF JobStates, Idle
  <2>3. PICK items \in Summaries(Eligible) :
            Goto(s, [step |-> "send", source |-> job[s].source, key |-> job[s].key,
                     items |-> items, prepared |-> NoMaster])
    BY <1>5 DEF ReadCandidates
  <2>4. items \in Messages
    BY SummariesAreMessages DEF Eligible
  <2> DEFINE state == [step |-> "send", source |-> job[s].source, key |-> job[s].key,
                       items |-> items, prepared |-> NoMaster]
  <2>5. /\ Goto(s, state) /\ state \in JobStates
        /\ state.step = "send" /\ state.prepared = NoMaster
    BY <2>2, <2>3, <2>4 DEF JobStates
  <2> HIDE DEF state
  <2> QED BY <1>1, <1>2, <2>3, <2>5, GotoKeepsPreparation
<1>6. CASE LockPrepared(s)
  <2>1. job[s].step = "lock" /\ job[s] \in JobStates
    BY <1>6 DEF LockPrepared, DayInv, PreparationInv, PreparationTypes
  <2>2. job[s].key \in Keys
    BY <2>1 DEF JobStates, Idle
  <2>3. PICK p \in Masters, prepared \in Masters \cup {NoMaster} :
            /\ decision[p] = "HELD" /\ prepared \in {p, NoMaster}
            /\ Goto(s, [step |-> "send", source |-> "request", key |-> job[s].key,
                        items |-> windows[p].items, prepared |-> prepared])
    <3>1. PICK a \in DOMAIN sent :
            /\ a \in HeldPrepared(job[s].key)
            /\ \E prepared \in {sent[a], NoMaster} :
                 Goto(s, [step |-> "send", source |-> "request", key |-> job[s].key,
                          items |-> windows[sent[a]].items, prepared |-> prepared])
      BY <1>6 DEF LockPrepared, IsNewest
    <3>2. sent[a] \in Masters /\ decision[sent[a]] = "HELD"
      BY <3>1 DEF HeldPrepared, DayInv, PreparationInv, PreparationTypes
    <3> QED BY <3>1, <3>2
  <2>4. windows[p].items \in Messages
    BY <2>3 DEF DayInv, PreparationInv, PreparationTypes, Window
  <2> DEFINE state == [step |-> "send", source |-> "request", key |-> job[s].key,
                       items |-> windows[p].items, prepared |-> prepared]
  <2>5. /\ Goto(s, state) /\ state \in JobStates
        /\ state.step = "send" /\ state.prepared = prepared
        /\ state.items = windows[p].items
    BY <2>2, <2>3, <2>4 DEF JobStates, Sources
  <2> HIDE DEF state
  <2> QED BY <1>1, <1>2, <2>3, <2>5, GotoKeepsPreparation
<1>7. CASE Fail(s) \/ FailQueue(s)
  <2>1. Goto(s, Idle)
    BY <1>7 DEF Fail, FailQueue, AbortQueue
  <2>2. Idle \in JobStates /\ Idle.step = "idle"
    BY DEF JobStates, Idle
  <2> QED BY <1>1, <1>2, <2>1, <2>2, GotoKeepsPreparation
<1> QED BY <1>2, <1>3, <1>4, <1>5, <1>6, <1>7

\* The message of a window that was sent is a sequence of products.
LEMMA SentWindows ==
    ASSUME PreparationTypes, NEW m \in Masters, decision[m] # "NONE"
    PROVE  /\ windows[m].items \in Messages
           /\ windows[m].items \in Seq(Items)
           /\ Len(windows[m].items) \in Nat
           /\ DOMAIN windows[m].items = 1..Len(windows[m].items)
<1>1. windows[m].items \in Messages
  BY DEF PreparationTypes, Window
<1>2. windows[m].items \in Seq(Items)
  BY <1>1 DEF Messages
<1> QED BY <1>1, <1>2

\* What the steps between ReadLast and COMMIT know about their job.
LEMMA QueueingJob ==
    ASSUME DayInv, NEW s \in Scripts, job[s].step \in {"queue", "insert"}
    PROVE  /\ job[s].master \in Masters /\ decision[job[s].master] # "NONE"
           /\ job[s].step = "insert" =>
                job[s].last \in 0..MaxSequence /\ job[s].done \in Nat
<1>1. job[s] \in JobStates
  BY DEF DayInv, PreparationInv, PreparationTypes
<1>2. job[s].master \in Masters
      /\ (job[s].step = "insert" =>
            job[s].last \in 0..MaxSequence /\ job[s].done \in Nat)
  BY <1>1 DEF JobStates, Idle
<1> QED BY <1>2 DEF DayInv, PreparationInv, JobsHaveWindows

\* A transaction begins with no rows.
LEMMA ReadLastKeepsPreparation ==
    ASSUME DayInv, NEW s \in Scripts, ReadLast(s)
    PROVE  RaceInv' /\ PreparationInv'
<1> DEFINE m == job[s].master
<1>1. UNCHANGED <<row, decision, itemLock, masterLock, task, windows, sent>>
  BY DEF ReadLast, releasing
<1>2. RaceInv'
  BY <1>1, SameRace DEF DayInv
<1>3. m \in Masters /\ decision[m] # "NONE"
  BY QueueingJob DEF ReadLast
<1>4. PICK last \in 0..MaxSequence :
        Goto(s, [step |-> "insert", master |-> m, last |-> last, done |-> 0])
  BY DEF ReadLast
<1>5. /\ job' \in [Scripts -> JobStates]
      /\ job'[s].step = "insert" /\ job'[s].master = m
      /\ job'[s].last = last /\ job'[s].done = 0
      /\ \A t \in Scripts : t # s => job'[t] = job[t]
  <2>1. [step |-> "insert", master |-> m, last |-> last, done |-> 0] \in JobStates
    BY <1>3 DEF JobStates
  <2> QED BY <1>4, <2>1 DEF DayInv, PreparationInv, PreparationTypes, Goto
<1>6. PreparationTypes'
  BY <1>1, <1>5 DEF DayInv, PreparationInv, PreparationTypes
<1>7. InsertedAreNew'
  <2>1. Inserted(s)' = {} /\ \A t \in Scripts : t # s => Inserted(t)' = Inserted(t)
    BY <1>1, <1>5 DEF Inserted
  <2>2. 0 \in 0..Len(windows[m].items) /\ last + 0 <= MaxSequence
    BY <1>3, SentWindows DEF DayInv, PreparationInv
  <2> QED BY <1>1, <1>5, <2>1, <2>2 DEF DayInv, PreparationInv, InsertedAreNew
<1>8. JobsHaveWindows' /\ RelinkedIsHeld'
  BY <1>1, <1>3, <1>5 DEF DayInv, PreparationInv, JobsHaveWindows, RelinkedIsHeld
<1>9. RowsAreOfItems'
  BY <1>1 DEF DayInv, PreparationInv, RowsAreOfItems, ItemsOf
<1> QED BY <1>2, <1>6, <1>7, <1>8, <1>9 DEF PreparationInv

\* An INSERT takes a product that has no row, and that no other transaction
\* has inserted.
LEMMA InsertKeepsPreparation ==
    ASSUME DayInv, NEW s \in Scripts, Insert(s)
    PROVE  RaceInv' /\ PreparationInv'
<1> DEFINE m == job[s].master
           n == Len(windows[m].items)
<1>1. UNCHANGED <<row, decision, itemLock, masterLock, task, windows, sent>>
  BY DEF Insert, releasing
<1>2. RaceInv'
  BY <1>1, SameRace DEF DayInv
<1>3. /\ job[s].step = "insert" /\ job[s].done # n
      /\ job[s].last + job[s].done < MaxSequence
      /\ row[NextItem(s)] = NoRow
  BY DEF Insert, Inserting, AllInserted, NumberFits
<1>4. /\ m \in Masters /\ decision[m] # "NONE" /\ n \in Nat
      /\ job[s].last \in 0..MaxSequence
      /\ job[s].done \in 0..n
  BY <1>3, QueueingJob, SentWindows DEF DayInv, PreparationInv, InsertedAreNew
<1>5. /\ job' \in [Scripts -> JobStates]
      /\ job'[s].step = "insert" /\ job'[s].master = m
      /\ job'[s].last = job[s].last /\ job'[s].done = job[s].done + 1
      /\ \A t \in Scripts : t # s => job'[t] = job[t]
  <2> DEFINE state == [job[s] EXCEPT !.done = @ + 1]
  <2>1. job[s] \in [step : {"insert"}, master : Masters, last : 0..MaxSequence, done : Nat]
    <3>1. job[s] \in JobStates
      BY DEF DayInv, PreparationInv, PreparationTypes
    <3> QED BY <1>3, <3>1 DEF JobStates, Idle
  <2>2. state \in [step : {"insert"}, master : Masters, last : 0..MaxSequence, done : Nat]
    BY <2>1
  <2>3. /\ state.step = "insert" /\ state.master = m
        /\ state.last = job[s].last /\ state.done = job[s].done + 1
    BY <2>1
  <2>4. state \in JobStates /\ job' = [job EXCEPT ![s] = state]
    BY <2>2 DEF JobStates, Insert, Goto
  <2> HIDE DEF state
  <2> QED BY <2>3, <2>4 DEF DayInv, PreparationInv, PreparationTypes
<1>6. PreparationTypes'
  BY <1>1, <1>5 DEF DayInv, PreparationInv, PreparationTypes
<1>7. InsertedAreNew'
  <2>1. /\ Inserted(s)' = Inserted(s) \cup {NextItem(s)}
        /\ \A t \in Scripts : t # s => Inserted(t)' = Inserted(t)
    <3>1. 1..(job[s].done + 1) = (1..job[s].done) \cup {job[s].done + 1}
      BY <1>4
    <3> QED BY <1>1, <1>5, <3>1 DEF Inserted, NextItem
  <2>2. \A t \in Scripts : s # t /\ job[t].step = "insert" => NextItem(s) \notin Inserted(t)
    BY DEF Insert, WaitsFor
  <2>3. job[s].done + 1 \in 0..n /\ job[s].last + (job[s].done + 1) <= MaxSequence
    <3>1. MaxSequence \in Nat
      BY ItemsAssumption
    <3>2. job[s].last \in Nat /\ job[s].done \in Nat /\ job[s].done <= n
      BY <1>4, <3>1
    <3> HIDE DEF n
    <3>3. job[s].done + 1 \in 0..n
      BY <1>3, <1>4, <3>2
    <3>4. job[s].last + (job[s].done + 1) <= MaxSequence
      BY <1>3, <3>1, <3>2
    <3> QED BY <3>3, <3>4
  <2>4. InsertedAreNew /\ row' = row /\ windows' = windows /\ row[NextItem(s)] = NoRow
    BY <1>1, <1>3 DEF DayInv, PreparationInv
  <2>5. \A t \in Scripts : job'[t].step = "insert" =>
            /\ job'[t].done \in 0..Len(windows'[job'[t].master].items)
            /\ job'[t].last + job'[t].done <= MaxSequence
            /\ \A i \in Items : i \in Inserted(t)' => row'[i] = NoRow
    <3> SUFFICES ASSUME NEW t \in Scripts, job'[t].step = "insert"
                 PROVE  /\ job'[t].done \in 0..Len(windows'[job'[t].master].items)
                        /\ job'[t].last + job'[t].done <= MaxSequence
                        /\ \A i \in Items : i \in Inserted(t)' => row'[i] = NoRow
      OBVIOUS
    <3>1. CASE t = s
      <4>1. Inserted(s)' = Inserted(s) \cup {NextItem(s)}
        BY <2>1
      <4>2. \A i \in Items : i \in Inserted(s) => row[i] = NoRow
        BY <1>3, <2>4 DEF InsertedAreNew
      <4>3. \A i \in Items : i \in Inserted(s)' => row'[i] = NoRow
        BY <2>4, <4>1, <4>2
      <4> QED BY <1>5, <2>3, <2>4, <3>1, <4>3
    <3>2. CASE t # s
      <4>1. job'[t] = job[t] /\ Inserted(t)' = Inserted(t)
        BY <1>5, <2>1, <3>2
      <4> QED BY <2>4, <4>1 DEF InsertedAreNew
    <3> QED BY <3>1, <3>2
  <2>6. \A t, q \in Scripts : job'[t].step = "insert" /\ job'[q].step = "insert" /\ t # q =>
            Inserted(t)' \cap Inserted(q)' = {}
    BY <1>3, <1>5, <2>1, <2>2, <2>4 DEF InsertedAreNew
  <2> QED BY <2>5, <2>6 DEF InsertedAreNew
<1>8. JobsHaveWindows' /\ RelinkedIsHeld'
  BY <1>1, <1>4, <1>5 DEF DayInv, PreparationInv, JobsHaveWindows, RelinkedIsHeld
<1>9. RowsAreOfItems'
  BY <1>1 DEF DayInv, PreparationInv, RowsAreOfItems, ItemsOf
<1> QED BY <1>2, <1>6, <1>7, <1>8, <1>9 DEF PreparationInv

\* A new window or answer takes no approval back.
LEMMA AnswersKeepRace ==
    ASSUME RaceInv, UNCHANGED <<row, itemLock, masterLock, task>>,
           decision' \in [Masters -> Answers],
           \A m \in Masters : decision[m] = "APPROVED" => decision'[m] = "APPROVED"
    PROVE  RaceInv'
<1>1. Approved \subseteq Approved'
  BY DEF Approved
<1> QED
  BY <1>1, LockedRowsKeepRace
  DEF RaceInv, RaceTypes, ReleasesAreCounted, RowsHaveWindows

\* A message is sent for a window that was none before; those of earlier ones
\* stay as they are.
LEMMA SendKeepsPreparation ==
    ASSUME DayInv, NEW s \in Scripts, NEW m \in Masters, Send(s, m)
    PROVE  RaceInv' /\ PreparationInv'
<1> DEFINE relinking == job[s].prepared # NoMaster
<1>1. /\ job[s].step = "send" /\ decision[m] = "NONE"
      /\ UNCHANGED <<row, itemLock, masterLock, task>>
      /\ sent' = Append(sent, m)
  BY DEF Send, releasing
<1>2. job[s].source \in Sources /\ job[s].key \in Keys /\ job[s].items \in Messages
      /\ job[s].prepared \in Masters \cup {NoMaster}
  <2>1. job[s] \in JobStates
    BY DEF DayInv, PreparationInv, PreparationTypes
  <2> QED BY <1>1, <2>1 DEF JobStates, Idle
<1>3. /\ decision' \in [Masters -> Answers]
      /\ decision'[m] = "PENDING"
      /\ \A p \in Masters : p # m => decision'[p] = decision[p]
  BY DEF DayInv, RaceInv, RaceTypes, Answers, Send
<1>4. RaceInv'
  BY <1>1, <1>3, AnswersKeepRace DEF DayInv
<1>5. /\ windows' \in [Masters -> Window \cup {NoWindow}]
      /\ windows'[m] \in Window /\ windows'[m].items = job[s].items
      /\ \A p \in Masters : p # m => windows'[p] = windows[p]
  BY <1>2 DEF DayInv, PreparationInv, PreparationTypes, Window, Send
<1>6. /\ job' \in [Scripts -> JobStates]
      /\ job'[s].master = m
      /\ job'[s].step = IF relinking THEN "relink" ELSE "queue"
      /\ relinking => job'[s].prepared = job[s].prepared
      /\ \A t \in Scripts : t # s => job'[t] = job[t]
  <2>1. CASE relinking
    <3>1. [step |-> "relink", master |-> m, prepared |-> job[s].prepared] \in JobStates
      BY <1>2, <2>1 DEF JobStates
    <3> QED BY <2>1, <3>1 DEF DayInv, PreparationInv, PreparationTypes, Send, Goto
  <2>2. CASE ~relinking
    <3>1. [step |-> "queue", master |-> m] \in JobStates
      BY DEF JobStates
    <3> QED BY <2>2, <3>1 DEF DayInv, PreparationInv, PreparationTypes, Send, Goto
  <2> QED BY <2>1, <2>2
<1>7. PreparationTypes'
  BY <1>1, <1>3, <1>5, <1>6 DEF DayInv, PreparationInv, PreparationTypes
<1>8. \A t \in Scripts : job[t].step \in {"queue", "insert", "relink"} =>
        job[t].master \in Masters \ {m}
  <2> SUFFICES ASSUME NEW t \in Scripts, job[t].step \in {"queue", "insert", "relink"}
               PROVE  job[t].master \in Masters \ {m}
    OBVIOUS
  <2>1. job[t] \in JobStates
    BY DEF DayInv, PreparationInv, PreparationTypes
  <2>2. job[t].master \in Masters
    BY <2>1 DEF JobStates, Idle
  <2> QED BY <1>1, <2>2 DEF DayInv, PreparationInv, JobsHaveWindows
<1>9. JobsHaveWindows'
  BY <1>3, <1>6, <1>8 DEF DayInv, PreparationInv, JobsHaveWindows
<1>10. InsertedAreNew'
  <2>1. \A t \in Scripts : job'[t].step = "insert" =>
            /\ t # s /\ job'[t] = job[t] /\ Inserted(t)' = Inserted(t)
            /\ windows'[job[t].master] = windows[job[t].master]
    <3> SUFFICES ASSUME NEW t \in Scripts, job'[t].step = "insert"
                 PROVE  /\ t # s /\ job'[t] = job[t] /\ Inserted(t)' = Inserted(t)
                        /\ windows'[job[t].master] = windows[job[t].master]
      OBVIOUS
    <3>1. t # s /\ job'[t] = job[t] /\ job[t].step = "insert"
      BY <1>6
    <3>2. job[t].master \in Masters /\ job[t].master # m
      BY <1>8, <3>1
    <3> QED BY <1>5, <3>1, <3>2 DEF Inserted
  <2> QED BY <1>1, <2>1 DEF DayInv, PreparationInv, InsertedAreNew
<1>11. RelinkedIsHeld'
  <2> SUFFICES ASSUME NEW t \in Scripts
               PROVE  /\ job'[t].step = "send" /\ job'[t].prepared # NoMaster =>
                            /\ decision'[job'[t].prepared] = "HELD"
                            /\ job'[t].items = windows'[job'[t].prepared].items
                      /\ job'[t].step = "relink" =>
                            /\ decision'[job'[t].prepared] = "HELD"
                            /\ windows'[job'[t].master].items
                                    = windows'[job'[t].prepared].items
    BY DEF RelinkedIsHeld
  <2>1. \A p \in Masters : decision[p] = "HELD" =>
            decision'[p] = "HELD" /\ windows'[p] = windows[p]
    BY <1>1, <1>3, <1>5
  <2>2. CASE t = s
    BY <1>1, <1>2, <1>5, <1>6, <2>1, <2>2 DEF DayInv, PreparationInv, RelinkedIsHeld
  <2>3. CASE t # s
    <3>1. job'[t] = job[t] /\ job[t] \in JobStates
      BY <1>6, <2>3 DEF DayInv, PreparationInv, PreparationTypes
    <3>2. CASE job[t].step = "send" /\ job[t].prepared # NoMaster
      <4>1. job[t].prepared \in Masters
        BY <3>1, <3>2 DEF JobStates, Idle
      <4> QED BY <2>1, <3>1, <3>2, <4>1 DEF DayInv, PreparationInv, RelinkedIsHeld
    <3>3. CASE job[t].step = "relink"
      <4>1. job[t].prepared \in Masters /\ job[t].master \in Masters
        BY <3>1, <3>3 DEF JobStates, Idle
      <4> QED
        BY <1>5, <1>8, <2>1, <2>3, <3>1, <3>3, <4>1
        DEF DayInv, PreparationInv, RelinkedIsHeld
    <3> QED BY <3>1, <3>2, <3>3
  <2> QED BY <2>2, <2>3
<1>12. RowsAreOfItems'
  <2> SUFFICES ASSUME NEW i \in Items, row[i].status # "NONE"
               PROVE  decision'[row[i].master] # "NONE" /\ i \in ItemsOf(row[i].master)'
    BY <1>1 DEF RowsAreOfItems
  <2>1. /\ row[i].master \in Masters /\ decision[row[i].master] # "NONE"
        /\ i \in ItemsOf(row[i].master)
    BY DEF DayInv, RaceInv, PreparationInv, RowsHaveWindows, RowsAreOfItems
  <2>2. row'[i] = row[i] /\ row[i].master # m
    BY <1>1, <2>1
  <2> QED BY <1>3, <1>5, <2>1, <2>2 DEF ItemsOf
<1> QED BY <1>4, <1>7, <1>9, <1>10, <1>11, <1>12 DEF PreparationInv

\* An answer ends the waiting of a window, and of nothing else.
LEMMA DecideKeepsPreparation ==
    ASSUME DayInv, NEW m \in Masters, NEW answer \in {"APPROVED", "HELD", "EXPIRED"},
           Decide(m, answer)
    PROVE  RaceInv' /\ PreparationInv'
<1>1. /\ decision[m] = "PENDING"
      /\ UNCHANGED <<row, itemLock, masterLock, task, windows, sent, job>>
  BY DEF Decide, releasing, preparing
<1>2. /\ decision' \in [Masters -> Answers]
      /\ decision'[m] = answer
      /\ \A p \in Masters : p # m => decision'[p] = decision[p]
  BY DEF DayInv, RaceInv, RaceTypes, Answers, Decide
<1>3. RaceInv'
  BY <1>1, <1>2, AnswersKeepRace DEF DayInv
<1>4. \A p \in Masters : /\ decision[p] # "NONE" <=> decision'[p] # "NONE"
                         /\ decision[p] = "HELD" => decision'[p] = "HELD"
  BY <1>1, <1>2
<1>5. PreparationTypes'
  BY <1>1, <1>4 DEF DayInv, PreparationInv, PreparationTypes
<1>6. InsertedAreNew'
  <2>1. \A t \in Scripts : Inserted(t)' = Inserted(t)
    BY <1>1 DEF Inserted
  <2> QED BY <1>1, <2>1 DEF DayInv, PreparationInv, InsertedAreNew
<1>7. JobsHaveWindows' /\ RelinkedIsHeld'
  <2> SUFFICES ASSUME NEW t \in Scripts
               PROVE  /\ job[t].step \in {"queue", "insert", "relink"} =>
                            decision'[job[t].master] # "NONE"
                      /\ job[t].step = "send" /\ job[t].prepared # NoMaster =>
                            decision'[job[t].prepared] = "HELD"
                      /\ job[t].step = "relink" => decision'[job[t].prepared] = "HELD"
    BY <1>1 DEF DayInv, PreparationInv, JobsHaveWindows, RelinkedIsHeld
  <2>1. job[t] \in JobStates
    BY DEF DayInv, PreparationInv, PreparationTypes
  <2>2. /\ job[t].step \in {"queue", "insert", "relink"} => job[t].master \in Masters
        /\ job[t].step = "send" /\ job[t].prepared # NoMaster => job[t].prepared \in Masters
        /\ job[t].step = "relink" => job[t].prepared \in Masters
    BY <2>1 DEF JobStates, Idle
  <2> QED
    BY <1>4, <2>2 DEF DayInv, PreparationInv, JobsHaveWindows, RelinkedIsHeld
<1>8. RowsAreOfItems'
  BY <1>1, <1>4 DEF DayInv, RaceInv, PreparationInv, RowsHaveWindows, RowsAreOfItems,
                    ItemsOf
<1> QED BY <1>3, <1>5, <1>6, <1>7, <1>8 DEF PreparationInv

\* The COMMIT makes rows of products that had none, numbered within the limit.
LEMMA CommitQueueRows ==
    ASSUME DayInv, NEW s \in Scripts, CommitQueue(s)
    PROVE  /\ job[s].master \in Masters /\ decision[job[s].master] # "NONE"
           /\ Inserted(s) = ItemsOf(job[s].master)
           /\ row' \in [Items -> Row]
           /\ \A i \in Items :
                \/ row'[i] = row[i] /\ i \notin Inserted(s)
                \/ /\ i \in Inserted(s)
                   /\ row[i] = NoRow
                   /\ row'[i] = QueuedRow(job[s].master, job[s].last + Position(s, i))
<1> DEFINE m == job[s].master
           items == windows[m].items
           number(i) == job[s].last + Position(s, i)
<1>1. /\ job[s].step = "insert" /\ job[s].done = Len(items)
      /\ row' = WithInserted(s)
  BY DEF CommitQueue, AllInserted
<1>2. /\ m \in Masters /\ decision[m] # "NONE"
      /\ job[s].last \in 0..MaxSequence
      /\ job[s].last + Len(items) <= MaxSequence
      /\ DOMAIN items = 1..Len(items) /\ Len(items) \in Nat
  BY <1>1, QueueingJob, SentWindows DEF DayInv, PreparationInv, InsertedAreNew
<1>3. Inserted(s) = ItemsOf(m)
  BY <1>1, <1>2 DEF Inserted, ItemsOf
<1>4. \A i \in Items : i \in Inserted(s) => row[i] = NoRow /\ number(i) \in 0..MaxSequence
  <2> SUFFICES ASSUME NEW i \in Items, i \in Inserted(s)
               PROVE  row[i] = NoRow /\ number(i) \in 0..MaxSequence
    OBVIOUS
  <2>1. PICK a \in DOMAIN items : items[a] = i
    BY <1>1, <1>2 DEF Inserted
  <2>2. Position(s, i) \in 1..Len(items)
    BY <1>2, <2>1 DEF Position
  <2>3. number(i) \in 0..MaxSequence
    BY <1>2, <2>2, ItemsAssumption
  <2>4. row[i] = NoRow
    BY <1>1 DEF DayInv, PreparationInv, InsertedAreNew
  <2> QED BY <2>3, <2>4
<1> HIDE DEF m, number
<1>5. \A i \in Items : row'[i] = IF i \in Inserted(s) THEN QueuedRow(m, number(i))
                                                       ELSE row[i]
  BY <1>1 DEF WithInserted, m, number
<1>6. \A i \in Items : i \in Inserted(s) => QueuedRow(m, number(i)) \in Row
  BY <1>2, <1>4 DEF QueuedRow, Row
<1>7. row' \in [Items -> Row]
  <2>1. row' = [i \in Items |-> row'[i]]
    BY <1>1 DEF WithInserted
  <2>2. \A i \in Items : row'[i] \in Row
    BY <1>5, <1>6 DEF DayInv, RaceInv, RaceTypes
  <2> QED BY <2>1, <2>2
<1> QED BY <1>2, <1>3, <1>4, <1>5, <1>7 DEF m, number

\* New rows are neither picked nor recorded, and those that other scripts are
\* inserting are not among them.
LEMMA CommitQueueKeepsPreparation ==
    ASSUME DayInv, NEW s \in Scripts, CommitQueue(s)
    PROVE  RaceInv' /\ PreparationInv'
<1> DEFINE m == job[s].master
<1>1. /\ job[s].step = "insert"
      /\ UNCHANGED <<decision, itemLock, masterLock, task, windows, sent>>
      /\ Goto(s, Idle)
  BY DEF CommitQueue
<1>2. m \in Masters /\ decision[m] # "NONE"
  BY CommitQueueRows
<1>4. /\ row' \in [Items -> Row]
      /\ \A i \in Items :
            \/ row'[i] = row[i] /\ i \notin Inserted(s)
            \/ /\ i \in Inserted(s) /\ i \in ItemsOf(m)
               /\ row[i] = NoRow /\ row[i].status = "NONE"
               /\ row'[i].status = "QUEUED" /\ row'[i].master = m /\ row'[i].releases = 0
  <2>1. /\ Inserted(s) = ItemsOf(m) /\ row' \in [Items -> Row]
        /\ \A i \in Items :
              \/ row'[i] = row[i] /\ i \notin Inserted(s)
              \/ /\ i \in Inserted(s) /\ row[i] = NoRow
                 /\ \E n \in {job[s].last + Position(s, i)} : row'[i] = QueuedRow(m, n)
    BY CommitQueueRows
  <2>2. \A n : /\ QueuedRow(m, n).status = "QUEUED" /\ QueuedRow(m, n).master = m
               /\ QueuedRow(m, n).releases = 0
    BY DEF QueuedRow
  <2>3. NoRow.status = "NONE"
    BY DEF NoRow
  <2> HIDE DEF m
  <2> QED BY <2>1, <2>2, <2>3
<1> HIDE DEF m
<1>5. RaceInv'
  <2>1. RaceTypes'
    BY <1>1, <1>4 DEF DayInv, RaceInv, RaceTypes
  <2>2. ReleasesAreCounted'
    BY <1>4 DEF DayInv, RaceInv, ReleasesAreCounted
  <2>3. \A i \in Items : itemLock[i] # Nobody => row'[i] = row[i]
    BY <1>4, NobodyAssumption DEF DayInv, RaceInv, LocksAreOfRows, NoRow
  <2>4. PicksAreLocked' /\ LocksAreOfRows' /\ RecordedIsReleased'
    BY <1>1, <2>3, LockedRowsKeepRace DEF DayInv, Approved
  <2>5. RowsHaveWindows'
    BY <1>1, <1>2, <1>4 DEF DayInv, RaceInv, RowsHaveWindows, Approved
  <2> QED BY <2>1, <2>2, <2>3, <2>4, <2>5 DEF RaceInv
<1>6. /\ job'[s] = Idle /\ Idle.step = "idle" /\ job' \in [Scripts -> JobStates]
      /\ \A t \in Scripts : t # s => job'[t] = job[t]
  BY <1>1 DEF DayInv, PreparationInv, PreparationTypes, Goto, JobStates, Idle
<1>7. PreparationTypes'
  BY <1>1, <1>6 DEF DayInv, PreparationInv, PreparationTypes
<1>8. InsertedAreNew'
  <2>1. \A t \in Scripts : job'[t].step = "insert" =>
            t # s /\ job'[t] = job[t] /\ Inserted(t)' = Inserted(t)
    BY <1>1, <1>6 DEF Inserted
  <2>2. \A t \in Scripts : job'[t].step = "insert" => Inserted(s) \cap Inserted(t) = {}
    BY <1>1, <2>1 DEF DayInv, PreparationInv, InsertedAreNew
  <2> QED BY <1>1, <1>4, <2>1, <2>2 DEF DayInv, PreparationInv, InsertedAreNew
<1>9. JobsHaveWindows' /\ RelinkedIsHeld'
  BY <1>1, <1>6 DEF DayInv, PreparationInv, JobsHaveWindows, RelinkedIsHeld
<1>10. RowsAreOfItems'
  BY <1>1, <1>2, <1>4 DEF DayInv, PreparationInv, RowsAreOfItems, ItemsOf
<1> QED BY <1>5, <1>7, <1>8, <1>9, <1>10 DEF PreparationInv

\* Rows move from a held window to one of the same items.
LEMMA RelinkRows ==
    ASSUME DayInv, NEW s \in Scripts, Relink(s)
    PROVE  /\ job[s].master \in Masters /\ decision[job[s].master] # "NONE"
           /\ job[s].prepared \in Masters /\ decision[job[s].prepared] = "HELD"
           /\ windows[job[s].master].items = windows[job[s].prepared].items
           /\ row' \in [Items -> Row]
           /\ \A i \in Items :
                \/ /\ row'[i] = row[i]
                   /\ ~(row[i].status = "QUEUED" /\ row[i].master = job[s].prepared)
                \/ /\ row[i].status = "QUEUED" /\ row[i].master = job[s].prepared
                   /\ row'[i] = [row[i] EXCEPT !.master = job[s].master]
<1> DEFINE m == job[s].master
           p == job[s].prepared
<1>1. job[s].step = "relink"
  BY DEF Relink
<1>2. m \in Masters /\ p \in Masters /\ decision[m] # "NONE"
  <2>1. job[s] \in JobStates
    BY DEF DayInv, PreparationInv, PreparationTypes
  <2>2. m \in Masters /\ p \in Masters
    BY <1>1, <2>1 DEF JobStates, Idle
  <2> QED BY <1>1, <2>2 DEF DayInv, PreparationInv, JobsHaveWindows
<1>3. decision[p] = "HELD" /\ windows[m].items = windows[p].items
  BY <1>1 DEF DayInv, PreparationInv, RelinkedIsHeld
<1>4. row' = [i \in Items |-> IF i \in QueuedUnder(p) THEN [row[i] EXCEPT !.master = m]
                                                     ELSE row[i]]
  BY DEF Relink
<1> HIDE DEF m, p
<1>5. \A i \in Items : [row[i] EXCEPT !.master = m] \in Row
  BY <1>2 DEF DayInv, RaceInv, RaceTypes, Row
<1>6. /\ row' \in [Items -> Row]
      /\ \A i \in Items :
            \/ row'[i] = row[i] /\ ~(row[i].status = "QUEUED" /\ row[i].master = p)
            \/ /\ row[i].status = "QUEUED" /\ row[i].master = p
               /\ row'[i] = [row[i] EXCEPT !.master = m]
  BY <1>4, <1>5 DEF QueuedUnder, Queued, DayInv, RaceInv, RaceTypes
<1> QED BY <1>2, <1>3, <1>6 DEF m, p

\* A row that a task has picked is of an approved window, and does not move.
LEMMA RelinkKeepsPreparation ==
    ASSUME DayInv, NEW s \in Scripts, Relink(s)
    PROVE  RaceInv' /\ PreparationInv'
<1> DEFINE m == job[s].master
           p == job[s].prepared
<1>1. /\ job[s].step = "relink"
      /\ UNCHANGED <<decision, itemLock, masterLock, task, windows, sent>>
      /\ Goto(s, Idle)
  BY DEF Relink
<1>2. m \in Masters /\ decision[m] # "NONE"
  BY RelinkRows
<1>3. decision[p] = "HELD" /\ windows[m].items = windows[p].items
  BY RelinkRows
<1>5. /\ row' \in [Items -> Row]
      /\ \A i \in Items :
            \/ row'[i] = row[i]
            \/ /\ row[i].status = "QUEUED" /\ row[i].master = p
               /\ row'[i].status = "QUEUED" /\ row'[i].master = m
               /\ row'[i].releases = row[i].releases
  <2>1. /\ row' \in [Items -> Row]
        /\ \A i \in Items :
              \/ row'[i] = row[i]
              \/ /\ row[i].status = "QUEUED" /\ row[i].master = p
                 /\ row'[i] = [row[i] EXCEPT !.master = m]
    BY RelinkRows
  <2>2. \A i \in Items : row[i] \in Row
    BY DEF DayInv, RaceInv, RaceTypes
  <2> HIDE DEF m, p
  <2>3. \A i \in Items : /\ [row[i] EXCEPT !.master = m].status = row[i].status
                         /\ [row[i] EXCEPT !.master = m].master = m
                         /\ [row[i] EXCEPT !.master = m].releases = row[i].releases
    BY <2>2 DEF Row
  <2> QED BY <2>1, <2>3
<1>12. \A i \in Items : row[i].status = "QUEUED" /\ row[i].master = p =>
            itemLock[i] = Nobody
  BY DEF Relink, Free, QueuedUnder, Queued
<1> HIDE DEF m, p
<1>6. RaceInv'
  <2>1. RaceTypes'
    BY <1>1, <1>5 DEF DayInv, RaceInv, RaceTypes
  <2>2. ReleasesAreCounted'
    BY <1>5 DEF DayInv, RaceInv, ReleasesAreCounted
  <2>3. \A i \in Items : itemLock[i] # Nobody => row'[i] = row[i]
    BY <1>5, <1>12
  <2>4. PicksAreLocked' /\ LocksAreOfRows' /\ RecordedIsReleased'
    BY <1>1, <2>3, LockedRowsKeepRace DEF DayInv, Approved
  <2>5. RowsHaveWindows'
    BY <1>1, <1>2, <1>5 DEF DayInv, RaceInv, RowsHaveWindows, Approved
  <2> QED BY <2>1, <2>2, <2>3, <2>4, <2>5 DEF RaceInv
<1>7. /\ job'[s] = Idle /\ Idle.step = "idle" /\ job' \in [Scripts -> JobStates]
      /\ \A t \in Scripts : t # s => job'[t] = job[t]
  BY <1>1 DEF DayInv, PreparationInv, PreparationTypes, Goto, JobStates, Idle
<1>8. PreparationTypes'
  BY <1>1, <1>7 DEF DayInv, PreparationInv, PreparationTypes
<1>9. InsertedAreNew'
  <2>1. \A t \in Scripts : job'[t].step = "insert" =>
            t # s /\ job'[t] = job[t] /\ Inserted(t)' = Inserted(t)
    BY <1>1, <1>7 DEF Inserted
  <2>2. \A i \in Items : row[i] = NoRow => row'[i] = NoRow
    BY <1>5 DEF NoRow
  <2> QED BY <1>1, <2>1, <2>2 DEF DayInv, PreparationInv, InsertedAreNew
<1>10. JobsHaveWindows' /\ RelinkedIsHeld'
  BY <1>1, <1>7 DEF DayInv, PreparationInv, JobsHaveWindows, RelinkedIsHeld
<1>11. RowsAreOfItems'
  BY <1>1, <1>2, <1>3, <1>5 DEF DayInv, PreparationInv, RowsAreOfItems, ItemsOf
<1> QED BY <1>6, <1>8, <1>9, <1>10, <1>11 DEF PreparationInv

\* Only rows that are finished leave the table.
LEMMA ArchiveRows ==
    ASSUME DayInv, Archive
    PROVE  /\ row' \in [Items -> Row]
           /\ \A i \in Items :
                IF row[i].status \in Finished THEN row'[i] = NoRow ELSE row'[i] = row[i]
<1>1. NoRow \in Row
  BY ItemsAssumption DEF NoRow, Row
<1>2. row' = [i \in Items |-> IF i \in {j \in Items : row[j].status \in Finished}
                              THEN NoRow ELSE row[i]]
  BY DEF Archive
<1> QED BY <1>1, <1>2 DEF DayInv, RaceInv, RaceTypes

\* A row that is picked or recorded is not finished.
LEMMA ArchiveKeepsPreparation == DayInv /\ Archive => RaceInv' /\ PreparationInv'
<1> SUFFICES ASSUME DayInv, Archive PROVE RaceInv' /\ PreparationInv'
  OBVIOUS
<1>1. UNCHANGED <<decision, itemLock, masterLock, task, windows, sent, job>>
  BY DEF Archive
<1>2. /\ row' \in [Items -> Row]
      /\ \A i \in Items : \/ row'[i] = row[i]
                          \/ row[i].status \in Finished /\ row'[i] = NoRow
  BY ArchiveRows
<1>3. NoRow.status = "NONE" /\ NoRow.releases = 0
  BY DEF NoRow
<1>4. RaceInv'
  <2>1. RaceTypes'
    BY <1>1, <1>2 DEF DayInv, RaceInv, RaceTypes
  <2>2. ReleasesAreCounted'
    BY <1>2, <1>3 DEF DayInv, RaceInv, ReleasesAreCounted
  <2>3. \A i \in Items : itemLock[i] # Nobody => row'[i] = row[i]
    BY <1>2 DEF Archive, Free
  <2>4. PicksAreLocked' /\ LocksAreOfRows' /\ RecordedIsReleased'
    BY <1>1, <2>3, LockedRowsKeepRace DEF DayInv, Approved
  <2>5. RowsHaveWindows'
    BY <1>1, <1>2, <1>3 DEF DayInv, RaceInv, RowsHaveWindows, Approved
  <2> QED BY <2>1, <2>2, <2>3, <2>4, <2>5 DEF RaceInv
<1>5. PreparationTypes' /\ JobsHaveWindows' /\ RelinkedIsHeld'
  BY <1>1 DEF DayInv, PreparationInv, PreparationTypes, JobsHaveWindows, RelinkedIsHeld
<1>6. InsertedAreNew'
  <2>1. \A t \in Scripts : Inserted(t)' = Inserted(t)
    BY <1>1 DEF Inserted
  <2>2. \A i \in Items : row[i] = NoRow => row'[i] = NoRow
    BY <1>2
  <2> QED BY <1>1, <2>1, <2>2 DEF DayInv, PreparationInv, InsertedAreNew
<1>7. RowsAreOfItems'
  BY <1>1, <1>2, <1>3 DEF DayInv, PreparationInv, RowsAreOfItems, ItemsOf
<1> QED BY <1>4, <1>5, <1>6, <1>7 DEF PreparationInv

-----------------------------------------------------------------------------
(* The invariant holds, and what follows from it                           *)

\* The invariant holds of an empty day,
LEMMA InitDay == EmptyDay => DayInv
<1> SUFFICES ASSUME EmptyDay PROVE DayInv
  OBVIOUS
<1>1. NoRow \in Row /\ NoRow.status = "NONE" /\ NoRow.releases = 0 /\ Idle.step = "idle"
  BY ItemsAssumption DEF NoRow, Row, Idle
<1>2. RaceInv
  BY <1>1, NobodyAssumption
  DEF EmptyDay, RaceInv, RaceTypes, Answers, TaskStates, ReleasesAreCounted,
      PicksAreLocked, LocksAreOfRows, RecordedIsReleased, RowsHaveWindows
<1>3. PreparationInv
  BY <1>1 DEF EmptyDay, PreparationInv, PreparationTypes, JobStates, InsertedAreNew,
              JobsHaveWindows, RelinkedIsHeld, RowsAreOfItems
<1> QED BY <1>2, <1>3 DEF DayInv

\* every step of a script or of ReleaseRace keeps it,
LEMMA DayKeepsInv == DayInv /\ [Day]_allVars => DayInv'
<1> SUFFICES ASSUME DayInv, [Day]_allVars PROVE RaceInv' /\ PreparationInv'
  BY DEF DayInv
<1>1. CASE Release /\ UNCHANGED preparing
  BY <1>1, ReleaseKeepsRace, ReleaseKeepsPreparation DEF DayInv
<1>2. CASE \E s \in Scripts, k \in Keys :
                StartWindow(s, k) \/ StartDaily(s, k) \/ LookForActive(s, k)
  BY <1>2, LooksKeepPreparation
<1>3. CASE \E s \in Scripts, m \in Masters : Send(s, m)
  BY <1>3, SendKeepsPreparation
<1>4. ASSUME NEW s \in Scripts,
             ReadCandidates(s) \/ LockPrepared(s) \/ Fail(s) \/ FailQueue(s)
      PROVE  RaceInv' /\ PreparationInv'
  BY <1>4, LooksKeepPreparation
<1>5. ASSUME NEW s \in Scripts, ReadLast(s) PROVE RaceInv' /\ PreparationInv'
  BY <1>5, ReadLastKeepsPreparation
<1>6. ASSUME NEW s \in Scripts, Insert(s) PROVE RaceInv' /\ PreparationInv'
  BY <1>6, InsertKeepsPreparation
<1>7. ASSUME NEW s \in Scripts, CommitQueue(s) PROVE RaceInv' /\ PreparationInv'
  BY <1>7, CommitQueueKeepsPreparation
<1>8. ASSUME NEW s \in Scripts, Relink(s) PROVE RaceInv' /\ PreparationInv'
  BY <1>8, RelinkKeepsPreparation
<1>9. CASE \E m \in Masters, answer \in {"APPROVED", "HELD", "EXPIRED"} : Decide(m, answer)
  BY <1>9, DecideKeepsPreparation
<1>10. CASE Archive
  BY <1>10, ArchiveKeepsPreparation
<1>11. CASE UNCHANGED allVars
  <2>1. UNCHANGED <<row, decision, itemLock, masterLock, task>> /\ UNCHANGED preparing
    BY <1>11 DEF allVars, vars
  <2>2. UNCHANGED <<windows, sent, job>>
    BY <2>1 DEF preparing
  <2>3. \A t \in Scripts : Inserted(t)' = Inserted(t)
    BY <2>2 DEF Inserted
  <2>4. InsertedAreNew'
    BY <2>1, <2>2, <2>3 DEF DayInv, PreparationInv, InsertedAreNew
  <2> QED
    BY <2>1, <2>2, <2>4, SameRace
    DEF DayInv, PreparationInv, PreparationTypes, JobsHaveWindows, RelinkedIsHeld,
        RowsAreOfItems, ItemsOf
<1> QED
  BY <1>1, <1>2, <1>3, <1>4, <1>5, <1>6, <1>7, <1>8, <1>9, <1>10, <1>11
  DEF Day, Prepare

\* and so it always holds.
LEMMA DayInvariant == DaySpec => []DayInv
BY InitDay, DayKeepsInv, PTL DEF DaySpec

\* Two release batches are never made of one row, however many tasks overlap
\* and whatever is queued, moved and archived meanwhile.
THEOREM RowsAreReleasedOnce == DaySpec => []ReleasedOnce
<1>1. DayInv => ReleasedOnce
  BY DEF DayInv, RaceInv, ReleasesAreCounted, ReleasedOnce
<1> QED BY <1>1, DayInvariant, PTL

\* Two tasks never hold picks of the same window.
THEOREM PicksAreOfTwoMasters == DaySpec => []OneTaskPerMaster
<1>1. DayInv => OneTaskPerMaster
  BY DEF DayInv, RaceInv, PicksAreLocked, OneTaskPerMaster
<1> QED BY <1>1, DayInvariant, PTL

\* What is released was in the message of an approved window, also when its
\* row was moved there from a held one.
THEOREM ReleasesAreApproved == DaySpec => []ReleasedWasApproved
<1>1. DayInv => ReleasedWasApproved
  BY DEF DayInv, RaceInv, PreparationInv, RowsHaveWindows, RowsAreOfItems,
         ReleasedWasApproved, Finished
<1> QED BY <1>1, DayInvariant, PTL

-----------------------------------------------------------------------------
(* A window is queued once, and whole                                      *)

Building == {"queue", "insert", "relink"}

\* One script at most queues or moves rows for a window, and while it does the
\* window has none; afterwards it has all of them, here or in the history.
WholeInv ==
    /\ \A i \in Items : row[i].status = "NONE" => row[i].master = NoMaster
    /\ \A a \in archived : a.master \in Approved
    /\ \A s \in Scripts : job[s].step \in Building => QueuedFor(job[s].master) = {}
    /\ \A s, t \in Scripts :
            job[s].step \in Building /\ job[t].step \in Building /\ s # t
                => job[s].master # job[t].master
    /\ \A m \in Masters : QueuedFor(m) \in {{}, ItemsOf(m)}

\* Steps that leave rows and windows alone, and only take a job further.
LEMMA QuietKeepsWhole ==
    ASSUME DayInv, WholeInv, UNCHANGED <<row, windows, archived>>,
           \A m \in Masters : decision[m] = "APPROVED" => decision'[m] = "APPROVED",
           \A s \in Scripts : job'[s].step \in Building =>
                job[s].step \in Building /\ job'[s].master = job[s].master
    PROVE  WholeInv'
<1>1. \A m : QueuedFor(m)' = QueuedFor(m) /\ ItemsOf(m)' = ItemsOf(m)
  BY DEF QueuedFor, ItemsOf
<1>2. Approved \subseteq Approved'
  BY DEF Approved
<1>3. \A s \in Scripts : job'[s].step \in Building => QueuedFor(job[s].master)' = {}
  BY <1>1 DEF WholeInv
<1>4. \A m \in Masters : QueuedFor(m)' \in {{}, ItemsOf(m)'}
  BY <1>1 DEF WholeInv
<1> QED BY <1>2, <1>3, <1>4 DEF WholeInv

\* The steps of a script between its message and its COMMIT, and all that do
\* not write, are such steps.
LEMMA QuietJobs ==
    ASSUME DayInv, NEW s \in Scripts,
           \/ \E k \in Keys : StartWindow(s, k) \/ StartDaily(s, k) \/ LookForActive(s, k)
           \/ ReadCandidates(s) \/ LockPrepared(s) \/ Fail(s) \/ FailQueue(s)
           \/ ReadLast(s) \/ Insert(s)
    PROVE  /\ UNCHANGED <<row, decision, task, windows, archived>>
           /\ \A t \in Scripts : job'[t].step \in Building =>
                job[t].step \in Building /\ job'[t].master = job[t].master
<1>1. UNCHANGED <<row, decision, task, windows, archived>>
  BY DEF StartWindow, StartDaily, LookForActive, ReadCandidates, LockPrepared,
         Fail, FailQueue, AbortQueue, ReadLast, Insert, releasing
<1>2. PICK state : /\ job' = [job EXCEPT ![s] = state]
                   /\ state.step \in Building =>
                        job[s].step \in Building /\ state.master = job[s].master
  <2>1. CASE ReadLast(s)
    BY <2>1 DEF ReadLast, Goto, Building
  <2>2. CASE Insert(s)
    <3> DEFINE state == [job[s] EXCEPT !.done = @ + 1]
    <3>1. job[s].step = "insert" /\ job[s] \in JobStates
      BY <2>2 DEF Insert, Inserting, DayInv, PreparationInv, PreparationTypes
    <3>2. job[s] \in [step : {"insert"}, master : Masters, last : 0..MaxSequence, done : Nat]
      BY <3>1 DEF JobStates, Idle
    <3>3. state.master = job[s].master
      BY <3>2
    <3>4. job' = [job EXCEPT ![s] = state]
      BY <2>2 DEF Insert, Goto
    <3> HIDE DEF state
    <3> QED BY <3>1, <3>3, <3>4 DEF Building
  <2>3. CASE \E k \in Keys : StartWindow(s, k) \/ StartDaily(s, k) \/ LookForActive(s, k)
    BY <2>3 DEF StartWindow, StartDaily, LookForActive, Goto, Building
  <2>4. CASE ReadCandidates(s) \/ Fail(s) \/ FailQueue(s)
    BY <2>4 DEF ReadCandidates, Fail, FailQueue, AbortQueue, Goto, Building, Idle
  <2>5. CASE LockPrepared(s)
    BY <2>5 DEF LockPrepared, Goto, Building
  <2> QED BY <2>1, <2>2, <2>3, <2>4, <2>5
<1>3. job = [t \in Scripts |-> job[t]]
  BY DEF DayInv, PreparationInv, PreparationTypes
<1> QED BY <1>1, <1>2, <1>3

\* A new window has no rows, and no other script knows of it.
LEMMA SendKeepsWhole ==
    ASSUME DayInv, WholeInv, NEW s \in Scripts, NEW m \in Masters, Send(s, m)
    PROVE  WholeInv'
<1>1. /\ decision[m] = "NONE"
      /\ UNCHANGED <<row, archived>>
      /\ \A p \in Masters : p # m => decision'[p] = decision[p] /\ windows'[p] = windows[p]
  BY DEF Send, releasing, DayInv, RaceInv, RaceTypes, PreparationInv, PreparationTypes
<1>2. \A p : QueuedFor(p)' = QueuedFor(p)
  BY <1>1 DEF QueuedFor
<1>3. QueuedFor(m) = {}
  <2>1. \A i \in Items : row[i].master # m
    BY <1>1, NobodyAssumption
    DEF DayInv, PreparationInv, RowsAreOfItems, WholeInv
  <2>2. \A a \in archived : a.master # m
    BY <1>1 DEF WholeInv, Approved
  <2> QED BY <2>1, <2>2 DEF QueuedFor
<1>4. /\ job'[s].master = m
      /\ \A t \in Scripts : t # s => job'[t] = job[t]
  <2>1. CASE job[s].prepared = NoMaster
    BY <2>1 DEF DayInv, PreparationInv, PreparationTypes, Send, Goto
  <2>2. CASE job[s].prepared # NoMaster
    BY <2>2 DEF DayInv, PreparationInv, PreparationTypes, Send, Goto
  <2> QED BY <2>1, <2>2
<1>5. \A t \in Scripts : job[t].step \in Building => job[t].master # m
  BY <1>1 DEF DayInv, PreparationInv, JobsHaveWindows, Building
<1>6. \A p \in Masters : QueuedFor(p)' \in {{}, ItemsOf(p)'}
  <2> SUFFICES ASSUME NEW p \in Masters PROVE QueuedFor(p)' \in {{}, ItemsOf(p)'}
    OBVIOUS
  <2>1. CASE p = m
    BY <1>2, <1>3, <2>1
  <2>2. CASE p # m
    <3>1. ItemsOf(p)' = ItemsOf(p)
      BY <1>1, <2>2 DEF ItemsOf
    <3> QED BY <1>2, <3>1 DEF WholeInv
  <2> QED BY <2>1, <2>2
<1>7. Approved \subseteq Approved'
  BY <1>1 DEF Approved
<1>8. \A t \in Scripts : job'[t].step \in Building => QueuedFor(job[t].master)' = {}
  BY <1>2, <1>3, <1>4 DEF WholeInv
<1>9. \A t, u \in Scripts :
        job'[t].step \in Building /\ job'[u].step \in Building /\ t # u
            => job'[t].master # job'[u].master
  BY <1>4, <1>5 DEF WholeInv
<1> QED BY <1>1, <1>6, <1>7, <1>8, <1>9 DEF WholeInv

\* The window whose rows are committed had none and has all now.
LEMMA CommitQueueKeepsWhole ==
    ASSUME DayInv, WholeInv, NEW s \in Scripts, CommitQueue(s)
    PROVE  WholeInv'
<1> DEFINE m == job[s].master
<1>1. /\ m \in Masters /\ Inserted(s) = ItemsOf(m)
      /\ \A i \in Items :
            \/ row'[i] = row[i] /\ i \notin ItemsOf(m)
            \/ /\ i \in ItemsOf(m) /\ row[i].master = NoMaster
               /\ row'[i].master = m /\ row'[i].status = "QUEUED"
  <2>1. /\ Inserted(s) = ItemsOf(m) /\ m \in Masters
        /\ \A i \in Items :
              \/ row'[i] = row[i] /\ i \notin Inserted(s)
              \/ /\ i \in Inserted(s) /\ row[i] = NoRow
                 /\ \E n \in {job[s].last + Position(s, i)} : row'[i] = QueuedRow(m, n)
    BY CommitQueueRows
  <2>2. \A n : QueuedRow(m, n).status = "QUEUED" /\ QueuedRow(m, n).master = m
    BY DEF QueuedRow
  <2>3. NoRow.master = NoMaster
    BY DEF NoRow
  <2> HIDE DEF m
  <2> QED BY <2>1, <2>2, <2>3
<1>2. /\ job[s].step = "insert" /\ UNCHANGED <<decision, windows, archived>>
      /\ job'[s] = Idle /\ Idle.step = "idle"
      /\ \A t \in Scripts : t # s => job'[t] = job[t]
  BY DEF CommitQueue, Goto, Idle, DayInv, PreparationInv, PreparationTypes
<1>3. QueuedFor(m) = {}
  BY <1>2 DEF WholeInv, Building
<1>4. ItemsOf(m) \subseteq Items
  <2>1. decision[m] # "NONE"
    BY CommitQueueRows
  <2> QED BY <1>1, <2>1, SentWindows DEF ItemsOf, DayInv, PreparationInv
<1> HIDE DEF m
<1>5. \A p \in Masters : p # m => QueuedFor(p)' = QueuedFor(p)
  BY <1>1, <1>2, NobodyAssumption DEF QueuedFor
<1>6. \A p \in Masters : p = m => QueuedFor(p)' = ItemsOf(p)
  <2> SUFFICES ASSUME NEW p \in Masters, p = m
               PROVE  QueuedFor(p)' = ItemsOf(p)
    OBVIOUS
  <2>1. {a \in archived' : a.master = p} = {}
    BY <1>2, <1>3 DEF QueuedFor
  <2>2. \A i \in Items : row[i].master # p
    BY <1>3 DEF QueuedFor
  <2>3. {i \in Items : row'[i].master = p} = ItemsOf(p)
    BY <1>1, <1>4, <2>2
  <2> QED BY <2>1, <2>3 DEF QueuedFor
<1>7. \A p : ItemsOf(p)' = ItemsOf(p)
  BY <1>2 DEF ItemsOf
<1>8. \A p \in Masters : QueuedFor(p)' \in {{}, ItemsOf(p)'}
  <2> SUFFICES ASSUME NEW p \in Masters PROVE QueuedFor(p)' \in {{}, ItemsOf(p)'}
    OBVIOUS
  <2>1. CASE p = m
    BY <1>6, <1>7, <2>1
  <2>2. CASE p # m
    BY <1>5, <1>7, <2>2 DEF WholeInv
  <2> QED BY <2>1, <2>2
<1>9. \A t \in Scripts : job'[t].step \in Building =>
        t # s /\ job'[t] = job[t] /\ job[t].master \in Masters /\ job[t].master # m
  <2> SUFFICES ASSUME NEW t \in Scripts, job'[t].step \in Building
               PROVE  t # s /\ job'[t] = job[t] /\ job[t].master \in Masters
                      /\ job[t].master # m
    OBVIOUS
  <2>1. t # s /\ job'[t] = job[t]
    BY <1>2 DEF Building
  <2>2. job[t] \in JobStates
    BY DEF DayInv, PreparationInv, PreparationTypes
  <2>3. job[t].master \in Masters
    BY <2>1, <2>2 DEF JobStates, Idle, Building
  <2> QED BY <1>2, <2>1, <2>3 DEF WholeInv, Building, m
<1>10. \A t \in Scripts : job'[t].step \in Building => QueuedFor(job[t].master)' = {}
  BY <1>5, <1>9 DEF WholeInv
<1>11. \A i \in Items : row'[i].status = "NONE" => row'[i].master = NoMaster
  BY <1>1 DEF WholeInv
<1> QED BY <1>2, <1>8, <1>9, <1>10, <1>11 DEF WholeInv, Approved

\* All rows of a held window are queued still, and move together.
LEMMA RelinkKeepsWhole ==
    ASSUME DayInv, WholeInv, NEW s \in Scripts, Relink(s)
    PROVE  WholeInv'
<1> DEFINE m == job[s].master
           p == job[s].prepared
<1>1. /\ m \in Masters /\ p \in Masters /\ decision[p] = "HELD"
      /\ windows[m].items = windows[p].items
      /\ \A i \in Items :
            \/ /\ row'[i] = row[i]
               /\ ~(row[i].status = "QUEUED" /\ row[i].master = p)
            \/ /\ row[i].status = "QUEUED" /\ row[i].master = p
               /\ row'[i].status = "QUEUED" /\ row'[i].master = m
  <2>1. /\ m \in Masters /\ p \in Masters /\ decision[p] = "HELD"
        /\ windows[m].items = windows[p].items
        /\ \A i \in Items :
              \/ /\ row'[i] = row[i]
                 /\ ~(row[i].status = "QUEUED" /\ row[i].master = p)
              \/ /\ row[i].status = "QUEUED" /\ row[i].master = p
                 /\ row'[i] = [row[i] EXCEPT !.master = m]
    BY RelinkRows
  <2>2. \A i \in Items : row[i] \in Row
    BY DEF DayInv, RaceInv, RaceTypes
  <2> HIDE DEF m, p
  <2>3. \A i \in Items : /\ [row[i] EXCEPT !.master = m].status = row[i].status
                         /\ [row[i] EXCEPT !.master = m].master = m
    BY <2>2 DEF Row
  <2> QED BY <2>1, <2>3
<1>2. /\ job[s].step = "relink" /\ UNCHANGED <<decision, windows, archived>>
      /\ job'[s] = Idle /\ Idle.step = "idle"
      /\ \A t \in Scripts : t # s => job'[t] = job[t]
  BY DEF Relink, Goto, Idle, DayInv, PreparationInv, PreparationTypes
<1>3. QueuedFor(m) = {}
  BY <1>2 DEF WholeInv, Building
<1>4. \A t \in Scripts : job'[t].step \in Building =>
        t # s /\ job'[t] = job[t] /\ job[t].master \in Masters /\ job[t].master # m
  <2> SUFFICES ASSUME NEW t \in Scripts, job'[t].step \in Building
               PROVE  t # s /\ job'[t] = job[t] /\ job[t].master \in Masters
                      /\ job[t].master # m
    OBVIOUS
  <2>1. t # s /\ job'[t] = job[t]
    BY <1>2 DEF Building
  <2>2. job[t] \in JobStates
    BY DEF DayInv, PreparationInv, PreparationTypes
  <2>3. job[t].master \in Masters
    BY <2>1, <2>2 DEF JobStates, Idle, Building
  <2> QED BY <1>2, <2>1, <2>3 DEF WholeInv, Building
<1> HIDE DEF m, p
<1>5. /\ \A i \in Items : row[i].master # m
      /\ \A a \in archived : a.master # m /\ a.master # p
  <2>1. \A i \in Items : row[i].master # m
    BY <1>3 DEF QueuedFor
  <2>2. \A a \in archived : a.master # m
    BY <1>3 DEF QueuedFor
  <2>3. \A a \in archived : a.master # p
    BY <1>1 DEF WholeInv, Approved
  <2> QED BY <2>1, <2>2, <2>3
<1>6. \A i \in Items : row[i].master = p => row[i].status = "QUEUED"
  BY <1>1, NobodyAssumption DEF DayInv, RaceInv, RowsHaveWindows, WholeInv, Approved
<1>7. \A x \in Masters : x # m /\ x # p => QueuedFor(x)' = QueuedFor(x)
  BY <1>1, <1>2 DEF QueuedFor
<1>8. \A x \in Masters : x = p /\ x # m => QueuedFor(x)' = {}
  <2> SUFFICES ASSUME NEW x \in Masters, x = p, x # m PROVE QueuedFor(x)' = {}
    OBVIOUS
  <2>1. \A i \in Items : row'[i].master # x
    BY <1>1, <1>6
  <2>2. \A a \in archived' : a.master # x
    BY <1>2, <1>5
  <2> QED BY <2>1, <2>2 DEF QueuedFor
<1>9. \A x \in Masters : x = m => QueuedFor(x)' \in {{}, ItemsOf(x)}
  <2> SUFFICES ASSUME NEW x \in Masters, x = m PROVE QueuedFor(x)' \in {{}, ItemsOf(x)}
    OBVIOUS
  <2>1. \A a \in archived' : a.master # x
    BY <1>2, <1>5
  <2>2. {i \in Items : row'[i].master = x} = {i \in Items : row[i].master = p}
    BY <1>1, <1>5, <1>6
  <2>3. QueuedFor(x)' = {i \in Items : row'[i].master = x}
    BY <2>1 DEF QueuedFor
  <2>4. QueuedFor(p) = {i \in Items : row[i].master = p}
    BY <1>5 DEF QueuedFor
  <2>5. ItemsOf(p) = ItemsOf(m)
    BY <1>1 DEF ItemsOf
  <2> QED BY <1>1, <2>2, <2>3, <2>4, <2>5 DEF WholeInv
<1>10. \A x : ItemsOf(x)' = ItemsOf(x)
  BY <1>2 DEF ItemsOf
<1>11. \A x \in Masters : QueuedFor(x)' \in {{}, ItemsOf(x)'}
  <2> SUFFICES ASSUME NEW x \in Masters PROVE QueuedFor(x)' \in {{}, ItemsOf(x)'}
    OBVIOUS
  <2>1. CASE x = m
    BY <1>9, <1>10, <2>1
  <2>2. CASE x # m /\ x = p
    BY <1>8, <2>2
  <2>3. CASE x # m /\ x # p
    BY <1>7, <1>10, <2>3 DEF WholeInv
  <2> QED BY <2>1, <2>2, <2>3
<1>12. \A t \in Scripts : job'[t].step \in Building => QueuedFor(job[t].master)' = {}
  <2> SUFFICES ASSUME NEW t \in Scripts, job'[t].step \in Building
               PROVE  QueuedFor(job[t].master)' = {}
    OBVIOUS
  <2>1. /\ job'[t] = job[t] /\ job[t].master \in Masters /\ job[t].master # m
        /\ QueuedFor(job[t].master) = {}
    BY <1>4 DEF WholeInv
  <2>2. CASE job[t].master = p
    BY <1>8, <2>1, <2>2
  <2>3. CASE job[t].master # p
    BY <1>7, <2>1, <2>3
  <2> QED BY <2>2, <2>3
<1>13. \A i \in Items : row'[i].status = "NONE" => row'[i].master = NoMaster
  BY <1>1 DEF WholeInv
<1> QED BY <1>2, <1>4, <1>11, <1>12, <1>13 DEF WholeInv, Approved

\* What leaves the table is in the history, with its window.
LEMMA ArchiveKeepsWhole == DayInv /\ WholeInv /\ Archive => WholeInv'
<1> SUFFICES ASSUME DayInv, WholeInv, Archive PROVE WholeInv'
  OBVIOUS
<1> DEFINE done == {i \in Items : row[i].status \in Finished}
<1>1. \A i \in Items :
        IF i \in done THEN row'[i].master = NoMaster /\ row'[i].status = "NONE"
                      ELSE row'[i] = row[i]
  BY ArchiveRows DEF NoRow
<1>2. /\ UNCHANGED <<decision, windows, job>>
      /\ archived' = archived \cup {[product |-> i, master |-> row[i].master,
                                     status |-> row[i].status] : i \in done}
  BY DEF Archive
<1>3. \A i \in done : row[i].master \in Approved
  BY DEF DayInv, RaceInv, RowsHaveWindows, Finished
<1>4. \A a \in archived' : a.master \in Approved'
  BY <1>2, <1>3 DEF WholeInv, Approved
<1>5. \A x : x # NoMaster => QueuedFor(x)' = QueuedFor(x)
  <2> SUFFICES ASSUME NEW x, x # NoMaster PROVE QueuedFor(x)' = QueuedFor(x)
    OBVIOUS
  <2>1. {i \in Items : row'[i].master = x} = {i \in Items \ done : row[i].master = x}
    BY <1>1
  <2>2. {a.product : a \in {b \in archived' : b.master = x}}
            = {a.product : a \in {b \in archived : b.master = x}}
              \cup {i \in done : row[i].master = x}
    <3> DEFINE entry(i) == [product |-> i, master |-> row[i].master,
                            status |-> row[i].status]
    <3>1. \A i : entry(i).product = i /\ entry(i).master = row[i].master
      OBVIOUS
    <3>2. \A a : a \in archived' <=> a \in archived \/ \E i \in done : a = entry(i)
      BY <1>2
    <3> HIDE DEF entry, done
    <3>3. ASSUME NEW y
          PROVE  (\E a \in archived' : a.master = x /\ a.product = y)
                 <=> \/ \E a \in archived : a.master = x /\ a.product = y
                     \/ y \in done /\ row[y].master = x
      BY <3>1, <3>2
    <3> QED BY <3>3
  <2> QED BY <2>1, <2>2 DEF QueuedFor
<1>6. \A x \in Masters : QueuedFor(x)' \in {{}, ItemsOf(x)'}
  <2>1. \A x : ItemsOf(x)' = ItemsOf(x)
    BY <1>2 DEF ItemsOf
  <2> QED BY <1>5, <2>1, NobodyAssumption DEF WholeInv
<1>7. \A t \in Scripts : job'[t].step \in Building => QueuedFor(job[t].master)' = {}
  <2> SUFFICES ASSUME NEW t \in Scripts, job[t].step \in Building
               PROVE  QueuedFor(job[t].master)' = {}
    BY <1>2
  <2>1. job[t] \in JobStates
    BY DEF DayInv, PreparationInv, PreparationTypes
  <2>2. job[t].master \in Masters
    BY <2>1 DEF JobStates, Idle, Building
  <2>3. job'[t].master = job[t].master /\ job[t].master # NoMaster
    BY <1>2, <2>2, NobodyAssumption
  <2> QED BY <1>5, <2>3 DEF WholeInv
<1>8. \A i \in Items : row'[i].status = "NONE" => row'[i].master = NoMaster
  BY <1>1 DEF WholeInv
<1> QED BY <1>2, <1>4, <1>6, <1>7, <1>8 DEF WholeInv

\* Releases give no row to another window.
LEMMA ReleaseKeepsWhole ==
    ASSUME DayInv, WholeInv, Release, UNCHANGED preparing
    PROVE  WholeInv'
<1>1. /\ UNCHANGED <<decision, windows, job, archived>>
      /\ \A i \in Items : /\ row'[i].master = row[i].master
                          /\ row'[i].status = "NONE" => row[i].status = "NONE"
  BY ReleaseKeepsMasters DEF DayInv, preparing
<1>2. \A x : QueuedFor(x)' = QueuedFor(x) /\ ItemsOf(x)' = ItemsOf(x)
  BY <1>1 DEF QueuedFor, ItemsOf
<1> QED BY <1>1, <1>2 DEF WholeInv, Approved

\* Every step keeps windows whole.
LEMMA DayKeepsWhole == DayInv /\ WholeInv /\ [Day]_allVars => WholeInv'
<1> SUFFICES ASSUME DayInv, WholeInv, [Day]_allVars PROVE WholeInv'
  OBVIOUS
<1>1. CASE Release /\ UNCHANGED preparing
  BY <1>1, ReleaseKeepsWhole
<1>2. ASSUME NEW s \in Scripts,
             \/ \E k \in Keys : StartWindow(s, k) \/ StartDaily(s, k) \/ LookForActive(s, k)
             \/ ReadCandidates(s) \/ LockPrepared(s) \/ Fail(s) \/ FailQueue(s)
             \/ ReadLast(s) \/ Insert(s)
      PROVE  WholeInv'
  BY <1>2, QuietJobs, QuietKeepsWhole
<1>3. CASE \E s \in Scripts, m \in Masters : Send(s, m)
  BY <1>3, SendKeepsWhole
<1>4. ASSUME NEW s \in Scripts, CommitQueue(s) PROVE WholeInv'
  BY <1>4, CommitQueueKeepsWhole
<1>5. ASSUME NEW s \in Scripts, Relink(s) PROVE WholeInv'
  BY <1>5, RelinkKeepsWhole
<1>6. ASSUME NEW m \in Masters, NEW answer \in {"APPROVED", "HELD", "EXPIRED"},
             Decide(m, answer)
      PROVE  WholeInv'
  <2>1. /\ UNCHANGED <<row, windows, archived, job>>
        /\ \A p \in Masters : decision[p] = "APPROVED" => decision'[p] = "APPROVED"
    BY <1>6 DEF Decide, releasing, preparing, DayInv, RaceInv, RaceTypes
  <2> QED BY <2>1, QuietKeepsWhole
<1>7. CASE Archive
  BY <1>7, ArchiveKeepsWhole
<1>8. CASE UNCHANGED allVars
  <2>1. UNCHANGED <<row, decision, windows, archived, job>>
    BY <1>8 DEF allVars, vars, preparing
  <2> QED BY <2>1, QuietKeepsWhole
<1> QED BY <1>1, <1>2, <1>3, <1>4, <1>5, <1>6, <1>7, <1>8 DEF Day, Prepare

\* Windows are whole, and built by one script, at any time.
LEMMA WholeInvariant == DaySpec => []WholeInv
<1>1. EmptyDay => WholeInv
  <2> SUFFICES ASSUME EmptyDay PROVE WholeInv
    OBVIOUS
  <2>1. /\ \A i \in Items : row[i].status = "NONE" /\ row[i].master = NoMaster
        /\ archived = {}
        /\ \A s \in Scripts : job[s].step = "idle"
    BY DEF EmptyDay, NoRow, Idle
  <2>2. \A m \in Masters : QueuedFor(m) = {}
    BY <2>1, NobodyAssumption DEF QueuedFor
  <2> QED BY <2>1, <2>2 DEF WholeInv, Building
<1> QED BY <1>1, DayKeepsWhole, DayInvariant, PTL DEF DaySpec

\* Every message is queued whole or not at all: for any number of products,
\* windows and scripts that overlap, fail, are killed, archive or move rows.
THEOREM WindowsAreWhole == DaySpec => []WindowIsWhole
<1>1. DayInv /\ WholeInv => WindowIsWhole
  <2> SUFFICES ASSUME DayInv, WholeInv, NEW m \in Masters, QueuedFor(m) # {}
               PROVE  windows[m] # NoWindow /\ QueuedFor(m) = ItemsOf(m)
    BY DEF WindowIsWhole
  <2>1. QueuedFor(m) = ItemsOf(m)
    BY DEF WholeInv
  <2>2. decision[m] # "NONE"
    <3>1. CASE \E i \in Items : row[i].master = m
      BY <3>1, NobodyAssumption DEF DayInv, PreparationInv, RowsAreOfItems, WholeInv
    <3>2. CASE \E a \in archived : a.master = m
      BY <3>2 DEF WholeInv, Approved
    <3> QED BY <3>1, <3>2 DEF QueuedFor
  <2>3. windows[m] \in Window
    BY <2>2 DEF DayInv, PreparationInv, PreparationTypes
  <2>4. windows[m].source \in Sources /\ NoWindow.source = "none"
    BY <2>3 DEF Window, NoWindow
  <2> QED BY <2>1, <2>4 DEF Sources
<1> QED BY <1>1, DayInvariant, WholeInvariant, PTL

-----------------------------------------------------------------------------
(* Approved windows keep their rows                                        *)

\* What the scripts do to a row: finish with it, or leave it alone, if it is of
\* an approved window.
LEMMA PrepareRows ==
    ASSUME DayInv, WholeInv, Prepare,
           NEW i \in Items, row[i].master \in Approved
    PROVE  row'[i] = row[i] \/ row'[i] = NoRow
<1>1. ASSUME NEW s \in Scripts,
             \/ \E k \in Keys : StartWindow(s, k) \/ StartDaily(s, k) \/ LookForActive(s, k)
             \/ ReadCandidates(s) \/ LockPrepared(s) \/ Fail(s) \/ FailQueue(s)
             \/ ReadLast(s) \/ Insert(s)
      PROVE  row'[i] = row[i]
  BY <1>1, QuietJobs
<1>2. ASSUME \/ \E s \in Scripts, m \in Masters : Send(s, m)
             \/ \E m \in Masters, answer \in {"APPROVED", "HELD", "EXPIRED"} :
                    Decide(m, answer)
      PROVE  row'[i] = row[i]
  BY <1>2 DEF Send, Decide, releasing
<1>3. ASSUME NEW s \in Scripts, CommitQueue(s) PROVE row'[i] = row[i]
  <2>1. row[i] = NoRow => row[i].master \notin Approved
    BY NobodyAssumption DEF NoRow, Approved
  <2> QED BY <1>3, <2>1, CommitQueueRows
<1>4. ASSUME NEW s \in Scripts, Relink(s) PROVE row'[i] = row[i]
  <2>1. row[i].master = job[s].prepared => row[i].master \notin Approved
    BY <1>4, RelinkRows DEF Approved
  <2> QED BY <1>4, <2>1, RelinkRows
<1>5. ASSUME Archive PROVE row'[i] = row[i] \/ row'[i] = NoRow
  BY <1>5, ArchiveRows
<1> QED BY <1>1, <1>2, <1>3, <1>4, <1>5 DEF Prepare

\* The rows of an approved window stay its own until they are archived,
\* whichever requests for held windows overlap with its answer.
THEOREM ApprovedWindowsKeepRows == DaySpec => ApprovedKeepsRows
<1>1. DayInv /\ WholeInv /\ [Day]_allVars =>
        [\A i \in Items : row[i].master \in Approved =>
            row'[i].master \in {row[i].master, NoMaster}]_allVars
  <2> SUFFICES ASSUME DayInv, WholeInv, Day, NEW i \in Items, row[i].master \in Approved
               PROVE  row'[i].master \in {row[i].master, NoMaster}
    OBVIOUS
  <2>1. CASE Prepare
    BY <2>1, PrepareRows DEF NoRow
  <2>2. CASE Release
    BY <2>2, ReleaseKeepsMasters DEF DayInv
  <2> QED BY <2>1, <2>2 DEF Day
<1> QED BY <1>1, DayInvariant, WholeInvariant, PTL DEF DaySpec, ApprovedKeepsRows

-----------------------------------------------------------------------------
(* The pause                                                               *)

Active == {r \in Releasers : task[r].step # "idle"}

\* The tasks that are still running after a pause are those that may release.
GraceInv ==
    /\ grace \in Int
    /\ paused \in BOOLEAN
    /\ paused => Cardinality(Active) <= grace
    /\ ~paused => grace = 0

\* There are as many active tasks as a natural number counts, and one fewer
\* when one of them ends.
LEMMA ActiveAreCounted ==
    /\ Cardinality(Active) \in Nat
    /\ \A r \in Active : Cardinality(Active \ {r}) = Cardinality(Active) - 1
<1>1. IsFiniteSet(Active)
  <2>1. Active \subseteq Releasers
    BY DEF Active
  <2> QED BY <2>1, ReleasersAssumption, FS_Subset
<1> QED BY <1>1, FS_CardinalityType, FS_RemoveElement

\* A task that ends is no longer active.
LEMMA EndLeavesActive ==
    ASSUME RaceTypes, NEW r \in Releasers, EndTransaction(r)
    PROVE  Active' = Active \ {r}
<1>1. task' = [task EXCEPT ![r] = Idle] /\ task \in [Releasers -> TaskStates]
  BY DEF EndTransaction, RaceTypes
<1>2. Idle.step = "idle"
  BY DEF Idle
<1> QED BY <1>1, <1>2 DEF Active

\* A task that looks on is active afterwards only if it was.
LEMMA LooksKeepActive ==
    ASSUME RaceTypes, NEW r \in Releasers,
           \/ CheckReleased(r) \/ StartScan(r) \/ LockItem(r) \/ LockMaster(r)
           \/ Leave(r)
    PROVE  r \in Active /\ (Active' = Active \/ Active' = Active \ {r})
<1>1. r \in Active
  BY DEF Active, CheckReleased, StartScan, LockItem, LockMaster, Leave
<1>2. CASE Leave(r)
  BY <1>1, <1>2, EndLeavesActive DEF Leave
<1>3. CASE CheckReleased(r) \/ StartScan(r) \/ LockItem(r) \/ LockMaster(r)
  <2>1. \E state : task' = [task EXCEPT ![r] = state] /\ state.step # "idle"
    <3>1. CASE CheckReleased(r) \/ StartScan(r)
      BY <3>1 DEF CheckReleased, StartScan
    <3>2. CASE LockItem(r)
      <4>1. task[r] \in [step : {"scan"}, rows : SUBSET Scanned]
        BY <3>2, PickedIsItem DEF LockItem
      <4>2. \A rest : [task[r] EXCEPT !.rows = rest].step = "scan"
        BY <4>1
      <4>3. PICK x, rest :
              \/ task' = [task EXCEPT ![r] = [step |-> "join", rows |-> rest,
                                             item |-> x.item, master |-> x.master]]
              \/ task' = [task EXCEPT ![r] = [task[r] EXCEPT !.rows = rest]]
        BY <3>2 DEF LockItem
      <4>4. [step |-> "join", rows |-> rest, item |-> x.item, master |-> x.master].step
              = "join"
        OBVIOUS
      <4> QED BY <4>2, <4>3, <4>4
    <3>3. CASE LockMaster(r)
      BY <3>3 DEF LockMaster, Picked
    <3> QED BY <1>3, <3>1, <3>2, <3>3
  <2> QED BY <1>1, <2>1 DEF Active, RaceTypes
<1> QED BY <1>1, <1>2, <1>3

\* After a pause no task begins, and a release ends its task.
LEMMA ReleaseKeepsGrace ==
    ASSUME RaceTypes, GraceInv, Release
    PROVE  GraceInv'
<1>1. ASSUME NEW r \in Releasers, ReadPause(r) PROVE GraceInv'
  BY <1>1 DEF ReadPause, GraceInv
<1>2. ASSUME NEW r \in Releasers,
             \/ CheckReleased(r) \/ StartScan(r) \/ LockItem(r) \/ LockMaster(r)
             \/ Leave(r)
      PROVE  GraceInv'
  <2>1. UNCHANGED <<paused, grace>>
    BY <1>2 DEF CheckReleased, StartScan, LockItem, LockMaster, Leave
  <2>2. r \in Active /\ (Active' = Active \/ Active' = Active \ {r})
    BY <1>2, LooksKeepActive
  <2>3. Cardinality(Active') <= Cardinality(Active) /\ Cardinality(Active) \in Nat
    BY <2>2, ActiveAreCounted
  <2>4. Cardinality(Active') \in Int
    BY <2>2, ActiveAreCounted
  <2>5. Cardinality(Active)' = Cardinality(Active')
    OBVIOUS
  <2> QED BY <2>1, <2>3, <2>4, <2>5 DEF GraceInv
<1>3. ASSUME NEW r \in Releasers, CommitRelease(r) PROVE GraceInv'
  <2>1. /\ UNCHANGED paused
        /\ grace' = IF paused THEN grace - 1 ELSE grace
        /\ r \in Active
    BY <1>3 DEF CommitRelease, Active
  <2>2. Active' = Active \ {r}
    BY <1>3, EndLeavesActive DEF CommitRelease
  <2>3. Cardinality(Active') = Cardinality(Active) - 1 /\ Cardinality(Active) \in Nat
    BY <2>1, <2>2, ActiveAreCounted
  <2>4. Cardinality(Active)' = Cardinality(Active')
    OBVIOUS
  <2> QED BY <2>1, <2>3, <2>4 DEF GraceInv
<1>4. ASSUME NEW value \in BOOLEAN, SetPaused(value) PROVE GraceInv'
  <2>1. /\ paused' = value
        /\ grace' = IF value THEN Cardinality(Active) ELSE 0
        /\ Active' = Active
    BY <1>4 DEF SetPaused, Active
  <2>2. Cardinality(Active)' = Cardinality(Active)
    BY <2>1
  <2> QED BY <2>1, <2>2, ActiveAreCounted DEF GraceInv
<1>5. ASSUME NEW i \in Items, LockForRecord(i) \/ EndRecord(i) PROVE GraceInv'
  <2>1. UNCHANGED <<task, paused, grace>>
    BY <1>5 DEF LockForRecord, EndRecord
  <2> QED BY <2>1 DEF GraceInv, Active
<1> QED BY <1>1, <1>2, <1>3, <1>4, <1>5 DEF Release

\* Scripts neither begin tasks nor end them.
LEMMA DayKeepsGrace == RaceTypes /\ GraceInv /\ [Day]_allVars => GraceInv'
<1>1. ASSUME UNCHANGED <<task, paused, grace>>, GraceInv PROVE GraceInv'
  BY <1>1 DEF GraceInv, Active
<1>2. Prepare => UNCHANGED <<task, paused, grace>>
  BY DEF Prepare, StartWindow, StartDaily, LookForActive, Send, ReadCandidates,
         ReadLast, Insert, CommitQueue, FailQueue, Fail, LockPrepared, Relink,
         Decide, Archive, releasing
<1>3. UNCHANGED allVars => UNCHANGED <<task, paused, grace>>
  BY DEF allVars, vars
<1> QED BY <1>1, <1>2, <1>3, ReleaseKeepsGrace DEF Day

\* A pause stops the following releases: whatever the scripts prepare, and
\* however many tasks overlap, after the tap only tasks that had read the flag
\* before it release an item, and each of them one.
THEOREM PauseStopsReleases == DaySpec => []PauseStopsFollowing
<1>1. EmptyDay => GraceInv
  <2> SUFFICES ASSUME EmptyDay PROVE GraceInv
    OBVIOUS
  <2>1. paused = FALSE /\ grace = 0
    BY DEF EmptyDay
  <2>2. 0 \in Int
    OBVIOUS
  <2> QED BY <2>1, <2>2, Zenon DEF GraceInv
<1>2. GraceInv => PauseStopsFollowing
  BY ActiveAreCounted DEF GraceInv, PauseStopsFollowing
<1>3. DayInv => RaceTypes
  BY DEF DayInv, RaceInv
<1> QED BY <1>1, <1>2, <1>3, DayKeepsGrace, DayInvariant, PTL DEF DaySpec
=============================================================================
