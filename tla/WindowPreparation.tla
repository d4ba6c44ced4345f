------------------------- MODULE WindowPreparation -------------------------
(***************************************************************************)
(* The scripts that fill the queue of a day, statement by statement, while *)
(* release tasks empty it.                                                 *)
(*                                                                         *)
(* prepare_toss_draft_window and prepare_daily_toss_publish_queue look     *)
(* whether the day is prepared, collect and build drafts for minutes, send *)
(* the request for an approval, and only then queue the items.             *)
(* request_toss_draft_window_approval asks again for a window that was     *)
(* held.  Each is a process; between its transactions, and between the     *)
(* statements of one, the others run.                                      *)
(*                                                                         *)
(* The schema has UNIQUE (schedule_date, product_id), so that `row' stays  *)
(* keyed by the product, and no constraint that tells the numbers of two   *)
(* windows apart.  An INSERT also takes a key-share lock of its master     *)
(* row, for which an answer and a new request have to wait.  Release tasks *)
(* never meet it: they lock masters with committed rows, and the rows of a *)
(* window are committed at once.                                           *)
(***************************************************************************)
EXTENDS ReleaseRace

CONSTANTS
    Scripts,   \* running scripts
    Keys       \* --window-key: the times of a day

VARIABLES
    windows,   \* source, key and summary of every master
    sent,      \* the masters in the order of created_at
    job,       \* the step of each script, and what it holds in its memory
    archived   \* scheduled_toss_queue_history

preparing == <<windows, sent, job, archived>>
releasing == <<row, itemLock, masterLock, task, paused, grace>>
allVars == <<vars, preparing>>

Summaries(S) ==
    {items \in UNION {[1..n -> S] : n \in 1..MaxSequence} :
        \A a, b \in DOMAIN items : items[a] = items[b] => a = b}

NoWindow == [source |-> "none"]

ItemsOf(m) == {windows[m].items[a] : a \in DOMAIN windows[m].items}
SentBy(source, k) ==
    {a \in DOMAIN sent : windows[sent[a]].source = source
                         /\ windows[sent[a]].key = k}
IsNewest(a, S) == a \in S /\ \A b \in S : b <= a

-----------------------------------------------------------------------------
(* Preparing                                                               *)

Goto(s, state) == job' = [job EXCEPT ![s] = state]

\* _already_prepared_today of a window: a batch of its source, whatever became
\* of it.  The test queue of prepare_today_toss_publish_test is a window, too.
StartWindow(s, k) ==
    /\ job[s].step = "idle"
    /\ SentBy("prepare", k) = {}
    /\ Goto(s, [step |-> "collect", source |-> "prepare", key |-> k])
    /\ UNCHANGED <<releasing, decision, windows, sent, archived>>

\* _already_prepared_today of the daily queue: any row of the day.
StartDaily(s, k) ==
    /\ job[s].step = "idle"
    /\ \A i \in Items : row[i] = NoRow
    /\ Goto(s, [step |-> "collect", source |-> "daily", key |-> k])
    /\ UNCHANGED <<releasing, decision, windows, sent, archived>>

\* Not queued that day, and neither published nor unknown, by the SELECT or by
\* build_admin_toss_draft.
Eligible == {i \in Items : /\ row[i] = NoRow
                           /\ \A a \in archived :
                                a.product = i => a.status # "PUBLISHED"}

\* _candidate_ids; which of them are ranked first and yield a draft is left
\* open.  Without any the script ends, see Fail.
ReadCandidates(s) ==
    /\ job[s].step = "collect"
    /\ \E items \in Summaries(Eligible) :
        Goto(s, [step |-> "send", source |-> job[s].source, key |-> job[s].key,
                 items |-> items, prepared |-> NoMaster])
    /\ UNCHANGED <<releasing, decision, windows, sent, archived>>

\* send_publication_approval: INSERT of the batch and the message.  The rows
\* come later, by an UPDATE of those of the held window, or by INSERTs.
Send(s, m) ==
    /\ job[s].step = "send"
    /\ decision[m] = "NONE"
    /\ decision' = [decision EXCEPT ![m] = "PENDING"]
    /\ windows' = [windows EXCEPT ![m] =
            [source |-> job[s].source, key |-> job[s].key, items |-> job[s].items]]
    /\ sent' = Append(sent, m)
    /\ Goto(s, IF job[s].prepared = NoMaster
               THEN [step |-> "queue", master |-> m]
               ELSE [step |-> "relink", master |-> m, prepared |-> job[s].prepared])
    /\ UNCHANGED <<releasing, archived>>

\* Rows of this window are inserted and not committed: the INSERT has taken a
\* key-share lock of the batch.
HoldsKey(s, m) ==
    job[s].step = "insert" /\ job[s].master = m /\ job[s].done > 0

\* The tap on the message, or its expiry: SELECT ... FOR UPDATE of the batch.
Decide(m, answer) ==
    /\ decision[m] = "PENDING"
    /\ ~\E s \in Scripts : HoldsKey(s, m)
    /\ decision' = [decision EXCEPT ![m] = answer]
    /\ UNCHANGED <<releasing, preparing>>

-----------------------------------------------------------------------------
(* create_scheduled_toss_publish_items, one transaction                    *)

\* SELECT COALESCE(MAX(sequence_no), 0): what is committed now.
ReadLast(s) ==
    /\ job[s].step = "queue"
    /\ \E last \in 0..MaxSequence :
        /\ \A i \in Items : row[i].number <= last
        /\ last = 0 \/ \E i \in Items : row[i].number = last
        /\ Goto(s, [step |-> "insert", master |-> job[s].master,
                    last |-> last, done |-> 0])
    /\ UNCHANGED <<releasing, decision, windows, sent, archived>>

\* The rows that a transaction has inserted, and the item it inserts next.
Inserted(s) == {windows[job[s].master].items[a] : a \in 1..job[s].done}
AllInserted(s) == job[s].done = Len(windows[job[s].master].items)
NextItem(s) == windows[job[s].master].items[job[s].done + 1]
Inserting(s) == job[s].step = "insert" /\ ~AllInserted(s)

\* CHECK (sequence_no BETWEEN 1 AND 10).
NumberFits(s) == job[s].last + job[s].done < MaxSequence

\* An INSERT waits for the transaction that has inserted its unique key.
WaitsFor(s, t) ==
    /\ Inserting(s) /\ NumberFits(s)
    /\ s # t /\ job[t].step = "insert" /\ NextItem(s) \in Inserted(t)

Position(s, i) ==
    CHOOSE a \in DOMAIN windows[job[s].master].items :
        windows[job[s].master].items[a] = i

WithInserted(s) ==
    [i \in Items |-> IF i \in Inserted(s)
                     THEN QueuedRow(job[s].master, job[s].last + Position(s, i))
                     ELSE row[i]]

Insert(s) ==
    /\ Inserting(s) /\ NumberFits(s)
    /\ ~\E t \in Scripts : WaitsFor(s, t)
    /\ row[NextItem(s)] = NoRow
    /\ Goto(s, [job[s] EXCEPT !.done = @ + 1])
    /\ UNCHANGED <<releasing, decision, windows, sent, archived>>

CommitQueue(s) ==
    /\ job[s].step = "insert" /\ AllInserted(s)
    /\ row' = WithInserted(s)
    /\ Goto(s, Idle)
    /\ UNCHANGED <<itemLock, masterLock, task, paused, grace,
                   decision, windows, sent, archived>>

KeepInserted(s) ==
    /\ row' = WithInserted(s)
    /\ Goto(s, Idle)

\* An exception leaves _connect(): ROLLBACK of all the rows, end of the script.
AbortQueue(s) ==
    /\ row' = row
    /\ Goto(s, Idle)

\* A number is too large, the product has a row by now, the deadlock detection
\* chose this one of two scripts that wait for each other, or it is killed.
FailQueue(s) ==
    /\ job[s].step = "insert"
    /\ AbortQueue(s)
    /\ UNCHANGED <<itemLock, masterLock, task, paused, grace,
                   decision, windows, sent, archived>>

\* Any failure before: the collection, the drafts, Telegram, the database.
Fail(s) ==
    /\ job[s].step \notin {"idle", "insert"}
    /\ Goto(s, Idle)
    /\ UNCHANGED <<releasing, decision, windows, sent, archived>>

-----------------------------------------------------------------------------
(* request_toss_draft_window_approval                                      *)

\* The newest request of the window is not active.
LookForActive(s, k) ==
    /\ job[s].step = "idle"
    /\ \A a \in DOMAIN sent : IsNewest(a, SentBy("request", k)) =>
            decision[sent[a]] \notin {"PENDING", "APPROVED"}
    /\ Goto(s, [step |-> "lock", key |-> k])
    /\ UNCHANGED <<releasing, decision, windows, sent, archived>>

AnyPrepared(k) == SentBy("prepare", k)

\* The windows of the key that were held.
HeldPrepared(k) == {a \in SentBy("prepare", k) : decision[sent[a]] = "HELD"}

QueuedUnder(m) == {i \in Queued : row[i].master = m}

\* SELECT ... FOR UPDATE of the prepared window and the count of its rows, and
\* the end of the first transaction.  The FOR UPDATE waits for the script that
\* is still inserting rows of this window.
LockPrepared(s) ==
    /\ job[s].step = "lock"
    /\ \E a \in DOMAIN sent :
        LET p == sent[a]
            queued == Cardinality(QueuedUnder(p))
        IN /\ IsNewest(a, HeldPrepared(job[s].key))
           /\ ~\E t \in Scripts : HoldsKey(t, p)
           /\ queued \in {0, Len(windows[p].items)}
           /\ Goto(s, [step |-> "send", source |-> "request", key |-> job[s].key,
                       items |-> windows[p].items,
                       prepared |-> IF queued = 0 THEN NoMaster ELSE p])
    /\ UNCHANGED <<releasing, decision, windows, sent, archived>>

\* UPDATE ... SET master_batch_id WHERE master_batch_id = prepared AND QUEUED.
\* The count of the rows is compared after the COMMIT and ends the script.
Relink(s) ==
    /\ job[s].step = "relink"
    /\ Free(QueuedUnder(job[s].prepared))
    /\ row' = [i \in Items |-> IF i \in QueuedUnder(job[s].prepared)
                               THEN [row[i] EXCEPT !.master = job[s].master]
                               ELSE row[i]]
    /\ Goto(s, Idle)
    /\ UNCHANGED <<itemLock, masterLock, task, paused, grace,
                   decision, windows, sent, archived>>

-----------------------------------------------------------------------------
\* archive_today_terminal_toss_queue: finished rows move to the history.  The
\* DELETE waits for a release task that has locked one on its way.
Archive ==
    LET done == {i \in Items : row[i].status \in Finished}
    IN  /\ done # {} /\ Free(done)
        /\ archived' = archived \cup {[product |-> i, master |-> row[i].master,
                                       status |-> row[i].status] : i \in done}
        /\ row' = [i \in Items |-> IF i \in done THEN NoRow ELSE row[i]]
        /\ UNCHANGED <<itemLock, masterLock, task, paused, grace,
                       decision, windows, sent, job>>

EmptyDay ==
    /\ row = [i \in Items |-> NoRow]
    /\ decision = [m \in Masters |-> "NONE"]
    /\ itemLock = [i \in Items |-> Nobody]
    /\ masterLock = [m \in Masters |-> Nobody]
    /\ task = [r \in Releasers |-> Idle]
    /\ paused = FALSE
    /\ grace = 0
    /\ windows = [m \in Masters |-> NoWindow]
    /\ sent = <<>>
    /\ job = [s \in Scripts |-> Idle]
    /\ archived = {}

Prepare ==
    \/ \E s \in Scripts, k \in Keys :
        StartWindow(s, k) \/ StartDaily(s, k) \/ LookForActive(s, k)
    \/ \E s \in Scripts, m \in Masters : Send(s, m)
    \/ \E s \in Scripts :
        \/ ReadCandidates(s) \/ ReadLast(s) \/ Insert(s) \/ CommitQueue(s)
        \/ FailQueue(s) \/ Fail(s) \/ LockPrepared(s) \/ Relink(s)
    \/ \E m \in Masters, answer \in {"APPROVED", "HELD", "EXPIRED"} :
        Decide(m, answer)
    \/ Archive

Day == Prepare \/ (Release /\ UNCHANGED preparing)

DaySpec == EmptyDay /\ [][Day]_allVars

-----------------------------------------------------------------------------
(* Properties                                                              *)

\* The window whose approval a row of the queue was, or is, waiting for.
QueuedFor(m) == {i \in Items : row[i].master = m}
                \cup {a.product : a \in {x \in archived : x.master = m}}

\* A message of n items queues all n of them or none: never a part, whichever
\* script was refused a number or a product, lost a deadlock or was killed,
\* and whatever moved on to a later request or to the history.
WindowIsWhole ==
    \A m \in Masters :
        QueuedFor(m) # {} => windows[m] # NoWindow /\ QueuedFor(m) = ItemsOf(m)

\* What is released was in the message of a window that was approved, also when
\* its rows had been queued for a window that was held.
ReleasedWasApproved ==
    \A i \in Items : row[i].status \in {"RELEASED"} \cup Finished =>
        row[i].master \in Approved /\ i \in ItemsOf(row[i].master)

\* The rows of an approved window stay its own until they are archived: no
\* later request, prepared from an older picture of the window, takes them.
ApprovedKeepsRows ==
    [][\A i \in Items : row[i].master \in Approved =>
            row'[i].master \in {row[i].master, NoMaster}]_allVars
=============================================================================
