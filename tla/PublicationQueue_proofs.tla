---------------------- MODULE PublicationQueue_proofs ----------------------
(***************************************************************************)
(* Theorems about the scheduled queue of PublicationStore, its releases    *)
(* and its history, and what they say of the approval batches.             *)
(***************************************************************************)
EXTENDS PublicationStore_proofs

-----------------------------------------------------------------------------
(* What the steps do to batches                                            *)

\* No step takes an approval back, or makes a batch one for other products.
BatchKept(b) ==
    /\ batches'[b].source = batches[b].source
    /\ batches'[b].summary = batches[b].summary
    /\ batches[b].status = "APPROVED" => batches'[b].status = "APPROVED"

\* A batch that exists stays as it is to the queue.
BatchesKept ==
    \A b \in Batches : Exists(b) =>
        BatchKept(b) /\ batches'[b].publish = batches[b].publish

\* An approval that was not given has no attempt.
OnlyApprovedStart ==
    \A b \in Batches :
        batches[b].status # "APPROVED" => batches[b].publish = "NOT_STARTED"

\* Scripts and answers insert batches and set their decisions.
LEMMA ApprovalKeepsBatches ==
    ASSUME TypeOK, OnlyApprovedStart, Approval
    PROVE  /\ BatchesKept /\ OnlyApprovedStart'
           /\ \A b \in Batches : ~Exists(b) => batches'[b].source # "release"
                                               \/ batches'[b] = batches[b]
<1> USE DEF TypeOK, BatchesKept, BatchKept, OnlyApprovedStart, Exists
<1>1. CASE \E b \in Batches, source \in Requested, items \in SUBSET Products :
              RequestApproval(b, source, items)
  BY <1>1, RequestedAssumption DEF RequestApproval, NewBatch
<1>2. CASE \E b \in Batches, decision \in Decisions : Resolve(b, decision)
  BY <1>2 DEF Resolve
<1>3. CASE HoldPreflights
  BY <1>3 DEF HoldPreflights, PendingPreflights
<1> QED BY <1>1, <1>2, <1>3 DEF Approval

\* The queue's transactions insert approved batches and set no outcome.
LEMMA QueueingKeepsBatches ==
    ASSUME TypeOK, OnlyApprovedStart, Queueing
    PROVE  BatchesKept /\ OnlyApprovedStart'
<1> USE DEF TypeOK, BatchesKept, BatchKept, OnlyApprovedStart, Exists
<1>1. CASE \E m \in Batches, d \in Days, last \in 0..MaxSequence :
              \E place \in Placements(batches[m].summary) :
                  CreateQueue(m, d, last, place)
  BY <1>1 DEF CreateQueue
<1>2. CASE \E m \in Batches, d \in Days, last \in 0..MaxSequence :
              CreateQueueRejected(m, d, last)
  BY <1>2 DEF CreateQueueRejected
<1>3. CASE \E held, m \in Batches, d \in Days : Relink(held, m, d)
  BY <1>3 DEF Relink
<1>4. CASE \E d \in Days, p \in Products, b \in Batches : ReleaseNext(d, p, b)
  BY <1>4 DEF ReleaseNext, NewBatch
<1>5. CASE \E d \in Days : Archive(d)
  BY <1>5 DEF Archive
<1>6. CASE \E d \in Days : SkipStale(d)
  BY <1>6 DEF SkipStale
<1> QED BY <1>1, <1>2, <1>3, <1>4, <1>5, <1>6 DEF Queueing

\* The steps that set the outcome of one approved batch b, and with it the
\* status of its row.
Settles(b, from, to) ==
    /\ b \in Batches
    /\ batches[b].status = "APPROVED"
    /\ batches' = [batches EXCEPT ![b].publish = to]
    /\ queue' = MoveRow(b, from, to)
    /\ history' = history

\* A begin or the success of a preflight: an outcome, and no row.
Starts(b, to) ==
    /\ b \in Batches
    /\ batches[b].status = "APPROVED"
    /\ batches[b].publish \notin InFlight
    /\ BatchKept(b)
    /\ batches'[b].publish = to
    /\ \A c \in Batches : c # b => batches'[c] = batches[c]
    /\ UNCHANGED <<queue, history>>
    /\ to = "PREFLIGHT_PASSED" => batches[b].source = "preflight"

\* Claims change nothing that the queue looks at.
LEMMA ClaimsKeepBatches ==
    ASSUME TypeOK, OnlyApprovedStart,
           \E b \in Batches : Claim(b) \/ ReleaseClaim(b)
    PROVE  BatchesKept /\ OnlyApprovedStart' /\ UNCHANGED <<queue, history>>
<1> PICK b \in Batches : Claim(b) \/ ReleaseClaim(b)
  OBVIOUS
<1>1. PICK claimed \in BOOLEAN :
        /\ batches' = [batches EXCEPT ![b].claimed = claimed]
        /\ UNCHANGED <<queue, history>>
  BY DEF Claim, ReleaseClaim
<1> QED BY <1>1 DEF TypeOK, Batch, BatchesKept, BatchKept, OnlyApprovedStart

\* All requests of the extension and corrections by hand, as the queue sees
\* them.
LEMMA RequestsSettleOrStart ==
    ASSUME TypeOK, OnlyApprovedStart, BeginsAreApproved, Publishing \/ Correcting
    PROVE  \/ BatchesKept /\ OnlyApprovedStart' /\ UNCHANGED <<queue, history>>
           \/ \E b \in Batches, to \in {"PUBLISHING", "PREFLIGHT_PASSED"} : Starts(b, to)
           \/ \E b \in Batches, to \in Outcomes :
                /\ Settles(b, "RELEASED", to)
                /\ \/ batches[b].publish = "PUBLISHING"
                   \/ batches[b].publish = "NOT_STARTED" /\ to = "FAILED_PRE_SUBMIT"
           \/ \E b \in Batches :
                /\ Settles(b, "PUBLISH_UNKNOWN", "PUBLISHED")
                /\ batches[b].publish = "PUBLISH_UNKNOWN"
<1>1. CASE \E b \in Batches : Claim(b) \/ ReleaseClaim(b)
  BY <1>1, ClaimsKeepBatches
<1>2. CASE Beginning
  <2>1. CASE Locking
    BY <2>1 DEF Locking, FindNoPost, BeginLost, BatchesKept, BatchKept, OnlyApprovedStart
  <2>2. CASE \E b \in Batches, p \in Products : Begin(b, p) \/ BeginUnlocked(b, p)
    <3> PICK b \in Batches, p \in Products : Begin(b, p) \/ BeginUnlocked(b, p)
      BY <2>2
    <3>1. /\ batches[b].status = "APPROVED" /\ batches[b].publish \notin InFlight
          /\ MarkPublishing(b, p)
      BY DEF Begin, MayBegin, BeginUnlocked, BeginsAreApproved, Live
    <3>2. Starts(b, "PUBLISHING")
      BY <3>1 DEF TypeOK, MarkPublishing, Starts, BatchKept
    <3> QED BY <3>2
  <2> QED BY <1>2, <2>1, <2>2 DEF Beginning, Locking
<1>3. CASE \E b \in Batches : PreFailure(b)
  <2> PICK b \in Batches : PreFailure(b)
    BY <1>3
  <2>1. Settles(b, "RELEASED", "FAILED_PRE_SUBMIT")
    BY DEF PreFailure, MayPreFail, Settles
  <2> QED BY <2>1 DEF PreFailure, MayPreFail, Outcomes
<1>4. CASE \E b \in Batches : PreflightSuccess(b)
  <2> PICK b \in Batches : PreflightSuccess(b)
    BY <1>4
  <2>1. Starts(b, "PREFLIGHT_PASSED")
    BY DEF TypeOK, PreflightSuccess, MayPassPreflight, Starts, BatchKept, InFlight
  <2> QED BY <2>1
<1>5. CASE \E b \in Batches, p \in Products, t \in 1..MaxAttempts,
              outcome \in Outcomes : Result(b, p, t, outcome)
  <2> PICK b \in Batches, p \in Products, t \in 1..MaxAttempts,
           outcome \in Outcomes : Result(b, p, t, outcome)
    BY <1>5
  <2>1. batches[b].publish = "PUBLISHING" /\ batches[b].status = "APPROVED"
    BY DEF Result, Awaits, OnlyApprovedStart
  <2>2. Settles(b, "RELEASED", outcome)
    BY <2>1 DEF Result, Settles
  <2> QED BY <2>1, <2>2
<1>6. CASE \E b \in Batches, p \in Products : ReconcileConfirmed(b, p)
  <2> PICK b \in Batches, p \in Products : ReconcileConfirmed(b, p)
    BY <1>6
  <2>1. batches[b].publish = "PUBLISH_UNKNOWN" /\ batches[b].status = "APPROVED"
    BY DEF ReconcileConfirmed, IsNewest, OnlyApprovedStart
  <2>2. Settles(b, "PUBLISH_UNKNOWN", "PUBLISHED")
    BY <2>1 DEF ReconcileConfirmed, Settles
  <2> QED BY <2>1, <2>2
<1>7. CASE \E p \in Products, status \in RecordedStatuses : RecordPost(p, status)
  BY <1>7 DEF RecordPost, BatchesKept, BatchKept, OnlyApprovedStart
<1> QED BY <1>1, <1>2, <1>3, <1>4, <1>5, <1>6, <1>7 DEF Publishing, Correcting

\* Only approvals are ever started.
LEMMA StartKept ==
    TypeOK /\ OnlyApprovedStart /\ BeginsAreApproved /\ [Next]_vars
        => OnlyApprovedStart'
<1> SUFFICES ASSUME TypeOK, OnlyApprovedStart, BeginsAreApproved, [Next]_vars
             PROVE  OnlyApprovedStart'
  OBVIOUS
<1>1. CASE Approval \/ Queueing
  BY <1>1, ApprovalKeepsBatches, QueueingKeepsBatches
<1>2. CASE Publishing \/ Correcting
  <2>1. ASSUME NEW b \in Batches, NEW to, Starts(b, to) PROVE OnlyApprovedStart'
    BY <2>1 DEF Starts, BatchKept, OnlyApprovedStart
  <2>2. ASSUME NEW b \in Batches, NEW from, NEW to, Settles(b, from, to)
        PROVE  OnlyApprovedStart'
    BY <2>2 DEF Settles, OnlyApprovedStart, TypeOK
  <2> QED BY <1>2, <2>1, <2>2, RequestsSettleOrStart
<1>3. CASE NextDay \/ UNCHANGED vars
  BY <1>3 DEF NextDay, vars, OnlyApprovedStart
<1> QED BY <1>1, <1>2, <1>3 DEF Next

\* Tables of the right types in which only approvals are started.
TablesInv == TypeOK /\ OnlyApprovedStart /\ BeginsAreApproved

\* That holds at any time.
LEMMA TablesInvariant == Spec => []TablesInv
<1>1. Init => OnlyApprovedStart
  BY DEF Init, OnlyApprovedStart, NoBatchRow, NewBatch
<1>2. LockInv /\ OnlyApprovedStart /\ [Next]_vars => OnlyApprovedStart'
  BY StartKept DEF LockInv
<1>3. LockInv /\ OnlyApprovedStart => TablesInv
  BY DEF LockInv, TablesInv
<1> QED BY <1>1, <1>2, <1>3, LockInvariant, PTL DEF Spec

-----------------------------------------------------------------------------
(* Outcomes and posts                                                      *)

\* A published batch stays published, and an unknown one is only settled as
\* published, whatever is requested, answered, begun or repeated later.
THEOREM OutcomesAreFinal == Spec => OutcomeIsFinal
<1>1. TablesInv /\ [Next]_vars =>
        [\A b \in Batches :
            /\ batches[b].publish = "PUBLISHED" => batches'[b].publish = "PUBLISHED"
            /\ batches[b].publish = "PUBLISH_UNKNOWN" =>
                  batches'[b].publish \in {"PUBLISH_UNKNOWN", "PUBLISHED"}]_vars
  <2> SUFFICES ASSUME TypeOK, OnlyApprovedStart, BeginsAreApproved, Next, NEW b \in Batches,
                      batches[b].publish \in {"PUBLISHED", "PUBLISH_UNKNOWN"}
               PROVE  \/ batches'[b].publish = batches[b].publish
                      \/ batches'[b].publish = "PUBLISHED"
    BY DEF TablesInv
  <2>1. Exists(b)
    BY DEF OnlyApprovedStart, Exists
  <2>2. CASE BatchesKept
    BY <2>1, <2>2 DEF BatchesKept
  <2>3. ASSUME NEW c \in Batches, NEW to, Starts(c, to)
        PROVE  batches'[b].publish = batches[b].publish
    BY <2>3 DEF Starts, InFlight
  <2>4. ASSUME NEW c \in Batches, NEW to \in Outcomes, Settles(c, "RELEASED", to),
               batches[c].publish \in {"PUBLISHING", "NOT_STARTED"}
        PROVE  batches'[b].publish = batches[b].publish
    BY <2>4 DEF Settles, TypeOK
  <2>5. ASSUME NEW c \in Batches, Settles(c, "PUBLISH_UNKNOWN", "PUBLISHED")
        PROVE  batches'[b].publish \in {batches[b].publish, "PUBLISHED"}
    BY <2>5 DEF Settles, TypeOK
  <2>6. CASE Publishing \/ Correcting
    BY <2>2, <2>3, <2>4, <2>5, <2>6, RequestsSettleOrStart
  <2>7. CASE Approval \/ Queueing
    BY <2>2, <2>7, ApprovalKeepsBatches, QueueingKeepsBatches
  <2>8. CASE NextDay
    BY <2>8 DEF NextDay
  <2> QED BY <2>6, <2>7, <2>8 DEF Next
<1> QED BY <1>1, TablesInvariant, PTL DEF Spec, OutcomeIsFinal

\* A post that was recorded as published stays so, whatever upsert_post
\* records and however begins overlap, unless an attempt that was under way
\* reports that it failed before the click, or a statement replaces it unseen.
THEOREM PublishedPostsAreKept == Spec => PublishedIsKept
<1>1. LockInv /\ [Next]_vars =>
        [\A p \in Products :
            posts[p] = "PUBLISHED" /\ posts'[p] # "PUBLISHED" =>
                \/ p \in overwritten'
                \/ \E b \in Batches :
                    /\ batches[b].publish = "PUBLISHING"
                    /\ batches[b].summary = {p}
                    /\ batches'[b].publish = "FAILED_PRE_SUBMIT"]_vars
  <2> SUFFICES ASSUME LockInv, Next, NEW p \in Products,
                      posts[p] = "PUBLISHED", posts'[p] # "PUBLISHED",
                      p \notin overwritten'
               PROVE  \E b \in Batches :
                        /\ batches[b].publish = "PUBLISHING"
                        /\ batches[b].summary = {p}
                        /\ batches'[b].publish = "FAILED_PRE_SUBMIT"
    OBVIOUS
  <2>0. TypeOK
    BY DEF LockInv
  <2>1. posts' # posts
    OBVIOUS
  <2>2. Publishing \/ Correcting
    BY <2>1 DEF Next, Approval, RequestApproval, Resolve, HoldPreflights, Queueing,
                CreateQueue, CreateQueueRejected, Relink, ReleaseNext, Archive,
                SkipStale, NextDay
  <2>3. ~Beginning
    <3>1. ASSUME NEW b \in Batches, NEW q \in Products, TakesLock(b, q) PROVE FALSE
      BY <2>0, <3>1 DEF TakesLock, Blocking, TypeOK
    <3>2. ~\E b \in Batches, q \in Products : Begin(b, q) \/ BeginUnlocked(b, q)
      BY <3>1, BeginTakesLock
    <3> QED BY <2>1, <3>2 DEF Beginning, FindNoPost, BeginLost
  <2>4. ~Correcting
    <3>1. ASSUME NEW q \in Products, NEW status, RecordPost(q, status) PROVE FALSE
      BY <2>0, <3>1 DEF RecordPost, Replaces, Blocking, TypeOK
    <3>2. ~\E b \in Batches, q \in Products : ReconcileConfirmed(b, q)
      BY <2>0 DEF ReconcileConfirmed, TypeOK
    <3> QED BY <3>1, <3>2 DEF Correcting
  <2>5. PICK b \in Batches, q \in Products, t \in 1..MaxAttempts, outcome \in Outcomes :
          Result(b, q, t, outcome)
    BY <2>1, <2>2, <2>3, <2>4 DEF Publishing, Claim, ReleaseClaim, PreFailure, PreflightSuccess
  <2>6. p = q /\ outcome = "FAILED_PRE_SUBMIT"
    BY <2>0, <2>5 DEF Result, PostAfter, TypeOK, Outcomes
  <2>7. batches'[b].publish = outcome
    BY <2>0, <2>5 DEF Result, TypeOK
  <2> QED BY <2>5, <2>6, <2>7 DEF Result, Awaits
<1> QED BY <1>1, LockInvariant, PTL DEF Spec, PublishedIsKept

-----------------------------------------------------------------------------
(* The queue, its history and the batches tell one story                   *)

Releasing ==
    \E d \in Days, p \in Products, b \in Batches : ReleaseNext(d, p, b)

\* What a release makes of one row of a day.
ReleasesRow(day, p, b) ==
    /\ queue[day][p].status = "QUEUED"
    /\ queue'[day][p].status = "RELEASED" /\ queue'[day][p].release = b
    /\ queue'[day][p].master = queue[day][p].master
    /\ \A d \in Days, q \in Products :
            d # day \/ q # p => queue'[d][q] = queue[d][q]

\* A release takes one row of its day on.
LEMMA ReleasedRow ==
    ASSUME TypeOK, NEW day \in Days, NEW p \in Products, NEW b \in Batches,
           ReleaseNext(day, p, b)
    PROVE  ReleasesRow(day, p, b)
<1>1. queue[day][p] \in Row
  BY DEF TypeOK
<1>2. queue' = [queue EXCEPT ![day] = [queue[day] EXCEPT ![p] =
            [queue[day][p] EXCEPT !.status = "RELEASED", !.release = b]]]
  BY <1>1 DEF TypeOK, ReleaseNext
<1>3. queue'[day][p] = [queue[day][p] EXCEPT !.status = "RELEASED", !.release = b]
  BY <1>1, <1>2 DEF TypeOK
<1>4. /\ queue'[day][p].status = "RELEASED" /\ queue'[day][p].release = b
      /\ queue'[day][p].master = queue[day][p].master
  BY <1>1, <1>3 DEF Row
<1>5. \A d \in Days, q \in Products : d # day \/ q # p => queue'[d][q] = queue[d][q]
  BY <1>2 DEF TypeOK
<1> QED BY <1>4, <1>5 DEF ReleaseNext, Releasable, ReleasesRow

Unreleased == {"NONE", "QUEUED", "SKIPPED"}

\* What a row of product p, queued or archived, says of its batches in a table:
\* a released one has a batch of its own that is no further than the row, made
\* from a master that was approved.
Agrees(table, p, row) ==
    /\ row.status \in Unreleased <=> row.release = NoBatch
    /\ row.status # "NONE" => row.master \in Batches
    /\ row.release # NoBatch =>
        /\ row.release \in Batches
        /\ table[row.release].status = "APPROVED"
        /\ table[row.release].source = "release"
        /\ table[row.release].summary = {p}
        /\ table[row.master].status = "APPROVED"
    /\ row.status = "RELEASED" =>
        table[row.release].publish \in {"NOT_STARTED", "PUBLISHING"}
    /\ row.status = "PUBLISHED" => table[row.release].publish = "PUBLISHED"
    /\ row.status = "PUBLISH_UNKNOWN" =>
        table[row.release].publish \in {"PUBLISH_UNKNOWN", "PUBLISHED"}
    /\ row.status = "FAILED_PRE_SUBMIT" => table[row.release].publish # "NOT_STARTED"

RowsAgree ==
    \A d \in Days, p \in Products :
        /\ Agrees(batches, p, queue[d][p])
        /\ queue[d][p].status = "PUBLISH_UNKNOWN" =>
            batches[queue[d][p].release].publish = "PUBLISH_UNKNOWN"

HistoryAgrees ==
    \A h \in history : Agrees(batches, h.product, h.row) /\ h.row.status \in Terminal

\* Batch b was made from one row, which is in the queue or was archived.
InQueue(b) ==
    /\ \E d \in Days, p \in Products :
        /\ queue[d][p].release = b
        /\ \A e \in Days, q \in Products : queue[e][q].release = b => e = d /\ q = p
    /\ \A h \in history : h.row.release # b

InHistory(b) ==
    /\ \A d \in Days, p \in Products : queue[d][p].release # b
    /\ \E h \in history : h.row.release = b /\ \A g \in history : g.row.release = b => g = h

TracesAreUnique ==
    \A b \in Batches : batches[b].source = "release" => InQueue(b) \/ InHistory(b)

UnstartedAreReleased ==
    \A b \in Batches :
        batches[b].source = "release" /\ batches[b].publish = "NOT_STARTED" =>
            \E d \in Days, p \in Products :
                queue[d][p].release = b /\ queue[d][p].status = "RELEASED"

AgreementInv == RowsAgree /\ HistoryAgrees /\ TracesAreUnique /\ UnstartedAreReleased

\* What CreateQueue, Relink and SkipStale make of rows: none that was released
\* is touched and none is released.
RowsPrepared ==
    \A d \in Days, p \in Products :
        \/ queue'[d][p] = queue[d][p]
        \/ /\ queue[d][p].status \in {"NONE", "QUEUED"}
           /\ queue'[d][p].status \in {"QUEUED", "SKIPPED"}
           /\ queue'[d][p].release \in {NoBatch, queue[d][p].release}
           /\ \/ queue'[d][p].master \in Batches
              \/ queue[d][p].status = "QUEUED" /\ queue'[d][p].master = queue[d][p].master

\* Every step is one of six kinds for the agreement of the tables.
LEMMA StepKinds ==
    ASSUME TablesInv, [Next]_vars
    PROVE  \/ BatchesKept /\ UNCHANGED <<queue, history>>
           \/ BatchesKept /\ RowsPrepared /\ history' = history
           \/ BatchesKept /\ \E d \in Days : Archive(d)
           \/ BatchesKept /\ Releasing
           \/ \E b \in Batches, to \in {"PUBLISHING", "PREFLIGHT_PASSED"} : Starts(b, to)
           \/ \E b \in Batches, to \in Outcomes :
                /\ Settles(b, "RELEASED", to)
                /\ \/ batches[b].publish = "PUBLISHING"
                   \/ batches[b].publish = "NOT_STARTED" /\ to = "FAILED_PRE_SUBMIT"
           \/ \E b \in Batches :
                /\ Settles(b, "PUBLISH_UNKNOWN", "PUBLISHED")
                /\ batches[b].publish = "PUBLISH_UNKNOWN"
<1> USE DEF TablesInv
<1>0. \A d \in Days, p \in Products : queue[d][p] \in Row
  BY DEF TypeOK
<1>1. CASE Approval
  <2>1. UNCHANGED <<queue, history>>
    BY <1>1 DEF Approval, RequestApproval, Resolve, HoldPreflights
  <2> QED BY <1>1, <2>1, ApprovalKeepsBatches
<1>2. CASE Queueing
  <2>0. BatchesKept
    BY <1>2, QueueingKeepsBatches
  <2>1. CASE \E m \in Batches, d \in Days, last \in 0..MaxSequence :
                \E place \in Placements(batches[m].summary) :
                    CreateQueue(m, d, last, place)
    <3>1. PICK m \in Batches, d \in Days, last \in 0..MaxSequence :
                \E place \in Placements(batches[m].summary) :
                    CreateQueue(m, d, last, place)
      BY <2>1
    <3>2. RowsPrepared /\ history' = history
      BY <3>1 DEF CreateQueue, Fits, RowsPrepared, TypeOK
    <3> QED BY <2>0, <3>2
  <2>2. CASE \E held, m \in Batches, d \in Days : Relink(held, m, d)
    <3>1. RowsPrepared /\ history' = history
      BY <1>0, <2>2 DEF Relink, RowsOf, RowsPrepared, TypeOK, Row
    <3> QED BY <2>0, <3>1
  <2>3. CASE \E d \in Days : SkipStale(d)
    <3>1. RowsPrepared /\ history' = history
      BY <1>0, <2>3 DEF SkipStale, RowsPrepared, TypeOK, Row
    <3> QED BY <2>0, <3>1
  <2>4. CASE Releasing \/ \E d \in Days : Archive(d)
    BY <2>0, <2>4
  <2>5. CASE \E m \in Batches, d \in Days, last \in 0..MaxSequence :
                CreateQueueRejected(m, d, last)
    BY <2>0, <2>5 DEF CreateQueueRejected
  <2> QED BY <1>2, <2>1, <2>2, <2>3, <2>4, <2>5 DEF Queueing, Releasing
<1>3. CASE Publishing \/ Correcting
  BY <1>3, RequestsSettleOrStart
<1>4. CASE NextDay \/ UNCHANGED vars
  BY <1>4 DEF NextDay, vars, BatchesKept, BatchKept
<1> QED BY <1>1, <1>2, <1>3, <1>4 DEF Next

\* Only ReleaseNext inserts batches of source "release".
LEMMA OnlyReleasesInsert ==
    ASSUME TablesInv, [Next]_vars, ~Releasing, NEW b \in Batches,
           batches'[b].source = "release"
    PROVE  batches[b].source = "release"
<1> USE DEF TablesInv
<1>1. CASE Approval
  BY <1>1, ApprovalKeepsBatches DEF BatchesKept, BatchKept
<1>2. CASE Queueing
  <2>1. \/ batches' = batches
        \/ \E m \in Batches : batches' = [batches EXCEPT ![m].queued = TRUE]
    BY <1>2 DEF Queueing, CreateQueue, CreateQueueRejected, Relink, Archive, SkipStale,
       Releasing
  <2>2. ASSUME NEW m \in Batches, batches' = [batches EXCEPT ![m].queued = TRUE]
        PROVE  batches[b].source = "release"
    BY <2>2 DEF TypeOK, Batch
  <2> QED BY <2>1, <2>2
<1>3. CASE Publishing \/ Correcting
  <2>1. \/ batches' = batches
        \/ \E value : \E c \in Batches : batches' = [batches EXCEPT ![c].claimed = value]
        \/ \E value : \E c \in Batches : batches' = [batches EXCEPT ![c].publish = value]
        \/ \E c \in Batches, p \in Products : MarkPublishing(c, p)
    BY <1>3 DEF Publishing, Beginning, Begin, FindNoPost, BeginUnlocked, BeginLost, Claim, ReleaseClaim, PreFailure, PreflightSuccess, Result,
       Correcting, ReconcileConfirmed, RecordPost
  <2>2. CASE \E c \in Batches, p \in Products : MarkPublishing(c, p)
    BY <2>2 DEF MarkPublishing, TypeOK
  <2>3. ASSUME NEW c \in Batches, NEW value, batches' = [batches EXCEPT ![c].claimed = value]
        PROVE  batches[b].source = "release"
    BY <2>3 DEF TypeOK, Batch
  <2>4. ASSUME NEW c \in Batches, NEW value, batches' = [batches EXCEPT ![c].publish = value]
        PROVE  batches[b].source = "release"
    BY <2>4 DEF TypeOK, Batch
  <2> QED BY <2>1, <2>2, <2>3, <2>4
<1>4. CASE NextDay \/ UNCHANGED vars
  BY <1>4 DEF NextDay, vars
<1> QED BY <1>1, <1>2, <1>3, <1>4 DEF Next

\* An unchanged row agrees as long as its batches do not lose what it says.
LEMMA AgreementCarries ==
    ASSUME NEW old, NEW new, NEW p, NEW row \in Row, Agrees(old, p, row),
           \A c \in Batches : old[c].status = "APPROVED" =>
                /\ new[c].status = "APPROVED"
                /\ new[c].source = old[c].source
                /\ new[c].summary = old[c].summary,
           row.release # NoBatch => new[row.release].publish = old[row.release].publish
    PROVE  Agrees(new, p, row)
<1>1. row.release # NoBatch => row.master \in Batches /\ row.release \in Batches
  BY DEF Agrees, Unreleased
<1>2. row.status \notin Unreleased => row.release # NoBatch
  BY DEF Agrees
<1>3. row.status \in {"RELEASED", "PUBLISHED", "PUBLISH_UNKNOWN", "FAILED_PRE_SUBMIT"} =>
        new[row.release].publish = old[row.release].publish
  BY <1>2 DEF Unreleased
<1> QED BY <1>1, <1>3 DEF Agrees

\* Batches that are kept keep the agreement of every row.
LEMMA KeptBatchesAgree ==
    ASSUME BatchesKept, NEW p, NEW row \in Row, Agrees(batches, p, row)
    PROVE  Agrees(batches', p, row)
<1>1. \A c \in Batches : batches[c].status = "APPROVED" =>
        /\ batches'[c].status = "APPROVED"
        /\ batches'[c].source = batches[c].source
        /\ batches'[c].summary = batches[c].summary
        /\ batches'[c].publish = batches[c].publish
  BY DEF BatchesKept, BatchKept, Exists
<1>2. row.release # NoBatch =>
        row.release \in Batches /\ batches[row.release].status = "APPROVED"
  BY DEF Agrees
<1> QED BY <1>1, <1>2, AgreementCarries

\* So do the outcomes and the beginnings of other batches.
LEMMA OtherBatchesAgree ==
    ASSUME TypeOK, NEW b \in Batches,
           \/ \E from, to : Settles(b, from, to)
           \/ \E to : Starts(b, to),
           NEW p, NEW row \in Row, row.release # b, Agrees(batches, p, row)
    PROVE  Agrees(batches', p, row)
<1>1. \A c \in Batches :
        /\ batches[c].status = "APPROVED" => batches'[c].status = "APPROVED"
        /\ batches'[c].source = batches[c].source
        /\ batches'[c].summary = batches[c].summary
        /\ c # b => batches'[c].publish = batches[c].publish
  <2>1. CASE \E from, to : Settles(b, from, to)
    BY <2>1 DEF Settles, TypeOK, Batch
  <2>2. CASE \E to : Starts(b, to)
    BY <2>2 DEF Starts, BatchKept
  <2> QED BY <2>1, <2>2
<1>2. row.release # NoBatch => row.release \in Batches
  BY DEF Agrees
<1> QED BY <1>1, <1>2, AgreementCarries

\* A begun attempt agrees with its row, which is released or failed before.
LEMMA StartedAgrees ==
    ASSUME TypeOK, NEW b \in Batches, NEW to \in {"PUBLISHING", "PREFLIGHT_PASSED"},
           Starts(b, to), NEW p, NEW row \in Row, Agrees(batches, p, row)
    PROVE  Agrees(batches', p, row)
<1>1. CASE row.release # b
  BY <1>1, OtherBatchesAgree
<1>2. CASE row.release = b
  <2>1. /\ row.release # NoBatch /\ to = "PUBLISHING"
        /\ row.status \notin {"PUBLISHED", "PUBLISH_UNKNOWN"}
    BY <1>2, BatchesAssumption DEF Starts, Agrees, InFlight
  <2>2. batches'[b].publish = "PUBLISHING"
    BY <2>1 DEF Starts
  <2>3. row.master \in Batches /\ batches'[row.master].status = "APPROVED"
    BY <2>1 DEF Agrees, Starts, BatchKept, Unreleased
  <2>4. /\ batches'[b].source = "release" /\ batches'[b].summary = {p}
        /\ batches'[b].status = "APPROVED"
    BY <1>2, <2>1 DEF Agrees, Starts, BatchKept
  <2> QED BY <1>2, <2>1, <2>2, <2>3, <2>4 DEF Agrees
<1> QED BY <1>1, <1>2

\* An outcome agrees with a row that says no more than it.
LEMMA SettledAgrees ==
    ASSUME TypeOK, NEW b \in Batches, NEW from, NEW to \in Outcomes, Settles(b, from, to),
           NEW p, NEW row \in Row, row.release = b, Agrees(batches, p, row),
           NEW new \in Row, new.release = b, new.master = row.master,
           \/ new.status \in {"FAILED_PRE_SUBMIT", to}
           \/ new.status = "PUBLISH_UNKNOWN" /\ to = "PUBLISHED"
    PROVE  Agrees(batches', p, new)
<1>1. /\ row.release # NoBatch
      /\ row.status \notin Unreleased
  BY BatchesAssumption DEF Agrees
<1>2. batches'[b] = [batches[b] EXCEPT !.publish = to]
  BY DEF Settles, TypeOK
<1>3. /\ batches'[b].publish = to /\ batches'[b].source = "release"
      /\ batches'[b].summary = {p} /\ batches'[b].status = "APPROVED"
  BY <1>1, <1>2 DEF Agrees, TypeOK, Batch
<1>4. row.master \in Batches /\ batches'[row.master].status = "APPROVED"
  BY <1>1 DEF Agrees, Settles, TypeOK, Unreleased
<1> QED BY <1>1, <1>3, <1>4 DEF Agrees, Unreleased, Outcomes

\* The row of a batch that settles agreed with what the batch was before.
LEMMA SettlingRow ==
    ASSUME NEW b \in Batches, NEW p, NEW row \in Row, row.release = b,
           Agrees(batches, p, row)
    PROVE  /\ row.status \in {"RELEASED", "PUBLISHED", "PUBLISH_UNKNOWN", "FAILED_PRE_SUBMIT"}
           /\ batches[b].publish \in {"PUBLISHING", "NOT_STARTED"} =>
                row.status \in {"RELEASED", "FAILED_PRE_SUBMIT"}
           /\ batches[b].publish = "PUBLISH_UNKNOWN" =>
                row.status \in {"PUBLISH_UNKNOWN", "FAILED_PRE_SUBMIT"}
  BY BatchesAssumption DEF Agrees, Row, RowStates, Unreleased

\* Outcomes keep queue and history in agreement with the batches.
LEMMA SettlesKeepsAgreement ==
    ASSUME TypeOK, RowsAgree, HistoryAgrees, NEW b \in Batches,
           NEW from \in {"RELEASED", "PUBLISH_UNKNOWN"}, NEW to \in Outcomes,
           Settles(b, from, to),
           \/ /\ from = "RELEASED"
              /\ \/ batches[b].publish = "PUBLISHING"
                 \/ batches[b].publish = "NOT_STARTED" /\ to = "FAILED_PRE_SUBMIT"
           \/ /\ from = "PUBLISH_UNKNOWN" /\ to = "PUBLISHED"
              /\ batches[b].publish = "PUBLISH_UNKNOWN"
    PROVE  RowsAgree' /\ HistoryAgrees'
<1>0. batches'[b].publish = to /\ \A c \in Batches : c # b => batches'[c] = batches[c]
  BY DEF Settles, TypeOK, Batch
<1>1. ASSUME NEW d \in Days, NEW p \in Products
      PROVE  /\ Agrees(batches', p, queue'[d][p])
             /\ queue'[d][p].status = "PUBLISH_UNKNOWN" =>
                 batches'[queue'[d][p].release].publish = "PUBLISH_UNKNOWN"
  <2>0. /\ queue[d][p] \in Row /\ Agrees(batches, p, queue[d][p])
        /\ queue[d][p].status = "PUBLISH_UNKNOWN" =>
            /\ batches[queue[d][p].release].publish = "PUBLISH_UNKNOWN"
            /\ queue[d][p].release \in Batches
    BY DEF TypeOK, RowsAgree, Agrees, Unreleased
  <2>1. queue'[d][p] = IF queue[d][p].release = b /\ queue[d][p].status = from
                       THEN [queue[d][p] EXCEPT !.status = to] ELSE queue[d][p]
    BY DEF Settles, MoveRow
  <2>2. CASE queue[d][p].release # b
    <3>1. queue'[d][p] = queue[d][p]
      BY <2>1, <2>2
    <3> QED BY <1>0, <2>0, <2>2, <3>1, OtherBatchesAgree
  <2>3. CASE queue[d][p].release = b
    <3> DEFINE row == queue[d][p]
               new == queue'[d][p]
    <3>1. /\ new \in Row /\ new.release = b /\ new.master = row.master
          /\ new.status = IF row.status = from THEN to ELSE row.status
      BY <2>0, <2>1, <2>3 DEF Row, Outcomes, RowStates
    <3>2. new.status \in {"FAILED_PRE_SUBMIT", to}
      BY <2>0, <2>3, <3>1, SettlingRow
    <3>3. Agrees(batches', p, new)
      <4> HIDE DEF new, row
      <4> QED BY <2>0, <2>3, <3>1, <3>2, SettledAgrees DEF row
    <3> QED BY <1>0, <3>1, <3>2, <3>3
  <2> QED BY <2>2, <2>3
<1>2. ASSUME NEW h \in history PROVE Agrees(batches', h.product, h.row)
  <2>0. h.row \in Row /\ Agrees(batches, h.product, h.row) /\ h.row.status \in Terminal
    BY DEF TypeOK, HistoryAgrees, Archived
  <2>1. CASE h.row.release # b
    BY <2>0, <2>1, OtherBatchesAgree
  <2>2. CASE h.row.release = b
    <3>1. \/ h.row.status = "FAILED_PRE_SUBMIT"
          \/ h.row.status = "PUBLISH_UNKNOWN" /\ to = "PUBLISHED"
      BY <2>0, <2>2, SettlingRow DEF Terminal
    <3> QED BY <2>0, <2>2, <3>1, SettledAgrees
  <2> QED BY <2>1, <2>2
<1>3. history' = history
  BY DEF Settles
<1> QED BY <1>1, <1>2, <1>3 DEF RowsAgree, HistoryAgrees

\* The first half of the agreement is inductive by itself.
LEMMA StoryKept ==
    ASSUME TablesInv, RowsAgree, HistoryAgrees, [Next]_vars
    PROVE  RowsAgree' /\ HistoryAgrees'
<1> USE DEF TablesInv
<1>0. /\ \A d \in Days, p \in Products :
            queue[d][p] \in Row /\ Agrees(batches, p, queue[d][p])
      /\ \A h \in history :
            h.row \in Row /\ Agrees(batches, h.product, h.row) /\ h.row.status \in Terminal
  BY DEF TypeOK, RowsAgree, HistoryAgrees, Archived
<1>a. ASSUME BatchesKept
      PROVE  /\ \A d \in Days, p \in Products : Agrees(batches', p, queue[d][p])
             /\ \A d \in Days, p \in Products : queue[d][p].status = "PUBLISH_UNKNOWN" =>
                    batches'[queue[d][p].release].publish = "PUBLISH_UNKNOWN"
             /\ \A h \in history : Agrees(batches', h.product, h.row)
  <2>1. \A d \in Days, p \in Products : queue[d][p].status = "PUBLISH_UNKNOWN" =>
            /\ batches[queue[d][p].release].publish = "PUBLISH_UNKNOWN"
            /\ queue[d][p].release \in Batches
            /\ Exists(queue[d][p].release)
    BY <1>0 DEF RowsAgree, Agrees, Unreleased, Exists
  <2> QED BY <1>0, <1>a, <2>1, KeptBatchesAgree DEF BatchesKept
<1>1. CASE BatchesKept /\ UNCHANGED <<queue, history>>
  BY <1>0, <1>1, <1>a DEF RowsAgree, HistoryAgrees
<1>2. CASE BatchesKept /\ RowsPrepared /\ history' = history
  <2>1. ASSUME NEW d \in Days, NEW p \in Products, queue'[d][p] # queue[d][p]
        PROVE  Agrees(batches', p, queue'[d][p]) /\ queue'[d][p].status # "PUBLISH_UNKNOWN"
    <3>1. /\ queue'[d][p].status \in {"QUEUED", "SKIPPED"}
          /\ queue'[d][p].release = NoBatch
          /\ queue'[d][p].master \in Batches
      BY <1>0, <1>2, <2>1 DEF RowsPrepared, Agrees, Unreleased
    <3> QED BY <3>1 DEF Agrees, Unreleased
  <2>2. HistoryAgrees'
    BY <1>0, <1>2, <1>a DEF HistoryAgrees
  <2> QED BY <1>2, <1>a, <2>1, <2>2 DEF RowsAgree
<1>3. CASE BatchesKept /\ \E d \in Days : Archive(d)
  <2>1. PICK d \in Days : Archive(d)
    BY <1>3
  <2>2. \A e \in Days, p \in Products : queue'[e][p] \in {queue[e][p], NoRow}
    BY <2>1 DEF Archive, TypeOK
  <2>3. \A p : Agrees(batches', p, NoRow)
    BY DEF Agrees, NoRow, Unreleased
  <2>4. NoRow.status # "PUBLISH_UNKNOWN"
    BY DEF NoRow
  <2>5. RowsAgree'
    BY <1>3, <1>a, <2>2, <2>3, <2>4 DEF RowsAgree
  <2>6. \A h \in history' :
          \/ h \in history
          \/ \E p \in Products : /\ h = [day |-> d, product |-> p, row |-> queue[d][p]]
                                 /\ queue[d][p].status \in Terminal
    BY <2>1 DEF Archive
  <2>7. HistoryAgrees'
    BY <1>0, <1>3, <1>a, <2>6 DEF HistoryAgrees
  <2> QED BY <2>5, <2>7
<1>4. CASE BatchesKept /\ Releasing
  <2>1. PICK day \in Days, p \in Products, b \in Batches : ReleaseNext(day, p, b)
    BY <1>4 DEF Releasing
  <2>2. /\ queue'[day][p].status = "RELEASED" /\ queue'[day][p].release = b
        /\ queue'[day][p].master = queue[day][p].master
        /\ \A d \in Days, q \in Products :
              d # day \/ q # p => queue'[d][q] = queue[d][q]
    BY <2>1, ReleasedRow DEF TablesInv, ReleasesRow
  <2>3. batches' = [batches EXCEPT ![b] = NewBatch("APPROVED", "release", {p})]
    BY <2>1 DEF ReleaseNext
  <2>4. /\ batches'[b].status = "APPROVED" /\ batches'[b].source = "release"
        /\ batches'[b].summary = {p} /\ batches'[b].publish = "NOT_STARTED"
    BY <2>3 DEF NewBatch, TypeOK
  <2>5. LET m == queue[day][p].master
        IN  m \in Batches /\ batches[m].status = "APPROVED"
    BY <2>1 DEF ReleaseNext, Releasable
  <2>6. LET m == queue[day][p].master
        IN  m \in Batches /\ batches'[m].status = "APPROVED"
    BY <1>4, <2>5 DEF BatchesKept, BatchKept, Exists
  <2>7. Agrees(batches', p, queue'[day][p])
    BY <2>2, <2>4, <2>6, BatchesAssumption DEF Agrees, Unreleased
  <2>8. RowsAgree'
    BY <1>4, <1>a, <2>2, <2>7 DEF RowsAgree
  <2>9. history' = history
    BY <2>1 DEF ReleaseNext
  <2> QED BY <1>0, <1>4, <1>a, <2>8, <2>9 DEF HistoryAgrees
<1>5. ASSUME NEW b \in Batches, NEW to \in {"PUBLISHING", "PREFLIGHT_PASSED"}, Starts(b, to)
      PROVE  RowsAgree' /\ HistoryAgrees'
  <2>1. UNCHANGED <<queue, history>>
    BY <1>5 DEF Starts
  <2>2. \A d \in Days, p \in Products : queue[d][p].status = "PUBLISH_UNKNOWN" =>
            batches'[queue[d][p].release].publish = "PUBLISH_UNKNOWN"
    BY <1>0, <1>5 DEF RowsAgree, Agrees, Unreleased, Starts, InFlight
  <2> QED BY <1>0, <1>5, <2>1, <2>2, StartedAgrees DEF RowsAgree, HistoryAgrees
<1>6. ASSUME NEW b \in Batches, NEW to \in Outcomes, Settles(b, "RELEASED", to),
             \/ batches[b].publish = "PUBLISHING"
             \/ batches[b].publish = "NOT_STARTED" /\ to = "FAILED_PRE_SUBMIT"
      PROVE  RowsAgree' /\ HistoryAgrees'
  BY <1>6, SettlesKeepsAgreement
<1>7. ASSUME NEW b \in Batches, Settles(b, "PUBLISH_UNKNOWN", "PUBLISHED"),
             batches[b].publish = "PUBLISH_UNKNOWN"
      PROVE  RowsAgree' /\ HistoryAgrees'
  BY <1>7, SettlesKeepsAgreement DEF Outcomes
<1> QED BY <1>1, <1>2, <1>3, <1>4, <1>5, <1>6, <1>7, StepKinds

\* Steps that leave the release batch of every row and the history alone.
ReleasesKept ==
    /\ history' = history
    /\ \A d \in Days, p \in Products : queue'[d][p].release = queue[d][p].release

\* All steps but releases and the archive do.
LEMMA OtherStepsKeepReleases ==
    ASSUME TablesInv, RowsAgree, [Next]_vars, ~Releasing, ~\E d \in Days : Archive(d)
    PROVE  ReleasesKept
<1>1. ASSUME NEW b, NEW from, NEW to, Settles(b, from, to) PROVE ReleasesKept
  <2>1. \A d \in Days, p \in Products : queue[d][p] \in Row
    BY DEF TablesInv, TypeOK
  <2> QED BY <1>1, <2>1 DEF ReleasesKept, Settles, MoveRow, Row
<1>2. ASSUME NEW b, NEW to, Starts(b, to) PROVE ReleasesKept
  BY <1>2 DEF ReleasesKept, Starts
<1>3. CASE RowsPrepared /\ history' = history
  BY <1>3 DEF RowsPrepared, RowsAgree, Agrees, Unreleased, ReleasesKept
<1>4. CASE UNCHANGED <<queue, history>>
  BY <1>4 DEF ReleasesKept
<1> QED BY <1>1, <1>2, <1>3, <1>4, StepKinds

\* A released batch stands for one row of the queue, or one archived row.
LEMMA TracesStayUnique ==
    ASSUME TablesInv, RowsAgree, HistoryAgrees, TracesAreUnique, [Next]_vars
    PROVE  TracesAreUnique'
<1> SUFFICES ASSUME NEW b \in Batches, batches'[b].source = "release"
             PROVE  InQueue(b)' \/ InHistory(b)'
  BY DEF TracesAreUnique
<1>1. CASE ReleasesKept /\ ~Releasing
  <2>1. InQueue(b) \/ InHistory(b)
    BY <1>1, OnlyReleasesInsert DEF TracesAreUnique
  <2>2. (InQueue(b) => InQueue(b)') /\ (InHistory(b) => InHistory(b)')
    BY <1>1 DEF ReleasesKept, InQueue, InHistory
  <2> QED BY <2>1, <2>2
<1>2. CASE Releasing
  <2>1. PICK day \in Days, p \in Products, c \in Batches : ReleaseNext(day, p, c)
    BY <1>2 DEF Releasing
  <2>2. /\ queue[day][p].status = "QUEUED"
        /\ queue'[day][p].release = c
        /\ \A d \in Days, q \in Products :
              d # day \/ q # p => queue'[d][q] = queue[d][q]
    BY <2>1, ReleasedRow DEF TablesInv, ReleasesRow
  <2>3. history' = history /\ batches[c].status = "NONE"
    BY <2>1 DEF ReleaseNext, Exists
  <2>4. queue[day][p].release = NoBatch
    BY <2>2 DEF RowsAgree, Agrees, Unreleased
  <2>5. CASE b = c
    <3>1. /\ \A d \in Days, q \in Products : queue[d][q].release # b
          /\ \A h \in history : h.row.release # b
      BY <2>3, <2>5, BatchesAssumption DEF RowsAgree, HistoryAgrees, Agrees
    <3>2. InQueue(b)'
      BY <2>2, <2>3, <2>5, <3>1 DEF InQueue
    <3> QED BY <3>2
  <2>6. CASE b # c
    <3>0. b # NoBatch
      BY BatchesAssumption
    <3>1. batches[b].source = "release"
      BY <2>1, <2>6 DEF ReleaseNext, TablesInv, TypeOK
    <3>2. \A d \in Days, q \in Products :
            queue'[d][q].release = b <=> queue[d][q].release = b
      BY <2>2, <2>4, <2>6, <3>0
    <3>3. (InQueue(b) => InQueue(b)') /\ (InHistory(b) => InHistory(b)')
      BY <2>3, <3>2 DEF InQueue, InHistory
    <3> QED BY <3>1, <3>3 DEF TracesAreUnique
  <2> QED BY <2>5, <2>6
<1>3. CASE \E d \in Days : Archive(d)
  <2>1. PICK d \in Days : Archive(d)
    BY <1>3
  <2> DEFINE Done(p) == queue[d][p].status \in Terminal
             New(p) == [day |-> d, product |-> p, row |-> queue[d][p]]
  <2>2. /\ \A e \in Days, p \in Products :
            queue'[e][p] = IF e = d /\ Done(p) THEN NoRow ELSE queue[e][p]
        /\ history' = history \cup {New(p) : p \in {q \in Products : Done(q)}}
        /\ batches' = batches
    BY <2>1 DEF Archive, TablesInv, TypeOK
  <2>3. NoRow.release # b
    BY BatchesAssumption DEF NoRow
  <2>4. CASE InQueue(b)
    <3>1. PICK e \in Days, p \in Products :
            /\ queue[e][p].release = b
            /\ \A f \in Days, q \in Products : queue[f][q].release = b => f = e /\ q = p
      BY <2>4 DEF InQueue
    <3>2. \A h \in history : h.row.release # b
      BY <2>4 DEF InQueue
    <3>3. CASE e = d /\ Done(p)
      <4>1. \A f \in Days, q \in Products : queue'[f][q].release # b
        BY <2>2, <2>3, <3>1, <3>3
      <4>2. New(p) \in history' /\ New(p).row.release = b
        BY <2>2, <3>1, <3>3
      <4>3. ASSUME NEW g \in history', g.row.release = b PROVE g = New(p)
        <5>1. PICK q \in Products : Done(q) /\ g = New(q)
          BY <2>2, <3>2, <4>3
        <5> QED BY <3>1, <4>3, <5>1
      <4>4. InHistory(b)'
        BY <4>1, <4>2, <4>3 DEF InHistory
      <4> QED BY <4>4
    <3>4. CASE ~(e = d /\ Done(p))
      <4>1. \A f \in Days, q \in Products :
              queue'[f][q].release = b <=> queue[f][q].release = b
        BY <2>2, <2>3, <3>1, <3>4
      <4>2. \A h \in history' : h.row.release # b
        BY <2>2, <3>1, <3>2, <3>4
      <4>3. InQueue(b)'
        BY <3>1, <4>1, <4>2 DEF InQueue
      <4> QED BY <4>3
    <3> QED BY <3>3, <3>4
  <2>5. CASE InHistory(b)
    <3>1. \A f \in Days, q \in Products : queue'[f][q].release # b
      BY <2>2, <2>3, <2>5 DEF InHistory
    <3>2. \A p \in Products : New(p).row.release # b
      BY <2>5 DEF InHistory
    <3>3. history \subseteq history'
          /\ \A g \in history' : g.row.release = b => g \in history
      BY <2>2, <3>2
    <3>4. InHistory(b)'
      BY <2>5, <3>1, <3>3 DEF InHistory
    <3> QED BY <3>4
  <2> QED BY <2>2, <2>4, <2>5 DEF TracesAreUnique
<1> QED BY <1>1, <1>2, <1>3, OtherStepsKeepReleases

\* An approval whose publication has not begun keeps its released row.
LEMMA UnstartedStayReleased ==
    ASSUME TablesInv, RowsAgree, UnstartedAreReleased, [Next]_vars
    PROVE  UnstartedAreReleased'
<1> SUFFICES ASSUME NEW b \in Batches, batches'[b].source = "release",
                    batches'[b].publish = "NOT_STARTED"
             PROVE  \E d \in Days, p \in Products :
                        queue'[d][p].release = b /\ queue'[d][p].status = "RELEASED"
  BY DEF UnstartedAreReleased
<1>1. CASE Releasing
  <2>1. PICK day \in Days, p \in Products, c \in Batches : ReleaseNext(day, p, c)
    BY <1>1 DEF Releasing
  <2>2. /\ queue[day][p].status = "QUEUED"
        /\ queue'[day][p].release = c /\ queue'[day][p].status = "RELEASED"
        /\ \A d \in Days, q \in Products :
              d # day \/ q # p => queue'[d][q] = queue[d][q]
    BY <2>1, ReleasedRow DEF TablesInv, ReleasesRow
  <2>3. CASE b # c
    <3>1. batches'[b] = batches[b]
      BY <2>1, <2>3 DEF ReleaseNext, TablesInv, TypeOK
    <3>2. PICK d \in Days, q \in Products :
            queue[d][q].release = b /\ queue[d][q].status = "RELEASED"
      BY <3>1 DEF UnstartedAreReleased
    <3> QED BY <2>2, <3>2
  <2> QED BY <2>2, <2>3
<1>2. ASSUME ~Releasing,
             batches[b].publish = "NOT_STARTED",
             \A d \in Days, p \in Products :
                queue[d][p].release = b /\ queue[d][p].status = "RELEASED" =>
                    queue'[d][p] = queue[d][p]
      PROVE  \E d \in Days, p \in Products :
                queue'[d][p].release = b /\ queue'[d][p].status = "RELEASED"
  <2>1. batches[b].source = "release"
    BY <1>2, OnlyReleasesInsert
  <2> QED BY <1>2, <2>1 DEF UnstartedAreReleased
<1>3. CASE ~Releasing /\ BatchesKept /\ UNCHANGED <<queue, history>>
  <2>1. batches[b].publish = "NOT_STARTED"
    BY <1>3 DEF BatchesKept, TablesInv, OnlyApprovedStart, Exists
  <2> QED BY <1>2, <1>3, <2>1
<1>4. CASE ~Releasing /\ BatchesKept /\ RowsPrepared
  <2>1. batches[b].publish = "NOT_STARTED"
    BY <1>4 DEF BatchesKept, TablesInv, OnlyApprovedStart, Exists
  <2> QED BY <1>2, <1>4, <2>1 DEF RowsPrepared
<1>5. CASE ~Releasing /\ BatchesKept /\ \E d \in Days : Archive(d)
  <2>1. batches[b].publish = "NOT_STARTED"
    BY <1>5 DEF BatchesKept, TablesInv, OnlyApprovedStart, Exists
  <2>2. \A d \in Days, p \in Products :
            queue[d][p].status = "RELEASED" => queue'[d][p] = queue[d][p]
    BY <1>5 DEF Archive, Terminal, TablesInv, TypeOK
  <2> QED BY <1>2, <1>5, <2>1, <2>2
<1>6. ASSUME ~Releasing, NEW c \in Batches,
             NEW to \in {"PUBLISHING", "PREFLIGHT_PASSED"}, Starts(c, to)
      PROVE  batches[b].publish = "NOT_STARTED" /\ UNCHANGED queue
  BY <1>6 DEF Starts
<1>7. ASSUME ~Releasing, NEW c \in Batches, NEW from, NEW to \in Outcomes,
             Settles(c, from, to)
      PROVE  /\ batches[b].publish = "NOT_STARTED"
             /\ \A d \in Days, p \in Products :
                    queue[d][p].release = b => queue'[d][p] = queue[d][p]
  <2>1. b # c /\ batches'[b] = batches[b]
    BY <1>7 DEF Settles, Outcomes, TablesInv, TypeOK
  <2> QED BY <1>7, <2>1 DEF Settles, MoveRow
<1>8. CASE ~Releasing /\ \E c \in Batches, to \in {"PUBLISHING", "PREFLIGHT_PASSED"} : Starts(c, to)
  BY <1>2, <1>6, <1>8
<1>9. CASE ~Releasing /\ \E c \in Batches, to \in Outcomes :
                Settles(c, "RELEASED", to) \/ Settles(c, "PUBLISH_UNKNOWN", to)
  BY <1>2, <1>7, <1>9
<1>10. "PUBLISHED" \in Outcomes
  BY DEF Outcomes
<1> QED BY <1>1, <1>3, <1>4, <1>5, <1>8, <1>9, <1>10, StepKinds

\* Queue, history and batches agree in every state.
LEMMA AgreementInvariant == Spec => [](TablesInv /\ AgreementInv)
<1>1. Init => AgreementInv
  BY DEF Init, AgreementInv, RowsAgree, HistoryAgrees, TracesAreUnique,
     UnstartedAreReleased, Agrees, NoRow, NoBatchRow, NewBatch, Unreleased
<1>2. TablesInv /\ AgreementInv /\ [Next]_vars => AgreementInv'
  <2> SUFFICES ASSUME TablesInv, AgreementInv, [Next]_vars PROVE AgreementInv'
    OBVIOUS
  <2>1. RowsAgree' /\ HistoryAgrees'
    BY StoryKept DEF AgreementInv
  <2>2. TracesAreUnique'
    BY TracesStayUnique DEF AgreementInv
  <2>3. UnstartedAreReleased'
    BY UnstartedStayReleased DEF AgreementInv
  <2> QED BY <2>1, <2>2, <2>3 DEF AgreementInv
<1> QED BY <1>1, <1>2, TablesInvariant, PTL DEF Spec

\* A released row waits for a batch that has not finished, a finished one has
\* its batch's outcome, and an approval that was not begun is in the queue.
THEOREM QueueAgreesWithBatches == Spec => []RowAgreesWithBatch
<1>1. TablesInv /\ AgreementInv => RowAgreesWithBatch
  BY DEF TablesInv, AgreementInv, RowsAgree, UnstartedAreReleased, Agrees, Unreleased,
     RowAgreesWithBatch
<1> QED BY <1>1, AgreementInvariant, PTL

\* What was archived is not contradicted later.
THEOREM HistoryAgreesWithBatches == Spec => []ArchiveAgreesWithBatch
<1>1. TablesInv /\ AgreementInv => ArchiveAgreesWithBatch
  <2> SUFFICES ASSUME TablesInv, AgreementInv, NEW h \in history
               PROVE  LET publish == batches[h.row.release].publish
                      IN  /\ h.row.status = "SKIPPED" <=> h.row.release = NoBatch
                          /\ h.row.status = "PUBLISHED" => publish = "PUBLISHED"
                          /\ h.row.status = "PUBLISH_UNKNOWN" =>
                                publish \in {"PUBLISH_UNKNOWN", "PUBLISHED"}
    BY DEF ArchiveAgreesWithBatch
  <2>1. Agrees(batches, h.product, h.row) /\ h.row.status \in Terminal
    BY DEF AgreementInv, HistoryAgrees
  <2> QED BY <2>1 DEF Agrees, Unreleased, Terminal
<1> QED BY <1>1, AgreementInvariant, PTL

\* A release stands for one row of its product whose master was approved.
THEOREM ReleasesTraceToApprovals == Spec => []ReleaseTracesToApproval
<1>1. TablesInv /\ AgreementInv => ReleaseTracesToApproval
  <2> SUFFICES ASSUME TablesInv, AgreementInv, NEW b \in Batches,
                      batches[b].source = "release"
               PROVE  \E t \in Traces(b) :
                        /\ Traces(b) = {t}
                        /\ batches[b].summary = {t.product}
                        /\ t.row.master \in Batches
                        /\ batches[t.row.master].status = "APPROVED"
    BY DEF ReleaseTracesToApproval
  <2> DEFINE At(d, p) == [day |-> d, product |-> p, row |-> queue[d][p]]
  <2>0. \A t : t \in Traces(b) <=>
            \/ t \in history /\ t.row.release = b
            \/ \E d \in Days : \E p \in Products : queue[d][p].release = b /\ t = At(d, p)
    BY DEF Traces
  <2>1. ASSUME NEW p, NEW row, Agrees(batches, p, row), row.release = b
        PROVE  /\ batches[b].summary = {p}
               /\ row.master \in Batches
               /\ batches[row.master].status = "APPROVED"
    BY <2>1, BatchesAssumption DEF Agrees, Unreleased
  <2>2. CASE InQueue(b)
    <3>1. PICK d \in Days, p \in Products :
            /\ queue[d][p].release = b
            /\ \A e \in Days, q \in Products : queue[e][q].release = b => e = d /\ q = p
      BY <2>2 DEF InQueue
    <3>2. At(d, p) \in Traces(b)
      BY <2>0, <3>1
    <3>3. \A t \in Traces(b) : t = At(d, p)
      BY <2>0, <2>2, <3>1 DEF InQueue
    <3>4. Agrees(batches, p, queue[d][p])
      BY DEF AgreementInv, RowsAgree
    <3>5. At(d, p).product = p /\ At(d, p).row = queue[d][p]
      OBVIOUS
    <3>6. Traces(b) = {At(d, p)}
      BY <3>2, <3>3
    <3> HIDE DEF At
    <3> QED BY <2>1, <3>1, <3>2, <3>4, <3>5, <3>6
  <2>3. CASE InHistory(b)
    <3>1. PICK h \in history : h.row.release = b /\ \A g \in history : g.row.release = b => g = h
      BY <2>3 DEF InHistory
    <3>2. h \in Traces(b)
      BY <2>0, <3>1
    <3>3. \A t \in Traces(b) : t = h
      BY <2>0, <2>3, <3>1 DEF InHistory
    <3>4. Agrees(batches, h.product, h.row)
      BY DEF AgreementInv, HistoryAgrees
    <3>5. Traces(b) = {h}
      BY <3>2, <3>3
    <3> QED BY <2>1, <3>1, <3>2, <3>4, <3>5
  <2> QED BY <2>2, <2>3 DEF AgreementInv, TracesAreUnique
<1> QED BY <1>1, AgreementInvariant, PTL
=============================================================================
