---------------------- MODULE PublicationStore_proofs ----------------------
(***************************************************************************)
(* Theorems about PublicationStore for every set of products and batches   *)
(* and every bound, checked by TLAPS.                                      *)
(***************************************************************************)
EXTENDS PublicationStore, FiniteSetTheorems, TLAPS

-----------------------------------------------------------------------------
(* The tables keep their types                                             *)

\* The record that an INSERT writes is a batch.
LEMMA NewBatchType ==
    ASSUME NEW status \in {"PENDING"} \cup Decisions,
           NEW source \in Sources, NEW items \in SUBSET Products
    PROVE  NewBatch(status, source, items) \in Batch
BY BoundsAssumption DEF NewBatch, Batch, PublishStates, Decisions, Sources

\* An UPDATE of one column keeps a batch a batch.
LEMMA BatchUpdate ==
    ASSUME NEW r \in Batch
    PROVE  /\ \A s \in Decisions : [r EXCEPT !.status = s] \in Batch
           /\ \A c \in BOOLEAN : [r EXCEPT !.claimed = c] \in Batch
           /\ \A s \in PublishStates : [r EXCEPT !.publish = s] \in Batch
           /\ [r EXCEPT !.queued = TRUE] \in Batch
BY DEF Batch

\* An UPDATE of one column keeps a queue row a row.
LEMMA RowUpdate ==
    ASSUME NEW r \in Row
    PROVE  /\ \A s \in RowStates : [r EXCEPT !.status = s] \in Row
           /\ \A m \in Batches : [r EXCEPT !.master = m] \in Row
           /\ \A s \in RowStates, b \in Batches :
                [r EXCEPT !.status = s, !.release = b] \in Row
BY DEF Row

\* The UPDATE of a released row by its batch id changes only statuses.
LEMMA MoveRowType ==
    ASSUME TypeOK, NEW b, NEW from, NEW to \in RowStates
    PROVE  MoveRow(b, from, to) \in [Days -> [Products -> Row]]
<1>1. \A d \in Days, p \in Products : queue[d][p] \in Row
  BY DEF TypeOK
<1> QED BY <1>1, RowUpdate DEF MoveRow

\* Approvals insert batches of the table's type and set known decisions.
LEMMA ApprovalType == TypeOK /\ Approval => TypeOK'
<1> SUFFICES ASSUME TypeOK, Approval PROVE TypeOK'
  OBVIOUS
<1>1. CASE \E b \in Batches, source \in Requested, items \in SUBSET Products :
              RequestApproval(b, source, items)
  <2> PICK b \in Batches, source \in Requested, items \in SUBSET Products :
              RequestApproval(b, source, items)
    BY <1>1
  <2>1. NewBatch("PENDING", source, items) \in Batch
    BY NewBatchType, RequestedAssumption DEF Sources
  <2> QED BY <2>1 DEF TypeOK, RequestApproval, locking
<1>2. CASE \E b \in Batches, decision \in Decisions : Resolve(b, decision)
  <2> PICK b \in Batches, decision \in Decisions : Resolve(b, decision)
    BY <1>2
  <2>1. batches' \in [Batches -> Batch]
    BY BatchUpdate DEF TypeOK, Resolve
  <2>2. approvals' \in Seq(Batches)
    BY DEF TypeOK, Resolve
  <2> QED BY <2>1, <2>2 DEF TypeOK, Resolve, locking
<1>3. CASE HoldPreflights
  <2>1. batches' \in [Batches -> Batch]
    BY <1>3, BatchUpdate DEF TypeOK, HoldPreflights, Decisions
  <2> QED BY <1>3, <2>1 DEF TypeOK, HoldPreflights, locking
<1> QED BY <1>1, <1>2, <1>3 DEF Approval

\* The new rows of a window get sequence numbers within the CHECK.
LEMMA CreateQueueType ==
    ASSUME TypeOK, NEW m \in Batches, NEW d \in Days, NEW last \in 0..MaxSequence,
           NEW place \in Placements(batches[m].summary),
           CreateQueue(m, d, last, place)
    PROVE  TypeOK'
<1> DEFINE items == batches[m].summary
<1>1. IsFiniteSet(items) /\ Cardinality(items) \in Nat
  BY ProductsAssumption, FS_Subset, FS_CardinalityType DEF TypeOK, Batch
<1>2. /\ last + Cardinality(items) <= MaxSequence
      /\ queue' = [queue EXCEPT ![d] = [p \in Products |->
                      IF p \in items
                      THEN [status |-> "QUEUED", sequence |-> last + place[p],
                            master |-> m, release |-> NoBatch]
                      ELSE queue[d][p]]]
  BY DEF CreateQueue, Fits
<1>3. \A p \in items : last + place[p] \in 0..MaxSequence
  BY <1>1, <1>2, BoundsAssumption DEF Placements
<1>4. \A p \in items : [status |-> "QUEUED", sequence |-> last + place[p],
                        master |-> m, release |-> NoBatch] \in Row
  BY <1>3 DEF Row, RowStates
<1>5. queue' \in [Days -> [Products -> Row]]
  BY <1>2, <1>4 DEF TypeOK
<1>6. batches' \in [Batches -> Batch]
  BY BatchUpdate DEF TypeOK, CreateQueue
<1> QED BY <1>5, <1>6 DEF TypeOK, CreateQueue, locking

\* The queue's transactions keep every row and batch of its type.
LEMMA QueueingType == TypeOK /\ Queueing => TypeOK'
<1> SUFFICES ASSUME TypeOK, Queueing PROVE TypeOK'
  OBVIOUS
<1>1. CASE \E m \in Batches, d \in Days, last \in 0..MaxSequence :
              \E place \in Placements(batches[m].summary) :
                  CreateQueue(m, d, last, place)
  BY <1>1, CreateQueueType
<1>2. CASE \E m \in Batches, d \in Days, last \in 0..MaxSequence :
              CreateQueueRejected(m, d, last)
  <2> PICK m \in Batches, d \in Days, last \in 0..MaxSequence :
              CreateQueueRejected(m, d, last)
    BY <1>2
  <2>1. batches' \in [Batches -> Batch]
    BY BatchUpdate DEF TypeOK, CreateQueueRejected
  <2> QED BY <2>1 DEF TypeOK, CreateQueueRejected, locking
<1>3. CASE \E held, m \in Batches, d \in Days : Relink(held, m, d)
  <2> PICK held \in Batches, m \in Batches, d \in Days : Relink(held, m, d)
    BY <1>3
  <2>1. queue' \in [Days -> [Products -> Row]]
    BY RowUpdate DEF TypeOK, Relink
  <2>2. batches' \in [Batches -> Batch]
    BY BatchUpdate DEF TypeOK, Relink
  <2> QED BY <2>1, <2>2 DEF TypeOK, Relink, locking
<1>4. CASE \E d \in Days, p \in Products, b \in Batches : ReleaseNext(d, p, b)
  <2> PICK d \in Days, p \in Products, b \in Batches : ReleaseNext(d, p, b)
    BY <1>4
  <2>1. NewBatch("APPROVED", "release", {p}) \in Batch
    BY NewBatchType DEF Sources, Decisions
  <2>2. [queue[d][p] EXCEPT !.status = "RELEASED", !.release = b] \in Row
    <3>1. queue[d][p] \in Row
      BY DEF TypeOK
    <3> QED BY <3>1, RowUpdate DEF RowStates
  <2>3. queue' = [queue EXCEPT ![d] = [queue[d] EXCEPT ![p] =
            [queue[d][p] EXCEPT !.status = "RELEASED", !.release = b]]]
    BY DEF TypeOK, ReleaseNext
  <2>4. queue' \in [Days -> [Products -> Row]]
    BY <2>2, <2>3 DEF TypeOK
  <2>5. batches' \in [Batches -> Batch] /\ approvals' \in Seq(Batches)
    BY <2>1 DEF TypeOK, ReleaseNext
  <2> QED BY <2>4, <2>5 DEF TypeOK, ReleaseNext, locking
<1>5. CASE \E d \in Days : Archive(d)
  <2> PICK d \in Days : Archive(d)
    BY <1>5
  <2>1. NoRow \in Row
    BY BoundsAssumption DEF NoRow, Row, RowStates
  <2>2. queue' \in [Days -> [Products -> Row]]
    BY <2>1 DEF TypeOK, Archive
  <2>3. history' \subseteq Archived
    BY DEF TypeOK, Archive, Archived
  <2> QED BY <2>2, <2>3 DEF TypeOK, Archive, locking
<1>6. CASE \E d \in Days : SkipStale(d)
  <2> PICK d \in Days : SkipStale(d)
    BY <1>6
  <2>1. queue' \in [Days -> [Products -> Row]]
    BY RowUpdate DEF TypeOK, SkipStale, RowStates
  <2> QED BY <2>1 DEF TypeOK, SkipStale, locking
<1> QED BY <1>1, <1>2, <1>3, <1>4, <1>5, <1>6 DEF Queueing

\* A begin that draws a token stays within the bound on attempts.
LEMMA MarkPublishingType ==
    ASSUME TypeOK, NEW b \in Batches, NEW p \in Products, MarkPublishing(b, p),
           begins' \subseteq Batches, overwritten' \subseteq Products
    PROVE  TypeOK'
<1>1. batches[b].attempt + 1 \in 0..MaxAttempts
  BY BoundsAssumption DEF TypeOK, MarkPublishing, Batch
<1>2. batches' \in [Batches -> Batch]
  <2>1. batches[b] \in Batch
    BY DEF TypeOK
  <2>2. [batches[b] EXCEPT !.publish = "PUBLISHING",
                           !.attempt = batches[b].attempt + 1] \in Batch
    BY <1>1, <2>1 DEF Batch, PublishStates
  <2> QED BY <2>2 DEF TypeOK, MarkPublishing
<1>3. posts' \in [Products -> PostStates]
  BY DEF TypeOK, MarkPublishing, PostStates, POST_STATUSES
<1> QED BY <1>2, <1>3 DEF TypeOK, MarkPublishing

\* A begin in one transaction or in two statements keeps the tables' types.
LEMMA BeginningType == TypeOK /\ Beginning => TypeOK'
<1> SUFFICES ASSUME TypeOK, Beginning PROVE TypeOK'
  OBVIOUS
<1>1. CASE \E b \in Batches, p \in Products : Begin(b, p)
  BY <1>1, MarkPublishingType DEF TypeOK, Begin, locking
<1>2. CASE \E b \in Batches, p \in Products : FindNoPost(b, p)
  BY <1>2 DEF TypeOK, FindNoPost
<1>3. CASE \E b \in Batches, p \in Products : BeginUnlocked(b, p)
  BY <1>3, MarkPublishingType DEF TypeOK, BeginUnlocked
<1>4. CASE \E b \in Batches : BeginLost(b)
  BY <1>4 DEF TypeOK, BeginLost
<1> QED BY <1>1, <1>2, <1>3, <1>4 DEF Beginning

\* The extension's requests keep the tables' types.
LEMMA PublishingType == TypeOK /\ Publishing => TypeOK'
<1> SUFFICES ASSUME TypeOK, Publishing PROVE TypeOK'
  OBVIOUS
<1>1. CASE \E b \in Batches : Claim(b)
  <2> PICK b \in Batches : Claim(b)
    BY <1>1
  <2>1. batches' \in [Batches -> Batch]
    BY BatchUpdate DEF TypeOK, Claim
  <2> QED BY <2>1 DEF TypeOK, Claim, locking
<1>2. CASE \E b \in Batches : ReleaseClaim(b)
  <2> PICK b \in Batches : ReleaseClaim(b)
    BY <1>2
  <2>1. batches' \in [Batches -> Batch]
    BY BatchUpdate DEF TypeOK, ReleaseClaim
  <2> QED BY <2>1 DEF TypeOK, ReleaseClaim, locking
<1>3. CASE Beginning
  BY <1>3, BeginningType
<1>4. CASE \E b \in Batches : PreFailure(b)
  <2> PICK b \in Batches : PreFailure(b)
    BY <1>4
  <2>1. MoveRow(b, "RELEASED", "FAILED_PRE_SUBMIT")
            \in [Days -> [Products -> Row]]
    BY MoveRowType DEF RowStates
  <2>2. batches' \in [Batches -> Batch]
    BY BatchUpdate DEF TypeOK, PreFailure, PublishStates
  <2> QED BY <2>1, <2>2 DEF TypeOK, PreFailure, locking
<1>5. CASE \E b \in Batches : PreflightSuccess(b)
  <2> PICK b \in Batches : PreflightSuccess(b)
    BY <1>5
  <2>1. batches' \in [Batches -> Batch]
    BY BatchUpdate DEF TypeOK, PreflightSuccess, PublishStates
  <2> QED BY <2>1 DEF TypeOK, PreflightSuccess, locking
<1>6. CASE \E b \in Batches, p \in Products, t \in 1..MaxAttempts,
              outcome \in Outcomes : Result(b, p, t, outcome)
  <2> PICK b \in Batches, p \in Products, t \in 1..MaxAttempts,
           outcome \in Outcomes : Result(b, p, t, outcome)
    BY <1>6
  <2>1. MoveRow(b, "RELEASED", outcome) \in [Days -> [Products -> Row]]
    BY MoveRowType DEF RowStates, Outcomes
  <2>2. PostAfter(p, outcome) \in PostStates
    BY DEF PostAfter, PostStates, POST_STATUSES, Outcomes, TypeOK
  <2>3. batches' \in [Batches -> Batch]
    BY BatchUpdate DEF TypeOK, Result, PublishStates, Outcomes
  <2> QED BY <2>1, <2>2, <2>3 DEF TypeOK, Result, locking
<1> QED BY <1>1, <1>2, <1>3, <1>4, <1>5, <1>6 DEF Publishing

\* Corrections by hand keep the tables' types.
LEMMA CorrectingType == TypeOK /\ Correcting => TypeOK'
<1> SUFFICES ASSUME TypeOK, Correcting PROVE TypeOK'
  OBVIOUS
<1>1. CASE \E b \in Batches, p \in Products : ReconcileConfirmed(b, p)
  <2> PICK b \in Batches, p \in Products : ReconcileConfirmed(b, p)
    BY <1>1
  <2>1. MoveRow(b, "PUBLISH_UNKNOWN", "PUBLISHED")
            \in [Days -> [Products -> Row]]
    BY MoveRowType DEF RowStates
  <2>2. batches' \in [Batches -> Batch]
    BY BatchUpdate DEF TypeOK, ReconcileConfirmed, PublishStates
  <2> QED BY <2>1, <2>2 DEF TypeOK, ReconcileConfirmed, PostStates, POST_STATUSES,
     locking
<1>2. CASE \E p \in Products, status \in RecordedStatuses :
              RecordPost(p, status)
  BY <1>2, RecordedAssumption DEF TypeOK, RecordPost, Replaces, PostStates
<1> QED BY <1>1, <1>2 DEF Correcting

\* The empty tables have their types.
LEMMA InitType == Init => TypeOK
<1>1. NoBatchRow \in Batch
  BY BoundsAssumption DEF NoBatchRow, NewBatch, Batch, PublishStates
<1>2. NoRow \in Row
  BY BoundsAssumption DEF NoRow, Row, RowStates
<1>3. 1 \in Days /\ {"NONE", "FAILED"} \subseteq PostStates
  BY BoundsAssumption DEF Days, PostStates, POST_STATUSES
<1> SUFFICES ASSUME Init PROVE TypeOK
  OBVIOUS
<1>4. approvals \in Seq(Batches) /\ unknowns \in Seq(Batches)
  BY DEF Init
<1>5. batches \in [Batches -> Batch]
  BY <1>1 DEF Init
<1>6. queue \in [Days -> [Products -> Row]]
  BY <1>2 DEF Init
<1> QED BY <1>3, <1>4, <1>5, <1>6 DEF Init, TypeOK

\* Every transaction keeps the tables' types.
LEMMA NextType == TypeOK /\ [Next]_vars => TypeOK'
<1> SUFFICES ASSUME TypeOK, [Next]_vars PROVE TypeOK'
  OBVIOUS
<1>1. CASE NextDay
  BY <1>1, BoundsAssumption DEF TypeOK, NextDay, Days, locking
<1>2. CASE UNCHANGED vars
  BY <1>2 DEF TypeOK, vars
<1> QED BY <1>1, <1>2, ApprovalType, QueueingType, PublishingType,
           CorrectingType DEF Next

\* Every reachable state has tables of the right types: statuses stay within
\* the CHECK constraints, sequence numbers within 1 to 10, and release and
\* master ids refer to batches.
THEOREM TypeCorrect == Spec => []TypeOK
BY InitType, NextType, PTL DEF Spec

-----------------------------------------------------------------------------
(* The publication lock                                                    *)

\* What the lock needs to be inductive: an attempt is made for the one
\* product of an approved batch,
LiveIsApproved ==
    \A b \in Batches : Live(b) => batches[b].status = "APPROVED"

\* and a begin that found no post has locked a batch that may begin.
BeginsAreApproved ==
    \A b \in begins : batches[b].status = "APPROVED" /\ ~Live(b)

LockInv ==
    /\ TypeOK
    /\ LiveIsApproved
    /\ BeginsAreApproved
    /\ AtMostOneLiveAttempt
    /\ LiveAttemptBlocksProduct

\* The publication columns of every batch, which all steps but a begin, a
\* result and a reconciliation leave alone.
SameAttempts ==
    \A b \in Batches :
        /\ Live(b)' <=> Live(b)
        /\ Live(b) \/ b \in begins =>
                /\ batches'[b].summary = batches[b].summary
                /\ batches'[b].status = "APPROVED"

\* No post is freed, except one that is replaced unseen.
BlocksStay ==
    /\ overwritten \subseteq overwritten'
    /\ \A p \in Products : posts[p] \in Blocking =>
            posts'[p] \in Blocking \/ p \in overwritten'

\* The locks of posts, and of batches in a begin, stay as they are.
SameLocks == UNCHANGED <<posts, begins, overwritten>>

\* An approval neither starts nor ends an attempt.
LEMMA ApprovalSameAttempts == LockInv /\ Approval => SameAttempts /\ SameLocks
<1> SUFFICES ASSUME LockInv, Approval PROVE SameAttempts /\ SameLocks
  OBVIOUS
<1> USE DEF LockInv, TypeOK, LiveIsApproved, BeginsAreApproved, SameAttempts,
            SameLocks, locking, Live
<1>1. CASE \E b \in Batches, source \in Requested, items \in SUBSET Products :
              RequestApproval(b, source, items)
  BY <1>1 DEF RequestApproval, Exists, InFlight, NewBatch
<1>2. CASE \E b \in Batches, decision \in Decisions : Resolve(b, decision)
  BY <1>2 DEF Resolve
<1>3. CASE HoldPreflights
  BY <1>3 DEF HoldPreflights, PendingPreflights
<1> QED BY <1>1, <1>2, <1>3 DEF Approval

\* The queue's transactions neither start nor end an attempt; a release is a
\* new batch that has none.
LEMMA QueueingSameAttempts == LockInv /\ Queueing => SameAttempts /\ SameLocks
<1> SUFFICES ASSUME LockInv, Queueing PROVE SameAttempts /\ SameLocks
  OBVIOUS
<1> USE DEF LockInv, TypeOK, LiveIsApproved, BeginsAreApproved, SameAttempts,
            SameLocks, locking, Live
<1>1. CASE \E m \in Batches, d \in Days, last \in 0..MaxSequence :
              \E place \in Placements(batches[m].summary) :
                  CreateQueue(m, d, last, place)
  BY <1>1 DEF CreateQueue
<1>2. CASE \E m \in Batches, d \in Days, last \in 0..MaxSequence :
              CreateQueueRejected(m, d, last)
  BY <1>2 DEF CreateQueueRejected
<1>3. CASE \E held, m \in Batches, d \in Days : Relink(held, m, d)
  BY <1>3 DEF Relink
<1>4. CASE \E d \in Days, p \in Products, b \in Batches : ReleaseNext(d, p, b)
  BY <1>4 DEF ReleaseNext, Exists, InFlight, NewBatch
<1>5. CASE \E d \in Days : Archive(d)
  BY <1>5 DEF Archive
<1>6. CASE \E d \in Days : SkipStale(d)
  BY <1>6 DEF SkipStale
<1> QED BY <1>1, <1>2, <1>3, <1>4, <1>5, <1>6 DEF Queueing

\* The requests that come before an attempt, or decide against one.
Preparing ==
    \/ \E b \in Batches : Claim(b)
    \/ \E b \in Batches : ReleaseClaim(b)
    \/ \E b \in Batches : PreFailure(b)
    \/ \E b \in Batches : PreflightSuccess(b)

\* Claims and the reports before begin leave the attempts alone.
LEMMA PreparingSameAttempts == LockInv /\ Preparing => SameAttempts /\ SameLocks
<1> SUFFICES ASSUME LockInv, Preparing PROVE SameAttempts /\ SameLocks
  OBVIOUS
<1> USE DEF LockInv, TypeOK, LiveIsApproved, BeginsAreApproved, SameAttempts,
            SameLocks, locking, Live
<1>1. CASE \E b \in Batches : Claim(b)
  BY <1>1 DEF Claim
<1>2. CASE \E b \in Batches : ReleaseClaim(b)
  BY <1>2 DEF ReleaseClaim
<1>3. CASE \E b \in Batches : PreFailure(b)
  BY <1>3 DEF PreFailure, MayPreFail, InFlight
<1>4. CASE \E b \in Batches : PreflightSuccess(b)
  BY <1>4 DEF PreflightSuccess, MayPassPreflight, InFlight
<1> QED BY <1>1, <1>2, <1>3, <1>4 DEF Preparing

\* With the same attempts and locks the batches that are locked by a begin may
\* still begin.
LEMMA SameLocksKeepBegins ==
    LockInv /\ SameAttempts /\ SameLocks => BlocksStay /\ BeginsAreApproved'
BY DEF LockInv, TypeOK, SameAttempts, SameLocks, BlocksStay, BeginsAreApproved,
   Live

\* A step that leaves the attempts alone and frees no post, unless it replaces
\* it unseen, keeps the lock.
LEMMA SameAttemptsKeepLock ==
    ASSUME LockInv, TypeOK', SameAttempts, BlocksStay, BeginsAreApproved'
    PROVE  LockInv'
<1>1. LiveIsApproved'
  BY DEF SameAttempts, LiveIsApproved
<1>2. AtMostOneLiveAttempt'
  BY DEF LockInv, SameAttempts, BlocksStay, AtMostOneLiveAttempt
<1>3. LiveAttemptBlocksProduct'
  BY DEF LockInv, SameAttempts, BlocksStay, LiveAttemptBlocksProduct
<1> QED BY <1>1, <1>2, <1>3 DEF LockInv

\* What a begin commits: batch b has the live attempt for p, and p's post, if
\* there is a blocking one that the begin has not seen, is replaced.
TakesLock(b, p) ==
    /\ ~Live(b) /\ Live(b)'
    /\ batches'[b].summary = {p} /\ batches'[b].status = "APPROVED"
    /\ \A c \in Batches : c # b => batches'[c] = batches[c]
    /\ posts' = [posts EXCEPT ![p] = "PUBLISHING"]
    /\ overwritten' = IF posts[p] \in Blocking THEN overwritten \cup {p}
                                               ELSE overwritten
    /\ begins' = begins \ {b}

\* Both ways to begin take the lock of p for b, and for nobody else.
LEMMA BeginTakesLock ==
    ASSUME LockInv, NEW b \in Batches, NEW p \in Products,
           Begin(b, p) \/ BeginUnlocked(b, p)
    PROVE  TakesLock(b, p)
<1>1. batches[b].summary = {p} /\ batches[b].status = "APPROVED" /\ ~Live(b)
  BY DEF LockInv, BeginsAreApproved, Begin, MayBegin, BeginUnlocked, Live
<1>2. /\ overwritten' = IF posts[p] \in Blocking THEN overwritten \cup {p}
                                                 ELSE overwritten
      /\ begins' = begins \ {b}
  BY DEF Begin, MayBegin, BeginUnlocked, locking
<1>3. MarkPublishing(b, p)
  BY DEF Begin, BeginUnlocked
<1>4. /\ batches'[b].summary = {p} /\ batches'[b].status = "APPROVED"
      /\ batches'[b].publish = "PUBLISHING"
      /\ \A c \in Batches : c # b => batches'[c] = batches[c]
  BY <1>1, <1>3 DEF LockInv, TypeOK, MarkPublishing
<1> QED BY <1>1, <1>2, <1>3, <1>4 DEF TakesLock, MarkPublishing, Live, InFlight

\* The lock that is taken was free, unless a blocking post is replaced.
LEMMA TakenWasFree ==
    ASSUME LockInv, NEW b \in Batches, NEW p \in Products, TakesLock(b, p),
           p \notin overwritten'
    PROVE  \A c \in Batches : Live(c) => p \notin batches[c].summary
<1>1. posts[p] \notin Blocking /\ p \notin overwritten
  BY DEF TakesLock
<1> QED BY <1>1 DEF LockInv, LiveAttemptBlocksProduct

\* A begin preserves the invariant.
LEMMA TakingKeepsLock ==
    ASSUME LockInv, TypeOK', NEW b \in Batches, NEW p \in Products,
           TakesLock(b, p)
    PROVE  LockInv'
<1>1. \A c \in Batches : c # b =>
        batches'[c] = batches[c] /\ (Live(c)' <=> Live(c))
  BY DEF TakesLock, Live
<1>2. overwritten \subseteq overwritten' /\ posts'[p] \in Blocking
  BY DEF TakesLock, Blocking, LockInv, TypeOK
<1>3. LiveIsApproved'
  BY <1>1 DEF LockInv, LiveIsApproved, TakesLock
<1>4. BeginsAreApproved'
  BY <1>1 DEF LockInv, TypeOK, BeginsAreApproved, TakesLock
<1>5. AtMostOneLiveAttempt'
  <2> SUFFICES ASSUME NEW c \in Batches, NEW d \in Batches, Live(c)', Live(d)',
                      c # d
               PROVE  batches'[c].summary \cap batches'[d].summary
                        \subseteq overwritten'
    BY DEF AtMostOneLiveAttempt
  <2>1. CASE c # b /\ d # b
    BY <1>1, <1>2, <2>1 DEF LockInv, AtMostOneLiveAttempt
  <2>2. CASE c = b \/ d = b
    BY <1>1, <2>2, TakenWasFree DEF TakesLock
  <2> QED BY <2>1, <2>2
<1>6. LiveAttemptBlocksProduct'
  <2> SUFFICES ASSUME NEW c \in Batches, Live(c)'
               PROVE  \E q \in Products :
                        /\ batches'[c].summary = {q}
                        /\ posts'[q] \in Blocking \/ q \in overwritten'
    BY DEF LiveAttemptBlocksProduct
  <2>1. CASE c = b
    BY <1>2, <2>1 DEF TakesLock
  <2>2. CASE c # b
    <3>1. PICK q \in Products :
            /\ batches[c].summary = {q}
            /\ posts[q] \in Blocking \/ q \in overwritten
      BY <1>1, <2>2 DEF LockInv, LiveAttemptBlocksProduct
    <3>2. posts'[q] = IF q = p THEN posts'[p] ELSE posts[q]
      BY DEF TakesLock, LockInv, TypeOK
    <3> QED BY <1>1, <1>2, <2>2, <3>1, <3>2
  <2> QED BY <2>1, <2>2
<1> QED BY <1>3, <1>4, <1>5, <1>6 DEF LockInv

\* A result for b leaves the other batches alone; b keeps the lock of p
\* exactly when the outcome is not a failure before the click.
LEMMA ResultKeepsOrDrops ==
    ASSUME LockInv, NEW b \in Batches, NEW p \in Products, NEW t,
           NEW outcome \in Outcomes, Result(b, p, t, outcome)
    PROVE  /\ Live(b) /\ batches[b].summary = {p}
           /\ batches'[b].summary = {p} /\ batches'[b].status = "APPROVED"
           /\ Live(b)' <=> outcome # "FAILED_PRE_SUBMIT"
           /\ \A c \in Batches : c # b => batches'[c] = batches[c]
           /\ \A q \in Products : q # p => posts'[q] = posts[q]
           /\ outcome # "FAILED_PRE_SUBMIT" =>
                posts'[p] \in Blocking \/ p \in overwritten
           /\ begins' = begins /\ overwritten' = overwritten
<1>1. Live(b) /\ batches[b].summary = {p} /\ batches[b].status = "APPROVED"
  BY DEF Result, Awaits, Live, InFlight, LockInv, LiveIsApproved
<1>2. posts[p] \in Blocking \/ p \in overwritten
  BY <1>1 DEF LockInv, LiveAttemptBlocksProduct
<1>3. /\ batches'[b].summary = {p} /\ batches'[b].status = "APPROVED"
      /\ batches'[b].publish = outcome
      /\ \A c \in Batches : c # b => batches'[c] = batches[c]
  BY <1>1 DEF LockInv, TypeOK, Result
<1>4. Live(b)' <=> outcome # "FAILED_PRE_SUBMIT"
  BY <1>3 DEF Live, InFlight, Outcomes
<1>5. /\ \A q \in Products : q # p => posts'[q] = posts[q]
      /\ outcome # "FAILED_PRE_SUBMIT" =>
            posts'[p] \in Blocking \/ p \in overwritten
  BY <1>2 DEF LockInv, TypeOK, Result, PostAfter, Outcomes, Blocking
<1> QED BY <1>1, <1>3, <1>4, <1>5 DEF Result, locking

\* Keeping or dropping the lock of b preserves the invariant.
LEMMA ResultKeepsLock ==
    ASSUME LockInv, TypeOK', NEW b \in Batches, NEW p \in Products, NEW t,
           NEW outcome \in Outcomes, Result(b, p, t, outcome)
    PROVE  LockInv'
<1>1. /\ Live(b) /\ batches[b].summary = {p}
      /\ batches'[b].summary = {p} /\ batches'[b].status = "APPROVED"
      /\ Live(b)' <=> outcome # "FAILED_PRE_SUBMIT"
      /\ \A q \in Products : q # p => posts'[q] = posts[q]
      /\ outcome # "FAILED_PRE_SUBMIT" =>
            posts'[p] \in Blocking \/ p \in overwritten
      /\ begins' = begins /\ overwritten' = overwritten
  BY ResultKeepsOrDrops
<1>2. \A c \in Batches : c # b =>
        batches'[c] = batches[c] /\ (Live(c)' <=> Live(c))
  BY ResultKeepsOrDrops DEF Live
<1>3. LiveIsApproved'
  BY <1>1, <1>2 DEF LockInv, LiveIsApproved
<1>4. BeginsAreApproved'
  BY <1>1, <1>2 DEF LockInv, TypeOK, BeginsAreApproved
<1>5. AtMostOneLiveAttempt'
  <2>1. \A c \in Batches : Live(c)' =>
            Live(c) /\ batches'[c].summary = batches[c].summary
    BY <1>1, <1>2
  <2> QED BY <1>1, <2>1 DEF LockInv, AtMostOneLiveAttempt
<1>6. LiveAttemptBlocksProduct'
  <2> SUFFICES ASSUME NEW c \in Batches, Live(c)'
               PROVE  \E q \in Products :
                        /\ batches'[c].summary = {q}
                        /\ posts'[q] \in Blocking \/ q \in overwritten'
    BY DEF LiveAttemptBlocksProduct
  <2>1. CASE c = b
    BY <1>1, <2>1
  <2>2. CASE c # b
    <3>1. batches'[c] = batches[c] /\ Live(c)
      BY <1>2, <2>2
    <3>2. PICK q \in Products :
            /\ batches[c].summary = {q}
            /\ posts[q] \in Blocking \/ q \in overwritten
      BY <3>1 DEF LockInv, LiveAttemptBlocksProduct
    <3>3. q # p \/ q \in overwritten
      BY <1>1, <2>2, <3>1, <3>2 DEF LockInv, AtMostOneLiveAttempt
    <3> QED BY <1>1, <3>1, <3>2, <3>3
  <2> QED BY <2>1, <2>2
<1> QED BY <1>3, <1>4, <1>5, <1>6 DEF LockInv

\* Settling an unknown batch by hand keeps its attempt.
LEMMA ReconcileSameAttempts ==
    ASSUME LockInv, NEW b \in Batches, NEW p \in Products,
           ReconcileConfirmed(b, p)
    PROVE  SameAttempts /\ BlocksStay /\ BeginsAreApproved' /\ UNCHANGED locking
<1>1. batches[b].publish = "PUBLISH_UNKNOWN"
  BY DEF ReconcileConfirmed, IsNewest
<1>2. SameAttempts
  BY <1>1 DEF LockInv, TypeOK, LiveIsApproved, BeginsAreApproved,
     ReconcileConfirmed, SameAttempts, Live, InFlight
<1>3. begins' = begins /\ overwritten' = overwritten
  BY DEF ReconcileConfirmed, locking
<1>4. BlocksStay
  BY <1>3 DEF LockInv, TypeOK, ReconcileConfirmed, Blocking, BlocksStay
<1>5. BeginsAreApproved'
  BY <1>2, <1>3 DEF LockInv, TypeOK, SameAttempts, BeginsAreApproved
<1> QED BY <1>2, <1>3, <1>4, <1>5 DEF locking

\* The steps that take or drop a lock.
Attempting ==
    \/ \E b \in Batches, p \in Products : Begin(b, p) \/ BeginUnlocked(b, p)
    \/ \E b \in Batches, p \in Products, t \in 1..MaxAttempts,
          outcome \in Outcomes : Result(b, p, t, outcome)

\* The first statement of a begin, and its ROLLBACK.
Locking ==
    \/ \E b \in Batches, p \in Products : FindNoPost(b, p)
    \/ \E b \in Batches : BeginLost(b)

\* Locking a batch and letting it go changes no attempt.
LEMMA LockingSameAttempts ==
    LockInv /\ Locking =>
        SameAttempts /\ BlocksStay /\ BeginsAreApproved' /\ overwritten' = overwritten
<1> SUFFICES ASSUME LockInv, Locking
             PROVE  /\ SameAttempts /\ BlocksStay /\ BeginsAreApproved'
                    /\ overwritten' = overwritten
  OBVIOUS
<1>1. batches' = batches /\ posts' = posts /\ overwritten' = overwritten
  BY DEF Locking, FindNoPost, BeginLost
<1>2. SameAttempts /\ BlocksStay
  BY <1>1 DEF LockInv, LiveIsApproved, BeginsAreApproved, SameAttempts,
     BlocksStay, Live
<1>3. BeginsAreApproved'
  BY <1>1 DEF LockInv, BeginsAreApproved, Locking, FindNoPost, MayBegin,
     BeginLost, Live
<1> QED BY <1>1, <1>2, <1>3

\* upsert_post changes no attempt, and says whose post it replaced.
LEMMA RecordSameAttempts ==
    ASSUME LockInv, NEW p \in Products, NEW status, RecordPost(p, status)
    PROVE  /\ SameAttempts /\ BlocksStay /\ BeginsAreApproved'
           /\ overwritten' \in {overwritten, overwritten \cup {p}}
<1>1. batches' = batches /\ begins' = begins
  BY DEF RecordPost
<1>2. SameAttempts /\ BeginsAreApproved'
  BY <1>1 DEF LockInv, LiveIsApproved, BeginsAreApproved, SameAttempts, Live
<1>3. BlocksStay
  BY DEF LockInv, TypeOK, RecordPost, Replaces, BlocksStay, Blocking
<1> QED BY <1>2, <1>3 DEF RecordPost, Replaces

\* All other steps keep every attempt, and free no post but one that is
\* replaced unseen.
LEMMA OtherStepsSameAttempts ==
    ASSUME LockInv, [Next]_vars, ~Attempting
    PROVE  /\ SameAttempts /\ BlocksStay /\ BeginsAreApproved'
           /\ \/ overwritten' = overwritten
              \/ \E p \in Products : overwritten' = overwritten \cup {p}
<1>1. CASE Approval
  BY <1>1, ApprovalSameAttempts, SameLocksKeepBegins DEF SameLocks
<1>2. CASE Queueing
  BY <1>2, QueueingSameAttempts, SameLocksKeepBegins DEF SameLocks
<1>3. CASE Publishing
  <2>1. Preparing \/ Locking
    BY <1>3 DEF Publishing, Beginning, Preparing, Locking, Attempting
  <2> QED BY <2>1, PreparingSameAttempts, SameLocksKeepBegins,
             LockingSameAttempts DEF SameLocks
<1>4. CASE \E b \in Batches, p \in Products : ReconcileConfirmed(b, p)
  BY <1>4, ReconcileSameAttempts DEF locking
<1>5. CASE \E p \in Products, status \in RecordedStatuses :
              RecordPost(p, status)
  <2> PICK p \in Products, status \in RecordedStatuses : RecordPost(p, status)
    BY <1>5
  <2> QED BY RecordSameAttempts
<1>6. CASE NextDay \/ UNCHANGED vars
  <2>1. batches' = batches /\ SameLocks
    BY <1>6 DEF NextDay, vars, locking, SameLocks
  <2>2. SameAttempts
    BY <2>1 DEF LockInv, LiveIsApproved, BeginsAreApproved, SameAttempts, Live
  <2> QED BY <2>1, <2>2, SameLocksKeepBegins DEF SameLocks
<1> QED BY <1>1, <1>2, <1>3, <1>4, <1>5, <1>6 DEF Next, Correcting

\* Empty tables hold no attempt.
LEMMA LockInvInit == Init => LockInv
<1> SUFFICES ASSUME Init PROVE LockInv
  OBVIOUS
<1>1. \A b \in Batches : ~Live(b)
  BY DEF Init, Live, InFlight, NoBatchRow, NewBatch
<1>2. TypeOK
  BY InitType
<1>3. BeginsAreApproved
  BY DEF Init, BeginsAreApproved
<1> QED BY <1>1, <1>2, <1>3 DEF LockInv, LiveIsApproved, AtMostOneLiveAttempt,
           LiveAttemptBlocksProduct

\* Every transaction preserves the inductive invariant.
LEMMA LockInvStep == LockInv /\ [Next]_vars => LockInv'
<1> SUFFICES ASSUME LockInv, [Next]_vars PROVE LockInv'
  OBVIOUS
<1>1. TypeOK'
  BY NextType DEF LockInv
<1>2. CASE Attempting
  BY <1>1, <1>2, BeginTakesLock, TakingKeepsLock, ResultKeepsLock DEF Attempting
<1>3. CASE ~Attempting
  BY <1>1, <1>3, OtherStepsSameAttempts, SameAttemptsKeepLock
<1> QED BY <1>2, <1>3

\* It holds at any time.
LEMMA LockInvariant == Spec => []LockInv
BY LockInvInit, LockInvStep, PTL DEF Spec

\* begin_extension_publish never grants a product a second attempt while one
\* may have reached the public blog, and its blog_posts row says so, whatever
\* upsert_post records and however begins overlap: except for a product whose
\* blocking post was replaced by a statement that had not seen it.
THEOREM LockCorrect ==
    Spec => [](AtMostOneLiveAttempt /\ LiveAttemptBlocksProduct)
<1>1. LockInv => AtMostOneLiveAttempt /\ LiveAttemptBlocksProduct
  BY DEF LockInv
<1> QED BY LockInvariant, <1>1, PTL

\* In particular a live attempt keeps its product blocked until its post is
\* replaced unseen, whatever is requested, begun, reported or recorded for
\* other batches.
THEOREM LiveAttemptsBlock == Spec => []LiveAttemptBlocksProduct
BY LockCorrect, PTL

-----------------------------------------------------------------------------
(* Implementation of the abstract lock                                     *)

\* The attempts of the abstract lock, for the product q.
LEMMA LockedAttemptsOf ==
    ASSUME NEW q \in Products
    PROVE  LockedAttempts[q] =
              IF q \in overwritten THEN {NoBatch}
              ELSE {b \in Batches : Live(b) /\ batches[b].summary = {q}}
BY DEF LockedAttempts, LiveAttempts

\* The same after a step.
LEMMA LockedAttemptsAfter ==
    ASSUME NEW q \in Products
    PROVE  LockedAttempts'[q] =
              IF q \in overwritten' THEN {NoBatch}
              ELSE {b \in Batches : Live(b)' /\ batches'[b].summary = {q}}
BY DEF LockedAttempts, LiveAttempts

\* A step changes at most the attempts of p, and how: then the abstract lock
\* is taken, dropped or broken, or stutters.
LEMMA LockStep ==
    ASSUME NEW p \in Products, NEW b \in Batches,
           \A q \in Products : q # p => LockedAttempts'[q] = LockedAttempts[q],
           \/ LockedAttempts'[p] = LockedAttempts[p]
           \/ LockedAttempts'[p] = {NoBatch}
           \/ LockedAttempts[p] = {} /\ LockedAttempts'[p] = {b}
           \/ LockedAttempts[p] = {b} /\ LockedAttempts'[p] = {}
    PROVE  [Lock!BreakableNext]_LockedAttempts
<1>1. ASSUME NEW set, LockedAttempts'[p] = set
      PROVE  LockedAttempts' = [LockedAttempts EXCEPT ![p] = set]
  BY <1>1 DEF LockedAttempts
<1>2. CASE LockedAttempts'[p] = LockedAttempts[p]
  <2>1. \A q \in Products : LockedAttempts'[q] = LockedAttempts[q]
    BY <1>2
  <2>2. LockedAttempts' = LockedAttempts
    BY <2>1 DEF LockedAttempts
  <2> QED BY <2>2
<1>3. CASE LockedAttempts'[p] # LockedAttempts[p]
  <2>1. CASE LockedAttempts'[p] = {NoBatch}
    BY <1>1, <1>3, <2>1 DEF Lock!BreakableNext, Lock!Next, Lock!Break
  <2>2. CASE LockedAttempts[p] = {} /\ LockedAttempts'[p] = {b}
    BY <1>1, <1>3, <2>2 DEF Lock!BreakableNext, Lock!Next, Lock!Acquire
  <2>3. CASE LockedAttempts[p] = {b} /\ LockedAttempts'[p] = {}
    BY <1>1, <1>3, <2>3 DEF Lock!BreakableNext, Lock!Next, Lock!Drop
  <2> QED BY <1>3, <2>1, <2>2, <2>3
<1> QED BY <1>2, <1>3

\* Steps that keep the attempts break the lock of a product whose post they
\* replace, and are stuttering steps of the abstract lock otherwise.
LEMMA SameAttemptsBreakOrStutter ==
    ASSUME LockInv, SameAttempts,
           \/ overwritten' = overwritten
           \/ \E p \in Products : overwritten' = overwritten \cup {p}
    PROVE  [Lock!BreakableNext]_LockedAttempts
<1>1. ASSUME NEW q \in Products, q \in overwritten' <=> q \in overwritten
      PROVE  LockedAttempts'[q] = LockedAttempts[q]
  <2>1. {b \in Batches : Live(b)' /\ batches'[b].summary = {q}}
            = {b \in Batches : Live(b) /\ batches[b].summary = {q}}
    BY DEF SameAttempts
  <2> QED BY <1>1, <2>1, LockedAttemptsOf, LockedAttemptsAfter
<1>2. CASE overwritten' = overwritten
  <2>1. \A q \in Products : LockedAttempts'[q] = LockedAttempts[q]
    BY <1>1, <1>2
  <2> QED BY <2>1 DEF LockedAttempts
<1>3. ASSUME NEW p \in Products, overwritten' = overwritten \cup {p}
      PROVE  [Lock!BreakableNext]_LockedAttempts
  <2>1. \A q \in Products : q # p => LockedAttempts'[q] = LockedAttempts[q]
    BY <1>1, <1>3
  <2>2. LockedAttempts'[p] = {NoBatch}
    BY <1>3, LockedAttemptsAfter
  <2>3. LockedAttempts' = [LockedAttempts EXCEPT ![p] = {NoBatch}]
    BY <2>1, <2>2 DEF LockedAttempts
  <2> QED BY <2>3 DEF Lock!BreakableNext, Lock!Break
<1> QED BY <1>2, <1>3

\* begin_extension_publish is Acquire of the abstract lock, or breaks it when
\* it replaces a post that it has not seen.
LEMMA BeginAcquiresOrBreaks ==
    ASSUME LockInv, NEW b \in Batches, NEW p \in Products, TakesLock(b, p)
    PROVE  [Lock!BreakableNext]_LockedAttempts
<1>1. \A c \in Batches : c # b =>
        batches'[c] = batches[c] /\ (Live(c)' <=> Live(c))
  BY DEF TakesLock, Live
<1>2. ASSUME NEW q \in Products, q # p
      PROVE  LockedAttempts'[q] = LockedAttempts[q]
  <2>1. {c \in Batches : Live(c)' /\ batches'[c].summary = {q}}
            = {c \in Batches : Live(c) /\ batches[c].summary = {q}}
    BY <1>1, <1>2 DEF TakesLock
  <2>2. q \in overwritten' <=> q \in overwritten
    BY <1>2 DEF TakesLock
  <2> QED BY <2>1, <2>2, LockedAttemptsOf, LockedAttemptsAfter
<1>3. CASE p \in overwritten'
  <2>1. LockedAttempts'[p] = {NoBatch}
    BY <1>3, LockedAttemptsAfter
  <2> QED BY <1>2, <2>1, LockStep
<1>4. CASE p \notin overwritten'
  <2>1. p \notin overwritten
    BY <1>4 DEF TakesLock
  <2>2. \A c \in Batches : Live(c) => batches[c].summary # {p}
    BY <1>4, TakenWasFree
  <2>3. LockedAttempts[p] = {}
    BY <2>1, <2>2, LockedAttemptsOf
  <2>4. {c \in Batches : Live(c)' /\ batches'[c].summary = {p}} = {b}
    BY <1>1, <2>2 DEF TakesLock
  <2>5. LockedAttempts'[p] = {b}
    BY <1>4, <2>4, LockedAttemptsAfter
  <2> QED BY <1>2, <2>3, <2>5, LockStep
<1> QED BY <1>3, <1>4

\* A failure before the click is Drop of the abstract lock; the other outcomes
\* leave it alone.
LEMMA ResultDropsOrStutters ==
    ASSUME LockInv, NEW b \in Batches, NEW p \in Products, NEW t,
           NEW outcome \in Outcomes, Result(b, p, t, outcome)
    PROVE  [Lock!BreakableNext]_LockedAttempts
<1>1. /\ Live(b) /\ batches[b].summary = {p} /\ batches'[b].summary = {p}
      /\ Live(b)' <=> outcome # "FAILED_PRE_SUBMIT"
      /\ overwritten' = overwritten
  BY ResultKeepsOrDrops
<1>2. \A c \in Batches : c # b =>
        batches'[c] = batches[c] /\ (Live(c)' <=> Live(c))
  BY ResultKeepsOrDrops DEF Live
<1>3. ASSUME NEW q \in Products, q # p \/ outcome # "FAILED_PRE_SUBMIT"
      PROVE  LockedAttempts'[q] = LockedAttempts[q]
  <2>1. {c \in Batches : Live(c)' /\ batches'[c].summary = {q}}
            = {c \in Batches : Live(c) /\ batches[c].summary = {q}}
    BY <1>1, <1>2, <1>3
  <2> QED BY <1>1, <2>1, LockedAttemptsOf, LockedAttemptsAfter
<1>4. CASE outcome # "FAILED_PRE_SUBMIT"
  BY <1>3, <1>4, LockStep
<1>5. CASE p \in overwritten
  <2>1. LockedAttempts'[p] = {NoBatch}
    BY <1>1, <1>5, LockedAttemptsAfter
  <2> QED BY <1>3, <2>1, LockStep
<1>6. CASE outcome = "FAILED_PRE_SUBMIT" /\ p \notin overwritten
  <2>1. \A c \in Batches : c # b /\ Live(c) => batches[c].summary # {p}
    BY <1>1, <1>6 DEF LockInv, AtMostOneLiveAttempt
  <2>2. /\ {c \in Batches : Live(c) /\ batches[c].summary = {p}} = {b}
        /\ {c \in Batches : Live(c)' /\ batches'[c].summary = {p}} = {}
    BY <1>1, <1>2, <1>6, <2>1
  <2>3. LockedAttempts[p] = {b} /\ LockedAttempts'[p] = {}
    BY <1>1, <1>6, <2>2, LockedAttemptsOf, LockedAttemptsAfter
  <2> QED BY <1>3, <2>3, LockStep
<1> QED BY <1>4, <1>5, <1>6

\* The tables implement the lock that the docstring of
\* begin_extension_publish promises: every committed transaction takes one
\* attempt, drops one that failed before the click, or leaves all of them,
\* until a statement replaces the blocking post of a product unseen.
THEOREM LockImplemented == Spec => ImplementsPublishOnce
<1>1. Init => Lock!Init
  <2> SUFFICES ASSUME Init PROVE LockedAttempts = [p \in Products |-> {}]
    BY DEF Lock!Init
  <2>1. \A b \in Batches : ~Live(b)
    BY DEF Init, Live, InFlight, NoBatchRow, NewBatch
  <2>2. \A p \in Products : LockedAttempts[p] = {}
    BY <2>1, LockedAttemptsOf DEF Init
  <2> QED BY <2>2 DEF LockedAttempts
<1>2. LockInv /\ [Next]_vars => [Lock!BreakableNext]_LockedAttempts
  <2> SUFFICES ASSUME LockInv, [Next]_vars PROVE [Lock!BreakableNext]_LockedAttempts
    OBVIOUS
  <2>1. CASE ~Attempting
    BY <2>1, OtherStepsSameAttempts, SameAttemptsBreakOrStutter
  <2>2. CASE \E b \in Batches, p \in Products : Begin(b, p) \/ BeginUnlocked(b, p)
    BY <2>2, BeginTakesLock, BeginAcquiresOrBreaks
  <2>3. CASE \E b \in Batches, p \in Products, t \in 1..MaxAttempts,
                outcome \in Outcomes : Result(b, p, t, outcome)
    BY <2>3, ResultDropsOrStutters
  <2> QED BY <2>1, <2>2, <2>3 DEF Attempting
<1> QED BY <1>1, <1>2, LockInvInit, LockInvStep, PTL
        DEF Spec, ImplementsPublishOnce, Lock!BreakableSpec
=============================================================================
