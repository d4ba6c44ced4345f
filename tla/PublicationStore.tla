-------------------------- MODULE PublicationStore --------------------------
(***************************************************************************)
(* The publication tables of automation_store.py: approval batches, blog   *)
(* posts, the scheduled queue and its history.                             *)
(*                                                                         *)
(* Every action is one committed transaction of a handler or of an         *)
(* operator script under scripts/, in the order in which the row locks     *)
(* serialise them.  A guard is the conjunction of the checks that are made *)
(* under those locks and make the handler raise or return early; a         *)
(* rejected call changes nothing and is a stuttering step.  A begin that   *)
(* finds no post row to lock takes two steps.  What other statements read  *)
(* without a lock (the date, the pause flag, the rows that are released,   *)
(* the largest number of a day) may be out of date by the COMMIT: here it  *)
(* is left open, and ReleaseRace and WindowPreparation read it statement   *)
(* by statement.                                                           *)
(***************************************************************************)
EXTENDS Naturals, Sequences, FiniteSets

CONSTANTS
    Products,          \* Toss products (taca_item_id)
    Batches,           \* approval batch ids that may ever be drawn (uuid4)
    NoBatch,           \* a NULL batch id
    LastDay,           \* bound: schedule dates are 1..LastDay
    MaxSequence,       \* CHECK (sequence_no BETWEEN 1 AND 10)
    MaxAttempts,       \* bound: publication attempts of one batch
    Requested,         \* sources of the approvals that scripts ask for
    RecordedStatuses   \* statuses that callers of upsert_post write

ASSUME BatchesAssumption == NoBatch \notin Batches
ASSUME ProductsAssumption == IsFiniteSet(Products)
ASSUME BoundsAssumption ==
    /\ LastDay \in Nat \ {0}
    /\ MaxSequence \in Nat \ {0}
    /\ MaxAttempts \in Nat \ {0}
ASSUME RequestedAssumption == Requested \subseteq {"master", "single", "preflight"}

POST_STATUSES == {"DISCOVERED", "LINK_CREATED", "PRICE_VERIFIED",
                  "DRAFT_CREATED", "AWAITING_APPROVAL", "PUBLISHING",
                  "PUBLISHED", "FAILED", "SKIPPED"}

ASSUME RecordedAssumption == RecordedStatuses \subseteq POST_STATUSES

Days == 1..LastDay

\* Where an approval comes from: a daily or draft-window queue, a single
\* publication, an input preflight, or the release of one queued item.
Sources == {"master", "single", "preflight", "release"}
Decisions == {"APPROVED", "HELD", "EXPIRED"}

\* publish_state values; a batch in InFlight has a publication attempt
\* that may have put a post on the public blog.
PublishStates == {"NOT_STARTED", "PREFLIGHT_PASSED", "FAILED_PRE_SUBMIT",
                  "PUBLISHING", "PUBLISHED", "PUBLISH_UNKNOWN"}
InFlight == {"PUBLISHING", "PUBLISHED", "PUBLISH_UNKNOWN"}
Outcomes == {"PUBLISHED", "PUBLISH_UNKNOWN", "FAILED_PRE_SUBMIT"}

BlockingWithoutPublishing == {"PUBLISHED"}

\* Post statuses that make begin_extension_publish refuse the product.
Blocking == {"PUBLISHING", "PUBLISHED"}

\* blog_posts.status, "NONE" without a row.
PostStates == {"NONE"} \cup POST_STATUSES

TerminalAndReleased ==
    {"PUBLISHED", "FAILED_PRE_SUBMIT", "PUBLISH_UNKNOWN", "SKIPPED", "RELEASED"}

\* The row states that archive_terminal_scheduled_toss_items moves away.
Terminal == {"PUBLISHED", "FAILED_PRE_SUBMIT", "PUBLISH_UNKNOWN", "SKIPPED"}

\* The row states of the queue, "NONE" without a row.
RowStates == {"NONE", "QUEUED", "RELEASED", "PUBLISHED", "FAILED_PRE_SUBMIT",
              "PUBLISH_UNKNOWN", "SKIPPED"}

VARIABLES
    batches,    \* publication_approval_batches, "NONE" before the INSERT
    approvals,  \* the APPROVED batches in decided_at order
    unknowns,   \* the PUBLISH_UNKNOWN batches in publish_finished_at order
    posts,      \* blog_posts.status per product, "NONE" without a row
    queue,      \* scheduled_toss_publish_items per (date, product)
    history,    \* scheduled_toss_publish_history
    today,      \* korea_today()
    begins,     \* batches that are locked by a begin that found no post row
    overwritten \* history: products whose blocking post somebody replaced
                \* without having seen it

vars == <<batches, approvals, unknowns, posts, queue, history, today, begins,
          overwritten>>
locking == <<begins, overwritten>>

-----------------------------------------------------------------------------
(* Records                                                                 *)

Batch == [status : {"NONE", "PENDING"} \cup Decisions,
          source : Sources \cup {"none"},
          summary : SUBSET Products,
          claimed : BOOLEAN,        \* extension_claimed_at IS NOT NULL
          publish : PublishStates,
          attempt : 0..MaxAttempts, \* names the current publish_token_hash
          queued : BOOLEAN]         \* the preparing script ran its queue step

NewBatch(status, source, items) ==
    [status |-> status, source |-> source, summary |-> items,
     claimed |-> FALSE, publish |-> "NOT_STARTED", attempt |-> 0,
     queued |-> FALSE]

NoBatchRow == NewBatch("NONE", "none", {})

Row == [status : RowStates, sequence : 0..MaxSequence,
        master : Batches \cup {NoBatch}, release : Batches \cup {NoBatch}]

NoRow == [status |-> "NONE", sequence |-> 0,
          master |-> NoBatch, release |-> NoBatch]

Archived == [day : Days, product : Products, row : Row]

-----------------------------------------------------------------------------
(* State formulae                                                          *)

Exists(b) == batches[b].status # "NONE"
Single(b) == \E p \in Products : batches[b].summary = {p}
Live(b) == batches[b].publish \in InFlight

\* latest_unclaimed_approved_publication may return b.
Servable(b) ==
    /\ batches[b].status = "APPROVED"
    /\ Single(b)
    /\ ~batches[b].claimed

\* b is the last member of S in the given order of batches.
IsNewest(b, order, S) ==
    \E i \in DOMAIN order :
        /\ order[i] = b
        /\ b \in S
        /\ \A j \in (i + 1)..Len(order) : order[j] \notin S

RowsOf(m, d) == {p \in Products : queue[d][p].master = m
                                  /\ queue[d][p].status = "QUEUED"}

\* The post of p becomes status, by a statement that has not looked at it.
Replaces(p, status) ==
    overwritten' = IF posts[p] \in Blocking /\ status \notin {posts[p], "PUBLISHED"}
                   THEN overwritten \cup {p} ELSE overwritten

\* UPDATE scheduled_toss_publish_items SET status = to
\* WHERE release_batch_id = b AND status = from
MoveRow(b, from, to) ==
    [d \in Days |-> [p \in Products |->
        IF queue[d][p].release = b /\ queue[d][p].status = from
        THEN [queue[d][p] EXCEPT !.status = to]
        ELSE queue[d][p]]]

-----------------------------------------------------------------------------
(* Approvals                                                               *)

\* A script asks for an approval: INSERT with status PENDING.  The checks
\* that made the products eligible ran in earlier transactions.
RequestApproval(b, source, items) ==
    /\ ~Exists(b)
    /\ items # {} /\ Cardinality(items) <= MaxSequence
    /\ source # "master" => \E p \in items : items = {p}
    /\ batches' = [batches EXCEPT ![b] = NewBatch("PENDING", source, items)]
    /\ UNCHANGED <<approvals, unknowns, posts, queue, history, today, locking>>

\* The Telegram answer, or its arrival after expires_at.
Resolve(b, decision) ==
    /\ batches[b].status = "PENDING"
    /\ batches' = [batches EXCEPT ![b].status = decision]
    /\ approvals' = IF decision = "APPROVED" THEN Append(approvals, b)
                                             ELSE approvals
    /\ UNCHANGED <<unknowns, posts, queue, history, today, locking>>

PendingPreflights ==
    {b \in Batches : batches[b].status = "PENDING"
                     /\ batches[b].source = "preflight"}

\* hold_pending_toss_preflight.py holds every pending preflight at once.
HoldPreflights ==
    /\ PendingPreflights # {}
    /\ batches' = [b \in Batches |->
                     IF b \in PendingPreflights
                     THEN [batches[b] EXCEPT !.status = "HELD"]
                     ELSE batches[b]]
    /\ UNCHANGED <<approvals, unknowns, posts, queue, history, today, locking>>

-----------------------------------------------------------------------------
(* The scheduled queue                                                     *)

FitsWithOneTooMany(m, d, last) ==
    /\ \A p \in batches[m].summary : queue[d][p].status = "NONE"
    /\ last + Cardinality(batches[m].summary) <= MaxSequence + 1

\* The rows fit: no date has the product twice, no number exceeds the CHECK.
Fits(m, d, last) ==
    /\ \A p \in batches[m].summary : queue[d][p].status = "NONE"
    /\ last + Cardinality(batches[m].summary) <= MaxSequence

\* create_scheduled_toss_publish_items for the batch that was just sent, in
\* the order place of its summary.  The answer may have arrived before.  The
\* script has asked for the date d, and SELECT MAX(sequence_no) has read the
\* last number, some time ago: other windows and the archive have changed the
\* day since.
CreateQueue(m, d, last, place) ==
    /\ batches[m].source = "master" /\ ~batches[m].queued
    /\ d <= today
    /\ Fits(m, d, last)
    /\ queue' = [queue EXCEPT ![d] = [p \in Products |->
                    IF p \in batches[m].summary
                    THEN [status |-> "QUEUED", sequence |-> last + place[p],
                          master |-> m, release |-> NoBatch]
                    ELSE queue[d][p]]]
    /\ batches' = [batches EXCEPT ![m].queued = TRUE]
    /\ UNCHANGED <<approvals, unknowns, posts, history, today, locking>>

\* A constraint is violated: the whole transaction is rolled back and the
\* script ends, while the approval it asked for stays in Telegram.
CreateQueueRejected(m, d, last) ==
    /\ batches[m].source = "master" /\ ~batches[m].queued
    /\ d <= today
    /\ ~Fits(m, d, last)
    /\ batches' = [batches EXCEPT ![m].queued = TRUE]
    /\ UNCHANGED <<approvals, unknowns, posts, queue, history, today, locking>>

\* request_toss_draft_window_approval.py moves the queued rows of a held
\* window to the new approval m it has just sent for the same items.
Relink(held, m, d) ==
    /\ batches[held].source = "master" /\ batches[held].status = "HELD"
    /\ batches[m].source = "master" /\ ~batches[m].queued
    /\ batches[m].summary = batches[held].summary
    /\ d <= today
    /\ RowsOf(held, d) # {}
    /\ Cardinality(RowsOf(held, d)) = Cardinality(batches[held].summary)
    /\ queue' = [queue EXCEPT ![d] = [p \in Products |->
                    IF p \in RowsOf(held, d)
                    THEN [queue[d][p] EXCEPT !.master = m]
                    ELSE queue[d][p]]]
    /\ batches' = [batches EXCEPT ![m].queued = TRUE]
    /\ UNCHANGED <<approvals, unknowns, posts, history, today, locking>>

AnyQueued(d, p) ==
    queue[d][p].status = "QUEUED" /\ queue[d][p].master \in Batches

\* Rows that may be released: queued behind an approved master, which nobody
\* has locked.
Releasable(d, p) ==
    /\ queue[d][p].status = "QUEUED"
    /\ queue[d][p].master \in Batches \ begins
    /\ batches[queue[d][p].master].status = "APPROVED"

\* release_next_scheduled_toss_item for the day d on which the task began:
\* one row, locked with its master, becomes the single-item approved batch b.
\* That nothing was paused or released when the task looked, and that no
\* other row came first, does not hold any more at the COMMIT, or never did
\* for rows that were locked.
ReleaseNext(d, p, b) ==
    /\ d <= today
    /\ Releasable(d, p)
    /\ ~Exists(b)
    /\ batches' = [batches EXCEPT ![b] = NewBatch("APPROVED", "release", {p})]
    /\ approvals' = Append(approvals, b)
    /\ queue' = [queue EXCEPT ![d][p].status = "RELEASED",
                              ![d][p].release = b]
    /\ UNCHANGED <<unknowns, posts, history, today, locking>>

\* archive_terminal_scheduled_toss_items for day d.
Archive(d) ==
    LET done == {p \in Products : queue[d][p].status \in Terminal}
    IN  /\ done # {}
        /\ history' = history \cup
                {[day |-> d, product |-> p, row |-> queue[d][p]] : p \in done}
        /\ queue' = [queue EXCEPT ![d] = [p \in Products |->
                        IF p \in done THEN NoRow ELSE queue[d][p]]]
        /\ UNCHANGED <<batches, approvals, unknowns, posts, today, locking>>

SkipWholeDay(d) ==
    /\ d < today
    /\ \A p \in Products : queue[d][p].status # "RELEASED"
    /\ \E p \in Products : queue[d][p].status = "QUEUED"
    /\ queue' = [queue EXCEPT ![d] = [p \in Products |->
                    IF queue[d][p].status # "NONE"
                    THEN [queue[d][p] EXCEPT !.status = "SKIPPED"]
                    ELSE queue[d][p]]]
    /\ UNCHANGED <<batches, approvals, unknowns, posts, history, today, locking>>

\* archive_expired_toss_queue.py --apply, up to its call of the archive: a
\* past day without a released row has its queued rows skipped.
SkipStale(d) ==
    /\ d < today
    /\ \A p \in Products : queue[d][p].status # "RELEASED"
    /\ \E p \in Products : queue[d][p].status = "QUEUED"
    /\ queue' = [queue EXCEPT ![d] = [p \in Products |->
                    IF queue[d][p].status = "QUEUED"
                    THEN [queue[d][p] EXCEPT !.status = "SKIPPED"]
                    ELSE queue[d][p]]]
    /\ UNCHANGED <<batches, approvals, unknowns, posts, history, today, locking>>

-----------------------------------------------------------------------------
(* The extension's requests                                                *)

\* mark_publication_approval_claimed, called with an id that was served.
Claim(b) ==
    /\ Servable(b)
    /\ batches' = [batches EXCEPT ![b].claimed = TRUE]
    /\ UNCHANGED <<approvals, unknowns, posts, queue, history, today, locking>>

\* release_latest_extension_claim_for_retry, an operator script.
ReleaseClaim(b) ==
    /\ IsNewest(b, approvals,
                {c \in Batches : batches[c].claimed /\ Single(c)})
    /\ b \notin begins
    /\ batches' = [batches EXCEPT ![b].claimed = FALSE]
    /\ UNCHANGED <<approvals, unknowns, posts, queue, history, today, locking>>

\* The checks of begin_extension_publish for product p.
MayBegin(b, p) ==
    /\ batches[b].status = "APPROVED" /\ batches[b].claimed
    /\ batches[b].summary = {p}
    /\ batches[b].publish \notin InFlight
    /\ posts[p] \notin Blocking
    /\ b \notin begins /\ batches[b].attempt < MaxAttempts

\* The post is marked and a new token is drawn.
MarkPublishing(b, p) ==
    /\ batches[b].attempt < MaxAttempts
    /\ posts' = [posts EXCEPT ![p] = "PUBLISHING"]
    /\ batches' = [batches EXCEPT ![b].publish = "PUBLISHING",
                                  ![b].attempt = @ + 1]
    /\ UNCHANGED <<approvals, unknowns, queue, history, today>>

\* begin_extension_publish of a product that has a post, whose row is locked.
Begin(b, p) ==
    /\ MayBegin(b, p)
    /\ posts[p] # "NONE"
    /\ MarkPublishing(b, p)
    /\ UNCHANGED locking

\* begin_extension_publish of a product without a post: the batch is locked,
\* but FOR UPDATE has locked no post.
FindNoPost(b, p) ==
    /\ MayBegin(b, p)
    /\ posts[p] = "NONE"
    /\ begins' = begins \cup {b}
    /\ UNCHANGED <<batches, approvals, unknowns, posts, queue, history, today,
                   overwritten>>

\* INSERT ... ON CONFLICT DO UPDATE and COMMIT: whatever post there is by now
\* is replaced.
BeginUnlocked(b, p) ==
    /\ b \in begins /\ batches[b].summary = {p}
    /\ begins' = begins \ {b}
    /\ overwritten' = IF posts[p] \in Blocking THEN overwritten \cup {p}
                                               ELSE overwritten
    /\ MarkPublishing(b, p)

\* The connection or the container is lost: ROLLBACK.
BeginLost(b) ==
    /\ b \in begins
    /\ begins' = begins \ {b}
    /\ UNCHANGED <<batches, approvals, unknowns, posts, queue, history, today,
                   overwritten>>

\* The checks of record_extension_pre_publish_failure, which asks for
\* neither a claim nor a token.
MayPreFail(b) ==
    /\ batches[b].status = "APPROVED" /\ Single(b)
    /\ batches[b].publish = "NOT_STARTED"
    /\ b \notin begins


\* record_extension_pre_publish_failure.
PreFailure(b) ==
    /\ MayPreFail(b)
    /\ batches' = [batches EXCEPT ![b].publish = "FAILED_PRE_SUBMIT"]
    /\ queue' = MoveRow(b, "RELEASED", "FAILED_PRE_SUBMIT")
    /\ UNCHANGED <<approvals, unknowns, posts, history, today, locking>>

\* The checks of record_extension_preflight_success.
MayPassPreflight(b) ==
    /\ batches[b].status = "APPROVED" /\ batches[b].claimed
    /\ batches[b].source = "preflight" /\ Single(b)
    /\ batches[b].publish = "NOT_STARTED"
    /\ b \notin begins

\* record_extension_preflight_success.
PreflightSuccess(b) ==
    /\ MayPassPreflight(b)
    /\ batches' = [batches EXCEPT ![b].publish = "PREFLIGHT_PASSED"]
    /\ UNCHANGED <<approvals, unknowns, posts, queue, history, today, locking>>

UnknownFreesPost(p, outcome) ==
    IF outcome = "PUBLISHED" THEN "PUBLISHED" ELSE "FAILED"

\* What record_extension_publish_result writes into blog_posts.
PostAfter(p, outcome) ==
    CASE outcome = "PUBLISHED" -> "PUBLISHED"
      [] outcome = "FAILED_PRE_SUBMIT" -> "FAILED"
      [] OTHER -> posts[p]

AwaitsTokenOnly(b, t) == t = batches[b].attempt

\* A result is accepted once, from the holder of the current token.
Awaits(b, t) == batches[b].publish = "PUBLISHING" /\ t = batches[b].attempt

\* record_extension_publish_result by the holder of the token of attempt t.
Result(b, p, t, outcome) ==
    /\ Awaits(b, t)
    /\ batches[b].summary = {p}
    /\ posts' = [posts EXCEPT ![p] = PostAfter(p, outcome)]
    /\ batches' = [batches EXCEPT ![b].publish = outcome]
    /\ unknowns' = IF outcome = "PUBLISH_UNKNOWN" THEN Append(unknowns, b)
                                                  ELSE unknowns
    /\ queue' = MoveRow(b, "RELEASED", outcome)
    /\ UNCHANGED <<approvals, history, today, locking>>

-----------------------------------------------------------------------------
(* Operator corrections                                                    *)

\* reconcile_user_confirmed_publish.py settles the newest unknown batch.
ReconcileConfirmed(b, p) ==
    /\ IsNewest(b, unknowns,
                {c \in Batches : batches[c].publish = "PUBLISH_UNKNOWN"})
    /\ batches[b].summary = {p}
    /\ posts' = [posts EXCEPT ![p] = "PUBLISHED"]
    /\ batches' = [batches EXCEPT ![b].publish = "PUBLISHED"]
    /\ queue' = MoveRow(b, "PUBLISH_UNKNOWN", "PUBLISHED")
    /\ UNCHANGED <<approvals, unknowns, history, today, locking>>

\* upsert_post overwrites whatever status the product had.
RecordPost(p, status) ==
    /\ posts' = [posts EXCEPT ![p] = status]
    /\ Replaces(p, status)
    /\ UNCHANGED <<batches, approvals, unknowns, queue, history, today, begins>>

\* Midnight in Korea.
NextDay ==
    /\ today < LastDay
    /\ today' = today + 1
    /\ UNCHANGED <<batches, approvals, unknowns, posts, queue, history, locking>>

-----------------------------------------------------------------------------
Init ==
    /\ batches = [b \in Batches |-> NoBatchRow]
    /\ approvals = << >>
    /\ unknowns = << >>
    /\ posts \in [Products -> {"NONE", "FAILED"}]
    /\ queue = [d \in Days |-> [p \in Products |-> NoRow]]
    /\ history = {}
    /\ today = 1
    /\ begins = {}
    /\ overwritten = {}

\* The orders in which the products of a set can stand in a summary.
Placements(items) ==
    {place \in [items -> 1..Cardinality(items)] :
        \A p, q \in items : place[p] = place[q] => p = q}

Approval ==
    \/ \E b \in Batches, source \in Requested, items \in SUBSET Products :
            RequestApproval(b, source, items)
    \/ \E b \in Batches, decision \in Decisions : Resolve(b, decision)
    \/ HoldPreflights

Queueing ==
    \/ \E m \in Batches, d \in Days, last \in 0..MaxSequence :
            \/ \E place \in Placements(batches[m].summary) :
                    CreateQueue(m, d, last, place)
            \/ CreateQueueRejected(m, d, last)
    \/ \E held, m \in Batches, d \in Days : Relink(held, m, d)
    \/ \E d \in Days, p \in Products, b \in Batches : ReleaseNext(d, p, b)
    \/ \E d \in Days : Archive(d)
    \/ \E d \in Days : SkipStale(d)

Beginning ==
    \/ \E b \in Batches, p \in Products :
            Begin(b, p) \/ FindNoPost(b, p) \/ BeginUnlocked(b, p)
    \/ \E b \in Batches : BeginLost(b)

Publishing ==
    \/ \E b \in Batches : Claim(b)
    \/ \E b \in Batches : ReleaseClaim(b)
    \/ Beginning
    \/ \E b \in Batches : PreFailure(b)
    \/ \E b \in Batches : PreflightSuccess(b)
    \/ \E b \in Batches, p \in Products, t \in 1..MaxAttempts,
          outcome \in Outcomes : Result(b, p, t, outcome)

Correcting ==
    \/ \E b \in Batches, p \in Products : ReconcileConfirmed(b, p)
    \/ \E p \in Products, status \in RecordedStatuses : RecordPost(p, status)

Next == Approval \/ Queueing \/ Publishing \/ Correcting \/ NextDay

Spec == Init /\ [][Next]_vars

-----------------------------------------------------------------------------
(* Properties                                                              *)

\* Every table holds rows of its columns' types, within the CHECKs.
TypeOK ==
    /\ batches \in [Batches -> Batch]
    /\ approvals \in Seq(Batches)
    /\ unknowns \in Seq(Batches)
    /\ posts \in [Products -> PostStates]
    /\ queue \in [Days -> [Products -> Row]]
    /\ history \subseteq Archived
    /\ today \in Days
    /\ begins \subseteq Batches
    /\ overwritten \subseteq Products

\* begin_extension_publish lets no product have two attempts that may have
\* reached the public blog, whatever approvals, retries, results, operator
\* corrections and queue items exist for it, unless its blocking post was
\* replaced unseen: by upsert_post, or by a begin that had found no post.
AtMostOneLiveAttempt ==
    \A b, c \in Batches : Live(b) /\ Live(c) /\ b # c =>
        batches[b].summary \cap batches[c].summary \subseteq overwritten

\* As long as a product has such an attempt, known to be public or not, its
\* blog_posts row refuses the next one (check_duplicate, begin).
LiveAttemptBlocksProduct ==
    \A b \in Batches : Live(b) =>
        \E p \in Products : /\ batches[b].summary = {p}
                            /\ posts[p] \in Blocking \/ p \in overwritten

\* The rows, queued or archived, that release batch b was made from.
Traces(b) ==
    {h \in history : h.row.release = b} \cup
    UNION {{[day |-> d, product |-> p, row |-> queue[d][p]] :
               p \in {q \in Products : queue[d][q].release = b}} : d \in Days}

\* Nothing is released for publication that a Telegram answer did not
\* approve: a release batch stands for one row, of its product, whose master
\* was approved, and still does after relinks, retries and archiving.
ReleaseTracesToApproval ==
    \A b \in Batches : batches[b].source = "release" =>
        \E t \in Traces(b) :
            /\ Traces(b) = {t}
            /\ batches[b].summary = {t.product}
            /\ t.row.master \in Batches
            /\ batches[t.row.master].status = "APPROVED"

\* The queue and the batches tell the same story: a released row waits for a
\* batch that has not finished, a finished one has its batch's outcome, and
\* an unfinished release is never lost from the queue.
RowAgreesWithBatch ==
    /\ \A d \in Days, p \in Products :
        LET row == queue[d][p]
            publish == batches[row.release].publish
        IN  /\ row.status \in {"NONE", "QUEUED", "SKIPPED"}
                    <=> row.release = NoBatch
            /\ row.status = "RELEASED" => publish \in {"NOT_STARTED", "PUBLISHING"}
            /\ row.status \in {"PUBLISHED", "PUBLISH_UNKNOWN"} =>
                    publish = row.status
            /\ row.status = "FAILED_PRE_SUBMIT" => publish # "NOT_STARTED"
    /\ \A b \in Batches :
        batches[b].source = "release" /\ batches[b].publish = "NOT_STARTED" =>
            \E d \in Days, p \in Products :
                queue[d][p].release = b /\ queue[d][p].status = "RELEASED"

\* What was archived is not contradicted later: an archived outcome is that of
\* its release batch, an unknown one may be settled since, and only rows that
\* were never released were skipped.
ArchiveAgreesWithBatch ==
    \A h \in history :
        LET publish == batches[h.row.release].publish
        IN  /\ h.row.status = "SKIPPED" <=> h.row.release = NoBatch
            /\ h.row.status = "PUBLISHED" => publish = "PUBLISHED"
            /\ h.row.status = "PUBLISH_UNKNOWN" =>
                    publish \in {"PUBLISH_UNKNOWN", "PUBLISHED"}

\* A recorded outcome stands: a published batch stays published, and an
\* unknown one is only ever settled as published, by hand.
OutcomeIsFinal ==
    [][\A b \in Batches :
        /\ batches[b].publish = "PUBLISHED" => batches'[b].publish = "PUBLISHED"
        /\ batches[b].publish = "PUBLISH_UNKNOWN" =>
              batches'[b].publish \in {"PUBLISH_UNKNOWN", "PUBLISHED"}]_vars

\* A post recorded as published stays so, also when it was recorded by hand
\* during an attempt, unless somebody replaces it unseen: only that attempt's
\* report of a failure before the click overwrites it
\* (record_extension_publish_result does not look at the post).
PublishedIsKept ==
    [][\A p \in Products :
        posts[p] = "PUBLISHED" /\ posts'[p] # "PUBLISHED" =>
            \/ p \in overwritten'
            \/ \E b \in Batches :
                /\ batches[b].publish = "PUBLISHING"
                /\ batches[b].summary = {p}
                /\ batches'[b].publish = "FAILED_PRE_SUBMIT"]_vars

\* The publication lock as its docstring promises it, for every product as
\* long as nobody replaces its post unseen.
LiveAttempts == [p \in Products |->
                    {b \in Batches : Live(b) /\ batches[b].summary = {p}}]
LockedAttempts == [p \in Products |->
                      IF p \in overwritten THEN {NoBatch} ELSE LiveAttempts[p]]
Lock == INSTANCE PublishOnce WITH attempts <- LockedAttempts, Broken <- NoBatch

\* The store implements the lock: attempts are taken and dropped one at a
\* time, and those with a public or unknown outcome are never dropped, until
\* the lock of a product is broken from outside.
ImplementsPublishOnce == Lock!BreakableSpec

=============================================================================
