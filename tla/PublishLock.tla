---------------------------- MODULE PublishLock ----------------------------
(***************************************************************************)
(* begin_extension_publish and record_extension_publish_result, statement  *)
(* by statement, for one product and the approval batches made for it.     *)
(*                                                                         *)
(* PublicationStore takes each of them as one or two steps.  Here clients  *)
(* (devices, tabs, repeated requests) run the statements concurrently in   *)
(* PostgreSQL's READ COMMITTED: a statement sees what was committed before *)
(* it, FOR UPDATE waits for the row's lock and then sees the newest row,   *)
(* and locks nothing where there is no row; an INSERT of an existing key   *)
(* waits for the transaction that holds the row and then updates it.       *)
(***************************************************************************)
EXTENDS Naturals, FiniteSets

CONSTANTS
    Clients,     \* concurrent requests
    Batches,     \* approved, claimed single-item batches of the product
    NoClient,    \* nobody
    NoBatch,     \* no batch
    MaxAttempts  \* bound: publication attempts of one batch

ASSUME ClientsAssumption == NoClient \notin Clients
ASSUME NoBatchAssumption == NoBatch \notin Batches
ASSUME MaxAttemptsAssumption == MaxAttempts \in Nat \ {0}

VARIABLES
    publish,    \* committed publish_state per batch
    firstPost,  \* what the product's blog_posts row was before, never changed
    post,       \* committed status of the product's blog_posts row
    token,      \* publish_token_hash per batch, numbered as drawn, 0 before
    batchLock,  \* who holds the lock of a batch row
    postLock,   \* who holds the lock of the blog_posts row, or is inserting it
    request     \* the transaction of each client

vars == <<publish, firstPost, post, token, batchLock, postLock, request>>

InFlight == {"PUBLISHING", "PUBLISHED", "PUBLISH_UNKNOWN"}
Blocking == {"PUBLISHING", "PUBLISHED"}
Outcomes == {"PUBLISHED", "PUBLISH_UNKNOWN", "FAILED_PRE_SUBMIT"}

Idle == [step |-> "idle", batch |-> NoBatch, token |-> 0, outcome |-> "PUBLISHED"]

\* The end of client c's transaction, by COMMIT or ROLLBACK.
EndTransaction(c) ==
    /\ batchLock' = [b \in Batches |->
                        IF batchLock[b] = c THEN NoClient ELSE batchLock[b]]
    /\ postLock' = IF postLock = c THEN NoClient ELSE postLock
    /\ request' = [request EXCEPT ![c] = Idle]

CheckBatchUnlocked(c, b) ==
    /\ request[c].step = "idle"
    /\ publish[b] \notin InFlight
    /\ token[b] < MaxAttempts
    /\ request' = [request EXCEPT ![c].step = "batch locked", ![c].batch = b]
    /\ UNCHANGED <<publish, post, token, batchLock, postLock>>

\* SELECT ... FROM publication_approval_batches WHERE id = b FOR UPDATE, and
\* the checks of the batch; a refusal changes nothing.
LockBatch(c, b) ==
    /\ request[c].step = "idle"
    /\ batchLock[b] = NoClient
    /\ publish[b] \notin InFlight
    /\ token[b] < MaxAttempts
    /\ batchLock' = [batchLock EXCEPT ![b] = c]
    /\ request' = [request EXCEPT ![c].step = "batch locked", ![c].batch = b]
    /\ UNCHANGED <<publish, post, token, postLock>>

CheckPostUnlocked(c) ==
    /\ request[c].step = "batch locked"
    /\ post \notin Blocking
    /\ request' = [request EXCEPT ![c].step = "post checked"]
    /\ UNCHANGED <<publish, post, token, batchLock, postLock>>

\* SELECT status FROM blog_posts ... FOR UPDATE: without a committed row
\* there is nothing to lock and nothing to refuse.
CheckPost(c) ==
    /\ request[c].step = "batch locked"
    /\ IF post = "NONE"
       THEN UNCHANGED postLock
       ELSE postLock = NoClient /\ post \notin Blocking /\ postLock' = c
    /\ request' = [request EXCEPT ![c].step = "post checked"]
    /\ UNCHANGED <<publish, post, token, batchLock>>

\* The product is publishing or published: ValueError, ROLLBACK.
RefusePost(c) ==
    /\ request[c].step = "batch locked"
    /\ postLock = NoClient /\ post \in Blocking
    /\ EndTransaction(c)
    /\ UNCHANGED <<publish, post, token>>

\* INSERT ... ON CONFLICT (platform, product_id) DO UPDATE.
WritePost(c) ==
    /\ request[c].step = "post checked"
    /\ postLock \in {NoClient, c}
    /\ postLock' = c
    /\ request' = [request EXCEPT ![c].step = "post written"]
    /\ UNCHANGED <<publish, post, token, batchLock>>

\* UPDATE of the batch with the new token, which needs the lock of its row,
\* COMMIT, and the answer.
CommitBegin(c) ==
    /\ request[c].step = "post written"
    /\ batchLock[request[c].batch] \in {NoClient, c}
    /\ post' = "PUBLISHING"
    /\ publish' = [publish EXCEPT ![request[c].batch] = "PUBLISHING"]
    /\ token' = [token EXCEPT ![request[c].batch] = @ + 1]
    /\ EndTransaction(c)

ReadBatchForResult(c, b, t, outcome) ==
    /\ request[c].step = "idle"
    /\ batchLock[b] = NoClient
    /\ publish[b] = "PUBLISHING" /\ t = token[b]
    /\ request' = [request EXCEPT ![c] = [step |-> "recording", batch |-> b,
                                          token |-> t, outcome |-> outcome]]
    /\ UNCHANGED <<publish, post, token, batchLock, postLock>>

\* record_extension_publish_result, which a sender may repeat and the network
\* may delay: the batch row is locked, its state and the token are checked.
LockResult(c, b, t, outcome) ==
    /\ request[c].step = "idle"
    /\ batchLock[b] = NoClient
    /\ publish[b] = "PUBLISHING" /\ t = token[b]
    /\ batchLock' = [batchLock EXCEPT ![b] = c]
    /\ request' = [request EXCEPT ![c] = [step |-> "recording", batch |-> b,
                                          token |-> t, outcome |-> outcome]]
    /\ UNCHANGED <<publish, post, token, postLock>>

\* UPDATE blog_posts, which an unknown outcome leaves alone.
WriteResult(c) ==
    /\ request[c].step = "recording"
    /\ IF request[c].outcome = "PUBLISH_UNKNOWN"
       THEN UNCHANGED postLock
       ELSE postLock = NoClient /\ postLock' = c
    /\ request' = [request EXCEPT ![c].step = "recorded"]
    /\ UNCHANGED <<publish, post, token, batchLock>>

CommitResult(c) ==
    /\ request[c].step = "recorded"
    /\ post' = CASE request[c].outcome = "PUBLISHED" -> "PUBLISHED"
                 [] request[c].outcome = "FAILED_PRE_SUBMIT" -> "FAILED"
                 [] OTHER -> post
    /\ publish' = [publish EXCEPT ![request[c].batch] = request[c].outcome]
    /\ EndTransaction(c)
    /\ UNCHANGED token

\* The connection or the container is lost: ROLLBACK.
Rollback(c) ==
    /\ request[c].step # "idle"
    /\ EndTransaction(c)
    /\ UNCHANGED <<publish, post, token>>

-----------------------------------------------------------------------------
Init ==
    /\ publish = [b \in Batches |-> "NOT_STARTED"]
    /\ firstPost \in {"NONE", "FAILED"} /\ post = firstPost
    /\ token = [b \in Batches |-> 0]
    /\ batchLock = [b \in Batches |-> NoClient]
    /\ postLock = NoClient
    /\ request = [c \in Clients |-> Idle]

\* An action of the requests; firstPost remembers the initial state only.
Go(A) == A /\ UNCHANGED firstPost

Step(c) ==
    \/ \E b \in Batches : LockBatch(c, b)
    \/ CheckPost(c)
    \/ RefusePost(c)
    \/ WritePost(c)
    \/ CommitBegin(c)
    \/ \E b \in Batches, t \in 1..MaxAttempts, outcome \in Outcomes :
            LockResult(c, b, t, outcome)
    \/ WriteResult(c)
    \/ CommitResult(c)
    \/ Rollback(c)

Next == \E c \in Clients : Go(Step(c))

Spec == Init /\ [][Next]_vars

\* Every transaction runs on: the database serves each of its statements.
FairSpec ==
    /\ Spec
    /\ \A c \in Clients :
        /\ SF_vars(Go(CheckPost(c) \/ RefusePost(c)))
        /\ SF_vars(Go(WritePost(c)))
        /\ WF_vars(Go(CommitBegin(c)))
        /\ SF_vars(Go(WriteResult(c)))
        /\ WF_vars(Go(CommitResult(c)))

-----------------------------------------------------------------------------
(* Properties                                                              *)

LiveBatches == {b \in Batches : publish[b] \in InFlight}

\* "A duplicate click or a second device fail closed" (docstring of
\* begin_extension_publish): the product has at most one attempt that may
\* have reached the blog, whatever statements interleave.
FailsClosed == Cardinality(LiveBatches) <= 1

\* The promise as far as the code keeps it: for a product that had a
\* blog_posts row, the lock of that row makes every second request fail.
FailsClosedWithRow == firstPost # "NONE" => FailsClosed

\* What a result was checked against still holds when it is written: no
\* other request ends the attempt, or begins the next one, in between.
CheckedResultIsCurrent ==
    \A c \in Clients : request[c].step \in {"recording", "recorded"} =>
        /\ publish[request[c].batch] = "PUBLISHING"
        /\ token[request[c].batch] = request[c].token

\* The locks of batches and of the post are always taken in one order, so
\* that no request waits forever: every transaction ends.
EveryRequestEnds ==
    \A c \in Clients : request[c].step # "idle" ~> request[c].step = "idle"
=============================================================================
