------------------------- MODULE PublishLock_proofs -------------------------
(***************************************************************************)
(* Theorems about the statements of begin_extension_publish and            *)
(* record_extension_publish_result, for any number of clients, of batches  *)
(* and of attempts: a transaction holds the rows that it has checked, so   *)
(* that what it checked still holds when it writes.                        *)
(***************************************************************************)
EXTENDS PublishLock, FiniteSetTheorems, TLAPS

Begins == {"batch locked", "post checked", "post written"}
Results == {"recording", "recorded"}

Requests == [step : {"idle"} \cup Begins \cup Results, batch : Batches \cup {NoBatch},
             token : 0..MaxAttempts, outcome : Outcomes]

Types ==
    /\ publish \in [Batches -> {"NOT_STARTED"} \cup InFlight \cup Outcomes]
    /\ token \in [Batches -> 0..MaxAttempts]
    /\ batchLock \in [Batches -> Clients \cup {NoClient}]
    /\ postLock \in Clients \cup {NoClient}
    /\ request \in [Clients -> Requests]

\* A transaction that has begun holds the row of its batch.
BatchesAreHeld ==
    \A c \in Clients : request[c].step # "idle" =>
        request[c].batch \in Batches /\ batchLock[request[c].batch] = c

\* A begin waits with a batch that may still be begun.
BegunOnlyOnce ==
    \A c \in Clients : request[c].step \in Begins => token[request[c].batch] < MaxAttempts

\* One that has passed the check of an existing post, or written the post,
\* holds its row.
PostIsHeld ==
    \A c \in Clients :
        /\ request[c].step = "post checked" /\ firstPost # "NONE" =>
            postLock = c /\ post \notin Blocking
        /\ request[c].step = "post written" => postLock = c
        /\ request[c].step = "post written" /\ firstPost # "NONE" => post \notin Blocking
        /\ request[c].step = "recorded" /\ request[c].outcome # "PUBLISH_UNKNOWN" =>
            postLock = c

\* The row of a product never disappears, blocks while an attempt may have
\* reached the blog, and that is one attempt.
RowBlocks ==
    firstPost # "NONE" =>
        /\ post # "NONE"
        /\ \A b \in Batches : publish[b] \in InFlight => post \in Blocking
        /\ \A a, b \in Batches : publish[a] \in InFlight /\ publish[b] \in InFlight => a = b

HeldInv == Types /\ BatchesAreHeld /\ BegunOnlyOnce
LockInv == HeldInv /\ CheckedResultIsCurrent /\ PostIsHeld /\ RowBlocks

-----------------------------------------------------------------------------
(* The steps                                                               *)

\* Nobody holds anything at first.
LEMMA InitHolds == Init => LockInv
<1> SUFFICES ASSUME Init PROVE LockInv
  OBVIOUS
<1>1. Idle \in Requests /\ Idle.step = "idle"
  BY MaxAttemptsAssumption DEF Idle, Requests, Outcomes
<1>2. Types
  BY <1>1, MaxAttemptsAssumption DEF Init, Types
<1>3. BatchesAreHeld /\ BegunOnlyOnce /\ CheckedResultIsCurrent /\ PostIsHeld
  BY <1>1 DEF Init, BatchesAreHeld, BegunOnlyOnce, CheckedResultIsCurrent, PostIsHeld,
     Begins, Results
<1>4. RowBlocks
  BY DEF Init, RowBlocks, InFlight
<1> QED BY <1>2, <1>3, <1>4 DEF LockInv, HeldInv

\* The end of a transaction frees its rows and no other.
LEMMA EndFrees ==
    ASSUME Types, NEW c \in Clients, EndTransaction(c)
    PROVE  /\ batchLock' \in [Batches -> Clients \cup {NoClient}]
           /\ postLock' \in Clients \cup {NoClient}
           /\ request' \in [Clients -> Requests]
           /\ request'[c].step = "idle"
           /\ \A d \in Clients : d # c =>
                /\ request'[d] = request[d]
                /\ \A b \in Batches : batchLock[b] = d => batchLock'[b] = d
                /\ postLock = d => postLock' = d
<1>1. Idle \in Requests /\ Idle.step = "idle"
  BY MaxAttemptsAssumption DEF Idle, Requests, Outcomes
<1> QED BY <1>1 DEF EndTransaction, Types

\* What client c does leaves the transactions and the rows of the others.
OthersKeepTheirRows(c) ==
    /\ \A d \in Clients : d # c =>
        /\ request'[d] = request[d]
        /\ \A b \in Batches : batchLock[b] = d => batchLock'[b] = d
        /\ postLock = d => postLock' = d
    /\ \A b \in Batches : batchLock[b] # c => publish'[b] = publish[b] /\ token'[b] = token[b]

\* Every step of a client keeps types and its own row, and others' rows.
LEMMA StepsKeepRows ==
    ASSUME HeldInv, CheckedResultIsCurrent, NEW c \in Clients, Step(c)
    PROVE  /\ Types' /\ OthersKeepTheirRows(c)
           /\ request'[c].step # "idle" =>
                request'[c].batch \in Batches /\ batchLock'[request'[c].batch] = c
           /\ request'[c].step \in Begins => token'[request'[c].batch] < MaxAttempts
           /\ request'[c].step \in Results =>
                /\ publish'[request'[c].batch] = "PUBLISHING"
                /\ token'[request'[c].batch] = request'[c].token
<1> USE MaxAttemptsAssumption, ClientsAssumption DEF HeldInv
<1>0. request[c] \in Requests
  BY DEF Types
<1>1. ASSUME NEW b \in Batches, LockBatch(c, b)
      PROVE  /\ Types' /\ OthersKeepTheirRows(c)
             /\ request'[c].step = "batch locked" /\ request'[c].batch = b
             /\ batchLock'[b] = c /\ token'[b] < MaxAttempts
  BY <1>0, <1>1 DEF LockBatch, Types, Requests, Begins, OthersKeepTheirRows
<1>a. ASSUME NEW step \in Begins \cup Results, request' = [request EXCEPT ![c].step = step],
             UNCHANGED <<publish, token, batchLock>>,
             postLock' = postLock \/ (postLock = NoClient /\ postLock' = c),
             request[c].step # "idle", step \in Results <=> request[c].step \in Results
      PROVE  /\ Types' /\ OthersKeepTheirRows(c)
             /\ request'[c].batch \in Batches /\ batchLock'[request'[c].batch] = c
             /\ request'[c].step \in Begins => token'[request'[c].batch] < MaxAttempts
             /\ request'[c].step \in Results =>
                /\ publish'[request'[c].batch] = "PUBLISHING"
                /\ token'[request'[c].batch] = request'[c].token
  <2>1. /\ request'[c] \in Requests /\ request'[c].step = step
        /\ request'[c].batch = request[c].batch /\ request'[c].token = request[c].token
        /\ request' \in [Clients -> Requests]
        /\ \A d \in Clients : d # c => request'[d] = request[d]
    BY <1>0, <1>a DEF Types, Requests
  <2>2. request[c].batch \in Batches /\ batchLock[request[c].batch] = c
    BY <1>a DEF BatchesAreHeld
  <2>3. Types' /\ OthersKeepTheirRows(c)
    BY <1>a, <2>1 DEF Types, OthersKeepTheirRows
  <2>4. step \in Begins => request[c].step \in Begins
    BY <1>0, <1>a DEF Requests, Begins, Results
  <2> QED BY <1>a, <2>1, <2>2, <2>3, <2>4
          DEF BegunOnlyOnce, CheckedResultIsCurrent, Results
<1>2. CASE CheckPost(c)
  <2>1. /\ request' = [request EXCEPT ![c].step = "post checked"]
        /\ UNCHANGED <<publish, token, batchLock>>
        /\ postLock' = postLock \/ (postLock = NoClient /\ postLock' = c)
        /\ request[c].step = "batch locked"
    BY <1>2 DEF CheckPost
  <2> QED BY <1>a, <2>1 DEF Begins, Results
<1>3. CASE WritePost(c)
  <2>1. /\ request' = [request EXCEPT ![c].step = "post written"]
        /\ UNCHANGED <<publish, token, batchLock>>
        /\ postLock' = postLock \/ (postLock = NoClient /\ postLock' = c)
        /\ request[c].step = "post checked"
    BY <1>3 DEF WritePost
  <2> QED BY <1>a, <2>1 DEF Begins, Results
<1>4. CASE WriteResult(c)
  <2>1. /\ request' = [request EXCEPT ![c].step = "recorded"]
        /\ UNCHANGED <<publish, token, batchLock>>
        /\ postLock' = postLock \/ (postLock = NoClient /\ postLock' = c)
        /\ request[c].step = "recording"
    BY <1>4 DEF WriteResult
  <2> QED BY <1>a, <2>1 DEF Begins, Results
<1>5. ASSUME NEW b \in Batches, NEW t \in 1..MaxAttempts, NEW outcome \in Outcomes,
             LockResult(c, b, t, outcome)
      PROVE  /\ Types' /\ OthersKeepTheirRows(c)
             /\ request'[c].step = "recording" /\ request'[c].batch = b
             /\ batchLock'[b] = c /\ publish'[b] = "PUBLISHING"
             /\ token'[b] = request'[c].token
  BY <1>0, <1>5 DEF LockResult, Types, Requests, Results, OthersKeepTheirRows
<1>6. CASE RefusePost(c) \/ Rollback(c)
  <2>1. EndTransaction(c) /\ UNCHANGED <<publish, token>>
    BY <1>6 DEF RefusePost, Rollback
  <2> QED BY <2>1, EndFrees DEF Types, OthersKeepTheirRows, Begins, Results
<1>7. CASE CommitBegin(c)
  <2> DEFINE b == request[c].batch
  <2>1. b \in Batches /\ batchLock[b] = c /\ token[b] < MaxAttempts
    BY <1>7 DEF CommitBegin, BatchesAreHeld, BegunOnlyOnce, Begins
  <2>2. /\ publish' = [publish EXCEPT ![b] = "PUBLISHING"]
        /\ token' = [token EXCEPT ![b] = token[b] + 1]
    BY <1>7 DEF CommitBegin
  <2>3. /\ publish' \in [Batches -> {"NOT_STARTED"} \cup InFlight \cup Outcomes]
        /\ token' \in [Batches -> 0..MaxAttempts]
        /\ \A a \in Batches : a # b => publish'[a] = publish[a] /\ token'[a] = token[a]
    BY <2>1, <2>2 DEF Types, InFlight
  <2>4. EndTransaction(c)
    BY <1>7 DEF CommitBegin
  <2> QED BY <2>1, <2>3, <2>4, EndFrees DEF Types, OthersKeepTheirRows, Begins, Results
<1>8. CASE CommitResult(c)
  <2> DEFINE b == request[c].batch
  <2>1. b \in Batches /\ batchLock[b] = c /\ request[c].outcome \in Outcomes
    BY <1>0, <1>8 DEF CommitResult, BatchesAreHeld, Requests
  <2>2. publish' = [publish EXCEPT ![b] = request[c].outcome] /\ token' = token
    BY <1>8 DEF CommitResult
  <2>3. /\ publish' \in [Batches -> {"NOT_STARTED"} \cup InFlight \cup Outcomes]
        /\ token' \in [Batches -> 0..MaxAttempts]
        /\ \A a \in Batches : a # b => publish'[a] = publish[a] /\ token'[a] = token[a]
    BY <2>1, <2>2 DEF Types
  <2>4. EndTransaction(c)
    BY <1>8 DEF CommitResult
  <2> QED BY <2>1, <2>3, <2>4, EndFrees DEF Types, OthersKeepTheirRows, Begins, Results
<1>9. /\ (\E b \in Batches : LockBatch(c, b)) =>
            /\ Types' /\ OthersKeepTheirRows(c)
            /\ request'[c].step = "batch locked" /\ request'[c].batch \in Batches
            /\ batchLock'[request'[c].batch] = c
            /\ token'[request'[c].batch] < MaxAttempts
      /\ (\E b \in Batches, t \in 1..MaxAttempts, outcome \in Outcomes :
            LockResult(c, b, t, outcome)) =>
            /\ Types' /\ OthersKeepTheirRows(c)
            /\ request'[c].step = "recording" /\ request'[c].batch \in Batches
            /\ batchLock'[request'[c].batch] = c
            /\ publish'[request'[c].batch] = "PUBLISHING"
            /\ token'[request'[c].batch] = request'[c].token
  BY <1>1, <1>5
<1> QED BY <1>2, <1>3, <1>4, <1>6, <1>7, <1>8, <1>9 DEF Step, Begins, Results

\* Hence a transaction's batch, and a result's token, are as it found them.
LEMMA HeldStays ==
    ASSUME HeldInv, CheckedResultIsCurrent, NEW c \in Clients, Step(c)
    PROVE  HeldInv' /\ CheckedResultIsCurrent'
<1> USE DEF HeldInv
<1>1. Types' /\ OthersKeepTheirRows(c)
  BY StepsKeepRows
<1>2. ASSUME NEW d \in Clients, d # c, request'[d].step # "idle"
      PROVE  /\ request[d].step = request'[d].step
             /\ request'[d].batch = request[d].batch /\ request'[d].token = request[d].token
             /\ request'[d].batch \in Batches
             /\ batchLock'[request'[d].batch] = d
             /\ publish'[request'[d].batch] = publish[request[d].batch]
             /\ token'[request'[d].batch] = token[request[d].batch]
  <2>1. request'[d] = request[d]
    BY <1>1, <1>2 DEF OthersKeepTheirRows
  <2>2. request[d].batch \in Batches /\ batchLock[request[d].batch] = d
    BY <1>2, <2>1 DEF BatchesAreHeld
  <2> QED BY <1>1, <1>2, <2>1, <2>2 DEF OthersKeepTheirRows
<1>3. BatchesAreHeld'
  <2> SUFFICES ASSUME NEW d \in Clients, request'[d].step # "idle"
               PROVE  request'[d].batch \in Batches /\ batchLock'[request'[d].batch] = d
    BY DEF BatchesAreHeld
  <2>1. CASE d = c
    BY <2>1, StepsKeepRows
  <2>2. CASE d # c
    BY <1>2, <2>2
  <2> QED BY <2>1, <2>2
<1>4. BegunOnlyOnce'
  <2> SUFFICES ASSUME NEW d \in Clients, request'[d].step \in Begins
               PROVE  token'[request'[d].batch] < MaxAttempts
    BY DEF BegunOnlyOnce
  <2>1. CASE d = c
    BY <2>1, StepsKeepRows
  <2>2. CASE d # c
    BY <1>2, <2>2 DEF BegunOnlyOnce, Begins
  <2> QED BY <2>1, <2>2
<1>5. CheckedResultIsCurrent'
  <2> SUFFICES ASSUME NEW d \in Clients, request'[d].step \in Results
               PROVE  /\ publish'[request'[d].batch] = "PUBLISHING"
                      /\ token'[request'[d].batch] = request'[d].token
    BY DEF CheckedResultIsCurrent, Results
  <2>1. CASE d = c
    BY <2>1, StepsKeepRows
  <2>2. CASE d # c
    BY <1>2, <2>2 DEF CheckedResultIsCurrent, Results
  <2> QED BY <2>1, <2>2
<1> QED BY <1>1, <1>3, <1>4, <1>5

\* The row of the post is written by the transaction that holds it, after it
\* was checked: a second request sees the row of the first.
LEMMA RowStays ==
    ASSUME LockInv, NEW c \in Clients, Go(Step(c))
    PROVE  PostIsHeld' /\ RowBlocks'
<1> USE ClientsAssumption DEF LockInv, HeldInv
<1>0. /\ Types' /\ OthersKeepTheirRows(c) /\ firstPost' = firstPost /\ Step(c)
      /\ request[c] \in Requests
  BY StepsKeepRows DEF Go, Types
<1>1. ASSUME UNCHANGED <<post, publish>> PROVE RowBlocks'
  BY <1>0, <1>1 DEF RowBlocks
<1>2. ASSUME UNCHANGED post,
             /\ request'[c].step = "post checked" /\ firstPost # "NONE" =>
                    postLock' = c /\ post \notin Blocking
             /\ request'[c].step = "post written" => postLock' = c
             /\ request'[c].step = "post written" /\ firstPost # "NONE" => post \notin Blocking
             /\ request'[c].step = "recorded" /\ request'[c].outcome # "PUBLISH_UNKNOWN" =>
                    postLock' = c
      PROVE  PostIsHeld'
  <2>1. \A d \in Clients : d # c =>
            request'[d] = request[d] /\ (postLock = d => postLock' = d)
    BY <1>0 DEF OthersKeepTheirRows
  <2>2. PostIsHeld /\ post' = post /\ firstPost' = firstPost
    BY <1>0, <1>2
  <2> QED BY <1>2, <2>1, <2>2 DEF PostIsHeld
<1>3. CASE \/ \E b \in Batches : LockBatch(c, b)
           \/ \E b \in Batches, t \in 1..MaxAttempts, outcome \in Outcomes :
                LockResult(c, b, t, outcome)
  <2>1. UNCHANGED <<post, publish>>
    BY <1>3 DEF LockBatch, LockResult
  <2>2. ASSUME NEW b \in Batches, LockBatch(c, b) PROVE request'[c].step = "batch locked"
    BY <1>0, <2>2 DEF LockBatch, Types, Requests
  <2>3. ASSUME NEW b \in Batches, NEW t \in 1..MaxAttempts, NEW outcome \in Outcomes,
               LockResult(c, b, t, outcome)
        PROVE  request'[c].step = "recording"
    BY <2>3 DEF LockResult, Types
  <2> QED BY <1>1, <1>2, <1>3, <2>1, <2>2, <2>3
<1>4. CASE RefusePost(c) \/ Rollback(c)
  <2>1. EndTransaction(c) /\ UNCHANGED <<post, publish>>
    BY <1>4 DEF RefusePost, Rollback
  <2>2. request'[c].step = "idle"
    BY <2>1, EndFrees
  <2> QED BY <1>1, <1>2, <2>1, <2>2
<1>5. CASE CheckPost(c)
  <2>1. /\ UNCHANGED <<post, publish>> /\ request'[c].step = "post checked"
        /\ post # "NONE" => postLock' = c /\ post \notin Blocking
    BY <1>0, <1>5 DEF CheckPost, Types, Requests
  <2> QED BY <1>1, <1>2, <2>1 DEF RowBlocks
<1>6. CASE WritePost(c)
  <2>1. /\ UNCHANGED <<post, publish>> /\ request'[c].step = "post written"
        /\ postLock' = c /\ request[c].step = "post checked"
    BY <1>0, <1>6 DEF WritePost, Types, Requests
  <2> QED BY <1>1, <1>2, <2>1 DEF PostIsHeld
<1>7. CASE WriteResult(c)
  <2>1. /\ UNCHANGED <<post, publish>> /\ request'[c].step = "recorded"
        /\ request'[c].outcome = request[c].outcome
        /\ request[c].outcome # "PUBLISH_UNKNOWN" => postLock' = c
    BY <1>0, <1>7 DEF WriteResult, Types, Requests
  <2> QED BY <1>1, <1>2, <2>1
<1>8. CASE CommitBegin(c) \/ CommitResult(c)
  <2> DEFINE b == request[c].batch
             o == IF request[c].step = "post written" THEN "PUBLISHING" ELSE request[c].outcome
  <2>0. request[c].step # "idle" /\ EndTransaction(c)
    BY <1>8 DEF CommitBegin, CommitResult
  <2>1. request'[c].step = "idle" /\ b \in Batches
    BY <2>0, EndFrees DEF BatchesAreHeld
  <2>2. publish' = [publish EXCEPT ![b] = o]
    BY <1>8 DEF CommitBegin, CommitResult
  <2>3. /\ publish'[b] = o
        /\ \A a \in Batches : a # b => publish'[a] = publish[a]
    BY <2>1, <2>2 DEF Types
  <2>4. CASE request[c].step = "post written"
    <3>1. post' = "PUBLISHING" /\ postLock = c /\ o = "PUBLISHING"
      BY <1>8, <2>4 DEF CommitBegin, CommitResult, PostIsHeld
    <3>2. firstPost # "NONE" => \A a \in Batches : publish[a] \notin InFlight
      BY <2>4 DEF PostIsHeld, RowBlocks
    <3>3. RowBlocks'
      BY <1>0, <2>1, <2>3, <3>1, <3>2 DEF RowBlocks, Blocking
    <3>4. ASSUME NEW d \in Clients, request'[d].step # "idle"
          PROVE  d # c /\ request'[d] = request[d] /\ postLock # d
      BY <1>0, <2>1, <3>1, <3>4 DEF OthersKeepTheirRows
    <3>5. PostIsHeld'
      BY <1>0, <3>4 DEF PostIsHeld
    <3> QED BY <3>3, <3>5
  <2>5. CASE request[c].step = "recorded"
    <3>1. /\ publish[b] = "PUBLISHING" /\ o = request[c].outcome
          /\ o \in Outcomes
          /\ o = "PUBLISH_UNKNOWN" => post' = post
          /\ o = "PUBLISHED" => post' = "PUBLISHED"
          /\ o = "FAILED_PRE_SUBMIT" => post' = "FAILED"
          /\ o # "PUBLISH_UNKNOWN" => postLock = c
      BY <1>0, <1>8, <2>5 DEF CommitBegin, CommitResult, PostIsHeld, CheckedResultIsCurrent,
         Requests, Outcomes
    <3>2. RowBlocks'
      BY <1>0, <2>1, <2>3, <3>1 DEF RowBlocks, Blocking, InFlight, Outcomes
    <3>3. ASSUME NEW d \in Clients, request'[d].step # "idle"
          PROVE  /\ d # c /\ request'[d] = request[d]
                 /\ postLock = d => postLock' = d /\ post' = post
      BY <1>0, <2>1, <3>1, <3>3 DEF OthersKeepTheirRows
    <3>4. PostIsHeld'
      <4> SUFFICES ASSUME NEW d \in Clients, request'[d].step # "idle"
                   PROVE  /\ request'[d].step = "post checked" /\ firstPost # "NONE" =>
                              postLock' = d /\ post' \notin Blocking
                          /\ request'[d].step = "post written" => postLock' = d
                          /\ request'[d].step = "post written" /\ firstPost # "NONE" =>
                              post' \notin Blocking
                          /\ request'[d].step = "recorded"
                                /\ request'[d].outcome # "PUBLISH_UNKNOWN" => postLock' = d
        BY <1>0 DEF PostIsHeld
      <4> QED BY <3>3 DEF PostIsHeld
    <3> QED BY <3>2, <3>4
  <2> QED BY <1>8, <2>4, <2>5 DEF CommitBegin, CommitResult
<1> QED BY <1>0, <1>3, <1>4, <1>5, <1>6, <1>7, <1>8 DEF Step

\* The invariant of the locks holds whatever the clients do.
LEMMA LocksHold == Spec => []LockInv
<1>1. LockInv /\ [Next]_vars => LockInv'
  <2> SUFFICES ASSUME LockInv, [Next]_vars PROVE LockInv'
    OBVIOUS
  <2>1. ASSUME NEW c \in Clients, Go(Step(c)) PROVE LockInv'
    BY <2>1, HeldStays, RowStays DEF LockInv, Go
  <2>2. CASE UNCHANGED vars
    BY <2>2 DEF vars, LockInv, HeldInv, Types, BatchesAreHeld, BegunOnlyOnce,
       CheckedResultIsCurrent, PostIsHeld, RowBlocks
  <2> QED BY <2>1, <2>2 DEF Next
<1> QED BY <1>1, InitHolds, PTL DEF Spec

-----------------------------------------------------------------------------
(* Theorems                                                                *)

\* "A duplicate click or a second device fail closed", for every product that
\* had a blog_posts row before: at most one of its batches is live.
THEOREM BeginsFailClosed == Spec => []FailsClosedWithRow
<1>1. LockInv => FailsClosedWithRow
  <2> SUFFICES ASSUME LockInv, firstPost # "NONE"
               PROVE  Cardinality(LiveBatches) <= 1
    BY DEF FailsClosedWithRow, FailsClosed
  <2>1. CASE LiveBatches = {}
    BY <2>1, FS_EmptySet
  <2>2. ASSUME NEW b \in LiveBatches PROVE Cardinality(LiveBatches) <= 1
    <3>1. \A a \in LiveBatches : a = b
      BY DEF LockInv, RowBlocks, LiveBatches
    <3>2. LiveBatches = {b}
      BY <3>1
    <3>3. Cardinality({b}) = 1
      BY FS_Singleton
    <3> QED BY <3>2, <3>3
  <2> QED BY <2>1, <2>2
<1> QED BY <1>1, LocksHold, PTL

\* What a result was checked against still holds when it is written.
THEOREM ResultsAreCurrent == Spec => []CheckedResultIsCurrent
<1>1. LockInv => CheckedResultIsCurrent
  BY DEF LockInv
<1> QED BY <1>1, LocksHold, PTL
-----------------------------------------------------------------------------
(* Implementation of the abstract lock                                     *)

\* The lock of PublishOnce for the one product of this module: its attempts
\* are the batches that may have reached the blog.
TheProduct == {"product"}
Lock == INSTANCE PublishOnce
            WITH Products <- TheProduct, Broken <- NoBatch,
                 attempts <- [p \in TheProduct |-> LiveBatches]

\* The first batch to become live acquires the lock.
LEMMA FirstAcquires ==
    ASSUME NEW b \in Batches, LiveBatches = {}, LiveBatches' = {b}
    PROVE  Lock!Next
<1> DEFINE attempts == [p \in TheProduct |-> LiveBatches]
<1>1. /\ attempts["product"] = {} /\ attempts'["product"] = {b}
      /\ attempts' = [attempts EXCEPT !["product"] = {b}]
  BY DEF TheProduct
<1>2. Lock!Acquire("product", b)
  BY <1>1 DEF Lock!Acquire
<1> QED BY <1>1, <1>2 DEF Lock!Next, TheProduct

\* The batch that is live no more drops it.
LEMMA LastDrops ==
    ASSUME NEW b \in Batches, LiveBatches = {b}, LiveBatches' = {}
    PROVE  Lock!Next
<1> DEFINE attempts == [p \in TheProduct |-> LiveBatches]
<1>1. /\ attempts["product"] = {b} /\ attempts'["product"] = {}
      /\ attempts' = [attempts EXCEPT !["product"] = {}]
  BY DEF TheProduct
<1>2. Lock!Drop("product", b)
  BY <1>1 DEF Lock!Drop
<1> QED BY <1>1, <1>2 DEF Lock!Next, TheProduct

\* The COMMIT of a begin takes the lock: nobody has an attempt, since the row
\* of the post does not block and has been held since that was checked.
LEMMA CommitBeginAcquires ==
    ASSUME LockInv, firstPost # "NONE", NEW c \in Clients, CommitBegin(c)
    PROVE  Lock!Next
<1> DEFINE b == request[c].batch
<1>1. b \in Batches /\ request[c].step = "post written"
  BY DEF CommitBegin, LockInv, HeldInv, BatchesAreHeld
<1>2. post \notin Blocking
  BY <1>1 DEF LockInv, PostIsHeld
<1>3. LiveBatches = {}
  BY <1>2 DEF LockInv, RowBlocks, LiveBatches
<1>4. /\ publish'[b] = "PUBLISHING"
      /\ \A a \in Batches : a # b => publish'[a] = publish[a]
  BY <1>1 DEF CommitBegin, LockInv, HeldInv, Types
<1>5. LiveBatches' = {b}
  BY <1>1, <1>3, <1>4 DEF LiveBatches, InFlight
<1> QED BY <1>1, <1>3, <1>5, FirstAcquires

\* The COMMIT of a result drops the one attempt, or leaves it as it is.
LEMMA CommitResultDrops ==
    ASSUME LockInv, firstPost # "NONE", NEW c \in Clients, CommitResult(c)
    PROVE  Lock!Next \/ LiveBatches' = LiveBatches
<1> DEFINE b == request[c].batch
           outcome == request[c].outcome
<1>1. b \in Batches /\ publish[b] = "PUBLISHING" /\ outcome \in Outcomes
  <2>1. request[c].step = "recorded" /\ request[c] \in Requests
    BY DEF CommitResult, LockInv, HeldInv, Types
  <2> QED BY <2>1 DEF LockInv, HeldInv, BatchesAreHeld, CheckedResultIsCurrent, Requests
<1>2. LiveBatches = {b}
  BY <1>1 DEF LockInv, RowBlocks, LiveBatches, InFlight
<1>3. /\ publish'[b] = outcome
      /\ \A a \in Batches : a # b => publish'[a] = publish[a]
  BY <1>1 DEF CommitResult, LockInv, HeldInv, Types
<1> HIDE DEF b, outcome
<1>4. CASE outcome = "FAILED_PRE_SUBMIT"
  <2>1. LiveBatches' = {}
    BY <1>2, <1>3, <1>4 DEF LiveBatches, InFlight
  <2> QED BY <1>1, <1>2, <2>1, LastDrops
<1>5. CASE outcome # "FAILED_PRE_SUBMIT"
  <2>1. LiveBatches' = {b}
    BY <1>1, <1>2, <1>3, <1>5 DEF LiveBatches, InFlight, Outcomes
  <2> QED BY <1>2, <2>1
<1> QED BY <1>4, <1>5

\* For a product that had a row the statements implement the lock that the
\* docstring of begin_extension_publish promises: each COMMIT takes the lock,
\* drops it or leaves it alone, and no other statement is seen.
THEOREM StatementsImplementLock ==
    Spec => (firstPost # "NONE" => Lock!Spec)
<1> DEFINE attempts == [p \in TheProduct |-> LiveBatches]
<1>1. Init => Lock!Init
  <2> SUFFICES ASSUME Init PROVE LiveBatches = {}
    BY DEF Lock!Init
  <2> QED BY DEF Init, LiveBatches, InFlight
<1>2. LockInv /\ firstPost # "NONE" /\ [Next]_vars => [Lock!Next]_attempts
  <2> SUFFICES ASSUME LockInv, firstPost # "NONE", [Next]_vars
               PROVE  Lock!Next \/ LiveBatches' = LiveBatches
    OBVIOUS
  <2>1. CASE UNCHANGED publish
    BY <2>1 DEF LiveBatches
  <2>2. ASSUME NEW c \in Clients, Step(c) PROVE Lock!Next \/ LiveBatches' = LiveBatches
    <3>1. CASE CommitBegin(c)
      BY <3>1, CommitBeginAcquires
    <3>2. CASE CommitResult(c)
      BY <3>2, CommitResultDrops
    <3>3. CASE ~CommitBegin(c) /\ ~CommitResult(c)
      <4>1. UNCHANGED publish
        BY <2>2, <3>3 DEF Step, LockBatch, CheckPost, RefusePost, WritePost, LockResult,
           WriteResult, Rollback
      <4> QED BY <2>1, <4>1
    <3> QED BY <3>1, <3>2, <3>3
  <2> QED BY <2>1, <2>2 DEF Next, Go, vars
<1>3. firstPost # "NONE" /\ [Next]_vars => (firstPost # "NONE")'
  BY DEF Next, Go, vars
<1> QED BY <1>1, <1>2, <1>3, LocksHold, PTL DEF Spec, Lock!Spec
=============================================================================
