----------------------------- MODULE ShareLink -----------------------------
(***************************************************************************)
(* Collecting a listing of Toss products, and issuing a share link for     *)
(* each product of it (toss_collector.py), over the client of the Toss     *)
(* Open API (toss_open_api.py) and the tables of automation_store.py.      *)
(*                                                                         *)
(* A run is one call of collect_toss_listing by a script or by a thread of *)
(* the server, or one call of issue_toss_share_link by an administrator.   *)
(* Runs interleave between their SQL statements and their requests.  The   *)
(* link is issued by Toss inside a database transaction, which cannot be   *)
(* rolled back there, and a request whose answer is lost is sent again.    *)
(*                                                                         *)
(* Access tokens are numbered in the order in which the OAuth server first *)
(* hands them out.  It may hand out one of them again, even one that the   *)
(* API has refused, and the API may refuse any token at any time.          *)
(***************************************************************************)
EXTENDS Naturals, Sequences, FiniteSets, FiniteSetsExt

CONSTANTS
    Runs,        \* calls of collect_toss_listing or issue_toss_share_link
    Hosts,       \* processes: the server, and one for every script
    Placements,  \* which process each run may belong to
    Products,    \* item ids
    Listings,    \* the pages that Toss may answer with
    MaxRetries,  \* OPEN_API_MAX_RETRIES, at least one
    MaxTokens,   \* bound: different tokens
    MaxWasted,   \* bound: links that get lost
    Nobody       \* no lock

ASSUME RunsAssumption == /\ Placements \subseteq [Runs -> Hosts]
                         /\ Nobody \notin Runs
                         /\ MaxRetries \in Nat \ {0}
                         /\ MaxTokens \in Nat \ {0}
                         /\ MaxWasted \in Nat

\* What the collector looks at of a product card; a card without a name is
\* not stored.
Item == [id : Products, named : BOOLEAN, soldOut : BOOLEAN]

ASSUME ListingsAssumption == Listings \subseteq Seq(Item)

VARIABLES
    host,         \* the process that each run belongs to
    run,          \* step, listing, position and summary of every run
    call,         \* the api_request that a run is in
    stock,        \* toss_products: whether a product is stored and saleable
    records,      \* toss_collection_runs with their items, by run
    links,        \* toss_share_links: the products that have a row
    productLock,  \* who holds the lock of a toss_products row
    linkLock,     \* who holds the advisory lock of a product
    memory,       \* _memory_token of every process
    file,         \* the token in OPEN_API_TOKEN_STORE_FILE
    newest,       \* the newest token
    issues,       \* how many links Toss issued for a product
    wasted        \* how many of them nobody could store

vars == <<host, run, call, stock, records, links, productLock, linkLock,
          memory, file, newest, issues, wasted>>

database == <<stock, records, links, productLock>>
tokens == <<host, memory, file, newest>>
toss == <<issues, wasted>>

NoToken == 0
\* In the transaction of ensure_toss_share_link.
InLink == {"token", "issuing", "saving", "request", "insert"}
Ended == {"done", "aborted"}

NoRecord == [status |-> "none", items |-> {}]
NewRun == [step |-> "idle", list |-> <<>>, at |-> 0, failed |-> {},
           stopped |-> FALSE]
NewCall == [attempt |-> 0, limit |-> MaxRetries, refused |-> NoToken,
            token |-> NoToken,
            again |-> FALSE]  \* the server has handed out the refused one again

Current(r) == run[r].list[run[r].at]
Fetching(r) == run[r].at = 0

Unlocked(locks, r) ==
    [p \in Products |-> IF locks[p] = r THEN Nobody ELSE locks[p]]

\* The loop of auto_issue_toss_share_links goes on to the next item.
Advanced(state) ==
    [state EXCEPT !.at = @ + 1,
                  !.step = IF state.at < Len(state.list) THEN "link" ELSE "done"]

Goto(r, step) == run' = [run EXCEPT ![r].step = step]

\* Fail that leaves the transaction open.
FailWithoutRollback(r) ==
    /\ run' = [run EXCEPT ![r] =
                  IF Fetching(r) THEN [@ EXCEPT !.step = "failed"]
                  ELSE Advanced([run[r] EXCEPT !.failed = @ \cup {Current(r).id}])]
    /\ call' = [call EXCEPT ![r] = NewCall]
    /\ UNCHANGED linkLock

\* An exception leaves api_request or the transaction around it: ROLLBACK, and
\* the listing, or this one link, has failed.
Fail(r) ==
    /\ run' = [run EXCEPT ![r] =
                  IF Fetching(r) THEN [@ EXCEPT !.step = "failed"]
                  ELSE Advanced([run[r] EXCEPT !.failed = @ \cup {Current(r).id}])]
    /\ linkLock' = Unlocked(linkLock, r)
    /\ call' = [call EXCEPT ![r] = NewCall]

-----------------------------------------------------------------------------
(* Starting                                                                *)

\* collect_toss_listing: GET the page first.
StartCollecting(r) ==
    /\ run[r].step = "idle"
    /\ Goto(r, "token")
    /\ UNCHANGED <<call, database, linkLock, tokens, toss>>

\* issue_toss_share_link for one product that an administrator picked.
StartIssuing(r, p) ==
    /\ run[r].step = "idle"
    /\ run' = [run EXCEPT ![r] =
                  [@ EXCEPT !.step = "link", !.at = 1,
                            !.list = <<[id |-> p, named |-> TRUE,
                                        soldOut |-> FALSE]>>]]
    /\ UNCHANGED <<call, database, linkLock, tokens, toss>>

-----------------------------------------------------------------------------
(* get_access_token                                                        *)

\* _load_cached_token: the process's token, else that of the shared file, else
\* none, as the clock says which are too old by now.
Cached(h) == {memory[h], file, NoToken}

\* _token_lock is held by another thread, which waits for the OAuth server.
TokenLocked(r) ==
    \E s \in Runs \ {r} : host[s] = host[r] /\ run[s].step \in {"issuing", "saving"}

\* A refresh that is satisfied by the cache.
MayAlwaysUseCache(r) == TRUE

MayUseCache(r) == call[r].refused = NoToken

\* The cached token, unless this call was refused one: force_refresh.
LoadToken(r) ==
    /\ run[r].step = "token" /\ ~TokenLocked(r)
    /\ \E cached \in IF MayUseCache(r) THEN Cached(host[r]) ELSE {NoToken} :
          /\ Goto(r, IF cached = NoToken THEN "issuing" ELSE "request")
          /\ call' = [call EXCEPT ![r].token = cached]
          /\ memory' = [memory EXCEPT ![host[r]] =
                            IF cached = NoToken THEN @ ELSE cached]
    /\ UNCHANGED <<host, database, linkLock, file, newest, toss>>

\* _issue_access_token: whatever token the OAuth server answers with is used.
ReceiveToken(r) ==
    /\ run[r].step = "issuing"
    /\ \E token \in 1..(newest + 1) :
          /\ token <= MaxTokens
          /\ newest' = IF token > newest THEN token ELSE newest
          /\ call' = [call EXCEPT ![r].token = token,
                                 ![r].again = (token = call[r].refused)]
    /\ Goto(r, "saving")
    /\ UNCHANGED <<host, database, linkLock, memory, file, toss>>

\* _save_cached_token: in memory, and in the file unless that cannot be written.
SaveToken(r) ==
    /\ run[r].step = "saving"
    /\ memory' = [memory EXCEPT ![host[r]] = call[r].token]
    /\ file' \in {file, call[r].token}
    /\ Goto(r, "request")
    /\ UNCHANGED <<host, call, database, linkLock, newest, toss>>

\* The OAuth server refuses or cannot be reached.
TokenFails(r) ==
    /\ run[r].step = "issuing"
    /\ Fail(r)
    /\ UNCHANGED <<database, tokens, toss>>

-----------------------------------------------------------------------------
(* api_request: GET of the listing while Fetching, else POST /links        *)

\* A link is lost between Toss and the table.
Waste(p) ==
    /\ MapThenSumSet(LAMBDA q : wasted[q], Products) < MaxWasted
    /\ wasted' = [wasted EXCEPT ![p] = @ + 1]

\* Toss issues a link and the run does not learn of it.
WasteLink(r) ==
    /\ ~Fetching(r)
    /\ issues' = [issues EXCEPT ![Current(r).id] = @ + 1]
    /\ Waste(Current(r).id)

Listed(r) ==
    /\ run[r].step = "request" /\ Fetching(r)
    /\ \E list \in Listings :
          run' = [run EXCEPT ![r] = [@ EXCEPT !.list = list, !.at = 1,
                                              !.step = "store"]]
    /\ call' = [call EXCEPT ![r] = NewCall]
    /\ UNCHANGED <<database, linkLock, tokens, toss>>

Issued(r) ==
    /\ run[r].step = "request" /\ ~Fetching(r)
    /\ issues' = [issues EXCEPT ![Current(r).id] = @ + 1]
    /\ Goto(r, "insert")
    /\ call' = [call EXCEPT ![r] = NewCall]
    /\ UNCHANGED <<database, linkLock, tokens, wasted>>

\* 429, 500, no connection or a timeout: again, while attempts are left.
NoAnswer(r) ==
    /\ run[r].step = "request"
    /\ WasteLink(r) \/ UNCHANGED toss
    /\ IF call[r].attempt + 1 < call[r].limit
       THEN /\ call' = [call EXCEPT ![r].attempt = @ + 1]
            /\ UNCHANGED <<run, linkLock>>
       ELSE Fail(r)
    /\ UNCHANGED <<database, tokens>>

\* Unauthorized that keeps its token and the right to refresh it.
UnauthorizedAgain(r) ==
    LET attempt == call[r].attempt + 1
    IN /\ run[r].step = "request"
       /\ call' = [call EXCEPT ![r] =
                      [call[r] EXCEPT !.attempt = attempt,
                          !.limit = IF @ > attempt THEN @ ELSE attempt + 1]]
       /\ Goto(r, "token")
       /\ UNCHANGED <<database, linkLock, tokens, toss>>

\* 401: the first time a token from the server and at least one more attempt,
\* the second time an error.
Unauthorized(r) ==
    LET attempt == call[r].attempt + 1
    IN /\ run[r].step = "request"
       /\ IF call[r].refused = NoToken
          THEN /\ call' = [call EXCEPT ![r] =
                              [call[r] EXCEPT
                                  !.attempt = attempt, !.refused = call[r].token,
                                  !.limit = IF @ > attempt THEN @
                                            ELSE attempt + 1]]
               /\ Goto(r, "token")
               /\ UNCHANGED linkLock
          ELSE Fail(r)
       /\ UNCHANGED <<database, tokens, toss>>

\* Any other error, or an answer of 200 that cannot be read.
Rejected(r) ==
    /\ run[r].step = "request"
    /\ WasteLink(r) \/ UNCHANGED toss
    /\ Fail(r)
    /\ UNCHANGED <<database, tokens>>

\* SHARELINK_OPENAPI_QUOTA_EXCEEDED ends the loop over the items.
QuotaExceeded(r) ==
    /\ run[r].step = "request" /\ ~Fetching(r)
    /\ run' = [run EXCEPT ![r] = [@ EXCEPT !.step = "done", !.stopped = TRUE]]
    /\ linkLock' = Unlocked(linkLock, r)
    /\ call' = [call EXCEPT ![r] = NewCall]
    /\ UNCHANGED <<database, tokens, toss>>

-----------------------------------------------------------------------------
(* store_toss_collection                                                   *)

\* INSERT ... ON CONFLICT DO UPDATE locks the row of the product, in the order
\* of the listing, until the COMMIT.
Upsert(r) ==
    /\ run[r].step = "store" /\ run[r].at <= Len(run[r].list)
    /\ IF Current(r).named
       THEN /\ productLock[Current(r).id] \in {Nobody, r}
            /\ productLock' = [productLock EXCEPT ![Current(r).id] = r]
       ELSE UNCHANGED productLock
    /\ run' = [run EXCEPT ![r].at = @ + 1]
    /\ UNCHANGED <<call, stock, records, links, linkLock, tokens, toss>>

Cards(list, p) == {i \in DOMAIN list : list[i].id = p /\ list[i].named}
Stored(list) == {p \in Products : Cards(list, p) # {}}

\* What a listing says of a product: its last card counts.
StockIn(list, p) ==
    LET last == CHOOSE i \in Cards(list, p) : \A j \in Cards(list, p) : j <= i
    IN IF list[last].soldOut THEN "sold out" ELSE "saleable"

CommitCollection(r) ==
    /\ run[r].step = "store" /\ run[r].at > Len(run[r].list)
    /\ stock' = [p \in Products |->
                  IF p \in Stored(run[r].list) THEN StockIn(run[r].list, p)
                  ELSE stock[p]]
    /\ records' = [records EXCEPT ![r] =
                      [status |-> "COMPLETED", items |-> Stored(run[r].list)]]
    /\ productLock' = Unlocked(productLock, r)
    /\ run' = [run EXCEPT ![r] =
                  [@ EXCEPT !.at = 1,
                            !.step = IF run[r].list = <<>> THEN "done" ELSE "link"]]
    /\ UNCHANGED <<call, links, linkLock, tokens, toss>>

\* The database cannot be reached.
StoreFails(r) ==
    /\ run[r].step = "store" /\ run[r].at = 1
    /\ run' = [run EXCEPT ![r] = [@ EXCEPT !.step = "failed", !.list = <<>>]]
    /\ UNCHANGED <<call, database, linkLock, tokens, toss>>

\* record_toss_collection_failure, whose own failure is ignored.
RecordFailure(r) ==
    /\ run[r].step = "failed"
    /\ records' \in {records, [records EXCEPT ![r].status = "FAILED"]}
    /\ Goto(r, "done")
    /\ UNCHANGED <<call, stock, links, productLock, linkLock, tokens, toss>>

-----------------------------------------------------------------------------
(* auto_issue_toss_share_links and ensure_toss_share_link                  *)

\* seen_ids, and what the listing says is sold out.
Skipped(r) ==
    \/ Current(r).soldOut
    \/ \E i \in 1..(run[r].at - 1) : run[r].list[i].id = Current(r).id

SkipItem(r) ==
    /\ run[r].step = "link"
    /\ Skipped(r)
    /\ run' = [run EXCEPT ![r] = Advanced(@)]
    /\ UNCHANGED <<call, database, linkLock, tokens, toss>>

\* The database cannot be reached: for the transaction this link has failed,
\* for the publisher's id the whole loop.
LinkUnavailable(r) ==
    /\ run[r].step = "link"
    /\ \/ Fail(r)
       \/ /\ run' = [run EXCEPT ![r] = [@ EXCEPT !.step = "done", !.stopped = TRUE]]
          /\ UNCHANGED <<call, linkLock>>
    /\ UNCHANGED <<database, tokens, toss>>

\* No pg_advisory_xact_lock.
AnyLink(r) == TRUE

\* pg_advisory_xact_lock.
LinkIsFree(r) == linkLock[Current(r).id] = Nobody

\* With the lock the link that is stored is reused,
ReuseLink(r) ==
    /\ run[r].step = "link" /\ ~Skipped(r) /\ LinkIsFree(r)
    /\ Current(r).id \in links
    /\ run' = [run EXCEPT ![r] = Advanced(@)]
    /\ UNCHANGED <<call, database, linkLock, tokens, toss>>

\* The listing is trusted.
MayBeLinkedAnyway(p) == TRUE

\* Toss is asked for one if the product is stored and saleable,
MayBeLinked(p) == stock[p] = "saleable"

AskForLink(r) ==
    /\ run[r].step = "link" /\ ~Skipped(r) /\ LinkIsFree(r)
    /\ Current(r).id \notin links
    /\ MayBeLinked(Current(r).id)
    /\ linkLock' = [linkLock EXCEPT ![Current(r).id] = r]
    /\ Goto(r, "token")
    /\ UNCHANGED <<call, database, tokens, toss>>

\* and otherwise the link has failed.
RefuseLink(r) ==
    /\ run[r].step = "link" /\ ~Skipped(r) /\ LinkIsFree(r)
    /\ Current(r).id \notin links
    /\ ~MayBeLinked(Current(r).id)
    /\ Fail(r)
    /\ UNCHANGED <<database, tokens, toss>>

\* INSERT and COMMIT.
InsertLink(r) ==
    /\ run[r].step = "insert"
    /\ links' = links \cup {Current(r).id}
    /\ run' = [run EXCEPT ![r] = Advanced(@)]
    /\ linkLock' = Unlocked(linkLock, r)
    /\ UNCHANGED <<call, stock, records, productLock, tokens, toss>>

\* InvalidLink that is counted like a link.
InvalidLinkCounted(r) ==
    /\ run[r].step = "insert"
    /\ Waste(Current(r).id)
    /\ run' = [run EXCEPT ![r] = Advanced(@)]
    /\ linkLock' = Unlocked(linkLock, r)
    /\ UNCHANGED <<call, database, tokens, issues>>

\* The link in the answer is not valid.
InvalidLink(r) ==
    /\ run[r].step = "insert"
    /\ Waste(Current(r).id)
    /\ Fail(r)
    /\ UNCHANGED <<database, tokens, issues>>

-----------------------------------------------------------------------------
(* Failures and time                                                       *)

\* An error that nobody catches, or the end of the process: ROLLBACK.
RollBack(r) ==
    /\ run' = [run EXCEPT ![r] = [NewRun EXCEPT !.step = "aborted"]]
    /\ productLock' = Unlocked(productLock, r)
    /\ linkLock' = Unlocked(linkLock, r)
    /\ call' = [call EXCEPT ![r] = NewCall]
    /\ UNCHANGED <<stock, records, links, tokens>>

Abort(r) ==
    /\ run[r].step \notin Ended \cup {"idle"}
    /\ RollBack(r)
    /\ \/ run[r].step # "insert" /\ UNCHANGED toss
       \/ run[r].step = "request" /\ WasteLink(r)
       \/ /\ run[r].step = "insert"
          /\ Waste(Current(r).id)
          /\ UNCHANGED issues

\* r waits for a row that s has locked.
WaitsFor(r, s) ==
    /\ run[r].step = "store" /\ run[r].at <= Len(run[r].list)
    /\ Current(r).named /\ r # s
    /\ productLock[Current(r).id] = s

\* PostgreSQL breaks a circle of waiting transactions; psycopg's error is none
\* of those that the collector catches.
BreakDeadlock(r) ==
    /\ \E circle \in SUBSET Runs :
          /\ r \in circle
          /\ \A s \in circle : /\ \E q \in circle : WaitsFor(s, q)
                               /\ \E q \in circle : WaitsFor(q, s)
    /\ RollBack(r)
    /\ UNCHANGED toss

\* A process starts anew without its token in memory.
RestartHost(h) ==
    /\ \A r \in Runs : host[r] = h => run[r].step \in Ended \cup {"idle"}
    /\ memory[h] # NoToken
    /\ memory' = [memory EXCEPT ![h] = NoToken]
    /\ UNCHANGED <<host, run, call, database, linkLock, file, newest, toss>>

-----------------------------------------------------------------------------
Init ==
    /\ host \in Placements
    /\ run = [r \in Runs |-> NewRun]
    /\ call = [r \in Runs |-> NewCall]
    /\ stock = [p \in Products |-> "not stored"]
    /\ records = [r \in Runs |-> NoRecord]
    /\ links = {}
    /\ productLock = [p \in Products |-> Nobody]
    /\ linkLock = [p \in Products |-> Nobody]
    /\ memory = [h \in Hosts |-> NoToken]
    /\ newest = 1
    /\ file \in {NoToken, newest}
    /\ issues = [p \in Products |-> 0]
    /\ wasted = [p \in Products |-> 0]

\* What a run does when it has been started.
Work(r) ==
    \/ LoadToken(r) \/ ReceiveToken(r) \/ SaveToken(r) \/ TokenFails(r)
    \/ Listed(r) \/ Issued(r) \/ NoAnswer(r) \/ Unauthorized(r) \/ Rejected(r)
    \/ QuotaExceeded(r)
    \/ Upsert(r) \/ CommitCollection(r) \/ StoreFails(r) \/ RecordFailure(r)
    \/ SkipItem(r) \/ LinkUnavailable(r)
    \/ ReuseLink(r) \/ AskForLink(r) \/ RefuseLink(r)
    \/ InsertLink(r) \/ InvalidLink(r)
    \/ BreakDeadlock(r)

Next ==
    \/ \E r \in Runs : StartCollecting(r) \/ Work(r) \/ Abort(r)
    \/ \E r \in Runs, p \in Products : StartIssuing(r, p)
    \/ \E h \in Hosts : RestartHost(h)

Spec == Init /\ [][Next]_vars

-----------------------------------------------------------------------------
(* Properties                                                              *)

\* Runs that meet at a product make Toss issue one link for it: every further
\* one was issued because an earlier one got lost on its way to the table
\* (ensure_toss_share_link, "issue and persist exactly one link").
IssuedOnceUnlessWasted == \A p \in Products : issues[p] <= wasted[p] + 1

\* No link is asked for of a product that only a collection contains which was
\* rolled back: what is issued can be stored beside its product.
OnlyCollectedIsIssued ==
    \A p \in Products : issues[p] > 0 => \E r \in Runs : p \in records[r].items

\* When a run has come to its end, each product of its listing that it did
\* not report as failed, nor left alone when it was stopped, has a link, its
\* own or that of another run, unless it is sold out.  That is what the first
\* card of the product says: seen_ids passes over the others.
LinkedUnlessReported ==
    \A r \in Runs : run[r].step = "done" /\ ~run[r].stopped =>
        \A i \in DOMAIN run[r].list :
            \/ \E j \in 1..(i - 1) : run[r].list[j].id = run[r].list[i].id
            \/ run[r].list[i].soldOut
            \/ run[r].list[i].id \in links \cup run[r].failed

\* Retries for lost answers and the retry for a refused token share one budget
\* of attempts and one more (api_request).
AttemptsBounded ==
    \A r \in Runs : run[r].step = "request" => call[r].attempt <= MaxRetries

\* A refused token is never sent again by the same call, whatever other
\* threads and processes leave in memory and in the file meanwhile, unless the
\* OAuth server itself has answered this call with it again.
RefusedTokenIsReplaced ==
    \A r \in Runs : run[r].step = "request" =>
        call[r].token # call[r].refused \/ call[r].again

\* Whoever waits for a product's row or for its advisory lock waits for a run
\* that is in the transaction which took it: an error in the middle of a
\* request or of a transaction leaves no lock behind.
WaitsForWorkers ==
    \A r \in Runs :
        /\ \A s \in Runs : WaitsFor(r, s) => run[s].step = "store"
        /\ \A p \in Products : linkLock[p] = r =>
              run[r].step \in InLink /\ Current(r).id = p

=============================================================================
