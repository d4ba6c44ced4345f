-------------------------- MODULE ShareLink_proofs --------------------------
(***************************************************************************)
(* Theorems about collecting listings and issuing links for any number of  *)
(* runs, processes and products, any listings, and any order in which      *)
(* requests fail, tokens are refused and transactions roll back.           *)
(***************************************************************************)
EXTENDS ShareLink, SequenceTheorems, TLAPS

-----------------------------------------------------------------------------
(* The inductive invariant                                                 *)

Steps == {"idle", "store", "failed", "link"} \cup InLink \cup Ended

RunStates == [step : Steps, list : Seq(Item), at : Nat, failed : SUBSET Products,
              stopped : BOOLEAN]

CallStates == [attempt : Nat, limit : Nat, refused : Nat, token : Nat,
               again : BOOLEAN]

Locks == [Products -> Runs \cup {Nobody}]

Types ==
    /\ run \in [Runs -> RunStates]
    /\ stock \in [Products -> {"not stored", "sold out", "saleable"}]
    /\ records \in [Runs -> [status : {"none", "COMPLETED", "FAILED"},
                             items : SUBSET Products]]
    /\ links \subseteq Products
    /\ productLock \in Locks /\ linkLock \in Locks
    /\ issues \in [Products -> Nat] /\ wasted \in [Products -> Nat]

\* Where a run stands in its listing.
Placed(r) ==
    /\ run[r].step = "idle" => run[r].at = 0
    /\ run[r].step \in {"idle", "failed"} \/ (run[r].step \in InLink /\ run[r].at = 0) =>
            run[r].list = <<>>
    /\ run[r].step \in InLink => run[r].at \in 0..Len(run[r].list)
    /\ run[r].step = "insert" => run[r].at # 0
    /\ run[r].step = "link" => run[r].at \in 1..Len(run[r].list)
    /\ run[r].step = "store" => run[r].at \in 1..(Len(run[r].list) + 1)

FlowInv == Types /\ \A r \in Runs : Placed(r)

\* A run is in the transaction of ensure_toss_share_link.
Asking(r) == run[r].step \in InLink /\ ~Fetching(r)

\* The locks are those of the open transactions, and a product for which a link
\* is asked has none.
LocksInv ==
    /\ \A r \in Runs : Asking(r) =>
            linkLock[Current(r).id] = r /\ Current(r).id \notin links
    /\ \A r \in Runs, p \in Products : linkLock[p] = r =>
            Asking(r) /\ Current(r).id = p
    /\ \A r \in Runs, p \in Products : productLock[p] = r =>
            run[r].step = "store" /\ run[r].at > 1

\* The link of p is in the table or on its way there.
Kept(p) == p \in links \/ \E r \in Runs : run[r].step = "insert" /\ Current(r).id = p

\* What was issued is kept or wasted.
BudgetInv ==
    \A p \in Products :
        /\ issues[p] <= wasted[p] + 1
        /\ ~Kept(p) => issues[p] <= wasted[p]

Collected(p) == \E r \in Runs : p \in records[r].items

\* What is saleable was collected, and links are asked for that; a run has no
\* record before it stores its listing.
CollectedInv ==
    /\ \A p \in Products : stock[p] = "saleable" => Collected(p)
    /\ \A r \in Runs : Asking(r) => Collected(Current(r).id)
    /\ \A r \in Runs :
            \/ run[r].step \in {"idle", "store"}
            \/ run[r].step \in InLink /\ Fetching(r)
         => records[r].items = {}
    /\ OnlyCollectedIsIssued

\* The card at position i is not the first of its product, or that is sold out,
\* has a link or has failed.
Covered(r, i) ==
    \/ \E j \in 1..(i - 1) : run[r].list[j].id = run[r].list[i].id
    \/ run[r].list[i].soldOut
    \/ run[r].list[i].id \in links \cup run[r].failed

\* The loop has covered all the cards before the current one.
CoveredInv ==
    \A r \in Runs :
        /\ run[r].step = "link" \/ Asking(r) => \A i \in 1..(run[r].at - 1) : Covered(r, i)
        /\ run[r].step = "done" /\ ~run[r].stopped =>
                \A i \in 1..Len(run[r].list) : Covered(r, i)

\* The budget of attempts, and where the tokens come from.
CallInv ==
    /\ memory \in [Hosts -> Nat] /\ file \in Nat /\ newest \in Nat /\ file <= newest
    /\ \A h \in Hosts : memory[h] <= newest
    /\ call \in [Runs -> CallStates]
    /\ \A r \in Runs :
        /\ call[r].attempt < call[r].limit /\ call[r].limit <= MaxRetries + 1
        /\ call[r].refused = NoToken => call[r].limit = MaxRetries
        /\ call[r].refused <= newest /\ call[r].token <= newest
        /\ run[r].step \in {"saving", "request"} =>
            call[r].token # NoToken /\ (call[r].token # call[r].refused \/ call[r].again)

LinkInv == FlowInv /\ LocksInv /\ BudgetInv /\ CollectedInv /\ CoveredInv

-----------------------------------------------------------------------------
(* What the steps do to a run                                              *)

SameItems(r) ==
    /\ run'[r].list = run[r].list /\ run'[r].at = run[r].at
    /\ run'[r].failed = run[r].failed /\ run'[r].stopped = run[r].stopped

\* ROLLBACK or COMMIT, or there was no transaction.
Releases(r) ==
    \/ linkLock' = Unlocked(linkLock, r)
    \/ run[r].step = "link" /\ linkLock' = linkLock

\* The call of the API goes on.
Continues(r) ==
    /\ run[r].step \in {"idle", "token", "issuing", "saving", "request"}
    /\ run'[r].step \in {"token", "issuing", "saving", "request"}
    /\ SameItems(r)
    /\ UNCHANGED <<database, linkLock>>

\* An administrator picks a product.
Picks(r) ==
    /\ run[r].step = "idle" /\ run'[r].step = "link"
    /\ run'[r].at = 1 /\ Len(run'[r].list) = 1
    /\ UNCHANGED <<database, linkLock>>

\* The listing is here.
Lists(r) ==
    /\ run[r].step = "request" /\ Fetching(r)
    /\ run'[r].step = "store" /\ run'[r].at = 1
    /\ UNCHANGED <<database, linkLock>>

\* The listing failed.
GivesUp(r) ==
    /\ run[r].step \in InLink /\ Fetching(r)
    /\ run'[r].step = "failed" /\ SameItems(r)
    /\ Releases(r) /\ UNCHANGED database

\* A link is asked for.
Asks(r) ==
    /\ run[r].step = "link" /\ run'[r].step = "token" /\ SameItems(r)
    /\ LinkIsFree(r) /\ Current(r).id \notin links /\ stock[Current(r).id] = "saleable"
    /\ linkLock' = [linkLock EXCEPT ![Current(r).id] = r]
    /\ UNCHANGED database

\* The link is here.
Receives(r) ==
    /\ run[r].step = "request" /\ ~Fetching(r)
    /\ run'[r].step = "insert" /\ SameItems(r)
    /\ UNCHANGED <<database, linkLock>>

\* The loop goes on to the next card.
GoesOn(r) ==
    /\ run[r].step \in InLink \cup {"link"} /\ ~Fetching(r)
    /\ run'[r].at = run[r].at + 1
    /\ run'[r].step = IF run[r].at < Len(run[r].list) THEN "link" ELSE "done"
    /\ run'[r].list = run[r].list /\ run[r].failed \subseteq run'[r].failed
    /\ \/ Skipped(r)
       \/ Current(r).id \in links' \cup run'[r].failed
    /\ \/ links' = links
       \/ run[r].step = "insert" /\ links' = links \cup {Current(r).id}
    /\ Releases(r) /\ UNCHANGED <<stock, records, productLock>>

\* The loop ends before its time.
Stops(r) ==
    /\ run[r].step \in InLink \cup {"link"} /\ ~Fetching(r)
    /\ run'[r].step = "done" /\ run'[r].stopped
    /\ Releases(r) /\ UNCHANGED database

\* The run ends in the middle of what it does.
RollsBack(r) ==
    /\ run'[r].step = "aborted"
    /\ productLock' = Unlocked(productLock, r) /\ linkLock' = Unlocked(linkLock, r)
    /\ UNCHANGED <<stock, records, links>>

\* The listing is stored, or that has failed.
Stores(r) == Upsert(r) \/ CommitCollection(r) \/ StoreFails(r) \/ RecordFailure(r)

Kinds(r) ==
    \/ Continues(r) \/ Picks(r) \/ Lists(r) \/ GivesUp(r) \/ Asks(r) \/ Receives(r)
    \/ GoesOn(r) \/ Stops(r) \/ RollsBack(r) \/ Stores(r)

\* A step of one run.
StepOf(r) ==
    /\ run' \in [Runs -> RunStates] /\ \A s \in Runs : s # r => run'[s] = run[s]
    /\ Kinds(r)

\* What a step of one run does to the links and their count.
Ledger(r) ==
    \/ /\ run[r].step # "insert" /\ run'[r].step # "insert" /\ links' = links
       /\ UNCHANGED toss \/ (run[r].step = "request" /\ WasteLink(r))
    \/ Issued(r) \/ InsertLink(r)
    \/ /\ run[r].step = "insert" /\ run'[r].step # "insert" /\ links' = links
       /\ Waste(Current(r).id) /\ UNCHANGED issues

\* A run goes to another step and nowhere else.
LEMMA GotoIs ==
    ASSUME Types, NEW r \in Runs, NEW step \in Steps, Goto(r, step)
    PROVE  /\ run' \in [Runs -> RunStates] /\ \A s \in Runs : s # r => run'[s] = run[s]
           /\ run'[r].step = step /\ SameItems(r)
<1>1. run[r] \in RunStates
  BY DEF Types
<1> QED BY <1>1 DEF Types, Goto, RunStates, SameItems

\* The loop goes on with the next card, if there is one.
LEMMA AdvancedIs ==
    ASSUME NEW state \in RunStates
    PROVE  /\ Advanced(state) \in RunStates
           /\ Advanced(state).at = state.at + 1
           /\ Advanced(state).step = IF state.at < Len(state.list) THEN "link" ELSE "done"
           /\ Advanced(state).list = state.list
           /\ Advanced(state).failed = state.failed
           /\ Advanced(state).stopped = state.stopped
<1>1. state.at \in Nat /\ Len(state.list) \in Nat
  BY LenProperties DEF RunStates
<1>2. PICK step \in {"link", "done"} :
        step = IF state.at < Len(state.list) THEN "link" ELSE "done"
  OBVIOUS
<1>3. Advanced(state) = [state EXCEPT !.at = state.at + 1, !.step = step]
  BY <1>2 DEF Advanced
<1>4. /\ Advanced(state).at = state.at + 1 /\ Advanced(state).step = step
      /\ Advanced(state).list = state.list /\ Advanced(state).failed = state.failed
      /\ Advanced(state).stopped = state.stopped
  BY <1>3 DEF RunStates
<1>5. Advanced(state) \in RunStates
  <2>1. state.at + 1 \in Nat /\ step \in Steps
    BY <1>1 DEF Steps, Ended
  <2> QED BY <1>3, <2>1 DEF RunStates
<1> QED BY <1>2, <1>4, <1>5

\* The current card is one of the listing.
LEMMA CurrentIsItem ==
    ASSUME FlowInv, NEW r \in Runs,
           \/ run[r].step \in InLink \cup {"link"} /\ ~Fetching(r)
           \/ run[r].step = "store" /\ run[r].at <= Len(run[r].list)
    PROVE  /\ run[r].at \in 1..Len(run[r].list) /\ Current(r) \in Item
           /\ Current(r).id \in Products
<1>1. run[r].at \in 1..Len(run[r].list) /\ run[r].list \in Seq(Item)
  <2>1. run[r].list \in Seq(Item) /\ run[r].at \in Nat /\ Placed(r)
    BY DEF FlowInv, Types, RunStates
  <2> QED BY <2>1, LenProperties DEF Placed, Fetching
<1>2. Current(r) \in Item
  BY <1>1, ElementOfSeq DEF Current
<1> QED BY <1>1, <1>2 DEF Item

\* The loop over the cards begins with the first one.
LEMMA LoopIsNotFetching ==
    ASSUME FlowInv, NEW r \in Runs
    PROVE  /\ Len(run[r].list) \in Nat /\ run[r].at \in Nat
           /\ run[r].step \in {"link", "store"} => run[r].at >= 1 /\ ~Fetching(r)
<1>1. Len(run[r].list) \in Nat /\ run[r].at \in Nat
  BY LenProperties DEF FlowInv, Types, RunStates
<1> QED BY <1>1 DEF FlowInv, Placed, Fetching

\* An error ends the listing or this one link.
LEMMA FailIs ==
    ASSUME FlowInv, NEW r \in Runs, run[r].step \in InLink \cup {"link"}, Fail(r),
           UNCHANGED database
    PROVE  StepOf(r) /\ run'[r].step \in {"failed", "link", "done"}
<1>0. run[r] \in RunStates /\ run \in [Runs -> RunStates]
  BY DEF FlowInv, Types
<1>1. CASE Fetching(r)
  <2>1. run' = [run EXCEPT ![r] = [run[r] EXCEPT !.step = "failed"]]
    BY <1>1 DEF Fail
  <2>2. run[r].step \in InLink
    BY <1>1 DEF FlowInv, Placed, Fetching
  <2>3. /\ [run[r] EXCEPT !.step = "failed"] \in RunStates
    BY <1>0 DEF RunStates, Steps
  <2>4. GivesUp(r)
    BY <1>0, <1>1, <2>1, <2>2 DEF GivesUp, SameItems, Fail, Releases, RunStates
  <2> QED BY <1>0, <2>1, <2>3, <2>4 DEF StepOf, Kinds, GivesUp
<1>2. CASE ~Fetching(r)
  <2> DEFINE id == Current(r).id
             noted == [run[r] EXCEPT !.failed = @ \cup {id}]
  <2>1. run' = [run EXCEPT ![r] = Advanced(noted)]
    BY <1>2 DEF Fail
  <2>2. id \in Products
    BY <1>2, CurrentIsItem
  <2>3. /\ noted \in RunStates /\ noted.at = run[r].at /\ noted.list = run[r].list
        /\ noted.failed = run[r].failed \cup {id}
    BY <1>0, <2>2 DEF RunStates
  <2> HIDE DEF noted
  <2>4. /\ run' \in [Runs -> RunStates] /\ \A s \in Runs : s # r => run'[s] = run[s]
        /\ run'[r] = Advanced(noted) /\ Advanced(noted) \in RunStates
    BY <1>0, <2>1, <2>3, AdvancedIs
  <2>5. GoesOn(r)
    <3>1. /\ run'[r].at = run[r].at + 1
          /\ run'[r].step = IF run[r].at < Len(run[r].list) THEN "link" ELSE "done"
          /\ run'[r].list = run[r].list /\ run'[r].failed = run[r].failed \cup {id}
      BY <2>3, <2>4, AdvancedIs
    <3> QED BY <1>2, <3>1 DEF GoesOn, Fail, Releases, database
  <2> QED BY <2>4, <2>5 DEF StepOf, Kinds, GoesOn
<1> QED BY <1>1, <1>2

\* The loop goes on without an error.
LEMMA AdvanceIs ==
    ASSUME FlowInv, NEW r \in Runs, run[r].step \in InLink \cup {"link"}, ~Fetching(r),
           run' = [run EXCEPT ![r] = Advanced(@)],
           Skipped(r) \/ Current(r).id \in links',
           \/ links' = links
           \/ run[r].step = "insert" /\ links' = links \cup {Current(r).id},
           Releases(r), UNCHANGED <<stock, records, productLock>>
    PROVE  StepOf(r) /\ run'[r].step \in {"link", "done"}
<1>0. run[r] \in RunStates /\ run \in [Runs -> RunStates]
  BY DEF FlowInv, Types
<1>1. /\ run' \in [Runs -> RunStates] /\ \A s \in Runs : s # r => run'[s] = run[s]
      /\ run'[r] = Advanced(run[r])
  BY <1>0, AdvancedIs
<1>2. GoesOn(r)
  BY <1>0, <1>1, AdvancedIs DEF GoesOn
<1> QED BY <1>1, <1>2 DEF StepOf, Kinds, GoesOn

\* The steps of get_access_token and api_request.
LEMMA CallSteps ==
    ASSUME FlowInv, NEW r \in Runs,
           \/ StartCollecting(r) \/ LoadToken(r) \/ ReceiveToken(r) \/ SaveToken(r)
           \/ TokenFails(r) \/ Listed(r) \/ Issued(r) \/ NoAnswer(r) \/ Unauthorized(r)
           \/ Rejected(r) \/ QuotaExceeded(r)
    PROVE  StepOf(r) /\ Ledger(r)
<1>0. run[r] \in RunStates /\ run \in [Runs -> RunStates] /\ Types
  BY DEF FlowInv, Types
<1> DEFINE Going == {"token", "issuing", "saving", "request"}
<1>a. ASSUME run[r].step \in Going \cup {"idle"}, NEW step \in Going, Goto(r, step),
             UNCHANGED <<database, linkLock, toss>>
      PROVE  StepOf(r) /\ Ledger(r)
  <2>1. step \in Steps
    BY DEF Steps, InLink
  <2>2. /\ run' \in [Runs -> RunStates] /\ \A s \in Runs : s # r => run'[s] = run[s]
        /\ run'[r].step = step /\ SameItems(r)
    BY <1>0, <1>a, <2>1, GotoIs
  <2> QED BY <1>a, <2>2 DEF StepOf, Kinds, Continues, Ledger, database
<1>b. ASSUME run[r].step \in {"issuing", "request"}, Fail(r), UNCHANGED database,
             UNCHANGED toss \/ (run[r].step = "request" /\ WasteLink(r))
      PROVE  StepOf(r) /\ Ledger(r)
  <2>1. StepOf(r) /\ run'[r].step \in {"failed", "link", "done"}
    BY <1>b, FailIs DEF InLink
  <2> QED BY <1>b, <2>1 DEF Ledger, database
<1>1. CASE StartCollecting(r)
  BY <1>1, <1>a DEF StartCollecting
<1>2. CASE LoadToken(r)
  <2>1. PICK step \in {"issuing", "request"} : Goto(r, step)
    BY <1>2 DEF LoadToken
  <2> QED BY <1>2, <1>a, <2>1 DEF LoadToken
<1>3. CASE ReceiveToken(r)
  BY <1>3, <1>a DEF ReceiveToken
<1>4. CASE SaveToken(r)
  BY <1>4, <1>a DEF SaveToken
<1>5. CASE TokenFails(r)
  BY <1>5, <1>b DEF TokenFails
<1>6. CASE Listed(r)
  <2>1. PICK list \in Listings :
          run' = [run EXCEPT ![r] = [run[r] EXCEPT !.list = list, !.at = 1, !.step = "store"]]
    BY <1>6 DEF Listed
  <2>2. list \in Seq(Item)
    BY ListingsAssumption
  <2>3. /\ [run[r] EXCEPT !.list = list, !.at = 1, !.step = "store"] \in RunStates
    BY <1>0, <2>2 DEF RunStates, Steps
  <2>4. /\ run' \in [Runs -> RunStates] /\ \A s \in Runs : s # r => run'[s] = run[s]
        /\ run'[r].step = "store" /\ run'[r].at = 1
    BY <1>0, <2>1, <2>3 DEF RunStates
  <2> QED BY <1>6, <2>4 DEF Listed, StepOf, Kinds, Lists, Ledger, database
<1>7. CASE Issued(r)
  <2>1. /\ run' \in [Runs -> RunStates] /\ \A s \in Runs : s # r => run'[s] = run[s]
        /\ run'[r].step = "insert" /\ SameItems(r)
    BY <1>0, <1>7, GotoIs DEF Issued, Steps, InLink
  <2> QED BY <1>7, <2>1 DEF Issued, StepOf, Kinds, Receives, Ledger
<1>8. CASE NoAnswer(r)
  <2>1. CASE UNCHANGED <<run, linkLock>>
    <3>1. SameItems(r) /\ run[r].step = "request" /\ UNCHANGED <<linkLock, database>>
      BY <1>8, <2>1 DEF NoAnswer, SameItems
    <3> QED BY <1>0, <1>8, <2>1, <3>1
            DEF NoAnswer, StepOf, Kinds, Continues, Ledger, database
  <2> QED BY <1>8, <1>b, <2>1 DEF NoAnswer
<1>9. CASE Unauthorized(r)
  <2>1. CASE Goto(r, "token") /\ UNCHANGED linkLock
    BY <1>9, <1>a, <2>1 DEF Unauthorized
  <2> QED BY <1>9, <1>b, <2>1 DEF Unauthorized
<1>10. CASE Rejected(r)
  BY <1>10, <1>b DEF Rejected
<1>11. CASE QuotaExceeded(r)
  <2>1. run' = [run EXCEPT ![r] = [run[r] EXCEPT !.step = "done", !.stopped = TRUE]]
    BY <1>11 DEF QuotaExceeded
  <2>2. [run[r] EXCEPT !.step = "done", !.stopped = TRUE] \in RunStates
    BY <1>0 DEF RunStates, Steps, Ended
  <2>3. /\ run' \in [Runs -> RunStates] /\ \A s \in Runs : s # r => run'[s] = run[s]
        /\ run'[r].step = "done" /\ run'[r].stopped
    BY <1>0, <2>1, <2>2 DEF RunStates
  <2> QED BY <1>11, <2>3 DEF QuotaExceeded, StepOf, Kinds, Stops, InLink, Releases, Ledger,
          database
<1> QED BY <1>1, <1>2, <1>3, <1>4, <1>5, <1>6, <1>7, <1>8, <1>9, <1>10, <1>11

\* The steps of store_toss_collection.
LEMMA StoreSteps ==
    ASSUME FlowInv, NEW r \in Runs,
           Upsert(r) \/ CommitCollection(r) \/ StoreFails(r) \/ RecordFailure(r)
    PROVE  StepOf(r) /\ Ledger(r)
<1>0. run[r] \in RunStates /\ run \in [Runs -> RunStates] /\ Types
  BY DEF FlowInv, Types
<1>1. CASE Upsert(r)
  <2>1. run' = [run EXCEPT ![r] = [run[r] EXCEPT !.at = run[r].at + 1]]
    BY <1>1 DEF Upsert
  <2>2. /\ [run[r] EXCEPT !.at = run[r].at + 1] \in RunStates
        /\ [run[r] EXCEPT !.at = run[r].at + 1].step = run[r].step
    <3>1. run[r].at + 1 \in Nat
      BY <1>0 DEF RunStates
    <3> QED BY <1>0, <3>1 DEF RunStates
  <2>3. /\ run' \in [Runs -> RunStates] /\ \A s \in Runs : s # r => run'[s] = run[s]
        /\ run'[r].step = run[r].step
    BY <1>0, <2>1, <2>2
  <2> QED BY <1>1, <2>3 DEF Upsert, StepOf, Kinds, Stores, Ledger
<1>2. CASE CommitCollection(r)
  <2>1. PICK step \in {"done", "link"} :
          run' = [run EXCEPT ![r] = [run[r] EXCEPT !.at = 1, !.step = step]]
    BY <1>2 DEF CommitCollection
  <2>2. [run[r] EXCEPT !.at = 1, !.step = step] \in RunStates
    BY <1>0, <2>1 DEF RunStates, Steps, Ended
  <2>3. /\ run' \in [Runs -> RunStates] /\ \A s \in Runs : s # r => run'[s] = run[s]
        /\ run'[r].step = step
    BY <1>0, <2>1, <2>2 DEF RunStates
  <2> QED BY <1>2, <2>3 DEF CommitCollection, StepOf, Kinds, Stores, Ledger
<1>3. CASE StoreFails(r)
  <2>1. run' = [run EXCEPT ![r] = [run[r] EXCEPT !.step = "failed", !.list = <<>>]]
    BY <1>3 DEF StoreFails
  <2>2. [run[r] EXCEPT !.step = "failed", !.list = <<>>] \in RunStates
    <3>1. <<>> \in Seq(Item)
      BY EmptySeq
    <3> QED BY <1>0, <3>1 DEF RunStates, Steps
  <2>3. /\ run' \in [Runs -> RunStates] /\ \A s \in Runs : s # r => run'[s] = run[s]
        /\ run'[r].step = "failed"
    BY <1>0, <2>1, <2>2 DEF RunStates
  <2> QED BY <1>3, <2>3 DEF StoreFails, StepOf, Kinds, Stores, Ledger, database
<1>4. CASE RecordFailure(r)
  <2>1. /\ run' \in [Runs -> RunStates] /\ \A s \in Runs : s # r => run'[s] = run[s]
        /\ run'[r].step = "done"
    BY <1>0, <1>4, GotoIs DEF RecordFailure, Steps, Ended
  <2> QED BY <1>4, <2>1 DEF RecordFailure, StepOf, Kinds, Stores, Ledger
<1> QED BY <1>1, <1>2, <1>3, <1>4

\* The steps of auto_issue_toss_share_links and ensure_toss_share_link.
LEMMA LinkSteps ==
    ASSUME FlowInv, NEW r \in Runs,
           \/ SkipItem(r) \/ LinkUnavailable(r) \/ ReuseLink(r) \/ AskForLink(r)
           \/ RefuseLink(r) \/ InsertLink(r) \/ InvalidLink(r)
    PROVE  StepOf(r) /\ Ledger(r)
<1>0. run[r] \in RunStates /\ run \in [Runs -> RunStates] /\ Types
  BY DEF FlowInv, Types
<1>1. run[r].step \in {"link", "insert"}
  BY DEF SkipItem, LinkUnavailable, ReuseLink, AskForLink, RefuseLink, InsertLink, InvalidLink
<1>2. ~Fetching(r) /\ run[r].step \in InLink \cup {"link"}
  BY <1>1 DEF FlowInv, Placed, Fetching, InLink
<1>a. ASSUME Fail(r), UNCHANGED database
      PROVE  StepOf(r) /\ run'[r].step \in {"failed", "link", "done"}
  BY <1>2, <1>a, FailIs
<1>3. CASE SkipItem(r)
  <2>1. StepOf(r) /\ run'[r].step \in {"link", "done"}
    BY <1>2, <1>3, AdvanceIs DEF SkipItem, Releases, database
  <2> QED BY <1>3, <2>1 DEF SkipItem, Ledger, database
<1>4. CASE LinkUnavailable(r)
  <2>1. CASE Fail(r)
    BY <1>4, <1>a, <2>1 DEF LinkUnavailable, Ledger, database
  <2>2. CASE /\ run' = [run EXCEPT ![r] = [run[r] EXCEPT !.step = "done", !.stopped = TRUE]]
             /\ UNCHANGED <<call, linkLock>>
    <3>1. [run[r] EXCEPT !.step = "done", !.stopped = TRUE] \in RunStates
      BY <1>0 DEF RunStates, Steps, Ended
    <3>2. /\ run' \in [Runs -> RunStates] /\ \A s \in Runs : s # r => run'[s] = run[s]
          /\ run'[r].step = "done" /\ run'[r].stopped
      BY <1>0, <2>2, <3>1 DEF RunStates
    <3> QED BY <1>2, <1>4, <2>2, <3>2 DEF LinkUnavailable, StepOf, Kinds, Stops, Releases,
            Ledger, database
  <2> QED BY <1>4, <2>1, <2>2 DEF LinkUnavailable
<1>5. CASE ReuseLink(r)
  <2>1. StepOf(r) /\ run'[r].step \in {"link", "done"}
    BY <1>2, <1>5, AdvanceIs DEF ReuseLink, Releases, database
  <2> QED BY <1>5, <2>1 DEF ReuseLink, Ledger, database
<1>6. CASE AskForLink(r)
  <2>1. /\ run' \in [Runs -> RunStates] /\ \A s \in Runs : s # r => run'[s] = run[s]
        /\ run'[r].step = "token" /\ SameItems(r)
    BY <1>0, <1>6, GotoIs DEF AskForLink, Steps, InLink
  <2> QED BY <1>6, <2>1 DEF AskForLink, MayBeLinked, StepOf, Kinds, Asks, Ledger, database
<1>7. CASE RefuseLink(r)
  BY <1>7, <1>a DEF RefuseLink, Ledger, database
<1>8. CASE InsertLink(r)
  <2>1. StepOf(r)
    BY <1>2, <1>8, AdvanceIs DEF InsertLink, Releases
  <2> QED BY <1>8, <2>1 DEF Ledger
<1>9. CASE InvalidLink(r)
  BY <1>9, <1>a DEF InvalidLink, Ledger, database
<1> QED BY <1>3, <1>4, <1>5, <1>6, <1>7, <1>8, <1>9

\* The steps that end a run in the middle.
LEMMA AbortSteps ==
    ASSUME FlowInv, NEW r \in Runs, Abort(r) \/ BreakDeadlock(r)
    PROVE  StepOf(r) /\ Ledger(r)
<1>0. run[r] \in RunStates /\ run \in [Runs -> RunStates]
  BY DEF FlowInv, Types
<1>1. RollBack(r)
  BY DEF Abort, BreakDeadlock
<1>2. [NewRun EXCEPT !.step = "aborted"] \in RunStates
  <2>1. <<>> \in Seq(Item)
    BY EmptySeq
  <2> QED BY <2>1 DEF NewRun, RunStates, Steps, Ended
<1>3. /\ run' \in [Runs -> RunStates] /\ \A s \in Runs : s # r => run'[s] = run[s]
      /\ run'[r].step = "aborted"
  BY <1>0, <1>1, <1>2 DEF RollBack, NewRun
<1>4. StepOf(r) /\ links' = links
  BY <1>1, <1>3 DEF RollBack, StepOf, Kinds, RollsBack
<1>5. CASE Abort(r)
  BY <1>3, <1>4, <1>5 DEF Abort, Ledger
<1>6. CASE BreakDeadlock(r)
  <2>1. run[r].step = "store"
    BY <1>6 DEF BreakDeadlock, WaitsFor
  <2> QED BY <1>3, <1>4, <1>6, <2>1 DEF BreakDeadlock, Ledger
<1> QED BY <1>4, <1>5, <1>6

\* All the actions of a run.
Acts(r) ==
    \/ StartCollecting(r) \/ Work(r) \/ Abort(r)
    \/ \E p \in Products : StartIssuing(r, p)

\* Every step is one of a run, or leaves the runs and the tables alone.
LEMMA EveryStep ==
    ASSUME FlowInv, [Next]_vars
    PROVE  \/ \E r \in Runs : StepOf(r) /\ Ledger(r) /\ Acts(r)
           \/ /\ UNCHANGED <<run, database, linkLock, toss>>
              /\ UNCHANGED vars \/ (\E h \in Hosts : RestartHost(h))
<1>1. ASSUME NEW r \in Runs, NEW p \in Products, StartIssuing(r, p)
      PROVE  StepOf(r) /\ Ledger(r) /\ Acts(r)
  <2> DEFINE card == [id |-> p, named |-> TRUE, soldOut |-> FALSE]
             picked == [run[r] EXCEPT !.step = "link", !.at = 1, !.list = <<card>>]
  <2>0. run[r] \in RunStates /\ run \in [Runs -> RunStates]
    BY DEF FlowInv, Types
  <2>1. run' = [run EXCEPT ![r] = picked]
    BY <1>1 DEF StartIssuing
  <2>2. card \in Item
    BY DEF Item
  <2> HIDE DEF card
  <2>3. <<card>> \in Seq(Item) /\ Len(<<card>>) = 1
    BY <2>2
  <2>4. picked \in RunStates /\ picked.step = "link" /\ picked.at = 1 /\ Len(picked.list) = 1
    BY <2>0, <2>3 DEF RunStates, Steps
  <2> HIDE DEF picked
  <2>5. /\ run' \in [Runs -> RunStates] /\ \A s \in Runs : s # r => run'[s] = run[s]
        /\ run'[r] = picked
    BY <2>0, <2>1, <2>4
  <2> QED BY <1>1, <2>4, <2>5 DEF StartIssuing, StepOf, Kinds, Picks, Ledger, database, Acts
<1>2. ASSUME \/ UNCHANGED vars
             \/ \E h \in Hosts : RestartHost(h)
      PROVE  UNCHANGED <<run, database, linkLock, toss>>
  BY <1>2 DEF RestartHost, vars, database, toss
<1>3. ASSUME NEW r \in Runs, StartCollecting(r) \/ Work(r) \/ Abort(r)
      PROVE  StepOf(r) /\ Ledger(r) /\ Acts(r)
  BY <1>3, CallSteps, StoreSteps, LinkSteps, AbortSteps DEF Work, Acts
<1> QED BY <1>1, <1>2, <1>3 DEF Next

-----------------------------------------------------------------------------
(* Types and places                                                        *)

\* COMMIT or ROLLBACK frees the locks of a run.
LEMMA UnlockedIs ==
    ASSUME NEW locks \in Locks, NEW r \in Runs
    PROVE  /\ Unlocked(locks, r) \in Locks
           /\ \A p \in Products :
                Unlocked(locks, r)[p] = IF locks[p] = r THEN Nobody ELSE locks[p]
BY DEF Unlocked, Locks

\* A link is wasted.
LEMMA WasteIs ==
    ASSUME NEW p, Waste(p)
    PROVE  wasted' = [wasted EXCEPT ![p] = @ + 1]
BY Zenon DEF Waste

\* A count goes up.
LEMMA CountIs ==
    ASSUME NEW count \in [Products -> Nat], NEW p \in Products
    PROVE  [count EXCEPT ![p] = @ + 1] \in [Products -> Nat]
OBVIOUS

\* What the steps do to the count of links.
LEMMA LedgerIs ==
    ASSUME FlowInv, NEW r \in Runs, Ledger(r)
    PROVE  \/ UNCHANGED toss
           \/ /\ Asking(r) /\ Current(r).id \in Products
              /\ \/ /\ issues' = [issues EXCEPT ![Current(r).id] = @ + 1]
                    /\ wasted' = wasted \/ wasted' = [wasted EXCEPT ![Current(r).id] = @ + 1]
                 \/ issues' = issues /\ wasted' = [wasted EXCEPT ![Current(r).id] = @ + 1]
<1>1. Asking(r) => Current(r).id \in Products
  BY CurrentIsItem DEF Asking
<1>2. run[r].step = "insert" => Asking(r)
  BY DEF FlowInv, Placed, Asking, Fetching, InLink
<1>3. ASSUME WasteLink(r), run[r].step = "request"
      PROVE  /\ Asking(r)
             /\ issues' = [issues EXCEPT ![Current(r).id] = @ + 1]
             /\ wasted' = [wasted EXCEPT ![Current(r).id] = @ + 1]
  BY <1>3, WasteIs DEF WasteLink, Asking, InLink
<1>4. ASSUME Issued(r)
      PROVE  /\ Asking(r) /\ wasted' = wasted
             /\ issues' = [issues EXCEPT ![Current(r).id] = @ + 1]
  BY <1>4 DEF Issued, Asking, InLink
<1>5. ASSUME run[r].step = "insert", Waste(Current(r).id)
      PROVE  Asking(r) /\ wasted' = [wasted EXCEPT ![Current(r).id] = @ + 1]
  BY <1>2, <1>5, WasteIs
<1>6. InsertLink(r) => UNCHANGED toss
  BY DEF InsertLink
<1> QED BY <1>1, <1>3, <1>4, <1>5, <1>6 DEF Ledger

\* The tables keep their types.
LEMMA TypesStay ==
    ASSUME FlowInv, NEW r \in Runs, StepOf(r), Ledger(r)
    PROVE  Types'
<1> USE DEF FlowInv, Types
<1>1. issues' \in [Products -> Nat] /\ wasted' \in [Products -> Nat]
  <2>2. issues \in [Products -> Nat] /\ wasted \in [Products -> Nat]
    OBVIOUS
  <2>3. \/ issues' = issues /\ wasted' = wasted
        \/ /\ Current(r).id \in Products
           /\ issues' = issues \/ issues' = [issues EXCEPT ![Current(r).id] = @ + 1]
           /\ wasted' = wasted \/ wasted' = [wasted EXCEPT ![Current(r).id] = @ + 1]
    BY LedgerIs DEF toss
  <2>4. ASSUME NEW p \in Products,
               issues' = issues \/ issues' = [issues EXCEPT ![p] = @ + 1],
               wasted' = wasted \/ wasted' = [wasted EXCEPT ![p] = @ + 1]
        PROVE  issues' \in [Products -> Nat] /\ wasted' \in [Products -> Nat]
    <3>1. /\ [issues EXCEPT ![p] = @ + 1] \in [Products -> Nat]
          /\ [wasted EXCEPT ![p] = @ + 1] \in [Products -> Nat]
      BY <2>2, CountIs
    <3> QED BY <2>2, <2>4, <3>1, Zenon
  <2> QED BY <2>2, <2>3, <2>4
<1>2. ASSUME NEW locks \in Locks PROVE Unlocked(locks, r) \in Locks
  BY UnlockedIs
<1>3. CASE Upsert(r)
  <2>1. run[r].step = "store" /\ run[r].at <= Len(run[r].list)
    BY <1>3 DEF Upsert
  <2>2. Current(r).id \in Products
    BY <2>1, CurrentIsItem
  <2>3. productLock' \in Locks
    BY <1>3, <2>2 DEF Upsert, Locks
  <2> QED BY <1>1, <1>3, <2>3 DEF Upsert, StepOf
<1>4. CASE CommitCollection(r)
  <2>1. Stored(run[r].list) \subseteq Products
    BY DEF Stored
  <2>2. stock' \in [Products -> {"not stored", "sold out", "saleable"}]
    <3>1. \A p : StockIn(run[r].list, p) \in {"sold out", "saleable"}
      BY DEF StockIn
    <3> QED BY <1>4, <3>1 DEF CommitCollection
  <2>3. records' \in [Runs -> [status : {"none", "COMPLETED", "FAILED"}, items : SUBSET Products]]
    BY <1>4, <2>1 DEF CommitCollection
  <2> QED BY <1>1, <1>2, <1>4, <2>2, <2>3 DEF CommitCollection, StepOf
<1>5. CASE StoreFails(r)
  BY <1>1, <1>5 DEF StoreFails, StepOf, database
<1>6. CASE RecordFailure(r)
  <2>1. [records EXCEPT ![r].status = "FAILED"]
            \in [Runs -> [status : {"none", "COMPLETED", "FAILED"}, items : SUBSET Products]]
    OBVIOUS
  <2>2. records' \in [Runs -> [status : {"none", "COMPLETED", "FAILED"}, items : SUBSET Products]]
    BY <1>6, <2>1 DEF RecordFailure
  <2> QED BY <1>1, <1>6, <2>2 DEF RecordFailure, StepOf
<1>7. CASE GoesOn(r)
  <2>1. Current(r).id \in Products
    BY <1>7, CurrentIsItem DEF GoesOn
  <2> QED BY <1>1, <1>2, <1>7, <2>1 DEF GoesOn, Releases, StepOf
<1>8. CASE Asks(r)
  <2>1. Current(r).id \in Products
    <3>1. run[r].step = "link" /\ ~Fetching(r)
      BY <1>8, LoopIsNotFetching DEF Asks
    <3> QED BY <3>1, CurrentIsItem
  <2> QED BY <1>1, <1>8, <2>1 DEF Asks, StepOf, Locks, database
<1>9. CASE \/ Continues(r) \/ Picks(r) \/ Lists(r) \/ GivesUp(r) \/ Receives(r)
           \/ Stops(r) \/ RollsBack(r)
  <2>1. /\ UNCHANGED <<stock, records, links>>
        /\ productLock' = productLock \/ productLock' = Unlocked(productLock, r)
        /\ linkLock' = linkLock \/ linkLock' = Unlocked(linkLock, r)
    BY <1>9 DEF Continues, Picks, Lists, GivesUp, Receives, Stops, RollsBack, Releases, database
  <2> QED BY <1>1, <1>2, <2>1 DEF StepOf
<1> QED BY <1>3, <1>4, <1>5, <1>6, <1>7, <1>8, <1>9 DEF StepOf, Kinds, Stores

\* A run stays in its listing.
LEMMA RunsStayPlaced ==
    ASSUME FlowInv, NEW r \in Runs, StepOf(r)
    PROVE  \A s \in Runs : Placed(s)'
<1> USE DEF FlowInv
<1>0. /\ \A s \in Runs \ {r} : Placed(s)'
      /\ Placed(r) /\ run[r] \in RunStates /\ run'[r] \in RunStates
  <2>1. \A s \in Runs : s # r => run'[s] = run[s]
    BY DEF StepOf
  <2>2. \A s \in Runs \ {r} : Placed(s)'
    BY <2>1 DEF Placed
  <2> QED BY <2>2 DEF StepOf, Types
<1>1. /\ run[r].at \in Nat /\ Len(run[r].list) \in Nat
      /\ run'[r].at \in Nat /\ Len(run'[r].list) \in Nat
  BY <1>0, LenProperties DEF RunStates
<1>2. CASE Continues(r)
  BY <1>0, <1>1, <1>2 DEF Continues, Placed, SameItems, InLink
<1>3. CASE Picks(r) \/ Lists(r)
  <2>1. CASE Picks(r)
    <3>1. /\ run'[r].step = "link" /\ run'[r].at = 1 /\ Len(run'[r].list) = 1
      BY <2>1 DEF Picks
    <3>2. run'[r].at \in 1..Len(run'[r].list)
      BY <3>1
    <3>3. Placed(r)'
      BY <3>1, <3>2 DEF Placed, InLink
    <3> QED BY <1>0, <3>3
  <2>2. CASE Lists(r)
    BY <1>0, <1>1, <2>2 DEF Lists, Placed, InLink
  <2> QED BY <1>3, <2>1, <2>2
<1>4. CASE GivesUp(r) \/ Asks(r) \/ Receives(r)
  BY <1>0, <1>1, <1>4 DEF GivesUp, Asks, Receives, Placed, SameItems, InLink, Fetching
<1>5. CASE GoesOn(r)
  <2>1. run'[r].step \in {"link", "done"}
    BY <1>5 DEF GoesOn
  <2> QED BY <1>0, <1>1, <1>5, <2>1 DEF GoesOn, Placed, InLink
<1>6. CASE Stops(r) \/ RollsBack(r)
  BY <1>0, <1>6 DEF Stops, RollsBack, Placed, InLink
<1>7. CASE Upsert(r)
  <2>1. /\ run'[r].at = run[r].at + 1 /\ run'[r].step = run[r].step
        /\ run'[r].list = run[r].list /\ run[r].step = "store"
        /\ run[r].at <= Len(run[r].list)
    BY <1>0, <1>7 DEF Upsert, RunStates, Types
  <2>2. run'[r].at \in 1..(Len(run'[r].list) + 1) /\ run'[r].step = "store"
    BY <1>0, <1>1, <2>1 DEF Placed
  <2>3. Placed(r)'
    BY <2>2 DEF Placed, InLink
  <2> QED BY <1>0, <2>3
<1>8. CASE CommitCollection(r)
  <2>1. /\ run'[r].at = 1 /\ run'[r].list = run[r].list
        /\ run'[r].step = IF run[r].list = <<>> THEN "done" ELSE "link"
    BY <1>0, <1>8 DEF CommitCollection, RunStates, Types
  <2>2. run[r].list # <<>> => Len(run[r].list) # 0
    BY <1>0, EmptySeq DEF RunStates
  <2> QED BY <1>0, <1>1, <2>1, <2>2 DEF Placed, InLink
<1>9. CASE StoreFails(r) \/ RecordFailure(r)
  <2>1. \/ run'[r].step = "failed" /\ run'[r].list = <<>>
        \/ run'[r].step = "done"
    <3>1. CASE StoreFails(r)
      <4>1. run'[r] = [run[r] EXCEPT !.step = "failed", !.list = <<>>]
        BY <3>1 DEF StoreFails, Types
      <4> QED BY <1>0, <4>1 DEF RunStates
    <3>2. CASE RecordFailure(r)
      BY <3>2, GotoIs DEF RecordFailure, Steps, Ended
    <3> QED BY <1>9, <3>1, <3>2
  <2> QED BY <1>0, <2>1 DEF Placed, InLink
<1> QED BY <1>0, <1>2, <1>3, <1>4, <1>5, <1>6, <1>7, <1>8, <1>9 DEF StepOf, Kinds, Stores

-----------------------------------------------------------------------------
(* Locks                                                                   *)

\* The locks follow the transactions.
LEMMA LocksStay ==
    ASSUME FlowInv, LocksInv, NEW r \in Runs, StepOf(r)
    PROVE  LocksInv'
<1> USE DEF FlowInv
<1>0. /\ Placed(r) /\ run[r] \in RunStates /\ run'[r] \in RunStates
      /\ linkLock \in Locks /\ productLock \in Locks /\ Nobody \notin Runs
      /\ run[r].at \in Nat /\ run'[r].at \in Nat
      /\ \A s \in Runs : s # r => run'[s] = run[s]
  BY RunsAssumption DEF StepOf, Types, RunStates
<1>1. \A s \in Runs : s # r => (Asking(s)' <=> Asking(s)) /\ Current(s)' = Current(s)
  BY <1>0 DEF Asking, Fetching, Current
<1>2. \A s \in Runs : Asking(s) => Current(s).id \in Products
  BY CurrentIsItem DEF Asking
<1> DEFINE Apart == \A s \in Runs, p \in Products : productLock'[p] = s =>
                        run'[s].step = "store" /\ run'[s].at > 1
\* While the locks of r stay with its transaction.
<1>a. ASSUME linkLock' = linkLock, links' = links, Apart, Asking(r)' <=> Asking(r),
             Asking(r) => Current(r)' = Current(r)
      PROVE  LocksInv'
  BY <1>0, <1>1, <1>a DEF LocksInv
\* When its transaction ends.
<1>b. ASSUME linkLock' = Unlocked(linkLock, r) \/ (linkLock' = linkLock /\ ~Asking(r)),
             \/ links' = links
             \/ Asking(r) /\ links' = links \cup {Current(r).id},
             Apart, ~Asking(r)'
      PROVE  LocksInv'
  <2>1. \A p \in Products : linkLock'[p] = IF linkLock[p] = r THEN Nobody ELSE linkLock[p]
    BY <1>0, <1>b, UnlockedIs DEF LocksInv, Locks
  <2>2. ASSUME NEW s \in Runs, Asking(s)'
        PROVE  linkLock'[Current(s)'.id] = s /\ Current(s)'.id \notin links'
    <3>1. s # r /\ Asking(s) /\ Current(s)' = Current(s)
      BY <1>1, <1>b, <2>2
    <3>2. linkLock[Current(s).id] = s /\ Current(s).id \notin links
      BY <3>1 DEF LocksInv
    <3>3. Asking(r) => linkLock[Current(r).id] = r
      BY DEF LocksInv
    <3> QED BY <1>2, <1>b, <2>1, <3>1, <3>2, <3>3
  <2>3. ASSUME NEW s \in Runs, NEW p \in Products, linkLock'[p] = s
        PROVE  Asking(s)' /\ Current(s)'.id = p
    <3>1. s # r /\ linkLock[p] = s
      BY <1>0, <2>1, <2>3
    <3> QED BY <1>1, <3>1 DEF LocksInv
  <2> QED BY <1>b, <2>2, <2>3 DEF LocksInv
<1>c. ASSUME productLock' = productLock, run[r].step # "store" PROVE Apart
  BY <1>0, <1>c DEF LocksInv
<1>d. ASSUME productLock' = Unlocked(productLock, r) PROVE Apart
  <2>1. \A p \in Products :
          productLock'[p] = IF productLock[p] = r THEN Nobody ELSE productLock[p]
    BY <1>0, <1>d, UnlockedIs
  <2> QED BY <1>0, <2>1 DEF LocksInv
<1> HIDE DEF Apart
<1>2a. CASE Continues(r)
  <2>1. (Asking(r)' <=> Asking(r)) /\ (Asking(r) => Current(r)' = Current(r))
    BY <1>0, <1>2a DEF Continues, SameItems, Asking, Fetching, Current, InLink, Placed
  <2> QED BY <1>a, <1>c, <1>2a, <2>1 DEF Continues, database
<1>3. CASE Receives(r)
  <2>1. (Asking(r)' <=> Asking(r)) /\ Current(r)' = Current(r)
    BY <1>0, <1>3 DEF Receives, SameItems, Asking, Fetching, Current, InLink
  <2> QED BY <1>a, <1>c, <1>3, <2>1 DEF Receives, database
<1>4. CASE Picks(r) \/ Lists(r)
  <2>1. ~Asking(r) /\ ~Asking(r)' /\ run[r].step # "store"
    BY <1>4 DEF Picks, Lists, Asking, InLink, Fetching
  <2> QED BY <1>a, <1>c, <1>4, <2>1 DEF Picks, Lists, database
<1>5. CASE GivesUp(r) \/ GoesOn(r) \/ Stops(r)
  <2>1. ~Asking(r)' /\ run[r].step # "store" /\ productLock' = productLock
    BY <1>5 DEF GivesUp, GoesOn, Stops, Asking, InLink, database
  <2>2. linkLock' = Unlocked(linkLock, r) \/ (linkLock' = linkLock /\ ~Asking(r))
    BY <1>5 DEF GivesUp, GoesOn, Stops, Asking, InLink, Releases
  <2>3. \/ links' = links
        \/ Asking(r) /\ links' = links \cup {Current(r).id}
    BY <1>5 DEF GivesUp, GoesOn, Stops, Asking, InLink, database
  <2> QED BY <1>b, <1>c, <2>1, <2>2, <2>3
<1>6. CASE RollsBack(r)
  <2>1. ~Asking(r)'
    BY <1>6 DEF RollsBack, Asking, InLink
  <2> QED BY <1>b, <1>d, <1>6, <2>1 DEF RollsBack
<1>7. CASE Asks(r)
  <2> DEFINE p == Current(r).id
  <2>1. p \in Products
    BY <1>0, <1>7, CurrentIsItem DEF Asks, Placed, Fetching
  <2>2. /\ ~Asking(r) /\ Asking(r)' /\ Current(r)' = Current(r) /\ run[r].step # "store"
    BY <1>0, <1>7 DEF Asks, Asking, SameItems, Fetching, Placed, InLink, Current
  <2>3. /\ linkLock[p] = Nobody /\ p \notin links /\ links' = links
        /\ \A q \in Products : linkLock'[q] = IF q = p THEN r ELSE linkLock[q]
        /\ productLock' = productLock
    BY <1>0, <1>7 DEF Asks, LinkIsFree, database, Locks
  <2>4. Apart
    BY <1>c, <2>2, <2>3
  <2> QED BY <1>0, <1>1, <1>2, <2>1, <2>2, <2>3, <2>4 DEF LocksInv, Apart
<1>8. CASE Stores(r)
  <2>1. /\ ~Asking(r) /\ ~Asking(r)' /\ UNCHANGED <<linkLock, links>>
    <3>1. /\ run[r].step \in {"store", "failed"} /\ UNCHANGED <<linkLock, links>>
          /\ run'[r].step \in {"store", "link", "failed", "done"}
      <4> USE <1>0 DEF Types, RunStates
      <4>1. CASE Upsert(r)
        BY <4>1 DEF Upsert
      <4>2. CASE CommitCollection(r)
        BY <4>2 DEF CommitCollection
      <4>3. CASE StoreFails(r)
        BY <4>3 DEF StoreFails, database
      <4>4. CASE RecordFailure(r)
        BY <4>4 DEF RecordFailure, Goto
      <4> QED BY <1>8, <4>1, <4>2, <4>3, <4>4 DEF Stores
    <3> QED BY <3>1 DEF Asking, InLink
  <2>2. CASE Upsert(r)
    <3>0. run[r].step = "store" /\ run' = [run EXCEPT ![r].at = @ + 1]
      BY <2>2 DEF Upsert
    <3>1. /\ run'[r].at = run[r].at + 1 /\ run'[r].step = "store" /\ run[r].at >= 1
      BY <1>0, <3>0, LoopIsNotFetching DEF Types, RunStates
    <3>2. \A p \in Products : productLock'[p] = productLock[p] \/ productLock'[p] = r
      BY <1>0, <2>2 DEF Upsert, Locks
    <3>3. Apart
      BY <1>0, <3>1, <3>2 DEF LocksInv, Apart
    <3> QED BY <1>a, <2>1, <3>3
  <2>3. CASE CommitCollection(r)
    BY <1>a, <1>d, <2>1, <2>3 DEF CommitCollection
  <2>4. CASE StoreFails(r)
    <3>1. \A p \in Products : productLock[p] # r
      BY <2>4 DEF StoreFails, LocksInv
    <3>2. Apart
      BY <1>0, <2>4, <3>1 DEF StoreFails, LocksInv, Apart, database
    <3> QED BY <1>a, <2>1, <3>2
  <2>5. CASE RecordFailure(r)
    <3>1. Apart
      BY <1>c, <2>5 DEF RecordFailure
    <3> QED BY <1>a, <2>1, <3>1
  <2> QED BY <1>8, <2>2, <2>3, <2>4, <2>5 DEF Stores
<1> QED BY <1>2a, <1>3, <1>4, <1>5, <1>6, <1>7, <1>8 DEF StepOf, Kinds

-----------------------------------------------------------------------------
(* The count of links                                                      *)

\* What is issued is kept or wasted.
LEMMA BudgetStays ==
    ASSUME FlowInv, LocksInv, BudgetInv, NEW r \in Runs, StepOf(r), Ledger(r)
    PROVE  BudgetInv'
<1>0. /\ \A s \in Runs : s # r => run'[s] = run[s] /\ Current(s)' = Current(s)
      /\ issues \in [Products -> Nat] /\ wasted \in [Products -> Nat]
  BY DEF StepOf, FlowInv, Types, Current
<1>1. \A s \in Runs : run[s].step = "insert" => Asking(s) /\ Current(s).id \in Products
  <2> TAKE s \in Runs
  <2>1. run[s].step = "insert" => Asking(s)
    BY DEF FlowInv, Placed, Asking, Fetching, InLink
  <2> QED BY <2>1, CurrentIsItem DEF Asking
<1>2. CASE /\ run[r].step # "insert" /\ run'[r].step # "insert" /\ links' = links
           /\ UNCHANGED toss \/ (run[r].step = "request" /\ WasteLink(r))
  <2>1. \A p : Kept(p)' <=> Kept(p)
    BY <1>0, <1>2 DEF Kept
  <2>2. CASE UNCHANGED toss
    BY <2>1, <2>2 DEF BudgetInv, toss
  <2>3. CASE WasteLink(r) /\ run[r].step = "request"
    <3>1. PICK q \in Products :
            /\ issues' = [issues EXCEPT ![q] = @ + 1]
            /\ wasted' = [wasted EXCEPT ![q] = @ + 1]
      BY <2>3, WasteIs, CurrentIsItem DEF WasteLink, InLink
    <3>2. \A p \in Products :
            /\ issues'[p] = IF p = q THEN issues[p] + 1 ELSE issues[p]
            /\ wasted'[p] = IF p = q THEN wasted[p] + 1 ELSE wasted[p]
      BY <1>0, <3>1
    <3>3. \A p \in Products : issues[p] \in Nat /\ wasted[p] \in Nat
      BY <1>0
    <3> QED BY <2>1, <3>2, <3>3 DEF BudgetInv
  <2> QED BY <1>2, <2>2, <2>3
<1>3. CASE Issued(r)
  <2>0. PICK q \in Products : q = Current(r).id
    BY <1>3, CurrentIsItem DEF Issued, InLink
  <2>1. /\ Asking(r) /\ q \in Products /\ run[r].step = "request"
        /\ issues' = [issues EXCEPT ![q] = @ + 1] /\ wasted' = wasted /\ links' = links
    BY <1>3, <2>0 DEF Issued, Asking, InLink, database
  <2>2. ~Kept(q)
    <3>1. q \notin links /\ linkLock[q] = r
      BY <2>0, <2>1 DEF LocksInv
    <3> QED BY <1>1, <2>1, <3>1 DEF Kept, LocksInv
  <2>3. run'[r].step = "insert" /\ Current(r)' = Current(r)
    <3>1. run'[r].step = "insert" /\ SameItems(r)
      BY <1>3, GotoIs DEF Issued, Steps, InLink, FlowInv
    <3> QED BY <3>1 DEF SameItems, Current
  <2>4. Kept(q)'
    BY <2>0, <2>3 DEF Kept
  <2>5. \A p \in Products : p # q /\ Kept(p) => Kept(p)'
    BY <1>0, <2>0, <2>1 DEF Kept
  <2>6. \A p \in Products : /\ issues[p] \in Nat /\ wasted[p] \in Nat
                            /\ issues'[p] = IF p = q THEN issues[p] + 1 ELSE issues[p]
    BY <1>0, <2>1
  <2> QED BY <2>1, <2>2, <2>4, <2>5, <2>6 DEF BudgetInv
<1>4. CASE InsertLink(r)
  <2>1. links' = links \cup {Current(r).id} /\ UNCHANGED toss
    BY <1>4 DEF InsertLink
  <2>2. \A p : Kept(p) => Kept(p)'
    BY <1>0, <2>1 DEF Kept
  <2> QED BY <2>1, <2>2 DEF BudgetInv, toss
<1>5. CASE /\ run[r].step = "insert" /\ run'[r].step # "insert" /\ links' = links
           /\ Waste(Current(r).id) /\ UNCHANGED issues
  <2> DEFINE q == Current(r).id
  <2>1. q \in Products /\ wasted' = [wasted EXCEPT ![q] = @ + 1] /\ issues' = issues
    BY <1>1, <1>5, WasteIs
  <2>2. \A p \in Products : p # q /\ Kept(p) => Kept(p)'
    BY <1>0, <1>5 DEF Kept
  <2>3. \A p \in Products : /\ issues[p] \in Nat /\ wasted[p] \in Nat
                            /\ wasted'[p] = IF p = q THEN wasted[p] + 1 ELSE wasted[p]
    BY <1>0, <2>1
  <2> QED BY <2>1, <2>2, <2>3 DEF BudgetInv
<1> QED BY <1>2, <1>3, <1>4, <1>5 DEF Ledger

-----------------------------------------------------------------------------
(* What was collected                                                      *)

\* The records of collections stay, and links are issued for what they hold.
LEMMA CollectedStays ==
    ASSUME FlowInv, CollectedInv, NEW r \in Runs, StepOf(r), Ledger(r)
    PROVE  CollectedInv'
<1> USE DEF CollectedInv
<1>0. /\ \A s \in Runs : s # r =>
            /\ run'[s] = run[s] /\ Current(s)' = Current(s) /\ (Asking(s)' <=> Asking(s))
            /\ Fetching(s)' <=> Fetching(s)
      /\ records \in [Runs -> [status : {"none", "COMPLETED", "FAILED"},
                               items : SUBSET Products]]
      /\ run[r] \in RunStates /\ run'[r] \in RunStates /\ run \in [Runs -> RunStates]
      /\ stock \in [Products -> {"not stored", "sold out", "saleable"}]
  BY DEF StepOf, FlowInv, Types, Current, Asking, Fetching
<1>1. CASE CommitCollection(r)
  <2>1. /\ run[r].step = "store" /\ records[r].items = {} /\ UNCHANGED toss
        /\ run'[r].step \in {"done", "link"}
        /\ records' = [records EXCEPT ![r] = [status |-> "COMPLETED",
                                              items |-> Stored(run[r].list)]]
    BY <1>0, <1>1 DEF CommitCollection, RunStates
  <2>2. records'[r].items = Stored(run[r].list) /\ \A s \in Runs : s # r => records'[s] = records[s]
    BY <1>0, <2>1
  <2>3. \A p : Collected(p) => Collected(p)'
    BY <2>1, <2>2 DEF Collected
  <2>4. \A p \in Products : stock'[p] = "saleable" => Collected(p)'
    <3>1. \A p \in Products :
            stock'[p] = IF p \in Stored(run[r].list) THEN StockIn(run[r].list, p) ELSE stock[p]
      BY <1>1 DEF CommitCollection
    <3> QED BY <2>2, <2>3, <3>1 DEF Collected
  <2>5. OnlyCollectedIsIssued'
    BY <2>1, <2>3 DEF OnlyCollectedIsIssued, Collected, toss
  <2>6. \A s \in Runs : Asking(s)' => s # r
    BY <2>1 DEF Asking, InLink
  <2> QED BY <1>0, <2>1, <2>2, <2>3, <2>4, <2>5, <2>6 DEF InLink
<1>a. ASSUME stock' = stock, \A s \in Runs : records'[s].items = records[s].items,
             Asking(r)' => Collected(Current(r)'.id),
             (run'[r].step \in {"idle", "store"} \/ (run'[r].step \in InLink /\ Fetching(r)'))
                => records[r].items = {}
      PROVE  CollectedInv'
  <2>1. \A p : Collected(p)' <=> Collected(p)
    BY <1>a DEF Collected
  <2>2. OnlyCollectedIsIssued'
    <3>1. CASE UNCHANGED toss
      BY <1>a, <3>1 DEF OnlyCollectedIsIssued, toss
    <3>2. CASE Asking(r) /\ issues' = [issues EXCEPT ![Current(r).id] = @ + 1]
      <4>1. \A p \in Products : p # Current(r).id => issues'[p] = issues[p]
        BY <3>2 DEF FlowInv, Types
      <4> QED BY <1>a, <3>2, <4>1 DEF OnlyCollectedIsIssued, Collected
    <3>3. CASE issues' = issues
      BY <1>a, <3>3 DEF OnlyCollectedIsIssued
    <3> QED BY <3>1, <3>2, <3>3, LedgerIs
  <2>3. \A s \in Runs : Asking(s)' => Collected(Current(s).id)'
    <3> SUFFICES ASSUME NEW s \in Runs, Asking(s)' PROVE Collected(Current(s).id)'
      OBVIOUS
    <3>1. Collected(Current(s)'.id)
      BY <1>0, <1>a
    <3> QED BY <1>a, <3>1 DEF Collected
  <2> QED BY <1>0, <1>a, <2>1, <2>2, <2>3
<1>2. CASE Continues(r) \/ Receives(r)
  <2>1. /\ UNCHANGED <<stock, records>>
        /\ Fetching(r)' <=> Fetching(r)
        /\ Asking(r)' => Asking(r) /\ Current(r)' = Current(r)
        /\ run[r].step = "idle" \/ run[r].step \in InLink
        /\ run'[r].step \in InLink
    BY <1>2 DEF Continues, Receives, database, SameItems, Asking, Fetching, Current, InLink,
       FlowInv, Placed
  <2> QED BY <1>a, <2>1 DEF InLink
<1>3. CASE Asks(r)
  <2>1. /\ UNCHANGED <<stock, records>> /\ ~Fetching(r)' /\ run'[r].step = "token"
        /\ Current(r)' = Current(r) /\ Current(r).id \in Products
        /\ stock[Current(r).id] = "saleable"
    BY <1>3, LoopIsNotFetching, CurrentIsItem
       DEF Asks, database, SameItems, Fetching, Current
  <2> QED BY <1>a, <2>1
<1>4. CASE \/ Picks(r) \/ GivesUp(r) \/ GoesOn(r) \/ Stops(r) \/ RollsBack(r)
           \/ StoreFails(r) \/ RecordFailure(r)
  <2>1. run'[r].step \in {"link", "failed", "done", "aborted"}
    <3>1. CASE \/ Picks(r) \/ GivesUp(r) \/ Stops(r) \/ RollsBack(r)
      BY <3>1 DEF Picks, GivesUp, Stops, RollsBack
    <3>2. CASE GoesOn(r)
      BY <3>2 DEF GoesOn
    <3>3. CASE StoreFails(r)
      BY <1>0, <3>3 DEF StoreFails, RunStates
    <3>4. CASE RecordFailure(r)
      BY <1>0, <3>4 DEF RecordFailure, Goto, RunStates
    <3> QED BY <1>4, <3>1, <3>2, <3>3, <3>4
  <2>2. stock' = stock /\ \A s \in Runs : records'[s].items = records[s].items
    <3>1. CASE RecordFailure(r)
      <4>1. stock' = stock
        BY <3>1 DEF RecordFailure
      <4>2. records' = records \/ records' = [records EXCEPT ![r].status = "FAILED"]
        BY <3>1 DEF RecordFailure
      <4>3. \A s \in Runs : records'[s].items = records[s].items
        <5>1. records[r] \in [status : {"none", "COMPLETED", "FAILED"}, items : SUBSET Products]
          BY <1>0
        <5>2. [records[r] EXCEPT !.status = "FAILED"].items = records[r].items
          BY <5>1
        <5>3. \/ records' = records
              \/ records' = [records EXCEPT ![r] = [records[r] EXCEPT !.status = "FAILED"]]
          BY <4>2
        <5> QED BY <1>0, <5>2, <5>3
      <4> QED BY <4>1, <4>3
    <3> QED BY <1>4, <3>1 DEF Picks, GivesUp, GoesOn, Stops, RollsBack, StoreFails, database
  <2> QED BY <1>a, <2>1, <2>2 DEF Asking, InLink
<1>5. CASE Lists(r) \/ Upsert(r)
  <2>1. /\ run'[r].step = "store" /\ UNCHANGED <<stock, records>>
        /\ run[r].step = "store" \/ (run[r].step \in InLink /\ Fetching(r))
    <3>1. CASE Lists(r)
      BY <3>1 DEF Lists, InLink, database
    <3>2. CASE Upsert(r)
      BY <1>0, <3>2 DEF Upsert, RunStates
    <3> QED BY <1>5, <3>1, <3>2
  <2> QED BY <1>a, <2>1 DEF Asking, InLink
<1> QED BY <1>1, <1>2, <1>3, <1>4, <1>5 DEF StepOf, Kinds, Stores

-----------------------------------------------------------------------------
(* What was covered                                                        *)

\* The loop passes over no card.
LEMMA CoveredStays ==
    ASSUME FlowInv, CoveredInv, NEW r \in Runs, StepOf(r), Ledger(r)
    PROVE  CoveredInv'
<1> USE DEF CoveredInv
<1>0. /\ \A s \in Runs : s # r => run'[s] = run[s] /\ (Asking(s)' <=> Asking(s))
      /\ run[r] \in RunStates /\ run'[r] \in RunStates /\ run \in [Runs -> RunStates]
      /\ Len(run[r].list) \in Nat /\ run[r].at \in Nat
  BY LoopIsNotFetching DEF StepOf, FlowInv, Types, Asking, Fetching
<1>1. links \subseteq links'
  BY DEF Ledger, InsertLink, Issued, database
<1>2. \A s \in Runs : \A i : s # r /\ Covered(s, i) => Covered(s, i)'
  BY <1>0, <1>1 DEF Covered
<1>a. ASSUME run'[r].step = "link" \/ Asking(r)' => \A i \in 1..(run'[r].at - 1) : Covered(r, i)',
             run'[r].step = "done" /\ ~run'[r].stopped =>
                \A i \in 1..Len(run'[r].list) : Covered(r, i)'
      PROVE  CoveredInv'
  BY <1>0, <1>2, <1>a
<1>3. ASSUME SameItems(r) PROVE \A i : Covered(r, i) => Covered(r, i)'
  BY <1>1, <1>3 DEF SameItems, Covered
<1>4. CASE Continues(r) \/ Receives(r) \/ Asks(r)
  <2>1. /\ SameItems(r) /\ run'[r].step \notin {"link", "done"}
        /\ Asking(r)' => Asking(r) \/ run[r].step = "link"
    BY <1>4 DEF Continues, Receives, Asks, SameItems, Asking, Fetching, InLink, FlowInv, Placed
  <2> QED BY <1>3, <1>a, <2>1 DEF SameItems
<1>5. CASE Picks(r)
  BY <1>5, <1>a DEF Picks, Asking, InLink
<1>6. CASE Lists(r) \/ GivesUp(r) \/ Stops(r) \/ RollsBack(r) \/ Upsert(r) \/ StoreFails(r)
  <2>1. \/ run'[r].step \in {"store", "failed", "aborted"}
        \/ run'[r].step = "done" /\ run'[r].stopped
    <3>1. ASSUME Upsert(r) PROVE run'[r].step = "store"
      BY <1>0, <3>1 DEF Upsert, RunStates
    <3>2. ASSUME StoreFails(r) PROVE run'[r].step = "failed"
      BY <1>0, <3>2 DEF StoreFails, RunStates
    <3> QED BY <1>6, <3>1, <3>2 DEF Lists, GivesUp, Stops, RollsBack
  <2> QED BY <1>a, <2>1 DEF Asking, InLink
<1>7. CASE CommitCollection(r)
  <2>1. /\ run'[r].at = 1 /\ run'[r].list = run[r].list
        /\ run'[r].step = IF run[r].list = <<>> THEN "done" ELSE "link"
    BY <1>0, <1>7 DEF CommitCollection, RunStates
  <2>2. run'[r].step = "done" => Len(run'[r].list) = 0
    BY <2>1
  <2> QED BY <1>a, <2>1, <2>2 DEF Asking, InLink
<1>8. CASE RecordFailure(r)
  <2>1. run'[r].step = "done" /\ run'[r].list = run[r].list /\ run[r].list = <<>>
    BY <1>0, <1>8 DEF RecordFailure, Goto, RunStates, FlowInv, Placed
  <2>2. Len(run'[r].list) = 0
    BY <2>1
  <2> QED BY <1>a, <2>1, <2>2 DEF Asking, InLink
<1>9. CASE GoesOn(r)
  <2>0. run[r].at \in 1..Len(run[r].list)
    BY <1>9, CurrentIsItem DEF GoesOn
  <2>1. \A i \in 1..(run[r].at - 1) : Covered(r, i)
    BY <1>9 DEF GoesOn, Asking
  <2>2. \A i \in 1..(run[r].at - 1) : Covered(r, i)'
    BY <1>1, <1>9, <2>1 DEF GoesOn, Covered
  <2>3. \A i : i = run[r].at => Covered(r, i)'
    BY <1>9, <2>0 DEF GoesOn, Covered, Skipped, Current
  <2>4. \A i \in 1..run[r].at : Covered(r, i)'
    <3> TAKE i \in 1..run[r].at
    <3>1. i = run[r].at \/ i \in 1..(run[r].at - 1)
      BY <1>0
    <3> QED BY <2>2, <2>3, <3>1
  <2>5. /\ run'[r].at = run[r].at + 1 /\ run'[r].list = run[r].list
        /\ run'[r].step = "done" => run[r].at = Len(run[r].list)
        /\ run'[r].step \in {"link", "done"}
    BY <1>0, <1>9, <2>0 DEF GoesOn
  <2> QED BY <1>0, <1>a, <2>4, <2>5 DEF Asking, InLink
<1> QED BY <1>4, <1>5, <1>6, <1>7, <1>8, <1>9 DEF StepOf, Kinds, Stores

-----------------------------------------------------------------------------
(* Attempts and tokens                                                     *)

\* A call as it is while a run is not in it.
LEMMA NewCallIs ==
    /\ NewCall \in CallStates /\ NewCall.attempt = 0 /\ NewCall.limit = MaxRetries
    /\ NewCall.refused = NoToken /\ NewCall.token = NoToken /\ ~NewCall.again
BY RunsAssumption DEF NewCall, CallStates, NoToken

\* What is to hold of the call of one run, when the newest token is n.
CallOf(r, n) ==
    /\ call[r].attempt < call[r].limit /\ call[r].limit <= MaxRetries + 1
    /\ call[r].refused = NoToken => call[r].limit = MaxRetries
    /\ call[r].refused <= n /\ call[r].token <= n
    /\ run[r].step \in {"saving", "request"} =>
        call[r].token # NoToken /\ (call[r].token # call[r].refused \/ call[r].again)

CachesInv ==
    /\ memory \in [Hosts -> Nat] /\ file \in Nat /\ newest \in Nat /\ file <= newest
    /\ \A h \in Hosts : memory[h] <= newest

\* The two parts of CallInv.
LEMMA CallInvParts ==
    CallInv <=> CachesInv /\ call \in [Runs -> CallStates] /\ \A r \in Runs : CallOf(r, newest)
BY DEF CallInv, CachesInv, CallOf

\* A run that ends its call, or is in none, has the attempts of a new one.
LEMMA CallEnds ==
    ASSUME CallInv, NEW r \in Runs, call' = [call EXCEPT ![r] = NewCall],
           \A s \in Runs : s # r => run'[s] = run[s],
           run'[r].step \notin {"saving", "request"}, UNCHANGED <<memory, file, newest>>
    PROVE  CallInv'
<1> USE NewCallIs, RunsAssumption DEF NoToken
<1>1. call' \in [Runs -> CallStates] /\ call'[r] = NewCall
      /\ \A s \in Runs : s # r => call'[s] = call[s]
  BY DEF CallInv
<1>2. \A s \in Runs : CallOf(s, newest)'
  BY <1>1 DEF CallInv, CallOf
<1> QED BY <1>1, <1>2 DEF CallInv, CachesInv, CallOf

\* What a failed or finished run does to its call.
LEMMA FailEndsCall ==
    ASSUME FlowInv, CallInv, NEW r \in Runs, StepOf(r),
           call' = [call EXCEPT ![r] = NewCall],
           run'[r].step \notin {"saving", "request"}, UNCHANGED tokens
    PROVE  CallInv'
BY CallEnds DEF StepOf, tokens

\* The steps that get a token.
LEMMA TokenStepsKeepCalls ==
    ASSUME FlowInv, CallInv, host \in [Runs -> Hosts], NEW r \in Runs, StepOf(r),
           LoadToken(r) \/ ReceiveToken(r) \/ SaveToken(r)
    PROVE  CallInv'
<1>0. /\ host[r] \in Hosts /\ call \in [Runs -> CallStates] /\ call[r] \in CallStates
      /\ run \in [Runs -> RunStates] /\ \A s \in Runs : s # r => run'[s] = run[s]
      /\ memory \in [Hosts -> Nat] /\ file \in Nat /\ newest \in Nat
      /\ file <= newest /\ \A h \in Hosts : memory[h] <= newest
      /\ CallOf(r, newest) /\ \A s \in Runs : CallOf(s, newest)
  BY CallInvParts DEF FlowInv, Types, StepOf, CallInv
<1>a. ASSUME NEW token \in Nat, call' = [call EXCEPT ![r].token = token]
      PROVE  /\ call' \in [Runs -> CallStates] /\ \A s \in Runs : s # r => call'[s] = call[s]
             /\ call'[r].token = token /\ call'[r].attempt = call[r].attempt
             /\ call'[r].limit = call[r].limit /\ call'[r].refused = call[r].refused
  BY <1>0, <1>a DEF CallStates
<1>1. CASE LoadToken(r)
  <2>1. PICK cached \in IF MayUseCache(r) THEN Cached(host[r]) ELSE {NoToken} :
          /\ Goto(r, IF cached = NoToken THEN "issuing" ELSE "request")
          /\ call' = [call EXCEPT ![r].token = cached]
          /\ memory' = [memory EXCEPT ![host[r]] =
                            IF cached = NoToken THEN @ ELSE cached]
          /\ UNCHANGED <<file, newest>>
    BY <1>1 DEF LoadToken
  <2>2. /\ cached \in Nat /\ cached <= newest
        /\ cached # NoToken => call[r].refused = NoToken
    BY <1>0, <2>1 DEF MayUseCache, Cached, NoToken
  <2>3. run'[r].step = IF cached = NoToken THEN "issuing" ELSE "request"
    BY <1>0, <2>1 DEF Goto, RunStates
  <2>4. CallOf(r, newest)'
    BY <1>0, <1>a, <2>1, <2>2, <2>3 DEF CallOf, NoToken
  <2>5. \A s \in Runs : CallOf(s, newest)'
    BY <1>0, <1>a, <2>1, <2>2, <2>4 DEF CallOf
  <2>6. CachesInv'
    BY <1>0, <2>1, <2>2 DEF CachesInv
  <2> QED BY <1>a, <2>1, <2>2, <2>5, <2>6 DEF CallInv, CachesInv, CallOf
<1>2. CASE ReceiveToken(r)
  <2>1. PICK token \in 1..(newest + 1) :
          /\ newest' = IF token > newest THEN token ELSE newest
          /\ call' = [call EXCEPT ![r].token = token, ![r].again = (token = call[r].refused)]
          /\ Goto(r, "saving") /\ UNCHANGED <<memory, file>>
    BY <1>2 DEF ReceiveToken
  <2>9. /\ newest' \in Nat /\ newest <= newest' /\ token <= newest' /\ token \in Nat
        /\ token # NoToken
    BY <1>0, <2>1 DEF NoToken
  <2>8. /\ call' \in [Runs -> CallStates] /\ \A s \in Runs : s # r => call'[s] = call[s]
        /\ call'[r].token = token /\ call'[r].attempt = call[r].attempt
        /\ call'[r].limit = call[r].limit /\ call'[r].refused = call[r].refused
        /\ call'[r].again = (token = call[r].refused)
    <3>1. call' = [call EXCEPT ![r] = [call[r] EXCEPT !.token = token,
                                                      !.again = (token = call[r].refused)]]
      BY <1>0, <2>1
    <3>2. [call[r] EXCEPT !.token = token, !.again = (token = call[r].refused)] \in CallStates
      BY <1>0, <2>9 DEF CallStates
    <3> QED BY <1>0, <3>1, <3>2 DEF CallStates
  <2>2. CallOf(r, newest)'
    BY <1>0, <2>1, <2>8, <2>9 DEF CallOf, CallStates
  <2>3. \A s \in Runs : CallOf(s, newest)'
    <3> SUFFICES ASSUME NEW s \in Runs, s # r PROVE CallOf(s, newest)'
      BY <2>2
    <3>1. /\ call'[s] = call[s] /\ run'[s] = run[s] /\ call[s] \in CallStates
          /\ CallOf(s, newest)
      BY <1>0, <2>8
    <3> QED BY <1>0, <2>9, <3>1 DEF CallOf, CallStates
  <2>4. CachesInv'
    BY <1>0, <2>1, <2>9 DEF CachesInv
  <2> QED BY <2>3, <2>4, <2>8 DEF CallInv, CachesInv, CallOf
<1>3. CASE SaveToken(r)
  <2>1. /\ run[r].step = "saving" /\ memory' = [memory EXCEPT ![host[r]] = call[r].token]
        /\ file' \in {file, call[r].token} /\ UNCHANGED <<call, newest>>
    BY <1>3 DEF SaveToken
  <2>2. /\ call[r].token \in Nat /\ call[r].token <= newest
        /\ call[r].token # NoToken /\ (call[r].token # call[r].refused \/ call[r].again)
    BY <1>0, <2>1 DEF CallOf, CallStates
  <2>3. CachesInv'
    BY <1>0, <2>1, <2>2 DEF CachesInv
  <2>4. \A s \in Runs : CallOf(s, newest)'
    BY <1>0, <2>1, <2>2 DEF CallOf
  <2> QED BY <1>0, <2>1, <2>3, <2>4 DEF CallInv, CachesInv, CallOf
<1> QED BY <1>1, <1>2, <1>3

\* The steps that try again.
LEMMA RetriesKeepCalls ==
    ASSUME FlowInv, CallInv, NEW r \in Runs, StepOf(r),
           NEW attempt, NEW limit, NEW refused, attempt = call[r].attempt + 1,
           limit \in Nat, refused \in Nat, refused <= newest,
           attempt < limit, limit <= MaxRetries + 1,
           refused = NoToken => limit = MaxRetries,
           call' = [call EXCEPT ![r] = [call[r] EXCEPT !.attempt = attempt, !.limit = limit,
                                                       !.refused = refused]],
           run'[r].step \in {"saving", "request"} =>
                call[r].token # NoToken /\ (call[r].token # refused \/ call[r].again),
           UNCHANGED tokens
    PROVE  CallInv'
<1>0. /\ call \in [Runs -> CallStates] /\ call[r] \in CallStates
      /\ \A s \in Runs : s # r => run'[s] = run[s]
      /\ UNCHANGED <<memory, file, newest>> /\ attempt \in Nat
  BY DEF StepOf, CallInv, tokens, CallStates
<1>1. /\ call' \in [Runs -> CallStates] /\ \A s \in Runs : s # r => call'[s] = call[s]
      /\ call'[r].attempt = attempt /\ call'[r].limit = limit /\ call'[r].refused = refused
      /\ call'[r].token = call[r].token /\ call'[r].again = call[r].again
  BY <1>0 DEF CallStates
<1>2. CallOf(r, newest)'
  BY <1>0, <1>1 DEF CallOf, CallInv
<1>3. \A s \in Runs : CallOf(s, newest)'
  BY <1>0, <1>1, <1>2 DEF CallOf, CallInv
<1> QED BY <1>0, <1>1, <1>3 DEF CallInv, CachesInv, CallOf

\* All the steps of a run.
LEMMA CallsStay ==
    ASSUME FlowInv, CallInv, host \in [Runs -> Hosts], NEW r \in Runs, StepOf(r),
           Acts(r)
    PROVE  CallInv'
<1>0. /\ call \in [Runs -> CallStates] /\ call[r] \in CallStates
      /\ run \in [Runs -> RunStates] /\ run[r] \in RunStates
      /\ \A s \in Runs : s # r => run'[s] = run[s]
      /\ CallOf(r, newest) /\ \A s \in Runs : CallOf(s, newest)
  BY CallInvParts DEF FlowInv, Types, StepOf, CallInv
<1>a. ASSUME run'[r].step \notin {"saving", "request"},
             UNCHANGED tokens,
             call' = call \/ call' = [call EXCEPT ![r] = NewCall]
      PROVE  CallInv'
  <2>1. CASE call' = call
    <3>1. \A s \in Runs : CallOf(s, newest)'
      BY <1>0, <1>a, <2>1 DEF CallOf, tokens
    <3> QED BY <1>a, <2>1, <3>1 DEF CallInv, CachesInv, CallOf, tokens
  <2> QED BY <1>a, <2>1, FailEndsCall
<1>b. ASSUME Fail(r), run[r].step \in InLink \cup {"link"}, UNCHANGED database, UNCHANGED tokens
      PROVE  CallInv'
  <2>1. run'[r].step \in {"failed", "link", "done"}
    BY <1>b, FailIs
  <2> QED BY <1>a, <1>b, <2>1 DEF Fail
<1>1. CASE LoadToken(r) \/ ReceiveToken(r) \/ SaveToken(r)
  BY <1>1, TokenStepsKeepCalls
<1>2. CASE NoAnswer(r)
  <2>1. run[r].step = "request" /\ UNCHANGED <<database, tokens>>
    BY <1>2 DEF NoAnswer
  <2>2. CASE call[r].attempt + 1 < call[r].limit
    <3>1. call' = [call EXCEPT ![r].attempt = call[r].attempt + 1] /\ run' = run
      BY <1>2, <2>2 DEF NoAnswer
    <3>2. [call[r] EXCEPT !.attempt = call[r].attempt + 1]
            = [call[r] EXCEPT !.attempt = call[r].attempt + 1, !.limit = call[r].limit,
                              !.refused = call[r].refused]
      BY <1>0 DEF CallStates
    <3>3. call' = [call EXCEPT ![r] =
            [call[r] EXCEPT !.attempt = call[r].attempt + 1, !.limit = call[r].limit,
                            !.refused = call[r].refused]]
      BY <3>1, <3>2
    <3>4. /\ call[r].limit \in Nat /\ call[r].refused \in Nat /\ call[r].refused <= newest
          /\ call[r].limit <= MaxRetries + 1
          /\ call[r].refused = NoToken => call[r].limit = MaxRetries
          /\ run'[r].step \in {"saving", "request"} =>
                call[r].token # NoToken /\ (call[r].token # call[r].refused \/ call[r].again)
      BY <1>0, <3>1 DEF CallOf, CallStates
    <3> QED BY <2>1, <2>2, <3>3, <3>4, RetriesKeepCalls
  <2>3. CASE ~(call[r].attempt + 1 < call[r].limit)
    BY <1>2, <1>b, <2>1, <2>3 DEF NoAnswer, InLink
  <2> QED BY <2>2, <2>3
<1>3. CASE Unauthorized(r)
  <2>1. run[r].step = "request" /\ UNCHANGED <<database, tokens>>
    BY <1>3 DEF Unauthorized
  <2>2. CASE call[r].refused = NoToken
    <3> DEFINE attempt == call[r].attempt + 1
    <3>1. PICK limit : limit = IF call[r].limit > attempt THEN call[r].limit ELSE attempt + 1
      OBVIOUS
    <3>2. /\ call' = [call EXCEPT ![r] =
                [call[r] EXCEPT !.attempt = attempt, !.refused = call[r].token,
                                !.limit = limit]]
          /\ Goto(r, "token")
      BY <1>3, <2>2, <3>1 DEF Unauthorized
    <3>3. /\ call[r].token \in Nat /\ call[r].token > 0 /\ call[r].token <= newest
          /\ call[r].attempt \in Nat /\ call[r].limit = MaxRetries
          /\ call[r].attempt < MaxRetries /\ MaxRetries \in Nat
      BY <1>0, <2>1, <2>2, RunsAssumption DEF CallOf, CallStates, NoToken
    <3>4. limit \in Nat /\ attempt < limit /\ limit <= MaxRetries + 1
      BY <3>1, <3>3
    <3>5. run'[r].step = "token"
      BY <1>0, <3>2 DEF Goto, RunStates
    <3>6. call' = [call EXCEPT ![r] =
                [call[r] EXCEPT !.attempt = attempt, !.limit = limit,
                                !.refused = call[r].token]]
      <4>1. [call[r] EXCEPT !.attempt = attempt, !.limit = limit, !.refused = call[r].token]
              = [call[r] EXCEPT !.attempt = attempt, !.refused = call[r].token,
                                !.limit = limit]
        BY <1>0 DEF CallStates
      <4> QED BY <3>2, <4>1
    <3>7. call[r].token # NoToken /\ run'[r].step \notin {"saving", "request"}
      BY <3>3, <3>5 DEF NoToken
    <3>8. UNCHANGED tokens
      BY <2>1
    <3> HIDE DEF attempt
    <3>9. attempt = call[r].attempt + 1
      BY DEF attempt
    <3> QED BY <3>3, <3>4, <3>6, <3>7, <3>8, <3>9, RetriesKeepCalls
  <2>3. CASE call[r].refused # NoToken
    BY <1>3, <1>b, <2>1, <2>3 DEF Unauthorized, InLink
  <2> QED BY <2>2, <2>3
<1>4. CASE TokenFails(r) \/ Rejected(r) \/ RefuseLink(r) \/ InvalidLink(r)
  <2>1. Fail(r) /\ UNCHANGED database /\ UNCHANGED tokens
        /\ run[r].step \in {"issuing", "request", "link", "insert"}
    BY <1>4 DEF TokenFails, Rejected, RefuseLink, InvalidLink
  <2> QED BY <1>b, <2>1 DEF InLink
<1>5. CASE LinkUnavailable(r)
  <2>1. CASE Fail(r)
    BY <1>5, <1>b, <2>1 DEF LinkUnavailable
  <2>2. CASE /\ run' = [run EXCEPT ![r] = [run[r] EXCEPT !.step = "done", !.stopped = TRUE]]
             /\ UNCHANGED <<call, linkLock>>
    BY <1>0, <1>5, <1>a, <2>2 DEF LinkUnavailable, RunStates
  <2> QED BY <1>5, <2>1, <2>2 DEF LinkUnavailable
<1>6. CASE StartCollecting(r) \/ Issued(r) \/ RecordFailure(r) \/ AskForLink(r)
  <2>1. PICK step \in {"token", "insert", "done"} : Goto(r, step)
    BY <1>6 DEF StartCollecting, Issued, RecordFailure, AskForLink
  <2>2. run'[r].step = step
    BY <1>0, <2>1 DEF Goto, RunStates
  <2>3. UNCHANGED tokens /\ (call' = call \/ call' = [call EXCEPT ![r] = NewCall])
    BY <1>6 DEF StartCollecting, Issued, RecordFailure, AskForLink
  <2> QED BY <1>a, <2>2, <2>3
<1>7. CASE \/ Listed(r) \/ QuotaExceeded(r) \/ Upsert(r) \/ CommitCollection(r)
           \/ StoreFails(r)
  <2>1. run'[r].step \in {"store", "done", "link", "failed"}
    <3> USE <1>0 DEF RunStates
    <3>1. CASE Listed(r)
      BY <3>1 DEF Listed
    <3>2. CASE QuotaExceeded(r)
      BY <3>2 DEF QuotaExceeded
    <3>3. CASE Upsert(r)
      BY <3>3 DEF Upsert
    <3>4. CASE CommitCollection(r)
      BY <3>4 DEF CommitCollection
    <3>5. CASE StoreFails(r)
      BY <3>5 DEF StoreFails
    <3> QED BY <1>7, <3>1, <3>2, <3>3, <3>4, <3>5
  <2>2. UNCHANGED tokens /\ (call' = call \/ call' = [call EXCEPT ![r] = NewCall])
    BY <1>7 DEF Listed, QuotaExceeded, Upsert, CommitCollection, StoreFails
  <2> QED BY <1>a, <2>1, <2>2
<1>8. CASE SkipItem(r) \/ ReuseLink(r) \/ InsertLink(r)
  <2>1. run' = [run EXCEPT ![r] = Advanced(run[r])]
    BY <1>8 DEF SkipItem, ReuseLink, InsertLink
  <2>2. run'[r].step \in {"link", "done"}
    BY <1>0, <2>1, AdvancedIs
  <2>3. UNCHANGED <<call, tokens>>
    BY <1>8 DEF SkipItem, ReuseLink, InsertLink
  <2> QED BY <1>a, <2>2, <2>3
<1>9. CASE Abort(r) \/ BreakDeadlock(r)
  <2>1. run'[r].step = "aborted" /\ call' = [call EXCEPT ![r] = NewCall] /\ UNCHANGED tokens
    BY <1>0, <1>9 DEF Abort, BreakDeadlock, RollBack, NewRun
  <2> QED BY <1>a, <2>1
<1>10. ASSUME NEW p \in Products, StartIssuing(r, p) PROVE CallInv'
  <2>1. run'[r].step = "link" /\ UNCHANGED <<call, tokens>>
    BY <1>0, <1>10 DEF StartIssuing, RunStates
  <2> QED BY <1>a, <2>1
<1> QED BY <1>1, <1>2, <1>3, <1>4, <1>5, <1>6, <1>7, <1>8, <1>9, <1>10 DEF Work, Acts


\* What happens to the tokens meanwhile.
LEMMA TokensStay ==
    ASSUME CallInv, UNCHANGED run,
           UNCHANGED vars \/ (\E h \in Hosts : RestartHost(h))
    PROVE  CallInv'
<1> USE RunsAssumption DEF NoToken
<1>1. UNCHANGED <<call, file, newest>>
  BY DEF RestartHost, vars
<1>2. memory' \in [Hosts -> Nat] /\ \A h \in Hosts : memory'[h] <= newest
  BY DEF CallInv, RestartHost, vars
<1> QED BY <1>1, <1>2 DEF CallInv

-----------------------------------------------------------------------------
(* The invariant of the specification                                      *)

PlacesInv == host \in [Runs -> Hosts]

\* The initial states.
LEMMA LinkInvHolds ==
    Init => LinkInv /\ CallInv /\ PlacesInv
<1> SUFFICES ASSUME Init PROVE LinkInv /\ CallInv /\ PlacesInv
  OBVIOUS
<1>0. /\ host \in [Runs -> Hosts] /\ run = [r \in Runs |-> NewRun]
      /\ call = [r \in Runs |-> NewCall]
      /\ stock = [p \in Products |-> "not stored"] /\ records = [r \in Runs |-> NoRecord]
      /\ links = {} /\ productLock = [p \in Products |-> Nobody]
      /\ linkLock = [p \in Products |-> Nobody] /\ memory = [h \in Hosts |-> NoToken]
      /\ newest = 1 /\ file \in {NoToken, newest}
      /\ issues = [p \in Products |-> 0] /\ wasted = [p \in Products |-> 0]
      /\ Nobody \notin Runs
  BY RunsAssumption DEF Init
<1>1. NewRun \in RunStates
  <2>1. <<>> \in Seq(Item)
    BY EmptySeq
  <2> QED BY <2>1 DEF NewRun, RunStates, Steps
<1>2. /\ run \in [Runs -> RunStates]
      /\ \A r \in Runs : run[r].step = "idle" /\ run[r].at = 0 /\ run[r].list = <<>>
  BY <1>0, <1>1 DEF NewRun
<1>3. FlowInv
  <2>1. Types
    BY <1>0, <1>2 DEF Types, Locks, NoRecord
  <2>2. \A r \in Runs : Placed(r)
    BY <1>0, <1>2 DEF Placed, InLink
  <2> QED BY <2>1, <2>2 DEF FlowInv
<1>4. LocksInv
  BY <1>0, <1>2 DEF LocksInv, Asking, InLink
<1>5. BudgetInv
  <2>1. \A p \in Products : issues[p] = 0 /\ wasted[p] = 0
    BY <1>0
  <2> QED BY <2>1 DEF BudgetInv
<1>6. CollectedInv
  <2>1. /\ \A p \in Products : stock[p] = "not stored" /\ issues[p] = 0
        /\ \A r \in Runs : records[r].items = {}
    BY <1>0 DEF NoRecord
  <2>2. \A r \in Runs : ~Asking(r)
    BY <1>0, <1>2 DEF Asking, InLink
  <2>3. ASSUME NEW p \in Products PROVE ~(issues[p] > 0) /\ stock[p] # "saleable"
    <3>1. stock[p] # "saleable"
      BY <2>1
    <3>2. issues[p] = 0
      BY <2>1
    <3>3. ~(issues[p] > 0)
      BY <3>2
    <3> QED BY <3>1, <3>3
  <2> QED BY <2>1, <2>2, <2>3 DEF CollectedInv, OnlyCollectedIsIssued
<1>7. CoveredInv
  BY <1>0, <1>2 DEF CoveredInv, Asking, InLink
<1>8. CallInv
  <2>1. /\ memory \in [Hosts -> Nat] /\ file \in Nat /\ newest = 1 /\ file <= newest
        /\ \A h \in Hosts : memory[h] <= newest
    <3>1. NoToken = 0 /\ newest = 1 /\ memory = [h \in Hosts |-> NoToken]
      BY <1>0 DEF NoToken
    <3>2. file = 0 \/ file = 1
      BY <1>0, <3>1
    <3>3. \A h \in Hosts : memory[h] = 0
      BY <3>1
    <3>4. memory \in [Hosts -> Nat]
      BY <3>1
    <3> QED BY <3>1, <3>2, <3>3, <3>4
  <2>2. call \in [Runs -> CallStates] /\ \A r \in Runs : call[r] = NewCall
    BY <1>0, NewCallIs
  <2>3. ASSUME NEW r \in Runs PROVE CallOf(r, newest)
    <3>1. /\ call[r].attempt = 0 /\ call[r].limit = MaxRetries /\ call[r].refused = 0
          /\ call[r].token = 0 /\ run[r].step = "idle" /\ newest = 1
      BY <1>2, <2>1, <2>2, NewCallIs DEF NoToken
    <3>2. 0 < MaxRetries /\ MaxRetries <= MaxRetries + 1
      BY RunsAssumption
    <3> QED BY <3>1, <3>2 DEF CallOf
  <2> QED BY <2>1, <2>2, <2>3, CallInvParts DEF CachesInv
<1>9. PlacesInv
  BY <1>0 DEF PlacesInv
<1> QED BY <1>3, <1>4, <1>5, <1>6, <1>7, <1>8, <1>9 DEF LinkInv

\* Every step.
LEMMA LinkInvStays ==
    LinkInv /\ CallInv /\ PlacesInv /\ [Next]_vars => LinkInv' /\ CallInv' /\ PlacesInv'
<1> SUFFICES ASSUME LinkInv, CallInv, PlacesInv, [Next]_vars
             PROVE  LinkInv' /\ CallInv' /\ PlacesInv'
  OBVIOUS
<1> USE DEF LinkInv
<1>1. ASSUME NEW r \in Runs, StepOf(r), Ledger(r), Acts(r) PROVE LinkInv' /\ CallInv'
  <2>1. FlowInv'
    BY <1>1, TypesStay, RunsStayPlaced DEF FlowInv
  <2>2. LocksInv' /\ BudgetInv' /\ CollectedInv' /\ CoveredInv'
    BY <1>1, LocksStay, BudgetStays, CollectedStays, CoveredStays
  <2>3. CallInv'
    BY <1>1, CallsStay DEF PlacesInv
  <2> QED BY <2>1, <2>2, <2>3
<1>2. ASSUME UNCHANGED <<run, database, linkLock, toss>>,
             UNCHANGED vars \/ (\E h \in Hosts : RestartHost(h))
      PROVE  LinkInv' /\ CallInv'
  <2> USE <1>2 DEF database, toss
  <2>1. FlowInv'
    BY DEF FlowInv, Types, Placed
  <2>2. LocksInv' /\ CoveredInv'
    BY DEF LocksInv, CoveredInv, Covered, Asking, Fetching, Current
  <2>3. BudgetInv'
    BY DEF BudgetInv, Kept, Current
  <2>4. CollectedInv'
    BY DEF CollectedInv, Collected, Asking, Fetching, Current, OnlyCollectedIsIssued
  <2>5. CallInv'
    BY TokensStay
  <2> QED BY <2>1, <2>2, <2>3, <2>4, <2>5
<1>3. LinkInv' /\ CallInv'
  BY <1>1, <1>2, EveryStep
<1>4. host' = host
  <2>1. ASSUME NEW r \in Runs, Acts(r) PROVE host' = host
    <3> USE DEF tokens
    <3>1. CASE \/ StartCollecting(r) \/ Abort(r) \/ BreakDeadlock(r)
               \/ \E p \in Products : StartIssuing(r, p)
      BY <3>1 DEF StartCollecting, Abort, BreakDeadlock, RollBack, StartIssuing
    <3>2. CASE \/ LoadToken(r) \/ ReceiveToken(r) \/ SaveToken(r) \/ TokenFails(r)
               \/ Listed(r) \/ Issued(r) \/ NoAnswer(r) \/ Unauthorized(r) \/ Rejected(r)
               \/ QuotaExceeded(r)
      BY <3>2 DEF LoadToken, ReceiveToken, SaveToken, TokenFails, Listed, Issued, NoAnswer,
                  Unauthorized, Rejected, QuotaExceeded
    <3>3. CASE \/ Upsert(r) \/ CommitCollection(r) \/ StoreFails(r) \/ RecordFailure(r)
               \/ SkipItem(r) \/ LinkUnavailable(r) \/ ReuseLink(r) \/ AskForLink(r)
               \/ RefuseLink(r) \/ InsertLink(r) \/ InvalidLink(r)
      BY <3>3 DEF Upsert, CommitCollection, StoreFails, RecordFailure, SkipItem,
                  LinkUnavailable, ReuseLink, AskForLink, RefuseLink, InsertLink, InvalidLink
    <3> QED BY <2>1, <3>1, <3>2, <3>3 DEF Acts, Work
  <2>2. ASSUME UNCHANGED vars \/ (\E h \in Hosts : RestartHost(h))
        PROVE  host' = host
    BY <2>2 DEF RestartHost, vars
  <2> QED BY <2>1, <2>2, EveryStep
<1> QED BY <1>3, <1>4 DEF PlacesInv

\* So it is an invariant.
LEMMA LinkInvAlways == Spec => [](LinkInv /\ CallInv /\ PlacesInv)
<1>1. Init => LinkInv /\ CallInv /\ PlacesInv
  BY LinkInvHolds
<1>2. LinkInv /\ CallInv /\ PlacesInv /\ [Next]_vars => (LinkInv /\ CallInv /\ PlacesInv)'
  BY LinkInvStays
<1> QED BY <1>1, <1>2, PTL DEF Spec

-----------------------------------------------------------------------------
(* Theorems                                                                *)

\* However many runs meet at a product, and however their requests fail, Toss
\* issued at most one link more for it than got lost (ensure_toss_share_link):
\* while it is on its way to the table the run holds the product's lock.
THEOREM LinksAreIssuedOnce == Spec => []IssuedOnceUnlessWasted
<1>1. LinkInv => IssuedOnceUnlessWasted
  BY DEF LinkInv, BudgetInv, IssuedOnceUnlessWasted
<1> QED BY <1>1, LinkInvAlways, PTL

\* No link is issued for a product that only a collection contained which was
\* rolled back (store_toss_collection before auto_issue_toss_share_links).
THEOREM IssuedWasCollected == Spec => []OnlyCollectedIsIssued
<1>1. LinkInv => OnlyCollectedIsIssued
  BY DEF LinkInv, CollectedInv
<1> QED BY <1>1, LinkInvAlways, PTL

\* A listing of any length that came to its end has a link for each of its
\* products, or its summary says that it has none (auto_issue_toss_share_links).
THEOREM ListingsAreLinked == Spec => []LinkedUnlessReported
<1>1. LinkInv => LinkedUnlessReported
  <2> SUFFICES ASSUME LinkInv, NEW r \in Runs, run[r].step = "done", ~run[r].stopped,
                      NEW i \in DOMAIN run[r].list
               PROVE  Covered(r, i)
    BY DEF LinkedUnlessReported, Covered
  <2>1. DOMAIN run[r].list = 1..Len(run[r].list)
    BY LenProperties DEF LinkInv, FlowInv, Types, RunStates
  <2> QED BY <2>1 DEF LinkInv, CoveredInv
<1> QED BY <1>1, LinkInvAlways, PTL

\* No request is tried more often than api_request's budget allows, and one
\* more time after a refused token.
THEOREM AttemptsStayBounded == Spec => []AttemptsBounded
<1>1. CallInv => AttemptsBounded
  <2> SUFFICES ASSUME CallInv, NEW r \in Runs PROVE call[r].attempt <= MaxRetries
    BY DEF AttemptsBounded
  <2>1. /\ call[r].attempt \in Nat /\ call[r].limit \in Nat /\ MaxRetries \in Nat
        /\ call[r].attempt < call[r].limit /\ call[r].limit <= MaxRetries + 1
    BY RunsAssumption DEF CallInv, CallStates
  <2> QED BY <2>1
<1> QED BY <1>1, LinkInvAlways, PTL

\* A call never sends the token again that it was refused, whatever the other
\* threads and processes cache (get_access_token with force_refresh), unless
\* the OAuth server answers this very call with it.
THEOREM RefusedTokensAreReplaced == Spec => []RefusedTokenIsReplaced
<1>1. CallInv => RefusedTokenIsReplaced
  <2> SUFFICES ASSUME CallInv, NEW r \in Runs, run[r].step = "request"
               PROVE  call[r].token # call[r].refused \/ call[r].again
    BY DEF RefusedTokenIsReplaced
  <2> QED BY DEF CallInv
<1> QED BY <1>1, LinkInvAlways, PTL

\* No lock outlives the transaction that took it: who waits for a row or for
\* an advisory lock waits for a run that is in the transaction.
THEOREM WaitersAreServed == Spec => []WaitsForWorkers
<1>1. LinkInv => WaitsForWorkers
  <2> SUFFICES ASSUME LinkInv PROVE WaitsForWorkers
    OBVIOUS
  <2>1. ASSUME NEW r \in Runs, NEW s \in Runs, WaitsFor(r, s) PROVE run[s].step = "store"
    <3>1. Current(r).id \in Products /\ productLock[Current(r).id] = s
      BY <2>1, CurrentIsItem DEF WaitsFor, LinkInv
    <3> QED BY <3>1 DEF LinkInv, LocksInv
  <2>2. ASSUME NEW r \in Runs, NEW p \in Products, linkLock[p] = r
        PROVE  run[r].step \in InLink /\ Current(r).id = p
    BY <2>2 DEF LinkInv, LocksInv, Asking
  <2> QED BY <2>1, <2>2 DEF WaitsForWorkers
<1> QED BY <1>1, LinkInvAlways, PTL
=============================================================================
