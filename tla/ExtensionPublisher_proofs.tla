--------------------- MODULE ExtensionPublisher_proofs ---------------------
(***************************************************************************)
(* Theorems about what the extension puts on the public blog, for any      *)
(* number of polls, tabs, batches and attempts, a bad network, crashes and *)
(* a user who opens editors, too: the holder of the current publish token  *)
(* is alone with its batch, from begin to the report of the outcome.       *)
(***************************************************************************)
EXTENDS ExtensionPublisher, PublicationStore_proofs

-----------------------------------------------------------------------------
(* The inductive invariant                                                 *)

Drafts == [id : Tabs \cup {NoTab, ManualDraft}, batch : Batches \cup {NoBatch},
           preflight : BOOLEAN]

\* The steps of a handler that was given a publish token and still has it.
Owning == {"holding", "clicked", "attempted", "reporting"}

TabSteps == {"unused", "blank", "loading", "prompted", "filling", "verified",
             "beginning", "failing", "finishing"} \cup Owning

TabStates == [step : TabSteps,
              draft : Drafts, token : 0..MaxAttempts, image : SUBSET Products,
              known : SUBSET Tabs, outcome : {"FAILED_PRE_SUBMIT", "PUBLISH_UNKNOWN"}]

PollStates == [step : {"idle", "served", "prepared", "stored", "navigated", "failing",
                       "reporting"},
               batch : Batches \cup {NoBatch}, tab : Tabs \cup {NoTab}]

ExtensionTypes ==
    /\ poll \in [Polls -> PollStates]
    /\ session \in Drafts
    /\ tabs \in [Tabs -> TabStates]
    /\ clipboard \subseteq Products
    /\ public \subseteq [tab : Tabs, batch : Batches, image : SUBSET Products]

\* A draft is made of an approved batch, and knows whether it is a preflight.
IsDraftOf(draft, table) ==
    /\ draft.preflight => draft.batch \in Batches
    /\ draft.batch \in Batches =>
        /\ table[draft.batch].status = "APPROVED"
        /\ draft.preflight <=> table[draft.batch].source = "preflight"

DraftsAreApproved ==
    /\ IsDraftOf(session, batches)
    /\ \A t \in Tabs : IsDraftOf(tabs[t].draft, batches)
    /\ \A w \in Polls : poll[w].step # "idle" =>
        poll[w].batch \in Batches /\ batches[poll[w].batch].status = "APPROVED"

TypesInv == TypeOK /\ ExtensionTypes /\ DraftsAreApproved

Owner(t) == tabs[t].step \in Owning

\* The token of tab t would be accepted by record_extension_publish_result.
Current(t) == Awaits(tabs[t].draft.batch, tabs[t].token)

PostsOf(b) == {post \in public : post.batch = b}

\* A token was drawn for an approval that is no preflight.
OwnersWereGranted ==
    \A t \in Tabs : Owner(t) =>
        /\ tabs[t].draft.batch \in Batches
        /\ ~tabs[t].draft.preflight
        /\ tabs[t].token \in 1..batches[tabs[t].draft.batch].attempt

\* No two tabs have the same token of a batch.
TokensAreUnique ==
    \A t, u \in Tabs :
        Owner(t) /\ Owner(u) /\ t # u =>
            \/ tabs[t].draft.batch # tabs[u].draft.batch
            \/ tabs[t].token # tabs[u].token

\* Until it reports, the holder of a token is the one the server waits for.
OwnersAreCurrent ==
    \A t \in Tabs : Owner(t) /\ tabs[t].step # "reporting" => Current(t)

\* What a tab knows of the public posts of its batch: nothing is public before
\* its click, what is public then is its own, and it reports a failure before
\* the click only if nothing is.
OwnerKnows(t) ==
    /\ tabs[t].step = "holding" => PostsOf(tabs[t].draft.batch) = {}
    /\ tabs[t].step = "clicked" => \A post \in PostsOf(tabs[t].draft.batch) : post.tab = t
    /\ tabs[t].step = "attempted" => tabs[t].outcome = "PUBLISH_UNKNOWN"
    /\ tabs[t].step = "reporting" /\ Current(t) =>
        tabs[t].outcome = "PUBLISH_UNKNOWN" \/ PostsOf(tabs[t].draft.batch) = {}

OwnersKnow == \A t \in Tabs : OwnerKnows(t)

\* A begin that found no post is one of an approval that is no preflight.
BeginsAreGranted ==
    \A b \in begins : /\ b \in Batches /\ batches[b].status = "APPROVED"
                      /\ batches[b].source # "preflight"

\* What is public was approved to be.
PostsWereApproved ==
    \A post \in public :
        /\ batches[post.batch].status = "APPROVED"
        /\ batches[post.batch].source # "preflight"

\* A public post belongs to an attempt that the tables still count, and is the
\* only one of it.
PostsAreLive ==
    \A post \in public :
        /\ Live(post.batch)
        /\ \A other \in public : other.batch = post.batch => other = post

GrantInv ==
    LockInv /\ TypesInv /\ OwnersWereGranted /\ BeginsAreGranted /\ PostsWereApproved

AttemptInv == TokensAreUnique /\ OwnersAreCurrent /\ OwnersKnow /\ PostsAreLive

ExtensionInv == GrantInv /\ AttemptInv

-----------------------------------------------------------------------------
(* What the steps do to the tables                                         *)

\* What an approval is for stays, and its publication neither begins nor ends.
ApprovedKept ==
    \A b \in Batches : batches[b].status = "APPROVED" =>
        /\ batches'[b].status = "APPROVED"
        /\ batches'[b].source = batches[b].source
        /\ batches'[b].summary = batches[b].summary
        /\ batches'[b].attempt = batches[b].attempt
        /\ \/ batches'[b].publish = batches[b].publish
           \/ batches[b].publish \notin InFlight /\ batches'[b].publish \notin InFlight

\* A begin that finds no post, of an approval that is no preflight.
FindsNoPost ==
    \E b \in Batches, p \in Products :
        FindNoPost(b, p) /\ batches[b].source # "preflight"

\* The requests that neither draw a token nor end a publication.
Preliminary ==
    \/ Approval \/ Queueing \/ Preparing
    \/ FindsNoPost \/ \E b \in Batches : BeginLost(b)
    \/ UNCHANGED vars

\* They keep all approvals.
LEMMA PreliminaryKeepsApprovals == ASSUME TypeOK, Preliminary PROVE ApprovedKept
<1> USE DEF TypeOK, ApprovedKept
<1>1. CASE \E b \in Batches, source \in Requested, items \in SUBSET Products :
              RequestApproval(b, source, items)
  BY <1>1 DEF RequestApproval, Exists
<1>2. CASE \E b \in Batches, decision \in Decisions : Resolve(b, decision)
  BY <1>2 DEF Resolve
<1>3. CASE HoldPreflights
  BY <1>3 DEF HoldPreflights, PendingPreflights
<1>4. CASE \E m \in Batches, d \in Days, last \in 0..MaxSequence :
              \E place \in Placements(batches[m].summary) :
                  CreateQueue(m, d, last, place)
  BY <1>4 DEF CreateQueue
<1>5. CASE \E m \in Batches, d \in Days, last \in 0..MaxSequence :
              CreateQueueRejected(m, d, last)
  BY <1>5 DEF CreateQueueRejected
<1>6. CASE \E held, m \in Batches, d \in Days : Relink(held, m, d)
  BY <1>6 DEF Relink
<1>7. CASE \E d \in Days, p \in Products, b \in Batches : ReleaseNext(d, p, b)
  BY <1>7 DEF ReleaseNext, Exists
<1>8. CASE \E d \in Days : Archive(d) \/ SkipStale(d)
  BY <1>8 DEF Archive, SkipStale
<1>9. CASE \E b \in Batches : Claim(b) \/ ReleaseClaim(b)
  <2> PICK c \in Batches, claimed \in BOOLEAN : batches' = [batches EXCEPT ![c].claimed = claimed]
    BY <1>9 DEF Claim, ReleaseClaim
  <2> QED BY DEF Batch
<1>10. CASE \E b \in Batches : PreFailure(b)
  BY <1>10 DEF PreFailure, MayPreFail, InFlight
<1>11. CASE \E b \in Batches : PreflightSuccess(b)
  BY <1>11 DEF PreflightSuccess, MayPassPreflight, InFlight
<1>12. CASE FindsNoPost \/ (\E b \in Batches : BeginLost(b)) \/ UNCHANGED vars
  BY <1>12 DEF FindsNoPost, FindNoPost, BeginLost, vars
<1> QED BY <1>1, <1>2, <1>3, <1>4, <1>5, <1>6, <1>7, <1>8, <1>9, <1>10, <1>11, <1>12
        DEF Preliminary, Approval, Queueing, Preparing

\* They are steps of PublicationStore.
LEMMA PreliminaryIsNext == Preliminary => [Next]_vars
BY DEF Preliminary, Preparing, FindsNoPost, Publishing, Beginning, Next

\* They lock no preflight for a begin.
LEMMA PreliminaryKeepsBegins ==
    ASSUME LockInv, Preliminary
    PROVE  \A b \in begins' :
                \/ b \in begins
                \/ /\ b \in Batches /\ batches[b].status = "APPROVED"
                   /\ batches[b].source # "preflight"
<1>1. CASE Approval \/ Queueing \/ Preparing
  BY <1>1, ApprovalSameAttempts, QueueingSameAttempts, PreparingSameAttempts
     DEF SameLocks
<1>2. CASE FindsNoPost
  BY <1>2 DEF FindsNoPost, FindNoPost, MayBegin
<1>3. CASE (\E b \in Batches : BeginLost(b)) \/ UNCHANGED vars
  BY <1>3 DEF BeginLost, vars
<1> QED BY <1>1, <1>2, <1>3 DEF Preliminary

\* A begin draws the next token of one approval.
Draws(b) ==
    /\ b \in Batches
    /\ batches[b].status = "APPROVED" /\ batches[b].publish \notin InFlight
    /\ batches'[b].status = "APPROVED" /\ batches'[b].publish = "PUBLISHING"
    /\ batches'[b].source = batches[b].source
    /\ batches'[b].attempt = batches[b].attempt + 1
    /\ batches[b].attempt \in Nat /\ batches[b].attempt < MaxAttempts
    /\ \A c \in Batches : c # b => batches'[c] = batches[c]
    /\ begins' \subseteq begins

\* Both ways to begin do that.
LEMMA BeginDraws ==
    ASSUME LockInv, NEW b \in Batches, NEW p, Begin(b, p) \/ BeginUnlocked(b, p)
    PROVE  Draws(b) /\ LockInv'
<1>1. TypeOK /\ batches[b] \in Batch /\ p \in batches[b].summary
  BY DEF LockInv, TypeOK, Begin, MayBegin, BeginUnlocked
<1>2. p \in Products
  BY <1>1 DEF Batch
<1>3. TypeOK'
  BY <1>1, <1>2, NextType DEF Next, Publishing, Beginning
<1>4. TakesLock(b, p) /\ LockInv'
  BY <1>2, <1>3, BeginTakesLock, TakingKeepsLock
<1>5. batches[b].status = "APPROVED"
  BY DEF LockInv, BeginsAreApproved, Begin, MayBegin, BeginUnlocked
<1>6. MarkPublishing(b, p)
  BY DEF Begin, BeginUnlocked
<1>7. /\ batches'[b].publish = "PUBLISHING" /\ batches'[b].source = batches[b].source
      /\ batches'[b].attempt = batches[b].attempt + 1
      /\ batches[b].attempt \in Nat /\ batches[b].attempt < MaxAttempts
  BY <1>1, <1>6, BoundsAssumption DEF MarkPublishing, TypeOK, Batch
<1> QED BY <1>4, <1>5, <1>7 DEF Draws, TakesLock, Live

\* A result ends the attempt that it is the token of.
LEMMA ResultEnds ==
    ASSUME LockInv, NEW b \in Batches, NEW p, NEW t \in 1..MaxAttempts,
           NEW outcome \in Outcomes, Result(b, p, t, outcome)
    PROVE  /\ LockInv'
           /\ Awaits(b, t)
           /\ batches'[b].publish = outcome
           /\ batches'[b].status = batches[b].status
           /\ batches'[b].source = batches[b].source
           /\ batches'[b].attempt = batches[b].attempt
           /\ \A c \in Batches : c # b => batches'[c] = batches[c]
           /\ begins' = begins
<1>1. TypeOK /\ batches[b] \in Batch /\ p \in batches[b].summary
  BY DEF LockInv, TypeOK, Result
<1>2. p \in Products
  BY <1>1 DEF Batch
<1>3. TypeOK'
  BY <1>1, <1>2, NextType DEF Next, Publishing
<1>4. LockInv'
  BY <1>2, <1>3, ResultKeepsLock
<1> QED BY <1>1, <1>4 DEF Result, TypeOK, Batch, locking

-----------------------------------------------------------------------------
(* What the steps do to tabs and drafts                                    *)

\* A handler without a token stays without, one with a token keeps it, or
\* goes on to report what it knows.
TabKept(t) ==
    tabs'[t].step \in Owning =>
        /\ tabs[t].step \in Owning
        /\ tabs'[t].draft = tabs[t].draft
        /\ tabs'[t].token = tabs[t].token
        /\ tabs'[t].outcome = tabs[t].outcome
        /\ \/ tabs'[t].step = tabs[t].step
           \/ tabs[t].step \in {"holding", "attempted"} /\ tabs'[t].step = "reporting"

\* Drafts come from the stored one, and that from a served approval.
DraftsHanded ==
    /\ \A t \in Tabs : tabs'[t].draft \in {tabs[t].draft, NoDraft, session}
    /\ \/ session' = session
       \/ session'.batch = NoBatch /\ ~session'.preflight
       \/ \E w \in Polls : /\ poll[w].step # "idle" /\ session'.batch = poll[w].batch
                           /\ session'.preflight =
                                (batches[poll[w].batch].source = "preflight")
    /\ \A w \in Polls : poll'[w].step # "idle" =>
        \/ poll[w].step # "idle" /\ poll'[w].batch = poll[w].batch
        \/ poll'[w].batch \in Batches /\ batches[poll'[w].batch].status = "APPROVED"

QuietStep ==
    /\ Preliminary /\ DraftsHanded /\ ExtensionTypes'
    /\ public' = public
    /\ \A t \in Tabs : TabKept(t)

\* The empty draft, tab and poll have their types.
LEMMA NoDraftIsDraft ==
    NoDraft \in Drafts /\ NoDraft.batch = NoBatch /\ ~NoDraft.preflight
BY DEF NoDraft, Drafts

\* An unused tab holds nothing.
LEMMA UnusedIsTab ==
    UnusedTab \in TabStates /\ UnusedTab.step = "unused" /\ UnusedTab.draft = NoDraft
BY NoDraftIsDraft, BoundsAssumption DEF UnusedTab, TabStates, TabSteps

\* An idle poll was served nothing.
LEMMA IdleIsPoll == IdlePoll \in PollStates /\ IdlePoll.step = "idle"
BY DEF IdlePoll, PollStates

\* A handler goes on with what it has.
LEMMA TabGoesOn ==
    ASSUME ExtensionTypes, NEW t \in Tabs, NEW step \in TabSteps,
           tabs' = [tabs EXCEPT ![t].step = step]
    PROVE  /\ tabs' \in [Tabs -> TabStates]
           /\ \A u \in Tabs : u # t => tabs'[u] = tabs[u]
           /\ tabs'[t].step = step
           /\ tabs'[t].draft = tabs[t].draft /\ tabs'[t].token = tabs[t].token
           /\ tabs'[t].outcome = tabs[t].outcome /\ tabs'[t].image = tabs[t].image
BY DEF ExtensionTypes, TabStates

\* It keeps its token or ends, if it had one.
LEMMA TabGoesOnQuietly ==
    ASSUME ExtensionTypes, NEW t \in Tabs, NEW step \in TabSteps,
           tabs' = [tabs EXCEPT ![t].step = step],
           \/ step \notin Owning
           \/ step = "reporting" /\ tabs[t].step \in {"holding", "attempted"}
    PROVE  /\ tabs' \in [Tabs -> TabStates]
           /\ \A u \in Tabs : TabKept(u) /\ tabs'[u].draft \in {tabs[u].draft, NoDraft, session}
BY TabGoesOn DEF TabKept, Owning

\* A tab is closed.
LEMMA TabCloses ==
    ASSUME ExtensionTypes, NEW t \in Tabs, tabs' = [tabs EXCEPT ![t] = UnusedTab]
    PROVE  /\ tabs' \in [Tabs -> TabStates]
           /\ \A u \in Tabs : TabKept(u) /\ tabs'[u].draft \in {tabs[u].draft, NoDraft, session}
BY UnusedIsTab DEF ExtensionTypes, TabKept, Owning

\* The polls give no tokens.
LEMMA PollsAreQuiet ==
    ASSUME TypesInv, NEW w \in Polls,
           FetchStep(w) \/ PollStep(w) \/ PollFails(w) \/ ClaimDraftLost(w)
    PROVE  QuietStep
<1> USE IdleIsPoll, UnusedIsTab, NoDraftIsDraft
    DEF TypesInv, QuietStep, DraftsHanded, ExtensionTypes
<1>0. poll[w] \in PollStates /\ \A t \in Tabs : tabs[t] \in TabStates
  OBVIOUS
<1>1. ASSUME NEW b \in Batches, Fetch(w, b) PROVE QuietStep
  <2>1. batches[b].status = "APPROVED"
    BY <1>1 DEF Fetch, IsNewest, Servable
  <2>2. poll' = [poll EXCEPT ![w] = [step |-> "served", batch |-> b, tab |-> NoTab]]
        /\ UNCHANGED <<vars, session, tabs, clipboard, public>>
    BY <1>1 DEF Fetch
  <2> QED BY <2>1, <2>2 DEF PollStates, TabKept, Preliminary
<1>2. CASE PrepareImage(w)
  BY <1>0, <1>2 DEF PrepareImage, PollStates, TabKept, Preliminary, TypeOK, Batch, DraftsAreApproved
<1>3. ASSUME NEW t \in Tabs, StoreDraft(w, t) PROVE QuietStep
  <2>1. tabs' = [tabs EXCEPT ![t].step = "blank"]
    BY <1>3 DEF StoreDraft
  <2>2. /\ tabs' \in [Tabs -> TabStates]
        /\ \A u \in Tabs : TabKept(u) /\ tabs'[u].draft \in {tabs[u].draft, NoDraft, session}
    BY <2>1, TabGoesOnQuietly DEF TabSteps, Owning
  <2>3. /\ poll[w].batch \in Batches /\ poll[w].step # "idle"
        /\ session' = [id |-> t, batch |-> poll[w].batch,
                       preflight |-> batches[poll[w].batch].source = "preflight"]
        /\ poll' = [poll EXCEPT ![w].step = "stored", ![w].tab = t]
        /\ UNCHANGED <<vars, clipboard, public>>
    BY <1>3 DEF StoreDraft, DraftsAreApproved
  <2>4. session' \in Drafts
    BY <2>3 DEF Drafts
  <2> QED BY <1>0, <2>2, <2>3, <2>4 DEF PollStates, Preliminary
<1>4. CASE Navigate(w)
  <2>1. CASE poll[w].tab \in Tabs
    <3>1. /\ tabs' \in [Tabs -> TabStates]
          /\ \A u \in Tabs : TabKept(u) /\ tabs'[u].draft \in {tabs[u].draft, NoDraft, session}
      BY <1>4, <2>1, TabGoesOnQuietly DEF Navigate, TabSteps, Owning
    <3> QED BY <1>0, <1>4, <3>1 DEF Navigate, PollStates, Preliminary
  <2>2. CASE poll[w].tab \notin Tabs
    <3>1. tabs' = tabs
      BY <1>4, <2>2 DEF Navigate
    <3> QED BY <1>0, <1>4, <3>1 DEF Navigate, PollStates, TabKept, Preliminary
  <2> QED BY <2>1, <2>2
<1>5. CASE ClaimDraft(w)
  BY <1>0, <1>5 DEF ClaimDraft, PollStates, TabKept, Preliminary, Preparing, DraftsAreApproved
<1>6. CASE ClaimDraftLost(w)
  BY <1>0, <1>6 DEF ClaimDraftLost, PollStates, TabKept, Preliminary, Preparing, DraftsAreApproved
<1>7. CASE PollFails(w)
  BY <1>0, <1>7 DEF PollFails, PollStates, TabKept, Preliminary
<1>8. CASE CloseOwnTab(w)
  <2>1. ASSUME NEW t \in Tabs
        PROVE  /\ tabs'[t] \in TabStates /\ TabKept(t)
               /\ tabs'[t].draft \in {tabs[t].draft, NoDraft}
    <3>1. \/ tabs'[t] = tabs[t]
          \/ tabs'[t] = UnusedTab
          \/ tabs[t].step = "filling" /\ tabs'[t] = [tabs[t] EXCEPT !.step = "failing"]
          \/ tabs[t].step = "holding" /\ tabs'[t] = [tabs[t] EXCEPT !.step = "reporting"]
      BY <1>8 DEF CloseOwnTab
    <3>2. CASE tabs'[t] \in {tabs[t], UnusedTab}
      BY <1>0, <3>2 DEF TabKept, Owning
    <3>3. CASE tabs[t].step = "filling" /\ tabs'[t] = [tabs[t] EXCEPT !.step = "failing"]
      BY <1>0, <3>3 DEF TabKept, TabStates, TabSteps, Owning
    <3>4. CASE tabs[t].step = "holding" /\ tabs'[t] = [tabs[t] EXCEPT !.step = "reporting"]
      BY <1>0, <3>4 DEF TabKept, TabStates, TabSteps, Owning
    <3> QED BY <3>1, <3>2, <3>3, <3>4
  <2>2. tabs' \in [Tabs -> TabStates]
    BY <1>8, <2>1 DEF CloseOwnTab
  <2>3. /\ poll' = [poll EXCEPT ![w].step = "reporting"] /\ poll[w].step # "idle"
        /\ UNCHANGED <<vars, session, clipboard, public>>
    BY <1>8 DEF CloseOwnTab
  <2> QED BY <1>0, <2>1, <2>2, <2>3 DEF PollStates, Preliminary
<1>9. CASE PollReportsFailure(w)
  BY <1>0, <1>9 DEF PollReportsFailure, PostPreFailure, PollStates, TabKept, Preliminary,
     Preparing, DraftsAreApproved
<1> QED BY <1>1, <1>2, <1>3, <1>4, <1>5, <1>6, <1>7, <1>8, <1>9 DEF FetchStep, PollStep

\* The steps of handlers that neither ask for a token nor click nor use it.
QuietTab(t) ==
    \/ ReadDraft(t) \/ GiveUpWaiting(t) \/ StartFilling(t) \/ Fill(t)
    \/ PassPreflight(t) \/ RefuseManualDraft(t) \/ MissUrl(t)
    \/ ReportFailure(t) \/ Finish(t)
    \/ FillFails(t) \/ PublishCheckFails(t) \/ LoseBegin(t)
    \/ ClickFails(t) \/ UserOpensEditor(t)

\* They touch no token.
LEMMA TabsAreQuiet ==
    ASSUME TypesInv, NEW t \in Tabs, QuietTab(t)
    PROVE  QuietStep
<1> USE UnusedIsTab, NoDraftIsDraft
    DEF TypesInv, QuietStep, DraftsHanded, ExtensionTypes
<1>0. \A u \in Tabs : tabs[u] \in TabStates
  OBVIOUS
<1> DEFINE Kept == /\ tabs' \in [Tabs -> TabStates]
                   /\ \A u \in Tabs : TabKept(u)
                        /\ tabs'[u].draft \in {tabs[u].draft, NoDraft, session}
<1>a. ASSUME NEW step \in TabSteps, tabs' = [tabs EXCEPT ![t].step = step],
             \/ step \notin Owning
             \/ step = "reporting" /\ tabs[t].step \in {"holding", "attempted"}
      PROVE  Kept
  BY <1>a, TabGoesOnQuietly
<1>b. ASSUME tabs' = [tabs EXCEPT ![t] = UnusedTab] PROVE Kept
  BY <1>b, TabCloses
<1>1. ASSUME Kept, Preliminary, UNCHANGED <<poll, clipboard, public>>,
             session' \in {session, NoDraft}
      PROVE  QuietStep
  BY <1>1
<1> HIDE DEF Kept, QuietStep, DraftsHanded, ExtensionTypes
<1>2. CASE ReadDraft(t)
  <2>1. /\ tabs' = [tabs EXCEPT ![t].step = "prompted", ![t].draft = session]
        /\ UNCHANGED <<vars, poll, session, clipboard, public>>
    BY <1>2 DEF ReadDraft
  <2>2. Kept
    BY <1>0, <2>1 DEF Kept, ExtensionTypes, TabStates, TabSteps, TabKept, Owning
  <2> QED BY <1>1, <2>1, <2>2 DEF Preliminary
<1>3. CASE GiveUpWaiting(t)
  BY <1>1, <1>3, <1>b DEF GiveUpWaiting, Preliminary
<1>4. CASE StartFilling(t)
  <2>1. \/ tabs' = [tabs EXCEPT ![t].step = "filling"]
        \/ tabs' = [tabs EXCEPT ![t] = UnusedTab]
    BY <1>0, <1>4 DEF StartFilling
  <2>2. Kept
    BY <2>1, <1>a, <1>b DEF TabSteps, Owning
  <2> QED BY <1>1, <1>4, <2>2 DEF StartFilling, Preliminary
<1>5. CASE Fill(t)
  <2>1. /\ tabs' = [tabs EXCEPT ![t].step = "verified", ![t].image = clipboard]
        /\ UNCHANGED <<vars, poll, session, clipboard, public>>
    BY <1>5 DEF Fill
  <2>2. Kept
    BY <1>0, <2>1 DEF Kept, ExtensionTypes, TabStates, TabSteps, TabKept, Owning
  <2> QED BY <1>1, <2>1, <2>2 DEF Preliminary
<1>6. CASE PassPreflight(t)
  <2>0. tabs[t].draft.batch \in Batches \cup {NoBatch}
    BY <1>0 DEF TabStates, Drafts
  <2>1. /\ tabs' = [tabs EXCEPT ![t].step = "finishing"] \/ tabs' = [tabs EXCEPT ![t].step = "failing"]
        /\ PreflightSuccess(tabs[t].draft.batch) \/ UNCHANGED vars
        /\ UNCHANGED <<poll, session, clipboard, public>>
    BY <1>6 DEF PassPreflight
  <2>2. Kept
    BY <2>1, <1>a DEF TabSteps, Owning
  <2>9. PreflightSuccess(tabs[t].draft.batch) => tabs[t].draft.batch \in Batches
    BY <1>6, <2>0 DEF PassPreflight, DraftsAreApproved, IsDraftOf
  <2>3. Preliminary
    BY <2>0, <2>1, <2>9 DEF Preliminary, Preparing
  <2> QED BY <1>1, <2>1, <2>2, <2>3
<1>7. CASE RefuseManualDraft(t) \/ FillFails(t) \/ PublishCheckFails(t)
  <2>1. /\ tabs' = [tabs EXCEPT ![t].step = "failing"]
        /\ UNCHANGED <<vars, poll, session, clipboard, public>>
    BY <1>7 DEF RefuseManualDraft, FillFails, PublishCheckFails
  <2>2. Kept
    BY <2>1, <1>a DEF TabSteps, Owning
  <2> QED BY <1>1, <2>1, <2>2 DEF Preliminary
<1>8. CASE MissUrl(t) \/ ClickFails(t)
  <2>1. /\ tabs' = [tabs EXCEPT ![t].step = "reporting"]
        /\ tabs[t].step \in {"holding", "attempted"}
        /\ UNCHANGED <<vars, poll, session, clipboard, public>>
    BY <1>8 DEF MissUrl, ClickFails
  <2>2. Kept
    BY <2>1, <1>a DEF TabSteps, Owning
  <2> QED BY <1>1, <2>1, <2>2 DEF Preliminary
<1>9. CASE ReportFailure(t)
  <2>1. /\ tabs' = [tabs EXCEPT ![t].step = "finishing"]
        /\ \/ tabs[t].draft.batch \in Batches /\ PreFailure(tabs[t].draft.batch)
           \/ UNCHANGED vars
        /\ UNCHANGED <<poll, session, clipboard, public>>
    BY <1>9 DEF ReportFailure, PostPreFailure
  <2>2. Kept
    BY <2>1, <1>a DEF TabSteps, Owning
  <2> QED BY <1>1, <2>1, <2>2 DEF Preliminary, Preparing
<1>10. CASE Finish(t)
  BY <1>1, <1>10, <1>b DEF Finish, Preliminary
<1>11. CASE UserOpensEditor(t)
  <2>1. Kept
    BY <1>11, <1>a DEF UserOpensEditor, TabSteps, Owning
  <2> QED BY <1>1, <1>11, <2>1 DEF UserOpensEditor, Preliminary
<1>12. CASE LoseBegin(t)
  <2>1. /\ tabs' = [tabs EXCEPT ![t].step = "failing"]
        /\ BeginLost(tabs[t].draft.batch) \/ UNCHANGED vars
        /\ UNCHANGED <<poll, session, clipboard, public>>
    BY <1>12 DEF LoseBegin
  <2>2. Kept
    BY <2>1, <1>a DEF TabSteps, Owning
  <2>3. Preliminary
    BY <2>1 DEF Preliminary, BeginLost, TypeOK
  <2> QED BY <1>1, <2>1, <2>2, <2>3
<1> QED BY <1>2, <1>3, <1>4, <1>5, <1>6, <1>7, <1>8, <1>9, <1>10, <1>11, <1>12
        DEF QuietTab

\* The server ends a begin whose handler is gone.
OrphanBegins ==
    /\ \E b \in Batches, p \in Products : BeginUnlocked(b, p)
    /\ UNCHANGED extensionVars

\* The tables' own steps, a draft of the user, its end, and a crash.
LEMMA TheRestIsQuiet ==
    ASSUME TypesInv, ~OrphanBegins,
           Server \/ UserStoresDraft \/ ExpireDraft \/ Crash \/ UNCHANGED allVars
    PROVE  QuietStep
<1> USE UnusedIsTab, NoDraftIsDraft, IdleIsPoll
    DEF TypesInv, QuietStep, DraftsHanded, ExtensionTypes
<1>1. CASE Server
  <2>1. Approval \/ Queueing \/ Preparing \/ \E b \in Batches : BeginLost(b)
    BY <1>1 DEF Server, OrphanBegins, Approval, Queueing, Preparing, Decisions
  <2>2. UNCHANGED <<poll, session, tabs, clipboard, public>>
    BY <1>1 DEF Server, extensionVars
  <2> QED BY <2>1, <2>2 DEF Preliminary, TabKept
<1>2. CASE UserStoresDraft \/ ExpireDraft
  <2>1. /\ \/ session' = [id |-> ManualDraft, batch |-> NoBatch, preflight |-> FALSE]
           \/ session' = NoDraft
        /\ UNCHANGED <<vars, poll, tabs, clipboard, public>>
    BY <1>2 DEF UserStoresDraft, ExpireDraft
  <2>2. session' \in Drafts /\ session'.batch = NoBatch /\ ~session'.preflight
    <3> DEFINE manual == [id |-> ManualDraft, batch |-> NoBatch, preflight |-> FALSE]
    <3>1. manual \in Drafts /\ manual.batch = NoBatch /\ ~manual.preflight
      BY DEF Drafts
    <3> HIDE DEF manual
    <3>2. session' = manual \/ session' = NoDraft
      BY <2>1 DEF manual
    <3> QED BY <3>1, <3>2
  <2> QED BY <2>1, <2>2 DEF Preliminary, TabKept
<1>3. CASE Crash
  <2>1. \A t \in Tabs : tabs'[t] \in {UnusedTab, tabs[t]}
    BY <1>3 DEF Crash
  <2>2. /\ poll' \in [Polls -> PollStates] /\ \A w \in Polls : poll'[w].step = "idle"
        /\ tabs' \in [Tabs -> TabStates]
        /\ UNCHANGED <<vars, session, clipboard, public>>
    BY <1>3, <2>1 DEF Crash
  <2>3. \A t \in Tabs : TabKept(t) /\ tabs'[t].draft \in {tabs[t].draft, NoDraft}
    BY <2>1 DEF TabKept, Owning
  <2> QED BY <2>2, <2>3 DEF Preliminary
<1>4. CASE UNCHANGED allVars
  BY <1>4 DEF allVars, extensionVars, Preliminary, TabKept
<1> QED BY <1>1, <1>2, <1>3, <1>4

-----------------------------------------------------------------------------
(* Types, drafts, and what was granted                                     *)

\* The steps that are given a token, click, or end an attempt, with the token.
TokenStep(t) ==
    \/ RequestBegin(t) \/ FinishBegin(t) \/ ClickPublish(t)
    \/ SeeDialogClosed(t) \/ MissDialogClosing(t)
    \/ ReportPublished(t) \/ ReportOutcome(t)

\* Every step is quiet, uses a token, or draws one that nobody gets.
LEMMA StepsAreQuiet ==
    ASSUME TypesInv, [ExtensionNext]_allVars
    PROVE  QuietStep \/ OrphanBegins \/ \E t \in Tabs : TokenStep(t)
BY PollsAreQuiet, TabsAreQuiet, TheRestIsQuiet
   DEF ExtensionNext, TabStep, Mishap, QuietTab, TokenStep

\* Approvals, as far as drafts depend on them.
SourcesKept ==
    \A b \in Batches : batches[b].status = "APPROVED" =>
        batches'[b].status = "APPROVED" /\ batches'[b].source = batches[b].source

\* Drafts remain drafts of approvals.
LEMMA DraftsStayApproved ==
    ASSUME TypesInv, SourcesKept, DraftsHanded
    PROVE  DraftsAreApproved'
<1> USE NoDraftIsDraft, BatchesAssumption DEF TypesInv, DraftsAreApproved
<1>1. \A draft : IsDraftOf(draft, batches) => IsDraftOf(draft, batches')
  BY DEF IsDraftOf, SourcesKept
<1>2. IsDraftOf(NoDraft, batches')
  BY DEF IsDraftOf
<1>3. \A t \in Tabs : IsDraftOf(tabs'[t].draft, batches')
  BY <1>1, <1>2 DEF DraftsHanded
<1>4. IsDraftOf(session', batches')
  <2>1. CASE session' = session
    BY <1>1, <2>1
  <2>2. CASE session'.batch = NoBatch /\ ~session'.preflight
    BY <2>2 DEF IsDraftOf
  <2>3. ASSUME NEW w \in Polls, poll[w].step # "idle", session'.batch = poll[w].batch,
               session'.preflight = (batches[poll[w].batch].source = "preflight")
        PROVE  IsDraftOf(session', batches')
    BY <2>3 DEF IsDraftOf, SourcesKept
  <2> QED BY <2>1, <2>2, <2>3 DEF DraftsHanded
<1>5. \A w \in Polls : poll'[w].step # "idle" =>
        poll'[w].batch \in Batches /\ batches'[poll'[w].batch].status = "APPROVED"
  BY DEF DraftsHanded, SourcesKept
<1> QED BY <1>3, <1>4, <1>5

\* Quiet steps keep all that was granted.
LEMMA QuietKeepsGrants == ASSUME GrantInv, QuietStep PROVE GrantInv'
<1> USE DEF GrantInv, TypesInv
<1>1. ApprovedKept
  BY PreliminaryKeepsApprovals DEF QuietStep
<1>2. LockInv' /\ TypeOK'
  BY PreliminaryIsNext, LockInvStep DEF QuietStep, LockInv
<1>3. DraftsAreApproved'
  BY <1>1, DraftsStayApproved DEF ApprovedKept, SourcesKept, QuietStep
<1>4. OwnersWereGranted'
  <2> SUFFICES ASSUME NEW t \in Tabs, Owner(t)'
               PROVE  /\ tabs'[t].draft.batch \in Batches /\ ~tabs'[t].draft.preflight
                      /\ tabs'[t].token \in 1..batches'[tabs'[t].draft.batch].attempt
    BY DEF OwnersWereGranted
  <2>1. /\ Owner(t) /\ tabs'[t].draft = tabs[t].draft /\ tabs'[t].token = tabs[t].token
    BY DEF QuietStep, TabKept, Owner
  <2>2. batches[tabs[t].draft.batch].status = "APPROVED"
    BY <2>1 DEF OwnersWereGranted, DraftsAreApproved, IsDraftOf
  <2> QED BY <1>1, <2>1, <2>2 DEF OwnersWereGranted, ApprovedKept
<1>5. PostsWereApproved'
  BY <1>1 DEF PostsWereApproved, ApprovedKept, QuietStep, ExtensionTypes
<1>6. BeginsAreGranted'
  BY <1>1, PreliminaryKeepsBegins DEF BeginsAreGranted, ApprovedKept, QuietStep
<1> QED BY <1>2, <1>3, <1>4, <1>5, <1>6 DEF QuietStep

\* What the steps with a token do to the tables, and to their own tab.
Begun(t) ==
    /\ tabs[t].step \in {"verified", "beginning"} /\ ~tabs[t].draft.preflight
    /\ \/ tabs'[t].step = "failing"
       \/ tabs'[t].step = "holding" /\ tabs'[t].token = batches'[tabs[t].draft.batch].attempt
    /\ Draws(tabs[t].draft.batch) /\ LockInv'
    /\ public' = public

Reported(t, outcome) ==
    /\ tabs[t].step \in {"attempted", "reporting"}
    /\ tabs'[t].step \in {"reporting", "failing", "finishing"}
    /\ tabs'[t].outcome = tabs[t].outcome
    /\ tabs[t].step = "reporting" => tabs'[t].step # "reporting"
    /\ tabs'[t].token = tabs[t].token
    /\ outcome \in Outcomes
    /\ tabs[t].step = "attempted" => outcome = "PUBLISHED"
    /\ tabs[t].step = "reporting" => outcome = tabs[t].outcome
    /\ Result(tabs[t].draft.batch, ProductOf(tabs[t].draft.batch), tabs[t].token, outcome)
    /\ public' = public

Clicked(t) ==
    /\ tabs[t].step = "holding" /\ tabs'[t].step = "clicked"
    /\ tabs'[t].token = tabs[t].token
    /\ UNCHANGED vars
    /\ \/ public' = public
       \/ public' = public \cup {[tab |-> t, batch |-> tabs[t].draft.batch,
                                  image |-> tabs[t].image]}

Watched(t) ==
    /\ tabs[t].step = "clicked"
    /\ tabs'[t].token = tabs[t].token
    /\ \/ tabs'[t].step = "attempted" /\ tabs'[t].outcome = "PUBLISH_UNKNOWN"
       \/ tabs'[t].step = "reporting" /\ (Accepted(t) => HiddenClicks)
    /\ UNCHANGED <<vars, public>>

\* Exactly those, and the other tabs are left alone.
LEMMA TokenSteps ==
    ASSUME GrantInv, NEW t \in Tabs, TokenStep(t)
    PROVE  \/ QuietStep
           \/ /\ ExtensionTypes' /\ DraftsHanded
              /\ \A u \in Tabs : u # t => tabs'[u] = tabs[u]
              /\ tabs'[t].draft = tabs[t].draft
              /\ \/ Begun(t) \/ Clicked(t) \/ Watched(t)
                 \/ \E outcome \in Outcomes : Reported(t, outcome)
<1> USE DEF GrantInv, TypesInv
<1>0. /\ \A u \in Tabs : tabs[u] \in TabStates
      /\ tabs \in [Tabs -> TabStates]
  BY DEF ExtensionTypes
<1> DEFINE Mine == /\ tabs' \in [Tabs -> TabStates]
                   /\ \A u \in Tabs : u # t => tabs'[u] = tabs[u]
                   /\ tabs'[t].draft = tabs[t].draft
<1>a. ASSUME NEW step \in TabSteps, tabs' = [tabs EXCEPT ![t].step = step]
      PROVE  /\ Mine /\ tabs'[t].step = step /\ tabs'[t].token = tabs[t].token
             /\ tabs'[t].outcome = tabs[t].outcome
  BY <1>a, TabGoesOn
<1>b. ASSUME Mine, UNCHANGED <<poll, session, clipboard>>,
             public' \subseteq [tab : Tabs, batch : Batches, image : SUBSET Products]
      PROVE  /\ ExtensionTypes' /\ DraftsHanded
             /\ \A u \in Tabs : u # t => tabs'[u] = tabs[u]
             /\ tabs'[t].draft = tabs[t].draft
  BY <1>b DEF ExtensionTypes, DraftsHanded
<1>c. ASSUME NEW step \in TabSteps, tabs' = [tabs EXCEPT ![t].step = step],
             \/ step \notin Owning
             \/ step = "reporting" /\ tabs[t].step \in {"holding", "attempted"},
             UNCHANGED <<vars, poll, session, clipboard, public>>
      PROVE  QuietStep
  BY <1>c, TabGoesOnQuietly DEF QuietStep, DraftsHanded, ExtensionTypes, Preliminary
<1>d. ASSUME NEW token \in 0..MaxAttempts,
             tabs' = [tabs EXCEPT ![t].step = "holding", ![t].token = token]
      PROVE  Mine /\ tabs'[t].step = "holding" /\ tabs'[t].token = token
  <2>1. /\ tabs' = [tabs EXCEPT ![t] = [tabs[t] EXCEPT !.step = "holding", !.token = token]]
        /\ tabs[t] \in TabStates
    BY <1>0, <1>d
  <2>2. [tabs[t] EXCEPT !.step = "holding", !.token = token] \in TabStates
    BY <2>1 DEF TabStates, TabSteps, Owning
  <2> QED BY <1>0, <2>1, <2>2 DEF TabStates
<1>e. ASSUME tabs[t].draft.batch \in Batches, ~tabs[t].draft.preflight,
             tabs[t].step \in {"verified", "beginning"},
             NEW p, Begin(tabs[t].draft.batch, p) \/ BeginUnlocked(tabs[t].draft.batch, p),
             AnswerBegin(t), public' = public
      PROVE  Mine /\ Begun(t)
  <2> DEFINE b == tabs[t].draft.batch
  <2>1. Draws(b) /\ LockInv'
    BY <1>e, BeginDraws
  <2>2. CASE tabs' = [tabs EXCEPT ![t].step = "failing"]
    BY <1>a, <1>e, <2>1, <2>2 DEF Begun, TabSteps
  <2>3. CASE tabs' = [tabs EXCEPT ![t].step = "holding", ![t].token = batches'[b].attempt]
    <3>1. batches'[b].attempt \in 0..MaxAttempts
      BY <2>1 DEF Draws, LockInv, TypeOK, Batch
    <3>2. Mine /\ tabs'[t].step = "holding" /\ tabs'[t].token = batches'[b].attempt
      BY <1>d, <2>3, <3>1
    <3> QED BY <1>e, <2>1, <3>2 DEF Begun
  <2> QED BY <1>e, <2>2, <2>3 DEF AnswerBegin
<1>1. CASE RequestBegin(t)
  <2> DEFINE b == tabs[t].draft.batch
  <2>1. /\ b \in Batches /\ tabs[t].step = "verified" /\ ~tabs[t].draft.preflight
        /\ UNCHANGED <<poll, session, clipboard, public>>
    BY <1>1 DEF RequestBegin, MayPublish
  <2>2. CASE UNCHANGED vars /\ tabs' = [tabs EXCEPT ![t].step = "failing"]
    BY <1>c, <2>1, <2>2 DEF TabSteps, Owning
  <2>3. CASE Begin(b, ProductOf(b)) /\ AnswerBegin(t)
    <3>1. Mine /\ Begun(t)
      BY <1>e, <2>1, <2>3
    <3> QED BY <1>b, <2>1, <3>1 DEF ExtensionTypes
  <2>4. CASE FindNoPost(b, ProductOf(b)) /\ tabs' = [tabs EXCEPT ![t].step = "beginning"]
    <3>1. /\ tabs' \in [Tabs -> TabStates]
          /\ \A u \in Tabs : TabKept(u) /\ tabs'[u].draft \in {tabs[u].draft, NoDraft, session}
      BY <2>4, TabGoesOnQuietly DEF TabSteps, Owning
    <3>2. Preliminary
      <4>1. batches[b] \in Batch /\ ProductOf(b) \in batches[b].summary
        BY <2>1, <2>4 DEF TypeOK, FindNoPost, MayBegin
      <4>2. ProductOf(b) \in Products
        BY <4>1 DEF Batch
      <4>3. batches[b].source # "preflight"
        BY <2>1 DEF DraftsAreApproved, IsDraftOf
      <4> QED BY <2>1, <2>4, <4>2, <4>3 DEF Preliminary, FindsNoPost
    <3> QED BY <2>1, <3>1, <3>2 DEF QuietStep, DraftsHanded, ExtensionTypes
  <2> QED BY <1>1, <2>2, <2>3, <2>4 DEF RequestBegin
<1>7. CASE FinishBegin(t)
  <2> DEFINE b == tabs[t].draft.batch
  <2>1. /\ tabs[t].step = "beginning" /\ BeginUnlocked(b, ProductOf(b)) /\ AnswerBegin(t)
        /\ UNCHANGED <<poll, session, clipboard, public>>
    BY <1>7 DEF FinishBegin
  <2>2. b \in Batches /\ batches[b].source # "preflight"
    BY <2>1 DEF BeginUnlocked, BeginsAreGranted
  <2>3. ~tabs[t].draft.preflight
    BY <2>2 DEF DraftsAreApproved, IsDraftOf
  <2>4. Mine /\ Begun(t)
    BY <1>e, <2>1, <2>2, <2>3
  <2> QED BY <1>b, <2>1, <2>4 DEF ExtensionTypes
<1>2. CASE ClickPublish(t)
  <2>1. Mine /\ tabs'[t].step = "clicked" /\ tabs'[t].token = tabs[t].token
    <3> DEFINE known == {u \in Tabs : tabs[u].step # "unused"}
    <3>0. known \subseteq Tabs
      OBVIOUS
    <3>1. tabs' = [tabs EXCEPT ![t].step = "clicked", ![t].known = known]
      BY <1>2 DEF ClickPublish
    <3> HIDE DEF known
    <3>2. /\ tabs' = [tabs EXCEPT ![t] = [tabs[t] EXCEPT !.step = "clicked", !.known = known]]
          /\ tabs[t] \in TabStates
      BY <1>0, <3>1
    <3>3. [tabs[t] EXCEPT !.step = "clicked", !.known = known] \in TabStates
      BY <3>0, <3>2 DEF TabStates, TabSteps, Owning
    <3> QED BY <1>0, <3>2, <3>3 DEF TabStates
  <2>2. Clicked(t)
    BY <1>2, <2>1 DEF ClickPublish, Clicked
  <2>3. /\ tabs[t].draft.batch \in Batches /\ tabs[t].image \subseteq Products
        /\ public \subseteq [tab : Tabs, batch : Batches, image : SUBSET Products]
    BY <1>0, <1>2 DEF ClickPublish, OwnersWereGranted, Owner, Owning, TabStates, ExtensionTypes
  <2>4. /\ UNCHANGED <<poll, session, clipboard>>
        /\ public' \subseteq [tab : Tabs, batch : Batches, image : SUBSET Products]
    BY <1>2, <2>2, <2>3 DEF ClickPublish, Clicked
  <2> QED BY <1>b, <2>1, <2>2, <2>4
<1>3. CASE SeeDialogClosed(t)
  <2>1. /\ tabs' = [tabs EXCEPT ![t] = [tabs[t] EXCEPT !.step = "attempted",
                                                       !.outcome = "PUBLISH_UNKNOWN"]]
        /\ tabs[t] \in TabStates
    BY <1>0, <1>3 DEF SeeDialogClosed
  <2>2. [tabs[t] EXCEPT !.step = "attempted", !.outcome = "PUBLISH_UNKNOWN"] \in TabStates
    BY <2>1 DEF TabStates, TabSteps, Owning
  <2>3. /\ Mine /\ tabs'[t].step = "attempted" /\ tabs'[t].outcome = "PUBLISH_UNKNOWN"
        /\ tabs'[t].token = tabs[t].token
    BY <1>0, <2>1, <2>2 DEF TabStates
  <2>4. Watched(t)
    BY <1>3, <2>3 DEF SeeDialogClosed, Watched
  <2> QED BY <1>3, <1>b, <2>3, <2>4 DEF SeeDialogClosed, ExtensionTypes
<1>4. CASE MissDialogClosing(t)
  <2>1. Mine /\ Watched(t)
    BY <1>4, <1>a DEF MissDialogClosing, Watched, TabSteps, Owning
  <2> QED BY <1>4, <1>b, <2>1 DEF MissDialogClosing, ExtensionTypes
<1>5. CASE ReportPublished(t)
  <2> DEFINE b == tabs[t].draft.batch
  <2>1. PICK step \in {"finishing", "reporting"} : tabs' = [tabs EXCEPT ![t].step = step]
    BY <1>5 DEF ReportPublished
  <2>2. CASE UNCHANGED vars
    BY <1>5, <1>c, <2>1, <2>2 DEF ReportPublished, TabSteps, Owning
  <2>3. CASE Result(b, ProductOf(b), tabs[t].token, "PUBLISHED")
    <3>1. Mine /\ Reported(t, "PUBLISHED")
      BY <1>5, <1>a, <2>1, <2>3 DEF ReportPublished, Reported, TabSteps, Owning, Outcomes
    <3> QED BY <1>5, <1>b, <3>1 DEF ReportPublished, ExtensionTypes, Outcomes
  <2> QED BY <1>5, <2>2, <2>3 DEF ReportPublished
<1>6. CASE ReportOutcome(t)
  <2> DEFINE b == tabs[t].draft.batch
  <2>0. tabs[t].outcome \in Outcomes
    BY <1>0 DEF TabStates, Outcomes
  <2>1. PICK step \in {"finishing", "failing"} : tabs' = [tabs EXCEPT ![t].step = step]
    BY <1>6 DEF ReportOutcome
  <2>2. CASE UNCHANGED vars
    BY <1>6, <1>c, <2>1, <2>2 DEF ReportOutcome, TabSteps, Owning
  <2>3. CASE Result(b, ProductOf(b), tabs[t].token, tabs[t].outcome)
    <3>1. Mine /\ Reported(t, tabs[t].outcome)
      BY <1>6, <1>a, <2>0, <2>1, <2>3 DEF ReportOutcome, Reported, TabSteps
    <3> QED BY <1>6, <1>b, <2>0, <3>1 DEF ReportOutcome, ExtensionTypes
  <2> QED BY <1>6, <2>2, <2>3 DEF ReportOutcome
<1> QED BY <1>1, <1>2, <1>3, <1>4, <1>5, <1>6, <1>7 DEF TokenStep

\* Steps with a token keep all that was granted.
LEMMA TokensKeepGrants ==
    ASSUME GrantInv, ExtensionTypes', DraftsHanded, NEW t \in Tabs,
           \A u \in Tabs : u # t => tabs'[u] = tabs[u],
           tabs'[t].draft = tabs[t].draft,
           \/ Begun(t) \/ Clicked(t) \/ Watched(t)
           \/ \E outcome \in Outcomes : Reported(t, outcome)
    PROVE  GrantInv'
<1> USE DEF GrantInv, TypesInv
<1> DEFINE b == tabs[t].draft.batch
<1>0. b \in Batches /\ batches[b].status = "APPROVED"
      /\ (tabs[t].draft.preflight <=> batches[b].source = "preflight")
  BY DEF Begun, Draws, Clicked, Watched, Reported, OwnersWereGranted, Owner, Owning,
     DraftsAreApproved, IsDraftOf
<1>a. ASSUME LockInv', SourcesKept, begins' \subseteq begins,
             \A u \in Tabs : Owner(u) =>
                batches[tabs[u].draft.batch].attempt \in Nat
                /\ batches'[tabs[u].draft.batch].attempt \in Nat
                /\ batches'[tabs[u].draft.batch].attempt >= batches[tabs[u].draft.batch].attempt,
             Owner(t)' => /\ ~tabs[t].draft.preflight
                          /\ tabs'[t].token \in 1..batches'[b].attempt,
             \A post \in public' : post \in public \/ (post.batch = b /\ ~tabs[t].draft.preflight)
      PROVE  GrantInv'
  <2>1. DraftsAreApproved'
    BY <1>a, DraftsStayApproved
  <2>2. OwnersWereGranted'
    <3> SUFFICES ASSUME NEW u \in Tabs, Owner(u)'
                 PROVE  /\ tabs'[u].draft.batch \in Batches /\ ~tabs'[u].draft.preflight
                        /\ tabs'[u].token \in 1..batches'[tabs'[u].draft.batch].attempt
      BY DEF OwnersWereGranted
    <3>1. CASE u = t
      BY <1>0, <1>a, <3>1
    <3>2. CASE u # t
      <4>1. tabs'[u] = tabs[u] /\ Owner(u)
        BY <3>2 DEF Owner
      <4> QED BY <1>a, <4>1 DEF OwnersWereGranted
    <3> QED BY <3>1, <3>2
  <2>3. PostsWereApproved'
    BY <1>0, <1>a DEF PostsWereApproved, SourcesKept, ExtensionTypes
  <2>4. BeginsAreGranted'
    BY <1>a DEF BeginsAreGranted, SourcesKept
  <2> QED BY <1>a, <2>1, <2>2, <2>3, <2>4 DEF LockInv
<1>b. \A c \in Batches : batches[c].attempt \in Nat /\ batches[c].attempt <= MaxAttempts
  BY BoundsAssumption DEF TypeOK, Batch
<1>1. CASE Begun(t)
  <2>2. /\ LockInv' /\ batches'[b].status = "APPROVED"
        /\ batches'[b].source = batches[b].source
        /\ batches'[b].attempt = batches[b].attempt + 1
        /\ \A c \in Batches : c # b => batches'[c] = batches[c]
        /\ begins' \subseteq begins
    BY <1>1 DEF Begun, Draws
  <2>3. SourcesKept
    BY <2>2 DEF SourcesKept
  <2>4. \A u \in Tabs : Owner(u) =>
            /\ batches[tabs[u].draft.batch].attempt \in Nat
            /\ batches'[tabs[u].draft.batch].attempt \in Nat
            /\ batches'[tabs[u].draft.batch].attempt >= batches[tabs[u].draft.batch].attempt
    <3> SUFFICES ASSUME NEW u \in Tabs, Owner(u), NEW c \in Batches, c = tabs[u].draft.batch
                 PROVE  /\ batches[c].attempt \in Nat /\ batches'[c].attempt \in Nat
                        /\ batches'[c].attempt >= batches[c].attempt
      BY DEF OwnersWereGranted
    <3>1. CASE c = b
      BY <1>b, <2>2, <3>1
    <3>2. CASE c # b
      BY <1>b, <2>2, <3>2
    <3> QED BY <3>1, <3>2
  <2>5. Owner(t)' => /\ ~tabs[t].draft.preflight
                     /\ tabs'[t].token \in 1..batches'[b].attempt
    BY <1>1, <1>0, <1>b, <2>2 DEF Begun, Owner, Owning
  <2>6. \A post \in public' : post \in public
    BY <1>1 DEF Begun
  <2>7. LockInv' /\ begins' \subseteq begins
    BY <2>2
  <2>8. \A post \in public' : post \in public \/ (post.batch = b /\ ~tabs[t].draft.preflight)
    BY <2>6
  <2> QED BY <1>a, <2>3, <2>4, <2>5, <2>8, <2>7, Zenon
<1>2. CASE Clicked(t) \/ Watched(t)
  <2>1. /\ UNCHANGED vars /\ Owner(t) /\ tabs'[t].token = tabs[t].token
        /\ \A post \in public' : post \in public \/ post.batch = b
    BY <1>2 DEF Clicked, Watched, Owner, Owning
  <2>2. LockInv' /\ SourcesKept /\ batches' = batches /\ begins' = begins
    BY <2>1, LockInvStep DEF vars, SourcesKept
  <2> QED BY <1>a, <1>b, <2>1, <2>2 DEF OwnersWereGranted
<1>3. ASSUME NEW outcome \in Outcomes, Reported(t, outcome) PROVE GrantInv'
  <2>1. /\ Owner(t) /\ tabs'[t].token = tabs[t].token /\ public' = public
        /\ Result(b, ProductOf(b), tabs[t].token, outcome)
    BY <1>3 DEF Reported, Owner, Owning
  <2>2. tabs[t].token \in 1..MaxAttempts
    BY <1>0, <1>b, <2>1, BoundsAssumption DEF OwnersWereGranted
  <2>3. /\ LockInv' /\ batches'[b].status = batches[b].status
        /\ batches'[b].source = batches[b].source
        /\ batches'[b].attempt = batches[b].attempt
        /\ \A c \in Batches : c # b => batches'[c] = batches[c]
        /\ begins' = begins
    BY <1>0, <2>1, <2>2, ResultEnds
  <2>4. SourcesKept /\ \A c \in Batches : batches'[c].attempt = batches[c].attempt
    BY <2>3 DEF SourcesKept
  <2> QED BY <1>a, <1>b, <2>1, <2>3, <2>4 DEF OwnersWereGranted
<1> QED BY <1>1, <1>2, <1>3

\* A begin that ends without its handler gives the token to nobody.
LEMMA OrphansKeepGrants ==
    ASSUME GrantInv, OrphanBegins
    PROVE  GrantInv' /\ \E b \in Batches : Draws(b)
<1> USE DEF GrantInv, TypesInv
<1>1. PICK b \in Batches, p \in Products : BeginUnlocked(b, p)
  BY DEF OrphanBegins
<1>2. Draws(b) /\ LockInv'
  BY <1>1, BeginDraws
<1>3. UNCHANGED extensionVars
  BY DEF OrphanBegins
<1>4. SourcesKept
  BY <1>2 DEF Draws, SourcesKept
<1>5. ExtensionTypes' /\ DraftsHanded
  BY <1>3 DEF extensionVars, ExtensionTypes, DraftsHanded, DraftsAreApproved
<1>6. DraftsAreApproved'
  BY <1>4, <1>5, DraftsStayApproved
<1>7. BeginsAreGranted' /\ PostsWereApproved'
  BY <1>2, <1>3, <1>4 DEF Draws, SourcesKept, BeginsAreGranted, PostsWereApproved,
     extensionVars, ExtensionTypes
<1>8. OwnersWereGranted'
  <2> SUFFICES ASSUME NEW t \in Tabs, Owner(t), NEW c \in Batches,
                      c = tabs[t].draft.batch, tabs[t].token \in 1..batches[c].attempt
               PROVE  tabs[t].token \in 1..batches'[c].attempt
    BY <1>3 DEF extensionVars, OwnersWereGranted, Owner
  <2> QED BY <1>2 DEF Draws
<1> QED BY <1>2, <1>5, <1>6, <1>7, <1>8 DEF LockInv

\* Hence no step breaks a grant.
LEMMA GrantsStay == ASSUME GrantInv, [ExtensionNext]_allVars PROVE GrantInv'
BY StepsAreQuiet, TokenSteps, QuietKeepsGrants, TokensKeepGrants, OrphansKeepGrants
   DEF GrantInv

\* At first there is nothing.
LEMMA GrantsInit == ExtensionInit => GrantInv
<1> SUFFICES ASSUME ExtensionInit PROVE GrantInv
  OBVIOUS
<1> USE UnusedIsTab, IdleIsPoll, NoDraftIsDraft, LockInvInit, BatchesAssumption
    DEF ExtensionInit
<1>1. ExtensionTypes
  BY DEF ExtensionTypes
<1>2. DraftsAreApproved
  BY DEF DraftsAreApproved, IsDraftOf
<1>3. OwnersWereGranted /\ PostsWereApproved /\ BeginsAreGranted
  BY DEF OwnersWereGranted, PostsWereApproved, BeginsAreGranted, Init, Owner, Owning
<1> QED BY <1>1, <1>2, <1>3 DEF GrantInv, TypesInv, LockInv

\* An approved preflight never publishes, whichever tab fills its draft.
THEOREM PreflightsAreNotPublic == ExtensionSpec => []PreflightIsNotPublic
<1>1. GrantInv => PreflightIsNotPublic
  BY DEF GrantInv, PostsWereApproved, PreflightIsNotPublic
<1> QED BY <1>1, GrantsInit, GrantsStay, PTL DEF ExtensionSpec

-----------------------------------------------------------------------------
(* One public post                                                         *)

\* Where nobody has a token, or anything is public, nothing is to be known.
LEMMA AttemptsInit == ExtensionInit => AttemptInv
<1> SUFFICES ASSUME ExtensionInit PROVE AttemptInv
  OBVIOUS
<1>1. \A t \in Tabs : ~Owner(t)
  BY UnusedIsTab DEF ExtensionInit, Owner, Owning
<1> QED BY <1>1 DEF ExtensionInit, AttemptInv, TokensAreUnique, OwnersAreCurrent,
        OwnersKnow, OwnerKnows, PostsAreLive, Owner, Owning

\* The batch of an owner, and of a public post, is approved.
LEMMA OwnersAreApproved ==
    ASSUME GrantInv
    PROVE  /\ \A t \in Tabs : Owner(t) =>
                /\ tabs[t].draft.batch \in Batches
                /\ batches[tabs[t].draft.batch].status = "APPROVED"
                /\ batches[tabs[t].draft.batch].attempt \in Nat
                /\ tabs[t].token \in Nat
                /\ tabs[t].token <= batches[tabs[t].draft.batch].attempt
           /\ \A post \in public :
                post.batch \in Batches /\ batches[post.batch].status = "APPROVED"
<1>1. \A b \in Batches : batches[b].attempt \in Nat
  BY BoundsAssumption DEF GrantInv, TypesInv, TypeOK, Batch
<1> QED BY <1>1 DEF GrantInv, TypesInv, OwnersWereGranted, DraftsAreApproved, IsDraftOf,
        PostsWereApproved, ExtensionTypes

\* Quiet steps leave owners, their batches and what is public alone.
LEMMA QuietKeepsAttempts ==
    ASSUME GrantInv, AttemptInv, QuietStep
    PROVE  AttemptInv'
<1> USE DEF AttemptInv
<1>0. ApprovedKept
  BY PreliminaryKeepsApprovals DEF QuietStep, GrantInv, TypesInv
<1>1. ASSUME NEW t \in Tabs, Owner(t)'
      PROVE  /\ Owner(t)
             /\ tabs'[t].draft = tabs[t].draft /\ tabs'[t].token = tabs[t].token
             /\ tabs'[t].outcome = tabs[t].outcome
             /\ \/ tabs'[t].step = tabs[t].step
                \/ tabs[t].step \in {"holding", "attempted"} /\ tabs'[t].step = "reporting"
             /\ PostsOf(tabs[t].draft.batch)' = PostsOf(tabs[t].draft.batch)
             /\ Current(t)' <=> Current(t)
  <2>1. /\ Owner(t)
        /\ tabs'[t].draft = tabs[t].draft /\ tabs'[t].token = tabs[t].token
        /\ tabs'[t].outcome = tabs[t].outcome
        /\ \/ tabs'[t].step = tabs[t].step
           \/ tabs[t].step \in {"holding", "attempted"} /\ tabs'[t].step = "reporting"
    BY <1>1 DEF QuietStep, TabKept, Owner
  <2>2. PICK b \in Batches : b = tabs[t].draft.batch /\ batches[b].status = "APPROVED"
    BY <2>1, OwnersAreApproved
  <2>3. /\ batches'[b].attempt = batches[b].attempt
        /\ batches'[b].publish = "PUBLISHING" <=> batches[b].publish = "PUBLISHING"
    BY <1>0, <2>2 DEF ApprovedKept, InFlight
  <2>4. Current(t)' <=> Current(t)
    BY <2>1, <2>2, <2>3 DEF Current, Awaits
  <2>5. PostsOf(b)' = PostsOf(b)
    BY DEF QuietStep, PostsOf
  <2> QED BY <2>1, <2>2, <2>4, <2>5 DEF PostsOf
<1>2. TokensAreUnique'
  BY <1>1 DEF TokensAreUnique
<1>3. OwnersAreCurrent'
  BY <1>1 DEF OwnersAreCurrent
<1>4. OwnersKnow'
  <2> SUFFICES ASSUME NEW t \in Tabs PROVE OwnerKnows(t)'
    BY DEF OwnersKnow
  <2>1. CASE Owner(t)'
    BY <1>1, <2>1 DEF OwnersKnow, OwnerKnows
  <2>2. CASE ~Owner(t)'
    BY <2>2 DEF OwnerKnows, Owner, Owning
  <2> QED BY <2>1, <2>2
<1>5. PostsAreLive'
  <2>1. \A post \in public : Live(post.batch)'
    BY <1>0, OwnersAreApproved DEF ApprovedKept, PostsAreLive, Live
  <2> QED BY <2>1 DEF PostsAreLive, QuietStep
<1> QED BY <1>2, <1>3, <1>4, <1>5

\* A step with the token of tab t leaves what another owner u knows.
LEMMA OthersKeepAttempts ==
    ASSUME GrantInv, AttemptInv, NEW t \in Tabs, NEW u \in Tabs, u # t,
           tabs'[u] = tabs[u], Owner(u),
           NEW b \in Batches, b = tabs[t].draft.batch,
           \A c \in Batches : c # b => batches'[c] = batches[c],
           \A post \in public' : post \in public \/ post.batch = b,
           public \subseteq public',
           tabs[u].draft.batch = b => tabs[u].step = "reporting" /\ ~Current(u)'
    PROVE  Owner(u)' /\ (tabs[u].step # "reporting" => Current(u)') /\ OwnerKnows(u)'
<1> USE DEF AttemptInv
<1>1. PICK c \in Batches : c = tabs[u].draft.batch
  BY OwnersAreApproved
<1>2. CASE c # b
  <2>1. batches'[c] = batches[c]
    BY <1>2
  <2>2. Current(u)' <=> Current(u)
    BY <1>1, <2>1 DEF Current, Awaits
  <2>3. PostsOf(tabs[u].draft.batch)' = PostsOf(tabs[u].draft.batch)
    BY <1>1, <1>2 DEF PostsOf
  <2> QED BY <2>2, <2>3 DEF Owner, OwnersAreCurrent, OwnersKnow, OwnerKnows
<1>3. CASE c = b
  BY <1>1, <1>3 DEF Owner, OwnerKnows
<1> QED BY <1>2, <1>3

\* What is to be shown of a step with the token of tab t for its own tab.
LEMMA AttemptsFromOwn ==
    ASSUME GrantInv, AttemptInv, NEW t \in Tabs,
           \A u \in Tabs : u # t => tabs'[u] = tabs[u],
           \A u \in Tabs : u # t /\ Owner(u) =>
                /\ tabs[u].step # "reporting" => Current(u)'
                /\ OwnerKnows(u)',
           Owner(t)' =>
                /\ tabs'[t].step # "reporting" => Current(t)'
                /\ \A u \in Tabs : Owner(u) /\ u # t =>
                    \/ tabs[u].draft.batch # tabs'[t].draft.batch
                    \/ tabs[u].token # tabs'[t].token,
           OwnerKnows(t)', PostsAreLive'
    PROVE  AttemptInv'
<1>1. \A u \in Tabs : u # t => (Owner(u)' <=> Owner(u))
  BY DEF Owner
<1>2. TokensAreUnique'
  <2> SUFFICES ASSUME NEW u \in Tabs, NEW v \in Tabs, Owner(u)', Owner(v)', u # v
               PROVE  \/ tabs'[u].draft.batch # tabs'[v].draft.batch
                      \/ tabs'[u].token # tabs'[v].token
    BY DEF TokensAreUnique
  <2>1. CASE u # t /\ v # t
    BY <1>1, <2>1 DEF AttemptInv, TokensAreUnique
  <2>2. CASE u = t
    BY <1>1, <2>2
  <2>3. CASE v = t
    BY <1>1, <2>3
  <2> QED BY <2>1, <2>2, <2>3
<1>3. OwnersAreCurrent'
  BY <1>1 DEF OwnersAreCurrent
<1>4. OwnersKnow'
  <2> SUFFICES ASSUME NEW u \in Tabs PROVE OwnerKnows(u)'
    BY DEF OwnersKnow
  <2>1. CASE u # t /\ ~Owner(u)
    BY <2>1 DEF OwnerKnows, Owner, Owning
  <2> QED BY <2>1
<1> QED BY <1>2, <1>3, <1>4 DEF AttemptInv

\* Another owner of the batch of a current token t waits in vain.
LEMMA OneIsCurrent ==
    ASSUME GrantInv, AttemptInv, NEW t \in Tabs, Owner(t), Current(t),
           NEW u \in Tabs, u # t, Owner(u), tabs[u].draft.batch = tabs[t].draft.batch
    PROVE  tabs[u].step = "reporting" /\ tabs[u].token # tabs[t].token /\ ~Current(u)
<1>1. tabs[u].token # tabs[t].token
  BY DEF AttemptInv, TokensAreUnique
<1>2. ~Current(u)
  BY <1>1 DEF Current, Awaits
<1> QED BY <1>1, <1>2 DEF AttemptInv, OwnersAreCurrent

\* A begin draws a token that no tab has, for a batch with nothing public.
LEMMA DrawnIsNew ==
    ASSUME GrantInv, AttemptInv, NEW b \in Batches, Draws(b)
    PROVE  /\ PostsOf(b) = {}
           /\ \A u \in Tabs : Owner(u) /\ tabs[u].draft.batch = b =>
                /\ tabs[u].step = "reporting"
                /\ tabs[u].token # batches'[b].attempt
           /\ public' = public => PostsAreLive'
<1>1. PostsOf(b) = {}
  BY DEF Draws, AttemptInv, PostsAreLive, PostsOf, Live
<1>2. ASSUME NEW u \in Tabs, Owner(u), tabs[u].draft.batch = b
      PROVE  tabs[u].step = "reporting" /\ tabs[u].token # batches'[b].attempt
  <2>1. tabs[u].token \in Nat /\ tabs[u].token <= batches[b].attempt
    BY <1>2, OwnersAreApproved
  <2>2. tabs[u].token # batches'[b].attempt
    BY <2>1 DEF Draws
  <2>3. ~Current(u)
    BY <1>2 DEF Draws, Current, Awaits, InFlight
  <2> QED BY <1>2, <2>2, <2>3 DEF AttemptInv, OwnersAreCurrent
<1>3. ASSUME public' = public PROVE PostsAreLive'
  <2>1. \A post \in public : post.batch \in Batches /\ post.batch # b
    BY <1>1, OwnersAreApproved DEF PostsOf
  <2> QED BY <1>3, <2>1 DEF Draws, AttemptInv, PostsAreLive, Live
<1> QED BY <1>1, <1>2, <1>3

\* The handler that gets the token is alone with it.
LEMMA BegunKeepsAttempts ==
    ASSUME GrantInv, AttemptInv, NEW t \in Tabs,
           \A u \in Tabs : u # t => tabs'[u] = tabs[u],
           tabs'[t].draft = tabs[t].draft, Begun(t)
    PROVE  AttemptInv'
<1> DEFINE b == tabs[t].draft.batch
<1>0. /\ b \in Batches /\ public' = public /\ Draws(b) /\ ~Owner(t)
      /\ \/ tabs'[t].step = "failing"
         \/ tabs'[t].step = "holding" /\ tabs'[t].token = batches'[b].attempt
  BY DEF Begun, Draws, Owner, Owning
<1>1. /\ batches'[b].publish = "PUBLISHING"
      /\ \A c \in Batches : c # b => batches'[c] = batches[c]
  BY <1>0 DEF Draws
<1>2. PostsOf(b) = {} /\ PostsAreLive'
  BY <1>0, DrawnIsNew
<1>3. ASSUME NEW u \in Tabs, u # t, Owner(u), tabs[u].draft.batch = b
      PROVE  /\ tabs[u].step = "reporting" /\ ~Current(u)'
             /\ tabs[u].token # batches'[b].attempt
  <2>1. tabs[u].step = "reporting" /\ tabs[u].token # batches'[b].attempt
    BY <1>0, <1>3, DrawnIsNew
  <2> QED BY <1>3, <2>1 DEF Current, Awaits
<1>4. \A u \in Tabs : u # t /\ Owner(u) =>
        (tabs[u].step # "reporting" => Current(u)') /\ OwnerKnows(u)'
  BY <1>0, <1>1, <1>3, OthersKeepAttempts
<1>5. Owner(t)' => Current(t)' /\ tabs'[t].token = batches'[b].attempt
  BY <1>0, <1>1 DEF Owner, Owning, Current, Awaits
<1>6. OwnerKnows(t)'
  BY <1>0, <1>2 DEF OwnerKnows, PostsOf
<1> QED BY <1>2, <1>3, <1>4, <1>5, <1>6, AttemptsFromOwn

\* A begin without a handler leaves all of them with what they have.
LEMMA OrphansKeepAttempts ==
    ASSUME GrantInv, AttemptInv, OrphanBegins
    PROVE  AttemptInv'
<1>1. PICK b \in Batches : Draws(b)
  BY OrphansKeepGrants
<1>2. UNCHANGED <<tabs, public>>
  BY DEF OrphanBegins, extensionVars
<1>3. \A t \in Tabs : Owner(t)' <=> Owner(t)
  BY <1>2 DEF Owner
<1>4. TokensAreUnique' /\ PostsAreLive'
  BY <1>1, <1>2, <1>3, DrawnIsNew DEF AttemptInv, TokensAreUnique
<1>5. ASSUME NEW t \in Tabs, Owner(t)
      PROVE  (tabs[t].step # "reporting" => Current(t)') /\ OwnerKnows(t)'
  <2>1. PICK c \in Batches : c = tabs[t].draft.batch
    BY <1>5, OwnersAreApproved DEF GrantInv
  <2>2. CASE c = b
    <3>1. tabs[t].step = "reporting" /\ tabs[t].token # batches'[b].attempt
      BY <1>1, <1>5, <2>1, <2>2, DrawnIsNew
    <3>2. ~Current(t)'
      BY <1>2, <2>1, <2>2, <3>1 DEF Current, Awaits
    <3> QED BY <1>2, <3>1, <3>2 DEF OwnerKnows
  <2>3. CASE c # b
    <3>1. batches'[c] = batches[c]
      BY <1>1, <2>3 DEF Draws
    <3>2. Current(t)' <=> Current(t)
      BY <1>2, <2>1, <3>1 DEF Current, Awaits
    <3> QED BY <1>2, <1>5, <3>2
            DEF AttemptInv, OwnersAreCurrent, OwnersKnow, OwnerKnows, PostsOf
  <2> QED BY <2>2, <2>3
<1>6. OwnersAreCurrent'
  BY <1>2, <1>3, <1>5 DEF OwnersAreCurrent
<1>7. OwnersKnow'
  <2> SUFFICES ASSUME NEW t \in Tabs PROVE OwnerKnows(t)'
    BY DEF OwnersKnow
  <2>1. CASE ~Owner(t)
    BY <1>2, <2>1 DEF OwnerKnows, Owner, Owning
  <2> QED BY <1>5, <2>1
<1> QED BY <1>4, <1>6, <1>7 DEF AttemptInv

\* The click of the current token publishes the first post of its batch.
LEMMA ClickedKeepsAttempts ==
    ASSUME GrantInv, AttemptInv, NEW t \in Tabs,
           \A u \in Tabs : u # t => tabs'[u] = tabs[u],
           tabs'[t].draft = tabs[t].draft, Clicked(t)
    PROVE  AttemptInv'
<1> DEFINE b == tabs[t].draft.batch
<1>0. /\ Owner(t) /\ Current(t) /\ batches' = batches
      /\ tabs[t].step = "holding" /\ tabs'[t].step = "clicked"
      /\ tabs'[t].token = tabs[t].token
      /\ \A post \in public' : post \in public \/ (post.batch = b /\ post.tab = t)
      /\ \A post, other \in public' : post \in public \/ other \in public \/ post = other
      /\ public \subseteq public'
  BY DEF Clicked, Owner, Owning, vars, AttemptInv, OwnersAreCurrent
<1>1. PostsOf(b) = {}
  BY <1>0 DEF AttemptInv, OwnersKnow, OwnerKnows
<1>2. ASSUME NEW u \in Tabs, u # t, Owner(u), tabs[u].draft.batch = b
      PROVE  tabs[u].step = "reporting" /\ ~Current(u)' /\ tabs[u].token # tabs[t].token
  BY <1>0, <1>2, OneIsCurrent DEF Current, Awaits
<1>3. \A u \in Tabs : u # t /\ Owner(u) =>
        (tabs[u].step # "reporting" => Current(u)') /\ OwnerKnows(u)'
  BY <1>0, <1>2, OthersKeepAttempts, OwnersAreApproved
<1>4. Current(t)'
  BY <1>0 DEF Current, Awaits
<1>5. OwnerKnows(t)'
  BY <1>0, <1>1 DEF OwnerKnows, PostsOf
<1>6. PostsAreLive'
  <2>1. Live(b)
    BY <1>0 DEF Current, Awaits, Live, InFlight
  <2>2. \A post \in public : post.batch # b
    BY <1>1 DEF PostsOf
  <2>3. \A post \in public' : Live(post.batch)'
    BY <1>0, <2>1 DEF AttemptInv, PostsAreLive, Live
  <2> QED BY <1>0, <2>2, <2>3 DEF AttemptInv, PostsAreLive
<1> QED BY <1>0, <1>2, <1>3, <1>4, <1>5, <1>6, AttemptsFromOwn

\* What the handler sees of its click, when no accepted click goes unseen.
LEMMA WatchedKeepsAttempts ==
    ASSUME GrantInv, AttemptInv, ~HiddenClicks, NEW t \in Tabs,
           \A u \in Tabs : u # t => tabs'[u] = tabs[u],
           tabs'[t].draft = tabs[t].draft, Watched(t)
    PROVE  AttemptInv'
<1> DEFINE b == tabs[t].draft.batch
<1>0. /\ Owner(t) /\ Current(t) /\ batches' = batches /\ public' = public
      /\ tabs[t].step = "clicked" /\ tabs'[t].token = tabs[t].token
      /\ \/ tabs'[t].step = "attempted" /\ tabs'[t].outcome = "PUBLISH_UNKNOWN"
         \/ tabs'[t].step = "reporting" /\ ~Accepted(t)
  BY DEF Watched, Owner, Owning, vars, AttemptInv, OwnersAreCurrent
<1>1. ~Accepted(t) => PostsOf(b) = {}
  BY <1>0 DEF AttemptInv, OwnersKnow, OwnerKnows, Accepted, PostsOf
<1>2. ASSUME NEW u \in Tabs, u # t, Owner(u), tabs[u].draft.batch = b
      PROVE  tabs[u].step = "reporting" /\ ~Current(u)' /\ tabs[u].token # tabs[t].token
  BY <1>0, <1>2, OneIsCurrent DEF Current, Awaits
<1>3. \A u \in Tabs : u # t /\ Owner(u) =>
        (tabs[u].step # "reporting" => Current(u)') /\ OwnerKnows(u)'
  BY <1>0, <1>2, OthersKeepAttempts, OwnersAreApproved
<1>4. Current(t)'
  BY <1>0 DEF Current, Awaits
<1>5. OwnerKnows(t)'
  BY <1>0, <1>1 DEF OwnerKnows, PostsOf
<1>6. PostsAreLive'
  BY <1>0 DEF AttemptInv, PostsAreLive, Live
<1> QED BY <1>0, <1>2, <1>3, <1>4, <1>5, <1>6, AttemptsFromOwn

\* A report ends the attempt, and as failed only one with nothing public.
LEMMA ReportedKeepsAttempts ==
    ASSUME GrantInv, AttemptInv, NEW t \in Tabs,
           \A u \in Tabs : u # t => tabs'[u] = tabs[u],
           tabs'[t].draft = tabs[t].draft, NEW outcome \in Outcomes, Reported(t, outcome)
    PROVE  AttemptInv'
<1> DEFINE b == tabs[t].draft.batch
<1>0. /\ Owner(t) /\ public' = public /\ TypeOK
      /\ tabs[t].step \in {"attempted", "reporting"}
      /\ tabs'[t].step \in {"reporting", "failing", "finishing"}
      /\ tabs'[t].token = tabs[t].token
      /\ Result(b, ProductOf(b), tabs[t].token, outcome)
      /\ tabs[t].step = "attempted" => outcome = "PUBLISHED"
      /\ tabs[t].step = "reporting" => outcome = tabs[t].outcome
  BY DEF Reported, Owner, Owning, GrantInv, TypesInv
<1>1. b \in Batches /\ tabs[t].token \in 1..MaxAttempts
  <2>1. /\ b \in Batches /\ tabs[t].token \in 1..batches[b].attempt
        /\ batches[b].attempt \in 0..MaxAttempts
    BY <1>0 DEF GrantInv, TypesInv, OwnersWereGranted, TypeOK, Batch
  <2> QED BY <2>1, BoundsAssumption
<1>2. /\ Awaits(b, tabs[t].token) /\ batches'[b].publish = outcome
      /\ \A c \in Batches : c # b => batches'[c] = batches[c]
  BY <1>0, <1>1, ResultEnds DEF GrantInv
<1>3. Current(t)
  BY <1>2 DEF Current
<1>4. ASSUME NEW u \in Tabs, u # t, Owner(u), tabs[u].draft.batch = b
      PROVE  tabs[u].step = "reporting" /\ ~Current(u)' /\ tabs[u].token # tabs[t].token
  <2>1. ~Current(u)'
    BY <1>2, <1>4 DEF Current, Awaits, Outcomes
  <2> QED BY <1>0, <1>3, <1>4, <2>1, OneIsCurrent
<1>5. \A u \in Tabs : u # t /\ Owner(u) =>
        (tabs[u].step # "reporting" => Current(u)') /\ OwnerKnows(u)'
  BY <1>0, <1>1, <1>2, <1>4, OthersKeepAttempts
<1>6. ~Current(t)'
  BY <1>2 DEF Current, Awaits, Outcomes
<1>7. OwnerKnows(t)'
  BY <1>0, <1>6 DEF OwnerKnows
<1>8. PostsAreLive'
  <2>1. outcome \in InFlight \/ PostsOf(b) = {}
    BY <1>0, <1>3 DEF AttemptInv, OwnersKnow, OwnerKnows, Outcomes, InFlight
  <2>2. ASSUME NEW post \in public PROVE Live(post.batch)'
    <3>1. post.batch \in Batches /\ Live(post.batch)
      BY OwnersAreApproved DEF AttemptInv, PostsAreLive
    <3>2. CASE post.batch = b
      BY <1>2, <2>1, <3>2 DEF PostsOf, Live
    <3>3. CASE post.batch # b
      BY <1>2, <3>1, <3>3 DEF Live
    <3> QED BY <3>2, <3>3
  <2> QED BY <1>0, <2>2 DEF AttemptInv, PostsAreLive
<1> QED BY <1>0, <1>4, <1>5, <1>7, <1>8, AttemptsFromOwn DEF Owner, Owning

-----------------------------------------------------------------------------
(* The theorems                                                            *)

\* The attempts of the extension are kept, when no accepted click goes unseen.
LEMMA AttemptsStay ==
    ASSUME GrantInv, AttemptInv, ~HiddenClicks, [ExtensionNext]_allVars
    PROVE  AttemptInv'
<1>1. CASE QuietStep
  BY <1>1, QuietKeepsAttempts
<1>2. ASSUME NEW t \in Tabs, TokenStep(t), ~QuietStep PROVE AttemptInv'
  BY <1>2, TokenSteps, BegunKeepsAttempts, ClickedKeepsAttempts, WatchedKeepsAttempts,
     ReportedKeepsAttempts
<1> QED BY <1>1, <1>2, StepsAreQuiet, OrphansKeepAttempts DEF GrantInv

\* All of it is kept together.
LEMMA ExtensionInvariant ==
    ASSUME ~HiddenClicks
    PROVE  ExtensionSpec => []ExtensionInv
<1>1. ExtensionInit => ExtensionInv
  BY GrantsInit, AttemptsInit DEF ExtensionInv
<1>2. ExtensionInv /\ [ExtensionNext]_allVars => ExtensionInv'
  BY GrantsStay, AttemptsStay DEF ExtensionInv
<1> QED BY <1>1, <1>2, PTL DEF ExtensionSpec

\* Overlapping polls, several tabs on one draft, retries and lost answers
\* never put the same product on the blog twice, as long as no accepted click
\* goes unseen, until a begin that has found no post replaces a blocking one.
THEOREM PostsAreNotRepeated ==
    ASSUME ~HiddenClicks
    PROVE  ExtensionSpec => []OnePublicPost
<1>1. ASSUME ExtensionInv PROVE OnePublicPost
  <2> SUFFICES ASSUME NEW p \in Products \ overwritten, NEW post \in PublicPosts(p),
                      NEW other \in PublicPosts(p)
               PROVE  post = other
    BY DEF OnePublicPost
  <2>1. /\ post \in public /\ post.batch \in Batches /\ batches[post.batch].summary = {p}
        /\ other \in public /\ other.batch \in Batches /\ batches[other.batch].summary = {p}
    BY <1>1 DEF PublicPosts, ExtensionInv, GrantInv, TypesInv, ExtensionTypes
  <2>2. Live(post.batch) /\ Live(other.batch)
    BY <1>1, <2>1 DEF ExtensionInv, AttemptInv, PostsAreLive
  <2>3. post.batch = other.batch
    BY <1>1, <2>1, <2>2 DEF ExtensionInv, GrantInv, LockInv, AtMostOneLiveAttempt
  <2> QED BY <1>1, <2>1, <2>3 DEF ExtensionInv, AttemptInv, PostsAreLive
<1> QED BY <1>1, ExtensionInvariant, PTL

\* The product of a public post stays blocked, whatever happens to the worker
\* between the click and the report, until its post is replaced unseen.
THEOREM PublicPostsAreRemembered ==
    ASSUME ~HiddenClicks
    PROVE  ExtensionSpec => []PublicPostIsRemembered
<1>1. ASSUME ExtensionInv PROVE PublicPostIsRemembered
  <2> SUFFICES ASSUME NEW p \in Products \ overwritten, NEW post \in PublicPosts(p)
               PROVE  posts[p] \in Blocking
    BY DEF PublicPostIsRemembered
  <2>1. post \in public /\ post.batch \in Batches /\ batches[post.batch].summary = {p}
    BY <1>1 DEF PublicPosts, ExtensionInv, GrantInv, TypesInv, ExtensionTypes
  <2>2. Live(post.batch)
    BY <1>1, <2>1 DEF ExtensionInv, AttemptInv, PostsAreLive
  <2> QED BY <1>1, <2>1, <2>2 DEF ExtensionInv, GrantInv, LockInv, LiveAttemptBlocksProduct
<1> QED BY <1>1, ExtensionInvariant, PTL

\* What is recorded as failed before the click has no public post.
THEOREM FailuresAreNotPublic ==
    ASSUME ~HiddenClicks
    PROVE  ExtensionSpec => []FailedIsNotPublic
<1>1. ExtensionInv => FailedIsNotPublic
  BY DEF ExtensionInv, AttemptInv, PostsAreLive, FailedIsNotPublic, Live, InFlight
<1> QED BY <1>1, ExtensionInvariant, PTL
=============================================================================
