------------------------ MODULE ExtensionPublisher ------------------------
(***************************************************************************)
(* The service worker of the Chrome extension, the editor tabs it opens,   *)
(* and the public blog, on top of the tables of PublicationStore.          *)
(*                                                                         *)
(* Polls run concurrently: the alarm, the pairing message, the icon and    *)
(* every restart of the worker start one without waiting for another.      *)
(* Handlers are cut at their awaits.  They share the one session draft,    *)
(* the system clipboard and the server.  A request that fails may or may   *)
(* not have been applied by the server.                                    *)
(***************************************************************************)
EXTENDS PublicationStore

CONSTANTS
    Polls,          \* concurrent runs of pollApprovedDraft
    Tabs,           \* bound: tabs that the polls may open, also draft ids
    NoTab,          \* no tab, or no draft
    ManualDraft,    \* the id of a draft the user sent from the web page
    Lossy,          \* a bad network: requests or their responses may be lost,
                    \* and a page may load after its draft has expired
    Crashes,        \* Chrome may stop the service worker at any time
    UserActs,       \* the user sends drafts and opens editor tabs, too
    HiddenClicks,   \* a click that Naver accepted may go unseen: its settings
                    \* dialog stays open for six seconds, or the tab is gone
    Retries,        \* the operator runs release_latest_approved_draft_for_retry
    FullWindows,    \* every window finds more than one product to queue
    SerialReleases, \* release tasks do not overlap, see ReleaseRace
    DraftsFail      \* the draft of an approved product may never be built again

ASSUME TabsAssumption == {NoTab, ManualDraft} \cap Tabs = {} /\ NoTab # ManualDraft
ASSUME SwitchesAssumption ==
    {Lossy, Crashes, UserActs, HiddenClicks, Retries, FullWindows,
     SerialReleases, DraftsFail} \subseteq BOOLEAN

VARIABLES
    poll,       \* the running polls
    session,    \* chrome.storage.session: the draft waiting for a tab
    tabs,       \* editor tabs and the NAVER_AUTO_FILL handler serving them
    clipboard,  \* whose product image is on the system clipboard
    public      \* the public posts of the blog: who made them, and the image

extensionVars == <<poll, session, tabs, clipboard, public>>
allVars == <<vars, extensionVars>>

\* A draft's id is that of the tab opened for it, or ManualDraft.
NoDraft == [id |-> NoTab, batch |-> NoBatch, preflight |-> FALSE]

\* Where a tab and its handler stand; from "filling" to "finishing" the
\* handler runs in the service worker.
InWorker == {"filling", "verified", "beginning", "holding", "clicked",
             "attempted", "reporting", "failing", "finishing"}

IdlePoll == [step |-> "idle", batch |-> NoBatch, tab |-> NoTab]
UnusedTab == [step |-> "unused", draft |-> NoDraft, token |-> 0,
              image |-> {}, known |-> {}, outcome |-> "FAILED_PRE_SUBMIT"]

\* Naver published what tab t submitted.
Accepted(t) == \E post \in public : post.tab = t

\* An id that nothing names may be that of a new tab, and of a new draft.
Fresh(t) ==
    /\ tabs[t].step = "unused" /\ ~Accepted(t)
    /\ session.id # t
    /\ \A w \in Polls : poll[w].tab # t
    /\ \A u \in Tabs : tabs[u].draft.id # t /\ t \notin tabs[u].known

ProductOf(b) == CHOOSE p \in Products : batches[b].summary = {p}

-----------------------------------------------------------------------------
(* Polling: pollApprovedDraft                                              *)

\* build_admin_toss_draft refuses a product that is publishing or public.
MayBeDrafted(p) == posts[p] \notin Blocking

\* GET /api/extension/approved-draft serves the newest unclaimed approval, if
\* a draft can be made of it now.  For a product that is sold out or has no
\* link, or when Toss does not answer, it answers 400 and the poll ends without
\* a report.  How long that goes on is left open, see FairExtensionSpec.
Fetch(w, b) ==
    /\ poll[w].step = "idle"
    /\ IsNewest(b, approvals, {c \in Batches : Servable(c)})
    /\ MayBeDrafted(ProductOf(b))
    /\ poll' = [poll EXCEPT ![w] = [step |-> "served", batch |-> b, tab |-> NoTab]]
    /\ UNCHANGED <<vars, session, tabs, clipboard, public>>

\* prepareApprovedImage puts the product image on the clipboard.
PrepareImage(w) ==
    /\ poll[w].step = "served"
    /\ clipboard' = batches[poll[w].batch].summary
    /\ poll' = [poll EXCEPT ![w].step = "prepared"]
    /\ UNCHANGED <<vars, session, tabs, public>>

\* A blank tab is created and the draft stored for whoever asks next.
StoreDraft(w, t) ==
    /\ poll[w].step = "prepared"
    /\ Fresh(t)
    /\ tabs' = [tabs EXCEPT ![t].step = "blank"]
    /\ session' = [id |-> t, batch |-> poll[w].batch,
                   preflight |-> batches[poll[w].batch].source = "preflight"]
    /\ poll' = [poll EXCEPT ![w].step = "stored", ![w].tab = t]
    /\ UNCHANGED <<vars, clipboard, public>>

\* The tab is sent to the editor, whose content script starts there.
Navigate(w) ==
    /\ poll[w].step = "stored"
    /\ tabs' = [tabs EXCEPT ![poll[w].tab].step = "loading"]
    /\ poll' = [poll EXCEPT ![w].step = "navigated"]
    /\ UNCHANGED <<vars, session, clipboard, public>>

\* POST /api/extension/approved-draft/claim answers ok even when the batch
\* was claimed before.
ClaimDraft(w) ==
    /\ poll[w].step = "navigated"
    /\ IF Servable(poll[w].batch) THEN Claim(poll[w].batch) ELSE UNCHANGED vars
    /\ poll' = [poll EXCEPT ![w] = IdlePoll]
    /\ UNCHANGED <<session, tabs, clipboard, public>>

\* The claim, or the answer to it, is lost.
ClaimDraftLost(w) ==
    /\ Lossy
    /\ poll[w].step = "navigated"
    /\ \/ Claim(poll[w].batch)
       \/ UNCHANGED vars
    /\ poll' = [poll EXCEPT ![w].step = "failing"]
    /\ UNCHANGED <<session, tabs, clipboard, public>>

\* An exception in the try block: no image, no tab, no storage.
PollFails(w) ==
    /\ poll[w].step \in {"served", "prepared", "stored"}
    /\ poll' = [poll EXCEPT ![w].step = "failing"]
    /\ UNCHANGED <<vars, session, tabs, clipboard, public>>

\* The catch block closes the tab it opened; a handler at work in it fails at
\* its next use of the page.  The session draft stays.
CloseOwnTab(w) ==
    /\ poll[w].step = "failing"
    /\ tabs' = [t \in Tabs |->
                  IF t = poll[w].tab THEN
                    CASE tabs[t].step \in {"blank", "loading", "prompted"} -> UnusedTab
                      [] tabs[t].step = "filling" -> [tabs[t] EXCEPT !.step = "failing"]
                      [] tabs[t].step = "holding" -> [tabs[t] EXCEPT !.step = "reporting"]
                      [] OTHER -> tabs[t]
                  ELSE tabs[t]]
    /\ poll' = [poll EXCEPT ![w].step = "reporting"]
    /\ UNCHANGED <<vars, session, clipboard, public>>

\* A pre-submit failure is posted; whether it is recorded, refused or lost,
\* the sender goes on.  It waits for a begin that has locked the batch.
PostPreFailure(b) ==
    \/ PreFailure(b)
    \/ Lossy /\ UNCHANGED vars
    \/ b \notin begins /\ ~MayPreFail(b) /\ UNCHANGED vars

PollReportsFailure(w) ==
    /\ poll[w].step = "reporting"
    /\ PostPreFailure(poll[w].batch)
    /\ poll' = [poll EXCEPT ![w] = IdlePoll]
    /\ UNCHANGED <<session, tabs, clipboard, public>>

-----------------------------------------------------------------------------
(* The editor tab and NAVER_AUTO_FILL                                      *)

\* NAVER_GET_DRAFT returns whatever draft is stored now.
ReadDraft(t) ==
    /\ tabs[t].step = "loading"
    /\ session # NoDraft
    /\ tabs' = [tabs EXCEPT ![t].step = "prompted", ![t].draft = session]
    /\ UNCHANGED <<vars, poll, session, clipboard, public>>

\* No draft came within eight seconds.
GiveUpWaiting(t) ==
    /\ tabs[t].step = "loading"
    /\ session = NoDraft
    /\ tabs' = [tabs EXCEPT ![t] = UnusedTab]
    /\ UNCHANGED <<vars, poll, session, clipboard, public>>

\* NAVER_AUTO_FILL is refused when the stored draft is another one by now.
StartFilling(t) ==
    /\ tabs[t].step = "prompted"
    /\ tabs' = [tabs EXCEPT ![t] = IF session.id = @.draft.id
                                   THEN [@ EXCEPT !.step = "filling"]
                                   ELSE UnusedTab]
    /\ UNCHANGED <<vars, poll, session, clipboard, public>>

\* autoFillNaver pastes the clipboard; it checks that there is one image
\* more than before, not which.
Fill(t) ==
    /\ tabs[t].step = "filling"
    /\ tabs' = [tabs EXCEPT ![t].step = "verified", ![t].image = clipboard]
    /\ UNCHANGED <<vars, poll, session, clipboard, public>>

MayPublishAnyApproval(t) ==
    /\ tabs[t].step = "verified"
    /\ tabs[t].draft.batch \in Batches

\* assertPublishPreconditions, for a draft that is not a mere preflight.
MayPublish(t) ==
    /\ tabs[t].step = "verified"
    /\ ~tabs[t].draft.preflight
    /\ tabs[t].draft.batch \in Batches

\* The editor, the link layer or the pasted image is not found.
FillFails(t) ==
    /\ tabs[t].step = "filling"
    /\ tabs' = [tabs EXCEPT ![t].step = "failing"]
    /\ UNCHANGED <<vars, poll, session, clipboard, public>>

\* The dialog, its category or its settings are not as expected before begin.
PublishCheckFails(t) ==
    /\ MayPublish(t)
    /\ tabs' = [tabs EXCEPT ![t].step = "failing"]
    /\ UNCHANGED <<vars, poll, session, clipboard, public>>

\* A draft without an approval is refused.
RefuseManualDraft(t) ==
    /\ tabs[t].step = "verified"
    /\ tabs[t].draft.batch = NoBatch
    /\ tabs' = [tabs EXCEPT ![t].step = "failing"]
    /\ UNCHANGED <<vars, poll, session, clipboard, public>>

\* POST /api/extension/publish/preflight-success.
PassPreflight(t) ==
    /\ tabs[t].step = "verified" /\ tabs[t].draft.preflight
    /\ \/ /\ PreflightSuccess(tabs[t].draft.batch)
          /\ \/ tabs' = [tabs EXCEPT ![t].step = "finishing"]
             \/ Lossy /\ tabs' = [tabs EXCEPT ![t].step = "failing"]
       \/ /\ ~MayPassPreflight(tabs[t].draft.batch) \/ Lossy
          /\ UNCHANGED vars
          /\ tabs' = [tabs EXCEPT ![t].step = "failing"]
    /\ UNCHANGED <<poll, session, clipboard, public>>

\* The answer to a begin that was committed: with the token the handler goes
\* on to click, without it the draft has failed, whatever the server recorded.
AnswerBegin(t) ==
    \/ tabs' = [tabs EXCEPT ![t].step = "holding",
                            ![t].token = batches'[tabs[t].draft.batch].attempt]
    \/ Lossy /\ tabs' = [tabs EXCEPT ![t].step = "failing"]

\* POST /api/extension/publish/begin.  It waits for one that has locked the
\* batch.
RequestBegin(t) ==
    /\ MayPublish(t)
    /\ LET b == tabs[t].draft.batch
           p == ProductOf(b)
       IN  /\ b \notin begins /\ batches[b].attempt < MaxAttempts
           /\ \/ Begin(b, p) /\ AnswerBegin(t)
              \/ FindNoPost(b, p) /\ tabs' = [tabs EXCEPT ![t].step = "beginning"]
              \/ /\ ~MayBegin(b, p) \/ Lossy
                 /\ UNCHANGED vars
                 /\ tabs' = [tabs EXCEPT ![t].step = "failing"]
    /\ UNCHANGED <<poll, session, clipboard, public>>

\* A begin that found no post comes to its end.
FinishBegin(t) ==
    /\ tabs[t].step = "beginning"
    /\ LET b == tabs[t].draft.batch
       IN  BeginUnlocked(b, ProductOf(b)) /\ AnswerBegin(t)
    /\ UNCHANGED <<poll, session, clipboard, public>>

\* The handler loses the server, which may go on without it, or roll back.
LoseBegin(t) ==
    /\ Lossy
    /\ tabs[t].step = "beginning"
    /\ BeginLost(tabs[t].draft.batch) \/ UNCHANGED vars
    /\ tabs' = [tabs EXCEPT ![t].step = "failing"]
    /\ UNCHANGED <<poll, session, clipboard, public>>

\* The open tabs are noted and the final button is clicked; Naver publishes
\* the post or does not.
ClickPublish(t) ==
    /\ tabs[t].step = "holding"
    /\ tabs' = [tabs EXCEPT ![t].step = "clicked",
                            ![t].known = {u \in Tabs : tabs[u].step # "unused"}]
    /\ \/ public' = public \cup {[tab |-> t, batch |-> tabs[t].draft.batch,
                                   image |-> tabs[t].image]}
       \/ UNCHANGED public
    /\ UNCHANGED <<vars, poll, session, clipboard>>

\* The button is not found; an exception before the click.
ClickFails(t) ==
    /\ tabs[t].step = "holding"
    /\ tabs' = [tabs EXCEPT ![t].step = "reporting"]
    /\ UNCHANGED <<vars, poll, session, clipboard, public>>

SeeDialogClosedUnnoted(t) ==
    /\ tabs[t].step = "clicked"
    /\ tabs' = [tabs EXCEPT ![t].step = "attempted"]
    /\ UNCHANGED <<vars, poll, session, clipboard, public>>

\* The settings dialog is seen closed: from here on the attempt is real.
SeeDialogClosed(t) ==
    /\ tabs[t].step = "clicked"
    /\ tabs' = [tabs EXCEPT ![t].step = "attempted",
                            ![t].outcome = "PUBLISH_UNKNOWN"]
    /\ UNCHANGED <<vars, poll, session, clipboard, public>>

\* The dialog is not seen closed within six seconds, or the page is gone.
MissDialogClosing(t) ==
    /\ tabs[t].step = "clicked"
    /\ Accepted(t) => HiddenClicks
    /\ tabs' = [tabs EXCEPT ![t].step = "reporting"]
    /\ UNCHANGED <<vars, poll, session, clipboard, public>>

\* waitForPublishedNaverUrl: a post of the own blog is open in this tab, or
\* in any tab that was opened since the click.
SeesUrl(t) ==
    \/ Accepted(t)
    \/ \E u \in Tabs \ tabs[t].known :
            Accepted(u) /\ tabs[u].step # "unused"

\* The public URL is found and posted; if that request fails, the handler
\* falls back to reporting an unknown outcome.
ReportPublished(t) ==
    /\ tabs[t].step = "attempted"
    /\ SeesUrl(t)
    /\ LET b == tabs[t].draft.batch
       IN  \/ /\ Result(b, ProductOf(b), tabs[t].token, "PUBLISHED")
              /\ \/ tabs' = [tabs EXCEPT ![t].step = "finishing"]
                 \/ Lossy /\ tabs' = [tabs EXCEPT ![t].step = "reporting"]
           \/ /\ ~Awaits(b, tabs[t].token) \/ Lossy
              /\ UNCHANGED vars
              /\ tabs' = [tabs EXCEPT ![t].step = "reporting"]
    /\ UNCHANGED <<poll, session, clipboard, public>>

\* No public URL within twenty seconds.
MissUrl(t) ==
    /\ tabs[t].step = "attempted"
    /\ tabs' = [tabs EXCEPT ![t].step = "reporting"]
    /\ UNCHANGED <<vars, poll, session, clipboard, public>>

\* The catch block posts the outcome with its token and ignores the answer;
\* an unknown outcome ends normally, a failure is thrown on.
ReportOutcome(t) ==
    /\ tabs[t].step = "reporting"
    /\ LET b == tabs[t].draft.batch
       IN  \/ Result(b, ProductOf(b), tabs[t].token, tabs[t].outcome)
           \/ (~Awaits(b, tabs[t].token) \/ Lossy) /\ UNCHANGED vars
    /\ tabs' = [tabs EXCEPT ![t].step =
                    IF tabs[t].outcome = "PUBLISH_UNKNOWN" THEN "finishing"
                                                          ELSE "failing"]
    /\ UNCHANGED <<poll, session, clipboard, public>>

\* The outer catch block of NAVER_AUTO_FILL.
ReportFailure(t) ==
    /\ tabs[t].step = "failing"
    /\ IF tabs[t].draft.batch \in Batches
       THEN PostPreFailure(tabs[t].draft.batch)
       ELSE UNCHANGED vars
    /\ tabs' = [tabs EXCEPT ![t].step = "finishing"]
    /\ UNCHANGED <<poll, session, clipboard, public>>

\* The stored draft is removed, be it this one or a newer one.
Finish(t) ==
    /\ tabs[t].step = "finishing"
    /\ session' = NoDraft
    /\ tabs' = [tabs EXCEPT ![t] = UnusedTab]
    /\ UNCHANGED <<vars, poll, clipboard, public>>

\* BLOGAUTO_STORE_DRAFT replaces the stored draft.
UserStoresDraft ==
    /\ UserActs
    /\ session' = [id |-> ManualDraft, batch |-> NoBatch, preflight |-> FALSE]
    /\ UNCHANGED <<vars, poll, tabs, clipboard, public>>

\* The content script starts in every editor tab, also in the user's own.
UserOpensEditor(t) ==
    /\ UserActs
    /\ Fresh(t)
    /\ tabs' = [tabs EXCEPT ![t].step = "loading"]
    /\ UNCHANGED <<vars, poll, session, clipboard, public>>

\* A draft lives for ten minutes, most pages load in less.
ExpireDraft ==
    /\ session # NoDraft
    /\ \/ Lossy
       \/ \A t \in Tabs : tabs[t].step \notin {"blank", "loading", "prompted"}
    /\ session' = NoDraft
    /\ UNCHANGED <<vars, poll, tabs, clipboard, public>>

\* Chrome stops the worker: its polls and handlers end where they are.
Crash ==
    /\ Crashes
    /\ poll' = [w \in Polls |-> IdlePoll]
    /\ tabs' = [t \in Tabs |-> IF tabs[t].step \in InWorker
                               THEN UnusedTab
                               ELSE tabs[t]]
    /\ poll # poll' \/ tabs # tabs'
    /\ UNCHANGED <<vars, session, clipboard, public>>

-----------------------------------------------------------------------------
ExtensionInit ==
    /\ Init
    /\ poll = [w \in Polls |-> IdlePoll]
    /\ session = NoDraft
    /\ tabs = [t \in Tabs |-> UnusedTab]
    /\ clipboard = {}
    /\ public = {}

\* The scripts and the Telegram user around the extension; what archiving,
\* and corrections do to the tables is checked in PublicationStore.  A begin
\* ends whether a handler waits for it or not.
Server ==
    /\ \/ \E b \in Batches, source \in Requested, items \in SUBSET Products :
            /\ RequestApproval(b, source, items)
            /\ FullWindows /\ source = "master" => Cardinality(items) > 1
       \/ \E b \in Batches : Resolve(b, "APPROVED")
       \/ \E m \in Batches, d \in Days, last \in 0..MaxSequence :
            \E place \in Placements(batches[m].summary) : CreateQueue(m, d, last, place)
       \/ \E d \in Days, p \in Products, b \in Batches :
            /\ ReleaseNext(d, p, b)
            /\ SerialReleases => \A q \in Products : queue[d][q].status # "RELEASED"
       \/ \E b \in Batches :
            /\ \A t \in Tabs : tabs[t].step = "beginning" => tabs[t].draft.batch # b
            /\ (\E p \in Products : BeginUnlocked(b, p)) \/ BeginLost(b)
       \/ Retries /\ \E b \in Batches : ReleaseClaim(b)
    /\ UNCHANGED extensionVars

FetchStep(w) == \E b \in Batches : Fetch(w, b)

PollStep(w) ==
    \/ PrepareImage(w)
    \/ \E t \in Tabs : StoreDraft(w, t)
    \/ Navigate(w)
    \/ ClaimDraft(w)
    \/ CloseOwnTab(w)
    \/ PollReportsFailure(w)

TabStep(t) ==
    \/ ReadDraft(t)
    \/ GiveUpWaiting(t)
    \/ StartFilling(t)
    \/ Fill(t)
    \/ PassPreflight(t)
    \/ RefuseManualDraft(t)
    \/ RequestBegin(t)
    \/ FinishBegin(t)
    \/ ClickPublish(t)
    \/ SeeDialogClosed(t)
    \/ ReportPublished(t)
    \/ MissUrl(t)
    \/ ReportOutcome(t)
    \/ ReportFailure(t)
    \/ Finish(t)

\* What may go wrong, and never has to.
Mishap ==
    \/ \E w \in Polls : PollFails(w) \/ ClaimDraftLost(w)
    \/ \E t \in Tabs : FillFails(t) \/ PublishCheckFails(t) \/ LoseBegin(t)
                       \/ ClickFails(t) \/ MissDialogClosing(t)
                       \/ UserOpensEditor(t)
    \/ UserStoresDraft
    \/ ExpireDraft
    \/ Crash

ExtensionNext ==
    \/ Server
    \/ \E w \in Polls : FetchStep(w) \/ PollStep(w)
    \/ \E t \in Tabs : TabStep(t)
    \/ Mishap

ExtensionSpec == ExtensionInit /\ [][ExtensionNext]_allVars

\* Chrome keeps firing the alarm and running the handlers it has started.  A
\* draft is served at last unless it may never be built.
FairExtensionSpec ==
    /\ ExtensionSpec
    /\ \A w \in Polls : WF_allVars(PollStep(w))
    /\ DraftsFail \/ \A w \in Polls : WF_allVars(FetchStep(w))
    /\ \A t \in Tabs : WF_allVars(TabStep(t))

-----------------------------------------------------------------------------
(* Properties                                                              *)

PublicPosts(p) == {post \in public : batches[post.batch].summary = {p}}

\* The purpose of the lock, in the real world: overlapping polls, several
\* tabs on one draft, retries and lost answers never put the same product on
\* the blog twice, as long as no accepted click goes unseen and nobody replaces
\* the product's post unseen.
OnePublicPost ==
    \A p \in Products \ overwritten : \A post, other \in PublicPosts(p) : post = other

\* A public post is never forgotten: its product stays blocked, also when the
\* worker dies between the click and the report.
PublicPostIsRemembered ==
    \A p \in Products \ overwritten : PublicPosts(p) # {} => posts[p] \in Blocking

\* "After the public click an unconfirmed URL is recorded as
\* PUBLISH_UNKNOWN" (docs/OPERATIONS.md, recovery rule 2): a batch recorded
\* as failed before the click has no public post.
FailedIsNotPublic ==
    \A b \in Batches : batches[b].publish = "FAILED_PRE_SUBMIT" =>
        \A post \in public : post.batch # b

\* An approved preflight never publishes, whichever tab fills its draft.
PreflightIsNotPublic ==
    \A post \in public : batches[post.batch].source # "preflight"

\* "A scheduled RELEASED item cannot block the queue" (docstring of
\* record_extension_pre_publish_failure).
ReleaseSettles ==
    \A d \in Days, p \in Products :
        queue[d][p].status = "RELEASED" ~> queue[d][p].status # "RELEASED"

Releases == {b \in Batches : batches[b].source = "release"}

=============================================================================
