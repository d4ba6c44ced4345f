---------------------------- MODULE ApprovalBot ----------------------------
(***************************************************************************)
(* The Telegram side of telegram_approval.py: the buttons under an         *)
(* approval message and the control panel, the queue of updates that       *)
(* Telegram keeps, and the polling thread that handles them.               *)
(*                                                                         *)
(* Telegram delivers an update until a later offset confirms it; the       *)
(* offset is kept in telegram_bot_state and saved after each update, so    *)
(* that an update is handled again when answering it fails or the thread   *)
(* ends in between, and not when it was answered with an error.            *)
(***************************************************************************)
EXTENDS Naturals, Sequences

CONSTANTS
    Batches,        \* approval batches
    NoBatch,        \* a tap on the control panel names no batch
    MaxTaps         \* bound: taps of the user

ASSUME NoBatchAssumption == NoBatch \notin Batches
ASSUME MaxTapsAssumption == MaxTaps \in Nat

VARIABLES
    status,     \* status of the batches, "NONE" before the request
    late,       \* batches whose expires_at has passed
    paused,     \* telegram_bot_state 'mobile_toss_release_paused'
    taps,       \* every update so far, update_id is the position
    offset,     \* telegram_bot_state 'update_offset', as the last update seen
    bot,        \* the thread: its step, the current and the last fetched update
    refused     \* history: updates that were answered with an error

vars == <<status, late, paused, taps, offset, bot, refused>>

Actions == {"APPROVED", "HELD"}
Controls == {"pause", "resume"}
Decided == Actions \cup {"EXPIRED"}
Waiting == [step |-> "polling", current |-> 0, last |-> 0]

-----------------------------------------------------------------------------
(* The scripts, the user and the clock                                     *)

\* send_publication_approval.
Send(b) ==
    /\ status[b] = "NONE"
    /\ status' = [status EXCEPT ![b] = "PENDING"]
    /\ UNCHANGED <<late, paused, taps, offset, bot, refused>>

\* A button is tapped, perhaps again before the buttons are removed.
Tap(b, action) ==
    /\ Len(taps) < MaxTaps
    /\ b \in Batches => status[b] # "NONE"
    /\ taps' = Append(taps, [batch |-> b, action |-> action])
    /\ UNCHANGED <<status, late, paused, offset, bot, refused>>

PassExpiry(b) ==
    /\ status[b] # "NONE" /\ b \notin late
    /\ late' = late \cup {b}
    /\ UNCHANGED <<status, paused, taps, offset, bot, refused>>

-----------------------------------------------------------------------------
(* The polling thread                                                      *)

FetchAndConfirm ==
    /\ bot.step = "polling"
    /\ offset < Len(taps)
    /\ bot' = [step |-> "handling", current |-> offset + 1, last |-> Len(taps)]
    /\ offset' = Len(taps)
    /\ UNCHANGED <<status, late, paused, taps, refused>>

\* getUpdates from the saved offset.
Fetch ==
    /\ bot.step = "polling"
    /\ offset < Len(taps)
    /\ bot' = [step |-> "handling", current |-> offset + 1, last |-> Len(taps)]
    /\ UNCHANGED <<status, late, paused, taps, offset, refused>>

ResolvedAnyway(b, action) == [status EXCEPT ![b] = action]

\* resolve_publication_approval, in the locked batch row: the first answer
\* counts, unless it is late.
Resolved(b, action) ==
    [status EXCEPT ![b] = IF @ # "PENDING" THEN @
                          ELSE IF b \in late THEN "EXPIRED" ELSE action]

\* handle_update, up to its answer.
Handle ==
    /\ bot.step = "handling"
    /\ LET tap == taps[bot.current]
       IN  IF tap.action \in Controls
           THEN paused' = (tap.action = "pause") /\ UNCHANGED status
           ELSE status' = Resolved(tap.batch, tap.action) /\ UNCHANGED paused
    /\ bot' = [bot EXCEPT !.step = "handled"]
    /\ UNCHANGED <<late, taps, offset, refused>>

\* resolve_publication_approval finds no connection to the database, and
\* handle_update answers that there was an error.
HandleFails ==
    /\ bot.step = "handling"
    /\ taps[bot.current].action \in Actions
    /\ refused' = refused \cup {bot.current}
    /\ bot' = [bot EXCEPT !.step = "handled"]
    /\ UNCHANGED <<status, late, paused, taps, offset>>

\* answerCallbackQuery; removing the buttons may fail unnoticed.
Answer ==
    /\ bot.step = "handled"
    /\ bot' = [bot EXCEPT !.step = "answered"]
    /\ UNCHANGED <<status, late, paused, taps, offset, refused>>

\* RuntimeError leaves poll_once, which starts again from the saved offset:
\* Telegram does not take the answer, or there is no connection to save the
\* switch of the panel or the offset.
StartOver ==
    /\ \/ bot.step \in {"handled", "answered"}
       \/ bot.step = "handling" /\ taps[bot.current].action \in Controls
    /\ bot' = Waiting
    /\ UNCHANGED <<status, late, paused, taps, offset, refused>>

\* set_telegram_update_offset, and the next update of the same answer.
SaveOffset ==
    /\ bot.step = "answered"
    /\ offset' = bot.current
    /\ bot' = IF bot.current < bot.last
              THEN [bot EXCEPT !.step = "handling", !.current = @ + 1]
              ELSE Waiting
    /\ UNCHANGED <<status, late, paused, taps, refused>>

\* An exception other than RuntimeError, such as a database error, or a stop
\* of the container ends the thread.
Die ==
    /\ bot.step # "stopped"
    /\ bot' = [Waiting EXCEPT !.step = "stopped"]
    /\ UNCHANGED <<status, late, paused, taps, offset, refused>>

\* The application is started again.
Restart ==
    /\ bot.step = "stopped"
    /\ bot' = Waiting
    /\ UNCHANGED <<status, late, paused, taps, offset, refused>>

-----------------------------------------------------------------------------
Init ==
    /\ status = [b \in Batches |-> "NONE"]
    /\ late = {}
    /\ paused = FALSE
    /\ taps = << >>
    /\ offset = 0
    /\ bot = Waiting
    /\ refused = {}

Next ==
    \/ \E b \in Batches : Send(b) \/ PassExpiry(b)
    \/ \E b \in Batches, action \in Actions : Tap(b, action)
    \/ \E action \in Controls : Tap(NoBatch, action)
    \/ Fetch \/ Handle \/ HandleFails \/ Answer \/ SaveOffset
    \/ StartOver \/ Die \/ Restart

Spec == Init /\ [][Next]_vars

-----------------------------------------------------------------------------
(* Properties                                                              *)

\* An answer stands: redelivered updates, second taps and late ones change
\* nothing ("approval or hold is recorded atomically", docs/OPERATIONS.md).
DecisionStands ==
    [][\A b \in Batches : status[b] \in Decided => status'[b] = status[b]]_vars

\* The tap that counts is the user's first one that was not answered with an
\* error, however often the thread starts over.
FirstTapDecides ==
    \A b \in Batches : status[b] \in Actions =>
        \E i \in DOMAIN taps :
            /\ taps[i] = [batch |-> b, action |-> status[b]]
            /\ \A j \in 1..(i - 1) : taps[j].batch # b \/ j \in refused

LastControl == {i \in DOMAIN taps : taps[i].action \in Controls
                    /\ \A j \in (i + 1)..Len(taps) : taps[j].action \notin Controls}

\* When every update is confirmed, the release is paused exactly when the
\* last tap on the panel said so: none is lost, none is applied out of order.
LastControlWins ==
    offset = Len(taps) =>
        (paused <=> \E i \in LastControl : taps[i].action = "pause")
=============================================================================
