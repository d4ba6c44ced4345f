------------------------- MODULE ApprovalBot_proofs -------------------------
(***************************************************************************)
(* Theorems about the Telegram bot for any number of batches and taps:     *)
(* although an update may be handled again and again, the answers and the  *)
(* control panel end up as the user tapped them.                           *)
(***************************************************************************)
EXTENDS ApprovalBot, SequenceTheorems, TLAPS

-----------------------------------------------------------------------------
(* The inductive invariant                                                 *)

\* A button belongs to a batch or to the control panel.
Buttons == {tap \in [batch : Batches \cup {NoBatch}, action : Actions \cup Controls] :
                tap.batch \in Batches <=> tap.action \in Actions}

States == {"NONE", "PENDING"} \cup Decided

Busy == {"handling", "handled", "answered"}

Types ==
    /\ status \in [Batches -> States]
    /\ paused \in BOOLEAN
    /\ taps \in Seq(Buttons)
    /\ offset \in 0..Len(taps)
    /\ bot \in [step : {"polling", "stopped"} \cup Busy, current : Nat, last : Nat]

\* The thread works on the first update that is not confirmed.
WorksInOrder ==
    bot.step \in Busy =>
        /\ bot.current = offset + 1
        /\ bot.current <= bot.last
        /\ bot.last <= Len(taps)

\* The updates whose effects are in the tables for sure.
Applied == IF bot.step \in {"handled", "answered"} THEN offset + 1 ELSE offset

\* A batch that was tapped has been sent, and is decided when the tap has been
\* handled without an error.
TapsDecide ==
    \A i \in 1..Len(taps) : taps[i].batch \in Batches =>
        /\ status[taps[i].batch] # "NONE"
        /\ i <= Applied => status[taps[i].batch] \in Decided \/ i \in refused

\* The last tap on the panel among the first n was "pause".
PausedAfter(n) ==
    \E i \in 1..n :
        /\ taps[i].action = "pause"
        /\ \A j \in (i + 1)..n : taps[j].action \notin Controls

\* The switch is as the taps handled so far set it; when the thread starts
\* over, one more may have been handled.
SwitchFollows ==
    \/ paused <=> PausedAfter(Applied)
    \/ /\ Applied = offset /\ offset < Len(taps)
       /\ paused <=> PausedAfter(offset + 1)

BotInv == Types /\ WorksInOrder /\ TapsDecide /\ SwitchFollows /\ FirstTapDecides

-----------------------------------------------------------------------------
(* Taps                                                                    *)

\* A new tap comes after the others, and leaves them as they are.
LEMMA TapsGrow ==
    ASSUME Types, NEW tap \in Buttons, taps' = Append(taps, tap)
    PROVE  /\ taps' \in Seq(Buttons)
           /\ Len(taps') = Len(taps) + 1 /\ Len(taps) \in Nat
           /\ \A i \in 1..Len(taps) : taps'[i] = taps[i]
           /\ taps'[Len(taps) + 1] = tap
BY AppendProperties, LenProperties DEF Types

\* The panel after one more tap.
LEMMA PausedAfterOne ==
    ASSUME NEW n \in Nat
    PROVE  PausedAfter(n + 1) <=>
                \/ taps[n + 1].action = "pause"
                \/ taps[n + 1].action \notin Controls /\ PausedAfter(n)
<1>1. ASSUME taps[n + 1].action = "pause" PROVE PausedAfter(n + 1)
  BY <1>1 DEF PausedAfter
<1>2. ASSUME taps[n + 1].action \notin Controls, PausedAfter(n) PROVE PausedAfter(n + 1)
  <2>1. PICK i \in 1..n : /\ taps[i].action = "pause"
                          /\ \A j \in (i + 1)..n : taps[j].action \notin Controls
    BY <1>2 DEF PausedAfter
  <2>2. \A j \in (i + 1)..(n + 1) : j = n + 1 \/ j \in (i + 1)..n
    OBVIOUS
  <2> QED BY <1>2, <2>1, <2>2 DEF PausedAfter
<1>3. ASSUME PausedAfter(n + 1), taps[n + 1].action # "pause"
      PROVE  taps[n + 1].action \notin Controls /\ PausedAfter(n)
  <2>1. PICK i \in 1..(n + 1) :
                /\ taps[i].action = "pause"
                /\ \A j \in (i + 1)..(n + 1) : taps[j].action \notin Controls
    BY <1>3 DEF PausedAfter
  <2>2. i \in 1..n /\ n + 1 \in (i + 1)..(n + 1)
    BY <1>3, <2>1
  <2>3. \A j \in (i + 1)..n : j \in (i + 1)..(n + 1)
    OBVIOUS
  <2> QED BY <2>1, <2>2, <2>3 DEF PausedAfter
<1> QED BY <1>1, <1>2, <1>3

\* The panel depends on the taps it counts.
LEMMA PausedAfterSame ==
    ASSUME NEW n \in Nat, \A i \in 1..n : taps'[i] = taps[i]
    PROVE  PausedAfter(n)' <=> PausedAfter(n)
<1>1. \A i \in 1..n : \A j \in (i + 1)..n : j \in 1..n
  OBVIOUS
<1> QED BY <1>1 DEF PausedAfter

-----------------------------------------------------------------------------
(* The steps                                                               *)

\* A tap changes nothing but the list of taps.
LEMMA TapKeepsBot ==
    ASSUME BotInv, NEW b, NEW action, [batch |-> b, action |-> action] \in Buttons,
           Tap(b, action)
    PROVE  BotInv'
<1> USE DEF BotInv
<1> DEFINE tap == [batch |-> b, action |-> action]
<1>1. /\ taps' \in Seq(Buttons)
      /\ Len(taps') = Len(taps) + 1 /\ Len(taps) \in Nat
      /\ \A i \in 1..Len(taps) : taps'[i] = taps[i]
      /\ taps'[Len(taps) + 1] = tap
  BY TapsGrow DEF Tap
<1>2. /\ UNCHANGED <<status, late, paused, offset, bot, refused>> /\ Applied' = Applied
      /\ b \in Batches => status[b] # "NONE"
  BY DEF Tap, Applied
<1>0. offset \in Nat /\ offset <= Len(taps) /\ Applied \in Nat /\ Applied <= Len(taps)
  BY <1>1 DEF Types, Applied, WorksInOrder, Busy
<1>3. Types' /\ WorksInOrder'
  BY <1>0, <1>1, <1>2 DEF Types, WorksInOrder
<1>4. TapsDecide'
  <2> SUFFICES ASSUME NEW i \in 1..(Len(taps) + 1), taps'[i].batch \in Batches
               PROVE  /\ status[taps'[i].batch] # "NONE"
                      /\ i <= Applied =>
                            status[taps'[i].batch] \in Decided \/ i \in refused
    BY <1>1, <1>2 DEF TapsDecide
  <2>1. CASE i \in 1..Len(taps)
    BY <1>1, <2>1 DEF TapsDecide
  <2>2. CASE i = Len(taps) + 1
    BY <1>0, <1>1, <1>2, <2>2
  <2> QED BY <1>1, <2>1, <2>2
<1>5. SwitchFollows'
  <2>1. PausedAfter(Applied)' <=> PausedAfter(Applied)
    <3>1. \A i \in 1..Applied : taps'[i] = taps[i]
      BY <1>0, <1>1
    <3>2. \A n \in Nat : n = Applied => (PausedAfter(n)' <=> PausedAfter(n))
      BY <3>1, PausedAfterSame
    <3> QED BY <1>0, <1>2, <3>2 DEF PausedAfter
  <2>2. ASSUME offset < Len(taps)
        PROVE  PausedAfter(offset + 1)' <=> PausedAfter(offset + 1)
    <3>1. offset + 1 \in Nat /\ \A i \in 1..(offset + 1) : taps'[i] = taps[i]
      BY <1>0, <1>1, <2>2
    <3>2. \A n \in Nat : n = offset + 1 => (PausedAfter(n)' <=> PausedAfter(n))
      BY <3>1, PausedAfterSame
    <3> QED BY <1>2, <3>1, <3>2 DEF PausedAfter
  <2> QED BY <1>0, <1>1, <1>2, <2>1, <2>2 DEF SwitchFollows
<1>6. FirstTapDecides'
  <2> SUFFICES ASSUME NEW c \in Batches, status[c] \in Actions
               PROVE  \E i \in DOMAIN taps' :
                        /\ taps'[i] = [batch |-> c, action |-> status[c]]
                        /\ \A j \in 1..(i - 1) :
                                taps'[j].batch # c \/ j \in refused
    BY <1>2 DEF FirstTapDecides
  <2>1. PICK i \in 1..Len(taps) :
                /\ taps[i] = [batch |-> c, action |-> status[c]]
                /\ \A j \in 1..(i - 1) : taps[j].batch # c \/ j \in refused
    BY LenProperties DEF FirstTapDecides, Types
  <2>2. \A j \in 1..(i - 1) : j \in 1..Len(taps)
    BY <1>1
  <2>3. i \in DOMAIN taps'
    BY <1>1, LenProperties
  <2> QED BY <1>1, <2>1, <2>2, <2>3
<1> QED BY <1>3, <1>4, <1>5, <1>6

\* Handling an update decides its batch or sets the switch, be it the first
\* time or not.
LEMMA HandleKeepsBot == ASSUME BotInv, Handle PROVE BotInv'
<1> USE DEF BotInv
<1> DEFINE n == offset + 1
           tap == taps[n]
<1>0. /\ bot.step = "handling" /\ bot.current = n /\ n \in 1..Len(taps)
      /\ offset \in Nat /\ Len(taps) \in Nat
      /\ tap \in Buttons /\ Applied = offset
      /\ bot' = [bot EXCEPT !.step = "handled"] /\ UNCHANGED <<late, taps, offset, refused>>
  <2>1. bot.step = "handling" /\ bot.current = n /\ n <= Len(taps)
        /\ offset \in Nat /\ Len(taps) \in Nat
    BY LenProperties DEF Handle, WorksInOrder, Busy, Types
  <2>2. tap \in Buttons
    BY <2>1, ElementOfSeq DEF Types
  <2> QED BY <2>1, <2>2 DEF Handle, Applied
<1>1. /\ tap.action \in Controls => paused' = (tap.action = "pause") /\ UNCHANGED status
      /\ tap.action \notin Controls =>
            /\ UNCHANGED paused
            /\ tap.batch \in Batches
            /\ status' = Resolved(tap.batch, tap.action)
            /\ tap.action \in Actions
      /\ tap.action \in Controls => tap.batch \notin Batches
  BY <1>0 DEF Handle, Buttons, Actions, Controls
<1>2. /\ \A b \in Batches : b # tap.batch \/ status[b] # "PENDING" => status'[b] = status[b]
      /\ tap.batch \in Batches /\ status[tap.batch] = "PENDING" =>
            status'[tap.batch] \in {"EXPIRED", tap.action}
      /\ status' \in [Batches -> States]
  BY <1>1 DEF Resolved, Types, States, Decided
<1>3. bot'.step = "handled" /\ bot'.current = bot.current /\ bot'.last = bot.last
      /\ Applied' = n
  BY <1>0 DEF Types, Applied
<1>4. Types' /\ WorksInOrder'
  BY <1>0, <1>1, <1>2, <1>3 DEF Types, WorksInOrder, Busy
<1>5. TapsDecide'
  <2> SUFFICES ASSUME NEW i \in 1..Len(taps), taps[i].batch \in Batches
               PROVE  /\ status'[taps[i].batch] # "NONE"
                      /\ i <= n => status'[taps[i].batch] \in Decided \/ i \in refused
    BY <1>0, <1>3 DEF TapsDecide
  <2>1. status'[taps[i].batch] # "NONE"
    BY <1>1, <1>2 DEF TapsDecide, Decided, Actions
  <2>2. CASE i = n
    <3>1. status[tap.batch] # "NONE" /\ status[tap.batch] \in States
      BY <2>2 DEF TapsDecide, Types
    <3> QED BY <1>1, <1>2, <2>1, <2>2, <3>1 DEF States, Decided, Actions
  <2>3. CASE i <= offset
    <3>1. status[taps[i].batch] \in Decided \/ i \in refused
      BY <1>0, <2>3 DEF TapsDecide
    <3>2. "PENDING" \notin Decided
      BY DEF Decided, Actions
    <3> QED BY <1>2, <2>1, <3>1, <3>2
  <2> QED BY <1>0, <2>1, <2>2, <2>3
<1>6. SwitchFollows'
  <2>1. PausedAfter(n) <=> \/ tap.action = "pause"
                           \/ tap.action \notin Controls /\ PausedAfter(offset)
    BY <1>0, PausedAfterOne
  <2>2. paused' <=> PausedAfter(n)
    <3>1. CASE tap.action \in Controls
      BY <1>1, <2>1, <3>1
    <3>2. CASE tap.action \notin Controls
      BY <1>0, <1>1, <2>1, <3>2 DEF SwitchFollows, Controls
    <3> QED BY <3>1, <3>2
  <2>3. PausedAfter(n)' <=> PausedAfter(n)
    BY <1>0 DEF PausedAfter
  <2> QED BY <1>0, <1>3, <2>2, <2>3 DEF SwitchFollows, PausedAfter
<1>7. FirstTapDecides'
  <2> SUFFICES ASSUME NEW c \in Batches, status'[c] \in Actions
               PROVE  \E i \in DOMAIN taps :
                        /\ taps[i] = [batch |-> c, action |-> status'[c]]
                        /\ \A j \in 1..(i - 1) : taps[j].batch # c \/ j \in refused
    BY <1>0 DEF FirstTapDecides
  <2>1. CASE status'[c] = status[c]
    BY <2>1 DEF FirstTapDecides
  <2>2. CASE status'[c] # status[c]
    <3>1. /\ c = tap.batch /\ status[c] = "PENDING" /\ status'[c] = tap.action
      BY <1>2, <2>2 DEF Actions
    <3>2. \A j \in 1..offset : taps[j].batch # c \/ j \in refused
      <4> SUFFICES ASSUME NEW j \in 1..offset, taps[j].batch = c, j \notin refused
                   PROVE  FALSE
        OBVIOUS
      <4>1. j \in 1..Len(taps) /\ j <= Applied
        BY <1>0
      <4>2. status[c] \in Decided
        BY <4>1 DEF TapsDecide
      <4> QED BY <3>1, <4>2 DEF Decided, Actions
    <3>3. tap = [batch |-> c, action |-> status'[c]]
      BY <1>0, <3>1 DEF Buttons
    <3>4. n \in DOMAIN taps /\ n - 1 = offset
      BY <1>0, LenProperties DEF Types
    <3> QED BY <3>2, <3>3, <3>4
  <2> QED BY <2>1, <2>2
<1> QED BY <1>4, <1>5, <1>6, <1>7

\* An update that is answered with an error counts as handled; the panel has
\* none.
LEMMA HandleFailsKeepsBot == ASSUME BotInv, HandleFails PROVE BotInv'
<1> USE DEF BotInv
<1> DEFINE n == offset + 1
<1>0. /\ bot.step = "handling" /\ bot.current = n /\ n \in 1..Len(taps)
      /\ offset \in Nat /\ Len(taps) \in Nat
      /\ taps[n] \in Buttons /\ taps[n].action \in Actions /\ Applied = offset
      /\ bot' = [bot EXCEPT !.step = "handled"] /\ refused' = refused \cup {n}
      /\ UNCHANGED <<status, late, paused, taps, offset>>
  <2>1. bot.step = "handling" /\ bot.current = n /\ n <= Len(taps)
        /\ offset \in Nat /\ Len(taps) \in Nat
    BY LenProperties DEF HandleFails, WorksInOrder, Busy, Types
  <2>2. taps[n] \in Buttons
    BY <2>1, ElementOfSeq DEF Types
  <2> QED BY <2>1, <2>2 DEF HandleFails, Applied
<1>1. bot'.step = "handled" /\ bot'.current = bot.current /\ bot'.last = bot.last
      /\ Applied' = n
  BY <1>0 DEF Types, Applied
<1>2. Types' /\ WorksInOrder'
  BY <1>0, <1>1 DEF Types, WorksInOrder, Busy
<1>3. TapsDecide'
  <2>1. \A i \in 1..Len(taps) : i <= n => i = n \/ i <= offset
    BY <1>0
  <2> QED BY <1>0, <1>1, <2>1 DEF TapsDecide
<1>4. SwitchFollows'
  <2>1. PausedAfter(n) <=> PausedAfter(offset)
    <3>1. taps[n].action # "pause" /\ taps[n].action \notin Controls
      BY <1>0 DEF Actions, Controls
    <3> QED BY <1>0, <3>1, PausedAfterOne
  <2>2. \A m : PausedAfter(m)' <=> PausedAfter(m)
    BY <1>0 DEF PausedAfter
  <2>3. paused <=> PausedAfter(n)
    BY <1>0, <2>1 DEF SwitchFollows
  <2> QED BY <1>0, <1>1, <2>2, <2>3 DEF SwitchFollows, PausedAfter
<1>5. FirstTapDecides'
  BY <1>0 DEF FirstTapDecides
<1> QED BY <1>2, <1>3, <1>4, <1>5

\* The other steps of the thread change no table but the offset.
LEMMA ThreadKeepsBot ==
    ASSUME BotInv, Fetch \/ Answer \/ StartOver \/ SaveOffset \/ Die \/ Restart
    PROVE  BotInv'
<1> USE DEF BotInv
<1>0. /\ UNCHANGED <<status, late, paused, taps, refused>>
      /\ offset \in Nat /\ Len(taps) \in Nat /\ offset <= Len(taps)
  BY LenProperties DEF Types, Fetch, Answer, StartOver, SaveOffset, Die, Restart
<1>a. Waiting \in [step : {"polling", "stopped"} \cup Busy, current : Nat, last : Nat]
      /\ Waiting.step = "polling"
  BY DEF Waiting
<1>b. /\ bot.current \in Nat /\ bot.last \in Nat
      /\ bot \in [step : {"polling", "stopped"} \cup Busy, current : Nat, last : Nat]
  BY DEF Types
<1> DEFINE Same == Applied' = Applied
           Back == /\ Applied = offset + 1 /\ Applied' = offset /\ offset' = offset
                   /\ offset < Len(taps)
<1>c. ASSUME Fetch PROVE Types' /\ WorksInOrder' /\ Same
  <2>1. /\ bot' = [step |-> "handling", current |-> offset + 1, last |-> Len(taps)]
        /\ offset' = offset /\ offset < Len(taps) /\ bot.step = "polling"
    BY <1>c DEF Fetch
  <2> QED BY <1>0, <2>1 DEF Types, WorksInOrder, Busy, Applied
<1>d. ASSUME Answer PROVE Types' /\ WorksInOrder' /\ Same
  BY <1>0, <1>b, <1>d DEF Answer, Types, WorksInOrder, Busy, Applied
<1>e. ASSUME StartOver PROVE Types' /\ WorksInOrder' /\ (Same \/ Back)
  BY <1>0, <1>a, <1>e DEF StartOver, Types, WorksInOrder, Busy, Applied
<1>f. ASSUME SaveOffset PROVE Types' /\ WorksInOrder' /\ Same
  <2>1. bot.step = "answered" /\ offset' = offset + 1 /\ offset + 1 <= Len(taps)
    BY <1>0, <1>f DEF SaveOffset, WorksInOrder, Busy, Types
  <2>2. CASE bot.current < bot.last
    <3>1. /\ bot' = [bot EXCEPT !.step = "handling", !.current = bot.current + 1]
          /\ bot.current + 1 \in Nat
      BY <1>b, <1>f, <2>2 DEF SaveOffset
    <3>2. /\ bot'.step = "handling" /\ bot'.current = bot.current + 1 /\ bot'.last = bot.last
          /\ bot' \in [step : {"polling", "stopped"} \cup Busy, current : Nat, last : Nat]
      BY <1>b, <3>1 DEF Busy
    <3> QED BY <1>0, <2>1, <2>2, <3>2 DEF Types, WorksInOrder, Busy, Applied
  <2>3. CASE ~(bot.current < bot.last)
    <3>1. bot' = Waiting
      BY <1>f, <2>3 DEF SaveOffset
    <3> QED BY <1>0, <1>a, <2>1, <3>1 DEF Types, WorksInOrder, Busy, Applied
  <2> QED BY <2>2, <2>3
<1>g. ASSUME Die PROVE Types' /\ WorksInOrder' /\ (Same \/ Back)
  <2>1. /\ bot'.step = "stopped" /\ offset' = offset
        /\ bot' \in [step : {"polling", "stopped"} \cup Busy, current : Nat, last : Nat]
    BY <1>a, <1>g DEF Die
  <2> QED BY <1>0, <2>1 DEF Types, WorksInOrder, Busy, Applied
<1>h. ASSUME Restart PROVE Types' /\ WorksInOrder' /\ Same
  BY <1>0, <1>a, <1>h DEF Restart, Types, WorksInOrder, Busy, Applied
<1> HIDE DEF Same, Back
<1>1. Types' /\ WorksInOrder'
  BY <1>c, <1>d, <1>e, <1>f, <1>g, <1>h
<1>2. Applied' = Applied \/ Back
  BY <1>c, <1>d, <1>e, <1>f, <1>g, <1>h DEF Same
<1> USE DEF Back
<1>3. \/ offset' = offset
      \/ Applied = offset + 1
  BY <1>0 DEF Fetch, Answer, StartOver, SaveOffset, Die, Restart, Applied
<1>4. TapsDecide'
  BY <1>0, <1>2 DEF TapsDecide
<1>5. \A m : PausedAfter(m)' <=> PausedAfter(m)
  BY <1>0 DEF PausedAfter
<1>6. SwitchFollows'
  <2>1. CASE Applied' = Applied /\ offset' = offset
    BY <1>0, <2>1 DEF SwitchFollows, PausedAfter
  <2>2. CASE Applied' = Applied /\ Applied = offset + 1
    BY <1>0, <2>2 DEF SwitchFollows, PausedAfter
  <2>3. CASE /\ Applied = offset + 1 /\ Applied' = offset /\ offset' = offset
             /\ offset < Len(taps)
    BY <1>0, <2>3 DEF SwitchFollows, PausedAfter
  <2> QED BY <1>2, <1>3, <2>1, <2>2, <2>3
<1>7. FirstTapDecides'
  BY <1>0 DEF FirstTapDecides
<1> QED BY <1>1, <1>4, <1>6, <1>7

\* No step breaks the invariant.
LEMMA BotStays == ASSUME BotInv, [Next]_vars PROVE BotInv'
<1>1. ASSUME NEW b \in Batches, Send(b) PROVE BotInv'
  <2>0. /\ status' = [status EXCEPT ![b] = "PENDING"] /\ status[b] = "NONE"
        /\ UNCHANGED <<late, paused, taps, offset, bot, refused>>
    BY <1>1 DEF Send
  <2>1. Types' /\ WorksInOrder'
    BY <2>0 DEF BotInv, Types, States, WorksInOrder
  <2>2. /\ \A c \in Batches : c # b => status'[c] = status[c]
        /\ status'[b] = "PENDING"
    BY <2>0 DEF BotInv, Types
  <2>3. TapsDecide'
    BY <2>0, <2>2 DEF BotInv, TapsDecide, Applied, Decided, Actions
  <2>4. SwitchFollows'
    BY <2>0 DEF BotInv, SwitchFollows, Applied, PausedAfter
  <2>5. FirstTapDecides'
    BY <2>0, <2>2 DEF BotInv, FirstTapDecides, Actions
  <2> QED BY <2>1, <2>3, <2>4, <2>5 DEF BotInv
<1>2. CASE UNCHANGED vars \/ \E b \in Batches : PassExpiry(b)
  <2>1. UNCHANGED <<status, paused, taps, offset, bot, refused>>
    BY <1>2 DEF vars, PassExpiry
  <2> QED BY <2>1 DEF BotInv, Types, WorksInOrder, TapsDecide, SwitchFollows, Applied,
          PausedAfter, FirstTapDecides
<1>3. ASSUME NEW b \in Batches, NEW action \in Actions, Tap(b, action) PROVE BotInv'
  <2>1. [batch |-> b, action |-> action] \in Buttons
    BY <1>3 DEF Buttons
  <2> QED BY <1>3, <2>1, TapKeepsBot
<1>4. ASSUME NEW action \in Controls, Tap(NoBatch, action) PROVE BotInv'
  <2>1. [batch |-> NoBatch, action |-> action] \in Buttons
    BY <1>4, NoBatchAssumption DEF Buttons, Controls, Actions
  <2> QED BY <1>4, <2>1, TapKeepsBot
<1> QED BY <1>1, <1>2, <1>3, <1>4, HandleKeepsBot, HandleFailsKeepsBot,
       ThreadKeepsBot DEF Next

\* At first there are no taps.
LEMMA BotInit == Init => BotInv
<1> SUFFICES ASSUME Init PROVE BotInv
  OBVIOUS
<1>1. taps \in Seq(Buttons) /\ Len(taps) = 0
  BY DEF Init
<1>2. Types
  <2>1. Waiting \in [step : {"polling", "stopped"} \cup Busy, current : Nat, last : Nat]
    BY DEF Waiting
  <2>2. offset \in 0..Len(taps)
    BY <1>1 DEF Init
  <2> QED BY <1>1, <2>1, <2>2 DEF Init, Types, States
<1> QED BY <1>1, <1>2 DEF Init, BotInv, WorksInOrder, Waiting, Busy, TapsDecide,
        SwitchFollows, Applied, PausedAfter, FirstTapDecides, Actions

-----------------------------------------------------------------------------
(* The theorems                                                            *)

\* The tap that counts is the user's first one that was not answered with an
\* error, however often the thread starts over.
THEOREM FirstTapsDecide == Spec => []FirstTapDecides
BY BotInit, BotStays, PTL DEF Spec, BotInv

\* When every update is confirmed, the release is paused exactly when the last
\* tap on the panel said so.
THEOREM LastControlsWin == Spec => []LastControlWins
<1>1. ASSUME BotInv PROVE LastControlWins
  <2> SUFFICES ASSUME offset = Len(taps)
               PROVE  paused <=> \E i \in LastControl : taps[i].action = "pause"
    BY DEF LastControlWins
  <2>1. Applied = offset /\ Len(taps) \in Nat /\ DOMAIN taps = 1..Len(taps)
    BY <1>1, LenProperties DEF BotInv, Types, WorksInOrder, Applied, Busy
  <2>2. paused <=> PausedAfter(Len(taps))
    BY <1>1, <2>1 DEF BotInv, SwitchFollows
  <2> QED BY <2>1, <2>2 DEF PausedAfter, LastControl, Controls
<1> QED BY <1>1, BotInit, BotStays, PTL DEF Spec

\* An answer stands: redelivered updates, second taps and late ones change
\* nothing.
THEOREM AnswersStand == Spec => DecisionStands
<1>1. ASSUME BotInv, [Next]_vars, NEW b \in Batches, status[b] \in Decided
      PROVE  status'[b] = status[b]
  <2>1. CASE Handle
    <3>1. PICK c, action : status' = status \/ status' = Resolved(c, action)
      BY <2>1 DEF Handle
    <3> QED BY <1>1, <3>1 DEF Resolved, BotInv, Types, Decided, Actions
  <2>2. ASSUME NEW c \in Batches, Send(c) PROVE status'[b] = status[b]
    BY <1>1, <2>2 DEF Send, BotInv, Types, Decided, Actions
  <2>3. CASE UNCHANGED status
    BY <2>3
  <2> QED BY <1>1, <2>1, <2>2, <2>3 DEF Next, PassExpiry, Tap, Fetch, HandleFails, Answer, StartOver,
          SaveOffset, Die, Restart, vars
<1>2. BotInv /\ [Next]_vars =>
        [\A b \in Batches : status[b] \in Decided => status'[b] = status[b]]_vars
  BY <1>1
<1> QED BY <1>2, BotInit, BotStays, PTL DEF Spec, DecisionStands
=============================================================================
