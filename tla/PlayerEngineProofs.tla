------------------------- MODULE PlayerEngineProofs -------------------------
(***************************************************************************)
(* Theorems of PlayerEngine, for every set of songs and every number of    *)
(* calls in flight.                                                        *)
(***************************************************************************)
EXTENDS PlayerEngine, TLAPS

(* The inductive invariant, in parts. *)

\* One answer at a time is waiting to be consumed, and at most one play call is not
\* superseded: no other is parked where a superseded call returns at once.
Calls ==
  /\ \A s, t \in Slots :
       tasks[s].result # "pending" /\ tasks[t].result # "pending" => s = t
  /\ \A s, t \in Fresh : s = t
  /\ \A s \in Slots : tasks[s].step \in Harmless => tasks[s].fresh

\* Every play call has a song, and the engine has one from the first loading on.
SongsKnown ==
  /\ \A s \in Slots : tasks[s].step \in PlaySteps => tasks[s].song \in Songs
  /\ status \in Loading => currentSong \in Songs
  /\ \A s \in Slots : tasks[s].step \in PlaySteps \ {"pause"} => currentSong \in Songs

\* What the AVPlayer holds: a URL when it is past 'idle', and while the latest call
\* is driving it no URL but that call's.
PlayerHolds ==
  /\ avState \notin {"idle", "error"} => avSong # NoSong
  /\ \A s \in Slots : tasks[s].step = "prepare" /\ tasks[s].result = "ok" => avSong # NoSong
  /\ \A s \in Fresh :
       tasks[s].step \in {"init", "prepare", "start"} => avSong \in {NoSong, tasks[s].song}

\* When the latest call learns that its song has started, loading is over.
StartEndsLoading ==
  \A s \in Fresh : tasks[s].step = "start" /\ tasks[s].result = "ok" => status \notin Loading

Failed == avState = "error" \/ "stateChange" \in avEvents
Pausing == \E s \in Slots : tasks[s].step = "pause"

\* What the status says of the AVPlayer while events and calls are in flight.
Told ==
  /\ "error" \in avEvents => Failed
  /\ \A s \in Slots : tasks[s].step = "pause" /\ tasks[s].result # "pending"
                        => avState # "playing" \/ Failed
  /\ status \in Loading => avState # "playing" \/ Failed
  /\ status = "PLAYING" => avState = "playing" \/ Pausing
  /\ status = "PAUSED" => avState = "paused"
  /\ status = "ERROR" => errorSkip \/ Failed \/ Pausing

IInv ==
  /\ TypeOK /\ Calls /\ SongsKnown /\ PlayerHolds /\ StartEndsLoading
  /\ LoadingIsAttended /\ Told

-----------------------------------------------------------------------------
(* Typing *)

LEMMA NoTaskType == NoTask \in Task
BY DEF NoTask, Task

LEMMA AtType ==
  ASSUME NEW step \in PlaySteps \cup OtherSteps, NEW song \in Songs \cup {NoSong},
         NEW fresh \in BOOLEAN
  PROVE  At(step, song, fresh) \in Task
BY DEF At, Task

LEMMA SupersededType ==
  ASSUME TypeOK
  PROVE  Superseded \in [Slots -> Task]
<1>1. \A s \in Slots : tasks[s] \in Task
  BY DEF TypeOK
<1>2. \A s \in Slots : [tasks[s] EXCEPT !.fresh = FALSE] \in Task
  BY <1>1 DEF Task
<1>3. QED
  BY <1>1, <1>2, NoTaskType DEF Superseded

LEMMA FinishType ==
  ASSUME TypeOK, NEW s \in Slots, Finish(s)
  PROVE  tasks' \in [Slots -> Task]
BY NoTaskType DEF TypeOK, Finish

LEMMA GotoType ==
  ASSUME TypeOK, NEW s \in Slots, NEW step \in PlaySteps \cup OtherSteps, Goto(s, step)
  PROVE  tasks' \in [Slots -> Task]
<1>1. tasks[s] \in Task
  BY DEF TypeOK
<1>2. [tasks[s] EXCEPT !.step = step, !.result = "pending"] \in Task
  BY <1>1 DEF Task
<1>3. tasks' = [tasks EXCEPT ![s] = [tasks[s] EXCEPT !.step = step, !.result = "pending"]]
  BY DEF Goto, TypeOK
<1>4. QED
  BY <1>2, <1>3 DEF TypeOK

LEMMA AnswerType ==
  ASSUME TypeOK, avQueue # <<>>, NEW r \in {"ok", "fail"}, Answer(r)
  PROVE  tasks' \in [Slots -> Task] /\ Head(avQueue) \in Slots /\ Tail(avQueue) \in Seq(Slots)
<1>1. Head(avQueue) \in Slots /\ Tail(avQueue) \in Seq(Slots)
  BY DEF TypeOK
<1>2. tasks[Head(avQueue)] \in Task
  BY <1>1 DEF TypeOK
<1>3. [tasks[Head(avQueue)] EXCEPT !.result = r] \in Task
  BY <1>2 DEF Task
<1>4. QED
  BY <1>1, <1>3 DEF Answer, TypeOK

LEMMA PlayNewType ==
  ASSUME TypeOK, NEW song \in Songs, PlayNew(song)
  PROVE  /\ tasks' \in [Slots -> Task] /\ avQueue' \in Seq(Slots)
         /\ retryNum' \in 0 .. 2 /\ errorSkip' = FALSE
         /\ UNCHANGED <<status, currentSong, loadingTimer>>
<1>1. At("pause", song, TRUE) \in Task
  BY AtType DEF PlaySteps
<1>2. Superseded \in [Slots -> Task]
  BY SupersededType
<1>3. PICK s \in Slots :
        /\ tasks' = [Superseded EXCEPT ![s] = At("pause", song, TRUE)]
        /\ avQueue' = Append(avQueue, s)
        /\ retryNum' = 0
        /\ errorSkip' = FALSE
        /\ UNCHANGED <<status, currentSong, loadingTimer>>
  BY DEF PlayNew
<1>4. tasks' \in [Slots -> Task]
  BY <1>1, <1>2, <1>3
<1>5. avQueue' \in Seq(Slots)
  BY <1>3 DEF TypeOK
<1>6. retryNum' \in 0 .. 2
  BY <1>3
<1>7. QED
  BY <1>3, <1>4, <1>5, <1>6

LEMMA PlayAgainType ==
  ASSUME TypeOK, PlayAgain, retryNum < 2
  PROVE  /\ tasks' \in [Slots -> Task] /\ retryNum' \in 0 .. 2 /\ errorSkip' = FALSE
         /\ status' = "LOADING" /\ loadingTimer' = TRUE
         /\ UNCHANGED <<currentSong, avQueue>>
<1>1. At("resolve", currentSong, TRUE) \in Task
  BY AtType DEF PlaySteps, TypeOK
<1>2. retryNum + 1 \in 0 .. 2
  BY DEF TypeOK
<1>3. QED
  BY <1>1, <1>2, SupersededType DEF PlayAgain, ShowLoading, TypeOK

LEMMA NextInQueueType ==
  ASSUME TypeOK, NEW skip \in BOOLEAN, NextInQueue(skip)
  PROVE  /\ tasks' \in [Slots -> Task] /\ avQueue' \in Seq(Slots)
         /\ retryNum' \in 0 .. 2 /\ errorSkip' \in BOOLEAN /\ status' \in Statuses
         /\ UNCHANGED <<currentSong, loadingTimer>>
<1>1. ASSUME NEW song \in Songs, PlayNew(song)
      PROVE  /\ tasks' \in [Slots -> Task] /\ avQueue' \in Seq(Slots)
             /\ retryNum' \in 0 .. 2 /\ errorSkip' = FALSE /\ status' = status
             /\ UNCHANGED <<currentSong, loadingTimer>>
  BY <1>1, PlayNewType
<1>2. CASE \E song \in Songs : PlayNew(song)
  BY <1>1, <1>2 DEF TypeOK
<1>3. CASE ~\E song \in Songs : PlayNew(song)
  BY <1>3 DEF NextInQueue, TypeOK, Statuses
<1>4. QED
  BY <1>2, <1>3

LEMMA BackgroundType ==
  ASSUME TypeOK, NEW s \in Slots, ResetInBackground(s)
  PROVE  tasks' \in [Slots -> Task] /\ avQueue' \in Seq(Slots) /\ status' \in {"IDLE", "ERROR"}
<1>1. "background" \in PlaySteps \cup OtherSteps
  BY DEF OtherSteps
<1>2. QED
  BY <1>1, FinishType, GotoType DEF ResetInBackground, Await, TypeOK

LEMMA GiveUpType ==
  ASSUME TypeOK, NEW s \in Slots, GiveUp(s)
  PROVE  /\ tasks' \in [Slots -> Task] /\ avQueue' \in Seq(Slots) /\ status' \in {"IDLE", "ERROR"}
         /\ loadingTimer' = FALSE /\ errorSkip' = TRUE /\ UNCHANGED <<currentSong, retryNum>>
BY BackgroundType DEF GiveUp

-----------------------------------------------------------------------------
LEMMA TypeStep == TypeOK /\ [Next]_vars => TypeOK'
<1> SUFFICES ASSUME TypeOK, [Next]_vars PROVE TypeOK'
  OBVIOUS
<1> USE DEF engine, av
<1>1. CASE UNCHANGED vars
  BY <1>1 DEF vars, TypeOK
<1>2. ASSUME NEW s \in Slots, Continue(s) PROVE TypeOK'
  <2>0. tasks[s] \in Task /\ tasks[s].song \in Songs \cup {NoSong}
    BY DEF TypeOK, Task
  <2>1. CASE AfterPause(s)
    <3>1. tasks' \in [Slots -> Task]
      BY <2>1, FinishType, GotoType DEF AfterPause, PlaySteps
    <3>2. QED
      BY <2>0, <2>1, <3>1 DEF AfterPause, ShowLoading, TypeOK, Statuses
  <2>2. CASE Resolved(s)
    <3>1. tasks' \in [Slots -> Task]
      BY <2>2, GotoType DEF Resolved, Await, PlaySteps
    <3>2. avQueue' \in Seq(Slots) /\ avSong' \in Songs \cup {NoSong}
      BY <2>0, <2>2 DEF Resolved, Await, TypeOK
    <3>3. UNCHANGED <<engine, avState, avEvents>>
      BY <2>2 DEF Resolved
    <3>4. QED
      BY <3>1, <3>2, <3>3 DEF TypeOK
  <2>3. CASE Unresolved(s)
    <3>1. CASE Goto(s, "delay") /\ UNCHANGED <<engine, av>>
      BY <3>1, GotoType DEF PlaySteps, TypeOK
    <3>2. CASE GiveUp(s) /\ UNCHANGED <<avState, avSong, avEvents>>
      BY <3>2, GiveUpType DEF TypeOK, Statuses
    <3>3. QED
      BY <2>3, <3>1, <3>2 DEF Unresolved
  <2>4. CASE AfterDelay(s)
    BY <2>4, GotoType DEF AfterDelay, PlaySteps, TypeOK
  <2>5. CASE NotStarted(s)
    BY <2>5, FinishType DEF NotStarted, TypeOK, Statuses
  <2>6. CASE Thrown(s)
    <3>1. CASE Expired(s)
      BY <3>1, FinishType DEF Expired, TypeOK
    <3>2. CASE GiveUp(s) /\ UNCHANGED <<avState, avSong, avEvents>>
      BY <3>2, GiveUpType DEF TypeOK, Statuses
    <3>3. QED
      BY <2>6, <3>1, <3>2 DEF Thrown
  <2>7. CASE AfterReset(s)
    <3>1. CASE Goto(s, "init") /\ avSong' = tasks[s].song
                 /\ UNCHANGED <<engine, avState, avQueue, avEvents>>
      BY <2>0, <3>1, GotoType DEF PlaySteps, TypeOK
    <3>2. QED
      BY <2>5, <2>7, <3>1 DEF AfterReset
  <2>8. CASE PollInitialized(s)
    <3>1. CASE status' = "BUFFERING" /\ Await(s, "prepare")
                 /\ UNCHANGED <<currentSong, retryNum, loadingTimer, errorSkip, avState, avSong, avEvents>>
      BY <3>1, GotoType DEF Await, PlaySteps, TypeOK, Statuses
    <3>2. QED
      BY <2>5, <2>8, <3>1 DEF PollInitialized
  <2>9. CASE InitializeTimeout(s)
    BY <2>5, <2>9 DEF InitializeTimeout
  <2>10. CASE AfterPrepare(s)
    <3>1. CASE Await(s, "start") /\ UNCHANGED <<engine, avState, avSong, avEvents>>
      BY <3>1, GotoType DEF Await, PlaySteps, TypeOK
    <3>2. QED
      BY <2>5, <2>6, <2>10, <3>1 DEF AfterPrepare
  <2>11. CASE AfterStart(s)
    <3>1. CASE loadingTimer' = FALSE /\ Finish(s)
                 /\ UNCHANGED <<status, currentSong, retryNum, errorSkip, av>>
      BY <3>1, FinishType DEF TypeOK
    <3>2. QED
      BY <2>5, <2>6, <2>11, <3>1 DEF AfterStart
  <2>12. CASE AfterToggle(s)
    BY <2>12, FinishType DEF AfterToggle, Expired, TypeOK
  <2>13. CASE AfterBackgroundReset(s)
    BY <2>13, FinishType DEF AfterBackgroundReset, TypeOK, Statuses
  <2>14. CASE AfterSeek(s)
    <3>1. CASE Await(s, "seekPlay") /\ UNCHANGED <<engine, avState, avSong, avEvents>>
      BY <3>1, GotoType DEF Await, OtherSteps, TypeOK
    <3>2. CASE Expired(s)
      BY <3>2, FinishType DEF Expired, TypeOK
    <3>3. QED
      BY <2>14, <3>1, <3>2 DEF AfterSeek
  <2>15. QED
    BY <1>2, <2>1, <2>2, <2>3, <2>4, <2>7, <2>8, <2>9, <2>10, <2>11, <2>12, <2>13, <2>14 DEF Continue
<1>3. CASE LoadingTimeout
  <2>1. CASE loadingTimer' = FALSE
               /\ UNCHANGED <<status, currentSong, retryNum, errorSkip, tasks, avQueue>>
    BY <1>3, <2>1 DEF LoadingTimeout, TypeOK
  <2>2. CASE PlayAgain /\ retryNum < 2
    BY <1>3, <2>2, PlayAgainType DEF LoadingTimeout, TypeOK, Statuses
  <2>3. ASSUME NEW s \in Slots, GiveUp(s) PROVE TypeOK'
    BY <1>3, <2>3, GiveUpType DEF LoadingTimeout, TypeOK, Statuses
  <2>4. QED
    BY <1>3, <2>1, <2>2, <2>3 DEF LoadingTimeout
<1>4. CASE ErrorSkipTimeout
  BY <1>4, NextInQueueType DEF ErrorSkipTimeout, TypeOK
<1>5. CASE AvSucceeds
  BY <1>5, AnswerType DEF AvSucceeds, Due, TypeOK, AvStates, Statuses
<1>6. CASE AvRejects
  BY <1>6, AnswerType DEF AvRejects, Due, TypeOK
<1>7. CASE AvInitialized
  BY <1>7 DEF AvInitialized, TypeOK, AvStates
<1>8. CASE OnStateError
  <2>1. CASE PlayAgain /\ retryNum < 1
    <3>1. retryNum < 2
      BY <2>1 DEF TypeOK
    <3>2. QED
      BY <1>8, <2>1, <3>1, PlayAgainType DEF OnStateError, TypeOK, AvStates, Statuses
  <2>2. CASE ~(PlayAgain /\ retryNum < 1)
    BY <1>8, <2>2 DEF OnStateError, TypeOK, AvStates, Statuses
  <2>3. QED
    BY <2>1, <2>2
<1>9. CASE OnError
  <2>1. CASE PlayAgain /\ retryNum < 2
    BY <1>9, <2>1, PlayAgainType DEF OnError, TypeOK, Statuses
  <2>2. CASE ~(PlayAgain /\ retryNum < 2)
    BY <1>9, <2>2 DEF OnError, TypeOK, Statuses
  <2>3. QED
    BY <2>1, <2>2
<1>10. CASE AvFails
  BY <1>10 DEF AvFails, TypeOK
<1>11. CASE OnCompleted
  BY <1>11, NextInQueueType DEF OnCompleted, TypeOK, AvStates
<1>12. CASE UserPlays
  BY <1>12, NextInQueueType DEF UserPlays, TypeOK
<1>0. ASSUME NEW s \in Slots, NEW step \in OtherSteps, NEW earlier \in [Slots -> Task],
             tasks' = [earlier EXCEPT ![s] = At(step, NoSong, FALSE)]
      PROVE  tasks' \in [Slots -> Task]
  BY <1>0, AtType
<1>13. CASE TogglePlay
  <2>2. CASE status \in {"PLAYING", "PAUSED"} /\ UNCHANGED engine
    <3>1. PICK s \in Slots, step \in OtherSteps :
            tasks' = [tasks EXCEPT ![s] = At(step, NoSong, FALSE)] /\ avQueue' = Append(avQueue, s)
      BY <1>13, <2>2 DEF TogglePlay, OtherSteps, Loading
    <3>2. tasks' \in [Slots -> Task]
      BY <1>0, <3>1 DEF TypeOK
    <3>3. UNCHANGED <<avState, avSong, avEvents>>
      BY <1>13 DEF TogglePlay
    <3>4. avQueue' \in Seq(Slots)
      BY <3>1 DEF TypeOK
    <3>5. QED
      BY <2>2, <3>2, <3>3, <3>4 DEF TypeOK
  <2>3. CASE status \in Loading
    <3>1. Superseded \in [Slots -> Task]
      BY SupersededType
    <3>2. /\ loadingTimer' = FALSE
          /\ UNCHANGED <<currentSong, retryNum, errorSkip, avState, avSong, avEvents>>
      BY <1>13, <2>3 DEF TogglePlay, Loading
    <3>3. CASE status' = "IDLE" /\ tasks' = Superseded /\ UNCHANGED avQueue
      BY <3>1, <3>2, <3>3 DEF TypeOK, Statuses
    <3>4. ASSUME NEW s \in Slots, UNCHANGED status,
                 tasks' = [Superseded EXCEPT ![s] = At("cancel", NoSong, FALSE)],
                 avQueue' = Append(avQueue, s)
          PROVE  TypeOK'
      <4>1. tasks' \in [Slots -> Task]
        BY <1>0, <3>1, <3>4 DEF OtherSteps
      <4>2. avQueue' \in Seq(Slots)
        BY <3>4 DEF TypeOK
      <4>3. QED
        BY <3>2, <3>4, <4>1, <4>2 DEF TypeOK
    <3>5. QED
      BY <1>13, <2>3, <3>3, <3>4 DEF TogglePlay, Loading
  <2>4. CASE status \in {"ERROR", "IDLE"} /\ currentSong # NoSong /\ PlayNew(currentSong)
    <3>1. currentSong \in Songs
      BY <2>4 DEF TypeOK
    <3>2. UNCHANGED <<avState, avSong, avEvents>>
      BY <1>13 DEF TogglePlay
    <3>3. /\ tasks' \in [Slots -> Task] /\ avQueue' \in Seq(Slots)
          /\ retryNum' \in 0 .. 2 /\ errorSkip' = FALSE
          /\ UNCHANGED <<status, currentSong, loadingTimer>>
      BY <2>4, <3>1, PlayNewType
    <3>4. QED
      BY <3>2, <3>3 DEF TypeOK
  <2>5. QED
    BY <1>13, <2>2, <2>3, <2>4 DEF TogglePlay
<1>14. CASE SeekTo
  <2>1. PICK s \in Slots, step \in OtherSteps :
          tasks' = [tasks EXCEPT ![s] = At(step, NoSong, FALSE)] /\ avQueue' = Append(avQueue, s)
    BY <1>14 DEF SeekTo, OtherSteps
  <2>2. tasks' \in [Slots -> Task]
    BY <1>0, <2>1 DEF TypeOK
  <2>3. avQueue' \in Seq(Slots)
    BY <2>1 DEF TypeOK
  <2>4. QED
    BY <1>14, <2>2, <2>3 DEF SeekTo, TypeOK
<1>15. QED
  BY <1>1, <1>2, <1>3, <1>4, <1>5, <1>6, <1>7, <1>8, <1>9, <1>10, <1>11, <1>12, <1>13, <1>14
     DEF Next, Timers, Device
-----------------------------------------------------------------------------
(* What the pieces of the actions do to the calls in flight *)

LEMMA FinishEffect ==
  ASSUME TypeOK, NEW s \in Slots, Finish(s)
  PROVE  /\ tasks'[s] = NoTask
         /\ \A t \in Slots \ {s} : tasks'[t] = tasks[t]
BY DEF TypeOK, Finish

LEMMA GotoEffect ==
  ASSUME TypeOK, NEW s \in Slots, NEW step, Goto(s, step)
  PROVE  /\ tasks'[s].step = step /\ tasks'[s].result = "pending"
         /\ tasks'[s].song = tasks[s].song /\ tasks'[s].fresh = tasks[s].fresh
         /\ \A t \in Slots \ {s} : tasks'[t] = tasks[t]
<1>1. tasks[s] \in Task
  BY DEF TypeOK
<1>2. tasks' = [tasks EXCEPT ![s] = [tasks[s] EXCEPT !.step = step, !.result = "pending"]]
  BY DEF Goto, TypeOK
<1>3. tasks'[s] = [tasks[s] EXCEPT !.step = step, !.result = "pending"]
  BY <1>2 DEF TypeOK
<1>4. \A t \in Slots \ {s} : tasks'[t] = tasks[t]
  BY <1>2 DEF TypeOK
<1>5. QED
  BY <1>1, <1>3, <1>4 DEF Task

\* The command of one call is answered while no other answer is waiting.
LEMMA AnswerEffect ==
  ASSUME TypeOK, Due, NEW r \in {"ok", "fail"}, Answer(r)
  PROVE  LET h == Head(avQueue) IN
         /\ h \in Slots /\ tasks'[h].result = r
         /\ \A t \in Slots : /\ tasks'[t].step = tasks[t].step
                             /\ tasks'[t].song = tasks[t].song
                             /\ tasks'[t].fresh = tasks[t].fresh
         /\ \A t \in Slots \ {h} : tasks'[t].result = "pending"
<1> DEFINE h == Head(avQueue)
<1>1. h \in Slots
  BY AnswerType DEF Due
<1>2. tasks[h] \in Task
  BY <1>1 DEF TypeOK
<1>3. HIDE DEF h
<1>4. tasks' = [tasks EXCEPT ![h] = [tasks[h] EXCEPT !.result = r]]
  BY <1>1 DEF Answer, TypeOK, h
<1>5. tasks'[h] = [tasks[h] EXCEPT !.result = r]
  BY <1>1, <1>4 DEF TypeOK
<1>6. \A t \in Slots \ {h} : tasks'[t] = tasks[t]
  BY <1>4 DEF TypeOK
<1>7. /\ tasks'[h].step = tasks[h].step /\ tasks'[h].song = tasks[h].song
      /\ tasks'[h].fresh = tasks[h].fresh /\ tasks'[h].result = r
  BY <1>2, <1>5 DEF Task
<1>8. QED
  BY <1>1, <1>6, <1>7 DEF Due, h

\* What an increment of playGeneration leaves of a call.
Stale(t) ==
  \/ tasks[t].step \in Harmless /\ tasks'[t] = NoTask
  \/ /\ tasks[t].step \notin Harmless /\ tasks'[t].step = tasks[t].step
     /\ tasks'[t].song = tasks[t].song /\ tasks'[t].result = tasks[t].result
     /\ tasks'[t].fresh = FALSE

LEMMA SupersededEffect ==
  ASSUME TypeOK, tasks' = Superseded
  PROVE  \A t \in Slots : Stale(t)
<1> SUFFICES ASSUME NEW t \in Slots PROVE Stale(t)
  OBVIOUS
<1>1. tasks[t] \in Task
  BY DEF TypeOK
<1>2. tasks'[t] = IF tasks[t].step \in Harmless THEN NoTask ELSE [tasks[t] EXCEPT !.fresh = FALSE]
  BY DEF Superseded
<1>3. QED
  BY <1>1, <1>2 DEF Stale, Task

LEMMA NewCallEffect ==
  ASSUME TypeOK, NEW s \in Slots, NEW x \in Task, tasks' = [Superseded EXCEPT ![s] = x]
  PROVE  tasks'[s] = x /\ \A t \in Slots \ {s} : Stale(t)
<1>1. tasks'[s] = x
  BY DEF Superseded
<1>2. ASSUME NEW t \in Slots \ {s} PROVE Stale(t)
  <2>1. tasks[t] \in Task
    BY DEF TypeOK
  <2>2. tasks'[t] = IF tasks[t].step \in Harmless THEN NoTask ELSE [tasks[t] EXCEPT !.fresh = FALSE]
    BY DEF Superseded
  <2>3. QED
    BY <2>1, <2>2 DEF Stale, Task
<1>3. QED
  BY <1>1, <1>2

-----------------------------------------------------------------------------
(* The parts of the invariant, by what a step does to the calls in flight: every  *)
(* call but one (or every call) is left with no more than it had.                 *)

Less(t) ==
  \/ tasks'[t] = NoTask
  \/ /\ tasks'[t].step = tasks[t].step /\ tasks'[t].song = tasks[t].song
     /\ tasks'[t].result = tasks[t].result
     /\ tasks'[t].fresh => tasks[t].fresh
     /\ tasks'[t].step \in Harmless => tasks'[t].fresh

LEMMA StaleIsLess ==
  ASSUME NEW t \in Slots, Stale(t)
  PROVE  Less(t) /\ ~tasks'[t].fresh
BY DEF Stale, Less, NoTask

LEMMA SameIsLess ==
  ASSUME Calls, NEW t \in Slots, tasks'[t] = tasks[t]
  PROVE  Less(t)
BY DEF Calls, Less

LEMMA CallsOne ==
  ASSUME Calls, NEW s \in Slots, \A t \in Slots \ {s} : Less(t),
         tasks'[s].result = "pending",
         tasks'[s].step \in Harmless => tasks'[s].fresh,
         \/ s \in Fresh
         \/ ~(tasks'[s].step \in PlaySteps /\ tasks'[s].fresh)
         \/ \A t \in Slots \ {s} : ~tasks'[t].fresh
  PROVE  Calls'
<1>1. \A t \in Slots \ {s} : tasks'[t].result # "pending" => tasks[t].result # "pending"
  BY DEF Less, NoTask
<1>2. \A t \in Slots \ {s} : t \in Fresh' => t \in Fresh
  BY DEF Less, NoTask, Fresh
<1>3. \A t \in Slots \ {s} : tasks'[t].step \in Harmless => tasks'[t].fresh
  BY DEF Less, NoTask, Harmless
<1>4. \A t, u \in Fresh' : t = u
  <2>1. SUFFICES ASSUME NEW t \in Fresh', s \in Fresh', t # s PROVE FALSE
    BY <1>2 DEF Calls, Fresh
  <2>2. QED
    BY <1>2, <2>1 DEF Calls, Fresh
<1>5. QED
  BY <1>1, <1>3, <1>4 DEF Calls

LEMMA CallsLess ==
  ASSUME Calls, \A t \in Slots : Less(t)
  PROVE  Calls'
<1>1. \A t \in Slots : tasks'[t].result # "pending" => tasks[t].result # "pending"
  BY DEF Less, NoTask
<1>2. \A t \in Slots : t \in Fresh' => t \in Fresh
  BY DEF Less, NoTask, Fresh
<1>3. \A t \in Slots : tasks'[t].step \in Harmless => tasks'[t].fresh
  BY DEF Less, NoTask, Harmless
<1>4. QED
  BY <1>1, <1>2, <1>3 DEF Calls, Fresh

LEMMA SongsOne ==
  ASSUME SongsKnown, NEW s \in Slots, \A t \in Slots \ {s} : Less(t),
         tasks'[s].step \in PlaySteps => tasks'[s].song \in Songs,
         tasks'[s].step \in PlaySteps \ {"pause"} => currentSong' \in Songs,
         status' \in Loading => currentSong' \in Songs,
         currentSong' = currentSong \/ currentSong' \in Songs
  PROVE  SongsKnown'
<1>1. \A t \in Slots \ {s} : tasks'[t].step \in PlaySteps
        => tasks[t].step = tasks'[t].step /\ tasks[t].song = tasks'[t].song
  BY DEF Less, NoTask, PlaySteps
<1>2. QED
  BY <1>1 DEF SongsKnown

LEMMA SongsLess ==
  ASSUME SongsKnown, \A t \in Slots : Less(t),
         currentSong' = currentSong, status' \in Loading => status \in Loading
  PROVE  SongsKnown'
<1>1. \A t \in Slots : tasks'[t].step \in PlaySteps
        => tasks[t].step = tasks'[t].step /\ tasks[t].song = tasks'[t].song
  BY DEF Less, NoTask, PlaySteps
<1>2. QED
  BY <1>1 DEF SongsKnown

LEMMA HoldsOne ==
  ASSUME PlayerHolds, Calls, NEW s \in Slots, \A t \in Slots \ {s} : Less(t),
         tasks'[s].result = "pending",
         \/ avSong' = avSong
         \/ s \in Fresh /\ avSong' # NoSong,
         avState' \notin {"idle", "error"} => avState \notin {"idle", "error"},
         tasks'[s].step \in {"init", "prepare", "start"} /\ tasks'[s].fresh
           => \/ avSong' = tasks'[s].song
              \/ /\ s \in Fresh /\ tasks[s].step \in {"init", "prepare", "start"}
                 /\ tasks'[s].song = tasks[s].song /\ avSong' = avSong
  PROVE  PlayerHolds'
<1>1. \A t \in Slots \ {s} : tasks'[t].step # "none" =>
        /\ tasks[t].step = tasks'[t].step /\ tasks[t].song = tasks'[t].song
        /\ tasks[t].result = tasks'[t].result /\ (tasks'[t].fresh => tasks[t].fresh)
  BY DEF Less, NoTask
<1>2. avSong # NoSong => avSong' # NoSong
  OBVIOUS
<1>3. ASSUME NEW t \in Fresh', tasks'[t].step \in {"init", "prepare", "start"}
      PROVE  avSong' \in {NoSong, tasks'[t].song}
  <2>1. t \in Slots /\ tasks'[t].fresh
    BY DEF Fresh
  <2>2. CASE t = s
    BY <1>3, <2>1, <2>2 DEF PlayerHolds
  <2>3. CASE t # s
    <3>1. t \in Fresh
      BY <1>1, <1>3, <2>1, <2>3 DEF Fresh, PlaySteps
    <3>2. s \notin Fresh
      BY <2>3, <3>1 DEF Calls
    <3>3. QED
      BY <1>1, <1>3, <2>1, <2>3, <3>1, <3>2 DEF PlayerHolds
  <2>4. QED
    BY <2>2, <2>3
<1>4. \A t \in Slots : tasks'[t].step = "prepare" /\ tasks'[t].result = "ok" => avSong' # NoSong
  BY <1>1, <1>2 DEF PlayerHolds
<1>5. QED
  BY <1>2, <1>3, <1>4 DEF PlayerHolds

LEMMA HoldsLess ==
  ASSUME PlayerHolds, \A t \in Slots : Less(t),
         avSong' = avSong,
         avState' \notin {"idle", "error"} => avState \notin {"idle", "error"}
  PROVE  PlayerHolds'
<1>1. \A t \in Slots : tasks'[t].step # "none" =>
        /\ tasks[t].step = tasks'[t].step /\ tasks[t].song = tasks'[t].song
        /\ tasks[t].result = tasks'[t].result /\ (tasks'[t].fresh => tasks[t].fresh)
  BY DEF Less, NoTask
<1>2. ASSUME NEW t \in Fresh', tasks'[t].step \in {"init", "prepare", "start"}
      PROVE  avSong' \in {NoSong, tasks'[t].song}
  BY <1>1, <1>2 DEF PlayerHolds, Fresh
<1>3. QED
  BY <1>1, <1>2 DEF PlayerHolds

LEMMA StartOne ==
  ASSUME StartEndsLoading, NEW s \in Slots, \A t \in Slots \ {s} : Less(t),
         tasks'[s].result = "pending",
         \/ status' \in Loading => status \in Loading
         \/ \A t \in Slots \ {s} : ~(tasks[t].result = "ok" /\ t \in Fresh /\ tasks'[t].fresh)
  PROVE  StartEndsLoading'
<1>1. \A t \in Slots \ {s} : tasks'[t].step = "start" /\ tasks'[t].result = "ok" /\ t \in Fresh' =>
        tasks[t].step = "start" /\ tasks[t].result = "ok" /\ t \in Fresh /\ tasks'[t].fresh
  BY DEF Less, NoTask, Fresh
<1>2. QED
  BY <1>1 DEF StartEndsLoading, Fresh

LEMMA StartLess ==
  ASSUME StartEndsLoading, \A t \in Slots : Less(t),
         status' \in Loading => status \in Loading
  PROVE  StartEndsLoading'
<1>1. \A t \in Slots : tasks'[t].step = "start" /\ tasks'[t].result = "ok" /\ t \in Fresh' =>
        tasks[t].step = "start" /\ tasks[t].result = "ok" /\ t \in Fresh
  BY DEF Less, NoTask, Fresh
<1>2. QED
  BY <1>1 DEF StartEndsLoading, Fresh

-----------------------------------------------------------------------------
(* The steps of play and togglePlay that end a call. *)

LEMMA FinishLess ==
  ASSUME TypeOK, Calls, NEW s \in Slots, Finish(s)
  PROVE  \A t \in Slots : Less(t)
BY FinishEffect, SameIsLess DEF Less

\* A call that ends without touching the AVPlayer, and does not bring loading about.
LEMMA EndStep ==
  ASSUME IInv, NEW s \in Slots, Finish(s), UNCHANGED <<currentSong, av>>,
         status' \in Loading => status \in Loading
  PROVE  Calls' /\ SongsKnown' /\ PlayerHolds' /\ StartEndsLoading'
<1>1. \A t \in Slots : Less(t)
  BY FinishLess DEF IInv
<1>2. avSong' = avSong /\ avState' = avState /\ currentSong' = currentSong
  BY DEF av
<1>3. Calls' /\ SongsKnown'
  BY <1>1, <1>2, CallsLess, SongsLess DEF IInv
<1>4. PlayerHolds' /\ StartEndsLoading'
  BY <1>1, <1>2, HoldsLess, StartLess DEF IInv
<1>5. QED
  BY <1>3, <1>4

\* What Told says of the pauses is kept by a call that ends.
LEMMA EndPauses ==
  ASSUME IInv, NEW s \in Slots, Finish(s), UNCHANGED av
  PROVE  /\ "error" \in avEvents' => Failed'
         /\ Failed' = Failed /\ avState' = avState
         /\ \A t \in Slots : tasks'[t].step = "pause" /\ tasks'[t].result # "pending"
                               => avState' # "playing" \/ Failed'
         /\ tasks[s].step # "pause" /\ Pausing => Pausing'
<1>1. tasks'[s] = NoTask /\ \A t \in Slots \ {s} : tasks'[t] = tasks[t]
  BY FinishEffect DEF IInv
<1>2. avState' = avState /\ avEvents' = avEvents
  BY DEF av
<1>3. QED
  BY <1>1, <1>2 DEF IInv, Told, Failed, Pausing, NoTask

LEMMA NotStartedStep ==
  ASSUME IInv, NEW s \in Slots, NotStarted(s)
  PROVE  Calls' /\ SongsKnown' /\ PlayerHolds' /\ StartEndsLoading' /\ LoadingIsAttended' /\ Told'
<1>1. Finish(s) /\ UNCHANGED <<currentSong, av>> /\ status' = "ERROR" /\ errorSkip' = TRUE
  BY DEF NotStarted
<1>2. status' \notin Loading
  BY <1>1 DEF Loading
<1>3. Told' /\ LoadingIsAttended'
  BY <1>1, <1>2, EndPauses DEF Told, LoadingIsAttended
<1>4. QED
  BY <1>1, <1>2, <1>3, EndStep

\* A call that is not parked at a pause expires, superseded or of no consequence.
LEMMA ExpiredStep ==
  ASSUME IInv, NEW s \in Slots, Expired(s), s \notin Fresh,
         tasks[s].step \notin {"pause", "cancel", "background"}
  PROVE  Calls' /\ SongsKnown' /\ PlayerHolds' /\ StartEndsLoading' /\ LoadingIsAttended' /\ Told'
<1>1. /\ Finish(s) /\ UNCHANGED <<currentSong, av>>
      /\ status' = status /\ errorSkip' = errorSkip /\ loadingTimer' = loadingTimer
  BY DEF Expired, engine
<1>2. Told'
  BY <1>1, EndPauses DEF Told, IInv
<1>3. tasks'[s] = NoTask /\ \A t \in Slots \ {s} : tasks'[t] = tasks[t]
  BY <1>1, FinishEffect DEF IInv
<1>4. Fresh \subseteq Fresh'
  BY <1>3 DEF Fresh
<1>5. \A t \in Slots : tasks[t].step \in {"cancel", "background"} => tasks'[t].step = tasks[t].step
  BY <1>3
<1>6. LoadingIsAttended'
  BY <1>1, <1>4, <1>5 DEF LoadingIsAttended, IInv
<1>7. QED
  BY <1>1, <1>2, <1>6, EndStep

-----------------------------------------------------------------------------
(* The steps that park a call at another await. *)

\* Told, when neither the status nor the AVPlayer changes and no pause is answered.
LEMMA ToldKept ==
  ASSUME IInv, status' = status, errorSkip' = errorSkip, avState' = avState, avEvents' = avEvents,
         \A t \in Slots : tasks'[t].step = "pause" /\ tasks'[t].result # "pending"
                          => tasks[t].step = "pause" /\ tasks[t].result # "pending",
         Pausing => Pausing'
  PROVE  Told'
BY DEF IInv, Told, Failed

\* A call goes on from one await to the next; the AVPlayer may be given its URL.
LEMMA GotoStep ==
  ASSUME IInv, NEW s \in Slots, NEW step \in PlaySteps \cup OtherSteps, Goto(s, step),
         step \in PlaySteps \ {"pause"} =>
           s \in Fresh /\ (currentSong' \in Songs \/ tasks[s].step # "pause"),
         step # "pause",
         step \in {"init", "prepare", "start"} =>
           \/ avSong' = tasks[s].song
           \/ tasks[s].step \in {"init", "prepare", "start"} /\ avSong' = avSong,
         avSong' = avSong \/ (s \in Fresh /\ avSong' = tasks[s].song),
         avState' = avState,
         currentSong' = currentSong \/ currentSong' \in Songs,
         status' \in Loading =>
           \/ status \in Loading /\ currentSong' = currentSong
           \/ currentSong' \in Songs /\ (s \in Fresh \/ tasks[s].result = "ok")
  PROVE  Calls' /\ SongsKnown' /\ PlayerHolds' /\ StartEndsLoading'
<1>1. /\ tasks'[s].step = step /\ tasks'[s].result = "pending"
      /\ tasks'[s].song = tasks[s].song /\ tasks'[s].fresh = tasks[s].fresh
      /\ \A t \in Slots \ {s} : tasks'[t] = tasks[t]
  BY GotoEffect DEF IInv
<1>2. \A t \in Slots \ {s} : Less(t)
  BY <1>1, SameIsLess DEF IInv
<1>3. s \in Fresh => tasks[s].song \in Songs /\ tasks[s].song # NoSong
  BY EngineAssumption DEF IInv, SongsKnown, Fresh
<1>4. Calls'
  <2>1. tasks'[s].step \in Harmless => tasks'[s].fresh
    BY <1>1 DEF Harmless, PlaySteps, Fresh
  <2>2. s \in Fresh \/ ~(tasks'[s].step \in PlaySteps /\ tasks'[s].fresh)
    BY <1>1
  <2>3. QED
    BY <1>1, <1>2, <2>1, <2>2, CallsOne DEF IInv
<1>5. SongsKnown'
  <2>1. tasks'[s].step \in PlaySteps => tasks'[s].song \in Songs
    BY <1>1, <1>3
  <2>2. tasks'[s].step \in PlaySteps \ {"pause"} => currentSong' \in Songs
    BY <1>1 DEF IInv, SongsKnown, Fresh
  <2>3. status' \in Loading => currentSong' \in Songs
    BY DEF IInv, SongsKnown
  <2>4. QED
    BY <1>2, <2>1, <2>2, <2>3, SongsOne DEF IInv
<1>6. PlayerHolds'
  <2>1. avSong' = avSong \/ (s \in Fresh /\ avSong' # NoSong)
    BY <1>3
  <2>2. tasks'[s].step \in {"init", "prepare", "start"} /\ tasks'[s].fresh
           => \/ avSong' = tasks'[s].song
              \/ /\ s \in Fresh /\ tasks[s].step \in {"init", "prepare", "start"}
                 /\ tasks'[s].song = tasks[s].song /\ avSong' = avSong
    BY <1>1 DEF PlaySteps
  <2>3. QED
    BY <1>1, <1>2, <2>1, <2>2, HoldsOne DEF IInv
<1>7. StartEndsLoading'
  <2>1. \/ status' \in Loading => status \in Loading
        \/ \A t \in Slots \ {s} : ~(tasks[t].result = "ok" /\ t \in Fresh /\ tasks'[t].fresh)
    BY DEF IInv, Calls
  <2>2. QED
    BY <1>1, <1>2, <2>1, StartOne DEF IInv
<1>8. QED
  BY <1>4, <1>5, <1>6, <1>7

\* The latest call goes on, and neither the status nor the AVPlayer's state changes.
LEMMA OnwardStep ==
  ASSUME IInv, NEW s \in Fresh, NEW step \in PlaySteps \ {"pause"}, Goto(s, step),
         UNCHANGED <<engine, avState, avEvents>>,
         tasks[s].step # "pause",
         step \in {"init", "prepare", "start"} =>
           \/ avSong' = tasks[s].song
           \/ tasks[s].step \in {"init", "prepare", "start"} /\ avSong' = avSong,
         avSong' = avSong \/ avSong' = tasks[s].song
  PROVE  Calls' /\ SongsKnown' /\ PlayerHolds' /\ StartEndsLoading' /\ LoadingIsAttended' /\ Told'
<1>1. s \in Slots /\ tasks[s].fresh
  BY DEF Fresh
<1>2. /\ tasks'[s].step = step /\ tasks'[s].result = "pending"
      /\ tasks'[s].song = tasks[s].song /\ tasks'[s].fresh = tasks[s].fresh
      /\ \A t \in Slots \ {s} : tasks'[t] = tasks[t]
  BY <1>1, GotoEffect DEF IInv
<1>3. /\ status' = status /\ currentSong' = currentSong /\ errorSkip' = errorSkip
      /\ avState' = avState /\ avEvents' = avEvents
  BY DEF engine
<1>4. s \in Fresh'
  BY <1>1, <1>2 DEF Fresh
<1>5. Told'
  <2>1. Pausing => Pausing'
    BY <1>1, <1>2 DEF Pausing
  <2>2. QED
    BY <1>1, <1>2, <1>3, <2>1, ToldKept
<1>6. LoadingIsAttended'
  BY <1>4 DEF LoadingIsAttended
<1>7. Calls' /\ SongsKnown' /\ PlayerHolds' /\ StartEndsLoading'
  BY <1>1, <1>3, GotoStep
<1>8. QED
  BY <1>5, <1>6, <1>7

\* A call that gives up leaves a reset of the AVPlayer behind and the next song due.
LEMMA GiveUpStep ==
  ASSUME IInv, NEW s \in Slots, GiveUp(s), UNCHANGED <<avState, avSong, avEvents>>,
         tasks[s].step # "pause"
  PROVE  Calls' /\ SongsKnown' /\ PlayerHolds' /\ StartEndsLoading' /\ LoadingIsAttended' /\ Told'
<1>1. status' \in {"IDLE", "ERROR"} /\ errorSkip' = TRUE /\ currentSong' = currentSong
  BY DEF GiveUp, ResetInBackground
<1>2. status' \notin Loading
  BY <1>1 DEF Loading
<1>3. (Finish(s) /\ avQueue' = avQueue) \/ Goto(s, "background")
  BY DEF GiveUp, ResetInBackground, Await
<1>4. CASE Finish(s) /\ avQueue' = avQueue
  <2>1. UNCHANGED av
    BY <1>4 DEF av
  <2>2. Told'
    BY <1>1, <1>4, <2>1, EndPauses DEF Told, Loading
  <2>3. QED
    BY <1>1, <1>2, <1>4, <2>1, <2>2, EndStep DEF LoadingIsAttended
<1>5. CASE Goto(s, "background")
  <2>1. "background" \in PlaySteps \cup OtherSteps /\ "background" \notin PlaySteps
    BY DEF PlaySteps, OtherSteps
  <2>2. Calls' /\ SongsKnown' /\ PlayerHolds' /\ StartEndsLoading'
    BY <1>1, <1>2, <1>5, <2>1, GotoStep
  <2>3. /\ tasks'[s].step = "background"
        /\ \A t \in Slots \ {s} : tasks'[t] = tasks[t]
    BY <1>5, GotoEffect DEF IInv
  <2>4. Told'
    BY <1>1, <2>3 DEF IInv, Told, Failed, Loading
  <2>5. QED
    BY <1>2, <2>2, <2>4 DEF LoadingIsAttended
<1>6. QED
  BY <1>3, <1>4, <1>5

-----------------------------------------------------------------------------
(* The steps that supersede the calls in flight. *)

\* A song is asked for: by the user, by an expired error or at the end of a song.
LEMMA PlayNewStep ==
  ASSUME IInv, NEW song \in Songs, PlayNew(song), avSong' = avSong, avEvents' = avEvents,
         \/ avState' = avState
         \/ avState = "playing" /\ avState' = "completed"
  PROVE  Calls' /\ SongsKnown' /\ PlayerHolds' /\ StartEndsLoading' /\ LoadingIsAttended' /\ Told'
<1>1. PICK s \in Slots :
        /\ Free(s)
        /\ tasks' = [Superseded EXCEPT ![s] = At("pause", song, TRUE)]
        /\ status' = status /\ currentSong' = currentSong
  BY DEF PlayNew
<1>2. At("pause", song, TRUE) \in Task
  BY AtType DEF PlaySteps
<1>3. tasks'[s] = At("pause", song, TRUE) /\ \A t \in Slots \ {s} : Stale(t)
  BY <1>1, <1>2, NewCallEffect DEF IInv
<1>4. /\ tasks'[s].step = "pause" /\ tasks'[s].song = song
      /\ tasks'[s].fresh = TRUE /\ tasks'[s].result = "pending"
  BY <1>3 DEF At
<1>5. \A t \in Slots \ {s} : Less(t) /\ ~tasks'[t].fresh
  BY <1>3, StaleIsLess
<1>6. Calls'
  BY <1>4, <1>5, CallsOne DEF IInv
<1>7. SongsKnown'
  <2>1. status' \in Loading => currentSong' \in Songs
    BY <1>1 DEF IInv, SongsKnown
  <2>2. QED
    BY <1>1, <1>4, <1>5, <2>1, SongsOne DEF IInv
<1>8. PlayerHolds'
  BY <1>4, <1>5, HoldsOne DEF IInv
<1>9. StartEndsLoading'
  BY <1>1, <1>4, <1>5, StartOne DEF IInv
<1>10. LoadingIsAttended'
  BY <1>4 DEF LoadingIsAttended, Fresh, PlaySteps
<1>11. Told'
  <2>1. Pausing' /\ (avState' # "playing" \/ avState' = avState) /\ (Failed => Failed')
    BY <1>4 DEF Pausing, Failed
  <2>2. \A t \in Slots : tasks'[t].step = "pause" /\ tasks'[t].result # "pending"
                          => tasks[t].step = "pause" /\ tasks[t].result # "pending"
    BY <1>4, <1>5 DEF Less, NoTask
  <2>3. status = "PAUSED" => avState' = "paused"
    BY DEF IInv, Told
  <2>4. QED
    BY <1>1, <2>1, <2>2, <2>3 DEF IInv, Told, Failed
<1>12. QED
  BY <1>6, <1>7, <1>8, <1>9, <1>10, <1>11

\* The song is requested again after an error, or after 25 s of loading.
LEMMA PlayAgainStep ==
  ASSUME IInv, PlayAgain, currentSong \in Songs, avSong' = avSong,
         avState' \notin {"idle", "error"} => avState \notin {"idle", "error"},
         avState' # "playing" \/ Failed',
         "error" \in avEvents' => Failed'
  PROVE  Calls' /\ SongsKnown' /\ PlayerHolds' /\ StartEndsLoading' /\ LoadingIsAttended' /\ Told'
<1>1. PICK s \in Slots :
        /\ Free(s)
        /\ tasks' = [Superseded EXCEPT ![s] = At("resolve", currentSong, TRUE)]
        /\ status' = "LOADING" /\ currentSong' = currentSong /\ loadingTimer' = TRUE
  BY DEF PlayAgain, ShowLoading
<1>2. At("resolve", currentSong, TRUE) \in Task
  BY AtType DEF PlaySteps
<1>3. tasks'[s] = At("resolve", currentSong, TRUE) /\ \A t \in Slots \ {s} : Stale(t)
  BY <1>1, <1>2, NewCallEffect DEF IInv
<1>4. /\ tasks'[s].step = "resolve" /\ tasks'[s].song = currentSong
      /\ tasks'[s].fresh = TRUE /\ tasks'[s].result = "pending"
  BY <1>3 DEF At
<1>5. \A t \in Slots \ {s} : Less(t) /\ ~tasks'[t].fresh
  BY <1>3, StaleIsLess
<1>6. Calls'
  BY <1>4, <1>5, CallsOne DEF IInv
<1>7. SongsKnown'
  BY <1>1, <1>4, <1>5, SongsOne DEF IInv
<1>8. PlayerHolds'
  BY <1>4, <1>5, HoldsOne DEF IInv
<1>9. StartEndsLoading'
  BY <1>1, <1>4, <1>5, StartOne DEF IInv
<1>10. LoadingIsAttended'
  BY <1>1 DEF LoadingIsAttended
<1>11. Told'
  BY <1>1 DEF Told
<1>12. QED
  BY <1>6, <1>7, <1>8, <1>9, <1>10, <1>11

\* The user cancels loading while the AVPlayer is idle, or has it reset.
LEMMA CancelStep ==
  ASSUME IInv, status \in Loading, UNCHANGED <<currentSong, avState, avSong, avEvents>>,
         \/ status' = "IDLE" /\ tasks' = Superseded
         \/ /\ status' = status
            /\ \E s \in Slots :
                 Free(s) /\ tasks' = [Superseded EXCEPT ![s] = At("cancel", NoSong, FALSE)]
  PROVE  Calls' /\ SongsKnown' /\ PlayerHolds' /\ StartEndsLoading' /\ LoadingIsAttended' /\ Told'
<1>1. ASSUME \A t \in Slots : tasks'[t].step = "pause" => tasks[t].step = "pause"
                                                        /\ tasks[t].result = tasks'[t].result,
             status' \in {"IDLE", status}
      PROVE  Told'
  BY <1>1 DEF IInv, Told, Failed, Loading
<1>2. CASE status' = "IDLE" /\ tasks' = Superseded
  <2>1. \A t \in Slots : Less(t) /\ ~tasks'[t].fresh
    BY <1>2, SupersededEffect, StaleIsLess DEF IInv
  <2>2. status' \notin Loading
    BY <1>2 DEF Loading
  <2>3. Calls' /\ SongsKnown'
    BY <2>1, <2>2, CallsLess, SongsLess DEF IInv
  <2>4. PlayerHolds' /\ StartEndsLoading'
    BY <2>1, <2>2, HoldsLess, StartLess DEF IInv
  <2>5. Told'
    BY <1>1, <1>2, <2>1 DEF Less, NoTask
  <2>6. QED
    BY <2>2, <2>3, <2>4, <2>5 DEF LoadingIsAttended
<1>3. ASSUME status' = status, NEW s \in Slots,
             tasks' = [Superseded EXCEPT ![s] = At("cancel", NoSong, FALSE)]
      PROVE  Calls' /\ SongsKnown' /\ PlayerHolds' /\ StartEndsLoading' /\ LoadingIsAttended' /\ Told'
  <2>1. At("cancel", NoSong, FALSE) \in Task
    BY AtType DEF OtherSteps
  <2>2. tasks'[s] = At("cancel", NoSong, FALSE) /\ \A t \in Slots \ {s} : Stale(t)
    BY <1>3, <2>1, NewCallEffect DEF IInv
  <2>3. tasks'[s].step = "cancel" /\ tasks'[s].fresh = FALSE /\ tasks'[s].result = "pending"
    BY <2>2 DEF At
  <2>4. \A t \in Slots \ {s} : Less(t) /\ ~tasks'[t].fresh
    BY <2>2, StaleIsLess
  <2>5. tasks'[s].step \notin PlaySteps /\ tasks'[s].step \notin Harmless
    BY <2>3 DEF PlaySteps, Harmless
  <2>6. Calls'
    BY <2>3, <2>4, <2>5, CallsOne DEF IInv
  <2>7. SongsKnown'
    <3>1. status' \in Loading => currentSong' \in Songs
      BY <1>3 DEF IInv, SongsKnown
    <3>2. QED
      BY <2>4, <2>5, <3>1, SongsOne DEF IInv
  <2>8. PlayerHolds'
    BY <2>3, <2>4, HoldsOne DEF IInv
  <2>9. StartEndsLoading'
    BY <1>3, <2>3, <2>4, StartOne DEF IInv
  <2>10. LoadingIsAttended'
    BY <2>3 DEF LoadingIsAttended
  <2>11. Told'
    <3>1. \A t \in Slots : tasks'[t].step = "pause" => tasks[t].step = "pause"
                                                   /\ tasks[t].result = tasks'[t].result
      BY <2>3, <2>4 DEF Less, NoTask
    <3>2. status' \in {"IDLE", status}
      BY <1>3
    <3>3. QED
      BY <1>1, <3>1, <3>2
  <2>12. QED
    BY <2>6, <2>7, <2>8, <2>9, <2>10, <2>11
<1>4. QED
  BY <1>2, <1>3

-----------------------------------------------------------------------------
(* The steps of the AVPlayer. *)

\* Nothing happens to the calls in flight.
LEMMA QuietStep ==
  ASSUME IInv, tasks' = tasks, avSong' = avSong, currentSong' = currentSong,
         avState' \notin {"idle", "error"} => avSong # NoSong,
         status' \in Loading => status \in Loading
  PROVE  Calls' /\ SongsKnown' /\ PlayerHolds' /\ StartEndsLoading'
<1>1. Calls' /\ SongsKnown'
  BY DEF IInv, Calls, SongsKnown, Fresh
<1>2. PlayerHolds' /\ StartEndsLoading'
  BY DEF IInv, PlayerHolds, StartEndsLoading, Fresh
<1>3. QED
  BY <1>1, <1>2

\* The AVPlayer answers a command.
LEMMA AnswerStep ==
  ASSUME IInv, Due, NEW r \in {"ok", "fail"}, Answer(r), currentSong' = currentSong,
         errorSkip' = errorSkip, loadingTimer' = loadingTimer,
         status' \in Loading => status \in Loading,
         Command1 = "play" /\ r = "ok" => status' \notin Loading,
         avSong' \in {avSong, NoSong},
         avState' \notin {"idle", "error"} => avSong' # NoSong,
         Command1 = "prepare" /\ r = "ok" => avSong' # NoSong
  PROVE  /\ Calls' /\ SongsKnown' /\ PlayerHolds' /\ StartEndsLoading' /\ LoadingIsAttended'
         /\ Pausing' = Pausing
         /\ \A t \in Slots : tasks'[t].step = "pause" /\ tasks'[t].result # "pending"
                              => Command1 = "pause"
<1> DEFINE h == Head(avQueue)
<1>1. /\ h \in Slots /\ tasks'[h].result = r
      /\ \A t \in Slots : /\ tasks'[t].step = tasks[t].step
                          /\ tasks'[t].song = tasks[t].song
                          /\ tasks'[t].fresh = tasks[t].fresh
      /\ \A t \in Slots \ {h} : tasks'[t].result = "pending"
  BY AnswerEffect DEF IInv
<1>2. /\ tasks[h].step = "pause" => Command1 = "pause"
      /\ tasks[h].step = "prepare" => Command1 = "prepare"
      /\ tasks[h].step = "start" => Command1 = "play"
  BY DEF Command1, Command
<1> HIDE DEF h
<1>3. Fresh' = Fresh
  BY <1>1 DEF Fresh
<1>4. Calls'
  BY <1>1, <1>3 DEF IInv, Calls
<1>5. SongsKnown'
  BY <1>1 DEF IInv, SongsKnown
<1>6. PlayerHolds'
  <2>1. \A t \in Slots : tasks'[t].step = "prepare" /\ tasks'[t].result = "ok" => avSong' # NoSong
    BY <1>1, <1>2
  <2>2. \A t \in Fresh : tasks'[t].step \in {"init", "prepare", "start"}
                        => avSong' \in {NoSong, tasks'[t].song}
    BY <1>1 DEF IInv, PlayerHolds, Fresh
  <2>3. QED
    BY <1>3, <2>1, <2>2 DEF PlayerHolds
<1>7. StartEndsLoading'
  BY <1>1, <1>2, <1>3 DEF StartEndsLoading, Fresh
<1>8. LoadingIsAttended'
  BY <1>1, <1>3 DEF IInv, LoadingIsAttended
<1>9. Pausing' = Pausing
  BY <1>1 DEF Pausing
<1>10. \A t \in Slots : tasks'[t].step = "pause" /\ tasks'[t].result # "pending"
                        => Command1 = "pause"
  BY <1>1, <1>2
<1>11. QED
  BY <1>4, <1>5, <1>6, <1>7, <1>8, <1>9, <1>10

LEMMA AvSucceedsStep ==
  ASSUME IInv, AvSucceeds
  PROVE  Calls' /\ SongsKnown' /\ PlayerHolds' /\ StartEndsLoading' /\ LoadingIsAttended' /\ Told'
<1>1. /\ Due /\ Answer("ok") /\ avEvents = {} /\ avEvents' = {}
      /\ UNCHANGED <<currentSong, errorSkip, loadingTimer>>
  BY DEF AvSucceeds
<1>2. CASE Command1 = "pause" /\ avState = "playing" /\ avState' = "paused"
             /\ status' = "PAUSED" /\ avSong' = avSong
  <2>1. avSong # NoSong
    BY <1>2 DEF IInv, PlayerHolds
  <2>2. status' \notin Loading
    BY <1>2 DEF Loading
  <2>3. Told'
    BY <1>1, <1>2, <2>2 DEF Told
  <2>4. QED
    BY <1>1, <1>2, <2>1, <2>2, <2>3, AnswerStep
<1>3. CASE Command1 = "play" /\ avState \in {"prepared", "paused", "completed"}
             /\ avState' = "playing" /\ status' = "PLAYING" /\ avSong' = avSong
  <2>1. avSong # NoSong
    BY <1>3 DEF IInv, PlayerHolds
  <2>2. status' \notin Loading
    BY <1>3 DEF Loading
  <2>3. /\ Calls' /\ SongsKnown' /\ PlayerHolds' /\ StartEndsLoading' /\ LoadingIsAttended'
        /\ \A t \in Slots : tasks'[t].step = "pause" /\ tasks'[t].result # "pending"
                             => Command1 = "pause"
    BY <1>1, <1>3, <2>1, <2>2, AnswerStep
  <2>4. Told'
    BY <1>1, <1>3, <2>2, <2>3 DEF Told
  <2>5. QED
    BY <2>3, <2>4
<1>4. CASE Command1 = "prepare" /\ avState = "initialized" /\ avState' = "prepared"
             /\ status' = status /\ avSong' = avSong
  <2>1. avSong # NoSong
    BY <1>4 DEF IInv, PlayerHolds
  <2>2. /\ Calls' /\ SongsKnown' /\ PlayerHolds' /\ StartEndsLoading' /\ LoadingIsAttended'
        /\ Pausing' = Pausing
    BY <1>1, <1>4, <2>1, AnswerStep
  <2>3. Told'
    BY <1>1, <1>4, <2>2 DEF IInv, Told, Failed
  <2>4. QED
    BY <2>2, <2>3
<1>5. CASE Command1 = "reset" /\ avState' = "idle" /\ avSong' = NoSong
             /\ status' = IF avState = "idle" THEN status ELSE "IDLE"
  <2>1. status' \in Loading => status \in Loading
    BY <1>5 DEF Loading
  <2>2. /\ Calls' /\ SongsKnown' /\ PlayerHolds' /\ StartEndsLoading' /\ LoadingIsAttended'
        /\ Pausing' = Pausing
    BY <1>1, <1>5, <2>1, AnswerStep
  <2>3. Told'
    BY <1>1, <1>5, <2>2 DEF IInv, Told, Failed, Loading
  <2>4. QED
    BY <2>2, <2>3
<1>6. CASE Command1 = "seek" /\ avState \in Seekable /\ UNCHANGED <<status, avState, avSong>>
  <2>1. avSong # NoSong
    BY <1>6 DEF IInv, PlayerHolds, Seekable
  <2>2. /\ Calls' /\ SongsKnown' /\ PlayerHolds' /\ StartEndsLoading' /\ LoadingIsAttended'
        /\ Pausing' = Pausing
        /\ \A t \in Slots : tasks'[t].step = "pause" /\ tasks'[t].result # "pending"
                             => Command1 = "pause"
    BY <1>1, <1>6, <2>1, AnswerStep
  <2>3. Told'
    BY <1>1, <1>6, <2>2 DEF IInv, Told, Failed
  <2>4. QED
    BY <2>2, <2>3
<1>7. CASE Command1 = "seek" /\ avState = "playing" /\ avState' = "paused"
             /\ status' = "PAUSED" /\ avSong' = avSong
  <2>1. avSong # NoSong
    BY <1>7 DEF IInv, PlayerHolds
  <2>2. status' \notin Loading
    BY <1>7 DEF Loading
  <2>3. Told'
    BY <1>1, <1>7, <2>2 DEF Told
  <2>4. QED
    BY <1>1, <1>7, <2>1, <2>2, <2>3, AnswerStep
<1>8. QED
  BY <1>2, <1>3, <1>4, <1>5, <1>6, <1>7 DEF AvSucceeds

LEMMA AvRejectsStep ==
  ASSUME IInv, AvRejects
  PROVE  Calls' /\ SongsKnown' /\ PlayerHolds' /\ StartEndsLoading' /\ LoadingIsAttended' /\ Told'
<1>1. /\ Due /\ Answer("fail") /\ UNCHANGED <<avState, avSong, avEvents>>
      /\ UNCHANGED <<status, currentSong, errorSkip, loadingTimer>>
  BY DEF AvRejects, engine
<1>2. avState' \notin {"idle", "error"} => avSong' # NoSong
  BY <1>1 DEF IInv, PlayerHolds
<1>3. /\ Calls' /\ SongsKnown' /\ PlayerHolds' /\ StartEndsLoading' /\ LoadingIsAttended'
      /\ Pausing' = Pausing
      /\ \A t \in Slots : tasks'[t].step = "pause" /\ tasks'[t].result # "pending"
                           => Command1 = "pause"
  BY <1>1, <1>2, AnswerStep
<1>4. avEvents # {} => Failed
  BY DEF IInv, TypeOK, Told, Failed
<1>5. Command1 = "pause" => avState # "playing" \/ Failed
  BY <1>4 DEF AvRejects
<1>6. Told'
  BY <1>1, <1>3, <1>5 DEF IInv, Told, Failed
<1>7. QED
  BY <1>3, <1>6

LEMMA AvInitializedStep ==
  ASSUME IInv, AvInitialized
  PROVE  Calls' /\ SongsKnown' /\ PlayerHolds' /\ StartEndsLoading' /\ LoadingIsAttended' /\ Told'
<1>1. /\ avState = "idle" /\ avSong # NoSong /\ avEvents = {} /\ avState' = "initialized"
      /\ UNCHANGED <<status, currentSong, errorSkip, loadingTimer, tasks, avSong, avEvents>>
  BY DEF AvInitialized, engine
<1>2. Told'
  BY <1>1 DEF IInv, Told, Failed, Pausing
<1>3. LoadingIsAttended'
  BY <1>1 DEF IInv, LoadingIsAttended, Fresh
<1>4. QED
  BY <1>1, <1>2, <1>3, QuietStep

LEMMA AvFailsStep ==
  ASSUME IInv, AvFails
  PROVE  Calls' /\ SongsKnown' /\ PlayerHolds' /\ StartEndsLoading' /\ LoadingIsAttended' /\ Told'
<1>1. /\ avEvents' = {"stateChange", "error"}
      /\ UNCHANGED <<status, currentSong, errorSkip, loadingTimer, tasks, avState, avSong>>
  BY DEF AvFails, engine
<1>2. Told'
  BY <1>1 DEF IInv, Told, Failed, Pausing
<1>3. LoadingIsAttended'
  BY <1>1 DEF IInv, LoadingIsAttended, Fresh
<1>4. avState' \notin {"idle", "error"} => avSong # NoSong
  BY <1>1 DEF IInv, PlayerHolds
<1>5. QED
  BY <1>1, <1>2, <1>3, <1>4, QuietStep

LEMMA OnStateErrorStep ==
  ASSUME IInv, OnStateError
  PROVE  Calls' /\ SongsKnown' /\ PlayerHolds' /\ StartEndsLoading' /\ LoadingIsAttended' /\ Told'
<1>1. avState' = "error" /\ avSong' = avSong
  BY DEF OnStateError
<1>2. Failed'
  BY <1>1 DEF Failed
<1>3. CASE PlayAgain /\ currentSong # NoSong
  <2>1. currentSong \in Songs
    BY <1>3 DEF IInv, TypeOK
  <2>2. QED
    BY <1>1, <1>2, <1>3, <2>1, PlayAgainStep
<1>4. CASE status' = "ERROR" /\ UNCHANGED <<currentSong, tasks>>
  <2>1. status' \notin Loading
    BY <1>4 DEF Loading
  <2>2. Told' /\ LoadingIsAttended'
    BY <1>2, <1>4, <2>1 DEF Told, LoadingIsAttended
  <2>3. QED
    BY <1>1, <1>4, <2>1, <2>2, QuietStep
<1>5. QED
  BY <1>3, <1>4 DEF OnStateError

LEMMA OnErrorStep ==
  ASSUME IInv, OnError
  PROVE  Calls' /\ SongsKnown' /\ PlayerHolds' /\ StartEndsLoading' /\ LoadingIsAttended' /\ Told'
<1>1. /\ "error" \in avEvents /\ avEvents' = avEvents \ {"error"}
      /\ avState' = avState /\ avSong' = avSong
  BY DEF OnError
<1>2. Failed'
  BY <1>1 DEF IInv, Told, Failed
<1>3. CASE PlayAgain /\ currentSong # NoSong
  <2>1. currentSong \in Songs
    BY <1>3 DEF IInv, TypeOK
  <2>2. QED
    BY <1>1, <1>2, <1>3, <2>1, PlayAgainStep
<1>4. CASE status' = "ERROR" /\ UNCHANGED <<currentSong, tasks>>
  <2>1. status' \notin Loading
    BY <1>4 DEF Loading
  <2>2. Told' /\ LoadingIsAttended'
    BY <1>2, <1>4, <2>1 DEF Told, LoadingIsAttended
  <2>3. avState' \notin {"idle", "error"} => avSong # NoSong
    BY <1>1 DEF IInv, PlayerHolds
  <2>4. QED
    BY <1>1, <1>4, <2>1, <2>2, <2>3, QuietStep
<1>5. QED
  BY <1>3, <1>4 DEF OnError

-----------------------------------------------------------------------------
(* The remaining actions. *)

LEMMA AfterPauseStep ==
  ASSUME IInv, NEW s \in Slots, AfterPause(s)
  PROVE  Calls' /\ SongsKnown' /\ PlayerHolds' /\ StartEndsLoading' /\ LoadingIsAttended' /\ Told'
<1>1. /\ tasks[s].step = "pause" /\ tasks[s].result # "pending"
      /\ status' = "LOADING" /\ currentSong' = tasks[s].song /\ loadingTimer' = TRUE
      /\ avState' = avState /\ avSong' = avSong /\ avEvents' = avEvents
  BY DEF AfterPause, Answered, ShowLoading, av
<1>2. currentSong' \in Songs
  BY <1>1 DEF IInv, SongsKnown, PlaySteps
<1>3. LoadingIsAttended'
  BY <1>1 DEF LoadingIsAttended
<1>4. avState # "playing" \/ Failed
  BY <1>1 DEF IInv, Told
<1>5. Told'
  BY <1>1, <1>4 DEF IInv, Told, Failed
<1>6. CASE s \in Fresh /\ Goto(s, "resolve")
  <2>1. "resolve" \in PlaySteps \cup OtherSteps /\ "resolve" \in PlaySteps
    BY DEF PlaySteps
  <2>2. Calls' /\ SongsKnown' /\ PlayerHolds' /\ StartEndsLoading'
    BY <1>1, <1>2, <1>6, <2>1, GotoStep
  <2>3. QED
    BY <1>3, <1>5, <2>2
<1>7. CASE Finish(s)
  <2>1. tasks'[s] = NoTask /\ \A t \in Slots \ {s} : tasks'[t] = tasks[t]
    BY <1>7, FinishEffect DEF IInv
  <2>2. \A t \in Slots : Less(t)
    BY <1>7, FinishLess DEF IInv
  <2>3. Calls' /\ PlayerHolds'
    BY <1>1, <2>2, CallsLess, HoldsLess DEF IInv
  <2>4. tasks'[s].step = "none" /\ tasks'[s].result = "pending"
    BY <2>1 DEF NoTask
  <2>5. SongsKnown'
    BY <1>2, <2>2, <2>4, SongsOne DEF IInv, PlaySteps
  <2>6. \A t \in Slots \ {s} : tasks[t].result # "ok"
    BY <1>1 DEF IInv, Calls
  <2>7. StartEndsLoading'
    BY <2>2, <2>4, <2>6, StartOne DEF IInv
  <2>8. QED
    BY <1>3, <1>5, <2>3, <2>5, <2>7
<1>8. QED
  BY <1>1, <1>6, <1>7 DEF AfterPause, Fresh, PlaySteps

LEMMA PollInitializedStep ==
  ASSUME IInv, NEW s \in Slots, PollInitialized(s)
  PROVE  Calls' /\ SongsKnown' /\ PlayerHolds' /\ StartEndsLoading' /\ LoadingIsAttended' /\ Told'
<1>1. CASE NotStarted(s)
  BY <1>1, NotStartedStep
<1>2. CASE /\ tasks[s].fresh /\ avState = "initialized" /\ status' = "BUFFERING"
           /\ Goto(s, "prepare")
           /\ UNCHANGED <<currentSong, avState, avSong, avEvents>>
  <2>1. tasks[s].step = "init"
    BY DEF PollInitialized
  <2>2. s \in Fresh /\ currentSong \in Songs
    BY <1>2, <2>1 DEF Fresh, IInv, SongsKnown, PlaySteps
  <2>3. Calls' /\ SongsKnown' /\ PlayerHolds' /\ StartEndsLoading'
    BY <1>2, <2>1, <2>2, GotoStep DEF PlaySteps
  <2>4. /\ tasks'[s].step = "prepare" /\ tasks'[s].fresh
        /\ \A t \in Slots \ {s} : tasks'[t] = tasks[t]
    BY <1>2, GotoEffect DEF IInv
  <2>5. LoadingIsAttended'
    BY <2>4 DEF LoadingIsAttended, Fresh, PlaySteps
  <2>6. Told'
    BY <1>2, <2>4 DEF IInv, Told, Failed
  <2>7. QED
    BY <2>3, <2>5, <2>6
<1>3. QED
  BY <1>1, <1>2 DEF PollInitialized, Await

LEMMA AfterBackgroundResetStep ==
  ASSUME IInv, NEW s \in Slots, AfterBackgroundReset(s)
  PROVE  Calls' /\ SongsKnown' /\ PlayerHolds' /\ StartEndsLoading' /\ LoadingIsAttended' /\ Told'
<1>1. Finish(s) /\ status' = "IDLE" /\ UNCHANGED <<currentSong, av>>
  BY DEF AfterBackgroundReset
<1>2. status' \notin Loading
  BY <1>1 DEF Loading
<1>3. Told'
  BY <1>1, <1>2, EndPauses DEF Told
<1>4. QED
  BY <1>1, <1>2, <1>3, EndStep DEF LoadingIsAttended

\* The queue has been played out, or hands over a song.
LEMMA NextInQueueStep ==
  ASSUME IInv, NEW skip \in BOOLEAN, NextInQueue(skip), avSong' = avSong, avEvents' = avEvents,
         \/ avState' = avState
         \/ avState = "playing" /\ avState' = "completed"
  PROVE  Calls' /\ SongsKnown' /\ PlayerHolds' /\ StartEndsLoading' /\ LoadingIsAttended' /\ Told'
<1>1. ASSUME NEW song \in Songs, PlayNew(song)
      PROVE  Calls' /\ SongsKnown' /\ PlayerHolds' /\ StartEndsLoading' /\ LoadingIsAttended' /\ Told'
  BY <1>1, PlayNewStep
<1>2. CASE status' = "IDLE" /\ UNCHANGED <<currentSong, tasks>>
  <2>1. status' \notin Loading
    BY <1>2 DEF Loading
  <2>2. Told'
    BY <1>2, <2>1 DEF IInv, Told, Failed
  <2>3. avState' \notin {"idle", "error"} => avSong # NoSong
    BY DEF IInv, PlayerHolds
  <2>4. QED
    BY <1>2, <2>1, <2>2, <2>3, QuietStep DEF LoadingIsAttended
<1>3. QED
  BY <1>1, <1>2 DEF NextInQueue

LEMMA LoadingTimeoutStep ==
  ASSUME IInv, LoadingTimeout
  PROVE  Calls' /\ SongsKnown' /\ PlayerHolds' /\ StartEndsLoading' /\ LoadingIsAttended' /\ Told'
<1>1. avState' = avState /\ avSong' = avSong /\ avEvents' = avEvents
  BY DEF LoadingTimeout
<1>2. avState' \notin {"idle", "error"} => avSong # NoSong
  BY <1>1 DEF IInv, PlayerHolds
<1>3. CASE status \notin Loading /\ UNCHANGED <<status, currentSong, errorSkip, tasks>>
  <2>1. Told'
    BY <1>1, <1>3 DEF IInv, Told, Failed, Pausing
  <2>2. QED
    BY <1>1, <1>2, <1>3, <2>1, QuietStep DEF LoadingIsAttended
<1>4. CASE status \in Loading /\ PlayAgain
  <2>1. /\ currentSong \in Songs
        /\ avState' # "playing" \/ Failed'
        /\ "error" \in avEvents' => Failed'
    BY <1>1, <1>4 DEF IInv, SongsKnown, Told, Failed
  <2>2. QED
    BY <1>1, <1>4, <2>1, PlayAgainStep
<1>5. ASSUME NEW s \in Slots, Free(s), GiveUp(s)
      PROVE  Calls' /\ SongsKnown' /\ PlayerHolds' /\ StartEndsLoading' /\ LoadingIsAttended' /\ Told'
  BY <1>1, <1>5, GiveUpStep DEF Free
<1>6. QED
  BY <1>3, <1>4, <1>5 DEF LoadingTimeout

\* A command is issued that has nothing to do with loading: a pause or play of
\* togglePlay, a seek.
LEMMA CommandStep ==
  ASSUME IInv, NEW s \in Slots, NEW step \in {"togglePause", "togglePlay", "seek", "seekOnly"},
         Free(s), tasks' = [tasks EXCEPT ![s] = At(step, NoSong, FALSE)],
         UNCHANGED <<engine, avState, avSong, avEvents>>
  PROVE  Calls' /\ SongsKnown' /\ PlayerHolds' /\ StartEndsLoading' /\ LoadingIsAttended' /\ Told'
<1>1. /\ tasks'[s].step = step /\ tasks'[s].result = "pending" /\ tasks'[s].fresh = FALSE
      /\ \A t \in Slots \ {s} : tasks'[t] = tasks[t]
  BY DEF IInv, TypeOK, At
<1>2. \A t \in Slots \ {s} : Less(t)
  BY <1>1, SameIsLess DEF IInv
<1>3. status' = status /\ currentSong' = currentSong /\ errorSkip' = errorSkip
      /\ loadingTimer' = loadingTimer
  BY DEF engine
<1>4. tasks[s].step = "none"
  BY DEF Free
<1>5. Calls'
  BY <1>1, <1>2, CallsOne DEF IInv, Harmless
<1>6. SongsKnown'
  <2>1. status' \in Loading => currentSong' \in Songs
    BY <1>3 DEF IInv, SongsKnown
  <2>2. tasks'[s].step \notin PlaySteps
    BY <1>1 DEF PlaySteps
  <2>3. QED
    BY <1>2, <1>3, <2>1, <2>2, SongsOne DEF IInv
<1>7. PlayerHolds'
  BY <1>1, <1>2, HoldsOne DEF IInv
<1>8. StartEndsLoading'
  BY <1>1, <1>2, <1>3, StartOne DEF IInv
<1>9. LoadingIsAttended'
  <2>1. Fresh \subseteq Fresh'
    BY <1>1, <1>4 DEF Fresh, PlaySteps
  <2>2. \A t \in Slots : tasks[t].step \in {"cancel", "background"} => tasks'[t].step = tasks[t].step
    BY <1>1, <1>4
  <2>3. QED
    BY <1>3, <2>1, <2>2 DEF IInv, LoadingIsAttended
<1>10. Told'
  <2>1. Pausing => Pausing'
    BY <1>1, <1>4 DEF Pausing
  <2>2. QED
    BY <1>1, <1>3, <2>1, ToldKept
<1>11. QED
  BY <1>5, <1>6, <1>7, <1>8, <1>9, <1>10

LEMMA TogglePlayStep ==
  ASSUME IInv, TogglePlay
  PROVE  Calls' /\ SongsKnown' /\ PlayerHolds' /\ StartEndsLoading' /\ LoadingIsAttended' /\ Told'
<1>1. UNCHANGED <<avState, avSong, avEvents>>
  BY DEF TogglePlay
<1>2. ASSUME NEW s \in Slots, NEW step \in {"togglePause", "togglePlay"}, Free(s),
             tasks' = [tasks EXCEPT ![s] = At(step, NoSong, FALSE)], UNCHANGED engine
      PROVE  Calls' /\ SongsKnown' /\ PlayerHolds' /\ StartEndsLoading' /\ LoadingIsAttended' /\ Told'
  BY <1>1, <1>2, CommandStep
<1>3. CASE status \in {"PLAYING", "PAUSED"} /\ UNCHANGED engine
  <2>1. PICK s \in Slots :
          /\ Free(s)
          /\ tasks' = [tasks EXCEPT ![s] =
                At(IF status = "PLAYING" THEN "togglePause" ELSE "togglePlay", NoSong, FALSE)]
    BY <1>3 DEF TogglePlay, Loading
  <2>2. CASE status = "PLAYING"
    BY <1>2, <1>3, <2>1, <2>2
  <2>3. CASE status # "PLAYING"
    BY <1>2, <1>3, <2>1, <2>3
  <2>4. QED
    BY <2>2, <2>3
<1>4. CASE status \in Loading
  <2>1. currentSong' = currentSong
    BY <1>4 DEF TogglePlay, Loading
  <2>2. \/ status' = "IDLE" /\ tasks' = Superseded
        \/ /\ status' = status
           /\ \E s \in Slots :
                Free(s) /\ tasks' = [Superseded EXCEPT ![s] = At("cancel", NoSong, FALSE)]
    BY <1>4 DEF TogglePlay, Loading
  <2>3. QED
    BY <1>1, <1>4, <2>1, <2>2, CancelStep
<1>5. CASE currentSong # NoSong /\ PlayNew(currentSong)
  <2>1. currentSong \in Songs
    BY <1>5 DEF IInv, TypeOK
  <2>2. QED
    BY <1>1, <1>5, <2>1, PlayNewStep
<1>6. QED
  BY <1>3, <1>4, <1>5 DEF TogglePlay

LEMMA ThrownStep ==
  ASSUME IInv, NEW s \in Slots, Thrown(s), tasks[s].step \in {"prepare", "start"}
  PROVE  Calls' /\ SongsKnown' /\ PlayerHolds' /\ StartEndsLoading' /\ LoadingIsAttended' /\ Told'
<1>1. CASE GiveUp(s) /\ UNCHANGED <<avState, avSong, avEvents>>
  BY <1>1, GiveUpStep
<1>2. CASE ~tasks[s].fresh /\ Expired(s)
  <2>1. s \notin Fresh
    BY <1>2 DEF Fresh
  <2>2. QED
    BY <1>2, <2>1, ExpiredStep
<1>3. QED
  BY <1>1, <1>2 DEF Thrown

LEMMA ContinueStep ==
  ASSUME IInv, NEW s \in Slots, Continue(s)
  PROVE  Calls' /\ SongsKnown' /\ PlayerHolds' /\ StartEndsLoading' /\ LoadingIsAttended' /\ Told'
<1>1. tasks[s].step \in Harmless => s \in Fresh
  BY DEF IInv, Calls, Fresh, Harmless, PlaySteps
<1>2. tasks[s].step \in PlaySteps /\ tasks[s].fresh => s \in Fresh
  BY DEF Fresh
<1>3. CASE Resolved(s)
  <2>1. tasks[s].step \in {"resolve", "resolveAgain"} /\ s \in Fresh
    BY <1>1, <1>3 DEF Resolved, Harmless
  <2>2. CASE Goto(s, "reset") /\ UNCHANGED <<engine, avState, avSong, avEvents>>
    BY <2>1, <2>2, OnwardStep DEF PlaySteps
  <2>3. CASE Goto(s, "init") /\ avSong' = tasks[s].song /\ UNCHANGED <<engine, avState, avEvents>>
    BY <2>1, <2>3, OnwardStep DEF PlaySteps
  <2>4. QED
    BY <1>3, <2>2, <2>3 DEF Resolved, Await
<1>4. CASE Unresolved(s)
  <2>1. CASE tasks[s].step = "resolve" /\ Goto(s, "delay") /\ UNCHANGED <<engine, av>>
    <3>1. avSong' = avSong /\ avState' = avState /\ avEvents' = avEvents
      BY <2>1 DEF av
    <3>2. QED
      BY <1>1, <2>1, <3>1, OnwardStep DEF PlaySteps, Harmless
  <2>2. CASE tasks[s].step \in {"resolve", "resolveAgain"} /\ GiveUp(s)
               /\ UNCHANGED <<avState, avSong, avEvents>>
    BY <2>2, GiveUpStep
  <2>3. QED
    BY <1>4, <2>1, <2>2 DEF Unresolved
<1>5. CASE AfterDelay(s)
  <2>1. avSong' = avSong /\ avState' = avState /\ avEvents' = avEvents
    BY <1>5 DEF AfterDelay, av
  <2>2. QED
    BY <1>1, <1>5, <2>1, OnwardStep DEF AfterDelay, PlaySteps, Harmless
<1>6. CASE AfterReset(s)
  <2>1. CASE tasks[s].fresh /\ Goto(s, "init") /\ avSong' = tasks[s].song
               /\ UNCHANGED <<engine, avState, avEvents>>
    BY <1>2, <1>6, <2>1, OnwardStep DEF AfterReset, Answered, PlaySteps
  <2>2. QED
    BY <1>6, <2>1, NotStartedStep DEF AfterReset
<1>7. CASE AfterPrepare(s)
  <2>1. tasks[s].step = "prepare" /\ s \in Slots
    BY <1>7 DEF AfterPrepare, Answered
  <2>2. CASE tasks[s].fresh /\ Goto(s, "start") /\ UNCHANGED <<engine, avState, avSong, avEvents>>
    BY <1>2, <2>1, <2>2, OnwardStep DEF PlaySteps
  <2>3. CASE Thrown(s)
    BY <2>1, <2>3, ThrownStep
  <2>4. CASE NotStarted(s)
    BY <2>4, NotStartedStep
  <2>5. tasks[s].fresh \in BOOLEAN /\ tasks[s].result \in {"pending", "ok", "fail"}
    BY DEF IInv, TypeOK, Task
  <2>6. QED
    BY <1>7, <2>2, <2>3, <2>4, <2>5 DEF AfterPrepare, Answered, Await
<1>8. CASE AfterStart(s)
  <2>1. tasks[s].step = "start" /\ tasks[s].result \in {"ok", "fail"} /\ tasks[s].fresh \in BOOLEAN
    BY <1>8 DEF AfterStart, Answered, IInv, TypeOK, Task
  <2>2. CASE Thrown(s)
    BY <2>1, <2>2, ThrownStep
  <2>3. CASE NotStarted(s)
    BY <2>3, NotStartedStep
  <2>4. CASE /\ tasks[s].fresh /\ tasks[s].result = "ok" /\ Finish(s)
             /\ UNCHANGED <<status, currentSong, errorSkip, av>>
    <3>1. status' \notin Loading
      BY <1>2, <2>1, <2>4 DEF IInv, StartEndsLoading, PlaySteps
    <3>2. Told'
      BY <2>1, <2>4, <3>1, EndPauses DEF Told, IInv
    <3>3. QED
      BY <2>4, <3>1, <3>2, EndStep DEF LoadingIsAttended
  <2>5. QED
    BY <1>8, <2>1, <2>2, <2>3, <2>4 DEF AfterStart
<1>9. CASE AfterToggle(s)
  <2>1. tasks[s].step \in {"togglePause", "togglePlay"}
    BY <1>9 DEF AfterToggle, Answered
  <2>2. s \notin Fresh
    BY <2>1 DEF Fresh, PlaySteps
  <2>3. QED
    BY <1>9, <2>1, <2>2, ExpiredStep DEF AfterToggle
<1>10. CASE InitializeTimeout(s)
  BY <1>10, NotStartedStep DEF InitializeTimeout
<1>11. CASE AfterSeek(s)
  <2>1. tasks[s].step \in {"seek", "seekOnly", "seekPlay"}
    BY <1>11 DEF AfterSeek, Answered
  <2>2. s \notin Fresh
    BY <2>1 DEF Fresh, PlaySteps
  <2>3. CASE Expired(s)
    BY <2>1, <2>2, <2>3, ExpiredStep
  <2>4. CASE Goto(s, "seekPlay") /\ UNCHANGED <<engine, avState, avSong, avEvents>>
    <3>1. "seekPlay" \in PlaySteps \cup OtherSteps /\ "seekPlay" \notin PlaySteps
      BY DEF PlaySteps, OtherSteps
    <3>2. /\ status' = status /\ currentSong' = currentSong /\ errorSkip' = errorSkip
          /\ loadingTimer' = loadingTimer
          /\ avState' = avState /\ avSong' = avSong /\ avEvents' = avEvents
      BY <2>4 DEF engine
    <3>3. Calls' /\ SongsKnown' /\ PlayerHolds' /\ StartEndsLoading'
      BY <2>4, <3>1, <3>2, GotoStep
    <3>4. tasks'[s].step = "seekPlay" /\ \A t \in Slots \ {s} : tasks'[t] = tasks[t]
      BY <2>4, GotoEffect DEF IInv
    <3>5. Told'
      <4>1. Pausing => Pausing'
        BY <2>1, <3>4 DEF Pausing
      <4>2. QED
        BY <3>2, <3>4, <4>1, ToldKept
    <3>6. LoadingIsAttended'
      <4>1. Fresh \subseteq Fresh'
        BY <2>2, <3>4 DEF Fresh
      <4>2. \A t \in Slots : tasks[t].step \in {"cancel", "background"} => tasks'[t].step = tasks[t].step
        BY <2>1, <3>4
      <4>3. QED
        BY <3>2, <4>1, <4>2 DEF IInv, LoadingIsAttended
    <3>7. QED
      BY <3>3, <3>5, <3>6
  <2>5. QED
    BY <1>11, <2>3, <2>4 DEF AfterSeek, Await
<1>12. QED
  BY <1>3, <1>4, <1>5, <1>6, <1>7, <1>8, <1>9, <1>10, <1>11,
     AfterPauseStep, PollInitializedStep, AfterBackgroundResetStep DEF Continue

-----------------------------------------------------------------------------
(* The invariant is inductive. *)

LEMMA InitInv == Init => IInv
<1> SUFFICES ASSUME Init PROVE IInv
  OBVIOUS
<1>1. \A s \in Slots : tasks[s] = NoTask
  BY DEF Init
<1>2. \A s \in Slots : tasks[s].step = "none" /\ tasks[s].result = "pending"
  BY <1>1 DEF NoTask
<1>3. TypeOK
  <2>1. tasks \in [Slots -> Task]
    BY NoTaskType DEF Init
  <2>2. avQueue \in Seq(Slots)
    BY DEF Init
  <2>3. status \in Statuses /\ avState \in AvStates /\ retryNum \in 0 .. 2
    BY DEF Init, Statuses, AvStates
  <2>4. currentSong \in Songs \cup {NoSong} /\ avSong \in Songs \cup {NoSong}
    BY DEF Init
  <2>5. loadingTimer \in BOOLEAN /\ errorSkip \in BOOLEAN
    BY DEF Init
  <2>6. avEvents \subseteq {"stateChange", "error"}
    BY DEF Init
  <2>7. QED
    BY <2>1, <2>2, <2>3, <2>4, <2>5, <2>6 DEF TypeOK
<1>4. Calls /\ SongsKnown /\ PlayerHolds /\ StartEndsLoading
  BY <1>2 DEF Init, Calls, SongsKnown, PlayerHolds, StartEndsLoading,
             Fresh, PlaySteps, Harmless, Loading
<1>5. LoadingIsAttended /\ Told
  BY <1>2 DEF Init, LoadingIsAttended, Told, Failed, Loading
<1>6. QED
  BY <1>3, <1>4, <1>5 DEF IInv

LEMMA NextInv == IInv /\ [Next]_vars => IInv'
<1> SUFFICES ASSUME IInv, [Next]_vars PROVE IInv'
  OBVIOUS
<1>1. TypeOK'
  BY TypeStep DEF IInv
<1>2. Calls' /\ SongsKnown' /\ PlayerHolds' /\ StartEndsLoading' /\ LoadingIsAttended' /\ Told'
  <2>1. CASE UNCHANGED vars
    <3>1. /\ tasks' = tasks /\ status' = status /\ currentSong' = currentSong
          /\ errorSkip' = errorSkip /\ loadingTimer' = loadingTimer
          /\ avState' = avState /\ avSong' = avSong /\ avEvents' = avEvents
      BY <2>1 DEF vars, engine, av
    <3>2. avState' \notin {"idle", "error"} => avSong # NoSong
      BY <3>1 DEF IInv, PlayerHolds
    <3>3. Told'
      BY <3>1 DEF IInv, Told, Failed, Pausing
    <3>4. LoadingIsAttended'
      BY <3>1 DEF IInv, LoadingIsAttended, Fresh
    <3>5. QED
      BY <3>1, <3>2, <3>3, <3>4, QuietStep
  <2>2. CASE \E s \in Slots : Continue(s)
    BY <2>2, ContinueStep
  <2>3. CASE LoadingTimeout
    BY <2>3, LoadingTimeoutStep
  <2>4. CASE ErrorSkipTimeout
    BY <2>4, NextInQueueStep DEF ErrorSkipTimeout
  <2>5. CASE AvSucceeds \/ AvRejects \/ AvInitialized
    BY <2>5, AvSucceedsStep, AvRejectsStep, AvInitializedStep
  <2>6. CASE OnStateError \/ OnError \/ AvFails
    BY <2>6, OnStateErrorStep, OnErrorStep, AvFailsStep
  <2>7. CASE OnCompleted \/ UserPlays
    <3>1. errorSkip \in BOOLEAN
      BY DEF IInv, TypeOK
    <3>2. QED
      BY <2>7, <3>1, NextInQueueStep DEF OnCompleted, UserPlays
  <2>8. CASE TogglePlay
    BY <2>8, TogglePlayStep
  <2>9. CASE SeekTo
    <3>1. CASE status = "PLAYING"
      BY <2>9, <3>1, CommandStep DEF SeekTo
    <3>2. CASE status # "PLAYING"
      BY <2>9, <3>2, CommandStep DEF SeekTo
    <3>3. QED
      BY <3>1, <3>2
  <2>10. QED
    BY <2>1, <2>2, <2>3, <2>4, <2>5, <2>6, <2>7, <2>8, <2>9 DEF Next, Timers, Device
<1>3. QED
  BY <1>1, <1>2 DEF IInv

LEMMA Inductive == Spec => []IInv
BY InitInv, NextInv, PTL DEF Spec

-----------------------------------------------------------------------------
(* Who drives the AVPlayer. *)

Driving == {"init", "prepare", "start"}
Takes(t) == tasks'[t].step # tasks[t].step /\ tasks'[t].step \in Driving
Owner(t) == tasks[t].fresh /\ avSong' = tasks[t].song

LEMMA LessTakesNothing ==
  ASSUME NEW t \in Slots, Less(t)
  PROVE  ~Takes(t)
BY DEF Less, Takes, Driving, NoTask

LEMMA FinishTakesNothing ==
  ASSUME IInv, NEW s \in Slots, Finish(s)
  PROVE  \A t \in Slots : ~Takes(t)
BY FinishLess, LessTakesNothing DEF IInv

LEMMA GotoTakes ==
  ASSUME IInv, NEW s \in Slots, NEW step, Goto(s, step), step \in Driving => Owner(s)
  PROVE  \A t \in Slots : Takes(t) => Owner(t)
BY GotoEffect DEF IInv, Takes

LEMMA NewCallTakesNothing ==
  ASSUME IInv, NEW s \in Slots, NEW x \in Task, x.step \notin Driving,
         tasks' = [Superseded EXCEPT ![s] = x]
  PROVE  \A t \in Slots : ~Takes(t)
<1>1. tasks'[s] = x /\ \A t \in Slots \ {s} : Stale(t)
  BY NewCallEffect DEF IInv
<1>2. \A t \in Slots \ {s} : ~Takes(t)
  BY <1>1, StaleIsLess, LessTakesNothing
<1>3. ~Takes(s)
  BY <1>1 DEF Takes
<1>4. QED
  BY <1>2, <1>3

LEMMA PlayNewTakesNothing ==
  ASSUME IInv, NEW song \in Songs, PlayNew(song)
  PROVE  \A t \in Slots : ~Takes(t)
<1>1. At("pause", song, TRUE) \in Task /\ At("pause", song, TRUE).step \notin Driving
  BY AtType DEF PlaySteps, At, Driving
<1>2. QED
  BY <1>1, NewCallTakesNothing DEF PlayNew

LEMMA PlayAgainTakesNothing ==
  ASSUME IInv, PlayAgain
  PROVE  \A t \in Slots : ~Takes(t)
<1>1. At("resolve", currentSong, TRUE) \in Task /\ At("resolve", currentSong, TRUE).step \notin Driving
  BY AtType DEF PlaySteps, At, Driving, IInv, TypeOK
<1>2. QED
  BY <1>1, NewCallTakesNothing DEF PlayAgain

LEMMA GiveUpTakesNothing ==
  ASSUME IInv, NEW s \in Slots, GiveUp(s)
  PROVE  \A t \in Slots : Takes(t) => Owner(t)
<1>1. Finish(s) \/ Goto(s, "background")
  BY DEF GiveUp, ResetInBackground, Await
<1>2. QED
  BY <1>1, FinishTakesNothing, GotoTakes DEF Driving

LEMMA NextInQueueTakesNothing ==
  ASSUME IInv, NEW skip, NextInQueue(skip)
  PROVE  \A t \in Slots : ~Takes(t)
<1>1. CASE UNCHANGED tasks
  BY <1>1 DEF Takes
<1>2. QED
  BY <1>1, PlayNewTakesNothing DEF NextInQueue

LEMMA CommandTakesNothing ==
  ASSUME IInv, NEW s \in Slots, NEW step \in {"togglePause", "togglePlay", "seek", "seekOnly"},
         tasks' = [tasks EXCEPT ![s] = At(step, NoSong, FALSE)]
  PROVE  \A t \in Slots : ~Takes(t)
BY DEF IInv, TypeOK, At, Takes, Driving

LEMMA TogglePlayTakesNothing ==
  ASSUME IInv, TogglePlay
  PROVE  \A t \in Slots : ~Takes(t)
<1>1. ASSUME NEW s \in Slots, NEW step \in {"togglePause", "togglePlay"},
             tasks' = [tasks EXCEPT ![s] = At(step, NoSong, FALSE)]
      PROVE  \A t \in Slots : ~Takes(t)
  BY <1>1, CommandTakesNothing
<1>2. CASE status \in {"PLAYING", "PAUSED"} /\ UNCHANGED engine
  <2>1. PICK s \in Slots : tasks' = [tasks EXCEPT ![s] =
                 At(IF status = "PLAYING" THEN "togglePause" ELSE "togglePlay", NoSong, FALSE)]
    BY <1>2 DEF TogglePlay, Loading
  <2>2. CASE status = "PLAYING"
    BY <1>1, <2>1, <2>2
  <2>3. CASE status # "PLAYING"
    BY <1>1, <2>1, <2>3
  <2>4. QED
    BY <2>2, <2>3
<1>3. CASE tasks' = Superseded
  BY <1>3, SupersededEffect, StaleIsLess, LessTakesNothing DEF IInv
<1>4. ASSUME NEW s \in Slots, tasks' = [Superseded EXCEPT ![s] = At("cancel", NoSong, FALSE)]
      PROVE  \A t \in Slots : ~Takes(t)
  <2>1. At("cancel", NoSong, FALSE) \in Task /\ At("cancel", NoSong, FALSE).step \notin Driving
    BY AtType DEF OtherSteps, At, Driving
  <2>2. QED
    BY <1>4, <2>1, NewCallTakesNothing
<1>5. CASE currentSong # NoSong /\ PlayNew(currentSong)
  <2>1. currentSong \in Songs
    BY <1>5 DEF IInv, TypeOK
  <2>2. QED
    BY <1>5, <2>1, PlayNewTakesNothing
<1>6. QED
  BY <1>2, <1>3, <1>4, <1>5 DEF TogglePlay

LEMMA ContinueTakes ==
  ASSUME IInv, NEW s \in Slots, Continue(s)
  PROVE  \A t \in Slots : Takes(t) => Owner(t)
<1>1. CASE Finish(s)
  BY <1>1, FinishTakesNothing
<1>2. CASE GiveUp(s)
  BY <1>2, GiveUpTakesNothing
<1>3. ASSUME NEW step \in {"resolve", "delay", "resolveAgain", "reset", "seekPlay"}, Goto(s, step)
      PROVE  \A t \in Slots : Takes(t) => Owner(t)
  BY <1>3, GotoTakes DEF Driving
<1>4. ASSUME NEW step \in Driving, Goto(s, step), Owner(s)
      PROVE  \A t \in Slots : Takes(t) => Owner(t)
  BY <1>4, GotoTakes
<1>5. tasks[s].step \in Harmless => tasks[s].fresh
  BY DEF IInv, Calls
<1>6. CASE Resolved(s)
  <2>1. tasks[s].fresh
    BY <1>5, <1>6 DEF Resolved, Harmless
  <2>2. QED
    BY <1>3, <1>4, <1>6, <2>1 DEF Resolved, Await, Owner, Driving
<1>7. CASE AfterReset(s)
  BY <1>1, <1>4, <1>7 DEF AfterReset, NotStarted, Owner, Driving
<1>8. CASE PollInitialized(s)
  <2>1. CASE NotStarted(s)
    BY <1>1, <2>1 DEF NotStarted
  <2>2. CASE tasks[s].fresh /\ avState = "initialized" /\ Goto(s, "prepare") /\ avSong' = avSong
    <3>1. tasks[s].step = "init" /\ s \in Fresh
      BY <1>8, <2>2 DEF PollInitialized, Fresh, PlaySteps
    <3>2. Owner(s)
      BY <2>2, <3>1 DEF Owner, IInv, PlayerHolds
    <3>3. QED
      BY <1>4, <2>2, <3>2 DEF Driving
  <2>3. QED
    BY <1>8, <2>1, <2>2 DEF PollInitialized, Await
<1>9. CASE AfterPrepare(s)
  <2>1. tasks[s].step = "prepare" /\ tasks[s].result \in {"ok", "fail"} /\ tasks[s].fresh \in BOOLEAN
    BY <1>9 DEF AfterPrepare, Answered, IInv, TypeOK, Task
  <2>2. CASE Thrown(s) \/ NotStarted(s)
    BY <1>1, <1>2, <2>2 DEF Thrown, NotStarted, Expired
  <2>3. CASE tasks[s].fresh /\ tasks[s].result = "ok" /\ Goto(s, "start") /\ avSong' = avSong
    <3>1. s \in Fresh
      BY <2>1, <2>3 DEF Fresh, PlaySteps
    <3>2. Owner(s)
      BY <2>1, <2>3, <3>1 DEF Owner, IInv, PlayerHolds
    <3>3. QED
      BY <1>4, <2>3, <3>2 DEF Driving
  <2>4. QED
    BY <1>9, <2>1, <2>2, <2>3 DEF AfterPrepare, Await
<1>10. CASE AfterStart(s) \/ InitializeTimeout(s) \/ AfterToggle(s) \/ AfterBackgroundReset(s)
  BY <1>1, <1>2, <1>10
     DEF AfterStart, InitializeTimeout, AfterToggle, AfterBackgroundReset, Thrown, NotStarted, Expired
<1>11. CASE AfterPause(s) \/ Unresolved(s) \/ AfterDelay(s) \/ AfterSeek(s)
  BY <1>1, <1>2, <1>3, <1>11 DEF AfterPause, Unresolved, AfterDelay, AfterSeek, Await, Expired
<1>12. QED
  BY <1>6, <1>7, <1>8, <1>9, <1>10, <1>11 DEF Continue

LEMMA OwnsStep ==
  ASSUME IInv, [Next]_vars
  PROVE  \A t \in Slots : Takes(t) => Owner(t)
<1>1. CASE UNCHANGED tasks
  BY <1>1 DEF Takes
<1>2. CASE UNCHANGED vars
  BY <1>1, <1>2 DEF vars
<1>3. CASE \E s \in Slots : Continue(s)
  BY <1>3, ContinueTakes
<1>4. CASE LoadingTimeout
  BY <1>1, <1>4, PlayAgainTakesNothing, GiveUpTakesNothing DEF LoadingTimeout
<1>5. CASE ErrorSkipTimeout \/ OnCompleted \/ UserPlays
  BY <1>5, NextInQueueTakesNothing DEF ErrorSkipTimeout, OnCompleted, UserPlays
<1>6. CASE AvSucceeds \/ AvRejects
  <2>1. PICK r \in {"ok", "fail"} : Due /\ Answer(r)
    BY <1>6 DEF AvSucceeds, AvRejects
  <2>2. QED
    BY <2>1, AnswerEffect DEF IInv, Takes
<1>7. CASE AvInitialized \/ AvFails
  BY <1>1, <1>7 DEF AvInitialized, AvFails
<1>8. CASE OnStateError \/ OnError
  BY <1>1, <1>8, PlayAgainTakesNothing DEF OnStateError, OnError
<1>9. CASE TogglePlay
  BY <1>9, TogglePlayTakesNothing
<1>10. CASE SeekTo
  <2>1. CASE status = "PLAYING"
    BY <1>10, <2>1, CommandTakesNothing DEF SeekTo
  <2>2. CASE status # "PLAYING"
    BY <1>10, <2>2, CommandTakesNothing DEF SeekTo
  <2>3. QED
    BY <2>1, <2>2
<1>11. QED
  BY <1>2, <1>3, <1>4, <1>5, <1>6, <1>7, <1>8, <1>9, <1>10 DEF Next, Timers, Device

-----------------------------------------------------------------------------
(* The theorems. *)

\* Every variable of the engine keeps its type: retryNum in particular never passes
\* the two retries that play allows itself.
THEOREM TypeCorrect == Spec => []TypeOK
<1>1. IInv => TypeOK
  BY DEF IInv
<1>2. QED
  BY <1>1, Inductive, PTL

\* The screen never shows a loading song that nothing will ever settle.
THEOREM AttendedCorrect == Spec => []LoadingIsAttended
<1>1. IInv => LoadingIsAttended
  BY DEF IInv
<1>2. QED
  BY <1>1, Inductive, PTL

LEMMA QuiescentTells ==
  ASSUME IInv, Quiescent
  PROVE  ~Pausing /\ (Failed => avState = "error")
BY DEF Quiescent, Free, Pausing, Failed

\* Whatever calls are in flight, only the latest play call hands the AVPlayer a URL,
\* prepares it or starts it, and with the URL of its own song.
THEOREM OwnsCorrect == Spec => LatestOwnsPlayer
<1>1. IInv /\ [Next]_vars =>
        [\A s \in Slots :
           tasks'[s].step # tasks[s].step /\ tasks'[s].step \in {"init", "prepare", "start"}
           => tasks[s].fresh /\ avSong' = tasks[s].song]_vars
  BY OwnsStep DEF Takes, Owner, Driving
<1>2. QED
  BY <1>1, Inductive, PTL DEF Spec, LatestOwnsPlayer
=============================================================================
