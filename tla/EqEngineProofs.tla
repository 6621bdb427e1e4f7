--------------------------- MODULE EqEngineProofs ---------------------------
(***************************************************************************)
(* Theorems of EqEngine and of its history, for every set of songs and any *)
(* number of calls in flight.                                              *)
(*                                                                         *)
(* Every step of the engine does one of a few things to the calls and to   *)
(* the queue of the AVPlayer (Shape).  From that follow the order of the   *)
(* AVPlayer's commands and answers (InOrder), which all later parts use,   *)
(* and what a step may do to one call (CallEffect).  Then come, one by     *)
(* one, the types, what attends to a loading song (EqAttended), who        *)
(* controls the native player (Controlled), what the AVPlayer may still do *)
(* while the native player is in use (Silent), and which song is played    *)
(* and shown (Shown).                                                      *)
(***************************************************************************)
EXTENDS MCEqEngine, TLAPS

\* Stopping the native player and ceasing to use it go together.
LEMMA Stops ==
  ASSUME UsedIsStarted, StopNative \/ StopIfUsed \/ ResetNative
  PROVE  UsedIsStarted'
  BY DEF UsedIsStarted, StopNative, StopIfUsed, ResetNative, player

\* play of a new song stops it, and any other step leaves it alone.
LEMMA NewSongStops ==
  ASSUME UsedIsStarted, NewSong
  PROVE  UsedIsStarted'
<1>1. CASE PlaysNew
  BY <1>1, Stops DEF NewSong
<1>2. CASE ~PlaysNew
  BY <1>2 DEF NewSong, UsedIsStarted, player
<1> QED BY <1>1, <1>2

\* A player that was started is in use and LOADING.
LEMMA StartsNatively ==
  ASSUME NEW s, PlayNatively(s)
  PROVE  UsedIsStarted'
  BY DEF PlayNatively, Native!PlayerStart, UsedIsStarted

\* Each step of a call keeps the property.
LEMMA TaskStep ==
  ASSUME UsedIsStarted, NEW s \in Slots, EqContinue(s)
  PROVE  UsedIsStarted'
<1>0. ASSUME UNCHANGED <<native, usingNativeEq>> PROVE UsedIsStarted'
  BY <1>0 DEF UsedIsStarted
<1>1. CASE PlainStep(s)
  BY <1>1, <1>0 DEF PlainStep, eq, player
<1>2. CASE EqUnresolved(s)
  BY <1>2, <1>0, Stops DEF EqUnresolved, eq, player
<1>3. CASE EqResolved(s)
  BY <1>3, <1>0, Stops, StartsNatively DEF EqResolved, eq, player
<1>4. CASE AfterNativeReset(s)
  BY <1>4, StartsNatively DEF AfterNativeReset
<1>5. CASE EqPollInitialized(s)
  BY <1>5 DEF EqPollInitialized, UsedIsStarted, player
<1>6. CASE EqAfterPrepare(s)
  BY <1>6, <1>0, Stops DEF EqAfterPrepare, EqThrown, StartedWith, eq, player
<1>7. CASE EqAfterStart(s)
  BY <1>7, <1>0, Stops DEF EqAfterStart, EqThrown, StartedWith, eq, player
<1>8. CASE AfterStartSeek(s)
  BY <1>8, <1>0, Stops DEF AfterStartSeek, EqThrown, StartedWith, eq, player
<1>9. CASE AfterEqSwitch(s)
  BY <1>9, <1>0 DEF AfterEqSwitch, player
<1> QED BY <1>1, <1>2, <1>3, <1>4, <1>5, <1>6, <1>7, <1>8, <1>9 DEF EqContinue

\* So does every key, timer and event.
LEMMA OtherStep ==
  ASSUME UsedIsStarted,
         EqTogglePlay \/ EqSeekTo \/ SetEqEnabled \/ PollNative \/ EqLoadingTimeout
           \/ EqErrorSkipTimeout \/ EqDevice \/ EqOnCompleted \/ EqUserPlays \/ NativeThreads
  PROVE  UsedIsStarted'
<1>0. ASSUME UNCHANGED <<native, usingNativeEq>> PROVE UsedIsStarted'
  BY <1>0 DEF UsedIsStarted
<1>1. CASE EqTogglePlay
  <2>1. CASE ~usingNativeEq /\ NewSong
    BY <2>1, NewSongStops
  <2>2. CASE native' \in {"PLAYING", "PAUSED"}
    BY <2>2 DEF UsedIsStarted
  <2>3. CASE StopNative
    BY <2>3, Stops
  <2> QED BY <1>1, <2>1, <2>2, <2>3 DEF EqTogglePlay, Native!PlayerPause, Native!PlayerResume
<1>2. CASE EqSeekTo
  BY <1>2, <1>0 DEF EqSeekTo, Native!PlayerStart, UsedIsStarted, eq, player
<1>3. CASE SetEqEnabled
  BY <1>3, <1>0 DEF SetEqEnabled, player
<1>4. CASE PollNative
  BY <1>4, <1>0, Stops, NewSongStops DEF PollNative, PollShows, PollCompleted, PollFailed, eq, player
<1>5. CASE EqLoadingTimeout
  BY <1>5, <1>0, Stops DEF EqLoadingTimeout, eq, player
<1>6. CASE EqErrorSkipTimeout \/ EqOnCompleted \/ EqUserPlays
  BY <1>6, NewSongStops DEF EqErrorSkipTimeout, EqOnCompleted, EqUserPlays
<1>7. CASE EqDevice
  BY <1>7, <1>0 DEF EqDevice, EqAvSucceeds, eq, player
<1>8. CASE NativeThreads
  BY <1>8 DEF NativeThreads, Native!Threads, Native!Started, Native!Failed, Native!Ended, UsedIsStarted
<1> QED BY <1>1, <1>2, <1>3, <1>4, <1>5, <1>6, <1>7, <1>8

\* NativeEqPlayer's calls find the state they rely on: while usingNativeEq holds, the
\* native player was started by playerStart and no playerStop has come since.
THEOREM UsedWasStarted == EqSpec => []UsedIsStarted
<1>1. EqInit => UsedIsStarted
  BY DEF EqInit, UsedIsStarted
<1>2. UsedIsStarted /\ [EqNext]_eqVars => UsedIsStarted'
  <2> SUFFICES ASSUME UsedIsStarted, [EqNext]_eqVars PROVE UsedIsStarted'
    OBVIOUS
  <2>1. CASE \E s \in Slots : EqContinue(s)
    BY <2>1, TaskStep
  <2>2. CASE ~(\E s \in Slots : EqContinue(s)) /\ EqNext
    BY <2>2, OtherStep DEF EqNext, EqUserActs
  <2>3. CASE UNCHANGED eqVars
    BY <2>3 DEF eqVars, eq, player, UsedIsStarted
  <2> QED BY <2>1, <2>2, <2>3
<1> QED BY <1>1, <1>2, PTL DEF EqSpec
-----------------------------------------------------------------------------
(* The calls in flight and the AVPlayer's queue. *)

Steps == PlaySteps \cup OtherSteps \cup {"none", "nativeReset", "startSeek", "eqSwitch"}
Commanded == {"pause", "togglePause", "start", "togglePlay", "seek", "seekOnly", "seekPlay",
              "reset", "cancel", "background", "prepare", "nativeReset", "startSeek"}

Step(s) == tasks[s].step
Pending(s) == tasks[s].result = "pending"
Latest(s) == tasks[s].fresh

\* Calls that are none of play.
Keys == {"none", "togglePause", "togglePlay", "seek", "seekOnly", "seekPlay", "eqSwitch"}

\* Call s waits for nothing the AVPlayer has to do.
Idle(s) == Step(s) \in Commanded => ~Pending(s)

EqTyped ==
  /\ EqTypeOK
  /\ currentSong \in Songs \cup {NoSong}
  /\ loadingTimer \in BOOLEAN
  /\ errorSkip \in BOOLEAN
  /\ avState \in AvStates
  /\ avSong \in Songs \cup {NoSong}
  /\ avQueue \in Seq(Slots)
  /\ avEvents \subseteq {"stateChange", "error"}

\* Joining the queue with a step that commands the AVPlayer.
Sends(s, step) == avQueue' = IF step \in Commanded THEN Append(avQueue, s) ELSE avQueue

(* What a step of the engine does to the calls. *)

Quits(s) == Idle(s) /\ Finish(s) /\ avQueue' = avQueue

Moves(s, step) ==
  /\ Idle(s)
  /\ Goto(s, step)
  /\ Sends(s, step)
  /\ step # "pause"
  /\ step \in Harmless \cup {"prepare", "start", "startSeek"} => Latest(s)
  /\ step \in {"start", "startSeek"} => ~Pending(s)
  /\ step = "prepare" => Step(s) = "init"
  /\ step = "start" => Step(s) = "prepare"
  /\ step = "startSeek" => Step(s) = "start"
  /\ step \in Keys => step = "seekPlay" /\ Step(s) = "seek" /\ tasks[s].result = "ok"
  /\ step = "nativeReset" => ~forceAv
  /\ Step(s) = "pause" => currentSong' = tasks[s].song

Begins(s, step, song, fresh) ==
  /\ Step(s) \in {"none", "eqSwitch"}
  /\ tasks' = [Superseded EXCEPT ![s] = At(step, song, fresh)]
  /\ Sends(s, step)
  /\ fresh = (step # "cancel")
  /\ step = "resolve" => song = currentSong
  /\ step = "pause" => StopIfUsed

Adds(s, step) ==
  /\ Free(s)
  /\ tasks' = [tasks EXCEPT ![s] = At(step, NoSong, FALSE)]
  /\ Sends(s, step)
  /\ step \in {"togglePlay", "seek"} => ~usingNativeEq

Answers(r) ==
  /\ Due /\ Answer(r) /\ avQueue' = Tail(avQueue)
  /\ IF r = "ok" THEN AvSucceeds ELSE AvRejects

\* The same, call by call.
Same(t) == tasks'[t] = tasks[t]

Stale(t) ==
  \/ Step(t) \in Harmless /\ tasks'[t] = NoTask
  \/ /\ Step(t) \notin Harmless /\ Step(t)' = Step(t)
     /\ tasks'[t].song = tasks[t].song /\ tasks'[t].result = tasks[t].result
     /\ tasks'[t].fresh = FALSE

Placed(s, step, song, fresh) ==
  /\ Step(s)' = step /\ tasks'[s].song = song
  /\ tasks'[s].fresh = fresh /\ tasks'[s].result = "pending"

LEMMA TasksTyped ==
  ASSUME EqTyped, NEW s \in Slots
  PROVE  /\ tasks[s] \in EqTask /\ Step(s) \in Steps /\ Latest(s) \in BOOLEAN
         /\ tasks[s].song \in Songs \cup {NoSong}
         /\ tasks[s].result \in {"pending", "ok", "fail"}
<1>1. tasks[s] \in EqTask
  BY DEF EqTyped, EqTypeOK
<1>2. QED
  BY <1>1 DEF EqTask, Step, Latest, Steps

LEMMA NoTaskTyped == NoTask \in EqTask
BY DEF NoTask, EqTask

LEMMA AtTyped ==
  ASSUME NEW step \in Steps, NEW song \in Songs \cup {NoSong}, NEW fresh \in BOOLEAN
  PROVE  At(step, song, fresh) \in EqTask
BY DEF At, EqTask, Steps

LEMMA QuitEffect ==
  ASSUME EqTyped, NEW s \in Slots, Finish(s)
  PROVE  /\ tasks' \in [Slots -> EqTask]
         /\ tasks'[s] = NoTask /\ Placed(s, "none", NoSong, FALSE)
         /\ \A t \in Slots \ {s} : Same(t)
<1>1. tasks \in [Slots -> EqTask] /\ tasks' = [tasks EXCEPT ![s] = NoTask]
  BY DEF EqTyped, EqTypeOK, Finish
<1>2. tasks'[s] = NoTask /\ \A t \in Slots \ {s} : Same(t)
  BY <1>1 DEF Same
<1>3. QED
  BY <1>1, <1>2, NoTaskTyped DEF Placed, Step, NoTask

LEMMA MoveEffect ==
  ASSUME EqTyped, NEW s \in Slots, NEW step \in Steps, Goto(s, step)
  PROVE  /\ tasks' \in [Slots -> EqTask]
         /\ Placed(s, step, tasks[s].song, tasks[s].fresh)
         /\ \A t \in Slots \ {s} : Same(t)
<1>1. tasks \in [Slots -> EqTask] /\ tasks[s] \in EqTask
  BY DEF EqTyped, EqTypeOK
<1>2. tasks' = [tasks EXCEPT ![s] = [tasks[s] EXCEPT !.step = step, !.result = "pending"]]
  BY <1>1 DEF Goto
<1>3. tasks'[s] = [tasks[s] EXCEPT !.step = step, !.result = "pending"]
  BY <1>1, <1>2
<1>4. tasks'[s] \in EqTask /\ Placed(s, step, tasks[s].song, tasks[s].fresh)
  BY <1>1, <1>3 DEF EqTask, Placed, Step, Steps
<1>5. QED
  BY <1>1, <1>2, <1>4 DEF Same

LEMMA SupersededTyped ==
  ASSUME EqTyped
  PROVE  Superseded \in [Slots -> EqTask]
<1>1. \A s \in Slots : tasks[s] \in EqTask
  BY DEF EqTyped, EqTypeOK
<1>2. \A s \in Slots : [tasks[s] EXCEPT !.fresh = FALSE] \in EqTask
  BY <1>1 DEF EqTask
<1>3. QED
  BY <1>1, <1>2, NoTaskTyped DEF Superseded

LEMMA SupersededEffect ==
  ASSUME EqTyped, NEW t \in Slots, tasks'[t] = Superseded[t]
  PROVE  Stale(t) /\ ~Latest(t)'
<1>1. tasks[t] \in EqTask
  BY TasksTyped
<1>2. tasks'[t] = IF tasks[t].step \in Harmless THEN NoTask ELSE [tasks[t] EXCEPT !.fresh = FALSE]
  BY DEF Superseded
<1>3. QED
  BY <1>1, <1>2 DEF Stale, Step, Latest, EqTask, NoTask

LEMMA BeginEffect ==
  ASSUME EqTyped, NEW s \in Slots, NEW step \in Steps, NEW song \in Songs \cup {NoSong},
         NEW fresh \in BOOLEAN, tasks' = [Superseded EXCEPT ![s] = At(step, song, fresh)]
  PROVE  /\ tasks' \in [Slots -> EqTask]
         /\ Placed(s, step, song, fresh)
         /\ \A t \in Slots \ {s} : Stale(t) /\ ~Latest(t)'
<1>1. Superseded \in [Slots -> EqTask] /\ At(step, song, fresh) \in EqTask
  BY SupersededTyped, AtTyped
<1>2. tasks'[s] = At(step, song, fresh) /\ \A t \in Slots \ {s} : tasks'[t] = Superseded[t]
  BY <1>1
<1>3. tasks' \in [Slots -> EqTask]
  BY <1>1
<1>4. Placed(s, step, song, fresh)
  BY <1>2 DEF Placed, Step, At
<1>5. QED
  BY <1>2, <1>3, <1>4, SupersededEffect

LEMMA AddEffect ==
  ASSUME EqTyped, NEW s \in Slots, NEW step \in Steps,
         tasks' = [tasks EXCEPT ![s] = At(step, NoSong, FALSE)]
  PROVE  /\ tasks' \in [Slots -> EqTask]
         /\ Placed(s, step, NoSong, FALSE)
         /\ \A t \in Slots \ {s} : Same(t)
<1>1. tasks \in [Slots -> EqTask] /\ At(step, NoSong, FALSE) \in EqTask
  BY AtTyped DEF EqTyped, EqTypeOK
<1>2. tasks'[s] = At(step, NoSong, FALSE) /\ \A t \in Slots \ {s} : Same(t)
  BY <1>1 DEF Same
<1>3. QED
  BY <1>1, <1>2 DEF Placed, Step, At

LEMMA HeadIsCall ==
  ASSUME EqTyped, avQueue # <<>>
  PROVE  \E h \in Slots : h = Head(avQueue)
BY DEF EqTyped

LEMMA AnswerEffect ==
  ASSUME EqTyped, NEW h \in Slots, h = Head(avQueue), NEW r \in {"ok", "fail"}, Answer(r)
  PROVE  /\ tasks' \in [Slots -> EqTask]
         /\ tasks'[h].result = r /\ Step(h)' = Step(h)
         /\ tasks'[h].song = tasks[h].song /\ tasks'[h].fresh = tasks[h].fresh
         /\ \A t \in Slots \ {h} : Same(t)
<1>1. tasks \in [Slots -> EqTask] /\ tasks[h] \in EqTask
  BY DEF EqTyped, EqTypeOK
<1>2. tasks' = [tasks EXCEPT ![h] = [tasks[h] EXCEPT !.result = r]]
  BY <1>1 DEF Answer
<1>3. tasks'[h] = [tasks[h] EXCEPT !.result = r] /\ \A t \in Slots \ {h} : Same(t)
  BY <1>1, <1>2 DEF Same
<1>4. [tasks[h] EXCEPT !.result = r] \in EqTask
  BY <1>1 DEF EqTask
<1>5. tasks' \in [Slots -> EqTask]
  BY <1>1, <1>2, <1>4
<1>6. /\ tasks'[h].result = r /\ Step(h)' = Step(h) /\ tasks'[h].song = tasks[h].song
      /\ tasks'[h].fresh = tasks[h].fresh
  BY <1>1, <1>3 DEF EqTask, Step
<1>7. QED
  BY <1>3, <1>5, <1>6

-----------------------------------------------------------------------------
(* The order of the AVPlayer's commands and answers. *)

Queued(s) == \E i \in DOMAIN avQueue : avQueue[i] = s

\* One answer at a time is waiting to be consumed, at most one play call is not
\* superseded, a superseded call is not parked where it would return at once, and only
\* a play call is the latest one.
EqCalls ==
  /\ \A s, t \in Slots : ~Pending(s) /\ ~Pending(t) => s = t
  /\ \A s, t \in Slots : Latest(s) /\ Latest(t) => s = t
  /\ \A s \in Slots : Step(s) \in Harmless => Latest(s)
  /\ \A s \in Slots : Step(s) \in Keys => ~Latest(s)

\* The AVPlayer has each command it has not answered, once.
EqQueue ==
  /\ \A s \in Slots : Queued(s) <=> Step(s) \in Commanded /\ Pending(s)
  /\ \A s \in Slots : ~Before(s, s)
  /\ \A s \in Slots : ~Pending(s) => Step(s) \in Commanded

\* Steps of s that no step of t follows in the queue.
Crossed(s, t) ==
  \/ Step(s) \in {"pause", "start"} /\ Latest(s) /\ Step(t) = "pause"
  \/ Step(s) = "pause" /\ Step(t) = "startSeek"
  \/ Step(s) = "prepare" /\ Latest(s) /\ Step(t) = "prepare"

PlaysUnprepared(s, t) == Step(s) = "prepare" /\ Step(t) = "start"

EqOrder ==
  /\ \A s, t \in Slots : Before(s, t) => ~Crossed(s, t) /\ ~PlaysUnprepared(s, t)
  /\ \A s, t \in Slots : ~Pending(s) /\ s # t => ~Crossed(s, t)

InOrder == EqCalls /\ EqQueue /\ EqOrder

LEMMA BeforeQueued ==
  ASSUME NEW s, NEW t, Before(s, t)
  PROVE  Queued(s) /\ Queued(t)
BY DEF Before, Queued

LEMMA AppendOrder ==
  ASSUME avQueue \in Seq(Slots), NEW s \in Slots, avQueue' = Append(avQueue, s)
  PROVE  \A x, y \in Slots :
           /\ Queued(x)' <=> Queued(x) \/ x = s
           /\ Before(x, y)' => Before(x, y) \/ (Queued(x) /\ y = s)
<1>1. /\ Len(avQueue) \in Nat /\ DOMAIN avQueue = 1 .. Len(avQueue)
      /\ DOMAIN avQueue' = 1 .. Len(avQueue) + 1
      /\ \A i \in 1 .. Len(avQueue) : avQueue'[i] = avQueue[i]
      /\ avQueue'[Len(avQueue) + 1] = s
  OBVIOUS
<1>2. \A x \in Slots : Queued(x)' <=> Queued(x) \/ x = s
  BY <1>1 DEF Queued
<1>3. ASSUME NEW x \in Slots, NEW y \in Slots, Before(x, y)'
      PROVE  Before(x, y) \/ (Queued(x) /\ y = s)
  <2>1. PICK i, j \in DOMAIN avQueue' : i < j /\ avQueue'[i] = x /\ avQueue'[j] = y
    BY <1>3 DEF Before
  <2>2. i \in DOMAIN avQueue /\ avQueue[i] = x
    BY <1>1, <2>1
  <2>3. CASE j = Len(avQueue) + 1
    BY <1>1, <2>1, <2>2, <2>3 DEF Queued
  <2>4. CASE j # Len(avQueue) + 1
    BY <1>1, <2>1, <2>2, <2>4 DEF Before
  <2>5. QED
    BY <2>3, <2>4
<1>4. QED
  BY <1>2, <1>3

LEMMA TailOrder ==
  ASSUME avQueue \in Seq(Slots), avQueue # <<>>, NEW h \in Slots, h = Head(avQueue),
         avQueue' = Tail(avQueue)
  PROVE  /\ Queued(h)
         /\ \A x \in Slots : /\ Queued(x) /\ x # h => Queued(x)' /\ Before(h, x)
                             /\ Queued(x)' => Queued(x) /\ Before(h, x)
         /\ \A x, y \in Slots : Before(x, y)' => Before(x, y)
<1>1. /\ Len(avQueue) \in Nat \ {0} /\ DOMAIN avQueue = 1 .. Len(avQueue)
      /\ DOMAIN avQueue' = 1 .. Len(avQueue) - 1
      /\ \A i \in 1 .. Len(avQueue) - 1 : avQueue'[i] = avQueue[i + 1]
      /\ avQueue[1] = h
  OBVIOUS
<1>2. Queued(h)
  BY <1>1 DEF Queued
<1>3. ASSUME NEW x \in Slots, Queued(x), x # h
      PROVE  Queued(x)' /\ Before(h, x)
  <2>1. PICK i \in DOMAIN avQueue : avQueue[i] = x
    BY <1>3 DEF Queued
  <2>2. i - 1 \in DOMAIN avQueue' /\ avQueue'[i - 1] = x /\ 1 < i
    BY <1>1, <1>3, <2>1
  <2>3. Queued(x)'
    BY <2>2 DEF Queued
  <2>4. QED
    BY <1>1, <2>1, <2>2, <2>3 DEF Before
<1>4. ASSUME NEW x \in Slots, Queued(x)'
      PROVE  Queued(x) /\ Before(h, x)
  <2>1. PICK i \in DOMAIN avQueue' : avQueue'[i] = x
    BY <1>4 DEF Queued
  <2>2. i + 1 \in DOMAIN avQueue /\ avQueue[i + 1] = x /\ 1 < i + 1
    BY <1>1, <2>1
  <2>3. QED
    BY <1>1, <2>2 DEF Queued, Before
<1>5. ASSUME NEW x \in Slots, NEW y \in Slots, Before(x, y)'
      PROVE  Before(x, y)
  <2>1. PICK i, j \in DOMAIN avQueue' : i < j /\ avQueue'[i] = x /\ avQueue'[j] = y
    BY <1>5 DEF Before
  <2>2. /\ i + 1 \in DOMAIN avQueue /\ j + 1 \in DOMAIN avQueue /\ i + 1 < j + 1
        /\ avQueue[i + 1] = x /\ avQueue[j + 1] = y
    BY <1>1, <2>1
  <2>3. QED
    BY <2>2 DEF Before
<1>6. QED
  BY <1>2, <1>3, <1>4, <1>5

LEMMA SameOrder ==
  ASSUME avQueue' = avQueue
  PROVE  \A x, y : (Queued(x)' <=> Queued(x)) /\ (Before(x, y)' <=> Before(x, y))
BY DEF Queued, Before

\* Whether a step commands the AVPlayer or not, it joins the queue at its end.
LEMMA SendOrder ==
  ASSUME EqTyped, EqQueue, NEW s \in Slots, NEW step, Sends(s, step), Idle(s)
  PROVE  /\ ~Queued(s)
         /\ \A x \in Slots : Queued(x)' <=> Queued(x) \/ (x = s /\ step \in Commanded)
         /\ \A x, y \in Slots : Before(x, y)' =>
              \/ Before(x, y) /\ x # s /\ y # s
              \/ Queued(x) /\ x # s /\ y = s
<1>1. ~Queued(s)
  BY DEF EqQueue, Idle
<1>2. CASE step \in Commanded
  <2>1. avQueue' = Append(avQueue, s) /\ avQueue \in Seq(Slots)
    BY <1>2 DEF Sends, EqTyped
  <2>2. QED
    BY <1>1, <1>2, <2>1, AppendOrder, BeforeQueued
<1>3. CASE step \notin Commanded
  <2>1. avQueue' = avQueue
    BY <1>3 DEF Sends
  <2>2. QED
    BY <1>1, <1>3, <2>1, SameOrder, BeforeQueued
<1>4. QED
  BY <1>2, <1>3

-----------------------------------------------------------------------------
(* Every step of the engine keeps the commands in order. *)

Shape ==
  \/ tasks' = tasks /\ avQueue' = avQueue
  \/ \E s \in Slots : Quits(s)
  \/ \E s \in Slots, step \in Steps : Moves(s, step)
  \/ \E s \in Slots, step \in {"pause", "resolve"}, song \in Songs \cup {NoSong} :
       Begins(s, step, song, TRUE)
  \/ \E s \in Slots : Begins(s, "cancel", NoSong, FALSE)
  \/ \E s \in Slots, step \in {"togglePause", "togglePlay", "seek", "seekOnly", "eqSwitch"} :
       Adds(s, step)
  \/ tasks' = Superseded /\ avQueue' = avQueue
  \/ \E r \in {"ok", "fail"} : Answers(r)

LEMMA SameKeepsOrder ==
  ASSUME InOrder, tasks' = tasks, avQueue' = avQueue
  PROVE  InOrder'
BY SameOrder DEF InOrder, EqCalls, EqQueue, EqOrder, Crossed, PlaysUnprepared, Step, Pending, Latest

\* A call in its place, seen through the operators of the invariant.
LEMMA PlacedAs ==
  ASSUME NEW s, NEW step, NEW song, NEW fresh, Placed(s, step, song, fresh)
  PROVE  Step(s)' = step /\ Pending(s)' /\ Latest(s)' = fresh
BY DEF Placed, Pending, Latest

LEMMA SameAs ==
  ASSUME NEW t, Same(t)
  PROVE  Step(t)' = Step(t) /\ Pending(t)' = Pending(t) /\ Latest(t)' = Latest(t)
BY DEF Same, Step, Pending, Latest

LEMMA StaleAs ==
  ASSUME NEW t, Stale(t), ~Latest(t)'
  PROVE  /\ Step(t) \in Harmless => Step(t)' = "none" /\ Pending(t)'
         /\ Step(t) \notin Harmless => Step(t)' = Step(t) /\ Pending(t)' = Pending(t)
BY DEF Stale, Step, Pending, Latest, NoTask

LEMMA QuitKeepsOrder ==
  ASSUME EqTyped, InOrder, NEW s \in Slots, Quits(s)
  PROVE  InOrder'
<1>1. Placed(s, "none", NoSong, FALSE) /\ \A t \in Slots \ {s} : Same(t)
  BY QuitEffect DEF Quits
<1>2. /\ Step(s)' = "none" /\ Pending(s)' /\ Latest(s)' = FALSE
      /\ \A t \in Slots \ {s} :
           Step(t)' = Step(t) /\ Pending(t)' = Pending(t) /\ Latest(t)' = Latest(t)
  BY <1>1, PlacedAs, SameAs
<1>3. \A x, y \in Slots : (Queued(x)' <=> Queued(x)) /\ (Before(x, y)' <=> Before(x, y))
  BY SameOrder DEF Quits
<1>4. EqCalls'
  BY <1>2 DEF InOrder, EqCalls, Harmless, Keys
<1>5. EqQueue'
  BY <1>2, <1>3 DEF InOrder, EqQueue, Commanded, Quits, Idle
<1>6. EqOrder'
  BY <1>2, <1>3 DEF InOrder, EqOrder, Crossed, PlaysUnprepared
<1>7. QED
  BY <1>4, <1>5, <1>6 DEF InOrder

LEMMA MoveKeepsOrder ==
  ASSUME EqTyped, InOrder, NEW s \in Slots, NEW step \in Steps, Moves(s, step)
  PROVE  InOrder'
<1>1. Placed(s, step, tasks[s].song, tasks[s].fresh) /\ \A t \in Slots \ {s} : Same(t)
  BY MoveEffect DEF Moves
<1>2. /\ Step(s)' = step /\ Pending(s)' /\ Latest(s)' = Latest(s)
      /\ \A t \in Slots \ {s} :
           Step(t)' = Step(t) /\ Pending(t)' = Pending(t) /\ Latest(t)' = Latest(t)
  BY <1>1, PlacedAs, SameAs DEF Latest
<1>3. /\ ~Queued(s)
      /\ \A x \in Slots : Queued(x)' <=> Queued(x) \/ (x = s /\ step \in Commanded)
      /\ \A x, y \in Slots : Before(x, y)' =>
           \/ Before(x, y) /\ x # s /\ y # s
           \/ Queued(x) /\ x # s /\ y = s
  BY SendOrder DEF Moves, InOrder
<1>4. EqCalls'
  BY <1>2 DEF InOrder, EqCalls, Moves, Keys, Harmless
<1>5. EqQueue'
  <2>1. \A x \in Slots : ~Before(x, x)'
    BY <1>3 DEF InOrder, EqQueue
  <2>2. \A x \in Slots : Queued(x)' <=> Step(x)' \in Commanded /\ Pending(x)'
    BY <1>2, <1>3 DEF InOrder, EqQueue
  <2>3. \A x \in Slots : ~Pending(x)' => Step(x)' \in Commanded
    BY <1>2 DEF InOrder, EqQueue
  <2>4. QED
    BY <2>1, <2>2, <2>3 DEF EqQueue
<1>6. ASSUME NEW x \in Slots \ {s}
      PROVE  ~Crossed(x, s)' \/ (Pending(x) /\ ~Queued(x))
  <2>1. CASE step = "startSeek"
    <3>1. Latest(s) /\ ~Pending(s) /\ Step(s) = "start"
      BY <2>1 DEF Moves
    <3>2. Step(x) # "pause"
      BY <3>1 DEF InOrder, EqOrder, Crossed
    <3>3. QED
      BY <1>2, <2>1, <3>2 DEF Crossed
  <2>2. CASE step = "prepare"
    <3>1. Latest(s) /\ ~Latest(x)
      BY <2>2 DEF Moves, InOrder, EqCalls
    <3>2. QED
      BY <1>2, <2>2, <3>1 DEF Crossed
  <2>3. CASE step \notin {"pause", "prepare", "startSeek"}
    BY <1>2, <2>3 DEF Crossed
  <2>4. QED
    BY <2>1, <2>2, <2>3 DEF Moves
<1>7. ASSUME NEW x \in Slots \ {s}
      PROVE  ~PlaysUnprepared(x, s)'
  <2>1. CASE step = "start"
    <3>1. Latest(s) /\ ~Pending(s) /\ Step(s) = "prepare"
      BY <2>1 DEF Moves
    <3>2. Step(x) # "prepare"
      BY <3>1 DEF InOrder, EqOrder, Crossed
    <3>3. QED
      BY <1>2, <3>2 DEF PlaysUnprepared
  <2>2. CASE step # "start"
    BY <1>2, <2>2 DEF PlaysUnprepared
  <2>3. QED
    BY <2>1, <2>2
<1>8. EqOrder'
  <2>1. \A x, y \in Slots : Before(x, y)' => ~Crossed(x, y)' /\ ~PlaysUnprepared(x, y)'
    <3>1. SUFFICES ASSUME NEW x \in Slots, NEW y \in Slots, Before(x, y)'
                   PROVE  ~Crossed(x, y)' /\ ~PlaysUnprepared(x, y)'
      OBVIOUS
    <3>2. CASE Before(x, y) /\ x # s /\ y # s
      BY <1>2, <3>2 DEF InOrder, EqOrder, Crossed, PlaysUnprepared
    <3>3. CASE Queued(x) /\ x # s /\ y = s
      BY <1>6, <1>7, <3>3
    <3>4. QED
      BY <1>3, <3>1, <3>2, <3>3
  <2>2. \A x, y \in Slots : ~Pending(x)' /\ x # y => ~Crossed(x, y)'
    <3>1. SUFFICES ASSUME NEW x \in Slots, NEW y \in Slots, ~Pending(x)', x # y
                   PROVE  ~Crossed(x, y)'
      OBVIOUS
    <3>2. x # s /\ ~Pending(x)
      BY <1>2, <3>1
    <3>3. CASE y = s
      BY <1>6, <3>2, <3>3
    <3>4. CASE y # s
      BY <1>2, <3>1, <3>2, <3>4 DEF InOrder, EqOrder, Crossed
    <3>5. QED
      BY <3>3, <3>4
  <2>3. QED
    BY <2>1, <2>2 DEF EqOrder
<1>9. QED
  BY <1>4, <1>5, <1>8 DEF InOrder

\* A new call, or a cancelled loading: every call in flight is superseded.
LEMMA BeginKeepsOrder ==
  ASSUME EqTyped, InOrder, NEW s \in Slots, NEW song \in Songs \cup {NoSong}, NEW fresh \in BOOLEAN,
         NEW step \in {"pause", "resolve", "cancel"}, Begins(s, step, song, fresh),
         fresh <=> step # "cancel"
  PROVE  InOrder'
<1>1. /\ Placed(s, step, song, fresh)
      /\ \A t \in Slots \ {s} : Stale(t) /\ ~Latest(t)'
  BY BeginEffect DEF Begins, Steps, PlaySteps, OtherSteps
<1>2. /\ Step(s)' = step /\ Pending(s)' /\ Latest(s)' = fresh
      /\ \A t \in Slots \ {s} :
           /\ ~Latest(t)'
           /\ Step(t) \in Harmless => Step(t)' = "none" /\ Pending(t)'
           /\ Step(t) \notin Harmless => Step(t)' = Step(t) /\ Pending(t)' = Pending(t)
  BY <1>1, PlacedAs, StaleAs
<1>3. Idle(s)
  BY DEF Begins, Idle, Commanded
<1>4. /\ ~Queued(s)
      /\ \A x \in Slots : Queued(x)' <=> Queued(x) \/ (x = s /\ step \in Commanded)
      /\ \A x, y \in Slots : Before(x, y)' =>
           \/ Before(x, y) /\ x # s /\ y # s
           \/ Queued(x) /\ x # s /\ y = s
  BY <1>3, SendOrder DEF Begins, InOrder
<1>5. \A t \in Slots : Step(t) \in Harmless => Pending(t) /\ Step(t) \notin Commanded /\ Step(t) # "none"
  BY DEF InOrder, EqQueue, Harmless, Commanded
<1>6. EqCalls'
  BY <1>2, <1>5 DEF InOrder, EqCalls, Harmless, Keys
<1>7. EqQueue'
  <2>1. \A x \in Slots : ~Before(x, x)'
    BY <1>4 DEF InOrder, EqQueue
  <2>2. \A x \in Slots : Queued(x)' <=> Step(x)' \in Commanded /\ Pending(x)'
    BY <1>2, <1>4, <1>5 DEF InOrder, EqQueue, Commanded
  <2>3. \A x \in Slots : ~Pending(x)' => Step(x)' \in Commanded
    BY <1>2 DEF InOrder, EqQueue
  <2>4. QED
    BY <2>1, <2>2, <2>3 DEF EqQueue
<1>8. ASSUME NEW x \in Slots \ {s}, NEW y \in Slots, Step(x) \notin Harmless, y # s => Step(y) \notin Harmless \/ Pending(y)'
      PROVE  Crossed(x, y)' => y # s /\ Crossed(x, y)
  BY <1>2, <1>8 DEF Crossed
<1>9. EqOrder'
  <2>1. \A x, y \in Slots : Before(x, y)' => ~Crossed(x, y)' /\ ~PlaysUnprepared(x, y)'
    <3>1. SUFFICES ASSUME NEW x \in Slots, NEW y \in Slots, Before(x, y)'
                   PROVE  ~Crossed(x, y)' /\ ~PlaysUnprepared(x, y)'
      OBVIOUS
    <3>2. x # s /\ Queued(x) /\ Step(x) \notin Harmless
      BY <1>4, <1>5, <3>1, BeforeQueued DEF InOrder, EqQueue
    <3>3. CASE y = s
      BY <1>2, <3>2, <3>3 DEF Crossed, PlaysUnprepared
    <3>4. CASE y # s
      <4>1. Before(x, y) /\ Step(y) \notin Harmless
        BY <1>4, <1>5, <3>1, <3>4, BeforeQueued DEF InOrder, EqQueue
      <4>2. QED
        BY <1>2, <3>2, <3>4, <4>1 DEF Crossed, PlaysUnprepared, InOrder, EqOrder
    <3>5. QED
      BY <3>3, <3>4
  <2>2. \A x, y \in Slots : ~Pending(x)' /\ x # y => ~Crossed(x, y)'
    <3>1. SUFFICES ASSUME NEW x \in Slots, NEW y \in Slots, ~Pending(x)', x # y
                   PROVE  ~Crossed(x, y)'
      OBVIOUS
    <3>2. x # s /\ Step(x) \notin Harmless /\ ~Pending(x)
      BY <1>2, <3>1
    <3>3. ~Crossed(x, y)
      BY <3>1, <3>2 DEF InOrder, EqOrder
    <3>4. QED
      BY <1>2, <3>2, <3>3 DEF Crossed
  <2>3. QED
    BY <2>1, <2>2 DEF EqOrder
<1>10. QED
  BY <1>6, <1>7, <1>9 DEF InOrder

LEMMA AddKeepsOrder ==
  ASSUME EqTyped, InOrder, NEW s \in Slots,
         NEW step \in {"togglePause", "togglePlay", "seek", "seekOnly", "eqSwitch"}, Adds(s, step)
  PROVE  InOrder'
<1>1. Placed(s, step, NoSong, FALSE) /\ \A t \in Slots \ {s} : Same(t)
  BY AddEffect DEF Adds, Steps, OtherSteps
<1>2. /\ Step(s)' = step /\ Pending(s)' /\ Latest(s)' = FALSE
      /\ \A t \in Slots \ {s} :
           Step(t)' = Step(t) /\ Pending(t)' = Pending(t) /\ Latest(t)' = Latest(t)
  BY <1>1, PlacedAs, SameAs
<1>3. Step(s) = "none" /\ Idle(s)
  BY DEF Adds, Free, Step, Idle, Commanded
<1>4. /\ ~Queued(s)
      /\ \A x \in Slots : Queued(x)' <=> Queued(x) \/ (x = s /\ step \in Commanded)
      /\ \A x, y \in Slots : Before(x, y)' =>
           \/ Before(x, y) /\ x # s /\ y # s
           \/ Queued(x) /\ x # s /\ y = s
  BY <1>3, SendOrder DEF Adds, InOrder
<1>5. EqCalls'
  BY <1>2 DEF InOrder, EqCalls, Harmless, Keys
<1>6. EqQueue'
  BY <1>2, <1>4 DEF InOrder, EqQueue
<1>7. EqOrder'
  BY <1>2, <1>4 DEF InOrder, EqOrder, Crossed, PlaysUnprepared
<1>8. QED
  BY <1>5, <1>6, <1>7 DEF InOrder

LEMMA SupersededKeepsOrder ==
  ASSUME EqTyped, InOrder, tasks' = Superseded, avQueue' = avQueue
  PROVE  InOrder'
<1>1. \A t \in Slots :
        /\ ~Latest(t)'
        /\ Step(t) \in Harmless => Step(t)' = "none" /\ Pending(t)'
        /\ Step(t) \notin Harmless => Step(t)' = Step(t) /\ Pending(t)' = Pending(t)
  BY SupersededEffect, StaleAs
<1>2. \A x, y \in Slots : (Queued(x)' <=> Queued(x)) /\ (Before(x, y)' <=> Before(x, y))
  BY SameOrder
<1>3. \A t \in Slots : Step(t) \in Harmless => Pending(t) /\ Step(t) \notin Commanded /\ ~Queued(t)
  BY DEF InOrder, EqQueue, Harmless, Commanded
<1>4. EqCalls'
  BY <1>1 DEF InOrder, EqCalls, Harmless, Keys
<1>5. EqQueue'
  BY <1>1, <1>2, <1>3 DEF InOrder, EqQueue, Commanded
<1>6. EqOrder'
  <2>1. \A x, y \in Slots : Before(x, y) => Step(x) \notin Harmless /\ Step(y) \notin Harmless
    BY <1>3, BeforeQueued
  <2>2. QED
    BY <1>1, <1>2, <2>1 DEF InOrder, EqOrder, Crossed, PlaysUnprepared
<1>7. QED
  BY <1>4, <1>5, <1>6 DEF InOrder

LEMMA AnswerKeepsOrder ==
  ASSUME EqTyped, InOrder, NEW r \in {"ok", "fail"}, Answers(r)
  PROVE  InOrder'
<1>0. PICK h \in Slots : h = Head(avQueue)
  BY HeadIsCall DEF Answers, Due
<1>1. /\ tasks'[h].result = r /\ Step(h)' = Step(h) /\ tasks'[h].fresh = tasks[h].fresh
      /\ \A t \in Slots \ {h} : Same(t)
  BY <1>0, AnswerEffect DEF Answers
<1>2. /\ Step(h)' = Step(h) /\ ~Pending(h)' /\ Latest(h)' = Latest(h)
      /\ \A t \in Slots \ {h} :
           Step(t)' = Step(t) /\ Pending(t)' = Pending(t) /\ Latest(t)' = Latest(t)
  BY <1>1, SameAs DEF Pending, Latest
<1>3. \A t \in Slots : Pending(t)
  BY DEF Answers, Due, Pending
<1>4. /\ Queued(h)
      /\ \A x \in Slots : /\ Queued(x) /\ x # h => Queued(x)' /\ Before(h, x)
                          /\ Queued(x)' => Queued(x) /\ Before(h, x)
      /\ \A x, y \in Slots : Before(x, y)' => Before(x, y)
  BY <1>0, TailOrder DEF Answers, Due, EqTyped
<1>5. EqCalls'
  BY <1>2, <1>3 DEF InOrder, EqCalls
<1>6. EqQueue'
  BY <1>2, <1>3, <1>4 DEF InOrder, EqQueue
<1>7. EqOrder'
  <2>1. \A x, y \in Slots : Crossed(x, y)' => Crossed(x, y)
    BY <1>2 DEF Crossed
  <2>2. \A x, y \in Slots : PlaysUnprepared(x, y)' => PlaysUnprepared(x, y)
    BY <1>2 DEF PlaysUnprepared
  <2>3. \A y \in Slots \ {h} : Crossed(h, y) => Before(h, y)
    BY <1>3, <1>4 DEF InOrder, EqQueue, Crossed, Commanded
  <2>4. QED
    BY <1>2, <1>3, <1>4, <2>1, <2>2, <2>3 DEF InOrder, EqOrder
<1>8. QED
  BY <1>5, <1>6, <1>7 DEF InOrder

LEMMA ShapeKeepsOrder ==
  ASSUME EqTyped, InOrder, Shape
  PROVE  InOrder'
<1>1. NoSong \in Songs \cup {NoSong}
  OBVIOUS
<1>2. QED
  BY <1>1, SameKeepsOrder, QuitKeepsOrder, MoveKeepsOrder, BeginKeepsOrder, AddKeepsOrder,
     SupersededKeepsOrder, AnswerKeepsOrder DEF Shape

-----------------------------------------------------------------------------
(* Every step of the engine has one of the shapes. *)

LEMMA AnsweredIsIdle ==
  ASSUME NEW s \in Slots, NEW step, Answered(s, step)
  PROVE  Step(s) = step /\ ~Pending(s) /\ Idle(s)
BY DEF Answered, Step, Pending, Idle

LEMMA QuitShape ==
  ASSUME NEW s \in Slots, Idle(s), Finish(s), avQueue' = avQueue
  PROVE  Shape
BY DEF Shape, Quits

LEMMA MoveShape ==
  ASSUME NEW s \in Slots, NEW step \in Steps, Moves(s, step)
  PROVE  Shape
BY DEF Shape

\* A step that is neither a request of the latest call nor one of its commands.
LEMMA PlainMove ==
  ASSUME NEW s \in Slots, Idle(s), Step(s) # "pause",
         NEW step \in {"reset", "background", "seekPlay", "nativeReset", "init"},
         step = "seekPlay" => Step(s) = "seek" /\ tasks[s].result = "ok",
         step = "nativeReset" => ~forceAv,
         Goto(s, step), Sends(s, step)
  PROVE  Moves(s, step) /\ step \in Steps
BY DEF Moves, Harmless, Keys, Steps, PlaySteps, OtherSteps

LEMMA AwaitSends ==
  ASSUME NEW s \in Slots, NEW step \in Commanded, Await(s, step)
  PROVE  Goto(s, step) /\ Sends(s, step)
BY DEF Await, Sends

LEMMA GiveUpShape ==
  ASSUME NEW s \in Slots, Idle(s), Step(s) # "pause", GiveUp(s)
  PROVE  Quits(s) \/ Moves(s, "background")
<1>1. CASE Finish(s) /\ avQueue' = avQueue
  BY <1>1 DEF Quits
<1>2. CASE Await(s, "background")
  BY <1>2, AwaitSends, PlainMove DEF Commanded
<1>3. QED
  BY <1>1, <1>2 DEF GiveUp, ResetInBackground

LEMMA ThrownShape ==
  ASSUME NEW s \in Slots, Idle(s), Step(s) # "pause", Thrown(s)
  PROVE  Quits(s) \/ Moves(s, "background")
BY GiveUpShape DEF Thrown, Expired, Quits, av

\* A new song is one that NewSong sees.
LEMMA PauseIsNew ==
  ASSUME EqTyped, NEW song \in Songs \cup {NoSong}, PlayNew(song)
  PROVE  PlaysNew
<1>1. PICK s \in Slots : Free(s) /\ tasks' = [Superseded EXCEPT ![s] = At("pause", song, TRUE)]
  BY DEF PlayNew
<1>2. Placed(s, "pause", song, TRUE)
  BY <1>1, BeginEffect DEF Steps, PlaySteps
<1>3. QED
  BY <1>1, <1>2 DEF PlaysNew, Placed, Step

LEMMA NextInQueueShape ==
  ASSUME EqTyped, NEW skip, NextInQueue(skip), NewSong
  PROVE  \/ tasks' = tasks /\ avQueue' = avQueue
         \/ \E s \in Slots, song \in Songs : Begins(s, "pause", song, TRUE)
<1>1. ASSUME NEW song \in Songs, PlayNew(song)
      PROVE  \E s \in Slots : Begins(s, "pause", song, TRUE)
  <2>1. StopIfUsed
    BY <1>1, PauseIsNew DEF NewSong
  <2>2. QED
    BY <1>1, <2>1 DEF PlayNew, Begins, Sends, Commanded, Free, Step
<1>2. QED
  BY <1>1 DEF NextInQueue

LEMMA PlayAgainShape ==
  ASSUME PlayAgain
  PROVE  \E s \in Slots : Begins(s, "resolve", currentSong, TRUE)
BY DEF PlayAgain, Begins, Sends, Commanded, Free, Step

LEMMA RefreshShape ==
  ASSUME NEW s \in Slots, Refresh(s), Step(s) \in {"none", "eqSwitch"}
  PROVE  Begins(s, "resolve", currentSong, TRUE)
BY DEF Refresh, Begins, Sends, Commanded

\* startResolvedPlayback hands the song to the AVPlayer, or has it reset first.
LEMMA ResolvedShape ==
  ASSUME InOrder, NEW s \in Slots, Resolved(s)
  PROVE  /\ Step(s) \in {"resolve", "resolveAgain"} /\ Idle(s) /\ Latest(s)
         /\ \/ Moves(s, "reset") /\ UNCHANGED <<engine, avState, avSong, avEvents>>
            \/ /\ Moves(s, "init") /\ avState = "idle" /\ avSong' = tasks[s].song
               /\ UNCHANGED <<engine, avState, avEvents>>
<1>1. Step(s) \in {"resolve", "resolveAgain"}
  BY DEF Resolved, Step
<1>2. Idle(s) /\ Latest(s)
  BY <1>1 DEF Idle, Commanded, InOrder, EqCalls, Harmless
<1>3. CASE Await(s, "reset") /\ UNCHANGED <<engine, avState, avSong, avEvents>>
  BY <1>1, <1>2, <1>3, AwaitSends, PlainMove DEF Commanded
<1>4. CASE /\ avState = "idle" /\ Goto(s, "init") /\ avSong' = tasks[s].song
           /\ UNCHANGED <<engine, avState, avQueue, avEvents>>
  <2>1. Sends(s, "init")
    BY <1>4 DEF Sends, Commanded
  <2>2. QED
    BY <1>1, <1>2, <1>4, <2>1, PlainMove
<1>5. QED
  BY <1>3, <1>4 DEF Resolved

\* playerStart ends the call.
LEMMA NativeShape ==
  ASSUME NEW s \in Slots, Idle(s), PlayNatively(s)
  PROVE  Quits(s)
BY DEF PlayNatively, Quits, av

LEMMA PlainShape ==
  ASSUME EqTyped, InOrder, NEW s \in Slots, PlainStep(s)
  PROVE  Shape
<1>1. CASE AfterPause(s)
  <2>1. Idle(s) /\ avQueue' = avQueue
    BY <1>1, AnsweredIsIdle DEF AfterPause, av
  <2>2. CASE tasks[s].fresh /\ Goto(s, "resolve")
    <3>1. Step(s) = "pause" /\ currentSong' = tasks[s].song
      BY <1>1, AnsweredIsIdle DEF AfterPause, ShowLoading
    <3>2. Moves(s, "resolve")
      BY <2>1, <2>2, <3>1 DEF Moves, Sends, Commanded, Latest, Harmless, Keys
    <3>3. QED
      BY <3>2, MoveShape DEF Steps, PlaySteps
  <2>3. QED
    BY <1>1, <2>1, <2>2, QuitShape DEF AfterPause
<1>2. CASE AfterDelay(s)
  <2>1. Step(s) = "delay" /\ avQueue' = avQueue /\ Goto(s, "resolveAgain")
    BY <1>2 DEF AfterDelay, Step, av
  <2>2. Moves(s, "resolveAgain")
    BY <2>1 DEF Moves, Sends, Commanded, Idle, Harmless, Keys, InOrder, EqCalls
  <2>3. QED
    BY <2>2, MoveShape DEF Steps, PlaySteps
<1>3. CASE AfterReset(s)
  <2>1. Idle(s) /\ Step(s) = "reset"
    BY <1>3, AnsweredIsIdle DEF AfterReset
  <2>2. CASE NotStarted(s)
    BY <2>1, <2>2, QuitShape DEF NotStarted, av
  <2>3. CASE Goto(s, "init") /\ avQueue' = avQueue
    BY <2>1, <2>3, PlainMove, MoveShape DEF Sends, Commanded
  <2>4. QED
    BY <1>3, <2>2, <2>3 DEF AfterReset
<1>4. CASE InitializeTimeout(s)
  <2>1. Idle(s)
    BY <1>4 DEF InitializeTimeout, Idle, Step, Commanded
  <2>2. QED
    BY <1>4, <2>1, QuitShape DEF InitializeTimeout, NotStarted, av
<1>5. CASE AfterToggle(s) \/ AfterBackgroundReset(s)
  <2>1. Idle(s)
    BY <1>5, AnsweredIsIdle DEF AfterToggle, AfterBackgroundReset
  <2>2. QED
    BY <1>5, <2>1, QuitShape DEF AfterToggle, AfterBackgroundReset, Expired, av
<1>6. CASE AfterSeek(s)
  <2>1. Idle(s)
    BY <1>6, AnsweredIsIdle DEF AfterSeek
  <2>2. CASE Expired(s)
    BY <2>1, <2>2, QuitShape DEF Expired, av
  <2>3. CASE Await(s, "seekPlay")
    <3>1. (Step(s) = "seek" /\ tasks[s].result = "ok") \/ Expired(s)
      BY <1>6, AnsweredIsIdle DEF AfterSeek
    <3>2. QED
      BY <2>1, <2>3, <2>2, <3>1, AwaitSends, PlainMove, MoveShape DEF Commanded
  <2>4. QED
    BY <1>6, <2>2, <2>3 DEF AfterSeek
<1>7. QED
  BY <1>1, <1>2, <1>3, <1>4, <1>5, <1>6 DEF PlainStep

LEMMA BackgroundIsStep == "background" \in Steps
BY DEF Steps, OtherSteps

LEMMA TaskShape ==
  ASSUME EqTyped, InOrder, NEW s \in Slots, EqContinue(s)
  PROVE  Shape
<1>1. CASE Quits(s)
  BY <1>1 DEF Shape
<1>2. ASSUME NEW step \in Steps, Moves(s, step) PROVE Shape
  BY <1>2, MoveShape
<1>3. CASE EqUnresolved(s)
  <2>1. Step(s) \in {"resolve", "resolveAgain"}
    BY <1>3 DEF EqUnresolved, Unresolved, Step
  <2>2. Idle(s) /\ Latest(s)
    BY <2>1 DEF Idle, Commanded, Harmless, InOrder, EqCalls
  <2>3. CASE Goto(s, "delay") /\ avQueue' = avQueue
    <3>1. Moves(s, "delay") /\ "delay" \in Steps
      BY <2>1, <2>2, <2>3 DEF Moves, Sends, Commanded, Keys, Steps, PlaySteps
    <3>2. QED
      BY <1>2, <3>1
  <2>4. CASE GiveUp(s)
    BY <1>1, <1>2, <2>1, <2>2, <2>4, GiveUpShape, BackgroundIsStep
  <2>5. QED
    BY <1>3, <2>3, <2>4 DEF EqUnresolved, Unresolved, av
<1>4. CASE EqResolved(s)
  <2>1. CASE Resolved(s)
    BY <1>2, <2>1, ResolvedShape DEF Steps, PlaySteps
  <2>2. CASE Step(s) \in {"resolve", "resolveAgain"} /\ Await(s, "nativeReset") /\ ~forceAv
    <3>1. Idle(s)
      BY <2>2 DEF Idle, Commanded
    <3>2. QED
      BY <1>2, <2>2, <3>1, AwaitSends, PlainMove DEF Commanded
  <2>3. CASE Step(s) \in {"resolve", "resolveAgain"} /\ PlayNatively(s)
    <3>1. Idle(s)
      BY <2>3 DEF Idle, Commanded
    <3>2. QED
      BY <1>1, <2>3, <3>1, NativeShape
  <2>4. QED
    BY <1>4, <2>1, <2>2, <2>3 DEF EqResolved, Step
<1>5. CASE AfterNativeReset(s)
  BY <1>1, <1>5, AnsweredIsIdle, NativeShape DEF AfterNativeReset
<1>6. CASE EqPollInitialized(s)
  <2>1. Step(s) = "init" /\ Idle(s)
    BY <1>6 DEF EqPollInitialized, PollInitialized, Step, Idle, Commanded
  <2>2. CASE NotStarted(s)
    BY <1>1, <2>1, <2>2 DEF NotStarted, Quits, av
  <2>3. CASE tasks[s].fresh /\ Await(s, "prepare")
    <3>1. Moves(s, "prepare") /\ "prepare" \in Steps
      BY <2>1, <2>3, AwaitSends DEF Moves, Commanded, Keys, Latest, Steps, PlaySteps
    <3>2. QED
      BY <1>2, <3>1
  <2>4. QED
    BY <1>6, <2>2, <2>3 DEF EqPollInitialized, PollInitialized
<1>7. ASSUME Answered(s, "prepare") \/ Answered(s, "start") \/ Answered(s, "startSeek"),
             Thrown(s) \/ NotStarted(s) \/ (Finish(s) /\ avQueue' = avQueue)
      PROVE  Shape
  <2>1. Idle(s) /\ Step(s) # "pause"
    BY <1>7, AnsweredIsIdle
  <2>2. CASE Thrown(s)
    BY <1>1, <1>2, <2>1, <2>2, ThrownShape, BackgroundIsStep
  <2>3. QED
    BY <1>1, <1>7, <2>1, <2>2 DEF NotStarted, Quits, av
<1>8. CASE EqAfterPrepare(s)
  <2>1. Answered(s, "prepare")
    BY <1>8 DEF EqAfterPrepare, AfterPrepare
  <2>2. CASE tasks[s].fresh /\ Await(s, "start")
    <3>1. Moves(s, "start") /\ "start" \in Steps
      BY <2>1, <2>2, AnsweredIsIdle, AwaitSends DEF Moves, Commanded, Keys, Latest, Steps, PlaySteps
    <3>2. QED
      BY <1>2, <3>1
  <2>3. tasks[s].fresh \in BOOLEAN /\ tasks[s].result \in {"pending", "ok", "fail"}
    BY TasksTyped DEF Latest
  <2>4. QED
    BY <1>7, <1>8, <2>1, <2>2, <2>3 DEF EqAfterPrepare, AfterPrepare, StartedWith, av
<1>9. CASE EqAfterStart(s)
  <2>1. Answered(s, "start")
    BY <1>9 DEF EqAfterStart, AfterStart
  <2>2. CASE tasks[s].fresh /\ Await(s, "startSeek")
    <3>1. Moves(s, "startSeek") /\ "startSeek" \in Steps
      BY <2>1, <2>2, AnsweredIsIdle, AwaitSends DEF Moves, Commanded, Keys, Latest, Steps
    <3>2. QED
      BY <1>2, <3>1
  <2>3. tasks[s].fresh \in BOOLEAN /\ tasks[s].result \in {"pending", "ok", "fail"}
    BY TasksTyped DEF Latest
  <2>4. QED
    BY <1>7, <1>9, <2>1, <2>2, <2>3 DEF EqAfterStart, AfterStart, StartedWith, av
<1>10. CASE AfterStartSeek(s)
  BY <1>7, <1>10 DEF AfterStartSeek, StartedWith, av
<1>11. CASE AfterEqSwitch(s)
  <2>1. currentSong \in Songs \cup {NoSong}
    BY DEF EqTyped
  <2>2. Begins(s, "resolve", currentSong, TRUE)
    BY <1>11, RefreshShape DEF AfterEqSwitch, Step
  <2>3. QED
    BY <2>1, <2>2 DEF Shape
<1>12. QED
  BY <1>3, <1>4, <1>5, <1>6, <1>8, <1>9, <1>10, <1>11, PlainShape DEF EqContinue

LEMMA ToggleShape ==
  ASSUME EqTyped, EqTogglePlay
  PROVE  Shape
<1>1. CASE TogglePlay /\ ~usingNativeEq
  <2>1. CASE \E s \in Slots : Free(s) /\ avQueue' = Append(avQueue, s) /\ tasks' = [tasks EXCEPT ![s] =
                 At(IF status = "PLAYING" THEN "togglePause" ELSE "togglePlay", NoSong, FALSE)]
    <3>1. PICK s \in Slots, step \in {"togglePause", "togglePlay"} : Adds(s, step)
      BY <1>1, <2>1 DEF Adds, Sends, Commanded
    <3>2. QED
      BY <3>1 DEF Shape
  <2>2. CASE tasks' = Superseded /\ avQueue' = avQueue
    BY <2>2 DEF Shape
  <2>3. CASE \E s \in Slots : /\ Free(s) /\ avQueue' = Append(avQueue, s)
                              /\ tasks' = [Superseded EXCEPT ![s] = At("cancel", NoSong, FALSE)]
    BY <2>3 DEF Shape, Begins, Sends, Commanded, Free, Step
  <2>4. CASE PlayNew(currentSong)
    <3>0. NewSong /\ currentSong \in Songs \cup {NoSong}
      BY <1>1 DEF EqTogglePlay, EqTyped
    <3>1. PICK s \in Slots : Begins(s, "pause", currentSong, TRUE)
      <4>1. StopIfUsed
        BY <2>4, <3>0, PauseIsNew DEF NewSong
      <4>2. QED
        BY <2>4, <4>1 DEF PlayNew, Begins, Sends, Commanded, Free, Step
    <3>2. QED
      BY <3>1 DEF Shape, EqTyped
  <2>5. QED
    BY <1>1, <2>1, <2>2, <2>3, <2>4 DEF TogglePlay
<1>2. CASE tasks' = tasks /\ avQueue' = avQueue
  BY <1>2 DEF Shape
<1>3. CASE tasks' = Superseded /\ avQueue' = avQueue
  BY <1>3 DEF Shape
<1>4. QED
  BY <1>1, <1>2, <1>3 DEF EqTogglePlay, av

LEMMA OtherShape ==
  ASSUME EqTyped,
         EqTogglePlay \/ EqSeekTo \/ SetEqEnabled \/ PollNative \/ EqLoadingTimeout
           \/ EqErrorSkipTimeout \/ EqDevice \/ EqOnCompleted \/ EqUserPlays \/ NativeThreads
  PROVE  Shape
<1>0. CASE tasks' = tasks /\ avQueue' = avQueue
  BY <1>0 DEF Shape
<1>1. ASSUME NEW skip, NextInQueue(skip), NewSong PROVE Shape
  BY <1>1, NextInQueueShape DEF Shape
<1>2. CASE PlayAgain
  BY <1>2, PlayAgainShape DEF Shape, EqTyped
<1>3. CASE EqSeekTo
  <2>1. CASE SeekTo /\ ~usingNativeEq
    <3>1. PICK s \in Slots, step \in {"seek", "seekOnly"} : Adds(s, step)
      BY <2>1 DEF SeekTo, Adds, Sends, Commanded
    <3>2. QED
      BY <3>1 DEF Shape
  <2>2. QED
    BY <1>0, <1>3, <2>1 DEF EqSeekTo, av
<1>4. CASE SetEqEnabled
  <2>1. CASE \E s \in Slots : Free(s) /\ tasks' = [tasks EXCEPT ![s] = At("eqSwitch", NoSong, FALSE)]
    BY <1>4, <2>1 DEF SetEqEnabled, Shape, Adds, Sends, Commanded, av
  <2>2. QED
    BY <1>0, <1>4, <2>1 DEF SetEqEnabled, av
<1>5. CASE PollNative
  <2>1. CASE \E s \in Slots : Free(s) /\ Refresh(s)
    BY <2>1, RefreshShape DEF Shape, EqTyped, Free, Step
  <2>2. QED
    BY <1>0, <1>1, <1>5, <2>1 DEF PollNative, PollShows, PollCompleted, PollFailed, av
<1>6. CASE EqLoadingTimeout
  <2>1. ASSUME NEW s \in Slots, Free(s), GiveUp(s) PROVE Shape
    <3>1. Idle(s) /\ Step(s) # "pause"
      BY <2>1 DEF Free, Idle, Step, Commanded
    <3>2. Quits(s) \/ Moves(s, "background")
      BY <2>1, <3>1, GiveUpShape
    <3>3. QED
      BY <3>2, BackgroundIsStep DEF Shape
  <2>2. QED
    BY <1>0, <1>2, <1>6, <2>1 DEF EqLoadingTimeout, LoadingTimeout
<1>7. CASE EqErrorSkipTimeout \/ EqOnCompleted \/ EqUserPlays
  BY <1>1, <1>7 DEF EqErrorSkipTimeout, EqOnCompleted, EqUserPlays, ErrorSkipTimeout, OnCompleted, UserPlays
<1>8. CASE EqDevice
  <2>1. CASE AvSucceeds \/ AvRejects
    <3>1. \/ AvSucceeds /\ Due /\ Answer("ok") /\ avQueue' = Tail(avQueue)
          \/ AvRejects /\ Due /\ Answer("fail") /\ avQueue' = Tail(avQueue)
      BY <2>1 DEF AvSucceeds, AvRejects
    <3>2. QED
      BY <3>1 DEF Shape, Answers
  <2>2. CASE OnStateError \/ OnError
    BY <1>0, <1>2, <2>2 DEF OnStateError, OnError
  <2>3. CASE AvInitialized \/ AvFails
    BY <1>0, <2>3 DEF AvInitialized, AvFails
  <2>4. QED
    BY <1>8, <2>1, <2>2, <2>3 DEF EqDevice, EqAvSucceeds
<1>9. CASE NativeThreads
  BY <1>0, <1>9 DEF NativeThreads, vars, av
<1>10. QED
  BY <1>3, <1>4, <1>5, <1>6, <1>7, <1>8, <1>9, ToggleShape

LEMMA NextShape ==
  ASSUME EqTyped, InOrder, [EqNext]_eqVars
  PROVE  Shape
<1>1. CASE UNCHANGED eqVars
  BY <1>1 DEF eqVars, vars, av, Shape
<1>2. CASE EqNext
  BY <1>2, TaskShape, OtherShape DEF EqNext, EqUserActs
<1>3. QED
  BY <1>1, <1>2

-----------------------------------------------------------------------------
(* Types. *)

EngineTyped ==
  /\ status \in Statuses
  /\ currentSong \in Songs \cup {NoSong}
  /\ retryNum \in 0 .. 2
  /\ loadingTimer \in BOOLEAN
  /\ errorSkip \in BOOLEAN

AvTyped ==
  /\ avState \in AvStates
  /\ avSong \in Songs \cup {NoSong}
  /\ avEvents \subseteq {"stateChange", "error"}

PlayerTyped ==
  /\ usingNativeEq \in BOOLEAN /\ nativeAuto \in BOOLEAN
  /\ native \in Native!NativeStates
  /\ nativeSong \in Songs \cup {NoSong}

EqPartTyped ==
  /\ {eqEnabled, forceAv, polling, handled} \subseteq BOOLEAN
  /\ pending \in [auto : BOOLEAN, seek : BOOLEAN]

CallsTyped == tasks \in [Slots -> EqTask] /\ avQueue \in Seq(Slots)

LEMMA TypedParts ==
  EqTyped <=> EngineTyped /\ AvTyped /\ PlayerTyped /\ EqPartTyped /\ CallsTyped
BY DEF EqTyped, EqTypeOK, EngineTyped, AvTyped, PlayerTyped, EqPartTyped, CallsTyped

LEMMA ShapeTyped ==
  ASSUME EqTyped, Shape
  PROVE  CallsTyped'
<1>0. avQueue \in Seq(Slots) /\ tasks \in [Slots -> EqTask] /\ NoSong \in Songs \cup {NoSong}
  BY DEF EqTyped, EqTypeOK
<1>1. CASE tasks' = tasks /\ avQueue' = avQueue
  BY <1>0, <1>1 DEF CallsTyped
<1>2. CASE \E s \in Slots : Quits(s)
  BY <1>0, <1>2, QuitEffect DEF CallsTyped, Quits
<1>3. CASE \E s \in Slots, step \in Steps : Moves(s, step)
  BY <1>0, <1>3, MoveEffect DEF CallsTyped, Moves, Sends
<1>4. ASSUME NEW s \in Slots, NEW step \in {"pause", "resolve", "cancel"}, NEW song \in Songs \cup {NoSong},
             NEW fresh \in BOOLEAN, Begins(s, step, song, fresh)
      PROVE  CallsTyped'
  <2>1. step \in Steps
    BY DEF Steps, PlaySteps, OtherSteps
  <2>2. tasks' \in [Slots -> EqTask]
    BY <1>4, <2>1, BeginEffect DEF Begins
  <2>3. avQueue' \in Seq(Slots)
    BY <1>0, <1>4 DEF Begins, Sends
  <2>4. QED
    BY <2>2, <2>3 DEF CallsTyped
<1>5. ASSUME NEW s \in Slots, NEW step \in {"togglePause", "togglePlay", "seek", "seekOnly", "eqSwitch"},
             Adds(s, step)
      PROVE  CallsTyped'
  <2>1. step \in Steps
    BY DEF Steps, PlaySteps, OtherSteps
  <2>2. tasks' \in [Slots -> EqTask]
    BY <1>5, <2>1, AddEffect DEF Adds
  <2>3. avQueue' \in Seq(Slots)
    BY <1>0, <1>5 DEF Adds, Sends
  <2>4. QED
    BY <2>2, <2>3 DEF CallsTyped
<1>6. CASE tasks' = Superseded /\ avQueue' = avQueue
  BY <1>0, <1>6, SupersededTyped DEF CallsTyped
<1>7. ASSUME NEW r \in {"ok", "fail"}, Answers(r) PROVE CallsTyped'
  <2>1. PICK h \in Slots : h = Head(avQueue)
    BY <1>7, HeadIsCall DEF Answers, Due
  <2>2. tasks' \in [Slots -> EqTask]
    BY <1>7, <2>1, AnswerEffect DEF Answers
  <2>3. avQueue' \in Seq(Slots)
    BY <1>0, <1>7 DEF Answers, Due
  <2>4. QED
    BY <2>2, <2>3 DEF CallsTyped
<1>8. QED
  BY <1>0, <1>1, <1>2, <1>3, <1>4, <1>5, <1>6, <1>7 DEF Shape

\* A step that stops the native player, starts it or leaves it alone keeps its types.
LEMMA StopTyped ==
  ASSUME PlayerTyped, StopNative \/ StopIfUsed
  PROVE  PlayerTyped'
BY DEF PlayerTyped, StopNative, StopIfUsed, player, Native!PlayerStop, Native!NativeStates

LEMMA ResetTyped ==
  ASSUME PlayerTyped, EqPartTyped, ResetNative
  PROVE  PlayerTyped' /\ EqPartTyped'
BY StopTyped DEF ResetNative, EqPartTyped

LEMMA PendingTyped == NothingPending \in [auto : BOOLEAN, seek : BOOLEAN]
BY DEF NothingPending

LEMMA NewSongTyped ==
  ASSUME PlayerTyped, NewSong, pending \in [auto : BOOLEAN, seek : BOOLEAN]
  PROVE  PlayerTyped' /\ pending' \in [auto : BOOLEAN, seek : BOOLEAN]
BY StopTyped, PendingTyped DEF NewSong, PlayerTyped, player

LEMMA EqSameTyped ==
  ASSUME PlayerTyped, EqPartTyped, UNCHANGED eq
  PROVE  PlayerTyped' /\ EqPartTyped'
BY DEF eq, player, PlayerTyped, EqPartTyped

LEMMA StartTyped ==
  ASSUME EqTyped, NEW s \in Slots, PlayNatively(s)
  PROVE  EngineTyped' /\ AvTyped' /\ PlayerTyped' /\ EqPartTyped'
<1>1. tasks[s].song \in Songs \cup {NoSong}
  BY TasksTyped
<1>2. pending.auto \in BOOLEAN
  BY DEF EqTyped, EqTypeOK
<1>3. QED
  BY <1>1, <1>2, PendingTyped, TypedParts DEF PlayNatively, av, EngineTyped, AvTyped, PlayerTyped, EqPartTyped,
     Native!PlayerStart, Native!NativeStates, Statuses

\* The methods that change the engine's own state.
LEMMA EngineSteps ==
  ASSUME EngineTyped
  PROVE  /\ UNCHANGED engine => EngineTyped'
         /\ \A song : PlayNew(song) => EngineTyped'
         /\ PlayAgain /\ retryNum < 2 => EngineTyped'
         /\ \A skip \in BOOLEAN : NextInQueue(skip) => EngineTyped'
         /\ \A s : GiveUp(s) \/ NotStarted(s) \/ Expired(s) \/ Thrown(s) => EngineTyped'
<1>1. UNCHANGED engine => EngineTyped'
  BY DEF engine, EngineTyped
<1>2. ASSUME NEW song, PlayNew(song) PROVE EngineTyped'
  <2>1. retryNum' = 0 /\ errorSkip' = FALSE /\ UNCHANGED <<status, currentSong, loadingTimer>>
    BY <1>2 DEF PlayNew
  <2>2. retryNum' \in 0 .. 2
    BY <2>1
  <2>3. QED
    BY <2>1, <2>2 DEF EngineTyped
<1>3. ASSUME PlayAgain, retryNum < 2 PROVE EngineTyped'
  <2>1. /\ retryNum' = retryNum + 1 /\ errorSkip' = FALSE /\ status' = "LOADING"
        /\ currentSong' = currentSong /\ loadingTimer' = TRUE
    BY <1>3 DEF PlayAgain, ShowLoading
  <2>2. retryNum' \in 0 .. 2
    BY <1>3, <2>1 DEF EngineTyped
  <2>3. QED
    BY <2>1, <2>2 DEF EngineTyped, Statuses
<1>4. ASSUME NEW skip \in BOOLEAN, NextInQueue(skip) PROVE EngineTyped'
  BY <1>2, <1>4 DEF NextInQueue, EngineTyped, Statuses
<1>5. ASSUME NEW s, GiveUp(s) PROVE EngineTyped'
  BY <1>5 DEF GiveUp, ResetInBackground, EngineTyped, Statuses
<1>6. ASSUME NEW s, NotStarted(s) PROVE EngineTyped'
  BY <1>6 DEF NotStarted, EngineTyped, Statuses
<1>7. QED
  BY <1>1, <1>2, <1>3, <1>4, <1>5, <1>6 DEF Expired, Thrown

LEMMA TaskTypes ==
  ASSUME EqTyped, InOrder, NEW s \in Slots, EqContinue(s)
  PROVE  EngineTyped' /\ AvTyped' /\ PlayerTyped' /\ EqPartTyped'
<1>0. EngineTyped /\ AvTyped /\ PlayerTyped /\ EqPartTyped
  BY TypedParts
<1>1. UNCHANGED <<avState, avSong, avEvents>> => AvTyped'
  BY <1>0 DEF AvTyped
<1>2. UNCHANGED av => AvTyped'
  BY <1>1 DEF av
<1>3. avState' = avState /\ avEvents' = avEvents /\ avSong' = tasks[s].song => AvTyped'
  BY <1>0, TasksTyped DEF AvTyped
<1>4. CASE PlainStep(s)
  <2>1. PlayerTyped' /\ EqPartTyped'
    BY <1>0, <1>4, EqSameTyped DEF PlainStep
  <2>2. AvTyped'
    BY <1>1, <1>2, <1>3, <1>4 DEF PlainStep, AfterPause, AfterDelay, AfterReset, InitializeTimeout, AfterToggle,
       AfterBackgroundReset, AfterSeek, NotStarted, Expired
  <2>3. ASSUME AfterPause(s) PROVE EngineTyped'
    <3>1. /\ status' = "LOADING" /\ currentSong' = tasks[s].song /\ loadingTimer' = TRUE
          /\ UNCHANGED <<retryNum, errorSkip>>
      BY <2>3 DEF AfterPause, ShowLoading
    <3>2. QED
      BY <1>0, <3>1, TasksTyped DEF EngineTyped, Statuses
  <2>4. ASSUME AfterBackgroundReset(s) PROVE EngineTyped'
    <3>1. status' = "IDLE" /\ UNCHANGED <<currentSong, retryNum, loadingTimer, errorSkip>>
      BY <2>4 DEF AfterBackgroundReset
    <3>2. QED
      BY <1>0, <3>1 DEF EngineTyped, Statuses
  <2>5. ASSUME AfterDelay(s) \/ AfterReset(s) \/ InitializeTimeout(s) \/ AfterToggle(s) \/ AfterSeek(s)
      PROVE  EngineTyped'
    <3>1. UNCHANGED engine \/ NotStarted(s) \/ Expired(s)
      BY <2>5 DEF AfterDelay, AfterReset, InitializeTimeout, AfterToggle, AfterSeek
    <3>2. QED
      BY <1>0, <3>1, EngineSteps
  <2>6. QED
    BY <1>4, <2>1, <2>2, <2>3, <2>4, <2>5 DEF PlainStep
<1>5. CASE EqUnresolved(s)
  <2>1. PlayerTyped' /\ EqPartTyped'
    BY <1>0, <1>5, EqSameTyped, ResetTyped DEF EqUnresolved
  <2>2. EngineTyped' /\ AvTyped'
    BY <1>0, <1>1, <1>2, <1>5, EngineSteps DEF EqUnresolved, Unresolved
  <2>3. QED
    BY <2>1, <2>2
<1>6. ASSUME Resolved(s) PROVE EngineTyped' /\ AvTyped'
  <2>1. UNCHANGED engine
    BY <1>6 DEF Resolved
  <2>2. AvTyped'
    BY <1>1, <1>3, <1>6 DEF Resolved
  <2>3. QED
    BY <1>0, <2>1, <2>2, EngineSteps
<1>7. CASE EqResolved(s)
  <2>1. CASE /\ Resolved(s) /\ forceAv' = FALSE
             /\ UNCHANGED <<eqEnabled, usingNativeEq, pending, polling, handled, player>>
    <3>1. PlayerTyped' /\ EqPartTyped'
      BY <1>0, <2>1 DEF PlayerTyped, EqPartTyped, player
    <3>2. QED
      BY <1>6, <2>1, <3>1
  <2>2. CASE Resolved(s) /\ StopNative /\ UNCHANGED <<eqEnabled, forceAv, pending, polling, handled>>
    <3>1. EqPartTyped'
      BY <1>0, <2>2 DEF EqPartTyped
    <3>2. QED
      BY <1>0, <1>6, <2>2, <3>1, StopTyped
  <2>3. CASE UNCHANGED <<engine, avState, avSong, avEvents, eq>>
    BY <1>0, <1>1, <2>3, EngineSteps, EqSameTyped
  <2>4. CASE PlayNatively(s)
    BY <2>4, StartTyped
  <2>5. QED
    BY <1>7, <2>1, <2>2, <2>3, <2>4 DEF EqResolved
<1>8. CASE AfterNativeReset(s)
  BY <1>8, StartTyped DEF AfterNativeReset
<1>9. CASE EqPollInitialized(s)
  <2>1. PlayerTyped' /\ EqPartTyped'
    BY <1>0, <1>9 DEF EqPollInitialized, PlayerTyped, EqPartTyped, player
  <2>2. EngineTyped' /\ AvTyped'
    <3>1. CASE NotStarted(s)
      BY <1>0, <1>2, <3>1, EngineSteps DEF NotStarted
    <3>2. CASE /\ status' = "BUFFERING"
               /\ UNCHANGED <<currentSong, retryNum, loadingTimer, errorSkip, avState, avSong, avEvents>>
      BY <1>0, <1>1, <3>2 DEF EngineTyped, Statuses
    <3>3. QED
      BY <1>9, <3>1, <3>2 DEF EqPollInitialized, PollInitialized
  <2>3. QED
    BY <2>1, <2>2
<1>10. ASSUME EqThrown(s) \/ UNCHANGED eq
       PROVE  PlayerTyped' /\ EqPartTyped'
  BY <1>0, <1>10, ResetTyped, EqSameTyped DEF EqThrown
<1>11. ASSUME NEW shown \in Statuses, StartedWith(s, shown)
       PROVE  EngineTyped' /\ AvTyped' /\ PlayerTyped' /\ EqPartTyped'
  <2>1. EngineTyped' /\ AvTyped'
    BY <1>0, <1>2, <1>11 DEF StartedWith, EngineTyped
  <2>2. PlayerTyped' /\ EqPartTyped'
    BY <1>0, <1>11, PendingTyped DEF StartedWith, PlayerTyped, EqPartTyped, player
  <2>3. QED
    BY <2>1, <2>2
<1>12. ASSUME Thrown(s) PROVE EngineTyped' /\ AvTyped'
  <2>1. AvTyped'
    BY <1>1, <1>2, <1>12 DEF Thrown, Expired
  <2>2. QED
    BY <1>0, <1>12, <2>1, EngineSteps
<1>13. ASSUME NotStarted(s) PROVE EngineTyped' /\ AvTyped'
  BY <1>0, <1>2, <1>13, EngineSteps DEF NotStarted
<1>14. status \in Statuses /\ "PAUSED" \in Statuses
  BY <1>0 DEF EngineTyped, Statuses
<1>15. CASE EqAfterPrepare(s)
  <2>1. CASE AfterPrepare(s)
    <3>1. EngineTyped' /\ AvTyped'
      BY <1>0, <1>1, <1>12, <1>13, <2>1, EngineSteps DEF AfterPrepare
    <3>2. CASE EqThrown(s) \/ UNCHANGED eq
      BY <1>10, <3>1, <3>2
    <3>3. QED
      BY <1>11, <1>14, <1>15, <3>2 DEF EqAfterPrepare
  <2>2. QED
    BY <1>11, <1>14, <1>15, <2>1 DEF EqAfterPrepare
<1>16. CASE EqAfterStart(s)
  <2>1. CASE AfterStart(s) /\ (tasks[s].result = "fail" \/ ~tasks[s].fresh)
    <3>1. EngineTyped' /\ AvTyped'
      <4>1. tasks[s].result = "fail" \/ (tasks[s].result = "ok" /\ ~tasks[s].fresh)
        BY <2>1, TasksTyped DEF AfterStart, Answered
      <4>2. QED
        BY <1>12, <1>13, <2>1, <4>1 DEF AfterStart
    <3>2. CASE EqThrown(s) \/ UNCHANGED eq
      BY <1>10, <3>1, <3>2
    <3>3. CASE StartedWith(s, status)
      BY <1>11, <1>14, <3>3
    <3>4. QED
      BY <1>16, <3>1, <3>2, <3>3, <1>10 DEF EqAfterStart
  <2>2. CASE UNCHANGED <<engine, avState, avSong, avEvents, eq>>
    BY <1>0, <1>1, <2>2, EngineSteps, EqSameTyped
  <2>3. QED
    BY <1>11, <1>14, <1>16, <2>1, <2>2 DEF EqAfterStart
<1>17. CASE AfterStartSeek(s)
  BY <1>10, <1>11, <1>12, <1>14, <1>17 DEF AfterStartSeek
<1>18. CASE AfterEqSwitch(s)
  <2>1. EngineTyped' /\ AvTyped'
    BY <1>0, <1>1, <1>18 DEF AfterEqSwitch, Refresh, ShowLoading, EngineTyped, Statuses
  <2>2. \A seek \in BOOLEAN : [auto |-> status = "PLAYING", seek |-> seek] \in [auto : BOOLEAN, seek : BOOLEAN]
    OBVIOUS
  <2>3. PlayerTyped' /\ EqPartTyped'
    BY <1>0, <1>18, <2>2 DEF AfterEqSwitch, PlayerTyped, EqPartTyped, player
  <2>4. QED
    BY <2>1, <2>3
<1>19. QED
  BY <1>4, <1>5, <1>7, <1>8, <1>9, <1>15, <1>16, <1>17, <1>18 DEF EqContinue

LEMMA DeviceTypes ==
  ASSUME EqTyped, EqDevice
  PROVE  EngineTyped' /\ AvTyped' /\ PlayerTyped' /\ EqPartTyped'
<1>0. EngineTyped /\ AvTyped /\ PlayerTyped /\ EqPartTyped
  BY TypedParts
<1>1. PlayerTyped' /\ EqPartTyped'
  <2>1. CASE EqAvSucceeds
    BY <1>0, <2>1 DEF EqAvSucceeds, PlayerTyped, EqPartTyped, player
  <2>2. QED
    BY <1>0, <2>1, EqSameTyped DEF EqDevice
<1>2. ASSUME AvSucceeds PROVE EngineTyped' /\ AvTyped'
  <2>1. /\ status' \in {status, "PAUSED", "PLAYING", "IDLE"}
        /\ UNCHANGED <<currentSong, retryNum, loadingTimer, errorSkip, avEvents>>
        /\ avState' \in {avState, "paused", "playing", "prepared", "idle"}
        /\ avSong' \in {avSong, NoSong}
    BY <1>2 DEF AvSucceeds
  <2>2. EngineTyped'
    BY <1>0, <2>1 DEF EngineTyped, Statuses
  <2>3. AvTyped'
    BY <1>0, <2>1 DEF AvTyped, AvStates
  <2>4. QED
    BY <2>2, <2>3
<1>3. ASSUME AvRejects \/ AvInitialized \/ AvFails PROVE EngineTyped' /\ AvTyped'
  <2>1. EngineTyped'
    BY <1>0, <1>3, EngineSteps DEF AvRejects, AvInitialized, AvFails
  <2>2. AvTyped'
    BY <1>0, <1>3 DEF AvRejects, AvInitialized, AvFails, AvTyped, AvStates
  <2>3. QED
    BY <2>1, <2>2
<1>4. ASSUME OnStateError \/ OnError PROVE EngineTyped' /\ AvTyped'
  <2>1. AvTyped'
    BY <1>0, <1>4 DEF OnStateError, OnError, AvTyped, AvStates
  <2>2. CASE PlayAgain
    <3>1. status' = "LOADING" /\ retryNum \in 0 .. 2
      BY <1>0, <2>2 DEF PlayAgain, ShowLoading, EngineTyped
    <3>2. retryNum < 2
      BY <1>4, <3>1 DEF OnStateError, OnError
    <3>3. QED
      BY <1>0, <2>1, <2>2, <3>2, EngineSteps
  <2>3. ASSUME ~PlayAgain PROVE EngineTyped'
    <3>1. /\ status' = "ERROR" /\ UNCHANGED <<currentSong, retryNum>>
          /\ loadingTimer' \in {loadingTimer, FALSE}
      BY <1>4, <2>3 DEF OnStateError, OnError
    <3>2. errorSkip' \in BOOLEAN
      BY <1>0, <1>4, <2>3 DEF OnStateError, OnError, EngineTyped
    <3>3. QED
      BY <1>0, <3>1, <3>2 DEF EngineTyped, Statuses
  <2>4. QED
    BY <2>1, <2>2, <2>3
<1>5. EngineTyped' /\ AvTyped'
  BY <1>2, <1>3, <1>4 DEF EqDevice, EqAvSucceeds
<1>6. QED
  BY <1>1, <1>5

LEMMA ToggleTypes ==
  ASSUME EqTyped, EqTogglePlay
  PROVE  EngineTyped' /\ AvTyped' /\ PlayerTyped' /\ EqPartTyped'
<1>0. EngineTyped /\ AvTyped /\ PlayerTyped /\ EqPartTyped
  BY TypedParts
<1>1. AvTyped'
  <2>1. UNCHANGED <<avState, avSong, avEvents>>
    BY DEF EqTogglePlay, TogglePlay, av
  <2>2. QED
    BY <1>0, <2>1 DEF AvTyped
<1>2. CASE ~usingNativeEq
  <2>1. TogglePlay /\ NewSong /\ polling' \in BOOLEAN /\ UNCHANGED <<eqEnabled, forceAv, handled>>
    BY <1>0, <1>2 DEF EqTogglePlay, EqPartTyped
  <2>2. PlayerTyped' /\ EqPartTyped'
    BY <1>0, <2>1, NewSongTyped DEF EqPartTyped
  <2>3. CASE UNCHANGED engine \/ PlayNew(currentSong)
    BY <1>0, <1>1, <2>2, <2>3, EngineSteps
  <2>4. ASSUME status' \in {status, "IDLE"}, loadingTimer' = FALSE, UNCHANGED <<currentSong, retryNum, errorSkip>>
        PROVE  EngineTyped'
    BY <1>0, <2>4 DEF EngineTyped, Statuses
  <2>5. EngineTyped'
    BY <2>1, <2>3, <2>4 DEF TogglePlay
  <2>6. QED
    BY <1>1, <2>2, <2>5
<1>3. CASE usingNativeEq
  <2>1. EngineTyped'
    <3>1. /\ status' \in {"PAUSED", "PLAYING", "IDLE"} /\ loadingTimer' \in {loadingTimer, FALSE}
          /\ UNCHANGED <<currentSong, retryNum, errorSkip>>
      BY <1>3 DEF EqTogglePlay
    <3>2. QED
      BY <1>0, <3>1 DEF EngineTyped, Statuses
  <2>2. PlayerTyped'
    <3>1. CASE StopNative
      BY <1>0, <3>1, StopTyped
    <3>2. CASE UNCHANGED <<usingNativeEq, nativeSong, nativeAuto>> /\ native' \in {"PAUSED", "PLAYING"}
      BY <1>0, <3>2 DEF PlayerTyped, Native!NativeStates
    <3>3. QED
      BY <1>3, <3>1, <3>2 DEF EqTogglePlay, Native!PlayerPause, Native!PlayerResume
  <2>3. EqPartTyped'
    <3>1. polling' \in {polling, FALSE} /\ UNCHANGED <<eqEnabled, forceAv, pending, handled>>
      BY <1>3 DEF EqTogglePlay
    <3>2. QED
      BY <1>0, <3>1 DEF EqPartTyped
  <2>4. QED
    BY <1>1, <2>1, <2>2, <2>3
<1>4. QED
  BY <1>2, <1>3

LEMMA PollTypes ==
  ASSUME EqTyped, PollNative
  PROVE  EngineTyped' /\ AvTyped' /\ PlayerTyped' /\ EqPartTyped'
<1>0. EngineTyped /\ AvTyped /\ PlayerTyped /\ EqPartTyped
  BY TypedParts
<1>1. AvTyped'
  <2>1. UNCHANGED <<avState, avSong, avEvents>>
    BY DEF PollNative, PollShows, PollCompleted, PollFailed, av
  <2>2. QED
    BY <1>0, <2>1 DEF AvTyped
<1>2. CASE PollShows
  <2>1. EngineTyped'
    <3>1. /\ status' \in {"BUFFERING", "PLAYING", "PAUSED"} /\ UNCHANGED <<currentSong, retryNum, errorSkip>>
          /\ loadingTimer' \in BOOLEAN
      BY <1>0, <1>2 DEF PollShows, EngineTyped
    <3>2. QED
      BY <1>0, <3>1 DEF EngineTyped, Statuses
  <2>2. PlayerTyped' /\ EqPartTyped'
    BY <1>0, <1>2, EqSameTyped DEF PollShows
  <2>3. QED
    BY <1>1, <2>1, <2>2
<1>3. CASE PollCompleted
  <2>1. NextInQueue(errorSkip) /\ errorSkip \in BOOLEAN /\ NewSong
    BY <1>0, <1>3 DEF PollCompleted, EngineTyped
  <2>2. EngineTyped'
    BY <1>0, <2>1, EngineSteps
  <2>3. PlayerTyped' /\ pending' \in [auto : BOOLEAN, seek : BOOLEAN]
    BY <1>0, <2>1, NewSongTyped DEF EqPartTyped
  <2>4. EqPartTyped'
    BY <1>0, <1>3, <2>3 DEF PollCompleted, EqPartTyped
  <2>5. QED
    BY <1>1, <2>2, <2>3, <2>4
<1>4. CASE PollFailed
  <2>1. EngineTyped'
    <3>1. /\ errorSkip' = FALSE /\ status' = "LOADING" /\ currentSong' = currentSong
          /\ loadingTimer' = TRUE /\ retryNum' = retryNum
      BY <1>4 DEF PollFailed, Refresh, ShowLoading
    <3>2. QED
      BY <1>0, <3>1 DEF EngineTyped, Statuses
  <2>2. PlayerTyped'
    BY <1>0, <1>4, StopTyped DEF PollFailed
  <2>3. EqPartTyped'
    <3>1. pending' \in [auto : BOOLEAN, seek : BOOLEAN]
      BY <1>4 DEF PollFailed
    <3>2. QED
      BY <1>0, <1>4, <3>1 DEF PollFailed, EqPartTyped
  <2>4. QED
    BY <1>1, <2>1, <2>2, <2>3
<1>5. QED
  BY <1>2, <1>3, <1>4 DEF PollNative

LEMMA OtherTypes ==
  ASSUME EqTyped,
         EqTogglePlay \/ EqSeekTo \/ SetEqEnabled \/ PollNative \/ EqLoadingTimeout
           \/ EqErrorSkipTimeout \/ EqDevice \/ EqOnCompleted \/ EqUserPlays \/ NativeThreads
  PROVE  EngineTyped' /\ AvTyped' /\ PlayerTyped' /\ EqPartTyped'
<1>0. EngineTyped /\ AvTyped /\ PlayerTyped /\ EqPartTyped
  BY TypedParts
<1>1. UNCHANGED <<avState, avSong, avEvents>> => AvTyped'
  BY <1>0 DEF AvTyped
<1>2. CASE EqSeekTo
  <2>1. UNCHANGED <<avState, avSong, avEvents>>
    BY <1>2 DEF EqSeekTo, SeekTo, av
  <2>2. CASE SeekTo /\ UNCHANGED eq
    <3>1. EngineTyped'
      BY <1>0, <2>2, EngineSteps DEF SeekTo
    <3>2. QED
      BY <1>0, <1>1, <2>1, <2>2, <3>1, EqSameTyped
  <2>3. CASE usingNativeEq
    <3>1. EngineTyped'
      BY <1>0, <1>2, <2>3 DEF EqSeekTo, EngineTyped, Statuses
    <3>2. PlayerTyped'
      BY <1>0, <1>2, <2>3 DEF EqSeekTo, PlayerTyped, Native!PlayerStart, Native!NativeStates
    <3>3. EqPartTyped'
      BY <1>0, <1>2, <2>3 DEF EqSeekTo, EqPartTyped
    <3>4. QED
      BY <1>1, <2>1, <3>1, <3>2, <3>3
  <2>4. QED
    BY <1>2, <2>2, <2>3 DEF EqSeekTo
<1>3. CASE SetEqEnabled
  <2>1. UNCHANGED <<engine, av, usingNativeEq, forceAv, pending, polling, handled, player>> /\ eqEnabled' \in BOOLEAN
    BY <1>3 DEF SetEqEnabled
  <2>2. EngineTyped' /\ AvTyped'
    BY <1>0, <2>1, EngineSteps DEF av, AvTyped
  <2>3. PlayerTyped' /\ EqPartTyped'
    BY <1>0, <2>1 DEF PlayerTyped, EqPartTyped, player
  <2>4. QED
    BY <2>2, <2>3
<1>4. CASE EqLoadingTimeout
  <2>1. PlayerTyped' /\ EqPartTyped'
    BY <1>0, <1>4, ResetTyped, EqSameTyped DEF EqLoadingTimeout
  <2>2. UNCHANGED <<avState, avSong, avEvents>>
    BY <1>4 DEF EqLoadingTimeout, LoadingTimeout
  <2>3. ASSUME loadingTimer' = FALSE, UNCHANGED <<status, currentSong, retryNum, errorSkip>>
        PROVE  EngineTyped'
    BY <1>0, <2>3 DEF EngineTyped
  <2>4. EngineTyped'
    BY <1>0, <1>4, <2>3, EngineSteps DEF EqLoadingTimeout, LoadingTimeout
  <2>5. QED
    BY <1>1, <2>1, <2>2, <2>4
<1>5. CASE EqErrorSkipTimeout \/ EqOnCompleted \/ EqUserPlays
  <2>1. \E skip \in BOOLEAN : NextInQueue(skip)
    BY <1>0, <1>5 DEF EqErrorSkipTimeout, EqOnCompleted, EqUserPlays, ErrorSkipTimeout, OnCompleted, UserPlays,
       EngineTyped
  <2>2. AvTyped'
    BY <1>0, <1>5 DEF EqErrorSkipTimeout, EqOnCompleted, EqUserPlays, ErrorSkipTimeout, OnCompleted, UserPlays,
       AvTyped, AvStates
  <2>3. PlayerTyped' /\ pending' \in [auto : BOOLEAN, seek : BOOLEAN]
    BY <1>0, <1>5, NewSongTyped DEF EqErrorSkipTimeout, EqOnCompleted, EqUserPlays, EqPartTyped
  <2>4. EqPartTyped'
    <3>1. polling' \in {polling, FALSE} /\ UNCHANGED <<eqEnabled, forceAv, handled>>
      BY <1>5 DEF EqErrorSkipTimeout, EqOnCompleted, EqUserPlays
    <3>2. QED
      BY <1>0, <2>3, <3>1 DEF EqPartTyped
  <2>5. EngineTyped'
    BY <1>0, <2>1, EngineSteps
  <2>6. QED
    BY <2>2, <2>3, <2>4, <2>5
<1>6. CASE NativeThreads
  <2>1. UNCHANGED <<vars, eqEnabled, usingNativeEq, forceAv, pending, polling, handled, nativeSong, nativeAuto>>
    BY <1>6 DEF NativeThreads, Native!Threads, Native!Started, Native!Failed, Native!Ended
  <2>2. native' \in Native!NativeStates
    BY <1>6 DEF NativeThreads, Native!Threads, Native!Started, Native!Failed, Native!Ended, Native!NativeStates
  <2>3. EngineTyped' /\ AvTyped'
    BY <1>0, <2>1, EngineSteps DEF vars, av, AvTyped
  <2>4. PlayerTyped' /\ EqPartTyped'
    BY <1>0, <2>1, <2>2 DEF PlayerTyped, EqPartTyped
  <2>5. QED
    BY <2>3, <2>4
<1>7. QED
  BY <1>2, <1>3, <1>4, <1>5, <1>6, DeviceTypes, ToggleTypes, PollTypes

LEMMA StepTyped ==
  ASSUME EqTyped, InOrder, [EqNext]_eqVars
  PROVE  EqTyped' /\ InOrder'
<1>1. Shape
  BY NextShape
<1>2. InOrder' /\ CallsTyped'
  BY <1>1, ShapeTyped, ShapeKeepsOrder
<1>3. EngineTyped' /\ AvTyped' /\ PlayerTyped' /\ EqPartTyped'
  <2>1. CASE UNCHANGED eqVars
    BY <2>1, TypedParts DEF eqVars, vars, engine, av, eq, player, EngineTyped, AvTyped, PlayerTyped, EqPartTyped
  <2>2. CASE EqNext
    BY <2>2, TaskTypes, OtherTypes DEF EqNext, EqUserActs
  <2>3. QED
    BY <2>1, <2>2
<1>4. (EngineTyped /\ AvTyped /\ PlayerTyped /\ EqPartTyped /\ CallsTyped => EqTyped)'
  BY TypedParts, PTL
<1>5. QED
  BY <1>2, <1>3, <1>4

LEMMA InitTyped ==
  ASSUME EqInit
  PROVE  EqTyped /\ InOrder
<1>1. /\ tasks = [s \in Slots |-> NoTask] /\ avQueue = <<>>
      /\ \A s \in Slots : Step(s) = "none" /\ ~Latest(s) /\ Pending(s) /\ ~Queued(s)
      /\ \A s, t : ~Before(s, t)
  BY DEF EqInit, Init, Step, Latest, Pending, Queued, Before, NoTask
<1>2. CallsTyped
  BY <1>1, NoTaskTyped DEF CallsTyped
<1>3. EngineTyped /\ AvTyped
  <2>1. retryNum = 0
    BY DEF EqInit, Init
  <2>2. retryNum \in 0 .. 2
    BY <2>1
  <2>3. EngineTyped
    BY <2>2 DEF EqInit, Init, EngineTyped, Statuses
  <2>4. AvTyped
    BY DEF EqInit, Init, AvTyped, AvStates
  <2>5. QED
    BY <2>3, <2>4
<1>4. PlayerTyped /\ EqPartTyped
  BY PendingTyped DEF EqInit, Native!Init, PlayerTyped, EqPartTyped, Native!NativeStates
<1>5. EqTyped
  BY <1>2, <1>3, <1>4, TypedParts
<1>6. InOrder
  BY <1>1 DEF InOrder, EqCalls, EqQueue, EqOrder, Harmless, Commanded, Crossed, PlaysUnprepared
<1>7. QED
  BY <1>5, <1>6

\* The engine's fields, the calls in flight and the native player keep their types;
\* with PlayAgain that needs the guards that bound retryNum, and with a command's
\* answer that the AVPlayer's queue holds calls that are in flight.
THEOREM EqTypeCorrect == EqSpec => []EqTypeOK
<1>1. EqInit => EqTyped /\ InOrder
  BY InitTyped
<1>2. EqTyped /\ InOrder /\ [EqNext]_eqVars => (EqTyped /\ InOrder)'
  BY StepTyped
<1>3. EqTyped => EqTypeOK
  BY DEF EqTyped
<1>4. QED
  BY <1>1, <1>2, <1>3, PTL DEF EqSpec
-----------------------------------------------------------------------------
(* What a loading song is attended by. *)

NativeAttends == usingNativeEq /\ (polling \/ soughtAtEnd)
Attends(s) == Latest(s) \/ Step(s) \in {"cancel", "background"}
StartedOk(s) == Step(s) = "start" /\ tasks[s].result = "ok" /\ Latest(s)

\* Besides what the property says: when the AVPlayer has started the latest song it is
\* not loading any more, and a call that seeks in the song it has started, whose last
\* act is to clear the loading timer, is not the only one at work on a loading song.
EqAttended ==
  /\ status \in Loading =>
       (\E s \in Slots : Attends(s)) \/ loadingTimer \/ errorSkip \/ NativeAttends
  /\ \A s \in Slots : StartedOk(s) => status \notin Loading \/ NativeAttends
  /\ \A s \in Slots : Step(s) = "startSeek" /\ status \in Loading =>
       (\E t \in Slots \ {s} : Attends(t)) \/ errorSkip \/ NativeAttends

\* A step after which a new call is at work on the song.
TakenOver ==
  /\ \E u \in Slots : Attends(u)' /\ Step(u)' # "startSeek"
  /\ \A s \in Slots : ~StartedOk(s)'

\* A step that takes nothing away from the song.
QuietCalls ==
  \A t \in Slots : /\ Attends(t) => Attends(t)'
                   /\ StartedOk(t)' => StartedOk(t)
                   /\ Step(t)' = "startSeek" => Step(t) = "startSeek"
Quiet ==
  /\ QuietCalls
  /\ UNCHANGED <<status, loadingTimer, errorSkip>>
  /\ NativeAttends => NativeAttends'

Settles == status' \notin Loading \/ NativeAttends' \/ TakenOver \/ Quiet

LEMMA SettlesAttended ==
  ASSUME EqAttended, Settles
  PROVE  EqAttended'
<1>1. CASE status' \notin Loading \/ NativeAttends'
  BY <1>1 DEF EqAttended, Loading
<1>2. CASE TakenOver
  <2>1. PICK u \in Slots : Attends(u)' /\ Step(u)' # "startSeek"
    BY <1>2 DEF TakenOver
  <2>2. QED
    BY <1>2, <2>1 DEF EqAttended, TakenOver
<1>3. CASE Quiet /\ status' \in Loading /\ ~NativeAttends'
  BY <1>3 DEF EqAttended, Quiet, QuietCalls, Loading
<1>4. QED
  BY <1>1, <1>2, <1>3 DEF Settles

LEMMA MoveTakesOver ==
  ASSUME EqTyped, InOrder, NEW s \in Slots, NEW step \in Steps \ {"startSeek"}, Goto(s, step), Latest(s)
  PROVE  TakenOver
<1>1. Placed(s, step, tasks[s].song, tasks[s].fresh) /\ \A t \in Slots \ {s} : Same(t)
  BY MoveEffect
<1>2. Step(s)' = step /\ Latest(s)' /\ tasks'[s].result = "pending"
  BY <1>1 DEF Placed, Latest
<1>3. \A t \in Slots \ {s} : ~Latest(t)'
  BY <1>1 DEF InOrder, EqCalls, Same, Latest
<1>4. QED
  BY <1>2, <1>3 DEF TakenOver, Attends, StartedOk

LEMMA BeginTakesOver ==
  ASSUME EqTyped, NEW s \in Slots, NEW step \in {"pause", "resolve", "cancel"}, NEW song \in Songs \cup {NoSong},
         NEW fresh \in BOOLEAN, tasks' = [Superseded EXCEPT ![s] = At(step, song, fresh)],
         fresh \/ step = "cancel"
  PROVE  TakenOver
<1>1. step \in Steps
  BY DEF Steps, PlaySteps, OtherSteps
<1>2. Placed(s, step, song, fresh) /\ \A t \in Slots \ {s} : ~Latest(t)'
  BY <1>1, BeginEffect
<1>3. Step(s)' = step /\ Latest(s)' = fresh /\ tasks'[s].result = "pending"
  BY <1>2 DEF Placed, Latest
<1>4. QED
  BY <1>2, <1>3 DEF TakenOver, Attends, StartedOk

LEMMA AgainTakesOver ==
  ASSUME EqTyped, PlayAgain \/ (\E song \in Songs \cup {NoSong} : PlayNew(song)) \/ (\E s \in Slots : Refresh(s))
  PROVE  TakenOver
<1>1. currentSong \in Songs \cup {NoSong}
  BY DEF EqTyped
<1>2. PICK s \in Slots, step \in {"pause", "resolve"}, song \in Songs \cup {NoSong} :
        tasks' = [Superseded EXCEPT ![s] = At(step, song, TRUE)]
  BY <1>1 DEF PlayAgain, PlayNew, Refresh
<1>3. QED
  BY <1>2, BeginTakesOver

LEMMA NextTakesOver ==
  ASSUME EqTyped, NEW skip, NextInQueue(skip)
  PROVE  TakenOver \/ status' \notin Loading
BY AgainTakesOver DEF NextInQueue, Loading

LEMMA GivenUp ==
  ASSUME NEW s, GiveUp(s) \/ NotStarted(s)
  PROVE  status' \notin Loading
BY DEF GiveUp, ResetInBackground, NotStarted, Loading

LEMMA QuietSame ==
  ASSUME tasks' = tasks
  PROVE  QuietCalls
BY DEF QuietCalls, Attends, StartedOk, Latest, Step

LEMMA QuietQuit ==
  ASSUME EqTyped, NEW s \in Slots, Finish(s), ~Attends(s)
  PROVE  QuietCalls
<1>1. Placed(s, "none", NoSong, FALSE) /\ \A t \in Slots \ {s} : Same(t)
  BY QuitEffect
<1>2. QED
  BY <1>1 DEF QuietCalls, Attends, StartedOk, Latest, Step, Same, Placed

LEMMA QuietAdd ==
  ASSUME EqTyped, InOrder, NEW s \in Slots, Free(s),
         NEW step \in {"togglePause", "togglePlay", "seek", "seekOnly", "eqSwitch"},
         tasks' = [tasks EXCEPT ![s] = At(step, NoSong, FALSE)]
  PROVE  QuietCalls
<1>1. Placed(s, step, NoSong, FALSE) /\ \A t \in Slots \ {s} : Same(t)
  BY AddEffect DEF Steps, OtherSteps
<1>2. ~Attends(s)
  BY DEF Attends, Free, Step, InOrder, EqCalls, Keys
<1>3. QED
  BY <1>1, <1>2 DEF QuietCalls, Attends, StartedOk, Latest, Step, Same, Placed

LEMMA QuietMove ==
  ASSUME EqTyped, InOrder, NEW s \in Slots, NEW step \in Steps \ {"startSeek"}, Goto(s, step)
  PROVE  TakenOver \/ Step(s) \in {"cancel", "background"} \/ QuietCalls
<1>1. CASE Latest(s)
  BY <1>1, MoveTakesOver
<1>2. CASE ~Attends(s)
  <2>1. Placed(s, step, tasks[s].song, tasks[s].fresh) /\ \A t \in Slots \ {s} : Same(t)
    BY MoveEffect
  <2>2. QED
    BY <1>2, <2>1 DEF QuietCalls, Attends, StartedOk, Latest, Step, Same, Placed
<1>3. QED
  BY <1>1, <1>2 DEF Attends

LEMMA QuietAnswer ==
  ASSUME EqTyped, NEW r \in {"ok", "fail"}, Due, Answer(r)
  PROVE  QuietCalls \/ (r = "ok" /\ Command1 = "play")
<1>1. PICK h \in Slots : h = Head(avQueue)
  BY HeadIsCall DEF Due
<1>2. /\ tasks'[h].result = r /\ Step(h)' = Step(h) /\ tasks'[h].fresh = tasks[h].fresh
      /\ \A t \in Slots \ {h} : Same(t)
  BY <1>1, AnswerEffect
<1>3. Step(h) = "start" => Command1 = "play"
  BY <1>1 DEF Command1, Command, Step
<1>4. \A t \in Slots \ {h} : Attends(t)' = Attends(t) /\ StartedOk(t)' = StartedOk(t) /\ Step(t)' = Step(t)
  BY <1>2 DEF Attends, StartedOk, Latest, Step, Same
<1>5. Attends(h)' = Attends(h)
  BY <1>2 DEF Attends, Latest
<1>6. StartedOk(h)' => r = "ok" /\ Step(h) = "start"
  BY <1>2 DEF StartedOk
<1>7. QED
  BY <1>2, <1>3, <1>4, <1>5, <1>6 DEF QuietCalls

\* A seek does not stop the timer from being a loading song's only attendant.
LEMMA NativeKept ==
  ASSUME MCNext, usingNativeEq' = usingNativeEq, polling => polling'
  PROVE  NativeAttends => NativeAttends'
BY DEF MCNext, NativeAttends

\* A stale call's pause is answered: what it shows is attended by the timer it starts,
\* and no call is seeking in the song it has started.
LEMMA PauseAttended ==
  ASSUME EqTyped, InOrder, EqAttended, NEW s \in Slots, AfterPause(s)
  PROVE  EqAttended'
<1>1. Step(s) = "pause" /\ ~Pending(s)
  BY AnsweredIsIdle DEF AfterPause
<1>2. CASE tasks[s].fresh
  <2>1. Goto(s, "resolve")
    BY <1>2 DEF AfterPause
  <2>2. TakenOver
    BY <1>2, <2>1, MoveTakesOver DEF Latest, Steps, PlaySteps
  <2>3. QED
    BY <2>2, SettlesAttended DEF Settles
<1>3. CASE ~tasks[s].fresh
  <2>1. Finish(s) /\ loadingTimer' = TRUE
    BY <1>3 DEF AfterPause, ShowLoading
  <2>2. ~Attends(s)
    BY <1>1, <1>3 DEF Attends, Latest
  <2>3. QuietCalls
    BY <2>1, <2>2, QuietQuit
  <2>4. \A t \in Slots : Step(t)' # "startSeek"
    <3>1. \A t \in Slots \ {s} : Step(t) # "startSeek"
      BY <1>1 DEF InOrder, EqOrder, Crossed
    <3>2. QED
      BY <1>1, <2>3, <3>1 DEF QuietCalls
  <2>5. \A t \in Slots : ~StartedOk(t)'
    <3>1. \A t \in Slots : StartedOk(t) => ~Pending(t) /\ Step(t) = "start"
      BY DEF StartedOk, Pending
    <3>2. \A t \in Slots : ~StartedOk(t)
      BY <1>1, <3>1 DEF InOrder, EqCalls
    <3>3. QED
      BY <2>3, <3>2 DEF QuietCalls
  <2>6. QED
    BY <2>1, <2>4, <2>5 DEF EqAttended
<1>4. QED
  BY <1>2, <1>3

\* The seek after the start of a song was answered: the loading timer is cleared.
LEMMA SeekAttended ==
  ASSUME EqTyped, InOrder, EqAttended, MCNext, NEW s \in Slots, Step(s) = "startSeek", ~Pending(s),
         StartedWith(s, status)
  PROVE  EqAttended'
<1>1. UNCHANGED <<status, errorSkip, usingNativeEq, polling>> /\ Finish(s)
  BY DEF StartedWith
<1>2. NativeAttends => NativeAttends'
  BY <1>1, NativeKept
<1>3. \A t \in Slots \ {s} : Same(t)
  BY <1>1, QuitEffect
<1>4. Step(s)' = "none" /\ ~Latest(s)'
  BY <1>1, QuitEffect DEF Placed, Latest
<1>5. \A t \in Slots \ {s} : Attends(t)' = Attends(t) /\ StartedOk(t)' = StartedOk(t) /\ Step(t)' = Step(t)
  BY <1>3 DEF Attends, StartedOk, Latest, Step, Same
<1>6. ~StartedOk(s)'
  BY <1>4 DEF StartedOk
<1>7. CASE status \in Loading /\ ~errorSkip /\ ~NativeAttends
  <2>1. PICK t \in Slots \ {s} : Attends(t)
    BY <1>7 DEF EqAttended
  <2>2. Attends(t)'
    BY <1>5, <2>1
  <2>3. ASSUME NEW x \in Slots, Step(x)' = "startSeek"
        PROVE  \E y \in Slots \ {x} : Attends(y)'
    <3>1. x # s /\ Step(x) = "startSeek"
      BY <1>4, <1>5, <2>3
    <3>2. PICK y \in Slots \ {x} : Attends(y)
      BY <1>7, <3>1 DEF EqAttended
    <3>3. CASE y = s
      BY <2>1, <2>2, <3>1, <3>2, <3>3 DEF Attends, InOrder, EqCalls
    <3>4. CASE y # s
      BY <1>5, <3>2, <3>4
    <3>5. QED
      BY <3>3, <3>4
  <2>4. QED
    BY <1>1, <1>5, <1>6, <1>7, <2>2, <2>3 DEF EqAttended
<1>8. CASE ~(status \in Loading /\ ~errorSkip /\ ~NativeAttends)
  BY <1>1, <1>2, <1>5, <1>6, <1>8 DEF EqAttended, Loading
<1>9. QED
  BY <1>7, <1>8

LEMMA PlainAttended ==
  ASSUME EqTyped, InOrder, EqAttended, MCNext, NEW s \in Slots, PlainStep(s)
  PROVE  EqAttended'
<1>0. NativeAttends => NativeAttends'
  BY NativeKept DEF PlainStep, eq
<1>1. CASE AfterPause(s)
  BY <1>1, PauseAttended
<1>2. ASSUME NEW step \in Steps \ {"startSeek"}, Goto(s, step), Step(s) \notin {"cancel", "background"},
             UNCHANGED engine
      PROVE  Settles
  BY <1>0, <1>2, QuietMove DEF Settles, Quiet, engine
<1>3. ASSUME Finish(s), ~Attends(s), UNCHANGED engine PROVE Settles
  BY <1>0, <1>3, QuietQuit DEF Settles, Quiet, engine
<1>4. "resolveAgain" \in Steps /\ "init" \in Steps /\ "seekPlay" \in Steps
  BY DEF Steps, PlaySteps, OtherSteps
<1>5. CASE AfterDelay(s)
  <2>1. Step(s) = "delay"
    BY <1>5 DEF AfterDelay, Step
  <2>2. Settles
    BY <1>2, <1>4, <1>5, <2>1 DEF AfterDelay
  <2>3. QED
    BY <2>2, SettlesAttended
<1>6. CASE AfterReset(s) \/ InitializeTimeout(s)
  <2>1. CASE NotStarted(s)
    BY <2>1, GivenUp, SettlesAttended DEF Settles
  <2>2. CASE AfterReset(s) /\ ~NotStarted(s)
    <3>1. Step(s) = "reset"
      BY <2>2, AnsweredIsIdle DEF AfterReset
    <3>2. Settles
      BY <1>2, <1>4, <2>2, <3>1 DEF AfterReset, engine
    <3>3. QED
      BY <3>2, SettlesAttended
  <2>3. QED
    BY <1>6, <2>1, <2>2 DEF InitializeTimeout
<1>7. CASE AfterBackgroundReset(s)
  BY <1>7, SettlesAttended DEF AfterBackgroundReset, Settles, Loading
<1>8. CASE AfterToggle(s) \/ AfterSeek(s)
  <2>1. Step(s) \in {"togglePause", "togglePlay", "seek", "seekOnly", "seekPlay"}
    BY <1>8, AnsweredIsIdle DEF AfterToggle, AfterSeek
  <2>2. ~Attends(s)
    BY <2>1 DEF Attends, InOrder, EqCalls, Keys
  <2>3. CASE Expired(s)
    BY <1>3, <2>2, <2>3, SettlesAttended DEF Expired
  <2>4. CASE Goto(s, "seekPlay") /\ UNCHANGED engine
    <3>1. Settles
      BY <1>2, <1>4, <2>1, <2>4
    <3>2. QED
      BY <3>1, SettlesAttended
  <2>5. QED
    BY <1>8, <2>3, <2>4 DEF AfterToggle, AfterSeek, Await, engine
<1>9. QED
  BY <1>1, <1>5, <1>6, <1>7, <1>8 DEF PlainStep

\* prepare(), play() or seek() of startResolvedPlayback was rejected.
LEMMA ThrownAttended ==
  ASSUME EqTyped, InOrder, EqAttended, MCNext, NEW s \in Slots, Thrown(s), EqThrown(s),
         Step(s) \in {"prepare", "start", "startSeek"}
  PROVE  EqAttended'
<1>1. CASE tasks[s].fresh
  BY <1>1, GivenUp, SettlesAttended DEF Thrown, Settles
<1>2. CASE ~tasks[s].fresh
  <2>1. Finish(s) /\ UNCHANGED <<engine, eq>>
    BY <1>2 DEF Thrown, Expired, EqThrown
  <2>2. NativeAttends => NativeAttends'
    BY <2>1, NativeKept DEF eq
  <2>3. QuietCalls
    BY <1>2, <2>1, QuietQuit DEF Attends, Latest
  <2>4. QED
    BY <2>1, <2>2, <2>3, SettlesAttended DEF Settles, Quiet, engine
<1>3. QED
  BY <1>1, <1>2

LEMMA TaskAttended ==
  ASSUME EqTyped, InOrder, EqAttended, MCNext, NEW s \in Slots, EqContinue(s)
  PROVE  EqAttended'
<1>0. {"delay", "reset", "init", "nativeReset", "prepare", "start"} \subseteq Steps \ {"startSeek"}
  BY DEF Steps, PlaySteps
<1>1. ASSUME NotStarted(s) \/ GiveUp(s) PROVE EqAttended'
  BY <1>1, GivenUp, SettlesAttended DEF Settles
<1>2. ASSUME NEW step \in {"delay", "reset", "init", "nativeReset", "prepare", "start"}, Goto(s, step), Latest(s)
      PROVE  EqAttended'
  <2>1. TakenOver
    BY <1>0, <1>2, MoveTakesOver
  <2>2. QED
    BY <2>1, SettlesAttended DEF Settles
<1>3. ASSUME PlayNatively(s) PROVE EqAttended'
  <2>1. NativeAttends'
    BY <1>3 DEF PlayNatively, NativeAttends
  <2>2. QED
    BY <2>1, SettlesAttended DEF Settles
<1>4. Step(s) \in Harmless => Latest(s)
  BY DEF InOrder, EqCalls
<1>5. CASE EqUnresolved(s)
  <2>1. Step(s) \in Harmless
    BY <1>5 DEF EqUnresolved, Unresolved, Step, Harmless
  <2>2. QED
    BY <1>1, <1>2, <1>4, <1>5, <2>1 DEF EqUnresolved, Unresolved
<1>6. CASE EqResolved(s)
  <2>1. Step(s) \in Harmless
    BY <1>6 DEF EqResolved, Resolved, Step, Harmless
  <2>2. CASE Resolved(s)
    BY <1>2, <1>4, <2>1, <2>2 DEF Resolved, Await
  <2>3. QED
    BY <1>2, <1>3, <1>4, <1>6, <2>1, <2>2 DEF EqResolved, Await
<1>7. CASE AfterNativeReset(s)
  BY <1>3, <1>7 DEF AfterNativeReset
<1>8. CASE EqPollInitialized(s)
  BY <1>1, <1>2, <1>8 DEF EqPollInitialized, PollInitialized, Await, Latest
<1>9. tasks[s].fresh \in BOOLEAN /\ tasks[s].result \in {"pending", "ok", "fail"}
  BY TasksTyped DEF Latest
<1>10. CASE EqAfterPrepare(s)
  <2>1. Step(s) = "prepare" /\ ~Pending(s)
    BY <1>10, AnsweredIsIdle DEF EqAfterPrepare, AfterPrepare
  <2>2. CASE AfterPrepare(s) /\ tasks[s].result = "fail" /\ EqThrown(s)
    BY <2>1, <2>2, ThrownAttended DEF AfterPrepare
  <2>3. CASE AfterPrepare(s) /\ tasks[s].result = "ok"
    BY <1>1, <1>2, <1>9, <2>3 DEF AfterPrepare, Await, Latest
  <2>4. CASE StartedWith(s, "PAUSED")
    BY <2>4, SettlesAttended DEF StartedWith, Settles, Loading
  <2>5. QED
    BY <1>10, <2>2, <2>3, <2>4 DEF EqAfterPrepare
<1>11. CASE EqAfterStart(s)
  <2>1. Step(s) = "start" /\ ~Pending(s)
    BY <1>11, AnsweredIsIdle DEF EqAfterStart, AfterStart
  <2>2. CASE AfterStart(s) /\ tasks[s].result = "fail" /\ EqThrown(s)
    BY <2>1, <2>2, ThrownAttended DEF AfterStart
  <2>3. CASE AfterStart(s) /\ tasks[s].result = "ok" /\ ~tasks[s].fresh
    BY <1>1, <2>3 DEF AfterStart
  <2>4. CASE /\ tasks[s].result = "ok" /\ tasks[s].fresh
             /\ UNCHANGED <<status, usingNativeEq, polling>>
    <3>1. status \notin Loading \/ NativeAttends
      BY <2>1, <2>4 DEF EqAttended, StartedOk, Latest
    <3>2. status' \notin Loading \/ NativeAttends'
      BY <2>4, <3>1, NativeKept DEF Loading
    <3>3. QED
      BY <3>2, SettlesAttended DEF Settles
  <2>5. QED
    BY <1>11, <2>2, <2>3, <2>4 DEF EqAfterStart, StartedWith, engine, eq
<1>12. CASE AfterStartSeek(s)
  <2>1. Step(s) = "startSeek" /\ ~Pending(s)
    BY <1>12, AnsweredIsIdle DEF AfterStartSeek
  <2>2. QED
    BY <1>12, <2>1, ThrownAttended, SeekAttended DEF AfterStartSeek
<1>13. CASE AfterEqSwitch(s)
  BY <1>13, AgainTakesOver, SettlesAttended DEF AfterEqSwitch, Settles
<1>14. QED
  BY <1>5, <1>6, <1>7, <1>8, <1>10, <1>11, <1>12, <1>13, PlainAttended DEF EqContinue

LEMMA ToggleAttended ==
  ASSUME EqTyped, InOrder, EqAttended, EqTogglePlay
  PROVE  EqAttended'
<1>1. CASE status' \notin Loading \/ TakenOver
  BY <1>1, SettlesAttended DEF Settles
<1>2. CASE TogglePlay
  <2>1. CASE status \in {"PLAYING", "PAUSED"} /\ UNCHANGED engine
    BY <1>1, <2>1 DEF engine, Loading
  <2>2. CASE \E s \in Slots : tasks' = [Superseded EXCEPT ![s] = At("cancel", NoSong, FALSE)]
    BY <1>1, <2>2, BeginTakesOver
  <2>3. CASE PlayNew(currentSong)
    BY <1>1, <2>3, AgainTakesOver DEF EqTyped
  <2>4. CASE status' = "IDLE"
    BY <1>1, <2>4 DEF Loading
  <2>5. QED
    BY <1>2, <2>1, <2>2, <2>3, <2>4 DEF TogglePlay
<1>3. CASE usingNativeEq
  BY <1>1, <1>3 DEF EqTogglePlay, Loading
<1>4. QED
  BY <1>2, <1>3 DEF EqTogglePlay

LEMMA DeviceAttended ==
  ASSUME EqTyped, InOrder, EqAttended, MCNext, EqDevice
  PROVE  EqAttended'
<1>0. NativeAttends => NativeAttends'
  <2>1. usingNativeEq' = usingNativeEq /\ (polling => polling')
    <3>1. CASE EqAvSucceeds
      BY <3>1 DEF EqAvSucceeds
    <3>2. CASE UNCHANGED eq
      BY <3>2 DEF eq
    <3>3. QED
      BY <3>1, <3>2 DEF EqDevice
  <2>2. QED
    BY <2>1, NativeKept
<1>1. CASE status' \notin Loading \/ TakenOver
  BY <1>1, SettlesAttended DEF Settles
<1>2. ASSUME QuietCalls, UNCHANGED <<status, loadingTimer, errorSkip>>
      PROVE  EqAttended'
  BY <1>0, <1>2, SettlesAttended DEF Settles, Quiet
<1>3. CASE AvSucceeds
  <2>1. CASE Command1 = "play"
    BY <1>1, <1>3, <2>1 DEF AvSucceeds, Loading
  <2>2. CASE Command1 # "play"
    <3>1. QuietCalls /\ UNCHANGED <<loadingTimer, errorSkip>>
      BY <1>3, <2>2, QuietAnswer DEF AvSucceeds
    <3>2. status' = status \/ status' \in {"PAUSED", "IDLE"}
      BY <1>3, <2>2 DEF AvSucceeds
    <3>3. QED
      BY <1>1, <1>2, <3>1, <3>2 DEF Loading
  <2>3. QED
    BY <2>1, <2>2
<1>4. CASE AvRejects
  BY <1>2, <1>4, QuietAnswer DEF AvRejects, engine
<1>5. CASE AvInitialized \/ AvFails
  BY <1>2, <1>5, QuietSame DEF AvInitialized, AvFails, engine
<1>6. CASE OnStateError \/ OnError
  BY <1>1, <1>6, AgainTakesOver DEF OnStateError, OnError, Loading
<1>7. QED
  BY <1>3, <1>4, <1>5, <1>6 DEF EqDevice, EqAvSucceeds

LEMMA OtherAttended ==
  ASSUME EqTyped, InOrder, EqAttended, MCNext,
         EqTogglePlay \/ EqSeekTo \/ SetEqEnabled \/ PollNative \/ EqLoadingTimeout
           \/ EqErrorSkipTimeout \/ EqDevice \/ EqOnCompleted \/ EqUserPlays \/ NativeThreads
  PROVE  EqAttended'
<1>1. CASE status' \notin Loading \/ TakenOver \/ NativeAttends' \/ Quiet
  BY <1>1, SettlesAttended DEF Settles
<1>2. ASSUME UNCHANGED <<usingNativeEq, polling>> PROVE NativeAttends => NativeAttends'
  BY <1>2, NativeKept
<1>3. CASE EqSeekTo
  <2>1. CASE usingNativeEq
    <3>1. usingNativeEq' = usingNativeEq /\ polling' = polling
      BY <1>3, <2>1 DEF EqSeekTo
    <3>2. NativeAttends'
      BY <1>3, <2>1, <3>1 DEF MCNext, NativeAttends
    <3>3. QED
      BY <1>1, <3>2
  <2>2. CASE SeekTo /\ UNCHANGED eq
    <3>1. QuietCalls
      <4>1. PICK s \in Slots, step \in {"seek", "seekOnly"} :
              Free(s) /\ tasks' = [tasks EXCEPT ![s] = At(step, NoSong, FALSE)]
        BY <2>2 DEF SeekTo
      <4>2. QED
        BY <4>1, QuietAdd
    <3>2. Quiet
      BY <1>2, <2>2, <3>1 DEF SeekTo, engine, eq, Quiet
    <3>3. QED
      BY <1>1, <3>2
  <2>3. QED
    BY <1>3, <2>1, <2>2 DEF EqSeekTo
<1>4. CASE SetEqEnabled
  <2>1. QuietCalls
    BY <1>4, QuietAdd, QuietSame DEF SetEqEnabled
  <2>2. Quiet
    BY <1>2, <1>4, <2>1 DEF SetEqEnabled, engine, Quiet
  <2>3. QED
    BY <1>1, <2>2
<1>5. CASE PollNative
  <2>1. CASE PollShows
    <3>1. NativeAttends'
      BY <1>2, <1>5, <2>1 DEF PollNative, PollShows, NativeAttends, eq
    <3>2. QED
      BY <1>1, <3>1
  <2>2. CASE PollCompleted
    BY <1>1, <2>2, NextTakesOver DEF PollCompleted
  <2>3. CASE PollFailed
    BY <1>1, <2>3, AgainTakesOver DEF PollFailed
  <2>4. QED
    BY <1>5, <2>1, <2>2, <2>3 DEF PollNative
<1>6. CASE EqLoadingTimeout
  BY <1>1, <1>6, AgainTakesOver, GivenUp DEF EqLoadingTimeout, LoadingTimeout, Loading
<1>7. CASE EqErrorSkipTimeout \/ EqOnCompleted \/ EqUserPlays
  BY <1>1, <1>7, NextTakesOver DEF EqErrorSkipTimeout, EqOnCompleted, EqUserPlays, ErrorSkipTimeout, OnCompleted,
     UserPlays
<1>8. CASE NativeThreads
  <2>1. UNCHANGED <<vars, usingNativeEq, polling>>
    BY <1>8 DEF NativeThreads
  <2>2. Quiet
    BY <1>2, <2>1, QuietSame DEF Quiet, vars, engine
  <2>3. QED
    BY <1>1, <2>2
<1>9. QED
  BY <1>3, <1>4, <1>5, <1>6, <1>7, <1>8, ToggleAttended, DeviceAttended

LEMMA StepAttended ==
  ASSUME EqTyped, InOrder, EqAttended, [MCNext]_mcVars
  PROVE  EqAttended'
<1>1. CASE MCNext
  BY <1>1, TaskAttended, OtherAttended DEF MCNext, EqNext, EqUserActs
<1>2. CASE UNCHANGED mcVars
  <2>1. /\ UNCHANGED <<status, loadingTimer, errorSkip, tasks, usingNativeEq, polling, soughtAtEnd>>
    BY <1>2 DEF mcVars, eqVars, vars, engine, eq
  <2>2. Quiet
    BY <2>1, QuietSame DEF Quiet, NativeAttends
  <2>3. QED
    BY <2>2, SettlesAttended DEF Settles
<1>3. QED
  BY <1>1, <1>2

\* The next step of the specification with its history is one of the engine's.
LEMMA EngineStep ==
  ASSUME EqTyped, InOrder, [MCNext]_mcVars
  PROVE  EqTyped' /\ InOrder'
BY StepTyped DEF MCNext, mcVars

\* The screen never shows a loading song that nothing will settle, however many calls
\* are in flight: superseded calls show their song late and let go of the loading timer
\* of a later one, but then the latest call, or the progress timer, is still at work.
THEOREM AttentionCorrect == MCSpec => []EqLoadingIsAttended
<1>1. MCInit => EqTyped /\ InOrder /\ EqAttended
  <2>1. MCInit => EqTyped /\ InOrder
    BY InitTyped DEF MCInit
  <2>2. MCInit => EqAttended
    BY DEF MCInit, EqInit, Init, EqAttended, StartedOk, Step, NoTask, Loading
  <2>3. QED
    BY <2>1, <2>2
<1>2. EqTyped /\ InOrder /\ EqAttended /\ [MCNext]_mcVars => (EqTyped /\ InOrder /\ EqAttended)'
  BY EngineStep, StepAttended
<1>3. EqAttended => EqLoadingIsAttended
  BY DEF EqAttended, EqLoadingIsAttended, NativeAttends, Attends, Step, Latest
<1>4. QED
  BY <1>1, <1>2, <1>3, PTL DEF MCSpec
-----------------------------------------------------------------------------
(* Who controls the native player. *)

\* The awaits of a play call that has chosen the AVPlayer, or not chosen yet.
AvSteps == {"pause", "reset", "init", "prepare", "start", "startSeek"}
Doing(s) == Latest(s) /\ Step(s) \in AvSteps

\* Beyond the property: the native player is in use only while the equalizer is on and
\* no fallback is due, and never while the latest call is at work with the AVPlayer.
EqControl ==
  /\ native # "IDLE" => usingNativeEq
  /\ usingNativeEq => eqEnabled /\ ~forceAv
  /\ \A s \in Slots : Doing(s) => ~usingNativeEq

\* A fallback to the AVPlayer supersedes the call that is about to play natively.
EqForce == \A s \in Slots : Latest(s) /\ Step(s) = "nativeReset" => ~forceAv

Controlled == EqForce /\ (strayed \/ EqControl)

\* No call begins, or goes on, to work with the AVPlayer.
QuietDoing == \A s \in Slots : Doing(s)' => Doing(s)

\* A step after which the native player is silent and not in use.
Silences == native' = "IDLE" /\ ~usingNativeEq'

\* A step that leaves it in use, or out of use.
Leaves ==
  /\ QuietDoing
  /\ usingNativeEq' = usingNativeEq
  /\ native' # "IDLE" => native # "IDLE" \/ usingNativeEq
  /\ forceAv' => forceAv

LEMMA LeavesControl ==
  ASSUME EqControl, MCNext, ~strayed', Silences \/ Leaves
  PROVE  EqControl'
<1>1. usingNativeEq' => eqEnabled'
  BY DEF MCNext
<1>2. CASE Silences
  BY <1>2 DEF Silences, EqControl
<1>3. CASE Leaves
  BY <1>1, <1>3 DEF Leaves, QuietDoing, EqControl
<1>4. QED
  BY <1>2, <1>3

LEMMA StopSilences ==
  ASSUME EqControl, StopNative \/ StopIfUsed \/ ResetNative
  PROVE  Silences
BY DEF EqControl, StopNative, StopIfUsed, ResetNative, Silences, player, Native!PlayerStop

LEMMA UnusedSilent ==
  ASSUME EqControl, ~usingNativeEq, UNCHANGED <<native, usingNativeEq>> \/ NewSong
  PROVE  Silences
<1>1. CASE StopIfUsed
  BY <1>1, StopSilences
<1>2. CASE UNCHANGED <<native, usingNativeEq>>
  BY <1>2 DEF EqControl, Silences
<1>3. QED
  BY <1>1, <1>2 DEF NewSong, player

\* play of a new song stops the native player; the end of the queue leaves all as it is.
LEMMA NextSilences ==
  ASSUME EqTyped, EqControl, NEW skip, NextInQueue(skip), NewSong
  PROVE  Silences \/ (tasks' = tasks /\ UNCHANGED <<native, usingNativeEq>>)
<1>1. CASE PlaysNew
  BY <1>1, StopSilences DEF NewSong
<1>2. CASE ~PlaysNew
  <2>1. tasks' = tasks
    BY <1>2, PauseIsNew DEF NextInQueue
  <2>2. QED
    BY <1>2, <2>1 DEF NewSong, player
<1>3. QED
  BY <1>1, <1>2

LEMMA DoingSame ==
  ASSUME tasks' = tasks
  PROVE  QuietDoing
BY DEF QuietDoing, Doing, Latest, Step

LEMMA DoingQuit ==
  ASSUME EqTyped, NEW s \in Slots, Finish(s)
  PROVE  QuietDoing
<1>1. Placed(s, "none", NoSong, FALSE) /\ \A t \in Slots \ {s} : Same(t)
  BY QuitEffect
<1>2. QED
  BY <1>1 DEF QuietDoing, Doing, Latest, Step, Same, Placed

LEMMA DoingMove ==
  ASSUME EqTyped, NEW s \in Slots, NEW step \in Steps, Goto(s, step), step \in AvSteps => Doing(s)
  PROVE  QuietDoing
<1>1. Placed(s, step, tasks[s].song, tasks[s].fresh) /\ \A t \in Slots \ {s} : Same(t)
  BY MoveEffect
<1>2. QED
  BY <1>1 DEF QuietDoing, Doing, Latest, Step, Same, Placed

LEMMA DoingAdd ==
  ASSUME EqTyped, NEW s \in Slots, NEW step \in Steps \ AvSteps,
         tasks' = [tasks EXCEPT ![s] = At(step, NoSong, FALSE)]
  PROVE  QuietDoing
<1>1. Placed(s, step, NoSong, FALSE) /\ \A t \in Slots \ {s} : Same(t)
  BY AddEffect
<1>2. QED
  BY <1>1 DEF QuietDoing, Doing, Latest, Step, Same, Placed

LEMMA DoingBegin ==
  ASSUME EqTyped, NEW s \in Slots, NEW step \in Steps \ AvSteps, NEW song \in Songs \cup {NoSong},
         NEW fresh \in BOOLEAN, tasks' = [Superseded EXCEPT ![s] = At(step, song, fresh)]
  PROVE  QuietDoing
<1>1. Placed(s, step, song, fresh) /\ \A t \in Slots \ {s} : ~Latest(t)'
  BY BeginEffect
<1>2. QED
  BY <1>1 DEF QuietDoing, Doing, Latest, Step, Placed

LEMMA DoingAgain ==
  ASSUME EqTyped, PlayAgain \/ (\E s \in Slots : Refresh(s))
  PROVE  QuietDoing
<1>1. currentSong \in Songs \cup {NoSong} /\ "resolve" \in Steps \ AvSteps
  BY DEF EqTyped, Steps, PlaySteps, AvSteps
<1>2. QED
  BY <1>1, DoingBegin DEF PlayAgain, Refresh

LEMMA DoingSuperseded ==
  ASSUME EqTyped, tasks' = Superseded
  PROVE  QuietDoing
BY SupersededEffect DEF QuietDoing, Doing

LEMMA DoingAnswer ==
  ASSUME EqTyped, NEW r \in {"ok", "fail"}, Due, Answer(r)
  PROVE  QuietDoing
<1>1. PICK h \in Slots : h = Head(avQueue)
  BY HeadIsCall DEF Due
<1>2. /\ Step(h)' = Step(h) /\ tasks'[h].fresh = tasks[h].fresh
      /\ \A t \in Slots \ {h} : Same(t)
  BY <1>1, AnswerEffect
<1>3. QED
  BY <1>2 DEF QuietDoing, Doing, Latest, Step, Same

LEMMA DoingGiveUp ==
  ASSUME EqTyped, NEW s \in Slots, GiveUp(s) \/ NotStarted(s) \/ Thrown(s) \/ Expired(s)
  PROVE  QuietDoing
<1>1. "background" \in Steps /\ "background" \notin AvSteps
  BY DEF Steps, OtherSteps, AvSteps
<1>2. Finish(s) \/ Goto(s, "background")
  BY DEF GiveUp, ResetInBackground, NotStarted, Thrown, Expired, Await
<1>3. QED
  BY <1>1, <1>2, DoingQuit, DoingMove

\* The native player is started: by a call that is not superseded, unless it has strayed,
\* and no call is at work with the AVPlayer when that one ends.
LEMMA StartControls ==
  ASSUME EqTyped, InOrder, MCNext, ~strayed', NEW s \in Slots, PlayNatively(s), Latest(s), ~forceAv
  PROVE  EqControl'
<1>1. tasks'[s] = NoTask /\ \A t \in Slots \ {s} : Same(t)
  BY QuitEffect DEF PlayNatively
<1>2. \A t \in Slots : ~Latest(t)'
  BY <1>1 DEF InOrder, EqCalls, Latest, Same, NoTask
<1>3. usingNativeEq' /\ eqEnabled' /\ ~forceAv'
  BY DEF PlayNatively, MCNext
<1>4. QED
  BY <1>2, <1>3 DEF EqControl, Doing

LEMMA StepForce ==
  ASSUME EqTyped, InOrder, EqForce, EqNext
  PROVE  EqForce'
<1>1. Shape
  BY NextShape
<1>2. ASSUME NEW t \in Slots, Latest(t)', Step(t)' = "nativeReset" PROVE ~forceAv
  <2>1. CASE Latest(t) /\ Step(t) = "nativeReset"
    BY <2>1 DEF EqForce
  <2>2. ASSUME NEW s \in Slots, NEW step \in Steps, Moves(s, step) PROVE ~forceAv
    <3>1. Placed(s, step, tasks[s].song, tasks[s].fresh) /\ \A u \in Slots \ {s} : Same(u)
      BY <2>2, MoveEffect DEF Moves
    <3>2. QED
      BY <1>2, <2>1, <2>2, <3>1 DEF Moves, Placed, Same, Latest, Step
  <2>3. ASSUME NEW s \in Slots, NEW step \in {"pause", "resolve", "cancel"}, NEW song \in Songs \cup {NoSong},
               NEW fresh \in BOOLEAN, Begins(s, step, song, fresh)
        PROVE  FALSE
    <3>1. step \in Steps
      BY DEF Steps, PlaySteps, OtherSteps
    <3>2. Placed(s, step, song, fresh) /\ \A u \in Slots \ {s} : ~Latest(u)'
      BY <2>3, <3>1, BeginEffect DEF Begins
    <3>3. QED
      BY <1>2, <3>2 DEF Placed
  <2>4. CASE \E s \in Slots : Quits(s)
    <3>1. PICK s \in Slots : Finish(s)
      BY <2>4 DEF Quits
    <3>2. Placed(s, "none", NoSong, FALSE) /\ \A u \in Slots \ {s} : Same(u)
      BY <3>1, QuitEffect
    <3>3. QED
      BY <1>2, <2>1, <3>2 DEF Placed, Same, Latest, Step
  <2>5. ASSUME NEW s \in Slots, NEW step \in {"togglePause", "togglePlay", "seek", "seekOnly", "eqSwitch"}, Adds(s, step)
        PROVE  ~forceAv
    <3>1. Placed(s, step, NoSong, FALSE) /\ \A u \in Slots \ {s} : Same(u)
      BY <2>5, AddEffect DEF Adds, Steps, OtherSteps
    <3>2. QED
      BY <1>2, <2>1, <3>1 DEF Placed, Same, Latest, Step
  <2>6. CASE tasks' = Superseded
    BY <1>2, <2>6, SupersededEffect
  <2>7. ASSUME NEW r \in {"ok", "fail"}, Answers(r) PROVE ~forceAv
    <3>1. PICK h \in Slots : h = Head(avQueue)
      BY <2>7, HeadIsCall DEF Answers, Due
    <3>2. Step(h)' = Step(h) /\ tasks'[h].fresh = tasks[h].fresh /\ \A u \in Slots \ {h} : Same(u)
      BY <2>7, <3>1, AnswerEffect DEF Answers
    <3>3. QED
      BY <1>2, <2>1, <3>2 DEF Same, Latest, Step
  <2>8. CASE tasks' = tasks
    BY <1>2, <2>1, <2>8 DEF Latest, Step
  <2>9. QED
    BY <1>1, <2>2, <2>3, <2>4, <2>5, <2>6, <2>7, <2>8 DEF Shape
<1>3. CASE PollFailed
  <2>1. PICK s \in Slots : Refresh(s)
    BY <1>3 DEF PollFailed
  <2>2. currentSong \in Songs \cup {NoSong} /\ "resolve" \in Steps
    BY DEF EqTyped, Steps, PlaySteps
  <2>3. Placed(s, "resolve", currentSong, TRUE) /\ \A u \in Slots \ {s} : ~Latest(u)'
    BY <2>1, <2>2, BeginEffect DEF Refresh
  <2>4. QED
    BY <2>3 DEF Placed, EqForce
<1>4. ASSUME ~PollFailed PROVE forceAv' => forceAv
  <2>1. ASSUME NEW s \in Slots, EqContinue(s) PROVE forceAv' => forceAv
    BY <2>1 DEF EqContinue, PlainStep, EqUnresolved, EqResolved, AfterNativeReset, PlayNatively, EqPollInitialized,
       EqAfterPrepare, EqAfterStart, AfterStartSeek, AfterEqSwitch, EqThrown, StartedWith, ResetNative, eq
  <2>2. CASE EqTogglePlay \/ EqSeekTo \/ SetEqEnabled \/ EqUserPlays
    BY <2>2 DEF EqTogglePlay, EqSeekTo, SetEqEnabled, EqUserPlays, eq
  <2>3. CASE PollNative \/ EqLoadingTimeout \/ EqErrorSkipTimeout \/ EqDevice \/ EqOnCompleted \/ NativeThreads
    BY <1>4, <2>3 DEF PollNative, PollShows, PollCompleted, EqLoadingTimeout, ResetNative, EqErrorSkipTimeout,
       EqDevice, EqAvSucceeds, EqOnCompleted, NativeThreads, eq
  <2>4. QED
    BY <2>1, <2>2, <2>3 DEF EqNext, EqUserActs
<1>5. QED
  BY <1>2, <1>3, <1>4 DEF EqForce

LEMMA PlainControl ==
  ASSUME EqTyped, InOrder, NEW s \in Slots, PlainStep(s)
  PROVE  Leaves
<1>0. QuietDoing => Leaves
  BY DEF PlainStep, Leaves, eq, player
<1>1. {"resolve", "resolveAgain", "seekPlay", "init"} \subseteq Steps
  BY DEF Steps, PlaySteps, OtherSteps
<1>2. ASSUME NEW step \in {"resolve", "resolveAgain", "seekPlay", "init"}, Goto(s, step),
             step = "init" => Doing(s)
      PROVE  QuietDoing
  BY <1>1, <1>2, DoingMove DEF AvSteps
<1>3. CASE AfterPause(s) \/ AfterDelay(s) \/ AfterToggle(s) \/ AfterBackgroundReset(s) \/ AfterSeek(s)
  BY <1>0, <1>2, <1>3, DoingQuit DEF AfterPause, AfterDelay, AfterToggle, AfterBackgroundReset, AfterSeek,
     Expired, Await
<1>4. CASE AfterReset(s) \/ InitializeTimeout(s)
  <2>1. CASE NotStarted(s)
    BY <1>0, <2>1, DoingGiveUp
  <2>2. CASE AfterReset(s) /\ tasks[s].fresh
    <3>1. Doing(s)
      BY <2>2, AnsweredIsIdle DEF AfterReset, Doing, Latest, AvSteps
    <3>2. QED
      BY <1>0, <1>2, <2>2, <3>1 DEF AfterReset
  <2>3. QED
    BY <1>4, <2>1, <2>2 DEF AfterReset, InitializeTimeout
<1>5. QED
  BY <1>3, <1>4 DEF PlainStep

LEMMA ThrownControl ==
  ASSUME EqTyped, EqControl, NEW s \in Slots, Thrown(s) \/ NotStarted(s), EqThrown(s) \/ UNCHANGED eq
  PROVE  Silences \/ Leaves
<1>1. CASE ResetNative
  BY <1>1, StopSilences
<1>2. CASE UNCHANGED eq
  BY <1>2, DoingGiveUp DEF Leaves, eq, player
<1>3. QED
  BY <1>1, <1>2 DEF EqThrown

LEMMA TaskControl ==
  ASSUME EqTyped, InOrder, EqControl, EqForce, MCNext, ~strayed', NEW s \in Slots, EqContinue(s)
  PROVE  EqControl'
<1>0. {"delay", "nativeReset", "start", "startSeek"} \subseteq Steps
  BY DEF Steps, PlaySteps
<1>1. CASE Silences \/ Leaves
  BY <1>1, LeavesControl
<1>2. Step(s) \in Harmless => Latest(s)
  BY DEF InOrder, EqCalls
<1>3. ASSUME PlayNatively(s), ~forceAv, Latest(s) PROVE EqControl'
  BY <1>3, StartControls
<1>4. ASSUME QuietDoing, UNCHANGED eq PROVE EqControl'
  BY <1>1, <1>4 DEF Leaves, eq, player
<1>5. CASE EqUnresolved(s)
  <2>1. CASE ResetNative
    BY <1>1, <2>1, StopSilences
  <2>2. CASE UNCHANGED eq
    <3>1. QuietDoing
      BY <1>0, <1>5, DoingMove, DoingGiveUp DEF EqUnresolved, Unresolved, AvSteps
    <3>2. QED
      BY <1>4, <2>2, <3>1
  <2>3. QED
    BY <1>5, <2>1, <2>2 DEF EqUnresolved
<1>6. CASE EqResolved(s)
  <2>1. Step(s) \in Harmless
    BY <1>6 DEF EqResolved, Resolved, Step, Harmless
  <2>2. CASE (~eqEnabled \/ forceAv) /\ UNCHANGED <<usingNativeEq, player>>
    <3>1. ~usingNativeEq
      BY <2>2 DEF EqControl
    <3>2. QED
      BY <1>1, <2>2, <3>1, UnusedSilent DEF player
  <2>3. CASE StopNative
    BY <1>1, <2>3, StopSilences
  <2>4. CASE Await(s, "nativeReset") /\ UNCHANGED eq
    <3>1. QuietDoing
      BY <1>0, <2>4, DoingMove DEF AvSteps, Await
    <3>2. QED
      BY <1>4, <2>4, <3>1
  <2>5. QED
    BY <1>2, <1>3, <1>6, <2>1, <2>2, <2>3, <2>4 DEF EqResolved
<1>7. CASE AfterNativeReset(s)
  <2>1. Step(s) = "nativeReset" /\ PlayNatively(s)
    BY <1>7, AnsweredIsIdle DEF AfterNativeReset
  <2>2. tasks'[s].step = "none"
    <3>1. Finish(s)
      BY <2>1 DEF PlayNatively
    <3>2. QED
      BY <3>1, QuitEffect DEF Placed, Step
  <2>3. Latest(s)
    BY <2>1, <2>2 DEF MCNext, StartedBySuperseded, Latest, Step
  <2>4. QED
    BY <1>3, <2>1, <2>3 DEF EqForce
<1>8. CASE EqPollInitialized(s)
  <2>1. Step(s) = "init"
    BY <1>8 DEF EqPollInitialized, PollInitialized, Step
  <2>2. CASE tasks[s].fresh
    <3>1. ~usingNativeEq
      BY <2>1, <2>2 DEF EqControl, Doing, Latest, AvSteps
    <3>2. UNCHANGED <<native, usingNativeEq>>
      BY <1>8, <3>1, <2>2 DEF EqPollInitialized, player, EqTyped, EqTypeOK
    <3>3. QED
      BY <1>1, <3>1, <3>2, UnusedSilent
  <2>3. CASE ~tasks[s].fresh
    <3>1. QuietDoing
      BY <1>8, <2>3, DoingGiveUp DEF EqPollInitialized, PollInitialized
    <3>2. usingNativeEq' = usingNativeEq
      BY <1>8, <2>3 DEF EqPollInitialized, EqTyped, EqTypeOK
    <3>3. QED
      BY <1>1, <1>8, <3>1, <3>2 DEF EqPollInitialized, Leaves, player
  <2>4. QED
    BY <2>2, <2>3
<1>9. tasks[s].fresh \in BOOLEAN /\ tasks[s].result \in {"pending", "ok", "fail"}
  BY TasksTyped DEF Latest
<1>10. ASSUME NEW shown, StartedWith(s, shown) PROVE EqControl'
  <2>1. QuietDoing
    BY <1>10, DoingQuit DEF StartedWith
  <2>2. Leaves
    BY <1>10, <2>1 DEF StartedWith, Leaves, player
  <2>3. QED
    BY <1>1, <2>2
<1>11. ASSUME NEW step \in {"start", "startSeek"}, Await(s, step), UNCHANGED eq, tasks[s].fresh,
              Step(s) \in {"prepare", "start"}
       PROVE  EqControl'
  <2>1. Doing(s)
    BY <1>11 DEF Doing, Latest, AvSteps
  <2>2. QuietDoing
    BY <1>0, <1>11, <2>1, DoingMove DEF Await
  <2>3. QED
    BY <1>4, <1>11, <2>2
<1>12. ASSUME Thrown(s) \/ NotStarted(s), EqThrown(s) \/ UNCHANGED eq PROVE EqControl'
  BY <1>1, <1>12, ThrownControl
<1>13. CASE EqAfterPrepare(s)
  <2>1. Step(s) = "prepare" /\ ~Pending(s)
    BY <1>13, AnsweredIsIdle DEF EqAfterPrepare, AfterPrepare
  <2>2. CASE AfterPrepare(s) /\ ((EqThrown(s) /\ tasks[s].result = "fail") \/ UNCHANGED eq)
    <3>1. CASE tasks[s].result = "fail"
      BY <1>12, <2>2, <3>1 DEF AfterPrepare
    <3>2. CASE tasks[s].result = "ok" /\ UNCHANGED eq
      BY <1>9, <1>11, <1>12, <2>1, <2>2, <3>2 DEF AfterPrepare
    <3>3. QED
      BY <1>9, <2>1, <2>2, <3>1, <3>2 DEF Pending
  <2>3. QED
    BY <1>10, <1>13, <2>2 DEF EqAfterPrepare
<1>14. CASE EqAfterStart(s)
  <2>1. Step(s) = "start" /\ ~Pending(s)
    BY <1>14, AnsweredIsIdle DEF EqAfterStart, AfterStart
  <2>2. CASE AfterStart(s) /\ (EqThrown(s) \/ UNCHANGED eq) /\ (tasks[s].result = "fail" \/ ~tasks[s].fresh)
    BY <1>9, <1>12, <2>1, <2>2 DEF AfterStart, Pending
  <2>3. QED
    BY <1>10, <1>11, <1>14, <2>1, <2>2 DEF EqAfterStart
<1>15. CASE AfterStartSeek(s)
  BY <1>10, <1>12, <1>15 DEF AfterStartSeek
<1>16. CASE AfterEqSwitch(s)
  <2>1. QuietDoing
    BY <1>16, DoingAgain DEF AfterEqSwitch
  <2>2. Leaves
    BY <1>16, <2>1 DEF AfterEqSwitch, Leaves, player
  <2>3. QED
    BY <1>1, <2>2
<1>17. QED
  BY <1>1, <1>5, <1>6, <1>7, <1>8, <1>13, <1>14, <1>15, <1>16, PlainControl DEF EqContinue

LEMMA ToggleControl ==
  ASSUME EqTyped, EqControl, EqTogglePlay
  PROVE  Silences \/ Leaves
<1>1. CASE ~usingNativeEq
  BY <1>1, UnusedSilent DEF EqTogglePlay
<1>2. CASE StopNative
  BY <1>2, StopSilences
<1>3. CASE usingNativeEq /\ ~StopNative
  BY <1>3, DoingSame DEF EqTogglePlay, Leaves
<1>4. QED
  BY <1>1, <1>2, <1>3

LEMMA OtherControl ==
  ASSUME EqTyped, EqControl,
         EqTogglePlay \/ EqSeekTo \/ SetEqEnabled \/ PollNative \/ EqLoadingTimeout
           \/ EqErrorSkipTimeout \/ EqDevice \/ EqOnCompleted \/ EqUserPlays \/ NativeThreads
  PROVE  Silences \/ Leaves
<1>0. {"seek", "seekOnly", "eqSwitch"} \subseteq Steps \ AvSteps
  BY DEF Steps, OtherSteps, AvSteps
<1>1. ASSUME QuietDoing, UNCHANGED <<native, usingNativeEq, forceAv>> PROVE Leaves
  BY <1>1 DEF Leaves
<1>2. CASE EqSeekTo
  <2>1. CASE SeekTo /\ UNCHANGED eq
    <3>1. QuietDoing
      BY <1>0, <2>1, DoingAdd DEF SeekTo
    <3>2. QED
      BY <1>1, <2>1, <3>1 DEF eq, player
  <2>2. CASE usingNativeEq
    BY <1>2, <2>2, DoingSame DEF EqSeekTo, Leaves
  <2>3. QED
    BY <1>2, <2>1, <2>2 DEF EqSeekTo
<1>3. CASE SetEqEnabled
  <2>1. QuietDoing
    BY <1>0, <1>3, DoingAdd, DoingSame DEF SetEqEnabled
  <2>2. QED
    BY <1>1, <1>3, <2>1 DEF SetEqEnabled, player
<1>4. CASE PollNative
  <2>1. CASE PollShows
    BY <1>1, <2>1, DoingSame DEF PollShows, eq, player
  <2>2. CASE PollCompleted
    <3>1. Silences \/ (tasks' = tasks /\ UNCHANGED <<native, usingNativeEq>>)
      BY <2>2, NextSilences DEF PollCompleted
    <3>2. QED
      BY <1>1, <2>2, <3>1, DoingSame DEF PollCompleted
  <2>3. CASE PollFailed
    BY <2>3, StopSilences DEF PollFailed
  <2>4. QED
    BY <1>4, <2>1, <2>2, <2>3 DEF PollNative
<1>5. CASE EqLoadingTimeout
  <2>1. QuietDoing
    BY <1>5, DoingSame, DoingAgain, DoingGiveUp DEF EqLoadingTimeout, LoadingTimeout
  <2>2. CASE ResetNative
    BY <2>2, StopSilences
  <2>3. CASE UNCHANGED eq
    BY <1>1, <2>1, <2>3 DEF eq, player
  <2>4. QED
    BY <1>5, <2>2, <2>3 DEF EqLoadingTimeout
<1>6. CASE EqErrorSkipTimeout \/ EqOnCompleted \/ EqUserPlays
  <2>1. forceAv' = forceAv /\ NewSong /\ \E skip : NextInQueue(skip)
    BY <1>6 DEF EqErrorSkipTimeout, EqOnCompleted, EqUserPlays, ErrorSkipTimeout, OnCompleted, UserPlays
  <2>2. Silences \/ (tasks' = tasks /\ UNCHANGED <<native, usingNativeEq>>)
    BY <2>1, NextSilences
  <2>3. QED
    BY <1>1, <2>1, <2>2, DoingSame
<1>7. CASE EqDevice
  <2>1. QuietDoing
    BY <1>7, DoingAnswer, DoingSame, DoingAgain DEF EqDevice, EqAvSucceeds, AvSucceeds, AvRejects, AvInitialized,
       AvFails, OnStateError, OnError
  <2>2. UNCHANGED <<native, usingNativeEq, forceAv>>
    BY <1>7 DEF EqDevice, EqAvSucceeds, eq, player
  <2>3. QED
    BY <1>1, <2>1, <2>2
<1>8. CASE NativeThreads
  <2>1. tasks' = tasks /\ UNCHANGED <<usingNativeEq, forceAv>> /\ native # "IDLE"
    BY <1>8 DEF NativeThreads, vars, Native!Threads, Native!Started, Native!Failed, Native!Ended
  <2>2. QED
    BY <2>1, DoingSame DEF Leaves
<1>9. QED
  BY <1>2, <1>3, <1>4, <1>5, <1>6, <1>7, <1>8, ToggleControl

LEMMA StepControl ==
  ASSUME EqTyped, InOrder, Controlled, [MCNext]_mcVars
  PROVE  Controlled'
<1>1. CASE MCNext
  <2>1. EqForce'
    BY <1>1, StepForce DEF MCNext, Controlled
  <2>2. ASSUME ~strayed' PROVE EqControl'
    <3>1. ~strayed /\ EqControl /\ EqForce
      BY <1>1, <2>2 DEF MCNext, Controlled
    <3>2. QED
      BY <1>1, <2>2, <3>1, TaskControl, OtherControl, LeavesControl DEF MCNext, EqNext, EqUserActs
  <2>3. QED
    BY <2>1, <2>2 DEF Controlled
<1>2. CASE UNCHANGED mcVars
  BY <1>2 DEF mcVars, eqVars, vars, eq, player, Controlled, EqForce, EqControl, Doing, Latest, Step
<1>3. QED
  BY <1>1, <1>2

LEMMA InitControl ==
  ASSUME EqInit
  PROVE  Controlled
BY DEF EqInit, Init, Native!Init, Controlled, EqForce, EqControl, Doing, Latest, Step, NoTask

\* The native player is never left playing a song the engine has forgotten: whoever sets
\* usingNativeEq to false has stopped it, or has found it stopped.  Polling for
\* 'initialized' ends with usingNativeEq = false and no playerStop; it is sound since
\* play and a fallback have stopped the player long before.
THEOREM ControlCorrect == MCSpec => []NativeIsControlled
<1>1. MCInit => EqTyped /\ InOrder /\ Controlled
  BY InitTyped, InitControl DEF MCInit
<1>2. EqTyped /\ InOrder /\ Controlled /\ [MCNext]_mcVars => (EqTyped /\ InOrder /\ Controlled)'
  BY EngineStep, StepControl
<1>3. Controlled => NativeIsControlled
  BY DEF Controlled, EqControl, NativeIsControlled
<1>4. QED
  BY <1>1, <1>2, <1>3, PTL DEF MCSpec
-----------------------------------------------------------------------------
(* What a step of the engine does to one call, and to the order of two. *)

Kept(t) ==
  /\ Step(t)' = Step(t) /\ tasks'[t].song = tasks[t].song /\ tasks'[t].result = tasks[t].result
  /\ Latest(t)' => Latest(t)
Gone(t) == Idle(t) /\ Placed(t, "none", NoSong, FALSE)
Moved(t) == \E step \in Steps : Moves(t, step) /\ Placed(t, step, tasks[t].song, tasks[t].fresh)
Begun(t) ==
  \E step \in {"pause", "resolve", "cancel"}, song \in Songs \cup {NoSong}, fresh \in BOOLEAN :
    Begins(t, step, song, fresh) /\ Placed(t, step, song, fresh)
Added(t) ==
  \E step \in {"togglePause", "togglePlay", "seek", "seekOnly", "eqSwitch"} :
    Adds(t, step) /\ Placed(t, step, NoSong, FALSE)
JustAnswered(t) ==
  \E r \in {"ok", "fail"} :
    /\ Answers(r) /\ t = Head(avQueue)
    /\ Step(t)' = Step(t) /\ tasks'[t].song = tasks[t].song /\ Latest(t)' = Latest(t)
    /\ tasks'[t].result = r

LEMMA SameKept ==
  ASSUME NEW t, Same(t)
  PROVE  Kept(t)
BY DEF Same, Kept, Step, Latest

LEMMA StaleKept ==
  ASSUME NEW t, Stale(t), ~Latest(t)'
  PROVE  Kept(t) \/ Gone(t)
<1>1. CASE Step(t) \in Harmless /\ tasks'[t] = NoTask
  BY <1>1 DEF Gone, Idle, Harmless, Commanded, Placed, Step, NoTask
<1>2. CASE Step(t) \notin Harmless
  BY <1>2 DEF Stale, Kept
<1>3. QED
  BY <1>1, <1>2 DEF Stale

LEMMA CallEffect ==
  ASSUME EqTyped, Shape, NEW t \in Slots
  PROVE  Kept(t) \/ Gone(t) \/ Moved(t) \/ Begun(t) \/ Added(t) \/ JustAnswered(t)
<1>1. CASE tasks' = tasks
  BY <1>1, SameKept DEF Same
<1>2. ASSUME NEW s \in Slots, Quits(s) PROVE Kept(t) \/ Gone(t)
  <2>1. Placed(s, "none", NoSong, FALSE) /\ \A u \in Slots \ {s} : Same(u)
    BY <1>2, QuitEffect DEF Quits
  <2>2. QED
    BY <1>2, <2>1, SameKept DEF Quits, Gone
<1>3. ASSUME NEW s \in Slots, NEW step \in Steps, Moves(s, step) PROVE Kept(t) \/ Moved(t)
  <2>1. Placed(s, step, tasks[s].song, tasks[s].fresh) /\ \A u \in Slots \ {s} : Same(u)
    BY <1>3, MoveEffect DEF Moves
  <2>2. QED
    BY <1>3, <2>1, SameKept DEF Moved
<1>4. ASSUME NEW s \in Slots, NEW step \in {"pause", "resolve", "cancel"}, NEW song \in Songs \cup {NoSong},
             NEW fresh \in BOOLEAN, Begins(s, step, song, fresh)
      PROVE  Kept(t) \/ Gone(t) \/ Begun(t)
  <2>1. step \in Steps
    BY DEF Steps, PlaySteps, OtherSteps
  <2>2. Placed(s, step, song, fresh) /\ \A u \in Slots \ {s} : Stale(u) /\ ~Latest(u)'
    BY <1>4, <2>1, BeginEffect DEF Begins
  <2>3. QED
    BY <1>4, <2>2, StaleKept DEF Begun
<1>5. ASSUME NEW s \in Slots, NEW step \in {"togglePause", "togglePlay", "seek", "seekOnly", "eqSwitch"},
             Adds(s, step)
      PROVE  Kept(t) \/ Added(t)
  <2>1. Placed(s, step, NoSong, FALSE) /\ \A u \in Slots \ {s} : Same(u)
    BY <1>5, AddEffect DEF Adds, Steps, OtherSteps
  <2>2. QED
    BY <1>5, <2>1, SameKept DEF Added
<1>6. CASE tasks' = Superseded
  BY <1>6, SupersededEffect, StaleKept
<1>7. ASSUME NEW r \in {"ok", "fail"}, Answers(r) PROVE Kept(t) \/ JustAnswered(t)
  <2>1. PICK h \in Slots : h = Head(avQueue)
    BY <1>7, HeadIsCall DEF Answers, Due
  <2>2. /\ tasks'[h].result = r /\ Step(h)' = Step(h) /\ tasks'[h].song = tasks[h].song
        /\ tasks'[h].fresh = tasks[h].fresh /\ \A u \in Slots \ {h} : Same(u)
    BY <1>7, <2>1, AnswerEffect DEF Answers
  <2>3. CASE t = h
    BY <1>7, <2>1, <2>2, <2>3 DEF JustAnswered, Latest
  <2>4. QED
    BY <2>2, <2>3, SameKept
<1>8. NoSong \in Songs \cup {NoSong}
  OBVIOUS
<1>9. QED
  BY <1>1, <1>2, <1>3, <1>4, <1>5, <1>6, <1>7, <1>8 DEF Shape

LEMMA OrderEffect ==
  ASSUME EqTyped, InOrder, Shape
  PROVE  \A x, y \in Slots : Before(x, y)' => Before(x, y) \/ ~Queued(y)
<1>1. CASE avQueue' = avQueue
  BY <1>1, SameOrder
<1>2. ASSUME NEW s \in Slots, NEW step, Sends(s, step), Idle(s)
      PROVE  \A x, y \in Slots : Before(x, y)' => Before(x, y) \/ ~Queued(y)
  BY <1>2, SendOrder DEF InOrder
<1>3. ASSUME NEW r \in {"ok", "fail"}, Answers(r)
      PROVE  \A x, y \in Slots : Before(x, y)' => Before(x, y)
  <2>1. PICK h \in Slots : h = Head(avQueue)
    BY <1>3, HeadIsCall DEF Answers, Due
  <2>2. avQueue \in Seq(Slots) /\ avQueue # <<>> /\ avQueue' = Tail(avQueue)
    BY <1>3 DEF Answers, Due, EqTyped
  <2>3. QED
    BY <2>1, <2>2, TailOrder
<1>4. \A s : Step(s) \in {"none", "eqSwitch"} => Idle(s)
  BY DEF Idle, Commanded
<1>5. QED
  <2>1. \/ avQueue' = avQueue
        \/ \E s \in Slots : \E step : Sends(s, step) /\ Idle(s)
        \/ \E r \in {"ok", "fail"} : Answers(r)
    <3>1. \A s, step : Adds(s, step) => Sends(s, step) /\ Idle(s)
      BY <1>4 DEF Adds, Free, Step
    <3>2. \A s, step, song, fresh : Begins(s, step, song, fresh) => Sends(s, step) /\ Idle(s)
      BY <1>4 DEF Begins
    <3>3. \A s, step : Moves(s, step) => Sends(s, step) /\ Idle(s)
      BY DEF Moves
    <3>4. \A s : Quits(s) => avQueue' = avQueue
      BY DEF Quits
    <3>5. QED
      BY <3>1, <3>2, <3>3, <3>4 DEF Shape
  <2>2. QED
    BY <1>1, <1>2, <1>3, <2>1

\* A call that waits for the AVPlayer goes on waiting for it.
LEMMA QueuedEffect ==
  ASSUME EqTyped, InOrder, Shape, NEW t \in Slots, Queued(t)
  PROVE  Step(t)' = Step(t)
<1>1. ~Idle(t)
  BY DEF InOrder, EqQueue, Idle
<1>2. Step(t) \notin {"none", "eqSwitch"}
  BY DEF InOrder, EqQueue, Commanded
<1>3. ~Gone(t) /\ ~Moved(t) /\ ~Begun(t) /\ ~Added(t)
  BY <1>1, <1>2 DEF Gone, Moved, Moves, Begun, Begins, Added, Adds, Free, Step
<1>4. QED
  BY <1>3, CallEffect DEF Kept, JustAnswered

-----------------------------------------------------------------------------
(* Which steps change what the engine knows of the AVPlayer. *)

\* A URL is set, by the latest call or by one whose reset was answered.
SetsUrl ==
  /\ UNCHANGED <<avState, avEvents>>
  /\ \E s \in Slots : (Latest(s) /\ Step(s) \in Harmless) \/ (Step(s) = "reset" /\ ~Pending(s))

AvChanges ==
  \/ UNCHANGED <<avState, avSong, avEvents>>
  \/ SetsUrl
  \/ AvSucceeds
  \/ AvInitialized \/ AvFails
  \/ OnStateError \/ OnError
  \/ avState = "playing" /\ avState' = "completed" /\ UNCHANGED <<avSong, avEvents>>

LEMMA StepAv ==
  ASSUME InOrder, EqNext
  PROVE  AvChanges
<1>1. ASSUME NEW s \in Slots, EqContinue(s) PROVE AvChanges
  <2>1. CASE Resolved(s)
    BY <2>1, ResolvedShape DEF AvChanges, SetsUrl, Harmless
  <2>2. CASE AfterReset(s)
    <3>1. Step(s) = "reset" /\ ~Pending(s)
      BY <2>2, AnsweredIsIdle DEF AfterReset
    <3>2. QED
      BY <2>2, <3>1 DEF AfterReset, NotStarted, av, AvChanges, SetsUrl
  <2>3. ASSUME ~Resolved(s), ~AfterReset(s) PROVE UNCHANGED <<avState, avSong, avEvents>>
    <3>1. CASE PlainStep(s)
      BY <2>3, <3>1 DEF PlainStep, AfterPause, AfterDelay, InitializeTimeout, NotStarted, AfterToggle, Expired,
         AfterBackgroundReset, AfterSeek, av
    <3>2. CASE EqUnresolved(s) \/ EqResolved(s) \/ AfterNativeReset(s)
      BY <2>3, <3>2 DEF EqUnresolved, Unresolved, EqResolved, AfterNativeReset, PlayNatively, av
    <3>3. ASSUME Thrown(s) \/ NotStarted(s) PROVE UNCHANGED <<avState, avSong, avEvents>>
      BY <3>3 DEF Thrown, Expired, NotStarted, av
    <3>4. CASE EqPollInitialized(s) \/ AfterEqSwitch(s)
      BY <3>3, <3>4 DEF EqPollInitialized, PollInitialized, AfterEqSwitch
    <3>5. CASE EqAfterPrepare(s)
      BY <3>3, <3>5 DEF EqAfterPrepare, AfterPrepare, StartedWith, av
    <3>6. CASE EqAfterStart(s) \/ AfterStartSeek(s)
      BY <3>3, <3>6 DEF EqAfterStart, AfterStart, AfterStartSeek, StartedWith, av
    <3>7. QED
      BY <1>1, <3>1, <3>2, <3>4, <3>5, <3>6 DEF EqContinue
  <2>4. QED
    BY <2>1, <2>2, <2>3 DEF AvChanges
<1>2. CASE EqTogglePlay \/ EqSeekTo \/ SetEqEnabled \/ EqUserPlays
  BY <1>2 DEF EqTogglePlay, TogglePlay, EqSeekTo, SeekTo, SetEqEnabled, EqUserPlays, UserPlays, av, AvChanges
<1>3. CASE PollNative \/ EqLoadingTimeout \/ EqErrorSkipTimeout \/ NativeThreads
  BY <1>3 DEF PollNative, PollShows, PollCompleted, PollFailed, EqLoadingTimeout, LoadingTimeout,
     EqErrorSkipTimeout, ErrorSkipTimeout, NativeThreads, vars, av, AvChanges
<1>4. CASE EqDevice \/ EqOnCompleted
  BY <1>4 DEF EqDevice, EqAvSucceeds, AvRejects, EqOnCompleted, OnCompleted, AvChanges
<1>5. QED
  BY <1>1, <1>2, <1>3, <1>4 DEF EqNext, EqUserActs

\* The AVPlayer is idle when the native player is started: a later song's URL is not set
\* while the answer to the reset is waiting, nor does the AVPlayer fail without a URL.
NativeIdle(s) == Latest(s) /\ Step(s) = "nativeReset" /\ ~Pending(s)
SeekOk(s) == Step(s) = "seek" /\ tasks[s].result = "ok"

EqIdle ==
  /\ \A s \in Slots : NativeIdle(s) => avState = "idle" /\ avSong = NoSong /\ avEvents = {}
  /\ \A s \in Slots : SeekOk(s) => avState \in Seekable \cup {"error"}

LEMMA StepIdle ==
  ASSUME EqTyped, InOrder, EqIdle, EqNext
  PROVE  EqIdle'
<1>0. Shape /\ AvChanges
  BY NextShape, StepAv
<1>1. ASSUME NEW t \in Slots, NativeIdle(t)'
      PROVE  (avState = "idle" /\ avSong = NoSong /\ avEvents = {})'
  <2>1. CASE NativeIdle(t)
    <3>1. avState = "idle" /\ avSong = NoSong /\ avEvents = {}
      BY <2>1 DEF EqIdle
    <3>2. ~SetsUrl
      BY <2>1 DEF NativeIdle, SetsUrl, InOrder, EqCalls, Harmless
    <3>3. ~AvSucceeds
      BY <2>1 DEF NativeIdle, Pending, AvSucceeds, Due
    <3>4. QED
      BY <1>0, <3>1, <3>2, <3>3 DEF AvChanges, AvInitialized, AvFails, OnStateError, OnError
  <2>2. CASE JustAnswered(t)
    <3>1. Command1 = "reset" /\ \E r \in {"ok", "fail"} : Answers(r)
      BY <1>1, <2>2 DEF NativeIdle, JustAnswered, Command1, Command, Step
    <3>2. AvSucceeds
      BY <3>1 DEF Answers, AvRejects
    <3>3. QED
      BY <3>1, <3>2 DEF AvSucceeds
  <2>3. Kept(t) => NativeIdle(t)
    BY <1>1 DEF NativeIdle, Kept, Pending
  <2>4. ~Gone(t) /\ ~Moved(t) /\ ~Begun(t) /\ ~Added(t)
    BY <1>1, PlacedAs DEF NativeIdle, Gone, Moved, Begun, Added
  <2>5. QED
    BY <1>0, <2>1, <2>2, <2>3, <2>4, CallEffect
<1>2. ASSUME NEW t \in Slots, SeekOk(t)'
      PROVE  avState' \in Seekable \cup {"error"}
  <2>1. CASE SeekOk(t)
    <3>1. avState \in Seekable \cup {"error"} /\ ~Pending(t)
      BY <2>1 DEF EqIdle, SeekOk, Pending
    <3>2. ~AvSucceeds
      BY <3>1 DEF Pending, AvSucceeds, Due
    <3>3. QED
      BY <1>0, <3>1, <3>2 DEF AvChanges, SetsUrl, AvInitialized, AvFails, OnStateError, OnError, Seekable
  <2>2. CASE JustAnswered(t)
    <3>1. Command1 = "seek" /\ Answers("ok")
      BY <1>2, <2>2 DEF SeekOk, JustAnswered, Command1, Command, Step
    <3>2. QED
      BY <3>1 DEF Answers, AvSucceeds, Seekable
  <2>3. Kept(t) => SeekOk(t)
    BY <1>2 DEF SeekOk, Kept
  <2>4. ~Gone(t) /\ ~Moved(t) /\ ~Begun(t) /\ ~Added(t)
    BY <1>2 DEF SeekOk, Gone, Moved, Begun, Added, Placed
  <2>5. QED
    BY <1>0, <2>1, <2>2, <2>3, <2>4, CallEffect
<1>3. QED
  BY <1>1, <1>2 DEF EqIdle
-----------------------------------------------------------------------------
(* The AVPlayer while the native player is in use. *)

\* The calls that may make the AVPlayer play.
Plays(s) == Step(s) \in {"start", "togglePlay", "seek", "seekPlay"}

\* The AVPlayer plays nothing, and nothing it has yet to do can make it: no key that
\* plays follows a prepare() that may still succeed.
EqSilent ==
  usingNativeEq =>
    /\ avState \in {"idle", "initialized", "prepared", "error"}
    /\ \A s, t \in Slots : Before(s, t) => ~(Step(s) = "prepare" /\ Plays(t))
    /\ avState = "prepared" => \A s \in Slots : Plays(s) => ~Pending(s)
    /\ \A s \in Slots : ~SeekOk(s)

SilentCalls ==
  /\ \A s, t \in Slots : Before(s, t) => ~(Step(s) = "prepare" /\ Plays(t))
  /\ \A s \in Slots : ~SeekOk(s)

\* Who starts the native player.
StartsNow(s) ==
  /\ PlayNatively(s)
  /\ \/ Step(s) \in {"resolve", "resolveAgain"} /\ avState = "idle"
     \/ Step(s) = "nativeReset" /\ ~Pending(s)

LEMMA UsingChanges ==
  ASSUME EqTyped, EqNext, usingNativeEq'
  PROVE  usingNativeEq \/ \E s \in Slots : StartsNow(s)
<1>1. ASSUME NEW s \in Slots, EqContinue(s) PROVE usingNativeEq \/ StartsNow(s)
  <2>1. CASE EqResolved(s)
    BY <2>1 DEF EqResolved, StopNative, StartsNow, Step, eq
  <2>2. CASE AfterNativeReset(s)
    BY <2>2, AnsweredIsIdle DEF AfterNativeReset, StartsNow
  <2>3. ASSUME ~EqResolved(s), ~AfterNativeReset(s) PROVE usingNativeEq
    <3>1. usingNativeEq' \in {usingNativeEq, FALSE, usingNativeEq /\ ~tasks[s].fresh}
      BY <1>1, <2>3 DEF EqContinue, PlainStep, EqUnresolved, EqPollInitialized, EqAfterPrepare, EqAfterStart,
         AfterStartSeek, AfterEqSwitch, EqThrown, StartedWith, ResetNative, StopIfUsed, StopNative, eq
    <3>2. QED
      BY <3>1
  <2>4. QED
    BY <2>1, <2>2, <2>3
<1>2. CASE EqTogglePlay \/ EqSeekTo \/ SetEqEnabled \/ EqUserPlays
  BY <1>2 DEF EqTogglePlay, NewSong, EqSeekTo, SetEqEnabled, EqUserPlays, StopIfUsed, StopNative, eq
<1>3. CASE PollNative \/ EqLoadingTimeout \/ EqErrorSkipTimeout
  BY <1>3 DEF PollNative, EqLoadingTimeout, EqErrorSkipTimeout, NewSong, ResetNative, StopIfUsed, StopNative, eq
<1>4. CASE EqDevice \/ EqOnCompleted \/ NativeThreads
  BY <1>4 DEF EqDevice, EqAvSucceeds, EqOnCompleted, NewSong, StopIfUsed, StopNative, NativeThreads, eq
<1>5. QED
  BY <1>1, <1>2, <1>3, <1>4 DEF EqNext, EqUserActs

\* While the native player is in use no key, and no call of play, makes the AVPlayer play.
LEMMA PlaysQuietly ==
  ASSUME EqTyped, InOrder, EqControl, EqSilent, usingNativeEq, Shape, NEW t \in Slots, Plays(t)', Pending(t)'
  PROVE  Plays(t) /\ Pending(t)
<1>1. Kept(t) => Plays(t) /\ Pending(t)
  BY DEF Kept, Plays, Pending
<1>2. ~Moved(t)
  <2>1. SUFFICES ASSUME NEW step \in Steps, Moves(t, step), Placed(t, step, tasks[t].song, tasks[t].fresh)
                 PROVE  FALSE
    BY DEF Moved
  <2>2. step = "start" \/ step \in Keys
    BY <2>1 DEF Placed, Plays, Keys
  <2>3. CASE step = "start"
    BY <2>1, <2>3 DEF Moves, Harmless, EqControl, Doing, AvSteps
  <2>4. CASE step \in Keys
    BY <2>1, <2>4 DEF Moves, EqSilent, SeekOk
  <2>5. QED
    BY <2>2, <2>3, <2>4
<1>3. ~Gone(t) /\ ~Begun(t)
  BY DEF Gone, Begun, Placed, Plays
<1>4. ~Added(t)
  BY DEF Added, Placed, Plays, Adds
<1>5. ~JustAnswered(t)
  BY DEF JustAnswered, Pending
<1>6. QED
  BY <1>1, <1>2, <1>3, <1>4, <1>5, CallEffect

LEMMA OrderQuietly ==
  ASSUME EqTyped, InOrder, InOrder', EqControl, EqSilent, usingNativeEq, Shape,
         NEW x \in Slots, NEW y \in Slots, Before(x, y)', Step(x)' = "prepare", Plays(y)'
  PROVE  FALSE
<1>1. Pending(y)'
  BY BeforeQueued DEF InOrder, EqQueue, Before, Queued
<1>2. Plays(y) /\ Pending(y)
  BY <1>1, PlaysQuietly
<1>3. Queued(y)
  BY <1>2 DEF InOrder, EqQueue, Plays, Commanded
<1>4. Before(x, y)
  BY <1>3, OrderEffect
<1>5. Step(x) = "prepare"
  BY <1>4, BeforeQueued, QueuedEffect
<1>6. QED
  BY <1>2, <1>4, <1>5 DEF EqSilent

\* While it is in use, the AVPlayer does nothing that could be heard.
LEMMA SilentAv ==
  ASSUME EqTyped, InOrder, EqControl, EqSilent, usingNativeEq, Shape, AvSucceeds
  PROVE  /\ avState' \in {"idle", "initialized", "prepared", "error"}
         /\ avState' = "prepared" => \A s \in Slots : Plays(s)' => ~Pending(s)'
<1>1. PICK h \in Slots : h = Head(avQueue)
  BY HeadIsCall DEF AvSucceeds, Due
<1>2. \A t \in Slots : Pending(t)
  BY DEF AvSucceeds, Due, Pending
<1>3. /\ Queued(h)
      /\ \A x \in Slots : Queued(x) /\ x # h => Before(h, x)
  <2>1. avQueue \in Seq(Slots) /\ avQueue # <<>> /\ avQueue' = Tail(avQueue)
    BY DEF AvSucceeds, Due, EqTyped
  <2>2. QED
    BY <1>1, <2>1, TailOrder
<1>4. Step(h) \in Commanded /\ Command1 = Command[Step(h)]
  BY <1>1, <1>3 DEF InOrder, EqQueue, Command1, Step
<1>5. avState \in {"idle", "initialized", "prepared", "error"}
  BY DEF EqSilent
<1>6. Command1 = "play" => Plays(h)
  BY <1>4 DEF Command, Commanded, Plays
<1>7. Command1 = "prepare" => Step(h) = "prepare"
  BY <1>4 DEF Command, Commanded
<1>8. \/ Command1 = "play" /\ avState = "prepared"
      \/ Command1 = "prepare" /\ avState' = "prepared"
      \/ avState' = "idle"
      \/ avState' = avState
  BY <1>5 DEF AvSucceeds
<1>9. ~(Command1 = "play" /\ avState = "prepared")
  BY <1>2, <1>6 DEF EqSilent
<1>10. avState' \in {"idle", "initialized", "prepared", "error"}
  BY <1>5, <1>8, <1>9
<1>11. ASSUME avState' = "prepared", NEW s \in Slots, Plays(s)', Pending(s)' PROVE FALSE
  <2>1. Plays(s) /\ Pending(s)
    BY <1>11, PlaysQuietly
  <2>2. CASE avState' = avState
    BY <1>11, <2>1, <2>2 DEF EqSilent
  <2>3. CASE Command1 = "prepare"
    <3>1. Queued(s)
      BY <2>1 DEF InOrder, EqQueue, Plays, Commanded
    <3>2. Step(h) = "prepare" /\ s # h
      BY <1>7, <2>1, <2>3 DEF Plays
    <3>3. QED
      BY <1>3, <2>1, <3>1, <3>2 DEF EqSilent
  <2>4. QED
    BY <1>8, <1>9, <1>11, <2>2, <2>3
<1>12. QED
  BY <1>10, <1>11

\* Nor does a seek leave it playing.
LEMMA NoSeekAnswered ==
  ASSUME EqTyped, EqSilent, usingNativeEq, Shape, NEW t \in Slots, SeekOk(t)'
  PROVE  FALSE
<1>1. ~SeekOk(t)
  BY DEF EqSilent
<1>2. ~Kept(t)
  BY <1>1 DEF Kept, SeekOk
<1>3. ~Gone(t) /\ ~Moved(t) /\ ~Begun(t) /\ ~Added(t)
  BY DEF SeekOk, Gone, Moved, Begun, Added, Placed
<1>4. ~JustAnswered(t)
  <2>1. SUFFICES ASSUME JustAnswered(t) PROVE FALSE
    OBVIOUS
  <2>2. Step(t) = "seek" /\ Command1 = "seek" /\ AvSucceeds /\ Pending(t)
    BY <2>1 DEF JustAnswered, SeekOk, Answers, Due, Pending, Command1, Command, Step
  <2>3. avState \in Seekable
    BY <2>2 DEF AvSucceeds, Seekable
  <2>4. avState = "prepared"
    BY <2>3 DEF EqSilent, Seekable
  <2>5. QED
    BY <2>2, <2>4 DEF EqSilent, Plays
<1>5. QED
  BY <1>2, <1>3, <1>4, CallEffect

LEMMA KeepsSilent ==
  ASSUME EqTyped, InOrder, InOrder', EqControl, EqSilent, EqNext, usingNativeEq, usingNativeEq'
  PROVE  EqSilent'
<1>0. Shape /\ AvChanges
  BY NextShape, StepAv
<1>1. \A s, t \in Slots : Before(s, t)' => ~(Step(s)' = "prepare" /\ Plays(t)')
  BY <1>0, OrderQuietly
<1>2. \A s \in Slots : ~SeekOk(s)'
  BY <1>0, NoSeekAnswered
<1>3. avState \in {"idle", "initialized", "prepared", "error"}
  BY DEF EqSilent
<1>4. /\ avState' \in {"idle", "initialized", "prepared", "error"}
      /\ avState' = "prepared" => \A s \in Slots : Plays(s)' => ~Pending(s)'
  <2>1. CASE AvSucceeds
    BY <1>0, <2>1, SilentAv
  <2>2. CASE avState' = avState
    <3>1. avState = "prepared" => \A s \in Slots : Plays(s) => ~Pending(s)
      BY DEF EqSilent
    <3>2. QED
      BY <1>0, <1>3, <2>2, <3>1, PlaysQuietly
  <2>3. CASE avState' \in {"initialized", "error"}
    BY <2>3
  <2>4. QED
    BY <1>0, <1>3, <2>1, <2>2, <2>3 DEF AvChanges, SetsUrl, AvInitialized, AvFails, OnStateError, OnError
<1>5. QED
  BY <1>1, <1>2, <1>4 DEF EqSilent

\* The native player is started when the AVPlayer is idle, and what the AVPlayer has yet
\* to do cannot prepare a song and play it.
LEMMA StartsSilent ==
  ASSUME EqTyped, InOrder, EqIdle, MCNext, ~strayed', ~revived', NEW s \in Slots, StartsNow(s)
  PROVE  EqSilent'
<1>1. /\ Finish(s) /\ UNCHANGED <<avState, avSong, avQueue, avEvents>> /\ native' = "LOADING"
  BY DEF StartsNow, PlayNatively, av, Native!PlayerStart
<1>2. Placed(s, "none", NoSong, FALSE) /\ \A t \in Slots \ {s} : Same(t)
  BY <1>1, QuitEffect
<1>3. Step(s)' = "none" /\ \A t \in Slots \ {s} : Step(t)' = Step(t) /\ SeekOk(t)' = SeekOk(t)
  BY <1>2 DEF Placed, Same, Step, SeekOk
<1>4. avState = "idle"
  <2>1. CASE Step(s) = "nativeReset" /\ ~Pending(s)
    <3>1. Latest(s)
      BY <1>3, <2>1 DEF MCNext, StartedBySuperseded, Latest, Step
    <3>2. QED
      BY <2>1, <3>1 DEF EqIdle, NativeIdle
  <2>2. QED
    BY <2>1 DEF StartsNow
<1>5. ~Revives
  BY DEF MCNext
<1>6. Step(s) \in {"resolve", "resolveAgain", "nativeReset"}
  BY DEF StartsNow
<1>7. \A x, y \in Slots : Before(x, y) => ~(Step(x) = "prepare" /\ Plays(y))
  <2>1. SUFFICES ASSUME NEW x \in Slots, NEW y \in Slots, Before(x, y), Step(x) = "prepare", Plays(y)
                 PROVE  FALSE
    OBVIOUS
  <2>2. Step(y) # "start"
    BY <2>1 DEF InOrder, EqOrder, PlaysUnprepared
  <2>3. \E r \in Slots : tasks[r].step \in {"resolve", "resolveAgain", "nativeReset"} /\ tasks'[r].step = "none" /\ native' = "LOADING"
    BY <1>1, <1>3, <1>6 DEF Step
  <2>4. QED
    BY <1>5, <2>1, <2>2, <2>3 DEF Revives, Plays, Step
<1>8. \A x, y \in Slots : Before(x, y)' => ~(Step(x)' = "prepare" /\ Plays(y)')
  <2>1. \A x, y \in Slots : Before(x, y)' <=> Before(x, y)
    BY <1>1, SameOrder
  <2>2. QED
    BY <1>3, <1>7, <2>1 DEF Plays
<1>9. \A x \in Slots : ~SeekOk(x)'
  <2>1. \A x \in Slots : ~SeekOk(x)
    BY <1>4 DEF EqIdle, Seekable
  <2>2. QED
    BY <1>3, <2>1 DEF SeekOk
<1>10. QED
  BY <1>1, <1>4, <1>8, <1>9 DEF EqSilent

Silent == EqIdle /\ (strayed \/ revived \/ EqSilent)

LEMMA StepSilent ==
  ASSUME EqTyped, InOrder, Controlled, Silent, [MCNext]_mcVars
  PROVE  Silent'
<1>0. InOrder'
  BY EngineStep
<1>1. CASE MCNext
  <2>1. EqIdle'
    BY <1>1, StepIdle DEF MCNext, Silent
  <2>2. ASSUME ~strayed', ~revived' PROVE EqSilent'
    <3>1. ~strayed /\ EqControl /\ EqSilent /\ EqIdle
      BY <1>1, <2>2 DEF MCNext, Controlled, Silent
    <3>2. CASE ~usingNativeEq'
      BY <3>2 DEF EqSilent
    <3>3. CASE usingNativeEq' /\ usingNativeEq
      BY <1>0, <1>1, <3>1, <3>3, KeepsSilent DEF MCNext
    <3>4. CASE usingNativeEq' /\ ~usingNativeEq
      <4>1. PICK s \in Slots : StartsNow(s)
        BY <1>1, <3>4, UsingChanges DEF MCNext
      <4>2. QED
        BY <1>1, <2>2, <3>1, <4>1, StartsSilent
    <3>5. QED
      BY <3>2, <3>3, <3>4
  <2>3. QED
    BY <2>1, <2>2 DEF Silent
<1>2. CASE UNCHANGED mcVars
  BY <1>2 DEF mcVars, eqVars, vars, av, eq, Silent, EqIdle, EqSilent, NativeIdle, SeekOk, Plays, Latest, Pending,
     Step, Before
<1>3. QED
  BY <1>1, <1>2

LEMMA InitSilent ==
  ASSUME EqInit
  PROVE  Silent
BY DEF EqInit, Init, Silent, EqIdle, EqSilent, NativeIdle, SeekOk, Latest, Step, NoTask

\* Two songs never sound at once: the native player sounds only while it is in use, and
\* while it is in use the AVPlayer holds nothing it could play.  The two exceptions are
\* the ones the history variables name.
THEOREM SoundCorrect == MCSpec => []OnePlayerSounds
<1>1. MCInit => EqTyped /\ InOrder /\ Controlled /\ Silent
  BY InitTyped, InitControl, InitSilent DEF MCInit
<1>2. EqTyped /\ InOrder /\ Controlled /\ Silent /\ [MCNext]_mcVars =>
        (EqTyped /\ InOrder /\ Controlled /\ Silent)'
  BY EngineStep, StepControl, StepSilent
<1>3. Controlled /\ Silent => OnePlayerSounds
  BY DEF Controlled, EqControl, Silent, EqSilent, OnePlayerSounds
<1>4. QED
  BY <1>1, <1>2, <1>3, PTL DEF MCSpec
-----------------------------------------------------------------------------
(* Which song the native player plays. *)

\* A call that waits for its pause is the latest one, or one the latest song is behind.
Waits(s) == Step(s) = "pause"

\* The latest call has shown its song, unless it still waits for its pause; a superseded
\* call that will show its own has the latest one behind it; and the song the native
\* player has is the one shown.
EqAsked ==
  /\ \A s \in Slots : Latest(s) /\ ~Waits(s) => tasks[s].song = currentSong
  /\ \A s \in Slots : Waits(s) /\ ~Latest(s) => \E t \in Slots : Waits(t) /\ Latest(t)

Shown == overtaken \/ (EqAsked /\ (strayed \/ (usingNativeEq => nativeSong = currentSong)))

LEMMA PauseEffect ==
  ASSUME EqTyped, NEW s \in Slots, AfterPause(s)
  PROVE  Waits(s) /\ \A t \in Slots \ {s} : Same(t)
<1>1. Waits(s)
  BY AnsweredIsIdle DEF AfterPause, Waits
<1>2. "resolve" \in Steps
  BY DEF Steps, PlaySteps
<1>3. Finish(s) \/ Goto(s, "resolve")
  BY DEF AfterPause
<1>4. QED
  BY <1>1, <1>2, <1>3, QuitEffect, MoveEffect

\* Only a call that has paused the previous song shows another one.
LEMMA SongChanges ==
  ASSUME EqNext, currentSong' # currentSong
  PROVE  \E s \in Slots : AfterPause(s) /\ UNCHANGED eq
<1>1. ASSUME NEW s \in Slots, GiveUp(s) \/ NotStarted(s) \/ Thrown(s) \/ Expired(s)
      PROVE  FALSE
  BY <1>1 DEF GiveUp, NotStarted, Thrown, Expired, engine
<1>2. ASSUME PlayAgain \/ (\E s \in Slots : Refresh(s)) \/ (\E skip : NextInQueue(skip)) PROVE FALSE
  BY <1>2 DEF PlayAgain, Refresh, ShowLoading, NextInQueue, PlayNew
<1>3. ASSUME NEW s \in Slots, EqContinue(s) PROVE AfterPause(s) /\ UNCHANGED eq
  <2>1. CASE PlainStep(s)
    BY <1>1, <2>1 DEF PlainStep, AfterDelay, AfterReset, InitializeTimeout, AfterToggle, AfterBackgroundReset,
       AfterSeek, engine
  <2>2. CASE EqUnresolved(s)
    BY <1>1, <2>2 DEF EqUnresolved, Unresolved, engine
  <2>3. CASE EqResolved(s) \/ AfterNativeReset(s)
    BY <2>3 DEF EqResolved, Resolved, AfterNativeReset, PlayNatively, engine
  <2>4. CASE EqPollInitialized(s)
    BY <1>1, <2>4 DEF EqPollInitialized, PollInitialized
  <2>5. CASE EqAfterPrepare(s)
    BY <1>1, <2>5 DEF EqAfterPrepare, AfterPrepare, StartedWith, engine
  <2>6. CASE EqAfterStart(s) \/ AfterStartSeek(s)
    BY <1>1, <2>6 DEF EqAfterStart, AfterStart, AfterStartSeek, StartedWith, engine
  <2>7. CASE AfterEqSwitch(s)
    BY <1>2, <2>7 DEF AfterEqSwitch
  <2>8. QED
    BY <1>3, <2>1, <2>2, <2>3, <2>4, <2>5, <2>6, <2>7 DEF EqContinue
<1>4. CASE EqTogglePlay
  BY <1>4 DEF EqTogglePlay, TogglePlay, PlayNew, engine
<1>5. CASE EqSeekTo \/ SetEqEnabled \/ EqUserPlays
  BY <1>2, <1>5 DEF EqSeekTo, SeekTo, SetEqEnabled, EqUserPlays, UserPlays, engine
<1>6. CASE PollNative \/ EqErrorSkipTimeout \/ EqOnCompleted \/ NativeThreads
  BY <1>2, <1>6 DEF PollNative, PollShows, PollCompleted, PollFailed, EqErrorSkipTimeout, ErrorSkipTimeout,
     EqOnCompleted, OnCompleted, NativeThreads, vars, engine
<1>7. CASE EqLoadingTimeout
  BY <1>1, <1>2, <1>7 DEF EqLoadingTimeout, LoadingTimeout
<1>8. CASE EqDevice
  BY <1>2, <1>8 DEF EqDevice, EqAvSucceeds, AvSucceeds, AvRejects, AvInitialized, AvFails, OnStateError, OnError,
     engine
<1>9. QED
  BY <1>3, <1>4, <1>5, <1>6, <1>7, <1>8 DEF EqNext, EqUserActs

\* Only a start of the native player changes its song while it is in use.
LEMMA NativeSongChanges ==
  ASSUME EqTyped, EqNext, usingNativeEq'
  PROVE  nativeSong' = nativeSong \/ \E s \in Slots : StartsNow(s)
<1>1. ASSUME NEW s \in Slots, EqContinue(s) PROVE nativeSong' = nativeSong \/ StartsNow(s)
  <2>1. CASE EqResolved(s)
    BY <2>1 DEF EqResolved, StopNative, StartsNow, Step, eq, player
  <2>2. CASE AfterNativeReset(s)
    BY <2>2, AnsweredIsIdle DEF AfterNativeReset, StartsNow
  <2>3. CASE ~EqResolved(s) /\ ~AfterNativeReset(s)
    BY <1>1, <2>3 DEF EqContinue, PlainStep, EqUnresolved, EqPollInitialized, EqAfterPrepare, EqAfterStart,
       AfterStartSeek, AfterEqSwitch, EqThrown, StartedWith, ResetNative, StopIfUsed, StopNative, eq, player
  <2>4. QED
    BY <2>1, <2>2, <2>3
<1>2. CASE EqTogglePlay \/ EqSeekTo \/ SetEqEnabled \/ EqUserPlays
  BY <1>2 DEF EqTogglePlay, NewSong, EqSeekTo, SetEqEnabled, EqUserPlays, StopIfUsed, StopNative, eq, player
<1>3. CASE PollNative \/ EqLoadingTimeout \/ EqErrorSkipTimeout
  BY <1>3 DEF PollNative, PollShows, PollCompleted, PollFailed, EqLoadingTimeout, EqErrorSkipTimeout, NewSong,
     ResetNative, StopIfUsed, StopNative, eq, player
<1>4. CASE EqDevice \/ EqOnCompleted \/ NativeThreads
  BY <1>4 DEF EqDevice, EqAvSucceeds, EqOnCompleted, NewSong, StopIfUsed, StopNative, NativeThreads, eq, player
<1>5. QED
  BY <1>1, <1>2, <1>3, <1>4 DEF EqNext, EqUserActs

\* A new song: its call is the only latest one, and the native player is stopped.
LEMMA NewShown ==
  ASSUME EqTyped, InOrder, EqNext, PlaysNew
  PROVE  EqAsked' /\ ~usingNativeEq'
<1>1. PICK u \in Slots : Step(u) = "none" /\ Step(u)' = "pause"
  BY DEF PlaysNew, Free, Step
<1>2. Kept(u) \/ Gone(u) \/ Moved(u) \/ Begun(u) \/ Added(u) \/ JustAnswered(u)
  BY NextShape, CallEffect
<1>3. Begun(u)
  BY <1>1, <1>2 DEF Kept, Gone, Moved, Moves, Added, JustAnswered, Placed
<1>4. PICK step \in {"pause", "resolve", "cancel"}, song \in Songs \cup {NoSong}, fresh \in BOOLEAN :
        Begins(u, step, song, fresh) /\ Placed(u, step, song, fresh)
  BY <1>3 DEF Begun
<1>5. step = "pause" /\ fresh /\ StopIfUsed
  BY <1>1, <1>4 DEF Begins, Placed
<1>6. "pause" \in Steps
  BY DEF Steps, PlaySteps
<1>7. \A t \in Slots \ {u} : ~Latest(t)'
  BY <1>4, <1>5, <1>6, BeginEffect DEF Begins
<1>8. Waits(u)' /\ Latest(u)'
  BY <1>1, <1>4, <1>5 DEF Placed, Waits, Latest
<1>9. ~usingNativeEq'
  BY <1>5 DEF StopIfUsed, StopNative
<1>10. QED
  BY <1>7, <1>8, <1>9 DEF EqAsked

\* Where the latest call has shown its song no call shows another.
LEMMA ShownStays ==
  ASSUME EqTyped, InOrder, EqAsked, EqNext, NEW t \in Slots, Latest(t), ~Waits(t)
  PROVE  tasks[t].song = currentSong'
<1>1. ASSUME NEW s \in Slots, AfterPause(s) PROVE FALSE
  <2>1. Waits(s)
    BY <1>1, PauseEffect
  <2>2. \E u \in Slots : Waits(u) /\ Latest(u)
    BY <2>1 DEF EqAsked
  <2>3. QED
    BY <2>2 DEF InOrder, EqCalls
<1>2. currentSong' = currentSong
  BY <1>1, SongChanges
<1>3. QED
  BY <1>2 DEF EqAsked

LEMMA KeepsAsked ==
  ASSUME EqTyped, InOrder, EqAsked, EqNext, ~PlaysNew, ~Overtakes
  PROVE  EqAsked'
<1>0. \A t \in Slots : Kept(t) \/ Gone(t) \/ Moved(t) \/ Begun(t) \/ Added(t) \/ JustAnswered(t)
  BY NextShape, CallEffect
<1>1. ASSUME NEW t \in Slots, Latest(t)', ~Waits(t)'
      PROVE  tasks'[t].song = currentSong'
  <2>1. CASE Kept(t) \/ JustAnswered(t)
    <3>1. Latest(t) /\ ~Waits(t) /\ tasks'[t].song = tasks[t].song
      BY <1>1, <2>1 DEF Kept, JustAnswered, Waits
    <3>2. QED
      BY <3>1, ShownStays
  <2>2. CASE Moved(t)
    <3>1. PICK step \in Steps : Moves(t, step) /\ Placed(t, step, tasks[t].song, tasks[t].fresh)
      BY <2>2 DEF Moved
    <3>2. Latest(t) /\ tasks'[t].song = tasks[t].song /\ (Waits(t) => currentSong' = tasks[t].song)
      BY <1>1, <3>1 DEF Moves, Placed, Latest, Waits
    <3>3. QED
      BY <3>2, ShownStays
  <2>3. CASE Begun(t)
    <3>1. PICK step \in {"pause", "resolve", "cancel"}, song \in Songs \cup {NoSong}, fresh \in BOOLEAN :
            Begins(t, step, song, fresh) /\ Placed(t, step, song, fresh)
      BY <2>3 DEF Begun
    <3>2. step = "resolve" /\ song = currentSong /\ tasks'[t].song = song
      BY <1>1, <3>1 DEF Begins, Placed, Waits, Latest
    <3>3. ASSUME NEW s \in Slots, AfterPause(s) PROVE FALSE
      <4>1. Waits(s) /\ \A u \in Slots \ {s} : Same(u)
        BY <3>3, PauseEffect
      <4>2. Step(t) \in {"none", "eqSwitch"} /\ Step(t)' = "resolve"
        BY <3>1, <3>2 DEF Begins, Placed
      <4>3. QED
        BY <4>1, <4>2 DEF Waits, Same, Step
    <3>4. QED
      BY <3>2, <3>3, SongChanges
  <2>4. ~Gone(t) /\ ~Added(t)
    BY <1>1 DEF Gone, Added, Placed, Latest
  <2>5. QED
    BY <1>0, <2>1, <2>2, <2>3, <2>4
<1>2. ASSUME NEW s \in Slots, Waits(s)', ~Latest(s)'
      PROVE  \E t \in Slots : Waits(t)' /\ Latest(t)'
  <2>1. Waits(s) /\ ~Latest(s)
    <3>1. CASE Kept(s) \/ JustAnswered(s)
      <4>1. Waits(s)
        BY <1>2, <3>1 DEF Kept, JustAnswered, Waits
      <4>2. QED
        BY <1>2, <4>1 DEF Overtakes, Waits, Latest, Step
    <3>2. ~Gone(s) /\ ~Moved(s) /\ ~Begun(s) /\ ~Added(s)
      BY <1>2 DEF Gone, Moved, Moves, Begun, Begins, Added, Placed, Waits, Latest
    <3>3. QED
      BY <1>0, <3>1, <3>2
  <2>2. PICK t \in Slots : Waits(t) /\ Latest(t)
    BY <2>1 DEF EqAsked
  <2>3. Latest(t)'
    BY <2>2 DEF Overtakes, Waits, Latest, Step
  <2>4. ~Gone(t) /\ ~Begun(t) /\ ~Added(t)
    BY <2>2, <2>3 DEF Gone, Begun, Begins, Added, Adds, Free, Placed, Waits, Latest, Step
  <2>5. ~Moved(t)
    <3>1. Moved(t) => ~Pending(t)
      BY <2>2 DEF Moved, Moves, Idle, Commanded, Waits
    <3>2. Crossed(t, s) /\ s # t
      BY <2>1, <2>2 DEF Crossed, Waits
    <3>3. QED
      BY <3>1, <3>2 DEF InOrder, EqOrder
  <2>6. Waits(t)'
    BY <1>0, <2>2, <2>4, <2>5 DEF Kept, JustAnswered, Waits
  <2>7. QED
    BY <2>3, <2>6
<1>3. QED
  BY <1>1, <1>2 DEF EqAsked

LEMMA KeepsShown ==
  ASSUME EqTyped, InOrder, EqControl, EqAsked, usingNativeEq => nativeSong = currentSong,
         MCNext, ~strayed', usingNativeEq'
  PROVE  nativeSong' = currentSong'
<1>0. EqNext
  BY DEF MCNext
<1>1. ASSUME NEW s \in Slots, StartsNow(s) PROVE nativeSong' = currentSong'
  <2>1. nativeSong' = tasks[s].song /\ currentSong' = currentSong /\ Finish(s)
    BY <1>1 DEF StartsNow, PlayNatively
  <2>2. Step(s)' = "none"
    BY <2>1, QuitEffect DEF Placed
  <2>3. Latest(s) /\ ~Waits(s)
    BY <1>1, <2>2 DEF StartsNow, InOrder, EqCalls, Harmless, MCNext, StartedBySuperseded, Latest, Step, Waits
  <2>4. QED
    BY <2>1, <2>3 DEF EqAsked
<1>2. ASSUME \A s \in Slots : ~StartsNow(s) PROVE nativeSong' = currentSong'
  <2>1. usingNativeEq /\ nativeSong' = nativeSong
    BY <1>0, <1>2, UsingChanges, NativeSongChanges
  <2>2. ASSUME NEW s \in Slots, AfterPause(s) PROVE FALSE
    <3>1. Waits(s)
      BY <2>2, PauseEffect
    <3>2. PICK u \in Slots : Waits(u) /\ Latest(u)
      BY <3>1 DEF EqAsked
    <3>3. QED
      BY <2>1, <3>2 DEF EqControl, Doing, AvSteps, Waits
  <2>3. currentSong' = currentSong
    BY <1>0, <2>2, SongChanges
  <2>4. QED
    BY <2>1, <2>3
<1>3. QED
  BY <1>1, <1>2

LEMMA StepShown ==
  ASSUME EqTyped, InOrder, Controlled, Shown, [MCNext]_mcVars
  PROVE  Shown'
<1>1. CASE MCNext /\ PlaysNew
  BY <1>1, NewShown DEF MCNext, Shown
<1>2. CASE MCNext /\ ~PlaysNew
  <2>1. SUFFICES ASSUME ~overtaken' PROVE Shown'
    BY DEF Shown
  <2>2. ~overtaken /\ ~Overtakes /\ EqAsked /\ EqNext
    BY <1>2, <2>1 DEF MCNext, Shown
  <2>3. EqAsked'
    BY <1>2, <2>2, KeepsAsked
  <2>4. ASSUME ~strayed', usingNativeEq' PROVE nativeSong' = currentSong'
    <3>1. ~strayed /\ EqControl
      BY <1>2, <2>4 DEF MCNext, Controlled
    <3>2. usingNativeEq => nativeSong = currentSong
      BY <2>2, <3>1 DEF Shown
    <3>3. QED
      BY <1>2, <2>2, <2>4, <3>1, <3>2, KeepsShown
  <2>5. QED
    BY <2>3, <2>4 DEF Shown
<1>3. CASE UNCHANGED mcVars
  BY <1>3 DEF mcVars, eqVars, vars, engine, eq, player, Shown, EqAsked, Waits, Latest, Step
<1>4. QED
  BY <1>1, <1>2, <1>3

LEMMA InitShown ==
  ASSUME EqInit
  PROVE  Shown
BY DEF EqInit, Init, Shown, EqAsked, Waits, Latest, Step, NoTask

\* The song played natively is the one on the screen, also after play calls that showed
\* their songs late: a superseded call that shows its song is followed by the latest,
\* and meanwhile the native player is stopped.
THEOREM ShownCorrect == MCSpec => []NativePlaysShownSong
<1>1. MCInit => EqTyped /\ InOrder /\ Controlled /\ Shown
  BY InitTyped, InitControl, InitShown DEF MCInit
<1>2. EqTyped /\ InOrder /\ Controlled /\ Shown /\ [MCNext]_mcVars =>
        (EqTyped /\ InOrder /\ Controlled /\ Shown)'
  BY EngineStep, StepControl, StepShown
<1>3. Controlled /\ Shown => NativePlaysShownSong
  BY DEF Controlled, EqControl, Shown, NativePlaysShownSong
<1>4. QED
  BY <1>1, <1>2, <1>3, PTL DEF MCSpec
=============================================================================
