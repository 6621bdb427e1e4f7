-------------------------- MODULE PlayerSongProofs --------------------------
(***************************************************************************)
(* Theorems of PlayerEngine with its history, for every set of songs and   *)
(* any number of calls in flight: which song is heard, which is shown, and *)
(* what the status says of the sound.                                      *)
(*                                                                         *)
(* Every step of the engine does one of a few things to the calls and to   *)
(* the queue of the AVPlayer (Shape).  From that follows the order of the  *)
(* AVPlayer's commands and answers (InOrder).  What the AVPlayer may still *)
(* be made to do, and for which song, is then proved shape by shape        *)
(* (SongsTold), and what the status says action by action (StatusTold).    *)
(***************************************************************************)
EXTENDS MCPlayerEngine, PlayerEngineProofs

(* The calls in flight and the AVPlayer's queue. *)

Steps == PlaySteps \cup OtherSteps \cup {"none"}
Commanded == {"pause", "togglePause", "start", "togglePlay", "seek", "seekOnly", "seekPlay",
              "reset", "cancel", "background", "prepare"}

\* Calls that are none of play.
Keys == {"none", "togglePause", "togglePlay", "seek", "seekOnly", "seekPlay"}

Step(s) == tasks[s].step
Pending(s) == tasks[s].result = "pending"
Latest(s) == tasks[s].fresh

\* Call s waits for nothing the AVPlayer has to do.
Idle(s) == Step(s) \in Commanded => ~Pending(s)

Queued(s) == \E i \in DOMAIN avQueue : avQueue[i] = s
\* The AVPlayer will execute the command of s before that of t.
Before(s, t) == \E i, j \in DOMAIN avQueue : i < j /\ avQueue[i] = s /\ avQueue[j] = t

-----------------------------------------------------------------------------
(* The inductive invariant, in parts.  First, the order of the commands.   *)

\* One answer at a time is waiting to be consumed, at most one call is the latest of
\* play, and it is never one that would return at once or that is none of play.
CallsKnown ==
  /\ \A s, t \in Slots : ~Pending(s) /\ ~Pending(t) => s = t
  /\ \A s, t \in Slots : Latest(s) /\ Latest(t) => s = t
  /\ \A s \in Slots : Step(s) \in Harmless => Latest(s)
  /\ \A s \in Slots : Step(s) \in Keys => ~Latest(s)

\* The AVPlayer has each command it has not answered, once.
QueueKnown ==
  /\ \A s \in Slots : Queued(s) <=> Step(s) \in Commanded /\ Pending(s)
  /\ \A s \in Slots : ~Before(s, s)
  /\ \A s \in Slots : ~Pending(s) => Step(s) \in Commanded

\* Steps of s that no step of t follows in the queue.
Crossed(s, t) ==
  \/ Step(s) \in {"pause", "prepare", "start"} /\ Latest(s) /\ Step(t) = "pause"
  \/ Step(s) = "prepare" /\ Latest(s) /\ Step(t) = "prepare"
  \/ Step(s) = "pause" /\ Step(t) = "start"

StartsUnprepared(s, t) == Step(s) = "prepare" /\ Step(t) = "start"

OrderKnown ==
  /\ \A s, t \in Slots : Before(s, t) => ~Crossed(s, t) /\ ~StartsUnprepared(s, t)
  /\ \A s, t \in Slots : ~Pending(s) /\ s # t => ~Crossed(s, t)

InOrder == CallsKnown /\ QueueKnown /\ OrderKnown

(* What the AVPlayer may be made to do. *)

Plays(s) == Step(s) \in {"start", "togglePlay", "seek", "seekPlay"} /\ Pending(s)
SeekOk(s) == Step(s) = "seek" /\ tasks[s].result = "ok"
Armed == \E s \in Slots : Plays(s) \/ SeekOk(s)

\* The URL the AVPlayer holds is heard, or a command in flight may make it heard.
CanPlay == avState \in {"playing", "paused", "completed"} \/ (avState = "prepared" /\ Armed)

NoneQueued(step) == \A t \in Slots : Queued(t) => Step(t) # step
NonePausing == \A t \in Slots : Step(t) # "pause"

\* A seek or the play key can only be in flight if the history says so.
KeysTold == ~revived => \A s \in Slots : Step(s) \notin Reviving

PlayingTold == status = "PLAYING" => avState \in {"playing", "completed"}

\* What can play is not prepared again, nor is anything played behind a prepare().
PreparedOnce ==
  /\ CanPlay => NoneQueued("prepare")
  /\ \A s \in Slots : SeekOk(s) => avState \in Seekable \cup {"error"} /\ NoneQueued("prepare")
  /\ \A s, t \in Slots : Before(s, t) /\ Step(s) = "prepare" => Step(t) \notin Reviving

\* The latest call has had its pause answered and has not touched the AVPlayer since.
PastPause(s) == Latest(s) /\ (Step(s) \in Harmless \/ (Step(s) = "pause" /\ ~Pending(s)))

\* Then the AVPlayer is silent, and nothing is queued that would start it.
Hushed ==
  retryNum = 0 /\ ~revived =>
    \A s \in Slots : PastPause(s) => (avState # "playing" \/ Failed) /\ NoneQueued("start")

\* Past its pause the latest call is for the song that is shown, and no earlier call
\* can show another.
LatestShown ==
  ~overtaken =>
    \A s \in Slots : Latest(s) /\ Step(s) # "pause" => tasks[s].song = currentSong /\ NonePausing

\* The latest call finds the AVPlayer as its reset has left it.
ResetFinds ==
  \A s \in Slots : Latest(s) /\ Step(s) = "reset" /\ ~Pending(s) =>
    avState = "idle" /\ avSong = NoSong /\ avEvents = {}

\* A song that can be heard is the one shown, or another is on its way, or a reset is.
Coming == Harmless \cup {"pause", "reset"}
Settled == avSong = currentSong /\ NonePausing
Incoming == \E s \in Slots : Latest(s) /\ Step(s) \in Coming
Resetting == \E s \in Slots : Queued(s) /\ Step(s) \in {"cancel", "background"}
HeardShown == ~overtaken /\ CanPlay => Settled \/ Incoming \/ Resetting

SongsTold ==
  KeysTold /\ PlayingTold /\ PreparedOnce /\ Hushed /\ LatestShown /\ ResetFinds /\ HeardShown

SongInv == IInv /\ InOrder /\ SongsTold

-----------------------------------------------------------------------------
(* What a step of the engine does to the calls, to the queue and to what the *)
(* engine shows.                                                             *)

\* Joining the queue with a step that commands the AVPlayer.
Sends(s, step) == avQueue' = IF step \in Commanded THEN Append(avQueue, s) ELSE avQueue

\* The song that is shown changes when a pause is over, and at no other step of a call.
Shows(s) == Step(s) # "pause" => currentSong' = currentSong

Stays ==
  /\ tasks' = tasks /\ avQueue' = avQueue
  /\ UNCHANGED <<currentSong, retryNum, avSong>>

Quits(s) ==
  /\ Idle(s) /\ Finish(s) /\ avQueue' = avQueue
  /\ Shows(s) /\ UNCHANGED <<retryNum, avSong, avState, avEvents>>
  /\ Latest(s) /\ Step(s) \in Coming => avState = "idle"

Moves(s, step) ==
  /\ Idle(s)
  /\ Goto(s, step)
  /\ Sends(s, step)
  /\ Shows(s) /\ UNCHANGED <<retryNum, avState, avEvents>>
  /\ step # "pause"
  /\ step \in Harmless => (Step(s) \in Harmless \/ Step(s) = "pause")
  /\ step \in Harmless \cup {"prepare", "start"} => Latest(s)
  /\ Step(s) = "pause" => step \in Harmless /\ currentSong' = tasks[s].song
  /\ step = "prepare" => Step(s) = "init" /\ avState = "initialized"
  /\ step = "start" => Step(s) = "prepare" /\ ~Pending(s)
  /\ step \in Keys => step = "seekPlay" /\ SeekOk(s)
  /\ Latest(s) /\ Step(s) \in Harmless \cup {"pause", "reset"} =>
       step \in Harmless \cup {"reset", "background", "init"}
  /\ IF step = "init"
     THEN Latest(s) /\ (avState = "idle" \/ Step(s) = "reset") /\ avSong' = tasks[s].song
     ELSE avSong' = avSong

Begins(s, step, song, fresh) ==
  /\ Free(s)
  /\ tasks' = [Superseded EXCEPT ![s] = At(step, song, fresh)]
  /\ Sends(s, step)
  /\ fresh = (step # "cancel")
  /\ UNCHANGED <<currentSong, avSong>>
  /\ step = "resolve" => song = currentSong /\ retryNum' = retryNum + 1
  /\ step = "cancel" => UNCHANGED <<avState, avEvents>>

Drops == tasks' = Superseded /\ avQueue' = avQueue
         /\ UNCHANGED <<currentSong, retryNum, avSong, avState, avEvents>> /\ avState = "idle"

Adds(s, step) ==
  /\ Free(s)
  /\ tasks' = [tasks EXCEPT ![s] = At(step, NoSong, FALSE)]
  /\ Sends(s, step)
  /\ UNCHANGED <<currentSong, retryNum, avSong, avState, avEvents>>
  /\ step = "togglePlay" => TogglePlay /\ status = "PAUSED"
  /\ step = "seek" => SeekTo /\ status = "PLAYING"

Shape ==
  \/ Stays
  \/ \E s \in Slots : Quits(s)
  \/ \E s \in Slots, step \in Steps : Moves(s, step)
  \/ \E s \in Slots, step \in {"pause", "resolve"}, song \in Songs \cup {NoSong} :
       Begins(s, step, song, TRUE)
  \/ \E s \in Slots : Begins(s, "cancel", NoSong, FALSE)
  \/ \E s \in Slots, step \in {"togglePause", "togglePlay", "seek", "seekOnly"} : Adds(s, step)
  \/ Drops

\* What the AVPlayer does by itself.
Calm ==
  \/ UNCHANGED <<avState, avEvents>>
  \/ AvInitialized \/ AvFails \/ OnStateError \/ OnError \/ OnCompleted

Answers(r) ==
  /\ Due /\ Answer(r) /\ avQueue' = Tail(avQueue)
  /\ IF r = "ok" THEN AvSucceeds ELSE AvRejects

Act == (Shape /\ Calm) \/ \E r \in {"ok", "fail"} : Answers(r)

-----------------------------------------------------------------------------
(* The same, call by call. *)

Same(t) == tasks'[t] = tasks[t]

Placed(s, step, song, fresh) ==
  /\ Step(s)' = step /\ tasks'[s].song = song
  /\ tasks'[s].fresh = fresh /\ tasks'[s].result = "pending"

LEMMA CallTyped ==
  ASSUME TypeOK, NEW s \in Slots
  PROVE  /\ tasks[s] \in Task /\ Step(s) \in Steps /\ Latest(s) \in BOOLEAN
         /\ tasks[s].song \in Songs \cup {NoSong}
         /\ tasks[s].result \in {"pending", "ok", "fail"}
<1>1. tasks[s] \in Task
  BY DEF TypeOK
<1>2. QED
  BY <1>1 DEF Task, Step, Latest, Steps

LEMMA QuitEffect ==
  ASSUME TypeOK, NEW s \in Slots, Finish(s)
  PROVE  Placed(s, "none", NoSong, FALSE) /\ \A t \in Slots \ {s} : Same(t)
BY FinishEffect DEF Placed, Step, NoTask, Same

LEMMA MoveEffect ==
  ASSUME TypeOK, NEW s \in Slots, NEW step \in Steps, Goto(s, step)
  PROVE  /\ Placed(s, step, tasks[s].song, tasks[s].fresh)
         /\ \A t \in Slots \ {s} : Same(t)
BY GotoEffect DEF Placed, Step, Same

LEMMA BeginEffect ==
  ASSUME TypeOK, NEW s \in Slots, NEW step \in PlaySteps \cup OtherSteps,
         NEW song \in Songs \cup {NoSong}, NEW fresh \in BOOLEAN,
         tasks' = [Superseded EXCEPT ![s] = At(step, song, fresh)]
  PROVE  /\ Placed(s, step, song, fresh)
         /\ \A t \in Slots \ {s} : Stale(t) /\ ~Latest(t)'
<1>1. At(step, song, fresh) \in Task
  BY AtType
<1>2. tasks'[s] = At(step, song, fresh) /\ \A t \in Slots \ {s} : Stale(t)
  BY <1>1, NewCallEffect
<1>3. QED
  BY <1>2, StaleIsLess DEF Placed, Step, Latest, At

LEMMA DropEffect ==
  ASSUME TypeOK, tasks' = Superseded
  PROVE  \A t \in Slots : Stale(t) /\ ~Latest(t)'
BY SupersededEffect, StaleIsLess DEF Latest

LEMMA AddEffect ==
  ASSUME TypeOK, NEW s \in Slots, NEW step,
         tasks' = [tasks EXCEPT ![s] = At(step, NoSong, FALSE)]
  PROVE  Placed(s, step, NoSong, FALSE) /\ \A t \in Slots \ {s} : Same(t)
BY DEF TypeOK, Placed, Same, Step, At

LEMMA HeadIsCall ==
  ASSUME TypeOK, avQueue # <<>>
  PROVE  \E h \in Slots : h = Head(avQueue)
BY DEF TypeOK

LEMMA AnsweredEffect ==
  ASSUME TypeOK, Due, NEW h \in Slots, h = Head(avQueue), NEW r \in {"ok", "fail"}, Answer(r)
  PROVE  /\ tasks'[h].result = r /\ Step(h)' = Step(h)
         /\ tasks'[h].song = tasks[h].song /\ tasks'[h].fresh = tasks[h].fresh
         /\ \A t \in Slots \ {h} : Same(t)
<1>1. tasks \in [Slots -> Task] /\ tasks[h] \in Task
  BY DEF TypeOK
<1>2. tasks' = [tasks EXCEPT ![h] = [tasks[h] EXCEPT !.result = r]]
  BY <1>1 DEF Answer
<1>3. tasks'[h] = [tasks[h] EXCEPT !.result = r] /\ \A t \in Slots \ {h} : Same(t)
  BY <1>1, <1>2 DEF Same
<1>4. QED
  BY <1>1, <1>3 DEF Task, Step

\* A call in its place, kept or superseded, seen through the operators of the invariant.
LEMMA PlacedAs ==
  ASSUME NEW s, NEW step, NEW song, NEW fresh, Placed(s, step, song, fresh)
  PROVE  /\ Step(s)' = step /\ Pending(s)' /\ Latest(s)' = fresh /\ ~SeekOk(s)'
         /\ Plays(s)' => step \in {"start", "togglePlay", "seek", "seekPlay"}
BY DEF Placed, Pending, Latest, SeekOk, Plays

LEMMA SameAs ==
  ASSUME NEW t, Same(t)
  PROVE  /\ Step(t)' = Step(t) /\ Pending(t)' = Pending(t) /\ Latest(t)' = Latest(t)
         /\ tasks'[t].song = tasks[t].song
         /\ Plays(t)' = Plays(t) /\ SeekOk(t)' = SeekOk(t)
BY DEF Same, Step, Pending, Latest, Plays, SeekOk

LEMMA StaleAs ==
  ASSUME NEW t, Stale(t), ~Latest(t)'
  PROVE  /\ Step(t) \in Harmless => Step(t)' = "none" /\ Pending(t)'
         /\ Step(t) \notin Harmless => Step(t)' = Step(t) /\ Pending(t)' = Pending(t)
         /\ Plays(t)' => Plays(t)
         /\ SeekOk(t)' => SeekOk(t)
BY DEF Stale, Step, Pending, Latest, NoTask, Harmless, Plays, SeekOk

-----------------------------------------------------------------------------
(* The order of the AVPlayer's commands and answers. *)

LEMMA BeforeQueued ==
  ASSUME NEW s, NEW t, Before(s, t)
  PROVE  Queued(s) /\ Queued(t)
BY DEF Before, Queued

LEMMA AppendOrder ==
  ASSUME avQueue \in Seq(Slots), NEW s \in Slots, avQueue' = Append(avQueue, s)
  PROVE  \A x, y \in Slots :
           /\ Queued(x)' <=> Queued(x) \/ x = s
           /\ Before(x, y)' => Before(x, y) \/ (Queued(x) /\ y = s)
<1>1. /\ Len(avQueue) \in Nat /\ DOMAIN avQueue = 1 .. Len(avQueue)
      /\ DOMAIN avQueue' = 1 .. Len(avQueue) + 1
      /\ \A i \in 1 .. Len(avQueue) : avQueue'[i] = avQueue[i]
      /\ avQueue'[Len(avQueue) + 1] = s
  OBVIOUS
<1>2. \A x \in Slots : Queued(x)' <=> Queued(x) \/ x = s
  BY <1>1 DEF Queued
<1>3. ASSUME NEW x \in Slots, NEW y \in Slots, Before(x, y)'
      PROVE  Before(x, y) \/ (Queued(x) /\ y = s)
  <2>1. PICK i, j \in DOMAIN avQueue' : i < j /\ avQueue'[i] = x /\ avQueue'[j] = y
    BY <1>3 DEF Before
  <2>2. i \in DOMAIN avQueue /\ avQueue[i] = x
    BY <1>1, <2>1
  <2>3. CASE j = Len(avQueue) + 1
    BY <1>1, <2>1, <2>2, <2>3 DEF Queued
  <2>4. CASE j # Len(avQueue) + 1
    BY <1>1, <2>1, <2>2, <2>4 DEF Before
  <2>5. QED
    BY <2>3, <2>4
<1>4. QED
  BY <1>2, <1>3

LEMMA TailOrder ==
  ASSUME avQueue \in Seq(Slots), avQueue # <<>>, NEW h \in Slots, h = Head(avQueue),
         avQueue' = Tail(avQueue)
  PROVE  /\ Queued(h)
         /\ \A x \in Slots : /\ Queued(x) /\ x # h => Queued(x)' /\ Before(h, x)
                             /\ Queued(x)' => Queued(x) /\ Before(h, x)
         /\ \A x, y \in Slots : Before(x, y)' => Before(x, y)
<1>1. /\ Len(avQueue) \in Nat \ {0} /\ DOMAIN avQueue = 1 .. Len(avQueue)
      /\ DOMAIN avQueue' = 1 .. Len(avQueue) - 1
      /\ \A i \in 1 .. Len(avQueue) - 1 : avQueue'[i] = avQueue[i + 1]
      /\ avQueue[1] = h
  OBVIOUS
<1>2. Queued(h)
  BY <1>1 DEF Queued
<1>3. ASSUME NEW x \in Slots, Queued(x), x # h
      PROVE  Queued(x)' /\ Before(h, x)
  <2>1. PICK i \in DOMAIN avQueue : avQueue[i] = x
    BY <1>3 DEF Queued
  <2>2. i - 1 \in DOMAIN avQueue' /\ avQueue'[i - 1] = x /\ 1 < i
    BY <1>1, <1>3, <2>1
  <2>3. Queued(x)'
    BY <2>2 DEF Queued
  <2>4. QED
    BY <1>1, <2>1, <2>2, <2>3 DEF Before
<1>4. ASSUME NEW x \in Slots, Queued(x)'
      PROVE  Queued(x) /\ Before(h, x)
  <2>1. PICK i \in DOMAIN avQueue' : avQueue'[i] = x
    BY <1>4 DEF Queued
  <2>2. i + 1 \in DOMAIN avQueue /\ avQueue[i + 1] = x /\ 1 < i + 1
    BY <1>1, <2>1
  <2>3. QED
    BY <1>1, <2>2 DEF Queued, Before
<1>5. ASSUME NEW x \in Slots, NEW y \in Slots, Before(x, y)'
      PROVE  Before(x, y)
  <2>1. PICK i, j \in DOMAIN avQueue' : i < j /\ avQueue'[i] = x /\ avQueue'[j] = y
    BY <1>5 DEF Before
  <2>2. /\ i + 1 \in DOMAIN avQueue /\ j + 1 \in DOMAIN avQueue /\ i + 1 < j + 1
        /\ avQueue[i + 1] = x /\ avQueue[j + 1] = y
    BY <1>1, <2>1
  <2>3. QED
    BY <2>2 DEF Before
<1>6. QED
  BY <1>2, <1>3, <1>4, <1>5

LEMMA SameOrder ==
  ASSUME avQueue' = avQueue
  PROVE  \A x, y : (Queued(x)' <=> Queued(x)) /\ (Before(x, y)' <=> Before(x, y))
BY DEF Queued, Before
\* Whether a step commands the AVPlayer or not, it joins the queue at its end.
LEMMA SendOrder ==
  ASSUME TypeOK, QueueKnown, NEW s \in Slots, NEW step, Sends(s, step), Idle(s)
  PROVE  /\ ~Queued(s)
         /\ \A x \in Slots : Queued(x)' <=> Queued(x) \/ (x = s /\ step \in Commanded)
         /\ \A x, y \in Slots : Before(x, y)' =>
              \/ Before(x, y) /\ x # s /\ y # s
              \/ Queued(x) /\ x # s /\ y = s
<1>1. ~Queued(s)
  BY DEF QueueKnown, Idle
<1>2. CASE step \in Commanded
  <2>1. avQueue' = Append(avQueue, s) /\ avQueue \in Seq(Slots)
    BY <1>2 DEF Sends, TypeOK
  <2>2. QED
    BY <1>1, <1>2, <2>1, AppendOrder, BeforeQueued
<1>3. CASE step \notin Commanded
  <2>1. avQueue' = avQueue
    BY <1>3 DEF Sends
  <2>2. QED
    BY <1>1, <1>3, <2>1, SameOrder, BeforeQueued
<1>4. QED
  BY <1>2, <1>3
-----------------------------------------------------------------------------
(* Every step of the engine keeps the commands in order. *)

LEMMA SameKeepsOrder ==
  ASSUME InOrder, tasks' = tasks, avQueue' = avQueue
  PROVE  InOrder'
BY SameOrder DEF InOrder, CallsKnown, QueueKnown, OrderKnown, Crossed, StartsUnprepared, Step,
                 Pending, Latest

LEMMA QuitKeepsOrder ==
  ASSUME TypeOK, InOrder, NEW s \in Slots, Quits(s)
  PROVE  InOrder'
<1>1. Placed(s, "none", NoSong, FALSE) /\ \A t \in Slots \ {s} : Same(t)
  BY QuitEffect DEF Quits
<1>2. /\ Step(s)' = "none" /\ Pending(s)' /\ Latest(s)' = FALSE
      /\ \A t \in Slots \ {s} :
           Step(t)' = Step(t) /\ Pending(t)' = Pending(t) /\ Latest(t)' = Latest(t)
  BY <1>1, PlacedAs, SameAs
<1>3. \A x, y \in Slots : (Queued(x)' <=> Queued(x)) /\ (Before(x, y)' <=> Before(x, y))
  BY SameOrder DEF Quits
<1>4. CallsKnown'
  BY <1>2 DEF InOrder, CallsKnown, Harmless, Keys
<1>5. QueueKnown'
  BY <1>2, <1>3 DEF InOrder, QueueKnown, Commanded, Quits, Idle
<1>6. OrderKnown'
  BY <1>2, <1>3 DEF InOrder, OrderKnown, Crossed, StartsUnprepared
<1>7. QED
  BY <1>4, <1>5, <1>6 DEF InOrder

LEMMA MoveKeepsOrder ==
  ASSUME TypeOK, InOrder, NEW s \in Slots, NEW step \in Steps, Moves(s, step)
  PROVE  InOrder'
<1>1. Placed(s, step, tasks[s].song, tasks[s].fresh) /\ \A t \in Slots \ {s} : Same(t)
  BY MoveEffect DEF Moves
<1>2. /\ Step(s)' = step /\ Pending(s)' /\ Latest(s)' = Latest(s)
      /\ \A t \in Slots \ {s} :
           Step(t)' = Step(t) /\ Pending(t)' = Pending(t) /\ Latest(t)' = Latest(t)
  BY <1>1, PlacedAs, SameAs DEF Latest
<1>3. /\ ~Queued(s)
      /\ \A x \in Slots : Queued(x)' <=> Queued(x) \/ (x = s /\ step \in Commanded)
      /\ \A x, y \in Slots : Before(x, y)' =>
           \/ Before(x, y) /\ x # s /\ y # s
           \/ Queued(x) /\ x # s /\ y = s
  BY SendOrder DEF Moves, InOrder
<1>4. CallsKnown'
  BY <1>2 DEF InOrder, CallsKnown, Moves, Keys, Harmless, SeekOk, Step
<1>5. QueueKnown'
  <2>1. \A x \in Slots : ~Before(x, x)'
    BY <1>3 DEF InOrder, QueueKnown
  <2>2. \A x \in Slots : Queued(x)' <=> Step(x)' \in Commanded /\ Pending(x)'
    BY <1>2, <1>3 DEF InOrder, QueueKnown
  <2>3. \A x \in Slots : ~Pending(x)' => Step(x)' \in Commanded
    BY <1>2 DEF InOrder, QueueKnown
  <2>4. QED
    BY <2>1, <2>2, <2>3 DEF QueueKnown
<1>6. ASSUME NEW x \in Slots \ {s}
      PROVE  ~Crossed(x, s)' \/ (Pending(x) /\ ~Queued(x))
  <2>1. CASE step = "start"
    <3>1. Latest(s) /\ ~Pending(s) /\ Step(s) = "prepare"
      BY <2>1 DEF Moves
    <3>2. Step(x) # "pause"
      BY <3>1 DEF InOrder, OrderKnown, Crossed
    <3>3. QED
      BY <1>2, <2>1, <3>2 DEF Crossed
  <2>2. CASE step = "prepare"
    <3>1. Latest(s) /\ ~Latest(x)
      BY <2>2 DEF Moves, InOrder, CallsKnown
    <3>2. QED
      BY <1>2, <2>2, <3>1 DEF Crossed
  <2>3. CASE step \notin {"pause", "prepare", "start"}
    BY <1>2, <2>3 DEF Crossed
  <2>4. QED
    BY <2>1, <2>2, <2>3 DEF Moves
<1>7. ASSUME NEW x \in Slots \ {s}
      PROVE  ~StartsUnprepared(x, s)'
  <2>1. CASE step = "start"
    <3>1. Latest(s) /\ ~Pending(s) /\ Step(s) = "prepare"
      BY <2>1 DEF Moves
    <3>2. Step(x) # "prepare"
      BY <3>1 DEF InOrder, OrderKnown, Crossed
    <3>3. QED
      BY <1>2, <3>2 DEF StartsUnprepared
  <2>2. CASE step # "start"
    BY <1>2, <2>2 DEF StartsUnprepared
  <2>3. QED
    BY <2>1, <2>2
<1>8. OrderKnown'
  <2>1. \A x, y \in Slots : Before(x, y)' => ~Crossed(x, y)' /\ ~StartsUnprepared(x, y)'
    <3>1. SUFFICES ASSUME NEW x \in Slots, NEW y \in Slots, Before(x, y)'
                   PROVE  ~Crossed(x, y)' /\ ~StartsUnprepared(x, y)'
      OBVIOUS
    <3>2. CASE Before(x, y) /\ x # s /\ y # s
      BY <1>2, <3>2 DEF InOrder, OrderKnown, Crossed, StartsUnprepared
    <3>3. CASE Queued(x) /\ x # s /\ y = s
      BY <1>6, <1>7, <3>3
    <3>4. QED
      BY <1>3, <3>1, <3>2, <3>3
  <2>2. \A x, y \in Slots : ~Pending(x)' /\ x # y => ~Crossed(x, y)'
    <3>1. SUFFICES ASSUME NEW x \in Slots, NEW y \in Slots, ~Pending(x)', x # y
                   PROVE  ~Crossed(x, y)'
      OBVIOUS
    <3>2. x # s /\ ~Pending(x)
      BY <1>2, <3>1
    <3>3. CASE y = s
      BY <1>6, <3>2, <3>3
    <3>4. CASE y # s
      BY <1>2, <3>1, <3>2, <3>4 DEF InOrder, OrderKnown, Crossed
    <3>5. QED
      BY <3>3, <3>4
  <2>3. QED
    BY <2>1, <2>2 DEF OrderKnown
<1>9. QED
  BY <1>4, <1>5, <1>8 DEF InOrder

\* A new call, or a cancelled loading: every call in flight is superseded.
LEMMA BeginKeepsOrder ==
  ASSUME TypeOK, InOrder, NEW s \in Slots, NEW song \in Songs \cup {NoSong}, NEW fresh \in BOOLEAN,
         NEW step \in {"pause", "resolve", "cancel"}, Begins(s, step, song, fresh),
         fresh <=> step # "cancel"
  PROVE  InOrder'
<1>1. /\ Placed(s, step, song, fresh)
      /\ \A t \in Slots \ {s} : Stale(t) /\ ~Latest(t)'
  BY BeginEffect DEF Begins, PlaySteps, OtherSteps
<1>2. /\ Step(s)' = step /\ Pending(s)' /\ Latest(s)' = fresh
      /\ \A t \in Slots \ {s} :
           /\ ~Latest(t)'
           /\ Step(t) \in Harmless => Step(t)' = "none" /\ Pending(t)'
           /\ Step(t) \notin Harmless => Step(t)' = Step(t) /\ Pending(t)' = Pending(t)
  BY <1>1, PlacedAs, StaleAs
<1>3. Idle(s)
  BY DEF Begins, Free, Step, Idle, Commanded
<1>4. /\ ~Queued(s)
      /\ \A x \in Slots : Queued(x)' <=> Queued(x) \/ (x = s /\ step \in Commanded)
      /\ \A x, y \in Slots : Before(x, y)' =>
           \/ Before(x, y) /\ x # s /\ y # s
           \/ Queued(x) /\ x # s /\ y = s
  BY <1>3, SendOrder DEF Begins, InOrder
<1>5. \A t \in Slots : Step(t) \in Harmless => Pending(t) /\ Step(t) \notin Commanded /\ Step(t) # "none"
  BY DEF InOrder, QueueKnown, Harmless, Commanded
<1>6. CallsKnown'
  BY <1>2, <1>5 DEF InOrder, CallsKnown, Harmless, Keys
<1>7. QueueKnown'
  <2>1. \A x \in Slots : ~Before(x, x)'
    BY <1>4 DEF InOrder, QueueKnown
  <2>2. \A x \in Slots : Queued(x)' <=> Step(x)' \in Commanded /\ Pending(x)'
    BY <1>2, <1>4, <1>5 DEF InOrder, QueueKnown, Commanded
  <2>3. \A x \in Slots : ~Pending(x)' => Step(x)' \in Commanded
    BY <1>2 DEF InOrder, QueueKnown
  <2>4. QED
    BY <2>1, <2>2, <2>3 DEF QueueKnown
<1>8. ASSUME NEW x \in Slots \ {s}, NEW y \in Slots, Step(x) \notin Harmless, y # s => Step(y) \notin Harmless \/ Pending(y)'
      PROVE  Crossed(x, y)' => y # s /\ Crossed(x, y)
  BY <1>2, <1>8 DEF Crossed
<1>9. OrderKnown'
  <2>1. \A x, y \in Slots : Before(x, y)' => ~Crossed(x, y)' /\ ~StartsUnprepared(x, y)'
    <3>1. SUFFICES ASSUME NEW x \in Slots, NEW y \in Slots, Before(x, y)'
                   PROVE  ~Crossed(x, y)' /\ ~StartsUnprepared(x, y)'
      OBVIOUS
    <3>2. x # s /\ Queued(x) /\ Step(x) \notin Harmless
      BY <1>4, <1>5, <3>1, BeforeQueued DEF InOrder, QueueKnown
    <3>3. CASE y = s
      BY <1>2, <3>2, <3>3 DEF Crossed, StartsUnprepared
    <3>4. CASE y # s
      <4>1. Before(x, y) /\ Step(y) \notin Harmless
        BY <1>4, <1>5, <3>1, <3>4, BeforeQueued DEF InOrder, QueueKnown
      <4>2. QED
        BY <1>2, <3>2, <3>4, <4>1 DEF Crossed, StartsUnprepared, InOrder, OrderKnown
    <3>5. QED
      BY <3>3, <3>4
  <2>2. \A x, y \in Slots : ~Pending(x)' /\ x # y => ~Crossed(x, y)'
    <3>1. SUFFICES ASSUME NEW x \in Slots, NEW y \in Slots, ~Pending(x)', x # y
                   PROVE  ~Crossed(x, y)'
      OBVIOUS
    <3>2. x # s /\ Step(x) \notin Harmless /\ ~Pending(x)
      BY <1>2, <3>1
    <3>3. ~Crossed(x, y)
      BY <3>1, <3>2 DEF InOrder, OrderKnown
    <3>4. QED
      BY <1>2, <3>2, <3>3 DEF Crossed
  <2>3. QED
    BY <2>1, <2>2 DEF OrderKnown
<1>10. QED
  BY <1>6, <1>7, <1>9 DEF InOrder

LEMMA AddKeepsOrder ==
  ASSUME TypeOK, InOrder, NEW s \in Slots,
         NEW step \in {"togglePause", "togglePlay", "seek", "seekOnly"}, Adds(s, step)
  PROVE  InOrder'
<1>1. Placed(s, step, NoSong, FALSE) /\ \A t \in Slots \ {s} : Same(t)
  BY AddEffect DEF Adds
<1>2. /\ Step(s)' = step /\ Pending(s)' /\ Latest(s)' = FALSE
      /\ \A t \in Slots \ {s} :
           Step(t)' = Step(t) /\ Pending(t)' = Pending(t) /\ Latest(t)' = Latest(t)
  BY <1>1, PlacedAs, SameAs
<1>3. Step(s) = "none" /\ Idle(s)
  BY DEF Adds, Free, Step, Idle, Commanded
<1>4. /\ ~Queued(s)
      /\ \A x \in Slots : Queued(x)' <=> Queued(x) \/ (x = s /\ step \in Commanded)
      /\ \A x, y \in Slots : Before(x, y)' =>
           \/ Before(x, y) /\ x # s /\ y # s
           \/ Queued(x) /\ x # s /\ y = s
  BY <1>3, SendOrder DEF Adds, InOrder
<1>5. CallsKnown'
  BY <1>2 DEF InOrder, CallsKnown, Harmless, Keys
<1>6. QueueKnown'
  BY <1>2, <1>4 DEF InOrder, QueueKnown
<1>7. OrderKnown'
  BY <1>2, <1>4 DEF InOrder, OrderKnown, Crossed, StartsUnprepared
<1>8. QED
  BY <1>5, <1>6, <1>7 DEF InOrder

LEMMA SupersededKeepsOrder ==
  ASSUME TypeOK, InOrder, tasks' = Superseded, avQueue' = avQueue
  PROVE  InOrder'
<1>1. \A t \in Slots :
        /\ ~Latest(t)'
        /\ Step(t) \in Harmless => Step(t)' = "none" /\ Pending(t)'
        /\ Step(t) \notin Harmless => Step(t)' = Step(t) /\ Pending(t)' = Pending(t)
  BY DropEffect, StaleAs
<1>2. \A x, y \in Slots : (Queued(x)' <=> Queued(x)) /\ (Before(x, y)' <=> Before(x, y))
  BY SameOrder
<1>3. \A t \in Slots : Step(t) \in Harmless => Pending(t) /\ Step(t) \notin Commanded /\ ~Queued(t)
  BY DEF InOrder, QueueKnown, Harmless, Commanded
<1>4. CallsKnown'
  BY <1>1 DEF InOrder, CallsKnown, Harmless, Keys
<1>5. QueueKnown'
  BY <1>1, <1>2, <1>3 DEF InOrder, QueueKnown, Commanded
<1>6. OrderKnown'
  <2>1. \A x, y \in Slots : Before(x, y) => Step(x) \notin Harmless /\ Step(y) \notin Harmless
    BY <1>3, BeforeQueued
  <2>2. QED
    BY <1>1, <1>2, <2>1 DEF InOrder, OrderKnown, Crossed, StartsUnprepared
<1>7. QED
  BY <1>4, <1>5, <1>6 DEF InOrder

LEMMA AnswerKeepsOrder ==
  ASSUME TypeOK, InOrder, NEW r \in {"ok", "fail"}, Answers(r)
  PROVE  InOrder'
<1>0. PICK h \in Slots : h = Head(avQueue)
  BY HeadIsCall DEF Answers, Due
<1>1. /\ tasks'[h].result = r /\ Step(h)' = Step(h) /\ tasks'[h].fresh = tasks[h].fresh
      /\ \A t \in Slots \ {h} : Same(t)
  BY <1>0, AnsweredEffect DEF Answers
<1>2. /\ Step(h)' = Step(h) /\ ~Pending(h)' /\ Latest(h)' = Latest(h)
      /\ \A t \in Slots \ {h} :
           Step(t)' = Step(t) /\ Pending(t)' = Pending(t) /\ Latest(t)' = Latest(t)
  BY <1>1, SameAs DEF Pending, Latest
<1>3. \A t \in Slots : Pending(t)
  BY DEF Answers, Due, Pending
<1>4. /\ Queued(h)
      /\ \A x \in Slots : /\ Queued(x) /\ x # h => Queued(x)' /\ Before(h, x)
                          /\ Queued(x)' => Queued(x) /\ Before(h, x)
      /\ \A x, y \in Slots : Before(x, y)' => Before(x, y)
  BY <1>0, TailOrder DEF Answers, Due, TypeOK
<1>5. CallsKnown'
  BY <1>2, <1>3 DEF InOrder, CallsKnown
<1>6. QueueKnown'
  BY <1>2, <1>3, <1>4 DEF InOrder, QueueKnown
<1>7. OrderKnown'
  <2>1. \A x, y \in Slots : Crossed(x, y)' => Crossed(x, y)
    BY <1>2 DEF Crossed
  <2>2. \A x, y \in Slots : StartsUnprepared(x, y)' => StartsUnprepared(x, y)
    BY <1>2 DEF StartsUnprepared
  <2>3. \A y \in Slots \ {h} : Crossed(h, y) => Before(h, y)
    BY <1>3, <1>4 DEF InOrder, QueueKnown, Crossed, Commanded
  <2>4. QED
    BY <1>2, <1>3, <1>4, <2>1, <2>2, <2>3 DEF InOrder, OrderKnown
<1>8. QED
  BY <1>5, <1>6, <1>7 DEF InOrder

LEMMA ActKeepsOrder ==
  ASSUME TypeOK, InOrder, Act
  PROVE  InOrder'
<1>1. NoSong \in Songs \cup {NoSong}
  OBVIOUS
<1>2. CASE Shape
  BY <1>1, <1>2, SameKeepsOrder, QuitKeepsOrder, MoveKeepsOrder, BeginKeepsOrder, AddKeepsOrder,
     SupersededKeepsOrder DEF Shape, Stays, Drops
<1>3. QED
  BY <1>2, AnswerKeepsOrder DEF Act

-----------------------------------------------------------------------------
(* Every step of the engine is one of these. *)

LEMMA AnsweredIsIdle ==
  ASSUME NEW s \in Slots, NEW step, Answered(s, step)
  PROVE  Step(s) = step /\ ~Pending(s) /\ Idle(s)
BY DEF Answered, Step, Pending, Idle

LEMMA AwaitSends ==
  ASSUME NEW s \in Slots, NEW step \in Commanded, Await(s, step)
  PROVE  Goto(s, step) /\ Sends(s, step)
BY DEF Await, Sends

\* A call that ends and shows nothing new.
LEMMA PlainQuit ==
  ASSUME NEW s \in Slots, Idle(s), Finish(s), UNCHANGED <<currentSong, retryNum, av>>,
         ~Latest(s) \/ Step(s) \notin Coming
  PROVE  Quits(s)
BY DEF Quits, Shows, av

LEMMA NotStartedQuits ==
  ASSUME NEW s \in Slots, Idle(s), NotStarted(s), ~Latest(s) \/ Step(s) \notin Coming
  PROVE  Quits(s)
BY PlainQuit DEF NotStarted

LEMMA ExpiredQuits ==
  ASSUME NEW s \in Slots, Idle(s), Expired(s), ~Latest(s) \/ Step(s) \notin Coming
  PROVE  Quits(s)
BY PlainQuit DEF Expired, engine

\* A step that is neither a request of the latest call nor hands the AVPlayer anything.
LEMMA PlainMove ==
  ASSUME NEW s \in Slots, Idle(s), Step(s) # "pause",
         NEW step \in {"reset", "background"},
         Await(s, step), UNCHANGED <<currentSong, retryNum, avState, avSong, avEvents>>
  PROVE  Moves(s, step)
<1>1. Goto(s, step) /\ Sends(s, step)
  BY AwaitSends DEF Commanded
<1>2. QED
  BY <1>1 DEF Moves, Shows, Harmless, Keys

LEMMA GiveUpActs ==
  ASSUME NEW s \in Slots, Idle(s), Step(s) # "pause", GiveUp(s),
         UNCHANGED <<avState, avSong, avEvents>>
  PROVE  Quits(s) \/ Moves(s, "background")
<1>1. CASE avState = "idle" /\ Finish(s) /\ avQueue' = avQueue
  BY <1>1 DEF Quits, Shows, GiveUp
<1>2. CASE Await(s, "background")
  BY <1>2, PlainMove DEF GiveUp
<1>3. QED
  BY <1>1, <1>2 DEF GiveUp, ResetInBackground

LEMMA ThrownActs ==
  ASSUME NEW s \in Slots, Idle(s), Step(s) # "pause", Thrown(s), tasks[s].fresh \in BOOLEAN
  PROVE  Quits(s) \/ Moves(s, "background")
BY GiveUpActs, ExpiredQuits DEF Thrown, Latest

LEMMA PlayNewActs ==
  ASSUME NEW song \in Songs \cup {NoSong}, PlayNew(song), UNCHANGED avSong
  PROVE  Shape
<1>1. PICK s \in Slots : Begins(s, "pause", song, TRUE)
  BY DEF PlayNew, Begins, Sends, Commanded
<1>2. QED
  BY <1>1 DEF Shape

LEMMA PlayAgainActs ==
  ASSUME TypeOK, PlayAgain, UNCHANGED avSong
  PROVE  Shape
<1>1. PICK s \in Slots : Begins(s, "resolve", currentSong, TRUE)
  BY DEF PlayAgain, ShowLoading, Begins, Sends, Commanded
<1>2. QED
  BY <1>1 DEF Shape, TypeOK

LEMMA NextInQueueActs ==
  ASSUME NEW skip, NextInQueue(skip), UNCHANGED avSong
  PROVE  Shape
BY PlayNewActs DEF NextInQueue, Shape, Stays

LEMMA ContinueActs ==
  ASSUME TypeOK, InOrder, NEW s \in Slots, Continue(s)
  PROVE  Shape /\ Calm
<1>0. ASSUME Quits(s) \/ \E step \in Steps : Moves(s, step) PROVE Shape /\ Calm
  BY <1>0 DEF Shape, Calm, Quits, Moves
<1>1. /\ {"resolve", "delay", "resolveAgain", "reset", "init", "prepare", "start"} \subseteq Steps
      /\ "background" \in Steps /\ "seekPlay" \in Steps
  BY DEF Steps, PlaySteps, OtherSteps
<1>2. tasks[s].fresh \in BOOLEAN /\ tasks[s].result \in {"pending", "ok", "fail"}
  BY CallTyped DEF Latest
<1>3. CASE AfterPause(s)
  <2>1. /\ Idle(s) /\ Step(s) = "pause" /\ UNCHANGED <<retryNum, avState, avSong, avQueue, avEvents>>
        /\ currentSong' = tasks[s].song
    BY <1>3, AnsweredIsIdle DEF AfterPause, ShowLoading, av
  <2>2. CASE tasks[s].fresh /\ Goto(s, "resolve")
    BY <1>0, <1>1, <2>1, <2>2 DEF Moves, Sends, Shows, Commanded, Latest, Harmless, Keys
  <2>3. CASE ~tasks[s].fresh /\ Finish(s)
    BY <1>0, <2>1, <2>3 DEF Quits, Shows, Latest
  <2>4. QED
    BY <1>3, <2>2, <2>3 DEF AfterPause
<1>4. ASSUME Step(s) \in {"resolve", "resolveAgain", "delay"}
      PROVE  Idle(s) /\ Latest(s)
  BY <1>4 DEF Idle, Commanded, InOrder, CallsKnown, Harmless
<1>5. CASE Resolved(s)
  <2>1. Step(s) \in {"resolve", "resolveAgain"}
    BY <1>5 DEF Resolved, Step
  <2>2. CASE Await(s, "reset") /\ UNCHANGED <<engine, avState, avSong, avEvents>>
    BY <1>0, <1>1, <1>4, <2>1, <2>2, PlainMove DEF engine
  <2>3. CASE /\ avState = "idle" /\ Goto(s, "init") /\ avSong' = tasks[s].song
             /\ UNCHANGED <<engine, avState, avQueue, avEvents>>
    <3>1. Moves(s, "init")
      BY <1>4, <2>1, <2>3 DEF Moves, Sends, Shows, Commanded, Harmless, Keys, engine
    <3>2. QED
      BY <1>0, <1>1, <3>1
  <2>4. QED
    BY <1>5, <2>2, <2>3 DEF Resolved
<1>6. CASE Unresolved(s)
  <2>1. Step(s) \in {"resolve", "resolveAgain"}
    BY <1>6 DEF Unresolved, Step
  <2>2. CASE Goto(s, "delay") /\ UNCHANGED <<engine, av>>
    <3>1. Moves(s, "delay")
      BY <1>4, <2>1, <2>2 DEF Moves, Sends, Shows, Commanded, Harmless, Keys, engine, av
    <3>2. QED
      BY <1>0, <1>1, <3>1
  <2>3. CASE GiveUp(s) /\ UNCHANGED <<avState, avSong, avEvents>>
    BY <1>0, <1>1, <1>4, <2>1, <2>3, GiveUpActs
  <2>4. QED
    BY <1>6, <2>2, <2>3 DEF Unresolved
<1>7. CASE AfterDelay(s)
  <2>1. Step(s) = "delay" /\ Goto(s, "resolveAgain") /\ UNCHANGED <<engine, av>>
    BY <1>7 DEF AfterDelay, Step
  <2>2. Moves(s, "resolveAgain")
    BY <1>4, <2>1 DEF Moves, Sends, Shows, Commanded, Harmless, Keys, engine, av
  <2>3. QED
    BY <1>0, <1>1, <2>2
<1>8. CASE AfterReset(s)
  <2>1. Idle(s) /\ Step(s) = "reset"
    BY <1>8, AnsweredIsIdle DEF AfterReset
  <2>2. CASE ~tasks[s].fresh /\ NotStarted(s)
    BY <1>0, <2>1, <2>2, NotStartedQuits DEF Latest
  <2>3. CASE /\ tasks[s].fresh /\ Goto(s, "init") /\ avSong' = tasks[s].song
             /\ UNCHANGED <<engine, avState, avQueue, avEvents>>
    <3>1. Moves(s, "init")
      BY <2>1, <2>3 DEF Moves, Sends, Shows, Commanded, Harmless, Keys, Latest, engine
    <3>2. QED
      BY <1>0, <1>1, <3>1
  <2>4. QED
    BY <1>8, <2>2, <2>3 DEF AfterReset
<1>9. CASE PollInitialized(s) \/ InitializeTimeout(s)
  <2>1. Idle(s) /\ Step(s) = "init"
    BY <1>9 DEF PollInitialized, InitializeTimeout, Idle, Step, Commanded
  <2>2. CASE NotStarted(s)
    BY <1>0, <2>1, <2>2, NotStartedQuits DEF Coming, Harmless
  <2>3. CASE /\ tasks[s].fresh /\ avState = "initialized" /\ Await(s, "prepare")
             /\ UNCHANGED <<currentSong, retryNum, loadingTimer, errorSkip, avState, avSong, avEvents>>
    <3>1. Moves(s, "prepare")
      BY <2>1, <2>3, AwaitSends DEF Moves, Shows, Commanded, Harmless, Keys, Latest
    <3>2. QED
      BY <1>0, <1>1, <3>1
  <2>4. QED
    BY <1>9, <2>2, <2>3 DEF PollInitialized, InitializeTimeout
<1>10. ASSUME Idle(s), Step(s) \in {"prepare", "start"}, Thrown(s) \/ NotStarted(s)
       PROVE  Shape /\ Calm
  BY <1>0, <1>1, <1>2, <1>10, ThrownActs, NotStartedQuits DEF Coming, Harmless
<1>11. CASE AfterPrepare(s)
  <2>1. Idle(s) /\ Step(s) = "prepare" /\ ~Pending(s)
    BY <1>11, AnsweredIsIdle DEF AfterPrepare
  <2>2. CASE tasks[s].fresh /\ Await(s, "start") /\ UNCHANGED <<engine, avState, avSong, avEvents>>
    <3>1. Moves(s, "start")
      BY <2>1, <2>2, AwaitSends DEF Moves, Shows, Commanded, Harmless, Keys, Latest, engine
    <3>2. QED
      BY <1>0, <1>1, <3>1
  <2>3. QED
    BY <1>2, <1>10, <1>11, <2>1, <2>2 DEF AfterPrepare, Answered
<1>12. CASE AfterStart(s)
  <2>1. Idle(s) /\ Step(s) = "start"
    BY <1>12, AnsweredIsIdle DEF AfterStart
  <2>2. CASE Finish(s) /\ UNCHANGED <<status, currentSong, retryNum, errorSkip, av>>
    BY <1>0, <2>1, <2>2, PlainQuit DEF Coming, Harmless
  <2>3. QED
    BY <1>2, <1>10, <1>12, <2>1, <2>2 DEF AfterStart, Answered
<1>13. CASE AfterToggle(s) \/ AfterBackgroundReset(s)
  <2>1. Idle(s) /\ Step(s) \in {"togglePause", "togglePlay", "cancel", "background"}
    BY <1>13, AnsweredIsIdle DEF AfterToggle, AfterBackgroundReset
  <2>2. Step(s) \notin Coming
    BY <2>1 DEF Coming, Harmless
  <2>3. QED
    BY <1>0, <1>13, <2>1, <2>2, ExpiredQuits, PlainQuit DEF AfterToggle, AfterBackgroundReset
<1>14. CASE AfterSeek(s)
  <2>1. Idle(s) /\ Step(s) \in {"seek", "seekOnly", "seekPlay"}
    BY <1>14, AnsweredIsIdle DEF AfterSeek
  <2>2. CASE Expired(s)
    BY <1>0, <2>1, <2>2, ExpiredQuits DEF Coming, Harmless
  <2>3. CASE /\ Answered(s, "seek") /\ tasks[s].result = "ok" /\ Await(s, "seekPlay")
             /\ UNCHANGED <<engine, avState, avSong, avEvents>>
    <3>1. SeekOk(s) /\ Step(s) = "seek"
      BY <2>3 DEF SeekOk, Answered, Step
    <3>2. Moves(s, "seekPlay")
      BY <2>1, <2>3, <3>1, AwaitSends DEF Moves, Shows, Commanded, Harmless, Keys, engine
    <3>3. QED
      BY <1>0, <1>1, <3>2
  <2>4. QED
    BY <1>14, <2>2, <2>3 DEF AfterSeek
<1>15. QED
  BY <1>3, <1>5, <1>6, <1>7, <1>8, <1>9, <1>11, <1>12, <1>13, <1>14 DEF Continue

LEMMA ToggleActs ==
  ASSUME TypeOK, TogglePlay
  PROVE  Shape /\ Calm
<1>1. UNCHANGED <<avState, avSong, avEvents>>
  BY DEF TogglePlay
<1>2. Calm
  BY <1>1 DEF Calm
<1>3. CASE /\ status \in {"PLAYING", "PAUSED"} /\ UNCHANGED engine
           /\ \E s \in Slots :
                /\ Free(s)
                /\ tasks' = [tasks EXCEPT ![s] =
                      At(IF status = "PLAYING" THEN "togglePause" ELSE "togglePlay", NoSong, FALSE)]
                /\ avQueue' = Append(avQueue, s)
  <2>1. PICK s \in Slots, step \in {"togglePause", "togglePlay"} : Adds(s, step)
    BY <1>1, <1>3 DEF Adds, Sends, Commanded, engine
  <2>2. QED
    BY <1>2, <2>1 DEF Shape
<1>4. CASE /\ avState = "idle" /\ tasks' = Superseded /\ UNCHANGED avQueue
           /\ UNCHANGED <<currentSong, retryNum, errorSkip>>
  BY <1>1, <1>2, <1>4 DEF Shape, Drops
<1>5. CASE /\ UNCHANGED <<currentSong, retryNum, errorSkip>>
           /\ \E s \in Slots : /\ Free(s) /\ avQueue' = Append(avQueue, s)
                               /\ tasks' = [Superseded EXCEPT ![s] = At("cancel", NoSong, FALSE)]
  <2>1. PICK s \in Slots : Begins(s, "cancel", NoSong, FALSE)
    BY <1>1, <1>5 DEF Begins, Sends, Commanded
  <2>2. QED
    BY <1>2, <2>1 DEF Shape
<1>6. CASE PlayNew(currentSong)
  <2>1. currentSong \in Songs \cup {NoSong}
    BY DEF TypeOK
  <2>2. QED
    BY <1>1, <1>2, <1>6, <2>1, PlayNewActs
<1>7. QED
  BY <1>3, <1>4, <1>5, <1>6 DEF TogglePlay

LEMMA SeekActs ==
  ASSUME SeekTo
  PROVE  Shape /\ Calm
<1>1. PICK s \in Slots, step \in {"seek", "seekOnly"} : Adds(s, step)
  BY DEF SeekTo, Adds, Sends, Commanded, engine
<1>2. QED
  BY <1>1 DEF Shape, Calm, Adds

LEMMA LoadingTimeoutActs ==
  ASSUME TypeOK, LoadingTimeout
  PROVE  Shape /\ Calm
<1>1. UNCHANGED <<avState, avSong, avEvents>>
  BY DEF LoadingTimeout
<1>2. ASSUME NEW s \in Slots, Free(s), GiveUp(s) PROVE Shape
  <2>1. Idle(s) /\ Step(s) # "pause"
    BY <1>2 DEF Free, Idle, Step, Commanded
  <2>2. Quits(s) \/ Moves(s, "background")
    BY <1>1, <1>2, <2>1, GiveUpActs
  <2>3. QED
    BY <2>2 DEF Shape, Steps, OtherSteps
<1>3. QED
  BY <1>1, <1>2, PlayAgainActs DEF LoadingTimeout, Shape, Stays, Calm

LEMMA NextActs ==
  ASSUME TypeOK, InOrder, [Next]_vars
  PROVE  Act
<1>1. CASE UNCHANGED vars
  BY <1>1 DEF vars, engine, av, Act, Shape, Stays, Calm
<1>2. CASE \E s \in Slots : Continue(s)
  BY <1>2, ContinueActs DEF Act
<1>3. CASE LoadingTimeout \/ TogglePlay \/ SeekTo
  BY <1>3, LoadingTimeoutActs, ToggleActs, SeekActs DEF Act
<1>4. CASE ErrorSkipTimeout \/ OnCompleted \/ UserPlays
  BY <1>4, NextInQueueActs DEF ErrorSkipTimeout, OnCompleted, UserPlays, Act, Calm
<1>5. CASE AvSucceeds
  BY <1>5 DEF AvSucceeds, Act, Answers
<1>6. CASE AvRejects
  BY <1>6 DEF AvRejects, Act, Answers
<1>7. CASE AvInitialized \/ AvFails
  BY <1>7 DEF AvInitialized, AvFails, engine, Act, Shape, Stays, Calm
<1>8. CASE OnStateError \/ OnError
  <2>1. CASE PlayAgain
    BY <1>8, <2>1, PlayAgainActs DEF OnStateError, OnError, Act, Calm
  <2>2. CASE ~PlayAgain
    BY <1>8, <2>2 DEF OnStateError, OnError, Act, Shape, Stays, Calm
  <2>3. QED
    BY <2>1, <2>2
<1>9. QED
  BY <1>1, <1>2, <1>3, <1>4, <1>5, <1>6, <1>7, <1>8 DEF Next, Timers, Device

-----------------------------------------------------------------------------
(* What the parts of the invariant need of a step. *)

\* What the history says when it says nothing has got in the way.
Remembers ==
  /\ ~overtaken' => AsksForSong \/ (~overtaken /\ (retryNum' > retryNum => NonePausing))
  /\ ~revived' => IF AsksForSong THEN \A s \in Slots : Step(s) \notin Reviving
                  ELSE /\ ~revived
                       /\ tasks' = tasks \/ (~SeekTo /\ ~(TogglePlay /\ status = "PAUSED"))

LEMMA HistoryTells ==
  ASSUME TypeOK, [MCNext]_mcVars
  PROVE  Remembers
<1>1. CASE MCNext
  BY <1>1 DEF MCNext, Remembers, NonePausing, Step
<1>2. CASE UNCHANGED mcVars
  <2>1. /\ tasks' = tasks /\ retryNum' = retryNum /\ retryNum \in 0 .. 2
        /\ overtaken' = overtaken /\ revived' = revived
    BY <1>2 DEF mcVars, vars, engine, TypeOK
  <2>2. ~AsksForSong
    BY <2>1 DEF AsksForSong, Free
  <2>3. QED
    BY <2>1, <2>2 DEF Remembers
<1>3. QED
  BY <1>1, <1>2

LEMMA CalmPlayer ==
  ASSUME TypeOK, Calm
  PROVE  /\ avState' \in {"playing", "paused", "completed"} => avState \in {"playing", "paused", "completed"}
         /\ avState' \in {"playing", "prepared"} => avState' = avState
         /\ avState \in Seekable \cup {"error"} => avState' \in Seekable \cup {"error"}
         /\ avState = "idle" /\ avSong = NoSong /\ avEvents = {} => avState' = "idle" /\ avEvents' = {}
         /\ Failed => Failed'
<1>1. CASE UNCHANGED <<avState, avEvents>>
  BY <1>1 DEF Failed
<1>2. CASE AvInitialized \/ OnCompleted
  BY <1>2 DEF AvInitialized, OnCompleted, Failed, Seekable
<1>3. CASE AvFails
  BY <1>3 DEF AvFails, Failed
<1>4. CASE OnStateError \/ OnError
  BY <1>4 DEF OnStateError, OnError, Failed, Seekable
<1>5. QED
  BY <1>1, <1>2, <1>3, <1>4 DEF Calm

LEMMA LessAs ==
  ASSUME NEW t \in Slots, Less(t)
  PROVE  \/ Step(t)' = "none" /\ Pending(t)' /\ ~Latest(t)' /\ ~Plays(t)' /\ ~SeekOk(t)'
         \/ /\ Step(t)' = Step(t) /\ Pending(t)' = Pending(t) /\ (Latest(t)' => Latest(t))
            /\ Plays(t)' = Plays(t) /\ SeekOk(t)' = SeekOk(t) /\ tasks'[t].song = tasks[t].song
BY DEF Less, NoTask, Step, Pending, Latest, Plays, SeekOk

\* The song that is asked for is asked for by a call that begins.
LEMMA AsksNothing ==
  ASSUME NEW s \in Slots, \A t \in Slots \ {s} : Less(t), Step(s)' = "pause" => Less(s)
  PROVE  ~AsksForSong
<1> SUFFICES ASSUME NEW t \in Slots, Free(t), tasks'[t].step = "pause" PROVE FALSE
  BY DEF AsksForSong
<1>1. Less(t)
  BY DEF Step
<1>2. QED
  BY <1>1 DEF Less, NoTask, Free

LEMMA LessIsQuiet ==
  ASSUME \A t \in Slots : Less(t)
  PROVE  ~AsksForSong
<1>1. \A t \in Slots : tasks'[t].step = "pause" => tasks[t].step = "pause"
  BY DEF Less, NoTask
<1>2. QED
  BY <1>1 DEF AsksForSong, Free

-----------------------------------------------------------------------------
(* The parts of the invariant under a step that leaves every call with no more *)
(* than it had.                                                                *)

LEMMA LessKeepsSongs ==
  ASSUME IInv, InOrder, SongsTold, Remembers, Calm,
         \A t \in Slots : Less(t),
         avQueue' = avQueue, retryNum' = retryNum, avSong' = avSong,
         NonePausing => currentSong' = currentSong,
         CanPlay => \A t \in Slots : Queued(t) \/ (Latest(t) /\ Step(t) \in Coming) =>
                      Step(t)' = Step(t) /\ Latest(t)' = Latest(t)
  PROVE  KeysTold' /\ PreparedOnce' /\ Hushed' /\ LatestShown' /\ ResetFinds' /\ HeardShown'
<1>1. ~AsksForSong /\ retryNum \in 0 .. 2
  BY LessIsQuiet DEF IInv, TypeOK
<1>2. (~revived' => ~revived) /\ (~overtaken' => ~overtaken)
  BY <1>1 DEF Remembers
<1>3. \A t \in Slots :
        \/ Step(t)' = "none" /\ Pending(t)' /\ ~Latest(t)' /\ ~Plays(t)' /\ ~SeekOk(t)'
        \/ /\ Step(t)' = Step(t) /\ Pending(t)' = Pending(t) /\ (Latest(t)' => Latest(t))
           /\ Plays(t)' = Plays(t) /\ SeekOk(t)' = SeekOk(t) /\ tasks'[t].song = tasks[t].song
  BY LessAs
<1>4. \A x, y \in Slots : (Queued(x)' <=> Queued(x)) /\ (Before(x, y)' <=> Before(x, y))
  BY SameOrder
<1>5. /\ avState' \in {"playing", "paused", "completed"} => avState \in {"playing", "paused", "completed"}
      /\ avState' \in {"playing", "prepared"} => avState' = avState
      /\ avState \in Seekable \cup {"error"} => avState' \in Seekable \cup {"error"}
      /\ avState = "idle" /\ avSong = NoSong /\ avEvents = {} => avState' = "idle" /\ avEvents' = {}
      /\ Failed => Failed'
  BY CalmPlayer DEF IInv
<1>6. \A step \in {"prepare", "start"} : NoneQueued(step) => NoneQueued(step)'
  BY <1>3, <1>4 DEF NoneQueued
<1>7. NonePausing => NonePausing'
  BY <1>3 DEF NonePausing
<1>8. CanPlay' => CanPlay
  <2>1. Armed' => Armed
    BY <1>3 DEF Armed
  <2>2. QED
    BY <1>5, <2>1 DEF CanPlay
<1>9. KeysTold'
  BY <1>2, <1>3 DEF SongsTold, KeysTold, Reviving
<1>10. PreparedOnce'
  BY <1>3, <1>4, <1>5, <1>6, <1>8 DEF SongsTold, PreparedOnce, Reviving
<1>11. Hushed'
  <2>1. \A t \in Slots : PastPause(t)' => PastPause(t)
    BY <1>3 DEF PastPause, Harmless
  <2>2. QED
    BY <1>2, <1>5, <1>6, <2>1 DEF SongsTold, Hushed
<1>12. LatestShown'
  BY <1>2, <1>3, <1>7 DEF SongsTold, LatestShown
<1>13. ResetFinds'
  BY <1>3, <1>5 DEF SongsTold, ResetFinds
<1>14. HeardShown'
  <2> SUFFICES ASSUME ~overtaken', CanPlay' PROVE (Settled \/ Incoming \/ Resetting)'
    BY DEF HeardShown
  <2>1. Settled \/ Incoming \/ Resetting
    BY <1>2, <1>8 DEF SongsTold, HeardShown
  <2>2. Settled => Settled'
    BY <1>7 DEF Settled
  <2>3. Incoming => Incoming'
    BY <1>8 DEF Incoming
  <2>4. Resetting => Resetting'
    BY <1>4, <1>8 DEF Resetting
  <2>5. QED
    BY <2>1, <2>2, <2>3, <2>4
<1>15. QED
  BY <1>9, <1>10, <1>11, <1>12, <1>13, <1>14

LEMMA StaysKeepsSongs ==
  ASSUME IInv, InOrder, SongsTold, Remembers, Calm, Stays
  PROVE  KeysTold' /\ PreparedOnce' /\ Hushed' /\ LatestShown' /\ ResetFinds' /\ HeardShown'
<1>1. \A t \in Slots : Less(t)
  BY SameIsLess DEF IInv, Stays
<1>2. \A t \in Slots : Step(t)' = Step(t) /\ Latest(t)' = Latest(t)
  BY DEF Stays, Step, Latest
<1>3. QED
  BY <1>1, <1>2, LessKeepsSongs DEF Stays

LEMMA QuitsKeepsSongs ==
  ASSUME IInv, InOrder, SongsTold, Remembers, NEW s \in Slots, Quits(s)
  PROVE  KeysTold' /\ PreparedOnce' /\ Hushed' /\ LatestShown' /\ ResetFinds' /\ HeardShown'
<1>1. \A t \in Slots : Less(t)
  BY FinishLess DEF IInv, Quits
<1>2. \A t \in Slots \ {s} : Step(t)' = Step(t) /\ Latest(t)' = Latest(t)
  BY QuitEffect, SameAs DEF IInv, Quits
<1>3. ~Queued(s)
  BY DEF Quits, Idle, InOrder, QueueKnown
<1>4. Latest(s) /\ Step(s) \in Coming => ~CanPlay
  BY DEF Quits, CanPlay
<1>5. NonePausing => currentSong' = currentSong
  BY DEF Quits, Shows, NonePausing
<1>6. QED
  BY <1>1, <1>2, <1>3, <1>4, <1>5, LessKeepsSongs DEF Quits, Calm

LEMMA DropsKeepsSongs ==
  ASSUME IInv, InOrder, SongsTold, Remembers, Drops
  PROVE  KeysTold' /\ PreparedOnce' /\ Hushed' /\ LatestShown' /\ ResetFinds' /\ HeardShown'
<1>1. \A t \in Slots : Less(t)
  BY SupersededEffect, StaleIsLess DEF IInv, Drops
<1>2. ~CanPlay
  BY DEF Drops, CanPlay
<1>3. QED
  BY <1>1, <1>2, LessKeepsSongs DEF Drops, Calm

-----------------------------------------------------------------------------
(* The parts of the invariant under a step that begins, adds or moves a call.  *)

\* A call that begins supersedes the others; one of play asks for, or shows, its song.
LEMMA BeginsKeepsSongs ==
  ASSUME IInv, InOrder, SongsTold, Remembers, Calm, NEW s \in Slots,
         NEW step \in {"pause", "resolve", "cancel"}, NEW song \in Songs \cup {NoSong},
         NEW fresh \in BOOLEAN, Begins(s, step, song, fresh)
  PROVE  KeysTold' /\ PreparedOnce' /\ Hushed' /\ LatestShown' /\ ResetFinds' /\ HeardShown'
<1>1. /\ Placed(s, step, song, fresh)
      /\ \A t \in Slots \ {s} : Stale(t) /\ ~Latest(t)'
  BY BeginEffect DEF Begins, PlaySteps, OtherSteps, IInv
<1>2. /\ Step(s)' = step /\ Pending(s)' /\ Latest(s)' = fresh /\ tasks'[s].song = song
      /\ ~SeekOk(s)' /\ ~Plays(s)'
  BY <1>1, PlacedAs DEF Placed
<1>3. \A t \in Slots \ {s} : Less(t) /\ ~Latest(t)'
  BY <1>1, StaleIsLess
<1>4. \A t \in Slots \ {s} :
        \/ Step(t)' = "none" /\ Pending(t)' /\ ~Latest(t)' /\ ~Plays(t)' /\ ~SeekOk(t)'
        \/ /\ Step(t)' = Step(t) /\ Pending(t)' = Pending(t)
           /\ Plays(t)' = Plays(t) /\ SeekOk(t)' = SeekOk(t)
  BY <1>3, LessAs
<1>5. Step(s) = "none" /\ Idle(s)
  BY DEF Begins, Free, Step, Idle, Commanded
<1>6. /\ \A x \in Slots : Queued(x)' <=> Queued(x) \/ (x = s /\ step \in Commanded)
      /\ \A x, y \in Slots : Before(x, y)' =>
           \/ Before(x, y) /\ x # s /\ y # s
           \/ Queued(x) /\ x # s /\ y = s
  BY <1>5, SendOrder DEF Begins, InOrder, IInv
<1>7. avSong' = avSong /\ currentSong' = currentSong /\ fresh = (step # "cancel")
  BY DEF Begins
<1>8. /\ avState' \in {"playing", "paused", "completed"} => avState \in {"playing", "paused", "completed"}
      /\ avState' \in {"playing", "prepared"} => avState' = avState
      /\ avState \in Seekable \cup {"error"} => avState' \in Seekable \cup {"error"}
  BY CalmPlayer DEF IInv
<1>9. CanPlay' => CanPlay
  <2>1. Armed' => Armed
    BY <1>2, <1>4 DEF Armed
  <2>2. QED
    BY <1>8, <2>1 DEF CanPlay
<1>10. NoneQueued("prepare") => NoneQueued("prepare")'
  BY <1>2, <1>4, <1>6 DEF NoneQueued
<1>11. KeysTold'
  <2> SUFFICES ASSUME ~revived' PROVE \A t \in Slots : Step(t)' \notin Reviving
    BY DEF KeysTold, Reviving
  <2>1. \A t \in Slots : Step(t) \notin Reviving
    BY DEF Remembers, SongsTold, KeysTold
  <2>2. QED
    BY <1>2, <1>4, <2>1 DEF Reviving
<1>12. PreparedOnce'
  <2>1. \A t \in Slots : SeekOk(t)' => SeekOk(t)
    BY <1>2, <1>4
  <2>2. ASSUME NEW x \in Slots, NEW y \in Slots, Before(x, y)', Step(x)' = "prepare"
        PROVE  Step(y)' \notin Reviving
    BY <1>2, <1>4, <1>6, <2>2 DEF SongsTold, PreparedOnce, Reviving
  <2>3. QED
    BY <1>8, <1>9, <1>10, <2>1, <2>2 DEF SongsTold, PreparedOnce, Reviving
<1>13. Hushed'
  <2>1. ASSUME NEW t \in Slots, PastPause(t)' PROVE retryNum' # 0
    <3>1. t = s /\ step = "resolve"
      BY <1>2, <1>3, <1>7, <2>1 DEF PastPause, Harmless
    <3>2. QED
      BY <3>1 DEF Begins, IInv, TypeOK
  <2>2. QED
    BY <2>1 DEF Hushed
<1>14. LatestShown'
  <2> SUFFICES ASSUME ~overtaken', NEW t \in Slots, Latest(t)', Step(t)' # "pause"
               PROVE  tasks'[t].song = currentSong' /\ NonePausing'
    BY DEF LatestShown
  <2>1. t = s /\ step = "resolve"
    BY <1>2, <1>3, <1>7
  <2>2. ~AsksForSong
    BY <1>2, <1>3, <2>1, AsksNothing
  <2>3. NonePausing
    <3>1. retryNum' = retryNum + 1 /\ retryNum \in 0 .. 2
      BY <2>1 DEF Begins, IInv, TypeOK
    <3>2. QED
      BY <2>2, <3>1 DEF Remembers
  <2>4. song = currentSong
    BY <2>1 DEF Begins
  <2>5. QED
    BY <1>2, <1>4, <1>7, <2>1, <2>3, <2>4 DEF NonePausing
<1>15. ResetFinds'
  BY <1>2, <1>3 DEF ResetFinds
<1>16. HeardShown'
  <2>1. CASE step = "cancel"
    BY <1>2, <1>6, <2>1 DEF HeardShown, Resetting, Commanded
  <2>2. CASE step # "cancel"
    BY <1>2, <1>7, <2>2 DEF HeardShown, Incoming, Coming, Harmless
  <2>3. QED
    BY <2>1, <2>2
<1>17. QED
  BY <1>11, <1>12, <1>13, <1>14, <1>15, <1>16

\* A key of the user: what plays behind it could be heard already.
LEMMA AddsKeepsSongs ==
  ASSUME IInv, InOrder, SongsTold, Remembers, NEW s \in Slots,
         NEW step \in {"togglePause", "togglePlay", "seek", "seekOnly"}, Adds(s, step)
  PROVE  KeysTold' /\ PreparedOnce' /\ Hushed' /\ LatestShown' /\ ResetFinds' /\ HeardShown'
<1>1. Placed(s, step, NoSong, FALSE) /\ \A t \in Slots \ {s} : Same(t)
  BY AddEffect DEF Adds, IInv
<1>2. Step(s)' = step /\ Pending(s)' /\ ~Latest(s)' /\ ~SeekOk(s)'
  BY <1>1, PlacedAs
<1>3. \A t \in Slots \ {s} :
        /\ Step(t)' = Step(t) /\ Pending(t)' = Pending(t) /\ Latest(t)' = Latest(t)
        /\ tasks'[t].song = tasks[t].song
        /\ Plays(t)' = Plays(t) /\ SeekOk(t)' = SeekOk(t)
  BY <1>1, SameAs
<1>4. Step(s) = "none" /\ Idle(s)
  BY DEF Adds, Free, Step, Idle, Commanded
<1>5. /\ \A x \in Slots : Queued(x)' <=> Queued(x) \/ (x = s /\ step \in Commanded)
      /\ \A x, y \in Slots : Before(x, y)' =>
           \/ Before(x, y) /\ x # s /\ y # s
           \/ Queued(x) /\ x # s /\ y = s
  BY <1>4, SendOrder DEF Adds, InOrder, IInv
<1>6. UNCHANGED <<currentSong, retryNum, avSong, avState, avEvents>>
  BY DEF Adds
<1>7. /\ ~AsksForSong /\ retryNum \in 0 .. 2 /\ tasks' # tasks
  <2>1. \A t \in Slots \ {s} : Less(t)
    BY <1>1, SameIsLess DEF IInv, Same
  <2>2. tasks' # tasks
    BY <1>2, <1>4 DEF Step
  <2>3. QED
    BY <1>2, <2>1, <2>2, AsksNothing DEF IInv, TypeOK
<1>8. /\ ~revived' => ~revived /\ ~SeekTo /\ ~(TogglePlay /\ status = "PAUSED")
      /\ ~overtaken' => ~overtaken
  BY <1>7 DEF Remembers
<1>9. step \in {"togglePlay", "seek"} => CanPlay
  BY DEF Adds, IInv, Told, SongsTold, PlayingTold, CanPlay
<1>10. CanPlay' => CanPlay
  <2>1. Plays(s)' => step \in {"togglePlay", "seek"}
    BY <1>1, PlacedAs
  <2>2. Armed' => Armed \/ step \in {"togglePlay", "seek"}
    BY <1>2, <1>3, <2>1 DEF Armed
  <2>3. QED
    BY <1>6, <1>9, <2>2 DEF CanPlay
<1>11. \A x \in {"prepare", "start"} : NoneQueued(x) => NoneQueued(x)'
  BY <1>2, <1>3, <1>5 DEF NoneQueued
<1>12. NonePausing => NonePausing'
  BY <1>2, <1>3 DEF NonePausing
<1>13. KeysTold'
  <2>1. ~revived' => step \notin Reviving
    BY <1>8 DEF Adds, Reviving
  <2>2. QED
    BY <1>2, <1>3, <1>8, <2>1 DEF SongsTold, KeysTold, Reviving
<1>14. PreparedOnce'
  <2>1. ASSUME NEW x \in Slots, NEW y \in Slots, Before(x, y)', Step(x)' = "prepare"
        PROVE  Step(y)' \notin Reviving
    <3>1. CASE Before(x, y) /\ x # s /\ y # s
      BY <1>3, <2>1, <3>1 DEF SongsTold, PreparedOnce, Reviving
    <3>2. CASE Queued(x) /\ x # s /\ y = s
      <4>1. ~NoneQueued("prepare")
        BY <1>3, <2>1, <3>2 DEF NoneQueued
      <4>2. step \notin {"togglePlay", "seek"}
        BY <1>9, <4>1 DEF SongsTold, PreparedOnce
      <4>3. QED
        BY <1>2, <3>2, <4>2 DEF Reviving
    <3>3. QED
      BY <1>5, <2>1, <3>1, <3>2
  <2>2. \A t \in Slots : SeekOk(t)' => SeekOk(t)
    BY <1>2, <1>3
  <2>3. QED
    BY <1>6, <1>10, <1>11, <2>1, <2>2 DEF SongsTold, PreparedOnce, Reviving
<1>15. Hushed'
  <2>1. \A t \in Slots : PastPause(t)' => PastPause(t)
    BY <1>2, <1>3 DEF PastPause, Harmless
  <2>2. QED
    BY <1>6, <1>8, <1>11, <2>1 DEF SongsTold, Hushed, Failed
<1>16. LatestShown'
  BY <1>2, <1>3, <1>6, <1>8, <1>12 DEF SongsTold, LatestShown
<1>17. ResetFinds'
  BY <1>2, <1>3, <1>6 DEF SongsTold, ResetFinds
<1>18. HeardShown'
  <2> SUFFICES ASSUME ~overtaken', CanPlay' PROVE (Settled \/ Incoming \/ Resetting)'
    BY DEF HeardShown
  <2>1. Settled \/ Incoming \/ Resetting
    BY <1>8, <1>10 DEF SongsTold, HeardShown
  <2>2. Settled => Settled'
    BY <1>6, <1>12 DEF Settled
  <2>3. Incoming => Incoming'
    BY <1>3, <1>4 DEF Incoming, Coming, Harmless
  <2>4. Resetting => Resetting'
    BY <1>3, <1>4, <1>5 DEF Resetting
  <2>5. QED
    BY <2>1, <2>2, <2>3, <2>4
<1>19. QED
  BY <1>13, <1>14, <1>15, <1>16, <1>17, <1>18

\* A call that goes on.  Only the latest call starts the AVPlayer, with the URL of its song.
LEMMA MovesKeepsSongs ==
  ASSUME IInv, InOrder, SongsTold, Remembers, NEW s \in Slots, NEW step \in Steps, Moves(s, step)
  PROVE  KeysTold' /\ PreparedOnce' /\ Hushed' /\ LatestShown' /\ ResetFinds' /\ HeardShown'
<1>1. Placed(s, step, tasks[s].song, tasks[s].fresh) /\ \A t \in Slots \ {s} : Same(t)
  BY MoveEffect DEF Moves, IInv
<1>2. /\ Step(s)' = step /\ Pending(s)' /\ Latest(s)' = Latest(s) /\ ~SeekOk(s)'
      /\ tasks'[s].song = tasks[s].song
      /\ Plays(s)' => step \in {"start", "togglePlay", "seek", "seekPlay"}
  BY <1>1, PlacedAs DEF Placed, Latest
<1>3. \A t \in Slots \ {s} :
        /\ Step(t)' = Step(t) /\ Pending(t)' = Pending(t) /\ Latest(t)' = Latest(t)
        /\ tasks'[t].song = tasks[t].song
        /\ Plays(t)' = Plays(t) /\ SeekOk(t)' = SeekOk(t)
  BY <1>1, SameAs
<1>4. /\ ~Queued(s)
      /\ \A x \in Slots : Queued(x)' <=> Queued(x) \/ (x = s /\ step \in Commanded)
      /\ \A x, y \in Slots : Before(x, y)' =>
           \/ Before(x, y) /\ x # s /\ y # s
           \/ Queued(x) /\ x # s /\ y = s
  BY SendOrder DEF Moves, InOrder, IInv
<1>5. UNCHANGED <<retryNum, avState, avEvents>> /\ step # "pause"
  BY DEF Moves
<1>6. ~AsksForSong /\ retryNum \in 0 .. 2
  <2>1. \A t \in Slots \ {s} : Less(t)
    BY <1>1, SameIsLess DEF IInv, Same
  <2>2. QED
    BY <1>2, <1>5, <2>1, AsksNothing DEF IInv, TypeOK
<1>7. (~revived' => ~revived) /\ (~overtaken' => ~overtaken)
  BY <1>6 DEF Remembers
<1>8. NonePausing => NonePausing'
  BY <1>2, <1>3, <1>5 DEF NonePausing
<1>9. \A t \in Slots : Latest(s) /\ Latest(t) => t = s
  BY DEF InOrder, CallsKnown
\* Only a call that goes on to play() makes audible what was not.
<1>10. CASE step = "start"
  <2>1. Latest(s) /\ Step(s) = "prepare" /\ ~Pending(s)
    BY <1>10 DEF Moves
  <2>2. \A t \in Slots : Step(t) # "pause" /\ (t # s => Step(t) # "prepare")
    BY <2>1 DEF InOrder, OrderKnown, Crossed
  <2>3. avSong' = avSong /\ currentSong' = currentSong
    BY <1>10, <2>1 DEF Moves, Shows
  <2>4. KeysTold'
    BY <1>2, <1>3, <1>7, <1>10 DEF SongsTold, KeysTold, Reviving
  <2>5. NoneQueued("prepare")'
    BY <1>2, <1>3, <1>10, <2>2 DEF NoneQueued
  <2>6. PreparedOnce'
    <3>1. \A x \in Slots : Step(x)' # "prepare"
      BY <1>2, <1>3, <1>10, <2>2
    <3>2. \A t \in Slots : SeekOk(t)' => SeekOk(t)
      BY <1>2, <1>3
    <3>3. QED
      BY <1>5, <2>5, <3>1, <3>2 DEF SongsTold, PreparedOnce, Reviving
  <2>7. Hushed'
    BY <1>2, <1>3, <1>9, <1>10, <2>1 DEF Hushed, PastPause, Harmless
  <2>8. LatestShown'
    BY <1>2, <1>3, <1>7, <1>8, <2>1, <2>3 DEF SongsTold, LatestShown
  <2>9. ResetFinds'
    BY <1>2, <1>3, <1>9, <1>10, <2>1 DEF ResetFinds
  <2>10. HeardShown'
    <3> SUFFICES ASSUME ~overtaken', CanPlay' PROVE Settled'
      BY DEF HeardShown
    <3>1. avState \notin {"idle", "error"}
      BY <1>5 DEF CanPlay
    <3>2. s \in Fresh
      BY <2>1 DEF Fresh, PlaySteps, Step, Latest
    <3>3. avSong = tasks[s].song
      BY <2>1, <3>1, <3>2 DEF IInv, PlayerHolds, Step
    <3>4. tasks[s].song = currentSong /\ NonePausing
      BY <1>7, <2>1 DEF SongsTold, LatestShown
    <3>5. QED
      BY <1>8, <2>3, <3>3, <3>4 DEF Settled
  <2>11. QED
    BY <2>4, <2>6, <2>7, <2>8, <2>9, <2>10
<1>11. CASE step # "start"
  <2>1. CanPlay' => CanPlay
    <3>1. Plays(s)' => SeekOk(s)
      BY <1>2, <1>11 DEF Moves, Keys
    <3>2. Armed' => Armed
      BY <1>2, <1>3, <3>1 DEF Armed
    <3>3. QED
      BY <1>5, <3>2 DEF CanPlay
  <2>2. Latest(s) /\ Step(s) = "reset" => avState = "idle"
    BY DEF SongsTold, ResetFinds, Moves, Idle, Commanded
  <2>3. step = "init" => avState = "idle"
    BY <2>2 DEF Moves
  <2>4. step \in Reviving => SeekOk(s) /\ step = "seekPlay"
    BY DEF Moves, Keys, Reviving
  <2>5. KeysTold'
    <3>1. SeekOk(s) => Step(s) \in Reviving
      BY DEF SeekOk, Step, Reviving
    <3>2. QED
      BY <1>2, <1>3, <1>7, <2>4, <3>1 DEF SongsTold, KeysTold, Reviving
  <2>6. PreparedOnce'
    <3>1. step = "prepare" => avState = "initialized"
      BY DEF Moves
    <3>2. avState # "initialized" /\ NoneQueued("prepare") => NoneQueued("prepare")'
      BY <1>2, <1>3, <1>4, <3>1 DEF NoneQueued
    <3>3. CanPlay => avState # "initialized"
      BY DEF CanPlay
    <3>4. ASSUME NEW x \in Slots, NEW y \in Slots, Before(x, y)', Step(x)' = "prepare"
          PROVE  Step(y)' \notin Reviving
      <4>1. CASE Before(x, y) /\ x # s /\ y # s
        BY <1>3, <3>4, <4>1 DEF SongsTold, PreparedOnce, Reviving
      <4>2. CASE Queued(x) /\ x # s /\ y = s
        <5>1. ~NoneQueued("prepare")
          BY <1>3, <3>4, <4>2 DEF NoneQueued
        <5>2. ~SeekOk(s)
          BY <5>1 DEF SongsTold, PreparedOnce
        <5>3. QED
          BY <1>2, <2>4, <4>2, <5>2
      <4>3. QED
        BY <1>4, <3>4, <4>1, <4>2
    <3>5. ASSUME NEW t \in Slots, SeekOk(t)'
          PROVE  avState' \in Seekable \cup {"error"} /\ NoneQueued("prepare")'
      <4>1. SeekOk(t)
        BY <1>2, <1>3, <3>5
      <4>2. avState \in Seekable \cup {"error"} /\ NoneQueued("prepare")
        BY <4>1 DEF SongsTold, PreparedOnce
      <4>3. QED
        BY <1>5, <3>2, <4>2 DEF Seekable
    <3>6. CanPlay' => NoneQueued("prepare")'
      BY <2>1, <3>2, <3>3 DEF SongsTold, PreparedOnce
    <3>7. QED
      BY <3>4, <3>5, <3>6 DEF PreparedOnce, Reviving
  <2>7. Hushed'
    <3>1. \A t \in Slots : PastPause(t)' => PastPause(t)
      <4>1. PastPause(s)' => PastPause(s)
        BY <1>2, <1>5 DEF PastPause, Harmless, Moves, Idle, Commanded
      <4>2. QED
        BY <1>3, <4>1 DEF PastPause, Harmless
    <3>2. NoneQueued("start") => NoneQueued("start")'
      BY <1>2, <1>3, <1>4, <1>11 DEF NoneQueued
    <3>3. QED
      BY <1>5, <1>7, <3>1, <3>2 DEF SongsTold, Hushed, Failed
  <2>8. LatestShown'
    <3> SUFFICES ASSUME ~overtaken', NEW t \in Slots, Latest(t)', Step(t)' # "pause"
                 PROVE  tasks'[t].song = currentSong' /\ NonePausing'
      BY DEF LatestShown
    <3>1. CASE Step(s) = "pause"
      <4>1. Latest(s) /\ ~Pending(s) /\ currentSong' = tasks[s].song
        BY <3>1 DEF Moves, Idle, Commanded
      <4>2. t = s
        BY <1>3, <1>9, <4>1
      <4>3. \A x \in Slots \ {s} : Step(x) # "pause"
        BY <3>1, <4>1 DEF InOrder, OrderKnown, Crossed
      <4>4. NonePausing'
        BY <1>2, <1>3, <1>5, <4>3 DEF NonePausing
      <4>5. QED
        BY <1>2, <4>1, <4>2, <4>4
    <3>2. CASE Step(s) # "pause"
      <4>1. currentSong' = currentSong
        BY <3>2 DEF Moves, Shows
      <4>2. Latest(t) /\ Step(t) # "pause"
        BY <1>2, <1>3, <3>2
      <4>3. tasks[t].song = currentSong /\ NonePausing
        BY <1>7, <4>2 DEF SongsTold, LatestShown
      <4>4. QED
        BY <1>2, <1>3, <1>8, <4>1, <4>3
    <3>3. QED
      BY <3>1, <3>2
  <2>9. ResetFinds'
    <3>1. ASSUME NEW t \in Slots, Latest(t)', Step(t)' = "reset", ~Pending(t)'
          PROVE  avState' = "idle" /\ avSong' = NoSong /\ avEvents' = {}
      <4>1. t # s /\ Latest(t) /\ Step(t) = "reset" /\ ~Pending(t)
        BY <1>2, <1>3, <3>1
      <4>2. avSong' = avSong
        BY <1>9, <4>1 DEF Moves
      <4>3. QED
        BY <1>5, <4>1, <4>2 DEF SongsTold, ResetFinds
    <3>2. QED
      BY <3>1 DEF ResetFinds
  <2>10. HeardShown'
    <3> SUFFICES ASSUME ~overtaken', CanPlay' PROVE (Settled \/ Incoming \/ Resetting)'
      BY DEF HeardShown
    <3>1. CanPlay /\ avState # "idle"
      BY <2>1 DEF CanPlay
    <3>2. Settled \/ Incoming \/ Resetting
      BY <1>7, <3>1 DEF SongsTold, HeardShown
    <3>3. step # "init" /\ avSong' = avSong
      BY <2>3, <3>1 DEF Moves
    <3>4. Settled => Settled'
      BY <1>8, <3>3 DEF Settled, NonePausing, Moves, Shows
    <3>5. ASSUME NEW t \in Slots, Latest(t), Step(t) \in Coming PROVE Incoming' \/ Resetting'
      <4>1. CASE t # s
        BY <1>3, <3>5, <4>1 DEF Incoming
      <4>2. CASE t = s
        <5>1. step \in Harmless \cup {"reset", "background"}
          BY <3>3, <3>5, <4>2 DEF Moves, Coming
        <5>2. CASE step = "background"
          BY <1>2, <1>4, <5>2 DEF Resetting, Commanded
        <5>3. CASE step \in Harmless \cup {"reset"}
          BY <1>2, <3>5, <4>2, <5>3 DEF Incoming, Coming
        <5>4. QED
          BY <5>1, <5>2, <5>3
      <4>3. QED
        BY <4>1, <4>2
    <3>6. Resetting => Resetting'
      BY <1>3, <1>4 DEF Resetting
    <3>7. QED
      BY <3>2, <3>4, <3>5, <3>6 DEF Incoming
  <2>11. QED
    BY <2>5, <2>6, <2>7, <2>8, <2>9, <2>10
<1>12. QED
  BY <1>10, <1>11


-----------------------------------------------------------------------------
(* The parts of the invariant when the AVPlayer answers.                       *)

Plain == {"start", "togglePlay", "seekPlay"}
Resets == {"reset", "cancel", "background"}

\* What the calls and the queue are after an answer to the first command, h.
LEMMA AnswerCalls ==
  ASSUME IInv, InOrder, Remembers, NEW r \in {"ok", "fail"}, Answers(r),
         NEW h \in Slots, h = Head(avQueue)
  PROVE  /\ Step(h) \in Commanded /\ Pending(h) /\ ~Plays(h)'
         /\ SeekOk(h)' => Step(h) = "seek" /\ r = "ok"
         /\ \A t \in Slots :
              /\ Pending(t) /\ Step(t)' = Step(t) /\ Latest(t)' = Latest(t)
              /\ tasks'[t].song = tasks[t].song
              /\ Queued(t) /\ t # h => Queued(t)' /\ Before(h, t)
              /\ Queued(t)' => Queued(t) /\ Before(h, t)
              /\ t # h => Pending(t)' /\ Plays(t)' = Plays(t) /\ ~SeekOk(t)'
         /\ \A t, u \in Slots : Before(t, u)' => Before(t, u)
         /\ UNCHANGED <<currentSong, retryNum>>
         /\ (~revived' => ~revived) /\ (~overtaken' => ~overtaken)
<1>1. Due /\ Answer(r) /\ avQueue # <<>> /\ avQueue' = Tail(avQueue) /\ \A t \in Slots : Pending(t)
  BY DEF Answers, Due, Pending
<1>2. /\ tasks'[h].result = r /\ Step(h)' = Step(h) /\ Latest(h)' = Latest(h)
      /\ tasks'[h].song = tasks[h].song
      /\ \A t \in Slots \ {h} : Same(t)
  BY <1>1, AnsweredEffect DEF IInv, Latest
<1>3. \A t \in Slots \ {h} :
        /\ Step(t)' = Step(t) /\ Pending(t)' = Pending(t) /\ Latest(t)' = Latest(t)
        /\ tasks'[t].song = tasks[t].song
        /\ Plays(t)' = Plays(t) /\ SeekOk(t)' = SeekOk(t)
  BY <1>2, SameAs
<1>4. \A t \in Slots : ~SeekOk(t)
  BY <1>1 DEF SeekOk, Pending
<1>5. avQueue \in Seq(Slots)
  BY DEF IInv, TypeOK
<1>6. /\ Queued(h)
      /\ \A t \in Slots : /\ Queued(t) /\ t # h => Queued(t)' /\ Before(h, t)
                          /\ Queued(t)' => Queued(t) /\ Before(h, t)
      /\ \A t, u \in Slots : Before(t, u)' => Before(t, u)
  BY <1>1, <1>5, TailOrder
<1>7. Step(h) \in Commanded
  BY <1>6 DEF InOrder, QueueKnown
<1>8. ~Plays(h)' /\ (SeekOk(h)' => Step(h) = "seek" /\ r = "ok")
  BY <1>2 DEF Plays, SeekOk, Pending
<1>9. UNCHANGED <<currentSong, retryNum>> /\ retryNum \in 0 .. 2
  BY DEF Answers, AvSucceeds, AvRejects, engine, IInv, TypeOK
<1>10. ~AsksForSong
  BY <1>2, <1>3 DEF AsksForSong, Free, Step
<1>11. tasks' # tasks
  BY <1>1, <1>2 DEF Pending
<1>12. (~revived' => ~revived) /\ (~overtaken' => ~overtaken)
  BY <1>9, <1>10, <1>11 DEF Remembers
<1>13. QED
  BY <1>1, <1>2, <1>3, <1>4, <1>6, <1>7, <1>8, <1>9, <1>12

\* What the answer to h says of the AVPlayer.
LEMMA AnswerPlayer ==
  ASSUME NEW r \in {"ok", "fail"}, Answers(r), NEW h \in Slots, h = Head(avQueue),
         Step(h) \in Commanded
  PROVE  /\ IF r = "ok" THEN avEvents = {} /\ avEvents' = {} ELSE UNCHANGED <<avState, avEvents>>
         /\ IF Step(h) \in Resets
            THEN r = "ok" /\ avState' = "idle" /\ avSong' = NoSong
            ELSE avSong' = avSong
         /\ Step(h) = "pause" =>
              IF r = "ok" THEN avState' = "paused" ELSE avState # "playing" \/ avEvents # {}
         /\ Step(h) = "seek" /\ r = "ok" => avState \in Seekable /\ avState' \in Seekable
         /\ avState' = "playing" => avState = "playing" \/ Step(h) \in Plain
         /\ avState' \in {"playing", "paused", "completed"} =>
              \/ avState \in {"playing", "paused", "completed"}
              \/ avState = "prepared" /\ Step(h) \in Plain
         /\ avState' = "prepared" => avState = "prepared" \/ Step(h) = "prepare"
<1>1. Command1 = Command[Step(h)]
  BY DEF Command1, Step
<1>2. CASE r = "ok"
  <2>1. AvSucceeds
    BY <1>2 DEF Answers
  <2>2. avEvents = {} /\ avEvents' = {}
    BY <2>1 DEF AvSucceeds
  <2>3. \/ Command1 = "pause" /\ avState = "playing" /\ avState' = "paused" /\ avSong' = avSong
        \/ /\ Command1 = "play" /\ avState \in {"prepared", "paused", "completed"}
           /\ avState' = "playing" /\ avSong' = avSong
        \/ /\ Command1 = "prepare" /\ avState = "initialized" /\ avState' = "prepared"
           /\ avSong' = avSong
        \/ Command1 = "reset" /\ avState' = "idle" /\ avSong' = NoSong
        \/ /\ Command1 = "seek" /\ avState \in Seekable /\ avSong' = avSong
           /\ avState' = avState \/ (avState = "playing" /\ avState' = "paused")
    BY <2>1 DEF AvSucceeds, Seekable
  <2>4. QED
    BY <1>1, <1>2, <2>2, <2>3 DEF Command, Commanded, Plain, Resets, Seekable
<1>3. CASE r = "fail"
  <2>1. AvRejects
    BY <1>3 DEF Answers
  <2>2. QED
    BY <1>1, <1>3, <2>1 DEF AvRejects, Command, Commanded, Plain, Resets, Seekable
<1>4. QED
  BY <1>2, <1>3

\* An answer makes nothing audible that no command in flight could have made so: whatever
\* plays is queued behind no prepare().
LEMMA AnswerArmsNothing ==
  ASSUME IInv, InOrder, SongsTold, Remembers, NEW r \in {"ok", "fail"}, Answers(r)
  PROVE  CanPlay' => CanPlay
<1> SUFFICES ASSUME CanPlay' PROVE CanPlay
  OBVIOUS
<1> PICK h \in Slots : h = Head(avQueue)
  BY HeadIsCall DEF Answers, Due, IInv
<1>1. /\ Step(h) \in Commanded /\ Pending(h) /\ ~Plays(h)'
      /\ SeekOk(h)' => Step(h) = "seek"
      /\ \A t \in Slots : /\ Pending(t)
                          /\ Queued(t) /\ t # h => Before(h, t)
                          /\ t # h => Plays(t)' = Plays(t) /\ ~SeekOk(t)'
  BY AnswerCalls
<1>2. /\ avState' \in {"playing", "paused", "completed"} =>
           \/ avState \in {"playing", "paused", "completed"}
           \/ avState = "prepared" /\ Step(h) \in Plain
      /\ avState' = "prepared" => avState = "prepared" \/ Step(h) = "prepare"
  BY <1>1, AnswerPlayer
<1>3. CASE avState' \in {"playing", "paused", "completed"}
  <2>1. Step(h) \in Plain => Plays(h)
    BY <1>1 DEF Plays, Plain
  <2>2. QED
    BY <1>2, <1>3, <2>1 DEF CanPlay, Armed
<1>4. CASE avState' = "prepared" /\ Armed'
  <2>1. PICK t \in Slots : Plays(t)' \/ SeekOk(t)'
    BY <1>4 DEF Armed
  <2>2. t # h => Plays(t) /\ Queued(t) /\ Before(h, t)
    BY <1>1, <2>1 DEF Plays, InOrder, QueueKnown, Commanded
  <2>3. t = h => Step(h) = "seek" /\ Plays(h)
    BY <1>1, <2>1 DEF Plays
  <2>4. Step(h) # "prepare"
    BY <2>2, <2>3 DEF Plays, InOrder, OrderKnown, StartsUnprepared, SongsTold, PreparedOnce, Reviving
  <2>5. QED
    BY <1>2, <1>4, <2>2, <2>3, <2>4 DEF CanPlay, Armed
<1>5. QED
  BY <1>3, <1>4 DEF CanPlay

LEMMA AnswerKeepsSongs ==
  ASSUME IInv, InOrder, SongsTold, Remembers, NEW r \in {"ok", "fail"}, Answers(r)
  PROVE  KeysTold' /\ PreparedOnce' /\ Hushed' /\ LatestShown' /\ ResetFinds' /\ HeardShown'
<1> PICK h \in Slots : h = Head(avQueue)
  BY HeadIsCall DEF Answers, Due, IInv
<1>1. /\ Step(h) \in Commanded /\ Pending(h)
      /\ SeekOk(h)' => Step(h) = "seek" /\ r = "ok"
      /\ UNCHANGED <<currentSong, retryNum>>
      /\ (~revived' => ~revived) /\ (~overtaken' => ~overtaken)
  BY AnswerCalls
<1>2. \A t \in Slots :
        /\ Pending(t) /\ Step(t)' = Step(t) /\ Latest(t)' = Latest(t)
        /\ tasks'[t].song = tasks[t].song
        /\ Queued(t) /\ t # h => Queued(t)' /\ Before(h, t)
        /\ Queued(t)' => Queued(t) /\ Before(h, t)
        /\ t # h => Pending(t)' /\ ~SeekOk(t)'
  BY AnswerCalls
<1>3. \A t, u \in Slots : Before(t, u)' => Before(t, u)
  BY AnswerCalls
<1>4. /\ IF r = "ok" THEN avEvents = {} /\ avEvents' = {} ELSE UNCHANGED <<avState, avEvents>>
      /\ IF Step(h) \in Resets
         THEN r = "ok" /\ avState' = "idle" /\ avSong' = NoSong
         ELSE avSong' = avSong
      /\ Step(h) = "pause" =>
           IF r = "ok" THEN avState' = "paused" ELSE avState # "playing" \/ avEvents # {}
      /\ Step(h) = "seek" /\ r = "ok" => avState \in Seekable /\ avState' \in Seekable
      /\ avState' = "playing" => avState = "playing" \/ Step(h) \in Plain
  BY <1>1, AnswerPlayer
<1>5. CanPlay' => CanPlay
  BY AnswerArmsNothing
<1>6. NonePausing' <=> NonePausing
  BY <1>2 DEF NonePausing
<1>7. \A step \in {"prepare", "start"} : NoneQueued(step) => NoneQueued(step)'
  BY <1>2 DEF NoneQueued
<1>8. KeysTold'
  BY <1>1, <1>2 DEF SongsTold, KeysTold, Reviving
<1>9. PreparedOnce'
  <2>1. ASSUME NEW t \in Slots, SeekOk(t)'
        PROVE  avState' \in Seekable \cup {"error"} /\ NoneQueued("prepare")'
    <3>1. t = h /\ Step(h) = "seek" /\ r = "ok"
      BY <1>1, <1>2, <2>1
    <3>2. Plays(h) /\ avState \in Seekable /\ avState' \in Seekable
      BY <1>1, <1>4, <3>1 DEF Plays
    <3>3. CanPlay
      BY <3>2 DEF CanPlay, Armed, Seekable
    <3>4. QED
      BY <1>7, <3>2, <3>3 DEF SongsTold, PreparedOnce
  <2>2. QED
    BY <1>2, <1>3, <1>5, <1>7, <2>1 DEF SongsTold, PreparedOnce, Reviving
<1>10. Hushed'
  <2> SUFFICES ASSUME retryNum = 0, ~revived, NEW t \in Slots, PastPause(t)'
               PROVE  (avState' # "playing" \/ Failed') /\ NoneQueued("start")'
    BY <1>1 DEF Hushed
  <2>1. CASE PastPause(t)
    <3>1. (avState # "playing" \/ Failed) /\ NoneQueued("start")
      BY <2>1 DEF SongsTold, Hushed
    <3>2. Queued(h)
      BY <1>1 DEF InOrder, QueueKnown
    <3>3. Step(h) \notin Plain
      BY <3>1, <3>2 DEF NoneQueued, Plain, SongsTold, KeysTold, Reviving
    <3>4. avState' # "playing" \/ Failed'
      BY <1>4, <3>1, <3>3 DEF Failed
    <3>5. QED
      BY <1>7, <3>1, <3>4
  <2>2. CASE ~PastPause(t)
    <3>1. t = h /\ Step(h) = "pause" /\ Latest(h)
      BY <1>2, <2>2 DEF PastPause, Harmless
    <3>2. avEvents # {} => Failed
      BY DEF IInv, Told, TypeOK, Failed
    <3>3. avState' # "playing" \/ Failed'
      BY <1>4, <3>1, <3>2 DEF Failed
    <3>4. NoneQueued("start")'
      BY <1>2, <3>1 DEF NoneQueued, InOrder, OrderKnown, Crossed
    <3>5. QED
      BY <3>3, <3>4
  <2>3. QED
    BY <2>1, <2>2
<1>11. LatestShown'
  BY <1>1, <1>2, <1>6 DEF SongsTold, LatestShown
<1>12. ResetFinds'
  <2> SUFFICES ASSUME NEW t \in Slots, Step(t)' = "reset", ~Pending(t)'
               PROVE  avState' = "idle" /\ avSong' = NoSong /\ avEvents' = {}
    BY DEF ResetFinds
  <2>1. t = h /\ Step(h) = "reset"
    BY <1>2
  <2>2. QED
    BY <1>4, <2>1 DEF Resets
<1>13. HeardShown'
  <2> SUFFICES ASSUME ~overtaken', CanPlay' PROVE (Settled \/ Incoming \/ Resetting)'
    BY DEF HeardShown
  <2>1. Settled \/ Incoming \/ Resetting
    BY <1>1, <1>5 DEF SongsTold, HeardShown
  <2>2. Step(h) \notin Resets /\ avSong' = avSong
    BY <1>4 DEF CanPlay
  <2>3. Settled => Settled'
    BY <1>1, <1>6, <2>2 DEF Settled
  <2>4. Incoming => Incoming'
    BY <1>2 DEF Incoming
  <2>5. Resetting => Resetting'
    BY <1>2, <2>2 DEF Resetting, Resets
  <2>6. QED
    BY <2>1, <2>3, <2>4, <2>5
<1>14. QED
  BY <1>8, <1>9, <1>10, <1>11, <1>12, <1>13

-----------------------------------------------------------------------------
(* What is shown as playing. *)

LEMMA ContinuePlays ==
  ASSUME NEW s \in Slots, Continue(s)
  PROVE  avState' = avState /\ (status' = "PLAYING" => status = "PLAYING")
<1>1. CASE AfterPause(s)
  BY <1>1 DEF AfterPause, ShowLoading, av
<1>2. CASE Resolved(s) \/ AfterDelay(s) \/ AfterToggle(s) \/ AfterSeek(s)
  BY <1>2 DEF Resolved, AfterDelay, AfterToggle, AfterSeek, Expired, engine, av
<1>3. CASE Unresolved(s)
  BY <1>3 DEF Unresolved, GiveUp, ResetInBackground, engine, av
<1>4. CASE AfterReset(s) \/ PollInitialized(s) \/ InitializeTimeout(s)
  BY <1>4 DEF AfterReset, PollInitialized, InitializeTimeout, NotStarted, engine, av
<1>5. CASE AfterPrepare(s)
  BY <1>5 DEF AfterPrepare, Thrown, GiveUp, ResetInBackground, Expired, NotStarted, engine, av
<1>6. CASE AfterStart(s)
  BY <1>6 DEF AfterStart, Thrown, GiveUp, ResetInBackground, Expired, NotStarted, engine, av
<1>7. CASE AfterBackgroundReset(s)
  BY <1>7 DEF AfterBackgroundReset, av
<1>8. QED
  BY <1>1, <1>2, <1>3, <1>4, <1>5, <1>6, <1>7 DEF Continue

LEMMA PlayingStep ==
  ASSUME PlayingTold, [Next]_vars
  PROVE  PlayingTold'
<1>1. CASE UNCHANGED vars
  BY <1>1 DEF PlayingTold, vars, engine, av
<1>2. CASE \E s \in Slots : Continue(s)
  BY <1>2, ContinuePlays DEF PlayingTold
<1>3. CASE Timers \/ UserPlays \/ TogglePlay \/ SeekTo
  BY <1>3 DEF PlayingTold, Timers, LoadingTimeout, ErrorSkipTimeout, UserPlays, TogglePlay, SeekTo,
              NextInQueue, PlayNew, PlayAgain, ShowLoading, GiveUp, ResetInBackground, engine
<1>4. CASE AvSucceeds
  BY <1>4 DEF PlayingTold, AvSucceeds
<1>5. CASE AvRejects \/ AvInitialized \/ AvFails
  BY <1>5 DEF PlayingTold, AvRejects, AvInitialized, AvFails, engine
<1>6. CASE OnStateError \/ OnError
  BY <1>6 DEF PlayingTold, OnStateError, OnError, PlayAgain, ShowLoading
<1>7. CASE OnCompleted
  BY <1>7 DEF PlayingTold, OnCompleted
<1>8. QED
  BY <1>1, <1>2, <1>3, <1>4, <1>5, <1>6, <1>7 DEF Next, Device

-----------------------------------------------------------------------------
(* The inductive invariant. *)

LEMMA SongInit == MCInit => SongInv
<1> SUFFICES ASSUME MCInit PROVE SongInv
  OBVIOUS
<1>1. Init
  BY DEF MCInit
<1>2. IInv
  BY <1>1, InitInv
<1>3. \A s \in Slots : Step(s) = "none" /\ Pending(s) /\ ~Latest(s)
  BY <1>1 DEF Init, NoTask, Step, Pending, Latest
<1>4. (\A s \in Slots : ~Queued(s)) /\ (\A s, t \in Slots : ~Before(s, t))
  BY <1>1 DEF Init, Queued, Before
<1>5. InOrder
  BY <1>3, <1>4 DEF InOrder, CallsKnown, QueueKnown, OrderKnown, Harmless, Commanded
<1>6. avState = "idle" /\ status = "IDLE"
  BY <1>1 DEF Init
<1>7. \A s \in Slots : ~SeekOk(s) /\ ~PastPause(s)
  BY <1>3 DEF SeekOk, PastPause, Step
<1>8. SongsTold
  BY <1>3, <1>4, <1>6, <1>7 DEF SongsTold, KeysTold, PlayingTold, PreparedOnce, Hushed, LatestShown,
     ResetFinds, HeardShown, CanPlay, Reviving
<1>9. QED
  BY <1>2, <1>5, <1>8 DEF SongInv

LEMMA ActKeepsSongs ==
  ASSUME IInv, InOrder, SongsTold, Remembers, Act
  PROVE  KeysTold' /\ PreparedOnce' /\ Hushed' /\ LatestShown' /\ ResetFinds' /\ HeardShown'
<1>1. CASE Stays /\ Calm
  BY <1>1, StaysKeepsSongs
<1>2. ASSUME NEW s \in Slots, Quits(s)
      PROVE  KeysTold' /\ PreparedOnce' /\ Hushed' /\ LatestShown' /\ ResetFinds' /\ HeardShown'
  BY <1>2, QuitsKeepsSongs
<1>3. ASSUME NEW s \in Slots, NEW step \in Steps, Moves(s, step)
      PROVE  KeysTold' /\ PreparedOnce' /\ Hushed' /\ LatestShown' /\ ResetFinds' /\ HeardShown'
  BY <1>3, MovesKeepsSongs
<1>4. ASSUME NEW s \in Slots, NEW step \in {"pause", "resolve", "cancel"},
             NEW song \in Songs \cup {NoSong}, NEW fresh \in BOOLEAN,
             Begins(s, step, song, fresh), Calm
      PROVE  KeysTold' /\ PreparedOnce' /\ Hushed' /\ LatestShown' /\ ResetFinds' /\ HeardShown'
  BY <1>4, BeginsKeepsSongs
<1>5. ASSUME NEW s \in Slots, NEW step \in {"togglePause", "togglePlay", "seek", "seekOnly"},
             Adds(s, step)
      PROVE  KeysTold' /\ PreparedOnce' /\ Hushed' /\ LatestShown' /\ ResetFinds' /\ HeardShown'
  BY <1>5, AddsKeepsSongs
<1>6. CASE Drops
  BY <1>6, DropsKeepsSongs
<1>7. ASSUME NEW r \in {"ok", "fail"}, Answers(r)
      PROVE  KeysTold' /\ PreparedOnce' /\ Hushed' /\ LatestShown' /\ ResetFinds' /\ HeardShown'
  BY <1>7, AnswerKeepsSongs
<1>8. QED
  BY <1>1, <1>2, <1>3, <1>4, <1>5, <1>6, <1>7 DEF Act, Shape

LEMMA SongNext == SongInv /\ [MCNext]_mcVars => SongInv'
<1> SUFFICES ASSUME SongInv, [MCNext]_mcVars PROVE SongInv'
  OBVIOUS
<1>1. IInv /\ InOrder /\ SongsTold /\ TypeOK
  BY DEF SongInv, IInv
<1>2. [Next]_vars
  BY DEF MCNext, mcVars
<1>3. Act
  BY <1>1, <1>2, NextActs
<1>4. Remembers
  BY <1>1, HistoryTells
<1>5. IInv'
  BY <1>1, <1>2, NextInv
<1>6. InOrder'
  BY <1>1, <1>3, ActKeepsOrder
<1>7. PlayingTold'
  BY <1>1, <1>2, PlayingStep DEF SongsTold
<1>8. KeysTold' /\ PreparedOnce' /\ Hushed' /\ LatestShown' /\ ResetFinds' /\ HeardShown'
  BY <1>1, <1>3, <1>4, ActKeepsSongs
<1>9. QED
  BY <1>5, <1>6, <1>7, <1>8 DEF SongInv, SongsTold

LEMMA SongsInductive == MCSpec => []SongInv
BY SongInit, SongNext, PTL DEF MCSpec

-----------------------------------------------------------------------------
(* What the status says of the sound. *)

\* A reset that nobody waits for; when it has been answered the status becomes IDLE.
Ends(s) == Step(s) \in {"cancel", "background"}
Ending == \E s \in Slots : Ends(s) /\ Pending(s)

\* A song that plays is shown as playing, or a reset or a failure is about to end it, or
\* the history tells who has written over the status.
Sounding ==
  avState = "playing" =>
    status = "PLAYING" \/ Ending \/ Failed \/ (misstated /\ status \in {"IDLE", "ERROR"})

\* Nothing has played since a reset was answered.
EndedIsSilent == \A s \in Slots : Ends(s) /\ ~Pending(s) => avState # "playing"

\* An error that is shown will be left, or has failed the AVPlayer unheard.
Erring ==
  status = "ERROR" => errorSkip \/ Pausing \/ avEvents # {} \/ (avState = "error" /\ unheard)

StatusTold == Sounding /\ EndedIsSilent /\ Erring

\* What most steps do to the calls: no reset is lost, and none is answered.
KeepsResets ==
  \A t \in Slots : /\ Ends(t) /\ Pending(t) => Ends(t)' /\ Pending(t)'
                   /\ Ends(t)' /\ ~Pending(t)' => Ends(t) /\ ~Pending(t)
KeepsPause == Pausing => Pausing'

LEMMA SameCalls ==
  ASSUME tasks' = tasks
  PROVE  KeepsResets /\ KeepsPause
BY DEF KeepsResets, KeepsPause, Ends, Pending, Step, Pausing

LEMMA QuitResets ==
  ASSUME TypeOK, NEW s \in Slots, Finish(s), ~Ends(s)
  PROVE  KeepsResets /\ (Step(s) # "pause" => KeepsPause)
<1>1. Step(s)' = "none" /\ \A t \in Slots \ {s} : Same(t)
  BY QuitEffect DEF Placed
<1>2. KeepsResets
  BY <1>1 DEF KeepsResets, Ends, Pending, Step, Same
<1>3. Step(s) # "pause" => KeepsPause
  BY <1>1 DEF KeepsPause, Pausing, Step, Same
<1>4. QED
  BY <1>2, <1>3

LEMMA MoveResets ==
  ASSUME TypeOK, NEW s \in Slots, NEW step \in Steps, Goto(s, step), ~Ends(s)
  PROVE  KeepsResets /\ (Step(s) # "pause" => KeepsPause)
<1>1. Step(s)' = step /\ Pending(s)' /\ \A t \in Slots \ {s} : Same(t)
  BY MoveEffect DEF Placed, Pending
<1>2. KeepsResets
  BY <1>1 DEF KeepsResets, Ends, Pending, Step, Same
<1>3. Step(s) # "pause" => KeepsPause
  BY <1>1 DEF KeepsPause, Pausing, Step, Same
<1>4. QED
  BY <1>2, <1>3

LEMMA BeginResets ==
  ASSUME TypeOK, NEW s \in Slots, Free(s), NEW step \in PlaySteps \cup OtherSteps,
         NEW song \in Songs \cup {NoSong}, NEW fresh \in BOOLEAN,
         tasks' = [Superseded EXCEPT ![s] = At(step, song, fresh)]
  PROVE  /\ KeepsResets
         /\ step = "pause" => Pausing'
         /\ step \in {"cancel", "background"} => Ending'
<1>1. /\ Step(s)' = step /\ Pending(s)'
      /\ \A t \in Slots \ {s} : Stale(t) /\ ~Latest(t)'
  BY BeginEffect DEF Placed, Pending
<1>2. ASSUME NEW t \in Slots \ {s}
      PROVE  /\ Ends(t) /\ Pending(t) => Ends(t)' /\ Pending(t)'
             /\ Ends(t)' /\ ~Pending(t)' => Ends(t) /\ ~Pending(t)
  BY <1>1, StaleAs DEF Ends, Harmless
<1>3. KeepsResets
  BY <1>1, <1>2 DEF KeepsResets, Ends, Free, Step
<1>4. QED
  BY <1>1, <1>3 DEF Pausing, Ending, Ends, Step

LEMMA DropResets ==
  ASSUME TypeOK, tasks' = Superseded
  PROVE  KeepsResets
BY DropEffect, StaleAs DEF KeepsResets, Ends, Harmless

LEMMA AddResets ==
  ASSUME TypeOK, NEW s \in Slots, Free(s), NEW step,
         tasks' = [tasks EXCEPT ![s] = At(step, NoSong, FALSE)]
  PROVE  KeepsResets /\ KeepsPause
<1>1. Pending(s)' /\ Step(s) = "none" /\ \A t \in Slots \ {s} : Same(t)
  BY AddEffect DEF Placed, Pending, Free, Step
<1>2. KeepsResets
  BY <1>1 DEF KeepsResets, Ends, Pending, Step, Same
<1>3. KeepsPause
  BY <1>1 DEF KeepsPause, Pausing, Step, Same
<1>4. QED
  BY <1>2, <1>3

\* The histories while nothing new is told.
LEMMA HistoryKept ==
  ASSUME MCNext
  PROVE  /\ misstated /\ status' = status /\ avState' = "playing" => misstated'
         /\ unheard /\ status' = "ERROR" /\ avEvents' = avEvents => unheard'
<1>1. misstated /\ status' = status /\ avState' = "playing" => misstated'
  BY DEF MCNext
<1>2. avEvents' = avEvents => ~OnStateError /\ ~OnError
  BY DEF OnStateError, OnError
<1>3. QED
  BY <1>1, <1>2 DEF MCNext

\* Steps that change nothing of what is told.
LEMMA StatusKept ==
  ASSUME StatusTold, MCNext, KeepsResets, KeepsPause,
         UNCHANGED <<status, errorSkip, avState, avEvents>>
  PROVE  StatusTold'
<1>1. Ending => Ending'
  BY DEF KeepsResets, Ending
<1>2. Failed' <=> Failed
  BY DEF Failed
<1>3. Sounding'
  BY <1>1, <1>2, HistoryKept DEF StatusTold, Sounding
<1>4. EndedIsSilent'
  BY DEF KeepsResets, StatusTold, EndedIsSilent
<1>5. Erring'
  BY HistoryKept DEF KeepsPause, StatusTold, Erring
<1>6. QED
  BY <1>3, <1>4, <1>5 DEF StatusTold

LEMMA SilentKept ==
  ASSUME StatusTold, KeepsResets, avState' = "playing" => avState = "playing"
  PROVE  EndedIsSilent'
BY DEF KeepsResets, StatusTold, EndedIsSilent

\* While a song is loading the old one does not play: part of Told.
LEMMA LoadingTold ==
  ASSUME StatusTold, IInv', KeepsResets, status' \in Loading,
         avState' = "playing" => avState = "playing"
  PROVE  StatusTold'
<1>1. Sounding'
  BY DEF IInv, Told, Sounding
<1>2. Erring'
  BY DEF Erring, Loading
<1>3. QED
  BY <1>1, <1>2, SilentKept DEF StatusTold

LEMMA PlayNewTold ==
  ASSUME TypeOK, StatusTold, MCNext, NEW song \in Songs, PlayNew(song),
         avState' \in {avState, "completed"}, avEvents' = avEvents
  PROVE  StatusTold'
<1>1. PICK s \in Slots : Free(s) /\ tasks' = [Superseded EXCEPT ![s] = At("pause", song, TRUE)]
  BY DEF PlayNew
<1>2. KeepsResets /\ Pausing'
  BY <1>1, BeginResets DEF PlaySteps
<1>3. status' = status
  BY DEF PlayNew
<1>4. (Ending => Ending') /\ (Failed /\ avState' = avState => Failed')
  BY <1>2 DEF KeepsResets, Ending, Failed
<1>5. Sounding'
  BY <1>3, <1>4, HistoryKept DEF StatusTold, Sounding
<1>6. Erring'
  BY <1>2 DEF Erring
<1>7. QED
  BY <1>2, <1>5, <1>6, SilentKept DEF StatusTold

LEMMA PlayAgainTold ==
  ASSUME TypeOK, StatusTold, IInv', PlayAgain, avState' \in {avState, "error"}
  PROVE  StatusTold'
<1>1. PICK s \in Slots :
        Free(s) /\ tasks' = [Superseded EXCEPT ![s] = At("resolve", currentSong, TRUE)]
  BY DEF PlayAgain
<1>2. KeepsResets
  BY <1>1, BeginResets DEF PlaySteps, TypeOK
<1>3. status' \in Loading
  BY DEF PlayAgain, ShowLoading, Loading
<1>4. QED
  BY <1>2, <1>3, LoadingTold

\* next: a song that goes on at the end of the queue does so under IDLE, and that is
\* what the history remembers.
LEMMA NextInQueueTold ==
  ASSUME TypeOK, StatusTold, MCNext, NEW skip, NextInQueue(skip), avEvents' = avEvents,
         avState' = "completed" \/ (avState' = avState /\ (UserPlays \/ ErrorSkipTimeout))
  PROVE  StatusTold'
<1>1. CASE \E song \in Songs : PlayNew(song)
  BY <1>1, PlayNewTold
<1>2. CASE ~\E song \in Songs : PlayNew(song)
  <2>1. status' = "IDLE" /\ tasks' = tasks
    BY <1>2 DEF NextInQueue
  <2>2. avState' = "playing" => QueueEnds
    BY <2>1 DEF QueueEnds
  <2>3. Sounding'
    BY <2>1, <2>2 DEF MCNext, Sounding
  <2>4. Erring'
    BY <2>1 DEF Erring
  <2>5. QED
    BY <2>1, <2>3, <2>4, SameCalls, SilentKept DEF StatusTold
<1>3. QED
  BY <1>1, <1>2

\* A failed play call resets the AVPlayer.
LEMMA GiveUpTold ==
  ASSUME TypeOK, StatusTold, NEW s \in Slots, ~Ends(s), GiveUp(s), UNCHANGED <<avState, avEvents>>
  PROVE  StatusTold'
<1>1. Erring'
  BY DEF GiveUp, Erring
<1>2. CASE avState = "idle"
  <2>1. Finish(s)
    BY <1>2 DEF GiveUp, ResetInBackground
  <2>2. QED
    BY <1>1, <1>2, <2>1, QuitResets, SilentKept DEF StatusTold, Sounding
<1>3. CASE avState # "idle"
  <2>1. Goto(s, "background")
    BY <1>3 DEF GiveUp, ResetInBackground, Await
  <2>2. "background" \in Steps
    BY DEF Steps, OtherSteps
  <2>3. KeepsResets /\ Ending'
    BY <2>1, <2>2, MoveResets, MoveEffect DEF Ending, Ends, Placed, Pending, Step
  <2>4. QED
    BY <1>1, <2>3, SilentKept DEF StatusTold, Sounding
<1>4. QED
  BY <1>2, <1>3

\* A play call that took its song for not started shows ERROR, whatever plays.
LEMMA NotStartedTold ==
  ASSUME TypeOK, StatusTold, MCNext, NEW s \in Slots, ~Ends(s), StartFails(s)
  PROVE  StatusTold'
<1>1. Finish(s) /\ status' = "ERROR" /\ errorSkip' = TRUE /\ avState' = avState
  BY DEF StartFails, NotStarted, av
<1>2. avState' = "playing" => misstated'
  BY DEF MCNext
<1>3. Sounding' /\ Erring'
  BY <1>1, <1>2 DEF Sounding, Erring
<1>4. QED
  BY <1>1, <1>3, QuitResets, SilentKept DEF StatusTold

\* Steps of a call that change nothing of what is told.
LEMMA CallTold ==
  ASSUME TypeOK, StatusTold, MCNext, NEW s \in Slots, ~Ends(s), Step(s) # "pause",
         Finish(s) \/ \E step \in Steps : Goto(s, step),
         UNCHANGED <<status, errorSkip, avState, avEvents>>
  PROVE  StatusTold'
BY QuitResets, MoveResets, StatusKept

LEMMA ExpiredTold ==
  ASSUME TypeOK, StatusTold, MCNext, NEW s \in Slots, ~Ends(s), Step(s) # "pause", Expired(s)
  PROVE  StatusTold'
BY CallTold DEF Expired, engine, av

LEMMA ThrownTold ==
  ASSUME TypeOK, StatusTold, MCNext, NEW s \in Slots, ~Ends(s), Step(s) # "pause", Thrown(s)
  PROVE  StatusTold'
BY GiveUpTold, ExpiredTold DEF Thrown

LEMMA ContinueTold ==
  ASSUME TypeOK, StatusTold, MCNext, IInv', NEW s \in Slots, Continue(s)
  PROVE  StatusTold'
<1>0. PlaySteps \subseteq Steps /\ "seekPlay" \in Steps
  BY DEF Steps, OtherSteps
<1>1. CASE AfterPause(s)
  <2>1. ~Ends(s) /\ status' \in Loading /\ avState' = avState
    BY <1>1 DEF AfterPause, Answered, Ends, Step, ShowLoading, Loading, av
  <2>2. Finish(s) \/ Goto(s, "resolve")
    BY <1>1 DEF AfterPause
  <2>3. KeepsResets
    BY <1>0, <2>1, <2>2, QuitResets, MoveResets DEF PlaySteps
  <2>4. QED
    BY <2>1, <2>3, LoadingTold
<1>2. CASE Resolved(s)
  <2>1. ~Ends(s) /\ Step(s) # "pause" /\ UNCHANGED <<status, errorSkip, avState, avEvents>>
    BY <1>2 DEF Resolved, Ends, Step, engine
  <2>2. \E step \in Steps : Goto(s, step)
    BY <1>0, <1>2 DEF Resolved, Await, PlaySteps
  <2>3. QED
    BY <2>1, <2>2, CallTold
<1>3. CASE Unresolved(s)
  <2>1. ~Ends(s) /\ Step(s) # "pause"
    BY <1>3 DEF Unresolved, Ends, Step
  <2>2. CASE Goto(s, "delay") /\ UNCHANGED <<engine, av>>
    BY <1>0, <2>1, <2>2, CallTold DEF PlaySteps, engine, av
  <2>3. CASE GiveUp(s) /\ UNCHANGED <<avState, avSong, avEvents>>
    BY <2>1, <2>3, GiveUpTold
  <2>4. QED
    BY <1>3, <2>2, <2>3 DEF Unresolved
<1>4. CASE AfterDelay(s)
  BY <1>0, <1>4, CallTold DEF AfterDelay, Ends, Step, PlaySteps, engine, av
<1>5. CASE AfterReset(s)
  <2>1. ~Ends(s) /\ Step(s) = "reset"
    BY <1>5 DEF AfterReset, Answered, Ends, Step
  <2>2. CASE NotStarted(s)
    BY <2>1, <2>2, NotStartedTold DEF StartFails, Step
  <2>3. CASE Goto(s, "init") /\ UNCHANGED <<engine, avState, avQueue, avEvents>>
    BY <1>0, <2>1, <2>3, CallTold DEF PlaySteps, engine
  <2>4. QED
    BY <1>5, <2>2, <2>3 DEF AfterReset
<1>6. CASE PollInitialized(s) \/ InitializeTimeout(s)
  <2>1. ~Ends(s) /\ Step(s) = "init"
    BY <1>6 DEF PollInitialized, InitializeTimeout, Ends, Step
  <2>2. CASE NotStarted(s)
    BY <2>1, <2>2, NotStartedTold DEF StartFails, Step
  <2>3. CASE status' = "BUFFERING" /\ Goto(s, "prepare") /\ avState' = avState
    <3>1. KeepsResets
      BY <1>0, <2>1, <2>3, MoveResets DEF PlaySteps
    <3>2. QED
      BY <2>3, <3>1, LoadingTold DEF Loading
  <2>4. QED
    BY <1>6, <2>2, <2>3 DEF PollInitialized, InitializeTimeout, Await
<1>7. CASE AfterPrepare(s)
  <2>1. ~Ends(s) /\ Step(s) = "prepare" /\ tasks[s].result \in {"ok", "fail"}
    BY <1>7, CallTyped DEF AfterPrepare, Answered, Ends, Step
  <2>2. CASE Thrown(s)
    BY <2>1, <2>2, ThrownTold
  <2>3. CASE tasks[s].result = "ok" /\ NotStarted(s)
    BY <2>1, <2>3, NotStartedTold DEF StartFails, Step
  <2>4. CASE Goto(s, "start") /\ UNCHANGED <<engine, avState, avSong, avEvents>>
    BY <1>0, <2>1, <2>4, CallTold DEF PlaySteps, engine
  <2>5. QED
    BY <1>7, <2>1, <2>2, <2>3, <2>4 DEF AfterPrepare, Await
<1>8. CASE AfterStart(s)
  <2>1. ~Ends(s) /\ Step(s) = "start" /\ tasks[s].result \in {"ok", "fail"}
    BY <1>8, CallTyped DEF AfterStart, Answered, Ends, Step
  <2>2. CASE Thrown(s)
    BY <2>1, <2>2, ThrownTold
  <2>3. CASE tasks[s].result = "ok" /\ NotStarted(s)
    BY <2>1, <2>3, NotStartedTold DEF StartFails, Step
  <2>4. CASE Finish(s) /\ UNCHANGED <<status, currentSong, retryNum, errorSkip, av>>
    BY <2>1, <2>4, CallTold DEF av
  <2>5. QED
    BY <1>8, <2>1, <2>2, <2>3, <2>4 DEF AfterStart
<1>9. CASE AfterToggle(s)
  BY <1>9, ExpiredTold DEF AfterToggle, Answered, Ends, Step
<1>10. CASE AfterBackgroundReset(s)
  <2>1. Ends(s) /\ ~Pending(s) /\ status' = "IDLE" /\ avState' = avState
    BY <1>10 DEF AfterBackgroundReset, Answered, Ends, Pending, Step, av
  <2>2. avState' # "playing"
    BY <2>1 DEF StatusTold, EndedIsSilent
  <2>3. QED
    BY <2>1, <2>2 DEF StatusTold, Sounding, EndedIsSilent, Erring
<1>11. CASE AfterSeek(s)
  <2>1. ~Ends(s) /\ Step(s) # "pause"
    BY <1>11 DEF AfterSeek, Answered, Ends, Step
  <2>2. CASE Expired(s)
    BY <2>1, <2>2, ExpiredTold
  <2>3. CASE Goto(s, "seekPlay") /\ UNCHANGED <<engine, avState, avSong, avEvents>>
    BY <1>0, <2>1, <2>3, CallTold DEF engine
  <2>4. QED
    BY <1>11, <2>2, <2>3 DEF AfterSeek, Await
<1>12. QED
  BY <1>1, <1>2, <1>3, <1>4, <1>5, <1>6, <1>7, <1>8, <1>9, <1>10, <1>11 DEF Continue

\* The command at the head of the queue is answered.
LEMMA AnswerTold ==
  ASSUME IInv, InOrder, StatusTold, MCNext, AvSucceeds \/ AvRejects
  PROVE  StatusTold'
<1> TypeOK
  BY DEF IInv
<1> PICK r \in {"ok", "fail"} : Due /\ Answer(r)
  BY DEF AvSucceeds, AvRejects
<1> PICK h \in Slots : h = Head(avQueue)
  BY HeadIsCall DEF Due
<1>1. /\ Step(h)' = Step(h) /\ ~Pending(h)'
      /\ \A t \in Slots : Pending(t)
      /\ \A t \in Slots \ {h} : Same(t)
  BY AnsweredEffect DEF Due, Pending
<1>2. KeepsPause
  BY <1>1 DEF KeepsPause, Pausing, Step, Same
<1>3. ~Ends(h) => KeepsResets
  BY <1>1 DEF KeepsResets, Ends, Pending, Step, Same
<1>4. Command1 = Command[Step(h)]
  BY DEF Command1, Step
<1>5. CASE AvRejects
  <2>1. Command1 # "reset" /\ UNCHANGED <<status, errorSkip, avState, avEvents>>
    BY <1>5 DEF AvRejects, engine
  <2>2. ~Ends(h)
    BY <1>4, <2>1 DEF Ends, Command
  <2>3. QED
    BY <1>2, <1>3, <2>1, <2>2, StatusKept
<1>6. CASE AvSucceeds
  <2>1. avEvents = {} /\ avEvents' = {} /\ errorSkip' = errorSkip
    BY <1>6 DEF AvSucceeds
  <2>2. CASE Command1 = "reset"
    <3>1. avState' = "idle" /\ (status' = "ERROR" => avState = "idle" /\ status' = status)
      BY <1>6, <2>2 DEF AvSucceeds
    <3>2. Erring'
      BY <1>2, <2>1, <3>1 DEF StatusTold, Erring, KeepsPause
    <3>3. QED
      BY <3>1, <3>2 DEF StatusTold, Sounding, EndedIsSilent
  <2>3. CASE Command1 # "reset"
    <3>1. KeepsResets
      BY <1>3, <1>4, <2>3 DEF Ends, Command
    <3>2. CASE UNCHANGED <<status, avState>>
      BY <1>2, <2>1, <3>1, <3>2, StatusKept
    <3>3. CASE \/ status' = "PLAYING" /\ avState' = "playing"
               \/ status' = "PAUSED" /\ avState' = "paused"
      <4>1. Sounding'
        BY <3>3 DEF Sounding
      <4>2. Erring'
        BY <3>3 DEF Erring
      <4>3. EndedIsSilent'
        BY <1>1, <3>1 DEF KeepsResets, EndedIsSilent
      <4>4. QED
        BY <4>1, <4>2, <4>3 DEF StatusTold
    <3>4. CASE avState = "initialized" /\ avState' = "prepared" /\ status' = status
      <4>1. Sounding'
        BY <3>4 DEF Sounding
      <4>2. Erring'
        BY <1>2, <2>1, <3>4 DEF StatusTold, Erring, KeepsPause
      <4>3. EndedIsSilent'
        BY <3>4 DEF EndedIsSilent
      <4>4. QED
        BY <4>1, <4>2, <4>3 DEF StatusTold
    <3>5. QED
      BY <1>6, <2>3, <3>2, <3>3, <3>4 DEF AvSucceeds
  <2>4. QED
    BY <2>2, <2>3
<1>7. QED
  BY <1>5, <1>6

\* The AVPlayer accepts a URL, fails, or is done.
LEMMA PlayerTold ==
  ASSUME TypeOK, StatusTold, MCNext, AvInitialized \/ AvFails \/ OnCompleted
  PROVE  StatusTold'
<1>1. CASE AvInitialized
  <2>1. avState = "idle" /\ avState' = "initialized" /\ tasks' = tasks
        /\ UNCHANGED <<status, errorSkip, avEvents>>
    BY <1>1 DEF AvInitialized, engine
  <2>2. Erring'
    BY <2>1, SameCalls DEF StatusTold, Erring, KeepsPause
  <2>3. QED
    BY <2>1, <2>2 DEF StatusTold, Sounding, EndedIsSilent
<1>2. CASE AvFails
  <2>1. avEvents' = {"stateChange", "error"} /\ avState' = avState /\ tasks' = tasks
    BY <1>2 DEF AvFails
  <2>2. QED
    BY <2>1, SameCalls, SilentKept DEF StatusTold, Sounding, Erring, Failed
<1>3. CASE OnCompleted
  BY <1>3, NextInQueueTold DEF OnCompleted
<1>4. QED
  BY <1>1, <1>2, <1>3

\* The two handlers of a failure.
LEMMA ErrorTold ==
  ASSUME IInv, StatusTold, MCNext, IInv', OnStateError \/ OnError
  PROVE  StatusTold'
<1> TypeOK
  BY DEF IInv
<1>1. CASE PlayAgain
  BY <1>1, PlayAgainTold DEF OnStateError, OnError
<1>2. CASE ~PlayAgain
  <2>1. tasks' = tasks /\ status' = "ERROR"
    BY <1>2 DEF OnStateError, OnError
  <2>2. errorSkip' \/ unheard'
    <3>1. errorSkip' \/ status \in {"PAUSED", "IDLE"}
      BY <1>2 DEF OnStateError, OnError
    <3>2. QED
      BY <2>1, <3>1 DEF MCNext
  <2>3. CASE OnStateError
    <3>1. avState' = "error"
      BY <2>3 DEF OnStateError
    <3>2. QED
      BY <2>2, <3>1 DEF StatusTold, Sounding, EndedIsSilent, Erring
  <2>4. CASE OnError
    <3>1. avState' = avState /\ (avState = "error" \/ "stateChange" \in avEvents')
      BY <2>4 DEF OnError, IInv, Told, Failed
    <3>2. Sounding'
      BY <3>1 DEF Sounding, Failed
    <3>3. Erring'
      BY <2>2, <3>1 DEF Erring
    <3>4. QED
      BY <2>1, <3>1, <3>2, <3>3, SameCalls, SilentKept DEF StatusTold
  <2>5. QED
    BY <2>3, <2>4
<1>3. QED
  BY <1>1, <1>2

LEMMA LoadingTimeoutTold ==
  ASSUME TypeOK, StatusTold, MCNext, IInv', LoadingTimeout
  PROVE  StatusTold'
<1>1. UNCHANGED <<avState, avEvents>>
  BY DEF LoadingTimeout
<1>2. CASE UNCHANGED <<status, currentSong, retryNum, errorSkip, tasks, avQueue>>
  BY <1>1, <1>2, SameCalls, StatusKept
<1>3. CASE PlayAgain
  BY <1>1, <1>3, PlayAgainTold
<1>4. ASSUME NEW s \in Slots, Free(s), GiveUp(s) PROVE StatusTold'
  BY <1>1, <1>4, GiveUpTold DEF Free, Ends, Step
<1>5. QED
  BY <1>2, <1>3, <1>4 DEF LoadingTimeout

LEMMA KeysTell ==
  ASSUME IInv, StatusTold, MCNext, IInv', TogglePlay \/ SeekTo
  PROVE  StatusTold'
<1> TypeOK
  BY DEF IInv
<1>0. UNCHANGED <<avState, avEvents>>
  BY DEF TogglePlay, SeekTo
<1>1. ASSUME NEW s \in Slots, Free(s), NEW step,
             tasks' = [tasks EXCEPT ![s] = At(step, NoSong, FALSE)], UNCHANGED engine
      PROVE  StatusTold'
  BY <1>0, <1>1, AddResets, StatusKept DEF engine
<1>2. CASE SeekTo
  BY <1>1, <1>2 DEF SeekTo
<1>3. CASE TogglePlay
  <2>1. CASE status \in {"PLAYING", "PAUSED"}
    BY <1>1, <1>3, <2>1 DEF TogglePlay, Loading
  <2>2. CASE status \in Loading
    <3>1. CASE avState = "idle"
      <4>1. status' = "IDLE" /\ avState' = "idle"
        BY <1>0, <1>3, <2>2, <3>1 DEF TogglePlay, Loading
      <4>2. QED
        BY <4>1 DEF StatusTold, Sounding, EndedIsSilent, Erring
    <3>2. CASE avState # "idle"
      <4>1. status' = status
        BY <1>3, <2>2, <3>2 DEF TogglePlay, Loading
      <4>2. PICK s \in Slots :
              Free(s) /\ tasks' = [Superseded EXCEPT ![s] = At("cancel", NoSong, FALSE)]
        BY <1>3, <2>2, <3>2 DEF TogglePlay, Loading
      <4>3. KeepsResets
        BY <4>2, BeginResets DEF OtherSteps
      <4>4. QED
        BY <1>0, <2>2, <4>1, <4>3, LoadingTold
    <3>3. QED
      BY <3>1, <3>2
  <2>3. CASE currentSong # NoSong /\ PlayNew(currentSong)
    <3>1. currentSong \in Songs
      BY <2>3 DEF TypeOK
    <3>2. QED
      BY <1>0, <2>3, <3>1, PlayNewTold
  <2>4. QED
    BY <1>3, <2>1, <2>2, <2>3 DEF TogglePlay
<1>4. QED
  BY <1>2, <1>3

LEMMA StatusStep == SongInv /\ SongInv' /\ StatusTold /\ [MCNext]_mcVars => StatusTold'
<1> SUFFICES ASSUME SongInv, SongInv', StatusTold, [MCNext]_mcVars PROVE StatusTold'
  OBVIOUS
<1>1. IInv /\ InOrder /\ TypeOK /\ IInv'
  BY DEF SongInv, IInv
<1>2. CASE UNCHANGED mcVars
  BY <1>2 DEF mcVars, vars, engine, av, StatusTold, Sounding, EndedIsSilent, Erring, Ending, Ends,
              Step, Pending, Failed, Pausing
<1>3. CASE MCNext
  <2>1. CASE \E s \in Slots : Continue(s)
    BY <1>1, <1>3, <2>1, ContinueTold
  <2>2. CASE LoadingTimeout
    BY <1>1, <1>3, <2>2, LoadingTimeoutTold
  <2>3. CASE ErrorSkipTimeout \/ UserPlays
    BY <1>1, <1>3, <2>3, NextInQueueTold DEF ErrorSkipTimeout, UserPlays
  <2>4. CASE AvSucceeds \/ AvRejects
    BY <1>1, <1>3, <2>4, AnswerTold
  <2>5. CASE AvInitialized \/ AvFails \/ OnCompleted
    BY <1>1, <1>3, <2>5, PlayerTold
  <2>6. CASE OnStateError \/ OnError
    BY <1>1, <1>3, <2>6, ErrorTold
  <2>7. CASE TogglePlay \/ SeekTo
    BY <1>1, <1>3, <2>7, KeysTell
  <2>8. QED
    BY <1>3, <2>1, <2>2, <2>3, <2>4, <2>5, <2>6, <2>7 DEF MCNext, Next, Timers, Device
<1>4. QED
  BY <1>2, <1>3

LEMMA StatusInductive == MCSpec => []StatusTold
<1>1. MCInit => StatusTold
  BY DEF MCInit, Init, StatusTold, Sounding, EndedIsSilent, Erring
<1>2. QED
  BY <1>1, StatusStep, SongsInductive, PTL DEF MCSpec

-----------------------------------------------------------------------------
(* The theorems. *)

\* However calls of play, keys and timers overlap, the AVPlayer is given each command once
\* and has one answer consumed at a time; no pause is queued behind a command of the latest
\* play call, and no play() of a call behind a pause() or a prepare() yet to be executed:
\* startResolvedPlayback goes on to play() only as the latest call and when its own
\* prepare() has been answered.
THEOREM CommandsInOrder == MCSpec => []InOrder
<1>1. SongInv => InOrder
  BY DEF SongInv
<1>2. QED
  BY <1>1, SongsInductive, PTL

\* PlayerEngine.ets:351: while the URL of a new song is resolved the old song does not go on
\* sounding, whatever errors, timers and answers of earlier calls come in.  The pause has
\* been answered, and no start() that could follow it is queued.
THEOREM OldSongCorrect == MCSpec => []OldSongIsSilent
<1>1. SongInv => OldSongIsSilent
  <2> SUFFICES ASSUME SongInv, retryNum = 0, ~revived, NEW s \in Fresh, Step(s) \in Harmless
               PROVE  avState # "playing" \/ avEvents # {}
    BY DEF OldSongIsSilent, Step
  <2>1. s \in Slots /\ Latest(s)
    BY DEF Fresh, Latest
  <2>2. PastPause(s)
    BY <2>1 DEF PastPause
  <2>3. avState # "playing" \/ Failed
    BY <2>1, <2>2 DEF SongInv, SongsTold, Hushed
  <2>4. QED
    BY <2>3 DEF Failed
<1>2. QED
  BY <1>1, SongsInductive, PTL

\* Once nothing is in flight the song shown as playing or paused is the one whose URL the
\* AVPlayer holds, unless a retry has overtaken the song that was asked for last.
THEOREM ShownSongCorrect == MCSpec => []ShowsWhatPlays
<1>1. SongInv => ShowsWhatPlays
  <2> SUFFICES ASSUME SongInv, Quiescent, status \in {"PLAYING", "PAUSED"}, ~overtaken
               PROVE  avSong = currentSong
    BY DEF ShowsWhatPlays
  <2>1. CanPlay
    BY DEF SongInv, SongsTold, PlayingTold, IInv, Told, CanPlay
  <2>2. \A s \in Slots : Step(s) = "none"
    BY DEF Quiescent, Free, Step
  <2>3. ~Incoming /\ ~Resetting
    BY <2>2 DEF Incoming, Coming, Harmless, Resetting
  <2>4. QED
    BY <2>1, <2>3 DEF SongInv, SongsTold, HeardShown, Settled
<1>2. QED
  BY <1>1, SongsInductive, PTL

\* Once nothing is in flight the status agrees with the AVPlayer, however calls, errors and
\* timers have crossed.  Only a song that plays on after `next` has come to the end of the
\* queue (line 615), or after a play call has taken its own song for not started (line 457),
\* is shown as IDLE or ERROR.
THEOREM HonestCorrect == MCSpec => []StatusIsHonest
<1>1. SongInv /\ StatusTold => StatusIsHonest
  <2> SUFFICES ASSUME SongInv, StatusTold, Quiescent
               PROVE  /\ status = "PLAYING" => avState = "playing"
                      /\ status = "PAUSED" => avState = "paused"
                      /\ avState = "playing" =>
                           status = "PLAYING" \/ (misstated /\ status \in {"IDLE", "ERROR"})
    BY DEF StatusIsHonest
  <2>1. IInv /\ ~Pausing /\ (Failed => avState = "error")
    BY QuiescentTells DEF SongInv
  <2>2. ~Ending
    BY DEF Quiescent, Free, Ending, Ends, Step
  <2>3. QED
    BY <2>1, <2>2 DEF IInv, Told, StatusTold, Sounding
<1>2. QED
  BY <1>1, SongsInductive, StatusInductive, PTL

\* An error that is shown when nothing is in flight is followed by the next song: the skip is
\* scheduled, or the AVPlayer has failed and the last handler of its failure found the
\* engine paused or idle.
THEOREM ErrorsCorrect == MCSpec => []ErrorsMoveOn
<1>1. SongInv /\ StatusTold => ErrorsMoveOn
  <2> SUFFICES ASSUME SongInv, StatusTold, Quiescent, status = "ERROR"
               PROVE  errorSkip \/ (avState = "error" /\ unheard)
    BY DEF ErrorsMoveOn
  <2>1. ~Pausing /\ avEvents = {}
    BY QuiescentTells DEF SongInv, Quiescent
  <2>2. QED
    BY <2>1 DEF StatusTold, Erring
<1>2. QED
  BY <1>1, SongsInductive, StatusInductive, PTL
=============================================================================
