---------------------------- MODULE PlayerEngine ----------------------------
(***************************************************************************)
(* The playback engine of hsp-player/src/main/ets/engine/PlayerEngine.ets, *)
(* with the equalizer off (every song goes through the system AVPlayer).   *)
(*                                                                         *)
(* The engine runs on one event loop.  play, togglePlay, seekTo and        *)
(* resetAvPlayer are asynchronous: each call in flight is a task that is   *)
(* parked at an await, and everything else may run before it continues.  A *)
(* play call remembers the value of playGeneration it started with and     *)
(* compares it with the current one after (most) awaits; only that         *)
(* comparison matters, so a task carries the flag `fresh`, which every     *)
(* increment of playGeneration clears in all earlier tasks.                *)
(*                                                                         *)
(* The AVPlayer is external.  It executes the commands it is given in      *)
(* order, and what it posts to the event loop arrives in order too: the    *)
(* stateChange callback of a command, then the answer of its promise, then *)
(* those of the next command.  When it fails it raises both a stateChange  *)
(* to 'error' and an 'error' event.  avState is what the engine has been   *)
(* told (currentAvState).                                                  *)
(***************************************************************************)
EXTENDS Naturals, Sequences

CONSTANTS Songs,   \* the songs the queue can hand to play()
          NoSong,  \* null
          Slots    \* bound on the calls in flight at once

ASSUME EngineAssumption == NoSong \notin Songs /\ Slots # {}

VARIABLES status,        \* PlayerEngine.status
          currentSong,   \* PlayerEngine.currentSong
          retryNum,      \* PlayerEngine.retryNum
          loadingTimer,  \* loadingTimer # null
          errorSkip,     \* errorSkipTimer # null
          tasks,         \* the asynchronous calls in flight, one per slot
          avState,       \* PlayerEngine.currentAvState
          avSong,        \* the song whose URL the AVPlayer holds
          avQueue,       \* the commands the AVPlayer has yet to execute: their tasks
          avEvents       \* failure events the AVPlayer has yet to deliver

engine == <<status, currentSong, retryNum, loadingTimer, errorSkip>>
av == <<avState, avSong, avQueue, avEvents>>
vars == <<engine, tasks, av>>

-----------------------------------------------------------------------------
(* Tasks.                                                                  *)

Statuses == {"IDLE", "LOADING", "BUFFERING", "PLAYING", "PAUSED", "ERROR"}
AvStates == {"idle", "initialized", "prepared", "playing", "paused", "completed", "error"}
Loading == {"LOADING", "BUFFERING"}

\* The awaits of play, in program order, with the AVPlayer command each waits for.
PlaySteps == {"pause", "resolve", "delay", "resolveAgain", "reset", "init", "prepare", "start"}
\* The awaits of togglePlay, of seekTo (from PLAYING or not) and of a resetAvPlayer
\* nobody waits for.
OtherSteps == {"togglePause", "togglePlay", "cancel", "background",
               "seek", "seekOnly", "seekPlay"}
Command == [pause |-> "pause", togglePause |-> "pause", start |-> "play", togglePlay |-> "play",
            seek |-> "seek", seekOnly |-> "seek", seekPlay |-> "play",
            reset |-> "reset", cancel |-> "reset", background |-> "reset", prepare |-> "prepare",
            nativeReset |-> "reset", startSeek |-> "seek"]  \* these two: module EqEngine

Task == [step : PlaySteps \cup OtherSteps \cup {"none"}, song : Songs \cup {NoSong},
         fresh : BOOLEAN, result : {"pending", "ok", "fail"}]
NoTask == [step |-> "none", song |-> NoSong, fresh |-> FALSE, result |-> "pending"]
At(step, song, fresh) == [step |-> step, song |-> song, fresh |-> fresh, result |-> "pending"]

Free(s) == tasks[s].step = "none"
Answered(s, step) == tasks[s].step = step /\ tasks[s].result # "pending"

\* The awaits after which play compares generations before it does anything
\* else: a superseded call that is parked there returns without effect.
Harmless == {"resolve", "delay", "resolveAgain"}

\* Mutation: generations are not compared after the requests for a URL.
SupersededUnchecked == [s \in Slots |-> [tasks[s] EXCEPT !.fresh = FALSE]]

\* playGeneration++
Superseded ==
  [s \in Slots |-> IF tasks[s].step \in Harmless THEN NoTask ELSE [tasks[s] EXCEPT !.fresh = FALSE]]

Finish(s) == tasks' = [tasks EXCEPT ![s] = NoTask]
Goto(s, step) == tasks' = [tasks EXCEPT ![s].step = step, ![s].result = "pending"]
\* await avPlayer.<command>()
Await(s, step) == Goto(s, step) /\ avQueue' = Append(avQueue, s)

-----------------------------------------------------------------------------
(* Pieces of the engine's methods.                                         *)

\* Mutation: startLoadingTimer is not called.
ShowLoadingUntimed(song) == status' = "LOADING" /\ currentSong' = song /\ UNCHANGED loadingTimer

\* play lines 365-373: no comparison of generations stands before them.
ShowLoading(song) ==
  /\ status' = "LOADING"
  /\ currentSong' = song
  /\ loadingTimer' = TRUE

\* play(song, false) up to `await this.avPlayer.pause()`.
PlayNew(song) ==
  \E s \in Slots :
    /\ Free(s)
    /\ tasks' = [Superseded EXCEPT ![s] = At("pause", song, TRUE)]
    /\ avQueue' = Append(avQueue, s)
    /\ retryNum' = 0
    /\ errorSkip' = FALSE
    /\ UNCHANGED <<status, currentSong, loadingTimer>>

\* retryNum++ and play(currentSong, true) up to the first request for a URL.
PlayAgain ==
  \E s \in Slots :
    /\ Free(s)
    /\ tasks' = [Superseded EXCEPT ![s] = At("resolve", currentSong, TRUE)]
    /\ retryNum' = retryNum + 1
    /\ errorSkip' = FALSE
    /\ ShowLoading(currentSong)
    /\ UNCHANGED avQueue

\* Mutation: the status is left as it was when the queue has been played out.
NextInQueueStillPlaying(skip) ==
  \/ \E song \in Songs : PlayNew(song)
  \/ errorSkip' = skip /\ UNCHANGED <<status, currentSong, retryNum, loadingTimer, tasks, avQueue>>

\* PlayerEngine.next: the queue answers with some song, or with none at its end.
NextInQueue(skip) ==
  \/ \E song \in Songs : PlayNew(song)
  \/ /\ status' = "IDLE"
     /\ errorSkip' = skip
     /\ UNCHANGED <<currentSong, retryNum, loadingTimer, tasks, avQueue>>

\* resetAvPlayer, called by task s without await as its last act: when the
\* AVPlayer is idle it finishes at once, otherwise s stays as the pending reset.
ResetInBackground(s) ==
  IF avState = "idle"
  THEN status' = "IDLE" /\ Finish(s) /\ UNCHANGED avQueue
  ELSE status' = "ERROR" /\ Await(s, "background")

\* The failure exits of play: lines 423-430, 438-445 and 504-507.
GiveUp(s) ==
  /\ ResetInBackground(s)
  /\ loadingTimer' = FALSE
  /\ errorSkip' = TRUE
  /\ UNCHANGED <<currentSong, retryNum>>

\* startResolvedPlayback returned false: lines 457-461.
NotStarted(s) ==
  /\ status' = "ERROR"
  /\ loadingTimer' = FALSE
  /\ errorSkip' = TRUE
  /\ Finish(s)
  /\ UNCHANGED <<currentSong, retryNum, av>>

Expired(s) == Finish(s) /\ UNCHANGED <<engine, av>>

-----------------------------------------------------------------------------
(* The steps of play.                                                      *)

\* The pause of the previous song was answered, either way.
AfterPause(s) ==
  /\ Answered(s, "pause")
  /\ ShowLoading(tasks[s].song)
  /\ IF tasks[s].fresh THEN Goto(s, "resolve") ELSE Finish(s)
  /\ UNCHANGED <<retryNum, errorSkip, av>>

\* SourceManager answered for some quality of the chain.
Resolved(s) ==
  /\ tasks[s].step \in {"resolve", "resolveAgain"}
  /\ IF avState # "idle"
     THEN Await(s, "reset") /\ UNCHANGED <<engine, avState, avSong, avEvents>>
     ELSE /\ Goto(s, "init")
          /\ avSong' = tasks[s].song
          /\ UNCHANGED <<engine, avState, avQueue, avEvents>>

\* No quality has a URL: the first time everything is tried again after 3 s.
\* An answer without a URL is a failure at once.
Unresolved(s) ==
  \/ /\ tasks[s].step = "resolve"
     /\ Goto(s, "delay")
     /\ UNCHANGED <<engine, av>>
  \/ /\ tasks[s].step \in {"resolve", "resolveAgain"}
     /\ GiveUp(s)
     /\ UNCHANGED <<avState, avSong, avEvents>>

AfterDelay(s) ==
  /\ tasks[s].step = "delay"
  /\ Goto(s, "resolveAgain")
  /\ UNCHANGED <<engine, av>>

\* The AVPlayer was reset: the URL is set and play waits for 'initialized'.
AfterReset(s) ==
  /\ Answered(s, "reset")
  /\ IF ~tasks[s].fresh THEN NotStarted(s)
     ELSE /\ Goto(s, "init")
          /\ avSong' = tasks[s].song
          /\ UNCHANGED <<engine, avState, avQueue, avEvents>>

\* One turn of the polling loop that waits up to 8 s for 'initialized'.
PollInitialized(s) ==
  /\ tasks[s].step = "init"
  /\ IF ~tasks[s].fresh THEN NotStarted(s)
     ELSE /\ avState = "initialized"
          /\ status' = "BUFFERING"
          /\ Await(s, "prepare")
          /\ UNCHANGED <<currentSong, retryNum, loadingTimer, errorSkip, avState, avSong, avEvents>>

InitializeTimeout(s) ==
  /\ tasks[s].step = "init"
  /\ avState # "initialized"
  /\ NotStarted(s)

\* prepare() or play() was answered; a rejection throws into the catch of play.
Thrown(s) ==
  IF tasks[s].fresh
  THEN GiveUp(s) /\ UNCHANGED <<avState, avSong, avEvents>>
  ELSE Expired(s)

\* Mutation: generations are not compared after prepare().
AfterPrepareUnchecked(s) ==
  /\ Answered(s, "prepare")
  /\ IF tasks[s].result = "fail" THEN Thrown(s)
     ELSE Await(s, "start") /\ UNCHANGED <<engine, avState, avSong, avEvents>>

AfterPrepare(s) ==
  /\ Answered(s, "prepare")
  /\ CASE tasks[s].result = "fail" -> Thrown(s)
       [] tasks[s].result = "ok" /\ ~tasks[s].fresh -> NotStarted(s)
       [] OTHER -> Await(s, "start") /\ UNCHANGED <<engine, avState, avSong, avEvents>>

AfterStart(s) ==
  /\ Answered(s, "start")
  /\ CASE tasks[s].result = "fail" -> Thrown(s)
       [] tasks[s].result = "ok" /\ ~tasks[s].fresh -> NotStarted(s)
       [] OTHER -> /\ loadingTimer' = FALSE
                   /\ Finish(s)
                   /\ UNCHANGED <<status, currentSong, retryNum, errorSkip, av>>

-----------------------------------------------------------------------------
(* togglePlay.                                                             *)

TogglePlay ==
  /\ \/ /\ status \in {"PLAYING", "PAUSED"}
        /\ \E s \in Slots :
             /\ Free(s)
             /\ tasks' = [tasks EXCEPT ![s] =
                   At(IF status = "PLAYING" THEN "togglePause" ELSE "togglePlay", NoSong, FALSE)]
             /\ avQueue' = Append(avQueue, s)
        /\ UNCHANGED engine
     \/ /\ status \in Loading                       \* cancel loading
        /\ loadingTimer' = FALSE
        /\ IF avState = "idle"
           THEN status' = "IDLE" /\ tasks' = Superseded /\ UNCHANGED avQueue
           ELSE /\ UNCHANGED status
                /\ \E s \in Slots :
                     /\ Free(s)
                     /\ tasks' = [Superseded EXCEPT ![s] = At("cancel", NoSong, FALSE)]
                     /\ avQueue' = Append(avQueue, s)
        /\ UNCHANGED <<currentSong, retryNum, errorSkip>>
     \/ /\ status \in {"ERROR", "IDLE"}
        /\ currentSong # NoSong
        /\ PlayNew(currentSong)
  /\ UNCHANGED <<avState, avSong, avEvents>>

\* After togglePlay's pause() or play() only the media session is updated;
\* after a reset the status is set to IDLE.
AfterToggle(s) ==
  /\ Answered(s, "togglePause") \/ Answered(s, "togglePlay")
  /\ Expired(s)

AfterBackgroundReset(s) ==
  /\ Answered(s, "cancel") \/ Answered(s, "background")
  /\ status' = "IDLE"
  /\ Finish(s)
  /\ UNCHANGED <<currentSong, retryNum, loadingTimer, errorSkip, av>>

-----------------------------------------------------------------------------
(* seekTo: when the song was playing before the seek, it is played after it. *)

SeekTo ==
  /\ \E s \in Slots :
       /\ Free(s)
       /\ tasks' = [tasks EXCEPT ![s] =
             At(IF status = "PLAYING" THEN "seek" ELSE "seekOnly", NoSong, FALSE)]
       /\ avQueue' = Append(avQueue, s)
  /\ UNCHANGED <<engine, avState, avSong, avEvents>>

AfterSeek(s) ==
  \/ /\ Answered(s, "seek") /\ tasks[s].result = "ok"
     /\ Await(s, "seekPlay")
     /\ UNCHANGED <<engine, avState, avSong, avEvents>>
  \/ /\ \/ Answered(s, "seek") /\ tasks[s].result = "fail"
        \/ Answered(s, "seekOnly")
        \/ Answered(s, "seekPlay")
     /\ Expired(s)

-----------------------------------------------------------------------------
(* Timers.                                                                 *)

\* Mutation: a third refresh is allowed.
LoadingTimeoutOnceMore ==
  /\ loadingTimer
  /\ IF status \notin Loading
     THEN loadingTimer' = FALSE /\ UNCHANGED <<status, currentSong, retryNum, errorSkip, tasks, avQueue>>
     ELSE IF retryNum <= 2 THEN PlayAgain
     ELSE \E s \in Slots : Free(s) /\ GiveUp(s)
  /\ UNCHANGED <<avState, avSong, avEvents>>

\* 25 s after loading began.
LoadingTimeout ==
  /\ loadingTimer
  /\ IF status \notin Loading
     THEN loadingTimer' = FALSE /\ UNCHANGED <<status, currentSong, retryNum, errorSkip, tasks, avQueue>>
     ELSE IF retryNum < 2 THEN PlayAgain
     ELSE \E s \in Slots : Free(s) /\ GiveUp(s)
  /\ UNCHANGED <<avState, avSong, avEvents>>

\* 3 s after scheduleErrorSkip.
ErrorSkipTimeout ==
  /\ errorSkip
  /\ NextInQueue(FALSE)
  /\ UNCHANGED <<avState, avSong, avEvents>>

-----------------------------------------------------------------------------
(* The AVPlayer.                                                           *)

Answer(result) == tasks' = [tasks EXCEPT ![Head(avQueue)].result = result]

\* The next command is due: the answer to the one before it has been consumed.
Due == avQueue # <<>> /\ \A s \in Slots : tasks[s].result = "pending"
Command1 == Command[tasks[Head(avQueue)].step]

Seekable == {"prepared", "playing", "paused", "completed"}

\* The command succeeds: the stateChange handler runs, the promise resolves.  A seek
\* may leave a playing song paused.
AvSucceeds ==
  /\ Due /\ avEvents = {}
  /\ \/ /\ Command1 = "pause" /\ avState = "playing"
        /\ avState' = "paused" /\ status' = "PAUSED"
        /\ UNCHANGED avSong
     \/ /\ Command1 = "play" /\ avState \in {"prepared", "paused", "completed"}
        /\ avState' = "playing" /\ status' = "PLAYING"
        /\ UNCHANGED avSong
     \/ /\ Command1 = "prepare" /\ avState = "initialized"
        /\ avState' = "prepared"
        /\ UNCHANGED <<status, avSong>>
     \/ /\ Command1 = "reset"
        /\ avState' = "idle" /\ avSong' = NoSong
        /\ status' = IF avState = "idle" THEN status ELSE "IDLE"
     \/ /\ Command1 = "seek" /\ avState \in Seekable
        /\ UNCHANGED <<status, avState, avSong>>
     \/ /\ Command1 = "seek" /\ avState = "playing"
        /\ avState' = "paused" /\ status' = "PAUSED"
        /\ UNCHANGED avSong
  /\ Answer("ok")
  /\ avQueue' = Tail(avQueue)
  /\ UNCHANGED <<currentSong, retryNum, loadingTimer, errorSkip, avEvents>>

\* A command the state does not allow is rejected without effect, and so is
\* one the AVPlayer fails on.
AvRejects ==
  /\ Due
  /\ \/ Command1 = "pause" /\ (avState # "playing" \/ avEvents # {})
     \/ Command1 = "play" /\ (avState \notin {"prepared", "paused", "completed"} \/ avEvents # {})
     \/ Command1 = "prepare" /\ (avState # "initialized" \/ avEvents # {})
     \/ Command1 = "seek" /\ (avState \notin Seekable \/ avEvents # {})
  /\ Answer("fail")
  /\ avQueue' = Tail(avQueue)
  /\ UNCHANGED <<engine, avState, avSong, avEvents>>

\* The URL set by play is accepted.
AvInitialized ==
  /\ avState = "idle" /\ avSong # NoSong /\ avEvents = {}
  /\ avState' = "initialized"
  /\ UNCHANGED <<engine, tasks, avSong, avQueue, avEvents>>

\* The AVPlayer fails: a bad URL, a decoder or network error.
AvFails ==
  /\ avEvents = {}
  /\ avState \notin {"error", "completed"}
  /\ avState = "idle" => avSong # NoSong
  /\ avEvents' = {"stateChange", "error"}
  /\ UNCHANGED <<engine, tasks, avState, avSong, avQueue>>

\* stateChange to 'error', with handleAvError.
OnStateError ==
  /\ "stateChange" \in avEvents
  /\ avEvents' = avEvents \ {"stateChange"}
  /\ avState' = "error"
  /\ IF status \in {"PAUSED", "IDLE"}
     THEN status' = "ERROR" /\ UNCHANGED <<currentSong, retryNum, loadingTimer, errorSkip, tasks, avQueue>>
     ELSE IF retryNum < 1 /\ currentSong # NoSong THEN PlayAgain
     ELSE /\ status' = "ERROR"
          /\ errorSkip' = TRUE
          /\ UNCHANGED <<currentSong, retryNum, loadingTimer, tasks, avQueue>>
  /\ UNCHANGED avSong

\* Mutation: the skip is not scheduled when the retries are used up.
OnErrorForGood ==
  /\ "error" \in avEvents
  /\ avEvents' = avEvents \ {"error"}
  /\ IF status \notin {"PAUSED", "IDLE"} /\ currentSong # NoSong /\ retryNum < 2 /\ ~errorSkip
     THEN PlayAgain
     ELSE /\ status' = "ERROR"
          /\ loadingTimer' = FALSE
          /\ UNCHANGED <<currentSong, retryNum, errorSkip, tasks, avQueue>>
  /\ UNCHANGED <<avState, avSong>>

\* The 'error' event.
OnError ==
  /\ "error" \in avEvents
  /\ avEvents' = avEvents \ {"error"}
  /\ IF status \notin {"PAUSED", "IDLE"} /\ currentSong # NoSong /\ retryNum < 2 /\ ~errorSkip
     THEN PlayAgain
     ELSE /\ status' = "ERROR"
          /\ loadingTimer' = FALSE
          /\ errorSkip' = (errorSkip \/ status \notin {"PAUSED", "IDLE"})
          /\ UNCHANGED <<currentSong, retryNum, tasks, avQueue>>
  /\ UNCHANGED <<avState, avSong>>

\* stateChange to 'completed': handleCompletion plays the next song.
OnCompleted ==
  /\ avState = "playing" /\ avEvents = {}
  /\ avState' = "completed"
  /\ NextInQueue(errorSkip)
  /\ UNCHANGED <<avSong, avEvents>>

-----------------------------------------------------------------------------
\* The user, a queue panel or the media session asks for a song: play, previous,
\* or next, which may find the queue at its end.
UserPlays ==
  /\ NextInQueue(errorSkip)
  /\ UNCHANGED <<avState, avSong, avEvents>>

Init ==
  /\ status = "IDLE"
  /\ currentSong = NoSong
  /\ retryNum = 0
  /\ loadingTimer = FALSE
  /\ errorSkip = FALSE
  /\ tasks = [s \in Slots |-> NoTask]
  /\ avState = "idle"
  /\ avSong = NoSong
  /\ avQueue = <<>>
  /\ avEvents = {}

Continue(s) ==
  \/ AfterPause(s) \/ Resolved(s) \/ Unresolved(s) \/ AfterDelay(s) \/ AfterReset(s)
  \/ PollInitialized(s) \/ InitializeTimeout(s) \/ AfterPrepare(s) \/ AfterStart(s)
  \/ AfterToggle(s) \/ AfterBackgroundReset(s) \/ AfterSeek(s)

Timers == LoadingTimeout \/ ErrorSkipTimeout
Device == AvSucceeds \/ AvRejects \/ AvInitialized \/ OnStateError \/ OnError

Next ==
  \/ \E s \in Slots : Continue(s)
  \/ Timers
  \/ Device
  \/ AvFails
  \/ OnCompleted
  \/ UserPlays
  \/ TogglePlay
  \/ SeekTo

Spec == Init /\ [][Next]_vars

\* What the engine may rely on: JavaScript timers fire, promises the AVPlayer
\* has answered continue, the AVPlayer answers and delivers its events.
\* Nothing is assumed of the sources: a request for a URL may hang forever.
Fairness ==
  /\ \A s \in Slots : WF_vars(Continue(s) /\ ~Resolved(s) /\ ~Unresolved(s))
  /\ WF_vars(LoadingTimeout)
  /\ WF_vars(ErrorSkipTimeout)
  /\ WF_vars(AvSucceeds \/ AvRejects)
  /\ WF_vars(OnStateError \/ OnError)

FairSpec == Spec /\ Fairness

-----------------------------------------------------------------------------
(* Properties.                                                             *)

TypeOK ==
  /\ status \in Statuses
  /\ currentSong \in Songs \cup {NoSong}
  /\ retryNum \in 0 .. 2
  /\ loadingTimer \in BOOLEAN
  /\ errorSkip \in BOOLEAN
  /\ tasks \in [Slots -> Task]
  /\ avState \in AvStates
  /\ avSong \in Songs \cup {NoSong}
  /\ avQueue \in Seq(Slots)
  /\ avEvents \subseteq {"stateChange", "error"}

\* The play calls that are in flight and not superseded.
Fresh == {s \in Slots : tasks[s].step \in PlaySteps /\ tasks[s].fresh}

Quiescent == (\A s \in Slots : Free(s)) /\ avEvents = {}

\* Whatever calls are in flight, only the latest play call hands the AVPlayer a
\* URL, prepares it or starts it, and what it prepares and starts is the URL of
\* its own song (the comparisons of generations in startResolvedPlayback).
LatestOwnsPlayer ==
  [][ \A s \in Slots :
        tasks'[s].step # tasks[s].step /\ tasks'[s].step \in {"init", "prepare", "start"}
        => tasks[s].fresh /\ avSong' = tasks[s].song ]_vars

\* The screen never shows a loading song that nothing will ever settle: a play
\* call is at work on it, a timer will act on it, or a reset is about to end it.
LoadingIsAttended ==
  status \in Loading =>
    \/ Fresh # {}
    \/ loadingTimer \/ errorSkip
    \/ \E s \in Slots : tasks[s].step \in {"cancel", "background"}

UserActs == UserPlays \/ TogglePlay \/ SeekTo

\* When the user leaves the engine alone, loading ends: the song plays, fails
\* or is skipped, even if a source never answers (startLoadingTimer).  Slots
\* bounds the calls in flight; behaviours it stops for good are left out.
LoadingEnds ==
  <>[][~UserActs]_vars /\ []<>(\E s \in Slots : Free(s)) => []<>(status \notin Loading)
=============================================================================
