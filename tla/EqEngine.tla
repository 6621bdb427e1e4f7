------------------------------ MODULE EqEngine ------------------------------
(***************************************************************************)
(* PlayerEngine.ets with the equalizer: the engine of PlayerEngine, which  *)
(* may play a song through the native player instead of the AVPlayer, and  *)
(* the native player as NativePlayback describes it.                       *)
(*                                                                         *)
(* Each action is one of PlayerEngine with what the equalizer adds to it,  *)
(* or the branch the engine takes while usingNativeEq.  The native player  *)
(* calls nobody back: a progress timer polls its state.                    *)
(***************************************************************************)
EXTENDS PlayerEngine

VARIABLES eqEnabled,      \* PlayerEngine.eqEnabled
          usingNativeEq,  \* PlayerEngine.usingNativeEq
          forceAv,        \* PlayerEngine.forceAvFallbackOnce
          pending,        \* pendingAutoPlay, and pendingStartPositionMs > 0
          polling,        \* progressTimer # null
          handled,        \* PlayerEngine.nativeCompletionHandled
          native,         \* the native player: its state,
          nativeAuto,     \*   whether its start plays at once,
          nativeSong      \*   and the song it was started with

player == <<native, nativeAuto, nativeSong>>
eq == <<eqEnabled, usingNativeEq, forceAv, pending, polling, handled, player>>
eqVars == <<vars, eq>>

Native == INSTANCE NativePlayback WITH auto <- nativeAuto

NothingPending == [auto |-> TRUE, seek |-> FALSE]

-----------------------------------------------------------------------------
(* Pieces of the engine's methods.                                         *)

\* Mutation: the native player plays on.
StopNativeNot == UNCHANGED player /\ usingNativeEq' = FALSE

\* Mutation: the engine goes on using the stopped player.
StopNativeStillUsed ==
  /\ Native!PlayerStop
  /\ nativeSong' = NoSong
  /\ UNCHANGED usingNativeEq

\* audioEqBridgeNative.playerStop(), usingNativeEq = false
StopNative ==
  /\ Native!PlayerStop
  /\ nativeSong' = NoSong
  /\ usingNativeEq' = FALSE

\* Mutation: nothing is stopped.
StopIfUsedNot == UNCHANGED <<player, usingNativeEq>>

\* Play of a new song and resetAvPlayer stop the native player if it is in use.
StopIfUsed == IF usingNativeEq THEN StopNative ELSE UNCHANGED <<player, usingNativeEq>>

ResetNative == StopIfUsed /\ UNCHANGED <<eqEnabled, forceAv, pending, polling, handled>>

\* This step calls play for a new song.
PlaysNew == \E s \in Slots : Free(s) /\ tasks'[s].step = "pause"

\* What play(song, false) does besides.
NewSong ==
  IF PlaysNew THEN pending' = NothingPending /\ StopIfUsed
              ELSE UNCHANGED <<pending, player, usingNativeEq>>

\* play(currentSong, true) in slot s: what is sounding is not stopped.
Refresh(s) ==
  /\ tasks' = [Superseded EXCEPT ![s] = At("resolve", currentSong, TRUE)]
  /\ errorSkip' = FALSE
  /\ ShowLoading(currentSong)
  /\ UNCHANGED <<retryNum, avQueue>>

-----------------------------------------------------------------------------
(* The steps of play.                                                      *)

EqUnresolved(s) ==
  /\ Unresolved(s)
  /\ IF tasks'[s].step = "delay" THEN UNCHANGED eq ELSE ResetNative

\* playerStart, the end of startResolvedPlayback with the equalizer: generations
\* are not compared, and the loading timer goes on.
PlayNatively(s) ==
  /\ Native!PlayerStart(pending.auto)
  /\ nativeSong' = tasks[s].song
  /\ usingNativeEq' = TRUE
  /\ pending' = NothingPending
  /\ handled' = FALSE
  /\ polling' = TRUE
  /\ status' = "BUFFERING"
  /\ Finish(s)
  /\ UNCHANGED <<currentSong, retryNum, loadingTimer, errorSkip, av, eqEnabled, forceAv>>

\* Mutation: when the native chain cannot be set up it is not stopped.
EqResolvedPlayingOn(s) ==
  \/ /\ Resolved(s)
     /\ forceAv' = FALSE
     /\ UNCHANGED <<eqEnabled, usingNativeEq, pending, polling, handled, player>>
  \/ /\ eqEnabled /\ ~forceAv
     /\ tasks[s].step \in {"resolve", "resolveAgain"}
     /\ IF avState # "idle"
        THEN Await(s, "nativeReset") /\ UNCHANGED <<engine, avState, avSong, avEvents, eq>>
        ELSE PlayNatively(s)

\* startResolvedPlayback: through the AVPlayer, natively, or through the AVPlayer
\* after the native chain could not be set up.
EqResolved(s) ==
  \/ /\ ~eqEnabled \/ forceAv
     /\ Resolved(s)
     /\ forceAv' = FALSE
     /\ UNCHANGED <<eqEnabled, usingNativeEq, pending, polling, handled, player>>
  \/ /\ eqEnabled /\ ~forceAv
     /\ Resolved(s)
     /\ StopNative
     /\ UNCHANGED <<eqEnabled, forceAv, pending, polling, handled>>
  \/ /\ eqEnabled /\ ~forceAv
     /\ tasks[s].step \in {"resolve", "resolveAgain"}
     /\ IF avState # "idle"
        THEN Await(s, "nativeReset") /\ UNCHANGED <<engine, avState, avSong, avEvents, eq>>
        ELSE PlayNatively(s)

AfterNativeReset(s) == Answered(s, "nativeReset") /\ PlayNatively(s)

\* usingNativeEq = false, without playerStop.
EqPollInitialized(s) ==
  /\ PollInitialized(s)
  /\ usingNativeEq' = (usingNativeEq /\ ~tasks[s].fresh)
  /\ UNCHANGED <<eqEnabled, forceAv, pending, polling, handled, player>>

\* prepare(), play() or seek() of startResolvedPlayback was rejected.
EqThrown(s) == IF tasks[s].fresh THEN ResetNative ELSE UNCHANGED eq

\* The end of startResolvedPlayback with the AVPlayer.
StartedWith(s, shown) ==
  /\ status' = shown
  /\ loadingTimer' = FALSE
  /\ pending' = NothingPending
  /\ Finish(s)
  /\ UNCHANGED <<currentSong, retryNum, errorSkip, av>>
  /\ UNCHANGED <<eqEnabled, usingNativeEq, forceAv, polling, handled, player>>

EqAfterPrepare(s) ==
  \/ AfterPrepare(s) /\ tasks[s].result = "fail" /\ EqThrown(s)
  \/ AfterPrepare(s) /\ tasks[s].result = "ok" /\ (tasks[s].fresh => pending.auto) /\ UNCHANGED eq
  \/ /\ Answered(s, "prepare") /\ tasks[s].result = "ok" /\ tasks[s].fresh /\ ~pending.auto
     /\ StartedWith(s, "PAUSED")

EqAfterStart(s) ==
  \/ AfterStart(s) /\ tasks[s].result = "fail" /\ EqThrown(s)
  \/ AfterStart(s) /\ tasks[s].result = "ok" /\ ~tasks[s].fresh /\ UNCHANGED eq
  \/ /\ Answered(s, "start") /\ tasks[s].result = "ok" /\ tasks[s].fresh
     /\ IF pending.seek
        THEN Await(s, "startSeek") /\ UNCHANGED <<engine, avState, avSong, avEvents, eq>>
        ELSE StartedWith(s, status)

\* Generations are not compared after the seek.
AfterStartSeek(s) ==
  /\ Answered(s, "startSeek")
  /\ IF tasks[s].result = "fail" THEN Thrown(s) /\ EqThrown(s)
     ELSE StartedWith(s, status)

-----------------------------------------------------------------------------
(* togglePlay, seekTo and setEqEnabled.                                    *)

EqTogglePlay ==
  \/ /\ ~usingNativeEq
     /\ TogglePlay
     /\ NewSong
     /\ polling' = (polling /\ status \notin Loading)
     /\ UNCHANGED <<eqEnabled, forceAv, handled>>
  \/ /\ usingNativeEq
     /\ \/ /\ status = "PLAYING" /\ Native!PlayerPause /\ status' = "PAUSED"
           /\ UNCHANGED <<loadingTimer, tasks, usingNativeEq, polling, nativeSong>>
        \/ /\ status = "PAUSED" /\ Native!PlayerResume /\ status' = "PLAYING"
           /\ UNCHANGED <<loadingTimer, tasks, usingNativeEq, polling, nativeSong>>
        \/ /\ status \in Loading                    \* cancel loading
           /\ StopNative
           /\ tasks' = Superseded
           /\ loadingTimer' = FALSE
           /\ polling' = FALSE
           /\ status' = "IDLE"
     /\ UNCHANGED <<currentSong, retryNum, errorSkip, av, eqEnabled, forceAv, pending, handled>>

\* The native player seeks by starting anew; the progress timer is left as it is.
EqSeekTo ==
  \/ ~usingNativeEq /\ SeekTo /\ UNCHANGED eq
  \/ /\ usingNativeEq
     /\ Native!PlayerStart(native # "PAUSED")
     /\ status' = "BUFFERING"
     /\ handled' = FALSE
     /\ UNCHANGED <<currentSong, retryNum, loadingTimer, errorSkip, tasks, av>>
     /\ UNCHANGED <<eqEnabled, usingNativeEq, forceAv, pending, polling, nativeSong>>

\* setEqEnabled up to its await.  Switched on while the AVPlayer holds a song, it
\* will play that song natively.
SetEqEnabled ==
  /\ eqEnabled' = ~eqEnabled
  /\ IF ~eqEnabled /\ ~usingNativeEq /\ currentSong # NoSong /\ status \in {"PLAYING", "PAUSED"}
     THEN \E s \in Slots : Free(s) /\ tasks' = [tasks EXCEPT ![s] = At("eqSwitch", NoSong, FALSE)]
     ELSE UNCHANGED tasks
  /\ UNCHANGED <<engine, av, usingNativeEq, forceAv, pending, polling, handled, player>>

\* The setting is stored: the song is played again, from where it is by now.
AfterEqSwitch(s) ==
  /\ tasks[s].step = "eqSwitch"
  /\ \E seek \in BOOLEAN : pending' = [auto |-> status = "PLAYING", seek |-> seek]
  /\ Refresh(s)
  /\ UNCHANGED <<avState, avSong, avEvents, eqEnabled, usingNativeEq, forceAv, polling, handled, player>>

-----------------------------------------------------------------------------
(* The progress timer while usingNativeEq.                                 *)

PollShows ==
  /\ native \in {"LOADING", "PLAYING", "PAUSED"}
  /\ status' = IF native = "LOADING" THEN "BUFFERING" ELSE native
  /\ loadingTimer' = (loadingTimer /\ native # "PLAYING")
  /\ UNCHANGED <<currentSong, retryNum, errorSkip, tasks, av, eq>>

PollCompleted ==
  /\ native = "COMPLETED" /\ ~handled
  /\ handled' = TRUE
  /\ polling' = FALSE
  /\ NextInQueue(errorSkip)
  /\ NewSong
  /\ UNCHANGED <<avState, avSong, avEvents, eqEnabled, forceAv>>

\* Mutation: after a failure the song is not played again.
PollFailedForGood ==
  /\ native = "ERROR"
  /\ StopNative
  /\ UNCHANGED <<vars, eqEnabled, forceAv, pending, polling, handled>>

\* The native player failed: the song is played by the AVPlayer.
PollFailed ==
  /\ native = "ERROR"
  /\ \E seek \in BOOLEAN : pending' = [auto |-> TRUE, seek |-> seek]
  /\ forceAv' = TRUE
  /\ StopNative
  /\ \E s \in Slots : Free(s) /\ Refresh(s)
  /\ UNCHANGED <<avState, avSong, avEvents, eqEnabled, polling, handled>>

PollNative == polling /\ usingNativeEq /\ (PollShows \/ PollCompleted \/ PollFailed)

-----------------------------------------------------------------------------
(* The other timers and the AVPlayer's events.                             *)

EqLoadingTimeout ==
  /\ LoadingTimeout
  /\ IF status \in Loading /\ retryNum >= 2 THEN ResetNative ELSE UNCHANGED eq

EqErrorSkipTimeout ==
  ErrorSkipTimeout /\ NewSong /\ UNCHANGED <<eqEnabled, forceAv, polling, handled>>

\* 'prepared' and 'playing' start the progress timer.
EqAvSucceeds ==
  /\ AvSucceeds
  /\ polling' = (polling \/ Command1 \in {"prepare", "play"})
  /\ UNCHANGED <<eqEnabled, usingNativeEq, forceAv, pending, handled, player>>

EqOnCompleted ==
  OnCompleted /\ NewSong /\ polling' = FALSE /\ UNCHANGED <<eqEnabled, forceAv, handled>>

EqUserPlays ==
  UserPlays /\ NewSong /\ UNCHANGED <<eqEnabled, forceAv, polling, handled>>

NativeThreads ==
  Native!Threads /\ UNCHANGED <<vars, eqEnabled, usingNativeEq, forceAv, pending, polling, handled, nativeSong>>

-----------------------------------------------------------------------------
EqInit ==
  /\ Init
  /\ eqEnabled \in BOOLEAN
  /\ usingNativeEq = FALSE
  /\ forceAv = FALSE
  /\ pending = NothingPending
  /\ polling = FALSE
  /\ handled = FALSE
  /\ Native!Init
  /\ nativeSong = NoSong

\* The steps of tasks the equalizer has no part in.
PlainStep(s) ==
  /\ \/ AfterPause(s) \/ AfterDelay(s) \/ AfterReset(s) \/ InitializeTimeout(s)
     \/ AfterToggle(s) \/ AfterBackgroundReset(s) \/ AfterSeek(s)
  /\ UNCHANGED eq

EqContinue(s) ==
  \/ PlainStep(s) \/ EqUnresolved(s) \/ EqResolved(s) \/ AfterNativeReset(s)
  \/ EqPollInitialized(s) \/ EqAfterPrepare(s) \/ EqAfterStart(s) \/ AfterStartSeek(s)
  \/ AfterEqSwitch(s)

EqDevice ==
  \/ EqAvSucceeds
  \/ (AvRejects \/ AvInitialized \/ OnStateError \/ OnError \/ AvFails) /\ UNCHANGED eq

EqUserActs == EqUserPlays \/ EqTogglePlay \/ EqSeekTo \/ SetEqEnabled

EqNext ==
  \/ \E s \in Slots : EqContinue(s)
  \/ EqLoadingTimeout \/ EqErrorSkipTimeout \/ PollNative
  \/ EqDevice \/ EqOnCompleted \/ NativeThreads
  \/ EqUserActs

EqSpec == EqInit /\ [][EqNext]_eqVars

-----------------------------------------------------------------------------
(* Properties.                                                             *)

EqTask == [step : PlaySteps \cup OtherSteps \cup {"none", "nativeReset", "startSeek", "eqSwitch"},
           song : Songs \cup {NoSong}, fresh : BOOLEAN, result : {"pending", "ok", "fail"}]

EqTypeOK ==
  /\ tasks \in [Slots -> EqTask]
  /\ status \in Statuses
  /\ retryNum \in 0 .. 2
  /\ {eqEnabled, usingNativeEq, forceAv, polling, handled, nativeAuto} \subseteq BOOLEAN
  /\ pending \in [auto : BOOLEAN, seek : BOOLEAN]
  /\ native \in Native!NativeStates
  /\ nativeSong \in Songs \cup {NoSong}

\* While the engine uses the native player, the player has been started and not
\* stopped: NativeEqPlayer's Seek, Pause and Resume rely on it.
UsedIsStarted == usingNativeEq => native # "IDLE"
=============================================================================
