# Verification of source-music

TLA+ models of the music player in this repository, checked with TLC on small
instances and, for what matters most in each of them, proved with TLAPS for every
instance. The models are written from the source; each definition names the lines
it stands for in `PROJECT.json` ("map").

## 1. The system

A HarmonyOS application. The ArkTS modules (`.ets`) run on one JavaScript
thread: between two `await`s nothing interrupts them, across an `await` anything
may happen. The C++ modules run threads of their own. Dependencies:
`entry` -> `hsp-search`, `hsp-player`, `hsp-playlist`, `hsp-source` -> `common`.

| component | state | operations | talks to |
|---|---|---|---|
| `PlayQueue` | list, currentIndex, mode, originalOrder | replaceList, appendSongs, insertAt, removeAt, move, next, peekNext, previous, skipTo, clear, shuffleForPlayback, restoreOriginalOrder | owned by PlayerEngine, edited by the pages directly |
| `PlayerEngine` | status, currentSong, playGeneration, retryNum, loadingTimer, errorSkipTimer, currentAvState, EQ settings | play, togglePlay, next, previous, seekTo, setPlayMode, setEq*, save/restoreQueueState; AVPlayer callbacks; timers | AVPlayer, SourceManager, native player, MediaSession, storage |
| native player (`NativeEqPlayer`, `AudioEqEngine`) | state_, stopRequested_, pipeline, renderer, PCM buffer | Start, Stop, Pause, Resume, Seek, SetEnabled, SetGains; DecodeLoop; OnWriteData | system decoder, audio suite, audio renderer |
| `SourceManager` | sources, URL/lyric/toggle/failure caches | reloadJSSources, import, remove, toggle, searchAll, getMusicInfoWithFallback, getLyricWithFallback, save | sandbox, storage |
| sandbox (`JSSandbox`, `JSScriptSource`, QuickJS/JSVM bridges, `WebJsExecutor`) | script instances, pending requests, deadlines | createSource, init, callAction, driveTick, destroy | network, web view |
| `PlaylistManager` | playlists | create, addSongs, moveSong, removeSongs, toggleFavorite, import/export | storage |
| `SearchEngine` | hot-search cache, history | search, saveHistory, getHotSearch | SourceManager, storage |
| `StorageUtils`, `PlayCacheUtils`, `DownloadUtils` | preferences, audio cache, downloads | get/put with migration, cacheSong, removeDownload | file system |
| `entry` pages | view state | event handlers | all of the above |

What is hard here, component by component:

* **Queue.** Every edit must correct `currentIndex`; two implementations of
  "next" must agree; shuffle keeps a second copy of the list that can describe
  another queue; automatic clean-up uses a position read before an `await`.
* **Engine.** Many `play` calls can be parked at `await`s while timers, device
  events and the user act. `playGeneration` is the only protection.
* **Native player.** A blocking control thread, a decode thread and a real-time
  callback share three mutexes and several atomics.
* **Sources.** Toggles, reloads and removals overlap across initialisation
  `await`s; persistence is three separate writes; late answers after time-outs.
* **Playlists, search, storage.** Read-modify-write across `await`s.

The full list, at its lines, is `PROJECT.json` "hazards"; each entry names the
properties that cover it or says why none does.

## 2. The models

### PlayQueue (`PlayQueue.tla`, `MCPlayQueue.tla`, `PlayQueueProofs.tla`)

One action per method of `PlayQueue`, plus the three places where the engine
changes the queue: `SetPlayMode`, the completion handler and the restore of the
stored queue. Variables carry the names of the fields. Indices are 0-based with
-1 for none, as in the code, so `list[i]` of the code is `At(list, i)`.

* `CompletionAdvance` and `CompletionClean` are the two halves of
  `handleCompletion`, before and after `await this.next()`; `cleaning` holds its
  locals. Every other action may come between them. One waiting handler is
  followed at a time.
* `ShuffleForPlayback` chooses any order that keeps the current song in its
  place. That the loop of the code reaches exactly these orders is itself
  checked: `MCPlayQueue` has the Fisher-Yates loop and the write-back as
  functions of the random choices, and `LoopIsShuffle` compares the two sets in
  every reachable state; it is also proved.
* A restart forgets everything; `RestoreQueueState` may then restore any list,
  index and mode at any later moment, because the code starts the restore
  without awaiting it (EntryAbility.ets:106). When a save happens is therefore
  not modelled.
* Songs are compared as (songmid, source) pairs in the code, except in
  `handleCompletion`, which compares songmid only; here a song is its identity.
* `appendSongs` has no caller in the repository; it is kept as an operation.
  "Play next" always inserts after the current position, as all three callers do.

### PlayerEngine (`PlayerEngine.tla`, `MCPlayerEngine.tla`, `PlayerEngineProofs.tla`, `PlayerSongProofs.tla`)

`play`, `togglePlay` and an un-awaited `resetAvPlayer` are tasks in `Slots`; a
task's `step` is the `await` it is parked at. `fresh` says whether
`playGeneration` is still the one the task started with: only this comparison
matters, so the counter itself is not needed. A superseded call parked where the
comparison is the very next thing it does (`Harmless`) is dropped at once,
because it returns without effect. All other superseded calls stay and do what
the code makes them do.

The AVPlayer is external: it executes commands in order, answers each, rejects
those its state does not allow, may fail at any time, and then raises two
events. The engine learns its state from callbacks. A source answers with a URL,
without one, or never. The quality chain of `play` is one `await`.

`seekTo` waits for the AVPlayer's seek and then, if the song was playing when it
began, calls `play()` without a look at what has happened meanwhile (`AfterSeek`).
A seek may leave the AVPlayer paused, which is what this second call is for.

Not modelled: local `file://` URLs, a `reset()` that fails, media session, lyrics,
preloading, progress, history, sleep timer, `release` (no caller).

### EqEngine (`EqEngine.tla`, `MCEqEngine.tla`, `EqEngineProofs.tla`) and `NativePlayback.tla`

`EqEngine` composes the engine with the native player. It extends `PlayerEngine`:
each action is one of `PlayerEngine` with what the equalizer adds to it (`EqResolved`
is `Resolved` or the native branch of `startResolvedPlayback`; `NewSong` is the
`playerStop` at the beginning of `play(song, false)`), or an action of its own
(`SetEqEnabled`, `PollNative`). `eqEnabled`, `usingNativeEq` and `forceAv`
(`forceAvFallbackOnce`) are the fields of that name, `handled` is
`nativeCompletionHandled`, `pending` holds `pendingAutoPlay` and whether
`pendingStartPositionMs` is positive, `polling` says whether `progressTimer` runs.
`nativeErrorHandled` is not needed: the handler clears `usingNativeEq`, which the
timer asks first. The code compares no generations after the reset that precedes
`playerStart` and after the seek to the pending position; nor does the model.
`setEqEnabled` stores the setting across an await and then plays the song again,
with the status it finds by then (`AfterEqSwitch`).

The native player has no callbacks. What the JavaScript thread sees of it is
`playerGetState`, and `NativePlayback` says how that changes: by the four calls,
which return with the change made, and by `Started`, `Failed` and `Ended`, which the
threads behind them bring about at any time. `EqEngine` is built on this contract,
and `NativeEqPlayer`, with its three threads, is shown to implement it: by TLC
(`KeepsContract`, under the mapping `Reported`, which hides a call until it returns)
and by TLAPS for all sizes (`ContractKept`). Writing the contract down shows two
things the engine has to live with: a start may be reported after an error of the
first frame, and a drained buffer after an error is reported as the end of the song.
Conversely `NativeEqPlayer` assumes that nobody seeks in a player that has not been
started; `UsedWasStarted` proves that the engine never does.

### NativeEqPlayer (`NativeEqPlayer.tla`, `NativeEqPlayerProofs.tla`)

Three program counters: `control` (the JavaScript thread inside a call),
`decoder` (`DecodeLoop`) and `render` (`OnWriteData`). A critical section is one
step unless something can be observed inside it. `mutex` and `controlMutex` are
held across steps where the code waits with them held. `pcmMutex_` sections are
single steps. `generation_` changes only together with `stopRequested_` while a
decode thread lives, so one comparison stands for both. PCM is a sequence of
buffers, each tagged with the start it belongs to, so that stale audio is
visible. The 4 MiB limit is `PcmLimit` buffers.

Assumed of the system: `OH_AudioRenderer_Stop` and
`OH_AudioSuiteEngine_StopPipeline` return once no callback is inside; setting
parameters may wait for the frame being rendered.

### SourceRegistry (`SourceRegistry.tla`, `SourceRegistryProofs.tla`, `SourceContractProofs.tla`) and `SourceSelection.tla`

The user's script sources in `SourceManager`. `listed`, `on` and `running` are the
objects in `sources`, those with `enabled`, and those whose sandbox has been
initialised and not destroyed; they are separate because the code changes them at
different moments. An object is an id and a copy number: an update, a toggle and a
reload all make new objects of an old id. `task[t]` is the await at which caller `t`
is, with the locals it will use afterwards. `save` is three awaited writes
(`saveList`, `saveScripts`, `saveActive`), each of the state when it is issued.
`reloadJSSources` is three reads and then a loop that is cut at the await of each
sandbox (`RestoreFrom`). `Restart` is a crash at any moment: a write that was not
flushed is the same as a crash before it. The list's order is not modelled; where
the code takes the first or last match, any may be taken.

`SourceSelection` is what the settings page relies on: known sources of which at
most one is active, operations that take effect at once, restarts that forget no
source whose import had returned. `KeepsContract` is the refinement. It holds as
long as no operation runs into an unfinished one; `raced` records that, and from
then on the abstract specification promises nothing. The invariants say what still
holds then.

### ScriptSource (`ScriptSource.tla`, `ScriptSourceProofs.tla`)

`JSScriptSource` objects and what they hold: a machine of the QuickJS or the JSVM
bridge (`vm`, with the bridges' tables `live`), or an entry in the tables of the one
web page all scripts share (`page`, keyed by the name of the script). `init[s]` is
the await `init` is parked at: QuickJS driven, page evaluating, driven, checked,
diagnosed, JSVM driven. `createSource` runs `init` against a timer; when the timer
comes first the object is destroyed and `init` goes on (`TimeOut`). The page runs
requests in their order, so a request takes effect when it is issued and its answer
is what is awaited. A request without an answer for 8 s, or an exit of the renderer,
loads the page afresh (`PageLost`). Scripts report late or not at all. `shared`
records objects that were not alone with their name.

Not modelled: the requests a script makes and the calls made into it.

## 3. What TLC checks

| run | instance | shows |
|---|---|---|
| `PlayQueue` | 3 songs, lists up to 3 (with repetitions through edits), symmetry | all queue properties below |
| `PlayQueueShuffleExit` | same, expected violation | leaving shuffle can change the playing song |
| `PlayQueueClean` | same, expected violation | clean-up can remove another song |
| `PlayerEngine` | 2 songs, 2 calls in flight, no symmetry | engine safety, and loading ends |
| `PlayerEngineCancel` | 2 songs, 3 calls, expected violation | a cancelled load comes back |
| `PlayerEnginePausedError` | same, expected violation | a paused error starts playback |
| `EqEngine` | 2 songs, 2 calls, 3 acts of the user or failures, symmetry | two players, one at a time |
| `NativeEqPlayer` | 2 formats, 2 buffers per song, room for 1, 3 starts | thread safety, progress, the contract |
| `NativeEqPlayerRelease` | 2 starts, expected violation | a running pipeline is destroyed |
| `SourceRegistry` | 2 ids, 3 callers, 3 objects per id, one race, symmetry | what overlapping calls and crashes leave intact |
| `SourceRegistryExclusive` | 2 ids, 2 callers, 2 objects per id, expected violation | two sources enabled |
| `ScriptSource` | 3 objects, two of one name, symmetry | no use after free, one kind of leak and no other, what is handed out works |

Why the bounds are enough for the cases that matter. Three songs give a current song
with neighbours on both sides, a removed or moved song on either side and nontrivial
shuffles. Two calls in flight give a superseded call next to the one that superseded
it, or a play next to a pause, seek or reset; all safety properties of the run, and all
those of the run `EqEngine`, are proved for any number of calls. With the equalizer three acts let a
song be asked for, fail natively and be asked for again, or a switch and a seek cross
a play; `EqEngine` stops when they are used up, which is why deadlock is not checked
there. A buffer limit below the number of buffers makes the decoder wait; three
starts give a song before and one after a change of format, and seeks. Three callers
are the start-up, the page of the web executor and the settings page in two overlapping
calls; once a call has run into a reload the action constraint `OneRace` lets the calls
in flight run to their end, through restarts too, and begins no other. Two objects of one name and one of another give a rival
and a bystander for each clean-up by name.

### Properties

Queue. `PeekPredictsNext`: the preloaded song is the one that comes next.
`EditKeepsCurrent`: an edit around the current song keeps it current.
`ShuffleRoundTrip`: a shuffle session in which nothing was added or removed is
undone exactly. `UndisturbedClean`: clean-up with no interference removes
exactly the played song. `RoundVisitsAll`: pressing next once per song reaches
every position, from any index. `LoopIsShuffle`: see above. `TypeOK` has
`currentIndex` up to `MaxLen`: removing the last song while it is current leaves
the index one past the end, and leaving shuffle then can shorten the list
further; the code tolerates it, because every reader checks the range.

Engine. `LatestOwnsPlayer`: only the latest call sets a URL, prepares or starts, and
always its own URL. `LoadingIsAttended`: a song shown as loading has a call, a timer
or a reset at work on it. `StatusIsHonest`: when nothing is in flight the status
agrees with the device. The code has two exceptions, in which a song plays on under
another status, and the history `misstated` marks just these: `next` at the end of the
queue reports IDLE and lets the last song play (615); a play call that was superseded,
or has not seen 'initialized' in 8 s, takes its song for not started and shows ERROR
over whatever plays by then (457). `misstated` is true from that step until the status
changes or the song ends. `ErrorsMoveOn`: an error with nothing in flight has a skip
scheduled. It may stay only when the device is in its error state and the last of its
failure events found the engine paused or idle (`unheard`); a handler that forgot the
skip of a song that was playing is caught. `OldSongIsSilent`: while the URL of a new
song is awaited the old one is not heard; a retry does not pause, and a seek or the
play key in flight starts the AVPlayer whatever it holds, so these are left out
(`revived`). `ShowsWhatPlays`: once everything has settled the song shown is the song
that sounds; left out is a retry that overtakes a song waiting for its pause
(`overtaken`): `play` shows its song after the pause without comparing generations.
`LoadingEnds`: below.

Engine with the equalizer. `OnePlayerSounds`, `NativeIsControlled`: the two players
never sound at once, and none is forgotten. Both are stated for histories in which
the native player has not strayed (`strayed`): the code does lose it when the
equalizer is switched off while it holds a song, or when a superseded call starts it.
`OnePlayerSounds` also leaves out a play key that plays what a superseded call has
prepared (`revived`): the AVPlayer still has a superseded `prepare()` and, behind it,
the user's `play()` to execute when a song is started natively, and then executes both.
This takes five calls in flight; it came to light in the proof, and the run, with two,
does not reach it.
`NativePlaysShownSong`: what `ShowsWhatPlays` is for the AVPlayer.
`EqLoadingIsAttended`: as above with the progress timer, except after a seek behind
the end of the queue (`soughtAtEnd`). `UsedIsStarted`: what `NativeEqPlayer` needs.

Native player. `RendersLivePipeline`, `NoStaleAudio`, `CompletedMeansDrained`,
`CallsReturn`, `KeepsContract`, and absence of deadlock.

Registry. For all overlaps: `EnabledRuns`, an enabled source has its sandbox;
`QuietIsSaved`, once all calls have returned the store holds what is in force;
`RestartRestores`, and a restart would choose the same source. Unless a call has run
into a reload: `SingleSelection`, at most one source is enabled and none is listed
twice; `SourcesSurvive`, no crash between writes and no failed sandbox loses a source.
Without races: `NoOrphanSandbox` and `KeepsContract`.

Scripts. `MachinesAreHeld`: the bridges' tables hold exactly the machines objects
refer to, also when a late `init` and a `destroy` cross: no object loses a machine it
has made or uses one that was freed. An object that is no longer in use has none, with
one exception, a leak in the code (`LeftBehind`): when the timer of `createSource`
strikes first, the dropped object's `init` goes on, may turn to JSVM, and keeps that
machine for good if it passes. `AcceptedWorks`: what `createSource` returned is ready
until it is destroyed. `EndedIsReclaimed`: what failed in time or was destroyed holds
nothing. `HandlerIsThere`: a source alone with its name keeps its handler in the page,
whatever else is cleaned up.

### Fairness

`PlayerEngine`: JavaScript timers fire, promises the AVPlayer has answered
continue, the AVPlayer answers and delivers its events. No fairness for sources:
`LoadingEnds` holds although a request for a URL may hang forever, by the 25 s
timer and its two retries. It assumes that the user eventually leaves the engine
alone, and it leaves out behaviours that fill all `Slots` for good, which are an
artefact of the bound. `NativeEqPlayer`: each thread that can run does run;
nobody is obliged to make a call. The other modules state no fairness, and only
safety is claimed of them.

### Expected violations

Each states what a comment of the code says, and TLC shows the code doing
otherwise; `PROJECT.json` "findings" quotes the comments.

1. `ExitShuffleKeepsCurrent` (PlayQueue.ets:62): shuffle, replace the queue,
   leave shuffle: the old queue comes back and its first song is current.
2. `CleanRemovesPlayed` (PlayerEngine.ets:773-774): the queue changes while the
   next song starts; the removed position holds another song.
3. `CancelledStaysStopped` (PlayerEngine.ets:592): a cancelled `play` returns
   false from `startResolvedPlayback`, is taken for a failed start, and the next
   song plays three seconds later.
4. `PausedErrorIsSilent` (PlayerEngine.ets:309): the first of the two failure
   events overwrites the status that the second one decides on.
5. `ReleaseOnlyStopped` (audio_eq_engine.cpp:347): a decode thread may start the
   pipeline after `Stop` has asked for it to be stopped.
6. `ExclusiveSources` (SourceManager.ets:439 and 161): a reload started while another
   awaits a sandbox empties the list once too early; both push the active source.

Seen while modelling, and not ruled out by any comment; the models do what the code
does, and a property that would fail because of one of these names the exception:

* A retry that overtakes a pause shows a song that does not play (PlayerEngine.ets:365).
* A superseded call may start the native player (693); switching the equalizer off
  while the native player has a song lets both players sound (745); so does a play key
  that waits behind the `prepare()` of a superseded call (585).
* The seek to a pending position stops the loading timer of a newer call, and
  `forceAvFallbackOnce` may be used up by another song.
* A seek undoes a pause pressed while it was in flight (641); a native seek after the
  end of the queue shows BUFFERING for good, since nothing polls any more (834).
* `Pause`, `Resume` and the start of `DecodeLoop` store the state after they have driven
  the renderer, so a COMPLETED stored in between is lost; a callback that drains the
  buffer after `SetError` stores COMPLETED over ERROR (native_eq_player.cpp:101, 229).
* A toggle whose source has left the list during its await runs a sandbox that nothing
  will destroy (SourceManager.ets:461).
* Cleaning up one script removes the handler of another of the same name
  (JSScriptSource.ets:1306), and a JSVM machine made by an `init` that outlived its
  timer is never destroyed (JSSandbox.ets:58 has dropped its object).
* A superseded play call shows ERROR over the song that plays, and schedules a skip
  (PlayerEngine.ets:457); `next` at the end of the queue shows IDLE over it (615).

## 4. What is proved

`PlayQueueProofs.tla`, for every set of songs and every bound:

* `TypeCorrect`: `Spec => []TypeOK`. `TypeOK` is inductive. The lemmas say what
  the list operators return: `Inserted`, `Removed` and `Moved` give sequences of
  songs of the expected length, `Shuffles` gives sequences of the same length,
  `FoundOrZero` gives an index of the list (the least number principle of
  `WellFoundedInduction`, used with a set, provides the first occurrence).
* `PeekCorrect`: `Spec => []PeekPredictsNext`, from `TypeOK`: the two
  implementations agree for every list, index in range of `TypeOK`, and mode.
* `EditCorrect`: `Spec => EditKeepsCurrent`, from `TypeOK`, with one lemma per
  kind of edit that follows the current song through the shift.
* `CleanCorrect`: `MCSpec => UndisturbedClean`. The invariant `Advanced` says what the
  waiting completion handler knows while nothing disturbs it: its song is still at the
  position it remembers, and the current position is the next one.
* `RoundTripCorrect`: `MCSpec => ShuffleRoundTrip`. The invariant `InSession` says that
  during a session the order to be restored is the one it began with, and that every song of
  the list is in it (`ShuffleWithin`, `MoveWithin`: shuffling and moving keep that;
  `OrderKept`: only leaving shuffle mode and a restart clear the order).
* `RoundCorrect`: `MCSpec => []RoundVisitsAll`. From `TypeOK`: the first step lands in
  the list and each further one adds 1 modulo its length, so the positions reached are
  a round. What holds of all steps is shown by the least step at which it fails
  (`CountTo`), which needs no induction rule.
* `LoopCorrect`: `MCSpec => []LoopIsShuffle`. A run of the Fisher-Yates loop is a chain of
  orders, each the last with two positions exchanged (`ChainExists`, `LoopRuns`), and the
  recursive function of the model computes its end (`LoopResult`). So the loop yields only
  orders; it yields every one, because before each iteration the position that belongs at
  its end is still in the part that is left (`LoopReaches`). Writing the songs back around
  the current one then gives the orders that leave it in place (`ShuffleLoop`).

Assumptions: `NoSong \notin Songs`, `MaxLen \in Nat \ {0}`.

`NativeEqPlayerProofs.tla`, for every set of formats, number of buffers per
song, buffer limit and number of starts: `TypeCorrect`, `RendersLive`,
`NoStale` and `CompletedDrained`, which are `Spec => []P` for the four
invariants of the run. None of the four but the first is inductive. The
invariant `Inv` says what each thread relies on the others for:

* `StopOrder`: Stop requests, joins the decode thread and releases the renderer
  in this order, so that a Start finds no thread, no renderer and no PCM.
* `RendererOrder`: the callback runs only with a renderer, a renderer exists only
  with a pipeline, and there is none while the decode thread prepares a song
  (and may rebuild the pipeline). `RendersLivePipeline` follows.
* `PcmOfSong`: all pending PCM is of the last song, because only `Started` changes
  the song and it finds the buffer empty (`PcmChanges`, `PcmStepOfSong`).
* `InputOrder` and `EndOrder`: unless a stop was requested, input ends only with
  the decode thread, so an end of song found by the callback is final.
* `StateOrder`: while a call is under way or the decode thread starts, the state that
  is stored agrees with how far they have come.

`TypeStep`, `StopStep`, `RendererStep`, `PcmOfSongStep`, `InputStep`, `EndStep` and
`StateStep` prove the parts one action at a time.

`ContractKept` is the refinement `Spec => KeepsContract`: `ContractStep` shows, from
`Inv`, that every step of a thread is a step of `NativePlayback` or leaves what is
reported alone. `StateOrder` is what it needs besides the other parts.

Assumption: `NativeAssumption`, that there is a format, that the limit is not
zero, and that the two counts are natural numbers.

`PlayerEngineProofs.tla`, for every set of songs and any number of calls in flight:
`TypeCorrect`, `AttendedCorrect` and `OwnsCorrect`.
None of the properties but `TypeOK` is inductive; `IInv` adds

* `Calls`: one answer at a time waits to be consumed, at most one play call is fresh,
  and a superseded call is not parked where it would return at once;
* `SongsKnown`: play calls have songs, and the engine has one once it has loaded;
* `PlayerHolds`: the AVPlayer holds a URL when it is past idle, and the fresh call's
  while that call drives it: this gives `LatestOwnsPlayer`;
* `StartEndsLoading`: when the fresh call learns that its song has started, loading is
  over, so that stopping the timer leaves nothing unattended;
* `Told`: what the status says of the AVPlayer while events and calls are in flight, as
  far as no history is needed.

The steps of tasks are proved through a few lemmas on what `Finish`, `Goto` and
superseding do to the parts (`EndStep`, `GotoStep`, `Less`). Assumption:
`EngineAssumption`, that `NoSong` is no song and that there is a slot.

`PlayerSongProofs.tla` goes on from there, with the history of the run `PlayerEngine`, for
every set of songs and any number of calls in flight: `OldSongCorrect`,
`ShownSongCorrect`, `HonestCorrect` and `ErrorsCorrect`. Each step has one of a few shapes (a call quits, goes on, begins and
supersedes the others, or joins them; all are superseded; the AVPlayer answers). From the
shapes alone follows `InOrder` (`CommandsInOrder`), the order of the AVPlayer's commands
and answers, as in `EqEngineProofs`. `SongsTold` says what the AVPlayer may still be made
to do, and for which song:

* `KeysTold`, `PlayingTold`: what the history says of seeks and play keys in flight, and the
  status of the AVPlayer.
* `PreparedOnce`: a URL that can be heard is not prepared again, and nothing is played
  behind a `prepare()`.
* `Hushed`: from its answered pause until its reset the latest call finds the AVPlayer
  silent, with nothing queued that would start it, unless it is a retry. This is
  `OldSongIsSilent` with the commands that are still on their way.
* `LatestShown`, `ResetFinds`: past its pause the latest call is for the song shown and no
  earlier call can show another; after its reset the AVPlayer is empty.
* `HeardShown`: a URL that can be heard is the shown song's with no other song waiting to be
  shown, or the latest call is about to replace it, or a reset is queued. With nothing in
  flight only the first is left, which is `ShowsWhatPlays`.

`HonestCorrect` and `ErrorsCorrect` rest on `Told` and on `StatusTold`, proved action by
action (`StatusStep`):

* `Sounding`: a song that plays is shown as PLAYING, or a reset nobody waits for or a
  failure event is on its way, or it is `misstated`. `EndedIsSilent`: when such a reset has
  been answered nothing plays until its call has set the status to IDLE.
* `Erring`: an ERROR has a skip scheduled, or the answer of a pause or a failure event is
  still to come, or it is the device's own and `unheard`.

TLC checked both invariants with two and with three calls before they were proved.

`EqEngineProofs.tla`, for every set of songs and any number of calls in flight, proves
all invariants of the run `EqEngine`. `UsedWasStarted` (the engine uses the native player
only between `playerStart` and `playerStop`) is inductive as it stands. For the others the
module first shows that every step has one of eight shapes: a call quits, goes on to its next
await, begins and supersedes the others, or joins them; all are superseded; the
AVPlayer answers; or the calls are left alone (`NextShape`). The parts of the invariant:

* `EqTyped`, the types, which give `EqTypeCorrect`.
* `InOrder`: one answer at a time waits to be consumed and one call is the latest
  (`EqCalls`); the AVPlayer's queue holds each call that waits for it, once (`EqQueue`);
  a later call's pause comes neither before an earlier one's commands nor before its answer,
  as far as the other parts need it (`EqOrder`). It follows from the shapes alone.
* `EqAttended`: besides `EqLoadingIsAttended` itself, what a call that has started its song,
  or seeks in it, leaves behind when it stops the loading timer. Each action settles the
  loading, hands it on, or takes nothing from it (`Settles`). Gives `AttentionCorrect`.
* `Controlled`: the native player has a song only while it is in use, it is in use only
  with the equalizer on and no fallback due, and not while the latest call is at work
  with the AVPlayer. The last is why ceasing to use it without `playerStop` (745) is
  harmless unless it has strayed. Gives `ControlCorrect`.
* `Silent`: when the native player is started the AVPlayer is idle without a URL, although
  commands may be queued; while it is in use the AVPlayer does not play, and nothing in
  its queue makes it play after a `prepare()` that could succeed. Gives `SoundCorrect`.
  The attempt to prove this without the exception `revived` failed on the history that
  section 3 describes.
* `Shown`: the latest call has shown its song unless it still waits for its pause; a
  superseded call that will show its song when its pause is answered has the latest one
  behind it; and the song played natively is the one shown. Gives `ShownCorrect`.

`SourceRegistryProofs.tla`, for every set of sources, objects and callers and every
overlap of calls: `TypeCorrect`, `EnabledCorrect`, `SaveCorrect` and `RestartCorrect`.
The argument for the store is in `ListSaved`, `ScriptsSaved` and `ActiveSaved`: each key
agrees with memory, or some call is at a point from which it will still write that key.
Interleaved saves are harmless because each writes the state of the moment. `Awaits`
says what the calls that wait for a sandbox hold. Assumption: `RegistryAssumption`, that
there is a start-up caller, that `None` is no source, and that `Slot` is finite (a reload makes one new
object for each entry, which is counted).

`SourceContractProofs.tla` goes on from there, with what holds as long as no call has run
into a reload (`CInv`), in parts: `Solo`, a call that reloads is alone; `Unique`, at most one
source is on and no id is listed or stored twice; `Enabling`, a call that awaits a sandbox
holds a new object of the id it is for; `Fresh`, what a reload has read is still what is
stored; `Halfway`, in the loop of a reload the ids listed, awaited and to come are distinct
and together those a restart would restore; `ScriptsKnown`, a listed source without a
stored script is being imported. `Listed` says, for histories without races, that every
running sandbox belongs to a listed object. They give `SelectionCorrect`,
`OrphansCorrect` and, as an action property, `SurviveCorrect`. `ContractKept` is the
refinement `Spec => KeepsContract`: every step is a step of `SourceSelection` or leaves what
it shows alone; once a call has run into another, `SourceSelection` allows anything.

`ScriptSourceProofs.tla`, for every set of objects and names: `TypeCorrect`,
`MachinesCorrect`, `AcceptedCorrect`, `ReclaimCorrect` and `HandlerCorrect`. `IInv` adds
to the properties what an object holds at each await of `init` (`Holds`), how `init` and
its caller's wait go together (`Answers`; in particular an object whose timer has struck
has no QuickJS machine any more, which leaves `LeftBehind` as the only leak), and that a
machine of an object is in the tables under that object (`Tables`); the last makes a new
machine differ from all others. `HInv` is for the handlers: `Registered`, a name whose
state is inited has a handler; `Alone`, an object that is not in `shared` has no rival
in use; `Found`, the property itself at every await after the report. Assumption:
`SourceAssumption`.

Only model-checked: liveness (`LoadingEnds`, `CallsReturn`), which needs fairness and
ENABLED and is out of the prover's reach. All other properties of the runs that pass are
proved, for every value of the constants. No module declares a RECURSIVE operator.

## 5. State of the plan

Done: the queue, the engine, the native player and their composition; the registry of
script sources and its contract; the life of script objects; proofs for each.

What could come next, in this order: the choice of a source with its fallback and its
URL, toggle and failure caches; the requests and calls of scripts, with answers that
arrive after their machine is gone; the read-modify-writes of play history and search
history and the migration of legacy values in storage; favourites, which are found by
one key and added under another.

### Not modelled

* The requests of scripts and the calls into them: what happens depends on the scripts.
* Search between sources, fallback, lyrics, and their caches (`SourceManager`): each is a
  sequence of requests whose failures only lead to the next source; the caches are
  hazards without a property.
* `PlaylistManager`, `SearchEngine`: sequential edits of lists with a save after each.
* `StorageUtils`, `PlayCacheUtils`, `DownloadUtils`, file and network formats: input and
  output; their read-modify-writes are listed as hazards.
* The pages, the media session and the N-API glue: they show state and forward calls,
  which are the user's actions of the models.
* QuickJS (`src/hsp-source/src/main/cpp/quickjs`): a third-party interpreter, vendored.
  By lines it is most of the C code of the repository; it is used through the bridge's
  table of machines, which `ScriptSource` models.
