--------------------------- MODULE NativeEqPlayer ---------------------------
(***************************************************************************)
(* The native playback path used while the equalizer is on:                *)
(* hsp-player/src/main/cpp/native_eq_player.cpp and audio_eq_engine.cpp.   *)
(*                                                                         *)
(* Three threads run it.  The control thread is the JavaScript thread,     *)
(* which calls Start, Stop, Pause, Resume, Seek and the setters; a call    *)
(* blocks it until it returns.  The decode thread runs DecodeLoop and is   *)
(* joined by Stop.  The render thread is the system's audio thread: it     *)
(* runs OnWriteData, and inside RenderFrame the callback RequestInputData. *)
(* They share mutex_, controlMutex_, pcmMutex_ and a few atomics.          *)
(*                                                                         *)
(* A critical section is one step unless something can be observed inside  *)
(* it (two atomics stored one after the other, or a wait with the mutex    *)
(* held); sections of pcmMutex_ are single steps, so it has no variable.   *)
(* The system's audio service is external: OH_AudioRenderer_Stop and       *)
(* OH_AudioSuiteEngine_StopPipeline return once no callback is inside.     *)
(***************************************************************************)
EXTENDS Naturals, Sequences

CONSTANTS Formats,    \* the PCM formats songs are decoded to
          Chunks,     \* the buffers the decoder produces for one song
          PcmLimit,   \* the 4 MiB limit on pending PCM, in buffers
          MaxStarts   \* bound on the number of starts

ASSUME NativeAssumption ==
  Formats # {} /\ Chunks \in Nat /\ PcmLimit \in Nat \ {0} /\ MaxStarts \in Nat

VARIABLES state,            \* state_
          stopRequested,    \* stopRequested_
          renderFinished,   \* renderFinished_
          song,             \* which start url_ and autoPlay_ belong to: [n, format, auto]
          renderer,         \* renderer_ and what the system does with it
          pipeline,         \* pipeline_ and what the system does with it
          pipelineRunning,  \* pipelineRunning_
          format,           \* inputSampleRate_, inputChannelCount_, inputChannelLayout_
          pcm,              \* pcmBuffer_ from pcmReadOffset_ on: the song of each buffer
          inputFinished,    \* inputFinished_
          control,          \* the control thread: [pc, next]
          decoder,          \* the decode thread: [pc, produced]
          render,           \* the render thread: [pc, error, finished]
          mutex,            \* the holder of mutex_
          controlMutex      \* the holder of controlMutex_

player == <<state, stopRequested, renderFinished, song, renderer>>
suite == <<pipeline, pipelineRunning, format>>
buffer == <<pcm, inputFinished>>
locks == <<mutex, controlMutex>>
threads == <<control, decoder, render>>
vars == <<player, suite, buffer, threads, locks>>

ControlPoints == {"ready", "stop", "stopPipeline", "awaitPipeline", "join", "releaseRenderer",
  "awaitCallback", "resetPcm", "start", "storePaused", "storePlaying", "parameters"}
DecodePoints == {"none", "open", "prepare", "resetPcm", "startPipeline", "createRenderer",
  "startRenderer", "storeStarted", "loop", "decode", "push", "error", "storeError", "finish"}
RenderPoints == {"idle", "getPipeline", "renderFrame", "store", "complete"}
States == {"IDLE", "LOADING", "PLAYING", "PAUSED", "COMPLETED", "ERROR"}
SongsStarted == [n : 0 .. MaxStarts, format : Formats, auto : BOOLEAN]
NoStart == [n |-> 0, format |-> CHOOSE f \in Formats : TRUE, auto |-> FALSE]

-----------------------------------------------------------------------------
(* The control thread.                                                     *)

Control(pc) == control' = [control EXCEPT !.pc = pc]
At(pc) == control.pc = pc

\* Stop() is called; next is what follows it: a Start, or nothing (n = 0).
CallStop(next) ==
  /\ At("ready")
  /\ control' = [pc |-> "stop", next |-> next]
  /\ UNCHANGED <<player, suite, buffer, decoder, render, locks>>

Stop == CallStop(NoStart)

Start ==
  /\ song.n < MaxStarts
  /\ \E f \in Formats, auto \in BOOLEAN :
       CallStop([n |-> song.n + 1, format |-> f, auto |-> auto])

\* The same URL again; a paused song stays paused.  PlayerEngine seeks only a
\* song it has started and not stopped, so the state is not IDLE.
Seek ==
  /\ song.n \in 1 .. MaxStarts - 1
  /\ state # "IDLE"
  /\ mutex = "free"
  /\ CallStop([n |-> song.n + 1, format |-> song.format, auto |-> state # "PAUSED"])

StopRequest ==
  /\ At("stop")
  /\ stopRequested' = TRUE
  /\ Control("stopPipeline")
  /\ UNCHANGED <<state, renderFinished, song, renderer, suite, buffer, decoder, render, locks>>

\* StopPipeline: the flag and the input are ended, and with controlMutex_ still
\* held the system is asked to stop a pipeline that was running.
StopPipeline ==
  /\ At("stopPipeline")
  /\ controlMutex = "free"
  /\ pipelineRunning' = FALSE
  /\ inputFinished' = TRUE
  /\ IF pipelineRunning
     THEN controlMutex' = "control" /\ Control("awaitPipeline")
     ELSE UNCHANGED controlMutex /\ Control("join")
  /\ UNCHANGED <<player, pipeline, format, pcm, decoder, render, mutex>>

PipelineStopped ==
  /\ At("awaitPipeline")
  /\ render.pc # "renderFrame"
  /\ pipeline' = "ready"
  /\ controlMutex' = "free"
  /\ Control("join")
  /\ UNCHANGED <<player, pipelineRunning, format, buffer, decoder, render, mutex>>

\* Mutation: the decode thread is not joined.
JoinAtOnce ==
  /\ At("join")
  /\ Control("releaseRenderer")
  /\ UNCHANGED <<player, suite, buffer, decoder, render, locks>>

Join ==
  /\ At("join")
  /\ decoder.pc = "none"
  /\ Control("releaseRenderer")
  /\ UNCHANGED <<player, suite, buffer, decoder, render, locks>>

\* ReleaseRenderer holds mutex_ while the system waits for the callback.
ReleaseRenderer ==
  /\ At("releaseRenderer")
  /\ mutex = "free"
  /\ mutex' = "control"
  /\ Control("awaitCallback")
  /\ UNCHANGED <<player, suite, buffer, decoder, render, controlMutex>>

\* Mutation: the renderer is released under a callback that is still inside.
RendererReleasedAtOnce ==
  /\ At("awaitCallback")
  /\ renderer' = "none"
  /\ mutex' = "free"
  /\ Control("resetPcm")
  /\ UNCHANGED <<state, stopRequested, renderFinished, song, suite, buffer, decoder, render, controlMutex>>

RendererReleased ==
  /\ At("awaitCallback")
  /\ render.pc = "idle"
  /\ renderer' = "none"
  /\ mutex' = "free"
  /\ Control("resetPcm")
  /\ UNCHANGED <<state, stopRequested, renderFinished, song, suite, buffer, decoder, render, controlMutex>>

\* Mutation: Stop does not call ResetPcm.
StoppedKeepingPcm ==
  /\ At("resetPcm")
  /\ state' = "IDLE"
  /\ Control(IF control.next.n > 0 THEN "start" ELSE "ready")
  /\ UNCHANGED <<stopRequested, renderFinished, song, renderer, suite, buffer, decoder, render, locks>>

\* ResetPcm, and the end of Stop; a Start goes on.
Stopped ==
  /\ At("resetPcm")
  /\ pcm' = <<>>
  /\ inputFinished' = FALSE
  /\ state' = "IDLE"
  /\ Control(IF control.next.n > 0 THEN "start" ELSE "ready")
  /\ UNCHANGED <<stopRequested, renderFinished, song, renderer, suite, decoder, render, locks>>

Started ==
  /\ At("start")
  /\ mutex = "free"
  /\ song' = control.next
  /\ renderFinished' = FALSE
  /\ stopRequested' = FALSE
  /\ state' = "LOADING"
  /\ decoder' = [pc |-> "open", produced |-> 0]
  /\ Control("ready")
  /\ UNCHANGED <<renderer, suite, buffer, render, locks>>

\* Pause: the state is checked, the renderer paused, the state stored.
Pause ==
  /\ At("ready")
  /\ mutex = "free"
  /\ renderer # "none" /\ state = "PLAYING"
  /\ renderer' = "paused"
  /\ mutex' = "control"
  /\ Control("storePaused")
  /\ UNCHANGED <<state, stopRequested, renderFinished, song, suite, buffer, decoder, render, controlMutex>>

Resume ==
  /\ At("ready")
  /\ mutex = "free"
  /\ renderer # "none" /\ state = "PAUSED"
  /\ renderer' = "running"
  /\ mutex' = "control"
  /\ Control("storePlaying")
  /\ UNCHANGED <<state, stopRequested, renderFinished, song, suite, buffer, decoder, render, controlMutex>>

StoreState ==
  /\ At("storePaused") \/ At("storePlaying")
  /\ state' = IF At("storePaused") THEN "PAUSED" ELSE "PLAYING"
  /\ mutex' = "free"
  /\ Control("ready")
  /\ UNCHANGED <<stopRequested, renderFinished, song, renderer, suite, buffer, decoder, render, controlMutex>>

\* Initialize builds the pipeline, for the format of the last song; when that
\* fails, what was built is released.
Initialize ==
  /\ At("ready")
  /\ controlMutex = "free"
  /\ pipeline = "none"
  /\ \/ pipeline' = "ready" /\ UNCHANGED <<pipelineRunning, buffer>>
     \/ /\ UNCHANGED pipeline
        /\ pipelineRunning' = FALSE
        /\ inputFinished' = TRUE
        /\ pcm' = <<>>
  /\ UNCHANGED <<player, format, threads, locks>>

\* SetEnabled, SetGains and SetPreset: the system may wait for the frame being rendered.
SetParameters ==
  /\ At("ready")
  /\ controlMutex = "free"
  /\ pipeline # "none"
  /\ controlMutex' = "control"
  /\ Control("parameters")
  /\ UNCHANGED <<player, suite, buffer, decoder, render, mutex>>

ParametersSet ==
  /\ At("parameters")
  /\ render.pc # "renderFrame"
  /\ controlMutex' = "free"
  /\ Control("ready")
  /\ UNCHANGED <<player, suite, buffer, decoder, render, mutex>>

ControlStep ==
  \/ StopRequest \/ StopPipeline \/ PipelineStopped \/ Join \/ ReleaseRenderer
  \/ RendererReleased \/ Stopped \/ Started \/ StoreState \/ ParametersSet

-----------------------------------------------------------------------------
(* The decode thread.                                                      *)

Decode(pc) == decoder' = [decoder EXCEPT !.pc = pc]
DecodeAt(pc) == decoder.pc = pc

\* The source is opened; any step up to the renderer can fail with SetError.
Open ==
  /\ DecodeAt("open")
  /\ Decode("prepare") \/ Decode("error")
  /\ UNCHANGED <<player, suite, buffer, control, render, locks>>

\* PrepareForPlayback: the pipeline is rebuilt when the format changes.
Prepare ==
  /\ DecodeAt("prepare")
  /\ controlMutex = "free"
  /\ pcm' = <<>>
  /\ IF pipeline # "none" /\ format = song.format
     THEN inputFinished' = FALSE /\ Decode("resetPcm") /\ UNCHANGED suite
     ELSE /\ inputFinished' = TRUE
          /\ pipelineRunning' = FALSE
          /\ format' = song.format
          /\ \/ pipeline' = "ready" /\ Decode("resetPcm")
             \/ pipeline' = "none" /\ Decode("error")
  /\ UNCHANGED <<player, control, render, locks>>

\* The decoder is created and ResetPcm called.
DecoderReady ==
  /\ DecodeAt("resetPcm")
  /\ \/ Decode("error") /\ UNCHANGED buffer
     \/ pcm' = <<>> /\ inputFinished' = FALSE /\ Decode("startPipeline")
  /\ UNCHANGED <<player, suite, control, render, locks>>

StartPipeline ==
  /\ DecodeAt("startPipeline")
  /\ controlMutex = "free"
  /\ \/ /\ pipeline = "none"
        /\ Decode("error") /\ UNCHANGED <<inputFinished, pipeline, pipelineRunning>>
     \/ /\ pipeline # "none" /\ pipelineRunning
        /\ Decode("createRenderer") /\ UNCHANGED <<inputFinished, pipeline, pipelineRunning>>
     \/ /\ pipeline # "none" /\ ~pipelineRunning
        /\ \/ /\ pipeline' = "running" /\ pipelineRunning' = TRUE
              /\ inputFinished' = FALSE /\ Decode("createRenderer")
           \/ /\ inputFinished' = TRUE /\ Decode("error")
              /\ UNCHANGED <<pipeline, pipelineRunning>>
  /\ UNCHANGED <<player, format, pcm, control, render, locks>>

CreateRenderer ==
  /\ DecodeAt("createRenderer")
  /\ mutex = "free"
  /\ \/ renderer' = "created" /\ Decode("startRenderer")
     \/ UNCHANGED renderer /\ Decode("error")
  /\ UNCHANGED <<state, stopRequested, renderFinished, song, suite, buffer, control, render, locks>>

\* OH_AudioRenderer_Start: from here on the system calls OnWriteData.
StartRenderer ==
  /\ DecodeAt("startRenderer")
  /\ mutex = "free"
  /\ \/ renderer' = "running" /\ mutex' = "decoder" /\ Decode("storeStarted")
     \/ UNCHANGED <<renderer, mutex>> /\ Decode("error")
  /\ UNCHANGED <<state, stopRequested, renderFinished, song, suite, buffer, control, render, controlMutex>>

StoreStarted ==
  /\ DecodeAt("storeStarted")
  /\ renderer' = IF song.auto THEN "running" ELSE "paused"
  /\ state' = IF song.auto THEN "PLAYING" ELSE "PAUSED"
  /\ mutex' = "free"
  /\ Decode("loop")
  /\ UNCHANGED <<stopRequested, renderFinished, song, suite, buffer, control, render, controlMutex>>

\* The test of the outer loop.  generation_ changes only together with
\* stopRequested_ while the thread lives, so the one comparison is enough.
Loop ==
  /\ DecodeAt("loop")
  /\ Decode(IF stopRequested \/ state = "ERROR" THEN "finish" ELSE "decode")
  /\ UNCHANGED <<player, suite, buffer, control, render, locks>>

\* One turn of the inner loop: a decoded buffer, the end, nothing yet, an error.
DecodeBuffer ==
  /\ DecodeAt("decode")
  /\ \/ decoder.produced < Chunks /\ ~stopRequested /\ Decode("push")
     \/ decoder.produced = Chunks /\ ~stopRequested /\ Decode("finish")
     \/ Decode("loop")
     \/ Decode("error")
  /\ UNCHANGED <<player, suite, buffer, control, render, locks>>

\* Mutation: PushPcm does not wait for room.
PushPcmAtOnce ==
  /\ DecodeAt("push")
  /\ pcm' = Append(pcm, song.n)
  /\ decoder' = [pc |-> "decode", produced |-> decoder.produced + 1]
  /\ UNCHANGED <<player, suite, inputFinished, control, render, locks>>

\* PushPcm waits while the buffer is full and the pipeline runs.
PushPcm ==
  /\ DecodeAt("push")
  /\ ~pipelineRunning \/ Len(pcm) < PcmLimit
  /\ IF ~pipelineRunning \/ inputFinished
     THEN Decode("finish") /\ UNCHANGED pcm
     ELSE /\ pcm' = Append(pcm, song.n)
          /\ \E pc \in {"decode", "loop"} :
               decoder' = [pc |-> pc, produced |-> decoder.produced + 1]
  /\ UNCHANGED <<player, suite, inputFinished, control, render, locks>>

\* SetError: lastError_ under mutex_, then the state, then MarkInputFinished.
RecordError ==
  /\ DecodeAt("error")
  /\ mutex = "free"
  /\ Decode("storeError")
  /\ UNCHANGED <<player, suite, buffer, control, render, locks>>

StoreError ==
  /\ DecodeAt("storeError")
  /\ state' = "ERROR"
  /\ Decode("finish")
  /\ UNCHANGED <<stopRequested, renderFinished, song, renderer, suite, buffer, control, render, locks>>

\* MarkInputFinished, and the thread ends.
Finish ==
  /\ DecodeAt("finish")
  /\ inputFinished' = TRUE
  /\ Decode("none")
  /\ UNCHANGED <<player, suite, pcm, control, render, locks>>

DecodeStep ==
  \/ Open \/ Prepare \/ DecoderReady \/ StartPipeline \/ CreateRenderer \/ StartRenderer
  \/ StoreStarted \/ Loop \/ DecodeBuffer \/ PushPcm \/ RecordError \/ StoreError \/ Finish

-----------------------------------------------------------------------------
(* The render thread: OnWriteData.                                         *)

Render(pc) == render' = [render EXCEPT !.pc = pc]
RenderAt(pc) == render.pc = pc

\* The system asks a started renderer for data; after a stop was requested or
\* the song has finished it is given silence.
OnWriteData ==
  /\ RenderAt("idle")
  /\ renderer = "running"
  /\ ~stopRequested /\ ~renderFinished
  /\ render' = [pc |-> "getPipeline", error |-> FALSE, finished |-> FALSE]
  /\ UNCHANGED <<player, suite, buffer, control, decoder, locks>>

GetPipeline ==
  /\ RenderAt("getPipeline")
  /\ controlMutex = "free"
  /\ Render(IF pipeline = "none" THEN "idle" ELSE "renderFrame")
  /\ UNCHANGED <<player, suite, buffer, control, decoder, locks>>

\* Mutation: an empty buffer is taken for the end of the song.
RenderFrameUntilEmpty ==
  /\ RenderAt("renderFrame")
  /\ pcm' = IF pcm = <<>> THEN pcm ELSE Tail(pcm)
  /\ render' = [pc |-> "store", error |-> FALSE, finished |-> pcm' = <<>>]
  /\ UNCHANGED <<player, suite, inputFinished, control, decoder, locks>>

\* RenderFrame asks RequestInputData for one buffer; with none there after 40 ms
\* it plays silence.  A pipeline that does not run, or any failure, is an error.
RenderFrame ==
  /\ RenderAt("renderFrame")
  /\ \/ /\ pipeline = "running"
        /\ pcm' = IF pcm = <<>> THEN pcm ELSE Tail(pcm)
        /\ render' = [pc |-> "store", error |-> FALSE, finished |-> inputFinished /\ pcm' = <<>>]
     \/ /\ render' = [pc |-> "store", error |-> TRUE, finished |-> FALSE]
        /\ UNCHANGED pcm
  /\ UNCHANGED <<player, suite, inputFinished, control, decoder, locks>>

\* Mutation: a failed frame is recorded under mutex_, as SetError does.
StoreResultLocked ==
  /\ RenderAt("store")
  /\ \/ render.error /\ mutex = "free" /\ state' = "ERROR" /\ UNCHANGED renderFinished
     \/ ~render.error /\ renderFinished' = render.finished /\ UNCHANGED state
  /\ Render(IF render.finished THEN "complete" ELSE "idle")
  /\ UNCHANGED <<stopRequested, song, renderer, suite, buffer, control, decoder, locks>>

\* The result of the frame is stored, without mutex_.
StoreResult ==
  /\ RenderAt("store")
  /\ \/ /\ render.error
        /\ state' = IF stopRequested THEN state ELSE "ERROR"
        /\ Render("idle") /\ UNCHANGED renderFinished
     \/ /\ render.finished
        /\ renderFinished' = TRUE
        /\ Render("complete") /\ UNCHANGED state
     \/ /\ ~render.error /\ ~render.finished
        /\ Render("idle") /\ UNCHANGED <<state, renderFinished>>
  /\ UNCHANGED <<stopRequested, song, renderer, suite, buffer, control, decoder, locks>>

StoreCompleted ==
  /\ RenderAt("complete")
  /\ state' = "COMPLETED"
  /\ Render("idle")
  /\ UNCHANGED <<stopRequested, renderFinished, song, renderer, suite, buffer, control, decoder, locks>>

RenderStep == OnWriteData \/ GetPipeline \/ RenderFrame \/ StoreResult \/ StoreCompleted

-----------------------------------------------------------------------------
Init ==
  /\ state = "IDLE"
  /\ stopRequested = FALSE
  /\ renderFinished = FALSE
  /\ song = NoStart
  /\ renderer = "none"
  /\ pipeline = "none"
  /\ pipelineRunning = FALSE
  /\ format \in Formats
  /\ pcm = <<>>
  /\ inputFinished = FALSE
  /\ control = [pc |-> "ready", next |-> NoStart]
  /\ decoder = [pc |-> "none", produced |-> 0]
  /\ render = [pc |-> "idle", error |-> FALSE, finished |-> FALSE]
  /\ mutex = "free"
  /\ controlMutex = "free"

Calls == Start \/ Stop \/ Seek \/ Pause \/ Resume \/ Initialize \/ SetParameters

Next == Calls \/ ControlStep \/ DecodeStep \/ RenderStep

\* Every thread that can run does; nobody is obliged to call anything.
Fairness == WF_vars(ControlStep) /\ WF_vars(DecodeStep) /\ WF_vars(RenderStep)

Spec == Init /\ [][Next]_vars /\ Fairness

-----------------------------------------------------------------------------
(* Properties.                                                             *)

TypeOK ==
  /\ state \in States
  /\ stopRequested \in BOOLEAN
  /\ renderFinished \in BOOLEAN
  /\ song \in SongsStarted
  /\ renderer \in {"none", "created", "running", "paused"}
  /\ pipeline \in {"none", "ready", "running"}
  /\ pipelineRunning \in BOOLEAN
  /\ format \in Formats
  /\ pcm \in Seq(0 .. MaxStarts) /\ Len(pcm) <= PcmLimit
  /\ inputFinished \in BOOLEAN
  /\ control \in [pc : ControlPoints, next : SongsStarted]
  /\ decoder \in [pc : DecodePoints, produced : 0 .. Chunks]
  /\ render \in [pc : RenderPoints, error : BOOLEAN, finished : BOOLEAN]
  /\ mutex \in {"free", "control", "decoder"}
  /\ controlMutex \in {"free", "control"}

\* The audio callback never renders with a pipeline that has been destroyed:
\* ReleaseRenderer has waited for it before a new song can rebuild the pipeline.
RendersLivePipeline == render.pc = "renderFrame" => pipeline # "none"

\* Once a song has been started no sound of an earlier one is left to play.
NoStaleAudio ==
  ~stopRequested => \A i \in 1 .. Len(pcm) : pcm[i] = song.n

\* A song is reported complete only when every buffer has been played, decoding
\* has ended, and no later data can arrive (the silence that fills a network
\* hiccup never passes for the end of the song).
CompletedMeansDrained ==
  state = "COMPLETED" /\ ~stopRequested =>
    renderFinished /\ inputFinished /\ pcm = <<>> /\ decoder.pc \notin {"decode", "push"}

\* Every call returns: no order of locks, waits and joins blocks the JavaScript
\* thread for good, whatever the decoder and the callback are doing.
CallsReturn == ~At("ready") ~> At("ready")

\* A call is seen by its caller as one step: Stop as done when it begins, and Pause
\* and Resume when they have checked the state.
Reported ==
  CASE At("ready") \/ At("parameters") -> state
    [] At("storePaused") -> "PAUSED"
    [] At("storePlaying") -> "PLAYING"
    [] OTHER -> "IDLE"

Contract == INSTANCE NativePlayback WITH native <- Reported, auto <- song.auto

\* Whatever the three threads do, the player's callers see a NativePlayback.
KeepsContract == Contract!Spec

\* audio_eq_engine.cpp:347, "the caller must first stop the system pipeline with
\* StopPipeline": it is never destroyed while it runs.
ReleaseOnlyStopped == [][ pipeline = "running" => ~Prepare \/ pipeline' = "running" ]_vars
=============================================================================
