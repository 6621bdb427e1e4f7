------------------------ MODULE NativeEqPlayerProofs ------------------------
(***************************************************************************)
(* Safety of the native player, and that it implements NativePlayback, for *)
(* every set of formats, every length of song, every buffer limit and      *)
(* every number of starts.                                                 *)
(***************************************************************************)
EXTENDS NativeEqPlayer, TLAPS

-----------------------------------------------------------------------------
(* The inductive invariant: what each thread may rely on the others for.   *)

\* The decode thread before it has created a renderer.
Preparing == {"open", "prepare", "resetPcm", "startPipeline", "createRenderer"}

\* The control thread after Stop has asked the others to stop, after it has
\* joined the decode thread, and after it has released the renderer.
Stopping == ControlPoints \ {"ready", "storePaused", "storePlaying", "parameters"}
Joined == {"releaseRenderer", "awaitCallback", "resetPcm", "start"}
Released == {"resetPcm", "start"}

\* Stop and Start run in this order: request, join, release, start.
StopOrder ==
  /\ control.pc \in Stopping \ {"stop"} => stopRequested
  /\ control.pc \in Joined => decoder.pc = "none"
  /\ control.pc \in Released => renderer = "none"
  /\ control.pc = "start" => pcm = <<>>

\* The callback runs only with a renderer, the renderer only with a pipeline,
\* and neither is there while the decode thread prepares a song.
RendererOrder ==
  /\ renderer = "none" => render.pc = "idle"
  /\ renderer # "none" => pipeline # "none"
  /\ decoder.pc \in Preparing => renderer = "none"
  /\ decoder.pc \in {"resetPcm", "startPipeline", "createRenderer"} => pipeline # "none"
  /\ decoder.pc \in {"startRenderer", "storeStarted"} => renderer # "none"

\* All pending PCM is of the song that was started last.
PcmOfSong == \A i \in 1 .. Len(pcm) : pcm[i] = song.n

\* Unless a stop was requested, input ends only when the decode thread does.
InputOrder ==
  ~stopRequested =>
    /\ inputFinished /\ renderer # "none" => decoder.pc = "none"
    /\ decoder.pc \in {"startPipeline", "createRenderer"} => ~inputFinished

\* What the callback has found at the end of a song stays true until a stop.
Ended == inputFinished /\ pcm = <<>> /\ decoder.pc = "none"
EndOrder ==
  /\ render.pc = "complete" => render.finished
  /\ ~stopRequested =>
       /\ render.pc \in {"store", "complete"} /\ render.finished => Ended
       /\ render.pc = "complete" => renderFinished
       /\ state = "COMPLETED" => Ended /\ renderFinished

PushBound == decoder.pc = "push" => decoder.produced < Chunks

\* What the state says between two calls: it is LOADING until the decode thread has
\* started the song or failed, COMPLETED when the callback has ended, and IDLE when
\* there is neither a decode thread nor a renderer.
Starting == Preparing \cup {"startRenderer", "storeStarted"}
StateOrder ==
  /\ state = "IDLE" => decoder.pc = "none" /\ renderer = "none"
  /\ stopRequested =>
       control.pc \in Stopping \/ (control.pc \in {"ready", "parameters"} /\ state = "IDLE")
  /\ ~stopRequested =>
       /\ decoder.pc \in Starting =>
            state \in {"LOADING", "ERROR"} /\ control.pc \notin {"storePaused", "storePlaying"}
       /\ state = "LOADING" => decoder.pc \in Starting \cup {"error", "storeError"}
       /\ state = "COMPLETED" => render.pc = "idle"

Inv ==
  /\ TypeOK
  /\ PushBound
  /\ StopOrder
  /\ RendererOrder
  /\ PcmOfSong
  /\ InputOrder
  /\ EndOrder
  /\ StateOrder

-----------------------------------------------------------------------------
(* Pending PCM and types. *)

\* What one step can do to pending PCM: nothing, empty it, take its first
\* buffer, or append one of song n where there is room.
PcmStep(q, p, n) ==
  \/ p = q \/ p = <<>>
  \/ q # <<>> /\ p = Tail(q)
  \/ Len(q) < PcmLimit /\ p = Append(q, n)

\* Such a step keeps pending PCM a sequence of songs within its limit.
LEMMA PcmStepTypes ==
  ASSUME NEW q \in Seq(0 .. MaxStarts), Len(q) <= PcmLimit,
         NEW n \in 0 .. MaxStarts, NEW p, PcmStep(q, p, n)
  PROVE  p \in Seq(0 .. MaxStarts) /\ Len(p) <= PcmLimit
<1>1. CASE p = q
  BY <1>1
<1>2. CASE p = <<>>
  BY <1>2, NativeAssumption DEF NativeAssumption
<1>3. CASE q # <<>> /\ p = Tail(q)
  BY <1>3, NativeAssumption DEF NativeAssumption
<1>4. CASE Len(q) < PcmLimit /\ p = Append(q, n)
  BY <1>4, NativeAssumption DEF NativeAssumption
<1> QED BY <1>1, <1>2, <1>3, <1>4 DEF PcmStep

\* If all of it was of song n, it still is.
LEMMA PcmStepOfSong ==
  ASSUME NEW q \in Seq(0 .. MaxStarts), NEW n \in 0 .. MaxStarts, NEW p, PcmStep(q, p, n),
         \A i \in 1 .. Len(q) : q[i] = n
  PROVE  \A i \in 1 .. Len(p) : p[i] = n
  BY DEF PcmStep

\* Every step changes pending PCM as PcmStep says.
LEMMA PcmChanges ==
  ASSUME [Next]_vars
  PROVE  PcmStep(pcm, pcm', song.n)
<1> USE DEF PcmStep, buffer
<1>1. CASE Calls
  BY <1>1 DEF Calls, Start, Stop, Seek, Pause, Resume, Initialize, SetParameters, CallStop
<1>2. CASE ControlStep
  BY <1>2 DEF ControlStep, StopRequest, StopPipeline, PipelineStopped, Join, ReleaseRenderer, RendererReleased, Stopped, Started, StoreState, ParametersSet
<1>3. CASE DecodeStep
  BY <1>3 DEF DecodeStep, Open, Prepare, DecoderReady, StartPipeline, CreateRenderer, StartRenderer, StoreStarted, Loop, DecodeBuffer, PushPcm, RecordError, StoreError, Finish
<1>4. CASE RenderStep
  BY <1>4 DEF RenderStep, OnWriteData, GetPipeline, RenderFrame, StoreResult, StoreCompleted
<1>5. CASE UNCHANGED vars
  BY <1>5 DEF vars
<1> QED BY <1>1, <1>2, <1>3, <1>4, <1>5 DEF Next

\* What RenderFrame leaves for the callback to store is a state of that thread.
LEMMA FrameResult ==
  ASSUME NEW e \in BOOLEAN, NEW f \in BOOLEAN
  PROVE  [pc |-> "store", error |-> e, finished |-> f]
           \in [pc : RenderPoints, error : BOOLEAN, finished : BOOLEAN]
  BY DEF RenderPoints

\* Every step keeps the types and the bound on decoded buffers.
LEMMA TypeStep ==
  ASSUME TypeOK, PushBound, [Next]_vars
  PROVE  TypeOK' /\ PushBound'
<1>0. pcm' \in Seq(0 .. MaxStarts) /\ Len(pcm') <= PcmLimit
  BY PcmChanges, PcmStepTypes DEF TypeOK, SongsStarted
<1> USE NativeAssumption DEF NativeAssumption, TypeOK, PushBound, player, suite, buffer, locks, threads,
      SongsStarted, ControlPoints, DecodePoints, RenderPoints, States, NoStart
<1>1. CASE Calls
  <2>1. CASE Start
    BY <2>1 DEF Start, CallStop, At
  <2>2. CASE Stop
    BY <2>2 DEF Stop, CallStop, At
  <2>3. CASE Seek
    BY <2>3 DEF Seek, CallStop, At
  <2>4. CASE Pause
    BY <2>4 DEF Pause, Control, At
  <2>5. CASE Resume
    BY <2>5 DEF Resume, Control, At
  <2>6. CASE Initialize
    <3>1. stopRequested' \in BOOLEAN /\ renderFinished' \in BOOLEAN
         /\ pipelineRunning' \in BOOLEAN /\ inputFinished' \in BOOLEAN
      BY <2>6 DEF Initialize, Control, At
    <3>2. control' \in [pc : ControlPoints, next : SongsStarted]
      BY <2>6 DEF Initialize, Control, At
    <3>3. decoder' \in [pc : DecodePoints, produced : 0 .. Chunks] /\ PushBound'
      BY <2>6 DEF Initialize, Control, At
    <3>4. render' \in [pc : RenderPoints, error : BOOLEAN, finished : BOOLEAN]
      BY <2>6 DEF Initialize, Control, At
    <3>5. /\ state' \in States /\ song' \in SongsStarted /\ format' \in Formats
          /\ renderer' \in {"none", "created", "running", "paused"}
          /\ pipeline' \in {"none", "ready", "running"}
          /\ mutex' \in {"free", "control", "decoder"} /\ controlMutex' \in {"free", "control"}
      BY <2>6 DEF Initialize, Control, At
    <3> QED BY <1>0, <3>1, <3>2, <3>3, <3>4, <3>5
  <2>7. CASE SetParameters
    BY <2>7 DEF SetParameters, Control, At
  <2> QED BY <1>1, <2>1, <2>2, <2>3, <2>4, <2>5, <2>6, <2>7 DEF Calls
<1>2. CASE ControlStep
  <2>1. CASE StopRequest
    BY <2>1 DEF StopRequest, Control, At
  <2>2. CASE StopPipeline
    <3>1. stopRequested' \in BOOLEAN /\ renderFinished' \in BOOLEAN
         /\ pipelineRunning' \in BOOLEAN /\ inputFinished' \in BOOLEAN
      BY <2>2 DEF StopPipeline, Control, At
    <3>2. control' \in [pc : ControlPoints, next : SongsStarted]
      BY <2>2 DEF StopPipeline, Control, At
    <3>3. decoder' \in [pc : DecodePoints, produced : 0 .. Chunks] /\ PushBound'
      BY <2>2 DEF StopPipeline, Control, At
    <3>4. render' \in [pc : RenderPoints, error : BOOLEAN, finished : BOOLEAN]
      BY <2>2 DEF StopPipeline, Control, At
    <3>5. /\ state' \in States /\ song' \in SongsStarted /\ format' \in Formats
          /\ renderer' \in {"none", "created", "running", "paused"}
          /\ pipeline' \in {"none", "ready", "running"}
          /\ mutex' \in {"free", "control", "decoder"} /\ controlMutex' \in {"free", "control"}
      BY <2>2 DEF StopPipeline, Control, At
    <3> QED BY <1>0, <3>1, <3>2, <3>3, <3>4, <3>5
  <2>3. CASE PipelineStopped
    BY <2>3 DEF PipelineStopped, Control, At
  <2>4. CASE Join
    BY <2>4 DEF Join, Control, At
  <2>5. CASE ReleaseRenderer
    BY <2>5 DEF ReleaseRenderer, Control, At
  <2>6. CASE RendererReleased
    BY <2>6 DEF RendererReleased, Control, At
  <2>7. CASE Stopped
    <3>1. stopRequested' \in BOOLEAN /\ renderFinished' \in BOOLEAN
         /\ pipelineRunning' \in BOOLEAN /\ inputFinished' \in BOOLEAN
      BY <2>7 DEF Stopped, Control, At
    <3>2. control' \in [pc : ControlPoints, next : SongsStarted]
      BY <2>7 DEF Stopped, Control, At
    <3>3. decoder' \in [pc : DecodePoints, produced : 0 .. Chunks] /\ PushBound'
      BY <2>7 DEF Stopped, Control, At
    <3>4. render' \in [pc : RenderPoints, error : BOOLEAN, finished : BOOLEAN]
      BY <2>7 DEF Stopped, Control, At
    <3>5. /\ state' \in States /\ song' \in SongsStarted /\ format' \in Formats
          /\ renderer' \in {"none", "created", "running", "paused"}
          /\ pipeline' \in {"none", "ready", "running"}
          /\ mutex' \in {"free", "control", "decoder"} /\ controlMutex' \in {"free", "control"}
      BY <2>7 DEF Stopped, Control, At
    <3> QED BY <1>0, <3>1, <3>2, <3>3, <3>4, <3>5
  <2>8. CASE Started
    <3>1. stopRequested' \in BOOLEAN /\ renderFinished' \in BOOLEAN
         /\ pipelineRunning' \in BOOLEAN /\ inputFinished' \in BOOLEAN
      BY <2>8 DEF Started, Control, At
    <3>2. control' \in [pc : ControlPoints, next : SongsStarted]
      BY <2>8 DEF Started, Control, At
    <3>3. decoder' \in [pc : DecodePoints, produced : 0 .. Chunks] /\ PushBound'
      BY <2>8 DEF Started, Control, At
    <3>4. render' \in [pc : RenderPoints, error : BOOLEAN, finished : BOOLEAN]
      BY <2>8 DEF Started, Control, At
    <3>5. /\ state' \in States /\ song' \in SongsStarted /\ format' \in Formats
          /\ renderer' \in {"none", "created", "running", "paused"}
          /\ pipeline' \in {"none", "ready", "running"}
          /\ mutex' \in {"free", "control", "decoder"} /\ controlMutex' \in {"free", "control"}
      BY <2>8 DEF Started, Control, At
    <3> QED BY <1>0, <3>1, <3>2, <3>3, <3>4, <3>5
  <2>9. CASE StoreState
    BY <2>9 DEF StoreState, Control, At
  <2>10. CASE ParametersSet
    BY <2>10 DEF ParametersSet, Control, At
  <2> QED BY <1>2, <2>1, <2>2, <2>3, <2>4, <2>5, <2>6, <2>7, <2>8, <2>9, <2>10 DEF ControlStep
<1>3. CASE DecodeStep
  <2>1. CASE Open
    BY <2>1 DEF Open, Decode, DecodeAt
  <2>2. CASE Prepare
    <3>1. stopRequested' \in BOOLEAN /\ renderFinished' \in BOOLEAN
         /\ pipelineRunning' \in BOOLEAN /\ inputFinished' \in BOOLEAN
      BY <2>2 DEF Prepare, Decode, DecodeAt
    <3>2. control' \in [pc : ControlPoints, next : SongsStarted]
      BY <2>2 DEF Prepare, Decode, DecodeAt
    <3>3. decoder' \in [pc : DecodePoints, produced : 0 .. Chunks] /\ PushBound'
      BY <2>2 DEF Prepare, Decode, DecodeAt
    <3>4. render' \in [pc : RenderPoints, error : BOOLEAN, finished : BOOLEAN]
      BY <2>2 DEF Prepare, Decode, DecodeAt
    <3>5. /\ state' \in States /\ song' \in SongsStarted /\ format' \in Formats
          /\ renderer' \in {"none", "created", "running", "paused"}
          /\ pipeline' \in {"none", "ready", "running"}
          /\ mutex' \in {"free", "control", "decoder"} /\ controlMutex' \in {"free", "control"}
      BY <2>2 DEF Prepare, Decode, DecodeAt
    <3> QED BY <1>0, <3>1, <3>2, <3>3, <3>4, <3>5
  <2>3. CASE DecoderReady
    <3>1. stopRequested' \in BOOLEAN /\ renderFinished' \in BOOLEAN
         /\ pipelineRunning' \in BOOLEAN /\ inputFinished' \in BOOLEAN
      BY <2>3 DEF DecoderReady, Decode, DecodeAt
    <3>2. control' \in [pc : ControlPoints, next : SongsStarted]
      BY <2>3 DEF DecoderReady, Decode, DecodeAt
    <3>3. decoder' \in [pc : DecodePoints, produced : 0 .. Chunks] /\ PushBound'
      BY <2>3 DEF DecoderReady, Decode, DecodeAt
    <3>4. render' \in [pc : RenderPoints, error : BOOLEAN, finished : BOOLEAN]
      BY <2>3 DEF DecoderReady, Decode, DecodeAt
    <3>5. /\ state' \in States /\ song' \in SongsStarted /\ format' \in Formats
          /\ renderer' \in {"none", "created", "running", "paused"}
          /\ pipeline' \in {"none", "ready", "running"}
          /\ mutex' \in {"free", "control", "decoder"} /\ controlMutex' \in {"free", "control"}
      BY <2>3 DEF DecoderReady, Decode, DecodeAt
    <3> QED BY <1>0, <3>1, <3>2, <3>3, <3>4, <3>5
  <2>4. CASE StartPipeline
    <3>1. stopRequested' \in BOOLEAN /\ renderFinished' \in BOOLEAN
         /\ pipelineRunning' \in BOOLEAN /\ inputFinished' \in BOOLEAN
      BY <2>4 DEF StartPipeline, Decode, DecodeAt
    <3>2. control' \in [pc : ControlPoints, next : SongsStarted]
      BY <2>4 DEF StartPipeline, Decode, DecodeAt
    <3>3. decoder' \in [pc : DecodePoints, produced : 0 .. Chunks] /\ PushBound'
      BY <2>4 DEF StartPipeline, Decode, DecodeAt
    <3>4. render' \in [pc : RenderPoints, error : BOOLEAN, finished : BOOLEAN]
      BY <2>4 DEF StartPipeline, Decode, DecodeAt
    <3>5. /\ state' \in States /\ song' \in SongsStarted /\ format' \in Formats
          /\ renderer' \in {"none", "created", "running", "paused"}
          /\ pipeline' \in {"none", "ready", "running"}
          /\ mutex' \in {"free", "control", "decoder"} /\ controlMutex' \in {"free", "control"}
      BY <2>4 DEF StartPipeline, Decode, DecodeAt
    <3> QED BY <1>0, <3>1, <3>2, <3>3, <3>4, <3>5
  <2>5. CASE CreateRenderer
    BY <2>5 DEF CreateRenderer, Decode, DecodeAt
  <2>6. CASE StartRenderer
    BY <2>6 DEF StartRenderer, Decode, DecodeAt
  <2>7. CASE StoreStarted
    BY <2>7 DEF StoreStarted, Decode, DecodeAt
  <2>8. CASE Loop
    BY <2>8 DEF Loop, Decode, DecodeAt
  <2>9. CASE DecodeBuffer
    BY <2>9 DEF DecodeBuffer, Decode, DecodeAt
  <2>10. CASE PushPcm
    <3>1. stopRequested' \in BOOLEAN /\ renderFinished' \in BOOLEAN
         /\ pipelineRunning' \in BOOLEAN /\ inputFinished' \in BOOLEAN
      BY <2>10 DEF PushPcm, Decode, DecodeAt
    <3>2. control' \in [pc : ControlPoints, next : SongsStarted]
      BY <2>10 DEF PushPcm, Decode, DecodeAt
    <3>3. decoder' \in [pc : DecodePoints, produced : 0 .. Chunks] /\ PushBound'
      BY <2>10 DEF PushPcm, Decode, DecodeAt
    <3>4. render' \in [pc : RenderPoints, error : BOOLEAN, finished : BOOLEAN]
      BY <2>10 DEF PushPcm, Decode, DecodeAt
    <3>5. /\ state' \in States /\ song' \in SongsStarted /\ format' \in Formats
          /\ renderer' \in {"none", "created", "running", "paused"}
          /\ pipeline' \in {"none", "ready", "running"}
          /\ mutex' \in {"free", "control", "decoder"} /\ controlMutex' \in {"free", "control"}
      BY <2>10 DEF PushPcm, Decode, DecodeAt
    <3> QED BY <1>0, <3>1, <3>2, <3>3, <3>4, <3>5
  <2>11. CASE RecordError
    BY <2>11 DEF RecordError, Decode, DecodeAt
  <2>12. CASE StoreError
    BY <2>12 DEF StoreError, Decode, DecodeAt
  <2>13. CASE Finish
    BY <2>13 DEF Finish, Decode, DecodeAt
  <2> QED BY <1>3, <2>1, <2>2, <2>3, <2>4, <2>5, <2>6, <2>7, <2>8, <2>9, <2>10, <2>11, <2>12, <2>13 DEF DecodeStep
<1>4. CASE RenderStep
  <2>1. CASE OnWriteData
    BY <2>1 DEF OnWriteData, Render, RenderAt
  <2>2. CASE GetPipeline
    BY <2>2 DEF GetPipeline, Render, RenderAt
  <2>3. CASE RenderFrame
    <3>1. stopRequested' \in BOOLEAN /\ renderFinished' \in BOOLEAN
         /\ pipelineRunning' \in BOOLEAN /\ inputFinished' \in BOOLEAN
      BY <2>3 DEF RenderFrame, Render, RenderAt
    <3>2. control' \in [pc : ControlPoints, next : SongsStarted]
      BY <2>3 DEF RenderFrame, Render, RenderAt
    <3>3. decoder' \in [pc : DecodePoints, produced : 0 .. Chunks] /\ PushBound'
      BY <2>3 DEF RenderFrame, Render, RenderAt
    <3>4. render' \in [pc : RenderPoints, error : BOOLEAN, finished : BOOLEAN]
      <4> DEFINE end == inputFinished /\ pcm' = <<>>
      <4>1. \/ render' = [pc |-> "store", error |-> FALSE, finished |-> end]
            \/ render' = [pc |-> "store", error |-> TRUE, finished |-> FALSE]
        BY <2>3 DEF RenderFrame
      <4>2. end \in BOOLEAN
        OBVIOUS
      <4> HIDE DEF end
      <4> QED BY <4>1, <4>2, FrameResult
    <3>5. /\ state' \in States /\ song' \in SongsStarted /\ format' \in Formats
          /\ renderer' \in {"none", "created", "running", "paused"}
          /\ pipeline' \in {"none", "ready", "running"}
          /\ mutex' \in {"free", "control", "decoder"} /\ controlMutex' \in {"free", "control"}
      BY <2>3 DEF RenderFrame, Render, RenderAt
    <3> QED BY <1>0, <3>1, <3>2, <3>3, <3>4, <3>5
  <2>4. CASE StoreResult
    <3>1. stopRequested' \in BOOLEAN /\ renderFinished' \in BOOLEAN
         /\ pipelineRunning' \in BOOLEAN /\ inputFinished' \in BOOLEAN
      BY <2>4 DEF StoreResult, Render, RenderAt
    <3>2. control' \in [pc : ControlPoints, next : SongsStarted]
      BY <2>4 DEF StoreResult, Render, RenderAt
    <3>3. decoder' \in [pc : DecodePoints, produced : 0 .. Chunks] /\ PushBound'
      BY <2>4 DEF StoreResult, Render, RenderAt
    <3>4. render' \in [pc : RenderPoints, error : BOOLEAN, finished : BOOLEAN]
      BY <2>4 DEF StoreResult, Render, RenderAt
    <3>5. /\ state' \in States /\ song' \in SongsStarted /\ format' \in Formats
          /\ renderer' \in {"none", "created", "running", "paused"}
          /\ pipeline' \in {"none", "ready", "running"}
          /\ mutex' \in {"free", "control", "decoder"} /\ controlMutex' \in {"free", "control"}
      BY <2>4 DEF StoreResult, Render, RenderAt
    <3> QED BY <1>0, <3>1, <3>2, <3>3, <3>4, <3>5
  <2>5. CASE StoreCompleted
    BY <2>5 DEF StoreCompleted, Render, RenderAt
  <2> QED BY <1>4, <2>1, <2>2, <2>3, <2>4, <2>5 DEF RenderStep
<1>5. CASE UNCHANGED vars
  BY <1>5 DEF vars
<1> QED BY <1>1, <1>2, <1>3, <1>4, <1>5 DEF Next

-----------------------------------------------------------------------------
(* The order of Stop, Start and the other threads. *)

\* Stop requests, joins and releases before a Start goes on, and nothing the
\* other threads do meanwhile brings back what it has taken down.
LEMMA StopStep ==
  ASSUME TypeOK, StopOrder, [Next]_vars
  PROVE  StopOrder'
<1> USE DEF TypeOK, StopOrder, Stopping, Joined, Released, ControlPoints, player, suite, buffer, locks, threads
<1>1. CASE Calls
  <2>1. CASE Start
    BY <2>1 DEF Start, CallStop, At, NoStart
  <2>2. CASE Stop
    BY <2>2 DEF Stop, CallStop, At, NoStart
  <2>3. CASE Seek
    BY <2>3 DEF Seek, CallStop, At, NoStart
  <2>4. CASE Pause
    BY <2>4 DEF Pause, Control, At
  <2>5. CASE Resume
    BY <2>5 DEF Resume, Control, At
  <2>6. CASE Initialize
    BY <2>6 DEF Initialize, Control, At
  <2>7. CASE SetParameters
    BY <2>7 DEF SetParameters, Control, At
  <2> QED BY <1>1, <2>1, <2>2, <2>3, <2>4, <2>5, <2>6, <2>7 DEF Calls
<1>2. CASE ControlStep
  <2>1. CASE StopRequest
    BY <2>1 DEF StopRequest, Control, At
  <2>2. CASE StopPipeline
    BY <2>2 DEF StopPipeline, Control, At
  <2>3. CASE PipelineStopped
    BY <2>3 DEF PipelineStopped, Control, At
  <2>4. CASE Join
    BY <2>4 DEF Join, Control, At
  <2>5. CASE ReleaseRenderer
    BY <2>5 DEF ReleaseRenderer, Control, At
  <2>6. CASE RendererReleased
    BY <2>6 DEF RendererReleased, Control, At
  <2>7. CASE Stopped
    BY <2>7 DEF Stopped, Control, At
  <2>8. CASE Started
    BY <2>8 DEF Started, Control, At
  <2>9. CASE StoreState
    BY <2>9 DEF StoreState, Control, At
  <2>10. CASE ParametersSet
    BY <2>10 DEF ParametersSet, Control, At
  <2> QED BY <1>2, <2>1, <2>2, <2>3, <2>4, <2>5, <2>6, <2>7, <2>8, <2>9, <2>10 DEF ControlStep
<1>3. CASE DecodeStep
  <2>1. CASE Open
    BY <2>1 DEF Open, Decode, DecodeAt
  <2>2. CASE Prepare
    BY <2>2 DEF Prepare, Decode, DecodeAt
  <2>3. CASE DecoderReady
    BY <2>3 DEF DecoderReady, Decode, DecodeAt
  <2>4. CASE StartPipeline
    BY <2>4 DEF StartPipeline, Decode, DecodeAt
  <2>5. CASE CreateRenderer
    BY <2>5 DEF CreateRenderer, Decode, DecodeAt
  <2>6. CASE StartRenderer
    BY <2>6 DEF StartRenderer, Decode, DecodeAt
  <2>7. CASE StoreStarted
    BY <2>7 DEF StoreStarted, Decode, DecodeAt
  <2>8. CASE Loop
    BY <2>8 DEF Loop, Decode, DecodeAt
  <2>9. CASE DecodeBuffer
    BY <2>9 DEF DecodeBuffer, Decode, DecodeAt
  <2>10. CASE PushPcm
    BY <2>10 DEF PushPcm, Decode, DecodeAt
  <2>11. CASE RecordError
    BY <2>11 DEF RecordError, Decode, DecodeAt
  <2>12. CASE StoreError
    BY <2>12 DEF StoreError, Decode, DecodeAt
  <2>13. CASE Finish
    BY <2>13 DEF Finish, Decode, DecodeAt
  <2> QED BY <1>3, <2>1, <2>2, <2>3, <2>4, <2>5, <2>6, <2>7, <2>8, <2>9, <2>10, <2>11, <2>12, <2>13 DEF DecodeStep
<1>4. CASE RenderStep
  <2>1. CASE OnWriteData
    BY <2>1 DEF OnWriteData, Render, RenderAt
  <2>2. CASE GetPipeline
    BY <2>2 DEF GetPipeline, Render, RenderAt
  <2>3. CASE RenderFrame
    BY <2>3 DEF RenderFrame, Render, RenderAt
  <2>4. CASE StoreResult
    BY <2>4 DEF StoreResult, Render, RenderAt
  <2>5. CASE StoreCompleted
    BY <2>5 DEF StoreCompleted, Render, RenderAt
  <2> QED BY <1>4, <2>1, <2>2, <2>3, <2>4, <2>5 DEF RenderStep
<1>5. CASE UNCHANGED vars
  BY <1>5 DEF vars
<1> QED BY <1>1, <1>2, <1>3, <1>4, <1>5 DEF Next

\* The callback has a renderer, and the renderer a pipeline.
LEMMA RendererStep ==
  ASSUME TypeOK, StopOrder, RendererOrder, [Next]_vars
  PROVE  RendererOrder'
<1> USE DEF TypeOK, StopOrder, RendererOrder, Preparing, Joined, Released, player, suite, buffer, locks, threads
<1>1. CASE Calls
  <2>1. CASE Start
    BY <2>1 DEF Start, CallStop, At, NoStart
  <2>2. CASE Stop
    BY <2>2 DEF Stop, CallStop, At, NoStart
  <2>3. CASE Seek
    BY <2>3 DEF Seek, CallStop, At, NoStart
  <2>4. CASE Pause
    BY <2>4 DEF Pause, Control, At
  <2>5. CASE Resume
    BY <2>5 DEF Resume, Control, At
  <2>6. CASE Initialize
    BY <2>6 DEF Initialize, Control, At
  <2>7. CASE SetParameters
    BY <2>7 DEF SetParameters, Control, At
  <2> QED BY <1>1, <2>1, <2>2, <2>3, <2>4, <2>5, <2>6, <2>7 DEF Calls
<1>2. CASE ControlStep
  <2>1. CASE StopRequest
    BY <2>1 DEF StopRequest, Control, At
  <2>2. CASE StopPipeline
    BY <2>2 DEF StopPipeline, Control, At
  <2>3. CASE PipelineStopped
    BY <2>3 DEF PipelineStopped, Control, At
  <2>4. CASE Join
    BY <2>4 DEF Join, Control, At
  <2>5. CASE ReleaseRenderer
    BY <2>5 DEF ReleaseRenderer, Control, At
  <2>6. CASE RendererReleased
    BY <2>6 DEF RendererReleased, Control, At
  <2>7. CASE Stopped
    BY <2>7 DEF Stopped, Control, At
  <2>8. CASE Started
    BY <2>8 DEF Started, Control, At
  <2>9. CASE StoreState
    BY <2>9 DEF StoreState, Control, At
  <2>10. CASE ParametersSet
    BY <2>10 DEF ParametersSet, Control, At
  <2> QED BY <1>2, <2>1, <2>2, <2>3, <2>4, <2>5, <2>6, <2>7, <2>8, <2>9, <2>10 DEF ControlStep
<1>3. CASE DecodeStep
  <2>1. CASE Open
    BY <2>1 DEF Open, Decode, DecodeAt
  <2>2. CASE Prepare
    BY <2>2 DEF Prepare, Decode, DecodeAt
  <2>3. CASE DecoderReady
    BY <2>3 DEF DecoderReady, Decode, DecodeAt
  <2>4. CASE StartPipeline
    BY <2>4 DEF StartPipeline, Decode, DecodeAt
  <2>5. CASE CreateRenderer
    BY <2>5 DEF CreateRenderer, Decode, DecodeAt
  <2>6. CASE StartRenderer
    BY <2>6 DEF StartRenderer, Decode, DecodeAt
  <2>7. CASE StoreStarted
    BY <2>7 DEF StoreStarted, Decode, DecodeAt
  <2>8. CASE Loop
    BY <2>8 DEF Loop, Decode, DecodeAt
  <2>9. CASE DecodeBuffer
    BY <2>9 DEF DecodeBuffer, Decode, DecodeAt
  <2>10. CASE PushPcm
    BY <2>10 DEF PushPcm, Decode, DecodeAt
  <2>11. CASE RecordError
    BY <2>11 DEF RecordError, Decode, DecodeAt
  <2>12. CASE StoreError
    BY <2>12 DEF StoreError, Decode, DecodeAt
  <2>13. CASE Finish
    BY <2>13 DEF Finish, Decode, DecodeAt
  <2> QED BY <1>3, <2>1, <2>2, <2>3, <2>4, <2>5, <2>6, <2>7, <2>8, <2>9, <2>10, <2>11, <2>12, <2>13 DEF DecodeStep
<1>4. CASE RenderStep
  <2>1. CASE OnWriteData
    BY <2>1 DEF OnWriteData, Render, RenderAt
  <2>2. CASE GetPipeline
    BY <2>2 DEF GetPipeline, Render, RenderAt
  <2>3. CASE RenderFrame
    BY <2>3 DEF RenderFrame, Render, RenderAt
  <2>4. CASE StoreResult
    BY <2>4 DEF StoreResult, Render, RenderAt
  <2>5. CASE StoreCompleted
    BY <2>5 DEF StoreCompleted, Render, RenderAt
  <2> QED BY <1>4, <2>1, <2>2, <2>3, <2>4, <2>5 DEF RenderStep
<1>5. CASE UNCHANGED vars
  BY <1>5 DEF vars
<1> QED BY <1>1, <1>2, <1>3, <1>4, <1>5 DEF Next

\* Pending PCM is of the last song: only a Start changes which song that is, and
\* it finds none.
LEMMA PcmOfSongStep ==
  ASSUME TypeOK, StopOrder, PcmOfSong, [Next]_vars
  PROVE  PcmOfSong'
<1>1. CASE song' = song
  <2>1. song.n \in 0 .. MaxStarts /\ pcm \in Seq(0 .. MaxStarts)
    BY DEF TypeOK, SongsStarted
  <2> QED BY <1>1, <2>1, PcmChanges, PcmStepOfSong DEF PcmOfSong
<1>2. CASE song' # song
  <2>1. Started
    BY <1>2 DEF Next, Calls, ControlStep, DecodeStep, RenderStep, vars, player, StopRequest, StopPipeline, PipelineStopped, Join, ReleaseRenderer, RendererReleased, Stopped, StoreState, ParametersSet, Open, Prepare, DecoderReady, StartPipeline, CreateRenderer, StartRenderer, StoreStarted, Loop, DecodeBuffer, PushPcm, RecordError, StoreError, Finish, OnWriteData, GetPipeline, RenderFrame, StoreResult, StoreCompleted, Start, Stop, Seek, Pause, Resume, Initialize, SetParameters, CallStop
  <2>2. pcm' = <<>>
    BY <2>1 DEF Started, At, StopOrder, buffer
  <2> QED BY <2>2 DEF PcmOfSong
<1> QED BY <1>1, <1>2

\* Unless a stop is requested the input ends only with the decode thread.
LEMMA InputStep ==
  ASSUME TypeOK, StopOrder, RendererOrder, InputOrder, [Next]_vars
  PROVE  InputOrder'
<1> USE DEF TypeOK, StopOrder, Stopping, Joined, Released, RendererOrder, InputOrder, Preparing, ControlPoints, player, suite, buffer, locks, threads
<1>1. CASE Calls
  <2>1. CASE Start
    BY <2>1 DEF Start, CallStop, At, NoStart
  <2>2. CASE Stop
    BY <2>2 DEF Stop, CallStop, At, NoStart
  <2>3. CASE Seek
    BY <2>3 DEF Seek, CallStop, At, NoStart
  <2>4. CASE Pause
    BY <2>4 DEF Pause, Control, At
  <2>5. CASE Resume
    BY <2>5 DEF Resume, Control, At
  <2>6. CASE Initialize
    BY <2>6 DEF Initialize, Control, At
  <2>7. CASE SetParameters
    BY <2>7 DEF SetParameters, Control, At
  <2> QED BY <1>1, <2>1, <2>2, <2>3, <2>4, <2>5, <2>6, <2>7 DEF Calls
<1>2. CASE ControlStep
  <2>1. CASE StopRequest
    BY <2>1 DEF StopRequest, Control, At
  <2>2. CASE StopPipeline
    BY <2>2 DEF StopPipeline, Control, At
  <2>3. CASE PipelineStopped
    BY <2>3 DEF PipelineStopped, Control, At
  <2>4. CASE Join
    BY <2>4 DEF Join, Control, At
  <2>5. CASE ReleaseRenderer
    BY <2>5 DEF ReleaseRenderer, Control, At
  <2>6. CASE RendererReleased
    BY <2>6 DEF RendererReleased, Control, At
  <2>7. CASE Stopped
    BY <2>7 DEF Stopped, Control, At
  <2>8. CASE Started
    BY <2>8 DEF Started, Control, At
  <2>9. CASE StoreState
    BY <2>9 DEF StoreState, Control, At
  <2>10. CASE ParametersSet
    BY <2>10 DEF ParametersSet, Control, At
  <2> QED BY <1>2, <2>1, <2>2, <2>3, <2>4, <2>5, <2>6, <2>7, <2>8, <2>9, <2>10 DEF ControlStep
<1>3. CASE DecodeStep
  <2>1. CASE Open
    BY <2>1 DEF Open, Decode, DecodeAt
  <2>2. CASE Prepare
    BY <2>2 DEF Prepare, Decode, DecodeAt
  <2>3. CASE DecoderReady
    BY <2>3 DEF DecoderReady, Decode, DecodeAt
  <2>4. CASE StartPipeline
    BY <2>4 DEF StartPipeline, Decode, DecodeAt
  <2>5. CASE CreateRenderer
    BY <2>5 DEF CreateRenderer, Decode, DecodeAt
  <2>6. CASE StartRenderer
    BY <2>6 DEF StartRenderer, Decode, DecodeAt
  <2>7. CASE StoreStarted
    BY <2>7 DEF StoreStarted, Decode, DecodeAt
  <2>8. CASE Loop
    BY <2>8 DEF Loop, Decode, DecodeAt
  <2>9. CASE DecodeBuffer
    BY <2>9 DEF DecodeBuffer, Decode, DecodeAt
  <2>10. CASE PushPcm
    BY <2>10 DEF PushPcm, Decode, DecodeAt
  <2>11. CASE RecordError
    BY <2>11 DEF RecordError, Decode, DecodeAt
  <2>12. CASE StoreError
    BY <2>12 DEF StoreError, Decode, DecodeAt
  <2>13. CASE Finish
    BY <2>13 DEF Finish, Decode, DecodeAt
  <2> QED BY <1>3, <2>1, <2>2, <2>3, <2>4, <2>5, <2>6, <2>7, <2>8, <2>9, <2>10, <2>11, <2>12, <2>13 DEF DecodeStep
<1>4. CASE RenderStep
  <2>1. CASE OnWriteData
    BY <2>1 DEF OnWriteData, Render, RenderAt
  <2>2. CASE GetPipeline
    BY <2>2 DEF GetPipeline, Render, RenderAt
  <2>3. CASE RenderFrame
    BY <2>3 DEF RenderFrame, Render, RenderAt
  <2>4. CASE StoreResult
    BY <2>4 DEF StoreResult, Render, RenderAt
  <2>5. CASE StoreCompleted
    BY <2>5 DEF StoreCompleted, Render, RenderAt
  <2> QED BY <1>4, <2>1, <2>2, <2>3, <2>4, <2>5 DEF RenderStep
<1>5. CASE UNCHANGED vars
  BY <1>5 DEF vars
<1> QED BY <1>1, <1>2, <1>3, <1>4, <1>5 DEF Next

\* The end of a song, once found by the callback, lasts until a stop.
LEMMA EndStep ==
  ASSUME TypeOK, StopOrder, RendererOrder, InputOrder, EndOrder, [Next]_vars
  PROVE  EndOrder'
<1> USE DEF TypeOK, StopOrder, Stopping, Joined, Released, RendererOrder, InputOrder, EndOrder, Ended, Preparing, ControlPoints, player, suite, buffer, locks, threads
<1>1. CASE Calls
  <2>1. CASE Start
    BY <2>1 DEF Start, CallStop, At, NoStart
  <2>2. CASE Stop
    BY <2>2 DEF Stop, CallStop, At, NoStart
  <2>3. CASE Seek
    BY <2>3 DEF Seek, CallStop, At, NoStart
  <2>4. CASE Pause
    BY <2>4 DEF Pause, Control, At
  <2>5. CASE Resume
    BY <2>5 DEF Resume, Control, At
  <2>6. CASE Initialize
    BY <2>6 DEF Initialize, Control, At
  <2>7. CASE SetParameters
    BY <2>7 DEF SetParameters, Control, At
  <2> QED BY <1>1, <2>1, <2>2, <2>3, <2>4, <2>5, <2>6, <2>7 DEF Calls
<1>2. CASE ControlStep
  <2>1. CASE StopRequest
    BY <2>1 DEF StopRequest, Control, At
  <2>2. CASE StopPipeline
    BY <2>2 DEF StopPipeline, Control, At
  <2>3. CASE PipelineStopped
    BY <2>3 DEF PipelineStopped, Control, At
  <2>4. CASE Join
    BY <2>4 DEF Join, Control, At
  <2>5. CASE ReleaseRenderer
    BY <2>5 DEF ReleaseRenderer, Control, At
  <2>6. CASE RendererReleased
    BY <2>6 DEF RendererReleased, Control, At
  <2>7. CASE Stopped
    BY <2>7 DEF Stopped, Control, At
  <2>8. CASE Started
    BY <2>8 DEF Started, Control, At
  <2>9. CASE StoreState
    BY <2>9 DEF StoreState, Control, At
  <2>10. CASE ParametersSet
    BY <2>10 DEF ParametersSet, Control, At
  <2> QED BY <1>2, <2>1, <2>2, <2>3, <2>4, <2>5, <2>6, <2>7, <2>8, <2>9, <2>10 DEF ControlStep
<1>3. CASE DecodeStep
  <2>1. CASE Open
    BY <2>1 DEF Open, Decode, DecodeAt
  <2>2. CASE Prepare
    BY <2>2 DEF Prepare, Decode, DecodeAt
  <2>3. CASE DecoderReady
    BY <2>3 DEF DecoderReady, Decode, DecodeAt
  <2>4. CASE StartPipeline
    BY <2>4 DEF StartPipeline, Decode, DecodeAt
  <2>5. CASE CreateRenderer
    BY <2>5 DEF CreateRenderer, Decode, DecodeAt
  <2>6. CASE StartRenderer
    BY <2>6 DEF StartRenderer, Decode, DecodeAt
  <2>7. CASE StoreStarted
    BY <2>7 DEF StoreStarted, Decode, DecodeAt
  <2>8. CASE Loop
    BY <2>8 DEF Loop, Decode, DecodeAt
  <2>9. CASE DecodeBuffer
    BY <2>9 DEF DecodeBuffer, Decode, DecodeAt
  <2>10. CASE PushPcm
    BY <2>10 DEF PushPcm, Decode, DecodeAt
  <2>11. CASE RecordError
    BY <2>11 DEF RecordError, Decode, DecodeAt
  <2>12. CASE StoreError
    BY <2>12 DEF StoreError, Decode, DecodeAt
  <2>13. CASE Finish
    BY <2>13 DEF Finish, Decode, DecodeAt
  <2> QED BY <1>3, <2>1, <2>2, <2>3, <2>4, <2>5, <2>6, <2>7, <2>8, <2>9, <2>10, <2>11, <2>12, <2>13 DEF DecodeStep
<1>4. CASE RenderStep
  <2>1. CASE OnWriteData
    BY <2>1 DEF OnWriteData, Render, RenderAt
  <2>2. CASE GetPipeline
    BY <2>2 DEF GetPipeline, Render, RenderAt
  <2>3. CASE RenderFrame
    BY <2>3 DEF RenderFrame, Render, RenderAt
  <2>4. CASE StoreResult
    BY <2>4 DEF StoreResult, Render, RenderAt
  <2>5. CASE StoreCompleted
    BY <2>5 DEF StoreCompleted, Render, RenderAt
  <2> QED BY <1>4, <2>1, <2>2, <2>3, <2>4, <2>5 DEF RenderStep
<1>5. CASE UNCHANGED vars
  BY <1>5 DEF vars
<1> QED BY <1>1, <1>2, <1>3, <1>4, <1>5 DEF Next

\* The state keeps saying what the threads are doing.
LEMMA StateStep ==
  ASSUME TypeOK, StopOrder, RendererOrder, InputOrder, EndOrder, StateOrder, [Next]_vars
  PROVE  StateOrder'
<1> USE DEF TypeOK, StopOrder, Stopping, Joined, Released, RendererOrder, InputOrder, EndOrder, Ended, StateOrder, Starting, Preparing, ControlPoints, player, suite, buffer, locks, threads
<1>1. CASE Calls
  <2>1. CASE Start
    BY <2>1 DEF Start, CallStop, At, NoStart
  <2>2. CASE Stop
    BY <2>2 DEF Stop, CallStop, At, NoStart
  <2>3. CASE Seek
    BY <2>3 DEF Seek, CallStop, At, NoStart
  <2>4. CASE Pause
    BY <2>4 DEF Pause, Control, At
  <2>5. CASE Resume
    BY <2>5 DEF Resume, Control, At
  <2>6. CASE Initialize
    BY <2>6 DEF Initialize, Control, At
  <2>7. CASE SetParameters
    BY <2>7 DEF SetParameters, Control, At
  <2> QED BY <1>1, <2>1, <2>2, <2>3, <2>4, <2>5, <2>6, <2>7 DEF Calls
<1>2. CASE ControlStep
  <2>1. CASE StopRequest
    BY <2>1 DEF StopRequest, Control, At
  <2>2. CASE StopPipeline
    BY <2>2 DEF StopPipeline, Control, At
  <2>3. CASE PipelineStopped
    BY <2>3 DEF PipelineStopped, Control, At
  <2>4. CASE Join
    BY <2>4 DEF Join, Control, At
  <2>5. CASE ReleaseRenderer
    BY <2>5 DEF ReleaseRenderer, Control, At
  <2>6. CASE RendererReleased
    BY <2>6 DEF RendererReleased, Control, At
  <2>7. CASE Stopped
    BY <2>7 DEF Stopped, Control, At
  <2>8. CASE Started
    BY <2>8 DEF Started, Control, At
  <2>9. CASE StoreState
    BY <2>9 DEF StoreState, Control, At
  <2>10. CASE ParametersSet
    BY <2>10 DEF ParametersSet, Control, At
  <2> QED BY <1>2, <2>1, <2>2, <2>3, <2>4, <2>5, <2>6, <2>7, <2>8, <2>9, <2>10 DEF ControlStep
<1>3. CASE DecodeStep
  <2>1. CASE Open
    BY <2>1 DEF Open, Decode, DecodeAt
  <2>2. CASE Prepare
    BY <2>2 DEF Prepare, Decode, DecodeAt
  <2>3. CASE DecoderReady
    BY <2>3 DEF DecoderReady, Decode, DecodeAt
  <2>4. CASE StartPipeline
    BY <2>4 DEF StartPipeline, Decode, DecodeAt
  <2>5. CASE CreateRenderer
    BY <2>5 DEF CreateRenderer, Decode, DecodeAt
  <2>6. CASE StartRenderer
    BY <2>6 DEF StartRenderer, Decode, DecodeAt
  <2>7. CASE StoreStarted
    BY <2>7 DEF StoreStarted, Decode, DecodeAt
  <2>8. CASE Loop
    BY <2>8 DEF Loop, Decode, DecodeAt
  <2>9. CASE DecodeBuffer
    BY <2>9 DEF DecodeBuffer, Decode, DecodeAt
  <2>10. CASE PushPcm
    BY <2>10 DEF PushPcm, Decode, DecodeAt
  <2>11. CASE RecordError
    BY <2>11 DEF RecordError, Decode, DecodeAt
  <2>12. CASE StoreError
    BY <2>12 DEF StoreError, Decode, DecodeAt
  <2>13. CASE Finish
    BY <2>13 DEF Finish, Decode, DecodeAt
  <2> QED BY <1>3, <2>1, <2>2, <2>3, <2>4, <2>5, <2>6, <2>7, <2>8, <2>9, <2>10, <2>11, <2>12, <2>13 DEF DecodeStep
<1>4. CASE RenderStep
  <2>1. CASE OnWriteData
    BY <2>1 DEF OnWriteData, Render, RenderAt
  <2>2. CASE GetPipeline
    BY <2>2 DEF GetPipeline, Render, RenderAt
  <2>3. CASE RenderFrame
    BY <2>3 DEF RenderFrame, Render, RenderAt
  <2>4. CASE StoreResult
    BY <2>4 DEF StoreResult, Render, RenderAt
  <2>5. CASE StoreCompleted
    BY <2>5 DEF StoreCompleted, Render, RenderAt
  <2> QED BY <1>4, <2>1, <2>2, <2>3, <2>4, <2>5 DEF RenderStep
<1>5. CASE UNCHANGED vars
  BY <1>5 DEF vars
<1> QED BY <1>1, <1>2, <1>3, <1>4, <1>5 DEF Next

\* Every step is a step of the contract or none at all, as its callers see it.
LEMMA ContractStep ==
  ASSUME Inv, [Next]_vars
  PROVE  [Contract!Calls \/ Contract!Threads]_(Contract!contract)
<1> USE DEF Inv, TypeOK, SongsStarted, StopOrder, Stopping, Joined, Released, RendererOrder, EndOrder, Ended, StateOrder, Starting, Preparing, ControlPoints, States, player, suite, buffer, locks, threads
<1> USE DEF Reported, At, Contract!contract, Contract!Calls, Contract!Threads, Contract!PlayerStop, Contract!PlayerStart, Contract!PlayerPause, Contract!PlayerResume, Contract!Started, Contract!Failed, Contract!Ended
<1>1. CASE Calls
  <2>1. CASE Start
    BY <2>1 DEF Start, CallStop, At, NoStart
  <2>2. CASE Stop
    BY <2>2 DEF Stop, CallStop, At, NoStart
  <2>3. CASE Seek
    BY <2>3 DEF Seek, CallStop, At, NoStart
  <2>4. CASE Pause
    BY <2>4 DEF Pause, Control, At
  <2>5. CASE Resume
    BY <2>5 DEF Resume, Control, At
  <2>6. CASE Initialize
    BY <2>6 DEF Initialize, Control, At
  <2>7. CASE SetParameters
    BY <2>7 DEF SetParameters, Control, At
  <2> QED BY <1>1, <2>1, <2>2, <2>3, <2>4, <2>5, <2>6, <2>7 DEF Calls
<1>2. CASE ControlStep
  <2>1. CASE StopRequest
    BY <2>1 DEF StopRequest, Control, At
  <2>2. CASE StopPipeline
    BY <2>2 DEF StopPipeline, Control, At
  <2>3. CASE PipelineStopped
    BY <2>3 DEF PipelineStopped, Control, At
  <2>4. CASE Join
    BY <2>4 DEF Join, Control, At
  <2>5. CASE ReleaseRenderer
    BY <2>5 DEF ReleaseRenderer, Control, At
  <2>6. CASE RendererReleased
    BY <2>6 DEF RendererReleased, Control, At
  <2>7. CASE Stopped
    BY <2>7 DEF Stopped, Control, At
  <2>8. CASE Started
    BY <2>8 DEF Started, Control, At
  <2>9. CASE StoreState
    BY <2>9 DEF StoreState, Control, At
  <2>10. CASE ParametersSet
    BY <2>10 DEF ParametersSet, Control, At
  <2> QED BY <1>2, <2>1, <2>2, <2>3, <2>4, <2>5, <2>6, <2>7, <2>8, <2>9, <2>10 DEF ControlStep
<1>3. CASE DecodeStep
  <2>1. CASE Open
    BY <2>1 DEF Open, Decode, DecodeAt
  <2>2. CASE Prepare
    BY <2>2 DEF Prepare, Decode, DecodeAt
  <2>3. CASE DecoderReady
    BY <2>3 DEF DecoderReady, Decode, DecodeAt
  <2>4. CASE StartPipeline
    BY <2>4 DEF StartPipeline, Decode, DecodeAt
  <2>5. CASE CreateRenderer
    BY <2>5 DEF CreateRenderer, Decode, DecodeAt
  <2>6. CASE StartRenderer
    BY <2>6 DEF StartRenderer, Decode, DecodeAt
  <2>7. CASE StoreStarted
    BY <2>7 DEF StoreStarted, Decode, DecodeAt
  <2>8. CASE Loop
    BY <2>8 DEF Loop, Decode, DecodeAt
  <2>9. CASE DecodeBuffer
    BY <2>9 DEF DecodeBuffer, Decode, DecodeAt
  <2>10. CASE PushPcm
    BY <2>10 DEF PushPcm, Decode, DecodeAt
  <2>11. CASE RecordError
    BY <2>11 DEF RecordError, Decode, DecodeAt
  <2>12. CASE StoreError
    BY <2>12 DEF StoreError, Decode, DecodeAt
  <2>13. CASE Finish
    BY <2>13 DEF Finish, Decode, DecodeAt
  <2> QED BY <1>3, <2>1, <2>2, <2>3, <2>4, <2>5, <2>6, <2>7, <2>8, <2>9, <2>10, <2>11, <2>12, <2>13 DEF DecodeStep
<1>4. CASE RenderStep
  <2>1. CASE OnWriteData
    BY <2>1 DEF OnWriteData, Render, RenderAt
  <2>2. CASE GetPipeline
    BY <2>2 DEF GetPipeline, Render, RenderAt
  <2>3. CASE RenderFrame
    BY <2>3 DEF RenderFrame, Render, RenderAt
  <2>4. CASE StoreResult
    BY <2>4 DEF StoreResult, Render, RenderAt
  <2>5. CASE StoreCompleted
    BY <2>5 DEF StoreCompleted, Render, RenderAt
  <2> QED BY <1>4, <2>1, <2>2, <2>3, <2>4, <2>5 DEF RenderStep
<1>5. CASE UNCHANGED vars
  BY <1>5 DEF vars
<1> QED BY <1>1, <1>2, <1>3, <1>4, <1>5 DEF Next

-----------------------------------------------------------------------------
(* The invariant and what follows from it. *)

\* Nothing is started: there is neither a thread, nor a renderer, nor PCM.
LEMMA InitInv == Init => Inv
<1> SUFFICES ASSUME Init PROVE Inv
  OBVIOUS
<1>1. NoStart \in SongsStarted
  <2>1. (CHOOSE f \in Formats : TRUE) \in Formats
    BY NativeAssumption DEF NativeAssumption
  <2> QED BY <2>1, NativeAssumption DEF NoStart, SongsStarted, NativeAssumption
<1>2. TypeOK
  <2>1. control \in [pc : ControlPoints, next : SongsStarted] /\ song \in SongsStarted
    BY <1>1 DEF Init, ControlPoints
  <2>2. decoder \in [pc : DecodePoints, produced : 0 .. Chunks]
    BY NativeAssumption DEF Init, DecodePoints, NativeAssumption
  <2>3. render \in [pc : RenderPoints, error : BOOLEAN, finished : BOOLEAN]
    BY DEF Init, RenderPoints
  <2>4. pcm \in Seq(0 .. MaxStarts) /\ Len(pcm) <= PcmLimit
    BY NativeAssumption DEF Init, NativeAssumption
  <2> QED BY <2>1, <2>2, <2>3, <2>4 DEF Init, TypeOK, States
<1>3. PushBound /\ StopOrder /\ RendererOrder /\ PcmOfSong /\ InputOrder /\ EndOrder /\ StateOrder
  BY DEF Init, PushBound, StopOrder, Stopping, Joined, Released, RendererOrder, Preparing,
         PcmOfSong, InputOrder, EndOrder, StateOrder, Starting
<1> QED BY <1>2, <1>3 DEF Inv

\* Inv holds in every reachable state, with the lemmas above for its parts.
LEMMA Invariance == Spec => []Inv
<1>1. Inv /\ [Next]_vars => Inv'
  BY TypeStep, StopStep, RendererStep, PcmOfSongStep, InputStep, EndStep, StateStep DEF Inv
<1> QED BY InitInv, <1>1, PTL DEF Spec

\* The variables keep their types, and pending PCM its limit, whatever the
\* order in which the three threads run.
THEOREM TypeCorrect == Spec => []TypeOK
<1>1. Inv => TypeOK
  BY DEF Inv
<1> QED BY Invariance, <1>1, PTL

\* The audio callback never renders with a pipeline that DestroyPipeline has
\* freed: a pipeline is rebuilt only with no renderer, and ReleaseRenderer has
\* waited for the callback.
THEOREM RendersLive == Spec => []RendersLivePipeline
<1>1. Inv => RendersLivePipeline
  BY DEF Inv, RendererOrder, RendersLivePipeline
<1> QED BY Invariance, <1>1, PTL

\* After Start no buffer of an earlier song is left for the callback.
THEOREM NoStale == Spec => []NoStaleAudio
<1>1. Inv => NoStaleAudio
  BY DEF Inv, PcmOfSong, NoStaleAudio
<1> QED BY Invariance, <1>1, PTL

\* "completed" is never reported while a buffer is unplayed or may still come.
THEOREM CompletedDrained == Spec => []CompletedMeansDrained
<1>1. Inv => CompletedMeansDrained
  BY DEF Inv, EndOrder, Ended, CompletedMeansDrained
<1> QED BY Invariance, <1>1, PTL

\* Whatever the three threads do, the JavaScript thread sees a NativePlayback: after
\* Stop nothing of the song is heard of, and a state follows another only as the
\* contract allows.
THEOREM ContractKept == Spec => KeepsContract
<1>1. Init => Contract!Init
  BY DEF Init, Contract!Init, Reported, At, NoStart
<1>2. Inv /\ [Next]_vars => [Contract!Calls \/ Contract!Threads]_(Contract!contract)
  BY ContractStep
<1> QED BY Invariance, <1>1, <1>2, PTL DEF Spec, KeepsContract, Contract!Spec
=============================================================================
