--------------------------- MODULE NativePlayback ---------------------------
(***************************************************************************)
(* What the native player promises its caller, the JavaScript thread: the  *)
(* values playerGetState returns between calls, and how calls and the      *)
(* threads behind them change it.  NativeEqPlayer implements it, EqEngine  *)
(* is built on it.                                                         *)
(***************************************************************************)
VARIABLES native,  \* what playerGetState answers
          auto     \* the last start plays at once

contract == <<native, auto>>

NativeStates == {"IDLE", "LOADING", "PLAYING", "PAUSED", "COMPLETED", "ERROR"}

\* The calls.  After playerStop nothing that belongs to the song is heard of again.
PlayerStop == native' = "IDLE" /\ UNCHANGED auto
PlayerStart(plays) == native' = "LOADING" /\ auto' = plays
PlayerPause == native = "PLAYING" /\ native' = "PAUSED" /\ UNCHANGED auto
PlayerResume == native = "PAUSED" /\ native' = "PLAYING" /\ UNCHANGED auto

\* The threads.  A start may be reported after an error of the first frame, and a
\* buffer that is drained after an error passes for the end of the song.
Started ==
  /\ native \in {"LOADING", "ERROR"}
  /\ native' = IF auto THEN "PLAYING" ELSE "PAUSED"
  /\ UNCHANGED auto

Failed ==
  /\ native \in {"LOADING", "PLAYING", "PAUSED"}
  /\ native' = "ERROR"
  /\ UNCHANGED auto

Ended ==
  /\ native \in {"PLAYING", "PAUSED", "ERROR"}
  /\ native' = "COMPLETED"
  /\ UNCHANGED auto

Threads == Started \/ Failed \/ Ended
Calls == PlayerStop \/ (\E plays \in BOOLEAN : PlayerStart(plays)) \/ PlayerPause \/ PlayerResume

Init == native = "IDLE" /\ auto = FALSE
Spec == Init /\ [][Calls \/ Threads]_contract
=============================================================================
