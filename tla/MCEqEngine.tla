----------------------------- MODULE MCEqEngine -----------------------------
(***************************************************************************)
(* TLC instance of EqEngine.  The history variables remember what has got  *)
(* in the way of the player or of a song asked for.                        *)
(***************************************************************************)
EXTENDS EqEngine, TLC

CONSTANT MaxActs  \* bound on the acts of the user and the failures of players

VARIABLES acts,         \* how many there have been
          strayed,      \* the native player has had a song while the equalizer was
                        \* switched off, or was started by a superseded play call
          revived,      \* the native player was started while the AVPlayer still had a
                        \* URL to prepare and, after it, the user's play key to obey
          overtaken,    \* since the last song was asked for, a play call has been
                        \* superseded, or cancelled, while it waited for its pause
          soughtAtEnd   \* the native player was sought in while nobody polled it

mcVars == <<eqVars, acts, strayed, revived, overtaken, soughtAtEnd>>

Symmetry == Permutations(Songs) \cup Permutations(Slots)

Act == EqUserActs \/ AvFails \/ (native # "ERROR" /\ native' = "ERROR")

StartedBySuperseded ==
  \E s \in Slots : tasks[s].step = "nativeReset" /\ ~tasks[s].fresh /\ tasks'[s].step = "none"

\* The AVPlayer will execute the command of s before that of t.
Before(s, t) == \E i, j \in DOMAIN avQueue : i < j /\ avQueue[i] = s /\ avQueue[j] = t

\* A key of the user, a seek included, plays what a superseded call has prepared.
Revives ==
  /\ \E s \in Slots : /\ tasks[s].step \in {"resolve", "resolveAgain", "nativeReset"}
                      /\ tasks'[s].step = "none" /\ native' = "LOADING"
  /\ \E s, t \in Slots : /\ Before(s, t) /\ tasks[s].step = "prepare"
                         /\ tasks[t].step \in {"togglePlay", "seek", "seekPlay"}

Overtakes ==
  \E s \in Slots : tasks[s].step = "pause" /\ tasks[s].fresh /\ ~tasks'[s].fresh

MCInit ==
  /\ EqInit
  /\ acts = 0
  /\ strayed = FALSE
  /\ revived = FALSE
  /\ overtaken = FALSE
  /\ soughtAtEnd = FALSE

MCNext ==
  /\ EqNext
  /\ acts' = IF Act THEN acts + 1 ELSE acts
  /\ acts' <= MaxActs
  /\ strayed' = (strayed \/ (usingNativeEq' /\ ~eqEnabled') \/ StartedBySuperseded)
  /\ revived' = (revived \/ Revives)
  /\ overtaken' = (~PlaysNew /\ (overtaken \/ Overtakes))
  /\ soughtAtEnd' = (~polling' /\ (soughtAtEnd \/ (usingNativeEq /\ EqSeekTo)))

MCSpec == MCInit /\ [][MCNext]_mcVars

-----------------------------------------------------------------------------
\* Two songs, or one song twice, never sound at once, whichever player each step of
\* a play call, a fallback or a switch has chosen, unless the native player has strayed,
\* or the user's play key, not yet obeyed, revives what a superseded call has prepared.
OnePlayerSounds == strayed \/ revived \/ ~(native = "PLAYING" /\ avState = "playing")

\* The native player never holds a song the engine has forgotten about, which no key
\* would stop, unless it has strayed.
NativeIsControlled == strayed \/ (native # "IDLE" => usingNativeEq)

\* The screen never shows a loading song that nothing will settle: besides what
\* PlayerEngine has for it, the progress timer polls a song that is played natively.
EqLoadingIsAttended ==
  status \in Loading =>
    \/ \E s \in Slots : tasks[s].fresh \/ tasks[s].step \in {"cancel", "background"}
    \/ loadingTimer \/ errorSkip
    \/ usingNativeEq /\ polling
    \/ soughtAtEnd

\* Once nothing is in flight the song the native player plays is the one shown,
\* unless the player has strayed or the song asked for was overtaken.
NativePlaysShownSong ==
  Quiescent /\ native \in {"PLAYING", "PAUSED"} /\ ~strayed /\ ~overtaken =>
    nativeSong = currentSong
=============================================================================
