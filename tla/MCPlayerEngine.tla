--------------------------- MODULE MCPlayerEngine ---------------------------
(***************************************************************************)
(* TLC instance of PlayerEngine.  The history variables remember what the  *)
(* user wanted last, what has got in the way of a song asked for, and who  *)
(* has written a status that the AVPlayer does not bear out.               *)
(***************************************************************************)
EXTENDS PlayerEngine, TLC

VARIABLES cancelled,  \* the last thing the user did was to cancel a loading song
          silenced,   \* the AVPlayer failed while paused, with nothing in flight
          overtaken,  \* since the last song was asked for, the previous one was retried
                      \* while a play call was still waiting for its pause
          revived,    \* a seek or a press of the play key was in flight when the last song
                      \* was asked for, or has followed
          misstated,  \* the status is what `next` at the end of the queue, or a play call that
                      \* took its song for not started, has written over a song that plays
          unheard     \* the last failure event of the error that is shown has found the engine
                      \* paused or idle

mcVars == <<vars, cancelled, silenced, overtaken, revived, misstated, unheard>>

Symmetry == Permutations(Songs) \cup Permutations(Slots)

\* A call that may start the AVPlayer besides play.
Reviving == {"togglePlay", "seek", "seekPlay"}
AsksForSong == \E s \in Slots : Free(s) /\ tasks'[s].step = "pause"

\* PlayerEngine.next finds the queue at its end: no call begins.
QueueEnds == (UserPlays \/ ErrorSkipTimeout) /\ UNCHANGED tasks
\* Call s of play reports a failed start (lines 456-461) though nothing was rejected: it
\* was superseded, or has waited 8 s for 'initialized'.
StartFails(s) ==
  /\ \/ tasks[s].step \in {"reset", "init"}
     \/ tasks[s].step \in {"prepare", "start"} /\ tasks[s].result = "ok"
  /\ NotStarted(s)

MCInit ==
  /\ Init
  /\ cancelled = FALSE /\ silenced = FALSE
  /\ overtaken = FALSE /\ revived = FALSE
  /\ misstated = FALSE /\ unheard = FALSE

MCNext ==
  /\ Next
  /\ cancelled' = IF UserActs THEN TogglePlay /\ status \in Loading ELSE cancelled
  /\ silenced' = IF AvFails THEN status = "PAUSED" /\ Quiescent /\ ~errorSkip
                 ELSE silenced /\ ~UserActs
  /\ overtaken' = IF AsksForSong THEN FALSE
                  ELSE overtaken \/ (retryNum' > retryNum /\ \E s \in Slots : tasks[s].step = "pause")
  /\ revived' = IF AsksForSong THEN \E s \in Slots : tasks[s].step \in Reviving
                ELSE revived \/ SeekTo \/ (TogglePlay /\ status = "PAUSED")
  /\ misstated' = /\ avState' = "playing"
                  /\ \/ QueueEnds \/ \E s \in Slots : StartFails(s)
                     \/ misstated /\ status' = status
  /\ unheard' = /\ status' = "ERROR"
                /\ IF OnStateError \/ OnError THEN status \in {"PAUSED", "IDLE"} ELSE unheard

MCSpec == MCInit /\ [][MCNext]_mcVars
MCFairSpec == MCSpec /\ Fairness

-----------------------------------------------------------------------------
\* PlayerEngine.ets:592, "the pause button cancels the current load and stops
\* the avPlayer for good": after it nothing is scheduled to play another song.
CancelledStaysStopped == cancelled => ~errorSkip

\* PlayerEngine.ets:309, "an error while paused or idle needs no automatic retry
\* and is ignored in silence": no play call follows from it.
PausedErrorIsSilent == silenced => Fresh = {}

\* Once nothing is in flight the status tells the truth about the sound.  The code has two
\* exceptions, in which a song plays on under another status: `next` at the end of the
\* queue shows IDLE (line 615); and a play call that was superseded, or has not seen
\* 'initialized' in time, shows ERROR whatever is playing by then (line 457).
StatusIsHonest ==
  Quiescent =>
    /\ status = "PLAYING" => avState = "playing"
    /\ status = "PAUSED" => avState = "paused"
    /\ avState = "playing" =>
         status = "PLAYING" \/ (misstated /\ status \in {"IDLE", "ERROR"})

\* An error the engine shows when nothing is in flight is followed by the next song: a
\* handler that has ended a song has scheduled the skip.  Only an AVPlayer that has failed
\* may stay on its error, when the last of its failure events found the engine paused or
\* idle and was ignored (lines 275 and 310).
ErrorsMoveOn ==
  Quiescent /\ status = "ERROR" => errorSkip \/ (avState = "error" /\ unheard)

\* PlayerEngine.ets:351, "pause the old song at once (while the URL of the new song is
\* resolved the old song does not go on sounding)", however its own errors, timers and
\* answers come in.  It may be heard again after a retry, a seek or the play key.
OldSongIsSilent ==
  retryNum = 0 /\ ~revived =>
    \A s \in Fresh :
      tasks[s].step \in Harmless /\ avSong # tasks[s].song => avState # "playing" \/ avEvents # {}

\* Once nothing is in flight the song shown as playing is the one that sounds, however
\* many calls, errors, seeks and timers have crossed, unless a retry has overtaken a
\* song the user asked for: its play call then shows its song without playing it.
ShowsWhatPlays ==
  Quiescent /\ status \in {"PLAYING", "PAUSED"} /\ ~overtaken => avSong = currentSong
=============================================================================
