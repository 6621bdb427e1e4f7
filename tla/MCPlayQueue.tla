---------------------------- MODULE MCPlayQueue ----------------------------
(***************************************************************************)
(* TLC instance of PlayQueue, with history variables for the properties    *)
(* that relate a step to an earlier one, and the shuffle algorithm of the  *)
(* code as a function, compared with the set of orders PlayQueue uses.     *)
(***************************************************************************)
EXTENDS PlayQueue, FiniteSets, TLC

VARIABLES entry,  \* the queue as it was when shuffle was entered, while nothing was added or removed
          stale,  \* a late restore has left an original order behind
          quiet   \* nothing but the completion handler has acted since it read the position

mcVars == <<vars, entry, stale, quiet>>

Symmetry == Permutations(Songs)

NoEntry == [known |-> FALSE, order |-> <<>>]

Entering == mode # "shuffle" /\ SetPlayMode("shuffle")
Leaving == mode = "shuffle" /\ \E m \in Modes : SetPlayMode(m)
Reordering == Leaving \/ Entering \/ \E i, j \in 0 .. Len(list) - 1 : Move(i, j)

MCInit == Init /\ entry = NoEntry /\ stale = FALSE /\ quiet = FALSE

MCNext ==
  /\ Next
  /\ stale' = IF booting' /\ ~booting THEN FALSE
              ELSE stale \/ (booting /\ ~booting' /\ originalOrder # <<>>)
  /\ entry' = IF Entering /\ ~stale /\ Len(list) > 1
              THEN [known |-> TRUE, order |-> list]
              ELSE IF mode' # "shuffle" \/ (list' # list /\ ~Reordering) \/ (booting # booting')
              THEN NoEntry ELSE entry
  /\ quiet' = (cleaning' # cleaning /\ cleaning'.active)

MCSpec == MCInit /\ [][MCNext]_mcVars

-----------------------------------------------------------------------------
\* A shuffle session in which songs were only reordered ends with the queue
\* exactly as it was before and the same song playing, however often the user
\* skipped in between (shuffleForPlayback, restoreOriginalOrder).
ShuffleRoundTrip ==
  [][ (entry.known /\ Leaving)
      => list' = entry.order /\ CurrentSong' = CurrentSong ]_mcVars

\* When nothing disturbs the queue while the next song starts, automatic
\* clean-up removes exactly the song that was played, unless the same song is
\* current again, and the song that is now playing stays current.
UndisturbedClean ==
  [][ (cleaning.active /\ quiet /\ CompletionClean(TRUE) /\ cleaning.song # NoSong)
      => IF CurrentSong = cleaning.song
         THEN list' = list
         ELSE /\ Len(list') = Len(list) - 1
              /\ At(list, cleaning.index) = cleaning.song
              /\ CurrentSong' = CurrentSong ]_mcVars

\* In the looping modes, pressing next once per song of the queue reaches every
\* position: no song is starved, whatever the index was left at.
Position[n \in 0 .. MaxLen] ==
  IF n = 0 THEN NextIndex(list, currentIndex, "loopAll")
  ELSE NextIndex(list, Position[n - 1], "shuffle")
RoundVisitsAll ==
  list # <<>> => {Position[n] : n \in 0 .. Len(list) - 1} = 0 .. Len(list) - 1

-----------------------------------------------------------------------------
(* The loops of shuffleForPlayback, for one choice of Math.random() per    *)
(* iteration of the Fisher-Yates loop.                                     *)

\* The positions whose songs go into `remaining`: all but the current one, if it is in the list.
Others(l, c) ==
  LET all == [i \in 1 .. Len(l) |-> i]
  IN  IF c \in 0 .. Len(l) - 1 THEN Removed(all, c) ELSE all

Swap(s, i, j) == [s EXCEPT ![i] = s[j], ![j] = s[i]]

\* Mutation: the loop stops before its last iteration.
FisherYatesShort(s, pick) ==
  LET f[i \in 1 .. Len(s)] == IF i >= Len(s) - 1 THEN s ELSE Swap(f[i + 1], i + 2, pick[i + 1] + 1)
  IN  IF s = <<>> THEN s ELSE f[1]

\* The swaps for i = Len(s) - 1 down to 1, where pick[i] <= i is the chosen target.
FisherYates(s, pick) ==
  LET f[i \in 0 .. Len(s)] ==  \* the array before iteration i
        IF i >= Len(s) - 1 THEN s ELSE Swap(f[i + 1], i + 2, pick[i + 1] + 1)
  IN  f[0]

\* remaining is written back to every position but the one of the current song.
WriteBack(l, c, remaining) ==
  [i \in 1 .. Len(l) |->
     IF i = c + 1 THEN l[i]
     ELSE l[remaining[IF c >= 0 /\ i > c + 1 THEN i - 1 ELSE i]]]

ShufflesByLoop(l, c) ==
  LET r == Others(l, c)
      Picks == {p \in [1 .. Len(r) - 1 -> 0 .. Len(r)] : \A i \in DOMAIN p : p[i] <= i}
  IN  {WriteBack(l, c, FisherYates(r, p)) : p \in Picks}

\* The shuffle loop reaches every order that keeps the current song in place
\* and no other one: no song is lost, duplicated or left out of the draw.
LoopIsShuffle == ShufflesByLoop(list, currentIndex) = Shuffles(list, currentIndex)
=============================================================================
