------------------------------ MODULE PlayQueue ------------------------------
(***************************************************************************)
(* The playback queue of hsp-player/src/main/ets/queue/PlayQueue.ets and   *)
(* the queue-level steps of PlayerEngine that drive it: setPlayMode, the   *)
(* completion handler with its automatic clean-up, and the restore of the  *)
(* persisted queue after a process start.                                  *)
(*                                                                         *)
(* Indices are 0-based as in the code, with -1 for "no current song"; the  *)
(* song at index i is list[i + 1].  A song stands for its (songmid,        *)
(* source) pair, which is what the queue compares.                         *)
(***************************************************************************)
EXTENDS Integers, Sequences

CONSTANTS Songs,    \* the songs that can be queued
          NoSong,   \* JavaScript's null / undefined
          MaxLen    \* bound on the length of the queue

ASSUME SongAssumption == NoSong \notin Songs
ASSUME MaxLenAssumption == MaxLen \in Nat \ {0}

VARIABLES list,           \* PlayQueue.list
          currentIndex,   \* PlayQueue.currentIndex
          mode,           \* PlayQueue.mode
          originalOrder,  \* PlayQueue.originalOrder
          cleaning,       \* the locals of a handleCompletion waiting in `await this.next()`
          booting         \* the restore of the stored queue is still in flight

vars == <<list, currentIndex, mode, originalOrder, cleaning, booting>>

Modes == {"sequence", "loopAll", "loopOne", "shuffle"}
NotCleaning == [index |-> -1, song |-> NoSong, active |-> FALSE]

-----------------------------------------------------------------------------
(* Operators on lists.                                                     *)

\* list[i] in JavaScript: undefined outside the array.
At(l, i) == IF i \in 0 .. Len(l) - 1 THEN l[i + 1] ELSE NoSong

\* splice(i, 0, song): an index beyond the end is clamped to the end.
Inserted(l, i, song) ==
  LET k == IF i > Len(l) THEN Len(l) ELSE i
  IN  [j \in 1 .. Len(l) + 1 |->
         IF j <= k THEN l[j] ELSE IF j = k + 1 THEN song ELSE l[j - 1]]

\* splice(i, 1)
Removed(l, i) ==
  [j \in 1 .. Len(l) - 1 |-> IF j <= i THEN l[j] ELSE l[j + 1]]

\* splice(from, 1) followed by splice(to, 0, item)
Moved(l, from, to) == Inserted(Removed(l, from), to, l[from + 1])

\* The orders the shuffle can produce: the current song keeps its index and
\* the others are permuted.
Shuffles(l, c) ==
  LET I == 1 .. Len(l)
      P == {p \in [I -> I] : /\ \A j \in I : \E i \in I : p[i] = j
                             /\ c + 1 \in I => p[c + 1] = c + 1}
  IN  {[i \in I |-> l[p[i]]] : p \in P}

\* findIndex: the first 0-based index that holds the song, 0 when there is none.
FoundOrZero(l, song) ==
  IF \E i \in 1 .. Len(l) : l[i] = song
  THEN CHOOSE i \in 0 .. Len(l) - 1 :
         /\ l[i + 1] = song
         /\ \A j \in 0 .. i - 1 : l[j + 1] # song
  ELSE 0

CurrentSong == At(list, currentIndex)

Playlists == {s \in UNION {[1 .. n -> Songs] : n \in 0 .. MaxLen} :
                \A i, j \in 1 .. Len(s) : s[i] = s[j] => i = j}

-----------------------------------------------------------------------------
(* shuffleForPlayback and restoreOriginalOrder are called from the actions *)
(* below, on the list and index those have set.                            *)

ShuffleForPlayback(l, c) ==
  IF Len(l) <= 1
  THEN list' = l /\ UNCHANGED originalOrder
  ELSE /\ list' \in Shuffles(l, c)
       /\ originalOrder' = IF originalOrder = <<>> THEN l ELSE originalOrder

\* Mutation: the index is left where it was in the shuffled list.
RestoreOrderOnly ==
  /\ list' = IF originalOrder = <<>> THEN list ELSE originalOrder
  /\ originalOrder' = <<>>
  /\ UNCHANGED currentIndex

RestoreOriginalOrder ==
  IF originalOrder = <<>>
  THEN UNCHANGED <<list, currentIndex, originalOrder>>
  ELSE /\ list' = originalOrder
       /\ originalOrder' = <<>>
       /\ currentIndex' = IF CurrentSong # NoSong
                          THEN FoundOrZero(originalOrder, CurrentSong)
                          ELSE currentIndex

-----------------------------------------------------------------------------
(* Operations.                                                             *)

ReplaceList(songs, startIndex) ==
  LET c == IF startIndex < Len(songs) - 1 THEN startIndex ELSE Len(songs) - 1
  IN  /\ currentIndex' = c
      /\ IF mode = "shuffle"
         THEN ShuffleForPlayback(songs, c)
         ELSE list' = songs /\ UNCHANGED originalOrder
      /\ UNCHANGED <<mode, cleaning, booting>>

AppendSongs(songs) ==
  /\ Len(list) + Len(songs) <= MaxLen
  /\ list' = list \o songs
  /\ UNCHANGED <<currentIndex, mode, originalOrder, cleaning, booting>>

InsertAt(song, index) ==
  /\ Len(list) < MaxLen
  /\ list' = Inserted(list, index, song)
  /\ currentIndex' = IF currentIndex >= index THEN currentIndex + 1 ELSE currentIndex
  /\ UNCHANGED <<mode, originalOrder, cleaning, booting>>

\* The index after removing position i of a list that had n songs.
IndexAfterRemove(c, i, n) ==
  IF i < c THEN c - 1 ELSE IF i = c /\ n = 1 THEN -1 ELSE c

RemoveAt(index) ==
  /\ index \in 0 .. Len(list) - 1
  /\ list' = Removed(list, index)
  /\ currentIndex' = IndexAfterRemove(currentIndex, index, Len(list))
  /\ UNCHANGED <<mode, originalOrder, cleaning, booting>>

\* Mutation: moving a song from behind the current one to before it shifts nothing.
IndexAfterMoveForward(c, from, to) ==
  IF c = from THEN to ELSE IF from < c /\ to >= c THEN c - 1 ELSE c

IndexAfterMove(c, from, to) ==
  IF c = from THEN to
  ELSE IF from < c /\ to >= c THEN c - 1
  ELSE IF from > c /\ to <= c THEN c + 1
  ELSE c

Move(from, to) ==
  /\ from \in 0 .. Len(list) - 1
  /\ to \in 0 .. Len(list) - 1
  /\ from # to
  /\ list' = Moved(list, from, to)
  /\ currentIndex' = IndexAfterMove(currentIndex, from, to)
  /\ UNCHANGED <<mode, originalOrder, cleaning, booting>>

\* Mutation: the looping modes start over one song too early.
NextIndexSkippingLast(l, c, m) ==
  IF l = <<>> \/ m = "loopOne" THEN c
  ELSE IF m \in {"shuffle", "loopAll"} THEN IF c < Len(l) - 2 THEN c + 1 ELSE 0
  ELSE IF c < Len(l) - 1 THEN c + 1 ELSE c

\* The index next() moves to; the index is unchanged when the queue is played out.
NextIndex(l, c, m) ==
  IF l = <<>> \/ m = "loopOne" THEN c
  ELSE IF m \in {"shuffle", "loopAll"} THEN (c + 1) % Len(l)
  ELSE IF c < Len(l) - 1 THEN c + 1 ELSE c

\* The song next() returns, NoSong when there is none.
NextSong(l, c, m) ==
  IF m = "sequence" /\ c >= Len(l) - 1 THEN NoSong ELSE At(l, NextIndex(l, c, m))

\* Mutation: the preload does not wrap around at the end of the queue.
PeekNextWithoutWrap(l, c, m) ==
  IF l = <<>> THEN NoSong ELSE IF m = "loopOne" THEN At(l, c) ELSE At(l, c + 1)

\* peekNext() is a second implementation of the choice above, used to preload.
PeekNext(l, c, m) ==
  IF l = <<>> THEN NoSong
  ELSE IF m = "loopOne" THEN At(l, c)
  ELSE IF m \in {"shuffle", "loopAll"} THEN At(l, (c + 1) % Len(l))
  ELSE IF c < Len(l) - 1 THEN At(l, c + 1) ELSE NoSong

\* Mutation: no check for the first song.
PreviousIndexUnchecked(l, c, m) == IF m = "loopOne" THEN c ELSE c - 1

PreviousIndex(l, c, m) ==
  IF l = <<>> \/ m = "loopOne" THEN c
  ELSE IF m = "shuffle" THEN (c - 1 + Len(l)) % Len(l)
  ELSE IF c > 0 THEN c - 1 ELSE c

PressNext ==
  /\ currentIndex' = NextIndex(list, currentIndex, mode)
  /\ UNCHANGED <<list, mode, originalOrder, cleaning, booting>>

PressPrevious ==
  /\ currentIndex' = PreviousIndex(list, currentIndex, mode)
  /\ UNCHANGED <<list, mode, originalOrder, cleaning, booting>>

SkipTo(index) ==
  /\ index \in 0 .. Len(list) - 1
  /\ currentIndex' = index
  /\ UNCHANGED <<list, mode, originalOrder, cleaning, booting>>

Clear ==
  /\ list' = <<>>
  /\ currentIndex' = -1
  /\ UNCHANGED <<mode, originalOrder, cleaning, booting>>

\* PlayerEngine.setPlayMode
SetPlayMode(m) ==
  /\ m # mode
  /\ mode' = m
  /\ CASE m = "shuffle" ->
            ShuffleForPlayback(list, currentIndex) /\ UNCHANGED currentIndex
       [] mode = "shuffle" -> RestoreOriginalOrder
       [] OTHER -> UNCHANGED <<list, currentIndex, originalOrder>>
  /\ UNCHANGED <<cleaning, booting>>

-----------------------------------------------------------------------------
(* PlayerEngine.handleCompletion: the position and the song are read, the  *)
(* queue advances, the handler waits until play() of the next song returns *)
(* (anything can happen to the queue meanwhile), and then the position     *)
(* read before the wait is removed.  When there is no next song nothing is *)
(* waited for and nothing removed: the same song is still current.  One    *)
(* waiting handler is followed at a time.                                  *)

CompletionAdvance ==
  /\ ~cleaning.active
  /\ cleaning' = IF NextSong(list, currentIndex, mode) = NoSong
                 THEN NotCleaning
                 ELSE [index |-> currentIndex, song |-> CurrentSong, active |-> TRUE]
  /\ currentIndex' = NextIndex(list, currentIndex, mode)
  /\ UNCHANGED <<list, mode, originalOrder, booting>>

\* Mutation: the song that is now current is not compared with the completed one.
KeepsPlayedUnlessGone == cleaning.index < 0 \/ cleaning.index >= Len(list)

\* The current song is compared with the one that completed before anything is removed.
KeepsPlayed ==
  \/ cleaning.index < 0
  \/ CurrentSong # NoSong /\ cleaning.song # NoSong /\ CurrentSong = cleaning.song
  \/ cleaning.index >= Len(list)

CompletionClean(autoCleanPlayed) ==
  /\ cleaning.active
  /\ cleaning' = NotCleaning
  /\ IF autoCleanPlayed /\ ~KeepsPlayed
     THEN /\ list' = Removed(list, cleaning.index)
          /\ currentIndex' = IndexAfterRemove(currentIndex, cleaning.index, Len(list))
     ELSE UNCHANGED <<list, currentIndex>>
  /\ UNCHANGED <<mode, originalOrder, booting>>

-----------------------------------------------------------------------------
(* Process start.  saveQueueState stores list, index and mode, never the   *)
(* original order; restoreQueueState is started without being awaited, so  *)
(* it may land after the first user operations.                            *)

RestoreQueueState(songs, index, m) ==
  /\ booting
  /\ booting' = FALSE
  /\ IF songs = <<>>
     THEN UNCHANGED <<list, currentIndex, mode>>
     ELSE /\ list' = songs
          /\ currentIndex' = IF index \in 0 .. Len(songs) - 1 THEN index ELSE 0
          /\ mode' = m
  /\ UNCHANGED <<originalOrder, cleaning>>

Restart ==
  /\ ~booting
  /\ list' = <<>>
  /\ currentIndex' = -1
  /\ mode' = "sequence"
  /\ originalOrder' = <<>>
  /\ cleaning' = NotCleaning
  /\ booting' = TRUE

-----------------------------------------------------------------------------
Init ==
  /\ list = <<>>
  /\ currentIndex = -1
  /\ mode = "sequence"
  /\ originalOrder = <<>>
  /\ cleaning = NotCleaning
  /\ booting = TRUE

\* "Play next" always inserts after the current position.
Edit ==
  \/ \E s \in Songs : InsertAt(s, currentIndex + 1)
  \/ \E s \in Songs : AppendSongs(<<s>>)
  \/ \E i \in 0 .. Len(list) - 1 : RemoveAt(i)
  \/ \E i, j \in 0 .. Len(list) - 1 : Move(i, j)

Navigate ==
  \/ PressNext
  \/ PressPrevious
  \/ \E i \in 0 .. Len(list) - 1 : SkipTo(i)

Next ==
  \/ \E songs \in Playlists : \E i \in 0 .. MaxLen - 1 :
       (i = 0 \/ i < Len(songs)) /\ ReplaceList(songs, i)
  \/ Edit
  \/ Navigate
  \/ Clear
  \/ \E m \in Modes : SetPlayMode(m)
  \/ CompletionAdvance
  \/ \E auto \in BOOLEAN : CompletionClean(auto)
  \/ \E songs \in Playlists, m \in Modes : \E index \in -1 .. Len(songs) :
       RestoreQueueState(songs, index, m)
  \/ Restart

Spec == Init /\ [][Next]_vars

-----------------------------------------------------------------------------
(* Properties.                                                             *)

\* The values each field can take.  The index may lie past the end of the
\* queue: removing the current song from the last position leaves it one past
\* the end, and leaving shuffle mode then restores a list that can be shorter
\* still.
TypeOK ==
  /\ list \in Seq(Songs) /\ Len(list) <= MaxLen
  /\ currentIndex \in -1 .. MaxLen
  /\ mode \in Modes
  /\ originalOrder \in Seq(Songs) /\ Len(originalOrder) <= MaxLen
  /\ cleaning \in [index : -1 .. MaxLen, song : Songs \cup {NoSong}, active : BOOLEAN]
  /\ booting \in BOOLEAN

\* Editing the queue around the current song never changes which song is
\* current: drag-sorting, "play next" and removing another position each
\* correct the index for the shift they cause (insertAt, removeAt, move).
EditKeepsCurrent ==
  [][ (CurrentSong' # CurrentSong /\ CurrentSong # NoSong /\ Edit)
      => RemoveAt(currentIndex) ]_vars

\* The song preloaded by peekNext is the one next() then plays.
PeekPredictsNext ==
  PeekNext(list, currentIndex, mode) = NextSong(list, currentIndex, mode)

\* Leaving shuffle mode keeps the song that is playing current, as the comment
\* of restoreOriginalOrder says.
ExitShuffleKeepsCurrent ==
  [][ (mode = "shuffle" /\ CurrentSong # NoSong /\ \E m \in Modes : SetPlayMode(m))
      => CurrentSong' = CurrentSong ]_vars

\* Automatic clean-up removes the song that has been played and nothing else,
\* as the comment of handleCompletion says.
CleanRemovesPlayed ==
  [][ \A auto \in BOOLEAN :
        (CompletionClean(auto) /\ list' # list)
        => At(list, cleaning.index) = cleaning.song ]_vars
=============================================================================
