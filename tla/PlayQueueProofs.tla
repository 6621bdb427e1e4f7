-------------------------- MODULE PlayQueueProofs --------------------------
(***************************************************************************)
(* Proofs about PlayQueue for every set of songs and every queue length.   *)
(***************************************************************************)
EXTENDS MCPlayQueue, WellFoundedInduction, FiniteSetTheorems, TLAPS

\* A function on 1 .. n is a sequence of length n.
LEMMA FunctionIsSeq ==
  ASSUME NEW S, NEW n \in Nat, NEW f \in [1 .. n -> S]
  PROVE  f \in Seq(S) /\ Len(f) = n
OBVIOUS

\* What splice(i, 0, song) does to the length and to the other positions.
LEMMA InsertedSeq ==
  ASSUME NEW l \in Seq(Songs), NEW song \in Songs, NEW i \in Nat
  PROVE  /\ Inserted(l, i, song) \in Seq(Songs)
         /\ Len(Inserted(l, i, song)) = Len(l) + 1
         /\ \A j \in 0 .. Len(l) - 1 :
              At(Inserted(l, i, song), IF j < i THEN j ELSE j + 1) = At(l, j)
<1> DEFINE n == Len(l)
           k == IF i > n THEN n ELSE i
           f == Inserted(l, i, song)
<1>1. n \in Nat /\ k \in 0 .. n /\ l \in [1 .. n -> Songs]
  OBVIOUS
<1>2. f \in [1 .. n + 1 -> Songs]
  BY <1>1 DEF Inserted
<1>3. f \in Seq(Songs) /\ Len(f) = n + 1
  BY <1>1, <1>2, FunctionIsSeq
<1>4. ASSUME NEW j \in 0 .. n - 1
      PROVE  At(f, IF j < i THEN j ELSE j + 1) = At(l, j)
  <2>1. CASE j < i
    <3>1. f[j + 1] = l[j + 1]
      BY <1>1, <2>1 DEF Inserted
    <3> QED BY <1>1, <1>3, <2>1, <3>1 DEF At
  <2>2. CASE ~(j < i)
    <3>1. i <= j /\ ~(i > n)
      BY <1>1, <2>2
    <3>2. j + 2 \in 1 .. n + 1 /\ ~(j + 2 <= i) /\ j + 2 # i + 1 /\ (j + 2) - 1 = j + 1
      BY <1>1, <3>1
    <3>3. f[j + 2] = l[j + 1]
      BY <1>1, <3>1, <3>2 DEF Inserted
    <3> QED BY <1>1, <1>3, <2>2, <3>3 DEF At
  <2> QED BY <2>1, <2>2
<1> QED BY <1>3, <1>4

\* What splice(i, 1) does.
LEMMA RemovedSeq ==
  ASSUME NEW l \in Seq(Songs), NEW i \in 0 .. Len(l) - 1
  PROVE  /\ Removed(l, i) \in Seq(Songs)
         /\ Len(Removed(l, i)) = Len(l) - 1
         /\ \A j \in 0 .. Len(l) - 1 :
              j # i => At(Removed(l, i), IF j < i THEN j ELSE j - 1) = At(l, j)
<1> DEFINE n == Len(l)
           f == Removed(l, i)
<1>1. n \in Nat \ {0} /\ n - 1 \in Nat /\ l \in [1 .. n -> Songs]
  OBVIOUS
<1>2. f \in [1 .. n - 1 -> Songs]
  BY <1>1 DEF Removed
<1>3. f \in Seq(Songs) /\ Len(f) = n - 1
  BY <1>1, <1>2, FunctionIsSeq
<1>4. ASSUME NEW j \in 0 .. n - 1, j # i
      PROVE  At(f, IF j < i THEN j ELSE j - 1) = At(l, j)
  <2>1. CASE j < i
    <3>1. f[j + 1] = l[j + 1]
      BY <1>1, <2>1 DEF Removed
    <3> QED BY <1>1, <1>3, <2>1, <3>1 DEF At
  <2>2. CASE i < j
    <3>1. f[j] = l[j + 1]
      BY <1>1, <2>2 DEF Removed
    <3>2. j - 1 \in 0 .. (n - 1) - 1 /\ (j - 1) + 1 = j
      BY <1>1, <2>2
    <3> QED BY <1>1, <1>3, <2>2, <3>1, <3>2 DEF At
  <2> QED BY <1>1, <1>4, <2>1, <2>2
<1> QED BY <1>3, <1>4

\* Moving an entry keeps the length, and IndexAfterMove follows every entry to
\* its new position.
LEMMA MovedSeq ==
  ASSUME NEW l \in Seq(Songs), NEW from \in 0 .. Len(l) - 1, NEW to \in 0 .. Len(l) - 1
  PROVE  /\ Moved(l, from, to) \in Seq(Songs)
         /\ Len(Moved(l, from, to)) = Len(l)
         /\ \A c \in 0 .. Len(l) - 1 :
              from # to => At(Moved(l, from, to), IndexAfterMove(c, from, to)) = At(l, c)
<1> DEFINE n == Len(l)
           r == Removed(l, from)
           m == Inserted(r, to, l[from + 1])
<1>1. n \in Nat \ {0} /\ l[from + 1] \in Songs /\ Moved(l, from, to) = m
                                /\ to \in Nat
  BY DEF Moved
<1>2. r \in Seq(Songs) /\ Len(r) = n - 1 /\ to <= Len(r)
  BY RemovedSeq
<1>3. m \in Seq(Songs) /\ Len(m) = n
  <2>1. m \in Seq(Songs) /\ Len(m) = Len(r) + 1
    BY <1>1, <1>2, InsertedSeq
  <2> HIDE DEF m, r
  <2> QED BY <1>1, <1>2, <2>1
<1>4. m[to + 1] = l[from + 1]
  BY <1>1, <1>2 DEF Inserted
<1>5. ASSUME NEW c \in 0 .. n - 1, from # to
      PROVE  At(m, IndexAfterMove(c, from, to)) = At(l, c)
  <2>1. CASE c = from
    BY <1>1, <1>3, <1>4, <2>1 DEF At, IndexAfterMove
  <2>2. CASE c # from
    <3> DEFINE d == IF c < from THEN c ELSE c - 1
    <3>1. d \in 0 .. Len(r) - 1 /\ At(r, d) = At(l, c)
      BY <1>2, <2>2, RemovedSeq
    <3>2. At(m, IF d < to THEN d ELSE d + 1) = At(r, d)
      BY <1>1, <1>2, <3>1, InsertedSeq
    <3>3. IndexAfterMove(c, from, to) = IF d < to THEN d ELSE d + 1
      BY <1>5, <2>2 DEF IndexAfterMove
    <3> QED BY <3>1, <3>2, <3>3
  <2> QED BY <2>1, <2>2
<1> QED BY <1>1, <1>3, <1>5

\* Every order the shuffle can produce has the same length and the same
\* current song, at the same index.
LEMMA ShuffleSeq ==
  ASSUME NEW l \in Seq(Songs), NEW c \in Int, NEW o \in Shuffles(l, c)
  PROVE  o \in Seq(Songs) /\ Len(o) = Len(l) /\ At(o, c) = At(l, c)
<1> DEFINE I == 1 .. Len(l)
<1>1. PICK p \in [I -> I] : /\ c + 1 \in I => p[c + 1] = c + 1
                            /\ o = [i \in I |-> l[p[i]]]
  BY DEF Shuffles
<1>2. Len(l) \in Nat /\ l \in [I -> Songs]
  OBVIOUS
<1>3. o \in [I -> Songs]
  BY <1>1, <1>2
<1>4. o \in Seq(Songs) /\ Len(o) = Len(l)
  BY <1>2, <1>3, FunctionIsSeq
<1>5. c + 1 \in I => o[c + 1] = l[c + 1]
  BY <1>1
<1> QED BY <1>2, <1>4, <1>5 DEF At

\* The modulo of the looping modes stays inside the queue.
LEMMA ModRange ==
  ASSUME NEW a \in Int, NEW n \in Nat \ {0}
  PROVE  a % n \in 0 .. n - 1
OBVIOUS

\* Skipping forwards or backwards never moves the index further out.
LEMMA SkipRange ==
  ASSUME NEW l \in Seq(Songs), Len(l) <= MaxLen, NEW c \in -1 .. MaxLen, NEW m \in Modes
  PROVE  /\ NextIndex(l, c, m) \in -1 .. MaxLen
         /\ PreviousIndex(l, c, m) \in -1 .. MaxLen
<1>1. CASE l = <<>>
  BY <1>1, MaxLenAssumption DEF NextIndex, PreviousIndex
<1>2. CASE l # <<>>
  <2>1. Len(l) \in Nat \ {0} /\ c + 1 \in Int /\ c - 1 + Len(l) \in Int
    BY <1>2
  <2>2. /\ (c + 1) % Len(l) \in 0 .. Len(l) - 1
        /\ (c - 1 + Len(l)) % Len(l) \in 0 .. Len(l) - 1
    BY <2>1, ModRange
  <2> QED BY <1>2, <2>1, <2>2, MaxLenAssumption DEF NextIndex, PreviousIndex
<1> QED BY <1>1, <1>2

\* What ShuffleForPlayback leaves behind.
LEMMA ShuffleTyped ==
  ASSUME NEW l \in Seq(Songs), Len(l) <= MaxLen, NEW c \in Int,
         originalOrder \in Seq(Songs), Len(originalOrder) <= MaxLen,
         ShuffleForPlayback(l, c)
  PROVE  /\ list' \in Seq(Songs) /\ Len(list') = Len(l)
         /\ At(list', c) = At(l, c)
         /\ originalOrder' \in Seq(Songs) /\ Len(originalOrder') <= MaxLen
<1>1. CASE Len(l) <= 1
  BY <1>1 DEF ShuffleForPlayback
<1>2. CASE ~(Len(l) <= 1)
  <2>1. list' \in Shuffles(l, c)
    BY <1>2 DEF ShuffleForPlayback
  <2>2. originalOrder' = IF originalOrder = <<>> THEN l ELSE originalOrder
    BY <1>2 DEF ShuffleForPlayback
  <2> QED BY <2>1, <2>2, ShuffleSeq
<1> QED BY <1>1, <1>2

\* A non-empty set of naturals has a least element.
LEMMA LeastNatural ==
  ASSUME NEW D, D \subseteq Nat, D # {}
  PROVE  \E d \in D : \A e \in D : d <= e
<1> DEFINE R == {p \in Nat \X Nat : p[1] < p[2]}
<1>1. OpToRel(<, Nat) = R
  BY DEF OpToRel
<1>2. IsWellFoundedOn(R, Nat)
  BY <1>1, NatLessThanWellFounded
<1> HIDE DEF R
<1>3. PICK d \in D : \A e \in D : ~ (<<e, d>> \in R)
  BY <1>2, WFMin
<1>4. ASSUME NEW x \in Nat, NEW y \in Nat, y < x
      PROVE  <<y, x>> \in R
  <2>1. <<y, x>> \in Nat \X Nat /\ <<y, x>>[1] = y /\ <<y, x>>[2] = x
    OBVIOUS
  <2> QED BY <1>4, <2>1 DEF R
<1>5. \A e \in D : ~ (e < d)
  BY <1>3, <1>4
<1> QED BY <1>5

\* findIndex returns a position of the restored list, which holds the song if any does.
LEMMA FoundRange ==
  ASSUME NEW l \in Seq(Songs), l # <<>>, NEW song
  PROVE  /\ FoundOrZero(l, song) \in 0 .. Len(l) - 1
         /\ (\E i \in 1 .. Len(l) : l[i] = song) => l[FoundOrZero(l, song) + 1] = song
<1>1. CASE \E i \in 1 .. Len(l) : l[i] = song
  <2> DEFINE P(i) == l[i + 1] = song /\ \A j \in 0 .. i - 1 : l[j + 1] # song
  <2>1. \E i \in 0 .. Len(l) - 1 : P(i)
    <3> DEFINE D == {i \in Nat : i \in 0 .. Len(l) - 1 /\ l[i + 1] = song}
    <3>1. D # {}
      <4>1. PICK i \in 1 .. Len(l) : l[i] = song
        BY <1>1
      <4>2. i - 1 \in D
        BY <4>1
      <4> QED BY <4>2
    <3>2. PICK d \in D : \A e \in D : d <= e
      BY <3>1, LeastNatural
    <3> QED BY <3>2
  <2>2. FoundOrZero(l, song) = CHOOSE i \in 0 .. Len(l) - 1 : P(i)
    BY <1>1 DEF FoundOrZero
  <2> QED BY <2>1, <2>2
<1>2. CASE ~ \E i \in 1 .. Len(l) : l[i] = song
  BY <1>2 DEF FoundOrZero
<1> QED BY <1>1, <1>2

-----------------------------------------------------------------------------
(* Type correctness: whatever the user, the completion handler and the     *)
(* late restore do, the queue never exceeds its bound and the index never  *)
(* drops below -1.                                                         *)

LEMMA InitTyped == Init => TypeOK
BY MaxLenAssumption DEF Init, TypeOK, Modes, NotCleaning

LEMMA ReplaceListTyped ==
  ASSUME TypeOK, NEW songs \in Playlists, NEW i \in 0 .. MaxLen - 1, ReplaceList(songs, i)
  PROVE  TypeOK'
<1> DEFINE c == IF i < Len(songs) - 1 THEN i ELSE Len(songs) - 1
<1>1. songs \in Seq(Songs) /\ Len(songs) <= MaxLen
  <2>1. PICK n \in 0 .. MaxLen : songs \in [1 .. n -> Songs]
    BY DEF Playlists
  <2> QED BY <2>1, MaxLenAssumption, FunctionIsSeq
<1>2. c \in -1 .. MaxLen
  BY <1>1, MaxLenAssumption
<1>3. CASE mode = "shuffle"
  <2>1. ShuffleForPlayback(songs, c)
    BY <1>3 DEF ReplaceList
  <2>2. /\ list' \in Seq(Songs) /\ Len(list') = Len(songs)
        /\ originalOrder' \in Seq(Songs) /\ Len(originalOrder') <= MaxLen
    <3> HIDE DEF c
    <3> QED BY <1>1, <1>2, <2>1, ShuffleTyped DEF TypeOK
  <2> QED BY <1>1, <1>2, <2>2 DEF ReplaceList, TypeOK
<1>4. CASE mode # "shuffle"
  BY <1>1, <1>2, <1>4 DEF ReplaceList, TypeOK
<1> QED BY <1>3, <1>4

LEMMA EditTyped ==
  ASSUME TypeOK, Edit
  PROVE  TypeOK'
<1>1. ASSUME NEW s \in Songs, InsertAt(s, currentIndex + 1)
      PROVE  TypeOK'
  <2>1. currentIndex + 1 \in Nat /\ ~(currentIndex >= currentIndex + 1)
    BY MaxLenAssumption DEF TypeOK
  <2>2. list' \in Seq(Songs) /\ Len(list') = Len(list) + 1
    BY <1>1, <2>1, InsertedSeq DEF InsertAt, TypeOK
  <2> QED BY <1>1, <2>1, <2>2, MaxLenAssumption DEF InsertAt, TypeOK
<1>2. ASSUME NEW s \in Songs, AppendSongs(<<s>>)
      PROVE  TypeOK'
  BY <1>2 DEF AppendSongs, TypeOK
<1>3. ASSUME NEW i \in 0 .. Len(list) - 1, RemoveAt(i)
      PROVE  TypeOK'
  <2>1. list' \in Seq(Songs) /\ Len(list') = Len(list) - 1
    BY <1>3, RemovedSeq DEF RemoveAt, TypeOK
  <2>2. IndexAfterRemove(currentIndex, i, Len(list)) \in -1 .. MaxLen
    BY <1>3, MaxLenAssumption DEF IndexAfterRemove, TypeOK
  <2> QED BY <1>3, <2>1, <2>2, MaxLenAssumption DEF RemoveAt, TypeOK
<1>4. ASSUME NEW i \in 0 .. Len(list) - 1, NEW j \in 0 .. Len(list) - 1, Move(i, j)
      PROVE  TypeOK'
  <2>1. list' \in Seq(Songs) /\ Len(list') = Len(list)
    BY <1>4, MovedSeq DEF Move, TypeOK
  <2>2. IndexAfterMove(currentIndex, i, j) \in -1 .. MaxLen
    BY <1>4, MaxLenAssumption DEF IndexAfterMove, TypeOK
  <2> QED BY <1>4, <2>1, <2>2 DEF Move, TypeOK
<1> QED BY <1>1, <1>2, <1>3, <1>4 DEF Edit

LEMMA NavigateTyped ==
  ASSUME TypeOK, Navigate
  PROVE  TypeOK'
<1>1. NextIndex(list, currentIndex, mode) \in -1 .. MaxLen
  BY SkipRange DEF TypeOK
<1>2. PreviousIndex(list, currentIndex, mode) \in -1 .. MaxLen
  BY SkipRange DEF TypeOK
<1>3. CASE PressNext
  BY <1>1, <1>3 DEF PressNext, TypeOK
<1>4. CASE PressPrevious
  BY <1>2, <1>4 DEF PressPrevious, TypeOK
<1>5. CASE \E i \in 0 .. Len(list) - 1 : SkipTo(i)
  BY <1>5, MaxLenAssumption DEF SkipTo, TypeOK
<1> QED BY <1>3, <1>4, <1>5 DEF Navigate

LEMMA SetPlayModeTyped ==
  ASSUME TypeOK, NEW m \in Modes, SetPlayMode(m)
  PROVE  TypeOK'
<1>1. CASE m = "shuffle"
  <2>1. ShuffleForPlayback(list, currentIndex) /\ UNCHANGED <<currentIndex, cleaning, booting>>
        /\ mode' = m
    BY <1>1 DEF SetPlayMode
  <2>2. currentIndex \in Int
    BY MaxLenAssumption DEF TypeOK
  <2>3. /\ list' \in Seq(Songs) /\ Len(list') <= MaxLen
        /\ originalOrder' \in Seq(Songs) /\ Len(originalOrder') <= MaxLen
    BY <2>1, <2>2, ShuffleTyped DEF TypeOK
  <2> QED BY <2>1, <2>3 DEF TypeOK
<1>2. CASE m # "shuffle" /\ mode = "shuffle"
  <2>1. RestoreOriginalOrder /\ mode' = m /\ UNCHANGED <<cleaning, booting>>
    BY <1>2 DEF SetPlayMode
  <2>2. CASE originalOrder = <<>>
    BY <2>1, <2>2 DEF RestoreOriginalOrder, TypeOK
  <2>3. CASE originalOrder # <<>>
    <3>1. FoundOrZero(originalOrder, CurrentSong) \in -1 .. MaxLen
      BY <2>3, FoundRange, MaxLenAssumption DEF TypeOK
    <3> QED BY <2>1, <2>3, <3>1, MaxLenAssumption DEF RestoreOriginalOrder, TypeOK
  <2> QED BY <2>2, <2>3
<1>3. CASE m # "shuffle" /\ mode # "shuffle"
  <2>1. UNCHANGED <<list, currentIndex, originalOrder, cleaning, booting>> /\ mode' = m
    BY <1>3 DEF SetPlayMode
  <2> QED BY <2>1 DEF TypeOK
<1> QED BY <1>1, <1>2, <1>3

LEMMA CompletionTyped ==
  ASSUME TypeOK, CompletionAdvance \/ \E auto \in BOOLEAN : CompletionClean(auto)
  PROVE  TypeOK'
<1>1. CASE CompletionAdvance
  <2>1. NextIndex(list, currentIndex, mode) \in -1 .. MaxLen
    BY SkipRange DEF TypeOK
  <2>2. CurrentSong \in Songs \cup {NoSong}
    BY DEF CurrentSong, At, TypeOK
  <2>3. cleaning' \in [index : -1 .. MaxLen, song : Songs \cup {NoSong}, active : BOOLEAN]
    BY <1>1, <2>2, MaxLenAssumption DEF CompletionAdvance, NotCleaning, TypeOK
  <2> QED BY <1>1, <2>1, <2>3 DEF CompletionAdvance, TypeOK
<1>2. ASSUME NEW auto \in BOOLEAN, CompletionClean(auto)
      PROVE  TypeOK'
  <2>1. cleaning' \in [index : -1 .. MaxLen, song : Songs \cup {NoSong}, active : BOOLEAN]
    BY <1>2, MaxLenAssumption DEF CompletionClean, NotCleaning
  <2>2. CASE auto /\ ~KeepsPlayed
    <3>1. cleaning.index \in 0 .. Len(list) - 1
      BY <2>2 DEF KeepsPlayed, TypeOK
    <3>2. list' \in Seq(Songs) /\ Len(list') = Len(list) - 1
      BY <1>2, <2>2, <3>1, RemovedSeq DEF CompletionClean, TypeOK
    <3>3. IndexAfterRemove(currentIndex, cleaning.index, Len(list)) \in -1 .. MaxLen
      BY <3>1, MaxLenAssumption DEF IndexAfterRemove, TypeOK
    <3> QED BY <1>2, <2>1, <2>2, <3>2, <3>3, MaxLenAssumption DEF CompletionClean, TypeOK
  <2>3. CASE ~(auto /\ ~KeepsPlayed)
    BY <1>2, <2>1, <2>3 DEF CompletionClean, TypeOK
  <2> QED BY <2>2, <2>3
<1> QED BY <1>1, <1>2

LEMMA RestoreTyped ==
  ASSUME TypeOK, NEW songs \in Playlists, NEW index, NEW m \in Modes,
         RestoreQueueState(songs, index, m)
  PROVE  TypeOK'
<1>1. songs \in Seq(Songs) /\ Len(songs) <= MaxLen
  <2>1. PICK n \in 0 .. MaxLen : songs \in [1 .. n -> Songs]
    BY DEF Playlists
  <2> QED BY <2>1, MaxLenAssumption, FunctionIsSeq
<1>2. CASE songs = <<>>
  BY <1>2 DEF RestoreQueueState, TypeOK
<1>3. CASE songs # <<>>
  <2>1. /\ list' = songs /\ mode' = m /\ booting' = FALSE
        /\ currentIndex' = IF index \in 0 .. Len(songs) - 1 THEN index ELSE 0
        /\ UNCHANGED <<originalOrder, cleaning>>
    BY <1>3 DEF RestoreQueueState
  <2>2. currentIndex' \in -1 .. MaxLen
    <3>1. CASE index \in 0 .. Len(songs) - 1
      BY <1>1, <2>1, <3>1, MaxLenAssumption
    <3>2. CASE ~(index \in 0 .. Len(songs) - 1)
      BY <2>1, <3>2, MaxLenAssumption
    <3> QED BY <3>1, <3>2
  <2> QED BY <1>1, <2>1, <2>2 DEF TypeOK
<1> QED BY <1>2, <1>3

LEMMA NextTyped == TypeOK /\ [Next]_vars => TypeOK'
<1> SUFFICES ASSUME TypeOK, [Next]_vars
             PROVE  TypeOK'
  OBVIOUS
<1>1. CASE Restart
  BY <1>1, MaxLenAssumption DEF Restart, NotCleaning, TypeOK, Modes
<1>2. CASE Clear
  BY <1>2, MaxLenAssumption DEF Clear, TypeOK
<1>3. CASE UNCHANGED vars
  BY <1>3 DEF vars, TypeOK
<1> QED
  BY <1>1, <1>2, <1>3, ReplaceListTyped, EditTyped, NavigateTyped, SetPlayModeTyped,
     CompletionTyped, RestoreTyped DEF Next

\* The queue respects its types and bounds in every reachable state, for every
\* set of songs and every length.
THEOREM TypeCorrect == Spec => []TypeOK
<1> QED BY InitTyped, NextTyped, PTL DEF Spec

-----------------------------------------------------------------------------
\* The song preloaded near the end of a song is the one that next() plays:
\* peekNext and next, written out twice in the code, always agree.
THEOREM PeekCorrect == Spec => []PeekPredictsNext
<1>1. TypeOK => PeekPredictsNext
  <2> SUFFICES ASSUME TypeOK
               PROVE  PeekPredictsNext
    OBVIOUS
  <2>1. CASE list = <<>>
    BY <2>1, MaxLenAssumption DEF TypeOK, PeekPredictsNext, PeekNext, NextSong, NextIndex, At
  <2>2. CASE list # <<>>
    BY <2>2, MaxLenAssumption DEF TypeOK, Modes, PeekPredictsNext, PeekNext, NextSong, NextIndex, At
  <2> QED BY <2>1, <2>2
<1> QED BY <1>1, TypeCorrect, PTL

\* Editing the queue around the current song never changes which song is
\* current, for every queue and every position edited.
THEOREM EditCorrect == Spec => EditKeepsCurrent
<1> DEFINE Kept == (CurrentSong' # CurrentSong /\ CurrentSong # NoSong /\ Edit)
                     => RemoveAt(currentIndex)
<1>1. TypeOK /\ [Next]_vars => [Kept]_vars
  <2> SUFFICES ASSUME TypeOK, CurrentSong # NoSong, Edit, ~RemoveAt(currentIndex)
               PROVE  CurrentSong' = CurrentSong
    OBVIOUS
  <2>1. currentIndex \in 0 .. Len(list) - 1 /\ list \in Seq(Songs)
    BY DEF CurrentSong, At, TypeOK
  <2>2. ASSUME NEW s \in Songs, InsertAt(s, currentIndex + 1)
        PROVE  CurrentSong' = CurrentSong
    <3>1. currentIndex + 1 \in Nat /\ currentIndex' = currentIndex
          /\ currentIndex < currentIndex + 1
      BY <2>1, <2>2 DEF InsertAt
    <3>2. At(list', currentIndex) = At(list, currentIndex)
      BY <2>1, <2>2, <3>1, InsertedSeq DEF InsertAt
    <3> QED BY <3>1, <3>2 DEF CurrentSong
  <2>3. ASSUME NEW s \in Songs, AppendSongs(<<s>>)
        PROVE  CurrentSong' = CurrentSong
    BY <2>1, <2>3 DEF AppendSongs, CurrentSong, At
  <2>4. ASSUME NEW i \in 0 .. Len(list) - 1, RemoveAt(i)
        PROVE  CurrentSong' = CurrentSong
    <3>1. i # currentIndex
      BY <2>4
    <3>2. currentIndex' = IF currentIndex < i THEN currentIndex ELSE currentIndex - 1
      BY <2>1, <2>4, <3>1 DEF RemoveAt, IndexAfterRemove
    <3> QED BY <2>1, <2>4, <3>1, <3>2, RemovedSeq DEF RemoveAt, CurrentSong
  <2>5. ASSUME NEW i \in 0 .. Len(list) - 1, NEW j \in 0 .. Len(list) - 1, Move(i, j)
        PROVE  CurrentSong' = CurrentSong
    BY <2>1, <2>5, MovedSeq DEF Move, CurrentSong
  <2> QED BY <2>2, <2>3, <2>4, <2>5 DEF Edit
<1> QED BY <1>1, TypeCorrect, PTL DEF Spec, EditKeepsCurrent

-----------------------------------------------------------------------------
(* Automatic clean-up while nothing else happens                           *)

\* Every behaviour with history variables is one of the queue.
LEMMA MCTyped == MCSpec => []TypeOK
<1>1. MCInit => TypeOK
  BY InitTyped DEF MCInit
<1>2. TypeOK /\ [MCNext]_mcVars => TypeOK'
  BY NextTyped DEF MCNext, mcVars
<1> QED BY <1>1, <1>2, PTL DEF MCSpec

\* What the completion handler has read is still so: the song is at the position it
\* completed at, and the current one is the one next() chose from there.
Advanced ==
  cleaning.active /\ quiet =>
    /\ cleaning.song = At(list, cleaning.index)
    /\ currentIndex = NextIndex(list, cleaning.index, mode)

LEMMA AdvancedStep == TypeOK /\ Advanced /\ [MCNext]_mcVars => Advanced'
<1> SUFFICES ASSUME TypeOK, Advanced, [MCNext]_mcVars
             PROVE  Advanced'
  OBVIOUS
<1>1. CASE UNCHANGED mcVars
  BY <1>1 DEF mcVars, vars, Advanced
<1>2. CASE MCNext /\ cleaning'.active /\ quiet'
  <2>1. Next /\ cleaning' # cleaning
    BY <1>2 DEF MCNext
  <2>2. CASE CompletionAdvance
    <3>1. cleaning' = [index |-> currentIndex, song |-> CurrentSong, active |-> TRUE]
      BY <1>2, <2>2 DEF CompletionAdvance, NotCleaning
    <3> QED BY <2>2, <3>1 DEF CompletionAdvance, Advanced, CurrentSong
  <2>3. CASE ~CompletionAdvance
    <3>1. cleaning' = NotCleaning
      BY <2>1, <2>3 DEF Next, ReplaceList, Edit, InsertAt, AppendSongs, RemoveAt, Move, Navigate,
         PressNext, PressPrevious, SkipTo, Clear, SetPlayMode, CompletionClean, RestoreQueueState,
         Restart
    <3> QED BY <1>2, <3>1 DEF NotCleaning
  <2> QED BY <2>2, <2>3
<1>3. CASE ~(cleaning'.active /\ quiet')
  BY <1>3 DEF Advanced
<1> QED BY <1>1, <1>2, <1>3

\* When nothing disturbs the queue between the completion of a song and the start of
\* the next, PlayerEngine.handleCompletion removes the song played and nothing else,
\* for every queue and mode, and what plays stays current.
THEOREM CleanCorrect == MCSpec => UndisturbedClean
<1> DEFINE Cleaned ==
      (cleaning.active /\ quiet /\ CompletionClean(TRUE) /\ cleaning.song # NoSong)
      => IF CurrentSong = cleaning.song
         THEN list' = list
         ELSE /\ Len(list') = Len(list) - 1
              /\ At(list, cleaning.index) = cleaning.song
              /\ CurrentSong' = CurrentSong
<1>1. TypeOK /\ Advanced => [Cleaned]_mcVars
  <2> SUFFICES ASSUME TypeOK, Advanced, cleaning.active, quiet, CompletionClean(TRUE),
                      cleaning.song # NoSong
               PROVE  IF CurrentSong = cleaning.song
                      THEN list' = list
                      ELSE /\ Len(list') = Len(list) - 1
                           /\ At(list, cleaning.index) = cleaning.song
                           /\ CurrentSong' = CurrentSong
    OBVIOUS
  <2> DEFINE c == cleaning.index
             d == currentIndex
             n == Len(list)
  <2>1. /\ cleaning.song = At(list, c) /\ d = NextIndex(list, c, mode)
        /\ list \in Seq(Songs) /\ n \in Nat /\ mode \in Modes /\ c \in Int
    BY MaxLenAssumption DEF Advanced, TypeOK
  <2>2. c \in 0 .. n - 1
    BY <2>1 DEF At
  <2>3. KeepsPlayed <=> CurrentSong = cleaning.song
    BY <2>2 DEF KeepsPlayed
  <2>4. CASE CurrentSong = cleaning.song
    BY <2>3, <2>4 DEF CompletionClean
  <2>5. CASE CurrentSong # cleaning.song
    <3>1. list' = Removed(list, c) /\ currentIndex' = IndexAfterRemove(d, c, n)
      BY <2>3, <2>5 DEF CompletionClean
    <3>2. d # c
      BY <2>1, <2>5 DEF CurrentSong
    <3>3. d \in 0 .. n - 1
      <4>1. n \in Nat \ {0} /\ c + 1 \in Int /\ list # <<>>
        BY <2>1, <2>2
      <4>2. (c + 1) % n \in 0 .. n - 1
        BY <4>1, ModRange
      <4> QED BY <2>1, <2>2, <4>1, <4>2 DEF NextIndex
    <3>4. currentIndex' = IF d < c THEN d ELSE d - 1
      BY <2>2, <3>1, <3>2, <3>3 DEF IndexAfterRemove
    <3>5. Len(list') = n - 1 /\ At(list', currentIndex') = At(list, d)
      BY <2>1, <2>2, <3>1, <3>2, <3>3, <3>4, RemovedSeq
    <3> QED BY <2>1, <2>5, <3>5 DEF CurrentSong
  <2> QED BY <2>4, <2>5
<1>2. MCInit => Advanced
  BY DEF MCInit, Advanced
<1> QED BY <1>1, <1>2, MCTyped, AdvancedStep, PTL DEF MCSpec, UndisturbedClean

-----------------------------------------------------------------------------
(* A round trip through shuffle mode                                       *)

Within(l, o) == Len(l) = Len(o) /\ \A i \in 1 .. Len(l) : \E j \in 1 .. Len(o) : l[i] = o[j]

\* Shuffling and moving lose and add no song.
LEMMA ShuffleWithin ==
  ASSUME NEW l \in Seq(Songs), NEW c \in Int, NEW o \in Shuffles(l, c)
  PROVE  Within(o, l)
<1> DEFINE I == 1 .. Len(l)
<1>1. PICK p \in [I -> I] : o = [i \in I |-> l[p[i]]]
  BY DEF Shuffles
<1>2. Len(o) = Len(l)
  BY ShuffleSeq
<1>3. QED
  BY <1>1, <1>2 DEF Within

LEMMA MoveWithin ==
  ASSUME NEW l \in Seq(Songs), NEW from \in 0 .. Len(l) - 1, NEW to \in 0 .. Len(l) - 1
  PROVE  Within(Moved(l, from, to), l)
<1> DEFINE n == Len(l)
           r == Removed(l, from)
           m == Inserted(r, to, l[from + 1])
<1>1. n \in Nat \ {0} /\ Moved(l, from, to) = m
  BY DEF Moved
<1>2. r \in Seq(Songs) /\ Len(r) = n - 1
  BY RemovedSeq
<1>3. Len(m) = n
  BY <1>1, MovedSeq
<1>4. ASSUME NEW i \in 1 .. n - 1 PROVE \E j \in 1 .. n : r[i] = l[j]
  <2>1. r[i] = IF i <= from THEN l[i] ELSE l[i + 1]
    BY DEF Removed
  <2>2. QED
    BY <1>1, <2>1
<1>5. ASSUME NEW i \in 1 .. n PROVE \E j \in 1 .. n : m[i] = l[j]
  <2>1. m[i] = IF i <= to THEN r[i] ELSE IF i = to + 1 THEN l[from + 1] ELSE r[i - 1]
    BY <1>1, <1>2 DEF Inserted
  <2> HIDE DEF m, r
  <2>2. CASE i <= to
    BY <1>1, <1>4, <2>1, <2>2
  <2>3. CASE i = to + 1
    BY <1>1, <2>1, <2>3
  <2>4. CASE i > to + 1
    BY <1>1, <1>4, <2>1, <2>4
  <2>5. QED
    BY <1>1, <2>2, <2>3, <2>4
<1>6. QED
  BY <1>1, <1>3, <1>5 DEF Within

\* Unless a late restore has left one behind, there is an original order in shuffle
\* mode only.  While songs have only been reordered it is the queue as it was when
\* shuffle was entered, and holds every song of the queue.
InSession ==
  /\ ~stale /\ mode # "shuffle" => originalOrder = <<>>
  /\ entry.known =>
       /\ mode = "shuffle"
       /\ originalOrder = entry.order /\ originalOrder # <<>>
       /\ Within(list, originalOrder)

\* The original order is set once: only leaving shuffle mode and a restart clear it.
LEMMA OrderKept ==
  ASSUME TypeOK, Next
  PROVE  /\ originalOrder # <<>> /\ mode = "shuffle" /\ mode' = "shuffle" => originalOrder' = originalOrder
         /\ mode # "shuffle" /\ mode' # "shuffle" => originalOrder' \in {originalOrder, <<>>}
         /\ mode = "shuffle" /\ mode' # "shuffle" =>
              originalOrder' = <<>> \/ (booting /\ ~booting' /\ originalOrder' = originalOrder)
         /\ ~booting /\ booting' => originalOrder' = <<>>
<1>1. CASE \E songs \in Playlists : \E i \in 0 .. MaxLen - 1 : ReplaceList(songs, i)
  BY <1>1 DEF ReplaceList, ShuffleForPlayback
<1>2. CASE Edit \/ Navigate \/ Clear \/ CompletionAdvance \/ \E auto \in BOOLEAN : CompletionClean(auto)
  <2>1. UNCHANGED <<mode, originalOrder, booting>>
    BY <1>2 DEF Edit, InsertAt, AppendSongs, RemoveAt, Move, Navigate, PressNext, PressPrevious,
       SkipTo, Clear, CompletionAdvance, CompletionClean
  <2>2. QED
    BY <2>1
<1>3. ASSUME NEW m \in Modes, SetPlayMode(m)
      PROVE  /\ ~(mode = "shuffle" /\ mode' = "shuffle")
             /\ mode # "shuffle" /\ mode' # "shuffle" => originalOrder' = originalOrder
             /\ mode = "shuffle" /\ mode' # "shuffle" => originalOrder' = <<>>
             /\ booting' = booting
  BY <1>3 DEF SetPlayMode, RestoreOriginalOrder
<1>4. CASE \E songs \in Playlists, m \in Modes : \E index \in -1 .. Len(songs) :
             RestoreQueueState(songs, index, m)
  BY <1>4 DEF RestoreQueueState, TypeOK
<1>5. CASE Restart
  BY <1>5 DEF Restart
<1>6. QED
  BY <1>1, <1>2, <1>3, <1>4, <1>5 DEF Next

LEMMA InSessionStep == TypeOK /\ InSession /\ [MCNext]_mcVars => InSession'
<1> SUFFICES ASSUME TypeOK, InSession, [MCNext]_mcVars
             PROVE  InSession'
  OBVIOUS
<1>1. CASE UNCHANGED mcVars
  BY <1>1 DEF mcVars, vars, InSession
<1>2. CASE MCNext
  <2>1. Next
    BY <1>2 DEF MCNext
  <2>2. ASSUME ~stale', mode' # "shuffle" PROVE originalOrder' = <<>>
    <3>1. CASE booting' /\ ~booting
      BY <2>1, <3>1, OrderKept
    <3>2. CASE ~(booting' /\ ~booting)
      <4>1. ~stale /\ ~(booting /\ ~booting' /\ originalOrder # <<>>)
        BY <1>2, <2>2, <3>2 DEF MCNext
      <4>2. QED
        BY <2>1, <2>2, <4>1, OrderKept DEF InSession
    <3>3. QED
      BY <3>1, <3>2
  <2>3. ASSUME entry'.known
        PROVE  (/\ mode = "shuffle"
                /\ originalOrder = entry.order /\ originalOrder # <<>>
                /\ Within(list, originalOrder))'
    <3>1. CASE Entering /\ ~stale /\ Len(list) > 1
      <4>1. entry' = [known |-> TRUE, order |-> list]
        BY <1>2, <3>1 DEF MCNext
      <4>2. originalOrder = <<>> /\ mode' = "shuffle"
        BY <3>1 DEF InSession, Entering, SetPlayMode
      <4>3. ShuffleForPlayback(list, currentIndex)
        BY <3>1 DEF Entering, SetPlayMode
      <4>4. list' \in Shuffles(list, currentIndex) /\ originalOrder' = list
        BY <3>1, <4>2, <4>3 DEF ShuffleForPlayback, TypeOK
      <4>5. Within(list', list)
        BY <4>4, ShuffleWithin DEF TypeOK
      <4>6. QED
        BY <3>1, <4>1, <4>2, <4>4, <4>5
    <3>2. CASE ~(Entering /\ ~stale /\ Len(list) > 1)
      <4>1. entry' = entry /\ mode' = "shuffle" /\ (list' = list \/ Reordering)
        BY <1>2, <2>3, <3>2 DEF MCNext, NoEntry
      <4>2. /\ mode = "shuffle" /\ originalOrder = entry.order /\ originalOrder # <<>>
            /\ Within(list, originalOrder)
        BY <2>3, <4>1 DEF InSession
      <4>3. originalOrder' = originalOrder
        BY <2>1, <4>1, <4>2, OrderKept
      <4>4. Within(list', originalOrder)
        <5>1. CASE list' = list
          BY <4>2, <5>1
        <5>2. CASE Reordering
          <6>1. ~Leaving /\ ~Entering
            BY <4>1, <4>2 DEF Leaving, Entering, SetPlayMode
          <6>2. PICK i \in 0 .. Len(list) - 1, j \in 0 .. Len(list) - 1 : Move(i, j)
            BY <5>2, <6>1 DEF Reordering
          <6>3. Within(list', list)
            BY <6>2, MoveWithin DEF Move, TypeOK
          <6>4. QED
            BY <4>2, <6>3 DEF Within
        <5>3. QED
          BY <4>1, <5>1, <5>2
      <4>5. QED
        BY <4>1, <4>2, <4>3, <4>4
    <3>3. QED
      BY <3>1, <3>2
  <2>4. QED
    BY <2>2, <2>3 DEF InSession
<1>3. QED
  BY <1>1, <1>2

\* Leaving shuffle mode after a session in which songs were only moved and skipped
\* brings back the queue as it was and keeps the song that plays, for every queue
\* (shuffleForPlayback, restoreOriginalOrder).
THEOREM RoundTripCorrect == MCSpec => ShuffleRoundTrip
<1>1. TypeOK /\ InSession
        => [(entry.known /\ Leaving) => list' = entry.order /\ CurrentSong' = CurrentSong]_mcVars
  <2> SUFFICES ASSUME TypeOK, InSession, entry.known, Leaving
               PROVE  list' = entry.order /\ CurrentSong' = CurrentSong
    OBVIOUS
  <2>1. /\ originalOrder = entry.order /\ originalOrder # <<>>
        /\ Within(list, originalOrder)
        /\ originalOrder \in Seq(Songs) /\ list \in Seq(Songs) /\ currentIndex \in Int
    BY MaxLenAssumption DEF InSession, TypeOK
  <2>2. RestoreOriginalOrder
    BY DEF Leaving, SetPlayMode
  <2>3. /\ list' = originalOrder
        /\ currentIndex' = IF CurrentSong # NoSong
                           THEN FoundOrZero(originalOrder, CurrentSong)
                           ELSE currentIndex
    BY <2>1, <2>2 DEF RestoreOriginalOrder
  <2>4. CASE CurrentSong # NoSong
    <3> DEFINE f == FoundOrZero(originalOrder, CurrentSong)
    <3>1. currentIndex \in 0 .. Len(list) - 1 /\ CurrentSong = list[currentIndex + 1]
      BY <2>4 DEF CurrentSong, At
    <3>2. currentIndex + 1 \in 1 .. Len(list)
      BY <2>1, <3>1
    <3>3. \E j \in 1 .. Len(originalOrder) : originalOrder[j] = CurrentSong
      BY <2>1, <3>1, <3>2 DEF Within
    <3>4. f \in 0 .. Len(originalOrder) - 1 /\ originalOrder[f + 1] = CurrentSong
      BY <2>1, <3>3, FoundRange
    <3>5. At(list', currentIndex') = CurrentSong
      BY <2>3, <2>4, <3>4 DEF At
    <3>6. QED
      BY <2>1, <2>3, <3>5 DEF CurrentSong
  <2>5. CASE CurrentSong = NoSong
    <3>1. currentIndex \notin 0 .. Len(list) - 1
      BY <2>1, <2>5, SongAssumption DEF CurrentSong, At
    <3>2. At(list', currentIndex') = NoSong
      BY <2>1, <2>3, <2>5, <3>1 DEF At, Within
    <3>3. QED
      BY <2>1, <2>3, <2>5, <3>2 DEF CurrentSong
  <2>6. QED
    BY <2>4, <2>5
<1>2. MCInit => InSession
  BY DEF MCInit, Init, InSession, NoEntry
<1> QED BY <1>1, <1>2, MCTyped, InSessionStep, PTL DEF MCSpec, ShuffleRoundTrip

-----------------------------------------------------------------------------
(* Iteration over the positions of the queue. *)

\* Counting up from 0: the least number that is not in D would have its predecessor in D.
LEMMA CountTo ==
  ASSUME NEW n \in Nat, NEW D, 0 \in D, \A k \in 0 .. n - 1 : k \in D => k + 1 \in D
  PROVE  \A k \in 0 .. n : k \in D
<1> DEFINE E == {k \in 0 .. n : k \notin D}
<1> SUFFICES ASSUME E # {} PROVE FALSE
  OBVIOUS
<1>0. E \subseteq Nat /\ \A e \in E : e # 0 /\ e \in 0 .. n /\ e \notin D
  OBVIOUS
<1>1. PICK e \in E : \A k \in E : e <= k
  <2> HIDE DEF E
  <2> QED BY <1>0, LeastNatural
<1>2. e # 0 /\ e \in 0 .. n /\ e \notin D
  BY <1>0
<1>3. e - 1 \in 0 .. n - 1 /\ e - 1 \notin E
  BY <1>1, <1>2
<1>4. (e - 1) + 1 \in D
  BY <1>3
<1> QED BY <1>2, <1>4

\* Whatever each step k does to a value, there is the sequence of values it yields.
Chain(f, t, s, n) == f[0] = t /\ \A k \in 0 .. n - 1 : f[k + 1] = s[k][f[k]]

LEMMA ChainExists ==
  ASSUME NEW T, NEW t \in T, NEW n \in Nat, NEW s \in [Nat -> [T -> T]]
  PROVE  \E f \in [0 .. n -> T] : Chain(f, t, s, n)
<1> USE DEF Chain
<1> DEFINE Run(f, m) == Chain(f, t, s, m)
           D == {m \in Nat : \E f \in [0 .. m -> T] : Run(f, m)}
<1>1. 0 \in D
  <2>1. [k \in 0 .. 0 |-> t] \in [0 .. 0 -> T] /\ Run([k \in 0 .. 0 |-> t], 0)
    OBVIOUS
  <2> QED BY <2>1
<1>2. ASSUME NEW m \in 0 .. n - 1, m \in D
      PROVE  m + 1 \in D
  <2>1. PICK f \in [0 .. m -> T] : Run(f, m)
    BY <1>2
  <2> DEFINE g == [k \in 0 .. m + 1 |-> IF k <= m THEN f[k] ELSE s[m][f[m]]]
  <2>2. s[m][f[m]] \in T
    OBVIOUS
  <2>3. g \in [0 .. m + 1 -> T]
    BY <2>2
  <2>4. g[0] = t
    BY <2>1
  <2>5. ASSUME NEW k \in 0 .. m PROVE g[k + 1] = s[k][g[k]]
    <3>1. CASE k = m
      BY <3>1
    <3>2. CASE k # m
      <4>1. k \in 0 .. m - 1
        BY <3>2
      <4>2. f[k + 1] = s[k][f[k]]
        BY <2>1, <4>1
      <4>3. g[k] = f[k] /\ g[k + 1] = f[k + 1]
        BY <4>1
      <4> QED BY <4>2, <4>3
    <3> QED BY <3>1, <3>2
  <2> HIDE DEF g
  <2>6. Run(g, m + 1)
    <3>1. (m + 1) - 1 = m
      OBVIOUS
    <3> QED BY <2>4, <2>5, <3>1
  <2> HIDE DEF Run
  <2> QED BY <2>3, <2>6
<1>3. n \in D
  <2> HIDE DEF D
  <2>1. \A k \in 0 .. n : k \in D
    BY <1>1, <1>2, CountTo
  <2> QED BY <2>1
<1> QED BY <1>3

LEMMA ModWithin ==
  ASSUME NEW n \in Nat \ {0}, NEW x \in 0 .. n - 1
  PROVE  (x + 1) % n = IF x = n - 1 THEN 0 ELSE x + 1
<1>1. CASE x = n - 1
  <2>1. n % n = 0
    <3>1. n = n * 1 + 0
      OBVIOUS
    <3> QED BY <3>1
  <2> QED BY <1>1, <2>1
<1>2. CASE x # n - 1
  BY <1>2
<1> QED BY <1>1, <1>2

\* The positions that next passes in the looping modes.
LEMMA PositionSteps ==
  ASSUME TypeOK, list # <<>>
  PROVE  /\ Position[0] = (currentIndex + 1) % Len(list)
         /\ \A n \in 1 .. MaxLen : Position[n] = NextIndex(list, Position[n - 1], "shuffle")
<1> DEFINE a == NextIndex(list, currentIndex, "loopAll")
           S(x) == NextIndex(list, x, "shuffle")
           G(g) == [n \in 0 .. MaxLen |-> IF n = 0 THEN a ELSE S(g[n - 1])]
           s == [k \in Nat |-> [x \in Int |-> S(x)]]
<1>1. Len(list) \in Nat \ {0} /\ list \in Seq(Songs) /\ currentIndex \in Int /\ MaxLen \in Nat
  BY MaxLenAssumption DEF TypeOK
<1>2. \A x \in Int : S(x) = (x + 1) % Len(list) /\ S(x) \in Int
  BY <1>1 DEF NextIndex
<1>3. a = (currentIndex + 1) % Len(list) /\ a \in Int
  BY <1>1 DEF NextIndex
<1>4. s \in [Nat -> [Int -> Int]]
  BY <1>2
<1>5. PICK f \in [0 .. MaxLen -> Int] : Chain(f, a, s, MaxLen)
  <2> HIDE DEF s, a, S, G
  <2>1. MaxLen \in Nat /\ a \in Int
    BY <1>1, <1>3
  <2> QED BY <1>4, <2>1, ChainExists
<1>6. \A k \in 0 .. MaxLen - 1 : f[k + 1] = S(f[k])
  <2>1. \A k \in Nat, x \in Int : s[k][x] = S(x)
    OBVIOUS
  <2> HIDE DEF s, a, S, G
  <2>2. \A k \in 0 .. MaxLen - 1 : k \in Nat /\ f[k] \in Int
    BY <1>1
  <2> QED BY <1>5, <2>1, <2>2 DEF Chain
<1>7. f = G(f)
  <2> HIDE DEF a, S
  <2>1. ASSUME NEW n \in 0 .. MaxLen PROVE f[n] = IF n = 0 THEN a ELSE S(f[n - 1])
    <3>1. CASE n = 0
      BY <1>5, <3>1 DEF Chain
    <3>2. CASE n # 0
      <4>1. n - 1 \in 0 .. MaxLen - 1 /\ (n - 1) + 1 = n
        BY <3>2, <1>1
      <4> QED BY <1>6, <3>2, <4>1
    <3> QED BY <3>1, <3>2
  <2> QED BY <2>1
<1>8. Position = CHOOSE g : g = G(g)
  BY DEF Position
<1>9. Position = G(Position)
  <2> HIDE DEF G
  <2> QED BY <1>7, <1>8
<1>10. \A n \in 0 .. MaxLen : Position[n] = IF n = 0 THEN a ELSE S(Position[n - 1])
  <2> HIDE DEF a, S
  <2> QED BY <1>9
<1> QED BY <1>1, <1>3, <1>10

\* For every queue and every index it can be left at: in the looping modes of PlayQueue.next,
\* pressing next once per song of the queue reaches every position.
THEOREM RoundCorrect == MCSpec => []RoundVisitsAll
<1>1. TypeOK => RoundVisitsAll
  <2> SUFFICES ASSUME TypeOK, list # <<>>
               PROVE  {Position[n] : n \in 0 .. Len(list) - 1} = 0 .. Len(list) - 1
    BY DEF RoundVisitsAll
  <2> DEFINE L == Len(list)
             p == (currentIndex + 1) % L
             Pos(n) == IF p + n < L THEN p + n ELSE p + n - L
             D == {n \in 0 .. L - 1 : Position[n] = Pos(n)}
  <2>1. L \in Nat \ {0} /\ L <= MaxLen /\ MaxLen \in Nat /\ currentIndex \in Int
    BY MaxLenAssumption DEF TypeOK
  <2>2. p \in 0 .. L - 1
    <3> HIDE DEF L
    <3>1. currentIndex + 1 \in Int
      BY <2>1
    <3> QED BY <2>1, <3>1, ModRange
  <2>3. /\ Position[0] = p
        /\ \A n \in 1 .. MaxLen : Position[n] = NextIndex(list, Position[n - 1], "shuffle")
    BY PositionSteps
  <2>4. 0 \in D
    BY <2>1, <2>2, <2>3
  <2>5. ASSUME NEW k \in 0 .. L - 2, k \in D
        PROVE  k + 1 \in D
    <3> HIDE DEF p, L
    <3>1. Position[k] = Pos(k) /\ Pos(k) \in 0 .. L - 1
      BY <2>1, <2>2, <2>5
    <3>2. Position[k + 1] = NextIndex(list, Position[k], "shuffle")
      <4>1. k + 1 \in 1 .. MaxLen /\ (k + 1) - 1 = k
        BY <2>1
      <4> QED BY <2>3, <4>1
    <3>3. Position[k + 1] = (Pos(k) + 1) % L
      BY <3>1, <3>2 DEF NextIndex, L
    <3>4. Position[k + 1] = IF Pos(k) = L - 1 THEN 0 ELSE Pos(k) + 1
      BY <2>1, <3>1, <3>3, ModWithin
    <3> QED BY <2>1, <2>2, <3>4
  <2>6. \A n \in 0 .. L - 1 : Position[n] = Pos(n)
    <3> HIDE DEF D, L, p
    <3>1. L - 1 \in Nat /\ (L - 1) - 1 = L - 2
      BY <2>1
    <3>2. \A n \in 0 .. L - 1 : n \in D
      BY <2>4, <2>5, <3>1, CountTo
    <3> QED BY <3>2 DEF D
  <2>7. ASSUME NEW j \in 0 .. L - 1 PROVE \E n \in 0 .. L - 1 : Pos(n) = j
    <3> HIDE DEF p, L
    <3>1. CASE p <= j
      <4>1. j - p \in 0 .. L - 1 /\ Pos(j - p) = j
        BY <2>1, <2>2, <3>1
      <4> QED BY <4>1
    <3>2. CASE ~(p <= j)
      <4>1. j - p + L \in 0 .. L - 1 /\ Pos(j - p + L) = j
        BY <2>1, <2>2, <3>2
      <4> QED BY <4>1
    <3> QED BY <3>1, <3>2
  <2>8. \A n \in 0 .. L - 1 : Pos(n) \in 0 .. L - 1
    <3> HIDE DEF p, L
    <3> QED BY <2>1, <2>2
  <2> HIDE DEF L, Pos
  <2>9. {Position[n] : n \in 0 .. L - 1} = 0 .. L - 1
    BY <2>6, <2>7, <2>8
  <2> QED BY <2>9 DEF L
<1> QED BY <1>1, MCTyped, PTL

-----------------------------------------------------------------------------
(* The loop of the shuffle. *)

\* The orders of n positions: each occurs.
Orders(n) == {q \in [1 .. n -> 1 .. n] : \A j \in 1 .. n : \E i \in 1 .. n : q[i] = j}
Identity(n) == [i \in 1 .. n |-> i]
Through(r, q) == [i \in 1 .. Len(r) |-> r[q[i]]]

\* One choice of Math.random() for each iteration, as ShufflesByLoop has them.
Draws(n) == {p \in [1 .. n - 1 -> 0 .. n] : \A i \in DOMAIN p : p[i] <= i}

\* The orders before each iteration and after the last.
LoopStep(h, k, n, p) == Swap(h, n - k, p[n - 1 - k] + 1)
Loops(g, n, p) == g[0] = Identity(n) /\ \A k \in 0 .. n - 2 : g[k + 1] = LoopStep(g[k], k, n, p)

\* An order has each position once.
LEMMA OrderIsInjective ==
  ASSUME NEW n \in Nat, NEW q \in Orders(n), NEW i \in 1 .. n, NEW j \in 1 .. n, q[i] = q[j]
  PROVE  i = j
<1>1. q \in Surjection(1 .. n, 1 .. n)
  BY DEF Orders, Surjection
<1>2. IsFiniteSet(1 .. n)
  BY FS_Interval
<1>3. q \in Injection(1 .. n, 1 .. n)
  BY <1>1, <1>2, FS_SurjSameCardinalityImpliesInj
<1> QED BY <1>3 DEF Injection, IsInjective

LEMMA IdentityIsOrder ==
  ASSUME NEW n \in Nat
  PROVE  Identity(n) \in Orders(n)
BY DEF Identity, Orders

Exchanged(h, g, a, b, n) ==
  \A k \in 1 .. n : h[k] = IF k = b THEN g[a] ELSE IF k = a THEN g[b] ELSE g[k]

LEMMA SwapAt ==
  ASSUME NEW n \in Nat, NEW V, NEW g \in [1 .. n -> V], NEW a \in 1 .. n, NEW b \in 1 .. n
  PROVE  Swap(g, a, b) \in [1 .. n -> V] /\ Exchanged(Swap(g, a, b), g, a, b, n)
BY DEF Swap, Exchanged

\* Exchanging two positions gives an order again.
LEMMA SwapIsOrder ==
  ASSUME NEW n \in Nat, NEW g \in Orders(n), NEW a \in 1 .. n, NEW b \in 1 .. n
  PROVE  Swap(g, a, b) \in Orders(n)
<1> DEFINE h == Swap(g, a, b)
<1>1. g \in [1 .. n -> 1 .. n] /\ \A j \in 1 .. n : \E i \in 1 .. n : g[i] = j
  BY DEF Orders
<1>2. h \in [1 .. n -> 1 .. n] /\ Exchanged(h, g, a, b, n)
  BY <1>1, SwapAt
<1> HIDE DEF h
<1>3. ASSUME NEW j \in 1 .. n PROVE \E i \in 1 .. n : h[i] = j
  <2>1. PICK i \in 1 .. n : g[i] = j
    BY <1>1
  <2>2. h[IF i = a THEN b ELSE IF i = b THEN a ELSE i] = j
    BY <1>2, <2>1 DEF Exchanged
  <2> QED BY <2>2
<1>4. h \in Orders(n)
  BY <1>2, <1>3 DEF Orders
<1> QED BY <1>4 DEF h

\* Exchanging the songs at two positions exchanges the positions in the order.
LEMMA SwapThrough ==
  ASSUME NEW V, NEW r \in Seq(V), NEW g \in Orders(Len(r)),
         NEW a \in 1 .. Len(r), NEW b \in 1 .. Len(r)
  PROVE  Swap(Through(r, g), a, b) = Through(r, Swap(g, a, b))
<1> DEFINE n == Len(r)
           h == Swap(g, a, b)
           x == Swap(Through(r, g), a, b)
<1>1. n \in Nat /\ r \in [1 .. n -> V]
  OBVIOUS
<1>2. g \in [1 .. n -> 1 .. n]
  BY DEF Orders
<1>3. Through(r, g) \in [1 .. n -> V] /\ \A i \in 1 .. n : Through(r, g)[i] = r[g[i]]
  BY <1>1, <1>2 DEF Through
<1>4. h \in [1 .. n -> 1 .. n] /\ Exchanged(h, g, a, b, n)
  BY <1>1, <1>2, SwapAt
<1>5. x \in [1 .. n -> V] /\ Exchanged(x, Through(r, g), a, b, n)
  BY <1>1, <1>3, SwapAt
<1>6. Through(r, h) = [k \in 1 .. n |-> r[h[k]]]
  BY DEF Through
<1> HIDE DEF n, h, x
<1>7. \A k \in 1 .. n : x[k] = r[h[k]]
  BY <1>3, <1>4, <1>5 DEF Exchanged, n
<1>8. x = [k \in 1 .. n |-> r[h[k]]]
  BY <1>5, <1>7
<1> QED BY <1>6, <1>8 DEF n, h, x

LEMMA ThroughIdentity ==
  ASSUME NEW V, NEW r \in Seq(V)
  PROVE  Through(r, Identity(Len(r))) = r
BY DEF Through, Identity

\* Whatever is drawn, the loop goes through orders of the positions.
LEMMA LoopRuns ==
  ASSUME NEW n \in Nat \ {0}, NEW p \in Draws(n)
  PROVE  \E g \in [0 .. n - 1 -> Orders(n)] : Loops(g, n, p)
<1> DEFINE s == [k \in Nat |-> [h \in Orders(n) |-> IF k <= n - 2 THEN LoopStep(h, k, n, p) ELSE h]]
<1>1. ASSUME NEW k \in 0 .. n - 2, NEW h \in Orders(n)
      PROVE  LoopStep(h, k, n, p) \in Orders(n)
  <2>1. n - k \in 1 .. n /\ n - 1 - k \in 1 .. n - 1 /\ n - 1 - k <= n - 1
    OBVIOUS
  <2>2. p[n - 1 - k] \in 0 .. n /\ p[n - 1 - k] <= n - 1 - k
    BY <2>1 DEF Draws
  <2>3. p[n - 1 - k] + 1 \in 1 .. n
    BY <2>1, <2>2
  <2> QED BY <2>1, <2>3, SwapIsOrder DEF LoopStep
<1>2. s \in [Nat -> [Orders(n) -> Orders(n)]]
  <2>1. ASSUME NEW k \in Nat, NEW h \in Orders(n), k <= n - 2
        PROVE  LoopStep(h, k, n, p) \in Orders(n)
    BY <1>1, <2>1
  <2> QED BY <2>1
<1>3. n - 1 \in Nat /\ Identity(n) \in Orders(n)
  BY IdentityIsOrder
<1>4. PICK g \in [0 .. n - 1 -> Orders(n)] : Chain(g, Identity(n), s, n - 1)
  <2> HIDE DEF s
  <2> QED BY <1>2, <1>3, ChainExists
<1>5. ASSUME NEW k \in 0 .. n - 2 PROVE g[k + 1] = LoopStep(g[k], k, n, p)
  <2>1. k \in Nat /\ k <= n - 2 /\ k \in 0 .. (n - 1) - 1 /\ g[k] \in Orders(n)
    OBVIOUS
  <2>2. g[k + 1] = s[k][g[k]]
    <3> HIDE DEF s
    <3> QED BY <1>4, <2>1 DEF Chain
  <2> QED BY <2>1, <2>2
<1> QED BY <1>4, <1>5 DEF Loops, Chain

\* The loop of the code, which counts down, computes the last of them.
LEMMA LoopResult ==
  ASSUME NEW V, NEW r \in Seq(V), r # <<>>, NEW p \in Draws(Len(r)),
         NEW g \in [0 .. Len(r) - 1 -> Orders(Len(r))], Loops(g, Len(r), p)
  PROVE  FisherYates(r, p) = Through(r, g[Len(r) - 1])
<1> DEFINE n == Len(r)
           e == [i \in 0 .. n |-> IF i >= n - 1 THEN r ELSE Through(r, g[n - 1 - i])]
           G(f) == [i \in 0 .. n |-> IF i >= n - 1 THEN r ELSE Swap(f[i + 1], i + 2, p[i + 1] + 1)]
           F == CHOOSE f : f = G(f)
<1>1. n \in Nat \ {0}
  OBVIOUS
<1>2. FisherYates(r, p) = F[0]
  BY DEF FisherYates
<1>3. Through(r, g[0]) = r
  BY ThroughIdentity DEF Loops
<1> HIDE DEF n
<1>4. ASSUME NEW i \in 0 .. n, ~(i >= n - 1)
      PROVE  Through(r, g[n - 1 - i]) = Swap(e[i + 1], i + 2, p[i + 1] + 1)
  <2>1. /\ n - 2 - i \in 0 .. n - 2 /\ n - 2 - i \in 0 .. n - 1 /\ i + 1 \in 0 .. n /\ i + 2 \in 1 .. n
        /\ (n - 2 - i) + 1 = n - 1 - i /\ n - (n - 2 - i) = i + 2 /\ n - 1 - (n - 2 - i) = i + 1
        /\ n - 1 - (i + 1) = n - 2 - i
    BY <1>1, <1>4
  <2>2. g[n - 2 - i] \in Orders(n)
    BY <2>1 DEF n
  <2>3. p[i + 1] + 1 \in 1 .. n
    <3>1. i + 1 \in 1 .. n - 1
      BY <1>1, <1>4
    <3>2. p[i + 1] \in 0 .. n /\ p[i + 1] <= i + 1
      BY <3>1 DEF Draws, n
    <3> QED BY <1>1, <3>1, <3>2
  <2>4. g[n - 1 - i] = Swap(g[n - 2 - i], i + 2, p[i + 1] + 1)
    BY <2>1 DEF Loops, LoopStep, n
  <2>5. Through(r, g[n - 1 - i]) = Swap(Through(r, g[n - 2 - i]), i + 2, p[i + 1] + 1)
    BY <2>1, <2>2, <2>3, <2>4, SwapThrough DEF n
  <2>6. e[i + 1] = Through(r, g[n - 2 - i])
    <3>1. CASE i + 1 >= n - 1
      <4>1. n - 2 - i = 0
        BY <1>1, <1>4, <3>1
      <4> QED BY <1>3, <2>1, <3>1, <4>1
    <3>2. CASE ~(i + 1 >= n - 1)
      BY <2>1, <3>2
    <3> QED BY <3>1, <3>2
  <2> QED BY <2>5, <2>6
<1>5. e = G(e)
  <2> DEFINE x(i) == Swap(e[i + 1], i + 2, p[i + 1] + 1)
             y(i) == Through(r, g[n - 1 - i])
  <2>1. \A i \in 0 .. n : (IF i >= n - 1 THEN r ELSE y(i)) = (IF i >= n - 1 THEN r ELSE x(i))
    BY <1>4
  <2>2. e = [i \in 0 .. n |-> IF i >= n - 1 THEN r ELSE y(i)]
        /\ G(e) = [i \in 0 .. n |-> IF i >= n - 1 THEN r ELSE x(i)]
    OBVIOUS
  <2> HIDE DEF e, x, y, G
  <2> QED BY <2>1, <2>2
<1>6. F = G(F)
  <2> HIDE DEF G, e
  <2> QED BY <1>5
<1> HIDE DEF F
<1> DEFINE D == {k \in 0 .. n - 1 : F[n - 1 - k] = e[n - 1 - k]}
<1>7. 0 \in D
  <2>1. n - 1 - 0 = n - 1 /\ n - 1 \in 0 .. n /\ n - 1 >= n - 1 /\ 0 \in 0 .. n - 1
    BY <1>1
  <2>2. G(F)[n - 1] = r /\ e[n - 1] = r
    BY <2>1
  <2> HIDE DEF G, e
  <2> QED BY <1>6, <2>1, <2>2
<1>8. ASSUME NEW k \in 0 .. n - 2, k \in D
      PROVE  k + 1 \in D
  <2> DEFINE i == n - 2 - k
  <2>1. i \in 0 .. n /\ ~(i >= n - 1) /\ n - 1 - (k + 1) = i /\ n - 1 - k = i + 1 /\ k + 1 \in 0 .. n - 1
    BY <1>1
  <2>2. F[i + 1] = e[i + 1]
    <3> HIDE DEF i, e
    <3> QED BY <1>8, <2>1
  <2> HIDE DEF i
  <2>3. G(F)[i] = Swap(F[i + 1], i + 2, p[i + 1] + 1) /\ G(e)[i] = Swap(e[i + 1], i + 2, p[i + 1] + 1)
    BY <2>1
  <2> HIDE DEF G, e
  <2>4. F[i] = e[i]
    BY <1>5, <1>6, <2>2, <2>3
  <2> QED BY <2>1, <2>4
<1>9. F[0] = e[0]
  <2> HIDE DEF D
  <2>1. n - 1 \in Nat /\ (n - 1) - 1 = n - 2 /\ n - 1 \in 0 .. n - 1 /\ n - 1 - (n - 1) = 0
    BY <1>1
  <2>2. n - 1 \in D
    BY <1>7, <1>8, <2>1, CountTo
  <2>3. F[n - 1 - (n - 1)] = e[n - 1 - (n - 1)]
    <3> HIDE DEF e
    <3> QED BY <2>2 DEF D
  <2> HIDE DEF e
  <2> QED BY <2>1, <2>3
<1>10. e[0] = Through(r, g[n - 1])
  <2>1. CASE 0 >= n - 1
    <3>1. n - 1 = 0
      BY <1>1, <2>1
    <3> QED BY <1>1, <1>3, <2>1, <3>1
  <2>2. CASE ~(0 >= n - 1)
    <3>1. n - 1 - 0 = n - 1 /\ 0 \in 0 .. n
      BY <1>1
    <3> QED BY <2>2, <3>1
  <2> QED BY <2>1, <2>2
<1>11. F[0] = Through(r, g[n - 1])
  <2> HIDE DEF e
  <2> QED BY <1>9, <1>10
<1> QED BY <1>2, <1>11 DEF n, F

\* Where a position is found in an order.
Where(h, v, n) == CHOOSE j \in 1 .. n : h[j] = v

LEMMA WhereIs ==
  ASSUME NEW n \in Nat, NEW h \in Orders(n), NEW v \in 1 .. n
  PROVE  Where(h, v, n) \in 1 .. n /\ h[Where(h, v, n)] = v
BY DEF Where, Orders

\* Every order is drawn: each iteration fetches the position that belongs at its end from
\* the part that is left.
LEMMA LoopReaches ==
  ASSUME NEW n \in Nat \ {0}, NEW q \in Orders(n)
  PROVE  \E p \in Draws(n), g \in [0 .. n - 1 -> Orders(n)] : Loops(g, n, p) /\ g[n - 1] = q
<1> DEFINE Fetch(h, k) == Swap(h, n - k, Where(h, q[n - k], n))
           s == [k \in Nat |-> [h \in Orders(n) |-> IF k <= n - 2 THEN Fetch(h, k) ELSE h]]
<1>0. q \in [1 .. n -> 1 .. n]
  BY DEF Orders
<1>1. ASSUME NEW k \in 0 .. n - 2, NEW h \in Orders(n)
      PROVE  Fetch(h, k) \in Orders(n)
  <2>1. n - k \in 1 .. n /\ q[n - k] \in 1 .. n
    BY <1>0
  <2>2. Where(h, q[n - k], n) \in 1 .. n
    BY <2>1, WhereIs
  <2> QED BY <2>1, <2>2, SwapIsOrder
<1>2. s \in [Nat -> [Orders(n) -> Orders(n)]]
  <2> HIDE DEF Fetch
  <2>1. ASSUME NEW k \in Nat, NEW h \in Orders(n), k <= n - 2 PROVE Fetch(h, k) \in Orders(n)
    BY <1>1, <2>1
  <2> QED BY <2>1
<1>3. n - 1 \in Nat /\ Identity(n) \in Orders(n)
  BY IdentityIsOrder
<1>4. PICK g \in [0 .. n - 1 -> Orders(n)] : Chain(g, Identity(n), s, n - 1)
  <2> HIDE DEF s
  <2> QED BY <1>2, <1>3, ChainExists
<1>5. ASSUME NEW k \in 0 .. n - 2 PROVE g[k + 1] = Fetch(g[k], k)
  <2> HIDE DEF Fetch
  <2>1. k \in Nat /\ k <= n - 2 /\ k \in 0 .. (n - 1) - 1 /\ g[k] \in Orders(n)
    OBVIOUS
  <2>2. g[k + 1] = s[k][g[k]]
    <3> HIDE DEF s
    <3> QED BY <1>4, <2>1 DEF Chain
  <2> QED BY <2>1, <2>2
<1> HIDE DEF s
\* What is behind position n - k is final before iteration k.
<1> DEFINE Final(k) == \A j \in 1 .. n : j > n - k => g[k][j] = q[j]
           w(k) == Where(g[k], q[n - k], n)
           D == {k \in 0 .. n - 1 : Final(k)}
<1>6. ASSUME NEW k \in 0 .. n - 2
      PROVE  /\ g[k] \in Orders(n) /\ n - k \in 1 .. n /\ q[n - k] \in 1 .. n
             /\ w(k) \in 1 .. n /\ g[k][w(k)] = q[n - k]
             /\ Exchanged(g[k + 1], g[k], n - k, w(k), n)
  <2>1. g[k] \in Orders(n) /\ n - k \in 1 .. n /\ q[n - k] \in 1 .. n
    BY <1>0
  <2>2. w(k) \in 1 .. n /\ g[k][w(k)] = q[n - k]
    BY <2>1, WhereIs
  <2>3. g[k] \in [1 .. n -> 1 .. n]
    BY <2>1 DEF Orders
  <2>4. g[k + 1] = Swap(g[k], n - k, w(k))
    BY <1>5
  <2> HIDE DEF w, Fetch, Final, D
  <2>5. Exchanged(Swap(g[k], n - k, w(k)), g[k], n - k, w(k), n)
    BY <2>1, <2>2, <2>3, SwapAt
  <2>6. Exchanged(g[k + 1], g[k], n - k, w(k), n)
    BY <2>4, <2>5
  <2> QED BY <2>1, <2>2, <2>6
<1> HIDE DEF w, Fetch
<1>7. ASSUME NEW k \in 0 .. n - 2, Final(k)
      PROVE  w(k) <= n - k
  <2> SUFFICES ASSUME w(k) > n - k PROVE FALSE
    BY <1>6
  <2>1. q[w(k)] = q[n - k]
    BY <1>6, <1>7
  <2>2. w(k) = n - k
    BY <1>6, <2>1, OrderIsInjective
  <2> QED BY <1>6, <2>2
<1>8. 0 \in D
  BY DEF D
<1>9. ASSUME NEW k \in 0 .. n - 2, k \in D
      PROVE  k + 1 \in D
  <2>1. Final(k)
    BY <1>9
  <2>2. w(k) <= n - k
    BY <1>7, <2>1
  <2>3. ASSUME NEW j \in 1 .. n, j > n - (k + 1) PROVE g[k + 1][j] = q[j]
    <3>1. CASE j = n - k
      BY <1>6, <3>1 DEF Exchanged
    <3>2. CASE j # n - k
      <4>1. j > n - k /\ j # w(k)
        BY <1>6, <2>2, <2>3, <3>2
      <4> QED BY <1>6, <2>1, <3>2, <4>1 DEF Exchanged
    <3> QED BY <3>1, <3>2
  <2>4. k + 1 \in 0 .. n - 1
    OBVIOUS
  <2> QED BY <2>3, <2>4
<1>10. \A k \in 0 .. n - 1 : Final(k)
  <2> HIDE DEF D, Final
  <2>1. n - 1 \in Nat /\ (n - 1) - 1 = n - 2
    OBVIOUS
  <2>2. \A k \in 0 .. n - 1 : k \in D
    BY <1>8, <1>9, <2>1, CountTo
  <2> QED BY <2>2 DEF D
<1>11. g[n - 1] = q
  <2>1. g[n - 1] \in Orders(n)
    OBVIOUS
  <2>2. \A j \in 2 .. n : g[n - 1][j] = q[j]
    BY <1>10
  <2> DEFINE h == g[n - 1]
  <2>3. h \in Orders(n) /\ h \in [1 .. n -> 1 .. n]
    BY <2>1 DEF Orders
  <2>4. \A j \in 2 .. n : h[j] = q[j]
    BY <2>2
  <2> HIDE DEF h
  <2>5. q[1] \in 1 .. n /\ 1 \in 1 .. n
    BY <1>0
  <2>6. PICK j \in 1 .. n : h[j] = q[1]
    BY <2>3, <2>5 DEF Orders
  <2>7. j = 1
    <3> SUFFICES ASSUME j # 1 PROVE FALSE
      OBVIOUS
    <3>1. q[j] = q[1]
      BY <2>4, <2>6
    <3> QED BY <2>5, <3>1, OrderIsInjective
  <2>8. \A i \in 1 .. n : h[i] = q[i]
    BY <2>4, <2>6, <2>7
  <2>9. h = q
    BY <1>0, <2>3, <2>8
  <2> QED BY <2>9 DEF h
<1> DEFINE p == [i \in 1 .. n - 1 |-> w(n - 1 - i) - 1]
<1>12. p \in Draws(n)
  <2>1. ASSUME NEW i \in 1 .. n - 1 PROVE w(n - 1 - i) - 1 \in 0 .. n /\ w(n - 1 - i) - 1 <= i
    <3>1. n - 1 - i \in 0 .. n - 2 /\ n - 1 - i \in 0 .. n - 1 /\ n - (n - 1 - i) = i + 1
      OBVIOUS
    <3>2. Final(n - 1 - i)
      BY <1>10, <3>1
    <3>3. w(n - 1 - i) \in 1 .. n /\ w(n - 1 - i) <= n - (n - 1 - i)
      <4> HIDE DEF Final
      <4> QED BY <1>6, <1>7, <3>1, <3>2
    <3> QED BY <3>1, <3>3
  <2> QED BY <2>1 DEF Draws
<1>13. Loops(g, n, p)
  <2>1. ASSUME NEW k \in 0 .. n - 2 PROVE g[k + 1] = LoopStep(g[k], k, n, p)
    <3>1. n - 1 - k \in 1 .. n - 1 /\ n - 1 - (n - 1 - k) = k
      OBVIOUS
    <3>2. p[n - 1 - k] = w(k) - 1
      BY <3>1
    <3>3. (w(k) - 1) + 1 = w(k)
      BY <1>6
    <3>4. g[k + 1] = Swap(g[k], n - k, w(k))
      BY <1>5 DEF Fetch, w
    <3> HIDE DEF p
    <3> QED BY <3>2, <3>3, <3>4 DEF LoopStep
  <2> QED BY <1>4, <2>1 DEF Loops, Chain
<1> HIDE DEF p
<1> QED BY <1>11, <1>12, <1>13

\* The results of the loop, over everything it can draw, are the orders of the array.
LEMMA FisherYatesReaches ==
  ASSUME NEW V, NEW r \in Seq(V)
  PROVE  /\ \A p \in Draws(Len(r)) : \E q \in Orders(Len(r)) : FisherYates(r, p) = Through(r, q)
         /\ \A q \in Orders(Len(r)) : \E p \in Draws(Len(r)) : FisherYates(r, p) = Through(r, q)
<1>1. CASE r = <<>>
  <2>1. ASSUME NEW q, NEW p PROVE FisherYates(r, p) = Through(r, q)
    <3> DEFINE G(f) == [i \in 0 .. Len(r) |-> IF i >= Len(r) - 1 THEN r
                                              ELSE Swap(f[i + 1], i + 2, p[i + 1] + 1)]
               F == CHOOSE f : f = G(f)
               e == [i \in 0 .. 0 |-> r]
    <3>1. \A f : G(f) = e
      BY <1>1
    <3>2. FisherYates(r, p) = F[0]
      BY DEF FisherYates
    <3>3. F = e
      <4> HIDE DEF G, e
      <4> QED BY <3>1
    <3>4. F[0] = r
      <4> HIDE DEF F
      <4> QED BY <3>3
    <3>5. Through(r, q) = r
      BY <1>1 DEF Through
    <3> QED BY <3>2, <3>4, <3>5
  <2>2. Identity(0) \in Orders(0) /\ Len(r) = 0
    BY <1>1, IdentityIsOrder
  <2>3. [i \in 1 .. 0 - 1 |-> 0] \in Draws(0)
    BY DEF Draws
  <2> QED BY <2>1, <2>2, <2>3
<1>2. CASE r # <<>>
  <2>1. Len(r) \in Nat \ {0} /\ Len(r) - 1 \in 0 .. Len(r) - 1
    BY <1>2
  <2>2. ASSUME NEW p \in Draws(Len(r))
        PROVE  \E q \in Orders(Len(r)) : FisherYates(r, p) = Through(r, q)
    <3>1. PICK g \in [0 .. Len(r) - 1 -> Orders(Len(r))] : Loops(g, Len(r), p)
      BY <2>1, LoopRuns
    <3>2. FisherYates(r, p) = Through(r, g[Len(r) - 1])
      BY <1>2, <3>1, LoopResult
    <3> QED BY <2>1, <3>2
  <2>3. ASSUME NEW q \in Orders(Len(r))
        PROVE  \E p \in Draws(Len(r)) : FisherYates(r, p) = Through(r, q)
    <3>1. PICK p \in Draws(Len(r)), g \in [0 .. Len(r) - 1 -> Orders(Len(r))] :
            Loops(g, Len(r), p) /\ g[Len(r) - 1] = q
      BY <2>1, LoopReaches
    <3>2. FisherYates(r, p) = Through(r, g[Len(r) - 1])
      BY <1>2, <3>1, LoopResult
    <3> QED BY <3>1, <3>2
  <2> QED BY <2>2, <2>3
<1> QED BY <1>1, <1>2

-----------------------------------------------------------------------------
(* What is taken out of the queue for the loop, and what is written back. *)

\* The index in `remaining` of position i, and the other way round.
Rank(i, c) == IF c >= 0 /\ i > c + 1 THEN i - 1 ELSE i

LEMMA OthersAre ==
  ASSUME NEW l \in Seq(Songs), NEW c \in Int, c >= -1
  PROVE  LET r == Others(l, c) IN
         /\ r \in Seq(1 .. Len(l))
         /\ \A m \in 1 .. Len(r) : r[m] \in 1 .. Len(l) /\ r[m] # c + 1 /\ Rank(r[m], c) = m
         /\ \A i \in 1 .. Len(l) : i # c + 1 => Rank(i, c) \in 1 .. Len(r) /\ r[Rank(i, c)] = i
<1> DEFINE N == Len(l)
           all == [i \in 1 .. N |-> i]
           r == Others(l, c)
<1>1. N \in Nat /\ all \in [1 .. N -> 1 .. N]
  OBVIOUS
<1>2. all \in Seq(1 .. N) /\ Len(all) = N
  BY <1>1, FunctionIsSeq
<1>3. CASE c \in 0 .. N - 1
  <2>1. r = [j \in 1 .. N - 1 |-> IF j <= c THEN all[j] ELSE all[j + 1]]
    BY <1>2, <1>3 DEF Others, Removed
  <2>2. r \in [1 .. N - 1 -> 1 .. N] /\ \A j \in 1 .. N - 1 : r[j] = IF j <= c THEN j ELSE j + 1
    BY <1>1, <1>3, <2>1
  <2>3. N - 1 \in Nat
    BY <1>1, <1>3
  <2>4. r \in Seq(1 .. N) /\ Len(r) = N - 1
    BY <2>2, <2>3, FunctionIsSeq
  <2> HIDE DEF r
  <2> QED BY <1>1, <1>3, <2>2, <2>4 DEF Rank, r
<1>4. CASE c \notin 0 .. N - 1
  <2>1. r = all
    BY <1>4 DEF Others
  <2>2. c + 1 \notin 1 .. N /\ (c >= 0 => c + 1 > N)
    BY <1>1, <1>4
  <2>3. \A i \in 1 .. N : Rank(i, c) = i /\ i # c + 1
    BY <1>1, <2>2 DEF Rank
  <2> QED BY <1>1, <1>2, <2>1, <2>3
<1> QED BY <1>3, <1>4

\* The write-back puts the songs of `remaining` around the current one: it gives the order
\* that leaves position c + 1 alone and takes the others from `remaining`.
LEMMA WriteBackOrder ==
  ASSUME NEW l \in Seq(Songs), NEW c \in Int, c >= -1, NEW x
  PROVE  WriteBack(l, c, x) =
           [i \in 1 .. Len(l) |-> l[IF i = c + 1 THEN i ELSE x[Rank(i, c)]]]
BY DEF WriteBack, Rank

\* shuffleForPlayback reaches every order that keeps the current song in its place and no other.
LEMMA ShuffleLoop ==
  ASSUME NEW l \in Seq(Songs), NEW c \in Int, c >= -1
  PROVE  ShufflesByLoop(l, c) = Shuffles(l, c)
<1> DEFINE N == Len(l)
           I == 1 .. N
           r == Others(l, c)
           n == Len(r)
           P == {p \in [I -> I] : /\ \A j \in I : \E i \in I : p[i] = j
                                  /\ c + 1 \in I => p[c + 1] = c + 1}
           Arranged(p) == [i \in I |-> l[p[i]]]
           Spread(q) == [i \in I |-> IF i = c + 1 THEN i ELSE Through(r, q)[Rank(i, c)]]
<1>1. /\ N \in Nat /\ n \in Nat /\ r \in Seq(I) /\ r \in [1 .. n -> I]
      /\ \A m \in 1 .. n : r[m] \in I /\ r[m] # c + 1 /\ Rank(r[m], c) = m
      /\ \A i \in I : i # c + 1 => Rank(i, c) \in 1 .. n /\ r[Rank(i, c)] = i
  BY OthersAre
<1>2. ShufflesByLoop(l, c) = {WriteBack(l, c, FisherYates(r, p)) : p \in Draws(n)}
  BY DEF ShufflesByLoop, Draws
<1>3. Shuffles(l, c) = {Arranged(p) : p \in P}
  BY DEF Shuffles
<1>4. \A q : WriteBack(l, c, Through(r, q)) = Arranged(Spread(q))
  BY WriteBackOrder
<1>5. \A q : Through(r, q) = [m \in 1 .. n |-> r[q[m]]]
  BY DEF Through
<1>6. /\ \A p \in Draws(n) : \E q \in Orders(n) : FisherYates(r, p) = Through(r, q)
      /\ \A q \in Orders(n) : \E p \in Draws(n) : FisherYates(r, p) = Through(r, q)
  BY <1>1, FisherYatesReaches
<1> HIDE DEF N, r, n
<1>7. \A q : \A i \in I : /\ i = c + 1 => Spread(q)[i] = i
                        /\ i # c + 1 => Spread(q)[i] = Through(r, q)[Rank(i, c)]
  OBVIOUS
<1>8. \A q : \A m \in 1 .. n : Through(r, q)[m] = r[q[m]]
  BY <1>5
<1>9. ASSUME NEW q, NEW i \in I, i # c + 1
       PROVE  Spread(q)[i] = r[q[Rank(i, c)]]
  <2> HIDE DEF Spread
  <2>1. Rank(i, c) \in 1 .. n
    BY <1>1, <1>9
  <2>2. Spread(q)[i] = Through(r, q)[Rank(i, c)]
    BY <1>7, <1>9
  <2> QED BY <1>8, <2>1, <2>2
<1>10. ASSUME NEW q \in Orders(n)
      PROVE  Spread(q) \in P
  <2>1. q \in [1 .. n -> 1 .. n] /\ \A j \in 1 .. n : \E m \in 1 .. n : q[m] = j
    BY DEF Orders
  <2>2. ASSUME NEW i \in I, i # c + 1 PROVE Spread(q)[i] = r[q[Rank(i, c)]] /\ Spread(q)[i] \in I
    <3>1. Rank(i, c) \in 1 .. n
      BY <1>1, <2>2
    <3>2. q[Rank(i, c)] \in 1 .. n
      BY <2>1, <3>1
    <3>3. r[q[Rank(i, c)]] \in I
      BY <1>1, <3>2
    <3>4. Spread(q)[i] = r[q[Rank(i, c)]]
      BY <1>9, <2>2
    <3> QED BY <3>3, <3>4
  <2>3. Spread(q) \in [I -> I] /\ (c + 1 \in I => Spread(q)[c + 1] = c + 1)
    <3>1. \A i \in I : (IF i = c + 1 THEN i ELSE Through(r, q)[Rank(i, c)]) \in I
      BY <2>2
    <3> QED BY <3>1
  <2>4. ASSUME NEW j \in I PROVE \E i \in I : Spread(q)[i] = j
    <3>1. CASE j = c + 1
      BY <2>3, <3>1
    <3>2. CASE j # c + 1
      <4>1. Rank(j, c) \in 1 .. n /\ r[Rank(j, c)] = j
        BY <1>1, <3>2
      <4>2. PICK m \in 1 .. n : q[m] = Rank(j, c)
        BY <2>1, <4>1
      <4>3. r[m] \in I /\ r[m] # c + 1 /\ Rank(r[m], c) = m
        BY <1>1
      <4>4. Spread(q)[r[m]] = j
        <5> HIDE DEF Spread
        <5> QED BY <2>2, <4>1, <4>2, <4>3
      <4> QED BY <4>3, <4>4
    <3> QED BY <3>1, <3>2
  <2> HIDE DEF Spread
  <2> QED BY <2>3, <2>4
<1>11. ASSUME NEW p \in P
      PROVE  \E q \in Orders(n) : Spread(q) = p
  <2> DEFINE q == [m \in 1 .. n |-> Rank(p[r[m]], c)]
  <2>1. p \in [I -> I] /\ p \in Orders(N) /\ (c + 1 \in I => p[c + 1] = c + 1)
    BY DEF Orders
  <2>2. ASSUME NEW i \in I, i # c + 1 PROVE p[i] \in I /\ p[i] # c + 1
    <3>1. CASE c + 1 \in I
      <4>1. ASSUME p[i] = c + 1 PROVE FALSE
        <5>1. p[i] = p[c + 1]
          BY <2>1, <3>1, <4>1
        <5>2. N \in Nat /\ p \in Orders(N) /\ i \in 1 .. N /\ c + 1 \in 1 .. N
          BY <1>1, <2>1, <2>2, <3>1
        <5> HIDE DEF P, I
        <5>3. i = c + 1
          BY <5>1, <5>2, OrderIsInjective
        <5> QED BY <2>2, <5>3
      <4>2. p[i] \in I
        BY <2>1, <2>2
      <4> QED BY <4>1, <4>2
    <3>2. CASE c + 1 \notin I
      BY <2>1, <3>2
    <3> QED BY <3>1, <3>2
  <2>3. \A m \in 1 .. n : /\ q[m] = Rank(p[r[m]], c) /\ q[m] \in 1 .. n
                          /\ p[r[m]] # c + 1 /\ r[q[m]] = p[r[m]]
    BY <1>1, <2>2
  <2>4. ASSUME NEW j \in 1 .. n PROVE \E m \in 1 .. n : q[m] = j
    <3>1. r[j] \in I /\ r[j] # c + 1 /\ Rank(r[j], c) = j
      BY <1>1
    <3>2. PICK i \in I : p[i] = r[j]
      BY <3>1
    <3>3. i # c + 1
      BY <2>1, <3>1, <3>2
    <3>4. Rank(i, c) \in 1 .. n /\ r[Rank(i, c)] = i
      BY <1>1, <3>3
    <3> HIDE DEF q
    <3>5. q[Rank(i, c)] = Rank(p[r[Rank(i, c)]], c)
      BY <2>3, <3>4
    <3>6. q[Rank(i, c)] = Rank(p[i], c)
      BY <3>4, <3>5
    <3>7. q[Rank(i, c)] = j
      BY <3>1, <3>2, <3>6
    <3> QED BY <3>4, <3>7
  <2>5. q \in Orders(n)
    <3>1. q \in [1 .. n -> 1 .. n]
      BY <2>3
    <3> HIDE DEF q
    <3> QED BY <2>4, <3>1 DEF Orders
  <2> HIDE DEF q
  <2>6. ASSUME NEW i \in I PROVE Spread(q)[i] = p[i]
    <3>1. CASE i = c + 1
      BY <2>1, <3>1
    <3>2. CASE i # c + 1
      <4>1. Rank(i, c) \in 1 .. n /\ r[Rank(i, c)] = i
        BY <1>1, <3>2
      <4>2. Spread(q)[i] = r[q[Rank(i, c)]]
        BY <1>9, <3>2
      <4> QED BY <2>3, <4>1, <4>2
    <3> QED BY <3>1, <3>2
  <2>7. Spread(q) = p
    <3>1. Spread(q) = [i \in I |-> Spread(q)[i]]
      OBVIOUS
    <3> HIDE DEF Spread
    <3> QED BY <2>1, <2>6, <3>1
  <2> QED BY <2>5, <2>7
<1> HIDE DEF Spread, Arranged, P
<1>12. ShufflesByLoop(l, c) \subseteq Shuffles(l, c)
  <2> SUFFICES ASSUME NEW p \in Draws(n)
               PROVE  WriteBack(l, c, FisherYates(r, p)) \in Shuffles(l, c)
    BY <1>2
  <2>1. PICK q \in Orders(n) : FisherYates(r, p) = Through(r, q)
    BY <1>6
  <2> QED BY <1>3, <1>4, <1>10, <2>1
<1>13. Shuffles(l, c) \subseteq ShufflesByLoop(l, c)
  <2> SUFFICES ASSUME NEW p \in P
               PROVE  Arranged(p) \in ShufflesByLoop(l, c)
    BY <1>3
  <2>1. PICK q \in Orders(n) : Spread(q) = p
    BY <1>11
  <2>2. PICK d \in Draws(n) : FisherYates(r, d) = Through(r, q)
    BY <1>6
  <2> QED BY <1>2, <1>4, <2>1, <2>2
<1> QED BY <1>12, <1>13

\* The shuffle loop of PlayQueue.ets:42-56 reaches every order that keeps the current song
\* in place and no other, for every queue and every index that is reachable.
THEOREM LoopCorrect == MCSpec => []LoopIsShuffle
<1>1. TypeOK => LoopIsShuffle
  BY ShuffleLoop, MaxLenAssumption DEF TypeOK, LoopIsShuffle
<1> QED BY <1>1, MCTyped, PTL
=============================================================================
