\* Three songs, queues of up to three entries (so a song can be queued twice).
SPECIFICATION MCSpec
CONSTANTS
  NoSong = NoSong
  Songs = {a, b, c}
  MaxLen = 3
SYMMETRY Symmetry
INVARIANTS
  TypeOK
  PeekPredictsNext
  RoundVisitsAll
  LoopIsShuffle
PROPERTIES
  EditKeepsCurrent
  ShuffleRoundTrip
  UndisturbedClean
