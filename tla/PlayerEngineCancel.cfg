SPECIFICATION MCSpec
CONSTANTS
  NoSong = NoSong
  Songs = {a, b}
  Slots = {s1, s2, s3}
SYMMETRY Symmetry
INVARIANT
  CancelledStaysStopped
