\* Two songs and two calls in flight at once; no symmetry, because a liveness
\* property is checked.
SPECIFICATION MCFairSpec
CONSTANTS
  NoSong = NoSong
  Songs = {a, b}
  Slots = {s1, s2}
INVARIANTS
  TypeOK
  LoadingIsAttended
  StatusIsHonest
  ErrorsMoveOn
  ShowsWhatPlays
  OldSongIsSilent
PROPERTIES
  LatestOwnsPlayer
  LoadingEnds
