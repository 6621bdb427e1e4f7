\* Two songs, two calls in flight at once, and three acts of the user or failures of
\* a player: enough for a song to be asked for, fail natively and be asked for again.
SPECIFICATION MCSpec
CONSTANTS
  NoSong = NoSong
  Songs = {a, b}
  Slots = {s1, s2}
  MaxActs = 3
SYMMETRY Symmetry
\* It stops when the acts are used up.
CHECK_DEADLOCK FALSE
INVARIANTS
  EqTypeOK
  UsedIsStarted
  OnePlayerSounds
  NativeIsControlled
  EqLoadingIsAttended
  NativePlaysShownSong
