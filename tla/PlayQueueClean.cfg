SPECIFICATION Spec
CONSTANTS
  NoSong = NoSong
  Songs = {a, b, c}
  MaxLen = 3
PROPERTY
  CleanRemovesPlayed
