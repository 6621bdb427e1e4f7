SPECIFICATION Spec
CONSTANTS
  Formats = {f1, f2}
  Chunks = 2
  PcmLimit = 1
  MaxStarts = 2
PROPERTY
  ReleaseOnlyStopped
