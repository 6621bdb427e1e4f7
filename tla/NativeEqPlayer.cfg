\* Two songs of the same or of different formats, of two buffers each, and room
\* for one buffer, so that the decoder has to wait.
SPECIFICATION Spec
CONSTANTS
  Formats = {f1, f2}
  Chunks = 2
  PcmLimit = 1
  MaxStarts = 3
INVARIANTS
  TypeOK
  RendersLivePipeline
  NoStaleAudio
  CompletedMeansDrained
PROPERTIES
  CallsReturn
  KeepsContract
