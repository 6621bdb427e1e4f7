\* Two sources, three callers, three objects of one source.
SPECIFICATION Spec
CONSTANTS
  Id = {a, b}
  Slot = {s1, s2, s3}
  Task = {page, user1, user2}
  Boot = page
  None = None
SYMMETRY Symmetry
ACTION_CONSTRAINT OneRace
INVARIANTS
  TypeOK
  EnabledRuns
  QuietIsSaved
  RestartRestores
  SingleSelection
  NoOrphanSandbox
PROPERTIES
  SourcesSurvive
  KeepsContract
