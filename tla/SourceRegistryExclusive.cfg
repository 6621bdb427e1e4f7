\* Two sources, the start-up and the settings page.
SPECIFICATION Spec
CONSTANTS
  Id = {a, b}
  Slot = {s1, s2}
  Task = {page, user}
  Boot = page
  None = None
INVARIANT
  ExclusiveSources
