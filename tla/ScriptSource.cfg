\* Three scripts, two of them of the same name.
SPECIFICATION Spec
CONSTANTS
  first = first
  again = again
  other = other
  n = n
  m = m
  Source = {first, again, other}
  Name = {n, m}
  NameOf <- Names
  None = None
SYMMETRY Symmetry
INVARIANTS
  TypeOK
  MachinesAreHeld
  AcceptedWorks
  EndedIsReclaimed
  HandlerIsThere
