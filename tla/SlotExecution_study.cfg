\* Two commands at a time, killed, over a repository that is edited.
SPECIFICATION Spec
CONSTANTS
  Orders <- ThreeSlots
  Procs = {p1, p2}
  Operators = {o1}
  Trees = {t1, t2}
  MaxKills = 1
  MaxEdits = 1
  None = None
SYMMETRY Symmetry
INVARIANTS
  StudyStaysReadable
  OneRequestPerSlot
  RunBindsSlot
PROPERTIES
  ImplementsStudy
CHECK_DEADLOCK FALSE
