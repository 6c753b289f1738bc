\* Two commands at a time, one of them killed; the operator comes back.
SPECIFICATION FairSpec
CONSTANTS
  Orders <- TwoSlots
  Procs = {p1, p2}
  Operators = {o1}
  Trees = {t1, t2}
  MaxKills = 1
  MaxEdits = 1
  None = None
PROPERTIES
  StudyAdvances
CHECK_DEADLOCK FALSE
