\* One command at a time.
SPECIFICATION Spec
CONSTANTS
  Procs = {p1}
  Lineages = {l1}
  Refs = {r1, r2}
  Zones = {z1, z2}
  Asks = {1, 2}
  MaxUses = 2
  RejectLimit = 2
  WitherThreshold = 2
  MaxRuns = 3
  MaxStarts = 3
  MaxKills = 1
  None = None
SYMMETRY Symmetry
INVARIANTS
  BudgetHeld
  LineageSound
  RatifiedZone
PROPERTIES
  ImplementsHold
\* The loop stops at its bounds, on a halt, and on half a line.
CHECK_DEADLOCK FALSE
