\* One command at a time; no proposal names a lineage, so that none withers.
SPECIFICATION Spec
CONSTANTS
  Procs = {p1}
  Lineages = {}
  Refs = {r1}
  Zones = {z1}
  Asks = {1}
  MaxUses = 2
  RejectLimit = 2
  WitherThreshold = 2
  MaxRuns = 3
  MaxStarts = 3
  MaxKills = 0
  None = None
INVARIANTS
  RejectionsHalt
CHECK_DEADLOCK FALSE
