\* Two attempts, three recoveries, two kills.
SPECIFICATION FairOperatorSpec
CONSTANTS
  Procs = {p1}
  Blobs = {b1, b2}
  ProviderIds = {}
  Answers <- EveryAnswer
  Reasons = {transient}
  AllowedReasons = {transient}
  Times = {t1}
  Partials = {None, b2}
  MaxAttempts = 2
  MaxRecoveries = 3
  MaxKills = 2
  None = None
INVARIANTS
  EvidenceSealable
PROPERTIES
  ReachesReview
CHECK_DEADLOCK FALSE
