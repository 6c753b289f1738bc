\* Two commands at a time.  A killed command is one that takes no further step: a
\* safety property needs no action for it.
SPECIFICATION Spec
CONSTANTS
  Procs = {p1, p2}
  Blobs = {b1}
  ProviderIds = {}
  Answers <- AnswersWithBytes
  Reasons = {transient}
  AllowedReasons = {transient}
  Times = {t1}
  Partials = {None}
  MaxAttempts = 2
  MaxRecoveries = 2
  MaxKills = 0
  None = None
SYMMETRY Symmetry
INVARIANTS
  DispatchDiscipline
  CapturedEvidence
  SealsBind
PROPERTIES
  EvidenceAppendOnly
  ImplementsLifecycle
CHECK_DEADLOCK FALSE
