\* One command at a time, killed up to twice.
SPECIFICATION Spec
CONSTANTS
  Procs = {p1}
  Blobs = {b1, b2}
  ProviderIds = {x}
  Answers <- ForeignAnswers
  Reasons = {transient}
  AllowedReasons = {transient}
  Times = {t1}
  Partials = {None, b2}
  MaxAttempts = 2
  MaxRecoveries = 2
  MaxKills = 2
  None = None
INVARIANTS
  NoUndeclaredResend
  RecoveryReconcilable
  SealedVerifiable
CHECK_DEADLOCK FALSE
