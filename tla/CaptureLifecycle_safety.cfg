\* Two writers, one of which may be killed; three more appends than at the start.
SPECIFICATION FairSpec
CONSTANTS
  Writers = {w1, w2}
  MaxEvents = 7
  MaxCrashes = 1
INVARIANTS
  LedgerVerifies
  AckedStays
  OneOutcome
PROPERTIES
  ImplementsLifecycle
  LockFree
\* The bound on the ledger stops the writers, and so does debris.
CHECK_DEADLOCK FALSE
