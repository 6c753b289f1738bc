SPECIFICATION Spec
SYMMETRY NameSymmetry
CONSTANTS
    NoViolation = NoViolation
    Genesis = Genesis
    Absent = Absent
    Procs = {p1, p2}
    RunIds = {r1, r2}
    Models = {"unknown", "model-a"}
    Candidates = {"right", "wrong", "untyped", "raising"}
    Content <- ContentOf
    Evidence <- ContractEvidence
    Rules <- ContractRules
    Cases <- OneCase
    CaseFile <- WrongCase
    SealedBefore <- NothingOrOther
    MaxBenchmarks = 1
    MaxPeriod = 2
INVARIANTS
    FailuresRemembered
    ChainFindsForks
    RetryByPolicy
    HistoryAgrees
CHECK_DEADLOCK FALSE
