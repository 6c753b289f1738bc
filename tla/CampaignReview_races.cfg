SPECIFICATION Spec
SYMMETRY NameSymmetry
CONSTANTS
    e1 = e1
    e2 = e2
    r1 = r1
    r2 = r2
    Absent = Absent
    Protocol = "protocol"
    Executions = {e1, e2}
    Bundles <- CapturedBundles
    Resealings <- NoneOuterOrJudged
    RatificationIds = {r1, r2}
    Actions = {"ratify", "halt"}
    ClosureIds = {"c1"}
    Cohorts <- PairOrTwice
    Procs = {p1, p2}
    MaxChanges = 1
    MaxRuns = 3
INVARIANTS
    PacketBindsLedger
    ClosureAcceptsRatified
    ClosureComparable
CHECK_DEADLOCK FALSE
