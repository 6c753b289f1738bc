SPECIFICATION Spec
SYMMETRY ProcSymmetry
CONSTANTS
    Absent = Absent
    Placeholder = Placeholder
    CaseFiles <- TwoFiles
    Contents = {"v1", "v2"}
    FirstContent = "v1"
    Templates <- Documents
    Procs = {p1, p2}
    Outputs = {"o1"}
    MaxEdits = 1
    MaxCommits = 2
    MaxRevisions = 1
INVARIANTS
    LockBindsCommits
    LockReproduces
    DriftIsSeen
    OfficialIsFrozen
CHECK_DEADLOCK FALSE
