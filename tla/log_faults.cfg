SPECIFICATION Spec
SYMMETRY ProcSymmetry
CONSTANTS
    Procs = {p1, p2}
    NoPid = NoPid
    MaxTxn = 3
    MaxLogs = 3
    Batch = 2
    FaultSets = {{"fail", "kill"}, {"crash"}, {"kill", "rewind", "clock", "fake"}, {"crash", "rewind", "fake"}}
INVARIANTS
    TypeOK
    OneLogCommand
    NoGapBelowLog
    NoChangeForgotten
    UnsyncedHasWriter
