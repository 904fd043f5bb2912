SPECIFICATION Spec
SYMMETRY ProcSymmetry
CONSTANTS
    Procs = {p1, p2}
    NoPid = NoPid
    MaxTxn = 2
    MaxLogs = 2
    Batch = 0
    FaultSets = {{"kill", "crash"}}
INVARIANTS
    NoChangeForgotten
