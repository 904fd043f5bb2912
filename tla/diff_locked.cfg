SPECIFICATION Spec
SYMMETRY RunnerSymmetry
CONSTANTS
    Runners = {r1, r2}
    NoPid = NoPid
    MaxLogs = 2
    MaxSeq = 2
    Limited = FALSE
    FaultSets = {{"kill"}}
INVARIANTS
    LockedDiffIntact
