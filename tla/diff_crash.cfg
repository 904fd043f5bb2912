SPECIFICATION Spec
SYMMETRY RunnerSymmetry
CONSTANTS
    Runners = {r1, r2}
    NoPid = NoPid
    MaxLogs = 3
    MaxSeq = 3
    Limited = TRUE
    FaultSets = {{"fail", "kill", "crash", "rewind"}}
INVARIANTS
    TypeOK
    FeedComplete
    DoneIsPublished
    FeedInOrder
    HalfDoneIsLocked
    
PROPERTIES
    FeedIsForever
