SPECIFICATION Spec
SYMMETRY ScriptSymmetry
CONSTANTS
    Scripts = {s1, s2}
    Crontab <- Mixed
    NoPid = NoPid
    MaxTxn = 3
    MaxLogs = 3
    Batch = 0
    MaxSeq = 3
    Limited = FALSE
    FaultSets = {{"overlap"}, {"overlap", "clock", "fake"}, {"rewind", "fake"}}
INVARIANTS
    NothingLost
    FeedHasNoGap
PROPERTIES
    NotLoggedAgain
