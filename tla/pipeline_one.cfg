SPECIFICATION Spec
SYMMETRY ScriptSymmetry
CONSTANTS
    Scripts = {s1}
    Crontab <- Detailed
    NoPid = NoPid
    MaxTxn = 2
    MaxLogs = 3
    Batch = 0
    MaxSeq = 3
    Limited = TRUE
    FaultSets = {{"fail", "kill"}, {"crash"}}
INVARIANTS
    NothingLost
    FeedHasNoGap
    PublishedOnce
    PendingDisjoint
    CatchupAccepted
PROPERTIES
    ImplementsFeed
