SPECIFICATION FairSpec
CONSTANTS
    Scripts = {s1}
    Crontab <- Mixed
    NoPid = NoPid
    MaxTxn = 2
    MaxLogs = 2
    Batch = 0
    MaxSeq = 2
    Limited = FALSE
    FaultSets = {{"kill"}, {"crash"}}
PROPERTIES
    EveryChangePublished
