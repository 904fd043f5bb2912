SPECIFICATION FairSpec
CONSTANTS
    Scripts = {s1}
    Crontab <- Detailed
    NoPid = NoPid
    MaxTxn = 2
    MaxLogs = 3
    Batch = 1
    MaxSeq = 3
    Limited = FALSE
    FaultSets = {{}}
PROPERTIES
    EveryChangePublished
