SPECIFICATION FairSpec
CONSTANTS
    Objects <- MCObjects
    Layouts <- MCLayouts
    FirstLayout <- MCFirstLayout
    MaxTxn = 2
    MaxMinute = 2
    MaxTrouble = 2
    Troubles = {"log", "slot", "dropped", "late", "kill"}
CHECK_DEADLOCK FALSE
INVARIANTS
    TypeOK
    OnlyRealObjects
    LoggedOnce
    NothingMissing
    PendingHasObjects
    EveryCommitHasEntries
    CronCanRun
PROPERTIES
    BackOnTrackUnlessHalf
