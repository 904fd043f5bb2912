SPECIFICATION FairSpec
CONSTANTS
    Objects <- MCObjects
    Layouts <- MCLayouts
    FirstLayout <- MCFirstLayout
    MaxTxn = 2
    MaxMinute = 2
    MaxTrouble = 1
    Troubles = {"dropped"}
CHECK_DEADLOCK FALSE
PROPERTIES
    BackOnTrack
