SPECIFICATION Spec
CONSTANTS
    MaxKey = 3
    MaxTags = 2
    MaxRefs = 1
    MayRepeat = TRUE
    MayRedact = TRUE
CHECK_DEADLOCK FALSE
INVARIANTS
    TypeOK
    CompleteUpToSkipped
    AllOrNone
    EveryObjectMerged
