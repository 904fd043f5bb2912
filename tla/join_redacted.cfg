SPECIFICATION Spec
CONSTANTS
    MaxKey = 3
    MaxTags = 2
    MaxRefs = 1
    MayRepeat = FALSE
    MayRedact = TRUE
CHECK_DEADLOCK FALSE
INVARIANTS
    DetailsComplete
