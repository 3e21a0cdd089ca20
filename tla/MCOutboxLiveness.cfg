\* What must happen in the end, with retries, a crash and a restart.
SPECIFICATION FairSpec
CONSTANTS
    Actions <- MixedActions
    Dest <- MixedDest
    Batch <- MixedBatch
    Meeting = {{1, 2, 3}}
    Link <- MixedLink
    Content <- Contents2
    Absent = "absent"
    Blocked = "directory"
    Touched = {}
    MayStop = FALSE
    MayFail = FALSE
    MaxTokens = 2
    MaxHalts = 1
PROPERTIES IntentsSettle
CHECK_DEADLOCK FALSE
