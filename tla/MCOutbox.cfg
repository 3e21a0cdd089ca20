\* Notices, or two pieces of code, or two writes of one file and their undos while
\* others edit the file or put a directory in its place, with retries, cancelled
\* Runs, stops, crashes and a database that refuses.
SPECIFICATION Spec
CONSTANTS
    Actions <- AllActions
    Dest <- AllDest
    Batch <- AllBatch
    Meeting = {{1, 2}, {3, 4}, {5, 6}}
    Link <- AllLink
    Content <- AllContent
    Absent = "absent"
    Blocked = "directory"
    Touched = {"v3", "directory"}
    MayStop = TRUE
    MayFail = TRUE
    MaxTokens = 2
    MaxHalts = 1
INVARIANTS RecordsTrue
PROPERTIES EffectsAtMostOnce DeliveryIsFinal FileFollowsIntents
CHECK_DEADLOCK FALSE
