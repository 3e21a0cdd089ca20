\* Two concurrent decision requests and one executor, with steers, retries, a
\* cancellation, a lost scope and a crash after which the process is started
\* again. The executor is never killed alone and its lease never stalls, for a
\* Run would then have nobody. No symmetry.
SPECIFICATION FairSpec
CONSTANTS
    Workers = {w1}
    Deciders = {d1, d2}
    None = None
    NSteers = 1
    NCalls = 1
    Gated <- FirstCall
    HasSession = TRUE
    StreamOptions = {TRUE}
    MaxSteps = 2
    MaxModelCalls = 2
    MaxRetries = 1
    MaxAttempts = 6
    MaxCrashes = 1
    MayExpire = FALSE
    MayKill = FALSE
    MayLoseScope = TRUE
INVARIANTS WaitingIsDecidable
PROPERTIES TerminalIsFinal RunsSettle
CHECK_DEADLOCK FALSE
