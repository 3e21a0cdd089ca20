\* Two executors take tool calls and steers from each other while leases expire,
\* tasks are killed and the process crashes: the first call is gated, the second
\* is not.
SPECIFICATION Spec
CONSTANTS
    Workers = {w1, w2}
    Deciders = {d1}
    None = None
    NSteers = 1
    NCalls = 2
    Gated <- FirstCall
    HasSession = TRUE
    StreamOptions = {FALSE}
    MaxSteps = 1
    MaxModelCalls = 2
    MaxRetries = 0
    MaxAttempts = 3
    MaxCrashes = 1
    MayExpire = TRUE
    MayKill = TRUE
    MayLoseScope = TRUE
SYMMETRY Symmetry
INVARIANTS Inductive OneLeaseholder SteersAccounted ConversationTrue EffectOnce
PROPERTIES FrozenAnswerKept RefusedStaysRefused KeepsPromise
CHECK_DEADLOCK FALSE
