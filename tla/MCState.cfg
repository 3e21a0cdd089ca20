\* Two crashes, a failure and a late interrupt anywhere in backups, resets,
\* restores and recoveries; the application is started again and again.
SPECIFICATION FairSpec
CONSTANTS
    context = context  database = database  wal = wal
    Paths <- OneTree
    Place <- ByName
    Db = database
    Sidecar = wal
    MaxGen = 2
    MaxCrashes = 2
    MaxFaults = 1
    MaxLate = 1
INVARIANTS Recoverable
PROPERTIES Atomic OperationsSettle
