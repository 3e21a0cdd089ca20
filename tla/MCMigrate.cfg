\* Two connections beside a coordinator that migrates, backs up and restores; openings,
\* failures, kills, power losses and restores in any mixture, four in all, at any step;
\* the application is started again and again. A database in the mode of the rollback
\* journal is what a failed upgrade or a restore leaves. No symmetry: liveness is checked.
SPECIFICATION FairSpec
CONSTANTS
    None = None
    w1 = w1
    w2 = w2
    r1 = r1
    Writer <- TwoWriters
    Row <- OneRow
    Operations <- OperationNames
    Sources = {"absent", "wal"}
    MaxEvents = 4
    MaxBackups = 0
INVARIANTS CommitSurvives NoMixture OutcomesTrue
PROPERTIES ReplacedSafely BecomesCurrent
