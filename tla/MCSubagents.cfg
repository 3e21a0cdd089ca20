SPECIFICATION FairSpec
CONSTANTS
    Assignments = {1, 2, 3}
    Spawned = {s}
    Requests = {q}
    Parent = Parent
    Setups <- MCSetups
    None = None
INVARIANTS ChildrenTrue NoOrphans
CHECK_DEADLOCK FALSE
PROPERTIES WorkEnds
