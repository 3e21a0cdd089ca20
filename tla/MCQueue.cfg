\* The three cases of MCSessionQueue.
SPECIFICATION Spec
CONSTANTS
    s0 = s0  s1 = s1  s2 = s2  p1 = p1  i1 = i1
    Sessions = {s0, s1, s2}
    Plans = {p1}
    Interventions = {i1}
    Messages = {m1, m2, m3}
    Beats = {b1}
    Tabs = {t1, t2}
    PlanOf <- ThreeSessions
    SessionOf <- InFirst
    Modes = {"normal", "read_only"}
    None = None
    Channels = {"run", "steer", "mail", "beat", "fence", "archive", "edit"}
    MaxVersion = 3
CONSTRAINT OneCase
SYMMETRY Symmetry
INVARIANTS RowsKept OneRootPerScope RepliesAgree
PROPERTIES NoBlindChange QueueOrder EndStartsNext
CHECK_DEADLOCK FALSE
