\* Requests create, decide and cancel, wakes race with the end of the task that
\* paused, a parent cancels and waits. No symmetry: liveness is checked.
SPECIFICATION FairSpec
CONSTANTS
    Tasks = {t1, t2, t3, t4, t5}
    Requests = {r1, r2, r3, r4, r5}
    Parents = {p1}
    MaxApprovals = 2
    None = None
INVARIANTS MapTrue QuietAfterWait
PROPERTIES WakeIsSeen
CHECK_DEADLOCK FALSE
