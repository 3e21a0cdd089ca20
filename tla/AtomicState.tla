---------------------------- MODULE AtomicState ----------------------------
(* What backup, reset and restore promise: the runtime state of the        *)
(* application is one thing. The application changes it as it likes;       *)
(* maintenance replaces it in one step, by the empty state or by a backup, *)
(* and only when the state it replaces is in a backup itself.              *)
VARIABLES
    state,      \* the managed files, as the next start of the application finds them
    backups,    \* the backups that have been published
    running     \* whether the application is running

CONSTANTS
    States,     \* all there may be in the managed files
    Fresh,      \* the state after a reset
    Nobody      \* the state of a root in which nothing is managed yet

Init ==
    /\ state \in States
    /\ backups = {}

\* The application works.
Write ==
    /\ running
    /\ state' \in States
    /\ UNCHANGED backups

Backup ==
    /\ backups' = backups \cup {state}
    /\ UNCHANGED state

\* A reset or a restore.
Switch ==
    /\ state \in backups \cup {Nobody, Fresh}
    /\ state' \in backups \cup {Fresh}
    /\ UNCHANGED backups

Next == Write \/ Backup \/ Switch

Spec == Init /\ [][Next]_<<state, backups>>
=============================================================================
