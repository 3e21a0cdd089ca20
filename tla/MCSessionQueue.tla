--------------------------- MODULE MCSessionQueue ---------------------------
(***************************************************************************)
(* Instances of SessionQueue for TLC.                                      *)
(***************************************************************************)
EXTENDS SessionQueue, TLC

CONSTANTS s0, s1, s2, p1, i1

\* A session without a plan and two on one plan; a session on a plan.
ThreeSessions == (s0 :> None) @@ (s1 :> p1) @@ (s2 :> p1)
OnePlan       == (s1 :> p1)

InFirst == (i1 :> s1)

Symmetry == Permutations(Messages)

Concerns(S, P) ==
    /\ \A s \in Sessions \ S : In(item, s) = {}
    /\ \A r \in Runs : run[r].status # "absent" => run[r].session \in S \cup {None}
    /\ \A r \in Runs : run[r].status # "absent" => run[r].plan \in P
    /\ archived \cup archiving \subseteq S \cup P

\* The modes of the rows and Runs there are.
ModesSeen ==
    {item[m].mode : m \in {n \in Messages : item[n] # None}}
        \cup {run[r].mode : r \in Runs}

NoFence == \A r \in Runs : run[r].status # "needs_reconciliation"

\* Two tabs edit, move, delete and send the rows of a session whose Runs end.
TabsCase == Concerns({s0}, {None}) /\ archived \cup archiving = {} /\ NoFence

\* Replies to an intervention, their edits, steers, mail, a heartbeat and fenced Runs,
\* on two sessions of one plan.
RepliesCase ==
    /\ Concerns({s1, s2}, {p1}) /\ archived \cup archiving = {}
    /\ \A t \in Tabs : view[t] = None

\* A session and its plan are archived and restored while messages and replies come.
ArchiveCase ==
    /\ Concerns({s1}, {p1}) /\ NoFence
    /\ \A t \in Tabs : view[t] = None
    /\ \A r \in Beats : run[r].status = "absent"

\* Bound: a behaviour is about one of these cases.
OneCase ==
    \/ TabsCase /\ ModesSeen \subseteq {"normal"}
    \/ RepliesCase /\ ModesSeen \subseteq {"normal"}
    \/ ArchiveCase
=============================================================================
