----------------------------- MODULE RunOutcome -----------------------------
(***************************************************************************)
(* What one Agent Run promises to its user, without leases, checkpoints,   *)
(* executors or crashes: every steer is handed to the Run or kept for a    *)
(* later one, at most one answer is given, a gated call acts only once it  *)
(* is approved, every call acts at most once, and nothing changes the      *)
(* outcome of a Run that is over.                                          *)
(***************************************************************************)
EXTENDS Naturals, Sequences

CONSTANTS NSteers, NCalls, Gated

VARIABLES
    outcome,   \* "open" until the Run is over
    disp,      \* what has become of each steer
    answers,   \* the final answers the user has been given
    approved,  \* the calls the user has approved
    effects    \* how often each call has taken effect

vars == <<outcome, disp, answers, approved, effects>>

Init ==
    /\ outcome = "open"
    /\ disp = [s \in 1 .. NSteers |-> "unsent"]
    /\ answers = <<>>
    /\ approved = {}
    /\ effects = [c \in 1 .. NCalls |-> 0]

Waiting == {s \in 1 .. NSteers : disp[s] = "pending"}
Moved(d) == [s \in 1 .. NSteers |-> IF s \in Waiting THEN d ELSE disp[s]]

\* The user writes while the Run works: the Run may still take the steer, or
\* it is kept for a Run of its own. A completed Run takes no more.
Send(s) ==
    /\ disp[s] = "unsent"
    /\ \/ outcome = "open" /\ disp' = [disp EXCEPT ![s] = "pending"]
       \/ outcome \in {"open", "completed"} /\ disp' = [disp EXCEPT ![s] = "queued"]
    /\ UNCHANGED <<outcome, answers, approved, effects>>

\* The Run takes all the steers that wait, not some of them.
Take ==
    /\ outcome = "open"
    /\ Waiting # {}
    /\ disp' = Moved("applied")
    /\ UNCHANGED <<outcome, answers, approved, effects>>

\* The end with an answer, or without a word, which leaves no steer behind.
Complete(said) ==
    /\ outcome = "open"
    /\ Waiting = {}
    /\ outcome' = "completed"
    /\ answers' = said
    /\ UNCHANGED <<disp, approved, effects>>

\* The Run fails or is cancelled: the steers it has not taken are kept, or
\* wait for ever when the plan or the session they belong to is gone.
Close(st) ==
    /\ outcome = "open"
    /\ outcome' = st
    /\ disp' \in {Moved("queued"), disp}
    /\ disp' = disp => st = "failed" \/ Waiting = {}
    /\ UNCHANGED <<answers, approved, effects>>

\* Only an open Run can be given a permission.
Approve(c) ==
    /\ outcome = "open"
    /\ c \notin approved
    /\ approved' = approved \cup {c}
    /\ UNCHANGED <<outcome, disp, answers, effects>>

\* A call acts once; an executor that has lost the Run may still let it act.
Act(c) ==
    /\ effects[c] = 0
    /\ c \in Gated => c \in approved
    /\ effects' = [effects EXCEPT ![c] = 1]
    /\ UNCHANGED <<outcome, disp, answers, approved>>

Next ==
    \/ \E s \in 1 .. NSteers : Send(s)
    \/ Take
    \/ \E said \in {<<>>, <<"answer">>, <<"limit">>} : Complete(said)
    \/ \E st \in {"failed", "cancelled"} : Close(st)
    \/ \E c \in 1 .. NCalls : Approve(c) \/ Act(c)

Spec == Init /\ [][Next]_vars
=============================================================================
