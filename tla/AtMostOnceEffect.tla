--------------------------- MODULE AtMostOnceEffect ---------------------------
(***************************************************************************)
(* What the outbox promises of a mail, a push or a piece of code: the      *)
(* effect happens at most once, only behind a fence that is never lifted   *)
(* by guessing.  A fenced intent leaves the fence in one of three ways:    *)
(* delivered, once its effect has happened; dropped or returned to the     *)
(* queue, when it certainly has not.  Otherwise it stays fenced, for a     *)
(* human to reconcile.                                                     *)
(***************************************************************************)
EXTENDS Naturals

CONSTANT Effects

VARIABLES
    phase,   \* of each intent
    count    \* how often its effect has happened

vars == <<phase, count>>

Init ==
    /\ phase = [e \in Effects |-> "none"]
    /\ count = [e \in Effects |-> 0]

To(e, p) == phase' = [phase EXCEPT ![e] = p]

\* The intents of one tool call are stored together.
Intend(E) ==
    /\ \A e \in E : phase[e] = "none"
    /\ phase' = [e \in Effects |-> IF e \in E THEN "intended" ELSE phase[e]]
    /\ UNCHANGED count

Fence(e) == phase[e] = "intended" /\ To(e, "fenced") /\ UNCHANGED count

Happen(e) ==
    /\ phase[e] = "fenced"
    /\ count[e] = 0
    /\ count' = [count EXCEPT ![e] = 1]
    /\ UNCHANGED phase

Deliver(e) ==
    phase[e] = "fenced" /\ count[e] = 1 /\ To(e, "delivered") /\ UNCHANGED count

Abandon(e) ==
    /\ phase[e] = "fenced"
    /\ count[e] = 0
    /\ To(e, "intended") \/ To(e, "cancelled")
    /\ UNCHANGED count

Next ==
    \/ \E E \in SUBSET Effects : Intend(E)
    \/ \E e \in Effects : Fence(e) \/ Happen(e) \/ Deliver(e) \/ Abandon(e)

Spec == Init /\ [][Next]_vars
=============================================================================
