--------------------------- MODULE EditableQueue ---------------------------
(* What the queue of a session promises: an ordered list that grows at the *)
(* end, from which an element may leave, and in which the learner may move *)
(* one element. Nothing else changes the order, and no message is twice in *)
(* it. SessionQueue implements it with integer positions in table rows.    *)
EXTENDS Naturals, Sequences, SequencesExt

CONSTANTS Sessions, Messages

VARIABLE queue      \* the messages of each session, the next one first

Init == queue = [s \in Sessions |-> <<>>]

\* The order without m, which is in it once.
Without(q, m) == RemoveAt(q, CHOOSE k \in DOMAIN q : q[k] = m)

\* New messages join at the end of q, in whatever order they came.
Grown(q, new) == IsPrefix(q, new) /\ IsInjective(new) /\ ToSet(new) \subseteq Messages

Join(s) == Grown(queue[s], queue'[s])

\* One message leaves, wherever it stood; the others keep their order.
Leave(s) == \E m \in ToSet(queue[s]) : queue'[s] = Without(queue[s], m)

\* One message is moved to another place.
Move(s) ==
    \E m \in ToSet(queue[s]), i \in 1..Len(queue[s]) :
        queue'[s] = InsertAt(Without(queue[s], m), i, m)

\* A Run that ends puts its unread steers behind the queue and takes the head.
JoinThenLeave(s) == queue[s] # <<>> /\ Grown(Tail(queue[s]), queue'[s])

Next ==
    \E s \in Sessions :
        /\ queue' = [queue EXCEPT ![s] = queue'[s]]
        /\ Join(s) \/ Leave(s) \/ Move(s) \/ JoinThenLeave(s)

Spec == Init /\ [][Next]_queue
=============================================================================
