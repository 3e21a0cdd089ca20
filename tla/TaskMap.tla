------------------------------ MODULE TaskMap ------------------------------
(* The process-local map from a Run to its asyncio task. The event loop is *)
(* single threaded: each function of runtime/tasks.py is one action, and   *)
(* between a commit and the wake that follows it, between the return of a  *)
(* task and its done callback, anything else may run. Keys of the map are  *)
(* independent of each other, so the module has one Run.                   *)
(*                                                                         *)
(* What the tasks do to the Run is in RunLifecycle; here a task claims it, *)
(* pauses it for an approval, schedules a retry or ends it.                *)
EXTENDS Naturals, FiniteSets

CONSTANTS
    Tasks,          \* asyncio tasks, at least one for each request (a bound)
    Requests,       \* HTTP requests: create, decide, cancel
    Parents,        \* callers of cancel_and_wait_tracked_task
    MaxApprovals,   \* approvals the Run asks for (a bound)
    None

ASSUME TaskAssumption ==
    /\ MaxApprovals \in Nat
    /\ None \notin Nat \cup Tasks

VARIABLES
    slot,       \* _tasks: the task that owns the Run's place
    pending,    \* _pending_wakes: the key of the coroutine kept for later
    active,     \* _active_wake_keys
    task,       \* state and wake key of each task
    signalled,  \* tasks on which cancel() was called
    run,        \* the agent_runs row
    request,    \* where each request is
    parent,     \* where each caller of cancel_and_wait is, and its task
    coros       \* observed: coroutines created and closed unstarted

vars == <<slot, pending, active, task, signalled, run, request, parent, coros>>
mapVars == <<slot, pending, active>>

Keys == 1..MaxApprovals
Live == {"created", "working", "sleeping", "leaving"}

Done(t) == task[t].state \notin Live

Busy == slot # None /\ ~Done(slot)

Init ==
    /\ slot = None
    /\ pending = None
    /\ active = None
    /\ task = [t \in Tasks |-> [state |-> "unused", key |-> None]]
    /\ signalled = {}
    /\ run = [status |-> "absent", asked |-> 0, consumed |-> TRUE]
    /\ request = [r \in Requests |-> [pc |-> "new", key |-> None]]
    /\ parent = [p \in Parents |-> [pc |-> "new", task |-> None]]
    /\ coros = [made |-> 0, closed |-> 0]

-----------------------------------------------------------------------------
(* The functions of tasks.py.                                              *)

\* _launch_tracked_task: tk is the table of tasks so far.
Launch(tk, key) ==
    LET unused == {t \in Tasks : tk[t].state = "unused"}
        t == CHOOSE u \in unused : TRUE
    IN  /\ unused # {}
        /\ slot' = t
        /\ active' = key
        /\ task' = [tk EXCEPT ![t] = [state |-> "created", key |-> key]]

Coroutine(made, closed) ==
    coros' = [made |-> coros.made + made, closed |-> coros.closed + closed]

\* start_tracked_task: one task per Run; a kept wake goes first.
StartTracked ==
    \/ /\ Busy
       /\ Coroutine(1, 1)
       /\ UNCHANGED <<slot, pending, active, task>>
    \/ /\ ~Busy
       /\ Launch(task, pending)
       /\ pending' = None
       /\ Coroutine(1, IF pending = None THEN 0 ELSE 1)

\* A wake that is only a start with a key.
WakeIsStart(key) ==
    \/ /\ Busy
       /\ Coroutine(1, 1)
       /\ UNCHANGED <<slot, pending, active, task>>
    \/ /\ ~Busy
       /\ Launch(task, key)
       /\ Coroutine(1, 0)
       /\ UNCHANGED pending

\* wake_tracked_task: the same wake is dropped while its task works; one
\* coroutine at most is kept for the end of another task.
WakeTracked(key) ==
    \/ /\ Busy /\ active = key
       /\ Coroutine(1, 1)
       /\ UNCHANGED <<slot, pending, active, task>>
    \/ /\ ~(Busy /\ active = key)
       /\ pending # None
       /\ Coroutine(1, 1)
       /\ IF slot # None
            THEN UNCHANGED <<slot, pending, active, task>>
            ELSE Launch(task, pending) /\ pending' = None
    \/ /\ Busy /\ active # key /\ pending = None
       /\ pending' = key
       /\ Coroutine(1, 0)
       /\ UNCHANGED <<slot, active, task>>
    \/ /\ ~Busy /\ pending = None
       /\ Launch(task, key)
       /\ Coroutine(1, 0)
       /\ UNCHANGED pending

\* cancel_tracked_task
CancelTracked ==
    /\ pending' = None
    /\ active' = None
    /\ Coroutine(0, IF pending = None THEN 0 ELSE 1)
    /\ signalled' = IF Busy THEN signalled \cup {slot} ELSE signalled

\* A callback that takes the slot whoever owns it.
CleanupSlot(t) ==
    LET tk == [task EXCEPT ![t].state = "gone"]
    IN  IF pending # None
          THEN Launch(tk, pending) /\ pending' = None
          ELSE slot' = None /\ active' = None /\ task' = tk /\ UNCHANGED pending

\* The done callback: the owner of the slot hands it to the kept wake.
CleanupOwned(t) ==
    LET tk == [task EXCEPT ![t].state = "gone"]
        key == IF task[t].key # None /\ active = task[t].key THEN None ELSE active
    IN  IF slot # t
          THEN task' = tk /\ UNCHANGED mapVars
          ELSE IF pending # None
            THEN Launch(tk, pending) /\ pending' = None
            ELSE slot' = None /\ active' = key /\ task' = tk /\ UNCHANGED pending

Cleanup(t) ==
    /\ task[t].state = "done"
    /\ CleanupOwned(t)
    /\ UNCHANGED <<signalled, run, request, parent, coros>>

-----------------------------------------------------------------------------
(* A task and its Run.                                                     *)

\* claim_run; a Run that is not runnable, or ended, is not worked on. The
\* sleeper of a retry claims again.
Claim(t) ==
    /\ task[t].state \in {"created", "sleeping"}
    /\ IF run.status \in {"queued", "retry"}
         THEN /\ run' = [run EXCEPT !.status = "running"]
              /\ task' = [task EXCEPT ![t].state = "working"]
         ELSE /\ task' = [task EXCEPT ![t].state = "leaving"]
              /\ UNCHANGED run
    /\ UNCHANGED <<slot, pending, active, signalled, request, parent, coros>>

\* A step of a task that has the lease: it consumes the decision, pauses for
\* another approval, schedules a retry or ends the Run. What a cancelled task
\* had already sent to the database may still be committed.
Work(t) ==
    /\ task[t].state = "working" /\ run.status = "running"
    /\ \/ /\ ~run.consumed
          /\ run' = [run EXCEPT !.consumed = TRUE]
          /\ UNCHANGED task
       \/ /\ run.consumed /\ run.asked < MaxApprovals
          /\ run' = [status |-> "waiting", asked |-> run.asked + 1, consumed |-> FALSE]
          /\ task' = [task EXCEPT ![t].state = "leaving"]
       \/ /\ run' = [run EXCEPT !.status = "retry"]
          /\ task' = [task EXCEPT ![t].state = "sleeping"]
       \/ /\ run.consumed
          /\ run' = [run EXCEPT !.status = "ended"]
          /\ task' = [task EXCEPT ![t].state = "leaving"]
    /\ UNCHANGED <<slot, pending, active, signalled, request, parent, coros>>

\* The lease is gone: the executor stops.
LoseLease(t) ==
    /\ task[t].state = "working" /\ run.status = "ended"
    /\ task' = [task EXCEPT ![t].state = "leaving"]
    /\ UNCHANGED <<slot, pending, active, signalled, run, request, parent, coros>>

\* The coroutine returns, or meets the cancellation at its next await.
Return(t) ==
    /\ \/ task[t].state = "leaving"
       \/ t \in signalled /\ task[t].state \in Live
    /\ task' = [task EXCEPT ![t].state = "done"]
    /\ UNCHANGED <<slot, pending, active, signalled, run, request, parent, coros>>

-----------------------------------------------------------------------------
(* Requests.                                                               *)

At(r, pc, key) == request' = [request EXCEPT ![r] = [pc |-> pc, key |-> key]]

\* create_run commits, then starts.
Create(r) ==
    /\ request[r].pc = "new"
    /\ run.status = "absent"
    /\ run' = [run EXCEPT !.status = "queued"]
    /\ At(r, "start", None)
    /\ UNCHANGED <<slot, pending, active, task, signalled, parent, coros>>

\* A decision is committed, or repeated while its Run has not consumed it.
Decide(r) ==
    /\ request[r].pc = "new"
    /\ run.asked > 0 /\ ~run.consumed
    /\ \/ /\ run.status = "waiting"
          /\ run' = [run EXCEPT !.status = "queued"]
       \/ /\ run.status \in {"queued", "running"}
          /\ UNCHANGED run
    /\ At(r, "wake", run.asked)
    /\ UNCHANGED <<slot, pending, active, task, signalled, parent, coros>>

Start(r) ==
    /\ request[r].pc = "start"
    /\ StartTracked
    /\ At(r, "done", None)
    /\ UNCHANGED <<signalled, run, parent>>

Wake(r) ==
    /\ request[r].pc = "wake"
    /\ WakeTracked(request[r].key)
    /\ At(r, "done", None)
    /\ UNCHANGED <<signalled, run, parent>>

\* cancel_run signals the task first and commits the end of the Run then.
Cancel(r) ==
    /\ request[r].pc = "new"
    /\ run.status \notin {"absent", "ended"}
    /\ CancelTracked
    /\ At(r, "terminate", None)
    /\ UNCHANGED <<slot, task, run, parent>>

Terminate(r) ==
    /\ request[r].pc = "terminate"
    /\ run' = [run EXCEPT !.status = "ended"]
    /\ At(r, "done", None)
    /\ UNCHANGED <<slot, pending, active, task, signalled, parent, coros>>

-----------------------------------------------------------------------------
(* cancel_child: commits the end of the Run, cancels its task and waits.   *)

TerminateChild(p) ==
    /\ parent[p].pc = "new"
    /\ run.status \notin {"absent", "ended"}
    /\ run' = [run EXCEPT !.status = "ended"]
    /\ parent' = [parent EXCEPT ![p].pc = "cancel"]
    /\ UNCHANGED <<slot, pending, active, task, signalled, request, coros>>

CancelAndWait(p) ==
    /\ parent[p].pc = "cancel"
    /\ CancelTracked
    /\ parent' = [parent EXCEPT ![p] = [pc |-> "wait", task |-> slot]]
    /\ UNCHANGED <<slot, task, run, request>>

\* A caller that only signals.
ReadyAtOnce(p) == TRUE

\* gather returns when the task is done.
Ready(p) == parent[p].task # None => Done(parent[p].task)

Waited(p) ==
    /\ parent[p].pc = "wait"
    /\ Ready(p)
    /\ parent' = [parent EXCEPT ![p].pc = "returned"]
    /\ UNCHANGED <<slot, pending, active, task, signalled, run, request, coros>>

Next ==
    \/ \E t \in Tasks : Cleanup(t) \/ Claim(t) \/ Work(t) \/ LoseLease(t) \/ Return(t)
    \/ \E r \in Requests : \/ Create(r) \/ Decide(r) \/ Start(r) \/ Wake(r)
                           \/ Cancel(r) \/ Terminate(r)
    \/ \E p \in Parents : TerminateChild(p) \/ CancelAndWait(p) \/ Waited(p)

Spec == Init /\ [][Next]_vars

\* The event loop runs what is ready: callbacks, tasks, requests that have
\* begun. Nobody is forced to decide or cancel.
Fairness ==
    /\ \A t \in Tasks : /\ WF_vars(Cleanup(t)) /\ WF_vars(Claim(t))
                        /\ WF_vars(LoseLease(t)) /\ WF_vars(Return(t))
    /\ \A r \in Requests : WF_vars(Start(r)) /\ WF_vars(Wake(r)) /\ WF_vars(Terminate(r))
    /\ \A p \in Parents : WF_vars(CancelAndWait(p)) /\ WF_vars(Waited(p))

FairSpec == Spec /\ Fairness

-----------------------------------------------------------------------------
(* Properties.                                                             *)

TypeOK ==
    /\ slot \in Tasks \cup {None}
    /\ {pending, active} \subseteq Keys \cup {None}
    /\ task \in [Tasks -> [state : Live \cup {"unused", "done", "gone"},
                           key : Keys \cup {None}]]
    /\ signalled \subseteq Tasks
    /\ run \in [status : {"absent", "queued", "running", "waiting", "retry", "ended"},
                asked : 0..MaxApprovals, consumed : BOOLEAN]
    /\ request \in [Requests -> [pc : {"new", "start", "wake", "terminate", "done"},
                                 key : Keys \cup {None}]]
    /\ parent \in [Parents -> [pc : {"new", "cancel", "wait", "returned"},
                               task : Tasks \cup {None}]]
    /\ coros \in [made : Nat, closed : Nat]

\* Starts, wakes and callbacks in any order never give the Run two tasks that
\* could work on it at once.
OneTask == \A t, u \in Tasks : ~Done(t) /\ ~Done(u) => t = u

\* Every coroutine that a caller created is started once, closed, or kept: none
\* is forgotten by an overwritten wake or by a cancellation.
CoroutinesSettle ==
    coros.made = coros.closed + Cardinality({t \in Tasks : task[t].state # "unused"})
                 + IF pending = None THEN 0 ELSE 1

\* A kept wake always has a task whose callback will hand the slot over.
WakeHasOwner == pending # None => slot # None /\ task[slot].state # "gone"

\* The map knows every task, every coroutine and every kept wake, and no Run has
\* two tasks.
MapTrue == TypeOK /\ OneTask /\ CoroutinesSettle /\ WakeHasOwner

\* When cancel_and_wait_tracked_task returns nobody works on the Run, and
\* nobody will: a wake that raced it finds the Run ended.
QuietAfterWait ==
    \A p \in Parents : parent[p].pc = "returned" =>
        \A t \in Tasks : task[t].state \notin {"working", "sleeping"}

\* A runnable Run is claimed (or ended): its start or wake is not lost,
\* although the task that paused it may still hold the slot.
WakeIsSeen == run.status = "queued" ~> run.status # "queued"
=============================================================================
