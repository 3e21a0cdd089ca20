----------------------------- MODULE Subagents -----------------------------
(* The child Runs of one Run. Its tools create them: subagent_spawn one    *)
(* and goes on, planning_delegate a list of assignments and waits for all  *)
(* of them with asyncio.gather. A child is a Run of its own with a tracked *)
(* task; its end and the event that tells the parent of it are one         *)
(* transaction, whoever ends it: its executor, the parent that is over or  *)
(* has run out of time, a request, or the next start of the process.       *)
(* Children of a delegation commit their ends in the order of the          *)
(* assignments: each waits for an asyncio.Event of the one before it.      *)
(*                                                                         *)
(* A Run has one task at a time (see TaskMap). What the parent does        *)
(* besides is in RunLifecycle; here it is active or over.                  *)
EXTENDS Integers, FiniteSets, SequencesExt

CONSTANTS
    Assignments,    \* of the delegation, by number
    Spawned,        \* children of subagent_spawn
    Requests,       \* requests that cancel the parent or one child
    Parent,         \* the parent, where it sweeps over its children
    Setups,         \* what a behaviour is about, and its bounds: how many are
                    \* assigned, whether there are spawns and requests, retries
                    \* of a child (AGENT_RUN_MAX_RETRIES), calls of the two
                    \* tools, and crashes or refused transactions
    None

Children == Assignments \cup Spawned

ASSUME SubagentAssumption ==
    /\ IsFiniteSet(Children)
    /\ Assignments = 1 .. Cardinality(Assignments)
    /\ Assignments \cap Spawned = {}
    /\ Parent \notin Requests
    /\ Setups \subseteq [planned : Assignments, spawns : BOOLEAN, requests : BOOLEAN,
                        retries : Nat, rounds : Nat, faults : Nat]
    /\ None \notin Children

VARIABLES
    setup,      \* the bounds of this behaviour
    row,        \* agent_runs of the children
    task,       \* the task of each child: where it is, and the round of the
                \* delegation whose events it knows (0 without them)
    turn,       \* the terminal_events that are set, by round and assignment
    parent,     \* status of the parent's row, and where its task is
    sweep,      \* cancel_child for one child after the other, by whom
    request,    \* where each request is, and the child it stops
    events,     \* subagent.completed in the parent's log
    told,       \* what planning_delegate has reported of a child
    up, rounds, refusals, crashes,
    stopped,    \* observed: children that a request stopped alone
    gaveUp      \* observed: the end of the parent or of a sweep was refused, or
                \* a cancellation was lost by a refusal

counts == <<rounds, refusals, crashes, setup>>
vars == <<row, task, turn, parent, sweep, request, events, told, up, counts, stopped, gaveUp>>

\* The children of this behaviour's delegation.
Planned == 1 .. setup.planned

Active == {"queued", "running", "retry_wait"}
Terminal == {"completed", "failed", "cancelled"}
Over == {"none", "returned", "raised", "cancelled"}

NoRow == [status |-> "absent", frozen |-> FALSE, retries |-> 0]
NoTask == [pc |-> "none", round |-> 0, end |-> "none", signalled |-> FALSE]
NoSweep == [step |-> "off", todo |-> {}, child |-> None]
SweepOver(C) == [step |-> "next", todo |-> C, child |-> None]
Idle == [pc |-> "idle", child |-> None]
Loop == [status |-> "active", pc |-> "loop", seen |-> {}, next |-> "none", signalled |-> FALSE]

Init ==
    /\ setup \in Setups
    /\ row = [c \in Children |-> NoRow]
    /\ task = [c \in Children |-> NoTask]
    /\ turn = {}
    /\ parent = Loop
    /\ sweep = [w \in Requests \cup {Parent} |-> NoSweep]
    /\ request = [q \in Requests |-> Idle]
    /\ events = <<>>
    /\ told = [c \in Assignments |-> "none"]
    /\ up = TRUE
    /\ rounds = 0 /\ refusals = 0 /\ crashes = 0
    /\ stopped = {}
    /\ gaveUp = FALSE

\* The active children without those that wait for a retry.
RunnableChildren == {c \in Children : row[c].status \in {"queued", "running"}}

ActiveChildren == {c \in Children : row[c].status \in Active}
AtWork(c) == task[c].pc \notin Over

-----------------------------------------------------------------------------
(* What the executors, the sweeps and the requests have in common.         *)

\* finalize_child and terminate_run: one transaction ends the row and tells the
\* parent; a child that has ended already stays as it is.
End(c, status) ==
    IF row[c].status \in Active
      THEN /\ row' = [row EXCEPT ![c].status = status]
           /\ events' = Append(events, <<c, status>>)
      ELSE UNCHANGED <<row, events>>

\* start_tracked_task for the children of C, their events of this round: a task
\* that is not done stays, and the new coroutine, its event with it, is closed.
Started(C, round) ==
    [c \in Children |-> IF c \in C /\ ~AtWork(c)
                          THEN [NoTask EXCEPT !.pc = "created", !.round = round]
                          ELSE task[c]]

\* Task.cancel() on the tasks of C.
Signalled(C) ==
    [c \in Children |-> IF c \in C /\ AtWork(c)
                          THEN [task[c] EXCEPT !.signalled = TRUE] ELSE task[c]]

\* A task is done. _run_planning_child sets the event of its assignment in a
\* finally, which a coroutine that was never entered does not have.
Leave(c, how) ==
    /\ task' = [task EXCEPT ![c] = [NoTask EXCEPT !.pc = how]]
    /\ turn' = IF task[c].round = 0 \/ (task[c].pc = "created" /\ how = "cancelled")
                 THEN turn
                 ELSE turn \cup {<<task[c].round, c>>}

\* run_short_transaction gives up after its retries.
Faulty == refusals + crashes < setup.faults
Busy == Faulty /\ refusals' = refusals + 1

-----------------------------------------------------------------------------
(* The executor of a child: execute_durable_child.                         *)

At(c, pc) == up /\ task[c].pc = pc /\ ~task[c].signalled
Goto(c, pc, end) == task' = [task EXCEPT ![c].pc = pc, ![c].end = end]

\* claim_run takes a queued row; a waiting one when its time has come, as it
\* has for the task that slept; a running one when its lease, which a dead task
\* has left, is over. A frozen report is not asked for again.
Claim(c) ==
    /\ At(c, "created") \/ At(c, "sleeping")
    /\ \/ /\ row[c].status \in Active
          /\ row' = [row EXCEPT ![c].status = "running"]
          /\ IF row[c].frozen THEN Goto(c, "ending", "completed")
                              ELSE Goto(c, "working", "none")
          /\ UNCHANGED turn
       \/ /\ \/ row[c].status \in Terminal
             \/ row[c].status = "running"
             \/ row[c].status = "retry_wait" /\ task[c].pc = "created"
          /\ Leave(c, "returned")
          /\ UNCHANGED row
    /\ UNCHANGED <<parent, sweep, request, events, told, up, counts, stopped, gaveUp>>

\* The last checkpoint of run_restricted_child freezes the report.
Report(c) ==
    /\ At(c, "working")
    /\ row[c].status = "running"
    /\ row' = [row EXCEPT ![c].frozen = TRUE]
    /\ Goto(c, "ending", "completed")
    /\ UNCHANGED <<turn, parent, sweep, request, events, told, up, counts, stopped, gaveUp>>

\* A provider error that may pass: the Run waits, and the task sleeps.
Retry(c) ==
    /\ At(c, "working")
    /\ row[c].status = "running"
    /\ row[c].retries < setup.retries
    /\ row' = [row EXCEPT ![c].status = "retry_wait", ![c].retries = @ + 1]
    /\ Goto(c, "sleeping", "none")
    /\ UNCHANGED <<turn, parent, sweep, request, events, told, up, counts, stopped, gaveUp>>

\* Another error, or one too many.
Break(c) ==
    /\ At(c, "working")
    /\ Goto(c, "ending", "failed")
    /\ UNCHANGED <<row, turn, parent, sweep, request, events, told, up, counts, stopped, gaveUp>>

\* Somebody else has ended the Run: the next checkpoint fails, and the first
\* one is outside of the try that expects it.
Lose(c) ==
    /\ At(c, "working")
    /\ row[c].status # "running"
    /\ Leave(c, "returned") \/ Leave(c, "raised")
    /\ UNCHANGED <<row, parent, sweep, request, events, told, up, counts, stopped, gaveUp>>

\* A child that does not wait for the one before it.
AnyTurn(c) == TRUE

\* before_terminal_commit: the event of the assignment before this one.
InTurn(c) ==
    task[c].round # 0 => c = 1 \/ <<task[c].round, c - 1>> \in turn

PassBarrier(c) ==
    /\ At(c, "ending")
    /\ InTurn(c)
    /\ Goto(c, "committing", task[c].end)
    /\ UNCHANGED <<row, turn, parent, sweep, request, events, told, up, counts, stopped, gaveUp>>

Finalize(c) ==
    /\ At(c, "committing")
    /\ End(c, task[c].end)
    /\ Leave(c, "returned")
    /\ UNCHANGED <<parent, sweep, request, told, up, counts, stopped, gaveUp>>

\* The database stays busy. A report that cannot be committed is taken for a
\* failure of the child; any other transaction ends the task with the error.
Refused(c) ==
    /\ Busy
    /\ \/ /\ At(c, "committing") /\ task[c].end = "completed"
          /\ Goto(c, "committing", "failed")
          /\ UNCHANGED turn
       \/ /\ \/ At(c, "created") \/ At(c, "sleeping") \/ At(c, "working")
             \/ At(c, "committing") /\ task[c].end = "failed"
          /\ Leave(c, "raised")
    /\ UNCHANGED <<row, parent, sweep, request, events, told, up, rounds, crashes, setup, stopped, gaveUp>>

\* A cancelled task is woken by CancelledError where it waits; a commit it is
\* waiting for may still come about.
Cancelled(c) ==
    /\ up /\ AtWork(c) /\ task[c].signalled
    /\ Leave(c, "cancelled")
    /\ \/ UNCHANGED <<row, events>>
       \/ task[c].pc = "committing" /\ End(c, task[c].end)
    /\ UNCHANGED <<parent, sweep, request, told, up, counts, stopped, gaveUp>>

Executor(c) ==
    \/ Claim(c) \/ Report(c) \/ Retry(c) \/ Break(c) \/ Lose(c)
    \/ PassBarrier(c) \/ Finalize(c) \/ Refused(c) \/ Cancelled(c)

-----------------------------------------------------------------------------
(* cancel_child, for the next of a set of children.                        *)

\* The parent's own cancellation ends its sweep, but not the cleanup of a
\* delegation, which is shielded from it.
Sweeping(w, step) ==
    /\ up /\ sweep[w].step = step
    /\ w = Parent => parent.pc = "cleanup" \/ ~parent.signalled

\* The cleanup goes through the assignments, and passes over those that have
\* ended; the other sweeps know the children that were active at their start.
NextChild(w, c) ==
    /\ c \in sweep[w].todo
    /\ w = Parent /\ parent.pc = "cleanup" => \A d \in sweep[w].todo : c <= d

SweepTerminate(w) ==
    /\ Sweeping(w, "next")
    /\ \E c \in Children :
        /\ NextChild(w, c)
        /\ End(c, "cancelled")
        /\ sweep' = [sweep EXCEPT ![w] =
              [todo |-> @.todo \ {c}, child |-> c,
               step |-> IF w = Parent /\ parent.pc = "cleanup" /\ c \notin ActiveChildren
                          THEN "next" ELSE "signal"]]
    /\ UNCHANGED <<task, turn, parent, request, told, up, counts, stopped, gaveUp>>

SweepSignal(w) ==
    /\ Sweeping(w, "signal")
    /\ task' = Signalled({sweep[w].child})
    /\ sweep' = [sweep EXCEPT ![w].step = "wait"]
    /\ UNCHANGED <<row, turn, parent, request, events, told, up, counts, stopped, gaveUp>>

SweepWaited(w) ==
    /\ Sweeping(w, "wait")
    /\ ~AtWork(sweep[w].child)
    /\ sweep' = [sweep EXCEPT ![w].step = "next", ![w].child = None]
    /\ UNCHANGED <<row, task, turn, parent, request, events, told, up, counts, stopped, gaveUp>>

Swept(w) == Sweeping(w, "next") /\ sweep[w].todo = {}

\* What is left of the sweep of a caller that has gone on.
SweepEnded(w) == sweep' = [sweep EXCEPT ![w] = NoSweep]

Sweep(w) == SweepTerminate(w) \/ SweepSignal(w) \/ SweepWaited(w)

-----------------------------------------------------------------------------
(* The parent's task: the tools that start, await and cancel children, and *)
(* its end.                                                                *)

Is(pc) == up /\ parent.pc = pc /\ ~parent.signalled
Move(pc) == parent' = [parent EXCEPT !.pc = pc]

\* planning_delegate finds all of its children, or none.
Delegate ==
    /\ Is("loop")
    /\ parent.status = "active" /\ rounds < setup.rounds
    /\ rounds' = rounds + 1
    /\ parent' = [parent EXCEPT
          !.pc = IF row[1].status = "absent" THEN "persist" ELSE "start",
          !.seen = {c \in Planned : row[c].status \in Terminal}]
    /\ UNCHANGED <<row, task, turn, sweep, request, events, told, up, refusals, crashes, setup, stopped, gaveUp>>

Created(C) == row' = [c \in Children |-> IF c \in C THEN [NoRow EXCEPT !.status = "queued"] ELSE row[c]]

\* persist_children: all of them in one transaction.
PersistChildren ==
    /\ Is("persist")
    /\ Created(Planned)
    /\ Move("start")
    /\ UNCHANGED <<task, turn, sweep, request, events, told, up, counts, stopped, gaveUp>>

\* One event for each assignment; those of the children seen at their end are
\* set at once, the others get a task.
StartChildren ==
    /\ Is("start")
    /\ task' = Started(Planned \ parent.seen, rounds)
    /\ turn' = turn \cup ({rounds} \X parent.seen)
    /\ Move("gather")
    /\ UNCHANGED <<row, sweep, request, events, told, up, counts, stopped, gaveUp>>

Awaited == Planned \ parent.seen
Left(hows) == \E c \in Awaited : task[c].pc \in hows
AllLeft == \A c \in Awaited : ~AtWork(c)

\* gather returns, and the rows are read again.
Gathered ==
    /\ Is("gather")
    /\ AllLeft /\ ~Left({"raised", "cancelled"})
    /\ told' = [c \in Assignments |-> IF c \in Planned THEN row[c].status ELSE told[c]]
    /\ Move("loop")
    /\ UNCHANGED <<row, task, turn, sweep, request, events, up, counts, stopped, gaveUp>>

\* The first error of a child is that of the tool; the others go on.
GatherRaised ==
    /\ Is("gather")
    /\ Left({"raised"})
    /\ Move("loop")
    /\ UNCHANGED <<row, task, turn, sweep, request, events, told, up, counts, stopped, gaveUp>>

Cleanup(next) ==
    /\ parent' = [parent EXCEPT !.pc = "cleanup", !.next = next]
    /\ sweep' = [sweep EXCEPT ![Parent] = SweepOver(Planned)]

\* A child whose task was cancelled alone is taken for a cancellation of the
\* parent: cancel_children, and CancelledError ends the parent's task.
GatherCancelled ==
    /\ Is("gather")
    /\ Left({"cancelled"})
    /\ Cleanup("die")
    /\ UNCHANGED <<row, task, turn, request, events, told, up, counts, stopped, gaveUp>>

\* wait_for of the tool call: the cancellation goes through gather to its tasks.
ToolTimeout ==
    /\ Is("gather")
    /\ task' = Signalled(Awaited)
    /\ parent' = [parent EXCEPT !.pc = "unwinding", !.next = "loop"]
    /\ UNCHANGED <<row, turn, sweep, request, events, told, up, counts, stopped, gaveUp>>

\* The other tools, and the delegation before it waits, end where they are.
ToolAborted ==
    /\ parent.pc \in {"persist", "start", "spawn", "spawned", "tool"} /\ Is(parent.pc)
    /\ SweepEnded(Parent)
    /\ Move("loop")
    /\ UNCHANGED <<row, task, turn, request, events, told, up, counts, stopped, gaveUp>>

\* A cancelled gather ends with the first of its tasks that does not return.
Unwound ==
    /\ up /\ parent.pc = "unwinding"
    /\ AllLeft \/ Left({"raised", "cancelled"})
    /\ Cleanup(parent.next)
    /\ UNCHANGED <<row, task, turn, request, events, told, up, counts, stopped, gaveUp>>

\* After a timeout the Run is retried, or fails, from the loop. A cancelled
\* parent ends without waiting for the rest of the shielded cleanup; its task
\* counts as over when that is done, too.
CleanedUp ==
    /\ parent.pc = "cleanup" /\ Swept(Parent)
    /\ SweepEnded(Parent)
    /\ Move(IF parent.next = "die" THEN "none" ELSE "loop")
    /\ UNCHANGED <<row, task, turn, request, events, told, up, counts, stopped, gaveUp>>

\* subagent_spawn, on its way to the database.
Spawn(c) ==
    /\ Is("loop")
    /\ setup.spawns /\ parent.status = "active" /\ rounds < setup.rounds
    /\ rounds' = rounds + 1
    /\ parent' = [parent EXCEPT !.pc = "spawn", !.seen = {c}]
    /\ UNCHANGED <<row, task, turn, sweep, request, events, told, up, refusals, crashes, setup, stopped, gaveUp>>

\* A replay starts what it finds queued or running.
PersistSpawned ==
    /\ Is("spawn")
    /\ \E c \in parent.seen :
        \/ /\ row[c].status = "absent"
           /\ Created({c})
           /\ Move("spawned")
        \/ /\ row[c].status # "absent"
           /\ Move(IF row[c].status \in {"queued", "running"} THEN "spawned" ELSE "loop")
           /\ UNCHANGED row
    /\ UNCHANGED <<task, turn, sweep, request, events, told, up, counts, stopped, gaveUp>>

StartSpawned ==
    /\ Is("spawned")
    /\ task' = Started(parent.seen, 0)
    /\ Move("loop")
    /\ UNCHANGED <<row, turn, sweep, request, events, told, up, counts, stopped, gaveUp>>

\* subagent_cancel
CancelTool(c) ==
    /\ Is("loop")
    /\ c \in ActiveChildren
    /\ sweep' = [sweep EXCEPT ![Parent] = SweepOver({c})]
    /\ Move("tool")
    /\ UNCHANGED <<row, task, turn, request, events, told, up, counts, stopped, gaveUp>>

ToolDone ==
    /\ parent.pc = "tool" /\ Swept(Parent)
    /\ SweepEnded(Parent)
    /\ Move("loop")
    /\ UNCHANGED <<row, task, turn, request, events, told, up, counts, stopped, gaveUp>>

\* finalize_run, whose sweep is repeated as a failure's when it is refused, or
\* terminate_run. A Run that somebody else has ended is left alone.
Finish ==
    /\ Is("loop")
    /\ IF parent.status = "active"
         THEN \E next \in {"again", "last"} :
                parent' = [parent EXCEPT !.status = "over", !.pc = "list", !.next = next]
         ELSE Move("none")
    /\ UNCHANGED <<row, task, turn, sweep, request, events, told, up, counts, stopped, gaveUp>>

\* No transaction of the parent comes through: its task is over, its row is not.
FinishRefused ==
    /\ Is("loop") /\ parent.status = "active"
    /\ Busy
    /\ Move("none")
    /\ gaveUp' = TRUE
    /\ UNCHANGED <<row, task, turn, sweep, request, events, told, up, rounds, crashes, setup, stopped>>

\* cancel_children_for_parent reads the active children once.
ListChildren ==
    /\ Is("list")
    /\ sweep' = [sweep EXCEPT ![Parent] = SweepOver(ActiveChildren)]
    /\ Move("sweep")
    /\ UNCHANGED <<row, task, turn, request, events, told, up, counts, stopped, gaveUp>>

AllSwept ==
    /\ parent.pc = "sweep" /\ Swept(Parent)
    /\ SweepEnded(Parent)
    /\ Move("none")
    /\ UNCHANGED <<row, task, turn, request, events, told, up, counts, stopped, gaveUp>>

\* A sweep that meets a busy database: _fail repeats the one of _after_terminal
\* once; the error of a tool goes back to the loop, in the place of the
\* cancellation that the tool was about to hand on.
SweepRefused ==
    /\ Sweeping(Parent, "next") /\ sweep[Parent].todo # {}
    /\ Busy
    /\ SweepEnded(Parent)
    /\ \/ /\ parent.pc = "sweep" /\ parent.next = "again"
          /\ parent' = [parent EXCEPT !.pc = "list", !.next = "last"]
          /\ UNCHANGED gaveUp
       \/ /\ parent.pc = "sweep" /\ parent.next = "last"
          /\ Move("none")
          /\ gaveUp' = TRUE
       \/ /\ parent.pc \in {"tool", "cleanup"}
          /\ parent' = [parent EXCEPT !.pc = "loop", !.signalled = FALSE]
          /\ gaveUp' = (gaveUp \/ parent.signalled)
    /\ UNCHANGED <<row, task, turn, request, events, told, up, rounds, crashes, setup, stopped>>

\* CancelledError where the parent's task waits, which gather hands on to its
\* tasks first; a commit it is waiting for may still come about.
ParentCancelled ==
    /\ up /\ parent.signalled
    /\ parent.pc \notin {"none", "unwinding", "cleanup"}
    /\ Move("none")
    /\ SweepEnded(Parent)
    /\ \/ UNCHANGED <<row, events>>
       \/ /\ parent.pc \in {"persist", "spawn"} /\ parent.status = "active"
          /\ Created({c \in IF parent.pc = "spawn" THEN parent.seen ELSE Planned :
                         row[c].status = "absent"})
          /\ UNCHANGED events
       \/ /\ sweep[Parent].step = "next"
          /\ \E c \in sweep[Parent].todo : End(c, "cancelled")
    /\ UNCHANGED <<task, turn, request, told, up, counts, stopped, gaveUp>>

ParentTask ==
    \/ Delegate \/ PersistChildren \/ StartChildren
    \/ Gathered \/ GatherRaised \/ GatherCancelled \/ ToolTimeout
    \/ ToolAborted \/ Unwound \/ CleanedUp
    \/ \E c \in Spawned : Spawn(c)
    \/ PersistSpawned \/ StartSpawned
    \/ \E c \in Children : CancelTool(c)
    \/ ToolDone \/ Finish \/ FinishRefused \/ ListChildren \/ AllSwept \/ SweepRefused
    \/ ParentCancelled

-----------------------------------------------------------------------------
(* Requests: cancel_run for the parent, or for one child.                  *)

Asks(q, pc) == up /\ request[q].pc = pc
Answer(q, pc, c) == request' = [request EXCEPT ![q] = [pc |-> pc, child |-> c]]

\* It reads that the Run is active.
CancelRun(q) ==
    /\ Asks(q, "idle") /\ setup.requests
    /\ \/ parent.status = "active" /\ Answer(q, "signal", None)
       \/ \E c \in ActiveChildren : Answer(q, "signal", c)
    /\ UNCHANGED <<row, task, turn, parent, sweep, events, told, up, counts, stopped, gaveUp>>

\* cancel_tracked_task
SignalRun(q) ==
    LET c == request[q].child IN
    /\ Asks(q, "signal")
    /\ IF c # None
         THEN /\ task' = Signalled({c})
              /\ stopped' = stopped \cup {c}
              /\ UNCHANGED parent
         ELSE /\ task' = IF parent.pc = "gather" THEN Signalled(Awaited) ELSE task
              /\ parent' = IF parent.pc = "none" THEN parent ELSE
                   [parent EXCEPT !.signalled = TRUE, !.next = "die",
                                  !.pc = IF @ = "gather" THEN "unwinding" ELSE @]
              /\ UNCHANGED stopped
    /\ Answer(q, "terminate", c)
    /\ UNCHANGED <<row, turn, sweep, events, told, up, counts, gaveUp>>

\* terminate_run; nobody waits for the task of a child that is stopped alone.
TerminateRun(q) ==
    LET c == request[q].child IN
    /\ Asks(q, "terminate")
    /\ IF c # None
         THEN End(c, "cancelled") /\ UNCHANGED parent
         ELSE parent' = [parent EXCEPT !.status = "over"] /\ UNCHANGED <<row, events>>
    /\ Answer(q, IF c # None THEN "done" ELSE "list", None)
    /\ UNCHANGED <<task, turn, sweep, told, up, counts, stopped, gaveUp>>

ListForRequest(q) ==
    /\ Asks(q, "list")
    /\ sweep' = [sweep EXCEPT ![q] = SweepOver(ActiveChildren)]
    /\ Answer(q, "sweep", None)
    /\ UNCHANGED <<row, task, turn, parent, events, told, up, counts, stopped, gaveUp>>

RequestDone(q) ==
    /\ Asks(q, "sweep") /\ Swept(q)
    /\ SweepEnded(q)
    /\ Answer(q, "done", None)
    /\ UNCHANGED <<row, task, turn, parent, events, told, up, counts, stopped, gaveUp>>

\* The request fails, with the task signalled and the row as it was, or in its
\* sweep; another one then finds the parent over and does nothing.
RequestRefused(q) ==
    /\ \/ Asks(q, "terminate")
       \/ Asks(q, "sweep") /\ Sweeping(q, "next") /\ sweep[q].todo # {}
    /\ Busy
    /\ SweepEnded(q)
    /\ Answer(q, "done", None)
    /\ gaveUp' = TRUE
    /\ UNCHANGED <<row, task, turn, parent, events, told, up, rounds, crashes, setup, stopped>>

Request(q) ==
    \/ CancelRun(q) \/ SignalRun(q) \/ TerminateRun(q)
    \/ ListForRequest(q) \/ RequestDone(q) \/ RequestRefused(q)

-----------------------------------------------------------------------------
(* A crash, and the next start of the process.                             *)

Crash ==
    /\ up /\ Faulty
    /\ up' = FALSE
    /\ crashes' = crashes + 1
    /\ task' = [c \in Children |-> NoTask]
    /\ turn' = {}
    /\ parent' = [Loop EXCEPT !.status = parent.status, !.pc = "none"]
    /\ sweep' = [w \in DOMAIN sweep |-> NoSweep]
    /\ request' = [q \in Requests |->
          IF request[q].pc = "idle" THEN Idle ELSE [Idle EXCEPT !.pc = "done"]]
    /\ gaveUp' = FALSE
    /\ UNCHANGED <<row, events, told, rounds, refusals, setup, stopped>>

\* Everything that was active is resumed.
AllResumable == ActiveChildren

\* The children of a parent that goes on.
Resumable == IF parent.status = "active" THEN ActiveChildren ELSE {}

\* reconcile_interrupted_runs, then resume_interrupted_run. The transactions
\* before the tasks can be repeated, so that a crash between them is none.
Restart ==
    /\ ~up
    /\ up' = TRUE
    /\ LET failed == ActiveChildren \ Resumable
       IN  /\ row' = [c \in Children |->
                [row[c] EXCEPT !.status = IF c \in Resumable THEN "queued"
                                          ELSE IF c \in failed THEN "failed" ELSE @]]
           /\ events' = events \o SetToSeq({<<c, "failed">> : c \in failed})
    /\ task' = Started(Resumable, 0)
    /\ parent' = IF parent.status = "active" THEN Loop ELSE parent
    /\ UNCHANGED <<turn, sweep, request, told, counts, stopped, gaveUp>>

Process == Crash \/ Restart

Next ==
    \/ \E c \in Children : Executor(c)
    \/ \E w \in Requests \cup {Parent} : Sweep(w)
    \/ ParentTask
    \/ \E q \in Requests : Request(q)
    \/ Process

Spec == Init /\ [][Next]_vars

-----------------------------------------------------------------------------
TypeOK ==
    /\ setup \in Setups
    /\ row \in [Children -> [status : Active \cup Terminal \cup {"absent"},
                             frozen : BOOLEAN, retries : 0 .. setup.retries]]
    /\ task \in [Children -> [pc : Over \cup {"created", "working", "sleeping", "ending", "committing"},
                              round : 0 .. setup.rounds, end : {"none", "completed", "failed"},
                              signalled : BOOLEAN]]
    /\ turn \subseteq (1 .. setup.rounds) \X Planned
    /\ parent \in [status : {"active", "over"},
                   pc : {"none", "loop", "persist", "start", "gather", "unwinding", "cleanup",
                         "spawn", "spawned", "tool", "list", "sweep"},
                   seen : SUBSET Children, next : {"none", "loop", "die", "again", "last"},
                   signalled : BOOLEAN]
    /\ sweep \in [Requests \cup {Parent} -> [step : {"off", "next", "signal", "wait"},
                                           todo : SUBSET Children, child : Children \cup {None}]]
    /\ request \in [Requests -> [pc : {"idle", "signal", "terminate", "list", "sweep", "done"},
                                 child : Children \cup {None}]]
    /\ \A i \in DOMAIN events : events[i] \in Children \X Terminal
    /\ told \in [Assignments -> Active \cup Terminal \cup {"none", "absent"}]
    /\ {up, gaveUp} \subseteq BOOLEAN
    /\ stopped \subseteq Children

\* Whoever ends a child first decides: its executor, a sweep, a request or the
\* next start race, and the parent's log gets one end of each child, the one
\* its row has and keeps.
OneProjection ==
    /\ \A c \in Children : row[c].status \in Terminal =>
         \E i \in DOMAIN events : events[i] = <<c, row[c].status>>
    /\ \A i \in DOMAIN events : events[i][2] = row[events[i][1]].status
    /\ \A i, j \in DOMAIN events : events[i][1] = events[j][1] => i = j

\* A delegation that returns has seen the ends of all its children, and tells
\* the parent what their rows say for good, unless a transaction is refused or
\* a request is about to stop the child.
ReportsTrue ==
    \A c \in Assignments : told[c] # "none" =>
        \/ told[c] = row[c].status /\ told[c] \in Terminal
        \/ refusals > 0 \/ c \in stopped

\* A report that a child has frozen is not lost: it counts as the child's
\* success unless a cancellation comes first, the database refuses it or the
\* parent is over at the next start.
FrozenCounts ==
    \A c \in Children : row[c].frozen /\ row[c].status = "failed" =>
        refusals > 0 \/ (crashes > 0 /\ parent.status = "over")

\* A child of a delegation and the one before it end by themselves in the order
\* of their assignments, however long each takes, unless one is stopped alone, a
\* transaction is refused or the process starts again. (One that was cancelled
\* between two others does not hold the second back for the first.)
OrderKept ==
    \A i, j \in DOMAIN events :
        LET c == events[i][1] d == events[j][1] IN
        /\ {c, d} \subseteq Planned /\ c = d + 1 /\ i < j
        /\ events[i][2] # "cancelled" /\ events[j][2] # "cancelled"
        => crashes + refusals > 0 \/ stopped # {}

ChildrenTrue == TypeOK /\ OneProjection /\ ReportsTrue /\ FrozenCounts /\ OrderKept

\* Once the parent is over and those who sweep over its children are done, no
\* child is left active, whatever was being created, started or committed when
\* the parent ended, and whoever else was cancelling it or its children.
NoOrphans ==
    up /\ parent.status = "over" /\ parent.pc = "none" /\ ~gaveUp
    /\ (\A q \in Requests : request[q].pc \in {"idle", "done"} \/ request[q].child # None)
    => ActiveChildren = {}

\* The event loop runs what is ready. A model call has a timeout and a child a
\* number of steps, so that it reports, breaks or waits in the end; a tool call
\* of the parent has a timeout, and its loop a budget. Somebody starts the
\* process again. Nobody has to cancel anything.
Fairness ==
    /\ \A c \in Children : WF_vars(Executor(c))
    /\ \A w \in Requests \cup {Parent} : WF_vars(Sweep(w))
    /\ WF_vars(ParentTask) /\ SF_vars(Finish)
    /\ \A q \in Requests : WF_vars(Request(q) /\ request[q].pc # "idle")
    /\ WF_vars(Restart)

FairSpec == Spec /\ Fairness

\* Every child comes to its end, with the parent at the latest: children that
\* wait for each other, for a retry or for a dead task do not stay. What a
\* request stops alone, or a busy database leaves, may wait for the next start.
WorkEnds ==
    \A c \in Children :
        row[c].status \in Active ~> row[c].status \notin Active \/ stopped # {} \/ gaveUp
=============================================================================
