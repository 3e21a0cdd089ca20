------------------------- MODULE TaskAndMailProofs -------------------------
(* Theorems about the two parts that act outside a Run: TaskMap, for any   *)
(* number of tasks, requests and parents, and MailIngress, for any number  *)
(* of mails, pollers and scopes and any numbering of the mailbox. They     *)
(* share no state, and neither half cites the other.                       *)
EXTENDS TaskMap, MailIngress, FiniteSetTheorems, TLAPS

-----------------------------------------------------------------------------
(* The task map.                                                           *)

\* A task that is not done owns the slot. Launching asks for a slot that is
\* free or whose task is done, so this is what makes OneTask inductive.
LiveOwnsSlot == \A t \in Tasks : ~Done(t) => slot = t

\* The part of the type invariant that the steps rest on.
Shapes ==
    /\ slot \in Tasks \cup {None}
    /\ task \in [Tasks -> [state : Live \cup {"unused", "done", "gone"},
                           key : Keys \cup {None}]]
    /\ pending \in Keys \cup {None}
    /\ request \in [Requests -> [pc : {"new", "start", "wake", "terminate", "done"},
                                 key : Keys \cup {None}]]
    /\ \A r \in Requests : request[r].pc = "wake" => request[r].key \in Keys
    /\ run \in [status : {"absent", "queued", "running", "waiting", "retry", "ended"},
                asked : 0..MaxApprovals, consumed : BOOLEAN]

\* A slot whose task has left it stays with nobody, or its callback is due.
SlotInUse == slot # None => task[slot].state \notin {"unused", "gone"}

Inv == Shapes /\ LiveOwnsSlot /\ SlotInUse /\ WakeHasOwner

\* What launching a task does: a new one gets the slot, others stay.
LEMMA LaunchFacts ==
    ASSUME NEW tk \in [Tasks -> [state : Live \cup {"unused", "done", "gone"},
                                 key : Keys \cup {None}]],
           NEW key \in Keys \cup {None},
           Launch(tk, key)
    PROVE  \E t \in Tasks : /\ tk[t].state = "unused"
                            /\ slot' = t
                            /\ task' = [tk EXCEPT ![t] = [state |-> "created", key |-> key]]
PROOF
<1> DEFINE unused == {t \in Tasks : tk[t].state = "unused"}
<1>1. PICK u : u \in unused
      BY DEF Launch
<1>2. (CHOOSE x \in unused : TRUE) \in unused
      BY <1>1
<1> QED BY <1>2 DEF Launch

\* Launching from a table in which nobody is live keeps the invariant.
LEMMA LaunchKeeps ==
    ASSUME NEW tk \in [Tasks -> [state : Live \cup {"unused", "done", "gone"},
                                 key : Keys \cup {None}]],
           NEW key \in Keys \cup {None},
           Launch(tk, key),
           \A t \in Tasks : tk[t].state \notin Live
    PROVE  /\ slot' \in Tasks
           /\ task' \in [Tasks -> [state : Live \cup {"unused", "done", "gone"},
                                   key : Keys \cup {None}]]
           /\ LiveOwnsSlot'
           /\ SlotInUse'
           /\ task'[slot'].state = "created"
PROOF
<1>1. PICK t \in Tasks : /\ tk[t].state = "unused"
                         /\ slot' = t
                         /\ task' = [tk EXCEPT ![t] = [state |-> "created", key |-> key]]
      BY LaunchFacts
<1> QED BY <1>1 DEF LiveOwnsSlot, SlotInUse, Done, Live

\* A step of one task that leaves the map alone: live or done, it stays where
\* it is.
LEMMA TaskKeeps ==
    ASSUME Inv, NEW t \in Tasks, task[t].state \in Live,
           NEW s \in Live \cup {"done"},
           task' = [task EXCEPT ![t].state = s],
           UNCHANGED <<slot, pending>>
    PROVE  /\ task' \in [Tasks -> [state : Live \cup {"unused", "done", "gone"},
                                   key : Keys \cup {None}]]
           /\ LiveOwnsSlot' /\ SlotInUse' /\ WakeHasOwner'
PROOF
<1>1. slot = t
      BY DEF Inv, LiveOwnsSlot, Done
<1> QED BY <1>1, TaskAssumption
        DEF Inv, Shapes, LiveOwnsSlot, SlotInUse, WakeHasOwner, Done, Live

\* The initial state satisfies the invariant.
LEMMA InvInit == Init => Inv
PROOF
<1> SUFFICES ASSUME Init PROVE Inv
    OBVIOUS
<1>1. Shapes
      BY TaskAssumption DEF Init, Shapes, Keys
<1>2. LiveOwnsSlot /\ SlotInUse /\ WakeHasOwner
      BY DEF Init, LiveOwnsSlot, SlotInUse, WakeHasOwner, Done, Live
<1> QED BY <1>1, <1>2 DEF Inv

\* A function of tasks.py that may launch a task keeps the map in order: start,
LEMMA StartKeeps ==
    ASSUME Inv, StartTracked
    PROVE  /\ slot' \in Tasks \cup {None} /\ pending' \in Keys \cup {None}
           /\ task' \in [Tasks -> [state : Live \cup {"unused", "done", "gone"},
                                   key : Keys \cup {None}]]
           /\ LiveOwnsSlot' /\ SlotInUse' /\ WakeHasOwner'
PROOF
<1>1. CASE UNCHANGED <<slot, pending, active, task>>
      BY <1>1 DEF Inv, Shapes, LiveOwnsSlot, SlotInUse, WakeHasOwner, Done
<1>2. CASE ~Busy /\ Launch(task, pending) /\ pending' = None
  <2>1. \A t \in Tasks : task[t].state \notin Live
        BY <1>2, TaskAssumption DEF Inv, LiveOwnsSlot, Busy, Done
  <2> QED BY <2>1, <1>2, LaunchKeeps DEF Inv, Shapes, WakeHasOwner
<1> QED BY <1>1, <1>2 DEF StartTracked

\* wake,
LEMMA WakeKeeps ==
    ASSUME Inv, NEW key \in Keys, WakeTracked(key)
    PROVE  /\ slot' \in Tasks \cup {None} /\ pending' \in Keys \cup {None}
           /\ task' \in [Tasks -> [state : Live \cup {"unused", "done", "gone"},
                                   key : Keys \cup {None}]]
           /\ LiveOwnsSlot' /\ SlotInUse' /\ WakeHasOwner'
PROOF
<1>0. ~Busy => \A t \in Tasks : task[t].state \notin Live
      BY TaskAssumption DEF Inv, LiveOwnsSlot, Busy, Done
<1>1. CASE UNCHANGED <<slot, pending, active, task>>
      BY <1>1 DEF Inv, Shapes, LiveOwnsSlot, SlotInUse, WakeHasOwner, Done
<1>2. CASE slot = None /\ Launch(task, pending) /\ pending' = None
      BY <1>0, <1>2, LaunchKeeps DEF Inv, Shapes, WakeHasOwner, Busy
<1>3. CASE Busy /\ pending' = key /\ UNCHANGED <<slot, active, task>>
      BY <1>3 DEF Inv, Shapes, LiveOwnsSlot, SlotInUse, WakeHasOwner, Busy, Done, Live
<1>4. CASE ~Busy /\ pending = None /\ Launch(task, key) /\ UNCHANGED pending
      BY <1>0, <1>4, LaunchKeeps DEF Inv, Shapes, WakeHasOwner
<1> QED BY <1>1, <1>2, <1>3, <1>4 DEF WakeTracked

\* and the done callback, which alone gives the slot to a kept wake.
LEMMA CleanupKeeps ==
    ASSUME Inv, NEW t \in Tasks, task[t].state = "done", CleanupOwned(t)
    PROVE  /\ slot' \in Tasks \cup {None} /\ pending' \in Keys \cup {None}
           /\ task' \in [Tasks -> [state : Live \cup {"unused", "done", "gone"},
                                   key : Keys \cup {None}]]
           /\ LiveOwnsSlot' /\ SlotInUse' /\ WakeHasOwner'
PROOF
<1> DEFINE tk == [task EXCEPT ![t].state = "gone"]
<1>0. tk \in [Tasks -> [state : Live \cup {"unused", "done", "gone"},
                        key : Keys \cup {None}]]
      BY DEF Inv, Shapes
<1>1. CASE slot # t
  <2>1. task' = tk /\ UNCHANGED mapVars
        BY <1>1 DEF CleanupOwned
  <2> QED BY <1>0, <1>1, <2>1
          DEF Inv, Shapes, LiveOwnsSlot, SlotInUse, WakeHasOwner, Done, Live, mapVars
<1>2. CASE slot = t
  <2>1. \A u \in Tasks : tk[u].state \notin Live
        BY <1>2 DEF Inv, Shapes, LiveOwnsSlot, Done, Live
  <2>2. CASE pending # None
    <3>1. Launch(tk, pending) /\ pending' = None
          BY <1>2, <2>2 DEF CleanupOwned
    <3> HIDE DEF tk
    <3> QED BY <1>0, <2>1, <2>2, <3>1, LaunchKeeps DEF Inv, Shapes, WakeHasOwner
  <2>3. CASE pending = None
    <3>1. slot' = None /\ task' = tk /\ pending' = pending
          BY <1>2, <2>3 DEF CleanupOwned
    <3>2. LiveOwnsSlot'
          BY <2>1, <3>1 DEF LiveOwnsSlot, Done
    <3> QED BY <1>0, <2>3, <3>1, <3>2 DEF Inv, Shapes, SlotInUse, WakeHasOwner
  <2> QED BY <2>2, <2>3
<1> QED BY <1>1, <1>2

\* Every step keeps the invariant.
LEMMA InvStep == Inv /\ [Next]_vars => Inv'
PROOF
<1> SUFFICES ASSUME Inv, [Next]_vars PROVE Inv'
    OBVIOUS
<1> USE DEF Inv
<1>1. ASSUME NEW t \in Tasks, Cleanup(t) PROVE Inv'
      BY <1>1, CleanupKeeps DEF Cleanup, Shapes
<1>2. ASSUME NEW t \in Tasks, Claim(t) \/ LoseLease(t) \/ Return(t) PROVE Inv'
  <2>1. PICK s \in Live \cup {"done"} : task' = [task EXCEPT ![t].state = s]
        BY <1>2 DEF Claim, LoseLease, Return, Live
  <2>2. task[t].state \in Live /\ UNCHANGED <<slot, pending, request>>
        BY <1>2 DEF Claim, LoseLease, Return, Live
  <2>3. run' = run \/ run' = [run EXCEPT !.status = "running"]
        BY <1>2 DEF Claim, LoseLease, Return
  <2> QED BY <2>1, <2>2, <2>3, TaskKeeps DEF Shapes
<1>3. ASSUME NEW t \in Tasks, Work(t) PROVE Inv'
  <2>1. PICK s \in Live : task' = [task EXCEPT ![t].state = s]
    <3>1. task \in [Tasks -> [state : Live \cup {"unused", "done", "gone"},
                              key : Keys \cup {None}]]
          BY DEF Shapes
    <3>2. task = [task EXCEPT ![t].state = "working"]
          BY <1>3, <3>1 DEF Work
    <3> QED BY <1>3, <3>2 DEF Work, Live
  <2>2. task[t].state \in Live /\ UNCHANGED <<slot, pending, request>>
        BY <1>3 DEF Work, Live
  <2>3. run' \in [status : {"absent", "queued", "running", "waiting", "retry", "ended"},
                  asked : 0..MaxApprovals, consumed : BOOLEAN]
    <3> DEFINE R == [status : {"absent", "queued", "running", "waiting", "retry", "ended"},
                     asked : 0..MaxApprovals, consumed : BOOLEAN]
    <3>0. run \in R
          BY DEF Shapes
    <3>1. CASE run' = [run EXCEPT !.consumed = TRUE]
          BY <3>0, <3>1
    <3>2. CASE run.asked < MaxApprovals
               /\ run' = [status |-> "waiting", asked |-> run.asked + 1, consumed |-> FALSE]
      <4>1. run.asked + 1 \in 0..MaxApprovals
            BY <3>0, <3>2, TaskAssumption
      <4> QED BY <3>2, <4>1
    <3>3. CASE \E st \in {"retry", "ended"} : run' = [run EXCEPT !.status = st]
          BY <3>0, <3>3
    <3> QED BY <1>3, <3>1, <3>2, <3>3 DEF Work
  <2> QED BY <2>1, <2>2, <2>3, TaskKeeps DEF Shapes
<1>4. ASSUME NEW r \in Requests, Start(r) PROVE Inv'
      BY <1>4, StartKeeps DEF Start, At, Shapes
<1>5. ASSUME NEW r \in Requests, Wake(r) PROVE Inv'
  <2>1. request[r].key \in Keys
        BY <1>5 DEF Wake, Shapes
  <2> QED BY <1>5, <2>1, WakeKeeps DEF Wake, At, Shapes
<1>6. ASSUME NEW r \in Requests, Create(r) \/ Decide(r) \/ Terminate(r) PROVE Inv'
  <2>1. UNCHANGED <<slot, pending, task>>
        BY <1>6 DEF Create, Decide, Terminate
  <2>2. \E pc \in {"start", "wake", "done"}, key \in Keys \cup {None} :
            At(r, pc, key) /\ (pc = "wake" => key \in Keys)
        BY <1>6, TaskAssumption DEF Create, Decide, Terminate, Shapes, Keys
  <2>3. \E st \in {"queued", "ended", run.status} : run' = [run EXCEPT !.status = st]
        BY <1>6 DEF Create, Decide, Terminate, Shapes
  <2> QED BY <2>1, <2>2, <2>3
          DEF At, Shapes, LiveOwnsSlot, SlotInUse, WakeHasOwner, Done
<1>7. ASSUME NEW r \in Requests, Cancel(r) PROVE Inv'
      BY <1>7 DEF Cancel, CancelTracked, At, Shapes, LiveOwnsSlot, SlotInUse,
                  WakeHasOwner, Done
<1>8. ASSUME NEW p \in Parents, TerminateChild(p) \/ CancelAndWait(p) \/ Waited(p)
      PROVE Inv'
      BY <1>8 DEF TerminateChild, CancelAndWait, Waited, CancelTracked, Shapes,
                  LiveOwnsSlot, SlotInUse, WakeHasOwner, Done
<1>9. CASE UNCHANGED vars
      BY <1>9 DEF vars, Shapes, LiveOwnsSlot, SlotInUse, WakeHasOwner, Done
<1> QED BY <1>1, <1>2, <1>3, <1>4, <1>5, <1>6, <1>7, <1>8, <1>9 DEF Next

\* The map has one task that could work on the Run, whatever starts, wakes,
\* callbacks and cancellations come in which order.
THEOREM OneTaskPerRun == Spec => []OneTask
PROOF
<1>1. Inv => OneTask
      BY DEF Inv, LiveOwnsSlot, OneTask
<1> QED BY <1>1, InvInit, InvStep, PTL DEF Spec

\* A wake that is kept is never orphaned: its slot has a task whose callback is
\* still to come.
THEOREM KeptWakeHasOwner == Spec => []WakeHasOwner
PROOF
<1>1. Inv => WakeHasOwner
      BY DEF Inv
<1> QED BY <1>1, InvInit, InvStep, PTL DEF Spec

\* What a caller of cancel_and_wait_tracked_task rests on: the Run has ended, so
\* nobody begins to work on it, and who still works is the task it waits for.
Quiet ==
    /\ parent \in [Parents -> [pc : {"new", "cancel", "wait", "returned"},
                               task : Tasks \cup {None}]]
    /\ \A p \in Parents :
        /\ parent[p].pc # "new" => run.status = "ended"
        /\ parent[p].pc = "wait" => \A t \in Tasks :
              task[t].state \in {"working", "sleeping"} => t = parent[p].task
    /\ QuietAfterWait

\* An ended Run stays ended, and nobody begins to work on it.
LEMMA EndedStays ==
    ASSUME Shapes, [Next]_vars, run.status = "ended"
    PROVE  /\ run'.status = "ended"
           /\ \A t \in Tasks : task'[t].state \in {"working", "sleeping"}
                                  => task[t].state \in {"working", "sleeping"}
PROOF
<1> DEFINE Begins(tk) == \A t \in Tasks : tk[t].state \in {"working", "sleeping"}
                                  => task[t].state \in {"working", "sleeping"}
<1>0. ASSUME NEW tk \in [Tasks -> [state : Live \cup {"unused", "done", "gone"},
                                   key : Keys \cup {None}]],
             NEW key \in Keys \cup {None}, Launch(tk, key), Begins(tk)
      PROVE  Begins(task')
  <2>1. PICK t \in Tasks : task' = [tk EXCEPT ![t] = [state |-> "created", key |-> key]]
        BY <1>0, LaunchFacts
  <2> QED BY <1>0, <2>1
<1>1. ASSUME NEW t \in Tasks, Cleanup(t) PROVE run' = run /\ Begins(task')
  <2> DEFINE tk == [task EXCEPT ![t].state = "gone"]
  <2>1. tk \in [Tasks -> [state : Live \cup {"unused", "done", "gone"},
                          key : Keys \cup {None}]]
        BY DEF Shapes
  <2>2. Begins(tk)
        BY <2>1 DEF Shapes
  <2>3. task' = tk \/ \E key \in Keys \cup {None} : Launch(tk, key)
        BY <1>1 DEF Cleanup, CleanupOwned, Shapes
  <2>4. run' = run
        BY <1>1 DEF Cleanup
  <2> HIDE DEF tk, Begins
  <2> QED BY <1>0, <2>1, <2>2, <2>3, <2>4
<1>2. ASSUME NEW t \in Tasks, Claim(t) \/ LoseLease(t) \/ Return(t) \/ Work(t)
      PROVE  run' = run /\ Begins(task')
      BY <1>2 DEF Claim, LoseLease, Return, Work, Shapes
<1>3. ASSUME NEW r \in Requests, Start(r) \/ Wake(r) PROVE run' = run /\ Begins(task')
  <2>1. task' = task \/ \E key \in Keys \cup {None} : Launch(task, key)
        BY <1>3 DEF Start, Wake, StartTracked, WakeTracked, Shapes
  <2>2. task \in [Tasks -> [state : Live \cup {"unused", "done", "gone"},
                            key : Keys \cup {None}]]
        BY DEF Shapes
  <2>3. run' = run
        BY <1>3 DEF Start, Wake
  <2>4. Begins(task)
        OBVIOUS
  <2> HIDE DEF Begins
  <2> QED BY <1>0, <2>1, <2>2, <2>3, <2>4
<1>4. ASSUME NEW r \in Requests, Create(r) \/ Decide(r) \/ Cancel(r) \/ Terminate(r)
      PROVE  run'.status = "ended" /\ task' = task
      BY <1>4 DEF Create, Decide, Cancel, Terminate, Shapes
<1>5. ASSUME NEW p \in Parents, TerminateChild(p) \/ CancelAndWait(p) \/ Waited(p)
      PROVE  run' = run /\ task' = task
      BY <1>5 DEF TerminateChild, CancelAndWait, Waited
<1>6. CASE UNCHANGED vars
      BY <1>6 DEF vars
<1> QED BY <1>1, <1>2, <1>3, <1>4, <1>5, <1>6 DEF Next

\* Every step keeps what the callers rest on.
LEMMA QuietStep == Inv /\ Quiet /\ [Next]_vars => Quiet'
PROOF
<1> SUFFICES ASSUME Inv, Quiet, [Next]_vars PROVE Quiet'
    OBVIOUS
<1>0. Shapes
      BY DEF Inv
<1>1. ASSUME UNCHANGED parent PROVE Quiet'
  <2>1. CASE run.status = "ended"
        BY <1>0, <1>1, <2>1, EndedStays DEF Quiet, QuietAfterWait
  <2>2. CASE run.status # "ended"
        BY <1>1, <2>2 DEF Quiet, QuietAfterWait
  <2> QED BY <2>1, <2>2
<1>2. ASSUME NEW p \in Parents, TerminateChild(p) PROVE Quiet'
      BY <1>0, <1>2 DEF TerminateChild, Shapes, Quiet, QuietAfterWait
<1>3. ASSUME NEW p \in Parents, CancelAndWait(p) PROVE Quiet'
  <2>1. \A t \in Tasks : task[t].state \in {"working", "sleeping"} => t = slot
        BY DEF Inv, LiveOwnsSlot, Done, Live
  <2>2. slot \in Tasks \cup {None} /\ UNCHANGED <<task, run>>
        BY <1>0, <1>3 DEF CancelAndWait, Shapes
  <2> QED BY <1>3, <2>1, <2>2 DEF CancelAndWait, Quiet, QuietAfterWait
<1>4. ASSUME NEW p \in Parents, Waited(p) PROVE Quiet'
  <2>1. \A t \in Tasks : task[t].state \notin {"working", "sleeping"}
        BY <1>4, TaskAssumption DEF Waited, Ready, Done, Live, Quiet
  <2> QED BY <1>4, <2>1 DEF Waited, Quiet, QuietAfterWait
<1>5. UNCHANGED parent \/ \E p \in Parents : TerminateChild(p) \/ CancelAndWait(p) \/ Waited(p)
      BY DEF Next, vars, Cleanup, Claim, Work, LoseLease, Return, Create, Decide,
             Start, Wake, Cancel, Terminate
<1> QED BY <1>1, <1>2, <1>3, <1>4, <1>5

\* When cancel_and_wait_tracked_task has returned, no task works on the Run, and
\* none will.
THEOREM WaitIsQuiet == Spec => []QuietAfterWait
PROOF
<1>1. Init => Quiet
      BY TaskAssumption DEF Init, Quiet, QuietAfterWait
<1>2. Quiet => QuietAfterWait
      BY DEF Quiet
<1> QED BY <1>1, <1>2, InvInit, InvStep, QuietStep, PTL DEF Spec
-----------------------------------------------------------------------------
(* Counting the coroutines.                                                *)

Table == [Tasks -> [state : Live \cup {"unused", "done", "gone"},
                    key : Keys \cup {None}]]

\* The tasks a table knows, and the coroutine kept beside them.
Used(tk) == {t \in Tasks : tk[t].state # "unused"}
Kept(key) == IF key = None THEN 0 ELSE 1

\* What CoroutinesSettle rests on: there are finitely many tasks to count.
Counted ==
    /\ active \in Keys \cup {None}
    /\ signalled \subseteq Tasks
    /\ coros \in [made : Nat, closed : Nat]
    /\ IsFiniteSet(Used(task))
    /\ coros.made = coros.closed + Cardinality(Used(task)) + Kept(pending)

\* Launching a task adds one to those that are known.
LEMMA LaunchCounts ==
    ASSUME NEW tk \in Table, NEW key \in Keys \cup {None},
           Launch(tk, key), IsFiniteSet(Used(tk))
    PROVE  /\ active' \in Keys \cup {None}
           /\ IsFiniteSet(Used(task'))
           /\ Cardinality(Used(task')) = Cardinality(Used(tk)) + 1
PROOF
<1>1. PICK t \in Tasks : /\ tk[t].state = "unused"
                         /\ task' = [tk EXCEPT ![t] = [state |-> "created", key |-> key]]
      BY LaunchFacts DEF Table
<1>2. Used(task') = Used(tk) \cup {t} /\ t \notin Used(tk)
      BY <1>1 DEF Used, Table
<1>3. active' \in Keys \cup {None}
      BY DEF Launch
<1> QED BY <1>2, <1>3, FS_AddElement

\* A step that makes and closes as many coroutines as the tasks and the kept
\* wake account for keeps the count.
LEMMA CountKeeps ==
    ASSUME Counted, NEW made \in Nat, NEW closed \in Nat, NEW more \in Nat,
           Coroutine(made, closed),
           Kept(pending) \in {0, 1}, Kept(pending') \in {0, 1},
           IsFiniteSet(Used(task')),
           Cardinality(Used(task')) = Cardinality(Used(task)) + more,
           made + Kept(pending) = closed + more + Kept(pending')
    PROVE  /\ coros' \in [made : Nat, closed : Nat]
           /\ coros'.made = coros'.closed + Cardinality(Used(task')) + Kept(pending')
PROOF
<1>1. /\ coros.made \in Nat /\ coros.closed \in Nat
      /\ coros' = [made |-> coros.made + made, closed |-> coros.closed + closed]
      BY DEF Counted, Coroutine
<1>2. Cardinality(Used(task)) \in Nat
      BY FS_CardinalityType DEF Counted
<1>3. coros.made = coros.closed + Cardinality(Used(task)) + Kept(pending)
      BY DEF Counted
<1> QED BY <1>1, <1>2, <1>3

\* A step that changes no map and moves tasks between states they have once
\* they are known keeps the count.
LEMMA CountStays ==
    ASSUME Counted, UNCHANGED <<pending, active, coros>>,
           Used(task') = Used(task), signalled' \subseteq Tasks
    PROVE  Counted'
PROOF
<1> QED BY DEF Counted

\* start_tracked_task accounts for its coroutine,
LEMMA StartCounts ==
    ASSUME Inv, Counted, StartTracked, UNCHANGED signalled
    PROVE  Counted'
PROOF
<1>0. pending \in Keys \cup {None} /\ task \in Table
      BY DEF Inv, Shapes, Table
<1>1. CASE Coroutine(1, 1) /\ UNCHANGED <<slot, pending, active, task>>
  <2>1. /\ Kept(pending) \in {0, 1} /\ Kept(pending') \in {0, 1}
        /\ IsFiniteSet(Used(task')) /\ Cardinality(Used(task)) \in Nat
        /\ Cardinality(Used(task')) = Cardinality(Used(task)) + 0
        /\ 1 + Kept(pending) = 1 + 0 + Kept(pending')
        BY <1>1, FS_CardinalityType DEF Counted, Kept
  <2> QED BY <1>1, <2>1, CountKeeps DEF Counted
<1>2. CASE /\ Launch(task, pending) /\ pending' = None
           /\ Coroutine(1, IF pending = None THEN 0 ELSE 1)
  <2>0. /\ active' \in Keys \cup {None}
        /\ IsFiniteSet(Used(task'))
        /\ Cardinality(Used(task')) = Cardinality(Used(task)) + 1
        BY <1>0, <1>2, LaunchCounts DEF Counted
  <2>1. /\ Kept(pending) \in {0, 1} /\ Kept(pending') \in {0, 1}
        /\ Kept(pending') = 0
        /\ Coroutine(1, Kept(pending))
        BY <1>2 DEF Kept
  <2>2. 1 + Kept(pending) = Kept(pending) + 1 + Kept(pending')
        BY <2>1
  <2>3. Kept(pending) \in Nat
        BY <2>1
  <2> QED BY <2>0, <2>1, <2>2, <2>3, CountKeeps DEF Counted
<1> QED BY <1>1, <1>2 DEF StartTracked

\* so does wake_tracked_task,
LEMMA WakeCounts ==
    ASSUME Inv, Counted, NEW key \in Keys, WakeTracked(key), UNCHANGED signalled
    PROVE  Counted'
PROOF
<1>0. pending \in Keys \cup {None} /\ task \in Table /\ None \notin Keys
      BY TaskAssumption DEF Inv, Shapes, Table, Keys
<1>1. CASE Coroutine(1, 1) /\ UNCHANGED <<slot, pending, active, task>>
  <2>1. /\ Kept(pending) \in {0, 1} /\ Kept(pending') \in {0, 1}
        /\ IsFiniteSet(Used(task')) /\ Cardinality(Used(task)) \in Nat
        /\ Cardinality(Used(task')) = Cardinality(Used(task)) + 0
        /\ 1 + Kept(pending) = 1 + 0 + Kept(pending')
        BY <1>1, FS_CardinalityType DEF Counted, Kept
  <2> QED BY <1>1, <2>1, CountKeeps DEF Counted
<1>2. CASE /\ pending # None /\ Launch(task, pending) /\ pending' = None
           /\ Coroutine(1, 1)
  <2>0. /\ active' \in Keys \cup {None}
        /\ IsFiniteSet(Used(task'))
        /\ Cardinality(Used(task')) = Cardinality(Used(task)) + 1
        BY <1>0, <1>2, LaunchCounts DEF Counted
  <2>1. Kept(pending) = 1 /\ Kept(pending') = 0
        BY <1>2 DEF Kept
  <2> QED BY <1>2, <2>0, <2>1, CountKeeps DEF Counted
<1>3. CASE /\ pending = None /\ pending' = key /\ Coroutine(1, 0)
           /\ UNCHANGED <<slot, active, task>>
  <2>1. /\ Kept(pending) = 0 /\ Kept(pending') = 1
        /\ IsFiniteSet(Used(task')) /\ Cardinality(Used(task)) \in Nat
        /\ Cardinality(Used(task')) = Cardinality(Used(task)) + 0
        BY <1>0, <1>3, FS_CardinalityType DEF Counted, Kept
  <2> QED BY <1>3, <2>1, CountKeeps DEF Counted
<1>4. CASE /\ pending = None /\ Launch(task, key) /\ Coroutine(1, 0)
           /\ UNCHANGED pending
  <2>0. /\ active' \in Keys \cup {None}
        /\ IsFiniteSet(Used(task'))
        /\ Cardinality(Used(task')) = Cardinality(Used(task)) + 1
        BY <1>0, <1>4, LaunchCounts DEF Counted
  <2>1. Kept(pending) = 0 /\ Kept(pending') = 0
        BY <1>4 DEF Kept
  <2> QED BY <1>4, <2>0, <2>1, CountKeeps DEF Counted
<1> QED BY <1>1, <1>2, <1>3, <1>4 DEF WakeTracked

\* a cancellation, which closes the coroutine that was kept,
LEMMA CancelCounts ==
    ASSUME Inv, Counted, CancelTracked, UNCHANGED task
    PROVE  Counted'
PROOF
<1>1. /\ Kept(pending) \in {0, 1} /\ Kept(pending') \in {0, 1}
      /\ Kept(pending') = 0 /\ Kept(pending) \in Nat
      /\ Coroutine(0, Kept(pending))
      /\ active' \in Keys \cup {None}
      BY DEF Kept, CancelTracked
<1>2. signalled' \subseteq Tasks
      BY DEF CancelTracked, Counted, Busy, Inv, Shapes
<1>3. /\ IsFiniteSet(Used(task')) /\ Cardinality(Used(task)) \in Nat
      /\ Cardinality(Used(task')) = Cardinality(Used(task)) + 0
      BY FS_CardinalityType DEF Counted
<1>4. 0 + Kept(pending) = Kept(pending) + 0 + Kept(pending')
      BY <1>1
<1> QED BY <1>1, <1>2, <1>3, <1>4, CountKeeps DEF Counted

\* and the done callback, which starts the coroutine that was kept.
LEMMA CleanupCounts ==
    ASSUME Inv, Counted, NEW t \in Tasks, Cleanup(t)
    PROVE  Counted'
PROOF
<1> DEFINE tk == [task EXCEPT ![t].state = "gone"]
<1>0. /\ tk \in Table /\ Used(tk) = Used(task)
      /\ pending \in Keys \cup {None}
      /\ coros' = coros /\ signalled' = signalled
      BY DEF Inv, Shapes, Table, Used, Cleanup
<1>1. \/ task' = tk /\ pending' = pending /\ active' \in {active, None}
      \/ pending # None /\ Launch(tk, pending) /\ pending' = None
      BY DEF Cleanup, CleanupOwned, mapVars
<1> HIDE DEF tk
<1>2. CASE task' = tk /\ pending' = pending /\ active' \in {active, None}
      BY <1>0, <1>2 DEF Counted
<1>3. CASE pending # None /\ Launch(tk, pending) /\ pending' = None
  <2>1. /\ active' \in Keys \cup {None}
        /\ IsFiniteSet(Used(task'))
        /\ Cardinality(Used(task')) = Cardinality(Used(task)) + 1
        BY <1>0, <1>3, LaunchCounts DEF Counted
  <2>2. /\ Kept(pending) = 1 /\ Kept(pending') = 0
        /\ coros.made \in Nat /\ coros.closed \in Nat
        BY <1>3 DEF Kept, Counted
  <2>3. Cardinality(Used(task)) \in Nat
        BY FS_CardinalityType DEF Counted
  <2>4. coros.made = coros.closed + Cardinality(Used(task)) + 1
        BY <2>2 DEF Counted
  <2>5. coros'.made = coros'.closed + Cardinality(Used(task')) + Kept(pending')
        BY <1>0, <2>1, <2>2, <2>3, <2>4
  <2> QED BY <1>0, <2>1, <2>5 DEF Counted
<1> QED BY <1>1, <1>2, <1>3

\* Every step accounts for the coroutines it makes.
LEMMA CountStep == Inv /\ Counted /\ [Next]_vars => Counted'
PROOF
<1> SUFFICES ASSUME Inv, Counted, [Next]_vars PROVE Counted'
    OBVIOUS
<1>0. task \in Table /\ signalled \subseteq Tasks
      BY DEF Inv, Shapes, Counted, Table
<1>1. ASSUME NEW t \in Tasks, Cleanup(t) PROVE Counted'
      BY <1>1, CleanupCounts
<1>2. ASSUME NEW t \in Tasks, Claim(t) \/ LoseLease(t) \/ Return(t) \/ Work(t)
      PROVE  Counted'
  <2>1. Used(task') = Used(task)
        BY <1>0, <1>2 DEF Claim, LoseLease, Return, Work, Used, Live, Table
  <2>2. UNCHANGED <<pending, active, coros, signalled>>
        BY <1>2 DEF Claim, LoseLease, Return, Work
  <2> QED BY <1>0, <2>1, <2>2, CountStays
<1>3. ASSUME NEW r \in Requests, Start(r) PROVE Counted'
      BY <1>3, StartCounts DEF Start
<1>4. ASSUME NEW r \in Requests, Wake(r) PROVE Counted'
  <2>1. request[r].key \in Keys
        BY <1>4 DEF Wake, Inv, Shapes
  <2> QED BY <1>4, <2>1, WakeCounts DEF Wake
<1>5. ASSUME NEW r \in Requests, Cancel(r) PROVE Counted'
      BY <1>5, CancelCounts DEF Cancel
<1>6. ASSUME NEW p \in Parents, CancelAndWait(p) PROVE Counted'
      BY <1>6, CancelCounts DEF CancelAndWait
<1>7. CASE UNCHANGED <<pending, active, task, coros, signalled>>
      BY <1>0, <1>7, CountStays
<1>8. ASSUME NEW r \in Requests, Create(r) \/ Decide(r) \/ Terminate(r)
      PROVE  UNCHANGED <<pending, active, task, coros, signalled>>
      BY <1>8 DEF Create, Decide, Terminate
<1>9. ASSUME NEW p \in Parents, TerminateChild(p) \/ Waited(p)
      PROVE  UNCHANGED <<pending, active, task, coros, signalled>>
      BY <1>9 DEF TerminateChild, Waited
<1>10. UNCHANGED vars => UNCHANGED <<pending, active, task, coros, signalled>>
      BY DEF vars
<1> QED BY <1>1, <1>2, <1>3, <1>4, <1>5, <1>6, <1>7, <1>8, <1>9, <1>10 DEF Next

\* The map knows every task, and every coroutine a caller made is started once,
\* closed, or kept, whatever starts, wakes, callbacks and cancellations come in
\* which order.
THEOREM MapStaysTrue == Spec => []MapTrue
PROOF
<1>1. Init => Counted
  <2> SUFFICES ASSUME Init PROVE Counted
      OBVIOUS
  <2>1. Used(task) = {}
        BY DEF Init, Used
  <2>2. IsFiniteSet(Used(task)) /\ Cardinality(Used(task)) = 0
        BY <2>1, FS_EmptySet
  <2>3. coros.made = coros.closed + Cardinality(Used(task)) + Kept(pending)
        BY <2>2 DEF Init, Kept
  <2>4. /\ active \in Keys \cup {None} /\ signalled \subseteq Tasks
        /\ coros \in [made : Nat, closed : Nat]
        BY DEF Init
  <2> QED BY <2>2, <2>3, <2>4 DEF Counted
<1>2. Init => Quiet
      BY TaskAssumption DEF Init, Quiet, QuietAfterWait
<1>3. Inv /\ Quiet /\ Counted => MapTrue
  <2> SUFFICES ASSUME Inv, Quiet, Counted PROVE MapTrue
      OBVIOUS
  <2>1. TypeOK
        BY DEF Inv, Shapes, Quiet, Counted, TypeOK
  <2>2. OneTask
        BY DEF Inv, LiveOwnsSlot, OneTask
  <2>3. CoroutinesSettle
        BY DEF Counted, Used, Kept, CoroutinesSettle
  <2> QED BY <2>1, <2>2, <2>3 DEF MapTrue, Inv
<1> QED BY <1>1, <1>2, <1>3, InvInit, InvStep, QuietStep, CountStep, PTL DEF Spec

-----------------------------------------------------------------------------
(* Mail ingress.                                                           *)

\* What a poll holds: the replies and jobs it works on are of the UIDVALIDITY it
\* has read, and what it is about to record as acknowledged carries the flag.
Reply == [mail : Mails, uid : Uids]
Poller ==
    [pc : {"idle", "fetched", "claim", "mark", "complete", "fail", "start"},
     replies : SUBSET Reply, validity : 0..MaxValidity,
     listed : SUBSET Ids, claims : SUBSET Ids, runs : SUBSET Mails]

PollTrue(p) ==
    /\ poller[p].validity <= mailbox.validity
    /\ poller[p].pc = "fetched" =>
         /\ poller[p].validity > 0 /\ poller[p].claims = {}
         /\ \A r, s \in poller[p].replies : r.uid = s.uid => r = s
         /\ poller[p].validity = mailbox.validity =>
              \A r \in poller[p].replies : mailbox.uid[r.mail] = r.uid
    /\ poller[p].claims \subseteq poller[p].listed
    /\ \A id \in poller[p].listed : id[1] = poller[p].validity /\ Recorded(id)
    /\ poller[p].pc = "complete" => \A id \in poller[p].claims : jobs[id].mail \in seen

\* A job is of a mail that has been answered, and says where that mail is as long as
\* the server keeps its numbers.
JobTrue(id) ==
    /\ jobs[id].ack = "claimed" <=> jobs[id].token # Nil
    /\ jobs[id].ack = "none" => jobs[id] = NoJob
    /\ Recorded(id) =>
         /\ jobs[id].mail \in Mails /\ answers[jobs[id].mail] > 0
         /\ id[1] <= mailbox.validity
         /\ id[1] = mailbox.validity => mailbox.uid[jobs[id].mail] = id[2]
    /\ jobs[id].ack = "acked" => jobs[id].mail \in seen

\* As long as the server has kept its numbers, an answered mail has a job.
AnswersTrue ==
    mailbox.validity = 1 =>
        \A m \in Mails : /\ answers[m] <= 1
                         /\ answers[m] > 0 => \E id \in Ids : Recorded(id) /\ jobs[id].mail = m

\* A Run is made of a mail with a token, and only where no other answers.
RunsTrue ==
    /\ \A m \in Mails : runOf[m] # "none" => TargetOf[m] # Nil
    /\ OneRunPerScope

MailState ==
    /\ mailbox \in [validity : 1..MaxValidity, uid : [Mails -> Uids \cup {0}]]
    /\ Numbered(mailbox.uid)
    /\ seen \subseteq Box
    /\ jobs \in [Ids -> Job]
    /\ iv \in [Interventions -> {"active", "replied", "closed"}]
    /\ runOf \in [Mails -> {"none", "queued", "started", "ended"}]
    /\ busy \subseteq Scopes /\ archived \subseteq Scopes
    /\ poller \in [Pollers -> Poller]
    /\ crashes \in 0..MaxCrashes
    /\ answers \in [Mails -> Nat]

MailInv ==
    /\ MailState
    /\ \A p \in Pollers : PollTrue(p)
    /\ \A id \in Ids : JobTrue(id)
    /\ SeenIsDurable /\ AnswersTrue /\ RunsTrue

-----------------------------------------------------------------------------
(* What the steps have in common.                                          *)

\* A UID is a positive number, and so is a UIDVALIDITY.
LEMMA Numbers ==
    /\ Uids \subseteq Nat \ {0} /\ 0 \notin Uids
    /\ MaxValidity \in Nat \ {0} /\ MaxCrashes \in Nat
    /\ Ids = (1..MaxValidity) \X Uids
    /\ Nil \notin Interventions /\ Nil \notin Pollers
  BY MailAssumption DEF Uids, Ids

\* Jobs stay, each of its mail.
JobsStay ==
    \A id \in Ids : Recorded(id) => Recorded(id)' /\ jobs'[id].mail = jobs[id].mail

\* What a poll holds stays true while others work.
LEMMA PollStays ==
    ASSUME MailInv, NEW q \in Pollers, poller'[q] = poller[q],
           UNCHANGED mailbox, seen \subseteq seen', JobsStay
    PROVE  PollTrue(q)'
  <1>1. PollTrue(q) /\ poller[q].listed \subseteq Ids /\ poller[q].claims \subseteq poller[q].listed
    BY DEF MailInv, MailState, Poller, PollTrue
  <1>2. \A id \in poller[q].listed : Recorded(id)'
    BY <1>1 DEF PollTrue, JobsStay
  <1>3. poller[q].pc = "complete" => \A id \in poller[q].claims : jobs'[id].mail \in seen'
    BY <1>1 DEF PollTrue, JobsStay
  <1>. QED
    BY <1>1, <1>2, <1>3 DEF PollTrue

\* The jobs stay true when only the mails that carry the flag become more.
LEMMA JobStays ==
    ASSUME MailInv, NEW id \in Ids, jobs'[id] = jobs[id],
           UNCHANGED <<mailbox, answers>>, seen \subseteq seen'
    PROVE  JobTrue(id)'
  BY DEF MailInv, JobTrue, Recorded

\* The Runs stay true when no Run is made and no scope is taken.
LEMMA RunsStay ==
    ASSUME MailInv, busy' \subseteq busy,
           \A m \in Mails : runOf'[m] # runOf[m] =>
               runOf[m] # "none" /\ (Answering(m)' => Answering(m))
    PROVE  RunsTrue'
  <1>1. \A m \in Mails : Answering(m)' => Answering(m)
    BY DEF Answering
  <1>2. OneRunPerScope'
    BY <1>1 DEF MailInv, RunsTrue, OneRunPerScope
  <1>3. \A m \in Mails : runOf'[m] # "none" => TargetOf[m] # Nil
    BY DEF MailInv, RunsTrue
  <1>. QED
    BY <1>2, <1>3 DEF RunsTrue

\* A step of the rest of the system: neither the mailbox nor the jobs.
LEMMA OutsideStep ==
    ASSUME MailInv, UNCHANGED <<mailbox, seen, jobs, poller, answers, crashes>>,
           iv' \in [Interventions -> {"active", "replied", "closed"}],
           runOf' \in [Mails -> {"none", "queued", "started", "ended"}],
           busy' \subseteq Scopes, archived' \subseteq Scopes, RunsTrue'
    PROVE  MailInv'
  <1>1. JobsStay
    BY DEF JobsStay, Recorded
  <1>2. \A q \in Pollers : PollTrue(q)'
    BY <1>1, PollStays
  <1>3. \A id \in Ids : JobTrue(id)'
    BY JobStays
  <1>4. SeenIsDurable'
    BY DEF MailInv, SeenIsDurable
  <1>5. AnswersTrue'
    BY DEF MailInv, AnswersTrue, Recorded
  <1>6. MailState'
    BY DEF MailInv, MailState, Box
  <1>. QED
    BY <1>2, <1>3, <1>4, <1>5, <1>6 DEF MailInv

\* A step of one poll that makes no job and sets no flag.
LEMMA PollStep ==
    ASSUME MailInv, NEW p \in Pollers, NEW r \in Poller,
           UNCHANGED <<mailbox, seen, iv, busy, archived, crashes, answers>>,
           poller' = [poller EXCEPT ![p] = r], PollTrue(p)',
           runOf' \in [Mails -> {"none", "queued", "started", "ended"}], RunsTrue',
           jobs' \in [Ids -> Job], \A id \in Ids : JobTrue(id)', JobsStay
    PROVE  MailInv'
  <1>1. \A q \in Pollers : PollTrue(q)'
    <2>1. ASSUME NEW q \in Pollers, q # p
          PROVE  PollTrue(q)'
      <3>1. poller'[q] = poller[q]
        BY <2>1 DEF MailInv, MailState
      <3>. QED
        BY <3>1, PollStays
    <2>. QED
      BY <2>1
  <1>2. SeenIsDurable'
    BY DEF MailInv, SeenIsDurable
  <1>3. AnswersTrue'
    <2>1. \A m \in Mails : (\E id \in Ids : Recorded(id) /\ jobs[id].mail = m)
                             => \E id \in Ids : Recorded(id)' /\ jobs'[id].mail = m
      BY DEF JobsStay
    <2>. QED
      BY <2>1 DEF MailInv, AnswersTrue
  <1>4. MailState'
    BY DEF MailInv, MailState, Box
  <1>. QED
    BY <1>1, <1>2, <1>3, <1>4 DEF MailInv

-----------------------------------------------------------------------------
(* The mailbox and the rest of the system.                                 *)

\* Nothing has come yet.
LEMMA MailInitInv == MailInit => MailInv
  <1>. SUFFICES ASSUME MailInit PROVE MailInv
    OBVIOUS
  <1>1. NoJob \in Job /\ NoJob.ack = "none" /\ NoJob.token = Nil /\ Idle \in Poller
    BY Numbers DEF NoJob, Job, Idle, Poller
  <1>2. MailState
    BY <1>1, Numbers DEF MailInit, MailState, Numbered, Box
  <1>3. \A id \in Ids : jobs[id] = NoJob /\ ~Recorded(id)
    BY <1>1 DEF MailInit, Recorded
  <1>4. \A id \in Ids : JobTrue(id)
    BY <1>1, <1>3 DEF JobTrue
  <1>5. \A p \in Pollers : PollTrue(p)
    BY Numbers DEF MailInit, PollTrue, Idle
  <1>6. SeenIsDurable /\ AnswersTrue /\ RunsTrue
    BY DEF MailInit, SeenIsDurable, AnswersTrue, RunsTrue, OneRunPerScope, Answering
  <1>. QED
    BY <1>2, <1>4, <1>5, <1>6 DEF MailInv

\* A new mail takes a UID that no other has, and no job.
LEMMA ArriveStep ==
    ASSUME MailInv, NEW m \in Mails, Arrive(m)
    PROVE  MailInv'
  <1>1. PICK u \in Uids : /\ \A n \in Box : mailbox.uid[n] < u
                          /\ mailbox' = [mailbox EXCEPT !.uid[m] = u]
    BY DEF Arrive
  <1>2. /\ mailbox.uid \in [Mails -> Uids \cup {0}] /\ mailbox.uid[m] = 0 /\ u \in Nat /\ u # 0
        /\ mailbox'.validity = mailbox.validity
        /\ mailbox'.uid = [mailbox.uid EXCEPT ![m] = u]
    BY <1>1, Numbers DEF MailInv, MailState, Arrive, Box
  <1>3. UNCHANGED <<seen, jobs, iv, runOf, busy, archived, poller, crashes, answers>>
    BY DEF Arrive
  <1>4. \A n \in Mails \ {m} : mailbox'.uid[n] = mailbox.uid[n]
    BY <1>2
  <1>5. Box \subseteq Box'
    BY <1>2, <1>4 DEF Box
  <1>6. Numbered(mailbox.uid)'
    <2>1. \A n \in Mails \ {m} : mailbox.uid[n] # u
      BY <1>1, <1>2, Numbers DEF Box
    <2>. QED
      BY <1>2, <1>4, <2>1 DEF MailInv, MailState, Numbered
  <1>7. MailState'
    <2>1. mailbox' \in [validity : 1..MaxValidity, uid : [Mails -> Uids \cup {0}]]
      BY <1>1 DEF MailInv, MailState
    <2>. QED
      BY <1>3, <1>5, <1>6, <2>1 DEF MailInv, MailState
  <1>8. ASSUME NEW q \in Pollers
        PROVE  PollTrue(q)'
    <2>1. poller[q] \in Poller /\ PollTrue(q)
      BY DEF MailInv, MailState
    <2>2. \A r \in poller[q].replies : r.mail \in Mails /\ r.uid \in Uids
      BY <2>1 DEF Poller, Reply
    <2>3. \A r \in poller[q].replies : mailbox.uid[r.mail] = r.uid => mailbox'.uid[r.mail] = r.uid
      BY <1>2, <1>4, <2>2, Numbers
    <2>. QED
      BY <1>2, <1>3, <2>1, <2>3 DEF PollTrue, Recorded
  <1>9. ASSUME NEW id \in Ids
        PROVE  JobTrue(id)'
    <2>1. JobTrue(id) /\ id[2] \in Uids
      BY Numbers DEF MailInv
    <2>2. Recorded(id) /\ mailbox.uid[jobs[id].mail] = id[2] => mailbox'.uid[jobs[id].mail] = id[2]
      BY <1>2, <1>4, <2>1, Numbers DEF JobTrue
    <2>. QED
      BY <1>2, <1>3, <2>1, <2>2 DEF JobTrue, Recorded
  <1>10. SeenIsDurable' /\ AnswersTrue' /\ RunsTrue'
    BY <1>2, <1>3 DEF MailInv, SeenIsDurable, AnswersTrue, Recorded, RunsTrue, OneRunPerScope, Answering
  <1>. QED
    BY <1>7, <1>8, <1>9, <1>10 DEF MailInv

\* Old numbers mean nothing any more.
LEMMA ChangeValidityStep ==
    ASSUME MailInv, ChangeValidity
    PROVE  MailInv'
  <1>1. PICK uid \in [Mails -> Uids \cup {0}] :
          /\ Numbered(uid) /\ \A m \in Mails : uid[m] # 0 <=> m \in Box
          /\ mailbox' = [validity |-> mailbox.validity + 1, uid |-> uid]
    BY DEF ChangeValidity
  <1>2. UNCHANGED <<seen, jobs, iv, runOf, busy, archived, poller, crashes, answers>>
    BY DEF ChangeValidity
  <1>3. /\ mailbox.validity \in 1..MaxValidity /\ mailbox.validity < MaxValidity
        /\ mailbox'.validity = mailbox.validity + 1 /\ mailbox'.uid = uid
    BY <1>1 DEF ChangeValidity, MailInv, MailState
  <1>4. Box' = Box
    BY <1>1, <1>3 DEF Box
  <1>5. MailState'
    <2>1. mailbox' \in [validity : 1..MaxValidity, uid : [Mails -> Uids \cup {0}]]
      BY <1>1, <1>3, Numbers
    <2>. QED
      BY <1>1, <1>2, <1>3, <1>4, <2>1 DEF MailInv, MailState
  <1>6. ASSUME NEW q \in Pollers
        PROVE  PollTrue(q)'
    <2>1. PollTrue(q) /\ poller[q].validity \in Nat
      BY Numbers DEF MailInv, MailState, Poller
    <2>2. poller[q].validity < mailbox'.validity
      BY <1>3, <2>1, Numbers DEF PollTrue
    <2>. QED
      BY <1>2, <1>3, <2>1, <2>2, Numbers DEF PollTrue, Recorded
  <1>7. ASSUME NEW id \in Ids
        PROVE  JobTrue(id)'
    <2>1. JobTrue(id) /\ id[1] \in Nat
      BY Numbers DEF MailInv
    <2>2. Recorded(id) => id[1] < mailbox'.validity
      BY <1>3, <2>1, Numbers DEF JobTrue
    <2>. QED
      BY <1>2, <1>3, <2>1, <2>2, Numbers DEF JobTrue, Recorded
  <1>8. SeenIsDurable' /\ RunsTrue'
    BY <1>2 DEF MailInv, SeenIsDurable, RunsTrue, OneRunPerScope, Answering
  <1>9. AnswersTrue'
    BY <1>3, Numbers DEF AnswersTrue
  <1>. QED
    BY <1>5, <1>6, <1>7, <1>8, <1>9 DEF MailInv

\* A Run of somebody else takes a scope that is free.
LEMMA OccupyStep ==
    ASSUME MailInv, NEW s \in Scopes, Occupy(s)
    PROVE  MailInv'
  <1>1. OneRunPerScope'
    BY DEF Occupy, ScopeBusy, MailInv, RunsTrue, OneRunPerScope, Answering
  <1>2. RunsTrue'
    BY <1>1 DEF Occupy, MailInv, RunsTrue
  <1>. QED
    BY <1>2, OutsideStep DEF Occupy, MailInv, MailState

\* It leaves the scope, perhaps with an intervention closed.
LEMMA LeaveStep ==
    ASSUME MailInv, NEW s \in Scopes, Leave(s)
    PROVE  MailInv'
  <1>1. RunsTrue'
    BY RunsStay DEF Leave
  <1>2. iv' \in [Interventions -> {"active", "replied", "closed"}]
    BY DEF Leave, MailInv, MailState
  <1>. QED
    BY <1>1, <1>2, OutsideStep DEF Leave, MailInv, MailState

\* A plan is archived or comes back.
LEMMA ArchiveStep ==
    ASSUME MailInv, NEW s \in Scopes, Archive(s)
    PROVE  MailInv'
  <1>1. RunsTrue'
    BY RunsStay DEF Archive
  <1>2. archived' \subseteq Scopes
    BY DEF Archive, MailInv, MailState
  <1>. QED
    BY <1>1, <1>2, OutsideStep DEF Archive, MailInv, MailState

\* The Run of a mail ends.
LEMMA EndRunStep ==
    ASSUME MailInv, NEW m \in Mails, EndRun(m)
    PROVE  MailInv'
  <1>1. /\ runOf' \in [Mails -> {"none", "queued", "started", "ended"}]
        /\ runOf[m] = "started" /\ runOf'[m] = "ended"
        /\ \A n \in Mails \ {m} : runOf'[n] = runOf[n]
    BY DEF EndRun, MailInv, MailState
  <1>2. RunsTrue'
    BY <1>1, RunsStay DEF EndRun, Answering
  <1>3. iv' \in [Interventions -> {"active", "replied", "closed"}]
    BY DEF EndRun, MailInv, MailState
  <1>. QED
    BY <1>1, <1>2, <1>3, OutsideStep DEF EndRun, MailInv, MailState

-----------------------------------------------------------------------------
(* A poll, from the fetch to the Runs.                                     *)

\* A poll that holds nothing.
LEMMA IdlePoll ==
    ASSUME MailState
    PROVE  /\ Idle \in Poller
           /\ \A p \in Pollers : poller'[p] = Idle /\ mailbox.validity' \in Nat => PollTrue(p)'
  <1>1. Idle \in Poller
    BY Numbers DEF Idle, Poller
  <1>2. ASSUME NEW p \in Pollers, poller'[p] = Idle, mailbox.validity' \in Nat
        PROVE  PollTrue(p)'
    BY <1>2 DEF PollTrue, Idle
  <1>. QED
    BY <1>1, <1>2

\* The poll has the mails with the UIDs and the UIDVALIDITY that they have now.
LEMMA FetchStep ==
    ASSUME MailInv, NEW p \in Pollers, Fetch(p)
    PROVE  MailInv'
  <1> DEFINE unseen == Box \ seen
             window == {m \in unseen :
               Cardinality({n \in unseen : mailbox.uid[n] > mailbox.uid[m]}) < Window}
             replies == {[mail |-> m, uid |-> mailbox.uid[m]] : m \in window}
             r == [Idle EXCEPT !.pc = "fetched", !.validity = mailbox.validity, !.replies = replies]
  <1>1. poller' = [poller EXCEPT ![p] = r]
    BY DEF Fetch
  <1>2. UNCHANGED <<mailbox, seen, jobs, iv, runOf, busy, archived, crashes, answers>>
    BY DEF Fetch
  <1>3. window \subseteq Box
    OBVIOUS
  <1> HIDE DEF window
  <1>4. /\ mailbox.uid \in [Mails -> Uids \cup {0}] /\ mailbox.validity \in 1..MaxValidity
        /\ Numbered(mailbox.uid)
    BY DEF MailInv, MailState
  <1>5. \A x \in replies : x.mail \in Mails /\ x.uid \in Uids /\ mailbox.uid[x.mail] = x.uid
    BY <1>3, <1>4 DEF Box
  <1>6. replies \subseteq Reply
    BY <1>3, <1>4 DEF Box, Reply
  <1>7. \A x, y \in replies : x.uid = y.uid => x = y
    BY <1>3, <1>4, Numbers DEF Box, Numbered
  <1> HIDE DEF replies
  <1>8. r \in Poller /\ r.pc = "fetched" /\ r.validity = mailbox.validity /\ r.replies = replies
        /\ r.listed = {} /\ r.claims = {}
    <2>1. mailbox.validity \in 0..MaxValidity /\ replies \in SUBSET Reply
      BY <1>4, <1>6, Numbers
    <2>2. Idle \in Poller /\ Idle.listed = {} /\ Idle.claims = {}
      BY IdlePoll DEF MailInv, Idle
    <2>. QED
      BY <2>1, <2>2 DEF Poller
  <1> HIDE DEF r
  <1>9. poller'[p] = r
    BY <1>1 DEF MailInv, MailState
  <1>10. PollTrue(p)'
    BY <1>2, <1>4, <1>5, <1>7, <1>8, <1>9 DEF PollTrue
  <1>11. \A id \in Ids : JobTrue(id)'
    BY <1>2, JobStays
  <1>12. RunsTrue' /\ JobsStay
    BY <1>2, RunsStay DEF JobsStay, Recorded
  <1>. QED
    BY <1>1, <1>2, <1>8, <1>10, <1>11, <1>12, PollStep DEF MailInv, MailState

\* Claims are given to jobs that are there; what has been acknowledged stays so.
LEMMA ClaimAcksStep ==
    ASSUME MailInv, NEW p \in Pollers, ClaimAcks(p)
    PROVE  MailInv'
  <1> DEFINE mine == {id \in poller[p].listed : Claimable(id)}
             r == [poller[p] EXCEPT !.claims = mine, !.pc = IF mine = {} THEN "start" ELSE "mark"]
  <1>1. /\ poller \in [Pollers -> Poller] /\ poller[p] \in Poller
        /\ PollTrue(p) /\ jobs \in [Ids -> Job]
    BY DEF MailInv, MailState
  <1>2. /\ poller' = [poller EXCEPT ![p] = r]
        /\ jobs' = [id \in Ids |-> IF id \in mine
              THEN [jobs[id] EXCEPT !.ack = "claimed", !.token = p, !.expired = FALSE] ELSE jobs[id]]
        /\ UNCHANGED <<mailbox, seen, iv, runOf, busy, archived, crashes, answers>>
    BY <1>1 DEF ClaimAcks
  <1>3. mine \subseteq poller[p].listed /\ \A id \in mine : Claimable(id)
    OBVIOUS
  <1> HIDE DEF mine
  <1>4. r \in Poller /\ r.pc \in {"start", "mark"} /\ r.validity = poller[p].validity
        /\ r.listed = poller[p].listed /\ r.claims = mine
    BY <1>1, <1>3 DEF Poller
  <1> HIDE DEF r
  <1>5. \A id \in Ids : /\ jobs'[id] \in Job /\ jobs'[id].mail = jobs[id].mail
                        /\ id \notin mine => jobs'[id] = jobs[id]
                        /\ id \in mine => jobs'[id].ack = "claimed" /\ jobs'[id].token = p
    BY <1>1, <1>2 DEF Job
  <1>6. JobsStay
    BY <1>3, <1>5 DEF JobsStay, Recorded
  <1>7. ASSUME NEW id \in Ids
        PROVE  JobTrue(id)'
    <2>1. CASE id \notin mine
      BY <1>2, <1>5, <2>1, JobStays
    <2>2. CASE id \in mine
      <3>1. JobTrue(id) /\ Recorded(id)
        BY <1>3, <2>2 DEF MailInv, Claimable, Recorded
      <3>. QED
        BY <1>2, <1>5, <2>2, <3>1, Numbers DEF JobTrue, Recorded
    <2>. QED
      BY <2>1, <2>2
  <1>8. poller'[p] = r
    BY <1>1, <1>2
  <1>9. PollTrue(p)'
    <2>1. \A id \in r.listed : id[1] = r.validity /\ Recorded(id)'
      BY <1>1, <1>4, <1>6 DEF PollTrue, JobsStay, Poller
    <2>. QED
      BY <1>1, <1>2, <1>3, <1>4, <1>8, <2>1 DEF PollTrue
  <1>10. RunsTrue'
    BY <1>2, RunsStay
  <1>11. jobs' \in [Ids -> Job]
    BY <1>2, <1>5
  <1>. QED
    BY <1>2, <1>4, <1>6, <1>7, <1>9, <1>10, <1>11, PollStep DEF MailInv, MailState

\* The jobs whose claim is still the poller's get their outcome; a true one.
LEMMA OutcomeIs ==
    ASSUME MailInv, NEW p \in Pollers, NEW ack \in {"acked", "failed"}, Outcome(p, ack),
           UNCHANGED <<mailbox, seen, answers>>,
           ack = "acked" => poller[p].pc = "complete"
    PROVE  jobs' \in [Ids -> Job] /\ (\A id \in Ids : JobTrue(id)') /\ JobsStay
  <1>1. jobs \in [Ids -> Job] /\ PollTrue(p)
    BY DEF MailInv, MailState
  <1>2. \A id \in Ids :
          IF id \in poller[p].claims /\ Held(id, p)
            THEN jobs'[id] = [jobs[id] EXCEPT !.ack = ack, !.token = Nil, !.expired = FALSE]
            ELSE jobs'[id] = jobs[id]
    BY DEF Outcome
  <1>3. ASSUME NEW id \in Ids
        PROVE  /\ jobs'[id] \in Job /\ jobs'[id].mail = jobs[id].mail /\ JobTrue(id)'
               /\ Recorded(id) => Recorded(id)'
    <2>1. CASE id \in poller[p].claims /\ Held(id, p)
      <3>1. /\ jobs'[id] \in Job /\ jobs'[id].mail = jobs[id].mail
            /\ jobs'[id].ack = ack /\ jobs'[id].token = Nil
        BY <1>1, <1>2, <2>1 DEF Job
      <3>2. JobTrue(id) /\ Recorded(id)
        BY <2>1 DEF MailInv, Held, Recorded
      <3>3. ack = "acked" => jobs[id].mail \in seen
        BY <1>1, <2>1 DEF PollTrue
      <3>. QED
        BY <3>1, <3>2, <3>3 DEF JobTrue, Recorded
    <2>2. CASE ~(id \in poller[p].claims /\ Held(id, p))
      <3>1. jobs'[id] = jobs[id]
        BY <1>2, <2>2
      <3>. QED
        BY <1>1, <3>1, JobStays DEF Recorded
    <2>. QED
      BY <2>1, <2>2
  <1>4. jobs' \in [Ids -> Job]
    BY <1>3 DEF Outcome
  <1>. QED
    BY <1>3, <1>4 DEF JobsStay

\* The outcome is recorded for the claims that are still its own.
LEMMA CompleteStep ==
    ASSUME MailInv, NEW p \in Pollers, Complete(p)
    PROVE  MailInv'
  <1> DEFINE r == [poller[p] EXCEPT !.pc = "start"]
  <1>1. /\ poller \in [Pollers -> Poller] /\ poller[p] \in Poller /\ PollTrue(p)
    BY DEF MailInv, MailState
  <1>2. /\ poller' = [poller EXCEPT ![p] = r] /\ poller[p].pc = "complete" /\ Outcome(p, "acked")
        /\ UNCHANGED <<mailbox, seen, iv, runOf, busy, archived, crashes, answers>>
    BY <1>1 DEF Complete
  <1>3. jobs' \in [Ids -> Job] /\ (\A id \in Ids : JobTrue(id)') /\ JobsStay
    BY <1>2, OutcomeIs
  <1>4. r \in Poller /\ r.pc = "start" /\ r.validity = poller[p].validity
        /\ r.listed = poller[p].listed /\ r.claims = poller[p].claims
    BY <1>1 DEF Poller
  <1> HIDE DEF r
  <1>5. poller'[p] = r
    BY <1>1, <1>2
  <1>6. PollTrue(p)'
    <2>1. \A id \in r.listed : id[1] = r.validity /\ Recorded(id)'
      BY <1>1, <1>3, <1>4 DEF PollTrue, JobsStay, Poller
    <2>. QED
      BY <1>1, <1>2, <1>4, <1>5, <2>1 DEF PollTrue
  <1>7. RunsTrue'
    BY <1>2, RunsStay
  <1>. QED
    BY <1>2, <1>3, <1>4, <1>6, <1>7, PollStep DEF MailInv, MailState

\* The poll raises, and its jobs can be claimed again.
LEMMA FailStep ==
    ASSUME MailInv, NEW p \in Pollers, Fail(p)
    PROVE  MailInv'
  <1>1. poller \in [Pollers -> Poller] /\ mailbox.validity \in Nat
    BY Numbers DEF MailInv, MailState
  <1>2. /\ poller' = [poller EXCEPT ![p] = Idle] /\ Outcome(p, "failed")
        /\ UNCHANGED <<mailbox, seen, iv, runOf, busy, archived, crashes, answers>>
    BY DEF Fail
  <1>3. jobs' \in [Ids -> Job] /\ (\A id \in Ids : JobTrue(id)') /\ JobsStay
    BY <1>2, OutcomeIs
  <1>4. Idle \in Poller /\ PollTrue(p)'
    BY <1>1, <1>2, IdlePoll DEF MailInv
  <1>5. RunsTrue'
    BY <1>2, RunsStay
  <1>. QED
    BY <1>2, <1>3, <1>4, <1>5, PollStep DEF MailInv, MailState

\* The Runs that were made begin.
LEMMA StartRunsStep ==
    ASSUME MailInv, NEW p \in Pollers, StartRuns(p)
    PROVE  MailInv'
  <1>1. poller \in [Pollers -> Poller] /\ mailbox.validity \in Nat
        /\ runOf \in [Mails -> {"none", "queued", "started", "ended"}]
    BY Numbers DEF MailInv, MailState
  <1>2. /\ poller' = [poller EXCEPT ![p] = Idle]
        /\ UNCHANGED <<mailbox, seen, jobs, iv, busy, archived, crashes, answers>>
        /\ runOf' = [m \in Mails |-> IF m \in poller[p].runs /\ runOf[m] = "queued"
                                       THEN "started" ELSE runOf[m]]
    BY DEF StartRuns
  <1>3. runOf' \in [Mails -> {"none", "queued", "started", "ended"}]
    BY <1>1, <1>2
  <1>4. RunsTrue'
    BY <1>2, RunsStay DEF Answering
  <1>5. Idle \in Poller /\ PollTrue(p)'
    BY <1>1, <1>2, IdlePoll DEF MailInv
  <1>6. (\A id \in Ids : JobTrue(id)') /\ JobsStay
    BY <1>2, JobStays DEF JobsStay, Recorded
  <1>. QED
    BY <1>2, <1>3, <1>4, <1>5, <1>6, PollStep DEF MailInv, MailState

\* A claim expires; who had it does not know.
LEMMA ExpireStep ==
    ASSUME MailInv, NEW id \in Ids, Expire(id)
    PROVE  MailInv'
  <1>1. jobs \in [Ids -> Job] /\ JobTrue(id)
    BY DEF MailInv, MailState
  <1>2. /\ jobs' = [jobs EXCEPT ![id].expired = TRUE] /\ jobs[id].ack = "claimed"
        /\ UNCHANGED <<mailbox, seen, iv, runOf, busy, archived, poller, crashes, answers>>
    BY DEF Expire
  <1>3. /\ jobs' \in [Ids -> Job]
        /\ jobs'[id].mail = jobs[id].mail /\ jobs'[id].ack = "claimed"
        /\ jobs'[id].token = jobs[id].token
        /\ \A o \in Ids \ {id} : jobs'[o] = jobs[o]
    BY <1>1, <1>2 DEF Job
  <1>4. JobsStay
    BY <1>2, <1>3 DEF JobsStay, Recorded
  <1>5. JobTrue(id)'
    BY <1>1, <1>2, <1>3 DEF JobTrue, Recorded
  <1>6. \A o \in Ids : JobTrue(o)'
    BY <1>2, <1>3, <1>5, JobStays
  <1>7. \A q \in Pollers : PollTrue(q)'
    BY <1>2, <1>4, PollStays
  <1>8. SeenIsDurable' /\ RunsTrue'
    BY <1>2, RunsStay DEF MailInv, SeenIsDurable
  <1>9. AnswersTrue'
    <2>1. \A m \in Mails : (\E o \in Ids : Recorded(o) /\ jobs[o].mail = m)
                             => \E o \in Ids : Recorded(o)' /\ jobs'[o].mail = m
      BY <1>4 DEF JobsStay
    <2>. QED
      BY <1>2, <2>1 DEF MailInv, AnswersTrue
  <1>10. MailState'
    BY <1>2, <1>3 DEF MailInv, MailState, Box
  <1>. QED
    BY <1>6, <1>7, <1>8, <1>9, <1>10 DEF MailInv

\* The process dies between any two steps of its polls.
LEMMA MailCrashStep ==
    ASSUME MailInv, Crash
    PROVE  MailInv'
  <1>1. mailbox.validity \in Nat /\ crashes \in 0..MaxCrashes
        /\ runOf \in [Mails -> {"none", "queued", "started", "ended"}]
    BY Numbers DEF MailInv, MailState
  <1>2. /\ poller' = [p \in Pollers |-> Idle]
        /\ runOf' = [m \in Mails |-> IF runOf[m] = "queued" THEN "started" ELSE runOf[m]]
        /\ crashes' = crashes + 1 /\ crashes < MaxCrashes
        /\ UNCHANGED <<mailbox, seen, jobs, iv, busy, archived, answers>>
    BY DEF Crash
  <1>3. Idle \in Poller /\ \A p \in Pollers : PollTrue(p)'
    BY <1>1, <1>2, IdlePoll DEF MailInv
  <1>4. runOf' \in [Mails -> {"none", "queued", "started", "ended"}] /\ RunsTrue'
    BY <1>1, <1>2, RunsStay DEF Answering
  <1>5. \A id \in Ids : JobTrue(id)'
    BY <1>2, JobStays
  <1>6. SeenIsDurable' /\ AnswersTrue'
    BY <1>2 DEF MailInv, SeenIsDurable, AnswersTrue, Recorded
  <1>7. MailState'
    <2>1. crashes' \in 0..MaxCrashes
      BY <1>1, <1>2, Numbers
    <2>. QED
      BY <1>2, <1>3, <1>4, <2>1 DEF MailInv, MailState, Box
  <1>. QED
    BY <1>3, <1>4, <1>5, <1>6, <1>7 DEF MailInv

\* A flag is set where the UIDs are still those of the jobs, so that each mail that
\* gets one has been answered.
LEMMA MarkSeenStep ==
    ASSUME MailInv, NEW p \in Pollers, MarkSeen(p)
    PROVE  MailInv'
  <1> DEFINE uids == {id[2] : id \in poller[p].claims}
  <1>1. /\ poller \in [Pollers -> Poller] /\ poller[p] \in Poller /\ PollTrue(p)
        /\ mailbox.uid \in [Mails -> Uids \cup {0}] /\ Numbered(mailbox.uid)
    BY DEF MailInv, MailState
  <1>2. UNCHANGED <<mailbox, jobs, iv, runOf, busy, archived, crashes, answers>>
    BY DEF MarkSeen
  <1>3. ASSUME SameMailbox(p), NEW id \in poller[p].claims
        PROVE  /\ id \in Ids /\ jobs[id].mail \in Box /\ mailbox.uid[jobs[id].mail] = id[2]
               /\ answers[jobs[id].mail] > 0
    <2>1. id \in Ids /\ Recorded(id) /\ id[1] = mailbox.validity
      BY <1>1, <1>3 DEF PollTrue, SameMailbox, Poller
    <2>2. JobTrue(id) /\ id[2] \in Uids
      BY <2>1, Numbers DEF MailInv
    <2>. QED
      BY <2>1, <2>2, Numbers DEF JobTrue, Box
  <1>4. ASSUME SameMailbox(p), NEW m \in MailsOf(uids)
        PROVE  answers[m] > 0
    <2>1. PICK id \in poller[p].claims : m \in Box /\ mailbox.uid[m] = id[2]
      BY <1>4 DEF MailsOf
    <2>2. mailbox.uid[jobs[id].mail] = mailbox.uid[m] /\ jobs[id].mail \in Mails /\ m \in Mails
          /\ mailbox.uid[m] # 0
      BY <1>3, <1>4, <2>1 DEF Box
    <2>3. jobs[id].mail = m
      BY <1>1, <2>2 DEF Numbered
    <2>. QED
      BY <1>3, <1>4, <2>3
  <1>5. /\ seen \subseteq seen' /\ seen' \subseteq Box
        /\ \A m \in seen' \ seen : answers[m] > 0
        /\ poller' = [poller EXCEPT ![p].pc = "complete"] =>
             \A id \in poller[p].claims : jobs[id].mail \in seen'
        /\ \/ poller' = [poller EXCEPT ![p].pc = "complete"]
           \/ poller' = [poller EXCEPT ![p].pc = "fail"]
    <2>0. \A some \in SUBSET uids : MailsOf(some) \subseteq MailsOf(uids) /\ MailsOf(some) \subseteq Box
      BY DEF MailsOf
    <2>1. seen \subseteq Box
      BY DEF MailInv, MailState
    <2>2. CASE SameMailbox(p) /\ seen' = seen \cup MailsOf(uids)
               /\ poller' = [poller EXCEPT ![p].pc = "complete"]
      <3>1. \A id \in poller[p].claims : jobs[id].mail \in MailsOf(uids)
        BY <1>3, <2>2 DEF MailsOf
      <3>. QED
        BY <1>4, <2>0, <2>1, <2>2, <3>1
    <2>3. ASSUME SameMailbox(p), NEW some \in SUBSET uids, seen' = seen \cup MailsOf(some),
                 poller' = [poller EXCEPT ![p].pc = "fail"]
          PROVE  /\ seen \subseteq seen' /\ seen' \subseteq Box
                 /\ \A m \in seen' \ seen : answers[m] > 0
                 /\ poller' # [poller EXCEPT ![p].pc = "complete"]
      <3>1. poller' # [poller EXCEPT ![p].pc = "complete"]
        <4>1. poller'[p].pc = "fail" /\ [poller EXCEPT ![p].pc = "complete"][p].pc = "complete"
          BY <1>1, <2>3 DEF Poller
        <4>. QED
          BY <4>1
      <3>. QED
        BY <1>4, <2>0, <2>1, <2>3, <3>1
    <2>4. ASSUME UNCHANGED seen, poller' = [poller EXCEPT ![p].pc = "fail"]
          PROVE  poller' # [poller EXCEPT ![p].pc = "complete"]
      <3>1. poller'[p].pc = "fail" /\ [poller EXCEPT ![p].pc = "complete"][p].pc = "complete"
        BY <1>1, <2>4 DEF Poller
      <3>. QED
        BY <3>1
    <2>. QED
      BY <2>1, <2>2, <2>3, <2>4 DEF MarkSeen
  <1> HIDE DEF uids
  <1>6. JobsStay
    BY <1>2 DEF JobsStay, Recorded
  <1>7. ASSUME NEW q \in Pollers
        PROVE  PollTrue(q)' /\ poller'[q] \in Poller
    <2>1. CASE q # p
      <3>1. poller'[q] = poller[q]
        BY <1>1, <1>5, <2>1
      <3>. QED
        BY <1>1, <1>2, <1>5, <1>6, <3>1, PollStays
    <2>2. CASE q = p
      <3>1. /\ poller'[p] \in Poller /\ poller'[p].pc \in {"complete", "fail"}
            /\ poller'[p].validity = poller[p].validity
            /\ poller'[p].listed = poller[p].listed /\ poller'[p].claims = poller[p].claims
        BY <1>1, <1>5 DEF Poller
      <3>2. poller'[p].pc = "complete" => poller' = [poller EXCEPT ![p].pc = "complete"]
        BY <1>1, <1>5 DEF Poller
      <3>. QED
        BY <1>1, <1>2, <1>5, <2>2, <3>1, <3>2 DEF PollTrue, Recorded
    <2>. QED
      BY <2>1, <2>2
  <1>8. \A id \in Ids : JobTrue(id)'
    BY <1>2, <1>5, JobStays
  <1>9. SeenIsDurable'
    BY <1>2, <1>5 DEF MailInv, SeenIsDurable
  <1>10. AnswersTrue' /\ RunsTrue'
    BY <1>2, RunsStay DEF MailInv, AnswersTrue, Recorded
  <1>11. MailState'
    <2>1. poller' \in [Pollers -> Poller]
      BY <1>1, <1>5, <1>7
    <2>. QED
      BY <1>2, <1>5, <2>1 DEF MailInv, MailState, Box
  <1>. QED
    BY <1>7, <1>8, <1>9, <1>10, <1>11 DEF MailInv

-----------------------------------------------------------------------------
(* The transaction of all the replies of a poll.                           *)

\* A new reply: of a mail with a token, at a UID without a job, and at one of its own.
LEMMA NewReplyIs ==
    ASSUME MailInv, NEW p \in Pollers, poller[p].pc = "fetched"
    PROVE  /\ poller[p].validity \in 1..MaxValidity /\ poller[p].validity <= mailbox.validity
           /\ \A x \in NewReplies(p) :
                /\ x = [mail |-> x.mail, uid |-> x.uid]
                /\ x.mail \in Mails /\ x.uid \in Uids /\ TargetOf[x.mail] # Nil
                /\ <<poller[p].validity, x.uid>> \in Ids
                /\ ~Recorded(<<poller[p].validity, x.uid>>)
                /\ poller[p].validity = mailbox.validity => mailbox.uid[x.mail] = x.uid
           /\ \A x, y \in NewReplies(p) : x.uid = y.uid => x = y
  <1>1. poller[p] \in Poller /\ PollTrue(p)
    BY DEF MailInv, MailState
  <1>2. poller[p].validity \in 1..MaxValidity /\ poller[p].validity <= mailbox.validity
    BY <1>1, Numbers DEF PollTrue, Poller
  <1>3. NewReplies(p) \subseteq poller[p].replies /\ poller[p].replies \subseteq Reply
    BY <1>1 DEF NewReplies, Poller
  <1>4. ASSUME NEW x \in NewReplies(p)
        PROVE  /\ x = [mail |-> x.mail, uid |-> x.uid]
               /\ x.mail \in Mails /\ x.uid \in Uids
               /\ <<poller[p].validity, x.uid>> \in Ids
    BY <1>2, <1>3, Numbers DEF Reply
  <1>5. \A x \in NewReplies(p) :
          TargetOf[x.mail] # Nil /\ ~Recorded(<<poller[p].validity, x.uid>>)
    BY DEF NewReplies, TargetOfReply
  <1>6. /\ \A x, y \in NewReplies(p) : x.uid = y.uid => x = y
        /\ poller[p].validity = mailbox.validity => \A x \in NewReplies(p) : mailbox.uid[x.mail] = x.uid
    BY <1>1, <1>3 DEF PollTrue
  <1>. QED
    BY <1>2, <1>4, <1>5, <1>6

\* The Runs of a poll respect the scope.
LEMMA StartedRuns ==
    ASSUME MailInv, NEW p \in Pollers, poller[p].pc = "fetched", UNCHANGED busy,
           NEW started,
           started = {x.mail : x \in {r \in NewReplies(p) : StartsRun(p, r)}},
           runOf' = [m \in Mails |-> IF m \in started THEN "queued" ELSE runOf[m]]
    PROVE  RunsTrue'
  <1>1. \A m \in started : \E x \in NewReplies(p) : StartsRun(p, x) /\ m = x.mail
    OBVIOUS
  <1>2. \A m \in Mails : Answering(m)' <=> m \in started \/ Answering(m)
    BY DEF Answering
  <1>3. ASSUME NEW m \in started
        PROVE  /\ TargetOf[m] # Nil /\ ScopeOf[TargetOf[m]] \notin busy
               /\ \A n \in Mails : Answering(n) => ScopeOf[TargetOf[n]] # ScopeOf[TargetOf[m]]
    <2>1. PICK x \in NewReplies(p) : StartsRun(p, x) /\ m = x.mail
      BY <1>1
    <2>2. TargetOf[m] # Nil
      BY <2>1, NewReplyIs
    <2>3. ~ScopeBusy(ScopeOf[TargetOf[m]])
      BY <2>1 DEF StartsRun, ScopeOfReply
    <2>. QED
      BY <2>2, <2>3 DEF ScopeBusy
  <1>4. ASSUME NEW m \in started, NEW n \in started, ScopeOf[TargetOf[m]] = ScopeOf[TargetOf[n]]
        PROVE  m = n
    <2>1. PICK x \in NewReplies(p) : StartsRun(p, x) /\ m = x.mail
      BY <1>1
    <2>2. PICK y \in NewReplies(p) : StartsRun(p, y) /\ n = y.mail
      BY <1>1
    <2>3. x.uid \in Nat /\ y.uid \in Nat /\ (x.uid = y.uid => x = y)
      BY NewReplyIs, Numbers
    <2>4. ScopeOfReply(x) = ScopeOfReply(y)
      BY <1>4, <2>1, <2>2 DEF ScopeOfReply
    <2>5. ~(x.uid < y.uid) /\ ~(y.uid < x.uid)
      BY <2>1, <2>2, <2>3, <2>4 DEF StartsRun
    <2>. QED
      BY <2>1, <2>2, <2>3, <2>5
  <1>5. \A m \in Mails : Answering(m) =>
          /\ ScopeOf[TargetOf[m]] \notin busy
          /\ \A n \in Mails \ {m} : Answering(n) => ScopeOf[TargetOf[n]] # ScopeOf[TargetOf[m]]
    BY DEF MailInv, RunsTrue, OneRunPerScope
  <1>6. OneRunPerScope'
    BY <1>2, <1>3, <1>4, <1>5 DEF OneRunPerScope
  <1>7. \A m \in Mails : runOf'[m] # "none" => TargetOf[m] # Nil
    BY <1>3 DEF MailInv, RunsTrue
  <1>. QED
    BY <1>6, <1>7 DEF RunsTrue

\* Each mail that is taken gets a job and is answered, once as long as the server
\* keeps its numbers.
LEMMA RegisterStep ==
    ASSUME MailInv, NEW p \in Pollers, Register(p)
    PROVE  MailInv'
  <1> DEFINE new == NewReplies(p)
             taken == {x.mail : x \in new}
             started == {x.mail : x \in {r \in new : StartsRun(p, r)}}
             v == poller[p].validity
             here == {id \in Ids : id[1] = v /\ \E x \in new : x.uid = id[2]}
             listed == here \cup {id \in Ids : id[1] = v /\ Open(id)}
             mailAt(id) == CHOOSE m \in taken : [mail |-> m, uid |-> id[2]] \in new
             r == [poller[p] EXCEPT !.pc = "claim", !.runs = started, !.listed = listed]
  <1>1. /\ poller \in [Pollers -> Poller] /\ poller[p] \in Poller /\ PollTrue(p)
        /\ poller[p].pc = "fetched" /\ jobs \in [Ids -> Job] /\ answers \in [Mails -> Nat]
    BY DEF MailInv, MailState, Register
  <1>2. UNCHANGED <<mailbox, seen, busy, archived, crashes>>
    BY DEF Register
  <1>3. CASE Refused(p)
    <2>1. poller' = [poller EXCEPT ![p] = Idle] /\ UNCHANGED <<jobs, iv, runOf, answers>>
      BY <1>3 DEF Register
    <2>2. Idle \in Poller /\ PollTrue(p)'
      <3>1. mailbox.validity' \in Nat /\ poller'[p] = Idle
        BY <1>1, <1>2, <2>1, Numbers DEF MailInv, MailState
      <3>. QED
        BY <3>1, IdlePoll DEF MailInv
    <2>3. (\A id \in Ids : JobTrue(id)') /\ JobsStay /\ RunsTrue'
      BY <1>2, <2>1, JobStays, RunsStay DEF JobsStay, Recorded
    <2>. QED
      BY <1>2, <2>1, <2>2, <2>3, PollStep DEF MailInv, MailState
  <1>4. CASE ~Refused(p)
    <2>1. /\ jobs' = [id \in Ids |-> IF id \in here
                THEN [NoJob EXCEPT !.ack = "pending", !.mail = mailAt(id)] ELSE jobs[id]]
          /\ iv' = [i \in Interventions |->
                IF \A x \in new : TargetOfReply(x) # i THEN iv[i]
                ELSE IF ScopeOf[i] \in archived THEN "closed" ELSE "replied"]
          /\ runOf' = [m \in Mails |-> IF m \in started THEN "queued" ELSE runOf[m]]
          /\ answers' = [m \in Mails |-> IF m \in taken THEN answers[m] + 1 ELSE answers[m]]
          /\ poller' = [poller EXCEPT ![p] = r]
      BY <1>1, <1>4 DEF Register
    <2>2. /\ v \in 1..MaxValidity /\ v <= mailbox.validity
          /\ \A x \in new :
               /\ x = [mail |-> x.mail, uid |-> x.uid]
               /\ x.mail \in Mails /\ x.uid \in Uids /\ TargetOf[x.mail] # Nil
               /\ <<v, x.uid>> \in Ids /\ ~Recorded(<<v, x.uid>>)
               /\ v = mailbox.validity => mailbox.uid[x.mail] = x.uid
          /\ \A x, y \in new : x.uid = y.uid => x = y
      BY <1>1, NewReplyIs
    <2>3. RunsTrue'
      BY <1>1, <1>2, <2>1, StartedRuns
    <2> HIDE DEF new
    <2>4. ASSUME NEW id \in here
          PROVE  \E x \in new : x.uid = id[2] /\ id = <<v, x.uid>> /\ mailAt(id) = x.mail
      <3>1. PICK x \in new : x.uid = id[2]
        OBVIOUS
      <3>2. id = <<v, x.uid>>
        BY <3>1, Numbers
      <3>3. x.mail \in taken /\ [mail |-> x.mail, uid |-> id[2]] \in new
        BY <2>2, <3>1
      <3>4. mailAt(id) \in taken /\ [mail |-> mailAt(id), uid |-> id[2]] \in new
        BY <3>3
      <3>5. [mail |-> mailAt(id), uid |-> id[2]] = x
        BY <2>2, <3>1, <3>4
      <3>. QED
        BY <3>1, <3>2, <3>5
    <2>5. started \subseteq taken /\ taken \subseteq Mails
      BY <2>2
    <2>6. \A x \in new : <<v, x.uid>> \in here /\ mailAt(<<v, x.uid>>) = x.mail
      <3>1. ASSUME NEW x \in new
            PROVE  <<v, x.uid>> \in here /\ mailAt(<<v, x.uid>>) = x.mail
        <4>1. <<v, x.uid>> \in here
          BY <2>2
        <4>2. PICK y \in new : y.uid = x.uid /\ mailAt(<<v, x.uid>>) = y.mail
          BY <2>4, <4>1
        <4>. QED
          BY <2>2, <4>1, <4>2
      <3>. QED
        BY <3>1
    <2>7. \A id \in here : mailAt(id) \in taken
      BY <2>4
    <2>8. here \subseteq Ids /\ listed \subseteq Ids /\ \A id \in listed : id[1] = v
      OBVIOUS
    <2>9. \A id \in listed \ here : Recorded(id)
      BY DEF Open, Recorded
    <2> HIDE DEF mailAt, taken, started, here, listed
    <2>10. \A id \in Ids :
            /\ id \notin here => jobs'[id] = jobs[id]
            /\ id \in here => jobs'[id] = [NoJob EXCEPT !.ack = "pending", !.mail = mailAt(id)]
      BY <2>1
    <2>11. ASSUME NEW id \in here
           PROVE  /\ jobs'[id] \in Job /\ jobs'[id].mail = mailAt(id) /\ mailAt(id) \in Mails
                  /\ jobs'[id].ack = "pending" /\ jobs'[id].token = Nil /\ ~Recorded(id)
      <3>1. jobs'[id] = [mail |-> mailAt(id), ack |-> "pending", token |-> Nil, expired |-> FALSE]
        BY <2>8, <2>10 DEF NoJob
      <3>2. mailAt(id) \in Mails
        BY <2>5, <2>7
      <3>3. ~Recorded(id)
        BY <2>2, <2>4
      <3>. QED
        BY <3>1, <3>2, <3>3 DEF Job
    <2>12. JobsStay
      BY <2>10, <2>11 DEF JobsStay, Recorded
    <2>13. jobs' \in [Ids -> Job]
      <3>1. \A id \in Ids : jobs'[id] \in Job
        BY <1>1, <2>10, <2>11
      <3>. QED
        BY <2>1, <3>1
    <2>14. /\ answers' \in [Mails -> Nat]
           /\ \A m \in Mails : /\ m \in taken => answers'[m] = answers[m] + 1
                               /\ m \notin taken => answers'[m] = answers[m]
      <3>1. \A m \in Mails : answers[m] \in Nat
        BY <1>1
      <3>2. \A m \in Mails : answers'[m] = IF m \in taken THEN answers[m] + 1 ELSE answers[m]
        BY <2>1
      <3>3. \A m \in Mails : (IF m \in taken THEN answers[m] + 1 ELSE answers[m]) \in Nat
        BY <3>1
      <3>4. answers' \in [Mails -> Nat]
        BY <2>1, <3>3, Zenon
      <3>. QED
        BY <3>2, <3>4
    <2>15. \A m \in Mails : answers[m] > 0 \/ m \in taken => answers'[m] > 0
      BY <1>1, <2>14
    <2>16. ASSUME NEW id \in Ids
           PROVE  JobTrue(id)'
      <3>1. CASE id \in here
        <4>1. PICK x \in new : x.uid = id[2] /\ id = <<v, x.uid>> /\ mailAt(id) = x.mail
          BY <2>4, <3>1
        <4>2. id[1] = v /\ id[1] <= mailbox'.validity
              /\ (id[1] = mailbox'.validity => mailbox'.uid[mailAt(id)] = id[2])
          BY <1>2, <2>2, <4>1
        <4>3. answers'[mailAt(id)] > 0
          BY <2>5, <2>7, <2>15, <3>1
        <4>. QED
          BY <2>11, <3>1, <4>2, <4>3 DEF JobTrue, Recorded
      <3>2. CASE id \notin here
        <4>1. jobs'[id] = jobs[id] /\ JobTrue(id)
          BY <2>10, <3>2 DEF MailInv
        <4>. QED
          BY <1>2, <2>15, <4>1 DEF JobTrue, Recorded
      <3>. QED
        BY <3>1, <3>2
    <2>17. AnswersTrue'
      <3>1. SUFFICES ASSUME mailbox.validity = 1, NEW m \in Mails
                     PROVE  /\ answers'[m] <= 1
                            /\ answers'[m] > 0 => \E id \in Ids : Recorded(id)' /\ jobs'[id].mail = m
        BY <1>2 DEF AnswersTrue
      <3>2. /\ answers[m] <= 1
            /\ answers[m] > 0 => \E id \in Ids : Recorded(id) /\ jobs[id].mail = m
        BY <3>1 DEF MailInv, AnswersTrue
      <3>3. CASE m \notin taken
        BY <2>12, <2>14, <3>2, <3>3 DEF JobsStay
      <3>4. CASE m \in taken
        <4>1. PICK x \in new : m = x.mail
          BY <3>4 DEF taken
        <4>2. v = 1 /\ mailbox.uid[m] = x.uid /\ <<v, x.uid>> \in Ids
          BY <2>2, <3>1, <4>1, Numbers
        <4>3. ASSUME NEW id \in Ids, Recorded(id), jobs[id].mail = m
              PROVE  FALSE
          <5>1. id[1] \in Nat /\ id[1] > 0 /\ id[1] <= 1 /\ id = <<id[1], id[2]>>
            BY <3>1, <4>3, Numbers DEF MailInv, JobTrue
          <5>2. id[1] = 1
            BY <5>1
          <5>3. id[2] = x.uid
            BY <3>1, <4>2, <4>3, <5>2 DEF MailInv, JobTrue
          <5>4. id = <<v, x.uid>>
            BY <4>2, <5>1, <5>2, <5>3
          <5>. QED
            BY <2>2, <4>3, <5>4
        <4>4. answers[m] = 0
          BY <1>1, <3>2, <4>3
        <4>5. <<v, x.uid>> \in here /\ mailAt(<<v, x.uid>>) = m
          BY <2>6, <4>1
        <4>6. PICK id \in here : mailAt(id) = m
          BY <4>5, Zenon
        <4>7. id \in Ids /\ jobs'[id].mail = m /\ jobs'[id].ack = "pending"
          BY <2>8, <2>11, <4>6
        <4>8. Recorded(id)'
          BY <4>7 DEF Recorded
        <4>9. answers'[m] <= 1
          BY <2>14, <3>4, <4>4
        <4>. QED
          BY <4>7, <4>8, <4>9
      <3>. QED
        BY <3>3, <3>4
    <2>18. r \in Poller /\ r.pc = "claim" /\ r.validity = v /\ r.listed = listed
           /\ r.claims = poller[p].claims
      BY <1>1, <2>5, <2>8 DEF Poller
    <2>19. ASSUME NEW q \in Pollers
           PROVE  PollTrue(q)' /\ poller'[q] \in Poller
      <3>1. CASE q # p
        <4>1. poller'[q] = poller[q]
          BY <1>1, <2>1, <3>1
        <4>. QED
          BY <1>1, <1>2, <2>12, <4>1, PollStays
      <3>2. CASE q = p
        <4>1. poller'[p] = r
          BY <1>1, <2>1
        <4>2. \A id \in listed : Recorded(id)'
          BY <2>8, <2>9, <2>11, <2>12 DEF JobsStay, Recorded
        <4>3. poller[p].claims = {} /\ v <= mailbox'.validity
          BY <1>1, <1>2 DEF PollTrue
        <4> HIDE DEF r
        <4>. QED
          BY <2>8, <2>18, <3>2, <4>1, <4>2, <4>3 DEF PollTrue
      <3>. QED
        BY <3>1, <3>2
    <2>20. SeenIsDurable'
      <3>1. seen \subseteq Mails
        BY DEF MailInv, MailState, Box
      <3>. QED
        BY <1>2, <2>15, <3>1 DEF MailInv, SeenIsDurable
    <2>21. MailState'
      <3>1. poller' \in [Pollers -> Poller]
        BY <1>1, <2>1, <2>18
      <3>2. iv' \in [Interventions -> {"active", "replied", "closed"}]
        BY <2>1 DEF MailInv, MailState
      <3>3. runOf' \in [Mails -> {"none", "queued", "started", "ended"}]
        BY <2>1 DEF MailInv, MailState
      <3>. QED
        BY <1>2, <2>13, <2>14, <3>1, <3>2, <3>3 DEF MailInv, MailState, Box
    <2>. QED
      BY <2>3, <2>16, <2>17, <2>19, <2>20, <2>21 DEF MailInv
  <1>. QED
    BY <1>3, <1>4

-----------------------------------------------------------------------------
(* The theorems.                                                           *)

\* Every step of a poll, of the server and of the rest keeps the invariant.
LEMMA MailNextInv == MailInv /\ [MailNext]_mailVars => MailInv'
  <1>. SUFFICES ASSUME MailInv, [MailNext]_mailVars PROVE MailInv'
    OBVIOUS
  <1>1. ASSUME NEW m \in Mails, Arrive(m) \/ EndRun(m)
        PROVE  MailInv'
    BY <1>1, ArriveStep, EndRunStep
  <1>2. ASSUME NEW s \in Scopes, Occupy(s) \/ Leave(s) \/ Archive(s)
        PROVE  MailInv'
    BY <1>2, OccupyStep, LeaveStep, ArchiveStep
  <1>3. ASSUME NEW p \in Pollers, Poll(p) \/ MarkSeen(p)
        PROVE  MailInv'
    BY <1>3, FetchStep, RegisterStep, ClaimAcksStep, CompleteStep, FailStep, StartRunsStep,
       MarkSeenStep DEF Poll
  <1>4. ASSUME NEW id \in Ids, Expire(id)
        PROVE  MailInv'
    BY <1>4, ExpireStep
  <1>5. CASE ChangeValidity \/ Crash
    BY <1>5, ChangeValidityStep, MailCrashStep
  <1>6. CASE UNCHANGED mailVars
    <2>1. RunsTrue'
      BY <1>6, RunsStay DEF mailVars
    <2>. QED
      BY <1>6, <2>1, OutsideStep DEF mailVars, MailInv, MailState
  <1>. QED
    BY <1>1, <1>2, <1>3, <1>4, <1>5, <1>6 DEF MailNext

\* The invariant implies what a run checks of replies.
LEMMA MailInvReplies == MailInv => RepliesTrue
  <1>. SUFFICES ASSUME MailInv PROVE RepliesTrue
    OBVIOUS
  <1>1. MailTypes
    BY DEF MailInv, MailState, MailTypes, Poller, PollTrue, JobTrue
  <1>2. AckedIsSeen /\ AnsweredOnce
    BY DEF MailInv, JobTrue, AnswersTrue, AckedIsSeen, AnsweredOnce
  <1>. QED
    BY <1>1, <1>2 DEF MailInv, RunsTrue, RepliesTrue

\* Whatever polls overlap, claims expire, numbers change and processes die: a mail is
\* marked only when its reply is safe, it is answered once, an acknowledgement that
\* is recorded is true, and the Runs of mails respect the scope.
THEOREM RepliesStayTrue == MailSpec => []RepliesTrue
  <1>1. MailInit => MailInv
    BY MailInitInv
  <1>2. MailInv /\ [MailNext]_mailVars => MailInv'
    BY MailNextInv
  <1>3. MailInv => RepliesTrue
    BY MailInvReplies
  <1>. QED
    BY <1>1, <1>2, <1>3, PTL DEF MailSpec

\* Nothing happens to an acknowledged job: no claim takes it, and who has lost its
\* claim of it records nothing.
LEMMA AckedStays ==
    ASSUME MailInv, [MailNext]_mailVars, NEW id \in Ids, jobs[id].ack = "acked"
    PROVE  jobs'[id] = jobs[id]
  <1>1. CASE \E p \in Pollers : Register(p)
    <2>1. PICK p \in Pollers : Register(p)
      BY <1>1
    <2>2. CASE Refused(p)
      BY <2>1, <2>2 DEF Register
    <2>3. CASE ~Refused(p)
      <3>1. \A x \in NewReplies(p) : ~Recorded(<<poller[p].validity, x.uid>>)
        BY <2>1, NewReplyIs DEF Register
      <3>2. id = <<id[1], id[2]>> /\ Recorded(id)
        BY Numbers DEF Recorded
      <3>3. ~(id[1] = poller[p].validity /\ \E x \in NewReplies(p) : x.uid = id[2])
        BY <3>1, <3>2
      <3> DEFINE job(i) == [NoJob EXCEPT !.ack = "pending",
                   !.mail = CHOOSE m \in {x.mail : x \in NewReplies(p)} :
                              [mail |-> m, uid |-> i[2]] \in NewReplies(p)]
                 here == {i \in Ids : i[1] = poller[p].validity
                                      /\ \E x \in NewReplies(p) : x.uid = i[2]}
      <3>4. jobs' = [i \in Ids |-> IF i \in here THEN job(i) ELSE jobs[i]]
        BY <2>1, <2>3 DEF Register
      <3>5. id \notin here
        BY <3>3
      <3> HIDE DEF job, here
      <3>. QED
        BY <3>4, <3>5
    <2>. QED
      BY <2>2, <2>3
  <1>2. ASSUME NEW p \in Pollers, ClaimAcks(p)
        PROVE  jobs'[id] = jobs[id]
    BY <1>2 DEF ClaimAcks, Claimable
  <1>3. ASSUME NEW p \in Pollers, Complete(p) \/ Fail(p)
        PROVE  jobs'[id] = jobs[id]
    BY <1>3 DEF Complete, Fail, Outcome, Held
  <1>4. ASSUME NEW o \in Ids, Expire(o)
        PROVE  jobs'[id] = jobs[id]
    BY <1>4 DEF Expire, MailInv, MailState
  <1>5. CASE UNCHANGED jobs
    BY <1>5
  <1>. QED
    BY <1>1, <1>2, <1>3, <1>4, <1>5
       DEF MailNext, Poll, mailVars, Arrive, EndRun, Occupy, Leave, Archive, Fetch, MarkSeen,
           StartRuns, ChangeValidity, Crash

\* An acknowledgement is final.
THEOREM AcknowledgedForGood == MailSpec => AckedIsFinal
  <1>1. MailInit => MailInv
    BY MailInitInv
  <1>2. MailInv /\ [MailNext]_mailVars => MailInv'
    BY MailNextInv
  <1>3. MailInv /\ [MailNext]_mailVars
          => [\A id \in Ids : jobs[id].ack = "acked" => jobs'[id] = jobs[id]]_mailVars
    BY AckedStays
  <1>. QED
    BY <1>1, <1>2, <1>3, PTL DEF MailSpec, AckedIsFinal
=============================================================================
