--------------------------- MODULE SubagentsProofs ---------------------------
(* Theorems about Subagents: every child has one end, which the parent is  *)
(* told once and truly and in the order of the assignments, and a parent   *)
(* that is over leaves no child active.                                    *)
EXTENDS Subagents, FiniteSetTheorems, SequenceTheorems, TLAPS

-----------------------------------------------------------------------------
(* The inductive invariant.                                                *)

Settings == [planned : Assignments, spawns : BOOLEAN, requests : BOOLEAN,
             retries : Nat, rounds : Nat, faults : Nat]

Rows == [status : Active \cup Terminal \cup {"absent"}, frozen : BOOLEAN, retries : 0 .. setup.retries]
Tasks == [pc : Over \cup {"created", "working", "sleeping", "ending", "committing"},
          round : 0 .. setup.rounds, end : {"none", "completed", "failed"}, signalled : BOOLEAN]
Parents == [status : {"active", "over"},
            pc : {"none", "loop", "persist", "start", "gather", "unwinding", "cleanup",
                  "spawn", "spawned", "tool", "list", "sweep"},
            seen : SUBSET Children, next : {"none", "loop", "die", "again", "last"},
            signalled : BOOLEAN]
Sweeps == [step : {"off", "next", "signal", "wait"}, todo : SUBSET Children, child : Children \cup {None}]
Asking == [pc : {"idle", "signal", "terminate", "list", "sweep", "done"}, child : Children \cup {None}]

Types ==
    /\ setup \in Setups
    /\ row \in [Children -> Rows]
    /\ task \in [Children -> Tasks]
    /\ turn \subseteq (1 .. setup.rounds) \X Planned
    /\ parent \in Parents
    /\ sweep \in [Requests \cup {Parent} -> Sweeps]
    /\ request \in [Requests -> Asking]
    /\ events \in Seq(Children \X Terminal)
    /\ told \in [Assignments -> Active \cup Terminal \cup {"none", "absent"}]
    /\ up \in BOOLEAN /\ gaveUp \in BOOLEAN
    /\ rounds \in 0 .. setup.rounds /\ refusals \in Nat /\ crashes \in Nat
    /\ stopped \subseteq Children

\* The delegation has all of its children or none, and knows the ends it has seen.
Delegation ==
    /\ \A c, d \in Planned : row[c].status = "absent" => row[d].status = "absent"
    /\ parent.pc = "persist" => \A c \in Planned : row[c].status = "absent"
    /\ parent.pc \in {"start", "gather", "unwinding", "cleanup"} =>
         \A c \in Planned : row[c].status # "absent"
    /\ parent.pc \in {"persist", "start", "gather", "unwinding"} =>
         rounds > 0 /\ \A c \in parent.seen : c \in Planned /\ row[c].status \in Terminal
    /\ parent.pc \in {"spawn", "spawned"} => \E c \in Spawned : parent.seen = {c}
    /\ parent.pc = "spawned" => \A c \in parent.seen : row[c].status # "absent"

\* After a crash nothing is left but the rows.
Down ==
    ~up => /\ task = [c \in Children |-> NoTask]
           /\ turn = {}
           /\ parent.pc = "none" /\ ~parent.signalled
           /\ \A w \in Requests \cup {Parent} : sweep[w].step = "off"
           /\ \A q \in Requests : request[q].pc \in {"idle", "done"}
           /\ ~gaveUp /\ crashes > 0

\* Who is signalled by a sweep has been terminated by it.
SweepsTrue ==
    \A w \in Requests \cup {Parent} :
        /\ \A c \in sweep[w].todo : row[c].status # "absent"
        /\ sweep[w].step = "signal" =>
             sweep[w].child \in Children /\ row[sweep[w].child].status \in Terminal

\* A child that its parent's delegation is about to cancel.
InCleanup(c) ==
    \/ parent.pc = "unwinding" /\ c \in Awaited
    \/ parent.pc = "cleanup" /\ c \in sweep[Parent].todo /\ c \in Planned

\* A transaction has been refused, or a request stops this child.
Excused(c) == refusals > 0 \/ c \in stopped

\* A child whose row has ended, or that will be ended, or that nothing is said of.
Covered(c) == Excused(c) \/ InCleanup(c) \/ row[c].status \in Terminal

\* A row and its task are in step.
InStep(c) ==
    \/ row[c].status = "absent" /\ task[c].pc = "none"
    \/ row[c].status = "queued" /\ task[c].pc \in {"none", "created"}
    \/ row[c].status = "running" /\ task[c].pc \in {"working", "ending", "committing"}
    \/ row[c].status = "retry_wait" /\ task[c].pc = "sleeping"

TaskTrue(c) ==
    /\ Covered(c) \/ InStep(c) \/ ~up
    /\ task[c].signalled => Covered(c)
    /\ task[c].pc \in {"ending", "committing"} => task[c].end # "none"
    /\ task[c].round # 0 => c \in Planned

TasksTrue ==
    /\ \A c \in Children : TaskTrue(c)
    /\ parent.pc = "gather" => \A c \in Awaited : task[c].pc # "none"

\* What a child has frozen is its report.
FrozenTask(c) ==
    /\ task[c].pc = "working" => ~row[c].frozen
    /\ row[c].frozen /\ task[c].pc \in {"ending", "committing"} /\ task[c].end = "failed" => refusals > 0

FrozenTrue == \A c \in Children : FrozenTask(c)

\* Nothing has happened that may change the order of the ends.
Calm == crashes = 0 /\ refusals = 0 /\ stopped = {}

\* A child that ends by itself has done so, or will not.
Settled(c) == row[c].status \in Terminal \/ (~AtWork(c) /\ InCleanup(c))

TurnsTrue ==
    Calm =>
      /\ \A c \in Planned : AtWork(c) => task[c].round # 0
      /\ \A e \in turn : Settled(e[2])
      /\ \A c \in Planned : task[c].pc = "committing" /\ c # 1 => <<task[c].round, c - 1>> \in turn
      /\ \A c \in Planned : row[c].status \in {"completed", "failed"} /\ c # 1 => Settled(c - 1)

\* Somebody takes care of the children that are active.
Cares(q) ==
    /\ request[q].child = None
    /\ \/ request[q].pc \in {"terminate", "list"}
       \/ request[q].pc = "sweep" /\ ActiveChildren \subseteq sweep[q].todo

Handled == ActiveChildren = {} \/ \E q \in Requests : Cares(q)

Stops(q) == request[q].pc = "terminate" /\ request[q].child = None

SweptByParent == parent.pc = "sweep" /\ ActiveChildren \subseteq sweep[Parent].todo

HandedNow ==
    /\ \A q \in Requests : Stops(q) => parent.signalled \/ parent.pc = "none"
    /\ parent.signalled =>
         (\E q \in Requests : Stops(q)) \/ (parent.status = "over" /\ Handled)
    /\ parent.status = "over" =>
         /\ parent.signalled \/ parent.pc \in {"none", "list", "sweep"}
         /\ Handled \/ parent.pc = "list" \/ SweptByParent

Handed == up /\ ~gaveUp => HandedNow

Inv ==
    /\ Types /\ Delegation /\ Down /\ SweepsTrue /\ TasksTrue /\ FrozenTrue /\ TurnsTrue /\ Handed
    /\ OneProjection /\ ReportsTrue /\ FrozenCounts /\ OrderKept

-----------------------------------------------------------------------------
(* What the constants and the operators of the model are.                  *)

\* The bounds of a behaviour are numbers, and its delegation has the first of
\* the assignments.
LEMMA Numbers ==
    ASSUME setup \in Setups
    PROVE  /\ setup.planned \in Nat /\ setup.rounds \in Nat /\ setup.retries \in Nat
           /\ Planned \subseteq Assignments /\ 1 \in Planned
           /\ \A c \in Planned : c \in Nat /\ (c # 1 => c - 1 \in Planned)
           /\ Planned \cap Spawned = {}
<1>1. IsFiniteSet(Assignments) BY SubagentAssumption, FS_Subset DEF Children
<1>2. Cardinality(Assignments) \in Nat BY <1>1, FS_CardinalityType
<1>3. setup \in Settings BY SubagentAssumption DEF Settings
<1>4. setup.planned \in 1 .. Cardinality(Assignments) BY <1>3, SubagentAssumption DEF Settings
<1>5. setup.rounds \in Nat /\ setup.retries \in Nat BY <1>3 DEF Settings
<1>6. Planned \subseteq Assignments BY <1>2, <1>4, SubagentAssumption DEF Planned
<1>7. 1 \in Planned /\ \A c \in Planned : c \in Nat /\ (c # 1 => c - 1 \in Planned) BY <1>2, <1>4 DEF Planned
<1>8. Planned \cap Spawned = {} BY <1>6, SubagentAssumption
<1> QED BY <1>2, <1>4, <1>5, <1>6, <1>7, <1>8

\* The first end of a child is its row's and the newest of the parent's log;
\* a later one changes nothing.
LEMMA EndEffect ==
    ASSUME Types, NEW c \in Children, NEW status \in Terminal, End(c, status)
    PROVE  /\ row' \in [Children -> Rows]
           /\ events' \in Seq(Children \X Terminal)
           /\ \A d \in Children : d # c => row'[d] = row[d]
           /\ row'[c].frozen = row[c].frozen
           /\ row[c].status \in Active =>
                row'[c].status = status /\ events' = Append(events, <<c, status>>)
           /\ row[c].status \notin Active => row' = row /\ events' = events
<1>1. CASE row[c].status \in Active
  <2>1. row' = [row EXCEPT ![c].status = status] /\ events' = Append(events, <<c, status>>) BY <1>1 DEF End
  <2>2. <<c, status>> \in Children \X Terminal OBVIOUS
  <2>3. events' \in Seq(Children \X Terminal) BY <2>1, <2>2 DEF Types
  <2> QED BY <1>1, <2>1, <2>3 DEF Types, Rows
<1>2. CASE row[c].status \notin Active BY <1>2 DEF End, Types
<1> QED BY <1>1, <1>2

\* Tasks are started for those that have none at work, and not signalled.
LEMMA StartEffect ==
    ASSUME Types, NEW C \in SUBSET Children, NEW round \in 0 .. setup.rounds
    PROVE  /\ Started(C, round) \in [Children -> Tasks]
           /\ \A c \in Children : c \in C /\ ~AtWork(c) =>
                Started(C, round)[c] = [pc |-> "created", round |-> round, end |-> "none", signalled |-> FALSE]
           /\ \A c \in Children : c \notin C \/ AtWork(c) => Started(C, round)[c] = task[c]
BY DEF Types, Tasks, Started, NoTask, Over

\* A signalled task is where it was.
LEMMA SignalEffect ==
    ASSUME Types, NEW C \in SUBSET Children
    PROVE  /\ Signalled(C) \in [Children -> Tasks]
           /\ \A c \in Children :
                /\ Signalled(C)[c].pc = task[c].pc
                /\ Signalled(C)[c].round = task[c].round
                /\ Signalled(C)[c].end = task[c].end
                /\ Signalled(C)[c].signalled => task[c].signalled \/ (c \in C /\ AtWork(c))
                /\ c \notin C => Signalled(C)[c] = task[c]
BY DEF Types, Tasks, Signalled

\* A task that is done has neither an event nor a signal.
LEMMA LeftTask ==
    ASSUME NEW how \in Over, setup.rounds \in Nat
    PROVE  /\ [NoTask EXCEPT !.pc = how] \in Tasks
           /\ [NoTask EXCEPT !.pc = how].pc = how
           /\ [NoTask EXCEPT !.pc = how].round = 0
           /\ ~[NoTask EXCEPT !.pc = how].signalled
<1>1. NoTask \in Tasks BY DEF Tasks, NoTask, Over
<1>2. NoTask.round = 0 /\ ~NoTask.signalled BY DEF NoTask
<1> QED BY <1>1, <1>2 DEF Tasks

\* A task that is done has set its event, if it has one and was ever entered.
LEMMA LeaveEffect ==
    ASSUME Types, NEW c \in Children, NEW how \in Over, Leave(c, how),
           task[c].round # 0 => c \in Planned
    PROVE  /\ task' \in [Children -> Tasks]
           /\ turn' \subseteq (1 .. setup.rounds) \X Planned
           /\ turn \subseteq turn'
           /\ \A d \in Children : d # c => task'[d] = task[d]
           /\ task'[c].pc = how /\ task'[c].round = 0 /\ ~task'[c].signalled
           /\ \A e \in turn' : e \in turn \/ e[2] = c
<1>2. setup.rounds \in Nat BY Numbers DEF Types
<1> DEFINE over == [NoTask EXCEPT !.pc = how]
<1>1. task' = [task EXCEPT ![c] = over] BY DEF Leave
<1>a. over \in Tasks /\ over.pc = how /\ over.round = 0 /\ ~over.signalled BY <1>2, LeftTask
<1> HIDE DEF over
<1>3. task' \in [Children -> Tasks] /\ task'[c].pc = how /\ task'[c].round = 0 /\ ~task'[c].signalled
  BY <1>1, <1>a DEF Types
<1>4. \A d \in Children : d # c => task'[d] = task[d] BY <1>1 DEF Types
<1>5. turn' \subseteq (1 .. setup.rounds) \X Planned /\ turn \subseteq turn' /\ \A e \in turn' : e \in turn \/ e[2] = c
  <2>1. CASE turn' = turn BY <2>1 DEF Types
  <2>2. CASE turn' = turn \cup {<<task[c].round, c>>} /\ task[c].round # 0
    <3>1. task[c].round \in 1 .. setup.rounds BY <1>2, <2>2 DEF Types, Tasks
    <3>2. <<task[c].round, c>> \in (1 .. setup.rounds) \X Planned BY <2>2, <3>1
    <3> QED BY <2>2, <3>2 DEF Types
  <2> QED BY <2>1, <2>2 DEF Leave
<1> QED BY <1>3, <1>4, <1>5

\* An executor that goes on keeps its event and its signal.
LEMMA GotoEffect ==
    ASSUME Types, NEW c \in Children, NEW pc \in {"working", "sleeping", "ending", "committing"},
           NEW end \in {"none", "completed", "failed"}, Goto(c, pc, end)
    PROVE  /\ task' \in [Children -> Tasks]
           /\ \A d \in Children : d # c => task'[d] = task[d]
           /\ task'[c].pc = pc /\ task'[c].end = end
           /\ task'[c].round = task[c].round /\ task'[c].signalled = task[c].signalled
<1> DEFINE t == [task[c] EXCEPT !.pc = pc, !.end = end]
<1>1. task[c] \in Tasks BY DEF Types
<1>2. t \in Tasks /\ t.pc = pc /\ t.end = end /\ t.round = task[c].round /\ t.signalled = task[c].signalled
  BY <1>1 DEF Tasks
<1>3. task' = [task EXCEPT ![c] = t] BY DEF Goto, Types
<1> HIDE DEF t
<1> QED BY <1>2, <1>3 DEF Types

\* Rows are created as queued.
LEMMA CreateEffect ==
    ASSUME Types, NEW C \in SUBSET Children, Created(C)
    PROVE  /\ row' \in [Children -> Rows]
           /\ \A c \in C : row'[c].status = "queued" /\ ~row'[c].frozen
           /\ \A c \in Children \ C : row'[c] = row[c]
<1>1. setup.retries \in Nat BY Numbers DEF Types
<1> DEFINE new == [NoRow EXCEPT !.status = "queued"]
<1>2. new \in Rows /\ new.status = "queued" /\ ~new.frozen
  <2>1. NoRow \in Rows /\ ~NoRow.frozen BY <1>1 DEF Rows, NoRow
  <2> QED BY <2>1 DEF Rows, Active
<1>3. row' = [c \in Children |-> IF c \in C THEN new ELSE row[c]] BY DEF Created
<1> HIDE DEF new
<1> QED BY <1>2, <1>3 DEF Types

-----------------------------------------------------------------------------
(* Types.                                                                  *)

\* What a step has to show for its types, the bounds being constant.
LEMMA TypesFrom ==
    ASSUME Types, setup' = setup,
           row' \in [Children -> Rows],
           task' \in [Children -> Tasks],
           turn' \subseteq (1 .. setup.rounds) \X Planned,
           parent' \in Parents,
           sweep' \in [Requests \cup {Parent} -> Sweeps],
           request' \in [Requests -> Asking],
           events' \in Seq(Children \X Terminal),
           told' \in [Assignments -> Active \cup Terminal \cup {"none", "absent"}],
           up' \in BOOLEAN, gaveUp' \in BOOLEAN,
           rounds' \in 0 .. setup.rounds, refusals' \in Nat, crashes' \in Nat,
           stopped' \subseteq Children
    PROVE  Types'
BY DEF Types, Rows, Tasks, Planned

\* A refused transaction counts.
LEMMA BusyCounts ==
    ASSUME Types, Busy
    PROVE  refusals' \in Nat /\ refusals' > 0
BY DEF Types, Busy

\* The steps of an executor keep the types.
LEMMA ExecutorTyped ==
    ASSUME Inv, NEW c \in Children, Executor(c)
    PROVE  Types'
<1>1. Types /\ (task[c].round # 0 => c \in Planned) BY DEF Inv, TasksTrue, TaskTrue
<1>2. task[c] \in Tasks /\ row[c] \in Rows BY <1>1 DEF Types
<1>3. setup.rounds \in Nat /\ setup.retries \in Nat BY <1>1, Numbers DEF Types
<1>4. CASE Claim(c)
  <2>1. row' \in [Children -> Rows]
    <3>1. CASE row' = [row EXCEPT ![c].status = "running"] BY <1>1, <3>1 DEF Types, Rows, Active
    <3>2. CASE row' = row BY <1>1, <3>2 DEF Types
    <3> QED BY <1>4, <3>1, <3>2 DEF Claim
  <2>2. task' \in [Children -> Tasks] /\ turn' \subseteq (1 .. setup.rounds) \X Planned
    <3>1. CASE Goto(c, "ending", "completed") /\ turn' = turn BY <1>1, <3>1, GotoEffect DEF Types
    <3>2. CASE Goto(c, "working", "none") /\ turn' = turn BY <1>1, <3>2, GotoEffect DEF Types
    <3>3. CASE Leave(c, "returned") BY <1>1, <3>3, LeaveEffect DEF Over
    <3> QED BY <1>4, <3>1, <3>2, <3>3 DEF Claim
  <2> QED BY <1>1, <1>4, <2>1, <2>2, TypesFrom DEF Claim, Types, counts
<1>5. CASE Report(c)
  <2>1. row' \in [Children -> Rows] BY <1>1, <1>5 DEF Report, Types, Rows
  <2>2. task' \in [Children -> Tasks] BY <1>1, <1>5, GotoEffect DEF Report
  <2> QED BY <1>1, <1>5, <2>1, <2>2, TypesFrom DEF Report, Types, counts
<1>6. CASE Retry(c)
  <2> DEFINE waiting == [row[c] EXCEPT !.status = "retry_wait", !.retries = @ + 1]
  <2>a. row[c].retries + 1 \in 0 .. setup.retries BY <1>2, <1>3, <1>6 DEF Retry, Rows
  <2>1. waiting \in Rows BY <1>2, <2>a DEF Rows, Active
  <2>2. row' = [row EXCEPT ![c] = waiting] BY <1>1, <1>6 DEF Retry, Types
  <2>3. row' \in [Children -> Rows]
    <3> HIDE DEF waiting
    <3> QED BY <1>1, <2>1, <2>2 DEF Types
  <2>4. task' \in [Children -> Tasks] BY <1>1, <1>6, GotoEffect DEF Retry
  <2> QED BY <1>1, <1>6, <2>3, <2>4, TypesFrom DEF Retry, Types, counts
<1>7. CASE Break(c)
  <2>1. task' \in [Children -> Tasks] BY <1>1, <1>7, GotoEffect DEF Break
  <2> QED BY <1>1, <1>7, <2>1, TypesFrom DEF Break, Types, counts
<1>8. CASE Lose(c)
  <2>1. task' \in [Children -> Tasks] /\ turn' \subseteq (1 .. setup.rounds) \X Planned
    BY <1>1, <1>8, LeaveEffect DEF Lose, Over
  <2> QED BY <1>1, <1>8, <2>1, TypesFrom DEF Lose, Types, counts
<1>9. CASE PassBarrier(c)
  <2>1. task' \in [Children -> Tasks] BY <1>1, <1>2, <1>9, GotoEffect DEF PassBarrier, Tasks
  <2> QED BY <1>1, <1>9, <2>1, TypesFrom DEF PassBarrier, Types, counts
<1>10. CASE Finalize(c)
  <2>1. task[c].end \in Terminal BY <1>2, <1>10 DEF Inv, TasksTrue, TaskTrue, Finalize, At, Tasks, Terminal
  <2>2. row' \in [Children -> Rows] /\ events' \in Seq(Children \X Terminal)
    BY <1>1, <1>10, <2>1, EndEffect DEF Finalize
  <2>3. task' \in [Children -> Tasks] /\ turn' \subseteq (1 .. setup.rounds) \X Planned
    BY <1>1, <1>10, LeaveEffect DEF Finalize, Over
  <2> QED BY <1>1, <1>10, <2>2, <2>3, TypesFrom DEF Finalize, Types, counts
<1>11. CASE Refused(c)
  <2>1. task' \in [Children -> Tasks] /\ turn' \subseteq (1 .. setup.rounds) \X Planned
    <3>1. CASE Goto(c, "committing", "failed") /\ turn' = turn BY <1>1, <3>1, GotoEffect DEF Types
    <3>2. CASE Leave(c, "raised") BY <1>1, <3>2, LeaveEffect DEF Over
    <3> QED BY <1>11, <3>1, <3>2 DEF Refused
  <2>2. refusals' \in Nat BY <1>1, <1>11, BusyCounts DEF Refused
  <2> QED BY <1>1, <1>11, <2>1, <2>2, TypesFrom DEF Refused, Types
<1>12. CASE Cancelled(c)
  <2>1. row' \in [Children -> Rows] /\ events' \in Seq(Children \X Terminal)
    <3>1. CASE UNCHANGED <<row, events>> BY <1>1, <3>1 DEF Types
    <3>2. CASE task[c].pc = "committing" /\ End(c, task[c].end)
      <4>1. task[c].end \in Terminal BY <1>2, <3>2 DEF Inv, TasksTrue, TaskTrue, Tasks, Terminal
      <4> QED BY <1>1, <3>2, <4>1, EndEffect
    <3> QED BY <1>12, <3>1, <3>2 DEF Cancelled
  <2>2. task' \in [Children -> Tasks] /\ turn' \subseteq (1 .. setup.rounds) \X Planned
    BY <1>1, <1>12, LeaveEffect DEF Cancelled, Over
  <2> QED BY <1>1, <1>12, <2>1, <2>2, TypesFrom DEF Cancelled, Types, counts
<1> QED BY <1>4, <1>5, <1>6, <1>7, <1>8, <1>9, <1>10, <1>11, <1>12 DEF Executor

\* The steps of a sweep keep the types.
LEMMA SweepTyped ==
    ASSUME Inv, NEW w \in Requests \cup {Parent}, Sweep(w)
    PROVE  Types'
<1>1. Types BY DEF Inv
<1>2. sweep[w] \in Sweeps BY <1>1 DEF Types
<1>3. CASE SweepTerminate(w)
  <2>1. PICK c \in Children :
          /\ End(c, "cancelled")
          /\ sweep' = [sweep EXCEPT ![w] =
                [todo |-> @.todo \ {c}, child |-> c,
                 step |-> IF w = Parent /\ parent.pc = "cleanup" /\ c \notin ActiveChildren
                            THEN "next" ELSE "signal"]]
    BY <1>3 DEF SweepTerminate
  <2>2. row' \in [Children -> Rows] /\ events' \in Seq(Children \X Terminal)
    BY <1>1, <2>1, EndEffect DEF Terminal
  <2>3. sweep' \in [Requests \cup {Parent} -> Sweeps] BY <1>1, <1>2, <2>1 DEF Types, Sweeps
  <2> QED BY <1>1, <1>3, <2>2, <2>3, TypesFrom DEF SweepTerminate, Types, counts
<1>4. CASE SweepSignal(w)
  <2>1. sweep[w].child \in Children BY <1>4 DEF Inv, SweepsTrue, SweepSignal, Sweeping
  <2>2. task' \in [Children -> Tasks] BY <1>1, <1>4, <2>1, SignalEffect DEF SweepSignal
  <2> DEFINE t == [sweep[w] EXCEPT !.step = "wait"]
  <2>a. sweep[w] \in Sweeps /\ sweep' = [sweep EXCEPT ![w] = t] BY <1>1, <1>4 DEF SweepSignal, Types
  <2>b. t \in Sweeps BY <2>a DEF Sweeps
  <2>3. sweep' \in [Requests \cup {Parent} -> Sweeps]
    <3> HIDE DEF t
    <3> QED BY <1>1, <2>a, <2>b DEF Types
  <2> QED BY <1>1, <1>4, <2>2, <2>3, TypesFrom DEF SweepSignal, Types, counts
<1>5. CASE SweepWaited(w)
  <2>1. sweep' \in [Requests \cup {Parent} -> Sweeps]
    <3> DEFINE waited == [sweep[w] EXCEPT !.step = "next", !.child = None]
    <3>1. waited \in Sweeps BY <1>2 DEF Sweeps
    <3>2. sweep' = [sweep EXCEPT ![w] = waited] BY <1>1, <1>5 DEF SweepWaited, Types
    <3> HIDE DEF waited
    <3> QED BY <1>1, <3>1, <3>2 DEF Types
  <2> QED BY <1>1, <1>5, <2>1, TypesFrom DEF SweepWaited, Types, counts
<1> QED BY <1>3, <1>4, <1>5 DEF Sweep

\* The steps of the parent's task keep the types.
LEMMA ParentTyped ==
    ASSUME Inv, ParentTask
    PROVE  Types'
<1>1. Types BY DEF Inv
<1>2. parent \in Parents /\ sweep[Parent] \in Sweeps BY <1>1 DEF Types
<1>3. setup.rounds \in Nat /\ Planned \subseteq Children BY <1>1, Numbers DEF Types, Children
<1>4. \A C \in SUBSET Children :
        [sweep EXCEPT ![Parent] = SweepOver(C)] \in [Requests \cup {Parent} -> Sweeps]
  BY <1>1 DEF Types, Sweeps, SweepOver
<1>5. [sweep EXCEPT ![Parent] = NoSweep] \in [Requests \cup {Parent} -> Sweeps]
  BY <1>1 DEF Types, Sweeps, NoSweep
<1>6. ActiveChildren \subseteq Children /\ Awaited \subseteq Children BY <1>3 DEF ActiveChildren, Awaited
<1>7. CASE Delegate
  <2>1. rounds' \in 0 .. setup.rounds BY <1>1, <1>3, <1>7 DEF Types, Delegate
  <2>2. parent' \in Parents BY <1>2, <1>3, <1>7 DEF Parents, Delegate
  <2> QED BY <1>1, <1>7, <2>1, <2>2, TypesFrom DEF Delegate, Types
<1>8. CASE PersistChildren
  <2>1. row' \in [Children -> Rows] BY <1>1, <1>3, <1>8, CreateEffect DEF PersistChildren
  <2>2. parent' \in Parents BY <1>2, <1>8 DEF Parents, PersistChildren, Move
  <2> QED BY <1>1, <1>8, <2>1, <2>2, TypesFrom DEF PersistChildren, Types, counts
<1>9. CASE StartChildren
  <2>1. rounds \in 1 .. setup.rounds
    BY <1>1, <1>3, <1>9 DEF Inv, Delegation, Types, StartChildren, Is
  <2>2. task' \in [Children -> Tasks]
    <3>1. Planned \ parent.seen \in SUBSET Children /\ rounds \in 0 .. setup.rounds BY <1>3, <2>1
    <3>2. Started(Planned \ parent.seen, rounds) \in [Children -> Tasks] BY <1>1, <3>1, StartEffect
    <3> QED BY <1>9, <3>2 DEF StartChildren
  <2>3. parent.seen \cap Planned = parent.seen
    BY <1>9 DEF Inv, Delegation, StartChildren, Is
  <2>4. turn' \subseteq (1 .. setup.rounds) \X Planned BY <1>1, <1>9, <2>1, <2>3 DEF StartChildren, Types
  <2>5. parent' \in Parents BY <1>2, <1>9 DEF Parents, StartChildren, Move
  <2> QED BY <1>1, <1>9, <2>2, <2>4, <2>5, TypesFrom DEF StartChildren, Types, counts
<1>10. CASE Gathered
  <2>0. \A c \in Planned : row[c].status \in Active \cup Terminal \cup {"absent"} BY <1>1, <1>3 DEF Types, Rows
  <2>1. told' \in [Assignments -> Active \cup Terminal \cup {"none", "absent"}]
    BY <1>1, <1>10, <2>0 DEF Types, Gathered
  <2>2. parent' \in Parents BY <1>2, <1>10 DEF Parents, Gathered, Move
  <2> QED BY <1>1, <1>10, <2>1, <2>2, TypesFrom DEF Gathered, Types, counts
<1>11. CASE GatherRaised
  <2>1. parent' \in Parents BY <1>2, <1>11 DEF Parents, GatherRaised, Move
  <2> QED BY <1>1, <1>11, <2>1, TypesFrom DEF GatherRaised, Types, counts
<1>12. CASE GatherCancelled
  <2>1. parent' \in Parents BY <1>2, <1>12 DEF Parents, GatherCancelled, Cleanup
  <2>2. sweep' \in [Requests \cup {Parent} -> Sweeps] BY <1>3, <1>4, <1>12 DEF GatherCancelled, Cleanup
  <2> QED BY <1>1, <1>12, <2>1, <2>2, TypesFrom DEF GatherCancelled, Types, counts
<1>13. CASE ToolTimeout
  <2>1. task' \in [Children -> Tasks] BY <1>1, <1>6, <1>13, SignalEffect DEF ToolTimeout
  <2>2. parent' \in Parents BY <1>2, <1>13 DEF Parents, ToolTimeout
  <2> QED BY <1>1, <1>13, <2>1, <2>2, TypesFrom DEF ToolTimeout, Types, counts
<1>14. CASE ToolAborted
  <2>1. parent' \in Parents BY <1>2, <1>14 DEF Parents, ToolAborted, Move
  <2> QED BY <1>1, <1>5, <1>14, <2>1, TypesFrom DEF ToolAborted, SweepEnded, Types, counts
<1>15. CASE Unwound
  <2>1. parent' \in Parents BY <1>2, <1>15 DEF Parents, Unwound, Cleanup
  <2>2. sweep' \in [Requests \cup {Parent} -> Sweeps] BY <1>3, <1>4, <1>15 DEF Unwound, Cleanup
  <2> QED BY <1>1, <1>15, <2>1, <2>2, TypesFrom DEF Unwound, Types, counts
<1>16. CASE CleanedUp
  <2>1. parent' \in Parents BY <1>2, <1>16 DEF Parents, CleanedUp, Move
  <2> QED BY <1>1, <1>5, <1>16, <2>1, TypesFrom DEF CleanedUp, SweepEnded, Types, counts
<1>17. ASSUME NEW c \in Spawned, Spawn(c) PROVE Types'
  <2>1. rounds' \in 0 .. setup.rounds BY <1>1, <1>3, <1>17 DEF Types, Spawn
  <2>2. parent' \in Parents BY <1>2, <1>17 DEF Parents, Spawn, Children
  <2> QED BY <1>1, <1>17, <2>1, <2>2, TypesFrom DEF Spawn, Types
<1>18. CASE PersistSpawned
  <2>1. row' \in [Children -> Rows]
    <3>1. CASE row' = row BY <1>1, <3>1 DEF Types
    <3>2. ASSUME NEW c \in parent.seen, Created({c}) PROVE row' \in [Children -> Rows]
      <4>1. {c} \in SUBSET Children BY <1>2 DEF Parents
      <4> QED BY <1>1, <3>2, <4>1, CreateEffect
    <3> QED BY <1>18, <3>1, <3>2 DEF PersistSpawned
  <2>2. parent' \in Parents
    <3>1. \E pc \in {"spawned", "loop"} : parent' = [parent EXCEPT !.pc = pc] BY <1>18 DEF PersistSpawned, Move
    <3> QED BY <1>2, <3>1 DEF Parents
  <2> QED BY <1>1, <1>18, <2>1, <2>2, TypesFrom DEF PersistSpawned, Types, counts
<1>19. CASE StartSpawned
  <2>1. task' \in [Children -> Tasks]
    <3>1. parent.seen \in SUBSET Children /\ 0 \in 0 .. setup.rounds BY <1>2, <1>3 DEF Parents
    <3>2. Started(parent.seen, 0) \in [Children -> Tasks] BY <1>1, <3>1, StartEffect
    <3> QED BY <1>19, <3>2 DEF StartSpawned
  <2>2. parent' \in Parents BY <1>2, <1>19 DEF Parents, StartSpawned, Move
  <2> QED BY <1>1, <1>19, <2>1, <2>2, TypesFrom DEF StartSpawned, Types, counts
<1>20. ASSUME NEW c \in Children, CancelTool(c) PROVE Types'
  <2>1. sweep' \in [Requests \cup {Parent} -> Sweeps] BY <1>4, <1>20 DEF CancelTool
  <2>2. parent' \in Parents BY <1>2, <1>20 DEF Parents, CancelTool, Move
  <2> QED BY <1>1, <1>20, <2>1, <2>2, TypesFrom DEF CancelTool, Types, counts
<1>21. CASE ToolDone
  <2>1. parent' \in Parents BY <1>2, <1>21 DEF Parents, ToolDone, Move
  <2> QED BY <1>1, <1>5, <1>21, <2>1, TypesFrom DEF ToolDone, SweepEnded, Types, counts
<1>22. CASE Finish
  <2>1. parent' \in Parents
    <3>1. CASE \E next \in {"again", "last"} :
                 parent' = [parent EXCEPT !.status = "over", !.pc = "list", !.next = next]
      BY <1>2, <3>1 DEF Parents
    <3>2. CASE Move("none") BY <1>2, <3>2 DEF Parents, Move
    <3> QED BY <1>22, <3>1, <3>2 DEF Finish
  <2> QED BY <1>1, <1>22, <2>1, TypesFrom DEF Finish, Types, counts
<1>23. CASE FinishRefused
  <2>1. parent' \in Parents BY <1>2, <1>23 DEF Parents, FinishRefused, Move
  <2>2. refusals' \in Nat BY <1>1, <1>23, BusyCounts DEF FinishRefused
  <2> QED BY <1>1, <1>23, <2>1, <2>2, TypesFrom DEF FinishRefused, Types
<1>24. CASE ListChildren
  <2>1. sweep' \in [Requests \cup {Parent} -> Sweeps] BY <1>4, <1>6, <1>24 DEF ListChildren
  <2>2. parent' \in Parents BY <1>2, <1>24 DEF Parents, ListChildren, Move
  <2> QED BY <1>1, <1>24, <2>1, <2>2, TypesFrom DEF ListChildren, Types, counts
<1>25. CASE AllSwept
  <2>1. parent' \in Parents BY <1>2, <1>25 DEF Parents, AllSwept, Move
  <2> QED BY <1>1, <1>5, <1>25, <2>1, TypesFrom DEF AllSwept, SweepEnded, Types, counts
<1>26. CASE SweepRefused
  <2>1. parent' \in Parents BY <1>2, <1>26 DEF Parents, SweepRefused, Move
  <2>2. gaveUp' \in BOOLEAN BY <1>1, <1>2, <1>26 DEF Types, Parents, SweepRefused
  <2>3. refusals' \in Nat BY <1>1, <1>26, BusyCounts DEF SweepRefused
  <2> QED BY <1>1, <1>5, <1>26, <2>1, <2>2, <2>3, TypesFrom DEF SweepRefused, SweepEnded, Types
<1>27. CASE ParentCancelled
  <2>1. parent' \in Parents BY <1>2, <1>27 DEF Parents, ParentCancelled, Move
  <2>2. row' \in [Children -> Rows] /\ events' \in Seq(Children \X Terminal)
    <3>1. CASE UNCHANGED <<row, events>> BY <1>1, <3>1 DEF Types
    <3>2. CASE /\ Created({c \in IF parent.pc = "spawn" THEN parent.seen ELSE Planned :
                         row[c].status = "absent"})
               /\ UNCHANGED events
      <4> DEFINE C == {c \in IF parent.pc = "spawn" THEN parent.seen ELSE Planned : row[c].status = "absent"}
      <4>1. C \in SUBSET Children BY <1>2, <1>3 DEF Parents
      <4>2. Created(C) BY <3>2
      <4> HIDE DEF C
      <4> QED BY <1>1, <3>2, <4>1, <4>2, CreateEffect DEF Types
    <3>3. ASSUME NEW c \in sweep[Parent].todo, End(c, "cancelled")
          PROVE  row' \in [Children -> Rows] /\ events' \in Seq(Children \X Terminal)
      <4>1. c \in Children BY <1>2 DEF Sweeps
      <4> QED BY <1>1, <3>3, <4>1, EndEffect DEF Terminal
    <3> QED BY <1>27, <3>1, <3>2, <3>3 DEF ParentCancelled
  <2> QED BY <1>1, <1>5, <1>27, <2>1, <2>2, TypesFrom DEF ParentCancelled, SweepEnded, Types, counts
<1> QED BY <1>7, <1>8, <1>9, <1>10, <1>11, <1>12, <1>13, <1>14, <1>15, <1>16, <1>17, <1>18, <1>19,
           <1>20, <1>21, <1>22, <1>23, <1>24, <1>25, <1>26, <1>27 DEF ParentTask

\* The steps of a request keep the types.
LEMMA RequestTyped ==
    ASSUME Inv, NEW q \in Requests, Request(q)
    PROVE  Types'
<1>1. Types BY DEF Inv
<1>2. parent \in Parents /\ request[q] \in Asking BY <1>1 DEF Types
<1>3. setup.rounds \in Nat /\ Planned \subseteq Children BY <1>1, Numbers DEF Types, Children
<1>4. ActiveChildren \subseteq Children /\ Awaited \subseteq Children BY <1>3 DEF ActiveChildren, Awaited
<1>5. ASSUME NEW pc \in {"idle", "signal", "terminate", "list", "sweep", "done"},
             NEW c \in Children \cup {None}, Answer(q, pc, c)
      PROVE  request' \in [Requests -> Asking]
  BY <1>1, <1>5 DEF Types, Answer, Asking
<1>6. [sweep EXCEPT ![q] = NoSweep] \in [Requests \cup {Parent} -> Sweeps]
  BY <1>1 DEF Types, Sweeps, NoSweep
<1>7. CASE CancelRun(q)
  <2>1. request' \in [Requests -> Asking]
    BY <1>4, <1>5, <1>7 DEF CancelRun
  <2> QED BY <1>1, <1>7, <2>1, TypesFrom DEF CancelRun, Types, counts
<1>8. CASE SignalRun(q)
  <2>1. request[q].child \in Children \cup {None} BY <1>2 DEF Asking
  <2>2. request' \in [Requests -> Asking] BY <1>5, <1>8, <2>1 DEF SignalRun
  <2>3. CASE request[q].child # None
    <3>1. task' \in [Children -> Tasks] BY <1>1, <1>8, <2>1, <2>3, SignalEffect DEF SignalRun
    <3>2. stopped' \subseteq Children /\ parent' = parent BY <1>1, <1>8, <2>1, <2>3 DEF SignalRun, Types
    <3> QED BY <1>1, <1>8, <2>2, <3>1, <3>2, TypesFrom DEF SignalRun, Types, counts
  <2>4. CASE request[q].child = None
    <3>1. task' \in [Children -> Tasks]
      <4>1. Signalled(Awaited) \in [Children -> Tasks] BY <1>1, <1>4, SignalEffect
      <4> QED BY <1>1, <1>8, <2>4, <4>1 DEF SignalRun, Types
    <3>2. parent' \in Parents BY <1>2, <1>8, <2>4 DEF SignalRun, Parents
    <3>3. stopped' = stopped BY <1>8, <2>4 DEF SignalRun
    <3> QED BY <1>1, <1>8, <2>2, <3>1, <3>2, <3>3, TypesFrom DEF SignalRun, Types, counts
  <2> QED BY <2>3, <2>4
<1>9. CASE TerminateRun(q)
  <2>1. request[q].child \in Children \cup {None} BY <1>2 DEF Asking
  <2>2. request' \in [Requests -> Asking] BY <1>5, <1>9 DEF TerminateRun
  <2>3. CASE request[q].child # None
    <3>1. End(request[q].child, "cancelled") /\ parent' = parent BY <1>9, <2>3 DEF TerminateRun
    <3>2. row' \in [Children -> Rows] /\ events' \in Seq(Children \X Terminal)
      BY <1>1, <2>1, <2>3, <3>1, EndEffect DEF Terminal
    <3> QED BY <1>1, <1>9, <2>2, <3>1, <3>2, TypesFrom DEF TerminateRun, Types, counts
  <2>4. CASE request[q].child = None
    <3>1. parent' \in Parents /\ UNCHANGED <<row, events>> BY <1>2, <1>9, <2>4 DEF TerminateRun, Parents
    <3> QED BY <1>1, <1>9, <2>2, <3>1, TypesFrom DEF TerminateRun, Types, counts
  <2> QED BY <2>3, <2>4
<1>10. CASE ListForRequest(q)
  <2>1. request' \in [Requests -> Asking] BY <1>5, <1>10 DEF ListForRequest
  <2>2. sweep' \in [Requests \cup {Parent} -> Sweeps]
    BY <1>1, <1>4, <1>10 DEF ListForRequest, Types, Sweeps, SweepOver
  <2> QED BY <1>1, <1>10, <2>1, <2>2, TypesFrom DEF ListForRequest, Types, counts
<1>11. CASE RequestDone(q)
  <2>1. request' \in [Requests -> Asking] BY <1>5, <1>11 DEF RequestDone
  <2> QED BY <1>1, <1>6, <1>11, <2>1, TypesFrom DEF RequestDone, SweepEnded, Types, counts
<1>12. CASE RequestRefused(q)
  <2>1. request' \in [Requests -> Asking] BY <1>5, <1>12 DEF RequestRefused
  <2>2. refusals' \in Nat BY <1>1, <1>12, BusyCounts DEF RequestRefused
  <2> QED BY <1>1, <1>6, <1>12, <2>1, <2>2, TypesFrom DEF RequestRefused, SweepEnded, Types
<1> QED BY <1>7, <1>8, <1>9, <1>10, <1>11, <1>12 DEF Request

\* The ends that the next start tells of: one for each child that was active.
LEMMA FailedEnds ==
    ASSUME NEW C \in SUBSET Children
    PROVE  LET E == {<<c, "failed">> : c \in C}
               ends == SetToSeq(E)
           IN  /\ ends \in Seq(E)
               /\ \A i, j \in DOMAIN ends : ends[i] = ends[j] => i = j
               /\ \A c \in C : \E i \in DOMAIN ends : ends[i] = <<c, "failed">>
<1> DEFINE E == {<<c, "failed">> : c \in C}
           ends == SetToSeq(E)
<1>1. IsFiniteSet(E)
  <2> DEFINE g == [c \in C |-> <<c, "failed">>]
  <2>1. IsFiniteSet(C) BY SubagentAssumption, FS_Subset
  <2>2. g \in Surjection(C, E) BY DEF Surjection
  <2> QED BY <2>1, <2>2, FS_Surjection
<1> DEFINE n == Cardinality(E)
<1>2. n \in Nat /\ ExistsBijection(1 .. n, E) BY <1>1, FS_CardinalityType
<1>3. \E f \in [1 .. n -> E] : IsInjective(f) BY <1>2 DEF ExistsBijection, Bijection, Injection
<1>4. ends \in [1 .. n -> E] /\ IsInjective(ends) BY <1>3 DEF SetToSeq
<1> HIDE DEF ends
<1>5. ends \in Surjection(1 .. n, E)
  <2>1. ends \in Injection(1 .. n, E) BY <1>4 DEF Injection
  <2>2. Cardinality(1 .. n) = n BY <1>2, FS_Interval
  <2> HIDE DEF n
  <2>3. n = Cardinality(E) BY DEF n
  <2> HIDE DEF E
  <2> QED BY <1>1, <2>1, <2>2, <2>3, FS_Injection
<1>6. ends \in Seq(E)
  <2> HIDE DEF n, E
  <2> QED BY <1>2, <1>4
<1>7. \A c \in C : \E i \in 1 .. n : ends[i] = <<c, "failed">> BY <1>5 DEF Surjection
<1>8. DOMAIN ends = 1 .. n BY <1>4
<1>9. \A i, j \in DOMAIN ends : ends[i] = ends[j] => i = j BY <1>4 DEF IsInjective
<1> QED BY <1>6, <1>7, <1>8, <1>9 DEF ends

\* A start resumes children, or fails them: their row and the parent's log agree.
LEMMA RestartEffect ==
    ASSUME Types, Restart
    PROVE  /\ row' \in [Children -> Rows]
           /\ events' \in Seq(Children \X Terminal)
           /\ \A c \in Children : row[c].status \notin Active => row'[c] = row[c]
           /\ \A c \in Children : row'[c].frozen = row[c].frozen
           /\ parent.status = "active" =>
                /\ events' = events
                /\ \A c \in Children : row[c].status \in Active => row'[c].status = "queued"
           /\ parent.status = "over" =>
                /\ \A c \in Children : row[c].status \in Active => row'[c].status = "failed"
                /\ events' = events \o SetToSeq({<<c, "failed">> : c \in ActiveChildren})
<1> DEFINE C == ActiveChildren \ Resumable
           E == {<<c, "failed">> : c \in C}
           r(c) == [row[c] EXCEPT !.status = IF c \in Resumable THEN "queued"
                                             ELSE IF c \in C THEN "failed" ELSE @]
<1>1. row' = [c \in Children |-> r(c)] BY DEF Restart
<1>2. events' = events \o SetToSeq(E) BY DEF Restart
<1>3. Resumable = IF parent.status = "active" THEN ActiveChildren ELSE {} BY DEF Resumable
<1>4. ASSUME NEW c \in Children
      PROVE  /\ r(c) \in Rows /\ r(c).frozen = row[c].frozen
             /\ r(c).status = IF c \in Resumable THEN "queued"
                              ELSE IF c \in C THEN "failed" ELSE row[c].status
             /\ c \notin ActiveChildren => r(c) = row[c]
  <2>1. row[c] \in Rows BY DEF Types
  <2> QED BY <1>3, <2>1 DEF Rows, Active, Terminal
<1> HIDE DEF r
<1>5. parent.status \in {"active", "over"} BY DEF Types, Parents
<1>6. parent.status = "active" => C = {} BY <1>3
<1>7. parent.status = "over" => C = ActiveChildren BY <1>3
<1>8. C \in SUBSET Children BY DEF ActiveChildren
<1>9. SetToSeq(E) \in Seq(E)
  <2> HIDE DEF C
  <2> QED BY <1>8, FailedEnds
<1>10. events' \in Seq(Children \X Terminal)
  <2>1. E \subseteq Children \X Terminal BY <1>8 DEF Terminal
  <2>2. SetToSeq(E) \in Seq(Children \X Terminal) BY <1>9, <2>1
  <2> HIDE DEF E
  <2> QED BY <1>2, <2>2 DEF Types
<1>11. parent.status = "active" => events' = events
  <2> SUFFICES ASSUME parent.status = "active" PROVE events' = events OBVIOUS
  <2>1. E = {} BY <1>6
  <2>2. SetToSeq(E) \in Seq({}) BY <1>9, <2>1
  <2>3. SetToSeq(E) = <<>> BY <2>2
  <2>4. events \o <<>> = events BY ConcatEmptySeq DEF Types
  <2> HIDE DEF E
  <2> QED BY <1>2, <2>3, <2>4
<1>12. parent.status = "over" => events' = events \o SetToSeq({<<c, "failed">> : c \in ActiveChildren})
  BY <1>2, <1>7
<1>13. \A c \in Children : c \in ActiveChildren <=> row[c].status \in Active BY DEF ActiveChildren
<1> HIDE DEF C, E
<1> QED BY <1>1, <1>3, <1>4, <1>6, <1>7, <1>10, <1>11, <1>12, <1>13

\* A crash and the next start keep the types.
LEMMA ProcessTyped ==
    ASSUME Inv, Process
    PROVE  Types'
<1>1. Types BY DEF Inv
<1>2. setup.rounds \in Nat BY <1>1, Numbers DEF Types
<1>3. CASE Crash
  <2>1. task' \in [Children -> Tasks] BY <1>2, <1>3 DEF Crash, Tasks, NoTask, Over
  <2>2. parent' \in Parents
    <3>1. parent.status \in {"active", "over"} BY <1>1 DEF Types, Parents
    <3>2. Loop \in Parents BY DEF Parents, Loop
    <3>3. parent' = [Loop EXCEPT !.status = parent.status, !.pc = "none"] BY <1>3 DEF Crash
    <3> QED BY <3>1, <3>2, <3>3 DEF Parents
  <2>3. sweep' \in [Requests \cup {Parent} -> Sweeps] BY <1>1, <1>3 DEF Crash, Types, Sweeps, NoSweep
  <2>4. request' \in [Requests -> Asking]
    <3>1. Idle \in Asking BY DEF Idle, Asking
    <3>2. [Idle EXCEPT !.pc = "done"] \in Asking BY <3>1 DEF Asking
    <3> QED BY <1>3, <3>1, <3>2 DEF Crash
  <2>5. turn' \subseteq (1 .. setup.rounds) \X Planned BY <1>3 DEF Crash
  <2>6. crashes' \in Nat BY <1>1, <1>3 DEF Crash, Types
  <2> QED BY <1>1, <1>3, <2>1, <2>2, <2>3, <2>4, <2>5, <2>6, TypesFrom DEF Crash, Types
<1>4. CASE Restart
  <2>1. row' \in [Children -> Rows] /\ events' \in Seq(Children \X Terminal) BY <1>1, <1>4, RestartEffect
  <2>2. task' \in [Children -> Tasks]
    <3>1. Resumable \in SUBSET Children /\ 0 \in 0 .. setup.rounds BY <1>2 DEF Resumable, ActiveChildren
    <3>2. Started(Resumable, 0) \in [Children -> Tasks] BY <1>1, <3>1, StartEffect
    <3> QED BY <1>4, <3>2 DEF Restart
  <2>3. parent' \in Parents
    <3>1. Loop \in Parents BY DEF Parents, Loop
    <3> QED BY <1>1, <1>4, <3>1 DEF Restart, Types
  <2> QED BY <1>1, <1>4, <2>1, <2>2, <2>3, TypesFrom DEF Restart, Types, counts
<1> QED BY <1>3, <1>4 DEF Process

-----------------------------------------------------------------------------
(* What each kind of step does to the rows and the tasks.                  *)

\* A row that has ended stays, and no row goes.
RowsStay ==
    \A c \in Children :
        /\ row[c].status \in Terminal => row'[c] = row[c]
        /\ row[c].status # "absent" => row'[c].status # "absent"

NoneCreated == \A c \in Children : row[c].status = "absent" => row'[c] = row[c]

\* At most one child is cancelled.
Cancels == UNCHANGED <<row, events>> \/ \E c \in Children : End(c, "cancelled")

\* A cancellation changes no row that has ended, and creates none.
LEMMA CancelsStay ==
    ASSUME Types, Cancels
    PROVE  RowsStay /\ NoneCreated
<1>1. CASE UNCHANGED <<row, events>> BY <1>1 DEF RowsStay, NoneCreated
<1>2. ASSUME NEW c \in Children, End(c, "cancelled") PROVE RowsStay /\ NoneCreated
  BY <1>2, EndEffect DEF RowsStay, NoneCreated, Terminal, Active
<1> QED BY <1>1, <1>2 DEF Cancels

\* The executor of a child acts on it alone, while its task is at work.
LEMMA ExecutorEffect ==
    ASSUME Inv, NEW c \in Children, Executor(c)
    PROVE  /\ up /\ AtWork(c)
           /\ UNCHANGED <<parent, sweep, request, told, up, rounds, crashes, setup, stopped, gaveUp>>
           /\ refusals' \in Nat /\ refusals' >= refusals
           /\ \A d \in Children : d # c => row'[d] = row[d] /\ task'[d] = task[d]
           /\ turn \subseteq turn' /\ \A e \in turn' : e \in turn \/ e[2] = c
           /\ RowsStay /\ NoneCreated
<1>1. Types /\ (task[c].round # 0 => c \in Planned) BY DEF Inv, TasksTrue, TaskTrue
<1>2. task[c] \in Tasks /\ row[c] \in Rows BY <1>1 DEF Types
<1>3. ASSUME NEW pc \in {"working", "sleeping", "ending", "committing"},
             NEW end \in {"none", "completed", "failed"}, Goto(c, pc, end)
      PROVE  \A d \in Children : d # c => task'[d] = task[d]
  BY <1>1, <1>3, GotoEffect
<1>4. ASSUME NEW how \in {"returned", "raised", "cancelled"}, Leave(c, how)
      PROVE  /\ \A d \in Children : d # c => task'[d] = task[d]
             /\ turn \subseteq turn' /\ \A e \in turn' : e \in turn \/ e[2] = c
  BY <1>1, <1>4, LeaveEffect DEF Over
<1>5. ASSUME End(c, task[c].end), task[c].pc = "committing"
      PROVE  /\ \A d \in Children : d # c => row'[d] = row[d]
             /\ RowsStay /\ NoneCreated
  <2>1. task[c].end \in Terminal BY <1>2, <1>5 DEF Inv, TasksTrue, TaskTrue, Tasks, Terminal
  <2> QED BY <1>1, <1>5, <2>1, EndEffect DEF RowsStay, NoneCreated, Terminal, Active
<1>6. row' = row => RowsStay /\ NoneCreated BY DEF RowsStay, NoneCreated
<1>7. ASSUME row[c].status \in Active, \A d \in Children : d # c => row'[d] = row[d],
             row'[c].status \in Active
      PROVE  RowsStay /\ NoneCreated
  BY <1>7 DEF RowsStay, NoneCreated, Active, Terminal
<1>8. refusals \in Nat BY <1>1 DEF Types
<1>9. CASE Claim(c)
  <2>1. CASE row[c].status \in Active /\ row' = [row EXCEPT ![c].status = "running"]
    <3>1. row'[c].status = "running" /\ \A d \in Children : d # c => row'[d] = row[d] BY <1>1, <2>1 DEF Types, Rows
    <3>2. RowsStay /\ NoneCreated BY <1>7, <2>1, <3>1 DEF Active
    <3>3. \A d \in Children : d # c => task'[d] = task[d]
      <4>1. CASE Leave(c, "returned") BY <1>4, <4>1
      <4>2. CASE Goto(c, "ending", "completed") BY <1>3, <4>2
      <4>3. CASE Goto(c, "working", "none") BY <1>3, <4>3
      <4> QED BY <1>9, <4>1, <4>2, <4>3 DEF Claim
    <3>4. turn \subseteq turn' /\ \A e \in turn' : e \in turn \/ e[2] = c
      <4>1. CASE turn' = turn BY <4>1
      <4>2. CASE Leave(c, "returned") BY <1>4, <4>2
      <4> QED BY <1>9, <4>1, <4>2 DEF Claim
    <3> QED BY <1>8, <1>9, <3>1, <3>2, <3>3, <3>4 DEF Claim, At, AtWork, Over, counts
  <2>2. CASE row' = row /\ Leave(c, "returned")
    BY <1>4, <1>6, <1>8, <1>9, <2>2 DEF Claim, At, AtWork, Over, counts
  <2> QED BY <1>9, <2>1, <2>2 DEF Claim
<1>10. CASE Report(c)
  <2>1. row'[c].status = row[c].status /\ \A d \in Children : d # c => row'[d] = row[d]
    BY <1>1, <1>10 DEF Report, Types, Rows
  <2>2. RowsStay /\ NoneCreated BY <1>7, <1>10, <2>1 DEF Report, Active
  <2> QED BY <1>3, <1>8, <1>10, <2>1, <2>2 DEF Report, At, AtWork, Over, counts
<1>11. CASE Retry(c)
  <2>1. row'[c].status = "retry_wait" /\ \A d \in Children : d # c => row'[d] = row[d]
    BY <1>1, <1>11 DEF Retry, Types, Rows
  <2>2. RowsStay /\ NoneCreated BY <1>7, <1>11, <2>1 DEF Retry, Active
  <2>3. Goto(c, "sleeping", "none") BY <1>11 DEF Retry
  <2>4. \A d \in Children : d # c => task'[d] = task[d] BY <1>3, <2>3
  <2>5. up /\ AtWork(c) BY <1>11 DEF Retry, At, AtWork, Over
  <2>6. UNCHANGED <<parent, sweep, request, told, up, rounds, crashes, setup, stopped, gaveUp>>
    BY <1>11 DEF Retry, counts
  <2>7. turn' = turn /\ refusals' = refusals BY <1>11 DEF Retry, counts
  <2> QED BY <1>8, <2>1, <2>2, <2>4, <2>5, <2>6, <2>7
<1>12. CASE Break(c) BY <1>3, <1>6, <1>8, <1>12 DEF Break, At, AtWork, Over, counts
<1>13. CASE Lose(c) BY <1>4, <1>6, <1>8, <1>13 DEF Lose, At, AtWork, Over, counts
<1>14. CASE PassBarrier(c) BY <1>2, <1>3, <1>6, <1>8, <1>14 DEF PassBarrier, At, AtWork, Over, counts, Tasks
<1>15. CASE Finalize(c) BY <1>4, <1>5, <1>8, <1>15 DEF Finalize, At, AtWork, Over, counts
<1>16. CASE Refused(c)
  <2>1. refusals' \in Nat /\ refusals' >= refusals BY <1>8, <1>16 DEF Refused, Busy
  <2>2. CASE Goto(c, "committing", "failed") /\ At(c, "committing") /\ turn' = turn
    BY <1>3, <1>6, <1>16, <2>1, <2>2 DEF Refused, At, AtWork, Over
  <2>3. CASE /\ \/ At(c, "created") \/ At(c, "sleeping") \/ At(c, "working")
                \/ At(c, "committing") /\ task[c].end = "failed"
             /\ Leave(c, "raised")
    BY <1>4, <1>6, <1>16, <2>1, <2>3 DEF Refused, At, AtWork, Over
  <2> QED BY <1>16, <2>2, <2>3 DEF Refused
<1>17. CASE Cancelled(c)
  <2>1. (\A d \in Children : d # c => row'[d] = row[d]) /\ RowsStay /\ NoneCreated
    <3>1. CASE UNCHANGED <<row, events>> BY <1>6, <3>1
    <3>2. CASE task[c].pc = "committing" /\ End(c, task[c].end) BY <1>5, <3>2
    <3> QED BY <1>17, <3>1, <3>2 DEF Cancelled
  <2> QED BY <1>4, <1>8, <1>17, <2>1 DEF Cancelled, counts
<1> QED BY <1>9, <1>10, <1>11, <1>12, <1>13, <1>14, <1>15, <1>16, <1>17 DEF Executor

\* Rows may be created: none of them was there.
Creates(C) ==
    /\ Created(C) /\ \A c \in C : row[c].status = "absent"
    /\ events' = events

\* New rows are queued, and the others stay as they are.
LEMMA CreatesStay ==
    ASSUME Types, NEW C \in SUBSET Children, Creates(C)
    PROVE  /\ RowsStay
           /\ \A c \in C : row'[c].status = "queued" /\ ~row'[c].frozen
           /\ \A c \in Children \ C : row'[c] = row[c]
<1>1. /\ \A c \in C : row'[c].status = "queued" /\ ~row'[c].frozen
      /\ \A c \in Children \ C : row'[c] = row[c]
  BY CreateEffect DEF Creates
<1>2. RowsStay
  <2> SUFFICES ASSUME NEW c \in Children
               PROVE  /\ row[c].status \in Terminal => row'[c] = row[c]
                      /\ row[c].status # "absent" => row'[c].status # "absent"
    BY DEF RowsStay
  <2>1. CASE c \in C BY <1>1, <2>1 DEF Creates, Terminal
  <2>2. CASE c \notin C BY <1>1, <2>2
  <2> QED BY <2>1, <2>2
<1> QED BY <1>1, <1>2

\* A sweep ends one child after the other, and signals its task when its row is
\* terminal.
LEMMA SweepEffect ==
    ASSUME Inv, NEW w \in Requests \cup {Parent}, Sweep(w)
    PROVE  /\ up /\ UNCHANGED <<turn, parent, request, told, up, counts, stopped, gaveUp>>
           /\ Cancels /\ RowsStay /\ NoneCreated
           /\ \A v \in Requests \cup {Parent} : v # w => sweep'[v] = sweep[v]
           /\ sweep'[w].todo \subseteq sweep[w].todo
           /\ \A c \in sweep[w].todo \ sweep'[w].todo :
                row'[c].status \notin Active
           /\ sweep'[w].step = "signal" =>
                sweep'[w].child \in Children /\ row'[sweep'[w].child].status \in Terminal
           /\ \/ task' = task
              \/ \E c \in Children : row[c].status \in Terminal /\ task' = Signalled({c})
<1>1. Types BY DEF Inv
<1>2. sweep[w] \in Sweeps BY <1>1 DEF Types
<1>3. Cancels => RowsStay /\ NoneCreated BY <1>1, CancelsStay
<1>4. CASE SweepTerminate(w)
  <2> DEFINE step(c) == IF w = Parent /\ parent.pc = "cleanup" /\ c \notin ActiveChildren THEN "next" ELSE "signal"
             next(c) == [todo |-> sweep[w].todo \ {c}, child |-> c, step |-> step(c)]
  <2>1. PICK c \in Children :
          /\ c \in sweep[w].todo
          /\ End(c, "cancelled")
          /\ sweep' = [sweep EXCEPT ![w] = next(c)]
    BY <1>4 DEF SweepTerminate, NextChild
  <2>2. sweep'[w].todo = sweep[w].todo \ {c} /\ sweep'[w].child = c /\ sweep'[w].step = step(c)
    BY <1>1, <2>1 DEF Types
  <2>3. \A v \in Requests \cup {Parent} : v # w => sweep'[v] = sweep[v] BY <1>1, <2>1 DEF Types
  <2>4. row'[c].status \notin Active
    BY <1>1, <2>1, EndEffect DEF Terminal, Active
  <2>5. step(c) = "signal" => row'[c].status \in Terminal
    <3> HIDE DEF step
    <3>1. row[c].status # "absent" BY <2>1 DEF Inv, SweepsTrue
    <3>2. row'[c].status # "absent" BY <1>3, <2>1, <3>1 DEF Cancels, RowsStay
    <3>3. row'[c] \in Rows BY <1>1, <2>1, EndEffect DEF Terminal
    <3> QED BY <2>4, <3>2, <3>3 DEF Rows
  <2> HIDE DEF step, next
  <2>6. Cancels BY <2>1 DEF Cancels
  <2>7. up /\ UNCHANGED <<turn, parent, request, told, up, counts, stopped, gaveUp, task>>
    BY <1>4 DEF SweepTerminate, Sweeping
  <2> QED BY <1>3, <2>1, <2>2, <2>3, <2>4, <2>5, <2>6, <2>7
<1>5. CASE SweepSignal(w)
  <2>1. sweep[w].child \in Children /\ row[sweep[w].child].status \in Terminal
    BY <1>5 DEF Inv, SweepsTrue, SweepSignal, Sweeping
  <2>2. sweep'[w].todo = sweep[w].todo /\ sweep'[w].step = "wait" BY <1>1, <1>2, <1>5 DEF SweepSignal, Types, Sweeps
  <2>3. \A v \in Requests \cup {Parent} : v # w => sweep'[v] = sweep[v] BY <1>1, <1>5 DEF SweepSignal, Types
  <2>4. up /\ UNCHANGED <<turn, parent, request, told, up, counts, stopped, gaveUp, row, events>>
    BY <1>5 DEF SweepSignal, Sweeping
  <2>5. Cancels BY <2>4 DEF Cancels
  <2> QED BY <1>3, <1>5, <2>1, <2>2, <2>3, <2>4, <2>5 DEF SweepSignal
<1>6. CASE SweepWaited(w)
  <2>1. sweep'[w].todo = sweep[w].todo /\ sweep'[w].step = "next" BY <1>1, <1>2, <1>6 DEF SweepWaited, Types, Sweeps
  <2>2. \A v \in Requests \cup {Parent} : v # w => sweep'[v] = sweep[v] BY <1>1, <1>6 DEF SweepWaited, Types
  <2>3. up /\ UNCHANGED <<turn, parent, request, told, up, counts, stopped, gaveUp, row, task, events>>
    BY <1>6 DEF SweepWaited, Sweeping
  <2>4. Cancels BY <2>3 DEF Cancels
  <2> QED BY <1>3, <2>1, <2>2, <2>3, <2>4
<1> QED BY <1>4, <1>5, <1>6 DEF Sweep

\* The parent creates children while it is active, or cancels one.
LEMMA ParentEffect ==
    ASSUME Inv, ParentTask
    PROVE  /\ up /\ UNCHANGED <<request, up, crashes, setup, stopped>>
           /\ refusals' \in Nat /\ refusals' >= refusals
           /\ gaveUp => gaveUp'
           /\ RowsStay
           /\ \/ Cancels
              \/ /\ PersistChildren \/ PersistSpawned \/ ParentCancelled
                 /\ ~gaveUp => parent.status = "active"
                 /\ \E C \in SUBSET Children : Creates(C)
<1>1. Types /\ Delegation BY DEF Inv
<1>2. Planned \subseteq Children BY <1>1, Numbers DEF Types, Children
<1>3. parent \in Parents /\ sweep[Parent] \in Sweeps BY <1>1 DEF Types
<1>4. refusals \in Nat BY <1>1 DEF Types
<1>5. Cancels => RowsStay BY <1>1, CancelsStay
<1>6. UNCHANGED <<row, events>> => Cancels BY DEF Cancels
<1>7. \A C \in SUBSET Children : Creates(C) => RowsStay BY <1>1, CreatesStay
<1>8. up /\ ~gaveUp /\ ~parent.signalled /\ parent.pc \in {"persist", "spawn"} => parent.status = "active"
  BY <1>3 DEF Inv, Handed, HandedNow, Parents
<1>9. CASE PersistChildren
  <2>1. Creates(Planned) BY <1>1, <1>9 DEF PersistChildren, Is, Creates, Delegation
  <2> QED BY <1>2, <1>4, <1>7, <1>8, <1>9, <2>1 DEF PersistChildren, Is, counts
<1>10. CASE PersistSpawned
  <2>1. CASE UNCHANGED <<row, events>> BY <1>4, <1>5, <1>6, <1>10, <2>1 DEF PersistSpawned, Is, counts
  <2>2. ASSUME NEW c \in parent.seen, row[c].status = "absent", Created({c}) PROVE \E C \in SUBSET Children : Creates(C)
    <3>1. c \in Children BY <1>3 DEF Parents
    <3>2. Creates({c}) BY <1>10, <2>2 DEF PersistSpawned, Creates
    <3> QED BY <3>1, <3>2
  <2>3. UNCHANGED <<row, events>> \/ \E C \in SUBSET Children : Creates(C) BY <1>10, <2>2 DEF PersistSpawned
  <2>4. CASE \E C \in SUBSET Children : Creates(C)
    <3>1. up /\ UNCHANGED <<request, up, counts, stopped, gaveUp>> /\ (~gaveUp => parent.status = "active")
      BY <1>8, <1>10 DEF PersistSpawned, Is
    <3>2. RowsStay BY <1>7, <2>4
    <3> QED BY <1>4, <1>10, <2>4, <3>1, <3>2 DEF counts
  <2> QED BY <2>1, <2>3, <2>4
<1>11. CASE ParentCancelled
  <2>1. up /\ UNCHANGED <<request, up, counts, stopped, gaveUp>> BY <1>11 DEF ParentCancelled
  <2>2. Cancels \/ (parent.status = "active" /\ \E C \in SUBSET Children : Creates(C))
    <3>1. CASE UNCHANGED <<row, events>> BY <1>6, <3>1
    <3>2. CASE /\ parent.status = "active"
               /\ Created({c \in IF parent.pc = "spawn" THEN parent.seen ELSE Planned : row[c].status = "absent"})
               /\ UNCHANGED events
      <4> DEFINE C == {c \in IF parent.pc = "spawn" THEN parent.seen ELSE Planned : row[c].status = "absent"}
      <4>1. C \in SUBSET Children BY <1>2, <1>3 DEF Parents
      <4>2. \A c \in C : row[c].status = "absent" OBVIOUS
      <4>3. Created(C) BY <3>2
      <4> HIDE DEF C
      <4>4. Creates(C) BY <3>2, <4>2, <4>3 DEF Creates
      <4> QED BY <3>2, <4>1, <4>4
    <3>3. ASSUME NEW c \in sweep[Parent].todo, End(c, "cancelled") PROVE Cancels
      <4>1. c \in Children BY <1>3 DEF Sweeps
      <4> QED BY <3>3, <4>1 DEF Cancels
    <3> QED BY <1>11, <3>1, <3>2, <3>3 DEF ParentCancelled
  <2>3. RowsStay BY <1>5, <1>7, <2>2
  <2> QED BY <1>4, <1>11, <2>1, <2>2, <2>3 DEF counts
<1>12. CASE ~(PersistChildren \/ PersistSpawned \/ ParentCancelled)
  <2>1. UNCHANGED <<row, events>>
    BY <1>12 DEF ParentTask, Delegate, StartChildren, Gathered, GatherRaised, GatherCancelled, ToolTimeout,
        ToolAborted, Unwound, CleanedUp, Spawn, StartSpawned, CancelTool, ToolDone, Finish, FinishRefused,
        ListChildren, AllSwept, SweepRefused
  <2>a. up
    BY <1>12 DEF ParentTask, Delegate, StartChildren, Gathered, GatherRaised, GatherCancelled, ToolTimeout,
        ToolAborted, Unwound, CleanedUp, Spawn, StartSpawned, CancelTool, ToolDone, Finish, FinishRefused,
        ListChildren, AllSwept, SweepRefused, Is, Swept, Sweeping
  <2>2. UNCHANGED <<request, up, crashes, setup, stopped>>
    BY <1>12 DEF ParentTask, Delegate, StartChildren, Gathered, GatherRaised, GatherCancelled, ToolTimeout,
        ToolAborted, Unwound, CleanedUp, Spawn, StartSpawned, CancelTool, ToolDone, Finish, FinishRefused,
        ListChildren, AllSwept, SweepRefused, counts
  <2>3. (gaveUp => gaveUp') /\ (refusals' = refusals \/ Busy)
    <3>1. CASE SweepRefused
      <4>1. Busy BY <3>1 DEF SweepRefused
      <4>2. gaveUp \in BOOLEAN BY <1>1 DEF Types
      <4>3. gaveUp => gaveUp' BY <3>1, <4>2 DEF SweepRefused
      <4> QED BY <4>1, <4>3
    <3>2. CASE FinishRefused BY <3>2 DEF FinishRefused
    <3>3. CASE ~(SweepRefused \/ FinishRefused)
      <4>1. gaveUp' = gaveUp /\ refusals' = refusals
        BY <1>12, <3>3 DEF ParentTask, Delegate, StartChildren, Gathered, GatherRaised, GatherCancelled, ToolTimeout,
            ToolAborted, Unwound, CleanedUp, Spawn, StartSpawned, CancelTool, ToolDone, Finish, ListChildren, AllSwept, counts
      <4> QED BY <4>1
    <3> QED BY <3>1, <3>2, <3>3
  <2>4. refusals' \in Nat /\ refusals' >= refusals BY <1>4, <2>3 DEF Busy
  <2> QED BY <1>5, <1>6, <2>a, <2>1, <2>2, <2>3, <2>4
<1> QED BY <1>9, <1>10, <1>11, <1>12

\* A request cancels at most one child at a time, and leaves other requests
\* and other sweeps alone.
LEMMA RequestEffect ==
    ASSUME Inv, NEW q \in Requests, Request(q)
    PROVE  /\ up /\ UNCHANGED <<turn, told, up, rounds, crashes, setup>>
           /\ refusals' \in Nat /\ refusals' >= refusals
           /\ stopped \subseteq stopped' /\ (gaveUp => gaveUp')
           /\ Cancels /\ RowsStay /\ NoneCreated
           /\ \A v \in Requests : v # q => request'[v] = request[v]
           /\ \A v \in Requests \cup {Parent} : v # q => sweep'[v] = sweep[v]
<1>1. Types BY DEF Inv
<1>2. request[q] \in Asking /\ refusals \in Nat BY <1>1 DEF Types
<1>3. Cancels
  <2>1. CASE TerminateRun(q) /\ request[q].child # None
    BY <1>2, <2>1 DEF TerminateRun, Asking, Cancels
  <2>2. CASE ~(TerminateRun(q) /\ request[q].child # None)
    BY <2>2 DEF Request, CancelRun, SignalRun, TerminateRun, ListForRequest, RequestDone, RequestRefused, Cancels
  <2> QED BY <2>1, <2>2
<1>4. \A v \in Requests : v # q => request'[v] = request[v]
  <2>1. \E pc, c : Answer(q, pc, c)
    BY DEF Request, CancelRun, SignalRun, TerminateRun, ListForRequest, RequestDone, RequestRefused
  <2> QED BY <1>1, <2>1 DEF Answer, Types
<1>5. \A v \in Requests \cup {Parent} : v # q => sweep'[v] = sweep[v]
  <2>1. sweep' = sweep \/ SweepEnded(q) \/ sweep' = [sweep EXCEPT ![q] = SweepOver(ActiveChildren)]
    BY DEF Request, CancelRun, SignalRun, TerminateRun, ListForRequest, RequestDone, RequestRefused
  <2> QED BY <1>1, <2>1 DEF SweepEnded, Types
<1>6. up /\ UNCHANGED <<turn, told, up, rounds, crashes, setup>>
  BY DEF Request, CancelRun, SignalRun, TerminateRun, ListForRequest, RequestDone, RequestRefused, Asks, counts
<1>7. stopped \subseteq stopped' /\ (gaveUp => gaveUp') /\ (refusals' = refusals \/ Busy)
  BY DEF Request, CancelRun, SignalRun, TerminateRun, ListForRequest, RequestDone, RequestRefused, counts
<1>8. refusals' \in Nat /\ refusals' >= refusals BY <1>2, <1>7 DEF Busy
<1>9. RowsStay /\ NoneCreated BY <1>1, <1>3, CancelsStay
<1> QED BY <1>3, <1>4, <1>5, <1>6, <1>7, <1>8, <1>9

\* Of a crash only the rows stay; a start after it changes those that were active.
LEMMA ProcessEffect ==
    ASSUME Inv, Process
    PROVE  /\ UNCHANGED <<told, rounds, refusals, setup, stopped>>
           /\ parent'.status = parent.status /\ parent'.pc \in {"none", "loop"} /\ ~parent'.signalled
           /\ RowsStay /\ NoneCreated
           /\ crashes' \in Nat /\ crashes' > 0
<1>1. Types BY DEF Inv
<1>2. parent \in Parents /\ crashes \in Nat BY <1>1 DEF Types
<1>3. CASE Crash
  <2>1. Loop \in Parents /\ ~Loop.signalled BY DEF Parents, Loop
  <2>2. parent' = [Loop EXCEPT !.status = parent.status, !.pc = "none"] BY <1>3 DEF Crash
  <2>3. parent'.status = parent.status /\ parent'.pc = "none" /\ ~parent'.signalled BY <2>1, <2>2 DEF Parents
  <2>4. RowsStay /\ NoneCreated BY <1>3 DEF Crash, RowsStay, NoneCreated
  <2>5. crashes' \in Nat /\ crashes' > 0 BY <1>2, <1>3 DEF Crash
  <2>6. UNCHANGED <<told, rounds, refusals, setup, stopped>> BY <1>3 DEF Crash
  <2> QED BY <2>3, <2>4, <2>5, <2>6
<1>4. CASE Restart
  <2>1. ~up /\ crashes > 0 /\ parent.pc = "none" /\ ~parent.signalled BY <1>4 DEF Restart, Inv, Down
  <2>2. parent'.status = parent.status /\ parent'.pc \in {"none", "loop"} /\ ~parent'.signalled
    <3>1. Loop.status = "active" /\ Loop.pc = "loop" /\ ~Loop.signalled BY DEF Loop
    <3>2. parent' = IF parent.status = "active" THEN Loop ELSE parent BY <1>4 DEF Restart
    <3> QED BY <2>1, <3>1, <3>2
  <2>3. RowsStay /\ NoneCreated
    <3>1. \A c \in Children : row[c].status \notin Active => row'[c] = row[c] BY <1>1, <1>4, RestartEffect
    <3>2. \A c \in Children : row[c].status \in Active => row'[c].status \in {"queued", "failed"}
      BY <1>1, <1>2, <1>4, RestartEffect DEF Parents
    <3> QED BY <3>1, <3>2 DEF RowsStay, NoneCreated, Active, Terminal
  <2>4. UNCHANGED <<told, rounds, refusals, setup, stopped, crashes>> BY <1>4 DEF Restart, counts
  <2> QED BY <1>2, <2>1, <2>2, <2>3, <2>4
<1> QED BY <1>3, <1>4 DEF Process

\* The bounds of a behaviour are constant.
LEMMA SetupStays ==
    ASSUME Inv, Next
    PROVE  setup' = setup
BY ExecutorEffect, SweepEffect, ParentEffect, RequestEffect, ProcessEffect DEF Next, counts

-----------------------------------------------------------------------------
(* The delegation.                                                         *)

\* Between its tools, and in those that wait for one child, the parent knows
\* nothing of the delegation; in the delegation it goes from one step to the
\* next.
LEMMA DelegationFrame ==
    ASSUME Delegation, RowsStay, NoneCreated, UNCHANGED <<setup, rounds>>, Planned \subseteq Children,
           \/ parent'.pc \in {"none", "loop", "tool", "list", "sweep"}
           \/ /\ parent'.seen = parent.seen /\ parent.seen \subseteq Children
              /\ \/ parent'.pc = parent.pc
                 \/ parent.pc = "start" /\ parent'.pc = "gather"
                 \/ parent.pc \in {"gather", "unwinding"} /\ parent'.pc \in {"unwinding", "cleanup"}
    PROVE  Delegation'
<1>1. Planned' = Planned BY DEF Planned
<1>2. \A c, d \in Planned : row'[c].status = "absent" => row'[d].status = "absent"
  BY DEF Delegation, RowsStay, NoneCreated
<1>3. CASE parent'.pc \in {"none", "loop", "tool", "list", "sweep"} BY <1>1, <1>2, <1>3 DEF Delegation
<1>4. CASE /\ parent'.seen = parent.seen /\ parent.seen \subseteq Children
           /\ \/ parent'.pc = parent.pc
              \/ parent.pc = "start" /\ parent'.pc = "gather"
              \/ parent.pc \in {"gather", "unwinding"} /\ parent'.pc \in {"unwinding", "cleanup"}
  <2>1. parent'.pc = "persist" => \A c \in Planned : row'[c].status = "absent"
    BY <1>4 DEF Delegation, NoneCreated
  <2>2. parent'.pc \in {"start", "gather", "unwinding", "cleanup"} => \A c \in Planned : row'[c].status # "absent"
    BY <1>4 DEF Delegation, RowsStay
  <2>3. parent'.pc \in {"persist", "start", "gather", "unwinding"} =>
           rounds > 0 /\ \A c \in parent.seen : c \in Planned /\ row'[c].status \in Terminal
    BY <1>4 DEF Delegation, RowsStay
  <2>4. parent'.pc = "spawned" => \A c \in parent.seen : row'[c].status # "absent"
    BY <1>4 DEF Delegation, RowsStay
  <2>5. parent'.pc \in {"spawn", "spawned"} => \E c \in Spawned : parent.seen = {c} BY <1>4 DEF Delegation
  <2> QED BY <1>1, <1>2, <1>4, <2>1, <2>2, <2>3, <2>4, <2>5 DEF Delegation
<1> QED BY <1>3, <1>4

\* The delegation has all of its children or none, also after the step.
LEMMA DelegationKept ==
    ASSUME Inv, Next
    PROVE  Delegation'
<1>1. Types /\ Delegation BY DEF Inv
<1>2. Planned \subseteq Children /\ 1 \in Planned /\ Planned \cap Spawned = {}
  BY <1>1, Numbers DEF Types, Children
<1>3. parent \in Parents BY <1>1 DEF Types
<1>4. parent.seen \subseteq Children BY <1>3 DEF Parents
<1>5. setup' = setup /\ Planned' = Planned BY SetupStays DEF Planned
<1>6. ASSUME RowsStay, NoneCreated, rounds' = rounds,
             \/ parent'.pc \in {"none", "loop", "tool", "list", "sweep"}
             \/ parent'.seen = parent.seen /\ parent'.pc = parent.pc
      PROVE  Delegation'
  BY <1>1, <1>2, <1>4, <1>5, <1>6, DelegationFrame
<1>7. ASSUME NEW c \in Children, Executor(c) PROVE Delegation'
  BY <1>6, <1>7, ExecutorEffect
<1>8. ASSUME NEW w \in Requests \cup {Parent}, Sweep(w) PROVE Delegation'
  BY <1>6, <1>8, SweepEffect DEF counts
<1>9. ASSUME NEW q \in Requests, Request(q) PROVE Delegation'
  <2>1. RowsStay /\ NoneCreated /\ rounds' = rounds BY <1>9, RequestEffect
  <2>2. parent'.seen = parent.seen
    BY <1>3, <1>9 DEF Request, CancelRun, SignalRun, TerminateRun, ListForRequest, RequestDone, RequestRefused, Parents
  <2>3. parent'.pc = parent.pc \/ (parent.pc = "gather" /\ parent'.pc = "unwinding")
    BY <1>3, <1>9 DEF Request, CancelRun, SignalRun, TerminateRun, ListForRequest, RequestDone, RequestRefused, Parents
  <2> QED BY <1>1, <1>2, <1>4, <1>5, <2>1, <2>2, <2>3, DelegationFrame
<1>10. CASE Process BY <1>6, <1>10, ProcessEffect
<1>11. CASE ParentTask
  <2>1. RowsStay BY <1>11, ParentEffect
  <2>2. Cancels => NoneCreated BY <1>1, CancelsStay
  <2>3. row' = row => NoneCreated BY DEF NoneCreated
  <2>4. CASE Delegate
    <3>1. row' = row /\ rounds' = rounds + 1 /\ rounds \in Nat
      BY <1>1, <2>4, Numbers DEF Delegate, Types
    <3>2. /\ parent'.pc = IF row[1].status = "absent" THEN "persist" ELSE "start"
          /\ parent'.seen = {c \in Planned : row[c].status \in Terminal}
      BY <1>3, <2>4 DEF Delegate, Parents
    <3>3. rounds' > 0 BY <3>1
    <3> QED BY <1>1, <1>2, <1>5, <3>1, <3>2, <3>3 DEF Delegation
  <2>5. CASE PersistChildren
    <3>1. Created(Planned) /\ parent' = [parent EXCEPT !.pc = "start"] /\ rounds' = rounds /\ parent.pc = "persist"
      BY <2>5 DEF PersistChildren, Is, Move, counts
    <3>2. \A c \in Planned : row'[c].status = "queued" BY <1>1, <1>2, <3>1, CreateEffect
    <3>3. parent'.pc = "start" /\ parent'.seen = parent.seen BY <1>3, <3>1 DEF Parents
    <3>4. rounds > 0 /\ \A c \in parent.seen : c \in Planned /\ row[c].status \in Terminal
      BY <1>1, <3>1 DEF Delegation
    <3>5. \A c \in parent.seen : row'[c].status \in Terminal BY <1>4, <2>1, <3>4 DEF RowsStay
    <3> QED BY <1>5, <3>1, <3>2, <3>3, <3>4, <3>5 DEF Delegation
  <2>6. ASSUME NEW c \in Spawned, Spawn(c) PROVE Delegation'
    <3>1. row' = row /\ parent'.pc = "spawn" /\ parent'.seen = {c} BY <1>3, <2>6 DEF Spawn, Parents
    <3> QED BY <1>1, <1>5, <3>1 DEF Delegation
  <2>7. CASE PersistSpawned
    <3>1. PICK c \in Spawned : parent.seen = {c} BY <1>1, <2>7 DEF PersistSpawned, Is, Delegation
    <3>2. /\ parent'.seen = parent.seen /\ rounds' = rounds
          /\ \/ /\ row[c].status = "absent" /\ Created({c}) /\ parent'.pc = "spawned"
             \/ /\ row[c].status # "absent" /\ row' = row /\ parent'.pc \in {"spawned", "loop"}
      BY <1>3, <2>7, <3>1 DEF PersistSpawned, Move, Parents, counts
    <3>3. row'[c].status # "absent" /\ \A d \in Planned : row'[d] = row[d]
      <4>1. CASE row[c].status # "absent" /\ row' = row BY <4>1
      <4>2. CASE Created({c})
        <5>1. c \in Children /\ {c} \subseteq Children BY DEF Children
        <5>2. row'[c].status = "queued" /\ \A d \in Children \ {c} : row'[d] = row[d] BY <1>1, <4>2, <5>1, CreateEffect
        <5> QED BY <1>2, <5>2
      <4> QED BY <3>2, <4>1, <4>2
    <3> QED BY <1>1, <1>5, <3>1, <3>2, <3>3 DEF Delegation
  <2>8. CASE ParentCancelled
    <3>1. parent'.pc = "none" /\ rounds' = rounds BY <1>3, <2>8 DEF ParentCancelled, Move, Parents, counts
    <3>2. CASE Cancels BY <1>6, <2>1, <2>2, <3>1, <3>2
    <3>3. CASE /\ parent.pc \in {"persist", "spawn"}
               /\ Created({c \in IF parent.pc = "spawn" THEN parent.seen ELSE Planned : row[c].status = "absent"})
      <4> DEFINE C == {c \in IF parent.pc = "spawn" THEN parent.seen ELSE Planned : row[c].status = "absent"}
      <4>1. C \in SUBSET Children /\ Created(C) BY <1>2, <1>4, <3>3
      <4>2. parent.pc = "spawn" => C \cap Planned = {} BY <1>1, <1>2 DEF Delegation
      <4>3. parent.pc = "persist" => C = Planned BY <1>1 DEF Delegation
      <4>4. parent.pc = "persist" \/ parent.pc = "spawn" BY <3>3
      <4> HIDE DEF C
      <4>5. (\A c \in C : row'[c].status = "queued") /\ \A c \in Children \ C : row'[c] = row[c]
        BY <1>1, <4>1, CreateEffect
      <4>6. \A c, d \in Planned : row'[c].status = "absent" => row'[d].status = "absent"
        BY <1>1, <1>2, <4>2, <4>3, <4>4, <4>5 DEF Delegation
      <4> QED BY <1>5, <3>1, <4>6 DEF Delegation
    <3> QED
      <4>1. \/ UNCHANGED <<row, events>>
            \/ /\ parent.pc \in {"persist", "spawn"}
               /\ Created({c \in IF parent.pc = "spawn" THEN parent.seen ELSE Planned : row[c].status = "absent"})
            \/ \E c \in sweep[Parent].todo : End(c, "cancelled")
        BY <2>8 DEF ParentCancelled
      <4>2. sweep[Parent].todo \subseteq Children BY <1>1 DEF Types, Sweeps
      <4> QED BY <3>2, <3>3, <4>1, <4>2 DEF Cancels
  <2>9. CASE /\ row' = row /\ rounds' = rounds
             /\ \/ parent'.pc \in {"none", "loop", "tool", "list", "sweep"}
                \/ /\ parent'.seen = parent.seen
                   /\ \/ parent.pc = "start" /\ parent'.pc = "gather"
                      \/ parent.pc \in {"gather", "unwinding"} /\ parent'.pc \in {"unwinding", "cleanup"}
    BY <1>1, <1>2, <1>4, <1>5, <2>1, <2>3, <2>9, DelegationFrame
  <2>10. CASE StartChildren \/ GatherCancelled \/ ToolTimeout \/ Unwound
    <3>1. row' = row /\ rounds' = rounds
      BY <2>10 DEF StartChildren, GatherCancelled, ToolTimeout, Unwound, counts
    <3>2. /\ parent'.seen = parent.seen
          /\ \/ parent.pc = "start" /\ parent'.pc = "gather"
             \/ parent.pc \in {"gather", "unwinding"} /\ parent'.pc \in {"unwinding", "cleanup"}
      BY <1>3, <2>10 DEF StartChildren, GatherCancelled, ToolTimeout, Unwound, Is, Move, Cleanup, Parents
    <3> QED BY <2>9, <3>1, <3>2
  <2>11. CASE \/ Gathered \/ GatherRaised \/ ToolAborted \/ CleanedUp \/ StartSpawned \/ ToolDone
              \/ Finish \/ FinishRefused \/ ListChildren \/ AllSwept \/ SweepRefused
              \/ \E c \in Children : CancelTool(c)
    <3>1. row' = row /\ rounds' = rounds
      BY <2>11 DEF Gathered, GatherRaised, ToolAborted, CleanedUp, StartSpawned, ToolDone, Finish, FinishRefused,
          ListChildren, AllSwept, SweepRefused, CancelTool, counts
    <3>2. parent'.pc \in {"none", "loop", "tool", "list", "sweep"}
      BY <1>3, <2>11 DEF Gathered, GatherRaised, ToolAborted, CleanedUp, StartSpawned, ToolDone, Finish, FinishRefused,
          ListChildren, AllSwept, SweepRefused, CancelTool, Move, Parents
    <3> QED BY <2>9, <3>1, <3>2
  <2> QED BY <1>11, <2>4, <2>5, <2>6, <2>7, <2>8, <2>10, <2>11 DEF ParentTask
<1> QED BY <1>7, <1>8, <1>9, <1>10, <1>11 DEF Next

-----------------------------------------------------------------------------
(* Crashes and sweeps.                                                     *)

\* A process that is down has nothing but its rows.
LEMMA DownKept ==
    ASSUME Inv, Next
    PROVE  Down'
<1>1. Types BY DEF Inv
<1>2. ASSUME up' PROVE Down' BY <1>2 DEF Down
<1>3. CASE Crash
  <2>1. parent'.pc = "none" /\ ~parent'.signalled
    <3>1. Loop \in Parents /\ ~Loop.signalled BY DEF Parents, Loop
    <3>2. parent' = [Loop EXCEPT !.status = parent.status, !.pc = "none"] BY <1>3 DEF Crash
    <3> QED BY <3>1, <3>2 DEF Parents
  <2>2. \A w \in Requests \cup {Parent} : sweep'[w].step = "off" BY <1>1, <1>3 DEF Crash, NoSweep, Types
  <2>3. \A q \in Requests : request'[q].pc \in {"idle", "done"}
    <3>1. Idle.pc = "idle" /\ [Idle EXCEPT !.pc = "done"].pc = "done" BY DEF Idle
    <3> QED BY <1>3, <3>1 DEF Crash
  <2>4. crashes' > 0 BY <1>3, ProcessEffect DEF Process
  <2> QED BY <1>3, <2>1, <2>2, <2>3, <2>4 DEF Crash, Down
<1>4. CASE Restart BY <1>2, <1>4 DEF Restart
<1>5. ASSUME NEW c \in Children, Executor(c) PROVE Down' BY <1>2, <1>5, ExecutorEffect
<1>6. ASSUME NEW w \in Requests \cup {Parent}, Sweep(w) PROVE Down' BY <1>2, <1>6, SweepEffect
<1>7. ASSUME NEW q \in Requests, Request(q) PROVE Down' BY <1>2, <1>7, RequestEffect
<1>8. CASE ParentTask BY <1>2, <1>8, ParentEffect
<1> QED BY <1>3, <1>4, <1>5, <1>6, <1>7, <1>8 DEF Next, Process

\* A sweep over children that are there.
SweepTrue(w) ==
    /\ \A c \in sweep[w].todo : row[c].status # "absent"
    /\ sweep[w].step = "signal" =>
         sweep[w].child \in Children /\ row[sweep[w].child].status \in Terminal

\* The sweep of a caller that has gone on knows of nobody.
LEMMA SweepOff ==
    ASSUME Types, NEW w \in Requests \cup {Parent}, SweepEnded(w)
    PROVE  /\ SweepTrue(w)'
           /\ \A v \in Requests \cup {Parent} : v # w => sweep'[v] = sweep[v]
BY DEF Types, SweepEnded, NoSweep, SweepTrue

\* A sweep starts with children that have rows.
LEMMA SweepStarts ==
    ASSUME Types, RowsStay, NEW w \in Requests \cup {Parent}, NEW C \in SUBSET Children,
           \A c \in C : row[c].status # "absent",
           sweep' = [sweep EXCEPT ![w] = SweepOver(C)]
    PROVE  /\ SweepTrue(w)'
           /\ sweep'[w].todo = C
           /\ \A v \in Requests \cup {Parent} : v # w => sweep'[v] = sweep[v]
BY DEF Types, SweepOver, SweepTrue, RowsStay

\* A sweep signals a child when it has ended its row.
LEMMA SweepsKept ==
    ASSUME Inv, Next
    PROVE  SweepsTrue'
<1>1. Types /\ Delegation BY DEF Inv
<1>2. Planned \subseteq Children BY <1>1, Numbers DEF Types, Children
<1>3. \A w \in Requests \cup {Parent} : SweepTrue(w) /\ sweep[w] \in Sweeps
  BY <1>1 DEF Inv, SweepsTrue, SweepTrue, Types
<1>4. ASSUME RowsStay, NEW w \in Requests \cup {Parent}, sweep'[w] = sweep[w] PROVE SweepTrue(w)'
  <2>1. sweep[w].todo \subseteq Children BY <1>3 DEF Sweeps
  <2> QED BY <1>3, <1>4, <2>1 DEF SweepTrue, RowsStay
<1>5. ASSUME \A w \in Requests \cup {Parent} : SweepTrue(w)' PROVE SweepsTrue'
  BY <1>5 DEF SweepTrue, SweepsTrue
<1>6. \A c \in ActiveChildren : c \in Children /\ row[c].status # "absent" BY DEF ActiveChildren, Active
<1>7. ASSUME NEW c \in Children, Executor(c) PROVE SweepsTrue'
  BY <1>4, <1>5, <1>7, ExecutorEffect
<1>8. ASSUME NEW w \in Requests \cup {Parent}, Sweep(w) PROVE SweepsTrue'
  <2>1. SweepTrue(w)'
    <3>1. sweep[w].todo \subseteq Children BY <1>3 DEF Sweeps
    <3>2. \A c \in sweep[w].todo : row'[c].status # "absent" BY <1>3, <1>8, <3>1, SweepEffect DEF SweepTrue, RowsStay
    <3> QED BY <1>8, <3>2, SweepEffect DEF SweepTrue
  <2> QED BY <1>4, <1>5, <1>8, <2>1, SweepEffect
<1>9. ASSUME NEW q \in Requests, Request(q) PROVE SweepsTrue'
  <2>1. RowsStay /\ \A v \in Requests \cup {Parent} : v # q => sweep'[v] = sweep[v] BY <1>9, RequestEffect
  <2>2. SweepTrue(q)'
    <3>1. sweep' = sweep \/ SweepEnded(q) \/ sweep' = [sweep EXCEPT ![q] = SweepOver(ActiveChildren)]
      BY <1>9 DEF Request, CancelRun, SignalRun, TerminateRun, ListForRequest, RequestDone, RequestRefused
    <3>2. CASE sweep' = sweep BY <1>4, <2>1, <3>2
    <3>3. CASE SweepEnded(q) BY <1>1, <3>3, SweepOff
    <3>4. CASE sweep' = [sweep EXCEPT ![q] = SweepOver(ActiveChildren)]
      BY <1>1, <1>6, <2>1, <3>4, SweepStarts
    <3> QED BY <3>1, <3>2, <3>3, <3>4
  <2> QED BY <1>4, <1>5, <2>1, <2>2
<1>10. CASE Process
  <2>1. CASE Crash BY <1>1, <1>5, <2>1 DEF Crash, NoSweep, SweepTrue, Types
  <2>2. CASE Restart BY <1>4, <1>5, <2>2, ProcessEffect DEF Process, Restart
  <2> QED BY <1>10, <2>1, <2>2 DEF Process
<1>11. CASE ParentTask
  <2>1. RowsStay BY <1>11, ParentEffect
  <2>2. CASE sweep' = sweep BY <1>4, <1>5, <2>1, <2>2
  <2>3. CASE SweepEnded(Parent) BY <1>1, <1>4, <1>5, <2>1, <2>3, SweepOff
  <2>4. ASSUME NEW C \in SUBSET Children, \A c \in C : row[c].status # "absent",
               sweep' = [sweep EXCEPT ![Parent] = SweepOver(C)]
        PROVE  SweepsTrue'
    BY <1>1, <1>4, <1>5, <2>1, <2>4, SweepStarts
  <2>5. CASE GatherCancelled \/ Unwound
    <3>1. \A c \in Planned : row[c].status # "absent" BY <1>1, <2>5 DEF GatherCancelled, Unwound, Is, Delegation
    <3>2. sweep' = [sweep EXCEPT ![Parent] = SweepOver(Planned)] BY <2>5 DEF GatherCancelled, Unwound, Cleanup
    <3> QED BY <1>2, <2>4, <3>1, <3>2
  <2>6. ASSUME NEW c \in Children, CancelTool(c) PROVE SweepsTrue'
    <3>1. {c} \in SUBSET Children /\ \A d \in {c} : row[d].status # "absent" BY <1>6, <2>6 DEF CancelTool
    <3>2. sweep' = [sweep EXCEPT ![Parent] = SweepOver({c})] BY <2>6 DEF CancelTool
    <3> QED BY <2>4, <3>1, <3>2
  <2>7. CASE ListChildren BY <1>6, <2>4, <2>7 DEF ListChildren
  <2>8. CASE \/ ToolAborted \/ CleanedUp \/ ToolDone \/ AllSwept \/ SweepRefused \/ ParentCancelled
    BY <2>3, <2>8 DEF ToolAborted, CleanedUp, ToolDone, AllSwept, SweepRefused, ParentCancelled
  <2>9. CASE \/ Delegate \/ PersistChildren \/ StartChildren \/ Gathered \/ GatherRaised \/ ToolTimeout
             \/ (\E c \in Spawned : Spawn(c)) \/ PersistSpawned \/ StartSpawned \/ Finish \/ FinishRefused
    BY <2>2, <2>9 DEF Delegate, PersistChildren, StartChildren, Gathered, GatherRaised, ToolTimeout, Spawn,
        PersistSpawned, StartSpawned, Finish, FinishRefused
  <2> QED BY <1>11, <2>5, <2>6, <2>7, <2>8, <2>9 DEF ParentTask
<1> QED BY <1>7, <1>8, <1>9, <1>10, <1>11 DEF Next

-----------------------------------------------------------------------------
(* A delegation that cancels its children.                                 *)

\* Who is about to be cancelled is terminated before the cleanup is over, unless
\* a transaction is refused.
LEMMA CleanupEnds ==
    ASSUME Inv, Next, up', NEW c \in Children, InCleanup(c)
    PROVE  InCleanup(c)' \/ row'[c].status \in Terminal \/ refusals' > 0
<1>1. Types /\ Delegation BY DEF Inv
<1>2. parent \in Parents /\ sweep[Parent] \in Sweeps BY <1>1 DEF Types
<1>3. setup' = setup BY SetupStays
<1>4. parent.pc \in {"unwinding", "cleanup"} BY DEF InCleanup
<1>5. ASSUME parent'.pc = parent.pc, parent'.seen = parent.seen, sweep'[Parent] = sweep[Parent] PROVE InCleanup(c)'
  BY <1>3, <1>5 DEF InCleanup, Awaited, Planned
<1>6. ASSUME NEW d \in Children, Executor(d) PROVE InCleanup(c)' BY <1>5, <1>6, ExecutorEffect
<1>7. ASSUME NEW w \in Requests \cup {Parent}, Sweep(w) PROVE InCleanup(c)' \/ row'[c].status \in Terminal
  <2>1. parent' = parent BY <1>7, SweepEffect
  <2>2. CASE sweep'[Parent] = sweep[Parent] BY <1>5, <2>1, <2>2
  <2>3. CASE c \in sweep'[Parent].todo BY <1>3, <2>1, <2>3 DEF InCleanup, Awaited, Planned
  <2>4. CASE w = Parent /\ c \in sweep[Parent].todo \ sweep'[Parent].todo
    <3>1. row'[c].status \notin Active /\ RowsStay BY <1>7, <2>4, SweepEffect
    <3>2. row[c].status # "absent" BY <2>4 DEF Inv, SweepsTrue
    <3>3. row'[c].status # "absent" BY <3>1, <3>2 DEF RowsStay
    <3>4. row'[c] \in Rows
      <4>1. Types' BY <1>7, SweepTyped
      <4> QED BY <1>3, <4>1 DEF Types, Rows
    <3> QED BY <3>1, <3>3, <3>4 DEF Rows
  <2>5. CASE w = Parent /\ c \notin sweep[Parent].todo
    BY <1>3, <2>1, <2>5 DEF InCleanup, Awaited, Planned
  <2> QED BY <1>7, <2>2, <2>3, <2>4, <2>5, SweepEffect
<1>8. ASSUME NEW q \in Requests, Request(q) PROVE InCleanup(c)'
  <2>1. parent'.pc = parent.pc /\ parent'.seen = parent.seen
    BY <1>2, <1>4, <1>8 DEF Request, CancelRun, SignalRun, TerminateRun, ListForRequest, RequestDone, RequestRefused, Parents
  <2>2. sweep'[Parent] = sweep[Parent] BY <1>8, RequestEffect, SubagentAssumption
  <2> QED BY <1>5, <2>1, <2>2
<1>9. CASE ParentTask
  <2>1. Unwound \/ CleanedUp \/ SweepRefused
    BY <1>2, <1>4, <1>9 DEF ParentTask, Delegate, PersistChildren, StartChildren, Gathered, GatherRaised, GatherCancelled,
        ToolTimeout, ToolAborted, Spawn, PersistSpawned, StartSpawned, CancelTool, ToolDone, Finish, FinishRefused,
        ListChildren, AllSwept, ParentCancelled, Is
  <2>2. CASE Unwound
    <3>1. parent'.pc = "cleanup" BY <1>2, <2>2 DEF Unwound, Cleanup, Parents
    <3>2. sweep'[Parent].todo = Planned BY <1>1, <2>2 DEF Unwound, Cleanup, SweepOver, Types
    <3>3. c \in Planned BY DEF InCleanup, Awaited
    <3> QED BY <1>3, <3>1, <3>2, <3>3 DEF InCleanup, Planned
  <2>3. CASE CleanedUp
    <3>1. parent.pc = "cleanup" /\ sweep[Parent].todo = {} BY <2>3 DEF CleanedUp, Swept
    <3> QED BY <3>1 DEF InCleanup
  <2>4. CASE SweepRefused BY <1>1, <2>4, BusyCounts DEF SweepRefused
  <2> QED BY <2>1, <2>2, <2>3, <2>4
<1>10. CASE Process
  <2>1. ~Crash BY DEF Crash
  <2>2. ~Restart BY <1>4 DEF Restart, Inv, Down
  <2> QED BY <1>10, <2>1, <2>2 DEF Process
<1> QED BY <1>6, <1>7, <1>8, <1>9, <1>10 DEF Next

-----------------------------------------------------------------------------
(* The tasks of the children and their rows.                               *)

\* Refusals and the children that a request stops are counted.
LEMMA CountsGrow ==
    ASSUME Inv, Next
    PROVE  refusals' \in Nat /\ refusals' >= refusals /\ stopped \subseteq stopped'
<1>1. refusals \in Nat BY DEF Inv, Types
<1> QED BY <1>1, ExecutorEffect, SweepEffect, ParentEffect, RequestEffect, ProcessEffect DEF Next, counts

\* No step reopens a row that has ended, or removes one.
LEMMA RowsOnlyStay ==
    ASSUME Inv, Next
    PROVE  RowsStay
BY ExecutorEffect, SweepEffect, ParentEffect, RequestEffect, ProcessEffect DEF Next

\* A child that has ended or is about to be ended goes on being so.
LEMMA CoveredStays ==
    ASSUME Inv, Next, up', NEW c \in Children, Covered(c)
    PROVE  Covered(c)'
<1>1. refusals \in Nat BY DEF Inv, Types
<1>2. CASE Excused(c) BY <1>1, <1>2, CountsGrow DEF Excused, Covered
<1>3. CASE row[c].status \in Terminal BY <1>3, RowsOnlyStay DEF RowsStay, Covered
<1>4. CASE InCleanup(c) BY <1>4, CleanupEnds DEF Covered, Excused
<1> QED BY <1>2, <1>3, <1>4 DEF Covered

\* A task that goes on as it is.
LEMMA TaskFrame ==
    ASSUME Inv, Next, up, up', NEW c \in Children,
           row'[c] = row[c] \/ row'[c].status \in Terminal,
           task'[c].pc = task[c].pc, task'[c].round = task[c].round, task'[c].end = task[c].end,
           task'[c].signalled => task[c].signalled \/ Covered(c)'
    PROVE  TaskTrue(c)'
<1>1. TaskTrue(c) BY DEF Inv, TasksTrue
<1>2. setup' = setup BY SetupStays
<1>3. Covered(c) => Covered(c)' BY CoveredStays
<1>4. row'[c].status \in Terminal => Covered(c)' BY DEF Covered
<1>5. InStep(c) /\ row'[c] = row[c] => InStep(c)' BY DEF InStep
<1> QED BY <1>1, <1>2, <1>3, <1>4, <1>5 DEF TaskTrue, Planned

\* A cancellation ends a row or leaves it as it is.
LEMMA CancelsFrame ==
    ASSUME Types, Cancels, NEW c \in Children
    PROVE  row'[c] = row[c] \/ row'[c].status \in Terminal
<1>1. CASE UNCHANGED <<row, events>> BY <1>1
<1>2. ASSUME NEW d \in Children, End(d, "cancelled") PROVE row'[c] = row[c] \/ row'[c].status \in Terminal
  BY <1>2, EndEffect DEF Terminal
<1> QED BY <1>1, <1>2 DEF Cancels

\* A task that is started has a row that waits for it.
LEMMA StartedTrue ==
    ASSUME Inv, Next, up, up', NEW C \in SUBSET Children, NEW round \in 0 .. setup.rounds,
           \A c \in C : row[c].status # "absent" /\ (round # 0 => c \in Planned),
           row' = row, task' = Started(C, round), NEW c \in Children
    PROVE  TaskTrue(c)'
<1>1. Types /\ TaskTrue(c) BY DEF Inv, TasksTrue
<1>2. CASE c \notin C \/ AtWork(c)
  <2>1. task'[c] = task[c] BY <1>2 DEF Started
  <2> QED BY <2>1, TaskFrame
<1>3. CASE c \in C /\ ~AtWork(c)
  <2>1. task'[c] = [pc |-> "created", round |-> round, end |-> "none", signalled |-> FALSE]
    BY <1>1, <1>3, StartEffect
  <2>2. Covered(c) \/ InStep(c)' BY <1>1, <1>3, <2>1 DEF TaskTrue, InStep, AtWork, Over
  <2>3. Covered(c)' \/ InStep(c)' BY <2>2, CoveredStays
  <2>4. setup' = setup BY SetupStays
  <2> QED BY <1>3, <2>1, <2>3, <2>4 DEF TaskTrue, Planned
<1> QED BY <1>2, <1>3

\* The executor's own row and task stay in step.
LEMMA ExecutorTask ==
    ASSUME Inv, Next, up', NEW c \in Children, Executor(c)
    PROVE  TaskTrue(c)'
<1>1. Types /\ TaskTrue(c) /\ up BY ExecutorEffect DEF Inv, TasksTrue
<1>2. task[c] \in Tasks /\ row[c] \in Rows BY <1>1 DEF Types
<1>3. Covered(c) => Covered(c)' BY CoveredStays
<1>4. setup' = setup BY SetupStays
<1>5. ASSUME NEW pc \in {"working", "sleeping", "ending", "committing"},
             NEW end \in {"none", "completed", "failed"}, Goto(c, pc, end), ~task[c].signalled,
             pc \in {"ending", "committing"} => end # "none",
             Covered(c)' \/ InStep(c)'
      PROVE  TaskTrue(c)'
  BY <1>1, <1>4, <1>5, GotoEffect DEF TaskTrue, Planned
<1>6. ASSUME NEW how \in {"returned", "raised", "cancelled"}, Leave(c, how), Covered(c)' PROVE TaskTrue(c)'
  <2>1. task'[c].pc = how /\ task'[c].round = 0 /\ ~task'[c].signalled BY <1>1, <1>6, LeaveEffect DEF TaskTrue, Over
  <2> QED BY <1>6, <2>1 DEF TaskTrue
<1>7. ASSUME End(c, task[c].end), task[c].pc = "committing" PROVE Covered(c)'
  <2>1. task[c].end \in Terminal BY <1>1, <1>2, <1>7 DEF TaskTrue, Tasks, Terminal
  <2>2. CASE row[c].status \in Active BY <1>1, <1>7, <2>1, <2>2, EndEffect DEF Covered
  <2>3. CASE row[c].status \notin Active
    <3>1. Covered(c) BY <1>1, <1>7, <2>3 DEF TaskTrue, InStep, Active
    <3> QED BY <1>3, <3>1
  <2> QED BY <2>2, <2>3
<1>8. CASE Claim(c)
  <2>1. CASE row[c].status \in Active /\ row' = [row EXCEPT ![c].status = "running"] /\ UNCHANGED turn
             /\ IF row[c].frozen THEN Goto(c, "ending", "completed") ELSE Goto(c, "working", "none")
    <3>1. row'[c].status = "running" BY <1>1, <2>1 DEF Types, Rows
    <3>2. ~task[c].signalled BY <1>8 DEF Claim, At
    <3>3. CASE Goto(c, "ending", "completed")
      <4>1. InStep(c)' BY <1>1, <3>1, <3>3, GotoEffect DEF InStep
      <4> QED BY <1>5, <3>2, <3>3, <4>1
    <3>4. CASE Goto(c, "working", "none")
      <4>1. InStep(c)' BY <1>1, <3>1, <3>4, GotoEffect DEF InStep
      <4> QED BY <1>5, <3>2, <3>4, <4>1
    <3> QED BY <2>1, <3>3, <3>4
  <2>2. CASE /\ \/ row[c].status \in Terminal
                \/ row[c].status = "running"
                \/ row[c].status = "retry_wait" /\ task[c].pc = "created"
             /\ Leave(c, "returned")
    <3>1. task[c].pc \in {"created", "sleeping"} BY <1>8 DEF Claim, At
    <3>2. Covered(c) BY <1>1, <2>2, <3>1 DEF TaskTrue, InStep, Covered, Terminal
    <3> QED BY <1>3, <1>6, <2>2, <3>2
  <2> QED BY <1>8, <2>1, <2>2 DEF Claim
<1>9. CASE Report(c)
  <2>1. row'[c].status = "running" /\ ~task[c].signalled /\ Goto(c, "ending", "completed")
    BY <1>1, <1>9 DEF Report, Types, Rows, At
  <2>2. InStep(c)' BY <1>1, <2>1, GotoEffect DEF InStep
  <2> QED BY <1>5, <2>1, <2>2
<1>10. CASE Retry(c)
  <2>1. row'[c].status = "retry_wait" BY <1>1, <1>10 DEF Retry, Types, Rows
  <2>2. ~task[c].signalled /\ Goto(c, "sleeping", "none") BY <1>10 DEF Retry, At
  <2>3. InStep(c)' BY <1>1, <2>1, <2>2, GotoEffect DEF InStep
  <2> QED BY <1>5, <2>2, <2>3
<1>11. CASE Break(c)
  <2>1. row' = row /\ ~task[c].signalled /\ task[c].pc = "working" /\ Goto(c, "ending", "failed") BY <1>11 DEF Break, At
  <2>2. InStep(c) => InStep(c)' BY <1>1, <2>1, GotoEffect DEF InStep
  <2>3. Covered(c)' \/ InStep(c)' BY <1>1, <1>3, <2>2 DEF TaskTrue
  <2> QED BY <1>5, <2>1, <2>3
<1>12. CASE Lose(c)
  <2>1. Covered(c) BY <1>1, <1>12 DEF Lose, At, TaskTrue, InStep
  <2> QED BY <1>3, <1>6, <1>12, <2>1 DEF Lose
<1>13. CASE PassBarrier(c)
  <2>1. row' = row /\ ~task[c].signalled /\ task[c].pc = "ending" /\ Goto(c, "committing", task[c].end)
    BY <1>13 DEF PassBarrier, At
  <2>2. task[c].end \in {"completed", "failed"} BY <1>1, <1>2, <2>1 DEF TaskTrue, Tasks
  <2>3. InStep(c) => InStep(c)' BY <1>1, <2>1, <2>2, GotoEffect DEF InStep
  <2>4. Covered(c)' \/ InStep(c)' BY <1>1, <1>3, <2>3 DEF TaskTrue
  <2> QED BY <1>5, <2>1, <2>2, <2>4
<1>14. CASE Finalize(c) BY <1>6, <1>7, <1>14 DEF Finalize, At
<1>15. CASE Refused(c)
  <2>1. Covered(c)' BY <1>1, <1>15, BusyCounts DEF Refused, Covered, Excused
  <2>2. CASE Goto(c, "committing", "failed") /\ At(c, "committing") BY <1>5, <2>1, <2>2 DEF At
  <2>3. CASE Leave(c, "raised") BY <1>6, <2>1, <2>3
  <2> QED BY <1>15, <2>2, <2>3 DEF Refused
<1>16. CASE Cancelled(c)
  <2>1. Covered(c) BY <1>1, <1>16 DEF Cancelled, TaskTrue
  <2> QED BY <1>3, <1>6, <1>16, <2>1 DEF Cancelled
<1> QED BY <1>8, <1>9, <1>10, <1>11, <1>12, <1>13, <1>14, <1>15, <1>16 DEF Executor

\* What the parent does to its children's tasks.
LEMMA ParentTasks ==
    ASSUME Inv, Next, ParentTask, NEW c \in Children
    PROVE  TaskTrue(c)'
<1>1. Types /\ Delegation /\ TaskTrue(c) BY DEF Inv, TasksTrue
<1>2. Planned \subseteq Children /\ setup.rounds \in Nat /\ Planned \cap Spawned = {} BY <1>1, Numbers DEF Types, Children
<1>3. up /\ up' BY ParentEffect
<1>4. parent \in Parents BY <1>1 DEF Types
<1>5. setup' = setup BY SetupStays
<1>6. CASE StartChildren
  <2>1. Planned \ parent.seen \in SUBSET Children /\ rounds \in 0 .. setup.rounds BY <1>1, <1>2 DEF Types
  <2>2. \A d \in Planned \ parent.seen : row[d].status # "absent" /\ (rounds # 0 => d \in Planned)
    BY <1>1, <1>6 DEF StartChildren, Is, Delegation
  <2>3. row' = row /\ task' = Started(Planned \ parent.seen, rounds) BY <1>6 DEF StartChildren
  <2> QED BY <1>3, <2>1, <2>2, <2>3, StartedTrue
<1>7. CASE StartSpawned
  <2>1. parent.seen \in SUBSET Children /\ 0 \in 0 .. setup.rounds BY <1>2, <1>4 DEF Parents
  <2>2. \A d \in parent.seen : row[d].status # "absent" /\ (0 # 0 => d \in Planned)
    BY <1>1, <1>7 DEF StartSpawned, Is, Delegation
  <2>3. row' = row /\ task' = Started(parent.seen, 0) BY <1>7 DEF StartSpawned
  <2> QED BY <1>3, <2>1, <2>2, <2>3, StartedTrue
<1>8. CASE ToolTimeout
  <2>1. Awaited \in SUBSET Children BY <1>2 DEF Awaited
  <2>2. row' = row /\ task' = Signalled(Awaited) /\ parent'.pc = "unwinding" /\ parent'.seen = parent.seen
    BY <1>4, <1>8 DEF ToolTimeout, Parents
  <2>3. c \in Awaited => Covered(c)' BY <1>5, <2>2 DEF Covered, InCleanup, Awaited, Planned
  <2> QED BY <1>1, <1>3, <2>1, <2>2, <2>3, SignalEffect, TaskFrame
<1>9. CASE PersistChildren \/ PersistSpawned \/ ParentCancelled
  <2>1. task' = task BY <1>9 DEF PersistChildren, PersistSpawned, ParentCancelled
  <2>2. CASE Cancels BY <1>1, <1>3, <2>1, <2>2, CancelsFrame, TaskFrame
  <2>3. ASSUME NEW C \in SUBSET Children, Creates(C) PROVE TaskTrue(c)'
    <3>1. CASE c \notin C BY <1>1, <1>3, <2>1, <2>3, <3>1, CreatesStay, TaskFrame
    <3>2. CASE c \in C
      <4>1. row[c].status = "absent" /\ row'[c].status = "queued" BY <1>1, <2>3, <3>2, CreatesStay DEF Creates
      <4>2. Covered(c)' \/ InStep(c)' BY <1>1, <1>3, <2>1, <4>1, CoveredStays DEF TaskTrue, InStep
      <4>3. Covered(c) => Covered(c)' BY <1>3, CoveredStays
      <4> QED BY <1>1, <1>5, <2>1, <4>2, <4>3 DEF TaskTrue, Planned
    <3> QED BY <3>1, <3>2
  <2> QED BY <2>2, <2>3, ParentEffect
<1>10. CASE ~(StartChildren \/ StartSpawned \/ ToolTimeout \/ PersistChildren \/ PersistSpawned \/ ParentCancelled)
  <2>1. task' = task /\ row' = row
    BY <1>10 DEF ParentTask, Delegate, Gathered, GatherRaised, GatherCancelled,
        ToolAborted, Unwound, CleanedUp, Spawn, CancelTool, ToolDone, Finish, FinishRefused,
        ListChildren, AllSwept, SweepRefused
  <2> QED BY <1>3, <2>1, TaskFrame
<1> QED BY <1>6, <1>7, <1>8, <1>9, <1>10

\* After a crash and after the next start every row is in step with its task.
LEMMA ProcessTasks ==
    ASSUME Inv, Next, Process, NEW c \in Children
    PROVE  TaskTrue(c)'
<1>1. Types BY DEF Inv
<1>2. NoTask.pc = "none" /\ ~NoTask.signalled /\ NoTask.round = 0 /\ NoTask.end = "none" BY DEF NoTask
<1>3. CASE Crash
  <2>1. task'[c] = NoTask /\ ~up' BY <1>3 DEF Crash
  <2> QED BY <1>2, <2>1 DEF TaskTrue
<1>4. CASE Restart
  <2>1. task[c] = NoTask BY <1>4 DEF Restart, Inv, Down
  <2>2. row[c] \in Rows /\ parent.status \in {"active", "over"} BY <1>1 DEF Types, Parents
  <2>3. Resumable \in SUBSET Children /\ 0 \in 0 .. setup.rounds BY <1>1, Numbers DEF Resumable, ActiveChildren, Types
  <2>4. ~AtWork(c) BY <1>2, <2>1 DEF AtWork, Over
  <2>5. CASE c \in Resumable
    <3>1. task'[c] = [pc |-> "created", round |-> 0, end |-> "none", signalled |-> FALSE]
      <4>1. task' = Started(Resumable, 0) BY <1>4 DEF Restart
      <4> QED BY <1>1, <2>3, <2>4, <2>5, <4>1, StartEffect
    <3>2. row[c].status \in Active /\ parent.status = "active" BY <2>5 DEF Resumable, ActiveChildren
    <3>3. row'[c].status = "queued" BY <1>1, <1>4, <3>2, RestartEffect
    <3>4. InStep(c)' BY <3>1, <3>3 DEF InStep
    <3> QED BY <3>1, <3>4 DEF TaskTrue
  <2>6. CASE c \notin Resumable
    <3>a. Started(Resumable, 0)[c] = task[c] BY <2>6 DEF Started
    <3>1. task'[c] = NoTask BY <1>4, <2>1, <3>a DEF Restart
    <3>2. CASE row[c].status \in Active
      <4>1. parent.status = "over" BY <2>2, <2>6, <3>2 DEF Resumable, ActiveChildren
      <4>2. row'[c].status = "failed" BY <1>1, <1>4, <3>2, <4>1, RestartEffect
      <4> QED BY <1>2, <3>1, <4>2 DEF TaskTrue, Covered, Terminal
    <3>3. CASE row[c].status \notin Active
      <4>1. row'[c] = row[c] BY <1>1, <1>4, <3>3, RestartEffect
      <4>2. row[c].status = "absent" \/ row[c].status \in Terminal BY <2>2, <3>3 DEF Rows
      <4>3. Covered(c)' \/ InStep(c)' BY <1>2, <3>1, <4>1, <4>2 DEF Covered, InStep
      <4> QED BY <1>2, <3>1, <4>3 DEF TaskTrue
    <3> QED BY <3>2, <3>3
  <2> QED BY <2>5, <2>6
<1> QED BY <1>3, <1>4 DEF Process

\* A request signals a child's task when the child is stopped alone, or when
\* the delegation is about to cancel it.
LEMMA RequestTasks ==
    ASSUME Inv, Next, NEW q \in Requests, Request(q), NEW c \in Children
    PROVE  TaskTrue(c)'
<1>1. Types BY DEF Inv
<1>2. up /\ up' /\ Cancels BY RequestEffect
<1>3. row'[c] = row[c] \/ row'[c].status \in Terminal BY <1>1, <1>2, CancelsFrame
<1>4. CASE SignalRun(q)
  <2>1. request[q] \in Asking /\ parent \in Parents BY <1>1 DEF Types
  <2>2. CASE request[q].child # None
    <3>1. {request[q].child} \in SUBSET Children BY <2>1, <2>2 DEF Asking
    <3>2. task' = Signalled({request[q].child}) /\ stopped' = stopped \cup {request[q].child}
      BY <1>4, <2>2 DEF SignalRun
    <3>3. c = request[q].child => Covered(c)' BY <3>2 DEF Covered, Excused
    <3> QED BY <1>1, <1>2, <1>3, <3>1, <3>2, <3>3, SignalEffect, TaskFrame
  <2>3. CASE request[q].child = None /\ parent.pc = "gather"
    <3>1. Awaited \in SUBSET Children BY <1>1, Numbers DEF Awaited, Types, Children
    <3>2. task' = Signalled(Awaited) /\ parent'.pc = "unwinding" /\ parent'.seen = parent.seen
      BY <1>4, <2>1, <2>3 DEF SignalRun, Parents
    <3>3. setup' = setup BY SetupStays
    <3>4. c \in Awaited => Covered(c)' BY <3>2, <3>3 DEF Covered, InCleanup, Awaited, Planned
    <3> QED BY <1>1, <1>2, <1>3, <3>1, <3>2, <3>4, SignalEffect, TaskFrame
  <2>4. CASE request[q].child = None /\ parent.pc # "gather"
    <3>1. task' = task BY <1>4, <2>4 DEF SignalRun
    <3> QED BY <1>2, <1>3, <3>1, TaskFrame
  <2> QED BY <2>2, <2>3, <2>4
<1>5. CASE ~SignalRun(q)
  <2>1. task' = task BY <1>5 DEF Request, CancelRun, TerminateRun, ListForRequest, RequestDone, RequestRefused
  <2> QED BY <1>2, <1>3, <2>1, TaskFrame
<1> QED BY <1>4, <1>5

\* The children a delegation waits for have, or have had, a task.
LEMMA GatherTrue ==
    ASSUME Inv, Next, parent'.pc = "gather"
    PROVE  \A c \in Awaited' : task'[c].pc # "none"
<1>1. Types BY DEF Inv
<1>2. Planned \subseteq Children BY <1>1, Numbers DEF Types, Children
<1>3. setup' = setup BY SetupStays
<1>4. parent \in Parents BY <1>1 DEF Types
<1>5. ASSUME parent.pc = "gather", parent'.seen = parent.seen,
             \A c \in Children : task[c].pc # "none" => task'[c].pc # "none"
      PROVE  \A c \in Awaited' : task'[c].pc # "none"
  BY <1>2, <1>3, <1>5 DEF Inv, TasksTrue, Awaited, Planned
<1>6. ASSUME NEW c \in Children, Executor(c) PROVE \A d \in Awaited' : task'[d].pc # "none"
  <2>1. parent' = parent /\ \A d \in Children : d # c => task'[d] = task[d] BY <1>6, ExecutorEffect
  <2>2. task'[c].pc # "none"
    <3>1. task[c].round # 0 => c \in Planned BY DEF Inv, TasksTrue, TaskTrue
    <3>2. task[c].end \in {"none", "completed", "failed"} BY <1>1 DEF Types, Tasks
    <3>3. ASSUME NEW pc \in {"working", "sleeping", "ending", "committing"},
                 NEW end \in {"none", "completed", "failed"}, Goto(c, pc, end)
          PROVE  task'[c].pc # "none"
      BY <1>1, <3>3, GotoEffect
    <3>4. ASSUME NEW how \in {"returned", "raised", "cancelled"}, Leave(c, how) PROVE task'[c].pc # "none"
      BY <1>1, <3>1, <3>4, LeaveEffect DEF Over
    <3>5. \/ \E pc \in {"working", "sleeping", "ending", "committing"},
                end \in {"none", "completed", "failed"} : Goto(c, pc, end)
          \/ \E how \in {"returned", "raised", "cancelled"} : Leave(c, how)
      <4>1. CASE Claim(c) BY <4>1 DEF Claim
      <4>2. CASE Report(c) \/ Retry(c) \/ Break(c) BY <4>2 DEF Report, Retry, Break
      <4>3. CASE Lose(c) \/ Finalize(c) \/ Cancelled(c) BY <4>3 DEF Lose, Finalize, Cancelled
      <4>4. CASE PassBarrier(c) BY <3>2, <4>4 DEF PassBarrier
      <4>5. CASE Refused(c) BY <4>5 DEF Refused
      <4> QED BY <1>6, <4>1, <4>2, <4>3, <4>4, <4>5 DEF Executor
    <3> QED BY <3>3, <3>4, <3>5
  <2> QED BY <1>5, <2>1, <2>2
<1>7. ASSUME NEW w \in Requests \cup {Parent}, Sweep(w) PROVE \A d \in Awaited' : task'[d].pc # "none"
  <2>1. parent' = parent BY <1>7, SweepEffect
  <2>2. \A c \in Children : task'[c].pc = task[c].pc
    <3>1. CASE task' = task BY <3>1
    <3>2. ASSUME NEW c \in Children, task' = Signalled({c}) PROVE \A d \in Children : task'[d].pc = task[d].pc
      BY <1>1, <3>2, SignalEffect
    <3> QED BY <1>7, <3>1, <3>2, SweepEffect
  <2> QED BY <1>5, <2>1, <2>2
<1>8. ASSUME NEW q \in Requests, Request(q) PROVE \A d \in Awaited' : task'[d].pc # "none"
  <2>1. parent'.pc = parent.pc /\ parent'.seen = parent.seen
    BY <1>4, <1>8 DEF Request, CancelRun, SignalRun, TerminateRun, ListForRequest, RequestDone, RequestRefused, Parents
  <2>2. \A c \in Children : task'[c].pc = task[c].pc
    <3>1. CASE SignalRun(q) /\ request[q].child # None
      <4>1. {request[q].child} \in SUBSET Children BY <1>1, <3>1 DEF Types, Asking
      <4> QED BY <1>1, <3>1, <4>1, SignalEffect DEF SignalRun
    <3>2. CASE SignalRun(q) /\ request[q].child = None
      <4>1. Awaited \in SUBSET Children BY <1>2 DEF Awaited
      <4>2. task' = task \/ task' = Signalled(Awaited) BY <3>2 DEF SignalRun
      <4> QED BY <1>1, <4>1, <4>2, SignalEffect
    <3>3. CASE ~SignalRun(q)
      BY <1>8, <3>3 DEF Request, CancelRun, TerminateRun, ListForRequest, RequestDone, RequestRefused
    <3> QED BY <3>1, <3>2, <3>3
  <2> QED BY <1>5, <2>1, <2>2
<1>9. CASE ParentTask
  <2>1. StartChildren
    BY <1>4, <1>9 DEF ParentTask, Delegate, PersistChildren, Gathered, GatherRaised, GatherCancelled, ToolTimeout,
        ToolAborted, Unwound, CleanedUp, Spawn, PersistSpawned, StartSpawned, CancelTool, ToolDone, Finish,
        FinishRefused, ListChildren, AllSwept, SweepRefused, ParentCancelled, Move, Cleanup, Parents, Is
  <2>2. task' = Started(Planned \ parent.seen, rounds) /\ parent'.seen = parent.seen
    BY <1>4, <2>1 DEF StartChildren, Move, Parents
  <2>3. Planned \ parent.seen \in SUBSET Children /\ rounds \in 0 .. setup.rounds BY <1>1, <1>2 DEF Types
  <2>4. ASSUME NEW c \in Planned \ parent.seen PROVE task'[c].pc # "none"
    <3>1. c \in Children BY <1>2
    <3>2. CASE AtWork(c)
      <4>1. task'[c] = task[c] BY <1>1, <2>2, <2>3, <3>1, <3>2, StartEffect
      <4> QED BY <3>2, <4>1 DEF AtWork, Over
    <3>3. CASE ~AtWork(c)
      <4>1. task'[c] = [pc |-> "created", round |-> rounds, end |-> "none", signalled |-> FALSE]
        BY <1>1, <2>2, <2>3, <3>1, <3>3, StartEffect
      <4> QED BY <4>1
    <3> QED BY <3>2, <3>3
  <2> QED BY <1>3, <2>2, <2>4 DEF Awaited, Planned
<1>10. CASE Process BY <1>10, ProcessEffect
<1> QED BY <1>6, <1>7, <1>8, <1>9, <1>10 DEF Next

\* Every row stays in step with its task, or the child is covered.
LEMMA TasksKept ==
    ASSUME Inv, Next
    PROVE  TasksTrue'
<1>1. Types BY DEF Inv
<1>2. ASSUME NEW c \in Children PROVE TaskTrue(c)'
  <2>1. ASSUME NEW d \in Children, Executor(d) PROVE TaskTrue(c)'
    <3>1. up' /\ up BY <2>1, ExecutorEffect
    <3>2. CASE c = d BY <2>1, <3>1, <3>2, ExecutorTask
    <3>3. CASE c # d BY <2>1, <3>1, <3>3, ExecutorEffect, TaskFrame
    <3> QED BY <3>2, <3>3
  <2>2. ASSUME NEW w \in Requests \cup {Parent}, Sweep(w) PROVE TaskTrue(c)'
    <3>1. up' /\ up /\ Cancels /\ RowsStay BY <2>2, SweepEffect
    <3>2. row'[c] = row[c] \/ row'[c].status \in Terminal BY <1>1, <3>1, CancelsFrame
    <3>3. CASE task' = task BY <3>1, <3>2, <3>3, TaskFrame
    <3>4. ASSUME NEW d \in Children, row[d].status \in Terminal, task' = Signalled({d}) PROVE TaskTrue(c)'
      <4>1. c = d => Covered(c)' BY <3>1, <3>4 DEF Covered, RowsStay
      <4> QED BY <1>1, <3>1, <3>2, <3>4, <4>1, SignalEffect, TaskFrame
    <3> QED BY <2>2, <3>3, <3>4, SweepEffect
  <2> QED BY <2>1, <2>2, ParentTasks, RequestTasks, ProcessTasks DEF Next
<1>3. parent'.pc = "gather" => \A c \in Awaited' : task'[c].pc # "none" BY GatherTrue
<1> QED BY <1>2, <1>3 DEF TasksTrue

-----------------------------------------------------------------------------
(* Frozen reports.                                                         *)

FrozenCount(c) ==
    row[c].frozen /\ row[c].status = "failed" =>
        refusals > 0 \/ (crashes > 0 /\ parent.status = "over")

\* A parent that is over stays so, and crashes are counted.
LEMMA OverStays ==
    ASSUME Inv, Next
    PROVE  /\ parent.status = "over" => parent'.status = "over"
           /\ crashes > 0 => crashes' > 0
<1>1. parent \in Parents BY DEF Inv, Types
<1>2. ASSUME NEW c \in Children, Executor(c) PROVE parent' = parent /\ crashes' = crashes BY <1>2, ExecutorEffect
<1>3. ASSUME NEW w \in Requests \cup {Parent}, Sweep(w) PROVE parent' = parent /\ crashes' = crashes
  BY <1>3, SweepEffect DEF counts
<1>4. CASE ParentTask
  <2>1. crashes' = crashes BY <1>4, ParentEffect
  <2>2. parent.status = "over" => parent'.status = "over"
    BY <1>1, <1>4 DEF ParentTask, Delegate, PersistChildren, StartChildren, Gathered, GatherRaised, GatherCancelled,
        ToolTimeout, ToolAborted, Unwound, CleanedUp, Spawn, PersistSpawned, StartSpawned, CancelTool, ToolDone, Finish,
        FinishRefused, ListChildren, AllSwept, SweepRefused, ParentCancelled, Move, Cleanup, Parents
  <2> QED BY <2>1, <2>2
<1>5. ASSUME NEW q \in Requests, Request(q)
      PROVE  (parent.status = "over" => parent'.status = "over") /\ crashes' = crashes
  <2>1. crashes' = crashes BY <1>5, RequestEffect
  <2>2. parent.status = "over" => parent'.status = "over"
    BY <1>1, <1>5 DEF Request, CancelRun, SignalRun, TerminateRun, ListForRequest, RequestDone, RequestRefused, Parents
  <2> QED BY <2>1, <2>2
<1>6. CASE Process BY <1>6, ProcessEffect
<1> QED BY <1>2, <1>3, <1>4, <1>5, <1>6 DEF Next

\* A row that keeps what it has frozen, and ends in no other way than a
\* cancellation.
LEMMA FrozenFrame ==
    ASSUME Inv, Next, NEW c \in Children,
           row'[c].frozen = row[c].frozen \/ ~row'[c].frozen,
           row'[c].status = row[c].status \/ row'[c].status # "failed",
           task'[c].pc = task[c].pc \/ task'[c].pc \notin {"working", "ending", "committing"},
           task'[c].end = task[c].end
    PROVE  FrozenTask(c)' /\ FrozenCount(c)'
<1>1. FrozenTask(c) /\ FrozenCount(c) BY DEF Inv, FrozenTrue, FrozenCounts, FrozenCount
<1>2. refusals \in Nat BY DEF Inv, Types
<1>3. refusals' \in Nat /\ refusals' >= refusals BY CountsGrow
<1>4. FrozenTask(c)' BY <1>1, <1>2, <1>3 DEF FrozenTask
<1>5. refusals > 0 => refusals' > 0 BY <1>2, <1>3
<1>6. row'[c].frozen => row[c].frozen OBVIOUS
<1>7. row'[c].status = "failed" => row[c].status = "failed" OBVIOUS
<1>8. FrozenCount(c)' BY <1>1, <1>5, <1>6, <1>7, OverStays DEF FrozenCount
<1> QED BY <1>4, <1>8

\* An executor that fails has frozen no report, or has met a refusal.
LEMMA ExecutorFrozen ==
    ASSUME Inv, Next, NEW c \in Children, Executor(c)
    PROVE  FrozenTask(c)' /\ FrozenCount(c)'
<1>1. Types /\ TaskTrue(c) /\ FrozenTask(c) /\ FrozenCount(c)
  BY DEF Inv, TasksTrue, FrozenTrue, FrozenCounts, FrozenCount
<1>2. task[c] \in Tasks /\ row[c] \in Rows /\ refusals \in Nat BY <1>1 DEF Types
<1>3. refusals' \in Nat /\ refusals' >= refusals BY CountsGrow
<1>4. FrozenCount(c) /\ row'[c].status = row[c].status /\ row'[c].frozen = row[c].frozen => FrozenCount(c)'
  BY <1>2, <1>3, OverStays DEF FrozenCount
<1>5. ASSUME NEW how \in {"returned", "raised", "cancelled"}, Leave(c, how) PROVE FrozenTask(c)'
  <2>1. task'[c].pc = how BY <1>1, <1>5, LeaveEffect DEF TaskTrue, Over
  <2> QED BY <2>1 DEF FrozenTask
<1>6. ASSUME End(c, task[c].end), task[c].pc = "committing" PROVE FrozenCount(c)'
  <2>1. task[c].end \in Terminal BY <1>1, <1>2, <1>6 DEF TaskTrue, Tasks, Terminal
  <2>2. CASE row[c].status \in Active
    <3>1. row'[c].status = task[c].end /\ row'[c].frozen = row[c].frozen BY <1>1, <1>6, <2>1, <2>2, EndEffect
    <3>2. row[c].frozen /\ task[c].end = "failed" => refusals > 0 BY <1>1, <1>6 DEF FrozenTask
    <3> QED BY <1>2, <1>3, <3>1, <3>2 DEF FrozenCount
  <2>3. CASE row[c].status \notin Active
    <3>1. row' = row BY <1>1, <1>6, <2>1, <2>3, EndEffect
    <3> QED BY <1>1, <1>4, <3>1
  <2> QED BY <2>2, <2>3
<1>7. CASE Claim(c)
  <2>1. CASE row[c].status \in Active /\ row' = [row EXCEPT ![c].status = "running"]
             /\ IF row[c].frozen THEN Goto(c, "ending", "completed") ELSE Goto(c, "working", "none")
    <3>1. row'[c].status = "running" /\ row'[c].frozen = row[c].frozen BY <1>1, <2>1 DEF Types, Rows
    <3>2. FrozenCount(c)' BY <3>1 DEF FrozenCount
    <3>3. CASE row[c].frozen
      <4>1. task'[c].pc = "ending" /\ task'[c].end = "completed" BY <1>1, <2>1, <3>3, GotoEffect
      <4> QED BY <3>2, <4>1 DEF FrozenTask
    <3>4. CASE ~row[c].frozen
      <4>1. task'[c].pc = "working" BY <1>1, <2>1, <3>4, GotoEffect
      <4> QED BY <3>1, <3>2, <3>4, <4>1 DEF FrozenTask
    <3> QED BY <3>3, <3>4
  <2>2. CASE row' = row /\ Leave(c, "returned") BY <1>1, <1>4, <1>5, <2>2
  <2> QED BY <1>7, <2>1, <2>2 DEF Claim
<1>8. CASE Report(c)
  <2>1. row'[c].status = "running" BY <1>1, <1>8 DEF Report, Types, Rows
  <2>2. task'[c].pc = "ending" /\ task'[c].end = "completed" BY <1>1, <1>8, GotoEffect DEF Report
  <2> QED BY <2>1, <2>2 DEF FrozenTask, FrozenCount
<1>9. CASE Retry(c)
  <2>1. row'[c].status = "retry_wait" BY <1>1, <1>9 DEF Retry, Types, Rows
  <2>2. Goto(c, "sleeping", "none") BY <1>9 DEF Retry
  <2>3. task'[c].pc = "sleeping" BY <1>1, <2>2, GotoEffect
  <2> QED BY <2>1, <2>3 DEF FrozenTask, FrozenCount
<1>10. CASE Break(c)
  <2>1. row' = row /\ ~row[c].frozen BY <1>1, <1>10 DEF Break, At, FrozenTask
  <2> QED BY <1>1, <1>4, <2>1 DEF FrozenTask, FrozenCount
<1>11. CASE Lose(c) BY <1>1, <1>4, <1>5, <1>11 DEF Lose
<1>12. CASE PassBarrier(c)
  <2>1. row' = row /\ task[c].pc = "ending" /\ Goto(c, "committing", task[c].end) BY <1>12 DEF PassBarrier, At
  <2>2. task'[c].pc = "committing" /\ task'[c].end = task[c].end BY <1>1, <1>2, <2>1, GotoEffect DEF Tasks
  <2>3. FrozenTask(c)' BY <1>1, <1>2, <1>3, <2>1, <2>2 DEF FrozenTask
  <2> QED BY <1>1, <1>4, <2>1, <2>3
<1>13. CASE Finalize(c) BY <1>5, <1>6, <1>13 DEF Finalize, At
<1>14. CASE Refused(c)
  <2>1. row' = row /\ refusals' > 0 BY <1>1, <1>14, BusyCounts DEF Refused
  <2>2. CASE Goto(c, "committing", "failed")
    <3>1. task'[c].pc = "committing" BY <1>1, <2>2, GotoEffect
    <3> QED BY <2>1, <3>1 DEF FrozenTask, FrozenCount
  <2>3. CASE Leave(c, "raised") BY <1>5, <2>1, <2>3 DEF FrozenCount
  <2> QED BY <1>14, <2>2, <2>3 DEF Refused
<1>15. CASE Cancelled(c) BY <1>1, <1>4, <1>5, <1>6, <1>15 DEF Cancelled
<1> QED BY <1>7, <1>8, <1>9, <1>10, <1>11, <1>12, <1>13, <1>14, <1>15 DEF Executor

\* A frozen report counts, also after the step.
LEMMA FrozenKept ==
    ASSUME Inv, Next
    PROVE  FrozenTrue' /\ FrozenCounts'
<1>1. Types /\ Delegation BY DEF Inv
<1>2. SUFFICES ASSUME NEW c \in Children PROVE FrozenTask(c)' /\ FrozenCount(c)'
  BY DEF FrozenTrue, FrozenCounts, FrozenCount
<1>3. ASSUME Cancels PROVE /\ row'[c].frozen = row[c].frozen
                           /\ row'[c].status = row[c].status \/ row'[c].status # "failed"
  <2>1. CASE UNCHANGED <<row, events>> BY <2>1
  <2>2. ASSUME NEW d \in Children, End(d, "cancelled")
        PROVE  /\ row'[c].frozen = row[c].frozen
               /\ row'[c].status = row[c].status \/ row'[c].status # "failed"
    <3>1. CASE c = d BY <1>1, <2>2, <3>1, EndEffect DEF Terminal
    <3>2. CASE c # d BY <1>1, <2>2, <3>2, EndEffect DEF Terminal
    <3> QED BY <3>1, <3>2
  <2> QED BY <1>3, <2>1, <2>2 DEF Cancels
<1>4. ASSUME NEW C \in SUBSET Children, task' = Signalled(C)
      PROVE  task'[c].pc = task[c].pc /\ task'[c].end = task[c].end
  BY <1>1, <1>4, SignalEffect
<1>5. ASSUME NEW d \in Children, Executor(d) PROVE FrozenTask(c)' /\ FrozenCount(c)'
  <2>1. CASE c = d BY <1>5, <2>1, ExecutorFrozen
  <2>2. CASE c # d
    <3>1. row'[c] = row[c] /\ task'[c] = task[c] BY <1>5, <2>2, ExecutorEffect
    <3> QED BY <3>1, FrozenFrame
  <2> QED BY <2>1, <2>2
<1>6. ASSUME NEW w \in Requests \cup {Parent}, Sweep(w) PROVE FrozenTask(c)' /\ FrozenCount(c)'
  <2>1. task'[c].pc = task[c].pc /\ task'[c].end = task[c].end
    <3>1. CASE task' = task BY <3>1
    <3>2. ASSUME NEW d \in Children, task' = Signalled({d}) PROVE task'[c].pc = task[c].pc /\ task'[c].end = task[c].end
      BY <1>4, <3>2
    <3> QED BY <1>6, <3>1, <3>2, SweepEffect
  <2>2. Cancels BY <1>6, SweepEffect
  <2> QED BY <1>3, <2>1, <2>2, FrozenFrame
<1>7. ASSUME NEW q \in Requests, Request(q) PROVE FrozenTask(c)' /\ FrozenCount(c)'
  <2>1. task'[c].pc = task[c].pc /\ task'[c].end = task[c].end
    <3>1. CASE task' = task BY <3>1
    <3>2. CASE SignalRun(q) /\ request[q].child # None
      <4>1. {request[q].child} \in SUBSET Children BY <1>1, <3>2 DEF Types, Asking
      <4> QED BY <1>4, <3>2, <4>1 DEF SignalRun
    <3>3. CASE task' = Signalled(Awaited)
      <4>1. Awaited \in SUBSET Children BY <1>1, Numbers DEF Awaited, Types, Children
      <4> QED BY <1>4, <3>3, <4>1
    <3>4. task' = task \/ (SignalRun(q) /\ request[q].child # None) \/ task' = Signalled(Awaited)
      BY <1>7 DEF Request, CancelRun, SignalRun, TerminateRun, ListForRequest, RequestDone, RequestRefused
    <3> QED BY <3>1, <3>2, <3>3, <3>4
  <2>2. Cancels BY <1>7, RequestEffect
  <2> QED BY <1>3, <2>1, <2>2, FrozenFrame
<1>8. CASE ParentTask
  <2>1. \/ task'[c].pc = task[c].pc /\ task'[c].end = task[c].end
        \/ task'[c].pc = "created"
    <3>1. CASE task' = task BY <3>1
    <3>2. CASE task' = Signalled(Awaited)
      <4>1. Awaited \in SUBSET Children BY <1>1, Numbers DEF Awaited, Types, Children
      <4> QED BY <1>4, <3>2, <4>1
    <3>3. ASSUME NEW C, NEW round, task' = Started(C, round)
          PROVE  task'[c] = task[c] \/ task'[c].pc = "created"
      <4>1. [NoTask EXCEPT !.pc = "created", !.round = round].pc = "created" BY DEF NoTask
      <4> QED BY <3>3, <4>1 DEF Started
    <3>4. task' = task \/ task' = Signalled(Awaited) \/ \E C, round : task' = Started(C, round)
      BY <1>8 DEF ParentTask, Delegate, PersistChildren, StartChildren, Gathered, GatherRaised, GatherCancelled,
        ToolTimeout, ToolAborted, Unwound, CleanedUp, Spawn, PersistSpawned, StartSpawned, CancelTool, ToolDone, Finish,
        FinishRefused, ListChildren, AllSwept, SweepRefused, ParentCancelled
    <3> QED BY <3>1, <3>2, <3>3, <3>4
  <2>2. /\ row'[c].frozen = row[c].frozen \/ ~row'[c].frozen
        /\ row'[c].status = row[c].status \/ row'[c].status # "failed"
    <3>1. CASE Cancels BY <1>3, <3>1
    <3>2. ASSUME NEW C \in SUBSET Children, Creates(C)
          PROVE  row'[c] = row[c] \/ (~row'[c].frozen /\ row'[c].status = "queued")
      BY <1>1, <3>2, CreatesStay
    <3> QED BY <1>8, <3>1, <3>2, ParentEffect
  <2>3. CASE task'[c].pc = task[c].pc /\ task'[c].end = task[c].end BY <2>2, <2>3, FrozenFrame
  <2>4. CASE task'[c].pc = "created"
    <3>1. FrozenTask(c)' BY <2>4 DEF FrozenTask
    <3>2. FrozenCount(c) BY DEF Inv, FrozenCounts, FrozenCount
    <3>3. refusals \in Nat BY <1>1 DEF Types
    <3>4. refusals > 0 => refusals' > 0 BY <3>3, CountsGrow
    <3>5. FrozenCount(c)' BY <2>2, <3>2, <3>4, OverStays DEF FrozenCount
    <3> QED BY <3>1, <3>5
  <2> QED BY <2>1, <2>3, <2>4
<1>9. CASE Process
  <2>1. CASE Crash
    <3>1. task'[c].pc = "none" /\ row' = row BY <2>1 DEF Crash, NoTask
    <3>2. FrozenTask(c)' BY <3>1 DEF FrozenTask
    <3>3. FrozenCount(c) BY DEF Inv, FrozenCounts, FrozenCount
    <3>4. refusals' = refusals BY <1>9, ProcessEffect
    <3>5. FrozenCount(c)' BY <3>1, <3>3, <3>4, OverStays DEF FrozenCount
    <3> QED BY <3>2, <3>5
  <2>2. CASE Restart
    <3>1. task'[c].pc \in {"none", "created"}
      <4>1. task[c].pc = "none" BY <2>2 DEF Restart, Inv, Down, NoTask
      <4>2. [NoTask EXCEPT !.pc = "created", !.round = 0].pc = "created" BY DEF NoTask
      <4> QED BY <2>2, <4>1, <4>2 DEF Restart, Started
    <3>2. FrozenTask(c)' BY <3>1 DEF FrozenTask
    <3>3. FrozenCount(c) BY DEF Inv, FrozenCounts, FrozenCount
    <3>4. refusals' = refusals /\ crashes' > 0 /\ parent'.status = parent.status BY <1>9, ProcessEffect
    <3>5. parent.status \in {"active", "over"} BY <1>1 DEF Types, Parents
    <3>6. row'[c].status = "failed" => row'[c] = row[c] \/ parent.status = "over"
      BY <1>1, <2>2, <3>5, RestartEffect
    <3>7. FrozenCount(c)' BY <3>3, <3>4, <3>6 DEF FrozenCount
    <3> QED BY <3>2, <3>7
  <2> QED BY <1>9, <2>1, <2>2 DEF Process
<1> QED BY <1>5, <1>6, <1>7, <1>8, <1>9 DEF Next

-----------------------------------------------------------------------------
(* One end of each child.                                                  *)

\* No child ends, and no end is told.
Quiet ==
    /\ events' = events
    /\ \A c \in Children :
         row'[c].status = row[c].status \/ {row[c].status, row'[c].status} \cap Terminal = {}

\* A step ends no child, or one that somebody ends by its transaction, or all
\* that are active with their parent at the next start.
LEMMA EndsByOne ==
    ASSUME Inv, Next
    PROVE  \/ Quiet
           \/ \E c \in Children, status \in Terminal : End(c, status)
           \/ Restart /\ parent.status = "over"
<1>1. Types BY DEF Inv
<1>2. CASE Cancels BY <1>2 DEF Cancels, Quiet, Terminal
<1>3. ASSUME row' = row, events' = events PROVE Quiet BY <1>3 DEF Quiet
<1>4. ASSUME NEW c \in Children, Executor(c)
      PROVE  Quiet \/ \E status \in Terminal : End(c, status)
  <2>1. ASSUME row'[c].status \notin Terminal, row[c].status \notin Terminal, events' = events PROVE Quiet
    <3>1. \A d \in Children : d # c => row'[d] = row[d] BY <1>4, ExecutorEffect
    <3> QED BY <2>1, <3>1 DEF Quiet
  <2>2. ASSUME task[c].pc = "committing" PROVE task[c].end \in Terminal
    <3>1. task[c] \in Tasks /\ TaskTrue(c) BY DEF Inv, Types, TasksTrue
    <3> QED BY <2>2, <3>1 DEF TaskTrue, Tasks, Terminal
  <2>3. CASE Claim(c)
    <3>1. CASE row[c].status \in Active /\ row' = [row EXCEPT ![c].status = "running"]
      <4>1. row'[c].status = "running" BY <1>1, <3>1 DEF Types, Rows
      <4> QED BY <2>1, <2>3, <3>1, <4>1 DEF Claim, Active, Terminal
    <3>2. events' = events BY <2>3 DEF Claim
    <3>3. CASE row' = row BY <1>3, <3>2, <3>3
    <3> QED BY <2>3, <3>1, <3>3 DEF Claim
  <2>4. CASE Report(c)
    <3>1. row'[c].status = "running" BY <1>1, <2>4 DEF Report, Types, Rows
    <3> QED BY <2>1, <2>4, <3>1 DEF Report, Terminal
  <2>5. CASE Retry(c)
    <3>1. row'[c].status = "retry_wait" BY <1>1, <2>5 DEF Retry, Types, Rows
    <3> QED BY <2>1, <2>5, <3>1 DEF Retry, Terminal
  <2>6. CASE Break(c) \/ Lose(c) \/ PassBarrier(c) \/ Refused(c)
    <3>1. row' = row /\ events' = events BY <2>6 DEF Break, Lose, PassBarrier, Refused
    <3> QED BY <1>3, <3>1
  <2>7. CASE Finalize(c) BY <2>2, <2>7 DEF Finalize, At
  <2>8. CASE Cancelled(c)
    <3>1. (row' = row /\ events' = events) \/ (task[c].pc = "committing" /\ End(c, task[c].end))
      BY <2>8 DEF Cancelled
    <3>2. CASE row' = row /\ events' = events BY <1>3, <3>2
    <3> QED BY <2>2, <3>1, <3>2
  <2> QED BY <1>4, <2>3, <2>4, <2>5, <2>6, <2>7, <2>8 DEF Executor
<1>5. ASSUME NEW w \in Requests \cup {Parent}, Sweep(w) PROVE Cancels BY <1>5, SweepEffect
<1>6. CASE ParentTask
  <2>1. ASSUME NEW C \in SUBSET Children, Creates(C) PROVE Quiet
    <3>1. events' = events /\ \A c \in C : row[c].status = "absent" BY <2>1 DEF Creates
    <3>2. /\ \A c \in C : row'[c].status = "queued"
          /\ \A c \in Children \ C : row'[c] = row[c]
      BY <1>1, <2>1, CreatesStay
    <3> QED BY <3>1, <3>2 DEF Quiet, Terminal
  <2> QED BY <1>2, <1>6, <2>1, ParentEffect
<1>7. ASSUME NEW q \in Requests, Request(q) PROVE Cancels BY <1>7, RequestEffect
<1>8. CASE Crash BY <1>3, <1>8 DEF Crash
<1>9. CASE Restart /\ parent.status = "active"
  <2>1. /\ events' = events
        /\ \A c \in Children : row[c].status \in Active => row'[c].status = "queued"
        /\ \A c \in Children : row[c].status \notin Active => row'[c] = row[c]
    BY <1>1, <1>9, RestartEffect
  <2> QED BY <2>1 DEF Quiet, Active, Terminal
<1>10. parent.status \in {"active", "over"} BY <1>1 DEF Types, Parents
<1> QED BY <1>2, <1>4, <1>5, <1>6, <1>7, <1>8, <1>9, <1>10 DEF Next, Process

\* Who has told the parent has ended.
LEMMA ToldHaveEnded ==
    ASSUME Types, OneProjection, NEW i \in DOMAIN events
    PROVE  /\ events[i] \in Children \X Terminal
           /\ events[i][1] \in Children
           /\ row[events[i][1]].status = events[i][2]
           /\ row[events[i][1]].status \in Terminal
<1>1. events[i] \in Children \X Terminal BY DEF Types
<1>2. events[i][2] = row[events[i][1]].status BY DEF OneProjection
<1> QED BY <1>1, <1>2

\* The rows that have ended and the parent's log agree after each step.
LEMMA OneProjectionKept ==
    ASSUME Inv, Next
    PROVE  OneProjection'
<1>1. Types /\ OneProjection BY DEF Inv
<1>2. \A i \in DOMAIN events : events[i][1] \in Children /\ row[events[i][1]].status \in Terminal
  BY <1>1, ToldHaveEnded
<1>3. CASE Quiet
  <2>1. \A c \in Children : row[c].status \in Terminal \/ row'[c].status \in Terminal => row'[c].status = row[c].status
    BY <1>3 DEF Quiet
  <2>2. events' = events BY <1>3 DEF Quiet
  <2> QED BY <1>1, <1>2, <2>1, <2>2 DEF OneProjection
<1>4. ASSUME NEW c \in Children, NEW status \in Terminal, End(c, status) PROVE OneProjection'
  <2>1. CASE row[c].status \notin Active
    <3>1. row' = row /\ events' = events BY <1>1, <1>4, <2>1, EndEffect
    <3> QED BY <1>1, <3>1 DEF OneProjection
  <2>2. CASE row[c].status \in Active
    <3>1. /\ row'[c].status = status
          /\ \A d \in Children : d # c => row'[d] = row[d]
          /\ events' = Append(events, <<c, status>>)
      BY <1>1, <1>4, <2>2, EndEffect
    <3> DEFINE n == Len(events) + 1
    <3>2. events \in Seq(Children \X Terminal) /\ n \in Nat \ {0} BY <1>1 DEF Types
    <3>3. /\ DOMAIN events = 1 .. Len(events)
          /\ DOMAIN events' = 1 .. n
          /\ \A i \in 1 .. Len(events) : events'[i] = events[i]
          /\ events'[n] = <<c, status>>
      BY <3>1, <3>2
    <3>4. \A i \in DOMAIN events : events[i][1] # c BY <1>2, <2>2 DEF Active, Terminal
    <3>5. \A i \in DOMAIN events' : i \in DOMAIN events \/ i = n BY <3>2, <3>3
    <3>6. DOMAIN events \subseteq DOMAIN events' /\ n \in DOMAIN events' BY <3>2, <3>3
    <3>7. \A d \in Children : row'[d].status \in Terminal =>
            \E i \in DOMAIN events' : events'[i] = <<d, row'[d].status>>
      <4>1. SUFFICES ASSUME NEW d \in Children, row'[d].status \in Terminal
                     PROVE  \E i \in DOMAIN events' : events'[i] = <<d, row'[d].status>>
        OBVIOUS
      <4>2. CASE d = c BY <3>1, <3>3, <3>6, <4>2
      <4>3. CASE d # c
        <5>1. row'[d] = row[d] BY <3>1, <4>3
        <5>2. PICK i \in DOMAIN events : events[i] = <<d, row[d].status>> BY <1>1, <4>1, <5>1 DEF OneProjection
        <5> QED BY <3>3, <3>6, <5>1, <5>2
      <4> QED BY <4>2, <4>3
    <3>8. ASSUME NEW i \in DOMAIN events' PROVE events'[i][2] = row'[events'[i][1]].status
      <4>1. CASE i = n BY <3>1, <3>3, <4>1
      <4>2. CASE i \in DOMAIN events BY <1>1, <1>2, <3>1, <3>3, <3>4, <4>2 DEF OneProjection
      <4> QED BY <3>5, <4>1, <4>2
    <3>9. ASSUME NEW i \in DOMAIN events', NEW j \in DOMAIN events', events'[i][1] = events'[j][1] PROVE i = j
      <4>1. CASE i \in DOMAIN events /\ j \in DOMAIN events BY <1>1, <3>3, <3>9, <4>1 DEF OneProjection
      <4>2. CASE i = n /\ j \in DOMAIN events BY <3>3, <3>4, <3>9, <4>2
      <4>3. CASE j = n /\ i \in DOMAIN events BY <3>3, <3>4, <3>9, <4>3
      <4> QED BY <3>5, <4>1, <4>2, <4>3
    <3> QED BY <3>7, <3>8, <3>9 DEF OneProjection
  <2> QED BY <2>1, <2>2
<1>5. CASE Restart /\ parent.status = "over"
  <2> DEFINE E == {<<c, "failed">> : c \in ActiveChildren}
             ends == SetToSeq(E)
             n == Len(events)
             m == Len(ends)
  <2>1. /\ \A c \in Children : row[c].status \notin Active => row'[c] = row[c]
        /\ \A c \in Children : row[c].status \in Active => row'[c].status = "failed"
        /\ events' = events \o ends
    BY <1>1, <1>5, RestartEffect
  <2>2. ActiveChildren \in SUBSET Children BY DEF ActiveChildren
  <2>3. /\ ends \in Seq(E)
        /\ \A i, j \in DOMAIN ends : ends[i] = ends[j] => i = j
        /\ \A c \in ActiveChildren : \E i \in DOMAIN ends : ends[i] = <<c, "failed">>
    BY <2>2, FailedEnds
  <2> HIDE DEF ends
  <2>4. \A k \in DOMAIN ends : ends[k] \in E BY <2>3
  <2>5. \A k \in DOMAIN ends : ends[k][1] \in ActiveChildren /\ ends[k] = <<ends[k][1], "failed">> BY <2>4
  <2> HIDE DEF E
  <2>6. events \in Seq(Children \X Terminal) /\ n \in Nat /\ m \in Nat BY <1>1, <2>3 DEF Types
  <2>7. /\ DOMAIN events = 1 .. n /\ DOMAIN ends = 1 .. m
        /\ DOMAIN events' = 1 .. (n + m)
        /\ \A i \in 1 .. n : events'[i] = events[i]
        /\ \A i \in 1 .. m : events'[n + i] = ends[i]
    <3>1. Len(events') = n + m BY <2>1, <2>3, <2>6
    <3>2. DOMAIN events = 1 .. n /\ DOMAIN ends = 1 .. m BY <2>3, <2>6
    <3>3. events' \in Seq(Children \X Terminal) BY <1>1, <1>5, RestartEffect
    <3>4. DOMAIN events' = 1 .. (n + m) BY <3>1, <3>3
    <3>5. \A i \in 1 .. n : events'[i] = events[i] BY <2>1, <2>3, <2>6
    <3>6. \A i \in 1 .. m : events'[n + i] = ends[i] BY <2>1, <2>3, <2>6
    <3> QED BY <3>2, <3>4, <3>5, <3>6
  <2>8. \A i \in DOMAIN events' : i \in DOMAIN events \/ \E k \in DOMAIN ends : i = n + k
    <3>1. SUFFICES ASSUME NEW i \in 1 .. (n + m), i \notin 1 .. n PROVE \E k \in 1 .. m : i = n + k BY <2>7
    <3>2. i - n \in 1 .. m /\ i = n + (i - n) BY <2>6, <3>1
    <3> QED BY <3>2
  <2>9. DOMAIN events \subseteq DOMAIN events' /\ \A k \in DOMAIN ends : n + k \in DOMAIN events' BY <2>6, <2>7
  <2>10. \A i \in DOMAIN events : events[i][1] \notin ActiveChildren
    BY <1>2 DEF ActiveChildren, Active, Terminal
  <2>11. ASSUME NEW d \in Children, row'[d].status \in Terminal
         PROVE  \E i \in DOMAIN events' : events'[i] = <<d, row'[d].status>>
    <3>1. CASE d \in ActiveChildren
      <4>1. row'[d].status = "failed" BY <2>1, <3>1 DEF ActiveChildren
      <4>2. PICK k \in DOMAIN ends : ends[k] = <<d, "failed">> BY <2>3, <3>1
      <4>3. events'[n + k] = ends[k] /\ n + k \in DOMAIN events' BY <2>7, <2>9
      <4> QED BY <4>1, <4>2, <4>3
    <3>2. CASE d \notin ActiveChildren
      <4>1. row'[d] = row[d] BY <2>1, <3>2 DEF ActiveChildren
      <4>2. PICK i \in DOMAIN events : events[i] = <<d, row[d].status>> BY <1>1, <2>11, <4>1 DEF OneProjection
      <4>3. events'[i] = events[i] /\ i \in DOMAIN events' BY <2>7, <2>9
      <4> QED BY <4>1, <4>2, <4>3
    <3> QED BY <3>1, <3>2
  <2>12. ASSUME NEW i \in DOMAIN events' PROVE events'[i][2] = row'[events'[i][1]].status
    <3>1. CASE i \in DOMAIN events
      <4>1. events'[i] = events[i] BY <2>7, <3>1
      <4>2. events[i][1] \in Children /\ row[events[i][1]].status \notin Active
        BY <1>2, <3>1 DEF Active, Terminal
      <4>3. row'[events[i][1]] = row[events[i][1]] BY <2>1, <4>2
      <4>4. events[i][2] = row[events[i][1]].status BY <1>1, <3>1 DEF OneProjection
      <4> QED BY <4>1, <4>3, <4>4
    <3>2. ASSUME NEW k \in DOMAIN ends, i = n + k PROVE events'[i][2] = row'[events'[i][1]].status
      <4>1. events'[i] = ends[k] BY <2>7, <3>2
      <4>2. ends[k][1] \in ActiveChildren /\ ends[k] = <<ends[k][1], "failed">> BY <2>5
      <4>3. row'[ends[k][1]].status = "failed" BY <2>1, <4>2 DEF ActiveChildren
      <4> QED BY <4>1, <4>2, <4>3
    <3> QED BY <2>8, <3>1, <3>2
  <2>13. ASSUME NEW i \in DOMAIN events', NEW j \in DOMAIN events', events'[i][1] = events'[j][1] PROVE i = j
    <3>1. CASE i \in DOMAIN events /\ j \in DOMAIN events
      <4>1. events'[i] = events[i] /\ events'[j] = events[j] BY <2>7, <3>1
      <4> QED BY <1>1, <2>13, <3>1, <4>1 DEF OneProjection
    <3>2. ASSUME NEW k \in DOMAIN ends, NEW h \in DOMAIN events PROVE events'[n + k][1] # events'[h][1]
      <4>1. events'[n + k] = ends[k] /\ events'[h] = events[h] BY <2>7
      <4> QED BY <2>5, <2>10, <4>1
    <3>3. ASSUME NEW k \in DOMAIN ends, NEW h \in DOMAIN ends, i = n + k, j = n + h PROVE i = j
      <4>1. events'[i] = ends[k] /\ events'[j] = ends[h] BY <2>7, <3>3
      <4>2. ends[k] = ends[h] BY <2>5, <2>13, <4>1
      <4> QED BY <2>3, <3>3, <4>2
    <3>4. i \in DOMAIN events \/ \E k \in DOMAIN ends : i = n + k BY <2>8
    <3>5. j \in DOMAIN events \/ \E k \in DOMAIN ends : j = n + k BY <2>8
    <3> QED BY <2>13, <3>1, <3>2, <3>3, <3>4, <3>5
  <2> QED BY <2>11, <2>12, <2>13 DEF OneProjection
<1> QED BY <1>3, <1>4, <1>5, EndsByOne

-----------------------------------------------------------------------------
(* What the delegation reports.                                            *)

\* A delegation whose children have all returned has seen their ends.
LEMMA GatheredEnds ==
    ASSUME Inv, Gathered, NEW c \in Planned
    PROVE  row[c].status \in Terminal \/ Excused(c)
<1>1. Types /\ Delegation /\ parent.pc = "gather" /\ up /\ c \in Children
  BY Numbers DEF Inv, Gathered, Is, Types, Children
<1>2. CASE c \in parent.seen BY <1>1, <1>2 DEF Delegation
<1>3. CASE c \notin parent.seen
  <2>1. c \in Awaited BY <1>3 DEF Awaited
  <2>2. ~AtWork(c) BY <2>1 DEF Gathered, AllLeft
  <2>3. task[c].pc \notin {"raised", "cancelled"} BY <2>1 DEF Gathered, Left
  <2>4. task[c].pc # "none" BY <1>1, <2>1 DEF Inv, TasksTrue
  <2>5. ~InStep(c) BY <2>2, <2>3, <2>4 DEF AtWork, Over, InStep
  <2>6. ~InCleanup(c) BY <1>1 DEF InCleanup
  <2> QED BY <1>1, <2>5, <2>6 DEF Inv, TasksTrue, TaskTrue, Covered
<1> QED BY <1>2, <1>3

\* What the delegation has reported stays true.
LEMMA ReportsKept ==
    ASSUME Inv, Next
    PROVE  ReportsTrue'
<1>1. Types /\ ReportsTrue /\ RowsStay BY RowsOnlyStay DEF Inv
<1>2. refusals \in Nat BY <1>1 DEF Types
<1>3. refusals' \in Nat /\ refusals' >= refusals /\ stopped \subseteq stopped' BY CountsGrow
<1>4. Assignments \subseteq Children BY DEF Children
<1>5. ASSUME NEW c \in Assignments, told'[c] = told[c], told[c] # "none"
      PROVE  \/ told'[c] = row'[c].status /\ told'[c] \in Terminal
             \/ refusals' > 0 \/ c \in stopped'
  <2>1. \/ told[c] = row[c].status /\ told[c] \in Terminal
        \/ refusals > 0 \/ c \in stopped
    BY <1>1, <1>5 DEF ReportsTrue
  <2>2. row[c].status \in Terminal => row'[c] = row[c] BY <1>1, <1>4 DEF RowsStay
  <2> QED BY <1>2, <1>3, <1>5, <2>1, <2>2
<1>6. CASE told' = told BY <1>5, <1>6 DEF ReportsTrue
<1>7. CASE Gathered
  <2>1. SUFFICES ASSUME NEW c \in Assignments, told'[c] # "none"
                 PROVE  \/ told'[c] = row'[c].status /\ told'[c] \in Terminal
                        \/ refusals' > 0 \/ c \in stopped'
    BY DEF ReportsTrue
  <2>2. told'[c] = IF c \in Planned THEN row[c].status ELSE told[c] BY <1>7 DEF Gathered
  <2>3. CASE c \notin Planned BY <1>5, <2>1, <2>2, <2>3
  <2>4. CASE c \in Planned
    <3>1. row[c].status \in Terminal \/ Excused(c) BY <1>7, <2>4, GatheredEnds
    <3>2. row' = row BY <1>7 DEF Gathered
    <3> QED BY <1>2, <1>3, <2>2, <2>4, <3>1, <3>2 DEF Excused
  <2> QED BY <2>3, <2>4
<1>8. CASE ParentTask
  <2>1. told' = told \/ Gathered
    BY <1>8 DEF ParentTask, Delegate, PersistChildren, StartChildren, GatherRaised, GatherCancelled,
        ToolTimeout, ToolAborted, Unwound, CleanedUp, Spawn, PersistSpawned, StartSpawned, CancelTool, ToolDone, Finish,
        FinishRefused, ListChildren, AllSwept, SweepRefused, ParentCancelled
  <2> QED BY <1>6, <1>7, <2>1
<1>9. ASSUME NEW w \in Requests \cup {Parent}, Sweep(w) PROVE told' = told BY <1>9, SweepEffect
<1>10. ASSUME NEW c \in Children, Executor(c) PROVE told' = told BY <1>10, ExecutorEffect
<1>11. ASSUME NEW q \in Requests, Request(q) PROVE told' = told BY <1>11, RequestEffect
<1>12. CASE Process BY <1>6, <1>12, ProcessEffect
<1> QED BY <1>6, <1>8, <1>9, <1>10, <1>11, <1>12 DEF Next

-----------------------------------------------------------------------------
(* The order of the ends.                                                  *)

\* What has been calm after a step was so before it, and the process is up.
LEMMA CalmBefore ==
    ASSUME Inv, Next, Calm'
    PROVE  Calm /\ up /\ up' /\ ~Process /\ refusals' = 0
<1>1. Types BY DEF Inv
<1>2. refusals = 0 /\ stopped = {} /\ refusals' = 0
  <2>1. refusals \in Nat BY <1>1 DEF Types
  <2> QED BY <2>1, CountsGrow DEF Calm
<1>3. crashes = 0
  <2>1. crashes \in Nat BY <1>1 DEF Types
  <2>2. crashes > 0 => crashes' > 0 BY OverStays
  <2> QED BY <2>1, <2>2 DEF Calm
<1>4. up BY <1>3 DEF Inv, Down
<1>5. up' BY DownKept DEF Down, Calm
<1>6. ~Process BY ProcessEffect DEF Calm
<1> QED BY <1>2, <1>3, <1>4, <1>5, <1>6 DEF Calm

\* What the step of an executor does to its task and the events of its round.
LEMMA ExecutorMoves ==
    ASSUME Inv, NEW c \in Children, Executor(c)
    PROVE  \/ task'[c].pc \in {"returned", "raised", "cancelled"}
           \/ /\ turn' = turn /\ task'[c].round = task[c].round
              /\ task'[c].pc = "committing" => task[c].pc = "committing" \/ InTurn(c)
<1>1. Types /\ (task[c].round # 0 => c \in Planned) /\ task[c] \in Tasks
  BY DEF Inv, TasksTrue, TaskTrue, Types
<1>2. ASSUME NEW how \in {"returned", "raised", "cancelled"}, Leave(c, how) PROVE task'[c].pc = how
  BY <1>1, <1>2, LeaveEffect DEF Over
<1>3. ASSUME NEW pc \in {"working", "sleeping", "ending", "committing"}, NEW end \in {"none", "completed", "failed"},
             Goto(c, pc, end)
      PROVE  task'[c].round = task[c].round /\ task'[c].pc = pc
  BY <1>1, <1>3, GotoEffect
<1>4. CASE Claim(c)
  <2>1. CASE turn' = turn /\ Goto(c, "ending", "completed") BY <1>3, <2>1
  <2>2. CASE turn' = turn /\ Goto(c, "working", "none") BY <1>3, <2>2
  <2>3. CASE Leave(c, "returned") BY <1>2, <2>3
  <2> QED BY <1>4, <2>1, <2>2, <2>3 DEF Claim
<1>5. CASE Report(c)
  <2>1. turn' = turn /\ Goto(c, "ending", "completed") BY <1>5 DEF Report
  <2> QED BY <1>3, <2>1
<1>6. CASE Retry(c)
  <2>1. turn' = turn /\ Goto(c, "sleeping", "none") BY <1>6 DEF Retry
  <2> QED BY <1>3, <2>1
<1>7. CASE Break(c)
  <2>1. turn' = turn /\ Goto(c, "ending", "failed") BY <1>7 DEF Break
  <2> QED BY <1>3, <2>1
<1>8. CASE Lose(c) BY <1>2, <1>8 DEF Lose
<1>9. CASE PassBarrier(c)
  <2>1. turn' = turn /\ Goto(c, "committing", task[c].end) /\ InTurn(c) BY <1>9 DEF PassBarrier
  <2>2. task[c].end \in {"none", "completed", "failed"} BY <1>1 DEF Tasks
  <2> QED BY <1>3, <2>1, <2>2
<1>10. CASE Finalize(c) BY <1>2, <1>10 DEF Finalize
<1>11. CASE Refused(c)
  <2>1. CASE Goto(c, "committing", "failed") /\ turn' = turn /\ task[c].pc = "committing" BY <1>3, <2>1
  <2>2. CASE Leave(c, "raised") BY <1>2, <2>2
  <2> QED BY <1>11, <2>1, <2>2 DEF Refused, At
<1>12. CASE Cancelled(c) BY <1>2, <1>12 DEF Cancelled
<1> QED BY <1>4, <1>5, <1>6, <1>7, <1>8, <1>9, <1>10, <1>11, <1>12 DEF Executor

\* Who is not an executor starts tasks, signals them or leaves them alone.
LEMMA OthersTasks ==
    ASSUME Inv, Next, ~Process, \A c \in Children : ~Executor(c)
    PROVE  \/ StartChildren
           \/ StartSpawned
           \/ /\ turn' = turn
              /\ \A c \in Children : task'[c].pc = task[c].pc /\ task'[c].round = task[c].round
<1>1. Types BY DEF Inv
<1> DEFINE Same == \A c \in Children : task'[c].pc = task[c].pc /\ task'[c].round = task[c].round
<1>2. ASSUME task' = task PROVE Same BY <1>2
<1>3. ASSUME NEW C \in SUBSET Children, task' = Signalled(C) PROVE Same BY <1>1, <1>3, SignalEffect
<1>4. Awaited \in SUBSET Children BY <1>1, Numbers DEF Awaited, Types, Children
<1>5. ASSUME NEW w \in Requests \cup {Parent}, Sweep(w) PROVE turn' = turn /\ Same
  <2>1. turn' = turn BY <1>5, SweepEffect
  <2>2. Same
    <3>1. ASSUME NEW d \in Children, task' = Signalled({d}) PROVE Same BY <1>3, <3>1
    <3> QED BY <1>2, <1>5, <3>1, SweepEffect
  <2> QED BY <2>1, <2>2
<1>6. ASSUME NEW q \in Requests, Request(q) PROVE turn' = turn /\ Same
  <2>1. turn' = turn BY <1>6, RequestEffect
  <2>2. Same
    <3>1. CASE SignalRun(q) /\ request[q].child # None
      <4>1. {request[q].child} \in SUBSET Children BY <1>1, <3>1 DEF Types, Asking
      <4>2. task' = Signalled({request[q].child}) BY <3>1 DEF SignalRun
      <4> QED BY <1>3, <4>1, <4>2
    <3>2. CASE task' = Signalled(Awaited) BY <1>3, <1>4, <3>2
    <3>3. task' = task \/ (SignalRun(q) /\ request[q].child # None) \/ task' = Signalled(Awaited)
      BY <1>6 DEF Request, CancelRun, SignalRun, TerminateRun, ListForRequest, RequestDone, RequestRefused
    <3> QED BY <1>2, <3>1, <3>2, <3>3
  <2> QED BY <2>1, <2>2
<1>7. CASE ParentTask
  <2>1. StartChildren \/ StartSpawned \/ (turn' = turn /\ task' = task) \/ (turn' = turn /\ task' = Signalled(Awaited))
    BY <1>7 DEF ParentTask, Delegate, PersistChildren, Gathered, GatherRaised, GatherCancelled,
        ToolTimeout, ToolAborted, Unwound, CleanedUp, Spawn, PersistSpawned, CancelTool, ToolDone, Finish,
        FinishRefused, ListChildren, AllSwept, SweepRefused, ParentCancelled
  <2> QED BY <1>2, <1>3, <1>4, <2>1
<1> QED BY <1>5, <1>6, <1>7 DEF Next

\* Who is settled stays so.
LEMMA SettledKept ==
    ASSUME Inv, Next, Calm', NEW c \in Children, Settled(c)
    PROVE  Settled(c)'
<1>1. Types /\ up /\ up' /\ ~Process /\ refusals' = 0 BY CalmBefore DEF Inv
<1>2. CASE row[c].status \in Terminal
  <2>1. row'[c] = row[c] BY <1>2, RowsOnlyStay DEF RowsStay
  <2> QED BY <1>2, <2>1 DEF Settled
<1>3. CASE ~AtWork(c) /\ InCleanup(c)
  <2>1. InCleanup(c)' \/ row'[c].status \in Terminal BY <1>1, <1>3, CleanupEnds
  <2>2. ~AtWork(c)'
    <3>1. ASSUME NEW d \in Children, Executor(d) PROVE task'[c] = task[c] BY <1>3, <3>1, ExecutorEffect
    <3>2. ~StartChildren /\ ~StartSpawned
      <4>1. parent.pc \in {"unwinding", "cleanup"} BY <1>3 DEF InCleanup
      <4> QED BY <4>1 DEF StartChildren, StartSpawned, Is
    <3>3. task'[c] = task[c] \/ task'[c].pc = task[c].pc BY <1>1, <3>1, <3>2, OthersTasks
    <3> QED BY <1>3, <3>3 DEF AtWork
  <2> QED BY <2>1, <2>2 DEF Settled
<1> QED BY <1>2, <1>3 DEF Settled

\* Whose task is done is settled.
LEMMA LeftSettled ==
    ASSUME Inv, Next, Calm', NEW c \in Children, task'[c].pc \in {"returned", "raised", "cancelled"}
    PROVE  Settled(c)'
<1>1. up' /\ refusals' = 0 /\ stopped' = {} BY CalmBefore DEF Calm
<1>2. ~InStep(c)' BY DEF InStep
<1>3. Covered(c)' BY <1>1, <1>2, TasksKept DEF TasksTrue, TaskTrue
<1>4. ~Excused(c)' BY <1>1 DEF Excused
<1>5. ~AtWork(c)' BY DEF AtWork, Over
<1> QED BY <1>3, <1>4, <1>5 DEF Covered, Settled

\* Only its own executor ends a child in another way than by a cancellation.
LEMMA NaturalEnds ==
    ASSUME Inv, Next, ~Process, NEW c \in Children,
           row'[c].status \in {"completed", "failed"}, row'[c].status # row[c].status
    PROVE  task[c].pc = "committing"
<1>1. Types BY DEF Inv
<1>2. ~Cancels
  <2>1. row' # row OBVIOUS
  <2>2. ASSUME NEW d \in Children, End(d, "cancelled") PROVE FALSE
    <3>1. CASE c = d BY <1>1, <2>1, <2>2, <3>1, EndEffect DEF Terminal
    <3>2. CASE c # d BY <1>1, <2>2, <3>2, EndEffect DEF Terminal
    <3> QED BY <3>1, <3>2
  <2> QED BY <2>1, <2>2 DEF Cancels
<1>3. ASSUME NEW C \in SUBSET Children, Creates(C) PROVE FALSE BY <1>1, <1>3, CreatesStay
<1>4. PICK d \in Children : Executor(d)
  BY <1>2, <1>3, SweepEffect, ParentEffect, RequestEffect DEF Next
<1>5. d = c BY <1>4, ExecutorEffect
<1>6. Executor(c) BY <1>4, <1>5
<1>7. ~Claim(c)
  <2>1. CASE row' = [row EXCEPT ![c].status = "running"] BY <1>1, <2>1 DEF Types, Rows
  <2>2. CASE row' = row BY <2>2
  <2> QED BY <2>1, <2>2 DEF Claim
<1>8. ~Report(c)
  <2>1. SUFFICES ASSUME Report(c) PROVE FALSE OBVIOUS
  <2>2. row'[c].status = "running" BY <1>1, <2>1 DEF Report, Types, Rows
  <2> QED BY <2>2
<1>9. ~Retry(c)
  <2>1. SUFFICES ASSUME Retry(c) PROVE FALSE OBVIOUS
  <2>2. row'[c].status = "retry_wait" BY <1>1, <2>1 DEF Retry, Types, Rows
  <2> QED BY <2>2
<1>10. ~Break(c) /\ ~Lose(c) /\ ~PassBarrier(c) /\ ~Refused(c) BY DEF Break, Lose, PassBarrier, Refused
<1>11. CASE Finalize(c) BY <1>11 DEF Finalize, At
<1>12. CASE Cancelled(c) BY <1>12 DEF Cancelled
<1> QED BY <1>6, <1>7, <1>8, <1>9, <1>10, <1>11, <1>12 DEF Executor

\* The events that are set are those of settled children, and the one before a
\* child is settled when the child ends.
LEMMA TurnsKept ==
    ASSUME Inv, Next
    PROVE  TurnsTrue'
<1>1. Types /\ Delegation BY DEF Inv
<1>2. SUFFICES ASSUME Calm'
      PROVE  /\ \A c \in Planned' : AtWork(c)' => task'[c].round # 0
             /\ \A e \in turn' : Settled(e[2])'
             /\ \A c \in Planned' : task'[c].pc = "committing" /\ c # 1 => <<task'[c].round, c - 1>> \in turn'
             /\ \A c \in Planned' : row'[c].status \in {"completed", "failed"} /\ c # 1 => Settled(c - 1)'
  BY DEF TurnsTrue
<1>3. Calm /\ up /\ up' /\ ~Process /\ refusals' = 0 BY <1>2, CalmBefore
<1>4. /\ \A c \in Planned : AtWork(c) => task[c].round # 0
      /\ \A e \in turn : Settled(e[2])
      /\ \A c \in Planned : task[c].pc = "committing" /\ c # 1 => <<task[c].round, c - 1>> \in turn
      /\ \A c \in Planned : row[c].status \in {"completed", "failed"} /\ c # 1 => Settled(c - 1)
  BY <1>3 DEF Inv, TurnsTrue
<1>5. Planned' = Planned BY SetupStays DEF Planned
<1>6. /\ Planned \subseteq Children
      /\ \A c \in Planned : c # 1 => c - 1 \in Planned
      /\ Planned \cap Spawned = {}
      /\ \A e \in turn : e[2] \in Planned
  BY <1>1, Numbers DEF Types, Children
<1>7. \A c \in Children : Settled(c) => Settled(c)' BY <1>2, SettledKept
<1>8. /\ \A c \in Planned : AtWork(c)' => task'[c].round # 0
      /\ \A e \in turn' : Settled(e[2])'
      /\ \A c \in Planned : task'[c].pc = "committing" /\ c # 1 => <<task'[c].round, c - 1>> \in turn'
  <2>1. ASSUME NEW d \in Children, Executor(d)
        PROVE  /\ \A c \in Planned : AtWork(c)' => task'[c].round # 0
               /\ \A e \in turn' : Settled(e[2])'
               /\ \A c \in Planned : task'[c].pc = "committing" /\ c # 1 => <<task'[c].round, c - 1>> \in turn'
    <3>1. /\ AtWork(d) /\ turn \subseteq turn' /\ \A e \in turn' : e \in turn \/ e[2] = d
          /\ \A c \in Children : c # d => task'[c] = task[c]
      BY <2>1, ExecutorEffect
    <3>2. ASSUME NEW c \in Planned, AtWork(c)' PROVE task'[c].round # 0
      <4>1. CASE c = d
        <5>1. task'[c].round = task[c].round BY <2>1, <3>2, <4>1, ExecutorMoves DEF AtWork, Over
        <5> QED BY <1>4, <3>1, <4>1, <5>1
      <4>2. CASE c # d
        <5>1. task'[c] = task[c] BY <1>6, <3>1, <4>2
        <5> QED BY <1>4, <3>2, <5>1 DEF AtWork
      <4> QED BY <4>1, <4>2
    <3>3. ASSUME NEW e \in turn' PROVE Settled(e[2])'
      <4>1. CASE e \in turn BY <1>4, <1>6, <1>7, <4>1
      <4>2. CASE e \notin turn
        <5>1. e[2] = d BY <3>1, <4>2
        <5>2. task'[d].pc \in {"returned", "raised", "cancelled"} BY <2>1, <3>3, <4>2, ExecutorMoves
        <5> QED BY <1>2, <5>1, <5>2, LeftSettled
      <4> QED BY <4>1, <4>2
    <3>4. ASSUME NEW c \in Planned, task'[c].pc = "committing", c # 1 PROVE <<task'[c].round, c - 1>> \in turn'
      <4>1. CASE c = d
        <5>1. /\ task'[c].round = task[c].round
              /\ task[c].pc = "committing" \/ InTurn(c)
          BY <2>1, <3>4, <4>1, ExecutorMoves
        <5>2. task[c].round # 0 BY <1>4, <3>1, <4>1
        <5>3. <<task[c].round, c - 1>> \in turn BY <1>4, <3>4, <5>1, <5>2 DEF InTurn
        <5> QED BY <3>1, <5>1, <5>3
      <4>2. CASE c # d
        <5>1. task'[c] = task[c] BY <1>6, <3>1, <4>2
        <5>2. <<task[c].round, c - 1>> \in turn BY <1>4, <3>4, <5>1
        <5> QED BY <3>1, <5>1, <5>2
      <4> QED BY <4>1, <4>2
    <3> QED BY <3>2, <3>3, <3>4
  <2>2. CASE StartChildren
    <3>1. /\ parent.pc = "start" /\ row' = row /\ task' = Started(Planned \ parent.seen, rounds)
          /\ turn' = turn \cup ({rounds} \X parent.seen)
      BY <2>2 DEF StartChildren, Is
    <3>2. rounds > 0 /\ \A c \in parent.seen : c \in Planned /\ row[c].status \in Terminal
      BY <1>1, <3>1 DEF Delegation
    <3>3. rounds \in 0 .. setup.rounds BY <1>1 DEF Types
    <3>4. (Planned \ parent.seen) \in SUBSET Children BY <1>6
    <3>5. \A c \in Children :
            \/ task'[c] = task[c]
            \/ task'[c].pc = "created" /\ task'[c].round = rounds
      <4>1. SUFFICES ASSUME NEW c \in Children
                     PROVE  \/ task'[c] = task[c]
                            \/ task'[c].pc = "created" /\ task'[c].round = rounds
        OBVIOUS
      <4>2. CASE c \in Planned \ parent.seen /\ ~AtWork(c)
        <5>1. task'[c] = [pc |-> "created", round |-> rounds, end |-> "none", signalled |-> FALSE]
          BY <1>1, <3>1, <3>3, <3>4, <4>2, StartEffect
        <5> QED BY <5>1
      <4>3. CASE ~(c \in Planned \ parent.seen /\ ~AtWork(c))
        BY <3>1, <4>3 DEF Started
      <4> QED BY <4>2, <4>3
    <3>6. \A c \in Planned : AtWork(c)' => task'[c].round # 0
      <4>1. SUFFICES ASSUME NEW c \in Planned, AtWork(c)' PROVE task'[c].round # 0 OBVIOUS
      <4>2. CASE task'[c] = task[c] BY <1>4, <4>1, <4>2 DEF AtWork
      <4>3. CASE task'[c].round = rounds BY <3>2, <3>3, <4>3
      <4> QED BY <1>6, <3>5, <4>2, <4>3
    <3>7. ASSUME NEW e \in turn' PROVE Settled(e[2])'
      <4>1. CASE e \in turn BY <1>4, <1>6, <1>7, <4>1
      <4>2. CASE e \in {rounds} \X parent.seen
        <5>1. row'[e[2]].status \in Terminal BY <3>1, <3>2, <4>2
        <5> QED BY <5>1 DEF Settled
      <4> QED BY <3>1, <4>1, <4>2
    <3>8. \A c \in Planned : task'[c].pc = "committing" /\ c # 1 => <<task'[c].round, c - 1>> \in turn'
      BY <1>4, <1>6, <3>1, <3>5
    <3> QED BY <3>6, <3>7, <3>8
  <2>3. CASE StartSpawned
    <3>1. parent.pc = "spawned" /\ turn' = turn /\ task' = Started(parent.seen, 0) BY <2>3 DEF StartSpawned, Is
    <3>2. \E s \in Spawned : parent.seen = {s} BY <1>1, <3>1 DEF Delegation
    <3>3. \A c \in Planned : c \notin parent.seen BY <1>6, <3>2
    <3>4. \A c \in Planned : task'[c] = task[c] BY <1>6, <3>1, <3>3 DEF Started
    <3> QED BY <1>4, <1>6, <1>7, <3>1, <3>4 DEF AtWork
  <2>4. CASE /\ turn' = turn
             /\ \A c \in Children : task'[c].pc = task[c].pc /\ task'[c].round = task[c].round
    BY <1>4, <1>6, <1>7, <2>4 DEF AtWork
  <2> QED BY <1>3, <2>1, <2>2, <2>3, <2>4, OthersTasks
<1>9. ASSUME NEW c \in Planned, row'[c].status \in {"completed", "failed"}, c # 1 PROVE Settled(c - 1)'
  <2>1. CASE row'[c].status = row[c].status BY <1>4, <1>6, <1>7, <1>9, <2>1
  <2>2. CASE row'[c].status # row[c].status
    <3>1. task[c].pc = "committing" BY <1>3, <1>6, <1>9, <2>2, NaturalEnds
    <3>2. <<task[c].round, c - 1>> \in turn BY <1>4, <1>9, <3>1
    <3>3. Settled(c - 1) BY <1>4, <3>2
    <3> QED BY <1>6, <1>7, <1>9, <3>3
  <2> QED BY <2>1, <2>2
<1> QED BY <1>5, <1>8, <1>9

\* A child ends by itself after the one before it.
LEMMA OrderStays ==
    ASSUME Inv, Next
    PROVE  OrderKept'
<1>1. Types /\ OneProjection /\ OrderKept BY DEF Inv
<1>0. crashes' + refusals' > 0 \/ stopped' # {} \/ Calm'
  <2>1. refusals' \in Nat BY CountsGrow
  <2>2. crashes \in Nat BY <1>1 DEF Types
  <2>3. crashes' \in Nat
    <3>1. ASSUME NEW c \in Children, Executor(c) PROVE crashes' = crashes BY <3>1, ExecutorEffect
    <3>2. ASSUME NEW w \in Requests \cup {Parent}, Sweep(w) PROVE crashes' = crashes
      BY <3>2, SweepEffect DEF counts
    <3>3. ASSUME NEW q \in Requests, Request(q) PROVE crashes' = crashes BY <3>3, RequestEffect
    <3>4. CASE ParentTask BY <2>2, <3>4, ParentEffect
    <3>5. CASE Process BY <3>5, ProcessEffect
    <3> QED BY <2>2, <3>1, <3>2, <3>3, <3>4, <3>5 DEF Next
  <2>4. ASSUME NEW a \in Nat, NEW b \in Nat, ~(a + b > 0) PROVE a = 0 /\ b = 0 BY <2>4
  <2>5. ~(crashes' + refusals' > 0) => crashes' = 0 /\ refusals' = 0 BY <2>1, <2>3, <2>4
  <2> QED BY <2>5 DEF Calm
<1>2. SUFFICES ASSUME Calm', NEW i \in DOMAIN events', NEW j \in DOMAIN events',
                      events'[i][1] \in Planned, events'[j][1] \in Planned,
                      events'[i][1] = events'[j][1] + 1, i < j,
                      events'[i][2] # "cancelled", events'[j][2] # "cancelled"
               PROVE  FALSE
  <2>1. Planned' = Planned BY SetupStays DEF Planned
  <2> QED BY <1>0, <2>1 DEF OrderKept
<1>3. Calm /\ ~Process BY <1>2, CalmBefore
<1>4. \A k, h \in DOMAIN events :
        ~ (events[k][1] \in Planned /\ events[h][1] \in Planned /\ events[k][1] = events[h][1] + 1 /\ k < h
           /\ events[k][2] # "cancelled" /\ events[h][2] # "cancelled")
  BY <1>1, <1>3 DEF OrderKept, Calm
<1>5. CASE events' = events BY <1>2, <1>4, <1>5
<1>6. ASSUME NEW c \in Children, NEW status \in Terminal, End(c, status), events' # events PROVE FALSE
  <2>1. /\ row[c].status \in Active /\ row'[c].status = status
        /\ events' = Append(events, <<c, status>>)
    BY <1>1, <1>6, EndEffect
  <2> DEFINE n == Len(events) + 1
  <2>2. events \in Seq(Children \X Terminal) /\ n \in Nat BY <1>1 DEF Types
  <2>3. /\ DOMAIN events = 1 .. Len(events)
        /\ DOMAIN events' = 1 .. n
        /\ \A k \in 1 .. Len(events) : events'[k] = events[k]
        /\ events'[n] = <<c, status>>
    BY <2>1, <2>2
  <2>4. i \in DOMAIN events BY <1>2, <2>2, <2>3
  <2>5. j = n
    <3>1. CASE j \in DOMAIN events BY <1>2, <1>4, <2>3, <2>4, <3>1
    <3> QED BY <2>2, <2>3, <3>1
  <2>6. c \in Planned /\ status \in {"completed", "failed"} BY <1>2, <2>3, <2>5 DEF Terminal
  <2>7. task[c].pc = "committing"
    BY <1>3, <2>1, <2>6, NaturalEnds DEF Active
  <2> DEFINE d == events[i][1]
  <2>8. d \in Planned /\ d = c + 1 /\ events[i][2] # "cancelled" BY <1>2, <2>3, <2>4, <2>5
  <2>9. row[d].status \in {"completed", "failed"} BY <1>1, <2>4, <2>8, ToldHaveEnded DEF Terminal
  <2>10. c \in Nat /\ d # 1 /\ d - 1 = c
    <3>1. c \in 1 .. setup.planned /\ d \in 1 .. setup.planned BY <2>6, <2>8 DEF Planned
    <3>2. setup.planned \in Nat BY <1>1, Numbers DEF Types
    <3> QED BY <2>8, <3>1, <3>2
  <2>11. Settled(c) BY <1>3, <2>8, <2>9, <2>10 DEF Inv, TurnsTrue
  <2> QED BY <2>1, <2>7, <2>11 DEF Settled, AtWork, Over, Active, Terminal
<1> QED BY <1>3, <1>5, <1>6, EndsByOne DEF Quiet, Process

-----------------------------------------------------------------------------
(* Who takes care of the children.                                         *)

\* Without new rows no child becomes active.
LEMMA ActiveShrink ==
    ASSUME Types, RowsStay, NoneCreated
    PROVE  ActiveChildren' \subseteq ActiveChildren
<1>1. SUFFICES ASSUME NEW c \in Children, row'[c].status \in Active PROVE row[c].status \in Active
  BY DEF ActiveChildren
<1>2. row[c].status \in Active \cup Terminal \cup {"absent"} BY DEF Types, Rows
<1>3. row[c].status \in Terminal \/ row[c].status = "absent" => row'[c] = row[c] BY DEF RowsStay, NoneCreated
<1> QED BY <1>1, <1>2, <1>3

\* A request that takes care of the active children goes on doing so.
LEMMA CaresStay ==
    ASSUME NEW q \in Requests, Cares(q), request'[q] = request[q],
           ActiveChildren' \subseteq ActiveChildren,
           \A c \in ActiveChildren' : c \in sweep[q].todo => c \in sweep'[q].todo
    PROVE  Cares(q)'
BY DEF Cares

\* While requests and their sweeps only go on, the active children stay handled.
LEMMA HandledStays ==
    ASSUME Handled, request' = request,
           ActiveChildren' \subseteq ActiveChildren,
           \A q \in Requests : \A c \in ActiveChildren' : c \in sweep[q].todo => c \in sweep'[q].todo
    PROVE  Handled'
<1>1. CASE ActiveChildren = {} BY <1>1 DEF Handled
<1>2. ASSUME NEW q \in Requests, Cares(q) PROVE Handled'
  <2>1. Cares(q)' BY <1>2, CaresStay
  <2> QED BY <2>1 DEF Handled
<1> QED BY <1>1, <1>2 DEF Handled

\* A step that leaves the parent and those who stop it alone hands nothing over.
LEMMA HandedFrame ==
    ASSUME HandedNow, parent' = parent,
           ActiveChildren' \subseteq ActiveChildren,
           \A c \in ActiveChildren' : c \in sweep[Parent].todo => c \in sweep'[Parent].todo,
           \A q \in Requests : Stops(q)' <=> Stops(q),
           Handled => Handled'
    PROVE  HandedNow'
<1>1. SweptByParent => SweptByParent' BY DEF SweptByParent
<1> QED BY <1>1 DEF HandedNow

\* An executor takes no child from those who care for it.
LEMMA ExecutorHanded ==
    ASSUME Inv, NEW c \in Children, Executor(c), HandedNow
    PROVE  HandedNow'
<1>1. Types /\ RowsStay /\ NoneCreated /\ parent' = parent /\ sweep' = sweep /\ request' = request
  BY ExecutorEffect DEF Inv
<1>2. ActiveChildren' \subseteq ActiveChildren BY <1>1, ActiveShrink
<1>3. Handled => Handled' BY <1>1, <1>2, HandledStays
<1>4. \A q \in Requests : Stops(q)' <=> Stops(q) BY <1>1 DEF Stops
<1> QED BY <1>1, <1>2, <1>3, <1>4, HandedFrame

\* A sweep leaves only children that have ended.
LEMMA SweepHanded ==
    ASSUME Inv, NEW w \in Requests \cup {Parent}, Sweep(w), HandedNow
    PROVE  HandedNow'
<1>1. Types /\ RowsStay /\ NoneCreated /\ parent' = parent /\ request' = request
  BY SweepEffect DEF Inv
<1>2. ActiveChildren' \subseteq ActiveChildren BY <1>1, ActiveShrink
<1>3. ASSUME NEW v \in Requests \cup {Parent}, NEW c \in ActiveChildren', c \in sweep[v].todo
      PROVE  c \in sweep'[v].todo
  <2>1. CASE v = w
    <3>1. row'[c].status \in Active BY <1>3 DEF ActiveChildren
    <3> QED BY <1>3, <2>1, <3>1, SweepEffect
  <2>2. CASE v # w
    <3>1. sweep'[v] = sweep[v] BY <2>2, SweepEffect
    <3> QED BY <1>3, <3>1
  <2> QED BY <2>1, <2>2
<1>4. Handled => Handled' BY <1>1, <1>2, <1>3, HandledStays
<1>5. \A q \in Requests : Stops(q)' <=> Stops(q) BY <1>1 DEF Stops
<1> QED BY <1>1, <1>2, <1>3, <1>4, <1>5, HandedFrame

\* Who is about to end the parent has signalled its task.
LEMMA SignalledIsHandled ==
    ASSUME HandedNow, parent.signalled
    PROVE  Handled
<1>1. ASSUME NEW q \in Requests, Stops(q) PROVE Handled
  <2>1. Cares(q) BY <1>1 DEF Stops, Cares
  <2> QED BY <2>1 DEF Handled
<1> QED BY <1>1 DEF HandedNow

\* The parent's task ends with its sweep over, or with a request that sweeps.
LEMMA ParentHanded ==
    ASSUME Inv, ParentTask, ~gaveUp, ~gaveUp', HandedNow
    PROVE  HandedNow'
<1>1. Types /\ RowsStay /\ request' = request BY ParentEffect DEF Inv
<1>2. parent \in Parents BY <1>1 DEF Types
<1>3. \A q \in Requests : sweep'[q] = sweep[q]
  BY <1>1, SubagentAssumption
     DEF Types, ParentTask, Delegate, PersistChildren, StartChildren, Gathered, GatherRaised, GatherCancelled,
        ToolTimeout, ToolAborted, Unwound, CleanedUp, Spawn, PersistSpawned, StartSpawned, CancelTool, ToolDone, Finish,
        FinishRefused, ListChildren, AllSwept, SweepRefused, ParentCancelled, Cleanup, SweepEnded
<1>4. \A q \in Requests : Stops(q)' <=> Stops(q) BY <1>1 DEF Stops
<1>5. parent.status = "active" \/ ActiveChildren' \subseteq ActiveChildren
  <2>1. CASE Cancels
    <3>1. RowsStay /\ NoneCreated BY <1>1, <2>1, CancelsStay
    <3> QED BY <1>1, <3>1, ActiveShrink
  <2> QED BY <2>1, ParentEffect
<1>6. parent.status = "over" /\ Handled => Handled' BY <1>1, <1>3, <1>5, <1>2, HandledStays DEF Parents
<1>7. ASSUME ~parent.signalled, parent.pc # "none" PROVE \A q \in Requests : ~Stops(q)'
  BY <1>4, <1>7 DEF HandedNow
<1>8. ASSUME ~parent.signalled, parent.pc \notin {"none", "list", "sweep"},
             ~parent'.signalled, parent'.status = parent.status
      PROVE  HandedNow'
  <2>1. parent.status # "over" BY <1>8 DEF HandedNow
  <2> QED BY <1>7, <1>8, <2>1 DEF HandedNow
<1>9. CASE Delegate \/ PersistChildren \/ StartChildren \/ Gathered \/ GatherRaised \/ GatherCancelled
           \/ ToolTimeout \/ ToolAborted \/ (\E c \in Spawned : Spawn(c)) \/ PersistSpawned \/ StartSpawned
           \/ (\E c \in Children : CancelTool(c)) \/ ToolDone
  <2>1. /\ ~parent.signalled /\ parent.pc \notin {"none", "list", "sweep"}
        /\ ~parent'.signalled /\ parent'.status = parent.status
    BY <1>2, <1>9 DEF Parents, Delegate, PersistChildren, StartChildren, Gathered, GatherRaised, GatherCancelled,
        ToolTimeout, ToolAborted, Spawn, PersistSpawned, StartSpawned, CancelTool, ToolDone, Move, Cleanup, Is,
        Swept, Sweeping
  <2> QED BY <1>8, <2>1
<1>10. ASSUME parent'.signalled = parent.signalled, parent'.status = parent.status,
              parent.pc \notin {"none", "list", "sweep"} \/ (parent.signalled /\ parent'.pc = "none")
       PROVE  HandedNow'
  <2>1. \A q \in Requests : Stops(q)' => parent'.signalled \/ parent'.pc = "none" BY <1>4, <1>10 DEF HandedNow
  <2>2. parent.signalled \/ parent.status # "over" BY <1>10 DEF HandedNow
  <2>3. parent.status = "over" => Handled' BY <1>6, <2>2, SignalledIsHandled
  <2>4. parent'.signalled => (\E q \in Requests : Stops(q)') \/ (parent'.status = "over" /\ Handled')
    BY <1>4, <1>10, <2>3 DEF HandedNow
  <2> QED BY <1>10, <2>1, <2>2, <2>3, <2>4 DEF HandedNow
<1>11. CASE Unwound \/ CleanedUp
  <2>1. /\ parent'.signalled = parent.signalled /\ parent'.status = parent.status
        /\ parent.pc \notin {"none", "list", "sweep"}
    BY <1>2, <1>11 DEF Parents, Unwound, CleanedUp, Move, Cleanup
  <2> QED BY <1>10, <2>1
<1>12. CASE ParentCancelled
  <2>1. /\ parent'.signalled = parent.signalled /\ parent'.status = parent.status
        /\ parent.signalled /\ parent'.pc = "none"
    BY <1>2, <1>12 DEF Parents, ParentCancelled, Move
  <2> QED BY <1>10, <2>1
<1>13. CASE Finish
  <2>1. ~parent.signalled /\ parent.pc = "loop" BY <1>13 DEF Finish, Is
  <2>2. parent.status # "over" BY <2>1 DEF HandedNow
  <2>3. parent.status = "active" BY <1>2, <2>2 DEF Parents
  <2>4. \E next \in {"again", "last"} : parent' = [parent EXCEPT !.status = "over", !.pc = "list", !.next = next]
    BY <1>13, <2>3 DEF Finish
  <2>5. ~parent'.signalled /\ parent'.pc = "list" BY <1>2, <2>1, <2>4 DEF Parents
  <2> QED BY <1>7, <2>1, <2>5 DEF HandedNow
<1>14. CASE FinishRefused BY <1>14 DEF FinishRefused
<1>15. CASE ListChildren
  <2>1. ~parent.signalled /\ parent.pc = "list" BY <1>15 DEF ListChildren, Is
  <2>2. ~parent'.signalled /\ parent'.pc = "sweep" BY <1>2, <1>15, <2>1 DEF Parents, ListChildren, Move
  <2>3. sweep'[Parent].todo = ActiveChildren BY <1>1, <1>15 DEF ListChildren, SweepOver, Types
  <2>4. ActiveChildren' = ActiveChildren BY <1>15 DEF ListChildren, ActiveChildren
  <2>5. SweptByParent' BY <2>2, <2>3, <2>4 DEF SweptByParent
  <2> QED BY <1>7, <2>1, <2>2, <2>5 DEF HandedNow
<1>16. CASE AllSwept
  <2>1. /\ ~parent.signalled /\ parent.pc = "sweep" /\ sweep[Parent].todo = {} /\ row' = row
    BY <1>16 DEF AllSwept, Swept, Sweeping
  <2>2. ~parent'.signalled /\ parent'.pc = "none" /\ parent'.status = parent.status
    BY <1>2, <1>16, <2>1 DEF Parents, AllSwept, Move
  <2>3. parent.status = "over" => Handled'
    <3>1. SUFFICES ASSUME parent.status = "over" PROVE Handled' OBVIOUS
    <3>2. Handled \/ SweptByParent BY <2>1, <3>1 DEF HandedNow
    <3>3. CASE SweptByParent
      <4>1. ActiveChildren' = {} BY <2>1, <3>3 DEF SweptByParent, ActiveChildren
      <4> QED BY <4>1 DEF Handled
    <3> QED BY <1>6, <3>1, <3>2, <3>3
  <2> QED BY <1>7, <2>1, <2>2, <2>3 DEF HandedNow
<1>17. CASE SweepRefused
  <2>1. CASE parent.pc = "sweep" /\ parent.next = "again"
    <3>1. ~parent.signalled BY <1>17, <2>1 DEF SweepRefused, Sweeping
    <3>2. parent' = [parent EXCEPT !.pc = "list", !.next = "last"] BY <1>17, <2>1 DEF SweepRefused
    <3>3. ~parent'.signalled /\ parent'.pc = "list" BY <1>2, <3>1, <3>2 DEF Parents
    <3> QED BY <1>7, <2>1, <3>1, <3>3 DEF HandedNow
  <2>2. CASE parent.pc = "sweep" /\ parent.next = "last" BY <1>17, <2>2 DEF SweepRefused
  <2>3. CASE parent.pc \in {"tool", "cleanup"}
    <3>1. parent' = [parent EXCEPT !.pc = "loop", !.signalled = FALSE] /\ gaveUp' = (gaveUp \/ parent.signalled)
      BY <1>17, <2>3 DEF SweepRefused
    <3>2. ~parent.signalled BY <3>1
    <3>3. ~parent'.signalled /\ parent'.status = parent.status BY <1>2, <3>1 DEF Parents
    <3> QED BY <1>8, <2>3, <3>2, <3>3
  <2> QED BY <1>17, <2>1, <2>2, <2>3 DEF SweepRefused
<1> QED BY <1>9, <1>11, <1>12, <1>13, <1>14, <1>15, <1>16, <1>17 DEF ParentTask

\* A request signals the parent before it ends it, and sweeps over the children
\* after that.
LEMMA RequestHanded ==
    ASSUME Inv, NEW q \in Requests, Request(q), ~gaveUp', HandedNow
    PROVE  HandedNow'
<1>1. /\ Types /\ RowsStay /\ NoneCreated
      /\ \A v \in Requests : v # q => request'[v] = request[v]
      /\ \A v \in Requests \cup {Parent} : v # q => sweep'[v] = sweep[v]
  BY RequestEffect DEF Inv
<1>2. ActiveChildren' \subseteq ActiveChildren BY <1>1, ActiveShrink
<1>3. sweep'[Parent] = sweep[Parent] BY <1>1, SubagentAssumption
<1>4. request[q] \in Asking /\ parent \in Parents /\ request \in [Requests -> Asking] BY <1>1 DEF Types
<1>5. ASSUME NEW v \in Requests, v # q PROVE (Stops(v)' <=> Stops(v)) /\ (Cares(v) => Cares(v)')
  <2>1. request'[v] = request[v] /\ sweep'[v] = sweep[v] BY <1>1, <1>5
  <2>2. Cares(v) => Cares(v)' BY <1>2, <2>1 DEF Cares
  <2> QED BY <2>1, <2>2 DEF Stops
<1>6. ASSUME Cares(q) => Handled', Handled PROVE Handled'
  <2>1. CASE ActiveChildren = {} BY <1>2, <2>1 DEF Handled
  <2>2. ASSUME NEW v \in Requests, v # q, Cares(v) PROVE Handled' BY <1>5, <2>2 DEF Handled
  <2> QED BY <1>6, <2>1, <2>2 DEF Handled
<1>7. ASSUME parent' = parent, ~Stops(q), ~Stops(q)', Cares(q) => Handled' PROVE HandedNow'
  <2>1. \A v \in Requests : Stops(v)' <=> Stops(v) BY <1>5, <1>7
  <2> QED BY <1>2, <1>3, <1>6, <1>7, <2>1, HandedFrame
<1>8. ASSUME NEW pc \in {"idle", "signal", "terminate", "list", "sweep", "done"}, NEW c \in Children \cup {None},
             Answer(q, pc, c)
      PROVE  request'[q].pc = pc /\ request'[q].child = c
  BY <1>4, <1>8 DEF Answer
<1>9. CASE CancelRun(q)
  <2>1. request[q].pc = "idle" /\ parent' = parent BY <1>9 DEF CancelRun, Asks
  <2>2. request'[q].pc = "signal"
    <3>1. CASE Answer(q, "signal", None) BY <1>8, <3>1
    <3>2. ASSUME NEW c \in ActiveChildren, Answer(q, "signal", c) PROVE request'[q].pc = "signal"
      BY <1>8, <3>2 DEF ActiveChildren
    <3> QED BY <1>9, <3>1, <3>2 DEF CancelRun
  <2> QED BY <1>7, <2>1, <2>2 DEF Stops, Cares
<1>10. CASE SignalRun(q)
  <2> DEFINE c == request[q].child
  <2>1. c \in Children \cup {None} BY <1>4 DEF Asking
  <2>2. request[q].pc = "signal" /\ Answer(q, "terminate", c) BY <1>10 DEF SignalRun, Asks
  <2>3. request'[q].pc = "terminate" /\ request'[q].child = c BY <1>8, <2>1, <2>2
  <2>4. CASE c # None
    <3>1. parent' = parent BY <1>10, <2>4 DEF SignalRun
    <3> QED BY <1>7, <2>2, <2>3, <2>4, <3>1 DEF Stops, Cares
  <2>5. CASE c = None
    <3>1. parent' = IF parent.pc = "none" THEN parent ELSE
            [parent EXCEPT !.signalled = TRUE, !.next = "die",
                           !.pc = IF @ = "gather" THEN "unwinding" ELSE @]
      BY <1>10, <2>5 DEF SignalRun
    <3>2. parent'.signalled \/ parent'.pc = "none" BY <1>4, <3>1 DEF Parents
    <3>3. Stops(q)' /\ Cares(q)' BY <2>3, <2>5 DEF Stops, Cares
    <3>4. Handled' BY <3>3 DEF Handled
    <3> QED BY <3>2, <3>3, <3>4 DEF HandedNow
  <2> QED BY <2>4, <2>5
<1>11. CASE TerminateRun(q)
  <2> DEFINE c == request[q].child
  <2>1. request[q].pc = "terminate" /\ Answer(q, IF c # None THEN "done" ELSE "list", None)
    BY <1>11 DEF TerminateRun, Asks
  <2>2. CASE c # None
    <3>1. parent' = parent BY <1>11, <2>2 DEF TerminateRun
    <3>2. request'[q].pc = "done" BY <1>8, <2>1, <2>2
    <3> QED BY <1>7, <2>2, <3>1, <3>2 DEF Stops, Cares
  <2>3. CASE c = None
    <3>1. parent' = [parent EXCEPT !.status = "over"] BY <1>11, <2>3 DEF TerminateRun
    <3>2. parent'.status = "over" /\ parent'.signalled = parent.signalled /\ parent'.pc = parent.pc
      BY <1>4, <3>1 DEF Parents
    <3>3. request'[q].pc = "list" /\ request'[q].child = None BY <1>8, <2>1, <2>3
    <3>4. Cares(q)' /\ ~Stops(q)' BY <3>3 DEF Cares, Stops
    <3>5. Handled' BY <3>4 DEF Handled
    <3>6. parent.signalled \/ parent.pc = "none" BY <2>1, <2>3 DEF HandedNow, Stops
    <3> QED BY <3>2, <3>5, <3>6 DEF HandedNow
  <2> QED BY <2>2, <2>3
<1>12. CASE ListForRequest(q)
  <2>1. /\ request[q].pc = "list" /\ parent' = parent /\ row' = row
        /\ Answer(q, "sweep", None) /\ sweep' = [sweep EXCEPT ![q] = SweepOver(ActiveChildren)]
    BY <1>12 DEF ListForRequest, Asks
  <2>2. request'[q].pc = "sweep" /\ request'[q].child = None BY <1>8, <2>1
  <2>3. sweep'[q].todo = ActiveChildren BY <1>1, <2>1 DEF Types, SweepOver
  <2>4. Cares(q)' BY <1>2, <2>2, <2>3 DEF Cares
  <2>5. Handled' BY <2>4 DEF Handled
  <2> QED BY <1>7, <2>1, <2>2, <2>5 DEF Stops
<1>13. CASE RequestDone(q)
  <2>1. /\ request[q].pc = "sweep" /\ parent' = parent /\ sweep[q].todo = {} /\ Answer(q, "done", None)
    BY <1>13 DEF RequestDone, Asks, Swept
  <2>2. request'[q].pc = "done" BY <1>8, <2>1
  <2>3. Cares(q) => Handled' BY <1>2, <2>1 DEF Cares, Handled
  <2> QED BY <1>7, <2>1, <2>2, <2>3 DEF Stops
<1>14. CASE RequestRefused(q) BY <1>14 DEF RequestRefused
<1> QED BY <1>9, <1>10, <1>11, <1>12, <1>13, <1>14 DEF Request

\* A start leaves no child of a parent that is over.
LEMMA RestartHanded ==
    ASSUME Inv, Restart
    PROVE  HandedNow'
<1>1. Types /\ ~up BY DEF Inv, Restart
<1>2. parent.pc = "none" /\ ~parent.signalled /\ \A q \in Requests : request[q].pc \in {"idle", "done"}
  BY <1>1 DEF Inv, Down
<1>3. parent.status \in {"active", "over"} /\ request' = request BY <1>1 DEF Types, Parents, Restart
<1>4. \A q \in Requests : ~Stops(q)' BY <1>2, <1>3 DEF Stops
<1>5. CASE parent.status = "active"
  <2>1. parent'.status = "active" /\ ~parent'.signalled BY <1>5 DEF Restart, Loop
  <2> QED BY <1>4, <2>1 DEF HandedNow
<1>6. CASE parent.status = "over"
  <2>1. parent' = parent BY <1>6 DEF Restart
  <2>2. \A c \in Children : row'[c].status \notin Active
    <3>1. SUFFICES ASSUME NEW c \in Children PROVE row'[c].status \notin Active OBVIOUS
    <3>2. CASE row[c].status \in Active
      <4>1. row'[c].status = "failed" BY <1>1, <1>6, <3>2, RestartEffect
      <4> QED BY <4>1 DEF Active
    <3>3. CASE row[c].status \notin Active BY <1>1, <3>3, RestartEffect
    <3> QED BY <3>2, <3>3
  <2>3. ActiveChildren' = {} BY <2>2 DEF ActiveChildren
  <2>4. Handled' BY <2>3 DEF Handled
  <2> QED BY <1>2, <1>4, <2>1, <2>4 DEF HandedNow
<1> QED BY <1>3, <1>5, <1>6

\* Active children of a parent that is over are cared for, also after the step.
LEMMA HandedKept ==
    ASSUME Inv, Next
    PROVE  Handed'
<1>1. SUFFICES ASSUME up', ~gaveUp' PROVE HandedNow' BY DEF Handed
<1>2. ASSUME up, ~gaveUp PROVE HandedNow BY <1>2 DEF Inv, Handed
<1>3. ASSUME NEW c \in Children, Executor(c) PROVE HandedNow'
  <2>1. up /\ ~gaveUp BY <1>1, <1>3, ExecutorEffect
  <2> QED BY <1>2, <1>3, <2>1, ExecutorHanded
<1>4. ASSUME NEW w \in Requests \cup {Parent}, Sweep(w) PROVE HandedNow'
  <2>1. up /\ ~gaveUp BY <1>1, <1>4, SweepEffect
  <2> QED BY <1>2, <1>4, <2>1, SweepHanded
<1>5. CASE ParentTask
  <2>1. up /\ ~gaveUp BY <1>1, <1>5, ParentEffect
  <2> QED BY <1>1, <1>2, <1>5, <2>1, ParentHanded
<1>6. ASSUME NEW q \in Requests, Request(q) PROVE HandedNow'
  <2>1. up /\ ~gaveUp BY <1>1, <1>6, RequestEffect
  <2> QED BY <1>1, <1>2, <1>6, <2>1, RequestHanded
<1>7. CASE Restart BY <1>7, RestartHanded
<1>8. ~Crash BY <1>1 DEF Crash
<1> QED BY <1>3, <1>4, <1>5, <1>6, <1>7, <1>8 DEF Next, Process

-----------------------------------------------------------------------------
(* The theorems.                                                           *)

\* The parent has not called a tool yet.
LEMMA InitInv ==
    ASSUME Init
    PROVE  Inv
<1>1. setup \in Setups BY DEF Init
<1>2. /\ setup.rounds \in Nat /\ setup.retries \in Nat /\ Planned \subseteq Assignments /\ 1 \in Planned
      /\ Planned \cap Spawned = {}
  BY <1>1, Numbers
<1>3. /\ \A c \in Children : row[c] = NoRow /\ task[c] = NoTask
      /\ events = <<>> /\ turn = {} /\ parent = Loop /\ stopped = {} /\ up /\ ~gaveUp
      /\ rounds = 0 /\ refusals = 0 /\ crashes = 0
      /\ \A w \in Requests \cup {Parent} : sweep[w] = NoSweep
      /\ \A q \in Requests : request[q] = Idle
      /\ \A c \in Assignments : told[c] = "none"
  BY DEF Init
<1>4. Types
  <2>1. NoRow \in Rows BY <1>2 DEF NoRow, Rows
  <2>2. NoTask \in Tasks BY <1>2 DEF NoTask, Tasks, Over
  <2>3. Loop \in Parents BY DEF Loop, Parents
  <2>4. NoSweep \in Sweeps BY DEF NoSweep, Sweeps
  <2>5. Idle \in Asking BY DEF Idle, Asking
  <2>6. /\ row \in [Children -> Rows] /\ task \in [Children -> Tasks]
        /\ sweep \in [Requests \cup {Parent} -> Sweeps] /\ request \in [Requests -> Asking]
    BY <2>1, <2>2, <2>4, <2>5 DEF Init
  <2>7. told \in [Assignments -> Active \cup Terminal \cup {"none", "absent"}] BY DEF Init
  <2>8. rounds \in 0 .. setup.rounds BY <1>2, <1>3
  <2>9. up \in BOOLEAN /\ gaveUp \in BOOLEAN BY DEF Init
  <2>10. events \in Seq(Children \X Terminal) BY <1>3
  <2> QED BY <1>1, <1>3, <2>3, <2>6, <2>7, <2>8, <2>9, <2>10 DEF Types
<1>5. /\ parent.pc = "loop" /\ parent.status = "active" /\ ~parent.signalled BY <1>3 DEF Loop
<1>6. \A c \in Children : /\ row[c].status = "absent" /\ ~row[c].frozen
                          /\ task[c].pc = "none" /\ task[c].round = 0 /\ ~task[c].signalled
  BY <1>3 DEF NoRow, NoTask
<1>7. \A w \in Requests \cup {Parent} : sweep[w].step = "off" /\ sweep[w].todo = {} BY <1>3 DEF NoSweep
<1>8. \A q \in Requests : request[q].pc = "idle" BY <1>3 DEF Idle
<1>9. Planned \subseteq Children BY <1>2 DEF Children
<1>10. Delegation BY <1>5, <1>6, <1>9 DEF Delegation
<1>11. Down BY <1>3 DEF Down
<1>12. SweepsTrue BY <1>7 DEF SweepsTrue
<1>13. TasksTrue BY <1>5, <1>6 DEF TasksTrue, TaskTrue, InStep
<1>14. FrozenTrue BY <1>6 DEF FrozenTrue, FrozenTask
<1>15. TurnsTrue BY <1>3, <1>6, <1>9 DEF TurnsTrue, AtWork, Over
<1>16. Handed BY <1>5, <1>8 DEF Handed, HandedNow, Stops
<1>17. OneProjection
  <2>1. DOMAIN events = {} BY <1>3
  <2> QED BY <1>6, <2>1 DEF OneProjection, Terminal
<1>18. ReportsTrue BY <1>3 DEF ReportsTrue
<1>19. FrozenCounts BY <1>6 DEF FrozenCounts
<1>20. OrderKept
  <2>1. DOMAIN events = {} BY <1>3
  <2> QED BY <2>1 DEF OrderKept
<1> QED BY <1>4, <1>10, <1>11, <1>12, <1>13, <1>14, <1>15, <1>16, <1>17, <1>18, <1>19, <1>20 DEF Inv

\* A step of nobody changes nothing that Inv speaks of.
LEMMA StutterInv ==
    ASSUME Inv, UNCHANGED vars
    PROVE  Inv'
<1>1. /\ row' = row /\ task' = task /\ turn' = turn /\ parent' = parent /\ sweep' = sweep /\ request' = request
      /\ events' = events /\ told' = told /\ up' = up /\ rounds' = rounds /\ refusals' = refusals
      /\ crashes' = crashes /\ setup' = setup /\ stopped' = stopped /\ gaveUp' = gaveUp
  BY DEF vars, counts
<1>2. Planned' = Planned /\ Awaited' = Awaited /\ ActiveChildren' = ActiveChildren
  BY <1>1 DEF Planned, Awaited, ActiveChildren
<1>3. Types' BY <1>1, TypesFrom DEF Inv, Types
<1>4. Delegation' BY <1>1, <1>2 DEF Inv, Delegation
<1>5. Down' BY <1>1 DEF Inv, Down
<1>6. SweepsTrue' BY <1>1 DEF Inv, SweepsTrue
<1>7. \A c \in Children : Covered(c)' = Covered(c) /\ InStep(c)' = InStep(c) /\ InCleanup(c)' = InCleanup(c)
  BY <1>1, <1>2 DEF Covered, Excused, InCleanup, InStep
<1>8. TasksTrue' BY <1>1, <1>2 DEF Inv, TasksTrue, TaskTrue, Covered, Excused, InCleanup, InStep
<1>9. FrozenTrue' BY <1>1 DEF Inv, FrozenTrue, FrozenTask
<1>10. TurnsTrue' BY <1>1, <1>2 DEF Inv, TurnsTrue, Calm, AtWork, Settled, InCleanup
<1>11. Handed' BY <1>1, <1>2 DEF Inv, Handed, HandedNow, Handled, Cares, Stops, SweptByParent
<1>12. OneProjection' BY <1>1 DEF Inv, OneProjection
<1>13. ReportsTrue' BY <1>1 DEF Inv, ReportsTrue
<1>14. FrozenCounts' BY <1>1 DEF Inv, FrozenCounts
<1>15. OrderKept' BY <1>1, <1>2 DEF Inv, OrderKept
<1> QED BY <1>3, <1>4, <1>5, <1>6, <1>8, <1>9, <1>10, <1>11, <1>12, <1>13, <1>14, <1>15 DEF Inv

\* Every step keeps the invariant.
LEMMA StepInv ==
    ASSUME Inv, Next
    PROVE  Inv'
<1>1. Types' BY ExecutorTyped, SweepTyped, ParentTyped, RequestTyped, ProcessTyped DEF Next
<1>2. Delegation' /\ Down' /\ SweepsTrue' BY DelegationKept, DownKept, SweepsKept
<1>3. TasksTrue' /\ FrozenTrue' /\ FrozenCounts' BY TasksKept, FrozenKept
<1>4. TurnsTrue' /\ OrderKept' BY TurnsKept, OrderStays
<1>5. OneProjection' /\ ReportsTrue' BY OneProjectionKept, ReportsKept
<1>6. Handed' BY HandedKept
<1> QED BY <1>1, <1>2, <1>3, <1>4, <1>5, <1>6 DEF Inv

\* What the rows, the tasks, the sweeps and the requests know of each other
\* stays true.
THEOREM Invariance == Spec => []Inv
<1>1. Init => Inv BY InitInv
<1>2. Inv /\ [Next]_vars => Inv' BY StepInv, StutterInv
<1> QED BY <1>1, <1>2, PTL DEF Spec

\* Each child has one end, which the parent is told once and for good; a
\* delegation reports it truly, a frozen report counts, and children end in the
\* order of their assignments, for any number of children and requests.
THEOREM ChildrenStayTrue == Spec => []ChildrenTrue
<1>1. Inv => ChildrenTrue
  <2> SUFFICES ASSUME Inv PROVE ChildrenTrue OBVIOUS
  <2>1. Types BY DEF Inv
  <2>2. \A i \in DOMAIN events : events[i] \in Children \X Terminal BY <2>1 DEF Types
  <2>3. {up, gaveUp} \subseteq BOOLEAN BY <2>1 DEF Types
  <2>4. TypeOK BY <2>1, <2>2, <2>3 DEF Types, TypeOK, Rows, Tasks, Parents, Sweeps, Asking
  <2> QED BY <2>4 DEF Inv, ChildrenTrue
<1> QED BY <1>1, Invariance, PTL

\* A parent that is over, and whose cancellations are done, leaves no child
\* active, whoever ended it and at whatever step of its tools.
THEOREM NoneLeftBehind == Spec => []NoOrphans
<1>1. Inv => NoOrphans
  <2> SUFFICES ASSUME Inv, up, parent.status = "over", parent.pc = "none", ~gaveUp,
                      \A q \in Requests : request[q].pc \in {"idle", "done"} \/ request[q].child # None
               PROVE  ActiveChildren = {}
    BY DEF NoOrphans
  <2>1. \A q \in Requests : ~Cares(q) BY DEF Cares
  <2>2. Handled BY DEF Inv, Handed, HandedNow, SweptByParent
  <2> QED BY <2>1, <2>2 DEF Handled
<1> QED BY <1>1, Invariance, PTL
=============================================================================
