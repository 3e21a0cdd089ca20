------------------------- MODULE RunLifecycleProofs -------------------------
(***************************************************************************)
(* Proofs about RunLifecycle.                                              *)
(*                                                                         *)
(* First every action keeps the types.  Then the steps of a task are       *)
(* sorted by what they may change (it stores a checkpoint, moves on, or    *)
(* leaves), and each conjunct of Inductive is shown to survive each class  *)
(* and each step of the user and of the process.                           *)
(*                                                                         *)
(* Then what the user is promised.  On top of Inductive come the approvals *)
(* (a waiting Run can be decided), the steers (none is lost, doubled or    *)
(* forgotten) and the final answer, and from them that the Run implements  *)
(* RunOutcome.                                                             *)
(***************************************************************************)
EXTENDS RunLifecycle, FiniteSetTheorems, TLAPS

\* The compare-and-set keeps the row and the task typed.
LEMMA StoreTyped ==
    ASSUME TypeOK, NEW w \in Workers, NEW c \in Checkpoint, NEW next \in Working,
           Store(w, c, next)
    PROVE  run' \in RunRow /\ worker' \in [Workers -> Task]
  <1>1. worker[w] \in Task /\ run \in RunRow
    BY DEF TypeOK
  <1>2. worker[w].version + 1 \in Nat
    BY <1>1 DEF Task
  <1>3. c.phase \in Phases
    BY DEF Checkpoint
  <1>4. run' \in RunRow
    BY <1>1, <1>2, <1>3 DEF Store, RunRow
  <1>5. [worker[w] EXCEPT !.cp = c, !.version = @ + 1, !.pc = next, !.res = "none"]
           \in Task
    BY <1>1, <1>2 DEF Task, Working
  <1>6. worker' \in [Workers -> Task]
    BY <1>5 DEF Store, TypeOK
  <1>. QED
    BY <1>4, <1>6

\* A row that no task holds any more is a row.
LEMMA ReleasedTyped ==
    ASSUME TypeOK, NEW st \in Terminal \cup Nonterminal, NEW ph \in Phases,
           NEW c \in Checkpoint \cup {None}
    PROVE  Released(st, ph, c) \in RunRow
  <1>1. run \in RunRow
    BY DEF TypeOK
  <1>2. run.version + 1 \in Nat
    BY <1>1 DEF RunRow
  <1>. QED
    BY <1>1, <1>2 DEF RunRow, Released

\* A task that has stopped is a task.
LEMMA IdleTyped == IdleTask \in Task
  BY DEF IdleTask, Task

\* Stopping keeps the tasks typed.
LEMMA StopTyped ==
    ASSUME TypeOK, NEW w \in Workers, Stop(w)
    PROVE  worker' \in [Workers -> Task]
  BY IdleTyped DEF TypeOK, Stop

-----------------------------------------------------------------------------
(* The checkpoints a task computes are checkpoints.                        *)

\* The steers a message sequence carries are steers.
LEMMA SteersInTyped ==
    ASSUME NEW msgs \in Seq(Messages)
    PROVE  SteersIn(msgs) \subseteq Steers
  <1>1. ASSUME NEW i \in DOMAIN msgs, msgs[i][1] = "steers"
        PROVE  msgs[i][2] \subseteq Steers
    <2>1. msgs[i] \in Messages
      OBVIOUS
    <2>2. msgs[i] \in {"steers"} \X SUBSET Steers
      BY <1>1, <2>1 DEF Messages
    <2>. QED
      BY <2>2
  <1>. QED
    BY <1>1 DEF SteersIn

\* Folding the pending steers yields a checkpoint.
LEMMA FoldedTyped ==
    ASSUME NEW c \in Checkpoint
    PROVE  Folded(c) \in Checkpoint
  <1>1. <<"steers", PendingSteers>> \in Messages
    BY DEF Messages, PendingSteers
  <1>2. Append(c.msgs, <<"steers", PendingSteers>>) \in Seq(Messages)
    BY <1>1 DEF Checkpoint
  <1>. QED
    BY <1>2 DEF Checkpoint, Folded, Phases

\* Restoring a decision yields a checkpoint.
LEMMA DecidedTyped ==
    ASSUME TypeOK, NEW c \in Checkpoint, run.pending # 0
    PROVE  Decided(c) \in Checkpoint
  <1>1. run.pending \in Calls
    BY DEF TypeOK, RunRow
  <1>2. approval[run.pending].rem \in Seq(Calls)
    BY <1>1 DEF TypeOK, Approval
  <1>3. <<"error", run.pending>> \in Messages
    BY <1>1 DEF Messages
  <1>4. Append(c.msgs, <<"error", run.pending>>) \in Seq(Messages)
    BY <1>3 DEF Checkpoint
  <1>5. c.granted \cup {run.pending} \in SUBSET Calls
    BY <1>1 DEF Checkpoint
  <1>. QED
    BY <1>1, <1>2, <1>4, <1>5 DEF Checkpoint, Decided, Phases

\* Recording a tool result yields a checkpoint.
LEMMA ReportedTyped ==
    ASSUME TypeOK, NEW w \in Workers, worker[w].cp \in Checkpoint,
           Call(w) # 0, worker[w].res \in {"ok", "error"}
    PROVE  Reported(w) \in Checkpoint
  <1>. DEFINE c == worker[w].cp
  <1>1. c.cur \in Calls /\ c.rem \in Seq(Calls) /\ c.step + 1 \in Nat
    BY DEF Checkpoint, Call
  <1>2. <<worker[w].res, c.cur>> \in Messages
    BY <1>1 DEF Messages
  <1>3. Append(c.msgs, <<worker[w].res, c.cur>>) \in Seq(Messages)
    BY <1>2 DEF Checkpoint
  <1>4. c.rem # <<>> => Head(c.rem) \in Calls /\ Tail(c.rem) \in Seq(Calls)
    BY <1>1
  <1>. QED
    BY <1>1, <1>3, <1>4 DEF Checkpoint, Reported, Phases

\* Accepting the model's calls yields a checkpoint.
LEMMA ProposedTyped ==
    ASSUME TypeOK, NEW c \in Checkpoint, NEW n \in {1, 2}, issued + n <= NCalls
    PROVE  [c EXCEPT !.cur = issued + 1,
                     !.rem = [i \in 1 .. n - 1 |-> issued + 1 + i],
                     !.phase = "tool_ready"] \in Checkpoint
  <1>1. issued \in Nat /\ NCalls \in Nat
    BY RunConstants DEF TypeOK
  <1>2. issued + 1 \in Calls
    BY <1>1 DEF Calls
  <1>3. \A i \in 1 .. n - 1 : issued + 1 + i \in Calls
    BY <1>1 DEF Calls
  <1>4. [i \in 1 .. n - 1 |-> issued + 1 + i] \in Seq(Calls)
    BY <1>3
  <1>. QED
    BY <1>2, <1>4 DEF Checkpoint, Phases

\* The empty sequence is one of calls and one of messages.
LEMMA EmptyTyped == <<>> \in Seq(Calls) /\ <<>> \in Seq(Messages)
  OBVIOUS

\* The first checkpoint is a checkpoint.
LEMMA FreshTyped == FreshCheckpoint \in Checkpoint
  BY EmptyTyped DEF Checkpoint, FreshCheckpoint, Phases, Texts, Spoken

\* Every checkpoint a step of the loop writes is a checkpoint.
LEMMA CheckpointsTyped ==
    ASSUME NEW c \in Checkpoint, NEW ph \in Phases, NEW t \in Texts
    PROVE  /\ Reserved(c) \in Checkpoint
           /\ [c EXCEPT !.phase = ph] \in Checkpoint
           /\ [c EXCEPT !.phase = "finalizing", !.final = t] \in Checkpoint
           /\ [c EXCEPT !.cuts = @ + 1, !.cur = 0, !.rem = <<>>,
                        !.phase = "awaiting_model", !.step = @ + 1] \in Checkpoint
           /\ c.rem # <<>> =>
                [c EXCEPT !.phase = "tool_running", !.cur = Head(c.rem),
                          !.rem = Tail(c.rem)] \in Checkpoint
  <1>2. c.models + 1 \in Nat /\ c.cuts + 1 \in Nat /\ c.step + 1 \in Nat
    BY DEF Checkpoint
  <1>3. Reserved(c) \in Checkpoint
    BY <1>2 DEF Checkpoint, Reserved, Phases
  <1>4. [c EXCEPT !.phase = ph] \in Checkpoint
    BY DEF Checkpoint
  <1>5. [c EXCEPT !.phase = "finalizing", !.final = t] \in Checkpoint
    BY DEF Checkpoint, Phases
  <1>6. [c EXCEPT !.cuts = @ + 1, !.cur = 0, !.rem = <<>>,
                  !.phase = "awaiting_model", !.step = @ + 1] \in Checkpoint
    BY <1>2, EmptyTyped DEF Checkpoint, Phases
  <1>7. ASSUME c.rem # <<>>
        PROVE  [c EXCEPT !.phase = "tool_running", !.cur = Head(c.rem),
                         !.rem = Tail(c.rem)] \in Checkpoint
    <2>1. Head(c.rem) \in Calls /\ Tail(c.rem) \in Seq(Calls)
      BY <1>7 DEF Checkpoint
    <2>. QED
      BY <2>1 DEF Checkpoint, Phases
  <1>. QED
    BY <1>3, <1>4, <1>5, <1>6, <1>7

-----------------------------------------------------------------------------
(* Type correctness.                                                       *)

\* Every program location a step moves to is one.
LEMMA StartedTyped ==
    ASSUME TypeOK, CheckpointsPresent, NEW w \in Workers,
           worker[w].pc \in Working \ {"claimed"}
    PROVE  worker[w].cp \in Checkpoint
  BY DEF TypeOK, Task, CheckpointsPresent

\* Applying or queueing the pending steers keeps dispositions typed.
LEMMA DispositionsTyped ==
    ASSUME TypeOK
    PROVE  /\ AppliedAll \in [Steers -> {"unsent", "pending", "applied", "queued"}]
           /\ QueuedAll \in [Steers -> {"unsent", "pending", "applied", "queued"}]
  BY DEF TypeOK, AppliedAll, QueuedAll

\* prepare_finalization keeps row, tasks and dispositions typed.
LEMMA PrepareTyped ==
    ASSUME TypeOK, NEW w \in Workers, worker[w].cp \in Checkpoint,
           NEW t \in Texts, Prepare(w, t)
    PROVE  /\ run' \in RunRow /\ worker' \in [Workers -> Task]
           /\ disp' \in [Steers -> {"unsent", "pending", "applied", "queued"}]
  <1>1. CASE PendingSteers # {}
    BY <1>1, FoldedTyped, StoreTyped, DispositionsTyped DEF Prepare, Working
  <1>2. CASE PendingSteers = {}
    <2>1. [worker[w].cp EXCEPT !.phase = "finalizing", !.final = t] \in Checkpoint
      BY CheckpointsTyped DEF Phases
    <2>. QED
      BY <1>2, <2>1, StoreTyped DEF Prepare, Working, TypeOK
  <1>. QED
    BY <1>1, <1>2

\* Closing a pending approval keeps approvals and invocations typed.
LEMMA CloseTyped ==
    ASSUME TypeOK, CloseApproval
    PROVE  approval' \in [Calls -> Approval] /\ inv' \in [Calls -> Invocation]
  <1>1. \A c \in Calls : [approval[c] EXCEPT !.consumed = TRUE] \in Approval
    BY DEF TypeOK, Approval
  <1>2. \A c \in Calls : [inv[c] EXCEPT !.status = "cancelled"] \in Invocation
    BY DEF TypeOK, Invocation
  <1>3. approval \in [Calls -> Approval] /\ inv \in [Calls -> Invocation]
    BY DEF TypeOK
  <1>. QED
    BY <1>1, <1>2, <1>3 DEF CloseApproval

\* terminate_run keeps everything it writes typed.
LEMMA TerminateTyped ==
    ASSUME TypeOK, NEW st \in Terminal, Terminate(st)
    PROVE  /\ run' \in RunRow
           /\ approval' \in [Calls -> Approval] /\ inv' \in [Calls -> Invocation]
           /\ disp' \in [Steers -> {"unsent", "pending", "applied", "queued"}]
  <1>1. Released(st, "terminal", None) \in RunRow
    BY ReleasedTyped DEF Phases
  <1>2. run' \in RunRow
    BY <1>1 DEF Terminate, RunRow
  <1>. QED
    BY <1>2, CloseTyped, DispositionsTyped DEF Terminate, SteersAfterTermination

\* Type correctness of claiming, initializing and resuming.
LEMMA StartingTyped ==
    ASSUME TypeOK, CheckpointsPresent, NEW w \in Workers,
           \/ Claim(w) \/ ClaimRefused(w) \/ Initialize(w)
           \/ RestoreApproval(w) \/ Resume(w)
    PROVE  TypeOK'
  <1>. USE DEF userVars, toolVars, seenVars, procVars
  <1>0. run \in RunRow /\ worker[w] \in Task
    BY DEF TypeOK
  <1>1. CASE Claim(w)
    <2>1. run.attempt + 1 \in Nat /\ run.version + 1 \in Nat
      BY <1>0 DEF RunRow
    <2>2. run' \in RunRow
      <3>1. /\ run' = [run EXCEPT !.status = "running",
                          !.phase = IF @ = "not_started" THEN "starting" ELSE @,
                          !.token = run.attempt + 1, !.attempt = @ + 1,
                          !.version = @ + 1, !.expired = FALSE]
        BY <1>1 DEF Claim
      <3>2. \A p \in Phases : [run EXCEPT !.status = "running", !.phase = p,
                                !.token = run.attempt + 1, !.attempt = @ + 1,
                                !.version = @ + 1, !.expired = FALSE] \in RunRow
        BY <1>0, <2>1 DEF RunRow, Nonterminal
      <3>3. run.phase \in Phases /\ "starting" \in Phases
        BY <1>0 DEF RunRow, Phases
      <3>4. CASE run.phase = "not_started"
        BY <3>1, <3>2, <3>3, <3>4
      <3>5. CASE run.phase # "not_started"
        BY <3>1, <3>2, <3>3, <3>5
      <3>. QED
        BY <3>4, <3>5
    <2>3. [pc |-> "claimed", token |-> run.attempt + 1,
           version |-> run.version + 1, cp |-> run.cp, res |-> "none"] \in Task
      BY <1>0, <2>1 DEF RunRow, Task, Working
    <2>. QED
      BY <1>1, <2>2, <2>3 DEF Claim, TypeOK
  <1>2. CASE ClaimRefused(w)
    BY <1>2, StopTyped DEF ClaimRefused, TypeOK
  <1>3. CASE Initialize(w)
    <2>1. run' \in RunRow /\ worker' \in [Workers -> Task]
      BY <1>3, FreshTyped, StoreTyped DEF Initialize, Working
    <2>. QED
      BY <1>3, <2>1 DEF Initialize, TypeOK
  <1>4. CASE RestoreApproval(w)
    <2>. DEFINE c == Decided(worker[w].cp)
    <2>1. c \in Checkpoint /\ worker[w].version + 1 \in Nat
      BY <1>0, <1>4, DecidedTyped DEF RestoreApproval, Task
    <2>2. run' = [run EXCEPT !.cp = c, !.phase = c.phase, !.expired = FALSE,
                             !.version = worker[w].version + 1, !.pending = 0]
      BY <1>4 DEF RestoreApproval
    <2>3. run' \in RunRow
      <3>1. c.phase \in Phases
        BY <2>1 DEF Checkpoint
      <3>. QED
        BY <1>0, <2>1, <2>2, <3>1 DEF RunRow
    <2>4. worker' = [worker EXCEPT ![w].cp = c, ![w].version = @ + 1, ![w].pc = "loop"]
      BY <1>4 DEF RestoreApproval
    <2>5. [worker[w] EXCEPT !.cp = c, !.version = @ + 1, !.pc = "loop"] \in Task
      BY <1>0, <2>1 DEF Task, Working
    <2>6. worker' \in [Workers -> Task]
      BY <2>4, <2>5 DEF TypeOK
    <2>7. approval' \in [Calls -> Approval]
      <3>1. \A a \in Calls : [approval[a] EXCEPT !.consumed = TRUE] \in Approval
        BY DEF TypeOK, Approval
      <3>. QED
        BY <1>4, <3>1 DEF RestoreApproval, TypeOK
    <2>. QED
      BY <1>4, <2>3, <2>6, <2>7 DEF RestoreApproval, TypeOK
  <1>5. CASE Resume(w)
    <2>1. [worker[w] EXCEPT !.pc = ResumePoint(worker[w].cp)] \in Task
      BY <1>0 DEF Task, Working, ResumePoint
    <2>. QED
      BY <1>5, <2>1 DEF Resume, TypeOK
  <1>. QED
    BY <1>1, <1>2, <1>3, <1>4, <1>5

\* Type correctness of the model steps.
LEMMA ModelTyped ==
    ASSUME TypeOK, CheckpointsPresent, NEW w \in Workers,
           \/ StopAtLimit(w) \/ ConsumeSteers(w) \/ ReserveModelCall(w)
           \/ AskModel(w) \/ ModelAnswers(w) \/ ModelProposes(w, 1)
           \/ ModelProposes(w, 2) \/ ModelTruncates(w)
    PROVE  TypeOK'
  <1>. USE DEF userVars, toolVars, seenVars, procVars
  <1>. DEFINE c == worker[w].cp
  <1>0. worker[w] \in Task /\ c \in Checkpoint
    BY StartedTyped DEF TypeOK, StopAtLimit, InLoop, ConsumeSteers,
          ReserveModelCall,
          AskModel, CallModel, CallRefused, RepeatCall, ModelAnswers, ModelProposes,
          ModelTruncates, Working
  <1>1. CASE StopAtLimit(w) \/ ModelAnswers(w)
    <2>1. /\ run' \in RunRow /\ worker' \in [Workers -> Task]
          /\ disp' \in [Steers -> {"unsent", "pending", "applied", "queued"}]
      BY <1>0, <1>1, PrepareTyped DEF StopAtLimit, ModelAnswers, Texts, Spoken
    <2>. QED
      BY <1>1, <2>1 DEF StopAtLimit, ModelAnswers, TypeOK
  <1>2. CASE ConsumeSteers(w)
    <2>1. CASE PendingSteers = {}
      <3>1. [worker[w] EXCEPT !.pc = "reserve"] \in Task
        BY <1>0 DEF Task, Working
      <3>. QED
        BY <1>2, <2>1, <3>1 DEF ConsumeSteers, TypeOK
    <2>2. CASE PendingSteers # {}
      <3>1. run' \in RunRow /\ worker' \in [Workers -> Task]
        BY <1>0, <1>2, <2>2, FoldedTyped, StoreTyped DEF ConsumeSteers, Working
      <3>. QED
        BY <1>2, <2>2, <3>1, DispositionsTyped DEF ConsumeSteers, TypeOK
    <2>. QED
      BY <2>1, <2>2
  <1>3. CASE ReserveModelCall(w)
    <2>1. Reserved(c) \in Checkpoint
      BY <1>0, CheckpointsTyped DEF Phases, Texts, Spoken
    <2>2. run' \in RunRow /\ worker' \in [Workers -> Task]
      BY <1>3, <2>1, StoreTyped DEF ReserveModelCall, Working
    <2>. QED
      BY <1>3, <2>2 DEF ReserveModelCall, TypeOK
  <1>4. CASE AskModel(w)
    <2>1. /\ [worker[w] EXCEPT !.pc = "model"] \in Task
          /\ [worker[w] EXCEPT !.pc = "again"] \in Task
      BY <1>0 DEF Task, Working
    <2>2. SteersIn(c.msgs) \subseteq Steers
      BY <1>0, SteersInTyped DEF Checkpoint
    <2>3. /\ [provider EXCEPT !.calls = @ + 1] \in [calls : Nat, repeats : Nat]
          /\ [provider EXCEPT !.repeats = @ + 1] \in [calls : Nat, repeats : Nat]
      BY DEF TypeOK
    <2>. QED
      BY <1>4, <2>1, <2>2, <2>3 DEF AskModel, CallModel, CallRefused, RepeatCall,
         Reads, TypeOK
  <1>5. ASSUME NEW n \in {1, 2}, ModelProposes(w, n)
        PROVE  TypeOK'
    <2>1. run' \in RunRow /\ worker' \in [Workers -> Task]
      BY <1>0, <1>5, ProposedTyped, StoreTyped DEF ModelProposes, Working
    <2>2. issued' \in 0 .. NCalls
      BY <1>5, RunConstants DEF ModelProposes, TypeOK
    <2>. QED
      BY <1>5, <2>1, <2>2 DEF ModelProposes, TypeOK
  <1>6. CASE ModelTruncates(w)
    <2>. DEFINE cut == [c EXCEPT !.cuts = @ + 1, !.cur = 0, !.rem = <<>>,
                                 !.phase = "awaiting_model", !.step = @ + 1]
    <2>1. cut \in Checkpoint
      BY <1>0, CheckpointsTyped DEF Phases, Texts, Spoken
    <2>2. Store(w, cut, "loop") \/ Store(w, cut, "failing")
      BY <1>6 DEF ModelTruncates
    <2>3. run' \in RunRow /\ worker' \in [Workers -> Task]
      BY <2>1, <2>2, StoreTyped DEF Working
    <2>. QED
      BY <1>6, <2>3 DEF ModelTruncates, TypeOK
  <1>. QED
    BY <1>1, <1>2, <1>3, <1>4, <1>5, <1>6

\* Type correctness of the tool steps.
LEMMA ToolTyped ==
    ASSUME TypeOK, CheckpointsPresent, NEW w \in Workers,
           \/ StartTool(w) \/ RefuseTool(w) \/ ObserveTool(w) \/ ClaimTool(w)
           \/ CommitTool(w) \/ SettleTool(w) \/ LoseClaim(w)
           \/ ReportTool(w) \/ PauseForApproval(w)
    PROVE  TypeOK'
  <1>. USE DEF userVars, toolVars, seenVars, procVars
  <1>. DEFINE c == worker[w].cp
  <1>0. worker[w] \in Task /\ c \in Checkpoint /\ run \in RunRow
    BY StartedTyped DEF TypeOK, StartTool, InLoop, RefuseTool, ObserveTool,
          ClaimTool, CommitTool, SettleTool, LoseClaim, ReportTool,
          PauseForApproval, Working
  <1>1. CASE StartTool(w)
    <2>1. /\ [c EXCEPT !.phase = "tool_running"] \in Checkpoint
          /\ c.rem # <<>> => [c EXCEPT !.phase = "tool_running",
               !.cur = Head(c.rem), !.rem = Tail(c.rem)] \in Checkpoint
      BY <1>0, CheckpointsTyped DEF Phases, Texts, Spoken
    <2>2. run' \in RunRow /\ worker' \in [Workers -> Task]
      BY <1>1, <2>1, StoreTyped DEF StartTool, Working
    <2>. QED
      BY <1>1, <2>2 DEF StartTool, TypeOK
  <1>2. ASSUME NEW res \in {"ok", "error", "approval"}, Returns(w, res)
        PROVE  worker' \in [Workers -> Task]
    <2>1. [worker[w] EXCEPT !.pc = "done", !.res = res] \in Task
      BY <1>0 DEF Task, Working
    <2>. QED
      BY <1>2, <2>1 DEF Returns, TypeOK
  <1>3. ASSUME NEW st \in {"committed", "pending_approval", "failed", "retry_pending"},
               Settle(w, st)
        PROVE  inv' \in [Calls -> Invocation]
    BY <1>3 DEF Settle, TypeOK, Invocation
  <1>4. CASE RefuseTool(w)
    BY <1>2, <1>4 DEF RefuseTool, TypeOK
  <1>5. CASE ObserveTool(w)
    BY <1>2, <1>5 DEF ObserveTool, TypeOK
  <1>6. CASE ClaimTool(w)
    <2>1. [worker[w] EXCEPT !.pc = "exec"] \in Task
      BY <1>0 DEF Task, Working
    <2>2. [status |-> "running", owner |-> worker[w].token] \in Invocation
      BY <1>0 DEF Task, Invocation
    <2>3. inv' \in [Calls -> Invocation]
      BY <1>6, <2>2 DEF ClaimTool, TypeOK
    <2>4. worker' \in [Workers -> Task]
      BY <1>6, <2>1 DEF ClaimTool, TypeOK
    <2>. QED
      BY <1>6, <2>3, <2>4 DEF ClaimTool, TypeOK
  <1>7. CASE CommitTool(w)
    <2>1. effects' \in [Calls -> Nat]
      <3>1. \A a \in Calls : effects[a] + 1 \in Nat
        BY DEF TypeOK
      <3>2. effects \in [Calls -> Nat]
        BY DEF TypeOK
      <3>. QED
        BY <1>7, <3>1, <3>2 DEF CommitTool
    <2>. QED
      BY <1>2, <1>3, <1>7, <2>1 DEF CommitTool, TypeOK
  <1>8. CASE SettleTool(w)
    <2>1. inv' \in [Calls -> Invocation] /\ worker' \in [Workers -> Task]
      BY <1>2, <1>3, <1>8 DEF SettleTool
    <2>. QED
      BY <1>8, <2>1 DEF SettleTool, TypeOK
  <1>9. CASE LoseClaim(w)
    BY <1>2, <1>9 DEF LoseClaim, LostClaimResult, TypeOK
  <1>10. CASE ReportTool(w)
    <2>1. Call(w) # 0
      BY <1>10 DEF ReportTool, CheckpointsPresent
    <2>2. run' \in RunRow /\ worker' \in [Workers -> Task]
      BY <1>0, <1>10, <2>1, ReportedTyped, StoreTyped DEF ReportTool, Working
    <2>. QED
      BY <1>10, <2>2 DEF ReportTool, TypeOK
  <1>11. CASE PauseForApproval(w)
    <2>1. Call(w) \in Calls /\ c.rem \in Seq(Calls)
      BY <1>0, <1>11 DEF PauseForApproval, CheckpointsPresent, Call, Checkpoint
    <2>2. [c EXCEPT !.phase = "waiting_approval"] \in Checkpoint
      BY <1>0, CheckpointsTyped DEF Phases, Texts, Spoken
    <2>. DEFINE row == Released("waiting_approval", "waiting_approval",
                                [c EXCEPT !.phase = "waiting_approval"])
    <2>3. row \in RunRow
      BY <2>2, ReleasedTyped DEF Nonterminal, Phases
    <2>4. run' = [row EXCEPT !.pending = Call(w)]
      BY <1>11 DEF PauseForApproval
    <2>5. run' \in RunRow
      BY <2>1, <2>3, <2>4 DEF RunRow
    <2>6. [decision |-> "pending", consumed |-> FALSE, rem |-> c.rem] \in Approval
      BY <2>1 DEF Approval
    <2>7. approval' \in [Calls -> Approval]
      BY <1>11, <2>6 DEF PauseForApproval, TypeOK
    <2>. QED
      BY <1>11, <2>5, <2>7, StopTyped DEF PauseForApproval, TypeOK
  <1>. QED
    BY <1>1, <1>4, <1>5, <1>6, <1>7, <1>8, <1>9, <1>10, <1>11

\* Type correctness of the steps that end or suspend a Run.
LEMMA EndTyped ==
    ASSUME TypeOK, CheckpointsPresent, LeaseholderIsCurrent, NEW w \in Workers,
           \/ Finalize(w) \/ ScheduleRetry(w) \/ Fail(w) \/ LoseLease(w)
           \/ Die(w) \/ Renew(w)
    PROVE  TypeOK'
  <1>. USE DEF userVars, toolVars, seenVars, procVars
  <1>0. worker[w] \in Task /\ run \in RunRow
    BY DEF TypeOK
  <1>1. CASE Finalize(w)
    <2>1. worker[w].cp.final \in Texts
      BY <1>1, StartedTyped DEF Finalize, Working, Checkpoint
    <2>. DEFINE row == Released("completed", "terminal", None)
    <2>2. row \in RunRow
      BY ReleasedTyped DEF Terminal, Phases
    <2>3. run' = [row EXCEPT !.pending = 0, !.output = worker[w].cp.final]
      BY <1>1 DEF Finalize
    <2>4. run' \in RunRow
      BY <2>1, <2>2, <2>3 DEF RunRow
    <2>5. answers' \in Seq(Texts)
      BY <1>1, <2>1 DEF Finalize, Posted, TypeOK
    <2>. QED
      BY <1>1, <2>4, <2>5, StopTyped DEF Finalize, TypeOK
  <1>2. CASE ScheduleRetry(w)
    <2>1. run.cp \in Checkpoint
      BY <1>2, StartedTyped DEF ScheduleRetry, LeaseholderIsCurrent, Working
    <2>. DEFINE row == Released("retry_wait", "retry_wait",
                                [run.cp EXCEPT !.phase = "retry_wait"])
    <2>2. row \in RunRow
      BY <2>1, CheckpointsTyped, ReleasedTyped DEF Nonterminal, Phases, Texts, Spoken
    <2>3. run' = [row EXCEPT !.retries = @ + 1]
      BY <1>2 DEF ScheduleRetry
    <2>4. run' \in RunRow
      BY <2>2, <2>3 DEF RunRow
    <2>5. [IdleTask EXCEPT !.pc = "sleep"] \in Task
      BY DEF IdleTask, Task
    <2>. QED
      BY <1>2, <2>4, <2>5 DEF ScheduleRetry, TypeOK
  <1>3. CASE Fail(w)
    <2>1. /\ run' \in RunRow
          /\ approval' \in [Calls -> Approval] /\ inv' \in [Calls -> Invocation]
          /\ disp' \in [Steers -> {"unsent", "pending", "applied", "queued"}]
      BY <1>3, TerminateTyped DEF Fail, Terminal
    <2>. QED
      BY <1>3, <2>1, StopTyped DEF Fail, TypeOK
  <1>4. CASE LoseLease(w) \/ Die(w)
    BY <1>4, StopTyped DEF LoseLease, Die, TypeOK
  <1>5. CASE Renew(w)
    <2>1. run' \in RunRow
      BY <1>0, <1>5 DEF Renew, RunRow
    <2>. QED
      BY <1>5, <2>1 DEF Renew, TypeOK
  <1>. QED
    BY <1>1, <1>2, <1>3, <1>4, <1>5

\* Type correctness of the user's steps.
LEMMA UserTyped ==
    ASSUME TypeOK,
           \/ Cancel \/ Expire \/ RecordSteer
           \/ \E d \in Deciders :
                \/ \E choice \in {"approve", "reject"} : LoadForDecision(d, choice)
                \/ Decide(d) \/ DecideRefused(d)
    PROVE  TypeOK'
  <1>. USE DEF userVars, toolVars, seenVars, procVars
  <1>0. run \in RunRow
    BY DEF TypeOK
  <1>1. CASE Cancel
    <2>1. /\ run' \in RunRow
          /\ approval' \in [Calls -> Approval] /\ inv' \in [Calls -> Invocation]
          /\ disp' \in [Steers -> {"unsent", "pending", "applied", "queued"}]
      BY <1>1, TerminateTyped DEF Cancel, Terminal
    <2>. QED
      BY <1>1, <2>1 DEF Cancel, TypeOK
  <1>2. CASE Expire
    <2>1. run' \in RunRow
      BY <1>0, <1>2 DEF Expire, RunRow
    <2>. QED
      BY <1>2, <2>1 DEF Expire, TypeOK
  <1>3. CASE RecordSteer
    BY <1>3 DEF RecordSteer, TypeOK
  <1>4. ASSUME NEW d \in Deciders, NEW choice \in {"approve", "reject"},
               LoadForDecision(d, choice)
        PROVE  TypeOK'
    <2>1. [choice |-> choice, row |-> run] \in Request
      BY <1>0 DEF Request
    <2>. QED
      BY <1>4, <2>1 DEF LoadForDecision, TypeOK
  <1>5. ASSUME NEW d \in Deciders, Decide(d)
        PROVE  TypeOK'
    <2>. DEFINE row == request[d].row
    <2>1. row \in RunRow /\ request[d].choice \in {"approve", "reject"}
      BY <1>5 DEF Decide, TypeOK, Request
    <2>2. row.version + 1 \in Nat /\ row.cp \in Checkpoint \cup {None}
          /\ row.pending \in Calls \cup {0}
      BY <2>1 DEF RunRow
    <2>3. run' = [run EXCEPT !.status = "queued", !.cp = row.cp,
                             !.pending = row.pending, !.version = row.version + 1]
      BY <1>5 DEF Decide, Requeued
    <2>4. run' \in RunRow
      BY <1>0, <2>2, <2>3 DEF RunRow, Nonterminal
    <2>5. approval' \in [Calls -> Approval]
      <3>1. \A a \in Calls : [approval[a] EXCEPT !.decision = request[d].choice]
                                \in Approval
        BY <2>1 DEF TypeOK, Approval
      <3>. QED
        BY <1>5, <3>1 DEF Decide, TypeOK
    <2>6. inv' \in [Calls -> Invocation]
      <3>1. \A a \in Calls : [inv[a] EXCEPT !.status = "rejected"] \in Invocation
        BY DEF TypeOK, Invocation
      <3>. QED
        BY <1>5, <3>1 DEF Decide, TypeOK
    <2>. QED
      BY <1>5, <2>4, <2>5, <2>6 DEF Decide, TypeOK
  <1>6. ASSUME NEW d \in Deciders, DecideRefused(d)
        PROVE  TypeOK'
    BY <1>6 DEF DecideRefused, TypeOK
  <1>. QED
    BY <1>1, <1>2, <1>3, <1>4, <1>5, <1>6

\* Type correctness of crashes, restarts and the lease clock.
LEMMA ProcessTyped ==
    ASSUME TypeOK, Crash \/ Restart
    PROVE  TypeOK'
  <1>. USE DEF userVars, toolVars, seenVars, procVars
  <1>1. CASE Crash
    <2>1. worker' \in [Workers -> Task]
      BY <1>1, IdleTyped DEF Crash
    <2>2. request' \in [Deciders -> Request \cup {None}]
      BY <1>1 DEF Crash
    <2>3. crashes' \in Nat
      BY <1>1 DEF Crash, TypeOK
    <2>4. up' \in BOOLEAN
      BY <1>1, Zenon DEF Crash
    <2>. QED
      BY <1>1, <2>1, <2>2, <2>3, <2>4 DEF Crash, TypeOK
  <1>2. CASE Restart
    <2>1. run.cp \in Checkpoint \cup {None}
      BY DEF TypeOK, RunRow
    <2>2. run' \in RunRow
      <3>1. CASE UNCHANGED run
        BY <3>1 DEF TypeOK
      <3>2. CASE run' = [Released("failed", "terminal", None)
                           EXCEPT !.pending = 0, !.reason = "scope_unavailable"]
        <4>1. Released("failed", "terminal", None) \in RunRow
          BY ReleasedTyped DEF Terminal, Phases
        <4>. QED
          BY <3>2, <4>1 DEF RunRow
      <3>3. CASE run' = Released("needs_reconciliation", "reconciling", run.cp)
        BY <2>1, <3>3, ReleasedTyped DEF Nonterminal, Phases
      <3>4. CASE run' = Released("queued",
                          IF run.cp = None THEN "not_started" ELSE run.cp.phase, run.cp)
        <4>1. (IF run.cp = None THEN "not_started" ELSE run.cp.phase) \in Phases
          BY <2>1 DEF Checkpoint, Phases
        <4>. QED
          BY <2>1, <3>4, <4>1, ReleasedTyped DEF Nonterminal
      <3>. QED
        BY <1>2, <3>1, <3>2, <3>3, <3>4 DEF Restart
    <2>3. approval' \in [Calls -> Approval] /\ inv' \in [Calls -> Invocation]
      BY <1>2, CloseTyped DEF Restart, TypeOK
    <2>. QED
      BY <1>2, <2>2, <2>3 DEF Restart, TypeOK
  <1>. QED
    BY <1>1, <1>2

\* Every step keeps every variable in its type.
LEMMA TypeStep ==
    ASSUME TypeOK, CheckpointsPresent, LeaseholderIsCurrent, [Next]_vars
    PROVE  TypeOK'
  <1>1. CASE UNCHANGED vars
    BY <1>1 DEF vars, userVars, toolVars, seenVars, procVars, TypeOK
  <1>2. ASSUME NEW w \in Workers, Claim(w) \/ TaskStep(w) \/ Die(w) \/ Renew(w)
        PROVE  TypeOK'
    BY <1>2, StartingTyped, ModelTyped, ToolTyped, EndTyped DEF TaskStep
  <1>3. CASE Cancel \/ Expire \/ RecordSteer
             \/ \E d \in Deciders :
                  \/ \E choice \in {"approve", "reject"} : LoadForDecision(d, choice)
                  \/ Decide(d) \/ DecideRefused(d)
    BY <1>3, UserTyped
  <1>4. CASE Crash \/ Restart
    BY <1>4, ProcessTyped
  <1>. QED
    BY <1>1, <1>2, <1>3, <1>4 DEF Next

-----------------------------------------------------------------------------
(* What the steps of a task have in common.                                *)

Inherited(w) == IF worker[w].cp = None THEN {} ELSE worker[w].cp.granted

\* The task stores a checkpoint under its lease, with no grant of its own.
Stores(w) ==
    /\ worker[w].pc \in Working
    /\ Leased(w)
    /\ UNCHANGED <<request, approval, inv, effects>>
    /\ \E c \in Checkpoint, next \in Working \ {"claimed", "exec", "done"} :
         /\ Store(w, c, next)
         /\ next = "tool" => c.cur # 0
         /\ c.granted \subseteq Inherited(w)

\* The task goes on in memory; the row stays as it is.
Moves(w) ==
    /\ worker[w].pc \in Working
    /\ UNCHANGED <<run, request, approval>>
    /\ \E next \in Working \ {"claimed"}, res \in {"none", "ok", "error", "approval"} :
         /\ worker' = [worker EXCEPT ![w] = [@ EXCEPT !.pc = next, !.res = res]]
         /\ next \in {"tool", "exec", "done"} => worker[w].pc \in {"tool", "exec"}
         /\ worker[w].cp # None

\* The task leaves the Run.
Leaves(w) ==
    \E pc \in {"idle", "sleep"} :
        worker' = [worker EXCEPT ![w] = [IdleTask EXCEPT !.pc = pc]]

\* A rejected model output changes no grant.
LEMMA TruncatedGrants ==
    ASSUME NEW c \in Checkpoint
    PROVE  [c EXCEPT !.cuts = @ + 1, !.cur = 0, !.rem = <<>>,
                     !.phase = "awaiting_model", !.step = @ + 1].granted = c.granted
  BY DEF Checkpoint

\* Steps of a task that store a checkpoint: what they write and keep.
LEMMA StoringSteps ==
    ASSUME TypeOK, CheckpointsPresent, NEW w \in Workers,
           \/ Initialize(w) \/ StopAtLimit(w) \/ ReserveModelCall(w)
           \/ ModelAnswers(w) \/ ModelProposes(w, 1) \/ ModelProposes(w, 2)
           \/ ModelTruncates(w) \/ StartTool(w) \/ ReportTool(w)
           \/ ConsumeSteers(w) /\ PendingSteers # {}
    PROVE  Stores(w)
  <1>. USE DEF userVars, toolVars, seenVars, procVars, Inherited
  <1>. DEFINE c == worker[w].cp
  <1>. DEFINE Shaped(d, next) == /\ d \in Checkpoint
                                 /\ next \in Working \ {"claimed", "exec", "done"}
                                 /\ next = "tool" => d.cur # 0
                                 /\ d.granted \subseteq Inherited(w)
  <1>1. /\ worker[w].pc \in Working /\ Leased(w)
        /\ UNCHANGED <<request, approval, inv, effects>>
    BY DEF Initialize, StopAtLimit, ReserveModelCall, ModelAnswers,
          ModelProposes, ModelTruncates, StartTool, ReportTool, ConsumeSteers,
          InLoop, Working
  <1>2. ~Initialize(w) => c \in Checkpoint /\ c # None
    BY StartedTyped, NoneIsNull DEF StopAtLimit, ReserveModelCall,
          ModelAnswers, ModelProposes, ModelTruncates, StartTool, ReportTool,
          ConsumeSteers, InLoop, Working
  <1>3. SUFFICES \E d, next : Store(w, d, next) /\ Shaped(d, next)
    BY <1>1 DEF Stores
  <1>4. CASE Initialize(w)
    <2>1. Shaped(FreshCheckpoint, "loop")
      BY FreshTyped DEF FreshCheckpoint, Working
    <2>. QED
      BY <1>4, <2>1 DEF Initialize
  <1>5. ASSUME NEW t \in Texts, Prepare(w, t), c \in Checkpoint, c # None
        PROVE  \E d, next : Store(w, d, next) /\ Shaped(d, next)
    <2>1. CASE PendingSteers # {}
      <3>1. Shaped(Folded(c), "loop")
        BY <1>5, FoldedTyped DEF Folded, Checkpoint, Working
      <3>. QED
        BY <1>5, <2>1, <3>1 DEF Prepare
    <2>2. CASE PendingSteers = {}
      <3>. DEFINE d == [c EXCEPT !.phase = "finalizing", !.final = t]
      <3>1. d \in Checkpoint
        BY <1>5, CheckpointsTyped DEF Phases
      <3>2. d.granted = c.granted
        BY <1>5 DEF Checkpoint
      <3>3. Shaped(d, "final")
        BY <1>5, <3>1, <3>2 DEF Working
      <3>4. Store(w, d, "final")
        BY <1>5, <2>2 DEF Prepare
      <3>. QED
        BY <3>3, <3>4
    <2>. QED
      BY <2>1, <2>2
  <1>6. CASE StopAtLimit(w) \/ ModelAnswers(w)
    <2>1. ~Initialize(w)
      BY <1>6 DEF StopAtLimit, ModelAnswers, InLoop, Initialize
    <2>. QED
      BY <1>2, <1>5, <1>6, <2>1 DEF StopAtLimit, ModelAnswers, Texts, Spoken
  <1>7. CASE ReserveModelCall(w)
    <2>1. c \in Checkpoint /\ c # None
      BY <1>2, <1>7 DEF ReserveModelCall, Initialize
    <2>2. Reserved(c) \in Checkpoint
      BY <2>1, CheckpointsTyped DEF Phases, Texts, Spoken
    <2>3. Reserved(c).granted = c.granted
      BY <2>1 DEF Reserved, Checkpoint
    <2>4. Shaped(Reserved(c), "call")
      BY <2>1, <2>2, <2>3 DEF Working
    <2>. QED
      BY <1>7, <2>4 DEF ReserveModelCall
  <1>8. ASSUME NEW n \in {1, 2}, ModelProposes(w, n)
        PROVE  \E d, next : Store(w, d, next) /\ Shaped(d, next)
    <2>. DEFINE d == [c EXCEPT !.cur = issued + 1,
                               !.rem = [i \in 1 .. n - 1 |-> issued + 1 + i],
                               !.phase = "tool_ready"]
    <2>1. c \in Checkpoint /\ c # None
      BY <1>2, <1>8 DEF ModelProposes, Initialize
    <2>2. d \in Checkpoint
      BY <1>8, <2>1, ProposedTyped DEF ModelProposes
    <2>3. d.granted = c.granted
      BY <2>1 DEF Checkpoint
    <2>4. Shaped(d, "loop")
      BY <2>1, <2>2, <2>3 DEF Working
    <2>5. Store(w, d, "loop")
      BY <1>8 DEF ModelProposes
    <2>. QED
      BY <2>4, <2>5
  <1>9. CASE ModelTruncates(w)
    <2>. DEFINE d == [c EXCEPT !.cuts = @ + 1, !.cur = 0, !.rem = <<>>,
                               !.phase = "awaiting_model", !.step = @ + 1]
    <2>1. c \in Checkpoint /\ c # None
      BY <1>2, <1>9 DEF ModelTruncates, Initialize
    <2>2. d \in Checkpoint /\ d.granted = c.granted
      BY <2>1, CheckpointsTyped, TruncatedGrants DEF Phases, Texts, Spoken
    <2>3. Shaped(d, "loop") /\ Shaped(d, "failing")
      BY <2>1, <2>2 DEF Working
    <2>4. Store(w, d, "loop") \/ Store(w, d, "failing")
      BY <1>9 DEF ModelTruncates
    <2>. QED
      BY <2>3, <2>4
  <1>10. CASE StartTool(w)
    <2>. DEFINE d == [c EXCEPT !.phase = "tool_running"]
                e == [c EXCEPT !.phase = "tool_running", !.cur = Head(c.rem),
                               !.rem = Tail(c.rem)]
    <2>1. c \in Checkpoint /\ c # None
      BY <1>2, <1>10 DEF StartTool, InLoop, Initialize
    <2>2. d \in Checkpoint /\ (c.rem # <<>> => e \in Checkpoint)
      BY <2>1, CheckpointsTyped DEF Phases, Texts, Spoken
    <2>3. d.granted = c.granted /\ e.granted = c.granted /\ d.cur = c.cur
          /\ e.cur = Head(c.rem)
      BY <2>1 DEF Checkpoint
    <2>4. c.rem # <<>> => Head(c.rem) # 0
      <3>1. c.rem # <<>> => Head(c.rem) \in Calls
        BY <2>1 DEF Checkpoint
      <3>. QED
        BY <3>1 DEF Calls
    <2>5. \/ c.cur # 0 /\ Store(w, d, "tool")
          \/ c.rem # <<>> /\ Store(w, e, "tool")
      BY <1>10 DEF StartTool
    <2>6. c.cur # 0 => Shaped(d, "tool")
      BY <2>1, <2>2, <2>3 DEF Working
    <2>7. c.rem # <<>> => Shaped(e, "tool")
      BY <2>1, <2>2, <2>3, <2>4 DEF Working
    <2>. QED
      BY <2>5, <2>6, <2>7
  <1>11. CASE ReportTool(w)
    <2>1. c \in Checkpoint /\ c # None
      BY <1>2, <1>11 DEF ReportTool, Initialize
    <2>2. Reported(w) \in Checkpoint
      BY <1>11, <2>1, ReportedTyped DEF ReportTool, CheckpointsPresent
    <2>3. Reported(w).granted = c.granted
      BY <2>1 DEF Reported, Checkpoint
    <2>4. Shaped(Reported(w), "loop")
      BY <2>1, <2>2, <2>3 DEF Working
    <2>. QED
      BY <1>11, <2>4 DEF ReportTool
  <1>12. CASE ConsumeSteers(w) /\ PendingSteers # {}
    <2>1. c \in Checkpoint /\ c # None
      BY <1>2, <1>12 DEF ConsumeSteers, InLoop, Initialize
    <2>2. Shaped(Folded(c), "reserve")
      BY <2>1, FoldedTyped DEF Folded, Checkpoint, Working
    <2>. QED
      BY <1>12, <2>2 DEF ConsumeSteers
  <1>. QED
    BY <1>4, <1>6, <1>7, <1>8, <1>9, <1>10, <1>11, <1>12

\* Steps of a task that only move on: what they keep.
LEMMA MovingSteps ==
    ASSUME TypeOK, CheckpointsPresent, NEW w \in Workers,
           \/ Resume(w) \/ AskModel(w) \/ RefuseTool(w) \/ ObserveTool(w)
           \/ ClaimTool(w) \/ CommitTool(w) \/ SettleTool(w) \/ LoseClaim(w)
           \/ ConsumeSteers(w) /\ PendingSteers = {}
    PROVE  Moves(w)
  <1>. USE DEF userVars, toolVars, seenVars, procVars
  <1>1. /\ worker[w].pc \in Working /\ worker[w].cp # None
        /\ UNCHANGED <<run, request, approval>>
    BY DEF Resume,
       AskModel, CallModel, CallRefused, RepeatCall, RefuseTool, ObserveTool, ClaimTool, CommitTool,
          SettleTool, LoseClaim, ConsumeSteers, InLoop, Working, CheckpointsPresent
  <1>2. worker[w] \in Task
    BY DEF TypeOK
  <1>3. ASSUME NEW next \in Working \ {"claimed"},
               worker' = [worker EXCEPT ![w].pc = next],
               next \in {"tool", "exec", "done"} => worker[w].pc \in {"tool", "exec"}
        PROVE  Moves(w)
    <2>1. worker[w].res \in {"none", "ok", "error", "approval"}
      BY <1>2 DEF Task
    <2>2. worker' = [worker EXCEPT ![w] =
                       [@ EXCEPT !.pc = next, !.res = worker[w].res]]
      BY <1>2, <1>3 DEF Task, TypeOK
    <2>. QED
      BY <1>1, <1>3, <2>1, <2>2 DEF Moves
  <1>4. ASSUME NEW res \in {"ok", "error", "approval"}, Returns(w, res),
               worker[w].pc \in {"tool", "exec"}
        PROVE  Moves(w)
    <2>1. worker' = [worker EXCEPT ![w] = [@ EXCEPT !.pc = "done", !.res = res]]
      BY <1>4 DEF Returns
    <2>. QED
      BY <1>1, <1>4, <2>1 DEF Moves, Working
  <1>5. CASE Resume(w)
    <2>1. ResumePoint(worker[w].cp) \in {"final", "loop"}
      BY DEF ResumePoint
    <2>2. worker' = [worker EXCEPT ![w].pc = ResumePoint(worker[w].cp)]
      BY <1>5 DEF Resume
    <2>. QED
      BY <1>3, <2>1, <2>2 DEF Working
  <1>6. CASE AskModel(w)
    BY <1>3, <1>6 DEF AskModel, CallModel, CallRefused, RepeatCall, Working
  <1>7. CASE ClaimTool(w)
    BY <1>3, <1>7 DEF ClaimTool, Working
  <1>8. CASE ConsumeSteers(w) /\ PendingSteers = {}
    BY <1>3, <1>8 DEF ConsumeSteers, Working
  <1>9. CASE RefuseTool(w) \/ ObserveTool(w) \/ CommitTool(w) \/ SettleTool(w)
               \/ LoseClaim(w)
    <2>1. \E res \in {"ok", "error", "approval"} : Returns(w, res)
      BY <1>9 DEF RefuseTool, ObserveTool, CommitTool, SettleTool, LoseClaim,
            LostClaimResult
    <2>2. worker[w].pc \in {"tool", "exec"}
      BY <1>9 DEF RefuseTool, ObserveTool, CommitTool, SettleTool, LoseClaim
    <2>. QED
      BY <1>4, <2>1, <2>2
  <1>. QED
    BY <1>5, <1>6, <1>7, <1>8, <1>9

\* Steps in which a task lets the Run go: what they keep.
LEMMA LeavingSteps ==
    ASSUME NEW w \in Workers,
           \/ PauseForApproval(w) \/ Finalize(w) \/ ScheduleRetry(w) \/ Fail(w)
           \/ LoseLease(w) \/ ClaimRefused(w) \/ Die(w)
    PROVE  Leaves(w)
  <1>1. CASE ScheduleRetry(w)
    BY <1>1 DEF ScheduleRetry, Leaves
  <1>2. CASE Stop(w)
    <2>1. [IdleTask EXCEPT !.pc = "idle"] = IdleTask
      BY DEF IdleTask
    <2>. QED
      BY <1>2, <2>1 DEF Stop, Leaves
  <1>. QED
    BY <1>1, <1>2 DEF PauseForApproval, Finalize, Fail, LoseLease,
          ClaimRefused, Die

\* Every step of a task stores, moves on or leaves.
LEMMA TaskSteps ==
    ASSUME TypeOK, CheckpointsPresent, NEW w \in Workers, TaskStep(w)
    PROVE  \/ Stores(w) \/ Moves(w) \/ RestoreApproval(w)
           \/ PauseForApproval(w) \/ Finalize(w) \/ ScheduleRetry(w) \/ Fail(w)
           \/ LoseLease(w) \/ ClaimRefused(w)
  BY StoringSteps, MovingSteps DEF TaskStep

-----------------------------------------------------------------------------
(* Leases: tokens, checkpoints and who may use them.                       *)

\* A step of the user does not touch a task.
LEMMA UserSteps ==
    ASSUME \/ Cancel \/ Expire \/ RecordSteer
           \/ \E d \in Deciders :
                \/ \E choice \in {"approve", "reject"} : LoadForDecision(d, choice)
                \/ Decide(d) \/ DecideRefused(d)
    PROVE  UNCHANGED worker
  BY DEF Cancel, Expire, RecordSteer, LoadForDecision, Decide, DecideRefused

\* No step ever lowers the attempt number; only a claim raises it.
LEMMA AttemptSteps ==
    ASSUME TypeOK, CheckpointsPresent, [Next]_vars, \A w \in Workers : ~Claim(w)
    PROVE  run'.attempt = run.attempt
  <1>. USE DEF userVars, toolVars, seenVars, procVars
  <1>1. run \in RunRow
    BY DEF TypeOK
  <1>2. CASE UNCHANGED vars
    BY <1>2 DEF vars
  <1>3. ASSUME NEW w \in Workers, TaskStep(w)
        PROVE  run'.attempt = run.attempt
    <2>1. CASE Stores(w)
      BY <1>1, <2>1 DEF Stores, Store, RunRow
    <2>2. CASE Moves(w) \/ LoseLease(w) \/ ClaimRefused(w)
      BY <2>2 DEF Moves, LoseLease, ClaimRefused
    <2>3. CASE RestoreApproval(w)
      BY <1>1, <2>3 DEF RestoreApproval, RunRow
    <2>4. CASE PauseForApproval(w) \/ Finalize(w) \/ ScheduleRetry(w) \/ Fail(w)
      BY <1>1, <2>4 DEF PauseForApproval, Finalize, ScheduleRetry, Fail,
            Terminate, Released, RunRow
    <2>. QED
      BY <1>3, <2>1, <2>2, <2>3, <2>4, TaskSteps
  <1>4. ASSUME NEW w \in Workers, Die(w) \/ Renew(w)
        PROVE  run'.attempt = run.attempt
    BY <1>1, <1>4 DEF Die, Renew, RunRow
  <1>5. CASE Cancel \/ Expire \/ RecordSteer
    BY <1>1, <1>5 DEF Cancel, Terminate, Released, Expire, RecordSteer, RunRow
  <1>6. ASSUME NEW d \in Deciders,
               \/ \E choice \in {"approve", "reject"} : LoadForDecision(d, choice)
               \/ Decide(d) \/ DecideRefused(d)
        PROVE  run'.attempt = run.attempt
    BY <1>1, <1>6 DEF LoadForDecision, Decide, Requeued, DecideRefused, RunRow
  <1>7. CASE Crash
    BY <1>7 DEF Crash
  <1>8. CASE Restart
    <2>1. \/ run' = run
          \/ \E st, ph, c : run' = Released(st, ph, c)
          \/ \E st, ph, c : run' = [Released(st, ph, c) EXCEPT !.pending = 0,
                                        !.reason = "scope_unavailable"]
      BY <1>8 DEF Restart
    <2>2. ASSUME NEW st, NEW ph, NEW c, run' = Released(st, ph, c)
          PROVE  run'.attempt = run.attempt
      BY <1>1, <2>2 DEF Released, RunRow
    <2>3. ASSUME NEW st, NEW ph, NEW c,
                 run' = [Released(st, ph, c) EXCEPT !.pending = 0,
                                                    !.reason = "scope_unavailable"]
          PROVE  run'.attempt = run.attempt
      BY <1>1, <2>3 DEF Released, RunRow
    <2>. QED
      BY <2>1, <2>2, <2>3
  <1>. QED
    BY <1>2, <1>3, <1>4, <1>5, <1>6, <1>7, <1>8 DEF Next

\* A task that works after a step that is no claim worked before it, with the
\* same token.
LEMMA TokenSteps ==
    ASSUME TypeOK, CheckpointsPresent, [Next]_vars, \A w \in Workers : ~Claim(w)
    PROVE  \A v \in Workers : worker'[v].pc \in Working =>
              worker[v].pc \in Working /\ worker'[v].token = worker[v].token
  <1>. DEFINE Kept == \A v \in Workers : worker'[v].pc \in Working =>
                  worker[v].pc \in Working /\ worker'[v].token = worker[v].token
  <1>1. worker \in [Workers -> Task]
    BY DEF TypeOK
  <1>2. CASE UNCHANGED worker
    BY <1>2
  <1>3. ASSUME NEW w \in Workers, Stores(w)
        PROVE  Kept
    BY <1>1, <1>3 DEF Stores, Store, Task
  <1>4. ASSUME NEW w \in Workers, Moves(w)
        PROVE  Kept
    BY <1>1, <1>4 DEF Moves, Task
  <1>5. ASSUME NEW w \in Workers, RestoreApproval(w)
        PROVE  Kept
    BY <1>1, <1>5 DEF RestoreApproval, Task, Working
  <1>6. ASSUME NEW w \in Workers, Leaves(w)
        PROVE  Kept
    BY <1>1, <1>6 DEF Leaves, Task, IdleTask, Working
  <1>7. CASE Crash
    BY <1>7 DEF Crash, IdleTask, Working
  <1>8. ASSUME NEW w \in Workers, TaskStep(w) \/ Die(w) \/ Renew(w)
        PROVE  Kept
    BY <1>2, <1>3, <1>4, <1>5, <1>6, <1>8, TaskSteps, LeavingSteps DEF Renew
  <1>9. CASE Restart
    BY <1>2, <1>9 DEF Restart
  <1>. QED
    BY <1>2, <1>7, <1>8, <1>9, UserSteps DEF Next, vars

\* Lease tokens stay distinct and bounded by the attempt counter.
LEMMA TokensStep ==
    ASSUME TypeOK, CheckpointsPresent, TokensDistinct, [Next]_vars
    PROVE  TokensDistinct'
  <1>1. worker \in [Workers -> Task] /\ run \in RunRow
    BY DEF TypeOK
  <1>2. ASSUME NEW w \in Workers, Claim(w)
        PROVE  TokensDistinct'
    <2>1. /\ worker'[w].token = run.attempt + 1
          /\ \A v \in Workers \ {w} : worker'[v] = worker[v]
      BY <1>1, <1>2 DEF Claim
    <2>2. run'.attempt = run.attempt + 1 /\ run.attempt \in Nat
      BY <1>1, <1>2 DEF Claim, RunRow
    <2>3. \A v \in Workers : worker[v].token \in Nat
      BY <1>1 DEF Task
    <2>4. \A v \in Workers \ {w} : worker'[v].pc \in Working =>
             worker'[v].token <= run.attempt /\ worker'[v].token \in Nat
      BY <2>1, <2>3 DEF TokensDistinct
    <2>. QED
      BY <2>1, <2>2, <2>3, <2>4 DEF TokensDistinct
  <1>3. CASE \A w \in Workers : ~Claim(w)
    BY <1>3, AttemptSteps, TokenSteps DEF TokensDistinct
  <1>. QED
    BY <1>2, <1>3

\* Two tasks cannot both hold the lease when no token is handed out twice.
LEMMA DistinctHolders ==
    ASSUME TokensDistinct, NEW v \in Workers, NEW w \in Workers,
           worker[v].pc \in Working, worker[w].pc \in Working,
           Leased(v), Leased(w)
    PROVE  v = w
  BY DEF TokensDistinct, Leased

\* The leaseholder's checkpoint stays the durable one.
LEMMA CurrentStep ==
    ASSUME TypeOK, CheckpointsPresent, TokensDistinct, LeaseholderIsCurrent,
           [Next]_vars
    PROVE  LeaseholderIsCurrent'
  <1>1. worker \in [Workers -> Task] /\ run \in RunRow
    BY DEF TypeOK
  <1>2. CASE UNCHANGED <<worker, run>>
    BY <1>2 DEF LeaseholderIsCurrent, Leased
  <1>3. CASE run'.status # "running"
    BY <1>3 DEF LeaseholderIsCurrent, Leased
  <1>4. CASE /\ run'.status = run.status /\ run'.token = run.token
             /\ run'.version = run.version /\ run'.cp = run.cp
             /\ \A v \in Workers : worker'[v].pc \in Working =>
                  /\ worker[v].pc \in Working
                  /\ worker'[v].token = worker[v].token
                  /\ worker'[v].version = worker[v].version
                  /\ worker'[v].cp = worker[v].cp
    BY <1>4 DEF LeaseholderIsCurrent, Leased
  <1>5. ASSUME NEW w \in Workers, Claim(w)
        PROVE  LeaseholderIsCurrent'
    <2>1. /\ worker'[w].cp = run'.cp
          /\ run'.token = run.attempt + 1 /\ run.attempt \in Nat
          /\ \A v \in Workers \ {w} : worker'[v] = worker[v]
      BY <1>1, <1>5 DEF Claim, RunRow
    <2>2. \A v \in Workers \ {w} : worker[v].pc \in Working =>
             worker[v].token # run.attempt + 1
      <3>1. \A v \in Workers : worker[v].token \in Nat
        BY <1>1 DEF Task
      <3>. QED
        BY <2>1, <3>1 DEF TokensDistinct
    <2>. QED
      BY <2>1, <2>2 DEF LeaseholderIsCurrent, Leased
  <1>6. ASSUME NEW w \in Workers, worker[w].pc \in Working, Leased(w),
               worker'[w].cp = run'.cp, run'.token = run.token,
               \A v \in Workers \ {w} : worker'[v] = worker[v]
        PROVE  LeaseholderIsCurrent'
    <2>1. \A v \in Workers \ {w} : worker[v].pc \in Working =>
             worker[v].token # run.token
      BY <1>6 DEF TokensDistinct, Leased
    <2>. QED
      BY <1>6, <2>1 DEF LeaseholderIsCurrent, Leased
  <1>7. ASSUME NEW w \in Workers, Stores(w) \/ RestoreApproval(w)
        PROVE  LeaseholderIsCurrent'
    <2>1. worker'[w].cp = run'.cp /\ run'.token = run.token
          /\ \A v \in Workers \ {w} : worker'[v] = worker[v]
      <3>1. run.token = worker[w].token /\ worker[w] \in Task
        BY <1>1, <1>7 DEF Stores, RestoreApproval, Leased
      <3>2. CASE Stores(w)
        BY <1>1, <3>1, <3>2 DEF Stores, Store, RunRow, Task
      <3>3. CASE RestoreApproval(w)
        <4>. DEFINE c == Decided(worker[w].cp)
        <4>1. /\ run' = [run EXCEPT !.cp = c, !.phase = c.phase, !.expired = FALSE,
                            !.version = worker[w].version + 1, !.pending = 0]
              /\ worker' = [worker EXCEPT ![w].cp = c, ![w].version = @ + 1,
                                          ![w].pc = "loop"]
          BY <3>3 DEF RestoreApproval
        <4>. HIDE DEF c
        <4>. QED
          BY <1>1, <3>1, <4>1 DEF RunRow, Task
      <3>. QED
        BY <1>7, <3>2, <3>3
    <2>2. worker[w].pc \in Working /\ Leased(w)
      BY <1>7 DEF Stores, RestoreApproval, Working
    <2>. QED
      BY <1>6, <2>1, <2>2
  <1>8. ASSUME NEW w \in Workers, Moves(w)
        PROVE  LeaseholderIsCurrent'
    BY <1>1, <1>4, <1>8 DEF Moves, Task
  <1>9. ASSUME NEW w \in Workers, Leaves(w), UNCHANGED run
        PROVE  LeaseholderIsCurrent'
    BY <1>1, <1>4, <1>9 DEF Leaves, Task, IdleTask, Working
  <1>10. ASSUME NEW w \in Workers,
                PauseForApproval(w) \/ Finalize(w) \/ ScheduleRetry(w) \/ Fail(w)
         PROVE  LeaseholderIsCurrent'
    <2>1. run'.status # "running"
      BY <1>1, <1>10 DEF PauseForApproval, Finalize, ScheduleRetry, Fail,
            Terminate, Released, RunRow
    <2>. QED
      BY <1>3, <2>1
  <1>11. ASSUME NEW w \in Workers, TaskStep(w) \/ Die(w)
         PROVE  LeaseholderIsCurrent'
    BY <1>7, <1>8, <1>9, <1>10, <1>11, TaskSteps, LeavingSteps
       DEF LoseLease, ClaimRefused, Die
  <1>12. ASSUME Expire \/ \E w \in Workers : Renew(w)
         PROVE  LeaseholderIsCurrent'
    <2>1. UNCHANGED worker /\ run'.status = run.status /\ run'.token = run.token
          /\ run'.version = run.version /\ run'.cp = run.cp
      BY <1>1, <1>12 DEF Expire, Renew, RunRow
    <2>. QED
      BY <1>4, <2>1
  <1>13. CASE Cancel \/ \E d \in Deciders : Decide(d)
    <2>1. run'.status # "running"
      BY <1>1, <1>13 DEF Cancel, Terminate, Released, Decide, Requeued, RunRow
    <2>. QED
      BY <1>3, <2>1
  <1>14. CASE RecordSteer \/ \E d \in Deciders :
                \/ \E choice \in {"approve", "reject"} : LoadForDecision(d, choice)
                \/ DecideRefused(d)
    BY <1>2, <1>14 DEF RecordSteer, LoadForDecision, DecideRefused
  <1>15. CASE Crash
    BY <1>15 DEF Crash, IdleTask, Working, LeaseholderIsCurrent
  <1>16. CASE Restart
    <2>1. UNCHANGED <<worker, run>> \/ run'.status # "running"
      BY <1>1, <1>16 DEF Restart, Released, RunRow
    <2>. QED
      BY <1>2, <1>3, <2>1
  <1>. QED
    BY <1>2, <1>5, <1>11, <1>12, <1>13, <1>14, <1>15, <1>16 DEF Next, vars

-----------------------------------------------------------------------------
(* Checkpoints are present where a step relies on them.                    *)

\* A started task keeps having a checkpoint, an executing one a call.
LEMMA TaskCheckpointsStep ==
    ASSUME TypeOK, CheckpointsPresent, [Next]_vars, NEW v \in Workers
    PROVE  /\ worker'[v].pc \in Working \ {"claimed"} => worker'[v].cp # None
           /\ worker'[v].pc \in {"tool", "exec", "done"} => worker'[v].cp.cur # 0
  <1>. DEFINE Fits(t) == /\ t.pc \in Working \ {"claimed"} => t.cp # None
                         /\ t.pc \in {"tool", "exec", "done"} => t.cp.cur # 0
  <1>1. worker \in [Workers -> Task] /\ \A u \in Workers : Fits(worker[u])
    BY DEF TypeOK, CheckpointsPresent, Call
  <1>2. CASE UNCHANGED worker
    BY <1>1, <1>2
  <1>3. ASSUME NEW w \in Workers, Claim(w)
        PROVE  Fits(worker'[v])
    BY <1>1, <1>3 DEF Claim
  <1>4. ASSUME NEW w \in Workers, Stores(w)
        PROVE  Fits(worker'[v])
    <2>1. PICK c \in Checkpoint, next \in Working \ {"claimed", "exec", "done"} :
             Store(w, c, next) /\ (next = "tool" => c.cur # 0)
      BY <1>4 DEF Stores
    <2>2. worker'[w].cp = c /\ worker'[w].pc = next
          /\ \A u \in Workers \ {w} : worker'[u] = worker[u]
      BY <1>1, <2>1 DEF Store, Task
    <2>. QED
      BY <1>1, <2>1, <2>2, NoneIsNull
  <1>5. ASSUME NEW w \in Workers, Moves(w)
        PROVE  Fits(worker'[v])
    <2>1. PICK next \in Working \ {"claimed"}, res \in {"none", "ok", "error", "approval"} :
             /\ worker' = [worker EXCEPT ![w] = [@ EXCEPT !.pc = next, !.res = res]]
             /\ next \in {"tool", "exec", "done"} => worker[w].pc \in {"tool", "exec"}
      BY <1>5 DEF Moves
    <2>2. worker'[w].cp = worker[w].cp /\ worker'[w].pc = next
          /\ \A u \in Workers \ {w} : worker'[u] = worker[u]
      BY <1>1, <2>1 DEF Task
    <2>. QED
      BY <1>1, <1>5, <2>1, <2>2 DEF Moves
  <1>6. ASSUME NEW w \in Workers, RestoreApproval(w)
        PROVE  Fits(worker'[v])
    <2>1. worker[w].cp \in Checkpoint
      BY <1>1, <1>6 DEF RestoreApproval, Task
    <2>2. Decided(worker[w].cp) \in Checkpoint
      BY <1>6, <2>1, DecidedTyped DEF RestoreApproval
    <2>. DEFINE c == Decided(worker[w].cp)
    <2>3. worker' = [worker EXCEPT ![w].cp = c, ![w].version = @ + 1, ![w].pc = "loop"]
      BY <1>6 DEF RestoreApproval
    <2>. HIDE DEF c
    <2>4. worker'[w].cp = c /\ worker'[w].pc = "loop"
          /\ \A u \in Workers \ {w} : worker'[u] = worker[u]
      BY <1>1, <2>3 DEF Task
    <2>5. c # None
      BY <2>2, NoneIsNull DEF c
    <2>. QED
      BY <1>1, <2>4, <2>5
  <1>7. ASSUME NEW w \in Workers, Leaves(w)
        PROVE  Fits(worker'[v])
    BY <1>1, <1>7 DEF Leaves, IdleTask, Working
  <1>8. CASE Crash
    BY <1>8 DEF Crash, IdleTask, Working
  <1>9. ASSUME NEW w \in Workers, TaskStep(w) \/ Die(w) \/ Renew(w)
        PROVE  Fits(worker'[v])
    BY <1>2, <1>4, <1>5, <1>6, <1>7, <1>9, TaskSteps, LeavingSteps DEF Renew
  <1>10. CASE Restart
    BY <1>2, <1>10 DEF Restart
  <1>. QED
    BY <1>2, <1>3, <1>8, <1>9, <1>10, UserSteps DEF Next, vars

\* The row has a checkpoint while it waits for the user, and none at the end.
LEMMA RowCheckpointStep ==
    ASSUME TypeOK, CheckpointsPresent, [Next]_vars
    PROVE  /\ run'.status \in Terminal => run'.cp = None
           /\ run'.status = "waiting_approval" => run'.cp # None
  <1>. DEFINE Fits(r) == /\ r.status \in Terminal => r.cp = None
                         /\ r.status = "waiting_approval" => r.cp # None
  <1>1. run \in RunRow /\ Fits(run)
    BY DEF TypeOK, CheckpointsPresent
  <1>2. CASE run'.status = run.status /\ run'.cp = run.cp
    BY <1>1, <1>2
  <1>3. CASE run'.status \in {"queued", "running", "retry_wait", "needs_reconciliation"}
    BY <1>3 DEF Terminal
  <1>4. CASE run'.status \in Terminal /\ run'.cp = None
    BY <1>4 DEF Terminal
  <1>5. ASSUME NEW w \in Workers, TaskStep(w)
        PROVE  Fits(run')
    <2>1. CASE Stores(w) \/ RestoreApproval(w)
      <3>1. run'.status = "running"
        BY <1>1, <2>1 DEF Stores, Store, RestoreApproval, Leased, RunRow
      <3>. QED
        BY <1>3, <3>1
    <2>2. CASE Moves(w) \/ LoseLease(w) \/ ClaimRefused(w)
      BY <1>2, <2>2 DEF Moves, LoseLease, ClaimRefused
    <2>3. CASE PauseForApproval(w)
      <3>. DEFINE c == [worker[w].cp EXCEPT !.phase = "waiting_approval"]
      <3>1. worker[w].cp \in Checkpoint
        BY <2>3, StartedTyped DEF PauseForApproval, Working
      <3>2. c \in Checkpoint
        BY <3>1, CheckpointsTyped DEF Phases, Texts, Spoken
      <3>3. run'.status = "waiting_approval" /\ run'.cp = c
        BY <1>1, <2>3 DEF PauseForApproval, Released, RunRow
      <3>. QED
        BY <3>2, <3>3, NoneIsNull DEF Terminal
    <2>4. CASE Finalize(w) \/ Fail(w)
      BY <1>1, <1>4, <2>4 DEF Finalize, Fail, Terminate, Released, RunRow, Terminal
    <2>5. CASE ScheduleRetry(w)
      BY <1>1, <1>3, <2>5 DEF ScheduleRetry, Released, RunRow
    <2>. QED
      BY <1>5, <2>1, <2>2, <2>3, <2>4, <2>5, TaskSteps
  <1>6. ASSUME NEW w \in Workers, Claim(w) \/ Die(w) \/ Renew(w)
        PROVE  Fits(run')
    BY <1>1, <1>2, <1>3, <1>6 DEF Claim, Die, Renew, RunRow
  <1>7. CASE Cancel
    BY <1>1, <1>4, <1>7 DEF Cancel, Terminate, Released, RunRow, Terminal
  <1>8. CASE Expire \/ RecordSteer
    BY <1>1, <1>2, <1>8 DEF Expire, RecordSteer, RunRow
  <1>9. ASSUME NEW d \in Deciders,
               \/ \E choice \in {"approve", "reject"} : LoadForDecision(d, choice)
               \/ Decide(d) \/ DecideRefused(d)
        PROVE  Fits(run')
    BY <1>1, <1>2, <1>3, <1>9 DEF LoadForDecision, Decide, Requeued,
          DecideRefused, RunRow
  <1>10. CASE Crash \/ UNCHANGED vars
    BY <1>2, <1>10 DEF Crash, vars
  <1>11. CASE Restart
    <2>1. CASE run' = run
      BY <1>2, <2>1
    <2>2. CASE run' = [Released("failed", "terminal", None)
                         EXCEPT !.pending = 0, !.reason = "scope_unavailable"]
      <3>1. run'.status = "failed" /\ run'.cp = None
        BY <1>1, <2>2 DEF Released, RunRow
      <3>. QED
        BY <1>4, <3>1 DEF Terminal
    <2>3. CASE run' = Released("needs_reconciliation", "reconciling", run.cp)
      <3>1. run'.status = "needs_reconciliation"
        BY <1>1, <2>3 DEF Released, RunRow
      <3>. QED
        BY <1>3, <3>1
    <2>4. CASE run' = Released("queued",
                        IF run.cp = None THEN "not_started" ELSE run.cp.phase, run.cp)
      <3>1. run'.status = "queued"
        BY <1>1, <2>4 DEF Released, RunRow
      <3>. QED
        BY <1>3, <3>1
    <2>. QED
      BY <1>11, <2>1, <2>2, <2>3, <2>4 DEF Restart
  <1>. QED
    BY <1>5, <1>6, <1>7, <1>8, <1>9, <1>10, <1>11 DEF Next

\* An approval request has loaded a row that really was waiting.
LEMMA RequestStep ==
    ASSUME TypeOK, CheckpointsPresent, [Next]_vars, NEW e \in Deciders,
           request'[e] # None, request'[e].row.status = "waiting_approval"
    PROVE  request'[e].row.cp # None
  <1>. USE DEF userVars, toolVars, seenVars, procVars
  <1>1. request \in [Deciders -> Request \cup {None}]
    BY DEF TypeOK
  <1>2. CASE request'[e] = request[e]
    BY <1>2 DEF CheckpointsPresent
  <1>3. ASSUME NEW d \in Deciders, NEW choice \in {"approve", "reject"},
               LoadForDecision(d, choice)
        PROVE  request'[e].row.cp # None
    BY <1>1, <1>2, <1>3 DEF LoadForDecision, CheckpointsPresent
  <1>4. ASSUME NEW d \in Deciders, Decide(d) \/ DecideRefused(d)
        PROVE  request'[e].row.cp # None
    BY <1>1, <1>2, <1>4 DEF Decide, DecideRefused
  <1>5. ASSUME NEW w \in Workers, TaskStep(w) \/ Claim(w) \/ Die(w) \/ Renew(w)
        PROVE  UNCHANGED request
    BY <1>5, TaskSteps DEF Claim, Die, Renew, Stores, Moves, RestoreApproval,
          PauseForApproval, Finalize, ScheduleRetry, Fail, LoseLease, ClaimRefused
  <1>6. ASSUME Cancel \/ Expire \/ RecordSteer \/ Restart \/ UNCHANGED vars
        PROVE  UNCHANGED request
    BY <1>6 DEF Cancel, Expire, RecordSteer, Restart, vars
  <1>7. ~Crash
    BY DEF Crash
  <1>. QED
    BY <1>2, <1>3, <1>4, <1>5, <1>6, <1>7 DEF Next

\* Checkpoints stay present exactly where a status asks for one.
LEMMA PresentStep ==
    ASSUME TypeOK, CheckpointsPresent, [Next]_vars
    PROVE  CheckpointsPresent'
  BY TaskCheckpointsStep, RowCheckpointStep, RequestStep DEF CheckpointsPresent, Call

-----------------------------------------------------------------------------
(* Tool invocations, effects and approvals.                                *)

\* Only these steps touch an invocation or an effect.
LEMMA InvocationSteps ==
    ASSUME TypeOK, CheckpointsPresent, [Next]_vars
    PROVE  \/ UNCHANGED <<inv, effects>>
           \/ \E w \in Workers : ClaimTool(w) \/ CommitTool(w) \/ SettleTool(w)
           \/ CloseApproval /\ UNCHANGED effects
           \/ \E d \in Deciders : Decide(d)
  <1>. USE DEF userVars, toolVars, seenVars, procVars
  <1>1. ASSUME NEW w \in Workers, TaskStep(w)
        PROVE  \/ UNCHANGED <<inv, effects>>
               \/ ClaimTool(w) \/ CommitTool(w) \/ SettleTool(w)
               \/ CloseApproval /\ UNCHANGED effects
    <2>1. CASE Stores(w)
      BY <2>1 DEF Stores
    <2>2. CASE Resume(w) \/ AskModel(w) \/ RefuseTool(w) \/ ObserveTool(w)
               \/ LoseClaim(w) \/ ConsumeSteers(w)
      BY <2>2 DEF Resume,
         AskModel, CallModel, CallRefused, RepeatCall, RefuseTool, ObserveTool, LoseClaim, ConsumeSteers
    <2>3. CASE RestoreApproval(w) \/ PauseForApproval(w) \/ Finalize(w)
               \/ ScheduleRetry(w) \/ LoseLease(w) \/ ClaimRefused(w)
      BY <2>3 DEF RestoreApproval, PauseForApproval, Finalize, ScheduleRetry,
            LoseLease, ClaimRefused
    <2>4. CASE Fail(w)
      BY <2>4 DEF Fail, Terminate
    <2>5. CASE ClaimTool(w) \/ CommitTool(w) \/ SettleTool(w)
      BY <2>5
    <2>. QED
      BY <1>1, <2>1, <2>2, <2>3, <2>4, <2>5, StoringSteps DEF TaskStep
  <1>2. ASSUME NEW w \in Workers, Claim(w) \/ Die(w) \/ Renew(w)
        PROVE  UNCHANGED <<inv, effects>>
    BY <1>2 DEF Claim, Die, Renew
  <1>3. CASE Cancel
    BY <1>3 DEF Cancel, Terminate
  <1>4. ASSUME Expire \/ RecordSteer \/ Crash \/ UNCHANGED vars
        PROVE  UNCHANGED <<inv, effects>>
    BY <1>4 DEF Expire, RecordSteer, Crash, vars
  <1>5. CASE Restart
    BY <1>5 DEF Restart
  <1>6. ASSUME NEW d \in Deciders, NEW choice \in {"approve", "reject"},
               LoadForDecision(d, choice) \/ DecideRefused(d)
        PROVE  UNCHANGED <<inv, effects>>
    BY <1>6 DEF LoadForDecision, DecideRefused
  <1>. QED
    BY <1>1, <1>2, <1>3, <1>4, <1>5, <1>6 DEF Next

\* A decision rejects an invocation only while it waits for one.
LEMMA RejectionSteps ==
    ASSUME TypeOK, NEW d \in Deciders, Decide(d), NEW c \in Calls, inv'[c] # inv[c]
    PROVE  inv[c].status = "pending_approval"
  <1>1. request[d].choice \in {"approve", "reject"}
    BY DEF Decide, TypeOK, Request
  <1>2. inv \in [Calls -> Invocation]
    BY DEF TypeOK
  <1>. QED
    BY <1>1, <1>2 DEF Decide, Decidable

\* An effect stays tied to a committed invocation.
LEMMA EffectsStep ==
    ASSUME TypeOK, CheckpointsPresent, EffectsCommitted, [Next]_vars
    PROVE  EffectsCommitted'
  <1>1. inv \in [Calls -> Invocation] /\ effects \in [Calls -> Nat]
    BY DEF TypeOK
  <1>2. CASE UNCHANGED <<inv, effects>>
    BY <1>2 DEF EffectsCommitted
  <1>3. ASSUME NEW w \in Workers, ClaimTool(w)
        PROVE  EffectsCommitted'
    BY <1>1, <1>3 DEF ClaimTool, Claimable, EffectsCommitted
  <1>4. ASSUME NEW w \in Workers, CommitTool(w)
        PROVE  EffectsCommitted'
    <2>1. inv[Call(w)].status = "running"
      BY <1>4 DEF CommitTool, OwnsClaim
    <2>2. Call(w) \in Calls => effects[Call(w)] = 0
      BY <2>1 DEF EffectsCommitted
    <2>3. /\ inv' = [inv EXCEPT ![Call(w)] = [status |-> "committed", owner |-> 0]]
          /\ effects' = [effects EXCEPT ![Call(w)] = @ + 1]
      BY <1>4 DEF CommitTool, Settle
    <2>. QED
      BY <1>1, <2>2, <2>3 DEF EffectsCommitted
  <1>5. ASSUME NEW w \in Workers, SettleTool(w)
        PROVE  EffectsCommitted'
    <2>1. /\ inv[Call(w)].status = "running" /\ UNCHANGED effects
          /\ \A c \in Calls \ {Call(w)} : inv'[c] = inv[c]
      BY <1>1, <1>5 DEF SettleTool, OwnsClaim, Settle
    <2>. QED
      BY <2>1 DEF EffectsCommitted
  <1>6. ASSUME CloseApproval, UNCHANGED effects
        PROVE  EffectsCommitted'
    <2>1. \A c \in Calls : inv'[c] = inv[c] \/ inv[c].status = "pending_approval"
      BY <1>1, <1>6 DEF CloseApproval
    <2>. QED
      BY <1>6, <2>1 DEF EffectsCommitted
  <1>7. ASSUME NEW d \in Deciders, Decide(d)
        PROVE  EffectsCommitted'
    <2>1. UNCHANGED effects
      BY <1>7 DEF Decide
    <2>. QED
      BY <1>7, <2>1, RejectionSteps DEF EffectsCommitted
  <1>. QED
    BY <1>2, <1>3, <1>4, <1>5, <1>6, <1>7, InvocationSteps

\* A refused invocation is never touched again.
LEMMA RefusedStep ==
    ASSUME TypeOK, CheckpointsPresent, [Next]_vars, NEW c \in Calls,
           inv[c].status \in {"rejected", "cancelled"}
    PROVE  inv'[c] = inv[c] /\ effects'[c] = effects[c]
  <1>1. inv \in [Calls -> Invocation] /\ effects \in [Calls -> Nat]
    BY DEF TypeOK
  <1>2. ASSUME NEW w \in Workers, ClaimTool(w)
        PROVE  inv'[c] = inv[c] /\ effects'[c] = effects[c]
    BY <1>1, <1>2 DEF ClaimTool, Claimable
  <1>3. ASSUME NEW w \in Workers, CommitTool(w) \/ SettleTool(w)
        PROVE  inv'[c] = inv[c] /\ effects'[c] = effects[c]
    <2>1. Call(w) # c
      BY <1>3 DEF CommitTool, SettleTool, OwnsClaim
    <2>. QED
      BY <1>1, <1>3, <2>1 DEF CommitTool, SettleTool, Settle
  <1>4. ASSUME CloseApproval
        PROVE  inv'[c] = inv[c]
    BY <1>1, <1>4 DEF CloseApproval
  <1>5. ASSUME NEW d \in Deciders, Decide(d)
        PROVE  inv'[c] = inv[c] /\ effects'[c] = effects[c]
    BY <1>5, RejectionSteps DEF Decide
  <1>. QED
    BY <1>2, <1>3, <1>4, <1>5, InvocationSteps

\* An approval that was granted and consumed is settled for good.
LEMMA ApprovalSteps ==
    ASSUME TypeOK, CheckpointsPresent, [Next]_vars, NEW c \in Calls,
           approval[c].decision = "approve", approval[c].consumed
    PROVE  approval'[c].decision = "approve" /\ approval'[c].consumed
  <1>. USE DEF userVars, toolVars, seenVars, procVars
  <1>. DEFINE Kept == approval'[c].decision = "approve" /\ approval'[c].consumed
  <1>1. approval \in [Calls -> Approval]
    BY DEF TypeOK
  <1>2. CASE UNCHANGED approval
    BY <1>2
  <1>3. ASSUME CloseApproval
        PROVE  Kept
    BY <1>1, <1>3 DEF CloseApproval, Approval
  <1>4. ASSUME NEW w \in Workers, RestoreApproval(w)
        PROVE  Kept
    BY <1>1, <1>4 DEF RestoreApproval, Approval
  <1>5. ASSUME NEW w \in Workers, PauseForApproval(w)
        PROVE  Kept
    BY <1>1, <1>5 DEF PauseForApproval, Approval
  <1>6. ASSUME NEW d \in Deciders, Decide(d)
        PROVE  Kept
    <2>1. approval[request[d].row.pending].decision = "pending"
      BY <1>6 DEF Decide, Decidable
    <2>. QED
      BY <1>1, <1>6, <2>1 DEF Decide, Approval
  <1>7. ASSUME NEW w \in Workers, TaskStep(w)
        PROVE  Kept
    <2>1. CASE Fail(w)
      BY <1>3, <2>1 DEF Fail, Terminate
    <2>2. CASE Stores(w) \/ Moves(w) \/ Finalize(w) \/ ScheduleRetry(w)
               \/ LoseLease(w) \/ ClaimRefused(w)
      BY <1>2, <2>2 DEF Stores, Moves, Finalize, ScheduleRetry, LoseLease,
            ClaimRefused
    <2>. QED
      BY <1>4, <1>5, <1>7, <2>1, <2>2, TaskSteps
  <1>8. ASSUME NEW w \in Workers, Claim(w) \/ Die(w) \/ Renew(w)
        PROVE  Kept
    BY <1>2, <1>8 DEF Claim, Die, Renew
  <1>9. ASSUME Cancel \/ Restart
        PROVE  Kept
    BY <1>2, <1>3, <1>9 DEF Cancel, Terminate, Restart
  <1>10. ASSUME Expire \/ RecordSteer \/ Crash \/ UNCHANGED vars
        PROVE  Kept
    BY <1>2, <1>10 DEF Expire, RecordSteer, Crash, vars
  <1>11. ASSUME NEW d \in Deciders, NEW choice \in {"approve", "reject"},
                LoadForDecision(d, choice) \/ DecideRefused(d)
         PROVE  Kept
    BY <1>2, <1>11 DEF LoadForDecision, DecideRefused
  <1>. QED
    BY <1>6, <1>7, <1>8, <1>9, <1>10, <1>11 DEF Next

\* Grants stay backed when no approval loses its decision.
LEMMA BackedKept ==
    ASSUME TypeOK, CheckpointsPresent, [Next]_vars,
           NEW cp \in Checkpoint \cup {None}, Backed(cp),
           NEW new, new # None => cp # None /\ new.granted \subseteq cp.granted
    PROVE  new # None => \A c \in new.granted :
              approval'[c].decision = "approve" /\ approval'[c].consumed
  <1>1. cp # None => cp.granted \subseteq Calls
    BY DEF Checkpoint
  <1>. QED
    BY <1>1, ApprovalSteps DEF Backed

\* The grants of the durable checkpoint stay backed.
LEMMA RowGrantsStep ==
    ASSUME TypeOK, CheckpointsPresent, LeaseholderIsCurrent, GrantsBacked, [Next]_vars
    PROVE  Backed(run.cp)'
  <1>. USE DEF userVars, toolVars, seenVars, procVars
  <1>1. run \in RunRow /\ worker \in [Workers -> Task]
    BY DEF TypeOK
  <1>2. run.cp \in Checkpoint \cup {None} /\ Backed(run.cp)
    BY <1>1 DEF RunRow, GrantsBacked
  <1>3. \A w \in Workers : worker[w].cp \in Checkpoint \cup {None} /\ Backed(worker[w].cp)
    BY <1>1 DEF Task, GrantsBacked
  <1>4. CASE run'.cp = run.cp
    BY <1>2, <1>4, BackedKept DEF Backed
  <1>5. CASE run'.cp = None
    BY <1>5 DEF Backed
  <1>6. ASSUME NEW w \in Workers, TaskStep(w)
        PROVE  Backed(run.cp)'
    <2>1. CASE Stores(w)
      <3>1. PICK c \in Checkpoint : run'.cp = c /\ c.granted \subseteq Inherited(w)
        BY <1>1, <2>1 DEF Stores, Store, RunRow
      <3>2. CASE worker[w].cp = None
        BY <3>1, <3>2 DEF Inherited, Backed
      <3>3. CASE worker[w].cp # None
        BY <1>3, <3>1, <3>3, BackedKept DEF Inherited, Backed
      <3>. QED
        BY <3>2, <3>3
    <2>2. CASE Moves(w) \/ LoseLease(w) \/ ClaimRefused(w)
      BY <1>4, <2>2 DEF Moves, LoseLease, ClaimRefused
    <2>3. CASE RestoreApproval(w)
      <3>. DEFINE c == Decided(worker[w].cp)
      <3>1. worker[w].cp \in Checkpoint /\ worker[w].cp # None /\ run.pending \in Calls
        BY <1>1, <1>3, <2>3 DEF RestoreApproval, RunRow
      <3>2. run' = [run EXCEPT !.cp = c, !.phase = c.phase, !.expired = FALSE,
                          !.version = worker[w].version + 1, !.pending = 0]
        BY <2>3 DEF RestoreApproval
      <3>3. run'.cp = c
        <4>. HIDE DEF c
        <4>. QED
          BY <1>1, <3>2 DEF RunRow
      <3>4. c.granted = IF approval[run.pending].decision = "approve"
                        THEN worker[w].cp.granted \cup {run.pending}
                        ELSE worker[w].cp.granted
        BY <3>1 DEF Decided, Checkpoint
      <3>5. approval'[run.pending].decision = approval[run.pending].decision
            /\ approval'[run.pending].consumed
        BY <2>3, <3>1 DEF RestoreApproval, TypeOK, Approval
      <3>6. \A a \in worker[w].cp.granted :
               approval'[a].decision = "approve" /\ approval'[a].consumed
        BY <1>3, <3>1, BackedKept
      <3>. QED
        BY <3>3, <3>4, <3>5, <3>6 DEF Backed
    <2>4. CASE PauseForApproval(w)
      <3>1. worker[w].cp \in Checkpoint /\ worker[w].cp # None
        BY <2>4, StartedTyped, NoneIsNull DEF PauseForApproval, Working
      <3>2. run'.cp = [worker[w].cp EXCEPT !.phase = "waiting_approval"]
        BY <1>1, <2>4 DEF PauseForApproval, Released, RunRow
      <3>3. run'.cp.granted = worker[w].cp.granted
        BY <3>1, <3>2 DEF Checkpoint
      <3>. QED
        BY <1>3, <3>1, <3>3, BackedKept DEF Backed
    <2>5. CASE Finalize(w) \/ Fail(w)
      BY <1>1, <1>5, <2>5 DEF Finalize, Fail, Terminate, Released, RunRow
    <2>6. CASE ScheduleRetry(w)
      <3>1. run.cp \in Checkpoint /\ run.cp # None
        BY <2>6, StartedTyped, NoneIsNull DEF ScheduleRetry, LeaseholderIsCurrent, Working
      <3>2. run'.cp = [run.cp EXCEPT !.phase = "retry_wait"]
        BY <1>1, <2>6 DEF ScheduleRetry, Released, RunRow
      <3>3. run'.cp.granted = run.cp.granted
        BY <3>1, <3>2 DEF Checkpoint
      <3>. QED
        BY <1>2, <3>1, <3>3, BackedKept DEF Backed
    <2>. QED
      BY <1>6, <2>1, <2>2, <2>3, <2>4, <2>5, <2>6, TaskSteps
  <1>7. ASSUME NEW w \in Workers, Claim(w) \/ Die(w) \/ Renew(w)
        PROVE  run'.cp = run.cp
    BY <1>1, <1>7 DEF Claim, Die, Renew, RunRow
  <1>8. CASE Cancel
    BY <1>1, <1>5, <1>8 DEF Cancel, Terminate, Released, RunRow
  <1>9. ASSUME Expire \/ RecordSteer \/ Crash \/ UNCHANGED vars
        PROVE  run'.cp = run.cp
    BY <1>1, <1>9 DEF Expire, RecordSteer, Crash, vars, RunRow
  <1>10. CASE Restart
    BY <1>1, <1>4, <1>5, <1>10 DEF Restart, Released, RunRow
  <1>11. ASSUME NEW d \in Deciders, Decide(d)
         PROVE  Backed(run.cp)'
    <2>1. request[d].row \in RunRow /\ Backed(request[d].row.cp)
      BY <1>11 DEF Decide, TypeOK, Request, GrantsBacked
    <2>2. run'.cp = request[d].row.cp
      BY <1>1, <1>11 DEF Decide, Requeued, RunRow
    <2>. QED
      BY <2>1, <2>2, BackedKept DEF RunRow, Backed
  <1>12. ASSUME NEW d \in Deciders, NEW choice \in {"approve", "reject"},
                LoadForDecision(d, choice) \/ DecideRefused(d)
         PROVE  run'.cp = run.cp
    BY <1>12 DEF LoadForDecision, DecideRefused
  <1>. QED
    BY <1>4, <1>6, <1>7, <1>8, <1>9, <1>10, <1>11, <1>12 DEF Next

\* The grants of the tasks' checkpoints stay backed.
LEMMA TaskGrantsStep ==
    ASSUME TypeOK, CheckpointsPresent, LeaseholderIsCurrent, GrantsBacked,
           [Next]_vars, NEW v \in Workers
    PROVE  Backed(worker[v].cp)'
  <1>1. run \in RunRow /\ worker \in [Workers -> Task]
    BY DEF TypeOK
  <1>2. run.cp \in Checkpoint \cup {None} /\ Backed(run.cp)
    BY <1>1 DEF RunRow, GrantsBacked
  <1>3. worker[v].cp \in Checkpoint \cup {None} /\ Backed(worker[v].cp)
    BY <1>1 DEF Task, GrantsBacked
  <1>4. CASE worker'[v].cp = worker[v].cp
    BY <1>3, <1>4, BackedKept DEF Backed
  <1>5. CASE worker'[v].cp = None
    BY <1>5 DEF Backed
  <1>6. CASE worker'[v].cp = run'.cp
    BY <1>6, RowGrantsStep DEF Backed
  <1>7. ASSUME NEW w \in Workers, Claim(w)
        PROVE  Backed(worker[v].cp)'
    <2>1. worker'[w].cp = run'.cp /\ \A u \in Workers \ {w} : worker'[u] = worker[u]
      BY <1>1, <1>7 DEF Claim, RunRow
    <2>. QED
      BY <1>4, <1>6, <2>1
  <1>8. ASSUME NEW w \in Workers, Stores(w)
        PROVE  Backed(worker[v].cp)'
    <2>1. worker'[w].cp = run'.cp /\ \A u \in Workers \ {w} : worker'[u] = worker[u]
      BY <1>1, <1>8 DEF Stores, Store, RunRow, Task
    <2>. QED
      BY <1>4, <1>6, <2>1
  <1>9. ASSUME NEW w \in Workers, RestoreApproval(w)
        PROVE  Backed(worker[v].cp)'
    <2>. DEFINE c == Decided(worker[w].cp)
    <2>1. /\ run' = [run EXCEPT !.cp = c, !.phase = c.phase, !.expired = FALSE,
                            !.version = worker[w].version + 1, !.pending = 0]
          /\ worker' = [worker EXCEPT ![w].cp = c, ![w].version = @ + 1,
                                      ![w].pc = "loop"]
      BY <1>9 DEF RestoreApproval
    <2>2. worker'[w].cp = run'.cp /\ \A u \in Workers \ {w} : worker'[u] = worker[u]
      <3>. HIDE DEF c
      <3>. QED
        BY <1>1, <2>1 DEF RunRow, Task
    <2>. QED
      BY <1>4, <1>6, <2>2
  <1>10. ASSUME NEW w \in Workers, Moves(w) \/ Leaves(w) \/ Renew(w)
         PROVE  Backed(worker[v].cp)'
    <2>1. worker'[v].cp = worker[v].cp \/ worker'[v].cp = None
      <3>1. CASE Moves(w)
        BY <1>1, <3>1 DEF Moves, Task
      <3>2. CASE Leaves(w) \/ Renew(w)
        BY <1>1, <3>2 DEF Leaves, Renew, IdleTask
      <3>. QED
        BY <1>10, <3>1, <3>2
    <2>. QED
      BY <1>4, <1>5, <2>1
  <1>11. ASSUME NEW w \in Workers, TaskStep(w) \/ Die(w) \/ Renew(w)
         PROVE  Backed(worker[v].cp)'
    BY <1>8, <1>9, <1>10, <1>11, TaskSteps, LeavingSteps
  <1>12. CASE Crash
    BY <1>5, <1>12 DEF Crash, IdleTask
  <1>13. CASE UNCHANGED worker
    BY <1>4, <1>13
  <1>. QED
    BY <1>7, <1>11, <1>12, <1>13, UserSteps DEF Next, Restart, vars

\* The grants of the rows that decisions loaded stay backed.
LEMMA RequestGrantsStep ==
    ASSUME TypeOK, CheckpointsPresent, GrantsBacked, [Next]_vars,
           NEW e \in Deciders, request'[e] # None
    PROVE  Backed(request[e].row.cp)'
  <1>. USE DEF userVars, toolVars, seenVars, procVars
  <1>1. request \in [Deciders -> Request \cup {None}] /\ run \in RunRow
    BY DEF TypeOK
  <1>2. CASE request'[e] = request[e]
    <2>1. request[e].row.cp \in Checkpoint \cup {None} /\ Backed(request[e].row.cp)
      BY <1>1, <1>2 DEF Request, RunRow, GrantsBacked
    <2>. QED
      BY <1>2, <2>1, BackedKept DEF Backed
  <1>3. CASE request'[e].row = run
    <2>1. run.cp \in Checkpoint \cup {None} /\ Backed(run.cp)
      BY <1>1 DEF RunRow, GrantsBacked
    <2>. QED
      BY <1>3, <2>1, BackedKept DEF Backed
  <1>4. ASSUME NEW d \in Deciders, NEW choice \in {"approve", "reject"},
               LoadForDecision(d, choice)
        PROVE  request'[e] = request[e] \/ request'[e].row = run
    BY <1>1, <1>4 DEF LoadForDecision
  <1>5. ASSUME NEW d \in Deciders, Decide(d) \/ DecideRefused(d)
        PROVE  request'[e] = request[e]
    BY <1>1, <1>5 DEF Decide, DecideRefused
  <1>6. ASSUME NEW w \in Workers, TaskStep(w) \/ Claim(w) \/ Die(w) \/ Renew(w)
        PROVE  UNCHANGED request
    BY <1>6, TaskSteps DEF Claim, Die, Renew, Stores, Moves, RestoreApproval,
          PauseForApproval, Finalize, ScheduleRetry, Fail, LoseLease, ClaimRefused
  <1>7. ASSUME Cancel \/ Expire \/ RecordSteer \/ Restart \/ UNCHANGED vars
        PROVE  UNCHANGED request
    BY <1>7 DEF Cancel, Expire, RecordSteer, Restart, vars
  <1>8. ~Crash
    BY DEF Crash
  <1>. QED
    BY <1>2, <1>3, <1>4, <1>5, <1>6, <1>7, <1>8 DEF Next

\* All grants stay backed.
LEMMA GrantsStep ==
    ASSUME TypeOK, CheckpointsPresent, LeaseholderIsCurrent, GrantsBacked, [Next]_vars
    PROVE  GrantsBacked'
  BY RowGrantsStep, TaskGrantsStep, RequestGrantsStep DEF GrantsBacked

\* Gated effects stay approved.
LEMMA GatedStep ==
    ASSUME TypeOK, CheckpointsPresent, EffectsCommitted, GrantsBacked,
           GatedEffectApproved, [Next]_vars
    PROVE  GatedEffectApproved'
  <1>1. Gated \subseteq Calls /\ effects \in [Calls -> Nat]
    BY RunConstants DEF TypeOK
  <1>2. ASSUME NEW c \in Gated, effects'[c] = effects[c], effects'[c] > 0
        PROVE  approval'[c].decision = "approve" /\ approval'[c].consumed
    BY <1>1, <1>2, ApprovalSteps DEF GatedEffectApproved
  <1>3. CASE UNCHANGED effects
    BY <1>2, <1>3 DEF GatedEffectApproved
  <1>4. ASSUME NEW w \in Workers, CommitTool(w)
        PROVE  GatedEffectApproved'
    <2>1. worker[w].cp # None /\ \A c \in Calls \ {Call(w)} : effects'[c] = effects[c]
      BY <1>1, <1>4 DEF CommitTool, CheckpointsPresent, Working
    <2>2. ASSUME Call(w) \in Gated
          PROVE  /\ approval'[Call(w)].decision = "approve"
                 /\ approval'[Call(w)].consumed
      <3>1. Call(w) \in worker[w].cp.granted
        BY <1>4, <2>2 DEF CommitTool, NeedsApproval, Granted
      <3>2. approval[Call(w)].decision = "approve" /\ approval[Call(w)].consumed
        BY <2>1, <3>1 DEF GrantsBacked, Backed
      <3>. QED
        BY <1>1, <2>2, <3>2, ApprovalSteps
    <2>. QED
      BY <1>1, <1>2, <2>1, <2>2 DEF GatedEffectApproved
  <1>5. ASSUME NEW w \in Workers, ClaimTool(w) \/ SettleTool(w)
        PROVE  UNCHANGED effects
    BY <1>5 DEF ClaimTool, SettleTool
  <1>6. ASSUME NEW d \in Deciders, Decide(d)
        PROVE  UNCHANGED effects
    BY <1>6 DEF Decide
  <1>. QED
    BY <1>3, <1>4, <1>5, <1>6, InvocationSteps

-----------------------------------------------------------------------------
(* The theorems.                                                           *)

\* The invariant holds initially.
LEMMA InitInductive == Init => Inductive
  <1>. SUFFICES ASSUME Init PROVE Inductive
    OBVIOUS
  <1>1. run \in RunRow
    BY DEF Init, RunRow, Nonterminal, Phases, Texts, Spoken
  <1>2. worker \in [Workers -> Task]
    BY IdleTyped DEF Init
  <1>3. request \in [Deciders -> Request \cup {None}]
    BY DEF Init
  <1>4. approval \in [Calls -> Approval]
    BY EmptyTyped DEF Init, Approval
  <1>5. inv \in [Calls -> Invocation]
    BY DEF Init, Invocation
  <1>6. answers \in Seq(Texts) /\ effects \in [Calls -> Nat]
    BY DEF Init
  <1>7. /\ issued \in 0 .. NCalls /\ crashes \in Nat
        /\ provider \in [calls : Nat, repeats : Nat]
    BY RunConstants DEF Init
  <1>8. disp \in [Steers -> {"unsent", "pending", "applied", "queued"}]
        /\ seen \subseteq Steers
    BY DEF Init
  <1>9. up \in BOOLEAN
    BY Zenon DEF Init
  <1>10. TypeOK
    BY <1>1, <1>2, <1>3, <1>4, <1>5, <1>6, <1>7, <1>8, <1>9 DEF TypeOK
  <1>11. CheckpointsPresent /\ TokensDistinct /\ LeaseholderIsCurrent
    BY DEF Init, CheckpointsPresent, TokensDistinct, LeaseholderIsCurrent,
          IdleTask, Working, Terminal
  <1>12. EffectsCommitted /\ GrantsBacked /\ GatedEffectApproved
    BY RunConstants DEF Init, EffectsCommitted, GrantsBacked, Backed, IdleTask,
          GatedEffectApproved
  <1>. QED
    BY <1>10, <1>11, <1>12 DEF Inductive

\* Every step preserves the invariant.
LEMMA StepInductive == Inductive /\ [Next]_vars => Inductive'
  BY TypeStep, PresentStep, TokensStep, CurrentStep, EffectsStep, GrantsStep,
     GatedStep DEF Inductive

\* The inductive invariant holds of every reachable state, for any number of
\* executors, decisions, steers, calls, attempts and crashes.
THEOREM Invariance == Spec => []Inductive
  BY InitInductive, StepInductive, PTL DEF Spec

\* Type correctness of the row, the tasks, the requests and the records.
THEOREM TypeCorrect == Spec => []TypeOK
  <1>1. Inductive => TypeOK
    BY DEF Inductive
  <1>. QED
    BY <1>1, Invariance, PTL

\* At most one executor passes the lease check of a transition: the row's token
\* is the number of the last claim, which no two tasks have in common.
THEOREM LeaseExclusive == Spec => []OneLeaseholder
  <1>1. Inductive => OneLeaseholder
    BY DistinctHolders DEF Inductive, OneLeaseholder
  <1>. QED
    BY <1>1, Invariance, PTL

\* The leaseholder's checkpoint is the durable one, so storing the next one
\* never overwrites progress it has not seen.
THEOREM LeaseCurrent == Spec => []LeaseholderIsCurrent
  <1>1. Inductive => LeaseholderIsCurrent
    BY DEF Inductive
  <1>. QED
    BY <1>1, Invariance, PTL

\* A call whose executors crash, expire, retry and take each other over takes
\* effect at most once: its invocation stays committed.
THEOREM EffectsAtMostOnce == Spec => []EffectOnce
  <1>1. Inductive => EffectOnce
    BY DEF Inductive, EffectsCommitted, EffectOnce
  <1>. QED
    BY <1>1, Invariance, PTL

\* No gated call takes effect without an approval of that call that a task has
\* consumed under its lease.
THEOREM GatedApproved == Spec => []GatedEffectApproved
  <1>1. Inductive => GatedEffectApproved
    BY DEF Inductive
  <1>. QED
    BY <1>1, Invariance, PTL

\* A rejected or cancelled invocation is never executed or changed again.
THEOREM RefusalFinal == Spec => RefusedStaysRefused
  <1>1. Inductive /\ [Next]_vars =>
          [\A c \in Calls : inv[c].status \in {"rejected", "cancelled"} =>
              inv'[c] = inv[c] /\ effects'[c] = effects[c]]_vars
    BY RefusedStep DEF Inductive
  <1>. QED
    BY <1>1, Invariance, PTL DEF Spec, RefusedStaysRefused

\* No step changes a row that has ended: every lease is gone, nothing claims
\* it, and a decision loaded earlier fails on the checkpoint's shape.
LEMMA TerminalStep ==
    ASSUME TypeOK, CheckpointsPresent, [Next]_vars, run.status \in Terminal
    PROVE  run' = run
  <1>1. \A w \in Workers : ~Leased(w)
    BY DEF Leased, Terminal
  <1>2. ~ClaimableRun /\ run.cp = None
    BY DEF ClaimableRun, CheckpointsPresent, Terminal
  <1>3. ASSUME NEW w \in Workers, TaskStep(w)
        PROVE  run' = run
    BY <1>1, <1>2, <1>3, TaskSteps DEF Stores, Moves, RestoreApproval,
          PauseForApproval, Finalize, Finalizable, ScheduleRetry, Fail,
          LoseLease, ClaimRefused
  <1>4. ASSUME NEW w \in Workers, Claim(w) \/ Die(w) \/ Renew(w)
        PROVE  run' = run
    BY <1>2, <1>4 DEF Claim, Die, Renew, Terminal
  <1>5. ASSUME Cancel \/ Expire \/ RecordSteer \/ Crash \/ UNCHANGED vars
        PROVE  run' = run
    BY <1>5 DEF Cancel, Expire, RecordSteer, Crash, vars, Terminal, Nonterminal
  <1>6. ASSUME NEW d \in Deciders,
               \/ \E choice \in {"approve", "reject"} : LoadForDecision(d, choice)
               \/ Decide(d) \/ DecideRefused(d)
        PROVE  run' = run
    BY <1>2, <1>6 DEF LoadForDecision, Decide, CheckpointShape, DecideRefused
  <1>7. CASE Restart
    BY <1>7 DEF Restart, Resumable, Terminal, Nonterminal
  <1>. QED
    BY <1>3, <1>4, <1>5, <1>6, <1>7 DEF Next

\* A Run that has completed, failed or been cancelled never changes again.
THEOREM OutcomeFinal == Spec => TerminalIsFinal
  <1>1. Inductive /\ [Next]_vars => [run.status \in Terminal => run' = run]_vars
    BY TerminalStep DEF Inductive
  <1>. QED
    BY <1>1, Invariance, PTL DEF Spec, TerminalIsFinal

-----------------------------------------------------------------------------
(* What the user is promised: the invariant.                               *)

\* What the record of a call's approval says of the Run: it is open while the
\* Run waits for the call, and consumed into a grant or by the end of the Run.
ApprovalTrue(c) ==
    /\ approval[c].decision = "none" => ~approval[c].consumed
    /\ approval[c].decision # "none" /\ ~approval[c].consumed => run.pending = c
    /\ run.pending = c =>
         /\ approval[c].decision # "none" /\ ~approval[c].consumed
         /\ run.cp # None /\ run.phase = "waiting_approval"
    /\ approval[c].decision = "pending" /\ approval[c].consumed
         => run.status \in Terminal
    /\ approval[c].decision = "pending" /\ ~approval[c].consumed
         => run.status = "waiting_approval" /\ inv[c].status = "pending_approval"
    /\ approval[c].decision = "approve" /\ approval[c].consumed
         => run.status \in Terminal \/ (run.cp # None /\ c \in run.cp.granted)
    /\ approval[c].decision = "reject" => inv[c].status = "rejected"

\* A waiting Run waits for one call, which is not decided yet.
WaitsForOne ==
    run.status = "waiting_approval" =>
        run.pending \in Calls /\ approval[run.pending].decision = "pending"

\* The phase column is the checkpoint's phase, of a Run that has been started.
PhaseMirrored ==
    /\ run.cp # None => run.phase = run.cp.phase /\ run.phase # "not_started"
    /\ run.phase = "finalizing" => run.cp # None

\* A leaseholder has consumed the decision before it goes on, and leaves a frozen
\* answer alone; who reports that a call needs approval has no grant for it.
HoldersFit ==
    \A w \in Workers :
        /\ worker[w].pc \in Working /\ Leased(w) =>
             /\ worker[w].pc # "claimed" => run.pending = 0
             /\ run.phase = "finalizing" => worker[w].pc \in {"claimed", "final"}
        /\ worker[w].pc = "done" /\ worker[w].res = "approval" => ~Granted(w)

\* A row that a decision has loaded while the Run waited is the row still, unless
\* its call is decided or the Run is over.
RowsLoaded ==
    \A d \in Deciders :
        request[d] # None /\ request[d].row.status = "waiting_approval" =>
            /\ request[d].row.pending \in Calls
            /\ approval[request[d].row.pending].decision # "none"
            /\ approval[request[d].row.pending].decision = "pending" /\ run.cp # None
                 => request[d].row = run

Asking ==
    /\ \A c \in Calls : ApprovalTrue(c)
    /\ WaitsForOne
    /\ PhaseMirrored
    /\ HoldersFit
    /\ RowsLoaded

-----------------------------------------------------------------------------
(* What a task writes.                                                     *)

\* The messages and the model calls of the checkpoint a task works from.
Said(w) == IF worker[w].cp = None THEN <<>> ELSE worker[w].cp.msgs
Models(w) == IF worker[w].cp = None THEN 0 ELSE worker[w].cp.models

\* The call it works on, and those that remain of the model's turn.
Current(w) == IF worker[w].cp = None THEN 0 ELSE worker[w].cp.cur
Remaining(w) == IF worker[w].cp = None THEN <<>> ELSE worker[w].cp.rem

\* The calls of d after the task's: the same, the next one started, one reported,
\* the model's next one or two, or none because its turn was cut.
Follows(w, d, next) ==
    \/ /\ issued' = issued /\ d.cur = Current(w) /\ d.rem = Remaining(w)
       /\ worker[w].pc # "done"
       /\ next = "call" => worker[w].pc = "reserve"
       /\ next = "reserve" => Current(w) = 0 /\ Remaining(w) = <<>>
    \/ /\ issued' = issued /\ next = "tool" /\ worker[w].pc = "loop"
       /\ Current(w) = 0 /\ Remaining(w) # <<>>
       /\ d.cur = Head(Remaining(w)) /\ d.rem = Tail(Remaining(w))
    \/ /\ issued' = issued /\ next = "loop"
       /\ worker[w].pc = "done" /\ worker[w].res \in {"ok", "error"}
       /\ d.msgs = Append(Said(w), <<worker[w].res, Call(w)>>)
       /\ d.cur = IF Remaining(w) = <<>> THEN 0 ELSE Head(Remaining(w))
       /\ d.rem = IF Remaining(w) = <<>> THEN <<>> ELSE Tail(Remaining(w))
    \/ /\ worker[w].pc = "model" /\ next = "loop"
       /\ \E n \in {1, 2} :
            /\ issued' = issued + n
            /\ d.cur = issued + 1 /\ d.rem = [i \in 1 .. n - 1 |-> issued + 1 + i]
    \/ /\ worker[w].pc = "model" /\ next \in {"loop", "failing"} /\ issued' = issued
       /\ d.cur = 0 /\ d.rem = <<>>

\* The task stores d under its lease and goes on at next: it keeps the grants,
\* freezes an answer only when no steer waits, and adds at most one message.
Wrote(w, d, next) ==
    /\ Store(w, d, next)
    /\ d \in Checkpoint
    /\ next \in {"loop", "reserve", "call", "tool", "final", "failing"}
    /\ worker[w].pc \in Working \ {"final"}
    /\ Leased(w)
    /\ worker[w].pc = "claimed" => worker[w].cp = None
    /\ d.granted = Inherited(w)
    /\ d.phase = "finalizing" <=> next = "final"
    /\ d.phase # "not_started"
    /\ \/ disp' = disp /\ d.msgs = Said(w)
       \/ /\ disp' = disp /\ next = "loop"
          /\ worker[w].pc = "done" /\ worker[w].res \in {"ok", "error"}
          /\ d.msgs = Append(Said(w), <<worker[w].res, Call(w)>>)
       \/ /\ disp' = AppliedAll /\ next # "final" /\ PendingSteers # {}
          /\ d.msgs = Append(Said(w), <<"steers", PendingSteers>>)
    /\ next = "final" => /\ PendingSteers = {}
                         /\ d.final \in Texts \ {"none"}
                         /\ d.final # "limit" => worker[w].pc = "model"
    /\ d.models = IF next = "call" THEN Models(w) + 1 ELSE Models(w)
    /\ Follows(w, d, next)
    /\ UNCHANGED <<request, approval, inv, effects, answers, provider, seen, up, crashes>>

\* The fields of a checkpoint that a step does not name stay.
LEMMA FieldsKept ==
    ASSUME NEW c \in Checkpoint, NEW ph \in Phases, NEW t \in Texts
    PROVE  /\ LET d == Reserved(c) IN
                /\ d.granted = c.granted /\ d.msgs = c.msgs
                /\ d.phase = "awaiting_model" /\ d.models = c.models + 1
                /\ d.cur = c.cur /\ d.rem = c.rem
           /\ LET d == [c EXCEPT !.phase = ph] IN
                /\ d.granted = c.granted /\ d.msgs = c.msgs
                /\ d.phase = ph /\ d.models = c.models
                /\ d.cur = c.cur /\ d.rem = c.rem
           /\ LET d == [c EXCEPT !.phase = "finalizing", !.final = t] IN
                /\ d.granted = c.granted /\ d.msgs = c.msgs
                /\ d.phase = "finalizing" /\ d.models = c.models /\ d.final = t
                /\ d.cur = c.cur /\ d.rem = c.rem
           /\ LET d == [c EXCEPT !.cuts = @ + 1, !.cur = 0, !.rem = <<>>,
                                 !.phase = "awaiting_model", !.step = @ + 1] IN
                /\ d.granted = c.granted /\ d.msgs = c.msgs
                /\ d.phase = "awaiting_model" /\ d.models = c.models
                /\ d.cur = 0 /\ d.rem = <<>>
           /\ LET d == [c EXCEPT !.phase = "tool_running", !.cur = Head(c.rem),
                                 !.rem = Tail(c.rem)] IN
                /\ d.granted = c.granted /\ d.msgs = c.msgs
                /\ d.phase = "tool_running" /\ d.models = c.models
                /\ d.cur = Head(c.rem) /\ d.rem = Tail(c.rem)
           /\ LET d == Folded(c) IN
                /\ d.granted = c.granted
                /\ d.msgs = Append(c.msgs, <<"steers", PendingSteers>>)
                /\ d.phase = "awaiting_model" /\ d.models = c.models
                /\ d.cur = c.cur /\ d.rem = c.rem
  BY DEF Checkpoint, Reserved, Folded

\* Every storing step writes in this way: initializing,
LEMMA InitializeWrote ==
    ASSUME NEW w \in Workers, Initialize(w)
    PROVE  Wrote(w, FreshCheckpoint, "loop")
  <1>. USE DEF userVars, toolVars, seenVars, procVars
  <1>1. FreshCheckpoint \in Checkpoint
    BY FreshTyped
  <1>2. /\ FreshCheckpoint.granted = {} /\ FreshCheckpoint.msgs = <<>>
        /\ FreshCheckpoint.phase = "awaiting_model" /\ FreshCheckpoint.models = 0
        /\ FreshCheckpoint.cur = 0 /\ FreshCheckpoint.rem = <<>>
    BY DEF FreshCheckpoint
  <1>3. Follows(w, FreshCheckpoint, "loop")
    BY <1>2 DEF Initialize, Follows, Current, Remaining
  <1>. QED
    BY <1>1, <1>2, <1>3 DEF Initialize, Wrote, Inherited, Said, Models, Working

\* preparing the end,
LEMMA PrepareWrote ==
    ASSUME NEW w \in Workers, worker[w].cp \in Checkpoint, worker[w].cp # None,
           NEW t \in Texts \ {"none"}, Prepare(w, t), Leased(w),
           worker[w].pc \in {"loop", "model"}, t # "limit" => worker[w].pc = "model",
           UNCHANGED <<request, approval, inv, issued, effects, answers, provider,
                       seen, up, crashes>>
    PROVE  \E d, next : Wrote(w, d, next)
  <1>. DEFINE c == worker[w].cp
  <1>1. CASE PendingSteers # {}
    <2>. DEFINE d == Folded(c)
    <2>1. /\ d \in Checkpoint /\ d.granted = c.granted
          /\ d.msgs = Append(c.msgs, <<"steers", PendingSteers>>)
          /\ d.phase = "awaiting_model" /\ d.models = c.models
          /\ d.cur = c.cur /\ d.rem = c.rem
      <3>1. "awaiting_model" \in Phases /\ "none" \in Texts
        BY DEF Phases, Texts
      <3>. QED
        BY <3>1, FoldedTyped, FieldsKept
    <2>2. Store(w, d, "loop") /\ disp' = AppliedAll
      BY <1>1 DEF Prepare
    <2>. HIDE DEF d
    <2>4. Follows(w, d, "loop")
      BY <2>1 DEF Follows, Current, Remaining
    <2>3. Wrote(w, d, "loop")
      BY <1>1, <2>1, <2>2, <2>4 DEF Wrote, Inherited, Said, Models, Working
    <2>. QED
      BY <2>3
  <1>2. CASE PendingSteers = {}
    <2>. DEFINE d == [c EXCEPT !.phase = "finalizing", !.final = t]
    <2>1. /\ d \in Checkpoint /\ d.granted = c.granted /\ d.msgs = c.msgs
          /\ d.phase = "finalizing" /\ d.models = c.models /\ d.final = t
          /\ d.cur = c.cur /\ d.rem = c.rem
      BY DEF Checkpoint, Phases, Texts, Spoken
    <2>2. Store(w, d, "final") /\ disp' = disp
      BY <1>2 DEF Prepare
    <2>. HIDE DEF d
    <2>4. Follows(w, d, "final")
      BY <2>1 DEF Follows, Current, Remaining
    <2>3. Wrote(w, d, "final")
      BY <1>2, <2>1, <2>2, <2>4 DEF Wrote, Inherited, Said, Models, Working
    <2>. QED
      BY <2>3
  <1>. QED
    BY <1>1, <1>2

\* a model step,
LEMMA ModelWrote ==
    ASSUME TypeOK, CheckpointsPresent, NEW w \in Workers,
           \/ StopAtLimit(w) \/ ReserveModelCall(w) \/ ModelAnswers(w)
           \/ ModelProposes(w, 1) \/ ModelProposes(w, 2) \/ ModelTruncates(w)
           \/ ConsumeSteers(w) /\ PendingSteers # {}
    PROVE  \E d, next : Wrote(w, d, next)
  <1>. USE DEF userVars, toolVars, seenVars, procVars
  <1>. DEFINE c == worker[w].cp
  <1>1. c \in Checkpoint /\ c # None
    BY StartedTyped, NoneIsNull DEF StopAtLimit, ReserveModelCall,
          ModelAnswers, ModelProposes, ModelTruncates, ConsumeSteers,
          InLoop, Working
  <1>2. CASE StopAtLimit(w) \/ ModelAnswers(w)
    <2>1. PICK t \in Texts \ {"none"} :
            /\ Prepare(w, t) /\ Leased(w)
            /\ worker[w].pc \in {"loop", "model"} /\ (t # "limit" => worker[w].pc = "model")
      BY <1>2 DEF StopAtLimit, ModelAnswers, InLoop, Texts, Spoken
    <2>2. UNCHANGED <<request, approval, inv, issued, effects, answers, provider,
                      seen, up, crashes>>
      BY <1>2 DEF StopAtLimit, ModelAnswers
    <2>. QED
      BY <1>1, <2>1, <2>2, PrepareWrote
  <1>3. CASE ReserveModelCall(w)
    <2>1. Reserved(c) \in Checkpoint
      BY <1>1, CheckpointsTyped DEF Phases, Texts, Spoken
    <2>3. Follows(w, Reserved(c), "call")
      BY <1>1, <1>3, FieldsKept DEF ReserveModelCall, Follows, Current, Remaining,
            Phases, Texts, Spoken
    <2>2. Wrote(w, Reserved(c), "call")
      BY <1>1, <1>3, <2>1, <2>3, FieldsKept DEF ReserveModelCall, Wrote, Inherited,
            Said, Models, Working, Phases, Texts, Spoken
    <2>. QED
      BY <2>2
  <1>4. ASSUME NEW n \in {1, 2}, ModelProposes(w, n)
        PROVE  \E d, next : Wrote(w, d, next)
    <2>. DEFINE d == [c EXCEPT !.cur = issued + 1,
                               !.rem = [i \in 1 .. n - 1 |-> issued + 1 + i],
                               !.phase = "tool_ready"]
    <2>1. d \in Checkpoint
      BY <1>1, <1>4, ProposedTyped DEF ModelProposes
    <2>2. /\ d.granted = c.granted /\ d.msgs = c.msgs
          /\ d.phase = "tool_ready" /\ d.models = c.models
          /\ d.cur = issued + 1 /\ d.rem = [i \in 1 .. n - 1 |-> issued + 1 + i]
      BY <1>1 DEF Checkpoint
    <2>3. Store(w, d, "loop")
      BY <1>4 DEF ModelProposes
    <2>. HIDE DEF d
    <2>5. Follows(w, d, "loop")
      BY <1>4, <2>2 DEF ModelProposes, Follows
    <2>4. Wrote(w, d, "loop")
      BY <1>1, <1>4, <2>1, <2>2, <2>3, <2>5 DEF ModelProposes, Wrote, Inherited, Said,
            Models, Working
    <2>. QED
      BY <2>4
  <1>5. CASE ModelTruncates(w)
    <2>. DEFINE d == [c EXCEPT !.cuts = @ + 1, !.cur = 0, !.rem = <<>>,
                               !.phase = "awaiting_model", !.step = @ + 1]
    <2>1. /\ d \in Checkpoint /\ d.granted = c.granted /\ d.msgs = c.msgs
          /\ d.phase = "awaiting_model" /\ d.models = c.models
      <3>1. "awaiting_model" \in Phases /\ "none" \in Texts
        BY DEF Phases, Texts
      <3>. QED
        BY <1>1, <3>1, CheckpointsTyped, FieldsKept
    <2>5. d.cur = 0 /\ d.rem = <<>>
      BY <1>1 DEF Checkpoint
    <2>2. Store(w, d, "loop") \/ Store(w, d, "failing")
      BY <1>5 DEF ModelTruncates
    <2>. HIDE DEF d
    <2>4. Follows(w, d, "loop") /\ Follows(w, d, "failing")
      BY <1>5, <2>1, <2>5 DEF ModelTruncates, Follows
    <2>3. Wrote(w, d, "loop") \/ Wrote(w, d, "failing")
      BY <1>1, <1>5, <2>1, <2>2, <2>4 DEF ModelTruncates, Wrote, Inherited, Said,
            Models, Working
    <2>. QED
      BY <2>3
  <1>6. CASE ConsumeSteers(w) /\ PendingSteers # {}
    <2>1. Folded(c) \in Checkpoint
      BY <1>1, FoldedTyped
    <2>3. Follows(w, Folded(c), "reserve")
      BY <1>1, <1>6, FieldsKept DEF ConsumeSteers, InLoop, Follows, Current,
            Remaining, Phases, Texts, Spoken
    <2>4. /\ Folded(c).granted = c.granted
          /\ Folded(c).msgs = Append(c.msgs, <<"steers", PendingSteers>>)
          /\ Folded(c).phase = "awaiting_model" /\ Folded(c).models = c.models
      BY <1>1, FieldsKept DEF Phases, Texts, Spoken
    <2>2. Wrote(w, Folded(c), "reserve")
      BY <1>1, <1>6, <2>1, <2>3, <2>4 DEF ConsumeSteers, InLoop, Wrote, Inherited,
            Said, Models, Working
    <2>. QED
      BY <2>2
  <1>. QED
    BY <1>2, <1>3, <1>4, <1>5, <1>6

\* and a tool step.
LEMMA ToolWrote ==
    ASSUME TypeOK, CheckpointsPresent, NEW w \in Workers,
           StartTool(w) \/ ReportTool(w)
    PROVE  \E d, next : Wrote(w, d, next)
  <1>. USE DEF userVars, toolVars, seenVars, procVars
  <1>. DEFINE c == worker[w].cp
  <1>1. c \in Checkpoint /\ c # None
    BY StartedTyped, NoneIsNull DEF StartTool, ReportTool, InLoop, Working
  <1>2. CASE StartTool(w)
    <2>. DEFINE d == [c EXCEPT !.phase = "tool_running"]
                e == [c EXCEPT !.phase = "tool_running", !.cur = Head(c.rem),
                               !.rem = Tail(c.rem)]
    <2>1. /\ d \in Checkpoint /\ d.granted = c.granted /\ d.msgs = c.msgs
          /\ d.phase = "tool_running" /\ d.models = c.models
          /\ d.cur = c.cur /\ d.rem = c.rem
      <3>1. "tool_running" \in Phases /\ "none" \in Texts
        BY DEF Phases, Texts, Spoken
      <3>2. d \in Checkpoint
        BY <1>1, <3>1, CheckpointsTyped
      <3>. QED
        BY <1>1, <3>1, <3>2, FieldsKept
    <2>2. c.rem # <<>> =>
          /\ e \in Checkpoint /\ e.granted = c.granted /\ e.msgs = c.msgs
          /\ e.phase = "tool_running" /\ e.models = c.models
          /\ e.cur = Head(c.rem) /\ e.rem = Tail(c.rem)
      <3>1. "tool_running" \in Phases /\ "none" \in Texts
        BY DEF Phases, Texts, Spoken
      <3>2. c.rem # <<>> => e \in Checkpoint
        BY <1>1, <3>1, CheckpointsTyped
      <3>. QED
        BY <1>1, <3>1, <3>2, FieldsKept
    <2>3. Store(w, d, "tool") \/ (c.cur = 0 /\ c.rem # <<>> /\ Store(w, e, "tool"))
      BY <1>2 DEF StartTool
    <2>. HIDE DEF d, e
    <2>5. /\ Follows(w, d, "tool")
          /\ c.cur = 0 /\ c.rem # <<>> => Follows(w, e, "tool")
      BY <1>1, <1>2, <2>1, <2>2 DEF StartTool, InLoop, Follows, Current, Remaining
    <2>4. Wrote(w, d, "tool") \/ Wrote(w, e, "tool")
      BY <1>1, <1>2, <2>1, <2>2, <2>3, <2>5 DEF StartTool, InLoop, Wrote, Inherited,
            Said, Models, Working
    <2>. QED
      BY <2>4
  <1>3. CASE ReportTool(w)
    <2>. DEFINE d == Reported(w)
    <2>1. d \in Checkpoint
      BY <1>1, <1>3, ReportedTyped DEF ReportTool, CheckpointsPresent
    <2>2. /\ d.granted = c.granted /\ d.msgs = Append(c.msgs, <<worker[w].res, Call(w)>>)
          /\ d.phase \in {"awaiting_model", "tool_ready"} /\ d.models = c.models
          /\ d.cur = IF c.rem = <<>> THEN 0 ELSE Head(c.rem)
          /\ d.rem = IF c.rem = <<>> THEN <<>> ELSE Tail(c.rem)
      BY <1>1 DEF Reported, Checkpoint, Call
    <2>3. Store(w, d, "loop")
      BY <1>3 DEF ReportTool
    <2>. HIDE DEF d
    <2>5. Follows(w, d, "loop")
      BY <1>1, <1>3, <2>2 DEF ReportTool, Follows, Current, Remaining, Said
    <2>4. Wrote(w, d, "loop")
      BY <1>1, <1>3, <2>1, <2>2, <2>3, <2>5 DEF ReportTool, Wrote, Inherited, Said,
            Models, Working
    <2>. QED
      BY <2>4
  <1>. QED
    BY <1>2, <1>3

\* The steps of a task, sorted: it writes, it goes on with the row as it is, or
\* it takes one of the steps that are left.
Waiting(w) ==
    \/ Resume(w) \/ AskModel(w) \/ RefuseTool(w) \/ ObserveTool(w)
    \/ ClaimTool(w) \/ CommitTool(w) \/ SettleTool(w) \/ LoseClaim(w)
    \/ ConsumeSteers(w) /\ PendingSteers = {}

\* Every step of a task is one of these.
LEMMA SortedSteps ==
    ASSUME TypeOK, CheckpointsPresent, NEW w \in Workers, TaskStep(w)
    PROVE  \/ \E d, next : Wrote(w, d, next)
           \/ Waiting(w) /\ Moves(w)
           \/ RestoreApproval(w) \/ PauseForApproval(w) \/ Finalize(w)
           \/ ScheduleRetry(w) \/ Fail(w) \/ LoseLease(w) \/ ClaimRefused(w)
  BY InitializeWrote, ModelWrote, ToolWrote, MovingSteps DEF TaskStep, Waiting
-----------------------------------------------------------------------------
(* The leaseholder.                                                        *)

\* The columns of the row that a step which is not a transition keeps.
RowKept ==
    /\ run'.status = run.status /\ run'.phase = run.phase /\ run'.cp = run.cp
    /\ run'.pending = run.pending /\ run'.output = run.output
    /\ run'.reason = run.reason

\* What a write does to the row and to the other tasks.
LEMMA WroteRow ==
    ASSUME TypeOK, NEW w \in Workers, NEW d, NEW next, Wrote(w, d, next)
    PROVE  /\ run'.status = "running" /\ run.status = "running"
           /\ run'.phase = d.phase /\ run'.cp = d
           /\ run'.pending = run.pending /\ run'.output = run.output
           /\ run'.reason = run.reason /\ run'.token = run.token
           /\ run'.token = worker[w].token
           /\ worker'[w].pc = next /\ worker'[w].cp = d
           /\ \A v \in Workers \ {w} : worker'[v] = worker[v]
  <1>1. run \in RunRow /\ worker \in [Workers -> Task]
    BY DEF TypeOK
  <1>. QED
    BY <1>1 DEF Wrote, Store, Leased, RunRow, Task

\* What the consumption of a decision does.
LEMMA RestoredRow ==
    ASSUME TypeOK, NEW w \in Workers, RestoreApproval(w)
    PROVE  LET d == Decided(worker[w].cp) IN
           /\ d \in Checkpoint /\ run.pending \in Calls
           /\ run'.status = "running" /\ run.status = "running"
           /\ run'.phase = d.phase /\ run'.cp = d
           /\ run'.pending = 0 /\ run'.output = run.output
           /\ run'.reason = run.reason /\ run'.token = run.token
           /\ run'.token = worker[w].token
           /\ worker'[w].pc = "loop" /\ worker'[w].cp = d
           /\ \A v \in Workers \ {w} : worker'[v] = worker[v]
           /\ d.phase \in {"awaiting_model", "tool_ready"}
           /\ d.granted = IF approval[run.pending].decision = "approve"
                          THEN worker[w].cp.granted \cup {run.pending}
                          ELSE worker[w].cp.granted
  <1>. DEFINE d == Decided(worker[w].cp)
  <1>1. run \in RunRow /\ worker \in [Workers -> Task]
    BY DEF TypeOK
  <1>2. worker[w].cp \in Checkpoint /\ worker[w] \in Task
    BY <1>1 DEF RestoreApproval, Task
  <1>3. run.pending \in Calls
    BY <1>1 DEF RestoreApproval, RunRow
  <1>4. d \in Checkpoint
    BY <1>2, DecidedTyped DEF RestoreApproval
  <1>5. /\ d.phase \in {"awaiting_model", "tool_ready"}
        /\ d.granted = IF approval[run.pending].decision = "approve"
                       THEN worker[w].cp.granted \cup {run.pending}
                       ELSE worker[w].cp.granted
    BY <1>2 DEF Decided, Checkpoint
  <1>6. /\ run' = [run EXCEPT !.cp = d, !.phase = d.phase, !.expired = FALSE,
                              !.version = worker[w].version + 1, !.pending = 0]
        /\ worker' = [worker EXCEPT ![w].cp = d, ![w].version = @ + 1,
                                    ![w].pc = "loop"]
        /\ Leased(w)
    BY DEF RestoreApproval
  <1>. HIDE DEF d
  <1>7. /\ run'.status = run.status /\ run.status = "running"
        /\ run'.phase = d.phase /\ run'.cp = d
        /\ run'.pending = 0 /\ run'.output = run.output
        /\ run'.reason = run.reason /\ run'.token = run.token
        /\ run'.token = worker[w].token
    BY <1>1, <1>6 DEF Leased, RunRow
  <1>8. /\ worker'[w].pc = "loop" /\ worker'[w].cp = d
        /\ \A v \in Workers \ {w} : worker'[v] = worker[v]
    BY <1>1, <1>2, <1>6 DEF Task
  <1>. QED
    BY <1>3, <1>4, <1>5, <1>7, <1>8 DEF d

\* What a move does: the row stays, and one task.
LEMMA MovedRow ==
    ASSUME TypeOK, NEW w \in Workers, Moves(w)
    PROVE  /\ run' = run /\ worker'[w].cp = worker[w].cp
           /\ worker'[w].token = worker[w].token
           /\ worker'[w].version = worker[w].version
           /\ \A v \in Workers \ {w} : worker'[v] = worker[v]
  BY DEF Moves, TypeOK, Task

\* The ends and pauses of a Run leave it with nobody.
LEMMA ReleasingSteps ==
    ASSUME TypeOK, NEW w \in Workers,
           PauseForApproval(w) \/ Finalize(w) \/ ScheduleRetry(w) \/ Fail(w)
    PROVE  run'.status # "running"
  <1>1. run \in RunRow
    BY DEF TypeOK
  <1>. QED
    BY <1>1 DEF PauseForApproval, Finalize, ScheduleRetry, Fail, Terminate,
          Released, RunRow

\* Who holds the lease after a step has claimed it or held it before: it wrote,
\* it moved on, it consumed a decision, or it was left alone with its row.
LEMMA HolderSteps ==
    ASSUME TypeOK, CheckpointsPresent, TokensDistinct, [Next]_vars,
           NEW v \in Workers, worker'[v].pc \in Working, Leased(v)'
    PROVE  \/ Claim(v)
           \/ /\ worker[v].pc \in Working /\ Leased(v)
              /\ \/ \E d, next : Wrote(v, d, next)
                 \/ Waiting(v) /\ Moves(v)
                 \/ RestoreApproval(v)
                 \/ worker'[v] = worker[v] /\ RowKept
  <1>. DEFINE Goal == \/ Claim(v)
                      \/ /\ worker[v].pc \in Working /\ Leased(v)
                         /\ \/ \E d, next : Wrote(v, d, next)
                            \/ Waiting(v) /\ Moves(v)
                            \/ RestoreApproval(v)
                            \/ worker'[v] = worker[v] /\ RowKept
  <1>1. worker \in [Workers -> Task] /\ run \in RunRow
    BY DEF TypeOK
  <1>2. run'.status = "running" /\ run'.token = worker'[v].token
        /\ run'.version = worker'[v].version
    BY DEF Leased
  <1>3. ASSUME worker'[v] = worker[v], run' = run
        PROVE  Goal
    BY <1>2, <1>3 DEF Leased, RowKept
  <1>4. ASSUME NEW w \in Workers, w # v, worker[w].pc \in Working, Leased(w),
               run'.token = run.token, worker'[v] = worker[v]
        PROVE  FALSE
    <2>1. worker[v].token # worker[w].token
      BY <1>4 DEF TokensDistinct
    <2>. QED
      BY <1>2, <1>4, <2>1 DEF Leased
  <1>5. ASSUME NEW w \in Workers, NEW d, NEW next, Wrote(w, d, next)
        PROVE  Goal
    <2>1. CASE w = v
      BY <1>5, <2>1 DEF Wrote
    <2>2. CASE w # v
      BY <1>4, <1>5, <2>2, WroteRow DEF Wrote
    <2>. QED
      BY <2>1, <2>2
  <1>6. ASSUME NEW w \in Workers, RestoreApproval(w)
        PROVE  Goal
    <2>0. worker[w].pc \in Working /\ Leased(w)
      BY <1>6 DEF RestoreApproval, Working
    <2>1. CASE w = v
      BY <1>6, <2>0, <2>1
    <2>2. CASE w # v
      BY <1>4, <1>6, <2>0, <2>2, RestoredRow
    <2>. QED
      BY <2>1, <2>2
  <1>7. ASSUME NEW w \in Workers, Moves(w), Waiting(w)
        PROVE  Goal
    <2>1. CASE w = v
      <3>1. worker[v].pc \in Working /\ Leased(v)
        BY <1>2, <1>7, <2>1, MovedRow DEF Moves, Leased
      <3>. QED
        BY <1>7, <2>1, <3>1
    <2>2. CASE w # v
      BY <1>3, <1>7, <2>2, MovedRow
    <2>. QED
      BY <2>1, <2>2
  <1>8. ASSUME NEW w \in Workers, Leaves(w), UNCHANGED run
        PROVE  Goal
    <2>1. w # v
      BY <1>1, <1>8 DEF Leaves, IdleTask, Working
    <2>2. worker'[v] = worker[v]
      BY <1>1, <1>8, <2>1 DEF Leaves
    <2>. QED
      BY <1>3, <1>8, <2>2
  <1>9. ASSUME NEW w \in Workers, TaskStep(w) \/ Die(w)
        PROVE  Goal
    <2>1. CASE LoseLease(w) \/ ClaimRefused(w) \/ Die(w)
      BY <1>8, <2>1, LeavingSteps DEF LoseLease, ClaimRefused, Die
    <2>2. CASE PauseForApproval(w) \/ Finalize(w) \/ ScheduleRetry(w) \/ Fail(w)
      BY <1>2, <2>2, ReleasingSteps
    <2>. HIDE DEF Goal
    <2>. QED
      BY <1>5, <1>6, <1>7, <1>9, <2>1, <2>2, SortedSteps
  <1>10. ASSUME NEW w \in Workers, Claim(w)
         PROVE  Goal
    <2>1. CASE w = v
      BY <1>10, <2>1
    <2>2. CASE w # v
      <3>1. /\ run'.token = run.attempt + 1 /\ run.attempt \in Nat
            /\ worker'[v] = worker[v]
        BY <1>1, <1>10, <2>2 DEF Claim, RunRow
      <3>2. worker[v].token \in Nat /\ worker[v].token <= run.attempt
        BY <1>1, <3>1 DEF Task, TokensDistinct
      <3>3. worker[v].token = run.attempt + 1
        BY <1>2, <3>1
      <3>4. FALSE
        BY <3>1, <3>2, <3>3
      <3>. QED
        BY <3>4
    <2>. QED
      BY <2>1, <2>2
  <1>11. ASSUME Expire \/ \E w \in Workers : Renew(w)
         PROVE  Goal
    <2>1. UNCHANGED worker /\ run'.status = run.status /\ run'.token = run.token
          /\ run'.version = run.version /\ RowKept
      BY <1>1, <1>11 DEF Expire, Renew, RunRow, RowKept
    <2>. QED
      BY <1>2, <2>1 DEF Leased
  <1>12. ASSUME Cancel \/ \E d \in Deciders : Decide(d)
         PROVE  Goal
    <2>1. run'.status # "running"
      BY <1>1, <1>12 DEF Cancel, Terminate, Released, Decide, Requeued, RunRow
    <2>. QED
      BY <1>2, <2>1
  <1>13. ASSUME RecordSteer \/ \E d \in Deciders :
                \/ \E choice \in {"approve", "reject"} : LoadForDecision(d, choice)
                \/ DecideRefused(d)
         PROVE  Goal
    BY <1>3, <1>13 DEF RecordSteer, LoadForDecision, DecideRefused
  <1>14. ASSUME Crash
         PROVE  Goal
    BY <1>14 DEF Crash, IdleTask, Working
  <1>15. ASSUME Restart
         PROVE  Goal
    <2>1. UNCHANGED <<worker, run>> \/ run'.status # "running"
      BY <1>1, <1>15 DEF Restart, Released, RunRow
    <2>. QED
      BY <1>2, <1>3, <2>1
  <1>16. ASSUME UNCHANGED vars
         PROVE  Goal
    BY <1>3, <1>16 DEF vars
  <1>. HIDE DEF Goal
  <1>17. ASSUME NEW w \in Workers, Claim(w) \/ TaskStep(w) \/ Die(w) \/ Renew(w)
         PROVE  Goal
    BY <1>9, <1>10, <1>11, <1>17
  <1>18. ASSUME NEW d \in Deciders,
                \/ \E choice \in {"approve", "reject"} : LoadForDecision(d, choice)
                \/ Decide(d) \/ DecideRefused(d)
         PROVE  Goal
    BY <1>12, <1>13, <1>18
  <1>19. Cancel \/ Expire \/ RecordSteer \/ Crash \/ Restart => Goal
    BY <1>11, <1>12, <1>13, <1>14, <1>15
  <1>20. Goal
    BY <1>16, <1>17, <1>18, <1>19 DEF Next
  <1>. QED
    BY <1>20 DEF Goal
-----------------------------------------------------------------------------
(* Approvals.                                                              *)

\* A step of a task between two writes neither answers nor withdraws a request
\* that the user has not decided, nor revives one that the user refused.
LEMMA WaitingKeepsRequests ==
    ASSUME TypeOK, CheckpointsPresent, GrantsBacked, NEW w \in Workers, Waiting(w),
           NEW c \in Calls
    PROVE  /\ approval[c].decision = "pending" /\ inv[c].status = "pending_approval"
                => inv'[c].status = "pending_approval"
           /\ inv[c].status = "rejected" => inv'[c].status = "rejected"
  <1>. USE DEF userVars, toolVars, seenVars, procVars
  <1>. DEFINE Kept == /\ approval[c].decision = "pending" /\ inv[c].status = "pending_approval"
                            => inv'[c].status = "pending_approval"
                      /\ inv[c].status = "rejected" => inv'[c].status = "rejected"
  <1>1. inv \in [Calls -> Invocation]
    BY DEF TypeOK
  <1>2. CASE ClaimTool(w)
    <2>1. worker[w].cp # None
      BY <1>2 DEF ClaimTool, CheckpointsPresent, Working
    <2>2. Call(w) = c /\ inv[c].status = "pending_approval" => approval[c].decision = "approve"
      BY <1>2, <2>1 DEF ClaimTool, Claimable, Granted, GrantsBacked, Backed
    <2>3. Call(w) = c => inv[c].status # "rejected"
      BY <1>2 DEF ClaimTool, Claimable
    <2>4. Call(w) # c => inv'[c] = inv[c]
      BY <1>1, <1>2 DEF ClaimTool
    <2>. QED
      BY <2>2, <2>3, <2>4
  <1>3. CASE CommitTool(w) \/ SettleTool(w)
    <2>1. Call(w) = c => inv[c].status = "running"
      BY <1>3 DEF CommitTool, SettleTool, OwnsClaim
    <2>2. Call(w) # c => inv'[c] = inv[c]
      BY <1>1, <1>3 DEF CommitTool, SettleTool, Settle
    <2>. QED
      BY <2>1, <2>2
  <1>4. CASE UNCHANGED inv
    BY <1>4
  <1>. QED
    BY <1>2, <1>3, <1>4 DEF Waiting, Resume,
       AskModel, CallModel, CallRefused, RepeatCall, RefuseTool, ObserveTool,
          LoseClaim, ConsumeSteers

\* A step that keeps the approval and what it rests on keeps the record true.
LEMMA ApprovalFrame ==
    ASSUME NEW c \in Calls, ApprovalTrue(c),
           approval'[c] = approval[c], run'.pending = run.pending,
           run.pending = c => run'.cp # None /\ run'.phase = "waiting_approval",
           run.status \in Terminal => run'.status \in Terminal,
           approval[c].decision = "pending" /\ run.status = "waiting_approval"
             => run'.status = "waiting_approval",
           run.cp # None /\ c \in run.cp.granted
             => run'.status \in Terminal \/ (run'.cp # None /\ c \in run'.cp.granted),
           approval[c].decision = "pending" /\ inv[c].status = "pending_approval"
             => inv'[c].status = "pending_approval",
           inv[c].status = "rejected" => inv'[c].status = "rejected"
    PROVE  ApprovalTrue(c)'
  BY DEF ApprovalTrue

\* Closing a request leaves what was decided.
LEMMA ClosingKeeps ==
    ASSUME TypeOK, CloseApproval, NEW c \in Calls
    PROVE  approval'[c].decision = approval[c].decision
  <1>1. approval \in [Calls -> Approval] /\ approval[c] \in Approval
    BY DEF TypeOK
  <1>2. CASE run.pending = 0
    BY <1>2 DEF CloseApproval
  <1>3. CASE run.pending # 0
    <2>1. approval' = [approval EXCEPT ![run.pending].consumed = TRUE]
      BY <1>3 DEF CloseApproval
    <2>. QED
      BY <1>1, <2>1 DEF Approval
  <1>. QED
    BY <1>2, <1>3

\* The end of a Run closes the request it waits for.
LEMMA ApprovalEnded ==
    ASSUME TypeOK, NEW c \in Calls, ApprovalTrue(c), CloseApproval,
           run'.pending = 0, run'.status \in Terminal
    PROVE  ApprovalTrue(c)'
  <1>1. approval \in [Calls -> Approval] /\ inv \in [Calls -> Invocation]
    BY DEF TypeOK
  <1>2. c # 0
    BY DEF Calls
  <1>3. /\ approval'[c].decision = approval[c].decision
        /\ approval[c].consumed => approval'[c].consumed
        /\ run.pending = c => approval'[c].consumed
        /\ run.pending # c => approval'[c] = approval[c]
        /\ inv[c].status = "rejected" => inv'[c].status = "rejected"
    <2>1. CASE run.pending = 0
      BY <1>2, <2>1 DEF CloseApproval
    <2>2. CASE run.pending # 0
      <3>1. approval' = [approval EXCEPT ![run.pending].consumed = TRUE]
        BY <2>2 DEF CloseApproval
      <3>2. inv' = inv \/ /\ inv[run.pending].status = "pending_approval"
                          /\ inv' = [inv EXCEPT ![run.pending].status = "cancelled"]
        BY <2>2 DEF CloseApproval
      <3>3. inv[c].status = "rejected" => inv'[c].status = "rejected"
        BY <1>1, <3>2
      <3>4. approval[c] \in Approval
        BY <1>1
      <3>5. CASE run.pending = c
        BY <1>1, <3>1, <3>3, <3>4, <3>5 DEF Approval
      <3>6. CASE run.pending # c
        BY <1>1, <3>1, <3>3, <3>6
      <3>. QED
        BY <3>5, <3>6
    <2>. QED
      BY <2>1, <2>2
  <1>4. run.pending # c => approval[c].decision = "none" \/ approval[c].consumed
    BY DEF ApprovalTrue
  <1>5. run.pending = c => approval[c].decision # "none"
    BY DEF ApprovalTrue
  <1>. QED
    BY <1>2, <1>3, <1>4, <1>5 DEF ApprovalTrue

\* A write keeps the records: its task has consumed the decision before.
LEMMA WroteApproval ==
    ASSUME Inductive, Asking, NEW w \in Workers, NEW d, NEW next, Wrote(w, d, next),
           NEW c \in Calls
    PROVE  ApprovalTrue(c)'
  <1>1. TypeOK /\ ApprovalTrue(c)
    BY DEF Inductive, Asking
  <1>2. /\ run'.status = "running" /\ run.status = "running" /\ run'.cp = d
        /\ run'.pending = run.pending
    BY <1>1, WroteRow
  <1>3. worker[w].cp = run.cp /\ d \in Checkpoint /\ d.granted = Inherited(w)
    BY DEF Inductive, LeaseholderIsCurrent, Wrote
  <1>4. run.pending # c
    <2>1. CASE worker[w].pc = "claimed"
      BY <1>1, <1>3, <2>1 DEF Wrote, ApprovalTrue
    <2>2. CASE worker[w].pc # "claimed"
      BY <2>2 DEF Wrote, Asking, HoldersFit, Calls
    <2>. QED
      BY <2>1, <2>2
  <1>5. approval'[c] = approval[c] /\ inv'[c] = inv[c]
    BY DEF Wrote
  <1>6. d # None
    BY <1>3, NoneIsNull
  <1>7. run.cp # None /\ c \in run.cp.granted => c \in d.granted
    BY <1>3 DEF Inherited
  <1>. QED
    BY <1>1, <1>2, <1>4, <1>5, <1>6, <1>7, ApprovalFrame DEF Terminal

\* So does the consumption of a decision, which makes the grant,
LEMMA RestoredApproval ==
    ASSUME Inductive, Asking, NEW w \in Workers, RestoreApproval(w), NEW c \in Calls
    PROVE  ApprovalTrue(c)'
  <1>. DEFINE d == Decided(worker[w].cp)
  <1>1. TypeOK /\ ApprovalTrue(c) /\ approval \in [Calls -> Approval]
    BY DEF Inductive, Asking, TypeOK
  <1>2. /\ d \in Checkpoint /\ run.pending \in Calls
        /\ run'.status = "running" /\ run.status = "running" /\ run'.cp = d
        /\ run'.pending = 0
        /\ d.granted = IF approval[run.pending].decision = "approve"
                       THEN worker[w].cp.granted \cup {run.pending}
                       ELSE worker[w].cp.granted
    BY <1>1, RestoredRow
  <1>. HIDE DEF d
  <1>3. worker[w].cp = run.cp /\ run.cp # None
    BY DEF Inductive, LeaseholderIsCurrent, RestoreApproval, Working
  <1>4. d # None /\ c # 0
    BY <1>2, NoneIsNull DEF Calls
  <1>5. /\ approval'[run.pending].consumed
        /\ approval'[run.pending].decision = approval[run.pending].decision
        /\ approval[run.pending].decision \in {"approve", "reject"}
        /\ inv' = inv
        /\ run.pending # c => approval'[c] = approval[c]
    BY <1>1, <1>2 DEF RestoreApproval, Approval, toolVars
  <1>6. CASE run.pending = c
    BY <1>1, <1>2, <1>4, <1>5, <1>6 DEF ApprovalTrue
  <1>7. CASE run.pending # c
    BY <1>1, <1>2, <1>3, <1>4, <1>5, <1>7 DEF ApprovalTrue, Terminal
  <1>. QED
    BY <1>6, <1>7

\* and the pause, which asks the user once for each call.
LEMMA PausedApproval ==
    ASSUME Inductive, Asking, NEW w \in Workers, PauseForApproval(w), NEW c \in Calls
    PROVE  /\ ApprovalTrue(c)'
           /\ Call(w) \in Calls /\ run'.pending = Call(w)
           /\ approval'[Call(w)].decision = "pending"
           /\ run'.status = "waiting_approval"
           /\ run'.cp = [worker[w].cp EXCEPT !.phase = "waiting_approval"]
           /\ run'.phase = "waiting_approval"
           /\ approval[Call(w)].decision = "none"
           /\ worker[w].cp \in Checkpoint
  <1>. USE DEF toolVars, seenVars, procVars
  <1>1. /\ TypeOK /\ CheckpointsPresent /\ run \in RunRow
        /\ approval \in [Calls -> Approval]
    BY DEF Inductive, TypeOK
  <1>2. worker[w].cp \in Checkpoint /\ worker[w].cp # None /\ Call(w) # 0
    BY <1>1, StartedTyped, NoneIsNull DEF PauseForApproval, Working, CheckpointsPresent
  <1>3. Call(w) \in Calls
    BY <1>2 DEF Checkpoint, Call
  <1>4. /\ run.status = "running" /\ run.pending = 0 /\ ~Granted(w)
        /\ worker[w].cp = run.cp
    BY DEF PauseForApproval, Leased, Asking, HoldersFit, Working, Inductive,
           LeaseholderIsCurrent
  <1>. DEFINE d == [worker[w].cp EXCEPT !.phase = "waiting_approval"]
  <1>5. d \in Checkpoint /\ d.granted = worker[w].cp.granted /\ d # None
    BY <1>2, NoneIsNull DEF Checkpoint, Phases
  <1>6. run' = [Released("waiting_approval", "waiting_approval", d)
                   EXCEPT !.pending = Call(w)]
    BY DEF PauseForApproval
  <1>. HIDE DEF d
  <1>7. /\ run'.status = "waiting_approval" /\ run'.phase = "waiting_approval"
        /\ run'.cp = d /\ run'.pending = Call(w)
    BY <1>1, <1>6 DEF Released, RunRow
  <1>8. inv[Call(w)].status = "pending_approval" /\ inv' = inv
    BY DEF PauseForApproval
  <1>9. approval[Call(w)].decision = "none" /\ ~approval[Call(w)].consumed
    <2>1. ApprovalTrue(Call(w))
      BY <1>3 DEF Asking
    <2>2. approval[Call(w)].decision \in {"none", "pending", "approve", "reject"}
      BY <1>1, <1>3 DEF Approval
    <2>. QED
      BY <1>2, <1>4, <1>8, <2>1, <2>2 DEF ApprovalTrue, Granted, Terminal
  <1>10. /\ approval'[Call(w)].decision = "pending" /\ ~approval'[Call(w)].consumed
         /\ c # Call(w) => approval'[c] = approval[c]
    BY <1>1, <1>3, <1>9 DEF PauseForApproval
  <1>11. ApprovalTrue(c)'
    <2>1. CASE c = Call(w)
      BY <1>5, <1>7, <1>8, <1>10, <2>1 DEF ApprovalTrue
    <2>2. CASE c # Call(w)
      <3>1. ApprovalTrue(c) /\ c # 0
        BY DEF Asking, Calls
      <3>. QED
        BY <1>4, <1>5, <1>7, <1>8, <1>10, <2>2, <3>1 DEF ApprovalTrue, Terminal
    <2>. QED
      BY <2>1, <2>2
  <1>. QED
    BY <1>2, <1>3, <1>7, <1>9, <1>10, <1>11 DEF d
\* A decision finds the Run as it was loaded, waiting for that very call.
LEMMA DecidedRow ==
    ASSUME Inductive, Asking, NEW e \in Deciders, Decide(e)
    PROVE  /\ request[e].row = run /\ run.status = "waiting_approval"
           /\ run.pending \in Calls /\ approval[run.pending].decision = "pending"
           /\ ~approval[run.pending].consumed
           /\ run.cp # None
           /\ run'.status = "queued" /\ run'.phase = run.phase /\ run'.cp = run.cp
           /\ run'.pending = run.pending /\ run'.output = run.output
           /\ run'.reason = run.reason
           /\ request[e].choice \in {"approve", "reject"}
           /\ approval' = [approval EXCEPT ![run.pending].decision = request[e].choice]
           /\ inv' = IF request[e].choice = "approve" THEN inv
                     ELSE [inv EXCEPT ![run.pending].status = "rejected"]
  <1>1. /\ TypeOK /\ run \in RunRow /\ request \in [Deciders -> Request \cup {None}]
    BY DEF Inductive, TypeOK
  <1>2. /\ request[e] # None /\ request[e].row.status = "waiting_approval"
        /\ approval[request[e].row.pending].decision = "pending" /\ run.cp # None
    BY DEF Decide, Decidable, CheckpointShape
  <1>3. request[e].row = run /\ run.pending \in Calls
    BY <1>2 DEF Asking, RowsLoaded
  <1>4. ~approval[run.pending].consumed
    <2>1. ApprovalTrue(run.pending)
      BY <1>3 DEF Asking
    <2>. QED
      BY <1>2, <1>3, <2>1 DEF ApprovalTrue, Terminal
  <1>5. request[e].choice \in {"approve", "reject"}
    BY <1>1, <1>2 DEF Request
  <1>6. /\ run' = Requeued(run)
        /\ approval' = [approval EXCEPT ![run.pending].decision = request[e].choice]
        /\ inv' = IF request[e].choice = "approve" THEN inv
                  ELSE [inv EXCEPT ![run.pending].status = "rejected"]
    BY <1>3 DEF Decide
  <1>7. /\ run'.status = "queued" /\ run'.phase = run.phase /\ run'.cp = run.cp
        /\ run'.pending = run.pending /\ run'.output = run.output
        /\ run'.reason = run.reason
    BY <1>1, <1>6 DEF Requeued, RunRow
  <1>. QED
    BY <1>2, <1>3, <1>4, <1>5, <1>6, <1>7

\* A decision keeps the records true.
LEMMA DecidedApproval ==
    ASSUME Inductive, Asking, NEW e \in Deciders, Decide(e), NEW c \in Calls
    PROVE  ApprovalTrue(c)'
  <1>1. approval \in [Calls -> Approval] /\ inv \in [Calls -> Invocation]
        /\ ApprovalTrue(c) /\ c # 0
    BY DEF Inductive, TypeOK, Asking, Calls
  <1>2. /\ run.status = "waiting_approval" /\ run.pending \in Calls
        /\ approval[run.pending].decision = "pending"
        /\ ~approval[run.pending].consumed
        /\ run.cp # None
        /\ run'.phase = run.phase /\ run'.cp = run.cp
        /\ run'.pending = run.pending
        /\ request[e].choice \in {"approve", "reject"}
        /\ approval' = [approval EXCEPT ![run.pending].decision = request[e].choice]
        /\ inv' = IF request[e].choice = "approve" THEN inv
                  ELSE [inv EXCEPT ![run.pending].status = "rejected"]
    BY DecidedRow
  <1>3. CASE run.pending = c
    <2>1. /\ approval'[c].decision = request[e].choice
          /\ approval'[c].consumed = approval[c].consumed
          /\ request[e].choice = "reject" => inv'[c].status = "rejected"
      BY <1>1, <1>2, <1>3 DEF Approval, Invocation
    <2>. QED
      BY <1>1, <1>2, <1>3, <2>1 DEF ApprovalTrue
  <1>4. CASE run.pending # c
    <2>1. approval'[c] = approval[c] /\ inv'[c] = inv[c]
      BY <1>1, <1>2, <1>4
    <2>2. approval[c].decision = "none" \/ approval[c].consumed
      BY <1>1, <1>4 DEF ApprovalTrue
    <2>. QED
      BY <1>1, <1>2, <1>4, <2>1, <2>2 DEF ApprovalTrue, Terminal
  <1>. QED
    BY <1>3, <1>4

\* The row that a terminated Run is left with.
LEMMA TerminatedRow ==
    ASSUME TypeOK,
           Cancel \/ \E w \in Workers : Fail(w)
    PROVE  /\ run'.status \in {"failed", "cancelled"} /\ run'.phase = "terminal"
           /\ run'.cp = None /\ run'.pending = 0 /\ run'.output = run.output
           /\ run'.reason = run.reason
           /\ CloseApproval /\ disp' = QueuedAll
           /\ run.status \in Nonterminal
           /\ UNCHANGED <<request, effects, answers, provider, seen>>
  <1>. USE DEF toolVars, seenVars, procVars
  <1>1. run \in RunRow
    BY DEF TypeOK
  <1>2. PICK st \in {"failed", "cancelled"} : Terminate(st)
    BY DEF Fail, Cancel
  <1>3. run' = [Released(st, "terminal", None) EXCEPT !.pending = 0]
        /\ CloseApproval /\ disp' = QueuedAll
    BY <1>2 DEF Terminate, SteersAfterTermination
  <1>4. /\ run'.status = st /\ run'.phase = "terminal"
        /\ run'.cp = None /\ run'.pending = 0 /\ run'.output = run.output
        /\ run'.reason = run.reason
    BY <1>1, <1>3 DEF Released, RunRow
  <1>5. /\ run.status \in Nonterminal
        /\ UNCHANGED <<request, effects, answers, provider, seen>>
    BY DEF Fail, Cancel, Leased, Nonterminal
  <1>. QED
    BY <1>3, <1>4, <1>5

\* The row that a completed Run is left with.
LEMMA FinalizedRow ==
    ASSUME TypeOK, NEW w \in Workers, Finalize(w)
    PROVE  /\ run'.status = "completed" /\ run'.phase = "terminal"
           /\ run'.cp = None /\ run'.pending = 0
           /\ run'.output = worker[w].cp.final /\ run'.reason = run.reason
           /\ answers' = Posted(worker[w].cp.final)
           /\ run.phase = "finalizing" /\ Leased(w) /\ worker[w].pc = "final"
           /\ UNCHANGED <<request, disp, approval, inv, effects, provider, seen>>
  <1>. USE DEF userVars, toolVars, seenVars, procVars
  <1>1. run \in RunRow
    BY DEF TypeOK
  <1>2. run' = [Released("completed", "terminal", None)
                  EXCEPT !.pending = 0, !.output = worker[w].cp.final]
    BY DEF Finalize
  <1>3. /\ run'.status = "completed" /\ run'.phase = "terminal"
        /\ run'.cp = None /\ run'.pending = 0
        /\ run'.output = worker[w].cp.final /\ run'.reason = run.reason
    BY <1>1, <1>2 DEF Released, RunRow
  <1>. QED
    BY <1>3 DEF Finalize, Finalizable

\* The row that waits for a retry.
LEMMA RetriedRow ==
    ASSUME TypeOK, CheckpointsPresent, LeaseholderIsCurrent,
           NEW w \in Workers, ScheduleRetry(w)
    PROVE  /\ run'.status = "retry_wait" /\ run'.phase = "retry_wait"
           /\ run.status = "running" /\ Leased(w)
           /\ worker[w].pc \in {"model", "tool", "exec", "done"}
           /\ run.cp \in Checkpoint
           /\ run'.cp = [run.cp EXCEPT !.phase = "retry_wait"]
           /\ run'.cp \in Checkpoint
           /\ run'.cp.phase = "retry_wait" /\ run'.cp.granted = run.cp.granted
           /\ run'.cp.msgs = run.cp.msgs /\ run'.cp.models = run.cp.models
           /\ run'.pending = run.pending /\ run'.output = run.output
           /\ run'.reason = run.reason
           /\ UNCHANGED <<request, disp, approval, inv, effects, answers, provider, seen>>
  <1>. USE DEF userVars, toolVars, seenVars, procVars
  <1>1. run \in RunRow
    BY DEF TypeOK
  <1>2. run.cp \in Checkpoint /\ run.status = "running" /\ Leased(w)
        /\ worker[w].pc \in {"model", "tool", "exec", "done"}
    BY StartedTyped DEF ScheduleRetry, LeaseholderIsCurrent, Working, Leased
  <1>. DEFINE d == [run.cp EXCEPT !.phase = "retry_wait"]
  <1>3. /\ d \in Checkpoint /\ d.phase = "retry_wait" /\ d.granted = run.cp.granted
        /\ d.msgs = run.cp.msgs /\ d.models = run.cp.models
    BY <1>2 DEF Checkpoint, Phases
  <1>4. run' = [Released("retry_wait", "retry_wait", d) EXCEPT !.retries = @ + 1]
    BY DEF ScheduleRetry
  <1>. HIDE DEF d
  <1>5. /\ run'.status = "retry_wait" /\ run'.phase = "retry_wait" /\ run'.cp = d
        /\ run'.pending = run.pending /\ run'.output = run.output
        /\ run'.reason = run.reason
    BY <1>1, <1>4 DEF Released, RunRow
  <1>. QED
    BY <1>2, <1>3, <1>5 DEF ScheduleRetry, d

\* The row that a restart leaves: as it was, closed, fenced or queued again.
LEMMA RestartedRow ==
    ASSUME TypeOK, Restart
    PROVE  /\ UNCHANGED <<worker, request, disp, effects, answers, provider, seen>>
           /\ \/ UNCHANGED <<run, approval, inv>>
              \/ /\ run'.status = "failed" /\ run'.phase = "terminal"
                 /\ run.status \in Nonterminal
                 /\ run'.cp = None /\ run'.pending = 0 /\ run'.output = run.output
                 /\ run'.reason = "scope_unavailable" /\ CloseApproval
              \/ /\ run'.status \in {"needs_reconciliation", "queued"}
                 /\ run.status \in {"running", "queued", "retry_wait"}
                 /\ run'.cp = run.cp
                 /\ run.cp # None => run'.phase = run.cp.phase
                 /\ run.cp = None => run'.phase \in {"reconciling", "not_started"}
                 /\ run'.pending = run.pending /\ run'.output = run.output
                 /\ run'.reason = run.reason
                 /\ UNCHANGED <<approval, inv>>
  <1>. USE DEF toolVars, seenVars, procVars
  <1>1. run \in RunRow
    BY DEF TypeOK
  <1>2. UNCHANGED <<worker, request, disp, effects, answers, provider, seen>>
    BY DEF Restart
  <1>3. CASE UNCHANGED <<run, approval, inv>>
    BY <1>2, <1>3
  <1>4. CASE /\ run.status \in Nonterminal
             /\ run' = [Released("failed", "terminal", None)
                          EXCEPT !.pending = 0, !.reason = "scope_unavailable"]
             /\ CloseApproval
    <2>1. /\ run'.status = "failed" /\ run'.phase = "terminal"
          /\ run'.cp = None /\ run'.pending = 0 /\ run'.output = run.output
          /\ run'.reason = "scope_unavailable"
      BY <1>1, <1>4 DEF Released, RunRow
    <2>. QED
      BY <1>2, <1>4, <2>1
  <1>5. CASE /\ run.status = "running" /\ ~Resumable
             /\ run' = Released("needs_reconciliation", "reconciling", run.cp)
             /\ UNCHANGED <<approval, inv>>
    <2>1. /\ run'.status = "needs_reconciliation" /\ run'.cp = run.cp
          /\ run'.phase = "reconciling" /\ run'.pending = run.pending
          /\ run'.output = run.output /\ run'.reason = run.reason
      BY <1>1, <1>5 DEF Released, RunRow
    <2>2. run.cp = None
      BY <1>5 DEF Resumable
    <2>. QED
      BY <1>2, <1>5, <2>1, <2>2
  <1>6. CASE /\ Resumable
             /\ run' = Released("queued",
                         IF run.cp = None THEN "not_started" ELSE run.cp.phase, run.cp)
             /\ UNCHANGED <<approval, inv>>
    <2>1. /\ run'.status = "queued" /\ run'.cp = run.cp
          /\ run'.phase = IF run.cp = None THEN "not_started" ELSE run.cp.phase
          /\ run'.pending = run.pending
          /\ run'.output = run.output /\ run'.reason = run.reason
      BY <1>1, <1>6 DEF Released, RunRow
    <2>2. run.status \in {"running", "queued", "retry_wait"}
      BY <1>6 DEF Resumable
    <2>. QED
      BY <1>2, <1>6, <2>1, <2>2
  <1>. QED
    BY <1>3, <1>4, <1>5, <1>6 DEF Restart

\* The steps that are no transition of the Run: what they keep.
Idles ==
    \/ \E w \in Workers : \/ Waiting(w) /\ Moves(w)
                          \/ LoseLease(w) \/ ClaimRefused(w) \/ Die(w) \/ Renew(w)
    \/ Expire \/ RecordSteer \/ Crash
    \/ \E e \in Deciders :
         \/ \E choice \in {"approve", "reject"} : LoadForDecision(e, choice)
         \/ DecideRefused(e)
    \/ UNCHANGED vars

\* The row that a claim hands out.
LEMMA ClaimedRow ==
    ASSUME TypeOK, NEW w \in Workers, Claim(w)
    PROVE  /\ run'.status = "running" /\ run'.cp = run.cp
           /\ run.status \in {"queued", "retry_wait", "running"}
           /\ run'.phase = IF run.phase = "not_started" THEN "starting" ELSE run.phase
           /\ run'.pending = run.pending /\ run'.output = run.output
           /\ run'.reason = run.reason
           /\ worker'[w].pc = "claimed" /\ worker'[w].cp = run.cp
           /\ \A v \in Workers \ {w} : worker'[v] = worker[v]
           /\ UNCHANGED <<request, disp, approval, inv, effects, answers, provider, seen>>
  <1>. USE DEF userVars, toolVars, seenVars, procVars
  <1>1. run \in RunRow /\ worker \in [Workers -> Task]
    BY DEF TypeOK
  <1>. QED
    BY <1>1 DEF Claim, ClaimableRun, RunRow, Task

\* An idle step keeps the row but for its lease.
LEMMA IdlesRow ==
    ASSUME TypeOK, CheckpointsPresent, Idles
    PROVE  /\ RowKept /\ approval' = approval
           /\ inv' = inv \/ \E w \in Workers : Waiting(w)
           /\ run' = run \/ run.status = "running"
           /\ run.status # "running" => run' = run
  <1>. USE DEF userVars, toolVars, seenVars, procVars, RowKept
  <1>1. run \in RunRow
    BY DEF TypeOK
  <1>2. ASSUME NEW w \in Workers, Waiting(w), Moves(w)
        PROVE  run' = run /\ approval' = approval
    BY <1>2 DEF Moves
  <1>3. ASSUME NEW w \in Workers, Renew(w)
        PROVE  RowKept /\ run.status = "running" /\ approval' = approval /\ inv' = inv
    BY <1>1, <1>3 DEF Renew, RunRow
  <1>4. ASSUME Expire
        PROVE  RowKept /\ run.status = "running" /\ approval' = approval /\ inv' = inv
    BY <1>1, <1>4 DEF Expire, RunRow
  <1>5. ASSUME NEW w \in Workers, LoseLease(w) \/ ClaimRefused(w) \/ Die(w)
        PROVE  run' = run /\ approval' = approval /\ inv' = inv
    BY <1>5 DEF LoseLease, ClaimRefused, Die
  <1>6. ASSUME RecordSteer \/ Crash \/ UNCHANGED vars
        PROVE  run' = run /\ approval' = approval /\ inv' = inv
    BY <1>6 DEF RecordSteer, Crash, vars
  <1>7. ASSUME NEW e \in Deciders,
               \/ \E choice \in {"approve", "reject"} : LoadForDecision(e, choice)
               \/ DecideRefused(e)
        PROVE  run' = run /\ approval' = approval /\ inv' = inv
    BY <1>7 DEF LoadForDecision, DecideRefused
  <1>. QED
    BY <1>2, <1>3, <1>4, <1>5, <1>6, <1>7 DEF Idles

\* Every step is one of these.
LEMMA AllSteps ==
    ASSUME TypeOK, CheckpointsPresent, [Next]_vars
    PROVE  \/ Idles
           \/ \E w \in Workers :
                \/ \E d, next : Wrote(w, d, next)
                \/ Claim(w) \/ RestoreApproval(w) \/ PauseForApproval(w)
                \/ Finalize(w) \/ ScheduleRetry(w) \/ Fail(w)
           \/ Cancel \/ Restart
           \/ \E e \in Deciders : Decide(e)
  <1>. DEFINE Goal == \/ Idles
                      \/ \E w \in Workers :
                           \/ \E d, next : Wrote(w, d, next)
                           \/ Claim(w) \/ RestoreApproval(w) \/ PauseForApproval(w)
                           \/ Finalize(w) \/ ScheduleRetry(w) \/ Fail(w)
                      \/ Cancel \/ Restart
                      \/ \E e \in Deciders : Decide(e)
  <1>1. ASSUME NEW w \in Workers, TaskStep(w)
        PROVE  Goal
    BY <1>1, SortedSteps DEF Idles
  <1>2. ASSUME NEW w \in Workers, Claim(w) \/ Die(w) \/ Renew(w)
        PROVE  Goal
    BY <1>2 DEF Idles
  <1>3. ASSUME NEW e \in Deciders,
               \/ \E choice \in {"approve", "reject"} : LoadForDecision(e, choice)
               \/ Decide(e) \/ DecideRefused(e)
        PROVE  Goal
    BY <1>3 DEF Idles
  <1>4. ASSUME Cancel \/ Expire \/ RecordSteer \/ Crash \/ Restart \/ UNCHANGED vars
        PROVE  Goal
    BY <1>4 DEF Idles
  <1>. HIDE DEF Goal
  <1>5. Goal
    BY <1>1, <1>2, <1>3, <1>4 DEF Next
  <1>. QED
    BY <1>5 DEF Goal
\* Every step keeps the records of the approvals true.
LEMMA ApprovalStep ==
    ASSUME Inductive, Asking, [Next]_vars, NEW c \in Calls
    PROVE  ApprovalTrue(c)'
  <1>1. /\ TypeOK /\ CheckpointsPresent /\ LeaseholderIsCurrent /\ GrantsBacked
        /\ ApprovalTrue(c) /\ PhaseMirrored
    BY DEF Inductive, Asking
  <1>2. c # 0
    BY DEF Calls
  <1>3. CASE Idles
    <2>1. RowKept /\ approval' = approval
      BY <1>1, <1>3, IdlesRow
    <2>2. /\ approval[c].decision = "pending" /\ inv[c].status = "pending_approval"
               => inv'[c].status = "pending_approval"
          /\ inv[c].status = "rejected" => inv'[c].status = "rejected"
      BY <1>1, <1>3, IdlesRow, WaitingKeepsRequests
    <2>. QED
      BY <1>1, <2>1, <2>2, ApprovalFrame DEF RowKept, ApprovalTrue
  <1>4. ASSUME NEW w \in Workers, Claim(w)
        PROVE  ApprovalTrue(c)'
    <2>1. /\ run'.status = "running" /\ run'.cp = run.cp
          /\ run.status \in {"queued", "retry_wait", "running"}
          /\ run'.phase = IF run.phase = "not_started" THEN "starting" ELSE run.phase
          /\ run'.pending = run.pending /\ approval' = approval /\ inv' = inv
      BY <1>1, <1>4, ClaimedRow
    <2>. QED
      BY <1>1, <2>1, ApprovalFrame DEF ApprovalTrue, Terminal
  <1>5. ASSUME NEW w \in Workers, Finalize(w)
        PROVE  ApprovalTrue(c)'
    <2>1. run.pending = 0
      BY <1>1, <1>5, FinalizedRow DEF Asking, HoldersFit, Working
    <2>2. /\ run'.status = "completed" /\ run'.pending = 0
          /\ approval' = approval /\ inv' = inv
      BY <1>1, <1>5, FinalizedRow
    <2>. QED
      BY <1>1, <1>2, <2>1, <2>2, ApprovalFrame DEF ApprovalTrue, Terminal
  <1>6. ASSUME NEW w \in Workers, ScheduleRetry(w)
        PROVE  ApprovalTrue(c)'
    <2>1. /\ run'.status = "retry_wait" /\ run.status = "running"
          /\ run'.cp \in Checkpoint /\ run'.cp.granted = run.cp.granted
          /\ run'.pending = run.pending /\ approval' = approval /\ inv' = inv
          /\ Leased(w) /\ worker[w].pc \in {"model", "tool", "exec", "done"}
      BY <1>1, <1>6, RetriedRow
    <2>2. run.pending = 0
      BY <2>1 DEF Asking, HoldersFit, Working
    <2>3. run'.cp # None
      BY <2>1, NoneIsNull
    <2>. QED
      BY <1>1, <1>2, <2>1, <2>2, <2>3, ApprovalFrame DEF ApprovalTrue, Terminal
  <1>7. CASE Cancel \/ \E w \in Workers : Fail(w)
    <2>1. run'.status \in Terminal /\ run'.pending = 0 /\ CloseApproval
      BY <1>1, <1>7, TerminatedRow DEF Terminal
    <2>. QED
      BY <1>1, <2>1, ApprovalEnded
  <1>8. CASE Restart
    <2>1. CASE UNCHANGED <<run, approval, inv>>
      BY <1>1, <2>1, ApprovalFrame DEF ApprovalTrue
    <2>2. CASE run'.status = "failed" /\ run'.pending = 0 /\ CloseApproval
      BY <1>1, <2>2, ApprovalEnded DEF Terminal
    <2>3. CASE /\ run'.status \in {"needs_reconciliation", "queued"}
               /\ run.status \in {"running", "queued", "retry_wait"}
               /\ run'.cp = run.cp
               /\ run.cp # None => run'.phase = run.cp.phase
               /\ run'.pending = run.pending
               /\ UNCHANGED <<approval, inv>>
      BY <1>1, <2>3, ApprovalFrame DEF ApprovalTrue, Terminal, PhaseMirrored
    <2>. QED
      BY <1>1, <1>8, <2>1, <2>2, <2>3, RestartedRow
  <1>. QED
    BY <1>1, <1>3, <1>4, <1>5, <1>6, <1>7, <1>8, AllSteps, WroteApproval,
       RestoredApproval, PausedApproval, DecidedApproval

\* A waiting Run goes on waiting for one undecided call.
LEMMA WaitsStep ==
    ASSUME Inductive, Asking, [Next]_vars
    PROVE  WaitsForOne'
  <1>1. TypeOK /\ CheckpointsPresent /\ LeaseholderIsCurrent /\ WaitsForOne
    BY DEF Inductive, Asking
  <1>2. CASE Idles
    BY <1>1, <1>2, IdlesRow DEF WaitsForOne, RowKept
  <1>3. ASSUME NEW w \in Workers, PauseForApproval(w)
        PROVE  WaitsForOne'
    <2>1. 0 \notin Calls
      BY DEF Calls
    <2>2. CASE Calls = {}
      BY <1>1, <1>3, <2>2, StartedTyped DEF PauseForApproval, Working, Checkpoint,
            CheckpointsPresent, Call
    <2>3. CASE Calls # {}
      BY <1>3, <2>3, PausedApproval DEF WaitsForOne
    <2>. QED
      BY <2>2, <2>3
  <1>4. CASE run'.status # "waiting_approval"
    BY <1>4 DEF WaitsForOne
  <1>5. ASSUME NEW w \in Workers,
               \/ \E d, next : Wrote(w, d, next)
               \/ Claim(w) \/ RestoreApproval(w) \/ Finalize(w) \/ ScheduleRetry(w)
               \/ Fail(w) \/ Cancel
        PROVE  run'.status # "waiting_approval"
    BY <1>1, <1>5, WroteRow, ClaimedRow, RestoredRow, FinalizedRow, RetriedRow,
       TerminatedRow
  <1>6. ASSUME NEW e \in Deciders, Decide(e)
        PROVE  run'.status # "waiting_approval"
    BY <1>6, DecidedRow
  <1>7. CASE Restart
    BY <1>1, <1>7, RestartedRow DEF WaitsForOne
  <1>8. CASE Cancel
    BY <1>1, <1>4, <1>8, TerminatedRow
  <1>. QED
    BY <1>1, <1>2, <1>3, <1>4, <1>5, <1>6, <1>7, <1>8, AllSteps

\* The phase column goes with the checkpoint.
LEMMA PhaseStep ==
    ASSUME Inductive, Asking, [Next]_vars
    PROVE  PhaseMirrored'
  <1>1. /\ TypeOK /\ CheckpointsPresent /\ LeaseholderIsCurrent /\ PhaseMirrored
        /\ run \in RunRow
    BY DEF Inductive, Asking, TypeOK
  <1>2. CASE Idles
    BY <1>1, <1>2, IdlesRow DEF PhaseMirrored, RowKept
  <1>3. ASSUME NEW w \in Workers, PauseForApproval(w)
        PROVE  PhaseMirrored'
    <2>1. worker[w].cp \in Checkpoint /\ worker[w].cp # None /\ Call(w) # 0
      BY <1>1, <1>3, StartedTyped, NoneIsNull
         DEF PauseForApproval, Working, CheckpointsPresent
    <2>2. Call(w) \in Calls
      BY <2>1 DEF Checkpoint, Call
    <2>3. /\ run'.cp = [worker[w].cp EXCEPT !.phase = "waiting_approval"]
          /\ run'.phase = "waiting_approval"
      BY <1>3, <2>2, PausedApproval
    <2>4. [worker[w].cp EXCEPT !.phase = "waiting_approval"].phase = "waiting_approval"
      BY <2>1 DEF Checkpoint
    <2>. QED
      BY <2>3, <2>4 DEF PhaseMirrored
  <1>4. ASSUME NEW w \in Workers, NEW d, NEW next, Wrote(w, d, next)
        PROVE  PhaseMirrored'
    BY <1>1, <1>4, WroteRow, NoneIsNull DEF PhaseMirrored, Wrote
  <1>5. ASSUME NEW w \in Workers, RestoreApproval(w)
        PROVE  PhaseMirrored'
    BY <1>1, <1>5, RestoredRow DEF PhaseMirrored
  <1>6. ASSUME NEW w \in Workers, Claim(w)
        PROVE  PhaseMirrored'
    BY <1>1, <1>6, ClaimedRow DEF PhaseMirrored
  <1>7. ASSUME NEW w \in Workers, Finalize(w) \/ ScheduleRetry(w)
        PROVE  PhaseMirrored'
    BY <1>1, <1>7, FinalizedRow, RetriedRow DEF PhaseMirrored
  <1>8. CASE Cancel \/ \E w \in Workers : Fail(w)
    BY <1>1, <1>8, TerminatedRow DEF PhaseMirrored
  <1>9. ASSUME NEW e \in Deciders, Decide(e)
        PROVE  PhaseMirrored'
    BY <1>1, <1>9, DecidedRow DEF PhaseMirrored
  <1>10. CASE Restart
    BY <1>1, <1>10, RestartedRow DEF PhaseMirrored
  <1>. QED
    BY <1>1, <1>2, <1>3, <1>4, <1>5, <1>6, <1>7, <1>8, <1>9, <1>10, AllSteps
\* A leaseholder that has started has consumed the decision.
LEMMA NoPending ==
    ASSUME Inductive, Asking, NEW w \in Workers, NEW d, NEW next, Wrote(w, d, next)
    PROVE  run.pending = 0
  <1>1. run.pending \in Calls \cup {0}
    BY DEF Inductive, TypeOK, RunRow
  <1>2. CASE worker[w].pc = "claimed"
    <2>1. run.cp = None
      BY <1>2 DEF Wrote, Inductive, LeaseholderIsCurrent
    <2>. QED
      BY <1>1, <2>1 DEF Asking, ApprovalTrue
  <1>3. CASE worker[w].pc # "claimed"
    BY <1>3 DEF Wrote, Asking, HoldersFit
  <1>. QED
    BY <1>2, <1>3

\* The leaseholder stays one who has consumed the decision and who leaves a
\* frozen answer alone.
LEMMA HolderStep ==
    ASSUME Inductive, Asking, [Next]_vars, NEW v \in Workers,
           worker'[v].pc \in Working, Leased(v)'
    PROVE  /\ worker'[v].pc # "claimed" => run'.pending = 0
           /\ run'.phase = "finalizing" => worker'[v].pc \in {"claimed", "final"}
  <1>1. /\ TypeOK /\ CheckpointsPresent /\ TokensDistinct /\ LeaseholderIsCurrent
        /\ worker \in [Workers -> Task]
    BY DEF Inductive, TypeOK
  <1>2. CASE Claim(v)
    BY <1>1, <1>2, ClaimedRow
  <1>3. ASSUME NEW d, NEW next, Wrote(v, d, next)
        PROVE  /\ run'.pending = 0
               /\ run'.phase = "finalizing" => worker'[v].pc = "final"
    BY <1>1, <1>3, WroteRow, NoPending DEF Wrote
  <1>4. CASE RestoreApproval(v)
    BY <1>1, <1>4, RestoredRow
  <1>5. CASE worker[v].pc \in Working /\ Leased(v) /\ worker'[v] = worker[v] /\ RowKept
    BY <1>5 DEF RowKept, Asking, HoldersFit
  <1>6. CASE worker[v].pc \in Working /\ Leased(v) /\ Waiting(v) /\ Moves(v)
    <2>1. run' = run /\ worker[v].cp = run.cp
      BY <1>1, <1>6, MovedRow DEF LeaseholderIsCurrent
    <2>2. CASE Resume(v)
      <3>1. worker'[v].pc = ResumePoint(run.cp) /\ run.pending = 0 /\ run.cp # None
        BY <1>1, <2>1, <2>2 DEF Resume, Task
      <3>2. run.phase = run.cp.phase
        BY <3>1 DEF Asking, PhaseMirrored
      <3>. QED
        BY <2>1, <3>1, <3>2 DEF ResumePoint
    <2>3. CASE worker[v].pc \notin {"claimed", "final"}
      <3>1. run.pending = 0 /\ run.phase # "finalizing"
        BY <1>6, <2>3 DEF Asking, HoldersFit
      <3>. QED
        BY <2>1, <3>1
    <2>. QED
      BY <1>6, <2>2, <2>3 DEF Waiting,
         AskModel, CallModel, CallRefused, RepeatCall, RefuseTool, ObserveTool, ClaimTool,
            CommitTool, SettleTool, LoseClaim, ConsumeSteers, InLoop
  <1>. QED
    BY <1>1, <1>2, <1>3, <1>4, <1>5, <1>6, HolderSteps

\* A task that has a tool's answer has just got it, or had it before.
LEMMA AnsweredTasks ==
    ASSUME Inductive, [Next]_vars, NEW v \in Workers, worker'[v].pc = "done"
    PROVE  \/ worker'[v] = worker[v]
           \/ Waiting(v) /\ Moves(v) /\ worker'[v].cp = worker[v].cp
  <1>1. /\ TypeOK /\ CheckpointsPresent /\ worker \in [Workers -> Task]
    BY DEF Inductive, TypeOK
  <1>2. ASSUME NEW w \in Workers, NEW d, NEW next, Wrote(w, d, next)
        PROVE  worker'[v] = worker[v]
    BY <1>1, <1>2, WroteRow DEF Wrote
  <1>3. ASSUME NEW w \in Workers, Claim(w) \/ RestoreApproval(w)
        PROVE  worker'[v] = worker[v]
    BY <1>1, <1>3, ClaimedRow, RestoredRow
  <1>4. ASSUME NEW w \in Workers,
               \/ PauseForApproval(w) \/ Finalize(w) \/ ScheduleRetry(w) \/ Fail(w)
               \/ LoseLease(w) \/ ClaimRefused(w) \/ Die(w)
        PROVE  worker'[v] = worker[v]
    <2>1. Leaves(w)
      BY <1>4, LeavingSteps
    <2>. QED
      BY <1>1, <2>1 DEF Leaves, IdleTask
  <1>5. ASSUME NEW w \in Workers, Waiting(w), Moves(w)
        PROVE  \/ worker'[v] = worker[v]
               \/ Waiting(v) /\ Moves(v) /\ worker'[v].cp = worker[v].cp
    BY <1>1, <1>5, MovedRow
  <1>6. ASSUME NEW w \in Workers, Renew(w)
        PROVE  worker'[v] = worker[v]
    BY <1>6 DEF Renew
  <1>7. ~Crash
    BY DEF Crash, IdleTask
  <1>8. ASSUME Expire \/ RecordSteer \/ Cancel \/ Restart \/ UNCHANGED vars
        PROVE  worker'[v] = worker[v]
    BY <1>8 DEF Expire, RecordSteer, Cancel, Restart, vars
  <1>9. ASSUME NEW e \in Deciders,
               \/ \E choice \in {"approve", "reject"} : LoadForDecision(e, choice)
               \/ DecideRefused(e) \/ Decide(e)
        PROVE  worker'[v] = worker[v]
    BY <1>9 DEF LoadForDecision, DecideRefused, Decide
  <1>. QED
    BY <1>1, <1>2, <1>3, <1>4, <1>5, <1>6, <1>7, <1>8, <1>9, AllSteps DEF Idles

\* Who reports that its call needs approval has no grant for it.
LEMMA AskerStep ==
    ASSUME Inductive, Asking, [Next]_vars, NEW v \in Workers,
           worker'[v].pc = "done", worker'[v].res = "approval"
    PROVE  ~Granted(v)'
  <1>1. worker \in [Workers -> Task]
    BY DEF Inductive, TypeOK
  <1>2. CASE worker'[v] = worker[v]
    BY <1>2 DEF Asking, HoldersFit, Granted, Call
  <1>3. CASE Waiting(v) /\ worker'[v].cp = worker[v].cp
    <2>1. ~Granted(v)
      <3>1. CASE RefuseTool(v) \/ ObserveTool(v) \/ ClaimTool(v)
        BY <1>1, <3>1 DEF RefuseTool, ObserveTool, ClaimTool, Returns, NeedsApproval, Task
      <3>2. CASE CommitTool(v) \/ SettleTool(v) \/ LoseClaim(v)
        BY <1>1, <3>2 DEF CommitTool, SettleTool, LoseClaim, LostClaimResult, Returns,
           NeedsApproval, Task
      <3>3. CASE Resume(v) \/ AskModel(v) \/ (ConsumeSteers(v) /\ PendingSteers = {})
        BY <1>1, <3>3 DEF Resume, ResumePoint, AskModel, CallModel, CallRefused,
           RepeatCall, ConsumeSteers, Task
      <3>. QED
        BY <1>3, <3>1, <3>2, <3>3 DEF Waiting
    <2>. QED
      BY <1>3, <2>1 DEF Granted, Call
  <1>. QED
    BY <1>2, <1>3, AnsweredTasks

\* What a decision has loaded stays the row, or its call is decided, or the Run
\* is over.
LEMMA LoadedStep ==
    ASSUME Inductive, Asking, [Next]_vars
    PROVE  RowsLoaded'
  <1>. SUFFICES ASSUME NEW e \in Deciders, request'[e] # None,
                       request'[e].row.status = "waiting_approval"
                PROVE  /\ request'[e].row.pending \in Calls
                       /\ approval'[request'[e].row.pending].decision # "none"
                       /\ approval'[request'[e].row.pending].decision = "pending"
                          /\ run'.cp # None => request'[e].row = run'
    BY DEF RowsLoaded
  <1>1. /\ TypeOK /\ CheckpointsPresent /\ LeaseholderIsCurrent
        /\ request \in [Deciders -> Request \cup {None}] /\ run \in RunRow
        /\ approval \in [Calls -> Approval]
    BY DEF Inductive, TypeOK
  <1>. DEFINE row == request[e].row
              Goal == /\ request'[e].row.pending \in Calls
                      /\ approval'[request'[e].row.pending].decision # "none"
                      /\ approval'[request'[e].row.pending].decision = "pending"
                          /\ run'.cp # None => request'[e].row = run'
  <1>2. ASSUME NEW f \in Deciders, NEW choice \in {"approve", "reject"},
               LoadForDecision(f, choice), f = e
        PROVE  Goal
    <2>1. request'[e].row = run /\ run' = run /\ approval' = approval
      BY <1>1, <1>2 DEF LoadForDecision
    <2>. QED
      BY <2>1 DEF Asking, WaitsForOne
  <1>3. ASSUME request'[e] = request[e], RowKept, run.status # "running" => run' = run,
               approval' = approval
        PROVE  Goal
    <2>1. /\ row.pending \in Calls
          /\ approval[row.pending].decision # "none"
          /\ approval[row.pending].decision = "pending" /\ run.cp # None => row = run
      BY <1>3 DEF Asking, RowsLoaded
    <2>. QED
      BY <1>3, <2>1 DEF RowKept
  <1>4. ASSUME request'[e] = request[e]
        PROVE  /\ row.pending \in Calls /\ row.status = "waiting_approval"
               /\ approval[row.pending].decision # "none"
               /\ approval[row.pending].decision = "pending" /\ run.cp # None => row = run
               /\ ApprovalTrue(row.pending) /\ ApprovalTrue(row.pending)'
    BY <1>4, ApprovalStep DEF Asking, RowsLoaded
  <1>5. ASSUME request'[e] = request[e],
               approval'[row.pending] = approval[row.pending],
               run.status # "waiting_approval", run.status \in Nonterminal
        PROVE  Goal
    <2>1. approval[row.pending].decision # "pending"
      BY <1>4, <1>5 DEF ApprovalTrue, Terminal, Nonterminal
    <2>. QED
      BY <1>4, <1>5, <2>1
  <1>6. ASSUME request'[e] = request[e],
               approval'[row.pending].decision = approval[row.pending].decision,
               run'.cp = None
        PROVE  Goal
    BY <1>4, <1>6
  <1>7. CASE Idles /\ request'[e] = request[e]
    BY <1>1, <1>3, <1>7, IdlesRow
  <1>8. ASSUME Idles, request'[e] # request[e]
        PROVE  Goal
    <2>1. ASSUME NEW w \in Workers, Waiting(w) /\ Moves(w)
          PROVE  request' = request
      BY <2>1 DEF Moves
    <2>2. ASSUME NEW w \in Workers, LoseLease(w) \/ ClaimRefused(w) \/ Die(w) \/ Renew(w)
          PROVE  request' = request
      BY <2>2 DEF LoseLease, ClaimRefused, Die, Renew, userVars
    <2>3. ~Crash
      BY DEF Crash
    <2>4. Expire \/ RecordSteer \/ UNCHANGED vars => request' = request
      BY DEF Expire, RecordSteer, vars, userVars
    <2>5. ASSUME NEW f \in Deciders, NEW choice \in {"approve", "reject"},
                 LoadForDecision(f, choice)
          PROVE  Goal
      <3>1. f = e
        BY <1>1, <1>8, <2>5 DEF LoadForDecision
      <3>. QED
        BY <1>2, <2>5, <3>1
    <2>6. ASSUME NEW f \in Deciders, DecideRefused(f)
          PROVE  request'[e] = request[e]
      BY <1>1, <2>6 DEF DecideRefused
    <2>. HIDE DEF Goal
    <2>. QED
      BY <1>8, <2>1, <2>2, <2>3, <2>4, <2>5, <2>6 DEF Idles
  <1>9. ASSUME NEW w \in Workers,
               \/ \E d, next : Wrote(w, d, next)
               \/ Claim(w) \/ ScheduleRetry(w)
        PROVE  Goal
    <2>1. /\ request' = request /\ approval' = approval
          /\ run.status \in {"running", "queued", "retry_wait"}
      BY <1>1, <1>9, WroteRow, ClaimedRow, RetriedRow DEF Wrote
    <2>. QED
      BY <1>5, <2>1 DEF Nonterminal
  <1>10. ASSUME NEW w \in Workers, Finalize(w)
         PROVE  Goal
    BY <1>1, <1>6, <1>10, FinalizedRow
  <1>11. ASSUME Cancel \/ \E w \in Workers : Fail(w)
         PROVE  Goal
    <2>1. request' = request /\ run'.cp = None /\ CloseApproval
      BY <1>1, <1>11, TerminatedRow
    <2>2. \A c \in Calls : approval'[c].decision = approval[c].decision
      BY <1>1, <2>1, ClosingKeeps
    <2>. QED
      BY <1>4, <1>6, <2>1, <2>2
  <1>12. ASSUME NEW w \in Workers, RestoreApproval(w)
         PROVE  Goal
    <2>1. request' = request /\ run.status = "running" /\ run.pending \in Calls
          /\ approval[run.pending].decision \in {"approve", "reject"}
          /\ approval' = [approval EXCEPT ![run.pending].consumed = TRUE]
      BY <1>1, <1>12, RestoredRow DEF RestoreApproval
    <2>2. \A c \in Calls : approval'[c].decision = approval[c].decision
      BY <1>1, <2>1 DEF Approval
    <2>3. approval[row.pending].decision # "pending"
      BY <1>4, <2>1 DEF ApprovalTrue, Terminal
    <2>. QED
      BY <1>4, <2>1, <2>2, <2>3
  <1>13. ASSUME NEW w \in Workers, PauseForApproval(w)
         PROVE  Goal
    <2>1. request' = request /\ run.status = "running"
      BY <1>13 DEF PauseForApproval, Leased
    <2>2. row.pending \in Calls /\ approval[row.pending].decision \notin {"none", "pending"}
      BY <1>4, <2>1 DEF ApprovalTrue, Terminal
    <2>3. approval[Call(w)].decision = "none"
      BY <1>13, <2>2, PausedApproval
    <2>4. approval'[row.pending] = approval[row.pending]
      BY <1>1, <1>13, <2>2, <2>3 DEF PauseForApproval
    <2>. QED
      BY <2>1, <2>2, <2>4
  <1>14. ASSUME NEW f \in Deciders, Decide(f)
         PROVE  Goal
    <2>1. /\ run.status = "waiting_approval"
          /\ run.pending \in Calls /\ approval[run.pending].decision = "pending"
          /\ request[f].choice \in {"approve", "reject"}
          /\ approval' = [approval EXCEPT ![run.pending].decision = request[f].choice]
      BY <1>14, DecidedRow
    <2>2. request'[e] = request[e]
      BY <1>1, <1>14 DEF Decide
    <2>3. /\ row.pending \in Calls /\ approval[row.pending].decision # "none"
          /\ approval[row.pending].decision = "pending" => row.pending = run.pending
      BY <1>4, <2>1, <2>2 DEF ApprovalTrue, Terminal
    <2>4. approval'[row.pending].decision \notin {"none", "pending"}
      BY <1>1, <2>1, <2>3 DEF Approval
    <2>. QED
      BY <2>2, <2>3, <2>4
  <1>15. ASSUME Restart
         PROVE  Goal
    <2>0. request' = request
      BY <1>1, <1>15, RestartedRow
    <2>1. CASE UNCHANGED <<run, approval, inv>>
      BY <1>3, <2>0, <2>1 DEF RowKept
    <2>2. CASE run'.cp = None /\ CloseApproval
      <3>1. \A c \in Calls : approval'[c].decision = approval[c].decision
        BY <1>1, <2>2, ClosingKeeps
      <3>. QED
        BY <1>4, <1>6, <2>0, <2>2, <3>1
    <2>3. CASE /\ run.status \in {"running", "queued", "retry_wait"}
               /\ UNCHANGED <<approval, inv>>
      BY <1>5, <2>0, <2>3 DEF Nonterminal
    <2>. QED
      BY <1>1, <1>15, <2>1, <2>2, <2>3, RestartedRow
  <1>. HIDE DEF Goal, row
  <1>16. Idles => Goal
    BY <1>7, <1>8 DEF Goal
  <1>17. Goal
    BY <1>1, <1>9, <1>10, <1>11, <1>12, <1>13, <1>14, <1>15, <1>16, AllSteps
  <1>. QED
    BY <1>17 DEF Goal

\* The invariant holds at first and is kept by every step.
LEMMA AskingInit == Init => Asking
  <1>. SUFFICES ASSUME Init PROVE Asking
    OBVIOUS
  <1>1. \A c \in Calls : ApprovalTrue(c)
    BY DEF Init, ApprovalTrue, Calls
  <1>2. WaitsForOne /\ PhaseMirrored /\ HoldersFit /\ RowsLoaded
    BY DEF Init, WaitsForOne, PhaseMirrored, HoldersFit, RowsLoaded, IdleTask, Working
  <1>. QED
    BY <1>1, <1>2 DEF Asking

\* The same for a step.
LEMMA AskingStep == Inductive /\ Asking /\ [Next]_vars => Asking'
  <1>. SUFFICES ASSUME Inductive, Asking, [Next]_vars PROVE Asking'
    OBVIOUS
  <1>1. HoldersFit'
    BY HolderStep, AskerStep DEF HoldersFit
  <1>. QED
    BY <1>1, ApprovalStep, WaitsStep, PhaseStep, LoadedStep DEF Asking

\* The records of approvals, rows and tasks fit together in every state.
THEOREM AskingInvariant == Spec => []Asking
  BY InitInductive, StepInductive, AskingInit, AskingStep, PTL DEF Spec

\* A Run that waits for its user has an approval the user can still decide: open,
\* with its invocation and its checkpoint in place, whatever crashed, expired or
\* was decided meanwhile.
THEOREM QuestionsAnswerable == Spec => []WaitingIsDecidable
  <1>1. Inductive /\ Asking => WaitingIsDecidable
    <2>. SUFFICES ASSUME Inductive, Asking, run.status = "waiting_approval"
                  PROVE  /\ run.pending \in Calls
                         /\ approval[run.pending].decision = "pending"
                         /\ ~approval[run.pending].consumed
                         /\ inv[run.pending].status = "pending_approval"
                         /\ run.cp # None
      BY DEF WaitingIsDecidable
    <2>1. run.pending \in Calls /\ approval[run.pending].decision = "pending"
      BY DEF Asking, WaitsForOne
    <2>2. ApprovalTrue(run.pending)
      BY <2>1 DEF Asking
    <2>. QED
      BY <2>1, <2>2 DEF ApprovalTrue
  <1>. QED
    BY <1>1, Invariance, AskingInvariant, PTL

\* A frozen answer stays as it is until it is committed or the Run is closed.
THEOREM AnswerStaysFrozen == Spec => FrozenAnswerKept
  <1>1. ASSUME Inductive, Asking, [Next]_vars,
               run.phase = "finalizing", run'.status \in Nonterminal
        PROVE  run'.phase = "finalizing" /\ run'.cp.final = run.cp.final
    <2>1. TypeOK /\ CheckpointsPresent /\ LeaseholderIsCurrent
      BY <1>1 DEF Inductive
    <2>2. CASE Idles
      BY <1>1, <2>1, <2>2, IdlesRow DEF RowKept
    <2>3. ASSUME NEW w \in Workers, worker[w].pc \in Working, Leased(w)
          PROVE  worker[w].pc \in {"claimed", "final"}
      BY <1>1, <2>3 DEF Asking, HoldersFit
    <2>4. ASSUME NEW w \in Workers, NEW d, NEW next, Wrote(w, d, next)
          PROVE  FALSE
      <3>1. worker[w].pc = "claimed" /\ worker[w].cp = None /\ run.cp = None
        BY <2>1, <2>3, <2>4 DEF Wrote, LeaseholderIsCurrent
      <3>. QED
        BY <1>1, <3>1 DEF Asking, PhaseMirrored
    <2>5. ASSUME NEW w \in Workers, PauseForApproval(w) \/ ScheduleRetry(w)
          PROVE  FALSE
      BY <2>3, <2>5 DEF PauseForApproval, ScheduleRetry, Working
    <2>6. ASSUME NEW w \in Workers, RestoreApproval(w)
          PROVE  FALSE
      <3>1. run.pending \in Calls
        BY <2>1, <2>6, RestoredRow
      <3>. QED
        BY <1>1, <3>1 DEF Asking, ApprovalTrue
    <2>7. ASSUME NEW w \in Workers, Finalize(w) \/ Fail(w) \/ Cancel
          PROVE  FALSE
      BY <1>1, <2>1, <2>7, FinalizedRow, TerminatedRow DEF Nonterminal
    <2>8. ASSUME NEW w \in Workers, Claim(w)
          PROVE  run'.phase = "finalizing" /\ run'.cp = run.cp
      BY <1>1, <2>1, <2>8, ClaimedRow
    <2>9. ASSUME NEW e \in Deciders, Decide(e)
          PROVE  run'.phase = "finalizing" /\ run'.cp = run.cp
      BY <1>1, <2>9, DecidedRow
    <2>10. ASSUME Restart
           PROVE  run'.phase = "finalizing" /\ run'.cp = run.cp
      BY <1>1, <2>1, <2>10, RestartedRow DEF Asking, PhaseMirrored, Nonterminal
    <2>11. ~Cancel
      BY <1>1, <2>1, TerminatedRow DEF Nonterminal
    <2>. QED
      BY <1>1, <2>1, <2>2, <2>4, <2>5, <2>6, <2>7, <2>8, <2>9, <2>10, <2>11, AllSteps
  <1>2. Inductive /\ Asking /\ [Next]_vars =>
          [run.phase = "finalizing" /\ run'.status \in Nonterminal =>
             run'.phase = "finalizing" /\ run'.cp.final = run.cp.final]_vars
    BY <1>1
  <1>. QED
    BY <1>2, Invariance, AskingInvariant, PTL DEF Spec, FrozenAnswerKept
-----------------------------------------------------------------------------
(* Steers.                                                                 *)

Applied == {s \in Steers : disp[s] = "applied"}

\* The messages of the durable checkpoint.
Heard == IF run.cp = None THEN <<>> ELSE run.cp.msgs

\* No two messages carry the same steer.
Disjoint(msgs) ==
    \A i, j \in 1 .. Len(msgs) :
        msgs[i][1] = "steers" /\ msgs[j][1] = "steers" /\ i # j
            => msgs[i][2] \cap msgs[j][2] = {}

\* The applied steers are those the durable checkpoint carries, and a request to
\* the model has carried them when its text becomes the answer.
Steering ==
    /\ run.status \in Nonterminal => SteersIn(Heard) = Applied /\ Disjoint(Heard)
    /\ NoSteerStranded
    /\ \A w \in Workers : worker[w].pc = "model" => SteersIn(Said(w)) \subseteq seen
    /\ run.phase = "finalizing" =>
         /\ run.cp.final \in Texts \ {"none"}
         /\ run.cp.final # "limit" => Applied \subseteq seen
    /\ run.status = "completed" =>
         /\ run.output \in Texts \ {"none"}
         /\ run.output # "limit" => Applied \subseteq seen
    /\ AnswerOnce

\* What a sequence of messages carries, by membership.
LEMMA Carried ==
    ASSUME NEW msgs \in Seq(Messages), NEW s
    PROVE  s \in SteersIn(msgs) <=>
             \E i \in 1 .. Len(msgs) : msgs[i][1] = "steers" /\ s \in msgs[i][2]
  <1>1. DOMAIN msgs = 1 .. Len(msgs)
    OBVIOUS
  <1>. QED
    BY <1>1 DEF SteersIn

\* A message of steers adds them, another message adds none.
LEMMA CarriedAppend ==
    ASSUME NEW msgs \in Seq(Messages), NEW m \in Messages
    PROVE  SteersIn(Append(msgs, m)) =
             SteersIn(msgs) \cup (IF m[1] = "steers" THEN m[2] ELSE {})
  <1>. DEFINE more == Append(msgs, m)
  <1>1. /\ more \in Seq(Messages) /\ Len(more) = Len(msgs) + 1 /\ Len(msgs) \in Nat
        /\ \A i \in 1 .. Len(msgs) : more[i] = msgs[i]
        /\ more[Len(msgs) + 1] = m
    OBVIOUS
  <1>. HIDE DEF more
  <1>2. ASSUME NEW s
        PROVE  s \in SteersIn(more) <=>
                 s \in SteersIn(msgs) \cup (IF m[1] = "steers" THEN m[2] ELSE {})
    <2>1. s \in SteersIn(more) <=>
            \E i \in 1 .. Len(more) : more[i][1] = "steers" /\ s \in more[i][2]
      BY <1>1, Carried
    <2>2. s \in SteersIn(msgs) <=>
            \E i \in 1 .. Len(msgs) : msgs[i][1] = "steers" /\ s \in msgs[i][2]
      BY Carried
    <2>3. 1 .. Len(more) = 1 .. Len(msgs) \cup {Len(msgs) + 1}
      BY <1>1
    <2>. QED
      BY <1>1, <2>1, <2>2, <2>3
  <1>3. SteersIn(more) = SteersIn(msgs) \cup (IF m[1] = "steers" THEN m[2] ELSE {})
    BY <1>2
  <1>. QED
    BY <1>3 DEF more

\* Messages stay disjoint when what is added was carried by none.
LEMMA DisjointAppend ==
    ASSUME NEW msgs \in Seq(Messages), NEW m \in Messages, Disjoint(msgs),
           m[1] = "steers" => m[2] \cap SteersIn(msgs) = {}
    PROVE  Disjoint(Append(msgs, m))
  <1>. DEFINE more == Append(msgs, m)
  <1>1. /\ Len(more) = Len(msgs) + 1 /\ Len(msgs) \in Nat
        /\ \A i \in 1 .. Len(msgs) : more[i] = msgs[i]
        /\ more[Len(msgs) + 1] = m
    OBVIOUS
  <1>. HIDE DEF more
  <1>2. ASSUME NEW i \in 1 .. Len(msgs), m[1] = "steers", msgs[i][1] = "steers"
        PROVE  msgs[i][2] \cap m[2] = {}
    <2>1. \A s : s \in msgs[i][2] => s \in SteersIn(msgs)
      BY <1>2, Carried
    <2>. QED
      BY <1>2, <2>1
  <1>3. SUFFICES ASSUME NEW i \in 1 .. Len(more), NEW j \in 1 .. Len(more),
                        more[i][1] = "steers", more[j][1] = "steers", i # j
                 PROVE  more[i][2] \cap more[j][2] = {}
    BY DEF Disjoint, more
  <1>4. (i \in 1 .. Len(msgs) \/ i = Len(msgs) + 1)
        /\ (j \in 1 .. Len(msgs) \/ j = Len(msgs) + 1)
    BY <1>1
  <1>5. CASE i \in 1 .. Len(msgs) /\ j \in 1 .. Len(msgs)
    BY <1>1, <1>3, <1>5 DEF Disjoint
  <1>6. CASE i \in 1 .. Len(msgs) /\ j = Len(msgs) + 1
    BY <1>1, <1>2, <1>3, <1>6
  <1>7. CASE j \in 1 .. Len(msgs) /\ i = Len(msgs) + 1
    BY <1>1, <1>2, <1>3, <1>7
  <1>. QED
    BY <1>3, <1>4, <1>5, <1>6, <1>7

\* Applying the pending steers adds them to the applied ones; queueing them adds
\* none; both leave none pending.
LEMMA Dispositions ==
    ASSUME TypeOK
    PROVE  /\ disp' = AppliedAll => Applied' = Applied \cup PendingSteers
                                    /\ PendingSteers' = {}
           /\ disp' = QueuedAll => Applied' = Applied /\ PendingSteers' = {}
           /\ disp' = disp => Applied' = Applied /\ PendingSteers' = PendingSteers
  BY DEF TypeOK, Applied, PendingSteers, AppliedAll, QueuedAll

\* The messages of the durable checkpoint are messages.
LEMMA HeardTyped ==
    ASSUME TypeOK
    PROVE  Heard \in Seq(Messages)
  BY EmptyTyped DEF TypeOK, RunRow, Checkpoint, Heard

\* A write that folds steers appends them to what was heard.
LEMMA WroteSteering ==
    ASSUME Inductive, Asking, Steering, NEW w \in Workers, NEW d, NEW next,
           Wrote(w, d, next)
    PROVE  Steering'
  <1>1. /\ TypeOK /\ LeaseholderIsCurrent /\ worker \in [Workers -> Task]
    BY DEF Inductive, TypeOK
  <1>2. /\ run'.status = "running" /\ run.status = "running"
        /\ run'.phase = d.phase /\ run'.cp = d
        /\ worker'[w].pc = next /\ worker'[w].cp = d
        /\ \A v \in Workers \ {w} : worker'[v] = worker[v]
        /\ run'.reason = run.reason
    BY <1>1, WroteRow
  <1>3. worker[w].cp = run.cp /\ d \in Checkpoint /\ d # None
    BY <1>1, NoneIsNull DEF LeaseholderIsCurrent, Wrote
  <1>4. Said(w) = Heard /\ Heard' = d.msgs
    BY <1>2, <1>3 DEF Said, Heard
  <1>5. SteersIn(Heard) = Applied /\ Disjoint(Heard) /\ Heard \in Seq(Messages)
    BY <1>1, <1>2, HeardTyped DEF Steering, Nonterminal
  <1>6. /\ SteersIn(Heard') = Applied' /\ Disjoint(Heard')
        /\ next = "final" => Applied' = Applied /\ PendingSteers' = {}
    <2>1. CASE disp' = disp /\ d.msgs = Said(w)
      <3>1. Applied' = Applied /\ PendingSteers' = PendingSteers
        BY <1>1, <2>1, Dispositions
      <3>2. next = "final" => PendingSteers = {}
        BY DEF Wrote
      <3>. QED
        BY <1>4, <1>5, <2>1, <3>1, <3>2
    <2>2. CASE /\ disp' = disp /\ next = "loop"
               /\ worker[w].pc = "done" /\ worker[w].res \in {"ok", "error"}
               /\ d.msgs = Append(Said(w), <<worker[w].res, Call(w)>>)
      <3>1. Call(w) \in Calls
        <4>1. Call(w) # 0 /\ worker[w].cp \in Checkpoint
          BY <2>2, StartedTyped DEF Inductive, CheckpointsPresent, Working
        <4>. QED
          BY <4>1 DEF Call, Checkpoint
      <3>2. <<worker[w].res, Call(w)>> \in Messages
        BY <2>2, <3>1 DEF Messages
      <3>3. Applied' = Applied
        BY <1>1, <2>2, Dispositions
      <3>4. SteersIn(d.msgs) = Applied /\ Disjoint(d.msgs)
        BY <1>4, <1>5, <2>2, <3>2, CarriedAppend, DisjointAppend
      <3>. QED
        BY <1>4, <2>2, <3>3, <3>4
    <2>3. CASE /\ disp' = AppliedAll /\ next # "final"
               /\ d.msgs = Append(Said(w), <<"steers", PendingSteers>>)
      <3>1. <<"steers", PendingSteers>> \in Messages
        BY DEF Messages, PendingSteers
      <3>2. PendingSteers \cap Applied = {}
        BY DEF PendingSteers, Applied
      <3>3. Applied' = Applied \cup PendingSteers
        BY <1>1, <2>3, Dispositions
      <3>4. SteersIn(d.msgs) = Applied' /\ Disjoint(d.msgs)
        BY <1>4, <1>5, <2>3, <3>1, <3>2, <3>3, CarriedAppend, DisjointAppend
      <3>. QED
        BY <1>4, <2>3, <3>4
    <2>. QED
      BY <2>1, <2>2, <2>3 DEF Wrote
  <1>7. seen' = seen /\ answers' = answers
    BY DEF Wrote
  <1>8. ASSUME NEW v \in Workers, worker'[v].pc = "model"
        PROVE  SteersIn(Said(v))' \subseteq seen'
    <2>1. v # w
      BY <1>2, <1>8 DEF Wrote
    <2>2. worker'[v] = worker[v]
      BY <1>2, <2>1
    <2>3. SteersIn(Said(v)) \subseteq seen
      BY <1>8, <2>2 DEF Steering
    <2>. QED
      BY <1>7, <2>2, <2>3 DEF Said
  <1>9. d.phase = "finalizing" => next = "final"
    BY DEF Wrote
  <1>10. next = "final" => /\ d.final \in Texts \ {"none"}
                           /\ d.final # "limit" => Applied \subseteq seen
    <2>1. next = "final" => /\ d.final \in Texts \ {"none"}
                            /\ d.final # "limit" => worker[w].pc = "model"
      BY DEF Wrote
    <2>2. worker[w].pc = "model" => Applied \subseteq seen
      BY <1>4, <1>5 DEF Steering
    <2>. QED
      BY <2>1, <2>2
  <1>11. NoSteerStranded'
    BY <1>2, <1>6, <1>9 DEF NoSteerStranded, Terminal
  <1>12. AnswerOnce'
    BY <1>2, <1>7 DEF Steering, AnswerOnce
  <1>. QED
    BY <1>2, <1>6, <1>7, <1>8, <1>9, <1>10, <1>11, <1>12 DEF Steering

\* A step that keeps what was heard keeps the rest.
LEMMA SteeringFrame ==
    ASSUME Steering, run'.status \in Nonterminal => run.status \in Nonterminal,
           run'.status \in Nonterminal => Heard' = Heard,
           Applied' = Applied,
           seen \subseteq seen',
           NoSteerStranded',
           \A w \in Workers : worker'[w].pc = "model" => SteersIn(Said(w))' \subseteq seen',
           run'.phase = "finalizing" =>
              run.phase = "finalizing" /\ run'.cp.final = run.cp.final,
           run'.status = "completed" =>
              run.status = "completed" /\ run'.output = run.output,
           run.status = "completed" => run'.status = "completed",
           answers' = answers
    PROVE  Steering'
  <1>1. run'.status \in Nonterminal => SteersIn(Heard') = Applied' /\ Disjoint(Heard')
    BY DEF Steering
  <1>2. AnswerOnce'
    BY DEF Steering, AnswerOnce
  <1>3. run'.phase = "finalizing" =>
         /\ run'.cp.final \in Texts \ {"none"}
         /\ run'.cp.final # "limit" => Applied' \subseteq seen'
    BY DEF Steering
  <1>4. run'.status = "completed" =>
         /\ run'.output \in Texts \ {"none"}
         /\ run'.output # "limit" => Applied' \subseteq seen'
    BY DEF Steering
  <1>. QED
    BY <1>1, <1>2, <1>3, <1>4 DEF Steering
\* Steps that keep the row, but for its lease, and what was applied.
LEMMA SteeringKept ==
    ASSUME Inductive, Steering, RowKept, Applied' = Applied,
           PendingSteers' = PendingSteers, answers' = answers, seen \subseteq seen',
           \A w \in Workers : worker'[w].pc = "model" =>
              SteersIn(Said(w))' \subseteq seen'
    PROVE  Steering'
  <1>1. NoSteerStranded'
    BY DEF Steering, NoSteerStranded, RowKept
  <1>2. Heard' = Heard
    BY DEF Heard, RowKept
  <1>. QED
    BY <1>1, <1>2, SteeringFrame DEF RowKept

\* A task that stands at the model has sent what its checkpoint carries.
LEMMA SenderKept ==
    ASSUME Steering, seen' = seen, NEW w \in Workers,
           worker'[w] = worker[w] \/ worker'[w].pc # "model",
           worker'[w].pc = "model"
    PROVE  SteersIn(Said(w))' \subseteq seen'
  <1>1. worker'[w] = worker[w]
    OBVIOUS
  <1>2. Said(w)' = Said(w)
    BY <1>1 DEF Said
  <1>. QED
    BY <1>1, <1>2 DEF Steering

\* Waiting for the model or a tool, and sending the request.
LEMMA WaitingSteering ==
    ASSUME Inductive, Steering, NEW w \in Workers, Waiting(w), Moves(w)
    PROVE  Steering'
  <1>. USE DEF userVars, toolVars, seenVars, procVars
  <1>1. TypeOK /\ worker \in [Workers -> Task]
    BY DEF Inductive, TypeOK
  <1>2. /\ run' = run /\ worker'[w].cp = worker[w].cp
        /\ \A v \in Workers \ {w} : worker'[v] = worker[v]
    BY <1>1, MovedRow
  <1>3. disp' = disp /\ answers' = answers
    BY DEF Waiting, Resume,
       AskModel, CallModel, CallRefused, RepeatCall, RefuseTool, ObserveTool, ClaimTool,
           CommitTool, SettleTool, LoseClaim, ConsumeSteers
  <1>4. Applied' = Applied /\ PendingSteers' = PendingSteers
    BY <1>1, <1>3, Dispositions
  <1>5. CASE CallModel(w) \/ RepeatCall(w)
    <2>1. seen' = seen \cup SteersIn(Said(w))
      <3>1. worker[w].cp # None
        BY <1>5 DEF CallModel, RepeatCall, Inductive, CheckpointsPresent, Working
      <3>. QED
        BY <1>5, <3>1 DEF CallModel, RepeatCall, Reads, Said
    <2>2. ASSUME NEW v \in Workers, worker'[v].pc = "model"
          PROVE  SteersIn(Said(v))' \subseteq seen'
      <3>1. CASE v = w
        <4>1. Said(v)' = Said(w)
          BY <1>2, <3>1 DEF Said
        <4>. QED
          BY <2>1, <4>1
      <3>2. CASE v # w
        <4>1. Said(v)' = Said(v) /\ worker[v].pc = "model"
          BY <1>2, <2>2, <3>2 DEF Said
        <4>. QED
          BY <2>1, <4>1 DEF Steering
      <3>. QED
        BY <3>1, <3>2
    <2>. QED
      BY <1>2, <1>3, <1>4, <2>1, <2>2, SteeringKept DEF RowKept
  <1>6. CASE ~(CallModel(w) \/ RepeatCall(w))
    <2>1. seen' = seen /\ worker'[w].pc # "model"
      BY <1>1, <1>6 DEF Waiting, AskModel, CallRefused,
         Resume, ResumePoint, RefuseTool, ObserveTool,
         ClaimTool, CommitTool, SettleTool, LoseClaim, ConsumeSteers, Returns, Task
    <2>2. \A v \in Workers : worker'[v].pc = "model" =>
             SteersIn(Said(v))' \subseteq seen'
      BY <1>2, <2>1, SenderKept
    <2>. QED
      BY <1>2, <1>3, <1>4, <2>1, <2>2, SteeringKept DEF RowKept
  <1>. QED
    BY <1>5, <1>6

\* A steer is recorded as pending only for a Run that will look again.
LEMMA RecordSteering ==
    ASSUME Inductive, Steering, RecordSteer
    PROVE  Steering'
  <1>. USE DEF userVars, toolVars, seenVars, procVars
  <1>1. TypeOK
    BY DEF Inductive
  <1>2. PICK s \in Steers :
          /\ disp[s] = "unsent"
          /\ disp' = [disp EXCEPT ![s] = IF LateSteer THEN "queued" ELSE "pending"]
    BY DEF RecordSteer
  <1>3. UNCHANGED <<run, worker, answers, seen>>
    BY DEF RecordSteer
  <1>4. Applied' = Applied
    BY <1>1, <1>2 DEF TypeOK, Applied
  <1>5. LateSteer => PendingSteers' = PendingSteers
    BY <1>1, <1>2 DEF TypeOK, PendingSteers
  <1>6. run.status \in {"queued", "running", "completed"}
    BY DEF RecordSteer
  <1>7. NoSteerStranded'
    <2>1. CASE LateSteer
      BY <1>3, <1>5, <2>1 DEF Steering, NoSteerStranded
    <2>2. CASE ~LateSteer
      BY <1>3, <1>6, <2>2 DEF NoSteerStranded, LateSteer, Terminal
    <2>. QED
      BY <2>1, <2>2
  <1>8. Heard' = Heard /\ \A w \in Workers : Said(w)' = Said(w)
    BY <1>3 DEF Heard, Said
  <1>9. \A w \in Workers : worker'[w].pc = "model" =>
           SteersIn(Said(w))' \subseteq seen'
    BY <1>3, <1>8 DEF Steering
  <1>. QED
    BY <1>3, <1>4, <1>7, <1>8, <1>9, SteeringFrame

\* A step that is no transition of the Run keeps its steers true.
LEMMA IdlesSteering ==
    ASSUME Inductive, Steering, Idles
    PROVE  Steering'
  <1>. USE DEF userVars, toolVars, seenVars, procVars
  <1>1. TypeOK /\ CheckpointsPresent /\ worker \in [Workers -> Task]
    BY DEF Inductive, TypeOK
  <1>2. RowKept
    BY <1>1, IdlesRow
  <1>3. ASSUME UNCHANGED <<disp, answers, seen>>,
               \A w \in Workers : worker'[w] = worker[w] \/ worker'[w].pc # "model"
        PROVE  Steering'
    <2>1. Applied' = Applied /\ PendingSteers' = PendingSteers
      BY <1>1, <1>3, Dispositions
    <2>2. \A w \in Workers : worker'[w].pc = "model" =>
             SteersIn(Said(w))' \subseteq seen'
      BY <1>3, SenderKept
    <2>. QED
      BY <1>2, <1>3, <2>1, <2>2, SteeringKept
  <1>4. ASSUME NEW w \in Workers,
               LoseLease(w) \/ ClaimRefused(w) \/ Die(w) \/ Renew(w)
        PROVE  Steering'
    <2>1. UNCHANGED <<disp, answers, seen>>
      BY <1>4 DEF LoseLease, ClaimRefused, Die, Renew
    <2>2. \A v \in Workers : worker'[v] = worker[v] \/ worker'[v].pc # "model"
      BY <1>1, <1>4 DEF LoseLease, ClaimRefused, Die, Renew, Stop, IdleTask
    <2>. QED
      BY <1>3, <2>1, <2>2
  <1>5. ASSUME \/ Expire \/ Crash \/ UNCHANGED vars
               \/ \E e \in Deciders :
                    \/ \E choice \in {"approve", "reject"} : LoadForDecision(e, choice)
                    \/ DecideRefused(e)
        PROVE  Steering'
    <2>1. UNCHANGED <<disp, answers, seen>>
      BY <1>5 DEF Expire, Crash, LoadForDecision, DecideRefused, vars
    <2>2. \A v \in Workers : worker'[v] = worker[v] \/ worker'[v].pc # "model"
      BY <1>1, <1>5 DEF Expire, Crash, LoadForDecision, DecideRefused, vars, IdleTask
    <2>. QED
      BY <1>3, <2>1, <2>2
  <1>. QED
    BY <1>4, <1>5, WaitingSteering, RecordSteering DEF Idles
\* A transition leaves the other tasks alone, and none at the model by itself.
LEMMA SendersKept ==
    ASSUME Steering, seen' = seen, NEW w \in Workers,
           \A v \in Workers \ {w} : worker'[v] = worker[v],
           worker'[w].pc # "model"
    PROVE  \A v \in Workers : worker'[v].pc = "model" =>
              SteersIn(Said(v))' \subseteq seen'
  BY SenderKept

\* Consuming a decision adds at most the refusal of a call to what was heard.
LEMMA RestoredSteering ==
    ASSUME Inductive, Asking, Steering, NEW w \in Workers, RestoreApproval(w)
    PROVE  Steering'
  <1>. USE DEF userVars, toolVars, seenVars, procVars
  <1>. DEFINE d == Decided(worker[w].cp)
  <1>1. /\ TypeOK /\ worker \in [Workers -> Task] /\ LeaseholderIsCurrent
    BY DEF Inductive, TypeOK
  <1>2. /\ d \in Checkpoint /\ run.pending \in Calls
        /\ run'.status = "running" /\ run.status = "running"
        /\ run'.phase = d.phase /\ run'.cp = d
        /\ worker'[w].pc = "loop"
        /\ \A v \in Workers \ {w} : worker'[v] = worker[v]
        /\ d.phase \in {"awaiting_model", "tool_ready"}
    BY <1>1, RestoredRow
  <1>3. /\ worker[w].cp = run.cp /\ run.cp # None /\ run.cp \in Checkpoint
        /\ UNCHANGED <<disp, answers, seen>>
    BY <1>1 DEF RestoreApproval, LeaseholderIsCurrent, Working, TypeOK, RunRow
  <1>4. \/ d.msgs = run.cp.msgs
        \/ d.msgs = Append(run.cp.msgs, <<"error", run.pending>>)
    BY <1>3 DEF Decided, Checkpoint
  <1>5. d # None
    BY <1>2, NoneIsNull
  <1>. HIDE DEF d
  <1>6. Heard = run.cp.msgs /\ Heard' = d.msgs /\ Heard \in Seq(Messages)
    BY <1>1, <1>2, <1>3, <1>5, HeardTyped DEF Heard
  <1>7. SteersIn(Heard) = Applied /\ Disjoint(Heard)
    BY <1>2 DEF Steering, Nonterminal
  <1>8. <<"error", run.pending>> \in Messages
    BY <1>2 DEF Messages
  <1>9. SteersIn(Heard') = SteersIn(Heard) /\ Disjoint(Heard')
    BY <1>4, <1>6, <1>7, <1>8, CarriedAppend, DisjointAppend
  <1>10. Applied' = Applied
    BY <1>1, <1>3, Dispositions
  <1>11. \A v \in Workers : worker'[v].pc = "model" =>
            SteersIn(Said(v))' \subseteq seen'
    BY <1>2, <1>3, SendersKept
  <1>12. NoSteerStranded' /\ AnswerOnce'
    BY <1>2, <1>3 DEF Steering, NoSteerStranded, AnswerOnce, Terminal
  <1>. QED
    BY <1>2, <1>7, <1>9, <1>10, <1>11, <1>12 DEF Steering

\* The committed answer is the frozen one, the first of the session.
LEMMA FinalizedSteering ==
    ASSUME Inductive, Asking, Steering, NEW w \in Workers, Finalize(w)
    PROVE  Steering'
  <1>1. TypeOK /\ LeaseholderIsCurrent /\ worker \in [Workers -> Task]
    BY DEF Inductive, TypeOK
  <1>2. /\ run'.status = "completed" /\ run'.phase = "terminal"
        /\ run'.output = worker[w].cp.final
        /\ answers' = Posted(worker[w].cp.final)
        /\ run.phase = "finalizing" /\ Leased(w) /\ worker[w].pc = "final"
        /\ disp' = disp /\ seen' = seen
    BY <1>1, FinalizedRow
  <1>3. worker[w].cp = run.cp /\ run.status = "running"
    BY <1>1, <1>2 DEF LeaseholderIsCurrent, Working, Leased
  <1>4. Applied' = Applied /\ PendingSteers' = PendingSteers
    BY <1>1, <1>2, Dispositions
  <1>5. /\ PendingSteers = {} /\ run.cp.final \in Texts \ {"none"}
        /\ run.cp.final # "limit" => Applied \subseteq seen
        /\ answers = <<>>
    BY <1>2, <1>3 DEF Steering, NoSteerStranded, AnswerOnce
  <1>6. NoSteerStranded'
    BY <1>4, <1>5 DEF NoSteerStranded
  <1>7. answers' = IF HasSession /\ run'.output # "empty" THEN <<run'.output>>
                                                         ELSE <<>>
    BY <1>2, <1>5 DEF Posted
  <1>8. worker'[w].pc # "model" /\ \A v \in Workers \ {w} : worker'[v] = worker[v]
    BY <1>1 DEF Finalize, Stop, IdleTask
  <1>9. \A v \in Workers : worker'[v].pc = "model" =>
            SteersIn(Said(v))' \subseteq seen'
    BY <1>2, <1>8, SendersKept
  <1>. QED
    BY <1>2, <1>3, <1>4, <1>5, <1>6, <1>7, <1>9 DEF Steering, AnswerOnce, Nonterminal

\* A claim, a pause and a retry leave what was heard and said as it is.
LEMMA HandedSteering ==
    ASSUME Inductive, Asking, Steering, NEW w \in Workers,
           Claim(w) \/ PauseForApproval(w) \/ ScheduleRetry(w)
    PROVE  Steering'
  <1>. USE DEF userVars, toolVars, seenVars, procVars
  <1>1. /\ TypeOK /\ CheckpointsPresent /\ LeaseholderIsCurrent
        /\ worker \in [Workers -> Task] /\ run \in RunRow
    BY DEF Inductive, TypeOK
  <1>2. UNCHANGED <<disp, answers, seen>>
    BY DEF Claim, PauseForApproval, ScheduleRetry
  <1>3. Applied' = Applied /\ PendingSteers' = PendingSteers
    BY <1>1, <1>2, Dispositions
  <1>4. /\ worker'[w].pc # "model"
        /\ \A v \in Workers \ {w} : worker'[v] = worker[v]
    BY <1>1 DEF Claim, PauseForApproval, ScheduleRetry, Stop, IdleTask, Task
  <1>5. \A v \in Workers : worker'[v].pc = "model" =>
            SteersIn(Said(v))' \subseteq seen'
    BY <1>2, <1>4, SendersKept
  <1>6. ASSUME run.status \in Nonterminal, run'.status \in Nonterminal, Heard' = Heard,
               run'.phase = "finalizing" =>
                  run.phase = "finalizing" /\ run'.cp.final = run.cp.final
        PROVE  Steering'
    <2>1. run.status # "completed" /\ run'.status # "completed"
      BY <1>6 DEF Nonterminal
    <2>2. NoSteerStranded'
      BY <1>3, <1>6 DEF Steering, NoSteerStranded, Nonterminal, Terminal
    <2>. QED
      BY <1>2, <1>3, <1>5, <1>6, <2>1, <2>2, SteeringFrame
  <1>7. CASE Claim(w)
    <2>1. /\ run'.status = "running" /\ run'.cp = run.cp
          /\ run.status \in {"queued", "retry_wait", "running"}
          /\ run'.phase = IF run.phase = "not_started" THEN "starting" ELSE run.phase
      BY <1>1, <1>7, ClaimedRow
    <2>. QED
      BY <1>6, <2>1 DEF Heard, Nonterminal
  <1>8. CASE PauseForApproval(w)
    <2>. DEFINE d == [worker[w].cp EXCEPT !.phase = "waiting_approval"]
    <2>. HIDE DEF d
    <2>5. Call(w) \in Calls
      <3>1. worker[w].cp \in Checkpoint /\ Call(w) # 0
        BY <1>1, <1>8, StartedTyped DEF PauseForApproval, Working, CheckpointsPresent
      <3>. QED
        BY <3>1 DEF Call, Checkpoint
    <2>1. /\ run'.status = "waiting_approval" /\ run'.cp = d
          /\ run'.phase = "waiting_approval" /\ worker[w].cp \in Checkpoint
      BY <1>8, <2>5, PausedApproval DEF d
    <2>2. worker[w].cp = run.cp /\ run.status = "running"
      BY <1>1, <1>8 DEF PauseForApproval, LeaseholderIsCurrent, Working, Leased
    <2>3. d \in Checkpoint /\ d.msgs = worker[w].cp.msgs
      BY <2>1 DEF Checkpoint, Phases, d
    <2>4. run.cp # None /\ d # None
      BY <2>1, <2>2, <2>3, NoneIsNull
    <2>6. Heard' = Heard
      BY <2>1, <2>2, <2>3, <2>4 DEF Heard
    <2>. QED
      BY <1>6, <2>1, <2>2, <2>6 DEF Nonterminal
  <1>9. CASE ScheduleRetry(w)
    <2>1. /\ run'.status = "retry_wait" /\ run'.phase = "retry_wait"
          /\ run.status = "running" /\ run.cp \in Checkpoint
          /\ run'.cp \in Checkpoint /\ run'.cp.msgs = run.cp.msgs
      BY <1>1, <1>9, RetriedRow
    <2>2. Heard' = Heard
      BY <2>1, NoneIsNull DEF Heard
    <2>. QED
      BY <1>6, <2>1, <2>2 DEF Nonterminal
  <1>. QED
    BY <1>7, <1>8, <1>9

\* A terminated Run queues what it has not applied.
LEMMA TerminatedSteering ==
    ASSUME Inductive, Steering, Cancel \/ \E w \in Workers : Fail(w)
    PROVE  Steering'
  <1>1. TypeOK /\ worker \in [Workers -> Task]
    BY DEF Inductive, TypeOK
  <1>2. /\ run'.status \in {"failed", "cancelled"} /\ run'.phase = "terminal"
        /\ disp' = QueuedAll /\ run.status \in Nonterminal
        /\ answers' = answers /\ seen' = seen
    BY <1>1, TerminatedRow
  <1>3. Applied' = Applied /\ PendingSteers' = {}
    BY <1>1, <1>2, Dispositions
  <1>4. \A v \in Workers : worker'[v] = worker[v] \/ worker'[v].pc # "model"
    BY <1>1 DEF Cancel, Fail, Stop, IdleTask
  <1>5. \A v \in Workers : worker'[v].pc = "model" =>
            SteersIn(Said(v))' \subseteq seen'
    BY <1>2, <1>4, SenderKept
  <1>6. NoSteerStranded'
    BY <1>3 DEF NoSteerStranded
  <1>. QED
    BY <1>2, <1>3, <1>5, <1>6, SteeringFrame DEF Nonterminal

\* A restart keeps them, or gives them up with the scope of the Run.
LEMMA RestartedSteering ==
    ASSUME Inductive, Asking, Steering, Restart
    PROVE  Steering'
  <1>1. TypeOK
    BY DEF Inductive
  <1>2. UNCHANGED <<worker, disp, answers, seen>>
    BY <1>1, RestartedRow
  <1>3. Applied' = Applied /\ PendingSteers' = PendingSteers
    BY <1>1, <1>2, Dispositions
  <1>4. \A w \in Workers : worker'[w].pc = "model" =>
            SteersIn(Said(w))' \subseteq seen'
    BY <1>2, SenderKept
  <1>5. CASE run' = run
    <2>1. RowKept
      BY <1>5 DEF RowKept
    <2>. QED
      BY <1>2, <1>3, <1>4, <2>1, SteeringKept
  <1>6. CASE /\ run'.status = "failed" /\ run'.phase = "terminal"
             /\ run.status \in Nonterminal /\ run'.reason = "scope_unavailable"
    <2>1. NoSteerStranded'
      BY <1>6 DEF NoSteerStranded
    <2>. QED
      BY <1>2, <1>3, <1>4, <1>6, <2>1, SteeringFrame DEF Nonterminal
  <1>7. CASE /\ run'.status \in {"needs_reconciliation", "queued"}
             /\ run.status \in {"running", "queued", "retry_wait"}
             /\ run'.cp = run.cp
             /\ run.cp # None => run'.phase = run.cp.phase
             /\ run.cp = None => run'.phase \in {"reconciling", "not_started"}
    <2>1. run'.phase = "finalizing" => run.phase = "finalizing"
      BY <1>7 DEF Asking, PhaseMirrored
    <2>2. NoSteerStranded'
      BY <1>3, <1>7, <2>1 DEF Steering, NoSteerStranded, Terminal
    <2>3. Heard' = Heard
      BY <1>7 DEF Heard
    <2>. QED
      BY <1>2, <1>3, <1>4, <1>7, <2>1, <2>2, <2>3, SteeringFrame DEF Nonterminal
  <1>. QED
    BY <1>1, <1>5, <1>6, <1>7, RestartedRow

\* A decision changes neither steers nor messages.
LEMMA DecidedSteering ==
    ASSUME Inductive, Asking, Steering, NEW e \in Deciders, Decide(e)
    PROVE  Steering'
  <1>. USE DEF seenVars, procVars
  <1>1. TypeOK
    BY DEF Inductive
  <1>2. /\ run.status = "waiting_approval" /\ run'.status = "queued"
        /\ run'.phase = run.phase /\ run'.cp = run.cp
    BY DecidedRow
  <1>3. UNCHANGED <<worker, disp, answers, seen>>
    BY DEF Decide
  <1>4. Applied' = Applied /\ PendingSteers' = PendingSteers
    BY <1>1, <1>3, Dispositions
  <1>5. \A w \in Workers : worker'[w].pc = "model" =>
            SteersIn(Said(w))' \subseteq seen'
    BY <1>3, SenderKept
  <1>6. NoSteerStranded' /\ Heard' = Heard
    BY <1>2, <1>4 DEF Steering, NoSteerStranded, Terminal, Heard
  <1>. QED
    BY <1>2, <1>3, <1>4, <1>5, <1>6, SteeringFrame DEF Nonterminal

\* Steering holds in the beginning,
LEMMA SteeringInit == Init => Steering
  <1>. SUFFICES ASSUME Init PROVE Steering
    OBVIOUS
  <1>1. /\ run.status = "queued" /\ run.phase = "not_started" /\ run.cp = None
        /\ answers = <<>> /\ Applied = {} /\ \A w \in Workers : worker[w].pc = "idle"
    BY DEF Init, Applied, IdleTask
  <1>2. Heard = <<>>
    BY <1>1 DEF Heard
  <1>3. SteersIn(<<>>) = {} /\ Disjoint(<<>>)
    <2>1. ASSUME NEW s, s \in SteersIn(<<>>)
          PROVE  FALSE
      <3>. DEFINE none == <<>>
      <3>1. none \in Seq(Messages) /\ 1 .. Len(none) = {}
        OBVIOUS
      <3>2. s \in SteersIn(none)
        BY <2>1
      <3>. HIDE DEF none
      <3>3. \E i \in 1 .. Len(none) : none[i][1] = "steers" /\ s \in none[i][2]
        BY <3>1, <3>2, Carried
      <3>. QED
        BY <3>1, <3>3
    <2>2. Disjoint(<<>>)
      BY DEF Disjoint
    <2>. QED
      BY <2>1, <2>2
  <1>. QED
    BY <1>1, <1>2, <1>3 DEF Steering, NoSteerStranded, AnswerOnce, Terminal

\* and every step keeps it.
LEMMA SteeringStep == Inductive /\ Asking /\ Steering /\ [Next]_vars => Steering'
  <1>. SUFFICES ASSUME Inductive, Asking, Steering, [Next]_vars PROVE Steering'
    OBVIOUS
  <1>1. TypeOK /\ CheckpointsPresent
    BY DEF Inductive
  <1>. QED
    BY <1>1, AllSteps, WroteSteering, IdlesSteering, RestoredSteering,
       FinalizedSteering, HandedSteering, TerminatedSteering, RestartedSteering,
       DecidedSteering

\* What is said of steers and answers holds in every state.
THEOREM SteeringInvariant == Spec => []Steering
  BY InitInductive, StepInductive, AskingInit, AskingStep, SteeringInit,
     SteeringStep, PTL DEF Spec

\* No steer is lost, doubled or forgotten: the live checkpoint carries each applied
\* one once, none waits on a Run that will not look again, and a completed Run has
\* shown each it has taken to the model, unless it stopped at a limit.
THEOREM SteersKept == Spec => []SteersAccounted
  <1>1. Inductive /\ Steering => SteersAccounted
    <2>. SUFFICES ASSUME Inductive, Steering PROVE SteersAccounted
      OBVIOUS
    <2>1. ASSUME run.status \in Nonterminal, run.cp # None
          PROVE  /\ SteersIn(run.cp.msgs) = {s \in Steers : disp[s] = "applied"}
                 /\ \A i, j \in {k \in DOMAIN run.cp.msgs : run.cp.msgs[k][1] = "steers"} :
                       i # j => run.cp.msgs[i][2] \cap run.cp.msgs[j][2] = {}
      <3>1. Heard = run.cp.msgs /\ Heard \in Seq(Messages)
        BY <2>1, HeardTyped DEF Heard, Inductive
      <3>2. DOMAIN Heard = 1 .. Len(Heard)
        BY <3>1
      <3>3. SteersIn(Heard) = Applied /\ Disjoint(Heard)
        BY <2>1 DEF Steering
      <3>. QED
        BY <3>1, <3>2, <3>3 DEF Applied, Disjoint
    <2>2. SteersFolded
      BY <2>1 DEF SteersFolded
    <2>3. AnsweredSteersSeen
      BY DEF Steering, AnsweredSteersSeen, Applied
    <2>. QED
      BY <2>2, <2>3 DEF Steering, SteersAccounted
  <1>. QED
    BY <1>1, Invariance, SteeringInvariant, PTL
-----------------------------------------------------------------------------
(* Refinement: what the Run promises.                                      *)

Outcome == IF run.status \in Terminal THEN run.status ELSE "open"
Granting == {c \in Calls : approval[c].decision = "approve"}

\* A step that keeps the outcome, the steers, the answers, the permissions and the
\* effects is none of the promised Run.
LEMMA Stutters ==
    ASSUME Outcome' = Outcome, Granting' = Granting, UNCHANGED <<disp, answers, effects>>
    PROVE  UNCHANGED Promise!vars
  BY DEF Promise!vars, Outcome, Granting

\* The permissions are those of the decided approvals.
LEMMA GrantingKept ==
    ASSUME \A c \in Calls : approval'[c].decision = "approve" <=>
                            approval[c].decision = "approve"
    PROVE  Granting' = Granting
  BY DEF Granting

\* The outcome is that of the status.
LEMMA OutcomeKept ==
    ASSUME \/ run'.status = run.status
           \/ run.status \in Nonterminal /\ run'.status \in Nonterminal
    PROVE  Outcome' = Outcome
  BY DEF Outcome, Terminal, Nonterminal

\* Consuming an approval is no decision.
LEMMA ClosingKeepsPermissions ==
    ASSUME TypeOK, CloseApproval
    PROVE  Granting' = Granting
  <1>1. approval \in [Calls -> Approval] /\ run.pending \in Calls \cup {0}
    BY DEF TypeOK, RunRow
  <1>2. CASE run.pending = 0
    BY <1>2 DEF CloseApproval, Granting
  <1>3. CASE run.pending # 0
    <2>1. approval' = [approval EXCEPT ![run.pending].consumed = TRUE]
      BY <1>3 DEF CloseApproval
    <2>2. \A c \in Calls : approval'[c].decision = approval[c].decision
      BY <1>1, <2>1 DEF Approval
    <2>. QED
      BY <2>2, GrantingKept
  <1>. QED
    BY <1>2, <1>3

\* An effect is the first of its call, and of a gated call an approved one.
LEMMA CommitActs ==
    ASSUME Inductive, NEW w \in Workers, CommitTool(w), Moves(w)
    PROVE  Promise!Next
  <1>. USE DEF userVars, toolVars, seenVars, procVars
  <1>1. TypeOK /\ effects \in [Calls -> Nat] /\ worker[w].cp # None
    BY DEF Inductive, TypeOK, CommitTool, CheckpointsPresent, Working
  <1>2. Call(w) \in Calls
    <2>1. worker[w].cp \in Checkpoint /\ Call(w) # 0
      BY <1>1, StartedTyped DEF CommitTool, Working, Inductive, CheckpointsPresent
    <2>. QED
      BY <2>1 DEF Call, Checkpoint
  <1>3. effects[Call(w)] = 0
    <2>1. inv[Call(w)].status = "running"
      BY DEF CommitTool, OwnsClaim
    <2>. QED
      BY <1>2, <2>1 DEF Inductive, EffectsCommitted
  <1>4. Call(w) \in Gated => Call(w) \in Granting
    BY <1>1, <1>2 DEF CommitTool, NeedsApproval, Granted, Inductive, GrantsBacked,
       Backed, Granting
  <1>5. effects' = [effects EXCEPT ![Call(w)] = 1]
    BY <1>1, <1>2, <1>3 DEF CommitTool
  <1>6. UNCHANGED <<run, disp, approval, answers>>
    BY DEF CommitTool
  <1>7. Promise!Act(Call(w))
    BY <1>3, <1>4, <1>5, <1>6 DEF Promise!Act, Granting
  <1>. QED
    BY <1>2, <1>7 DEF Promise!Next, Calls

\* A recorded steer is one that the promised Run is sent.
LEMMA RecordSends ==
    ASSUME RecordSteer
    PROVE  Promise!Next
  <1>. USE DEF userVars, toolVars, seenVars, procVars
  <1>1. PICK s \in Steers :
          /\ disp[s] = "unsent"
          /\ disp' = [disp EXCEPT ![s] = IF LateSteer THEN "queued" ELSE "pending"]
    BY DEF RecordSteer
  <1>2. UNCHANGED <<run, approval, answers, effects>>
    BY DEF RecordSteer
  <1>3. \/ Outcome = "open"
        \/ Outcome = "completed" /\ LateSteer
    BY DEF RecordSteer, Outcome, Terminal, LateSteer
  <1>4. Promise!Send(s)
    BY <1>1, <1>2, <1>3 DEF Promise!Send, Outcome
  <1>. QED
    BY <1>4 DEF Promise!Next, Steers

\* A step that is no transition sends a steer, acts once, or changes nothing that
\* is promised.
LEMMA IdlesRefine ==
    ASSUME Inductive, Idles
    PROVE  [Promise!Next]_(Promise!vars)
  <1>. USE DEF userVars, toolVars, seenVars, procVars
  <1>1. TypeOK /\ CheckpointsPresent
    BY DEF Inductive
  <1>2. Outcome' = Outcome /\ Granting' = Granting
    BY <1>1, IdlesRow, OutcomeKept DEF RowKept, Granting
  <1>3. ASSUME NEW w \in Workers, Waiting(w), Moves(w), ~CommitTool(w)
        PROVE  UNCHANGED <<disp, answers, effects>>
    BY <1>3 DEF Waiting, Resume,
       AskModel, CallModel, CallRefused, RepeatCall, RefuseTool, ObserveTool, ClaimTool,
       SettleTool, LoseClaim, ConsumeSteers
  <1>4. ASSUME NEW w \in Workers,
               LoseLease(w) \/ ClaimRefused(w) \/ Die(w) \/ Renew(w)
        PROVE  UNCHANGED <<disp, answers, effects>>
    BY <1>4 DEF LoseLease, ClaimRefused, Die, Renew
  <1>5. ASSUME \/ Expire \/ Crash \/ UNCHANGED vars
               \/ \E e \in Deciders :
                    \/ \E choice \in {"approve", "reject"} : LoadForDecision(e, choice)
                    \/ DecideRefused(e)
        PROVE  UNCHANGED <<disp, answers, effects>>
    BY <1>5 DEF Expire, Crash, LoadForDecision, DecideRefused, vars
  <1>6. \/ UNCHANGED <<disp, answers, effects>>
        \/ RecordSteer
        \/ \E w \in Workers : CommitTool(w) /\ Moves(w)
    BY <1>3, <1>4, <1>5 DEF Idles
  <1>. QED
    BY <1>2, <1>6, Stutters, RecordSends, CommitActs

\* A write takes all the waiting steers or none.
LEMMA WroteRefines ==
    ASSUME Inductive, NEW w \in Workers, NEW d, NEW next, Wrote(w, d, next)
    PROVE  [Promise!Next]_(Promise!vars)
  <1>1. run.status = "running" /\ run'.status = "running"
    BY WroteRow DEF Inductive
  <1>2. Outcome' = Outcome /\ Outcome = "open"
    BY <1>1, OutcomeKept DEF Outcome, Terminal
  <1>3. UNCHANGED <<approval, answers, effects>>
    BY DEF Wrote
  <1>4. \/ disp' = disp
        \/ disp' = AppliedAll /\ PendingSteers # {}
    <2>. DEFINE Some == PendingSteers # {}
    <2>1. disp' = disp \/ (disp' = AppliedAll /\ Some)
      BY DEF Wrote
    <2>. QED
      BY <2>1
  <1>5. CASE disp' = disp
    BY <1>2, <1>3, <1>5, Stutters DEF Granting
  <1>6. CASE disp' = AppliedAll /\ PendingSteers # {}
    <2>1. Promise!Waiting = PendingSteers
      BY DEF Promise!Waiting, PendingSteers, Steers
    <2>2. Promise!Moved("applied") = AppliedAll
      BY <2>1 DEF Promise!Moved, AppliedAll, PendingSteers, Steers
    <2>3. Promise!Take
      BY <1>2, <1>3, <1>6, <2>1, <2>2 DEF Promise!Take, Outcome
    <2>. QED
      BY <2>3 DEF Promise!Next
  <1>. QED
    BY <1>4, <1>5, <1>6

\* The committed answer completes the promised Run.
LEMMA FinalizeCompletes ==
    ASSUME Inductive, Asking, Steering, NEW w \in Workers, Finalize(w)
    PROVE  Promise!Next
  <1>1. TypeOK /\ LeaseholderIsCurrent
    BY DEF Inductive
  <1>2. /\ run'.status = "completed" /\ run.phase = "finalizing"
        /\ answers' = Posted(worker[w].cp.final)
        /\ Leased(w) /\ worker[w].pc = "final"
        /\ UNCHANGED <<disp, approval, effects>>
    BY <1>1, FinalizedRow
  <1>3. worker[w].cp = run.cp /\ run.status = "running"
    BY <1>1, <1>2 DEF LeaseholderIsCurrent, Working, Leased
  <1>4. PendingSteers = {} /\ run.cp.final \in Texts \ {"none"} /\ answers = <<>>
    BY <1>2, <1>3 DEF Steering, NoSteerStranded, AnswerOnce
  <1>5. Promise!Waiting = {}
    BY <1>4 DEF Promise!Waiting, PendingSteers, Steers
  <1>6. answers' \in {<<>>, <<"answer">>, <<"limit">>}
    BY <1>2, <1>3, <1>4 DEF Posted, Texts, Spoken
  <1>7. Outcome = "open" /\ Outcome' = "completed"
    BY <1>2, <1>3 DEF Outcome, Terminal
  <1>8. Promise!Complete(answers')
    BY <1>2, <1>5, <1>6, <1>7 DEF Promise!Complete, Outcome
  <1>. QED
    BY <1>6, <1>8 DEF Promise!Next

\* A Run that fails or is cancelled is closed with its steers queued,
LEMMA TerminateCloses ==
    ASSUME Inductive, Cancel \/ \E w \in Workers : Fail(w)
    PROVE  Promise!Next
  <1>1. TypeOK
    BY DEF Inductive
  <1>2. /\ run'.status \in {"failed", "cancelled"} /\ CloseApproval
        /\ disp' = QueuedAll /\ run.status \in Nonterminal
        /\ UNCHANGED <<effects, answers>>
    BY <1>1, TerminatedRow
  <1>3. Granting' = Granting
    BY <1>1, <1>2, ClosingKeepsPermissions
  <1>4. Outcome = "open" /\ Outcome' = run'.status
    BY <1>2 DEF Outcome, Terminal, Nonterminal
  <1>5. Promise!Waiting = PendingSteers
    BY DEF Promise!Waiting, PendingSteers, Steers
  <1>6. Promise!Moved("queued") = QueuedAll
    BY <1>5 DEF Promise!Moved, QueuedAll, PendingSteers, Steers
  <1>7. disp' = disp => PendingSteers = {}
    BY <1>1, <1>2, Dispositions
  <1>8. Promise!Close(run'.status)
    BY <1>2, <1>3, <1>4, <1>5, <1>6, <1>7 DEF Promise!Close, Outcome, Granting
  <1>. QED
    BY <1>2, <1>8 DEF Promise!Next

\* or, at a restart that has lost its scope, with its steers as they are.
LEMMA RestartRefines ==
    ASSUME Inductive, Restart
    PROVE  [Promise!Next]_(Promise!vars)
  <1>1. TypeOK
    BY DEF Inductive
  <1>2. UNCHANGED <<disp, answers, effects>>
    BY <1>1, RestartedRow
  <1>3. CASE UNCHANGED <<run, approval>>
    BY <1>2, <1>3, Stutters DEF Outcome, Granting
  <1>4. CASE /\ run'.status = "failed" /\ run.status \in Nonterminal
             /\ CloseApproval
    <2>1. Granting' = Granting
      BY <1>1, <1>4, ClosingKeepsPermissions
    <2>2. Outcome = "open" /\ Outcome' = "failed"
      BY <1>4 DEF Outcome, Terminal, Nonterminal
    <2>3. Promise!Close("failed")
      BY <1>2, <2>1, <2>2 DEF Promise!Close, Outcome, Granting
    <2>. QED
      BY <2>3 DEF Promise!Next
  <1>5. CASE /\ run'.status \in {"needs_reconciliation", "queued"}
             /\ run.status \in {"running", "queued", "retry_wait"}
             /\ approval' = approval
    BY <1>2, <1>5, OutcomeKept, Stutters DEF Nonterminal, Granting
  <1>. QED
    BY <1>1, <1>3, <1>4, <1>5, RestartedRow

\* Claims, pauses, retries and consumed decisions are the Run's own business.
LEMMA HandingStutters ==
    ASSUME Inductive, Asking, NEW w \in Workers,
           Claim(w) \/ PauseForApproval(w) \/ ScheduleRetry(w) \/ RestoreApproval(w)
    PROVE  UNCHANGED Promise!vars
  <1>. USE DEF userVars, toolVars, seenVars, procVars
  <1>1. /\ TypeOK /\ CheckpointsPresent /\ LeaseholderIsCurrent
        /\ approval \in [Calls -> Approval]
    BY DEF Inductive, TypeOK
  <1>2. UNCHANGED <<disp, answers, effects>>
    BY DEF Claim, PauseForApproval, ScheduleRetry, RestoreApproval
  <1>3. CASE Claim(w)
    BY <1>1, <1>2, <1>3, ClaimedRow, OutcomeKept, Stutters DEF Nonterminal, Granting
  <1>4. CASE ScheduleRetry(w)
    BY <1>1, <1>2, <1>4, RetriedRow, OutcomeKept, Stutters DEF Nonterminal, Granting
  <1>5. CASE RestoreApproval(w)
    <2>1. /\ run.status = "running" /\ run'.status = "running" /\ run.pending \in Calls
          /\ approval' = [approval EXCEPT ![run.pending].consumed = TRUE]
      BY <1>1, <1>5, RestoredRow DEF RestoreApproval
    <2>2. \A c \in Calls : approval'[c].decision = approval[c].decision
      BY <1>1, <2>1 DEF Approval
    <2>. QED
      BY <1>2, <2>1, <2>2, GrantingKept, OutcomeKept, Stutters
  <1>6. CASE PauseForApproval(w)
    <2>1. Call(w) \in Calls
      <3>1. worker[w].cp \in Checkpoint /\ Call(w) # 0
        BY <1>1, <1>6, StartedTyped DEF PauseForApproval, Working, CheckpointsPresent
      <3>. QED
        BY <3>1 DEF Call, Checkpoint
    <2>2. /\ approval[Call(w)].decision = "none"
          /\ approval'[Call(w)].decision = "pending"
          /\ run'.status = "waiting_approval"
      BY <1>6, <2>1, PausedApproval
    <2>3. run.status = "running"
      BY <1>6 DEF PauseForApproval, Leased
    <2>4. \A c \in Calls : c # Call(w) => approval'[c] = approval[c]
      BY <1>1, <1>6, <2>1 DEF PauseForApproval
    <2>5. Granting' = Granting
      BY <2>2, <2>4, GrantingKept
    <2>6. Outcome' = Outcome
      BY <2>2, <2>3, OutcomeKept DEF Nonterminal
    <2>. QED
      BY <1>2, <2>5, <2>6, Stutters
  <1>. QED
    BY <1>3, <1>4, <1>5, <1>6

\* A decision gives a permission, of an open Run and never twice, or refuses one.
LEMMA DecideRefines ==
    ASSUME Inductive, Asking, NEW e \in Deciders, Decide(e)
    PROVE  [Promise!Next]_(Promise!vars)
  <1>. USE DEF seenVars, procVars
  <1>1. approval \in [Calls -> Approval]
    BY DEF Inductive, TypeOK
  <1>2. PICK c \in Calls :
        /\ run.status = "waiting_approval"
        /\ approval[c].decision = "pending" /\ run'.status = "queued"
        /\ request[e].choice \in {"approve", "reject"}
        /\ approval' = [approval EXCEPT ![c].decision = request[e].choice]
    BY DecidedRow
  <1>3. UNCHANGED <<disp, answers, effects>>
    BY DEF Decide
  <1>4. /\ approval'[c].decision = request[e].choice
        /\ \A b \in Calls \ {c} : approval'[b] = approval[b]
    BY <1>1, <1>2 DEF Approval
  <1>5. Outcome' = Outcome /\ Outcome = "open"
    BY <1>2, OutcomeKept DEF Outcome, Terminal, Nonterminal
  <1>6. CASE request[e].choice = "approve"
    <2>1. c \notin Granting /\ Granting' = Granting \cup {c}
      BY <1>2, <1>4, <1>6 DEF Granting
    <2>2. Promise!Approve(c)
      BY <1>3, <1>5, <2>1 DEF Promise!Approve, Outcome, Granting
    <2>3. c \in 1 .. NCalls
      BY <1>2 DEF Calls
    <2>. QED
      BY <2>2, <2>3 DEF Promise!Next
  <1>7. CASE request[e].choice = "reject"
    <2>1. Granting' = Granting
      BY <1>2, <1>4, <1>7, GrantingKept
    <2>. QED
      BY <1>3, <1>5, <2>1, Stutters
  <1>. QED
    BY <1>2, <1>6, <1>7

\* Every step is one of the promised Run, or changes nothing it promises.
LEMMA StepRefines ==
    ASSUME Inductive, Asking, Steering, [Next]_vars
    PROVE  [Promise!Next]_(Promise!vars)
  <1>1. TypeOK /\ CheckpointsPresent
    BY DEF Inductive
  <1>. QED
    BY <1>1, AllSteps, IdlesRefine, WroteRefines, FinalizeCompletes,
       TerminateCloses, RestartRefines, HandingStutters, DecideRefines

\* The initial Run has promised nothing yet.
LEMMA InitRefines == Init => Promise!Init
  BY DEF Init, Promise!Init, Terminal, Steers, Calls

\* The Run with its leases, checkpoints, executors and crashes implements what the
\* abstract Run promises its user: every steer taken or kept, one answer, effects
\* once and only with permission, and an outcome that nothing changes any more.
THEOREM PromiseKept == Spec => KeepsPromise
  <1>1. Inductive /\ Asking /\ Steering /\ [Next]_vars
          => [Promise!Next]_(Promise!vars)
    BY StepRefines
  <1>. QED
    BY <1>1, InitRefines, Invariance, AskingInvariant, SteeringInvariant, PTL
       DEF Spec, KeepsPromise, Promise!Spec
-----------------------------------------------------------------------------
(* The conversation: good results.                                         *)

\* The results that are reported as good are those of effects.
Real(msgs) ==
    \A i \in 1 .. Len(msgs) : msgs[i][1] = "ok" => effects[msgs[i][2]] = 1

\* A committed invocation has acted, and so has every call that a task or the
\* durable checkpoint reports as good.
Truthful ==
    /\ \A c \in Calls : inv[c].status = "committed" => effects[c] = 1
    /\ \A w \in Workers :
         worker[w].pc = "done" /\ worker[w].res = "ok" => effects[Call(w)] = 1
    /\ run.status \in Nonterminal => Real(Heard)

\* An effect is committed with its invocation, and never taken back.
LEMMA CommittedStep ==
    ASSUME Inductive, Truthful, [Next]_vars, NEW c \in Calls
    PROVE  /\ inv'[c].status = "committed" => effects'[c] = 1
           /\ effects[c] = 1 => effects'[c] = 1
  <1>1. /\ TypeOK /\ CheckpointsPresent
        /\ inv \in [Calls -> Invocation] /\ effects \in [Calls -> Nat]
    BY DEF Inductive, TypeOK
  <1>2. inv[c].status = "committed" => effects[c] = 1
    BY DEF Truthful
  <1>3. CASE UNCHANGED <<inv, effects>>
    BY <1>2, <1>3
  <1>4. ASSUME NEW w \in Workers, ClaimTool(w)
        PROVE  effects' = effects
               /\ (inv'[c] = inv[c] \/ inv'[c].status = "running")
    BY <1>1, <1>4 DEF ClaimTool
  <1>5. ASSUME NEW w \in Workers, CommitTool(w)
        PROVE  /\ inv'[c].status = "committed" => effects'[c] = 1
               /\ effects[c] = 1 => effects'[c] = 1
    <2>1. inv[Call(w)].status = "running"
      BY <1>5 DEF CommitTool, OwnsClaim
    <2>2. Call(w) = c => effects[c] = 0
      BY <2>1 DEF Inductive, EffectsCommitted
    <2>3. /\ Call(w) = c => effects'[c] = effects[c] + 1
          /\ Call(w) # c => effects'[c] = effects[c] /\ inv'[c] = inv[c]
      BY <1>1, <1>5 DEF CommitTool, Settle
    <2>. QED
      BY <1>2, <2>2, <2>3
  <1>6. ASSUME NEW w \in Workers, SettleTool(w)
        PROVE  effects' = effects
               /\ (inv'[c] = inv[c] \/ inv'[c].status # "committed")
    BY <1>1, <1>6 DEF SettleTool, Settle
  <1>7. ASSUME CloseApproval, UNCHANGED effects
        PROVE  inv'[c] = inv[c] \/ inv'[c].status = "cancelled"
    BY <1>1, <1>7 DEF CloseApproval, Invocation
  <1>8. ASSUME NEW d \in Deciders, Decide(d)
        PROVE  effects' = effects
               /\ (inv'[c] = inv[c] \/ inv'[c].status = "rejected")
    BY <1>1, <1>8 DEF Decide, Invocation
  <1>. QED
    BY <1>1, <1>2, <1>3, <1>4, <1>5, <1>6, <1>7, <1>8, InvocationSteps

\* Good results stay real.
LEMMA RealKept ==
    ASSUME Inductive, Truthful, [Next]_vars, NEW msgs \in Seq(Messages), Real(msgs)
    PROVE  Real(msgs)'
  <1>1. ASSUME NEW i \in 1 .. Len(msgs), msgs[i][1] = "ok"
        PROVE  effects'[msgs[i][2]] = 1
    <2>1. msgs[i] \in Messages
      OBVIOUS
    <2>2. msgs[i][2] \in Calls
      BY <1>1, <2>1 DEF Messages
    <2>. QED
      BY <1>1, <2>2, CommittedStep DEF Real
  <1>. QED
    BY <1>1 DEF Real

\* One more message keeps them real if it is no good result, or a real one.
LEMMA RealAppend ==
    ASSUME NEW msgs \in Seq(Messages), NEW m \in Messages, Real(msgs),
           m[1] = "ok" => effects[m[2]] = 1
    PROVE  Real(Append(msgs, m))
  <1>. DEFINE more == Append(msgs, m)
  <1>1. /\ Len(more) = Len(msgs) + 1 /\ Len(msgs) \in Nat
        /\ \A i \in 1 .. Len(msgs) : more[i] = msgs[i]
        /\ more[Len(msgs) + 1] = m
    OBVIOUS
  <1>. HIDE DEF more
  <1>2. ASSUME NEW i \in 1 .. Len(more), more[i][1] = "ok"
        PROVE  effects[more[i][2]] = 1
    <2>1. i \in 1 .. Len(msgs) \/ i = Len(msgs) + 1
      BY <1>1
    <2>. QED
      BY <1>1, <1>2, <2>1 DEF Real
  <1>3. Real(more)
    BY <1>2 DEF Real
  <1>. QED
    BY <1>3 DEF more

\* What a task reports as good has acted.
LEMMA ReporterStep ==
    ASSUME Inductive, Truthful, [Next]_vars, NEW v \in Workers,
           worker'[v].pc = "done", worker'[v].res = "ok"
    PROVE  effects'[Call(v)'] = 1
  <1>1. /\ TypeOK /\ CheckpointsPresent /\ worker \in [Workers -> Task]
        /\ effects \in [Calls -> Nat]
    BY DEF Inductive, TypeOK
  <1>2. ASSUME worker[v].pc \in {"tool", "exec", "done"}
        PROVE  Call(v) \in Calls
    <2>1. worker[v].cp \in Checkpoint /\ Call(v) # 0
      BY <1>1, <1>2, StartedTyped DEF Working, CheckpointsPresent
    <2>. QED
      BY <2>1 DEF Call, Checkpoint
  <1>3. CASE worker'[v] = worker[v]
    <2>1. Call(v)' = Call(v) /\ effects[Call(v)] = 1
      BY <1>3 DEF Call, Truthful
    <2>. QED
      BY <1>2, <1>3, <2>1, CommittedStep
  <1>4. CASE Waiting(v) /\ worker'[v].cp = worker[v].cp
    <2>1. Call(v)' = Call(v)
      BY <1>4 DEF Call
    <2>2. \/ ObserveTool(v) /\ inv[Call(v)].status = "committed"
          \/ LoseClaim(v) /\ inv[Call(v)].status = "committed"
          \/ CommitTool(v)
      <3>1. ~(Resume(v) \/ AskModel(v) \/ (ConsumeSteers(v) /\ PendingSteers = {}))
        BY <1>1, <1>4 DEF Resume, ResumePoint,
           AskModel, CallModel, CallRefused, RepeatCall, ConsumeSteers, Task
      <3>2. ~(RefuseTool(v) \/ ClaimTool(v) \/ SettleTool(v))
        BY <1>1, <1>4 DEF RefuseTool, ClaimTool, SettleTool, Returns, Task
      <3>3. ObserveTool(v) => inv[Call(v)].status = "committed"
        BY <1>1, <1>4 DEF ObserveTool, Returns, Task
      <3>4. LoseClaim(v) => inv[Call(v)].status = "committed"
        BY <1>1, <1>4 DEF LoseClaim, LostClaimResult, Returns, Task
      <3>5. ObserveTool(v) \/ LoseClaim(v) \/ CommitTool(v)
        BY <1>4, <3>1, <3>2 DEF Waiting
      <3>. QED
        BY <3>3, <3>4, <3>5
    <2>3. Call(v) \in Calls
      BY <1>2, <2>2 DEF ObserveTool, LoseClaim, CommitTool
    <2>4. CASE inv[Call(v)].status = "committed"
      BY <2>1, <2>3, <2>4, CommittedStep DEF Truthful
    <2>5. CASE CommitTool(v)
      <3>1. inv'[Call(v)].status = "committed"
        BY <1>1, <2>3, <2>5 DEF CommitTool, Settle, TypeOK
      <3>. QED
        BY <2>1, <2>3, <3>1, CommittedStep
    <2>. QED
      BY <2>2, <2>4, <2>5
  <1>. QED
    BY <1>3, <1>4, AnsweredTasks

\* How the durable conversation goes on: by one message at most, and by a good
\* result only if a task has it.
LEMMA HeardSteps ==
    ASSUME Inductive, Asking, [Next]_vars, run'.status \in Nonterminal
    PROVE  /\ run.status \in Nonterminal
           /\ \/ Heard' = Heard
              \/ \E m \in Messages :
                   /\ Heard' = Append(Heard, m)
                   /\ m[1] = "ok" => \E w \in Workers :
                        worker[w].pc = "done" /\ worker[w].res = "ok" /\ m[2] = Call(w)
  <1>. DEFINE Goal ==
          \/ Heard' = Heard
          \/ \E m \in Messages :
               /\ Heard' = Append(Heard, m)
               /\ m[1] = "ok" => \E w \in Workers :
                    worker[w].pc = "done" /\ worker[w].res = "ok" /\ m[2] = Call(w)
  <1>1. /\ TypeOK /\ CheckpointsPresent /\ LeaseholderIsCurrent
    BY DEF Inductive
  <1>2. run.status \in Nonterminal
    <2>1. run.status \in Terminal => run' = run
      BY <1>1, TerminalStep
    <2>2. run.status \in Terminal \cup Nonterminal
      BY <1>1 DEF TypeOK, RunRow
    <2>. QED
      BY <2>1, <2>2
  <1>3. ASSUME run'.cp = run.cp
        PROVE  Goal
    BY <1>3 DEF Heard
  <1>4. ASSUME Idles
        PROVE  Goal
    BY <1>1, <1>3, <1>4, IdlesRow DEF RowKept
  <1>5. ASSUME NEW w \in Workers, NEW d, NEW next, Wrote(w, d, next)
        PROVE  Goal
    <2>1. d \in Checkpoint /\ d # None /\ run'.cp = d /\ worker[w].cp = run.cp
      BY <1>1, <1>5, WroteRow, NoneIsNull DEF Wrote, LeaseholderIsCurrent
    <2>2. Said(w) = Heard /\ Heard' = d.msgs
      BY <2>1 DEF Said, Heard
    <2>3. CASE d.msgs = Said(w)
      BY <2>2, <2>3
    <2>4. CASE /\ worker[w].pc = "done" /\ worker[w].res \in {"ok", "error"}
               /\ d.msgs = Append(Said(w), <<worker[w].res, Call(w)>>)
      <3>1. Call(w) \in Calls
        <4>1. worker[w].cp \in Checkpoint /\ Call(w) # 0
          BY <1>1, <2>4, StartedTyped DEF Working, CheckpointsPresent
        <4>. QED
          BY <4>1 DEF Call, Checkpoint
      <3>2. <<worker[w].res, Call(w)>> \in Messages
        BY <2>4, <3>1 DEF Messages
      <3>. QED
        BY <2>2, <2>4, <3>2
    <2>5. CASE d.msgs = Append(Said(w), <<"steers", PendingSteers>>)
      <3>1. <<"steers", PendingSteers>> \in Messages
        BY DEF Messages, PendingSteers
      <3>. QED
        BY <2>2, <2>5, <3>1
    <2>. QED
      BY <1>5, <2>3, <2>4, <2>5 DEF Wrote
  <1>6. ASSUME NEW w \in Workers, RestoreApproval(w)
        PROVE  Goal
    <2>. DEFINE d == Decided(worker[w].cp)
    <2>1. d \in Checkpoint /\ run.pending \in Calls /\ run'.cp = d
      BY <1>1, <1>6, RestoredRow
    <2>2. worker[w].cp = run.cp /\ run.cp # None /\ run.cp \in Checkpoint
      BY <1>1, <1>6 DEF RestoreApproval, LeaseholderIsCurrent, Working, TypeOK, RunRow
    <2>3. \/ d.msgs = run.cp.msgs
          \/ d.msgs = Append(run.cp.msgs, <<"error", run.pending>>)
      BY <2>2 DEF Decided, Checkpoint
    <2>. HIDE DEF d
    <2>4. Heard = run.cp.msgs /\ Heard' = d.msgs
      BY <2>1, <2>2, NoneIsNull DEF Heard
    <2>5. <<"error", run.pending>> \in Messages
      BY <2>1 DEF Messages
    <2>. QED
      BY <2>3, <2>4, <2>5
  <1>7. ASSUME NEW w \in Workers, PauseForApproval(w)
        PROVE  Goal
    <2>. DEFINE d == [worker[w].cp EXCEPT !.phase = "waiting_approval"]
    <2>. HIDE DEF d
    <2>1. worker[w].cp \in Checkpoint /\ Call(w) # 0 /\ worker[w].cp = run.cp
      BY <1>1, <1>7, StartedTyped DEF PauseForApproval, Working, CheckpointsPresent,
         LeaseholderIsCurrent
    <2>2. Call(w) \in Calls
      BY <2>1 DEF Call, Checkpoint
    <2>3. run'.cp = d
      BY <1>7, <2>2, PausedApproval DEF d
    <2>4. d \in Checkpoint /\ d.msgs = run.cp.msgs
      BY <2>1 DEF Checkpoint, Phases, d
    <2>5. Heard' = Heard
      BY <2>1, <2>3, <2>4, NoneIsNull DEF Heard
    <2>. QED
      BY <2>5
  <1>8. ASSUME NEW w \in Workers, ScheduleRetry(w)
        PROVE  Goal
    <2>1. run.cp \in Checkpoint /\ run'.cp \in Checkpoint /\ run'.cp.msgs = run.cp.msgs
      BY <1>1, <1>8, RetriedRow
    <2>2. Heard' = Heard
      BY <2>1, NoneIsNull DEF Heard
    <2>. QED
      BY <2>2
  <1>9. ASSUME NEW w \in Workers, Claim(w)
        PROVE  Goal
    BY <1>1, <1>3, <1>9, ClaimedRow
  <1>10. ASSUME NEW w \in Workers, Finalize(w)
         PROVE  FALSE
    BY <1>1, <1>10, FinalizedRow DEF Nonterminal
  <1>11. ~(Cancel \/ \E w \in Workers : Fail(w))
    BY <1>1, TerminatedRow DEF Nonterminal
  <1>12. ASSUME Restart
         PROVE  Goal
    BY <1>1, <1>3, <1>12, RestartedRow DEF Nonterminal
  <1>13. ASSUME NEW e \in Deciders, Decide(e)
         PROVE  Goal
    BY <1>3, <1>13, DecidedRow
  <1>. HIDE DEF Goal
  <1>14. Goal
    BY <1>1, <1>4, <1>5, <1>6, <1>7, <1>8, <1>9, <1>10, <1>11, <1>12, <1>13, AllSteps
  <1>. QED
    BY <1>2, <1>14 DEF Goal

\* Truthful is kept by every step.
LEMMA TruthfulStep == Inductive /\ Asking /\ Truthful /\ [Next]_vars => Truthful'
  <1>. SUFFICES ASSUME Inductive, Asking, Truthful, [Next]_vars PROVE Truthful'
    OBVIOUS
  <1>1. Heard \in Seq(Messages)
    BY HeardTyped DEF Inductive
  <1>2. ASSUME run'.status \in Nonterminal
        PROVE  Real(Heard)'
    <2>1. Real(Heard)
      BY <1>2, HeardSteps DEF Truthful
    <2>2. \A msgs \in Seq(Messages) : Real(msgs) => Real(msgs)'
      BY RealKept
    <2>3. ASSUME Heard' = Heard
          PROVE  Real(Heard)'
      BY <1>1, <2>1, <2>2, <2>3 DEF Real
    <2>4. ASSUME NEW m \in Messages, Heard' = Append(Heard, m),
                 m[1] = "ok" => \E w \in Workers :
                    worker[w].pc = "done" /\ worker[w].res = "ok" /\ m[2] = Call(w)
          PROVE  Real(Heard)'
      <3>1. m[1] = "ok" => effects[m[2]] = 1
        BY <2>4 DEF Truthful
      <3>2. Append(Heard, m) \in Seq(Messages) /\ Real(Append(Heard, m))
        BY <1>1, <2>1, <2>4, <3>1, RealAppend
      <3>. QED
        BY <2>2, <2>4, <3>2 DEF Real
    <2>. QED
      BY <1>2, <2>3, <2>4, HeardSteps
  <1>. QED
    BY <1>2, CommittedStep, ReporterStep DEF Truthful, Call
-----------------------------------------------------------------------------
(* The conversation: the model's calls in their order.                     *)

\* The call of the durable checkpoint, and those that remain.
Turn == IF run.cp = None THEN 0 ELSE run.cp.cur
Left == IF run.cp = None THEN <<>> ELSE run.cp.rem

Results(msgs) == {i \in 1 .. Len(msgs) : msgs[i][1] # "steers"}

\* The results in msgs are those of the calls 1 to k, once each and in order.
Told(msgs, k) ==
    /\ {msgs[i][2] : i \in Results(msgs)} = 1 .. k
    /\ \A i, j \in Results(msgs) : i < j => msgs[i][2] < msgs[j][2]

\* The first n calls are told, current and remaining, in this order.
Ordered(msgs, cur, rem, n) ==
    LET current == IF cur = 0 THEN 0 ELSE 1
        told    == n - Len(rem) - current
    IN /\ Told(msgs, told)
       /\ cur # 0 => cur = told + 1
       /\ \A i \in 1 .. Len(rem) : rem[i] = told + current + i

\* The calls of the live checkpoint are in order; a pending approval is that of the
\* current one and knows what remains; nobody asks the model before all are told.
Conversing ==
    /\ run.status \in Nonterminal => Ordered(Heard, Turn, Left, issued)
    /\ run.pending # 0 =>
         Turn = run.pending /\ approval[run.pending].rem = Left
    /\ \A w \in Workers :
         worker[w].pc \in {"reserve", "call", "again", "model"} /\ Leased(w)
            => Current(w) = 0 /\ Remaining(w) = <<>>

\* A message of steers tells no result.
LEMMA ToldSteers ==
    ASSUME NEW msgs \in Seq(Messages), NEW m \in Messages, m[1] = "steers",
           NEW k \in Int, Told(msgs, k)
    PROVE  Told(Append(msgs, m), k)
  <1>. DEFINE more == Append(msgs, m)
  <1>1. /\ Len(more) = Len(msgs) + 1 /\ Len(msgs) \in Nat
        /\ \A i \in 1 .. Len(msgs) : more[i] = msgs[i]
        /\ more[Len(msgs) + 1] = m
    OBVIOUS
  <1>. HIDE DEF more
  <1>2. Results(more) = Results(msgs)
    BY <1>1 DEF Results
  <1>3. \A i \in Results(msgs) : more[i] = msgs[i]
    BY <1>1 DEF Results
  <1>4. {more[i][2] : i \in Results(more)} = {msgs[i][2] : i \in Results(msgs)}
    BY <1>2, <1>3
  <1>5. Told(more, k)
    BY <1>2, <1>3, <1>4 DEF Told
  <1>. QED
    BY <1>5 DEF more

\* The result of the next call is told after the others.
LEMMA ToldResult ==
    ASSUME NEW msgs \in Seq(Messages), NEW k \in Nat, Told(msgs, k),
           NEW r \in {"ok", "error"}, k + 1 \in Calls
    PROVE  Told(Append(msgs, <<r, k + 1>>), k + 1)
  <1>. DEFINE m == <<r, k + 1>>
              more == Append(msgs, m)
  <1>1. /\ Len(more) = Len(msgs) + 1 /\ Len(msgs) \in Nat
        /\ \A i \in 1 .. Len(msgs) : more[i] = msgs[i]
        /\ more[Len(msgs) + 1] = m
    OBVIOUS
  <1>2. m[1] # "steers" /\ m[2] = k + 1
    OBVIOUS
  <1>. HIDE DEF m, more
  <1>3. Results(more) = Results(msgs) \cup {Len(msgs) + 1}
    BY <1>1, <1>2 DEF Results
  <1>4. \A i \in Results(msgs) : more[i] = msgs[i] /\ i \in 1 .. Len(msgs)
    BY <1>1 DEF Results
  <1>5. {more[i][2] : i \in Results(more)} = {msgs[i][2] : i \in Results(msgs)} \cup {k + 1}
    BY <1>1, <1>2, <1>3, <1>4
  <1>6. {more[i][2] : i \in Results(more)} = 1 .. k + 1
    <2>1. {msgs[i][2] : i \in Results(msgs)} = 1 .. k
      BY DEF Told
    <2>2. (1 .. k) \cup {k + 1} = 1 .. k + 1
      OBVIOUS
    <2>. QED
      BY <1>5, <2>1, <2>2
  <1>7. ASSUME NEW i \in Results(more), NEW j \in Results(more), i < j
        PROVE  more[i][2] < more[j][2]
    <2>1. i \in Results(msgs)
      BY <1>1, <1>3, <1>4, <1>7
    <2>2. CASE j \in Results(msgs)
      BY <1>4, <1>7, <2>1, <2>2 DEF Told
    <2>3. CASE j = Len(msgs) + 1
      <3>1. msgs[i][2] \in 1 .. k
        BY <2>1 DEF Told
      <3>2. more[i][2] = msgs[i][2] /\ more[j][2] = k + 1
        BY <1>1, <1>2, <1>4, <2>1, <2>3
      <3>3. \A x \in 1 .. k : x < k + 1
        OBVIOUS
      <3>. QED
        BY <3>1, <3>2, <3>3
    <2>. QED
      BY <1>3, <2>2, <2>3
  <1>8. Told(more, k + 1)
    BY <1>6, <1>7 DEF Told
  <1>. QED
    BY <1>8 DEF m, more

\* Steers leave the calls as they are,
LEMMA OrderedSteers ==
    ASSUME NEW msgs \in Seq(Messages), NEW m \in Messages, m[1] = "steers",
           NEW cur \in Calls \cup {0}, NEW rem \in Seq(Calls), NEW n \in Nat,
           Ordered(msgs, cur, rem, n)
    PROVE  Ordered(Append(msgs, m), cur, rem, n)
  BY ToldSteers DEF Ordered

\* the first remaining call becomes the current one,
LEMMA OrderedStart ==
    ASSUME NEW msgs \in Seq(Messages), NEW rem \in Seq(Calls), rem # <<>>,
           NEW n \in Nat, Ordered(msgs, 0, rem, n)
    PROVE  Ordered(msgs, Head(rem), Tail(rem), n)
  <1>. DEFINE told == n - Len(rem)
              h == Head(rem)
              t == Tail(rem)
  <1>1. /\ Len(rem) \in Nat /\ Len(t) = Len(rem) - 1 /\ Len(rem) > 0
        /\ \A i \in 1 .. Len(t) : t[i] = rem[i + 1]
        /\ h = rem[1] /\ h \in Calls
    OBVIOUS
  <1>2. Told(msgs, told) /\ \A i \in 1 .. Len(rem) : rem[i] = told + i
    BY <1>1 DEF Ordered
  <1>3. h # 0 /\ h = told + 1
    BY <1>1, <1>2 DEF Calls
  <1>4. n - Len(t) - 1 = told
    BY <1>1
  <1>5. \A i \in 1 .. Len(t) : t[i] = told + 1 + i
    BY <1>1, <1>2
  <1>. HIDE DEF told, h, t
  <1>6. Ordered(msgs, h, t, n)
    BY <1>2, <1>3, <1>4, <1>5 DEF Ordered
  <1>. QED
    BY <1>6 DEF h, t

\* the result of the current one is told,
LEMMA OrderedReport ==
    ASSUME NEW msgs \in Seq(Messages), NEW cur \in Calls, NEW rem \in Seq(Calls),
           NEW n \in Nat, NEW r \in {"ok", "error"}, Ordered(msgs, cur, rem, n)
    PROVE  Ordered(Append(msgs, <<r, cur>>), 0, rem, n)
  <1>. DEFINE told == n - Len(rem) - 1
  <1>1. cur # 0 /\ Len(rem) \in Nat /\ cur \in Nat
    BY DEF Calls
  <1>2. /\ Told(msgs, told) /\ cur = told + 1
        /\ \A i \in 1 .. Len(rem) : rem[i] = told + 1 + i
    BY <1>1 DEF Ordered
  <1>3. told \in Nat
    BY <1>1, <1>2 DEF Calls
  <1>4. n - Len(rem) - 0 = told + 1
    BY <1>1
  <1>. HIDE DEF told
  <1>5. Told(Append(msgs, <<r, cur>>), told + 1)
    BY <1>2, <1>3, ToldResult
  <1>. QED
    BY <1>2, <1>4, <1>5 DEF Ordered

\* and the model's next calls follow when all are told.
LEMMA OrderedPropose ==
    ASSUME NEW msgs \in Seq(Messages), NEW n \in Nat, NEW k \in {1, 2},
           Ordered(msgs, 0, <<>>, n)
    PROVE  Ordered(msgs, n + 1, [i \in 1 .. k - 1 |-> n + 1 + i], n + k)
  <1>. DEFINE rem == [i \in 1 .. k - 1 |-> n + 1 + i]
  <1>1. Len(rem) = k - 1 /\ \A i \in 1 .. Len(rem) : rem[i] = n + 1 + i
    OBVIOUS
  <1>2. Told(msgs, n)
    BY DEF Ordered
  <1>. HIDE DEF rem
  <1>3. n + k - Len(rem) - 1 = n /\ n + 1 # 0
    BY <1>1
  <1>4. Ordered(msgs, n + 1, rem, n + k)
    BY <1>1, <1>2, <1>3 DEF Ordered
  <1>. QED
    BY <1>4 DEF rem
\* The calls and messages of the durable checkpoint have their types.
LEMMA TurnTyped ==
    ASSUME TypeOK
    PROVE  /\ Heard \in Seq(Messages) /\ Turn \in Calls \cup {0}
           /\ Left \in Seq(Calls) /\ issued \in Nat
  BY HeardTyped, EmptyTyped DEF TypeOK, RunRow, Checkpoint, Turn, Left

\* A leaseholder works on the calls of the durable checkpoint.
LEMMA HolderTurn ==
    ASSUME Inductive, NEW w \in Workers, worker[w].pc \in Working, Leased(w)
    PROVE  Said(w) = Heard /\ Current(w) = Turn /\ Remaining(w) = Left
  BY DEF Inductive, LeaseholderIsCurrent, Said, Heard, Current, Turn, Remaining, Left

\* What a task writes keeps the calls in order.
LEMMA WroteOrdered ==
    ASSUME Inductive, Asking, Conversing, NEW w \in Workers, NEW d, NEW next,
           Wrote(w, d, next)
    PROVE  Ordered(Heard', Turn', Left', issued')
  <1>1. /\ TypeOK /\ CheckpointsPresent /\ d \in Checkpoint /\ d # None
        /\ run'.cp = d /\ run.status = "running" /\ Leased(w)
        /\ worker[w].pc \in Working
    BY WroteRow, NoneIsNull DEF Inductive, Wrote
  <1>2. Heard' = d.msgs /\ Turn' = d.cur /\ Left' = d.rem
    BY <1>1 DEF Heard, Turn, Left
  <1>3. Said(w) = Heard /\ Current(w) = Turn /\ Remaining(w) = Left
    BY <1>1, HolderTurn
  <1>4. /\ Heard \in Seq(Messages) /\ Turn \in Calls \cup {0}
        /\ Left \in Seq(Calls) /\ issued \in Nat
    BY <1>1, TurnTyped
  <1>5. Ordered(Heard, Turn, Left, issued)
    BY <1>1 DEF Conversing, Nonterminal
  <1>6. <<"steers", PendingSteers>> \in Messages
    BY DEF Messages, PendingSteers
  <1>7. ASSUME NEW cur \in Calls \cup {0}, NEW rem \in Seq(Calls), NEW n \in Nat,
               Ordered(Heard, cur, rem, n), worker[w].pc # "done"
        PROVE  Ordered(d.msgs, cur, rem, n)
    <2>1. d.msgs = Heard \/ d.msgs = Append(Heard, <<"steers", PendingSteers>>)
      BY <1>3, <1>7 DEF Wrote
    <2>. QED
      BY <1>4, <1>6, <1>7, <2>1, OrderedSteers
  <1>8. CASE /\ issued' = issued /\ d.cur = Current(w) /\ d.rem = Remaining(w)
             /\ worker[w].pc # "done"
    BY <1>2, <1>3, <1>4, <1>5, <1>7, <1>8
  <1>9. CASE /\ issued' = issued /\ worker[w].pc = "loop"
             /\ Current(w) = 0 /\ Remaining(w) # <<>>
             /\ d.cur = Head(Remaining(w)) /\ d.rem = Tail(Remaining(w))
    <2>1. Ordered(Heard, d.cur, d.rem, issued)
      BY <1>3, <1>4, <1>5, <1>9, OrderedStart
    <2>2. d.cur \in Calls \cup {0} /\ d.rem \in Seq(Calls)
      BY <1>1 DEF Checkpoint
    <2>. QED
      BY <1>2, <1>4, <1>7, <1>9, <2>1, <2>2
  <1>10. CASE /\ issued' = issued
              /\ worker[w].pc = "done" /\ worker[w].res \in {"ok", "error"}
              /\ d.msgs = Append(Said(w), <<worker[w].res, Call(w)>>)
              /\ d.cur = IF Remaining(w) = <<>> THEN 0 ELSE Head(Remaining(w))
              /\ d.rem = IF Remaining(w) = <<>> THEN <<>> ELSE Tail(Remaining(w))
    <2>1. Call(w) = Turn /\ Turn \in Calls
      <3>1. worker[w].cp # None /\ Call(w) # 0
        BY <1>1, <1>10 DEF CheckpointsPresent, Working
      <3>2. Current(w) = Call(w)
        BY <3>1 DEF Current, Call
      <3>. QED
        BY <1>3, <1>4, <3>1, <3>2
    <2>2. Ordered(d.msgs, 0, Left, issued)
      BY <1>3, <1>4, <1>5, <1>10, <2>1, OrderedReport
    <2>3. CASE Left = <<>>
      BY <1>2, <1>3, <1>10, <2>2, <2>3
    <2>4. CASE Left # <<>>
      <3>1. d.msgs \in Seq(Messages)
        BY <1>1 DEF Checkpoint
      <3>. QED
        BY <1>2, <1>3, <1>4, <1>10, <2>2, <2>4, <3>1, OrderedStart
    <2>. QED
      BY <2>3, <2>4
  <1>11. ASSUME worker[w].pc = "model"
         PROVE  Ordered(Heard, 0, <<>>, issued)
    <2>1. Turn = 0 /\ Left = <<>>
      BY <1>1, <1>3, <1>11 DEF Conversing
    <2>. QED
      BY <1>5, <2>1
  <1>12. ASSUME worker[w].pc = "model", NEW n \in {1, 2}, issued' = issued + n,
                d.cur = issued + 1, d.rem = [i \in 1 .. n - 1 |-> issued + 1 + i]
         PROVE  Ordered(Heard', Turn', Left', issued')
    <2>1. Ordered(Heard, d.cur, d.rem, issued + n)
      BY <1>4, <1>11, <1>12, OrderedPropose
    <2>2. d.cur \in Calls \cup {0} /\ d.rem \in Seq(Calls) /\ issued + n \in Nat
      BY <1>1, <1>4 DEF Checkpoint
    <2>. QED
      BY <1>2, <1>7, <1>12, <2>1, <2>2
  <1>13. CASE /\ worker[w].pc = "model" /\ issued' = issued
              /\ d.cur = 0 /\ d.rem = <<>>
    BY <1>2, <1>4, <1>7, <1>11, <1>13, EmptyTyped
  <1>. QED
    BY <1>8, <1>9, <1>10, <1>12, <1>13 DEF Wrote, Follows

\* A consumed refusal is told as the result of the call it was asked for.
LEMMA RestoredOrdered ==
    ASSUME Inductive, Asking, Conversing, NEW w \in Workers, RestoreApproval(w)
    PROVE  Ordered(Heard', Turn', Left', issued')
  <1>. DEFINE d == Decided(worker[w].cp)
  <1>1. TypeOK /\ LeaseholderIsCurrent /\ approval \in [Calls -> Approval]
    BY DEF Inductive, TypeOK
  <1>2. d \in Checkpoint /\ run.pending \in Calls /\ run'.cp = d /\ run.status = "running"
    BY <1>1, RestoredRow
  <1>3. /\ worker[w].cp = run.cp /\ run.cp # None /\ run.cp \in Checkpoint
        /\ issued' = issued
    BY <1>1 DEF RestoreApproval, LeaseholderIsCurrent, Working, TypeOK, RunRow, toolVars
  <1>4. Turn = run.pending /\ approval[run.pending].rem = Left /\ run.pending # 0
    BY <1>2 DEF Conversing, Calls
  <1>5. Turn = run.cp.cur /\ Left = run.cp.rem /\ Heard = run.cp.msgs
    BY <1>3 DEF Turn, Left, Heard
  <1>6. \/ d.msgs = Heard /\ d.cur = Turn /\ d.rem = Left
        \/ d.msgs = Append(Heard, <<"error", Turn>>) /\ d.cur = 0 /\ d.rem = Left
    BY <1>3, <1>4, <1>5 DEF Decided, Checkpoint
  <1>7. d # None
    BY <1>2, NoneIsNull
  <1>. HIDE DEF d
  <1>8. Heard' = d.msgs /\ Turn' = d.cur /\ Left' = d.rem
    BY <1>2, <1>7 DEF Heard, Turn, Left
  <1>9. /\ Heard \in Seq(Messages) /\ Turn \in Calls
        /\ Left \in Seq(Calls) /\ issued \in Nat
    BY <1>1, <1>2, <1>4, TurnTyped
  <1>10. Ordered(Heard, Turn, Left, issued)
    BY <1>2 DEF Conversing, Nonterminal
  <1>11. Ordered(Append(Heard, <<"error", Turn>>), 0, Left, issued)
    BY <1>9, <1>10, OrderedReport
  <1>. QED
    BY <1>3, <1>6, <1>8, <1>10, <1>11

\* What the other steps keep of a Run that is not over.
LEMMA TurnKept ==
    ASSUME Inductive, Asking, [Next]_vars, run'.status \in Nonterminal
    PROVE  \/ UNCHANGED <<Heard, Turn, Left, issued>>
           \/ \E w \in Workers : \/ \E d, next : Wrote(w, d, next)
                                 \/ RestoreApproval(w)
  <1>. USE DEF userVars, toolVars, seenVars, procVars
  <1>. DEFINE Same == UNCHANGED <<Heard, Turn, Left, issued>>
  <1>1. TypeOK /\ CheckpointsPresent /\ LeaseholderIsCurrent
    BY DEF Inductive
  <1>2. ASSUME run'.cp = run.cp, issued' = issued
        PROVE  Same
    BY <1>2 DEF Heard, Turn, Left
  <1>3. ASSUME Idles
        PROVE  Same
    <2>1. run'.cp = run.cp
      BY <1>1, <1>3, IdlesRow DEF RowKept
    <2>2. issued' = issued
      BY <1>3 DEF Idles, Waiting, Resume,
         AskModel, CallModel, CallRefused, RepeatCall, RefuseTool, ObserveTool, ClaimTool,
         CommitTool, SettleTool, LoseClaim, ConsumeSteers, LoseLease, ClaimRefused,
         Die, Renew, Expire, RecordSteer, Crash, LoadForDecision, DecideRefused, vars
    <2>. QED
      BY <1>2, <2>1, <2>2
  <1>4. ASSUME NEW w \in Workers, Claim(w)
        PROVE  Same
    BY <1>1, <1>2, <1>4, ClaimedRow DEF Claim
  <1>5. ASSUME NEW w \in Workers, PauseForApproval(w) \/ ScheduleRetry(w)
        PROVE  Same
    <2>. DEFINE d(ph) == [run.cp EXCEPT !.phase = ph]
    <2>1. /\ run.cp \in Checkpoint
          /\ \E ph \in {"waiting_approval", "retry_wait"} : run'.cp = d(ph)
      <3>1. worker[w].cp \in Checkpoint /\ worker[w].cp = run.cp /\ run \in RunRow
        BY <1>1, <1>5, StartedTyped DEF PauseForApproval, ScheduleRetry, Working,
           LeaseholderIsCurrent, TypeOK
      <3>2. \E ph \in {"waiting_approval", "retry_wait"} :
               \/ run' = [Released(ph, ph, d(ph)) EXCEPT !.pending = Call(w)]
               \/ run' = [Released(ph, ph, d(ph)) EXCEPT !.retries = @ + 1]
        BY <3>1, <1>5 DEF PauseForApproval, ScheduleRetry
      <3>. HIDE DEF d
      <3>. QED
        BY <3>1, <3>2 DEF Released, RunRow
    <2>2. \A ph \in {"waiting_approval", "retry_wait"} :
            /\ d(ph) \in Checkpoint /\ d(ph).msgs = run.cp.msgs
            /\ d(ph).cur = run.cp.cur /\ d(ph).rem = run.cp.rem
      BY <2>1 DEF Checkpoint, Phases
    <2>3. issued' = issued
      BY <1>5 DEF PauseForApproval, ScheduleRetry
    <2>. HIDE DEF d
    <2>4. run'.cp \in Checkpoint /\ run'.cp.msgs = run.cp.msgs
          /\ run'.cp.cur = run.cp.cur /\ run'.cp.rem = run.cp.rem
      BY <2>1, <2>2
    <2>. QED
      BY <2>1, <2>3, <2>4, NoneIsNull DEF Heard, Turn, Left
  <1>6. ASSUME NEW w \in Workers, Finalize(w)
        PROVE  FALSE
    BY <1>1, <1>6, FinalizedRow DEF Nonterminal
  <1>7. ~(Cancel \/ \E w \in Workers : Fail(w))
    BY <1>1, TerminatedRow DEF Nonterminal
  <1>8. ASSUME Restart
        PROVE  Same
    <2>1. run'.cp = run.cp
      BY <1>1, <1>8, RestartedRow DEF Nonterminal
    <2>. QED
      BY <1>2, <1>8, <2>1 DEF Restart
  <1>9. ASSUME NEW e \in Deciders, Decide(e)
        PROVE  Same
    BY <1>2, <1>9, DecidedRow DEF Decide
  <1>. HIDE DEF Same
  <1>10. Same \/ \E w \in Workers : \/ \E d, next : Wrote(w, d, next)
                                    \/ RestoreApproval(w)
    BY <1>1, <1>3, <1>4, <1>5, <1>6, <1>7, <1>8, <1>9, AllSteps
  <1>. QED
    BY <1>10 DEF Same

\* A pending approval stays that of the current call.
LEMMA PendingStep ==
    ASSUME Inductive, Asking, Conversing, [Next]_vars, run'.pending # 0
    PROVE  Turn' = run'.pending /\ approval'[run'.pending].rem = Left'
  <1>. USE DEF userVars, toolVars, seenVars, procVars
  <1>. DEFINE Goal == Turn' = run'.pending /\ approval'[run'.pending].rem = Left'
  <1>1. /\ TypeOK /\ CheckpointsPresent /\ LeaseholderIsCurrent
        /\ run.pending \in Calls \cup {0} /\ approval \in [Calls -> Approval]
    BY DEF Inductive, TypeOK, RunRow
  <1>2. ASSUME run'.cp = run.cp, run'.pending = run.pending,
               approval'[run.pending].rem = approval[run.pending].rem
        PROVE  Goal
    BY <1>2 DEF Conversing, Turn, Left
  <1>3. ASSUME Idles
        PROVE  Goal
    BY <1>1, <1>2, <1>3, IdlesRow DEF RowKept
  <1>4. ASSUME NEW w \in Workers, Claim(w)
        PROVE  Goal
    BY <1>1, <1>2, <1>4, ClaimedRow
  <1>5. ASSUME NEW w \in Workers, NEW d, NEW next, Wrote(w, d, next)
        PROVE  FALSE
    BY <1>1, <1>5, NoPending, WroteRow
  <1>6. ASSUME NEW w \in Workers, RestoreApproval(w) \/ Finalize(w) \/ Fail(w) \/ Cancel
        PROVE  FALSE
    BY <1>1, <1>6, RestoredRow, FinalizedRow, TerminatedRow
  <1>7. ~Cancel
    BY <1>1, TerminatedRow
  <1>8. ASSUME NEW w \in Workers, ScheduleRetry(w)
        PROVE  FALSE
    BY <1>1, <1>8, RetriedRow DEF Asking, HoldersFit, Working
  <1>9. ASSUME NEW w \in Workers, PauseForApproval(w)
        PROVE  Goal
    <2>. DEFINE d == [worker[w].cp EXCEPT !.phase = "waiting_approval"]
    <2>1. worker[w].cp \in Checkpoint /\ Call(w) # 0 /\ worker[w].cp = run.cp
      BY <1>1, <1>9, StartedTyped DEF PauseForApproval, Working, CheckpointsPresent,
         LeaseholderIsCurrent
    <2>2. Call(w) \in Calls
      BY <2>1 DEF Call, Checkpoint
    <2>. HIDE DEF d
    <2>3. /\ run'.cp = d /\ run'.pending = Call(w)
          /\ approval[Call(w)].decision = "none"
      BY <1>9, <2>2, PausedApproval DEF d
    <2>4. approval'[Call(w)].rem = run.cp.rem
      BY <1>1, <1>9, <2>1, <2>2, <2>3 DEF PauseForApproval
    <2>5. d \in Checkpoint /\ d.cur = run.cp.cur /\ d.rem = run.cp.rem
      BY <2>1 DEF Checkpoint, Phases, d
    <2>6. d # None /\ Call(w) = run.cp.cur
      BY <2>1, <2>5, NoneIsNull DEF Call
    <2>. QED
      BY <2>3, <2>4, <2>5, <2>6 DEF Turn, Left
  <1>10. ASSUME Restart
         PROVE  Goal
    BY <1>1, <1>2, <1>10, RestartedRow
  <1>11. ASSUME NEW e \in Deciders, Decide(e)
         PROVE  Goal
    <2>1. /\ run'.cp = run.cp /\ run'.pending = run.pending /\ run.pending \in Calls
          /\ approval' = [approval EXCEPT ![run.pending].decision = request[e].choice]
      BY <1>11, DecidedRow
    <2>2. approval'[run.pending].rem = approval[run.pending].rem
      BY <1>1, <2>1 DEF Approval
    <2>. QED
      BY <1>2, <2>1, <2>2
  <1>. HIDE DEF Goal
  <1>12. Goal
    BY <1>1, <1>3, <1>4, <1>5, <1>6, <1>7, <1>8, <1>9, <1>10, <1>11, AllSteps
  <1>. QED
    BY <1>12 DEF Goal

\* Who is about to ask the model has told it all results.
LEMMA AskingModelStep ==
    ASSUME Inductive, Asking, Conversing, [Next]_vars, NEW v \in Workers,
           worker'[v].pc \in {"reserve", "call", "again", "model"}, Leased(v)'
    PROVE  Current(v)' = 0 /\ Remaining(v)' = <<>>
  <1>1. /\ TypeOK /\ CheckpointsPresent /\ TokensDistinct
        /\ worker \in [Workers -> Task] /\ worker'[v].pc \in Working
    BY DEF Inductive, TypeOK, Working
  <1>2. CASE worker[v].pc \in Working /\ Leased(v) /\ worker'[v] = worker[v]
    BY <1>2 DEF Conversing, Current, Remaining
  <1>3. ASSUME NEW d, NEW next, Wrote(v, d, next)
        PROVE  Current(v)' = 0 /\ Remaining(v)' = <<>>
    <2>1. /\ worker'[v].pc = next /\ worker'[v].cp = d /\ d # None
          /\ next \in {"reserve", "call"} /\ Leased(v)
      BY <1>1, <1>3, WroteRow, NoneIsNull DEF Wrote
    <2>2. d.cur = Current(v) /\ d.rem = Remaining(v)
          /\ (next = "call" => worker[v].pc = "reserve")
          /\ (next = "reserve" => Current(v) = 0 /\ Remaining(v) = <<>>)
      BY <1>3, <2>1 DEF Wrote, Follows
    <2>3. Current(v) = 0 /\ Remaining(v) = <<>>
      BY <2>1, <2>2 DEF Conversing
    <2>. QED
      BY <2>1, <2>2, <2>3 DEF Current, Remaining
  <1>4. CASE worker[v].pc \in Working /\ Leased(v) /\ Waiting(v) /\ Moves(v)
    <2>1. worker'[v].cp = worker[v].cp
      BY <1>1, <1>4, MovedRow
    <2>2. \/ worker[v].pc \in {"call", "again"}
          \/ worker[v].cp # None /\ worker[v].cp.cur = 0 /\ worker[v].cp.rem = <<>>
      <3>1. CASE AskModel(v)
        BY <3>1 DEF AskModel, CallModel, CallRefused, RepeatCall
      <3>2. CASE ~AskModel(v)
        BY <1>1, <1>4, <3>2 DEF Waiting, Resume, ResumePoint, RefuseTool, ObserveTool,
           ClaimTool, CommitTool, SettleTool, LoseClaim, ConsumeSteers, InLoop, Returns,
           Task, CheckpointsPresent, Working
      <3>. QED
        BY <3>1, <3>2
    <2>3. Current(v) = 0 /\ Remaining(v) = <<>>
      BY <1>4, <2>2 DEF Conversing, Current, Remaining
    <2>. QED
      BY <2>1, <2>3 DEF Current, Remaining
  <1>5. ~Claim(v)
    BY <1>1, ClaimedRow
  <1>6. ~RestoreApproval(v)
    BY <1>1, RestoredRow
  <1>. QED
    BY <1>1, <1>2, <1>3, <1>4, <1>5, <1>6, HolderSteps

\* The calls stay in order.
LEMMA ConversingStep == Inductive /\ Asking /\ Conversing /\ [Next]_vars => Conversing'
  <1>. SUFFICES ASSUME Inductive, Asking, Conversing, [Next]_vars PROVE Conversing'
    OBVIOUS
  <1>1. ASSUME run'.status \in Nonterminal
        PROVE  Ordered(Heard', Turn', Left', issued')
    <2>1. CASE UNCHANGED <<Heard, Turn, Left, issued>>
      <3>1. Ordered(Heard, Turn, Left, issued)
        BY <1>1, HeardSteps DEF Conversing
      <3>. QED
        BY <2>1, <3>1
    <2>. QED
      BY <1>1, <2>1, TurnKept, WroteOrdered, RestoredOrdered
  <1>2. run'.status \in Nonterminal => Ordered(Heard, Turn, Left, issued)'
    BY <1>1 DEF Ordered, Told, Results
  <1>. QED
    BY <1>2, PendingStep, AskingModelStep DEF Conversing
-----------------------------------------------------------------------------
(* The conversation: the budget of model calls.                            *)

\* The tasks that have reserved a model call and not made it, and those whose
\* request was refused and is to be repeated.
Callers == {w \in Workers : worker[w].pc = "call"}
Repeaters == {w \in Workers : worker[w].pc = "again"}

\* The model calls on the durable budget.
Budget == IF run.cp = None THEN 0 ELSE run.cp.models

\* Every call that was made or may still be made is on the budget, and every
\* request that was or will be repeated is one of a call that was made.
Budgeted ==
    /\ IsFiniteSet(Callers)
    /\ run.status \in Nonterminal => provider.calls + Cardinality(Callers) <= Budget

Repeated ==
    /\ IsFiniteSet(Repeaters)
    /\ provider.repeats + Cardinality(Repeaters) <= provider.calls

\* No task gets to a place where it sends a request but by a write that reserves
\* the call, or by the request before.
LEMMA RequestSteps ==
    ASSUME Inductive, [Next]_vars
    PROVE  \/ /\ provider' = provider
              /\ \A v \in Workers : worker'[v] = worker[v]
                                     \/ worker'[v].pc \notin {"call", "again"}
           \/ \E w \in Workers :
                /\ AskModel(w)
                /\ worker' = [worker EXCEPT ![w].pc = worker'[w].pc]
           \/ \E w \in Workers : \E d :
                /\ Wrote(w, d, "call") /\ provider' = provider
                /\ worker[w].pc = "reserve" /\ worker'[w].pc = "call"
                /\ \A v \in Workers \ {w} : worker'[v] = worker[v]
  <1>. USE DEF userVars, toolVars, seenVars, procVars
  <1>. DEFINE Stays ==
         /\ provider' = provider
         /\ \A v \in Workers : worker'[v] = worker[v]
                                \/ worker'[v].pc \notin {"call", "again"}
  <1>. DEFINE Asks == \E w \in Workers :
         AskModel(w) /\ worker' = [worker EXCEPT ![w].pc = worker'[w].pc]
  <1>. DEFINE Reserves == \E w \in Workers : \E d :
         /\ Wrote(w, d, "call") /\ provider' = provider
         /\ worker[w].pc = "reserve" /\ worker'[w].pc = "call"
         /\ \A v \in Workers \ {w} : worker'[v] = worker[v]
  <1>1. TypeOK /\ CheckpointsPresent /\ worker \in [Workers -> Task]
    BY DEF Inductive, TypeOK
  <1>3. ASSUME NEW w \in Workers, NEW d, NEW next, Wrote(w, d, next)
        PROVE  Stays \/ Reserves
    <2>1. /\ worker'[w].pc = next /\ provider' = provider
          /\ \A v \in Workers \ {w} : worker'[v] = worker[v]
      BY <1>1, <1>3, WroteRow DEF Wrote
    <2>2. CASE next # "call"
      <3>1. next # "again"
        BY <1>3 DEF Wrote
      <3>. QED
        BY <2>1, <2>2, <3>1
    <2>3. CASE next = "call"
      <3>1. worker[w].pc = "reserve"
        BY <1>3, <2>3 DEF Wrote, Follows
      <3>2. Reserves
        BY <1>3, <2>1, <2>3, <3>1
      <3>. QED
        BY <3>2
    <2>. QED
      BY <2>2, <2>3
  <1>4. ASSUME NEW w \in Workers, Waiting(w), Moves(w)
        PROVE  Stays \/ Asks
    <2>1. \A v \in Workers \ {w} : worker'[v] = worker[v]
      BY <1>1, <1>4, MovedRow
    <2>2. CASE AskModel(w)
      <3>1. \E p : worker' = [worker EXCEPT ![w].pc = p]
        BY <2>2 DEF AskModel, CallModel, CallRefused, RepeatCall
      <3>2. worker' = [worker EXCEPT ![w].pc = worker'[w].pc]
        BY <1>1, <3>1 DEF Task
      <3>. QED
        BY <2>2, <3>2
    <2>3. CASE ~AskModel(w)
      <3>1. provider' = provider /\ worker'[w].pc \notin {"call", "again"}
        BY <1>1, <1>4, <2>3 DEF Waiting, Resume, ResumePoint, RefuseTool, ObserveTool,
           ClaimTool, CommitTool, SettleTool, LoseClaim, ConsumeSteers, Returns, Task
      <3>. QED
        BY <2>1, <3>1
    <2>. QED
      BY <2>2, <2>3
  <1>5. ASSUME NEW w \in Workers, Claim(w) \/ RestoreApproval(w)
        PROVE  Stays
    <2>1. /\ worker'[w].pc \notin {"call", "again"}
          /\ \A v \in Workers \ {w} : worker'[v] = worker[v]
          /\ provider' = provider
      BY <1>1, <1>5, ClaimedRow, RestoredRow DEF RestoreApproval
    <2>. QED
      BY <2>1
  <1>6. ASSUME NEW w \in Workers,
               \/ PauseForApproval(w) \/ Finalize(w) \/ ScheduleRetry(w) \/ Fail(w)
               \/ LoseLease(w) \/ ClaimRefused(w) \/ Die(w)
        PROVE  Stays
    <2>1. Leaves(w)
      BY <1>6, LeavingSteps
    <2>2. provider' = provider
      BY <1>6 DEF PauseForApproval, Finalize, ScheduleRetry, Fail, LoseLease,
         ClaimRefused, Die
    <2>. QED
      BY <1>1, <2>1, <2>2 DEF Leaves, IdleTask
  <1>7. ASSUME Cancel \/ Restart
        PROVE  Stays
    <2>1. worker' = worker /\ provider' = provider
      BY <1>1, <1>7, TerminatedRow, RestartedRow DEF Cancel
    <2>. QED
      BY <2>1
  <1>8. ASSUME NEW e \in Deciders,
               \/ \E choice \in {"approve", "reject"} : LoadForDecision(e, choice)
               \/ DecideRefused(e) \/ Decide(e)
        PROVE  Stays
    <2>1. worker' = worker /\ provider' = provider
      BY <1>8 DEF LoadForDecision, DecideRefused, Decide
    <2>. QED
      BY <2>1
  <1>9. ASSUME NEW w \in Workers, Renew(w)
        PROVE  Stays
    <2>1. worker' = worker /\ provider' = provider
      BY <1>9 DEF Renew
    <2>. QED
      BY <2>1
  <1>10. ASSUME Expire \/ RecordSteer \/ Crash \/ UNCHANGED vars
         PROVE  Stays
    BY <1>10 DEF Expire, RecordSteer, Crash, vars, IdleTask
  <1>. HIDE DEF Stays, Asks, Reserves
  <1>11. Stays \/ Asks \/ Reserves
    BY <1>1, <1>3, <1>4, <1>5, <1>6, <1>7, <1>8, <1>9, <1>10, AllSteps DEF Idles
  <1>. QED
    BY <1>11 DEF Stays, Asks, Reserves

\* A task that calls the model leaves the callers, and one that has reserved a
\* call joins them.
LEMMA CallersStep ==
    ASSUME Inductive, [Next]_vars
    PROVE  \/ Callers' \subseteq Callers /\ provider'.calls = provider.calls
           \/ \E w \in Callers : /\ Callers' = Callers \ {w}
                                 /\ provider'.calls = provider.calls + 1
           \/ \E w \in Workers \ Callers : \E d :
                /\ Wrote(w, d, "call")
                /\ Callers' = Callers \cup {w} /\ provider'.calls = provider.calls
  <1>1. /\ worker \in [Workers -> Task]
        /\ provider \in [calls : Nat, repeats : Nat]
    BY DEF Inductive, TypeOK
  <1>2. CASE /\ provider' = provider
             /\ \A v \in Workers : worker'[v] = worker[v]
                                    \/ worker'[v].pc \notin {"call", "again"}
    BY <1>2 DEF Callers
  <1>3. ASSUME NEW w \in Workers, AskModel(w),
               worker' = [worker EXCEPT ![w].pc = worker'[w].pc]
        PROVE  \/ Callers' \subseteq Callers /\ provider'.calls = provider.calls
               \/ \E v \in Callers : /\ Callers' = Callers \ {v}
                                     /\ provider'.calls = provider.calls + 1
    <2>1. \A v \in Workers \ {w} : worker'[v] = worker[v]
      BY <1>1, <1>3
    <2>2. CASE RepeatCall(w)
      <3>1. worker'[w].pc = "model" /\ provider'.calls = provider.calls
        BY <1>1, <2>2 DEF RepeatCall, Task
      <3>. QED
        BY <2>1, <3>1 DEF Callers
    <2>3. CASE CallModel(w) \/ CallRefused(w)
      <3>1. /\ worker[w].pc = "call" /\ worker'[w].pc # "call"
            /\ provider' = [provider EXCEPT !.calls = @ + 1]
        BY <1>1, <2>3 DEF CallModel, CallRefused, Task
      <3>3. provider'.calls = provider.calls + 1
        BY <1>1, <3>1
      <3>2. w \in Callers /\ Callers' = Callers \ {w}
        BY <2>1, <3>1 DEF Callers
      <3>. QED
        BY <3>2, <3>3
    <2>. QED
      BY <1>3, <2>2, <2>3 DEF AskModel
  <1>4. ASSUME NEW w \in Workers, NEW d, Wrote(w, d, "call"), provider' = provider,
               worker[w].pc = "reserve", worker'[w].pc = "call",
               \A v \in Workers \ {w} : worker'[v] = worker[v]
        PROVE  w \in Workers \ Callers /\ Callers' = Callers \cup {w}
    BY <1>4 DEF Callers
  <1>. QED
    BY <1>2, <1>3, <1>4, RequestSteps

\* A task whose request was refused joins the repeaters with a call that was made,
\* and one that has repeated its request leaves them.
LEMMA RepeatersStep ==
    ASSUME Inductive, [Next]_vars
    PROVE  \/ /\ Repeaters' \subseteq Repeaters /\ provider'.repeats = provider.repeats
              /\ provider'.calls >= provider.calls
           \/ \E w \in Repeaters :
                /\ Repeaters' = Repeaters \ {w}
                /\ provider'.repeats = provider.repeats + 1
                /\ provider'.calls = provider.calls
           \/ \E w \in Workers \ Repeaters :
                /\ Repeaters' = Repeaters \cup {w}
                /\ provider'.repeats = provider.repeats
                /\ provider'.calls = provider.calls + 1
  <1>1. /\ worker \in [Workers -> Task]
        /\ provider \in [calls : Nat, repeats : Nat]
    BY DEF Inductive, TypeOK
  <1>2. CASE /\ provider' = provider
             /\ \A v \in Workers : worker'[v] = worker[v]
                                    \/ worker'[v].pc \notin {"call", "again"}
    BY <1>1, <1>2 DEF Repeaters
  <1>3. ASSUME NEW w \in Workers, NEW d, Wrote(w, d, "call"), provider' = provider,
               worker'[w].pc = "call",
               \A v \in Workers \ {w} : worker'[v] = worker[v]
        PROVE  Repeaters' \subseteq Repeaters
    BY <1>3 DEF Repeaters
  <1>4. ASSUME NEW w \in Workers, AskModel(w),
               worker' = [worker EXCEPT ![w].pc = worker'[w].pc]
        PROVE  \A v \in Workers \ {w} : worker'[v] = worker[v]
    BY <1>1, <1>4
  <1>5. ASSUME NEW w \in Workers, CallModel(w),
               \A v \in Workers \ {w} : worker'[v] = worker[v]
        PROVE  /\ Repeaters' \subseteq Repeaters /\ provider'.repeats = provider.repeats
               /\ provider'.calls >= provider.calls
    <2>1. /\ worker'[w].pc = "model" /\ provider'.repeats = provider.repeats
          /\ provider'.calls = provider.calls + 1
      BY <1>1, <1>5 DEF CallModel, Task
    <2>. QED
      BY <1>1, <1>5, <2>1 DEF Repeaters
  <1>6. ASSUME NEW w \in Workers, CallRefused(w),
               \A v \in Workers \ {w} : worker'[v] = worker[v]
        PROVE  /\ w \in Workers \ Repeaters /\ Repeaters' = Repeaters \cup {w}
               /\ provider'.repeats = provider.repeats
               /\ provider'.calls = provider.calls + 1
    <2>1. /\ worker[w].pc = "call" /\ worker'[w].pc = "again"
          /\ provider'.repeats = provider.repeats
          /\ provider'.calls = provider.calls + 1
      BY <1>1, <1>6 DEF CallRefused, Task
    <2>. QED
      BY <1>6, <2>1 DEF Repeaters
  <1>7. ASSUME NEW w \in Workers, RepeatCall(w),
               \A v \in Workers \ {w} : worker'[v] = worker[v]
        PROVE  /\ w \in Repeaters /\ Repeaters' = Repeaters \ {w}
               /\ provider'.repeats = provider.repeats + 1
               /\ provider'.calls = provider.calls
    <2>1. /\ worker[w].pc = "again" /\ worker'[w].pc = "model"
          /\ provider'.repeats = provider.repeats + 1
          /\ provider'.calls = provider.calls
      BY <1>1, <1>7 DEF RepeatCall, Task
    <2>. QED
      BY <1>7, <2>1 DEF Repeaters
  <1>8. CASE \E w \in Workers : \E d :
                /\ Wrote(w, d, "call") /\ provider' = provider
                /\ worker[w].pc = "reserve" /\ worker'[w].pc = "call"
                /\ \A v \in Workers \ {w} : worker'[v] = worker[v]
    BY <1>1, <1>3, <1>8
  <1>. QED
    BY <1>2, <1>4, <1>5, <1>6, <1>7, <1>8, RequestSteps DEF AskModel

\* A live checkpoint never forgets a reserved call.
LEMMA BudgetStep ==
    ASSUME Inductive, Asking, [Next]_vars, run'.status \in Nonterminal
    PROVE  /\ Budget \in Nat /\ Budget' \in Nat /\ Budget' >= Budget
           /\ \A w \in Workers : \A d : Wrote(w, d, "call") => Budget' = Budget + 1
  <1>. USE DEF userVars, toolVars, seenVars, procVars
  <1>1. /\ TypeOK /\ CheckpointsPresent /\ LeaseholderIsCurrent /\ run \in RunRow
    BY DEF Inductive, TypeOK
  <1>2. Budget \in Nat
    BY <1>1 DEF RunRow, Checkpoint, Budget
  <1>3. ASSUME NEW w \in Workers, NEW d, NEW next, Wrote(w, d, next)
        PROVE  Budget' = IF next = "call" THEN Budget + 1 ELSE Budget
    <2>1. d # None /\ run'.cp = d /\ worker[w].cp = run.cp
      BY <1>1, <1>3, WroteRow, NoneIsNull DEF Wrote, LeaseholderIsCurrent
    <2>2. Models(w) = Budget /\ Budget' = d.models
      BY <2>1 DEF Models, Budget
    <2>. QED
      BY <1>3, <2>2 DEF Wrote
  <1>4. ASSUME run'.cp = run.cp
        PROVE  Budget' = Budget
    BY <1>4 DEF Budget
  <1>5. ASSUME Idles
        PROVE  Budget' = Budget
    BY <1>1, <1>4, <1>5, IdlesRow DEF RowKept
  <1>6. ASSUME NEW w \in Workers, Claim(w)
        PROVE  Budget' = Budget
    BY <1>1, <1>4, <1>6, ClaimedRow
  <1>7. ASSUME NEW w \in Workers, ScheduleRetry(w)
        PROVE  Budget' = Budget
    BY <1>1, <1>7, RetriedRow, NoneIsNull DEF Budget
  <1>8. ASSUME NEW w \in Workers, RestoreApproval(w)
        PROVE  Budget' = Budget
    <2>. DEFINE d == Decided(worker[w].cp)
    <2>1. d \in Checkpoint /\ run'.cp = d
      BY <1>1, <1>8, RestoredRow
    <2>2. worker[w].cp = run.cp /\ run.cp # None /\ run.cp \in Checkpoint
      BY <1>1, <1>8 DEF RestoreApproval, LeaseholderIsCurrent, Working, RunRow
    <2>3. d.models = run.cp.models
      BY <2>2 DEF Decided, Checkpoint
    <2>. HIDE DEF d
    <2>. QED
      BY <2>1, <2>2, <2>3, NoneIsNull DEF Budget
  <1>9. ASSUME NEW w \in Workers, PauseForApproval(w)
        PROVE  Budget' = Budget
    <2>. DEFINE d == [worker[w].cp EXCEPT !.phase = "waiting_approval"]
    <2>1. worker[w].cp \in Checkpoint /\ Call(w) # 0 /\ worker[w].cp = run.cp
      BY <1>1, <1>9, StartedTyped DEF PauseForApproval, Working, CheckpointsPresent,
         LeaseholderIsCurrent
    <2>2. Call(w) \in Calls
      BY <2>1 DEF Call, Checkpoint
    <2>. HIDE DEF d
    <2>3. run'.cp = d
      BY <1>9, <2>2, PausedApproval DEF d
    <2>4. d \in Checkpoint /\ d.models = run.cp.models
      BY <2>1 DEF Checkpoint, Phases, d
    <2>. QED
      BY <2>1, <2>3, <2>4, NoneIsNull DEF Budget
  <1>10. ASSUME NEW w \in Workers, Finalize(w)
         PROVE  FALSE
    BY <1>1, <1>10, FinalizedRow DEF Nonterminal
  <1>11. ~(Cancel \/ \E w \in Workers : Fail(w))
    BY <1>1, TerminatedRow DEF Nonterminal
  <1>12. ASSUME Restart
         PROVE  Budget' = Budget
    BY <1>1, <1>4, <1>12, RestartedRow DEF Nonterminal
  <1>13. ASSUME NEW e \in Deciders, Decide(e)
         PROVE  Budget' = Budget
    BY <1>4, <1>13, DecidedRow
  <1>14. Budget' = Budget \/ \E w \in Workers : \E d, next : Wrote(w, d, next)
    BY <1>1, <1>5, <1>6, <1>7, <1>8, <1>9, <1>10, <1>11, <1>12, <1>13, AllSteps
  <1>15. Budget' \in Nat /\ Budget' >= Budget
    BY <1>2, <1>3, <1>14
  <1>. QED
    BY <1>2, <1>3, <1>15

\* The budget covers the calls after every step.
LEMMA BudgetedStep == Inductive /\ Asking /\ Budgeted /\ [Next]_vars => Budgeted'
  <1>. SUFFICES ASSUME Inductive, Asking, Budgeted, [Next]_vars PROVE Budgeted'
    OBVIOUS
  <1>1. provider.calls \in Nat /\ IsFiniteSet(Callers) /\ Cardinality(Callers) \in Nat
    BY FS_CardinalityType DEF Budgeted, Inductive, TypeOK
  <1>2. ASSUME run'.status \in Nonterminal
        PROVE  /\ provider.calls + Cardinality(Callers) <= Budget
               /\ Budget \in Nat /\ Budget' \in Nat /\ Budget' >= Budget
               /\ \A w \in Workers : \A d : Wrote(w, d, "call") => Budget' = Budget + 1
    BY <1>2, HeardSteps, BudgetStep DEF Budgeted
  <1>3. ASSUME Callers' \subseteq Callers, provider'.calls = provider.calls
        PROVE  Budgeted'
    <2>1. IsFiniteSet(Callers') /\ Cardinality(Callers') <= Cardinality(Callers)
          /\ Cardinality(Callers') \in Nat
      BY <1>1, <1>3, FS_Subset, FS_CardinalityType
    <2>. QED
      BY <1>1, <1>2, <1>3, <2>1 DEF Budgeted
  <1>4. ASSUME NEW w \in Callers, Callers' = Callers \ {w},
               provider'.calls = provider.calls + 1
        PROVE  Budgeted'
    <2>1. IsFiniteSet(Callers') /\ Cardinality(Callers') = Cardinality(Callers) - 1
      BY <1>1, <1>4, FS_RemoveElement
    <2>. QED
      BY <1>1, <1>2, <1>4, <2>1 DEF Budgeted
  <1>5. ASSUME NEW w \in Workers \ Callers, NEW d, Wrote(w, d, "call"),
               Callers' = Callers \cup {w}, provider'.calls = provider.calls
        PROVE  Budgeted'
    <2>1. IsFiniteSet(Callers') /\ Cardinality(Callers') = Cardinality(Callers) + 1
      BY <1>1, <1>5, FS_AddElement
    <2>. QED
      BY <1>1, <1>2, <1>5, <2>1 DEF Budgeted
  <1>. QED
    BY <1>3, <1>4, <1>5, CallersStep

\* No more requests are repeated than calls are made.
LEMMA RepeatedStep == Inductive /\ Repeated /\ [Next]_vars => Repeated'
  <1>. SUFFICES ASSUME Inductive, Repeated, [Next]_vars PROVE Repeated'
    OBVIOUS
  <1>1. /\ provider.calls \in Nat /\ provider.repeats \in Nat
        /\ IsFiniteSet(Repeaters) /\ Cardinality(Repeaters) \in Nat
        /\ provider.repeats + Cardinality(Repeaters) <= provider.calls
    BY FS_CardinalityType DEF Repeated, Inductive, TypeOK
  <1>2. provider'.calls \in Nat
    BY StepInductive DEF Inductive, TypeOK
  <1>3. ASSUME Repeaters' \subseteq Repeaters, provider'.repeats = provider.repeats,
               provider'.calls >= provider.calls
        PROVE  Repeated'
    <2>1. IsFiniteSet(Repeaters') /\ Cardinality(Repeaters') <= Cardinality(Repeaters)
          /\ Cardinality(Repeaters') \in Nat
      BY <1>1, <1>3, FS_Subset, FS_CardinalityType
    <2>. QED
      BY <1>1, <1>2, <1>3, <2>1 DEF Repeated
  <1>4. ASSUME NEW w \in Repeaters, Repeaters' = Repeaters \ {w},
               provider'.repeats = provider.repeats + 1,
               provider'.calls = provider.calls
        PROVE  Repeated'
    <2>1. IsFiniteSet(Repeaters') /\ Cardinality(Repeaters') = Cardinality(Repeaters) - 1
      BY <1>1, <1>4, FS_RemoveElement
    <2>. QED
      BY <1>1, <1>4, <2>1 DEF Repeated
  <1>5. ASSUME NEW w \in Workers \ Repeaters, Repeaters' = Repeaters \cup {w},
               provider'.repeats = provider.repeats,
               provider'.calls = provider.calls + 1
        PROVE  Repeated'
    <2>1. IsFiniteSet(Repeaters') /\ Cardinality(Repeaters') = Cardinality(Repeaters) + 1
      BY <1>1, <1>5, FS_AddElement
    <2>. QED
      BY <1>1, <1>5, <2>1 DEF Repeated
  <1>. QED
    BY <1>3, <1>4, <1>5, RepeatersStep

-----------------------------------------------------------------------------
\* The conversation begins empty, in order and on budget.
LEMMA ConversationInit == Init => Truthful /\ Conversing /\ Budgeted /\ Repeated
  <1>. SUFFICES ASSUME Init PROVE Truthful /\ Conversing /\ Budgeted /\ Repeated
    OBVIOUS
  <1>1. /\ run.status = "queued" /\ run.cp = None /\ run.pending = 0 /\ issued = 0
        /\ provider.calls = 0 /\ provider.repeats = 0
        /\ \A w \in Workers : worker[w].pc = "idle"
        /\ \A c \in Calls : inv[c].status = "none"
    BY DEF Init, IdleTask
  <1>2. /\ Heard = <<>> /\ Turn = 0 /\ Left = <<>>
        /\ Callers = {} /\ Repeaters = {} /\ Budget = 0
    BY <1>1 DEF Heard, Turn, Left, Callers, Repeaters, Budget
  <1>. DEFINE none == <<>>
  <1>3. Len(none) = 0 /\ 1 .. Len(none) = {}
    OBVIOUS
  <1>. HIDE DEF none
  <1>4. Real(none)
    BY <1>3 DEF Real
  <1>5. Told(none, 0)
    BY <1>3 DEF Told, Results
  <1>6. Ordered(none, 0, none, 0)
    BY <1>3, <1>5 DEF Ordered
  <1>7. Truthful
    BY <1>1, <1>2, <1>4 DEF Truthful, none
  <1>8. Conversing
    BY <1>1, <1>2, <1>6 DEF Conversing, none
  <1>9. Budgeted
    BY <1>1, <1>2, FS_EmptySet DEF Budgeted
  <1>10. Repeated
    BY <1>1, <1>2, FS_EmptySet DEF Repeated
  <1>. QED
    BY <1>7, <1>8, <1>9, <1>10

\* The conversation is true: one answer, every model call on the budget before
\* its first request and at most one request beside it, every tool call's result
\* told once and in the model's order, and no good result without its effect,
\* through refused requests, retries, crashes, takeovers and decisions.
THEOREM ConversationStaysTrue == Spec => []ConversationTrue
  <1>1. Inductive /\ Steering /\ Truthful /\ Conversing /\ Budgeted /\ Repeated
          => ConversationTrue
    <2>. SUFFICES ASSUME Inductive, Steering, Truthful, Conversing, Budgeted, Repeated
                  PROVE  ConversationTrue
      OBVIOUS
    <2>1. AnswerOnce
      BY DEF Steering
    <2>2. RequestsAccounted
      <3>1. /\ Cardinality(Callers) \in Nat /\ Cardinality(Repeaters) \in Nat
            /\ provider.calls \in Nat /\ provider.repeats \in Nat /\ run \in RunRow
        BY FS_CardinalityType DEF Budgeted, Repeated, Inductive, TypeOK
      <3>2. Budget \in Nat
        BY <3>1 DEF Budget, RunRow, Checkpoint
      <3>. QED
        BY <3>1, <3>2 DEF Budgeted, Repeated, RequestsAccounted, Budget
    <2>3. ASSUME run.status \in Nonterminal, run.cp # None
          PROVE  /\ Heard = run.cp.msgs /\ Turn = run.cp.cur /\ Left = run.cp.rem
                 /\ DOMAIN Heard = 1 .. Len(Heard) /\ DOMAIN Left = 1 .. Len(Left)
      <3>1. Heard \in Seq(Messages) /\ Left \in Seq(Calls)
        BY TurnTyped DEF Inductive
      <3>2. Heard = run.cp.msgs /\ Turn = run.cp.cur /\ Left = run.cp.rem
        BY <2>3 DEF Heard, Turn, Left
      <3>. QED
        BY <3>1, <3>2
    <2>4. ToolOrder
      BY <2>3 DEF ToolOrder, Conversing, Ordered, Told, Results
    <2>5. GoodResultIsReal
      BY <2>3 DEF GoodResultIsReal, Truthful, Real
    <2>. QED
      BY <2>1, <2>2, <2>4, <2>5 DEF ConversationTrue
  <1>2. Spec => [](Truthful /\ Conversing /\ Budgeted /\ Repeated)
    BY InitInductive, StepInductive, AskingInit, AskingStep, ConversationInit,
       TruthfulStep, ConversingStep, BudgetedStep, RepeatedStep, PTL DEF Spec
  <1>. QED
    BY <1>1, <1>2, Invariance, SteeringInvariant, PTL
=============================================================================
