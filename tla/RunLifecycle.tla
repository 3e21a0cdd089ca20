---------------------------- MODULE RunLifecycle ----------------------------
(***************************************************************************)
(* One durable Agent Run: its database row, the executor tasks that lease  *)
(* it, the user's steers and approval decisions, the tool invocations it   *)
(* owns, and process crashes (runtime/state.py, runtime/agent.py, the      *)
(* claim protocol of tools/registry.py, api/agent.py).                     *)
(*                                                                         *)
(* Every action is one short database transaction, or one wait that ends   *)
(* outside a transaction; whatever lies between two transactions may be    *)
(* interleaved with everything else.                                       *)
(***************************************************************************)
EXTENDS Integers, Sequences, FiniteSets

CONSTANTS
    Workers,        \* executor tasks that may call AgentRuntime.run
    Deciders,       \* approval requests the API may serve concurrently
    None,           \* the null value of a nullable column
    NSteers,        \* steers the user may send, numbered in sending order
    NCalls,         \* tool calls the model may propose, numbered likewise
    Gated,          \* the calls that need the user's approval
    HasSession,     \* whether the Run belongs to a chat session
    StreamOptions,  \* whether the model service takes stream_options: yes, no,
                    \* or now and then
    MaxSteps,       \* AGENT_MAX_STEPS
    MaxModelCalls,  \* AGENT_MAX_MODEL_CALLS
    MaxRetries,     \* AGENT_RUN_MAX_RETRIES
    MaxAttempts,    \* bound on claims, to keep the state space finite
    MaxCrashes,     \* bound on process crashes, likewise
    MayExpire,      \* whether a lease may outlive its heartbeat
    MayKill,        \* whether a task may be cancelled or die unrecorded
    MayLoseScope    \* whether a restart may find the plan or session gone

Steers == 1 .. NSteers
Calls  == 1 .. NCalls

ASSUME RunConstants ==
    /\ NSteers \in Nat /\ NCalls \in Nat /\ Gated \subseteq Calls
    /\ MaxSteps \in Nat /\ MaxModelCalls \in Nat /\ MaxRetries \in Nat
    /\ MaxAttempts \in Nat /\ MaxCrashes \in Nat
    /\ HasSession \in BOOLEAN /\ StreamOptions \subseteq BOOLEAN
    /\ MayExpire \in BOOLEAN /\ MayKill \in BOOLEAN /\ MayLoseScope \in BOOLEAN

VARIABLES
    run,       \* the agent_runs row
    worker,    \* what each executor task holds in memory
    request,   \* each approval request: None, or the row it has loaded
    disp,      \* run_steer_messages.disposition, by steer
    approval,  \* run_approvals, by gated call
    inv,       \* tool_invocations, by call
    issued,    \* tool calls the checkpoint has accepted from the model
    answers,   \* final assistant messages in the session
    effects,   \* how often each call's effect was committed (observed)
    provider,  \* requests to the model: the first of each call, and those a
               \* call has repeated (observed)
    seen,      \* steers that were part of some model request (observed)
    up,        \* whether the process is running
    crashes

userVars == <<request, disp, approval>>
toolVars == <<inv, issued, effects>>
seenVars == <<answers, provider, seen>>
procVars == <<up, crashes>>
vars == <<run, worker, userVars, toolVars, seenVars, procVars>>

-----------------------------------------------------------------------------
(* Rows and in-memory values.                                              *)

Terminal    == {"completed", "failed", "cancelled"}
Nonterminal == {"queued", "running", "waiting_approval", "retry_wait",
                "needs_reconciliation"}
Phases      == {"not_started", "starting", "awaiting_model", "tool_ready",
                "tool_running", "waiting_approval", "retry_wait",
                "finalizing", "terminal", "reconciling"}
\* What the model says last, which may be nothing, or the text of a limit.
Spoken      == {"answer", "empty"}
Texts       == {"none", "limit"} \cup Spoken

\* The messages of a checkpoint, as far as the properties tell them apart:
\* steers folded together, or a tool result reported as good or bad.
Messages == ({"steers"} \X SUBSET Steers) \cup ({"ok", "error"} \X Calls)

\* The steers a sequence of messages carries.
SteersIn(msgs) ==
    UNION {msgs[i][2] : i \in {j \in DOMAIN msgs : msgs[j][1] = "steers"}}

Checkpoint ==
    [phase : Phases, step : Nat, cur : Calls \cup {0}, rem : Seq(Calls),
     granted : SUBSET Calls, msgs : Seq(Messages), models : Nat, cuts : Nat,
     final : Texts]

FreshCheckpoint ==
    [phase |-> "awaiting_model", step |-> 0, cur |-> 0, rem |-> <<>>,
     granted |-> {}, msgs |-> <<>>, models |-> 0, cuts |-> 0, final |-> "none"]

RunRow ==
    [status : Terminal \cup Nonterminal, phase : Phases, token : Nat,
     version : Nat, attempt : Nat, retries : Nat, expired : BOOLEAN,
     cp : Checkpoint \cup {None}, pending : Calls \cup {0},
     output : Texts, reason : {"none", "scope_unavailable"}]

\* Where a task is between two transactions.
Working == {"claimed", "loop", "reserve", "call", "again", "model", "tool",
            "exec", "done", "final", "failing"}

Task ==
    [pc : Working \cup {"idle", "sleep"}, token : Nat, version : Nat,
     cp : Checkpoint \cup {None}, res : {"none", "ok", "error", "approval"}]

IdleTask == [pc |-> "idle", token |-> 0, version |-> 0, cp |-> None, res |-> "none"]

Request  == [choice : {"approve", "reject"}, row : RunRow]
Approval == [decision : {"none", "pending", "approve", "reject"},
             consumed : BOOLEAN, rem : Seq(Calls)]
Invocation ==
    [status : {"none", "running", "pending_approval", "retry_pending",
               "committed", "failed", "rejected", "cancelled"}, owner : Nat]

\* A null column holds no value of its type.
ASSUME NoneIsNull == None \notin Checkpoint /\ None \notin Request

TypeOK ==
    /\ run \in RunRow
    /\ worker \in [Workers -> Task]
    /\ request \in [Deciders -> Request \cup {None}]
    /\ disp \in [Steers -> {"unsent", "pending", "applied", "queued"}]
    /\ approval \in [Calls -> Approval]
    /\ inv \in [Calls -> Invocation]
    /\ issued \in 0 .. NCalls
    /\ answers \in Seq(Texts)
    /\ effects \in [Calls -> Nat]
    /\ provider \in [calls : Nat, repeats : Nat]
    /\ seen \subseteq Steers
    /\ up \in BOOLEAN
    /\ crashes \in Nat

Init ==
    /\ run = [status |-> "queued", phase |-> "not_started", token |-> 0,
              version |-> 1, attempt |-> 0, retries |-> 0, expired |-> FALSE,
              cp |-> None, pending |-> 0, output |-> "none", reason |-> "none"]
    /\ worker = [w \in Workers |-> IdleTask]
    /\ request = [d \in Deciders |-> None]
    /\ disp = [s \in Steers |-> "unsent"]
    /\ approval = [c \in Calls |->
                     [decision |-> "none", consumed |-> FALSE, rem |-> <<>>]]
    /\ inv = [c \in Calls |-> [status |-> "none", owner |-> 0]]
    /\ issued = 0
    /\ answers = <<>>
    /\ effects = [c \in Calls |-> 0]
    /\ provider = [calls |-> 0, repeats |-> 0]
    /\ seen = {}
    /\ up = TRUE
    /\ crashes = 0

-----------------------------------------------------------------------------
(* The lease, the checkpoint and the steers.                               *)

\* A worker that trusts the row's status alone.
LeasedByStatus(w) == run.status = "running"

\* _leased_predicate: token and version of the row are still the task's.
Leased(w) ==
    /\ run.status = "running"
    /\ run.token = worker[w].token
    /\ run.version = worker[w].version

\* A claim that forgets queued work left by a crash or a retry.
ClaimableFreshOnly == run.status = "queued" /\ run.cp = None

\* claim_run: queued work, a retry whose delay has passed (the clock is not
\* modelled), or a running Run whose lease has expired.
ClaimableRun ==
    \/ run.status \in {"queued", "retry_wait"}
    \/ run.status = "running" /\ run.expired

PendingSteers == {s \in Steers : disp[s] = "pending"}

\* The checkpoint with every pending steer appended, back at the model.
Folded(c) == [c EXCEPT !.msgs = Append(@, <<"steers", PendingSteers>>),
                       !.phase = "awaiting_model"]

AppliedAll == [s \in Steers |-> IF disp[s] = "pending" THEN "applied" ELSE disp[s]]
QueuedAll  == [s \in Steers |-> IF disp[s] = "pending" THEN "queued" ELSE disp[s]]

\* A checkpoint kept in memory while the row only counts the version.
StoreVersionOnly(w, c, next) ==
    /\ run' = [run EXCEPT !.phase = c.phase, !.expired = FALSE,
                          !.version = worker[w].version + 1]
    /\ worker' = [worker EXCEPT ![w].cp = c, ![w].version = @ + 1,
                                ![w].pc = next, ![w].res = "none"]

\* The compare-and-set every leased transaction ends in: the row takes the
\* task's checkpoint, both advance one version, the task goes on at next.
Store(w, c, next) ==
    /\ run' = [run EXCEPT !.cp = c, !.phase = c.phase, !.expired = FALSE,
                          !.version = worker[w].version + 1]
    /\ worker' = [worker EXCEPT ![w].cp = c, ![w].version = @ + 1,
                                ![w].pc = next, ![w].res = "none"]

\* The row of a Run that no task holds any more.
Released(st, ph, c) ==
    [run EXCEPT !.status = st, !.phase = ph, !.cp = c, !.token = 0,
                !.expired = FALSE, !.version = @ + 1]

\* The executor stops: it lost its lease or it has nothing left to do.
Stop(w) == worker' = [worker EXCEPT ![w] = IdleTask]

-----------------------------------------------------------------------------
(* Claiming and starting.                                                  *)

Claim(w) ==
    /\ up
    /\ worker[w].pc \in {"idle", "sleep"}
    /\ ClaimableRun
    /\ run.attempt < MaxAttempts
    /\ run' = [run EXCEPT !.status = "running",
                          !.phase = IF @ = "not_started" THEN "starting" ELSE @,
                          !.token = run.attempt + 1, !.attempt = @ + 1,
                          !.version = @ + 1, !.expired = FALSE]
    /\ worker' = [worker EXCEPT ![w] =
                    [pc |-> "claimed", token |-> run.attempt + 1,
                     version |-> run.version + 1, cp |-> run.cp, res |-> "none"]]
    /\ UNCHANGED <<userVars, toolVars, seenVars, procVars>>

\* A task that slept through a retry delay finds the Run taken or closed.
ClaimRefused(w) ==
    /\ worker[w].pc = "sleep"
    /\ ~ClaimableRun
    /\ Stop(w)
    /\ UNCHANGED <<run, userVars, toolVars, seenVars, procVars>>

\* _initialize_run: the first checkpoint.
Initialize(w) ==
    /\ worker[w].pc = "claimed"
    /\ worker[w].cp = None
    /\ Leased(w)
    /\ Store(w, FreshCheckpoint, "loop")
    /\ UNCHANGED <<userVars, toolVars, seenVars, procVars>>

\* The checkpoint after a committed decision on the pending call: run it with
\* the grant, or report the refusal to the model and go on with the rest.
Decided(c) ==
    LET call == run.pending
        rest == approval[call].rem
    IN IF approval[call].decision = "approve"
       THEN [c EXCEPT !.granted = @ \cup {call}, !.cur = call, !.rem = rest,
                      !.phase = "tool_ready"]
       ELSE [c EXCEPT !.msgs = Append(@, <<"error", call>>), !.cur = 0,
                      !.rem = rest,
                      !.phase = IF rest = <<>> THEN "awaiting_model"
                                               ELSE "tool_ready"]

\* _restore_approval: the decision is consumed with the checkpoint it produces.
RestoreApproval(w) ==
    /\ worker[w].pc = "claimed"
    /\ worker[w].cp # None
    /\ run.pending # 0
    /\ approval[run.pending].decision \in {"approve", "reject"}
    /\ Leased(w)
    /\ LET c == Decided(worker[w].cp)
       IN /\ run' = [run EXCEPT !.cp = c, !.phase = c.phase, !.expired = FALSE,
                                !.version = worker[w].version + 1, !.pending = 0]
          /\ worker' = [worker EXCEPT ![w].cp = c, ![w].version = @ + 1,
                                      ![w].pc = "loop"]
    /\ approval' = [approval EXCEPT ![run.pending].consumed = TRUE]
    /\ UNCHANGED <<request, disp, toolVars, seenVars, procVars>>

\* A resumption that always goes back to the model.
ResumeAtLoop(c) == "loop"

ResumePoint(c) == IF c.phase = "finalizing" THEN "final" ELSE "loop"

\* Resuming from a checkpoint: a frozen answer only has to be committed.
Resume(w) ==
    /\ worker[w].pc = "claimed"
    /\ worker[w].cp # None
    /\ run.pending = 0
    /\ worker' = [worker EXCEPT ![w].pc = ResumePoint(worker[w].cp)]
    /\ UNCHANGED <<run, userVars, toolVars, seenVars, procVars>>

-----------------------------------------------------------------------------
(* The model and finalization.                                             *)

InLoop(w) == worker[w].pc = "loop" /\ worker[w].cp.cuts < 2 /\ Leased(w)

WithinLimits(c) == c.step < MaxSteps /\ c.models < MaxModelCalls

\* prepare_finalization: fold the steers that arrived meanwhile, or freeze t.
Prepare(w, t) ==
    LET c == worker[w].cp IN
    IF PendingSteers # {}
    THEN Store(w, Folded(c), "loop") /\ disp' = AppliedAll
    ELSE /\ Store(w, [c EXCEPT !.phase = "finalizing", !.final = t], "final")
         /\ UNCHANGED disp

\* The step limit, or a budget: model calls, or the elapsed time, tool calls
\* and cost that the checkpoint does not carry here and may run out any time.
StopAtLimit(w) ==
    /\ InLoop(w)
    /\ Prepare(w, "limit")
    /\ UNCHANGED <<request, approval, toolVars, seenVars, procVars>>

\* consume_pending_steers, before a model call.
ConsumeSteers(w) ==
    /\ InLoop(w)
    /\ WithinLimits(worker[w].cp)
    /\ worker[w].cp.cur = 0 /\ worker[w].cp.rem = <<>>
    /\ IF PendingSteers = {}
       THEN /\ worker' = [worker EXCEPT ![w].pc = "reserve"]
            /\ UNCHANGED <<run, disp>>
       ELSE /\ Store(w, Folded(worker[w].cp), "reserve")
            /\ disp' = AppliedAll
    /\ UNCHANGED <<request, approval, toolVars, seenVars, procVars>>

\* reserve_model_call
Reserved(c) == [c EXCEPT !.phase = "awaiting_model", !.models = @ + 1]

ReserveModelCall(w) ==
    /\ worker[w].pc = "reserve"
    /\ Leased(w)
    /\ Store(w, Reserved(worker[w].cp), "call")
    /\ UNCHANGED <<userVars, toolVars, seenVars, procVars>>

\* The model has read the checkpoint's messages.
Reads(w) == seen' = seen \cup SteersIn(worker[w].cp.msgs)

\* _call_model sends the checkpoint's messages; no lease is checked.
CallModel(w) ==
    /\ worker[w].pc = "call"
    /\ TRUE \in StreamOptions
    /\ provider' = [provider EXCEPT !.calls = @ + 1]
    /\ worker' = [worker EXCEPT ![w].pc = "model"]
    /\ Reads(w)
    /\ UNCHANGED <<run, answers, userVars, toolVars, procVars>>

\* The request is refused with an error that speaks of stream_options ...
CallRefused(w) ==
    /\ worker[w].pc = "call"
    /\ FALSE \in StreamOptions
    /\ provider' = [provider EXCEPT !.calls = @ + 1]
    /\ worker' = [worker EXCEPT ![w].pc = "again"]
    /\ UNCHANGED <<run, answers, seen, userVars, toolVars, procVars>>

\* ... and sent again without them, on the same reservation.
RepeatCall(w) ==
    /\ worker[w].pc = "again"
    /\ provider' = [provider EXCEPT !.repeats = @ + 1]
    /\ worker' = [worker EXCEPT ![w].pc = "model"]
    /\ Reads(w)
    /\ UNCHANGED <<run, answers, userVars, toolVars, procVars>>

\* What _call_model sends.
AskModel(w) == CallModel(w) \/ CallRefused(w) \/ RepeatCall(w)

\* The model answers without tool calls, with a text or with nothing.
ModelAnswers(w) ==
    /\ worker[w].pc = "model"
    /\ Leased(w)
    /\ \E t \in Spoken : Prepare(w, t)
    /\ UNCHANGED <<request, approval, toolVars, seenVars, procVars>>

\* The model asks for the next n tool calls.
ModelProposes(w, n) ==
    /\ worker[w].pc = "model"
    /\ Leased(w)
    /\ issued + n <= NCalls
    /\ Store(w, [worker[w].cp EXCEPT
                    !.cur = issued + 1,
                    !.rem = [i \in 1 .. n - 1 |-> issued + 1 + i],
                    !.phase = "tool_ready"], "loop")
    /\ issued' = issued + n
    /\ UNCHANGED <<inv, effects, userVars, seenVars, procVars>>

\* The response was cut at the length limit: it is rejected as a whole, and
\* one repair is allowed while steps and budget last.
ModelTruncates(w) ==
    /\ worker[w].pc = "model"
    /\ Leased(w)
    /\ LET c == [worker[w].cp EXCEPT !.cuts = @ + 1, !.cur = 0, !.rem = <<>>,
                    !.phase = "awaiting_model", !.step = @ + 1]
       IN \/ c.cuts < 2 /\ WithinLimits(c) /\ Store(w, c, "loop")
          \/ Store(w, c, "failing")
    /\ UNCHANGED <<userVars, toolVars, seenVars, procVars>>

-----------------------------------------------------------------------------
(* Tool calls.  An invocation is claimed in one transaction and completed  *)
(* in another; its owner is the lease token under which it was claimed.    *)

Call(w) == worker[w].cp.cur
Granted(w) == Call(w) \in worker[w].cp.granted

\* The current call, or the first of the remaining ones, is reserved.
StartTool(w) ==
    LET c == worker[w].cp IN
    /\ InLoop(w)
    /\ WithinLimits(c)
    /\ \/ c.cur # 0 /\ Store(w, [c EXCEPT !.phase = "tool_running"], "tool")
       \/ /\ c.cur = 0 /\ c.rem # <<>>
          /\ Store(w, [c EXCEPT !.phase = "tool_running", !.cur = Head(c.rem),
                                !.rem = Tail(c.rem)], "tool")
    /\ UNCHANGED <<userVars, toolVars, seenVars, procVars>>

\* The tool has answered the task, with the claims as they stand.
Returns(w, res) ==
    worker' = [worker EXCEPT ![w].pc = "done", ![w].res = res]

\* Refused before any claim: blocked, unknown, malformed or busy.
RefuseTool(w) ==
    /\ worker[w].pc = "tool"
    /\ Returns(w, "error")
    /\ UNCHANGED <<run, userVars, toolVars, seenVars, procVars>>

\* An existing invocation answers for the call: a replayed result, a wait for
\* approval, or the refusal while another executor's claim is live.
ObserveTool(w) ==
    /\ worker[w].pc = "tool"
    /\ LET st == inv[Call(w)].status IN
         \/ st = "committed" /\ Returns(w, "ok")
         \/ st \in {"failed", "rejected", "cancelled", "running"}
               /\ Returns(w, "error")
         \/ st = "pending_approval" /\ ~Granted(w) /\ Returns(w, "approval")
    /\ UNCHANGED <<run, userVars, toolVars, seenVars, procVars>>

\* Claims that do not look for a result that is already there.
ClaimableAgain(w) == inv[Call(w)].status \notin {"rejected", "cancelled"}

\* Claims that also take back what was refused.
ClaimableRefused(w) ==
    \/ inv[Call(w)].status \in {"none", "retry_pending", "cancelled", "rejected"}
    \/ inv[Call(w)].status = "pending_approval" /\ Granted(w)

\* A new invocation, one released for retry, one the user approved, or one
\* whose claim has expired (the clock is not modelled).
Claimable(w) ==
    \/ inv[Call(w)].status \in {"none", "retry_pending", "running"}
    \/ inv[Call(w)].status = "pending_approval" /\ Granted(w)

ClaimTool(w) ==
    /\ worker[w].pc = "tool"
    /\ Claimable(w)
    /\ inv' = [inv EXCEPT ![Call(w)] =
                 [status |-> "running", owner |-> worker[w].token]]
    /\ worker' = [worker EXCEPT ![w].pc = "exec"]
    /\ UNCHANGED <<run, issued, effects, userVars, seenVars, procVars>>

OwnsClaim(w) == inv[Call(w)] = [status |-> "running", owner |-> worker[w].token]

\* The invocation leaves the task's claim.
Settle(w, st) == inv' = [inv EXCEPT ![Call(w)] = [status |-> st, owner |-> 0]]

\* The handler, or the authority check, asks for the user's approval.
NeedsApproval(w) == Call(w) \in Gated /\ ~Granted(w)

\* The handler runs and its effect commits with the invocation.
CommitTool(w) ==
    /\ worker[w].pc = "exec"
    /\ OwnsClaim(w)
    /\ ~NeedsApproval(w)
    /\ Settle(w, "committed")
    /\ effects' = [effects EXCEPT ![Call(w)] = @ + 1]
    /\ Returns(w, "ok")
    /\ UNCHANGED <<run, issued, userVars, seenVars, procVars>>

\* The handler stops for approval, fails, or finds the database busy.
SettleTool(w) ==
    /\ worker[w].pc = "exec"
    /\ OwnsClaim(w)
    /\ \/ NeedsApproval(w) /\ Settle(w, "pending_approval") /\ Returns(w, "approval")
       \/ \E st \in {"failed", "retry_pending"} :
             Settle(w, st) /\ Returns(w, "error")
    /\ UNCHANGED <<run, issued, effects, userVars, seenVars, procVars>>

LostClaimResult(w) == IF inv[Call(w)].status = "committed" THEN "ok" ELSE "error"

\* Another executor reclaimed the invocation: its state answers instead.
LoseClaim(w) ==
    /\ worker[w].pc = "exec"
    /\ ~OwnsClaim(w)
    /\ Returns(w, LostClaimResult(w))
    /\ UNCHANGED <<run, userVars, toolVars, seenVars, procVars>>

\* A result recorded while its call stays current.
ReportedTwice(w) ==
    LET c == worker[w].cp IN
    [c EXCEPT !.msgs = Append(@, <<worker[w].res, c.cur>>)]

\* The checkpoint after a tool result: the next remaining call becomes
\* current, and the step ends with the last of them.
Reported(w) ==
    LET c == worker[w].cp IN
    [c EXCEPT !.msgs = Append(@, <<worker[w].res, c.cur>>),
              !.cur = IF c.rem = <<>> THEN 0 ELSE Head(c.rem),
              !.rem = IF c.rem = <<>> THEN <<>> ELSE Tail(c.rem),
              !.phase = IF c.rem = <<>> THEN "awaiting_model" ELSE "tool_ready",
              !.step = IF c.rem = <<>> THEN @ + 1 ELSE @]

ReportTool(w) ==
    /\ worker[w].pc = "done"
    /\ worker[w].res \in {"ok", "error"}
    /\ Leased(w)
    /\ Store(w, Reported(w), "loop")
    /\ UNCHANGED <<userVars, toolVars, seenVars, procVars>>

\* pause_for_approval: the request, the event and the waiting row together.
PauseForApproval(w) ==
    /\ worker[w].pc = "done"
    /\ worker[w].res = "approval"
    /\ inv[Call(w)].status = "pending_approval"
    /\ Leased(w)
    /\ LET c == [worker[w].cp EXCEPT !.phase = "waiting_approval"] IN
         run' = [Released("waiting_approval", "waiting_approval", c)
                    EXCEPT !.pending = Call(w)]
    /\ approval' = IF approval[Call(w)].decision # "none" THEN approval
                   ELSE [approval EXCEPT ![Call(w)] =
                           [decision |-> "pending", consumed |-> FALSE,
                            rem |-> worker[w].cp.rem]]
    /\ Stop(w)
    /\ UNCHANGED <<request, disp, toolVars, seenVars, procVars>>

-----------------------------------------------------------------------------
(* Ends of a Run.                                                          *)

\* A commit of the answer that accepts whatever the row says.
FinalizableAlways(w) == run.phase \in {"finalizing", "terminal"}

Finalizable(w) == Leased(w) /\ run.phase = "finalizing"

\* The session's messages once t is committed: a Run without a session, or
\* without a text, leaves none.
Posted(t) == IF HasSession /\ t # "empty" THEN Append(answers, t) ELSE answers

\* finalize_run: the answer, the events and the terminal row together.
Finalize(w) ==
    /\ worker[w].pc = "final"
    /\ Finalizable(w)
    /\ run' = [Released("completed", "terminal", None)
                  EXCEPT !.pending = 0, !.output = worker[w].cp.final]
    /\ answers' = Posted(worker[w].cp.final)
    /\ Stop(w)
    /\ UNCHANGED <<provider, seen, userVars, toolVars, procVars>>

\* schedule_retry: a timeout or a transient model error, while retries last.
ScheduleRetry(w) ==
    /\ worker[w].pc \in {"model", "tool", "exec", "done"}
    /\ Leased(w)
    /\ run.retries < MaxRetries
    /\ run' = [Released("retry_wait", "retry_wait",
                        [run.cp EXCEPT !.phase = "retry_wait"])
                  EXCEPT !.retries = @ + 1]
    /\ worker' = [worker EXCEPT ![w] = [IdleTask EXCEPT !.pc = "sleep"]]
    /\ UNCHANGED <<userVars, toolVars, seenVars, procVars>>

\* _consume_terminal_approval: a pending request can never execute again.
CloseApproval ==
    IF run.pending = 0 THEN UNCHANGED <<approval, inv>>
    ELSE /\ approval' = [approval EXCEPT ![run.pending].consumed = TRUE]
         /\ inv' = IF inv[run.pending].status # "pending_approval" THEN inv
                   ELSE [inv EXCEPT ![run.pending].status = "cancelled"]

\* terminate_run queues the steers no model call has taken.
SteersAfterTermination == QueuedAll

Terminate(st) ==
    /\ run' = [Released(st, "terminal", None) EXCEPT !.pending = 0]
    /\ CloseApproval
    /\ disp' = SteersAfterTermination

\* _fail: an exception that is not retried closes the Run under its lease.
Fail(w) ==
    /\ worker[w].pc \in Working
    /\ Leased(w)
    /\ Terminate("failed")
    /\ Stop(w)
    /\ UNCHANGED <<request, issued, effects, seenVars, procVars>>

\* cancel_run: terminate_run without a lease; the task is only signalled.
Cancel ==
    /\ up
    /\ run.status \in Nonterminal
    /\ Terminate("cancelled")
    /\ UNCHANGED <<worker, request, issued, effects, seenVars, procVars>>

\* RunLeaseLostError at any transaction, or the row reloaded in _loop.
LoseLease(w) ==
    /\ worker[w].pc \in Working \ {"call", "again", "tool", "exec"}
    /\ ~Leased(w)
    /\ Stop(w)
    /\ UNCHANGED <<run, userVars, toolVars, seenVars, procVars>>

\* The task is cancelled, or cannot even record its failure.
Die(w) ==
    /\ MayKill
    /\ worker[w].pc # "idle"
    /\ Stop(w)
    /\ UNCHANGED <<run, userVars, toolVars, seenVars, procVars>>

\* The heartbeat stalls, or renews the lease by its token alone.
Expire ==
    /\ MayExpire
    /\ run.status = "running" /\ ~run.expired
    /\ run' = [run EXCEPT !.expired = TRUE]
    /\ UNCHANGED <<worker, userVars, toolVars, seenVars, procVars>>

Renew(w) ==
    /\ worker[w].pc \in Working
    /\ run.status = "running" /\ run.token = worker[w].token /\ run.expired
    /\ run' = [run EXCEPT !.expired = FALSE]
    /\ UNCHANGED <<worker, userVars, toolVars, seenVars, procVars>>

-----------------------------------------------------------------------------
(* The user.                                                               *)

\* Late only once the Run is over.
LateWhenCompleted == run.status = "completed"

\* record_steer: a frozen or committed answer can no longer take a steer.
LateSteer == run.phase = "finalizing" \/ run.status = "completed"

RecordSteer ==
    /\ up
    /\ HasSession
    /\ run.status \in {"queued", "running", "completed"}
    /\ \E s \in Steers :
         /\ disp[s] = "unsent"
         /\ \A t \in Steers : t < s => disp[t] # "unsent"
         /\ disp' = [disp EXCEPT ![s] = IF LateSteer THEN "queued" ELSE "pending"]
    /\ UNCHANGED <<run, worker, request, approval, toolVars, seenVars, procVars>>

\* decide_run_approval loads the row and checks it; the row is kept in the
\* request's session while the Session and Plan are loaded.
LoadForDecision(d, choice) ==
    /\ up
    /\ request[d] = None
    /\ run.status \in {"waiting_approval", "queued", "running"}
    /\ run.pending # 0
    /\ request' = [request EXCEPT ![d] = [choice |-> choice, row |-> run]]
    /\ UNCHANGED <<run, worker, disp, approval, toolVars, seenVars, procVars>>

\* decide_approval works on the row its session has already loaded, but reads
\* the approval and the invocation afresh under the write lock.
Decidable(d) ==
    LET row == request[d].row IN
    /\ row.status = "waiting_approval"
    /\ approval[row.pending].decision = "pending"
    /\ request[d].choice = "reject" => inv[row.pending].status = "pending_approval"

\* A schema that accepts a checkpoint without its version.
CheckpointShapeUnchecked == TRUE

\* ck_agent_run_checkpoint_envelope: decide_approval writes the loaded
\* checkpoint but not its schema version, which a terminal row has lost.
CheckpointShape == run.cp # None

\* A decision that is recorded without waking the Run.
NotRequeued(row) == run

\* Only the columns that differ from the loaded row are written.
Requeued(row) == [run EXCEPT !.status = "queued", !.cp = row.cp,
                             !.pending = row.pending, !.version = row.version + 1]

Decide(d) ==
    /\ request[d] # None
    /\ Decidable(d)
    /\ CheckpointShape
    /\ LET row == request[d].row IN
         /\ run' = Requeued(row)
         /\ approval' = [approval EXCEPT ![row.pending].decision = request[d].choice]
         /\ inv' = IF request[d].choice = "approve" THEN inv
                   ELSE [inv EXCEPT ![row.pending].status = "rejected"]
    /\ request' = [request EXCEPT ![d] = None]
    /\ UNCHANGED <<worker, disp, issued, effects, seenVars, procVars>>

\* A repeated, a conflicting or a rolled-back decision.
DecideRefused(d) ==
    /\ request[d] # None
    /\ ~(Decidable(d) /\ CheckpointShape)
    /\ request' = [request EXCEPT ![d] = None]
    /\ UNCHANGED <<run, worker, disp, approval, toolVars, seenVars, procVars>>

-----------------------------------------------------------------------------
(* The process.                                                            *)

Crash ==
    /\ up
    /\ crashes < MaxCrashes
    /\ up' = FALSE
    /\ crashes' = crashes + 1
    /\ worker' = [w \in Workers |-> IdleTask]
    /\ request' = [d \in Deciders |-> None]
    /\ UNCHANGED <<run, disp, approval, toolVars, seenVars>>

\* Work that a restart may put back in the queue.
Resumable ==
    \/ run.status \in {"queued", "retry_wait"}
    \/ run.status = "running" /\ run.cp # None

\* reconcile_run_after_restart, under the exclusive runtime lease.
Restart ==
    /\ ~up
    /\ up' = TRUE
    /\ \/ run.status \in Terminal \cup {"waiting_approval", "needs_reconciliation"}
             /\ UNCHANGED <<run, approval, inv>>
       \/ /\ MayLoseScope
          /\ run.status \in Nonterminal
          /\ run' = [Released("failed", "terminal", None)
                       EXCEPT !.pending = 0, !.reason = "scope_unavailable"]
          /\ CloseApproval
       \/ /\ run.status = "running" /\ ~Resumable
          /\ run' = Released("needs_reconciliation", "reconciling", run.cp)
          /\ UNCHANGED <<approval, inv>>
       \/ /\ Resumable
          /\ run' = Released("queued",
                      IF run.cp = None THEN "not_started" ELSE run.cp.phase, run.cp)
          /\ UNCHANGED <<approval, inv>>
    /\ UNCHANGED <<worker, request, disp, issued, effects, crashes, seenVars>>

-----------------------------------------------------------------------------
\* What an executor task does by itself once it has claimed the Run.
TaskStep(w) ==
    \/ Initialize(w) \/ RestoreApproval(w) \/ Resume(w)
    \/ StopAtLimit(w) \/ ConsumeSteers(w) \/ ReserveModelCall(w) \/ AskModel(w)
    \/ ModelAnswers(w) \/ ModelProposes(w, 1) \/ ModelProposes(w, 2)
    \/ ModelTruncates(w)
    \/ StartTool(w) \/ RefuseTool(w) \/ ObserveTool(w) \/ ClaimTool(w)
    \/ CommitTool(w) \/ SettleTool(w) \/ LoseClaim(w)
    \/ ReportTool(w) \/ PauseForApproval(w)
    \/ Finalize(w) \/ ScheduleRetry(w) \/ Fail(w) \/ LoseLease(w)
    \/ ClaimRefused(w)

Next ==
    \/ \E w \in Workers : Claim(w) \/ TaskStep(w) \/ Die(w) \/ Renew(w)
    \/ Cancel \/ Expire \/ RecordSteer
    \/ \E d \in Deciders :
         \/ \E choice \in {"approve", "reject"} : LoadForDecision(d, choice)
         \/ Decide(d) \/ DecideRefused(d)
    \/ Crash \/ Restart

Spec == Init /\ [][Next]_vars

\* Queued and retried work has a task that will claim it, a task goes on
\* unless it is cancelled, and a crashed process is started again.
Fairness ==
    /\ WF_vars(\E w \in Workers : Claim(w))
    /\ \A w \in Workers : WF_vars(TaskStep(w))
    /\ WF_vars(Restart)

FairSpec == Spec /\ Fairness

-----------------------------------------------------------------------------
(* Correctness.                                                            *)

\* At most one task can pass the lease check of a state transition, however
\* often the lease expires and is taken over.
OneLeaseholder ==
    \A v, w \in Workers :
        worker[v].pc \in Working /\ worker[w].pc \in Working
        /\ Leased(v) /\ Leased(w) => v = w

\* The checkpoint a leaseholder works on is the durable one: no crash,
\* takeover or decision lets it overwrite progress it has not seen.
LeaseholderIsCurrent ==
    \A w \in Workers :
        worker[w].pc \in Working /\ Leased(w) => worker[w].cp = run.cp

\* A steer is marked applied exactly when one message of the live checkpoint
\* carries it, and never carried by two.
SteersFolded ==
    run.status \in Nonterminal /\ run.cp # None =>
        LET ms == run.cp.msgs
            folds == {i \in DOMAIN ms : ms[i][1] = "steers"} IN
        /\ SteersIn(ms) = {s \in Steers : disp[s] = "applied"}
        /\ \A i, j \in folds : i # j => ms[i][2] \cap ms[j][2] = {}

\* No steer waits on a Run that will never look again: one whose answer is
\* frozen or committed, or that was failed or cancelled with its scope intact.
NoSteerStranded ==
    (\/ run.phase = "finalizing"
     \/ run.status \in Terminal /\ run.reason # "scope_unavailable")
      => PendingSteers = {}

\* The model is told the results of all its calls once and in its own order:
\* the reported ones, the current one and the remaining ones are the issued
\* calls, through approvals, retries, crashes and takeovers.
ToolOrder ==
    run.status \in Nonterminal /\ run.cp # None =>
        LET msgs    == run.cp.msgs
            results == {i \in DOMAIN msgs : msgs[i][1] # "steers"}
            current == IF run.cp.cur = 0 THEN 0 ELSE 1
            told    == issued - Len(run.cp.rem) - current
        IN /\ {msgs[i][2] : i \in results} = 1 .. told
           /\ \A i, j \in results : i < j => msgs[i][2] < msgs[j][2]
           /\ run.cp.cur # 0 => run.cp.cur = told + 1
           /\ \A i \in DOMAIN run.cp.rem : run.cp.rem[i] = told + current + i

\* No call takes effect twice, whoever executes it and however often.
EffectOnce == \A c \in Calls : effects[c] <= 1

\* A result reported to the model as good is backed by a committed effect.
GoodResultIsReal ==
    run.status \in Nonterminal /\ run.cp # None =>
        \A i \in DOMAIN run.cp.msgs :
            run.cp.msgs[i][1] = "ok" => effects[run.cp.msgs[i][2]] = 1

\* A gated call takes effect only after the user approved that very call and
\* the approval was consumed.
GatedEffectApproved ==
    \A c \in Gated : effects[c] > 0 =>
        approval[c].decision = "approve" /\ approval[c].consumed

\* A rejected or cancelled request can never execute again.
RefusedStaysRefused ==
    [][\A c \in Calls : inv[c].status \in {"rejected", "cancelled"} =>
          inv'[c] = inv[c] /\ effects'[c] = effects[c]]_vars

\* A Run that waits for the user has a request the user can still decide.
WaitingIsDecidable ==
    run.status = "waiting_approval" =>
        /\ run.pending \in Calls
        /\ approval[run.pending].decision = "pending"
        /\ ~approval[run.pending].consumed
        /\ inv[run.pending].status = "pending_approval"
        /\ run.cp # None

\* A terminal Run never changes again, not even by a decision that was loaded
\* before the Run ended.
TerminalIsFinal == [][run.status \in Terminal => run' = run]_vars

\* A frozen answer stays frozen until it is committed or the Run is closed.
FrozenAnswerKept ==
    [][run.phase = "finalizing" /\ run'.status \in Nonterminal =>
          run'.phase = "finalizing" /\ run'.cp.final = run.cp.final]_vars

\* The session shows one final answer for a completed Run that had something
\* to say, and none otherwise.
AnswerOnce ==
    answers = IF run.status = "completed" /\ HasSession /\ run.output # "empty"
              THEN <<run.output>> ELSE <<>>

\* The durable budget never looks as if a model call had not happened: its
\* first request is sent after the reservation.  Only a request refused for
\* its stream_options is sent once more, and the budget does not count that.
RequestsAccounted ==
    run.status \in Nonterminal =>
        /\ provider.calls <= IF run.cp = None THEN 0 ELSE run.cp.models
        /\ provider.repeats <= provider.calls

\* Every steer a completed Run has taken was part of a model request, unless
\* the Run stopped at a limit.
AnsweredSteersSeen ==
    run.status = "completed" /\ run.output # "limit" =>
        \A s \in Steers : disp[s] = "applied" => s \in seen

\* A steer is never lost, doubled or forgotten, whether it comes beside a model
\* request, a final answer, a limit, a takeover or a cancellation.
SteersAccounted == SteersFolded /\ NoSteerStranded /\ AnsweredSteersSeen

\* The conversation says what happened: one answer, every model call on the
\* budget with at most one request beside it, every tool call's result once
\* and in order, and no good result invented.
ConversationTrue == AnswerOnce /\ RequestsAccounted /\ ToolOrder /\ GoodResultIsReal

\* Work that can run comes to an end, or to a point where a person is asked.
WorkSettles ==
    run.status \in {"queued", "running", "retry_wait"} ~>
        run.status \in Terminal \cup {"waiting_approval", "needs_reconciliation"}

\* A steer stays pending for good only if its Run rests for good: waiting for
\* the user, fenced for reconciliation, or closed with its scope gone.
SteersSettle ==
    \A s \in Steers : <>[](disp[s] = "pending") =>
        <>[](\/ run.status \in {"waiting_approval", "needs_reconciliation"}
             \/ run.reason = "scope_unavailable")

\* Nothing the user has asked for is left lying: the work comes to an end or
\* to a question, and what was said meanwhile is folded or queued.
RunsSettle == WorkSettles /\ SteersSettle

-----------------------------------------------------------------------------
(* What the safety properties rest on, as an inductive invariant.          *)

\* A task works from a checkpoint once it has started the Run, and on a call
\* while it executes a tool; a row has a checkpoint exactly as its status says.
CheckpointsPresent ==
    /\ \A w \in Workers :
         /\ worker[w].pc \in Working \ {"claimed"} => worker[w].cp # None
         /\ worker[w].pc \in {"tool", "exec", "done"} => Call(w) # 0
    /\ run.status \in Terminal => run.cp = None
    /\ run.status = "waiting_approval" => run.cp # None
    /\ \A d \in Deciders :
         request[d] # None /\ request[d].row.status = "waiting_approval"
            => request[d].row.cp # None

\* A token is never handed out twice, so at most one task's is the row's.
TokensDistinct ==
    /\ \A w \in Workers :
         worker[w].pc \in Working => worker[w].token <= run.attempt
    /\ \A v, w \in Workers :
         worker[v].pc \in Working /\ worker[w].pc \in Working /\ v # w
            => worker[v].token # worker[w].token

\* An effect is committed with its invocation, which stays committed.
EffectsCommitted ==
    \A c \in Calls : effects[c] = 0 \/ (effects[c] = 1 /\ inv[c].status = "committed")

\* Every grant a checkpoint carries comes from a consumed approval.
Backed(cp) ==
    cp # None => \A c \in cp.granted :
        approval[c].decision = "approve" /\ approval[c].consumed

GrantsBacked ==
    /\ Backed(run.cp)
    /\ \A w \in Workers : Backed(worker[w].cp)
    /\ \A d \in Deciders : request[d] # None => Backed(request[d].row.cp)

\* The conjunction that every step preserves and the proofs are built on.
Inductive ==
    /\ TypeOK
    /\ CheckpointsPresent
    /\ TokensDistinct
    /\ LeaseholderIsCurrent
    /\ EffectsCommitted
    /\ GrantsBacked
    /\ GatedEffectApproved

-----------------------------------------------------------------------------
(* Refinement.                                                             *)

Promise == INSTANCE RunOutcome WITH
    outcome  <- IF run.status \in Terminal THEN run.status ELSE "open",
    approved <- {c \in Calls : approval[c].decision = "approve"}

\* The Run with its leases, checkpoints, executors and crashes keeps what the
\* abstract Run promises its user.
KeepsPromise == Promise!Spec
=============================================================================
