# A verification model of hy3-learning-agent

hy3-learning-agent is a single-user learning agent: a FastAPI backend
(`src/backend/app`) that runs durable *Agent Runs* over one SQLite database, a Vue
frontend, and an offline evaluation suite. This directory holds TLA+ modules of
the backend's concurrent core, the TLC instances that check them, and
TLAPS proofs of what matters most.

## 1. Inventory

A **transaction** is `run_short_transaction` or a request's unit of work
(`db/uow.py`): `BEGIN IMMEDIATE`, so it is atomic and serialised with every other
writer. Between two transactions of one task anything may happen: the provider's
answer, a tool's work, another task, a request, the death of the process. All the
hard behaviour of the system lies there.

| component | state it keeps | operations | interacts with | what makes it correct |
|---|---|---|---|---|
| Run state machine `runtime/state.py`, `checkpoints.py` | `agent_runs` (status, phase, lease token and expiry, state version, checkpoint, attempts, retries), `run_approvals`, `run_steer_messages` | `claim_run`, `renew_run_lease`, `persist_checkpoint`, `pause_for_approval`, `decide_approval`, `consume_pending_steers`, `prepare_finalization`, `record_steer`, `finalize_run`, `finalize_child`, `schedule_retry`, `terminate_run`, `reconcile_run_after_restart` | called by the loop, the API and startup; dispatches the queue, closes interventions and proactive decisions in its terminal transactions | one leaseholder; no lost progress; every steer folded once or queued; one answer; terminal is final |
| Agent loop `runtime/agent.py`, `budget.py`, `retry.py` | a task's memory: lease, checkpoint, phase of the loop | `run`, `_initialize_run`, `_restore_approval`, `_loop`, `_call_model`, `_fail` | state machine, tool registry, model provider | the model sees its results in order; budgets are durable before the provider is called; runnable work ends |
| Tool invocation protocol `tools/registry.py` | `tool_invocations` (status, claim token and version, result) | `execute_tool`, `_claim_invocation`, `_existing_result`, `_transition_owned_invocation`, `_append_atomic_completion` | handlers, outbox, approvals | an effect at most once; a gated one only after approval; results are those of the effect |
| Run API `api/agent.py` | none of its own | create, cancel, decide, steer, edit, queue endpoints | state machine, queue, task map | a request that read a row earlier cannot undo what happened since |
| Process-local task map `runtime/tasks.py` | `run_id -> asyncio.Task`, pending wakes | start, wake, cancel, cancel-and-wait | everything that starts Runs | a wake is never lost, never two tasks |
| Startup recovery `main.py` | none of its own | `reconcile_interrupted_runs`, `lifespan` | state machine, outbox, task map | interrupted work is resumed or fenced exactly once |
| Session queue `services/queue.py`, `runtime/interventions.py` | `queued_messages` (position, version), `interventions` (state, outcome) | compact, reorder, dispatch, dispatch next, accept and finalize a reply | terminal transactions of Runs, API | order kept, positions unique, one root Run per scope, no queue blocked for ever |
| Outbox `outbox.py` | `outbox_actions` (status, claim token, attempts, receipt) | enqueue, claim, dispatch, retry, fence, receipt, reconcile, recover, drain | registry (linked invocations), SMTP, Web Push, workspace files | an external send at most once; an uncertain one is fenced; receipts are final |
| Subagents `runtime/subagents.py`, `tools/subagents.py`, `tools/planning.py` | child rows of `agent_runs`, an `asyncio.Event` per assignment of a delegation | spawn, delegate, status, join, cancel, resume | parent's tools and terminal transactions, task map, API, startup | children end with their parent; one end is told, the one the row keeps, in the order of the assignments; nobody waits for ever |
| Run events `runtime/events.py` | `run_events` (sequence, key), subscribers | emit, stage, subscribe, publish | all of the above | sequences are unique and gap-free per Run, keys idempotent |
| Proactive scheduler, notifications `runtime/scheduler.py`, `runtime/proactive.py`, `notifications/service.py` | `proactive_decisions`, notifications, interventions | heartbeat, scan, `trigger_now`, `create_proactive_decision`, `finalize_proactive_decision`, `send` and its guard | Runs, outbox, mail | one decision per candidate, true to what the learner saw; nobody is asked again too early |
| Mail ingress `notifications/email.py` | `inbound_mail_jobs` (status, claim, continuation, receipt) | `poll`, `_claim_ack_jobs`, `_complete_ack_claims`, `_fail_ack_claims` | queue, interventions, Runs, the mail server | a mail is marked only when its reply is durable; one reply per mail |
| Operations `api/operations.py` | `operations` | undo, redo | domain rows | an undo only of what is unchanged |
| Sessions, plans, evidence, competencies, memory, context | domain rows | derived updates, hand-off, edits, scoring, graph edges, retention | tools and API | derived rows agree with their sources; the competency graph is acyclic |
| State maintenance `db/maintenance.py` | the managed files, operation directories with a journal, backups | `recover_runtime_state`, `backup_state`, `reset_state`, `restore_state` | nothing while the server runs (`runtime_state_lease`) | a root is whole at every start; what is replaced is in a backup |
| Schema migration `db/migrations.py` | one SQLite file, its sidecars, its backups | `migrate_sqlite_database`, `backup_sqlite_database`, `restore_migration_backup` | every connection to the file | no committed row is lost; the new file never meets the old WAL |
| Frontend, evaluation | none that is durable here | | API | not modelled |

`PROJECT.json` lists the same components with their status, and every hazard with
its line. The hard behaviours are: leases that expire under a working executor,
takeovers and crashes between an effect and the record of it, user input (steers,
decisions, cancellation) that races with the end of a Run, approvals in the middle
of a batch of tool calls, retries, wakes that race with the end of a task, queues that only
the end of a Run moves, mails whose handling is cut in four, files that replace each
other while somebody may have them open, and children whose ends race with that of their parent.

## 2. Modules

| module | what it is |
|---|---|
| `RunLifecycle` | one Run with its row, executors, steers, approvals, tool invocations, crashes |
| `RunOutcome` | abstract: what the user of a Run is promised |
| `RunLifecycleProofs` | theorems about `RunLifecycle`: leases, checkpoints, effects, outcomes, approvals, steers, the conversation, the refinement of `RunOutcome` |
| `TaskMap` | the process-local map from a Run to its task, and the requests around it |
| `Subagents` | the children of one Run: executors, the parent's tools and end, requests, the restart |
| `SubagentsProofs` | theorems about `Subagents` |
| `SessionQueue` | queued messages, Runs as occupants of scopes, interventions, archiving |
| `EditableQueue` | abstract: an ordered list in which the learner may move one element |
| `SessionQueueProofs` | theorems about `SessionQueue`, with the refinement of `EditableQueue` |
| `Outbox` | the delivery rows, the drain loop, the dispatchers of code, the recovery, the undo of a file write |
| `OutboxProofs` | theorems about `Outbox`, with the refinement of `AtMostOnceEffect` |
| `AtMostOnceEffect` | abstract: what the outbox promises of a mail, a push or a piece of code |
| `MailIngress` | the poll of a mailbox, its jobs, acknowledgements and Runs |
| `TaskAndMailProofs` | theorems about `TaskMap` and about `MailIngress`, which share nothing |
| `StateMaintenance` | lease, recovery, backup, reset and restore of the managed files |
| `StateMaintenanceProofs` | theorems about `StateMaintenance`, with the refinement of `AtomicState` |
| `AtomicState` | abstract: the managed files change as one thing |
| `SchemaMigration` | the coordinator of one database file beside other connections |
| `SchemaMigrationProofs` | theorems about `SchemaMigration` |
| `Proactive` | the heartbeat and its scan, the Runs it starts, their decisions and notifications, the clock |
| `ProactiveProofs` | theorems about `Proactive` |
| `MC...` | the instance of each detailed module for TLC, with its constants, case constraints and symmetry |

Each abstract module is related to its detailed one by an `INSTANCE ... WITH` at the end of the
latter, with the refinement mapping there.

### RunLifecycle and the code

| variable | code |
|---|---|
| `run` | the `agent_runs` row: `status`, `phase`, `lease_token` (a fresh UUID per claim, here the attempt number, 0 for null), `state_version`, `attempt`, `retry_count`, `checkpoint`, `pending_approval` (the gated call), `output`, `status_reason`; `expired` says that `lease_expires_at` has passed |
| `worker` | a task inside `AgentRuntime.run`: `pc` is the place between two transactions, or between two requests to the model (`again`), with its `RunLease` (token, version), its checkpoint and the last tool result |
| `request` | a request inside `decide_run_approval`, with the row its session loaded |
| `disp`, `approval`, `inv` | `run_steer_messages.disposition`, `run_approvals`, `tool_invocations` |
| `issued` | how many tool calls the model has made; calls are numbered in that order |
| `answers` | final assistant messages of the session; a Run without a session (`HasSession`), or one that ends without a text (`empty`), leaves none |
| `effects`, `provider`, `seen` | observed only: committed effects, model calls that sent a request and the requests they repeated, steers carried by some request |
| `up`, `crashes` | the process |

A checkpoint keeps phase, step, current and remaining calls, granted calls, the
messages as far as properties tell them apart (a fold of steers; a good or bad
result of a call), the durable count of model calls, the truncation repairs and the
frozen answer. `sanitize_checkpoint` and prompt text are left out.

Each action is one transaction or one wait. `Store` is the compare-and-set on
token, status and version that all leased transactions share
(`persist_checkpoint`, `consume_pending_steers`, `prepare_finalization`,
`_restore_approval`): the row takes the task's checkpoint, both versions advance and
the lease is renewed. The version is what a takeover or a decision changes, the
token what a claim changes. A tool runs between `ClaimTool` and
`CommitTool`/`SettleTool`/`LoseClaim`, where its claim may be taken over; these steps
look at the claim and not at the Run's lease, as the code does. `AskModel` is what `_call_model` sends, one step for
each `create` of the client: a request with `stream_options` and, if the service refuses these (`StreamOptions` says
whether it takes them: yes, no, or now and then), a second one without them. Where the code reads a row and
later acts on what it read (`decide_run_approval` keeps the row in its session,
`decide_approval` gets that row back), the model keeps the copy (`request`), and
`Requeued` writes only the columns the ORM writes; `CheckpointShape` is the CHECK
constraint that then refuses a decision on a Run that has ended.

### RunOutcome

The abstract Run has no lease, checkpoint, executor or crash. It says what a user
may rely on: a steer goes to the Run or is kept for later; all waiting steers are
taken together; the answer, if there is one, leaves no steer behind and comes once; a call acts
once, a gated one after its approval; nothing changes a closed outcome (an executor
that has lost the Run may still finish the call it had claimed). `RunLifecycle!Promise` is
the refinement mapping.

### Outbox and the code

| variable | code |
|---|---|
| `row` | `outbox_actions`: `status`, `claim_token` (a fresh UUID per claim, here a count), the order of `created_at` (`seq`), and the precondition and content a workspace intent carries (`before`, `want`) |
| `inv`, `note`, `op` | the status of the linked `tool_invocations`, `notifications` and `operations` |
| `task` | the drain loop (0) and, per piece of code, the tool call inside `dispatch_action`; `pc` is the place between two awaits, `out` the outcome still to be recorded |
| `told` | what the tool call was answered |
| `undoing` | requests inside `undo_operation` that have looked at the file and hold no transaction |
| `file` | the workspace file; `Blocked` is a directory in its place |
| `sent` | observed only: how often a mail, push or piece of code has really happened |
| `orphan` | actions whose `asyncio.to_thread` call is still running although its task was cancelled |
| `boot`, `todo` | the lifespan: down, in `recover_interrupted_deliveries` (with the reconciliations left), up |

`ClaimNext` and `ClaimReconciliation` are the two compare-and-sets that fence a row;
`Record` is the single transaction that stores a receipt, a retry or an uncertain
error together with every linked record (`Settle`, `FenceLinks`). A file delivery is
split at its awaits (`Inspect`, `Check`, `Publish`, `Verify`), because anybody may edit
the file in between. `Send` covers both orders of an effect and a failure: an
exception does not prove that nothing was sent.

`AtMostOnceEffect` knows neither claims nor tasks nor crashes: an intent is fenced,
its effect may happen once behind the fence, and it leaves the fence as delivered only
after the effect, as cancelled or queued only without it. `Outbox!Promise` maps each
row of a transport to it.

### SessionQueue and the code

| variable | code |
|---|---|
| `item` | `queued_messages`, by message: session, `position`, `version`, execution mode, the intervention and mail it belongs to |
| `place` | observed: whether a message is new, queued, a Run, a reply, gone or refused |
| `run` | the root rows of `agent_runs`, each named by the message or heartbeat it was made of, or by the new wording of an edited message: status, session, plan, typed reply, pending steers, whether an edit made it. `running` stands for every active status |
| `iv` | `interventions`: `state` and `outcome` |
| `archived`, `archiving` | archived sessions and plans; archive requests that have looked for Runs and queue rows and not yet written |
| `view` | the row, with its version, that a browser tab loaded before it edits, moves, deletes or sends it |
| `raised` | the error of the last transaction that was rolled back |

Every handler of the queue takes the SQLite writer before it reads, so it is one action.
`Clash` is the unique index on session and position, which SQLite checks row by row:
the two phases of compaction and reordering are there because one UPDATE may meet a row it has
not moved yet. A terminal transaction queues the unread steers, dispatches the next message
(`Successor`, `Dispatch`).
Archiving reads with the session of its request and writes later (`CheckArchive`, `WriteArchive`).
`EditMessage` makes a Run with the reply target of the Run it repeats, which it neither checks nor accepts.
`SessionQueue!Queues` maps the positions of a session to the list of `EditableQueue`.

### TaskMap and the code

| variable | code |
|---|---|
| `slot`, `pending`, `active` | `_tasks`, `_pending_wakes`, `_active_wake_keys` of one Run |
| `task`, `signalled` | each asyncio task with its wake key; those on which `cancel()` was called |
| `run` | the row, as far as tasks and requests look at it |
| `request`, `parent` | requests that create, decide or cancel; callers of `cancel_and_wait_tracked_task` |
| `coros` | observed: coroutines made, and closed without having run |

The event loop is single threaded, so a function of `tasks.py` is one action; what may come between is a
commit and the wake that follows it, and the return of a task and its done callback (`Cleanup`).

### Subagents and the code

| variable | code |
|---|---|
| `row` | the children's rows of `agent_runs`: status, whether the checkpoint holds a frozen report, `retry_count` |
| `task` | the tracked task of a child inside `execute_durable_child`: the place between two transactions, the end it is about to commit, and the call of the delegation whose events it knows |
| `turn` | the `terminal_events` that are set |
| `parent` | the status of the parent's row, and where its task is: in the loop, in a tool, in `gather`, in the cleanup of a cancelled delegation, or in the sweep after its end |
| `sweep` | `cancel_child` for one child after the other, by the parent or by a request |
| `request` | requests inside `cancel_run`, for the parent or for one child |
| `events`, `told` | `subagent.completed` in the parent's log; what `planning_delegate` has reported |
| `setup` | the bounds of the behaviour: assignments, spawns, requests, retries, calls, faults |
| `stopped`, `gaveUp` | observed: children that a request stopped alone; ends, sweeps or cancellations that a busy database refused |

`End` is what `finalize_child` and `terminate_run` share: the first to end a child decides, and its
transaction tells the parent. `Started` and `Signalled` are `start_tracked_task` and
`cancel_tracked_task` for a set of children. A cancellation reaches a task at its next wait
(`Cancelled`, `ParentCancelled`); a commit it was waiting for may still happen. `gather` is modelled
by what it does: it raises for the first task that raised or was cancelled, hands a cancellation on
to its tasks, and leaves the others running. A cancelled delegation sweeps under `asyncio.shield`,
so its `cleanup` goes on when the parent is cancelled again. A child has one task at a time: the
leases are those of `RunLifecycle`, the slot is that of `TaskMap`.

### MailIngress and the code

| variable | code |
|---|---|
| `mailbox`, `seen` | the server: UIDVALIDITY and the UID of each mail (0 before it has arrived), the Seen flags |
| `jobs` | `inbound_mail_jobs` by UIDVALIDITY and UID: mail, continuation, `ack_status`, claim and its expiry |
| `iv`, `runOf`, `busy`, `archived` | intervention, the Run made of a mail, scopes taken by others, archived scopes |
| `poller` | a caller of `poll`, with what it listed, claimed and will start |
| `answers` | observed: continuations and receipts made for a mail |

`Register` is the transaction that takes all mails of a `Fetch`, rolled back as a
whole. The code goes through them one by one; the model says what comes of all: `NewReplies` are those
without a job, `Refused` says when one of them makes `accept_intervention_reply` raise, the one with the smallest UID
of a free scope gets the Run (`StartsRun`), the others are queued. `ClaimAcks`, `MarkSeen`, `Complete` or `Fail`, and `StartRuns` follow one by one.

### StateMaintenance and the code

| variable | code |
|---|---|
| `live`, `cand`, `roll` | what is at each managed path, in the candidate and in the rollback directory of the operation; a content is a version number |
| `op` | the operation directory, its parts (`shelves` are the empty directories that `_switch_state` makes in the rollback directory) and its journal (open, committed or rolled back) with the paths it names |
| `stage`, `backups` | an `.incomplete-` backup, and the published ones |
| `hot` | the rollback journal of a transaction that a crash interrupted |
| `proc` | who holds the lease of the root and the renames it has still to do |
| `allowed`, `refused` | observed: the states a start may find, and why a recovery has given up |

A recovery is the same code as the end of a failed command, so both use `RollbackSteps`; `SwitchSteps`
are the renames of a switch. They are sets: `Due` is the rename that comes first by `Before`, whose
`Place` is the order of the names in which the code takes the paths.

### SchemaMigration and the code

| variable | code |
|---|---|
| `db`, `wal` | the file under the database's name (schema, rows, journal mode) and the sidecar beside it, with whether it was written for that file |
| `lock`, `conn` | the write lock, and each other connection: to this file, or stale, to the one that was replaced |
| `committed` | observed: rows somebody was told are committed |
| `backups`, `staging`, `synced` | published backups, with or without one of before, an unpublished one, and what a power loss leaves |
| `trusted`, `restored` | observed: backups that were used again while a power loss could still undo their rename; whether a restore was begun |
| `events` | a counter of the bound `MaxEvents` |
| `job` | the local variables of the coordinator, `at` being the step it has reached |

The steps of the job are those of `migrate_sqlite_database`, `backup_sqlite_database` and
`restore_migration_backup`: the guard (`BEGIN
IMMEDIATE` on the source), the snapshot, the backup, the release of the guard for the
checkpoint and the change of the journal mode, the guard again, the reservation of the name, the
replacement, the removal of sidecars, the sync; and a rollback from each of them.

### Proactive and the code

| variable | code |
|---|---|
| `clock` | the learner's time of day; `Quiet` are the quiet hours |
| `loop` | `ProactiveScheduler._loop`: the place between two awaits, the sleep that is left, what the scan has read (`cool`) and found; `busy` is observed: plans with a live Run when the scan began |
| `run` | by plan: the latest root Run with the candidate it carries, its `proactive_decisions` row (`dec`), its latest tool call and where that is (`tool`), the interventions it made (`sent`) |
| `wait`, `checked` | `next_eligible_at` of a candidate's latest decision, in ticks; the age of a plan's latest successful decision |
| `news`, `today` | the age of a plan's latest notification; the deliveries since midnight |
| `due`, `active`, `paused` | what is due; active plans; `proactive_paused` |

A cycle is `Beats`, `Polled` or `PollFails`, `Look`, `Choose`, `Trigger`: the scan reads without a
transaction, and `trigger_now` looks at the scope again and at nothing else. `notification_send` is cut
where it is not protected: the guard (`Notify`), the savepoint (`Build`), and the decision with the
intervention (`Send`) or the refusal (`Refuse`). `Finalized` is `finalize_proactive_decision`, which the
guard, a notification and the end of a Run (`Ends`) share.

## 3. Runs

| run | question | instance and bounds |
|---|---|---|
| `run_executors` | do leases exclude, does every steer, call and answer survive races and crashes, and is the whole the abstract Run? (`Inductive`, `OneLeaseholder`, `SteersAccounted`, `ConversationTrue`, `EffectOnce`, `FrozenAnswerKept`, `RefusedStaysRefused`, `KeepsPromise`) | 2 executors, 1 request, 1 steer, 2 calls of which the first is gated, 3 claims, 1 crash; expiry, kills, lost scope; a service that refuses `stream_options` |
| `run_decisions` | can a waiting Run be decided, can a stale decision hurt, does runnable work end and no steer lie? (`WaitingIsDecidable`, `TerminalIsFinal`, `RunsSettle`) | 2 requests, 1 executor, 1 gated call, 1 steer, 1 retry, 6 claims, 1 crash; a service that takes `stream_options`; fairness |
| `outbox` | is a message or piece of code sent or run at most once, a delivery final, a file only changed over its base, the tool told the truth, do the records agree? (`RecordsTrue`, `EffectsAtMostOnce`, `DeliveryIsFinal`, `FileFollowsIntents`) | by `Meeting`, one case per behaviour: 2 pushes of one notification, its mail and a receipt; 2 pieces of code; 2 writes of a file and their undos, with edits by others and a directory in its place. 2 claims each, 1 halt; lost receipts, a busy database, cancelled Runs, threads that outlive a stop |
| `outbox_liveness` | is every intent attempted and every claim given up? (`IntentsSettle`) | a file, a push, a piece of code, 1 crash; fairness |
| `queue` | is the queue an ordered list, do scopes exclude, do replies agree, does every end start the next message? (`RowsKept`, `OneRootPerScope`, `RepliesAgree`, `NoBlindChange`, `QueueOrder`, `EndStartsNext`) | 3 messages and, one case per behaviour: two tabs on a session; replies, their edits, mail, steers, a heartbeat and fenced Runs on two sessions of a plan; archiving. Versions up to 3 |
| `task_map` | is no wake lost or without an owner, and nobody at work after a wait? (`MapTrue`, `QuietAfterWait`, `WakeIsSeen`) | 5 requests, as many tasks, 2 approvals, a parent that cancels and waits; fairness |
| `subagents` | do children end with their parent, once, as told and in order, and do they end at all? (`ChildrenTrue`, `NoOrphans`, `WorkEnds`) | seven setups: up to 3 assignments, 1 spawned child, 1 request, 1 retry, 2 calls, 1 crash or refused transaction; fairness |
| `mail` | is a mail marked only when its reply is durable, answered once, its acknowledgement final? (`RepliesTrue`, `AckedIsFinal`) | 2 mails to one intervention, and one case per behaviour: 2 polls with expiring claims; new UIDs and a crash; 2 crashes |
| `mail_poison` | does a reply come back to its session? (`ReplyComesBack`, not behind a reply that raises) | 3 mails, 2 interventions, 1 poller; fairness |
| `state` | does the application only start on a whole state, and does an interrupted operation settle? (`Recoverable`, `Atomic`, `OperationsSettle`) | a tree, a database and its sidecar, 2 versions, 2 crashes, 1 failure, 1 late interrupt; fairness |
| `migrate` | does every committed row survive, is a failure without trace, is every replacement backed up, does the schema become current? (`CommitSurvives`, `NoMixture`, `OutcomesTrue`, `ReplacedSafely`, `BecomesCurrent`) | 2 connections, 1 row, no database or one in WAL mode, an earlier backup or none; 4 openings, failures, kills, power losses and restores in any mixture; fairness |
| `proactive` | does every decision tell what the learner saw, and is nobody asked again too early? (`Decided`, `ComesBackInTime`) | a plan with a review and a check-in, 2 calls, 2 faults, 2 steps of the learner, a day of 3 ticks with 1 of quiet |

Several of these properties are conjunctions of named parts, each with its own comment in
the module: `SteersAccounted` and `ConversationTrue` of `RunLifecycle`, `RecordsTrue` and
`FileFollowsIntents` of `Outbox`, `RowsKept` and `RepliesAgree`, `MapTrue`, `ChildrenTrue`,
`RepliesTrue`, `Decided`, `Recoverable`, `OutcomesTrue` and `ReplacedSafely`, and the two
liveness properties `RunsSettle` and `IntentsSettle`.

All runs but `state`, `migrate` and `proactive`, whose clock goes on, allow a stop (`CHECK_DEADLOCK FALSE`): a Run really stops
when it is terminal, waits for the user or is fenced; a queue or mailbox may be empty.

Bounds. For a Run, two executors are enough for a takeover and for a return of the one that lost;
three claims allow a takeover and a restart, or a retry, in one behaviour. Two calls give a batch
with something behind the call that is interrupted, which is what an order
can lose. The service refuses `stream_options` in one run and takes them in the other; a service that does
now this and now that was checked in `run_executors` as well (6.1 million states). `HasSession` is true in
both: without a session a Run gets no steers and leaves no message, which was checked as well. One crash lands
between any two steps, and since nothing but the database survives it, a second is a first one from another
state. `MaxAttempts` and `MaxCrashes` are bounds of the model; `MaxSteps`, `MaxModelCalls` and
`MaxRetries` are settings of the code with small values.

For the outbox, two actions of one record are enough for them to disagree, and two
writes of one file for a conflict; a second claim is what could send twice. `MaxTokens`
bounds the claims of a row while the process is up, `MaxHalts` crashes and stops; a
start may claim `MaxHalts` times more, so that the bound never blocks a recovery. The
contents are two written ones, one of somebody else, and none.

For the queue, three rows are the fewest of which one can move over another while a third
stays; the bound on versions counts the changes of a row, so each row may be moved or edited three
times. A tab keeps one row at a time, which is what a mutation names. The cases of `OneCase` keep
tabs, replies and archiving out of each other's behaviours: tabs touch only rows, and what
replies and archiving do to rows is the same removal and growth at the end. For the task map,
five requests cover a creation, two decisions and two more that race with them; a task per
request is all that can be launched beside the ones they wake. For subagents, two assignments are
the least with an order and three the least with one between two others; a second call is a replay,
which finds tasks of the first that know other events. The setups keep the largest combinations
apart: none has three assignments, retries, a fault and a request at once. For mail, two replies to one
intervention are the case in which one could be answered twice or closed by the other. The files
of `state` are the least with an order between a tree, a database and its sidecar; with two crashes
a recovery is interrupted as well. In `migrate` the second connection is the one that comes
while a first has the file open; `MaxBackups` is 0 because a further backup only
adds an element to the directory, which may hold one already. The four events are shared by what others
and the environment do, so that any four of them may come together: two kills, or a kill and a power loss, around two
restores included, which is the least in which a backup that was never synced is used again and lost. The
initial database is absent or in WAL mode; the mode of the rollback journal is what a failed upgrade or a
restore leaves, and all three modes together were checked as well (2.8 million states).

For `Proactive`, a tick is the unit in which waits and cooldowns are compared; two calls of a Run are a call
and the one that meets its decision, two faults a crash between the commits of a call and what
comes after it. Nothing is assumed of how long a cycle or a call takes: ticks come between any two of their steps.

Fairness of `RunLifecycle` (`FairSpec`). A task is an asyncio task that goes on unless cancelled
(`TaskStep`, weak). Runnable work has somebody to claim it: whoever makes a Run
runnable starts a task (`start_tracked_task`, `wake_tracked_task`), the retry
sleeper claims after its delay, and startup starts what it re-queued (`Claim`, weak). A
crashed process is started again (`Restart`, weak). Nothing forces a user to decide,
a lease to expire or a task to be killed. `run_decisions` excludes kills and stalled
heartbeats: a task killed without a record (a busy database inside `_fail`) does leave the
Run to the next restart, which no fairness of the code hastens.

Fairness of `Outbox`. The event loop resumes each task (weak); the drain loop takes
the oldest due row whenever it is idle, so a row that is due again and again is taken
(strong, `ClaimNext(0, a)` and `ClaimReconciliation`); a process that went down is started
again (weak). `outbox_liveness` assumes that the database records outcomes and that
nobody cancels a Run: otherwise a transport's claim stays `delivering` until the next
start, by design.

Fairness of `Subagents`. The event loop resumes tasks, sweeps and requests under way (weak), and a
child's task comes to a report, an error or a retry, since model calls have a timeout and a child
a number of steps. A tool call of the parent has a timeout (`ToolTimeout`) and its loop a budget, so
that it ends however often it calls its tools (`Finish`, strong). The process is started again
(weak). `WorkEnds` excludes what a request has stopped alone, and what is left when the database
refuses an end or a sweep: the next start takes care of these, and nothing hastens it.

Fairness elsewhere. `TaskMap`: the event loop runs what is ready, callbacks and the steps of
started requests included (weak); nobody has to decide, ask or end. `MailIngress`: the
scheduler polls for ever, claims expire and Runs end (weak), and a server that is asked again and
again sets a flag in the end (strong). `StateMaintenance`: a command runs on, and the
application is started again (weak). `SchemaMigration`: the coordinator runs on and connections
are closed in the end (weak); the application is started again and again, although others
may hold the database at some of these times (strong).

What the violated run shows. `mail_poison`: a reply to an intervention that has been closed raises inside the one
transaction of the poll. The mail stays unseen, every later poll meets it again, and a reply to another, open
intervention is never taken.

### Divergences no run records

Each of these was met while translating the code. Where a property holds in spite of one, its
comment has the exception.

- A steer that is applied when the step or budget limit is reached is seen by no request:
  `prepare_finalization` folds it and re-enters the loop, the limit still holds
  (`runtime/agent.py:951`, `runtime/state.py:641`). `AnsweredSteersSeen`, a part of
  `SteersAccounted`, is what holds: a Run that ends with an answer of the model has shown it
  every applied steer.
- A request that the model service refuses with an error that speaks of `stream_options` is sent a second time on the
  same reservation (`runtime/agent.py:1093`), while a comment says that the persisted budget must not look as if no call
  had happened (`runtime/agent.py:664`): the budget counts calls of the model and not requests. `RequestsAccounted`, a
  part of `ConversationTrue`, is what holds: each call is on the budget before its first request, and has at most one more.
- The edit of a message makes a Run that answers what the message answered, without a look at the intervention
  (`api/agent.py:821`). If that has been closed, the Run can only end as the first one did: any other end raises in its
  terminal transaction (`runtime/interventions.py:67`) and is rolled back, the one of `_fail` included.
  `NoReplyConflict` has the exception.
- The shutdown releases the runtime lease (`main.py:189`) while a thread may still replace a file
  (`outbox.py:547`); the next process takes its claim for abandoned and publishes too. `outbox`
  includes such threads.
- A cancellation by the user dispatches the next queued message (`runtime/state.py:1301`), while
  `CHANGELOG.md:110` has the queue move on after a completion.
- A mail reply that was queued behind a heartbeat has no Run of its session in front of it, so no end
  looks at it (`runtime/state.py:942`, `CHANGELOG.md:187`). `EndStartsNext` speaks of the ends
  that look.
- The job of a mail reply refers to its queue row with `ON DELETE RESTRICT` (`models/entities.py:2218`), so the
  row cannot be deleted when it is dispatched; the error is none of those that dispatch contains, and the end of
  the Run in front of it is rolled back, while a comment says that a queue item must not abort it
  (`services/queue.py:279`). `raised` in `SessionQueue` records it.
- A directory in the place of a file that an interrupted delivery was to write makes the recovery raise, and the
  start of the server with it (`outbox.py:1388`).
- A steer that arrives too late inherits the reply target of its Run, and the message made of
  it cannot be dispatched once that Run has closed the intervention (`runtime/state.py:818`).
- Archiving a session or a plan looks for live Runs before it takes the writer (`api/agent.py:337`,
  `api/plans.py:124`), so a Run created in between works on an archived plan.
- A process that dies after the acknowledgement and before the caller of `poll` starts its Runs
  (`notifications/email.py:390`) leaves them queued until the next start.
- A receipt for mail to an archived plan closes an intervention that a live Run is answering, and the
  end of that Run is rolled back (`NoReplyConflict` has the exception).
- An interrupt between the commit record of a switch and its return is handled as a failure before it
  (`db/maintenance.py:2404`, `db/maintenance.py:2099`), so the command takes back what its journal calls committed. If
  it dies before all is back, the next recovery believes the journal and throws away what is still in the rollback
  directory (`db/maintenance.py:2099`). `OnTime` excludes this.
- An operation directory may be seen before its parts are made, or after some of them are
  removed (`db/maintenance.py:1837`, `:2067`, `:1206`), or with the directories of a switch that has not
  yet written its journal (`db/maintenance.py:2361`, `:2084`); a recovery then gives up and asks
  for help. `OperationsSettle` allows this answer.
- A repeated migration or restore may rely on a published backup whose rename was never synced, because the attempt that
  published it was killed (`db/migrations.py:3771`, `:3911`): a power loss can undo that rename and leave the replacement,
  and with a restore the rows that only this backup had are lost. `CommitSurvives` has the exception (`trusted`).
- Cancelling one child of a planning delegation through its own endpoint makes
  `asyncio.gather` raise in the parent's tool (`tools/planning.py:416`); its siblings are cancelled and
  the parent's task dies with its row still running, while `CHANGELOG.md:189` speaks of stopping a
  single subagent. `WorkEnds` has the exception.
- A report that cannot be committed because the database is busy is recorded as a failure although it
  was frozen (`runtime/subagents.py:552`, exception in `FrozenCounts`).
- A request that cancels a Run and whose sweep over the children meets a busy database fails, and one that
  repeats it returns at once because the Run has ended (`api/agent.py:1003`): the children go on until
  the next start (exception in `NoOrphans`).
- A busy database in the cleanup of a cancelled delegation raises in the place of the `CancelledError`
  (`tools/planning.py:418`), so that the parent's task goes on with an ordinary tool failure.
- `subagent_cancel` answers "cancelled" when the child has completed between its look and its
  transaction (`tools/subagents.py:301`, `:314`). A delegation that is called again may report a child as
  "running" while a request is stopping it (exception in `ReportsTrue`).
- The order in which children commit is kept by events in memory: it does not outlive a restart
  (`tools/subagents.py:124`), and a child whose predecessor was cancelled does not wait for the one before
  that (`tools/planning.py:249`). `OrderKept` has both.
- `cancel_and_wait_tracked_task` promises that nothing is written late (`runtime/tasks.py:129`). A parent
  that is cancelled between the two halves of `cancel_child` leaves the child's task unsignalled; it works on an
  ended row until its next checkpoint loses the lease (`Lose`), and writes nothing to the row.
- A Run that succeeds between the scan and `trigger_now` does not stop the latter
  (`runtime/scheduler.py:62`): the plan is checked again within its cooldown (exception in `ComesBackInTime`). Neither do
  a pause or an archiving in between.
- The poll of the mailbox comes first in a cycle, and an error it raises ends the cycle
  (`runtime/scheduler.py:108`, `:126`), while `docs/EMAIL.md:9` says that the heartbeat does not depend on mail.
- The guard of a notification reads before the transaction that sends (`notifications/service.py:384`), so the Runs of
  two plans may both see the last free place of the day.
- The scan ends at the first candidate, and `trigger_now` gives up when a live Run is on its plan
  (`runtime/scheduler.py:117`): a Run that waits for an approval hides every plan behind its own, while `CHANGELOG.md:143`
  says that the scan does not miss a stalled plan because of another.
- The backoff of a refused or failed candidate is five minutes whatever the heartbeat is (`runtime/proactive.py:199`):
  with a longer heartbeat, a first candidate that always fails is always eligible, and those behind it are not reached. A
  cancelled one is eligible at once.
- The savepoint of a building decision is not inside a transaction on the path of a refusal, so it commits by
  itself (`runtime/proactive.py:123`, `db/uow.py:101`). After a call that broke off there, every later
  notification of the Run conflicts with the identity of that call (`runtime/proactive.py:301`).

## 4. Proofs

`RunLifecycleProofs` proves, for any number of executors, requests, steers, calls,
retries, claims and crashes: the type invariant, one leaseholder, the leaseholder's
checkpoint is current, effects at most once, gated effects approved, refusals
final, and terminal Runs final. Assumed are only `RunConstants` (the settings are
natural numbers, gated calls are calls) and `NoneIsNull`.

The properties are not inductive; `Inductive` adds what they rest on:

- `TokensDistinct`: tokens of working tasks differ and do not exceed the attempt
  counter from which the next claim takes its token. Without it a takeover could
  hand out a token that is still in use, and `LeaseholderIsCurrent` would not survive `Claim`.
- `LeaseholderIsCurrent` itself: the row may only be replaced by a checkpoint
  that was derived from it.
- `CheckpointsPresent`: where a checkpoint is null. It types the checkpoints the
  steps write, and it is what makes the CHECK constraint refuse a stale decision: a
  terminal row has no checkpoint.
- `EffectsCommitted`: an effect and `committed` go together, and nothing
  leaves `committed`; so an effect happens once, whatever claim it ran under.
- `GrantsBacked`: every grant in the row's, a task's or a loaded row's checkpoint comes from an
  approval that was consumed; so `~NeedsApproval` implies the approval.

TLC checks `Inductive` in `run_executors`. The proof sorts the steps of a task by what they may
change (store a checkpoint, move on, leave) and treats each conjunct per class.

Its second part goes on from `Inductive` and proves the rest of the safety of `RunLifecycle`. It adds

- `Asking`: what the record of a call's approval, the row, and a task or request that holds a copy of
  the row are to each other. While the row waits, its pending call has an open approval; an
  approval that is decided and not consumed is that of the row's pending call; and a row that a request
  loaded while the Run waited is the row still, unless its call is decided or the Run is over. It
  gives `QuestionsAnswerable` (`WaitingIsDecidable`) and, since the phase is the checkpoint's and a leaseholder
  leaves a finalizing one alone, `AnswerStaysFrozen` (`FrozenAnswerKept`);
- `Steering`: the live checkpoint has folded the applied steers, each in one message; a task
  that got an answer of the model has shown it the steers it had folded; no steer waits beside a frozen
  answer, so a completed Run with an answer has shown all of them. It gives `SteersKept`
  (`SteersAccounted`);
- `Truthful`, `Conversing`, `Budgeted`, `Repeated`: a good result in the messages belongs to a call that took effect; the
  results told, the current call and the remaining ones are the calls issued, in that order and without a
  gap; the model calls that have sent a request and the tasks about to send the first one of theirs are together no
  more than the durable checkpoint counts, and the requests repeated and the tasks about to repeat one no more than
  those calls. It gives `ConversationStaysTrue` (`ConversationTrue`).

`PromiseKept` (`Spec => KeepsPromise`) is the refinement: each step of the Run is a step of
`RunOutcome` or leaves its variables alone, shown action by action from the invariants: the steps of
leases, retries, crashes and takeovers are stutters, and `Asking` and `Steering` give the guards of the others.

`TaskAndMailProofs` proves, for any number of tasks, requests, parents and approvals, that a Run
has one task (`OneTaskPerRun`), that a kept wake has a task whose callback launches it
(`KeptWakeHasOwner`) and that nobody works after a wait (`WaitIsQuiet`), from
`TaskAssumption`. What they need: a live task owns the slot (`LiveOwnsSlot`) and a kept wake
implies a task in the slot (`SlotInUse`); the callback of a task only clears a slot that is its own.
`WaitIsQuiet` adds that an ended Run stays ended and that its task, once signalled, never works (`Quiet`).
`MapStaysTrue` (`MapTrue`) adds `Counted`: a coroutine is counted once among the closed, the kept wake and
the tasks, so the tasks made are as many as the coroutines started. That the set of tasks is
finite is part of the invariant, since `Cardinality` says nothing otherwise.

`OutboxProofs` proves all the safety of `Outbox` the runs check, for any actions and links, any claims,
retries, stops, crashes, refusals of the database and edits of the file by others: the records agree
(`RecordsStayTrue`), the refinement of `AtMostOnceEffect` (`EffectsOnce`), receipts are final
(`ReceiptsFinal`) and the file follows the rows (`FileFollows`). Assumed are `OutboxConstants` and
`LinkConstants`, which say what may be linked to what: the intents of a tool call are staged together with its
invocation (`tools/workspace.py:128`), only a mail or a push belongs to a notification
(`notifications/service.py:252`, `notifications/email.py:249`), a file write makes an operation of its own,
and the one undo of it has the key `undo:<operation>` (`api/operations.py:565`). The invariant `Inv` is

- `TaskTrue`: a task at work owns the row it has claimed, with the token it claimed it with, and the row is behind its
  fence; what the task is about to record is so. For a transport that is the effect itself; for a file, as long as
  nobody else wrote it, that the base or the effect is what the file shows.
- `HeldOnce`: no two tasks have one row. A claim needs a row that waits, which nobody has, or an
  uncertain file, which only the drain loop takes, and it is idle then. `Record` keeps its `Owns` test all the
  same: the proof shows that it always succeeds.
- `SentTrue`: what the status of a transport says of its effect, and that a thread left behind by a
  cancelled task can only act once, on a row that is uncertain. So a row that is queued again has had no effect.
- `OpTrue`: an undo comes after the delivered write, and the operation is new as long as the write is. With it the
  statuses of two rows suffice to know that of the operation, which `OpAgrees` alone does not.

`Linked` adds the agreement of the records, which a move of one row disturbs in one of two ways: `FencedLinked` and
`SettledLinked` treat them for all actions. TLC checks `Inv` on the instance of `outbox`.

`SessionQueueProofs` proves all the properties of `SessionQueue`, for any sessions, plans, messages, tabs, replies,
heartbeats and orders of the requests: the rows of a session stay a list and no UPDATE meets a taken position
(`QueuesStayLists`), one root in a scope (`OneRoot`), replies agree (`AnswersStayAgreed`), no blind change
(`NobodyChangesBlindly`), the end of a Run starts the next message (`EndsStartTheNext`), and the refinement of
`EditableQueue` (`QueuesKeepTheirOrder`). Assumed are `QueueAssumption`, `MessagesAssumption` (finitely many messages, none
of which is a heartbeat) and `NoneIsNoRow`. The invariant `Inv` is

- `Lists`, `Placed`: the n rows of a session have the positions 0, ..., n-1 (`Dense`, which counts nothing, so that the
  proofs need no cardinality but in `PositionsDense` itself), and a message has a row while it is queued. From `Dense` follow
  that the two phases of `CompactQueue` and `ReorderQueue` never meet a taken position, in whatever order SQLite
  visits the rows, and that `max + 1` is the number of rows;
- `SteersTrue`, `StartedOnce`: a steer is kept once, for one Run that works or is fenced, so `WithSteers` queues each once; a
  message is a Run once;
- `ScopesTrue`, `ReplyTrue`, `AnswersTrue`: who answers an intervention works in its session and plan, so two Runs that
  answer it would be in one scope, where `ScopesTrue` allows one; the intervention stays open until that Run ends,
  unless the Run repeats an edited message, whose first Run may have closed it. A Run that ends has passed
  `finalize_run_intervention`, so it ends as the intervention is closed all the same;
- `ViewTrue`: a row that still has the version a tab saw stands where it saw it. It rests on `Later`: each action that
  touches a row raises its version, and a message that has left the queue never comes back to it.

The refinement reads the positions as a list (`OrderOf`, `OrderIs`) and shows for each way a row is written what becomes of
that list: `JoinedOrder`, `LeftOrder`, `HeadLeaves`, `MoveStep`. TLC checks `Inv`, with a bound for the n of `AllDense`, on the
instance of `queue`.

`ProactiveProofs` proves, for any plans, candidates, settings of the clock and the guard, calls, faults and
crashes, that a decision is true to its Run (`DecisionsTrue`) and that the scheduler does not come
back early (`NeverTooEarly`), from `ProactiveAssumption` and `OutcomeAssumption`. `RunTrue` relates a Run to its call
and decision: the terminal decision of a live Run was made in an earlier call than the open one, whose
identity then conflicts, so a Run does not decide twice. `ScanTrue` says what the loop knows between the scan
and the trigger: no other Run of the scheduler begins there, so what the scan
read of a plan that was free stays true; a plan that was busy is the exception the property names.

`SchemaMigrationProofs` proves, for any connections, rows, operations, failures, kills and power
losses: types, that the main file never meets the WAL of another (`NeverMixed`), that what
was committed can be read or is in a backup that a restore has made or relied on (`CommitsSurvive`), that nothing is replaced
that a published backup does not hold (`BackedUp`), and that nobody commits to a file that may
still be taken back (`VerifiedBeforeWritten`); `Replacement` joins the last two. A call that ends has told
the truth of the schema (`OutcomesStayTrue`). From
`ConfigAssumption`, the invariant is the conjunction of

- `JobKnown`, `LockKept`: what the coordinator's local variables and the write lock are at each step;
- `ConnectionsAttached`: who is connected to the file under the name and to an old one;
- `SidecarOwn`: a sidecar that was written for another file only lies there between a
  replacement and the removal of sidecars, when the coordinator has the lock of the new file;
- `SourceSnapped`, `SnapSaved`: from the second guard on, the snapshot is what is in the file,
  and from the backup on, a published backup holds the snapshot;
- for `CommitsSurvive`, `NoneLost`: every row that somebody was told is committed is in the file or its own sidecar and
  in what a power loss leaves, or a restore has it in a backup that counts (`Surely`: no power loss takes it, or it
  was used again before it was durable); and, during the publication, in such a backup, or in the snapshot and the
  candidate both. `Relied` says that a job which is going to replace the file has such a backup, and `SyncedFirst` that
  a backup is durable only after it was published, so that the rollback of one does not take back a durable one;
- for `OutcomesStayTrue`, `Told`: what a job has found of the source's schema and what it has kept, which the
  snapshot has too, so that a rollback brings it back; and `BackupsDistinct`: no two backups are the same
  file, nor would they be if a power loss undid a rename.

There is one lemma per action of the coordinator and of the connections. TLC checks the whole of it on the
instance of `migrate`.

`SubagentsProofs` proves, for any assignments, spawned children, requests, retries, refused transactions and
crashes, that each child has one end of which the parent is told truly and in order (`ChildrenStayTrue`) and that
a parent that is over leaves no child active (`NoneLeftBehind`), from `SubagentAssumption` (the children are
finitely many, since `SetToSeq`, the order in which a start fails them, says nothing of an infinite set). Neither is
inductive. `Inv` adds

- `TasksTrue`: a row and its task are in step (`InStep`), or the row has ended, or the cleanup of the delegation
  will end it, or a refusal or a request excuses it (`Covered`). So a task that is done leaves an ended
  row behind, which is what `gather` relies on when it reads the rows again; and only who is covered is ever signalled.
  `SweepsTrue` is the same for the sweeps, which terminate a row before they signal its task, and `Delegation` says
  when the rows of the assignments exist and which ends the delegation has seen;
- `FrozenTrue`: an executor that fails has frozen no report, or has met a refusal;
- `TurnsTrue`: as long as there was no fault and no child was stopped alone, the event of an assignment is set
  only by a child whose row has ended, or whose task is done and which the cleanup is about to cancel
  (`Settled`): the `finally` that sets it runs also for a task that was cancelled before its row was. So
  the child after it, which commits behind that event, does not come before a natural end of it;
- `Handed`: if the parent is over, each active child is in the list of somebody who sweeps over it, or somebody will
  still make such a list; and a parent is signalled before a request ends it, so that no tool of a parent that is
  over creates a child. The theorem needs both parts, and both need that whoever gave up is known (`gaveUp`);
- `Down`: a dead process has rows, and no task, event, sweep or request.

Each kind of step has a lemma of what it does to rows, tasks and sweeps (`ExecutorEffect`, `SweepEffect`, `ParentEffect`,
`RequestEffect`, `ProcessEffect`), from which the preservation of each conjunct follows. `EndsByOne` is the core of the
first theorem: a step ends no child, one child by the transaction `End`, or, at a start, all that were active. TLC
checks `Inv` on the instance of `subagents`.

`StateMaintenanceProofs` proves, for any managed paths, versions, crashes, failures and late interrupts, that the state
can be recovered (`AlwaysRecoverable`) and the refinement of `AtomicState` (`StateIsAtomic`), from `MaintenanceAssumption`:
no two paths have one place in the order of the names, and a database comes before its sidecar there, as `app.db`
before `app.db-wal`. The invariant `Inv` is

- `DirectoryTrue`, `HolderTrue`, `WantTrue`: what is in the operation directory when, and what the holder of the lease has
  found or made before it got to where it is; `HotTrue`: a transaction that died lies where it was, since whoever
  takes the lease to move files has refused it or had it rolled back;
- `SwitchTrue`: while a switch can be taken back, each path is at `Home`, `Away` or `Replaced`, or was never there (`Shaped`).
  So the state before the switch, `Original`, can be read off the rollback directory and what still lies
  where it was, between any two renames, and no rename of a switch or a rollback changes it. That a sidecar in the
  rollback directory has its database there too rests on the order of the names, in both directions;
- `TodoTrue`: what is left to do follows from the shapes. So a rollback that starts from the journal after a crash, with
  all of its renames still to do, does what the one it repeats would have done (`PullStep`, `PutBackStep`), and no
  rollback meets what it cannot explain (`Clear`), one that a late interrupt has caused included;
- `SidecarOwn`, `Saved`, `Backed`: a database and its sidecar are of one version; what is about to be moved away is in a
  published backup, and so is `Original` while the journal is open;
- `Whole`: without a late interrupt, the state that a start would find is one of those that may be found, and a whole one.

`CommitSwitches` is the core of the second theorem: of all the steps of a command, a recovery and a failure, the commit is
the only one that changes what the next start finds. TLC checks `Inv` on the instance of `state`.

Its second half is about the mail ingress: for any mails, interventions, scopes and pollers, any window, any new numbers of
the server and any crashes, a mail is marked only when its reply is durable, it is answered once as long as
the server keeps its numbers, what is recorded as acknowledged is so, the Runs of mails respect the scope
(`RepliesStayTrue`), and an acknowledgement is final (`AcknowledgedForGood`), from `MailAssumption`. The
invariant `MailInv` is

- `PollTrue`: the replies and jobs a poll holds are of the UIDVALIDITY it has read, which is not ahead of the server's. So as
  long as that is the server's, the UIDs are still those of the mails it has fetched, and `SameMailbox` is just what
  `MarkSeen` needs. Each listed job has been recorded, and what a poll is about to acknowledge carries the flag: flags
  are not taken back, and a job is not given to another mail, so this stays true while the claim changes hands;
- `JobTrue`: a job is of a mail that has been answered, and says where that mail lies while the server keeps its numbers;
- `AnswersTrue`: while it has kept them from the start, a mail that was answered has a job, so that a poll which fetches it
  again, before or after another has registered it, finds that job instead of answering twice;
- `RunsTrue`: a Run is made of a mail with a token, in a scope where nobody else answers; of the replies of one
  transaction that start a Run, no two have one scope (`StartedRuns`).

A poll that has lost its claim changes no job (`OutcomeIs`), and no step changes an acknowledged one (`AckedStays`). TLC checks
`MailInv` on the instance of `mail`.

Only model-checked: what must come about under fairness, which is out of the prover's reach (`RunsSettle`,
`WakeIsSeen`, `IntentsSettle`, `OperationsSettle`, `WorkEnds`, `BecomesCurrent`). Every other property of a passing run
is the subject of a theorem, or a conjunct of one.

## 5. Abstractions and what is left out

- The clock: a lease or claim may expire at any time, a retry delay may have passed at any time.
- The elapsed-time, cost and tool-call budgets may run out at any step (`StopAtLimit`).
- A request to the model is one `create` of the client (`runtime/agent.py:1084`); what the client library sends again by
  itself is not seen by the code, nor here.
- In `RunLifecycle` tools are database tools, whose effect commits with the
  invocation; tools whose effect waits for the outbox are in `Outbox`, not composed
  with the Run. `answer` decisions are treated like rejections: both report to the model and do
  not execute the call. Post-terminal enrichment (`_after_terminal`) is best effort and
  changes nothing modelled.
- `Outbox` has one workspace file. An intent's precondition is captured in the
  step that enqueues it; the code reads the file just before, which is the same as
  having been enqueued earlier. Receipt payloads, digests and diagnostics are left out;
  contents stand for their digests. An effect whose failure the transport reports as a
  revoked subscription is taken not to have happened.
- `SessionQueue` leaves out messages without a session, which have a queue of their own, and Runs
  made from the answers of a planning session, which are those of `CreateRun` without a reply target. Of the edit of a message
  it has the Run; the revision and the messages and derived rows that become stale are left out. An edited
  message is named by its new wording, so a name makes one Run at most; a steer that was folded has its Run's
  session and reply target, so that its edit is an edit of the message of the Run. `PlanOf` is a constant because
  a session's plan never changes.
- `TaskMap` has one Run, since keys of the maps are independent. A task that waits for itself is left
  out. The request that cancels signals the task before it terminates the row, as the API does.
- `MailIngress` leaves the fate of a queued reply to `SessionQueue`, and with it the race of
  archiving; mails with the token of a notification without an intervention are left out.
- `StateMaintenance`: a rename or a record is atomic and synced before the next, so a power loss is the
  death of the process. The checks of manifests, digests and paths are left out; they refuse before
  anything is moved. `Sidecar` stands for `-wal` and `-shm` together.
- `SchemaMigration`: the database's flock lets one coordinator in, so there is one job. Others do not
  replace or remove the file, but may create an absent one; the creation of an absent file and the transaction on it
  are one step (`Reserve`), as who opens the file between the two finds what an opener finds after them; a stale
  connection cannot write, since
  it holds no lock of the file under the name. A write syncs the directory. An interrupt
  during the publication is a kill. How rows are copied from schema to schema is not modelled: a
  candidate has the rows of its snapshot.

- `Proactive`: a plan has one live Run (`SessionQueue`), so a Run is named by its plan. What makes a candidate due
  is the learner's doing. The evidence a decision carries, its digest, and the channels of a delivery (in
  `Outbox`) are left out. A manual heartbeat has no plan; of it remains that its notifications count for the guard.
- `Subagents` has one parent, whose own steps are in `RunLifecycle`; children have no children, as
  their tools are read-only. The model calls and tools of a child are one step that reports, waits or
  breaks. `subagent_status` and `subagent_join` only read. A row fenced for reconciliation is left out: a
  child has a checkpoint from its creation on.

Not modelled: the event log, undo of database operations,
hand-off and the derived rows of plans, evidence, competencies, memory and context (single
transactions over domain data, whose correctness is in their data and not in an order of steps); search
and retrieval, which only read; the frontend and the evaluation, which keep no state of the
running system; the copy of rows between schemas and the schema checksums of `migrations.py`.

## 6. Plan

1. Compose `Outbox` with the tool calls of `RunLifecycle` (pending deliveries at the
   end of a Run), and `Subagents` with the parent's Run.
2. `EventLog`, `Operations`.
3. Pure modules: plan state, competency graph, evidence supersession.
