------------------------------- MODULE Outbox -------------------------------
(***************************************************************************)
(* The outbox (outbox.py): durable intents of external effects, the drain  *)
(* loop and the targeted dispatchers that deliver them, the invocations,   *)
(* notifications and operations that follow their deliveries, the undo of  *)
(* a file operation, and the start and stop of the process.                *)
(*                                                                         *)
(* An effect never happens inside a transaction: a row is fenced as        *)
(* delivering first, then the effect is attempted, then its outcome is     *)
(* recorded.  A thread that performs an effect outlives its task.          *)
(***************************************************************************)
EXTENDS Integers, FiniteSets

CONSTANTS
    Actions,   \* the rows there can be, numbered from 1
    Dest,      \* where each delivers to
    Batch,     \* the transaction that enqueues it; 0 for the undo of a file
    Meeting,   \* bound: the sets of batches that meet in one behaviour
    Link,      \* the invocation, notification and operation it belongs to
    Content,   \* what each file write writes
    Absent,    \* the content of a file that does not exist
    Blocked,   \* what is found where a directory took the file's place
    Touched,   \* contents somebody else may give the file
    MayStop,   \* whether tasks may be cancelled while their threads go on
    MayFail,   \* whether recording an outcome may fail
    MaxTokens, \* bound on the claims of one row; a start may exceed it
    MaxHalts   \* bound on crashes and stops

Files      == {a \in Actions : Dest[a] = "workspace_file"}
Transports == Actions \ Files
Codes      == {a \in Actions : Dest[a] = "subprocess"}
Undos      == {a \in Files : Batch[a] = 0}

ASSUME OutboxConstants ==
    /\ Actions \subseteq Nat \ {0}
    /\ Dest \in [Actions -> {"smtp", "web_push", "subprocess", "workspace_file"}]
    /\ Batch \in [Actions -> Nat]
    /\ Meeting \subseteq SUBSET (Nat \ {0})
    /\ Link \in [Actions -> [inv : Nat, note : Nat, op : Nat]]
    /\ \A a \in Actions : Batch[a] = 0 => Dest[a] = "workspace_file"
    /\ \A a \in Actions : Link[a].op # 0 <=> Dest[a] = "workspace_file"
    /\ \A a \in Codes, b \in Actions : Batch[a] = Batch[b] => a = b
    /\ MayStop \in BOOLEAN /\ MayFail \in BOOLEAN
    /\ MaxTokens \in Nat /\ MaxHalts \in Nat

\* What a row may be linked to. The intents of a tool call are staged with its
\* invocation, only a mail or a push belongs to a notification, a file write makes an
\* operation of its own, and its undo is the one action with the key undo:<operation>.
ASSUME LinkConstants ==
    /\ IsFiniteSet(Actions)
    /\ \A a, b \in Actions :
          Link[a].inv # 0 /\ Link[a].inv = Link[b].inv => Batch[a] = Batch[b] /\ a \notin Undos
    /\ \A a \in Actions : Link[a].note # 0 => Dest[a] \in {"smtp", "web_push"}
    /\ \A a, b \in Files : Link[a].op = Link[b].op /\ (a \in Undos <=> b \in Undos) => a = b
    /\ \A u \in Undos : \E a \in Files \ Undos : Link[a].op = Link[u].op

VARIABLES
    row,      \* outbox_actions
    inv,      \* tool_invocations.status of the linked invocations
    note,     \* notifications.status
    op,       \* operations.status
    task,     \* the drain loop (0) and the dispatcher of each subprocess
    told,     \* what a dispatcher has answered to its tool
    undoing,  \* undo requests that have looked at the file
    file,     \* the one workspace file the file actions are about
    sent,     \* how often the effect of a transport has happened (observed)
    orphan,   \* actions whose effect a thread without a task still performs
    alone,    \* whether only tasks have changed the file so far (observed)
    boot,     \* the process: "down", "recovering" or "up"
    todo,     \* what the recovery has left to reconcile
    halts

linkVars == <<inv, note, op>>
worldVars == <<file, sent, orphan, alone>>
bootVars == <<boot, todo, halts>>
vars == <<row, linkVars, task, told, undoing, worldVars, bootVars>>

-----------------------------------------------------------------------------
Waiting   == {"queued", "retry_pending"}
Uncertain == {"delivering", "needs_reconciliation"}
Final     == {"delivered", "cancelled"}

Contents == {Absent, Blocked} \cup Touched \cup {Content[a] : a \in Files}
Invs  == {Link[a].inv : a \in Actions} \ {0}
Notes == {Link[a].note : a \in Actions} \ {0}
Ops   == {Link[a].op : a \in Actions} \ {0}
Tasks == {0} \cup Codes

Row ==
    [status : {"absent"} \cup Waiting \cup Uncertain \cup Final, token : Nat,
     seq : Nat, before : Contents, want : Contents]

Task ==
    [pc : {"idle", "dispatch", "send", "inspect", "check", "publish", "verify",
           "record"},
     act : Actions \cup {0}, token : Nat, mode : {"dispatch", "reconcile"},
     out : {"none", "delivered", "cancelled", "uncertain", "retry"}]

IdleTask ==
    [pc |-> "idle", act |-> 0, token |-> 0, mode |-> "dispatch", out |-> "none"]

TypeOK ==
    /\ row \in [Actions -> Row]
    /\ inv \in [Invs -> {"none", "pending_delivery", "needs_reconciliation",
                         "committed", "cancelled"}]
    /\ note \in [Notes -> {"none", "queued", "needs_reconciliation", "pushed",
                           "sent", "skipped"}]
    /\ op \in [Ops -> {"none", "pending_delivery", "needs_reconciliation",
                       "committed", "undo_pending", "undone"}]
    /\ task \in [Tasks -> Task]
    /\ told \in [Codes -> {"none", "delivered", "failed", "uncertain"}]
    /\ undoing \subseteq Ops
    /\ file \in Contents
    /\ sent \in [Transports -> Nat]
    /\ orphan \subseteq Actions
    /\ alone \in BOOLEAN
    /\ boot \in {"down", "recovering", "up"}
    /\ todo \subseteq Files
    /\ halts \in Nat

Init ==
    /\ row = [a \in Actions |-> [status |-> "absent", token |-> 0, seq |-> 0,
                                 before |-> Absent, want |-> Absent]]
    /\ inv = [i \in Invs |-> "none"]
    /\ note = [n \in Notes |-> "none"]
    /\ op = [o \in Ops |-> "none"]
    /\ task = [t \in Tasks |-> IdleTask]
    /\ told = [c \in Codes |-> "none"]
    /\ undoing = {}
    /\ file = Absent
    /\ sent = [a \in Transports |-> 0]
    /\ orphan = {}
    /\ alone = TRUE
    /\ boot = "up"
    /\ todo = {}
    /\ halts = 0

\* The statuses of all rows that belong to a linked record k.
StatesOf(rows, kind, k) ==
    {rows[a].status : a \in {b \in Actions : Link[b][kind] = k}} \ {"absent"}

-----------------------------------------------------------------------------
(* Enqueueing.                                                             *)

Enqueued == {Batch[a] : a \in {b \in Actions : row[b].status # "absent"}} \ {0}

NextSeq == 1 + Cardinality({row[a].seq : a \in Actions} \ {0})

\* enqueue_action: a tool call stages its intents with its own record. A mail
\* receipt answers a notification that has reached its reader; its
\* notification keeps its status.
Enqueue(b) ==
    LET new == {a \in Actions : Batch[a] = b} IN
    /\ boot = "up"
    /\ \E B \in Meeting : b \in B /\ Enqueued \subseteq B
    /\ \A a \in new : row[a].status = "absent"
    /\ \A a \in new : Link[a].note # 0 /\ note[Link[a].note] # "none" =>
          \E c \in Transports : Link[c].note = Link[a].note /\ sent[c] > 0
    /\ row' = [a \in Actions |->
                 IF a \notin new THEN row[a]
                 ELSE [row[a] EXCEPT !.status = "queued", !.seq = NextSeq,
                                     !.before = file,
                                     !.want = IF a \in Files THEN Content[a] ELSE @]]
    /\ \A a \in new \cap Files : file # Blocked
    /\ inv' = [i \in Invs |-> IF \E a \in new : Link[a].inv = i
                              THEN "pending_delivery" ELSE inv[i]]
    /\ note' = [n \in Notes |-> IF note[n] = "none" /\ \E a \in new : Link[a].note = n
                                THEN "queued" ELSE note[n]]
    /\ op' = [o \in Ops |-> IF \E a \in new : Link[a].op = o
                            THEN "pending_delivery" ELSE op[o]]
    /\ task' = [t \in Tasks |-> IF t \in new THEN [IdleTask EXCEPT !.pc = "dispatch"]
                                ELSE task[t]]
    /\ UNCHANGED <<told, undoing, worldVars, bootVars>>

Written(o) == CHOOSE a \in Files \ Undos : Link[a].op = o

\* undo_operation looks at the file outside its transaction: only the very
\* version the operation wrote may be compensated.
PrepareUndo(o) ==
    /\ boot = "up"
    /\ op[o] = "committed"
    /\ file = row[Written(o)].want
    /\ undoing' = undoing \cup {o}
    /\ UNCHANGED <<row, linkVars, task, told, worldVars, bootVars>>

\* A compensation that does not ask whether another has been requested.
StillUndoable(o) == op[o] # "needs_reconciliation"

Undoable(o) == op[o] = "committed"

CommitUndo(o) ==
    /\ o \in undoing
    /\ undoing' \in {undoing, undoing \ {o}}   \* several requests may have looked
    /\ IF Undoable(o)
       THEN /\ \E u \in Undos :
                 /\ Link[u].op = o
                 /\ row' = [row EXCEPT ![u].status = "queued", ![u].seq = NextSeq,
                              ![u].before = row[Written(o)].want,
                              ![u].want = row[Written(o)].before]
            /\ op' = [op EXCEPT ![o] = "undo_pending"]
       ELSE UNCHANGED <<row, op>>
    /\ UNCHANGED <<inv, note, task, told, worldVars, bootVars>>

-----------------------------------------------------------------------------
(* Claiming.                                                               *)

\* Every record linked to one of the rows in A is set to uncertain.
FenceLinks(A) ==
    /\ inv' = [i \in Invs |-> IF \E a \in A : Link[a].inv = i
                              THEN "needs_reconciliation" ELSE inv[i]]
    /\ note' = [n \in Notes |-> IF \E a \in A : Link[a].note = n
                                THEN "needs_reconciliation" ELSE note[n]]
    /\ op' = [o \in Ops |-> IF \E a \in A : Link[a].op = o
                            THEN "needs_reconciliation" ELSE op[o]]

\* A queue in which a row that waits to be retried holds up those behind it.
HeadOfLine(a) ==
    /\ row[a].status \in Waiting
    /\ \A b \in Actions : row[b].status \in Waiting => row[a].seq <= row[b].seq

\* The oldest row that is due; when a retry is due is not modelled.
Due(a) ==
    /\ row[a].status \in Waiting
    /\ \A b \in Actions : row[b].status = "queued" => row[a].seq <= row[b].seq

\* The fence is durable before the effect is attempted.
Claimed(a) == [row EXCEPT ![a].status = "delivering", ![a].token = @ + 1]

Starts(t, a, pc, mode) ==
    task' = [task EXCEPT ![t] = [pc |-> pc, act |-> a, token |-> row[a].token + 1,
                                 mode |-> mode, out |-> "none"]]

\* _claim_next by the drain loop (any row) or by a dispatcher (its own).
ClaimNext(t, a) ==
    /\ row[a].token < MaxTokens
    /\ \/ t = 0 /\ boot = "up" /\ task[t].pc = "idle" /\ Due(a)
       \/ t = a /\ task[t].pc = "dispatch" /\ row[a].status \in Waiting
    /\ row' = Claimed(a)
    /\ FenceLinks({a})
    /\ Starts(t, a, IF a \in Files THEN "check" ELSE "send", "dispatch")
    /\ UNCHANGED <<told, undoing, worldVars, bootVars>>

\* A workspace action without a live executor: uncertain, or claimed long
\* ago (the clock is not modelled), or any at all while the process starts.
Reconcilable(a) == a \in Files /\ row[a].status \in Uncertain

\* _claim_reconciliation, by the drain loop or by the recovery at startup.
ClaimReconciliation(a) ==
    /\ task[0].pc = "idle"
    /\ Reconcilable(a)
    /\ \/ boot = "up" /\ row[a].token < MaxTokens
       \/ a \in todo /\ row[a].token < MaxTokens + MaxHalts
    /\ todo' = todo \ {a}
    /\ row' = Claimed(a)
    /\ Starts(0, a, "inspect", "reconcile")
    /\ UNCHANGED <<linkVars, told, undoing, worldVars, boot, halts>>

-----------------------------------------------------------------------------
(* Delivering.                                                             *)

Act(t) == task[t].act

Goes(t, pc) == task' = [task EXCEPT ![t].pc = pc]
Ends(t, out) == task' = [task EXCEPT ![t].pc = "record", ![t].out = out]

\* Refused before anything is attempted: a transport that is not configured,
\* a subscription that was revoked, code that may not be run.
Preflight(t) ==
    /\ task[t].pc = "send"
    /\ \/ Dest[Act(t)] \in {"smtp", "web_push"} /\ Ends(t, "retry")
       \/ Dest[Act(t)] \in {"web_push", "subprocess"} /\ Ends(t, "cancelled")
    /\ UNCHANGED <<row, linkVars, told, undoing, worldVars, bootVars>>

\* The effect happens, and the transport may fail to say so; or it fails
\* without effect, which only a subscription that is gone can tell.
Send(t) ==
    /\ task[t].pc = "send"
    /\ \/ /\ sent' = [sent EXCEPT ![Act(t)] = @ + 1]
          /\ Ends(t, "delivered") \/ Ends(t, "uncertain")
       \/ /\ UNCHANGED sent
          /\ \/ Ends(t, "uncertain")
             \/ Dest[Act(t)] = "web_push" /\ Ends(t, "cancelled")
    /\ UNCHANGED <<row, linkVars, told, undoing, file, orphan, alone, bootVars>>

Want(t)   == row[Act(t)].want
Before(t) == row[Act(t)].before

EffectIsVisible(t) == file = Want(t)

\* A delivery that overwrites whatever it finds.
AnyBase(t) == TRUE

OnBase(t) == file = Before(t)

\* reconcile_action: the effect is visible, or the base is untouched, or
\* somebody else has changed the file. A directory in its place makes it raise,
\* which the drain loop ignores and the start of the process does not survive.
Inspect(t) ==
    /\ task[t].pc = "inspect"
    /\ \/ /\ file # Blocked
          /\ \/ EffectIsVisible(t) /\ Ends(t, "delivered")
             \/ ~EffectIsVisible(t) /\ OnBase(t) /\ Goes(t, "check")
             \/ ~EffectIsVisible(t) /\ ~OnBase(t) /\ Ends(t, "uncertain")
          /\ UNCHANGED boot
       \/ /\ file = Blocked
          /\ task' = [task EXCEPT ![t] = IdleTask]
          /\ boot' = IF boot = "recovering" THEN "down" ELSE boot
    /\ UNCHANGED <<row, linkVars, told, undoing, worldVars, todo, halts>>

\* _deliver_workspace_file, up to the publication.
Check(t) ==
    /\ task[t].pc = "check"
    /\ \/ EffectIsVisible(t) /\ Ends(t, "delivered")
       \/ ~EffectIsVisible(t) /\ OnBase(t) /\ Goes(t, "publish")
       \/ ~EffectIsVisible(t) /\ ~OnBase(t) /\ Ends(t, "uncertain")
    /\ UNCHANGED <<row, linkVars, told, undoing, worldVars, bootVars>>

\* os.replace or unlink, in a thread; a directory refuses both.
Publish(t) ==
    /\ task[t].pc = "publish"
    /\ \/ file # Blocked /\ Goes(t, "verify") /\ file' = Want(t)
       \/ file = Blocked /\ Ends(t, "uncertain") /\ UNCHANGED file
    /\ UNCHANGED <<row, linkVars, told, undoing, sent, orphan, alone, bootVars>>

Verify(t) ==
    /\ task[t].pc = "verify"
    /\ Ends(t, IF file = Want(t) THEN "delivered" ELSE "uncertain")
    /\ UNCHANGED <<row, linkVars, told, undoing, worldVars, bootVars>>

-----------------------------------------------------------------------------
(* Recording the outcome.                                                  *)

\* What all the actions of one record amount to.
SumOf(states, queued, settled) ==
    IF states \cap Uncertain # {} THEN "needs_reconciliation"
    ELSE IF states \cap Waiting # {} THEN queued ELSE settled

InvAfter(a, states) ==
    SumOf(states, "pending_delivery",
          IF a \in Codes /\ states = {"cancelled"} THEN "cancelled" ELSE "committed")

NoteAfter(a, states) ==
    SumOf(states, "queued",
          IF Dest[a] # "web_push" THEN "sent"
          ELSE IF "delivered" \in states THEN "pushed"
          ELSE IF states = {"cancelled"} THEN "skipped" ELSE "sent")

OpAfter(a) == IF a \in Undos THEN "undone" ELSE "committed"

\* _store_receipt and _record_retry_pending: the row and its links together.
Settle(a, status) ==
    LET rows == [row EXCEPT ![a].status = status] IN
    /\ row' = rows
    /\ inv' = [i \in Invs |-> IF Link[a].inv = i
                              THEN InvAfter(a, StatesOf(rows, "inv", i)) ELSE inv[i]]
    /\ note' = [n \in Notes |-> IF Link[a].note = n
                                THEN NoteAfter(a, StatesOf(rows, "note", n)) ELSE note[n]]
    /\ op' = [o \in Ops |-> IF Link[a].op = o THEN OpAfter(a) ELSE op[o]]

Owns(t) == row[Act(t)].token = task[t].token

Finished(t, answer) ==
    /\ task' = [task EXCEPT ![t] = IdleTask]
    /\ told' = [c \in Codes |-> IF c = t THEN answer ELSE told[c]]

\* A dispatcher that takes a delivery still going on for a failure.
HastyAnswers == [delivered |-> "delivered", cancelled |-> "failed",
                 needs_reconciliation |-> "uncertain", delivering |-> "failed"]

Answers == [delivered |-> "delivered", cancelled |-> "failed",
            needs_reconciliation |-> "uncertain", delivering |-> "uncertain"]

StatusOf(out) ==
    [delivered |-> "delivered", cancelled |-> "cancelled",
     uncertain |-> "needs_reconciliation", retry |-> "retry_pending"][out]

\* The transaction that ends a delivery. A receipt never replaces one.
Record(t) ==
    LET a == Act(t)
        status == StatusOf(task[t].out)
        lost == ~Owns(t) /\ row[a].status \notin Final IN
    /\ task[t].pc = "record"
    /\ IF Owns(t) /\ ~(status \in Final /\ row[a].status \in Final)
       THEN IF status = "needs_reconciliation"
            THEN /\ row' = [row EXCEPT ![a].status = status]
                 /\ FenceLinks({a})
            ELSE Settle(a, status)
       ELSE UNCHANGED <<row, linkVars>>
    /\ Finished(t, IF t = 0 \/ lost THEN "uncertain" ELSE Answers[status])
    /\ UNCHANGED <<undoing, worldVars, bootVars>>

\* The database refuses: a dispatch tries once more to record that its
\* outcome is uncertain; otherwise the fence is all that is left.
RecordFails(t) ==
    /\ MayFail
    /\ task[t].pc = "record"
    /\ \/ /\ task[t].mode = "dispatch" /\ task[t].out \in {"delivered", "cancelled"}
          /\ task' = [task EXCEPT ![t].out = "uncertain"]
          /\ UNCHANGED <<told, boot>>
       \/ /\ task[t].mode = "dispatch" => task[t].out \in {"uncertain", "retry"}
          /\ Finished(t, "uncertain")
          /\ boot' = IF t = 0 /\ boot = "recovering" THEN "down" ELSE boot
    /\ UNCHANGED <<row, linkVars, undoing, worldVars, todo, halts>>

\* A dispatcher whose action the drain loop has claimed waits for its outcome,
\* longer than a claim stays fresh: it never reports it as still in progress.
Answered(t) ==
    /\ task[t].pc = "dispatch"
    /\ row[t].status \notin Waiting
    /\ Finished(t, Answers[row[t].status])
    /\ UNCHANGED <<row, linkVars, undoing, worldVars, bootVars>>

\* A dispatcher that cannot claim for a busy database leaves the row to the
\* drain loop, and its tool without an answer.
ClaimFails(t) ==
    /\ MayFail
    /\ task[t].pc = "dispatch"
    /\ Finished(t, "uncertain")
    /\ UNCHANGED <<row, linkVars, undoing, worldVars, bootVars>>

-----------------------------------------------------------------------------
(* The process: crashes, stops, cancelled Runs, and the start.             *)

\* A recovery that sends again what was interrupted.
Requeued == "queued"

Interrupted == "needs_reconciliation"

\* recover_interrupted_deliveries: transports are fenced in one transaction,
\* workspace actions are then reconciled one by one.
Recover ==
    LET cut == {a \in Transports : row[a].status = "delivering"} IN
    /\ boot = "down"
    /\ boot' = "recovering"
    /\ row' = [a \in Actions |-> IF a \in cut
                                 THEN [row[a] EXCEPT !.status = Interrupted]
                                 ELSE row[a]]
    /\ FenceLinks(cut)
    /\ todo' = {a \in Files : row[a].status \in Uncertain}
    /\ UNCHANGED <<task, told, undoing, worldVars, halts>>

\* The drain loop starts once the recovery is through.
Started ==
    /\ boot = "recovering"
    /\ task[0].pc = "idle"
    /\ todo = {}
    /\ boot' = "up"
    /\ UNCHANGED <<row, linkVars, task, told, undoing, worldVars, todo, halts>>

Halts ==
    /\ halts < MaxHalts
    /\ boot # "down"
    /\ halts' = halts + 1
    /\ boot' = "down"
    /\ todo' = {}
    /\ undoing' = {}

Crash ==
    /\ Halts
    /\ task' = [t \in Tasks |-> IdleTask]
    /\ orphan' = {}
    /\ UNCHANGED <<row, linkVars, told, file, sent, alone>>

\* A thread that performs the effect of a cancelled task goes on.
Orphaned(t) == IF task[t].pc \in {"send", "publish"} THEN {Act(t)} ELSE {}

\* The shutdown cancels the drain loop and releases the runtime lease; the
\* tasks of Runs, and threads, end with the interpreter, some time later.
Stop ==
    /\ MayStop
    /\ Halts
    /\ task' = [task EXCEPT ![0] = IdleTask]
    /\ orphan' = orphan \cup Orphaned(0)
    /\ UNCHANGED <<row, linkVars, told, file, sent, alone>>

\* A cancelled Run takes the dispatcher of its tool call with it.
CancelDispatcher(t) ==
    /\ MayStop
    /\ t \in Codes
    /\ task[t].pc # "idle"
    /\ task' = [task EXCEPT ![t] = IdleTask]
    /\ orphan' = orphan \cup Orphaned(t)
    /\ UNCHANGED <<row, linkVars, told, undoing, file, sent, alone, bootVars>>

OrphanActs(a) ==
    /\ a \in orphan
    /\ orphan' = orphan \ {a}
    /\ sent' = [b \in Transports |-> IF b = a THEN sent[b] + 1 ELSE sent[b]]
    /\ file' = IF a \in Files /\ file # Blocked THEN row[a].want ELSE file
    /\ alone' = (alone /\ a \notin Files)
    /\ UNCHANGED <<row, linkVars, task, told, undoing, bootVars>>

OrphanEnds(a) ==
    /\ a \in orphan
    /\ orphan' = orphan \ {a}
    /\ UNCHANGED <<row, linkVars, task, told, undoing, file, sent, alone, bootVars>>

\* Somebody else, or code that the user ran, changes a file the outbox is
\* about to write or has written.
Touch(c) ==
    /\ \E a \in Files : row[a].status # "absent"
    /\ file # c
    /\ file' = c
    /\ alone' = FALSE
    /\ UNCHANGED <<row, linkVars, task, told, undoing, sent, orphan, bootVars>>

-----------------------------------------------------------------------------
Step(t) ==
    \/ \E a \in Actions : ClaimNext(t, a)
    \/ Preflight(t) \/ Send(t) \/ Inspect(t) \/ Check(t) \/ Publish(t) \/ Verify(t)
    \/ Record(t) \/ RecordFails(t) \/ Answered(t) \/ ClaimFails(t)

Process ==
    \/ Recover \/ Started \/ Crash \/ Stop
    \/ \E t \in Codes : CancelDispatcher(t)
    \/ \E a \in orphan : OrphanActs(a) \/ OrphanEnds(a)

Next ==
    \/ \E b \in {Batch[a] : a \in Actions} : Enqueue(b)
    \/ \E o \in Ops : PrepareUndo(o) \/ CommitUndo(o)
    \/ \E t \in Tasks : Step(t)
    \/ \E a \in Files : ClaimReconciliation(a)
    \/ Process
    \/ \E c \in Touched : Touch(c)

Spec == Init /\ [][Next]_vars

\* The event loop runs every task that can go on, the drain loop takes the
\* oldest row again and again, and a process that went down is started again.
Fairness ==
    /\ \A t \in Tasks :
          WF_vars(Preflight(t) \/ Send(t) \/ Inspect(t) \/ Check(t) \/ Publish(t)
                  \/ Verify(t) \/ Record(t) \/ Answered(t))
    /\ \A a \in Actions : SF_vars(ClaimNext(0, a))
    /\ \A a \in Files : SF_vars(ClaimReconciliation(a))
    /\ WF_vars(Recover) /\ WF_vars(Started)

FairSpec == Spec /\ Fairness

-----------------------------------------------------------------------------
(* Properties.                                                             *)

\* One record against the rows linked to it.
InvAgrees(i) ==
    LET states == StatesOf(row, "inv", i) IN
    /\ inv[i] = "none" <=> states = {}
    /\ inv[i] = "needs_reconciliation" <=> states \cap Uncertain # {}
    /\ inv[i] = "pending_delivery" <=>
          states \cap Waiting # {} /\ states \cap Uncertain = {}
    /\ inv[i] = "cancelled" => states = {"cancelled"}

NoteAgrees(n) ==
    LET states == StatesOf(row, "note", n) IN
    /\ note[n] = "needs_reconciliation" <=> states \cap Uncertain # {}
    /\ note[n] = "queued" => states \cap Waiting # {}
    /\ note[n] \in {"pushed", "sent"} => "delivered" \in states
    /\ note[n] = "skipped" => states = {"cancelled"}

OpAgrees(o) ==
    LET undo   == {row[u].status : u \in {v \in Undos : Link[v].op = o}}
        write  == row[Written(o)].status IN
    /\ op[o] = "needs_reconciliation" <=> (undo \cup {write}) \cap Uncertain # {}
    /\ op[o] = "pending_delivery" => write \in Waiting
    /\ op[o] = "committed" => write = "delivered" /\ undo \subseteq {"absent"}
    /\ op[o] = "undo_pending" => undo \cap Waiting # {}
    /\ op[o] = "undone" => undo = {"delivered"}

\* What the records say is what their actions have come to: a record needs
\* reconciliation exactly while one of its actions is uncertain, and is settled
\* as delivered only when one was. Claims, receipts, retries, fences and undos
\* of sibling actions each rewrite it from another transaction.
LinkedAgree ==
    /\ \A i \in Invs : InvAgrees(i)
    /\ \A n \in Notes : NoteAgrees(n)
    /\ \A o \in Ops : OpAgrees(o)

\* The outbox as AtMostOnceEffect sees it.
Phase(a) ==
    CASE row[a].status = "absent" -> "none"
      [] row[a].status \in Waiting -> "intended"
      [] row[a].status \in Uncertain -> "fenced"
      [] OTHER -> row[a].status

Promise == INSTANCE AtMostOnceEffect
             WITH Effects <- Transports, count <- sent,
                  phase <- [a \in Transports |-> Phase(a)]

\* A mail, a push or a piece of code is never sent twice, and its row says that
\* it was delivered, or takes it back, only if that is so: every step of the
\* outbox is one of AtMostOnceEffect, or none.
EffectsAtMostOnce == Promise!Spec

\* A tool is told that its code ran only if it did, and that it failed only if
\* it never will, whoever delivered it and whatever happened to its Run.
ToldTrue ==
    \A c \in Codes :
       /\ told[c] = "delivered" => sent[c] = 1 /\ row[c].status = "delivered"
       /\ told[c] = "failed" => sent[c] = 0 /\ row[c].status = "cancelled"

\* Rows, the records linked to them and what tools have been told agree.
RecordsTrue == TypeOK /\ LinkedAgree /\ ToldTrue

\* A delivery is never taken back, retried or reconciled again, by no undo
\* request, recovery or late task.
DeliveryIsFinal ==
    [][\A a \in Actions : row[a].status \in Final => row'[a] = row[a]]_row

\* As long as nobody else has written to the file, the outbox changes it only
\* from the version an action was prepared on to the version it was prepared to
\* write, across crashes, stops, retries and reconciliations.
PublishesOverBase ==
    [][alone' => \E a \in Files : /\ row[a].status = "delivering"
                                  /\ file = row[a].before
                                  /\ file' = row[a].want]_file

\* As long as nobody else has written to the file, a receipt is stored only
\* while the file shows what the action wrote.
DeliveredIsVisible ==
    [][alone => \A a \in Files :
          row'[a].status = "delivered" /\ row[a].status # "delivered"
              => file = row[a].want]_row

\* The file and the rows follow each other until somebody else writes the file.
FileFollowsIntents == PublishesOverBase /\ DeliveredIsVisible

\* Every intent is attempted or withdrawn from the queue in the end, although
\* older rows may be retried again and again.
QueuedIsAttempted ==
    \A a \in Actions : row[a].status = "queued" ~> row[a].status # "queued"

\* No claim stays in the hands of nobody: a crash leaves files to be reconciled
\* and everything else fenced.
ClaimsSettle ==
    \A a \in Actions : row[a].status = "delivering" ~> row[a].status # "delivering"

\* A tool that has left its effect to the outbox is not left alone with it: the
\* row is taken up in its turn, and who takes it up lets go of it.
IntentsSettle == QueuedIsAttempted /\ ClaimsSettle
=============================================================================
