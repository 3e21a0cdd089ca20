---------------------------- MODULE OutboxProofs ----------------------------
(***************************************************************************)
(* Theorems about Outbox, for any rows, links, claims, retries, stops,     *)
(* crashes and edits of the file by others.                                *)
(***************************************************************************)
EXTENDS Outbox, FiniteSetTheorems, TLAPS

-----------------------------------------------------------------------------
(* The invariant.                                                          *)

\* The task is attempting an action, or about to record how that went.
Busy(t) == task[t].pc \notin {"idle", "dispatch"}

\* A task with the one file: it checked the base before it publishes, and saw
\* its content before it reports it, unless somebody else has written.
FileTaskTrue(t) ==
    /\ row[Act(t)].status = "delivering"
    /\ task[t].pc \in {"inspect", "check", "publish", "verify", "record"}
    /\ task[t].pc = "record" => task[t].out \in {"delivered", "uncertain"}
    /\ alone => /\ task[t].pc = "publish" => file = Before(t)
                /\ task[t].pc = "verify" => file = Want(t)
                /\ task[t].pc = "record" /\ task[t].out = "delivered" => file = Want(t)

\* A task with a transport knows whether the effect happened, or says it is unsure.
TransportTaskTrue(t) ==
    /\ row[Act(t)].status \in Uncertain
    /\ task[t].pc \in {"send", "record"}
    /\ task[t].pc = "send" => sent[Act(t)] = 0
    /\ task[t].pc = "record" =>
         /\ task[t].out # "none"
         /\ task[t].out = "delivered" => sent[Act(t)] = 1
         /\ task[t].out \in {"cancelled", "retry"} => sent[Act(t)] = 0
         /\ Act(t) \in Codes => task[t].out # "retry"
         /\ task[t].out = "cancelled" => Dest[Act(t)] # "smtp"
    /\ Act(t) \notin orphan

\* A busy task still owns its row, which is behind its fence.
TaskTrue(t) ==
    /\ task[t].pc = "dispatch" => t \in Codes /\ row[t].status # "absent"
    /\ Busy(t) =>
         /\ Act(t) \in Actions
         /\ t # 0 => Act(t) = t
         /\ row[Act(t)].token = task[t].token
         /\ Act(t) \in Files => FileTaskTrue(t)
         /\ Act(t) \in Transports => TransportTaskTrue(t)

\* No two tasks attempt one action.
HeldOnce ==
    \A t, u \in Tasks : Busy(t) /\ Busy(u) /\ Act(t) = Act(u) => t = u

\* What the row of a transport says of its effect.
SentTrue(a) ==
    /\ row[a].status \in {"absent", "cancelled"} \cup Waiting => sent[a] = 0
    /\ row[a].status = "delivered" => sent[a] = 1
    /\ sent[a] \in {0, 1}
    /\ a \in orphan => sent[a] = 0 /\ row[a].status \in Uncertain

\* An operation and its two rows: the undo comes after the delivered write.
OpTrue(o) ==
    /\ OpAgrees(o)
    /\ op[o] = "none" <=> row[Written(o)].status = "absent"
    /\ \A u \in Undos : Link[u].op = o /\ row[u].status # "absent"
                           => row[Written(o)].status = "delivered"

Delivering ==
    /\ \A t \in Tasks : TaskTrue(t)
    /\ HeldOnce
    /\ \A a \in Transports : SentTrue(a)

Linked ==
    /\ \A i \in Invs : InvAgrees(i)
    /\ \A n \in Notes : NoteAgrees(n)
    /\ \A o \in Ops : OpTrue(o)

Inv == TypeOK /\ Delivering /\ Linked /\ ToldTrue

-----------------------------------------------------------------------------
(* Constants and statuses.                                                 *)

\* Destinations are what they are named.
LEMMA Kinds ==
    /\ Actions \subseteq Nat /\ 0 \notin Actions
    /\ Files \subseteq Actions /\ Codes \subseteq Actions /\ Undos \subseteq Files
    /\ Transports \subseteq Actions /\ Codes \subseteq Transports
    /\ Files \cap Transports = {} /\ 0 \notin Codes /\ Codes \subseteq Tasks /\ 0 \in Tasks
    /\ \A a \in Actions : a \in Files \/ a \in Transports
    /\ \A t \in Tasks : t # 0 => t \in Codes
  BY OutboxConstants DEF Files, Codes, Undos, Transports, Tasks

\* The links of an action are numbers, and the one write of an operation is
\* Written.
LEMMA Links ==
    /\ \A a \in Actions : Link[a].inv \in Nat /\ Link[a].note \in Nat /\ Link[a].op \in Nat
    /\ \A a \in Transports : Link[a].op = 0
    /\ \A a \in Files : Link[a].op \in Ops /\ Link[a].note = 0
    /\ \A u \in Undos : Link[u].inv = 0
    /\ \A o \in Ops : Written(o) \in Files \ Undos /\ Link[Written(o)].op = o
    /\ \A o \in Ops, a \in Files \ Undos : Link[a].op = o => a = Written(o)
    /\ 0 \notin Ops /\ 0 \notin Invs /\ 0 \notin Notes
    /\ \A c \in Codes : Link[c].note = 0
  <1>1. /\ \A a \in Actions : Link[a].inv \in Nat /\ Link[a].note \in Nat /\ Link[a].op \in Nat
        /\ \A a \in Transports : Link[a].op = 0
        /\ \A a \in Files : Link[a].op \in Ops /\ Link[a].op # 0
        /\ 0 \notin Ops /\ 0 \notin Invs /\ 0 \notin Notes
    BY OutboxConstants DEF Files, Transports, Ops, Invs, Notes
  <1>2. /\ \A a \in Files : Link[a].note = 0
        /\ \A c \in Codes : Link[c].note = 0
        /\ \A u \in Undos : Link[u].inv = 0
    BY LinkConstants DEF Files, Codes, Undos
  <1>3. ASSUME NEW o \in Ops
        PROVE  \E a \in Files \ Undos : Link[a].op = o
    <2>1. PICK a \in Files : Link[a].op = o
      BY <1>1, <1>3, Kinds DEF Ops
    <2>. QED
      BY <2>1, LinkConstants
  <1>4. \A o \in Ops : Written(o) \in Files \ Undos /\ Link[Written(o)].op = o
    BY <1>3 DEF Written
  <1>5. \A o \in Ops, a \in Files \ Undos : Link[a].op = o => a = Written(o)
    BY <1>4, LinkConstants
  <1>. QED
    BY <1>1, <1>2, <1>4, <1>5

\* The statuses of the rows linked to one record.
LEMMA States ==
    ASSUME NEW rows, NEW k, NEW s
    PROVE  /\ s \in StatesOf(rows, "inv", k) <=>
                s # "absent" /\ \E a \in Actions : Link[a].inv = k /\ rows[a].status = s
           /\ s \in StatesOf(rows, "note", k) <=>
                s # "absent" /\ \E a \in Actions : Link[a].note = k /\ rows[a].status = s
  BY DEF StatesOf
-----------------------------------------------------------------------------
(* Types.                                                                  *)

\* The row that a busy task has in hand.
LEMMA TaskRow ==
    ASSUME TypeOK, NEW t \in Tasks
    PROVE  /\ task[t] \in Task
           /\ task[t].act \in Actions \cup {0} /\ task[t].token \in Nat
           /\ Act(t) \in Actions =>
                /\ row[Act(t)] \in Row
                /\ Want(t) \in Contents /\ Before(t) \in Contents
  <1>1. task[t] \in Task
    BY DEF TypeOK
  <1>2. \A a \in Actions : row[a] \in Row
    BY DEF TypeOK
  <1>. QED
    BY <1>1, <1>2 DEF Task, Act, Want, Before, Row

\* A task that goes on, and all the others.
Others(t) == \A u \in Tasks \ {t} : task'[u] = task[u]

Turned(t, pc, out) ==
    /\ task' \in [Tasks -> Task]
    /\ Others(t)
    /\ task'[t].pc = pc /\ task'[t].out = out
    /\ task'[t].act = task[t].act /\ task'[t].token = task[t].token

\* A task that goes on, or ends, is a turned task.
LEMMA TurnedRow ==
    ASSUME TypeOK, NEW t \in Tasks,
           NEW pc \in {"idle", "dispatch", "send", "inspect", "check", "publish",
                       "verify", "record"},
           NEW out \in {"none", "delivered", "cancelled", "uncertain", "retry"}
    PROVE  /\ Goes(t, pc) => Turned(t, pc, task[t].out)
           /\ Ends(t, out) => Turned(t, "record", out)
           /\ task' = [task EXCEPT ![t].out = out] => Turned(t, task[t].pc, out)
  <1>1. task \in [Tasks -> Task] /\ task[t] \in Task
    BY DEF TypeOK
  <1>2. /\ [task[t] EXCEPT !.pc = pc] \in Task
        /\ [task[t] EXCEPT !.pc = "record", !.out = out] \in Task
        /\ [task[t] EXCEPT !.out = out] \in Task
    BY <1>1 DEF Task
  <1>3. ASSUME Goes(t, pc) PROVE Turned(t, pc, task[t].out)
    <2>1. task'[t] = [task[t] EXCEPT !.pc = pc] /\ Others(t)
      BY <1>1, <1>3 DEF Goes, Others
    <2>3. task' = [u \in Tasks |-> task'[u]]
      BY <1>1, <1>3 DEF Goes
    <2>4. \A u \in Tasks : task'[u] \in Task
      BY <1>1, <1>2, <2>1 DEF Others
    <2>2. task' \in [Tasks -> Task]
      BY <2>3, <2>4
    <2>. QED
      BY <1>1, <2>1, <2>2 DEF Turned, Task
  <1>4. ASSUME Ends(t, out) PROVE Turned(t, "record", out)
    <2>1. task'[t] = [task[t] EXCEPT !.pc = "record", !.out = out] /\ Others(t)
      BY <1>1, <1>4 DEF Ends, Others
    <2>3. task' = [u \in Tasks |-> task'[u]]
      BY <1>1, <1>4 DEF Ends
    <2>4. \A u \in Tasks : task'[u] \in Task
      BY <1>1, <1>2, <2>1 DEF Others
    <2>2. task' \in [Tasks -> Task]
      BY <2>3, <2>4
    <2>. QED
      BY <1>1, <2>1, <2>2 DEF Turned, Task
  <1>5. ASSUME task' = [task EXCEPT ![t].out = out] PROVE Turned(t, task[t].pc, out)
    <2>1. task'[t] = [task[t] EXCEPT !.out = out] /\ Others(t)
      BY <1>1, <1>5 DEF Others
    <2>3. task' = [u \in Tasks |-> task'[u]]
      BY <1>1, <1>5
    <2>4. \A u \in Tasks : task'[u] \in Task
      BY <1>1, <1>2, <2>1 DEF Others
    <2>2. task' \in [Tasks -> Task]
      BY <2>3, <2>4
    <2>. QED
      BY <1>1, <2>1, <2>2 DEF Turned, Task
  <1>. QED
    BY <1>3, <1>4, <1>5

\* A task that is gone is a task.
LEMMA IdleTyped == IdleTask \in Task
  BY DEF IdleTask, Task

\* Fencing and settling records keep their types.
LEMMA FenceTyped ==
    ASSUME TypeOK, NEW A, FenceLinks(A)
    PROVE  /\ inv' \in [Invs -> {"none", "pending_delivery", "needs_reconciliation",
                                 "committed", "cancelled"}]
           /\ note' \in [Notes -> {"none", "queued", "needs_reconciliation", "pushed",
                                   "sent", "skipped"}]
           /\ op' \in [Ops -> {"none", "pending_delivery", "needs_reconciliation",
                               "committed", "undo_pending", "undone"}]
  BY DEF TypeOK, FenceLinks

\* Settling a row keeps the types of it and of the records linked to it.
LEMMA SettleTyped ==
    ASSUME TypeOK, NEW a \in Actions, NEW status \in Waiting \cup Final, Settle(a, status)
    PROVE  /\ row' \in [Actions -> Row]
           /\ inv' \in [Invs -> {"none", "pending_delivery", "needs_reconciliation",
                                 "committed", "cancelled"}]
           /\ note' \in [Notes -> {"none", "queued", "needs_reconciliation", "pushed",
                                   "sent", "skipped"}]
           /\ op' \in [Ops -> {"none", "pending_delivery", "needs_reconciliation",
                               "committed", "undo_pending", "undone"}]
  <1>1. row' \in [Actions -> Row]
    BY DEF TypeOK, Settle, Row, Waiting, Final
  <1>2. \A states : InvAfter(a, states) \in {"pending_delivery", "needs_reconciliation",
                                             "committed", "cancelled"}
    BY DEF InvAfter, SumOf
  <1>3. \A states : NoteAfter(a, states) \in {"queued", "needs_reconciliation", "pushed",
                                              "sent", "skipped"}
    BY DEF NoteAfter, SumOf
  <1>4. OpAfter(a) \in {"undone", "committed"}
    BY DEF OpAfter
  <1>. QED
    BY <1>1, <1>2, <1>3, <1>4 DEF TypeOK, Settle

\* The order of the intents is a number.
LEMMA NextSeqTyped == NextSeq \in Nat
  <1>. DEFINE seqs == {row[a].seq : a \in Actions}
              f == [a \in Actions |-> row[a].seq]
  <1>1. IsFiniteSet(seqs)
    <2>1. f \in Surjection(Actions, seqs)
      BY DEF Surjection
    <2>. QED
      BY <2>1, LinkConstants, FS_Surjection
  <1>2. IsFiniteSet(seqs \ {0})
    BY <1>1, FS_Difference
  <1>. QED
    BY <1>2, FS_CardinalityType DEF NextSeq

\* What a file may show is a content.
LEMMA EmptyRowTyped == Absent \in Contents /\ Blocked \in Contents /\ Touched \subseteq Contents
                       /\ \A a \in Files : Content[a] \in Contents
  BY DEF Contents
-----------------------------------------------------------------------------
(* Deliveries: the steps of a task between two transactions.               *)

\* Only the drain loop has a file in hand.
LEMMA FileHolder ==
    ASSUME NEW t \in Tasks, TaskTrue(t), Busy(t), Act(t) \in Files
    PROVE  t = 0
  BY Kinds DEF TaskTrue

\* A task that is left alone with its row stays as it was.
LEMMA TaskKept ==
    ASSUME TypeOK, NEW t \in Tasks, TaskTrue(t), task'[t] = task[t],
           \A c \in Codes : row[c].status # "absent" => row'[c].status # "absent",
           Busy(t) => /\ row'[Act(t)].token = row[Act(t)].token
                      /\ Act(t) \in Files => /\ row'[Act(t)] = row[Act(t)]
                                             /\ alone' => alone /\ file' = file
                      /\ Act(t) \in Transports =>
                           /\ row'[Act(t)].status \in Uncertain
                           /\ sent'[Act(t)] = sent[Act(t)]
                           /\ Act(t) \in orphan' => Act(t) \in orphan
    PROVE  TaskTrue(t)'
  <1>1. Busy(t)' = Busy(t) /\ Act(t)' = Act(t)
    BY DEF Busy, Act
  <1>2. task'[t].pc = "dispatch" => t \in Codes /\ row'[t].status # "absent"
    BY DEF TaskTrue
  <1>3. ASSUME Busy(t), Act(t) \in Files
        PROVE  FileTaskTrue(t)'
    <2>1. Before(t)' = Before(t) /\ Want(t)' = Want(t)
      BY <1>1, <1>3 DEF Before, Want
    <2>. QED
      BY <1>1, <1>3, <2>1 DEF TaskTrue, FileTaskTrue
  <1>4. ASSUME Busy(t), Act(t) \in Transports
        PROVE  TransportTaskTrue(t)'
    BY <1>1, <1>4 DEF TaskTrue, TransportTaskTrue
  <1>. QED
    BY <1>1, <1>2, <1>3, <1>4 DEF TaskTrue

\* A step of one busy task that stays true to its own row leaves the others so.
LEMMA TurnKeeps ==
    ASSUME TypeOK, Delivering, NEW t \in Tasks, Busy(t),
           NEW pc, NEW out, Turned(t, pc, out), pc # "dispatch",
           TaskTrue(t)', row' = row, orphan' = orphan,
           Act(t) \in Files \/ (file' = file /\ alone' = alone),
           \A a \in Transports \ {Act(t)} : sent'[a] = sent[a]
    PROVE  (\A u \in Tasks : TaskTrue(u)') /\ HeldOnce'
  <1>1. ASSUME NEW u \in Tasks \ {t}
        PROVE  TaskTrue(u)'
    <2>1. task'[u] = task[u] /\ TaskTrue(u)
      BY DEF Turned, Others, Delivering
    <2>2. Busy(u) => Act(u) # Act(t)
      BY DEF Delivering, HeldOnce
    <2>3. Busy(u) /\ Act(u) \in Files => alone' = alone /\ file' = file
      BY <2>1, FileHolder DEF Delivering
    <2>4. Busy(u) /\ Act(u) \in Transports =>
            row[Act(u)].status \in Uncertain /\ sent'[Act(u)] = sent[Act(u)]
      BY <2>1, <2>2 DEF TaskTrue, TransportTaskTrue
    <2>. QED
      BY <2>1, <2>3, <2>4, TaskKept
  <1>2. HeldOnce'
    <2>1. \A u \in Tasks : Act(u)' = Act(u) /\ (Busy(u)' => Busy(u))
      BY DEF Turned, Others, Act, Busy
    <2>. QED
      BY <2>1 DEF Delivering, HeldOnce
  <1>. QED
    BY <1>1, <1>2

\* A task that leaves its row behind, whoever takes it up.
LEMMA IdleKeeps ==
    ASSUME TypeOK, Delivering, NEW t \in Tasks, task' = [task EXCEPT ![t] = IdleTask],
           row' = row, sent' = sent, file' = file, alone' = alone,
           \A u \in Tasks \ {t} :
              Busy(u) /\ Act(u) \in Transports => (Act(u) \in orphan' => Act(u) \in orphan)
    PROVE  /\ task' \in [Tasks -> Task]
           /\ (\A u \in Tasks : TaskTrue(u)') /\ HeldOnce'
  <1>1. task' \in [Tasks -> Task] /\ task'[t] = IdleTask /\ Others(t)
    BY IdleTyped DEF TypeOK, Others
  <1>2. TaskTrue(t)'
    BY <1>1 DEF TaskTrue, Busy, IdleTask
  <1>3. ASSUME NEW u \in Tasks \ {t}
        PROVE  TaskTrue(u)'
    <2>1. task'[u] = task[u] /\ TaskTrue(u)
      BY <1>1 DEF Others, Delivering
    <2>2. Busy(u) /\ Act(u) \in Transports => row[Act(u)].status \in Uncertain
      BY <2>1 DEF TaskTrue, TransportTaskTrue
    <2>. QED
      BY <2>1, <2>2, TaskKept
  <1>4. HeldOnce'
    <2>1. \A u \in Tasks : Busy(u)' => Act(u)' = Act(u) /\ Busy(u)
      BY <1>1 DEF Others, Act, Busy, IdleTask
    <2>. QED
      BY <2>1 DEF Delivering, HeldOnce
  <1>. QED
    BY <1>1, <1>2, <1>3, <1>4

\* What a task does between its transactions leaves all records alone.
RecordsKept == UNCHANGED <<row, linkVars, undoing, todo, halts>>

\* Records that stay agree as they did.
LEMMA LinkedKept ==
    ASSUME Linked, row' = row, UNCHANGED linkVars
    PROVE  Linked'
  <1>. USE DEF linkVars
  <1>1. ASSUME NEW i \in Invs PROVE InvAgrees(i)'
    <2>1. StatesOf(row, "inv", i)' = StatesOf(row, "inv", i)
      BY DEF StatesOf
    <2>. QED
      BY <2>1 DEF Linked, InvAgrees
  <1>2. ASSUME NEW n \in Notes PROVE NoteAgrees(n)'
    <2>1. StatesOf(row, "note", n)' = StatesOf(row, "note", n)
      BY DEF StatesOf
    <2>. QED
      BY <2>1 DEF Linked, NoteAgrees
  <1>3. ASSUME NEW o \in Ops PROVE OpTrue(o)'
    BY DEF Linked, OpTrue, OpAgrees
  <1>. QED
    BY <1>1, <1>2, <1>3 DEF Linked

\* So does what the tools have been told, as long as no settled effect changes.
LEMMA ToldKept ==
    ASSUME ToldTrue, row' = row, told' = told,
           \A c \in Codes : row[c].status \in Final => sent'[c] = sent[c]
    PROVE  ToldTrue'
  BY DEF ToldTrue, Final

\* So do the effects with their rows.
LEMMA SentKept ==
    ASSUME Delivering, row' = row, sent' = sent, orphan' \subseteq orphan
    PROVE  \A a \in Transports : SentTrue(a)'
  BY DEF Delivering, SentTrue
\* The invariant after a step that leaves all records alone.
LEMMA AttemptKeeps ==
    ASSUME Inv, NEW t \in Tasks, Busy(t), RecordsKept, told' = told, boot' \in {"down", "recovering", "up"},
           NEW pc \in {"send", "inspect", "check", "publish", "verify", "record"},
           NEW out \in {"none", "delivered", "cancelled", "uncertain", "retry"},
           Turned(t, pc, out), TaskTrue(t)', orphan' = orphan,
           Act(t) \in Files \/ (file' = file /\ alone' = alone),
           file' \in Contents, alone' \in BOOLEAN,
           \A a \in Transports \ {Act(t)} : sent'[a] = sent[a],
           sent' \in [Transports -> Nat], Act(t) \in Transports => SentTrue(Act(t))'
    PROVE  Inv'
  <1>1. TypeOK'
    BY DEF Inv, TypeOK, RecordsKept, linkVars, Turned
  <1>2. (\A u \in Tasks : TaskTrue(u)') /\ HeldOnce'
    BY TurnKeeps DEF Inv, RecordsKept
  <1>3. ASSUME NEW a \in Transports PROVE SentTrue(a)'
    <2>1. CASE a = Act(t)
      <3>1. Act(t)' = Act(t)
        BY DEF Turned, Act
      <3>. QED
        BY <2>1, <3>1 DEF SentTrue
    <2>2. CASE a # Act(t)
      <3>1. SentTrue(a) /\ row' = row /\ sent'[a] = sent[a]
        BY <2>2 DEF Inv, Delivering, RecordsKept
      <3>. QED
        BY <3>1 DEF SentTrue
    <2>. QED
      BY <2>1, <2>2
  <1>4. Linked'
    BY LinkedKept DEF Inv, RecordsKept
  <1>5. ToldTrue'
    <2>1. Act(t) \in Transports => row[Act(t)].status \notin Final
      BY DEF Inv, Delivering, TaskTrue, TransportTaskTrue, Uncertain, Final
    <2>. QED
      BY <2>1, ToldKept, Kinds DEF Inv, RecordsKept
  <1>. QED
    BY <1>1, <1>2, <1>3, <1>4, <1>5 DEF Inv, Delivering

\* A busy task with a transport, and one with a file.
LEMMA Sender ==
    ASSUME Inv, NEW t \in Tasks, task[t].pc = "send"
    PROVE  Busy(t) /\ Act(t) \in Transports /\ TransportTaskTrue(t) /\ TaskTrue(t)
  <1>1. Busy(t) /\ TaskTrue(t)
    BY DEF Busy, Inv, Delivering
  <1>. QED
    BY <1>1, Kinds DEF TaskTrue, FileTaskTrue

\* A task in the middle of a write has a file in hand, under its claim.
LEMMA Writer ==
    ASSUME Inv, NEW t \in Tasks, task[t].pc \in {"inspect", "check", "publish", "verify"}
    PROVE  /\ Busy(t) /\ Act(t) \in Files /\ FileTaskTrue(t) /\ TaskTrue(t)
           /\ Act(t) \notin Transports
  <1>1. Busy(t) /\ TaskTrue(t)
    BY DEF Busy, Inv, Delivering
  <1>. QED
    BY <1>1, Kinds DEF TaskTrue, TransportTaskTrue

\* What a turned task has to know of its row.
LEMMA TurnedTransport ==
    ASSUME NEW t \in Tasks, TaskTrue(t), Busy(t), Act(t) \in Transports, NEW pc, NEW out,
           Turned(t, pc, out), row' = row, TransportTaskTrue(t)'
    PROVE  TaskTrue(t)'
  <1>1. Act(t)' = Act(t) /\ task'[t].pc = pc /\ task'[t].token = task[t].token
    BY DEF Turned, Act
  <1>2. task'[t].pc # "dispatch"
    BY DEF TransportTaskTrue
  <1>. QED
    BY <1>1, <1>2, Kinds DEF TaskTrue

\* What a turned task knows of a file is all it has to know.
LEMMA TurnedFile ==
    ASSUME NEW t \in Tasks, TaskTrue(t), Busy(t), Act(t) \in Files, NEW pc, NEW out,
           Turned(t, pc, out), row' = row, FileTaskTrue(t)'
    PROVE  TaskTrue(t)'
  <1>1. Act(t)' = Act(t) /\ task'[t].pc = pc /\ task'[t].token = task[t].token
    BY DEF Turned, Act
  <1>2. task'[t].pc # "dispatch"
    BY DEF FileTaskTrue
  <1>. QED
    BY <1>1, <1>2, Kinds DEF TaskTrue

\* Refused before the attempt.
LEMMA PreflightKeeps ==
    ASSUME Inv, NEW t \in Tasks, Preflight(t)
    PROVE  Inv'
  <1>1. Busy(t) /\ Act(t) \in Transports /\ TransportTaskTrue(t) /\ TaskTrue(t) /\ TypeOK
    BY Sender DEF Preflight, Inv
  <1>2. PICK out \in {"retry", "cancelled"} :
          /\ Ends(t, out) /\ (out = "retry" => Act(t) \notin Codes)
          /\ out = "cancelled" => Dest[Act(t)] # "smtp"
    BY DEF Preflight, Codes
  <1>3. Turned(t, "record", out)
    BY <1>1, <1>2, TurnedRow
  <1>4. RecordsKept /\ UNCHANGED <<told, boot, worldVars>>
    BY DEF Preflight, RecordsKept, bootVars
  <1>5. TransportTaskTrue(t)'
    <2>1. Act(t)' = Act(t) /\ task[t].pc = "send"
      BY <1>3 DEF Turned, Act, Preflight
    <2>. QED
      BY <1>1, <1>2, <1>3, <1>4, <2>1 DEF TransportTaskTrue, Turned, RecordsKept, worldVars
  <1>6. TaskTrue(t)'
    BY <1>1, <1>3, <1>4, <1>5, TurnedTransport DEF RecordsKept
  <1>7. SentTrue(Act(t))'
    <2>1. SentTrue(Act(t)) /\ Act(t)' = Act(t)
      BY <1>1, <1>3 DEF Inv, Delivering, Turned, Act
    <2>. QED
      BY <1>4, <2>1 DEF SentTrue, RecordsKept, worldVars
  <1>. QED
    BY <1>1, <1>3, <1>4, <1>6, <1>7, AttemptKeeps DEF worldVars, TypeOK

\* The effect happens, or not.
LEMMA SendKeeps ==
    ASSUME Inv, NEW t \in Tasks, Send(t)
    PROVE  Inv'
  <1>1. Busy(t) /\ Act(t) \in Transports /\ TransportTaskTrue(t) /\ TaskTrue(t) /\ TypeOK
    BY Sender DEF Send, Inv
  <1>2. PICK out \in {"delivered", "uncertain", "cancelled"} :
          /\ Ends(t, out)
          /\ \/ /\ sent' = [sent EXCEPT ![Act(t)] = @ + 1] /\ out # "cancelled"
             \/ sent' = sent /\ out # "delivered"
          /\ out = "cancelled" => Dest[Act(t)] # "smtp"
    BY DEF Send
  <1>3. Turned(t, "record", out)
    BY <1>1, <1>2, TurnedRow
  <1>4. RecordsKept /\ UNCHANGED <<told, boot, file, orphan, alone>> /\ task[t].pc = "send"
    BY DEF Send, RecordsKept, bootVars
  <1>5. /\ sent' \in [Transports -> Nat] /\ \A a \in Transports \ {Act(t)} : sent'[a] = sent[a]
        /\ sent[Act(t)] = 0 /\ sent'[Act(t)] \in {0, 1}
        /\ out = "delivered" => sent'[Act(t)] = 1
        /\ out = "cancelled" => sent'[Act(t)] = 0
    BY <1>1, <1>2, <1>4 DEF TypeOK, TransportTaskTrue
  <1>6. TransportTaskTrue(t)'
    <2>1. Act(t)' = Act(t)
      BY <1>3 DEF Turned, Act
    <2>. QED
      BY <1>1, <1>2, <1>3, <1>4, <1>5, <2>1 DEF TransportTaskTrue, Turned, RecordsKept
  <1>7. TaskTrue(t)'
    BY <1>1, <1>3, <1>4, <1>6, TurnedTransport DEF RecordsKept
  <1>8. SentTrue(Act(t))'
    <2>1. Act(t)' = Act(t) /\ row' = row /\ orphan' = orphan
      BY <1>3, <1>4 DEF Turned, Act, RecordsKept
    <2>2. row[Act(t)].status \notin {"absent", "cancelled", "delivered"} \cup Waiting
      BY <1>1 DEF TransportTaskTrue, Uncertain, Waiting
    <2>. QED
      BY <1>1, <1>5, <2>1, <2>2 DEF SentTrue, TransportTaskTrue
  <1>. QED
    BY <1>1, <1>3, <1>4, <1>5, <1>7, <1>8, AttemptKeeps DEF TypeOK
\* The steps of a file delivery. The base or the effect is seen,
LEMMA InspectKeeps ==
    ASSUME Inv, NEW t \in Tasks, Inspect(t)
    PROVE  Inv'
  <1>1. /\ Busy(t) /\ Act(t) \in Files /\ FileTaskTrue(t) /\ TaskTrue(t)
        /\ Act(t) \notin Transports /\ TypeOK
    BY Writer DEF Inspect, Inv
  <1>2. RecordsKept /\ UNCHANGED <<told, worldVars>>
    BY DEF Inspect, RecordsKept
  <1>3. ASSUME NEW pc \in {"check", "record"}, NEW out \in {"none", "delivered", "cancelled", "uncertain", "retry"},
               Turned(t, pc, out), boot' = boot,
               pc = "record" => out \in {"delivered", "uncertain"} /\ (out = "delivered" => file = Want(t))
        PROVE  Inv'
    <2>1. Act(t)' = Act(t) /\ Want(t)' = Want(t)
      BY <1>2, <1>3 DEF Turned, Act, Want, RecordsKept
    <2>2. FileTaskTrue(t)'
      BY <1>1, <1>2, <1>3, <2>1 DEF FileTaskTrue, Turned, RecordsKept, worldVars
    <2>3. TaskTrue(t)'
      BY <1>1, <1>2, <1>3, <2>2, TurnedFile DEF RecordsKept
    <2>. QED
      BY <1>1, <1>2, <1>3, <2>3, AttemptKeeps DEF worldVars, TypeOK
  <1>4. CASE boot' = boot /\ file # Blocked
    <2>1. CASE Ends(t, "delivered") /\ EffectIsVisible(t)
      BY <1>1, <1>3, <1>4, <2>1, TurnedRow DEF EffectIsVisible
    <2>2. CASE Goes(t, "check")
      <3>1. task[t].out \in {"none", "delivered", "cancelled", "uncertain", "retry"}
        BY <1>1 DEF TypeOK, Task
      <3>. QED
        BY <1>1, <1>3, <1>4, <2>2, <3>1, TurnedRow
    <2>3. CASE Ends(t, "uncertain")
      BY <1>1, <1>3, <1>4, <2>3, TurnedRow
    <2>. QED
      BY <1>4, <2>1, <2>2, <2>3 DEF Inspect
  <1>5. CASE task' = [task EXCEPT ![t] = IdleTask]
                /\ boot' = IF boot = "recovering" THEN "down" ELSE boot
    <2>1. /\ task' \in [Tasks -> Task]
          /\ (\A u \in Tasks : TaskTrue(u)') /\ HeldOnce'
      BY <1>1, <1>2, <1>5, IdleKeeps DEF Inv, RecordsKept, worldVars
    <2>2. TypeOK'
      BY <1>1, <1>2, <1>5, <2>1 DEF TypeOK, RecordsKept, linkVars, worldVars
    <2>. QED
      BY <1>2, <2>1, <2>2, SentKept, LinkedKept, ToldKept
         DEF Inv, Delivering, RecordsKept, worldVars
  <1>. QED
    BY <1>4, <1>5 DEF Inspect

\* checked, published and read again.
LEMMA WriteKeeps ==
    ASSUME Inv, NEW t \in Tasks, Check(t) \/ Publish(t) \/ Verify(t)
    PROVE  Inv'
  <1>1. /\ Busy(t) /\ Act(t) \in Files /\ FileTaskTrue(t) /\ TaskTrue(t)
        /\ Act(t) \notin Transports /\ TypeOK
    BY Writer DEF Check, Publish, Verify, Inv
  <1>2. RecordsKept /\ UNCHANGED <<told, boot, sent, orphan, alone>>
    BY DEF Check, Publish, Verify, RecordsKept, worldVars, bootVars
  <1>3. ASSUME NEW pc \in {"publish", "verify", "record"},
               NEW out \in {"none", "delivered", "cancelled", "uncertain", "retry"},
               Turned(t, pc, out), file' \in Contents,
               pc = "publish" => file' = Before(t),
               pc = "verify" => file' = Want(t),
               pc = "record" => out \in {"delivered", "uncertain"} /\ (out = "delivered" => file' = Want(t))
        PROVE  Inv'
    <2>1. Act(t)' = Act(t) /\ Want(t)' = Want(t) /\ Before(t)' = Before(t)
      BY <1>2, <1>3 DEF Turned, Act, Want, Before, RecordsKept
    <2>2. FileTaskTrue(t)'
      BY <1>1, <1>2, <1>3, <2>1 DEF FileTaskTrue, Turned, RecordsKept
    <2>3. TaskTrue(t)'
      BY <1>1, <1>2, <1>3, <2>2, TurnedFile DEF RecordsKept
    <2>. QED
      BY <1>1, <1>2, <1>3, <2>3, AttemptKeeps DEF TypeOK
  <1>4. /\ task[t].out \in {"none", "delivered", "cancelled", "uncertain", "retry"}
        /\ file \in Contents /\ Want(t) \in Contents
    BY <1>1, TaskRow, Kinds DEF TypeOK, Task
  <1>5. CASE Check(t)
    <2>1. file' = file
      BY <1>5 DEF Check, worldVars
    <2>2. CASE Ends(t, "delivered") /\ EffectIsVisible(t)
      BY <1>1, <1>3, <1>4, <2>1, <2>2, TurnedRow DEF EffectIsVisible
    <2>3. CASE Goes(t, "publish") /\ OnBase(t)
      BY <1>1, <1>3, <1>4, <2>1, <2>3, TurnedRow DEF OnBase
    <2>4. CASE Ends(t, "uncertain")
      BY <1>1, <1>3, <1>4, <2>1, <2>4, TurnedRow
    <2>. QED
      BY <1>5, <2>2, <2>3, <2>4 DEF Check
  <1>6. CASE Publish(t)
    <2>1. CASE Goes(t, "verify") /\ file' = Want(t)
      BY <1>1, <1>3, <1>4, <2>1, TurnedRow
    <2>2. CASE Ends(t, "uncertain") /\ file' = file
      BY <1>1, <1>3, <1>4, <2>2, TurnedRow
    <2>. QED
      BY <1>6, <2>1, <2>2 DEF Publish
  <1>7. CASE Verify(t)
    <2>1. file' = file
      BY <1>7 DEF Verify, worldVars
    <2>2. CASE file = Want(t) /\ Ends(t, "delivered")
      BY <1>1, <1>3, <1>4, <2>1, <2>2, TurnedRow
    <2>3. CASE Ends(t, "uncertain")
      BY <1>1, <1>3, <1>4, <2>1, <2>3, TurnedRow
    <2>. QED
      BY <1>7, <2>2, <2>3 DEF Verify
  <1>. QED
    BY <1>5, <1>6, <1>7
-----------------------------------------------------------------------------
(* Tasks that give up, and the process.                                    *)

\* A task that is through, whatever it has answered.
LEMMA FinishedKeeps ==
    ASSUME Inv, NEW t \in Tasks, NEW answer \in {"none", "delivered", "failed", "uncertain"},
           Finished(t, answer), RecordsKept, UNCHANGED worldVars,
           boot' \in {"down", "recovering", "up"},
           t \in Codes => /\ answer = "delivered" => row[t].status = "delivered"
                          /\ answer = "failed" => row[t].status = "cancelled"
    PROVE  Inv'
  <1>1. task' = [task EXCEPT ![t] = IdleTask] /\ row' = row
    BY DEF Finished, RecordsKept
  <1>2. /\ task' \in [Tasks -> Task]
        /\ (\A u \in Tasks : TaskTrue(u)') /\ HeldOnce'
    BY <1>1, IdleKeeps DEF Inv, worldVars
  <1>3. told' \in [Codes -> {"none", "delivered", "failed", "uncertain"}]
    BY DEF Finished, Inv, TypeOK
  <1>4. TypeOK'
    BY <1>2, <1>3 DEF Inv, TypeOK, RecordsKept, linkVars, worldVars
  <1>5. ToldTrue'
    <2>. SUFFICES ASSUME NEW c \in Codes
                  PROVE  /\ told'[c] = "delivered" => sent'[c] = 1 /\ row'[c].status = "delivered"
                         /\ told'[c] = "failed" => sent'[c] = 0 /\ row'[c].status = "cancelled"
      BY DEF ToldTrue
    <2>1. sent' = sent /\ row' = row /\ SentTrue(c)
      BY <1>1, Kinds DEF worldVars, Inv, Delivering
    <2>2. told'[c] = IF c = t THEN answer ELSE told[c]
      BY DEF Finished
    <2>3. CASE c = t
      BY <2>1, <2>2, <2>3 DEF SentTrue
    <2>4. CASE c # t
      BY <2>1, <2>2, <2>4 DEF Inv, ToldTrue
    <2>. QED
      BY <2>3, <2>4
  <1>. QED
    BY <1>2, <1>4, <1>5, SentKept, LinkedKept DEF Inv, Delivering, RecordsKept, worldVars

\* The database refuses the outcome.
LEMMA RecordFailsKeeps ==
    ASSUME Inv, NEW t \in Tasks, RecordFails(t)
    PROVE  Inv'
  <1>1. RecordsKept /\ UNCHANGED worldVars /\ task[t].pc = "record" /\ TypeOK
    BY DEF RecordFails, RecordsKept, Inv
  <1>2. CASE task' = [task EXCEPT ![t].out = "uncertain"] /\ told' = told /\ boot' = boot
    <2>1. Turned(t, "record", "uncertain")
      BY <1>1, <1>2, TurnedRow
    <2>2. Busy(t) /\ TaskTrue(t) /\ Act(t) \in Actions
      BY <1>1 DEF Busy, Inv, Delivering, TaskTrue
    <2>3. Act(t)' = Act(t)
      BY <2>1 DEF Turned, Act
    <2>4. CASE Act(t) \in Files
      <3>1. FileTaskTrue(t)'
        BY <1>1, <2>1, <2>2, <2>3, <2>4 DEF TaskTrue, FileTaskTrue, Turned, RecordsKept, worldVars
      <3>2. TaskTrue(t)'
        BY <1>1, <2>1, <2>2, <2>4, <3>1, TurnedFile DEF RecordsKept
      <3>. QED
        BY <1>1, <1>2, <2>1, <2>2, <2>4, <3>2, Kinds, AttemptKeeps DEF worldVars, TypeOK
    <2>5. CASE Act(t) \in Transports
      <3>1. TransportTaskTrue(t)'
        BY <1>1, <2>1, <2>2, <2>3, <2>5 DEF TaskTrue, TransportTaskTrue, Turned, RecordsKept, worldVars
      <3>2. TaskTrue(t)'
        BY <1>1, <2>1, <2>2, <2>5, <3>1, TurnedTransport DEF RecordsKept
      <3>3. SentTrue(Act(t))'
        <4>1. SentTrue(Act(t)) /\ row' = row /\ sent' = sent /\ orphan' = orphan
          BY <1>1, <2>5 DEF Inv, Delivering, RecordsKept, worldVars
        <4>. QED
          BY <2>3, <4>1 DEF SentTrue
      <3>. QED
        BY <1>1, <1>2, <2>1, <2>2, <2>5, <3>2, <3>3, AttemptKeeps DEF worldVars, TypeOK
    <2>. QED
      BY <2>2, <2>4, <2>5, Kinds
  <1>3. CASE Finished(t, "uncertain") /\ boot' \in {"down", boot}
    BY <1>1, <1>3, FinishedKeeps DEF TypeOK
  <1>. QED
    BY <1>2, <1>3 DEF RecordFails

\* A dispatcher that finds its row claimed by the drain loop, or cannot claim it.
LEMMA AnsweredKeeps ==
    ASSUME Inv, NEW t \in Tasks, Answered(t) \/ ClaimFails(t)
    PROVE  Inv'
  <1>1. /\ RecordsKept /\ UNCHANGED <<worldVars, boot>> /\ task[t].pc = "dispatch" /\ TypeOK
    BY DEF Answered, ClaimFails, RecordsKept, Inv, bootVars
  <1>2. t \in Codes /\ row[t].status # "absent" /\ row[t] \in Row
    BY <1>1, Kinds DEF Inv, Delivering, TaskTrue, TypeOK
  <1>3. CASE Answered(t)
    <2>1. row[t].status \in {"delivered", "cancelled", "needs_reconciliation", "delivering"}
      BY <1>2, <1>3 DEF Answered, Row, Waiting, Uncertain, Final
    <2>2. PICK answer : Finished(t, answer) /\ answer = Answers[row[t].status]
      BY <1>3 DEF Answered
    <2>3. /\ answer \in {"delivered", "failed", "uncertain"}
          /\ answer = "delivered" => row[t].status = "delivered"
          /\ answer = "failed" => row[t].status = "cancelled"
      BY <2>1, <2>2 DEF Answers
    <2>. QED
      BY <1>1, <2>2, <2>3, FinishedKeeps DEF TypeOK
  <1>4. CASE ClaimFails(t)
    BY <1>1, <1>4, FinishedKeeps DEF ClaimFails, TypeOK
  <1>. QED
    BY <1>3, <1>4

\* A task is cancelled with its thread going on, or all tasks end.
LEMMA StopKeeps ==
    ASSUME Inv, NEW t \in Tasks, task' = [task EXCEPT ![t] = IdleTask],
           orphan' = orphan \cup Orphaned(t), undoing' \in {undoing, {}},
           todo' \in {todo, {}}, boot' \in {boot, "down"}, halts' \in {halts, halts + 1},
           UNCHANGED <<row, linkVars, told, file, sent, alone>>
    PROVE  Inv'
  <1>1. TypeOK /\ task[t] \in Task /\ TaskTrue(t)
    BY DEF Inv, TypeOK, Delivering
  <1>2. \A a \in Orphaned(t) :
          /\ a = Act(t) /\ Busy(t) /\ a \in Actions
          /\ a \in Transports => SentTrue(a) /\ sent[a] = 0 /\ row[a].status \in Uncertain
    <2>. SUFFICES ASSUME NEW a \in Orphaned(t)
                  PROVE  /\ a = Act(t) /\ Busy(t) /\ a \in Actions
                         /\ a \in Transports => SentTrue(a) /\ sent[a] = 0 /\ row[a].status \in Uncertain
      OBVIOUS
    <2>1. a = Act(t) /\ Busy(t) /\ task[t].pc \in {"send", "publish"}
      BY DEF Orphaned, Busy
    <2>. QED
      BY <1>1, <2>1 DEF TaskTrue, TransportTaskTrue, Inv, Delivering
  <1>3. \A u \in Tasks \ {t} : Busy(u) /\ Act(u) \in orphan' => Act(u) \in orphan
    BY <1>2 DEF Inv, Delivering, HeldOnce
  <1>4. /\ task' \in [Tasks -> Task]
        /\ (\A u \in Tasks : TaskTrue(u)') /\ HeldOnce'
    BY <1>1, <1>3, IdleKeeps DEF Inv
  <1>5. orphan' \subseteq Actions
    BY <1>1, <1>2 DEF TypeOK
  <1>6. TypeOK'
    BY <1>1, <1>4, <1>5 DEF TypeOK, linkVars
  <1>7. ASSUME NEW a \in Transports PROVE SentTrue(a)'
    <2>1. SentTrue(a) /\ row' = row /\ sent' = sent
      BY DEF Inv, Delivering
    <2>. QED
      BY <1>2, <2>1 DEF SentTrue
  <1>. QED
    BY <1>4, <1>6, <1>7, LinkedKept, ToldKept DEF Inv, Delivering

\* A crash ends the tasks and leaves the rows as they are.
LEMMA CrashKeeps ==
    ASSUME Inv, Crash
    PROVE  Inv'
  <1>1. TypeOK /\ UNCHANGED <<row, linkVars, told, file, sent, alone>> /\ orphan' = {}
        /\ task' = [t \in Tasks |-> IdleTask]
    BY DEF Crash, Inv
  <1>2. TypeOK'
    BY <1>1, IdleTyped DEF Crash, Halts, TypeOK, linkVars
  <1>3. (\A u \in Tasks : TaskTrue(u)') /\ HeldOnce'
    BY <1>1 DEF TaskTrue, HeldOnce, Busy, IdleTask
  <1>. QED
    BY <1>1, <1>2, <1>3, SentKept, LinkedKept, ToldKept DEF Inv, Delivering
\* A step of no task, which changes at most the world.
LEMMA WorldKeeps ==
    ASSUME Inv, UNCHANGED <<row, linkVars, task, told>>, TypeOK',
           orphan' \subseteq orphan,
           alone' => alone /\ file' = file,
           \A a \in Transports : sent'[a] # sent[a] => a \in orphan,
           \A a \in Transports : SentTrue(a)'
    PROVE  Inv'
  <1>1. TypeOK
    BY DEF Inv
  <1>2. ASSUME NEW u \in Tasks PROVE TaskTrue(u)'
    <2>1. task'[u] = task[u] /\ TaskTrue(u) /\ row' = row
      BY DEF Inv, Delivering
    <2>2. Busy(u) /\ Act(u) \in Transports =>
            /\ row[Act(u)].status \in Uncertain
            /\ sent'[Act(u)] = sent[Act(u)]
            /\ Act(u) \in orphan' => Act(u) \in orphan
      BY <2>1 DEF TaskTrue, TransportTaskTrue
    <2>. QED
      BY <1>1, <2>1, <2>2, TaskKept
  <1>3. HeldOnce'
    BY DEF Inv, Delivering, HeldOnce, Busy, Act
  <1>4. ToldTrue'
    <2>1. \A c \in Codes : row[c].status \in Final => sent'[c] = sent[c]
      BY Kinds DEF Inv, Delivering, SentTrue, Final, Uncertain
    <2>. QED
      BY <2>1, ToldKept DEF Inv
  <1>. QED
    BY <1>2, <1>3, <1>4, LinkedKept DEF Inv, Delivering

\* The process stops, starts, and a request looks at the file.
LEMMA ProcessKeeps ==
    ASSUME Inv, \/ Stop \/ Started
                \/ \E t \in Codes : CancelDispatcher(t)
                \/ \E o \in Ops : PrepareUndo(o)
    PROVE  Inv'
  <1>1. TypeOK
    BY DEF Inv
  <1>2. CASE Stop
    BY <1>2, StopKeeps, Kinds DEF Stop, Halts
  <1>3. CASE Started
    <2>1. TypeOK'
      BY <1>1, <1>3 DEF Started, TypeOK, linkVars, worldVars
    <2>2. \A a \in Transports : SentTrue(a)'
      BY <1>3, SentKept DEF Started, worldVars, Inv
    <2>. QED
      BY <1>3, <2>1, <2>2, WorldKeeps DEF Started, worldVars
  <1>4. ASSUME NEW t \in Codes, CancelDispatcher(t) PROVE Inv'
    BY <1>4, StopKeeps, Kinds DEF CancelDispatcher, bootVars
  <1>5. ASSUME NEW o \in Ops, PrepareUndo(o) PROVE Inv'
    <2>1. TypeOK'
      BY <1>1, <1>5 DEF PrepareUndo, TypeOK, linkVars, worldVars, bootVars
    <2>2. \A a \in Transports : SentTrue(a)'
      BY <1>5, SentKept DEF PrepareUndo, worldVars, Inv
    <2>. QED
      BY <1>5, <2>1, <2>2, WorldKeeps DEF PrepareUndo, worldVars
  <1>. QED
    BY <1>2, <1>3, <1>4, <1>5

\* Threads that go on, and others who write the file.
LEMMA OthersKeep ==
    ASSUME Inv, \/ \E a \in orphan : OrphanActs(a) \/ OrphanEnds(a)
                \/ \E c \in Touched : Touch(c)
    PROVE  Inv'
  <1>1. TypeOK
    BY DEF Inv
  <1>2. ASSUME NEW a \in orphan, OrphanActs(a) PROVE Inv'
    <2>1. a \in Actions /\ row[a] \in Row /\ row[a].want \in Contents
      BY <1>1 DEF TypeOK, Row
    <2>2. /\ sent' \in [Transports -> Nat]
          /\ \A b \in Transports : sent'[b] = IF b = a THEN sent[b] + 1 ELSE sent[b]
      BY <1>1, <1>2 DEF TypeOK, OrphanActs
    <2>3. file' \in Contents /\ alone' \in BOOLEAN
      BY <1>1, <1>2, <2>1 DEF TypeOK, OrphanActs
    <2>4. TypeOK'
      BY <1>1, <1>2, <2>2, <2>3 DEF TypeOK, OrphanActs, linkVars, bootVars
    <2>5. ASSUME NEW b \in Transports PROVE SentTrue(b)'
      <3>1. SentTrue(b) /\ row' = row /\ orphan' = orphan \ {a}
        BY <1>2 DEF Inv, Delivering, OrphanActs
      <3>2. CASE b = a
        <4>1. sent[b] = 0 /\ row[b].status \in Uncertain /\ sent'[b] = 1
          BY <1>2, <2>2, <3>1, <3>2 DEF SentTrue
        <4>. QED
          BY <3>1, <3>2, <4>1 DEF SentTrue, Uncertain, Waiting
      <3>3. CASE b # a
        BY <2>2, <3>1, <3>3 DEF SentTrue
      <3>. QED
        BY <3>2, <3>3
    <2>6. alone' => alone /\ file' = file
      BY <1>2 DEF OrphanActs
    <2>. QED
      BY <1>2, <2>2, <2>4, <2>5, <2>6, WorldKeeps DEF OrphanActs
  <1>3. ASSUME NEW a \in orphan, OrphanEnds(a) PROVE Inv'
    <2>1. TypeOK'
      BY <1>1, <1>3 DEF OrphanEnds, TypeOK, linkVars, bootVars
    <2>2. \A b \in Transports : SentTrue(b)'
      BY <1>3, SentKept DEF OrphanEnds, Inv
    <2>. QED
      BY <1>3, <2>1, <2>2, WorldKeeps DEF OrphanEnds
  <1>4. ASSUME NEW c \in Touched, Touch(c) PROVE Inv'
    <2>1. TypeOK'
      BY <1>1, <1>4, EmptyRowTyped DEF Touch, TypeOK, linkVars, bootVars
    <2>2. \A b \in Transports : SentTrue(b)'
      BY <1>4, SentKept DEF Touch, Inv
    <2>. QED
      BY <1>4, <2>1, <2>2, WorldKeeps DEF Touch
  <1>. QED
    BY <1>2, <1>3, <1>4

-----------------------------------------------------------------------------
(* Records: one row changes its status, and the records linked to it.      *)

\* Exactly the row of a changes, to the given status.
Moved(a, status) ==
    /\ row' \in [Actions -> Row]
    /\ row'[a].status = status
    /\ row'[a].seq = row[a].seq /\ row'[a].before = row[a].before /\ row'[a].want = row[a].want
    /\ \A b \in Actions \ {a} : row'[b] = row[b]

\* A row that is fenced fences its records.
LEMMA FencedLinked ==
    ASSUME TypeOK, Linked, NEW a \in Actions, NEW status \in Uncertain, Moved(a, status),
           FenceLinks({a}), row[a].status \in Waiting \cup Uncertain
    PROVE  Linked'
  <1>1. ASSUME NEW i \in Invs PROVE InvAgrees(i)'
    <2>1. InvAgrees(i) /\ inv'[i] = IF Link[a].inv = i THEN "needs_reconciliation" ELSE inv[i]
      BY DEF Linked, FenceLinks
    <2>2. CASE Link[a].inv = i
      <3>1. status \in StatesOf(row', "inv", i)
        BY <2>2, States DEF Moved, Uncertain
      <3>2. inv'[i] = "needs_reconciliation" /\ inv'[i] = inv[i]'
        BY <2>1, <2>2
      <3>. QED
        BY <3>1, <3>2 DEF InvAgrees, Uncertain
    <2>3. CASE Link[a].inv # i
      <3>1. StatesOf(row, "inv", i)' = StatesOf(row, "inv", i)
        BY <2>3 DEF StatesOf, Moved
      <3>. QED
        BY <2>1, <2>3, <3>1 DEF InvAgrees
    <2>. QED
      BY <2>2, <2>3
  <1>2. ASSUME NEW n \in Notes PROVE NoteAgrees(n)'
    <2>1. NoteAgrees(n) /\ note'[n] = IF Link[a].note = n THEN "needs_reconciliation" ELSE note[n]
      BY DEF Linked, FenceLinks
    <2>2. CASE Link[a].note = n
      <3>1. status \in StatesOf(row', "note", n)
        BY <2>2, States DEF Moved, Uncertain
      <3>. QED
        BY <2>1, <2>2, <3>1 DEF NoteAgrees, Uncertain
    <2>3. CASE Link[a].note # n
      <3>1. StatesOf(row, "note", n)' = StatesOf(row, "note", n)
        BY <2>3 DEF StatesOf, Moved
      <3>. QED
        BY <2>1, <2>3, <3>1 DEF NoteAgrees
    <2>. QED
      BY <2>2, <2>3
  <1>3. ASSUME NEW o \in Ops PROVE OpTrue(o)'
    <2>1. OpTrue(o) /\ op'[o] = IF Link[a].op = o THEN "needs_reconciliation" ELSE op[o]
      BY DEF Linked, FenceLinks
    <2>2. Written(o) \in Files \ Undos /\ Link[Written(o)].op = o /\ Files \subseteq Actions
          /\ Undos \subseteq Files
      BY Links, Kinds
    <2>3. CASE Link[a].op # o
      <3>1. row'[Written(o)] = row[Written(o)]
            /\ \A u \in Undos : Link[u].op = o => row'[u] = row[u]
        BY <2>2, <2>3 DEF Moved
      <3>2. {row'[u].status : u \in {v \in Undos : Link[v].op = o}}
              = {row[u].status : u \in {v \in Undos : Link[v].op = o}}
        BY <3>1
      <3>. QED
        BY <2>1, <2>3, <3>1, <3>2 DEF OpTrue, OpAgrees
    <2>4. CASE Link[a].op = o
      <3>1. a \in Files /\ (a \notin Undos => a = Written(o))
        BY <2>4, Links, Kinds
      <3>2. ({row'[u].status : u \in {v \in Undos : Link[v].op = o}}
              \cup {row'[Written(o)].status}) \cap Uncertain # {}
        <4>1. status \in {row'[u].status : u \in {v \in Undos : Link[v].op = o}}
                \cup {row'[Written(o)].status}
          BY <2>4, <3>1 DEF Moved
        <4>. QED
          BY <4>1
      <3>3. row'[Written(o)].status # "absent"
        <4>1. CASE a = Written(o)
          BY <4>1 DEF Moved, Uncertain
        <4>2. CASE a # Written(o)
          <5>1. row[Written(o)].status = "delivered"
            BY <2>1, <2>4, <3>1, <4>2 DEF OpTrue, Waiting, Uncertain
          <5>. QED
            BY <2>2, <4>2, <5>1 DEF Moved
        <4>. QED
          BY <4>1, <4>2
      <3>4. \A u \in Undos : Link[u].op = o /\ row'[u].status # "absent"
                               => row'[Written(o)].status = "delivered"
        <4>1. row[a].status \notin {"absent", "delivered"}
          BY DEF Waiting, Uncertain
        <4>2. CASE a \in Undos
          <5>1. row[Written(o)].status = "delivered" /\ a # Written(o)
            BY <2>1, <2>2, <2>4, <4>1, <4>2 DEF OpTrue
          <5>. QED
            BY <2>2, <5>1 DEF Moved
        <4>3. CASE a = Written(o)
          <5>1. \A u \in Undos : Link[u].op = o => u # a /\ row[u].status = "absent"
            BY <2>1, <2>2, <4>1, <4>3 DEF OpTrue
          <5>. QED
            BY <2>2, <5>1 DEF Moved
        <4>. QED
          BY <3>1, <4>2, <4>3
      <3>. QED
        BY <2>1, <2>4, <3>2, <3>3, <3>4 DEF OpTrue, OpAgrees
    <2>. QED
      BY <2>3, <2>4
  <1>. QED
    BY <1>1, <1>2, <1>3 DEF Linked
\* A row that is settled settles its records with those beside it.
LEMMA SettledRow ==
    ASSUME TypeOK, NEW a \in Actions, NEW status \in Waiting \cup Final, Settle(a, status)
    PROVE  /\ Moved(a, status) /\ row'[a].token = row[a].token
           /\ row' = [row EXCEPT ![a].status = status]
  <1>1. row' = [row EXCEPT ![a].status = status] /\ row' \in [Actions -> Row]
    BY SettleTyped DEF Settle
  <1>2. row \in [Actions -> Row] /\ row[a] \in Row
    BY DEF TypeOK
  <1>3. row'[a] = [row[a] EXCEPT !.status = status] /\ \A b \in Actions \ {a} : row'[b] = row[b]
    BY <1>1, <1>2
  <1>. QED
    BY <1>1, <1>2, <1>3 DEF Moved, Row

\* The records agree after a row has been settled.
LEMMA SettledLinked ==
    ASSUME TypeOK, Linked, NEW a \in Actions, NEW status \in {"retry_pending"} \cup Final,
           Settle(a, status), row[a].status \in Uncertain,
           a \in Files => status = "delivered",
           status = "cancelled" => Dest[a] # "smtp"
    PROVE  Linked'
  <1>1. Moved(a, status) /\ row' = [row EXCEPT ![a].status = status]
    BY SettledRow DEF Waiting
  <1>2. \A k : /\ StatesOf(row', "inv", k) \subseteq Waiting \cup Uncertain \cup Final
               /\ StatesOf(row', "note", k) \subseteq Waiting \cup Uncertain \cup Final
    BY <1>1 DEF StatesOf, Moved, Row
  <1>3. ASSUME NEW i \in Invs PROVE InvAgrees(i)'
    <2>. DEFINE states == StatesOf(row', "inv", i)
    <2>1. InvAgrees(i) /\ inv'[i] = IF Link[a].inv = i THEN InvAfter(a, states) ELSE inv[i]
      BY <1>1 DEF Linked, Settle
    <2>2. CASE Link[a].inv = i
      <3>1. status \in states
        BY <1>1, <2>2, States DEF Moved, Final
      <3>2. inv'[i] = InvAfter(a, states) /\ StatesOf(row, "inv", i)' = states
        BY <2>1, <2>2
      <3>. HIDE DEF states
      <3>. QED
        BY <3>1, <3>2 DEF InvAgrees, InvAfter, SumOf
    <2>3. CASE Link[a].inv # i
      <3>1. StatesOf(row, "inv", i)' = StatesOf(row, "inv", i)
        BY <1>1, <2>3 DEF StatesOf, Moved
      <3>. QED
        BY <2>1, <2>3, <3>1 DEF InvAgrees
    <2>. QED
      BY <2>2, <2>3
  <1>4. ASSUME NEW n \in Notes PROVE NoteAgrees(n)'
    <2>. DEFINE states == StatesOf(row', "note", n)
    <2>1. NoteAgrees(n) /\ note'[n] = IF Link[a].note = n THEN NoteAfter(a, states) ELSE note[n]
      BY <1>1 DEF Linked, Settle
    <2>2. CASE Link[a].note = n
      <3>1. status \in states /\ states \subseteq Waiting \cup Uncertain \cup Final
        <4>1. status \in states
          BY <1>1, <2>2, States DEF Moved, Final
        <4>2. states \subseteq Waiting \cup Uncertain \cup Final
          BY <1>2
        <4>. QED
          BY <4>1, <4>2
      <3>2. note'[n] = NoteAfter(a, states) /\ StatesOf(row, "note", n)' = states
        BY <2>1, <2>2
      <3>3. Dest[a] \in {"smtp", "web_push"}
        BY <2>2, Links, LinkConstants
      <3>. HIDE DEF states
      <3>4. CASE states \cap Uncertain # {} \/ states \cap Waiting # {}
        <4>1. note[n]' = IF states \cap Uncertain # {} THEN "needs_reconciliation" ELSE "queued"
          BY <3>2, <3>4 DEF NoteAfter, SumOf
        <4>. QED
          BY <3>2, <3>4, <4>1 DEF NoteAgrees
      <3>5. CASE states \cap Uncertain = {} /\ states \cap Waiting = {}
        <4>1. status \in Final /\ states \subseteq Final
          BY <3>1, <3>5
        <4>2. Dest[a] # "web_push" => "delivered" \in states
          BY <3>1, <3>3, <4>1 DEF Final
        <4>3. "delivered" \in states \/ states = {"cancelled"}
          BY <3>1, <4>1 DEF Final
        <4>. QED
          BY <3>2, <3>5, <4>2, <4>3 DEF NoteAgrees, NoteAfter, SumOf
      <3>. QED
        BY <3>4, <3>5
    <2>3. CASE Link[a].note # n
      <3>1. StatesOf(row, "note", n)' = StatesOf(row, "note", n)
        BY <1>1, <2>3 DEF StatesOf, Moved
      <3>. QED
        BY <2>1, <2>3, <3>1 DEF NoteAgrees
    <2>. QED
      BY <2>2, <2>3
  <1>5. ASSUME NEW o \in Ops PROVE OpTrue(o)'
    <2>1. OpTrue(o) /\ op'[o] = IF Link[a].op = o THEN OpAfter(a) ELSE op[o]
      BY DEF Linked, Settle
    <2>2. Written(o) \in Files \ Undos /\ Link[Written(o)].op = o /\ Files \subseteq Actions
          /\ Undos \subseteq Files
      BY Links, Kinds
    <2>3. CASE Link[a].op # o
      <3>1. row'[Written(o)] = row[Written(o)]
            /\ \A u \in Undos : Link[u].op = o => row'[u] = row[u]
        BY <1>1, <2>2, <2>3 DEF Moved
      <3>2. {row'[u].status : u \in {v \in Undos : Link[v].op = o}}
              = {row[u].status : u \in {v \in Undos : Link[v].op = o}}
        BY <3>1
      <3>. QED
        BY <2>1, <2>3, <3>1, <3>2 DEF OpTrue, OpAgrees
    <2>4. CASE Link[a].op = o
      <3>1. a \in Files /\ (a \notin Undos => a = Written(o)) /\ row'[a].status = "delivered"
        BY <1>1, <2>4, Links, Kinds DEF Moved
      <3>2. row[a].status \notin {"absent", "delivered"}
        BY DEF Uncertain
      <3>3. CASE a \in Undos
        <4>1. row[Written(o)].status = "delivered" /\ row'[Written(o)] = row[Written(o)]
          BY <1>1, <2>1, <2>2, <2>4, <3>2, <3>3 DEF OpTrue, Moved
        <4>2. {v \in Undos : Link[v].op = o} = {a}
          BY <2>2, <2>4, <3>3, LinkConstants
        <4>3. {row'[u].status : u \in {v \in Undos : Link[v].op = o}} = {"delivered"}
          BY <3>1, <4>2
        <4>4. op'[o] = "undone"
          BY <2>1, <2>4, <3>3 DEF OpAfter
        <4>. QED
          BY <4>1, <4>3, <4>4 DEF OpTrue, OpAgrees, Uncertain, Waiting
      <3>4. CASE a = Written(o)
        <4>1. \A u \in Undos : Link[u].op = o => u # a /\ row[u].status = "absent"
          BY <2>1, <2>2, <3>2, <3>4 DEF OpTrue
        <4>2. \A u \in Undos : Link[u].op = o => row'[u].status = "absent"
          BY <1>1, <2>2, <4>1 DEF Moved
        <4>3. {row'[u].status : u \in {v \in Undos : Link[v].op = o}} \subseteq {"absent"}
          BY <4>2
        <4>4. op'[o] = "committed"
          BY <2>1, <2>2, <2>4, <3>4 DEF OpAfter
        <4>. QED
          BY <3>1, <3>4, <4>2, <4>3, <4>4 DEF OpTrue, OpAgrees, Uncertain, Waiting
      <3>. QED
        BY <3>1, <3>3, <3>4
    <2>. QED
      BY <2>3, <2>4
  <1>. QED
    BY <1>3, <1>4, <1>5 DEF Linked
\* Fencing what is fenced changes nothing,
LEMMA FencedAlready ==
    ASSUME TypeOK, Linked, NEW A \in SUBSET Actions, FenceLinks(A),
           \A a \in A : row[a].status \in Uncertain
    PROVE  UNCHANGED linkVars
  <1>1. ASSUME NEW a \in A
        PROVE  /\ Link[a].inv \in Invs => inv[Link[a].inv] = "needs_reconciliation"
               /\ Link[a].note \in Notes => note[Link[a].note] = "needs_reconciliation"
               /\ Link[a].op \in Ops => op[Link[a].op] = "needs_reconciliation"
    <2>1. row[a].status \in Uncertain /\ row[a].status # "absent" /\ a \in Actions
      BY DEF Uncertain
    <2>2. /\ row[a].status \in StatesOf(row, "inv", Link[a].inv)
          /\ row[a].status \in StatesOf(row, "note", Link[a].note)
      BY <2>1, States
    <2>3. ASSUME Link[a].op \in Ops
          PROVE  op[Link[a].op] = "needs_reconciliation"
      <3>1. OpAgrees(Link[a].op)
        BY <2>3 DEF Linked, OpTrue
      <3>2. a \in Undos \/ a = Written(Link[a].op)
        BY <2>1, <2>3, Links, Kinds
      <3>3. row[a].status \in {row[u].status : u \in {v \in Undos : Link[v].op = Link[a].op}}
                                \cup {row[Written(Link[a].op)].status}
        BY <3>2
      <3>. QED
        BY <2>1, <3>1, <3>3 DEF OpAgrees
    <2>. QED
      BY <2>1, <2>2, <2>3 DEF Linked, InvAgrees, NoteAgrees
  <1>2. inv' = inv
    BY <1>1 DEF FenceLinks, TypeOK
  <1>3. note' = note
    BY <1>1 DEF FenceLinks, TypeOK
  <1>4. op' = op
    BY <1>1 DEF FenceLinks, TypeOK
  <1>. QED
    BY <1>2, <1>3, <1>4 DEF linkVars

\* and an uncertain row may become uncertain in another way.
Alike(b) ==
    \/ row'[b].status = row[b].status
    \/ row[b].status \in Uncertain /\ row'[b].status \in Uncertain

\* A record sees the same statuses in rows that are alike, except which of the uncertain
\* ones they are in.
LEMMA AlikeStates ==
    ASSUME \A b \in Actions : Alike(b), NEW kind \in {"inv", "note"}, NEW k
    PROVE  LET S == StatesOf(row, kind, k)
               T == StatesOf(row', kind, k)
           IN  /\ \A s \in S : s \in T \/ (s \in Uncertain /\ T \cap Uncertain # {})
               /\ \A s \in T : s \in S \/ (s \in Uncertain /\ S \cap Uncertain # {})
  <1>. DEFINE S == StatesOf(row, kind, k)
              T == StatesOf(row', kind, k)
  <1>1. ASSUME NEW s \in S
        PROVE  s \in T \/ (s \in Uncertain /\ T \cap Uncertain # {})
    <2>1. PICK b \in Actions : Link[b][kind] = k /\ row[b].status = s /\ s # "absent"
      BY DEF StatesOf
    <2>2. row'[b].status # "absent"
      BY <2>1 DEF Alike, Uncertain
    <2>3. row'[b].status \in T
      BY <2>1, <2>2 DEF StatesOf
    <2>. HIDE DEF T
    <2>. QED
      BY <2>1, <2>3 DEF Alike
  <1>2. ASSUME NEW s \in T
        PROVE  s \in S \/ (s \in Uncertain /\ S \cap Uncertain # {})
    <2>1. PICK b \in Actions : Link[b][kind] = k /\ row'[b].status = s /\ s # "absent"
      BY DEF StatesOf
    <2>2. row[b].status # "absent"
      BY <2>1 DEF Alike, Uncertain
    <2>3. row[b].status \in S
      BY <2>1, <2>2 DEF StatesOf
    <2>. HIDE DEF S
    <2>. QED
      BY <2>1, <2>3 DEF Alike
  <1>. QED
    BY <1>1, <1>2

\* The records agree after rows moved between uncertain statuses.
LEMMA RefencedLinked ==
    ASSUME Linked, UNCHANGED linkVars, \A b \in Actions : Alike(b)
    PROVE  Linked'
  <1>. USE DEF linkVars
  <1>1. ASSUME NEW S, NEW T, \A s \in S : s \in T \/ (s \in Uncertain /\ T \cap Uncertain # {}),
               \A s \in T : s \in S \/ (s \in Uncertain /\ S \cap Uncertain # {})
        PROVE  /\ S = {} <=> T = {}
               /\ S \cap Uncertain # {} <=> T \cap Uncertain # {}
               /\ S \cap Waiting # {} <=> T \cap Waiting # {}
               /\ S = {"cancelled"} <=> T = {"cancelled"}
               /\ "delivered" \in S <=> "delivered" \in T
               /\ S = {"delivered"} <=> T = {"delivered"}
               /\ S \subseteq {"absent"} <=> T \subseteq {"absent"}
    <2>1. /\ Waiting \cap Uncertain = {} /\ "cancelled" \notin Uncertain
          /\ "delivered" \notin Uncertain /\ "absent" \notin Uncertain
      BY DEF Waiting, Uncertain
    <2>2. S \cap Uncertain # {} <=> T \cap Uncertain # {}
      BY <1>1
    <2>3. S \cap Waiting # {} <=> T \cap Waiting # {}
      BY <1>1, <2>1
    <2>4. S = {} <=> T = {}
      BY <1>1
    <2>5. S = {"cancelled"} <=> T = {"cancelled"}
      BY <1>1, <2>1
    <2>6. "delivered" \in S <=> "delivered" \in T
      BY <1>1, <2>1
    <2>7. S = {"delivered"} <=> T = {"delivered"}
      BY <1>1, <2>1
    <2>8. S \subseteq {"absent"} <=> T \subseteq {"absent"}
      BY <1>1, <2>1
    <2>. QED
      BY <2>2, <2>3, <2>4, <2>5, <2>6, <2>7, <2>8
  <1>2. ASSUME NEW i \in Invs PROVE InvAgrees(i)'
    <2>. DEFINE S == StatesOf(row, "inv", i)
                T == StatesOf(row', "inv", i)
    <2>1. /\ \A s \in S : s \in T \/ (s \in Uncertain /\ T \cap Uncertain # {})
          /\ \A s \in T : s \in S \/ (s \in Uncertain /\ S \cap Uncertain # {})
      BY AlikeStates
    <2>2. StatesOf(row, "inv", i)' = T /\ InvAgrees(i)
      BY DEF Linked
    <2>. HIDE DEF T
    <2>. QED
      BY <1>1, <2>1, <2>2 DEF InvAgrees
  <1>3. ASSUME NEW n \in Notes PROVE NoteAgrees(n)'
    <2>. DEFINE S == StatesOf(row, "note", n)
                T == StatesOf(row', "note", n)
    <2>1. /\ \A s \in S : s \in T \/ (s \in Uncertain /\ T \cap Uncertain # {})
          /\ \A s \in T : s \in S \/ (s \in Uncertain /\ S \cap Uncertain # {})
      BY AlikeStates
    <2>2. StatesOf(row, "note", n)' = T /\ NoteAgrees(n)
      BY DEF Linked
    <2>. HIDE DEF T
    <2>. QED
      BY <1>1, <2>1, <2>2 DEF NoteAgrees
  <1>4. ASSUME NEW o \in Ops PROVE OpTrue(o)'
    <2>1. OpTrue(o) /\ Written(o) \in Actions /\ Undos \subseteq Actions
      BY Links, Kinds DEF Linked
    <2>2. /\ Alike(Written(o))
          /\ \A u \in Undos : Alike(u)
      BY <2>1
    <2>. DEFINE S == {row[u].status : u \in {v \in Undos : Link[v].op = o}}
                T == {row'[u].status : u \in {v \in Undos : Link[v].op = o}}
    <2>3. /\ \A s \in S : s \in T \/ (s \in Uncertain /\ T \cap Uncertain # {})
          /\ \A s \in T : s \in S \/ (s \in Uncertain /\ S \cap Uncertain # {})
      BY <2>2 DEF Alike
    <2>4. /\ S \subseteq {"absent"} <=> T \subseteq {"absent"}
          /\ S = {"delivered"} <=> T = {"delivered"}
          /\ S \cap Waiting # {} <=> T \cap Waiting # {}
      <3>. HIDE DEF S, T
      <3>. QED
        BY <2>3, <1>1
    <2>6. /\ (S \cup {row[Written(o)].status}) \cap Uncertain # {}
             <=> (T \cup {row'[Written(o)].status}) \cap Uncertain # {}
      BY <2>2, <2>3 DEF Alike
    <2>7. /\ row[Written(o)].status \in Waiting <=> row'[Written(o)].status \in Waiting
          /\ row[Written(o)].status = "delivered" <=> row'[Written(o)].status = "delivered"
          /\ row[Written(o)].status = "absent" <=> row'[Written(o)].status = "absent"
          /\ \A u \in Undos : row[u].status = "absent" <=> row'[u].status = "absent"
      BY <2>2 DEF Alike, Waiting, Uncertain
    <2>. HIDE DEF S, T
    <2>8. OpAgrees(o)'
      BY <2>1, <2>4, <2>6, <2>7 DEF OpTrue, OpAgrees, S, T
    <2>. QED
      BY <2>1, <2>7, <2>8 DEF OpTrue
  <1>. QED
    BY <1>2, <1>3, <1>4 DEF Linked
-----------------------------------------------------------------------------
(* The transactions.                                                       *)

\* A claimed row, and the task that has claimed it.
LEMMA ClaimedRow ==
    ASSUME TypeOK, NEW a \in Actions, NEW t \in Tasks, NEW pc \in {"send", "check", "inspect"},
           NEW mode \in {"dispatch", "reconcile"}, row' = Claimed(a), Starts(t, a, pc, mode)
    PROVE  /\ Moved(a, "delivering") /\ row'[a].token = row[a].token + 1
           /\ task' \in [Tasks -> Task] /\ Others(t)
           /\ task'[t].pc = pc /\ task'[t].act = a /\ task'[t].token = row[a].token + 1
  <1>1. row \in [Actions -> Row] /\ row[a] \in Row /\ task \in [Tasks -> Task]
    BY DEF TypeOK
  <1>2. /\ row'[a] = [row[a] EXCEPT !.status = "delivering", !.token = @ + 1]
        /\ \A b \in Actions \ {a} : row'[b] = row[b]
        /\ row' = [b \in Actions |-> row'[b]]
    BY <1>1 DEF Claimed
  <1>3. row'[a] \in Row
    <2>1. row[a].token + 1 \in Nat
      BY <1>1 DEF Row
    <2>2. "delivering" \in {"absent"} \cup Waiting \cup Uncertain \cup Final
      BY DEF Uncertain
    <2>. QED
      BY <1>1, <1>2, <2>1, <2>2 DEF Row
  <1>4. row' \in [Actions -> Row]
    BY <1>1, <1>2, <1>3
  <1>5. [pc |-> pc, act |-> a, token |-> row[a].token + 1, mode |-> mode, out |-> "none"] \in Task
    BY <1>1 DEF Task, Row
  <1>6. task' \in [Tasks -> Task] /\ Others(t)
        /\ task'[t].pc = pc /\ task'[t].act = a /\ task'[t].token = row[a].token + 1
    BY <1>1, <1>5 DEF Starts, Others
  <1>. QED
    BY <1>1, <1>2, <1>3, <1>4, <1>6 DEF Moved, Row

\* Nobody has a row in hand that waits, nor a file while the drain loop idles.
LEMMA ClaimedTasks ==
    ASSUME TypeOK, Delivering, NEW a \in Actions, NEW t \in Tasks,
           ~Busy(t), t # 0 => t = a,
           \A u \in Tasks \ {t} : Busy(u) => Act(u) # a,
           NEW pc, Moved(a, "delivering"), row'[a].token = row[a].token + 1, Others(t),
           task'[t].pc = pc, task'[t].act = a, task'[t].token = row[a].token + 1,
           a \in Files => pc \in {"check", "inspect"},
           a \in Transports => pc = "send" /\ sent[a] = 0 /\ a \notin orphan,
           UNCHANGED worldVars
    PROVE  (\A u \in Tasks : TaskTrue(u)') /\ HeldOnce'
  <1>1. Act(t)' = a
    BY DEF Act
  <1>2. TaskTrue(t)'
    <2>1. a \in Files => FileTaskTrue(t)'
      BY <1>1, Kinds DEF FileTaskTrue, Moved
    <2>2. a \in Transports => TransportTaskTrue(t)'
      BY <1>1, Kinds DEF TransportTaskTrue, Moved, worldVars, Uncertain
    <2>3. pc # "dispatch"
      BY Kinds
    <2>. QED
      BY <1>1, <2>1, <2>2, <2>3 DEF TaskTrue
  <1>3. ASSUME NEW u \in Tasks \ {t} PROVE TaskTrue(u)'
    <2>1. task'[u] = task[u] /\ TaskTrue(u)
      BY DEF Others, Delivering
    <2>2. \A c \in Codes : row[c].status # "absent" => row'[c].status # "absent"
      BY Kinds DEF Moved
    <2>3. Busy(u) => Act(u) \in Actions /\ row'[Act(u)] = row[Act(u)]
      BY <2>1 DEF TaskTrue, Moved
    <2>4. Busy(u) /\ Act(u) \in Transports => row[Act(u)].status \in Uncertain
      BY <2>1 DEF TaskTrue, TransportTaskTrue
    <2>. QED
      BY <2>1, <2>2, <2>3, <2>4, TaskKept DEF worldVars
  <1>4. HeldOnce'
    <2>1. \A u \in Tasks \ {t} : Busy(u)' = Busy(u) /\ Act(u)' = Act(u)
      BY DEF Others, Busy, Act
    <2>. QED
      BY <1>1, <2>1 DEF Delivering, HeldOnce
  <1>. QED
    BY <1>2, <1>3, <1>4

\* The drain loop or a dispatcher claims a waiting row.
LEMMA ClaimNextKeeps ==
    ASSUME Inv, NEW t \in Tasks, NEW a \in Actions, ClaimNext(t, a)
    PROVE  Inv'
  <1>. DEFINE pc == IF a \in Files THEN "check" ELSE "send"
  <1>1. /\ TypeOK /\ row[a].status \in Waiting /\ row' = Claimed(a) /\ FenceLinks({a})
        /\ Starts(t, a, pc, "dispatch") /\ ~Busy(t) /\ (t # 0 => t = a)
        /\ UNCHANGED <<told, undoing, worldVars, bootVars>>
    BY DEF ClaimNext, Due, Busy, Inv
  <1>2. pc \in {"send", "check"}
    OBVIOUS
  <1>3. /\ a \in Files => pc \in {"check", "inspect"}
        /\ a \in Transports => pc = "send"
    BY Kinds
  <1>. HIDE DEF pc
  <1>4. /\ Moved(a, "delivering") /\ row'[a].token = row[a].token + 1
        /\ task' \in [Tasks -> Task] /\ Others(t)
        /\ task'[t].pc = pc /\ task'[t].act = a /\ task'[t].token = row[a].token + 1
    BY <1>1, <1>2, ClaimedRow
  <1>5. row[a].status \notin Uncertain \cup Final
    BY <1>1 DEF Waiting, Uncertain, Final
  <1>6. \A u \in Tasks : Busy(u) => Act(u) # a
    BY <1>5, Kinds DEF Inv, Delivering, TaskTrue, FileTaskTrue, TransportTaskTrue, Uncertain
  <1>7. a \in Transports => sent[a] = 0 /\ a \notin orphan
    BY <1>1, <1>5 DEF Inv, Delivering, SentTrue
  <1>8. (\A u \in Tasks : TaskTrue(u)') /\ HeldOnce'
    BY <1>1, <1>3, <1>4, <1>6, <1>7, ClaimedTasks DEF Inv
  <1>9. Linked'
    BY <1>1, <1>4, FencedLinked DEF Inv, Uncertain
  <1>10. TypeOK'
    BY <1>1, <1>4, FenceTyped DEF TypeOK, Moved, worldVars, bootVars
  <1>11. ASSUME NEW b \in Transports PROVE SentTrue(b)'
    <2>1. SentTrue(b) /\ sent' = sent /\ orphan' = orphan
      BY <1>1 DEF Inv, Delivering, worldVars
    <2>2. CASE b = a
      BY <1>4, <1>7, <2>1, <2>2 DEF SentTrue, Moved, Waiting
    <2>3. CASE b # a
      BY <1>4, <2>1, <2>3, Kinds DEF SentTrue, Moved
    <2>. QED
      BY <2>2, <2>3
  <1>12. ToldTrue'
    BY <1>1, <1>4, <1>5, Kinds DEF ToldTrue, Inv, Moved, worldVars, Final
  <1>. QED
    BY <1>8, <1>9, <1>10, <1>11, <1>12 DEF Inv, Delivering

\* The drain loop or the recovery claims an uncertain file.
LEMMA ClaimReconciliationKeeps ==
    ASSUME Inv, NEW a \in Files, ClaimReconciliation(a)
    PROVE  Inv'
  <1>1. /\ TypeOK /\ row[a].status \in Uncertain /\ row' = Claimed(a) /\ a \in Actions
        /\ Starts(0, a, "inspect", "reconcile") /\ ~Busy(0) /\ todo' = todo \ {a}
        /\ UNCHANGED <<linkVars, told, undoing, worldVars, boot, halts>>
    BY Kinds DEF ClaimReconciliation, Reconcilable, Busy, Inv
  <1>2. /\ Moved(a, "delivering") /\ row'[a].token = row[a].token + 1
        /\ task' \in [Tasks -> Task] /\ Others(0)
        /\ task'[0].pc = "inspect" /\ task'[0].act = a /\ task'[0].token = row[a].token + 1
    BY <1>1, Kinds, ClaimedRow
  <1>3. \A u \in Tasks \ {0} : Busy(u) => Act(u) # a
    BY FileHolder DEF Inv, Delivering
  <1>4. a \notin Transports
    BY Kinds
  <1>5. (\A u \in Tasks : TaskTrue(u)') /\ HeldOnce'
    BY <1>1, <1>2, <1>3, <1>4, Kinds, ClaimedTasks DEF Inv
  <1>6. Linked'
    <2>1. \A b \in Actions : Alike(b)
      BY <1>1, <1>2 DEF Alike, Moved, Uncertain
    <2>. QED
      BY <1>1, <2>1, RefencedLinked DEF Inv
  <1>7. TypeOK'
    BY <1>1, <1>2 DEF TypeOK, Moved, worldVars, linkVars
  <1>8. ASSUME NEW b \in Transports PROVE SentTrue(b)'
    <2>1. SentTrue(b) /\ sent' = sent /\ orphan' = orphan /\ row'[b] = row[b]
      BY <1>1, <1>2, <1>4, Kinds DEF Inv, Delivering, worldVars, Moved
    <2>. QED
      BY <2>1 DEF SentTrue
  <1>9. ToldTrue'
    BY <1>1, <1>2, <1>4, Kinds DEF ToldTrue, Inv, Moved, worldVars
  <1>. QED
    BY <1>5, <1>6, <1>7, <1>8, <1>9 DEF Inv, Delivering
\* The outcome of a delivery is recorded, with the records linked to it: a task
\* that is about to do so still owns its row, and the row is still fenced.
LEMMA RecordRow ==
    ASSUME Inv, NEW t \in Tasks, Record(t)
    PROVE  /\ Act(t) \in Actions /\ Busy(t) /\ TaskTrue(t)
           /\ row[Act(t)].status \in Uncertain
           /\ StatusOf(task[t].out) \in {"delivered", "cancelled", "needs_reconciliation",
                                         "retry_pending"}
           /\ Act(t) \in Files => StatusOf(task[t].out) \in {"delivered", "needs_reconciliation"}
           /\ StatusOf(task[t].out) = "cancelled" => Dest[Act(t)] # "smtp"
           /\ Act(t) \in Transports =>
                /\ StatusOf(task[t].out) = "delivered" => sent[Act(t)] = 1
                /\ StatusOf(task[t].out) \in {"cancelled", "retry_pending"} => sent[Act(t)] = 0
                /\ Act(t) \notin orphan
                /\ Act(t) \in Codes => StatusOf(task[t].out) # "retry_pending"
           /\ IF StatusOf(task[t].out) = "needs_reconciliation"
              THEN /\ row' = [row EXCEPT ![Act(t)].status = "needs_reconciliation"]
                   /\ FenceLinks({Act(t)})
              ELSE Settle(Act(t), StatusOf(task[t].out))
           /\ Moved(Act(t), StatusOf(task[t].out)) /\ row'[Act(t)].token = row[Act(t)].token
           /\ Finished(t, IF t = 0 THEN "uncertain" ELSE Answers[StatusOf(task[t].out)])
           /\ UNCHANGED <<undoing, worldVars, bootVars>>
  <1>. DEFINE a == Act(t)
              status == StatusOf(task[t].out)
  <1>1. /\ task[t].pc = "record" /\ Busy(t) /\ TaskTrue(t) /\ a \in Actions /\ TypeOK
        /\ row[a].token = task[t].token
    BY DEF Record, Busy, Inv, Delivering, TaskTrue
  <1>2. task[t].out \in {"none", "delivered", "cancelled", "uncertain", "retry"}
    BY <1>1 DEF TypeOK, Task
  <1>3. ASSUME a \in Files
        PROVE  /\ row[a].status \in Uncertain /\ task[t].out \in {"delivered", "uncertain"}
               /\ Dest[a] # "smtp"
    BY <1>1, <1>3 DEF TaskTrue, FileTaskTrue, Uncertain, Files
  <1>10. ASSUME a \in Transports
         PROVE  row[a].status \in Uncertain /\ task[t].out # "none" /\ TransportTaskTrue(t)
    BY <1>1, <1>10 DEF TaskTrue, TransportTaskTrue
  <1>4. /\ row[a].status \in Uncertain
        /\ task[t].out # "none"
        /\ a \in Files => task[t].out \in {"delivered", "uncertain"} /\ Dest[a] # "smtp"
        /\ a \in Transports => TransportTaskTrue(t)
    BY <1>1, <1>3, <1>10, Kinds
  <1>5. /\ status = "delivered" <=> task[t].out = "delivered"
        /\ status = "cancelled" <=> task[t].out = "cancelled"
        /\ status = "needs_reconciliation" <=> task[t].out = "uncertain"
        /\ status = "retry_pending" <=> task[t].out = "retry"
        /\ status \in {"delivered", "cancelled", "needs_reconciliation", "retry_pending"}
    BY <1>2, <1>4 DEF StatusOf
  <1>6. Owns(t) /\ row[a].status \notin Final
    BY <1>1, <1>4 DEF Owns, Uncertain, Final
  <1>7. /\ IF status = "needs_reconciliation"
           THEN /\ row' = [row EXCEPT ![a].status = status]
                /\ FenceLinks({a})
           ELSE Settle(a, status)
        /\ Finished(t, IF t = 0 THEN "uncertain" ELSE Answers[status])
        /\ UNCHANGED <<undoing, worldVars, bootVars>>
    BY <1>6 DEF Record
  <1>. HIDE DEF status, a
  <1>8. Moved(a, status) /\ row'[a].token = row[a].token
    <2>1. row' = [row EXCEPT ![a].status = status]
      BY <1>7 DEF Settle
    <2>2. row \in [Actions -> Row] /\ row[a] \in Row
      BY <1>1 DEF TypeOK
    <2>3. /\ row'[a] = [row[a] EXCEPT !.status = status]
          /\ \A b \in Actions \ {a} : row'[b] = row[b]
          /\ row' = [b \in Actions |-> row'[b]]
      BY <1>1, <2>1, <2>2
    <2>4. row'[a] \in Row
      <3>1. status \in {"absent"} \cup Waiting \cup Uncertain \cup Final
        BY <1>5 DEF Waiting, Uncertain, Final
      <3>. QED
        BY <2>2, <2>3, <3>1 DEF Row
    <2>5. row' \in [Actions -> Row]
      BY <2>2, <2>3, <2>4
    <2>. QED
      BY <2>2, <2>3, <2>5 DEF Moved, Row
  <1>9. /\ status = "cancelled" => Dest[a] # "smtp"
        /\ a \in Transports =>
             /\ status = "delivered" => sent[a] = 1
             /\ status \in {"cancelled", "retry_pending"} => sent[a] = 0
             /\ a \notin orphan
             /\ a \in Codes => status # "retry_pending"
        /\ a \in Files => status \in {"delivered", "needs_reconciliation"}
    <2>1. a \in Files \/ a \in Transports
      BY <1>1, Kinds
    <2>2. CASE a \in Files
      BY <1>4, <1>5, <2>2, Kinds
    <2>3. CASE a \in Transports
      BY <1>1, <1>4, <1>5, <2>3, Kinds DEF TransportTaskTrue, a
    <2>. QED
      BY <2>1, <2>2, <2>3
  <1>. QED
    BY <1>1, <1>4, <1>5, <1>7, <1>8, <1>9 DEF a, status

\* The outcome that a task records is so.
LEMMA RecordKeeps ==
    ASSUME Inv, NEW t \in Tasks, Record(t)
    PROVE  Inv'
  <1>. DEFINE a == Act(t)
              status == StatusOf(task[t].out)
  <1>1. TypeOK /\ Linked /\ Delivering /\ ToldTrue
    BY DEF Inv
  <1>2. /\ a \in Actions /\ Busy(t) /\ row[a].status \in Uncertain
        /\ status \in {"delivered", "cancelled", "needs_reconciliation", "retry_pending"}
        /\ a \in Files => status \in {"delivered", "needs_reconciliation"}
        /\ status = "cancelled" => Dest[a] # "smtp"
        /\ a \in Transports =>
             /\ status = "delivered" => sent[a] = 1
             /\ status \in {"cancelled", "retry_pending"} => sent[a] = 0
             /\ a \notin orphan
             /\ a \in Codes => status # "retry_pending"
        /\ IF status = "needs_reconciliation" THEN FenceLinks({a}) ELSE Settle(a, status)
        /\ Moved(a, status)
        /\ Finished(t, IF t = 0 THEN "uncertain" ELSE Answers[status])
        /\ UNCHANGED <<undoing, worldVars, bootVars>>
    BY RecordRow
  <1>3. t # 0 => a = t
    BY <1>1, <1>2 DEF Delivering, TaskTrue
  <1>. HIDE DEF a, status
  <1>4. Linked'
    <2>1. CASE status = "needs_reconciliation"
      BY <1>1, <1>2, <2>1, FencedLinked DEF Uncertain
    <2>2. CASE status # "needs_reconciliation"
      BY <1>1, <1>2, <2>2, SettledLinked DEF Final
    <2>. QED
      BY <2>1, <2>2
  <1>5. task' = [task EXCEPT ![t] = IdleTask]
    BY <1>2 DEF Finished
  <1>6. task' \in [Tasks -> Task] /\ Others(t) /\ task'[t] = IdleTask
    BY <1>1, <1>5, IdleTyped DEF TypeOK, Others
  <1>7. ASSUME NEW u \in Tasks PROVE TaskTrue(u)'
    <2>1. CASE u = t
      BY <1>6, <2>1 DEF TaskTrue, Busy, IdleTask
    <2>2. CASE u # t
      <3>1. task'[u] = task[u] /\ TaskTrue(u)
        BY <1>1, <1>6, <2>2 DEF Others, Delivering
      <3>2. Busy(u) => Act(u) \in Actions \ {a}
        BY <1>1, <1>2, <2>2, <3>1 DEF Delivering, HeldOnce, TaskTrue, a
      <3>3. Busy(u) => row'[Act(u)] = row[Act(u)]
        BY <1>2, <3>2 DEF Moved
      <3>4. \A c \in Codes : row[c].status # "absent" => row'[c].status # "absent"
        BY <1>2, Kinds DEF Moved
      <3>5. Busy(u) /\ Act(u) \in Transports => row[Act(u)].status \in Uncertain
        BY <3>1 DEF TaskTrue, TransportTaskTrue
      <3>. QED
        BY <1>1, <1>2, <3>1, <3>3, <3>4, <3>5, TaskKept DEF worldVars
    <2>. QED
      BY <2>1, <2>2
  <1>8. HeldOnce'
    <2>1. \A u \in Tasks : Busy(u)' => Busy(u) /\ Act(u)' = Act(u)
      BY <1>6 DEF Others, Busy, Act, IdleTask
    <2>. QED
      BY <1>1, <2>1 DEF Delivering, HeldOnce
  <1>9. ASSUME NEW b \in Transports PROVE SentTrue(b)'
    <2>1. SentTrue(b) /\ sent' = sent /\ orphan' = orphan
      BY <1>1, <1>2 DEF Delivering, worldVars
    <2>2. CASE b = a
      BY <1>2, <2>1, <2>2 DEF SentTrue, Moved, Waiting
    <2>3. CASE b # a
      BY <1>2, <2>1, <2>3, Kinds DEF SentTrue, Moved
    <2>. QED
      BY <2>2, <2>3
  <1>10. told' \in [Codes -> {"none", "delivered", "failed", "uncertain"}]
         /\ \A c \in Codes : told'[c] = IF c = t THEN Answers[status] ELSE told[c]
    <2>1. t # 0 => Answers[status] \in {"delivered", "failed", "uncertain"}
      BY <1>2, <1>3, Kinds DEF Answers
    <2>2. told' = [c \in Codes |-> IF c = t
                                   THEN IF t = 0 THEN "uncertain" ELSE Answers[status]
                                   ELSE told[c]]
      BY <1>2 DEF Finished
    <2>. QED
      BY <1>1, <2>1, <2>2, Kinds DEF TypeOK
  <1>11. ToldTrue'
    <2>. SUFFICES ASSUME NEW c \in Codes
                  PROVE  /\ told'[c] = "delivered" => sent'[c] = 1 /\ row'[c].status = "delivered"
                         /\ told'[c] = "failed" => sent'[c] = 0 /\ row'[c].status = "cancelled"
      BY DEF ToldTrue
    <2>1. sent' = sent
      BY <1>2 DEF worldVars
    <2>2. CASE c = t
      <3>1. a = t /\ c \in Transports /\ status # "retry_pending" /\ told'[c] = Answers[status]
            /\ row'[c].status = status
        BY <1>2, <1>3, <1>10, <2>2, Kinds DEF Moved
      <3>. QED
        BY <1>2, <2>1, <2>2, <3>1 DEF Answers
    <2>3. CASE c # t
      <3>1. told'[c] = told[c]
        BY <1>10, <2>3
      <3>2. CASE c = a
        BY <1>1, <1>2, <3>1, <3>2 DEF ToldTrue, Uncertain
      <3>3. CASE c # a
        BY <1>1, <1>2, <2>1, <3>1, <3>3, Kinds DEF ToldTrue, Moved
      <3>. QED
        BY <3>2, <3>3
    <2>. QED
      BY <2>2, <2>3
  <1>12. TypeOK'
    <2>1. /\ inv' \in [Invs -> {"none", "pending_delivery", "needs_reconciliation",
                                 "committed", "cancelled"}]
          /\ note' \in [Notes -> {"none", "queued", "needs_reconciliation", "pushed",
                                  "sent", "skipped"}]
          /\ op' \in [Ops -> {"none", "pending_delivery", "needs_reconciliation",
                              "committed", "undo_pending", "undone"}]
      <3>1. CASE status = "needs_reconciliation"
        BY <1>1, <1>2, <3>1, FenceTyped
      <3>2. CASE status # "needs_reconciliation"
        BY <1>1, <1>2, <3>2, SettleTyped DEF Waiting, Final
      <3>. QED
        BY <3>1, <3>2
    <2>. QED
      BY <1>1, <1>2, <1>6, <1>10, <2>1 DEF TypeOK, Moved, worldVars, bootVars
  <1>. QED
    BY <1>4, <1>7, <1>8, <1>9, <1>11, <1>12 DEF Inv, Delivering
\* Rows of interrupted transports are cut off from the tasks that may still end.
LEMMA RecoverKeeps ==
    ASSUME Inv, Recover
    PROVE  Inv'
  <1>. DEFINE cut == {a \in Transports : row[a].status = "delivering"}
  <1>1. /\ TypeOK /\ FenceLinks(cut) /\ boot' = "recovering"
        /\ row' = [a \in Actions |-> IF a \in cut
                                     THEN [row[a] EXCEPT !.status = "needs_reconciliation"]
                                     ELSE row[a]]
        /\ todo' = {a \in Files : row[a].status \in Uncertain}
        /\ UNCHANGED <<task, told, undoing, worldVars, halts>>
    BY DEF Recover, Interrupted, Inv
  <1>2. \A a \in Actions : row[a] \in Row
    BY <1>1 DEF TypeOK
  <1>3. /\ \A a \in cut : /\ row'[a] = [row[a] EXCEPT !.status = "needs_reconciliation"]
                          /\ row[a].status = "delivering" /\ a \in Transports
        /\ \A a \in Actions \ cut : row'[a] = row[a]
        /\ cut \subseteq Transports
    BY <1>1, Kinds
  <1>4. \A a \in Actions :
          /\ row'[a] \in Row /\ row'[a].token = row[a].token /\ Alike(a)
          /\ a \in Files => row'[a] = row[a]
    <2>. SUFFICES ASSUME NEW a \in Actions
                  PROVE  /\ row'[a] \in Row /\ row'[a].token = row[a].token
                         /\ a \in Files => row'[a] = row[a]
                         /\ \/ row'[a].status = row[a].status
                            \/ row[a].status \in Uncertain /\ row'[a].status \in Uncertain
      BY DEF Alike
    <2>. HIDE DEF cut
    <2>1. CASE a \notin cut
      BY <1>2, <1>3, <2>1
    <2>2. CASE a \in cut
      <3>1. row'[a] = [row[a] EXCEPT !.status = "needs_reconciliation"] /\ a \notin Files
            /\ row[a].status = "delivering"
        BY <1>3, <2>2, Kinds
      <3>. QED
        BY <1>2, <3>1 DEF Row, Uncertain
    <2>. QED
      BY <2>1, <2>2
  <1>5. UNCHANGED linkVars
    <2>1. cut \in SUBSET Actions /\ \A a \in cut : row[a].status \in Uncertain
      BY Kinds DEF Uncertain
    <2>. QED
      BY <1>1, <2>1, FencedAlready DEF Inv
  <1>6. Linked'
    BY <1>4, <1>5, RefencedLinked DEF Inv
  <1>7. row' \in [Actions -> Row]
    <2>1. row' = [a \in Actions |-> row'[a]]
      BY <1>1
    <2>. QED
      BY <1>4, <2>1
  <1>. HIDE DEF cut
  <1>8. TypeOK'
    BY <1>1, <1>5, <1>7 DEF TypeOK, linkVars, worldVars
  <1>9. ASSUME NEW u \in Tasks PROVE TaskTrue(u)'
    <2>1. task'[u] = task[u] /\ TaskTrue(u) /\ TypeOK
      BY <1>1 DEF Inv, Delivering
    <2>2. \A c \in Codes : row[c].status # "absent" => row'[c].status # "absent"
      BY <1>4, Kinds DEF Alike, Uncertain
    <2>3. Busy(u) => /\ Act(u) \in Actions
                     /\ Act(u) \in Transports => row[Act(u)].status \in Uncertain
      BY <2>1 DEF TaskTrue, TransportTaskTrue
    <2>4. Busy(u) => /\ row'[Act(u)].token = row[Act(u)].token
                     /\ Act(u) \in Files => row'[Act(u)] = row[Act(u)]
                     /\ Act(u) \in Transports => row'[Act(u)].status \in Uncertain
      BY <1>4, <2>3 DEF Alike
    <2>5. sent' = sent /\ orphan' = orphan /\ file' = file /\ alone' = alone
      BY <1>1 DEF worldVars
    <2>. QED
      BY <2>1, <2>2, <2>4, <2>5, TaskKept
  <1>10. HeldOnce'
    BY <1>1 DEF Inv, Delivering, HeldOnce, Busy, Act
  <1>11. ASSUME NEW a \in Transports PROVE SentTrue(a)'
    <2>1. SentTrue(a) /\ sent' = sent /\ orphan' = orphan
      BY <1>1 DEF Inv, Delivering, worldVars
    <2>2. \/ row'[a].status = row[a].status
          \/ row[a].status \in Uncertain /\ row'[a].status \in Uncertain
      BY <1>4, Kinds DEF Alike
    <2>. QED
      BY <2>1, <2>2 DEF SentTrue, Uncertain, Waiting
  <1>12. ToldTrue'
    <2>1. \A c \in Codes : \/ row'[c].status = row[c].status
                           \/ row[c].status \in Uncertain
      BY <1>4, Kinds DEF Alike
    <2>2. told' = told /\ sent' = sent
      BY <1>1 DEF worldVars
    <2>. QED
      BY <2>1, <2>2 DEF Inv, ToldTrue, Uncertain
  <1>. QED
    BY <1>6, <1>8, <1>9, <1>10, <1>11, <1>12 DEF Inv, Delivering

-----------------------------------------------------------------------------
(* Staging.                                                                *)

\* The rows of A, none of which was there, are queued.
Staged(A) ==
    /\ row' \in [Actions -> Row]
    /\ \A a \in A : row[a].status = "absent" /\ row'[a].status = "queued"
    /\ \A a \in Actions \ A : row'[a] = row[a]

\* Nobody has a new row in hand, and its effect has not happened.
LEMMA StagedKeeps ==
    ASSUME Inv, NEW A \in SUBSET Actions, Staged(A), UNCHANGED <<told, worldVars>>,
           \A t \in Tasks : \/ task'[t] = task[t]
                            \/ t \in A \cap Codes /\ task'[t] = [IdleTask EXCEPT !.pc = "dispatch"]
    PROVE  /\ \A t \in Tasks : TaskTrue(t)'
           /\ HeldOnce' /\ ToldTrue'
           /\ \A a \in Transports : SentTrue(a)'
  <1>1. \A c \in Actions : row[c].status # "absent" => c \notin A /\ row'[c] = row[c]
    BY DEF Staged
  <1>2. ASSUME NEW t \in Tasks PROVE TaskTrue(t)'
    <2>1. TaskTrue(t) /\ TypeOK
      BY DEF Inv, Delivering
    <2>2. Busy(t) => Act(t) \in Actions /\ row'[Act(t)] = row[Act(t)]
      <3>1. ASSUME Busy(t) PROVE Act(t) \in Actions /\ row[Act(t)].status # "absent"
        BY <2>1, <3>1, Kinds DEF TaskTrue, FileTaskTrue, TransportTaskTrue, Uncertain
      <3>. QED
        BY <1>1, <3>1
    <2>3. Busy(t) /\ Act(t) \in Transports => row[Act(t)].status \in Uncertain
      BY <2>1 DEF TaskTrue, TransportTaskTrue
    <2>4. CASE task'[t] = task[t]
      <3>1. \A c \in Codes : row[c].status # "absent" => row'[c].status # "absent"
        BY <1>1, Kinds
      <3>. QED
        BY <2>1, <2>2, <2>3, <2>4, <3>1, TaskKept DEF worldVars
    <2>5. CASE t \in A \cap Codes /\ task'[t] = [IdleTask EXCEPT !.pc = "dispatch"]
      <3>1. task'[t].pc = "dispatch"
        BY <2>5 DEF IdleTask
      <3>2. row'[t].status # "absent"
        BY <2>5 DEF Staged
      <3>. QED
        BY <2>5, <3>1, <3>2 DEF TaskTrue, Busy
    <2>. QED
      BY <2>4, <2>5
  <1>3. HeldOnce'
    <2>1. \A t \in Tasks : Busy(t)' => Busy(t) /\ Act(t)' = Act(t)
      BY DEF Busy, Act, IdleTask
    <2>. QED
      BY <2>1 DEF Inv, Delivering, HeldOnce
  <1>4. ToldTrue'
    <2>1. \A c \in Codes : row[c].status # "absent" => row'[c] = row[c]
      BY <1>1, Kinds
    <2>. QED
      BY <2>1 DEF Inv, ToldTrue, worldVars
  <1>5. ASSUME NEW a \in Transports PROVE SentTrue(a)'
    <2>1. SentTrue(a) /\ sent' = sent /\ orphan' = orphan /\ a \in Actions
      BY Kinds DEF Inv, Delivering, worldVars
    <2>2. CASE a \in A
      BY <2>1, <2>2 DEF SentTrue, Staged, Waiting, Uncertain
    <2>3. CASE a \notin A
      BY <2>1, <2>3 DEF SentTrue, Staged
    <2>. QED
      BY <2>2, <2>3
  <1>. QED
    BY <1>2, <1>3, <1>4, <1>5
\* What a tool call stages, and what an undo request stages, is typed and new.
LEMMA EnqueuedRows ==
    ASSUME Inv, NEW b, Enqueue(b)
    PROVE  LET new == {a \in Actions : Batch[a] = b}
           IN  /\ Staged(new) /\ new \in SUBSET Actions /\ new \cap Undos = {}
               /\ \A t \in Tasks : IF t \in new \cap Codes
                                   THEN task'[t] = [IdleTask EXCEPT !.pc = "dispatch"]
                                   ELSE task'[t] = task[t]
               /\ task' \in [Tasks -> Task]
  <1>. DEFINE new == {a \in Actions : Batch[a] = b}
  <1>1. /\ TypeOK /\ \A a \in new : row[a].status = "absent"
        /\ row' = [a \in Actions |->
                     IF a \notin new THEN row[a]
                     ELSE [row[a] EXCEPT !.status = "queued", !.seq = NextSeq,
                                         !.before = file,
                                         !.want = IF a \in Files THEN Content[a] ELSE @]]
        /\ task' = [t \in Tasks |-> IF t \in new THEN [IdleTask EXCEPT !.pc = "dispatch"]
                                    ELSE task[t]]
    BY DEF Enqueue, Inv
  <1>2. b # 0
    BY OutboxConstants DEF Enqueue
  <1>3. new \cap Undos = {}
    BY <1>2 DEF Undos
  <1>4. new \subseteq Actions
    OBVIOUS
  <1>5. \A a \in Actions : row[a] \in Row /\ file \in Contents
    BY <1>1 DEF TypeOK
  <1>. HIDE DEF new
  <1>6. ASSUME NEW a \in new
        PROVE  row'[a] \in Row /\ row'[a].status = "queued"
    <2>. DEFINE want == IF a \in Files THEN Content[a] ELSE row[a].want
    <2>1. row[a] \in Row
      BY <1>4, <1>5
    <2>2. want \in Contents
      BY <2>1, EmptyRowTyped DEF Row
    <2>3. row'[a] = [row[a] EXCEPT !.status = "queued", !.seq = NextSeq, !.before = file,
                                   !.want = want]
      BY <1>1, <1>4
    <2>. HIDE DEF want
    <2>4. "queued" \in {"absent"} \cup Waiting \cup Uncertain \cup Final
      BY DEF Waiting
    <2>. QED
      BY <1>4, <1>5, <2>1, <2>2, <2>3, <2>4, NextSeqTyped DEF Row
  <1>7. \A a \in Actions \ new : row'[a] = row[a]
    BY <1>1
  <1>8. Staged(new)
    <2>1. row' = [a \in Actions |-> row'[a]]
      BY <1>1
    <2>2. \A a \in Actions : row'[a] \in Row
      BY <1>5, <1>6, <1>7
    <2>. QED
      BY <1>1, <1>6, <1>7, <2>1, <2>2 DEF Staged
  <1>9. \A t \in Tasks : t \in new <=> t \in new \cap Codes
    BY <1>4, Kinds DEF Tasks
  <1>10. \A t \in Tasks : IF t \in new \cap Codes
                          THEN task'[t] = [IdleTask EXCEPT !.pc = "dispatch"]
                          ELSE task'[t] = task[t]
    BY <1>1, <1>9
  <1>11. task' \in [Tasks -> Task]
    <2>1. [IdleTask EXCEPT !.pc = "dispatch"] \in Task
      BY DEF IdleTask, Task
    <2>2. task' = [t \in Tasks |-> task'[t]]
      BY <1>1
    <2>. QED
      BY <1>1, <1>10, <2>1, <2>2 DEF TypeOK
  <1>. QED
    BY <1>3, <1>4, <1>8, <1>10, <1>11 DEF new

\* A tool call stages its intents, and the records that follow them.
LEMMA EnqueueKeeps ==
    ASSUME Inv, NEW b, Enqueue(b)
    PROVE  Inv'
  <1>. DEFINE new == {a \in Actions : Batch[a] = b}
  <1>1. /\ Staged(new) /\ new \in SUBSET Actions /\ new \cap Undos = {}
        /\ \A t \in Tasks : IF t \in new \cap Codes
                            THEN task'[t] = [IdleTask EXCEPT !.pc = "dispatch"]
                            ELSE task'[t] = task[t]
        /\ task' \in [Tasks -> Task]
    BY EnqueuedRows
  <1>2. /\ TypeOK
        /\ \A a \in new : Link[a].note # 0 /\ note[Link[a].note] # "none" =>
              \E c \in Transports : Link[c].note = Link[a].note /\ sent[c] > 0
        /\ inv' = [i \in Invs |-> IF \E a \in new : Link[a].inv = i
                                  THEN "pending_delivery" ELSE inv[i]]
        /\ note' = [n \in Notes |-> IF note[n] = "none" /\ \E a \in new : Link[a].note = n
                                    THEN "queued" ELSE note[n]]
        /\ op' = [o \in Ops |-> IF \E a \in new : Link[a].op = o
                                THEN "pending_delivery" ELSE op[o]]
        /\ UNCHANGED <<told, undoing, worldVars, bootVars>>
    BY DEF Enqueue, Inv
  <1>3. \A a, c \in Actions : a \in new /\ Link[a].inv # 0 /\ Link[a].inv = Link[c].inv => c \in new
    BY LinkConstants
  <1>. HIDE DEF new
  <1>4. /\ \A t \in Tasks : TaskTrue(t)'
        /\ HeldOnce' /\ ToldTrue'
        /\ \A a \in Transports : SentTrue(a)'
    BY <1>1, <1>2, StagedKeeps
  <1>5. TypeOK'
    <2>1. /\ inv' \in [Invs -> {"none", "pending_delivery", "needs_reconciliation",
                                 "committed", "cancelled"}]
          /\ note' \in [Notes -> {"none", "queued", "needs_reconciliation", "pushed",
                                  "sent", "skipped"}]
          /\ op' \in [Ops -> {"none", "pending_delivery", "needs_reconciliation",
                              "committed", "undo_pending", "undone"}]
      BY <1>2 DEF TypeOK
    <2>. QED
      BY <1>1, <1>2, <2>1 DEF TypeOK, Staged, worldVars, bootVars
  <1>6. ASSUME NEW i \in Invs PROVE InvAgrees(i)'
    <2>. DEFINE S == StatesOf(row, "inv", i)
                T == StatesOf(row', "inv", i)
    <2>1. InvAgrees(i) /\ StatesOf(row, "inv", i)' = T
      BY DEF Inv, Linked
    <2>2. CASE \E a \in new : Link[a].inv = i
      <3>1. i # 0 /\ inv'[i] = "pending_delivery"
        BY <1>2, <2>2, Links
      <3>2. T = {"queued"}
        <4>1. PICK a \in new : Link[a].inv = i
          BY <2>2
        <4>2. \A c \in Actions : Link[c].inv = i => c \in new
          BY <1>1, <1>3, <3>1, <4>1
        <4>3. \A c \in Actions : Link[c].inv = i => row'[c].status = "queued"
          BY <1>1, <4>2 DEF Staged
        <4>4. "queued" \in T
          BY <1>1, <4>1, <4>3, States
        <4>5. \A s \in T : s = "queued"
          BY <4>3, States
        <4>. QED
          BY <4>4, <4>5
      <3>. HIDE DEF T
      <3>. QED
        BY <2>1, <3>1, <3>2 DEF InvAgrees, Uncertain, Waiting
    <2>3. CASE ~\E a \in new : Link[a].inv = i
      <3>1. inv'[i] = inv[i]
        BY <1>2, <2>3
      <3>2. T = S
        BY <1>1, <2>3 DEF Staged, StatesOf
      <3>. QED
        BY <2>1, <3>1, <3>2 DEF InvAgrees
    <2>. QED
      BY <2>2, <2>3
  <1>7. ASSUME NEW n \in Notes PROVE NoteAgrees(n)'
    <2>. DEFINE S == StatesOf(row, "note", n)
                T == StatesOf(row', "note", n)
    <2>1. NoteAgrees(n) /\ StatesOf(row, "note", n)' = T
      BY DEF Inv, Linked
    <2>2. CASE \E a \in new : Link[a].note = n
      <3>1. PICK a \in new : Link[a].note = n
        BY <2>2
      <3>2. T = S \cup {"queued"}
        <4>1. "queued" \in T
          BY <1>1, <3>1, States DEF Staged
        <4>2. ASSUME NEW s \in S PROVE s \in T
          <5>1. PICK c \in Actions : s # "absent" /\ Link[c].note = n /\ row[c].status = s
            BY States
          <5>2. c \notin new
            BY <1>1, <5>1 DEF Staged
          <5>. QED
            BY <1>1, <5>1, <5>2, States DEF Staged
        <4>3. ASSUME NEW s \in T, s # "queued" PROVE s \in S
          <5>1. PICK c \in Actions : s # "absent" /\ Link[c].note = n /\ row'[c].status = s
            BY States
          <5>2. c \notin new
            BY <1>1, <4>3, <5>1 DEF Staged
          <5>. QED
            BY <1>1, <5>1, <5>2, States DEF Staged
        <4>. QED
          BY <4>1, <4>2, <4>3
      <3>3. note[n] # "none" => S # {"cancelled"}
        <4>1. SUFFICES ASSUME note[n] # "none" PROVE S # {"cancelled"}
          OBVIOUS
        <4>2. PICK c \in Transports : Link[c].note = n /\ sent[c] > 0
          BY <1>2, <3>1, <4>1, Links
        <4>3. row[c].status \notin {"absent", "cancelled"}
          BY <4>2 DEF Inv, Delivering, SentTrue
        <4>4. row[c].status \in S
          BY <4>2, <4>3, Kinds, States
        <4>. QED
          BY <4>3, <4>4
      <3>4. note'[n] = IF note[n] = "none" THEN "queued" ELSE note[n]
        BY <1>2, <2>2
      <3>. HIDE DEF S, T
      <3>5. /\ "queued" \in T /\ T \cap Waiting # {}
            /\ T \cap Uncertain # {} <=> S \cap Uncertain # {}
            /\ "delivered" \in S => "delivered" \in T
        BY <3>2 DEF Waiting, Uncertain
      <3>6. CASE note[n] = "none"
        BY <2>1, <3>4, <3>5, <3>6 DEF NoteAgrees, S
      <3>7. CASE note[n] # "none"
        BY <2>1, <3>3, <3>4, <3>5, <3>7 DEF NoteAgrees, S
      <3>. QED
        BY <3>6, <3>7
    <2>3. CASE ~\E a \in new : Link[a].note = n
      <3>1. note'[n] = note[n]
        BY <1>2, <2>3
      <3>2. T = S
        BY <1>1, <2>3 DEF Staged, StatesOf
      <3>. QED
        BY <2>1, <3>1, <3>2 DEF NoteAgrees
    <2>. QED
      BY <2>2, <2>3
  <1>8. ASSUME NEW o \in Ops PROVE OpTrue(o)'
    <2>1. /\ OpTrue(o) /\ Written(o) \in Files \ Undos /\ Link[Written(o)].op = o
          /\ Files \subseteq Actions /\ Undos \subseteq Files
      BY Links, Kinds DEF Inv, Linked
    <2>2. \A u \in Undos : row'[u] = row[u]
      BY <1>1, <2>1 DEF Staged
    <2>3. {row'[u].status : u \in {v \in Undos : Link[v].op = o}}
            = {row[u].status : u \in {v \in Undos : Link[v].op = o}}
      BY <2>2
    <2>4. CASE \E a \in new : Link[a].op = o
      <3>1. PICK a \in new : Link[a].op = o
        BY <2>4
      <3>2. a \in Files
        BY <1>1, <3>1, Links, Kinds
      <3>3. a = Written(o) /\ op'[o] = "pending_delivery"
        BY <1>1, <1>2, <2>4, <3>1, <3>2, Links
      <3>4. row[a].status = "absent" /\ row'[a].status = "queued"
        BY <1>1 DEF Staged
      <3>5. \A u \in Undos : Link[u].op = o => row[u].status = "absent"
        BY <2>1, <3>3, <3>4 DEF OpTrue
      <3>6. {row[u].status : u \in {v \in Undos : Link[v].op = o}} \subseteq {"absent"}
        BY <3>5
      <3>7. OpAgrees(o)'
        BY <2>3, <3>3, <3>4, <3>6 DEF OpAgrees, Waiting, Uncertain
      <3>. QED
        BY <2>2, <3>3, <3>4, <3>5, <3>7 DEF OpTrue
    <2>5. CASE ~\E a \in new : Link[a].op = o
      <3>1. op'[o] = op[o] /\ row'[Written(o)] = row[Written(o)]
        BY <1>1, <1>2, <2>1, <2>5 DEF Staged
      <3>2. OpAgrees(o)'
        BY <2>1, <2>3, <3>1 DEF OpTrue, OpAgrees
      <3>. QED
        BY <2>1, <2>2, <3>1, <3>2 DEF OpTrue
    <2>. QED
      BY <2>4, <2>5
  <1>9. Linked'
    BY <1>6, <1>7, <1>8 DEF Linked
  <1>. QED
    BY <1>4, <1>5, <1>9 DEF Inv, Delivering

\* An undo request stages the compensation of a delivered write, once.
LEMMA CommitUndoKeeps ==
    ASSUME Inv, NEW o \in Ops, CommitUndo(o)
    PROVE  Inv'
  <1>1. /\ TypeOK /\ undoing' \subseteq Ops
        /\ UNCHANGED <<inv, note, task, told, worldVars, bootVars>>
    BY DEF CommitUndo, Inv, TypeOK
  <1>2. CASE ~Undoable(o)
    <2>1. UNCHANGED <<row, op>>
      BY <1>2 DEF CommitUndo
    <2>2. TypeOK'
      BY <1>1, <2>1 DEF TypeOK, worldVars, bootVars
    <2>3. \A a \in Transports : SentTrue(a)'
      BY <1>1, <2>1, SentKept DEF Inv, worldVars
    <2>. QED
      BY <1>1, <2>1, <2>2, <2>3, WorldKeeps DEF worldVars, linkVars
  <1>3. CASE Undoable(o)
    <2>1. PICK u \in Undos :
             /\ Link[u].op = o
             /\ row' = [row EXCEPT ![u].status = "queued", ![u].seq = NextSeq,
                          ![u].before = row[Written(o)].want,
                          ![u].want = row[Written(o)].before]
             /\ op' = [op EXCEPT ![o] = "undo_pending"]
      BY <1>3 DEF CommitUndo
    <2>2. /\ Files \subseteq Actions /\ Undos \subseteq Files /\ u \in Actions
          /\ Written(o) \in Files \ Undos /\ op[o] = "committed" /\ OpTrue(o)
      BY <1>3, Links, Kinds DEF Undoable, Inv, Linked
    <2>3. row[Written(o)].status = "delivered"
          /\ \A v \in Undos : Link[v].op = o => row[v].status = "absent"
      BY <2>2 DEF OpTrue, OpAgrees
    <2>4. row \in [Actions -> Row] /\ row[u] \in Row /\ row[Written(o)] \in Row
      BY <1>1, <2>2 DEF TypeOK
    <2>5. /\ row'[u] = [row[u] EXCEPT !.status = "queued", !.seq = NextSeq,
                           !.before = row[Written(o)].want, !.want = row[Written(o)].before]
          /\ \A a \in Actions \ {u} : row'[a] = row[a]
          /\ row' = [a \in Actions |-> row'[a]]
      BY <2>1, <2>2, <2>4
    <2>6. row'[u] \in Row /\ row'[u].status = "queued"
      <3>1. row[Written(o)].want \in Contents /\ row[Written(o)].before \in Contents
        BY <2>4 DEF Row
      <3>2. "queued" \in {"absent"} \cup Waiting \cup Uncertain \cup Final
        BY DEF Waiting
      <3>. QED
        BY <2>4, <2>5, <3>1, <3>2, NextSeqTyped DEF Row
    <2>7. Staged({u})
      <3>1. row' \in [Actions -> Row]
        BY <2>4, <2>5, <2>6
      <3>. QED
        BY <2>1, <2>2, <2>3, <2>5, <2>6, <3>1 DEF Staged
    <2>8. /\ \A t \in Tasks : TaskTrue(t)'
          /\ HeldOnce' /\ ToldTrue'
          /\ \A a \in Transports : SentTrue(a)'
      BY <1>1, <2>2, <2>7, StagedKeeps
    <2>9. op' \in [Ops -> {"none", "pending_delivery", "needs_reconciliation",
                           "committed", "undo_pending", "undone"}]
      BY <1>1, <2>1 DEF TypeOK
    <2>10. TypeOK'
      BY <1>1, <2>7, <2>9 DEF TypeOK, Staged, worldVars, bootVars
    <2>11. Link[u].inv = 0 /\ Link[u].note = 0
      BY <2>2, Links
    <2>12. ASSUME NEW i \in Invs PROVE InvAgrees(i)'
      <3>1. StatesOf(row, "inv", i)' = StatesOf(row, "inv", i)
        BY <2>5, <2>11, Links DEF StatesOf
      <3>. QED
        BY <1>1, <3>1 DEF Inv, Linked, InvAgrees
    <2>13. ASSUME NEW n \in Notes PROVE NoteAgrees(n)'
      <3>1. StatesOf(row, "note", n)' = StatesOf(row, "note", n)
        BY <2>5, <2>11, Links DEF StatesOf
      <3>. QED
        BY <1>1, <3>1 DEF Inv, Linked, NoteAgrees
    <2>14. ASSUME NEW p \in Ops PROVE OpTrue(p)'
      <3>1. /\ OpTrue(p) /\ Written(p) \in Files \ Undos
            /\ row'[Written(p)] = row[Written(p)]
        BY <2>2, <2>5, Links DEF Inv, Linked
      <3>2. CASE p = o
        <4>1. {v \in Undos : Link[v].op = o} = {u}
          BY <2>1, <2>2, LinkConstants
        <4>2. {row'[v].status : v \in {w \in Undos : Link[w].op = o}} = {"queued"}
          BY <2>6, <4>1
        <4>3. op'[o] = "undo_pending"
          BY <1>1, <2>1 DEF TypeOK
        <4>4. OpAgrees(o)'
          BY <2>3, <3>1, <3>2, <4>2, <4>3 DEF OpAgrees, Uncertain, Waiting
        <4>. QED
          BY <2>3, <3>1, <3>2, <4>3, <4>4 DEF OpTrue
      <3>3. CASE p # o
        <4>1. \A v \in Undos : Link[v].op = p => row'[v] = row[v]
          BY <2>1, <2>2, <2>5, <3>3
        <4>2. {row'[v].status : v \in {w \in Undos : Link[w].op = p}}
                = {row[v].status : v \in {w \in Undos : Link[w].op = p}}
          BY <4>1
        <4>3. op'[p] = op[p]
          BY <1>1, <2>1, <3>3 DEF TypeOK
        <4>4. OpAgrees(p)'
          BY <3>1, <4>2, <4>3 DEF OpTrue, OpAgrees
        <4>. QED
          BY <3>1, <4>1, <4>3, <4>4 DEF OpTrue
      <3>. QED
        BY <3>2, <3>3
    <2>. QED
      BY <2>8, <2>10, <2>12, <2>13, <2>14 DEF Inv, Delivering, Linked
  <1>. QED
    BY <1>2, <1>3
-----------------------------------------------------------------------------
(* The invariant of the specification.                                     *)

\* Nothing is enqueued yet.
LEMMA InvInit == Init => Inv
  <1>. SUFFICES ASSUME Init PROVE Inv
    OBVIOUS
  <1>1. /\ row = [a \in Actions |-> [status |-> "absent", token |-> 0, seq |-> 0,
                                     before |-> Absent, want |-> Absent]]
        /\ task = [t \in Tasks |-> IdleTask]
        /\ inv = [i \in Invs |-> "none"] /\ note = [n \in Notes |-> "none"]
        /\ op = [o \in Ops |-> "none"] /\ told = [c \in Codes |-> "none"]
        /\ sent = [a \in Transports |-> 0] /\ orphan = {}
    BY DEF Init
  <1>2. \A a \in Actions : row[a].status = "absent"
    BY <1>1
  <1>3. TypeOK
    <2>1. row \in [Actions -> Row]
      BY <1>1, EmptyRowTyped DEF Row
    <2>2. task \in [Tasks -> Task]
      BY <1>1, IdleTyped
    <2>3. /\ inv \in [Invs -> {"none", "pending_delivery", "needs_reconciliation",
                               "committed", "cancelled"}]
          /\ note \in [Notes -> {"none", "queued", "needs_reconciliation", "pushed",
                                 "sent", "skipped"}]
          /\ op \in [Ops -> {"none", "pending_delivery", "needs_reconciliation",
                             "committed", "undo_pending", "undone"}]
          /\ told \in [Codes -> {"none", "delivered", "failed", "uncertain"}]
          /\ sent \in [Transports -> Nat]
      BY <1>1
    <2>. QED
      BY <1>1, <2>1, <2>2, <2>3, EmptyRowTyped DEF TypeOK, Init
  <1>4. (\A t \in Tasks : TaskTrue(t)) /\ HeldOnce
    BY <1>1 DEF TaskTrue, HeldOnce, Busy, IdleTask
  <1>5. \A a \in Transports : SentTrue(a)
    BY <1>1, <1>2, Kinds DEF SentTrue
  <1>6. \A k : StatesOf(row, "inv", k) = {} /\ StatesOf(row, "note", k) = {}
    BY <1>2 DEF StatesOf
  <1>7. (\A i \in Invs : InvAgrees(i)) /\ (\A n \in Notes : NoteAgrees(n))
    BY <1>1, <1>6 DEF InvAgrees, NoteAgrees
  <1>8. ASSUME NEW o \in Ops PROVE OpTrue(o)
    <2>1. row[Written(o)].status = "absent" /\ \A u \in Undos : row[u].status = "absent"
      BY <1>2, Links, Kinds
    <2>2. {row[u].status : u \in {v \in Undos : Link[v].op = o}} \subseteq {"absent"}
      BY <2>1
    <2>3. op[o] = "none"
      BY <1>1
    <2>4. OpAgrees(o)
      BY <2>1, <2>2, <2>3 DEF OpAgrees, Uncertain
    <2>. QED
      BY <2>1, <2>3, <2>4 DEF OpTrue
  <1>9. ToldTrue
    BY <1>1 DEF ToldTrue
  <1>. QED
    BY <1>3, <1>4, <1>5, <1>7, <1>8, <1>9 DEF Inv, Delivering, Linked

\* One step of each kind.
LEMMA InvStep == Inv /\ [Next]_vars => Inv'
  <1>. SUFFICES ASSUME Inv, [Next]_vars PROVE Inv'
    OBVIOUS
  <1>1. ASSUME NEW b, Enqueue(b) PROVE Inv'
    BY <1>1, EnqueueKeeps
  <1>2. ASSUME NEW o \in Ops, PrepareUndo(o) \/ CommitUndo(o) PROVE Inv'
    BY <1>2, ProcessKeeps, CommitUndoKeeps
  <1>3. ASSUME NEW t \in Tasks, Step(t) PROVE Inv'
    BY <1>3, ClaimNextKeeps, PreflightKeeps, SendKeeps, InspectKeeps, WriteKeeps,
       RecordKeeps, RecordFailsKeeps, AnsweredKeeps DEF Step
  <1>4. ASSUME NEW a \in Files, ClaimReconciliation(a) PROVE Inv'
    BY <1>4, ClaimReconciliationKeeps
  <1>5. ASSUME Process PROVE Inv'
    BY <1>5, RecoverKeeps, ProcessKeeps, CrashKeeps, OthersKeep DEF Process
  <1>6. ASSUME NEW c \in Touched, Touch(c) PROVE Inv'
    BY <1>6, OthersKeep
  <1>7. ASSUME UNCHANGED vars PROVE Inv'
    <2>1. UNCHANGED <<row, linkVars, task, told, undoing, worldVars, bootVars>>
      BY <1>7 DEF vars
    <2>2. TypeOK'
      BY <2>1 DEF Inv, TypeOK, linkVars, worldVars, bootVars
    <2>3. \A a \in Transports : SentTrue(a)'
      BY <2>1, SentKept DEF Inv, worldVars
    <2>. QED
      BY <2>1, <2>2, <2>3, WorldKeeps DEF worldVars
  <1>. QED
    BY <1>1, <1>2, <1>3, <1>4, <1>5, <1>6, <1>7 DEF Next

\* A busy task owns the row it attempts, a row says what has happened, and the
\* records linked to it say the same, through every step of every process.
THEOREM Invariance == Spec => []Inv
  BY InvInit, InvStep, PTL DEF Spec

\* Rows, the records linked to them and what tools have been told agree, whatever
\* actions are linked to whatever records.
THEOREM RecordsStayTrue == Spec => []RecordsTrue
  <1>1. Inv => RecordsTrue
    BY DEF Inv, Linked, OpTrue, RecordsTrue, LinkedAgree
  <1>. QED
    BY <1>1, Invariance, PTL

-----------------------------------------------------------------------------
(* The rows.                                                               *)

\* How a row may change: nobody touches one that is final, and only the task that
\* has it in hand stores its receipt.
RowMoves(a) ==
    \/ row'[a] = row[a]
    \/ /\ row[a].status \notin Final
       /\ row'[a].status = "delivered" =>
            \E t \in Tasks : Record(t) /\ Act(t) = a /\ StatusOf(task[t].out) = "delivered"

\* Each step moves a row in one of the ways of RowMoves, or leaves it.
LEMMA RowSteps ==
    ASSUME Inv, [Next]_vars, NEW a \in Actions
    PROVE  RowMoves(a)
  <1>1. CASE row' = row
    BY <1>1 DEF RowMoves
  <1>2. ASSUME NEW b, Enqueue(b) PROVE RowMoves(a)
    <2>. DEFINE new == {c \in Actions : Batch[c] = b}
    <2>1. Staged(new)
      BY <1>2, EnqueuedRows
    <2>. HIDE DEF new
    <2>. QED
      BY <2>1 DEF RowMoves, Staged, Final
  <1>3. ASSUME NEW o \in Ops, CommitUndo(o) PROVE RowMoves(a)
    <2>1. CASE ~Undoable(o)
      BY <1>1, <1>3, <2>1 DEF CommitUndo
    <2>2. CASE Undoable(o)
      <3>1. PICK u \in Undos :
               /\ Link[u].op = o
               /\ row' = [row EXCEPT ![u].status = "queued", ![u].seq = NextSeq,
                            ![u].before = row[Written(o)].want,
                            ![u].want = row[Written(o)].before]
        BY <1>3, <2>2 DEF CommitUndo
      <3>2. row \in [Actions -> Row] /\ row[u] \in Row /\ u \in Actions
        BY Kinds DEF Inv, TypeOK
      <3>3. OpTrue(o) /\ op[o] = "committed"
        BY <2>2 DEF Undoable, Inv, Linked
      <3>4. row[u].status = "absent"
        BY <3>1, <3>3 DEF OpTrue, OpAgrees
      <3>5. row'[u].status = "queued" /\ (a # u => row'[a] = row[a])
        BY <3>1, <3>2 DEF Row
      <3>. QED
        BY <3>4, <3>5 DEF RowMoves, Final
    <2>. QED
      BY <2>1, <2>2
  <1>4. ASSUME NEW t \in Tasks, NEW c \in Actions, ClaimNext(t, c) PROVE RowMoves(a)
    <2>1. row' = Claimed(c) /\ row[c].status \in Waiting /\ row \in [Actions -> Row] /\ row[c] \in Row
      BY <1>4 DEF ClaimNext, Due, Inv, TypeOK
    <2>2. row'[c].status = "delivering" /\ (a # c => row'[a] = row[a])
      BY <2>1 DEF Claimed, Row
    <2>. QED
      BY <2>1, <2>2 DEF RowMoves, Waiting, Final
  <1>5. ASSUME NEW c \in Files, ClaimReconciliation(c) PROVE RowMoves(a)
    <2>1. row' = Claimed(c) /\ row[c].status \in Uncertain /\ row \in [Actions -> Row]
          /\ row[c] \in Row
      BY <1>5, Kinds DEF ClaimReconciliation, Reconcilable, Inv, TypeOK
    <2>2. row'[c].status = "delivering" /\ (a # c => row'[a] = row[a])
      BY <2>1, Kinds DEF Claimed, Row
    <2>. QED
      BY <2>1, <2>2 DEF RowMoves, Uncertain, Final
  <1>6. ASSUME NEW t \in Tasks, Record(t) PROVE RowMoves(a)
    <2>1. /\ Moved(Act(t), StatusOf(task[t].out)) /\ row[Act(t)].status \in Uncertain
          /\ Act(t) \in Actions
      BY <1>6, RecordRow
    <2>. QED
      BY <1>6, <2>1 DEF RowMoves, Moved, Uncertain, Final
  <1>7. ASSUME Recover PROVE RowMoves(a)
    <2>1. \/ row'[a] = row[a]
          \/ /\ row'[a] = [row[a] EXCEPT !.status = "needs_reconciliation"]
             /\ row[a].status = "delivering"
      BY <1>7 DEF Recover, Interrupted
    <2>2. row[a] \in Row
      BY DEF Inv, TypeOK
    <2>. QED
      BY <2>1, <2>2 DEF RowMoves, Row, Final
  <1>8. ASSUME NEW t \in Tasks, Step(t) PROVE RowMoves(a)
    BY <1>1, <1>4, <1>6, <1>8 DEF Step, Preflight, Send, Inspect, Check, Publish, Verify,
       RecordFails, Answered, ClaimFails
  <1>9. ASSUME Process PROVE RowMoves(a)
    BY <1>1, <1>7, <1>9 DEF Process, Started, Crash, Stop, CancelDispatcher, OrphanActs, OrphanEnds
  <1>10. ASSUME NEW o \in Ops, PrepareUndo(o) PROVE RowMoves(a)
    BY <1>1, <1>10 DEF PrepareUndo
  <1>11. ASSUME NEW c \in Touched, Touch(c) PROVE RowMoves(a)
    BY <1>1, <1>11 DEF Touch
  <1>12. ASSUME UNCHANGED vars PROVE RowMoves(a)
    BY <1>1, <1>12 DEF vars
  <1>. QED
    BY <1>2, <1>3, <1>5, <1>8, <1>9, <1>10, <1>11, <1>12 DEF Next

\* A delivery is never taken back, retried or reconciled again, by no undo
\* request, recovery or late task.
THEOREM ReceiptsFinal == Spec => DeliveryIsFinal
  <1>1. Inv /\ [Next]_vars
          => [\A a \in Actions : row[a].status \in Final => row'[a] = row[a]]_row
    BY RowSteps DEF RowMoves
  <1>. QED
    BY <1>1, Invariance, PTL DEF Spec, DeliveryIsFinal

-----------------------------------------------------------------------------
(* The file.                                                               *)

\* A file that nobody else has written changes by a publication over its base.
LEMMA FileSteps ==
    ASSUME Inv, [Next]_vars, alone', file' # file
    PROVE  \E a \in Files : /\ row[a].status = "delivering"
                            /\ file = row[a].before
                            /\ file' = row[a].want
  <1>1. PICK t \in Tasks : Publish(t)
    <2>1. ~UNCHANGED worldVars /\ ~UNCHANGED vars
      BY DEF vars, worldVars
    <2>2. ASSUME NEW a, OrphanActs(a) PROVE FALSE
      BY <2>2 DEF OrphanActs
    <2>3. ASSUME NEW c, Touch(c) PROVE FALSE
      BY <2>3 DEF Touch
    <2>4. ~Process
      BY <2>1, <2>2 DEF Process, Recover, Started, Crash, Stop, CancelDispatcher, OrphanEnds
    <2>5. /\ \A b : ~Enqueue(b)
          /\ \A o : ~PrepareUndo(o) /\ ~CommitUndo(o)
          /\ \A a : ~ClaimReconciliation(a)
      BY <2>1 DEF Enqueue, PrepareUndo, CommitUndo, ClaimReconciliation
    <2>6. PICK t \in Tasks : Step(t)
      BY <2>1, <2>3, <2>4, <2>5 DEF Next
    <2>. QED
      BY <2>1, <2>6 DEF Step, ClaimNext, Preflight, Send, Inspect, Check, Verify, Record,
         RecordFails, Answered, ClaimFails
  <1>2. Act(t) \in Files /\ FileTaskTrue(t)
    BY <1>1, Writer DEF Publish
  <1>3. alone /\ file' = Want(t)
    BY <1>1 DEF Publish
  <1>. QED
    BY <1>1, <1>2, <1>3 DEF FileTaskTrue, Publish, Want, Before

\* As long as nobody else has written to the file, it follows the rows: it changes
\* only from the version an action was prepared on to the one it was to write, and
\* a receipt is stored only while the file shows that.
THEOREM FileFollows == Spec => FileFollowsIntents
  <1>1. Inv /\ [Next]_vars
          => [alone' => \E a \in Files : /\ row[a].status = "delivering"
                                         /\ file = row[a].before
                                         /\ file' = row[a].want]_file
    BY FileSteps
  <1>2. ASSUME Inv, [Next]_vars, alone, NEW a \in Files,
               row'[a].status = "delivered", row[a].status # "delivered"
        PROVE  file = row[a].want
    <2>1. RowMoves(a)
      BY <1>2, RowSteps, Kinds
    <2>2. PICK t \in Tasks : Record(t) /\ Act(t) = a /\ StatusOf(task[t].out) = "delivered"
      BY <1>2, <2>1 DEF RowMoves
    <2>3. Busy(t) /\ TaskTrue(t)
      BY <1>2, <2>2, RecordRow
    <2>4. FileTaskTrue(t) /\ task[t].pc = "record"
      BY <1>2, <2>2, <2>3 DEF TaskTrue, Record
    <2>5. task[t].out = "delivered"
      BY <2>2, <2>4 DEF FileTaskTrue, StatusOf
    <2>. QED
      BY <1>2, <2>2, <2>4, <2>5 DEF FileTaskTrue, Want
  <1>3. Inv /\ [Next]_vars
          => [alone => \A a \in Files :
                 row'[a].status = "delivered" /\ row[a].status # "delivered"
                     => file = row[a].want]_row
    BY <1>2
  <1>4. Spec => PublishesOverBase
    BY <1>1, Invariance, PTL DEF Spec, PublishesOverBase
  <1>5. Spec => DeliveredIsVisible
    BY <1>3, Invariance, PTL DEF Spec, DeliveredIsVisible
  <1>. QED
    BY <1>4, <1>5 DEF FileFollowsIntents
-----------------------------------------------------------------------------
(* The promise.                                                            *)

\* What AtMostOnceEffect sees of the rows.
Phases == [a \in Transports |-> Phase(a)]

\* A transport's phase is read off its status.
LEMMA PhaseOf ==
    ASSUME row \in [Actions -> Row], NEW a \in Transports
    PROVE  /\ Phases[a] = Phase(a)
           /\ Phase(a) = "none" <=> row[a].status = "absent"
           /\ Phase(a) = "intended" <=> row[a].status \in Waiting
           /\ Phase(a) = "fenced" <=> row[a].status \in Uncertain
           /\ Phase(a) = "delivered" <=> row[a].status = "delivered"
           /\ Phase(a) = "cancelled" <=> row[a].status = "cancelled"
  <1>1. row[a].status \in {"absent"} \cup Waiting \cup Uncertain \cup Final
    BY Kinds DEF Row
  <1>2. Phases[a] = Phase(a)
    BY DEF Phases
  <1>. QED
    BY <1>1, <1>2 DEF Phase, Waiting, Uncertain, Final

\* Steps that change no phase and no effect.
LEMMA Stutters ==
    ASSUME \A a \in Transports : Phase(a)' = Phase(a), sent' = sent
    PROVE  UNCHANGED Promise!vars
  BY DEF Promise!vars

\* One transport changes its phase.
LEMMA OnePhase ==
    ASSUME NEW a \in Transports, \A b \in Transports \ {a} : Phase(b)' = Phase(b)
    PROVE  Promise!To(a, Phase(a)')
  BY DEF Promise!To

\* An effect happens behind its fence, for the first time.
LEMMA HappenStep ==
    ASSUME Inv, NEW a \in Transports, row[a].status \in Uncertain, sent[a] = 0,
           row' = row, sent' = [sent EXCEPT ![a] = 1]
    PROVE  Promise!Next
  <1>1. [b \in Transports |-> Phase(b)][a] = "fenced"
    BY PhaseOf DEF Inv, TypeOK, Phases
  <1>2. [b \in Transports |-> Phase(b)]' = [b \in Transports |-> Phase(b)]
    BY DEF Phase
  <1>3. Promise!Happen(a)
    BY <1>1, <1>2 DEF Promise!Happen
  <1>. QED
    BY <1>3 DEF Promise!Next

\* One transport's row changes.
LEMMA MovedStep ==
    ASSUME Inv, NEW a \in Actions, NEW status, Moved(a, status), sent' = sent,
           \/ a \in Files
           \/ row[a].status \in Waiting /\ status \in Uncertain
           \/ row[a].status \in Uncertain /\ status \in Uncertain
           \/ row[a].status \in Uncertain /\ status = "delivered" /\ sent[a] = 1
           \/ row[a].status \in Uncertain /\ status \in {"retry_pending", "cancelled"}
              /\ sent[a] = 0
    PROVE  [Promise!Next]_(Promise!vars)
  <1>1. row \in [Actions -> Row] /\ row' \in [Actions -> Row]
    BY DEF Inv, TypeOK, Moved
  <1>2. \A b \in Transports \ {a} : Phase(b)' = Phase(b)
    BY Kinds DEF Moved, Phase
  <1>3. CASE a \in Files
    BY <1>2, <1>3, Stutters, Kinds
  <1>4. CASE a \in Transports
    <2>1. Promise!To(a, Phase(a)') /\ [b \in Transports |-> Phase(b)][a] = Phase(a)
      BY <1>2, <1>4, OnePhase
    <2>2. /\ Phase(a) = "intended" <=> row[a].status \in Waiting
          /\ Phase(a) = "fenced" <=> row[a].status \in Uncertain
      BY <1>1, <1>4, PhaseOf
    <2>3. /\ status \in Uncertain => Phase(a)' = "fenced"
          /\ status = "delivered" => Phase(a)' = "delivered"
          /\ status = "cancelled" => Phase(a)' = "cancelled"
          /\ status = "retry_pending" => Phase(a)' = "intended"
      BY <1>4 DEF Phase, Moved, Waiting, Uncertain
    <2>4. CASE row[a].status \in Waiting /\ status \in Uncertain
      <3>1. Promise!Fence(a)
        BY <2>1, <2>2, <2>3, <2>4 DEF Promise!Fence
      <3>. QED
        BY <1>4, <3>1 DEF Promise!Next
    <2>5. CASE row[a].status \in Uncertain /\ status \in Uncertain
      <3>1. \A b \in Transports : Phase(b)' = Phase(b)
        BY <1>2, <2>2, <2>3, <2>5
      <3>. QED
        BY <3>1, Stutters
    <2>6. CASE row[a].status \in Uncertain /\ status = "delivered" /\ sent[a] = 1
      <3>1. Promise!Deliver(a)
        BY <2>1, <2>2, <2>3, <2>6 DEF Promise!Deliver
      <3>. QED
        BY <1>4, <3>1 DEF Promise!Next
    <2>7. CASE /\ row[a].status \in Uncertain /\ status \in {"retry_pending", "cancelled"}
               /\ sent[a] = 0
      <3>1. Promise!Abandon(a)
        BY <2>1, <2>2, <2>3, <2>7 DEF Promise!Abandon
      <3>. QED
        BY <1>4, <3>1 DEF Promise!Next
    <2>. QED
      BY <1>4, <2>4, <2>5, <2>6, <2>7, Kinds
  <1>. QED
    BY <1>3, <1>4, Kinds

\* The intents of one tool call are intended together.
LEMMA StagedStep ==
    ASSUME Inv, NEW A \in SUBSET Actions, Staged(A), sent' = sent
    PROVE  [Promise!Next]_(Promise!vars)
  <1>. DEFINE E == A \cap Transports
  <1>1. row \in [Actions -> Row]
    BY DEF Inv, TypeOK
  <1>2. \A a \in E : Phase(a) = "none" /\ Phase(a)' = "intended"
    BY DEF Phase, Staged, Waiting, Uncertain
  <1>3. \A a \in Transports \ E : Phase(a)' = Phase(a)
    BY Kinds DEF Phase, Staged
  <1>4. Promise!Intend(E)
    BY <1>2, <1>3 DEF Promise!Intend
  <1>5. E \in SUBSET Transports
    OBVIOUS
  <1>. QED
    BY <1>4, <1>5 DEF Promise!Next

\* Steps between transactions: only an attempt has an effect.
LEMMA AttemptStep ==
    ASSUME Inv, row' = row, NEW a \in Transports, row[a].status \in Uncertain, sent[a] = 0,
           sent' \in {sent, [sent EXCEPT ![a] = @ + 1]}
    PROVE  [Promise!Next]_(Promise!vars)
  <1>1. CASE sent' = sent
    BY <1>1, Stutters DEF Phase
  <1>2. CASE sent' = [sent EXCEPT ![a] = @ + 1]
    <2>1. sent' = [sent EXCEPT ![a] = 1]
      BY <1>2 DEF Inv, TypeOK
    <2>. QED
      BY <2>1, HappenStep
  <1>. QED
    BY <1>1, <1>2

\* Each step of the outbox is one of the promise, or none.
LEMMA PromiseStep == Inv /\ [Next]_vars => [Promise!Next]_(Promise!vars)
  <1>. SUFFICES ASSUME Inv, [Next]_vars PROVE [Promise!Next]_(Promise!vars)
    OBVIOUS
  <1>1. CASE row' = row /\ sent' = sent
    BY <1>1, Stutters DEF Phase
  <1>2. ASSUME NEW b, Enqueue(b) PROVE [Promise!Next]_(Promise!vars)
    <2>. DEFINE new == {c \in Actions : Batch[c] = b}
    <2>1. Staged(new) /\ new \in SUBSET Actions /\ sent' = sent
      BY <1>2, EnqueuedRows DEF Enqueue, worldVars
    <2>. HIDE DEF new
    <2>. QED
      BY <2>1, StagedStep
  <1>3. ASSUME NEW o \in Ops, CommitUndo(o) PROVE [Promise!Next]_(Promise!vars)
    <2>1. \A a \in Transports : row'[a] = row[a]
      <3>1. \/ row' = row
            \/ \E u \in Undos : row' = [row EXCEPT ![u].status = "queued", ![u].seq = NextSeq,
                                       ![u].before = row[Written(o)].want,
                                       ![u].want = row[Written(o)].before]
        BY <1>3 DEF CommitUndo
      <3>2. row \in [Actions -> Row]
        BY DEF Inv, TypeOK
      <3>. SUFFICES ASSUME NEW a \in Transports PROVE row'[a] = row[a]
        OBVIOUS
      <3>3. a \in Actions /\ \A u \in Undos : a # u
        BY Kinds
      <3>. QED
        BY <3>1, <3>2, <3>3
    <2>2. sent' = sent
      BY <1>3 DEF CommitUndo, worldVars
    <2>. QED
      BY <2>1, <2>2, Stutters DEF Phase
  <1>4. ASSUME NEW t \in Tasks, NEW a \in Actions, ClaimNext(t, a)
        PROVE  [Promise!Next]_(Promise!vars)
    <2>1. /\ row' = Claimed(a) /\ row[a].status \in Waiting /\ sent' = sent
          /\ row \in [Actions -> Row] /\ row[a] \in Row
      BY <1>4 DEF ClaimNext, Due, Inv, TypeOK, worldVars
    <2>2. \A b \in Actions \ {a} : row'[b] = row[b]
      BY <2>1 DEF Claimed
    <2>3. Moved(a, "delivering")
      <3>. DEFINE pc == IF a \in Files THEN "check" ELSE "send"
      <3>1. TypeOK /\ pc \in {"send", "check", "inspect"} /\ Starts(t, a, pc, "dispatch")
        BY <1>4 DEF ClaimNext, Inv
      <3>. HIDE DEF pc
      <3>. QED
        BY <2>1, <3>1, ClaimedRow
    <2>. QED
      BY <2>1, <2>3, MovedStep DEF Uncertain
  <1>5. ASSUME NEW a \in Files, ClaimReconciliation(a) PROVE [Promise!Next]_(Promise!vars)
    <2>1. \A b \in Transports : row'[b] = row[b]
      BY <1>5, Kinds DEF ClaimReconciliation, Claimed, Inv, TypeOK
    <2>2. sent' = sent
      BY <1>5 DEF ClaimReconciliation, worldVars
    <2>. QED
      BY <2>1, <2>2, Stutters DEF Phase
  <1>6. ASSUME NEW t \in Tasks, Send(t) PROVE [Promise!Next]_(Promise!vars)
    <2>1. Act(t) \in Transports /\ TransportTaskTrue(t) /\ task[t].pc = "send"
      BY <1>6, Sender DEF Send
    <2>2. row' = row /\ sent' \in {sent, [sent EXCEPT ![Act(t)] = @ + 1]}
      BY <1>6 DEF Send
    <2>. QED
      BY <2>1, <2>2, AttemptStep DEF TransportTaskTrue
  <1>7. ASSUME NEW t \in Tasks, Record(t) PROVE [Promise!Next]_(Promise!vars)
    <2>. DEFINE a == Act(t)
                status == StatusOf(task[t].out)
    <2>1. /\ Moved(a, status) /\ a \in Actions /\ row[a].status \in Uncertain
          /\ status \in {"delivered", "cancelled", "needs_reconciliation", "retry_pending"}
          /\ a \in Transports =>
               /\ status = "delivered" => sent[a] = 1
               /\ status \in {"cancelled", "retry_pending"} => sent[a] = 0
      BY <1>7, RecordRow
    <2>2. sent' = sent
      BY <1>7 DEF Record, worldVars
    <2>. HIDE DEF a, status
    <2>. QED
      BY <2>1, <2>2, MovedStep, Kinds DEF Uncertain
  <1>8. ASSUME Recover PROVE [Promise!Next]_(Promise!vars)
    <2>1. sent' = sent
      BY <1>8 DEF Recover, worldVars
    <2>2. ASSUME NEW a \in Transports PROVE Phase(a)' = Phase(a)
      <3>1. \/ row'[a] = row[a]
            \/ /\ row'[a] = [row[a] EXCEPT !.status = "needs_reconciliation"]
               /\ row[a].status = "delivering"
        BY <1>8, Kinds DEF Recover, Interrupted
      <3>2. row[a] \in Row
        BY Kinds DEF Inv, TypeOK
      <3>. QED
        BY <3>1, <3>2 DEF Row, Phase, Uncertain, Waiting
    <2>. QED
      BY <2>1, <2>2, Stutters
  <1>9. ASSUME NEW a \in orphan, OrphanActs(a) PROVE [Promise!Next]_(Promise!vars)
    <2>1. a \in Actions /\ row' = row /\ sent \in [Transports -> Nat]
          /\ sent' = [b \in Transports |-> IF b = a THEN sent[b] + 1 ELSE sent[b]]
      BY <1>9 DEF OrphanActs, Inv, TypeOK
    <2>2. CASE a \in Files
      <3>1. sent' = sent
        BY <2>1, <2>2, Kinds
      <3>. QED
        BY <1>1, <2>1, <3>1
    <2>3. CASE a \in Transports
      <3>1. row[a].status \in Uncertain /\ sent[a] = 0
        BY <1>9, <2>3 DEF OrphanActs, Inv, Delivering, SentTrue
      <3>2. sent' = [sent EXCEPT ![a] = @ + 1]
        BY <2>1, <2>3
      <3>. QED
        BY <2>1, <2>3, <3>1, <3>2, AttemptStep
    <2>. QED
      BY <2>1, <2>2, <2>3, Kinds
  <1>10. ASSUME NEW t \in Tasks, Step(t) PROVE [Promise!Next]_(Promise!vars)
    BY <1>1, <1>4, <1>6, <1>7, <1>10 DEF Step, Preflight, Inspect, Check, Publish, Verify,
       RecordFails, Answered, ClaimFails, worldVars
  <1>11. ASSUME Process PROVE [Promise!Next]_(Promise!vars)
    BY <1>1, <1>8, <1>9, <1>11 DEF Process, Started, Crash, Stop, CancelDispatcher, OrphanEnds,
       worldVars
  <1>12. ASSUME NEW o \in Ops, PrepareUndo(o) PROVE [Promise!Next]_(Promise!vars)
    BY <1>1, <1>12 DEF PrepareUndo, worldVars
  <1>13. ASSUME NEW c \in Touched, Touch(c) PROVE [Promise!Next]_(Promise!vars)
    BY <1>1, <1>13 DEF Touch
  <1>14. ASSUME UNCHANGED vars PROVE [Promise!Next]_(Promise!vars)
    BY <1>1, <1>14 DEF vars, worldVars
  <1>. QED
    BY <1>2, <1>3, <1>5, <1>10, <1>11, <1>12, <1>13, <1>14 DEF Next

\* The outbox implements AtMostOnceEffect: a mail, a push or a piece of code is sent
\* at most once, and its row says that it was delivered, or takes it back, only if
\* that is so.
THEOREM EffectsOnce == Spec => EffectsAtMostOnce
  <1>1. Init => Promise!Init
    <2>. SUFFICES ASSUME Init PROVE Promise!Init
      OBVIOUS
    <2>1. \A a \in Transports : Phase(a) = "none"
      BY Kinds DEF Init, Phase, Waiting, Uncertain
    <2>2. sent = [e \in Transports |-> 0]
      BY DEF Init
    <2>. QED
      BY <2>1, <2>2 DEF Promise!Init
  <1>. QED
    BY <1>1, PromiseStep, Invariance, PTL DEF Spec, EffectsAtMostOnce, Promise!Spec
=============================================================================
