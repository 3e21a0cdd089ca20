---------------------------- MODULE SessionQueue ----------------------------
(* The queue of a chat session: messages the learner queues, steers that   *)
(* come too late and mail replies wait in queued_messages until a Run of   *)
(* the session ends, whose terminal transaction makes the next Run out of  *)
(* the head. Positions are unique within a session under an index SQLite   *)
(* checks row by row; every mutation carries the version its client read.  *)
(* A queued reply to an intervention is checked again when it leaves.      *)
(*                                                                         *)
(* Every handler here holds the SQLite writer from its first read, so it   *)
(* is one action; archiving reads without the writer, so it is two.        *)
(* A Run made out of a message is named by that message, and one made by   *)
(* an edit by the new wording.                                             *)
EXTENDS Naturals, FiniteSets, FiniteSetsExt, Sequences, SequencesExt

CONSTANTS
    Sessions, Plans, Interventions,
    Messages,    \* inputs of the learner: texts, steers and mail replies
    Beats,       \* heartbeats of the scheduler, which have no session
    Tabs,        \* browser tabs, each with the queue it last loaded
    PlanOf,      \* the plan a session is focused on, or None
    SessionOf,   \* the session an intervention belongs to
    Modes,       \* execution modes that clients ask for
    None,
    Channels,    \* the ways in that the instance opens (a bound)
    MaxVersion   \* versions of a queue row (a bound)

ASSUME QueueAssumption ==
    /\ PlanOf \in [Sessions -> Plans \cup {None}]
    /\ SessionOf \in [Interventions -> Sessions]
    /\ Modes \subseteq {"normal", "read_only"}
    /\ None \notin Sessions \cup Plans \cup Interventions \cup Messages \cup Beats

\* The rows of a queue are finitely many; a heartbeat is not a message.
ASSUME MessagesAssumption == IsFiniteSet(Messages) /\ Messages \cap Beats = {}

\* A row of queued_messages, and what a tab remembers of one.
ItemRow == [session : Sessions, reply : Interventions \cup {None},
            mode : {"normal", "read_only"}, mail : BOOLEAN,
            pos : Nat, version : Nat, text : Nat]

Seen == [id : Messages, row : ItemRow]

ASSUME NoneIsNoRow == None \notin ItemRow \cup Seen

VARIABLES
    item,       \* queued_messages, by message: None or the row
    place,      \* what became of each message
    run,        \* agent_runs, root Runs only
    iv,         \* state and outcome of each intervention
    archived,   \* archived sessions and plans
    archiving,  \* archive requests that have read the queue and the Runs
    view,       \* the row each tab would mutate, as it loaded it
    raised      \* the unexpected error of the last rolled back transaction

vars == <<item, place, run, iv, archived, archiving, view, raised>>

Runs == Messages \cup Beats
Live == {"running", "finalizing", "needs_reconciliation"}
Ended == {"completed", "failed", "cancelled"}
Open == {"active", "replied"}

RunRow == [status : {"absent"} \cup Live \cup Ended,
           session : Sessions \cup {None}, plan : Plans \cup {None},
           reply : Interventions \cup {None},
           mode : {"normal", "read_only"}, steers : Seq(Messages),
           edit : BOOLEAN]    \* the Run repeats an edited message

NoRun == [status |-> "absent", session |-> None, plan |-> None, reply |-> None,
          mode |-> "normal", steers |-> <<>>, edit |-> FALSE]

Init ==
    /\ item = [m \in Messages |-> None]
    /\ place = [m \in Messages |-> "new"]
    /\ run = [r \in Runs |-> NoRun]
    /\ iv = [i \in Interventions |-> "active"]
    /\ archived = {}
    /\ archiving = {}
    /\ view = [t \in Tabs |-> None]
    /\ raised = "none"

-----------------------------------------------------------------------------
(* The rows of one session and their positions.                            *)

In(it, s) == {m \in Messages : it[m] # None /\ it[m].session = s}

Positions(it, s) == {it[m].pos : m \in In(it, s)}

NextPosition(it, s) ==
    IF In(it, s) = {} THEN 0 ELSE Max(Positions(it, s)) + 1

First(it, s) ==
    CHOOSE m \in In(it, s) : \A n \in In(it, s) : it[m].pos <= it[n].pos

\* The messages of a session in the order of their positions.
Ordered(it, s) ==
    [k \in 1..Cardinality(In(it, s)) |->
        CHOOSE m \in In(it, s) :
            Cardinality({n \in In(it, s) : it[n].pos < it[m].pos}) = k - 1]

\* The list q, in which m is once, without m.
Without(q, m) == RemoveAt(q, CHOOSE k \in DOMAIN q : q[k] = m)

\* One UPDATE gives the rows in DOMAIN new other positions, row by row and in
\* an order the code does not choose: it fails if a row can meet a position
\* that another row of the session still has, or already has.
Clash(it, s, new) ==
    \E m \in DOMAIN new : \E n \in In(it, s) \ {m} :
        \/ new[m] = it[n].pos
        \/ n \in DOMAIN new /\ new[m] = new[n]

SetPositions(it, new) ==
    [m \in Messages |->
        IF m \in DOMAIN new THEN [it[m] EXCEPT !.pos = new[m]] ELSE it[m]]

Bump(it, moved) ==
    [m \in Messages |->
        IF m \in moved THEN [it[m] EXCEPT !.version = @ + 1] ELSE it[m]]

\* A compaction in one UPDATE, row by row.
CompactAtOnce(it, s, gap) ==
    LET down == [m \in {n \in In(it, s) : it[n].pos > gap} |-> it[m].pos - 1]
    IN  [items |-> Bump(SetPositions(it, down), DOMAIN down),
         clash |-> Clash(it, s, down)]

\* A compaction that fills the gap with the last row.
CompactByLast(it, s, gap) ==
    LET last == {m \in In(it, s) : it[m].pos > gap /\ it[m].pos = Max(Positions(it, s))}
    IN  [items |-> Bump(SetPositions(it, [m \in last |-> gap]), last), clash |-> FALSE]

\* A compaction that does not tell the tabs.
CompactSilently(it, s, gap) ==
    LET down == [m \in {n \in In(it, s) : it[n].pos > gap} |-> it[m].pos - 1]
    IN  [items |-> SetPositions(it, down), clash |-> FALSE]

\* compact_queue_after_removal: rows behind the gap jump over the live range,
\* then come down by one more than they went up.
CompactQueue(it, s, gap) ==
    LET offset == NextPosition(it, s)
        tail == {m \in In(it, s) : it[m].pos > gap}
        up == [m \in tail |-> it[m].pos + offset]
        lifted == Bump(SetPositions(it, up), tail)
        back == {m \in In(it, s) : lifted[m].pos > gap + offset}
        down == [m \in back |-> lifted[m].pos - offset - 1]
    IN  IF tail = {}
          THEN [items |-> it, clash |-> FALSE]
          ELSE [items |-> SetPositions(lifted, down),
                clash |-> Clash(it, s, up) \/ Clash(lifted, s, down)]

\* reorder_queue: every row jumps over the live range, then the rows take
\* 0, 1, 2, ... one UPDATE at a time.
ReorderQueue(it, s, order) ==
    LET rows == ToSet(order)
        offset == Max({it[m].pos : m \in rows}) + Len(order) + 1
        up == [m \in rows |-> it[m].pos + offset]
        lifted == Bump(SetPositions(it, up), rows)
        down == [m \in rows |-> (CHOOSE k \in DOMAIN order : order[k] = m) - 1]
    IN  [items |-> SetPositions(lifted, down),
         clash |-> \/ Clash(it, s, up)
                   \/ \E j, k \in DOMAIN order : j < k /\ j - 1 = lifted[order[k]].pos]

Row(s, reply, mode, mail, pos) ==
    [session |-> s, reply |-> reply, mode |-> mode, mail |-> mail, pos |-> pos,
     version |-> 1, text |-> 0]

-----------------------------------------------------------------------------
(* Scopes of root Runs and reply targets.                                  *)

\* Only what the unique index of live Runs knows.
ScopeIndexed(rr, s, p) ==
    ~ \E r \in Runs :
        /\ rr[r].status \in Live \ {"needs_reconciliation"}
        /\ rr[r].plan = p
        /\ p = None => rr[r].session = s

\* ensure_root_scope_available: a plan has one live root Run, and so has a
\* session without a plan; a fenced Run still owns its scope.
ScopeFree(rr, s, p) ==
    ~ \E r \in Runs :
        /\ rr[r].status \in Live
        /\ rr[r].plan = p
        /\ p = None => rr[r].session = s

\* The check of /runs, /send and archiving: no live root Run in the session.
SessionIdle(rr, s) == ~ \E r \in Runs : rr[r].status \in Live /\ rr[r].session = s

\* validate_intervention_reply_scope
ReplyAllowed(ivs, i, s) == i # None => SessionOf[i] = s /\ ivs[i] \in Open

\* _ensure_intervention_reply_not_inflight
NotInflight(i) ==
    i # None =>
       /\ \A m \in Messages : item[m] # None => item[m].reply # i
       /\ \A r \in Runs : run[r].status \in Live => run[r].reply # i

\* accept_intervention_reply
Accept(ivs, i) ==
    IF i # None /\ ivs[i] = "active" THEN [ivs EXCEPT ![i] = "replied"] ELSE ivs

NewRun(s, p, i, mode) ==
    [status |-> "running", session |-> s, plan |-> p, reply |-> i,
     mode |-> mode, steers |-> <<>>, edit |-> FALSE]

\* The errors of dispatch_queued_message that its caller contains.
Refused(rr, ivs, row) ==
    \/ /\ row.mode # "read_only"
       /\ row.session \in archived \/ PlanOf[row.session] \in archived
    \/ ~ReplyAllowed(ivs, row.reply, row.session)
    \/ ~ScopeFree(rr, row.session, PlanOf[row.session])

\* The errors it does not contain. A mail job refers to its queue row with ON
\* DELETE RESTRICT and is never deleted, so the row cannot be deleted either.
Removal(it, m) ==
    LET c == CompactQueue([it EXCEPT ![m] = None], it[m].session, it[m].pos)
    IN  [items |-> c.items,
         error |-> IF it[m].mail THEN "foreign_key"
                   ELSE IF c.clash THEN "position" ELSE "none"]

\* The transaction raised and was rolled back.
Abort(why) ==
    /\ raised' = why
    /\ UNCHANGED <<item, place, run, iv, archived, archiving, view>>

\* dispatch_queued_message in the transaction of its caller, whose Runs,
\* interventions and rows are rr, ivs and it so far.
Dispatch(rr, ivs, it, m) ==
    LET row == it[m] IN
    /\ item' = Removal(it, m).items
    /\ iv' = Accept(ivs, row.reply)
    /\ run' = [rr EXCEPT ![m] =
                 NewRun(row.session, PlanOf[row.session], row.reply, row.mode)]

-----------------------------------------------------------------------------
(* Messages come in.                                                       *)

\* POST /runs: the learner's message starts a Run at once.
CreateRun(m, s, i, mode) ==
    /\ "run" \in Channels
    /\ place[m] = "new"
    /\ s \notin archived /\ PlanOf[s] \notin archived
    /\ SessionIdle(run, s)
    /\ ScopeFree(run, s, PlanOf[s])
    /\ ReplyAllowed(iv, i, s) /\ NotInflight(i)
    /\ iv' = Accept(iv, i)
    /\ run' = [run EXCEPT ![m] = NewRun(s, PlanOf[s], i, mode)]
    /\ place' = [place EXCEPT ![m] = "run"]
    /\ UNCHANGED <<item, archived, archiving, view, raised>>

\* POST /queue
Enqueue(m, s, i, mode) ==
    /\ place[m] = "new"
    /\ mode = "read_only" \/ (s \notin archived /\ PlanOf[s] \notin archived)
    /\ ReplyAllowed(iv, i, s) /\ NotInflight(i)
    /\ iv' = Accept(iv, i)
    /\ item' = [item EXCEPT ![m] = Row(s, i, mode, FALSE, NextPosition(item, s))]
    /\ place' = [place EXCEPT ![m] = "queued"]
    /\ UNCHANGED <<run, archived, archiving, view, raised>>

\* A mail reply to an open intervention (EmailReplyPoller.poll): a receipt
\* when the plan is archived, a queue row when the scope is busy, else a Run.
MailReply(m, i) ==
    /\ "mail" \in Channels
    /\ place[m] = "new"
    /\ iv[i] \in Open
    /\ LET s == SessionOf[i]
           p == PlanOf[s]
       IN  \/ /\ p # None /\ p \in archived
              /\ iv' = [iv EXCEPT ![i] = "receipt"]
              /\ place' = [place EXCEPT ![m] = "receipt"]
              /\ UNCHANGED <<item, run>>
           \/ /\ p = None \/ p \notin archived
              /\ ~ScopeFree(run, s, p)
              /\ iv' = Accept(iv, i)
              /\ item' = [item EXCEPT ![m] =
                            Row(s, i, "normal", TRUE, NextPosition(item, s))]
              /\ place' = [place EXCEPT ![m] = "queued"]
              /\ UNCHANGED run
           \/ /\ p = None \/ p \notin archived
              /\ ScopeFree(run, s, p)
              /\ iv' = Accept(iv, i)
              /\ run' = [run EXCEPT ![m] = NewRun(s, p, i, "normal")]
              /\ place' = [place EXCEPT ![m] = "run"]
              /\ UNCHANGED item
    /\ UNCHANGED <<archived, archiving, view, raised>>

\* edit_user_message: message m, from which a Run was made, is said again as e and
\* makes another. What m answered is answered again, whatever has become of it: it
\* is neither checked nor accepted. The plan may be archived.
EditMessage(e, m) ==
    LET s == run[m].session IN
    /\ "edit" \in Channels
    /\ place[e] = "new" /\ place[m] = "run"
    /\ s \in Sessions \ archived
    /\ SessionIdle(run, s)
    /\ ScopeFree(run, s, PlanOf[s])
    /\ run' = [run EXCEPT ![e] =
                 [NewRun(s, PlanOf[s], run[m].reply, "normal") EXCEPT !.edit = TRUE]]
    /\ place' = [place EXCEPT ![e] = "run"]
    /\ UNCHANGED <<item, iv, archived, archiving, view, raised>>

\* record_steer: kept for the Run while it works, queued once it finalizes.
Steer(m, r) ==
    /\ "steer" \in Channels
    /\ place[m] = "new"
    /\ run[r].session # None
    /\ run[r].status \in {"running", "finalizing", "completed"}
    /\ LET s == run[r].session IN
       IF run[r].status = "running"
         THEN /\ run' = [run EXCEPT ![r].steers = Append(@, m)]
              /\ place' = [place EXCEPT ![m] = "steer"]
              /\ UNCHANGED item
         ELSE /\ item' = [item EXCEPT ![m] =
                    Row(s, run[r].reply, run[r].mode, FALSE, NextPosition(item, s))]
              /\ place' = [place EXCEPT ![m] = "queued"]
              /\ UNCHANGED run
    /\ UNCHANGED <<iv, archived, archiving, view, raised>>

\* ProactiveScheduler.trigger_now for a plan: a root Run without a session.
Heartbeat(b, p) ==
    /\ "beat" \in Channels
    /\ run[b].status = "absent"
    /\ ScopeFree(run, None, p)
    /\ run' = [run EXCEPT ![b] = NewRun(None, p, None, "normal")]
    /\ UNCHANGED <<item, place, iv, archived, archiving, view, raised>>

-----------------------------------------------------------------------------
(* Runs work and end.                                                      *)

\* prepare_finalization and consume_pending_steers: unread steers join the
\* conversation; a Run that has read all of them may finalize.
ConsumeSteers(r) ==
    /\ run[r].status = "running" /\ run[r].steers # <<>>
    /\ place' = [m \in Messages |->
                    IF m \in ToSet(run[r].steers) THEN "applied" ELSE place[m]]
    /\ run' = [run EXCEPT ![r].steers = <<>>]
    /\ UNCHANGED <<item, iv, archived, archiving, view, raised>>

PrepareFinalization(r) ==
    /\ run[r].status = "running" /\ run[r].steers = <<>>
    /\ run' = [run EXCEPT ![r].status = "finalizing"]
    /\ UNCHANGED <<item, place, iv, archived, archiving, view, raised>>

\* A restart finds no checkpoint and fences the Run for the operator.
Fence(r) ==
    /\ "fence" \in Channels
    /\ run[r].status = "running"
    /\ run' = [run EXCEPT ![r].status = "needs_reconciliation"]
    /\ UNCHANGED <<item, place, iv, archived, archiving, view, raised>>

\* Unread steers of a Run that ends join the end of the queue.
WithSteers(it, r) ==
    LET s == run[r].session
        new == run[r].steers
        index(m) == (CHOOSE k \in DOMAIN new : new[k] = m) - 1
    IN  [m \in Messages |->
            IF m \in ToSet(new)
              THEN Row(s, run[r].reply, run[r].mode, FALSE,
                       NextPosition(it, s) + index(m))
              ELSE it[m]]

\* finalize_run_intervention: a closed target must agree with this outcome.
CloseConflict(r, status) ==
    /\ run[r].reply # None
    /\ iv[run[r].reply] \notin Open
    /\ iv[run[r].reply] # status

\* A reply that was stopped or failed counts as an answer.
ClosedAnyway(r, status) ==
    IF run[r].reply = None THEN iv ELSE [iv EXCEPT ![run[r].reply] = "completed"]

Closed(r, status) ==
    IF run[r].reply = None THEN iv ELSE [iv EXCEPT ![run[r].reply] = status]

\* Only a Run that worked to its end without a steer starts the next one.
SuccessorIfAlone(rr, ivs, it, s) ==
    IF s = None \/ Cardinality(In(it, s)) # 1 THEN None ELSE First(it, s)

\* dispatch_next_queued_message: the head of the queue, or nobody when the
\* queue is empty or dispatching the head raises an error it contains.
Successor(rr, ivs, it, s) ==
    IF \/ s = None
       \/ In(it, s) = {}
       \/ Refused(rr, ivs, it[First(it, s)])
      THEN None
      ELSE First(it, s)

\* finalize_run and terminate_run: in one transaction the Run ends, its steers
\* are queued, its reply target closes and the next message becomes a Run. An
\* error that is not contained rolls all of it back.
Finish(r, status) ==
    LET it == WithSteers(item, r)
        rr == [run EXCEPT ![r].status = status, ![r].steers = <<>>]
        next == Successor(rr, Closed(r, status), it, run[r].session)
        error == IF CloseConflict(r, status) THEN "intervention"
                 ELSE IF next = None THEN "none" ELSE Removal(it, next).error
    IN  \/ error # "none" /\ Abort(error)
        \/ /\ error = "none"
           /\ place' = [m \in Messages |->
                 IF m = next THEN "run"
                 ELSE IF m \in ToSet(run[r].steers) THEN "queued" ELSE place[m]]
           /\ IF next = None
                THEN item' = it /\ run' = rr /\ iv' = Closed(r, status)
                ELSE Dispatch(rr, Closed(r, status), it, next)
           /\ UNCHANGED <<archived, archiving, view, raised>>

Complete(r) == run[r].status = "finalizing" /\ Finish(r, "completed")
Fail(r)     == run[r].status \in {"running", "finalizing"} /\ Finish(r, "failed")
Cancel(r)   == run[r].status \in Live /\ Finish(r, "cancelled")

-----------------------------------------------------------------------------
(* The learner works on the queue. A tab sends the version of the row it   *)
(* loaded; a row that has changed since answers 409.                       *)

Load(t, m) ==
    /\ item[m] # None
    /\ view' = [view EXCEPT ![t] = [id |-> m, row |-> item[m]]]
    /\ UNCHANGED <<item, place, run, iv, archived, archiving, raised>>

\* The guard of PATCH, DELETE and /send.
Current(t) ==
    /\ view[t] # None
    /\ item[view[t].id] # None
    /\ item[view[t].id].version = view[t].row.version

\* The request is over; its tab loads the queue again.
Answered(t) == view' = [view EXCEPT ![t] = None]

\* PATCH /queue/{id} with another text: not for a mail reply.
EditText(t) ==
    /\ Current(t)
    /\ LET m == view[t].id IN
       /\ ~item[m].mail
       /\ item[m].version < MaxVersion
       /\ item' = [item EXCEPT ![m].text = @ + 1, ![m].version = @ + 1]
    /\ Answered(t)
    /\ UNCHANGED <<place, run, iv, archived, archiving, raised>>

\* PATCH /queue/{id} with another position.
MoveTo(t, position) ==
    /\ Current(t)
    /\ LET m == view[t].id
           s == item[m].session
           others == Without(Ordered(item, s), m)
           order == InsertAt(others, Min({position, Len(others)}) + 1, m)
           moved == ReorderQueue(item, s, order)
       IN  /\ position # item[m].pos
           /\ \A n \in In(item, s) : item[n].version < MaxVersion
           /\ item' = IF moved.clash THEN item ELSE moved.items
           /\ raised' = IF moved.clash THEN "position" ELSE raised
    /\ Answered(t)
    /\ UNCHANGED <<place, run, iv, archived, archiving>>

\* DELETE /queue/{id}
Delete(t) ==
    /\ Current(t)
    /\ LET m == view[t].id
           left == Removal(item, m)
       IN  IF left.error # "none"
             THEN raised' = left.error /\ UNCHANGED <<item, place>>
             ELSE /\ item' = left.items
                  /\ place' = [place EXCEPT ![m] = "deleted"]
                  /\ UNCHANGED raised
    /\ Answered(t)
    /\ UNCHANGED <<run, iv, archived, archiving>>

\* POST /queue/{id}/send
Send(t) ==
    /\ Current(t)
    /\ LET m == view[t].id
           s == item[m].session
       IN  /\ s \notin archived /\ PlanOf[s] \notin archived
           /\ SessionIdle(run, s)
           /\ ~Refused(run, iv, item[m])
           /\ IF Removal(item, m).error # "none"
                THEN /\ raised' = Removal(item, m).error
                     /\ UNCHANGED <<item, place, run, iv>>
                ELSE /\ Dispatch(run, iv, item, m)
                     /\ place' = [place EXCEPT ![m] = "run"]
                     /\ UNCHANGED raised
    /\ Answered(t)
    /\ UNCHANGED <<archived, archiving>>

-----------------------------------------------------------------------------
(* Archiving. rename_session and set_plan_archived look for live Runs and  *)
(* queued messages without the SQLite writer and write later.              *)

Sought(x) == IF x \in Sessions THEN {x} ELSE {s \in Sessions : PlanOf[s] = x}

CheckArchive(x) ==
    /\ "archive" \in Channels
    /\ x \notin archived
    /\ \A r \in Runs : run[r].status \in Live => run[r].session # x /\ run[r].plan # x
    /\ \A s \in Sought(x) : In(item, s) = {}
    /\ archiving' = archiving \cup {x}
    /\ UNCHANGED <<item, place, run, iv, archived, view, raised>>

WriteArchive(x) ==
    /\ x \in archiving
    /\ archiving' = archiving \ {x}
    /\ archived' = archived \cup {x}
    /\ UNCHANGED <<item, place, run, iv, view, raised>>

Restore(x) ==
    /\ x \in archived
    /\ archived' = archived \ {x}
    /\ UNCHANGED <<item, place, run, iv, archiving, view, raised>>

Targets(s) == {None} \cup {i \in Interventions : SessionOf[i] = s}

Next ==
    \/ \E m \in Messages, s \in Sessions, mode \in Modes : \E i \in Targets(s) :
            CreateRun(m, s, i, mode) \/ Enqueue(m, s, i, mode)
    \/ \E m \in Messages : \/ \E i \in Interventions : MailReply(m, i)
                           \/ \E n \in Messages : EditMessage(m, n)
                           \/ \E r \in Runs : Steer(m, r)
    \/ \E b \in Beats, p \in Plans : Heartbeat(b, p)
    \/ \E r \in Runs : \/ ConsumeSteers(r) \/ PrepareFinalization(r) \/ Fence(r)
                       \/ Complete(r) \/ Fail(r) \/ Cancel(r)
    \/ \E t \in Tabs : \/ \E m \in Messages : Load(t, m)
                       \/ EditText(t) \/ Delete(t) \/ Send(t)
                       \/ \E k \in 0..Cardinality(Messages) : MoveTo(t, k)
    \/ \E x \in Sessions \cup Plans : CheckArchive(x) \/ WriteArchive(x) \/ Restore(x)

Spec == Init /\ [][Next]_vars

-----------------------------------------------------------------------------
(* Properties.                                                             *)

TypeOK ==
    /\ item \in [Messages -> ItemRow \cup {None}]
    /\ place \in [Messages -> {"new", "steer", "applied", "queued", "run",
                               "receipt", "deleted"}]
    /\ \A m \in Messages : (place[m] = "queued") <=> (item[m] # None)
    /\ run \in [Runs -> RunRow]
    /\ iv \in [Interventions -> Open \cup Ended \cup {"receipt"}]
    /\ archived \subseteq Sessions \cup Plans
    /\ archiving \subseteq Sessions \cup Plans
    /\ view \in [Tabs -> Seen \cup {None}]
    /\ raised \in {"none", "intervention", "foreign_key", "position"}

\* A session's n rows stand at 0, ..., n-1, whatever sends, deletions, moves,
\* steers and ends of Runs came in which order (compact_queue_after_removal,
\* reorder_queue and the four places that take max + 1).
PositionsDense ==
    \A s \in Sessions :
        Positions(item, s) = 0 .. Cardinality(In(item, s)) - 1

\* No UPDATE of a compaction or a move meets a taken position, in whatever
\* order SQLite visits the rows: the unique index never fails a handler.
NoPositionClash == raised # "position"

\* The queue of a session is a list at all times, and stays one without an error.
RowsKept == TypeOK /\ PositionsDense /\ NoPositionClash

\* At most one live root Run works in a scope, a fenced one included, although
\* the unique index does not know fenced Runs and six places create Runs.
OneRootPerScope ==
    \A r1, r2 \in Runs :
        /\ {run[r1].status, run[r2].status} \subseteq Live
        /\ run[r1].plan = run[r2].plan
        /\ run[r1].plan = None => run[r1].session = run[r2].session
        => r1 = r2

\* An intervention is closed as the Run that answered it ended, and two Runs
\* that answered it never disagree: who comes second is not let in.
AnswersAgree ==
    /\ \A r \in Runs : run[r].status \in Ended /\ run[r].reply # None
                            => iv[run[r].reply] = run[r].status
    /\ \A i \in Interventions : iv[i] \in Ended =>
            \E r \in Runs : run[r].reply = i /\ run[r].status = iv[i]

\* Nothing closes what a live Run answers before it ends, which would roll the end of
\* the Run back each time it is tried (finalize_run_intervention), with two exceptions:
\* a mail to an archived plan has closed it with a receipt, or the Run repeats an
\* edited message, whose first Run has closed it.
NoReplyConflict ==
    \A r \in Runs, status \in Ended :
        run[r].status \in Live /\ CloseConflict(r, status)
            => iv[run[r].reply] = "receipt" \/ run[r].edit

\* Interventions agree with the Runs that have answered them and that still may.
RepliesAgree == AnswersAgree /\ NoReplyConflict

\* A tab changes, removes or sends a row only where and as it showed it: the
\* version of the row tells every move and edit by others, moves of the rows
\* in front of it included.
NoBlindChange ==
    [][\A t \in Tabs, m \in Messages :
        /\ view[t] # None /\ view[t].id = m
        /\ view'[t] = None
        /\ item'[m] # item[m]
        => item[m].pos = view[t].row.pos /\ item[m].text = view[t].row.text]_vars

\* The queues as EditableQueue sees them.
Queues == INSTANCE EditableQueue WITH
             queue <- [s \in Sessions |-> Ordered(item, s)]
\* Every handler sends, moves, edits or removes what it names in an ordered list,
\* and changes nothing else in it: the rows implement EditableQueue.
QueueOrder == Queues!Spec

\* A Run that ends leaves no message behind that could have been the next turn:
\* a queue whose session has nobody left to send it holds a head that nothing
\* could send now, whatever steers and replies the same transaction brought.
EndStartsNext ==
    [][\A r \in Runs :
        LET s == run[r].session IN
        /\ run[r].status \in Live /\ run'[r].status \in Ended
        /\ s # None
        => \/ In(item', s) = {}
           \/ ~SessionIdle(run', s)
           \/ Refused(run', iv', item'[First(item', s)])]_vars

=============================================================================
