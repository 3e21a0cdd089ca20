---------------------------- MODULE MailIngress ----------------------------
(* Replies by mail. A poll fetches unseen mails without touching them,     *)
(* commits a durable job and its continuation per mail, claims the         *)
(* acknowledgements in a second transaction, sets the Seen flags, records  *)
(* the outcome in a third, and returns the Runs that its caller starts.    *)
(* Between any two of these the process may die, another poller may work,  *)
(* a claim may expire, and the server may give its mailbox new UIDs.       *)
(* What becomes of a queued reply is in SessionQueue.                      *)
EXTENDS Naturals, FiniteSets

CONSTANTS
    Mails,          \* messages that reach the mailbox
    Interventions,
    TargetOf,       \* the intervention whose token a mail carries, or Nil
    Scopes,         \* plans (or sessions without a plan)
    ScopeOf,        \* the scope of an intervention
    Pollers,
    Nil,
    Window,         \* how many unseen mails a poll fetches
    MaxValidity,    \* UIDVALIDITY values of the mailbox (a bound)
    MaxCrashes      \* crashes (a bound)

ASSUME MailAssumption ==
    /\ TargetOf \in [Mails -> Interventions \cup {Nil}]
    /\ Nil \notin Interventions \cup Pollers
    /\ ScopeOf \in [Interventions -> Scopes]
    /\ {Window, MaxValidity} \subseteq Nat \ {0}
    /\ MaxCrashes \in Nat

VARIABLES
    mailbox,    \* its UIDVALIDITY, and the UID of each mail in it
    seen,       \* mails that carry the Seen flag
    jobs,       \* inbound_mail_jobs, by UIDVALIDITY and UID
    iv,         \* state of each intervention
    runOf,      \* the Run made out of a mail
    busy,       \* scopes in which a Run of somebody else is live
    archived,   \* archived scopes
    poller,     \* where each poller is
    crashes,
    answers     \* observed: continuations and receipts made for a mail

mailVars == <<mailbox, seen, jobs, iv, runOf, busy, archived, poller, crashes, answers>>

Uids == 1..Cardinality(Mails)
Ids == (1..MaxValidity) \X Uids
NoJob == [mail |-> Nil, ack |-> "none", token |-> Nil, expired |-> FALSE]
Idle == [pc |-> "idle", replies |-> {}, validity |-> 0, listed |-> {}, claims |-> {}, runs |-> {}]

MailInit ==
    /\ mailbox = [validity |-> 1, uid |-> [m \in Mails |-> 0]]
    /\ seen = {}
    /\ jobs = [id \in Ids |-> NoJob]
    /\ iv = [i \in Interventions |-> "active"]
    /\ runOf = [m \in Mails |-> "none"]
    /\ busy = {}
    /\ archived = {}
    /\ poller = [p \in Pollers |-> Idle]
    /\ crashes = 0
    /\ answers = [m \in Mails |-> 0]

-----------------------------------------------------------------------------
(* The mailbox and the rest of the system.                                 *)

Box == {m \in Mails : mailbox.uid[m] # 0}

\* A new mail gets a UID above those in use.
Arrive(m) ==
    /\ m \notin Box
    /\ \E u \in Uids :
         /\ \A n \in Box : mailbox.uid[n] < u
         /\ mailbox' = [mailbox EXCEPT !.uid[m] = u]
    /\ UNCHANGED <<seen, jobs, iv, runOf, busy, archived, poller, crashes, answers>>

\* No two mails have one UID.
Numbered(uid) == \A m, n \in Mails : uid[m] = uid[n] => m = n \/ uid[m] = 0

\* The server numbers its mails anew, perhaps with UIDs that were in use.
ChangeValidity ==
    /\ mailbox.validity < MaxValidity
    /\ \E uid \in [Mails -> Uids \cup {0}] :
         /\ Numbered(uid) /\ \A m \in Mails : uid[m] # 0 <=> m \in Box
         /\ mailbox' = [validity |-> mailbox.validity + 1, uid |-> uid]
    /\ UNCHANGED <<seen, jobs, iv, runOf, busy, archived, poller, crashes, answers>>

\* ensure_root_scope_available, for Runs of others and of mails.
Answering(m) == runOf[m] \in {"queued", "started"}
ScopeBusy(s) == s \in busy \/ \E m \in Mails : Answering(m) /\ ScopeOf[TargetOf[m]] = s

\* A chat Run or a heartbeat occupies a scope or leaves it; it may be the one
\* that answers the intervention.
Occupy(s) ==
    /\ s \notin busy
    /\ ~ScopeBusy(s)
    /\ busy' = busy \cup {s}
    /\ UNCHANGED <<mailbox, seen, jobs, iv, runOf, archived, poller, crashes, answers>>

Leave(s) ==
    /\ s \in busy
    /\ busy' = busy \ {s}
    /\ iv' \in {iv} \cup {[iv EXCEPT ![i] = "closed"] : i \in {j \in Interventions : ScopeOf[j] = s}}
    /\ UNCHANGED <<mailbox, seen, jobs, runOf, archived, poller, crashes, answers>>

\* set_plan_archived, both ways. That what it has read of Runs may be outdated
\* when it writes is a subject of SessionQueue.
Archive(s) ==
    /\ s \in archived \/ ~ScopeBusy(s)
    /\ archived' = IF s \in archived THEN archived \ {s} ELSE archived \cup {s}
    /\ UNCHANGED <<mailbox, seen, jobs, iv, runOf, busy, poller, crashes, answers>>

\* A Run of a mail ends and closes the intervention it answers.
EndRun(m) ==
    /\ runOf[m] = "started"
    /\ runOf' = [runOf EXCEPT ![m] = "ended"]
    /\ iv' = [iv EXCEPT ![TargetOf[m]] = "closed"]
    /\ UNCHANGED <<mailbox, seen, jobs, busy, archived, poller, crashes, answers>>

-----------------------------------------------------------------------------
(* A poll.                                                                 *)

\* _fetch_unseen: the youngest unseen mails.
Fetch(p) ==
    /\ poller[p].pc = "idle"
    /\ LET unseen == Box \ seen
           window == {m \in unseen :
             Cardinality({n \in unseen : mailbox.uid[n] > mailbox.uid[m]}) < Window}
       IN  poller' = [poller EXCEPT ![p] =
             [Idle EXCEPT !.pc = "fetched", !.validity = mailbox.validity,
                          !.replies = {[mail |-> m, uid |-> mailbox.uid[m]] : m \in window}]]
    /\ UNCHANGED <<mailbox, seen, jobs, iv, runOf, busy, archived, crashes, answers>>

TargetOfReply(reply) == TargetOf[reply.mail]
ScopeOfReply(reply) == ScopeOf[TargetOf[reply.mail]]

Recorded(id) == jobs[id].ack # "none"

\* What a poll has fetched and no job is there for, among the mails with a token.
NewReplies(p) ==
    {reply \in poller[p].replies :
        TargetOfReply(reply) # Nil /\ ~Recorded(<<poller[p].validity, reply.uid>>)}

\* accept_intervention_reply raises for a target that has been closed: before, or
\* by the receipt to another reply of the same poll, for an archived plan.
Refused(p) ==
    \E reply \in NewReplies(p) :
        \/ iv[TargetOfReply(reply)] = "closed"
        \/ /\ ScopeOfReply(reply) \in archived
           /\ \E other \in NewReplies(p) \ {reply} : TargetOfReply(other) = TargetOfReply(reply)

\* The first reply to a scope that is free becomes the input of a Run; those
\* behind it are queued, and an archived plan gets a receipt.
StartsRun(p, reply) ==
    /\ ScopeOfReply(reply) \notin archived
    /\ ~ScopeBusy(ScopeOfReply(reply))
    /\ \A other \in NewReplies(p) \ {reply} :
         other.uid < reply.uid => ScopeOfReply(other) # ScopeOfReply(reply)

\* Jobs whose acknowledgement is outstanding.
Open(id) == jobs[id].ack \notin {"none", "acked"}

\* The first transaction: all replies of the poll, or none when one raises.
Register(p) ==
    /\ poller[p].pc = "fetched"
    /\ IF Refused(p)
         THEN /\ poller' = [poller EXCEPT ![p] = Idle]
              /\ UNCHANGED <<jobs, iv, runOf, answers>>
         ELSE LET new == NewReplies(p)
                  taken == {reply.mail : reply \in new}
                  started == {reply.mail : reply \in {r \in new : StartsRun(p, r)}}
                  v == poller[p].validity
                  here == {id \in Ids : id[1] = v /\ \E reply \in new : reply.uid = id[2]}
              IN  /\ jobs' = [id \in Ids |->
                        IF id \in here
                          THEN [NoJob EXCEPT !.ack = "pending",
                                  !.mail = CHOOSE m \in taken : [mail |-> m, uid |-> id[2]] \in new]
                          ELSE jobs[id]]
                  /\ iv' = [i \in Interventions |->
                        IF \A reply \in new : TargetOfReply(reply) # i THEN iv[i]
                        ELSE IF ScopeOf[i] \in archived THEN "closed" ELSE "replied"]
                  /\ runOf' = [m \in Mails |-> IF m \in started THEN "queued" ELSE runOf[m]]
                  /\ answers' = [m \in Mails |-> IF m \in taken THEN answers[m] + 1 ELSE answers[m]]
                  /\ poller' = [poller EXCEPT ![p].pc = "claim", ![p].runs = started,
                        ![p].listed = here \cup {id \in Ids : id[1] = v /\ Open(id)}]
    /\ UNCHANGED <<mailbox, seen, busy, archived, crashes>>

Claimable(id) ==
    \/ jobs[id].ack \in {"pending", "failed"}
    \/ jobs[id].ack = "claimed" /\ jobs[id].expired

\* _claim_ack_jobs: the jobs this poll has listed, unless another poller has
\* settled or claimed them since.
ClaimAcks(p) ==
    /\ poller[p].pc = "claim"
    /\ LET mine == {id \in poller[p].listed : Claimable(id)}
       IN  /\ jobs' = [id \in Ids |->
                 IF id \in mine
                   THEN [jobs[id] EXCEPT !.ack = "claimed", !.token = p, !.expired = FALSE]
                   ELSE jobs[id]]
           /\ poller' = [poller EXCEPT
                 ![p].claims = mine,
                 ![p].pc = IF mine = {} THEN "start" ELSE "mark"]
    /\ UNCHANGED <<mailbox, seen, iv, runOf, busy, archived, crashes, answers>>

\* A server that is trusted to keep its numbers.
AnyMailbox(p) == TRUE

\* _mark_seen compares the UIDVALIDITY of the job before it sets a flag.
SameMailbox(p) == poller[p].validity = mailbox.validity

MailsOf(uids) == {m \in Box : mailbox.uid[m] \in uids}

\* Either all flags are set, or the connection fails after some of them.
MarkSeen(p) ==
    /\ poller[p].pc = "mark"
    /\ LET uids == {id[2] : id \in poller[p].claims} IN
       \/ /\ SameMailbox(p)
          /\ seen' = seen \cup MailsOf(uids)
          /\ poller' = [poller EXCEPT ![p].pc = "complete"]
       \/ /\ SameMailbox(p)
          /\ \E some \in SUBSET uids : seen' = seen \cup MailsOf(some)
          /\ poller' = [poller EXCEPT ![p].pc = "fail"]
       \/ /\ ~SameMailbox(p)
          /\ poller' = [poller EXCEPT ![p].pc = "fail"]
          /\ UNCHANGED seen
    /\ UNCHANGED <<mailbox, jobs, iv, runOf, busy, archived, crashes, answers>>

\* A claim of whoever had it.
HeldAtAll(id, p) == Recorded(id)

\* The predicate of the compare-and-set: the claim is still this poller's. The
\* token is fresh for each claim; a poller has one claim of a job at a time, so
\* its name tells it from any other.
Held(id, p) == jobs[id].ack = "claimed" /\ jobs[id].token = p

Outcome(p, ack) ==
    jobs' = [id \in Ids |->
                IF id \in poller[p].claims /\ Held(id, p)
                  THEN [jobs[id] EXCEPT !.ack = ack, !.token = Nil, !.expired = FALSE]
                  ELSE jobs[id]]

\* _complete_ack_claims
Complete(p) ==
    /\ poller[p].pc = "complete"
    /\ Outcome(p, "acked")
    /\ poller' = [poller EXCEPT ![p].pc = "start"]
    /\ UNCHANGED <<mailbox, seen, iv, runOf, busy, archived, crashes, answers>>

\* _fail_ack_claims; then the poll raises, and its Runs are not returned.
Fail(p) ==
    /\ poller[p].pc = "fail"
    /\ Outcome(p, "failed")
    /\ poller' = [poller EXCEPT ![p] = Idle]
    /\ UNCHANGED <<mailbox, seen, iv, runOf, busy, archived, crashes, answers>>

\* _poll_email_replies starts the Runs it was given.
StartRuns(p) ==
    /\ poller[p].pc = "start"
    /\ runOf' = [m \in Mails |-> IF m \in poller[p].runs /\ runOf[m] = "queued"
                                 THEN "started" ELSE runOf[m]]
    /\ poller' = [poller EXCEPT ![p] = Idle]
    /\ UNCHANGED <<mailbox, seen, jobs, iv, busy, archived, crashes, answers>>

\* Five minutes have passed since a claim.
Expire(id) ==
    /\ jobs[id].ack = "claimed" /\ ~jobs[id].expired
    /\ jobs' = [jobs EXCEPT ![id].expired = TRUE]
    /\ UNCHANGED <<mailbox, seen, iv, runOf, busy, archived, poller, crashes, answers>>

\* The process dies; the next one starts the Runs it finds queued.
Crash ==
    /\ crashes < MaxCrashes
    /\ crashes' = crashes + 1
    /\ poller' = [p \in Pollers |-> Idle]
    /\ runOf' = [m \in Mails |-> IF runOf[m] = "queued" THEN "started" ELSE runOf[m]]
    /\ UNCHANGED <<mailbox, seen, jobs, iv, busy, archived, answers>>

Poll(p) == Fetch(p) \/ Register(p) \/ ClaimAcks(p) \/ Complete(p) \/ Fail(p) \/ StartRuns(p)

MailNext ==
    \/ \E m \in Mails : Arrive(m) \/ EndRun(m)
    \/ \E s \in Scopes : Occupy(s) \/ Leave(s) \/ Archive(s)
    \/ \E p \in Pollers : Poll(p) \/ MarkSeen(p)
    \/ \E id \in Ids : Expire(id)
    \/ ChangeValidity \/ Crash

MailSpec == MailInit /\ [][MailNext]_mailVars

\* The scheduler polls for ever, the server sets flags again and again until it
\* succeeds, and time passes.
MailFairness ==
    /\ \A p \in Pollers : /\ WF_mailVars(Poll(p)) /\ WF_mailVars(MarkSeen(p))
                          /\ SF_mailVars(MarkSeen(p) /\ poller'[p].pc = "complete")
    /\ \A id \in Ids : WF_mailVars(Expire(id))
    /\ \A m \in Mails : WF_mailVars(EndRun(m))

FairMailSpec == MailSpec /\ MailFairness

-----------------------------------------------------------------------------
(* Properties.                                                             *)

Job == [mail : Mails \cup {Nil}, ack : {"none", "pending", "claimed", "acked", "failed"},
        token : Pollers \cup {Nil}, expired : BOOLEAN]

MailTypes ==
    /\ mailbox.validity \in 1..MaxValidity
    /\ mailbox.uid \in [Mails -> Uids \cup {0}] /\ Numbered(mailbox.uid)
    /\ seen \subseteq Box
    /\ jobs \in [Ids -> Job]
    /\ \A id \in Ids : /\ jobs[id].ack = "claimed" <=> jobs[id].token # Nil
                       /\ jobs[id].ack = "none" => jobs[id] = NoJob
    /\ iv \in [Interventions -> {"active", "replied", "closed"}]
    /\ runOf \in [Mails -> {"none", "queued", "started", "ended"}]
    /\ busy \subseteq Scopes /\ archived \subseteq Scopes
    /\ crashes \in 0..MaxCrashes
    /\ \A p \in Pollers :
        /\ poller[p].pc \in {"idle", "fetched", "claim", "mark", "complete", "fail", "start"}
        /\ poller[p].validity \in 0..MaxValidity
        /\ poller[p].claims \subseteq poller[p].listed /\ poller[p].listed \subseteq Ids
        /\ poller[p].runs \subseteq Mails
    /\ answers \in [Mails -> Nat]

\* A mail is only marked as seen when its reply is safe in the database: also
\* when UIDs were given away anew, when claims expire and when polls overlap.
SeenIsDurable == \A m \in seen : answers[m] > 0

\* A poll, a crash or a second poller never answers a mail twice, as long as the
\* server keeps its numbers.
AnsweredOnce == mailbox.validity = 1 => \A m \in Mails : answers[m] <= 1

\* What is recorded as acknowledged carries the flag: nobody looks at it again.
AckedIsSeen ==
    \A id \in Ids : jobs[id].ack = "acked" => jobs[id].mail \in seen

\* An acknowledged job stays so: a late failure of a poller whose claim was
\* taken over changes nothing.
AckedIsFinal ==
    [][\A id \in Ids : jobs[id].ack = "acked" => jobs'[id] = jobs[id]]_mailVars

\* The Runs of mails respect the scope: one at a time, and none beside the Run
\* of somebody else.
OneRunPerScope ==
    \A m \in Mails : Answering(m) =>
        /\ ScopeOf[TargetOf[m]] \notin busy
        /\ \A n \in Mails \ {m} : Answering(n) => ScopeOf[TargetOf[n]] # ScopeOf[TargetOf[m]]

\* The marks on the server, the jobs, the replies that are safe and the Runs made
\* of them agree.
RepliesTrue == MailTypes /\ SeenIsDurable /\ AckedIsSeen /\ AnsweredOnce /\ OneRunPerScope

-----------------------------------------------------------------------------
(* What the documents say of mail.                                         *)

\* Once the mailbox is configured, a reply comes back to its session: one whose
\* intervention is open gets its job.
ReplyComesBack ==
    \A m \in Mails :
        TargetOf[m] # Nil =>
            (m \in Box /\ iv[TargetOf[m]] = "active" /\ archived = {})
                ~> (answers[m] > 0 \/ iv[TargetOf[m]] = "closed")
=============================================================================
