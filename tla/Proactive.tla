----------------------------- MODULE Proactive -----------------------------
(* The proactive scheduler: every heartbeat polls the mailbox, looks for    *)
(* the first candidate (a due review or task, a progress check-in) and      *)
(* starts a Run on its plan. The Run carries the candidate; its decision    *)
(* row says what became of it, once. A Run may notify the learner through   *)
(* a guard (quiet hours, a limit per day, a cooldown).                      *)
(*                                                                          *)
(* The scan and the guard read outside of a transaction, and a savepoint    *)
(* that no transaction surrounds commits by itself, so a building decision  *)
(* is durable before the notification, or the refusal, it is made for.      *)
(*                                                                          *)
(* Time is a clock of Day ticks. A moment in the past is kept as its age, a *)
(* moment to come as the ticks left. A plan has one live Run at most (see   *)
(* SessionQueue), so a Run is named by its plan until the next one.         *)
EXTENDS Naturals, FiniteSets, Sequences

CONSTANTS
    Plans, Candidates,
    PlanOf,         \* [Candidates -> Plans]
    Order,          \* candidates as the scan meets them
    CheckIns,       \* those that ask how a plan is going
    Day, Quiet,     \* ticks of a day, and those of the quiet hours
    Beat,           \* AGENT_HEARTBEAT_SECONDS
    Backoff,        \* RETRY_BACKOFF
    Cooldown,       \* AGENT_CANDIDATE_COOLDOWN_MINUTES
    NotifyCooldown, \* AGENT_NOTIFICATION_COOLDOWN_MINUTES
    CheckIn,        \* AGENT_PROGRESS_CHECKIN_HOURS
    Limit,          \* daily_notification_limit
    MaxCalls,       \* notifications a Run tries (a bound)
    MaxFaults,      \* failures, timeouts, crashes, cancellations (a bound)
    MaxTurns,       \* steps of the learner (a bound)
    None

ASSUME ProactiveAssumption ==
    /\ PlanOf \in [Candidates -> Plans] /\ CheckIns \subseteq Candidates
    /\ Order \in Seq(Candidates)
    /\ {Beat, Backoff, Cooldown, NotifyCooldown, CheckIn, Limit} \subseteq Nat
    /\ {MaxCalls, MaxFaults, MaxTurns, Day} \subseteq Nat /\ Quiet \subseteq 0..(Day - 1)
    /\ \E t \in 0..(Day - 1) : t \notin Quiet
    /\ None \notin Candidates

VARIABLES
    clock,      \* the learner's time of day
    due,        \* candidates whose review, deadline or silence is due
    active,     \* active plans
    paused,     \* user_profiles.proactive_paused
    loop,       \* ProactiveScheduler._loop: place, sleep left, what it has read
    run,        \* by plan: agent_runs, proactive_decisions, the tool call
    wait,       \* ticks to next_eligible_at of a candidate's latest decision
    checked,    \* age of a plan's latest successful decision
    news,       \* age of a plan's latest notification
    today,      \* logical deliveries since midnight
    faults,     \* faults so far
    turns       \* steps of the learner so far

vars == <<clock, due, active, paused, loop, run, wait, checked, news, today, faults, turns>>
ageVars == <<wait, checked, news, today>>
learnerVars == <<due, active, paused, turns>>

Live == {"working", "stuck"}

NewsMax == IF CheckIn > NotifyCooldown THEN CheckIn ELSE NotifyCooldown

\* busy is observed: the plans with a live Run when the scan began.
Asleep == [pc |-> "sleep", left |-> Beat, cool |-> {}, busy |-> {}, cand |-> None]

NoDecision == [status |-> "none", call |-> 0, outcome |-> None]

\* call is the latest tool invocation, open while it has no result; tool is
\* where it is, or what the guard said; sent counts the Run's interventions.
NewRun(c) ==
    [cand |-> c, status |-> "working", dec |-> NoDecision,
     call |-> 0, open |-> FALSE, tool |-> "idle", sent |-> 0]

Init ==
    /\ clock = CHOOSE t \in 0..(Day - 1) : t \notin Quiet
    /\ due = Candidates /\ active = Plans /\ paused = FALSE
    /\ loop = Asleep
    /\ run = [p \in Plans |-> [NewRun(None) EXCEPT !.status = "none"]]
    /\ wait = [c \in Candidates |-> 0]
    /\ checked = [p \in Plans |-> Cooldown + 1]
    /\ news = [p \in Plans |-> NewsMax + 1]
    /\ today = 0 /\ faults = 0 /\ turns = 0

Fault == faults < MaxFaults /\ faults' = faults + 1

-----------------------------------------------------------------------------
(* Time.                                                                    *)

Sooner(t) == IF t = 0 THEN 0 ELSE t - 1
\* An age beyond what anybody asks for stays there.
Older(t, max) == IF t > max THEN t ELSE t + 1

Tick ==
    /\ clock' = (clock + 1) % Day
    /\ wait' = [c \in Candidates |-> Sooner(wait[c])]
    /\ checked' = [p \in Plans |-> Older(checked[p], Cooldown)]
    /\ news' = [p \in Plans |-> Older(news[p], NewsMax)]
    /\ today' = IF clock' = 0 THEN 0 ELSE today
    /\ loop' = [loop EXCEPT !.left = Sooner(@)]
    /\ UNCHANGED <<run, faults>> /\ UNCHANGED learnerVars

\* next_quiet_hours_end, in ticks
UntilMorning ==
    CHOOSE n \in 0..Day :
        /\ (clock + n) % Day \notin Quiet
        /\ \A m \in 0..Day : m < n => (clock + m) % Day \in Quiet

-----------------------------------------------------------------------------
(* The loop.                                                                *)

Goes(from, to) ==
    /\ loop.pc = from
    /\ loop' = to
    /\ UNCHANGED <<clock, run>> /\ UNCHANGED learnerVars /\ UNCHANGED ageVars

Beats == loop.left = 0 /\ Goes("sleep", [loop EXCEPT !.pc = "poll"]) /\ UNCHANGED faults

Polled == Goes("poll", [loop EXCEPT !.pc = "look"]) /\ UNCHANGED faults

\* cycle_error: the poll raises, and the cycle is over.
PollFails == Goes("poll", Asleep) /\ Fault

\* _paused_by_user, and the plans that were checked with success lately.
Recent == {p \in Plans : checked[p] <= Cooldown}

Look ==
    LET scan == [loop EXCEPT !.pc = "choose", !.cool = Recent,
                             !.busy = {p \in Plans : run[p].status \in Live}]
    IN  Goes("look", IF paused THEN Asleep ELSE scan) /\ UNCHANGED faults

\* A scan that forgets to ask about the candidate's latest decision.
EligibleAtOnce(c) ==
    /\ c \in due /\ PlanOf[c] \in active \ loop.cool
    /\ c \in CheckIns => news[PlanOf[c]] > CheckIn

\* _next_candidate: due, on an active plan that is not cooling down, not told
\* to wait by its latest decision; no check-in after a recent notification.
Eligible(c) ==
    /\ c \in due /\ PlanOf[c] \in active \ loop.cool
    /\ wait[c] = 0
    /\ c \in CheckIns => news[PlanOf[c]] > CheckIn

Choose ==
    LET found == {i \in DOMAIN Order : Eligible(Order[i])}
        first == CHOOSE i \in found : \A j \in found : i <= j
    IN  /\ Goes("choose", IF found = {} THEN Asleep
                          ELSE [loop EXCEPT !.pc = "trigger", !.cool = {}, !.cand = Order[first]])
        /\ UNCHANGED faults

\* ensure_root_scope_available
ScopeFree(p) == run[p].status \notin Live

\* trigger_now: looks at the scope again, and at nothing else.
Trigger ==
    /\ loop.pc = "trigger"
    /\ LET p == PlanOf[loop.cand]
       IN  run' = IF ScopeFree(p) THEN [run EXCEPT ![p] = NewRun(loop.cand)] ELSE run
    /\ loop' = Asleep
    /\ UNCHANGED <<clock, faults>> /\ UNCHANGED learnerVars /\ UNCHANGED ageVars

Loop == Beats \/ Polled \/ PollFails \/ Look \/ Choose \/ Trigger

-----------------------------------------------------------------------------
(* A Run and its decision.                                                  *)

Success == {"success_wait", "success_intervention"}
Retried == {"guard_rejected", "model_failed", "runtime_failed"}

\* create_proactive_decision with the identity it asserts: the same call.
SameCall(dec, call) == dec.status = "none" \/ dec.call = call
Built(dec, call) == IF dec.status = "none" THEN [dec EXCEPT !.status = "building", !.call = call]
                    ELSE dec

\* finalize_proactive_decision: r is the Run as it will be, its decision
\* becomes terminal now, which says when candidate and plan come again.
Finalized(p, r, outcome) ==
    /\ run' = [run EXCEPT ![p] =
                  [r EXCEPT !.dec.status = "terminal", !.dec.outcome = outcome]]
    /\ wait' = [wait EXCEPT ![r.cand] =
                  IF outcome \in Retried THEN Backoff
                  ELSE IF outcome = "deferred_quiet_hours" THEN UntilMorning ELSE 0]
    /\ checked' = IF outcome \in Success THEN [checked EXCEPT ![p] = 0] ELSE checked

\* _finalize_captured_proactive_run is called with the call of the decision
\* that is there.
OwnCall(r) == r.dec.call

\* A terminal transaction that always writes its own outcome.
NeverDecided(r) == FALSE

\* A decision that the guard or a notification has made stays.
AlreadyDecided(r) == r.dec.status = "terminal"

\* The transaction that ends a Run; the task, and a tool call in it, is gone.
Ends(p, status, outcome) ==
    LET r == [run[p] EXCEPT !.status = status, !.tool = "idle"]
    IN  /\ IF r.cand = None \/ AlreadyDecided(r)
             THEN run' = [run EXCEPT ![p] = r] /\ UNCHANGED <<wait, checked>>
             ELSE /\ SameCall(r.dec, OwnCall(r))
                  /\ Finalized(p, r, outcome)
        /\ UNCHANGED <<clock, loop, news, today>> /\ UNCHANGED learnerVars

Idle(p) == run[p].status = "working" /\ run[p].tool = "idle"

Complete(p) == Idle(p) /\ ~run[p].open /\ Ends(p, "completed", "success_wait") /\ UNCHANGED faults

Fail(p) ==
    /\ Idle(p)
    /\ \E outcome \in {"model_failed", "runtime_failed"} : Ends(p, "failed", outcome)
    /\ Fault

\* cancel_run signals the task before it ends the Run.
Cancel(p) == run[p].status \in Live /\ Ends(p, "cancelled", "cancelled") /\ Fault

Becomes(p, r) ==
    /\ run' = [run EXCEPT ![p] = r]
    /\ UNCHANGED <<clock, loop>> /\ UNCHANGED learnerVars /\ UNCHANGED ageVars

\* It waits for an approval, or is fenced; nobody has to decide.
Stick(p) == Idle(p) /\ ~run[p].open /\ Becomes(p, [run[p] EXCEPT !.status = "stuck"]) /\ Fault

Unstick(p) ==
    /\ run[p].status = "stuck"
    /\ Becomes(p, [run[p] EXCEPT !.status = "working"]) /\ UNCHANGED faults

-----------------------------------------------------------------------------
(* notification_send in a Run of the scheduler.                             *)

\* NotificationService._guard and the look at the plan, in the order of the
\* code: none of it holds the database's writer.
Verdict(p) ==
    IF clock \in Quiet THEN "quiet"
    ELSE IF today >= Limit \/ news[p] <= NotifyCooldown \/ p \notin active
      THEN "refused" ELSE "allowed"

\* A new call, or the open one again after a crash.
Notify(p) ==
    /\ Idle(p) /\ run[p].cand # None
    /\ run[p].open \/ run[p].call < MaxCalls
    /\ LET call == IF run[p].open THEN run[p].call ELSE run[p].call + 1
       IN  Becomes(p, [run[p] EXCEPT !.call = call, !.open = TRUE, !.tool = Verdict(p)])
    /\ UNCHANGED faults

\* The call ends with an error for the model; its transaction is rolled back.
Failed(p) == Becomes(p, [run[p] EXCEPT !.tool = "idle", !.open = FALSE])

Identified(p) == SameCall(run[p].dec, run[p].call)

\* The row of another call: an identity conflict.
Conflict(p) ==
    /\ run[p].tool \in {"quiet", "refused", "allowed"}
    /\ ~Identified(p)
    /\ Failed(p) /\ UNCHANGED faults

\* The savepoint commits the building decision.
Build(p) ==
    /\ run[p].tool \in {"quiet", "refused", "allowed"}
    /\ Identified(p)
    /\ LET next == [quiet |-> "deferring", refused |-> "rejecting", allowed |-> "sending"]
       IN  Becomes(p, [run[p] EXCEPT !.dec = Built(@, run[p].call), !.tool = next[run[p].tool]])
    /\ UNCHANGED faults

Finished(p) == [run[p] EXCEPT !.tool = "idle", !.open = FALSE]

\* _record_blocked_decision
Refuse(p) ==
    /\ run[p].tool \in {"deferring", "rejecting"}
    /\ Finalized(p, Finished(p),
                 IF run[p].tool = "deferring" THEN "deferred_quiet_hours" ELSE "guard_rejected")
    /\ UNCHANGED <<clock, loop, news, today, faults>> /\ UNCHANGED learnerVars

Told(p) ==
    /\ news' = [news EXCEPT ![p] = 0]
    /\ today' = Older(today, Limit)

\* The intervention, its deliveries and the decision; the insert of a new
\* session before the savepoint makes Build a part of it.
Send(p) ==
    /\ \/ run[p].tool = "sending"
       \/ run[p].tool = "allowed" /\ Identified(p)
    /\ LET r == [Finished(p) EXCEPT !.dec = Built(@, run[p].call), !.sent = @ + 1]
       IN  Finalized(p, r, "success_intervention")
    /\ Told(p)
    /\ UNCHANGED <<clock, loop, faults>> /\ UNCHANGED learnerVars

\* The tool's timeout, or a busy database.
BreakOff(p) == run[p].tool # "idle" /\ Failed(p) /\ Fault

\* The process dies and starts again: Runs and open calls are resumed.
Crash ==
    /\ run' = [p \in Plans |-> [run[p] EXCEPT !.tool = "idle"]]
    /\ loop' = Asleep
    /\ Fault
    /\ UNCHANGED clock /\ UNCHANGED learnerVars /\ UNCHANGED ageVars

-----------------------------------------------------------------------------
(* The learner.                                                             *)

Turn == turns < MaxTurns /\ turns' = turns + 1

Pause ==
    /\ Turn
    /\ paused' = ~paused
    /\ UNCHANGED <<clock, due, active, loop, run, faults>> /\ UNCHANGED ageVars

\* He does what is due: a review, a task, a step that leaves evidence.
Learn(c) ==
    /\ Turn
    /\ c \in due /\ due' = due \ {c}
    /\ UNCHANGED <<clock, active, paused, loop, run, faults>> /\ UNCHANGED ageVars

\* He archives a plan. The request looks for live Runs before it takes the
\* writer, so a Run may have started since.
Archive(p) ==
    /\ Turn
    /\ p \in active
    /\ active' = active \ {p}
    /\ UNCHANGED <<clock, due, paused, loop, run, faults>> /\ UNCHANGED ageVars

\* A message of his own starts a Run on the plan.
UserRun(p) ==
    /\ Turn
    /\ ScopeFree(p) /\ p \in active
    /\ run' = [run EXCEPT ![p] = NewRun(None)]
    /\ UNCHANGED <<clock, due, active, paused, loop, faults>> /\ UNCHANGED ageVars

\* A manual heartbeat has no plan of its own; its notifications pass the guard.
UserNews(p) ==
    /\ Turn
    /\ p \in active
    /\ Told(p)
    /\ UNCHANGED <<clock, due, active, paused, loop, run, wait, checked, faults>>

RunSteps(p) ==
    \/ Complete(p) \/ Fail(p) \/ Cancel(p) \/ Stick(p) \/ Unstick(p)
    \/ Notify(p) \/ Conflict(p) \/ Build(p) \/ Refuse(p) \/ Send(p) \/ BreakOff(p)

Learner ==
    \/ Pause
    \/ \E c \in Candidates : Learn(c)
    \/ \E p \in Plans : Archive(p) \/ UserRun(p) \/ UserNews(p)

Next == Tick \/ Loop \/ Crash \/ Learner \/ \E p \in Plans : RunSteps(p)

Spec == Init /\ [][Next]_vars

-----------------------------------------------------------------------------
(* Properties.                                                              *)

Outcomes == Success \cup Retried \cup {"deferred_quiet_hours", "cancelled"}

ASSUME OutcomeAssumption == None \notin Outcomes

LoopRow == [pc : {"sleep", "poll", "look", "choose", "trigger"}, left : 0..Beat,
            cool : SUBSET Plans, busy : SUBSET Plans, cand : Candidates \cup {None}]

DecisionRow == [status : {"none", "building", "terminal"}, call : 0..MaxCalls,
                outcome : Outcomes \cup {None}]

RunRow == [cand : Candidates \cup {None},
           status : Live \cup {"none", "completed", "failed", "cancelled"},
           dec : DecisionRow, call : 0..MaxCalls, open : BOOLEAN,
           tool : {"idle", "quiet", "refused", "allowed", "deferring", "rejecting", "sending"},
           sent : 0..MaxCalls]

TypeOK ==
    /\ clock \in 0..(Day - 1)
    /\ due \subseteq Candidates /\ active \subseteq Plans /\ paused \in BOOLEAN
    /\ loop \in LoopRow /\ run \in [Plans -> RunRow]
    /\ wait \in [Candidates -> Nat]
    /\ checked \in [Plans -> 0..(Cooldown + 1)]
    /\ news \in [Plans -> 0..(NewsMax + 1)]
    /\ today \in 0..(Limit + 1) /\ faults \in 0..MaxFaults /\ turns \in 0..MaxTurns

\* A Run of the scheduler that has ended has one decision, which tells what the
\* learner saw of it: the Run notified him exactly if the decision says so, it
\* waited only if it completed, and a cancellation or failure of the Run is not
\* passed off as a judgement. Calls that break off, crashes between the two
\* commits of a call and further calls do not change that.
DecisionTrue ==
    \A p \in Plans :
        LET r == run[p] IN
        /\ r.sent = IF r.dec.outcome = "success_intervention" THEN 1 ELSE 0
        /\ r.cand # None /\ r.status \notin Live =>
              /\ r.dec.status = "terminal"
              /\ r.dec.outcome = "success_wait" => r.status = "completed"
              /\ r.dec.outcome = "cancelled" => r.status = "cancelled"
              /\ r.dec.outcome \in {"model_failed", "runtime_failed"} => r.status = "failed"

Decided == TypeOK /\ DecisionTrue

Starts(p) == run[p].status \notin Live /\ run'[p].status \in Live /\ run'[p].cand # None

\* The scheduler does not come back to a plan that it has just checked, nor to a
\* candidate before its decision allows: except when a Run that was under way
\* on this plan when the scan began ended before the scan did.
ComesBackInTime ==
    [][\A p \in Plans : Starts(p) =>
          \/ checked[p] > Cooldown /\ wait[run'[p].cand] = 0
          \/ p \in loop.busy]_vars
=============================================================================
