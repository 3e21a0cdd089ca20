--------------------------- MODULE ProactiveProofs ---------------------------
(* Theorems about Proactive, for any plans, candidates, settings, calls,    *)
(* faults and steps of the learner.                                         *)
EXTENDS Proactive, WellFoundedInduction, TLAPS

\* What a Run, its call and its decision are to each other. A terminal decision
\* of a live Run was made by a call before the open one, so that the open call
\* meets an identity conflict and does not decide again.
RunTrue(p, r) ==
    /\ r.cand # None => PlanOf[r.cand] = p
    /\ r.tool # "idle" => r.open /\ r.status = "working" /\ r.cand # None
    /\ r.open => r.call > 0
    /\ r.dec.call <= r.call
    /\ r.dec.status = "terminal" <=> r.dec.outcome # None
    /\ r.sent = IF r.dec.outcome = "success_intervention" THEN 1 ELSE 0
    /\ r.tool \in {"deferring", "rejecting", "sending"} =>
          r.dec.status = "building" /\ r.dec.call = r.call
    /\ r.status \in Live /\ r.dec.status = "terminal" =>
          /\ r.open => r.dec.call < r.call
          /\ r.dec.outcome \in {"success_intervention", "deferred_quiet_hours", "guard_rejected"}
    /\ r.cand # None /\ r.status \notin Live =>
          /\ r.dec.status = "terminal"
          /\ r.dec.outcome = "success_wait" => r.status = "completed"
          /\ r.dec.outcome = "cancelled" => r.status = "cancelled"
          /\ r.dec.outcome \in {"model_failed", "runtime_failed"} => r.status = "failed"

\* While the loop goes from the scan to the trigger, no other Run of the scheduler
\* begins, so what the scan has read of a plan that was free stays true.
ScanTrue ==
    /\ loop.pc = "trigger" => loop.cand \in Candidates
    /\ loop.pc \in {"choose", "trigger"} =>
          \A p \in Plans \ loop.busy : run[p].status \in Live => run[p].cand = None
    /\ loop.pc = "choose" =>
          \A p \in Plans \ (loop.busy \cup loop.cool) : checked[p] > Cooldown
    /\ loop.pc = "trigger" /\ PlanOf[loop.cand] \notin loop.busy =>
          checked[PlanOf[loop.cand]] > Cooldown /\ wait[loop.cand] = 0

Inv == TypeOK /\ (\A p \in Plans : RunTrue(p, run[p])) /\ ScanTrue

-----------------------------------------------------------------------------
(* Natural numbers.                                                         *)

\* A set of natural numbers has a least element: the scan takes the first
\* candidate it can, the guard the next hour that is not quiet.
LEMMA LeastNatural ==
    ASSUME NEW S, S \subseteq Nat, S # {}
    PROVE  \E n \in S : \A m \in S : n <= m
PROOF
<1>1. IsWellFoundedOn(OpToRel(<, Nat), Nat)
      BY NatLessThanWellFounded
<1>2. PICK n \in S : \A m \in S : ~ (<<m, n>> \in OpToRel(<, Nat))
      BY <1>1, WFMin, Zenon
<1>3. \A m \in S : ~ (m < n)
      BY <1>2 DEF OpToRel
<1> QED BY <1>3

\* Every time of day comes within a day.
LEMMA TimeComes ==
    ASSUME NEW now \in 0..(Day - 1), NEW t \in 0..(Day - 1)
    PROVE  \E n \in 0..Day : (now + n) % Day = t
PROOF
<1>0. Day \in Nat
      BY ProactiveAssumption
<1>1. CASE t >= now
  <2>1. t - now \in 0..Day /\ now + (t - now) = t
        BY <1>0, <1>1
  <2>2. t % Day = t
        BY <1>0
  <2> QED BY <2>1, <2>2
<1>2. CASE t < now
  <2>1. t + Day - now \in 0..Day /\ now + (t + Day - now) = t + Day
        BY <1>0, <1>2
  <2>2. (t + Day) % Day = t
        BY <1>0
  <2> QED BY <2>1, <2>2
<1> QED BY <1>0, <1>1, <1>2

\* The quiet hours end: the wait of a deferred candidate is a number of ticks.
LEMMA MorningComes == TypeOK => UntilMorning \in 0..Day
PROOF
<1> SUFFICES ASSUME TypeOK PROVE UntilMorning \in 0..Day
    OBVIOUS
<1> DEFINE loud == {n \in 0..Day : (clock + n) % Day \notin Quiet}
<1>0. Day \in Nat /\ clock \in 0..(Day - 1)
      BY ProactiveAssumption DEF TypeOK
<1>1. loud # {} /\ loud \subseteq Nat
  <2>1. PICK t \in 0..(Day - 1) : t \notin Quiet
        BY ProactiveAssumption
  <2>2. PICK n \in 0..Day : (clock + n) % Day = t
        BY <1>0, TimeComes
  <2>3. n \in loud
        BY <2>1, <2>2
  <2>4. 0..Day \subseteq Nat
        BY <1>0
  <2> QED BY <2>3, <2>4
<1>2. PICK n \in loud : \A m \in loud : n <= m
      BY <1>1, LeastNatural
<1>3. ASSUME NEW m \in 0..Day, m < n PROVE (clock + m) % Day \in Quiet
  <2>1. m \notin loud
        BY <1>0, <1>2, <1>3
  <2> QED BY <2>1
<1>4. n \in 0..Day /\ (clock + n) % Day \notin Quiet
      BY <1>2
<1> QED BY <1>3, <1>4 DEF UntilMorning

-----------------------------------------------------------------------------
(* The steps of a Run.                                                      *)

\* What a step of a Run may do: its row becomes r, and only its end or its call
\* touches the wait of its candidate and the check of its plan.
Stepped(p, r) ==
    /\ r \in RunRow /\ RunTrue(p, r)
    /\ run[p].status \in Live /\ r.cand = run[p].cand
    /\ run' = [run EXCEPT ![p] = r]
    /\ wait' \in [Candidates -> Nat] /\ checked' \in [Plans -> 0..(Cooldown + 1)]
    /\ news' \in [Plans -> 0..(NewsMax + 1)] /\ today' \in 0..(Limit + 1)
    /\ \/ UNCHANGED <<wait, checked>>
       \/ /\ r.cand # None
          /\ \A c \in Candidates : c # r.cand => wait'[c] = wait[c]
          /\ \A q \in Plans : q # p => checked'[q] = checked[q]
    /\ UNCHANGED <<clock, loop>> /\ UNCHANGED learnerVars

\* The settings are numbers.
LEMMA Settings ==
    /\ Beat \in Nat /\ Backoff \in Nat /\ Cooldown \in Nat /\ NewsMax \in Nat /\ Limit \in Nat
    /\ MaxCalls \in Nat /\ MaxFaults \in Nat /\ MaxTurns \in Nat /\ Day \in Nat
PROOF BY ProactiveAssumption DEF NewsMax

\* A step that only replaces the row of the Run.
LEMMA BecomesSteps ==
    ASSUME Inv, NEW p \in Plans, NEW r \in RunRow, Becomes(p, r),
           RunTrue(p, r), run[p].status \in Live, r.cand = run[p].cand
    PROVE  Stepped(p, r)
PROOF BY DEF Stepped, Becomes, ageVars, Inv, TypeOK

\* A decision that is made: what the row becomes, and who has to wait.
LEMMA FinalizedSteps ==
    ASSUME Inv, NEW p \in Plans, NEW r \in RunRow, NEW outcome \in Outcomes,
           Finalized(p, r, outcome), r.cand # None, r.cand = run[p].cand,
           run[p].status \in Live,
           LET d == [r EXCEPT !.dec.status = "terminal", !.dec.outcome = outcome]
           IN  RunTrue(p, d),
           news' \in [Plans -> 0..(NewsMax + 1)], today' \in 0..(Limit + 1),
           UNCHANGED <<clock, loop>>, UNCHANGED learnerVars
    PROVE  \E d \in RunRow : Stepped(p, d)
PROOF
<1> DEFINE d == [r EXCEPT !.dec.status = "terminal", !.dec.outcome = outcome]
<1>1. d \in RunRow /\ d.cand = r.cand
      BY DEF RunRow, DecisionRow
<1>2. run' = [run EXCEPT ![p] = d]
      BY DEF Finalized
<1>3. UntilMorning \in Nat
      BY MorningComes, Settings DEF Inv
<1>4. /\ wait' \in [Candidates -> Nat]
      /\ \A c \in Candidates : c # r.cand => wait'[c] = wait[c]
      BY <1>3, Settings DEF Finalized, Inv, TypeOK
<1>5. /\ checked' \in [Plans -> 0..(Cooldown + 1)]
      /\ \A q \in Plans : q # p => checked'[q] = checked[q]
      BY Settings DEF Finalized, Inv, TypeOK
<1> QED BY <1>1, <1>2, <1>4, <1>5 DEF Stepped

\* The end of a Run, with an outcome that fits its status. A decision that a call
\* has made stays; otherwise the end makes it.
LEMMA EndsSteps ==
    ASSUME Inv, NEW p \in Plans, NEW status, NEW outcome, Ends(p, status, outcome),
           run[p].status \in Live,
           \/ status = "completed" /\ outcome = "success_wait"
           \/ status = "failed" /\ outcome \in {"model_failed", "runtime_failed"}
           \/ status = "cancelled" /\ outcome = "cancelled"
    PROVE  \E r \in RunRow : Stepped(p, r)
PROOF
<1> DEFINE r == [run[p] EXCEPT !.status = status, !.tool = "idle"]
           d == [r EXCEPT !.dec.status = "terminal", !.dec.outcome = outcome]
<1>0. run[p] \in RunRow /\ RunTrue(p, run[p])
      BY DEF Inv, TypeOK
<1>1. r \in RunRow /\ r.cand = run[p].cand
      BY <1>0 DEF RunRow, Live
<1>2. UNCHANGED <<clock, loop, news, today>> /\ UNCHANGED learnerVars
      BY DEF Ends
<1>3. CASE r.cand = None \/ AlreadyDecided(r)
  <2>1. run' = [run EXCEPT ![p] = r] /\ UNCHANGED <<wait, checked>>
        BY <1>3 DEF Ends
  <2>2. RunTrue(p, r)
        BY <1>0, <1>3, OutcomeAssumption
           DEF RunTrue, AlreadyDecided, RunRow, DecisionRow, Live, Outcomes, Success, Retried
  <2> QED BY <1>1, <1>2, <2>1, <2>2 DEF Stepped, Inv, TypeOK
<1>4. CASE r.cand # None /\ ~AlreadyDecided(r)
  <2>1. Finalized(p, r, outcome)
        BY <1>4 DEF Ends
  <2>2. RunTrue(p, d)
        BY <1>0, <1>4, OutcomeAssumption
           DEF RunTrue, AlreadyDecided, RunRow, DecisionRow, Live, Outcomes, Success, Retried
  <2>3. outcome \in Outcomes
        BY DEF Outcomes, Success, Retried
  <2>4. news' \in [Plans -> 0..(NewsMax + 1)] /\ today' \in 0..(Limit + 1)
        BY <1>2 DEF Inv, TypeOK
  <2> HIDE DEF r
  <2> QED BY <1>1, <1>2, <1>4, <2>1, <2>2, <2>3, <2>4, FinalizedSteps
<1> QED BY <1>3, <1>4

\* A step of a Run that is not its end and makes no decision.
LEMMA RowSteps ==
    ASSUME Inv, NEW p \in Plans,
           Stick(p) \/ Unstick(p) \/ Notify(p) \/ Conflict(p) \/ Build(p) \/ BreakOff(p)
    PROVE  \E r \in RunRow : Stepped(p, r)
PROOF
<1>0. run[p] \in RunRow /\ RunTrue(p, run[p])
      BY DEF Inv, TypeOK
<1> USE <1>0
<1>1. CASE Stick(p)
  <2> DEFINE r == [run[p] EXCEPT !.status = "stuck"]
  <2>1. r \in RunRow /\ RunTrue(p, r) /\ r.cand = run[p].cand /\ run[p].status \in Live
        BY <1>1 DEF Stick, Idle, RunTrue, RunRow, Live
  <2> QED BY <1>1, <2>1, BecomesSteps DEF Stick
<1>2. CASE Unstick(p)
  <2> DEFINE r == [run[p] EXCEPT !.status = "working"]
  <2>1. r \in RunRow /\ RunTrue(p, r) /\ r.cand = run[p].cand /\ run[p].status \in Live
        BY <1>2 DEF Unstick, RunTrue, RunRow, Live
  <2> QED BY <1>2, <2>1, BecomesSteps DEF Unstick
<1>3. CASE Notify(p)
  <2> DEFINE call == IF run[p].open THEN run[p].call ELSE run[p].call + 1
             r == [run[p] EXCEPT !.call = call, !.open = TRUE, !.tool = Verdict(p)]
  <2>1. Becomes(p, r) /\ Idle(p) /\ run[p].cand # None
        BY <1>3 DEF Notify
  <2>2. /\ call \in 0..MaxCalls /\ call > 0
        /\ run[p].call <= call /\ (~run[p].open => run[p].call < call)
        BY <1>3, Settings DEF Notify, RunTrue, RunRow
  <2>3. Verdict(p) \in {"quiet", "refused", "allowed"}
        BY DEF Verdict
  <2> HIDE DEF call
  <2>4. r \in RunRow /\ r.cand = run[p].cand /\ run[p].status \in Live
    <3>1. Verdict(p) \in {"idle", "quiet", "refused", "allowed", "deferring",
                          "rejecting", "sending"}
          BY <2>3
    <3> QED BY <2>1, <2>2, <3>1 DEF Idle, RunRow, Live
  <2>5. RunTrue(p, r)
        BY <2>1, <2>2, <2>3, Settings DEF Idle, RunTrue, RunRow, DecisionRow, Live, call
  <2> QED BY <2>1, <2>4, <2>5, BecomesSteps
<1>4. CASE Conflict(p) \/ BreakOff(p)
  <2> DEFINE r == [run[p] EXCEPT !.tool = "idle", !.open = FALSE]
  <2>1. Becomes(p, r) /\ run[p].tool # "idle"
        BY <1>4 DEF Conflict, BreakOff, Failed
  <2>2. r \in RunRow /\ RunTrue(p, r) /\ r.cand = run[p].cand /\ run[p].status \in Live
        BY <2>1 DEF RunTrue, RunRow, Live
  <2> QED BY <2>1, <2>2, BecomesSteps
<1>5. CASE Build(p)
  <2> DEFINE next == [quiet |-> "deferring", refused |-> "rejecting", allowed |-> "sending"]
             dec == Built(run[p].dec, run[p].call)
             r == [run[p] EXCEPT !.dec = dec, !.tool = next[run[p].tool]]
  <2>1. Becomes(p, r) /\ Identified(p) /\ run[p].tool \in {"quiet", "refused", "allowed"}
        BY <1>5 DEF Build
  <2>2. next[run[p].tool] \in {"deferring", "rejecting", "sending"}
        BY <2>1
  <2>3. /\ dec \in DecisionRow /\ dec.status = "building" /\ dec.call = run[p].call
        /\ dec.outcome = run[p].dec.outcome
    <3>1. CASE run[p].dec.status = "none"
          BY <3>1 DEF Built, RunRow, DecisionRow
    <3>2. CASE run[p].dec.status # "none"
      <4>1. dec = run[p].dec /\ run[p].dec.call = run[p].call
            BY <2>1, <3>2 DEF Built, Identified, SameCall
      <4>2. run[p].dec.status # "terminal"
            BY <2>1, <4>1, Settings DEF RunTrue, RunRow, Live
      <4> QED BY <3>2, <4>1, <4>2 DEF RunRow, DecisionRow
    <3> QED BY <3>1, <3>2
  <2> HIDE DEF next, dec
  <2>4. r \in RunRow /\ r.cand = run[p].cand /\ run[p].status \in Live
        BY <2>1, <2>2, <2>3 DEF RunTrue, RunRow, Live
  <2>5. RunTrue(p, r)
        BY <2>1, <2>2, <2>3 DEF Identified, SameCall, RunTrue, RunRow, DecisionRow, Live
  <2> QED BY <2>1, <2>4, <2>5, BecomesSteps
<1> QED BY <1>1, <1>2, <1>3, <1>4, <1>5

\* The guard refuses, which is the decision,
LEMMA RefuseSteps ==
    ASSUME Inv, NEW p \in Plans, Refuse(p)
    PROVE  \E r \in RunRow : Stepped(p, r)
PROOF
<1> DEFINE outcome == IF run[p].tool = "deferring" THEN "deferred_quiet_hours"
                      ELSE "guard_rejected"
           r == Finished(p)
           d == [r EXCEPT !.dec.status = "terminal", !.dec.outcome = outcome]
<1>0. run[p] \in RunRow /\ RunTrue(p, run[p])
      BY DEF Inv, TypeOK
<1>1. /\ Finalized(p, r, outcome) /\ run[p].tool \in {"deferring", "rejecting"}
      /\ UNCHANGED <<clock, loop, news, today>> /\ UNCHANGED learnerVars
      BY DEF Refuse
<1>2. r \in RunRow /\ r.cand = run[p].cand /\ r.cand # None /\ run[p].status \in Live
      BY <1>0, <1>1 DEF Finished, RunTrue, RunRow, Live
<1>3. outcome \in {"deferred_quiet_hours", "guard_rejected"} /\ outcome \in Outcomes
      BY DEF Outcomes, Retried
<1>4. run[p].dec.outcome = None /\ run[p].dec.call = run[p].call
      BY <1>0, <1>1 DEF RunTrue
<1> HIDE DEF outcome
<1>5. RunTrue(p, d)
      BY <1>0, <1>1, <1>3, <1>4, OutcomeAssumption
         DEF Finished, RunTrue, RunRow, DecisionRow, Live, Outcomes, Success
<1>6. news' \in [Plans -> 0..(NewsMax + 1)] /\ today' \in 0..(Limit + 1)
      BY <1>1 DEF Inv, TypeOK
<1> HIDE DEF r
<1> QED BY <1>1, <1>2, <1>3, <1>5, <1>6, FinalizedSteps

\* or the learner is told, and nothing was sent before.
LEMMA SendSteps ==
    ASSUME Inv, NEW p \in Plans, Send(p)
    PROVE  \E r \in RunRow : Stepped(p, r)
PROOF
<1> DEFINE dec == Built(run[p].dec, run[p].call)
           r == [Finished(p) EXCEPT !.dec = dec, !.sent = @ + 1]
           d == [r EXCEPT !.dec.status = "terminal", !.dec.outcome = "success_intervention"]
<1>0. run[p] \in RunRow /\ RunTrue(p, run[p])
      BY DEF Inv, TypeOK
<1>1. /\ Finalized(p, r, "success_intervention") /\ Told(p)
      /\ run[p].tool = "sending" \/ (run[p].tool = "allowed" /\ Identified(p))
      /\ UNCHANGED <<clock, loop>> /\ UNCHANGED learnerVars
      BY DEF Send, Finished
<1>2. run[p].open /\ run[p].call > 0 /\ run[p].cand # None /\ run[p].status = "working"
      BY <1>0, <1>1 DEF RunTrue
<1>3. run[p].dec.status # "terminal"
  <2>1. CASE run[p].tool = "sending"
        BY <1>0, <2>1 DEF RunTrue
  <2>2. CASE run[p].tool = "allowed" /\ Identified(p)
        BY <1>0, <1>2, <2>2, Settings DEF Identified, SameCall, RunTrue, RunRow, Live
  <2> QED BY <1>1, <2>1, <2>2
<1>4. run[p].dec.outcome = None /\ run[p].sent = 0
      BY <1>0, <1>3, OutcomeAssumption DEF RunTrue, Outcomes, Success
<1>5. dec \in DecisionRow /\ dec.call <= run[p].call
  <2>1. CASE run[p].dec.status = "none"
    <3>1. dec \in DecisionRow /\ dec.call = run[p].call
          BY <1>0, <2>1 DEF Built, RunRow, DecisionRow
    <3>2. run[p].call <= run[p].call
          BY <1>0, Settings DEF RunRow
    <3> QED BY <3>1, <3>2
  <2>2. CASE run[p].dec.status # "none"
        BY <1>0, <2>2 DEF Built, RunTrue, RunRow
  <2> QED BY <2>1, <2>2
<1>6. 1 \in 0..MaxCalls
      BY <1>0, <1>2, Settings DEF RunRow
<1> HIDE DEF dec
<1>7. r = [run[p] EXCEPT !.tool = "idle", !.open = FALSE, !.dec = dec, !.sent = 1]
  <2>1. Finished(p) = [run[p] EXCEPT !.tool = "idle", !.open = FALSE]
        BY DEF Finished
  <2>2. Finished(p).sent + 1 = 1
        BY <1>0, <1>4, <2>1 DEF RunRow
  <2>3. r = [Finished(p) EXCEPT !.dec = dec, !.sent = 1]
        BY <2>2
  <2> QED BY <1>0, <2>1, <2>3 DEF RunRow
<1> HIDE DEF r
<1>8. r \in RunRow /\ r.cand = run[p].cand /\ r.cand # None /\ run[p].status \in Live
      BY <1>0, <1>2, <1>5, <1>6, <1>7 DEF RunRow, Live
<1>9. RunTrue(p, d)
      BY <1>0, <1>2, <1>5, <1>7, <1>8, OutcomeAssumption
         DEF RunTrue, RunRow, DecisionRow, Live, Outcomes, Success
<1>10. news' \in [Plans -> 0..(NewsMax + 1)] /\ today' \in 0..(Limit + 1)
       BY <1>1, Settings DEF Told, Older, Inv, TypeOK
<1>11. "success_intervention" \in Outcomes
       BY DEF Outcomes, Success
<1> QED BY <1>1, <1>8, <1>9, <1>10, <1>11, FinalizedSteps

\* Every step of a Run is such a step.
LEMMA RunStepped ==
    ASSUME Inv, NEW p \in Plans, RunSteps(p)
    PROVE  \E r \in RunRow : Stepped(p, r)
PROOF
<1>1. CASE Complete(p)
      BY <1>1, EndsSteps DEF Complete, Idle, Live
<1>2. CASE Fail(p)
  <2>1. PICK outcome \in {"model_failed", "runtime_failed"} : Ends(p, "failed", outcome)
        BY <1>2 DEF Fail
  <2> QED BY <1>2, <2>1, EndsSteps DEF Fail, Idle, Live
<1>3. CASE Cancel(p)
      BY <1>3, EndsSteps DEF Cancel
<1> QED BY <1>1, <1>2, <1>3, RowSteps, RefuseSteps, SendSteps DEF RunSteps

-----------------------------------------------------------------------------
(* The invariant.                                                           *)

\* A new Run, of the scheduler on the candidate's plan or of the learner.
LEMMA NewRunTrue ==
    ASSUME NEW p \in Plans, NEW c \in Candidates \cup {None}, c # None => PlanOf[c] = p
    PROVE  NewRun(c) \in RunRow /\ RunTrue(p, NewRun(c))
PROOF BY Settings, OutcomeAssumption
      DEF NewRun, NoDecision, RunRow, DecisionRow, RunTrue, Live, Outcomes, Success

\* The initial state satisfies the invariant.
LEMMA InvInit == Init => Inv
PROOF
<1> SUFFICES ASSUME Init PROVE Inv
    OBVIOUS
<1>1. clock \in 0..(Day - 1)
      BY ProactiveAssumption DEF Init
<1>2. ASSUME NEW p \in Plans PROVE run[p] \in RunRow /\ RunTrue(p, run[p])
  <2>1. run[p] = [NewRun(None) EXCEPT !.status = "none"]
        BY DEF Init
  <2>2. NewRun(None) \in RunRow /\ RunTrue(p, NewRun(None)) /\ NewRun(None).cand = None
        BY NewRunTrue DEF NewRun
  <2> QED BY <2>1, <2>2 DEF NewRun, NoDecision, RunRow, RunTrue, Live
<1>3. run \in [Plans -> RunRow]
      BY <1>2 DEF Init
<1>4. loop \in LoopRow /\ ScanTrue
      BY Settings DEF Init, Asleep, LoopRow, ScanTrue
<1>5. TypeOK
  <2>1. /\ checked \in [Plans -> 0..(Cooldown + 1)] /\ wait \in [Candidates -> Nat]
        /\ news \in [Plans -> 0..(NewsMax + 1)]
        BY Settings DEF Init
  <2>2. today \in 0..(Limit + 1) /\ faults \in 0..MaxFaults /\ turns \in 0..MaxTurns
        BY Settings DEF Init
  <2>3. due \subseteq Candidates /\ active \subseteq Plans /\ paused \in BOOLEAN
        BY DEF Init
  <2> QED BY <1>1, <1>3, <1>4, <2>1, <2>2, <2>3 DEF TypeOK
<1> QED BY <1>2, <1>4, <1>5 DEF Inv

\* Time passes: ages grow up to a limit, waits shrink.
LEMMA TickKeeps == Inv /\ Tick => Inv'
PROOF
<1> SUFFICES ASSUME Inv, Tick PROVE Inv'
    OBVIOUS
<1> USE DEF Inv
<1>1. clock' \in 0..(Day - 1) /\ today' \in 0..(Limit + 1)
      BY Settings DEF Tick, TypeOK
<1>2. /\ wait' \in [Candidates -> Nat]
      /\ \A c \in Candidates : wait[c] = 0 => wait'[c] = 0
      BY DEF Tick, TypeOK, Sooner
<1>3. /\ checked' \in [Plans -> 0..(Cooldown + 1)]
      /\ \A p \in Plans : checked[p] > Cooldown => checked'[p] > Cooldown
      BY Settings DEF Tick, TypeOK, Older
<1>4. news' \in [Plans -> 0..(NewsMax + 1)]
      BY Settings DEF Tick, TypeOK, Older
<1>5. loop' \in LoopRow /\ loop' = [loop EXCEPT !.left = Sooner(@)]
      BY Settings DEF Tick, TypeOK, LoopRow, Sooner
<1>6. UNCHANGED <<run, faults>> /\ UNCHANGED learnerVars
      BY DEF Tick
<1>7. TypeOK'
      BY <1>1, <1>2, <1>3, <1>4, <1>5, <1>6 DEF TypeOK, learnerVars
<1>8. \A p \in Plans : RunTrue(p, run'[p])
      BY <1>6
<1>9. ScanTrue'
  <2>1. /\ loop'.pc = loop.pc /\ loop'.cool = loop.cool
        /\ loop'.busy = loop.busy /\ loop'.cand = loop.cand
        BY <1>5 DEF TypeOK, LoopRow
  <2>2. loop.pc = "trigger" => PlanOf[loop.cand] \in Plans
        BY ProactiveAssumption DEF ScanTrue
  <2> QED BY <1>2, <1>3, <1>6, <2>1, <2>2 DEF ScanTrue
<1> QED BY <1>7, <1>8, <1>9

\* The loop goes on and changes nothing else.
LEMMA GoesKeeps ==
    ASSUME Inv, NEW from, NEW to \in LoopRow, Goes(from, to),
           faults' \in 0..MaxFaults, ScanTrue'
    PROVE  Inv'
PROOF BY DEF Inv, TypeOK, Goes, learnerVars, ageVars

\* A cycle up to the trigger.
LEMMA CycleKeeps == Inv /\ (Beats \/ Polled \/ PollFails \/ Look \/ Choose) => Inv'
PROOF
<1> SUFFICES ASSUME Inv, Beats \/ Polled \/ PollFails \/ Look \/ Choose PROVE Inv'
    OBVIOUS
<1> USE DEF Inv
<1>0. loop \in LoopRow /\ faults \in 0..MaxFaults /\ Asleep \in LoopRow
      BY Settings DEF TypeOK, LoopRow, Asleep
<1>1. CASE Beats
  <2> DEFINE to == [loop EXCEPT !.pc = "poll"]
  <2>1. to \in LoopRow /\ Goes("sleep", to) /\ faults' = faults /\ loop' = to
        BY <1>0, <1>1 DEF Beats, Goes, LoopRow
  <2>2. ScanTrue'
        BY <1>0, <2>1 DEF ScanTrue, LoopRow
  <2> QED BY <1>0, <2>1, <2>2, GoesKeeps
<1>2. CASE Polled
  <2> DEFINE to == [loop EXCEPT !.pc = "look"]
  <2>1. to \in LoopRow /\ Goes("poll", to) /\ faults' = faults /\ loop' = to
        BY <1>0, <1>2 DEF Polled, Goes, LoopRow
  <2>2. ScanTrue'
        BY <1>0, <2>1 DEF ScanTrue, LoopRow
  <2> QED BY <1>0, <2>1, <2>2, GoesKeeps
<1>3. CASE PollFails
  <2>1. Goes("poll", Asleep) /\ faults' \in 0..MaxFaults /\ loop' = Asleep
        BY <1>0, <1>3, Settings DEF PollFails, Goes, Fault
  <2>2. ScanTrue'
        BY <2>1 DEF ScanTrue, Asleep
  <2> QED BY <1>0, <2>1, <2>2, GoesKeeps
<1>4. CASE Look
  <2> DEFINE scan == [loop EXCEPT !.pc = "choose", !.cool = Recent,
                                  !.busy = {p \in Plans : run[p].status \in Live}]
             to == IF paused THEN Asleep ELSE scan
  <2>1. Goes("look", to) /\ faults' = faults /\ loop' = to /\ UNCHANGED <<run, checked>>
        BY <1>4 DEF Look, Goes, ageVars
  <2>2. scan \in LoopRow
        BY <1>0 DEF LoopRow, Recent
  <2>3. ScanTrue'
    <3>1. CASE loop' = Asleep
          BY <3>1 DEF ScanTrue, Asleep
    <3>2. CASE loop' = scan
      <4>1. /\ loop'.pc = "choose" /\ loop'.cool = {p \in Plans : checked[p] <= Cooldown}
            /\ loop'.busy = {p \in Plans : run[p].status \in Live}
            BY <1>0, <3>2 DEF LoopRow, Recent
      <4>2. \A p \in Plans : checked[p] <= Cooldown \/ checked[p] > Cooldown
            BY Settings DEF TypeOK
      <4> QED BY <2>1, <4>1, <4>2 DEF ScanTrue
    <3> QED BY <2>1, <3>1, <3>2
  <2>4. to \in LoopRow
        BY <1>0, <2>2
  <2> HIDE DEF to
  <2> QED BY <1>0, <2>1, <2>3, <2>4, GoesKeeps
<1>5. CASE Choose
  <2> DEFINE found == {i \in DOMAIN Order : Eligible(Order[i])}
             first == CHOOSE i \in found : \A j \in found : i <= j
             next == [loop EXCEPT !.pc = "trigger", !.cool = {}, !.cand = Order[first]]
             to == IF found = {} THEN Asleep ELSE next
  <2>1. Goes("choose", to) /\ faults' = faults /\ loop' = to /\ loop.pc = "choose"
        /\ UNCHANGED <<run, checked, wait>>
        BY <1>5 DEF Choose, Goes, ageVars
  <2>2. ASSUME found # {} PROVE /\ Order[first] \in Candidates /\ Eligible(Order[first])
    <3>1. found \subseteq Nat /\ \A i \in found : Order[i] \in Candidates
          BY ProactiveAssumption
    <3>2. \E i \in found : \A j \in found : i <= j
          BY <2>2, <3>1, LeastNatural
    <3>3. first \in found
          BY <3>2
    <3> QED BY <3>1, <3>3
  <2> HIDE DEF first
  <2>3. found # {} => next \in LoopRow
        BY <1>0, <2>2 DEF LoopRow
  <2>4. ScanTrue'
    <3>1. CASE loop' = Asleep
          BY <3>1 DEF ScanTrue, Asleep
    <3>2. CASE found # {} /\ loop' = next
      <4>1. loop'.pc = "trigger" /\ loop'.cand = Order[first] /\ loop'.busy = loop.busy
            BY <1>0, <3>2 DEF LoopRow
      <4>2. /\ Order[first] \in Candidates /\ PlanOf[Order[first]] \in Plans
            /\ PlanOf[Order[first]] \notin loop.cool /\ wait[Order[first]] = 0
            BY <2>2, <3>2, ProactiveAssumption DEF Eligible, TypeOK
      <4> QED BY <2>1, <4>1, <4>2 DEF ScanTrue
    <3> QED BY <2>1, <3>1, <3>2
  <2>5. to \in LoopRow
        BY <1>0, <2>3
  <2> HIDE DEF to
  <2> QED BY <1>0, <2>1, <2>4, <2>5, GoesKeeps
<1> QED BY <1>1, <1>2, <1>3, <1>4, <1>5

\* The trigger starts a Run on the candidate's plan, or nothing.
LEMMA TriggerKeeps == Inv /\ Trigger => Inv'
PROOF
<1> SUFFICES ASSUME Inv, Trigger PROVE Inv'
    OBVIOUS
<1> USE DEF Inv
<1>1. loop.cand \in Candidates /\ PlanOf[loop.cand] \in Plans
      BY ProactiveAssumption DEF Trigger, ScanTrue
<1>2. NewRun(loop.cand) \in RunRow /\ RunTrue(PlanOf[loop.cand], NewRun(loop.cand))
      BY <1>1, NewRunTrue
<1>3. run' \in [Plans -> RunRow] /\ \A p \in Plans : RunTrue(p, run'[p])
      BY <1>1, <1>2 DEF Trigger, TypeOK
<1>4. loop' = Asleep /\ Asleep \in LoopRow
      BY Settings DEF Trigger, LoopRow, Asleep
<1>5. TypeOK'
      BY <1>3, <1>4 DEF Trigger, TypeOK, learnerVars, ageVars
<1>6. ScanTrue'
      BY <1>4 DEF ScanTrue, Asleep
<1> QED BY <1>3, <1>5, <1>6

\* A step of a Run keeps what the scan has read: if its plan was free then, the
\* Run is not one of the scheduler and has no decision.
LEMMA RunKeeps == ASSUME Inv, NEW p \in Plans, RunSteps(p) PROVE Inv'
PROOF
<1> USE DEF Inv
<1>1. PICK r \in RunRow : Stepped(p, r)
      BY RunStepped
<1>2. run' \in [Plans -> RunRow] /\ \A q \in Plans : RunTrue(q, run'[q])
      BY <1>1 DEF Stepped, TypeOK
<1>3. faults' \in 0..MaxFaults
      BY Settings DEF RunSteps, Complete, Fail, Cancel, Stick, Unstick, Notify, Conflict, Build,
                      Refuse, Send, BreakOff, Fault, TypeOK
<1>4. TypeOK'
      BY <1>1, <1>2, <1>3 DEF Stepped, TypeOK, learnerVars
<1>5. ScanTrue'
  <2>1. loop' = loop
        BY <1>1 DEF Stepped
  <2>2. ASSUME loop.pc \in {"choose", "trigger"}, NEW q \in Plans \ loop.busy,
               run'[q].status \in Live
        PROVE  run'[q].cand = None
        BY <1>1, <2>2 DEF Stepped, ScanTrue, TypeOK
  <2>3. ASSUME loop.pc \in {"choose", "trigger"}, NEW q \in Plans \ loop.busy
        PROVE  /\ checked'[q] = checked[q]
               /\ \A c \in Candidates : PlanOf[c] = q => wait'[c] = wait[c]
    <3>1. CASE q = p
      <4>1. r.cand = None
            BY <1>1, <2>3, <3>1 DEF Stepped, ScanTrue
      <4> QED BY <1>1, <4>1 DEF Stepped
    <3>2. CASE q # p
      <4>1. r.cand # None => PlanOf[r.cand] = p
            BY <1>1 DEF Stepped, RunTrue
      <4> QED BY <1>1, <3>2, <4>1 DEF Stepped
    <3> QED BY <3>1, <3>2
  <2>4. loop.pc = "trigger" => loop.cand \in Candidates /\ PlanOf[loop.cand] \in Plans
        BY ProactiveAssumption DEF ScanTrue
  <2> QED BY <2>1, <2>2, <2>3, <2>4 DEF ScanTrue
<1> QED BY <1>2, <1>4, <1>5

\* A crash forgets the loop and the calls under way, not the rows.
LEMMA CrashKeeps == Inv /\ Crash => Inv'
PROOF
<1> SUFFICES ASSUME Inv, Crash PROVE Inv'
    OBVIOUS
<1> USE DEF Inv
<1>1. ASSUME NEW p \in Plans PROVE run'[p] \in RunRow /\ RunTrue(p, run'[p])
  <2>1. run'[p] = [run[p] EXCEPT !.tool = "idle"] /\ run[p] \in RunRow /\ RunTrue(p, run[p])
        BY DEF Crash, TypeOK
  <2> QED BY <2>1 DEF RunRow, RunTrue
<1>2. run' \in [Plans -> RunRow]
      BY <1>1 DEF Crash
<1>3. loop' = Asleep /\ Asleep \in LoopRow /\ faults' \in 0..MaxFaults
      BY Settings DEF Crash, Fault, TypeOK, LoopRow, Asleep
<1>4. TypeOK'
      BY <1>2, <1>3 DEF Crash, TypeOK, learnerVars, ageVars
<1>5. ScanTrue'
      BY <1>3 DEF ScanTrue, Asleep
<1> QED BY <1>1, <1>4, <1>5

\* What the learner does.
LEMMA LearnerKeeps == Inv /\ Learner => Inv'
PROOF
<1> SUFFICES ASSUME Inv, Learner PROVE Inv'
    OBVIOUS
<1> USE DEF Inv
<1>0. Turn => turns' \in 0..MaxTurns
      BY Settings DEF Turn, TypeOK
<1>1. CASE Pause
      BY <1>0, <1>1 DEF Pause, TypeOK, ScanTrue, ageVars
<1>2. ASSUME NEW c \in Candidates, Learn(c) PROVE Inv'
      BY <1>0, <1>2 DEF Learn, TypeOK, ScanTrue, ageVars
<1>3. ASSUME NEW p \in Plans, Archive(p) PROVE Inv'
      BY <1>0, <1>3 DEF Archive, TypeOK, ScanTrue, ageVars
<1>4. ASSUME NEW p \in Plans, UserRun(p) PROVE Inv'
  <2>1. /\ run' = [run EXCEPT ![p] = NewRun(None)] /\ Turn
        /\ UNCHANGED <<clock, due, active, paused, loop, faults>> /\ UNCHANGED ageVars
        BY <1>4 DEF UserRun
  <2>2. NewRun(None) \in RunRow /\ RunTrue(p, NewRun(None)) /\ NewRun(None).cand = None
        BY NewRunTrue DEF NewRun
  <2>3. run' \in [Plans -> RunRow] /\ \A q \in Plans : RunTrue(q, run'[q])
        BY <2>1, <2>2 DEF TypeOK
  <2>4. TypeOK'
        BY <1>0, <2>1, <2>3 DEF TypeOK, ageVars
  <2>5. ScanTrue'
        BY <2>1, <2>2 DEF ScanTrue, TypeOK, ageVars
  <2> QED BY <2>3, <2>4, <2>5
<1>5. ASSUME NEW p \in Plans, UserNews(p) PROVE Inv'
  <2>1. news' \in [Plans -> 0..(NewsMax + 1)] /\ today' \in 0..(Limit + 1)
        BY <1>5, Settings DEF UserNews, Told, Older, TypeOK
  <2> QED BY <1>0, <1>5, <2>1 DEF UserNews, TypeOK, ScanTrue
<1> QED BY <1>1, <1>2, <1>3, <1>4, <1>5 DEF Learner

\* Every step keeps the invariant.
LEMMA InvStep == Inv /\ [Next]_vars => Inv'
PROOF
<1>1. Inv /\ UNCHANGED vars => Inv'
      BY DEF Inv, TypeOK, ScanTrue, vars
<1> QED BY <1>1, TickKeeps, CycleKeeps, TriggerKeeps, RunKeeps, CrashKeeps, LearnerKeeps
        DEF Next, Loop

\* The invariant holds in every reachable state.
THEOREM Invariance == Spec => []Inv
PROOF BY InvInit, InvStep, PTL DEF Spec

\* Decided (proactive_decisions): a Run of the scheduler that has ended has one
\* decision, and it tells what the learner saw, whatever breaks off in between.
THEOREM DecisionsTrue == Spec => []Decided
PROOF
<1>1. Inv => Decided
      BY DEF Inv, RunTrue, Decided, DecisionTrue
<1> QED BY <1>1, Invariance, PTL

\* ComesBackInTime (_next_candidate, trigger_now): a Run of the scheduler only
\* begins on a plan that was not just checked and for a candidate whose wait is
\* over, unless a Run was on the plan when the scan began.
THEOREM NeverTooEarly == Spec => ComesBackInTime
PROOF
<1> DEFINE InTime == \A p \in Plans : Starts(p) =>
                        \/ checked[p] > Cooldown /\ wait[run'[p].cand] = 0
                        \/ p \in loop.busy
<1>1. Inv /\ [Next]_vars => [InTime]_vars
  <2> SUFFICES ASSUME Inv, Next, NEW p \in Plans, Starts(p)
               PROVE  \/ checked[p] > Cooldown /\ wait[run'[p].cand] = 0
                      \/ p \in loop.busy
      OBVIOUS
  <2> USE DEF Inv
  <2>1. CASE Tick \/ Beats \/ Polled \/ PollFails \/ Look \/ Choose
        BY <2>1 DEF Tick, Beats, Polled, PollFails, Look, Choose, Goes, Starts
  <2>2. CASE Trigger
    <3>1. loop.pc = "trigger" /\ loop.cand \in Candidates /\ PlanOf[loop.cand] \in Plans
          BY <2>2, ProactiveAssumption DEF Trigger, ScanTrue
    <3>2. p = PlanOf[loop.cand] /\ run'[p] = NewRun(loop.cand)
          BY <2>2, <3>1 DEF Trigger, Starts, TypeOK
    <3> QED BY <3>1, <3>2 DEF ScanTrue, NewRun
  <2>3. CASE Crash
        BY <2>3 DEF Crash, Starts, TypeOK, RunRow
  <2>4. CASE Learner
        BY <2>4, OutcomeAssumption
           DEF Learner, Pause, Learn, Archive, UserRun, UserNews, Starts, NewRun, TypeOK
  <2>5. ASSUME NEW q \in Plans, RunSteps(q) PROVE FALSE
    <3>1. PICK r \in RunRow : Stepped(q, r)
          BY <2>5, RunStepped
    <3> QED BY <3>1 DEF Stepped, Starts, TypeOK
  <2> QED BY <2>1, <2>2, <2>3, <2>4, <2>5 DEF Next, Loop
<1> QED BY <1>1, Invariance, PTL DEF ComesBackInTime, Spec
=============================================================================
