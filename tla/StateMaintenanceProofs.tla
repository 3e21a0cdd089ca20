----------------------- MODULE StateMaintenanceProofs -----------------------
(***************************************************************************)
(* Proofs about StateMaintenance: the state can be recovered whatever is   *)
(* interrupted and however often, and a maintenance command is atomic.     *)
(*                                                                         *)
(* While a switch can be taken back, each path has one of a few shapes,    *)
(* and what is left to do follows from them: so the state before the       *)
(* switch, Original, can be read off the disk between any two renames.     *)
(* That state is in a backup, and without a late interrupt it is the one   *)
(* that a start may find. The commit is the one step of a command that     *)
(* changes what the next start finds.                                      *)
(***************************************************************************)
EXTENDS StateMaintenance, TLAPS

-----------------------------------------------------------------------------
(* The invariant.                                                          *)

Stages ==
    {"none", "rollback", "cleanup", "recovered", "running", "backup", "publish",
     "make", "materialize", "switch", "moving", "done"}
Steps == {"quarantine", "install", "pull", "return"} \X Paths
Holder ==
    [kind : Kinds \cup {"none"}, pc : Stages, todo : SUBSET Steps, want : Files, recovering : BOOLEAN]
Operation ==
    [dir : BOOLEAN, parts : SUBSET {"candidate", "rollback", "shelves"},
     journal : {"none", "open", "committed", "rolled_back"},
     old : SUBSET Paths, target : SUBSET (Paths \ {Sidecar})]
Reasons == {"orphan_sidecar", "incomplete_staging", "rollback_without_journal", "ambiguous"}

Types ==
    /\ live \in Files /\ cand \in Files /\ roll \in Files
    /\ op \in Operation
    /\ stage \in BOOLEAN /\ hot \in BOOLEAN
    /\ backups \subseteq Files /\ allowed \subseteq Files
    /\ proc \in Holder
    /\ refused \subseteq Reasons
    /\ gen \in 1..MaxGen /\ crashes \in Nat /\ faults \in Nat /\ late \in Nat

\* Nobody is at work inside the operation directory but who switches, rolls back or
\* cleans up, and what is in it when.
DirectoryTrue ==
    /\ ~op.dir => op = NoOp
    /\ "candidate" \notin op.parts => cand = Nothing
    /\ "rollback" \notin op.parts => roll = Nothing
    /\ op.journal = "open" => "candidate" \in op.parts /\ "rollback" \in op.parts
    /\ cand[Sidecar] = Absent

\* Who prepares a state: a reset or a restore.
Prepared ==
    \/ proc.pc \in {"materialize", "switch"}
    \/ proc.pc \in {"backup", "publish"} /\ proc.kind = "restore"

\* What a holder of the lease has found or made before it got to where it is.
HolderTrue ==
    /\ At("none") => proc = Free
    /\ At("running") \/ At("recovered") \/ At("done") => ~op.dir
    /\ proc.pc \in {"backup", "publish"} =>
         proc.kind \in {"backup", "reset", "mutation", "restore"} /\ (proc.kind # "restore" => ~op.dir)
    /\ proc.pc \in {"make", "materialize", "switch", "moving"} => proc.kind \in {"reset", "restore"}
    /\ At("make") => op.journal = "none" /\ roll = Nothing /\ cand = Nothing
    /\ Prepared =>
         /\ "candidate" \in op.parts /\ "rollback" \in op.parts
         /\ op.journal = "none" /\ roll = Nothing
         /\ cand = IF At("materialize") THEN Nothing ELSE Wanted
    /\ At("moving") => op.journal = "open"
    /\ At("rollback") =>
         /\ "candidate" \in op.parts /\ "rollback" \in op.parts
         /\ op.journal \in {"open", "committed"} /\ (late = 0 => op.journal = "open")
    /\ At("cleanup") => op.journal # "open"
    /\ At("publish") => live # Nothing
    /\ proc.pc \in {"recovered", "running", "backup", "publish", "make", "materialize", "switch", "done"}
         => ~Orphan

WantTrue ==
    /\ \A b \in backups : b[Sidecar] = Absent
    /\ proc.want = Nothing \/ proc.want \in backups
    /\ proc.kind = "restore" /\ proc.pc \in {"backup", "publish", "make", "materialize", "switch", "moving"}
         => proc.want \in backups

\* A transaction of the application that died lies where it was.
HotTrue == hot => proc = Free /\ ~op.dir /\ live[Db] # Absent

\* While a switch can be taken back, every path is in one of these shapes.
Switching == op.journal = "open" \/ At("rollback")

Home(p) == live[p] # Absent /\ roll[p] = Absent /\ (p \in op.target => cand[p] # Absent)
Away(p) == live[p] = Absent /\ roll[p] # Absent /\ (p \in op.target => cand[p] # Absent)
Replaced(p) == p \in op.target /\ live[p] # Absent /\ roll[p] # Absent /\ cand[p] = Absent

Shaped(p) ==
    /\ p \in op.old => Home(p) \/ Away(p) \/ Replaced(p)
    /\ p \notin op.old => roll[p] = Absent
    /\ p \in op.target /\ p \notin op.old => (live[p] = Absent <=> cand[p] # Absent)
    /\ p \notin op.target => cand[p] = Absent
    /\ p \notin op.old /\ p \notin op.target => live[p] = Absent

\* A database and its own sidecar.
Paired(f) ==
    f[Sidecar] # Absent => f[Db] = f[Sidecar]

SwitchTrue ==
    Switching =>
        /\ \A p \in Paths : Shaped(p)
        /\ Paired(Original)
        /\ roll[Sidecar] # Absent => roll[Db] # Absent

\* What is left to do follows from what has been done.
TodoTrue ==
    /\ At("moving") =>
         /\ proc.todo \subseteq SwitchSteps(op.old, op.target)
         /\ \A p \in op.old : <<"quarantine", p>> \in proc.todo <=> Home(p)
         /\ \A p \in op.target : <<"install", p>> \in proc.todo <=> cand[p] # Absent
    /\ At("rollback") =>
         /\ proc.todo \subseteq RollbackSteps
         /\ \A p \in op.target : <<"pull", p>> \notin proc.todo => cand[p] # Absent
         /\ \A p \in op.old : <<"return", p>> \notin proc.todo =>
              roll[p] = Absent /\ \A q \in op.target : <<"pull", q>> \notin proc.todo

SidecarOwn == live[Db] # Absent /\ live[Sidecar] # Absent => live[Db] = live[Sidecar]

\* What is about to be moved away is in a backup, and so is what can be taken back.
Saved ==
    At("switch") \/ (proc.kind = "reset" /\ proc.pc \in {"make", "materialize"})
        => live = Nothing \/ Merged(live) \in backups

Backed == op.journal = "open" => Original = Nothing \/ Merged(Original) \in backups

\* Without a late interrupt the state is one of those that may be found, and is whole.
Full(f) == \A p \in Trees : f[p] # Absent

State == IF op.journal = "open" THEN Original ELSE live

Whole ==
    late = 0 =>
        /\ Merged(State) \in allowed
        /\ State[Sidecar] # Absent => State[Db] # Absent
        /\ State = Nothing \/ Full(State)
        /\ \A b \in backups : Full(b)
        /\ "orphan_sidecar" \notin refused

Clear == "ambiguous" \notin refused

Inv ==
    /\ Types
    /\ DirectoryTrue /\ HolderTrue /\ WantTrue /\ HotTrue
    /\ SwitchTrue /\ TodoTrue
    /\ SidecarOwn /\ Saved /\ Backed
    /\ Whole /\ Clear

-----------------------------------------------------------------------------
(* Files.                                                                  *)

\* The versions that a path may have.
LEMMA ContentsKnown ==
    /\ Absent \in Contents /\ Empty \in Contents /\ Empty # Absent
    /\ 1 \in Contents /\ 1 # Absent
    /\ \A g \in 1..MaxGen : g \in Contents /\ g # Absent
  BY MaintenanceAssumption DEF Contents, Absent, Empty

\* The paths that are no trees are the database and its sidecar.
LEMMA PathsKnown ==
    /\ Db \in Paths /\ Sidecar \in Paths /\ Db # Sidecar
    /\ Db \notin Trees /\ Sidecar \notin Trees /\ Trees \subseteq Paths
    /\ \A p \in Paths : p \in Trees \/ p = Db \/ p = Sidecar
  BY MaintenanceAssumption DEF Trees

\* The two states that no backup is needed for.
LEMMA NothingKnown ==
    /\ Nothing \in Files /\ \A p \in Paths : Nothing[p] = Absent
    /\ Fresh \in Files /\ \A p \in Paths : Fresh[p] = IF p \in Trees THEN Empty ELSE Absent
  BY ContentsKnown DEF Nothing, Fresh, Files

\* A rename changes one path.
LEMMA PathSet ==
    ASSUME NEW f \in Files, NEW p \in Paths, NEW v \in Contents
    PROVE  /\ [f EXCEPT ![p] = v] \in Files
           /\ [f EXCEPT ![p] = v][p] = v
           /\ \A q \in Paths \ {p} : [f EXCEPT ![p] = v][q] = f[q]
  BY DEF Files

\* Two directories are the same when they agree on every path.
LEMMA SameFiles ==
    ASSUME NEW f \in Files, NEW g \in Files, \A p \in Paths : f[p] = g[p]
    PROVE  f = g
  BY DEF Files

\* A snapshot drops the sidecar and nothing else.
LEMMA MergedIs ==
    ASSUME NEW f \in Files
    PROVE  /\ Merged(f) \in Files
           /\ Merged(f)[Sidecar] = Absent
           /\ \A p \in Paths \ {Sidecar} : Merged(f)[p] = f[p]
           /\ f[Sidecar] = Absent => Merged(f) = f
  <1>1. Merged(f) = [f EXCEPT ![Sidecar] = Absent]
    BY DEF Merged
  <1>2. Sidecar \in Paths /\ Absent \in Contents
    BY PathsKnown, ContentsKnown
  <1>3. /\ Merged(f) \in Files
        /\ Merged(f)[Sidecar] = Absent
        /\ \A p \in Paths \ {Sidecar} : Merged(f)[p] = f[p]
    BY <1>1, <1>2 DEF Files
  <1>4. ASSUME f[Sidecar] = Absent
        PROVE  Merged(f) = f
    <2>1. \A p \in Paths : Merged(f)[p] = f[p]
      BY <1>3, <1>4
    <2>. QED
      BY <1>3, <2>1, SameFiles
  <1>. QED
    BY <1>3, <1>4

\* The state before a switch is read off the rollback directory and what still
\* lies where it was.
LEMMA OriginalIs ==
    ASSUME Types
    PROVE  /\ Original \in Files
           /\ \A p \in Paths \ op.old : Original[p] = Absent
           /\ \A p \in op.old : Original[p] = IF roll[p] # Absent THEN roll[p] ELSE live[p]
  <1>1. op.old \subseteq Paths
    BY DEF Types, Operation
  <1>2. \A p \in Paths : roll[p] \in Contents /\ live[p] \in Contents
    BY DEF Types, Files
  <1>. QED
    BY <1>1, <1>2, ContentsKnown DEF Original, Files

\* What the command makes has no sidecar and every tree.
LEMMA WantedIs ==
    ASSUME Types, WantTrue
    PROVE  /\ Wanted \in Files /\ Wanted[Sidecar] = Absent /\ Full(Wanted)
           /\ proc.kind # "reset" /\ Full(proc.want) => Wanted = proc.want
  <1>1. proc.want \in Files /\ \A p \in Paths : proc.want[p] \in Contents
    BY DEF Types, Holder, Files
  <1>2. proc.want[Sidecar] = Absent
    BY NothingKnown, PathsKnown DEF WantTrue
  <1>3. CASE proc.kind = "reset"
    <2>1. Wanted = Fresh
      BY <1>3 DEF Wanted
    <2>. QED
      BY <1>3, <2>1, NothingKnown, PathsKnown, ContentsKnown DEF Full
  <1>4. CASE proc.kind # "reset"
    <2>1. Wanted = [p \in Paths |-> IF p \in Trees /\ proc.want[p] = Absent THEN Empty
                                    ELSE proc.want[p]]
      BY <1>4 DEF Wanted
    <2>2. Wanted \in Files
      BY <1>1, <2>1, ContentsKnown DEF Files
    <2>3. Wanted[Sidecar] = Absent /\ Full(Wanted)
      BY <1>2, <2>1, PathsKnown, ContentsKnown DEF Full
    <2>4. ASSUME Full(proc.want)
          PROVE  Wanted = proc.want
      <3>1. \A p \in Paths : Wanted[p] = proc.want[p]
        BY <2>1, <2>4 DEF Full
      <3>. QED
        BY <1>1, <2>2, <3>1, SameFiles
    <2>. QED
      BY <2>2, <2>3, <2>4
  <1>. QED
    BY <1>3, <1>4

\* The state that the next start finds.
LEMMA StateIs ==
    ASSUME Types
    PROVE  State \in Files /\ Logical = Merged(State)
  BY OriginalIs DEF Types, State, Logical

-----------------------------------------------------------------------------
(* The holder of the lease.                                                *)

\* What a rollback has to do, at most.
LEMMA StepsTyped ==
    ASSUME Types
    PROVE  RollbackSteps \in SUBSET Steps
  BY DEF Types, Operation, RollbackSteps, Steps

\* A holder goes on to another place.
LEMMA PcSet ==
    ASSUME Types, NEW x \in Stages
    PROVE  /\ [proc EXCEPT !.pc = x] \in Holder
           /\ [proc EXCEPT !.pc = x].pc = x
           /\ [proc EXCEPT !.pc = x].kind = proc.kind
           /\ [proc EXCEPT !.pc = x].todo = proc.todo
           /\ [proc EXCEPT !.pc = x].want = proc.want
  BY DEF Types, Holder

\* Nobody holds the lease.
LEMMA FreeTyped ==
    /\ Free \in Holder
    /\ Free.pc = "none" /\ Free.kind = "none" /\ Free.want = Nothing /\ Free.todo = {}
  BY NothingKnown DEF Free, Holder, Stages, Kinds

\* A step that moves no file and leaves the operation and the backups alone.
LEMMA ProcOnly ==
    ASSUME Inv, UNCHANGED <<live, cand, roll, op, backups, late>>,
           Types', HolderTrue', WantTrue', HotTrue', TodoTrue', Saved', Clear',
           proc'.pc = "rollback" => op.journal = "open" \/ proc.pc = "rollback",
           late = 0 /\ "orphan_sidecar" \in refused' => "orphan_sidecar" \in refused,
           Merged(State) \in allowed => Merged(State) \in allowed'
    PROVE  Inv'
  <1>1. Original' = Original
    BY DEF Original
  <1>2. State' = State
    BY <1>1 DEF State
  <1>3. DirectoryTrue'
    BY DEF Inv, DirectoryTrue, Nothing, NoOp
  <1>4. SwitchTrue'
    <2>1. Switching' => Switching
      BY DEF Switching, At
    <2>2. \A p \in Paths : Shaped(p) => Shaped(p)'
      BY DEF Shaped, Home, Away, Replaced
    <2>3. Paired(Original) => Paired(Original)'
      BY <1>1 DEF Paired
    <2>. QED
      BY <2>1, <2>2, <2>3 DEF Inv, SwitchTrue
  <1>5. SidecarOwn' /\ Backed'
    BY <1>1 DEF Inv, SidecarOwn, Backed, Merged, Nothing
  <1>6. Whole'
    <2>1. Merged(State)' = Merged(State)
      BY <1>2 DEF Merged
    <2>2. \A f : Full(f)' <=> Full(f)
      BY DEF Full
    <2>. QED
      BY <1>2, <2>1, <2>2 DEF Inv, Whole, Nothing, Full
  <1>. QED
    BY <1>3, <1>4, <1>5, <1>6 DEF Inv

\* The lease is given back, by whatever end.
LEMMA Released ==
    ASSUME Inv, UNCHANGED <<live, cand, roll, op, backups, late>>, proc' = Free,
           hot' => ~op.dir /\ live[Db] # Absent
    PROVE  HolderTrue' /\ WantTrue' /\ HotTrue' /\ TodoTrue' /\ Saved'
  <1>1. proc' = Free /\ proc'.pc = "none" /\ proc'.kind = "none" /\ proc'.want = Nothing
    BY FreeTyped
  <1>2. HolderTrue'
    BY <1>1 DEF HolderTrue, At, Prepared, Orphan, Free, Nothing
  <1>3. WantTrue'
    BY <1>1 DEF Inv, WantTrue, Nothing
  <1>4. HotTrue'
    BY <1>1 DEF HotTrue, Free, Nothing
  <1>5. TodoTrue' /\ Saved'
    BY <1>1 DEF TodoTrue, Saved, At
  <1>. QED
    BY <1>2, <1>3, <1>4, <1>5

-----------------------------------------------------------------------------
(* Steps that move no file.                                                *)

\* What taking the lease may come to.
LEMMA EnterIs ==
    ASSUME Inv, NEW kind \in Kinds, Enter(kind)
    PROVE  /\ proc = Free /\ hot' = FALSE
           /\ UNCHANGED <<live, cand, roll, op, stage, backups, allowed, gen, crashes, faults, late>>
           /\ \/ /\ proc' = Free
                 /\ \/ refused' = refused \cup {"incomplete_staging"}
                    \/ refused' = refused \cup {"rollback_without_journal"}
                    \/ ~op.dir /\ Orphan /\ refused' = refused \cup {"orphan_sidecar"}
              \/ /\ refused' = refused
                 /\ \/ ~op.dir /\ ~Orphan
                       /\ proc' = [Free EXCEPT !.kind = kind, !.recovering = TRUE, !.pc = "recovered"]
                    \/ op.journal = "open"
                       /\ proc' = [Free EXCEPT !.kind = kind, !.recovering = TRUE, !.pc = "rollback",
                                               !.todo = RollbackSteps]
                    \/ op.journal # "open"
                       /\ proc' = [Free EXCEPT !.kind = kind, !.recovering = TRUE, !.pc = "cleanup"]
  <1>1. /\ proc = Free /\ hot' = FALSE /\ Scan(kind)
        /\ UNCHANGED <<live, cand, roll, op, stage, backups, allowed, gen, crashes, faults, late>>
    BY DEF Enter, files, counts
  <1>. DEFINE holder == [Free EXCEPT !.kind = kind, !.recovering = TRUE]
  <1>2. \A x, t : /\ [holder EXCEPT !.pc = x] = [Free EXCEPT !.kind = kind, !.recovering = TRUE, !.pc = x]
                  /\ [holder EXCEPT !.pc = x, !.todo = t]
                       = [Free EXCEPT !.kind = kind, !.recovering = TRUE, !.pc = x, !.todo = t]
    OBVIOUS
  <1>3. CASE ~op.dir
    BY <1>1, <1>2, <1>3 DEF Scan, Refuse
  <1>4. CASE op.dir /\ op.journal = "open"
    BY <1>1, <1>2, <1>4 DEF Scan, Refuse
  <1>5. CASE op.dir /\ op.journal # "open"
    BY <1>1, <1>2, <1>5 DEF Scan, Refuse
  <1>. QED
    BY <1>1, <1>3, <1>4, <1>5

\* Who enters finds a clean state, rolls back, cleans up, or gives up.
LEMMA EnterStep ==
    ASSUME Inv, NEW kind \in Kinds, Enter(kind)
    PROVE  Inv'
  <1>1. /\ proc = Free /\ hot' = FALSE
        /\ UNCHANGED <<live, cand, roll, op, stage, backups, allowed, gen, crashes, faults, late>>
    BY EnterIs
  <1>2. Types
    BY DEF Inv
  <1>3. CASE proc' = Free
    <2>1. \/ refused' = refused \cup {"incomplete_staging"}
          \/ refused' = refused \cup {"rollback_without_journal"}
          \/ ~op.dir /\ Orphan /\ refused' = refused \cup {"orphan_sidecar"}
          \/ refused' = refused
      BY EnterIs
    <2>0. \A r \in refused' :
            \/ r \in refused \/ r = "incomplete_staging" \/ r = "rollback_without_journal"
            \/ r = "orphan_sidecar" /\ ~op.dir /\ Orphan
      BY <2>1
    <2>2. Types'
      BY <1>1, <1>2, <1>3, <2>1, FreeTyped DEF Types, Reasons, Files
    <2>3. Clear'
      <3>1. "ambiguous" \notin refused
        BY DEF Inv, Clear
      <3>. QED
        BY <2>0, <3>1 DEF Clear
    <2>4. ASSUME late = 0, "orphan_sidecar" \in refused'
          PROVE  "orphan_sidecar" \in refused
      <3>1. SUFFICES ASSUME ~op.dir, Orphan PROVE FALSE
        BY <2>0, <2>4
      <3>2. op.journal # "open"
        BY <3>1 DEF Inv, DirectoryTrue, NoOp
      <3>3. State = live
        BY <3>2 DEF State
      <3>. QED
        BY <3>1, <3>3, <2>4 DEF Inv, Whole, Orphan
    <2>5. HolderTrue' /\ WantTrue' /\ HotTrue' /\ TodoTrue' /\ Saved'
      BY <1>1, <1>3, Released
    <2>6. proc'.pc # "rollback"
      BY <1>3, FreeTyped
    <2>. QED
      BY <1>1, <2>2, <2>3, <2>4, <2>5, <2>6, ProcOnly
  <1>4. CASE proc' # Free
    <2>0. /\ {"recovered", "rollback", "cleanup"} \subseteq Stages
          /\ {} \in SUBSET Steps /\ RollbackSteps \in SUBSET Steps
      BY <1>2, StepsTyped DEF Stages
    <2>1. PICK x \in Stages, t \in SUBSET Steps :
            /\ \/ proc' = [Free EXCEPT !.kind = kind, !.recovering = TRUE, !.pc = x] /\ t = {}
               \/ proc' = [Free EXCEPT !.kind = kind, !.recovering = TRUE, !.pc = x, !.todo = t]
            /\ \/ x = "recovered" /\ ~op.dir /\ ~Orphan
               \/ x = "rollback" /\ op.journal = "open" /\ t = RollbackSteps
               \/ x = "cleanup" /\ op.journal # "open"
      BY <1>4, <2>0, EnterIs
    <2>2. proc' \in Holder /\ proc'.kind = kind /\ proc'.pc = x /\ proc'.todo = t /\ proc'.want = Nothing
      <3>1. proc' = [kind |-> kind, pc |-> x, todo |-> t, want |-> Nothing, recovering |-> TRUE]
        BY <2>1 DEF Free
      <3>. QED
        BY <3>1, NothingKnown DEF Holder
    <2>3. refused' = refused
      BY <1>4, EnterIs
    <2>4. Types'
      BY <1>1, <1>2, <2>2, <2>3 DEF Types
    <2>5. HolderTrue'
      <3>1. Orphan' = Orphan
        BY <1>1 DEF Orphan
      <3>2. op.journal = "open" => "candidate" \in op.parts /\ "rollback" \in op.parts
        BY DEF Inv, DirectoryTrue
      <3>. QED
        BY <1>1, <2>1, <2>2, <3>1, <3>2 DEF HolderTrue, At, Prepared, Nothing
    <2>6. WantTrue'
      BY <1>1, <2>1, <2>2 DEF Inv, WantTrue, Nothing
    <2>7. HotTrue' /\ Saved'
      BY <1>1, <2>1, <2>2 DEF HotTrue, Saved, At
    <2>8. TodoTrue'
      <3>1. CASE x = "rollback"
        <4>1. proc'.todo = RollbackSteps /\ RollbackSteps' = RollbackSteps
          BY <1>1, <2>1, <2>2, <3>1 DEF RollbackSteps
        <4>2. /\ \A p \in op.target : <<"pull", p>> \in RollbackSteps
              /\ \A p \in op.old : <<"return", p>> \in RollbackSteps
          BY DEF RollbackSteps
        <4>. QED
          BY <1>1, <2>2, <3>1, <4>1, <4>2 DEF TodoTrue, At
      <3>2. CASE x # "rollback"
        BY <2>1, <2>2, <3>2 DEF TodoTrue, At
      <3>. QED
        BY <3>1, <3>2
    <2>9. Clear' /\ (proc'.pc = "rollback" => op.journal = "open")
      BY <2>1, <2>2, <2>3 DEF Inv, Clear
    <2>. QED
      BY <1>1, <2>3, <2>4, <2>5, <2>6, <2>7, <2>8, <2>9, ProcOnly
  <1>. QED
    BY <1>3, <1>4

\* A command goes on from its recovery, with a backup to restore or without; what
\* is found is the state from now on.
LEMMA RecoveredStep ==
    ASSUME Inv, Recovered
    PROVE  Inv'
  <1>1. /\ proc.pc = "recovered" /\ stage' = FALSE
        /\ allowed' = IF Merged(live) \in allowed THEN {Merged(live)} ELSE allowed
        /\ UNCHANGED <<live, cand, roll, op, backups, hot, refused, gen, crashes, faults, late>>
    BY DEF Recovered, At, files, counts
  <1>2. Types /\ ~op.dir /\ ~Orphan
    BY <1>1 DEF Inv, HolderTrue, At
  <1>3. op = NoOp /\ cand = Nothing /\ roll = Nothing /\ op.journal = "none"
    BY <1>2 DEF Inv, DirectoryTrue, NoOp
  <1>4. ~hot
    BY <1>1, FreeTyped DEF Inv, HotTrue
  <1>5. Merged(live) \in Files
    BY <1>2, MergedIs DEF Types
  <1>6. Merged(State) \in allowed => Merged(State) \in allowed'
    BY <1>1, <1>3 DEF State
  <1>7. late = 0 /\ "orphan_sidecar" \in refused' => "orphan_sidecar" \in refused
    BY <1>1
  <1>8. Clear'
    BY <1>1 DEF Inv, Clear
  <1>9. CASE proc' = Free
    <2>1. Types'
      BY <1>1, <1>2, <1>5, <1>9, FreeTyped DEF Types
    <2>2. HolderTrue' /\ WantTrue' /\ HotTrue' /\ TodoTrue' /\ Saved'
      BY <1>1, <1>4, <1>9, Released
    <2>. QED
      BY <1>1, <1>6, <1>7, <1>8, <1>9, <2>1, <2>2, FreeTyped, ProcOnly
  <1>10. CASE proc' # Free
    <2>1. /\ proc' \in Holder /\ proc'.kind = proc.kind
          /\ \/ proc.kind = "runtime" /\ proc'.pc = "running" /\ proc'.want = proc.want
             \/ proc.kind \in {"backup", "reset", "mutation"} /\ proc'.pc = "backup" /\ proc'.want = proc.want
             \/ proc.kind = "restore" /\ proc'.pc = "make" /\ proc'.want \in backups
      <3>1. proc \in Holder /\ backups \subseteq Files /\ {"running", "backup", "make"} \subseteq Stages
        BY <1>2 DEF Types, Stages
      <3>2. CASE proc.kind = "runtime" /\ Goto("running")
        BY <3>1, <3>2 DEF Goto, Holder
      <3>3. CASE /\ proc.kind \in {"backup", "reset", "mutation"}
                 /\ proc' = [proc EXCEPT !.pc = "backup", !.recovering = FALSE]
        BY <3>1, <3>3 DEF Holder
      <3>4. CASE /\ proc.kind = "restore"
                 /\ \E b \in backups : proc' = [proc EXCEPT !.pc = "make", !.want = b, !.recovering = FALSE]
        BY <3>1, <3>4 DEF Holder
      <3>. QED
        BY <1>10, <3>2, <3>3, <3>4 DEF Recovered
    <2>2. Types'
      BY <1>1, <1>2, <1>5, <2>1 DEF Types
    <2>3. HolderTrue'
      BY <1>1, <1>2, <1>3, <2>1 DEF HolderTrue, At, Prepared, Orphan, Nothing
    <2>4. WantTrue'
      BY <1>1, <2>1 DEF Inv, WantTrue, Nothing
    <2>5. HotTrue' /\ TodoTrue' /\ Saved'
      BY <1>1, <1>4, <2>1 DEF HotTrue, TodoTrue, Saved, At
    <2>. QED
      BY <1>1, <1>6, <1>7, <1>8, <2>1, <2>2, <2>3, <2>4, <2>5, ProcOnly
  <1>. QED
    BY <1>9, <1>10

\* The application stops, or a backup is done.
LEMMA EndStep ==
    ASSUME Inv, Stop \/ Done
    PROVE  Inv'
  <1>1. /\ proc.pc \in {"running", "done"} /\ proc' = Free
        /\ UNCHANGED <<live, cand, roll, op, stage, backups, hot, allowed, refused, gen, crashes, faults, late>>
    BY DEF Stop, Done, At, files, counts
  <1>2. Types'
    BY <1>1, FreeTyped DEF Inv, Types
  <1>3. hot' => ~op.dir /\ live[Db] # Absent
    BY <1>1 DEF Inv, HotTrue
  <1>4. HolderTrue' /\ WantTrue' /\ HotTrue' /\ TodoTrue' /\ Saved'
    BY <1>1, <1>3, Released
  <1>5. Clear' /\ proc'.pc # "rollback"
    BY <1>1, FreeTyped DEF Inv, Clear
  <1>. QED
    BY <1>1, <1>2, <1>4, <1>5, ProcOnly

\* A backup is staged, or there is nothing to copy and the command goes on.
LEMMA StageBackupStep ==
    ASSUME Inv, StageBackup
    PROVE  Inv'
  <1>1. /\ proc.pc = "backup"
        /\ UNCHANGED <<live, cand, roll, op, backups, hot, allowed, refused, gen, crashes, faults, late>>
        /\ \/ live = Nothing /\ proc' = [proc EXCEPT !.pc = AfterBackup] /\ stage' = stage
           \/ live # Nothing /\ proc' = [proc EXCEPT !.pc = "publish"] /\ stage' = TRUE
    BY DEF StageBackup, At, Goto, files, counts
  <1>2. Types /\ proc.kind \in {"backup", "reset", "mutation", "restore"}
    BY <1>1 DEF Inv, HolderTrue
  <1>3. AfterBackup \in Stages /\ "publish" \in Stages
    BY DEF AfterBackup, Stages
  <1>4. PICK x \in Stages : proc' = [proc EXCEPT !.pc = x] /\ (x = "publish" \/ (live = Nothing /\ x = AfterBackup))
    BY <1>1, <1>3
  <1>5. proc' \in Holder /\ proc'.pc = x /\ proc'.kind = proc.kind /\ proc'.want = proc.want
    BY <1>2, <1>4, PcSet
  <1>6. Types'
    BY <1>1, <1>2, <1>5 DEF Types
  <1>7. ~Orphan /\ (proc.kind # "restore" => ~op.dir) /\ (x = "publish" => live # Nothing)
    <2>1. ~Orphan /\ (proc.kind # "restore" => ~op.dir)
      BY <1>1 DEF Inv, HolderTrue, At
    <2>2. CASE live = Nothing
      <3>1. AfterBackup # "publish"
        BY DEF AfterBackup
      <3>2. proc'.pc # "publish"
        BY <1>1, <1>2, <1>3, <2>2, <3>1, PcSet
      <3>. QED
        BY <1>5, <2>1, <3>2
    <2>. QED
      BY <2>1, <2>2
  <1>8. /\ proc.kind = "reset" => x \in {"publish", "make"}
        /\ proc.kind = "restore" => x \in {"publish", "switch"}
        /\ proc.kind \in {"backup", "mutation"} => x \in {"publish", "running", "done"}
    BY <1>4 DEF AfterBackup
  <1>9. HolderTrue'
    <2>1. proc.kind # "restore" => op.journal = "none" /\ roll = Nothing /\ cand = Nothing
      BY <1>7 DEF Inv, DirectoryTrue, NoOp
    <2>2. proc.kind = "restore" =>
            /\ "candidate" \in op.parts /\ "rollback" \in op.parts
            /\ op.journal = "none" /\ roll = Nothing /\ cand = Wanted
      BY <1>1 DEF Inv, HolderTrue, Prepared, At
    <2>3. Wanted' = Wanted /\ Orphan' = Orphan
      BY <1>1, <1>5 DEF Wanted, Orphan
    <2>. QED
      BY <1>1, <1>2, <1>5, <1>7, <1>8, <2>1, <2>2, <2>3 DEF HolderTrue, Prepared, At, Nothing
  <1>10. WantTrue'
    BY <1>1, <1>5 DEF Inv, WantTrue, Nothing
  <1>11. HotTrue' /\ TodoTrue'
    <2>1. ~hot
      BY <1>1, FreeTyped DEF Inv, HotTrue
    <2>. QED
      BY <1>1, <1>2, <1>5, <1>8, <2>1 DEF HotTrue, TodoTrue, At
  <1>12. Saved'
    <2>1. x # "publish" => live = Nothing
      BY <1>4
    <2>. QED
      BY <1>1, <1>5, <2>1 DEF Saved, At, Nothing
  <1>13. Clear' /\ x # "rollback"
    BY <1>1, <1>2, <1>8 DEF Inv, Clear
  <1>. QED
    BY <1>1, <1>5, <1>6, <1>9, <1>10, <1>11, <1>12, <1>13, ProcOnly

\* A failure that the command survives: it cleans up or rolls back.
LEMMA FaultStep ==
    ASSUME Inv, Fault
    PROVE  Inv'
  <1>1. /\ proc.pc \in {"publish", "make", "materialize", "switch", "moving"}
        /\ UNCHANGED <<live, cand, roll, op, backups, hot, allowed, refused, gen, crashes, late>>
        /\ faults' = faults + 1 /\ stage' = FALSE
        /\ proc' = IF At("moving") THEN [proc EXCEPT !.pc = "rollback", !.todo = RollbackSteps]
                   ELSE IF op.dir THEN [proc EXCEPT !.pc = "cleanup"] ELSE Free
    BY DEF Fault, files
  <1>2. Types /\ ~hot
    BY <1>1, FreeTyped DEF Inv, HotTrue
  <1>0. faults' \in Nat
    BY <1>1, <1>2 DEF Types
  <1>3. op.journal = "open" => "candidate" \in op.parts /\ "rollback" \in op.parts
    BY DEF Inv, DirectoryTrue
  <1>4. Clear'
    BY <1>1 DEF Inv, Clear
  <1>5. CASE proc' = Free
    <2>1. Types'
      BY <1>0, <1>1, <1>2, <1>5, FreeTyped DEF Types
    <2>2. HolderTrue' /\ WantTrue' /\ HotTrue' /\ TodoTrue' /\ Saved'
      BY <1>1, <1>2, <1>5, Released
    <2>. QED
      BY <1>1, <1>4, <1>5, <2>1, <2>2, FreeTyped, ProcOnly
  <1>6. CASE proc' # Free
    <2>1. /\ proc' \in Holder /\ proc'.kind = proc.kind /\ proc'.want = proc.want
          /\ \/ proc'.pc = "rollback" /\ proc'.todo = RollbackSteps /\ op.journal = "open"
             \/ proc'.pc = "cleanup" /\ op.journal # "open"
      <3>1. CASE At("moving")
        <4>1. proc' = [proc EXCEPT !.pc = "rollback", !.todo = RollbackSteps]
          BY <1>1, <3>1
        <4>2. proc \in Holder /\ RollbackSteps \in SUBSET Steps /\ "rollback" \in Stages
          BY <1>2, StepsTyped DEF Types, Stages
        <4>3. op.journal = "open"
          BY <3>1 DEF Inv, HolderTrue
        <4>. QED
          BY <4>1, <4>2, <4>3 DEF Holder
      <3>2. CASE ~At("moving")
        <4>1. proc' = [proc EXCEPT !.pc = "cleanup"] /\ "cleanup" \in Stages
          BY <1>1, <1>6, <3>2 DEF Stages
        <4>2. op.journal # "open"
          <5>1. CASE proc.pc \in {"make", "materialize", "switch"}
            BY <5>1 DEF Inv, HolderTrue, Prepared, At
          <5>2. CASE proc.pc = "publish" /\ proc.kind = "restore"
            BY <5>2 DEF Inv, HolderTrue, Prepared, At
          <5>3. CASE proc.pc = "publish" /\ proc.kind # "restore"
            BY <5>3 DEF Inv, HolderTrue, DirectoryTrue, NoOp, At
          <5>. QED
            BY <1>1, <3>2, <5>1, <5>2, <5>3 DEF At
        <4>. QED
          BY <1>2, <4>1, <4>2, PcSet
      <3>. QED
        BY <3>1, <3>2
    <2>2. Types'
      BY <1>0, <1>1, <1>2, <2>1 DEF Types
    <2>3. HolderTrue'
      BY <1>1, <1>3, <2>1 DEF HolderTrue, At, Prepared
    <2>4. WantTrue'
      BY <1>1, <2>1 DEF Inv, WantTrue, Nothing
    <2>5. HotTrue' /\ Saved'
      BY <1>1, <1>2, <2>1 DEF HotTrue, Saved, At
    <2>6. TodoTrue'
      <3>1. RollbackSteps' = RollbackSteps
        BY <1>1 DEF RollbackSteps
      <3>2. /\ \A p \in op.target : <<"pull", p>> \in RollbackSteps
            /\ \A p \in op.old : <<"return", p>> \in RollbackSteps
        BY DEF RollbackSteps
      <3>. QED
        BY <1>1, <2>1, <3>1, <3>2 DEF TodoTrue, At
    <2>. QED
      BY <1>1, <1>4, <2>1, <2>2, <2>3, <2>4, <2>5, <2>6, ProcOnly
  <1>. QED
    BY <1>5, <1>6

\* The process dies; what the lease protected stays as it is.
LEMMA CrashStep ==
    ASSUME Inv, Crash
    PROVE  Inv'
  <1>1. /\ proc # Free /\ proc' = Free /\ crashes' = crashes + 1
        /\ UNCHANGED <<live, cand, roll, op, stage, backups, allowed, refused, gen, faults, late>>
        /\ hot' \in IF At("running") /\ live[Db] # Absent /\ live[Sidecar] = Absent
                      THEN BOOLEAN ELSE {hot}
    BY DEF Crash, files
  <1>2. ~hot
    BY <1>1 DEF Inv, HotTrue
  <1>3. Types'
    BY <1>1, FreeTyped DEF Inv, Types
  <1>4. hot' => ~op.dir /\ live[Db] # Absent
    <2>1. At("running") => ~op.dir
      BY DEF Inv, HolderTrue
    <2>. QED
      BY <1>1, <1>2, <2>1
  <1>5. HolderTrue' /\ WantTrue' /\ HotTrue' /\ TodoTrue' /\ Saved'
    BY <1>1, <1>4, Released
  <1>6. Clear' /\ proc'.pc # "rollback"
    BY <1>1, FreeTyped DEF Inv, Clear
  <1>. QED
    BY <1>1, <1>3, <1>5, <1>6, ProcOnly

-----------------------------------------------------------------------------
(* The application, and the steps before a journal.                        *)

\* Outside of a switch nothing is asked of the paths one by one.
LEMMA NoSwitch ==
    ASSUME op'.journal # "open", proc'.pc \notin {"rollback", "moving"}
    PROVE  SwitchTrue' /\ TodoTrue' /\ Backed'
  BY DEF SwitchTrue, Switching, TodoTrue, Backed, At

\* The application changes what it likes; the state it leaves is whole and has no
\* sidecar.
LEMMA WriteStep ==
    ASSUME Inv, Write
    PROVE  Inv'
  <1>1. PICK changed \in (SUBSET (Paths \ {Sidecar})) \ {{}} :
          live' = [p \in Paths |-> IF p \in changed \/ (p = Db /\ live[p] = Absent) THEN gen'
                                   ELSE IF p = Sidecar THEN Absent
                                   ELSE IF live[p] = Absent THEN Empty ELSE live[p]]
    BY DEF Write
  <1>2. /\ proc.pc = "running" /\ gen < MaxGen /\ gen' = gen + 1 /\ allowed' = {live'}
        /\ UNCHANGED <<cand, roll, op, stage, backups, hot, proc, refused, crashes, faults, late>>
    BY DEF Write, At
  <1>3. Types /\ ~op.dir
    BY <1>2 DEF Inv, HolderTrue, At
  <1>4. op = NoOp /\ op.journal = "none"
    BY <1>3 DEF Inv, DirectoryTrue, NoOp
  <1>5. gen' \in 1..MaxGen
    BY <1>2, <1>3, MaintenanceAssumption DEF Types
  <1>6. /\ live' \in Files /\ live'[Sidecar] = Absent
        /\ \A p \in Paths \ {Sidecar} : live'[p] # Absent
    <2>1. \A p \in Paths : live[p] \in Contents
      BY <1>3 DEF Types, Files
    <2>. QED
      BY <1>1, <1>5, <2>1, ContentsKnown, PathsKnown DEF Files
  <1>7. Types'
    BY <1>2, <1>3, <1>5, <1>6 DEF Types
  <1>8. DirectoryTrue' /\ WantTrue' /\ Clear'
    BY <1>2 DEF Inv, DirectoryTrue, NoOp, WantTrue, Clear, Nothing
  <1>9. HolderTrue' /\ Saved'
    BY <1>2, <1>3, <1>6, PathsKnown DEF HolderTrue, Saved, Prepared, At, Orphan
  <1>10. HotTrue'
    BY <1>2, FreeTyped DEF Inv, HotTrue
  <1>11. SwitchTrue' /\ TodoTrue' /\ Backed' /\ SidecarOwn'
    BY <1>2, <1>4, <1>6, NoSwitch DEF SidecarOwn
  <1>12. Whole'
    <2>1. State' = live' /\ Merged(live') = live'
      BY <1>2, <1>4, <1>6, MergedIs DEF State
    <2>2. Full(live')
      BY <1>6, PathsKnown DEF Full
    <2>3. (\A b \in backups : Full(b)) => (\A b \in backups : Full(b))'
      BY <1>2 DEF Full
    <2>. QED
      BY <1>2, <1>6, <2>1, <2>2, <2>3 DEF Inv, Whole, Merged, Full
  <1>. QED
    BY <1>7, <1>8, <1>9, <1>10, <1>11, <1>12 DEF Inv

\* The staged backup is published: the state is in a backup from now on.
LEMMA PublishStep ==
    ASSUME Inv, Publish
    PROVE  Inv'
  <1>1. /\ proc.pc = "publish" /\ stage' = FALSE /\ backups' = backups \cup {Merged(live)}
        /\ proc' = [proc EXCEPT !.pc = AfterBackup]
        /\ UNCHANGED <<live, cand, roll, op, hot, allowed, refused, gen, crashes, faults, late>>
    BY DEF Publish, At, Goto, files, counts
  <1>2. Types /\ proc.kind \in {"backup", "reset", "mutation", "restore"} /\ live # Nothing /\ ~Orphan
        /\ (proc.kind # "restore" => ~op.dir)
    BY <1>1 DEF Inv, HolderTrue, At
  <1>3. AfterBackup \in Stages
    BY DEF AfterBackup, Stages
  <1>4. /\ proc' \in Holder /\ proc'.pc = AfterBackup /\ proc'.kind = proc.kind
        /\ proc'.want = proc.want
    BY <1>1, <1>2, <1>3, PcSet
  <1>5. /\ proc.kind = "reset" => AfterBackup = "make"
        /\ proc.kind = "restore" => AfterBackup = "switch"
        /\ proc.kind \in {"backup", "mutation"} => AfterBackup \in {"running", "done"}
    BY DEF AfterBackup
  <1>6. Merged(live) \in Files /\ Merged(live)[Sidecar] = Absent
    BY <1>2, MergedIs DEF Types
  <1>7. Types'
    BY <1>1, <1>2, <1>4, <1>6 DEF Types
  <1>8. proc.kind # "restore" => op = NoOp /\ roll = Nothing /\ cand = Nothing /\ op.journal = "none"
    BY <1>2 DEF Inv, DirectoryTrue, NoOp
  <1>9. proc.kind = "restore" =>
          /\ "candidate" \in op.parts /\ "rollback" \in op.parts
          /\ op.journal = "none" /\ roll = Nothing /\ cand = Wanted
    BY <1>1 DEF Inv, HolderTrue, Prepared, At
  <1>10. DirectoryTrue' /\ SidecarOwn' /\ Clear'
    BY <1>1 DEF Inv, DirectoryTrue, NoOp, SidecarOwn, Clear, Nothing
  <1>11. HolderTrue'
    <2>1. Wanted' = Wanted /\ Orphan' = Orphan
      BY <1>1, <1>4 DEF Wanted, Orphan
    <2>. QED
      BY <1>1, <1>2, <1>4, <1>5, <1>8, <1>9, <2>1 DEF HolderTrue, Prepared, At, Nothing
  <1>12. WantTrue'
    BY <1>1, <1>4, <1>6 DEF Inv, WantTrue, Nothing
  <1>13. HotTrue'
    BY <1>1, FreeTyped DEF Inv, HotTrue
  <1>14. SwitchTrue' /\ TodoTrue' /\ Backed'
    BY <1>1, <1>2, <1>4, <1>5, <1>8, <1>9, NoSwitch
  <1>15. Saved'
    BY <1>1 DEF Saved, Merged
  <1>16. Whole'
    <2>1. State' = State /\ State = live
      BY <1>1, <1>2, <1>8, <1>9 DEF State
    <2>2. Merged(State)' = Merged(State)
      BY <2>1 DEF Merged
    <2>3. ASSUME late = 0
          PROVE  Full(Merged(live))
      <3>1. Full(live)
        BY <1>2, <2>1, <2>3 DEF Inv, Whole
      <3>2. \A p \in Trees : Merged(live)[p] = live[p]
        BY <1>2, MergedIs, PathsKnown DEF Types
      <3>. QED
        BY <3>1, <3>2 DEF Full
    <2>. QED
      BY <1>1, <2>1, <2>2, <2>3 DEF Inv, Whole, Nothing, Full
  <1>. QED
    BY <1>7, <1>10, <1>11, <1>12, <1>13, <1>14, <1>15, <1>16 DEF Inv

\* The operation directory and its parts are made, one after the other.
LEMMA MakeStep ==
    ASSUME Inv, Make
    PROVE  Inv'
  <1>1. /\ proc.pc = "make"
        /\ UNCHANGED <<live, cand, roll, stage, backups, hot, allowed, refused, gen, crashes, faults, late>>
        /\ \/ op' = [op EXCEPT !.dir = TRUE] /\ proc' = proc
           \/ op.dir /\ op' = [op EXCEPT !.parts = {"candidate"}] /\ proc' = proc
           \/ /\ op.dir /\ op' = [op EXCEPT !.parts = {"candidate", "rollback"}]
              /\ proc' = [proc EXCEPT !.pc = "materialize"]
    BY DEF Make, At, Goto, files, counts
  <1>2. /\ Types /\ proc.kind \in {"reset", "restore"} /\ ~Orphan
        /\ op.journal = "none" /\ roll = Nothing /\ cand = Nothing
    BY <1>1 DEF Inv, HolderTrue, At
  <1>3. /\ op' \in Operation /\ op'.dir /\ op'.journal = "none"
        /\ op'.old = op.old /\ op'.target = op.target
    <2>1. op \in Operation
      BY <1>2 DEF Types
    <2>. QED
      BY <1>1, <1>2, <2>1 DEF Operation
  <1>4. /\ proc' \in Holder /\ proc'.kind = proc.kind /\ proc'.want = proc.want
        /\ \/ proc'.pc = "make"
           \/ proc'.pc = "materialize" /\ "candidate" \in op'.parts /\ "rollback" \in op'.parts
    <2>1. CASE proc' = proc
      BY <1>1, <1>2, <2>1 DEF Types
    <2>2. CASE proc' # proc
      <3>1. proc' = [proc EXCEPT !.pc = "materialize"] /\ "materialize" \in Stages
            /\ op' = [op EXCEPT !.parts = {"candidate", "rollback"}]
        BY <1>1, <2>2 DEF Stages
      <3>2. op'.parts = {"candidate", "rollback"}
        BY <1>2, <3>1 DEF Types, Operation
      <3>. QED
        BY <1>2, <3>1, <3>2, PcSet
    <2>. QED
      BY <2>1, <2>2
  <1>5. Types'
    BY <1>1, <1>2, <1>3, <1>4 DEF Types
  <1>6. DirectoryTrue'
    BY <1>1, <1>2, <1>3, NothingKnown, PathsKnown DEF DirectoryTrue, Nothing
  <1>7. HolderTrue'
    BY <1>1, <1>2, <1>3, <1>4 DEF HolderTrue, Prepared, At, Orphan, Nothing
  <1>8. WantTrue'
    BY <1>1, <1>2, <1>4 DEF Inv, WantTrue, Nothing
  <1>9. HotTrue' /\ SidecarOwn' /\ Clear'
    BY <1>1, FreeTyped DEF Inv, HotTrue, SidecarOwn, Clear
  <1>10. SwitchTrue' /\ TodoTrue' /\ Backed'
    BY <1>3, <1>4, NoSwitch
  <1>11. Saved'
    BY <1>1, <1>4 DEF Inv, Saved, At, Merged, Nothing
  <1>12. Whole'
    <2>1. State' = State /\ State = live
      BY <1>1, <1>2, <1>3 DEF State
    <2>. QED
      BY <1>1, <2>1 DEF Inv, Whole, Nothing, Full, Merged
  <1>. QED
    BY <1>5, <1>6, <1>7, <1>8, <1>9, <1>10, <1>11, <1>12 DEF Inv

\* The candidate is put together in its directory.
LEMMA MaterializeStep ==
    ASSUME Inv, Materialize
    PROVE  Inv'
  <1>1. /\ proc.pc = "materialize" /\ cand' = Wanted
        /\ UNCHANGED <<live, roll, op, stage, backups, hot, allowed, refused, gen, crashes, faults, late>>
        /\ proc' = [proc EXCEPT !.pc = IF proc.kind = "reset" THEN "switch" ELSE "backup"]
    BY DEF Materialize, At, Goto, counts
  <1>2. /\ Types /\ WantTrue /\ proc.kind \in {"reset", "restore"} /\ ~Orphan
        /\ "candidate" \in op.parts /\ "rollback" \in op.parts
        /\ op.journal = "none" /\ roll = Nothing
    BY <1>1 DEF Inv, HolderTrue, Prepared, At
  <1>3. PICK x \in Stages :
          /\ proc' = [proc EXCEPT !.pc = x]
          /\ x = IF proc.kind = "reset" THEN "switch" ELSE "backup"
    BY <1>1 DEF Stages
  <1>4. proc' \in Holder /\ proc'.pc = x /\ proc'.kind = proc.kind /\ proc'.want = proc.want
    BY <1>2, <1>3, PcSet
  <1>5. Wanted \in Files /\ Wanted[Sidecar] = Absent
    BY <1>2, WantedIs
  <1>6. Types'
    BY <1>1, <1>2, <1>4, <1>5 DEF Types
  <1>7. DirectoryTrue'
    BY <1>1, <1>2, <1>5 DEF Inv, DirectoryTrue, NoOp, Nothing
  <1>8. HolderTrue'
    <2>1. Wanted' = Wanted
      BY <1>4 DEF Wanted
    <2>. QED
      BY <1>1, <1>2, <1>3, <1>4, <2>1 DEF HolderTrue, Prepared, At, Orphan, Nothing
  <1>9. WantTrue'
    BY <1>1, <1>2, <1>4 DEF WantTrue, Nothing
  <1>10. HotTrue' /\ SidecarOwn' /\ Clear'
    BY <1>1, FreeTyped DEF Inv, HotTrue, SidecarOwn, Clear
  <1>11. SwitchTrue' /\ TodoTrue' /\ Backed'
    BY <1>1, <1>2, <1>3, <1>4, NoSwitch
  <1>12. Saved'
    BY <1>1, <1>3, <1>4 DEF Inv, Saved, At, Merged, Nothing
  <1>13. Whole'
    <2>1. State' = State
      BY <1>1 DEF State, Original
    <2>. QED
      BY <1>1, <2>1 DEF Inv, Whole, Nothing, Full, Merged
  <1>. QED
    BY <1>6, <1>7, <1>8, <1>9, <1>10, <1>11, <1>12, <1>13 DEF Inv

-----------------------------------------------------------------------------
(* The switch.                                                             *)

\* The directories for what will be moved are made; nothing is moved yet.
LEMMA ShelveStep ==
    ASSUME Inv, Shelve
    PROVE  Inv'
  <1>1. /\ proc.pc = "switch" /\ op' = [op EXCEPT !.parts = @ \cup {"shelves"}]
        /\ UNCHANGED <<live, cand, roll, stage, backups, hot, proc, allowed, refused, gen, crashes, faults, late>>
    BY DEF Shelve, At, files, counts
  <1>2. /\ Types /\ op.journal = "none" /\ roll = Nothing
        /\ "candidate" \in op.parts /\ "rollback" \in op.parts
    BY <1>1 DEF Inv, HolderTrue, Prepared, At
  <1>3. /\ op' \in Operation /\ op'.dir = op.dir /\ op'.journal = "none"
        /\ op'.parts = op.parts \cup {"shelves"}
    <2>1. op \in Operation
      BY <1>2 DEF Types
    <2>. QED
      BY <1>1, <1>2, <2>1 DEF Operation
  <1>4. op.dir
    BY <1>2 DEF Inv, DirectoryTrue, NoOp
  <1>5. Types'
    BY <1>1, <1>2, <1>3 DEF Types
  <1>6. DirectoryTrue'
    BY <1>1, <1>2, <1>3, <1>4 DEF Inv, DirectoryTrue, Nothing
  <1>7. HolderTrue'
    <2>1. Wanted' = Wanted
      BY <1>1 DEF Wanted
    <2>. QED
      BY <1>1, <1>2, <1>3, <2>1 DEF Inv, HolderTrue, Prepared, At, Orphan, Nothing
  <1>8. WantTrue'
    BY <1>1 DEF Inv, WantTrue, Nothing
  <1>9. HotTrue' /\ SidecarOwn' /\ Clear'
    BY <1>1, FreeTyped DEF Inv, HotTrue, SidecarOwn, Clear
  <1>10. SwitchTrue' /\ TodoTrue' /\ Backed'
    BY <1>1, <1>3, NoSwitch
  <1>11. Saved'
    BY <1>1 DEF Inv, Saved, At, Merged, Nothing
  <1>12. Whole'
    <2>1. State' = State /\ State = live
      BY <1>1, <1>2, <1>3 DEF State
    <2>. QED
      BY <1>1, <2>1 DEF Inv, Whole, Nothing, Full, Merged
  <1>. QED
    BY <1>5, <1>6, <1>7, <1>8, <1>9, <1>10, <1>11, <1>12 DEF Inv

\* The journal is recorded: everything is where it was.
LEMMA JournalStep ==
    ASSUME Inv, Journal
    PROVE  Inv'
  <1>1. /\ proc.pc = "switch"
        /\ op' = [op EXCEPT !.journal = "open", !.old = Present(live), !.target = Present(cand)]
        /\ proc' = [proc EXCEPT !.pc = "moving", !.todo = SwitchSteps(Present(live), Present(cand))]
        /\ UNCHANGED <<live, cand, roll, stage, backups, hot, allowed, refused, gen, crashes, faults, late>>
    BY DEF Journal, At, files, counts
  <1>2. /\ Types /\ proc.kind \in {"reset", "restore"} /\ ~Orphan
        /\ "candidate" \in op.parts /\ "rollback" \in op.parts
        /\ op.journal = "none" /\ roll = Nothing
    BY <1>1 DEF Inv, HolderTrue, Prepared, At
  <1>3. op.dir /\ cand[Sidecar] = Absent
    BY <1>2 DEF Inv, DirectoryTrue, NoOp
  <1>4. Present(live) \subseteq Paths /\ Present(cand) \subseteq Paths \ {Sidecar}
    BY <1>3 DEF Present
  <1>5. /\ op' \in Operation /\ op'.dir /\ op'.parts = op.parts /\ op'.journal = "open"
        /\ op'.old = Present(live) /\ op'.target = Present(cand)
    BY <1>1, <1>2, <1>3, <1>4 DEF Types, Operation
  <1>6. /\ proc' \in Holder /\ proc'.pc = "moving" /\ proc'.kind = proc.kind /\ proc'.want = proc.want
        /\ proc'.todo = SwitchSteps(Present(live), Present(cand))
    <2>1. SwitchSteps(Present(live), Present(cand)) \subseteq Steps /\ "moving" \in Stages
      BY <1>4 DEF SwitchSteps, Steps, Stages
    <2>. QED
      BY <1>1, <1>2, <2>1 DEF Types, Holder
  <1>7. Types'
    BY <1>1, <1>2, <1>5, <1>6 DEF Types
  <1>8. \A p \in Paths : roll[p] = Absent
    BY <1>2, NothingKnown
  <1>9. Original' = live
    <2>1. /\ Original' \in Files
          /\ \A p \in Paths \ op'.old : Original'[p] = Absent
          /\ \A p \in op'.old : Original'[p] = IF roll'[p] # Absent THEN roll'[p] ELSE live'[p]
      <3>1. op'.old \subseteq Paths
        BY <1>4, <1>5
      <3>2. Original' = [p \in Paths |-> IF p \notin Present(live) THEN Absent
                                          ELSE IF roll[p] # Absent THEN roll[p] ELSE live[p]]
        BY <1>1, <1>5 DEF Original
      <3>3. \A p \in Paths : roll[p] \in Contents /\ live[p] \in Contents
        BY <1>2 DEF Types, Files
      <3>. QED
        BY <1>1, <1>5, <3>1, <3>2, <3>3, ContentsKnown DEF Files
    <2>2. \A p \in Paths : Original'[p] = live[p]
      BY <1>1, <1>5, <1>8, <2>1 DEF Present
    <2>. QED
      BY <1>2, <2>1, <2>2, SameFiles DEF Types
  <1>10. DirectoryTrue'
    BY <1>1, <1>2, <1>3, <1>5 DEF DirectoryTrue, Nothing
  <1>11. HolderTrue'
    BY <1>1, <1>2, <1>5, <1>6 DEF HolderTrue, Prepared, At
  <1>12. WantTrue'
    BY <1>1, <1>6 DEF Inv, WantTrue, Nothing
  <1>13. HotTrue' /\ SidecarOwn' /\ Clear'
    BY <1>1, FreeTyped DEF Inv, HotTrue, SidecarOwn, Clear
  <1>14. SwitchTrue'
    <2>1. \A p \in Paths : Shaped(p)'
      BY <1>1, <1>5, <1>8 DEF Shaped, Home, Present
    <2>2. Paired(Original)'
      BY <1>2, <1>9 DEF Inv, SidecarOwn, Orphan, Paired
    <2>3. roll'[Sidecar] = Absent
      BY <1>1, <1>8, PathsKnown
    <2>. QED
      BY <2>1, <2>2, <2>3 DEF SwitchTrue
  <1>15. TodoTrue'
    <2>1. \A p : <<"quarantine", p>> \in proc'.todo <=> p \in op'.old
      BY <1>5, <1>6 DEF SwitchSteps
    <2>2. \A p : <<"install", p>> \in proc'.todo <=> p \in op'.target
      BY <1>5, <1>6 DEF SwitchSteps
    <2>3. \A p \in op'.old : Home(p)'
      BY <1>1, <1>4, <1>5, <1>8 DEF Home, Present
    <2>4. \A p \in op'.target : cand'[p] # Absent
      BY <1>1, <1>5 DEF Present
    <2>5. proc'.todo \subseteq SwitchSteps(op'.old, op'.target)
      BY <1>5, <1>6
    <2>. QED
      BY <1>6, <2>1, <2>2, <2>3, <2>4, <2>5 DEF TodoTrue, At, SwitchSteps
  <1>16. Saved'
    BY <1>6 DEF Saved, At
  <1>17. Backed'
    <2>1. live = Nothing \/ Merged(live) \in backups
      BY <1>1 DEF Inv, Saved, At
    <2>2. Merged(Original)' = Merged(live)
      BY <1>9 DEF Merged
    <2>. QED
      BY <1>1, <1>9, <2>1, <2>2 DEF Backed, Nothing
  <1>18. Whole'
    <2>1. State' = live /\ State = live
      BY <1>2, <1>5, <1>9 DEF State
    <2>2. Merged(State)' = Merged(State)
      BY <2>1 DEF Merged
    <2>. QED
      BY <1>1, <2>1, <2>2 DEF Inv, Whole, Nothing, Full
  <1>. QED
    BY <1>7, <1>10, <1>11, <1>12, <1>13, <1>14, <1>15, <1>16, <1>17, <1>18 DEF Inv

\* When a rollback has nothing left to do, everything is back.
LEMMA TakenBack ==
    ASSUME Inv, proc.pc = "rollback", proc.todo = {}
    PROVE  roll = Nothing /\ live = Original
  <1>1. Types /\ op.old \subseteq Paths /\ op.target \subseteq Paths
    BY DEF Inv, Types, Operation
  <1>2. \A p \in Paths : Shaped(p)
    BY DEF Inv, SwitchTrue, Switching, At
  <1>3. /\ \A p \in op.target : cand[p] # Absent
        /\ \A p \in op.old : roll[p] = Absent
    BY DEF Inv, TodoTrue, At
  <1>4. \A p \in Paths : roll[p] = Absent
    BY <1>2, <1>3 DEF Shaped
  <1>5. \A p \in Paths : live[p] = Original[p]
    <2>1. \A p \in op.old : live[p] = Original[p]
      BY <1>1, <1>4, OriginalIs
    <2>2. \A p \in Paths \ op.old : live[p] = Absent /\ Original[p] = Absent
      BY <1>1, <1>2, <1>3, OriginalIs DEF Shaped
    <2>. QED
      BY <2>1, <2>2
  <1>6. live \in Files /\ roll \in Files /\ Original \in Files /\ Nothing \in Files
    BY <1>1, OriginalIs, NothingKnown DEF Types
  <1>7. roll = Nothing
    BY <1>4, <1>6, NothingKnown, SameFiles
  <1>. QED
    BY <1>5, <1>6, <1>7, SameFiles

\* The journal says that the operation has been taken back.
LEMMA RolledBackStep ==
    ASSUME Inv, RolledBack
    PROVE  Inv'
  <1>1. /\ proc.pc = "rollback" /\ proc.todo = {}
        /\ op' = [op EXCEPT !.journal = "rolled_back"] /\ proc' = [proc EXCEPT !.pc = "cleanup"]
        /\ UNCHANGED <<live, cand, roll, stage, backups, hot, allowed, refused, gen, crashes, faults, late>>
    BY DEF RolledBack, At, Goto, files, counts
  <1>2. Types /\ "candidate" \in op.parts /\ "rollback" \in op.parts
    BY <1>1 DEF Inv, HolderTrue, At
  <1>3. op.dir
    BY <1>2 DEF Inv, DirectoryTrue, NoOp
  <1>4. live = Original
    BY <1>1, TakenBack
  <1>5. /\ op' \in Operation /\ op'.dir /\ op'.journal = "rolled_back" /\ op'.parts = op.parts
    BY <1>1, <1>2, <1>3 DEF Types, Operation
  <1>6. /\ proc' \in Holder /\ proc'.pc = "cleanup" /\ proc'.kind = proc.kind /\ proc'.want = proc.want
    BY <1>1, <1>2, PcSet DEF Stages
  <1>7. Types'
    BY <1>1, <1>2, <1>5, <1>6 DEF Types
  <1>8. DirectoryTrue' /\ HolderTrue'
    BY <1>1, <1>2, <1>5, <1>6 DEF Inv, DirectoryTrue, HolderTrue, Prepared, At, Nothing
  <1>9. WantTrue'
    BY <1>1, <1>6 DEF Inv, WantTrue, Nothing
  <1>10. HotTrue' /\ SidecarOwn' /\ Clear' /\ Saved'
    BY <1>1, <1>6, FreeTyped DEF Inv, HotTrue, SidecarOwn, Clear, Saved, At
  <1>11. SwitchTrue' /\ TodoTrue' /\ Backed'
    BY <1>5, <1>6, NoSwitch
  <1>12. Whole'
    <2>1. State' = live /\ State = live
      BY <1>1, <1>4, <1>5 DEF State
    <2>2. Merged(State)' = Merged(State)
      BY <2>1 DEF Merged
    <2>. QED
      BY <1>1, <2>1, <2>2 DEF Inv, Whole, Nothing, Full
  <1>. QED
    BY <1>7, <1>8, <1>9, <1>10, <1>11, <1>12 DEF Inv

\* The new state is verified, and recorded.
LEMMA CommitStep ==
    ASSUME Inv, Commit
    PROVE  Inv'
  <1>1. /\ proc.pc = "moving" /\ live = Wanted
        /\ op' = [op EXCEPT !.journal = "committed"] /\ proc' = [proc EXCEPT !.pc = "cleanup"]
        /\ allowed' = {Merged(live)}
        /\ UNCHANGED <<live, cand, roll, stage, backups, hot, refused, gen, crashes, faults, late>>
    BY DEF Commit, Verified, At, Goto, files, counts
  <1>2. Types /\ op.journal = "open"
    BY <1>1 DEF Inv, HolderTrue, At
  <1>3. op.dir /\ "candidate" \in op.parts /\ "rollback" \in op.parts
    BY <1>2 DEF Inv, DirectoryTrue, NoOp
  <1>4. live[Sidecar] = Absent /\ Full(live) /\ Merged(live) \in Files
    BY <1>1, <1>2, WantedIs, MergedIs DEF Inv, Types
  <1>5. /\ op' \in Operation /\ op'.dir /\ op'.journal = "committed" /\ op'.parts = op.parts
    BY <1>1, <1>2, <1>3 DEF Types, Operation
  <1>6. /\ proc' \in Holder /\ proc'.pc = "cleanup" /\ proc'.kind = proc.kind /\ proc'.want = proc.want
    BY <1>1, <1>2, PcSet DEF Stages
  <1>7. Types'
    BY <1>1, <1>2, <1>4, <1>5, <1>6 DEF Types
  <1>8. DirectoryTrue' /\ HolderTrue'
    BY <1>1, <1>3, <1>5, <1>6 DEF Inv, DirectoryTrue, HolderTrue, Prepared, At, Nothing
  <1>9. WantTrue'
    BY <1>1, <1>6 DEF Inv, WantTrue, Nothing
  <1>10. HotTrue' /\ SidecarOwn' /\ Clear' /\ Saved'
    BY <1>1, <1>6, FreeTyped DEF Inv, HotTrue, SidecarOwn, Clear, Saved, At
  <1>11. SwitchTrue' /\ TodoTrue' /\ Backed'
    BY <1>5, <1>6, NoSwitch
  <1>12. Whole'
    <2>1. State' = live /\ Merged(State)' = Merged(live)
      BY <1>1, <1>5 DEF State, Merged
    <2>. QED
      BY <1>1, <1>4, <2>1 DEF Inv, Whole, Full
  <1>. QED
    BY <1>7, <1>8, <1>9, <1>10, <1>11, <1>12 DEF Inv

\* An interrupt comes after the record: both states may be found, and the command
\* begins to take back.
LEMMA LateFaultStep ==
    ASSUME Inv, LateFault
    PROVE  Inv'
  <1>1. /\ proc.pc = "moving" /\ late' = late + 1
        /\ op' = [op EXCEPT !.journal = "committed"]
        /\ proc' = [proc EXCEPT !.pc = "rollback", !.todo = RollbackSteps]
        /\ allowed' = allowed \cup {Merged(live)}
        /\ UNCHANGED <<live, cand, roll, stage, backups, hot, refused, gen, crashes, faults>>
    BY DEF LateFault, At, files
  <1>2. Types /\ op.journal = "open"
    BY <1>1 DEF Inv, HolderTrue, At
  <1>3. op.dir /\ "candidate" \in op.parts /\ "rollback" \in op.parts
    BY <1>2 DEF Inv, DirectoryTrue, NoOp
  <1>4. late' \in Nat /\ late' # 0
    BY <1>1, <1>2 DEF Types
  <1>5. /\ op' \in Operation /\ op'.dir /\ op'.journal = "committed" /\ op'.parts = op.parts
        /\ op'.old = op.old /\ op'.target = op.target
    BY <1>1, <1>2, <1>3 DEF Types, Operation
  <1>6. /\ proc' \in Holder /\ proc'.pc = "rollback" /\ proc'.kind = proc.kind /\ proc'.want = proc.want
        /\ proc'.todo = RollbackSteps
    BY <1>1, <1>2, StepsTyped DEF Types, Holder, Stages
  <1>7. Types'
    <2>1. Merged(live) \in Files
      BY <1>2, MergedIs DEF Types
    <2>. QED
      BY <1>1, <1>2, <1>4, <1>5, <1>6, <2>1 DEF Types
  <1>8. DirectoryTrue' /\ HolderTrue'
    BY <1>1, <1>3, <1>4, <1>5, <1>6 DEF Inv, DirectoryTrue, HolderTrue, Prepared, At, Nothing
  <1>9. WantTrue'
    BY <1>1, <1>6 DEF Inv, WantTrue, Nothing
  <1>10. HotTrue' /\ SidecarOwn' /\ Clear' /\ Saved'
    BY <1>1, <1>6, FreeTyped DEF Inv, HotTrue, SidecarOwn, Clear, Saved, At
  <1>11. SwitchTrue'
    <2>1. Original' = Original
      BY <1>1, <1>5 DEF Original
    <2>2. \A p \in Paths : Shaped(p) => Shaped(p)'
      BY <1>1, <1>5 DEF Shaped, Home, Away, Replaced
    <2>. QED
      BY <1>1, <1>2, <2>1, <2>2 DEF Inv, SwitchTrue, Switching, Paired
  <1>12. TodoTrue'
    <2>1. RollbackSteps' = RollbackSteps
      BY <1>5 DEF RollbackSteps
    <2>2. /\ \A p \in op.target : <<"pull", p>> \in RollbackSteps
          /\ \A p \in op.old : <<"return", p>> \in RollbackSteps
      BY DEF RollbackSteps
    <2>. QED
      BY <1>5, <1>6, <2>1, <2>2 DEF TodoTrue, At
  <1>13. Backed' /\ Whole'
    BY <1>4, <1>5 DEF Backed, Whole
  <1>. QED
    BY <1>7, <1>8, <1>9, <1>10, <1>11, <1>12, <1>13 DEF Inv

-----------------------------------------------------------------------------
(* Cleaning up.                                                            *)

\* Entries of a settled operation directory go, in any order.
LEMMA CleanupStep ==
    ASSUME Inv, Cleanup
    PROVE  Inv'
  <1>1. /\ proc.pc = "cleanup"
        /\ UNCHANGED <<live, stage, backups, hot, proc, allowed, refused, gen, crashes, faults, late>>
        /\ \/ op.journal # "none" /\ op' = [op EXCEPT !.journal = "none"] /\ UNCHANGED <<cand, roll>>
           \/ /\ \E p \in Present(roll) : roll' = [roll EXCEPT ![p] = Absent]
              /\ UNCHANGED <<cand, op>>
           \/ /\ \E p \in Present(cand) : cand' = [cand EXCEPT ![p] = Absent]
              /\ UNCHANGED <<roll, op>>
           \/ /\ \E part \in op.parts :
                   /\ (IF part = "candidate" THEN cand ELSE roll) = Nothing
                   /\ op' = [op EXCEPT !.parts = @ \ {part}]
              /\ UNCHANGED <<cand, roll>>
    BY DEF Cleanup, At, files, counts
  <1>2. Types /\ DirectoryTrue /\ op.journal # "open"
    BY <1>1 DEF Inv, HolderTrue, At
  <1>3. Present(Nothing) = {}
    BY NothingKnown DEF Present
  <1>4. /\ op' \in Operation /\ cand' \in Files /\ roll' \in Files
        /\ op'.journal # "open" /\ DirectoryTrue'
    <2>1. /\ op \in Operation /\ cand \in Files /\ roll \in Files
      BY <1>2 DEF Types
    <2>2. CASE op.journal # "none" /\ op' = [op EXCEPT !.journal = "none"] /\ UNCHANGED <<cand, roll>>
      <3>1. op' \in Operation /\ op'.dir = op.dir /\ op'.parts = op.parts /\ op'.journal = "none"
        BY <2>1, <2>2 DEF Operation
      <3>2. op.dir
        BY <1>2, <2>2 DEF DirectoryTrue, NoOp
      <3>. QED
        BY <1>2, <2>1, <2>2, <3>1, <3>2 DEF DirectoryTrue, Nothing
    <2>3. CASE /\ \E p \in Present(roll) : roll' = [roll EXCEPT ![p] = Absent]
               /\ UNCHANGED <<cand, op>>
      <3>0. PICK p \in Present(roll) : roll' = [roll EXCEPT ![p] = Absent]
        BY <2>3
      <3>1. roll # Nothing /\ roll' \in Files
        <4>1. roll # Nothing
          BY <1>3, <3>0
        <4>2. p \in Paths /\ Absent \in Contents
          BY <3>0, ContentsKnown DEF Present
        <4>. QED
          BY <2>1, <3>0, <4>1, <4>2 DEF Files
      <3>. QED
        BY <1>2, <2>1, <2>3, <3>1 DEF DirectoryTrue, Nothing, NoOp
    <2>4. CASE /\ \E p \in Present(cand) : cand' = [cand EXCEPT ![p] = Absent]
               /\ UNCHANGED <<roll, op>>
      <3>0. PICK p \in Present(cand) : cand' = [cand EXCEPT ![p] = Absent]
        BY <2>4
      <3>1. cand # Nothing /\ cand' \in Files
        <4>1. cand # Nothing
          BY <1>3, <3>0
        <4>2. p \in Paths /\ Absent \in Contents
          BY <3>0, ContentsKnown DEF Present
        <4>. QED
          BY <2>1, <3>0, <4>1, <4>2 DEF Files
      <3>2. cand'[Sidecar] = Absent
        BY <1>2, <2>1, <2>4, PathsKnown DEF DirectoryTrue, Files, Present
      <3>. QED
        BY <1>2, <2>1, <2>4, <3>1, <3>2 DEF DirectoryTrue, Nothing, NoOp
    <2>5. CASE /\ \E part \in op.parts :
                    /\ (IF part = "candidate" THEN cand ELSE roll) = Nothing
                    /\ op' = [op EXCEPT !.parts = @ \ {part}]
               /\ UNCHANGED <<cand, roll>>
      <3>1. PICK part \in op.parts :
              /\ (IF part = "candidate" THEN cand ELSE roll) = Nothing
              /\ op' = [op EXCEPT !.parts = @ \ {part}]
        BY <2>5
      <3>2. /\ op' \in Operation /\ op'.dir = op.dir /\ op'.parts = op.parts \ {part}
            /\ op'.journal = op.journal
        BY <2>1, <3>1 DEF Operation
      <3>3. op.dir
        BY <1>2, <3>1 DEF DirectoryTrue, NoOp
      <3>4. part \in {"candidate", "rollback", "shelves"}
        BY <2>1, <3>1 DEF Operation
      <3>. QED
        BY <1>2, <2>1, <2>5, <3>1, <3>2, <3>3, <3>4 DEF DirectoryTrue, Nothing
    <2>. QED
      BY <1>1, <2>2, <2>3, <2>4, <2>5
  <1>5. Types'
    BY <1>1, <1>2, <1>4 DEF Types
  <1>6. HolderTrue'
    BY <1>1, <1>4 DEF HolderTrue, Prepared, At
  <1>7. WantTrue'
    BY <1>1 DEF Inv, WantTrue, Nothing
  <1>8. HotTrue' /\ SidecarOwn' /\ Clear' /\ Saved'
    BY <1>1, FreeTyped DEF Inv, HotTrue, SidecarOwn, Clear, Saved, At
  <1>9. SwitchTrue' /\ TodoTrue' /\ Backed'
    BY <1>1, <1>4, NoSwitch
  <1>10. Whole'
    <2>1. State' = live /\ State = live
      BY <1>1, <1>2, <1>4 DEF State
    <2>2. Merged(State)' = Merged(State)
      BY <2>1 DEF Merged
    <2>. QED
      BY <1>1, <2>1, <2>2 DEF Inv, Whole, Nothing, Full
  <1>. QED
    BY <1>4, <1>5, <1>6, <1>7, <1>8, <1>9, <1>10 DEF Inv

\* The directory is gone: the command ends, or its recovery is over.
LEMMA CleanedStep ==
    ASSUME Inv, Cleaned
    PROVE  Inv'
  <1>1. /\ proc.pc = "cleanup" /\ op.journal = "none" /\ op.parts = {} /\ op' = NoOp
        /\ UNCHANGED <<live, cand, roll, stage, backups, hot, allowed, gen, crashes, faults, late>>
        /\ \/ proc' = Free /\ refused' = refused
           \/ Orphan /\ proc' = Free /\ refused' = refused \cup {"orphan_sidecar"}
           \/ ~Orphan /\ proc' = [proc EXCEPT !.pc = "recovered"] /\ refused' = refused
    BY DEF Cleaned, Refuse, Goto, At, files, counts
  <1>2. Types /\ cand = Nothing /\ roll = Nothing
    BY <1>1 DEF Inv, DirectoryTrue
  <1>3. /\ op' \in Operation /\ ~op'.dir /\ op'.journal = "none"
    BY <1>1 DEF NoOp, Operation
  <1>4. /\ proc' \in Holder
        /\ \/ proc' = Free /\ proc'.pc = "none" /\ proc'.kind = "none" /\ proc'.want = Nothing
           \/ ~Orphan /\ proc'.pc = "recovered" /\ proc'.kind = proc.kind /\ proc'.want = proc.want
    <2>1. CASE proc' = Free
      BY <2>1, FreeTyped
    <2>2. CASE ~Orphan /\ proc' = [proc EXCEPT !.pc = "recovered"]
      <3>1. "recovered" \in Stages
        BY DEF Stages
      <3>. QED
        BY <1>2, <2>2, <3>1, PcSet
    <2>. QED
      BY <1>1, <2>1, <2>2
  <1>5. \A r \in refused' : r \in refused \/ (r = "orphan_sidecar" /\ Orphan)
    BY <1>1
  <1>6. Types'
    BY <1>1, <1>2, <1>3, <1>4, <1>5 DEF Types, Reasons
  <1>7. DirectoryTrue'
    BY <1>1, <1>2, <1>3, NothingKnown, PathsKnown DEF DirectoryTrue, Nothing, NoOp
  <1>8. HolderTrue'
    BY <1>1, <1>3, <1>4 DEF HolderTrue, Prepared, At, Orphan, Free, Nothing
  <1>9. WantTrue'
    BY <1>1, <1>4 DEF Inv, WantTrue, Nothing
  <1>10. ~hot
    BY <1>1, FreeTyped DEF Inv, HotTrue
  <1>11. HotTrue' /\ SidecarOwn' /\ Saved'
    BY <1>1, <1>4, <1>10 DEF Inv, HotTrue, SidecarOwn, Saved, At
  <1>12. "ambiguous" \notin refused'
    BY <1>5 DEF Inv, Clear
  <1>13. SwitchTrue' /\ TodoTrue' /\ Backed'
    BY <1>3, <1>4, NoSwitch
  <1>14. Whole'
    <2>1. State' = live /\ State = live
      BY <1>1, <1>3 DEF State
    <2>2. Merged(State)' = Merged(State)
      BY <2>1 DEF Merged
    <2>3. late = 0 => ~Orphan /\ "orphan_sidecar" \notin refused'
      BY <1>5, <2>1 DEF Inv, Whole, Orphan
    <2>. QED
      BY <1>1, <2>1, <2>2, <2>3 DEF Inv, Whole, Nothing, Full
  <1>. QED
    BY <1>6, <1>7, <1>8, <1>9, <1>11, <1>12, <1>13, <1>14 DEF Inv, Clear

-----------------------------------------------------------------------------
(* The renames.                                                            *)

\* A rename changes no state that a start would find: what has moved is found where
\* it is now.
LEMMA Renamed ==
    ASSUME Inv, proc.pc \in {"moving", "rollback"},
           UNCHANGED <<op, stage, backups, hot, allowed, refused, gen, crashes, faults, late>>,
           Types', proc'.pc = proc.pc, proc'.kind = proc.kind, proc'.want = proc.want,
           Original' = Original, cand'[Sidecar] = Absent,
           \A p \in Paths : Shaped(p)',
           roll'[Sidecar] # Absent => roll'[Db] # Absent,
           TodoTrue', SidecarOwn'
    PROVE  Inv'
  <1>1. /\ "candidate" \in op.parts /\ "rollback" \in op.parts
        /\ late = 0 => op.journal = "open"
        /\ proc.pc = "moving" => op.journal = "open" /\ proc.kind \in {"reset", "restore"}
        /\ proc.pc = "rollback" => op.journal \in {"open", "committed"}
    BY DEF Inv, HolderTrue, DirectoryTrue, At
  <1>2. op.dir
    BY <1>1 DEF Inv, DirectoryTrue, NoOp
  <1>3. DirectoryTrue' /\ HolderTrue'
    BY <1>1, <1>2 DEF DirectoryTrue, HolderTrue, Prepared, At
  <1>4. WantTrue'
    BY DEF Inv, WantTrue, Nothing
  <1>5. HotTrue' /\ Clear' /\ Saved'
    BY FreeTyped DEF Inv, HotTrue, Clear, Saved, At
  <1>6. SwitchTrue'
    <2>1. Paired(Original)
      BY <1>1 DEF Inv, SwitchTrue, Switching, At
    <2>. QED
      BY <2>1 DEF SwitchTrue, Paired
  <1>7. Backed'
    <2>1. Merged(Original)' = Merged(Original)
      BY DEF Merged
    <2>. QED
      BY <2>1 DEF Inv, Backed, Nothing
  <1>8. Whole'
    <2>1. CASE late = 0
      <3>1. State' = State
        BY <1>1, <2>1 DEF State
      <3>2. Merged(State)' = Merged(State)
        BY <3>1 DEF Merged
      <3>. QED
        BY <3>1, <3>2 DEF Inv, Whole, Nothing, Full
    <2>2. CASE late # 0
      BY <2>2 DEF Whole
    <2>. QED
      BY <2>1, <2>2
  <1>. QED
    BY <1>3, <1>4, <1>5, <1>6, <1>7, <1>8 DEF Inv

\* A path is moved out of the way; a database before its sidecar.
LEMMA QuarantineStep ==
    ASSUME Inv, proc.pc = "moving", NEW p \in Paths, <<"quarantine", p>> \in Due,
           Quarantine(p), proc' = [proc EXCEPT !.todo = @ \ {<<"quarantine", p>>}],
           UNCHANGED <<cand, op, stage, backups, hot, allowed, refused, gen, crashes, faults, late>>
    PROVE  Inv' /\ op' = op /\ Original' = Original
  <1>1. /\ Types /\ op.journal = "open" /\ Switching
        /\ op.old \subseteq Paths /\ op.target \subseteq Paths \ {Sidecar}
    BY DEF Inv, HolderTrue, At, Switching, Types, Operation
  <1>2. /\ roll' = [roll EXCEPT ![p] = live[p]] /\ live' = [live EXCEPT ![p] = Absent]
    BY DEF Quarantine
  <1>3. /\ live \in Files /\ roll \in Files /\ live[p] \in Contents /\ roll[p] \in Contents
        /\ Absent \in Contents
    BY <1>1, ContentsKnown DEF Types, Files
  <1>4. /\ live' \in Files /\ roll' \in Files
        /\ live'[p] = Absent /\ roll'[p] = live[p]
        /\ \A q \in Paths \ {p} : live'[q] = live[q] /\ roll'[q] = roll[q]
    BY <1>2, <1>3 DEF Files
  <1>5. /\ <<"quarantine", p>> \in proc.todo
        /\ \A t \in proc.todo \ {<<"quarantine", p>>} : Before(<<"quarantine", p>>, t)
    BY DEF Due
  <1>6. /\ proc.todo \subseteq SwitchSteps(op.old, op.target)
        /\ \A q \in op.old : <<"quarantine", q>> \in proc.todo <=> Home(q)
        /\ \A q \in op.target : <<"install", q>> \in proc.todo <=> cand[q] # Absent
    BY DEF Inv, TodoTrue, At
  <1>7. p \in op.old /\ Home(p)
    BY <1>5, <1>6 DEF SwitchSteps
  <1>8. /\ \A q \in Paths : Shaped(q)
        /\ Paired(Original)
        /\ roll[Sidecar] # Absent => roll[Db] # Absent
    BY <1>1 DEF Inv, SwitchTrue
  <1>9. /\ proc' \in Holder /\ proc'.pc = proc.pc /\ proc'.kind = proc.kind /\ proc'.want = proc.want
        /\ proc'.todo = proc.todo \ {<<"quarantine", p>>}
    BY <1>1 DEF Types, Holder
  <1>10. Types'
    BY <1>1, <1>4, <1>9 DEF Types
  <1>11. Original' = Original
    <2>1. \A q \in Paths : (IF q \notin op.old THEN Absent ELSE IF roll'[q] # Absent THEN roll'[q] ELSE live'[q])
                         = (IF q \notin op.old THEN Absent ELSE IF roll[q] # Absent THEN roll[q] ELSE live[q])
      BY <1>4, <1>7 DEF Home
    <2>. QED
      BY <2>1 DEF Original
  <1>12. \A q \in Paths : Shaped(q)'
    <2>1. Shaped(p)'
      BY <1>4, <1>7, <1>8 DEF Shaped, Home, Away
    <2>2. \A q \in Paths \ {p} : Shaped(q)'
      BY <1>4, <1>8 DEF Shaped, Home, Away, Replaced
    <2>. QED
      BY <2>1, <2>2
  <1>13. roll'[Sidecar] # Absent => roll'[Db] # Absent
    <2>1. CASE p = Sidecar
      <3>1. Original[Sidecar] # Absent
        BY <1>1, <1>7, <2>1, OriginalIs DEF Home
      <3>2. Db \in op.old
        BY <1>1, <1>8, <3>1, OriginalIs, PathsKnown DEF Paired
      <3>3. ~Before(<<"quarantine", Sidecar>>, <<"quarantine", Db>>)
        BY MaintenanceAssumption DEF Before
      <3>4. <<"quarantine", Db>> \notin proc.todo
        <4>1. <<"quarantine", Db>> # <<"quarantine", p>>
          BY <2>1, PathsKnown
        <4>. QED
          BY <1>5, <2>1, <3>3, <4>1
      <3>5. roll[Db] # Absent
        BY <1>6, <1>8, <3>2, <3>4, PathsKnown DEF Shaped, Away, Replaced
      <3>. QED
        BY <1>4, <2>1, <3>5, PathsKnown
    <2>2. CASE p # Sidecar
      BY <1>4, <1>7, <1>8, <2>2, PathsKnown DEF Home
    <2>. QED
      BY <2>1, <2>2
  <1>14. TodoTrue'
    <2>1. proc'.todo \subseteq SwitchSteps(op'.old, op'.target)
      BY <1>6, <1>9
    <2>2. ASSUME NEW q \in op.old
          PROVE  <<"quarantine", q>> \in proc'.todo <=> Home(q)'
      BY <1>1, <1>4, <1>6, <1>9 DEF Home
    <2>3. ASSUME NEW q \in op.target
          PROVE  <<"install", q>> \in proc'.todo <=> cand'[q] # Absent
      BY <1>6, <1>9
    <2>. QED
      BY <1>9, <2>1, <2>2, <2>3 DEF TodoTrue, At
  <1>15. SidecarOwn' /\ cand'[Sidecar] = Absent
    BY <1>4, PathsKnown DEF Inv, SidecarOwn, DirectoryTrue
  <1>. QED
    BY <1>9, <1>10, <1>11, <1>12, <1>13, <1>14, <1>15, Renamed

\* A path of the candidate is installed, when all the old ones are away.
LEMMA InstallStep ==
    ASSUME Inv, proc.pc = "moving", NEW p \in Paths, <<"install", p>> \in Due,
           Install(p), proc' = [proc EXCEPT !.todo = @ \ {<<"install", p>>}],
           UNCHANGED <<roll, op, stage, backups, hot, allowed, refused, gen, crashes, faults, late>>
    PROVE  Inv' /\ op' = op /\ Original' = Original
  <1>1. /\ Types /\ op.journal = "open" /\ Switching
        /\ op.old \subseteq Paths /\ op.target \subseteq Paths \ {Sidecar}
    BY DEF Inv, HolderTrue, At, Switching, Types, Operation
  <1>2. /\ live' = [live EXCEPT ![p] = cand[p]] /\ cand' = [cand EXCEPT ![p] = Absent]
    BY DEF Install
  <1>3. /\ live \in Files /\ cand \in Files /\ live[p] \in Contents /\ cand[p] \in Contents
        /\ Absent \in Contents
    BY <1>1, ContentsKnown DEF Types, Files
  <1>4. /\ live' \in Files /\ cand' \in Files
        /\ live'[p] = cand[p] /\ cand'[p] = Absent
        /\ \A q \in Paths \ {p} : live'[q] = live[q] /\ cand'[q] = cand[q]
    BY <1>2, <1>3 DEF Files
  <1>5. /\ <<"install", p>> \in proc.todo
        /\ \A t \in proc.todo \ {<<"install", p>>} : Before(<<"install", p>>, t)
    BY DEF Due
  <1>6. /\ proc.todo \subseteq SwitchSteps(op.old, op.target)
        /\ \A q \in op.old : <<"quarantine", q>> \in proc.todo <=> Home(q)
        /\ \A q \in op.target : <<"install", q>> \in proc.todo <=> cand[q] # Absent
    BY DEF Inv, TodoTrue, At
  <1>7. p \in op.target /\ cand[p] # Absent /\ p # Sidecar
    BY <1>1, <1>5, <1>6 DEF SwitchSteps
  <1>8. /\ \A q \in Paths : Shaped(q)
        /\ roll[Sidecar] # Absent => roll[Db] # Absent
    BY <1>1 DEF Inv, SwitchTrue
  <1>9. \A q \in op.old : <<"quarantine", q>> \notin proc.todo /\ roll[q] # Absent
    <2>1. ASSUME NEW t \in proc.todo
          PROVE  t[1] # "quarantine"
      <3>1. CASE t = <<"install", p>>
        BY <3>1
      <3>2. CASE t # <<"install", p>>
        <4>1. Before(<<"install", p>>, t)
          BY <1>5, <3>2
        <4>. QED
          BY <4>1 DEF Before
      <3>. QED
        BY <3>1, <3>2
    <2>2. \A q : <<"quarantine", q>>[1] = "quarantine"
      OBVIOUS
    <2>3. \A q \in op.old : ~Home(q)
      BY <1>6, <2>1, <2>2
    <2>. QED
      BY <1>1, <1>6, <1>8, <2>3 DEF Shaped, Away, Replaced
  <1>10. /\ proc' \in Holder /\ proc'.pc = proc.pc /\ proc'.kind = proc.kind /\ proc'.want = proc.want
         /\ proc'.todo = proc.todo \ {<<"install", p>>}
    BY <1>1 DEF Types, Holder
  <1>11. Types'
    BY <1>1, <1>4, <1>10 DEF Types
  <1>12. Original' = Original
    <2>1. \A q \in Paths : (IF q \notin op.old THEN Absent ELSE IF roll[q] # Absent THEN roll[q] ELSE live'[q])
                         = (IF q \notin op.old THEN Absent ELSE IF roll[q] # Absent THEN roll[q] ELSE live[q])
      BY <1>9
    <2>. QED
      BY <2>1 DEF Original
  <1>13. \A q \in Paths : Shaped(q)'
    <2>1. Shaped(p)'
      BY <1>4, <1>7, <1>8, <1>9 DEF Shaped, Replaced
    <2>2. \A q \in Paths \ {p} : Shaped(q)'
      BY <1>4, <1>8 DEF Shaped, Home, Away, Replaced
    <2>. QED
      BY <2>1, <2>2
  <1>14. TodoTrue'
    <2>1. proc'.todo \subseteq SwitchSteps(op'.old, op'.target)
      BY <1>6, <1>10
    <2>2. ASSUME NEW q \in op.old
          PROVE  <<"quarantine", q>> \in proc'.todo <=> Home(q)'
      BY <1>9, <1>10 DEF Home
    <2>3. ASSUME NEW q \in op.target
          PROVE  <<"install", q>> \in proc'.todo <=> cand'[q] # Absent
      BY <1>1, <1>4, <1>6, <1>10
    <2>. QED
      BY <1>10, <2>1, <2>2, <2>3 DEF TodoTrue, At
  <1>15. SidecarOwn' /\ cand'[Sidecar] = Absent
    <2>1. live[Sidecar] = Absent
      BY <1>1, <1>8, <1>9, PathsKnown DEF Shaped, Home, Away, Replaced
    <2>. QED
      BY <1>4, <1>7, <2>1, PathsKnown DEF Inv, SidecarOwn, DirectoryTrue
  <1>. QED
    BY <1>8, <1>10, <1>11, <1>12, <1>13, <1>14, <1>15, Renamed

\* A switch goes on with the rename that is next.
LEMMA AdvanceStep ==
    ASSUME Inv, Advance
    PROVE  Inv' /\ op' = op /\ Original' = Original
  <1>1. PICK s \in Due :
          /\ IF s[1] = "quarantine" THEN Quarantine(s[2]) /\ UNCHANGED cand
                                    ELSE Install(s[2]) /\ UNCHANGED roll
          /\ proc' = [proc EXCEPT !.todo = @ \ {s}]
    BY DEF Advance
  <1>2. /\ proc.pc = "moving"
        /\ UNCHANGED <<op, stage, backups, hot, allowed, refused, gen, crashes, faults, late>>
    BY DEF Advance, At, counts
  <1>3. op.old \subseteq Paths /\ op.target \subseteq Paths
    BY DEF Inv, Types, Operation
  <1>4. s \in SwitchSteps(op.old, op.target)
    BY <1>2 DEF Due, Inv, TodoTrue, At
  <1>5. CASE s \in {"quarantine"} \X op.old
    <2>1. s = <<"quarantine", s[2]>> /\ s[2] \in Paths
      BY <1>3, <1>5
    <2>. QED
      BY <1>1, <1>2, <2>1, QuarantineStep
  <1>6. CASE s \in {"install"} \X op.target
    <2>1. s = <<"install", s[2]>> /\ s[2] \in Paths
      BY <1>3, <1>6
    <2>. QED
      BY <1>1, <1>2, <2>1, InstallStep
  <1>. QED
    BY <1>4, <1>5, <1>6 DEF SwitchSteps

\* A rollback pulls what is installed back to the candidate, and leaves a path
\* alone that nothing has been installed at.
LEMMA PullStep ==
    ASSUME Inv, proc.pc = "rollback", NEW p \in Paths, <<"pull", p>> \in Due,
           Pull(p), proc' = [proc EXCEPT !.todo = @ \ {<<"pull", p>>}],
           UNCHANGED <<roll, op, stage, backups, hot, allowed, refused, gen, crashes, faults, late>>
    PROVE  Inv' /\ op' = op /\ Original' = Original
  <1>1. /\ Types /\ Switching
        /\ op.old \subseteq Paths /\ op.target \subseteq Paths \ {Sidecar}
    BY DEF Inv, At, Switching, Types, Operation
  <1>2. /\ live \in Files /\ cand \in Files /\ Absent \in Contents
        /\ \A q \in Paths : live[q] \in Contents /\ cand[q] \in Contents
    BY <1>1, ContentsKnown DEF Types, Files
  <1>3. \/ /\ live[p] = Absent \/ (roll[p] = Absent /\ p \in op.old)
           /\ live' = live /\ cand' = cand
        \/ /\ live[p] # Absent /\ (roll[p] # Absent \/ p \notin op.old)
           /\ cand' = [cand EXCEPT ![p] = live[p]] /\ live' = [live EXCEPT ![p] = Absent]
    BY DEF Pull
  <1>4. <<"pull", p>> \in proc.todo /\ proc.todo \subseteq RollbackSteps
    BY DEF Due, Inv, TodoTrue, At
  <1>5. p \in op.target /\ p # Sidecar
    BY <1>1, <1>4 DEF RollbackSteps
  <1>6. /\ \A q \in Paths : Shaped(q)
        /\ roll[Sidecar] # Absent => roll[Db] # Absent
    BY <1>1 DEF Inv, SwitchTrue
  <1>7. /\ live' \in Files /\ cand' \in Files
        /\ \A q \in Paths \ {p} : live'[q] = live[q] /\ cand'[q] = cand[q]
        /\ cand'[p] # Absent
        /\ live'[p] = live[p] \/ live'[p] = Absent
    BY <1>2, <1>3, <1>5, <1>6 DEF Files, Shaped, Home, Away, Replaced
  <1>8. /\ proc' \in Holder /\ proc'.pc = proc.pc /\ proc'.kind = proc.kind /\ proc'.want = proc.want
        /\ proc'.todo = proc.todo \ {<<"pull", p>>}
    BY <1>1 DEF Types, Holder
  <1>9. Types'
    BY <1>1, <1>7, <1>8 DEF Types
  <1>10. p \in op.old => live'[p] = live[p] \/ roll[p] # Absent
    BY <1>3
  <1>11. Original' = Original
    <2>1. \A q \in Paths : (IF q \notin op.old THEN Absent ELSE IF roll[q] # Absent THEN roll[q] ELSE live'[q])
                         = (IF q \notin op.old THEN Absent ELSE IF roll[q] # Absent THEN roll[q] ELSE live[q])
      BY <1>7, <1>10
    <2>. QED
      BY <2>1 DEF Original
  <1>12. \A q \in Paths : Shaped(q)'
    <2>1. Shaped(p)'
      BY <1>2, <1>3, <1>5, <1>6 DEF Shaped, Home, Away, Replaced, Files
    <2>2. \A q \in Paths \ {p} : Shaped(q)'
      BY <1>6, <1>7 DEF Shaped, Home, Away, Replaced
    <2>. QED
      BY <2>1, <2>2
  <1>13. TodoTrue'
    <2>1. /\ \A q \in op.target : <<"pull", q>> \notin proc.todo => cand[q] # Absent
          /\ \A q \in op.old : <<"return", q>> \notin proc.todo =>
               roll[q] = Absent /\ \A r \in op.target : <<"pull", r>> \notin proc.todo
      BY DEF Inv, TodoTrue, At
    <2>2. proc'.todo \subseteq RollbackSteps'
      BY <1>4, <1>8 DEF RollbackSteps
    <2>3. ASSUME NEW q \in op.target, <<"pull", q>> \notin proc'.todo
          PROVE  cand'[q] # Absent
      BY <1>1, <1>7, <1>8, <2>1, <2>3
    <2>4. ASSUME NEW q \in op.old, <<"return", q>> \notin proc'.todo
          PROVE  roll[q] = Absent /\ \A r \in op.target : <<"pull", r>> \notin proc'.todo
      BY <1>8, <2>1, <2>4
    <2>. QED
      BY <1>8, <2>2, <2>3, <2>4 DEF TodoTrue, At
  <1>14. SidecarOwn' /\ cand'[Sidecar] = Absent
    BY <1>5, <1>7, PathsKnown DEF Inv, SidecarOwn, DirectoryTrue
  <1>. QED
    BY <1>6, <1>8, <1>9, <1>11, <1>12, <1>13, <1>14, Renamed

\* Then it returns what was moved away; a sidecar before its database.
LEMMA PutBackStep ==
    ASSUME Inv, proc.pc = "rollback", NEW p \in Paths, <<"return", p>> \in Due,
           PutBack(p), proc' = [proc EXCEPT !.todo = @ \ {<<"return", p>>}],
           UNCHANGED <<cand, op, stage, backups, hot, allowed, refused, gen, crashes, faults, late>>
    PROVE  Inv' /\ op' = op /\ Original' = Original
  <1>1. /\ Types /\ Switching
        /\ op.old \subseteq Paths /\ op.target \subseteq Paths \ {Sidecar}
    BY DEF Inv, At, Switching, Types, Operation
  <1>2. /\ live \in Files /\ roll \in Files /\ Absent \in Contents
        /\ \A q \in Paths : live[q] \in Contents /\ roll[q] \in Contents
    BY <1>1, ContentsKnown DEF Types, Files
  <1>3. \/ roll[p] = Absent /\ live' = live /\ roll' = roll
        \/ /\ roll[p] # Absent
           /\ live' = [live EXCEPT ![p] = roll[p]] /\ roll' = [roll EXCEPT ![p] = Absent]
    BY DEF PutBack
  <1>4. /\ <<"return", p>> \in proc.todo /\ proc.todo \subseteq RollbackSteps
        /\ \A t \in proc.todo \ {<<"return", p>>} : Before(<<"return", p>>, t)
    BY DEF Due, Inv, TodoTrue, At
  <1>5. p \in op.old
    BY <1>4 DEF RollbackSteps
  <1>6. /\ \A q \in Paths : Shaped(q)
        /\ Paired(Original)
        /\ roll[Sidecar] # Absent => roll[Db] # Absent
    BY <1>1 DEF Inv, SwitchTrue
  <1>7. /\ \A q \in op.target : <<"pull", q>> \notin proc.todo => cand[q] # Absent
        /\ \A q \in op.old : <<"return", q>> \notin proc.todo =>
             roll[q] = Absent /\ \A r \in op.target : <<"pull", r>> \notin proc.todo
    BY DEF Inv, TodoTrue, At
  <1>8. \A q \in op.target : <<"pull", q>> \notin proc.todo /\ cand[q] # Absent
    <2>1. ASSUME NEW t \in proc.todo
          PROVE  t[1] # "pull"
      <3>1. CASE t = <<"return", p>>
        BY <3>1
      <3>2. CASE t # <<"return", p>>
        <4>1. Before(<<"return", p>>, t)
          BY <1>4, <3>2
        <4>. QED
          BY <4>1 DEF Before
      <3>. QED
        BY <3>1, <3>2
    <2>2. \A q : <<"pull", q>>[1] = "pull"
      OBVIOUS
    <2>. QED
      BY <1>7, <2>1, <2>2
  <1>9. /\ live' \in Files /\ roll' \in Files
        /\ \A q \in Paths \ {p} : live'[q] = live[q] /\ roll'[q] = roll[q]
        /\ roll'[p] = Absent /\ live'[p] = (IF roll[p] # Absent THEN roll[p] ELSE live[p])
        /\ live'[p] # Absent
    BY <1>2, <1>3, <1>5, <1>6 DEF Files, Shaped, Home, Away, Replaced
  <1>10. /\ proc' \in Holder /\ proc'.pc = proc.pc /\ proc'.kind = proc.kind /\ proc'.want = proc.want
         /\ proc'.todo = proc.todo \ {<<"return", p>>}
    BY <1>1 DEF Types, Holder
  <1>11. Types'
    BY <1>1, <1>9, <1>10 DEF Types
  <1>12. Original' = Original
    <2>1. \A q \in Paths : (IF q \notin op.old THEN Absent ELSE IF roll'[q] # Absent THEN roll'[q] ELSE live'[q])
                         = (IF q \notin op.old THEN Absent ELSE IF roll[q] # Absent THEN roll[q] ELSE live[q])
      BY <1>9
    <2>. QED
      BY <2>1 DEF Original
  <1>13. \A q \in Paths : Shaped(q)'
    <2>1. Shaped(p)'
      BY <1>5, <1>6, <1>8, <1>9 DEF Shaped, Home
    <2>2. \A q \in Paths \ {p} : Shaped(q)'
      BY <1>6, <1>9 DEF Shaped, Home, Away, Replaced
    <2>. QED
      BY <2>1, <2>2
  <1>14. roll'[Sidecar] # Absent => roll'[Db] # Absent
    <2>1. CASE p = Db
      <3>1. ~Before(<<"return", Db>>, <<"return", Sidecar>>)
        BY MaintenanceAssumption DEF Before
      <3>2. <<"return", Sidecar>> # <<"return", p>>
        BY <2>1, PathsKnown
      <3>3. <<"return", Sidecar>> \notin proc.todo
        BY <1>4, <2>1, <3>1, <3>2
      <3>4. roll[Sidecar] = Absent
        BY <1>6, <1>7, <3>3, PathsKnown DEF Shaped
      <3>. QED
        BY <1>9, <2>1, <3>4, PathsKnown
    <2>2. CASE p # Db
      BY <1>6, <1>9, <2>2, PathsKnown
    <2>. QED
      BY <2>1, <2>2
  <1>15. TodoTrue'
    <2>1. proc'.todo \subseteq RollbackSteps'
      BY <1>4, <1>10 DEF RollbackSteps
    <2>2. ASSUME NEW q \in op.old, <<"return", q>> \notin proc'.todo
          PROVE  roll'[q] = Absent
      <3>1. CASE q = p
        BY <1>9, <3>1
      <3>2. CASE q # p
        <4>1. <<"return", q>> \notin proc.todo
          BY <1>10, <2>2, <3>2
        <4>. QED
          BY <1>1, <1>7, <1>9, <3>2, <4>1
      <3>. QED
        BY <3>1, <3>2
    <2>. QED
      BY <1>8, <1>10, <2>1, <2>2 DEF TodoTrue, At
  <1>16. SidecarOwn'
    <2>1. \A q \in Paths : live'[q] # Absent => live'[q] = Original'[q]
      <3>1. ASSUME NEW q \in op.old, live'[q] # Absent
            PROVE  live'[q] = Original[q]
        <4>1. roll'[q] = Absent
          BY <1>1, <1>8, <1>13, <3>1 DEF Shaped, Home, Away, Replaced
        <4>2. Original' \in Files /\ Original'[q] = IF roll'[q] # Absent THEN roll'[q] ELSE live'[q]
          BY <1>1, <1>9, <3>1 DEF Original, Files
        <4>. QED
          BY <1>12, <4>1, <4>2
      <3>2. \A q \in Paths \ op.old : live'[q] = Absent
        BY <1>8, <1>13 DEF Shaped
      <3>. QED
        BY <1>12, <3>1, <3>2
    <2>2. Paired(Original')
      BY <1>6, <1>12 DEF Paired
    <2>. QED
      BY <2>1, <2>2, PathsKnown DEF SidecarOwn, Paired
  <1>17. cand'[Sidecar] = Absent
    BY DEF Inv, DirectoryTrue
  <1>. QED
    BY <1>10, <1>11, <1>12, <1>13, <1>14, <1>15, <1>16, <1>17, Renamed

\* A rollback explains what it finds at every path, and goes on.
LEMMA RollbackStep ==
    ASSUME Inv, Rollback
    PROVE  Inv' /\ op' = op /\ Original' = Original
  <1>1. PICK s \in Due :
          IF Ambiguous(s[1], s[2])
            THEN Refuse("ambiguous") /\ UNCHANGED files
            ELSE /\ IF s[1] = "pull" THEN Pull(s[2]) /\ UNCHANGED roll
                                     ELSE PutBack(s[2]) /\ UNCHANGED cand
                 /\ proc' = [proc EXCEPT !.todo = @ \ {s}]
                 /\ UNCHANGED refused
    BY DEF Rollback
  <1>2. /\ proc.pc = "rollback"
        /\ UNCHANGED <<op, stage, backups, hot, allowed, gen, crashes, faults, late>>
    BY DEF Rollback, At, counts
  <1>3. op.old \subseteq Paths /\ op.target \subseteq Paths
    BY DEF Inv, Types, Operation
  <1>4. s \in proc.todo /\ s \in RollbackSteps /\ \A t \in proc.todo \ {s} : Before(s, t)
    BY <1>2 DEF Due, Inv, TodoTrue, At
  <1>5. \A q \in Paths : Shaped(q)
    BY <1>2 DEF Inv, SwitchTrue, Switching, At
  <1>6. CASE s \in {"pull"} \X op.target
    <2>1. s = <<"pull", s[2]>> /\ s[1] = "pull" /\ s[2] \in op.target /\ s[2] \in Paths
      BY <1>3, <1>6
    <2>2. ~Ambiguous("pull", s[2])
      BY <1>5, <2>1 DEF Ambiguous, Shaped, Home, Away, Replaced
    <2>. QED
      BY <1>1, <1>2, <2>1, <2>2, PullStep
  <1>7. CASE s \in {"return"} \X op.old
    <2>1. s = <<"return", s[2]>> /\ s[1] = "return" /\ s[2] \in op.old /\ s[2] \in Paths
      BY <1>3, <1>7
    <2>2. \A q \in op.target : cand[q] # Absent
      <3>1. ASSUME NEW t \in proc.todo
            PROVE  t[1] # "pull"
        <4>1. CASE t = s
          BY <2>1, <4>1
        <4>2. CASE t # s
          <5>1. Before(s, t)
            BY <1>4, <4>2
          <5>. QED
            BY <2>1, <5>1 DEF Before
        <4>. QED
          BY <4>1, <4>2
      <3>2. \A q : <<"pull", q>>[1] = "pull"
        OBVIOUS
      <3>3. \A q \in op.target : <<"pull", q>> \notin proc.todo => cand[q] # Absent
        BY <1>2 DEF Inv, TodoTrue, At
      <3>. QED
        BY <3>1, <3>2, <3>3
    <2>3. ~Ambiguous("return", s[2])
      BY <1>5, <2>1, <2>2 DEF Ambiguous, Shaped, Home, Away, Replaced
    <2>. QED
      BY <1>1, <1>2, <2>1, <2>3, PutBackStep
  <1>. QED
    BY <1>4, <1>6, <1>7 DEF RollbackSteps

-----------------------------------------------------------------------------
(* The invariant holds.                                                    *)

\* The state in which a root is found at first.
LEMMA InitInv == Init => Inv
  <1>. SUFFICES ASSUME Init PROVE Inv
    OBVIOUS
  <1>1. /\ cand = Nothing /\ roll = Nothing /\ op = NoOp /\ stage = FALSE /\ backups = {} /\ hot = FALSE
        /\ proc = Free /\ allowed = {Merged(live)} /\ refused = {}
        /\ gen = 1 /\ crashes = 0 /\ faults = 0 /\ late = 0
    BY DEF Init
  <1>2. /\ live \in Files
        /\ live[Sidecar] # Absent => live[Db] = live[Sidecar]
        /\ live = Nothing \/ Full(live)
    <2>1. CASE live = Nothing
      BY <2>1, NothingKnown, PathsKnown
    <2>2. CASE \E wal \in {Absent, 1} : live = [[p \in Paths |-> 1] EXCEPT ![Sidecar] = wal]
      <3>1. PICK wal \in {Absent, 1} : live = [[p \in Paths |-> 1] EXCEPT ![Sidecar] = wal]
        BY <2>2
      <3>2. wal \in Contents /\ 1 \in Contents /\ 1 # Absent
        BY ContentsKnown
      <3>3. live \in Files /\ live[Sidecar] = wal /\ \A p \in Paths \ {Sidecar} : live[p] = 1
        BY <3>1, <3>2, PathsKnown DEF Files
      <3>. QED
        BY <3>1, <3>2, <3>3, PathsKnown DEF Full
    <2>. QED
      BY <2>1, <2>2 DEF Init
  <1>3. Merged(live) \in Files /\ op \in Operation /\ proc \in Holder
    BY <1>1, <1>2, MergedIs, FreeTyped DEF NoOp, Operation
  <1>4. Types
    <2>1. 1 \in 1..MaxGen /\ 0 \in Nat
      BY MaintenanceAssumption
    <2>2. backups \subseteq Files /\ allowed \subseteq Files /\ refused \subseteq Reasons
      BY <1>1, <1>3
    <2>. QED
      BY <1>1, <1>2, <1>3, <2>1, <2>2, NothingKnown DEF Types
  <1>5. op.journal = "none" /\ proc.pc = "none" /\ proc.kind = "none" /\ proc.want = Nothing
    BY <1>1, FreeTyped DEF NoOp
  <1>6. DirectoryTrue
    BY <1>1, <1>5, NothingKnown, PathsKnown DEF DirectoryTrue
  <1>7. HolderTrue /\ WantTrue /\ HotTrue /\ Saved /\ Clear
    BY <1>1, <1>5 DEF HolderTrue, WantTrue, HotTrue, Saved, Clear, Prepared, At
  <1>8. SwitchTrue /\ TodoTrue /\ Backed
    BY <1>5 DEF SwitchTrue, Switching, TodoTrue, Backed, At
  <1>9. SidecarOwn
    BY <1>2 DEF SidecarOwn
  <1>10. Whole
    <2>1. State = live
      BY <1>5 DEF State
    <2>. QED
      BY <1>1, <1>2, <2>1 DEF Whole
  <1>. QED
    BY <1>4, <1>6, <1>7, <1>8, <1>9, <1>10 DEF Inv

\* A step that changes nothing.
LEMMA StutterInv == Inv /\ UNCHANGED vars => Inv'
  BY DEF vars, files, counts, Inv, Types, DirectoryTrue, HolderTrue, WantTrue, HotTrue, SwitchTrue,
         TodoTrue, SidecarOwn, Saved, Backed, Whole, Clear, At, Prepared, Orphan, Wanted, Switching, Shaped,
         Home, Away, Replaced, Paired, Original, State, Merged, RollbackSteps, Nothing

\* Every step keeps it.
LEMMA NextInv == Inv /\ [Next]_vars => Inv'
  <1>. SUFFICES ASSUME Inv, Next PROVE Inv'
    BY StutterInv
  <1>1. ASSUME NEW kind \in Kinds, Enter(kind) PROVE Inv'
    BY <1>1, EnterStep
  <1>2. CASE Rollback
    BY <1>2, RollbackStep
  <1>3. CASE RolledBack
    BY <1>3, RolledBackStep
  <1>4. CASE Cleanup
    BY <1>4, CleanupStep
  <1>5. CASE Cleaned
    BY <1>5, CleanedStep
  <1>6. CASE Recovered
    BY <1>6, RecoveredStep
  <1>7. CASE StageBackup
    BY <1>7, StageBackupStep
  <1>8. CASE Publish
    BY <1>8, PublishStep
  <1>9. CASE Make
    BY <1>9, MakeStep
  <1>10. CASE Materialize
    BY <1>10, MaterializeStep
  <1>11. CASE Journal
    BY <1>11, JournalStep
  <1>12. CASE Advance
    BY <1>12, AdvanceStep
  <1>13. CASE Commit
    BY <1>13, CommitStep
  <1>14. CASE Done \/ Stop
    BY <1>14, EndStep
  <1>15. CASE Write
    BY <1>15, WriteStep
  <1>16. CASE Fault
    BY <1>16, FaultStep
  <1>17. CASE LateFault
    BY <1>17, LateFaultStep
  <1>18. CASE Crash
    BY <1>18, CrashStep
  <1>19. CASE Shelve
    BY <1>19, ShelveStep
  <1>. QED
    BY <1>1, <1>2, <1>3, <1>4, <1>5, <1>6, <1>7, <1>8, <1>9, <1>10, <1>11, <1>12, <1>13, <1>14, <1>15,
       <1>16, <1>17, <1>18, <1>19 DEF Next, Work

\* The invariant of the proofs holds in every state.
THEOREM Invariance == Spec => []Inv
  BY InitInv, NextInv, PTL DEF Spec

-----------------------------------------------------------------------------
(* What the run checks.                                                    *)

\* A start without a late interrupt finds one of the states that may be found.
LEMMA InvStartsWhole == Inv => StartsWhole
  <1>. SUFFICES ASSUME Inv, At("running"), OnTime PROVE Merged(live) \in allowed
    BY DEF StartsWhole
  <1>1. op.journal = "none"
    BY DEF Inv, HolderTrue, DirectoryTrue, NoOp
  <1>2. State = live
    BY <1>1 DEF State
  <1>. QED
    BY <1>2 DEF Inv, Whole, OnTime

\* The state that a start would find is there, path by path, live or set aside.
LEMMA InvNothingLost == Inv => NothingLost
  <1>. SUFFICES ASSUME Inv, OnTime
       PROVE  \E a \in allowed : \A p \in Paths \ {Sidecar} :
                a[p] \in {live[p], roll[p]} \/ (a[p] = cand[p] /\ At("moving"))
    BY DEF NothingLost
  <1>1. Types /\ State \in Files /\ Merged(State) \in allowed
    BY StateIs DEF Inv, Whole, OnTime
  <1>2. \A p \in Paths : State[p] \in {live[p], roll[p]}
    <2>1. CASE op.journal # "open"
      BY <2>1 DEF State
    <2>2. CASE op.journal = "open"
      <3>1. State = Original /\ \A p \in Paths : Shaped(p)
        BY <2>2 DEF State, Inv, SwitchTrue, Switching
      <3>2. \A p \in Paths \ op.old : State[p] = roll[p]
        BY <1>1, <3>1, OriginalIs DEF Shaped
      <3>3. \A p \in op.old : State[p] \in {live[p], roll[p]}
        BY <1>1, <3>1, OriginalIs
      <3>. QED
        BY <3>2, <3>3
    <2>. QED
      BY <2>1, <2>2
  <1>3. \A p \in Paths \ {Sidecar} : Merged(State)[p] = State[p]
    BY <1>1, MergedIs
  <1>. QED
    BY <1>1, <1>2, <1>3

\* What has been moved away is in the backup.
LEMMA InvBackupFirst == Inv => BackupFirst
  <1>. SUFFICES ASSUME Inv, op.journal = "open"
       PROVE  \/ Present(roll) = {}
              \/ \E b \in backups : \A p \in Present(roll) \ {Sidecar} : b[p] = roll[p]
    BY DEF BackupFirst
  <1>1. Types /\ Original \in Files
    BY OriginalIs DEF Inv
  <1>2. \A p \in Present(roll) : p \in Paths /\ roll[p] # Absent /\ Original[p] = roll[p]
    <2>1. \A p \in Paths : Shaped(p)
      BY DEF Inv, SwitchTrue, Switching
    <2>. QED
      BY <1>1, <2>1, OriginalIs DEF Present, Shaped
  <1>3. CASE Original = Nothing
    BY <1>2, <1>3, NothingKnown
  <1>4. CASE Merged(Original) \in backups
    <2>1. \A p \in Present(roll) \ {Sidecar} : Merged(Original)[p] = roll[p]
      BY <1>1, <1>2, MergedIs
    <2>. QED
      BY <1>4, <2>1
  <1>. QED
    BY <1>3, <1>4 DEF Inv, Backed

\* All of it together.
LEMMA InvRecoverable == Inv => Recoverable
  <1>. SUFFICES ASSUME Inv PROVE Recoverable
    OBVIOUS
  <1>1. TypeOK
    <2>1. op.parts # {} => op.dir
      BY DEF Inv, DirectoryTrue, NoOp
    <2>. QED
      BY <2>1 DEF Inv, Types, TypeOK, Operation, Holder, Reasons
  <1>2. NeverAmbiguous
    BY DEF Inv, Clear, Whole, OnTime, NeverAmbiguous
  <1>3. SidecarsMatch
    BY DEF Inv, SidecarOwn, SwitchTrue, Switching, SidecarsMatch
  <1>4. HotStays
    BY DEF Inv, HotTrue, HotStays
  <1>. QED
    BY <1>1, <1>2, <1>3, <1>4, InvStartsWhole, InvNothingLost, InvBackupFirst DEF Recoverable

\* Whatever is interrupted, by a failure, a crash or a late interrupt, and however
\* often, the state can be recovered.
THEOREM AlwaysRecoverable == Spec => []Recoverable
  BY Invariance, InvRecoverable, PTL

-----------------------------------------------------------------------------
(* The refinement of AtomicState.                                          *)

\* The journal changes what counts as the state from what is live to what is
\* recorded, which is the same.
LEMMA JournalLogical ==
    ASSUME Inv, Journal
    PROVE  Logical' = Logical /\ backups' = backups
  <1>1. /\ proc.pc = "switch"
        /\ op' = [op EXCEPT !.journal = "open", !.old = Present(live), !.target = Present(cand)]
        /\ UNCHANGED <<live, roll, backups>>
    BY DEF Journal, At, files
  <1>2. Types /\ op.journal = "none" /\ roll = Nothing
    BY <1>1 DEF Inv, HolderTrue, Prepared, At
  <1>3. op'.journal = "open" /\ op'.old = Present(live)
    BY <1>1, <1>2 DEF Types, Operation
  <1>4. Original' = live
    <2>1. Original' = [p \in Paths |-> IF p \notin Present(live) THEN Absent
                                        ELSE IF roll[p] # Absent THEN roll[p] ELSE live[p]]
      BY <1>1, <1>3 DEF Original
    <2>2. \A p \in Paths : roll[p] = Absent
      BY <1>2, NothingKnown
    <2>3. live \in Files
      BY <1>2 DEF Types
    <2>4. \A p \in Paths : Original'[p] = live[p]
      BY <2>1, <2>2 DEF Present
    <2>5. Original' \in Files
      BY <2>1, <2>2, <2>3, ContentsKnown DEF Files
    <2>. QED
      BY <2>3, <2>4, <2>5, SameFiles
  <1>. QED
    BY <1>1, <1>2, <1>3, <1>4 DEF Logical, Merged

\* The last step of a rollback changes it back, and everything is in its place.
LEMMA RolledBackLogical ==
    ASSUME Inv, RolledBack, late = 0
    PROVE  Logical' = Logical /\ backups' = backups
  <1>1. /\ proc.pc = "rollback" /\ proc.todo = {} /\ op' = [op EXCEPT !.journal = "rolled_back"]
        /\ UNCHANGED <<live, roll, backups>>
    BY DEF RolledBack, At, files
  <1>2. live = Original /\ op.journal = "open"
    BY <1>1, TakenBack DEF Inv, HolderTrue, At
  <1>3. op'.journal = "rolled_back"
    BY <1>1 DEF Inv, Types, Operation
  <1>. QED
    BY <1>1, <1>2, <1>3 DEF Logical, Merged

\* The commit is the moment at which the state changes: from one that a backup holds
\* to that of a backup, or none.
LEMMA CommitSwitches ==
    ASSUME Inv, Commit, late = 0
    PROVE  Abstract!Switch
  <1>1. /\ proc.pc = "moving" /\ live = Wanted /\ op' = [op EXCEPT !.journal = "committed"]
        /\ UNCHANGED <<live, roll, backups>>
    BY DEF Commit, Verified, At, files
  <1>2. /\ Types /\ WantTrue /\ op.journal = "open" /\ proc.kind \in {"reset", "restore"}
        /\ proc.kind = "restore" => proc.want \in backups
    BY <1>1 DEF Inv, HolderTrue, WantTrue, At
  <1>3. op'.journal = "committed"
    BY <1>1, <1>2 DEF Types, Operation
  <1>4. Logical \in backups \cup {Nothing, Fresh}
    <2>1. Logical = Merged(Original)
      BY <1>2 DEF Logical
    <2>2. Merged(Nothing) = Nothing
      BY NothingKnown, PathsKnown, MergedIs
    <2>. QED
      BY <1>2, <2>1, <2>2 DEF Inv, Backed
  <1>5. Logical' = Wanted
    <2>1. Logical' = Merged(live)
      BY <1>1, <1>3 DEF Logical, Merged
    <2>. QED
      BY <1>1, <1>2, <2>1, WantedIs, MergedIs
  <1>6. Wanted \in backups \cup {Fresh}
    <2>1. CASE proc.kind = "reset"
      BY <2>1 DEF Wanted
    <2>2. CASE proc.kind = "restore"
      <3>1. Full(proc.want)
        BY <1>2, <2>2 DEF Inv, Whole
      <3>. QED
        BY <1>2, <2>2, <3>1, WantedIs
    <2>. QED
      BY <1>2, <2>1, <2>2
  <1>. QED
    BY <1>1, <1>4, <1>5, <1>6 DEF Abstract!Switch

\* The application writes what it likes.
LEMMA WriteWrites ==
    ASSUME Inv, Inv', Write
    PROVE  Abstract!Write
  <1>1. proc.pc = "running" /\ UNCHANGED <<op, backups>>
    BY DEF Write, At
  <1>2. op.journal # "open"
    BY <1>1 DEF Inv, HolderTrue, DirectoryTrue, NoOp, At
  <1>3. Logical' = Merged(live') /\ live' \in Files
    BY <1>1, <1>2 DEF Logical, Merged, Inv, Types
  <1>4. Logical' \in Files
    BY <1>3, MergedIs
  <1>. QED
    BY <1>1, <1>4 DEF Abstract!Write, At

\* A published backup is one of the state.
LEMMA PublishBacksUp ==
    ASSUME Inv, Publish
    PROVE  Abstract!Backup
  <1>1. proc.pc = "publish" /\ backups' = backups \cup {Merged(live)} /\ UNCHANGED <<live, roll, op>>
    BY DEF Publish, At, files
  <1>2. op.journal # "open"
    <2>1. CASE proc.kind = "restore"
      BY <1>1, <2>1 DEF Inv, HolderTrue, Prepared
    <2>2. CASE proc.kind # "restore"
      BY <1>1, <2>2 DEF Inv, HolderTrue, DirectoryTrue, NoOp
    <2>. QED
      BY <2>1, <2>2
  <1>3. Logical = Merged(live) /\ Logical' = Logical
    BY <1>1, <1>2 DEF Logical, Merged
  <1>. QED
    BY <1>1, <1>3 DEF Abstract!Backup

\* The other steps leave the state and the backups as they are.
LEMMA OthersLogical ==
    ASSUME Inv, Inv', Next, ~Publish, ~Write, ~Commit, late' = 0
    PROVE  UNCHANGED <<Logical, backups>>
  <1>1. CASE UNCHANGED <<live, roll, op, backups>>
    BY <1>1 DEF Logical, Original, Merged
  <1>2. ASSUME NEW kind \in Kinds, Enter(kind) PROVE UNCHANGED <<Logical, backups>>
    BY <1>1, <1>2 DEF Enter, files
  <1>3. CASE Recovered \/ StageBackup \/ Materialize
    BY <1>1, <1>3 DEF Recovered, StageBackup, Materialize, files
  <1>4. CASE Done \/ Stop \/ Fault \/ Crash
    BY <1>1, <1>4 DEF Done, Stop, Fault, Crash, files
  <1>5. CASE Make \/ Shelve
    <2>1. op.journal = "none" /\ op'.journal = "none" /\ live' = live /\ backups' = backups
      <3>1. op.journal = "none" /\ op \in Operation
        BY <1>5 DEF Make, Shelve, Inv, HolderTrue, Prepared, At, Types
      <3>2. live' = live /\ backups' = backups /\ op'.journal = op.journal
        BY <1>5, <3>1 DEF Make, Shelve, files, Operation
      <3>. QED
        BY <3>1, <3>2
    <2>. QED
      BY <2>1 DEF Logical, Merged
  <1>6. CASE Cleanup \/ Cleaned
    <2>1. op.journal # "open" /\ live' = live /\ backups' = backups
      BY <1>6 DEF Cleanup, Cleaned, Inv, HolderTrue, At, files
    <2>2. op'.journal # "open"
      <3>1. CASE Cleanup
        BY <3>1 DEF Cleanup, Inv, HolderTrue, At
      <3>2. CASE Cleaned
        BY <3>2 DEF Cleaned, NoOp
      <3>. QED
        BY <1>6, <3>1, <3>2
    <2>. QED
      BY <2>1, <2>2 DEF Logical, Merged
  <1>7. CASE Journal
    BY <1>7, JournalLogical
  <1>8. CASE RolledBack
    <2>1. late = 0
      BY <1>8 DEF RolledBack, counts
    <2>. QED
      BY <1>8, <2>1, RolledBackLogical
  <1>9. CASE Advance
    <2>1. op' = op /\ Original' = Original /\ op.journal = "open" /\ backups' = backups
      BY <1>9, AdvanceStep DEF Advance, Inv, HolderTrue, At
    <2>. QED
      BY <2>1 DEF Logical, Merged
  <1>10. CASE Rollback
    <2>1. late = 0
      BY <1>10 DEF Rollback, counts
    <2>2. op' = op /\ Original' = Original /\ op.journal = "open" /\ backups' = backups
      BY <1>10, <2>1, RollbackStep DEF Rollback, Inv, HolderTrue, At
    <2>. QED
      BY <2>2 DEF Logical, Merged
  <1>11. CASE LateFault
    <2>1. late' = late + 1 /\ late \in Nat
      BY <1>11 DEF LateFault, Inv, Types
    <2>. QED
      BY <2>1
  <1>. QED
    BY <1>2, <1>3, <1>4, <1>5, <1>6, <1>7, <1>8, <1>9, <1>10, <1>11 DEF Next, Work

\* Backup, reset and restore implement AtomicState: every step that comes before a
\* late interrupt is one of its steps, or changes nothing that it knows of.
THEOREM StateIsAtomic == Spec => Atomic
  <1>1. Init => Abstract!Init
    <2>1. Inv => Logical \in Files
      BY StateIs, MergedIs DEF Inv
    <2>. QED
      BY <2>1, InitInv DEF Init, Abstract!Init
  <1>2. Inv /\ Inv' /\ [Next]_vars => [OnTime' => Abstract!Next]_<<Logical, backups>>
    <2>. SUFFICES ASSUME Inv, Inv', [Next]_vars
                  PROVE  (late' = 0 => Abstract!Next) \/ UNCHANGED <<Logical, backups>>
      BY DEF OnTime
    <2>1. CASE UNCHANGED vars
      BY <2>1 DEF vars, files, Logical, Original, Merged
    <2>2. CASE Write
      BY <2>2, WriteWrites DEF Abstract!Next
    <2>3. CASE Publish
      BY <2>3, PublishBacksUp DEF Abstract!Next
    <2>4. CASE Commit
      <3>1. late' = late
        BY <2>4 DEF Commit, counts
      <3>. QED
        BY <2>4, <3>1, CommitSwitches DEF Abstract!Next
    <2>5. CASE Next /\ ~Write /\ ~Publish /\ ~Commit
      BY <2>5, OthersLogical
    <2>. QED
      BY <2>1, <2>2, <2>3, <2>4, <2>5
  <1>. QED
    BY <1>1, <1>2, Invariance, PTL DEF Spec, Atomic
=============================================================================
