-------------------------- MODULE StateMaintenance --------------------------
(* Backup, reset and restore of the local state. Whoever uses the state    *)
(* holds the lease of its root: the application, or one maintenance        *)
(* command. A reset or restore prepares a candidate, records a journal,    *)
(* moves every managed path out of the way and the candidate into its      *)
(* place, one rename at a time, and records the commit; a failure rolls    *)
(* the renames back, and whoever takes the lease after a crash does that   *)
(* first. Every rename, directory and record is synced before the next.    *)
EXTENDS Naturals

CONSTANTS
    Paths,          \* the managed paths
    Place,          \* the place of each in the order of their names
    Db,             \* a database among them
    Sidecar,        \* its -wal and -shm, while it is in WAL mode
    MaxGen,         \* versions of a path that the application writes (a bound)
    MaxCrashes,     \* crashes (a bound)
    MaxFaults,      \* failures that a command survives (a bound)
    MaxLate         \* failures between the record of a commit and its return (a bound)

Trees == Paths \ {Db, Sidecar}

ASSUME MaintenanceAssumption ==
    /\ Place \in [Paths -> Nat]
    /\ \A p, q \in Paths : Place[p] = Place[q] => p = q
    /\ Db \in Paths /\ Sidecar \in Paths /\ Place[Db] < Place[Sidecar]
    /\ MaxGen \in Nat \ {0} /\ {MaxCrashes, MaxFaults, MaxLate} \subseteq Nat

VARIABLES
    live,       \* what is at each managed path
    cand,       \* what is in the candidate directory of the operation
    roll,       \* and in its rollback directory
    op,         \* the operation directory, its parts (shelves: the empty directories in
                \* rollback for what will be moved there) and the journal in it
    stage,      \* an .incomplete- backup exists
    backups,    \* the published backups
    hot,        \* a rollback journal of a crashed transaction lies beside the database
    proc,       \* who holds the lease, and where it is
    allowed,    \* observed: the states that may be found
    refused,    \* observed: why a recovery has given up
    gen, crashes, faults, late

files == <<live, cand, roll>>
counts == <<gen, crashes, faults, late>>
vars == <<live, cand, roll, op, stage, backups, hot, proc, allowed, refused, counts>>

Absent == 0
Empty == MaxGen + 1         \* a tree without files
Contents == 0..(MaxGen + 1)
Nothing == [p \in Paths |-> Absent]
Fresh == [p \in Paths |-> IF p \in Trees THEN Empty ELSE Absent]
Present(f) == {p \in Paths : f[p] # Absent}

\* What a snapshot holds: SQLite merges the sidecar.
Merged(f) == [f EXCEPT ![Sidecar] = Absent]

NoOp == [dir |-> FALSE, parts |-> {}, journal |-> "none", old |-> {}, target |-> {}]
Free == [kind |-> "none", pc |-> "none", todo |-> {}, want |-> Nothing, recovering |-> FALSE]

Init ==
    /\ \/ live = Nothing
       \/ \E wal \in {Absent, 1} : live = [[p \in Paths |-> 1] EXCEPT ![Sidecar] = wal]
    /\ cand = Nothing /\ roll = Nothing
    /\ op = NoOp
    /\ stage = FALSE /\ backups = {} /\ hot = FALSE
    /\ proc = Free
    /\ allowed = {Merged(live)}
    /\ refused = {}
    /\ gen = 1 /\ crashes = 0 /\ faults = 0 /\ late = 0

At(pc) == proc.pc = pc
Goto(pc) == proc' = [proc EXCEPT !.pc = pc]

\* A command or a start that fails gives the lease back.
Refuse(reason) ==
    /\ refused' = refused \cup {reason}
    /\ proc' = Free

-----------------------------------------------------------------------------
(* Taking the lease, and recovery.                                         *)

Orphan == live[Sidecar] # Absent /\ live[Db] = Absent

\* A switch moves the old paths away and then installs the new ones, in the order
\* of the names. A rollback pulls the installed ones back to the candidate and
\* then returns the old ones to their places, in the reverse order.
SwitchSteps(old, target) == ({"quarantine"} \X old) \cup ({"install"} \X target)
RollbackSteps == ({"pull"} \X op.target) \cup ({"return"} \X op.old)

Before(s, t) ==
    \/ <<s[1], t[1]>> \in {<<"quarantine", "install">>, <<"pull", "return">>}
    \/ s[1] = t[1] /\ s[1] \in {"quarantine", "install"} /\ Place[s[2]] < Place[t[2]]
    \/ s[1] = t[1] /\ s[1] \in {"pull", "return"} /\ Place[t[2]] < Place[s[2]]

\* The rename that is next, if any is left.
Due == {s \in proc.todo : \A t \in proc.todo \ {s} : Before(s, t)}

\* A recovery that takes any journal for settled, and one that looks for none.
ScanDiscards(kind) ==
    /\ proc' = [Free EXCEPT !.kind = kind, !.recovering = TRUE,
                           !.pc = IF op.dir THEN "cleanup" ELSE "recovered"]
    /\ UNCHANGED refused

ScanNothing(kind) ==
    /\ proc' = [Free EXCEPT !.kind = kind, !.recovering = TRUE, !.pc = "recovered"]
    /\ UNCHANGED refused

\* _recover_incomplete_locked looks at the operation directory.
Scan(kind) ==
    LET holder == [Free EXCEPT !.kind = kind, !.recovering = TRUE] IN
    IF ~op.dir
      THEN IF Orphan THEN Refuse("orphan_sidecar")
                     ELSE proc' = [holder EXCEPT !.pc = "recovered"] /\ UNCHANGED refused
    ELSE IF op.journal = "none" /\ ~({"candidate", "rollback"} \subseteq op.parts)
      THEN Refuse("incomplete_staging")
    ELSE IF op.journal = "none" /\ (roll # Nothing \/ "shelves" \in op.parts)
      THEN Refuse("rollback_without_journal")
    ELSE IF op.journal = "open"
      THEN /\ proc' = [holder EXCEPT !.pc = "rollback", !.todo = RollbackSteps]
           /\ UNCHANGED refused
      ELSE proc' = [holder EXCEPT !.pc = "cleanup"] /\ UNCHANGED refused

\* Starting the application, recover and a coordinated mutation let SQLite roll a
\* hot journal back; the other commands refuse to touch it.
Enter(kind) ==
    /\ proc = Free
    /\ hot => kind \in {"runtime", "recover", "mutation"}
    /\ hot' = FALSE
    /\ Scan(kind)
    /\ UNCHANGED <<files, op, stage, backups, allowed, counts>>

Pull(p) ==
    IF live[p] = Absent \/ (roll[p] = Absent /\ p \in op.old)
      THEN UNCHANGED <<live, cand>>
      ELSE /\ cand' = [cand EXCEPT ![p] = live[p]]
           /\ live' = [live EXCEPT ![p] = Absent]

PutBack(p) ==
    IF roll[p] = Absent
      THEN UNCHANGED <<live, roll>>
      ELSE /\ live' = [live EXCEPT ![p] = roll[p]]
           /\ roll' = [roll EXCEPT ![p] = Absent]

\* What a rollback meets that it cannot explain.
Ambiguous(what, p) ==
    \/ /\ what = "pull" /\ live[p] # Absent /\ cand[p] # Absent
       /\ roll[p] # Absent \/ p \notin op.old
    \/ what = "return" /\ live[p] # Absent /\ roll[p] # Absent

\* _rollback_operation, one rename at a time.
Rollback ==
    /\ At("rollback")
    /\ \E s \in Due :
         IF Ambiguous(s[1], s[2])
           THEN Refuse("ambiguous") /\ UNCHANGED files
           ELSE /\ IF s[1] = "pull" THEN Pull(s[2]) /\ UNCHANGED roll
                                    ELSE PutBack(s[2]) /\ UNCHANGED cand
                /\ proc' = [proc EXCEPT !.todo = @ \ {s}]
                /\ UNCHANGED refused
    /\ UNCHANGED <<op, stage, backups, hot, allowed, counts>>

RolledBack ==
    /\ At("rollback") /\ proc.todo = {}
    /\ op' = [op EXCEPT !.journal = "rolled_back"]
    /\ Goto("cleanup")
    /\ UNCHANGED <<files, stage, backups, hot, allowed, refused, counts>>

\* rmtree of the operation directory, in whatever order the directory lists its
\* entries.
Cleanup ==
    /\ At("cleanup")
    /\ \/ /\ op.journal # "none"
          /\ op' = [op EXCEPT !.journal = "none"]
          /\ UNCHANGED files
       \/ \E p \in Present(roll) : roll' = [roll EXCEPT ![p] = Absent]
          /\ UNCHANGED <<live, cand, op>>
       \/ \E p \in Present(cand) : cand' = [cand EXCEPT ![p] = Absent]
          /\ UNCHANGED <<live, roll, op>>
       \/ \E part \in op.parts :
            /\ (IF part = "candidate" THEN cand ELSE roll) = Nothing
            /\ part = "rollback" => "shelves" \notin op.parts
            /\ op' = [op EXCEPT !.parts = @ \ {part}]
            /\ UNCHANGED files
    /\ UNCHANGED <<stage, backups, hot, proc, allowed, refused, counts>>

Cleaned ==
    /\ At("cleanup")
    /\ op.journal = "none" /\ op.parts = {}
    /\ op' = NoOp
    /\ IF ~proc.recovering THEN proc' = Free /\ UNCHANGED refused
       ELSE IF Orphan THEN Refuse("orphan_sidecar")
       ELSE Goto("recovered") /\ UNCHANGED refused
    /\ UNCHANGED <<files, stage, backups, hot, allowed, counts>>

\* The lease is held and the state is clean; incomplete backups go.
Recovered ==
    /\ At("recovered")
    /\ stage' = FALSE
    /\ allowed' = IF Merged(live) \in allowed THEN {Merged(live)} ELSE allowed
    /\ \/ proc.kind = "runtime" /\ Goto("running")
       \/ proc.kind = "recover" /\ proc' = Free
       \/ proc.kind = "restore" /\ backups = {} /\ proc' = Free
       \/ proc.kind \in {"backup", "reset", "mutation"} /\ proc' = [proc EXCEPT !.pc = "backup", !.recovering = FALSE]
       \/ /\ proc.kind = "restore"
          /\ \E b \in backups :
               proc' = [proc EXCEPT !.pc = "make", !.want = b, !.recovering = FALSE]
    /\ UNCHANGED <<files, op, backups, hot, refused, counts>>

-----------------------------------------------------------------------------
(* The application, or a script that changes the state after a backup. The *)
(* first start takes the database out of WAL mode.                         *)

Write ==
    /\ At("running") /\ gen < MaxGen
    /\ gen' = gen + 1
    /\ \E changed \in (SUBSET (Paths \ {Sidecar})) \ {{}} :
          live' = [p \in Paths |-> IF p \in changed \/ (p = Db /\ live[p] = Absent) THEN gen'
                                   ELSE IF p = Sidecar THEN Absent
                                   ELSE IF live[p] = Absent THEN Empty ELSE live[p]]
    /\ allowed' = {live'}
    /\ UNCHANGED <<cand, roll, op, stage, backups, hot, proc, refused, crashes, faults, late>>

Stop ==
    /\ At("running")
    /\ proc' = Free
    /\ UNCHANGED <<files, op, stage, backups, hot, allowed, refused, counts>>

-----------------------------------------------------------------------------
(* Backup, reset and restore.                                              *)

AfterBackup == IF proc.kind = "reset" THEN "make"
               ELSE IF proc.kind = "restore" THEN "switch"
               ELSE IF proc.kind = "mutation" THEN "running" ELSE "done"

\* _build_backup_stage copies; a root without managed files has nothing to copy.
StageBackup ==
    /\ At("backup")
    /\ IF live = Nothing THEN Goto(AfterBackup) /\ UNCHANGED stage
                         ELSE stage' = TRUE /\ Goto("publish")
    /\ UNCHANGED <<files, op, backups, hot, allowed, refused, counts>>

\* A copy that is thrown away.
PublishNothing ==
    /\ At("publish")
    /\ stage' = FALSE
    /\ Goto(AfterBackup)
    /\ UNCHANGED <<files, op, backups, hot, allowed, refused, counts>>

Publish ==
    /\ At("publish")
    /\ stage' = FALSE
    /\ backups' = backups \cup {Merged(live)}
    /\ Goto(AfterBackup)
    /\ UNCHANGED <<files, op, hot, allowed, refused, counts>>

\* _new_operation_directory: the directory, then its two parts.
Make ==
    /\ At("make")
    /\ IF ~op.dir
         THEN op' = [op EXCEPT !.dir = TRUE] /\ UNCHANGED proc
       ELSE IF op.parts = {}
         THEN op' = [op EXCEPT !.parts = {"candidate"}] /\ UNCHANGED proc
         ELSE /\ op' = [op EXCEPT !.parts = {"candidate", "rollback"}]
              /\ Goto("materialize")
    /\ UNCHANGED <<files, stage, backups, hot, allowed, refused, counts>>

\* The state that the command makes: that of the backup, or none.
Wanted ==
    IF proc.kind = "reset" THEN Fresh
    ELSE [p \in Paths |-> IF p \in Trees /\ proc.want[p] = Absent THEN Empty ELSE proc.want[p]]

Materialize ==
    /\ At("materialize")
    /\ cand' = Wanted
    /\ Goto(IF proc.kind = "reset" THEN "switch" ELSE "backup")
    /\ UNCHANGED <<live, roll, op, stage, backups, hot, allowed, refused, counts>>

\* _switch_state makes the directories of what it will move, and records the journal
\* before it moves anything. A crash in between leaves what Scan refuses.
Shelve ==
    /\ At("switch") /\ live # Nothing /\ "shelves" \notin op.parts
    /\ op' = [op EXCEPT !.parts = @ \cup {"shelves"}]
    /\ UNCHANGED <<files, stage, backups, hot, proc, allowed, refused, counts>>

Journal ==
    /\ At("switch") /\ (live # Nothing => "shelves" \in op.parts)
    /\ op' = [op EXCEPT !.journal = "open", !.old = Present(live), !.target = Present(cand)]
    /\ proc' = [proc EXCEPT !.pc = "moving", !.todo = SwitchSteps(Present(live), Present(cand))]
    /\ UNCHANGED <<files, stage, backups, hot, allowed, refused, counts>>

Quarantine(p) ==
    /\ roll' = [roll EXCEPT ![p] = live[p]]
    /\ live' = [live EXCEPT ![p] = Absent]

Install(p) ==
    /\ live' = [live EXCEPT ![p] = cand[p]]
    /\ cand' = [cand EXCEPT ![p] = Absent]

Advance ==
    /\ At("moving")
    /\ \E s \in Due :
         /\ IF s[1] = "quarantine" THEN Quarantine(s[2]) /\ UNCHANGED cand
                                   ELSE Install(s[2]) /\ UNCHANGED roll
         /\ proc' = [proc EXCEPT !.todo = @ \ {s}]
    /\ UNCHANGED <<op, stage, backups, hot, allowed, refused, counts>>

\* post_verify: the live files are those of the backup, or none.
Verified == live = Wanted

Commit ==
    /\ At("moving") /\ proc.todo = {} /\ Verified
    /\ op' = [op EXCEPT !.journal = "committed"]
    /\ allowed' = {Merged(live)}
    /\ Goto("cleanup")
    /\ UNCHANGED <<files, stage, backups, hot, refused, counts>>

Done ==
    /\ At("done")
    /\ proc' = Free
    /\ UNCHANGED <<files, op, stage, backups, hot, allowed, refused, counts>>

-----------------------------------------------------------------------------
(* Failures.                                                               *)

\* A failure before the journal throws the operation directory and the staged
\* backup away; one between the journal and the commit rolls back.
Fault ==
    /\ faults < MaxFaults
    /\ faults' = faults + 1
    /\ proc.pc \in {"publish", "make", "materialize", "switch", "moving"}
    /\ stage' = FALSE
    /\ proc' = IF At("moving") THEN [proc EXCEPT !.pc = "rollback", !.todo = RollbackSteps]
               ELSE IF op.dir THEN [proc EXCEPT !.pc = "cleanup"] ELSE Free
    /\ UNCHANGED <<files, op, backups, hot, allowed, refused, gen, crashes, late>>

\* The journal says "committed" on disk, and the sync of its directory fails or
\* an interrupt arrives: the command takes the switch back.
LateFault ==
    /\ late < MaxLate
    /\ late' = late + 1
    /\ At("moving") /\ proc.todo = {} /\ Verified
    /\ op' = [op EXCEPT !.journal = "committed"]
    /\ allowed' = allowed \cup {Merged(live)}
    /\ proc' = [proc EXCEPT !.pc = "rollback", !.todo = RollbackSteps]
    /\ UNCHANGED <<files, stage, backups, hot, refused, gen, crashes, faults>>

\* The process dies, or a cleanup or a rollback fails; a transaction of the
\* application may be left half done.
Crash ==
    /\ crashes < MaxCrashes
    /\ proc # Free
    /\ crashes' = crashes + 1
    /\ proc' = Free
    /\ hot' \in IF At("running") /\ live[Db] # Absent /\ live[Sidecar] = Absent
                  THEN BOOLEAN ELSE {hot}
    /\ UNCHANGED <<files, op, stage, backups, allowed, refused, gen, faults, late>>

Kinds == {"runtime", "recover", "mutation", "backup", "reset", "restore"}

Work ==
    \/ Rollback \/ RolledBack \/ Cleanup \/ Cleaned \/ Recovered
    \/ StageBackup \/ Publish \/ Make \/ Materialize \/ Shelve \/ Journal \/ Advance \/ Commit \/ Done

Next ==
    \/ \E kind \in Kinds : Enter(kind)
    \/ Work \/ Write \/ Stop \/ Fault \/ LateFault \/ Crash

Spec == Init /\ [][Next]_vars

\* A command runs on, and the application is started again.
FairSpec == Spec /\ WF_vars(Work) /\ WF_vars(Enter("runtime"))

-----------------------------------------------------------------------------
(* Properties.                                                             *)

Files == [Paths -> Contents]

\* No interrupt has come between the record of a commit and the end of a command:
\* such an interrupt makes a command take back what the journal calls committed.
OnTime == late = 0

TypeOK ==
    /\ {live, cand, roll} \subseteq Files
    /\ op.parts \subseteq {"candidate", "rollback", "shelves"} /\ (op.parts # {} => op.dir)
    /\ op.journal \in {"none", "open", "committed", "rolled_back"}
    /\ op.old \subseteq Paths /\ op.target \subseteq Paths \ {Sidecar}
    /\ stage \in BOOLEAN /\ hot \in BOOLEAN
    /\ backups \subseteq Files /\ allowed \subseteq Files
    /\ proc.kind \in Kinds \cup {"none"}
    /\ refused \subseteq {"orphan_sidecar", "incomplete_staging", "rollback_without_journal", "ambiguous"}

\* The application only starts on a whole state: the one before an interrupted
\* operation or the one after it, whatever was interrupted and however often.
StartsWhole == At("running") /\ OnTime => Merged(live) \in allowed

\* A database is never where it can be opened without its own sidecar, and never
\* beside that of another: between any two renames, also those of a rollback.
SidecarsMatch ==
    /\ live[Db] # Absent /\ live[Sidecar] # Absent => live[Db] = live[Sidecar]
    /\ op.journal = "open" /\ live[Db] # Absent => roll[Sidecar] = Absent \/ roll[Db] # Absent

\* A switch never starts over a transaction that SQLite has to roll back.
HotStays == hot => live[Db] # Absent /\ ~op.dir

\* While an operation can still be taken back, what it has moved away is in a
\* published backup as well.
BackupFirst ==
    op.journal = "open" =>
        \/ Present(roll) = {}
        \/ \E b \in backups : \A p \in Present(roll) \ {Sidecar} : b[p] = roll[p]

\* One of the states that may be found is on the disk in full, live or set aside,
\* also when a recovery gives up.
NothingLost ==
    OnTime => \E a \in allowed : \A p \in Paths \ {Sidecar} :
        a[p] \in {live[p], roll[p]} \/ (a[p] = cand[p] /\ At("moving"))

\* A rollback explains what it finds at every path, also when an interrupt has
\* made it take a commit back; and no recovery finds a sidecar without its database.
NeverAmbiguous ==
    /\ "ambiguous" \notin refused
    /\ OnTime => "orphan_sidecar" \notin refused

\* Whatever is interrupted, the state can be recovered: nothing is lost, no
\* transaction is torn, and what is live when the application runs is whole.
Recoverable ==
    /\ TypeOK
    /\ StartsWhole /\ NothingLost /\ NeverAmbiguous
    /\ SidecarsMatch /\ HotStays /\ BackupFirst

\* An interrupted operation is settled, or a recovery has asked for help.
OperationsSettle == op.dir ~> (~op.dir \/ refused # {})

-----------------------------------------------------------------------------
(* The state as a whole, for AtomicState: what the next start finds.       *)

Original ==
    [p \in Paths |-> IF p \notin op.old THEN Absent ELSE IF roll[p] # Absent THEN roll[p] ELSE live[p]]

Logical == Merged(IF op.journal = "open" THEN Original ELSE live)

Abstract == INSTANCE AtomicState WITH
    state <- Logical, backups <- backups, running <- At("running"), States <- Files, Fresh <- Fresh, Nobody <- Nothing

\* Every step implements one of AtomicState or none, until an interrupt comes
\* between the record of a commit and the end of the command.
Atomic == Abstract!Init /\ [][OnTime' => Abstract!Next]_<<Logical, backups>>
=============================================================================
