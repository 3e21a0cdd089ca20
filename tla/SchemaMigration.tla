--------------------------- MODULE SchemaMigration ---------------------------
(***************************************************************************)
(* The coordinator of db/migrations.py: the upgrade of one SQLite file at  *)
(* startup (migrate_sqlite_database), the backup of it                     *)
(* (backup_sqlite_database) and the restore of such a backup               *)
(* (restore_migration_backup), beside other connections to the same file,  *)
(* with failures of any step, kills and power losses.                      *)
(*                                                                         *)
(* A file is its content: a schema, the committed rows and the journal     *)
(* mode.  SQLite's locks belong to the file, a sidecar (the -wal file) to  *)
(* the name, so a file that takes the name of another one may find a       *)
(* sidecar that is not its own, and a connection to the file that was      *)
(* replaced is stale.  The lease of the database (flock) lets one          *)
(* coordinator in, so there is one job.                                    *)
(***************************************************************************)
EXTENDS Naturals, FiniteSets, Sequences, SequencesExt

CONSTANTS
    Writer,          \* the other connections: the application, a tool
    Row,             \* what they commit
    None,
    Operations,      \* those started, a subset of OperationNames
    Sources,         \* the states the database starts in, subset of SourceNames
    MaxEvents,       \* openings of the database by other connections, steps that
                     \* fail, kills, power losses and restores, in all
    MaxBackups       \* backups in the directory when one more is asked for

OperationNames == {"migrate", "backup", "restore"}
SourceNames == {"absent", "delete", "wal"}
Schemas == {"empty", "old", "current"}
Modes == {"delete", "wal"}
Purpose == [migrate |-> "pre_migration", backup |-> "pre_backfill",
            restore |-> "before_restore"]

Contents == [schema : Schemas, rows : SUBSET Row, mode : Modes]

ASSUME ConfigAssumption ==
    /\ Operations \subseteq OperationNames /\ Sources \subseteq SourceNames
    /\ {MaxEvents, MaxBackups} \subseteq Nat
    /\ None \notin Writer \union Contents \union {"job"}
    /\ None \notin [own : BOOLEAN, rows : SUBSET Row]
    /\ "job" \notin Writer

VARIABLES
    db,          \* the file under the database's name, or None
    wal,         \* the sidecar beside that name, or None: the rows in it, and
                 \* whether it was written for the file now under the name
    lock,        \* who holds the write lock of that file
    conn,        \* [Writer -> "closed", "open" or "stale"]
    committed,   \* the rows some writer was told are committed
    backups,     \* the complete backups, in the order they were published
    staging,     \* a backup directory that is not published yet
    trusted,     \* history: the backups used again while a power loss could
                 \* still undo their rename
    synced,      \* what a power loss leaves: db and backups as last synced,
                 \* when a rename since then may still be undone
    job,         \* the coordinator's local variables
    events,      \* a counter of the bound
    restored     \* history: a restore was started

store == <<backups, staging, trusted>>
counters == <<events, restored>>
vars == <<db, wal, lock, conn, committed, store, synced, job, counters>>

\* The bound leaves room for one more.
Bounded == events < MaxEvents

Before == {"leased", "guarded", "snapped", "staged", "saved", "backed",
           "released", "checkpointed", "standalone", "canonical"}
Publishing == {"reserved", "published", "cleaned", "durable"}
RollingBack == {"rollback", "rolling", "rolled"}
Outcomes == {"none", "current", "migrated", "saved", "restored", "failed",
             "recovery_required", "crashed"}

Empty == [schema |-> "empty", rows |-> {}, mode |-> "delete"]
NoWork == [at |-> "idle", op |-> "none", source |-> "none", snap |-> Empty,
           target |-> Empty, changed |-> FALSE, outcome |-> "none"]

WalRows == IF wal = None THEN {} ELSE wal.rows

\* What a connection that opens the name reads.
Readable == IF db = None THEN {} ELSE db.rows \union WalRows
SchemaAt == IF db = None THEN "absent" ELSE db.schema

Connected == {w \in Writer : conn[w] = "open"}
Checkpointed == [db EXCEPT !.rows = @ \union WalRows]

\* A backup of the database as it was before its rows.
Earlier(mode) ==
    [purpose |-> Purpose.backup, schema |-> "old", rows |-> {}, header |-> mode]

Init ==
    /\ \E s \in Sources, rows \in SUBSET Row :
          /\ s = "absent" => rows = {}
          /\ db = IF s = "absent" THEN None
                  ELSE [schema |-> "old", mode |-> s,
                        rows |-> IF s = "wal" THEN {} ELSE rows]
          /\ wal = IF s = "wal" THEN [own |-> TRUE, rows |-> rows] ELSE None
          /\ committed = rows
          /\ backups \in {<<>>} \union {<<Earlier(m)>> : m \in {s} \ {"absent"}}
          /\ synced = [db |-> db, backups |-> backups]
    /\ lock = None
    /\ conn = [w \in Writer |-> "closed"]
    /\ staging = FALSE /\ trusted = {}
    /\ job = NoWork
    /\ events = 0 /\ restored = FALSE

-----------------------------------------------------------------------------
(* The other connections.  They are SQLite's: what the code relies on.     *)

\* Opening the name; of a database that is not there, an empty file.
OpenDatabase(w) ==
    /\ conn[w] = "closed" /\ Bounded
    /\ events' = events + 1
    /\ conn' = [conn EXCEPT ![w] = "open"]
    /\ IF db # None
       THEN UNCHANGED <<db, synced>>
       ELSE db' = Empty /\ synced' = [synced EXCEPT !.db = Empty]
    /\ UNCHANGED <<wal, lock, committed, store, job, restored>>

\* BEGIN IMMEDIATE.  SQLite refuses to write to a file that was moved away
\* from its name, so a stale connection does nothing but close.
BeginWrite(w) ==
    /\ conn[w] = "open" /\ lock = None /\ db.schema # "empty"
    /\ lock' = w
    /\ UNCHANGED <<db, wal, conn, committed, store, synced, job, counters>>

\* A write in a rollback journal syncs the directory with it, and with it the
\* name of the file.  Another connection sees it in PRAGMA data_version.
Write(content) ==
    /\ db' = content
    /\ synced' = [synced EXCEPT !.db = content]

CommitWrite(w, r) ==
    /\ lock = w /\ r \notin committed
    /\ IF db.mode = "wal"
       THEN /\ wal' = [own |-> TRUE, rows |-> WalRows \union {r}]
            /\ UNCHANGED <<db, synced>>
       ELSE /\ Write([db EXCEPT !.rows = @ \union {r}])
            /\ UNCHANGED wal
    /\ committed' = committed \union {r}
    /\ lock' = None
    /\ job' = [job EXCEPT !.changed = job.at # "idle"]
    /\ UNCHANGED <<conn, store, counters>>

\* PRAGMA journal_mode=WAL, itself a write of the file's header.
EnterWal(w) ==
    /\ conn[w] = "open" /\ lock = None
    /\ db.mode = "delete" /\ db.schema # "empty"
    /\ Write([db EXCEPT !.mode = "wal"])
    /\ wal' = [own |-> TRUE, rows |-> {}]
    /\ job' = [job EXCEPT !.changed = job.at # "idle"]
    /\ UNCHANGED <<lock, conn, committed, store, counters>>

\* A connection goes, closed or killed: a write it had begun is undone.
Leave(w) ==
    /\ conn[w] # "closed"
    /\ conn' = [conn EXCEPT ![w] = "closed"]
    /\ lock' = IF lock = w THEN None ELSE lock
    /\ UNCHANGED <<db, wal, committed, store, synced, job, counters>>

-----------------------------------------------------------------------------
(* The coordinator, up to the backup.                                      *)

\* The lease; sidecars without their main file are refused.
Start(op) ==
    /\ job.at = "idle" /\ op \in Operations
    /\ op = "restore" => Bounded /\ backups # <<>>
    /\ op = "backup" => db # None /\ Len(backups) <= MaxBackups
    /\ events' = events + (IF op = "restore" THEN 1 ELSE 0)
    /\ restored' = (restored \/ op = "restore")
    /\ IF db = None /\ wal # None
       THEN job' = [NoWork EXCEPT !.outcome = "recovery_required"]
       ELSE \E target \in IF op = "restore" THEN ToSet(backups) ELSE {Empty} :
              job' = [NoWork EXCEPT
                        !.at = "leased", !.op = op,
                        !.target = [schema |-> target.schema, rows |-> target.rows,
                                    mode |-> "delete"]]
    /\ UNCHANGED <<db, wal, lock, conn, committed, store, synced>>

\* Every way out: the write lock goes with its connection.
Release(outcome) ==
    /\ lock' = IF lock = "job" THEN None ELSE lock
    /\ job' = [NoWork EXCEPT !.source = job.source, !.outcome = outcome]

\* _writer_guard: BEGIN IMMEDIATE on the database, which reads data_version,
\* or nothing to lock.
TakeGuard ==
    /\ job.at = "leased"
    /\ IF lock # None
       THEN Release("failed")
       ELSE /\ lock' = IF db = None THEN None ELSE "job"
            /\ job' = [job EXCEPT !.at = "guarded", !.source = SchemaAt,
                                  !.changed = FALSE]
    /\ UNCHANGED <<db, wal, conn, committed, store, synced, counters>>

\* _assert_writer_guard_path_unchanged, of a database that was not there
Appeared == job.source = "absent" /\ db # None

\* The snapshot under the guard, its checks, and the report of a database that
\* needs nothing.
TakeSnapshot ==
    /\ job.at = "guarded"
    /\ IF Appeared \/ (job.op = "backup" /\ db = None)
       THEN Release("failed")
       ELSE IF job.op = "migrate" /\ SchemaAt = "current"
       THEN Release("current")
       ELSE /\ job' = [job EXCEPT
                !.at = IF job.op = "restore" /\ db = None THEN "backed" ELSE "snapped",
                !.snap = IF db = None THEN Empty
                         ELSE [db EXCEPT !.rows = Readable]]
            /\ UNCHANGED lock
    /\ UNCHANGED <<db, wal, conn, committed, store, synced, counters>>

\* The backup of a snapshot; the header of the copy tells the journal mode it
\* was taken in, so the same rows have another digest after a change of mode.
BackupOf(snap) == [purpose |-> Purpose[job.op], schema |-> snap.schema,
                   rows |-> snap.rows, header |-> snap.mode]

\* Mutant: staging left by an earlier attempt is refused instead of removed.
RefuseStale ==
    /\ job.at = "snapped"
    /\ IF staging
       THEN Release("failed") /\ UNCHANGED staging
       ELSE /\ staging' = TRUE /\ job' = [job EXCEPT !.at = "staged"]
            /\ UNCHANGED lock
    /\ UNCHANGED <<db, wal, conn, committed, backups, trusted, synced, counters>>

\* The directory of the backups as it will be found after a power loss; what is
\* used again from now on is durable if it is in it.
SyncedWith(saved, used) ==
    /\ synced' = [synced EXCEPT !.backups = saved]
    /\ trusted' = (trusted \union used) \ ToSet(saved)

\* _publish_backup: stale staging goes, with a sync of the directory; an
\* identical backup is used again without one; a new one is prepared in a
\* staging directory, renamed, synced and verified.
StageBackup ==
    /\ job.at = "snapped"
    /\ LET b == BackupOf(job.snap)
           again == b \in ToSet(backups)
       IN /\ staging' = ~again
          /\ job' = [job EXCEPT !.at = IF again THEN "backed" ELSE "staged"]
          /\ SyncedWith(IF staging THEN backups ELSE synced.backups,
                        IF again THEN {b} ELSE {})
    /\ UNCHANGED <<db, wal, lock, conn, committed, backups, counters>>

RenameBackup ==
    /\ job.at = "staged"
    /\ backups' = Append(backups, BackupOf(job.snap))
    /\ staging' = FALSE
    /\ job' = [job EXCEPT !.at = "saved"]
    /\ UNCHANGED <<db, wal, lock, conn, committed, trusted, synced, counters>>

SyncBackup ==
    /\ job.at = "saved"
    /\ SyncedWith(backups, {})
    /\ job' = [job EXCEPT !.at = "backed"]
    /\ UNCHANGED <<db, wal, lock, conn, committed, backups, staging, counters>>

\* backup_sqlite_database ends here.
FinishBackup ==
    /\ job.at = "backed" /\ job.op = "backup"
    /\ Release("saved")
    /\ UNCHANGED <<db, wal, conn, committed, store, synced, counters>>

-----------------------------------------------------------------------------
(* _canonicalize_live_journal: the write lock is given up for the change of *)
(* journal mode and taken again.                                            *)

\* Mutant: the journal of the source stays as it is.
KeepJournal ==
    /\ job.at = "backed" /\ job.op # "backup"
    /\ job' = [job EXCEPT !.at = "canonical"]
    /\ UNCHANGED <<db, wal, lock, conn, committed, store, synced, counters>>

ReleaseGuard ==
    /\ job.at = "backed" /\ job.op # "backup"
    /\ lock' = None
    /\ job' = [job EXCEPT !.at = IF job.source = "absent" THEN "canonical"
                                 ELSE "released"]
    /\ UNCHANGED <<db, wal, conn, committed, store, synced, counters>>

\* wal_checkpoint(TRUNCATE): a writer, or a connection that is reading, stops it.
Checkpoint ==
    /\ job.at = "released"
    /\ \/ /\ db.mode = "wal" /\ Connected # {}
          /\ Release("failed")
          /\ UNCHANGED <<db, wal, synced>>
       \/ /\ db.mode = "wal" => lock = None
          /\ IF db.mode = "wal"
             THEN Write(Checkpointed) /\ wal' = [own |-> TRUE, rows |-> {}]
             ELSE UNCHANGED <<db, wal, synced>>
          /\ job' = [job EXCEPT !.at = "checkpointed"]
          /\ UNCHANGED lock
    /\ UNCHANGED <<conn, committed, store, counters>>

\* journal_mode=DELETE: only for the last connection to a WAL database, which
\* first moves what is left in the WAL.
LeaveWal ==
    /\ job.at = "checkpointed"
    /\ IF db.mode = "wal" /\ Connected # {}
       THEN Release("failed") /\ UNCHANGED <<db, wal, synced>>
       ELSE /\ IF db.mode = "wal"
               THEN Write([Checkpointed EXCEPT !.mode = "delete"]) /\ wal' = None
               ELSE UNCHANGED <<db, wal, synced>>
            /\ job' = [job EXCEPT !.at = "standalone"]
            /\ UNCHANGED lock
    /\ UNCHANGED <<conn, committed, store, counters>>

\* Mutant: data_version is not looked at.
Unwatched == FALSE

\* The lock again; data_version tells whether anybody committed in between.
SourceChanged == job.changed

RetakeGuard ==
    /\ job.at = "standalone"
    /\ IF lock # None \/ SourceChanged
       THEN Release("failed") /\ UNCHANGED <<wal, synced>>
       ELSE /\ lock' = "job"
            /\ wal' = None
            /\ synced' = [synced EXCEPT !.db = db]
            /\ job' = [job EXCEPT !.at = "canonical"]
    /\ UNCHANGED <<db, conn, committed, store, counters>>

-----------------------------------------------------------------------------
(* The publication and its rollback.                                       *)

\* _reserve_absent_database_path: O_EXCL, so a database that appeared wins. The
\* creation and its BEGIN IMMEDIATE are one step: who opens the empty file between
\* the two finds what an opener finds after them.
Reserve ==
    /\ job.at = "canonical" /\ job.source = "absent"
    /\ IF db # None
       THEN Release("failed") /\ UNCHANGED db
       ELSE /\ db' = Empty
            /\ lock' = "job"
            /\ job' = [job EXCEPT !.at = "reserved"]
    /\ UNCHANGED <<wal, conn, committed, store, synced, counters>>

\* The candidate: the snapshot's rows in the current schema, or the payload.
Candidate ==
    IF job.op = "migrate"
    THEN [schema |-> "current", rows |-> job.snap.rows, mode |-> "delete"]
    ELSE job.target

\* Mutant: the candidate is not locked before it gets the name.
PutUnlocked(content) ==
    /\ db' = content
    /\ lock' = None
    /\ conn' = [w \in Writer |-> IF conn[w] = "open" THEN "stale" ELSE conn[w]]
    /\ wal' = IF wal = None THEN None ELSE [wal EXCEPT !.own = FALSE]

\* os.replace by a file that is locked before it gets the name
\* (_publication_guard): who had the name open is left with the old file, and
\* a sidecar is now beside a file it was not written for.
PutInPlace(content) ==
    /\ db' = content
    /\ lock' = "job"
    /\ conn' = [w \in Writer |-> IF conn[w] = "open" THEN "stale" ELSE conn[w]]
    /\ wal' = IF wal = None THEN None ELSE [wal EXCEPT !.own = FALSE]

Replace ==
    /\ \/ job.at = "reserved"
       \/ job.at = "canonical" /\ job.source # "absent"
    /\ PutInPlace(Candidate)
    /\ job' = [job EXCEPT !.at = "published"]
    /\ UNCHANGED <<committed, store, synced, counters>>

DropSidecars ==
    /\ job.at = "published"
    /\ wal' = None
    /\ job' = [job EXCEPT !.at = "cleaned"]
    /\ UNCHANGED <<db, lock, conn, committed, store, synced, counters>>

SyncDirectory ==
    /\ job.at = "cleaned"
    /\ synced' = [synced EXCEPT !.db = db]
    /\ job' = [job EXCEPT !.at = "durable"]
    /\ UNCHANGED <<db, wal, lock, conn, committed, store, counters>>

\* The published file is verified, the backup once more, and the locks go.
Finish ==
    /\ job.at = "durable"
    /\ Release(IF job.op = "migrate" THEN "migrated" ELSE "restored")
    /\ UNCHANGED <<db, wal, conn, committed, store, synced, counters>>

\* Any step may fail.  Before the publication nothing of the database was
\* replaced: the backup that was being published is removed and the call
\* raises.  From the reservation on, the previous state is put back.  A
\* failure of that says recovery_required.
Fail ==
    /\ job.at # "idle" /\ Bounded
    /\ events' = events + 1
    /\ \/ /\ job.at \in Before
          /\ staging' = IF job.at = "staged" THEN FALSE ELSE staging
          /\ backups' = IF job.at = "saved" THEN Front(backups) ELSE backups
          /\ IF job.at = "saved"
             THEN SyncedWith(Front(backups), {})
             ELSE UNCHANGED <<synced, trusted>>
          /\ Release("failed")
       \/ /\ job.at \in Publishing
          /\ job' = [job EXCEPT !.at = "rollback"]
          /\ UNCHANGED <<lock, store, synced>>
       \/ /\ job.at \in RollingBack
          /\ Release("recovery_required")
          /\ UNCHANGED <<store, synced>>
    /\ UNCHANGED <<db, wal, conn, committed, restored>>

\* _restore_snapshot_atomically: the sidecars go before the main file changes.
RollbackSidecars ==
    /\ job.at = "rollback"
    /\ wal' = None
    /\ job' = [job EXCEPT !.at = "rolling"]
    /\ UNCHANGED <<db, lock, conn, committed, store, synced, counters>>

\* Mutant: the rollback puts the candidate back.
RollbackToCandidate ==
    /\ job.at = "rolling"
    /\ PutInPlace(Candidate)
    /\ job' = [job EXCEPT !.at = "rolled"]
    /\ UNCHANGED <<committed, store, synced, counters>>

RollbackReplace ==
    /\ job.at = "rolling"
    /\ IF job.source = "absent"
       THEN /\ db' = None /\ lock' = None
            /\ conn' = [w \in Writer |-> IF conn[w] = "open" THEN "stale" ELSE conn[w]]
            /\ UNCHANGED wal
       ELSE PutInPlace([job.snap EXCEPT !.mode = "delete"])
    /\ job' = [job EXCEPT !.at = "rolled"]
    /\ UNCHANGED <<committed, store, synced, counters>>

\* The directory is synced, the file put back verified; a database that
\* appeared where there was none is left alone.
FinishRollback ==
    /\ job.at = "rolled"
    /\ IF Appeared
       THEN Release("recovery_required") /\ UNCHANGED synced
       ELSE Release("failed") /\ synced' = [synced EXCEPT !.db = db]
    /\ UNCHANGED <<db, wal, conn, committed, store, counters>>

-----------------------------------------------------------------------------
(* Faults of the environment.                                              *)

\* The coordinator is killed: the kernel drops its lock and its lease.
Kill ==
    /\ job.at # "idle" /\ Bounded
    /\ events' = events + 1
    /\ Release("crashed")
    /\ UNCHANGED <<db, wal, conn, committed, store, synced, restored>>

\* The machine stops: every connection goes, and a rename whose directory was
\* not synced may be undone.
PowerLoss ==
    /\ Bounded
    /\ events' = events + 1
    /\ db' \in {db, synced.db}
    /\ backups' \in {backups, synced.backups}
    /\ synced' = [db |-> db', backups |-> backups']
    /\ trusted' = trusted \ ToSet(backups')
    /\ lock' = None
    /\ conn' = [w \in Writer |-> "closed"]
    /\ job' = [NoWork EXCEPT !.outcome = "crashed"]
    /\ UNCHANGED <<wal, committed, staging, restored>>

Coordinate ==
    \/ TakeGuard \/ TakeSnapshot \/ StageBackup \/ RenameBackup \/ SyncBackup
    \/ FinishBackup \/ ReleaseGuard \/ Checkpoint \/ LeaveWal \/ RetakeGuard
    \/ Reserve \/ Replace \/ DropSidecars \/ SyncDirectory \/ Finish
    \/ RollbackSidecars \/ RollbackReplace \/ FinishRollback

Connections ==
    \E w \in Writer :
       \/ OpenDatabase(w) \/ BeginWrite(w) \/ EnterWal(w) \/ Leave(w)
       \/ \E r \in Row : CommitWrite(w, r)

Next ==
    \/ \E op \in Operations : Start(op)
    \/ Coordinate
    \/ Connections
    \/ Fail \/ Kill \/ PowerLoss

Spec == Init /\ [][Next]_vars

\* A coordinator that runs goes on, connections close in the end, and the
\* application is started again: its lifespan begins with the migration.
Fairness ==
    /\ WF_vars(Coordinate)
    /\ SF_vars(Start("migrate"))
    /\ \A w \in Writer : WF_vars(Leave(w))

FairSpec == Spec /\ Fairness

-----------------------------------------------------------------------------
(* Properties                                                              *)

Backups == [purpose : {Purpose[o] : o \in OperationNames}, schema : Schemas,
            rows : SUBSET Row, header : Modes]
Jobs == [at : {"idle"} \union Before \union Publishing \union RollingBack,
         op : OperationNames \union {"none"},
         source : Schemas \union {"absent", "none"},
         snap : Contents, target : Contents, changed : BOOLEAN,
         outcome : Outcomes]

TypeOK ==
    /\ db \in Contents \union {None}
    /\ wal \in [own : BOOLEAN, rows : SUBSET Row] \union {None}
    /\ lock \in Writer \union {"job", None}
    /\ conn \in [Writer -> {"closed", "open", "stale"}]
    /\ committed \subseteq Row
    /\ backups \in Seq(Backups) /\ staging \in BOOLEAN /\ trusted \subseteq Backups
    /\ synced \in [db : Contents \union {None}, backups : Seq(Backups)]
    /\ job \in Jobs

\* A row somebody was told is committed can be read from the database, or it
\* is in a complete backup because a restore put an older state in its place.
\* It survives the moment the guard is given up, the replacement, the rollback
\* and a power loss at any of them.  One case is excepted: the restore relied on
\* a backup that an attempt killed before the sync of the directory had left,
\* which a power loss can still undo.
CommitSurvives ==
    \A r \in committed :
       \/ r \in Readable
       \/ restored /\ \E b \in ToSet(backups) \union trusted : r \in b.rows

\* The main file is never read together with the WAL of another one: the
\* source is made a standalone file before the candidate takes its name.
NoMixture == db # None /\ wal # None => wal.own \/ wal.rows = {}

\* An operation that fails without asking for recovery leaves the schema it
\* found, or the absence it found (unless somebody else created a file there).
FailureKeepsSource ==
    job.outcome = "failed" /\ job.source # "none" =>
       \/ SchemaAt = job.source
       \/ job.source = "absent" /\ SchemaAt = "empty"

\* A migration that reports success has left the current schema under the name,
\* and nothing of an earlier attempt in the directory of the backups.
MigratedIsCurrent ==
    job.outcome \in {"migrated", "current"} =>
       SchemaAt = "current" /\ (job.outcome = "migrated" => ~staging)

\* A file takes the place of the database.
Replaced == job'.at = "published" /\ job.at = "canonical"
KeptIn(saved) == \E b \in ToSet(saved) : b.schema = SchemaAt /\ b.rows = Readable

\* What can be read from the database when a file takes its place is, with its
\* schema, in a complete backup.
BackedUpBeforeReplaced == [][Replaced => KeptIn(backups)]_vars

\* Attempts that are repeated, after failures and kills too, do not pile up
\* copies of one snapshot.
NoTwinBackups ==
    \A i, j \in DOMAIN backups : backups[i] = backups[j] => i = j

\* Nobody but the coordinator writes to a file it has put under the name and
\* not yet verified, or to the source it is about to replace.
OnlyVerifiedIsWritten ==
    [][committed' # committed =>
         job.at \notin {"canonical"} \union Publishing \union RollingBack]_vars

\* A replacement takes nothing away that is not saved, and nobody writes to a
\* file that may still be taken back.
ReplacedSafely == BackedUpBeforeReplaced /\ OnlyVerifiedIsWritten

\* What an operation reports is so, and its backups are no copies of each other.
OutcomesTrue == TypeOK /\ FailureKeepsSource /\ MigratedIsCurrent /\ NoTwinBackups

\* A database gets to the current schema in the end, and again after every
\* restore of an older one.
BecomesCurrent == []<>(SchemaAt = "current")
=============================================================================
