------------------------ MODULE SchemaMigrationProofs ------------------------
(* Theorems about SchemaMigration, for any writers, rows and bounds.       *)
EXTENDS SchemaMigration, SequenceTheorems, TLAPS

Held == {"guarded", "snapped", "staged", "saved", "backed"}
GuardGiven == {"released", "checkpointed", "standalone"}
Guarded == Held \union GuardGiven \union {"canonical"}

\* What a job that has got this far has been started with.
JobKnown ==
    /\ job.at # "idle" => job.op \in OperationNames
    /\ job.at \in Guarded \union Publishing \union RollingBack =>
          job.source \in Schemas \union {"absent"}
    /\ job.at \in GuardGiven => job.source # "absent"
    /\ job.at = "reserved" => job.source = "absent"
    /\ job.at = "saved" => backups # <<>>

\* A connection to the file has a file, and who holds its lock has it open and
\* may write to it.
ConnectionsAttached ==
    /\ \A w \in Writer : conn[w] = "open" => db # None
    /\ lock \in Writer => conn[lock] = "open" /\ db # None /\ db.schema # "empty"

\* Where the coordinator holds the write lock, and where the database was not
\* there: then nobody has anything to write to.
LockKept ==
    /\ \/ job.at \in Held \union {"canonical", "rolled"} /\ job.source # "absent"
       \/ job.at \in (Publishing \union RollingBack) \ {"rolled"}
       => lock = "job" /\ db # None
    /\ job.at \in {"idle", "leased"} \union GuardGiven => lock # "job"
    /\ job.at \in GuardGiven => db # None
    /\ job.at \in Held \union {"canonical", "rolled"} /\ job.source = "absent"
       => db \in {None, Empty} /\ lock = None

\* The sidecar is the one of the file under the name, a WAL database has one,
\* and what a power loss leaves goes with it.
SidecarOwn ==
    /\ wal # None => wal.own /\ db # None /\ synced.db = db
    /\ db # None => (db.mode = "wal" <=> wal # None)
    /\ wal = None => synced.db = None \/ synced.db.mode = "delete"
    /\ job.at = "standalone" => job.changed \/ db.mode = "delete"
    /\ job.at = "canonical" => wal = None
    /\ job.at \in Publishing \union RollingBack => wal = None
    /\ job.target.mode = "delete"

\* The snapshot is the source, as long as nobody could write or nobody did.
Taken == {"snapped", "staged", "saved", "backed", "canonical"}

SourceSnapped ==
    /\ job.source # "absent"
    /\ job.at \in Taken \/ (job.at \in GuardGiven /\ ~job.changed)
    => job.snap.schema = SchemaAt /\ job.snap.rows = Readable

\* From its publication on there is a backup of the snapshot.
Saved == {"saved", "backed", "canonical"} \union GuardGiven

SnapSaved ==
    job.source # "absent" /\ job.at \in Saved =>
       \E b \in ToSet(backups) :
          b.schema = job.snap.schema /\ b.rows = job.snap.rows

Inv ==
    /\ TypeOK /\ JobKnown /\ ConnectionsAttached /\ LockKept /\ SidecarOwn
    /\ SourceSnapped /\ SnapSaved

\* Every way out of a job keeps the invariant, wherever it is taken.
LEMMA ReleaseKeeps ==
    ASSUME Inv, NEW outcome \in Outcomes, Release(outcome),
           UNCHANGED <<db, wal, conn, committed>>,
           staging' \in BOOLEAN, backups' \in Seq(Backups), trusted' \subseteq Backups,
           synced' \in [db : Contents \union {None}, backups : Seq(Backups)],
           synced'.db \in {synced.db, db}
    PROVE  Inv'
<1>1. /\ job' \in Jobs
      /\ job'.at = "idle" /\ job'.target = Empty
      BY DEF Release, NoWork, Empty, Jobs, Contents, Inv, TypeOK, Schemas, Modes,
             Outcomes
<1>2. lock' = IF lock = "job" THEN None ELSE lock
      BY DEF Release
<1>3. TypeOK'
      BY <1>1, <1>2 DEF Inv, TypeOK
<1>4. JobKnown'
      BY <1>1 DEF JobKnown, Jobs, Held, GuardGiven, Guarded, Publishing, RollingBack
<1>5. ConnectionsAttached'
      BY <1>2, ConfigAssumption DEF Inv, ConnectionsAttached
<1>6. LockKept'
      BY <1>1, <1>2, ConfigAssumption
      DEF LockKept, Held, GuardGiven, Publishing, RollingBack
<1>7. SidecarOwn'
      BY <1>1
      DEF Inv, TypeOK, Contents, Modes, SidecarOwn, Empty, Publishing, RollingBack
<1>8. SourceSnapped' /\ SnapSaved'
      BY <1>1 DEF SourceSnapped, SnapSaved, Taken, Saved, GuardGiven
<1> QED BY <1>3, <1>4, <1>5, <1>6, <1>7, <1>8 DEF Inv

\* The lease: nothing but the job changes, and its target comes from a backup.
LEMMA StartKeeps == ASSUME Inv, NEW op \in Operations, Start(op) PROVE Inv'
<1>1. CASE db = None /\ wal # None
  <2>1. FALSE
      BY <1>1 DEF Inv, SidecarOwn
  <2> QED BY <2>1
<1>2. CASE ~(db = None /\ wal # None)
  <2>0. PICK target \in IF op = "restore" THEN ToSet(backups) ELSE {Empty} :
           job' = [NoWork EXCEPT
                     !.at = "leased", !.op = op,
                     !.target = [schema |-> target.schema, rows |-> target.rows,
                                 mode |-> "delete"]]
      BY <1>2 DEF Start
  <2>1. target.schema \in Schemas /\ target.rows \in SUBSET Row
    <3>1. CASE op = "restore"
      <4>1. target \in Backups
          BY <2>0, <3>1 DEF Inv, TypeOK, ToSet
      <4> QED BY <4>1 DEF Backups
    <3>2. CASE op # "restore"
      BY <2>0, <3>2 DEF Empty, Schemas
    <3> QED BY <3>1, <3>2
  <2>2. /\ job.at = "idle" /\ op \in OperationNames
        /\ UNCHANGED <<db, wal, lock, conn, committed, backups, staging, trusted, synced>>
      BY ConfigAssumption DEF Start, store
  <2>3. /\ job' \in Jobs
        /\ job'.at = "leased" /\ job'.op = op /\ job'.target.mode = "delete"
      BY <2>0, <2>1, <2>2
      DEF NoWork, Empty, Jobs, Contents, Schemas, Modes, OperationNames, Before,
          Outcomes
  <2>4. TypeOK'
      BY <2>2, <2>3 DEF Inv, TypeOK
  <2>5. JobKnown'
      BY <2>2, <2>3 DEF JobKnown, Guarded, Held, GuardGiven, Publishing, RollingBack
  <2>6. ConnectionsAttached'
      BY <2>2 DEF Inv, ConnectionsAttached
  <2>7. LockKept'
      BY <2>2, <2>3 DEF Inv, LockKept, Held, GuardGiven, Publishing, RollingBack
  <2>8. SidecarOwn'
      BY <2>2, <2>3 DEF Inv, SidecarOwn, Publishing, RollingBack
  <2>9. SourceSnapped' /\ SnapSaved'
      BY <2>3 DEF SourceSnapped, SnapSaved, Taken, Saved, GuardGiven
  <2> QED BY <2>4, <2>5, <2>6, <2>7, <2>8, <2>9 DEF Inv
<1> QED BY <1>1, <1>2

\* The guard is taken on a file, or there is none.
LEMMA TakeGuardKeeps == ASSUME Inv, TakeGuard PROVE Inv'
<1>1. CASE lock # None
  <2>1. Release("failed")
        BY <1>1 DEF TakeGuard
  <2>2. UNCHANGED <<db, wal, conn, committed, backups, staging, trusted, synced>>
        BY <1>1 DEF TakeGuard, store
  <2> QED BY <2>1, <2>2, ReleaseKeeps DEF Inv, TypeOK, Outcomes
<1>2. CASE ~(lock # None)
  <2> USE ConfigAssumption DEF Inv, JobKnown, ConnectionsAttached, LockKept, SidecarOwn,
             Before, Publishing, RollingBack, Held, GuardGiven, Guarded
  <2>1. /\ job.at = "leased"
        /\ lock = None
        /\ lock' = IF db = None THEN None ELSE "job"
        /\ job' = [job EXCEPT !.at = "guarded", !.source = SchemaAt, !.changed = FALSE]
        /\ UNCHANGED <<db, wal, conn, committed, backups, staging, trusted, synced>>
        BY <1>2 DEF TakeGuard, store, counters
  <2>2. /\ job' \in Jobs
        /\ job'.at = "guarded"
        /\ job'.op = job.op
        /\ job'.source = SchemaAt
        /\ job'.target = job.target
        /\ job'.snap = job.snap
        BY <2>1
        DEF Inv, TypeOK, Jobs, Contents, Schemas, Modes, OperationNames, Outcomes,
            JobKnown, Before, Publishing, RollingBack, Guarded, SchemaAt, Empty
  <2>3. TypeOK'
        BY <2>1, <2>2 DEF TypeOK, Contents, Schemas, Modes, SchemaAt, Empty
  <2>4. JobKnown'
        BY <2>1, <2>2 DEF TypeOK, Contents, Jobs, Schemas, SchemaAt, Empty
  <2>5. ConnectionsAttached'
        BY <2>1, <2>2 DEF TypeOK, Contents, Schemas, Modes, SchemaAt, Empty
  <2>6. LockKept'
        BY <2>1, <2>2 DEF TypeOK, Contents, Schemas, Modes, SchemaAt, Empty
  <2>7. SidecarOwn'
        BY <2>1, <2>2 DEF TypeOK, Contents, Schemas, Modes, SchemaAt, Empty
  <2>8. SourceSnapped'
        BY <2>1, <2>2
        DEF SourceSnapped, Taken, TypeOK, Contents, Jobs, Readable, WalRows,
            SchemaAt, SchemaAt, Empty
  <2>9. SnapSaved'
        BY <2>1, <2>2 DEF SnapSaved, Saved, TypeOK, Contents, Jobs, SchemaAt, Empty
  <2> QED BY <2>3, <2>4, <2>5, <2>6, <2>7, <2>8, <2>9 DEF Inv
<1> QED BY <1>1, <1>2

\* The snapshot equals the source: the guard lets nobody write.
LEMMA TakeSnapshotKeeps == ASSUME Inv, TakeSnapshot PROVE Inv'
<1>1. CASE Appeared \/ (job.op = "backup" /\ db = None)
  <2>1. Release("failed")
        BY <1>1 DEF TakeSnapshot
  <2>2. UNCHANGED <<db, wal, conn, committed, backups, staging, trusted, synced>>
        BY <1>1 DEF TakeSnapshot, store
  <2> QED BY <2>1, <2>2, ReleaseKeeps DEF Inv, TypeOK, Outcomes
<1>2. CASE ~(Appeared \/ (job.op = "backup" /\ db = None))
  <2>1. CASE job.op = "migrate" /\ SchemaAt = "current"
    <3>1. Release("current")
          BY <1>2, <2>1 DEF TakeSnapshot
    <3>2. UNCHANGED <<db, wal, conn, committed, backups, staging, trusted, synced>>
          BY <1>2, <2>1 DEF TakeSnapshot, store
    <3> QED BY <3>1, <3>2, ReleaseKeeps DEF Inv, TypeOK, Outcomes
  <2>2. CASE ~(job.op = "migrate" /\ SchemaAt = "current")
    <3> USE ConfigAssumption
    DEF Inv, JobKnown, ConnectionsAttached, LockKept, SidecarOwn,
               Before, Publishing, RollingBack, Held, GuardGiven, Guarded
    <3>1. /\ job.at = "guarded"
          /\ job' = [job EXCEPT
                !.at = IF job.op = "restore" /\ db = None THEN "backed" ELSE "snapped",
                !.snap = IF db = None THEN Empty ELSE [db EXCEPT !.rows = Readable]]
          /\ UNCHANGED <<db, wal, lock, conn, committed, backups, staging, trusted, synced>>
          BY <1>2, <2>2 DEF TakeSnapshot, store, counters
    <3>2. /\ job' \in Jobs
          /\ job'.at \in {"snapped", "backed"}
          /\ job'.op = job.op
          /\ job'.source = job.source
          /\ job'.target = job.target
          /\ job'.changed = job.changed
      <4> DEFINE snap == IF db = None THEN Empty ELSE [db EXCEPT !.rows = Readable]
                 at == IF job.op = "restore" /\ db = None THEN "backed" ELSE "snapped"
      <4>1. Empty \in Contents
            BY DEF Empty, Contents, Schemas, Modes
      <4>2. Readable \subseteq Row
            BY DEF TypeOK, Contents, Readable, WalRows
      <4>3. snap \in Contents
            BY <4>1, <4>2 DEF TypeOK, Contents
      <4>4. job' = [job EXCEPT !.at = at, !.snap = snap]
            BY <3>1
      <4>5. at \in {"snapped", "backed"}
            OBVIOUS
      <4> HIDE DEF at, snap
      <4> QED BY <4>3, <4>4, <4>5 DEF TypeOK, Jobs
    <3>3. TypeOK'
          BY <3>1, <3>2 DEF TypeOK, Contents, Schemas, Modes, Empty, Readable, WalRows
    <3>4. JobKnown'
          BY <3>1, <3>2 DEF TypeOK, Contents, Jobs, Schemas, Empty, Readable, WalRows
    <3>5. ConnectionsAttached'
          BY <3>1, <3>2 DEF TypeOK, Contents, Schemas, Modes, Empty, Readable, WalRows
    <3>6. LockKept'
          BY <3>1, <3>2 DEF TypeOK, Contents, Schemas, Modes, Empty, Readable, WalRows
    <3>7. SidecarOwn'
          BY <3>1, <3>2 DEF TypeOK, Contents, Schemas, Modes, Empty, Readable, WalRows
    <3>8. SourceSnapped'
          BY <3>1, <3>2
          DEF SourceSnapped, Taken, TypeOK, Contents, Jobs, Readable, WalRows,
              SchemaAt, Empty, Readable, WalRows
    <3>9. SnapSaved'
          BY <3>1, <3>2
          DEF SnapSaved, Saved, TypeOK, Contents, Jobs, Empty, Readable, WalRows
    <3> QED BY <3>3, <3>4, <3>5, <3>6, <3>7, <3>8, <3>9 DEF Inv
  <2> QED BY <2>1, <2>2
<1> QED BY <1>1, <1>2

\* A backup that is used again holds the snapshot.
LEMMA StageBackupKeeps == ASSUME Inv, StageBackup PROVE Inv'
<1>1. CASE BackupOf(job.snap) \in ToSet(backups)
  <2>1. /\ job.at = "snapped"
        /\ staging' = FALSE
        /\ BackupOf(job.snap) \in ToSet(backups)
        /\ job' = [job EXCEPT !.at = "backed"]
        /\ UNCHANGED <<db, wal, lock, conn, committed, backups>>
        /\ SyncedWith(IF staging THEN backups ELSE synced.backups, {BackupOf(job.snap)})
        BY <1>1 DEF StageBackup, store, counters
  <2>1a. /\ synced' \in [db : Contents \union {None}, backups : Seq(Backups)]
         /\ synced'.db = synced.db
         /\ trusted' \subseteq Backups
    <3>1. /\ synced \in [db : Contents \union {None}, backups : Seq(Backups)]
          /\ backups \in Seq(Backups) /\ trusted \subseteq Backups
          BY DEF Inv, TypeOK
    <3>2. BackupOf(job.snap) \in Backups
          BY <2>1, <3>1 DEF ToSet
    <3>3. synced'.db = synced.db
          /\ synced' \in [db : Contents \union {None}, backups : Seq(Backups)]
          BY <2>1, <3>1 DEF SyncedWith
    <3>4. trusted' \subseteq Backups
          BY <2>1, <3>1, <3>2 DEF SyncedWith
    <3> QED BY <3>3, <3>4
  <2>2. /\ job' \in Jobs
        /\ job'.at = "backed"
        /\ job'.op = job.op
        /\ job'.source = job.source
        /\ job'.target = job.target
        /\ job'.snap = job.snap
        /\ job'.changed = job.changed
        BY <2>1
        DEF Inv, TypeOK, Jobs, Contents, Schemas, Modes, OperationNames, Outcomes,
            JobKnown, Before, Publishing, RollingBack, Guarded
  <2>2a. /\ \E b \in ToSet(backups) : b.schema = job.snap.schema /\ b.rows = job.snap.rows
        BY <2>1 DEF BackupOf
  <2> USE ConfigAssumption DEF Inv, JobKnown, ConnectionsAttached, LockKept, SidecarOwn,
             Before, Publishing, RollingBack, Held, GuardGiven, Guarded
  <2>3. TypeOK'
        BY <2>1, <2>1a, <2>2, <2>2a DEF TypeOK, Contents, Schemas, Modes
  <2>4. JobKnown'
        BY <2>1, <2>1a, <2>2, <2>2a DEF TypeOK, Contents, Jobs, Schemas
  <2>5. ConnectionsAttached'
        BY <2>1, <2>1a, <2>2, <2>2a DEF TypeOK, Contents, Schemas, Modes
  <2>6. LockKept'
        BY <2>1, <2>1a, <2>2, <2>2a DEF TypeOK, Contents, Schemas, Modes
  <2>7. SidecarOwn'
        BY <2>1, <2>1a, <2>2, <2>2a DEF TypeOK, Contents, Schemas, Modes
  <2>8. SourceSnapped'
        BY <2>1, <2>1a, <2>2, <2>2a
        DEF SourceSnapped, Taken, TypeOK, Contents, Jobs, Readable, WalRows, SchemaAt
  <2>9. SnapSaved'
        BY <2>1, <2>1a, <2>2, <2>2a DEF SnapSaved, Saved, TypeOK, Contents, Jobs
  <2> QED BY <2>3, <2>4, <2>5, <2>6, <2>7, <2>8, <2>9 DEF Inv
<1>2. CASE BackupOf(job.snap) \notin ToSet(backups)
  <2> USE ConfigAssumption DEF Inv, JobKnown, ConnectionsAttached, LockKept, SidecarOwn,
             Before, Publishing, RollingBack, Held, GuardGiven, Guarded
  <2>1. /\ job.at = "snapped"
        /\ staging' = TRUE
        /\ job' = [job EXCEPT !.at = "staged"]
        /\ UNCHANGED <<db, wal, lock, conn, committed, backups>>
        /\ SyncedWith(IF staging THEN backups ELSE synced.backups, {})
        BY <1>2 DEF StageBackup, store, counters
  <2>1a. /\ synced' \in [db : Contents \union {None}, backups : Seq(Backups)]
         /\ synced'.db = synced.db
         /\ trusted' \subseteq Backups
        BY <2>1 DEF SyncedWith, TypeOK
  <2>2. /\ job' \in Jobs
        /\ job'.at = "staged"
        /\ job'.op = job.op
        /\ job'.source = job.source
        /\ job'.target = job.target
        /\ job'.snap = job.snap
        /\ job'.changed = job.changed
        BY <2>1
        DEF Inv, TypeOK, Jobs, Contents, Schemas, Modes, OperationNames, Outcomes,
            JobKnown, Before, Publishing, RollingBack, Guarded
  <2>3. TypeOK'
        BY <2>1, <2>1a, <2>2 DEF TypeOK, Contents, Schemas, Modes
  <2>4. JobKnown'
        BY <2>1, <2>1a, <2>2 DEF TypeOK, Contents, Jobs, Schemas
  <2>5. ConnectionsAttached'
        BY <2>1, <2>1a, <2>2 DEF TypeOK, Contents, Schemas, Modes
  <2>6. LockKept'
        BY <2>1, <2>1a, <2>2 DEF TypeOK, Contents, Schemas, Modes
  <2>7. SidecarOwn'
        BY <2>1, <2>1a, <2>2 DEF TypeOK, Contents, Schemas, Modes
  <2>8. SourceSnapped'
        BY <2>1, <2>1a, <2>2
        DEF SourceSnapped, Taken, TypeOK, Contents, Jobs, Readable, WalRows, SchemaAt
  <2>9. SnapSaved'
        BY <2>1, <2>1a, <2>2 DEF SnapSaved, Saved, TypeOK, Contents, Jobs
  <2> QED BY <2>3, <2>4, <2>5, <2>6, <2>7, <2>8, <2>9 DEF Inv
<1> QED BY <1>1, <1>2

\* The published backup holds the snapshot.
LEMMA RenameBackupKeeps == ASSUME Inv, RenameBackup PROVE Inv'
<1>0. BackupOf(job.snap) \in Backups
      BY
      DEF RenameBackup, BackupOf, Backups, Purpose, Inv, TypeOK, JobKnown, Jobs,
          Contents,
             OperationNames
<1>1. /\ job.at = "staged"
      /\ backups' = Append(backups, BackupOf(job.snap))
      /\ staging' = FALSE
      /\ job' = [job EXCEPT !.at = "saved"]
      /\ UNCHANGED <<db, wal, lock, conn, committed, trusted, synced>>
      BY DEF RenameBackup, store, counters
<1>2. /\ job' \in Jobs
      /\ job'.at = "saved"
      /\ job'.op = job.op
      /\ job'.source = job.source
      /\ job'.target = job.target
      /\ job'.snap = job.snap
      /\ job'.changed = job.changed
      BY <1>1
      DEF Inv, TypeOK, Jobs, Contents, Schemas, Modes, OperationNames, Outcomes,
          JobKnown, Before, Publishing, RollingBack, Guarded
<1>2a. /\ backups' \in Seq(Backups)
       /\ backups' # <<>>
      BY <1>0, <1>1 DEF Inv, TypeOK
<1>2b. /\ BackupOf(job.snap) \in ToSet(backups')
      BY <1>0, <1>1 DEF Inv, TypeOK, ToSet
<1>2c. /\ \E b \in ToSet(backups') : b.schema = job.snap.schema /\ b.rows = job.snap.rows
      BY <1>2b DEF BackupOf
<1> USE ConfigAssumption DEF Inv, JobKnown, ConnectionsAttached, LockKept, SidecarOwn,
           Before, Publishing, RollingBack, Held, GuardGiven, Guarded
<1>3. TypeOK'
      BY <1>1, <1>2, <1>2a, <1>2b, <1>2c DEF TypeOK, Contents, Schemas, Modes
<1>4. JobKnown'
      BY <1>1, <1>2, <1>2a, <1>2b, <1>2c DEF TypeOK, Contents, Jobs, Schemas
<1>5. ConnectionsAttached'
      BY <1>1, <1>2, <1>2a, <1>2b, <1>2c DEF TypeOK, Contents, Schemas, Modes
<1>6. LockKept'
      BY <1>1, <1>2, <1>2a, <1>2b, <1>2c DEF TypeOK, Contents, Schemas, Modes
<1>7. SidecarOwn'
      BY <1>1, <1>2, <1>2a, <1>2b, <1>2c DEF TypeOK, Contents, Schemas, Modes
<1>8. SourceSnapped'
      BY <1>1, <1>2, <1>2a, <1>2b, <1>2c
      DEF SourceSnapped, Taken, TypeOK, Contents, Jobs, Readable, WalRows, SchemaAt
<1>9. SnapSaved'
      BY <1>1, <1>2, <1>2a, <1>2b, <1>2c DEF SnapSaved, Saved, TypeOK, Contents, Jobs
<1> QED BY <1>3, <1>4, <1>5, <1>6, <1>7, <1>8, <1>9 DEF Inv

\* The backup's directory is synced.
LEMMA SyncBackupKeeps == ASSUME Inv, SyncBackup PROVE Inv'
<1> USE ConfigAssumption DEF Inv, JobKnown, ConnectionsAttached, LockKept,
           SidecarOwn, Before, Publishing, RollingBack, Held, GuardGiven, Guarded
<1>1. TypeOK'
      BY
      DEF Jobs, Backups, Outcomes, TypeOK, Contents, Schemas, Modes, OperationNames,
          SyncBackup, SyncedWith, store, counters
<1>2. JobKnown'
      BY
      DEF Jobs, TypeOK, Contents, Schemas, Modes, OperationNames, SyncBackup,
          SyncedWith, store, counters
<1>3. ConnectionsAttached'
      BY
      DEF Jobs, TypeOK, Contents, Schemas, Modes, OperationNames, SyncBackup,
          SyncedWith, store, counters
<1>4. LockKept'
      BY
      DEF Jobs, TypeOK, Contents, Schemas, Modes, OperationNames, SyncBackup,
          SyncedWith, store, counters
<1>5. SidecarOwn'
      BY
      DEF Jobs, TypeOK, Contents, Schemas, Modes, OperationNames, SyncBackup,
          SyncedWith, store, counters
<1>6. SourceSnapped'
      BY
      DEF SourceSnapped, Taken, TypeOK, Jobs, Readable, WalRows, SchemaAt,
          SyncBackup, SyncedWith, store, counters
<1>7. SnapSaved'
      BY DEF SnapSaved, Saved, TypeOK, Jobs, SyncBackup, SyncedWith, store, counters
<1> QED BY <1>1, <1>2, <1>3, <1>4, <1>5, <1>6, <1>7

\* A backup alone ends here.
LEMMA FinishBackupKeeps == ASSUME Inv, FinishBackup PROVE Inv'
<1>1. Release("saved")
      BY DEF FinishBackup
<1>2. UNCHANGED <<db, wal, conn, committed, backups, staging, trusted, synced>>
      BY DEF FinishBackup, store
<1> QED BY <1>1, <1>2, ReleaseKeeps DEF Inv, TypeOK, Outcomes

\* Without the guard the snapshot counts only while nothing changes.
LEMMA ReleaseGuardKeeps == ASSUME Inv, ReleaseGuard PROVE Inv'
<1> USE ConfigAssumption DEF Inv, JobKnown, ConnectionsAttached, LockKept, SidecarOwn,
           Before, Publishing, RollingBack, Held, GuardGiven, Guarded
<1>1. /\ job.at = "backed"
      /\ job.op # "backup"
      /\ lock' = None
      /\ job' = [job EXCEPT
           !.at = IF job.source = "absent" THEN "canonical" ELSE "released"]
      /\ UNCHANGED <<db, wal, conn, committed, backups, staging, trusted, synced>>
      BY DEF ReleaseGuard, store, counters
<1>2. /\ job' \in Jobs
      /\ job'.at = IF job.source = "absent" THEN "canonical" ELSE "released"
      /\ job'.snap = job.snap
      /\ job'.op = job.op
      /\ job'.source = job.source
      /\ job'.target = job.target
      /\ job'.changed = job.changed
      BY <1>1
      DEF Inv, TypeOK, Jobs, Contents, Schemas, Modes, OperationNames, Outcomes,
          JobKnown, Before, Publishing, RollingBack, Guarded, Empty
<1>3. TypeOK'
      BY <1>1, <1>2 DEF TypeOK, Contents, Schemas, Modes, Empty
<1>4. JobKnown'
      BY <1>1, <1>2 DEF TypeOK, Contents, Jobs, Schemas, Empty
<1>5. ConnectionsAttached'
      BY <1>1, <1>2 DEF TypeOK, Contents, Schemas, Modes, Empty
<1>6. LockKept'
      BY <1>1, <1>2 DEF TypeOK, Contents, Schemas, Modes, Empty
<1>7. SidecarOwn'
      BY <1>1, <1>2 DEF TypeOK, Contents, Schemas, Modes, Empty
<1>8. SourceSnapped'
      BY <1>1, <1>2
      DEF SourceSnapped, Taken, TypeOK, Contents, Jobs, Readable, WalRows, SchemaAt,
          Empty
<1>9. SnapSaved'
      BY <1>1, <1>2 DEF SnapSaved, Saved, TypeOK, Contents, Jobs, Empty
<1> QED BY <1>3, <1>4, <1>5, <1>6, <1>7, <1>8, <1>9 DEF Inv

\* Moving the rows of the WAL does not change what can be read.
LEMMA CheckpointKeeps == ASSUME Inv, Checkpoint PROVE Inv'
<1>1. CASE Release("failed") /\ UNCHANGED <<db, wal, synced>>
  <2>1. UNCHANGED <<conn, committed, backups, staging, trusted>>
      BY DEF Checkpoint, store
  <2> QED BY <1>1, <2>1, ReleaseKeeps DEF Inv, TypeOK, Outcomes
<1>2. CASE ~(Release("failed") /\ UNCHANGED <<db, wal, synced>>) /\ db.mode = "wal"
  <2>1. /\ job.at = "released"
        /\ db.mode = "wal"
        /\ db' = Checkpointed
        /\ synced' = [synced EXCEPT !.db = db']
        /\ wal' = [own |-> TRUE, rows |-> {}]
        /\ job' = [job EXCEPT !.at = "checkpointed"]
        /\ UNCHANGED <<lock, conn, committed, backups, staging, trusted>>
        BY <1>2 DEF Checkpoint, Write, store, counters
  <2>2. /\ job' \in Jobs
        /\ job'.at = "checkpointed"
        /\ job'.snap = job.snap
        /\ job'.op = job.op
        /\ job'.source = job.source
        /\ job'.target = job.target
        /\ job'.changed = job.changed
        BY <2>1
        DEF Inv, TypeOK, Jobs, Contents, Schemas, Modes, OperationNames, Outcomes,
            JobKnown, Before, Publishing, RollingBack, Guarded, Checkpointed,
            WalRows, Empty
  <2>2a. /\ db # None
         /\ db \in Contents
         /\ WalRows \subseteq Row
        BY <2>1 DEF Inv, TypeOK, LockKept, GuardGiven, WalRows
  <2>2b. /\ db' \in Contents
         /\ db'.schema = db.schema
         /\ db'.mode = "wal"
        BY <2>1, <2>2a DEF Contents, Modes, Checkpointed
  <2>2c. /\ synced \in [db : Contents \union {None}, backups : Seq(Backups)]
        BY <2>1, <2>2, <2>2a, <2>2b DEF Inv, TypeOK
  <2>2d. /\ synced' = [synced EXCEPT !.db = db']
        BY <2>1
  <2>2e. /\ synced'.db = db'
        BY <2>2c, <2>2d
  <2>2f. /\ wal' \in [own : BOOLEAN, rows : SUBSET Row]
         /\ wal'.own
        BY <2>1
  <2>2g. /\ wal' # None
        BY <2>2f, ConfigAssumption
  <2>2h. /\ db' # None
        BY <2>2b, ConfigAssumption
  <2>2i. /\ db'.rows = Readable
        BY <2>1, <2>2a DEF Readable, WalRows, Checkpointed, Contents
  <2>2j. /\ Readable' = Readable
         /\ SchemaAt' = SchemaAt
        BY <2>1, <2>2a, <2>2b, <2>2h, <2>2i
        DEF Readable, SchemaAt, WalRows, Checkpointed
  <2>2k. synced' \in [db : Contents \union {None}, backups : Seq(Backups)]
        BY <2>2b, <2>2c, <2>2d
  <2>3. TypeOK'
        BY <2>1, <2>2, <2>2b, <2>2k, <2>2f DEF Inv, TypeOK
  <2> USE ConfigAssumption DEF Inv, JobKnown, ConnectionsAttached, LockKept, SidecarOwn,
             Before, Publishing, RollingBack, Held, GuardGiven, Guarded
  <2>4. JobKnown'
        BY <2>1, <2>2, <2>2a, <2>2b, <2>2c, <2>2d, <2>2e, <2>2f, <2>2g, <2>2h, <2>2i,
            <2>2j
        DEF TypeOK, Contents, Jobs, Schemas, Checkpointed, WalRows, Empty
  <2>5. ConnectionsAttached'
        BY <2>1, <2>2, <2>2a, <2>2b, <2>2c, <2>2d, <2>2e, <2>2f, <2>2g, <2>2h, <2>2i,
            <2>2j
        DEF TypeOK, Contents, Schemas, Modes, Checkpointed, WalRows, Empty
  <2>6. LockKept'
        BY <2>1, <2>2, <2>2a, <2>2b, <2>2c, <2>2d, <2>2e, <2>2f, <2>2g, <2>2h, <2>2i,
            <2>2j
        DEF TypeOK, Contents, Schemas, Modes, Checkpointed, WalRows, Empty
  <2>7. SidecarOwn'
        BY <2>1, <2>2, <2>2a, <2>2b, <2>2c, <2>2d, <2>2e, <2>2f, <2>2g, <2>2h, <2>2i,
            <2>2j
        DEF TypeOK, Contents, Schemas, Modes, Checkpointed, WalRows, Empty
  <2>8. SourceSnapped'
        BY <2>1, <2>2, <2>2a, <2>2b, <2>2c, <2>2d, <2>2e, <2>2f, <2>2g, <2>2h, <2>2i,
            <2>2j
        DEF SourceSnapped, Taken, TypeOK, Contents, Jobs
  <2>9. SnapSaved'
        BY <2>1, <2>2, <2>2a, <2>2b, <2>2c, <2>2d, <2>2e, <2>2f, <2>2g, <2>2h, <2>2i,
            <2>2j
        DEF SnapSaved, Saved, TypeOK, Contents, Jobs, Checkpointed, WalRows, Empty
  <2> QED BY <2>3, <2>4, <2>5, <2>6, <2>7, <2>8, <2>9 DEF Inv
<1>3. CASE ~(Release("failed") /\ UNCHANGED <<db, wal, synced>>) /\ db.mode # "wal"
  <2> USE ConfigAssumption DEF Inv, JobKnown, ConnectionsAttached, LockKept, SidecarOwn,
             Before, Publishing, RollingBack, Held, GuardGiven, Guarded
  <2>1. /\ job.at = "released"
        /\ db.mode # "wal"
        /\ job' = [job EXCEPT !.at = "checkpointed"]
        /\ UNCHANGED <<db, wal, lock, conn, committed, backups, staging, trusted, synced>>
        BY <1>3 DEF Checkpoint, store, counters
  <2>2. /\ job' \in Jobs
        /\ job'.at = "checkpointed"
        /\ job'.op = job.op
        /\ job'.source = job.source
        /\ job'.target = job.target
        /\ job'.snap = job.snap
        /\ job'.changed = job.changed
        BY <2>1
        DEF Inv, TypeOK, Jobs, Contents, Schemas, Modes, OperationNames, Outcomes,
            JobKnown, Before, Publishing, RollingBack, Guarded
  <2>3. TypeOK'
        BY <2>1, <2>2 DEF TypeOK, Contents, Schemas, Modes
  <2>4. JobKnown'
        BY <2>1, <2>2 DEF TypeOK, Contents, Jobs, Schemas
  <2>5. ConnectionsAttached'
        BY <2>1, <2>2 DEF TypeOK, Contents, Schemas, Modes
  <2>6. LockKept'
        BY <2>1, <2>2 DEF TypeOK, Contents, Schemas, Modes
  <2>7. SidecarOwn'
        BY <2>1, <2>2 DEF TypeOK, Contents, Schemas, Modes
  <2>8. SourceSnapped'
        BY <2>1, <2>2
        DEF SourceSnapped, Taken, TypeOK, Contents, Jobs, Readable, WalRows, SchemaAt
  <2>9. SnapSaved'
        BY <2>1, <2>2 DEF SnapSaved, Saved, TypeOK, Contents, Jobs
  <2> QED BY <2>3, <2>4, <2>5, <2>6, <2>7, <2>8, <2>9 DEF Inv
<1> QED BY <1>1, <1>2, <1>3

\* After journal_mode=DELETE all rows are in the main file.
LEMMA LeaveWalKeeps == ASSUME Inv, LeaveWal PROVE Inv'
<1>1. CASE db.mode = "wal" /\ Connected # {}
  <2>1. Release("failed")
        BY <1>1 DEF LeaveWal
  <2>2. UNCHANGED <<db, wal, conn, committed, backups, staging, trusted, synced>>
        BY <1>1 DEF LeaveWal, store
  <2> QED BY <2>1, <2>2, ReleaseKeeps DEF Inv, TypeOK, Outcomes
<1>2. CASE ~(db.mode = "wal" /\ Connected # {})
  <2>1. CASE db.mode = "wal"
    <3>1. /\ job.at = "checkpointed"
          /\ db.mode = "wal"
          /\ db' = [Checkpointed EXCEPT !.mode = "delete"]
          /\ synced' = [synced EXCEPT !.db = db']
          /\ wal' = None
          /\ job' = [job EXCEPT !.at = "standalone"]
          /\ UNCHANGED <<lock, conn, committed, backups, staging, trusted>>
          BY <1>2, <2>1 DEF LeaveWal, Write, store, counters
    <3>2. /\ job' \in Jobs
          /\ job'.at = "standalone"
          /\ job'.snap = job.snap
          /\ job'.op = job.op
          /\ job'.source = job.source
          /\ job'.target = job.target
          /\ job'.changed = job.changed
          BY <3>1
          DEF Inv, TypeOK, Jobs, Contents, Schemas, Modes, OperationNames, Outcomes,
              JobKnown, Before, Publishing, RollingBack, Guarded, Checkpointed,
              WalRows, Empty
    <3>2a. /\ db # None
           /\ db \in Contents
           /\ WalRows \subseteq Row
          BY <3>1 DEF Inv, TypeOK, LockKept, GuardGiven, WalRows
    <3>2b. /\ db' \in Contents
           /\ db'.schema = db.schema
           /\ db'.mode = "delete"
          BY <3>1, <3>2a DEF Contents, Modes, Checkpointed
    <3>2c. /\ synced \in [db : Contents \union {None}, backups : Seq(Backups)]
          BY <3>1, <3>2, <3>2a, <3>2b DEF Inv, TypeOK
    <3>2d. /\ synced' = [synced EXCEPT !.db = db']
          BY <3>1
    <3>2e. /\ synced'.db = db'
          BY <3>2c, <3>2d
    <3>2f. /\ db' # None
          BY <3>2b, ConfigAssumption
    <3>2g. /\ db'.rows = Readable
          BY <3>1, <3>2a DEF Readable, WalRows, Checkpointed, Contents
    <3>2h. /\ Readable' = Readable
           /\ SchemaAt' = SchemaAt
          BY <3>1, <3>2a, <3>2b, <3>2f, <3>2g
          DEF Readable, SchemaAt, WalRows, Checkpointed
    <3>2k. synced' \in [db : Contents \union {None}, backups : Seq(Backups)]
          BY <3>2b, <3>2c, <3>2d
    <3>3. TypeOK'
          BY <3>1, <3>2, <3>2b, <3>2k, <3>1 DEF Inv, TypeOK
    <3> USE ConfigAssumption
    DEF Inv, JobKnown, ConnectionsAttached, LockKept, SidecarOwn,
               Before, Publishing, RollingBack, Held, GuardGiven, Guarded
    <3>4. JobKnown'
          BY <3>1, <3>2, <3>2a, <3>2b, <3>2c, <3>2d, <3>2e, <3>2f, <3>2g, <3>2h
          DEF TypeOK, Contents, Jobs, Schemas, Checkpointed, WalRows, Empty
    <3>5. ConnectionsAttached'
          BY <3>1, <3>2, <3>2a, <3>2b, <3>2c, <3>2d, <3>2e, <3>2f, <3>2g, <3>2h
          DEF TypeOK, Contents, Schemas, Modes, Checkpointed, WalRows, Empty
    <3>6. LockKept'
          BY <3>1, <3>2, <3>2a, <3>2b, <3>2c, <3>2d, <3>2e, <3>2f, <3>2g, <3>2h
          DEF TypeOK, Contents, Schemas, Modes, Checkpointed, WalRows, Empty
    <3>7. SidecarOwn'
          BY <3>1, <3>2, <3>2a, <3>2b, <3>2c, <3>2d, <3>2e, <3>2f, <3>2g, <3>2h
          DEF TypeOK, Contents, Schemas, Modes, Checkpointed, WalRows, Empty
    <3>8. SourceSnapped'
          BY <3>1, <3>2, <3>2a, <3>2b, <3>2c, <3>2d, <3>2e, <3>2f, <3>2g, <3>2h
          DEF SourceSnapped, Taken, TypeOK, Contents, Jobs
    <3>9. SnapSaved'
          BY <3>1, <3>2, <3>2a, <3>2b, <3>2c, <3>2d, <3>2e, <3>2f, <3>2g, <3>2h
          DEF SnapSaved, Saved, TypeOK, Contents, Jobs, Checkpointed, WalRows, Empty
    <3> QED BY <3>3, <3>4, <3>5, <3>6, <3>7, <3>8, <3>9 DEF Inv
  <2>2. CASE db.mode # "wal"
    <3> USE ConfigAssumption
    DEF Inv, JobKnown, ConnectionsAttached, LockKept, SidecarOwn,
               Before, Publishing, RollingBack, Held, GuardGiven, Guarded
    <3>1. /\ job.at = "checkpointed"
          /\ db.mode # "wal"
          /\ job' = [job EXCEPT !.at = "standalone"]
          /\ UNCHANGED <<db, wal, lock, conn, committed, backups, staging, trusted, synced>>
          BY <1>2, <2>2 DEF LeaveWal, store, counters
    <3>2. /\ job' \in Jobs
          /\ job'.at = "standalone"
          /\ job'.op = job.op
          /\ job'.source = job.source
          /\ job'.target = job.target
          /\ job'.snap = job.snap
          /\ job'.changed = job.changed
          BY <3>1
          DEF Inv, TypeOK, Jobs, Contents, Schemas, Modes, OperationNames, Outcomes,
              JobKnown, Before, Publishing, RollingBack, Guarded
    <3>3. TypeOK'
          BY <3>1, <3>2 DEF TypeOK, Contents, Schemas, Modes
    <3>4. JobKnown'
          BY <3>1, <3>2 DEF TypeOK, Contents, Jobs, Schemas
    <3>5. ConnectionsAttached'
          BY <3>1, <3>2 DEF TypeOK, Contents, Schemas, Modes
    <3>6. LockKept'
          BY <3>1, <3>2 DEF TypeOK, Contents, Schemas, Modes
    <3>7. SidecarOwn'
          BY <3>1, <3>2 DEF TypeOK, Contents, Schemas, Modes
    <3>8. SourceSnapped'
          BY <3>1, <3>2
          DEF SourceSnapped, Taken, TypeOK, Contents, Jobs, Readable, WalRows,
              SchemaAt
    <3>9. SnapSaved'
          BY <3>1, <3>2 DEF SnapSaved, Saved, TypeOK, Contents, Jobs
    <3> QED BY <3>3, <3>4, <3>5, <3>6, <3>7, <3>8, <3>9 DEF Inv
  <2> QED BY <2>1, <2>2
<1> QED BY <1>1, <1>2

\* Taken again with nothing changed, the guard protects the snapshot's source.
LEMMA RetakeGuardKeeps == ASSUME Inv, RetakeGuard PROVE Inv'
<1>1. CASE lock # None \/ SourceChanged
  <2>1. Release("failed")
        BY <1>1 DEF RetakeGuard
  <2>2. UNCHANGED <<db, wal, conn, committed, backups, staging, trusted, synced>>
        BY <1>1 DEF RetakeGuard, store
  <2> QED BY <2>1, <2>2, ReleaseKeeps DEF Inv, TypeOK, Outcomes
<1>2. CASE ~(lock # None \/ SourceChanged)
  <2> USE ConfigAssumption DEF Inv, JobKnown, ConnectionsAttached, LockKept, SidecarOwn,
             Before, Publishing, RollingBack, Held, GuardGiven, Guarded
  <2>1. /\ job.at = "standalone"
        /\ ~job.changed
        /\ lock = None
        /\ lock' = "job"
        /\ wal' = None
        /\ synced' = [synced EXCEPT !.db = db]
        /\ job' = [job EXCEPT !.at = "canonical"]
        /\ UNCHANGED <<db, conn, committed, backups, staging, trusted>>
        BY <1>2 DEF RetakeGuard, SourceChanged, store, counters
  <2>2. /\ job' \in Jobs
        /\ job'.at = "canonical"
        /\ job'.snap = job.snap
        /\ job'.op = job.op
        /\ job'.source = job.source
        /\ job'.target = job.target
        /\ job'.changed = job.changed
        BY <2>1
        DEF Inv, TypeOK, Jobs, Contents, Schemas, Modes, OperationNames, Outcomes,
            JobKnown, Before, Publishing, RollingBack, Guarded
  <2>3. TypeOK'
        BY <2>1, <2>2 DEF TypeOK, Contents, Schemas, Modes
  <2>4. JobKnown'
        BY <2>1, <2>2 DEF TypeOK, Contents, Jobs, Schemas
  <2>5. ConnectionsAttached'
        BY <2>1, <2>2 DEF TypeOK, Contents, Schemas, Modes
  <2>6. LockKept'
        BY <2>1, <2>2 DEF TypeOK, Contents, Schemas, Modes
  <2>7. SidecarOwn'
        BY <2>1, <2>2 DEF TypeOK, Contents, Schemas, Modes
  <2>8. SourceSnapped'
        BY <2>1, <2>2
        DEF SourceSnapped, Taken, TypeOK, Contents, Jobs, Readable, WalRows, SchemaAt
  <2>9. SnapSaved'
        BY <2>1, <2>2 DEF SnapSaved, Saved, TypeOK, Contents, Jobs
  <2> QED BY <2>3, <2>4, <2>5, <2>6, <2>7, <2>8, <2>9 DEF Inv
<1> QED BY <1>1, <1>2

\* The reserved file is empty and locked.
LEMMA ReserveKeeps == ASSUME Inv, Reserve PROVE Inv'
<1>1. CASE db # None
  <2>1. Release("failed")
        BY <1>1 DEF Reserve
  <2>2. UNCHANGED <<db, wal, conn, committed, backups, staging, trusted, synced>>
        BY <1>1 DEF Reserve, store
  <2> QED BY <2>1, <2>2, ReleaseKeeps DEF Inv, TypeOK, Outcomes
<1>2. CASE ~(db # None)
  <2> USE ConfigAssumption DEF Inv, JobKnown, ConnectionsAttached, LockKept, SidecarOwn,
             Before, Publishing, RollingBack, Held, GuardGiven, Guarded
  <2>1. /\ job.at = "canonical"
        /\ job.source = "absent"
        /\ db = None
        /\ db' = Empty
        /\ lock' = "job"
        /\ job' = [job EXCEPT !.at = "reserved"]
        /\ UNCHANGED <<wal, conn, committed, backups, staging, trusted, synced>>
        BY <1>2 DEF Reserve, store, counters
  <2>2. /\ job' \in Jobs
        /\ job'.at = "reserved"
        /\ job'.snap = job.snap
        /\ job'.op = job.op
        /\ job'.source = job.source
        /\ job'.target = job.target
        /\ job'.changed = job.changed
        BY <2>1
        DEF Inv, TypeOK, Jobs, Contents, Schemas, Modes, OperationNames, Outcomes,
            JobKnown, Before, Publishing, RollingBack, Guarded, Empty
  <2>3. TypeOK'
        BY <2>1, <2>2 DEF TypeOK, Contents, Schemas, Modes, Empty
  <2>4. JobKnown'
        BY <2>1, <2>2 DEF TypeOK, Contents, Jobs, Schemas, Empty
  <2>5. ConnectionsAttached'
        BY <2>1, <2>2 DEF TypeOK, Contents, Schemas, Modes, Empty
  <2>6. LockKept'
        BY <2>1, <2>2 DEF TypeOK, Contents, Schemas, Modes, Empty
  <2>7. SidecarOwn'
        BY <2>1, <2>2 DEF TypeOK, Contents, Schemas, Modes, Empty
  <2>8. SourceSnapped'
        BY <2>1, <2>2
        DEF SourceSnapped, Taken, TypeOK, Contents, Jobs, Readable, WalRows,
            SchemaAt, Empty
  <2>9. SnapSaved'
        BY <2>1, <2>2 DEF SnapSaved, Saved, TypeOK, Contents, Jobs, Empty
  <2> QED BY <2>3, <2>4, <2>5, <2>6, <2>7, <2>8, <2>9 DEF Inv
<1> QED BY <1>1, <1>2

\* The candidate holds what was committed, and takes the name locked.
LEMMA ReplaceKeeps == ASSUME Inv, Replace PROVE Inv'
<1>0. Candidate \in Contents
      BY DEF Inv, TypeOK, Jobs, Candidate, Contents, Schemas, Modes
<1>1. TypeOK'
  <2>1. /\ db' = Candidate /\ lock' = "job"
        /\ UNCHANGED <<committed, backups, staging, trusted, synced>>
        /\ conn' = [w \in Writer |-> IF conn[w] = "open" THEN "stale" ELSE conn[w]]
        /\ wal' = IF wal = None THEN None ELSE [wal EXCEPT !.own = FALSE]
        /\ job' = [job EXCEPT !.at = "published"]
        BY DEF Replace, PutInPlace, store
  <2>2. conn' \in [Writer -> {"closed", "open", "stale"}]
        BY <2>1 DEF Inv, TypeOK
  <2>3. wal' \in [own : BOOLEAN, rows : SUBSET Row] \union {None}
        BY <2>1 DEF Inv, TypeOK
  <2>4. job' \in Jobs
        BY <2>1 DEF Inv, TypeOK, Jobs, Publishing
  <2> QED BY <1>0, <2>1, <2>2, <2>3, <2>4 DEF Inv, TypeOK
<1> USE ConfigAssumption DEF Inv, JobKnown, ConnectionsAttached, LockKept,
           SidecarOwn, Before, Publishing, RollingBack, Held, GuardGiven, Guarded
<1>2. JobKnown'
      BY
      DEF Jobs, TypeOK, Contents, Schemas, Modes, OperationNames, Replace,
          PutInPlace, Candidate, store, counters
<1>3. ConnectionsAttached'
      BY
      DEF Jobs, TypeOK, Contents, Schemas, Modes, OperationNames, Replace,
          PutInPlace, Candidate, store, counters
<1>4. LockKept'
      BY
      DEF Jobs, TypeOK, Contents, Schemas, Modes, OperationNames, Replace,
          PutInPlace, Candidate, store, counters
<1>5. SidecarOwn'
      BY
      DEF Jobs, TypeOK, Contents, Schemas, Modes, OperationNames, Replace,
          PutInPlace, Candidate, store, counters
<1>6. SourceSnapped'
      BY
      DEF SourceSnapped, Taken, TypeOK, Jobs, Readable, WalRows, SchemaAt, Replace,
          PutInPlace, Candidate, store, counters
<1>7. SnapSaved'
      BY
      DEF SnapSaved, Saved, TypeOK, Jobs, Replace, PutInPlace, Candidate, store,
          counters
<1> QED BY <1>1, <1>2, <1>3, <1>4, <1>5, <1>6, <1>7

\* There is no sidecar left to drop.
LEMMA DropSidecarsKeeps == ASSUME Inv, DropSidecars PROVE Inv'
<1> USE ConfigAssumption DEF Inv, JobKnown, ConnectionsAttached, LockKept,
           SidecarOwn, Before, Publishing, RollingBack, Held, GuardGiven, Guarded
<1>1. TypeOK'
      BY
      DEF Jobs, Backups, Outcomes, TypeOK, Contents, Schemas, Modes, OperationNames,
          DropSidecars, store, counters
<1>2. JobKnown'
      BY
      DEF Jobs, TypeOK, Contents, Schemas, Modes, OperationNames, DropSidecars,
          store, counters
<1>3. ConnectionsAttached'
      BY
      DEF Jobs, TypeOK, Contents, Schemas, Modes, OperationNames, DropSidecars,
          store, counters
<1>4. LockKept'
      BY
      DEF Jobs, TypeOK, Contents, Schemas, Modes, OperationNames, DropSidecars,
          store, counters
<1>5. SidecarOwn'
      BY
      DEF Jobs, TypeOK, Contents, Schemas, Modes, OperationNames, DropSidecars,
          store, counters
<1>6. SourceSnapped'
      BY
      DEF SourceSnapped, Taken, TypeOK, Jobs, Readable, WalRows, SchemaAt,
          DropSidecars, store, counters
<1>7. SnapSaved'
      BY DEF SnapSaved, Saved, TypeOK, Jobs, DropSidecars, store, counters
<1> QED BY <1>1, <1>2, <1>3, <1>4, <1>5, <1>6, <1>7

\* The candidate is now what a power loss leaves.
LEMMA SyncDirectoryKeeps == ASSUME Inv, SyncDirectory PROVE Inv'
<1> USE ConfigAssumption DEF Inv, JobKnown, ConnectionsAttached, LockKept,
           SidecarOwn, Before, Publishing, RollingBack, Held, GuardGiven, Guarded
<1>1. TypeOK'
      BY
      DEF Jobs, Backups, Outcomes, TypeOK, Contents, Schemas, Modes, OperationNames,
          SyncDirectory, store, counters
<1>2. JobKnown'
      BY
      DEF Jobs, TypeOK, Contents, Schemas, Modes, OperationNames, SyncDirectory,
          store, counters
<1>3. ConnectionsAttached'
      BY
      DEF Jobs, TypeOK, Contents, Schemas, Modes, OperationNames, SyncDirectory,
          store, counters
<1>4. LockKept'
      BY
      DEF Jobs, TypeOK, Contents, Schemas, Modes, OperationNames, SyncDirectory,
          store, counters
<1>5. SidecarOwn'
      BY
      DEF Jobs, TypeOK, Contents, Schemas, Modes, OperationNames, SyncDirectory,
          store, counters
<1>6. SourceSnapped'
      BY
      DEF SourceSnapped, Taken, TypeOK, Jobs, Readable, WalRows, SchemaAt,
          SyncDirectory, store, counters
<1>7. SnapSaved'
      BY DEF SnapSaved, Saved, TypeOK, Jobs, SyncDirectory, store, counters
<1> QED BY <1>1, <1>2, <1>3, <1>4, <1>5, <1>6, <1>7

\* Success releases the locks.
LEMMA FinishKeeps == ASSUME Inv, Finish PROVE Inv'
<1>1. PICK outcome \in {"migrated", "restored"} : Release(outcome)
      BY DEF Finish
<1>2. UNCHANGED <<db, wal, conn, committed, backups, staging, trusted, synced>>
      BY DEF Finish, store
<1> QED BY <1>1, <1>2, ReleaseKeeps DEF Inv, TypeOK, Outcomes

\* There is no sidecar left to drop.
LEMMA RollbackSidecarsKeeps == ASSUME Inv, RollbackSidecars PROVE Inv'
<1> USE ConfigAssumption DEF Inv, JobKnown, ConnectionsAttached, LockKept,
           SidecarOwn, Before, Publishing, RollingBack, Held, GuardGiven, Guarded
<1>1. TypeOK'
      BY
      DEF Jobs, Backups, Outcomes, TypeOK, Contents, Schemas, Modes, OperationNames,
          RollbackSidecars, store, counters
<1>2. JobKnown'
      BY
      DEF Jobs, TypeOK, Contents, Schemas, Modes, OperationNames, RollbackSidecars,
          store, counters
<1>3. ConnectionsAttached'
      BY
      DEF Jobs, TypeOK, Contents, Schemas, Modes, OperationNames, RollbackSidecars,
          store, counters
<1>4. LockKept'
      BY
      DEF Jobs, TypeOK, Contents, Schemas, Modes, OperationNames, RollbackSidecars,
          store, counters
<1>5. SidecarOwn'
      BY
      DEF Jobs, TypeOK, Contents, Schemas, Modes, OperationNames, RollbackSidecars,
          store, counters
<1>6. SourceSnapped'
      BY
      DEF SourceSnapped, Taken, TypeOK, Jobs, Readable, WalRows, SchemaAt,
          RollbackSidecars, store, counters
<1>7. SnapSaved'
      BY DEF SnapSaved, Saved, TypeOK, Jobs, RollbackSidecars, store, counters
<1> QED BY <1>1, <1>2, <1>3, <1>4, <1>5, <1>6, <1>7

\* The snapshot put back holds what was committed.
LEMMA RollbackReplaceKeeps == ASSUME Inv, RollbackReplace PROVE Inv'
<1>1. CASE job.source = "absent"
  <2> USE ConfigAssumption DEF Inv, JobKnown, ConnectionsAttached, LockKept, SidecarOwn,
             Before, Publishing, RollingBack, Held, GuardGiven, Guarded
  <2>1. /\ job.at = "rolling"
        /\ job.source = "absent"
        /\ db' = None
        /\ lock' = None
        /\ conn' = [w \in Writer |-> IF conn[w] = "open" THEN "stale" ELSE conn[w]]
        /\ job' = [job EXCEPT !.at = "rolled"]
        /\ UNCHANGED <<wal, committed, backups, staging, trusted, synced>>
        BY <1>1 DEF RollbackReplace, store, counters
  <2>2. /\ job' \in Jobs
        /\ job'.at = "rolled"
        /\ job'.snap = job.snap
        /\ job'.op = job.op
        /\ job'.source = job.source
        /\ job'.target = job.target
        /\ job'.changed = job.changed
        BY <2>1
        DEF Inv, TypeOK, Jobs, Contents, Schemas, Modes, OperationNames, Outcomes,
            JobKnown, Before, Publishing, RollingBack, Guarded
  <2>3. TypeOK'
        BY <2>1, <2>2 DEF TypeOK, Contents, Schemas, Modes
  <2>4. JobKnown'
        BY <2>1, <2>2 DEF TypeOK, Contents, Jobs, Schemas
  <2>5. ConnectionsAttached'
        BY <2>1, <2>2 DEF TypeOK, Contents, Schemas, Modes
  <2>6. LockKept'
        BY <2>1, <2>2 DEF TypeOK, Contents, Schemas, Modes
  <2>7. SidecarOwn'
        BY <2>1, <2>2 DEF TypeOK, Contents, Schemas, Modes
  <2>8. SourceSnapped'
        BY <2>1, <2>2
        DEF SourceSnapped, Taken, TypeOK, Contents, Jobs, Readable, WalRows, SchemaAt
  <2>9. SnapSaved'
        BY <2>1, <2>2 DEF SnapSaved, Saved, TypeOK, Contents, Jobs
  <2> QED BY <2>3, <2>4, <2>5, <2>6, <2>7, <2>8, <2>9 DEF Inv
<1>2. CASE job.source # "absent"
  <2>1. /\ job.at = "rolling"
        /\ job.source # "absent"
        /\ db' = [job.snap EXCEPT !.mode = "delete"]
        /\ lock' = "job"
        /\ conn' = [w \in Writer |-> IF conn[w] = "open" THEN "stale" ELSE conn[w]]
        /\ wal' = IF wal = None THEN None ELSE [wal EXCEPT !.own = FALSE]
        /\ job' = [job EXCEPT !.at = "rolled"]
        /\ UNCHANGED <<committed, backups, staging, trusted, synced>>
        BY <1>2 DEF RollbackReplace, PutInPlace, store, counters
  <2>2. /\ job' \in Jobs
        /\ job'.at = "rolled"
        /\ job.snap \in Contents
        /\ job'.snap = job.snap
        /\ job'.op = job.op
        /\ job'.source = job.source
        /\ job'.target = job.target
        /\ job'.changed = job.changed
        BY <2>1
        DEF Inv, TypeOK, Jobs, Contents, Schemas, Modes, OperationNames, Outcomes,
            JobKnown, Before, Publishing, RollingBack, Guarded
  <2>2a. /\ db' \in Contents
         /\ db'.mode = "delete"
        BY <2>1, <2>2 DEF Contents, Modes
  <2> USE ConfigAssumption DEF Inv, JobKnown, ConnectionsAttached, LockKept, SidecarOwn,
             Before, Publishing, RollingBack, Held, GuardGiven, Guarded
  <2>3. TypeOK'
        BY <2>1, <2>2, <2>2a DEF TypeOK, Contents, Schemas, Modes
  <2>4. JobKnown'
        BY <2>1, <2>2, <2>2a DEF TypeOK, Contents, Jobs, Schemas
  <2>5. ConnectionsAttached'
        BY <2>1, <2>2, <2>2a DEF TypeOK, Contents, Schemas, Modes
  <2>6. LockKept'
        BY <2>1, <2>2, <2>2a DEF TypeOK, Contents, Schemas, Modes
  <2>7. SidecarOwn'
        BY <2>1, <2>2, <2>2a DEF TypeOK, Contents, Schemas, Modes
  <2>8. SourceSnapped'
        BY <2>1, <2>2, <2>2a
        DEF SourceSnapped, Taken, TypeOK, Contents, Jobs, Readable, WalRows, SchemaAt
  <2>9. SnapSaved'
        BY <2>1, <2>2, <2>2a DEF SnapSaved, Saved, TypeOK, Contents, Jobs
  <2> QED BY <2>3, <2>4, <2>5, <2>6, <2>7, <2>8, <2>9 DEF Inv
<1> QED BY <1>1, <1>2

\* The rollback is synced.
LEMMA FinishRollbackKeeps == ASSUME Inv, FinishRollback PROVE Inv'
<1>1. CASE Appeared
  <2>1. Release("recovery_required")
        BY <1>1 DEF FinishRollback
  <2>2. UNCHANGED <<db, wal, conn, committed, backups, staging, trusted, synced>>
        BY <1>1 DEF FinishRollback, store
  <2> QED BY <2>1, <2>2, ReleaseKeeps DEF Inv, TypeOK, Outcomes
<1>2. CASE ~(Appeared)
  <2>1. Release("failed")
        BY <1>2 DEF FinishRollback
  <2>2. /\ UNCHANGED <<db, wal, conn, committed, backups, staging, trusted>>
        /\ synced' = [synced EXCEPT !.db = db]
        BY <1>2 DEF FinishRollback, store
  <2> QED BY <2>1, <2>2, ReleaseKeeps DEF Inv, TypeOK, Outcomes
<1> QED BY <1>1, <1>2

\* Opening an absent database leaves an empty file, which nobody can write to.
LEMMA OpenDatabaseKeeps == ASSUME Inv, NEW w \in Writer, OpenDatabase(w) PROVE Inv'
<1>1. CASE db # None
  <2> USE ConfigAssumption DEF Inv, JobKnown, ConnectionsAttached, LockKept, SidecarOwn,
             Before, Publishing, RollingBack, Held, GuardGiven, Guarded
  <2>1. /\ db # None
        /\ conn' = [conn EXCEPT ![w] = "open"]
        /\ UNCHANGED <<db, wal, lock, committed, backups, staging, trusted, synced, job>>
        BY <1>1 DEF OpenDatabase, store, counters
  <2>2. /\ job' \in Jobs
        BY <2>1
        DEF Inv, TypeOK, Jobs, Contents, Schemas, Modes, OperationNames, Outcomes,
            JobKnown, Before, Publishing, RollingBack, Guarded
  <2>3. TypeOK'
        BY <2>1, <2>2 DEF TypeOK, Contents, Schemas, Modes
  <2>4. JobKnown'
        BY <2>1, <2>2 DEF TypeOK, Contents, Jobs, Schemas
  <2>5. ConnectionsAttached'
        BY <2>1, <2>2 DEF TypeOK, Contents, Schemas, Modes
  <2>6. LockKept'
        BY <2>1, <2>2 DEF TypeOK, Contents, Schemas, Modes
  <2>7. SidecarOwn'
        BY <2>1, <2>2 DEF TypeOK, Contents, Schemas, Modes
  <2>8. SourceSnapped'
        BY <2>1, <2>2
        DEF SourceSnapped, Taken, TypeOK, Contents, Jobs, Readable, WalRows, SchemaAt
  <2>9. SnapSaved'
        BY <2>1, <2>2 DEF SnapSaved, Saved, TypeOK, Contents, Jobs
  <2> QED BY <2>3, <2>4, <2>5, <2>6, <2>7, <2>8, <2>9 DEF Inv
<1>2. CASE db = None
  <2>1. /\ db = None
        /\ conn' = [conn EXCEPT ![w] = "open"]
        /\ db' = Empty
        /\ synced' = [synced EXCEPT !.db = Empty]
        /\ UNCHANGED <<wal, lock, committed, backups, staging, trusted, job>>
        BY <1>2 DEF OpenDatabase, store, counters
  <2>2. /\ job' \in Jobs
        BY <2>1
        DEF Inv, TypeOK, Jobs, Contents, Schemas, Modes, OperationNames, Outcomes,
            JobKnown, Before, Publishing, RollingBack, Guarded, Empty
  <2>2a. /\ db' \in Contents
         /\ db'.mode = "delete"
        BY <2>1 DEF Contents, Schemas, Modes, Empty
  <2>2b. /\ synced \in [db : Contents \union {None}, backups : Seq(Backups)]
        BY <2>1, <2>2, <2>2a DEF Inv, TypeOK
  <2>2c. /\ synced' = [synced EXCEPT !.db = db']
        BY <2>1
  <2>2d. /\ synced'.db = db'
        BY <2>2b, <2>2c
  <2>2e. /\ wal = None
        BY <2>1 DEF Inv, SidecarOwn
  <2> USE ConfigAssumption DEF Inv, JobKnown, ConnectionsAttached, LockKept, SidecarOwn,
             Before, Publishing, RollingBack, Held, GuardGiven, Guarded
  <2>3. TypeOK'
        BY <2>1, <2>2, <2>2a, <2>2b, <2>2c, <2>2d, <2>2e
        DEF TypeOK, Contents, Schemas, Modes, Empty
  <2>4. JobKnown'
        BY <2>1, <2>2, <2>2a, <2>2b, <2>2c, <2>2d, <2>2e
        DEF TypeOK, Contents, Jobs, Schemas, Empty
  <2>5. ConnectionsAttached'
        BY <2>1, <2>2, <2>2a, <2>2b, <2>2c, <2>2d, <2>2e
        DEF TypeOK, Contents, Schemas, Modes, Empty
  <2>6. LockKept'
        BY <2>1, <2>2, <2>2a, <2>2b, <2>2c, <2>2d, <2>2e
        DEF TypeOK, Contents, Schemas, Modes, Empty
  <2>7. SidecarOwn'
        BY <2>1, <2>2, <2>2a, <2>2b, <2>2c, <2>2d, <2>2e
        DEF TypeOK, Contents, Schemas, Modes, Empty
  <2>8. SourceSnapped'
        BY <2>1, <2>2, <2>2a, <2>2b, <2>2c, <2>2d, <2>2e
        DEF SourceSnapped, Taken, TypeOK, Contents, Jobs, Readable, WalRows,
            SchemaAt, Empty
  <2>9. SnapSaved'
        BY <2>1, <2>2, <2>2a, <2>2b, <2>2c, <2>2d, <2>2e
        DEF SnapSaved, Saved, TypeOK, Contents, Jobs, Empty
  <2> QED BY <2>3, <2>4, <2>5, <2>6, <2>7, <2>8, <2>9 DEF Inv
<1> QED BY <1>1, <1>2

\* The lock goes to an open connection.
LEMMA BeginWriteKeeps == ASSUME Inv, NEW w \in Writer, BeginWrite(w) PROVE Inv'
<1> USE ConfigAssumption DEF Inv, JobKnown, ConnectionsAttached, LockKept, SidecarOwn,
           Before, Publishing, RollingBack, Held, GuardGiven, Guarded
<1>1. /\ conn[w] = "open"
      /\ lock = None
      /\ db.schema # "empty"
      /\ lock' = w
      /\ UNCHANGED <<db, wal, conn, committed, backups, staging, trusted, synced, job>>
      BY DEF BeginWrite, store, counters
<1>2. /\ job' \in Jobs
      BY <1>1
      DEF Inv, TypeOK, Jobs, Contents, Schemas, Modes, OperationNames, Outcomes,
          JobKnown, Before, Publishing, RollingBack, Guarded, Empty
<1>3. TypeOK'
      BY <1>1, <1>2 DEF TypeOK, Contents, Schemas, Modes, Empty
<1>4. JobKnown'
      BY <1>1, <1>2 DEF TypeOK, Contents, Jobs, Schemas, Empty
<1>5. ConnectionsAttached'
      BY <1>1, <1>2 DEF TypeOK, Contents, Schemas, Modes, Empty
<1>6. LockKept'
      BY <1>1, <1>2 DEF TypeOK, Contents, Schemas, Modes, Empty
<1>7. SidecarOwn'
      BY <1>1, <1>2 DEF TypeOK, Contents, Schemas, Modes, Empty
<1>8. SourceSnapped'
      BY <1>1, <1>2
      DEF SourceSnapped, Taken, TypeOK, Contents, Jobs, Readable, WalRows, SchemaAt,
          Empty
<1>9. SnapSaved'
      BY <1>1, <1>2 DEF SnapSaved, Saved, TypeOK, Contents, Jobs, Empty
<1> QED BY <1>3, <1>4, <1>5, <1>6, <1>7, <1>8, <1>9 DEF Inv

\* A change of journal mode needs the lock and is noticed.
LEMMA EnterWalKeeps == ASSUME Inv, NEW w \in Writer, EnterWal(w) PROVE Inv'
<1>1. /\ conn[w] = "open"
      /\ lock = None
      /\ db.mode = "delete"
      /\ db.schema # "empty"
      /\ db' = [db EXCEPT !.mode = "wal"]
      /\ synced' = [synced EXCEPT !.db = db']
      /\ wal' = [own |-> TRUE, rows |-> {}]
      /\ job' = [job EXCEPT !.changed = job.at # "idle"]
      /\ UNCHANGED <<lock, conn, committed, backups, staging, trusted>>
      BY DEF EnterWal, Write, store, counters
<1>2. /\ job' \in Jobs
      /\ job'.at = job.at
      /\ job'.snap = job.snap
      /\ job'.op = job.op
      /\ job'.source = job.source
      /\ job'.target = job.target
      /\ job.at # "idle" => job'.changed
      BY <1>1
      DEF Inv, TypeOK, Jobs, Contents, Schemas, Modes, OperationNames, Outcomes,
          JobKnown, Before, Publishing, RollingBack, Guarded, Empty
<1>2a. /\ db # None
       /\ db \in Contents
      BY <1>1 DEF Inv, TypeOK, ConnectionsAttached
<1>2b. /\ db' \in Contents
       /\ db'.mode = "wal"
       /\ db'.schema = db.schema
      BY <1>1, <1>2a DEF Contents, Modes
<1>2c. /\ synced \in [db : Contents \union {None}, backups : Seq(Backups)]
      BY <1>1, <1>2, <1>2a, <1>2b DEF Inv, TypeOK
<1>2d. /\ synced' = [synced EXCEPT !.db = db']
      BY <1>1
<1>2e. /\ synced'.db = db'
      BY <1>2c, <1>2d
<1>2f. /\ wal' \in [own : BOOLEAN, rows : SUBSET Row]
       /\ wal'.own
      BY <1>1
<1>2g. /\ wal' # None
      BY <1>2f, ConfigAssumption
<1>2k. synced' \in [db : Contents \union {None}, backups : Seq(Backups)]
      BY <1>2b, <1>2c, <1>2d
<1>3. TypeOK'
      BY <1>1, <1>2, <1>2b, <1>2k, <1>2f DEF Inv, TypeOK
<1> USE ConfigAssumption DEF Inv, JobKnown, ConnectionsAttached, LockKept, SidecarOwn,
           Before, Publishing, RollingBack, Held, GuardGiven, Guarded
<1>4. JobKnown'
      BY <1>1, <1>2, <1>2a, <1>2b, <1>2c, <1>2d, <1>2e, <1>2f, <1>2g
      DEF TypeOK, Contents, Jobs, Schemas, Empty
<1>5. ConnectionsAttached'
      BY <1>1, <1>2, <1>2a, <1>2b, <1>2c, <1>2d, <1>2e, <1>2f, <1>2g
      DEF TypeOK, Contents, Schemas, Modes, Empty
<1>6. LockKept'
      BY <1>1, <1>2, <1>2a, <1>2b, <1>2c, <1>2d, <1>2e, <1>2f, <1>2g
      DEF TypeOK, Contents, Schemas, Modes, Empty
<1>7. SidecarOwn'
      BY <1>1, <1>2, <1>2a, <1>2b, <1>2c, <1>2d, <1>2e, <1>2f, <1>2g
      DEF TypeOK, Contents, Schemas, Modes, Empty
<1>8. SourceSnapped'
      BY <1>1, <1>2, <1>2a, <1>2b, <1>2c, <1>2d, <1>2e, <1>2f, <1>2g
      DEF SourceSnapped, Taken, TypeOK, Contents, Jobs, Readable, WalRows, SchemaAt,
          Empty
<1>9. SnapSaved'
      BY <1>1, <1>2, <1>2a, <1>2b, <1>2c, <1>2d, <1>2e, <1>2f, <1>2g
      DEF SnapSaved, Saved, TypeOK, Contents, Jobs, Empty
<1> QED BY <1>3, <1>4, <1>5, <1>6, <1>7, <1>8, <1>9 DEF Inv

\* A connection that goes gives its lock up.
LEMMA LeaveKeeps == ASSUME Inv, NEW w \in Writer, Leave(w) PROVE Inv'
<1> USE ConfigAssumption DEF Inv, JobKnown, ConnectionsAttached, LockKept,
           SidecarOwn, Before, Publishing, RollingBack, Held, GuardGiven, Guarded
<1>1. TypeOK'
      BY
      DEF Jobs, Backups, Outcomes, TypeOK, Contents, Schemas, Modes, OperationNames,
          Leave, store, counters
<1>2. JobKnown'
      BY
      DEF Jobs, TypeOK, Contents, Schemas, Modes, OperationNames, Leave, store,
          counters
<1>3. ConnectionsAttached'
      BY
      DEF Jobs, TypeOK, Contents, Schemas, Modes, OperationNames, Leave, store,
          counters
<1>4. LockKept'
      BY
      DEF Jobs, TypeOK, Contents, Schemas, Modes, OperationNames, Leave, store,
          counters
<1>5. SidecarOwn'
      BY
      DEF Jobs, TypeOK, Contents, Schemas, Modes, OperationNames, Leave, store,
          counters
<1>6. SourceSnapped'
      BY
      DEF SourceSnapped, Taken, TypeOK, Jobs, Readable, WalRows, SchemaAt, Leave,
          store, counters
<1>7. SnapSaved'
      BY DEF SnapSaved, Saved, TypeOK, Jobs, Leave, store, counters
<1> QED BY <1>1, <1>2, <1>3, <1>4, <1>5, <1>6, <1>7

\* A commit needs the lock, so the coordinator is not about to replace the file.
LEMMA CommitWriteKeeps ==
    ASSUME Inv, NEW w \in Writer, NEW r \in Row, CommitWrite(w, r)
    PROVE  Inv'
<1>1. CASE db.mode = "wal"
  <2>1. /\ lock = w
        /\ db.mode = "wal"
        /\ lock' = None
        /\ wal' = [own |-> TRUE, rows |-> WalRows \union {r}]
        /\ committed' = committed \union {r}
        /\ job' = [job EXCEPT !.changed = job.at # "idle"]
        /\ UNCHANGED <<db, conn, backups, staging, trusted, synced>>
        BY <1>1 DEF CommitWrite, store, counters
  <2>2. /\ job' \in Jobs
        /\ job'.at = job.at
        /\ job'.snap = job.snap
        /\ job'.op = job.op
        /\ job'.source = job.source
        /\ job'.target = job.target
        /\ job.at # "idle" => job'.changed
        BY <2>1
        DEF Inv, TypeOK, Jobs, Contents, Schemas, Modes, OperationNames, Outcomes,
            JobKnown, Before, Publishing, RollingBack, Guarded, WalRows, Empty
  <2>2a. /\ db # None
         /\ db \in Contents
        BY <2>1 DEF Inv, TypeOK, ConnectionsAttached
  <2>2b. /\ wal # None
        BY <2>1, <2>2a DEF Inv, SidecarOwn
  <2>2c. /\ WalRows \subseteq Row
        BY <2>2b DEF Inv, TypeOK, WalRows
  <2>2d. /\ wal' \in [own : BOOLEAN, rows : SUBSET Row]
         /\ wal'.own
        BY <2>1, <2>2c
  <2>2e. /\ wal' # None
        BY <2>2d, ConfigAssumption
  <2>2f. /\ Readable' = Readable \union {r}
        BY <2>1, <2>2a, <2>2e DEF Readable, WalRows
  <2>2g. /\ job.at \notin Publishing \union RollingBack
        BY <2>1, <2>2a, ConfigAssumption DEF Inv, LockKept, Publishing, RollingBack
  <2> USE ConfigAssumption DEF Inv, JobKnown, ConnectionsAttached, LockKept, SidecarOwn,
             Before, Publishing, RollingBack, Held, GuardGiven, Guarded
  <2>3. TypeOK'
        BY <2>1, <2>2, <2>2a, <2>2b, <2>2c, <2>2d, <2>2e, <2>2f, <2>2g
        DEF TypeOK, Contents, Schemas, Modes, WalRows, Empty
  <2>4. JobKnown'
        BY <2>1, <2>2, <2>2a, <2>2b, <2>2c, <2>2d, <2>2e, <2>2f, <2>2g
        DEF TypeOK, Contents, Jobs, Schemas, WalRows, Empty
  <2>5. ConnectionsAttached'
        BY <2>1, <2>2, <2>2a, <2>2b, <2>2c, <2>2d, <2>2e, <2>2f, <2>2g
        DEF TypeOK, Contents, Schemas, Modes, WalRows, Empty
  <2>6. LockKept'
        BY <2>1, <2>2, <2>2a, <2>2b, <2>2c, <2>2d, <2>2e, <2>2f, <2>2g
        DEF TypeOK, Contents, Schemas, Modes, WalRows, Empty
  <2>7. SidecarOwn'
        BY <2>1, <2>2, <2>2a, <2>2b, <2>2c, <2>2d, <2>2e, <2>2f, <2>2g
        DEF TypeOK, Contents, Schemas, Modes, WalRows, Empty
  <2>8. SourceSnapped'
        BY <2>1, <2>2, <2>2a, <2>2b, <2>2c, <2>2d, <2>2e, <2>2f, <2>2g
        DEF SourceSnapped, Taken, TypeOK, Contents, Jobs
  <2>9. SnapSaved'
        BY <2>1, <2>2, <2>2a, <2>2b, <2>2c, <2>2d, <2>2e, <2>2f, <2>2g
        DEF SnapSaved, Saved, TypeOK, Contents, Jobs, WalRows, Empty
  <2> QED BY <2>3, <2>4, <2>5, <2>6, <2>7, <2>8, <2>9 DEF Inv
<1>2. CASE db.mode # "wal"
  <2>1. /\ lock = w
        /\ db.mode # "wal"
        /\ lock' = None
        /\ db' = [db EXCEPT !.rows = @ \union {r}]
        /\ synced' = [synced EXCEPT !.db = db']
        /\ committed' = committed \union {r}
        /\ job' = [job EXCEPT !.changed = job.at # "idle"]
        /\ UNCHANGED <<wal, conn, backups, staging, trusted>>
        BY <1>2 DEF CommitWrite, Write, store, counters
  <2>2. /\ job' \in Jobs
        /\ job'.at = job.at
        /\ job'.snap = job.snap
        /\ job'.op = job.op
        /\ job'.source = job.source
        /\ job'.target = job.target
        /\ job.at # "idle" => job'.changed
        BY <2>1
        DEF Inv, TypeOK, Jobs, Contents, Schemas, Modes, OperationNames, Outcomes,
            JobKnown, Before, Publishing, RollingBack, Guarded, Empty
  <2>2a. /\ db # None
         /\ db \in Contents
        BY <2>1 DEF Inv, TypeOK, ConnectionsAttached
  <2>2b. /\ db' \in Contents
         /\ db'.mode = db.mode
         /\ db'.schema = db.schema
        BY <2>1, <2>2a DEF Contents, Modes
  <2>2c. /\ synced \in [db : Contents \union {None}, backups : Seq(Backups)]
        BY <2>1, <2>2, <2>2a, <2>2b DEF Inv, TypeOK
  <2>2d. /\ synced' = [synced EXCEPT !.db = db']
        BY <2>1
  <2>2e. /\ synced'.db = db'
        BY <2>2c, <2>2d
  <2>2f. /\ db' # None
        BY <2>2b, ConfigAssumption
  <2>2g. /\ wal = None
        BY <2>1, <2>2a DEF Inv, SidecarOwn, Contents, Modes
  <2>2h. Readable' = Readable \union {r}
        BY <2>1, <2>2a, <2>2f, <2>2g DEF Readable, WalRows, Contents
  <2>2i. /\ job.at \notin Publishing \union RollingBack
        BY <2>1, <2>2a, ConfigAssumption DEF Inv, LockKept, Publishing, RollingBack
  <2> USE ConfigAssumption DEF Inv, JobKnown, ConnectionsAttached, LockKept, SidecarOwn,
             Before, Publishing, RollingBack, Held, GuardGiven, Guarded
  <2>3. TypeOK'
        BY <2>1, <2>2, <2>2a, <2>2b, <2>2c, <2>2d, <2>2e, <2>2f, <2>2g, <2>2h, <2>2i
            DEF TypeOK, Contents, Schemas, Modes, Empty
  <2>4. JobKnown'
        BY <2>1, <2>2, <2>2a, <2>2b, <2>2c, <2>2d, <2>2e, <2>2f, <2>2g, <2>2h, <2>2i
            DEF TypeOK, Contents, Jobs, Schemas, Empty
  <2>5. ConnectionsAttached'
        BY <2>1, <2>2, <2>2a, <2>2b, <2>2c, <2>2d, <2>2e, <2>2f, <2>2g, <2>2h, <2>2i
            DEF TypeOK, Contents, Schemas, Modes, Empty
  <2>6. LockKept'
        BY <2>1, <2>2, <2>2a, <2>2b, <2>2c, <2>2d, <2>2e, <2>2f, <2>2g, <2>2h, <2>2i
            DEF TypeOK, Contents, Schemas, Modes, Empty
  <2>7. SidecarOwn'
        BY <2>1, <2>2, <2>2a, <2>2b, <2>2c, <2>2d, <2>2e, <2>2f, <2>2g, <2>2h, <2>2i
            DEF TypeOK, Contents, Schemas, Modes, Empty
  <2>8. SourceSnapped'
        BY <2>1, <2>2, <2>2a, <2>2b, <2>2c, <2>2d, <2>2e, <2>2f, <2>2g, <2>2h, <2>2i
            DEF SourceSnapped, Taken, TypeOK, Contents, Jobs
  <2>9. SnapSaved'
        BY <2>1, <2>2, <2>2a, <2>2b, <2>2c, <2>2d, <2>2e, <2>2f, <2>2g, <2>2h, <2>2i
            DEF SnapSaved, Saved, TypeOK, Contents, Jobs, Empty
  <2> QED BY <2>3, <2>4, <2>5, <2>6, <2>7, <2>8, <2>9 DEF Inv
<1> QED BY <1>1, <1>2

\* A failure releases the job or sends it into the rollback.
LEMMA FailKeeps == ASSUME Inv, Fail PROVE Inv'
<1>1. CASE job.at \in Before /\ Release("failed")
  <2>1. /\ UNCHANGED <<db, wal, conn, committed>>
        /\ staging' \in BOOLEAN
      BY <1>1 DEF Fail, store, Inv, TypeOK, Before, Publishing, RollingBack
  <2>2. /\ backups' \in {backups, Front(backups)}
        /\ synced' \in {synced, [synced EXCEPT !.backups = backups']}
        /\ trusted' \subseteq trusted
      BY <1>1 DEF Fail, SyncedWith, store, Before, Publishing, RollingBack
  <2>3. backups' \in Seq(Backups)
    <3>1. backups \in Seq(Backups) /\ Len(backups) \in Nat
      BY DEF Inv, TypeOK
    <3>2. \A i \in 1..(Len(backups) - 1) : backups[i] \in Backups
      BY <3>1
    <3>3. Front(backups) \in Seq(Backups)
      BY <3>1, <3>2, SubSeqProperties DEF Front
    <3> QED BY <2>2, <3>1, <3>3
  <2>4. /\ synced' \in [db : Contents \union {None}, backups : Seq(Backups)]
        /\ synced'.db = synced.db
      BY <2>2, <2>3 DEF Inv, TypeOK
  <2>5. trusted' \subseteq Backups
      BY <2>2 DEF Inv, TypeOK
  <2> QED BY <1>1, <2>1, <2>3, <2>4, <2>5, ReleaseKeeps DEF Outcomes
<1>2. CASE job.at \in Publishing
  <2> USE ConfigAssumption DEF Inv, JobKnown, ConnectionsAttached, LockKept, SidecarOwn,
             Before, Publishing, RollingBack, Held, GuardGiven, Guarded
  <2>1. /\ job.at \in Publishing
        /\ job' = [job EXCEPT !.at = "rollback"]
        /\ UNCHANGED <<db, wal, lock, conn, committed, backups, staging, trusted, synced>>
        BY <1>2 DEF Fail, Before, Publishing, RollingBack, store, counters
  <2>2. /\ job' \in Jobs
        /\ job'.at = "rollback"
        /\ job'.snap = job.snap
        /\ job'.op = job.op
        /\ job'.source = job.source
        /\ job'.target = job.target
        /\ job'.changed = job.changed
        BY <2>1
        DEF Inv, TypeOK, Jobs, Contents, Schemas, Modes, OperationNames, Outcomes,
            JobKnown, Before, Publishing, RollingBack, Guarded
  <2>3. TypeOK'
        BY <2>1, <2>2 DEF TypeOK, Contents, Schemas, Modes
  <2>4. JobKnown'
        BY <2>1, <2>2 DEF TypeOK, Contents, Jobs, Schemas
  <2>5. ConnectionsAttached'
        BY <2>1, <2>2 DEF TypeOK, Contents, Schemas, Modes
  <2>6. LockKept'
        BY <2>1, <2>2 DEF TypeOK, Contents, Schemas, Modes
  <2>7. SidecarOwn'
        BY <2>1, <2>2 DEF TypeOK, Contents, Schemas, Modes
  <2>8. SourceSnapped'
        BY <2>1, <2>2
        DEF SourceSnapped, Taken, TypeOK, Contents, Jobs, Readable, WalRows, SchemaAt
  <2>9. SnapSaved'
        BY <2>1, <2>2 DEF SnapSaved, Saved, TypeOK, Contents, Jobs
  <2> QED BY <2>3, <2>4, <2>5, <2>6, <2>7, <2>8, <2>9 DEF Inv
<1>3. CASE job.at \in RollingBack
  <2>1. Release("recovery_required")
      BY <1>3 DEF Fail, Before, Publishing, RollingBack
  <2>2. UNCHANGED <<db, wal, conn, committed, backups, staging, trusted, synced>>
      BY <1>3 DEF Fail, store, Before, Publishing, RollingBack
  <2> QED BY <2>1, <2>2, ReleaseKeeps DEF Inv, TypeOK, Outcomes
<1> QED BY <1>1, <1>2, <1>3 DEF Fail

\* A kill releases the job.
LEMMA KillKeeps == ASSUME Inv, Kill PROVE Inv'
<1>1. Release("crashed")
      BY DEF Kill
<1>2. UNCHANGED <<db, wal, conn, committed, backups, staging, trusted, synced>>
      BY DEF Kill, store
<1> QED BY <1>1, <1>2, ReleaseKeeps DEF Inv, TypeOK, Outcomes

\* What a power loss leaves holds what was committed.
LEMMA PowerLossKeeps == ASSUME Inv, PowerLoss PROVE Inv'
<1> USE ConfigAssumption DEF Inv, JobKnown, ConnectionsAttached, LockKept, SidecarOwn,
           Before, Publishing, RollingBack, Held, GuardGiven, Guarded
<1>1. /\ db' \in {db, synced.db}
      /\ backups' \in {backups, synced.backups}
      /\ synced' = [db |-> db', backups |-> backups']
      /\ lock' = None
      /\ conn' = [w \in Writer |-> "closed"]
      /\ job' = [NoWork EXCEPT !.outcome = "crashed"]
      /\ trusted' \subseteq trusted
      /\ UNCHANGED <<wal, committed, staging>>
      BY DEF PowerLoss, store, counters
<1>2. /\ job' \in Jobs
      /\ job'.at = "idle"
      /\ job'.target = Empty
  <2>1. Empty \in Contents
        BY DEF Empty, Contents, Schemas, Modes
  <2>2. job' = [at |-> "idle", op |-> "none", source |-> "none", snap |-> Empty,
                target |-> Empty, changed |-> FALSE, outcome |-> "crashed"]
        BY <1>1 DEF NoWork
  <2> QED BY <2>1, <2>2 DEF Jobs, Outcomes
<1>3. TypeOK'
      BY <1>1, <1>2 DEF TypeOK, Contents, Schemas, Modes, NoWork, Empty
<1>4. JobKnown'
      BY <1>1, <1>2 DEF TypeOK, Contents, Jobs, Schemas, NoWork, Empty
<1>5. ConnectionsAttached'
      BY <1>1, <1>2 DEF TypeOK, Contents, Schemas, Modes, NoWork, Empty
<1>6. LockKept'
      BY <1>1, <1>2 DEF TypeOK, Contents, Schemas, Modes, NoWork, Empty
<1>7. SidecarOwn'
      BY <1>1, <1>2 DEF TypeOK, Contents, Schemas, Modes, NoWork, Empty
<1>8. SourceSnapped'
      BY <1>1, <1>2
      DEF SourceSnapped, Taken, TypeOK, Contents, Jobs, Readable, WalRows, SchemaAt,
          NoWork, Empty
<1>9. SnapSaved'
      BY <1>1, <1>2 DEF SnapSaved, Saved, TypeOK, Contents, Jobs, NoWork, Empty
<1> QED BY <1>3, <1>4, <1>5, <1>6, <1>7, <1>8, <1>9 DEF Inv

\* The invariant holds where the database starts.
LEMMA InitInv == Init => Inv
<1> SUFFICES ASSUME Init PROVE Inv
    OBVIOUS
<1>1. PICK s \in Sources, rows \in SUBSET Row :
         /\ s = "absent" => rows = {}
         /\ db = IF s = "absent" THEN None
                 ELSE [schema |-> "old", mode |-> s,
                       rows |-> IF s = "wal" THEN {} ELSE rows]
         /\ wal = IF s = "wal" THEN [own |-> TRUE, rows |-> rows] ELSE None
         /\ committed = rows
         /\ backups \in {<<>>} \union {<<Earlier(m)>> : m \in {s} \ {"absent"}}
         /\ synced = [db |-> db, backups |-> backups]
    BY DEF Init
<1>2. /\ lock = None /\ conn = [w \in Writer |-> "closed"]
      /\ staging = FALSE /\ trusted = {} /\ job = NoWork
    BY DEF Init
<1>3. /\ job \in Jobs /\ job.at = "idle" /\ job.target.mode = "delete"
    BY <1>2 DEF NoWork, Empty, Jobs, Contents, Schemas, Modes, Outcomes
<1>4. \/ s = "absent" /\ db = None /\ wal = None /\ committed = {}
      \/ /\ s = "delete" /\ db = [schema |-> "old", mode |-> "delete", rows |-> rows]
         /\ wal = None
      \/ /\ s = "wal" /\ db = [schema |-> "old", mode |-> "wal", rows |-> {}]
         /\ wal = [own |-> TRUE, rows |-> rows]
    BY <1>1, ConfigAssumption DEF SourceNames
<1>5. db \in Contents \union {None} /\ (s # "absent" => db \in Contents /\ db # None)
    BY <1>4, ConfigAssumption DEF Contents, Schemas, Modes
<1>6. /\ wal \in [own : BOOLEAN, rows : SUBSET Row] \union {None}
      /\ s = "wal" => wal # None /\ wal.own
  <2>1. [own |-> TRUE, rows |-> rows] \in [own : BOOLEAN, rows : SUBSET Row]
      OBVIOUS
  <2> QED BY <1>4, <2>1, ConfigAssumption
<1>7. TypeOK
  <2>0. ASSUME NEW m \in {s} \ {"absent"} PROVE Earlier(m) \in Backups
      BY <1>4 DEF Earlier, Purpose, Backups, Schemas, Modes, OperationNames
  <2>1. backups \in Seq(Backups) /\ synced.backups \in Seq(Backups)
    <3>1. CASE backups = <<>>
          BY <1>1, <3>1
    <3>2. CASE \E m \in {s} \ {"absent"} : backups = <<Earlier(m)>>
      <4>1. PICK e \in Backups : backups = <<e>>
          BY <2>0, <3>2
      <4> QED BY <1>1, <4>1
    <3> QED BY <1>1, <3>1, <3>2
  <2> QED BY <1>1, <1>2, <1>3, <1>5, <1>6, <2>1 DEF TypeOK
<1>8. JobKnown
    BY <1>3 DEF JobKnown, Guarded, Held, GuardGiven, Publishing, RollingBack
<1>9. ConnectionsAttached
    BY <1>2, ConfigAssumption DEF ConnectionsAttached
<1>10. LockKept
    BY <1>2, <1>3, ConfigAssumption
    DEF LockKept, Held, GuardGiven, Publishing, RollingBack
<1>11. SidecarOwn
    BY <1>1, <1>3, <1>4, <1>5, <1>6 DEF SidecarOwn, Publishing, RollingBack
<1>12. SourceSnapped /\ SnapSaved
    BY <1>3 DEF SourceSnapped, SnapSaved, Taken, Saved, GuardGiven
<1> QED BY <1>7, <1>8, <1>9, <1>10, <1>11, <1>12 DEF Inv

\* Every step of the coordinator keeps the invariant.
LEMMA CoordinateKeeps == ASSUME Inv, Coordinate PROVE Inv'
BY TakeGuardKeeps, TakeSnapshotKeeps, StageBackupKeeps, RenameBackupKeeps,
    SyncBackupKeeps,
   FinishBackupKeeps, ReleaseGuardKeeps, CheckpointKeeps, LeaveWalKeeps,
       RetakeGuardKeeps,
   ReserveKeeps, ReplaceKeeps, DropSidecarsKeeps, SyncDirectoryKeeps, FinishKeeps,
   RollbackSidecarsKeeps, RollbackReplaceKeeps, FinishRollbackKeeps
DEF Coordinate

\* So does every step of another connection.
LEMMA ConnectionsKeep == ASSUME Inv, Connections PROVE Inv'
BY OpenDatabaseKeeps, BeginWriteKeeps, EnterWalKeeps, LeaveKeeps, CommitWriteKeeps
DEF Connections

\* So does a step of something else.
LEMMA StutterKeeps == ASSUME Inv, UNCHANGED vars PROVE Inv'
BY DEF Inv, vars, store, TypeOK, JobKnown, ConnectionsAttached, LockKept, SidecarOwn,
       SourceSnapped, SnapSaved, Readable, WalRows, SchemaAt

\* The invariant that carries the properties below is inductive.
THEOREM Inductive == Spec => []Inv
<1>1. Inv /\ [Next]_vars => Inv'
    BY StartKeeps, CoordinateKeeps, ConnectionsKeep, FailKeeps, KillKeeps,
        PowerLossKeeps,
       StutterKeeps
    DEF Next
<1> QED BY InitInv, <1>1, PTL DEF Spec

\* Every variable of the coordinator, the file and its connections stays in its
\* type (migrate_sqlite_database, restore_migration_backup).
THEOREM Typed == Spec => []TypeOK
<1>1. Inv => TypeOK
    BY DEF Inv
<1> QED BY Inductive, <1>1, PTL

\* The main file is never read together with the WAL of another one
\* (_canonicalize_live_journal before os.replace).
THEOREM NeverMixed == Spec => []NoMixture
<1>1. Inv => NoMixture
    BY DEF Inv, SidecarOwn, NoMixture
<1> QED BY Inductive, <1>1, PTL

-----------------------------------------------------------------------------
(* What was committed survives, with restores too.                         *)

\* The backups that no power loss takes away, and those a restore took for such.
Surely == ToSet(synced.backups) \union trusted
Kept(r) == restored /\ \E b \in Surely : r \in b.rows

\* A row that a power loss leaves readable.
SyncedRows == IF synced.db = None THEN {} ELSE synced.db.rows
There(r) == r \in Readable /\ (wal = None => r \in SyncedRows)

\* A backup is published before it is durable, and one that failed is not durable.
SyncedFirst ==
    /\ ToSet(synced.backups) \subseteq ToSet(backups)
    /\ job.at = "saved" => ToSet(synced.backups) \subseteq ToSet(Front(backups))

\* A job that is going to replace the database has its rows in such a backup.
AfterBackup == {"backed", "canonical"} \union GuardGiven
Replacing == {"canonical"} \union GuardGiven \union Publishing \union RollingBack

Relied ==
    /\ job.at # "idle" /\ job.op = "restore" => restored
    /\ job.at \in AfterBackup /\ job.source # "absent" =>
          \E b \in Surely : b.rows = job.snap.rows
    /\ job.at \in Replacing => job.op \in {"migrate", "restore"}

\* Once a file is being replaced, a committed row is in a backup, or the candidate
\* and the snapshot have it both.
Carried(r) == job.op = "migrate" /\ job.source # "absent" /\ r \in job.snap.rows

NoneLost ==
    /\ \A r \in committed : Kept(r) \/ There(r)
    /\ job.at \in Publishing \union RollingBack => \A r \in committed : Kept(r) \/ Carried(r)

SafeInv == SyncedFirst /\ Relied /\ NoneLost

\* What every step leaves of the backups that count.
LEMMA BackupsCount ==
    ASSUME Inv, SafeInv, [Next]_vars
    PROVE  /\ SyncedFirst'
           /\ Surely \subseteq Surely'
           /\ restored => restored'
<1>0. /\ job \in Jobs /\ backups \in Seq(Backups)
      /\ synced \in [db : Contents \union {None}, backups : Seq(Backups)]
      /\ ToSet(synced.backups) \subseteq ToSet(backups)
      /\ job.at = "saved" => ToSet(synced.backups) \subseteq ToSet(Front(backups))
      BY DEF Inv, TypeOK, SafeInv, SyncedFirst
<1>1. restored => restored'
      BY DEF Next, Coordinate, Connections, vars, counters, Start, TakeGuard, TakeSnapshot,
         StageBackup, RenameBackup, SyncBackup, FinishBackup, ReleaseGuard, Checkpoint,
         LeaveWal, RetakeGuard, Reserve, Replace, DropSidecars, SyncDirectory, Finish,
         RollbackSidecars, RollbackReplace, FinishRollback, OpenDatabase, BeginWrite,
         EnterWal, Leave, CommitWrite, Fail, Kill, PowerLoss
<1>2. CASE RenameBackup
  <2>1. /\ backups' = Append(backups, BackupOf(job.snap)) /\ UNCHANGED <<trusted, synced>>
        BY <1>2 DEF RenameBackup
  <2>2. BackupOf(job.snap) \in Backups
        BY <1>2 DEF RenameBackup, BackupOf, Backups, Purpose, Inv, TypeOK, JobKnown, Jobs,
                    Contents, OperationNames
  <2>3. Front(backups') = backups
    <3> DEFINE b == BackupOf(job.snap)
    <3> HIDE DEF b
    <3>1. b \in Backups /\ backups' = Append(backups, b)
          BY <2>1, <2>2 DEF b
    <3>2. Len(Append(backups, b)) - 1 = Len(backups)
          BY <1>0, <3>1
    <3>3. SubSeq(Append(backups, b), 1, Len(backups)) = backups
          BY <1>0, <3>1
    <3> QED BY <3>1, <3>2, <3>3 DEF Front
  <2>4. ToSet(backups) \subseteq ToSet(backups')
        BY <1>0, <2>1, <2>2 DEF ToSet
  <2> QED BY <1>0, <1>1, <2>1, <2>3, <2>4 DEF SyncedFirst, Surely
<1>3. CASE StageBackup
  <2>1. /\ backups' = backups /\ synced'.backups \in {backups, synced.backups}
        /\ ToSet(synced.backups) \subseteq ToSet(synced'.backups)
        /\ trusted \subseteq trusted' \union ToSet(synced'.backups)
        BY <1>0, <1>3 DEF StageBackup, SyncedWith
  <2>2. job'.at # "saved"
        BY <1>0, <1>3 DEF StageBackup, Jobs
  <2> QED BY <1>0, <1>1, <2>1, <2>2 DEF SyncedFirst, Surely
<1>4. CASE SyncBackup
  <2>1. /\ backups' = backups /\ synced'.backups = backups
        /\ trusted \subseteq trusted' \union ToSet(synced'.backups)
        /\ job'.at # "saved"
        BY <1>0, <1>4 DEF SyncBackup, SyncedWith, Jobs
  <2> QED BY <1>0, <1>1, <2>1 DEF SyncedFirst, Surely
<1>5. CASE Fail
  <2>1. \/ UNCHANGED <<backups, trusted>> /\ synced'.backups = synced.backups
        \/ /\ job.at = "saved" /\ backups' = Front(backups)
           /\ synced'.backups = Front(backups)
           /\ trusted \subseteq trusted' \union ToSet(synced'.backups)
        BY <1>0, <1>5 DEF Fail, SyncedWith, store
  <2>2. job'.at # "saved"
        BY <1>0, <1>5 DEF Fail, Release, NoWork, Jobs
  <2> QED BY <1>0, <1>1, <2>1, <2>2 DEF SyncedFirst, Surely
<1>6. CASE PowerLoss
  <2>1. /\ backups' \in {backups, synced.backups} /\ synced'.backups = backups'
        /\ trusted' = trusted \ ToSet(backups') /\ job'.at # "saved"
        BY <1>6 DEF PowerLoss, NoWork
  <2> QED BY <1>0, <1>1, <2>1 DEF SyncedFirst, Surely
<1>7. CASE (\E op \in Operations : Start(op)) \/ TakeGuard \/ TakeSnapshot \/ FinishBackup
           \/ ReleaseGuard \/ Kill \/ Checkpoint \/ LeaveWal \/ RetakeGuard
  <2>1. UNCHANGED <<backups, trusted>> /\ synced'.backups = synced.backups /\ job'.at # "saved"
    <3>1. ASSUME NEW op \in Operations, Start(op)
          PROVE  UNCHANGED <<backups, trusted>> /\ synced'.backups = synced.backups
                 /\ job'.at # "saved"
          BY <3>1 DEF Start, store, NoWork
    <3>2. CASE TakeGuard \/ TakeSnapshot \/ FinishBackup \/ ReleaseGuard \/ Kill
          BY <1>0, <3>2 DEF TakeGuard, TakeSnapshot, FinishBackup, ReleaseGuard, Kill,
             Release, NoWork, store, Jobs
    <3>3. CASE Checkpoint \/ LeaveWal \/ RetakeGuard
          BY <1>0, <3>3 DEF Checkpoint, LeaveWal, RetakeGuard, Write, Release, NoWork, store,
             Jobs
    <3> QED BY <1>7, <3>1, <3>2, <3>3
  <2> QED BY <1>0, <1>1, <2>1 DEF SyncedFirst, Surely
<1>8. CASE Reserve \/ Replace \/ DropSidecars \/ SyncDirectory \/ Finish
           \/ RollbackSidecars \/ RollbackReplace \/ FinishRollback
  <2>1. UNCHANGED <<backups, trusted>> /\ synced'.backups = synced.backups /\ job'.at # "saved"
        BY <1>0, <1>8 DEF Reserve, Replace, DropSidecars, SyncDirectory, Finish,
           RollbackSidecars, RollbackReplace, FinishRollback, Release, NoWork, store, Jobs
  <2> QED BY <1>0, <1>1, <2>1 DEF SyncedFirst, Surely
<1>9. CASE Connections \/ UNCHANGED vars
  <2>1. /\ UNCHANGED <<backups, trusted>> /\ synced'.backups = synced.backups
        /\ job'.at = job.at
        BY <1>0, <1>9 DEF Connections, OpenDatabase, BeginWrite, EnterWal, Leave,
           CommitWrite, Write, store, vars, Jobs
  <2> QED BY <1>0, <1>1, <2>1 DEF SyncedFirst, Surely
<1> QED BY <1>2, <1>3, <1>4, <1>5, <1>6, <1>7, <1>8, <1>9 DEF Next, Coordinate

\* A job that goes on keeps what it relies on.
LEMMA ReliedStays ==
    ASSUME Inv, SafeInv, Surely \subseteq Surely', restored => restored',
           job'.at = "idle" \/ (job'.op = job.op /\ job'.source = job.source),
           job'.at # "idle" => job.at # "idle",
           job'.at \in AfterBackup /\ job'.source # "absent" =>
              job.at \in AfterBackup /\ job'.snap = job.snap,
           job'.at \in Replacing => job.op \in {"migrate", "restore"}
    PROVE  Relied'
<1>1. job'.at # "idle" /\ job'.op = "restore" => restored'
      BY DEF SafeInv, Relied
<1>2. ASSUME job'.at \in AfterBackup, job'.source # "absent"
      PROVE  \E b \in Surely' : b.rows = job'.snap.rows
  <2>1. job.at \in AfterBackup /\ job'.snap = job.snap
        BY <1>2
  <2>2. job'.at # "idle"
        BY <1>2 DEF AfterBackup, GuardGiven
  <2>3. PICK b \in Surely : b.rows = job.snap.rows
        BY <1>2, <2>1, <2>2 DEF SafeInv, Relied
  <2> QED BY <2>1, <2>3
<1>3. job'.at \in Replacing => job'.op \in {"migrate", "restore"}
      BY DEF Replacing, GuardGiven, Publishing, RollingBack
<1> QED BY <1>1, <1>2, <1>3 DEF Relied

\* Every step keeps what the job relies on.
LEMMA ReliedKeeps ==
    ASSUME Inv, SafeInv, [Next]_vars, Surely \subseteq Surely', restored => restored'
    PROVE  Relied'
<1>0. /\ job \in Jobs /\ JobKnown /\ Relied
      BY DEF Inv, TypeOK, SafeInv
<1> USE DEF AfterBackup, Replacing, GuardGiven, Publishing, RollingBack
<1>1. ASSUME NEW op \in Operations, Start(op) PROVE Relied'
  <2>1. /\ job'.at \in {"idle", "leased"}
        /\ job'.at # "idle" => job'.op = op /\ (op = "restore" => restored')
        BY <1>1 DEF Start, NoWork
  <2> QED BY <2>1 DEF Relied
<1>2. CASE TakeGuard \/ RenameBackup \/ FinishBackup \/ Finish \/ Kill \/ PowerLoss
  <2>1. /\ job'.at \in {"idle", "guarded", "saved"}
        /\ job'.at # "idle" => job'.op = job.op /\ job.at # "idle"
        BY <1>0, <1>2 DEF TakeGuard, RenameBackup, FinishBackup, Finish, Kill, PowerLoss,
           Release, NoWork, Jobs
  <2> QED BY <1>0, <2>1 DEF Relied
<1>3. CASE TakeSnapshot
  <2>1. /\ job.at = "guarded"
        /\ job'.at # "idle" =>
              /\ job'.op = job.op /\ job'.source = job.source
              /\ job'.at = "snapped" \/ (job'.at = "backed" /\ db = None)
        BY <1>0, <1>3 DEF TakeSnapshot, Release, NoWork, Jobs
  <2>2. db = None => job.source = "absent"
        BY <2>1 DEF Inv, LockKept, Held
  <2> QED BY <1>0, <2>1, <2>2 DEF Relied
<1>4. CASE StageBackup
  <2>1. /\ job.at = "snapped" /\ job'.at \in {"staged", "backed"}
        /\ job'.op = job.op /\ job'.snap = job.snap
        /\ job'.at = "backed" => BackupOf(job.snap) \in Surely'
        BY <1>0, <1>4 DEF StageBackup, SyncedWith, Surely, Jobs, Inv, TypeOK
  <2>2. BackupOf(job.snap).rows = job.snap.rows
        BY DEF BackupOf
  <2> QED BY <1>0, <2>1, <2>2 DEF Relied
<1>5. CASE SyncBackup
  <2>1. /\ job.at = "saved" /\ job'.at = "backed" /\ job'.op = job.op
        /\ job'.snap = job.snap /\ job'.source = job.source
        /\ synced'.backups = backups
        BY <1>0, <1>5 DEF SyncBackup, SyncedWith, Jobs, Inv, TypeOK
  <2>2. job.source # "absent" => \E b \in Surely' : b.rows = job.snap.rows
        BY <2>1 DEF Inv, SnapSaved, Saved, Surely
  <2> QED BY <1>0, <2>1, <2>2 DEF Relied
<1>6. CASE ReleaseGuard
  <2>1. /\ job.at = "backed" /\ job'.at \in {"canonical", "released"} /\ job'.op = job.op
        /\ job'.snap = job.snap /\ job'.source = job.source /\ job.op # "backup"
        BY <1>0, <1>6 DEF ReleaseGuard, Jobs
  <2>2. job.op \in {"migrate", "restore"}
        BY <1>0, <2>1 DEF JobKnown, OperationNames
  <2> QED BY <2>1, <2>2, ReliedStays
<1>7. CASE Checkpoint \/ LeaveWal \/ RetakeGuard
  <2>1. /\ job.at \in GuardGiven
        /\ \/ job'.at = "idle"
           \/ /\ job'.at \in GuardGiven \union {"canonical"} /\ job'.op = job.op
              /\ job'.snap = job.snap /\ job'.source = job.source
        BY <1>0, <1>7 DEF Checkpoint, LeaveWal, RetakeGuard, Release, NoWork, Jobs
  <2> QED BY <1>0, <2>1, ReliedStays DEF Relied
<1>8. CASE Reserve \/ Replace \/ DropSidecars \/ SyncDirectory
           \/ RollbackSidecars \/ RollbackReplace \/ FinishRollback
  <2>1. /\ job.at \in {"canonical"} \union Publishing \union RollingBack
        /\ \/ job'.at = "idle"
           \/ /\ job'.at \in Publishing \union RollingBack
              /\ job'.op = job.op /\ job'.source = job.source
        BY <1>0, <1>8 DEF Reserve, Replace, DropSidecars, SyncDirectory, RollbackSidecars,
           RollbackReplace, FinishRollback, Release, NoWork, Jobs
  <2> QED BY <1>0, <2>1, ReliedStays DEF Relied
<1>9. CASE Fail
  <2>1. \/ job'.at = "idle"
        \/ /\ job.at \in Publishing /\ job'.at = "rollback"
           /\ job'.op = job.op /\ job'.source = job.source
        BY <1>0, <1>9 DEF Fail, Release, NoWork, Jobs
  <2> QED BY <1>0, <2>1, ReliedStays DEF Relied
<1>10. CASE Connections \/ UNCHANGED vars
  <2>1. /\ job'.at = job.at /\ job'.snap = job.snap /\ job'.op = job.op
        /\ job'.source = job.source
        BY <1>0, <1>10 DEF Connections, OpenDatabase, BeginWrite, EnterWal, Leave,
           CommitWrite, vars, Jobs
  <2> QED BY <1>0, <2>1, ReliedStays DEF Relied
<1> QED BY <1>1, <1>2, <1>3, <1>4, <1>5, <1>6, <1>7, <1>8, <1>9, <1>10 DEF Next, Coordinate

\* Nothing is lost by a step after which a power loss still leaves what it left before.
LEMMA NoneLostStays ==
    ASSUME Inv, SafeInv, Surely \subseteq Surely', restored => restored',
           committed' = committed, \A r \in committed : There(r) => There(r)',
           job'.at \in Publishing \union RollingBack =>
              /\ job.at \in Publishing \union RollingBack
              /\ job'.op = job.op /\ job'.source = job.source /\ job'.snap = job.snap
    PROVE  NoneLost'
<1>1. ASSUME NEW r \in committed, Kept(r) PROVE Kept(r)'
      BY <1>1 DEF Kept
<1>2. ASSUME NEW r \in committed' PROVE Kept(r)' \/ There(r)'
      BY <1>1, <1>2 DEF SafeInv, NoneLost
<1>3. ASSUME job'.at \in Publishing \union RollingBack, NEW r \in committed'
      PROVE  Kept(r)' \/ Carried(r)'
      BY <1>1, <1>3 DEF SafeInv, NoneLost, Carried
<1> QED BY <1>2, <1>3 DEF NoneLost

\* A step that changes no file.
LEMMA FilesUntouched ==
    ASSUME UNCHANGED <<db, wal>>, synced'.db = synced.db, NEW r, There(r)
    PROVE  There(r)'
BY DEF There, Readable, WalRows, SyncedRows

\* The canonicalization moves what is in the WAL into the file.
LEMMA CanonicalKeepsRows ==
    ASSUME Inv, Checkpoint \/ LeaveWal \/ RetakeGuard, NEW r, There(r)
    PROVE  There(r)'
<1>0. /\ job \in Jobs /\ synced \in [db : Contents \union {None}, backups : Seq(Backups)]
      /\ db \in Contents /\ db # None
      /\ wal \in [own : BOOLEAN, rows : SUBSET Row] \union {None}
      BY DEF Inv, TypeOK, LockKept, GuardGiven, Checkpoint, LeaveWal, RetakeGuard
<1>1. db.mode = "wal" <=> wal # None
      BY <1>0 DEF Inv, SidecarOwn
<1>2. CASE UNCHANGED <<db, wal, synced>>
      BY <1>2, FilesUntouched
<1>3. CASE Checkpoint /\ ~UNCHANGED <<db, wal, synced>>
  <2>1. /\ db' = Checkpointed /\ wal' = [own |-> TRUE, rows |-> {}]
        BY <1>3 DEF Checkpoint, Write
  <2>2. wal' # None
    <3>1. wal' \in [own : BOOLEAN, rows : SUBSET Row]
          BY <2>1
    <3> QED BY <3>1, ConfigAssumption
  <2>3. db' \in Contents /\ db'.rows = db.rows \union WalRows
        BY <1>0, <2>1 DEF Checkpointed, Contents, WalRows
  <2>4. db' # None
        BY <2>3, ConfigAssumption
  <2> QED BY <1>0, <2>2, <2>3, <2>4 DEF There, Readable
<1>4. CASE LeaveWal /\ ~UNCHANGED <<db, wal, synced>>
  <2>1. /\ db' = [Checkpointed EXCEPT !.mode = "delete"] /\ synced' = [synced EXCEPT !.db = db']
        BY <1>4 DEF LeaveWal, Write
  <2>2. db' \in Contents /\ db'.rows = db.rows \union WalRows
        BY <1>0, <2>1 DEF Checkpointed, Contents, WalRows, Modes
  <2>3. db' # None /\ synced'.db = db'
        BY <1>0, <2>1, <2>2, ConfigAssumption
  <2> QED BY <1>0, <2>2, <2>3 DEF There, Readable, SyncedRows
<1>5. CASE RetakeGuard /\ ~UNCHANGED <<db, wal, synced>>
  <2>1. /\ job.at = "standalone" /\ ~job.changed /\ db' = db /\ wal' = None
        /\ synced' = [synced EXCEPT !.db = db]
        BY <1>5 DEF RetakeGuard, SourceChanged
  <2>2. wal = None
        BY <1>1, <2>1 DEF Inv, SidecarOwn
  <2>3. synced'.db = db
        BY <1>0, <2>1
  <2> QED BY <1>0, <2>1, <2>2, <2>3 DEF There, Readable, WalRows, SyncedRows
<1> QED BY <1>2, <1>3, <1>4, <1>5

\* A replacement, and the rollback of one, put a file in place that has every row that
\* is not in a backup.
LEMMA ReplacementKeepsRows ==
    ASSUME Inv, SafeInv, Replace \/ RollbackReplace, Surely \subseteq Surely',
           restored => restored'
    PROVE  NoneLost'
<1>0. /\ job \in Jobs /\ committed' = committed /\ synced' = synced
      /\ job'.at \in {"published", "rolled"} /\ job'.op = job.op
      /\ job'.source = job.source /\ job'.snap = job.snap
      BY DEF Inv, TypeOK, Jobs, Replace, RollbackReplace, store
<1>1. wal = None /\ wal' = None
  <2>1. wal = None
        BY DEF Inv, SidecarOwn, Publishing, RollingBack, Replace, RollbackReplace
  <2> QED BY <2>1 DEF Replace, RollbackReplace, PutInPlace
<1>2. ASSUME NEW r \in committed PROVE Kept(r) \/ (Carried(r) /\ r \in SyncedRows)
  <2>1. Kept(r) \/ There(r)
        BY DEF SafeInv, NoneLost
  <2>2. CASE job.at \in Publishing \union RollingBack
        BY <1>1, <2>1, <2>2 DEF SafeInv, NoneLost, There
  <2>3. CASE job.at = "canonical"
    <3>1. Replace /\ job.source # "absent"
          BY <2>3 DEF Replace, RollbackReplace
    <3>2. job.snap.rows = Readable
          BY <2>3, <3>1 DEF Inv, SourceSnapped, Taken
    <3>3. job.op \in {"migrate", "restore"} /\ (job.op = "restore" => restored)
          BY <2>3 DEF SafeInv, Relied, Replacing
    <3>4. \E b \in Surely : b.rows = job.snap.rows
          BY <2>3, <3>1 DEF SafeInv, Relied, AfterBackup
    <3> QED BY <1>1, <2>1, <3>1, <3>2, <3>3, <3>4 DEF Kept, Carried, There
  <2> QED BY <2>2, <2>3 DEF Replace, RollbackReplace, Publishing, RollingBack
<1>3. ASSUME NEW r \in committed, Kept(r) PROVE Kept(r)'
      BY <1>3 DEF Kept
<1>4. ASSUME NEW r \in committed, Carried(r), r \in SyncedRows PROVE There(r)' /\ Carried(r)'
  <2>1. job.snap \in Contents /\ job.op = "migrate" /\ job.source # "absent"
        BY <1>0, <1>4 DEF Jobs, Carried
  <2>2. db'.rows = job.snap.rows /\ db' \in Contents
    <3>1. CASE Replace
      <4>1. db' = Candidate
            BY <3>1 DEF Replace, PutInPlace
      <4> QED BY <2>1, <4>1 DEF Candidate, Contents, Schemas, Modes
    <3>2. CASE RollbackReplace
      <4>1. db' = [job.snap EXCEPT !.mode = "delete"]
            BY <2>1, <3>2 DEF RollbackReplace, PutInPlace
      <4> QED BY <2>1, <4>1 DEF Contents, Modes
    <3> QED BY <3>1, <3>2
  <2>3. db' # None
        BY <2>2, ConfigAssumption
  <2>4. r \in Readable'
        BY <1>4, <2>2, <2>3 DEF Readable, Carried
  <2>5. r \in SyncedRows'
        BY <1>0, <1>4 DEF SyncedRows
  <2>6. Carried(r)'
        BY <1>0, <1>4 DEF Carried
  <2> QED BY <2>4, <2>5, <2>6 DEF There
<1> QED BY <1>0, <1>2, <1>3, <1>4 DEF NoneLost

\* Another connection takes no row away, and what it commits a power loss leaves.
LEMMA ConnectionsKeepRows ==
    ASSUME Inv, SafeInv, Connections, Surely \subseteq Surely', restored => restored'
    PROVE  NoneLost'
<1>0. /\ job \in Jobs /\ synced \in [db : Contents \union {None}, backups : Seq(Backups)]
      /\ db \in Contents \union {None}
      /\ wal \in [own : BOOLEAN, rows : SUBSET Row] \union {None}
      BY DEF Inv, TypeOK
<1>1. /\ job'.at = job.at /\ job'.snap = job.snap /\ job'.op = job.op
      /\ job'.source = job.source
      BY <1>0 DEF Connections, OpenDatabase, BeginWrite, EnterWal, Leave, CommitWrite, Jobs
<1>2. ASSUME NEW w \in Writer, OpenDatabase(w) PROVE NoneLost'
  <2>1. committed' = committed
        BY <1>2 DEF OpenDatabase
  <2>2. ASSUME NEW r \in committed, There(r) PROVE There(r)'
    <3>1. CASE db = None
          BY <2>2, <3>1 DEF There, Readable
    <3>2. CASE db # None
          BY <1>2, <2>2, <3>2, FilesUntouched DEF OpenDatabase
    <3> QED BY <3>1, <3>2
  <2> QED BY <1>1, <2>1, <2>2, NoneLostStays
<1>3. ASSUME NEW w \in Writer, BeginWrite(w) \/ Leave(w) PROVE NoneLost'
  <2>1. UNCHANGED <<db, wal, committed, synced>>
        BY <1>3 DEF BeginWrite, Leave
  <2> QED BY <1>1, <2>1, FilesUntouched, NoneLostStays
<1>4. ASSUME NEW w \in Writer, EnterWal(w) PROVE NoneLost'
  <2>1. /\ db \in Contents /\ db.mode = "delete" /\ db' = [db EXCEPT !.mode = "wal"]
        /\ wal' = [own |-> TRUE, rows |-> {}] /\ committed' = committed
        BY <1>0, <1>4, ConfigAssumption DEF EnterWal, Write, Inv, ConnectionsAttached
  <2>2. wal = None
        BY <2>1, ConfigAssumption DEF Inv, SidecarOwn
  <2>3. /\ wal' # None /\ db' \in Contents /\ db'.rows = db.rows
    <3>1. wal' \in [own : BOOLEAN, rows : SUBSET Row]
          BY <2>1
    <3>2. db' \in Contents /\ db'.rows = db.rows
          BY <2>1 DEF Contents, Modes
    <3> QED BY <3>1, <3>2, ConfigAssumption
  <2>4. db' # None
        BY <2>3, ConfigAssumption
  <2>5. ASSUME NEW r \in committed, There(r) PROVE There(r)'
        BY <2>2, <2>3, <2>4, <2>5 DEF There, Readable, WalRows
  <2> QED BY <1>1, <2>1, <2>5, NoneLostStays
<1>5. ASSUME NEW w \in Writer, NEW r \in Row, CommitWrite(w, r) PROVE NoneLost'
  <2>1. /\ db \in Contents /\ db # None /\ committed' = committed \union {r}
        /\ job.at \notin Publishing \union RollingBack
        BY <1>0, <1>5, ConfigAssumption
        DEF CommitWrite, Inv, ConnectionsAttached, LockKept, Publishing, RollingBack
  <2>2. db.mode = "wal" <=> wal # None
        BY <2>1 DEF Inv, SidecarOwn
  <2>3. /\ Readable' = Readable \union {r}
        /\ wal' = None => SyncedRows' = Readable'
    <3>1. CASE db.mode = "wal"
      <4>1. /\ wal' = [own |-> TRUE, rows |-> WalRows \union {r}] /\ db' = db
            BY <1>5, <3>1 DEF CommitWrite
      <4>2. wal' # None
        <5>1. WalRows \subseteq Row
              BY <1>0 DEF WalRows
        <5>2. wal' \in [own : BOOLEAN, rows : SUBSET Row]
              BY <4>1, <5>1
        <5> QED BY <5>2, ConfigAssumption
      <4> QED BY <2>1, <4>1, <4>2 DEF Readable, WalRows
    <3>2. CASE db.mode # "wal"
      <4>1. /\ db' = [db EXCEPT !.rows = @ \union {r}] /\ wal' = wal /\ wal = None
            /\ synced' = [synced EXCEPT !.db = db']
            BY <1>5, <2>2, <3>2 DEF CommitWrite, Write
      <4>2. db' \in Contents /\ db'.rows = db.rows \union {r} /\ synced'.db = db'
            BY <1>0, <2>1, <4>1 DEF Contents
      <4>3. db' # None
            BY <4>2, ConfigAssumption
      <4> QED BY <2>1, <4>1, <4>2, <4>3 DEF Readable, WalRows, SyncedRows
    <3> QED BY <3>1, <3>2
  <2>4. ASSUME NEW q \in committed, Kept(q) PROVE Kept(q)'
        BY <2>4 DEF Kept
  <2>5. ASSUME NEW q \in committed' PROVE Kept(q)' \/ There(q)'
        BY <2>1, <2>3, <2>4, <2>5 DEF SafeInv, NoneLost, There
  <2> QED BY <1>1, <2>1, <2>5 DEF NoneLost
<1> QED BY <1>2, <1>3, <1>4, <1>5 DEF Connections

\* No step loses a row.
LEMMA NoneLostKeeps ==
    ASSUME Inv, SafeInv, [Next]_vars, Surely \subseteq Surely', restored => restored'
    PROVE  NoneLost'
<1>0. /\ job \in Jobs /\ synced \in [db : Contents \union {None}, backups : Seq(Backups)]
      /\ db \in Contents \union {None}
      BY DEF Inv, TypeOK
<1>1. CASE \/ \E op \in Operations : Start(op)
           \/ TakeGuard \/ TakeSnapshot \/ StageBackup \/ RenameBackup \/ SyncBackup
           \/ FinishBackup \/ ReleaseGuard
  <2>1. UNCHANGED <<db, wal, committed>> /\ synced'.db = synced.db
    <3>1. CASE StageBackup \/ SyncBackup
          BY <1>0, <3>1 DEF StageBackup, SyncBackup, SyncedWith
    <3>2. CASE \/ \E op \in Operations : Start(op)
               \/ TakeGuard \/ TakeSnapshot \/ RenameBackup \/ FinishBackup \/ ReleaseGuard
          BY <3>2 DEF Start, TakeGuard, TakeSnapshot, RenameBackup, FinishBackup,
             ReleaseGuard
    <3> QED BY <1>1, <3>1, <3>2
  <2>2. job'.at \notin Publishing \union RollingBack
    <3>1. ASSUME NEW op \in Operations, Start(op)
          PROVE  job'.at \notin Publishing \union RollingBack
          BY <3>1 DEF Start, NoWork, Publishing, RollingBack
    <3>2. CASE StageBackup
          BY <1>0, <3>2 DEF StageBackup, Jobs, Publishing, RollingBack
    <3>3. CASE TakeGuard
          BY <1>0, <3>3 DEF TakeGuard, Release, NoWork, Jobs, Publishing, RollingBack
    <3>4. CASE TakeSnapshot
          BY <1>0, <3>4 DEF TakeSnapshot, Release, NoWork, Jobs, Publishing, RollingBack
    <3>5. CASE ReleaseGuard
          BY <1>0, <3>5 DEF ReleaseGuard, Jobs, Publishing, RollingBack
    <3>6. CASE RenameBackup \/ SyncBackup \/ FinishBackup
          BY <1>0, <3>6 DEF RenameBackup, SyncBackup, FinishBackup, Release, NoWork, Jobs,
             Publishing, RollingBack
    <3> QED BY <1>1, <3>1, <3>2, <3>3, <3>4, <3>5, <3>6
  <2> QED BY <2>1, <2>2, FilesUntouched, NoneLostStays
<1>2. CASE Checkpoint \/ LeaveWal \/ RetakeGuard
  <2>1. committed' = committed /\ job'.at \notin Publishing \union RollingBack
        BY <1>0, <1>2 DEF Checkpoint, LeaveWal, RetakeGuard, Release, NoWork, Jobs,
           Publishing, RollingBack
  <2> QED BY <1>2, <2>1, CanonicalKeepsRows, NoneLostStays
<1>3. CASE Reserve
  <2>1. committed' = committed
        BY <1>3 DEF Reserve
  <2>2. CASE db # None
    <3>1. UNCHANGED <<db, wal, synced>> /\ job'.at \notin Publishing \union RollingBack
          BY <1>3, <2>2 DEF Reserve, Release, NoWork, Publishing, RollingBack
    <3> QED BY <2>1, <3>1, FilesUntouched, NoneLostStays
  <2>3. CASE db = None
    <3>1. ASSUME NEW r \in committed PROVE Kept(r)'
          BY <2>3 DEF SafeInv, NoneLost, There, Readable, Kept
    <3> QED BY <2>1, <3>1 DEF NoneLost
  <2> QED BY <2>2, <2>3
<1>4. CASE Replace \/ RollbackReplace
      BY <1>4, ReplacementKeepsRows
<1>5. CASE DropSidecars \/ RollbackSidecars
  <2>1. /\ UNCHANGED <<db, committed, synced>> /\ wal = None /\ wal' = None
        /\ job.at \in Publishing \union RollingBack
        /\ job'.op = job.op /\ job'.source = job.source /\ job'.snap = job.snap
        BY <1>0, <1>5 DEF DropSidecars, RollbackSidecars, Inv, SidecarOwn, Publishing,
           RollingBack, Jobs
  <2> QED BY <2>1, FilesUntouched, NoneLostStays
<1>6. CASE SyncDirectory \/ FinishRollback
  <2>1. /\ UNCHANGED <<db, wal, committed>> /\ wal = None
        /\ synced'.db \in {db, synced.db}
        BY <1>0, <1>6 DEF SyncDirectory, FinishRollback, Inv, SidecarOwn, Publishing,
           RollingBack
  <2>2. /\ job.at \in Publishing \union RollingBack
        /\ job'.at \in Publishing \union RollingBack =>
              job'.op = job.op /\ job'.source = job.source /\ job'.snap = job.snap
        BY <1>0, <1>6 DEF SyncDirectory, FinishRollback, Release, NoWork, Publishing,
           RollingBack, Jobs
  <2>3. ASSUME NEW r \in committed, There(r) PROVE There(r)'
        BY <2>1, <2>3 DEF There, Readable, WalRows, SyncedRows
  <2> QED BY <2>1, <2>2, <2>3, NoneLostStays
<1>7. CASE Finish \/ Kill \/ Fail
  <2>1. UNCHANGED <<db, wal, committed>> /\ synced'.db = synced.db
    <3>1. CASE Finish \/ Kill
          BY <3>1 DEF Finish, Kill
    <3>2. CASE Fail
          BY <1>0, <3>2 DEF Fail, SyncedWith
    <3> QED BY <1>7, <3>1, <3>2
  <2>2. job'.at \in Publishing \union RollingBack =>
           /\ job.at \in Publishing \union RollingBack
           /\ job'.op = job.op /\ job'.source = job.source /\ job'.snap = job.snap
    <3>1. CASE Finish \/ Kill
          BY <3>1 DEF Finish, Kill, Release, NoWork, Publishing, RollingBack
    <3>2. CASE Fail
          BY <1>0, <3>2 DEF Fail, Release, NoWork, Publishing, RollingBack, Jobs
    <3> QED BY <1>7, <3>1, <3>2
  <2> QED BY <2>1, <2>2, FilesUntouched, NoneLostStays
<1>8. CASE PowerLoss
  <2>1. /\ UNCHANGED <<wal, committed>> /\ db' \in {db, synced.db} /\ synced'.db = db'
        /\ job'.at \notin Publishing \union RollingBack
        BY <1>8 DEF PowerLoss, NoWork, Publishing, RollingBack
  <2>2. wal # None => db' = db
        BY <2>1 DEF Inv, SidecarOwn
  <2>3. ASSUME NEW r \in committed, There(r) PROVE There(r)'
        BY <2>1, <2>2, <2>3 DEF There, Readable, WalRows, SyncedRows
  <2> QED BY <2>1, <2>3, NoneLostStays
<1>9. CASE Connections
      BY <1>9, ConnectionsKeepRows
<1>10. CASE UNCHANGED vars
  <2>1. UNCHANGED <<db, wal, committed, synced, job>>
        BY <1>10 DEF vars
  <2> QED BY <2>1, FilesUntouched, NoneLostStays
<1> QED BY <1>1, <1>2, <1>3, <1>4, <1>5, <1>6, <1>7, <1>8, <1>9, <1>10 DEF Next, Coordinate

\* At the start every committed row can be read, and what there is is synced.
LEMMA InitSafe == Init => SafeInv
<1> SUFFICES ASSUME Init PROVE SafeInv
    OBVIOUS
<1>1. job.at = "idle" /\ synced = [db |-> db, backups |-> backups]
    BY DEF Init, NoWork
<1>2. \A r \in committed : There(r)
  <2>1. PICK s \in Sources, rows \in SUBSET Row :
           /\ s = "absent" => rows = {}
           /\ db = IF s = "absent" THEN None
                   ELSE [schema |-> "old", mode |-> s,
                         rows |-> IF s = "wal" THEN {} ELSE rows]
           /\ wal = IF s = "wal" THEN [own |-> TRUE, rows |-> rows] ELSE None
           /\ committed = rows
        BY DEF Init
  <2>2. CASE s = "absent"
        BY <2>1, <2>2
  <2>3. CASE s = "delete"
    <3>1. db = [schema |-> "old", mode |-> "delete", rows |-> rows] /\ wal = None
          BY <2>1, <2>3
    <3>2. db \in Contents /\ db.rows = rows
          BY <3>1 DEF Contents, Schemas, Modes
    <3>3. db # None
          BY <3>2, ConfigAssumption
    <3> QED BY <1>1, <2>1, <3>1, <3>2, <3>3 DEF There, Readable, WalRows, SyncedRows
  <2>4. CASE s = "wal"
    <3>1. db = [schema |-> "old", mode |-> "wal", rows |-> {}]
          /\ wal = [own |-> TRUE, rows |-> rows]
          BY <2>1, <2>4
    <3>2. db \in Contents /\ wal \in [own : BOOLEAN, rows : SUBSET Row] /\ wal.rows = rows
          BY <3>1 DEF Contents, Schemas, Modes
    <3>3. db # None /\ wal # None
          BY <3>2, ConfigAssumption
    <3> QED BY <2>1, <3>2, <3>3 DEF There, Readable, WalRows
  <2> QED BY <2>2, <2>3, <2>4, ConfigAssumption DEF SourceNames
<1> QED BY <1>1, <1>2 DEF SafeInv, SyncedFirst, Relied, NoneLost, AfterBackup, Replacing,
       GuardGiven, Publishing, RollingBack

\* A row somebody was told is committed can be read from the database or is in a backup a
\* restore has made or relied on, whatever fails and whenever the power goes.
THEOREM CommitsSurvive == Spec => []CommitSurvives
<1>1. Inv /\ SafeInv /\ [Next]_vars => SafeInv'
  <2> SUFFICES ASSUME Inv, SafeInv, [Next]_vars PROVE SafeInv'
      OBVIOUS
  <2> QED BY BackupsCount, ReliedKeeps, NoneLostKeeps DEF SafeInv
<1>2. SafeInv => CommitSurvives
      BY DEF SafeInv, SyncedFirst, NoneLost, Kept, Surely, There, CommitSurvives
<1> QED BY Inductive, InitSafe, <1>1, <1>2, PTL DEF Spec

\* Nothing takes the place of a database whose rows and schema are not in a
\* published backup (_publish_backup, then os.replace).
THEOREM BackedUp == Spec => BackedUpBeforeReplaced
<1>1. Inv /\ [Next]_vars => [Replaced => KeptIn(backups)]_vars
  <2> SUFFICES ASSUME Inv, Next, Replaced PROVE KeptIn(backups)
      OBVIOUS
  <2>1. CASE job.source # "absent"
      BY <2>1 DEF Inv, SourceSnapped, SnapSaved, Taken, Saved, Replaced, KeptIn
  <2>2. CASE job.source = "absent"
    <3>1. job.at = "canonical" /\ job'.at = "published" /\ job \in Jobs
        BY DEF Replaced, Inv, TypeOK
    <3>2. ASSUME NEW op \in Operations, Start(op) PROVE FALSE
        BY <3>1, <3>2 DEF Start
    <3>3. ASSUME Coordinate PROVE FALSE
        BY <2>2, <3>1, <3>3
        DEF Coordinate, TakeGuard, TakeSnapshot, StageBackup, RenameBackup, SyncBackup,
            FinishBackup, ReleaseGuard, Checkpoint, LeaveWal, RetakeGuard, Reserve,
                Replace,
            DropSidecars, SyncDirectory, Finish, RollbackSidecars, RollbackReplace,
            FinishRollback, Release, NoWork, Jobs
    <3>4. ASSUME Connections PROVE FALSE
        BY <3>1, <3>4
        DEF Connections, OpenDatabase, BeginWrite, EnterWal, Leave, CommitWrite, Jobs
    <3>5. ASSUME Fail \/ Kill \/ PowerLoss PROVE FALSE
        BY <3>1, <3>5
        DEF Fail, Kill, PowerLoss, Release, NoWork, Jobs, Publishing, Before
    <3> QED BY <3>2, <3>3, <3>4, <3>5 DEF Next
  <2> QED BY <2>1, <2>2
<1> QED BY Inductive, <1>1, PTL DEF BackedUpBeforeReplaced, Spec

\* Nobody commits to a file that the coordinator has put under the name and not
\* yet verified, nor to the source it is about to replace (_publication_guard).
THEOREM VerifiedBeforeWritten == Spec => OnlyVerifiedIsWritten
<1> DEFINE Exposed == {"canonical"} \union Publishing \union RollingBack
<1>1. Inv /\ [Next]_vars => [committed' # committed => job.at \notin Exposed]_vars
  <2> SUFFICES ASSUME Inv, Next, committed' # committed PROVE job.at \notin Exposed
      OBVIOUS
  <2>1. ASSUME NEW w \in Writer, NEW r \in Row, CommitWrite(w, r)
        PROVE  job.at \notin Exposed
    <3>1. lock = w /\ lock # "job" /\ lock # None
        BY <2>1, ConfigAssumption DEF CommitWrite
    <3> QED BY <3>1 DEF Inv, LockKept, Publishing, RollingBack
  <2>2. ASSUME NEW op \in Operations, Start(op) PROVE FALSE
      BY <2>2 DEF Start
  <2>3. ASSUME Coordinate PROVE FALSE
      BY <2>3
      DEF Coordinate, TakeGuard, TakeSnapshot, StageBackup, RenameBackup, SyncBackup,
          FinishBackup, ReleaseGuard, Checkpoint, LeaveWal, RetakeGuard, Reserve,
              Replace,
          DropSidecars, SyncDirectory, Finish, RollbackSidecars, RollbackReplace,
          FinishRollback
  <2>4. ASSUME NEW w \in Writer,
               OpenDatabase(w) \/ BeginWrite(w) \/ EnterWal(w) \/ Leave(w)
        PROVE  FALSE
      BY <2>4 DEF OpenDatabase, BeginWrite, EnterWal, Leave
  <2>5. ASSUME Fail \/ Kill \/ PowerLoss PROVE FALSE
      BY <2>5 DEF Fail, Kill, PowerLoss
  <2> QED BY <2>1, <2>2, <2>3, <2>4, <2>5 DEF Next, Connections
<1> QED BY Inductive, <1>1, PTL DEF OnlyVerifiedIsWritten, Spec

\* The two together.
THEOREM Replacement == Spec => ReplacedSafely
    BY BackedUp, VerifiedBeforeWritten DEF ReplacedSafely

-----------------------------------------------------------------------------
(* The outcomes.                                                           *)

\* The schema under the name is the one the job found, or an empty file that
\* appeared where it found none.
SourceKept ==
    \/ SchemaAt = job.source
    \/ job.source = "absent" /\ SchemaAt = "empty"

\* What a job has found, replaced and left in the directory of the backups, so far.
Told ==
    /\ job.at # "idle" => job.outcome = "none"
    /\ job.at = "leased" => job.source = "none"
    /\ job.at \in Guarded \union {"rolled"} => SourceKept
    /\ /\ job.at \in (Guarded \ {"guarded"}) \union Publishing \union RollingBack
       /\ job.source # "absent"
       => job.snap.schema = job.source
    /\ job.at \in Publishing \ {"reserved"} /\ job.op = "migrate" => SchemaAt = "current"
    /\ job.at \in Saved \union Publishing /\ job.op = "migrate" => ~staging

Distinct(bs) == \A i, j \in DOMAIN bs : bs[i] = bs[j] => i = j

\* No two backups are the same, now and after a power loss, and the one that is
\* being prepared is not there yet.
BackupsDistinct ==
    /\ Distinct(backups) /\ Distinct(synced.backups)
    /\ job.at = "staged" => BackupOf(job.snap) \notin ToSet(backups)

TrueInv == Told /\ BackupsDistinct /\ FailureKeepsSource /\ MigratedIsCurrent

\* The ends of a job keep what has been said, if what they report is so.
LEMMA ReleaseTells ==
    ASSUME Inv, NEW outcome \in Outcomes, Release(outcome), SchemaAt' = SchemaAt,
           outcome = "failed" => SourceKept \/ job.source = "none",
           outcome \in {"migrated", "current"} => SchemaAt = "current",
           outcome = "migrated" => ~staging'
    PROVE  Told' /\ FailureKeepsSource' /\ MigratedIsCurrent'
<1>1. job'.at = "idle" /\ job'.source = job.source /\ job'.outcome = outcome
      BY DEF Release, NoWork
<1>2. Told'
      BY <1>1 DEF Told, Guarded, Held, GuardGiven, Publishing, RollingBack, Saved
<1>3. FailureKeepsSource'
      BY <1>1 DEF FailureKeepsSource, SourceKept
<1>4. MigratedIsCurrent'
      BY <1>1 DEF MigratedIsCurrent
<1> QED BY <1>2, <1>3, <1>4

\* A job that goes on has not said anything yet.
LEMMA NothingSaid ==
    ASSUME Told', job'.at # "idle"
    PROVE  FailureKeepsSource' /\ MigratedIsCurrent'
BY DEF Told, FailureKeepsSource, MigratedIsCurrent

\* The steps up to the backup.
LEMMA PreparationTells ==
    ASSUME Inv, TrueInv,
           \/ TakeGuard \/ TakeSnapshot \/ StageBackup \/ RenameBackup \/ SyncBackup
           \/ FinishBackup \/ ReleaseGuard
    PROVE  Told' /\ FailureKeepsSource' /\ MigratedIsCurrent'
<1> USE DEF Guarded, Held, GuardGiven, Publishing, RollingBack, Saved
<1>0. job \in Jobs /\ Told
      BY DEF Inv, TypeOK, TrueInv
<1>d. db' = db
      BY DEF TakeGuard, TakeSnapshot, StageBackup, RenameBackup, SyncBackup,
             FinishBackup, ReleaseGuard
<1>s. SchemaAt' = SchemaAt
      BY <1>d DEF SchemaAt
<1>1. CASE TakeGuard
  <2>1. CASE lock # None
    <3>1. Release("failed") /\ job.source = "none"
          BY <1>0, <1>1, <2>1 DEF TakeGuard, Told
    <3> QED BY <1>s, <3>1, ReleaseTells DEF Outcomes
  <2>2. CASE lock = None
    <3>1. /\ job.at = "leased"
          /\ job' = [job EXCEPT !.at = "guarded", !.source = SchemaAt, !.changed = FALSE]
          BY <1>1, <2>2 DEF TakeGuard
    <3>2. /\ job'.at = "guarded" /\ job'.source = SchemaAt /\ job'.outcome = job.outcome
          BY <1>0, <3>1 DEF Jobs
    <3>3. Told'
          BY <1>0, <1>s, <3>1, <3>2 DEF Told, SourceKept
    <3> QED BY <3>2, <3>3, NothingSaid
  <2> QED BY <2>1, <2>2
<1>2. CASE TakeSnapshot
  <2>0. job.at = "guarded" /\ SourceKept
        BY <1>0, <1>2 DEF TakeSnapshot, Told
  <2>1. CASE Appeared \/ (job.op = "backup" /\ db = None)
    <3>1. Release("failed")
          BY <1>2, <2>1 DEF TakeSnapshot
    <3> QED BY <1>s, <2>0, <3>1, ReleaseTells DEF Outcomes
  <2>2. CASE ~(Appeared \/ (job.op = "backup" /\ db = None))
             /\ job.op = "migrate" /\ SchemaAt = "current"
    <3>1. Release("current")
          BY <1>2, <2>2 DEF TakeSnapshot
    <3> QED BY <1>s, <2>2, <3>1, ReleaseTells DEF Outcomes
  <2>3. CASE ~(Appeared \/ (job.op = "backup" /\ db = None))
             /\ ~(job.op = "migrate" /\ SchemaAt = "current")
    <3>1. job' = [job EXCEPT
                !.at = IF job.op = "restore" /\ db = None THEN "backed" ELSE "snapped",
                !.snap = IF db = None THEN Empty ELSE [db EXCEPT !.rows = Readable]]
          BY <1>2, <2>3 DEF TakeSnapshot
    <3>2. /\ job'.at = IF job.op = "restore" /\ db = None THEN "backed" ELSE "snapped"
          /\ job'.op = job.op /\ job'.source = job.source /\ job'.outcome = job.outcome
          /\ job'.snap = IF db = None THEN Empty ELSE [db EXCEPT !.rows = Readable]
          BY <1>0, <3>1 DEF Jobs
    <3>3. db # None => job'.snap.schema = SchemaAt
          BY <3>2 DEF Inv, TypeOK, Contents, SchemaAt
    <3>4. job.source # "absent" => job'.snap.schema = job.source
      <4>1. job.source \in Schemas \union {"absent"}
            BY <2>0 DEF Inv, JobKnown
      <4>2. job.source # "absent" => SchemaAt = job.source /\ SchemaAt # "absent"
            BY <2>0, <4>1 DEF SourceKept, Schemas
      <4> QED BY <3>3, <4>2 DEF SchemaAt
    <3>5. SourceKept'
          BY <1>s, <2>0, <3>2 DEF SourceKept
    <3>6. Told'
          BY <1>0, <2>0, <3>2, <3>4, <3>5 DEF Told
    <3> QED BY <3>2, <3>6, NothingSaid
  <2> QED BY <2>1, <2>2, <2>3
<1>3. CASE StageBackup \/ RenameBackup \/ SyncBackup \/ ReleaseGuard
  <2>1. /\ job.at \in Held \ {"guarded"} /\ job'.at \in Guarded \ {"guarded"}
        /\ job'.op = job.op /\ job'.source = job.source /\ job'.outcome = job.outcome
        /\ job'.snap = job.snap
        BY <1>0, <1>3 DEF StageBackup, RenameBackup, SyncBackup, ReleaseGuard, Jobs
  <2>2. job'.at \in Saved /\ job'.op = "migrate" => ~staging'
        BY <1>0, <1>3 DEF StageBackup, RenameBackup, SyncBackup, ReleaseGuard, store,
           Told, Jobs
  <2>3. SourceKept'
        BY <1>0, <1>s, <2>1 DEF Told, SourceKept
  <2>4. Told'
        BY <1>0, <2>1, <2>2, <2>3 DEF Told
  <2> QED BY <2>1, <2>4, NothingSaid
<1>4. CASE FinishBackup
  <2>1. Release("saved")
        BY <1>4 DEF FinishBackup
  <2> QED BY <1>s, <2>1, ReleaseTells DEF Outcomes
<1> QED BY <1>1, <1>2, <1>3, <1>4

\* The source becomes a standalone file without a change of its schema.
LEMMA CanonicalTells ==
    ASSUME Inv, TrueInv, Checkpoint \/ LeaveWal \/ RetakeGuard
    PROVE  Told' /\ FailureKeepsSource' /\ MigratedIsCurrent'
<1> USE DEF Guarded, Held, GuardGiven, Publishing, RollingBack, Saved
<1>0. job \in Jobs /\ Told /\ job.at \in GuardGiven /\ db \in Contents /\ staging' = staging
      BY DEF Inv, TypeOK, TrueInv, LockKept, Checkpoint, LeaveWal, RetakeGuard, store
<1>1. SchemaAt' = SchemaAt
  <2>1. db' \in {db, Checkpointed, [Checkpointed EXCEPT !.mode = "delete"]}
        BY DEF Checkpoint, LeaveWal, RetakeGuard, Write
  <2>2. Checkpointed \in Contents /\ Checkpointed.schema = db.schema
    <3>1. WalRows \subseteq Row
          BY DEF WalRows, Inv, TypeOK
    <3> QED BY <1>0, <3>1 DEF Checkpointed, Contents
  <2>3. /\ [Checkpointed EXCEPT !.mode = "delete"] \in Contents
        /\ [Checkpointed EXCEPT !.mode = "delete"].schema = db.schema
        BY <2>2 DEF Contents, Modes
  <2>4. db'.schema = db.schema /\ db' \in Contents
        BY <1>0, <2>1, <2>2, <2>3
  <2> QED BY <1>0, <2>4, ConfigAssumption DEF SchemaAt
<1>2. SourceKept
      BY <1>0 DEF Told
<1>3. CASE Release("failed")
      BY <1>1, <1>2, <1>3, ReleaseTells DEF Outcomes
<1>4. CASE \E at \in {"checkpointed", "standalone", "canonical"} :
              job' = [job EXCEPT !.at = at]
  <2>1. /\ job'.at \in {"checkpointed", "standalone", "canonical"}
        /\ job'.op = job.op /\ job'.source = job.source /\ job'.outcome = job.outcome
        /\ job'.snap = job.snap
        BY <1>0, <1>4 DEF Jobs
  <2>2. SourceKept'
        BY <1>1, <1>2, <2>1 DEF SourceKept
  <2>3. Told'
        BY <1>0, <2>1, <2>2 DEF Told
  <2> QED BY <2>1, <2>3, NothingSaid
<1> QED BY <1>3, <1>4 DEF Checkpoint, LeaveWal, RetakeGuard

\* The candidate of a migration has the current schema, and the publication does not
\* touch it.
LEMMA PublicationTells ==
    ASSUME Inv, TrueInv, Reserve \/ Replace \/ DropSidecars \/ SyncDirectory \/ Finish
    PROVE  Told' /\ FailureKeepsSource' /\ MigratedIsCurrent'
<1> USE DEF Guarded, Held, GuardGiven, Publishing, RollingBack, Saved
<1>0. job \in Jobs /\ Told /\ staging' = staging
      BY DEF Inv, TypeOK, TrueInv, Reserve, Replace, DropSidecars, SyncDirectory, Finish,
             store
<1>1. CASE Reserve /\ db # None
  <2>1. Release("failed") /\ SchemaAt' = SchemaAt /\ SourceKept
        BY <1>0, <1>1 DEF Reserve, SchemaAt, Told
  <2> QED BY <2>1, ReleaseTells DEF Outcomes
<1>2. CASE Reserve /\ db = None
  <2>1. /\ job.at = "canonical" /\ job.source = "absent"
        /\ job' = [job EXCEPT !.at = "reserved"]
        BY <1>2 DEF Reserve
  <2>2. /\ job'.at = "reserved" /\ job'.op = job.op /\ job'.source = "absent"
        /\ job'.outcome = job.outcome
        BY <1>0, <2>1 DEF Jobs
  <2>3. Told'
        BY <1>0, <2>1, <2>2 DEF Told
  <2> QED BY <2>2, <2>3, NothingSaid
<1>3. CASE Replace
  <2>1. /\ job.at \in {"reserved", "canonical"} /\ db' = Candidate
        /\ job' = [job EXCEPT !.at = "published"]
        BY <1>3 DEF Replace, PutInPlace
  <2>2. /\ job'.at = "published" /\ job'.op = job.op /\ job'.source = job.source
        /\ job'.outcome = job.outcome /\ job'.snap = job.snap
        BY <1>0, <2>1 DEF Jobs
  <2>3. Candidate \in Contents /\ (job.op = "migrate" => Candidate.schema = "current")
        BY <1>0 DEF Candidate, Jobs, Contents, Schemas, Modes
  <2>4. job.op = "migrate" => SchemaAt' = "current"
        BY <2>1, <2>3, ConfigAssumption DEF SchemaAt
  <2>5. Told'
        BY <1>0, <2>1, <2>2, <2>4 DEF Told
  <2> QED BY <2>2, <2>5, NothingSaid
<1>4. CASE DropSidecars \/ SyncDirectory
  <2>1. /\ job.at \in {"published", "cleaned"} /\ SchemaAt' = SchemaAt
        /\ \E at \in {"cleaned", "durable"} : job' = [job EXCEPT !.at = at]
        BY <1>4 DEF DropSidecars, SyncDirectory, SchemaAt
  <2>2. /\ job'.at \in {"cleaned", "durable"} /\ job'.op = job.op
        /\ job'.source = job.source /\ job'.outcome = job.outcome /\ job'.snap = job.snap
        BY <1>0, <2>1 DEF Jobs
  <2>3. Told'
        BY <1>0, <2>1, <2>2 DEF Told
  <2> QED BY <2>2, <2>3, NothingSaid
<1>5. CASE Finish
  <2>1. /\ job.at = "durable" /\ SchemaAt' = SchemaAt
        /\ Release(IF job.op = "migrate" THEN "migrated" ELSE "restored")
        BY <1>5 DEF Finish, SchemaAt
  <2>2. job.op = "migrate" => SchemaAt = "current" /\ ~staging'
        BY <1>0, <2>1 DEF Told
  <2>3. CASE job.op = "migrate"
        BY <2>1, <2>2, <2>3, ReleaseTells DEF Outcomes
  <2>4. CASE job.op # "migrate"
        BY <2>1, <2>4, ReleaseTells DEF Outcomes
  <2> QED BY <2>3, <2>4
<1> QED BY <1>1, <1>2, <1>3, <1>4, <1>5

\* The rollback puts the schema of the snapshot back, which is that of the source, or
\* nothing where there was nothing.
LEMMA RollbackTells ==
    ASSUME Inv, TrueInv, RollbackSidecars \/ RollbackReplace \/ FinishRollback
    PROVE  Told' /\ FailureKeepsSource' /\ MigratedIsCurrent'
<1> USE DEF Guarded, Held, GuardGiven, Publishing, RollingBack, Saved
<1>0. job \in Jobs /\ Told /\ staging' = staging
      BY DEF Inv, TypeOK, TrueInv, RollbackSidecars, RollbackReplace, FinishRollback, store
<1>1. CASE RollbackSidecars
  <2>1. job.at = "rollback" /\ job' = [job EXCEPT !.at = "rolling"]
        BY <1>1 DEF RollbackSidecars
  <2>2. /\ job'.at = "rolling" /\ job'.source = job.source
        /\ job'.outcome = job.outcome /\ job'.snap = job.snap
        BY <1>0, <2>1 DEF Jobs
  <2>3. Told'
        BY <1>0, <2>1, <2>2 DEF Told
  <2> QED BY <2>2, <2>3, NothingSaid
<1>2. CASE RollbackReplace
  <2>1. /\ job.at = "rolling" /\ job' = [job EXCEPT !.at = "rolled"]
        /\ db' = IF job.source = "absent" THEN None ELSE [job.snap EXCEPT !.mode = "delete"]
        BY <1>2 DEF RollbackReplace, PutInPlace
  <2>2. /\ job'.at = "rolled" /\ job'.source = job.source
        /\ job'.outcome = job.outcome /\ job'.snap = job.snap
        BY <1>0, <2>1 DEF Jobs
  <2>3. job.source # "absent" => db' \in Contents /\ db'.schema = job.source
    <3>1. job.source # "absent" => job.snap.schema = job.source
          BY <1>0, <2>1 DEF Told
    <3>2. job.snap \in Contents
          BY <1>0 DEF Jobs
    <3> QED BY <2>1, <3>1, <3>2 DEF Contents, Modes
  <2>4. SourceKept'
        BY <2>1, <2>2, <2>3, ConfigAssumption DEF SourceKept, SchemaAt
  <2>5. Told'
        BY <1>0, <2>1, <2>2, <2>4 DEF Told
  <2> QED BY <2>2, <2>5, NothingSaid
<1>3. CASE FinishRollback
  <2>1. job.at = "rolled" /\ SchemaAt' = SchemaAt /\ SourceKept
        BY <1>0, <1>3 DEF FinishRollback, SchemaAt, Told
  <2>2. Release("recovery_required") \/ Release("failed")
        BY <1>3 DEF FinishRollback
  <2> QED BY <2>1, <2>2, ReleaseTells DEF Outcomes
<1> QED BY <1>1, <1>2, <1>3

\* The start says nothing; kills and power losses take back what was said; a failure before
\* the publication leaves the schema of the source, and one after it is rolled back.
LEMMA FaultsTell ==
    ASSUME Inv, TrueInv,
           (\E op \in Operations : Start(op)) \/ Fail \/ Kill \/ PowerLoss
    PROVE  Told' /\ FailureKeepsSource' /\ MigratedIsCurrent'
<1> USE DEF Guarded, Held, GuardGiven, Publishing, RollingBack, Saved
<1>0. job \in Jobs /\ Told
      BY DEF Inv, TypeOK, TrueInv
<1>1. ASSUME NEW op \in Operations, Start(op)
      PROVE  Told' /\ FailureKeepsSource' /\ MigratedIsCurrent'
  <2>1. ~(db = None /\ wal # None)
        BY DEF Inv, SidecarOwn
  <2>2. job'.at = "leased" /\ job'.source = "none" /\ job'.outcome = "none"
        BY <1>1, <2>1 DEF Start, NoWork
  <2>3. Told'
        BY <2>2 DEF Told
  <2> QED BY <2>2, <2>3, NothingSaid
<1>2. CASE Fail
  <2>1. SchemaAt' = SchemaAt
        BY <1>2 DEF Fail, SchemaAt
  <2>2. CASE job.at \in Before /\ Release("failed")
    <3>1. SourceKept \/ job.source = "none"
          BY <1>0, <2>2 DEF Told, Before
    <3> QED BY <2>1, <2>2, <3>1, ReleaseTells DEF Outcomes
  <2>3. CASE job.at \in Publishing /\ job' = [job EXCEPT !.at = "rollback"]
    <3>1. /\ job'.at = "rollback" /\ job'.source = job.source
          /\ job'.outcome = job.outcome /\ job'.snap = job.snap
          BY <1>0, <2>3 DEF Jobs
    <3>2. Told'
          BY <1>0, <2>3, <3>1 DEF Told
    <3> QED BY <3>1, <3>2, NothingSaid
  <2>4. CASE Release("recovery_required")
        BY <2>1, <2>4, ReleaseTells DEF Outcomes
  <2> QED BY <1>2, <2>2, <2>3, <2>4 DEF Fail
<1>3. CASE Kill
  <2>1. Release("crashed") /\ SchemaAt' = SchemaAt
        BY <1>3 DEF Kill, SchemaAt
  <2> QED BY <2>1, ReleaseTells DEF Outcomes
<1>4. CASE PowerLoss
  <2>1. job'.at = "idle" /\ job'.outcome = "crashed"
        BY <1>4 DEF PowerLoss, NoWork
  <2> QED BY <2>1 DEF Told, FailureKeepsSource, MigratedIsCurrent
<1> QED BY <1>1, <1>2, <1>3, <1>4

\* Other connections never change the schema, but may create an empty file where there was
\* none; not while a file of the coordinator has the name.
LEMMA ConnectionsTell ==
    ASSUME Inv, TrueInv, Connections
    PROVE  Told' /\ FailureKeepsSource' /\ MigratedIsCurrent'
<1>0. job \in Jobs /\ Told /\ FailureKeepsSource /\ MigratedIsCurrent
      BY DEF Inv, TypeOK, TrueInv
<1>1. /\ SchemaAt' = SchemaAt \/ (SchemaAt = "absent" /\ db = None /\ SchemaAt' = "empty")
      /\ staging' = staging
      /\ job' = job \/ \E c \in BOOLEAN : job' = [job EXCEPT !.changed = c]
  <2>1. PICK w \in Writer :
           \/ OpenDatabase(w) \/ BeginWrite(w) \/ EnterWal(w) \/ Leave(w)
           \/ \E r \in Row : CommitWrite(w, r)
        BY DEF Connections
  <2>2. CASE OpenDatabase(w)
    <3>1. Empty # None
          BY ConfigAssumption DEF Empty, Contents, Schemas, Modes
    <3> QED BY <2>2, <3>1 DEF OpenDatabase, SchemaAt, Empty, store
  <2>3. CASE BeginWrite(w) \/ Leave(w)
        BY <2>3 DEF BeginWrite, Leave, SchemaAt, store
  <2>4. CASE EnterWal(w)
    <3>1. db \in Contents
          BY <2>4 DEF EnterWal, Inv, TypeOK, ConnectionsAttached
    <3>2. db' \in Contents /\ db'.schema = db.schema
          BY <2>4, <3>1 DEF EnterWal, Write, Contents, Modes
    <3>3. SchemaAt' = SchemaAt
          BY <3>1, <3>2, ConfigAssumption DEF SchemaAt
    <3> QED BY <2>4, <3>3 DEF EnterWal, store
  <2>5. ASSUME NEW r \in Row, CommitWrite(w, r)
        PROVE  /\ SchemaAt' = SchemaAt /\ staging' = staging
               /\ \E c \in BOOLEAN : job' = [job EXCEPT !.changed = c]
    <3>1. db \in Contents
      <4>1. lock = w
            BY <2>5 DEF CommitWrite
      <4> QED BY <4>1 DEF Inv, TypeOK, ConnectionsAttached
    <3>2. db' \in Contents /\ db'.schema = db.schema
          BY <2>5, <3>1 DEF CommitWrite, Write, Contents
    <3>3. SchemaAt' = SchemaAt
          BY <3>1, <3>2, ConfigAssumption DEF SchemaAt
    <3> QED BY <2>5, <3>3 DEF CommitWrite, store
  <2> QED BY <2>1, <2>2, <2>3, <2>4, <2>5
<1>2. /\ job'.at = job.at /\ job'.op = job.op /\ job'.source = job.source
      /\ job'.outcome = job.outcome /\ job'.snap = job.snap
      BY <1>0, <1>1 DEF Jobs
<1>3. job.at \in Publishing => SchemaAt' = SchemaAt
  <2>1. job.at \in Publishing => db # None
        BY DEF Inv, LockKept, Publishing, RollingBack
  <2> QED BY <1>1, <2>1
<1>4. SourceKept => SourceKept'
  <2>1. job.at \in Guarded \union {"rolled"} => job.source \in Schemas \union {"absent"}
        BY DEF Inv, JobKnown, RollingBack
  <2>2. SchemaAt' # SchemaAt /\ SchemaAt = job.source => job.source = "absent"
        BY <1>1
  <2>3. SchemaAt' # SchemaAt => SchemaAt' = "empty"
        BY <1>1
  <2>4. SchemaAt = "empty" => SchemaAt' = "empty"
        BY <1>1
  <2> QED BY <1>2, <2>2, <2>3, <2>4 DEF SourceKept
<1>5. Told'
      BY <1>0, <1>1, <1>2, <1>3, <1>4 DEF Told
<1>6. FailureKeepsSource'
      BY <1>0, <1>2, <1>4 DEF FailureKeepsSource, SourceKept
<1>7. MigratedIsCurrent'
      BY <1>0, <1>1, <1>2 DEF MigratedIsCurrent
<1> QED BY <1>5, <1>6, <1>7

\* A list of distinct backups that gets another one stays distinct.
LEMMA DistinctAppend ==
    ASSUME NEW bs \in Seq(Backups), Distinct(bs), NEW b \in Backups, b \notin ToSet(bs)
    PROVE  Distinct(Append(bs, b))
<1> DEFINE cs == Append(bs, b)
<1>1. /\ Len(bs) \in Nat /\ DOMAIN cs = 1..(Len(bs) + 1) /\ cs[Len(bs) + 1] = b
      /\ \A i \in 1..Len(bs) : cs[i] = bs[i]
      OBVIOUS
<1>2. \A i \in 1..Len(bs) : bs[i] # b
      BY DEF ToSet
<1> HIDE DEF cs
<1>3. ASSUME NEW i \in DOMAIN cs, NEW j \in DOMAIN cs, cs[i] = cs[j]
      PROVE  i = j
  <2>1. CASE i \in 1..Len(bs) /\ j \in 1..Len(bs)
        BY <1>1, <1>3, <2>1 DEF Distinct
  <2>2. CASE i = Len(bs) + 1 \/ j = Len(bs) + 1
        BY <1>1, <1>2, <1>3, <2>2
  <2> QED BY <1>1, <2>1, <2>2
<1>4. Distinct(cs)
      BY <1>3 DEF Distinct
<1> QED BY <1>4 DEF cs

\* A list of distinct backups that loses the last one stays distinct.
LEMMA DistinctFront ==
    ASSUME NEW bs \in Seq(Backups), bs # <<>>, Distinct(bs)
    PROVE  Distinct(Front(bs))
<1> DEFINE cs == Front(bs)
<1>1. Len(bs) \in Nat /\ Len(bs) > 0
      BY EmptySeq
<1>2. \A i \in 1..(Len(bs) - 1) : bs[i] \in Backups
      BY <1>1
<1>3. DOMAIN cs = 1..(Len(bs) - 1) /\ \A i \in DOMAIN cs : cs[i] = bs[i]
      BY <1>1, <1>2, SubSeqProperties DEF Front
<1> HIDE DEF cs
<1>4. Distinct(cs)
      BY <1>1, <1>3 DEF Distinct
<1> QED BY <1>4 DEF cs

\* Only a backup that is not there yet is published, after a power loss that undid its
\* rename too.
LEMMA BackupsStayDistinct ==
    ASSUME Inv, TrueInv, [Next]_vars
    PROVE  BackupsDistinct'
<1>0. /\ job \in Jobs /\ backups \in Seq(Backups)
      /\ synced \in [db : Contents \union {None}, backups : Seq(Backups)]
      /\ Distinct(backups) /\ Distinct(synced.backups)
      BY DEF Inv, TypeOK, TrueInv, BackupsDistinct
<1>1. CASE RenameBackup
  <2>1. /\ job.at = "staged" /\ backups' = Append(backups, BackupOf(job.snap))
        /\ synced' = synced /\ job'.at = "saved"
        BY <1>0, <1>1 DEF RenameBackup, Jobs
  <2>2. BackupOf(job.snap) \in Backups
        BY <2>1 DEF BackupOf, Backups, Purpose, Inv, TypeOK, JobKnown, Jobs, Contents,
                    OperationNames
  <2>3. BackupOf(job.snap) \notin ToSet(backups)
        BY <2>1 DEF TrueInv, BackupsDistinct
  <2>4. Distinct(backups')
        BY <1>0, <2>1, <2>2, <2>3, DistinctAppend
  <2> QED BY <1>0, <2>1, <2>4 DEF BackupsDistinct
<1>2. CASE StageBackup
  <2>1. /\ backups' = backups /\ synced'.backups \in {backups, synced.backups}
        BY <1>0, <1>2 DEF StageBackup, SyncedWith
  <2>2. job'.at = "staged" => BackupOf(job.snap) \notin ToSet(backups)
        BY <1>0, <1>2 DEF StageBackup, Jobs
  <2>3. job'.snap = job.snap /\ job'.op = job.op
        BY <1>0, <1>2 DEF StageBackup, Jobs
  <2>4. BackupOf(job.snap)' = BackupOf(job.snap)
        BY <2>3 DEF BackupOf
  <2> QED BY <1>0, <2>1, <2>2, <2>4 DEF BackupsDistinct
<1>3. CASE Fail
  <2>1. \/ backups' = backups /\ synced'.backups = synced.backups
        \/ backups' = backups /\ synced'.backups = backups'
        \/ job.at = "saved" /\ backups' = Front(backups) /\ synced'.backups = backups'
        BY <1>0, <1>3 DEF Fail, SyncedWith, store
  <2>2. job.at = "saved" => backups # <<>>
        BY DEF Inv, JobKnown
  <2>3. Distinct(backups') /\ Distinct(synced'.backups)
        BY <1>0, <2>1, <2>2, DistinctFront
  <2>4. job'.at # "staged"
        BY <1>0, <1>3 DEF Fail, Release, NoWork, Jobs
  <2> QED BY <2>3, <2>4 DEF BackupsDistinct
<1>4. CASE PowerLoss
  <2>1. /\ backups' \in {backups, synced.backups} /\ synced'.backups = backups'
        /\ job'.at = "idle"
        BY <1>4 DEF PowerLoss, NoWork
  <2> QED BY <1>0, <2>1 DEF BackupsDistinct
<1>5. CASE (\E op \in Operations : Start(op)) \/ TakeGuard \/ TakeSnapshot \/ FinishBackup
           \/ ReleaseGuard \/ Kill
  <2>1. backups' = backups /\ synced' = synced /\ job'.at # "staged"
    <3>1. ASSUME NEW op \in Operations, Start(op)
          PROVE  backups' = backups /\ synced' = synced /\ job'.at # "staged"
          BY <3>1 DEF Start, store, NoWork
    <3>2. CASE TakeGuard \/ TakeSnapshot \/ FinishBackup \/ ReleaseGuard \/ Kill
          BY <1>0, <3>2 DEF TakeGuard, TakeSnapshot, FinishBackup, ReleaseGuard, Kill,
             Release, NoWork, store, Jobs
    <3> QED BY <1>5, <3>1, <3>2
  <2> QED BY <1>0, <2>1 DEF BackupsDistinct
<1>6. CASE SyncBackup \/ Checkpoint \/ LeaveWal \/ RetakeGuard
  <2>1. /\ backups' = backups /\ synced'.backups \in {backups, synced.backups}
        /\ job'.at # "staged"
        BY <1>0, <1>6 DEF SyncBackup, SyncedWith, Checkpoint, LeaveWal, RetakeGuard,
           Write, Release, NoWork, store, Jobs
  <2> QED BY <1>0, <2>1 DEF BackupsDistinct
<1>7. CASE Reserve \/ Replace \/ DropSidecars \/ SyncDirectory \/ Finish
           \/ RollbackSidecars \/ RollbackReplace \/ FinishRollback
  <2>1. /\ backups' = backups /\ synced'.backups = synced.backups /\ job'.at # "staged"
        BY <1>0, <1>7 DEF Reserve, Replace, DropSidecars, SyncDirectory, Finish,
           RollbackSidecars, RollbackReplace, FinishRollback, Release, NoWork, store, Jobs
  <2> QED BY <1>0, <2>1 DEF BackupsDistinct
<1>8. CASE Connections \/ UNCHANGED vars
  <2>1. /\ backups' = backups /\ synced'.backups = synced.backups
        /\ job'.at = job.at /\ job'.snap = job.snap /\ job'.op = job.op
        BY <1>0, <1>8 DEF Connections, OpenDatabase, BeginWrite, EnterWal, Leave,
           CommitWrite, Write, store, vars, Jobs
  <2>2. BackupOf(job.snap)' = BackupOf(job.snap)
        BY <2>1 DEF BackupOf
  <2> QED BY <1>0, <2>1, <2>2 DEF TrueInv, BackupsDistinct
<1> QED BY <1>1, <1>2, <1>3, <1>4, <1>5, <1>6, <1>7, <1>8 DEF Next, Coordinate

\* OutcomesTrue: a call that failed has left the schema it found, unless it asks for
\* recovery; one that reports success has left the current schema and no staging; and no
\* backup is a copy of another, through failures, kills and power losses at any step.
THEOREM OutcomesStayTrue == Spec => []OutcomesTrue
<1>1. Init => TrueInv
  <2> SUFFICES ASSUME Init PROVE TrueInv
      OBVIOUS
  <2>1. job = NoWork
      BY DEF Init
  <2>1a. /\ synced.backups = backups
         /\ backups = <<>> \/ \E m \in Sources : backups = <<Earlier(m)>>
      BY DEF Init
  <2>2. Told /\ FailureKeepsSource /\ MigratedIsCurrent
      BY <2>1 DEF NoWork, Told, FailureKeepsSource, MigratedIsCurrent, Guarded, Held,
         GuardGiven, Publishing, RollingBack, Saved
  <2>3. BackupsDistinct
      BY <2>1, <2>1a DEF NoWork, BackupsDistinct, Distinct
  <2> QED BY <2>2, <2>3 DEF TrueInv
<1>2. Inv /\ TrueInv /\ [Next]_vars => TrueInv'
  <2> SUFFICES ASSUME Inv, TrueInv, [Next]_vars PROVE TrueInv'
      OBVIOUS
  <2>1. BackupsDistinct'
      BY BackupsStayDistinct
  <2>2. Told' /\ FailureKeepsSource' /\ MigratedIsCurrent'
    <3>1. CASE Coordinate
        BY <3>1, PreparationTells, CanonicalTells, PublicationTells, RollbackTells
        DEF Coordinate
    <3>2. CASE UNCHANGED vars
      <4>1. job' = job /\ db' = db /\ staging' = staging
          BY <3>2 DEF vars, store
      <4> QED BY <4>1 DEF TrueInv, Told, FailureKeepsSource, MigratedIsCurrent,
                 SourceKept, SchemaAt
    <3> QED BY <3>1, <3>2, FaultsTell, ConnectionsTell DEF Next
  <2> QED BY <2>1, <2>2 DEF TrueInv
<1>3. Inv /\ TrueInv => OutcomesTrue
  BY DEF Inv, TrueInv, BackupsDistinct, Distinct, NoTwinBackups, OutcomesTrue
<1> QED BY Inductive, <1>1, <1>2, <1>3, PTL DEF Spec
=============================================================================
