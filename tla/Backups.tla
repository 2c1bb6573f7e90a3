------------------------------ MODULE Backups ------------------------------
(***************************************************************************)
(* Database backups (src/app/services/backup_service.py): jobs created by  *)
(* the schedule or the panel, run one at a time by the worker              *)
(* (process_backups_once, src/app/workers/main.py), pruned after every     *)
(* success, and deleted or restored from the panel                         *)
(* (src/app/panel/routes/backups.py).  A dump holds the table of jobs as   *)
(* it was when the dump was taken, so restoring it turns the table back.   *)
(***************************************************************************)
EXTENDS Naturals, FiniteSets

CONSTANTS MaxBackups,      \* bound: backup jobs and dumps
          MaxKeep,         \* the settings of backup_keep to look at: 0..MaxKeep
          DefaultKeep,     \* DEFAULT_BACKUP_KEEP
          MaxBackupTrouble \* bound: deaths of the worker, restores and changes of settings

ASSUME BackupsAreBounded == MaxBackups \in Nat /\ MaxKeep \in Nat \ {0} /\ MaxBackupTrouble \in Nat

VARIABLES bkRow,     \* backup_jobs: [id -> [status, file]], file 0 = no file_path
          bkNextId,  \* the sequence of its ids
          bkDisk,    \* BACKUP_DIR: the files, numbered as they were made
          bkDump,    \* what the files made so far are: the job in their name, and what
                     \* they hold of rows, sequence and settings
          bkSettings, \* the rows backup_schedule and backup_keep of bot_settings, or Unset
          bkAsked,   \* history: the settings the panel was asked for last
          bkWorker,  \* the worker's turn
          bkRemoval, \* jobs that are being deleted, by the pruning or the panel: loaded
                     \* with their file_path; gone: the file is removed
          bkRestore, \* the file the panel restores just now, or 0
          bkExcused, \* history: files that came at odds with the rows: a dump failed, the
                     \* worker or a deletion died, a job was deleted while it ran, a restore
          bkStuck,   \* history: running jobs the worker was torn away from
          bkTrouble  \* history: deaths, restores and changes of settings

bkVars == <<bkRow, bkNextId, bkDisk, bkDump, bkSettings, bkAsked, bkWorker, bkRemoval,
            bkRestore, bkExcused, bkStuck, bkTrouble>>

BackupIds == 1..MaxBackups
BackupRow == [status : {"pending", "running", "success", "failed"}, file : 0..MaxBackups]
Tables == UNION {[ids -> BackupRow] : ids \in SUBSET BackupIds}
BackupTurn == [at : {"idle", "scheduled", "starting", "dumping", "dumped", "refused", "pruning",
                     "removing"},
               id : 0..MaxBackups, file : 0..MaxBackups]
Removal == [id : BackupIds, file : 0..MaxBackups, by : {"worker", "panel"}, gone : BOOLEAN]
NoBackup == [at |-> "idle", id |-> 0, file |-> 0]
NoRows == [i \in {} |-> NoBackup]
Settings == [schedule : {"off", "on"}, keep : 1..MaxKeep]
Unset == [schedule |-> "unset", keep |-> 0]
Dump == [job : BackupIds, rows : Tables, next : 1..(MaxBackups + 1), settings : Settings \cup {Unset}]

BackupsTypeOK ==
  /\ bkRow \in Tables
  /\ bkNextId \in 1..(MaxBackups + 1)
  /\ bkDisk \subseteq DOMAIN bkDump
  /\ DOMAIN bkDump \subseteq BackupIds
  /\ \A f \in DOMAIN bkDump : bkDump[f] \in Dump
  /\ bkSettings \in Settings \cup {Unset} /\ bkAsked \in Settings \cup {Unset}
  /\ bkWorker \in BackupTurn
  /\ bkRemoval \subseteq Removal
  /\ bkRestore \in {0} \cup DOMAIN bkDump
  /\ bkExcused \subseteq BackupIds /\ bkStuck \subseteq BackupIds
  /\ bkTrouble \in 0..MaxBackupTrouble

BackupsInit ==
  /\ bkRow = NoRows /\ bkNextId = 1
  /\ bkDisk = {} /\ bkDump = <<>>
  /\ bkSettings \in {Unset, [schedule |-> "on", keep |-> MaxKeep]} /\ bkAsked = bkSettings
  /\ bkWorker = NoBackup /\ bkRemoval = {} /\ bkRestore = 0
  /\ bkExcused = {} /\ bkStuck = {} /\ bkTrouble = 0

Put(rows, i, r) == [k \in (DOMAIN rows) \cup {i} |-> IF k = i THEN r ELSE rows[k]]
Without(rows, ids) == [k \in (DOMAIN rows) \ ids |-> rows[k]]
Named(rows) == {rows[i].file : i \in DOMAIN rows}
FilesOf(ids) == {bkRow[i].file : i \in ids}
BackupTrouble == bkTrouble < MaxBackupTrouble /\ bkTrouble' = bkTrouble + 1

-----------------------------------------------------------------------------
\* A second row of one number, which a half-restored table without its primary key
\* would take, is left out.
CreateBackup ==
  /\ bkNextId \in BackupIds \ DOMAIN bkRow
  /\ bkRow' = Put(bkRow, bkNextId, [status |-> "pending", file |-> 0])
  /\ bkNextId' = bkNextId + 1

\* POST /api/v1/backups, under the tenant of the login.  The panel's own button runs
\* under ALL_TENANTS, where no row of a tenant can be inserted: it raises.
BackupsTrigger ==
  /\ CreateBackup
  /\ UNCHANGED <<bkDisk, bkDump, bkSettings, bkAsked, bkWorker, bkRemoval, bkRestore,
                 bkExcused, bkStuck, bkTrouble>>

\* The panel's settings, under ALL_TENANTS too: rows that are there (left by a panel
\* from before the tenants) are updated, new ones are refused.  One backup is kept.
BackupsSettings ==
  /\ \E schedule \in {"off", "on"}, keep \in 0..MaxKeep :
       bkAsked' = [schedule |-> schedule, keep |-> IF keep < 1 THEN 1 ELSE keep]
  /\ BackupTrouble
  /\ bkSettings' = IF bkSettings = Unset THEN Unset ELSE bkAsked'
  /\ UNCHANGED <<bkRow, bkNextId, bkDisk, bkDump, bkWorker, bkRemoval, bkRestore, bkExcused,
                 bkStuck>>

Keep == IF bkSettings = Unset THEN DefaultKeep ELSE bkSettings.keep

-----------------------------------------------------------------------------
(* process_backups_once. *)

\* due_scheduled: nothing, or a job of the schedule's.
BeginBackupTurn ==
  /\ bkWorker = NoBackup
  /\ bkWorker' = [NoBackup EXCEPT !.at = "scheduled"]
  /\ (bkSettings.schedule = "on" /\ CreateBackup) \/ UNCHANGED <<bkRow, bkNextId>>
  /\ UNCHANGED <<bkDisk, bkDump, bkSettings, bkAsked, bkRemoval, bkRestore, bkExcused,
                 bkStuck, bkTrouble>>

PendingBackups == {i \in DOMAIN bkRow : bkRow[i].status = "pending"}

\* next_pending: the oldest, if there is one.
NextPending ==
  /\ bkWorker.at = "scheduled"
  /\ \/ PendingBackups = {} /\ bkWorker' = NoBackup
     \/ \E i \in PendingBackups :
          /\ \A k \in PendingBackups : i <= k
          /\ bkWorker' = [at |-> "starting", id |-> i, file |-> 0]
  /\ UNCHANGED <<bkRow, bkNextId, bkDisk, bkDump, bkSettings, bkAsked, bkRemoval, bkRestore,
                 bkExcused, bkStuck, bkTrouble>>

\* The commit of a job: of the file it named before, if any, no row is left.  An update
\* whose row is gone raises: the turn ends, its dump stays on disk.
CommitBackup(status, file, next) ==
  LET i == bkWorker.id IN
  IF i \in DOMAIN bkRow
  THEN /\ bkRow' = [bkRow EXCEPT ![i] = [status |-> status, file |-> file]]
       /\ bkExcused' = bkExcused \cup ({bkRow[i].file} \ {0, file})
       /\ bkWorker' = next
  ELSE /\ bkExcused' = bkExcused \cup ({bkWorker.file} \ {0})
       /\ bkWorker' = NoBackup
       /\ UNCHANGED bkRow

\* run_job marks the job running.
StartBackup ==
  /\ bkWorker.at = "starting"
  /\ CommitBackup("running", bkRow[bkWorker.id].file, [bkWorker EXCEPT !.at = "dumping"])
  /\ bkStuck' = bkStuck \ {bkWorker.id}
  /\ UNCHANGED <<bkNextId, bkDisk, bkDump, bkSettings, bkAsked, bkRemoval, bkRestore,
                 bkTrouble>>

\* pg_dump opens a new file: its name holds the number of the job.
MakeFile(f) ==
  /\ f = Cardinality(DOMAIN bkDump) + 1
  /\ bkDisk' = bkDisk \cup {f}
  /\ bkDump' = Put(bkDump, f, [job |-> bkWorker.id, rows |-> bkRow, next |-> bkNextId,
                               settings |-> bkSettings])

\* pg_dump wrote the rows of that moment.
DumpDatabase ==
  /\ bkWorker.at = "dumping"
  /\ \E f \in BackupIds : MakeFile(f) /\ bkWorker' = [bkWorker EXCEPT !.at = "dumped", !.file = f]
  /\ UNCHANGED <<bkRow, bkNextId, bkSettings, bkAsked, bkRemoval, bkRestore, bkExcused,
                 bkStuck, bkTrouble>>

\* What a pg_dump that fails or is killed leaves: nothing, or a part of a file.
TornDump ==
  \/ UNCHANGED <<bkDisk, bkDump, bkExcused>>
  \/ \E f \in BackupIds : MakeFile(f) /\ bkExcused' = bkExcused \cup {f}

\* The directory or pg_dump fails.
DumpFails ==
  /\ bkWorker.at = "dumping" /\ TornDump
  /\ bkWorker' = [bkWorker EXCEPT !.at = "refused"]
  /\ UNCHANGED <<bkRow, bkNextId, bkSettings, bkAsked, bkRemoval, bkRestore, bkStuck,
                 bkTrouble>>

RecordBackup ==
  /\ \/ /\ bkWorker.at = "dumped"
        /\ CommitBackup("success", bkWorker.file, [NoBackup EXCEPT !.at = "pruning"])
     \/ /\ bkWorker.at = "refused"
        /\ CommitBackup("failed", bkRow[bkWorker.id].file, NoBackup)
  /\ UNCHANGED <<bkNextId, bkDisk, bkDump, bkSettings, bkAsked, bkRemoval, bkRestore,
                 bkStuck, bkTrouble>>

-----------------------------------------------------------------------------
(* Removing a job: its file first, its row at the commit. *)

Loaded(i, who) == [id |-> i, file |-> bkRow[i].file, by |-> who, gone |-> FALSE]
Gone(r) == [id |-> r.id, file |-> r.file, by |-> r.by, gone |-> TRUE]
FilesGone(rs) == {r.file : r \in {q \in rs : q.gone}}

\* The commit.  A row that is gone already is passed over; one that has got another
\* file since it was loaded leaves that behind.
RowsGo(rs) ==
  LET ids == {r.id : r \in rs} IN
  /\ bkRow' = Without(bkRow, ids)
  /\ bkRemoval' = bkRemoval \ rs
  /\ bkExcused' = bkExcused \cup (FilesOf(ids \cap DOMAIN bkRow) \ ({0} \cup {r.file : r \in rs}))

\* The process ends before it: the files that are removed are missed by their rows.
RemovalEnds(rs) ==
  /\ bkRemoval' = bkRemoval \ rs
  /\ bkExcused' = bkExcused \cup (FilesGone(rs) \ {0})

Succeeded == {i \in DOMAIN bkRow : bkRow[i].status = "success"}
TooOld == {i \in Succeeded : Cardinality({k \in Succeeded : k > i}) >= Keep}
Pruned == {r \in bkRemoval : r.by = "worker"}

\* prune loads the successes and passes over the newest.
PruneSelect ==
  /\ bkWorker.at = "pruning"
  /\ bkWorker' = [NoBackup EXCEPT !.at = "removing"]
  /\ bkRemoval' = bkRemoval \cup {Loaded(i, "worker") : i \in TooOld}
  /\ UNCHANGED <<bkRow, bkNextId, bkDisk, bkDump, bkSettings, bkAsked, bkRestore, bkExcused,
                 bkStuck, bkTrouble>>

\* Mutant: the files of the older backups stay.
PruneFile_Stays ==
  /\ bkWorker.at = "removing"
  /\ \E r \in Pruned : ~ r.gone /\ bkRemoval' = (bkRemoval \ {r}) \cup {Gone(r)}
  /\ UNCHANGED <<bkRow, bkNextId, bkDisk, bkDump, bkSettings, bkAsked, bkWorker, bkRestore,
                 bkExcused, bkStuck, bkTrouble>>

\* The files go one by one, from the newest to the oldest.
PruneFile ==
  /\ bkWorker.at = "removing"
  /\ \E r \in Pruned :
       /\ ~ r.gone /\ \A q \in Pruned : ~ q.gone => q.id <= r.id
       /\ bkDisk' = bkDisk \ {r.file}
       /\ bkRemoval' = (bkRemoval \ {r}) \cup {Gone(r)}
  /\ UNCHANGED <<bkRow, bkNextId, bkDump, bkSettings, bkAsked, bkWorker, bkRestore,
                 bkExcused, bkStuck, bkTrouble>>

PruneCommit ==
  /\ bkWorker.at = "removing" /\ \A r \in Pruned : r.gone
  /\ RowsGo(Pruned)
  /\ bkWorker' = NoBackup
  /\ UNCHANGED <<bkNextId, bkDisk, bkDump, bkSettings, bkAsked, bkRestore, bkStuck, bkTrouble>>

\* The worker dies, or its commit raises: nothing looks at running jobs again, and of
\* what it pruned the files that are removed stay removed.
BackupWorkerDies ==
  /\ bkWorker # NoBackup /\ BackupTrouble
  /\ bkWorker' = NoBackup
  /\ bkStuck' = IF bkWorker.at \in {"dumping", "dumped", "refused"} THEN bkStuck \cup {bkWorker.id}
                ELSE bkStuck
  /\ CASE bkWorker.at = "dumping" -> TornDump /\ UNCHANGED bkRemoval
       [] bkWorker.at = "dumped" -> /\ bkExcused' = bkExcused \cup {bkWorker.file}
                                    /\ UNCHANGED <<bkDisk, bkDump, bkRemoval>>
       [] OTHER -> RemovalEnds(Pruned) /\ UNCHANGED <<bkDisk, bkDump>>
  /\ UNCHANGED <<bkRow, bkNextId, bkSettings, bkAsked, bkRestore>>

-----------------------------------------------------------------------------
(* The panel. *)

\* delete_job: any job, the running one included.
DeleteFile(i) ==
  /\ i \in DOMAIN bkRow
  /\ bkDisk' = bkDisk \ FilesOf({i})
  /\ bkRemoval' = bkRemoval \cup {Gone(Loaded(i, "panel"))}
  /\ UNCHANGED <<bkRow, bkNextId, bkDump, bkSettings, bkAsked, bkWorker, bkRestore,
                 bkExcused, bkStuck, bkTrouble>>

DeleteRow(r) ==
  /\ r.by = "panel" /\ RowsGo({r})
  /\ UNCHANGED <<bkNextId, bkDisk, bkDump, bkSettings, bkAsked, bkWorker, bkRestore, bkStuck,
                 bkTrouble>>

\* The API dies, or its commit raises.
DeletionDies(r) ==
  /\ r.by = "panel" /\ BackupTrouble /\ RemovalEnds({r})
  /\ UNCHANGED <<bkRow, bkNextId, bkDisk, bkDump, bkSettings, bkAsked, bkWorker, bkRestore,
                 bkStuck>>

\* From the panel; DELETE /api/v1/backups does the same.
BackupsDelete(i) == DeleteFile(i)

\* A restore begins: the job succeeded, its file is there, its name was typed.
BackupsRestore(i) ==
  /\ bkRestore = 0 /\ BackupTrouble
  /\ i \in Succeeded /\ bkRow[i].file \in bkDisk
  /\ bkRestore' = bkRow[i].file
  /\ UNCHANGED <<bkRow, bkNextId, bkDisk, bkDump, bkSettings, bkAsked, bkWorker, bkRemoval,
                 bkExcused, bkStuck>>

\* The table of a dump: the files are those of today, and of the jobs that ran when it
\* was taken, the dump's own among them, the worker runs none.
TurnsBack(rows, next, settings) ==
  /\ bkRow' = rows /\ bkNextId' = next /\ bkSettings' = settings /\ bkAsked' = settings
  /\ bkExcused' = bkExcused \cup (bkDisk \ (Named(rows) \cup {bkWorker.file}))
                            \cup (Named(rows) \ (bkDisk \cup {0}))
  /\ bkStuck' = bkStuck \cup {i \in DOMAIN rows : rows[i].status = "running"}

\* psql is through: rows, sequence and settings are those of the dump.  The worker goes
\* on to write the row that has the number of its job now.
RestoreDone ==
  LET dump == bkDump[bkRestore] IN
  /\ bkRestore # 0 /\ bkRestore' = 0
  /\ TurnsBack(dump.rows, dump.next, dump.settings)
  /\ UNCHANGED <<bkDisk, bkDump, bkWorker, bkRemoval, bkTrouble>>

\* psql stops at an error, and every statement before it has been committed: none; the
\* tables were made anew; the rows came back; the settings too, and not the sequence.
RestoreFails ==
  LET dump == bkDump[bkRestore] IN
  /\ bkRestore # 0 /\ bkRestore' = 0
  /\ \/ UNCHANGED <<bkRow, bkNextId, bkSettings, bkAsked, bkExcused, bkStuck>>
     \/ TurnsBack(NoRows, 1, Unset)
     \/ TurnsBack(dump.rows, 1, Unset)
     \/ TurnsBack(dump.rows, 1, dump.settings)
  /\ UNCHANGED <<bkDisk, bkDump, bkWorker, bkRemoval, bkTrouble>>

-----------------------------------------------------------------------------
BackupsNext ==
  \/ BackupsTrigger \/ BackupsSettings
  \/ BeginBackupTurn \/ NextPending \/ StartBackup \/ DumpDatabase \/ DumpFails \/ RecordBackup
  \/ PruneSelect \/ PruneFile \/ PruneCommit \/ BackupWorkerDies
  \/ RestoreDone \/ RestoreFails
  \/ \E i \in BackupIds : BackupsDelete(i) \/ BackupsRestore(i)
  \/ \E r \in bkRemoval : DeleteRow(r) \/ DeletionDies(r)

BackupsSpec == BackupsInit /\ [][BackupsNext]_bkVars

-----------------------------------------------------------------------------
\* Rows, files and the worker agree, although prune and delete_job remove files before
\* the rows are gone and the worker, the panel and a restore act in any order: the file
\* of a success is there or about to go with its row, a file on disk has its row or is
\* being made, a running job is being run.  What disagrees for good has a cause of its
\* own: a failed dump, a death, the deletion of the job just run, or a restore.
BackupsAddUp ==
  /\ \A i \in Succeeded :
       bkRow[i].file \in bkDisk \cup bkExcused \cup FilesGone(bkRemoval)
  /\ bkDisk \subseteq FilesOf(DOMAIN bkRow) \cup bkExcused \cup {bkWorker.file}
  /\ \A i \in DOMAIN bkRow : bkRow[i].status = "running" => bkWorker.id = i \/ i \in bkStuck

\* docs/LAUNCH_READINESS.md has the operator enable the schedule, with retention, in
\* the panel.  Where its rows do not exist yet, the panel cannot create them.
ScheduleIsEnabled == bkAsked = bkSettings
=============================================================================
