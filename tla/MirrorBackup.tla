----------------------------- MODULE MirrorBackup -----------------------------
(* internal/media/catalog.go: how one media item of one album with a backup   *)
(* binding is scanned, uploaded, backed up and mirror-deleted.                *)
(*                                                                            *)
(* The items of an album share only the album row and the workers, so one     *)
(* item shows what happens to each.  An action is one SQL statement or one    *)
(* call of a storage provider (adjacent reads are one action); everything the *)
(* code read earlier is kept in op and may be stale when it is used.          *)
(*                                                                            *)
(* Abstractions.  The content of a file is its fingerprint, a number; 0 is    *)
(* no file.  A Put or Delete takes effect at once or not at all.  The queue   *)
(* is JobStates: a job is claimed when it is pending (and due), and an error  *)
(* leaves it pending or failed, the attempts being JobQueue's matter.  Every  *)
(* scan has a dedupe key of its own (the minute it was asked for in).         *)
(*                                                                            *)
(* Bounds: Versions of the file, MaxTime on the clock, MaxEdits, MaxScans,    *)
(* MaxUploads, MaxAdmin and MaxFaults on the number of these events.          *)
EXTENDS JobStates, Integers, FiniteSetsExt

CONSTANTS
  Workers,       \* the workers of the queue
  Admin, Upload, \* two HTTP requests at a time: one of the administrator, one upload
  Versions,      \* fingerprints 1..Versions
  Grace,         \* Config.MirrorDeletionGrace
  StartModes,    \* albums.backup_mode to begin with
  StartFiles,    \* the file in the primary storage to begin with
  Restores,      \* may the file come back with a fingerprint it had before?
  AdminOps,      \* what the administrator does: subset of AdminOp
  SyncOnUpload,  \* albums.sync_on_upload
  FaultKinds,    \* the faults that may happen: "crash", "error", "auth"
  MaxTime, MaxEdits, MaxScans, MaxUploads, MaxAdmin, MaxFaults

AdminOp == {"cancel", "resume", "mode", "enable", "remove"}

ASSUME MirrorAssumption ==
  /\ Admin \notin Workers /\ Upload \notin Workers /\ Admin # Upload
  /\ Versions \in Nat \ {0}
  /\ Grace \in Nat \ {0}
  /\ StartModes \subseteq {"safe", "mirror"}
  /\ StartFiles \subseteq {0, 1}
  /\ Restores \in BOOLEAN /\ SyncOnUpload \in BOOLEAN
  /\ AdminOps \subseteq AdminOp
  /\ FaultKinds \subseteq {"crash", "error", "auth"}
  /\ {MaxTime, MaxEdits, MaxScans, MaxUploads, MaxAdmin, MaxFaults} \subseteq Nat

VARIABLES
  \* the two storages
  primary, backup,
  \* the row of media_items: source_version (0: no row), missing_scans (2: two
  \* or more), first_missing_at, delete_suppressed
  indexed, missing, firstMissing, suppressed,
  \* the row of media_replicas: status ("none": no row) and source_version
  replica, copied,
  \* the row of albums: backup_mode, backup_enabled, removed_at
  mode, enabled, removed,
  \* the rows of jobs: backup:<media>:<version>, mirror-delete:<media> and the
  \* latter's next_run_at
  backupJob, mirrorJob, mirrorAt,
  \* what each worker and each request is doing
  op,
  \* time, fingerprints in use, and the events counted for the bounds
  clock, used, spent,
  \* history: complete walks that did not find the file since it was last
  \* indexed, the time of the first of them, and whether the album ever mirrored
  absences, absentSince, everMirror

media   == <<indexed, missing, firstMissing, suppressed>>
copy    == <<replica, copied>>
album   == <<mode, enabled, removed>>
jobs    == <<backupJob, mirrorJob, mirrorAt>>
files   == <<primary, backup>>
world   == <<clock, used, spent>>
history == <<absences, absentSince, everMirror>>
vars    == <<files, media, copy, album, jobs, op, world, history>>

Actors == Workers \cup {Admin, Upload}
NoTime == -1 - Grace   \* NULL in a column of times

\* kind: what is being done; at: the next statement; the rest: what was read.
Idle == [kind |-> "none", at |-> "idle", mode |-> "safe", enabled |-> FALSE,
         obj |-> 0, count |-> 0, first |-> NoTime]

Init ==
  /\ primary \in StartFiles /\ backup = 0
  /\ indexed = 0 /\ missing = 0 /\ firstMissing = NoTime /\ suppressed = FALSE
  /\ replica = "none" /\ copied = 0
  /\ mode \in StartModes /\ enabled = TRUE /\ removed = FALSE
  /\ backupJob = [v \in 1..Versions |-> "absent"]
  /\ mirrorJob = "absent" /\ mirrorAt = 0
  /\ op = [a \in Actors |-> Idle]
  /\ clock = 0 /\ used = primary
  /\ spent = [e \in {"edit", "scan", "upload", "admin", "fault"} |-> 0]
  /\ absences = 0 /\ absentSince = NoTime /\ everMirror = (mode = "mirror")

\* The album as Service.GetAlbum read it.
Began(kind, place, obj) ==
  [Idle EXCEPT !.kind = kind, !.at = place, !.mode = mode, !.enabled = enabled, !.obj = obj]

Does(a, place)   == op[a].at = place
Goto(a, place)   == op' = [op EXCEPT ![a].at = place]
Become(a, o)     == op' = [op EXCEPT ![a] = o]
Spend(event, max) ==
  /\ spent[event] < max
  /\ spent' = [spent EXCEPT ![event] = @ + 1]
  /\ UNCHANGED <<clock, used>>

-------------------------------------------------------------------------------
(* The world outside *)

Tick ==
  /\ clock < MaxTime
  /\ clock' = clock + 1
  /\ UNCHANGED <<files, media, copy, album, jobs, op, used, spent, history>>

\* Somebody adds, changes, deletes or restores the file in the primary storage.
NewContents == {0} \cup (IF used < Versions THEN {used + 1} ELSE {})
                   \cup (IF Restores THEN 1..used ELSE {})

Edit(v) ==
  /\ v # primary
  /\ spent["edit"] < MaxEdits
  /\ primary' = v
  /\ used' = Max({used, v})
  /\ spent' = [spent EXCEPT !["edit"] = @ + 1]
  /\ UNCHANGED <<backup, media, copy, album, jobs, op, clock, history>>

-------------------------------------------------------------------------------
(* Service.Scan *)

ScanBegin(w) ==
  /\ Does(w, "idle") /\ ~removed
  /\ Spend("scan", MaxScans)
  /\ Become(w, Began("scan", "listing", 0))
  /\ UNCHANGED <<files, media, copy, album, jobs, history>>

\* walkProvider returned: with the file, or without it.
ScanFound(w) ==
  /\ Does(w, "listing") /\ primary # 0
  /\ Become(w, [op[w] EXCEPT !.at = "upserting", !.obj = primary])
  /\ UNCHANGED <<files, media, copy, album, jobs, world, history>>

ScanMissed(w) ==
  /\ Does(w, "listing") /\ primary = 0
  /\ Goto(w, "marking")
  /\ absences' = absences + 1
  /\ absentSince' = IF absences = 0 THEN clock ELSE absentSince
  /\ UNCHANGED <<files, media, copy, album, jobs, world, everMirror>>

\* missing_scans=0,first_missing_at=NULL.
MissingReset == missing' = 0 /\ firstMissing' = NoTime

\* Service.upsertObject, called by a scan and by an upload.  A scan enqueues
\* jobs only if the version changed, an upload always does.
UpsertObject(a) ==
  /\ Does(a, "upserting")
  /\ indexed' = op[a].obj
  /\ MissingReset
  /\ Goto(a, IF op[a].kind = "upload" \/ indexed # op[a].obj THEN "enqueueing" ELSE "marking")
  /\ absences' = 0 /\ absentSince' = NoTime
  /\ UNCHANGED <<files, suppressed, copy, album, jobs, world, everMirror>>

\* The Enqueue of the backup job of the version just indexed.
WantsBackup(a) == op[a].enabled /\ (op[a].kind = "upload" => SyncOnUpload)

EnqueueBackup(a) ==
  /\ Does(a, "enqueueing")
  /\ backupJob' = IF WantsBackup(a)
                  THEN [backupJob EXCEPT ![op[a].obj] = AfterEnqueue(@)]
                  ELSE backupJob
  /\ IF op[a].kind = "upload" THEN Become(a, Idle) ELSE Goto(a, "marking")
  /\ UNCHANGED <<files, media, copy, album, mirrorJob, mirrorAt, world, history>>

\* The rows of media_items are read; the row of a file that was seen is reset.
ScanReset(w) ==
  /\ Does(w, "marking") /\ op[w].obj # 0
  /\ MissingReset /\ suppressed' = FALSE
  /\ Become(w, Idle)
  /\ UNCHANGED <<files, indexed, copy, album, jobs, world, history>>

ScanReadMissing(w) ==
  /\ Does(w, "marking") /\ op[w].obj = 0
  /\ Become(w, IF indexed = 0 THEN Idle
               ELSE [op[w] EXCEPT !.at = "counting", !.count = missing, !.first = firstMissing])
  /\ UNCHANGED <<files, media, copy, album, jobs, world, history>>

\* One more missing scan, counted from the row as it was read.
NewCount(w) == Min({op[w].count + 1, 2})

ScanCountMissing(w) ==
  /\ Does(w, "counting")
  /\ LET first == IF op[w].first = NoTime THEN clock ELSE op[w].first IN
       /\ missing' = NewCount(w)
       /\ firstMissing' = IF firstMissing = NoTime THEN first ELSE firstMissing
       /\ Become(w, IF op[w].mode = "mirror" /\ NewCount(w) >= 2
                    THEN [op[w] EXCEPT !.at = "scheduling", !.first = first]
                    ELSE Idle)
  /\ UNCHANGED <<files, indexed, suppressed, copy, album, jobs, world, history>>

-------------------------------------------------------------------------------
(* Service.scheduleMirrorDelete: reads delete_suppressed, marks the replica,  *)
(* enqueues the job                                                           *)

ScheduleRead(a) ==
  /\ Does(a, "scheduling")
  /\ IF suppressed THEN Become(a, Idle) ELSE Goto(a, "marking-replica")
  /\ UNCHANGED <<files, media, copy, album, jobs, world, history>>

ScheduleReplica(a) ==
  /\ Does(a, "marking-replica")
  /\ replica' = IF replica = "none" THEN "none" ELSE "pending-delete"
  /\ Goto(a, "enqueueing-delete")
  /\ UNCHANGED <<files, media, copied, album, jobs, world, history>>

ExecuteAt(a) == Max({op[a].first + Grace, clock})

ScheduleEnqueue(a) ==
  /\ Does(a, "enqueueing-delete")
  /\ mirrorAt' = IF mirrorJob = "absent" THEN ExecuteAt(a) ELSE Min({mirrorAt, ExecuteAt(a)})
  /\ mirrorJob' = AfterEnqueue(mirrorJob)
  /\ Become(a, Idle)
  /\ UNCHANGED <<files, media, copy, album, backupJob, world, history>>

-------------------------------------------------------------------------------
(* Service.Upload of a file to this path, which was free when availableName   *)
(* looked; an upload gets a fingerprint of its own                            *)

UploadBegin ==
  /\ Does(Upload, "idle") /\ ~removed
  /\ primary = 0 /\ used < Versions
  /\ Spend("upload", MaxUploads)
  /\ Become(Upload, Began("upload", "uploading", 0))
  /\ UNCHANGED <<files, media, copy, album, jobs, history>>

\* Put with Conflict "fail".
UploadPut ==
  /\ Does(Upload, "uploading")
  /\ primary = 0 /\ used < Versions
  /\ primary' = used + 1
  /\ used' = used + 1
  /\ Become(Upload, [op[Upload] EXCEPT !.at = "upserting", !.obj = used + 1])
  /\ UNCHANGED <<backup, media, copy, album, jobs, clock, spent, history>>

UploadConflict ==
  /\ Does(Upload, "uploading")
  /\ primary # 0 \/ used = Versions
  /\ Become(Upload, Idle)
  /\ UNCHANGED <<files, media, copy, album, jobs, world, history>>

-------------------------------------------------------------------------------
(* Service.Backup *)

BackupClaim(w, v) ==
  /\ Does(w, "idle")
  /\ backupJob[v] = "pending"
  /\ backupJob' = [backupJob EXCEPT ![v] = "running"]
  /\ Become(w, [Idle EXCEPT !.kind = "backup", !.at = "checking", !.count = v])
  /\ UNCHANGED <<files, media, copy, album, mirrorJob, mirrorAt, world, history>>

\* The album, the item and its replica are read; there may be nothing to do.
\* (Mutant: the version of the replica is not compared.)
HasReplica == ~enabled \/ missing > 0 \/ replica = "ready"
NothingToBackUp == \/ ~enabled
                   \/ missing > 0
                   \/ replica = "ready" /\ copied = indexed

BackupCheck(w) ==
  /\ Does(w, "checking") /\ op[w].kind = "backup"
  /\ IF removed THEN Goto(w, "error")
     ELSE IF NothingToBackUp THEN Goto(w, "ok")
     ELSE Become(w, [op[w] EXCEPT !.at = "opening", !.obj = indexed])
  /\ UNCHANGED <<files, media, copy, album, jobs, world, history>>

\* The file is copied to a temporary one, and must still be the indexed version.
BackupOpen(w) ==
  /\ Does(w, "opening")
  /\ Goto(w, IF primary = op[w].obj THEN "putting" ELSE "error")
  /\ UNCHANGED <<files, media, copy, album, jobs, world, history>>

\* Put with Conflict "overwrite".
BackupPut(w) ==
  /\ Does(w, "putting")
  /\ backup' = op[w].obj
  /\ Goto(w, "recording")
  /\ UNCHANGED <<primary, media, copy, album, jobs, world, history>>

BackupRecord(w) ==
  /\ Does(w, "recording")
  /\ replica' = "ready"
  /\ copied' = op[w].obj
  /\ Goto(w, "ok")
  /\ UNCHANGED <<files, media, album, jobs, world, history>>

-------------------------------------------------------------------------------
(* Service.executeMirrorDelete *)

MirrorClaim(w) ==
  /\ Does(w, "idle")
  /\ mirrorJob = "pending" /\ mirrorAt <= clock
  /\ mirrorJob' = "running"
  /\ Become(w, [Idle EXCEPT !.kind = "mirror", !.at = "checking"])
  /\ UNCHANGED <<files, media, copy, album, backupJob, mirrorAt, world, history>>

\* The album and the item are read.  (Mutants: one missing scan suffices; the
\* mode is not looked at.)
MayDeleteAfterOne == /\ mode = "mirror" /\ missing >= 1 /\ ~suppressed
                     /\ firstMissing # NoTime /\ clock >= firstMissing + Grace
MayDeleteInAnyMode == /\ missing >= 2 /\ ~suppressed
                      /\ firstMissing # NoTime /\ clock >= firstMissing + Grace
MayDelete == /\ mode = "mirror"
             /\ missing >= 2
             /\ ~suppressed
             /\ firstMissing # NoTime /\ clock >= firstMissing + Grace

MirrorCheck(w) ==
  /\ Does(w, "checking") /\ op[w].kind = "mirror"
  /\ Goto(w, IF removed THEN "error" ELSE IF MayDelete THEN "verifying" ELSE "ok")
  /\ UNCHANGED <<files, media, copy, album, jobs, world, history>>

\* Validate and Stat of the primary storage.
MirrorVerify(w) ==
  /\ Does(w, "verifying")
  /\ Goto(w, IF primary = 0 THEN "deleting" ELSE "ok")
  /\ UNCHANGED <<files, media, copy, album, jobs, world, history>>

MirrorDelete(w) ==
  /\ Does(w, "deleting")
  /\ backup' = 0
  /\ Goto(w, "deleted")
  /\ UNCHANGED <<primary, media, copy, album, jobs, world, history>>

MirrorRecord(w) ==
  /\ Does(w, "deleted")
  /\ replica' = IF replica = "none" THEN "none" ELSE "deleted"
  /\ Goto(w, "ok")
  /\ UNCHANGED <<files, media, copied, album, jobs, world, history>>

-------------------------------------------------------------------------------
(* The end of a job *)

\* Queue.finish; after an error the job is pending or, out of attempts, failed.
Finish(w) ==
  /\ op[w].at \in Outcome
  /\ \E tries \in {0, 1} :
       LET s == AfterFinish(op[w].at, tries, 1) IN
       IF op[w].kind = "backup"
       THEN backupJob' = [backupJob EXCEPT ![op[w].count] = s] /\ UNCHANGED mirrorJob
       ELSE mirrorJob' = s /\ UNCHANGED backupJob
  /\ Become(w, Idle)
  /\ UNCHANGED <<files, media, copy, album, mirrorAt, world, history>>

\* What becomes of the job.  (Mutant: the error of Put is ignored.)
PutIgnored(w, o) == IF Does(w, "putting") THEN "recording" ELSE o
FailsWith(w, o) == o

\* A call of a provider fails, or its authorization has run out.
ProviderFails(w, o) ==
  /\ o \in FaultKinds
  /\ \/ o \in {"error", "auth"} /\ op[w].at \in {"opening", "putting"}
     \/ o = "error" /\ op[w].at \in {"verifying", "deleting"}
  /\ Spend("fault", MaxFaults)
  /\ Goto(w, FailsWith(w, o))
  /\ UNCHANGED <<files, media, copy, album, jobs, history>>

ScanFails(w) ==
  /\ "error" \in FaultKinds
  /\ Does(w, "listing")
  /\ Spend("fault", MaxFaults)
  /\ Become(w, Idle)
  /\ UNCHANGED <<files, media, copy, album, jobs, history>>

\* The process dies and comes back.  A running job is reclaimed if its lease
\* has run out by then, and stays running otherwise (JobQueue!Start).
Crash ==
  /\ "crash" \in FaultKinds
  /\ Spend("fault", MaxFaults)
  /\ op' = [a \in Actors |-> Idle]
  /\ \E reclaimed \in BOOLEAN :
       LET After(s) == IF s = "running" /\ reclaimed THEN "pending" ELSE s IN
       /\ backupJob' = [v \in 1..Versions |-> After(backupJob[v])]
       /\ mirrorJob' = After(mirrorJob)
  /\ UNCHANGED <<files, media, copy, album, mirrorAt, history>>

-------------------------------------------------------------------------------
(* The administrator *)

AdminBegin(kind) ==
  /\ kind \in AdminOps
  /\ Does(Admin, "idle")
  /\ Spend("admin", MaxAdmin)

\* Service.CancelMirrorDelete: three statements.
CancelBegin ==
  /\ AdminBegin("cancel") /\ indexed # 0
  /\ suppressed' = TRUE
  /\ Become(Admin, [Idle EXCEPT !.kind = "cancel", !.at = "unmarking"])
  /\ UNCHANGED <<files, indexed, missing, firstMissing, copy, album, jobs, history>>

\* Also the statement that follows a switch to safe mode.
Unmark ==
  /\ Does(Admin, "unmarking")
  /\ replica' = IF replica = "pending-delete" THEN "ready" ELSE replica
  /\ IF op[Admin].kind = "cancel" THEN Goto(Admin, "cancelling") ELSE Become(Admin, Idle)
  /\ UNCHANGED <<files, media, copied, album, jobs, world, history>>

CancelJob ==
  /\ Does(Admin, "cancelling")
  /\ mirrorJob' = AfterCancel(mirrorJob)
  /\ Become(Admin, Idle)
  /\ UNCHANGED <<files, media, copy, album, backupJob, mirrorAt, world, history>>

\* Service.ResumeMirrorDelete: an UPDATE, then the deletion is scheduled as if
\* the file had been missing for the whole grace period.
ResumeBegin ==
  /\ AdminBegin("resume") /\ indexed # 0
  /\ suppressed' = FALSE
  /\ Become(Admin, [Idle EXCEPT !.kind = "resume", !.at = "resuming"])
  /\ UNCHANGED <<files, indexed, missing, firstMissing, copy, album, jobs, history>>

ResumeSchedule ==
  /\ Does(Admin, "resuming")
  /\ Become(Admin, IF removed THEN Idle
                   ELSE [op[Admin] EXCEPT !.at = "scheduling", !.first = clock - Grace])
  /\ UNCHANGED <<files, media, copy, album, jobs, world, history>>

\* Service.UpdateAlbum of the mode.
SetMode(m) ==
  /\ AdminBegin("mode") /\ ~removed /\ mode # m
  /\ mode' = m
  /\ everMirror' = (everMirror \/ m = "mirror")
  /\ IF m = "safe" THEN Become(Admin, [Idle EXCEPT !.kind = "mode", !.at = "unmarking"])
                   ELSE UNCHANGED op
  /\ UNCHANGED <<files, media, copy, enabled, removed, jobs, absences, absentSince>>

\* Service.UpdateAlbum of backup_enabled.
SetEnabled ==
  /\ AdminBegin("enable") /\ ~removed
  /\ enabled' = ~enabled
  /\ Become(Admin, IF mode = "safe" THEN [Idle EXCEPT !.kind = "mode", !.at = "unmarking"]
                                    ELSE Idle)
  /\ UNCHANGED <<files, media, copy, mode, removed, jobs, history>>

\* Service.RemoveAlbum: three statements.
RemoveBegin ==
  /\ AdminBegin("remove") /\ ~removed
  /\ removed' = TRUE
  /\ Become(Admin, [Idle EXCEPT !.kind = "remove", !.at = "cancelling-album"])
  /\ UNCHANGED <<files, media, copy, mode, enabled, jobs, history>>

RemoveCancelJobs ==
  /\ Does(Admin, "cancelling-album")
  /\ backupJob' = [v \in 1..Versions |-> AfterCancel(backupJob[v])]
  /\ mirrorJob' = AfterCancel(mirrorJob)
  /\ Goto(Admin, "cancelling-replica")
  /\ UNCHANGED <<files, media, copy, album, mirrorAt, world, history>>

RemoveReplica ==
  /\ Does(Admin, "cancelling-replica")
  /\ replica' = IF replica = "none" THEN "none" ELSE "cancelled"
  /\ Become(Admin, Idle)
  /\ UNCHANGED <<files, media, copied, album, jobs, world, history>>

-------------------------------------------------------------------------------

ScanStep(w) ==
  \/ ScanBegin(w) \/ ScanFound(w) \/ ScanMissed(w) \/ ScanReset(w)
  \/ ScanReadMissing(w) \/ ScanCountMissing(w) \/ ScanFails(w)

BackupStep(w) ==
  \/ \E v \in 1..Versions : BackupClaim(w, v)
  \/ BackupCheck(w) \/ BackupOpen(w) \/ BackupPut(w) \/ BackupRecord(w)

MirrorStep(w) ==
  \/ MirrorClaim(w) \/ MirrorCheck(w) \/ MirrorVerify(w) \/ MirrorDelete(w)
  \/ MirrorRecord(w)

SharedStep(a) ==
  \/ UpsertObject(a) \/ EnqueueBackup(a)
  \/ ScheduleRead(a) \/ ScheduleReplica(a) \/ ScheduleEnqueue(a)

AdminStep ==
  \/ CancelBegin \/ Unmark \/ CancelJob
  \/ ResumeBegin \/ ResumeSchedule
  \/ \E m \in {"safe", "mirror"} : SetMode(m)
  \/ SetEnabled
  \/ RemoveBegin \/ RemoveCancelJobs \/ RemoveReplica

Next ==
  \/ Tick \/ Crash
  \/ \E v \in NewContents : Edit(v)
  \/ \E w \in Workers : \/ ScanStep(w) \/ BackupStep(w) \/ MirrorStep(w) \/ Finish(w)
                        \/ \E o \in {"error", "auth"} : ProviderFails(w, o)
  \/ \E a \in Actors : SharedStep(a)
  \/ UploadBegin \/ UploadPut \/ UploadConflict
  \/ AdminStep

Spec == Init /\ [][Next]_vars

-------------------------------------------------------------------------------
(* Properties *)

Times == (-Grace)..MaxTime

Places == {"idle", "listing", "upserting", "enqueueing", "marking", "counting",
           "scheduling", "marking-replica", "enqueueing-delete", "uploading",
           "checking", "opening", "putting", "recording", "verifying", "deleting",
           "deleted", "unmarking", "cancelling", "resuming", "cancelling-album",
           "cancelling-replica"} \cup Outcome

\* Every variable has its type; only a missing item has a first_missing_at.
TypeOK ==
  /\ {primary, backup, indexed, copied, used} \subseteq 0..Versions
  /\ missing \in 0..2
  /\ firstMissing \in 0..MaxTime \cup {NoTime}
  /\ missing = 0 <=> firstMissing = NoTime
  /\ {suppressed, enabled, removed, everMirror} \subseteq BOOLEAN
  /\ replica \in {"none", "ready", "pending-delete", "deleted", "cancelled"}
  /\ mode \in {"safe", "mirror"}
  /\ backupJob \in [1..Versions -> JobState]
  /\ mirrorJob \in JobState /\ mirrorAt \in 0..(MaxTime + Grace)
  /\ op \in [Actors -> [kind: {"none", "scan", "upload", "backup", "mirror", "cancel",
                               "resume", "mode", "remove"},
                        at: Places, mode: {"safe", "mirror"}, enabled: BOOLEAN,
                        obj: 0..Versions, count: 0..Max({2, Versions}),
                        first: Times \cup {NoTime}]]
  /\ clock \in 0..MaxTime
  /\ absences \in Nat

\* Nobody is in the middle of anything and no job is left to do or to repair.
Done == {"absent", "succeeded"}
Settled ==
  /\ \A a \in Actors : op[a] = Idle
  /\ \A v \in 1..Versions : backupJob[v] \in Done
  /\ mirrorJob \in Done \cup {"pending", "cancelled"}

\* When all is settled and the index shows the file as it is, the backup holds
\* it: media_integration_test.go asserts that a backup equals its source, and
\* docs/architecture.md that every new version gets its backup job.
SettledIsBackedUp ==
  Settled /\ enabled /\ ~removed /\ primary # 0 /\ indexed = primary /\ missing = 0
    => backup = primary

\* The replica row of a safe album tells the truth: while nobody is between a
\* Put and its record, the backup holds the version the row names.
ReplicaIsTrue ==
  (~everMirror /\ replica = "ready" /\ \A w \in Workers : ~Does(w, "recording"))
    => backup = copied

\* A backup is given up only after two complete walks in a row missed the file
\* and the grace period since the first of them is over (docs/architecture.md).
DeletionConfirmed ==
  [][\A w \in Workers : Does(w, "verifying") /\ Does(w, "deleting")' =>
       absences >= 2 /\ clock >= absentSince + Grace]_vars

\* Nothing is ever deleted from the backup of an album that never mirrored,
\* whoever edits, uploads, crashes or resumes (README.md, docs/architecture.md).
SafeAlbumKeepsBackup ==
  [][~everMirror /\ backup # 0 => backup' # 0]_vars
===============================================================================
