-------------------------- MODULE MirrorBackupProofs ---------------------------
(* Proofs about MirrorBackup for any number of workers, versions of the file, *)
(* scans, requests and faults: an album that never mirrored keeps its backup. *)
EXTENDS MirrorBackup, TLAPS

\* Who may delete has seen mirror mode, who puts a file has a file to put, and a
\* backup is asked for only of an item that is in the index.
IsOperation(o) ==
  o = [kind |-> o.kind, at |-> o.at, mode |-> o.mode, enabled |-> o.enabled,
       obj |-> o.obj, count |-> o.count, first |-> o.first]
Justified(o, mirrored, item) ==
  /\ o.at \in {"verifying", "deleting"} => mirrored
  /\ o.at \in {"upserting", "opening", "putting"} => o.obj # 0
  /\ o.at = "enqueueing" => item # 0
  /\ o.kind = "backup" => item # 0

OpsAreOps == op = [a \in Actors |-> op[a]] /\ \A a \in Actors : IsOperation(op[a])
OpsAreJustified == \A a \in Actors : Justified(op[a], everMirror, indexed)
ModeIsKnown == mode = "mirror" => everMirror
JobsHaveItems ==
  /\ backupJob = [v \in 1..Versions |-> backupJob[v]]
  /\ \A v \in 1..Versions : backupJob[v] # "absent" => indexed # 0
OpInv == OpsAreOps /\ OpsAreJustified
MirrorInv == OpInv /\ ModeIsKnown /\ JobsHaveItems /\ used \in Nat

\* Max of FiniteSetsExt for the two numbers Edit compares.
LEMMA MaxOfTwo == ASSUME NEW m \in Nat, NEW n \in Nat
  PROVE Max({m, n}) \in {m, n} /\ Max({m, n}) >= m /\ Max({m, n}) >= n
<1>1. \E x \in {m, n} : \A y \in {m, n} : x >= y
  OBVIOUS
<1>2. Max({m, n}) \in {m, n} /\ \A y \in {m, n} : Max({m, n}) >= y
  BY <1>1, Zenon DEF Max
<1> QED BY <1>2

\* The invariant holds to begin with.
LEMMA MirrorInit == Init => MirrorInv
<1> SUFFICES ASSUME Init PROVE MirrorInv
  OBVIOUS
<1>1. OpsAreOps
  BY DEF Init, OpsAreOps, IsOperation, Idle
<1>2. OpsAreJustified
  BY DEF Init, OpsAreJustified, Justified, Idle
<1>3. ModeIsKnown
  BY Zenon DEF Init, ModeIsKnown
<1>4. JobsHaveItems
  BY DEF Init, JobsHaveItems
<1>5. used \in Nat
  BY MirrorAssumption DEF Init
<1> QED BY <1>1, <1>2, <1>3, <1>4, <1>5 DEF MirrorInv, OpInv

\* An actor that goes on to a justified operation disturbs no other.
LEMMA OneMoves ==
  ASSUME OpInv, NEW a \in Actors, NEW STATE o, op' = [op EXCEPT ![a] = o],
         IsOperation(o), Justified(o, everMirror', indexed'),
         everMirror => everMirror', indexed # 0 => indexed' # 0
  PROVE  OpInv'
<1>1. op' = [b \in Actors |-> IF b = a THEN o ELSE op[b]]
  BY DEF OpInv, OpsAreOps
<1>2. OpsAreOps'
  BY <1>1 DEF OpInv, OpsAreOps, IsOperation
<1>3. \A b \in Actors : Justified(op[b], everMirror', indexed')
  BY DEF OpInv, OpsAreJustified, Justified
<1>4. OpsAreJustified'
  BY <1>1, <1>3 DEF OpsAreJustified
<1> QED BY <1>2, <1>4 DEF OpInv

\* The same for the steps that change the place alone.
LEMMA OneGoes ==
  ASSUME OpInv, NEW a \in Actors, NEW STATE place, Goto(a, place),
         everMirror => everMirror', indexed # 0 => indexed' # 0,
         place \in {"verifying", "deleting"} => everMirror',
         place \in {"upserting", "opening", "putting"} => op[a].obj # 0,
         place = "enqueueing" => indexed' # 0
  PROVE  OpInv'
<1>1. /\ IsOperation([op[a] EXCEPT !.at = place])
      /\ [op[a] EXCEPT !.at = place].at = place
      /\ [op[a] EXCEPT !.at = place].obj = op[a].obj
      /\ [op[a] EXCEPT !.at = place].kind = op[a].kind
  BY DEF OpInv, OpsAreOps, IsOperation
<1>2. op' = [op EXCEPT ![a] = [op[a] EXCEPT !.at = place]]
  BY DEF OpInv, OpsAreOps, Goto
<1>3. op[a].kind = "backup" => indexed' # 0
  BY DEF OpInv, OpsAreJustified, Justified
<1>4. Justified([op[a] EXCEPT !.at = place], everMirror', indexed')
  BY <1>1, <1>3 DEF Justified
<1> QED BY <1>1, <1>2, <1>4, OneMoves

\* ... and for those that end an operation.
LEMMA OneRests ==
  ASSUME OpInv, NEW a \in Actors, Become(a, Idle),
         everMirror => everMirror', indexed # 0 => indexed' # 0
  PROVE  OpInv'
<1>1. IsOperation(Idle) /\ Justified(Idle, everMirror', indexed')
  BY DEF IsOperation, Justified, Idle
<1>2. op' = [op EXCEPT ![a] = Idle]
  BY DEF Become
<1> QED BY <1>1, <1>2, OneMoves

\* What most steps leave alone: no mode is set, no version indexed, no backup
\* job touched and no fingerprint taken.
Quiet == UNCHANGED <<mode, everMirror, indexed, backupJob, used>>

LEMMA QuietKeeps == ASSUME MirrorInv, Quiet, OpInv' PROVE MirrorInv'
<1>1. ModeIsKnown' /\ used' \in Nat
  BY DEF MirrorInv, ModeIsKnown, Quiet
<1>2. JobsHaveItems'
  BY DEF MirrorInv, JobsHaveItems, Quiet
<1> QED BY <1>1, <1>2 DEF MirrorInv

\* Service.Scan and the functions it shares with Service.Upload.

\* An operation of which three fields are known, and the changes of one field.
Like(o, place, x, k) == IsOperation(o) /\ o.at = place /\ o.obj = x /\ o.kind = k

LEMMA SetAt == ASSUME NEW o, IsOperation(o), NEW x
  PROVE Like([o EXCEPT !.at = x], x, o.obj, o.kind)
  BY DEF IsOperation, Like

LEMMA SetObj == ASSUME NEW o, IsOperation(o), NEW x
  PROVE Like([o EXCEPT !.obj = x], o.at, x, o.kind)
  BY DEF IsOperation, Like

LEMMA SetKind == ASSUME NEW o, IsOperation(o), NEW x
  PROVE Like([o EXCEPT !.kind = x], o.at, o.obj, x)
  BY DEF IsOperation, Like

LEMMA SetModeRead == ASSUME NEW o, IsOperation(o), NEW x
  PROVE Like([o EXCEPT !.mode = x], o.at, o.obj, o.kind)
  BY DEF IsOperation, Like

LEMMA SetEnabledRead == ASSUME NEW o, IsOperation(o), NEW x
  PROVE Like([o EXCEPT !.enabled = x], o.at, o.obj, o.kind)
  BY DEF IsOperation, Like

LEMMA SetCount == ASSUME NEW o, IsOperation(o), NEW x
  PROVE Like([o EXCEPT !.count = x], o.at, o.obj, o.kind)
  BY DEF IsOperation, Like

LEMMA SetFirst == ASSUME NEW o, IsOperation(o), NEW x
  PROVE Like([o EXCEPT !.first = x], o.at, o.obj, o.kind)
  BY DEF IsOperation, Like

\* Changes of several fields at once.
LEMMA BeganIsOperation ==
  ASSUME NEW k, NEW place, NEW x PROVE Like(Began(k, place, x), place, x, k)
<1> DEFINE n1 == [Idle EXCEPT !.kind = k]
           n2 == [n1 EXCEPT !.at = place]
           n3 == [n2 EXCEPT !.mode = mode]
           n4 == [n3 EXCEPT !.enabled = enabled]
           n5 == [n4 EXCEPT !.obj = x]
<1>1. Began(k, place, x) = n5
  BY Zenon DEF Began
<1>2. IsOperation(Idle)
  BY DEF IsOperation, Idle
<1>3. IsOperation(n1) /\ n1.kind = k
  BY <1>2, SetKind DEF Like
<1> HIDE DEF n1
<1>4. IsOperation(n2) /\ n2.kind = k /\ n2.at = place
  BY <1>3, SetAt DEF Like
<1> HIDE DEF n2
<1>5. IsOperation(n3) /\ n3.kind = k /\ n3.at = place
  BY <1>4, SetModeRead DEF Like
<1> HIDE DEF n3
<1>6. IsOperation(n4) /\ n4.kind = k /\ n4.at = place
  BY <1>5, SetEnabledRead DEF Like
<1> HIDE DEF n4
<1>7. Like(n5, place, x, k)
  BY <1>6, SetObj DEF Like
<1> QED BY <1>1, <1>7

LEMMA KindAt == ASSUME NEW o, IsOperation(o), NEW k, NEW place
  PROVE Like([o EXCEPT !.kind = k, !.at = place], place, o.obj, k)
<1> DEFINE n == [o EXCEPT !.kind = k]
<1>1. [o EXCEPT !.kind = k, !.at = place] = [n EXCEPT !.at = place]
  BY Zenon
<1>2. Like(n, o.at, o.obj, k)
  BY SetKind
<1> HIDE DEF n
<1>3. Like([n EXCEPT !.at = place], place, o.obj, k)
  BY <1>2, SetAt DEF Like
<1> QED BY <1>1, <1>3

LEMMA AtObj == ASSUME NEW o, IsOperation(o), NEW place, NEW x
  PROVE Like([o EXCEPT !.at = place, !.obj = x], place, x, o.kind)
<1> DEFINE n == [o EXCEPT !.at = place]
<1>1. [o EXCEPT !.at = place, !.obj = x] = [n EXCEPT !.obj = x]
  BY Zenon
<1>2. Like(n, place, o.obj, o.kind)
  BY SetAt
<1> HIDE DEF n
<1>3. Like([n EXCEPT !.obj = x], place, x, o.kind)
  BY <1>2, SetObj DEF Like
<1> QED BY <1>1, <1>3

LEMMA AtFirst == ASSUME NEW o, IsOperation(o), NEW place, NEW x
  PROVE Like([o EXCEPT !.at = place, !.first = x], place, o.obj, o.kind)
<1> DEFINE n == [o EXCEPT !.at = place]
<1>1. [o EXCEPT !.at = place, !.first = x] = [n EXCEPT !.first = x]
  BY Zenon
<1>2. Like(n, place, o.obj, o.kind)
  BY SetAt
<1> HIDE DEF n
<1>3. Like([n EXCEPT !.first = x], place, o.obj, o.kind)
  BY <1>2, SetFirst DEF Like
<1> QED BY <1>1, <1>3

LEMMA KindAtCount == ASSUME NEW o, IsOperation(o), NEW k, NEW place, NEW x
  PROVE Like([o EXCEPT !.kind = k, !.at = place, !.count = x], place, o.obj, k)
<1> DEFINE n == [o EXCEPT !.kind = k, !.at = place]
<1>1. [o EXCEPT !.kind = k, !.at = place, !.count = x] = [n EXCEPT !.count = x]
  BY Zenon
<1>2. Like(n, place, o.obj, k)
  BY KindAt
<1> HIDE DEF n
<1>3. Like([n EXCEPT !.count = x], place, o.obj, k)
  BY <1>2, SetCount DEF Like
<1> QED BY <1>1, <1>3

LEMMA AtCountFirst == ASSUME NEW o, IsOperation(o), NEW place, NEW x, NEW y
  PROVE Like([o EXCEPT !.at = place, !.count = x, !.first = y], place, o.obj, o.kind)
<1> DEFINE n1 == [o EXCEPT !.at = place]
           n2 == [n1 EXCEPT !.count = x]
<1>1. [o EXCEPT !.at = place, !.count = x, !.first = y] = [n2 EXCEPT !.first = y]
  BY Zenon
<1>2. Like(n1, place, o.obj, o.kind)
  BY SetAt
<1> HIDE DEF n1
<1>3. Like(n2, place, o.obj, o.kind)
  BY <1>2, SetCount DEF Like
<1> HIDE DEF n2
<1>4. Like([n2 EXCEPT !.first = y], place, o.obj, o.kind)
  BY <1>3, SetFirst DEF Like
<1> QED BY <1>1, <1>4

\* Service.Scan (the steps that are its own).
LEMMA ScanKeeps ==
  ASSUME MirrorInv, NEW w \in Actors, ScanStep(w) PROVE MirrorInv'
<1> USE DEF media, copy, album, jobs, files, world, history
<1>1. CASE ScanBegin(w)
  <2> DEFINE o == Began("scan", "listing", 0)
  <2>1. op' = [op EXCEPT ![w] = o] /\ Quiet
    BY <1>1 DEF ScanBegin, Become, Spend, Quiet
  <2>2. IsOperation(o) /\ Justified(o, everMirror', indexed')
    BY BeganIsOperation DEF Justified, Like
  <2> QED BY <2>1, <2>2, OneMoves, QuietKeeps DEF MirrorInv, Quiet
<1>2. CASE ScanFound(w)
  <2> DEFINE o == [op[w] EXCEPT !.at = "upserting", !.obj = primary]
  <2>1. op' = [op EXCEPT ![w] = o] /\ Quiet /\ primary # 0
    BY <1>2 DEF ScanFound, Become, Quiet
  <2>2. Like(o, "upserting", primary, op[w].kind)
    BY AtObj DEF MirrorInv, OpInv, OpsAreOps
  <2>3. Justified(o, everMirror', indexed')
    BY <2>1, <2>2 DEF MirrorInv, OpInv, OpsAreJustified, Justified, Quiet, Like
  <2> QED BY <2>1, <2>2, <2>3, OneMoves, QuietKeeps DEF MirrorInv, Quiet, Like
<1>3. CASE ScanMissed(w)
  <2>1. Goto(w, "marking") /\ Quiet
    BY <1>3 DEF ScanMissed, Quiet
  <2> QED BY <2>1, OneGoes, QuietKeeps DEF MirrorInv, Quiet
<1>4. CASE ScanReset(w) \/ ScanFails(w)
  <2>1. Become(w, Idle) /\ Quiet
    BY <1>4 DEF ScanReset, ScanFails, Spend, Quiet
  <2> QED BY <2>1, OneRests, QuietKeeps DEF MirrorInv, Quiet
<1>5. CASE ScanReadMissing(w)
  <2> DEFINE o == [op[w] EXCEPT !.at = "counting", !.count = missing, !.first = firstMissing]
  <2>1. (Become(w, Idle) \/ op' = [op EXCEPT ![w] = o]) /\ Quiet
    BY <1>5 DEF ScanReadMissing, Become, Quiet
  <2>2. Like(o, "counting", op[w].obj, op[w].kind)
    BY AtCountFirst DEF MirrorInv, OpInv, OpsAreOps
  <2>3. Justified(o, everMirror', indexed')
    BY <2>1, <2>2 DEF MirrorInv, OpInv, OpsAreJustified, Justified, Quiet, Like
  <2> QED BY <2>1, <2>2, <2>3, OneMoves, OneRests, QuietKeeps DEF MirrorInv, Quiet, Like
<1>6. CASE ScanCountMissing(w)
  <2>1. PICK first : \/ Become(w, Idle)
                     \/ op' = [op EXCEPT ![w] = [op[w] EXCEPT !.at = "scheduling", !.first = first]]
    BY <1>6 DEF ScanCountMissing, Become
  <2> DEFINE o == [op[w] EXCEPT !.at = "scheduling", !.first = first]
  <2>2. Quiet
    BY <1>6 DEF ScanCountMissing, Quiet
  <2>3. IsOperation(o) /\ Justified(o, everMirror', indexed')
    <3>1. Like(o, "scheduling", op[w].obj, op[w].kind)
      BY AtFirst DEF MirrorInv, OpInv, OpsAreOps
    <3> QED BY <2>2, <3>1 DEF MirrorInv, OpInv, OpsAreJustified, Justified, Quiet, Like
  <2>4. CASE Become(w, Idle)
    BY <2>2, <2>4, OneRests, QuietKeeps DEF MirrorInv, Quiet
  <2>5. CASE op' = [op EXCEPT ![w] = o]
    BY <2>2, <2>3, <2>5, OneMoves, QuietKeeps DEF MirrorInv, Quiet
  <2> QED BY <2>1, <2>4, <2>5
<1> QED BY <1>1, <1>2, <1>3, <1>4, <1>5, <1>6 DEF ScanStep

\* upsertObject indexes the version it was given, and no job is enqueued before.
LEMMA SharedKeeps ==
  ASSUME MirrorInv, NEW a \in Actors, SharedStep(a) PROVE MirrorInv'
<1> USE DEF media, copy, album, jobs, files, world, history
<1>1. CASE UpsertObject(a)
  <2>1. PICK place \in {"enqueueing", "marking"} : Goto(a, place)
    BY <1>1 DEF UpsertObject
  <2>2. op[a].obj # 0 /\ indexed' = op[a].obj
    BY <1>1 DEF UpsertObject, Does, MirrorInv, OpInv, OpsAreJustified, Justified
  <2>3. UNCHANGED <<mode, everMirror, backupJob, used>>
    BY <1>1 DEF UpsertObject
  <2>4. OpInv'
    BY <2>1, <2>2, <2>3, OneGoes DEF MirrorInv
  <2>5. ModeIsKnown' /\ JobsHaveItems' /\ used' \in Nat
    BY <2>2, <2>3 DEF MirrorInv, ModeIsKnown, JobsHaveItems
  <2> QED BY <2>4, <2>5 DEF MirrorInv
<1>2. CASE EnqueueBackup(a)
  <2>1. Become(a, Idle) \/ Goto(a, "marking")
    BY <1>2 DEF EnqueueBackup
  <2>2. UNCHANGED <<mode, everMirror, indexed, used>> /\ indexed # 0
    BY <1>2 DEF EnqueueBackup, Does, MirrorInv, OpInv, OpsAreJustified, Justified
  <2>3. OpInv'
    BY <2>1, <2>2, OneGoes, OneRests DEF MirrorInv
  <2>4. JobsHaveItems'
    BY <1>2, <2>2 DEF EnqueueBackup, MirrorInv, JobsHaveItems
  <2> QED BY <2>2, <2>3, <2>4 DEF MirrorInv, ModeIsKnown
<1>3. CASE ScheduleRead(a) \/ ScheduleReplica(a) \/ ScheduleEnqueue(a)
  <2>1. \/ Become(a, Idle)
        \/ \E place \in {"marking-replica", "enqueueing-delete"} : Goto(a, place)
    BY <1>3 DEF ScheduleRead, ScheduleReplica, ScheduleEnqueue
  <2>2. Quiet
    BY <1>3 DEF ScheduleRead, ScheduleReplica, ScheduleEnqueue, Quiet
  <2> QED BY <2>1, <2>2, OneGoes, OneRests, QuietKeeps DEF MirrorInv, Quiet
<1> QED BY <1>1, <1>2, <1>3 DEF SharedStep

\* Service.Upload puts a file of a fingerprint of its own.
LEMMA UploadKeeps ==
  ASSUME MirrorInv, UploadBegin \/ UploadPut \/ UploadConflict PROVE MirrorInv'
<1> USE DEF media, copy, album, jobs, files, world, history
<1>1. CASE UploadBegin
  <2> DEFINE o == Began("upload", "uploading", 0)
  <2>1. op' = [op EXCEPT ![Upload] = o] /\ Quiet
    BY <1>1 DEF UploadBegin, Become, Spend, Quiet
  <2>2. IsOperation(o) /\ Justified(o, everMirror', indexed')
    BY BeganIsOperation DEF Justified, Like
  <2> QED BY <2>1, <2>2, OneMoves, QuietKeeps DEF MirrorInv, Quiet, Actors
<1>2. CASE UploadPut
  <2> DEFINE o == [op[Upload] EXCEPT !.at = "upserting", !.obj = used + 1]
  <2>1. /\ op' = [op EXCEPT ![Upload] = o]
        /\ UNCHANGED <<mode, everMirror, indexed, backupJob>>
        /\ used' = used + 1 /\ used + 1 # 0 /\ used' \in Nat
    BY <1>2 DEF UploadPut, Become, MirrorInv
  <2>2. Like(o, "upserting", used + 1, op[Upload].kind)
    BY AtObj DEF MirrorInv, OpInv, OpsAreOps, Actors
  <2>3. IsOperation(o) /\ Justified(o, everMirror', indexed')
    BY <2>1, <2>2 DEF MirrorInv, OpInv, OpsAreJustified, Justified, Like, Actors
  <2>4. OpInv'
    BY <2>1, <2>3, OneMoves DEF MirrorInv, Actors
  <2> QED BY <2>1, <2>4 DEF MirrorInv, ModeIsKnown, JobsHaveItems
<1>3. CASE UploadConflict
  <2>1. Become(Upload, Idle) /\ Quiet
    BY <1>3 DEF UploadConflict, Quiet
  <2> QED BY <2>1, OneRests, QuietKeeps DEF MirrorInv, Quiet, Actors
<1> QED BY <1>1, <1>2, <1>3

\* Service.Backup works on an item that is in the index.
LEMMA BackupKeeps ==
  ASSUME MirrorInv, NEW w \in Actors, BackupStep(w) PROVE MirrorInv'
<1> USE DEF media, copy, album, jobs, files, world, history
<1>1. ASSUME NEW v \in 1..Versions, BackupClaim(w, v) PROVE MirrorInv'
  <2> DEFINE o == [Idle EXCEPT !.kind = "backup", !.at = "checking", !.count = v]
  <2>1. /\ op' = [op EXCEPT ![w] = o]
        /\ UNCHANGED <<mode, everMirror, indexed, used>>
        /\ backupJob' = [backupJob EXCEPT ![v] = "running"]
        /\ indexed # 0
    BY <1>1 DEF BackupClaim, Become, MirrorInv, JobsHaveItems
  <2>2. IsOperation(Idle) /\ Idle.obj = 0
    BY DEF IsOperation, Idle
  <2>3. Like(o, "checking", 0, "backup")
    BY <2>2, KindAtCount
  <2>4. IsOperation(o) /\ Justified(o, everMirror', indexed')
    BY <2>1, <2>3 DEF Justified, Like
  <2>5. OpInv'
    BY <2>1, <2>4, OneMoves DEF MirrorInv
  <2> QED BY <2>1, <2>5 DEF MirrorInv, ModeIsKnown, JobsHaveItems
<1>2. CASE BackupCheck(w)
  <2> DEFINE o == [op[w] EXCEPT !.at = "opening", !.obj = indexed]
  <2>1. /\ Goto(w, "error") \/ Goto(w, "ok") \/ op' = [op EXCEPT ![w] = o]
        /\ Quiet
    BY <1>2 DEF BackupCheck, Become, Quiet
  <2>2. indexed # 0
    BY <1>2 DEF BackupCheck, MirrorInv, OpInv, OpsAreJustified, Justified
  <2>3. Like(o, "opening", indexed, op[w].kind)
    BY AtObj DEF MirrorInv, OpInv, OpsAreOps
  <2>4. IsOperation(o) /\ Justified(o, everMirror', indexed')
    BY <2>1, <2>2, <2>3 DEF Justified, Quiet, Like
  <2> QED BY <2>1, <2>4, OneMoves, OneGoes, QuietKeeps DEF MirrorInv, Quiet
<1>3. CASE BackupOpen(w)
  <2>1. PICK place \in {"putting", "error"} : Goto(w, place)
    BY <1>3 DEF BackupOpen
  <2>2. op[w].obj # 0 /\ Quiet
    BY <1>3 DEF BackupOpen, Does, Quiet, MirrorInv, OpInv, OpsAreJustified, Justified
  <2> QED BY <2>1, <2>2, OneGoes, QuietKeeps DEF MirrorInv, Quiet
<1>4. CASE BackupPut(w) \/ BackupRecord(w)
  <2>1. PICK place \in {"recording", "ok"} : Goto(w, place)
    BY <1>4 DEF BackupPut, BackupRecord
  <2>2. Quiet
    BY <1>4 DEF BackupPut, BackupRecord, Quiet
  <2> QED BY <2>1, <2>2, OneGoes, QuietKeeps DEF MirrorInv, Quiet
<1> QED BY <1>1, <1>2, <1>3, <1>4 DEF BackupStep

\* Service.executeMirrorDelete goes past its check only in mirror mode.
LEMMA MirrorKeeps ==
  ASSUME MirrorInv, NEW w \in Actors, MirrorStep(w) PROVE MirrorInv'
<1> USE DEF media, copy, album, jobs, files, world, history
<1>1. CASE MirrorClaim(w)
  <2> DEFINE o == [Idle EXCEPT !.kind = "mirror", !.at = "checking"]
  <2>1. op' = [op EXCEPT ![w] = o] /\ Quiet
    BY <1>1 DEF MirrorClaim, Become, Quiet
  <2>2. IsOperation(Idle) /\ Idle.obj = 0
    BY DEF IsOperation, Idle
  <2>3. Like(o, "checking", 0, "mirror")
    BY <2>2, KindAt
  <2>4. IsOperation(o) /\ Justified(o, everMirror', indexed')
    BY <2>3 DEF Justified, Like
  <2> QED BY <2>1, <2>4, OneMoves, QuietKeeps DEF MirrorInv, Quiet
<1>2. CASE MirrorCheck(w)
  <2>1. PICK place \in {"error", "ok", "verifying"} :
          Goto(w, place) /\ (place = "verifying" => everMirror)
    BY <1>2 DEF MirrorCheck, MayDelete, MirrorInv, ModeIsKnown
  <2>2. Quiet
    BY <1>2 DEF MirrorCheck, Quiet
  <2> QED BY <2>1, <2>2, OneGoes, QuietKeeps DEF MirrorInv, Quiet
<1>3. CASE MirrorVerify(w)
  <2>1. PICK place \in {"ok", "deleting"} : Goto(w, place)
    BY <1>3 DEF MirrorVerify
  <2>2. everMirror /\ Quiet
    BY <1>3 DEF MirrorVerify, Does, Quiet, MirrorInv, OpInv, OpsAreJustified, Justified
  <2> QED BY <2>1, <2>2, OneGoes, QuietKeeps DEF MirrorInv, Quiet
<1>4. CASE MirrorDelete(w) \/ MirrorRecord(w)
  <2>1. PICK place \in {"deleted", "ok"} : Goto(w, place)
    BY <1>4 DEF MirrorDelete, MirrorRecord
  <2>2. Quiet
    BY <1>4 DEF MirrorDelete, MirrorRecord, Quiet
  <2> QED BY <2>1, <2>2, OneGoes, QuietKeeps DEF MirrorInv, Quiet
<1> QED BY <1>1, <1>2, <1>3, <1>4 DEF MirrorStep

\* Queue.finish, and the failures that lead to it.
LEMMA FinishKeeps ==
  ASSUME MirrorInv, NEW w \in Actors,
         Finish(w) \/ \E o \in {"error", "auth"} : ProviderFails(w, o)
  PROVE  MirrorInv'
<1> USE DEF media, copy, album, jobs, files, world, history
<1>1. CASE Finish(w)
  <2>1. Become(w, Idle) /\ UNCHANGED <<mode, everMirror, indexed, used>>
    BY <1>1 DEF Finish
  <2>2. OpInv'
    BY <2>1, OneRests DEF MirrorInv
  <2>3. \/ backupJob' = backupJob
        \/ /\ op[w].kind = "backup"
           /\ \E s : backupJob' = [backupJob EXCEPT ![op[w].count] = s]
    BY <1>1, Zenon DEF Finish
  <2>4. op[w].kind = "backup" => indexed # 0
    BY DEF MirrorInv, OpInv, OpsAreJustified, Justified
  <2>5. JobsHaveItems'
    BY <2>1, <2>3, <2>4 DEF MirrorInv, JobsHaveItems
  <2> QED BY <2>1, <2>2, <2>5 DEF MirrorInv, ModeIsKnown
<1>2. ASSUME NEW o \in {"error", "auth"}, ProviderFails(w, o) PROVE MirrorInv'
  <2>1. Goto(w, o) /\ Quiet
    BY <1>2 DEF ProviderFails, FailsWith, Spend, Quiet
  <2> QED BY <2>1, OneGoes, QuietKeeps DEF MirrorInv, Quiet
<1> QED BY <1>1, <1>2

\* The requests of the administrator; the switch of the mode records that the
\* album mirrored.
LEMMA AdminKeeps == ASSUME MirrorInv, AdminStep PROVE MirrorInv'
<1> USE DEF media, copy, album, jobs, files, world, history
<1>1. Admin \in Actors /\ IsOperation(Idle) /\ Idle.obj = 0
  BY DEF Actors, IsOperation, Idle
<1>2. ASSUME NEW k, NEW place \in {"unmarking", "resuming", "cancelling-album"}, k # "backup",
             Become(Admin, [Idle EXCEPT !.kind = k, !.at = place]),
             indexed' = indexed, everMirror => everMirror'
      PROVE  OpInv'
  <2> DEFINE o == [Idle EXCEPT !.kind = k, !.at = place]
  <2>1. Like(o, place, 0, k)
    BY <1>1, KindAt
  <2>2. IsOperation(o) /\ Justified(o, everMirror', indexed')
    BY <1>2, <2>1 DEF Justified, Like
  <2> QED BY <1>1, <1>2, <2>2, OneMoves DEF MirrorInv, Become
<1>3. CASE CancelBegin \/ ResumeBegin \/ RemoveBegin
  <2>1. PICK k \in {"cancel", "resume", "remove"},
             place \in {"unmarking", "resuming", "cancelling-album"} :
          Become(Admin, [Idle EXCEPT !.kind = k, !.at = place])
    BY <1>3 DEF CancelBegin, ResumeBegin, RemoveBegin
  <2>2. Quiet
    BY <1>3 DEF CancelBegin, ResumeBegin, RemoveBegin, AdminBegin, Spend, Quiet
  <2> QED BY <1>2, <2>1, <2>2, QuietKeeps DEF Quiet
<1>4. CASE Unmark \/ CancelJob \/ RemoveReplica
  <2>1. Become(Admin, Idle) \/ Goto(Admin, "cancelling")
    BY <1>4 DEF Unmark, CancelJob, RemoveReplica
  <2>2. Quiet
    BY <1>4 DEF Unmark, CancelJob, RemoveReplica, Quiet
  <2> QED BY <1>1, <2>1, <2>2, OneGoes, OneRests, QuietKeeps DEF MirrorInv, Quiet
<1>5. CASE ResumeSchedule
  <2> DEFINE o == [op[Admin] EXCEPT !.at = "scheduling", !.first = clock - Grace]
  <2>1. (Become(Admin, Idle) \/ op' = [op EXCEPT ![Admin] = o]) /\ Quiet
    BY <1>5 DEF ResumeSchedule, Become, Quiet
  <2>2. Like(o, "scheduling", op[Admin].obj, op[Admin].kind)
    BY <1>1, AtFirst DEF MirrorInv, OpInv, OpsAreOps
  <2>3. IsOperation(o) /\ Justified(o, everMirror', indexed')
    BY <1>1, <2>1, <2>2 DEF MirrorInv, OpInv, OpsAreJustified, Justified, Like, Quiet
  <2> QED BY <1>1, <2>1, <2>3, OneMoves, OneRests, QuietKeeps DEF MirrorInv, Quiet
<1>6. ASSUME NEW m \in {"safe", "mirror"}, SetMode(m) PROVE MirrorInv'
  <2>1. /\ mode' = m /\ everMirror' = (everMirror \/ m = "mirror")
        /\ UNCHANGED <<indexed, backupJob, used>>
    BY <1>6 DEF SetMode, AdminBegin, Spend
  <2>2. everMirror => everMirror'
    BY <2>1, Zenon
  <2>3. OpInv'
    <3>1. CASE m = "safe"
      BY <1>2, <1>6, <2>1, <2>2, <3>1 DEF SetMode
    <3>2. CASE m # "safe"
      <4>1. op' = op
        BY <1>6, <3>2 DEF SetMode
      <4> QED BY <2>1, <2>2, <4>1
              DEF MirrorInv, OpInv, OpsAreOps, OpsAreJustified, Justified
    <3> QED BY <3>1, <3>2
  <2>4. ModeIsKnown'
    BY <2>1, Zenon DEF ModeIsKnown
  <2> QED BY <2>1, <2>3, <2>4 DEF MirrorInv, JobsHaveItems
<1>7. CASE SetEnabled
  <2>1. /\ \/ Become(Admin, Idle)
           \/ Become(Admin, [Idle EXCEPT !.kind = "mode", !.at = "unmarking"])
        /\ Quiet
    BY <1>7 DEF SetEnabled, AdminBegin, Spend, Quiet
  <2>2. CASE Become(Admin, Idle)
    BY <1>1, <2>1, <2>2, OneRests, QuietKeeps DEF MirrorInv, Quiet
  <2>3. CASE Become(Admin, [Idle EXCEPT !.kind = "mode", !.at = "unmarking"])
    BY <1>2, <2>1, <2>3, QuietKeeps DEF Quiet
  <2> QED BY <2>1, <2>2, <2>3
<1>8. CASE RemoveCancelJobs
  <2>1. Goto(Admin, "cancelling-replica") /\ UNCHANGED <<mode, everMirror, indexed, used>>
    BY <1>8 DEF RemoveCancelJobs
  <2>2. OpInv'
    BY <1>1, <2>1, OneGoes DEF MirrorInv
  <2>3. JobsHaveItems'
    BY <1>8, <2>1 DEF RemoveCancelJobs, AfterCancel, Cancellable, MirrorInv, JobsHaveItems
  <2> QED BY <2>1, <2>2, <2>3 DEF MirrorInv, ModeIsKnown
<1> QED BY <1>3, <1>4, <1>5, <1>6, <1>7, <1>8 DEF AdminStep

\* Every step keeps the invariant; a crash leaves no actor in the middle of
\* anything.
LEMMA MirrorInductive == MirrorInv /\ [Next]_vars => MirrorInv'
<1> SUFFICES ASSUME MirrorInv, [Next]_vars PROVE MirrorInv'
  OBVIOUS
<1> USE DEF media, copy, album, jobs, files, world, history
<1>1. CASE Tick \/ UNCHANGED vars
  <2>1. op' = op /\ Quiet
    BY <1>1 DEF Tick, vars, Quiet
  <2>2. OpInv'
    BY <2>1 DEF MirrorInv, OpInv, OpsAreOps, OpsAreJustified, Justified, Quiet
  <2> QED BY <2>1, <2>2, QuietKeeps
<1>2. ASSUME NEW v \in NewContents, Edit(v) PROVE MirrorInv'
  <2>1. op' = op /\ UNCHANGED <<mode, everMirror, indexed, backupJob>>
    BY <1>2 DEF Edit
  <2>2. v \in Nat
    BY MirrorAssumption DEF NewContents, MirrorInv
  <2>3. used' \in Nat
    BY <1>2, <2>2, MaxOfTwo DEF Edit, MirrorInv
  <2>4. OpInv'
    BY <2>1 DEF MirrorInv, OpInv, OpsAreOps, OpsAreJustified, Justified
  <2> QED BY <2>1, <2>3, <2>4 DEF MirrorInv, ModeIsKnown, JobsHaveItems
<1>3. CASE Crash
  <2>1. /\ op' = [a \in Actors |-> Idle]
        /\ UNCHANGED <<mode, everMirror, indexed, used>>
    BY <1>3 DEF Crash, Spend
  <2>2. OpsAreOps'
    BY <2>1 DEF OpsAreOps, IsOperation, Idle
  <2>3. OpsAreJustified'
    BY <2>1 DEF OpsAreJustified, Justified, Idle
  <2>4. PICK reclaimed \in BOOLEAN :
          backupJob' = [v \in 1..Versions |->
                          IF backupJob[v] = "running" /\ reclaimed THEN "pending" ELSE backupJob[v]]
    BY <1>3 DEF Crash
  <2>5. JobsHaveItems'
    BY <2>1, <2>4 DEF MirrorInv, JobsHaveItems
  <2> QED BY <2>1, <2>2, <2>3, <2>5 DEF MirrorInv, OpInv, ModeIsKnown
<1>4. ASSUME NEW w \in Workers,
             \/ ScanStep(w) \/ BackupStep(w) \/ MirrorStep(w) \/ Finish(w)
             \/ \E o \in {"error", "auth"} : ProviderFails(w, o)
      PROVE  MirrorInv'
  <2>1. w \in Actors
    BY DEF Actors
  <2> QED BY <1>4, <2>1, ScanKeeps, BackupKeeps, MirrorKeeps, FinishKeeps
<1> QED BY <1>1, <1>2, <1>3, <1>4, SharedKeeps, UploadKeeps, AdminKeeps DEF Next

\* Whoever is between the check and the Delete of Service.executeMirrorDelete
\* has seen the album in mirror mode, whoever puts a file has one to put.
THEOREM MirrorInvariant == Spec => []MirrorInv
<1>1. Init => MirrorInv
  BY MirrorInit
<1>2. MirrorInv /\ [Next]_vars => MirrorInv'
  BY MirrorInductive
<1> QED BY <1>1, <1>2, PTL DEF Spec

\* Two statements change the backup: the Delete of a mirror deletion empties it,
\* the Put of a backup never does.
LEMMA OnlyDeletesEmpty ==
  MirrorInv /\ [Next]_vars => (~everMirror /\ backup # 0 => backup' # 0)
<1> SUFFICES ASSUME MirrorInv, [Next]_vars, ~everMirror, backup # 0 PROVE backup' # 0
  OBVIOUS
<1> USE DEF media, copy, album, jobs, files, world, history
<1>1. ASSUME NEW w \in Workers, ScanStep(w) PROVE backup' = backup
  BY <1>1 DEF ScanStep, ScanBegin, ScanFound, ScanMissed, ScanReset, ScanReadMissing,
              ScanCountMissing, ScanFails
<1>2. ASSUME NEW w \in Workers, BackupStep(w) PROVE backup' # 0
  <2>1. CASE BackupPut(w)
    BY <2>1 DEF BackupPut, Does, MirrorInv, OpInv, OpsAreJustified, Justified, Actors
  <2>2. CASE ~BackupPut(w)
    BY <1>2, <2>2 DEF BackupStep, BackupClaim, BackupCheck, BackupOpen, BackupRecord
  <2> QED BY <2>1, <2>2
<1>3. ASSUME NEW w \in Workers, MirrorStep(w) PROVE backup' = backup
  <2>1. ~MirrorDelete(w)
    BY DEF MirrorDelete, Does, MirrorInv, OpInv, OpsAreJustified, Justified, Actors
  <2> QED BY <1>3, <2>1 DEF MirrorStep, MirrorClaim, MirrorCheck, MirrorVerify, MirrorRecord
<1>4. ASSUME NEW w \in Workers, Finish(w) \/ \E o \in {"error", "auth"} : ProviderFails(w, o)
      PROVE  backup' = backup
  BY <1>4 DEF Finish, ProviderFails
<1>5. ASSUME NEW a \in Actors, SharedStep(a) PROVE backup' = backup
  BY <1>5 DEF SharedStep, UpsertObject, EnqueueBackup, ScheduleRead, ScheduleReplica,
              ScheduleEnqueue
<1>6. CASE UploadBegin \/ UploadPut \/ UploadConflict
  BY <1>6 DEF UploadBegin, UploadPut, UploadConflict
<1>7. CASE AdminStep
  BY <1>7 DEF AdminStep, CancelBegin, Unmark, CancelJob, ResumeBegin, ResumeSchedule, SetMode,
              SetEnabled, RemoveBegin, RemoveCancelJobs, RemoveReplica
<1>8. CASE Tick \/ Crash \/ (\E v \in NewContents : Edit(v)) \/ UNCHANGED vars
  BY <1>8 DEF Tick, Crash, Edit, vars
<1> QED BY <1>1, <1>2, <1>3, <1>4, <1>5, <1>6, <1>7, <1>8 DEF Next

\* Nothing is ever deleted from the backup of an album that never mirrored
\* (Service.executeMirrorDelete, Service.Backup).
THEOREM SafeAlbum == Spec => SafeAlbumKeepsBackup
<1>1. MirrorInv /\ [Next]_vars => [~everMirror /\ backup # 0 => backup' # 0]_vars
  BY OnlyDeletesEmpty
<1> QED BY <1>1, MirrorInvariant, PTL DEF Spec, SafeAlbumKeepsBackup

-------------------------------------------------------------------------------
(* What each step makes of the operation of its actor *)

Op(k, place, m, e, x, c, f) ==
  [kind |-> k, at |-> place, mode |-> m, enabled |-> e, obj |-> x, count |-> c, first |-> f]
At(o, place) == Op(o.kind, place, o.mode, o.enabled, o.obj, o.count, o.first)

LEMMA OpAt == ASSUME NEW o, IsOperation(o), NEW p PROVE [o EXCEPT !.at = p] = At(o, p)
  BY DEF IsOperation, At, Op

LEMMA OpAtObj == ASSUME NEW o, IsOperation(o), NEW p, NEW x
  PROVE [o EXCEPT !.at = p, !.obj = x] = Op(o.kind, p, o.mode, o.enabled, x, o.count, o.first)
<1>1. [o EXCEPT !.at = p, !.obj = x] = [[o EXCEPT !.at = p] EXCEPT !.obj = x]
  OBVIOUS
<1>2. [o EXCEPT !.at = p] = At(o, p)
  BY OpAt
<1>3. [At(o, p) EXCEPT !.obj = x] = Op(o.kind, p, o.mode, o.enabled, x, o.count, o.first)
  BY DEF At, Op
<1> QED BY <1>1, <1>2, <1>3, Zenon

LEMMA OpAtFirst == ASSUME NEW o, IsOperation(o), NEW p, NEW x
  PROVE [o EXCEPT !.at = p, !.first = x] = Op(o.kind, p, o.mode, o.enabled, o.obj, o.count, x)
<1>1. [o EXCEPT !.at = p, !.first = x] = [[o EXCEPT !.at = p] EXCEPT !.first = x]
  OBVIOUS
<1>2. [o EXCEPT !.at = p] = At(o, p)
  BY OpAt
<1>3. [At(o, p) EXCEPT !.first = x] = Op(o.kind, p, o.mode, o.enabled, o.obj, o.count, x)
  BY DEF At, Op
<1> QED BY <1>1, <1>2, <1>3, Zenon

LEMMA OpKindAt == ASSUME NEW o, IsOperation(o), NEW k, NEW p
  PROVE [o EXCEPT !.kind = k, !.at = p] = Op(k, p, o.mode, o.enabled, o.obj, o.count, o.first)
<1>1. [o EXCEPT !.kind = k, !.at = p] = [[o EXCEPT !.kind = k] EXCEPT !.at = p]
  OBVIOUS
<1>2. [o EXCEPT !.kind = k] = Op(k, o.at, o.mode, o.enabled, o.obj, o.count, o.first)
  BY DEF IsOperation, Op
<1>3. [Op(k, o.at, o.mode, o.enabled, o.obj, o.count, o.first) EXCEPT !.at = p]
        = Op(k, p, o.mode, o.enabled, o.obj, o.count, o.first)
  BY DEF Op
<1> QED BY <1>1, <1>2, <1>3, Zenon

LEMMA OpKindAtCount == ASSUME NEW o, IsOperation(o), NEW k, NEW p, NEW c
  PROVE [o EXCEPT !.kind = k, !.at = p, !.count = c]
          = Op(k, p, o.mode, o.enabled, o.obj, c, o.first)
<1>1. [o EXCEPT !.kind = k, !.at = p, !.count = c]
        = [[o EXCEPT !.kind = k, !.at = p] EXCEPT !.count = c]
  OBVIOUS
<1>2. [o EXCEPT !.kind = k, !.at = p] = Op(k, p, o.mode, o.enabled, o.obj, o.count, o.first)
  BY OpKindAt
<1>3. [Op(k, p, o.mode, o.enabled, o.obj, o.count, o.first) EXCEPT !.count = c]
        = Op(k, p, o.mode, o.enabled, o.obj, c, o.first)
  BY DEF Op
<1> QED BY <1>1, <1>2, <1>3, Zenon

\* What an actor is doing, field by field, and that no other actor moved.
Is(o, k, p, e, x, c, f) ==
  /\ o.kind = k /\ o.at = p /\ o.enabled = e
  /\ o.obj = x /\ o.count = c /\ o.first = f
Only(a) == \A b \in Actors \ {a} : op'[b] = op[b]

LEMMA OpIs == ASSUME NEW k, NEW p, NEW m, NEW e, NEW x, NEW c, NEW f
  PROVE Is(Op(k, p, m, e, x, c, f), k, p, e, x, c, f)
  BY DEF Op, Is

LEMMA IdleIs == IsOperation(Idle) /\ Is(Idle, "none", "idle", Idle.enabled, 0, 0, NoTime)
  BY DEF IsOperation, Is, Idle

LEMMA Moved == ASSUME OpInv, NEW a \in Actors, NEW o, op' = [op EXCEPT ![a] = o]
  PROVE op'[a] = o /\ Only(a)
  BY DEF OpInv, OpsAreOps, Only

LEMMA GotoIs == ASSUME OpInv, NEW a \in Actors, NEW p, Goto(a, p)
  PROVE /\ Is(op'[a], op[a].kind, p, op[a].enabled, op[a].obj, op[a].count, op[a].first)
        /\ Only(a)
<1>1. op'[a] = [op[a] EXCEPT !.at = p] /\ Only(a)
  BY DEF OpInv, OpsAreOps, Goto, Only
<1>2. [op[a] EXCEPT !.at = p] = At(op[a], p)
  BY OpAt DEF OpInv, OpsAreOps
<1>3. Is(At(op[a], p), op[a].kind, p, op[a].enabled, op[a].obj, op[a].count, op[a].first)
  BY OpIs DEF At
<1> QED BY <1>1, <1>2, <1>3, Zenon

LEMMA RestsIs == ASSUME OpInv, NEW a \in Actors, Become(a, Idle)
  PROVE op'[a] = Idle /\ Only(a)
  BY Moved DEF Become

LEMMA BeganIs ==
  ASSUME OpInv, NEW a \in Actors, NEW k, NEW p, NEW x, Become(a, Began(k, p, x))
  PROVE  Is(op'[a], k, p, enabled, x, 0, NoTime) /\ Only(a)
<1>1. op'[a] = Began(k, p, x) /\ Only(a)
  BY Moved DEF Become
<1>2. Began(k, p, x) = Op(k, p, mode, enabled, x, Idle.count, Idle.first)
  <2> DEFINE n1 == [Idle EXCEPT !.kind = k, !.at = p]
             n2 == [n1 EXCEPT !.mode = mode]
             n3 == [n2 EXCEPT !.enabled = enabled]
             n4 == [n3 EXCEPT !.obj = x]
  <2>1. Began(k, p, x) = n4
    BY Zenon DEF Began
  <2>2. n1 = Op(k, p, Idle.mode, Idle.enabled, Idle.obj, Idle.count, Idle.first)
    BY OpKindAt, IdleIs
  <2> HIDE DEF n1
  <2>3. n2 = Op(k, p, mode, Idle.enabled, Idle.obj, Idle.count, Idle.first)
    BY <2>2 DEF Op
  <2> HIDE DEF n2
  <2>4. n3 = Op(k, p, mode, enabled, Idle.obj, Idle.count, Idle.first)
    BY <2>3 DEF Op
  <2> HIDE DEF n3
  <2>5. n4 = Op(k, p, mode, enabled, x, Idle.count, Idle.first)
    BY <2>4 DEF Op
  <2> QED BY <2>1, <2>5
<1>3. Idle.count = 0 /\ Idle.first = NoTime
  BY IdleIs DEF Is
<1>4. Is(Op(k, p, mode, enabled, x, 0, NoTime), k, p, enabled, x, 0, NoTime)
  BY OpIs
<1> QED BY <1>1, <1>2, <1>3, <1>4, Zenon

LEMMA FoundIs ==
  ASSUME OpInv, NEW a \in Actors, NEW p, NEW x, Become(a, [op[a] EXCEPT !.at = p, !.obj = x])
  PROVE  Is(op'[a], op[a].kind, p, op[a].enabled, x, op[a].count, op[a].first) /\ Only(a)
<1>1. op'[a] = [op[a] EXCEPT !.at = p, !.obj = x] /\ Only(a)
  BY Moved, Zenon DEF Become
<1>2. [op[a] EXCEPT !.at = p, !.obj = x]
        = Op(op[a].kind, p, op[a].mode, op[a].enabled, x, op[a].count, op[a].first)
  BY OpAtObj DEF OpInv, OpsAreOps
<1>3. Is(Op(op[a].kind, p, op[a].mode, op[a].enabled, x, op[a].count, op[a].first),
         op[a].kind, p, op[a].enabled, x, op[a].count, op[a].first)
  BY OpIs
<1> QED BY <1>1, <1>2, <1>3, Zenon

LEMMA FirstIs ==
  ASSUME OpInv, NEW a \in Actors, NEW p, NEW f, Become(a, [op[a] EXCEPT !.at = p, !.first = f])
  PROVE  Is(op'[a], op[a].kind, p, op[a].enabled, op[a].obj, op[a].count, f) /\ Only(a)
<1>1. op'[a] = [op[a] EXCEPT !.at = p, !.first = f] /\ Only(a)
  BY Moved, Zenon DEF Become
<1>2. [op[a] EXCEPT !.at = p, !.first = f]
        = Op(op[a].kind, p, op[a].mode, op[a].enabled, op[a].obj, op[a].count, f)
  BY OpAtFirst DEF OpInv, OpsAreOps
<1>3. Is(Op(op[a].kind, p, op[a].mode, op[a].enabled, op[a].obj, op[a].count, f),
         op[a].kind, p, op[a].enabled, op[a].obj, op[a].count, f)
  BY OpIs
<1> QED BY <1>1, <1>2, <1>3, Zenon

LEMMA CountFirstIs ==
  ASSUME OpInv, NEW a \in Actors, NEW p, NEW c, NEW f,
         Become(a, [op[a] EXCEPT !.at = p, !.count = c, !.first = f])
  PROVE  Is(op'[a], op[a].kind, p, op[a].enabled, op[a].obj, c, f) /\ Only(a)
<1>1. op'[a] = [op[a] EXCEPT !.at = p, !.count = c, !.first = f] /\ Only(a)
  BY Moved, Zenon DEF Become
<1>2. [op[a] EXCEPT !.at = p, !.count = c, !.first = f]
        = Op(op[a].kind, p, op[a].mode, op[a].enabled, op[a].obj, c, f)
  <2> DEFINE n1 == [op[a] EXCEPT !.at = p]
             n2 == [n1 EXCEPT !.count = c]
             n3 == [n2 EXCEPT !.first = f]
  <2>1. [op[a] EXCEPT !.at = p, !.count = c, !.first = f] = n3
    BY Zenon
  <2>2. n1 = At(op[a], p)
    BY OpAt DEF OpInv, OpsAreOps
  <2> HIDE DEF n1
  <2>3. n2 = Op(op[a].kind, p, op[a].mode, op[a].enabled, op[a].obj, c, op[a].first)
    BY <2>2 DEF At, Op
  <2> HIDE DEF n2
  <2>4. n3 = Op(op[a].kind, p, op[a].mode, op[a].enabled, op[a].obj, c, f)
    BY <2>3 DEF Op
  <2> QED BY <2>1, <2>4
<1>3. Is(Op(op[a].kind, p, op[a].mode, op[a].enabled, op[a].obj, c, f),
         op[a].kind, p, op[a].enabled, op[a].obj, c, f)
  BY OpIs
<1> QED BY <1>1, <1>2, <1>3, Zenon

LEMMA BeginsIs ==
  ASSUME OpInv, NEW a \in Actors, NEW k, NEW p, Become(a, [Idle EXCEPT !.kind = k, !.at = p])
  PROVE  Is(op'[a], k, p, Idle.enabled, 0, 0, NoTime) /\ Only(a)
<1>1. op'[a] = [Idle EXCEPT !.kind = k, !.at = p] /\ Only(a)
  BY Moved, Zenon DEF Become
<1>2. [Idle EXCEPT !.kind = k, !.at = p]
        = Op(k, p, Idle.mode, Idle.enabled, Idle.obj, Idle.count, Idle.first)
  BY OpKindAt, IdleIs
<1>3. Idle.obj = 0 /\ Idle.count = 0 /\ Idle.first = NoTime
  BY IdleIs DEF Is
<1>4. Is(Op(k, p, Idle.mode, Idle.enabled, 0, 0, NoTime), k, p, Idle.enabled, 0, 0, NoTime)
  BY OpIs
<1> QED BY <1>1, <1>2, <1>3, <1>4, Zenon

LEMMA ClaimsIs ==
  ASSUME OpInv, NEW a \in Actors, NEW k, NEW p, NEW c,
         Become(a, [Idle EXCEPT !.kind = k, !.at = p, !.count = c])
  PROVE  Is(op'[a], k, p, Idle.enabled, 0, c, NoTime) /\ Only(a)
<1>1. op'[a] = [Idle EXCEPT !.kind = k, !.at = p, !.count = c] /\ Only(a)
  BY Moved, Zenon DEF Become
<1>2. [Idle EXCEPT !.kind = k, !.at = p, !.count = c]
        = Op(k, p, Idle.mode, Idle.enabled, Idle.obj, c, Idle.first)
  BY OpKindAtCount, IdleIs
<1>3. Idle.obj = 0 /\ Idle.first = NoTime
  BY IdleIs DEF Is
<1>4. Is(Op(k, p, Idle.mode, Idle.enabled, 0, c, NoTime), k, p, Idle.enabled, 0, c, NoTime)
  BY OpIs
<1> QED BY <1>1, <1>2, <1>3, <1>4, Zenon

\* Where the actor of a step was and where it is after it.
Goes(a, from, to) == op[a].at \in from /\ op'[a].at \in to /\ Only(a)

LEMMA ScanGoes ==
  ASSUME OpInv, NEW w \in Actors, ScanStep(w)
  PROVE  Goes(w, {"idle", "listing", "marking", "counting"},
                 {"idle", "listing", "upserting", "marking", "counting", "scheduling"})
<1>1. CASE ScanBegin(w)
  BY <1>1, BeganIs DEF ScanBegin, Does, Goes, Is
<1>2. CASE ScanFound(w)
  BY <1>2, FoundIs DEF ScanFound, Does, Goes, Is
<1>3. CASE ScanMissed(w)
  BY <1>3, GotoIs DEF ScanMissed, Does, Goes, Is
<1>4. CASE ScanReset(w) \/ ScanFails(w)
  BY <1>4, RestsIs, IdleIs DEF ScanReset, ScanFails, Does, Goes, Is
<1>5. CASE ScanReadMissing(w)
  <2>1. \/ Become(w, Idle)
        \/ Become(w, [op[w] EXCEPT !.at = "counting", !.count = missing, !.first = firstMissing])
    BY <1>5 DEF ScanReadMissing
  <2>2. op[w].at = "marking"
    BY <1>5 DEF ScanReadMissing, Does
  <2> QED BY <2>1, <2>2, RestsIs, IdleIs, CountFirstIs DEF Goes, Is
<1>6. CASE ScanCountMissing(w)
  <2>1. \/ Become(w, Idle)
        \/ \E f : Become(w, [op[w] EXCEPT !.at = "scheduling", !.first = f])
    BY <1>6 DEF ScanCountMissing
  <2>2. op[w].at = "counting"
    BY <1>6 DEF ScanCountMissing, Does
  <2> QED BY <2>1, <2>2, RestsIs, IdleIs, FirstIs DEF Goes, Is
<1> QED BY <1>1, <1>2, <1>3, <1>4, <1>5, <1>6 DEF ScanStep

LEMMA SharedGoes ==
  ASSUME OpInv, NEW a \in Actors, SharedStep(a)
  PROVE  Goes(a, {"upserting", "enqueueing", "scheduling", "marking-replica", "enqueueing-delete"},
                 {"idle", "enqueueing", "marking", "marking-replica", "enqueueing-delete"})
<1>1. CASE UpsertObject(a)
  BY <1>1, GotoIs DEF UpsertObject, Does, Goes, Is
<1>2. CASE EnqueueBackup(a)
  BY <1>2, GotoIs, RestsIs, IdleIs DEF EnqueueBackup, Does, Goes, Is
<1>3. CASE ScheduleRead(a)
  BY <1>3, GotoIs, RestsIs, IdleIs DEF ScheduleRead, Does, Goes, Is
<1>4. CASE ScheduleReplica(a) \/ ScheduleEnqueue(a)
  BY <1>4, GotoIs, RestsIs, IdleIs DEF ScheduleReplica, ScheduleEnqueue, Does, Goes, Is
<1> QED BY <1>1, <1>2, <1>3, <1>4 DEF SharedStep

LEMMA BackupGoes ==
  ASSUME OpInv, NEW w \in Actors, BackupStep(w)
  PROVE  \/ /\ Goes(w, {"idle", "checking", "opening"},
                       {"checking", "opening", "putting", "error", "ok"})
            /\ UNCHANGED <<files, media, copy, album, world, history>>
         \/ BackupPut(w) /\ Goes(w, {"putting"}, {"recording"}) /\ op'[w].obj = op[w].obj
         \/ BackupRecord(w) /\ Goes(w, {"recording"}, {"ok"}) /\ op'[w].obj = op[w].obj
<1>1. ASSUME NEW v \in 1..Versions, BackupClaim(w, v)
      PROVE  Goes(w, {"idle"}, {"checking"}) /\ UNCHANGED <<files, media, copy, album, world, history>>
  BY <1>1, ClaimsIs DEF BackupClaim, Does, Goes, Is
<1>2. CASE BackupCheck(w)
  <2>1. \/ \E p \in {"ok", "error"} : Goto(w, p)
        \/ Become(w, [op[w] EXCEPT !.at = "opening", !.obj = indexed])
    BY <1>2 DEF BackupCheck
  <2>2. op[w].at = "checking" /\ UNCHANGED <<files, media, copy, album, world, history>>
    BY <1>2 DEF BackupCheck, Does
  <2>3. CASE \E p \in {"ok", "error"} : Goto(w, p)
    BY <2>2, <2>3, GotoIs DEF Goes, Is
  <2>4. CASE Become(w, [op[w] EXCEPT !.at = "opening", !.obj = indexed])
    BY <2>2, <2>4, FoundIs DEF Goes, Is
  <2> QED BY <2>1, <2>2, <2>3, <2>4
<1>3. CASE BackupOpen(w)
  BY <1>3, GotoIs DEF BackupOpen, Does, Goes, Is
<1>4. CASE BackupPut(w)
  BY <1>4, GotoIs DEF BackupPut, Does, Goes, Is
<1>5. CASE BackupRecord(w)
  BY <1>5, GotoIs DEF BackupRecord, Does, Goes, Is
<1> QED BY <1>1, <1>2, <1>3, <1>4, <1>5 DEF BackupStep, Goes

LEMMA MirrorGoes ==
  ASSUME OpInv, NEW w \in Actors, MirrorStep(w)
  PROVE  Goes(w, {"idle", "checking", "verifying", "deleting", "deleted"},
                 {"checking", "verifying", "deleting", "deleted", "ok", "error"})
<1>1. CASE MirrorClaim(w)
  BY <1>1, BeginsIs DEF MirrorClaim, Does, Goes, Is
<1>2. CASE MirrorCheck(w)
  BY <1>2, GotoIs DEF MirrorCheck, Does, Goes, Is
<1>3. CASE MirrorVerify(w)
  BY <1>3, GotoIs DEF MirrorVerify, Does, Goes, Is
<1>4. CASE MirrorDelete(w) \/ MirrorRecord(w)
  BY <1>4, GotoIs DEF MirrorDelete, MirrorRecord, Does, Goes, Is
<1> QED BY <1>1, <1>2, <1>3, <1>4 DEF MirrorStep

LEMMA FinishGoes ==
  ASSUME OpInv, NEW w \in Actors, Finish(w) \/ \E o \in {"error", "auth"} : ProviderFails(w, o)
  PROVE  \/ Goes(w, Outcome, {"idle"})
         \/ Goes(w, {"opening", "putting", "verifying", "deleting"}, {"error", "auth"})
<1>1. CASE Finish(w)
  BY <1>1, RestsIs, IdleIs DEF Finish, Goes, Is
<1>2. ASSUME NEW o \in {"error", "auth"}, ProviderFails(w, o)
      PROVE  Goes(w, {"opening", "putting", "verifying", "deleting"}, {"error", "auth"})
  BY <1>2, GotoIs DEF ProviderFails, FailsWith, Goes, Is
<1> QED BY <1>1, <1>2

AdminPlaces == {"idle", "unmarking", "cancelling", "resuming", "scheduling", "marking-replica",
                "enqueueing-delete", "cancelling-album", "cancelling-replica"}

LEMMA AdminGoes ==
  ASSUME OpInv, AdminStep
  PROVE  Only(Admin) /\ (op[Admin].at \in AdminPlaces => op'[Admin].at \in AdminPlaces)
<1>1. Admin \in Actors
  BY DEF Actors
<1>2. CASE CancelBegin \/ ResumeBegin \/ RemoveBegin
  <2>1. \E k : \E p \in {"unmarking", "resuming", "cancelling-album"} :
          Become(Admin, [Idle EXCEPT !.kind = k, !.at = p])
    BY <1>2 DEF CancelBegin, ResumeBegin, RemoveBegin
  <2> QED BY <1>1, <2>1, BeginsIs DEF AdminPlaces, Is
<1>3. CASE Unmark \/ CancelJob \/ RemoveCancelJobs \/ RemoveReplica
  <2>1. Become(Admin, Idle) \/ \E p \in {"cancelling", "cancelling-replica"} : Goto(Admin, p)
    BY <1>3 DEF Unmark, CancelJob, RemoveCancelJobs, RemoveReplica
  <2> QED BY <1>1, <2>1, RestsIs, IdleIs, GotoIs DEF AdminPlaces, Is
<1>4. CASE ResumeSchedule
  <2>1. \/ Become(Admin, Idle)
        \/ Become(Admin, [op[Admin] EXCEPT !.at = "scheduling", !.first = clock - Grace])
    BY <1>4 DEF ResumeSchedule
  <2> QED BY <1>1, <2>1, RestsIs, IdleIs, FirstIs DEF AdminPlaces, Is
<1>5. CASE SetEnabled \/ \E m \in {"safe", "mirror"} : SetMode(m)
  <2>1. \/ op' = op
        \/ Become(Admin, Idle)
        \/ Become(Admin, [Idle EXCEPT !.kind = "mode", !.at = "unmarking"])
    BY <1>5 DEF SetEnabled, SetMode
  <2>2. CASE op' = op
    BY <2>2 DEF Only
  <2>3. CASE Become(Admin, Idle)
    BY <1>1, <2>3, RestsIs, IdleIs DEF AdminPlaces, Is
  <2>4. CASE Become(Admin, [Idle EXCEPT !.kind = "mode", !.at = "unmarking"])
    BY <1>1, <2>4, BeginsIs DEF AdminPlaces, Is
  <2> QED BY <2>1, <2>2, <2>3, <2>4
<1> QED BY <1>2, <1>3, <1>4, <1>5 DEF AdminStep

LEMMA UploadGoes ==
  ASSUME OpInv, UploadBegin \/ UploadPut \/ UploadConflict PROVE Only(Upload)
<1>1. Upload \in Actors
  BY DEF Actors
<1>2. CASE UploadBegin
  BY <1>1, <1>2, BeganIs DEF UploadBegin
<1>3. CASE UploadPut
  BY <1>1, <1>3, FoundIs DEF UploadPut
<1>4. CASE UploadConflict
  BY <1>1, <1>4, RestsIs DEF UploadConflict
<1> QED BY <1>2, <1>3, <1>4

-------------------------------------------------------------------------------
(* The replica row of a safe album tells the truth *)

\* A worker that has put the file is about to record that very version; when no
\* worker is, the backup is the version of the row.  With a second worker, or
\* after a crash between the Put and the record, it need not be.
RecordsTrue(w) ==
  /\ op[w].at = "recording" => backup = op[w].obj
  /\ ~everMirror /\ replica # "none" /\ op[w].at # "recording" => backup = copied

\* The steps that touch neither the backup nor its record, but for the status.
LEMMA RecordsKept ==
  ASSUME NEW w, RecordsTrue(w), UNCHANGED <<backup, copied>>,
         replica' # "none" => replica # "none", everMirror => everMirror',
         op[w].at # "recording", op'[w].at # "recording"
  PROVE  RecordsTrue(w)'
  BY DEF RecordsTrue

LEMMA RecordsAsIs ==
  ASSUME NEW w, RecordsTrue(w), UNCHANGED <<backup, copied>>,
         replica' # "none" => replica # "none", everMirror => everMirror', op'[w] = op[w]
  PROVE  RecordsTrue(w)'
  BY DEF RecordsTrue

LEMMA RecordsInit == ASSUME NEW w, Workers = {w}, Init PROVE RecordsTrue(w)
  BY DEF Init, RecordsTrue, Actors, Idle

LEMMA RecordsInductive ==
  ASSUME NEW w, Workers = {w}, "crash" \notin FaultKinds, MirrorInv, RecordsTrue(w), [Next]_vars
  PROVE  RecordsTrue(w)'
<1> USE DEF media, copy, album, jobs, files, world, history
<1>1. w \in Actors /\ w \notin {Admin, Upload} /\ Actors = {w, Admin, Upload} /\ OpInv
  BY MirrorAssumption DEF Actors, MirrorInv
<1>2. CASE ScanStep(w)
  <2>1. UNCHANGED <<backup, copied, replica, everMirror>>
    BY <1>2 DEF ScanStep, ScanBegin, ScanFound, ScanMissed, ScanReset, ScanReadMissing,
                ScanCountMissing, ScanFails
  <2>2. op[w].at # "recording" /\ op'[w].at # "recording"
    BY <1>1, <1>2, ScanGoes DEF Goes
  <2> QED BY <2>1, <2>2, RecordsKept
<1>3. CASE BackupStep(w)
  <2>1. CASE BackupPut(w) /\ op'[w].obj = op[w].obj /\ op'[w].at = "recording"
    BY <2>1 DEF BackupPut, RecordsTrue
  <2>2. CASE BackupRecord(w) /\ op'[w].at = "ok"
    BY <2>2 DEF BackupRecord, Does, RecordsTrue
  <2>3. CASE /\ op[w].at # "recording" /\ op'[w].at # "recording"
             /\ UNCHANGED <<files, media, copy, album, world, history>>
    BY <2>3, RecordsKept
  <2> QED BY <1>1, <1>3, <2>1, <2>2, <2>3, BackupGoes DEF Goes
<1>4. CASE MirrorStep(w)
  <2>1. op[w].at # "recording" /\ op'[w].at # "recording"
    BY <1>1, <1>4, MirrorGoes DEF Goes
  <2>2. CASE MirrorDelete(w)
    <3>1. everMirror /\ everMirror' = everMirror
      BY <1>1, <2>2 DEF MirrorDelete, Does, OpInv, OpsAreJustified, Justified
    <3> QED BY <2>1, <3>1 DEF RecordsTrue
  <2>3. CASE ~MirrorDelete(w)
    <3>1. UNCHANGED <<backup, copied, everMirror>> /\ (replica' # "none" => replica # "none")
      BY <1>4, <2>3 DEF MirrorStep, MirrorClaim, MirrorCheck, MirrorVerify, MirrorRecord
    <3> QED BY <2>1, <3>1, RecordsKept
  <2> QED BY <2>2, <2>3
<1>5. CASE Finish(w) \/ \E o \in {"error", "auth"} : ProviderFails(w, o)
  <2>1. UNCHANGED <<backup, copied, replica, everMirror>>
    BY <1>5 DEF Finish, ProviderFails
  <2>2. op[w].at # "recording" /\ op'[w].at # "recording"
    BY <1>1, <1>5, FinishGoes DEF Goes, Outcome
  <2> QED BY <2>1, <2>2, RecordsKept
<1>6. ASSUME NEW a \in Actors, SharedStep(a) PROVE RecordsTrue(w)'
  <2>1. UNCHANGED <<backup, copied, everMirror>> /\ (replica' # "none" => replica # "none")
    BY <1>6 DEF SharedStep, UpsertObject, EnqueueBackup, ScheduleRead, ScheduleReplica,
                ScheduleEnqueue
  <2>2. CASE a = w
    <3>1. op[w].at # "recording" /\ op'[w].at # "recording"
      BY <1>1, <1>6, <2>2, SharedGoes DEF Goes
    <3> QED BY <2>1, <3>1, RecordsKept
  <2>3. CASE a # w
    <3>1. op'[w] = op[w]
      BY <1>1, <1>6, <2>3, SharedGoes DEF Goes, Only
    <3> QED BY <2>1, <3>1, RecordsAsIs
  <2> QED BY <2>2, <2>3
<1>7. CASE UploadBegin \/ UploadPut \/ UploadConflict
  <2>1. UNCHANGED <<backup, copied, replica, everMirror>>
    BY <1>7 DEF UploadBegin, UploadPut, UploadConflict
  <2>2. op'[w] = op[w]
    BY <1>1, <1>7, UploadGoes DEF Only
  <2> QED BY <2>1, <2>2, RecordsAsIs
<1>8. CASE AdminStep
  <2>1. UNCHANGED <<backup, copied>> /\ (replica' # "none" => replica # "none")
    BY <1>8 DEF AdminStep, CancelBegin, Unmark, CancelJob, ResumeBegin, ResumeSchedule, SetMode,
                SetEnabled, RemoveBegin, RemoveCancelJobs, RemoveReplica
  <2>2. everMirror' = everMirror \/ \E m : everMirror' = (everMirror \/ m = "mirror")
    BY <1>8 DEF AdminStep, CancelBegin, Unmark, CancelJob, ResumeBegin, ResumeSchedule, SetMode,
                SetEnabled, RemoveBegin, RemoveCancelJobs, RemoveReplica
  <2>3. everMirror => everMirror'
    BY <2>2, Zenon
  <2>4. op'[w] = op[w]
    BY <1>1, <1>8, AdminGoes DEF Only
  <2> QED BY <2>1, <2>3, <2>4, RecordsAsIs
<1>9. CASE Tick \/ (\E v \in NewContents : Edit(v)) \/ UNCHANGED vars
  <2>1. UNCHANGED <<backup, copied, replica, everMirror, op>>
    BY <1>9 DEF Tick, Edit, vars
  <2> QED BY <2>1, RecordsAsIs
<1>10. ~Crash
  BY DEF Crash
<1> QED BY <1>1, <1>2, <1>3, <1>4, <1>5, <1>6, <1>7, <1>8, <1>9, <1>10 DEF Next

\* With one worker and no crash, the backup of a safe album holds the version its
\* replica row names (Service.Backup: the Put, then the row).
THEOREM ReplicaRowTrue ==
  ASSUME NEW w, Workers = {w}, "crash" \notin FaultKinds PROVE Spec => []ReplicaIsTrue
<1>1. Init => RecordsTrue(w)
  BY RecordsInit
<1>2. MirrorInv /\ RecordsTrue(w) /\ [Next]_vars => RecordsTrue(w)'
  BY RecordsInductive
<1>3. RecordsTrue(w) => ReplicaIsTrue
  BY DEF RecordsTrue, ReplicaIsTrue, Does
<1> QED BY <1>1, <1>2, <1>3, MirrorInvariant, PTL DEF Spec

-------------------------------------------------------------------------------
(* A deletion was confirmed by two walks and by the grace period *)

\* Min of FiniteSetsExt for the count of Service.Scan.
LEMMA MinOfTwo == ASSUME NEW m \in Int, NEW n \in Int
  PROVE Min({m, n}) \in {m, n} /\ Min({m, n}) <= m /\ Min({m, n}) <= n
<1>1. \E x \in {m, n} : \A y \in {m, n} : x <= y
  OBVIOUS
<1>2. Min({m, n}) \in {m, n} /\ \A y \in {m, n} : Min({m, n}) <= y
  BY <1>1, Zenon DEF Min
<1> QED BY <1>2

CountTypes ==
  /\ clock \in Nat /\ absences \in Nat /\ missing \in Nat
  /\ firstMissing \in Int /\ absentSince \in Int
  /\ "upload" \in DOMAIN spent /\ spent["upload"] \in Nat

\* The row of the item counts no more walks than missed the file, and remembers
\* a time no earlier than that of the first of them.
Tally ==
  /\ missing <= absences
  /\ absentSince <= clock
  /\ missing = 0 => firstMissing = NoTime
  /\ firstMissing # NoTime => absentSince <= firstMissing

\* Only a worker walks, counts and verifies.
Bystanders == op[Upload] = Idle /\ op[Admin].at \in AdminPlaces

\* A walk that missed the file is counted once; what is about to be deleted was
\* confirmed.
WalkCounted(o) ==
  /\ o.at = "marking" /\ o.obj = 0 => missing < absences
  /\ o.at = "enqueueing" => o.obj # 0
  /\ o.at = "counting" => o.count = missing /\ missing < absences /\ o.first = firstMissing
  /\ o.at = "verifying" => absences >= 2 /\ clock >= absentSince + Grace

Counted(w) == CountTypes /\ Tally /\ Bystanders /\ WalkCounted(op[w])

\* The steps that leave the row and the walks alone and go nowhere they matter.
Uncounted == UNCHANGED <<clock, absences, absentSince, missing, firstMissing>>
Apart == {"marking", "enqueueing", "counting", "verifying"}

LEMMA UploadsSpent ==
  ASSUME CountTypes,
         \/ spent' = spent
         \/ \E e \in {"edit", "scan", "admin", "fault"} : spent' = [spent EXCEPT ![e] = @ + 1]
  PROVE  "upload" \in DOMAIN spent' /\ spent'["upload"] \in Nat
  BY DEF CountTypes

LEMMA CountKept ==
  ASSUME NEW w, Counted(w), Uncounted, Bystanders',
         "upload" \in DOMAIN spent' /\ spent'["upload"] \in Nat,
         op'[w] = op[w] \/ op'[w].at \notin Apart
  PROVE  Counted(w)'
<1>1. CountTypes' /\ Tally'
  BY DEF Counted, CountTypes, Tally, Uncounted
<1>2. WalkCounted(op[w])'
  BY DEF Counted, WalkCounted, Uncounted, Apart
<1> QED BY <1>1, <1>2 DEF Counted

LEMMA ScanCounts ==
  ASSUME NEW w \in Actors, w \notin {Admin, Upload}, OpInv, Counted(w), ScanStep(w)
  PROVE  Counted(w)'
<1> USE DEF media, copy, album, jobs, files, world, history
<1>1. Only(w)
  BY ScanGoes DEF Goes
<1>2. Bystanders'
  BY <1>1 DEF Only, Bystanders, Counted, Actors
<1>3. "upload" \in DOMAIN spent' /\ spent'["upload"] \in Nat
  <2>1. \/ spent' = spent
        \/ \E e \in {"scan", "fault"} : spent' = [spent EXCEPT ![e] = @ + 1]
    BY DEF ScanStep, ScanBegin, ScanFound, ScanMissed, ScanReset, ScanReadMissing,
           ScanCountMissing, ScanFails, Spend
  <2> QED BY <2>1, UploadsSpent DEF Counted
<1>4. CASE ScanBegin(w)
  <2>1. op'[w].at = "listing" /\ Uncounted
    BY <1>4, BeganIs DEF ScanBegin, Is, Uncounted, Spend
  <2> QED BY <1>2, <1>3, <2>1, CountKept DEF Apart
<1>5. CASE ScanFound(w)
  <2>1. op'[w].at = "upserting" /\ Uncounted
    BY <1>5, FoundIs DEF ScanFound, Is, Uncounted
  <2> QED BY <1>2, <1>3, <2>1, CountKept DEF Apart
<1>6. CASE ScanMissed(w)
  <2>1. /\ op'[w].at = "marking" /\ UNCHANGED <<clock, missing, firstMissing>>
        /\ absences' = absences + 1
        /\ absentSince' = IF absences = 0 THEN clock ELSE absentSince
    BY <1>6, GotoIs DEF ScanMissed, Is
  <2>2. CountTypes'
    BY <1>3, <2>1 DEF Counted, CountTypes
  <2>3. Tally'
    BY <2>1 DEF Counted, CountTypes, Tally
  <2>4. WalkCounted(op[w])'
    BY <2>1 DEF Counted, CountTypes, Tally, WalkCounted
  <2> QED BY <1>2, <2>2, <2>3, <2>4 DEF Counted
<1>7. CASE ScanReset(w)
  <2>1. /\ op'[w].at = "idle" /\ UNCHANGED <<clock, absences, absentSince>>
        /\ missing' = 0 /\ firstMissing' = NoTime
    BY <1>7, RestsIs, IdleIs DEF ScanReset, MissingReset, Is
  <2>2. CountTypes'
    BY <1>3, <2>1, MirrorAssumption DEF Counted, CountTypes, NoTime
  <2>3. Tally'
    BY <2>1 DEF Counted, CountTypes, Tally
  <2>4. WalkCounted(op[w])'
    BY <2>1 DEF WalkCounted
  <2> QED BY <1>2, <2>2, <2>3, <2>4 DEF Counted
<1>8. CASE ScanReadMissing(w)
  <2>1. Uncounted /\ op[w].at = "marking" /\ op[w].obj = 0
    BY <1>8 DEF ScanReadMissing, Does, Uncounted
  <2>2. CASE Become(w, Idle)
    <3>1. op'[w].at = "idle"
      BY <2>2, RestsIs, IdleIs DEF Is
    <3> QED BY <1>2, <1>3, <2>1, <3>1, CountKept DEF Apart
  <2>3. CASE Become(w, [op[w] EXCEPT !.at = "counting", !.count = missing, !.first = firstMissing])
    <3>1. op'[w].at = "counting" /\ op'[w].count = missing /\ op'[w].first = firstMissing
      <4>1. Is(op'[w], op[w].kind, "counting", op[w].enabled, op[w].obj, missing, firstMissing)
        BY <2>3, CountFirstIs
      <4> QED BY <4>1 DEF Is
    <3>2. CountTypes' /\ Tally'
      BY <1>3, <2>1 DEF Counted, CountTypes, Tally, Uncounted
    <3>3. WalkCounted(op[w])'
      BY <2>1, <3>1 DEF Counted, WalkCounted, Uncounted
    <3> QED BY <1>2, <3>2, <3>3 DEF Counted
  <2> QED BY <1>8, <2>2, <2>3 DEF ScanReadMissing
<1>9. CASE ScanCountMissing(w)
  <2> DEFINE first == IF op[w].first = NoTime THEN clock ELSE op[w].first
  <2>1. /\ UNCHANGED <<clock, absences, absentSince>>
        /\ missing' = NewCount(w)
        /\ firstMissing' = IF firstMissing = NoTime THEN first ELSE firstMissing
        /\ op[w].at = "counting"
    BY <1>9 DEF ScanCountMissing, Does
  <2>2. missing < absences /\ op[w].count = missing /\ op[w].first = firstMissing
    BY <2>1 DEF Counted, WalkCounted
  <2>3. missing' \in Nat /\ missing' >= 1 /\ missing' <= absences
    <3>1. NewCount(w) \in {missing + 1, 2} /\ NewCount(w) <= missing + 1
      <4>1. NewCount(w) = Min({missing + 1, 2})
        BY <2>2 DEF NewCount
      <4>2. missing + 1 \in Int
        BY DEF Counted, CountTypes
      <4> HIDE DEF Counted
      <4> QED BY <4>1, <4>2, MinOfTwo
    <3> QED BY <2>1, <2>2, <3>1 DEF Counted, CountTypes
  <2>4. firstMissing' \in {clock, firstMissing} /\ firstMissing' # NoTime
    BY <2>1, <2>2, MirrorAssumption DEF Counted, CountTypes, NoTime
  <2>5. CountTypes'
    BY <1>3, <2>1, <2>3, <2>4 DEF Counted, CountTypes
  <2>6. Tally'
    BY <2>1, <2>3, <2>4 DEF Counted, CountTypes, Tally
  <2>7. op'[w].at \in {"idle", "scheduling"}
    <3>1. Become(w, Idle) \/ Become(w, [op[w] EXCEPT !.at = "scheduling", !.first = first])
      BY <1>9 DEF ScanCountMissing
    <3> QED BY <3>1, RestsIs, IdleIs, FirstIs DEF Is
  <2>8. WalkCounted(op[w])'
    BY <2>7 DEF WalkCounted
  <2> QED BY <1>2, <2>5, <2>6, <2>8 DEF Counted
<1>10. CASE ScanFails(w)
  <2>1. op'[w].at = "idle" /\ Uncounted
    BY <1>10, RestsIs, IdleIs DEF ScanFails, Is, Uncounted, Spend
  <2> QED BY <1>2, <1>3, <2>1, CountKept DEF Apart
<1> QED BY <1>4, <1>5, <1>6, <1>7, <1>8, <1>9, <1>10 DEF ScanStep

LEMMA SharedCounts ==
  ASSUME NEW w \in Actors, w \notin {Admin, Upload}, Actors = {w, Admin, Upload},
         MirrorInv, Counted(w), NEW a \in Actors, SharedStep(a)
  PROVE  Counted(w)'
<1> USE DEF media, copy, album, jobs, files, world, history
<1>1. Only(a) /\ OpInv
  BY SharedGoes DEF Goes, MirrorInv
<1>2. a # Upload
  BY SharedGoes, IdleIs DEF Goes, Counted, Bystanders, Is, MirrorInv
<1>3. spent' = spent
  BY DEF SharedStep, UpsertObject, EnqueueBackup, ScheduleRead, ScheduleReplica,
         ScheduleEnqueue
<1>4. "upload" \in DOMAIN spent' /\ spent'["upload"] \in Nat
  BY <1>3 DEF Counted, CountTypes
<1>5. CASE ScheduleRead(a) \/ ScheduleReplica(a) \/ ScheduleEnqueue(a)
  <2>1. Uncounted
    BY <1>5 DEF ScheduleRead, ScheduleReplica, ScheduleEnqueue, Uncounted
  <2>2. op'[a].at \in {"idle", "marking-replica", "enqueueing-delete"}
    BY <1>1, <1>5, GotoIs, RestsIs, IdleIs
       DEF ScheduleRead, ScheduleReplica, ScheduleEnqueue, Is
  <2>3. Bystanders'
    BY <1>1, <1>2, <2>2 DEF Only, Bystanders, Counted, Actors, AdminPlaces
  <2>4. op'[w] = op[w] \/ op'[w].at \notin Apart
    BY <1>1, <2>2 DEF Only, Apart
  <2> QED BY <1>4, <2>1, <2>3, <2>4, CountKept
<1>6. CASE UpsertObject(a) \/ EnqueueBackup(a)
  <2>1. a = w
    BY <1>2, <1>6 DEF UpsertObject, EnqueueBackup, Does, Counted, Bystanders, AdminPlaces
  <2>2. Bystanders'
    BY <1>1, <2>1 DEF Only, Bystanders, Counted, Actors
  <2>3. CASE UpsertObject(w)
    <3>1. /\ op'[w].at \in {"enqueueing", "marking"} /\ op'[w].obj = op[w].obj
          /\ missing' = 0 /\ firstMissing' = NoTime
          /\ absences' = 0 /\ absentSince' = NoTime /\ clock' = clock
      BY <1>1, <2>3, GotoIs DEF UpsertObject, MissingReset, Is
    <3>2. op[w].obj # 0
      BY <2>3 DEF UpsertObject, Does, MirrorInv, OpInv, OpsAreJustified, Justified
    <3>3. CountTypes'
      BY <1>4, <3>1, MirrorAssumption DEF Counted, CountTypes, NoTime
    <3>4. Tally'
      BY <3>1, MirrorAssumption DEF Counted, CountTypes, Tally, NoTime
    <3>5. WalkCounted(op[w])'
      BY <3>1, <3>2 DEF WalkCounted
    <3> QED BY <2>2, <3>3, <3>4, <3>5 DEF Counted
  <2>4. CASE EnqueueBackup(w)
    <3>1. Uncounted
      BY <2>4 DEF EnqueueBackup, Uncounted
    <3>2. op'[w].at = "idle" \/ (op'[w].at = "marking" /\ op'[w].obj = op[w].obj)
      <4>1. Become(w, Idle) \/ Goto(w, "marking")
        BY <2>4 DEF EnqueueBackup
      <4>2. CASE Become(w, Idle)
        BY <1>1, <4>2, RestsIs, IdleIs DEF Is
      <4>3. CASE Goto(w, "marking")
        <5>1. Is(op'[w], op[w].kind, "marking", op[w].enabled, op[w].obj, op[w].count, op[w].first)
          BY <1>1, <4>3, GotoIs
        <5> QED BY <5>1 DEF Is
      <4> QED BY <4>1, <4>2, <4>3
    <3>3. op[w].obj # 0
      BY <2>4 DEF EnqueueBackup, Does, Counted, WalkCounted
    <3>4. CountTypes' /\ Tally'
      BY <1>4, <3>1 DEF Counted, CountTypes, Tally, Uncounted
    <3>5. WalkCounted(op[w])'
      BY <3>2, <3>3 DEF WalkCounted
    <3> QED BY <2>2, <3>4, <3>5 DEF Counted
  <2> QED BY <1>6, <2>1, <2>3, <2>4
<1> QED BY <1>5, <1>6 DEF SharedStep

LEMMA JobsCount ==
  ASSUME NEW w \in Actors, w \notin {Admin, Upload}, OpInv, Counted(w),
         \/ BackupStep(w) \/ MirrorStep(w) \/ Finish(w)
         \/ \E o \in {"error", "auth"} : ProviderFails(w, o)
  PROVE  Counted(w)'
<1> USE DEF media, copy, album, jobs, files, world, history
<1>1. Only(w)
  BY BackupGoes, MirrorGoes, FinishGoes DEF Goes
<1>2. Bystanders'
  BY <1>1 DEF Only, Bystanders, Counted, Actors
<1>3. Uncounted /\ (spent' = spent \/ spent' = [spent EXCEPT !["fault"] = @ + 1])
  BY DEF BackupStep, BackupClaim, BackupCheck, BackupOpen, BackupPut, BackupRecord,
         MirrorStep, MirrorClaim, MirrorCheck, MirrorVerify, MirrorDelete, MirrorRecord,
         Finish, ProviderFails, Spend, Uncounted
<1>4. "upload" \in DOMAIN spent' /\ spent'["upload"] \in Nat
  BY <1>3, UploadsSpent DEF Counted
<1>5. CASE op'[w].at \notin Apart
  BY <1>2, <1>3, <1>4, <1>5, CountKept
<1>6. CASE op'[w].at \in Apart
  <2>1. MirrorStep(w) /\ op'[w].at = "verifying"
    BY <1>6, BackupGoes, MirrorGoes, FinishGoes DEF Goes, Apart
  <2>2. MirrorCheck(w)
    <3>1. ASSUME MirrorClaim(w) PROVE FALSE
      <4>1. Become(w, [Idle EXCEPT !.kind = "mirror", !.at = "checking"])
        BY <3>1 DEF MirrorClaim
      <4>2. Is(op'[w], "mirror", "checking", Idle.enabled, 0, 0, NoTime)
        BY <4>1, BeginsIs
      <4> QED BY <2>1, <4>2 DEF Is
    <3>2. ~MirrorVerify(w)
      <4>1. ASSUME MirrorVerify(w) PROVE FALSE
        <5>1. \E p \in {"deleting", "ok"} : Goto(w, p)
          BY <4>1 DEF MirrorVerify
        <5> QED BY <2>1, <5>1, GotoIs DEF Is
      <4> QED BY <4>1
    <3>3. ~MirrorDelete(w) /\ ~MirrorRecord(w)
      BY <2>1, GotoIs DEF MirrorDelete, MirrorRecord, Is
    <3> QED BY <2>1, <3>1, <3>2, <3>3 DEF MirrorStep
  <2>3. MayDelete
    BY <2>1, <2>2, GotoIs DEF MirrorCheck, Is
  <2>4. absences >= 2 /\ clock >= absentSince + Grace
    BY <2>3, MirrorAssumption DEF MayDelete, Counted, CountTypes, Tally
  <2>5. CountTypes' /\ Tally'
    BY <1>3, <1>4 DEF Counted, CountTypes, Tally, Uncounted
  <2>6. WalkCounted(op[w])'
    BY <1>3, <2>1, <2>4 DEF WalkCounted, Uncounted
  <2> QED BY <1>2, <2>5, <2>6 DEF Counted
<1> QED BY <1>5, <1>6

LEMMA CountedInductive ==
  ASSUME NEW w, Workers = {w}, MaxUploads = 0, MirrorInv, Counted(w), [Next]_vars
  PROVE  Counted(w)'
<1> USE DEF media, copy, album, jobs, files, world, history
<1>1. w \in Actors /\ w \notin {Admin, Upload} /\ Actors = {w, Admin, Upload} /\ OpInv
  BY MirrorAssumption DEF Actors, MirrorInv
<1>2. CASE ScanStep(w)
  BY <1>1, <1>2, ScanCounts
<1>3. ASSUME NEW a \in Actors, SharedStep(a) PROVE Counted(w)'
  BY <1>1, <1>3, SharedCounts
<1>4. CASE \/ BackupStep(w) \/ MirrorStep(w) \/ Finish(w)
           \/ \E o \in {"error", "auth"} : ProviderFails(w, o)
  BY <1>1, <1>4, JobsCount
<1>5. ~UploadBegin /\ ~UploadPut /\ ~UploadConflict
  <2>1. op[Upload].at = "idle"
    BY IdleIs DEF Counted, Bystanders, Is
  <2>2. ~(spent["upload"] < MaxUploads)
    BY DEF Counted, CountTypes
  <2> QED BY <2>1, <2>2 DEF UploadBegin, UploadPut, UploadConflict, Does, Spend
<1>6. CASE AdminStep
  <2>1. Uncounted /\ (spent' = spent \/ spent' = [spent EXCEPT !["admin"] = @ + 1])
    BY <1>6 DEF AdminStep, CancelBegin, Unmark, CancelJob, ResumeBegin, ResumeSchedule, SetMode,
                SetEnabled, RemoveBegin, RemoveCancelJobs, RemoveReplica, AdminBegin, Spend,
                Uncounted
  <2>2. op'[w] = op[w] /\ Bystanders'
    BY <1>1, <1>6, AdminGoes, MirrorAssumption DEF Only, Bystanders, Counted
  <2>3. "upload" \in DOMAIN spent' /\ spent'["upload"] \in Nat
    BY <2>1, UploadsSpent DEF Counted
  <2> QED BY <2>1, <2>2, <2>3, CountKept
<1>7. CASE Tick
  <2>1. clock' = clock + 1 /\ UNCHANGED <<absences, absentSince, missing, firstMissing, op, spent>>
    BY <1>7 DEF Tick
  <2>2. CountTypes' /\ Tally'
    BY <2>1 DEF Counted, CountTypes, Tally
  <2>3. Bystanders' /\ WalkCounted(op[w])'
    BY <2>1, MirrorAssumption DEF Counted, CountTypes, Bystanders, WalkCounted
  <2> QED BY <2>2, <2>3 DEF Counted
<1>8. CASE (\E v \in NewContents : Edit(v)) \/ UNCHANGED vars
  <2>1. Uncounted /\ op' = op /\ (spent' = spent \/ spent' = [spent EXCEPT !["edit"] = @ + 1])
    BY <1>8 DEF Edit, vars, Uncounted
  <2>2. "upload" \in DOMAIN spent' /\ spent'["upload"] \in Nat
    BY <2>1, UploadsSpent DEF Counted
  <2>3. Bystanders'
    BY <2>1 DEF Counted, Bystanders
  <2> QED BY <2>1, <2>2, <2>3, CountKept
<1>9. CASE Crash
  <2>1. /\ Uncounted /\ op' = [a \in Actors |-> Idle]
        /\ spent' = [spent EXCEPT !["fault"] = @ + 1]
    BY <1>9 DEF Crash, Spend, Uncounted
  <2>2. "upload" \in DOMAIN spent' /\ spent'["upload"] \in Nat
    BY <2>1, UploadsSpent DEF Counted
  <2>3. op'[w] = Idle /\ op'[Upload] = Idle /\ op'[Admin] = Idle
    BY <1>1, <2>1
  <2>4. Bystanders' /\ op'[w].at \notin Apart
    BY <2>3, IdleIs DEF Bystanders, AdminPlaces, Apart, Is
  <2> QED BY <2>1, <2>2, <2>4, CountKept
<1> QED BY <1>1, <1>2, <1>3, <1>4, <1>5, <1>6, <1>7, <1>8, <1>9 DEF Next

LEMMA CountedInit == ASSUME NEW w, Workers = {w}, Init PROVE Counted(w)
<1>1. CountTypes
  BY MirrorAssumption DEF Init, CountTypes, NoTime
<1>2. Tally
  BY MirrorAssumption DEF Init, Tally, NoTime
<1>3. op[w] = Idle /\ op[Upload] = Idle /\ op[Admin] = Idle
  BY DEF Init, Actors
<1>4. Bystanders /\ WalkCounted(op[w])
  BY <1>3, IdleIs DEF Bystanders, AdminPlaces, WalkCounted, Is
<1> QED BY <1>1, <1>2, <1>4 DEF Counted

\* With one worker and no upload a backup is given up only after two complete
\* walks in a row missed the file and the grace period is over, whoever edits,
\* restores, cancels, resumes or crashes (Service.executeMirrorDelete).
THEOREM DeletionIsConfirmed ==
  ASSUME NEW worker, Workers = {worker}, MaxUploads = 0 PROVE Spec => DeletionConfirmed
<1>1. Init => Counted(worker)
  BY CountedInit
<1>2. MirrorInv /\ Counted(worker) /\ [Next]_vars => Counted(worker)'
  BY CountedInductive
<1> DEFINE Confirmed == \A w \in Workers : Does(w, "verifying") /\ Does(w, "deleting")' =>
                          absences >= 2 /\ clock >= absentSince + Grace
<1>3. Counted(worker) /\ [Next]_vars => [Confirmed]_vars
  BY DEF Counted, WalkCounted, Does
<1>4. Spec => [][Confirmed]_vars
  <2> HIDE DEF Confirmed
  <2> QED BY <1>1, <1>2, <1>3, MirrorInvariant, PTL DEF Spec
<1> QED BY <1>4, PTL DEF DeletionConfirmed

-------------------------------------------------------------------------------
(* When all is settled the backup holds the file *)

\* Every version is indexed in the order it was written, and copied after it
\* was indexed; its job is enqueued after that.
VersionOrder ==
  /\ used \in Nat /\ used <= Versions /\ primary \in {0, used}
  /\ indexed \in Nat /\ indexed <= used
  /\ copied \in Nat /\ copied <= indexed
  /\ enabled
  /\ \A v \in 1..Versions : backupJob[v] # "absent" => v <= indexed

\* What the worker read is the version that is indexed, but while it has a newer
\* one to index.
Errand(o) ==
  /\ o.obj \in Nat
  /\ o.at \in {"listing", "counting"} => o.obj = 0
  /\ o.at = "upserting" => indexed <= o.obj /\ o.obj <= used
  /\ o.at \in {"enqueueing", "opening", "putting", "recording"} => o.obj = indexed
  /\ o.at = "marking" /\ o.obj # 0 => o.obj = indexed
  /\ o.at \in {"listing", "upserting", "enqueueing", "marking", "counting"} => o.kind = "scan"
  /\ o.at \in {"verifying", "deleting", "deleted"} => o.kind = "mirror"
  /\ o.kind = "scan" => o.enabled
  /\ o.kind = "backup" => o.count \in 1..Versions /\ o.count <= indexed

\* The version that is indexed and still there is backed up, or has a job that
\* will do it, or is about to get one.
UpToDate == ~removed /\ primary # 0 /\ indexed = primary
OnItsWay(o) ==
  /\ missing = 0
  /\ o.at \notin {"counting", "verifying", "deleting"}
  /\ o.at = "marking" => o.obj # 0
  /\ backupJob[indexed] = "absent" => o.at = "enqueueing"
  /\ backupJob[indexed] = "succeeded" => backup = indexed
  /\ o.at = "ok" /\ o.kind = "backup" /\ o.count = indexed => backup = indexed
  /\ copied = indexed => backup = indexed
Secured(o) == UpToDate => OnItsWay(o)

Backed(w) == VersionOrder /\ Errand(op[w]) /\ Secured(op[w])

\* The steps that leave files, item, copy, album and backup jobs alone.
Still == UNCHANGED <<primary, backup, indexed, copied, used, missing, enabled, removed, backupJob>>

LEMMA BackedAsIs ==
  ASSUME NEW w, Backed(w), Still, op'[w] = op[w] PROVE Backed(w)'
<1>1. VersionOrder'
  BY DEF Backed, VersionOrder, Still
<1>2. Errand(op[w])'
  BY DEF Backed, Errand, Still
<1>3. Secured(op[w])'
  BY DEF Backed, Secured, UpToDate, OnItsWay, Still
<1> QED BY <1>1, <1>2, <1>3 DEF Backed

\* ... and those that take the worker where nothing is promised.
Careless == {"idle", "checking", "scheduling", "marking-replica", "enqueueing-delete", "error",
             "auth"}

LEMMA BackedAnyway ==
  ASSUME NEW w, Backed(w), Still, op[w].at # "enqueueing", op'[w].at \in Careless,
         op'[w].obj \in Nat, op'[w].kind = "scan" => op'[w].enabled,
         op'[w].kind = "backup" => op'[w].count \in 1..Versions /\ op'[w].count <= indexed
  PROVE  Backed(w)'
<1>1. VersionOrder'
  BY DEF Backed, VersionOrder, Still
<1>2. Errand(op[w])'
  BY DEF Backed, Errand, Still, Careless
<1>3. Secured(op[w])'
  BY DEF Backed, Secured, UpToDate, OnItsWay, Still, Careless
<1> QED BY <1>1, <1>2, <1>3 DEF Backed

\* The worker goes there with what it has, or rests.
LEMMA BackedOnward ==
  ASSUME NEW w \in Actors, OpInv, Backed(w), Still, op[w].at # "enqueueing",
         NEW p \in Careless, Goto(w, p)
  PROVE  Backed(w)'
<1>1. Is(op'[w], op[w].kind, p, op[w].enabled, op[w].obj, op[w].count, op[w].first)
  BY GotoIs
<1>2. /\ op'[w].at = p /\ op'[w].obj = op[w].obj /\ op'[w].kind = op[w].kind
      /\ op'[w].count = op[w].count /\ op'[w].enabled = op[w].enabled
  BY <1>1 DEF Is
<1>3. op'[w].kind = "scan" => op'[w].enabled
  BY <1>2 DEF Backed, Errand
<1> QED BY <1>2, <1>3, BackedAnyway DEF Backed, Errand

LEMMA BackedAtRest ==
  ASSUME NEW w \in Actors, OpInv, Backed(w), Still, op[w].at # "enqueueing", Become(w, Idle)
  PROVE  Backed(w)'
<1>1. op'[w].at = "idle" /\ op'[w].obj = 0 /\ op'[w].kind = "none"
  BY RestsIs, IdleIs DEF Is
<1> QED BY <1>1, BackedAnyway DEF Careless

\* Service.Scan, with the two statements of upsertObject it shares with uploads.
LEMMA ScanBacks ==
  ASSUME NEW w \in Actors, OpInv, Backed(w), ScanStep(w) PROVE Backed(w)'
<1> USE DEF media, copy, album, jobs, files, world, history
<1>1. CASE ScanBegin(w)
  <2>1. Still /\ op[w].at = "idle"
    BY <1>1 DEF ScanBegin, Does, Spend, Still
  <2>2. Is(op'[w], "scan", "listing", enabled, 0, 0, NoTime)
    BY <1>1, BeganIs DEF ScanBegin
  <2>3. /\ op'[w].kind = "scan" /\ op'[w].at = "listing" /\ op'[w].obj = 0
        /\ op'[w].enabled = enabled
    BY <2>2 DEF Is
  <2>4. op'[w].enabled
    BY <2>3 DEF Backed, VersionOrder
  <2>5. VersionOrder'
    BY <2>1 DEF Backed, VersionOrder, Still
  <2>6. Errand(op[w])'
    BY <2>3, <2>4 DEF Errand
  <2>7. Secured(op[w])'
    BY <2>1, <2>3 DEF Backed, Secured, UpToDate, OnItsWay, Still
  <2> QED BY <2>5, <2>6, <2>7 DEF Backed
<1>2. CASE ScanFound(w)
  <2>1. Still /\ op[w].at = "listing" /\ primary # 0
    BY <1>2 DEF ScanFound, Does, Still
  <2>2. Is(op'[w], op[w].kind, "upserting", op[w].enabled, primary, op[w].count, op[w].first)
    BY <1>2, FoundIs DEF ScanFound
  <2>3. /\ op'[w].kind = op[w].kind /\ op'[w].at = "upserting" /\ op'[w].obj = primary
        /\ op'[w].enabled = op[w].enabled /\ op'[w].count = op[w].count
    BY <2>2 DEF Is
  <2>4. op[w].kind = "scan" /\ op'[w].enabled
    BY <2>1, <2>3 DEF Backed, Errand
  <2>5. VersionOrder'
    BY <2>1 DEF Backed, VersionOrder, Still
  <2>6. Errand(op[w])'
    BY <2>1, <2>3, <2>4 DEF Backed, VersionOrder, Errand, Still
  <2>7. Secured(op[w])'
    BY <2>1, <2>3 DEF Backed, Secured, UpToDate, OnItsWay, Still
  <2> QED BY <2>5, <2>6, <2>7 DEF Backed
<1>3. CASE ScanMissed(w)
  <2>1. Still /\ op[w].at = "listing" /\ primary = 0
    BY <1>3 DEF ScanMissed, Does, Still
  <2>2. Is(op'[w], op[w].kind, "marking", op[w].enabled, op[w].obj, op[w].count, op[w].first)
    BY <1>3, GotoIs DEF ScanMissed
  <2>3. /\ op'[w].kind = op[w].kind /\ op'[w].at = "marking" /\ op'[w].obj = op[w].obj
        /\ op'[w].enabled = op[w].enabled /\ op'[w].count = op[w].count
    BY <2>2 DEF Is
  <2>4. op[w].kind = "scan" /\ op'[w].enabled /\ op[w].obj = 0
    BY <2>1, <2>3 DEF Backed, Errand
  <2>5. VersionOrder'
    BY <2>1 DEF Backed, VersionOrder, Still
  <2>6. Errand(op[w])'
    BY <2>1, <2>3, <2>4 DEF Errand
  <2>7. Secured(op[w])'
    BY <2>1 DEF Secured, UpToDate, Still
  <2> QED BY <2>5, <2>6, <2>7 DEF Backed
<1>4. CASE ScanReset(w)
  <2>1. /\ UNCHANGED <<primary, backup, indexed, copied, used, enabled, removed, backupJob>>
        /\ missing' = 0 /\ op[w].at = "marking"
    BY <1>4 DEF ScanReset, MissingReset, Does
  <2>2. op'[w].at = "idle" /\ op'[w].obj = 0 /\ op'[w].kind = "none"
    BY <1>4, RestsIs, IdleIs DEF ScanReset, Is
  <2>3. VersionOrder'
    BY <2>1 DEF Backed, VersionOrder
  <2>4. Errand(op[w])'
    BY <2>2 DEF Errand
  <2>5. Secured(op[w])'
    BY <2>1, <2>2 DEF Backed, Secured, UpToDate, OnItsWay
  <2> QED BY <2>3, <2>4, <2>5 DEF Backed
<1>5. CASE ScanReadMissing(w)
  <2>1. Still /\ op[w].at = "marking" /\ op[w].obj = 0
    BY <1>5 DEF ScanReadMissing, Does, Still
  <2>2. CASE Become(w, Idle)
    BY <2>1, <2>2, BackedAtRest
  <2>3. CASE Become(w, [op[w] EXCEPT !.at = "counting", !.count = missing, !.first = firstMissing])
    <3>1. Is(op'[w], op[w].kind, "counting", op[w].enabled, op[w].obj, missing, firstMissing)
      BY <2>3, CountFirstIs
    <3>2. /\ op'[w].kind = op[w].kind /\ op'[w].at = "counting" /\ op'[w].obj = op[w].obj
          /\ op'[w].enabled = op[w].enabled
      BY <3>1 DEF Is
    <3>3. op[w].kind = "scan" /\ op[w].enabled
      BY <2>1 DEF Backed, Errand
    <3>7. /\ op'[w].kind = "scan" /\ op'[w].at = "counting" /\ op'[w].obj = 0
          /\ op'[w].enabled
      BY <2>1, <3>2, <3>3
    <3>4. VersionOrder'
      BY <2>1 DEF Backed, VersionOrder, Still
    <3>5. Errand(op[w])'
      BY <3>7 DEF Errand
    <3>6. Secured(op[w])'
      BY <2>1 DEF Backed, Secured, UpToDate, OnItsWay, Still
    <3> QED BY <3>4, <3>5, <3>6 DEF Backed
  <2> QED BY <1>5, <2>2, <2>3 DEF ScanReadMissing
<1>6. CASE ScanCountMissing(w)
  <2>1. /\ UNCHANGED <<primary, backup, indexed, copied, used, enabled, removed, backupJob>>
        /\ op[w].at = "counting"
    BY <1>6 DEF ScanCountMissing, Does
  <2>2. ~UpToDate /\ ~UpToDate'
    BY <2>1 DEF Backed, Secured, UpToDate, OnItsWay
  <2>3. VersionOrder'
    BY <2>1 DEF Backed, VersionOrder
  <2>4. Errand(op[w])'
    <3>1. \/ Become(w, Idle)
          \/ \E f : Become(w, [op[w] EXCEPT !.at = "scheduling", !.first = f])
      BY <1>6 DEF ScanCountMissing
    <3>2. CASE Become(w, Idle)
      <4>1. op'[w].at = "idle" /\ op'[w].obj = 0 /\ op'[w].kind = "none"
        BY <3>2, RestsIs, IdleIs DEF Is
      <4> QED BY <4>1 DEF Errand
    <3>3. ASSUME NEW f, Become(w, [op[w] EXCEPT !.at = "scheduling", !.first = f])
          PROVE  Errand(op[w])'
      <4>1. Is(op'[w], op[w].kind, "scheduling", op[w].enabled, op[w].obj, op[w].count, f)
        BY <3>3, FirstIs, Zenon
      <4>2. /\ op'[w].kind = op[w].kind /\ op'[w].at = "scheduling" /\ op'[w].obj = op[w].obj
            /\ op'[w].enabled = op[w].enabled /\ op'[w].count = op[w].count
        BY <4>1 DEF Is
      <4>3. op'[w].kind = "scan" => op'[w].enabled
        BY <4>2 DEF Backed, Errand
      <4> QED BY <2>1, <4>2, <4>3 DEF Backed, Errand
    <3> QED BY <3>1, <3>2, <3>3
  <2> QED BY <2>2, <2>3, <2>4 DEF Backed, Secured
<1>7. CASE ScanFails(w)
  <2>1. Still /\ op[w].at = "listing" /\ Become(w, Idle)
    BY <1>7 DEF ScanFails, Does, Spend, Still
  <2> QED BY <2>1, BackedAtRest
<1> QED BY <1>1, <1>2, <1>3, <1>4, <1>5, <1>6, <1>7 DEF ScanStep

LEMMA SharedBacks ==
  ASSUME NEW w \in Actors, MirrorInv, Backed(w), SharedStep(w) PROVE Backed(w)'
<1> USE DEF media, copy, album, jobs, files, world, history
<1>0. OpInv
  BY DEF MirrorInv
<1>1. CASE UpsertObject(w)
  <2>1. /\ UNCHANGED <<primary, backup, copied, used, enabled, removed, backupJob>>
        /\ op[w].at = "upserting" /\ op[w].kind = "scan"
        /\ indexed' = op[w].obj /\ missing' = 0
    BY <1>1 DEF UpsertObject, MissingReset, Does, Backed, Errand
  <2>2. Goto(w, IF indexed # op[w].obj THEN "enqueueing" ELSE "marking")
    BY <1>1, <2>1 DEF UpsertObject
  <2>3. PICK p : p = IF indexed # op[w].obj THEN "enqueueing" ELSE "marking"
    OBVIOUS
  <2>4. Is(op'[w], op[w].kind, p, op[w].enabled, op[w].obj, op[w].count, op[w].first)
    BY <1>0, <2>2, <2>3, GotoIs
  <2>5. /\ op'[w].kind = "scan" /\ op'[w].at = p /\ op'[w].obj = op[w].obj
        /\ op'[w].enabled = op[w].enabled
    BY <2>1, <2>4 DEF Is
  <2>6. op'[w].enabled
    BY <2>1, <2>5 DEF Backed, Errand
  <2>7. op[w].obj # 0 /\ indexed <= op[w].obj /\ op[w].obj <= used /\ op[w].obj \in Nat
    BY <2>1 DEF MirrorInv, OpInv, OpsAreJustified, Justified, Backed, Errand
  <2>8. VersionOrder'
    BY <2>1, <2>7 DEF Backed, VersionOrder
  <2>9. Errand(op[w])'
    BY <2>1, <2>3, <2>5, <2>6, <2>7 DEF Errand
  <2>10. Secured(op[w])'
    <3>1. CASE indexed = op[w].obj
      BY <2>1, <2>3, <2>5, <2>7, <3>1 DEF Backed, Secured, UpToDate, OnItsWay
    <3>2. CASE indexed # op[w].obj
      <4>1. op[w].obj \in 1..Versions /\ ~(op[w].obj <= indexed)
        BY <2>7, <3>2, MirrorAssumption DEF Backed, VersionOrder
      <4>2. backupJob'[indexed'] = "absent" /\ copied' # indexed'
        BY <2>1, <4>1 DEF Backed, VersionOrder
      <4>3. op'[w].at = "enqueueing"
        BY <2>3, <2>5, <3>2
      <4> QED BY <2>1, <4>2, <4>3 DEF Secured, OnItsWay
    <3> QED BY <3>1, <3>2
  <2> QED BY <2>8, <2>9, <2>10 DEF Backed
<1>2. CASE EnqueueBackup(w)
  <2>1. /\ UNCHANGED <<primary, backup, indexed, copied, used, missing, enabled, removed>>
        /\ op[w].at = "enqueueing" /\ op[w].kind = "scan" /\ op[w].obj = indexed
        /\ op[w].enabled
    BY <1>2 DEF EnqueueBackup, Does, Backed, Errand
  <2>2. Goto(w, "marking")
    BY <1>2, <2>1 DEF EnqueueBackup
  <2>3. backupJob' = [backupJob EXCEPT ![indexed] = AfterEnqueue(backupJob[indexed])]
    BY <1>2, <2>1 DEF EnqueueBackup, WantsBackup
  <2>4. Is(op'[w], op[w].kind, "marking", op[w].enabled, op[w].obj, op[w].count, op[w].first)
    BY <1>0, <2>2, GotoIs
  <2>5. /\ op'[w].kind = "scan" /\ op'[w].at = "marking" /\ op'[w].obj = indexed
        /\ op'[w].enabled = op[w].enabled
    BY <2>1, <2>4 DEF Is
  <2>6. op'[w].enabled
    BY <2>1, <2>5
  <2>7. indexed # 0 /\ indexed \in 1..Versions
    BY <2>1, MirrorAssumption
       DEF MirrorInv, OpInv, OpsAreJustified, Justified, Backed, VersionOrder
  <2>8. VersionOrder'
    BY <2>1, <2>3, <2>7 DEF MirrorInv, JobsHaveItems, Backed, VersionOrder
  <2>9. Errand(op[w])'
    BY <2>1, <2>5, <2>6, <2>7 DEF Errand
  <2>10. /\ backupJob'[indexed] # "absent"
         /\ backupJob'[indexed] = "succeeded" => backupJob[indexed] = "succeeded"
    BY <2>3, <2>7 DEF MirrorInv, JobsHaveItems, AfterEnqueue
  <2>11. Secured(op[w])'
    BY <2>1, <2>5, <2>7, <2>10 DEF Backed, Secured, UpToDate, OnItsWay
  <2> QED BY <2>8, <2>9, <2>11 DEF Backed
<1>3. CASE ScheduleRead(w) \/ ScheduleReplica(w) \/ ScheduleEnqueue(w)
  <2>1. \/ Become(w, Idle)
        \/ \E p \in {"marking-replica", "enqueueing-delete"} : Goto(w, p)
    BY <1>3 DEF ScheduleRead, ScheduleReplica, ScheduleEnqueue
  <2>2. Still /\ op[w].at # "enqueueing"
    BY <1>3 DEF ScheduleRead, ScheduleReplica, ScheduleEnqueue, Does, Still
  <2> QED BY <1>0, <2>1, <2>2, BackedAtRest, BackedOnward DEF Careless
<1> QED BY <1>1, <1>2, <1>3 DEF SharedStep

\* Service.Backup.
LEMMA BackupBacks ==
  ASSUME NEW w \in Actors, MirrorInv, Backed(w), RecordsTrue(w), BackupStep(w)
  PROVE  Backed(w)'
<1> USE DEF media, copy, album, jobs, files, world, history
<1>0. OpInv
  BY DEF MirrorInv
<1>1. ASSUME NEW v \in 1..Versions, BackupClaim(w, v) PROVE Backed(w)'
  <2>1. /\ UNCHANGED <<primary, backup, indexed, copied, used, missing, enabled, removed>>
        /\ backupJob' = [backupJob EXCEPT ![v] = "running"]
        /\ backupJob[v] = "pending" /\ op[w].at = "idle"
    BY <1>1 DEF BackupClaim, Does
  <2>2. Is(op'[w], "backup", "checking", Idle.enabled, 0, v, NoTime)
    BY <1>0, <1>1, ClaimsIs DEF BackupClaim
  <2>3. op'[w].kind = "backup" /\ op'[w].at = "checking" /\ op'[w].obj = 0 /\ op'[w].count = v
    BY <2>2 DEF Is
  <2>4. v <= indexed
    BY <2>1 DEF Backed, VersionOrder
  <2>5. VersionOrder'
    BY <2>1, <2>4 DEF MirrorInv, JobsHaveItems, Backed, VersionOrder
  <2>6. Errand(op[w])'
    BY <2>1, <2>3, <2>4 DEF Errand
  <2>7. ASSUME UpToDate PROVE indexed \in 1..Versions
    BY <2>7, MirrorAssumption DEF UpToDate, Backed, VersionOrder
  <2>8. Secured(op[w])'
    BY <2>1, <2>3, <2>7
       DEF MirrorInv, JobsHaveItems, Backed, Secured, UpToDate, OnItsWay
  <2> QED BY <2>5, <2>6, <2>8 DEF Backed
<1>2. CASE BackupCheck(w)
  <2>1. Still /\ op[w].at = "checking" /\ op[w].kind = "backup"
    BY <1>2 DEF BackupCheck, Does, Still
  <2>2. VersionOrder'
    BY <2>1 DEF Backed, VersionOrder, Still
  <2>3. CASE removed
    <3>1. Goto(w, "error")
      BY <1>2, <2>3 DEF BackupCheck
    <3> QED BY <1>0, <2>1, <3>1, BackedOnward DEF Careless
  <2>4. CASE ~removed /\ NothingToBackUp
    <3>1. Goto(w, "ok")
      BY <1>2, <2>4 DEF BackupCheck
    <3>2. Is(op'[w], op[w].kind, "ok", op[w].enabled, op[w].obj, op[w].count, op[w].first)
      BY <1>0, <3>1, GotoIs
    <3>3. /\ op'[w].kind = "backup" /\ op'[w].at = "ok" /\ op'[w].obj = op[w].obj
          /\ op'[w].count = op[w].count
      BY <2>1, <3>2 DEF Is
    <3>4. Errand(op[w])'
      BY <2>1, <3>3 DEF Backed, Errand, Still
    <3>5. missing = 0 => copied = indexed
      BY <2>4 DEF NothingToBackUp, Backed, VersionOrder
    <3>6. Secured(op[w])'
      BY <2>1, <3>3, <3>5 DEF Backed, Secured, UpToDate, OnItsWay, Still
    <3> QED BY <2>2, <3>4, <3>6 DEF Backed
  <2>5. CASE ~removed /\ ~NothingToBackUp
    <3>1. Become(w, [op[w] EXCEPT !.at = "opening", !.obj = indexed])
      BY <1>2, <2>5 DEF BackupCheck
    <3>2. Is(op'[w], op[w].kind, "opening", op[w].enabled, indexed, op[w].count, op[w].first)
      BY <1>0, <3>1, FoundIs
    <3>3. /\ op'[w].kind = "backup" /\ op'[w].at = "opening" /\ op'[w].obj = indexed
          /\ op'[w].count = op[w].count
      BY <2>1, <3>2 DEF Is
    <3>4. Errand(op[w])'
      BY <2>1, <3>3 DEF Backed, VersionOrder, Errand, Still
    <3>5. Secured(op[w])'
      BY <2>1, <3>3 DEF Backed, Secured, UpToDate, OnItsWay, Still
    <3> QED BY <2>2, <3>4, <3>5 DEF Backed
  <2> QED BY <2>3, <2>4, <2>5
<1>3. CASE BackupOpen(w)
  <2>1. Still /\ op[w].at = "opening" /\ op[w].obj = indexed
    BY <1>3 DEF BackupOpen, Does, Still, Backed, Errand
  <2>2. CASE Goto(w, "error")
    BY <1>0, <2>1, <2>2, BackedOnward DEF Careless
  <2>3. CASE Goto(w, "putting")
    <3>1. Is(op'[w], op[w].kind, "putting", op[w].enabled, op[w].obj, op[w].count, op[w].first)
      BY <1>0, <2>3, GotoIs
    <3>2. /\ op'[w].kind = op[w].kind /\ op'[w].at = "putting" /\ op'[w].obj = indexed
          /\ op'[w].count = op[w].count /\ op'[w].enabled = op[w].enabled
      BY <2>1, <3>1 DEF Is
    <3>3. op'[w].kind = "scan" => op'[w].enabled
      BY <3>2 DEF Backed, Errand
    <3>4. VersionOrder'
      BY <2>1 DEF Backed, VersionOrder, Still
    <3>5. Errand(op[w])'
      BY <2>1, <3>2, <3>3 DEF Backed, VersionOrder, Errand, Still
    <3>6. Secured(op[w])'
      BY <2>1, <3>2 DEF Backed, Secured, UpToDate, OnItsWay, Still
    <3> QED BY <3>4, <3>5, <3>6 DEF Backed
  <2> QED BY <1>3, <2>2, <2>3 DEF BackupOpen
<1>4. CASE BackupPut(w)
  <2>1. /\ UNCHANGED <<primary, indexed, copied, used, missing, enabled, removed, backupJob>>
        /\ op[w].at = "putting" /\ op[w].obj = indexed /\ backup' = indexed
    BY <1>4 DEF BackupPut, Does, Backed, Errand
  <2>2. Is(op'[w], op[w].kind, "recording", op[w].enabled, op[w].obj, op[w].count, op[w].first)
    BY <1>0, <1>4, GotoIs DEF BackupPut
  <2>3. /\ op'[w].kind = op[w].kind /\ op'[w].at = "recording" /\ op'[w].obj = indexed
        /\ op'[w].count = op[w].count /\ op'[w].enabled = op[w].enabled
    BY <2>1, <2>2 DEF Is
  <2>4. op'[w].kind = "scan" => op'[w].enabled
    BY <2>3 DEF Backed, Errand
  <2>5. VersionOrder'
    BY <2>1 DEF Backed, VersionOrder
  <2>6. Errand(op[w])'
    BY <2>1, <2>3, <2>4 DEF Backed, VersionOrder, Errand
  <2>7. Secured(op[w])'
    BY <2>1, <2>3 DEF Backed, Secured, UpToDate, OnItsWay
  <2> QED BY <2>5, <2>6, <2>7 DEF Backed
<1>5. CASE BackupRecord(w)
  <2>1. /\ UNCHANGED <<primary, backup, indexed, used, missing, enabled, removed, backupJob>>
        /\ op[w].at = "recording" /\ op[w].obj = indexed /\ copied' = indexed
    BY <1>5 DEF BackupRecord, Does, Backed, Errand
  <2>2. backup = indexed
    BY <2>1 DEF RecordsTrue
  <2>3. Is(op'[w], op[w].kind, "ok", op[w].enabled, op[w].obj, op[w].count, op[w].first)
    BY <1>0, <1>5, GotoIs DEF BackupRecord
  <2>4. /\ op'[w].kind = op[w].kind /\ op'[w].at = "ok" /\ op'[w].obj = indexed
        /\ op'[w].count = op[w].count /\ op'[w].enabled = op[w].enabled
    BY <2>1, <2>3 DEF Is
  <2>5. op'[w].kind = "scan" => op'[w].enabled
    BY <2>4 DEF Backed, Errand
  <2>6. VersionOrder'
    BY <2>1 DEF Backed, VersionOrder
  <2>7. Errand(op[w])'
    BY <2>1, <2>4, <2>5 DEF Backed, VersionOrder, Errand
  <2>8. Secured(op[w])'
    BY <2>1, <2>2, <2>4 DEF Backed, Secured, UpToDate, OnItsWay
  <2> QED BY <2>6, <2>7, <2>8 DEF Backed
<1> QED BY <1>1, <1>2, <1>3, <1>4, <1>5 DEF BackupStep

\* Service.executeMirrorDelete deletes no version that is indexed and there.
LEMMA MirrorBacks ==
  ASSUME NEW w \in Actors, OpInv, Backed(w), MirrorStep(w) PROVE Backed(w)'
<1> USE DEF media, copy, album, jobs, files, world, history
<1>1. CASE MirrorClaim(w)
  <2>1. Still /\ op[w].at = "idle"
    BY <1>1 DEF MirrorClaim, Does, Still
  <2>2. Is(op'[w], "mirror", "checking", Idle.enabled, 0, 0, NoTime)
    BY <1>1, BeginsIs DEF MirrorClaim
  <2>3. op'[w].kind = "mirror" /\ op'[w].at = "checking" /\ op'[w].obj = 0
    BY <2>2 DEF Is
  <2> QED BY <2>1, <2>3, BackedAnyway DEF Careless
<1>2. ASSUME NEW p \in {"verifying", "deleting", "deleted", "ok"}, Goto(w, p), Still,
             op[w].at \in {"checking", "verifying", "deleted"}, op[w].kind = "mirror",
             UpToDate => p \notin {"verifying", "deleting"}
      PROVE  Backed(w)'
  <2>1. Is(op'[w], op[w].kind, p, op[w].enabled, op[w].obj, op[w].count, op[w].first)
    BY <1>2, GotoIs
  <2>2. op'[w].kind = "mirror" /\ op'[w].at = p /\ op'[w].obj = op[w].obj
    BY <1>2, <2>1 DEF Is
  <2>3. VersionOrder'
    BY <1>2 DEF Backed, VersionOrder, Still
  <2>4. Errand(op[w])'
    BY <1>2, <2>2 DEF Backed, Errand, Still
  <2>5. Secured(op[w])'
    BY <1>2, <2>2 DEF Backed, Secured, UpToDate, OnItsWay, Still
  <2> QED BY <2>3, <2>4, <2>5 DEF Backed
<1>3. CASE MirrorCheck(w)
  <2>1. Still /\ op[w].at = "checking" /\ op[w].kind = "mirror"
    BY <1>3 DEF MirrorCheck, Does, Still
  <2>2. CASE removed
    <3>1. Goto(w, "error")
      BY <1>3, <2>2 DEF MirrorCheck
    <3> QED BY <2>1, <3>1, BackedOnward DEF Careless
  <2>3. CASE ~removed
    <3>1. UpToDate => ~MayDelete
      BY DEF MayDelete, Backed, Secured, OnItsWay
    <3>2. CASE MayDelete
      BY <1>2, <1>3, <2>1, <2>3, <3>1, <3>2 DEF MirrorCheck
    <3>3. CASE ~MayDelete
      BY <1>2, <1>3, <2>1, <2>3, <3>3 DEF MirrorCheck
    <3> QED BY <3>2, <3>3
  <2> QED BY <2>2, <2>3
<1>4. CASE MirrorVerify(w)
  <2>1. Still /\ op[w].at = "verifying" /\ op[w].kind = "mirror"
    BY <1>4 DEF MirrorVerify, Does, Still, Backed, Errand
  <2>2. \E p \in {"deleting", "ok"} : Goto(w, p)
    BY <1>4 DEF MirrorVerify
  <2>3. ~UpToDate
    BY <2>1 DEF Backed, Secured, OnItsWay
  <2> QED BY <1>2, <2>1, <2>2, <2>3
<1>5. CASE MirrorDelete(w)
  <2>1. /\ UNCHANGED <<primary, indexed, copied, used, missing, enabled, removed, backupJob>>
        /\ op[w].at = "deleting" /\ op[w].kind = "mirror"
    BY <1>5 DEF MirrorDelete, Does, Backed, Errand
  <2>2. ~UpToDate /\ ~UpToDate'
    BY <2>1 DEF Backed, Secured, OnItsWay, UpToDate
  <2>3. Is(op'[w], op[w].kind, "deleted", op[w].enabled, op[w].obj, op[w].count, op[w].first)
    BY <1>5, GotoIs DEF MirrorDelete
  <2>4. op'[w].kind = "mirror" /\ op'[w].at = "deleted" /\ op'[w].obj = op[w].obj
    BY <2>1, <2>3 DEF Is
  <2>5. VersionOrder'
    BY <2>1 DEF Backed, VersionOrder
  <2>6. Errand(op[w])'
    BY <2>4 DEF Backed, Errand
  <2> QED BY <2>2, <2>5, <2>6 DEF Backed, Secured
<1>6. CASE MirrorRecord(w)
  <2>1. Still /\ op[w].at = "deleted" /\ op[w].kind = "mirror" /\ Goto(w, "ok")
    BY <1>6 DEF MirrorRecord, Does, Still, Backed, Errand
  <2> QED BY <1>2, <2>1
<1> QED BY <1>1, <1>3, <1>4, <1>5, <1>6 DEF MirrorStep

\* Queue.finish: only a backup that has been made succeeds.
LEMMA FinishBacks ==
  ASSUME NEW w \in Actors, MirrorInv, Backed(w),
         Finish(w) \/ \E o \in {"error", "auth"} : ProviderFails(w, o)
  PROVE  Backed(w)'
<1> USE DEF media, copy, album, jobs, files, world, history
<1>0. OpInv
  BY DEF MirrorInv
<1>1. CASE Finish(w)
  <2>1. /\ UNCHANGED <<primary, backup, indexed, copied, used, missing, enabled, removed>>
        /\ op[w].at \in Outcome /\ Become(w, Idle)
    BY <1>1 DEF Finish
  <2>2. CASE op[w].kind # "backup"
    <3>1. Still /\ op[w].at # "enqueueing"
      BY <1>1, <2>1, <2>2 DEF Finish, Still, Outcome
    <3> QED BY <1>0, <2>1, <3>1, BackedAtRest
  <2>3. CASE op[w].kind = "backup"
    <3>1. PICK s \in JobState \ {"absent"} :
            /\ backupJob' = [backupJob EXCEPT ![op[w].count] = s]
            /\ s = "succeeded" => op[w].at = "ok"
      <4>1. PICK tries \in {0, 1} :
              backupJob' = [backupJob EXCEPT ![op[w].count] = AfterFinish(op[w].at, tries, 1)]
        BY <1>1, <2>3 DEF Finish
      <4>2. /\ AfterFinish(op[w].at, tries, 1) \in JobState \ {"absent"}
            /\ AfterFinish(op[w].at, tries, 1) = "succeeded" => op[w].at = "ok"
        BY <2>1 DEF AfterFinish, Outcome, JobState
      <4> QED BY <4>1, <4>2
    <3>2. op[w].count \in 1..Versions /\ op[w].count <= indexed
      BY <2>3 DEF Backed, Errand
    <3>3. op'[w].at = "idle" /\ op'[w].obj = 0 /\ op'[w].kind = "none"
      BY <1>0, <2>1, RestsIs, IdleIs DEF Is
    <3>4. VersionOrder'
      BY <2>1, <3>1, <3>2 DEF MirrorInv, JobsHaveItems, Backed, VersionOrder
    <3>5. Errand(op[w])'
      BY <3>3 DEF Errand
    <3>6. Secured(op[w])'
      <4>1. ASSUME UpToDate PROVE indexed \in 1..Versions
        BY <4>1, MirrorAssumption DEF UpToDate, Backed, VersionOrder
      <4> QED BY <2>1, <2>3, <3>1, <3>2, <3>3, <4>1
              DEF MirrorInv, JobsHaveItems, Backed, Secured, UpToDate, OnItsWay, Outcome
    <3> QED BY <3>4, <3>5, <3>6 DEF Backed
  <2> QED BY <2>2, <2>3
<1>2. ASSUME NEW o \in {"error", "auth"}, ProviderFails(w, o) PROVE Backed(w)'
  <2>1. Still /\ op[w].at # "enqueueing" /\ Goto(w, o)
    BY <1>2 DEF ProviderFails, FailsWith, Spend, Still
  <2> QED BY <1>0, <2>1, BackedOnward DEF Careless
<1> QED BY <1>1, <1>2

\* The administrator keeps backups enabled, and what is removed stays removed.
LEMMA AdminBacks ==
  ASSUME NEW w, Backed(w), op'[w] = op[w], "enable" \notin AdminOps, AdminStep
  PROVE  Backed(w)'
<1> USE DEF media, copy, album, jobs, files, world, history
<1>1. CASE CancelBegin \/ Unmark \/ CancelJob \/ ResumeBegin \/ ResumeSchedule \/ RemoveReplica
  <2>1. Still
    BY <1>1 DEF CancelBegin, Unmark, CancelJob, ResumeBegin, ResumeSchedule, RemoveReplica,
                AdminBegin, Spend, Still
  <2> QED BY <2>1, BackedAsIs
<1>2. ASSUME NEW m \in {"safe", "mirror"}, SetMode(m) PROVE Backed(w)'
  <2>1. Still
    BY <1>2 DEF SetMode, AdminBegin, Spend, Still
  <2> QED BY <2>1, BackedAsIs
<1>3. CASE RemoveBegin
  <2>1. /\ UNCHANGED <<primary, backup, indexed, copied, used, missing, enabled, backupJob>>
        /\ removed'
    BY <1>3 DEF RemoveBegin, AdminBegin, Spend
  <2>2. VersionOrder'
    BY <2>1 DEF Backed, VersionOrder
  <2>3. Errand(op[w])'
    BY <2>1 DEF Backed, Errand
  <2>4. Secured(op[w])'
    BY <2>1 DEF Secured, UpToDate
  <2> QED BY <2>2, <2>3, <2>4 DEF Backed
<1>4. CASE RemoveCancelJobs
  <2>1. /\ UNCHANGED <<primary, backup, indexed, copied, used, missing, enabled, removed>>
        /\ backupJob' = [v \in 1..Versions |-> AfterCancel(backupJob[v])]
    BY <1>4 DEF RemoveCancelJobs
  <2>2. \A v \in 1..Versions : /\ backupJob'[v] = "absent" <=> backupJob[v] = "absent"
                               /\ backupJob'[v] = "succeeded" <=> backupJob[v] = "succeeded"
    BY <2>1 DEF AfterCancel, Cancellable
  <2>3. VersionOrder'
    BY <2>1, <2>2 DEF Backed, VersionOrder
  <2>4. Errand(op[w])'
    BY <2>1 DEF Backed, Errand
  <2>5. ASSUME UpToDate PROVE indexed \in 1..Versions
    BY <2>5, MirrorAssumption DEF UpToDate, Backed, VersionOrder
  <2>6. Secured(op[w])'
    BY <2>1, <2>2, <2>5 DEF Backed, Secured, UpToDate, OnItsWay
  <2> QED BY <2>3, <2>4, <2>6 DEF Backed
<1>5. ~SetEnabled
  BY DEF SetEnabled, AdminBegin
<1> QED BY <1>1, <1>2, <1>3, <1>4, <1>5 DEF AdminStep

LEMMA BackedInductive ==
  ASSUME NEW w, Workers = {w}, "crash" \notin FaultKinds, MaxUploads = 0, Restores = FALSE,
         "enable" \notin AdminOps,
         MirrorInv, RecordsTrue(w), Counted(w), Backed(w), [Next]_vars
  PROVE  Backed(w)'
<1> USE DEF media, copy, album, jobs, files, world, history
<1>1. w \in Actors /\ w \notin {Admin, Upload} /\ Actors = {w, Admin, Upload} /\ OpInv
  BY MirrorAssumption DEF Actors, MirrorInv
<1>2. CASE ScanStep(w)
  BY <1>1, <1>2, ScanBacks
<1>3. CASE BackupStep(w)
  BY <1>1, <1>3, BackupBacks
<1>4. CASE MirrorStep(w)
  BY <1>1, <1>4, MirrorBacks
<1>5. CASE Finish(w) \/ \E o \in {"error", "auth"} : ProviderFails(w, o)
  BY <1>1, <1>5, FinishBacks
<1>6. ASSUME NEW a \in Actors, SharedStep(a) PROVE Backed(w)'
  <2>1. CASE a = w
    BY <1>1, <1>6, <2>1, SharedBacks
  <2>2. CASE a # w
    <3>1. op'[w] = op[w] /\ op[a].at \notin {"upserting", "enqueueing"}
      BY <1>1, <1>6, <2>2, SharedGoes, IdleIs
         DEF Goes, Only, Counted, Bystanders, AdminPlaces, Is
    <3>2. Still
      BY <1>6, <3>1 DEF SharedStep, UpsertObject, EnqueueBackup, ScheduleRead, ScheduleReplica,
                        ScheduleEnqueue, Does, Still
    <3> QED BY <3>1, <3>2, BackedAsIs
  <2> QED BY <2>1, <2>2
<1>7. ~UploadBegin /\ ~UploadPut /\ ~UploadConflict
  <2>1. op[Upload].at = "idle"
    BY IdleIs DEF Counted, Bystanders, Is
  <2>2. ~(spent["upload"] < MaxUploads)
    BY DEF Counted, CountTypes
  <2> QED BY <2>1, <2>2 DEF UploadBegin, UploadPut, UploadConflict, Does, Spend
<1>8. CASE AdminStep
  <2>1. op'[w] = op[w]
    BY <1>1, <1>8, AdminGoes DEF Only
  <2> QED BY <1>8, <2>1, AdminBacks
<1>9. CASE Tick \/ UNCHANGED vars
  <2>1. Still /\ op' = op
    BY <1>9 DEF Tick, vars, Still
  <2> QED BY <2>1, BackedAsIs
<1>10. ASSUME NEW v \in NewContents, Edit(v) PROVE Backed(w)'
  <2>1. /\ UNCHANGED <<backup, indexed, copied, missing, enabled, removed, backupJob, op>>
        /\ primary' = v /\ used' = Max({used, v})
    BY <1>10 DEF Edit
  <2>2. v = 0 \/ (v = used + 1 /\ used < Versions)
    BY DEF NewContents
  <2>3. used \in Nat /\ v \in Nat /\ indexed \in Nat /\ indexed <= used
    BY <2>2 DEF Backed, VersionOrder
  <2>4. used' \in Nat /\ used' >= used /\ used' <= Versions /\ (v = 0 \/ used' = v)
    BY <2>1, <2>2, <2>3, MaxOfTwo, MirrorAssumption DEF Backed, VersionOrder
  <2>5. ~UpToDate'
    BY <2>1, <2>2, <2>3 DEF UpToDate
  <2>6. VersionOrder'
    BY <2>1, <2>3, <2>4, MirrorAssumption DEF Backed, VersionOrder
  <2>7. Errand(op[w])'
    BY <2>1, <2>3, <2>4 DEF Backed, Errand
  <2> QED BY <2>5, <2>6, <2>7 DEF Backed, Secured
<1>11. ~Crash
  BY DEF Crash
<1> QED BY <1>1, <1>2, <1>3, <1>4, <1>5, <1>6, <1>7, <1>8, <1>9, <1>10, <1>11 DEF Next

LEMMA BackedInit ==
  ASSUME NEW w, Workers = {w}, Init PROVE Backed(w)
<1>1. op[w] = Idle
  BY DEF Init, Actors
<1>2. VersionOrder
  BY MirrorAssumption DEF Init, VersionOrder
<1>3. Errand(op[w])
  BY <1>1, IdleIs DEF Errand, Is
<1>4. Secured(op[w])
  BY DEF Init, Secured, UpToDate
<1> QED BY <1>2, <1>3, <1>4 DEF Backed

\* With one worker, no crash, no upload, backups left enabled and no file restored
\* to a version it had before, an item that is indexed as it is has its backup
\* once all jobs are done (Service.Scan, upsertObject, Backup, Queue.finish).
THEOREM SettledBackup ==
  ASSUME NEW w, Workers = {w}, "crash" \notin FaultKinds, MaxUploads = 0, Restores = FALSE,
         "enable" \notin AdminOps
  PROVE  Spec => []SettledIsBackedUp
<1>1. Init => RecordsTrue(w) /\ Counted(w) /\ Backed(w)
  BY RecordsInit, CountedInit, BackedInit
<1>2. MirrorInv /\ RecordsTrue(w) /\ Counted(w) /\ Backed(w) /\ [Next]_vars
        => RecordsTrue(w)' /\ Counted(w)' /\ Backed(w)'
  BY RecordsInductive, CountedInductive, BackedInductive
<1>3. Backed(w) => SettledIsBackedUp
  <2> SUFFICES ASSUME Backed(w), Settled, ~removed, primary # 0, indexed = primary
               PROVE  backup = primary
    BY DEF SettledIsBackedUp
  <2>1. op[w].at = "idle"
    BY IdleIs DEF Settled, Actors, Is
  <2>2. indexed \in 1..Versions
    BY MirrorAssumption DEF Backed, VersionOrder
  <2>3. backupJob[indexed] = "succeeded"
    BY <2>1, <2>2 DEF Settled, Done, Backed, Secured, UpToDate, OnItsWay
  <2> QED BY <2>3 DEF Backed, Secured, UpToDate, OnItsWay
<1> QED BY <1>1, <1>2, <1>3, MirrorInvariant, PTL DEF Spec
===============================================================================
