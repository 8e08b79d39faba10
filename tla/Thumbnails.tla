------------------------------ MODULE Thumbnails ------------------------------
(* internal/media/processor.go: the thumbnails of one media item, made by     *)
(* jobs beside the scans that index it, and evicted from the cache.           *)
(*                                                                            *)
(* Abstractions.  A content is a number, its fingerprint, and so is the       *)
(* picture made from it; 0 is no file.  A scan is walkProvider and the        *)
(* statements for this item (MirrorBackup has them in detail).  The queue is  *)
(* JobStates; an error leaves a job pending or failed.  Which row was used    *)
(* least recently is any row.  Every variant has the size 1.  What the *)
(* decoder says of a content is known from the start.  Two encoders that      *)
(* write one temporary file leave what the last of them wrote.                *)
(*                                                                            *)
(* Bounds: Versions of the file, which never comes back as it was;            *)
(* MaxScans, MaxEvictions, MaxFaults on the number of these events.           *)
EXTENDS JobStates, Integers, FiniteSets

CONSTANTS
  Workers,
  Variants,  \* "grid", "preview"
  Versions,  \* contents 1..Versions
  Verdicts,  \* what the decoder may say of each content
  None,      \* no variant
  CacheMax,  \* Config.CacheMaxBytes
  MaxScans, MaxEvictions, MaxFaults

Verdict == {"decodes", "broken", "left-alone"}

ASSUME ThumbnailsAssumption ==
  /\ Versions \in Nat \ {0} /\ Verdicts \subseteq [1..Versions -> Verdict]
  /\ {CacheMax, MaxScans, MaxEvictions, MaxFaults} \subseteq Nat

\* A variant of a version: a row of thumbnail_variants and a file.
Keys == (1..Versions) \X Variants

NoFile  == 0
Partial == -1  \* a file that is still being written
Pictures == {NoFile, Partial} \cup 1..Versions

VARIABLES
  \* the file in the primary storage and what the decoder says of its contents
  content, verdict,
  \* the row of media_items: source_version (0: no row), missing_scans > 0,
  \* processing_status
  version, missing, status,
  \* the rows of jobs thumb:<media>:<version>
  job,
  \* the rows of thumbnail_variants; the files of the cache, final and temporary
  rows, cache, temp,
  \* what the workers, the scan and the eviction are doing
  op, scan, eviction,
  \* the events counted for the bounds
  spent,
  \* history: keys that were evicted, and keys that two actors worked on at once
  \* or that a failure left between a file and its row
  evicted, torn

item    == <<version, missing, status>>
thumbs  == <<rows, cache, temp>>
history == <<evicted, torn>>
vars    == <<content, verdict, item, job, thumbs, op, scan, eviction, spent, history>>

\* at: the next step; job: the key of the job; the rest: what was read or made.
Idle == [at |-> "idle", job |-> 0, version |-> 0, picture |-> 0, todo |-> {}, variant |-> None]
NoScan == [at |-> "idle", seen |-> 0]
NoEviction == [at |-> "idle", total |-> 0, key |-> <<0, None>>]

Init ==
  /\ content = 1 /\ verdict \in Verdicts
  /\ version = 0 /\ missing = FALSE /\ status = "pending"
  /\ job = [v \in 1..Versions |-> "absent"]
  /\ rows = {} /\ cache = [k \in Keys |-> NoFile] /\ temp = [k \in Keys |-> NoFile]
  /\ op = [w \in Workers |-> Idle] /\ scan = NoScan /\ eviction = NoEviction
  /\ spent = [e \in {"scan", "eviction", "fault"} |-> 0]
  /\ evicted = {} /\ torn = {}

Does(w, place) == op[w].at = place
Goto(w, place) == op' = [op EXCEPT ![w].at = place]
Become(w, o)   == op' = [op EXCEPT ![w] = o]
End(w, outcome) == Become(w, [Idle EXCEPT !.at = outcome, !.job = op[w].job])
Spend(event, max) == spent[event] < max /\ spent' = [spent EXCEPT ![event] = @ + 1]

-------------------------------------------------------------------------------
(* The file and the scan *)

\* The file gets a new content, or is deleted before it gets the last one.
NewContents == {v \in 1..Versions : \A u \in {content, version, scan.seen} : u < v}

Edit ==
  /\ content # Versions
  /\ \E v \in ({0} \cup NewContents) \ {content} : content' = v
  /\ UNCHANGED <<verdict, item, job, thumbs, op, scan, eviction, spent, history>>

ScanList ==
  /\ scan.at = "idle"
  /\ Spend("scan", MaxScans)
  /\ scan' = [at |-> IF content = 0 THEN "counting" ELSE "upserting", seen |-> content]
  /\ UNCHANGED <<content, verdict, item, job, thumbs, op, eviction, history>>

\* Service.upsertObject.
ScanUpsert ==
  /\ scan.at = "upserting"
  /\ version' = scan.seen /\ missing' = FALSE
  /\ status' = IF version = scan.seen THEN status ELSE "pending"
  /\ scan' = IF version = scan.seen THEN NoScan ELSE [scan EXCEPT !.at = "enqueueing"]
  /\ UNCHANGED <<content, verdict, job, thumbs, op, eviction, spent, history>>

\* The dedupe key of the job.  (Mutant: of the item alone.)
JobOfItem(v) == 1
JobKey(v) == v

ScanEnqueue ==
  /\ scan.at = "enqueueing"
  /\ job' = [job EXCEPT ![JobKey(scan.seen)] = AfterEnqueue(@)]
  /\ scan' = NoScan
  /\ UNCHANGED <<content, verdict, item, thumbs, op, eviction, spent, history>>

ScanCountMissing ==
  /\ scan.at = "counting"
  /\ missing' = (version # 0)
  /\ scan' = NoScan
  /\ UNCHANGED <<content, verdict, version, status, job, thumbs, op, eviction, spent, history>>

-------------------------------------------------------------------------------
(* Processor.Process *)

\* The claim and GetMedia: whatever version the item has by now.
Claim(w) ==
  /\ Does(w, "idle")
  /\ \E v \in 1..Versions :
       /\ job[v] = "pending"
       /\ job' = [job EXCEPT ![v] = "running"]
       /\ Become(w, IF missing THEN [Idle EXCEPT !.at = "ok", !.job = v]
                    ELSE [Idle EXCEPT !.at = "opening", !.job = v, !.version = version])
  /\ UNCHANGED <<content, verdict, item, thumbs, scan, eviction, spent, history>>

\* OpenMedia and the copy: whatever content the file has by now.
OpenFile(w) ==
  /\ Does(w, "opening")
  /\ IF content = 0
     THEN End(w, "error")
     ELSE Become(w, [op[w] EXCEPT !.at = verdict[content], !.picture = content, !.todo = Variants])
  /\ UNCHANGED <<content, verdict, item, job, thumbs, scan, eviction, spent, history>>

\* A video, and it is too long or there is no ffmpeg.
LeaveAlone(w) ==
  /\ Does(w, "left-alone")
  /\ status' = "unavailable"
  /\ End(w, "ok")
  /\ UNCHANGED <<content, verdict, version, missing, job, thumbs, scan, eviction, spent, history>>

MarkFailed(w) ==
  /\ Does(w, "broken")
  /\ status' = "failed"
  /\ End(w, "error")
  /\ UNCHANGED <<content, verdict, version, missing, job, thumbs, scan, eviction, spent, history>>

-------------------------------------------------------------------------------
(* Processor.saveVariant *)

\* The version the thumbnail is stored under.  (Mutant: the one in the index.)
IndexedVersion(w) == version
StoredUnder(w) == op[w].version

KeyOf(w) == <<op[w].version, op[w].variant>>
Publishing(w) == op[w].at \in {"writing", "renaming", "stating", "inserting"}
Evicting(k)   == eviction.at \in {"removing", "deleting"} /\ eviction.key = k
BusyWith(k)   == {w \in Workers : Publishing(w) /\ KeyOf(w) = k}

\* The file that Save creates is a temporary one.  (Mutant: the final one.)
CreateInPlace(k) == [cache EXCEPT ![k] = Partial]
CreateAside(k) == cache

SaveBegin(w) ==
  /\ op[w].at \in {"decodes", "saving"}
  /\ \E v \in op[w].todo :
       LET k == <<StoredUnder(w), v>> IN
       /\ temp' = [temp EXCEPT ![k] = Partial]
       /\ cache' = CreateAside(k)
       /\ Become(w, [op[w] EXCEPT !.at = "writing", !.todo = @ \ {v}, !.variant = v,
                                  !.version = StoredUnder(w)])
       /\ torn' = IF BusyWith(k) # {} \/ Evicting(k) THEN torn \cup {k} ELSE torn
  /\ UNCHANGED <<content, verdict, item, job, rows, scan, eviction, spent, evicted>>

\* The encoder is done; another worker may have moved its file meanwhile.
SaveEnd(w) ==
  /\ Does(w, "writing")
  /\ LET k == KeyOf(w) IN
     IF temp[k] # NoFile
     THEN temp' = [temp EXCEPT ![k] = op[w].picture] /\ UNCHANGED cache
     ELSE /\ cache' = [cache EXCEPT ![k] = IF @ = Partial THEN op[w].picture ELSE @]
          /\ UNCHANGED temp
  /\ Goto(w, "renaming")
  /\ UNCHANGED <<content, verdict, item, job, rows, scan, eviction, spent, history>>

Rename(w) ==
  /\ Does(w, "renaming") /\ temp[KeyOf(w)] # NoFile
  /\ cache' = [cache EXCEPT ![KeyOf(w)] = temp[KeyOf(w)]]
  /\ temp' = [temp EXCEPT ![KeyOf(w)] = NoFile]
  /\ Goto(w, "stating")
  /\ UNCHANGED <<content, verdict, item, job, rows, scan, eviction, spent, history>>

RenameNothing(w) ==
  /\ Does(w, "renaming") /\ temp[KeyOf(w)] = NoFile
  /\ End(w, "error")
  /\ UNCHANGED <<content, verdict, item, job, thumbs, scan, eviction, spent, history>>

Stat(w) ==
  /\ Does(w, "stating")
  /\ IF cache[KeyOf(w)] = NoFile THEN End(w, "error") ELSE Goto(w, "inserting")
  /\ UNCHANGED <<content, verdict, item, job, thumbs, scan, eviction, spent, history>>

InsertVariant(w) ==
  /\ Does(w, "inserting")
  /\ rows' = rows \cup {KeyOf(w)}
  /\ IF op[w].todo = {}
     THEN End(w, "marking")
     ELSE Become(w, [op[w] EXCEPT !.at = "saving", !.variant = None])
  /\ UNCHANGED <<content, verdict, item, job, cache, temp, scan, eviction, spent, history>>

\* The item is ready, whatever version it has by now.
MarkReady(w) ==
  /\ Does(w, "marking")
  /\ status' = "ready"
  /\ End(w, "ok")
  /\ UNCHANGED <<content, verdict, version, missing, job, thumbs, scan, eviction, spent, history>>

Finish(w) ==
  /\ op[w].at \in {"ok", "error"}
  /\ \E tries \in {0, 1} : job' = [job EXCEPT ![op[w].job] = AfterFinish(op[w].at, tries, 1)]
  /\ Become(w, Idle)
  /\ UNCHANGED <<content, verdict, item, thumbs, scan, eviction, spent, history>>

-------------------------------------------------------------------------------
(* Processor.Evict *)

\* The loop goes on.
TooMuch(total) == total > CacheMax

EvictBegin ==
  /\ eviction.at = "idle" /\ TooMuch(Cardinality(rows))
  /\ Spend("eviction", MaxEvictions)
  /\ eviction' = [NoEviction EXCEPT !.at = "choosing", !.total = Cardinality(rows)]
  /\ UNCHANGED <<content, verdict, item, job, thumbs, op, scan, history>>

\* There is a row: only Evict deletes them, and it has counted these.
EvictChoose ==
  /\ eviction.at = "choosing" /\ rows # {}
  /\ \E k \in rows :
       /\ eviction' = [eviction EXCEPT !.at = "removing", !.key = k]
       /\ torn' = IF BusyWith(k) # {} THEN torn \cup {k} ELSE torn
  /\ UNCHANGED <<content, verdict, item, job, thumbs, op, scan, spent, evicted>>

\* What os.Remove leaves.  (Mutant: the file of another variant's path.)
Kept(k) == cache
Unlinked(k) == [cache EXCEPT ![k] = NoFile]

EvictFile ==
  /\ eviction.at = "removing"
  /\ cache' = Unlinked(eviction.key)
  /\ eviction' = [eviction EXCEPT !.at = "deleting"]
  /\ evicted' = evicted \cup {eviction.key}
  /\ UNCHANGED <<content, verdict, item, job, rows, temp, op, scan, spent, torn>>

EvictRow ==
  /\ eviction.at = "deleting"
  /\ rows' = rows \ {eviction.key}
  /\ LET total == eviction.total - 1 IN
     eviction' = IF TooMuch(total)
                 THEN [NoEviction EXCEPT !.at = "choosing", !.total = total]
                 ELSE NoEviction
  /\ UNCHANGED <<content, verdict, item, job, cache, temp, op, scan, spent, history>>

-------------------------------------------------------------------------------
(* Failures *)

\* Keys with a file and no row, or a row and no file, between two steps.
HalfDone == {KeyOf(w) : w \in {u \in Workers : op[u].at \in {"stating", "inserting"}}}
            \cup (IF eviction.at = "deleting" THEN {eviction.key} ELSE {})

\* A provider, a disk or a statement fails; a Rename that fails removes the
\* temporary file.
WorkerFails(w) ==
  /\ op[w].at \in {"opening", "decodes", "saving", "writing", "renaming", "stating",
                   "inserting", "marking"}
  /\ Spend("fault", MaxFaults)
  /\ End(w, "error")
  /\ temp' = IF Does(w, "renaming") THEN [temp EXCEPT ![KeyOf(w)] = NoFile] ELSE temp
  /\ torn' = IF op[w].at \in {"stating", "inserting"} THEN torn \cup {KeyOf(w)} ELSE torn
  /\ UNCHANGED <<content, verdict, item, job, rows, cache, scan, eviction, evicted>>

\* The process dies; the next one reclaims the jobs whose lease has run out.
Crash ==
  /\ Spend("fault", MaxFaults)
  /\ op' = [w \in Workers |-> Idle] /\ scan' = NoScan /\ eviction' = NoEviction
  /\ \E reclaimed \in BOOLEAN :
       job' = [v \in 1..Versions |->
                 IF job[v] = "running" /\ reclaimed THEN "pending" ELSE job[v]]
  /\ torn' = torn \cup HalfDone
  /\ UNCHANGED <<content, verdict, item, thumbs, evicted>>

-------------------------------------------------------------------------------

ScanStep == ScanList \/ ScanUpsert \/ ScanEnqueue \/ ScanCountMissing

WorkerStep(w) ==
  \/ Claim(w) \/ OpenFile(w) \/ LeaveAlone(w) \/ MarkFailed(w)
  \/ SaveBegin(w) \/ SaveEnd(w) \/ Rename(w) \/ RenameNothing(w) \/ Stat(w)
  \/ InsertVariant(w) \/ MarkReady(w) \/ Finish(w) \/ WorkerFails(w)

Evict == EvictBegin \/ EvictChoose \/ EvictFile \/ EvictRow

Next == Edit \/ ScanStep \/ Evict \/ Crash \/ \E w \in Workers : WorkerStep(w)

Spec == Init /\ [][Next]_vars

-------------------------------------------------------------------------------
(* Properties *)

\* Every variable has its type; the sum that Evict counts down stays a size.
TypeOK ==
  /\ content \in 0..Versions /\ verdict \in Verdicts
  /\ version \in 0..Versions /\ missing \in BOOLEAN
  /\ status \in {"pending", "ready", "failed", "unavailable"}
  /\ job \in [1..Versions -> JobState]
  /\ rows \subseteq Keys
  /\ cache \in [Keys -> Pictures] /\ temp \in [Keys -> Pictures]
  /\ \A w \in Workers : /\ op[w].version \in 0..Versions /\ op[w].picture \in 0..Versions
                        /\ op[w].todo \subseteq Variants
                        /\ Publishing(w) => KeyOf(w) \in Keys
  /\ scan.seen \in 0..Versions
  /\ eviction.total \in Nat
  /\ evicted \subseteq Keys /\ torn \subseteq Keys

\* A thumbnail never shows a content older than the version it is stored under:
\* saved under the version read before the file was opened, it is at worst ahead
\* of the index.  Browsers keep it for a year (handleThumbnail), so one that was
\* behind would stay.
NeverOlder == \A k \in Keys : cache[k] \in 1..Versions => cache[k] >= k[1]

\* A file of the cache is complete, because it is renamed into place
\* (saveVariant), unless two actors worked on it at a time.
WholeUnlessTorn == \A k \in Keys \ torn : cache[k] # Partial

\* The rows are the files, so that the sum of byte_size is the size of the
\* cache, but for the steps in between and for what a failure tore apart.
RowsMatchFilesUnlessTorn ==
  \A k \in Keys \ (torn \cup HalfDone) : k \in rows <=> cache[k] # NoFile

Settled ==
  /\ scan = NoScan /\ \A w \in Workers : op[w] = Idle
  /\ \A v \in 1..Versions : job[v] \notin {"pending", "running"}
  /\ version # 0 /\ content = version /\ ~missing

\* What OpenThumbnail serves of the version in the index.
Shown(variant) == IF <<version, variant>> \in rows THEN cache[<<version, variant>>] ELSE NoFile

\* Once nothing is left to do and the job of the version has succeeded, the
\* item is no longer pending, and what was not evicted shows that very version,
\* whatever late jobs of older versions did (docs/architecture.md: a new
\* source_version invalidates the thumbnails).
SettledIsShown ==
  Settled /\ job[JobKey(version)] = "succeeded" =>
    /\ status # "pending"
    /\ \A v \in Variants : verdict[version] = "decodes" /\ <<version, v>> \notin evicted \cup torn
                             => Shown(v) = version
===============================================================================
