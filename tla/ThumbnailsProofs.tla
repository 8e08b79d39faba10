--------------------------- MODULE ThumbnailsProofs ----------------------------
(* Proofs about Thumbnails, for any workers, variants, versions, sizes of the *)
(* cache and numbers of scans, evictions and failures.                        *)
EXTENDS Thumbnails, FiniteSetTheorems, TLAPS

-------------------------------------------------------------------------------
(* The invariant, in four layers *)

Stages == {"idle", "opening", "decodes", "broken", "left-alone", "saving", "writing",
           "renaming", "stating", "inserting", "marking", "ok", "error"}
Ops == [at : Stages, job : 0..Versions, version : 0..Versions, picture : 0..Versions,
        todo : SUBSET Variants, variant : Variants \cup {None}]

PictureStages == {"decodes", "broken", "left-alone", "saving", "writing", "renaming",
                  "stating", "inserting"}
PublishStages == {"writing", "renaming", "stating", "inserting"}

\* A worker that has opened the file of a version of the item.
HasPicture(w) == op[w].at \in PictureStages

\* Types: what a worker, the scan and the eviction hold where they stand.
OpOK(o) ==
  /\ o \in Ops
  /\ o.at # "idle" => o.job # 0
  /\ o.at \in PictureStages => o.version # 0 /\ o.picture # 0
  /\ o.at = "opening" => o.version # 0
  /\ o.at \in PublishStages => o.variant \in Variants

WorkerTypes == op \in [Workers -> Ops] /\ \A w \in Workers : OpOK(op[w])

ItemTypes ==
  /\ content \in 0..Versions /\ verdict \in Verdicts
  /\ version \in 0..Versions /\ missing \in BOOLEAN
  /\ status \in {"pending", "ready", "failed", "unavailable"}
  /\ job \in [1..Versions -> JobState]
  /\ scan \in [at : {"idle", "counting", "upserting", "enqueueing"}, seen : 0..Versions]
  /\ scan.at \in {"upserting", "enqueueing"} => scan.seen # 0

CacheTypes ==
  /\ rows \subseteq Keys /\ IsFiniteSet(rows)
  /\ cache \in [Keys -> Pictures] /\ temp \in [Keys -> Pictures]
  /\ evicted \subseteq Keys /\ torn \subseteq Keys

EvictionTypes ==
  /\ eviction \in [at : {"idle", "choosing", "removing", "deleting"}, total : Nat,
                   key : Keys \cup {<<0, None>>}]
  /\ eviction.at \in {"removing", "deleting"} => eviction.key \in Keys
  /\ eviction.at # "idle" => eviction.total > CacheMax

\* Nothing is done for an item that has no row.
Unindexed ==
  version = 0 => /\ scan.at # "enqueueing" /\ \A v \in 1..Versions : job[v] = "absent"
                 /\ \A w \in Workers : op[w].at = "idle"

TypesInv == ItemTypes /\ WorkerTypes /\ CacheTypes /\ EvictionTypes /\ Unindexed

\* Order: nothing is ahead of the index that was not seen by the scan, and what
\* was read of the file is not behind the version it is stored under.
ItemOrder ==
  /\ content # 0 => version <= content /\ scan.seen <= content
  /\ scan.at = "upserting" => version <= scan.seen
  /\ scan.at = "enqueueing" => scan.seen = version
  /\ \A v \in 1..Versions : job[v] # "absent" => v <= version

OpOrder(o) ==
  /\ o.version <= version /\ o.job <= version
  /\ o.at \in PictureStages => o.version <= o.picture /\ o.job <= o.version
  /\ o.at = "opening" => o.job <= o.version
  /\ o.at \in {"broken", "left-alone"} => o.at = verdict[o.picture]

KeyOrder(k) ==
  /\ k \in rows \/ cache[k] # NoFile \/ temp[k] # NoFile => k[1] <= version
  /\ cache[k] \in 1..Versions => cache[k] >= k[1]
  /\ temp[k] \in 1..Versions => temp[k] >= k[1]

OrderInv ==
  /\ ItemOrder
  /\ \A w \in Workers : OpOrder(op[w])
  /\ \A k \in Keys : KeyOrder(k)

\* Files: a key that is not torn has one actor at most, and its files and its
\* row are what that actor's place says.
Holds(w, k) == Publishing(w) /\ KeyOf(w) = k
Deleting(k) == eviction.at = "deleting" /\ eviction.key = k
Half(k) == Deleting(k) \/ \E u \in Workers : Holds(u, k) /\ op[u].at \in {"stating", "inserting"}

KeyFiles(k) ==
  /\ \A w \in Workers : Holds(w, k) =>
       /\ \A u \in Workers : Holds(u, k) => u = w
       /\ ~Evicting(k)
       /\ op[w].at = "writing" => temp[k] = Partial
       /\ op[w].at = "renaming" => temp[k] = op[w].picture
       /\ op[w].at \in {"stating", "inserting"} => cache[k] # NoFile
  /\ Deleting(k) => k \in evicted /\ cache[k] = NoFile
  /\ cache[k] # Partial
  /\ Half(k) \/ (k \in rows <=> cache[k] # NoFile)

FilesInv == \A k \in Keys \ torn : KeyFiles(k)

\* The variant of the indexed version has its row, or a reason to have none.
Present(v) == <<version, v>> \in rows \cup evicted \cup torn
Served ==
  /\ status # "pending"
  /\ verdict[version] = "decodes" => \A v \in Variants : Present(v)

UpToDate == version # 0 /\ content = version

\* What was read for the indexed version shows it, and how far a worker is with
\* the job of that version.
ShowsOp(o) == o.at \in PictureStages /\ o.version = version => o.picture = version
ServingOp(o) ==
  /\ o.at \in PictureStages =>
       \A v \in Variants : Present(v) \/ v \in o.todo \/ o.at \in {"broken", "left-alone"}
                                      \/ (o.at \in PublishStages /\ v = o.variant)
  /\ o.at = "marking" => \A v \in Variants : Present(v)
  /\ o.at = "ok" => Served
CurrentOp(o) == ShowsOp(o) /\ (o.job = version => ServingOp(o))

CurrentItem == ~missing /\ scan.at # "counting"
CurrentKey(v) ==
  /\ cache[<<version, v>>] \in 1..Versions => cache[<<version, v>>] = version
  /\ temp[<<version, v>>] \in 1..Versions => temp[<<version, v>>] = version

\* Current: while the file is the one in the index it has been that since the
\* item was indexed, so that whatever was read for this version shows it.
Current ==
  /\ CurrentItem
  /\ \A w \in Workers : CurrentOp(op[w])
  /\ \A v \in Variants : CurrentKey(v)
  /\ job[version] = "succeeded" => Served

CurrentInv == UpToDate => Current

-------------------------------------------------------------------------------
(* The records of the workers *)

Rec(a, j, v, p, t, x) ==
  [at |-> a, job |-> j, version |-> v, picture |-> p, todo |-> t, variant |-> x]
IsRec(o) == o = Rec(o.at, o.job, o.version, o.picture, o.todo, o.variant)

\* One field is changed, or several.
LEMMA SetAt == ASSUME NEW o, IsRec(o), NEW a
  PROVE  [o EXCEPT !.at = a] = Rec(a, o.job, o.version, o.picture, o.todo, o.variant)
  BY DEF IsRec, Rec

LEMMA Opened ==
  ASSUME NEW o, IsRec(o), NEW a, NEW p, NEW t
  PROVE  [o EXCEPT !.at = a, !.picture = p, !.todo = t]
           = Rec(a, o.job, o.version, p, t, o.variant)
<1>1. [o EXCEPT !.at = a, !.picture = p, !.todo = t]
        = [[[o EXCEPT !.at = a] EXCEPT !.picture = p] EXCEPT !.todo = t]
  OBVIOUS
<1>2. [o EXCEPT !.at = a] = Rec(a, o.job, o.version, o.picture, o.todo, o.variant)
  BY DEF IsRec, Rec
<1>3. [Rec(a, o.job, o.version, o.picture, o.todo, o.variant) EXCEPT !.picture = p] = Rec(a, o.job, o.version, p, o.todo, o.variant)
  BY DEF Rec
<1>4. [Rec(a, o.job, o.version, p, o.todo, o.variant) EXCEPT !.todo = t] = Rec(a, o.job, o.version, p, t, o.variant)
  BY DEF Rec
<1> QED BY <1>1, <1>2, <1>3, <1>4, Zenon

LEMMA Saving ==
  ASSUME NEW o, IsRec(o), NEW v
  PROVE  [o EXCEPT !.at = "writing", !.todo = @ \ {v}, !.variant = v, !.version = o.version]
           = Rec("writing", o.job, o.version, o.picture, o.todo \ {v}, v)
<1>1. [o EXCEPT !.at = "writing", !.todo = @ \ {v}, !.variant = v, !.version = o.version]
        = [[[[o EXCEPT !.at = "writing"] EXCEPT !.todo = @ \ {v}] EXCEPT !.variant = v]
             EXCEPT !.version = o.version]
  OBVIOUS
<1>2. [o EXCEPT !.at = "writing"]
        = Rec("writing", o.job, o.version, o.picture, o.todo, o.variant)
  BY DEF IsRec, Rec
<1>3. [Rec("writing", o.job, o.version, o.picture, o.todo, o.variant) EXCEPT !.todo = @ \ {v}]
        = Rec("writing", o.job, o.version, o.picture, o.todo \ {v}, o.variant)
  BY DEF Rec
<1>4. [Rec("writing", o.job, o.version, o.picture, o.todo \ {v}, o.variant) EXCEPT !.variant = v]
        = Rec("writing", o.job, o.version, o.picture, o.todo \ {v}, v)
  BY DEF Rec
<1>5. [Rec("writing", o.job, o.version, o.picture, o.todo \ {v}, v) EXCEPT !.version = o.version]
        = Rec("writing", o.job, o.version, o.picture, o.todo \ {v}, v)
  BY DEF Rec
<1> QED BY <1>1, <1>2, <1>3, <1>4, <1>5, Zenon

LEMMA Saved ==
  ASSUME NEW o, IsRec(o), NEW a, NEW x
  PROVE  [o EXCEPT !.at = a, !.variant = x]
           = Rec(a, o.job, o.version, o.picture, o.todo, x)
<1>1. [o EXCEPT !.at = a, !.variant = x]
        = [[o EXCEPT !.at = a] EXCEPT !.variant = x]
  OBVIOUS
<1>2. [o EXCEPT !.at = a] = Rec(a, o.job, o.version, o.picture, o.todo, o.variant)
  BY DEF IsRec, Rec
<1>3. [Rec(a, o.job, o.version, o.picture, o.todo, o.variant) EXCEPT !.variant = x] = Rec(a, o.job, o.version, o.picture, o.todo, x)
  BY DEF Rec
<1> QED BY <1>1, <1>2, <1>3, Zenon

LEMMA Ended ==
  ASSUME NEW a, NEW j
  PROVE  [Idle EXCEPT !.at = a, !.job = j]
           = Rec(a, j, 0, 0, {}, None)
<1>1. [Idle EXCEPT !.at = a, !.job = j]
        = [[Idle EXCEPT !.at = a] EXCEPT !.job = j]
  OBVIOUS
<1>2. [Idle EXCEPT !.at = a] = Rec(a, 0, 0, 0, {}, None)
  BY DEF Idle, Rec
<1>3. [Rec(a, 0, 0, 0, {}, None) EXCEPT !.job = j] = Rec(a, j, 0, 0, {}, None)
  BY DEF Rec
<1> QED BY <1>1, <1>2, <1>3, Zenon

LEMMA Claimed ==
  ASSUME NEW a, NEW j, NEW v
  PROVE  [Idle EXCEPT !.at = a, !.job = j, !.version = v]
           = Rec(a, j, v, 0, {}, None)
<1>1. [Idle EXCEPT !.at = a, !.job = j, !.version = v]
        = [[[Idle EXCEPT !.at = a] EXCEPT !.job = j] EXCEPT !.version = v]
  OBVIOUS
<1>2. [Idle EXCEPT !.at = a] = Rec(a, 0, 0, 0, {}, None)
  BY DEF Idle, Rec
<1>3. [Rec(a, 0, 0, 0, {}, None) EXCEPT !.job = j] = Rec(a, j, 0, 0, {}, None)
  BY DEF Rec
<1>4. [Rec(a, j, 0, 0, {}, None) EXCEPT !.version = v] = Rec(a, j, v, 0, {}, None)
  BY DEF Rec
<1> QED BY <1>1, <1>2, <1>3, <1>4, Zenon

\* A worker goes on to a record, and no other worker moves.
Moves(w, o) ==
  /\ op' = [op EXCEPT ![w] = o]
  /\ \A u \in Workers \ {w} : op'[u] = op[u]
  /\ op'[w] = o

LEMMA RecFields ==
  ASSUME NEW a, NEW j, NEW v, NEW p, NEW t, NEW x
  PROVE  LET o == Rec(a, j, v, p, t, x)
         IN  o.at = a /\ o.job = j /\ o.version = v /\ o.picture = p /\ o.todo = t /\ o.variant = x
  BY DEF Rec

LEMMA OpsAreRecs == ASSUME TypesInv, NEW w \in Workers PROVE IsRec(op[w])
  BY DEF TypesInv, WorkerTypes, Ops, IsRec, Rec

\* What each step makes of the worker's record.
LEMMA WorkerMoves ==
  ASSUME TypesInv, NEW w \in Workers
  PROVE  LET o == op[w] IN
    /\ Claim(w) => \E v \in 1..Versions :
         /\ job[v] = "pending" /\ job' = [job EXCEPT ![v] = "running"]
         /\ Moves(w, IF missing THEN Rec("ok", v, 0, 0, {}, None)
                     ELSE Rec("opening", v, version, 0, {}, None))
    /\ OpenFile(w) =>
         Moves(w, IF content = 0 THEN Rec("error", o.job, 0, 0, {}, None)
                  ELSE Rec(verdict[content], o.job, o.version, content, Variants, o.variant))
    /\ LeaveAlone(w) \/ MarkReady(w) => Moves(w, Rec("ok", o.job, 0, 0, {}, None))
    /\ MarkFailed(w) \/ RenameNothing(w) \/ WorkerFails(w) => Moves(w, Rec("error", o.job, 0, 0, {}, None))
    /\ SaveBegin(w) => \E v \in o.todo :
         LET k == <<o.version, v>> IN
         /\ temp' = [temp EXCEPT ![k] = Partial]
         /\ torn' = IF BusyWith(k) # {} \/ Evicting(k) THEN torn \cup {k} ELSE torn
         /\ Moves(w, Rec("writing", o.job, o.version, o.picture, o.todo \ {v}, v))
    /\ SaveEnd(w) => Moves(w, Rec("renaming", o.job, o.version, o.picture, o.todo, o.variant))
    /\ Rename(w) => Moves(w, Rec("stating", o.job, o.version, o.picture, o.todo, o.variant))
    /\ Stat(w) => Moves(w, IF cache[KeyOf(w)] = NoFile THEN Rec("error", o.job, 0, 0, {}, None)
                           ELSE Rec("inserting", o.job, o.version, o.picture, o.todo, o.variant))
    /\ InsertVariant(w) => Moves(w, IF o.todo = {} THEN Rec("marking", o.job, 0, 0, {}, None)
                                    ELSE Rec("saving", o.job, o.version, o.picture, o.todo, None))
    /\ Finish(w) => Moves(w, Rec("idle", 0, 0, 0, {}, None))
<1> DEFINE o == op[w]
<1>0. IsRec(o) /\ op \in [Workers -> Ops]
  BY OpsAreRecs DEF TypesInv, WorkerTypes
<1>r. o = Rec(o.at, o.job, o.version, o.picture, o.todo, o.variant)
      /\ Idle = Rec("idle", 0, 0, 0, {}, None)
  BY <1>0 DEF IsRec, Idle, Rec
<1>1. ASSUME NEW n, op' = [op EXCEPT ![w] = n] PROVE Moves(w, n)
  BY <1>0, <1>1 DEF Moves
<1>2. ASSUME NEW a, Goto(w, a) PROVE Moves(w, Rec(a, o.job, o.version, o.picture, o.todo, o.variant))
  <2>1. op' = [op EXCEPT ![w] = [o EXCEPT !.at = a]]
    BY <1>2, <1>0 DEF Goto
  <2> QED BY <2>1, <1>0, <1>1, SetAt
<1>3. ASSUME NEW a, End(w, a) PROVE Moves(w, Rec(a, o.job, 0, 0, {}, None))
  BY <1>r, <1>1, <1>3, Ended DEF End, Become
<1>4. Claim(w) => \E v \in 1..Versions :
         /\ job[v] = "pending" /\ job' = [job EXCEPT ![v] = "running"]
         /\ Moves(w, IF missing THEN Rec("ok", v, 0, 0, {}, None)
                     ELSE Rec("opening", v, version, 0, {}, None))
  <2> HAVE Claim(w)
  <2>1. PICK v \in 1..Versions :
          /\ job[v] = "pending" /\ job' = [job EXCEPT ![v] = "running"]
          /\ Become(w, IF missing THEN [Idle EXCEPT !.at = "ok", !.job = v]
                       ELSE [Idle EXCEPT !.at = "opening", !.job = v, !.version = version])
    BY DEF Claim
  <2>2. [Idle EXCEPT !.at = "ok", !.job = v] = Rec("ok", v, 0, 0, {}, None)
    BY Ended
  <2>3. [Idle EXCEPT !.at = "opening", !.job = v, !.version = version]
          = Rec("opening", v, version, 0, {}, None)
    BY Claimed
  <2>4. Become(w, IF missing THEN Rec("ok", v, 0, 0, {}, None)
                  ELSE Rec("opening", v, version, 0, {}, None))
    BY <2>1, <2>2, <2>3, Zenon
  <2>5. Moves(w, IF missing THEN Rec("ok", v, 0, 0, {}, None)
                 ELSE Rec("opening", v, version, 0, {}, None))
    BY <2>4, <1>1, Zenon DEF Become
  <2> QED BY <2>1, <2>5, Zenon
<1>5. OpenFile(w) =>
         Moves(w, IF content = 0 THEN Rec("error", o.job, 0, 0, {}, None)
                  ELSE Rec(verdict[content], o.job, o.version, content, Variants, o.variant))
  <2> HAVE OpenFile(w)
  <2>1. CASE content = 0
    BY <2>1, <1>3 DEF OpenFile
  <2>2. CASE content # 0
    <3>1. Become(w, [o EXCEPT !.at = verdict[content], !.picture = content, !.todo = Variants])
      BY <2>2 DEF OpenFile
    <3>2. [o EXCEPT !.at = verdict[content], !.picture = content, !.todo = Variants]
            = Rec(verdict[content], o.job, o.version, content, Variants, o.variant)
      BY <1>0, Opened
    <3>3. Moves(w, Rec(verdict[content], o.job, o.version, content, Variants, o.variant))
      BY <3>1, <3>2, <1>1, Zenon DEF Become
    <3> QED BY <3>3, <2>2
  <2> QED BY <2>1, <2>2
<1>6. SaveBegin(w) => \E v \in o.todo :
         LET k == <<o.version, v>> IN
         /\ temp' = [temp EXCEPT ![k] = Partial]
         /\ torn' = IF BusyWith(k) # {} \/ Evicting(k) THEN torn \cup {k} ELSE torn
         /\ Moves(w, Rec("writing", o.job, o.version, o.picture, o.todo \ {v}, v))
  <2> HAVE SaveBegin(w)
  <2>1. PICK v \in o.todo :
          /\ temp' = [temp EXCEPT ![<<o.version, v>>] = Partial]
          /\ torn' = IF BusyWith(<<o.version, v>>) # {} \/ Evicting(<<o.version, v>>)
                     THEN torn \cup {<<o.version, v>>} ELSE torn
          /\ Become(w, [o EXCEPT !.at = "writing", !.todo = @ \ {v}, !.variant = v,
                                 !.version = o.version])
    BY Zenon DEF SaveBegin, StoredUnder
  <2>2. [o EXCEPT !.at = "writing", !.todo = @ \ {v}, !.variant = v, !.version = o.version]
          = Rec("writing", o.job, o.version, o.picture, o.todo \ {v}, v)
    BY <1>0, Saving
  <2>4. Moves(w, Rec("writing", o.job, o.version, o.picture, o.todo \ {v}, v))
    BY <2>1, <2>2, <1>1, Zenon DEF Become
  <2> QED BY <2>1, <2>4, Zenon
<1>7. InsertVariant(w) => Moves(w, IF o.todo = {} THEN Rec("marking", o.job, 0, 0, {}, None)
                                    ELSE Rec("saving", o.job, o.version, o.picture, o.todo, None))
  <2> HAVE InsertVariant(w)
  <2>1. CASE o.todo = {}
    BY <2>1, <1>3 DEF InsertVariant
  <2>2. CASE o.todo # {}
    <3>1. Become(w, [o EXCEPT !.at = "saving", !.variant = None])
      BY <2>2 DEF InsertVariant
    <3>2. [o EXCEPT !.at = "saving", !.variant = None]
            = Rec("saving", o.job, o.version, o.picture, o.todo, None)
      BY <1>0, Saved
    <3>3. Moves(w, Rec("saving", o.job, o.version, o.picture, o.todo, None))
      BY <3>1, <3>2, <1>1, Zenon DEF Become
    <3> QED BY <3>3, <2>2
  <2> QED BY <2>1, <2>2
<1>8. Finish(w) => Moves(w, Rec("idle", 0, 0, 0, {}, None))
  BY <1>r, <1>1 DEF Finish, Become
<1>9. LeaveAlone(w) \/ MarkReady(w) => Moves(w, Rec("ok", o.job, 0, 0, {}, None))
  BY <1>3 DEF LeaveAlone, MarkReady
<1>10. MarkFailed(w) \/ RenameNothing(w) \/ WorkerFails(w) => Moves(w, Rec("error", o.job, 0, 0, {}, None))
  BY <1>3 DEF MarkFailed, RenameNothing, WorkerFails
<1>11. SaveEnd(w) => Moves(w, Rec("renaming", o.job, o.version, o.picture, o.todo, o.variant))
  BY <1>2 DEF SaveEnd
<1>12. Rename(w) => Moves(w, Rec("stating", o.job, o.version, o.picture, o.todo, o.variant))
  BY <1>2 DEF Rename
<1>13. Stat(w) => Moves(w, IF cache[KeyOf(w)] = NoFile THEN Rec("error", o.job, 0, 0, {}, None)
                           ELSE Rec("inserting", o.job, o.version, o.picture, o.todo, o.variant))
  BY <1>2, <1>3 DEF Stat
<1> QED BY <1>4, <1>5, <1>6, <1>7, <1>8, <1>9, <1>10, <1>11, <1>12, <1>13

-------------------------------------------------------------------------------
(* Types *)

LEMMA RecOK ==
  ASSUME NEW a, NEW j, NEW v, NEW p, NEW t, NEW x,
         a \in Stages, j \in 0..Versions, v \in 0..Versions, p \in 0..Versions,
         t \subseteq Variants, x \in Variants \cup {None},
         a # "idle" => j # 0,
         a \in PictureStages => v # 0 /\ p # 0,
         a = "opening" => v # 0,
         a \in PublishStages => x \in Variants
  PROVE  OpOK(Rec(a, j, v, p, t, x))
  BY DEF Rec, OpOK, Ops

LEMMA MovesOK ==
  ASSUME WorkerTypes, NEW w \in Workers, NEW o, OpOK(o), Moves(w, o)
  PROVE  WorkerTypes'
  <1>1. op' \in [Workers -> Ops]
    BY DEF WorkerTypes, Moves, OpOK
  <1>2. \A u \in Workers : OpOK(op'[u])
    BY DEF WorkerTypes, Moves
  <1> QED BY <1>1, <1>2 DEF WorkerTypes, OpOK

LEMMA WorkerTypesStep ==
  ASSUME TypesInv, NEW w \in Workers, WorkerStep(w)
  PROVE  WorkerTypes'
<1> DEFINE o == op[w]
<1>0. WorkerTypes /\ OpOK(o) /\ o \in Ops
  BY DEF TypesInv, WorkerTypes, OpOK
<1>1. /\ o.job \in 0..Versions /\ o.version \in 0..Versions /\ o.picture \in 0..Versions
      /\ o.todo \subseteq Variants /\ o.variant \in Variants \cup {None}
      /\ o.at # "idle" => o.job # 0
      /\ o.at \in PictureStages => o.version # 0 /\ o.picture # 0
      /\ o.at = "opening" => o.version # 0
      /\ o.at \in PublishStages => o.variant \in Variants
  BY <1>0 DEF OpOK, Ops
<1>2. /\ 0 \in 0..Versions /\ 1..Versions \subseteq 0..Versions /\ \A v \in 1..Versions : v # 0
      /\ content \in 0..Versions /\ version \in 0..Versions
  BY ThumbnailsAssumption DEF TypesInv, ItemTypes
<1> HIDE DEF o
<1>3. ASSUME NEW a \in {"ok", "error", "marking"}, Moves(w, Rec(a, o.job, 0, 0, {}, None)),
             o.at # "idle"
      PROVE  WorkerTypes'
  <2>1. OpOK(Rec(a, o.job, 0, 0, {}, None))
    BY <1>1, <1>2, <1>3 DEF OpOK, Rec, Ops, Stages, PictureStages, PublishStages
  <2> QED BY <2>1, <1>3, <1>0, MovesOK
<1>4. ASSUME NEW a \in {"renaming", "stating", "inserting"}, o.at \in PublishStages,
             Moves(w, Rec(a, o.job, o.version, o.picture, o.todo, o.variant))
      PROVE  WorkerTypes'
  <2>1. OpOK(Rec(a, o.job, o.version, o.picture, o.todo, o.variant))
    BY <1>1, <1>4 DEF OpOK, Rec, Ops, Stages, PictureStages, PublishStages
  <2> QED BY <2>1, <1>4, <1>0, MovesOK
<1>5. CASE Claim(w)
  <2>1. PICK v \in 1..Versions :
          /\ job[v] = "pending"
          /\ Moves(w, IF missing THEN Rec("ok", v, 0, 0, {}, None)
                      ELSE Rec("opening", v, version, 0, {}, None))
    BY <1>5, WorkerMoves
  <2>2. version # 0 /\ v \in 0..Versions /\ v # 0
    BY <2>1, <1>2 DEF TypesInv, Unindexed
  <2>3. OpOK(Rec("ok", v, 0, 0, {}, None))
    BY <1>2, <2>2 DEF OpOK, Rec, Ops, Stages, PictureStages, PublishStages
  <2>4. OpOK(Rec("opening", v, version, 0, {}, None))
    BY <1>2, <2>2 DEF OpOK, Rec, Ops, Stages, PictureStages, PublishStages
  <2> QED BY <2>1, <2>3, <2>4, <1>0, MovesOK
<1>6. CASE OpenFile(w)
  <2>1. /\ Moves(w, IF content = 0 THEN Rec("error", o.job, 0, 0, {}, None)
                    ELSE Rec(verdict[content], o.job, o.version, content, Variants, o.variant))
        /\ o.at = "opening"
    BY <1>6, WorkerMoves DEF o, OpenFile, Does
  <2>2. CASE content = 0
    <3>1. Moves(w, Rec("error", o.job, 0, 0, {}, None)) /\ o.at # "idle"
      BY <2>1, <2>2
    <3> QED BY <3>1, <1>3
  <2>3. CASE content # 0
    <3>1. verdict[content] \in Verdict /\ content \in 0..Versions
      BY <2>3, ThumbnailsAssumption DEF TypesInv, ItemTypes
    <3>2. OpOK(Rec(verdict[content], o.job, o.version, content, Variants, o.variant))
      BY <3>1, <2>1, <2>3, <1>1 DEF OpOK, Rec, Ops, Stages, PictureStages, PublishStages, Verdict
    <3>3. Moves(w, Rec(verdict[content], o.job, o.version, content, Variants, o.variant))
      BY <2>1, <2>3
    <3> QED BY <3>2, <3>3, <1>0, MovesOK
  <2> QED BY <2>2, <2>3
<1>7. CASE SaveBegin(w)
  <2>1. PICK v \in o.todo : Moves(w, Rec("writing", o.job, o.version, o.picture, o.todo \ {v}, v))
    BY <1>7, WorkerMoves DEF o
  <2>2. o.at \in {"decodes", "saving"}
    BY <1>7 DEF SaveBegin, o
  <2>3. OpOK(Rec("writing", o.job, o.version, o.picture, o.todo \ {v}, v))
    BY <2>2, <1>1 DEF OpOK, Rec, Ops, Stages, PictureStages, PublishStages
  <2> QED BY <2>1, <2>3, <1>0, MovesOK
<1>8. CASE InsertVariant(w)
  <2>1. /\ Moves(w, IF o.todo = {} THEN Rec("marking", o.job, 0, 0, {}, None)
                    ELSE Rec("saving", o.job, o.version, o.picture, o.todo, None))
        /\ o.at = "inserting"
    BY <1>8, WorkerMoves DEF o, InsertVariant, Does
  <2>2. CASE o.todo = {}
    <3>1. Moves(w, Rec("marking", o.job, 0, 0, {}, None)) /\ o.at # "idle"
      BY <2>1, <2>2
    <3> QED BY <3>1, <1>3
  <2>3. CASE o.todo # {}
    <3>1. OpOK(Rec("saving", o.job, o.version, o.picture, o.todo, None))
      BY <2>1, <1>1 DEF OpOK, Rec, Ops, Stages, PictureStages, PublishStages
    <3> QED BY <2>1, <2>3, <3>1, <1>0, MovesOK
  <2> QED BY <2>2, <2>3
<1>9. CASE Finish(w)
  <2>1. Moves(w, Rec("idle", 0, 0, 0, {}, None))
    BY <1>9, WorkerMoves
  <2>2. OpOK(Rec("idle", 0, 0, 0, {}, None))
    BY <1>2 DEF OpOK, Rec, Ops, Stages, PictureStages, PublishStages
  <2> QED BY <2>1, <2>2, <1>0, MovesOK
<1>10. CASE LeaveAlone(w) \/ MarkReady(w)
  <2>1. Moves(w, Rec("ok", o.job, 0, 0, {}, None))
    BY <1>10, WorkerMoves DEF o
  <2>2. o.at # "idle"
    BY <1>10 DEF LeaveAlone, MarkReady, Does, o
  <2> QED BY <2>1, <2>2, <1>3
<1>11. CASE MarkFailed(w) \/ RenameNothing(w) \/ WorkerFails(w)
  <2>1. Moves(w, Rec("error", o.job, 0, 0, {}, None))
    BY <1>11, WorkerMoves DEF o
  <2>2. o.at # "idle"
    BY <1>11 DEF MarkFailed, RenameNothing, WorkerFails, Does, o
  <2> QED BY <2>1, <2>2, <1>3
<1>12. CASE SaveEnd(w)
  <2>1. Moves(w, Rec("renaming", o.job, o.version, o.picture, o.todo, o.variant))
    BY <1>12, WorkerMoves DEF o
  <2>2. o.at \in PublishStages
    BY <1>12 DEF SaveEnd, Does, o, PublishStages
  <2> QED BY <2>1, <2>2, <1>4
<1>13. CASE Rename(w)
  <2>1. Moves(w, Rec("stating", o.job, o.version, o.picture, o.todo, o.variant))
    BY <1>13, WorkerMoves DEF o
  <2>2. o.at \in PublishStages
    BY <1>13 DEF Rename, Does, o, PublishStages
  <2> QED BY <2>1, <2>2, <1>4
<1>14. CASE Stat(w)
  <2>1. Moves(w, IF cache[KeyOf(w)] = NoFile THEN Rec("error", o.job, 0, 0, {}, None)
                 ELSE Rec("inserting", o.job, o.version, o.picture, o.todo, o.variant))
    BY <1>14, WorkerMoves DEF o
  <2>2. o.at \in PublishStages /\ o.at # "idle"
    BY <1>14 DEF Stat, Does, o, PublishStages
  <2> QED BY <2>1, <2>2, <1>3, <1>4
<1> QED BY <1>5, <1>6, <1>7, <1>8, <1>9, <1>10, <1>11, <1>12, <1>13, <1>14 DEF WorkerStep

LEMMA AfterStates ==
  /\ \A s \in JobState : AfterEnqueue(s) \in JobState \ {"absent"}
  /\ \A o \in {"ok", "error"}, tries \in {0, 1} :
       AfterFinish(o, tries, 1) \in {"succeeded", "failed", "pending"}
  BY DEF AfterEnqueue, AfterFinish, JobState

LEMMA ItemTypesStep ==
  ASSUME TypesInv, [Next]_vars
  PROVE  ItemTypes'
<1>1. ItemTypes
  BY DEF TypesInv
<1>2. CASE UNCHANGED <<content, verdict, item, job, scan>>
  BY <1>1, <1>2 DEF ItemTypes, item
<1>3. CASE Edit
  <2>1. content' \in 0..Versions
    BY <1>3, ThumbnailsAssumption DEF Edit, NewContents
  <2> QED BY <2>1, <1>1, <1>3 DEF Edit, ItemTypes, item
<1>4. CASE ScanList
  BY <1>1, <1>4 DEF ScanList, ItemTypes, item
<1>5. CASE ScanUpsert
  <2>1. scan.seen \in 1..Versions /\ scan.seen # 0
    BY <1>1, <1>5 DEF ScanUpsert, ItemTypes
  <2>2. scan' \in [at : {"idle", "counting", "upserting", "enqueueing"}, seen : 0..Versions]
        /\ (scan'.at \in {"upserting", "enqueueing"} => scan'.seen # 0)
    <3>1. CASE version = scan.seen
      BY <3>1, <1>5, ThumbnailsAssumption DEF ScanUpsert, NoScan
    <3>2. CASE version # scan.seen
      <4>1. scan' = [scan EXCEPT !.at = "enqueueing"]
        BY <3>2, <1>5 DEF ScanUpsert
      <4> QED BY <4>1, <2>1, <1>1 DEF ItemTypes
    <3> QED BY <3>1, <3>2
  <2> QED BY <2>1, <2>2, <1>1, <1>5 DEF ScanUpsert, ItemTypes
<1>6. CASE ScanEnqueue
  <2>1. scan' \in [at : {"idle", "counting", "upserting", "enqueueing"}, seen : 0..Versions]
        /\ scan'.at = "idle"
    BY <1>6, ThumbnailsAssumption DEF ScanEnqueue, NoScan
  <2>2. job' \in [1..Versions -> JobState]
    BY <1>1, <1>6, AfterStates DEF ScanEnqueue, ItemTypes
  <2> QED BY <2>1, <2>2, <1>1, <1>6 DEF ScanEnqueue, ItemTypes, item
<1>7. CASE ScanCountMissing
  <2>1. scan' \in [at : {"idle", "counting", "upserting", "enqueueing"}, seen : 0..Versions]
        /\ scan'.at = "idle"
    BY <1>7, ThumbnailsAssumption DEF ScanCountMissing, NoScan
  <2> QED BY <2>1, <1>1, <1>7 DEF ScanCountMissing, ItemTypes
<1>8. CASE Crash
  <2>1. scan' \in [at : {"idle", "counting", "upserting", "enqueueing"}, seen : 0..Versions]
        /\ scan'.at = "idle"
    BY <1>8, ThumbnailsAssumption DEF Crash, NoScan
  <2>2. job' \in [1..Versions -> JobState]
    BY <1>1, <1>8 DEF Crash, ItemTypes, JobState
  <2> QED BY <2>1, <2>2, <1>1, <1>8 DEF Crash, ItemTypes, item
<1>9. ASSUME NEW w \in Workers, WorkerStep(w) PROVE ItemTypes'
  <2>1. CASE Claim(w)
    <3>1. PICK v \in 1..Versions : job[v] = "pending" /\ job' = [job EXCEPT ![v] = "running"]
      BY <2>1 DEF Claim
    <3>2. job' \in [1..Versions -> JobState]
      BY <3>1, <1>1 DEF ItemTypes, JobState
    <3> QED BY <3>2, <1>1, <2>1 DEF Claim, ItemTypes, item
  <2>2. CASE Finish(w)
    <3> DEFINE j == op[w].job
    <3>1. op[w].at \in {"ok", "error"}
      BY <2>2 DEF Finish
    <3>2. j \in 0..Versions /\ j # 0
      BY <3>1 DEF TypesInv, WorkerTypes, OpOK, Ops
    <3>3. PICK tries \in {0, 1} : job' = [job EXCEPT ![j] = AfterFinish(op[w].at, tries, 1)]
      BY <2>2 DEF Finish
    <3>4. AfterFinish(op[w].at, tries, 1) \in JobState
      BY <3>1, AfterStates DEF JobState
    <3>5. job' \in [1..Versions -> JobState]
      BY <3>3, <3>4, <1>1 DEF ItemTypes
    <3> QED BY <3>5, <1>1, <2>2 DEF Finish, ItemTypes, item
  <2>3. CASE LeaveAlone(w) \/ MarkFailed(w) \/ MarkReady(w)
    BY <2>3, <1>1 DEF LeaveAlone, MarkFailed, MarkReady, ItemTypes
  <2> QED BY <2>1, <2>2, <2>3, <1>2, <1>9
          DEF WorkerStep, OpenFile, SaveBegin, SaveEnd, Rename, RenameNothing, Stat, InsertVariant,
              WorkerFails
<1>10. CASE Evict
  BY <1>2, <1>10 DEF Evict, EvictBegin, EvictChoose, EvictFile, EvictRow
<1> QED BY <1>2, <1>3, <1>4, <1>5, <1>6, <1>7, <1>8, <1>9, <1>10 DEF Next, ScanStep, vars

LEMMA UnindexedStep ==
  ASSUME TypesInv, [Next]_vars
  PROVE  Unindexed'
<1> SUFFICES ASSUME version' = 0 PROVE Unindexed'
  BY DEF Unindexed
<1>1. ItemTypes /\ Unindexed
  BY DEF TypesInv
<1>2. ASSUME NEW w \in Workers, WorkerStep(w) PROVE version # 0
  <2>1. op[w].at = "idle" => Claim(w)
    BY <1>2 DEF WorkerStep, OpenFile, LeaveAlone, MarkFailed, SaveBegin, SaveEnd, Rename,
                RenameNothing, Stat, InsertVariant, MarkReady, Finish, WorkerFails, Does
  <2>2. Claim(w) => \E v \in 1..Versions : job[v] = "pending"
    BY DEF Claim
  <2> QED BY <2>1, <2>2, <1>1 DEF Unindexed
<1>3. CASE UNCHANGED vars
  BY <1>1, <1>3 DEF vars, item, Unindexed
<1>4. CASE Edit
  BY <1>1, <1>4 DEF Edit, item, Unindexed
<1>5. CASE ScanList
  BY <1>1, <1>5 DEF ScanList, item, Unindexed
<1>6. CASE ScanUpsert
  BY <1>1, <1>6 DEF ScanUpsert, ItemTypes
<1>7. CASE ScanEnqueue
  BY <1>1, <1>7 DEF ScanEnqueue, item, Unindexed
<1>8. CASE ScanCountMissing
  BY <1>1, <1>8 DEF ScanCountMissing, Unindexed, NoScan
<1>9. CASE Evict
  BY <1>1, <1>9 DEF Evict, EvictBegin, EvictChoose, EvictFile, EvictRow, item, Unindexed
<1>10. CASE Crash
  <2>1. version = 0
    BY <1>10 DEF Crash, item
  <2>2. scan'.at = "idle" /\ \A w \in Workers : op'[w].at = "idle"
    BY <1>10 DEF Crash, NoScan, Idle
  <2>3. \A v \in 1..Versions : job'[v] = "absent"
    BY <1>1, <1>10, <2>1 DEF Crash, Unindexed
  <2> QED BY <2>2, <2>3 DEF Unindexed
<1>11. ASSUME NEW w \in Workers, WorkerStep(w) PROVE Unindexed'
  <2>1. version = 0
    BY <1>11 DEF WorkerStep, Claim, OpenFile, LeaveAlone, MarkFailed, SaveBegin, SaveEnd, Rename,
                 RenameNothing, Stat, InsertVariant, MarkReady, Finish, WorkerFails, item
  <2> QED BY <2>1, <1>2, <1>11
<1> QED BY <1>3, <1>4, <1>5, <1>6, <1>7, <1>8, <1>9, <1>10, <1>11 DEF Next, ScanStep

LEMMA KeyTypes ==
  ASSUME TypesInv, NEW w \in Workers
  PROVE  /\ Publishing(w) <=> op[w].at \in PublishStages
         /\ Publishing(w) => KeyOf(w) \in Keys
         /\ HasPicture(w) => /\ op[w].picture \in 1..Versions
                             /\ \A v \in op[w].todo : <<op[w].version, v>> \in Keys
<1>1. OpOK(op[w]) /\ Versions \in Nat
  BY ThumbnailsAssumption DEF TypesInv, WorkerTypes
<1>2. Publishing(w) <=> op[w].at \in PublishStages
  BY DEF Publishing, PublishStages
<1>3. HasPicture(w) => /\ op[w].picture \in 1..Versions /\ op[w].version \in 1..Versions
                       /\ op[w].todo \subseteq Variants
  BY <1>1 DEF OpOK, HasPicture, Ops
<1>4. Publishing(w) => HasPicture(w) /\ op[w].variant \in Variants
  BY <1>1, <1>2 DEF OpOK, HasPicture, PublishStages, PictureStages
<1> QED BY <1>2, <1>3, <1>4 DEF Keys, KeyOf

LEMMA CacheTypesStep ==
  ASSUME TypesInv, [Next]_vars
  PROVE  CacheTypes'
<1>1. CacheTypes /\ EvictionTypes
  BY DEF TypesInv
<1>2. NoFile \in Pictures /\ Partial \in Pictures /\ 1..Versions \subseteq Pictures
  BY DEF Pictures
<1>3. CASE UNCHANGED <<thumbs, history>>
  BY <1>1, <1>3 DEF CacheTypes, thumbs, history
<1>4. CASE Evict
  <2>1. CASE EvictBegin
    BY <2>1, <1>3 DEF EvictBegin
  <2>2. CASE EvictChoose
    BY <2>2, <1>1 DEF EvictChoose, CacheTypes, thumbs
  <2>3. CASE EvictFile
    <3>1. eviction.key \in Keys
      BY <2>3, <1>1 DEF EvictFile, EvictionTypes
    <3> QED BY <3>1, <2>3, <1>1, <1>2 DEF EvictFile, CacheTypes, Unlinked
  <2>4. CASE EvictRow
    <3>1. IsFiniteSet(rows \ {eviction.key})
      BY <1>1, FS_RemoveElement DEF CacheTypes
    <3> QED BY <3>1, <2>4, <1>1 DEF EvictRow, CacheTypes, history
  <2> QED BY <2>1, <2>2, <2>3, <2>4, <1>4 DEF Evict
<1>5. CASE Crash
  <2>1. HalfDone \subseteq Keys
    BY <1>1, KeyTypes DEF HalfDone, EvictionTypes, Publishing
  <2> QED BY <2>1, <1>1, <1>5 DEF Crash, CacheTypes, thumbs
<1>6. ASSUME NEW w \in Workers, WorkerStep(w) PROVE CacheTypes'
  <2> DEFINE k == KeyOf(w)
  <2>1. /\ Publishing(w) => k \in Keys
        /\ HasPicture(w) => op[w].picture \in Pictures
    BY KeyTypes, <1>2
  <2>2. CASE SaveBegin(w)
    <3>1. PICK v \in op[w].todo :
            /\ temp' = [temp EXCEPT ![<<op[w].version, v>>] = Partial]
            /\ torn' \subseteq torn \cup {<<op[w].version, v>>}
      BY <2>2, WorkerMoves
    <3>2. <<op[w].version, v>> \in Keys
      BY <2>2, KeyTypes DEF SaveBegin, HasPicture, PictureStages
    <3>3. UNCHANGED <<cache, rows, evicted>>
      BY <2>2 DEF SaveBegin, CreateAside
    <3> QED BY <3>1, <3>2, <3>3, <1>1, <1>2 DEF CacheTypes
  <2>3. CASE SaveEnd(w)
    <3>1. k \in Keys /\ op[w].picture \in Pictures
      BY <2>1, <2>3 DEF SaveEnd, Publishing, HasPicture, Does, PictureStages
    <3>2. temp' \in [Keys -> Pictures]
      BY <2>3, <3>1, <1>1 DEF SaveEnd, CacheTypes
    <3>3. cache' \in [Keys -> Pictures]
      BY <2>3, <3>1, <1>1 DEF SaveEnd, CacheTypes
    <3> QED BY <3>2, <3>3, <2>3, <1>1 DEF SaveEnd, CacheTypes, history
  <2>4. CASE Rename(w)
    <3>1. k \in Keys
      BY <2>1, <2>4 DEF Rename, Publishing, Does
    <3> QED BY <3>1, <2>4, <1>1, <1>2 DEF Rename, CacheTypes, history
  <2>5. CASE InsertVariant(w)
    <3>1. k \in Keys
      BY <2>1, <2>5 DEF InsertVariant, Publishing, Does
    <3>2. IsFiniteSet(rows \cup {k})
      BY <1>1, FS_AddElement DEF CacheTypes
    <3> QED BY <3>1, <3>2, <2>5, <1>1 DEF InsertVariant, CacheTypes, history
  <2>6. CASE WorkerFails(w)
    <3>1. Does(w, "renaming") => k \in Keys
      BY <2>1 DEF Publishing, Does
    <3>2. op[w].at \in {"stating", "inserting"} => k \in Keys
      BY <2>1 DEF Publishing
    <3>3. temp' \in [Keys -> Pictures]
      BY <3>1, <2>6, <1>1, <1>2 DEF WorkerFails, CacheTypes
    <3>4. torn' \subseteq Keys
      BY <3>2, <2>6, <1>1 DEF WorkerFails, CacheTypes
    <3> QED BY <3>3, <3>4, <2>6, <1>1 DEF WorkerFails, CacheTypes
  <2> QED BY <2>2, <2>3, <2>4, <2>5, <2>6, <1>3, <1>6
          DEF WorkerStep, Claim, OpenFile, LeaveAlone, MarkFailed, RenameNothing, Stat, MarkReady,
              Finish
<1> QED BY <1>3, <1>4, <1>5, <1>6
        DEF Next, ScanStep, vars, Edit, ScanList, ScanUpsert, ScanEnqueue, ScanCountMissing

LEMMA EvictionTypesStep ==
  ASSUME TypesInv, [Next]_vars
  PROVE  EvictionTypes'
<1>1. CacheTypes /\ EvictionTypes
  BY DEF TypesInv
<1>2. CASE UNCHANGED eviction
  BY <1>1, <1>2 DEF EvictionTypes
<1>3. CASE EvictBegin
  <2>1. Cardinality(rows) \in Nat
    BY <1>1, FS_CardinalityType DEF CacheTypes
  <2>2. eviction' = [at |-> "choosing", total |-> Cardinality(rows), key |-> <<0, None>>]
    BY <1>3 DEF EvictBegin, NoEviction
  <2> QED BY <2>1, <2>2, <1>3 DEF EvictBegin, EvictionTypes, TooMuch
<1>4. CASE EvictChoose
  <2>1. PICK k \in rows : eviction' = [eviction EXCEPT !.at = "removing", !.key = k]
    BY <1>4 DEF EvictChoose
  <2>2. eviction'.at = "removing" /\ eviction'.key = k /\ eviction'.total = eviction.total
    BY <2>1, <1>1 DEF EvictionTypes
  <2>3. k \in Keys
    BY <1>1 DEF CacheTypes
  <2>4. eviction' \in [at : {"idle", "choosing", "removing", "deleting"}, total : Nat,
                       key : Keys \cup {<<0, None>>}]
    BY <2>1, <2>3, <1>1 DEF EvictionTypes
  <2> QED BY <2>2, <2>3, <2>4, <1>1, <1>4 DEF EvictionTypes, EvictChoose
<1>5. CASE EvictFile
  <2>1. eviction' = [eviction EXCEPT !.at = "deleting"] /\ eviction.at = "removing"
    BY <1>5 DEF EvictFile
  <2>2. eviction'.at = "deleting" /\ eviction'.key = eviction.key /\ eviction'.total = eviction.total
    BY <2>1, <1>1 DEF EvictionTypes
  <2> QED BY <2>1, <2>2, <1>1 DEF EvictionTypes
<1>6. CASE EvictRow
  <2> DEFINE total == eviction.total - 1
  <2>1. total \in Nat
    BY <1>1, <1>6, ThumbnailsAssumption DEF EvictionTypes, EvictRow
  <2>2. CASE TooMuch(total)
    <3>1. eviction' = [at |-> "choosing", total |-> total, key |-> <<0, None>>]
      BY <1>6, <2>2 DEF EvictRow, NoEviction
    <3> QED BY <3>1, <2>1, <2>2 DEF EvictionTypes, TooMuch
  <2>3. CASE ~TooMuch(total)
    <3>1. eviction' = NoEviction
      BY <1>6, <2>3 DEF EvictRow
    <3> QED BY <3>1 DEF EvictionTypes, NoEviction
  <2> QED BY <2>2, <2>3
<1>7. CASE Crash
  BY <1>7 DEF Crash, EvictionTypes, NoEviction
<1> QED BY <1>2, <1>3, <1>4, <1>5, <1>6, <1>7
        DEF Next, Evict, ScanStep, vars, Edit, ScanList, ScanUpsert, ScanEnqueue, ScanCountMissing,
            WorkerStep, Claim, OpenFile, LeaveAlone, MarkFailed, SaveBegin, SaveEnd, Rename,
            RenameNothing, Stat, InsertVariant, MarkReady, Finish, WorkerFails

LEMMA TypesInit == Init => TypesInv
<1> SUFFICES ASSUME Init PROVE TypesInv
  OBVIOUS
<1>1. ItemTypes
  <2>1. {0, 1} \subseteq 0..Versions /\ "absent" \in JobState
    BY ThumbnailsAssumption DEF JobState
  <2>2. scan \in [at : {"idle", "counting", "upserting", "enqueueing"}, seen : 0..Versions]
        /\ scan.at = "idle"
    BY <2>1 DEF Init, NoScan
  <2> QED BY <2>1, <2>2 DEF Init, ItemTypes
<1>2. WorkerTypes
  <2>1. OpOK(Idle)
    BY ThumbnailsAssumption DEF OpOK, Ops, Idle, Stages, PictureStages, PublishStages
  <2> QED BY <2>1 DEF Init, WorkerTypes, OpOK
<1>3. CacheTypes
  BY FS_EmptySet DEF Init, CacheTypes, Pictures
<1>4. EvictionTypes
  BY DEF Init, EvictionTypes, NoEviction
<1>5. Unindexed
  BY DEF Init, Unindexed, NoScan, Idle
<1> QED BY <1>1, <1>2, <1>3, <1>4, <1>5 DEF TypesInv

LEMMA TypesStep == TypesInv /\ [Next]_vars => TypesInv'
<1> SUFFICES ASSUME TypesInv, [Next]_vars PROVE TypesInv'
  OBVIOUS
<1>1. WorkerTypes'
  <2>1. CASE UNCHANGED op
    BY <2>1 DEF TypesInv, WorkerTypes
  <2>2. CASE Crash
    <3>1. OpOK(Idle)
      BY ThumbnailsAssumption DEF OpOK, Ops, Idle, Stages, PictureStages, PublishStages
    <3> QED BY <3>1, <2>2 DEF Crash, WorkerTypes, OpOK
  <2> QED BY <2>1, <2>2, WorkerTypesStep
          DEF Next, Evict, ScanStep, vars, Edit, ScanList, ScanUpsert, ScanEnqueue,
              ScanCountMissing, EvictBegin, EvictChoose, EvictFile, EvictRow
<1> QED BY <1>1, ItemTypesStep, CacheTypesStep, EvictionTypesStep, UnindexedStep DEF TypesInv

-------------------------------------------------------------------------------
(* Order *)

\* The index never goes back, because the file does not.
LEMMA VersionGrows ==
  ASSUME TypesInv, ItemOrder, [Next]_vars
  PROVE  version <= version' /\ UNCHANGED verdict /\ (~ScanUpsert => UNCHANGED version)
<1>1. version \in Nat /\ scan.seen \in Nat
  BY ThumbnailsAssumption DEF TypesInv, ItemTypes
<1>2. CASE ScanUpsert
  BY <1>1, <1>2 DEF ScanUpsert, ItemOrder
<1>3. UNCHANGED <<version, verdict>> \/ ScanUpsert
  BY DEF Next, ScanStep, vars, item, Edit, ScanList, ScanEnqueue, ScanCountMissing, Evict,
         EvictBegin, EvictChoose, EvictFile, EvictRow, Crash, WorkerStep, Claim, OpenFile,
         LeaveAlone, MarkFailed, SaveBegin, SaveEnd, Rename, RenameNothing, Stat, InsertVariant,
         MarkReady, Finish, WorkerFails
<1> QED BY <1>1, <1>2, <1>3

LEMMA ItemOrderStep ==
  ASSUME TypesInv, OrderInv, [Next]_vars
  PROVE  ItemOrder'
<1>1. /\ ItemOrder /\ ItemTypes
      /\ version \in Nat /\ content \in Nat /\ scan.seen \in Nat
  BY ThumbnailsAssumption DEF OrderInv, TypesInv, ItemTypes
<1>2. CASE UNCHANGED <<content, version, job, scan>>
  BY <1>1, <1>2 DEF ItemOrder
<1>3. CASE Edit
  BY <1>1, <1>3 DEF Edit, NewContents, ItemOrder, item
<1>4. CASE ScanList
  BY <1>1, <1>4 DEF ScanList, ItemOrder, item
<1>5. CASE ScanUpsert
  <2>1. CASE version = scan.seen
    BY <2>1, <1>1, <1>5 DEF ScanUpsert, ItemOrder, NoScan
  <2>2. CASE version # scan.seen
    <3>1. scan'.at = "enqueueing" /\ scan'.seen = scan.seen
      BY <2>2, <1>1, <1>5 DEF ScanUpsert, ItemTypes
    <3> QED BY <3>1, <1>1, <1>5 DEF ScanUpsert, ItemOrder
  <2> QED BY <2>1, <2>2
<1>6. CASE ScanEnqueue
  <2>1. scan'.at = "idle" /\ scan'.seen = 0
    BY <1>6 DEF ScanEnqueue, NoScan
  <2>2. \A v \in 1..Versions : job'[v] # "absent" => v <= version
    BY <1>1, <1>6 DEF ScanEnqueue, JobKey, ItemOrder, ItemTypes
  <2> QED BY <2>1, <2>2, <1>1, <1>6 DEF ScanEnqueue, ItemOrder, item
<1>7. CASE ScanCountMissing
  BY <1>1, <1>7 DEF ScanCountMissing, ItemOrder, NoScan
<1>8. CASE Crash
  <2>1. scan'.at = "idle" /\ scan'.seen = 0
    BY <1>8 DEF Crash, NoScan
  <2>2. \A v \in 1..Versions : job'[v] # "absent" => v <= version
    BY <1>1, <1>8 DEF Crash, ItemOrder, ItemTypes
  <2> QED BY <2>1, <2>2, <1>1, <1>8 DEF Crash, ItemOrder, item
<1>9. ASSUME NEW w \in Workers, WorkerStep(w) PROVE ItemOrder'
  <2>1. CASE Claim(w)
    <3>1. \A v \in 1..Versions : job'[v] # "absent" => v <= version
      BY <2>1, <1>1 DEF Claim, ItemOrder, ItemTypes
    <3> QED BY <3>1, <2>1, <1>1 DEF Claim, ItemOrder, item
  <2>2. CASE Finish(w)
    <3>1. op[w].job <= version
      BY DEF OrderInv, OpOrder
    <3>2. \A v \in 1..Versions : job'[v] # "absent" => v <= version
      BY <2>2, <3>1, <1>1 DEF Finish, ItemOrder, ItemTypes
    <3> QED BY <3>2, <2>2, <1>1 DEF Finish, ItemOrder, item
  <2> QED BY <2>1, <2>2, <1>2, <1>9
          DEF WorkerStep, OpenFile, SaveBegin, SaveEnd, Rename, RenameNothing, Stat, InsertVariant,
              WorkerFails, LeaveAlone, MarkFailed, MarkReady, item
<1>10. CASE Evict
  BY <1>2, <1>10 DEF Evict, EvictBegin, EvictChoose, EvictFile, EvictRow, item
<1> QED BY <1>2, <1>3, <1>4, <1>5, <1>6, <1>7, <1>8, <1>9, <1>10 DEF Next, ScanStep, vars, item

LEMMA OpOrderStep ==
  ASSUME TypesInv, OrderInv, [Next]_vars
  PROVE  \A w \in Workers : OpOrder(op[w])'
<1>1. \A w \in Workers : OpOrder(op[w]) /\ OpOK(op[w])
  BY DEF OrderInv, TypesInv, WorkerTypes
<1>2. version \in Nat /\ version' \in Nat /\ version <= version' /\ UNCHANGED verdict
  BY VersionGrows, ItemTypesStep, ThumbnailsAssumption DEF OrderInv, TypesInv, ItemTypes
<1>3. \A w \in Workers : op[w].version \in Nat /\ op[w].job \in Nat
  BY <1>1, ThumbnailsAssumption DEF OpOK, Ops
<1>4. CASE UNCHANGED op
  BY <1>1, <1>2, <1>3, <1>4 DEF OpOrder
<1>5. CASE Crash
  BY <1>2, <1>5 DEF Crash, OpOrder, Idle, PictureStages
<1>6. ASSUME NEW w \in Workers, WorkerStep(w) PROVE \A u \in Workers : OpOrder(op[u])'
  <2> DEFINE o == op[w]
  <2>0. UNCHANGED <<version, verdict>>
    BY <1>6, VersionGrows DEF OrderInv, Next, WorkerStep, Claim, OpenFile, LeaveAlone, MarkFailed,
       SaveBegin, SaveEnd, Rename, RenameNothing, Stat, InsertVariant, MarkReady, Finish,
       WorkerFails, item
  <2>1. ASSUME NEW n, Moves(w, n), OpOrder(n) PROVE \A u \in Workers : OpOrder(op[u])'
    BY <1>1, <2>0, <2>1 DEF Moves, OpOrder
  <2>2. /\ o.version \in Nat /\ o.job \in Nat /\ o.picture \in Nat
        /\ o.version <= version /\ o.job <= version
        /\ o.at \in PictureStages => o.version <= o.picture /\ o.job <= o.version
        /\ o.at = "opening" => o.job <= o.version
    BY <1>1, ThumbnailsAssumption DEF OpOrder, OpOK, Ops
  <2> HIDE DEF o
  <2>3. ASSUME NEW a \in {"ok", "error", "marking"}, Moves(w, Rec(a, o.job, 0, 0, {}, None))
        PROVE  \A u \in Workers : OpOrder(op[u])'
    <3>1. OpOrder(Rec(a, o.job, 0, 0, {}, None))
      BY <2>2, <1>2 DEF Rec, OpOrder, PictureStages
    <3> QED BY <3>1, <2>1, <2>3
  <2>4. ASSUME NEW a \in {"writing", "saving", "renaming", "stating", "inserting"}, NEW t, NEW x,
               Moves(w, Rec(a, o.job, o.version, o.picture, t, x)), o.at \in PictureStages
        PROVE  \A u \in Workers : OpOrder(op[u])'
    <3>1. OpOrder(Rec(a, o.job, o.version, o.picture, t, x))
      BY <2>2, <2>4 DEF Rec, OpOrder, PictureStages
    <3> QED BY <3>1, <2>1, <2>4
  <2>5. CASE Claim(w)
    <3>1. PICK v \in 1..Versions :
            /\ job[v] = "pending"
            /\ Moves(w, IF missing THEN Rec("ok", v, 0, 0, {}, None)
                        ELSE Rec("opening", v, version, 0, {}, None))
      BY <2>5, WorkerMoves
    <3>2. v <= version
      BY <3>1 DEF OrderInv, ItemOrder
    <3>3. OpOrder(Rec("ok", v, 0, 0, {}, None)) /\ OpOrder(Rec("opening", v, version, 0, {}, None))
      BY <3>2, <1>2 DEF Rec, OpOrder, PictureStages
    <3> QED BY <3>1, <3>3, <2>1
  <2>6. CASE OpenFile(w)
    <3>1. /\ Moves(w, IF content = 0 THEN Rec("error", o.job, 0, 0, {}, None)
                      ELSE Rec(verdict[content], o.job, o.version, content, Variants, o.variant))
          /\ o.at = "opening"
      BY <2>6, WorkerMoves DEF o, OpenFile, Does
    <3>2. CASE content = 0
      BY <3>1, <3>2, <2>3
    <3>3. CASE content # 0
      <4>1. version <= content /\ content \in Nat
        BY <3>3, ThumbnailsAssumption DEF OrderInv, ItemOrder, TypesInv, ItemTypes
      <4>2. verdict[content] # "opening"
        BY <3>3, ThumbnailsAssumption DEF TypesInv, ItemTypes, Verdict
      <4>3. OpOrder(Rec(verdict[content], o.job, o.version, content, Variants, o.variant))
        BY <4>1, <4>2, <3>1, <2>2, <1>2 DEF Rec, OpOrder
      <4> QED BY <4>3, <3>1, <3>3, <2>1
    <3> QED BY <3>2, <3>3
  <2>7. CASE SaveBegin(w)
    <3>1. o.at \in PictureStages
      BY <2>7 DEF SaveBegin, o, PictureStages
    <3>2. \E v \in o.todo : Moves(w, Rec("writing", o.job, o.version, o.picture, o.todo \ {v}, v))
      BY <2>7, WorkerMoves DEF o
    <3> QED BY <3>1, <3>2, <2>4
  <2>8. CASE InsertVariant(w)
    <3>1. o.at \in PictureStages
      BY <2>8 DEF InsertVariant, Does, o, PictureStages
    <3>2. Moves(w, IF o.todo = {} THEN Rec("marking", o.job, 0, 0, {}, None)
                    ELSE Rec("saving", o.job, o.version, o.picture, o.todo, None))
      BY <2>8, WorkerMoves DEF o
    <3> QED BY <3>1, <3>2, <2>3, <2>4
  <2>9. CASE Finish(w)
    <3>1. Moves(w, Rec("idle", 0, 0, 0, {}, None))
      BY <2>9, WorkerMoves
    <3>2. OpOrder(Rec("idle", 0, 0, 0, {}, None))
      BY <1>2 DEF Rec, OpOrder, PictureStages
    <3> QED BY <3>1, <3>2, <2>1
  <2>10. CASE LeaveAlone(w) \/ MarkReady(w)
    BY <2>10, <2>3, WorkerMoves DEF o
  <2>11. CASE MarkFailed(w) \/ RenameNothing(w) \/ WorkerFails(w)
    BY <2>11, <2>3, WorkerMoves DEF o
  <2>12. CASE SaveEnd(w)
    <3>1. o.at \in PictureStages
      BY <2>12 DEF SaveEnd, Does, o, PictureStages
    <3> QED BY <3>1, <2>12, <2>4, WorkerMoves DEF o
  <2>13. CASE Rename(w)
    <3>1. o.at \in PictureStages
      BY <2>13 DEF Rename, Does, o, PictureStages
    <3> QED BY <3>1, <2>13, <2>4, WorkerMoves DEF o
  <2>14. CASE Stat(w)
    <3>1. o.at \in PictureStages
      BY <2>14 DEF Stat, Does, o, PictureStages
    <3>2. Moves(w, IF cache[KeyOf(w)] = NoFile THEN Rec("error", o.job, 0, 0, {}, None)
                   ELSE Rec("inserting", o.job, o.version, o.picture, o.todo, o.variant))
      BY <2>14, WorkerMoves DEF o
    <3> QED BY <3>1, <3>2, <2>3, <2>4
  <2> QED BY <2>5, <2>6, <2>7, <2>8, <2>9, <2>10, <2>11, <2>12, <2>13, <2>14, <1>6 DEF WorkerStep
<1> QED BY <1>4, <1>5, <1>6
        DEF Next, Evict, ScanStep, vars, Edit, ScanList, ScanUpsert, ScanEnqueue,
            ScanCountMissing, EvictBegin, EvictChoose, EvictFile, EvictRow

LEMMA KeyOrderStep ==
  ASSUME TypesInv, OrderInv, [Next]_vars
  PROVE  \A k \in Keys : KeyOrder(k)'
<1>1. CacheTypes /\ \A k \in Keys : KeyOrder(k) /\ k[1] \in Nat
  BY DEF OrderInv, TypesInv, Keys
<1>2. version \in Nat /\ version' \in Nat /\ version <= version'
  BY VersionGrows, ItemTypesStep, ThumbnailsAssumption DEF OrderInv, TypesInv, ItemTypes
<1>3. NoFile \notin 1..Versions /\ Partial \notin 1..Versions
  BY DEF NoFile, Partial
<1>4. CASE UNCHANGED thumbs
  BY <1>1, <1>2, <1>4 DEF KeyOrder, thumbs
<1>5. CASE Evict
  <2>1. CASE EvictFile
    BY <2>1, <1>1, <1>2, <1>3 DEF EvictFile, KeyOrder, CacheTypes, Unlinked
  <2>2. CASE EvictRow
    BY <2>2, <1>1, <1>2 DEF EvictRow, KeyOrder
  <2> QED BY <2>1, <2>2, <1>4, <1>5 DEF Evict, EvictBegin, EvictChoose, thumbs
<1>6. ASSUME NEW w \in Workers, WorkerStep(w) PROVE \A k \in Keys : KeyOrder(k)'
  <2> DEFINE key == KeyOf(w)
  <2>1. /\ key[1] = op[w].version /\ op[w].version <= version
        /\ HasPicture(w) => op[w].version <= op[w].picture /\ op[w].picture \in 1..Versions
    BY KeyTypes DEF OrderInv, OpOrder, KeyOf, HasPicture
  <2>2. Publishing(w) => key \in Keys /\ HasPicture(w)
    BY KeyTypes DEF Publishing, HasPicture, PictureStages
  <2> HIDE DEF key
  <2>3. CASE SaveBegin(w)
    <3>1. PICK v \in op[w].todo : temp' = [temp EXCEPT ![<<op[w].version, v>>] = Partial]
      BY <2>3, WorkerMoves
    <3>2. <<op[w].version, v>> \in Keys /\ <<op[w].version, v>>[1] <= version
      BY <2>3, <2>1, KeyTypes DEF SaveBegin, HasPicture, PictureStages
    <3>3. UNCHANGED <<cache, rows>>
      BY <2>3 DEF SaveBegin, CreateAside
    <3> QED BY <3>1, <3>2, <3>3, <1>1, <1>2, <1>3 DEF CacheTypes, KeyOrder
  <2>4. CASE SaveEnd(w)
    <3>1. key \in Keys /\ key[1] <= op[w].picture /\ op[w].picture \in 1..Versions /\ key[1] <= version
      BY <2>1, <2>2, <2>4 DEF SaveEnd, Publishing, Does
    <3>2. CASE temp[key] # NoFile
      <4>1. temp' = [temp EXCEPT ![key] = op[w].picture] /\ UNCHANGED <<cache, rows>>
        BY <3>2, <2>4 DEF SaveEnd, key
      <4> QED BY <4>1, <3>1, <1>1, <1>2, <1>3 DEF CacheTypes, KeyOrder
    <3>3. CASE temp[key] = NoFile
      <4>1. /\ cache' = [cache EXCEPT ![key] = IF @ = Partial THEN op[w].picture ELSE @]
            /\ UNCHANGED <<temp, rows>>
        BY <3>3, <2>4 DEF SaveEnd, key
      <4> QED BY <4>1, <3>1, <1>1, <1>2, <1>3 DEF CacheTypes, KeyOrder
    <3> QED BY <3>2, <3>3
  <2>5. CASE Rename(w)
    <3>1. key \in Keys
      BY <2>2, <2>5 DEF Rename, Publishing, Does
    <3>2. /\ cache' = [cache EXCEPT ![key] = temp[key]]
          /\ temp' = [temp EXCEPT ![key] = NoFile]
          /\ temp[key] # NoFile /\ UNCHANGED rows
      BY <2>5 DEF Rename, key
    <3> QED BY <3>1, <3>2, <1>1, <1>2, <1>3 DEF CacheTypes, KeyOrder
  <2>6. CASE InsertVariant(w)
    <3>1. key \in Keys /\ key[1] <= version
      BY <2>1, <2>2, <2>6 DEF InsertVariant, Publishing, Does
    <3>2. rows' = rows \cup {key} /\ UNCHANGED <<cache, temp>>
      BY <2>6 DEF InsertVariant, key
    <3> QED BY <3>1, <3>2, <1>1, <1>2 DEF KeyOrder
  <2>7. CASE WorkerFails(w)
    <3>1. Does(w, "renaming") => key \in Keys
      BY <2>2 DEF Publishing, Does
    <3>2. /\ temp' = IF Does(w, "renaming") THEN [temp EXCEPT ![key] = NoFile] ELSE temp
          /\ UNCHANGED <<cache, rows>>
      BY <2>7 DEF WorkerFails, key
    <3> QED BY <3>1, <3>2, <1>1, <1>2, <1>3 DEF CacheTypes, KeyOrder
  <2> QED BY <2>3, <2>4, <2>5, <2>6, <2>7, <1>4, <1>6
          DEF WorkerStep, Claim, OpenFile, LeaveAlone, MarkFailed, RenameNothing, Stat, MarkReady,
              Finish, thumbs
<1> QED BY <1>4, <1>5, <1>6
        DEF Next, ScanStep, vars, Edit, ScanList, ScanUpsert, ScanEnqueue, ScanCountMissing, Crash,
            thumbs

LEMMA OrderInit == Init => OrderInv
<1> SUFFICES ASSUME Init PROVE OrderInv
  OBVIOUS
<1>1. ItemOrder
  BY DEF Init, ItemOrder, NoScan
<1>2. \A w \in Workers : OpOrder(op[w])
  BY DEF Init, OpOrder, Idle, PictureStages
<1>3. \A k \in Keys : KeyOrder(k)
  BY DEF Init, KeyOrder, NoFile
<1> QED BY <1>1, <1>2, <1>3 DEF OrderInv

LEMMA OrderStep == TypesInv /\ OrderInv /\ [Next]_vars => OrderInv'
<1> SUFFICES ASSUME TypesInv, OrderInv, [Next]_vars PROVE OrderInv'
  OBVIOUS
<1> QED BY ItemOrderStep, OpOrderStep, KeyOrderStep DEF OrderInv

-------------------------------------------------------------------------------
(* Files *)

LEMMA HalfIsHalfDone == \A k : k \in HalfDone <=> Half(k)
  BY DEF HalfDone, Half, Deleting, Holds, Publishing

\* A key that a step does not touch stays as it is.
LEMMA Elsewhere ==
  ASSUME NEW k, KeyFiles(k), cache'[k] = cache[k], temp'[k] = temp[k],
         (k \in rows') <=> (k \in rows), k \in evicted => k \in evicted',
         Evicting(k)' <=> Evicting(k), Deleting(k)' <=> Deleting(k),
         \A u \in Workers : /\ Holds(u, k)' <=> Holds(u, k)
                            /\ Holds(u, k) => op'[u] = op[u]
  PROVE  KeyFiles(k)'
<1>1. \A w \in Workers : Holds(w, k)' =>
        (/\ \A u \in Workers : Holds(u, k) => u = w
         /\ ~Evicting(k)
         /\ op[w].at = "writing" => temp[k] = Partial
         /\ op[w].at = "renaming" => temp[k] = op[w].picture
         /\ op[w].at \in {"stating", "inserting"} => cache[k] # NoFile)'
  BY DEF KeyFiles
<1>2. Half(k)' <=> Half(k)
  BY DEF Half
<1> QED BY <1>1, <1>2 DEF KeyFiles

\* Who holds a key after a worker has moved.
LEMMA HoldsAfter ==
  ASSUME NEW w \in Workers, NEW a, NEW j, NEW v, NEW p, NEW t, NEW x, NEW k,
         Moves(w, Rec(a, j, v, p, t, x))
  PROVE  /\ Holds(w, k)' <=> a \in PublishStages /\ <<v, x>> = k
         /\ \A u \in Workers \ {w} : (Holds(u, k)' <=> Holds(u, k)) /\ op'[u] = op[u]
<1>1. op'[w] = Rec(a, j, v, p, t, x) /\ \A u \in Workers \ {w} : op'[u] = op[u]
  BY DEF Moves
<1>2. op'[w].at = a /\ op'[w].version = v /\ op'[w].variant = x
  BY <1>1 DEF Rec
<1>3. Holds(w, k)' <=> a \in PublishStages /\ <<v, x>> = k
  BY <1>2 DEF Holds, Publishing, KeyOf, PublishStages
<1>4. \A u \in Workers \ {w} : (Holds(u, k)' <=> Holds(u, k)) /\ op'[u] = op[u]
  BY <1>1 DEF Holds, Publishing, KeyOf
<1> QED BY <1>3, <1>4

LEMMA EvictFilesStep ==
  ASSUME TypesInv, FilesInv, Evict, NEW k \in Keys, k \notin torn'
  PROVE  KeyFiles(k)'
<1>1. CacheTypes /\ EvictionTypes /\ UNCHANGED op
  BY DEF TypesInv, Evict, EvictBegin, EvictChoose, EvictFile, EvictRow
<1>2. k \notin torn /\ KeyFiles(k)
  BY DEF FilesInv, Evict, EvictBegin, EvictChoose, EvictFile, EvictRow, history
<1>3. \A u \in Workers : (Holds(u, k)' <=> Holds(u, k)) /\ op'[u] = op[u]
  BY <1>1 DEF Holds, Publishing, KeyOf
<1>4. CASE EvictBegin
  <2>1. ~Evicting(k) /\ ~Deleting(k) /\ ~Evicting(k)' /\ ~Deleting(k)'
    BY <1>4 DEF EvictBegin, Evicting, Deleting, NoEviction
  <2> QED BY <2>1, <1>2, <1>3, <1>4, Elsewhere DEF EvictBegin, thumbs, history
<1>5. CASE EvictChoose
  <2>1. PICK key \in rows :
          /\ eviction' = [eviction EXCEPT !.at = "removing", !.key = key]
          /\ torn' = IF BusyWith(key) # {} THEN torn \cup {key} ELSE torn
    BY <1>5 DEF EvictChoose
  <2>2. eviction'.at = "removing" /\ eviction'.key = key /\ eviction.at = "choosing"
    BY <2>1, <1>1, <1>5 DEF EvictionTypes, EvictChoose
  <2>3. ~Deleting(k) /\ ~Deleting(k)' /\ ~Evicting(k) /\ (Evicting(k)' <=> k = key)
    BY <2>2 DEF Deleting, Evicting
  <2>4. UNCHANGED <<cache, temp, rows, evicted>>
    BY <1>5 DEF EvictChoose, thumbs
  <2>5. CASE k # key
    BY <2>3, <2>4, <2>5, <1>2, <1>3, Elsewhere
  <2>6. CASE k = key
    <3>1. \A u \in Workers : ~Holds(u, k)
      BY <2>1, <2>6 DEF BusyWith, Holds
    <3>2. ~Half(k) /\ ~Half(k)'
      BY <3>1, <2>3, <1>3 DEF Half
    <3> QED BY <3>1, <3>2, <2>3, <2>4, <1>2, <1>3 DEF KeyFiles
  <2> QED BY <2>5, <2>6
<1>6. CASE EvictFile
  <2> DEFINE key == eviction.key
  <2>1. /\ eviction.at = "removing" /\ eviction'.at = "deleting" /\ eviction'.key = key
        /\ key \in Keys
    BY <1>1, <1>6 DEF EvictFile, EvictionTypes
  <2>2. /\ ~Deleting(k) /\ (Deleting(k)' <=> k = key)
        /\ (Evicting(k) <=> k = key) /\ (Evicting(k)' <=> k = key)
    BY <2>1 DEF Deleting, Evicting
  <2>3. /\ cache' = [cache EXCEPT ![key] = NoFile] /\ evicted' = evicted \cup {key}
        /\ UNCHANGED <<temp, rows>>
    BY <1>6 DEF EvictFile, Unlinked
  <2> HIDE DEF key
  <2>4. CASE k # key
    <3>1. cache'[k] = cache[k]
      BY <2>1, <2>3, <2>4, <1>1 DEF CacheTypes
    <3> QED BY <3>1, <2>2, <2>3, <2>4, <1>2, <1>3, Elsewhere
  <2>5. CASE k = key
    <3>1. \A u \in Workers : ~Holds(u, k)
      BY <2>2, <2>5, <1>2 DEF KeyFiles
    <3>2. cache'[k] = NoFile /\ k \in evicted'
      BY <2>3, <2>5, <2>1, <1>1 DEF CacheTypes
    <3>3. Half(k)'
      BY <2>2, <2>5 DEF Half
    <3> QED BY <3>1, <3>2, <3>3, <1>3 DEF KeyFiles, NoFile, Partial
  <2> QED BY <2>4, <2>5
<1>7. CASE EvictRow
  <2> DEFINE key == eviction.key
  <2>1. /\ eviction.at = "deleting" /\ eviction'.at \in {"choosing", "idle"} /\ key \in Keys
    BY <1>1, <1>7 DEF EvictRow, EvictionTypes, NoEviction
  <2>2. /\ (Deleting(k) <=> k = key) /\ (Evicting(k) <=> k = key)
        /\ ~Deleting(k)' /\ ~Evicting(k)'
    BY <2>1 DEF Deleting, Evicting
  <2>3. rows' = rows \ {key} /\ UNCHANGED <<cache, temp, evicted>>
    BY <1>7 DEF EvictRow, history
  <2> HIDE DEF key
  <2>4. CASE k # key
    BY <2>2, <2>3, <2>4, <1>2, <1>3, Elsewhere
  <2>5. CASE k = key
    <3>1. (\A u \in Workers : ~Holds(u, k)) /\ cache[k] = NoFile
      BY <2>2, <2>5, <1>2 DEF KeyFiles
    <3> QED BY <3>1, <2>2, <2>3, <2>5, <1>3 DEF KeyFiles, NoFile, Partial
  <2> QED BY <2>4, <2>5
<1> QED BY <1>4, <1>5, <1>6, <1>7 DEF Evict

\* A worker that holds no key, before and after, disturbs none.
LEMMA NoKeyInHand ==
  ASSUME FilesInv, NEW w \in Workers, NEW k \in Keys, k \notin torn,
         UNCHANGED <<thumbs, evicted, eviction>>, ~Holds(w, k), ~Holds(w, k)',
         \A u \in Workers \ {w} : (Holds(u, k)' <=> Holds(u, k)) /\ op'[u] = op[u]
  PROVE  KeyFiles(k)'
<1>1. KeyFiles(k)
  BY DEF FilesInv
<1>2. (Evicting(k)' <=> Evicting(k)) /\ (Deleting(k)' <=> Deleting(k))
  BY DEF Evicting, Deleting
<1>3. \A u \in Workers : (Holds(u, k)' <=> Holds(u, k)) /\ (Holds(u, k) => op'[u] = op[u])
  OBVIOUS
<1> QED BY <1>1, <1>2, <1>3, Elsewhere DEF thumbs

LEMMA WorkerFilesStep ==
  ASSUME TypesInv, FilesInv, NEW w \in Workers, WorkerStep(w), NEW k \in Keys, k \notin torn'
  PROVE  KeyFiles(k)'
<1> DEFINE o == op[w]
           key == KeyOf(w)
<1>1. CacheTypes /\ UNCHANGED <<eviction, evicted>>
  BY DEF TypesInv, WorkerStep, Claim, OpenFile, LeaveAlone, MarkFailed, SaveBegin, SaveEnd, Rename,
         RenameNothing, Stat, InsertVariant, MarkReady, Finish, WorkerFails, history
<1>2. k \notin torn /\ KeyFiles(k)
  <2>1. torn \subseteq torn'
    BY DEF WorkerStep, Claim, OpenFile, LeaveAlone, MarkFailed, SaveBegin, SaveEnd, Rename,
         RenameNothing, Stat, InsertVariant, MarkReady, Finish, WorkerFails, history
  <2> QED BY <2>1 DEF FilesInv
<1>3. (Evicting(k)' <=> Evicting(k)) /\ (Deleting(k)' <=> Deleting(k))
  BY <1>1 DEF Evicting, Deleting
<1>4. /\ Holds(w, k) <=> o.at \in PublishStages /\ key = k
      /\ o.at \in PublishStages => key \in Keys
      /\ key = <<o.version, o.variant>>
      /\ o.at \in PublishStages => o.picture \in 1..Versions
  BY KeyTypes DEF Holds, HasPicture, PublishStages, PictureStages, KeyOf
<1>5. NoFile \notin 1..Versions /\ Partial \notin 1..Versions /\ NoFile # Partial
  BY DEF NoFile, Partial
<1> HIDE DEF o, key
\* The worker lets go of its key, or held none, and touches no file.
<1>6. ASSUME NEW a \in {"ok", "error", "marking", "idle"}, NEW j, Moves(w, Rec(a, j, 0, 0, {}, None)),
             UNCHANGED thumbs, ~Holds(w, k)
      PROVE  KeyFiles(k)'
  <2>1. /\ ~Holds(w, k)'
        /\ \A u \in Workers \ {w} : (Holds(u, k)' <=> Holds(u, k)) /\ op'[u] = op[u]
    BY <1>6, HoldsAfter DEF PublishStages
  <2> QED BY <2>1, <1>1, <1>2, <1>6, NoKeyInHand
\* What the others hold when the worker moves on with its key.
<1>7. ASSUME NEW a \in {"renaming", "stating", "inserting"}, o.at \in PublishStages,
             Moves(w, Rec(a, o.job, o.version, o.picture, o.todo, o.variant))
      PROVE  /\ \A u \in Workers : Holds(u, k)' <=> Holds(u, k)
             /\ \A u \in Workers \ {w} : op'[u] = op[u]
             /\ op'[w].at = a /\ op'[w].picture = o.picture
  <2>1. /\ Holds(w, k)' <=> <<o.version, o.variant>> = k
        /\ \A u \in Workers \ {w} : (Holds(u, k)' <=> Holds(u, k)) /\ op'[u] = op[u]
    <3>1. /\ Holds(w, k)' <=> a \in PublishStages /\ <<o.version, o.variant>> = k
          /\ \A u \in Workers \ {w} : (Holds(u, k)' <=> Holds(u, k)) /\ op'[u] = op[u]
      BY <1>7, HoldsAfter, Zenon
    <3> QED BY <3>1 DEF PublishStages
  <2>2. op'[w].at = a /\ op'[w].picture = o.picture
    BY <1>7 DEF Moves, Rec
  <2> QED BY <2>1, <2>2, <1>4, <1>7
<1>8. CASE Claim(w)
  <2>1. PICK v \in 1..Versions :
          Moves(w, IF missing THEN Rec("ok", v, 0, 0, {}, None)
                   ELSE Rec("opening", v, version, 0, {}, None))
    BY <1>8, WorkerMoves
  <2>2. o.at = "idle" /\ UNCHANGED thumbs
    BY <1>8 DEF Claim, Does, o
  <2>3. ~Holds(w, k)
    BY <2>2, <1>4 DEF PublishStages
  <2>4. /\ ~Holds(w, k)'
        /\ \A u \in Workers \ {w} : (Holds(u, k)' <=> Holds(u, k)) /\ op'[u] = op[u]
    <3>1. CASE missing
      <4>1. Moves(w, Rec("ok", v, 0, 0, {}, None))
        BY <2>1, <3>1
      <4>2. /\ Holds(w, k)' <=> "ok" \in PublishStages /\ <<0, None>> = k
          /\ \A u \in Workers \ {w} : (Holds(u, k)' <=> Holds(u, k)) /\ op'[u] = op[u]
        BY <4>1, HoldsAfter, Zenon
      <4> QED BY <4>2 DEF PublishStages
    <3>2. CASE ~missing
      <4>1. Moves(w, Rec("opening", v, version, 0, {}, None))
        BY <2>1, <3>2
      <4>2. /\ Holds(w, k)' <=> "opening" \in PublishStages /\ <<version, None>> = k
          /\ \A u \in Workers \ {w} : (Holds(u, k)' <=> Holds(u, k)) /\ op'[u] = op[u]
        BY <4>1, HoldsAfter, Zenon
      <4> QED BY <4>2 DEF PublishStages
    <3> QED BY <3>1, <3>2
  <2> QED BY <2>2, <2>3, <2>4, <1>1, <1>2, NoKeyInHand
<1>9. CASE OpenFile(w)
  <2>1. /\ Moves(w, IF content = 0 THEN Rec("error", o.job, 0, 0, {}, None)
                    ELSE Rec(verdict[content], o.job, o.version, content, Variants, o.variant))
        /\ o.at = "opening" /\ UNCHANGED thumbs
    BY <1>9, WorkerMoves DEF o, OpenFile, Does
  <2>2. ~Holds(w, k)
    BY <2>1, <1>4 DEF PublishStages
  <2>3. CASE content = 0
    BY <2>1, <2>2, <2>3, <1>6
  <2>4. CASE content # 0
    <3>1. verdict[content] \notin PublishStages
      BY <2>4, ThumbnailsAssumption DEF TypesInv, ItemTypes, Verdict, PublishStages
    <3>2. /\ ~Holds(w, k)'
          /\ \A u \in Workers \ {w} : (Holds(u, k)' <=> Holds(u, k)) /\ op'[u] = op[u]
      BY <2>1, <2>4, <3>1, HoldsAfter
    <3> QED BY <2>1, <2>2, <3>2, <1>1, <1>2, NoKeyInHand
  <2> QED BY <2>3, <2>4
<1>10. CASE LeaveAlone(w) \/ MarkReady(w) \/ MarkFailed(w)
  <2>1. o.at \notin PublishStages /\ UNCHANGED thumbs
    BY <1>10 DEF LeaveAlone, MarkReady, MarkFailed, Does, o, PublishStages
  <2>2. \E a \in {"ok", "error"} : Moves(w, Rec(a, o.job, 0, 0, {}, None))
    BY <1>10, WorkerMoves DEF o
  <2> QED BY <2>1, <2>2, <1>4, <1>6
<1>11. CASE Finish(w)
  <2>1. o.at \notin PublishStages /\ UNCHANGED thumbs
    BY <1>11 DEF Finish, o, PublishStages
  <2>2. Moves(w, Rec("idle", 0, 0, 0, {}, None))
    BY <1>11, WorkerMoves
  <2> QED BY <2>1, <2>2, <1>4, <1>6
<1>12. CASE SaveBegin(w)
  <2>1. PICK v \in o.todo :
          /\ temp' = [temp EXCEPT ![<<o.version, v>>] = Partial]
          /\ torn' = IF BusyWith(<<o.version, v>>) # {} \/ Evicting(<<o.version, v>>)
                     THEN torn \cup {<<o.version, v>>} ELSE torn
          /\ Moves(w, Rec("writing", o.job, o.version, o.picture, o.todo \ {v}, v))
    BY <1>12, WorkerMoves DEF o
  <2> DEFINE new == <<o.version, v>>
  <2>2. ~Holds(w, k) /\ UNCHANGED <<cache, rows>>
    BY <1>12, <1>4 DEF SaveBegin, CreateAside, o, PublishStages
  <2>3. /\ Holds(w, k)' <=> new = k
        /\ \A u \in Workers \ {w} : (Holds(u, k)' <=> Holds(u, k)) /\ op'[u] = op[u]
        /\ op'[w].at = "writing"
    <3>1. op'[w].at = "writing"
      BY <2>1 DEF Moves, Rec
    <3>2. /\ Holds(w, k)' <=> "writing" \in PublishStages /\ new = k
          /\ \A u \in Workers \ {w} : (Holds(u, k)' <=> Holds(u, k)) /\ op'[u] = op[u]
      BY <2>1, HoldsAfter, Zenon
    <3> QED BY <3>1, <3>2 DEF PublishStages
  <2>4. CASE k # new
    <3>1. temp'[k] = temp[k]
      BY <2>1, <2>4, <1>1 DEF CacheTypes
    <3> QED BY <3>1, <2>2, <2>3, <2>4, <1>1, <1>2, <1>3, Elsewhere
  <2>5. CASE k = new
    <3>1. (\A u \in Workers : ~Holds(u, k)) /\ ~Evicting(k)
      BY <2>1, <2>5 DEF BusyWith, Holds
    <3>2. ~Evicting(k)' /\ ~Deleting(k) /\ ~Deleting(k)'
      BY <3>1, <1>3 DEF Evicting, Deleting
    <3>3. temp'[k] = Partial
      BY <2>1, <2>5, <1>1 DEF CacheTypes
    <3>4. ~Half(k)
      BY <3>1, <3>2 DEF Half
    <3>5. \A u \in Workers : Holds(u, k)' => u = w
      BY <3>1, <2>3
    <3> QED BY <3>1, <3>2, <3>3, <3>4, <3>5, <2>2, <2>3, <1>2 DEF KeyFiles
  <2> QED BY <2>4, <2>5
<1>13. CASE SaveEnd(w)
  <2>1. /\ Moves(w, Rec("renaming", o.job, o.version, o.picture, o.todo, o.variant))
        /\ o.at = "writing" /\ o.at \in PublishStages
    BY <1>13, WorkerMoves DEF o, SaveEnd, Does, PublishStages
  <2>2. UNCHANGED rows
    BY <1>13 DEF SaveEnd
  <2>3. /\ \A u \in Workers : Holds(u, k)' <=> Holds(u, k)
        /\ \A u \in Workers \ {w} : op'[u] = op[u]
        /\ op'[w].at = "renaming" /\ op'[w].picture = o.picture
    BY <2>1, <1>7
  <2>4. CASE k # key
    <3>1. cache'[k] = cache[k] /\ temp'[k] = temp[k]
      BY <2>4, <2>1, <1>1, <1>4, <1>13 DEF SaveEnd, CacheTypes, key
    <3>2. ~Holds(w, k)
      BY <2>4, <1>4
    <3> QED BY <3>1, <3>2, <2>2, <2>3, <1>1, <1>2, <1>3, Elsewhere
  <2>5. CASE k = key
    <3>1. Holds(w, k) /\ \A u \in Workers : Holds(u, k) => u = w
      BY <2>1, <2>5, <1>2, <1>4 DEF KeyFiles
    <3>2. temp[k] = Partial
      BY <3>1, <2>1, <1>2 DEF KeyFiles, o
    <3>3. temp'[k] = o.picture /\ cache' = cache
      BY <3>2, <2>5, <1>1, <1>5, <1>13 DEF SaveEnd, CacheTypes, key, o
    <3>4. Half(k)' <=> Half(k)
      BY <3>1, <2>1, <2>3, <1>3 DEF Half, o
    <3> QED BY <3>1, <3>3, <3>4, <2>2, <2>3, <1>1, <1>2, <1>3 DEF KeyFiles
  <2> QED BY <2>4, <2>5
<1>14. CASE Rename(w)
  <2>1. /\ Moves(w, Rec("stating", o.job, o.version, o.picture, o.todo, o.variant))
        /\ o.at = "renaming" /\ o.at \in PublishStages
    BY <1>14, WorkerMoves DEF o, Rename, Does, PublishStages
  <2>2. /\ cache' = [cache EXCEPT ![key] = temp[key]]
        /\ temp' = [temp EXCEPT ![key] = NoFile]
        /\ UNCHANGED rows
    BY <1>14 DEF Rename, key
  <2>3. /\ \A u \in Workers : Holds(u, k)' <=> Holds(u, k)
        /\ \A u \in Workers \ {w} : op'[u] = op[u]
        /\ op'[w].at = "stating"
    BY <2>1, <1>7
  <2>4. CASE k # key
    <3>1. cache'[k] = cache[k] /\ temp'[k] = temp[k]
      BY <2>4, <2>2, <1>1 DEF CacheTypes
    <3>2. ~Holds(w, k)
      BY <2>4, <1>4
    <3> QED BY <3>1, <3>2, <2>2, <2>3, <1>1, <1>2, <1>3, Elsewhere
  <2>5. CASE k = key
    <3>1. Holds(w, k) /\ \A u \in Workers : Holds(u, k) => u = w
      BY <2>1, <2>5, <1>2, <1>4 DEF KeyFiles
    <3>2. temp[k] = o.picture
      BY <3>1, <2>1, <1>2 DEF KeyFiles, o
    <3>3. cache'[k] = o.picture /\ o.picture \in 1..Versions
      BY <3>2, <2>1, <2>2, <2>5, <1>1, <1>4 DEF CacheTypes
    <3>4. ~Deleting(k) /\ ~Evicting(k)
      BY <3>1, <1>2 DEF KeyFiles, Deleting, Evicting
    <3>5. Half(k)'
      BY <3>1, <2>3 DEF Half
    <3> QED BY <3>1, <3>3, <3>4, <3>5, <2>3, <1>3, <1>5 DEF KeyFiles
  <2> QED BY <2>4, <2>5
<1>15. CASE RenameNothing(w)
  <2>1. /\ Moves(w, Rec("error", o.job, 0, 0, {}, None))
        /\ o.at = "renaming" /\ temp[key] = NoFile /\ UNCHANGED thumbs
    BY <1>15, WorkerMoves DEF o, RenameNothing, Does, key
  <2>2. o.at \in PublishStages
    BY <2>1 DEF PublishStages
  <2>3. ~Holds(w, k)
    BY <2>1, <2>2, <1>2, <1>4, <1>5 DEF KeyFiles, o
  <2> QED BY <2>1, <2>3, <1>6
<1>16. CASE Stat(w)
  <2>1. /\ Moves(w, IF cache[key] = NoFile THEN Rec("error", o.job, 0, 0, {}, None)
                    ELSE Rec("inserting", o.job, o.version, o.picture, o.todo, o.variant))
        /\ o.at = "stating" /\ UNCHANGED thumbs
    BY <1>16, WorkerMoves DEF o, Stat, Does, key
  <2>2. o.at \in PublishStages
    BY <2>1 DEF PublishStages
  <2>3. CASE cache[key] = NoFile
    <3>1. ~Holds(w, k)
      BY <2>1, <2>2, <2>3, <1>2, <1>4 DEF KeyFiles, o
    <3> QED BY <2>1, <2>3, <3>1, <1>6
  <2>4. CASE cache[key] # NoFile
    <3>1. /\ \A u \in Workers : Holds(u, k)' <=> Holds(u, k)
          /\ \A u \in Workers \ {w} : op'[u] = op[u]
          /\ op'[w].at = "inserting"
      BY <2>1, <2>2, <2>4, <1>7
    <3>2. Half(k)' <=> Half(k)
      BY <3>1, <2>1, <1>3 DEF Half, o
    <3>3. \A u \in Workers : Holds(u, k)' => u = w \/ op'[u] = op[u]
      BY <3>1
    <3>4. UNCHANGED <<cache, temp, rows>>
      BY <2>1 DEF thumbs
    <3>5. Holds(w, k) => cache[k] # NoFile
      BY <2>4, <1>4
    <3> QED BY <3>1, <3>2, <3>3, <3>4, <3>5, <1>1, <1>2, <1>3 DEF KeyFiles
  <2> QED BY <2>3, <2>4
<1>17. CASE InsertVariant(w)
  <2>1. /\ Moves(w, IF o.todo = {} THEN Rec("marking", o.job, 0, 0, {}, None)
                    ELSE Rec("saving", o.job, o.version, o.picture, o.todo, None))
        /\ o.at = "inserting" /\ rows' = rows \cup {key} /\ UNCHANGED <<cache, temp>>
    BY <1>17, WorkerMoves DEF o, InsertVariant, Does, key
  <2>2. /\ ~Holds(w, k)'
        /\ \A u \in Workers \ {w} : (Holds(u, k)' <=> Holds(u, k)) /\ op'[u] = op[u]
    <3>1. CASE o.todo = {}
      <4>1. Moves(w, Rec("marking", o.job, 0, 0, {}, None))
        BY <2>1, <3>1
      <4>2. /\ Holds(w, k)' <=> "marking" \in PublishStages /\ <<0, None>> = k
          /\ \A u \in Workers \ {w} : (Holds(u, k)' <=> Holds(u, k)) /\ op'[u] = op[u]
        BY <4>1, HoldsAfter, Zenon
      <4> QED BY <4>2 DEF PublishStages
    <3>2. CASE o.todo # {}
      <4>1. Moves(w, Rec("saving", o.job, o.version, o.picture, o.todo, None))
        BY <2>1, <3>2
      <4>2. /\ Holds(w, k)' <=> "saving" \in PublishStages /\ <<o.version, None>> = k
          /\ \A u \in Workers \ {w} : (Holds(u, k)' <=> Holds(u, k)) /\ op'[u] = op[u]
        BY <4>1, HoldsAfter, Zenon
      <4> QED BY <4>2 DEF PublishStages
    <3> QED BY <3>1, <3>2
  <2>3. CASE k # key
    <3>1. ~Holds(w, k)
      BY <2>3, <1>4
    <3> QED BY <3>1, <2>1, <2>2, <2>3, <1>1, <1>2, <1>3, Elsewhere
  <2>4. CASE k = key
    <3>1. Holds(w, k) /\ \A u \in Workers : Holds(u, k) => u = w
      BY <2>1, <2>4, <1>2, <1>4 DEF KeyFiles, PublishStages
    <3>2. cache[k] # NoFile /\ ~Deleting(k)
      BY <3>1, <2>1, <1>2 DEF KeyFiles, o, Deleting, Evicting
    <3>3. \A u \in Workers : ~Holds(u, k)'
      BY <3>1, <2>2
    <3> QED BY <3>2, <3>3, <2>1, <2>4, <1>2, <1>3 DEF KeyFiles
  <2> QED BY <2>3, <2>4
<1>18. CASE WorkerFails(w)
  <2>1. /\ Moves(w, Rec("error", o.job, 0, 0, {}, None))
        /\ temp' = IF o.at = "renaming" THEN [temp EXCEPT ![key] = NoFile] ELSE temp
        /\ torn' = IF o.at \in {"stating", "inserting"} THEN torn \cup {key} ELSE torn
        /\ UNCHANGED <<cache, rows>>
    BY <1>18, WorkerMoves DEF o, WorkerFails, Does, key
  <2>2. /\ ~Holds(w, k)'
        /\ \A u \in Workers \ {w} : (Holds(u, k)' <=> Holds(u, k)) /\ op'[u] = op[u]
    BY <2>1, HoldsAfter DEF PublishStages
  <2>3. Holds(w, k) => o.at \notin {"stating", "inserting"}
    BY <2>1, <1>4
  <2>4. CASE Holds(w, k)
    <3>1. \A u \in Workers : Holds(u, k) => u = w
      BY <2>4, <1>2 DEF KeyFiles
    <3>2. \A u \in Workers : ~Holds(u, k)'
      BY <3>1, <2>2
    <3>3. ~Deleting(k) /\ ~Half(k)
      BY <2>3, <2>4, <3>1, <1>2 DEF KeyFiles, Half, o, Deleting, Evicting
    <3> QED BY <3>2, <3>3, <2>1, <1>2, <1>3 DEF KeyFiles
  <2>5. CASE ~Holds(w, k)
    <3>1. temp'[k] = temp[k]
      BY <2>1, <2>5, <1>1, <1>4 DEF CacheTypes, PublishStages
    <3> QED BY <3>1, <2>1, <2>2, <2>5, <1>1, <1>2, <1>3, Elsewhere
  <2> QED BY <2>4, <2>5
<1> QED BY <1>8, <1>9, <1>10, <1>11, <1>12, <1>13, <1>14, <1>15, <1>16, <1>17, <1>18 DEF WorkerStep

LEMMA FilesInit == Init => FilesInv
<1> SUFFICES ASSUME Init, NEW k \in Keys PROVE KeyFiles(k)
  BY DEF FilesInv
<1>1. (\A w \in Workers : ~Holds(w, k)) /\ ~Deleting(k)
  BY DEF Init, Idle, NoEviction, Holds, Publishing, Deleting
<1> QED BY <1>1 DEF Init, KeyFiles, NoFile, Partial

LEMMA FilesStep == TypesInv /\ FilesInv /\ [Next]_vars => FilesInv'
<1> SUFFICES ASSUME TypesInv, FilesInv, [Next]_vars PROVE FilesInv'
  OBVIOUS
<1>1. SUFFICES ASSUME NEW k \in Keys, k \notin torn' PROVE KeyFiles(k)'
  BY DEF FilesInv
<1>2. CASE UNCHANGED <<thumbs, history, op, eviction>>
  <2>1. (Evicting(k)' <=> Evicting(k)) /\ (Deleting(k)' <=> Deleting(k))
    BY <1>2 DEF Evicting, Deleting
  <2>2. \A u \in Workers : (Holds(u, k)' <=> Holds(u, k)) /\ op'[u] = op[u]
    BY <1>2 DEF Holds, Publishing, KeyOf
  <2>3. KeyFiles(k) /\ UNCHANGED <<rows, cache, temp, evicted>>
    BY <1>1, <1>2 DEF FilesInv, history, thumbs
  <2> QED BY <2>1, <2>2, <2>3, Elsewhere
<1>3. CASE Crash
  <2>1. (\A w \in Workers : ~Holds(w, k)') /\ ~Deleting(k)'
    BY <1>3 DEF Crash, Idle, NoEviction, Holds, Publishing, Deleting
  <2>2. k \notin HalfDone /\ k \notin torn
    BY <1>1, <1>3 DEF Crash
  <2>3. KeyFiles(k) /\ ~Half(k)
    BY <2>2, HalfIsHalfDone DEF FilesInv
  <2> QED BY <2>1, <2>3, <1>3 DEF KeyFiles, Crash, thumbs
<1> QED BY <1>1, <1>2, <1>3, WorkerFilesStep, EvictFilesStep
        DEF Next, ScanStep, vars, Edit, ScanList, ScanUpsert, ScanEnqueue, ScanCountMissing

-------------------------------------------------------------------------------
(* Current *)

\* The scan brings the index up to date with a version nobody knows of yet.
LEMMA CurrentBegins ==
  ASSUME TypesInv, OrderInv, ScanUpsert, version # scan.seen
  PROVE  Current'
<1>1. ItemTypes /\ CacheTypes /\ version \in Nat /\ version' \in Nat /\ version' \in 1..Versions
  BY ThumbnailsAssumption DEF TypesInv, ItemTypes, ScanUpsert
<1>2. version < version' /\ version' = scan.seen /\ UNCHANGED <<job, thumbs, op, verdict>>
  BY <1>1 DEF ScanUpsert, OrderInv, ItemOrder
<1>3. CurrentItem'
  <2>1. scan'.at = "enqueueing" /\ missing' = FALSE
    BY <1>1 DEF ScanUpsert, ItemTypes
  <2> QED BY <2>1 DEF CurrentItem
<1>4. ASSUME NEW w \in Workers PROVE CurrentOp(op[w])'
  <2>1. op[w].version <= version /\ op[w].job <= version /\ op[w].version \in Nat /\ op[w].job \in Nat
    BY ThumbnailsAssumption DEF OrderInv, OpOrder, TypesInv, WorkerTypes, OpOK, Ops
  <2>2. op'[w].version # version' /\ op'[w].job # version'
    BY <2>1, <1>1, <1>2
  <2> QED BY <2>2 DEF CurrentOp, ShowsOp
<1>5. ASSUME NEW v \in Variants PROVE CurrentKey(v)'
  <2>1. <<version', v>> \in Keys /\ <<version', v>>[1] = version'
    BY <1>1 DEF Keys
  <2>2. cache[<<version', v>>] = NoFile /\ temp[<<version', v>>] = NoFile
    BY <2>1, <1>1, <1>2 DEF OrderInv, KeyOrder
  <2> QED BY <2>2, <1>2 DEF CurrentKey, thumbs, NoFile
<1>6. job'[version'] = "absent"
  BY <1>1, <1>2 DEF OrderInv, ItemOrder
<1> QED BY <1>3, <1>4, <1>5, <1>6 DEF Current

\* While the version stays, what is present and what is served stay.
LEMMA PresentStays ==
  ASSUME TypesInv, FilesInv, [Next]_vars, UNCHANGED version, version # 0
  PROVE  /\ \A v \in Variants : Present(v) => Present(v)'
         /\ status # "pending" => status' # "pending"
         /\ Served => Served'
<1>1. CacheTypes /\ EvictionTypes /\ version \in 1..Versions
  BY ThumbnailsAssumption DEF TypesInv, ItemTypes
<1>2. ASSUME NEW v \in Variants, Present(v) PROVE Present(v)'
  <2> DEFINE k == <<version, v>>
  <2>1. k \in Keys
    BY <1>1 DEF Keys
  <2>2. evicted \subseteq evicted' /\ torn \subseteq torn'
    BY DEF Next, ScanStep, vars, Edit, ScanList, ScanUpsert, ScanEnqueue, ScanCountMissing, Evict,
         EvictBegin, EvictChoose, EvictFile, EvictRow, Crash, WorkerStep, Claim, OpenFile,
         LeaveAlone, MarkFailed, SaveBegin, SaveEnd, Rename, RenameNothing, Stat, InsertVariant,
         MarkReady, Finish, WorkerFails, history
  <2>3. rows \subseteq rows' \/ EvictRow
    BY DEF Next, ScanStep, vars, Edit, ScanList, ScanUpsert, ScanEnqueue, ScanCountMissing, Evict,
         EvictBegin, EvictChoose, EvictFile, Crash, WorkerStep, Claim, OpenFile,
         LeaveAlone, MarkFailed, SaveBegin, SaveEnd, Rename, RenameNothing, Stat, InsertVariant,
         MarkReady, Finish, WorkerFails, thumbs
  <2>4. CASE EvictRow
    <3>1. rows' = rows \ {eviction.key} /\ eviction.at = "deleting"
      BY <2>4 DEF EvictRow
    <3>2. k = eviction.key => k \in evicted \cup torn
      BY <3>1, <2>1 DEF FilesInv, KeyFiles, Deleting
    <3> QED BY <3>1, <3>2, <2>2, <1>2 DEF Present
  <2>5. CASE rows \subseteq rows'
    BY <2>2, <2>5, <1>2 DEF Present
  <2> QED BY <2>3, <2>4, <2>5
<1>3. status # "pending" => status' # "pending"
  BY DEF Next, ScanStep, vars, item, Edit, ScanList, ScanUpsert, ScanEnqueue, ScanCountMissing, Evict,
         EvictBegin, EvictChoose, EvictFile, EvictRow, Crash, WorkerStep, Claim, OpenFile,
         LeaveAlone, MarkFailed, SaveBegin, SaveEnd, Rename, RenameNothing, Stat, InsertVariant,
         MarkReady, Finish, WorkerFails
<1>4. UNCHANGED verdict
  BY DEF Next, ScanStep, vars, item, Edit, ScanList, ScanUpsert, ScanEnqueue, ScanCountMissing, Evict,
         EvictBegin, EvictChoose, EvictFile, EvictRow, Crash, WorkerStep, Claim, OpenFile,
         LeaveAlone, MarkFailed, SaveBegin, SaveEnd, Rename, RenameNothing, Stat, InsertVariant,
         MarkReady, Finish, WorkerFails
<1> QED BY <1>2, <1>3, <1>4 DEF Served

\* The job of the indexed version works on that version, and has read it.
LEMMA JobOfVersion ==
  ASSUME TypesInv, OrderInv, NEW w \in Workers, CurrentOp(op[w]), op[w].job = version,
         op[w].at \in PictureStages
  PROVE  op[w].version = version /\ op[w].picture = version
<1>1. op[w].version \in Nat /\ version \in Nat
  BY ThumbnailsAssumption DEF TypesInv, ItemTypes, WorkerTypes, OpOK, Ops
<1> QED BY <1>1 DEF OrderInv, OpOrder, CurrentOp, ShowsOp

LEMMA CurrentItemStep ==
  ASSUME TypesInv, UpToDate, Current, [Next]_vars, UNCHANGED <<content, version>>
  PROVE  CurrentItem'
<1>1. CurrentItem /\ content # 0 /\ version # 0
  BY DEF Current, UpToDate
<1>2. CASE ScanUpsert
  <2>1. scan'.at # "counting"
    <3>1. CASE version = scan.seen
      BY <3>1, <1>2 DEF ScanUpsert, NoScan
    <3>2. CASE version # scan.seen
      BY <3>2, <1>2 DEF ScanUpsert, TypesInv, ItemTypes
    <3> QED BY <3>1, <3>2
  <2> QED BY <2>1, <1>2 DEF ScanUpsert, CurrentItem
<1>3. CASE ScanList
  BY <1>1, <1>3 DEF ScanList, CurrentItem, item
<1>4. CASE ScanEnqueue
  BY <1>1, <1>4 DEF ScanEnqueue, CurrentItem, item, NoScan
<1>5. CASE ScanCountMissing
  BY <1>1, <1>5 DEF ScanCountMissing, CurrentItem
<1>6. CASE Crash
  BY <1>1, <1>6 DEF Crash, CurrentItem, item, NoScan
<1>7. CASE UNCHANGED <<missing, scan>>
  BY <1>1, <1>7 DEF CurrentItem
<1> QED BY <1>2, <1>3, <1>4, <1>5, <1>6, <1>7
        DEF Next, ScanStep, vars, item, Edit, Evict, EvictBegin, EvictChoose, EvictFile, EvictRow,
            WorkerStep, Claim, OpenFile, LeaveAlone, MarkFailed, SaveBegin, SaveEnd, Rename,
            RenameNothing, Stat, InsertVariant, MarkReady, Finish, WorkerFails

LEMMA CurrentKeyStep ==
  ASSUME TypesInv, UpToDate, Current, [Next]_vars, UNCHANGED <<content, version>>, NEW v \in Variants
  PROVE  CurrentKey(v)'
<1> DEFINE k == <<version, v>>
<1>1. CacheTypes /\ k \in Keys /\ CurrentKey(v)
  BY ThumbnailsAssumption DEF TypesInv, ItemTypes, Keys, UpToDate, Current
<1>2. NoFile \notin 1..Versions /\ Partial \notin 1..Versions
  BY DEF NoFile, Partial
<1>3. /\ cache[k] \in 1..Versions => cache[k] = version
      /\ temp[k] \in 1..Versions => temp[k] = version
  BY <1>1 DEF CurrentKey
<1> SUFFICES /\ cache'[k] \in 1..Versions => cache'[k] = version
             /\ temp'[k] \in 1..Versions => temp'[k] = version
  BY DEF CurrentKey
<1> HIDE DEF k
<1>4. CASE UNCHANGED <<cache, temp>>
  BY <1>3, <1>4
<1>5. CASE Evict
  <2>1. CASE EvictFile
    BY <2>1, <1>1, <1>2, <1>3 DEF EvictFile, Unlinked, CacheTypes
  <2> QED BY <2>1, <1>4, <1>5 DEF Evict, EvictBegin, EvictChoose, EvictRow, thumbs
<1>6. ASSUME NEW w \in Workers, WorkerStep(w)
      PROVE  /\ cache'[k] \in 1..Versions => cache'[k] = version
             /\ temp'[k] \in 1..Versions => temp'[k] = version
  <2> DEFINE key == KeyOf(w)
  <2>1. Publishing(w) /\ k = key => op[w].picture = version
    <3>1. k = key => op[w].version = version
      BY DEF KeyOf, k
    <3>2. Publishing(w) => op[w].at \in PictureStages
      BY DEF Publishing, PictureStages
    <3>3. ShowsOp(op[w])
      BY DEF Current, CurrentOp
    <3> QED BY <3>1, <3>2, <3>3 DEF ShowsOp
  <2> HIDE DEF key
  <2>2. CASE SaveBegin(w)
    <3>1. PICK x \in op[w].todo : temp' = [temp EXCEPT ![<<op[w].version, x>>] = Partial]
      BY <2>2, WorkerMoves
    <3>2. UNCHANGED cache
      BY <2>2 DEF SaveBegin, CreateAside
    <3> QED BY <3>1, <3>2, <1>1, <1>2, <1>3 DEF CacheTypes
  <2>3. CASE SaveEnd(w)
    <3>1. Publishing(w)
      BY <2>3 DEF SaveEnd, Does, Publishing
    <3>2. CASE temp[key] # NoFile
      <4>1. temp' = [temp EXCEPT ![key] = op[w].picture] /\ UNCHANGED cache
        BY <3>2, <2>3 DEF SaveEnd, key
      <4> QED BY <4>1, <3>1, <2>1, <1>1, <1>3 DEF CacheTypes
    <3>3. CASE temp[key] = NoFile
      <4>1. cache' = [cache EXCEPT ![key] = IF @ = Partial THEN op[w].picture ELSE @]
            /\ UNCHANGED temp
        BY <3>3, <2>3 DEF SaveEnd, key
      <4> QED BY <4>1, <3>1, <2>1, <1>1, <1>3 DEF CacheTypes
    <3> QED BY <3>2, <3>3
  <2>4. CASE Rename(w)
    <3>1. /\ cache' = [cache EXCEPT ![key] = temp[key]]
          /\ temp' = [temp EXCEPT ![key] = NoFile]
      BY <2>4 DEF Rename, key
    <3> QED BY <3>1, <1>1, <1>2, <1>3 DEF CacheTypes
  <2>5. CASE WorkerFails(w)
    <3>1. /\ temp' = IF Does(w, "renaming") THEN [temp EXCEPT ![key] = NoFile] ELSE temp
          /\ UNCHANGED cache
      BY <2>5 DEF WorkerFails, key
    <3> QED BY <3>1, <1>1, <1>2, <1>3 DEF CacheTypes
  <2> QED BY <2>2, <2>3, <2>4, <2>5, <1>4, <1>6
          DEF WorkerStep, Claim, OpenFile, LeaveAlone, MarkFailed, RenameNothing, Stat,
              InsertVariant, MarkReady, Finish, thumbs
<1> QED BY <1>4, <1>5, <1>6
        DEF Next, ScanStep, vars, thumbs, Edit, ScanList, ScanUpsert, ScanEnqueue,
            ScanCountMissing, Crash

LEMMA CurrentOpStep ==
  ASSUME TypesInv, OrderInv, FilesInv, UpToDate, Current, [Next]_vars,
         UNCHANGED <<content, version>>
  PROVE  \A w \in Workers : CurrentOp(op[w])'
<1>1. /\ \A w \in Workers : CurrentOp(op[w]) /\ OpOK(op[w])
      /\ ItemTypes /\ CurrentItem /\ content = version /\ version # 0 /\ UNCHANGED verdict
  BY VersionGrows DEF TypesInv, WorkerTypes, Current, UpToDate, OrderInv
<1>2. /\ \A v \in Variants : Present(v) => Present(v)'
      /\ Served => Served'
      /\ status # "pending" => status' # "pending"
  BY <1>1, PresentStays
<1>3. ASSUME NEW o, CurrentOp(o) PROVE CurrentOp(o)'
  BY <1>2, <1>3 DEF CurrentOp, ShowsOp, ServingOp
<1>4. CASE UNCHANGED op
  BY <1>1, <1>3, <1>4 DEF CurrentOp, ShowsOp, ServingOp
<1>5. CASE Crash
  BY <1>5 DEF Crash, CurrentOp, ShowsOp, ServingOp, Idle, PictureStages
<1>6. ASSUME NEW w \in Workers, WorkerStep(w) PROVE \A u \in Workers : CurrentOp(op[u])'
  \* The record before the step, which a prime does not change.
  <2>0. PICK o : o = op[w]
    OBVIOUS
  <2>1. ASSUME NEW n, Moves(w, n), CurrentOp(n)' PROVE \A u \in Workers : CurrentOp(op[u])'
    <3>1. \A u \in Workers \ {w} : CurrentOp(op[u])'
      BY <1>1, <1>3, <2>1 DEF Moves, CurrentOp, ShowsOp, ServingOp
    <3>2. CurrentOp(op[w])'
      BY <2>1 DEF Moves, CurrentOp, ShowsOp, ServingOp
    <3> QED BY <3>1, <3>2
  <2>2. /\ CurrentOp(o) /\ OpOK(o)
        /\ o.job = version /\ o.at \in PictureStages => o.version = version /\ o.picture = version
    BY <1>1, <2>0, JobOfVersion
  <2>3. ASSUME NEW a \in {"error", "idle"}, NEW j, Moves(w, Rec(a, j, 0, 0, {}, None))
        PROVE  \A u \in Workers : CurrentOp(op[u])'
    <3>1. CurrentOp(Rec(a, j, 0, 0, {}, None))'
      BY DEF CurrentOp, ShowsOp, ServingOp, Rec, PictureStages
    <3> QED BY <3>1, <2>1, <2>3
  <2>4. ASSUME Moves(w, Rec("ok", o.job, 0, 0, {}, None)), o.job = version => Served'
        PROVE  \A u \in Workers : CurrentOp(op[u])'
    <3>1. CurrentOp(Rec("ok", o.job, 0, 0, {}, None))'
      BY <2>4, <1>1 DEF CurrentOp, ShowsOp, ServingOp, Rec, PictureStages
    <3> QED BY <3>1, <2>1, <2>4
  <2>5. ASSUME NEW a \in {"renaming", "stating", "inserting"}, o.at \in PublishStages,
               Moves(w, Rec(a, o.job, o.version, o.picture, o.todo, o.variant))
        PROVE  \A u \in Workers : CurrentOp(op[u])'
    <3> DEFINE n == Rec(a, o.job, o.version, o.picture, o.todo, o.variant)
    <3>1. /\ n.at = a /\ n.job = o.job /\ n.version = o.version /\ n.picture = o.picture
          /\ n.todo = o.todo /\ n.variant = o.variant
      BY DEF Rec
    <3>2. o.at \in PictureStages /\ o.at \notin {"broken", "left-alone"} /\ a \in PublishStages
          /\ a \notin {"broken", "left-alone", "marking", "ok"}
      BY <2>5 DEF PublishStages, PictureStages
    <3> HIDE DEF n
    <3>3. ShowsOp(n)'
      BY <3>1, <3>2, <2>2 DEF CurrentOp, ShowsOp
    <3>4. o.job = version => ServingOp(n)'
      BY <3>1, <3>2, <2>2, <1>2 DEF CurrentOp, ServingOp
    <3>5. CurrentOp(n)'
      BY <3>1, <3>3, <3>4 DEF CurrentOp
    <3> QED BY <3>5, <2>1, <2>5 DEF n
  <2>6. CASE Claim(w)
    <3>1. PICK v \in 1..Versions :
            Moves(w, IF missing THEN Rec("ok", v, 0, 0, {}, None)
                     ELSE Rec("opening", v, version, 0, {}, None))
      BY <2>6, WorkerMoves
    <3>2. Moves(w, Rec("opening", v, version, 0, {}, None))
      BY <3>1, <1>1 DEF CurrentItem
    <3>3. CurrentOp(Rec("opening", v, version, 0, {}, None))'
      BY DEF CurrentOp, ShowsOp, ServingOp, Rec, PictureStages
    <3> QED BY <3>2, <3>3, <2>1
  <2>7. CASE OpenFile(w)
    <3>1. Moves(w, Rec(verdict[content], o.job, o.version, content, Variants, o.variant))
      BY <2>0, <2>7, <1>1, WorkerMoves
    <3>2. verdict[content] \notin {"ok", "marking"}
      BY <1>1, ThumbnailsAssumption DEF ItemTypes, Verdict
    <3>3. PICK d : d = verdict[content]
      OBVIOUS
    <3>4. Moves(w, Rec(d, o.job, o.version, version, Variants, o.variant))
      BY <3>1, <3>3, <1>1, Zenon
    <3>5. CurrentOp(Rec(d, o.job, o.version, version, Variants, o.variant))'
      BY <3>2, <3>3 DEF CurrentOp, ShowsOp, ServingOp, Rec
    <3> QED BY <3>4, <3>5, <2>1
  <2>8. CASE LeaveAlone(w)
    <3>1. o.at = "left-alone" /\ status' = "unavailable"
      BY <2>0, <2>8 DEF LeaveAlone, Does
    <3>2. o.job = version => verdict[version] = "left-alone"
      BY <2>0, <3>1, <2>2 DEF OrderInv, OpOrder, PictureStages
    <3>3. o.job = version => Served'
      BY <3>1, <3>2, <1>1 DEF Served
    <3> QED BY <2>0, <3>3, <2>8, <2>4, WorkerMoves
  <2>9. CASE MarkFailed(w) \/ RenameNothing(w) \/ WorkerFails(w)
    BY <2>0, <2>9, <2>3, WorkerMoves
  <2>10. CASE SaveBegin(w)
    <3>1. PICK v \in o.todo : Moves(w, Rec("writing", o.job, o.version, o.picture, o.todo \ {v}, v))
      BY <2>0, <2>10, WorkerMoves
    <3> DEFINE n == Rec("writing", o.job, o.version, o.picture, o.todo \ {v}, v)
    <3>2. /\ n.at = "writing" /\ n.job = o.job /\ n.version = o.version /\ n.picture = o.picture
          /\ n.todo = o.todo \ {v} /\ n.variant = v
      BY DEF Rec
    <3>3. o.at \in PictureStages /\ o.at \notin PublishStages \cup {"broken", "left-alone"}
          /\ "writing" \in PublishStages
      BY <2>0, <2>10 DEF SaveBegin, PublishStages, PictureStages
    <3> HIDE DEF n
    <3>4. ShowsOp(n)'
      BY <3>2, <3>3, <2>2 DEF CurrentOp, ShowsOp
    <3>5. o.job = version => ServingOp(n)'
      BY <3>2, <3>3, <2>2, <1>2 DEF CurrentOp, ServingOp
    <3>6. CurrentOp(n)'
      BY <3>2, <3>4, <3>5 DEF CurrentOp
    <3> QED BY <3>1, <3>6, <2>1 DEF n
  <2>11. CASE SaveEnd(w)
    <3>1. o.at \in PublishStages
      BY <2>0, <2>11 DEF SaveEnd, Does, PublishStages
    <3> QED BY <2>0, <3>1, <2>11, <2>5, WorkerMoves
  <2>12. CASE Rename(w)
    <3>1. o.at \in PublishStages
      BY <2>0, <2>12 DEF Rename, Does, PublishStages
    <3> QED BY <2>0, <3>1, <2>12, <2>5, WorkerMoves
  <2>13. CASE Stat(w)
    <3>1. o.at \in PublishStages
      BY <2>0, <2>13 DEF Stat, Does, PublishStages
    <3>2. Moves(w, IF cache[KeyOf(w)] = NoFile THEN Rec("error", o.job, 0, 0, {}, None)
                   ELSE Rec("inserting", o.job, o.version, o.picture, o.todo, o.variant))
      BY <2>0, <2>13, WorkerMoves
    <3> QED BY <3>1, <3>2, <2>3, <2>5
  <2>14. CASE InsertVariant(w)
    <3>1. /\ Moves(w, IF o.todo = {} THEN Rec("marking", o.job, 0, 0, {}, None)
                      ELSE Rec("saving", o.job, o.version, o.picture, o.todo, None))
          /\ o.at = "inserting" /\ rows' = rows \cup {<<o.version, o.variant>>}
      BY <2>0, <2>14, WorkerMoves DEF InsertVariant, Does, KeyOf
    <3>2. o.at \in PictureStages /\ o.at \notin {"broken", "left-alone"}
      BY <3>1 DEF PictureStages
    <3>3. o.job = version => \A v \in Variants : Present(v)' \/ v \in o.todo
      <4>1. o.job = version => <<version, o.variant>> \in rows'
        BY <3>1, <3>2, <2>2
      <4>2. o.job = version => \A v \in Variants : Present(v) \/ v \in o.todo \/ v = o.variant
        BY <3>2, <2>2 DEF CurrentOp, ServingOp
      <4> QED BY <4>1, <4>2, <1>2 DEF Present
    <3>4. CASE o.todo = {}
      <4>1. CurrentOp(Rec("marking", o.job, 0, 0, {}, None))'
        BY <3>3, <3>4, <1>1 DEF CurrentOp, ShowsOp, ServingOp, Rec, PictureStages
      <4> QED BY <3>1, <3>4, <4>1, <2>1
    <3>5. CASE o.todo # {}
      <4> DEFINE n == Rec("saving", o.job, o.version, o.picture, o.todo, None)
      <4>1. /\ n.at = "saving" /\ n.job = o.job /\ n.version = o.version /\ n.picture = o.picture
            /\ n.todo = o.todo
        BY DEF Rec
      <4> HIDE DEF n
      <4>2. ShowsOp(n)'
        BY <4>1, <3>2, <2>2 DEF CurrentOp, ShowsOp
      <4>3. o.job = version => ServingOp(n)'
        BY <4>1, <3>3 DEF ServingOp
      <4>4. CurrentOp(n)'
        BY <4>1, <4>2, <4>3 DEF CurrentOp
      <4> QED BY <3>1, <3>5, <4>4, <2>1 DEF n
    <3> QED BY <3>4, <3>5
  <2>15. CASE MarkReady(w)
    <3>1. o.at = "marking" /\ status' = "ready"
      BY <2>0, <2>15 DEF MarkReady, Does
    <3>2. o.job = version => Served'
      BY <3>1, <2>2, <1>2 DEF Served, CurrentOp, ServingOp
    <3> QED BY <2>0, <3>2, <2>15, <2>4, WorkerMoves
  <2>16. CASE Finish(w)
    BY <2>16, <2>3, WorkerMoves
  <2> QED BY <2>6, <2>7, <2>8, <2>9, <2>10, <2>11, <2>12, <2>13, <2>14, <2>15, <2>16, <1>6
          DEF WorkerStep
<1> QED BY <1>4, <1>5, <1>6
        DEF Next, Evict, ScanStep, vars, Edit, ScanList, ScanUpsert, ScanEnqueue,
            ScanCountMissing, EvictBegin, EvictChoose, EvictFile, EvictRow

LEMMA JobServedStep ==
  ASSUME TypesInv, OrderInv, FilesInv, UpToDate, Current, [Next]_vars,
         UNCHANGED <<content, version>>, job'[version] = "succeeded"
  PROVE  Served'
<1>1. (Served => Served') /\ (job[version] = "succeeded" => Served)
  BY PresentStays DEF UpToDate, Current
<1>2. SUFFICES ASSUME job[version] # "succeeded" PROVE Served
  BY <1>1
<1>3. ItemTypes /\ version \in 1..Versions
  BY ThumbnailsAssumption DEF TypesInv, ItemTypes, UpToDate
<1>4. CASE UNCHANGED job
  BY <1>2, <1>4
<1>5. CASE ScanEnqueue
  BY <1>2, <1>3, <1>5 DEF ScanEnqueue, ItemTypes, JobKey, AfterEnqueue
<1>6. CASE Crash
  BY <1>2, <1>3, <1>6 DEF Crash, ItemTypes
<1>7. ASSUME NEW w \in Workers, Claim(w) PROVE FALSE
  BY <1>2, <1>3, <1>7 DEF Claim, ItemTypes
<1>8. ASSUME NEW w \in Workers, Finish(w) PROVE Served
  <2>1. PICK tries \in {0, 1} : job' = [job EXCEPT ![op[w].job] = AfterFinish(op[w].at, tries, 1)]
    BY <1>8 DEF Finish
  <2>2. op[w].job = version /\ AfterFinish(op[w].at, tries, 1) = "succeeded"
    BY <2>1, <1>2, <1>3 DEF ItemTypes
  <2>3. op[w].at = "ok"
    BY <2>2, <1>8 DEF Finish, AfterFinish
  <2> QED BY <2>2, <2>3 DEF Current, CurrentOp, ServingOp
<1> QED BY <1>4, <1>5, <1>6, <1>7, <1>8
        DEF Next, Evict, ScanStep, vars, Edit, ScanList, ScanUpsert, ScanCountMissing, EvictBegin,
            EvictChoose, EvictFile, EvictRow, WorkerStep, OpenFile, LeaveAlone, MarkFailed,
            SaveBegin, SaveEnd, Rename, RenameNothing, Stat, InsertVariant, MarkReady, WorkerFails

LEMMA CurrentStep == TypesInv /\ OrderInv /\ FilesInv /\ CurrentInv /\ [Next]_vars => CurrentInv'
<1> SUFFICES ASSUME TypesInv, OrderInv, FilesInv, CurrentInv, [Next]_vars, UpToDate'
             PROVE  Current'
  BY DEF CurrentInv
<1>1. version' # 0 /\ content' = version' /\ version \in Nat
  BY ThumbnailsAssumption DEF UpToDate, TypesInv, ItemTypes
<1>2. CASE Edit
  <2>1. UNCHANGED version /\ (content' = 0 \/ content' \in NewContents)
    BY <1>2 DEF Edit, item
  <2>2. content' \in NewContents => version < content'
    BY DEF NewContents
  <2> QED BY <2>1, <2>2, <1>1
<1>3. CASE ScanUpsert /\ version # scan.seen
  BY <1>3, CurrentBegins
<1>4. CASE UNCHANGED <<content, version>>
  <2>1. UpToDate /\ Current
    BY <1>1, <1>4 DEF UpToDate, CurrentInv
  <2>2. \A v \in Variants : CurrentKey(v)'
    BY <2>1, <1>4, CurrentKeyStep
  <2>3. (job[version] = "succeeded" => Served)'
    BY <2>1, <1>4, JobServedStep
  <2> QED BY <2>1, <2>2, <2>3, <1>4, CurrentItemStep, CurrentOpStep DEF Current
<1> QED BY <1>2, <1>3, <1>4
        DEF Next, Evict, ScanStep, vars, item, ScanList, ScanUpsert, ScanEnqueue, ScanCountMissing,
            EvictBegin, EvictChoose, EvictFile, EvictRow, Crash, WorkerStep, Claim, OpenFile,
            LeaveAlone, MarkFailed, SaveBegin, SaveEnd, Rename, RenameNothing, Stat, InsertVariant,
            MarkReady, Finish, WorkerFails

-------------------------------------------------------------------------------
(* The theorems *)

ThumbnailsInv == TypesInv /\ OrderInv /\ FilesInv /\ CurrentInv

LEMMA Invariant == Spec => []ThumbnailsInv
<1>1. Init => ThumbnailsInv
  BY TypesInit, OrderInit, FilesInit DEF ThumbnailsInv, CurrentInv, UpToDate, Init
<1>2. ThumbnailsInv /\ [Next]_vars => ThumbnailsInv'
  BY TypesStep, OrderStep, FilesStep, CurrentStep DEF ThumbnailsInv
<1> QED BY <1>1, <1>2, PTL DEF Spec

\* Every variable has its type; the sum that Evict counts down is a natural
\* number, because the loop goes on only while it is greater than the limit.
THEOREM ThumbnailsTypeCorrect == Spec => []TypeOK
<1>1. TypesInv => TypeOK
  <2> SUFFICES ASSUME TypesInv PROVE TypeOK
    OBVIOUS
  <2>1. \A w \in Workers : /\ op[w].version \in 0..Versions /\ op[w].picture \in 0..Versions
                           /\ op[w].todo \subseteq Variants
    BY DEF TypesInv, WorkerTypes, OpOK, Ops
  <2>2. \A w \in Workers : Publishing(w) => KeyOf(w) \in Keys
    BY KeyTypes
  <2>3. scan.seen \in 0..Versions /\ eviction.total \in Nat
    BY DEF TypesInv, ItemTypes, EvictionTypes
  <2> QED BY <2>1, <2>2, <2>3 DEF TypesInv, TypeOK, ItemTypes, CacheTypes
<1> QED BY <1>1, Invariant, PTL DEF ThumbnailsInv

\* A thumbnail never shows a content older than the version it is stored under
\* (Processor.Process reads source_version before it opens the file).
THEOREM ThumbnailsNeverOlder == Spec => []NeverOlder
<1>1. OrderInv => NeverOlder
  BY DEF OrderInv, KeyOrder, NeverOlder
<1> QED BY <1>1, Invariant, PTL DEF ThumbnailsInv

\* A file of the cache is complete unless two actors worked on it at a time
\* (saveVariant renames it into place).
THEOREM ThumbnailsWhole == Spec => []WholeUnlessTorn
<1>1. FilesInv => WholeUnlessTorn
  BY DEF FilesInv, KeyFiles, WholeUnlessTorn
<1> QED BY <1>1, Invariant, PTL DEF ThumbnailsInv

\* The rows of thumbnail_variants are the files of the cache, but for the steps
\* in between (saveVariant, Evict) and for what a failure tore apart.
THEOREM RowsMatchFiles == Spec => []RowsMatchFilesUnlessTorn
<1>1. FilesInv => RowsMatchFilesUnlessTorn
  BY HalfIsHalfDone DEF FilesInv, KeyFiles, RowsMatchFilesUnlessTorn
<1> QED BY <1>1, Invariant, PTL DEF ThumbnailsInv

\* Once nothing is left to do and the job of the version has succeeded, what was
\* not evicted shows that very version, whatever late jobs of older ones did.
THEOREM SettledThumbnailsShown == Spec => []SettledIsShown
<1>1. ThumbnailsInv => SettledIsShown
  <2> SUFFICES ASSUME ThumbnailsInv, Settled, job[JobKey(version)] = "succeeded"
               PROVE  /\ status # "pending"
                      /\ \A v \in Variants :
                           verdict[version] = "decodes" /\ <<version, v>> \notin evicted \cup torn
                             => Shown(v) = version
    BY DEF SettledIsShown
  <2>1. UpToDate /\ Current /\ Served
    BY DEF Settled, UpToDate, ThumbnailsInv, CurrentInv, Current, JobKey
  <2>2. status # "pending"
    BY <2>1 DEF Served
  <2>3. ASSUME NEW v \in Variants, verdict[version] = "decodes",
               <<version, v>> \notin evicted \cup torn
        PROVE  Shown(v) = version
    <3> DEFINE k == <<version, v>>
    <3>1. k \in Keys /\ k \in rows /\ cache[k] \in Pictures
      BY <2>1, <2>3, ThumbnailsAssumption
         DEF Served, Present, Keys, UpToDate, ThumbnailsInv, TypesInv, ItemTypes, CacheTypes
    <3>2. KeyFiles(k)
      BY <3>1, <2>3 DEF ThumbnailsInv, FilesInv
    <3>3. ~Half(k)
      <4>1. \A w \in Workers : ~Holds(w, k)
        BY DEF Settled, Idle, Holds, Publishing
      <4>2. ~Deleting(k)
        BY <3>2, <2>3 DEF KeyFiles
      <4> QED BY <4>1, <4>2 DEF Half
    <3>4. cache[k] \in 1..Versions
      BY <3>1, <3>2, <3>3 DEF KeyFiles, Pictures, NoFile, Partial
    <3>5. cache[k] = version
      BY <3>4, <2>1 DEF Current, CurrentKey
    <3> QED BY <3>1, <3>5 DEF Shown
  <2> QED BY <2>2, <2>3
<1> QED BY <1>1, Invariant, PTL
===============================================================================
