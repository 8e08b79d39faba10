------------------------------ MODULE AlbumRoots ------------------------------
(* Where albums live: Service.CreateAlbum and RemoveAlbum of                  *)
(* internal/media/catalog.go and Manager.Delete of                            *)
(* internal/storage/manager/manager.go, statement by statement.               *)
(*                                                                            *)
(* Abstractions.  A path is the sequence of its components in lower case; the *)
(* root of a storage is <<>>.  A root is a storage and a path.  An album is   *)
(* known by the request that creates it.  A Mkdir follows the checks before   *)
(* it in one action: nothing reads a directory before ListBackup.             *)
(*                                                                            *)
(* Bounds: every request creates at most one album; MaxFaults failed          *)
(* statements, provider calls or transactions.                                *)
EXTENDS Naturals, SequencesExt

CONSTANTS
  Requests,  \* requests that create an album
  Storages,  \* storage connections
  Paths,     \* paths the administrator may choose
  None,      \* no root, no album
  MaxFaults

ASSUME RootsAssumption ==
  /\ None \notin Requests /\ None \notin Storages \X Paths
  /\ Paths \subseteq Seq(STRING)
  /\ MaxFaults \in Nat

Roots == Storages \X Paths

VARIABLES
  \* the tables albums and album_storage_bindings: "none", "live", "removed"
  album, primary, backup,
  \* storage_connections that are not removed
  connected,
  \* the storages: roots with something in them that is not ialbum's, and the
  \* marker .ialbum-album.json in each directory
  foreign, marker,
  \* the directories that Mkdir made
  dirs,
  \* requests that create an album, and those that delete a storage
  pc, deleting,
  faults,
  \* history: requests that another creation or deletion overlapped
  raced

tables    == <<album, primary, backup, connected>>
storages  == <<foreign, marker, dirs>>
vars      == <<tables, storages, pc, deleting, faults, raced>>

Init ==
  /\ album = [r \in Requests |-> "none"]
  /\ primary = [r \in Requests |-> None] /\ backup = [r \in Requests |-> None]
  /\ connected = Storages
  /\ foreign \in {{}} \cup {{x} : x \in Roots}
  /\ marker = [x \in Roots |-> None]
  /\ dirs = {}
  /\ pc = [r \in Requests |-> "new"]
  /\ deleting = {}
  /\ faults = 0
  /\ raced = {}

Goto(r, place) == pc' = [pc EXCEPT ![r] = place]
At(r, place)   == pc[r] = place
UnderWay       == {r \in Requests : pc[r] \notin {"new", "done"}}

-------------------------------------------------------------------------------
(* Paths *)

\* pathsOverlap.  (Mutant: only looks for existing roots above the new one.)
IsBelow(p, q) == IsPrefix(q, p)
PathsOverlap(p, q) == IsPrefix(p, q) \/ IsPrefix(q, p)

\* Roots bound to live albums.
Bound == UNION {{primary[r], backup[r]} \ {None} : r \in {q \in Requests : album[q] = "live"}}

\* ensureNoOverlap, before there is an album to exclude.
Free(root) == \A x \in Bound : x[1] = root[1] => ~PathsOverlap(root[2], x[2])

\* The directories that Mkdir of a root makes sure of.
MadeFor(root) == {x \in Roots : x[1] = root[1] /\ IsPrefix(x[2], root[2])}

\* List finds nothing, not even a marker.  (Mutant: nobody looks.)
NotListed(root) == TRUE
Empty(root) ==
  \A x \in foreign \cup {y \in Roots : marker[y] # None} \cup (dirs \ MadeFor(root)) :
    ~(x[1] = root[1] /\ IsPrefix(root[2], x[2]))

-------------------------------------------------------------------------------
(* Service.CreateAlbum *)

\* The roots the administrator asks for; CreateAlbum reads them all its life.
Begin(r) ==
  /\ At(r, "new")
  /\ \E p \in Roots : primary' = [primary EXCEPT ![r] = p]
  /\ \E b \in Roots \cup {None} : backup' = [backup EXCEPT ![r] = b]
  /\ Goto(r, "primary")
  /\ raced' = IF UnderWay = {} /\ deleting = {} THEN raced ELSE raced \cup UnderWay \cup {r}
  /\ UNCHANGED <<album, connected, storages, deleting, faults>>

\* The backup's part is skipped without a backup storage.
AfterPrimary(r) == IF backup[r] = None THEN "committing" ELSE "backup"

CheckPrimary(r) ==
  /\ At(r, "primary")
  /\ IF Free(primary[r]) /\ primary[r][1] \in connected
     THEN /\ dirs' = dirs \cup MadeFor(primary[r])
          /\ Goto(r, AfterPrimary(r))
     ELSE Goto(r, "done") /\ UNCHANGED dirs
  /\ UNCHANGED <<tables, foreign, marker, deleting, faults, raced>>

Apart(x, y) == x[1] = y[1] => ~PathsOverlap(x[2], y[2])

CheckBackup(r) ==
  /\ At(r, "backup")
  /\ IF Apart(primary[r], backup[r]) /\ Free(backup[r]) /\ backup[r][1] \in connected
     THEN dirs' = dirs \cup MadeFor(backup[r]) /\ Goto(r, "listing")
     ELSE Goto(r, "done") /\ UNCHANGED dirs
  /\ UNCHANGED <<tables, foreign, marker, deleting, faults, raced>>

\* prepareBackupRoot.  A marker of this album cannot be there: its id is new.
ListBackup(r) ==
  /\ At(r, "listing")
  /\ Goto(r, IF Empty(backup[r]) THEN "marking" ELSE "done")
  /\ UNCHANGED <<tables, storages, deleting, faults, raced>>

\* Put of the marker with Conflict "fail": a Stat, then a rename.
CheckMarker(r) ==
  /\ At(r, "marking")
  /\ Goto(r, IF marker[backup[r]] = None THEN "writing" ELSE "done")
  /\ UNCHANGED <<tables, storages, deleting, faults, raced>>

WriteMarker(r) ==
  /\ At(r, "writing")
  /\ marker' = [marker EXCEPT ![backup[r]] = r]
  /\ Goto(r, "committing")
  /\ UNCHANGED <<tables, foreign, dirs, deleting, faults, raced>>

\* The transaction that inserts the album and its bindings.
Commit(r) ==
  /\ At(r, "committing")
  /\ album' = [album EXCEPT ![r] = "live"]
  /\ Goto(r, "done")
  /\ UNCHANGED <<primary, backup, connected, storages, deleting, faults, raced>>

\* A statement, a provider call or the transaction fails (a busy database, a
\* full disk, too many tags): CreateAlbum returns and cleans nothing up.
Fails(r) ==
  /\ r \in UnderWay
  /\ faults < MaxFaults /\ faults' = faults + 1
  /\ Goto(r, "done")
  /\ UNCHANGED <<tables, storages, deleting, raced>>

-------------------------------------------------------------------------------
(* Service.RemoveAlbum and Manager.Delete *)

RemoveAlbum(r) ==
  /\ album[r] = "live"
  /\ album' = [album EXCEPT ![r] = "removed"]
  /\ UNCHANGED <<primary, backup, connected, storages, pc, deleting, faults, raced>>

\* Bindings of live albums.  (Mutant: primary bindings only.)
PrimaryUse(s) == \E r \in Requests : album[r] = "live" /\ primary[r][1] = s
InUse(s) == \E x \in Bound : x[1] = s

CountBindings(s) ==
  /\ s \in connected \ deleting
  /\ ~InUse(s)
  /\ deleting' = deleting \cup {s}
  /\ raced' = raced \cup UnderWay
  /\ UNCHANGED <<tables, storages, pc, faults>>

DeleteStorage(s) ==
  /\ s \in deleting
  /\ connected' = connected \ {s}
  /\ deleting' = deleting \ {s}
  /\ UNCHANGED <<album, primary, backup, storages, pc, faults, raced>>

-------------------------------------------------------------------------------

Next ==
  \/ \E r \in Requests : \/ Begin(r) \/ CheckPrimary(r) \/ CheckBackup(r)
                         \/ ListBackup(r) \/ CheckMarker(r) \/ WriteMarker(r)
                         \/ Commit(r) \/ Fails(r)
                         \/ RemoveAlbum(r)
  \/ \E s \in Storages : CountBindings(s) \/ DeleteStorage(s)

Spec == Init /\ [][Next]_vars

-------------------------------------------------------------------------------
(* Properties *)

Live == {r \in Requests : album[r] = "live"}

\* Every variable has its type; an album has a primary root, and nobody writes
\* a marker without a backup root.
TypeOK ==
  /\ album \in [Requests -> {"none", "live", "removed"}]
  /\ primary \in [Requests -> Roots \cup {None}]
  /\ backup \in [Requests -> Roots \cup {None}]
  /\ connected \subseteq Storages /\ deleting \subseteq Storages
  /\ foreign \subseteq Roots /\ dirs \subseteq Roots
  /\ marker \in [Roots -> Requests \cup {None}]
  /\ pc \in [Requests -> {"new", "primary", "backup", "listing", "marking", "writing",
                          "committing", "done"}]
  /\ faults \in Nat
  /\ raced \subseteq Requests
  /\ \A r \in Requests : /\ album[r] # "none" => primary[r] # None
                         /\ pc[r] \in {"backup", "listing", "marking", "writing"} => backup[r] # None

\* A directory belongs to one binding of one live album at most, its own
\* primary and backup included (docs/architecture.md: roots on one storage are
\* neither equal nor above one another), unless two requests overlapped.
RootOf(r, role) == IF role = "primary" THEN primary[r] ELSE backup[r]
Holds(root, x) == root # None /\ root[1] = x[1] /\ IsPrefix(root[2], x[2])
Owners(x) == {a \in (Live \ raced) \X {"primary", "backup"} : Holds(RootOf(a[1], a[2]), x)}
OneOwnerUnlessRaced == \A x \in Roots : \A a, b \in Owners(x) : a = b

\* A backup never moves in where something is already: the directory was empty
\* (docs/architecture.md), and its marker names the album that lives there.
BackupIsItsOwnUnlessRaced ==
  \A r \in Live \ raced : backup[r] # None =>
    /\ marker[backup[r]] = r
    /\ \A x \in foreign : ~(x[1] = backup[r][1] /\ IsPrefix(backup[r][2], x[2]))

\* No live album stands on a storage that was deleted.
AlbumHasStorageUnlessRaced ==
  \A r \in Live \ raced : \A x \in {primary[r], backup[r]} \ {None} : x[1] \in connected
===============================================================================
