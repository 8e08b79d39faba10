-------------------------------- MODULE Paging ---------------------------------
(* Listings that are read a page at a time while they change: List of the     *)
(* storage drivers (internal/storage/local, webdav and baidu) and ListMedia   *)
(* of internal/media/catalog.go, whose cursors are offsets, under those who   *)
(* read on to the end: walkProvider, the selection of a download, and Stat of *)
(* the Baidu driver, which looks for one file in the pages of its directory.  *)
(*                                                                            *)
(* Abstractions.  A listing is a sequence of entries; names are entries.  The *)
(* styles are the ways of cutting a page: "local" and "webdav" cut the whole  *)
(* directory, "baidu" gets one page from the service, "index" asks the        *)
(* database for one row more than the page has.  An entry of an index may     *)
(* move, when a scan records another time (upsertObject).  What was collected *)
(* is a set and the number of entries that came again; in which order the     *)
(* directories of a page are queued is left open.                             *)
(*                                                                            *)
(* Bounds: Entries are the entries ever listed, Limit the entries of a page   *)
(* (200 in the code), MaxEdits the changes of a directory during a walk.      *)
EXTENDS Naturals, FiniteSets, Sequences, SequencesExt

CONSTANTS
  Styles, Root, Entries,
  Dirs,      \* entries that are directories
  Links,     \* entries that are symbolic links
  First,     \* the listings to begin with: a set of functions of directories
  Limit, MaxEdits

ASSUME PagingAssumption ==
  /\ Root \notin Entries /\ Dirs \subseteq Entries /\ Links \subseteq Entries \ Dirs
  /\ Limit \in Nat \ {0} /\ MaxEdits \in Nat
  /\ First \subseteq [{Root} \cup Dirs -> {seq \in Seq(Entries) : IsInjective(seq)}]

VARIABLES
  style, listing,
  \* the walk: whether it looks for one entry, the directories before it, the
  \* offset in the one it reads, what it has collected and how it stands
  target, queue, offset, result, walk,
  \* history: how often each directory was found and how many of its entries
  \* were collected again; the changes to each directory, its entries that stay
  found, again, removed, inserted, stayed

reader  == <<target, queue, offset, result, walk, found, again>>
edits == <<removed, inserted, stayed>>
pagingVars == <<style, listing, reader, edits>>

Listed == {Root} \cup Dirs

PagingInit ==
  /\ style \in Styles /\ listing \in First
  /\ target \in IF style = "baidu" THEN Range(listing[Root]) \cup {Root} ELSE {Root}
  /\ queue = <<Root>> /\ offset = 0
  /\ result = [d \in Listed |-> {}]
  /\ walk = "reads"
  /\ found = [d \in Listed |-> IF d = Root THEN 1 ELSE 0] /\ again = [d \in Listed |-> 0]
  /\ removed = [d \in Listed |-> 0] /\ inserted = [d \in Listed |-> 0]
  /\ stayed = [d \in Listed |-> Range(listing[d])]

-------------------------------------------------------------------------------
(* Pages *)

dir == Head(queue)
now == listing[dir]

Until(n) == IF offset + n < Len(now) THEN offset + n ELSE Len(now)

\* The slice of the local driver ends before it begins, and panics, when there
\* are fewer entries than the offset.  The WebDAV driver moves the offset back.
\* (Mutant: the local driver does neither.)
Anywhere == style = "local" /\ offset >= Until(Limit)
OutOfRange == style = "local" /\ offset > Until(Limit)

\* The entries of the page; symbolic links count, but are left out.  (Mutant:
\* of the page and the row after it.)
Slice(n) == {now[i] : i \in offset + 1 .. Until(n)}
OneMore == Slice(Limit + 1)
Page == IF style = "local" THEN Slice(Limit) \ Links ELSE Slice(Limit)

\* Whether there is a next cursor.  (Mutants: not for the last entry; also when
\* the page ends with the directory.)
AllButOne == offset + Limit + 1 < Len(now)
FullPage == Until(Limit) = offset + Limit
RowsLeft == offset + Limit < Len(now)
AtTheEnd == IF style = "baidu" THEN FullPage ELSE style # "index" \/ RowsLeft
More == IF style = "baidu" THEN FullPage ELSE RowsLeft

Cursor == IF style \in {"local", "webdav"} THEN Until(Limit) ELSE offset + Limit

-------------------------------------------------------------------------------
(* The walk *)

Stops(how) == walk' = how /\ UNCHANGED <<target, queue, offset, result, found, again>>

\* What a selection, a scan or a search has seen.
Collect ==
  /\ result' = [result EXCEPT ![dir] = @ \cup Page]
  /\ again' = [again EXCEPT ![dir] = @ + Cardinality(Page \cap result[dir])]

\* The directories of a page go to the end of the queue.
Directories == IF target = Root /\ style # "index" THEN Page \cap Dirs ELSE {}
Queued(waiting) ==
  /\ \E seq \in SetToSeqs(Directories) : queue' = waiting \o seq
  /\ found' = [d \in Listed |-> IF d \in Directories THEN found[d] + 1 ELSE found[d]]

\* The next page is that of the cursor, or the first of the next directory.
NextPage == More /\ offset' = Cursor /\ Queued(queue) /\ UNCHANGED walk
NextDirectory ==
  /\ ~More /\ offset' = 0 /\ Queued(Tail(queue))
  /\ walk' = IF queue' = <<>> THEN "done" ELSE "reads"

Turn ==
  /\ Collect /\ UNCHANGED target
  /\ IF target # Root /\ target \in Page
     THEN walk' = "found" /\ UNCHANGED <<queue, offset, found>>
     ELSE NextPage \/ NextDirectory

\* A directory is gone when no other lists it.
Gone(d) == d # Root /\ \A f \in Listed \ {d} : d \notin Range(listing[f])

Read ==
  /\ walk = "reads"
  /\ IF Gone(dir) THEN Stops("failed") ELSE IF OutOfRange THEN Stops("panic") ELSE Turn
  /\ UNCHANGED <<style, listing, edits>>

\* A call of the driver fails, and the walk with it.
ReadFails == walk = "reads" /\ Stops("failed") /\ UNCHANGED <<style, listing, edits>>

-------------------------------------------------------------------------------
(* Changes by others *)

Ordered(seq) == \A i, j \in DOMAIN seq : i < j => seq[i] < seq[j]
MayChange(d) == walk = "reads" /\ removed[d] + inserted[d] < MaxEdits

Leaves(d, i) ==
  /\ removed' = [removed EXCEPT ![d] = @ + 1]
  /\ stayed' = [stayed EXCEPT ![d] = @ \ {listing[d][i]}]

Delete(d) ==
  /\ MayChange(d)
  /\ \E i \in DOMAIN listing[d] :
       listing' = [listing EXCEPT ![d] = RemoveAt(@, i)] /\ Leaves(d, i)
  /\ UNCHANGED <<style, reader, inserted>>

\* Directories are listed by name.
Everything == UNION {Range(listing[f]) : f \in Listed}

Insert(d) ==
  /\ MayChange(d)
  /\ \E e \in Entries \ ({d} \cup Everything), i \in 1..(Len(listing[d]) + 1) :
       /\ listing' = [listing EXCEPT ![d] = InsertAt(@, i, e)]
       /\ style # "index" => Ordered(listing'[d])
  /\ inserted' = [inserted EXCEPT ![d] = @ + 1]
  /\ UNCHANGED <<style, reader, removed, stayed>>

\* An item of the index that stays gets another modified_at (upsertObject).
Move ==
  /\ style = "index" /\ MayChange(Root)
  /\ \E i, j \in DOMAIN listing[Root] :
       i # j /\ listing' = [listing EXCEPT ![Root] = InsertAt(RemoveAt(@, i), j, @[i])]
  /\ removed' = [removed EXCEPT ![Root] = @ + 1]
  /\ inserted' = [inserted EXCEPT ![Root] = @ + 1]
  /\ UNCHANGED <<style, reader, stayed>>

-------------------------------------------------------------------------------

PagingNext == Read \/ ReadFails \/ (\E d \in Listed : Delete(d) \/ Insert(d)) \/ Move

\* The clients of the services have timeouts: a call returns.
PagingSpec == PagingInit /\ [][PagingNext]_pagingVars /\ WF_pagingVars(Read)

-------------------------------------------------------------------------------
(* Properties *)

\* Every variable has its type, and there is a directory to read while the walk
\* goes on.
TypeOK ==
  /\ style \in Styles /\ listing \in [Listed -> Seq(Entries)]
  /\ target \in Entries \cup {Root} /\ offset \in Nat
  /\ queue \in Seq(Listed) /\ (walk = "reads" => queue # <<>>) /\ (walk = "done" => queue = <<>>)
  /\ result \in [Listed -> SUBSET Entries]
  /\ walk \in {"reads", "done", "found", "failed", "panic"}
  /\ found \in [Listed -> Nat] /\ again \in [Listed -> Nat]
  /\ removed \in [Listed -> Nat] /\ inserted \in [Listed -> Nat]
  /\ stayed \in [Listed -> SUBSET Entries]

Shown(d) == IF style = "local" THEN stayed[d] \ Links ELSE stayed[d]
Reached(d) == d = Root \/ (target = Root /\ style # "index" /\ \E f \in Listed : d \in result[f])

\* A walk that ends well has missed no more entries of a directory that were
\* there all the time than were removed from it meanwhile: a scan counts no file
\* as missing, a selection leaves out no item and Stat denies no file of a
\* directory that only grew.
MissesNoMoreThanRemoved ==
  walk = "done" =>
    \A d \in Listed : Reached(d) => Cardinality(Shown(d) \ result[d]) <= removed[d]

\* Nothing is collected twice but for an entry that was inserted meanwhile: an
\* item is packed or counted twice at most as often as the listing grew.  (A
\* directory that is found twice is read twice.)
TwiceNoMoreThanInserted == \A d \in Listed : found[d] <= 1 => again[d] <= inserted[d]

\* The process dies of a local directory (nothing recovers a worker's panic)
\* only if it lost two entries while it was read.
PanicsOnlyWhenShrunk == walk = "panic" => style = "local" /\ removed[dir] >= 2

\* Every walk ends, however the listing changes: the last page is recognised
\* also when the entries fill it exactly.
WalkEnds == <>(walk # "reads")
===============================================================================
