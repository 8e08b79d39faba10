-------------------------------- MODULE Content --------------------------------
(* One request for the content of a file, whole or a range of it:             *)
(* handleMediaContent (handlers_media.go), which knows the file from the      *)
(* index, and handleStorageObjectContent (handlers_resources.go), which asks  *)
(* the storage, down to Open of the drivers.  The size is read once or twice  *)
(* before the file is opened, and the file may change in between.             *)
(*                                                                            *)
(* Abstractions.  Contents are versions, of a given size; a body is a range   *)
(* [from, upto) of a version.  Headers are the announced range and length.    *)
(* Errors of the storage other than a missing file are left out.  "remote"    *)
(* is the WebDAV and the Baidu driver; the server behind it may ignore a      *)
(* Range header.                                                              *)
(*                                                                            *)
(* Bounds: MaxChanges are the changes of the file.                            *)
EXTENDS Integers

CONSTANTS
  Kinds,       \* "local", "remote"
  Versions,    \* versions of the file
  SizeOf,      \* their sizes
  Ends,        \* positions in a Range header
  Absent,      \* no version
  Whole,       \* no range
  MaxChanges

ASSUME ContentAssumption ==
  /\ Absent \notin Versions /\ SizeOf \in [Versions -> Nat]
  /\ Ends \subseteq Nat /\ Whole \notin Int \X Int /\ MaxChanges \in Nat

VARIABLES
  kind,
  \* the file: the version there is, the one the index knows
  file, indexed,
  \* the request: route, range asked for, where it is, the version its size and
  \* tag are of, the range passed to Open, the version Stat saw, the body opened
  route, asked, at, known, range, seen, body,
  \* the answer: status, and the first byte, length and total it announces
  answer,
  \* history: changes, the file changed since the request came
  changes, disturbed

store   == <<kind, file, indexed, changes>>
request == <<route, asked, known, range, seen, body>>
vars == <<store, request, at, answer, disturbed>>

\* The range of a header; -1 is an open end.
Ranges == Ends \X (Ends \cup {-1})

NoAnswer == [status |-> 0, first |-> 0, length |-> 0, total |-> 0]
NoBody == [of |-> Absent, from |-> 0, upto |-> 0]

Init ==
  /\ kind \in Kinds /\ file \in Versions /\ indexed \in Versions
  /\ route \in {"media", "object"} /\ asked \in Ranges \cup {Whole}
  /\ at = "asks" /\ known = Absent /\ range = Whole /\ seen = Absent /\ body = NoBody
  /\ answer = NoAnswer
  /\ changes = 0 /\ disturbed = FALSE

Fails(status) == at' = "ended" /\ answer' = [NoAnswer EXCEPT !.status = status]

\* A range that is not wholly within n bytes is cut; -1 is an open end.
Cut(r, n) ==
  IF r = Whole THEN Whole
  ELSE LET end == IF r[2] = -1 \/ r[2] >= n THEN n - 1 ELSE r[2]
       IN  <<r[1], end - r[1] + 1>>

\* parseRange refuses what begins behind the end, and an end before the start.
Invalid(r, n) == r # Whole /\ (r[1] >= n \/ (r[2] # -1 /\ r[2] < r[1]))

-------------------------------------------------------------------------------

\* The handler learns the version: the media from the index, an object from Stat.
Known == IF route = "media" THEN indexed ELSE file

Ask ==
  /\ at = "asks"
  /\ IF Known = Absent THEN Fails(404) /\ UNCHANGED request
     ELSE IF Invalid(asked, SizeOf[Known])
     THEN Fails(416) /\ known' = Known /\ UNCHANGED <<route, asked, range, seen, body>>
     ELSE /\ known' = Known /\ range' = Cut(asked, SizeOf[Known])
          /\ at' = "stats" /\ UNCHANGED <<route, asked, seen, body, answer>>
  /\ UNCHANGED <<store, disturbed>>

\* Open of a driver begins with a Stat.
Stat ==
  /\ at = "stats"
  /\ IF file = Absent THEN Fails(404) /\ UNCHANGED request
     ELSE /\ seen' = file /\ at' = "opens"
          /\ UNCHANGED <<route, asked, known, range, body, answer>>
  /\ UNCHANGED <<store, disturbed>>

\* The range with which a reader is made: what goes beyond the size that Stat
\* saw is cut off.  (Mutant: as it was asked.)
AsAsked == range[2]
Length == IF range[2] <= 0 \/ range[1] + range[2] > SizeOf[seen] THEN SizeOf[seen] - range[1] ELSE range[2]

\* The local driver refuses a range behind the end.  (Mutant: it does not.)
Never == FALSE
BehindTheEnd == range # Whole /\ range[1] >= SizeOf[seen]

\* The status and range announced depend on whether the range was applied.
\* (Mutant: on whether there was one.)
IfAsked(applied) == range # Whole
Partial(applied) == range # Whole /\ applied

Announce(applied) ==
  answer' = IF Partial(applied)
            THEN [status |-> 206, first |-> range[1], length |-> Length, total |-> SizeOf[seen]]
            ELSE [status |-> 200, first |-> 0, length |-> SizeOf[seen], total |-> SizeOf[seen]]

Opens(from, upto, applied) ==
  /\ body' = [of |-> file, from |-> from, upto |-> upto]
  /\ Announce(applied) /\ at' = "copies"
  /\ UNCHANGED <<route, asked, known, range, seen>>

OpenLocal ==
  IF BehindTheEnd THEN Fails(500) /\ UNCHANGED request
  ELSE IF range = Whole THEN Opens(0, SizeOf[file], FALSE)
  ELSE Opens(range[1], range[1] + Length, TRUE)

\* What the server does with a GET: it applies the range, or ignores it.
OpenRemote ==
  \/ Opens(0, SizeOf[file], FALSE)
  \/ /\ range # Whole
     /\ IF range[1] >= SizeOf[file] THEN Fails(500) /\ UNCHANGED request
        ELSE Opens(range[1], IF range[1] + range[2] > SizeOf[file] THEN SizeOf[file] ELSE range[1] + range[2], TRUE)

Open ==
  /\ at = "opens"
  /\ IF file = Absent THEN Fails(404) /\ UNCHANGED request
     ELSE IF kind = "local" THEN OpenLocal ELSE OpenRemote
  /\ UNCHANGED <<store, disturbed>>

\* The bytes there are when the body is copied.
Least(a, b) == IF a < b THEN a ELSE b
Available == IF SizeOf[body.of] <= body.from THEN 0 ELSE Least(body.upto, SizeOf[body.of]) - body.from

\* The client has what was announced, or its connection ends before: always when
\* there is less, sometimes when there is more.
Copy ==
  /\ at = "copies"
  /\ \/ Available >= answer.length /\ at' = "complete"
     \/ Available # answer.length /\ at' = "broken"
  /\ UNCHANGED <<store, request, answer, disturbed>>

-------------------------------------------------------------------------------
(* Others *)

Busy == at \notin {"ended", "complete", "broken"}

\* Another file is moved over it or it is deleted; a file that is open stays.
Replace ==
  /\ Busy /\ changes < MaxChanges /\ changes' = changes + 1
  /\ \E v \in (Versions \cup {Absent}) \ {file} : file' = v
  /\ disturbed' = (at # "asks" \/ disturbed)
  /\ UNCHANGED <<kind, indexed, request, at, answer>>

\* Another program writes to it: who has it open locally reads on there.
Rewrite ==
  /\ Busy /\ file # Absent /\ changes < MaxChanges /\ changes' = changes + 1
  /\ \E v \in Versions \ {file} :
       /\ file' = v
       /\ body' = IF kind = "local" /\ body.of = file
                THEN [body EXCEPT !.of = v, !.upto = IF range = Whole THEN SizeOf[v] ELSE @]
                ELSE body
  /\ disturbed' = (at # "asks" \/ disturbed)
  /\ UNCHANGED <<kind, indexed, route, asked, known, range, seen, at, answer>>

\* A scan records the version there is.
Scan ==
  /\ Busy /\ file # Absent /\ indexed # file /\ indexed' = file
  /\ UNCHANGED <<kind, file, changes, request, at, answer, disturbed>>

Next == Ask \/ Stat \/ Open \/ Copy \/ Replace \/ Rewrite \/ Scan
Spec == Init /\ [][Next]_vars

-------------------------------------------------------------------------------
(* Properties *)

\* A complete answer to a request during which the file did not change is the
\* whole file, or with 206 a range that begins where it was asked to and ends
\* there or at the end of the file or of what the index knows, and the body
\* is what the headers announce: also when the index is out of date and when
\* the server ignores the range.
UndisturbedIsRight ==
  at = "complete" /\ ~disturbed =>
    /\ body.of = file /\ body.from = answer.first
    /\ body.upto - body.from = answer.length /\ answer.total = SizeOf[file]
    /\ answer.status = 200 => answer.length = SizeOf[file]
    /\ answer.status = 206 =>
         /\ asked # Whole /\ answer.first = asked[1]
         /\ \/ answer.first + answer.length - 1 = asked[2]
            \/ answer.first + answer.length \in {SizeOf[file], SizeOf[known]}

\* Only a change of the file ends an answer before what was announced.
BrokenOnlyByChange == at = "broken" => disturbed

\* The range announced for a local file is never empty and lies within the
\* total, whatever happens between the two reads of the size.
LocalRangeIsSane ==
  kind = "local" /\ answer.status = 206 =>
    answer.length > 0 /\ answer.first + answer.length <= answer.total
===============================================================================
