----------------------------- MODULE UploadCommit -----------------------------
(* Service.Upload of internal/media/catalog.go and the Put of a provider with *)
(* Conflict "fail": how the HTTP requests of several clients commit files to  *)
(* one directory of one album, statement by statement.                        *)
(*                                                                            *)
(* Abstractions.  A client gives every file of its own an idempotency key, so *)
(* the content of a file is its key; a request that repeats a key sends the   *)
(* same content again.  A target is a file name and the number of the copy    *)
(* (0 for the name itself): names of different requests are equal or have no  *)
(* candidate in common.  The temporary file of a Put is written by one action *)
(* and the last request to write it wins.  The jobs that an upload enqueues   *)
(* are those of MirrorBackup and of the thumbnails.                           *)
(*                                                                            *)
(* Bounds: MaxCopies stands for the 10000 candidates of availableName,        *)
(* MaxFaults for the requests that are given up and the calls that fail.      *)
EXTENDS Naturals

CONSTANTS
  Requests,      \* HTTP requests of POST .../uploads
  Keys, KeyOf,   \* the Idempotency-Key of each, and with it the content
  Names, NameOf, \* the filename of each
  Kinds,         \* what the primary storage may be: "local", "webdav", "baidu"
  None,          \* no file, no target
  MaxCopies, MaxFaults

ASSUME UploadAssumption ==
  /\ KeyOf \in [Requests -> Keys] /\ NameOf \in [Requests -> Names]
  /\ Kinds \subseteq {"local", "webdav", "baidu"}
  /\ MaxCopies \in Nat /\ MaxFaults \in Nat
  /\ None \notin Keys /\ None \notin Names \X (0..MaxCopies)

Targets == Names \X (0..MaxCopies)

VARIABLES
  \* the primary storage: its kind, its files and the temporary files in it
  kind, files, temps,
  \* media_items: what the row of each path was made from
  index,
  \* upload_requests: status and media_id of each key
  status, answer,
  \* the requests: where they are, the target they chose, the object that Put
  \* returned, and the item the client was told
  pc, target, stored, told,
  \* requests given up and calls failed
  faults,
  \* history: keys of requests that shared a key or a name with another one
  \* under way
  raced

storage  == <<kind, files, temps>>
rows     == <<index, status, answer>>
requests == <<pc, target, stored, told>>
vars     == <<storage, rows, requests, faults, raced>>

Init ==
  /\ kind \in Kinds
  /\ files = [t \in Targets |-> None]
  /\ temps = [t \in Targets \cup Requests |-> None]
  /\ index = [t \in Targets |-> None]
  /\ status = [k \in Keys |-> "absent"]
  /\ answer = [k \in Keys |-> None]
  /\ pc = [r \in Requests |-> "new"]
  /\ target = [r \in Requests |-> None]
  /\ stored = [r \in Requests |-> None]
  /\ told = [r \in Requests |-> None]
  /\ faults = 0
  /\ raced = {}

Goto(r, place) == pc' = [pc EXCEPT ![r] = place]
At(r, place)   == pc[r] = place
UnderWay(r)    == pc[r] \notin {"new", "done"}

-------------------------------------------------------------------------------
(* Service.Upload up to the Put *)

\* The key has been served before.  (Mutant: nobody looks.)
NeverAnswered(k) == FALSE
Answered(k) == status[k] = "succeeded"

\* Requests under way that share a key or a name with r.
Rivals(r) == {q \in Requests : UnderWay(q) /\ q # r /\ (KeyOf[q] = KeyOf[r] \/ NameOf[q] = NameOf[r])}

Begin(r) ==
  /\ At(r, "new")
  /\ IF Answered(KeyOf[r])
     THEN /\ Goto(r, "done")
          /\ told' = [told EXCEPT ![r] = answer[KeyOf[r]]]
          /\ UNCHANGED raced
     ELSE /\ Goto(r, "naming")
          /\ raced' = IF Rivals(r) = {} THEN raced
                      ELSE raced \cup {KeyOf[q] : q \in Rivals(r) \cup {r}}
          /\ UNCHANGED told
  /\ UNCHANGED <<storage, rows, target, stored, faults>>

\* What Stat says of a path.  (Mutant: of the path without the album's root.)
StatElsewhere(t) == FALSE
Exists(t) == files[t] # None

\* availableName: the first candidate that is not there.
FindName(r) ==
  /\ At(r, "naming")
  /\ \/ /\ \A i \in 0..MaxCopies : Exists(<<NameOf[r], i>>)
        /\ Goto(r, "done") /\ UNCHANGED target
     \/ \E i \in 0..MaxCopies :
          /\ ~Exists(<<NameOf[r], i>>)
          /\ \A j \in 0..MaxCopies : j < i => Exists(<<NameOf[r], j>>)
          /\ target' = [target EXCEPT ![r] = <<NameOf[r], i>>]
          /\ Goto(r, "registering")
  /\ UNCHANGED <<storage, rows, stored, told, faults, raced>>

\* INSERT ... ON CONFLICT: a row that is there keeps its status.
Register(r) ==
  /\ At(r, "registering")
  /\ status' = [status EXCEPT ![KeyOf[r]] = IF @ = "absent" THEN "uploading" ELSE @]
  /\ Goto(r, "checking")
  /\ UNCHANGED <<storage, index, answer, target, stored, told, faults, raced>>

-------------------------------------------------------------------------------
(* Provider.Put with Conflict "fail" *)

\* Stat, or the precreate of Baidu, where the service may refuse a name that is
\* there.
CheckConflict(r) ==
  /\ At(r, "checking")
  /\ \/ Exists(target[r]) /\ Goto(r, "refused")
     \/ (~Exists(target[r]) \/ kind = "baidu") /\ Goto(r, "writing")
  /\ UNCHANGED <<storage, rows, target, stored, told, faults, raced>>

\* A local temporary file has a random suffix, the blocks sent to Baidu belong to
\* an upload of their own; a WebDAV file is named after the target alone.
Temp(r) == IF kind = "webdav" THEN target[r] ELSE r

WriteTemp(r) ==
  /\ At(r, "writing")
  /\ temps' = [temps EXCEPT ![Temp(r)] = KeyOf[r]]
  /\ Goto(r, "renaming")
  /\ UNCHANGED <<kind, files, rows, target, stored, told, faults, raced>>

\* A rename over whatever is there, or the create of Baidu, whose service may
\* replace a file: Conflict "fail" is sent like "overwrite".
Rename(r) ==
  /\ At(r, "renaming") /\ temps[Temp(r)] # None
  /\ files' = [files EXCEPT ![target[r]] = temps[Temp(r)]]
  /\ temps' = [temps EXCEPT ![Temp(r)] = None]
  /\ Goto(r, "stating")
  /\ UNCHANGED <<kind, rows, target, stored, told, faults, raced>>

\* Another request has moved the temporary file away.
RenameNothing(r) ==
  /\ At(r, "renaming") /\ temps[Temp(r)] = None
  /\ Goto(r, "refused")
  /\ UNCHANGED <<storage, rows, target, stored, told, faults, raced>>

\* ... or refuse to.
CreateRefused(r) ==
  /\ At(r, "renaming") /\ kind = "baidu" /\ Exists(target[r])
  /\ Goto(r, "refused")
  /\ UNCHANGED <<storage, rows, target, stored, told, faults, raced>>

\* The object Put returns: what a Stat finds, or what Baidu says of the create.
Object(r) == IF kind = "baidu" THEN KeyOf[r] ELSE files[target[r]]

StatStored(r) ==
  /\ At(r, "stating")
  /\ stored' = [stored EXCEPT ![r] = Object(r)]
  /\ Goto(r, "indexing")
  /\ UNCHANGED <<storage, rows, target, told, faults, raced>>

\* Put failed; the UPDATE does not look at the status the row has.
Refuse(r) ==
  /\ At(r, "refused")
  /\ status' = [status EXCEPT ![KeyOf[r]] = "failed"]
  /\ Goto(r, "done")
  /\ UNCHANGED <<storage, index, answer, target, stored, told, faults, raced>>

-------------------------------------------------------------------------------
(* Service.Upload after the Put *)

\* The path in the index.  (Mutant: of the name that was asked for.)
AskedFor(r) == <<NameOf[r], 0>>
IndexedAs(r) == target[r]

\* Service.upsertObject.
IndexIt(r) ==
  /\ At(r, "indexing")
  /\ index' = [index EXCEPT ![IndexedAs(r)] = stored[r]]
  /\ Goto(r, "recording")
  /\ UNCHANGED <<storage, status, answer, target, stored, told, faults, raced>>

\* media_id.
MediaId(r) == IndexedAs(r)

Record(r) ==
  /\ At(r, "recording")
  /\ status' = [status EXCEPT ![KeyOf[r]] = "succeeded"]
  /\ answer' = [answer EXCEPT ![KeyOf[r]] = MediaId(r)]
  /\ Goto(r, "answering")
  /\ UNCHANGED <<storage, index, target, stored, told, faults, raced>>

\* The jobs are enqueued and the client gets the item.
Answer(r) ==
  /\ At(r, "answering")
  /\ told' = [told EXCEPT ![r] = IndexedAs(r)]
  /\ Goto(r, "done")
  /\ UNCHANGED <<storage, rows, target, stored, faults, raced>>

-------------------------------------------------------------------------------
(* Failures *)

Fault == faults < MaxFaults /\ faults' = faults + 1

\* A call of the provider fails.
PutFails(r) ==
  /\ pc[r] \in {"checking", "writing", "renaming", "stating"}
  /\ Fault
  /\ Goto(r, "refused")
  /\ UNCHANGED <<storage, rows, target, stored, told, raced>>

\* The client goes away and the context of its request is cancelled, or the
\* process dies: nothing is cleaned up, and the next request starts anew.
Abandon(r) ==
  /\ UnderWay(r)
  /\ Fault
  /\ Goto(r, "done")
  /\ UNCHANGED <<storage, rows, target, stored, told, raced>>

-------------------------------------------------------------------------------

RequestStep(r) ==
  \/ Begin(r) \/ FindName(r) \/ Register(r)
  \/ CheckConflict(r) \/ WriteTemp(r) \/ Rename(r) \/ RenameNothing(r) \/ CreateRefused(r)
  \/ StatStored(r) \/ Refuse(r) \/ IndexIt(r) \/ Record(r) \/ Answer(r)

Next == \E r \in Requests : RequestStep(r) \/ PutFails(r) \/ Abandon(r)

Spec == Init /\ [][Next]_vars

-------------------------------------------------------------------------------
(* Properties *)

\* Every variable has its type; a request has a target once it has a name, and
\* a succeeded row has an item to answer with.
TypeOK ==
  /\ kind \in {"local", "webdav", "baidu"}
  /\ files \in [Targets -> Keys \cup {None}]
  /\ temps \in [Targets \cup Requests -> Keys \cup {None}]
  /\ index \in [Targets -> Keys \cup {None}]
  /\ status \in [Keys -> {"absent", "uploading", "succeeded", "failed"}]
  /\ answer \in [Keys -> Targets \cup {None}]
  /\ pc \in [Requests -> {"new", "naming", "registering", "checking", "writing", "renaming",
                          "stating", "refused", "indexing", "recording", "answering", "done"}]
  /\ target \in [Requests -> Targets \cup {None}]
  /\ stored \in [Requests -> Keys \cup {None}]
  /\ told \in [Requests -> Targets \cup {None}]
  /\ faults \in Nat
  /\ raced \subseteq Keys
  /\ \A r \in Requests : pc[r] \notin {"new", "naming", "done"} => target[r] # None
  /\ \A k \in Keys : status[k] = "succeeded" => answer[k] # None

\* A file the client was told about stays as the client sent it: Put with
\* Conflict "fail" never replaces a file (local_test.go), and an upload is
\* acknowledged once stored and indexed (docs/architecture.md).
ToldIsKept ==
  \A r \in Requests : told[r] # None => files[told[r]] = KeyOf[r]

\* The same for clients that do not send two requests with one key or one name
\* at a time, whatever was given up, repeated or failed before.
ToldIsKeptUnlessRaced ==
  \A r \in Requests : told[r] # None /\ KeyOf[r] \notin raced => files[told[r]] = KeyOf[r]

\* A repeated request is answered with the item of the first one that was
\* answered (media_integration_test.go): one key, one item.
OneItemPerKeyUnlessRaced ==
  \A q, r \in Requests :
    /\ KeyOf[q] = KeyOf[r] /\ KeyOf[r] \notin raced
    /\ told[q] # None /\ told[r] # None
    => told[q] = told[r]

\* The index never names a content that the storage does not hold under that
\* path, whichever request failed or was given up between the two.
IndexIsTrueUnlessRaced ==
  \A t \in Targets : index[t] # None /\ {index[t], files[t]} \cap raced = {}
                       => index[t] = files[t]
===============================================================================
