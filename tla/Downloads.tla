------------------------------- MODULE Downloads -------------------------------
(* handleCreateDownloadTicket and handleDownload of                           *)
(* internal/api/handlers_media.go, on top of the sessions of module Sessions: *)
(* a ticket belongs to a session, is deleted with it, and is good for one     *)
(* archive; few archives are packed at a time.                                *)
(*                                                                            *)
(* Abstractions.  The selection of a ticket is modelled where it is packed:   *)
(* any sequence of items, any of which may fail to open.  A name is a         *)
(* sequence of numbers, <<n>> for a plain one and Append(name, k) for         *)
(* "name (k)".  The five minutes of a ticket are left to chance.  How a       *)
(* selection is listed is module Paging.                                      *)
(*                                                                            *)
(* Bounds: Tickets are the tickets created, Selections the selections packed. *)
EXTENDS Sessions, Sequences

CONSTANTS
  Clients,     \* requests to create or to use a ticket
  Tickets,     \* ids of tickets, one for each INSERT
  Capacity,    \* downloadSlots
  Selections   \* sequences of names

ASSUME DownloadsAssumption ==
  /\ None \notin Tickets /\ Capacity \in Nat \ {0} /\ IsFiniteSet(Clients)
  /\ Selections \subseteq Seq(Seq(Nat) \ {<<>>})

VARIABLES
  \* download_tickets: absent, open, used, or gone with its session; the session
  ticket, owner,
  \* slots taken
  slots,
  \* clients: where they are, their session, the ticket they are about, and the
  \* names in their archive
  place, holder, wanted, archive,
  \* history: archives begun for each ticket
  served

rows     == <<ticket, owner>>
clients  == <<place, holder, wanted, archive>>
downloadVars == <<rows, slots, clients, served>>
allVars == <<vars, downloadVars>>

DownloadsInit ==
  /\ Init
  /\ ticket = [t \in Tickets |-> "absent"]
  /\ owner = [t \in Tickets |-> None]
  /\ slots = 0
  /\ place = [c \in Clients |-> "idle"]
  /\ holder = [c \in Clients |-> None]
  /\ wanted = [c \in Clients |-> None]
  /\ archive = [c \in Clients |-> <<>>]
  /\ served = [t \in Tickets |-> 0]

Move(c, where) == place' = [place EXCEPT ![c] = where]
Ends(c) == /\ Move(c, "idle")
           /\ holder' = [holder EXCEPT ![c] = None]
           /\ wanted' = [wanted EXCEPT ![c] = None]
           /\ archive' = [archive EXCEPT ![c] = <<>>]

-------------------------------------------------------------------------------
(* Tickets *)

\* The middleware authenticates the request, for one of the two handlers.
Enter(c) ==
  /\ place[c] = "idle"
  /\ \E s \in alive : holder' = [holder EXCEPT ![c] = s]
  /\ \E where \in {"ticket", "slot"}, t \in Tickets :
       /\ where = "ticket" => ticket[t] = "absent"
       /\ Move(c, where) /\ wanted' = [wanted EXCEPT ![c] = t]
  /\ UNCHANGED <<rows, slots, archive, served>>

\* The INSERT names the session, which must exist by then (REFERENCES, with
\* foreign_keys on).  (Mutant: it need not.)
AnySession(c) == TRUE
SessionExists(c) == holder[c] \in alive

CreateTicket(c) ==
  /\ place[c] = "ticket"
  /\ LET t == wanted[c] IN
     IF ticket[t] = "absent" /\ SessionExists(c)
     THEN ticket' = [ticket EXCEPT ![t] = "open"] /\ owner' = [owner EXCEPT ![t] = holder[c]]
     ELSE UNCHANGED rows
  /\ Ends(c)
  /\ UNCHANGED <<slots, served>>

\* ON DELETE CASCADE, with every statement that deletes sessions.
Cascade ==
  /\ ticket' = [t \in Tickets |-> IF owner[t] # None /\ owner[t] \notin alive' THEN "gone" ELSE ticket[t]]
  /\ UNCHANGED <<owner, slots, clients, served>>

-------------------------------------------------------------------------------
(* Downloads *)

\* Where a request holds a slot.
InHandler == {"select", "consume", "pack", "release"}

\* What a request that finds no slot gives back.  (Mutant: the deferred call
\* stands before the select.)
OneTooMany == slots - 1
Nothing == slots

AcquireSlot(c) ==
  /\ place[c] = "slot"
  /\ IF slots < Capacity
     THEN slots' = slots + 1 /\ Move(c, "select") /\ UNCHANGED <<holder, wanted, archive>>
     ELSE slots' = Nothing /\ Ends(c)
  /\ UNCHANGED <<rows, served>>

\* The SELECT finds an open ticket of this session, that is not too old.
Select(c) ==
  /\ place[c] = "select"
  /\ \/ /\ ticket[wanted[c]] = "open" /\ owner[wanted[c]] = holder[c]
        /\ Move(c, "consume")
     \/ Move(c, "release")
  /\ UNCHANGED <<rows, slots, holder, wanted, archive, served>>

\* What the UPDATE asks of the row.  (Mutant: nothing, the SELECT has.)
Found(t) == ticket[t] # "gone"
Unused(t) == ticket[t] = "open"

Consume(c) ==
  /\ place[c] = "consume"
  /\ LET t == wanted[c] IN
     IF Unused(t)
     THEN /\ ticket' = [ticket EXCEPT ![t] = "used"]
          /\ served' = [served EXCEPT ![t] = @ + 1]
          /\ Move(c, "pack")
     ELSE UNCHANGED <<ticket, served>> /\ Move(c, "release")
  /\ UNCHANGED <<owner, slots, holder, wanted, archive>>

\* safeZipName: a name that is taken gets the number of times it was.  (Mutant:
\* names are taken as they are.)
AsItIs(items, i) == items[i]
Named(items, i) ==
  LET times == Cardinality({j \in 1..(i - 1) : items[j] = items[i]})
  IN  IF times = 0 THEN items[i] ELSE Append(items[i], times)

\* The names of the entries for the items that open, in the order of the items.
Entries(items) == [i \in DOMAIN items |-> Named(items, i)]

\* The items are streamed one by one; those that fail are listed at the end.
Pack(c) ==
  /\ place[c] = "pack"
  /\ \E items \in Selections : archive' = [archive EXCEPT ![c] = Entries(items)]
  /\ Move(c, "release")
  /\ UNCHANGED <<rows, slots, holder, wanted, served>>

\* The slot is given back by a deferred call, on every path.  (Mutant: only
\* after an archive.)
AfterArchive(c) == IF archive[c] = <<>> THEN slots ELSE slots - 1
GivenBack(c) == slots - 1

Release(c) ==
  /\ place[c] = "release" /\ slots' = GivenBack(c) /\ Ends(c)
  /\ UNCHANGED <<rows, served>>

\* With the process the slots are gone, and so are its requests.
Forget ==
  /\ slots' = 0
  /\ place' = [c \in Clients |-> "idle"]
  /\ holder' = [c \in Clients |-> None] /\ wanted' = [c \in Clients |-> None]
  /\ archive' = [c \in Clients |-> <<>>]
  /\ UNCHANGED <<rows, served>>

-------------------------------------------------------------------------------

ClientStep(c) == Enter(c) \/ CreateTicket(c) \/ AcquireSlot(c) \/ Select(c)
                 \/ Consume(c) \/ Pack(c) \/ Release(c)

DownloadsNext ==
  \/ (\E p \in Procs : Request(p)) /\ Cascade
  \/ (SetupExpires \/ ResetPassword) /\ Cascade
  \/ Restart /\ Forget
  \/ (\E c \in Clients : ClientStep(c)) /\ UNCHANGED vars

DownloadsSpec == DownloadsInit /\ [][DownloadsNext]_allVars

-------------------------------------------------------------------------------
(* Properties *)

\* Every variable has its type.
DownloadsTypeOK ==
  /\ TypeOK
  /\ ticket \in [Tickets -> {"absent", "open", "used", "gone"}]
  /\ owner \in [Tickets -> SessionIds \cup {None}]
  /\ place \in [Clients -> {"idle", "ticket", "slot", "select", "consume", "pack", "release"}]
  /\ holder \in [Clients -> SessionIds \cup {None}]
  /\ wanted \in [Clients -> Tickets \cup {None}]
  /\ served \in [Tickets -> Nat]
  /\ slots \in Nat

\* A ticket is consumed once (docs/architecture.md), however many requests
\* carry it at a time.
OneArchivePerTicket == \A t \in Tickets : served[t] <= 1

\* A ticket lives no longer than its session: whoever begins to pack does so for
\* a ticket that was not yet used and whose session was alive when it was
\* consumed, so no archive is begun after the password has changed.
NoArchiveAfterSession ==
  [][\A c \in Clients : place[c] = "consume" /\ place'[c] = "pack" => holder[c] \in alive]_allVars

\* Every slot that is taken is held by a request that is still in its handler,
\* on whatever path it leaves, and there are at most Capacity of them: the
\* channel loses no slot and lends none twice, over restarts too.
SlotsAreHeld == slots = Cardinality({c \in Clients : place[c] \in InHandler}) /\ slots <= Capacity

\* The entries of an archive have different names, unless the selection holds a
\* name that looks like the numbered copy of another.
EntryNamesDistinct ==
  \A c \in Clients : \A i, j \in DOMAIN archive[c] :
    archive[c][i] = archive[c][j] /\ i # j => Len(archive[c][i]) > 1
===============================================================================
