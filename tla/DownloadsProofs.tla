---------------------------- MODULE DownloadsProofs ----------------------------
(* Proofs about Sessions, for any requests, sessions, passwords and restarts, *)
(* and about Downloads, which stands on it, for any clients, tickets, slots.  *)
EXTENDS Downloads, FiniteSetTheorems, TLAPS

-------------------------------------------------------------------------------
(* Sessions *)

\* The types are kept by every statement of internal/auth/service.go.
LEMMA SessionsTypes == TypeOK /\ [Next]_vars => TypeOK'
<1> SUFFICES ASSUME TypeOK, [Next]_vars PROVE TypeOK'
  OBVIOUS
<1> USE SessionsAssumption DEF account, table, history
<1>1. ASSUME NEW p \in Procs, Request(p) PROVE TypeOK'
  <2>1. CASE SetupBegin(p) \/ SetupToken(p)
    BY <2>1 DEF TypeOK, SetupBegin, SetupToken, Goto
  <2>2. CASE SetupInsert(p) \/ SetupClear(p)
    <3>1. setup' \in BOOLEAN /\ setupRaced' \in BOOLEAN
      BY <2>2, Zenon DEF TypeOK, SetupInsert, SetupClear
    <3> QED BY <2>2, <3>1 DEF TypeOK, SetupInsert, SetupClear, Returns, Goto
  <2>3. CASE LoginVerify(p)
    BY <2>3 DEF TypeOK, LoginVerify, Goto
  <2>4. CASE LoginInsert(p)
    BY <2>4 DEF TypeOK, LoginInsert, Returns, Goto
  <2>5. CASE Authenticate(p)
    BY <2>5 DEF TypeOK, Authenticate, Goto
  <2>6. CASE Delete(p)
    BY <2>6 DEF TypeOK, Delete, Returns, Goto
  <2>7. CASE ChangeCommit(p)
    BY <2>7 DEF TypeOK, ChangeCommit, EndedBy, Overtakes, Returns, Goto
  <2> QED BY <1>1, <2>1, <2>2, <2>3, <2>4, <2>5, <2>6, <2>7 DEF Request
<1>2. CASE SetupExpires \/ ResetPassword
  <2>1. setup' \in BOOLEAN /\ setupRaced' \in BOOLEAN
    BY <1>2, Zenon DEF TypeOK, SetupExpires, ResetPassword
  <2> QED BY <1>2, <2>1 DEF TypeOK, SetupExpires, ResetPassword, Overtakes, requests
<1>3. CASE Restart
  BY <1>3 DEF TypeOK, Restart, HasUser
<1>4. CASE UNCHANGED vars
  BY <1>4 DEF TypeOK, vars, requests
<1> QED BY <1>1, <1>2, <1>3, <1>4 DEF Next

\* The sessions of now, and the logins on their way to one: before there is an
\* administrator there are none, and a login that is not overtaken still knows
\* the password.
SessionsInv ==
  /\ SessionIsOfThisPassword
  /\ admins = 0 => alive = {} /\ \A p \in Procs : at[p] # "issue"
  /\ \A p \in Procs : at[p] = "issue" => p \in overtaken \/ knows[p] = password

\* A session, or a login on its way to one, follows every change of the
\* password (Login, newSession, ChangePassword, ResetPassword).
LEMMA SessionsInductive == TypeOK /\ SessionsInv /\ [Next]_vars => SessionsInv'
<1> SUFFICES ASSUME TypeOK, SessionsInv, [Next]_vars PROVE SessionsInv'
  OBVIOUS
<1> USE SessionsAssumption DEF account, table, history, SessionsInv, SessionIsOfThisPassword
<1>1. ASSUME NEW p \in Procs, Request(p) PROVE SessionsInv'
  <2>1. CASE SetupBegin(p) \/ SetupToken(p)
    BY <2>1 DEF TypeOK, SetupBegin, SetupToken, Goto
  <2>2. CASE SetupInsert(p)
    BY <2>2 DEF TypeOK, SetupInsert, Goto
  <2>3. CASE SetupClear(p)
    BY <2>3 DEF TypeOK, SetupClear, Returns, Goto
  <2>4. CASE LoginVerify(p)
    BY <2>4 DEF TypeOK, LoginVerify, Goto
  <2>5. CASE LoginInsert(p)
    <3>1. PICK s \in SessionIds :
            /\ born' = [born EXCEPT ![s] = knows[p]]
            /\ alive' = alive \cup {s}
            /\ raced' = IF p \in overtaken THEN raced \cup {s} ELSE raced
      BY <2>5 DEF LoginInsert
    <3>2. admins' = admins /\ admins # 0 /\ password' = password /\ at[p] = "issue"
      BY <2>5 DEF LoginInsert
    <3>3. SessionIsOfThisPassword'
      BY <3>1, <3>2 DEF TypeOK
    <3>4. \A q \in Procs : at'[q] = "issue" => q # p /\ at[q] = "issue" /\ knows'[q] = knows[q]
      BY <2>5 DEF TypeOK, LoginInsert, Returns, Goto
    <3>5. overtaken' = overtaken \ {p}
      BY <2>5 DEF LoginInsert
    <3> QED BY <3>2, <3>3, <3>4, <3>5
  <2>6. CASE Authenticate(p)
    BY <2>6 DEF TypeOK, Authenticate, Goto
  <2>7. CASE Delete(p)
    BY <2>7 DEF TypeOK, Delete, Returns, Goto
  <2>8. CASE ChangeCommit(p)
    BY <2>8 DEF TypeOK, ChangeCommit, EndedBy, Overtakes, Returns, Goto
  <2> QED BY <1>1, <2>1, <2>2, <2>3, <2>4, <2>5, <2>6, <2>7, <2>8 DEF Request
<1>2. CASE SetupExpires \/ ResetPassword
  BY <1>2 DEF TypeOK, SetupExpires, ResetPassword, Overtakes, requests
<1>3. CASE Restart
  BY <1>3 DEF TypeOK, Restart
<1>4. CASE UNCHANGED vars
  BY <1>4 DEF vars, requests
<1> QED BY <1>1, <1>2, <1>3, <1>4 DEF Next

\* Without overlapping setups one request at a time is setting up, and before
\* its INSERT there is no administrator.
SetupInv ==
  ~setupRaced =>
    /\ admins <= 1
    /\ \A p, q \in Procs : SettingUp(p) /\ SettingUp(q) => p = q
    /\ \A p \in Procs : at[p] \in {"token", "insert"} => admins = 0

\* Setup looks for a user before the hash and inserts one after it.
LEMMA SetupInductive == TypeOK /\ SetupInv /\ [Next]_vars => SetupInv'
<1> SUFFICES ASSUME TypeOK, SetupInv, [Next]_vars PROVE SetupInv'
  OBVIOUS
<1> USE DEF account, table, history, SetupInv, SettingUp
<1>1. ASSUME NEW p \in Procs, Request(p) PROVE SetupInv'
  <2>1. CASE SetupBegin(p)
    <3> SUFFICES ASSUME ~setupRaced' PROVE SetupInv'
      OBVIOUS
    <3>1. ~setupRaced /\ \A q \in Procs : ~SettingUp(q)
      BY <2>1, Zenon DEF SetupBegin
    <3>2. admins' = admins /\ admins = 0
      BY <2>1 DEF TypeOK, SetupBegin, HasUser
    <3>3. \A q \in Procs : q # p => at'[q] = at[q]
      BY <2>1 DEF TypeOK, SetupBegin, Goto
    <3> QED BY <3>1, <3>2, <3>3
  <2>2. CASE SetupToken(p)
    BY <2>2 DEF TypeOK, SetupToken, Goto
  <2>3. CASE SetupInsert(p)
    BY <2>3 DEF TypeOK, SetupInsert, Goto
  <2>4. CASE SetupClear(p) \/ LoginInsert(p) \/ Delete(p) \/ ChangeCommit(p)
    BY <2>4 DEF TypeOK, SetupClear, LoginInsert, Delete, ChangeCommit, Returns, Goto
  <2>5. CASE LoginVerify(p) \/ Authenticate(p)
    BY <2>5 DEF TypeOK, LoginVerify, Authenticate, Goto
  <2> QED BY <1>1, <2>1, <2>2, <2>3, <2>4, <2>5 DEF Request
<1>2. CASE SetupExpires \/ ResetPassword
  BY <1>2 DEF SetupExpires, ResetPassword, requests
<1>3. CASE Restart
  BY <1>3 DEF TypeOK, Restart
<1>4. CASE UNCHANGED vars
  BY <1>4 DEF vars, requests
<1> QED BY <1>1, <1>2, <1>3, <1>4 DEF Next

\* The three invariants hold to begin with (an empty database).
LEMMA SessionsInit == Init => TypeOK /\ SessionsInv /\ SetupInv
<1> SUFFICES ASSUME Init PROVE TypeOK /\ SessionsInv /\ SetupInv
  OBVIOUS
<1>1. setup \in BOOLEAN /\ setupRaced \in BOOLEAN
  BY Zenon DEF Init
<1>2. TypeOK
  BY <1>1 DEF Init, TypeOK
<1>3. SessionsInv /\ SetupInv
  BY DEF Init, SessionsInv, SetupInv, SettingUp, SessionIsOfThisPassword
<1> QED BY <1>2, <1>3

\* Types, for any bounds (the tables users and sessions, the requests).
THEOREM SessionsTypeCorrect == Spec => []TypeOK
<1> QED BY SessionsInit, SessionsTypes, PTL DEF Spec

\* No session survives a change of the password, but for those whose login the
\* change overtook (ChangePassword and ResetPassword against Login).
THEOREM SessionsFollowPassword == Spec => []SessionIsOfThisPassword
<1>1. SessionsInv => SessionIsOfThisPassword
  BY DEF SessionsInv
<1> QED BY <1>1, SessionsInit, SessionsTypes, SessionsInductive, PTL DEF Spec

\* There is one administrator unless two setups overlap (Setup).
THEOREM OneAdministrator == Spec => []OneAdministratorUnlessRaced
<1>1. SetupInv => OneAdministratorUnlessRaced
  BY DEF SetupInv, OneAdministratorUnlessRaced
<1> QED BY <1>1, SessionsInit, SessionsTypes, SetupInductive, PTL DEF Spec

-------------------------------------------------------------------------------
(* Downloads *)

\* Creating and using tickets changes nothing of the sessions, and the cascade
\* only follows them.
LEMMA SessionsStep == DownloadsNext => Next \/ UNCHANGED vars
BY DEF DownloadsNext, Next

\* The composition implements the sessions it stands on: every behaviour of
\* handleCreateDownloadTicket, handleDownload and internal/auth together is,
\* seen from the users and sessions, one of internal/auth alone.
THEOREM DownloadsImplementsSessions == DownloadsSpec => Spec
<1>1. DownloadsInit => Init
  BY DEF DownloadsInit
<1>2. [DownloadsNext]_allVars => [Next]_vars
  BY SessionsStep DEF allVars
<1> QED BY <1>1, <1>2, PTL DEF DownloadsSpec, Spec

\* The requests that hold a slot.
Holders == {c \in Clients : place[c] \in InHandler}

LEMMA HoldersFinite == IsFiniteSet(Holders) /\ IsFiniteSet(Holders')
<1>1. Holders \in SUBSET Clients /\ Holders' \in SUBSET Clients
  BY DEF Holders
<1> QED BY <1>1, FS_Subset, DownloadsAssumption

\* Types, and the slots (downloadSlots of handleDownload): a slot is given back
\* by the request that took it, whatever way it leaves.
SlotsInv == DownloadsTypeOK /\ SlotsAreHeld

\* A request that moves on inside the handler, or outside, changes no slot.
LEMMA SameHolders ==
  ASSUME DownloadsTypeOK, NEW c \in Clients, NEW where, Move(c, where),
         place[c] \in InHandler <=> where \in InHandler
  PROVE  Holders' = Holders
<1>1. \A d \in Clients : place'[d] = IF d = c THEN where ELSE place[d]
  BY DEF DownloadsTypeOK, Move
<1> QED BY <1>1 DEF Holders, InHandler

\* Taking and giving back a slot (the select at the head of handleDownload and
\* its deferred receive).
LEMMA SlotsStep ==
  ASSUME SlotsInv, NEW c \in Clients, ClientStep(c)
  PROVE  SlotsAreHeld'
<1> USE DEF SlotsInv, SlotsAreHeld
<1>0. SlotsAreHeld' <=> slots' = Cardinality(Holders') /\ slots' <= Capacity
  BY DEF Holders
<1>1. slots = Cardinality(Holders) /\ slots <= Capacity /\ slots \in Nat /\ Capacity \in Nat
  BY DownloadsAssumption DEF Holders, DownloadsTypeOK
<1>2. CASE Enter(c)
  BY <1>0, <1>1, <1>2, SameHolders DEF Enter, InHandler
<1>3. CASE CreateTicket(c)
  BY <1>0, <1>1, <1>3, SameHolders DEF CreateTicket, Ends, InHandler
<1>4. CASE AcquireSlot(c)
  <2>1. CASE slots < Capacity
    <3>1. slots' = slots + 1 /\ Move(c, "select") /\ place[c] = "slot"
      BY <1>4, <2>1 DEF AcquireSlot
    <3>2. c \notin Holders /\ Holders' = Holders \cup {c}
      BY <3>1 DEF Holders, InHandler, Move, DownloadsTypeOK
    <3>3. Cardinality(Holders') = Cardinality(Holders) + 1
      BY <3>2, HoldersFinite, FS_AddElement
    <3> QED BY <1>0, <1>1, <2>1, <3>1, <3>3
  <2>2. CASE ~(slots < Capacity)
    BY <1>0, <1>1, <1>4, <2>2, SameHolders DEF AcquireSlot, Nothing, Ends, InHandler
  <2> QED BY <2>1, <2>2
<1>5. CASE Select(c)
  BY <1>0, <1>1, <1>5, SameHolders DEF Select, InHandler
<1>6. CASE Consume(c)
  BY <1>0, <1>1, <1>6, SameHolders DEF Consume, InHandler
<1>7. CASE Pack(c)
  BY <1>0, <1>1, <1>7, SameHolders DEF Pack, InHandler
<1>8. CASE Release(c)
  <2>1. slots' = slots - 1 /\ Move(c, "idle") /\ place[c] = "release"
    BY <1>8 DEF Release, GivenBack, Ends
  <2>2. c \in Holders /\ Holders' = Holders \ {c}
    BY <2>1 DEF Holders, InHandler, Move, DownloadsTypeOK
  <2>3. Cardinality(Holders') = Cardinality(Holders) - 1
    BY <2>2, HoldersFinite, FS_RemoveElement
  <2> QED BY <1>0, <1>1, <2>1, <2>3
<1> QED BY <1>2, <1>3, <1>4, <1>5, <1>6, <1>7, <1>8 DEF ClientStep

\* Every step keeps the slots and the types.
LEMMA SlotsInductive == SlotsInv /\ [DownloadsNext]_allVars => SlotsInv'
<1> SUFFICES ASSUME SlotsInv, [DownloadsNext]_allVars PROVE SlotsInv'
  OBVIOUS
<1> USE DownloadsAssumption DEF SlotsInv
<1>1. TypeOK'
  BY SessionsStep, SessionsTypes DEF DownloadsTypeOK, allVars
<1>2. SlotsAreHeld' => slots' \in Nat
  BY HoldersFinite, FS_CardinalityType DEF SlotsAreHeld, Holders
<1>3. ASSUME Cascade PROVE SlotsInv'
  BY <1>1, <1>3 DEF Cascade, clients, DownloadsTypeOK, SlotsAreHeld
<1>4. ASSUME Forget PROVE SlotsInv'
  <2>1. Holders' = {}
    BY <1>4 DEF Forget, Holders, InHandler
  <2>2. SlotsAreHeld'
    <3>1. SlotsAreHeld' <=> slots' = Cardinality(Holders') /\ slots' <= Capacity
      BY DEF SlotsAreHeld, Holders
    <3>2. slots' = 0 /\ Cardinality(Holders') = 0
      BY <1>4, <2>1, FS_EmptySet DEF Forget
    <3> QED BY <3>1, <3>2
  <2> QED BY <1>1, <1>4, <2>2 DEF Forget, rows, DownloadsTypeOK
<1>5. ASSUME NEW c \in Clients, ClientStep(c), UNCHANGED vars PROVE SlotsInv'
  <2>1. SlotsAreHeld' /\ slots' \in Nat
    BY <1>2, <1>5, SlotsStep
  <2> USE <1>1, <2>1 DEF DownloadsTypeOK, Move, Ends, rows
  <2>2. CASE Enter(c)
    BY <2>2 DEF Enter, TypeOK
  <2>3. CASE CreateTicket(c)
    <3>1. CASE ticket[wanted[c]] = "absent" /\ SessionExists(c)
      <4>1. holder[c] \in SessionIds
        BY <3>1 DEF SessionExists, TypeOK
      <4>2. /\ ticket' = [ticket EXCEPT ![wanted[c]] = "open"]
            /\ owner' = [owner EXCEPT ![wanted[c]] = holder[c]]
        BY <2>3, <3>1 DEF CreateTicket
      <4> QED BY <2>3, <4>1, <4>2 DEF CreateTicket
    <3>2. CASE ~(ticket[wanted[c]] = "absent" /\ SessionExists(c))
      BY <2>3, <3>2 DEF CreateTicket
    <3> QED BY <3>1, <3>2
  <2>4. CASE AcquireSlot(c)
    BY <2>4 DEF AcquireSlot
  <2>5. CASE Select(c) \/ Consume(c)
    BY <2>5 DEF Select, Consume
  <2>6. CASE Pack(c) \/ Release(c)
    BY <2>6 DEF Pack, Release
  <2> QED BY <1>5, <2>2, <2>3, <2>4, <2>5, <2>6 DEF ClientStep
<1>6. CASE UNCHANGED allVars
  BY <1>1, <1>6 DEF allVars, downloadVars, rows, clients, DownloadsTypeOK, SlotsAreHeld
<1> QED BY <1>3, <1>4, <1>5, <1>6 DEF DownloadsNext

\* Tickets: an open one has a living session and no archive; one that is about
\* to be consumed belongs to the session of the request.
TicketsInv ==
  /\ \A t \in Tickets :
       /\ served[t] <= 1
       /\ ticket[t] \in {"absent", "open"} => served[t] = 0
       /\ ticket[t] = "open" => owner[t] \in alive
  /\ \A c \in Clients : place[c] # "idle" => wanted[c] \in Tickets
  /\ \A c \in Clients : place[c] = "consume" =>
       ticket[wanted[c]] # "absent" /\ owner[wanted[c]] = holder[c]

\* The UPDATE of handleDownload takes a ticket once, and the cascade closes the
\* tickets of every session that ends.
LEMMA TicketsInductive == SlotsInv /\ TicketsInv /\ [DownloadsNext]_allVars => TicketsInv'
<1> SUFFICES ASSUME SlotsInv, TicketsInv, [DownloadsNext]_allVars PROVE TicketsInv'
  OBVIOUS
<1> USE DownloadsAssumption, SessionsAssumption DEF TicketsInv, SlotsInv, DownloadsTypeOK
<1>1. ASSUME Cascade PROVE TicketsInv'
  <2>1. \A t \in Tickets : ticket[t] = "open" => owner[t] # None
    BY DEF TypeOK
  <2> QED BY <1>1, <2>1 DEF Cascade, clients
<1>2. ASSUME Restart, Forget PROVE TicketsInv'
  BY <1>2 DEF Restart, Forget, rows, table
<1>3. ASSUME NEW c \in Clients, ClientStep(c), UNCHANGED vars PROVE TicketsInv'
  <2>0. alive' = alive
    BY <1>3 DEF vars, table
  <2> USE <2>0 DEF Move, Ends, rows
  <2>1. CASE Enter(c)
    BY <2>1 DEF Enter
  <2>2. CASE CreateTicket(c)
    BY <2>2 DEF CreateTicket, SessionExists
  <2>3. CASE AcquireSlot(c)
    BY <2>3 DEF AcquireSlot
  <2>4. CASE Select(c)
    BY <2>4 DEF Select
  <2>5. CASE Consume(c)
    BY <2>5 DEF Consume, Unused
  <2>6. CASE Pack(c) \/ Release(c)
    BY <2>6 DEF Pack, Release
  <2> QED BY <1>3, <2>1, <2>2, <2>3, <2>4, <2>5, <2>6 DEF ClientStep
<1>4. CASE UNCHANGED allVars
  BY <1>4 DEF allVars, vars, table, downloadVars, rows, clients
<1> QED BY <1>1, <1>2, <1>3, <1>4 DEF DownloadsNext

\* Who begins an archive held a living session in that step.
LEMMA PackStep ==
  SlotsInv /\ TicketsInv /\ [DownloadsNext]_allVars =>
    \A c \in Clients : place[c] = "consume" /\ place'[c] = "pack" => holder[c] \in alive
<1> SUFFICES ASSUME SlotsInv, TicketsInv, [DownloadsNext]_allVars, NEW c \in Clients,
                    place[c] = "consume", place'[c] = "pack"
             PROVE  holder[c] \in alive
  OBVIOUS
<1> USE DEF SlotsInv, DownloadsTypeOK
<1>1. ~Cascade /\ ~Forget /\ ~UNCHANGED allVars
  BY DEF Cascade, Forget, clients, allVars, downloadVars
<1>2. PICK d \in Clients : ClientStep(d)
  BY <1>1 DEF DownloadsNext
<1>3. d = c
  BY <1>2 DEF ClientStep, Enter, CreateTicket, AcquireSlot, Select, Consume, Pack, Release, Move, Ends
<1>4. Unused(wanted[c])
  BY <1>2, <1>3 DEF ClientStep, Enter, CreateTicket, AcquireSlot, Select, Consume, Pack, Release, Move, Ends
<1> QED BY <1>4 DEF Unused, TicketsInv

\* To begin with there are no tickets, no clients and free slots.
LEMMA DownloadsInitially == DownloadsInit => SlotsInv /\ TicketsInv
<1> SUFFICES ASSUME DownloadsInit PROVE SlotsInv /\ TicketsInv
  OBVIOUS
<1>1. DownloadsTypeOK
  BY SessionsInit DEF DownloadsInit, DownloadsTypeOK
<1>2. Holders = {}
  BY DEF DownloadsInit, Holders, InHandler
<1>3. SlotsAreHeld
  <2>1. SlotsAreHeld <=> slots = Cardinality(Holders) /\ slots <= Capacity
    BY DEF SlotsAreHeld, Holders
  <2>2. slots = 0 /\ Cardinality(Holders) = 0
    BY <1>2, FS_EmptySet DEF DownloadsInit
  <2> QED BY <2>1, <2>2, DownloadsAssumption
<1>4. TicketsInv
  BY DEF DownloadsInit, TicketsInv
<1> QED BY <1>1, <1>3, <1>4 DEF SlotsInv

\* Types of the composition, for any bounds.
THEOREM DownloadsTypeCorrect == DownloadsSpec => []DownloadsTypeOK
<1>1. SlotsInv => DownloadsTypeOK
  BY DEF SlotsInv
<1> QED BY <1>1, DownloadsInitially, SlotsInductive, PTL DEF DownloadsSpec

\* Slots are held by requests in their handler, and never more than Capacity
\* (downloadSlots).
THEOREM SlotsHeld == DownloadsSpec => []SlotsAreHeld
<1>1. SlotsInv => SlotsAreHeld
  BY DEF SlotsInv
<1> QED BY <1>1, DownloadsInitially, SlotsInductive, PTL DEF DownloadsSpec

\* A ticket yields one archive (consumed_at IS NULL in the UPDATE).
THEOREM OneArchive == DownloadsSpec => []OneArchivePerTicket
<1>1. TicketsInv => OneArchivePerTicket
  BY DEF TicketsInv, OneArchivePerTicket
<1> QED BY <1>1, DownloadsInitially, SlotsInductive, TicketsInductive, PTL DEF DownloadsSpec

\* No archive is begun for a session that has ended (ON DELETE CASCADE).
THEOREM ArchivesOfLivingSessions == DownloadsSpec => NoArchiveAfterSession
<1> QED
  BY DownloadsInitially, SlotsInductive, TicketsInductive, PackStep, PTL
  DEF DownloadsSpec, NoArchiveAfterSession

\* What is proved of the sessions holds beside downloads: their passwords.
COROLLARY DownloadsFollowPassword == DownloadsSpec => []SessionIsOfThisPassword
BY DownloadsImplementsSessions, SessionsFollowPassword, PTL

-------------------------------------------------------------------------------
(* The names in an archive *)

\* A name that was taken before is numbered (safeZipName): of two entries with
\* the same name, none is a plain one.
LEMMA PlainNamesDiffer ==
  ASSUME NEW items \in Seq(Seq(Nat) \ {<<>>}),
         NEW i \in DOMAIN items, NEW j \in DOMAIN items, i < j,
         Entries(items)[i] = Entries(items)[j]
  PROVE  Len(Entries(items)[j]) > 1
<1> DEFINE before(n) == {k \in 1..(n - 1) : items[k] = items[n]}
           times(n) == Cardinality(before(n))
<1>1. /\ i \in Nat /\ j \in Nat /\ i >= 1
      /\ items[i] \in Seq(Nat) /\ items[j] \in Seq(Nat) /\ items[i] # <<>> /\ items[j] # <<>>
  OBVIOUS
<1>2. Len(items[i]) \in Nat /\ Len(items[j]) \in Nat /\ Len(items[i]) > 0 /\ Len(items[j]) > 0
  BY <1>1
<1>3. /\ Entries(items)[i] = IF times(i) = 0 THEN items[i] ELSE Append(items[i], times(i))
      /\ Entries(items)[j] = IF times(j) = 0 THEN items[j] ELSE Append(items[j], times(j))
  BY DEF Entries, Named
<1>4. IsFiniteSet(before(i)) /\ IsFiniteSet(before(j))
  <2>1. 1 \in Int /\ i - 1 \in Int /\ j - 1 \in Int
    BY <1>1
  <2>2. IsFiniteSet(1..(i - 1)) /\ IsFiniteSet(1..(j - 1))
    BY <2>1, FS_Interval, Zenon
  <2> QED BY <2>2, FS_Subset
<1>5. times(i) \in Nat /\ times(j) \in Nat
  BY <1>4, FS_CardinalityType
<1>6. CASE times(j) # 0
  <2>1. Len(Append(items[j], times(j))) = Len(items[j]) + 1
    <3> HIDE DEF times
    <3> QED BY <1>1, <1>5
  <2>2. Entries(items)[j] = Append(items[j], times(j))
    <3> HIDE DEF times
    <3> QED BY <1>3, <1>6
  <2> HIDE DEF times
  <2> QED BY <1>2, <2>1, <2>2
<1>7. CASE times(j) = 0
  <2>1. before(j) = {}
    BY <1>4, <1>7, FS_EmptySet
  <2>2. items[i] # items[j]
    <3>1. i \in 1..(j - 1)
      BY <1>1
    <3> QED BY <2>1, <3>1
  <2>3. times(i) # 0
    BY <1>3, <1>7, <2>2
  <2>4. Len(Append(items[i], times(i))) = Len(items[i]) + 1
    <3> HIDE DEF times
    <3> QED BY <1>1, <1>5
  <2> QED BY <1>2, <1>3, <2>3, <2>4
<1> QED BY <1>6, <1>7

ArchivesInv == archive = [c \in Clients |-> archive[c]] /\ EntryNamesDistinct

LEMMA ArchivesInductive == ArchivesInv /\ [DownloadsNext]_allVars => ArchivesInv'
<1> SUFFICES ASSUME ArchivesInv, [DownloadsNext]_allVars PROVE ArchivesInv'
  OBVIOUS
<1>1. CASE archive' = archive
  BY <1>1 DEF ArchivesInv, EntryNamesDistinct
<1>2. ASSUME NEW c \in Clients, archive' = [archive EXCEPT ![c] = <<>>] PROVE ArchivesInv'
  BY <1>2 DEF ArchivesInv, EntryNamesDistinct
<1>3. CASE Forget
  BY <1>3 DEF Forget, ArchivesInv, EntryNamesDistinct
<1>4. ASSUME NEW c \in Clients, Pack(c) PROVE ArchivesInv'
  <2>1. PICK items \in Selections : archive' = [archive EXCEPT ![c] = Entries(items)]
    BY <1>4 DEF Pack
  <2>2. items \in Seq(Seq(Nat) \ {<<>>})
    BY DownloadsAssumption
  <2>3. DOMAIN Entries(items) = DOMAIN items /\ DOMAIN items \subseteq Nat
    BY <2>2 DEF Entries
  <2>4. \A i, j \in DOMAIN Entries(items) :
          Entries(items)[i] = Entries(items)[j] /\ i # j => Len(Entries(items)[i]) > 1
    <3>1. SUFFICES ASSUME NEW i \in DOMAIN items, NEW j \in DOMAIN items,
                          Entries(items)[i] = Entries(items)[j], i # j
                   PROVE  Len(Entries(items)[i]) > 1
      BY <2>3
    <3>2. i < j \/ j < i
      BY <2>3, <3>1
    <3> QED BY <2>2, <3>1, <3>2, PlainNamesDiffer
  <2>5. archive' = [d \in Clients |-> IF d = c THEN Entries(items) ELSE archive[d]]
    BY <2>1 DEF ArchivesInv
  <2> HIDE DEF Entries
  <2> QED BY <2>4, <2>5 DEF ArchivesInv, EntryNamesDistinct
<1>5. ASSUME NEW c \in Clients, ClientStep(c)
      PROVE  archive' = archive \/ archive' = [archive EXCEPT ![c] = <<>>] \/ Pack(c)
  BY <1>5 DEF ClientStep, Enter, CreateTicket, AcquireSlot, Select, Consume, Release, Ends
<1>6. CASE Cascade \/ UNCHANGED allVars
  BY <1>1, <1>6 DEF Cascade, allVars, downloadVars, clients
<1> QED BY <1>1, <1>2, <1>3, <1>4, <1>5, <1>6 DEF DownloadsNext

\* Two entries of an archive have one name only if the selection holds a name that
\* looks like a numbered one (safeZipName), whatever is selected and fails to open.
THEOREM EntriesDiffer == DownloadsSpec => []EntryNamesDistinct
<1>1. DownloadsInit => ArchivesInv
  BY DEF DownloadsInit, ArchivesInv, EntryNamesDistinct
<1>2. ArchivesInv => EntryNamesDistinct
  BY DEF ArchivesInv
<1> QED BY <1>1, <1>2, ArchivesInductive, PTL DEF DownloadsSpec
===============================================================================
