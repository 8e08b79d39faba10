------------------------------- MODULE Sessions --------------------------------
(* internal/auth/service.go: the administrator's account, set up once, and    *)
(* the sessions of those who know its password, statement by statement.       *)
(*                                                                            *)
(* Abstractions.  Passwords are numbered by the changes; who logs in or       *)
(* changes the password sends the present one (others are turned away and     *)
(* change nothing).  Times are left to chance: any session may be found to be *)
(* over, and the setup token may run out.  last_seen_at, CSRF tokens and the  *)
(* count of failed logins are left out.  ResetPassword is the command of the  *)
(* operator, another process on the same database.                            *)
(*                                                                            *)
(* Bounds: the ids of SessionIds are the logins, MaxPasswords the passwords.  *)
(* Restarts are not bounded.                                                  *)
EXTENDS Naturals, FiniteSets

CONSTANTS
  Procs,       \* requests
  SessionIds,  \* ids of sessions, one for each login
  None,        \* no session
  MaxPasswords

ASSUME SessionsAssumption ==
  None \notin SessionIds /\ MaxPasswords \in Nat

VARIABLES
  \* users: the number of rows, and the password of the administrator
  admins, password,
  \* setupToken: whether the process accepts one
  setup,
  \* sessions: the rows, and the password each login was checked against
  alive, born,
  \* requests: where they are, the session they belong to, the password a login
  \* was checked against
  at, session, knows,
  \* history: logins that a change of the password overtook, sessions opened
  \* by such logins, overlapping setups
  overtaken, raced, setupRaced

account  == <<admins, password, setup>>
table    == <<alive, born>>
requests == <<at, session, knows>>
history  == <<overtaken, raced, setupRaced>>
vars == <<account, table, requests, history>>

Init ==
  /\ admins = 0 /\ password = 0 /\ setup = TRUE
  /\ alive = {} /\ born = [s \in SessionIds |-> 0]
  /\ at = [p \in Procs |-> "idle"]
  /\ session = [p \in Procs |-> None]
  /\ knows = [p \in Procs |-> 0]
  /\ overtaken = {} /\ raced = {} /\ setupRaced = FALSE

Goto(p, place) == at' = [at EXCEPT ![p] = place]
Returns(p) == /\ Goto(p, "idle")
              /\ session' = [session EXCEPT ![p] = None]
              /\ knows' = [knows EXCEPT ![p] = 0]

-------------------------------------------------------------------------------
(* Setup *)

SettingUp(p) == at[p] \in {"token", "insert", "clear"}

\* HasUser.  (Mutant: the table is not looked at.)
NotAsked == FALSE
HasUser == admins > 0

SetupBegin(p) ==
  /\ at[p] = "idle" /\ ~HasUser
  /\ Goto(p, "token")
  /\ setupRaced' = (setupRaced \/ \E q \in Procs : SettingUp(q))
  /\ UNCHANGED <<account, table, session, knows, overtaken, raced>>

\* The token is compared, then the password is hashed.
SetupToken(p) ==
  /\ at[p] = "token"
  /\ Goto(p, IF setup THEN "insert" ELSE "idle")
  /\ UNCHANGED <<account, table, session, knows, history>>

\* The password is the first administrator's, and so are the sessions.
SetupInsert(p) ==
  /\ at[p] = "insert"
  /\ admins' = admins + 1 /\ password' = IF admins = 0 THEN 1 ELSE password
  /\ Goto(p, "clear")
  /\ UNCHANGED <<setup, table, session, knows, history>>

SetupClear(p) ==
  /\ at[p] = "clear" /\ setup' = FALSE /\ Returns(p)
  /\ UNCHANGED <<admins, password, table, history>>

SetupExpires == setup /\ setup' = FALSE /\ UNCHANGED <<admins, password, table, requests, history>>

-------------------------------------------------------------------------------
(* Login *)

LoginVerify(p) ==
  /\ at[p] = "idle" /\ admins > 0
  /\ Goto(p, "issue") /\ knows' = [knows EXCEPT ![p] = password]
  /\ UNCHANGED <<account, table, session, history>>

\* newSession: the row says nothing of the password.
LoginInsert(p) ==
  /\ at[p] = "issue"
  /\ \E s \in SessionIds :
       /\ born[s] = 0
       /\ born' = [born EXCEPT ![s] = knows[p]]
       /\ alive' = alive \cup {s}
       /\ raced' = IF p \in overtaken THEN raced \cup {s} ELSE raced
  /\ overtaken' = overtaken \ {p} /\ Returns(p)
  /\ UNCHANGED <<account, setupRaced>>

-------------------------------------------------------------------------------
(* Requests with a session: the middleware, then the handler *)

\* Authenticate reads the row.  It is good, for Logout or ChangePassword, or
\* over, and then Authenticate goes on to delete it as Logout does.
Authenticate(p) ==
  /\ at[p] = "idle"
  /\ \E s \in alive : session' = [session EXCEPT ![p] = s]
  /\ \E place \in {"leaving", "commit"} : Goto(p, place)
  /\ UNCHANGED <<account, table, knows, history>>

\* DELETE FROM sessions WHERE id: an outdated session, or Logout.
Delete(p) ==
  /\ at[p] = "leaving"
  /\ alive' = alive \ {session[p]} /\ Returns(p)
  /\ UNCHANGED <<account, born, history>>

\* The sessions that a change of the password ends.  (Mutant: the own one.)
OwnSession(p) == {session[p]}
EndedBy(p) == alive

\* A change overtakes the logins that have checked the old password.
Overtakes == overtaken' = overtaken \cup {q \in Procs : at[q] = "issue"}

\* ChangePassword has read and checked the password and hashed the new one; its
\* one transaction does not look at the password again.
ChangeCommit(p) ==
  /\ at[p] = "commit" /\ password < MaxPasswords
  /\ password' = password + 1
  /\ alive' = alive \ EndedBy(p)
  /\ Overtakes /\ Returns(p)
  /\ UNCHANGED <<admins, setup, born, raced, setupRaced>>

\* ResetPassword, one transaction that deletes all sessions.
ResetPassword ==
  /\ admins > 0 /\ password < MaxPasswords
  /\ password' = password + 1 /\ alive' = {}
  /\ Overtakes
  /\ UNCHANGED <<admins, setup, born, requests, raced, setupRaced>>

\* The process ends and starts again: requests are gone, rows stay, and there
\* is a new setup token while there is no user (NewService).
Restart ==
  /\ at' = [p \in Procs |-> "idle"]
  /\ session' = [p \in Procs |-> None]
  /\ knows' = [p \in Procs |-> 0]
  /\ setup' = ~HasUser
  /\ overtaken' = {}
  /\ UNCHANGED <<admins, password, table, raced, setupRaced>>

-------------------------------------------------------------------------------

Request(p) ==
  \/ SetupBegin(p) \/ SetupToken(p) \/ SetupInsert(p) \/ SetupClear(p)
  \/ LoginVerify(p) \/ LoginInsert(p)
  \/ Authenticate(p) \/ Delete(p) \/ ChangeCommit(p)
Next == (\E p \in Procs : Request(p)) \/ SetupExpires \/ ResetPassword \/ Restart

Spec == Init /\ [][Next]_vars

-------------------------------------------------------------------------------
(* Properties *)

\* Every variable has its type.
TypeOK ==
  /\ admins \in Nat /\ password \in Nat /\ setup \in BOOLEAN
  /\ alive \subseteq SessionIds /\ born \in [SessionIds -> Nat]
  /\ at \in [Procs -> {"idle", "token", "insert", "clear", "issue", "leaving", "commit"}]
  /\ session \in [Procs -> SessionIds \cup {None}]
  /\ knows \in [Procs -> Nat]
  /\ overtaken \subseteq Procs /\ raced \subseteq SessionIds /\ setupRaced \in BOOLEAN

\* The instance has one administrator and setup is closed for good afterwards
\* (docs/architecture.md), unless two setups overlap: HasUser and the INSERT
\* are two statements with a slow hash between them.
OneAdministratorUnlessRaced == setupRaced \/ admins <= 1

\* No session survives a change or a reset of the password: every session was
\* opened with the password of now, except those of logins that a change
\* overtook between their check and their INSERT.
SessionIsOfThisPassword == \A s \in alive \ raced : born[s] = password
===============================================================================
