------------------------------ MODULE Connections ------------------------------
(* internal/storage/manager/manager.go and the tokens of                      *)
(* internal/storage/baidu/baidu.go: a device flow, the connection it creates, *)
(* and everybody who reads and writes the secret of that connection.          *)
(*                                                                            *)
(* The secret is one encrypted value: the application keys, an access token   *)
(* and a refresh token.  Who changes a part of it reads the whole, changes    *)
(* the part and writes the whole back, without a transaction.  Every call     *)
(* (a page, a job) builds a provider of its own from the row, so the mutex    *)
(* that serialises refreshes inside a provider does not serialise two calls.  *)
(*                                                                            *)
(* Abstractions.  Keys are numbered by the updates of the administrator,      *)
(* tokens by the server that issues them.  The server (external) redeems a    *)
(* device code once, accepts the refresh token it issued last, and may or may *)
(* not issue a new one with an access token.  The times of a flow are left to *)
(* chance: any poll may find it over.  Name, root and texts are left out.  A  *)
(* WebDAV connection is the case without tokens.                              *)
(*                                                                            *)
(* Bounds: MaxCalls calls of the connection, MaxTokens access tokens,         *)
(* MaxFaults failures.                                                        *)
EXTENDS Naturals, FiniteSets

CONSTANTS
  Procs,                          \* requests and workers
  MaxCalls, MaxTokens, MaxFaults

ASSUME ConnectionsAssumption ==
  MaxCalls \in Nat /\ MaxTokens \in Nat /\ MaxFaults \in Nat

VARIABLES
  \* baidu_device_flows: status
  flow,
  \* storage_connections: status ("none" before the INSERT), removed_at, the
  \* secret
  status, removed, secret,
  \* the server: the device code, the refresh token it accepts, the number of
  \* tokens issued; and the access tokens that have run out
  grant, accepts, issued, stale,
  \* calls under way: where they are, what for, and the secret they hold
  at, job, copy,
  \* bounds
  calls, faults,
  \* history: the keys the administrator set last, the keys the last test was
  \* about; calls overlapped on the secret, on the flow; a token never stored
  chosen, about, raced, flowRaced, lost

row      == <<status, removed, secret>>
server   == <<grant, accepts, issued, stale>>
callers  == <<at, job, copy>>
counters == <<calls, faults>>
history  == <<chosen, about, raced, flowRaced, lost>>
vars == <<flow, row, server, callers, counters, history>>

Secret == [keys : Nat, access : Nat, refresh : Nat]
Nothing == [keys |-> 0, access |-> 0, refresh |-> 0]

Init ==
  /\ flow = "pending"
  /\ status = "none" /\ removed = FALSE /\ secret = Nothing
  /\ grant = "waiting" /\ accepts = 0 /\ issued = 0 /\ stale = {}
  /\ at = [p \in Procs |-> "idle"]
  /\ job = [p \in Procs |-> "none"]
  /\ copy = [p \in Procs |-> Nothing]
  /\ calls = 0 /\ faults = 0
  /\ chosen = 1 /\ about = 1 /\ raced = FALSE /\ flowRaced = FALSE /\ lost = FALSE

Goto(p, place) == at' = [at EXCEPT ![p] = place]
Returns(p) == Goto(p, "idle") /\ job' = [job EXCEPT ![p] = "none"] /\ copy' = [copy EXCEPT ![p] = Nothing]
Begins(p, what, place) == at[p] = "idle" /\ Goto(p, place) /\ job' = [job EXCEPT ![p] = what]
Counted == calls < MaxCalls /\ calls' = calls + 1
Fault == faults < MaxFaults /\ faults' = faults + 1

Polling(p) == job[p] \in {"poll", "create"}
\* p goes by a secret it has read.
Holding(p) == at[p] \in {"merged", "token", "save", "call", "mark", "broken"}
\* What a writer of the secret does to the calls beside it.
NoteRace(p) == raced' = (raced \/ \E q \in Procs \ {p} : Holding(q))

-------------------------------------------------------------------------------
(* The device flow *)

\* Who asks for the state of a pending flow polls the server, unless the flow
\* has run out; before next_poll_at nothing happens.  (Mutant: whatever became
\* of the flow.)
AnyFlow == TRUE
WorthPolling == flow = "pending"

PollBegin(p) ==
  /\ WorthPolling
  /\ \E place \in {"ask", "expired"} : Begins(p, "poll", place)
  /\ flowRaced' = (flowRaced \/ \E q \in Procs : Polling(q))
  /\ UNCHANGED <<flow, row, server, copy, counters, chosen, about, raced, lost>>

Redeem(p) ==
  /\ at[p] = "ask" /\ grant = "granted" /\ issued < MaxTokens
  /\ grant' = "redeemed" /\ issued' = issued + 1 /\ accepts' = issued'
  /\ Goto(p, "insert")
  /\ copy' = [copy EXCEPT ![p] = [keys |-> 1, access |-> issued', refresh |-> issued']]
  /\ UNCHANGED <<flow, row, stale, job, counters, history>>

\* The other answers of the server; a code is good for one token.
Refused(p) ==
  /\ at[p] = "ask" /\ grant # "granted"
  /\ Goto(p, CASE grant = "waiting" -> "wait" [] grant = "redeemed" -> "error" [] OTHER -> grant)
  /\ UNCHANGED <<flow, row, server, job, copy, counters, history>>

\* The call fails on the way there, or on the way back.
AskFails(p) ==
  /\ at[p] = "ask" /\ Fault /\ Goto(p, "error")
  /\ \/ UNCHANGED <<grant, lost>>
     \/ grant = "granted" /\ grant' = "redeemed" /\ lost' = TRUE
  /\ UNCHANGED <<flow, row, accepts, issued, stale, job, copy, calls, chosen, about, raced, flowRaced>>

\* authorization_pending and slow_down.
PollLater(p) ==
  /\ at[p] = "wait" /\ Returns(p)
  /\ UNCHANGED <<flow, row, server, counters, history>>

\* Manager.Create up to the INSERT.
Insert(p) ==
  /\ at[p] = "insert"
  /\ status' = "unknown" /\ secret' = copy[p]
  /\ job' = [job EXCEPT ![p] = "create"] /\ Goto(p, "load")
  /\ copy' = [copy EXCEPT ![p] = Nothing]
  /\ UNCHANGED <<flow, removed, server, counters, history>>

InsertFails(p) ==
  /\ at[p] = "insert" /\ Fault /\ Goto(p, "error") /\ lost' = TRUE
  /\ UNCHANGED <<flow, row, server, job, copy, calls, chosen, about, raced, flowRaced>>

\* UPDATE ... SET status, whatever the status is by now.
EndFlow(p) ==
  /\ at[p] \in {"authorized", "declined", "expired", "error"}
  /\ flow' = at[p] /\ Returns(p)
  /\ UNCHANGED <<row, server, counters, history>>

\* CancelBaiduDeviceFlow, one guarded statement.
Cancel ==
  /\ flow = "pending" /\ flow' = "cancelled"
  /\ flowRaced' = (flowRaced \/ \E q \in Procs : Polling(q))
  /\ UNCHANGED <<row, server, callers, counters, chosen, about, raced, lost>>

-------------------------------------------------------------------------------
(* Calls of the connection: Provider, accessToken, saveBaiduToken *)

\* A page or a job uses the storage, or its state is tested.
Use(p) ==
  /\ status # "none" /\ Counted /\ Begins(p, "use", "load")
  /\ UNCHANGED <<flow, row, server, copy, faults, history>>
Test(p) ==
  /\ status # "none" /\ Counted /\ Begins(p, "test", "load")
  /\ UNCHANGED <<flow, row, server, copy, faults, history>>

\* Provider reads the row.
Load(p) ==
  /\ at[p] = "load" /\ ~removed
  /\ copy' = [copy EXCEPT ![p] = secret] /\ Goto(p, "token")
  /\ UNCHANGED <<flow, row, server, job, counters, history>>

Fresh(p) ==
  /\ at[p] = "token" /\ copy[p].access \notin stale
  /\ Goto(p, "call")
  /\ UNCHANGED <<flow, row, server, job, copy, counters, history>>

\* The token that is stored after a refresh: the new refresh token, or the old
\* one when the server gave none.  (Mutant: always the old one.)
KeepsRefresh(old, access, rotated) == [old EXCEPT !.access = access]
Refreshed(old, access, rotated) ==
  [old EXCEPT !.access = access, !.refresh = IF rotated THEN access ELSE @]

MustRefresh(p) == at[p] = "token" /\ copy[p].access \in stale

\* accessToken asks for a new token.
Refresh(p) ==
  /\ MustRefresh(p) /\ copy[p].refresh = accepts /\ issued < MaxTokens
  /\ issued' = issued + 1
  /\ \E rotated \in BOOLEAN :
       /\ accepts' = IF rotated THEN issued' ELSE accepts
       /\ copy' = [copy EXCEPT ![p] = Refreshed(@, issued', rotated)]
  /\ Goto(p, "save")
  /\ UNCHANGED <<flow, row, grant, stale, job, counters, history>>

\* The call returns with an error: a test marks it, a use is over.
CallFails(p) == Goto(p, IF job[p] = "use" THEN "leave" ELSE "broken") /\ UNCHANGED <<job, copy>>

RefreshRefused(p) ==
  /\ MustRefresh(p) /\ copy[p].refresh # accepts /\ CallFails(p)
  /\ UNCHANGED <<flow, row, server, counters, history>>

\* The answer is lost; the server may have issued a token.
RefreshFails(p) ==
  /\ MustRefresh(p) /\ Fault /\ CallFails(p)
  /\ \/ UNCHANGED <<accepts, issued, lost>>
     \/ /\ copy[p].refresh = accepts /\ issued < MaxTokens
        /\ issued' = issued + 1 /\ accepts' = issued' /\ lost' = TRUE
  /\ UNCHANGED <<flow, row, grant, stale, calls, chosen, about, raced, flowRaced>>

\* saveBaiduToken: the whole secret as it was when the provider was built.
Save(p) ==
  /\ at[p] = "save"
  /\ secret' = copy[p] /\ status' = "ready" /\ about' = copy[p].keys
  /\ Goto(p, "call") /\ NoteRace(p)
  /\ UNCHANGED <<flow, removed, server, job, copy, counters, chosen, flowRaced, lost>>

SaveFails(p) ==
  /\ at[p] = "save" /\ Fault /\ CallFails(p) /\ lost' = TRUE
  /\ UNCHANGED <<flow, row, server, calls, chosen, about, raced, flowRaced>>

\* The storage answers; a provider may be used again.
Answered(p) ==
  /\ at[p] = "call"
  /\ IF job[p] = "use" THEN at' \in {[at EXCEPT ![p] = x] : x \in {"token", "leave"}}
     ELSE at' \in {[at EXCEPT ![p] = x] : x \in {"mark", "broken"}}
  /\ UNCHANGED <<flow, row, server, job, copy, counters, history>>

Leave(p) ==
  /\ \/ at[p] = "leave"
     \/ at[p] = "load" /\ removed /\ job[p] = "use"
  /\ Returns(p)
  /\ UNCHANGED <<flow, row, server, counters, history>>

\* What follows the test of a connection: the flow that created it is done.
\* (Mutant: nothing follows.)
JustReturns(p) == "leave"
AfterTest(p) == IF job[p] = "create" THEN "get" ELSE "leave"

\* Test, and the end of Create: the UPDATE of the status.
Mark(p) ==
  /\ \/ at[p] = "mark" /\ status' = "ready"
     \/ at[p] = "broken" /\ status' = "error"
     \/ at[p] = "load" /\ removed /\ job[p] # "use" /\ status' = "error"
  /\ about' = IF at[p] = "load" THEN secret.keys ELSE copy[p].keys
  /\ Goto(p, AfterTest(p))
  /\ UNCHANGED <<flow, removed, secret, server, job, copy, counters, chosen, raced, flowRaced, lost>>

\* The end of Create reads the connection back.
GetCreated(p) ==
  /\ at[p] = "get" /\ Goto(p, IF removed THEN "error" ELSE "authorized")
  /\ UNCHANGED <<flow, row, server, job, copy, counters, history>>

-------------------------------------------------------------------------------
(* The administrator *)

\* Update puts new application keys into the secret.  (Mutant: it does not.)
Ignored(old, keys) == old
Merged(old, keys) == [old EXCEPT !.keys = keys]

\* Update reads the secret.
UpdateRead(p) ==
  /\ status # "none" /\ ~removed /\ Counted /\ Begins(p, "update", "merged")
  /\ copy' = [copy EXCEPT ![p] = Merged(secret, chosen + 1)]
  /\ UNCHANGED <<flow, row, server, faults, history>>

\* The status of a connection whose secret was changed.  (Mutant: the old one.)
Unchanged == status
NotTestedYet == "unknown"

\* Update writes the secret and goes on with Test.
UpdateWrite(p) ==
  /\ at[p] = "merged"
  /\ IF removed
     THEN UNCHANGED <<secret, status, chosen, raced>>
     ELSE /\ secret' = copy[p] /\ status' = NotTestedYet /\ chosen' = chosen + 1
          /\ NoteRace(p)
  /\ job' = [job EXCEPT ![p] = "test"] /\ Goto(p, "load")
  /\ copy' = [copy EXCEPT ![p] = Nothing]
  /\ UNCHANGED <<flow, removed, server, counters, about, flowRaced, lost>>

\* Delete, once no album is bound to the storage (AlbumRoots).
Delete ==
  /\ status # "none" /\ ~removed /\ removed' = TRUE
  /\ UNCHANGED <<flow, status, secret, server, callers, counters, history>>

-------------------------------------------------------------------------------
(* The clock, the user at the server's page, and a crash *)

TokenTime == stale' = stale \cup (1..issued) /\ stale' # stale
             /\ UNCHANGED <<flow, row, grant, accepts, issued, callers, counters, history>>
UserDecides ==
  /\ grant = "waiting" /\ grant' \in {"granted", "declined", "expired"}
  /\ UNCHANGED <<flow, row, accepts, issued, stale, callers, counters, history>>

Crash ==
  /\ Fault
  /\ lost' = (lost \/ \E p \in Procs : at[p] \in {"insert", "save"} \/ Polling(p))
  /\ at' = [p \in Procs |-> "idle"] /\ job' = [p \in Procs |-> "none"]
  /\ copy' = [p \in Procs |-> Nothing]
  /\ UNCHANGED <<flow, row, server, calls, chosen, about, raced, flowRaced>>

-------------------------------------------------------------------------------

FlowStep(p) == PollBegin(p) \/ Redeem(p) \/ Refused(p) \/ AskFails(p) \/ PollLater(p)
               \/ Insert(p) \/ InsertFails(p) \/ EndFlow(p)
CallStep(p) == Use(p) \/ Test(p) \/ Load(p) \/ Fresh(p) \/ Refresh(p) \/ RefreshRefused(p)
               \/ RefreshFails(p) \/ Save(p) \/ SaveFails(p) \/ Answered(p) \/ Leave(p) \/ Mark(p) \/ GetCreated(p)
Next ==
  \/ \E p \in Procs : FlowStep(p) \/ CallStep(p) \/ UpdateRead(p) \/ UpdateWrite(p)
  \/ Cancel \/ Delete \/ TokenTime \/ UserDecides \/ Crash

Spec == Init /\ [][Next]_vars

-------------------------------------------------------------------------------
(* Properties *)

\* Every variable has its type; a connection has keys and both tokens, and a
\* call that holds a secret has the same.
TypeOK ==
  /\ flow \in {"pending", "authorized", "declined", "expired", "error", "cancelled"}
  /\ status \in {"none", "unknown", "ready", "error"} /\ removed \in BOOLEAN
  /\ secret \in Secret
  /\ grant \in {"waiting", "granted", "declined", "expired", "redeemed"}
  /\ accepts \in Nat /\ issued \in Nat /\ stale \subseteq 1..issued
  /\ at \in [Procs -> {"idle", "ask", "wait", "insert", "authorized", "declined", "expired", "error",
                       "load", "token", "save", "call", "mark", "broken", "get", "leave", "merged"}]
  /\ job \in [Procs -> {"none", "poll", "create", "use", "test", "update"}]
  /\ copy \in [Procs -> Secret]
  /\ calls \in Nat /\ faults \in Nat /\ chosen \in Nat /\ about \in Nat
  /\ raced \in BOOLEAN /\ flowRaced \in BOOLEAN /\ lost \in BOOLEAN
  /\ status # "none" => secret.keys > 0 /\ secret.access > 0 /\ secret.refresh > 0
  /\ \A p \in Procs : Holding(p) => copy[p].refresh > 0

\* The stored refresh token is the one the server accepts, except between a
\* refresh and its UPDATE: no call puts an older secret back, unless two calls
\* held the secret when one of them wrote it, or a failure lost a token.
StoredTokenIsLive ==
  status # "none" /\ ~raced /\ ~lost /\ (\A p \in Procs : at[p] # "save")
    => secret.refresh = accepts

\* The keys that the administrator set last are the ones stored: the refresh of
\* a token does not undo an update, under the same conditions.
KeysAreTheLastSet == status # "none" /\ ~raced => secret.keys = chosen

\* A connection that is called ready or broken was found so with the keys it
\* has: a change of the keys resets the status, and no test that began before
\* the change is believed.
StatusIsOfTheseKeys ==
  status \in {"ready", "error"} /\ ~raced => about = secret.keys

\* A flow ends once: what ended it is not overwritten, unless two polls, or a
\* poll and a cancellation, overlap.
FlowEndsOnce == [][flow # "pending" /\ ~flowRaced' => flow' = flow]_vars

\* A flow is authorized exactly when its connection exists: a flow that was
\* cancelled, refused or too late leaves no connection, except while the call
\* that creates it is under way, and unless calls overlap, a failure loses the
\* token, or the connection is deleted.
AuthorizedIffConnected ==
  ~flowRaced /\ ~lost /\ ~removed /\ (\A p \in Procs : ~Polling(p))
    => (flow = "authorized" <=> status # "none")
===============================================================================
