--------------------------- MODULE ConnectionsProofs ---------------------------
(* Proofs about Connections for any number of calls, tokens and failures.     *)
EXTENDS Connections, TLAPS

\* Where a caller may be, by what it came for.
PlaceFits(p) ==
  /\ job[p] = "none" => at[p] = "idle"
  /\ job[p] = "poll" => at[p] \in {"ask", "wait", "insert", "expired", "declined", "error"}
  /\ job[p] = "create" => at[p] \in {"load", "token", "save", "call", "mark", "broken", "get",
                                     "authorized", "error"}
  /\ job[p] \notin {"none", "poll", "create"} =>
       at[p] \in {"load", "token", "save", "call", "mark", "broken", "leave", "merged"}

Placed ==
  /\ at = [p \in Procs |-> at[p]] /\ job = [p \in Procs |-> job[p]]
  /\ grant \in {"waiting", "granted", "declined", "expired", "redeemed"}
  /\ \A p \in Procs : PlaceFits(p)

\* Polls that do not overlap: one at a time, and only of a pending flow.
OnePoll ==
  ~flowRaced => \A p \in Procs : Polling(p) =>
    flow = "pending" /\ \A q \in Procs : Polling(q) => q = p

\* A step of one caller that goes to a place that fits it.
LEMMA OneCaller ==
  ASSUME Placed, NEW p \in Procs, NEW STATE place, NEW STATE what,
         at' = [at EXCEPT ![p] = place], job' = [job EXCEPT ![p] = what],
         grant' \in {"waiting", "granted", "declined", "expired", "redeemed"},
         what = "none" => place = "idle",
         what = "poll" => place \in {"ask", "wait", "insert", "expired", "declined", "error"},
         what = "create" => place \in {"load", "token", "save", "call", "mark", "broken", "get",
                                       "authorized", "error"},
         what \notin {"none", "poll", "create"} =>
           place \in {"load", "token", "save", "call", "mark", "broken", "leave", "merged"}
  PROVE  Placed'
  BY DEF Placed, PlaceFits

\* Every caller is where its task takes it (GetBaiduDeviceFlow, Create, Test,
\* Update, Provider and accessToken).
LEMMA PlacedInductive == Placed /\ [Next]_vars => Placed'
<1> SUFFICES ASSUME Placed, [Next]_vars PROVE Placed'
  OBVIOUS
<1> USE DEF row, server, callers, counters, history
<1>1. ASSUME NEW p \in Procs, FlowStep(p) PROVE Placed'
  <2>1. CASE PollBegin(p)
    <3>1. PICK place \in {"ask", "expired"} : Begins(p, "poll", place)
      BY <2>1 DEF PollBegin
    <3> QED BY <2>1, <3>1, OneCaller DEF PollBegin, Begins, Goto, Placed
  <2>2. CASE Redeem(p) \/ Refused(p) \/ AskFails(p)
    <3>1. at[p] = "ask" /\ job' = [job EXCEPT ![p] = job[p]]
      BY <2>2 DEF Redeem, Refused, AskFails, Placed
    <3>2. job[p] = "poll"
      BY <3>1 DEF Placed, PlaceFits
    <3>3. PICK place \in {"insert", "wait", "error", "declined", "expired"} : Goto(p, place)
      BY <2>2 DEF Redeem, Refused, AskFails, Placed
    <3>4. grant' \in {"waiting", "granted", "declined", "expired", "redeemed"}
      BY <2>2 DEF Redeem, Refused, AskFails, Placed
    <3> QED BY <3>1, <3>2, <3>3, <3>4, OneCaller DEF Goto
  <2>3. CASE PollLater(p) \/ EndFlow(p)
    BY <2>3, OneCaller DEF PollLater, EndFlow, Returns, Goto, Placed
  <2>4. CASE Insert(p)
    BY <2>4, OneCaller DEF Insert, Goto, Placed
  <2>5. CASE InsertFails(p)
    <3>1. at[p] = "insert" /\ job' = [job EXCEPT ![p] = job[p]] /\ job[p] = "poll"
      BY <2>5 DEF InsertFails, Placed, PlaceFits
    <3> QED BY <2>5, <3>1, OneCaller DEF InsertFails, Goto, Placed
  <2> QED BY <1>1, <2>1, <2>2, <2>3, <2>4, <2>5 DEF FlowStep
<1>2. ASSUME NEW p \in Procs, CallStep(p) PROVE Placed'
  <2>1. CASE Use(p) \/ Test(p)
    BY <2>1, OneCaller DEF Use, Test, Begins, Goto, Placed
  <2>2. CASE Leave(p)
    BY <2>2, OneCaller DEF Leave, Returns, Goto, Placed
  <2>3. CASE Load(p) \/ Fresh(p) \/ Refresh(p) \/ Save(p)
    <3>1. at[p] \in {"load", "token", "save"} /\ job' = [job EXCEPT ![p] = job[p]] /\ grant' = grant
      BY <2>3 DEF Load, Fresh, Refresh, MustRefresh, Save, Placed
    <3>2. job[p] \notin {"none", "poll"}
      BY <3>1 DEF Placed, PlaceFits
    <3>3. PICK place \in {"token", "call", "save"} : Goto(p, place)
      BY <2>3 DEF Load, Fresh, Refresh, Save
    <3> QED BY <3>1, <3>2, <3>3, OneCaller DEF Goto, Placed
  <2>4. CASE RefreshRefused(p) \/ RefreshFails(p) \/ SaveFails(p)
    <3>1. at[p] \in {"token", "save"} /\ job' = [job EXCEPT ![p] = job[p]] /\ grant' = grant
      BY <2>4 DEF RefreshRefused, RefreshFails, SaveFails, MustRefresh, CallFails, Placed
    <3>2. job[p] \notin {"none", "poll"}
      BY <3>1 DEF Placed, PlaceFits
    <3>3. Goto(p, IF job[p] = "use" THEN "leave" ELSE "broken")
      BY <2>4 DEF RefreshRefused, RefreshFails, SaveFails, CallFails
    <3> QED BY <3>1, <3>2, <3>3, OneCaller DEF Goto, Placed
  <2>5. CASE Answered(p)
    <3>1. at[p] = "call" /\ job' = [job EXCEPT ![p] = job[p]] /\ grant' = grant
      BY <2>5 DEF Answered, Placed
    <3>2. job[p] \notin {"none", "poll"}
      BY <3>1 DEF Placed, PlaceFits
    <3>3. PICK place \in {"token", "leave", "mark", "broken"} :
            Goto(p, place) /\ (place = "leave" => job[p] = "use")
      BY <2>5 DEF Answered, Goto
    <3> QED BY <3>1, <3>2, <3>3, OneCaller DEF Goto, Placed
  <2>6. CASE Mark(p)
    <3>1. /\ at[p] \in {"mark", "broken", "load"}
          /\ job' = [job EXCEPT ![p] = job[p]] /\ grant' = grant /\ Goto(p, AfterTest(p))
      BY <2>6 DEF Mark, Placed
    <3>2. job[p] \notin {"none", "poll"}
      BY <3>1 DEF Placed, PlaceFits
    <3> QED BY <3>1, <3>2, OneCaller DEF Goto, AfterTest, Placed
  <2>7. CASE GetCreated(p)
    <3>1. at[p] = "get" /\ job' = [job EXCEPT ![p] = job[p]] /\ grant' = grant
      BY <2>7 DEF GetCreated, Placed
    <3>2. job[p] = "create"
      BY <3>1 DEF Placed, PlaceFits
    <3>3. PICK place \in {"error", "authorized"} : Goto(p, place)
      BY <2>7 DEF GetCreated
    <3> QED BY <3>1, <3>2, <3>3, OneCaller DEF Goto, Placed
  <2> QED BY <1>2, <2>1, <2>2, <2>3, <2>4, <2>5, <2>6, <2>7 DEF CallStep
<1>3. ASSUME NEW p \in Procs, UpdateRead(p) \/ UpdateWrite(p) PROVE Placed'
  BY <1>3, OneCaller DEF UpdateRead, UpdateWrite, Begins, Goto, Placed
<1>4. CASE Cancel \/ Delete \/ TokenTime \/ UserDecides \/ UNCHANGED vars
  BY <1>4 DEF Cancel, Delete, TokenTime, UserDecides, vars, Placed, PlaceFits
<1>5. CASE Crash
  BY <1>5 DEF Crash, Placed, PlaceFits
<1> QED BY <1>1, <1>2, <1>3, <1>4, <1>5 DEF Next

\* Polls that do not overlap stay alone, and end a flow that is pending: a poll
\* begins on a pending flow, and a cancellation beside one is an overlap.
LEMMA OnePollInductive == Placed /\ OnePoll /\ [Next]_vars => OnePoll'
<1> SUFFICES ASSUME Placed, OnePoll, [Next]_vars, ~flowRaced' PROVE OnePoll'
  BY DEF OnePoll
<1> USE DEF row, server, callers, counters, history
<1>1. ASSUME NEW p \in Procs, PollBegin(p) PROVE OnePoll'
  <2>1. flow' = "pending" /\ job' = [job EXCEPT ![p] = "poll"] /\ \A q \in Procs : ~Polling(q)
    BY <1>1 DEF PollBegin, Begins, WorthPolling
  <2> QED BY <2>1 DEF Placed, OnePoll, Polling
<1>2. ASSUME NEW p \in Procs, EndFlow(p) PROVE OnePoll'
  <2>1. at[p] \in {"authorized", "declined", "expired", "error"}
        /\ job' = [job EXCEPT ![p] = "none"] /\ flowRaced' = flowRaced
    BY <1>2 DEF EndFlow, Returns
  <2>2. Polling(p)
    BY <2>1 DEF Placed, PlaceFits, Polling
  <2> QED BY <2>1, <2>2 DEF Placed, OnePoll, Polling
<1>3. ASSUME NEW p \in Procs, Insert(p) PROVE OnePoll'
  <2>1. at[p] = "insert" /\ job' = [job EXCEPT ![p] = "create"] /\ UNCHANGED <<flow, flowRaced>>
    BY <1>3 DEF Insert
  <2>2. Polling(p)
    BY <2>1 DEF Placed, PlaceFits, Polling
  <2> QED BY <2>1, <2>2 DEF Placed, OnePoll, Polling
<1>4. CASE Cancel
  BY <1>4 DEF Cancel, OnePoll, Polling
<1>5. ASSUME UNCHANGED <<flow, flowRaced>>, \A q \in Procs : Polling(q)' => Polling(q)
      PROVE  OnePoll'
  BY <1>5 DEF OnePoll, Polling
<1>6. ASSUME NEW p \in Procs,
             \/ Redeem(p) \/ Refused(p) \/ AskFails(p) \/ PollLater(p) \/ InsertFails(p)
             \/ CallStep(p) \/ UpdateRead(p) \/ UpdateWrite(p)
      PROVE  OnePoll'
  <2>1. UNCHANGED <<flow, flowRaced>>
    BY <1>6 DEF Redeem, Refused, AskFails, PollLater, InsertFails, CallStep, Use, Test, Load,
                Fresh, Refresh, RefreshRefused, RefreshFails, Save, SaveFails, Answered, Leave,
                Mark, GetCreated, UpdateRead, UpdateWrite
  <2>2. PICK what \in {job[p], "none", "use", "test", "update"} :
          job' = [job EXCEPT ![p] = what]
    <3>1. CASE Redeem(p) \/ Refused(p) \/ AskFails(p) \/ PollLater(p) \/ InsertFails(p)
      BY <3>1 DEF Redeem, Refused, AskFails, PollLater, InsertFails, Returns, Placed
    <3>2. CASE CallStep(p)
      BY <3>2 DEF CallStep, Use, Test, Load, Fresh, Refresh, RefreshRefused, RefreshFails,
                  CallFails, Save, SaveFails, Answered, Leave, Mark, GetCreated, Begins, Returns,
                  Placed
    <3>3. CASE UpdateRead(p) \/ UpdateWrite(p)
      BY <3>3 DEF UpdateRead, UpdateWrite, Begins
    <3> QED BY <1>6, <3>1, <3>2, <3>3
  <2>3. \A q \in Procs : Polling(q)' => Polling(q)
    BY <2>2 DEF Placed, Polling
  <2> QED BY <1>5, <2>1, <2>3
<1>7. CASE Delete \/ TokenTime \/ UserDecides \/ Crash \/ UNCHANGED vars
  BY <1>5, <1>7 DEF Delete, TokenTime, UserDecides, Crash, vars, Polling
<1> QED BY <1>1, <1>2, <1>3, <1>4, <1>6, <1>7 DEF Next, FlowStep

FlowInv == Placed /\ OnePoll

THEOREM FlowInvariant == Spec => []FlowInv
<1>1. Init => FlowInv
  BY DEF Init, FlowInv, Placed, PlaceFits, OnePoll, Polling
<1>2. FlowInv /\ [Next]_vars => FlowInv'
  BY PlacedInductive, OnePollInductive DEF FlowInv
<1> QED BY <1>1, <1>2, PTL DEF Spec

\* What ended a device flow is not overwritten, unless calls overlapped on it
\* (GetBaiduDeviceFlow, CancelBaiduDeviceFlow).
LEMMA EndsOnce ==
  FlowInv /\ [Next]_vars => (flow # "pending" /\ ~flowRaced' => flow' = flow)
<1> SUFFICES ASSUME FlowInv, [Next]_vars, flow # "pending", ~flowRaced' PROVE flow' = flow
  OBVIOUS
<1> USE DEF row, server, callers, counters, history
<1>1. ASSUME NEW p \in Procs PROVE ~EndFlow(p)
  <2>1. SUFFICES ASSUME EndFlow(p) PROVE FALSE
    OBVIOUS
  <2>2. at[p] \in {"authorized", "declined", "expired", "error"} /\ flowRaced' = flowRaced
    BY <2>1 DEF EndFlow
  <2>3. Polling(p)
    BY <2>2 DEF FlowInv, Placed, PlaceFits, Polling
  <2> QED BY <2>2, <2>3 DEF FlowInv, OnePoll
<1>2. ASSUME NEW p \in Procs, FlowStep(p) PROVE flow' = flow
  BY <1>1, <1>2 DEF FlowStep, PollBegin, Redeem, Refused, AskFails, PollLater, Insert, InsertFails
<1>3. ASSUME NEW p \in Procs, CallStep(p) PROVE flow' = flow
  BY <1>3 DEF CallStep, Use, Test, Load, Fresh, Refresh, RefreshRefused, RefreshFails, Save,
              SaveFails, Answered, Leave, Mark, GetCreated
<1>4. ASSUME NEW p \in Procs, UpdateRead(p) \/ UpdateWrite(p) PROVE flow' = flow
  BY <1>4 DEF UpdateRead, UpdateWrite
<1>5. CASE Cancel \/ Delete \/ TokenTime \/ UserDecides \/ Crash \/ UNCHANGED vars
  BY <1>5 DEF Cancel, Delete, TokenTime, UserDecides, Crash, vars
<1> QED BY <1>2, <1>3, <1>4, <1>5 DEF Next

THEOREM FlowsEndOnce == Spec => FlowEndsOnce
<1>1. FlowInv /\ [Next]_vars => [flow # "pending" /\ ~flowRaced' => flow' = flow]_vars
  BY EndsOnce
<1> QED BY <1>1, FlowInvariant, PTL DEF Spec, FlowEndsOnce

-------------------------------------------------------------------------------
(* The connection a flow creates *)

\* Who is past the INSERT has a connection; the call that creates one ends in
\* an error only after the connection was deleted.
Created ==
  /\ \A p \in Procs : job[p] \notin {"none", "poll"} => status # "none"
  /\ \A p \in Procs : job[p] = "create" /\ at[p] = "error" => removed

FlowTells ==
  ~flowRaced /\ ~lost /\ ~removed =>
    /\ \A p \in Procs : job[p] = "poll" => status = "none"
    /\ (\A p \in Procs : ~Polling(p)) => (flow = "authorized" <=> status # "none")

\* What has happened is not forgotten.
LEMMA HistoryStays ==
  ASSUME [Next]_vars
  PROVE  (removed => removed') /\ (lost => lost') /\ (flowRaced => flowRaced') /\ (raced => raced')
<1> USE DEF row, server, callers, counters, history
<1>1. ASSUME NEW p \in Procs, FlowStep(p) \/ CallStep(p) \/ UpdateRead(p) \/ UpdateWrite(p)
      PROVE  removed' = removed
  BY <1>1 DEF FlowStep, PollBegin, Redeem, Refused, AskFails, PollLater, Insert, InsertFails,
              EndFlow, CallStep, Use, Test, Load, Fresh, Refresh, RefreshRefused, RefreshFails,
              Save, SaveFails, Answered, Leave, Mark, GetCreated, UpdateRead, UpdateWrite
<1>2. ASSUME NEW p \in Procs, FlowStep(p) PROVE raced' = raced
  BY <1>2 DEF FlowStep, PollBegin, Redeem, Refused, AskFails, PollLater, Insert, InsertFails,
              EndFlow
<1>3. ASSUME NEW p \in Procs, FlowStep(p) PROVE (lost => lost') /\ (flowRaced => flowRaced')
  <2>1. CASE PollBegin(p)
    BY <2>1, Zenon DEF PollBegin
  <2>2. CASE AskFails(p) \/ InsertFails(p)
    <3>1. flowRaced' = flowRaced
      BY <2>2 DEF AskFails, InsertFails
    <3>2. UNCHANGED <<grant, lost>> \/ lost' = TRUE
      BY <2>2, Zenon DEF AskFails, InsertFails
    <3> QED BY <3>1, <3>2
  <2>3. CASE Redeem(p) \/ Refused(p) \/ PollLater(p) \/ Insert(p) \/ EndFlow(p)
    BY <2>3 DEF Redeem, Refused, PollLater, Insert, EndFlow
  <2> QED BY <1>3, <2>1, <2>2, <2>3 DEF FlowStep
<1>4. ASSUME NEW p \in Procs, CallStep(p) PROVE flowRaced' = flowRaced
  BY <1>4 DEF CallStep, Use, Test, Load, Fresh, Refresh, RefreshRefused, RefreshFails, Save,
              SaveFails, Answered, Leave, Mark, GetCreated
<1>5. ASSUME NEW p \in Procs, CallStep(p) PROVE (lost => lost') /\ (raced => raced')
  <2>1. CASE RefreshFails(p) \/ SaveFails(p)
    <3>1. raced' = raced
      BY <2>1 DEF RefreshFails, SaveFails
    <3>2. UNCHANGED <<accepts, issued, lost>> \/ lost' = TRUE
      BY <2>1, Zenon DEF RefreshFails, SaveFails
    <3> QED BY <3>1, <3>2
  <2>2. CASE Save(p)
    BY <2>2, Zenon DEF Save, NoteRace
  <2>3. CASE ~(RefreshFails(p) \/ SaveFails(p) \/ Save(p))
    BY <1>5, <2>3 DEF CallStep, Use, Test, Load, Fresh, Refresh, RefreshRefused, Answered, Leave,
                      Mark, GetCreated
  <2> QED BY <2>1, <2>2, <2>3
<1>6. ASSUME NEW p \in Procs, UpdateRead(p) \/ UpdateWrite(p)
      PROVE  (lost => lost') /\ (flowRaced => flowRaced') /\ (raced => raced')
  <2>1. lost' = lost /\ flowRaced' = flowRaced
    BY <1>6 DEF UpdateRead, UpdateWrite
  <2>2. raced => raced'
    <3>1. CASE UpdateRead(p)
      BY <3>1 DEF UpdateRead
    <3>2. CASE UpdateWrite(p)
      <4>1. CASE removed
        BY <3>2, <4>1 DEF UpdateWrite
      <4>2. CASE ~removed
        BY <3>2, <4>2, Zenon DEF UpdateWrite, NoteRace
      <4> QED BY <4>1, <4>2
    <3> QED BY <1>6, <3>1, <3>2
  <2> QED BY <2>1, <2>2
<1>7. CASE Cancel
  BY <1>7, Zenon DEF Cancel
<1>8. CASE Crash
  BY <1>8, Zenon DEF Crash
<1>9. CASE Delete \/ TokenTime \/ UserDecides \/ UNCHANGED vars
  BY <1>9 DEF Delete, TokenTime, UserDecides, vars
<1> QED BY <1>1, <1>2, <1>3, <1>4, <1>5, <1>6, <1>7, <1>8, <1>9 DEF Next

\* Only the INSERT of Manager.Create brings a connection into being, and no
\* step takes its row away.
LEMMA CallKeepsStatus ==
  ASSUME Placed, Created, NEW p \in Procs, CallStep(p) \/ UpdateRead(p) \/ UpdateWrite(p)
  PROVE  status' # "none" <=> status # "none"
<1> USE DEF row, server, callers, counters, history
<1>1. CASE Save(p) \/ Mark(p)
  <2>1. at[p] \in {"save", "mark", "broken", "load"} /\ status' # "none"
    BY <1>1 DEF Save, Mark
  <2> QED BY <2>1 DEF Placed, PlaceFits, Created
<1>2. CASE CallStep(p) /\ ~Save(p) /\ ~Mark(p)
  BY <1>2 DEF CallStep, Use, Test, Load, Fresh, Refresh, RefreshRefused, RefreshFails, SaveFails,
              Answered, Leave, GetCreated
<1>3. CASE UpdateRead(p) \/ UpdateWrite(p)
  <2>1. UpdateWrite(p) => status # "none"
    BY DEF UpdateWrite, Placed, PlaceFits, Created
  <2> QED BY <1>3, <2>1 DEF UpdateRead, UpdateWrite, NotTestedYet
<1> QED BY <1>1, <1>2, <1>3

LEMMA StatusStays ==
  ASSUME Placed, Created, [Next]_vars, status # "none" PROVE status' # "none"
<1> USE DEF row, server, callers, counters, history
<1>1. ASSUME NEW p \in Procs, FlowStep(p) PROVE status' # "none"
  BY <1>1 DEF FlowStep, PollBegin, Redeem, Refused, AskFails, PollLater, Insert, InsertFails,
              EndFlow
<1>2. CASE Cancel \/ Delete \/ TokenTime \/ UserDecides \/ Crash \/ UNCHANGED vars
  BY <1>2 DEF Cancel, Delete, TokenTime, UserDecides, Crash, vars
<1> QED BY <1>1, <1>2, CallKeepsStatus DEF Next

LEMMA CreatedInductive == Placed /\ Created /\ [Next]_vars => Created'
<1> SUFFICES ASSUME Placed, Created, [Next]_vars PROVE Created'
  OBVIOUS
<1> USE DEF row, server, callers, counters, history
<1>1. (status # "none" => status' # "none") /\ (removed => removed')
  BY StatusStays, HistoryStays
<1>2. ASSUME NEW p \in Procs, NEW what, NEW place,
             at' = [at EXCEPT ![p] = place], job' = [job EXCEPT ![p] = what],
             what \notin {"none", "poll"} => status' # "none",
             what = "create" /\ place = "error" => removed'
      PROVE  Created'
  BY <1>1, <1>2 DEF Placed, Created
<1>3. ASSUME NEW p \in Procs, FlowStep(p) PROVE Created'
  <2>1. CASE PollBegin(p) \/ PollLater(p) \/ EndFlow(p)
    BY <1>2, <2>1 DEF PollBegin, PollLater, EndFlow, Begins, Returns, Goto
  <2>2. CASE Redeem(p) \/ Refused(p) \/ AskFails(p) \/ InsertFails(p)
    <3>1. at[p] \in {"ask", "insert"} /\ job' = [job EXCEPT ![p] = job[p]]
      BY <2>2 DEF Redeem, Refused, AskFails, InsertFails, Placed
    <3>2. job[p] = "poll"
      BY <3>1 DEF Placed, PlaceFits
    <3>3. PICK place : Goto(p, place)
      BY <2>2 DEF Redeem, Refused, AskFails, InsertFails
    <3> QED BY <1>2, <3>1, <3>2, <3>3 DEF Goto
  <2>3. CASE Insert(p)
    BY <1>2, <2>3 DEF Insert, Goto
  <2> QED BY <1>3, <2>1, <2>2, <2>3 DEF FlowStep
<1>4. ASSUME NEW p \in Procs, CallStep(p) PROVE Created'
  <2>1. CASE Use(p) \/ Test(p) \/ Leave(p)
    BY <1>1, <1>2, <2>1 DEF Use, Test, Leave, Begins, Returns, Goto
  <2>2. CASE ~(Use(p) \/ Test(p) \/ Leave(p))
    <3>1. job' = [job EXCEPT ![p] = job[p]] /\ at[p] \notin {"idle", "leave"}
      BY <1>4, <2>2 DEF CallStep, Load, Fresh, Refresh, RefreshRefused, RefreshFails, MustRefresh,
                        CallFails, Save, SaveFails, Answered, Mark, GetCreated, Placed, Leave
    <3>2. \E place : Goto(p, place) /\ (place = "error" => removed)
      BY <1>4, <2>2 DEF CallStep, Load, Fresh, Refresh, RefreshRefused, RefreshFails,
                        CallFails, Save, SaveFails, Answered, Mark, AfterTest, GetCreated, Goto
    <3>3. job[p] \notin {"none", "poll"} => status # "none"
      BY DEF Created
    <3> QED BY <1>1, <1>2, <3>1, <3>2, <3>3 DEF Goto
  <2> QED BY <2>1, <2>2
<1>5. ASSUME NEW p \in Procs, UpdateRead(p) \/ UpdateWrite(p) PROVE Created'
  <2>1. UpdateWrite(p) => status # "none"
    BY DEF UpdateWrite, Placed, PlaceFits, Created
  <2> QED BY <1>1, <1>2, <1>5, <2>1 DEF UpdateRead, UpdateWrite, Begins, Goto
<1>6. CASE Cancel \/ Delete \/ TokenTime \/ UserDecides \/ UNCHANGED vars
  BY <1>1, <1>6 DEF Cancel, Delete, TokenTime, UserDecides, vars, Created
<1>7. CASE Crash
  BY <1>7 DEF Crash, Created
<1> QED BY <1>3, <1>4, <1>5, <1>6, <1>7 DEF Next

\* A flow and its connection are created and end together.
LEMMA FlowTellsInductive ==
  FlowInv /\ Created /\ FlowTells /\ [Next]_vars => FlowTells'
<1> SUFFICES ASSUME FlowInv, Created, FlowTells, [Next]_vars, ~flowRaced', ~lost', ~removed'
             PROVE  FlowTells'
  BY DEF FlowTells
<1> USE DEF row, server, callers, counters, history
<1>1. ~flowRaced /\ ~lost /\ ~removed
  BY HistoryStays
<1>2. /\ \A p \in Procs : job[p] = "poll" => status = "none"
      /\ (\A p \in Procs : ~Polling(p)) => (flow = "authorized" <=> status # "none")
  BY <1>1 DEF FlowTells
<1>3. \A p \in Procs : Polling(p) => flow = "pending" /\ \A q \in Procs : Polling(q) => q = p
  BY <1>1 DEF FlowInv, OnePoll
<1>4. ASSUME status' # "none" <=> status # "none", flow' = flow,
             \A p \in Procs : (job[p] = "poll" <=> job'[p] = "poll")
                              /\ (job[p] = "create" <=> job'[p] = "create")
      PROVE  FlowTells'
  BY <1>2, <1>4 DEF FlowTells, Polling
<1>5. ASSUME NEW p \in Procs, FlowStep(p) PROVE FlowTells'
  <2>1. CASE PollBegin(p)
    <3>1. /\ flow = "pending" /\ UNCHANGED <<flow, status>> /\ job' = [job EXCEPT ![p] = "poll"]
          /\ \A q \in Procs : ~Polling(q)
      BY <2>1 DEF PollBegin, Begins, WorthPolling
    <3>2. job'[p] = "poll"
      BY <3>1 DEF FlowInv, Placed
    <3> QED BY <1>2, <3>1, <3>2 DEF FlowTells, Polling
  <2>2. CASE Redeem(p) \/ Refused(p) \/ AskFails(p) \/ InsertFails(p)
    BY <1>4, <2>2 DEF Redeem, Refused, AskFails, InsertFails
  <2>3. CASE PollLater(p)
    <3>1. Polling(p) /\ job[p] = "poll" /\ UNCHANGED <<flow, status>>
          /\ job' = [job EXCEPT ![p] = "none"]
      BY <2>3 DEF PollLater, Returns, FlowInv, Placed, PlaceFits, Polling
    <3> QED BY <1>2, <1>3, <3>1 DEF FlowTells, Polling, FlowInv, Placed
  <2>4. CASE Insert(p)
    <3>1. Polling(p) /\ status' # "none" /\ job' = [job EXCEPT ![p] = "create"]
      BY <2>4 DEF Insert, FlowInv, Placed, PlaceFits, Polling
    <3>2. \A q \in Procs : job'[q] # "poll"
      BY <1>3, <3>1 DEF Polling, FlowInv, Placed
    <3>3. Polling(p)'
      BY <3>1 DEF Polling, FlowInv, Placed
    <3> QED BY <3>2, <3>3 DEF FlowTells
  <2>5. CASE EndFlow(p)
    <3>1. /\ at[p] \in {"authorized", "declined", "expired", "error"}
          /\ flow' = at[p] /\ status' = status /\ job' = [job EXCEPT ![p] = "none"]
      BY <2>5 DEF EndFlow, Returns
    <3>2. Polling(p) /\ \A q \in Procs : job'[q] # "poll"
      BY <1>3, <3>1 DEF Polling, FlowInv, Placed, PlaceFits
    <3>3. flow' = "authorized" <=> status' # "none"
      <4>1. CASE job[p] = "poll"
        BY <1>2, <3>1, <4>1 DEF FlowInv, Placed, PlaceFits
      <4>2. CASE job[p] = "create"
        BY <1>1, <3>1, <4>2 DEF FlowInv, Placed, PlaceFits, Created
      <4> QED BY <3>2, <4>1, <4>2 DEF Polling
    <3> QED BY <3>2, <3>3 DEF FlowTells
  <2> QED BY <1>5, <2>1, <2>2, <2>3, <2>4, <2>5 DEF FlowStep
<1>6. ASSUME NEW p \in Procs, CallStep(p) \/ UpdateRead(p) \/ UpdateWrite(p) PROVE FlowTells'
  <2>1. (status' # "none" <=> status # "none") /\ flow' = flow
    <3>1. flow' = flow
      BY <1>6 DEF CallStep, Use, Test, Load, Fresh, Refresh, RefreshRefused, RefreshFails, Save,
                  SaveFails, Answered, Leave, Mark, GetCreated, UpdateRead, UpdateWrite
    <3> QED BY <1>6, <3>1, CallKeepsStatus DEF FlowInv
  <2>2. \/ job' = job
        \/ /\ at[p] \in {"idle", "leave", "load", "merged"}
           /\ \E what \in {"none", "use", "test", "update"} : job' = [job EXCEPT ![p] = what]
           /\ at[p] = "load" => job[p] = "use"
    BY <1>6 DEF CallStep, Use, Test, Load, Fresh, Refresh, RefreshRefused, RefreshFails, CallFails,
                Save, SaveFails, Answered, Leave, Mark, GetCreated, UpdateRead, UpdateWrite,
                Begins, Returns
  <2>3. \A q \in Procs : (job[q] = "poll" <=> job'[q] = "poll")
                         /\ (job[q] = "create" <=> job'[q] = "create")
    BY <2>2 DEF FlowInv, Placed, PlaceFits
  <2> QED BY <1>4, <2>1, <2>3
<1>7. CASE Cancel
  BY <1>2, <1>3, <1>7 DEF Cancel, FlowTells, Polling
<1>8. CASE Delete \/ TokenTime \/ UserDecides \/ UNCHANGED vars
  BY <1>4, <1>8 DEF Delete, TokenTime, UserDecides, vars
<1>9. CASE Crash
  BY <1>1, <1>2, <1>9 DEF Crash, FlowTells, Polling
<1> QED BY <1>5, <1>6, <1>7, <1>8, <1>9 DEF Next

-------------------------------------------------------------------------------
(* The secret of the connection *)

SecretTypes ==
  /\ secret \in Secret /\ copy \in [Procs -> Secret]
  /\ chosen \in Nat /\ accepts \in Nat /\ issued \in Nat

\* What the two changes of a secret do to its parts.
LEMMA MergedIs ==
  ASSUME NEW old \in Secret, NEW k \in Nat
  PROVE  Merged(old, k) \in Secret /\ Merged(old, k).keys = k /\ Merged(old, k).refresh = old.refresh
  BY DEF Merged, Secret

LEMMA RefreshedIs ==
  ASSUME NEW old \in Secret, NEW n \in Nat, NEW rotated \in BOOLEAN
  PROVE  /\ Refreshed(old, n, rotated) \in Secret
         /\ Refreshed(old, n, rotated).keys = old.keys
         /\ Refreshed(old, n, rotated).refresh = IF rotated THEN n ELSE old.refresh
<1> DEFINE new == IF rotated THEN n ELSE old.refresh
           half == [old EXCEPT !.access = n]
<1>1. half \in Secret /\ half.keys = old.keys /\ half.refresh = old.refresh /\ new \in Nat
  BY DEF Secret
<1>2. Refreshed(old, n, rotated) = [half EXCEPT !.refresh = new]
  BY Zenon DEF Refreshed
<1> HIDE DEF half, new
<1>3. [half EXCEPT !.refresh = new] \in Secret /\ [half EXCEPT !.refresh = new].keys = half.keys
      /\ [half EXCEPT !.refresh = new].refresh = new
  BY <1>1 DEF Secret
<1> QED BY <1>1, <1>2, <1>3 DEF new

LEMMA TypesInductive == SecretTypes /\ [Next]_vars => SecretTypes'
<1> SUFFICES ASSUME SecretTypes, [Next]_vars PROVE SecretTypes'
  OBVIOUS
<1> USE DEF row, server, callers, counters, history
<1>1. Nothing \in Secret
  BY DEF Nothing, Secret
<1>2. ASSUME NEW p \in Procs, FlowStep(p) PROVE SecretTypes'
  <2>1. CASE Redeem(p)
    <3>1. issued' \in Nat /\ [keys |-> 1, access |-> issued', refresh |-> issued'] \in Secret
      BY <2>1 DEF Redeem, SecretTypes, Secret
    <3> QED BY <2>1, <3>1 DEF Redeem, SecretTypes
  <2>2. CASE Insert(p) \/ PollLater(p) \/ EndFlow(p)
    BY <1>1, <2>2 DEF Insert, PollLater, EndFlow, Returns, SecretTypes
  <2>3. CASE PollBegin(p) \/ Refused(p) \/ AskFails(p) \/ InsertFails(p)
    BY <2>3 DEF PollBegin, Refused, AskFails, InsertFails, SecretTypes
  <2> QED BY <1>2, <2>1, <2>2, <2>3 DEF FlowStep
<1>3. ASSUME NEW p \in Procs, CallStep(p) PROVE SecretTypes'
  <2>1. CASE Refresh(p)
    <3>1. PICK rotated \in BOOLEAN :
            /\ accepts' = IF rotated THEN issued' ELSE accepts
            /\ copy' = [copy EXCEPT ![p] = Refreshed(copy[p], issued', rotated)]
      BY <2>1 DEF Refresh
    <3>2. issued' \in Nat
      BY <2>1 DEF Refresh, SecretTypes
    <3>3. Refreshed(copy[p], issued', rotated) \in Secret
      BY <3>2, RefreshedIs DEF SecretTypes
    <3> QED BY <2>1, <3>1, <3>2, <3>3 DEF Refresh, SecretTypes
  <2>2. CASE Load(p) \/ Leave(p) \/ Save(p)
    BY <1>1, <2>2 DEF Load, Leave, Save, Returns, SecretTypes
  <2>3. CASE RefreshFails(p)
    BY <2>3 DEF RefreshFails, CallFails, SecretTypes
  <2>4. CASE ~(Refresh(p) \/ Load(p) \/ Leave(p) \/ Save(p) \/ RefreshFails(p))
    BY <1>3, <2>4 DEF CallStep, Use, Test, Fresh, RefreshRefused, CallFails, SaveFails, Answered,
                      Mark, GetCreated, SecretTypes
  <2> QED BY <2>1, <2>2, <2>3, <2>4
<1>4. ASSUME NEW p \in Procs, UpdateRead(p) PROVE SecretTypes'
  <2>1. Merged(secret, chosen + 1) \in Secret
    BY MergedIs DEF SecretTypes
  <2> QED BY <1>4, <2>1 DEF UpdateRead, SecretTypes
<1>5. ASSUME NEW p \in Procs, UpdateWrite(p) PROVE SecretTypes'
  BY <1>1, <1>5 DEF UpdateWrite, SecretTypes
<1>6. CASE Crash
  BY <1>1, <1>6 DEF Crash, SecretTypes
<1>7. CASE Cancel \/ Delete \/ TokenTime \/ UserDecides \/ UNCHANGED vars
  BY <1>7 DEF Cancel, Delete, TokenTime, UserDecides, vars, SecretTypes
<1> QED BY <1>2, <1>3, <1>4, <1>5, <1>6, <1>7 DEF Next

\* A device code is redeemed once, and so is a connection inserted.
OneInsert ==
  /\ grant # "redeemed" => status = "none"
  /\ status = "none" => chosen = 1
  /\ \A p \in Procs : at[p] = "insert" =>
       /\ grant = "redeemed" /\ status = "none"
       /\ copy[p].keys = 1 /\ copy[p].refresh = accepts
       /\ \A q \in Procs : at[q] = "insert" => q = p

\* Whoever goes by a secret has a connection.
LEMMA HoldersAreConnected ==
  ASSUME Placed, Created, NEW p \in Procs,
         Holding(p) \/ at[p] \in {"load", "get", "leave", "authorized"}
  PROVE  status # "none"
  BY DEF Placed, PlaceFits, Created, Holding

LEMMA OneInsertInductive ==
  Placed /\ Created /\ SecretTypes /\ OneInsert /\ [Next]_vars => OneInsert'
<1> SUFFICES ASSUME Placed, Created, SecretTypes, OneInsert, [Next]_vars PROVE OneInsert'
  OBVIOUS
<1> USE DEF row, server, callers, counters, history
<1>1. ASSUME UNCHANGED <<grant, accepts, chosen>>, status' = "none" <=> status = "none",
             NEW p \in Procs, NEW place, Goto(p, place), place # "insert",
             \A q \in Procs \ {p} : copy'[q] = copy[q]
      PROVE  OneInsert'
  <2>1. \A q \in Procs : at'[q] = "insert" => at[q] = "insert" /\ q # p
    BY <1>1 DEF Goto, Placed
  <2>2. \A q \in Procs : at'[q] = "insert" => copy'[q] = copy[q]
    BY <1>1, <2>1
  <2> QED BY <1>1, <2>1, <2>2 DEF OneInsert
<1>2. ASSUME NEW p \in Procs, FlowStep(p) PROVE OneInsert'
  <2>1. CASE Redeem(p)
    <3>1. /\ grant = "granted" /\ grant' = "redeemed" /\ accepts' = issued'
          /\ UNCHANGED <<status, chosen>> /\ Goto(p, "insert")
          /\ copy' = [copy EXCEPT ![p] = [keys |-> 1, access |-> issued', refresh |-> issued']]
      BY <2>1 DEF Redeem
    <3>2. \A q \in Procs : at'[q] = "insert" => q = p
      BY <3>1 DEF OneInsert, Goto, Placed
    <3>3. copy'[p].keys = 1 /\ copy'[p].refresh = accepts'
      BY <3>1 DEF SecretTypes
    <3> QED BY <3>1, <3>2, <3>3 DEF OneInsert
  <2>2. CASE Insert(p)
    <3>1. at[p] = "insert" /\ status' # "none" /\ UNCHANGED <<grant, chosen>> /\ Goto(p, "load")
      BY <2>2 DEF Insert
    <3>2. \A q \in Procs : at'[q] # "insert"
      BY <3>1 DEF OneInsert, Goto, Placed
    <3> QED BY <3>1, <3>2 DEF OneInsert
  <2>3. CASE AskFails(p)
    <3>1. /\ Goto(p, "error") /\ (grant' = grant \/ grant' = "redeemed")
          /\ UNCHANGED <<status, chosen, copy, accepts>>
      BY <2>3 DEF AskFails
    <3>2. \A q \in Procs : at'[q] = "insert" => at[q] = "insert"
      BY <3>1 DEF Goto, Placed
    <3> QED BY <3>1, <3>2 DEF OneInsert
  <2>4. CASE PollBegin(p) \/ Refused(p) \/ InsertFails(p)
    <3>1. /\ UNCHANGED <<grant, accepts, chosen, status, copy>>
          /\ \E place : Goto(p, place) /\ place # "insert"
      BY <2>4 DEF PollBegin, Refused, InsertFails, Begins, Placed
    <3> QED BY <1>1, <3>1
  <2>5. CASE PollLater(p) \/ EndFlow(p)
    <3>1. UNCHANGED <<grant, accepts, chosen, status>> /\ Goto(p, "idle")
          /\ copy' = [copy EXCEPT ![p] = Nothing]
      BY <2>5 DEF PollLater, EndFlow, Returns
    <3> QED BY <1>1, <3>1 DEF SecretTypes
  <2> QED BY <1>2, <2>1, <2>2, <2>3, <2>4, <2>5 DEF FlowStep
<1>3. ASSUME NEW p \in Procs, CallStep(p) \/ UpdateRead(p) PROVE OneInsert'
  <2>1. UNCHANGED <<grant, chosen>>
    BY <1>3 DEF CallStep, Use, Test, Load, Fresh, Refresh, RefreshRefused, RefreshFails, Save,
                SaveFails, Answered, Leave, Mark, GetCreated, UpdateRead
  <2>2. status' = "none" <=> status = "none"
    BY <1>3, CallKeepsStatus
  <2>3. \E place : Goto(p, place) /\ place # "insert"
    BY <1>3 DEF CallStep, Use, Test, Load, Fresh, Refresh, RefreshRefused, RefreshFails, CallFails,
                Save, SaveFails, Answered, Leave, Mark, AfterTest, GetCreated, UpdateRead, Begins,
                Returns, Goto
  <2>4. \A q \in Procs \ {p} : copy'[q] = copy[q]
    BY <1>3 DEF CallStep, Use, Test, Load, Fresh, Refresh, RefreshRefused, RefreshFails, CallFails,
                Save, SaveFails, Answered, Leave, Mark, GetCreated, UpdateRead, Returns, SecretTypes
  <2>5. CASE accepts' = accepts
    BY <1>1, <2>1, <2>2, <2>3, <2>4, <2>5
  <2>6. CASE accepts' # accepts
    <3>1. at[p] = "token"
      BY <1>3, <2>6 DEF CallStep, Use, Test, Load, Fresh, Refresh, RefreshRefused, RefreshFails,
                        MustRefresh, Save, SaveFails, Answered, Leave, Mark, GetCreated, UpdateRead
    <3>2. status # "none"
      BY <3>1, HoldersAreConnected DEF Holding
    <3>3. \A q \in Procs : at'[q] # "insert"
      BY <2>3, <3>2 DEF Goto, Placed, OneInsert
    <3> QED BY <2>1, <2>2, <3>2, <3>3 DEF OneInsert
  <2> QED BY <2>5, <2>6
<1>4. ASSUME NEW p \in Procs, UpdateWrite(p) PROVE OneInsert'
  <2>1. status # "none" /\ status' # "none" /\ grant' = grant /\ Goto(p, "load")
    BY <1>4, HoldersAreConnected, CallKeepsStatus DEF UpdateWrite, Holding
  <2>2. \A q \in Procs : at'[q] # "insert"
    BY <2>1 DEF Goto, Placed, OneInsert
  <2> QED BY <2>1, <2>2 DEF OneInsert
<1>5. CASE Cancel \/ Delete \/ TokenTime \/ UserDecides \/ UNCHANGED vars
  BY <1>5 DEF Cancel, Delete, TokenTime, UserDecides, vars, OneInsert
<1>6. CASE Crash
  BY <1>6 DEF Crash, OneInsert
<1> QED BY <1>2, <1>3, <1>4, <1>5, <1>6 DEF Next

\* The keys that go with the stored ones: a writer alone on the secret holds
\* the keys set last, or the ones it is about to set.
KeysKept ==
  ~raced /\ status # "none" =>
    /\ secret.keys = chosen
    /\ \A p \in Procs : Holding(p) =>
         copy[p].keys = IF at[p] = "merged" THEN chosen + 1 ELSE chosen

SecretBase == Placed /\ Created /\ SecretTypes /\ OneInsert

\* The steps that write neither the secret nor the history, and give no caller
\* a secret it had not.
LEMMA KeysUntouched ==
  ASSUME SecretBase, KeysKept, UNCHANGED <<secret, chosen>>, status' # "none" => status # "none",
         raced => raced',
         \A p \in Procs : Holding(p)' =>
           /\ Holding(p) /\ copy'[p].keys = copy[p].keys
           /\ at'[p] = "merged" <=> at[p] = "merged"
  PROVE  KeysKept'
  BY DEF KeysKept, Holding

LEMMA KeysInductive == SecretBase /\ KeysKept /\ [Next]_vars => KeysKept'
<1> SUFFICES ASSUME SecretBase, KeysKept, [Next]_vars, ~raced', status' # "none" PROVE KeysKept'
  BY DEF KeysKept
<1> USE DEF row, server, callers, counters, history
<1>1. ~raced
  BY HistoryStays
<1>2. ASSUME NEW p \in Procs, Insert(p) PROVE KeysKept'
  <2>1. /\ at[p] = "insert" /\ secret' = copy[p] /\ chosen' = chosen /\ Goto(p, "load")
        /\ status = "none" /\ copy[p].keys = 1 /\ chosen = 1
    BY <1>2 DEF Insert, SecretBase, OneInsert
  <2>2. \A q \in Procs : ~Holding(q)
    BY <2>1, HoldersAreConnected DEF SecretBase
  <2>3. \A q \in Procs : ~Holding(q)'
    BY <2>1, <2>2 DEF Holding, Goto, SecretBase, Placed
  <2> QED BY <2>1, <2>3 DEF KeysKept
<1>3. ASSUME NEW p \in Procs, FlowStep(p), ~Insert(p) PROVE KeysKept'
  <2>1. UNCHANGED <<secret, chosen, status, raced>>
    BY <1>3 DEF FlowStep, PollBegin, Redeem, Refused, AskFails, PollLater, InsertFails, EndFlow
  <2>2. \E place : Goto(p, place) /\ place \notin {"merged", "token", "save", "call", "mark", "broken"}
    BY <1>3 DEF FlowStep, PollBegin, Redeem, Refused, AskFails, PollLater, InsertFails, EndFlow,
                Begins, Returns, SecretBase, Placed
  <2>3. \A q \in Procs \ {p} : copy'[q] = copy[q]
    BY <1>3 DEF FlowStep, PollBegin, Redeem, Refused, AskFails, PollLater, InsertFails, EndFlow,
                Returns, SecretBase, SecretTypes
  <2> QED BY <2>1, <2>2, <2>3, KeysUntouched DEF Holding, Goto, SecretBase, Placed
<1>4. ASSUME NEW p \in Procs, CallStep(p) PROVE KeysKept'
  <2>1. status # "none" /\ chosen' = chosen
    BY <1>4, CallKeepsStatus DEF SecretBase, CallStep, Use, Test, Load, Fresh, Refresh,
         RefreshRefused, RefreshFails, Save, SaveFails, Answered, Leave, Mark, GetCreated
  <2>2. secret.keys = chosen /\ \A q \in Procs : Holding(q) =>
          copy[q].keys = IF at[q] = "merged" THEN chosen + 1 ELSE chosen
    BY <1>1, <2>1 DEF KeysKept
  <2>3. CASE Load(p)
    <3>1. secret' = secret /\ Goto(p, "token") /\ copy' = [copy EXCEPT ![p] = secret]
      BY <2>3 DEF Load
    <3> QED BY <2>1, <2>2, <3>1 DEF KeysKept, Holding, Goto, SecretBase, Placed, SecretTypes
  <2>4. CASE Refresh(p)
    <3>1. PICK rotated \in BOOLEAN :
            copy' = [copy EXCEPT ![p] = Refreshed(copy[p], issued', rotated)]
      BY <2>4 DEF Refresh
    <3>2. issued' \in Nat /\ secret' = secret /\ Goto(p, "save") /\ at[p] = "token"
      BY <2>4 DEF Refresh, MustRefresh, SecretBase, SecretTypes
    <3>3. copy'[p].keys = copy[p].keys
      BY <3>1, <3>2, RefreshedIs DEF SecretBase, SecretTypes
    <3> QED BY <2>1, <2>2, <3>1, <3>2, <3>3
            DEF KeysKept, Holding, Goto, SecretBase, Placed, SecretTypes
  <2>5. CASE Save(p)
    <3>1. at[p] = "save" /\ secret' = copy[p] /\ Goto(p, "call") /\ copy' = copy
      BY <2>5 DEF Save
    <3> QED BY <2>1, <2>2, <3>1 DEF KeysKept, Holding, Goto, SecretBase, Placed
  <2>6. CASE ~(Load(p) \/ Refresh(p) \/ Save(p))
    <3>1. UNCHANGED secret /\ (copy' = copy \/ Returns(p))
      BY <1>4, <2>6 DEF CallStep, Use, Test, Fresh, RefreshRefused, RefreshFails, CallFails,
                        SaveFails, Answered, Leave, Mark, GetCreated
    <3>2. \E place : /\ Goto(p, place) /\ place # "merged"
                     /\ \/ Holding(p) /\ at[p] # "merged"
                        \/ place \notin {"token", "save", "call", "mark", "broken"}
      BY <1>4, <2>6 DEF CallStep, Use, Test, Fresh, RefreshRefused, RefreshFails, CallFails,
                        MustRefresh, SaveFails, Answered, Leave, Mark, AfterTest, GetCreated,
                        Begins, Returns, Goto, Holding
    <3>3. \A q \in Procs : Holding(q)' =>
            /\ Holding(q) /\ copy'[q].keys = copy[q].keys
            /\ (at'[q] = "merged" <=> at[q] = "merged")
      BY <3>1, <3>2 DEF Returns, Holding, Goto, SecretBase, Placed, SecretTypes
    <3> QED BY <1>1, <2>1, <3>1, <3>3, KeysUntouched
  <2> QED BY <2>3, <2>4, <2>5, <2>6
<1>5. ASSUME NEW p \in Procs, UpdateRead(p) PROVE KeysKept'
  <2>1. /\ status # "none" /\ UNCHANGED <<secret, chosen>> /\ Goto(p, "merged")
        /\ copy' = [copy EXCEPT ![p] = Merged(secret, chosen + 1)]
    BY <1>5 DEF UpdateRead, Begins
  <2>2. Merged(secret, chosen + 1).keys = chosen + 1
    BY MergedIs DEF SecretBase, SecretTypes
  <2> QED BY <1>1, <2>1, <2>2 DEF KeysKept, Holding, Goto, SecretBase, Placed, SecretTypes
<1>6. ASSUME NEW p \in Procs, UpdateWrite(p) PROVE KeysKept'
  <2>1. /\ status # "none" /\ at[p] = "merged" /\ Goto(p, "load")
        /\ copy' = [copy EXCEPT ![p] = Nothing]
    BY <1>6, HoldersAreConnected DEF UpdateWrite, Holding, SecretBase
  <2>2. CASE removed
    <3>1. UNCHANGED <<secret, chosen>>
      BY <1>6, <2>2 DEF UpdateWrite
    <3> QED BY <1>1, <2>1, <3>1 DEF KeysKept, Holding, Goto, SecretBase, Placed, SecretTypes
  <2>3. CASE ~removed
    <3>1. secret' = copy[p] /\ chosen' = chosen + 1 /\ NoteRace(p)
      BY <1>6, <2>3 DEF UpdateWrite
    <3>2. \A q \in Procs \ {p} : ~Holding(q)
      BY <3>1, Zenon DEF NoteRace
    <3>3. \A q \in Procs : ~Holding(q)'
      BY <2>1, <3>2 DEF Holding, Goto, SecretBase, Placed
    <3>4. copy[p].keys = chosen + 1
      BY <1>1, <2>1 DEF KeysKept, Holding
    <3> QED BY <3>1, <3>3, <3>4 DEF KeysKept
  <2> QED BY <2>2, <2>3
<1>7. CASE Crash
  BY <1>7, KeysUntouched, HistoryStays DEF Crash, Holding
<1>8. CASE Cancel \/ Delete \/ TokenTime \/ UserDecides \/ UNCHANGED vars
  BY <1>8, KeysUntouched, HistoryStays DEF Cancel, Delete, TokenTime, UserDecides, vars, Holding
<1> QED BY <1>2, <1>3, <1>4, <1>5, <1>6, <1>7, <1>8 DEF Next

LEMMA StatusInductive ==
  SecretBase /\ KeysKept /\ StatusIsOfTheseKeys /\ [Next]_vars => StatusIsOfTheseKeys'
<1> SUFFICES ASSUME SecretBase, KeysKept, StatusIsOfTheseKeys, [Next]_vars, ~raced',
                    status' \in {"ready", "error"}
             PROVE  about' = secret'.keys
  BY DEF StatusIsOfTheseKeys
<1> USE DEF row, server, callers, counters, history
<1>1. ~raced
  BY HistoryStays
<1>2. ASSUME UNCHANGED <<status, about, secret>> PROVE about' = secret'.keys
  BY <1>1, <1>2 DEF StatusIsOfTheseKeys
<1>3. ASSUME NEW p \in Procs, Save(p) \/ Mark(p) PROVE about' = secret'.keys
  <2>1. at[p] \in {"save", "mark", "broken", "load"}
    BY <1>3 DEF Save, Mark
  <2>2. status # "none"
    BY <2>1, HoldersAreConnected DEF SecretBase, Holding
  <2>3. secret.keys = chosen /\ (at[p] # "load" => copy[p].keys = chosen)
    BY <1>1, <2>1, <2>2 DEF KeysKept, Holding
  <2> QED BY <1>3, <2>3 DEF Save, Mark
<1>4. ASSUME NEW p \in Procs, FlowStep(p) PROVE about' = secret'.keys
  BY <1>2, <1>4 DEF FlowStep, PollBegin, Redeem, Refused, AskFails, PollLater, Insert, InsertFails,
                    EndFlow
<1>5. ASSUME NEW p \in Procs, CallStep(p), ~Save(p), ~Mark(p) PROVE about' = secret'.keys
  BY <1>2, <1>5 DEF CallStep, Use, Test, Load, Fresh, Refresh, RefreshRefused, RefreshFails,
                    SaveFails, Answered, Leave, GetCreated
<1>6. ASSUME NEW p \in Procs, UpdateRead(p) \/ UpdateWrite(p) PROVE about' = secret'.keys
  BY <1>2, <1>6 DEF UpdateRead, UpdateWrite, NotTestedYet
<1>7. CASE Cancel \/ Delete \/ TokenTime \/ UserDecides \/ Crash \/ UNCHANGED vars
  BY <1>2, <1>7 DEF Cancel, Delete, TokenTime, UserDecides, Crash, vars
<1> QED BY <1>3, <1>4, <1>5, <1>6, <1>7 DEF Next

\* The refresh token the server accepts: everybody has it, or a caller between
\* its refresh and its UPDATE.
Saving == \E p \in Procs : at[p] = "save"
TokensKept ==
  ~raced /\ ~lost /\ status # "none" =>
    /\ Saving => \E p \in Procs : at[p] = "save" /\ copy[p].refresh = accepts
    /\ ~Saving => /\ secret.refresh = accepts
                  /\ \A p \in Procs : Holding(p) => copy[p].refresh = accepts

\* The steps that touch no token and give no caller a secret it had not.
LEMMA TokensUntouched ==
  ASSUME SecretBase, TokensKept, UNCHANGED <<secret, accepts>>, status' # "none" => status # "none",
         raced => raced', lost => lost',
         \A p \in Procs : Holding(p)' => Holding(p) /\ copy'[p].refresh = copy[p].refresh,
         \A p \in Procs : at'[p] = "save" <=> at[p] = "save"
  PROVE  TokensKept'
<1>1. Saving' <=> Saving
  BY DEF Saving
<1>2. \A p \in Procs : at[p] = "save" => Holding(p)' /\ at'[p] = "save"
  BY DEF Holding
<1> QED BY <1>1, <1>2 DEF TokensKept

LEMMA TokensInductive == SecretBase /\ TokensKept /\ [Next]_vars => TokensKept'
<1> SUFFICES ASSUME SecretBase, TokensKept, [Next]_vars, ~raced', ~lost', status' # "none"
             PROVE  TokensKept'
  BY DEF TokensKept
<1> USE DEF row, server, callers, counters, history
<1>1. ~raced /\ ~lost
  BY HistoryStays
<1>2. ASSUME NEW p \in Procs, Insert(p) PROVE TokensKept'
  <2>1. /\ at[p] = "insert" /\ secret' = copy[p] /\ accepts' = accepts /\ Goto(p, "load")
        /\ status = "none" /\ copy[p].refresh = accepts
    BY <1>2 DEF Insert, SecretBase, OneInsert
  <2>2. \A q \in Procs : ~Holding(q)
    BY <2>1, HoldersAreConnected DEF SecretBase
  <2>3. \A q \in Procs : ~Holding(q)' /\ at'[q] # "save"
    BY <2>1, <2>2 DEF Holding, Goto, SecretBase, Placed
  <2> QED BY <2>1, <2>3 DEF TokensKept, Saving
<1>3. ASSUME NEW p \in Procs, FlowStep(p), ~Insert(p) PROVE TokensKept'
  <2>1. UNCHANGED <<secret, status, raced>>
    BY <1>3 DEF FlowStep, PollBegin, Redeem, Refused, AskFails, PollLater, InsertFails, EndFlow
  <2>2. accepts' = accepts
    <3>1. ~Redeem(p)
      BY <2>1 DEF Redeem, SecretBase, OneInsert
    <3> QED BY <1>3, <3>1 DEF FlowStep, PollBegin, Refused, AskFails, PollLater, InsertFails, EndFlow
  <2>3. \E place : Goto(p, place) /\ place \notin {"merged", "token", "save", "call", "mark", "broken"}
    BY <1>3 DEF FlowStep, PollBegin, Redeem, Refused, AskFails, PollLater, InsertFails, EndFlow,
                Begins, Returns, SecretBase, Placed
  <2>4. at[p] # "save"
    BY <1>3 DEF FlowStep, PollBegin, Redeem, Refused, AskFails, PollLater, InsertFails, EndFlow,
                Begins
  <2>5. \A q \in Procs \ {p} : copy'[q] = copy[q]
    BY <1>3 DEF FlowStep, PollBegin, Redeem, Refused, AskFails, PollLater, InsertFails, EndFlow,
                Returns, SecretBase, SecretTypes
  <2>6. \A q \in Procs : Holding(q)' => Holding(q) /\ copy'[q].refresh = copy[q].refresh
    BY <2>3, <2>5 DEF Holding, Goto, SecretBase, Placed
  <2>7. \A q \in Procs : at'[q] = "save" <=> at[q] = "save"
    BY <2>3, <2>4 DEF Goto, SecretBase, Placed
  <2> QED BY <2>1, <2>2, <2>6, <2>7, TokensUntouched, HistoryStays
<1>4. ASSUME NEW p \in Procs, CallStep(p) PROVE TokensKept'
  <2>1. status # "none"
    BY <1>4, CallKeepsStatus DEF SecretBase
  <2>2. /\ Saving => \E q \in Procs : at[q] = "save" /\ copy[q].refresh = accepts
        /\ ~Saving => /\ secret.refresh = accepts
                      /\ \A q \in Procs : Holding(q) => copy[q].refresh = accepts
    BY <1>1, <2>1 DEF TokensKept
  <2>3. CASE Load(p)
    <3>1. /\ UNCHANGED <<secret, accepts>> /\ Goto(p, "token") /\ copy' = [copy EXCEPT ![p] = secret]
          /\ at[p] = "load"
      BY <2>3 DEF Load
    <3>2. Saving' <=> Saving
      BY <3>1 DEF Saving, Goto, SecretBase, Placed
    <3>3. \A q \in Procs : at[q] = "save" => at'[q] = "save" /\ copy'[q] = copy[q]
      BY <3>1 DEF Goto, SecretBase, Placed, SecretTypes
    <3>4. ~Saving => \A q \in Procs : Holding(q)' => copy'[q].refresh = accepts
      BY <2>2, <3>1 DEF Holding, Goto, SecretBase, Placed, SecretTypes
    <3> QED BY <2>2, <3>1, <3>2, <3>3, <3>4 DEF TokensKept
  <2>4. CASE Refresh(p)
    <3>1. PICK rotated \in BOOLEAN :
            /\ accepts' = IF rotated THEN issued' ELSE accepts
            /\ copy' = [copy EXCEPT ![p] = Refreshed(copy[p], issued', rotated)]
      BY <2>4 DEF Refresh
    <3>2. issued' \in Nat /\ Goto(p, "save") /\ copy[p].refresh = accepts
      BY <2>4 DEF Refresh, SecretBase, SecretTypes
    <3>3. copy'[p].refresh = accepts' /\ at'[p] = "save"
      BY <3>1, <3>2, RefreshedIs DEF SecretBase, SecretTypes, Placed, Goto
    <3> QED BY <3>3 DEF TokensKept, Saving
  <2>5. CASE Save(p)
    <3>1. /\ at[p] = "save" /\ secret' = copy[p] /\ Goto(p, "call")
          /\ UNCHANGED <<copy, accepts>> /\ NoteRace(p)
      BY <2>5 DEF Save
    <3>2. \A q \in Procs \ {p} : ~Holding(q)
      BY <3>1, Zenon DEF NoteRace
    <3>3. copy[p].refresh = accepts
      BY <2>2, <3>1, <3>2 DEF Saving, Holding
    <3>4. \A q \in Procs : at'[q] # "save" /\ (Holding(q)' => q = p)
      BY <3>1, <3>2 DEF Holding, Goto, SecretBase, Placed
    <3> QED BY <3>1, <3>3, <3>4 DEF TokensKept, Saving
  <2>6. CASE RefreshFails(p)
    <3>1. accepts' = accepts
      <4>1. lost' # TRUE
        BY Zenon
      <4> QED BY <2>6, <4>1 DEF RefreshFails
    <3>2. /\ UNCHANGED <<secret, copy>> /\ at[p] = "token"
          /\ Goto(p, IF job[p] = "use" THEN "leave" ELSE "broken")
      BY <2>6 DEF RefreshFails, CallFails, MustRefresh
    <3>3. \A q \in Procs : (Holding(q)' => Holding(q)) /\ (at'[q] = "save" <=> at[q] = "save")
      BY <3>2 DEF Holding, Goto, SecretBase, Placed
    <3> QED BY <2>1, <3>1, <3>2, <3>3, TokensUntouched, HistoryStays
  <2>7. CASE ~(Load(p) \/ Refresh(p) \/ Save(p) \/ RefreshFails(p))
    <3>1. ~SaveFails(p)
      BY Zenon DEF SaveFails
    <3>2. UNCHANGED <<secret, accepts>> /\ (copy' = copy \/ Returns(p)) /\ at[p] # "save"
      BY <1>4, <2>7, <3>1 DEF CallStep, Use, Test, Fresh, RefreshRefused, MustRefresh, CallFails,
                              Answered, Leave, Mark, GetCreated, Begins
    <3>3. \E place : /\ Goto(p, place) /\ place # "save"
                     /\ Holding(p) \/ place \notin {"token", "save", "call", "mark", "broken", "merged"}
      BY <1>4, <2>7, <3>1 DEF CallStep, Use, Test, Fresh, RefreshRefused, CallFails, MustRefresh,
                              Answered, Leave, Mark, AfterTest, GetCreated, Begins, Returns, Goto,
                              Holding
    <3>4. \A q \in Procs : /\ Holding(q)' => Holding(q) /\ copy'[q].refresh = copy[q].refresh
                           /\ at'[q] = "save" <=> at[q] = "save"
      BY <3>2, <3>3 DEF Returns, Holding, Goto, SecretBase, Placed, SecretTypes
    <3> QED BY <2>1, <3>2, <3>4, TokensUntouched, HistoryStays
  <2> QED BY <2>3, <2>4, <2>5, <2>6, <2>7
<1>5. ASSUME NEW p \in Procs, UpdateRead(p) PROVE TokensKept'
  <2>1. /\ status # "none" /\ UNCHANGED <<secret, accepts>> /\ Goto(p, "merged") /\ at[p] = "idle"
        /\ copy' = [copy EXCEPT ![p] = Merged(secret, chosen + 1)]
    BY <1>5 DEF UpdateRead, Begins
  <2>2. Merged(secret, chosen + 1).refresh = secret.refresh
    BY MergedIs DEF SecretBase, SecretTypes
  <2>3. Saving' <=> Saving
    BY <2>1 DEF Saving, Goto, SecretBase, Placed
  <2>4. \A q \in Procs : at[q] = "save" => at'[q] = "save" /\ copy'[q] = copy[q]
    BY <2>1 DEF Goto, SecretBase, Placed, SecretTypes
  <2>5. ~Saving => /\ secret.refresh = accepts
                   /\ \A q \in Procs : Holding(q)' => copy'[q].refresh = accepts
    BY <1>1, <2>1, <2>2 DEF TokensKept, Holding, Goto, SecretBase, Placed, SecretTypes
  <2> QED BY <1>1, <2>1, <2>3, <2>4, <2>5 DEF TokensKept
<1>6. ASSUME NEW p \in Procs, UpdateWrite(p) PROVE TokensKept'
  <2>1. /\ status # "none" /\ at[p] = "merged" /\ Goto(p, "load") /\ accepts' = accepts
        /\ copy' = [copy EXCEPT ![p] = Nothing]
    BY <1>6, HoldersAreConnected DEF UpdateWrite, Holding, SecretBase
  <2>2. CASE removed
    <3>1. UNCHANGED secret
      BY <1>6, <2>2 DEF UpdateWrite
    <3>2. \A q \in Procs : /\ Holding(q)' => Holding(q) /\ copy'[q].refresh = copy[q].refresh
                           /\ at'[q] = "save" <=> at[q] = "save"
      BY <2>1 DEF Holding, Goto, SecretBase, Placed, SecretTypes
    <3> QED BY <2>1, <3>1, <3>2, TokensUntouched, HistoryStays
  <2>3. CASE ~removed
    <3>1. secret' = copy[p] /\ NoteRace(p)
      BY <1>6, <2>3 DEF UpdateWrite
    <3>2. \A q \in Procs \ {p} : ~Holding(q)
      BY <3>1, Zenon DEF NoteRace
    <3>3. ~Saving /\ \A q \in Procs : ~Holding(q)' /\ at'[q] # "save"
      BY <2>1, <3>2 DEF Saving, Holding, Goto, SecretBase, Placed
    <3>4. copy[p].refresh = accepts
      BY <1>1, <2>1, <3>3 DEF TokensKept, Holding
    <3> QED BY <2>1, <3>1, <3>3, <3>4 DEF TokensKept, Saving
  <2> QED BY <2>2, <2>3
<1>7. CASE Crash
  <2>1. /\ at' = [p \in Procs |-> "idle"] /\ UNCHANGED <<secret, accepts, status>>
    BY <1>7 DEF Crash
  <2>2. \A p \in Procs : at[p] # "save"
    BY <1>7, Zenon DEF Crash
  <2>3. \A p \in Procs : ~Holding(p)' /\ (at'[p] = "save" <=> at[p] = "save")
    BY <2>1, <2>2 DEF Holding
  <2> QED BY <2>1, <2>3, TokensUntouched, HistoryStays
<1>8. CASE Cancel \/ Delete \/ TokenTime \/ UserDecides \/ UNCHANGED vars
  BY <1>8, TokensUntouched, HistoryStays
     DEF Cancel, Delete, TokenTime, UserDecides, vars, Holding
<1> QED BY <1>2, <1>3, <1>4, <1>5, <1>6, <1>7, <1>8 DEF Next

-------------------------------------------------------------------------------

ConnInv ==
  FlowInv /\ Created /\ FlowTells /\ SecretTypes /\ OneInsert /\ KeysKept /\ TokensKept
  /\ StatusIsOfTheseKeys

LEMMA ConnInit == Init => ConnInv
<1> SUFFICES ASSUME Init PROVE ConnInv
  OBVIOUS
<1>1. FlowInv
  BY DEF Init, FlowInv, Placed, PlaceFits, OnePoll, Polling
<1>2. Created /\ FlowTells /\ KeysKept /\ TokensKept /\ StatusIsOfTheseKeys
  BY DEF Init, Created, FlowTells, KeysKept, TokensKept, StatusIsOfTheseKeys
<1>3. SecretTypes /\ OneInsert
  BY DEF Init, SecretTypes, Secret, Nothing, OneInsert
<1> QED BY <1>1, <1>2, <1>3 DEF ConnInv

THEOREM ConnectionInvariant == Spec => []ConnInv
<1>1. ConnInv /\ [Next]_vars => ConnInv'
  BY PlacedInductive, OnePollInductive, CreatedInductive, FlowTellsInductive, TypesInductive,
     OneInsertInductive, KeysInductive, TokensInductive, StatusInductive
     DEF ConnInv, FlowInv, SecretBase
<1> QED BY <1>1, ConnInit, PTL DEF Spec

\* A flow is authorized exactly when its connection exists, unless calls
\* overlap on it, a failure loses the token or the connection is deleted.
THEOREM FlowsAndConnections == Spec => []AuthorizedIffConnected
<1>1. ConnInv => AuthorizedIffConnected
  BY DEF ConnInv, FlowTells, AuthorizedIffConnected
<1> QED BY <1>1, ConnectionInvariant, PTL

\* The refresh of a token does not undo an update of the keys, unless calls
\* overlap on the secret (Update, saveBaiduToken).
THEOREM KeysLast == Spec => []KeysAreTheLastSet
<1>1. ConnInv => KeysAreTheLastSet
  BY DEF ConnInv, KeysKept, KeysAreTheLastSet
<1> QED BY <1>1, ConnectionInvariant, PTL

\* The stored refresh token is the one the server accepts, under the same
\* condition and if no failure loses a token (accessToken, saveBaiduToken).
THEOREM TokenLives == Spec => []StoredTokenIsLive
<1>1. ConnInv => StoredTokenIsLive
  BY DEF ConnInv, TokensKept, StoredTokenIsLive, Saving
<1> QED BY <1>1, ConnectionInvariant, PTL

\* A status tells of the keys that are stored (Test, Update, saveBaiduToken).
THEOREM StatusTells == Spec => []StatusIsOfTheseKeys
<1>1. ConnInv => StatusIsOfTheseKeys
  BY DEF ConnInv
<1> QED BY <1>1, ConnectionInvariant, PTL
===============================================================================
