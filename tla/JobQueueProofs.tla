---------------------------- MODULE JobQueueProofs ----------------------------
(* Proofs about JobQueue for any jobs, workers, albums, attempt limit, batch  *)
(* size, faults and bounds.                                                   *)
EXTENDS JobQueue, TLAPS

\* What Queue.finish writes is a state, and never "running".
LEMMA FinishStates ==
  ASSUME NEW o \in Outcome, NEW t \in Nat, NEW m \in Nat
  PROVE  AfterFinish(o, t, m) \in {"succeeded", "failed", "pending", "waiting-auth"}
BY DEF AfterFinish, Outcome

\* The types are kept by every step of the queue (queue.go).  Start needs to
\* know that no worker of an earlier process is left.
LEMMA TypeInductive == TypeOK /\ DownIsOff /\ [Next]_vars => TypeOK'
<1> SUFFICES ASSUME TypeOK, DownIsOff, [Next]_vars PROVE TypeOK'
  OBVIOUS
<1> USE QueueAssumption
<1>1. ASSUME NEW j \in Jobs, BecomesDue(j) \/ LeaseExpires(j) PROVE TypeOK'
  BY <1>1 DEF TypeOK, BecomesDue, LeaseExpires, workers, bounds
<1>2. ASSUME NEW j \in Jobs, NEW now \in BOOLEAN, Enqueue(j, now) PROVE TypeOK'
  <2>1. AfterEnqueue(state[j]) \in JobState
    BY DEF TypeOK, AfterEnqueue, JobState
  <2> QED BY <1>2, <2>1 DEF TypeOK, Enqueue, Call, workers
<1>3. ASSUME NEW j \in Jobs, Retry(j) \/ CancelKey(j) PROVE TypeOK'
  <2>1. CASE Retry(j)
    BY <2>1 DEF TypeOK, Retry, Call, workers, JobState
  <2>2. CASE CancelKey(j)
    BY <2>2 DEF TypeOK, CancelKey, ClearLease, Call, workers, JobState
  <2> QED BY <1>3, <2>1, <2>2
<1>4. ASSUME NEW a \in Albums, CancelAlbum(a) PROVE TypeOK'
  <2>1. \A j \in Jobs : AfterCancel(state[j]) \in JobState
    BY DEF TypeOK, AfterCancel, JobState
  <2> QED BY <1>4, <2>1 DEF TypeOK, CancelAlbum, Call, workers
<1>5. CASE Start
  BY <1>5 DEF TypeOK, DownIsOff, Start, bounds, JobState, Holding
<1>6. CASE Stop \/ Stopped
  BY <1>6 DEF TypeOK, Stop, Stopped, Fault, rows, workers, bounds
<1>7. CASE Crash
  BY <1>7 DEF TypeOK, Crash, Fault, rows, Holding, Outcome
<1>8. ASSUME NEW w \in Workers, WorkerStep(w) PROVE TypeOK'
  <2>1. CASE Select(w)
    <3>1. \A B \in Batches : B \in SUBSET Jobs
      BY DEF Batches, Due
    <3> QED BY <2>1, <3>1 DEF TypeOK, Select, rows, bounds, Holding
  <2>2. ASSUME NEW j \in Jobs, Claim(w, j) PROVE TypeOK'
    BY <2>2 DEF TypeOK, Claim, bounds, Holding, JobState
  <2>3. ASSUME NEW j \in Jobs, Miss(w, j) PROVE TypeOK'
    BY <2>3 DEF TypeOK, Miss, rows, bounds
  <2>4. CASE NothingClaimed(w)
    BY <2>4 DEF TypeOK, NothingClaimed, rows, bounds, Holding
  <2>5. CASE Fetch(w)
    BY <2>5 DEF TypeOK, Fetch, rows, bounds, Holding
  <2>6. CASE FetchCancelled(w) \/ FinishCancelled(w)
    BY <2>6 DEF TypeOK, FetchCancelled, FinishCancelled, LetGo, rows, bounds, Holding, Outcome
  <2>7. ASSUME NEW o \in Outcome, HandlerReturns(w, o) PROVE TypeOK'
    BY <2>7 DEF TypeOK, HandlerReturns, rows, bounds, Holding
  <2>8. CASE Finish(w)
    <3>1. Verdict(w) \in JobState
      BY FinishStates, QueueAssumption DEF TypeOK, JobState, Verdict
    <3> QED BY <2>8, <3>1 DEF TypeOK, Finish, ClearLease, LetGo, bounds, Holding, Outcome
  <2>9. CASE WorkerExits(w)
    BY <2>9 DEF TypeOK, WorkerExits, rows, bounds, Holding
  <2> QED BY <1>8, <2>1, <2>2, <2>3, <2>4, <2>5, <2>6, <2>7, <2>8, <2>9 DEF WorkerStep
<1>9. ASSUME NEW w \in Workers, WorkerFault(w) PROVE TypeOK'
  <2>1. ASSUME NEW j \in Jobs, ClaimError(w, j) PROVE TypeOK'
    BY <2>1 DEF TypeOK, ClaimError, Fault, rows
  <2>2. CASE FetchError(w) \/ FinishError(w)
    BY <2>2 DEF TypeOK, FetchError, FinishError, Fault, LetGo, rows, Holding, Outcome
  <2> QED BY <1>9, <2>1, <2>2 DEF WorkerFault
<1>10. ASSUME NEW w \in Workers, Heartbeat(w) PROVE TypeOK'
  BY <1>10 DEF TypeOK, Heartbeat, workers, bounds
<1>11. CASE UNCHANGED vars
  BY <1>11 DEF TypeOK, vars, rows, workers, bounds
<1> QED
  BY <1>1, <1>2, <1>3, <1>4, <1>5, <1>6, <1>7, <1>8, <1>9, <1>10, <1>11 DEF Next

\* No worker outlives its process: Queue.Start is the only way up and
\* Queue.Stop waits for the workers.
LEMMA OffInductive == TypeOK /\ DownIsOff /\ [Next]_vars => DownIsOff'
<1> SUFFICES ASSUME TypeOK, DownIsOff, [Next]_vars PROVE DownIsOff'
  OBVIOUS
<1>1. ASSUME NEW j \in Jobs, BecomesDue(j) \/ LeaseExpires(j) PROVE DownIsOff'
  BY <1>1 DEF DownIsOff, BecomesDue, LeaseExpires, workers
<1>2. ASSUME Call PROVE DownIsOff'
  BY <1>2 DEF DownIsOff, Call, workers
<1>3. CASE Start \/ Stop \/ Stopped \/ Crash
  BY <1>3 DEF DownIsOff, Start, Stop, Stopped, AllExited, Crash, workers
<1>4. ASSUME NEW w \in Workers, WorkerStep(w) \/ WorkerFault(w) \/ Heartbeat(w)
      PROVE  DownIsOff'
  <2>1. proc' = proc /\ proc # "down"
    BY <1>4 DEF TypeOK, DownIsOff, WorkerStep, WorkerFault, Heartbeat, Select, Claim,
       Miss, ClaimError, NothingClaimed, Fetch, FetchCancelled, FetchError,
       HandlerReturns, Finish, FinishCancelled, FinishError, WorkerExits
  <2> QED BY <2>1 DEF DownIsOff
<1>5. CASE UNCHANGED vars
  BY <1>5 DEF DownIsOff, vars, workers
<1> QED
  BY <1>1, <1>2, <1>3, <1>4, <1>5
  DEF Next, Enqueue, Retry, CancelKey, CancelAlbum

\* Every reachable state of the queue has its types, and a worker names a job
\* exactly between claim and finish.
THEOREM TypeCorrect == Spec => []TypeOK
<1>1. Init => TypeOK /\ DownIsOff
  BY QueueAssumption DEF Init, TypeOK, DownIsOff, JobState, Holding, Outcome
<1>2. TypeOK /\ DownIsOff /\ [Next]_vars => (TypeOK /\ DownIsOff)'
  BY TypeInductive, OffInductive
<1> QED BY <1>1, <1>2, PTL DEF Spec

-------------------------------------------------------------------------------

\* The inductive invariant: who executes a job owns its row.
QueueInv == TypeOK /\ DownIsOff /\ OneHolder /\ HolderOwnsRow /\ RunningHasLease

\* A step that changes no worker and no running row, and makes no row running,
\* keeps the ownership of rows: every call, and the clock, is such a step.
LEMMA QuietStep ==
  ASSUME QueueInv, TypeOK', UNCHANGED <<pc, held, tries>>,
         \A j \in Jobs : state'[j] = "running" <=> state[j] = "running",
         \A j \in Jobs : state[j] = "running" => attempts'[j] = attempts[j],
         \A j \in Jobs : lease'[j] # "null" <=> lease[j] # "null"
  PROVE  OneHolder' /\ HolderOwnsRow' /\ RunningHasLease'
<1>1. OneHolder'
  BY DEF QueueInv, OneHolder
<1>2. HolderOwnsRow'
  BY DEF QueueInv, HolderOwnsRow, TypeOK
<1>3. RunningHasLease'
  BY DEF QueueInv, RunningHasLease
<1> QED BY <1>1, <1>2, <1>3

\* A worker that lets go of its job disturbs nobody else's.
LEMMA LetGoStep ==
  ASSUME QueueInv, TypeOK', NEW w \in Workers, held[w] # NoJob, LetGo(w),
         \A j \in Jobs \ {held[w]} : /\ state'[j] = state[j]
                                     /\ attempts'[j] = attempts[j]
                                     /\ lease'[j] = lease[j],
         state'[held[w]] = "running" <=> lease'[held[w]] # "null"
  PROVE  OneHolder' /\ HolderOwnsRow' /\ RunningHasLease'
<1>1. \A v \in Workers : v # w => /\ held'[v] = held[v]
                                  /\ pc'[v] = pc[v]
                                  /\ tries'[v] = tries[v]
  BY DEF QueueInv, TypeOK, LetGo
<1>2. held'[w] = NoJob
  BY DEF QueueInv, TypeOK, LetGo
<1>3. OneHolder'
  BY <1>1, <1>2 DEF QueueInv, OneHolder
<1>4. HolderOwnsRow'
  <2> SUFFICES ASSUME NEW v \in Workers, held'[v] # NoJob
               PROVE  /\ state'[held'[v]] = "running"
                      /\ pc'[v] # "fetching" => tries'[v] = attempts'[held'[v]]
    BY DEF HolderOwnsRow
  <2>1. v # w /\ held[v] \in Jobs \ {held[w]}
    BY <1>1, <1>2 DEF QueueInv, TypeOK, OneHolder
  <2> QED BY <1>1, <2>1 DEF QueueInv, HolderOwnsRow
<1>5. RunningHasLease'
  BY DEF QueueInv, TypeOK, RunningHasLease
<1> QED BY <1>3, <1>4, <1>5

\* The ownership of rows is kept by every step of the queue.
LEMMA OwnershipInductive == QueueInv /\ [Next]_vars => QueueInv'
<1> SUFFICES ASSUME QueueInv, [Next]_vars
             PROVE  OneHolder' /\ HolderOwnsRow' /\ RunningHasLease'
  BY TypeInductive, OffInductive DEF QueueInv
<1> DEFINE Owned == OneHolder /\ HolderOwnsRow /\ RunningHasLease
<1>0. TypeOK /\ TypeOK' /\ DownIsOff
  BY TypeInductive DEF QueueInv
<1>1. ASSUME NEW j \in Jobs, BecomesDue(j) \/ LeaseExpires(j) PROVE Owned'
  <2>1. CASE BecomesDue(j)
    BY <1>0, <2>1, QuietStep DEF BecomesDue, workers
  <2>2. CASE LeaseExpires(j)
    BY <1>0, <2>2, QuietStep DEF TypeOK, LeaseExpires, workers
  <2> QED BY <1>1, <2>1, <2>2
<1>2. ASSUME NEW j \in Jobs, NEW now \in BOOLEAN, Enqueue(j, now) PROVE Owned'
  <2>1. AfterEnqueue(state[j]) = "running" <=> state[j] = "running"
    BY <1>0 DEF TypeOK, AfterEnqueue, JobState, Revivable
  <2> QED BY <1>0, <1>2, <2>1, QuietStep DEF TypeOK, Enqueue, Call, workers
<1>3. ASSUME NEW j \in Jobs, Retry(j) PROVE Owned'
  <2>1. state[j] # "running"
    BY <1>3 DEF Retry, Revivable
  <2> QED BY <1>0, <1>3, <2>1, QuietStep DEF TypeOK, Retry, Call, workers
<1>4. ASSUME NEW j \in Jobs, CancelKey(j) PROVE Owned'
  <2>1. state[j] # "running" /\ lease[j] = "null"
    BY <1>0, <1>4 DEF CancelKey, Cancellable, QueueInv, RunningHasLease
  <2> QED BY <1>0, <1>4, <2>1, QuietStep DEF TypeOK, CancelKey, ClearLease, Call, workers
<1>5. ASSUME NEW a \in Albums, CancelAlbum(a) PROVE Owned'
  <2>1. \A j \in Jobs : state'[j] = "running" <=> state[j] = "running"
    BY <1>0, <1>5 DEF TypeOK, CancelAlbum, AfterCancel, Cancellable
  <2> QED BY <1>0, <1>5, <2>1, QuietStep DEF CancelAlbum, Call, workers
<1>6. CASE Start
  <2>1. \A w \in Workers : held'[w] = NoJob
    BY <1>0, <1>6 DEF Start, TypeOK, DownIsOff, Holding
  <2>2. RunningHasLease'
    BY <1>0, <1>6 DEF Start, Stranded, TypeOK, QueueInv, RunningHasLease
  <2> QED BY <2>1, <2>2 DEF OneHolder, HolderOwnsRow
<1>7. CASE Stop \/ Stopped
  BY <1>0, <1>7, QuietStep DEF Stop, Stopped, rows, workers
<1>8. CASE Crash
  BY <1>8 DEF Crash, rows, QueueInv, OneHolder, HolderOwnsRow, RunningHasLease
<1>9. ASSUME NEW w \in Workers, WorkerStep(w) PROVE Owned'
  <2>1. CASE Select(w) \/ NothingClaimed(w) \/ WorkerExits(w)
    <3>1. /\ UNCHANGED <<held, tries, state, attempts, lease>>
          /\ \A v \in Workers : v # w => pc'[v] = pc[v]
          /\ held[w] = NoJob
      BY <1>0, <2>1 DEF TypeOK, Select, NothingClaimed, WorkerExits, rows, Holding
    <3> QED BY <3>1 DEF QueueInv, OneHolder, HolderOwnsRow, RunningHasLease
  <2>2. ASSUME NEW j \in Jobs, Claim(w, j) PROVE Owned'
    <3>1. state[j] = "pending" /\ j # NoJob /\ held[w] = NoJob
      BY <1>0, <2>2, QueueAssumption DEF TypeOK, Claim, CanClaim, Holding
    <3>2. \A v \in Workers : held[v] # j
      BY <3>1 DEF QueueInv, HolderOwnsRow
    <3>3. /\ held'[w] = j /\ pc'[w] = "fetching"
          /\ \A v \in Workers : v # w => /\ held'[v] = held[v]
                                        /\ pc'[v] = pc[v]
                                        /\ tries'[v] = tries[v]
          /\ state'[j] = "running" /\ lease'[j] = "live"
          /\ \A i \in Jobs : i # j => /\ state'[i] = state[i]
                                     /\ attempts'[i] = attempts[i]
                                     /\ lease'[i] = lease[i]
      BY <1>0, <2>2 DEF TypeOK, Claim
    <3>4. OneHolder'
      BY <3>2, <3>3 DEF QueueInv, OneHolder
    <3>5. HolderOwnsRow'
      <4> SUFFICES ASSUME NEW v \in Workers, held'[v] # NoJob
                   PROVE  /\ state'[held'[v]] = "running"
                          /\ pc'[v] # "fetching" => tries'[v] = attempts'[held'[v]]
        BY DEF HolderOwnsRow
      <4>1. CASE v = w
        BY <3>3, <4>1
      <4>2. CASE v # w
        <5>1. held[v] \in Jobs \ {j}
          BY <1>0, <3>2, <3>3, <4>2 DEF TypeOK
        <5> QED BY <3>3, <4>2, <5>1 DEF QueueInv, HolderOwnsRow
      <4> QED BY <4>1, <4>2
    <3>6. RunningHasLease'
      BY <3>3 DEF QueueInv, RunningHasLease
    <3> QED BY <3>4, <3>5, <3>6
  <2>3. ASSUME NEW j \in Jobs, Miss(w, j) PROVE Owned'
    BY <1>0, <2>3, QuietStep DEF Miss, rows
  <2>4. CASE Fetch(w)
    <3>1. /\ UNCHANGED <<held, state, attempts, lease>>
          /\ tries'[w] = attempts[held[w]]
          /\ \A v \in Workers : v # w => pc'[v] = pc[v] /\ tries'[v] = tries[v]
      BY <1>0, <2>4 DEF TypeOK, Fetch, rows
    <3> QED BY <3>1 DEF QueueInv, OneHolder, HolderOwnsRow, RunningHasLease
  <2>5. ASSUME NEW o \in Outcome, HandlerReturns(w, o) PROVE Owned'
    <3>1. /\ UNCHANGED <<held, tries, state, attempts, lease>>
          /\ pc[w] # "fetching"
          /\ \A v \in Workers : v # w => pc'[v] = pc[v]
      BY <1>0, <2>5 DEF TypeOK, HandlerReturns, rows
    <3> QED BY <3>1 DEF QueueInv, OneHolder, HolderOwnsRow, RunningHasLease
  <2>6. CASE FetchCancelled(w) \/ FinishCancelled(w)
    <3>1. held[w] \in Jobs /\ held[w] # NoJob /\ LetGo(w) /\ UNCHANGED rows
      BY <1>0, <2>6 DEF TypeOK, FetchCancelled, FinishCancelled, Holding
    <3> QED BY <1>0, <3>1, LetGoStep DEF rows, QueueInv, RunningHasLease
  <2>7. CASE Finish(w)
    <3>1. held[w] \in Jobs /\ held[w] # NoJob
      BY <1>0, <2>7 DEF TypeOK, Finish, Holding
    <3>2. Verdict(w) # "running"
      BY <1>0, FinishStates, QueueAssumption DEF TypeOK, Verdict
    <3>3. /\ LetGo(w)
          /\ state'[held[w]] # "running" /\ lease'[held[w]] = "null"
          /\ \A j \in Jobs \ {held[w]} : /\ state'[j] = state[j]
                                         /\ attempts'[j] = attempts[j]
                                         /\ lease'[j] = lease[j]
      BY <1>0, <2>7, <3>1, <3>2 DEF TypeOK, Finish, ClearLease
    <3> QED BY <1>0, <3>1, <3>3, LetGoStep
  <2> QED BY <1>9, <2>1, <2>2, <2>3, <2>4, <2>5, <2>6, <2>7 DEF WorkerStep
<1>10. ASSUME NEW w \in Workers, WorkerFault(w) PROVE Owned'
  <2>1. ASSUME NEW j \in Jobs, ClaimError(w, j) PROVE Owned'
    BY <1>0, <2>1, QuietStep DEF ClaimError, rows
  <2>2. CASE FetchError(w) \/ FinishError(w)
    <3>1. held[w] \in Jobs /\ held[w] # NoJob /\ LetGo(w) /\ UNCHANGED rows
      BY <1>0, <2>2 DEF TypeOK, FetchError, FinishError, Holding
    <3> QED BY <1>0, <3>1, LetGoStep DEF rows, QueueInv, RunningHasLease
  <2> QED BY <1>10, <2>1, <2>2 DEF WorkerFault
<1>11. ASSUME NEW w \in Workers, Heartbeat(w) PROVE Owned'
  <2>1. held[w] \in Jobs /\ lease[held[w]] # "null"
    BY <1>0, <1>11 DEF TypeOK, Heartbeat, Holding, QueueInv, RunningHasLease
  <2> QED BY <1>0, <1>11, <2>1, QuietStep DEF TypeOK, Heartbeat, workers
<1>12. CASE UNCHANGED vars
  BY <1>0, <1>12, QuietStep DEF vars, rows, workers
<1> QED
  BY <1>1, <1>2, <1>3, <1>4, <1>5, <1>6, <1>7, <1>8, <1>9, <1>10, <1>11, <1>12
  DEF Next

LEMMA OwnershipInitially == Init => QueueInv
BY QueueAssumption
DEF Init, QueueInv, TypeOK, DownIsOff, OneHolder, HolderOwnsRow, RunningHasLease,
    JobState, Holding, Outcome

\* The inductive invariant holds in every reachable state of the queue.
THEOREM Ownership == Spec => []QueueInv
BY OwnershipInitially, OwnershipInductive, PTL DEF Spec

\* At most one worker executes a job: claim's guarded UPDATE and the single
\* reclaim of Start suffice, the lease is not needed for it.
THEOREM MutualExclusion == Spec => []OneHolder
<1>1. QueueInv => OneHolder
  BY DEF QueueInv
<1> QED BY <1>1, Ownership, PTL

\* finish, which writes its row by id alone, never overwrites another's work.
THEOREM RowOwnership == Spec => []HolderOwnsRow
<1>1. QueueInv => HolderOwnsRow
  BY DEF QueueInv
<1> QED BY <1>1, Ownership, PTL

\* Exactly the running rows carry a lease.
THEOREM LeaseOfRunning == Spec => []RunningHasLease
<1>1. QueueInv => RunningHasLease
  BY DEF QueueInv
<1> QED BY <1>1, Ownership, PTL

-------------------------------------------------------------------------------
(* The queue implements the ledger: every step of JobQueue is a step of       *)
(* JobLedger under the refinement status = state, holder = held, or changes   *)
(* neither.                                                                   *)

\* A row that keeps its state keeps the whole column.
LEMMA SameColumn ==
  ASSUME TypeOK, NEW j \in Jobs, NEW s, state' = [state EXCEPT ![j] = s], s = state[j]
  PROVE  state' = state
BY DEF TypeOK

\* A worker that lets go of its job without settling it drops it.
LEMMA LetGoDrops ==
  ASSUME TypeOK, NEW w \in Workers, LetGo(w), UNCHANGED state
  PROVE  Ledger!Next
<1>1. Ledger!Drop({w})
  BY DEF TypeOK, LetGo, Ledger!Drop
<1> QED BY <1>1 DEF Ledger!Next

LEMMA StepImplementsLedger ==
  QueueInv /\ [Next]_vars => [Ledger!Next]_(Ledger!ledger)
<1> SUFFICES ASSUME QueueInv, [Next]_vars
             PROVE  Ledger!Next \/ UNCHANGED <<state, held>>
  BY DEF Ledger!ledger
<1> DEFINE Step == Ledger!Next \/ UNCHANGED <<state, held>>
<1>0. TypeOK /\ DownIsOff
  BY DEF QueueInv
<1>1. ASSUME NEW j \in Jobs, BecomesDue(j) \/ LeaseExpires(j) PROVE Step
  BY <1>1 DEF BecomesDue, LeaseExpires, workers
<1>2. ASSUME NEW j \in Jobs, NEW now \in BOOLEAN, Enqueue(j, now) PROVE Step
  <2>1. CASE state[j] \in Revivable \cup {"absent"}
    <3>1. Ledger!Ask(j)
      BY <1>2, <2>1 DEF Enqueue, Call, workers, AfterEnqueue, Ledger!Ask, Revivable,
         Ledger!Revivable
    <3> QED BY <3>1 DEF Ledger!Next
  <2>2. CASE state[j] \notin Revivable \cup {"absent"}
    <3>1. AfterEnqueue(state[j]) = state[j]
      BY <2>2 DEF AfterEnqueue
    <3> QED BY <1>0, <1>2, <3>1, SameColumn DEF Enqueue, Call, workers
  <2> QED BY <2>1, <2>2
<1>3. ASSUME NEW j \in Jobs, Retry(j) PROVE Step
  <2>1. Ledger!Ask(j)
    BY <1>3 DEF Retry, Call, workers, Ledger!Ask, Revivable, Ledger!Revivable
  <2> QED BY <2>1 DEF Ledger!Next
<1>4. ASSUME NEW j \in Jobs, CancelKey(j) PROVE Step
  <2>1. Ledger!Withdraw({j})
    BY <1>0, <1>4 DEF TypeOK, CancelKey, ClearLease, Call, workers, Ledger!Withdraw, Cancellable,
       Ledger!Cancellable
  <2> QED BY <2>1 DEF Ledger!Next
<1>5. ASSUME NEW a \in Albums, CancelAlbum(a) PROVE Step
  <2> DEFINE S == {j \in OfAlbum(a) : state[j] \in Cancellable}
  <2>1. S \in SUBSET Jobs
    BY DEF OfAlbum
  <2>2. Ledger!Withdraw(S)
    BY <1>0, <1>5 DEF TypeOK, CancelAlbum, Call, workers, OfAlbum, AfterCancel,
       Ledger!Withdraw, Cancellable, Ledger!Cancellable
  <2> QED BY <2>1, <2>2 DEF Ledger!Next
<1>6. CASE Start
  <2> DEFINE S == {j \in Jobs : Stranded(j)}
  <2>1. \A w \in Workers : held[w] = NoJob
    BY <1>0, <1>6 DEF Start, TypeOK, DownIsOff, Holding
  <2>2. Ledger!HandBack(S)
    BY <1>6, <2>1 DEF Start, Stranded, Ledger!HandBack
  <2> QED BY <2>2 DEF Ledger!Next
<1>7. CASE Stop \/ Stopped
  BY <1>7 DEF Stop, Stopped, rows, workers
<1>8. CASE Crash
  <2>1. Ledger!Drop(Workers)
    BY <1>8 DEF Crash, rows, Ledger!Drop
  <2> QED BY <2>1 DEF Ledger!Next
<1>9. ASSUME NEW w \in Workers, WorkerStep(w) PROVE Step
  <2>1. CASE Select(w) \/ NothingClaimed(w) \/ WorkerExits(w) \/ Fetch(w)
    BY <2>1 DEF Select, NothingClaimed, WorkerExits, Fetch, rows
  <2>2. ASSUME NEW j \in Jobs, Claim(w, j) PROVE Step
    <3>1. held[w] = NoJob
      BY <1>0, <2>2 DEF TypeOK, Claim, Holding
    <3>2. Ledger!Take(w, j)
      BY <2>2, <3>1 DEF Claim, CanClaim, Ledger!Take
    <3> QED BY <3>2 DEF Ledger!Next
  <2>3. ASSUME NEW j \in Jobs, Miss(w, j) PROVE Step
    BY <2>3 DEF Miss, rows
  <2>4. ASSUME NEW o \in Outcome, HandlerReturns(w, o) PROVE Step
    BY <2>4 DEF HandlerReturns, rows
  <2>5. CASE FetchCancelled(w) \/ FinishCancelled(w)
    BY <1>0, <2>5, LetGoDrops DEF FetchCancelled, FinishCancelled, rows
  <2>6. CASE Finish(w)
    <3> DEFINE s == Verdict(w)
    <3>1. s \in {"succeeded", "failed", "pending", "waiting-auth"}
      BY <1>0, FinishStates, QueueAssumption DEF TypeOK, Verdict
    <3>2. held[w] # NoJob
      BY <1>0, <2>6 DEF TypeOK, Finish, Holding
    <3>3. state[held[w]] = "running"
      BY <3>2 DEF QueueInv, HolderOwnsRow
    <3>4. Ledger!Settle(w, s)
      BY <2>6, <3>2, <3>3 DEF Finish, LetGo, Ledger!Settle
    <3> QED BY <3>1, <3>4 DEF Ledger!Next
  <2> QED BY <1>9, <2>1, <2>2, <2>3, <2>4, <2>5, <2>6 DEF WorkerStep
<1>10. ASSUME NEW w \in Workers, WorkerFault(w) PROVE Step
  <2>1. ASSUME NEW j \in Jobs, ClaimError(w, j) PROVE Step
    BY <2>1 DEF ClaimError, rows
  <2>2. CASE FetchError(w) \/ FinishError(w)
    BY <1>0, <2>2, LetGoDrops DEF FetchError, FinishError, rows
  <2> QED BY <1>10, <2>1, <2>2 DEF WorkerFault
<1>11. ASSUME NEW w \in Workers, Heartbeat(w) PROVE Step
  BY <1>11 DEF Heartbeat, workers
<1>12. CASE UNCHANGED vars
  BY <1>12 DEF vars, rows, workers
<1> QED
  BY <1>1, <1>2, <1>3, <1>4, <1>5, <1>6, <1>7, <1>8, <1>9, <1>10, <1>11, <1>12
  DEF Next

\* The job queue implements the ledger: only the worker that claimed a job
\* settles it, and a running job is handed back only while nobody works.
THEOREM QueueImplementsLedger == Spec => ImplementsLedger
<1>1. Init => Ledger!Init
  BY DEF Init, Ledger!Init
<1> QED
  BY <1>1, StepImplementsLedger, Ownership, PTL
  DEF Spec, ImplementsLedger, Ledger!Spec
===============================================================================
