------------------------------- MODULE JobQueue -------------------------------
(* internal/jobs/queue.go: the persistent job queue.  The rows of the table   *)
(* jobs survive a crash; the worker goroutines and what they hold in memory   *)
(* do not.                                                                    *)
(*                                                                            *)
(* Abstractions.  A job is its dedupe key; its id, type and payload are       *)
(* functions of that key.  next_run_at is the flag due (next_run_at <= now),  *)
(* lease_until is null, live (in the future) or expired; time is the two      *)
(* actions that turn them.  The order of the claim's SELECT is left open      *)
(* (any LIMIT-sized part of the due rows).  A handler is any code that        *)
(* returns one of Outcome; a job type without a handler is one that returns   *)
(* "error" at once.                                                           *)
(*                                                                            *)
(* Bounds: MaxCalls calls of Enqueue, Retry and Cancel, MaxFaults faults      *)
(* (crashes, stops and failed statements).                                    *)
EXTENDS JobStates, FiniteSets

CONSTANTS
  Jobs,         \* dedupe keys
  Workers,      \* worker goroutines: Queue.workerCount of them
  Albums, AlbumOf, \* the albumId in the payload of each job
  NoJob,        \* no job
  MaxAttempts,  \* jobs.max_attempts
  BatchLimit,   \* LIMIT of the claim's SELECT
  Faults,       \* the faults that may happen: "crash", "stop", "dberror"
  MaxCalls, MaxFaults

ASSUME QueueAssumption ==
  /\ NoJob \notin Jobs
  /\ AlbumOf \in [Jobs -> Albums]
  /\ MaxAttempts \in Nat \ {0}
  /\ BatchLimit \in Nat \ {0}
  /\ Faults \subseteq {"crash", "stop", "dberror"}
  /\ MaxCalls \in Nat
  /\ MaxFaults \in Nat

VARIABLES
  \* the table jobs
  state, attempts, due, lease,
  \* the process: "down", "up", or "stopping" once its context is cancelled
  proc,
  \* the worker goroutines
  pc,       \* where the worker is
  batch,    \* ids the claim selected and has not tried yet
  held,     \* the job the worker claimed
  tries,    \* job.Attempts as Queue.Get read it
  outcome,  \* what the handler returned
  \* bounds
  calls, faults

rows    == <<state, attempts, due, lease>>
workers == <<pc, batch, held, tries, outcome>>
bounds  == <<calls, faults>>
vars    == <<rows, proc, workers, bounds>>

\* A worker at one of these places has claimed a job and not let go of it.
Holding == {"fetching", "running", "finishing"}

Init ==
  /\ state = [j \in Jobs |-> "absent"]
  /\ attempts = [j \in Jobs |-> 0]
  /\ due = [j \in Jobs |-> FALSE]
  /\ lease = [j \in Jobs |-> "null"]
  /\ proc = "down"
  /\ pc = [w \in Workers |-> "off"]
  /\ batch = [w \in Workers |-> {}]
  /\ held = [w \in Workers |-> NoJob]
  /\ tries = [w \in Workers |-> 0]
  /\ outcome = [w \in Workers |-> "ok"]
  /\ calls = 0
  /\ faults = 0

-------------------------------------------------------------------------------
(* Time *)

BecomesDue(j) ==
  /\ state[j] # "absent" /\ ~due[j]
  /\ due' = [due EXCEPT ![j] = TRUE]
  /\ UNCHANGED <<state, attempts, lease, proc, workers, bounds>>

LeaseExpires(j) ==
  /\ lease[j] = "live"
  /\ lease' = [lease EXCEPT ![j] = "expired"]
  /\ UNCHANGED <<state, attempts, due, proc, workers, bounds>>

-------------------------------------------------------------------------------
(* Calls of the HTTP handlers, of the scheduler and of the job handlers *)

Call ==
  /\ proc # "down"
  /\ calls < MaxCalls
  /\ calls' = calls + 1
  /\ UNCHANGED <<proc, workers, faults>>

\* The INSERT ... ON CONFLICT(dedupe_key) DO UPDATE of Queue.Enqueue; now says
\* whether runAt has come.  MIN(next_run_at) keeps the earlier time; attempts
\* are not reset.
Enqueue(j, now) ==
  /\ Call
  /\ state' = [state EXCEPT ![j] = AfterEnqueue(@)]
  /\ due' = [due EXCEPT ![j] = @ \/ now]
  /\ UNCHANGED <<attempts, lease>>

Retry(j) ==
  /\ Call
  /\ state[j] \in Revivable
  /\ state' = [state EXCEPT ![j] = "pending"]
  /\ attempts' = [attempts EXCEPT ![j] = 0]
  /\ due' = [due EXCEPT ![j] = TRUE]
  /\ UNCHANGED lease

\* Rows of album a that the statement of CancelAlbum matches.
OfAlbum(a) == {j \in Jobs : AlbumOf[j] = a}

CancelAlbum(a) ==
  /\ Call
  /\ state' = [j \in Jobs |-> IF j \in OfAlbum(a) THEN AfterCancel(state[j]) ELSE state[j]]
  /\ UNCHANGED <<attempts, due, lease>>

\* lease_until=NULL.  (Mutant: forgotten.)
KeepLease(j) == UNCHANGED lease
ClearLease(j) == lease' = [lease EXCEPT ![j] = "null"]

\* The same for the one key of Service.CancelMirrorDelete, which also clears
\* the lease column.
CancelKey(j) ==
  /\ Call
  /\ state[j] \in Cancellable
  /\ state' = [state EXCEPT ![j] = "cancelled"]
  /\ ClearLease(j)
  /\ UNCHANGED <<attempts, due>>

-------------------------------------------------------------------------------
(* The process *)

\* Running rows nobody can be working on any more, as Start finds them.
\* (Mutant: without the comparison of the lease with the clock.)
Unleased(j) == state[j] = "running" /\ lease[j] = "null"
Stranded(j) == state[j] = "running" /\ lease[j] \in {"null", "expired"}

\* The one reclaim of a process' life, then the workers.
Start ==
  /\ proc = "down"
  /\ proc' = "up"
  /\ state' = [j \in Jobs |-> IF Stranded(j) THEN "pending" ELSE state[j]]
  /\ lease' = [j \in Jobs |-> IF Stranded(j) THEN "null" ELSE lease[j]]
  /\ pc' = [w \in Workers |-> "idle"]
  /\ UNCHANGED <<attempts, due, batch, held, tries, outcome, bounds>>

Fault(kind) ==
  /\ kind \in Faults
  /\ faults < MaxFaults
  /\ faults' = faults + 1
  /\ UNCHANGED calls

\* SIGTERM, or Queue.Stop: the context of the workers is cancelled.
Stop ==
  /\ proc = "up"
  /\ Fault("stop")
  /\ proc' = "stopping"
  /\ UNCHANGED <<rows, workers>>

\* wg.Wait returns.  (Mutant: nobody waits.)
NobodyWaits == TRUE
AllExited == \A w \in Workers : pc[w] = "off"

\* ... and main ends.
Stopped ==
  /\ proc = "stopping"
  /\ AllExited
  /\ proc' = "down"
  /\ UNCHANGED <<rows, workers, bounds>>

Crash ==
  /\ proc # "down"
  /\ Fault("crash")
  /\ proc' = "down"
  /\ pc' = [w \in Workers |-> "off"]
  /\ batch' = [w \in Workers |-> {}]
  /\ held' = [w \in Workers |-> NoJob]
  /\ tries' = [w \in Workers |-> 0]
  /\ outcome' = [w \in Workers |-> "ok"]
  /\ UNCHANGED rows

-------------------------------------------------------------------------------
(* A worker goroutine *)

Due == {j \in Jobs : state[j] = "pending" /\ due[j]}

\* What one SELECT ... LIMIT may return.
Batches == {B \in SUBSET Due : Cardinality(B) = BatchLimit
                               \/ (B = Due /\ Cardinality(Due) < BatchLimit)}

\* A tick of the worker: the first half of Queue.claim.
Select(w) ==
  /\ proc = "up" /\ pc[w] = "idle"
  /\ Due # {}
  /\ \E B \in Batches : batch' = [batch EXCEPT ![w] = B]
  /\ pc' = [pc EXCEPT ![w] = "claiming"]
  /\ UNCHANGED <<rows, proc, held, tries, outcome, bounds>>

\* The guarded UPDATE of the claim finds its row still pending.  (Mutants:
\* the UPDATE by id alone; one that looks at the attempts as finish does.)
ClaimAny(j) == TRUE
ClaimWhileAttemptsLast(j) == state[j] = "pending" /\ attempts[j] < MaxAttempts
CanClaim(j) == state[j] = "pending"

Claim(w, j) ==
  /\ proc = "up" /\ pc[w] = "claiming" /\ j \in batch[w]
  /\ CanClaim(j)
  /\ state' = [state EXCEPT ![j] = "running"]
  /\ attempts' = [attempts EXCEPT ![j] = @ + 1]
  /\ lease' = [lease EXCEPT ![j] = "live"]
  /\ pc' = [pc EXCEPT ![w] = "fetching"]
  /\ held' = [held EXCEPT ![w] = j]
  /\ batch' = [batch EXCEPT ![w] = {}]
  /\ UNCHANGED <<due, proc, tries, outcome, bounds>>

\* ... or no row: another worker was faster, or the job was cancelled.
Miss(w, j) ==
  /\ proc = "up" /\ pc[w] = "claiming" /\ j \in batch[w]
  /\ ~CanClaim(j)
  /\ batch' = [batch EXCEPT ![w] = @ \ {j}]
  /\ UNCHANGED <<rows, proc, pc, held, tries, outcome, bounds>>

\* ... or the statement fails and the loop goes on to the next id.
ClaimError(w, j) ==
  /\ proc = "up" /\ pc[w] = "claiming" /\ j \in batch[w]
  /\ Fault("dberror")
  /\ batch' = [batch EXCEPT ![w] = @ \ {j}]
  /\ UNCHANGED <<rows, proc, pc, held, tries, outcome>>

\* The batch is used up, or every statement fails with the cancelled context:
\* sql.ErrNoRows, and the worker waits for its next tick.
NothingClaimed(w) ==
  /\ pc[w] = "claiming"
  /\ batch[w] = {} \/ proc = "stopping"
  /\ pc' = [pc EXCEPT ![w] = "idle"]
  /\ batch' = [batch EXCEPT ![w] = {}]
  /\ UNCHANGED <<rows, proc, held, tries, outcome, bounds>>

\* The worker lets go of its job in memory and waits for its next tick.
LetGo(w) ==
  /\ pc' = [pc EXCEPT ![w] = "idle"]
  /\ held' = [held EXCEPT ![w] = NoJob]
  /\ tries' = [tries EXCEPT ![w] = 0]
  /\ outcome' = [outcome EXCEPT ![w] = "ok"]
  /\ UNCHANGED batch

\* Queue.Get after the claim, and the handler starts.
Fetch(w) ==
  /\ proc = "up" /\ pc[w] = "fetching"
  /\ tries' = [tries EXCEPT ![w] = attempts[held[w]]]
  /\ pc' = [pc EXCEPT ![w] = "running"]
  /\ UNCHANGED <<rows, proc, batch, held, outcome, bounds>>

\* Queue.Get fails with the cancelled context: the claimed row stays running.
FetchCancelled(w) ==
  /\ proc = "stopping" /\ pc[w] = "fetching"
  /\ LetGo(w)
  /\ UNCHANGED <<rows, proc, bounds>>

\* ... or because the database is busy.
FetchError(w) ==
  /\ proc = "up" /\ pc[w] = "fetching"
  /\ Fault("dberror")
  /\ LetGo(w)
  /\ UNCHANGED <<rows, proc>>

\* The goroutine Queue.run starts; its statement uses context.Background().
Heartbeat(w) ==
  /\ pc[w] = "running"
  /\ state[held[w]] = "running"
  /\ lease[held[w]] # "live"
  /\ lease' = [lease EXCEPT ![held[w]] = "live"]
  /\ UNCHANGED <<state, attempts, due, proc, workers, bounds>>

HandlerReturns(w, o) ==
  /\ pc[w] = "running"
  /\ outcome' = [outcome EXCEPT ![w] = o]
  /\ pc' = [pc EXCEPT ![w] = "finishing"]
  /\ UNCHANGED <<rows, proc, batch, held, tries, bounds>>

\* The state finish writes for the job of worker w.
Verdict(w) == AfterFinish(outcome[w], tries[w], MaxAttempts)

\* The UPDATE of Queue.finish, by id and whatever the row says meanwhile.  On
\* an error next_run_at moves into the future, even when the job has failed.
Finish(w) ==
  /\ proc = "up" /\ pc[w] = "finishing"
  /\ state' = [state EXCEPT ![held[w]] = Verdict(w)]
  /\ due' = [due EXCEPT ![held[w]] = @ /\ outcome[w] = "ok"]
  /\ ClearLease(held[w])
  /\ LetGo(w)
  /\ UNCHANGED <<attempts, proc, bounds>>

\* finish runs on the workers' own context: once that is cancelled its UPDATE
\* fails and the error is dropped.
FinishCancelled(w) ==
  /\ proc = "stopping" /\ pc[w] = "finishing"
  /\ LetGo(w)
  /\ UNCHANGED <<rows, proc, bounds>>

FinishError(w) ==
  /\ proc = "up" /\ pc[w] = "finishing"
  /\ Fault("dberror")
  /\ LetGo(w)
  /\ UNCHANGED <<rows, proc>>

WorkerExits(w) ==
  /\ proc = "stopping" /\ pc[w] = "idle"
  /\ pc' = [pc EXCEPT ![w] = "off"]
  /\ UNCHANGED <<rows, proc, batch, held, tries, outcome, bounds>>

-------------------------------------------------------------------------------

WorkerStep(w) ==
  \/ Select(w)
  \/ \E j \in Jobs : Claim(w, j) \/ Miss(w, j)
  \/ NothingClaimed(w)
  \/ Fetch(w) \/ FetchCancelled(w)
  \/ \E o \in Outcome : HandlerReturns(w, o)
  \/ Finish(w) \/ FinishCancelled(w)
  \/ WorkerExits(w)

WorkerFault(w) ==
  \/ \E j \in Jobs : ClaimError(w, j)
  \/ FetchError(w)
  \/ FinishError(w)

Next ==
  \/ \E j \in Jobs : \/ BecomesDue(j) \/ LeaseExpires(j)
                     \/ \E now \in BOOLEAN : Enqueue(j, now)
                     \/ Retry(j) \/ CancelKey(j)
  \/ \E a \in Albums : CancelAlbum(a)
  \/ Start \/ Stop \/ Stopped \/ Crash
  \/ \E w \in Workers : WorkerStep(w) \/ WorkerFault(w) \/ Heartbeat(w)

Spec == Init /\ [][Next]_vars

\* The clock runs, the operator restarts the program, and every worker is
\* scheduled; nothing promises that a crash, a call or a heartbeat happens.
Fairness ==
  /\ \A j \in Jobs : WF_vars(BecomesDue(j))
  /\ WF_vars(Start)
  /\ WF_vars(Stopped)
  /\ \A w \in Workers : WF_vars(WorkerStep(w))

FairSpec == Spec /\ Fairness

-------------------------------------------------------------------------------
(* Properties *)

\* Every variable has its type, and a worker names a job exactly while it is
\* between the claim and the finish of that job.
TypeOK ==
  /\ state \in [Jobs -> JobState]
  /\ attempts \in [Jobs -> Nat]
  /\ due \in [Jobs -> BOOLEAN]
  /\ lease \in [Jobs -> {"null", "live", "expired"}]
  /\ proc \in {"down", "up", "stopping"}
  /\ pc \in [Workers -> {"off", "idle", "claiming"} \cup Holding]
  /\ batch \in [Workers -> SUBSET Jobs]
  /\ held \in [Workers -> Jobs \cup {NoJob}]
  /\ tries \in [Workers -> Nat]
  /\ outcome \in [Workers -> Outcome]
  /\ calls \in Nat
  /\ faults \in Nat
  /\ \A w \in Workers : held[w] # NoJob <=> pc[w] \in Holding

\* No two workers ever execute the same job, whatever crashes, cancellations,
\* retries and lease expiries happen: a late heartbeat hands nothing over.
OneHolder ==
  \A v, w \in Workers : held[v] = held[w] /\ held[v] # NoJob => v = w

\* The row of a job under execution says so, and carries the attempt the
\* worker counts: finish, which writes by id without looking, overwrites
\* neither a cancellation nor a retry nor a later attempt.
HolderOwnsRow ==
  \A w \in Workers : held[w] # NoJob =>
    /\ state[held[w]] = "running"
    /\ pc[w] # "fetching" => tries[w] = attempts[held[w]]

\* A running row has a lease and no other row has one, so a row that a crash
\* leaves behind can be found by its lease.
RunningHasLease ==
  \A j \in Jobs : state[j] = "running" <=> lease[j] # "null"

\* A process that is down executes nothing.
DownIsOff == proc = "down" => \A w \in Workers : pc[w] = "off"

\* The job queue implements the ledger of jobs.
Ledger == INSTANCE JobLedger WITH status <- state, holder <- held
ImplementsLedger == Ledger!Spec

\* A job that is waiting for its turn gets it, or is cancelled.
PendingIsServed ==
  \A j \in Jobs : state[j] = "pending" ~> state[j] # "pending"

\* A job whose worker died is taken up again once the process starts after
\* the lease ran out.
ExpiredIsReclaimed ==
  \A j \in Jobs :
    (proc = "down" /\ state[j] = "running" /\ lease[j] = "expired")
      ~> state[j] # "running"

\* Every job that runs stops running, also when the process dies under it:
\* README.md lists the recovery of leases after a crash.
RunningEnds ==
  \A j \in Jobs : state[j] = "running" ~> state[j] # "running"
===============================================================================
