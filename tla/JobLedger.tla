------------------------------ MODULE JobLedger ------------------------------
(* What the job queue promises to the rest of ialbum, without leases, clocks, *)
(* batches or processes: a job has a status, a worker may hold one job, and   *)
(* only the worker that took a job decides what becomes of it.  A worker that *)
(* vanishes leaves its job running, and a running job is handed back only     *)
(* while nobody holds anything.  JobQueue implements this module.             *)
EXTENDS JobStates

CONSTANTS Jobs, Workers, NoJob

VARIABLES
  status,   \* status[j]: the state of job j
  holder    \* holder[w]: the job worker w executes, or NoJob

ledger == <<status, holder>>

Init ==
  /\ status = [j \in Jobs |-> "absent"]
  /\ holder = [w \in Workers |-> NoJob]

\* Somebody wants the job done, for the first time or again.
Ask(j) ==
  /\ status[j] \in Revivable \cup {"absent"}
  /\ status' = [status EXCEPT ![j] = "pending"]
  /\ UNCHANGED holder

\* The jobs in S are withdrawn before anybody took them.
Withdraw(S) ==
  /\ \A j \in S : status[j] \in Cancellable
  /\ status' = [j \in Jobs |-> IF j \in S THEN "cancelled" ELSE status[j]]
  /\ UNCHANGED holder

Take(w, j) ==
  /\ holder[w] = NoJob
  /\ status[j] = "pending"
  /\ status' = [status EXCEPT ![j] = "running"]
  /\ holder' = [holder EXCEPT ![w] = j]

\* The holder, and nobody else, decides the fate of its job.
Settle(w, s) ==
  /\ holder[w] # NoJob
  /\ status[holder[w]] = "running"
  /\ status' = [status EXCEPT ![holder[w]] = s]
  /\ holder' = [holder EXCEPT ![w] = NoJob]

\* Workers lose what they held; the statuses still say "running".
Drop(W) ==
  /\ holder' = [w \in Workers |-> IF w \in W THEN NoJob ELSE holder[w]]
  /\ UNCHANGED status

\* Jobs nobody executes any more become available again.
HandBack(S) ==
  /\ \A w \in Workers : holder[w] = NoJob
  /\ \A j \in S : status[j] = "running"
  /\ status' = [j \in Jobs |-> IF j \in S THEN "pending" ELSE status[j]]
  /\ UNCHANGED holder

Next ==
  \/ \E j \in Jobs : Ask(j)
  \/ \E S \in SUBSET Jobs : Withdraw(S) \/ HandBack(S)
  \/ \E w \in Workers, j \in Jobs : Take(w, j)
  \/ \E w \in Workers, s \in {"succeeded", "failed", "pending", "waiting-auth"} :
       Settle(w, s)
  \/ \E W \in SUBSET Workers : Drop(W)

Spec == Init /\ [][Next]_ledger
==============================================================================
