------------------------------ MODULE JobStates ------------------------------
(* The column jobs.state and what each SQL statement of the queue does to it. *)
(* The queue itself (JobQueue) and the media jobs that run on it              *)
(* (MirrorBackup) share these operators, so both read the same queue.         *)
(*                                                                            *)
(* "absent" stands for a dedupe key that has no row yet.                      *)
EXTENDS Naturals

JobState == {"absent", "pending", "running", "succeeded", "failed",
             "cancelled", "waiting-auth"}

\* States an Enqueue of the same dedupe key turns back into "pending".  A row
\* that is running or has succeeded keeps its state: the request is absorbed.
Revivable == {"failed", "cancelled", "waiting-auth"}

AfterEnqueue(s) == IF s \in Revivable \cup {"absent"} THEN "pending" ELSE s

\* States the two cancelling statements match.  (Mutant: running ones, too.)
CancellableOrRunning == {"pending", "waiting-auth", "running"}
Cancellable == {"pending", "waiting-auth"}

\* What CancelAlbum makes of a row.  (Mutant: it also takes running rows.)
AfterCancelOfAny(s) == IF s \in CancellableOrRunning THEN "cancelled" ELSE s
AfterCancel(s) == IF s \in Cancellable THEN "cancelled" ELSE s

\* The state Queue.finish writes: waiting for authorization is looked at
\* before the attempts are counted.
Outcome == {"ok", "error", "auth"}

AfterFinish(outcome, tries, max) ==
  CASE outcome = "ok"    -> "succeeded"
    [] outcome = "auth"  -> "waiting-auth"
    [] outcome = "error" -> IF tries >= max THEN "failed" ELSE "pending"
==============================================================================
