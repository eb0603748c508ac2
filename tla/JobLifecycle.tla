---------------------------- MODULE JobLifecycle ----------------------------
(***************************************************************************)
(* What a client that polls its upload's job is promised: queued, then     *)
(* processing, then done or failed for good, or queued again, for at most  *)
(* MAX_ATTEMPTS tries (app/workers/jobs.py, JobStatus and IngestJob).      *)
(***************************************************************************)
EXTENDS Naturals

CONSTANTS Jobs, MAX_ATTEMPTS

VARIABLE record   \* [Jobs -> the IngestJob that JobStore.get returns]

NoRecord == [status |-> "none", attempts |-> 0]

Init == record = [j \in Jobs |-> NoRecord]

Becomes(j, status, attempts) ==
  record' = [record EXCEPT ![j] = [status |-> status, attempts |-> attempts]]

Submit(j) == record[j] = NoRecord /\ Becomes(j, "queued", 0)

Begin(j) ==
  /\ record[j].status = "queued" /\ record[j].attempts < MAX_ATTEMPTS
  /\ Becomes(j, "processing", record[j].attempts + 1)

Complete(j) ==
  /\ record[j].status = "processing"
  /\ \E s \in {"done", "failed"} : Becomes(j, s, record[j].attempts)

TryAgain(j) ==
  /\ record[j].status = "processing" /\ record[j].attempts < MAX_ATTEMPTS
  /\ Becomes(j, "queued", record[j].attempts)

Next == \E j \in Jobs : Submit(j) \/ Begin(j) \/ Complete(j) \/ TryAgain(j)

Spec == Init /\ [][Next]_record
=============================================================================
