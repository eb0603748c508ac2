----------------------------- MODULE IngestJobs -----------------------------
(***************************************************************************)
(* Ingestion off the request path: IngestionJobService.submit in the API   *)
(* and execute in the workers (app/workers/service.py), their records,     *)
(* attempt counters, payloads and dead letters in Redis (jobs.py,          *)
(* payloads.py), and the Celery task that retries (celery_app.py).         *)
(*                                                                         *)
(* Every await is a step of its own, so other workers, the broker and a    *)
(* crash come between any two.  The broker delivers a message at least     *)
(* once: a worker takes it, and it is gone when the worker acknowledges it *)
(* at the end (acks_late).  A worker that dies gives it back               *)
(* (reject_on_worker_lost); one that takes longer than the visibility      *)
(* timeout goes on, while the message is delivered a second time.          *)
(***************************************************************************)
EXTENDS Naturals

CONSTANTS
  Jobs,            \* the uploads, each with its job
  Bad,             \* uploads whose parsing fails: PERMANENT_ERRORS
  Workers,         \* worker processes: each runs one task at a time
  MAX_ATTEMPTS,    \* job_max_attempts
  CRASHES,         \* workers may be killed
  TIMEOUTS,        \* a delivery may outlast the visibility timeout
  FAULTS,          \* bound: how many crashes and timeouts there are in all
  REDIS_ERRORS,    \* a Redis or broker call outside the ingestion may raise
  EXPIRY,          \* a parked payload may expire
  RETENTION        \* a record nobody works on may expire

ASSUME AttemptsAssumption == MAX_ATTEMPTS \in Nat \ {0}
ASSUME BadAssumption      == Bad \subseteq Jobs
ASSUME FaultsAssumption   == FAULTS \in Nat
ASSUME FlagsAssumption    ==
  {CRASHES, TIMEOUTS, REDIS_ERRORS, EXPIRY, RETENTION} \subseteq BOOLEAN

VARIABLES
  upload,    \* how far the submission of each job has come
  record,    \* ragjob:{tenant}:{job_id}: the saved IngestJob
  count,     \* ...:attempts, saturated one above MAX_ATTEMPTS
  payload,   \* ragupload:{payload_id} exists
  queue,     \* the broker: how many copies of each message wait
  dlq,       \* the jobs with an entry in ragjobs:dlq
  pc,        \* where each worker is
  msg,       \* the message it holds
  job,       \* its copy of the record
  attempt,   \* what start_attempt told it
  released,  \* the broker has given its message to the queue again
  faults     \* crashes and timeouts that may still happen

vars == <<upload, record, count, payload, queue, dlq, pc, msg, job, attempt, released, faults>>
workerVars == <<msg, job, attempt, released>>

Attempts  == 0..MAX_ATTEMPTS + 1
Statuses  == {"none", "queued", "processing", "done", "failed"}
Records   == [status : Statuses, attempts : 0..MAX_ATTEMPTS]
NoRecord  == [status |-> "none", attempts |-> 0]

\* retries is Celery's own count, which travels with the message.
Messages  == [job : Jobs, retries : 0..MAX_ATTEMPTS - 1]
NoMessage == [job |-> "none", retries |-> 0]

Uploads   == {"new", "parked", "saved", "queued", "refused"}
Locations == {"idle", "start", "process", "fetch", "ingest", "drop", "done", "fail",
              "bury", "again", "retry", "ack"}

Init ==
  /\ upload   = [j \in Jobs |-> "new"]
  /\ record   = [j \in Jobs |-> NoRecord]
  /\ count    = [j \in Jobs |-> 0]
  /\ payload  = [j \in Jobs |-> FALSE]
  /\ queue    = [m \in Messages |-> 0]
  /\ dlq      = {}
  /\ pc       = [w \in Workers |-> "idle"]
  /\ msg      = [w \in Workers |-> NoMessage]
  /\ job      = [w \in Workers |-> NoRecord]
  /\ attempt  = [w \in Workers |-> 0]
  /\ released = [w \in Workers |-> FALSE]
  /\ faults   = FAULTS

Goto(w, l) == pc' = [pc EXCEPT ![w] = l]
Put(m)     == queue' = [queue EXCEPT ![m] = queue[m] + 1]
Save(j, r) == record' = [record EXCEPT ![j] = r]
Holds(w, j) == pc[w] # "idle" /\ msg[w].job = j

(***************************************************************************)
(* The API: submit                                                         *)
(***************************************************************************)

\* payloads.put
Park(j) ==
  /\ upload[j] = "new"
  /\ upload'  = [upload EXCEPT ![j] = "parked"]
  /\ payload' = [payload EXCEPT ![j] = TRUE]
  /\ UNCHANGED <<record, count, queue, dlq, pc, workerVars, faults>>

\* jobs.save of the new record
Register(j) ==
  /\ upload[j] = "parked"
  /\ upload' = [upload EXCEPT ![j] = "saved"]
  /\ Save(j, [status |-> "queued", attempts |-> 0])
  /\ UNCHANGED <<count, payload, queue, dlq, pc, workerVars, faults>>

\* queue.enqueue: only now is the client told 202
Enqueue(j) ==
  /\ upload[j] = "saved"
  /\ upload' = [upload EXCEPT ![j] = "queued"]
  /\ Put([job |-> j, retries |-> 0])
  /\ UNCHANGED <<record, count, payload, dlq, pc, workerVars, faults>>

\* One of the three raises: the client gets an error, and what is written stays.
SubmitRaises(j) ==
  /\ REDIS_ERRORS
  /\ upload[j] \in {"new", "parked", "saved"}
  /\ upload' = [upload EXCEPT ![j] = "refused"]
  /\ UNCHANGED <<record, count, payload, queue, dlq, pc, workerVars, faults>>

(***************************************************************************)
(* A worker: ingest_document and execute                                   *)
(***************************************************************************)

\* The message arrives and jobs.get answers; without a record there is nothing to do.
Receive(w) ==
  /\ pc[w] = "idle"
  /\ \E m \in Messages :
       /\ queue[m] > 0
       /\ queue' = [queue EXCEPT ![m] = queue[m] - 1]
       /\ msg' = [msg EXCEPT ![w] = m]
       /\ job' = [job EXCEPT ![w] = record[m.job]]
       /\ Goto(w, IF record[m.job] = NoRecord THEN "ack" ELSE "start")
  /\ UNCHANGED <<upload, record, count, payload, dlq, attempt, released, faults>>

\* start_attempt: INCR
Counted(n) == IF n <= MAX_ATTEMPTS THEN n + 1 ELSE n

\* A bug the count could have: it starts from the record that was read.
NextFromRecord(w) == Counted(job[w].attempts)

NextAttempt(w) == Counted(count[msg[w].job])
OverLimit(a)   == a > MAX_ATTEMPTS

\* A delivery beyond the limit fails the job with the attempts its record had.
StartAttempt(w) ==
  LET j == msg[w].job
      a == NextAttempt(w)
  IN
  /\ pc[w] = "start"
  /\ count' = [count EXCEPT ![j] = a]
  /\ attempt' = [attempt EXCEPT ![w] = a]
  /\ IF OverLimit(a)
       THEN /\ Goto(w, "fail")
            /\ UNCHANGED job
       ELSE /\ Goto(w, "process")
            /\ job' = [job EXCEPT ![w].attempts = a]
  /\ UNCHANGED <<upload, record, payload, queue, dlq, msg, released, faults>>

\* What the worker saves: its own copy, with a new status.
SaveAs(w, status) ==
  Save(msg[w].job, [status |-> status, attempts |-> job[w].attempts])

SaveProcessing(w) ==
  /\ pc[w] = "process"
  /\ SaveAs(w, "processing")
  /\ Goto(w, "fetch")
  /\ UNCHANGED <<upload, count, payload, queue, dlq, workerVars, faults>>

\* A bug execute could have: without a payload the worker just returns.
FetchPayloadOrReturn(w) ==
  /\ pc[w] = "fetch"
  /\ Goto(w, IF payload[msg[w].job] THEN "ingest" ELSE "ack")
  /\ UNCHANGED <<upload, record, count, payload, queue, dlq, workerVars, faults>>

\* payloads.get: an upload that has expired, or that another delivery has used up, fails.
FetchPayload(w) ==
  /\ pc[w] = "fetch"
  /\ Goto(w, IF payload[msg[w].job] THEN "ingest" ELSE "fail")
  /\ UNCHANGED <<upload, record, count, payload, queue, dlq, workerVars, faults>>

\* A bug the last attempt could have: one more.
LastAttemptMissed(w) == attempt[w] > MAX_ATTEMPTS

LastAttempt(w) == attempt[w] >= MAX_ATTEMPTS

\* ingestion.ingest: in full, or a permanent error, or anything else, which is worth
\* another attempt unless this was the last.
Ingest(w) ==
  /\ pc[w] = "ingest"
  /\ \/ /\ msg[w].job \notin Bad
        /\ Goto(w, "drop")
     \/ /\ msg[w].job \in Bad
        /\ Goto(w, "fail")
     \/ /\ msg[w].job \notin Bad
        /\ Goto(w, IF LastAttempt(w) THEN "fail" ELSE "again")
  /\ UNCHANGED <<upload, record, count, payload, queue, dlq, workerVars, faults>>

DropPayload(w) ==
  /\ pc[w] = "drop"
  /\ payload' = [payload EXCEPT ![msg[w].job] = FALSE]
  /\ Goto(w, "done")
  /\ UNCHANGED <<upload, record, count, queue, dlq, workerVars, faults>>

SaveDone(w) ==
  /\ pc[w] = "done"
  /\ SaveAs(w, "done")
  /\ Goto(w, "ack")
  /\ UNCHANGED <<upload, count, payload, queue, dlq, workerVars, faults>>

\* A bug _fail could have: nothing is pushed.
SaveFailedOnly(w) ==
  /\ pc[w] = "fail"
  /\ SaveAs(w, "failed")
  /\ Goto(w, "ack")
  /\ UNCHANGED <<upload, count, payload, queue, dlq, workerVars, faults>>

\* _fail: the record first, then the dead letter
SaveFailed(w) ==
  /\ pc[w] = "fail"
  /\ SaveAs(w, "failed")
  /\ Goto(w, "bury")
  /\ UNCHANGED <<upload, count, payload, queue, dlq, workerVars, faults>>

\* push; that the queue keeps the newest only, and can be purged, is in JobLedger.
Bury(w) ==
  /\ pc[w] = "bury"
  /\ dlq' = dlq \cup {msg[w].job}
  /\ Goto(w, "ack")
  /\ UNCHANGED <<upload, record, count, payload, queue, workerVars, faults>>

\* A transient failure: back to QUEUED, and then TransientJobError
SaveQueued(w) ==
  /\ pc[w] = "again"
  /\ SaveAs(w, "queued")
  /\ Goto(w, "retry")
  /\ UNCHANGED <<upload, count, payload, queue, dlq, workerVars, faults>>

\* self.retry publishes the next attempt; at max_retries it raises instead and the task is
\* over.
Retry(w) ==
  /\ pc[w] = "retry"
  /\ IF msg[w].retries < MAX_ATTEMPTS - 1
       THEN Put([job |-> msg[w].job, retries |-> msg[w].retries + 1])
       ELSE UNCHANGED queue
  /\ Goto(w, "ack")
  /\ UNCHANGED <<upload, record, count, payload, dlq, workerVars, faults>>

\* The worker forgets its task; the message goes back to the queue if back says so.
Release(w, back) ==
  /\ Goto(w, "idle")
  /\ IF back THEN Put(msg[w]) ELSE UNCHANGED queue
  /\ msg'      = [msg EXCEPT ![w] = NoMessage]
  /\ job'      = [job EXCEPT ![w] = NoRecord]
  /\ attempt'  = [attempt EXCEPT ![w] = 0]
  /\ released' = [released EXCEPT ![w] = FALSE]
  /\ UNCHANGED <<upload, record, count, payload, dlq>>

\* The task has ended, in whatever way: the message is acknowledged.
Ack(w) ==
  /\ pc[w] = "ack"
  /\ Release(w, FALSE)
  /\ UNCHANGED faults

\* A Redis error that is not a TransientJobError fails the task, which is acknowledged too.
RedisRaises(w) ==
  /\ REDIS_ERRORS
  /\ pc[w] \in {"start", "process", "fetch", "drop", "done", "fail", "bury", "again", "retry"}
  /\ Goto(w, "ack")
  /\ UNCHANGED <<upload, record, count, payload, queue, dlq, workerVars, faults>>

(***************************************************************************)
(* Faults and expiries                                                     *)
(***************************************************************************)

\* A bug the Celery settings could have: messages are acknowledged when they arrive.
CrashAckedEarly(w) ==
  /\ CRASHES /\ faults > 0
  /\ pc[w] # "idle"
  /\ faults' = faults - 1
  /\ Release(w, FALSE)

\* The worker is killed: the broker delivers the message again, unless it already has.
Crash(w) ==
  /\ CRASHES /\ faults > 0
  /\ pc[w] # "idle"
  /\ faults' = faults - 1
  /\ Release(w, ~released[w])

\* The visibility timeout passes while the worker is still busy.
Redeliver(w) ==
  /\ TIMEOUTS /\ faults > 0
  /\ pc[w] # "idle" /\ ~released[w]
  /\ faults' = faults - 1
  /\ released' = [released EXCEPT ![w] = TRUE]
  /\ Put(msg[w])
  /\ UNCHANGED <<upload, record, count, payload, dlq, pc, msg, job, attempt>>

ExpirePayload(j) ==
  /\ EXPIRY
  /\ payload[j]
  /\ payload' = [payload EXCEPT ![j] = FALSE]
  /\ UNCHANGED <<upload, record, count, queue, dlq, pc, workerVars, faults>>

\* Retention is longer than a delivery: a record expires when nobody works on it.  Its attempt
\* counter, whose own expiry start_attempt renews a moment before the record is saved again, is
\* taken to expire with it.
ExpireRecord(j) ==
  /\ RETENTION
  /\ upload[j] \in {"queued", "refused"} /\ record[j] # NoRecord
  /\ \A w \in Workers : ~Holds(w, j)
  /\ record' = [record EXCEPT ![j] = NoRecord]
  /\ count' = [count EXCEPT ![j] = 0]
  /\ UNCHANGED <<upload, payload, queue, dlq, pc, workerVars, faults>>

Submit(j) == Park(j) \/ Register(j) \/ Enqueue(j) \/ SubmitRaises(j)

Run(w) ==
  \/ Receive(w) \/ StartAttempt(w) \/ SaveProcessing(w) \/ FetchPayload(w) \/ Ingest(w)
  \/ DropPayload(w) \/ SaveDone(w) \/ SaveFailed(w) \/ Bury(w) \/ SaveQueued(w)
  \/ Retry(w) \/ Ack(w) \/ RedisRaises(w)

Next ==
  \/ \E j \in Jobs : Submit(j) \/ ExpirePayload(j) \/ ExpireRecord(j)
  \/ \E w \in Workers : Run(w) \/ Crash(w) \/ Redeliver(w)

Spec == Init /\ [][Next]_vars

\* Workers keep consuming and every call returns; nothing makes a client upload.
FairSpec == Spec /\ \A w \in Workers : WF_vars(Run(w))

-----------------------------------------------------------------------------
(***************************************************************************)
(* Properties                                                              *)
(***************************************************************************)

TypeOK ==
  /\ upload   \in [Jobs -> Uploads]
  /\ record   \in [Jobs -> Records]
  /\ count    \in [Jobs -> Attempts]
  /\ payload  \in [Jobs -> BOOLEAN]
  /\ queue    \in [Messages -> Nat]
  /\ dlq      \subseteq Jobs
  /\ pc       \in [Workers -> Locations]
  /\ msg      \in [Workers -> Messages \cup {NoMessage}]
  /\ job      \in [Workers -> Records]
  /\ attempt  \in [Workers -> Attempts]
  /\ released \in [Workers -> BOOLEAN]
  /\ faults   \in 0..FAULTS
  /\ \A w \in Workers : pc[w] # "idle" => msg[w] \in Messages

Settled(j) == record[j].status \in {"done", "failed"}

\* A delivery of the job waits, or a worker still has its last word to save.
Waiting(j)  == \E m \in Messages : m.job = j /\ queue[m] > 0
Pending(j)  == \/ upload[j] = "saved"
               \/ Waiting(j)
               \/ \E w \in Workers : Holds(w, j) /\ pc[w] \notin {"bury", "ack"}

\* "A job whose worker is killed is redelivered rather than lost": a job that a client sees
\* queued or processing has somebody to settle it, wherever workers were killed.
NothingLost ==
  \A j \in Jobs : record[j].status \in {"queued", "processing"} => Pending(j)

\* "Either way the final state lands in the dead-letter queue with the reason": a job that
\* is seen failed is in it, or is about to be, even when the worker dies between the two.
FailedIsBuried ==
  \A j \in Jobs : record[j].status = "failed" =>
    \/ j \in dlq
    \/ Waiting(j)
    \/ \E w \in Workers : Holds(w, j) /\ pc[w] # "ack"

\* "Celery's own ceiling should never be reached": self.retry is never called with its
\* retries used up, which would drop a job that says QUEUED.
CeilingNotReached ==
  \A w \in Workers : pc[w] = "retry" => msg[w].retries < MAX_ATTEMPTS - 1

\* A job that keeps killing its workers is attempted max_attempts times and no more: of two
\* deliveries that are let through, each has an attempt number of its own.
Working == {"process", "fetch", "ingest", "drop", "done", "again", "retry"}
AttemptsDiffer ==
  \A v, w \in Workers :
    /\ v # w /\ pc[v] \in Working /\ pc[w] \in Working /\ msg[v].job = msg[w].job
    => attempt[v] # attempt[w]

\* Every accepted upload is settled for good, however its deliveries went.
Settles == \A j \in Jobs : [](upload[j] = "queued" => <>[]Settled(j))

\* When every message is delivered once, a client sees the life cycle it is promised.
Polled == INSTANCE JobLifecycle
LifecycleKept == Polled!Spec
=============================================================================
