-------------------------- MODULE IngestJobsProofs --------------------------
(***************************************************************************)
(* No job is lost and no failure goes unburied, for any number of jobs,    *)
(* workers, attempts and faults.                                           *)
(*                                                                         *)
(* NothingLost rests on the claim that Celery's retry ceiling is never     *)
(* reached, and that on how three counts of the same deliveries, kept by   *)
(* three parties, compare: the retries in the message, the attempt number  *)
(* the worker was given, the counter in Redis.  IInv states that order for *)
(* every message that exists, waiting or held, and every worker.           *)
(*                                                                         *)
(* Where every message is delivered once, the queue implements the life    *)
(* cycle of JobLifecycle: DeliveredOnce says that one delivery of a job    *)
(* is live at a time, and what the record is at each place it can be.      *)
(***************************************************************************)
EXTENDS IngestJobs, TLAPS

\* A message for which somebody may still call execute: its upload was accepted, and while
\* its record lives, it has not been retried more often than it was counted.
Accounted(m) ==
  /\ upload[m.job] = "queued"
  /\ record[m.job] # NoRecord => m.retries <= count[m.job]

WorkerOK(w) ==
  /\ pc[w] # "idle" => Accounted(msg[w])
  /\ pc[w] \notin {"idle", "ack"} => record[msg[w].job] # NoRecord
  /\ pc[w] \in Working => msg[w].retries < attempt[w] /\ attempt[w] <= count[msg[w].job]
  /\ pc[w] \in {"again", "retry"} => attempt[w] < MAX_ATTEMPTS

IInv ==
  /\ TypeOK
  /\ \A m \in Messages : queue[m] > 0 => Accounted(m)
  /\ \A w \in Workers : WorkerOK(w)
  /\ AttemptsDiffer

LEMMA MessageFields ==
  ASSUME NEW m \in Messages
  PROVE  m.job \in Jobs /\ m.retries \in 0..MAX_ATTEMPTS - 1
BY DEF Messages

LEMMA HeldMessage ==
  ASSUME TypeOK, NEW w \in Workers, pc[w] # "idle"
  PROVE  msg[w] \in Messages /\ msg[w].job \in Jobs /\ msg[w].retries \in 0..MAX_ATTEMPTS - 1
<1>1. msg[w] \in Messages
  BY DEF TypeOK
<1> QED
  BY <1>1, MessageFields

\* A function keeps its type when one argument gets another value of it.
LEMMA Updated ==
  ASSUME NEW S, NEW T, NEW f \in [S -> T], NEW x, NEW v \in T
  PROVE  [f EXCEPT ![x] = v] \in [S -> T]
OBVIOUS

\* The messages stay accounted for when the uploads and the counters are as they were and no
\* job's record comes into being.
LEMMA StillAccounted ==
  ASSUME NEW m, Accounted(m), upload'[m.job] = upload[m.job], count'[m.job] = count[m.job],
         record'[m.job] # NoRecord => record[m.job] # NoRecord
  PROVE  Accounted(m)'
BY DEF Accounted

LEMMA Initially == Init => IInv
<1> SUFFICES ASSUME Init PROVE IInv
  OBVIOUS
<1>1. record \in [Jobs -> Records] /\ job \in [Workers -> Records]
  BY AttemptsAssumption DEF Init, NoRecord, Records, Statuses
<1>2. count \in [Jobs -> Attempts] /\ attempt \in [Workers -> Attempts]
  BY AttemptsAssumption DEF Init, Attempts
<1>3. payload \in [Jobs -> BOOLEAN] /\ released \in [Workers -> BOOLEAN]
  BY DEF Init
<1>4. upload \in [Jobs -> Uploads] /\ pc \in [Workers -> Locations]
  BY DEF Init, Uploads, Locations
<1>5. TypeOK
  BY <1>1, <1>2, <1>3, <1>4, FaultsAssumption DEF Init, TypeOK
<1> QED
  BY <1>5 DEF Init, IInv, WorkerOK, AttemptsDiffer, Working

\* A worker goes on with its task: it may save the record, use up the payload or push a dead
\* letter.
LEMMA Moves ==
  ASSUME IInv, NEW w \in Workers, NEW l \in Locations \ {"idle", "start"},
         pc[w] \notin {"idle", "ack"}, Goto(w, l),
         l \in Working => pc[w] \in Working,
         l \in {"again", "retry"} => attempt[w] < MAX_ATTEMPTS,
         record' = record \/ \E r \in Records : r # NoRecord /\ Save(msg[w].job, r),
         payload' \in [Jobs -> BOOLEAN], dlq' \subseteq Jobs,
         UNCHANGED <<upload, count, queue, workerVars, faults>>
  PROVE  IInv'
<1>1. TypeOK /\ WorkerOK(w) /\ msg[w] \in Messages /\ msg[w].job \in Jobs
  BY HeldMessage DEF IInv
<1>2. record' \in [Jobs -> Records]
  BY <1>1 DEF Save, TypeOK
<1>3. \A j \in Jobs : record[j] # NoRecord <=> record'[j] # NoRecord
  BY <1>1 DEF Save, TypeOK, WorkerOK
<1>4. pc' \in [Workers -> Locations] /\ \A v \in Workers \ {w} : pc'[v] = pc[v]
  BY <1>1 DEF Goto, TypeOK
<1>5. pc'[w] = l
  BY <1>1 DEF Goto, TypeOK
<1>6. TypeOK'
  BY <1>1, <1>2, <1>4, <1>5 DEF TypeOK, workerVars
<1>7. \A m \in Messages : Accounted(m) => Accounted(m)'
  BY <1>3, MessageFields, StillAccounted
<1>8. ASSUME NEW m \in Messages, queue'[m] > 0 PROVE Accounted(m)'
  BY <1>7, <1>8 DEF IInv
<1>9. ASSUME NEW v \in Workers PROVE WorkerOK(v)'
  <2>1. CASE pc[v] = "idle"
    BY <2>1, <1>4, <1>9 DEF WorkerOK, Working
  <2>2. CASE pc[v] # "idle"
    <3>1. WorkerOK(v) /\ msg[v] \in Messages /\ msg[v].job \in Jobs /\ Accounted(msg[v])
      BY <1>1, <1>9, <2>2, HeldMessage DEF IInv, WorkerOK
    <3>2. Accounted(msg[v])' /\ (record[msg[v].job] # NoRecord => (record[msg[v].job] # NoRecord)')
      BY <3>1, <1>7, <1>3 DEF workerVars, Accounted
    <3>3. CASE v = w
      BY <3>1, <3>2, <3>3, <1>5 DEF WorkerOK, workerVars
    <3>4. CASE v # w
      BY <3>1, <3>2, <3>4, <1>4 DEF WorkerOK, workerVars
    <3> QED
      BY <3>3, <3>4
  <2> QED
    BY <2>1, <2>2
<1>10. AttemptsDiffer'
  <2>1. \A v \in Workers : pc'[v] \in Working => pc[v] \in Working
    BY <1>4, <1>5
  <2> QED
    BY <2>1 DEF AttemptsDiffer, IInv, workerVars
<1> QED
  BY <1>6, <1>8, <1>9, <1>10 DEF IInv

\* A step that no worker takes: the API, an expiry.
LEMMA Elsewhere ==
  ASSUME IInv, TypeOK', UNCHANGED <<pc, workerVars>>,
         \A m \in Messages : Accounted(m) => Accounted(m)',
         \A m \in Messages : queue'[m] > 0 => queue[m] > 0 \/ Accounted(m)',
         \A w \in Workers : pc[w] # "idle" =>
            /\ count'[msg[w].job] = count[msg[w].job]
            /\ record[msg[w].job] # NoRecord => record'[msg[w].job] # NoRecord
  PROVE  IInv'
<1>1. \A m \in Messages : queue'[m] > 0 => Accounted(m)'
  BY DEF IInv
<1>2. ASSUME NEW w \in Workers PROVE WorkerOK(w)'
  <2>1. CASE pc[w] = "idle"
    BY <2>1 DEF WorkerOK, Working
  <2>2. CASE pc[w] # "idle"
    <3>1. WorkerOK(w) /\ msg[w] \in Messages
      BY <2>2, HeldMessage DEF IInv
    <3>2. Accounted(msg[w])'
      BY <2>2, <3>1 DEF WorkerOK, workerVars
    <3> QED
      BY <2>2, <3>1, <3>2 DEF WorkerOK, workerVars
  <2> QED
    BY <2>1, <2>2
<1>3. AttemptsDiffer'
  BY DEF IInv, AttemptsDiffer, workerVars
<1> QED
  BY <1>1, <1>2, <1>3 DEF IInv

LEMMA SubmitKeeps ==
  ASSUME IInv, NEW j \in Jobs, Submit(j)
  PROVE  IInv'
<1>1. TypeOK
  BY DEF IInv
<1>2. ASSUME NEW m \in Messages, Accounted(m) PROVE m.job \in Jobs /\ upload[m.job] = "queued"
  BY <1>2, MessageFields DEF Accounted
<1>3. \A w \in Workers : pc[w] # "idle" => msg[w].job \in Jobs /\ upload[msg[w].job] = "queued"
  BY <1>1, HeldMessage DEF IInv, WorkerOK, Accounted
<1>4. CASE Park(j)
  <2>1. TypeOK'
    BY <1>1, <1>4 DEF Park, TypeOK, Uploads, workerVars
  <2>2. \A m \in Messages : Accounted(m) => Accounted(m)'
    BY <1>1, <1>2, <1>4 DEF Park, TypeOK, Accounted
  <2> QED
    BY <1>4, <2>1, <2>2, Elsewhere DEF Park
<1>5. CASE Register(j)
  <2>1. [status |-> "queued", attempts |-> 0] \in Records
    BY AttemptsAssumption DEF Records, Statuses
  <2>2. TypeOK'
    BY <1>1, <1>5, <2>1 DEF Register, Save, TypeOK, Uploads, workerVars
  <2>3. \A i \in Jobs \ {j} : upload'[i] = upload[i] /\ record'[i] = record[i]
    BY <1>1, <1>5 DEF Register, Save, TypeOK
  <2>4. \A m \in Messages : Accounted(m) => Accounted(m)'
    BY <1>2, <1>5, <2>3 DEF Register, Accounted
  <2>5. \A w \in Workers : pc[w] # "idle" => record'[msg[w].job] = record[msg[w].job]
    BY <1>3, <1>5, <2>3 DEF Register
  <2> QED
    BY <1>5, <2>2, <2>4, <2>5, Elsewhere DEF Register
<1>6. CASE Enqueue(j)
  <2> DEFINE first == [job |-> j, retries |-> 0]
  <2>1. first \in Messages
    BY AttemptsAssumption DEF Messages
  <2>2. TypeOK' /\ queue' = [queue EXCEPT ![first] = queue[first] + 1]
    <3>1. queue[first] + 1 \in Nat
      BY <1>1, <2>1 DEF TypeOK
    <3>2. queue' \in [Messages -> Nat]
      BY <1>1, <1>6, <2>1, <3>1, Updated DEF Enqueue, Put, TypeOK
    <3> QED
      BY <1>1, <1>6, <3>2 DEF Enqueue, Put, TypeOK, Uploads, workerVars
  <2>3. \A m \in Messages : Accounted(m) => Accounted(m)'
    BY <1>1, <1>2, <1>6 DEF Enqueue, TypeOK, Accounted
  <2>4. Accounted(first)'
    BY <1>1, <1>6 DEF Enqueue, TypeOK, Accounted, Attempts
  <2>5. \A m \in Messages : queue'[m] > 0 => queue[m] > 0 \/ m = first
    BY <1>1, <2>1, <2>2 DEF TypeOK
  <2> QED
    BY <1>6, <2>2, <2>3, <2>4, <2>5, Elsewhere DEF Enqueue
<1>7. CASE SubmitRaises(j)
  <2>1. TypeOK'
    BY <1>1, <1>7 DEF SubmitRaises, TypeOK, Uploads, workerVars
  <2>2. \A m \in Messages : Accounted(m) => Accounted(m)'
    BY <1>1, <1>2, <1>7 DEF SubmitRaises, TypeOK, Accounted
  <2> QED
    BY <1>7, <2>1, <2>2, Elsewhere DEF SubmitRaises
<1> QED
  BY <1>4, <1>5, <1>6, <1>7 DEF Submit

LEMMA ExpiryKeeps ==
  ASSUME IInv, NEW j \in Jobs, ExpirePayload(j) \/ ExpireRecord(j)
  PROVE  IInv'
<1>1. TypeOK
  BY DEF IInv
<1>2. CASE ExpirePayload(j)
  <2>1. TypeOK'
    BY <1>1, <1>2 DEF ExpirePayload, TypeOK, workerVars
  <2>2. \A m \in Messages : Accounted(m) => Accounted(m)'
    BY <1>2 DEF ExpirePayload, Accounted
  <2> QED
    BY <1>2, <2>1, <2>2, Elsewhere DEF ExpirePayload
<1>3. CASE ExpireRecord(j)
  <2>1. NoRecord \in Records /\ 0 \in Attempts
    BY AttemptsAssumption DEF Records, NoRecord, Statuses, Attempts
  <2>2. record' \in [Jobs -> Records] /\ count' \in [Jobs -> Attempts]
    BY <1>1, <1>3, <2>1, Updated DEF ExpireRecord, TypeOK
  <2>3. TypeOK'
    BY <1>1, <1>3, <2>2 DEF ExpireRecord, TypeOK, workerVars
  <2>4. /\ record'[j] = NoRecord
        /\ \A i \in Jobs \ {j} : record'[i] = record[i] /\ count'[i] = count[i]
    BY <1>1, <1>3 DEF ExpireRecord, TypeOK
  <2>5. \A m \in Messages : Accounted(m) => Accounted(m)'
    BY <1>3, <2>4, MessageFields DEF ExpireRecord, Accounted
  <2>6. \A w \in Workers : pc[w] # "idle" => msg[w].job \in Jobs \ {j}
    BY <1>1, <1>3, HeldMessage DEF ExpireRecord, Holds
  <2> QED
    BY <1>3, <2>3, <2>4, <2>5, <2>6, Elsewhere DEF ExpireRecord
<1> QED
  BY <1>2, <1>3

LEMMA SavesRecord ==
  ASSUME TypeOK, NEW w \in Workers, NEW s \in Statuses \ {"none"}, SaveAs(w, s)
  PROVE  \E r \in Records : r # NoRecord /\ Save(msg[w].job, r)
<1> DEFINE r == [status |-> s, attempts |-> job[w].attempts]
<1>1. r \in Records /\ r # NoRecord
  BY DEF TypeOK, Records, NoRecord
<1> QED
  BY <1>1 DEF SaveAs

\* The steps that only move the worker on.
Proceeds(w) ==
  \/ SaveProcessing(w) \/ FetchPayload(w) \/ Ingest(w) \/ DropPayload(w) \/ SaveDone(w)
  \/ SaveFailed(w) \/ Bury(w) \/ SaveQueued(w) \/ RedisRaises(w)

LEMMA ProceedsKeeps ==
  ASSUME IInv, NEW w \in Workers, Proceeds(w)
  PROVE  IInv'
<1>1. TypeOK /\ WorkerOK(w)
  BY DEF IInv
<1>2. CASE SaveProcessing(w)
  BY <1>1, <1>2, SavesRecord, Moves DEF SaveProcessing, Locations, Working, Statuses, TypeOK
<1>3. CASE FetchPayload(w)
  <2>1. CASE payload[msg[w].job]
    BY <1>1, <1>3, <2>1, Moves DEF FetchPayload, Locations, Working, TypeOK
  <2>2. CASE ~payload[msg[w].job]
    BY <1>1, <1>3, <2>2, Moves DEF FetchPayload, Locations, Working, TypeOK
  <2> QED
    BY <2>1, <2>2
<1>4. CASE Ingest(w)
  <2>1. CASE Goto(w, "drop")
    BY <1>1, <1>4, <2>1, Moves DEF Ingest, Locations, Working, TypeOK
  <2>2. CASE Goto(w, "fail")
    BY <1>1, <1>4, <2>2, Moves DEF Ingest, Locations, Working, TypeOK
  <2>3. CASE Goto(w, "again") /\ ~LastAttempt(w)
    <3>1. attempt[w] < MAX_ATTEMPTS
      BY <1>1, <2>3, AttemptsAssumption DEF LastAttempt, TypeOK, Attempts
    <3> QED
      BY <1>1, <1>4, <2>3, <3>1, Moves DEF Ingest, Locations, Working, TypeOK
  <2> QED
    BY <1>4, <2>1, <2>2, <2>3 DEF Ingest
<1>5. CASE DropPayload(w)
  <2>1. payload' \in [Jobs -> BOOLEAN]
    BY <1>1, <1>5 DEF DropPayload, TypeOK
  <2> QED
    BY <1>1, <1>5, <2>1, Moves DEF DropPayload, Locations, Working, TypeOK
<1>6. CASE SaveDone(w)
  BY <1>1, <1>6, SavesRecord, Moves DEF SaveDone, Locations, Working, Statuses, TypeOK
<1>7. CASE SaveFailed(w)
  BY <1>1, <1>7, SavesRecord, Moves DEF SaveFailed, Locations, Working, Statuses, TypeOK
<1>8. CASE Bury(w)
  <2>1. dlq' \subseteq Jobs
    BY <1>1, <1>8, HeldMessage DEF Bury, TypeOK
  <2> QED
    BY <1>1, <1>8, <2>1, Moves DEF Bury, Locations, Working, TypeOK
<1>9. CASE SaveQueued(w)
  BY <1>1, <1>9, SavesRecord, Moves
     DEF SaveQueued, Locations, Working, Statuses, TypeOK, WorkerOK
<1>10. CASE RedisRaises(w)
  <2>1. CASE pc[w] = "start"
    BY <1>1, <1>10, <2>1, Moves DEF RedisRaises, Locations, Working, TypeOK
  <2>2. CASE pc[w] # "start"
    BY <1>1, <1>10, <2>2, Moves DEF RedisRaises, Locations, Working, TypeOK
  <2> QED
    BY <2>1, <2>2
<1> QED
  BY <1>2, <1>3, <1>4, <1>5, <1>6, <1>7, <1>8, <1>9, <1>10 DEF Proceeds

\* A new attempt is numbered above every attempt of the job that is under way, and above the
\* retries of its message.
LEMMA StartKeeps ==
  ASSUME IInv, NEW w \in Workers, StartAttempt(w)
  PROVE  IInv'
<1> DEFINE j == msg[w].job
           a == NextAttempt(w)
<1>1. TypeOK /\ WorkerOK(w) /\ pc[w] = "start" /\ j \in Jobs /\ msg[w] \in Messages
  BY HeldMessage DEF IInv, StartAttempt
<1>2. a \in Attempts /\ a >= count[j] /\ (a <= MAX_ATTEMPTS => a = count[j] + 1)
  BY <1>1, AttemptsAssumption DEF NextAttempt, Counted, TypeOK, Attempts
<1>3. /\ count' = [count EXCEPT ![j] = a] /\ attempt' = [attempt EXCEPT ![w] = a]
      /\ UNCHANGED <<upload, record, payload, queue, dlq, msg, released, faults>>
      /\ \/ a > MAX_ATTEMPTS /\ Goto(w, "fail") /\ UNCHANGED job
         \/ a <= MAX_ATTEMPTS /\ Goto(w, "process") /\ job' = [job EXCEPT ![w].attempts = a]
  BY <1>2, AttemptsAssumption DEF StartAttempt, OverLimit, Attempts
<1> HIDE DEF a
<1>4. count' \in [Jobs -> Attempts] /\ attempt' \in [Workers -> Attempts]
  BY <1>1, <1>2, <1>3, Updated DEF TypeOK
<1>5. job' \in [Workers -> Records]
  <2>1. CASE UNCHANGED job
    BY <1>1, <2>1 DEF TypeOK
  <2>2. CASE a <= MAX_ATTEMPTS /\ job' = [job EXCEPT ![w].attempts = a]
    <3>1. job[w] \in Records /\ a \in 0..MAX_ATTEMPTS
      BY <1>1, <1>2, <2>2, AttemptsAssumption DEF TypeOK, Attempts
    <3>2. [job[w] EXCEPT !.attempts = a] \in Records
      BY <3>1 DEF Records
    <3> QED
      BY <1>1, <2>2, <3>2 DEF TypeOK
  <2> QED
    BY <1>3, <2>1, <2>2
<1>6. pc' \in [Workers -> Locations]
  BY <1>1, <1>3 DEF Goto, TypeOK, Locations
<1>7. TypeOK'
  BY <1>1, <1>3, <1>4, <1>5, <1>6 DEF TypeOK, Goto
<1>8. \A i \in Jobs : count'[i] >= count[i] /\ (i # j => count'[i] = count[i])
  BY <1>1, <1>2, <1>3 DEF TypeOK, Attempts
<1>9. ASSUME NEW m \in Messages, Accounted(m) PROVE Accounted(m)'
  BY <1>1, <1>3, <1>4, <1>8, <1>9, MessageFields DEF Accounted, TypeOK, Attempts
<1>10. ASSUME NEW v \in Workers PROVE WorkerOK(v)'
  <2>1. CASE v = w
    <3>1. Accounted(msg[w])' /\ record[j] # NoRecord /\ msg[w].retries <= count[j]
      BY <1>1, <1>3, <1>9 DEF WorkerOK, Accounted
    <3>2. attempt'[w] = a /\ count'[j] = a /\ msg'[w] = msg[w] /\ record' = record
      BY <1>1, <1>3 DEF TypeOK
    <3>3. \/ pc'[w] = "fail"
          \/ pc'[w] = "process" /\ a = count[j] + 1
      BY <1>1, <1>2, <1>3 DEF Goto, TypeOK
    <3>4. msg[w].retries \in Nat /\ count[j] \in Nat /\ a \in Nat
      BY <1>1, <1>2, HeldMessage DEF TypeOK, Attempts
    <3> QED
      BY <2>1, <3>1, <3>2, <3>3, <3>4 DEF WorkerOK, Working
  <2>2. CASE v # w
    <3>1. pc'[v] = pc[v] /\ attempt'[v] = attempt[v] /\ msg' = msg /\ record' = record
      BY <1>1, <1>3, <2>2 DEF Goto, TypeOK
    <3>2. CASE pc[v] = "idle"
      BY <3>1, <3>2 DEF WorkerOK, Working
    <3>3. CASE pc[v] # "idle"
      <4>1. WorkerOK(v) /\ msg[v] \in Messages /\ msg[v].job \in Jobs
        BY <1>1, <3>3, HeldMessage DEF IInv
      <4>2. Accounted(msg[v])'
        BY <3>1, <3>3, <4>1, <1>9 DEF WorkerOK
      <4>3. attempt[v] <= count[msg[v].job] => attempt[v] <= count'[msg[v].job]
        BY <1>1, <1>4, <1>8, <4>1 DEF TypeOK, Attempts
      <4> QED
        BY <3>1, <4>1, <4>2, <4>3 DEF WorkerOK
    <3> QED
      BY <3>2, <3>3
  <2> QED
    BY <2>1, <2>2
<1>11. AttemptsDiffer'
  <2>1. ASSUME NEW v \in Workers \ {w}, pc'[v] \in Working, pc'[w] \in Working, msg[v].job = j
        PROVE  attempt'[v] # attempt'[w]
    <3>1. pc[v] \in Working /\ attempt'[v] = attempt[v] /\ attempt'[w] = a
      BY <1>1, <1>3, <2>1 DEF Goto, TypeOK
    <3>2. a = count[j] + 1
      BY <1>1, <1>2, <1>3, <2>1, AttemptsAssumption DEF Goto, TypeOK, Working
    <3>3. attempt[v] <= count[j] /\ attempt[v] \in Nat /\ count[j] \in Nat
      BY <1>1, <2>1, <3>1 DEF IInv, WorkerOK, TypeOK, Attempts
    <3> QED
      BY <3>1, <3>2, <3>3
  <2>2. \A v \in Workers \ {w} : pc'[v] = pc[v] /\ attempt'[v] = attempt[v] /\ msg' = msg
    BY <1>1, <1>3 DEF Goto, TypeOK
  <2> QED
    BY <2>1, <2>2 DEF AttemptsDiffer, IInv
<1> QED
  BY <1>3, <1>7, <1>9, <1>10, <1>11 DEF IInv

\* A message changes hands between the broker and a worker.
LEMMA Handover ==
  ASSUME IInv, TypeOK', NEW w \in Workers, WorkerOK(w)',
         UNCHANGED <<upload, record, count>>,
         \A m \in Messages : queue'[m] > 0 => queue[m] > 0 \/ Accounted(m),
         \A v \in Workers \ {w} : pc'[v] = pc[v] /\ msg'[v] = msg[v] /\ attempt'[v] = attempt[v],
         \/ pc'[w] \notin Working
         \/ pc'[w] = pc[w] /\ msg'[w] = msg[w] /\ attempt'[w] = attempt[w]
  PROVE  IInv'
<1>1. \A m \in Messages : queue'[m] > 0 => Accounted(m)'
  BY DEF IInv, Accounted
<1>2. \A v \in Workers \ {w} : WorkerOK(v)'
  BY DEF IInv, WorkerOK, Accounted
<1>3. AttemptsDiffer'
  BY DEF IInv, AttemptsDiffer
<1> QED
  BY <1>1, <1>2, <1>3 DEF IInv

LEMMA QueueType ==
  ASSUME TypeOK, NEW m \in Messages
  PROVE  /\ Put(m) => queue' \in [Messages -> Nat]
         /\ Put(m) => \A n \in Messages : queue'[n] > 0 => queue[n] > 0 \/ n = m
<1>1. queue[m] + 1 \in Nat /\ queue \in [Messages -> Nat]
  BY DEF TypeOK
<1>2. ASSUME Put(m) PROVE queue' \in [Messages -> Nat]
  BY <1>1, <1>2, Updated DEF Put
<1>3. ASSUME Put(m) PROVE \A n \in Messages : queue'[n] > 0 => queue[n] > 0 \/ n = m
  BY <1>1, <1>3 DEF Put
<1> QED
  BY <1>2, <1>3

LEMMA ReceiveKeeps ==
  ASSUME IInv, NEW w \in Workers, Receive(w)
  PROVE  IInv'
<1>1. TypeOK /\ pc[w] = "idle"
  BY DEF IInv, Receive
<1>2. PICK m \in Messages :
        /\ queue[m] > 0
        /\ queue' = [queue EXCEPT ![m] = queue[m] - 1]
        /\ msg' = [msg EXCEPT ![w] = m]
        /\ job' = [job EXCEPT ![w] = record[m.job]]
        /\ Goto(w, IF record[m.job] = NoRecord THEN "ack" ELSE "start")
  BY DEF Receive
<1>3. queue[m] - 1 \in Nat /\ queue \in [Messages -> Nat] /\ m.job \in Jobs
  BY <1>1, <1>2, MessageFields DEF TypeOK
<1>4. queue' \in [Messages -> Nat]
  BY <1>2, <1>3, Updated
<1>5. job' \in [Workers -> Records] /\ msg' \in [Workers -> Messages \cup {NoMessage}]
  BY <1>1, <1>2, <1>3, Updated DEF TypeOK
<1>6. pc'[w] \in {"ack", "start"} /\ pc' \in [Workers -> Locations]
  BY <1>1, <1>2 DEF Goto, TypeOK, Locations
<1>7. /\ msg'[w] = m
      /\ \A v \in Workers \ {w} : pc'[v] = pc[v] /\ msg'[v] = msg[v] /\ attempt'[v] = attempt[v]
  BY <1>1, <1>2 DEF Receive, Goto, TypeOK
<1>8. TypeOK'
  BY <1>1, <1>4, <1>5, <1>6, <1>7 DEF Receive, TypeOK
<1>9. Accounted(m) /\ (pc'[w] = "start" => record[m.job] # NoRecord)
  BY <1>1, <1>2 DEF IInv, Goto, TypeOK
<1>10. WorkerOK(w)'
  BY <1>6, <1>7, <1>9 DEF Receive, WorkerOK, Working, Accounted
<1>11. \A n \in Messages : queue'[n] > 0 => queue[n] > 0
  BY <1>2, <1>3
<1> QED
  BY <1>6, <1>7, <1>8, <1>10, <1>11, Handover DEF Receive, Working

\* The ceiling is out of reach: the retries are behind the attempts, and these below their
\* limit.
LEMMA BelowCeiling ==
  ASSUME IInv, NEW w \in Workers, pc[w] = "retry"
  PROVE  msg[w].retries < MAX_ATTEMPTS - 1
<1>1. msg[w].retries < attempt[w] /\ attempt[w] < MAX_ATTEMPTS
  BY DEF IInv, WorkerOK, Working
<1>2. msg[w].retries \in Nat /\ attempt[w] \in Nat
  BY HeldMessage DEF IInv, TypeOK, Attempts
<1> QED
  BY <1>1, <1>2, AttemptsAssumption

LEMMA RetryKeeps ==
  ASSUME IInv, NEW w \in Workers, Retry(w)
  PROVE  IInv'
<1> DEFINE next == [job |-> msg[w].job, retries |-> msg[w].retries + 1]
<1>1. TypeOK /\ WorkerOK(w) /\ pc[w] = "retry" /\ msg[w] \in Messages
  BY HeldMessage DEF IInv, Retry
<1>2. msg[w].job \in Jobs /\ msg[w].retries \in Nat /\ msg[w].retries < MAX_ATTEMPTS - 1
  BY <1>1, BelowCeiling, MessageFields
<1>3. next \in Messages /\ Put(next)
  BY <1>1, <1>2, AttemptsAssumption DEF Messages, Retry
<1>4. Accounted(next)
  <2>1. msg[w].retries < attempt[w] /\ attempt[w] <= count[msg[w].job]
    BY <1>1 DEF WorkerOK, Working
  <2>2. attempt[w] \in Nat /\ count[msg[w].job] \in Nat
    BY <1>1, <1>2 DEF TypeOK, Attempts
  <2>3. msg[w].retries + 1 <= count[msg[w].job]
    BY <1>2, <2>1, <2>2
  <2> QED
    BY <1>1, <2>3 DEF Accounted, WorkerOK
<1> HIDE DEF next
<1>5. pc'[w] = "ack" /\ \A v \in Workers \ {w} : pc'[v] = pc[v]
  BY <1>1 DEF Retry, Goto, TypeOK
<1>6. TypeOK'
  <2>1. queue' \in [Messages -> Nat]
    BY <1>1, <1>3, QueueType
  <2> QED
    BY <1>1, <1>5, <2>1 DEF Retry, TypeOK, Goto, Locations, workerVars
<1>7. WorkerOK(w)'
  BY <1>1, <1>5 DEF Retry, WorkerOK, Working, Accounted, workerVars
<1>8. \A m \in Messages : queue'[m] > 0 => queue[m] > 0 \/ Accounted(m)
  BY <1>1, <1>3, <1>4, QueueType
<1> QED
  BY <1>5, <1>6, <1>7, <1>8, Handover DEF Retry, Working, workerVars

LEMMA ReleaseKeeps ==
  ASSUME IInv, NEW w \in Workers, pc[w] # "idle", NEW back \in BOOLEAN, Release(w, back),
         faults' \in 0..FAULTS
  PROVE  IInv'
<1>1. TypeOK /\ WorkerOK(w) /\ msg[w] \in Messages
  BY HeldMessage DEF IInv
<1>2. /\ queue' \in [Messages -> Nat]
      /\ \A m \in Messages : queue'[m] > 0 => queue[m] > 0 \/ Accounted(m)
  <2>1. CASE back
    BY <1>1, <2>1, QueueType DEF Release, WorkerOK
  <2>2. CASE ~back
    BY <1>1, <2>2 DEF Release, TypeOK
  <2> QED
    BY <2>1, <2>2
<1>3. /\ pc'[w] = "idle" /\ pc' \in [Workers -> Locations]
      /\ \A v \in Workers \ {w} : pc'[v] = pc[v] /\ msg'[v] = msg[v] /\ attempt'[v] = attempt[v]
  BY <1>1 DEF Release, Goto, TypeOK, Locations
<1>4. NoRecord \in Records /\ 0 \in Attempts
  BY AttemptsAssumption DEF NoRecord, Records, Statuses, Attempts
<1>5. /\ job' \in [Workers -> Records] /\ attempt' \in [Workers -> Attempts]
      /\ msg' \in [Workers -> Messages \cup {NoMessage}]
  BY <1>1, <1>4, Updated DEF Release, TypeOK
<1>6. released' \in [Workers -> BOOLEAN]
  BY <1>1 DEF Release, TypeOK
<1>7. TypeOK'
  BY <1>1, <1>2, <1>3, <1>5, <1>6 DEF Release, TypeOK
<1>8. WorkerOK(w)'
  BY <1>3 DEF WorkerOK, Working
<1> QED
  BY <1>2, <1>3, <1>7, <1>8, Handover DEF Release, Working

LEMMA RedeliverKeeps ==
  ASSUME IInv, NEW w \in Workers, Redeliver(w)
  PROVE  IInv'
<1>1. TypeOK /\ WorkerOK(w) /\ msg[w] \in Messages /\ pc[w] # "idle" /\ Put(msg[w])
  BY HeldMessage DEF IInv, Redeliver
<1>2. faults' \in 0..FAULTS /\ released' \in [Workers -> BOOLEAN]
  BY <1>1, FaultsAssumption DEF Redeliver, TypeOK
<1>3. TypeOK'
  BY <1>1, <1>2, QueueType DEF Redeliver, TypeOK
<1>4. \A m \in Messages : queue'[m] > 0 => queue[m] > 0 \/ Accounted(m)
  BY <1>1, QueueType DEF WorkerOK
<1>5. WorkerOK(w)'
  BY <1>1 DEF Redeliver, WorkerOK, Accounted
<1> QED
  BY <1>3, <1>4, <1>5, Handover DEF Redeliver

LEMMA Step ==
  ASSUME IInv, [Next]_vars
  PROVE  IInv'
<1>1. ASSUME NEW j \in Jobs, Submit(j) \/ ExpirePayload(j) \/ ExpireRecord(j) PROVE IInv'
  BY <1>1, SubmitKeeps, ExpiryKeeps
<1>2. ASSUME NEW w \in Workers, Run(w) PROVE IInv'
  <2>1. CASE Ack(w)
    <3>1. faults' \in 0..FAULTS /\ pc[w] # "idle"
      BY <2>1 DEF Ack, IInv, TypeOK
    <3> QED
      BY <2>1, <3>1, ReleaseKeeps DEF Ack
  <2> QED
    BY <1>2, <2>1, ReceiveKeeps, StartKeeps, ProceedsKeeps, RetryKeeps DEF Run, Proceeds
<1>3. ASSUME NEW w \in Workers, Crash(w) PROVE IInv'
  <2>1. faults' \in 0..FAULTS /\ released[w] \in BOOLEAN
    BY <1>3, FaultsAssumption DEF Crash, IInv, TypeOK
  <2>2. (~released[w]) \in BOOLEAN
    BY <2>1
  <2> QED
    BY <1>3, <2>1, <2>2, ReleaseKeeps DEF Crash
<1>4. ASSUME NEW w \in Workers, Redeliver(w) PROVE IInv'
  BY <1>4, RedeliverKeeps
<1>5. CASE UNCHANGED vars
  BY <1>5 DEF vars, workerVars, IInv, TypeOK, WorkerOK, Accounted, AttemptsDiffer
<1> QED
  BY <1>1, <1>2, <1>3, <1>4, <1>5 DEF Next

LEMMA Inductive == Spec => []IInv
BY Initially, Step, PTL DEF Spec

\* Types, and that a busy worker holds a message: TypeOK of the runs.
THEOREM TypeCorrect == Spec => []TypeOK
<1>1. IInv => TypeOK
  BY DEF IInv
<1> QED
  BY <1>1, Inductive, PTL

\* "Celery's own ceiling should never be reached" (celery_app.py), with crashes, repeated
\* deliveries, Redis errors and expiries.
THEOREM CeilingNeverReached == Spec => []CeilingNotReached
<1>1. IInv => CeilingNotReached
  BY BelowCeiling DEF CeilingNotReached
<1> QED
  BY <1>1, Inductive, PTL

\* Two deliveries of a job that are both let through have different attempt numbers, so at
\* most MAX_ATTEMPTS of them ever are (JobStore.start_attempt).
THEOREM AttemptsApart == Spec => []AttemptsDiffer
<1>1. IInv => AttemptsDiffer
  BY DEF IInv
<1> QED
  BY <1>1, Inductive, PTL

(***************************************************************************)
(* Nothing lost, nothing unburied                                          *)
(***************************************************************************)

\* Somebody has yet to deal with job j, other than workers at one of the places in S.
Alive(j, S) == Waiting(j) \/ \E w \in Workers : Holds(w, j) /\ pc[w] \notin S

\* What keeps a job alive in every step but that of the worker which has dealt with it.
LEMMA AliveStays ==
  ASSUME NEW j \in Jobs, NEW S, Alive(j, S), NEW w \in Workers,
         \A m \in Messages : m.job = j /\ queue[m] > 0 => queue'[m] > 0,
         \A v \in Workers \ {w} : pc'[v] = pc[v] /\ msg'[v] = msg[v],
         Holds(w, j) /\ pc[w] \notin S => Alive(j, S)'
  PROVE  Alive(j, S)'
BY DEF Alive, Waiting, Holds

\* A worker that keeps its message at a place outside S is alive for its job.
LEMMA HolderAlive ==
  ASSUME NEW S, NEW w \in Workers, pc'[w] \notin S, pc'[w] # "idle", msg'[w] = msg[w]
  PROVE  Alive(msg[w].job, S)'
BY DEF Alive, Holds

LEMMA PutAlive ==
  ASSUME TypeOK, NEW m \in Messages, Put(m)
  PROVE  /\ \A S : Alive(m.job, S)'
         /\ \A n \in Messages : queue[n] > 0 => queue'[n] > 0
<1>1. queue'[m] > 0 /\ \A n \in Messages : queue[n] > 0 => queue'[n] > 0
  BY DEF TypeOK, Put
<1> QED
  BY <1>1 DEF Alive, Waiting

\* The steps with which a worker has dealt with its job.
Settling(w) == SaveDone(w) \/ SaveFailed(w) \/ Bury(w)

\* No step of a worker, and no fault, leaves a job with a record to nobody, except a step
\* that deals with it.
LEMMA AliveStep ==
  ASSUME IInv, REDIS_ERRORS = FALSE, NEW w \in Workers, ~released[w] \/ CRASHES = FALSE,
         Run(w) \/ Crash(w) \/ Redeliver(w),
         NEW j \in Jobs, record[j] # NoRecord,
         NEW S, S = {"ack"} \/ S = {"bury", "ack"}, Alive(j, S)
  PROVE  \/ Alive(j, S)'
         \/ Holds(w, j) /\ pc[w] \notin S /\ pc'[w] \in S /\ Settling(w)
<1>1. TypeOK
  BY DEF IInv
<1>2. CASE Receive(w)
  <2>1. PICK m \in Messages :
          /\ queue' = [queue EXCEPT ![m] = queue[m] - 1]
          /\ msg' = [msg EXCEPT ![w] = m]
          /\ Goto(w, IF record[m.job] = NoRecord THEN "ack" ELSE "start")
    BY <1>2 DEF Receive
  <2>2. pc[w] = "idle" /\ \A v \in Workers \ {w} : pc'[v] = pc[v] /\ msg'[v] = msg[v]
    BY <1>1, <1>2, <2>1 DEF Receive, Goto, TypeOK
  <2>3. CASE m.job = j
    BY <1>1, <2>1, <2>3 DEF Alive, Holds, Goto, TypeOK
  <2>4. CASE m.job # j
    <3>1. \A n \in Messages : n.job = j => queue'[n] = queue[n]
      BY <1>1, <2>1, <2>4 DEF TypeOK
    <3> QED
      BY <2>2, <3>1, AliveStays DEF Holds
  <2> QED
    BY <2>3, <2>4
<1>3. CASE StartAttempt(w) \/ Proceeds(w)
  <2>1. /\ pc[w] \notin {"idle", "ack"} /\ pc'[w] # "idle"
        /\ \A v \in Workers \ {w} : pc'[v] = pc[v]
    BY <1>1, <1>3 DEF Proceeds, StartAttempt, SaveProcessing, FetchPayload, Ingest, DropPayload,
         SaveDone, SaveFailed, Bury, SaveQueued, RedisRaises, Goto, TypeOK
  <2>2. queue' = queue /\ msg' = msg
    BY <1>3 DEF Proceeds, StartAttempt, SaveProcessing, FetchPayload, Ingest, DropPayload,
         SaveDone, SaveFailed, Bury, SaveQueued, RedisRaises, workerVars
  <2>3. pc'[w] \in S => Settling(w)
    BY <1>1, <1>3 DEF Settling, Proceeds, StartAttempt, SaveProcessing, FetchPayload, Ingest,
         DropPayload, SaveQueued, RedisRaises, Goto, TypeOK
  <2>4. CASE Holds(w, j) /\ pc[w] \notin S /\ pc'[w] \in S
    BY <2>3, <2>4
  <2>5. CASE Holds(w, j) /\ pc'[w] \notin S
    BY <2>1, <2>2, <2>5, HolderAlive DEF Holds
  <2>6. CASE ~Holds(w, j) \/ pc[w] \in S
    BY <2>1, <2>2, <2>6, AliveStays
  <2> QED
    BY <2>4, <2>5, <2>6
<1>4. CASE Retry(w)
  <2> DEFINE next == [job |-> msg[w].job, retries |-> msg[w].retries + 1]
  <2>1. pc[w] = "retry" /\ msg[w] \in Messages /\ Put(next)
    BY <1>1, <1>4, HeldMessage, BelowCeiling DEF Retry
  <2>2. next \in Messages
    BY <1>1, <2>1, HeldMessage, BelowCeiling, AttemptsAssumption DEF Messages
  <2>3. PICK m \in Messages : m.job = msg[w].job /\ Put(m)
    BY <2>1, <2>2
  <2>4. Alive(m.job, S)' /\ \A n \in Messages : queue[n] > 0 => queue'[n] > 0
    BY <1>1, <2>3, PutAlive
  <2>5. \A v \in Workers \ {w} : pc'[v] = pc[v] /\ msg'[v] = msg[v]
    BY <1>1, <1>4 DEF Retry, Goto, TypeOK, workerVars
  <2>6. Holds(w, j) => m.job = j
    BY <2>3 DEF Holds
  <2> QED
    BY <2>4, <2>5, <2>6, AliveStays
<1>5. CASE Ack(w)
  <2>1. /\ pc[w] \in S /\ queue' = queue
        /\ \A v \in Workers \ {w} : pc'[v] = pc[v] /\ msg'[v] = msg[v]
    BY <1>1, <1>5 DEF Ack, Release, Goto, TypeOK
  <2> QED
    BY <2>1, AliveStays
<1>6. CASE Crash(w)
  <2>1. pc[w] # "idle" /\ Put(msg[w])
    BY <1>1, <1>6 DEF Crash, Release
  <2>2. PICK m \in Messages : m = msg[w] /\ Put(m)
    BY <1>1, <2>1, HeldMessage
  <2>3. Alive(m.job, S)' /\ \A n \in Messages : queue[n] > 0 => queue'[n] > 0
    BY <1>1, <2>2, PutAlive
  <2>4. \A v \in Workers \ {w} : pc'[v] = pc[v] /\ msg'[v] = msg[v]
    BY <1>1, <1>6 DEF Crash, Release, Goto, TypeOK
  <2>5. Holds(w, j) => m.job = j
    BY <2>2 DEF Holds
  <2> QED
    BY <2>3, <2>4, <2>5, AliveStays
<1>7. CASE Redeliver(w)
  <2>1. pc[w] # "idle" /\ Put(msg[w])
    BY <1>1, <1>7 DEF Redeliver
  <2>2. PICK m \in Messages : m = msg[w] /\ Put(m)
    BY <1>1, <2>1, HeldMessage
  <2>3. Alive(m.job, S)' /\ \A n \in Messages : queue[n] > 0 => queue'[n] > 0
    BY <1>1, <2>2, PutAlive
  <2>4. \A v \in Workers \ {w} : pc'[v] = pc[v] /\ msg'[v] = msg[v]
    BY <1>7 DEF Redeliver
  <2>5. Holds(w, j) => m.job = j
    BY <2>2 DEF Holds
  <2> QED
    BY <2>3, <2>4, <2>5, AliveStays
<1> QED
  BY <1>2, <1>3, <1>4, <1>5, <1>6, <1>7 DEF Run, Proceeds

\* A message that the visibility timeout has given back is not given back by the crash of its
\* worker, so the two kinds of fault must not come together.
ReleasedOnce == CRASHES => \A w \in Workers : ~released[w]

LInv == IInv /\ ReleasedOnce /\ NothingLost /\ FailedIsBuried

LEMMA PendingIsAlive ==
  \A j : Pending(j) <=> upload[j] = "saved" \/ Alive(j, {"bury", "ack"})
BY DEF Pending, Alive

LEMMA BuriedOrAlive ==
  FailedIsBuried <=>
    \A j \in Jobs : record[j].status = "failed" => j \in dlq \/ Alive(j, {"ack"})
BY DEF FailedIsBuried, Alive

\* What a worker writes to a record, and where that leaves it.
LEMMA WhatIsSaved ==
  ASSUME IInv, NEW w \in Workers, Run(w) \/ Crash(w) \/ Redeliver(w),
         NEW j \in Jobs, record'[j] # record[j]
  PROVE  /\ msg'[w] = msg[w] /\ msg[w].job = j
         /\ \/ record'[j].status \in {"queued", "processing"} /\ pc'[w] \in {"fetch", "retry"}
            \/ record'[j].status = "done"
            \/ record'[j].status = "failed" /\ pc'[w] = "bury"
<1>1. TypeOK
  BY DEF IInv
<1>2. \/ SaveProcessing(w) \/ SaveDone(w) \/ SaveFailed(w) \/ SaveQueued(w)
  BY DEF Run, Receive, StartAttempt, FetchPayload, Ingest, DropPayload, Bury, Retry, Ack, Release,
         RedisRaises, Crash, Redeliver
<1>3. msg' = msg
  BY <1>2 DEF SaveProcessing, SaveDone, SaveFailed, SaveQueued, workerVars
<1>4. msg[w].job = j
  BY <1>1, <1>2 DEF SaveProcessing, SaveDone, SaveFailed, SaveQueued, SaveAs, Save, TypeOK
<1>5. CASE SaveProcessing(w)
  BY <1>1, <1>3, <1>4, <1>5 DEF SaveProcessing, SaveAs, Save, Goto, TypeOK
<1>6. CASE SaveDone(w)
  BY <1>1, <1>3, <1>4, <1>6 DEF SaveDone, SaveAs, Save, TypeOK
<1>7. CASE SaveFailed(w)
  BY <1>1, <1>3, <1>4, <1>7 DEF SaveFailed, SaveAs, Save, Goto, TypeOK
<1>8. CASE SaveQueued(w)
  BY <1>1, <1>3, <1>4, <1>8 DEF SaveQueued, SaveAs, Save, Goto, TypeOK
<1> QED
  BY <1>2, <1>5, <1>6, <1>7, <1>8

\* What the steps that deal with a job leave behind.
LEMMA WhatSettles ==
  ASSUME IInv, NEW w \in Workers, Settling(w), NEW j \in Jobs, Holds(w, j)
  PROVE  \/ record'[j].status = "done"
         \/ record'[j].status = "failed" /\ pc'[w] = "bury"
         \/ pc[w] = "bury" /\ j \in dlq'
<1>1. TypeOK
  BY DEF IInv
<1>2. CASE SaveDone(w)
  BY <1>1, <1>2 DEF SaveDone, SaveAs, Save, Holds, TypeOK
<1>3. CASE SaveFailed(w)
  BY <1>1, <1>3 DEF SaveFailed, SaveAs, Save, Holds, Goto, TypeOK
<1>4. CASE Bury(w)
  BY <1>4 DEF Bury, Holds
<1> QED
  BY <1>2, <1>3, <1>4 DEF Settling

LEMMA WorkerLosesNothing ==
  ASSUME LInv, REDIS_ERRORS = FALSE, NEW w \in Workers, Run(w) \/ Crash(w) \/ Redeliver(w)
  PROVE  NothingLost' /\ FailedIsBuried'
<1>1. IInv /\ TypeOK /\ (~released[w] \/ CRASHES = FALSE)
  BY FlagsAssumption DEF LInv, IInv, ReleasedOnce
<1>2. upload' = upload /\ dlq \subseteq dlq'
  BY DEF Run, Receive, StartAttempt, SaveProcessing, FetchPayload, Ingest, DropPayload, SaveDone,
         SaveFailed, Bury, SaveQueued, Retry, Ack, Release, RedisRaises, Crash, Redeliver
<1>3. ASSUME NEW j \in Jobs, record'[j].status \in {"queued", "processing"}
      PROVE  upload'[j] = "saved" \/ Alive(j, {"bury", "ack"})'
  <2>1. CASE record'[j] # record[j]
    <3>1. msg'[w] = msg[w] /\ msg[w].job = j /\ pc'[w] \in {"fetch", "retry"}
      BY <1>1, <1>3, <2>1, WhatIsSaved
    <3> QED
      BY <3>1 DEF Alive, Holds
  <2>2. CASE record'[j] = record[j]
    <3>1. upload[j] = "saved" \/ Alive(j, {"bury", "ack"})
      BY <1>3, <2>2, PendingIsAlive DEF LInv, NothingLost
    <3>2. record[j] # NoRecord
      BY <1>3, <2>2 DEF NoRecord
    <3>3. CASE Alive(j, {"bury", "ack"})
      <4>1. \/ Alive(j, {"bury", "ack"})'
            \/ Holds(w, j) /\ pc[w] \notin {"bury", "ack"} /\ Settling(w)
        BY <1>1, <3>2, <3>3, AliveStep
      <4>2. ~(Holds(w, j) /\ pc[w] # "bury" /\ Settling(w))
        BY <1>1, <1>3, WhatSettles
      <4> QED
        BY <4>1, <4>2
    <3> QED
      BY <1>2, <3>1, <3>3
  <2> QED
    BY <2>1, <2>2
<1>4. ASSUME NEW j \in Jobs, record'[j].status = "failed"
      PROVE  j \in dlq' \/ Alive(j, {"ack"})'
  <2>1. CASE record'[j] # record[j]
    <3>1. msg'[w] = msg[w] /\ msg[w].job = j /\ pc'[w] = "bury"
      BY <1>1, <1>4, <2>1, WhatIsSaved
    <3> QED
      BY <3>1 DEF Alive, Holds
  <2>2. CASE record'[j] = record[j]
    <3>1. j \in dlq \/ Alive(j, {"ack"})
      BY <1>4, <2>2, BuriedOrAlive DEF LInv
    <3>2. record[j] # NoRecord
      BY <1>4, <2>2 DEF NoRecord
    <3>3. CASE Alive(j, {"ack"})
      <4>1. \/ Alive(j, {"ack"})'
            \/ Holds(w, j) /\ pc'[w] \in {"ack"} /\ Settling(w)
        BY <1>1, <3>2, <3>3, AliveStep
      <4>2. Holds(w, j) /\ pc'[w] \in {"ack"} /\ Settling(w) => j \in dlq'
        BY <1>1, <1>4, WhatSettles
      <4> QED
        BY <4>1, <4>2
    <3> QED
      BY <1>2, <3>1, <3>3
  <2> QED
    BY <2>1, <2>2
<1>5. NothingLost'
  BY <1>3 DEF NothingLost, Pending, Alive
<1>6. FailedIsBuried'
  BY <1>4 DEF FailedIsBuried, Alive
<1> QED
  BY <1>5, <1>6

LEMMA ClientLosesNothing ==
  ASSUME LInv, REDIS_ERRORS = FALSE, NEW j \in Jobs,
         Submit(j) \/ ExpirePayload(j) \/ ExpireRecord(j)
  PROVE  NothingLost' /\ FailedIsBuried'
<1>1. TypeOK
  BY DEF LInv, IInv
<1>2. \A i \in Jobs \ {j} : record'[i] = record[i] /\ upload'[i] = upload[i]
  BY <1>1 DEF Submit, Park, Register, Enqueue, SubmitRaises, ExpirePayload, ExpireRecord, Save, TypeOK
<1>3. dlq' = dlq /\ pc' = pc /\ msg' = msg
  BY DEF Submit, Park, Register, Enqueue, SubmitRaises, ExpirePayload, ExpireRecord, workerVars
<1>4. \A m \in Messages : queue[m] > 0 => queue'[m] > 0
  <2>1. CASE Enqueue(j)
    <3>1. PICK m \in Messages : Put(m)
      BY <2>1, AttemptsAssumption DEF Enqueue, Messages
    <3> QED
      BY <1>1, <3>1, PutAlive
  <2>2. CASE ~Enqueue(j)
    BY <2>2 DEF Submit, Park, Register, SubmitRaises, ExpirePayload, ExpireRecord
  <2> QED
    BY <2>1, <2>2
<1>5. ASSUME NEW i \in Jobs \ {j}, record'[i].status \in {"queued", "processing"}
      PROVE  upload'[i] = "saved" \/ Alive(i, {"bury", "ack"})'
  <2>1. upload[i] = "saved" \/ Alive(i, {"bury", "ack"})
    BY <1>2, <1>5, PendingIsAlive DEF LInv, NothingLost
  <2> QED
    BY <1>2, <1>3, <1>4, <2>1 DEF Alive, Waiting, Holds
<1>6. ASSUME record'[j].status \in {"queued", "processing"}
      PROVE  upload'[j] = "saved" \/ Alive(j, {"bury", "ack"})'
  <2>1. CASE Register(j)
    BY <1>1, <2>1 DEF Register, TypeOK
  <2>2. CASE Enqueue(j)
    <3>1. PICK m \in Messages : m.job = j /\ Put(m)
      BY <2>2, AttemptsAssumption DEF Enqueue, Messages
    <3>2. Alive(m.job, {"bury", "ack"})'
      BY <1>1, <3>1, PutAlive
    <3> QED
      BY <3>1, <3>2
  <2>3. CASE ExpireRecord(j)
    <3>1. record'[j] = NoRecord
      BY <1>1, <2>3 DEF ExpireRecord, TypeOK
    <3> QED
      BY <1>6, <3>1 DEF NoRecord
  <2>4. CASE Park(j) \/ ExpirePayload(j)
    <3>1. record' = record /\ (upload[j] = "saved" => upload'[j] = "saved")
      BY <2>4 DEF Park, ExpirePayload
    <3>2. upload[j] = "saved" \/ Alive(j, {"bury", "ack"})
      BY <1>6, <3>1, PendingIsAlive DEF LInv, NothingLost
    <3> QED
      BY <1>3, <1>4, <3>1, <3>2 DEF Alive, Waiting, Holds
  <2> QED
    BY <2>1, <2>2, <2>3, <2>4 DEF Submit, SubmitRaises
<1>7. ASSUME NEW i \in Jobs, record'[i].status = "failed"
      PROVE  i \in dlq' \/ Alive(i, {"ack"})'
  <2>1. record[i].status = "failed"
    <3>1. \A k \in Jobs : record'[k] = record[k] \/ record'[k].status # "failed"
      BY <1>1 DEF Submit, Park, Register, Enqueue, SubmitRaises, ExpirePayload, ExpireRecord,
           Save, TypeOK, NoRecord
    <3> QED
      BY <1>7, <3>1
  <2>2. i \in dlq \/ Alive(i, {"ack"})
    BY <2>1, BuriedOrAlive DEF LInv
  <2> QED
    BY <1>3, <1>4, <2>2 DEF Alive, Waiting, Holds
<1>8. NothingLost'
  BY <1>5, <1>6 DEF NothingLost, Pending, Alive
<1>9. FailedIsBuried'
  BY <1>7 DEF FailedIsBuried, Alive
<1> QED
  BY <1>8, <1>9

LEMMA LossStep ==
  ASSUME LInv, [Next]_vars, REDIS_ERRORS = FALSE, ~(CRASHES /\ TIMEOUTS)
  PROVE  LInv'
<1>1. IInv'
  BY Step DEF LInv
<1>2. ReleasedOnce'
  <2>1. SUFFICES ASSUME CRASHES, NEW w \in Workers PROVE ~released'[w]
    BY DEF ReleasedOnce
  <2>2. ~released[w] /\ ~TIMEOUTS /\ released \in [Workers -> BOOLEAN]
    BY <2>1 DEF LInv, ReleasedOnce, IInv, TypeOK
  <2>3. released' = released \/ \E v \in Workers : released' = [released EXCEPT ![v] = FALSE]
    BY <2>2 DEF Next, vars, Submit, Park, Register, Enqueue, SubmitRaises, ExpirePayload, ExpireRecord,
         Run, Receive, StartAttempt, SaveProcessing, FetchPayload, Ingest, DropPayload, SaveDone,
         SaveFailed, Bury, SaveQueued, Retry, Ack, Release, RedisRaises, Crash, Redeliver, workerVars
  <2> QED
    BY <2>2, <2>3
<1>3. NothingLost' /\ FailedIsBuried'
  <2>1. CASE UNCHANGED vars
    BY <2>1 DEF LInv, vars, workerVars, NothingLost, FailedIsBuried, Pending, Waiting, Holds
  <2> QED
    BY <2>1, WorkerLosesNothing, ClientLosesNothing DEF Next
<1> QED
  BY <1>1, <1>2, <1>3 DEF LInv

LEMMA LossInductive ==
  ASSUME REDIS_ERRORS = FALSE, ~(CRASHES /\ TIMEOUTS)
  PROVE  Spec => []LInv
<1>1. Init => LInv
  BY Initially DEF Init, LInv, ReleasedOnce, NothingLost, FailedIsBuried, NoRecord
<1>2. LInv /\ [Next]_vars => LInv'
  BY LossStep
<1> QED
  BY <1>1, <1>2, PTL DEF Spec

\* "A job whose worker is killed mid-flight is redelivered instead of vanishing"
\* (celery_app.py): with any number of crashes, provided that Redis answers and no delivery
\* outlasts the visibility timeout.
THEOREM NothingIsLost ==
  ASSUME REDIS_ERRORS = FALSE, ~(CRASHES /\ TIMEOUTS)
  PROVE  Spec => []NothingLost
<1>1. LInv => NothingLost
  BY DEF LInv
<1> QED
  BY <1>1, LossInductive, PTL

\* "Either way the final state lands in the dead-letter queue" (service.py), although the
\* record is saved before the entry is pushed and the worker may die in between.
THEOREM FailuresBuried ==
  ASSUME REDIS_ERRORS = FALSE, ~(CRASHES /\ TIMEOUTS)
  PROVE  Spec => []FailedIsBuried
<1>1. LInv => FailedIsBuried
  BY DEF LInv
<1> QED
  BY <1>1, LossInductive, PTL

(***************************************************************************)
(* The life cycle a client polls                                           *)
(*                                                                         *)
(* Without crashes and timeouts there is one live delivery of a job at a   *)
(* time, and where it is tells what the record says: the worker's copy,    *)
(* the attempt it was given and the counter are then one number.           *)
(***************************************************************************)

Live(w) == pc[w] \notin {"idle", "ack"}

\* The record of a job that its next delivery may begin, and of one whose delivery w is busy with.
Ready(j) ==
  /\ record[j].status = "queued" /\ record[j].attempts = count[j]
  /\ count[j] < MAX_ATTEMPTS

Counts(w, status) ==
  /\ record[msg[w].job].status = status
  /\ record[msg[w].job].attempts = count[msg[w].job]
  /\ job[w].attempts = count[msg[w].job]
  /\ attempt[w] = count[msg[w].job]

Told(w) ==
  /\ pc[w] = "start" => Ready(msg[w].job)
  /\ pc[w] = "process" =>
       /\ record[msg[w].job].status = "queued"
       /\ record[msg[w].job].attempts + 1 = count[msg[w].job]
       /\ job[w].attempts = count[msg[w].job] /\ attempt[w] = count[msg[w].job]
       /\ count[msg[w].job] <= MAX_ATTEMPTS
  /\ pc[w] \in {"fetch", "ingest", "drop", "done", "fail", "again"} => Counts(w, "processing")
  /\ pc[w] = "retry" => Counts(w, "queued")

Untouched(j) ==
  /\ upload[j] \in {"new", "parked"} => record[j] = NoRecord
  /\ upload[j] \in {"new", "parked", "saved"} => count[j] = 0
  /\ upload[j] = "saved" => Ready(j)

DeliveredOnce ==
  /\ \A m, n \in Messages : queue[m] > 0 /\ queue[n] > 0 /\ m.job = n.job => m = n
  /\ \A m \in Messages : queue[m] <= 1
  /\ \A m \in Messages, w \in Workers : queue[m] > 0 /\ Live(w) => msg[w].job # m.job
  /\ \A v, w \in Workers : v # w /\ Live(v) /\ Live(w) => msg[v].job # msg[w].job
  /\ \A m \in Messages : queue[m] > 0 => Ready(m.job)
  /\ \A w \in Workers : Live(w) => Told(w)
  /\ \A j \in Jobs : Untouched(j)

\* What a step does to the records, as a client sees it.
Polls == Polled!Next \/ UNCHANGED record

LEMMA OnceInitially == Init => DeliveredOnce
<1> SUFFICES ASSUME Init PROVE DeliveredOnce
  OBVIOUS
<1>1. \A m \in Messages : queue[m] = 0
  BY DEF Init
<1>2. \A w \in Workers : ~Live(w)
  BY DEF Init, Live
<1>3. ASSUME NEW j \in Jobs PROVE Untouched(j)
  <2>1. upload[j] = "new" /\ record[j] = NoRecord /\ count[j] = 0
    BY DEF Init
  <2> QED
    BY <2>1 DEF Untouched
<1> QED
  BY <1>1, <1>2, <1>3 DEF DeliveredOnce

\* A live worker takes a step that leaves the queue alone: only its own job is touched.
LEMMA OneWorker ==
  ASSUME IInv, DeliveredOnce, NEW w \in Workers, Live(w), NEW l, Goto(w, l),
         UNCHANGED <<upload, queue, msg>>,
         \A j \in Jobs \ {msg[w].job} : record'[j] = record[j] /\ count'[j] = count[j],
         \A v \in Workers \ {w} : job'[v] = job[v] /\ attempt'[v] = attempt[v],
         l \in {"idle", "ack"} \/ Told(w)'
  PROVE  DeliveredOnce'
<1>1. TypeOK /\ WorkerOK(w) /\ msg[w] \in Messages /\ msg[w].job \in Jobs
  BY HeldMessage DEF IInv, Live
<1>2. upload[msg[w].job] = "queued"
  BY <1>1 DEF WorkerOK, Accounted, Live
<1>3. pc'[w] = l /\ \A v \in Workers \ {w} : pc'[v] = pc[v]
  BY <1>1 DEF Goto, TypeOK
<1>4. \A v \in Workers : Live(v)' => Live(v)
  BY <1>3 DEF Live
<1>5. ASSUME NEW m \in Messages, queue'[m] > 0 PROVE Ready(m.job)'
  <2>1. m.job \in Jobs \ {msg[w].job}
    BY <1>5, MessageFields DEF DeliveredOnce
  <2> QED
    BY <1>5, <2>1 DEF DeliveredOnce, Ready
<1>6. ASSUME NEW v \in Workers, Live(v)' PROVE Told(v)'
  <2>1. CASE v = w
    BY <2>1, <1>3, <1>6 DEF Live
  <2>2. CASE v # w
    <3>1. Live(v) /\ Told(v) /\ pc'[v] = pc[v]
      BY <1>3, <1>4, <1>6, <2>2 DEF DeliveredOnce
    <3>2. msg[v].job \in Jobs \ {msg[w].job}
      BY <1>1, <2>2, <3>1, HeldMessage DEF DeliveredOnce, Live
    <3>3. /\ record'[msg[v].job] = record[msg[v].job] /\ count'[msg[v].job] = count[msg[v].job]
          /\ job'[v] = job[v] /\ attempt'[v] = attempt[v] /\ msg'[v] = msg[v]
      BY <2>2, <3>2
    <3> QED
      BY <3>1, <3>3 DEF Told, Ready, Counts
  <2> QED
    BY <2>1, <2>2
<1>7. ASSUME NEW j \in Jobs PROVE Untouched(j)'
  <2>1. CASE j = msg[w].job
    BY <1>2, <2>1 DEF Untouched
  <2>2. CASE j # msg[w].job
    BY <2>2 DEF DeliveredOnce, Untouched, Ready
  <2> QED
    BY <2>1, <2>2
<1> QED
  BY <1>4, <1>5, <1>6, <1>7 DEF DeliveredOnce

\* What a live worker saves is what the record becomes for a client.
LEMMA SavedAs ==
  ASSUME TypeOK, NEW w \in Workers, msg[w].job \in Jobs, NEW s, SaveAs(w, s)
  PROVE  /\ record'[msg[w].job] = [status |-> s, attempts |-> job[w].attempts]
         /\ record' = [record EXCEPT ![msg[w].job] = [status |-> s, attempts |-> job[w].attempts]]
         /\ \A j \in Jobs \ {msg[w].job} : record'[j] = record[j]
BY DEF SaveAs, Save, TypeOK

\* A worker's steps, but for taking a message, passing the next one on and acknowledging it.
LEMMA WorkerOnce ==
  ASSUME IInv, DeliveredOnce, NEW w \in Workers, StartAttempt(w) \/ Proceeds(w)
  PROVE  DeliveredOnce' /\ Polls
<1>1. Live(w)
  BY DEF StartAttempt, Proceeds, SaveProcessing, FetchPayload, Ingest, DropPayload, SaveDone,
         SaveFailed, Bury, SaveQueued, RedisRaises, Live
<1>2. TypeOK /\ WorkerOK(w) /\ Told(w) /\ msg[w] \in Messages /\ msg[w].job \in Jobs
  BY <1>1, HeldMessage DEF IInv, DeliveredOnce, Live
<1> DEFINE j == msg[w].job
<1>3. /\ record[j] \in Records /\ count[j] \in Nat /\ record[j].attempts \in Nat
      /\ record[j].status \in Statuses /\ job[w] \in Records
  BY <1>2 DEF TypeOK, Records, Attempts
<1>4. \A l : Goto(w, l) => pc'[w] = l
  BY <1>2 DEF Goto, TypeOK
<1>5. CASE StartAttempt(w)
  <2>1. Ready(j) /\ pc[w] = "start"
    BY <1>2, <1>5 DEF StartAttempt, Told
  <2>2. NextAttempt(w) = count[j] + 1 /\ ~OverLimit(NextAttempt(w))
    BY <1>3, <2>1, AttemptsAssumption DEF NextAttempt, Counted, OverLimit, Ready
  <2>3. /\ count' = [count EXCEPT ![j] = count[j] + 1]
        /\ attempt' = [attempt EXCEPT ![w] = count[j] + 1]
        /\ Goto(w, "process") /\ job' = [job EXCEPT ![w].attempts = count[j] + 1]
        /\ UNCHANGED <<upload, record, queue, msg>>
    BY <1>5, <2>2 DEF StartAttempt
  <2>4. /\ count'[j] = count[j] + 1 /\ attempt'[w] = count[j] + 1
        /\ job'[w].attempts = count[j] + 1
        /\ \A i \in Jobs \ {j} : count'[i] = count[i]
        /\ \A v \in Workers \ {w} : job'[v] = job[v] /\ attempt'[v] = attempt[v]
    BY <1>2, <1>3, <2>3 DEF TypeOK, Records
  <2>5. Told(w)'
    BY <1>3, <1>4, <2>1, <2>3, <2>4, AttemptsAssumption DEF Told, Ready
  <2> QED
    BY <1>1, <2>3, <2>4, <2>5, OneWorker DEF Polls
<1>6. CASE SaveProcessing(w)
  <2>1. /\ SaveAs(w, "processing") /\ Goto(w, "fetch") /\ pc[w] = "process"
        /\ UNCHANGED <<upload, queue, count, workerVars>>
    BY <1>6 DEF SaveProcessing
  <2>2. /\ record[j].status = "queued" /\ record[j].attempts + 1 = count[j]
        /\ job[w].attempts = count[j] /\ attempt[w] = count[j] /\ count[j] <= MAX_ATTEMPTS
    BY <1>2, <2>1 DEF Told
  <2>3. Told(w)'
    <3>1. record'[j] = [status |-> "processing", attempts |-> count[j]]
      BY <1>2, <2>1, <2>2, SavedAs
    <3>2. /\ record'[j].status = "processing" /\ record'[j].attempts = count[j] /\ pc'[w] = "fetch"
          /\ count' = count /\ job' = job /\ attempt' = attempt /\ msg' = msg
      BY <1>4, <2>1, <3>1 DEF workerVars
    <3> QED
      BY <2>2, <3>2 DEF Told, Counts
  <2>4. Polled!Begin(j)
    <3>1. record' = [record EXCEPT ![j] = [status |-> "processing", attempts |-> record[j].attempts + 1]]
      BY <1>2, <2>1, <2>2, SavedAs
    <3>2. record[j].attempts < MAX_ATTEMPTS
      BY <1>3, <2>2, AttemptsAssumption
    <3> QED
      BY <2>2, <3>1, <3>2 DEF Polled!Begin, Polled!Becomes
  <2> QED
    BY <1>1, <1>2, <2>1, <2>3, <2>4, SavedAs, OneWorker DEF workerVars, Polls, Polled!Next
<1>7. CASE SaveDone(w) \/ SaveFailed(w)
  <2>1. PICK s \in {"done", "failed"}, l \in {"ack", "bury"} :
          /\ SaveAs(w, s) /\ Goto(w, l) /\ pc[w] \in {"done", "fail"}
          /\ UNCHANGED <<upload, queue, count, workerVars>>
    BY <1>7 DEF SaveDone, SaveFailed
  <2>2. record[j].status = "processing" /\ record[j].attempts = job[w].attempts
    BY <1>2, <2>1 DEF Told, Counts
  <2>3. Told(w)'
    BY <1>4, <2>1 DEF Told
  <2>4. Polled!Complete(j)
    BY <1>2, <2>1, <2>2, SavedAs DEF Polled!Complete, Polled!Becomes
  <2> QED
    BY <1>1, <1>2, <2>1, <2>3, <2>4, SavedAs, OneWorker DEF workerVars, Polls, Polled!Next
<1>8. CASE SaveQueued(w)
  <2>1. /\ SaveAs(w, "queued") /\ Goto(w, "retry") /\ pc[w] = "again"
        /\ UNCHANGED <<upload, queue, count, workerVars>>
    BY <1>8 DEF SaveQueued
  <2>2. Counts(w, "processing")
    BY <1>2, <2>1 DEF Told
  <2>3. Told(w)'
    <3>1. record'[j] = [status |-> "queued", attempts |-> count[j]]
      BY <1>2, <2>1, <2>2, SavedAs DEF Counts
    <3>2. /\ record'[j].status = "queued" /\ record'[j].attempts = count[j] /\ pc'[w] = "retry"
          /\ count' = count /\ job' = job /\ attempt' = attempt /\ msg' = msg
      BY <1>4, <2>1, <3>1 DEF workerVars
    <3> QED
      BY <2>2, <3>2 DEF Told, Counts
  <2>4. Polled!TryAgain(j)
    <3>1. attempt[w] < MAX_ATTEMPTS
      BY <1>2, <2>1 DEF WorkerOK
    <3>2. record' = [record EXCEPT ![j] = [status |-> "queued", attempts |-> record[j].attempts]]
      BY <1>2, <2>1, <2>2, SavedAs DEF Counts
    <3> QED
      BY <2>2, <3>1, <3>2 DEF Polled!TryAgain, Polled!Becomes, Counts
  <2> QED
    BY <1>1, <1>2, <2>1, <2>3, <2>4, SavedAs, OneWorker DEF workerVars, Polls, Polled!Next
<1>9. CASE FetchPayload(w) \/ Ingest(w) \/ DropPayload(w)
  <2>1. PICK l \in {"ingest", "fail", "drop", "again", "done"} :
          /\ Goto(w, l) /\ pc[w] \in {"fetch", "ingest", "drop"}
          /\ UNCHANGED <<upload, record, queue, count, workerVars>>
    BY <1>9 DEF FetchPayload, Ingest, DropPayload
  <2>2. Counts(w, "processing")
    BY <1>2, <2>1 DEF Told
  <2>3. Told(w)'
    BY <1>4, <2>1, <2>2 DEF Told, Counts, workerVars
  <2> QED
    BY <1>1, <2>1, <2>3, OneWorker DEF workerVars, Polls
<1>10. CASE Bury(w) \/ RedisRaises(w)
  <2>1. Goto(w, "ack") /\ UNCHANGED <<upload, record, queue, count, workerVars>>
    BY <1>10 DEF Bury, RedisRaises
  <2> QED
    BY <1>1, <2>1, OneWorker DEF workerVars, Polls
<1> QED
  BY <1>5, <1>6, <1>7, <1>8, <1>9, <1>10 DEF Proceeds

\* Messages change hands between the broker, a worker and its successor one at a time.
LEMMA ReceiveOnce ==
  ASSUME IInv, DeliveredOnce, NEW w \in Workers, Receive(w)
  PROVE  DeliveredOnce' /\ Polls
<1>1. TypeOK /\ pc[w] = "idle"
  BY DEF IInv, Receive
<1>2. PICK m \in Messages :
        /\ queue[m] > 0
        /\ queue' = [queue EXCEPT ![m] = queue[m] - 1]
        /\ msg' = [msg EXCEPT ![w] = m]
        /\ Goto(w, IF record[m.job] = NoRecord THEN "ack" ELSE "start")
  BY DEF Receive
<1>3. queue[m] = 1 /\ queue \in [Messages -> Nat] /\ Ready(m.job) /\ m.job \in Jobs
  <2>1. queue[m] \in Nat /\ queue[m] <= 1
    BY <1>1 DEF TypeOK, DeliveredOnce
  <2> QED
    BY <1>1, <1>2, <2>1, MessageFields DEF TypeOK, DeliveredOnce
<1>4. queue'[m] = 0 /\ \A n \in Messages \ {m} : queue'[n] = queue[n]
  BY <1>2, <1>3
<1>5. record[m.job] # NoRecord
  BY <1>3 DEF Ready, NoRecord
<1>6. /\ pc'[w] = "start" /\ msg'[w] = m
      /\ \A v \in Workers \ {w} : pc'[v] = pc[v] /\ msg'[v] = msg[v]
                                  /\ job'[v] = job[v] /\ attempt'[v] = attempt[v]
      /\ UNCHANGED <<upload, record, count>>
  BY <1>1, <1>2, <1>5 DEF Receive, Goto, TypeOK
<1>7. Told(w)'
  BY <1>3, <1>6 DEF Told, Ready
<1>8. ASSUME NEW v \in Workers \ {w}, Live(v)'
      PROVE  Told(v)' /\ Live(v) /\ msg'[v].job # m.job
  <2>1. Live(v) /\ Told(v) /\ msg[v].job # m.job
    BY <1>2, <1>6, <1>8 DEF DeliveredOnce, Live
  <2> QED
    BY <1>6, <2>1 DEF Told, Ready, Counts
<1>9. ASSUME NEW n \in Messages, queue'[n] > 0
      PROVE  queue[n] > 0 /\ n.job # m.job /\ Ready(n.job)'
  <2>1. n # m /\ queue[n] > 0
    BY <1>4, <1>9
  <2> QED
    BY <1>2, <1>6, <2>1 DEF DeliveredOnce, Ready
<1>10. \A j \in Jobs : Untouched(j)'
  BY <1>6 DEF DeliveredOnce, Untouched, Ready
<1>11. \A n \in Messages : queue'[n] <= 1
  BY <1>4 DEF DeliveredOnce
<1>12. ASSUME NEW u \in Workers, NEW v \in Workers, u # v, Live(u)', Live(v)'
       PROVE  msg'[u].job # msg'[v].job
  BY <1>6, <1>8, <1>12 DEF DeliveredOnce
<1>13. ASSUME NEW n \in Messages, NEW v \in Workers, queue'[n] > 0, Live(v)'
       PROVE  msg'[v].job # n.job
  BY <1>6, <1>8, <1>9, <1>13 DEF DeliveredOnce
<1>14. \A n, o \in Messages : queue'[n] > 0 /\ queue'[o] > 0 /\ n.job = o.job => n = o
  BY <1>9 DEF DeliveredOnce
<1>15. \A v \in Workers : Live(v)' => Told(v)'
  BY <1>7, <1>8
<1> QED
  BY <1>6, <1>9, <1>10, <1>11, <1>12, <1>13, <1>14, <1>15 DEF DeliveredOnce, Polls

\* A message is put for a job that has none and that no live worker is left with.
LEMMA PutOnce ==
  ASSUME IInv, DeliveredOnce, NEW m \in Messages, Put(m), queue[m] = 0, Ready(m.job)',
         \A n \in Messages : n.job = m.job => queue[n] = 0,
         \A v \in Workers : Live(v)' => Live(v) /\ pc'[v] = pc[v] /\ msg[v].job # m.job,
         UNCHANGED <<record, count, msg, job, attempt>>,
         \A j \in Jobs : Untouched(j)'
  PROVE  DeliveredOnce'
<1>1. TypeOK /\ queue \in [Messages -> Nat]
  BY DEF IInv, TypeOK
<1>2. queue'[m] = 1 /\ \A n \in Messages \ {m} : queue'[n] = queue[n]
  BY <1>1 DEF Put
<1>3. \A n \in Messages : queue'[n] <= 1
  BY <1>2 DEF DeliveredOnce
<1>4. ASSUME NEW n \in Messages, queue'[n] > 0 PROVE n = m \/ (queue[n] > 0 /\ n.job # m.job)
  BY <1>2, <1>4
<1>5. \A n, o \in Messages : queue'[n] > 0 /\ queue'[o] > 0 /\ n.job = o.job => n = o
  BY <1>4 DEF DeliveredOnce
<1>6. ASSUME NEW n \in Messages, queue'[n] > 0 PROVE Ready(n.job)'
  <2>1. CASE n = m
    BY <2>1
  <2>2. CASE n # m
    BY <1>4, <1>6, <2>2 DEF DeliveredOnce, Ready
  <2> QED
    BY <2>1, <2>2
<1>7. ASSUME NEW n \in Messages, NEW v \in Workers, queue'[n] > 0, Live(v)'
      PROVE  msg'[v].job # n.job
  BY <1>4, <1>7 DEF DeliveredOnce
<1>8. ASSUME NEW v \in Workers, Live(v)' PROVE Told(v)'
  <2>1. Told(v) /\ pc'[v] = pc[v]
    BY <1>8 DEF DeliveredOnce
  <2> QED
    BY <2>1 DEF Told, Ready, Counts
<1>9. \A u, v \in Workers : u # v /\ Live(u)' /\ Live(v)' => msg'[u].job # msg'[v].job
  BY DEF DeliveredOnce
<1> QED
  BY <1>3, <1>5, <1>6, <1>7, <1>8, <1>9 DEF DeliveredOnce

LEMMA RetryOnce ==
  ASSUME IInv, DeliveredOnce, NEW w \in Workers, Retry(w)
  PROVE  DeliveredOnce' /\ Polls
<1>1. TypeOK /\ WorkerOK(w) /\ pc[w] = "retry" /\ Live(w) /\ msg[w] \in Messages
  BY HeldMessage DEF IInv, Retry, Live
<1>2. msg[w].job \in Jobs /\ msg[w].retries \in Nat /\ msg[w].retries < MAX_ATTEMPTS - 1
  BY <1>1, BelowCeiling, MessageFields
<1>3. PICK next \in Messages : Put(next) /\ next.job = msg[w].job
  <2> DEFINE next == [job |-> msg[w].job, retries |-> msg[w].retries + 1]
  <2>1. next \in Messages /\ Put(next) /\ next.job = msg[w].job
    BY <1>1, <1>2, AttemptsAssumption DEF Messages, Retry
  <2> HIDE DEF next
  <2> QED
    BY <2>1
<1>4. Counts(w, "queued") /\ attempt[w] < MAX_ATTEMPTS
  BY <1>1 DEF DeliveredOnce, Told, WorkerOK
<1>5. /\ pc'[w] = "ack" /\ \A v \in Workers \ {w} : pc'[v] = pc[v]
      /\ UNCHANGED <<upload, record, count, msg, job, attempt>>
  BY <1>1 DEF Retry, Goto, TypeOK, workerVars
<1>6. Ready(next.job)'
  BY <1>3, <1>4, <1>5 DEF Ready, Counts
<1>7. \A n \in Messages : n.job = next.job => queue[n] = 0
  <2>1. \A n \in Messages : queue[n] \in Nat
    BY <1>1 DEF TypeOK
  <2> QED
    BY <1>1, <1>3, <2>1 DEF DeliveredOnce
<1>8. \A v \in Workers : Live(v)' => Live(v) /\ pc'[v] = pc[v] /\ msg[v].job # next.job
  BY <1>1, <1>3, <1>5 DEF Live, DeliveredOnce
<1>9. \A j \in Jobs : Untouched(j)'
  BY <1>5 DEF DeliveredOnce, Untouched, Ready
<1> QED
  BY <1>3, <1>5, <1>6, <1>7, <1>8, <1>9, PutOnce DEF Polls

LEMMA AckOnce ==
  ASSUME IInv, DeliveredOnce, NEW w \in Workers, Ack(w)
  PROVE  DeliveredOnce' /\ Polls
<1>1. /\ pc'[w] = "idle" /\ UNCHANGED <<upload, record, count, queue>>
      /\ \A v \in Workers \ {w} : pc'[v] = pc[v] /\ msg'[v] = msg[v]
                                  /\ job'[v] = job[v] /\ attempt'[v] = attempt[v]
  BY DEF Ack, Release, Goto, IInv, TypeOK
<1>2. ASSUME NEW v \in Workers, Live(v)'
      PROVE  v # w /\ Live(v) /\ msg'[v] = msg[v] /\ Told(v)'
  <2>1. v # w /\ Live(v) /\ Told(v)
    BY <1>1, <1>2 DEF Live, DeliveredOnce
  <2> QED
    BY <1>1, <2>1 DEF Told, Ready, Counts
<1>3. \A m \in Messages : queue'[m] > 0 => Ready(m.job)'
  BY <1>1 DEF DeliveredOnce, Ready
<1>4. \A j \in Jobs : Untouched(j)'
  BY <1>1 DEF DeliveredOnce, Untouched, Ready
<1>5. \A u, v \in Workers : u # v /\ Live(u)' /\ Live(v)' => msg'[u].job # msg'[v].job
  BY <1>2 DEF DeliveredOnce
<1>6. \A m \in Messages, v \in Workers : queue'[m] > 0 /\ Live(v)' => msg'[v].job # m.job
  BY <1>1, <1>2 DEF DeliveredOnce
<1> QED
  BY <1>1, <1>2, <1>3, <1>4, <1>5, <1>6 DEF DeliveredOnce, Polls

\* The API registers a job before it has a message, and enqueues it when it is ready.
LEMMA SubmitOnce ==
  ASSUME IInv, DeliveredOnce, NEW j \in Jobs, Submit(j) \/ ExpirePayload(j)
  PROVE  DeliveredOnce' /\ Polls
<1>1. TypeOK /\ Untouched(j)
  BY DEF IInv, DeliveredOnce
<1>2. \A m \in Messages : queue[m] \in Nat /\ (queue[m] > 0 => upload[m.job] = "queued" /\ m.job \in Jobs)
  BY <1>1, MessageFields DEF IInv, Accounted, TypeOK
<1>3. \A v \in Workers : Live(v) => upload[msg[v].job] = "queued" /\ msg[v].job \in Jobs
  BY <1>1, HeldMessage DEF IInv, WorkerOK, Accounted, Live
\* Nothing but what is said of the upload itself changes.
<1>4. ASSUME upload[j] # "queued", UNCHANGED <<queue, count, pc, msg, job, attempt>>,
             \A i \in Jobs \ {j} : upload'[i] = upload[i] /\ record'[i] = record[i],
             Untouched(j)'
      PROVE  DeliveredOnce'
  <2>1. ASSUME NEW m \in Messages, queue'[m] > 0 PROVE Ready(m.job)'
    <3>1. m.job \in Jobs \ {j} /\ Ready(m.job)
      BY <1>2, <1>4, <2>1 DEF DeliveredOnce
    <3> QED
      BY <1>4, <3>1 DEF Ready
  <2>2. ASSUME NEW v \in Workers, Live(v)' PROVE Told(v)'
    <3>1. Live(v) /\ Told(v) /\ msg[v].job \in Jobs \ {j}
      BY <1>3, <1>4, <2>2 DEF DeliveredOnce, Live
    <3> QED
      BY <1>4, <3>1 DEF Told, Ready, Counts
  <2>3. ASSUME NEW i \in Jobs PROVE Untouched(i)'
    BY <1>4 DEF DeliveredOnce, Untouched, Ready
  <2> QED
    BY <1>4, <2>1, <2>2, <2>3 DEF DeliveredOnce, Live
<1>5. CASE Park(j) \/ SubmitRaises(j)
  <2>1. PICK u \in {"parked", "refused"} :
          /\ upload' = [upload EXCEPT ![j] = u] /\ upload[j] \in {"new", "parked", "saved"}
          /\ (u = "parked" => upload[j] = "new")
          /\ UNCHANGED <<record, queue, count, pc, msg, job, attempt>>
    BY <1>5 DEF Park, SubmitRaises, workerVars
  <2>2. upload'[j] = u /\ \A i \in Jobs \ {j} : upload'[i] = upload[i]
    BY <1>1, <2>1 DEF TypeOK
  <2>3. Untouched(j)'
    BY <1>1, <2>1, <2>2 DEF Untouched
  <2> QED
    BY <1>4, <2>1, <2>2, <2>3 DEF Polls
<1>6. CASE Register(j)
  <2>1. /\ upload[j] = "parked" /\ upload' = [upload EXCEPT ![j] = "saved"]
        /\ record' = [record EXCEPT ![j] = [status |-> "queued", attempts |-> 0]]
        /\ UNCHANGED <<queue, count, pc, msg, job, attempt>>
    BY <1>6 DEF Register, Save, workerVars
  <2>2. /\ upload'[j] = "saved" /\ record'[j] = [status |-> "queued", attempts |-> 0]
        /\ \A i \in Jobs \ {j} : upload'[i] = upload[i] /\ record'[i] = record[i]
    BY <1>1, <2>1 DEF TypeOK
  <2>3. record[j] = NoRecord /\ count'[j] = 0
    BY <1>1, <2>1 DEF Untouched
  <2>4. Untouched(j)'
    BY <2>2, <2>3, AttemptsAssumption DEF Untouched, Ready
  <2>5. Polled!Submit(j)
    BY <2>1, <2>3 DEF Polled!Submit, Polled!Becomes, NoRecord, Polled!NoRecord
  <2> QED
    BY <1>4, <2>1, <2>2, <2>4, <2>5 DEF Polls, Polled!Next
<1>7. CASE Enqueue(j)
  <2> DEFINE first == [job |-> j, retries |-> 0]
  <2>1. /\ first \in Messages /\ first.job = j /\ Put(first) /\ upload[j] = "saved"
        /\ upload' = [upload EXCEPT ![j] = "queued"]
        /\ UNCHANGED <<record, count, pc, msg, job, attempt>>
    BY <1>7, AttemptsAssumption DEF Messages, Enqueue, workerVars
  <2> HIDE DEF first
  <2>2. upload'[j] = "queued" /\ \A i \in Jobs \ {j} : upload'[i] = upload[i]
    BY <1>1, <2>1 DEF TypeOK
  <2>3. Ready(first.job)'
    BY <1>1, <2>1 DEF Untouched, Ready
  <2>4. \A n \in Messages : n.job = first.job => queue[n] = 0
    BY <1>2, <2>1
  <2>5. \A v \in Workers : Live(v)' => Live(v) /\ pc'[v] = pc[v] /\ msg[v].job # first.job
    BY <1>3, <2>1 DEF Live
  <2>6. \A i \in Jobs : Untouched(i)'
    BY <2>1, <2>2 DEF DeliveredOnce, Untouched, Ready
  <2> QED
    BY <2>1, <2>3, <2>4, <2>5, <2>6, PutOnce DEF Polls
<1>8. CASE ExpirePayload(j)
  <2>1. UNCHANGED <<upload, record, count, queue, pc, msg, job, attempt>>
    BY <1>8 DEF ExpirePayload, workerVars
  <2> QED
    BY <2>1 DEF DeliveredOnce, Live, Told, Ready, Counts, Untouched, Polls
<1> QED
  BY <1>5, <1>6, <1>7, <1>8 DEF Submit

LEMMA OnceStep ==
  ASSUME CRASHES = FALSE, TIMEOUTS = FALSE, RETENTION = FALSE, IInv, DeliveredOnce, [Next]_vars
  PROVE  DeliveredOnce' /\ [Polled!Next]_record
<1>1. ASSUME NEW j \in Jobs, Submit(j) \/ ExpirePayload(j) \/ ExpireRecord(j)
      PROVE  DeliveredOnce' /\ Polls
  BY <1>1, SubmitOnce DEF ExpireRecord
<1>2. ASSUME NEW w \in Workers, Run(w) PROVE DeliveredOnce' /\ Polls
  BY <1>2, ReceiveOnce, WorkerOnce, RetryOnce, AckOnce DEF Run, Proceeds
<1>3. ASSUME NEW w \in Workers, Crash(w) \/ Redeliver(w) PROVE FALSE
  BY <1>3 DEF Crash, Redeliver
<1>4. CASE UNCHANGED vars
  <2>1. UNCHANGED <<upload, record, count, queue, pc, msg, job, attempt>>
    BY <1>4 DEF vars, workerVars
  <2> QED
    BY <2>1 DEF DeliveredOnce, Live, Told, Ready, Counts, Untouched, Polls
<1> QED
  BY <1>1, <1>2, <1>3, <1>4 DEF Next, Polls

\* When no worker is killed and no delivery outlasts its visibility timeout, so that every message
\* is delivered once, a client that polls its job sees it queued, then processing, then done or
\* failed for good or queued again, for at most MAX_ATTEMPTS tries: the queue implements
\* JobLifecycle, whatever Redis raises and whichever payloads expire (service.py, jobs.py).
THEOREM ClientsSeeLifecycle ==
  ASSUME CRASHES = FALSE, TIMEOUTS = FALSE, RETENTION = FALSE
  PROVE  Spec => LifecycleKept
<1>1. Init => Polled!Init
  BY DEF Init, Polled!Init, NoRecord, Polled!NoRecord
<1>2. IInv /\ DeliveredOnce /\ [Next]_vars => DeliveredOnce' /\ [Polled!Next]_record
  <2> SUFFICES ASSUME IInv, DeliveredOnce, [Next]_vars
               PROVE  DeliveredOnce' /\ [Polled!Next]_record
    OBVIOUS
  <2> QED
    BY OnceStep, Zenon
<1> QED
  BY <1>1, <1>2, OnceInitially, Inductive, PTL DEF Spec, LifecycleKept, Polled!Spec

=============================================================================
