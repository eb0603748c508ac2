----------------------------- MODULE JobLedger ------------------------------
(***************************************************************************)
(* The books kept about one tenant's ingestion jobs (JobStore and          *)
(* DeadLetterQueue of app/workers/jobs.py): records, their index, totals   *)
(* and dead letters, written by jobs that run in the API's own process     *)
(* (InlineJobQueue of app/workers/queue.py) and read by listings, scrapes  *)
(* and purges, which overlap one another too.  IngestJobs has the same     *)
(* service behind Celery; here every call a job or a reader makes of Redis *)
(* is a step.                                                              *)
(***************************************************************************)
EXTENDS Integers, Sequences, SequencesExt

CONSTANTS
  Jobs,
  Readers,       \* bound: requests that list or scrape at the same time
  Purgers,       \* bound: requests that purge at the same time
  MAX_ATTEMPTS,  \* settings.job_max_attempts
  MAX_LETTERS    \* entries the dead-letter queue keeps

ASSUME LedgerAssumption == MAX_ATTEMPTS \in Nat \ {0} /\ MAX_LETTERS \in Nat \ {0}

VARIABLES
  sequence,  \* ragjobs:seq
  index,     \* ragjobs:{tenant}: each job's score, 0 if it is not there
  record,    \* ragjob:{tenant}:{job}: its status, or "gone"
  totals,    \* ragjobs:stats
  letters,   \* ragjobs:dlq, newest first
  work,      \* what each job's submission, and then its task, is doing
  reader,    \* what each listing, scrape or purge under way has read (a purge: also,
             \* as history, how many letters had been removed before)
  uploads,   \* history: the jobs in the order of their first numbers
  removed    \* history: how many dead letters were purged

ledgerVars == <<sequence, index, record, totals, letters, work, reader, uploads, removed>>

Unread == [at |-> "idle"]
Outcomes == {"submitted", "done", "failed", "retried"}

\* What a job is doing: the status it is saving, its attempt and the number taken for the save.
Doing(at) == [at |-> at, status |-> "queued", attempt |-> 0, number |-> 0]

LedgerInit ==
  /\ sequence = 0 /\ index = [j \in Jobs |-> 0] /\ record = [j \in Jobs |-> "gone"]
  /\ totals = [o \in Outcomes |-> 0]
  /\ letters = <<>> /\ uploads = <<>> /\ removed = 0
  /\ work = [j \in Jobs |-> Doing("new")]
  /\ reader = [o \in Readers \cup Purgers |-> Unread]

-----------------------------------------------------------------------------
\* save, with a status: a number first ...
Saving(j, s) == work' = [work EXCEPT ![j].at = "number", ![j].status = s]
Proceeds(j, at) ==
  work' = [work EXCEPT ![j] = IF at = "over" THEN Doing(at)
                              ELSE [@ EXCEPT !.at = at, !.number = 0]]

TakeNumber(j) ==
  /\ work[j].at = "number"
  /\ sequence' = sequence + 1
  /\ work' = [work EXCEPT ![j].at = "store", ![j].number = sequence + 1]
  /\ uploads' = IF j \in ToSet(uploads) THEN uploads ELSE Append(uploads, j)
  /\ UNCHANGED <<index, record, totals, letters, reader, removed>>

\* A bug save could have: ZADD without NX.
ScoredAgain(j) == [index EXCEPT ![j] = work[j].number]
\* ZADD NX: a job keeps its place.
Scored(j) == IF index[j] = 0 THEN [index EXCEPT ![j] = work[j].number] ELSE index

\* ... and the transaction.
StoreRecord(j) ==
  /\ work[j].at = "store"
  /\ record' = [record EXCEPT ![j] = work[j].status]
  /\ index' = Scored(j)
  /\ Proceeds(j, IF work[j].status = "processing" THEN "ingest" ELSE "count")
  /\ UNCHANGED <<sequence, totals, letters, reader, uploads, removed>>

\* What count is called with after a save, and what comes after that.
Outcome(j) == IF work[j].status # "queued" THEN work[j].status
              ELSE IF work[j].attempt = 0 THEN "submitted" ELSE "retried"
Then == [submitted |-> "enqueue", retried |-> "sleep", done |-> "over", failed |-> "bury"]

Count(j) ==
  /\ work[j].at = "count"
  /\ totals' = [totals EXCEPT ![Outcome(j)] = @ + 1]
  /\ Proceeds(j, Then[Outcome(j)])
  /\ UNCHANGED <<sequence, index, record, letters, reader, uploads, removed>>

\* submit parks the upload, saves, counts and enqueues: a task of this process.
Submits(j) ==
  /\ work[j].at = "new"
  /\ Saving(j, "queued")
  /\ UNCHANGED <<sequence, index, record, totals, letters, reader, uploads, removed>>

Enqueue(j) ==
  /\ work[j].at = "enqueue"
  /\ Proceeds(j, "execute")
  /\ UNCHANGED <<sequence, index, record, totals, letters, reader, uploads, removed>>

\* execute: a record that is gone ends the task, an attempt beyond the last one fails the job.
Execute(j) ==
  /\ work[j].at = "execute"
  /\ Proceeds(j, IF record[j] = "gone" THEN "over" ELSE "attempt")
  /\ UNCHANGED <<sequence, index, record, totals, letters, reader, uploads, removed>>

StartAttempt(j) ==
  /\ work[j].at = "attempt"
  /\ LET n == work[j].attempt + 1 IN
     work' = [work EXCEPT ![j].at = "number", ![j].attempt = n,
                          ![j].status = IF n > MAX_ATTEMPTS THEN "failed" ELSE "processing"]
  /\ UNCHANGED <<sequence, index, record, totals, letters, reader, uploads, removed>>

\* The payload, the parsing and the stores as one step: the document is in; or the upload has
\* expired or cannot be parsed; or something else went wrong, which the last attempt does not
\* survive.
Ingest(j) ==
  /\ work[j].at = "ingest"
  /\ \/ Saving(j, "done")
     \/ Saving(j, "failed")
     \/ work[j].attempt < MAX_ATTEMPTS /\ Saving(j, "queued")
  /\ UNCHANGED <<sequence, index, record, totals, letters, reader, uploads, removed>>

\* push
Bury(j) ==
  /\ work[j].at = "bury"
  /\ letters' = SubSeq(<<j>> \o letters, 1,
                       IF Len(letters) < MAX_LETTERS THEN Len(letters) + 1 ELSE MAX_LETTERS)
  /\ Proceeds(j, "over")
  /\ UNCHANGED <<sequence, index, record, totals, reader, uploads, removed>>

\* TransientJobError: the loop of _run sleeps and goes round, if it has a round left.
Retry(j) ==
  /\ work[j].at = "sleep"
  /\ Proceeds(j, IF work[j].attempt < MAX_ATTEMPTS THEN "execute" ELSE "over")
  /\ UNCHANGED <<sequence, index, record, totals, letters, reader, uploads, removed>>

\* A call of Redis raises: the upload is answered 500, a task logs it and is over.
Raises(j) ==
  /\ work[j].at \notin {"new", "enqueue", "sleep", "over"}
  /\ Proceeds(j, "over")
  /\ UNCHANGED <<sequence, index, record, totals, letters, reader, uploads, removed>>

\* The process ends, and nobody waits for its tasks.
ProcessEnds ==
  /\ \E j \in Jobs : work[j].at \notin {"new", "over"}
  /\ work' = [j \in Jobs |-> IF work[j].at = "new" THEN work[j] ELSE Doing("over")]
  /\ UNCHANGED <<sequence, index, record, totals, letters, reader, uploads, removed>>

\* Retention, a day, ends for a job whose work is over; every save renews the index's own.
ExpireJob(j) ==
  /\ work[j].at = "over" /\ record[j] # "gone"
  /\ record' = [record EXCEPT ![j] = "gone"]
  /\ UNCHANGED <<sequence, index, totals, letters, work, reader, uploads, removed>>

-----------------------------------------------------------------------------
\* GET /v1/rag/jobs: the newest ids, the one that i - 1 others are newer than in place i ...
Newer(j) == {k \in Jobs : index[k] > index[j]}
NewestFirst(n) ==
  LET listed == {j \in Jobs : index[j] > 0}
      size   == IF Cardinality(listed) < n THEN Cardinality(listed) ELSE n
  IN [i \in 1..size |-> CHOOSE j \in listed : Cardinality(Newer(j)) = i - 1]

Reads(o, what) == reader' = [reader EXCEPT ![o] = what]

ListIndex(o) ==
  /\ reader[o].at = "idle"
  /\ \E limit \in 1..2 : Reads(o, [at |-> "list", ids |-> NewestFirst(limit)])
  /\ UNCHANGED <<sequence, index, record, totals, letters, work, uploads, removed>>

\* ... and then their records; who has none is left out, the others stay as they are.
ListRecords(o) ==
  /\ reader[o].at = "list"
  /\ LET ids  == reader[o].ids
         kept == {i \in DOMAIN ids : record[ids[i]] # "gone"}
     IN Reads(o, [at |-> "listed", ids |-> Restrict(ids, kept)])
  /\ UNCHANGED <<sequence, index, record, totals, letters, work, uploads, removed>>

\* refresh_metrics, when /metrics is scraped: the depth of the dead letters, then the totals
\* (of which only the failed jobs are kept here).
ScrapeDepth(o) ==
  /\ reader[o].at = "idle"
  /\ Reads(o, [at |-> "scrape", dead |-> Len(letters)])
  /\ UNCHANGED <<sequence, index, record, totals, letters, work, uploads, removed>>

ScrapeTotals(o) ==
  /\ reader[o].at = "scrape"
  /\ Reads(o, [at |-> "scraped", dead |-> reader[o].dead, failed |-> totals.failed])
  /\ UNCHANGED <<sequence, index, record, totals, letters, work, uploads, removed>>

\* DELETE /v1/admin/dead-letters: LLEN, which another purge may have asked for too, ...
PurgeDepth(o) ==
  /\ reader[o].at = "idle"
  /\ Reads(o, [at |-> "purge", depth |-> Len(letters), before |-> removed])
  /\ UNCHANGED <<sequence, index, record, totals, letters, work, uploads, removed>>

\* ... and then DEL, of whatever is there by now.
PurgeDelete(o) ==
  /\ reader[o].at = "purge"
  /\ removed' = removed + Len(letters) /\ letters' = <<>>
  /\ Reads(o, Unread)
  /\ UNCHANGED <<sequence, index, record, totals, work, uploads>>

\* What was read is shown, or a call raises: a listing fails, a scrape serves the rest.
Shown(o) ==
  /\ reader[o] # Unread
  /\ Reads(o, Unread)
  /\ UNCHANGED <<sequence, index, record, totals, letters, work, uploads, removed>>

LedgerNext ==
  \/ \E j \in Jobs :
       \/ Submits(j) \/ TakeNumber(j) \/ StoreRecord(j) \/ Count(j) \/ Enqueue(j) \/ Execute(j)
       \/ StartAttempt(j) \/ Ingest(j) \/ Bury(j) \/ Retry(j) \/ Raises(j) \/ ExpireJob(j)
  \/ ProcessEnds
  \/ \E o \in Readers : ListIndex(o) \/ ListRecords(o) \/ ScrapeDepth(o) \/ ScrapeTotals(o)
  \/ \E o \in Purgers : PurgeDepth(o) \/ PurgeDelete(o)
  \/ \E o \in Readers \cup Purgers : Shown(o)
LedgerSpec == LedgerInit /\ [][LedgerNext]_ledgerVars
-----------------------------------------------------------------------------
Place(j) == CHOOSE i \in DOMAIN uploads : uploads[i] = j

\* The books agree, whatever raises, ends or is read in the middle of another's calls: no more jobs
\* end than were submitted, every dead letter was counted as failed, before a scrape shows it too,
\* and the queue keeps its cap; as many letters as a purge has counted and will report are still
\* there for its DEL, or were removed since by another purge, which may report the same ones; and a
\* listing is in the order of the uploads however often and in whatever order the jobs were saved
\* (JobStore.save and list, jobs.py:66-88; purge, :145-148; _fail, service.py:153-158;
\* refresh_metrics, :166-173; "nx keeps a job's original position when it is saved again",
\* jobs.py:69-70).
LedgerKept ==
  /\ totals.done + totals.failed <= totals.submitted
  /\ Len(letters) <= MAX_LETTERS
  /\ Len(letters) + removed <= totals.failed
  /\ \A i \in DOMAIN letters : record[letters[i]] \in {"failed", "gone"}
  /\ \A o \in Readers \cup Purgers :
       LET read == reader[o] IN
       /\ read.at = "scraped" => read.dead <= read.failed
       /\ read.at = "purge" => read.depth <= Len(letters) + (removed - read.before)
       /\ read.at = "listed" =>
            \A i, k \in DOMAIN read.ids : i < k => Place(read.ids[i]) > Place(read.ids[k])
=============================================================================
