--------------------------- MODULE InferenceGate ----------------------------
(***************************************************************************)
(* InferenceGate.run of app/core/concurrency.py, the bound on how many     *)
(* inferences of one model run and wait: the embedder's gate, whose        *)
(* callers wait as long as it takes, or the reranker's, whose callers have *)
(* a wait budget (max_wait).                                               *)
(*                                                                         *)
(* Everything runs on one event loop, so an action is what happens between *)
(* two awaits.  The semaphore and wait_for are asyncio's of the Python the *)
(* containers run (3.11): a waiter that is woken owns its slot before its  *)
(* task runs again, and with a budget acquire runs in a task of its own,   *)
(* which starts a little later and whose end the caller sees a little      *)
(* later still.                                                            *)
(***************************************************************************)
EXTENDS Integers, Sequences, FiniteSets

CONSTANTS
  Callers,
  MAX_CONCURRENCY, MAX_QUEUE,
  MAX_STRAYS     \* bound: threads whose caller has gone

ASSUME GateAssumption ==
  /\ IsFiniteSet(Callers)
  /\ MAX_CONCURRENCY \in Nat \ {0} /\ MAX_QUEUE \in Nat /\ MAX_STRAYS \in Nat

VARIABLES
  budgeted,  \* run is called with max_wait
  state,     \* where each caller is
  slots,     \* the semaphore's value
  queue,     \* its waiters, in order
  waiting,   \* self._waiting
  strays     \* threads still running for callers that are gone

gateVars == <<budgeted, state, slots, queue, waiting, strays>>

\* starting: acquire's task has not run yet; queued: its future is pending; granted: it has a slot
\* and has not run since; dropped, withdrawn: cancelled out of queued, of granted; acquired: done,
\* and the caller has not run since; running: the inference runs.
States == {"out", "starting", "queued", "granted", "dropped", "withdrawn", "acquired", "running"}
In(S) == {c \in Callers : state[c] \in S}

GateInit ==
  /\ budgeted \in BOOLEAN
  /\ state = [c \in Callers |-> "out"]
  /\ slots = MAX_CONCURRENCY
  /\ queue = <<>> /\ waiting = 0 /\ strays = 0

(***************************************************************************)
(* The semaphore                                                           *)
(***************************************************************************)

Locked == slots = 0 \/ \E i \in DOMAIN queue : state[queue[i]] # "dropped"

\* A bug the semaphore could have: the last one that came is woken.
WakeNewest(s, q, n) ==
  LET pending == {i \in DOMAIN q : s[q[i]] = "queued"}
      last    == CHOOSE i \in pending : \A j \in pending : i >= j
  IN IF pending = {} \/ n = 0
       THEN state' = s /\ slots' = n
       ELSE state' = [s EXCEPT ![q[last]] = "granted"] /\ slots' = n - 1

\* _wake_up_next: the first waiter whose future is pending gets one of the n free slots.
Wake(s, q, n) ==
  LET pending == {i \in DOMAIN q : s[q[i]] = "queued"}
      front   == CHOOSE i \in pending : \A j \in pending : i <= j
  IN IF pending = {} \/ n = 0
       THEN state' = s /\ slots' = n
       ELSE state' = [s EXCEPT ![q[front]] = "granted"] /\ slots' = n - 1

\* The queue without a waiter, which is in it once.
Without(q, c) ==
  LET at == CHOOSE i \in DOMAIN q : q[i] = c
  IN [i \in 1..Len(q) - 1 |-> IF i < at THEN q[i] ELSE q[i + 1]]

\* acquire, up to its await: next is where the caller is if a slot is free.
TryAcquire(c, next) ==
  IF ~Locked
    THEN /\ slots' = slots - 1
         /\ state' = [state EXCEPT ![c] = next]
         /\ UNCHANGED queue
    ELSE /\ queue' = Append(queue, c)
         /\ state' = [state EXCEPT ![c] = "queued"]
         /\ UNCHANGED slots

(***************************************************************************)
(* run                                                                     *)
(***************************************************************************)

Shed == Locked /\ waiting >= MAX_QUEUE

\* Without a budget acquire is called at once, and does not suspend if a slot is free.
Arrive(c) ==
  /\ state[c] = "out" /\ ~Shed
  /\ IF budgeted
       THEN /\ state' = [state EXCEPT ![c] = "starting"]
            /\ waiting' = waiting + 1
            /\ UNCHANGED <<slots, queue>>
       ELSE /\ TryAcquire(c, "running")
            /\ waiting' = IF Locked THEN waiting + 1 ELSE waiting
  /\ UNCHANGED <<budgeted, strays>>

\* The check was made when the caller arrived; now the task looks at the semaphore itself.
StartAcquire(c) ==
  /\ state[c] = "starting"
  /\ TryAcquire(c, "acquired")
  /\ UNCHANGED <<budgeted, waiting, strays>>

\* A bug acquire could have: the waiter that runs again does not look whether more is free.
KeepToItself(s, q, n) == state' = s /\ slots' = n

\* What a waiter that got its slot does for the next one.
PassOn(s, q, n) == Wake(s, q, n)

Granted(c) ==
  /\ state[c] = "granted"
  /\ queue' = Without(queue, c)
  /\ PassOn([state EXCEPT ![c] = IF budgeted THEN "acquired" ELSE "running"], queue', slots)
  /\ waiting' = IF budgeted THEN waiting ELSE waiting - 1
  /\ UNCHANGED <<budgeted, strays>>

Enter(c) ==
  /\ state[c] = "acquired"
  /\ state' = [state EXCEPT ![c] = "running"]
  /\ waiting' = waiting - 1
  /\ UNCHANGED <<budgeted, slots, queue, strays>>

\* The budget is spent, or the request is cancelled: the future, or the task, is cancelled.
GiveUp(c) ==
  /\ state[c] \in {"queued", "granted"}
  /\ state' = [state EXCEPT ![c] = IF @ = "queued" THEN "dropped" ELSE "withdrawn"]
  /\ UNCHANGED <<budgeted, slots, queue, waiting, strays>>

GiveUpStarting(c) ==
  /\ state[c] = "starting"
  /\ state' = [state EXCEPT ![c] = "out"]
  /\ waiting' = waiting - 1
  /\ UNCHANGED <<budgeted, slots, queue, strays>>

\* The cancelled task runs: a slot it was given goes back.
Cancelled(c) ==
  /\ state[c] \in {"dropped", "withdrawn"}
  /\ queue' = Without(queue, c)
  /\ LET s == [state EXCEPT ![c] = "out"] IN
     IF state[c] = "withdrawn" THEN Wake(s, queue', slots + 1)
     ELSE state' = s /\ UNCHANGED slots
  /\ waiting' = waiting - 1
  /\ UNCHANGED <<budgeted, strays>>

\* fn returns or raises, and the slot is released.
Finish(c) ==
  /\ state[c] = "running"
  /\ Wake([state EXCEPT ![c] = "out"], queue, slots + 1)
  /\ UNCHANGED <<budgeted, queue, waiting, strays>>

\* The request is cancelled while its inference runs: the slot is free and the thread goes on,
\* unless it had not begun.
HangUp(c) ==
  /\ state[c] = "running"
  /\ Wake([state EXCEPT ![c] = "out"], queue, slots + 1)
  /\ strays' \in {strays, strays + 1} /\ strays' <= MAX_STRAYS
  /\ UNCHANGED <<budgeted, queue, waiting>>

StrayEnds ==
  /\ strays > 0
  /\ strays' = strays - 1
  /\ UNCHANGED <<budgeted, state, slots, queue, waiting>>

GateNext ==
  \/ \E c \in Callers :
       \/ Arrive(c) \/ StartAcquire(c) \/ Granted(c) \/ Enter(c) \/ GiveUp(c)
       \/ GiveUpStarting(c) \/ Cancelled(c) \/ Finish(c) \/ HangUp(c)
  \/ StrayEnds
GateSpec == GateInit /\ [][GateNext]_gateVars
-----------------------------------------------------------------------------
Holders == In({"granted", "withdrawn", "acquired", "running"})
Queued == In({"queued"})

\* Who waits ahead of whom.
Ahead == {w \in Queued \X Queued :
            \E i, j \in DOMAIN queue : i < j /\ w = <<queue[i], queue[j]>>}

\* Types, and the accounts: every slot is free or somebody's, every waiter is counted once, and
\* without budgets no more wait than may.
GateTypeOK ==
  /\ state \in [Callers -> States]
  /\ slots \in 0..MAX_CONCURRENCY /\ slots + Cardinality(Holders) = MAX_CONCURRENCY
  /\ waiting = Cardinality(Callers \ In({"out", "running"}))
  /\ ~budgeted => waiting <= MAX_QUEUE
  /\ strays \in 0..MAX_STRAYS

Slots == INSTANCE BoundedSlots
           WITH Clients <- Callers, Limit <- MAX_CONCURRENCY, held <- Holders, line <- Queued,
                before <- Ahead

\* Whatever is cancelled, times out or finishes in whatever order, the slots are handed out as
\* BoundedSlots says: never more than there are, first come first served
\* (InferenceGate.run, concurrency.py:49-70).
SlotsImplemented == Slots!SlotsSpec

\* A caller waits beside a free slot only while another one, woken already, is about to pass it
\* on (concurrency.py:55-70).
NoIdleSlot ==
  slots > 0 /\ Queued # {} => In({"granted", "withdrawn"}) # {}
=============================================================================
