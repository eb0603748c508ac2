------------------------------- MODULE Router -------------------------------
(***************************************************************************)
(* The fallback chain: LLMRouter.complete and open_stream of               *)
(* app/gateway/router.py on one replica.  Requests walk their chains of     *)
(* deployments concurrently and share the replica's breakers, one per      *)
(* deployment; every await (the sync, the provider call, the record of an  *)
(* outcome, the backoff, the next chunk) lets the others run.              *)
(*                                                                         *)
(* What the cluster can do to a breaker is taken from BreakerCluster as a  *)
(* choice: a sync may adopt any state for a deployment that can fail, and  *)
(* a failure may open the circuit on the pooled count.  CLUSTER = FALSE is *)
(* breaker_shared = false.                                                 *)
(***************************************************************************)
EXTENDS CircuitBreaker, Sequences, FiniteSets

CONSTANTS
  Deployments,
  Chain,        \* each request's route: a sequence of deployments, first choice first
  MaxRetries,   \* Deployment.max_retries
  Healthy,      \* the deployments that answer every valid request in full
  Requests,
  CLUSTER       \* breakers are shared with other replicas

ASSUME ChainAssumption   == Chain \in [Requests -> Seq(Deployments)]
ASSUME RetriesAssumption == MaxRetries \in [Deployments -> Nat]
ASSUME HealthyAssumption == Healthy \subseteq Deployments
ASSUME ClusterAssumption == CLUSTER \in BOOLEAN

VARIABLES
  breaker,    \* LLMRouter.breakers
  pc,         \* where each request is
  stream,     \* it came through open_stream
  pos,        \* its position in the chain
  retry,      \* the retry loop's counter
  attempts,   \* the attempts it will report: position and outcome
  result      \* how it ended

vars == <<breaker, pc, stream, pos, retry, attempts, result>>

Locations == {"idle", "walk", "calling", "told", "sleep", "relaying", "done"}
Outcomes  == {"skipped", "failed", "client_error", "success", "interrupted"}
Results   == {"none", "served", "client_error", "all_failed", "interrupted", "abandoned"}
Attempt   == [pos : Nat \ {0}, outcome : Outcomes]

Init ==
  /\ breaker  = [d \in Deployments |-> NewBreaker]
  /\ pc       = [q \in Requests |-> "idle"]
  /\ stream   = [q \in Requests |-> FALSE]
  /\ pos      = [q \in Requests |-> 1]
  /\ retry    = [q \in Requests |-> 0]
  /\ attempts = [q \in Requests |-> <<>>]
  /\ result   = [q \in Requests |-> "none"]

Goto(q, l) == pc' = [pc EXCEPT ![q] = l]
Finish(q, r) == Goto(q, "done") /\ result' = [result EXCEPT ![q] = r]
Report(q, o) ==
  attempts' = [attempts EXCEPT ![q] = Append(@, [pos |-> pos[q], outcome |-> o])]

Dep(q) == Chain[q][pos[q]]
SetBreaker(d, b) == breaker' = [breaker EXCEPT ![d] = b]

\* _prepare, as ClusterBreakers.sync leaves a deployment's breaker: nothing is shared about
\* a deployment that never fails.
Synced(d) ==
  LET b == Look(breaker[d]) IN
  IF CLUSTER /\ d \notin Healthy
    THEN {b, Adopt(b, OPEN, THRESHOLD), Adopt(b, HALF_OPEN, 0)}
           \cup {Adopt(b, b.state, n) : n \in 1..THRESHOLD}
    ELSE {breaker[d]}

Arrive(q) ==
  /\ pc[q] = "idle"
  /\ Goto(q, "walk")
  /\ \E s \in BOOLEAN : stream' = [stream EXCEPT ![q] = s]
  /\ \E f \in [Deployments -> UNION {Synced(d) : d \in Deployments}] :
       /\ \A d \in Deployments : f[d] \in Synced(d)
       /\ breaker' = f
  /\ UNCHANGED <<pos, retry, attempts, result>>

\* allow_request: call this deployment, or report the skip and look at the next.
Walk(q) ==
  /\ pc[q] = "walk" /\ pos[q] <= Len(Chain[q])
  /\ SetBreaker(Dep(q), Admit(breaker[Dep(q)]))
  /\ \/ /\ Allows(breaker[Dep(q)])
        /\ Goto(q, "calling")
        /\ UNCHANGED <<pos, attempts>>
     \/ /\ ~Allows(breaker[Dep(q)])
        /\ Report(q, "skipped")
        /\ pos' = [pos EXCEPT ![q] = pos[q] + 1]
        /\ UNCHANGED pc
  /\ UNCHANGED <<stream, retry, result>>

\* A bug the loop over the chain could have: it stops one deployment early.
ExhaustEarly(q) ==
  /\ pc[q] = "walk" /\ pos[q] >= Len(Chain[q])
  /\ Finish(q, "all_failed")
  /\ UNCHANGED <<breaker, stream, pos, retry, attempts>>

\* The end of the chain: AllProvidersFailedError.
Exhaust(q) ==
  /\ pc[q] = "walk" /\ pos[q] > Len(Chain[q])
  /\ Finish(q, "all_failed")
  /\ UNCHANGED <<breaker, stream, pos, retry, attempts>>

\* A full answer to a plain request.
Answer(q) ==
  /\ pc[q] = "calling" /\ ~stream[q]
  /\ SetBreaker(Dep(q), RecordSuccess(breaker[Dep(q)]))
  /\ Report(q, "success")
  /\ Finish(q, "served")
  /\ UNCHANGED <<stream, pos, retry>>

\* The first token of a stream: reported as a success, and not told to the breaker.
FirstToken(q) ==
  /\ pc[q] = "calling" /\ stream[q]
  /\ Report(q, "success")
  /\ Goto(q, "relaying")
  /\ UNCHANGED <<breaker, stream, pos, retry, result>>

\* A 400: the provider is fine and the request is not, so the chain is not burned.
Reject(q) ==
  /\ pc[q] = "calling"
  /\ SetBreaker(Dep(q), RecordSuccess(breaker[Dep(q)]))
  /\ Report(q, "client_error")
  /\ Finish(q, "client_error")
  /\ UNCHANGED <<stream, pos, retry>>

\* _failed: this replica's count, or the pooled one, decides.
RecordsFailure(d) ==
  \/ SetBreaker(d, RecordFailure(breaker[d]))
  \/ CLUSTER /\ SetBreaker(d, Adopt(RecordFailure(breaker[d]), OPEN, THRESHOLD))

\* A timeout, a retryable error, or an adapter's exception.
CallFails(q) ==
  /\ pc[q] = "calling"
  /\ Dep(q) \notin Healthy
  /\ RecordsFailure(Dep(q))
  /\ Report(q, "failed")
  /\ Goto(q, "told")
  /\ UNCHANGED <<stream, pos, retry, result>>

\* A bug the retry loop could have: one retry too many.
HasRetryOffByOne(q) == retry[q] <= MaxRetries[Dep(q)]

HasRetry(q) == retry[q] < MaxRetries[Dep(q)]

\* After a failure: back off and try again while the circuit is closed and a retry is left,
\* else fall back.
Recorded(q) ==
  LET b == Look(breaker[Dep(q)]) IN
  /\ pc[q] = "told"
  /\ SetBreaker(Dep(q), b)
  /\ \/ /\ b.state = CLOSED /\ HasRetry(q)
        /\ retry' = [retry EXCEPT ![q] = retry[q] + 1]
        /\ Goto(q, "sleep")
        /\ UNCHANGED pos
     \/ /\ b.state # CLOSED \/ ~HasRetry(q)
        /\ retry' = [retry EXCEPT ![q] = 0]
        /\ pos' = [pos EXCEPT ![q] = pos[q] + 1]
        /\ Goto(q, "walk")
  /\ UNCHANGED <<stream, attempts, result>>

\* The backoff is over: the loop calls again without asking the breaker.
Wake(q) ==
  /\ pc[q] = "sleep"
  /\ Goto(q, "calling")
  /\ UNCHANGED <<breaker, stream, pos, retry, attempts, result>>

\* The stream ran to its end: only now does the breaker hear of a success.
StreamEnds(q) ==
  /\ pc[q] = "relaying"
  /\ SetBreaker(Dep(q), RecordSuccess(breaker[Dep(q)]))
  /\ Finish(q, "served")
  /\ UNCHANGED <<stream, pos, retry, attempts>>

\* Bugs the relay could have: it falls back with half an answer out, or waits on.
StreamFallsBack(q) ==
  /\ pc[q] = "relaying" /\ Dep(q) \notin Healthy
  /\ RecordsFailure(Dep(q))
  /\ pos' = [pos EXCEPT ![q] = pos[q] + 1]
  /\ Goto(q, "walk")
  /\ UNCHANGED <<stream, retry, attempts, result>>
StreamWaitsOn(q) ==
  /\ pc[q] = "relaying" /\ Dep(q) \notin Healthy
  /\ RecordsFailure(Dep(q))
  /\ UNCHANGED <<pc, stream, pos, retry, attempts, result>>

\* It stalled or broke: a failure for the breaker, and no fallback.
StreamBreaks(q) ==
  /\ pc[q] = "relaying"
  /\ Dep(q) \notin Healthy
  /\ RecordsFailure(Dep(q))
  /\ Report(q, "interrupted")
  /\ Finish(q, "interrupted")
  /\ UNCHANGED <<stream, pos, retry>>

\* The client left: the breaker hears nothing.
HangUp(q) ==
  /\ pc[q] = "relaying"
  /\ Finish(q, "abandoned")
  /\ UNCHANGED <<breaker, stream, pos, retry, attempts>>

\* The slot takes another request.
Reset(q) ==
  /\ pc[q] = "done"
  /\ Goto(q, "idle")
  /\ stream'   = [stream EXCEPT ![q] = FALSE]
  /\ pos'      = [pos EXCEPT ![q] = 1]
  /\ retry'    = [retry EXCEPT ![q] = 0]
  /\ attempts' = [attempts EXCEPT ![q] = <<>>]
  /\ result'   = [result EXCEPT ![q] = "none"]
  /\ UNCHANGED breaker

Tick ==
  /\ breaker' = [d \in Deployments |-> Cool(breaker[d])]
  /\ UNCHANGED <<pc, stream, pos, retry, attempts, result>>

Proceed(q) ==
  \/ Walk(q) \/ Exhaust(q) \/ Answer(q) \/ FirstToken(q) \/ Reject(q) \/ CallFails(q)
  \/ Recorded(q) \/ Wake(q) \/ StreamEnds(q) \/ StreamBreaks(q) \/ HangUp(q)

Next == \/ \E q \in Requests : Arrive(q) \/ Proceed(q) \/ Reset(q)
        \/ Tick

Spec == Init /\ [][Next]_vars

\* Calls, chunks and backoffs are bounded by timeouts; requests need not keep coming.
FairSpec == Spec /\ \A q \in Requests : WF_vars(Proceed(q))

-----------------------------------------------------------------------------
\* Types; and what a request is billed and reported on belongs to its chain.
TypeOK ==
  /\ breaker  \in [Deployments -> SoundBreaker]
  /\ pc       \in [Requests -> Locations]
  /\ stream   \in [Requests -> BOOLEAN]
  /\ pos      \in [Requests -> Nat \ {0}]
  /\ retry    \in [Requests -> Nat]
  /\ attempts \in [Requests -> Seq(Attempt)]
  /\ result   \in [Requests -> Results]

\* Where the report of request q speaks of the p-th deployment of its chain.
Tried(q, p) == {i \in DOMAIN attempts[q] : attempts[q][i].pos = p}

\* A deployment is passed over only for cause: it was skipped, once, or it failed every call
\* it was given, of which it had at most max_retries + 1.  So "all deployments failed" is
\* never said of one that had not its chance, and a fallback never jumps ahead.
PassedOverForCause ==
  \A q \in Requests : \A p \in 1..pos[q] - 1 :
    LET times == Cardinality(Tried(q, p))
        Each(o) == \A i \in Tried(q, p) : attempts[q][i].outcome = o
    IN \/ times = 1 /\ Each("skipped")
       \/ times \in 1..MaxRetries[Chain[q][p]] + 1 /\ Each("failed")

\* "After that the choice is locked in": once a deployment has answered, or called the
\* request malformed, no deployment is tried again; all that can follow is the news that
\* the stream broke.
AnswerIsLast ==
  \A q \in Requests : \A i, j \in 1..Len(attempts[q]) :
    /\ i < j
    /\ attempts[q][i].outcome \in {"success", "client_error"}
    => /\ attempts[q][j].outcome = "interrupted"
       /\ attempts[q][j].pos = attempts[q][i].pos

\* "Primary provider killed under traffic: 0 user-visible failures": while one deployment
\* of its chain answers, no interleaving of failing calls, open circuits, stale retries and
\* adopted states makes a request fail.
HealthyServes ==
  \A q \in Requests :
    (\E p \in 1..Len(Chain[q]) : Chain[q][p] \in Healthy) => result[q] # "all_failed"

\* Every request ends, with an answer or an error.
Terminates == \A q \in Requests : pc[q] = "walk" ~> pc[q] = "done"
=============================================================================
