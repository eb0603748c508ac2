---------------------------- MODULE ChatService ----------------------------
(***************************************************************************)
(* Chat requests: app/gateway/service.py (ChatService), the relay of       *)
(* app/gateway/router.py that feeds a stream, the semantic cache and the   *)
(* usage meter as the service uses them.                                   *)
(*                                                                         *)
(* A request is a coroutine; req[r].at names the await or the yield where  *)
(* it is suspended.  A client reads a stream chunk by chunk and may leave  *)
(* between any two, or while one is awaited, once the response has         *)
(* started; a request that is not streamed is not cancelled.  A chunk is   *)
(* one word, a complete answer WORDS of them.                              *)
(***************************************************************************)
EXTENDS Naturals

CONSTANTS
  Requests,      \* chat requests, each made once
  Streams,       \* those with stream = True
  Caching,       \* those with cache = True, and a cache to use
  Prompts,       \* what requests ask, up to similarity
  Prompt,        \* what each request asks
  WORDS,         \* bound: the chunks of a complete answer
  METER_ERRORS   \* the meter's Redis may raise

ASSUME RequestAssumption == Streams \subseteq Requests /\ Caching \subseteq Requests
ASSUME PromptAssumption  == Prompt \in [Requests -> Prompts]
ASSUME WordsAssumption   == WORDS \in Nat \ {0}
ASSUME SwitchAssumption  == METER_ERRORS \in BOOLEAN

VARIABLES
  cache,    \* the answers stored for each prompt, by their length
  req,      \* the coroutines' own state
  ledger,   \* the meter: usage records of a request, and the words they bill
  later,    \* _abandoned: what the billing task of a request has to bill
  told      \* outcomes told to the rollout

vars == <<cache, req, ledger, later, told>>

Locations == {"idle", "lookup", "call", "first", "relay", "chunk", "succeed", "broken",
              "store", "meter", "tell", "final", "replay", "done"}

\* fate: where the answer came from, or how it failed.  made: words the provider produced.
\* priced: opened.usage.  shown: words given to the client.  raised: the meter failed.
\* gone: where the client left.
Request == [at : Locations,
            fate : {"none", "cached", "answered", "failed", "client_error", "broken"},
            made : 0..WORDS, priced : 0..WORDS, shown : 0..WORDS,
            raised : BOOLEAN, gone : Locations \cup {"no"}]

NewRequest == [at |-> "idle", fate |-> "none", made |-> 0, priced |-> 0, shown |-> 0,
               raised |-> FALSE, gone |-> "no"]

Init ==
  /\ cache  = [p \in Prompts |-> {}]
  /\ req    = [r \in Requests |-> NewRequest]
  /\ ledger = [r \in Requests |-> [times |-> 0, words |-> 0]]
  /\ later  = [r \in Requests |-> 0]
  /\ told   = [r \in Requests |-> [ok |-> 0, error |-> 0]]

-----------------------------------------------------------------------------
\* A bug: an interrupted answer is cached.
StoresAnything(r, fate) == r \in Caching
\* "A partial answer is never cached: it would be served whole to the next caller."
Stores(r, fate) == r \in Caching /\ fate # "broken"

\* A bug: the first chunk is counted twice.
EstimateTwice(n) == n + 1
\* _estimate of a stream of which n words have gone out
Estimate(n) == n
\* A bug: a stream is priced only when it ends.
RunningOnlyAtEnd(q, n) == q.priced
Running(q, n) == Estimate(n)

\* A bug: only a failure to open a stream counts against the table.
VerdictOnOpening(q) == q.fate \notin {"failed", "client_error"} /\ ~q.raised
Verdict(q) == q.fate \in {"cached", "answered"} /\ ~q.raised

\* A bug: _finish_stream moved into the try block.
InTryTooLong == {"first", "relay", "chunk", "succeed", "broken", "store", "meter", "tell"}
\* Where the except clause for a client that hung up applies.
InTry == {"first", "relay", "chunk", "succeed", "broken"}

\* What _meter_later reads: the relay settles on its way out if it is cancelled.
Owed(q) == IF q.at \in {"relay", "succeed"} THEN q.made ELSE q.priced

-----------------------------------------------------------------------------
Step(r, q) == req' = [req EXCEPT ![r] = q]

Charge(r, n) == ledger' = [ledger EXCEPT ![r] = [times |-> @.times + 1, words |-> @.words + n]]

\* The meter's pipeline, which may have been executed although it raised.
PerhapsCharge(r, n) == Charge(r, n) \/ UNCHANGED ledger

\* The table selected for the request has its route, or UnknownModelError is raised.
Ask(r) ==
  /\ req[r].at = "idle"
  /\ \E l \in {IF r \in Caching THEN "lookup" ELSE "call", "done"} :
       Step(r, [req[r] EXCEPT !.at = l])
  /\ UNCHANGED <<cache, ledger, later, told>>

Hit(r) ==
  /\ req[r].at = "lookup"
  /\ \E n \in cache[Prompt[r]] :
       Step(r, [req[r] EXCEPT !.at = "meter", !.fate = "cached", !.shown = n])
  /\ UNCHANGED <<cache, ledger, later, told>>

\* Nothing similar, or the cache is saturated or down.
Miss(r) ==
  /\ req[r].at = "lookup"
  /\ Step(r, [req[r] EXCEPT !.at = "call"])
  /\ UNCHANGED <<cache, ledger, later, told>>

\* Every deployment of the chain failed, or the table names an adapter that there is not.
Reject(r) ==
  /\ req[r].at = "call"
  /\ Step(r, [req[r] EXCEPT !.at = "tell", !.fate = "failed"])
  /\ UNCHANGED <<cache, ledger, later, told>>

\* ClientRequestError: a provider, which is fine, refuses the request.  The breaker hears of a
\* success, the rollout of an error, from the same except clause as above.
ClientError(r) ==
  /\ req[r].at = "call"
  /\ Step(r, [req[r] EXCEPT !.at = "tell", !.fate = "client_error"])
  /\ UNCHANGED <<cache, ledger, later, told>>

Answer(r) ==
  /\ req[r].at = "call" /\ r \notin Streams
  /\ Step(r, [req[r] EXCEPT !.at = IF Stores(r, "answered") THEN "store" ELSE "meter",
                            !.fate = "answered",
                            !.made = WORDS, !.priced = WORDS, !.shown = WORDS])
  /\ UNCHANGED <<cache, ledger, later, told>>

\* open_stream returns, and its first chunk is yielded; the relay has not run yet.
Open(r) ==
  /\ req[r].at = "call" /\ r \in Streams
  /\ Step(r, [req[r] EXCEPT !.at = "first", !.made = 1, !.shown = 1])
  /\ UNCHANGED <<cache, ledger, later, told>>

\* The client reads on.
ReadOn(r) ==
  /\ req[r].at \in {"first", "chunk"}
  /\ Step(r, [req[r] EXCEPT !.at = "relay",
                            !.priced = IF req[r].at = "first" THEN Estimate(1) ELSE @])
  /\ UNCHANGED <<cache, ledger, later, told>>

Delta(r) ==
  LET n == req[r].made + 1 IN
  /\ req[r].at = "relay" /\ n <= WORDS
  /\ Step(r, [req[r] EXCEPT !.at = "chunk", !.made = n, !.shown = n, !.priced = Running(req[r], n)])
  /\ UNCHANGED <<cache, ledger, later, told>>

\* The provider's iterator is exhausted; the breaker is told.
End(r) ==
  /\ req[r].at = "relay" /\ req[r].made = WORDS
  /\ Step(r, [req[r] EXCEPT !.at = "succeed"])
  /\ UNCHANGED <<cache, ledger, later, told>>

Succeed(r) ==
  /\ req[r].at = "succeed"
  /\ Step(r, [req[r] EXCEPT !.at = IF Stores(r, "answered") THEN "store" ELSE "meter",
                            !.fate = "answered", !.priced = req[r].made])
  /\ UNCHANGED <<cache, ledger, later, told>>

\* A bug: the relay goes on after an error, as if a chunk had come.
BreakResumes(r) ==
  /\ req[r].at = "relay"
  /\ Step(r, [req[r] EXCEPT !.at = "chunk"])
  /\ UNCHANGED <<cache, ledger, later, told>>

\* The provider fails or stalls; the stream is settled and the breaker is told.
Break(r) ==
  /\ req[r].at = "relay"
  /\ Step(r, [req[r] EXCEPT !.at = "broken", !.priced = req[r].made])
  /\ UNCHANGED <<cache, ledger, later, told>>

\* StreamInterruptedError
Interrupt(r) ==
  /\ req[r].at = "broken"
  /\ Step(r, [req[r] EXCEPT !.at = IF Stores(r, "broken") THEN "store" ELSE "meter",
                            !.fate = "broken"])
  /\ UNCHANGED <<cache, ledger, later, told>>

Store(r) ==
  /\ req[r].at = "store"
  /\ \/ cache' = [cache EXCEPT ![Prompt[r]] = @ \cup {req[r].shown}]
     \/ UNCHANGED cache
  /\ Step(r, [req[r] EXCEPT !.at = "meter"])
  /\ UNCHANGED <<ledger, later, told>>

\* priced is 0 when the answer came from the cache.
Meter(r) ==
  /\ req[r].at = "meter"
  /\ Charge(r, req[r].priced)
  /\ Step(r, [req[r] EXCEPT !.at = IF r \in Streams /\ req[r].fate = "cached"
                                   THEN "replay" ELSE "tell"])
  /\ UNCHANGED <<cache, later, told>>

\* complete counts any exception against the table; stream lets this one through.
MeterRaises(r) ==
  /\ req[r].at = "meter" /\ METER_ERRORS
  /\ PerhapsCharge(r, req[r].priced)
  /\ Step(r, [req[r] EXCEPT !.at = IF r \in Streams THEN "done" ELSE "tell", !.raised = TRUE])
  /\ UNCHANGED <<cache, later, told>>

\* The cached answer is read to its end.
Replay(r) ==
  /\ req[r].at = "replay"
  /\ Step(r, [req[r] EXCEPT !.at = "tell"])
  /\ UNCHANGED <<cache, ledger, later, told>>

Tell(r) ==
  /\ req[r].at = "tell"
  /\ told' = IF Verdict(req[r]) THEN [told EXCEPT ![r].ok = @ + 1]
             ELSE [told EXCEPT ![r].error = @ + 1]
  /\ Step(r, [req[r] EXCEPT !.at = IF r \in Streams /\ req[r].fate \in {"answered", "broken"}
                                   THEN "final" ELSE "done"])
  /\ UNCHANGED <<cache, ledger, later>>

\* The last chunk, with the usage and the metadata, is read.
Final(r) ==
  /\ req[r].at = "final"
  /\ Step(r, [req[r] EXCEPT !.at = "done"])
  /\ UNCHANGED <<cache, ledger, later, told>>

\* The response has started and is not over.
Leavable(r) ==
  /\ r \in Streams
  /\ \/ req[r].at \in InTry \cup {"store", "replay", "final"}
     \/ req[r].at = "meter" /\ req[r].fate # "cached"
     \/ req[r].at = "tell" /\ req[r].fate \notin {"failed", "client_error"}

HangUp(r) ==
  /\ Leavable(r)
  /\ Step(r, [req[r] EXCEPT !.at = "done", !.gone = req[r].at])
  /\ later' = IF req[r].at \in InTry THEN [later EXCEPT ![r] = Owed(req[r])] ELSE later
  /\ IF req[r].at = "meter" THEN PerhapsCharge(r, req[r].priced) ELSE UNCHANGED ledger
  /\ UNCHANGED <<cache, told>>

\* The task of _meter_later
Bill(r) ==
  /\ later[r] > 0
  /\ Charge(r, later[r]) /\ later' = [later EXCEPT ![r] = 0]
  /\ UNCHANGED <<cache, req, told>>

BillRaises(r) ==
  /\ later[r] > 0 /\ METER_ERRORS
  /\ PerhapsCharge(r, later[r]) /\ later' = [later EXCEPT ![r] = 0]
  /\ Step(r, [req[r] EXCEPT !.raised = TRUE])
  /\ UNCHANGED <<cache, told>>

\* Entries expire, are evicted or are purged.
Forget(p) ==
  /\ cache[p] # {} /\ cache' = [cache EXCEPT ![p] = {}]
  /\ UNCHANGED <<req, ledger, later, told>>

Proceed(r) ==
  \/ Hit(r) \/ Miss(r) \/ Reject(r) \/ ClientError(r) \/ Answer(r) \/ Open(r) \/ ReadOn(r)
  \/ Delta(r) \/ End(r) \/ Succeed(r) \/ Break(r) \/ Interrupt(r) \/ Store(r)
  \/ Meter(r) \/ MeterRaises(r) \/ Replay(r) \/ Tell(r) \/ Final(r) \/ HangUp(r)
  \/ Bill(r) \/ BillRaises(r)

Next ==
  \/ \E r \in Requests : Ask(r) \/ Proceed(r)
  \/ \E p \in Prompts : Forget(p)

\* Every await has a timeout, clients read or leave, and the event loop runs every task.
Fairness == \A r \in Requests : WF_vars(Proceed(r))

Spec     == Init /\ [][Next]_vars
FairSpec == Spec /\ Fairness

-----------------------------------------------------------------------------
\* Every variable holds what the code can put there, and no stream is priced at more than
\* its provider produced.
TypeOK ==
  /\ cache  \in [Prompts -> SUBSET (1..WORDS)]
  /\ req    \in [Requests -> Request]
  /\ ledger \in [Requests -> [times : Nat, words : Nat]]
  /\ later  \in [Requests -> 0..WORDS]
  /\ told   \in [Requests -> [ok : Nat, error : Nat]]
  /\ \A r \in Requests : req[r].priced <= req[r].made

\* Wherever the client leaves and whatever the meter does, a request is on the ledger at most
\* once, and not for more than was produced for it.
BilledOnce == \A r \in Requests : ledger[r].times <= 1 /\ ledger[r].words <= req[r].made

\* "The provider generated those tokens regardless, so they are billed": what was produced for a
\* request is on the ledger when it is over, unless the meter failed, or the client left right
\* after the first chunk or between the last one and the meter's answer.
Lost(q) == q.raised \/ q.gone \in {"first", "store", "meter"}
GeneratedIsBilled ==
  \A r \in Requests :
    req[r].at = "done" /\ later[r] = 0 /\ ~Lost(req[r]) => ledger[r].words = req[r].made

\* No client that stays is served part of an answer as if it were whole, from its own stream or
\* from the cache another request filled.
AnswersWhole ==
  \A r \in Requests :
    /\ req[r].at = "done" /\ req[r].gone = "no"
    /\ req[r].fate \in {"cached", "answered"}
    => req[r].shown = WORDS

\* The rollout hears of a request that runs its course exactly once: of a success if it was
\* answered whole, from the cache or by a provider, of an error if its chain failed it, its stream
\* broke off, or, no fault of the table's, a provider refused it as the caller's own bad request.
OutcomeTold ==
  \A r \in Requests :
    LET q == req[r] IN
    /\ told[r].ok + told[r].error <= 1
    /\ q.at = "done" /\ q.gone = "no" /\ ~q.raised /\ q.fate # "none"
       => IF q.fate \in {"cached", "answered"} THEN told[r].ok = 1 ELSE told[r].error = 1

\* Every request ends, and its billing with it.
Ends == \A r \in Requests : req[r].at # "idle" ~> req[r].at = "done" /\ later[r] = 0
=============================================================================
