--------------------------- MODULE BreakerCluster ---------------------------
(***************************************************************************)
(* Circuit-breaker state shared by every API replica, for one deployment:  *)
(* app/gateway/breaker_cluster.py (ClusterBreakers), and the way           *)
(* app/gateway/router.py drives it (_prepare, allow_request, the provider  *)
(* call, _succeeded / _failed, the retry loop and the stream relay).       *)
(*                                                                         *)
(* A task is a coroutine serving requests on its replica, one after the    *)
(* other; the event loop switches between the tasks of a replica at every  *)
(* await, so a Redis command is two actions: the server executes it, and   *)
(* later the coroutine resumes with the reply.  A command may succeed      *)
(* ("ok"), raise without having run ("err"), or run and lose its reply     *)
(* ("lost"); RedisOutcomes is the set of those that can happen.            *)
(*                                                                         *)
(* Time is one clock of ticks that every replica and Redis share:          *)
(* refreshIn, the breakers' cooldowns and the keys' TTLs count down in     *)
(* Tick.                                                                   *)
(***************************************************************************)
EXTENDS CircuitBreaker

CONSTANTS
  Replicas,        \* the API pods
  Tasks,           \* their request coroutines
  Home,            \* the replica of each task
  REFRESH,         \* refresh_seconds, in ticks
  PROBE_TTL,       \* probe_seconds, in ticks
  FAIL_WINDOW,     \* failure_window_seconds, in ticks
  RedisOutcomes,   \* what a Redis command can do: a subset of {"ok", "err", "lost"}
  HANGUPS,         \* clients may abandon a stream that has started
  SLOW_REDIS,      \* a Redis round trip may outlast a tick
  RESTARTS,        \* a replica may be killed and come back
  OTHER_CHAINS     \* requests for other chains use up refresh windows

ASSUME HomeAssumption    == Home \in [Tasks -> Replicas]
ASSUME TimeAssumption    == /\ REFRESH \in Nat \ {0}
                            /\ PROBE_TTL \in Nat \ {0}
                            /\ FAIL_WINDOW \in Nat \ {0}
ASSUME OutcomeAssumption == RedisOutcomes \subseteq {"ok", "err", "lost"}
ASSUME SwitchAssumption  == {HANGUPS, SLOW_REDIS, RESTARTS, OTHER_CHAINS} \subseteq BOOLEAN

VARIABLES
  breaker,    \* [Replicas -> Breaker]: LLMRouter.breakers[dep] of each pod
  refreshIn,  \* [Replicas -> ticks]: until now - _synced_at >= _refresh
  key,        \* the three Redis keys of the deployment
  pc,         \* where each task is
  reply,      \* the Redis reply a task has yet to act on
  probing,    \* auxiliary: the task was admitted as the half-open probe
  relayed,    \* the task is past its first token: no retry, no state read
  healthy     \* the provider has recovered for good

vars == <<breaker, refreshIn, key, pc, reply, probing, relayed, healthy>>

Locations == {"idle", "sync", "synced", "claim", "claimed", "gate", "calling",
              "streaming", "clear", "fail", "failed", "open", "pool", "pooled"}

\* breaker:fails (the count and its TTL), breaker:open and breaker:probe (their TTLs).
\* A TTL of 0 is a key that does not exist.
Keys  == [fails : 0..THRESHOLD, failsTTL : 0..FAIL_WINDOW,
          open : 0..COOLDOWN, probe : 0..PROBE_TTL]
NoKeys == [fails |-> 0, failsTTL |-> 0, open |-> 0, probe |-> 0]

Replies == [open : BOOLEAN, fails : 0..THRESHOLD, won : BOOLEAN]
NoReply == [open |-> FALSE, fails |-> 0, won |-> FALSE]

Init ==
  /\ breaker   = [r \in Replicas |-> NewBreaker]
  /\ refreshIn = [r \in Replicas |-> 0]
  /\ key       = NoKeys
  /\ pc        = [t \in Tasks |-> "idle"]
  /\ reply     = [t \in Tasks |-> NoReply]
  /\ probing   = [t \in Tasks |-> FALSE]
  /\ relayed   = [t \in Tasks |-> FALSE]
  /\ healthy   = FALSE

Goto(t, l) == pc' = [pc EXCEPT ![t] = l]

\* The breaker of the task's replica becomes b.
SetBreaker(t, b) == breaker' = [breaker EXCEPT ![Home[t]] = b]

\* The request leaves this deployment.
Leave(t) == /\ Goto(t, "idle")
            /\ probing' = [probing EXCEPT ![t] = FALSE]
            /\ relayed' = [relayed EXCEPT ![t] = FALSE]

(***************************************************************************)
(* Before the chain: sync                                                  *)
(***************************************************************************)

\* _prepare: sync once per refresh window, and stamp the window before reading.
Arrive(t) ==
  /\ pc[t] = "idle"
  /\ IF refreshIn[Home[t]] = 0
       THEN /\ refreshIn' = [refreshIn EXCEPT ![Home[t]] = REFRESH]
            /\ Goto(t, "sync")
       ELSE /\ Goto(t, "gate")
            /\ UNCHANGED refreshIn
  /\ UNCHANGED <<breaker, key, reply, probing, relayed, healthy>>

\* What the two GETs bring back.
Found == [open |-> key.open > 0, fails |-> key.fails, won |-> FALSE]

\* A bug sync could have: an exception is taken for keys that do not exist.
ReadKeysEmptyOnError(t) ==
  /\ pc[t] = "sync"
  /\ reply' = [reply EXCEPT ![t] = IF "ok" \in RedisOutcomes THEN Found ELSE NoReply]
  /\ Goto(t, "synced")
  /\ UNCHANGED <<breaker, refreshIn, key, probing, relayed, healthy>>

\* The pipelined GETs run; an exception keeps the local state and its timers.
ReadKeys(t) ==
  /\ pc[t] = "sync"
  /\ \/ /\ "ok" \in RedisOutcomes
        /\ reply' = [reply EXCEPT ![t] = Found]
        /\ Goto(t, "synced")
     \/ /\ RedisOutcomes \cap {"err", "lost"} # {}
        /\ Goto(t, "gate")
        /\ UNCHANGED reply
  /\ UNCHANGED <<breaker, refreshIn, key, probing, relayed, healthy>>

\* sync resumes with what was read: adopt OPEN, or go for the probe, or adopt the count.
ApplyRead(t) ==
  LET b == Look(breaker[Home[t]]) IN
  /\ pc[t] = "synced"
  /\ \/ /\ reply[t].open
        /\ SetBreaker(t, Adopt(b, OPEN, THRESHOLD))
        /\ Goto(t, "gate")
     \/ /\ ~reply[t].open /\ b.state = OPEN
        /\ SetBreaker(t, b)
        /\ Goto(t, "claim")
     \/ /\ ~reply[t].open /\ b.state # OPEN
        /\ SetBreaker(t, IF reply[t].fails > 0 THEN Adopt(b, b.state, reply[t].fails) ELSE b)
        /\ Goto(t, "gate")
  /\ reply' = [reply EXCEPT ![t] = NoReply]
  /\ UNCHANGED <<refreshIn, key, probing, relayed, healthy>>

Claim(won) == [open |-> FALSE, fails |-> 0, won |-> won]

\* _claim_probe: SET NX EX on the probe key.  An exception counts as a win.
ClaimProbe(t) ==
  /\ pc[t] = "claim"
  /\ \E o \in RedisOutcomes :
       /\ key' = IF o # "err" /\ key.probe = 0 THEN [key EXCEPT !.probe = PROBE_TTL] ELSE key
       /\ reply' = [reply EXCEPT ![t] = Claim(o = "ok" => key.probe = 0)]
  /\ Goto(t, "claimed")
  /\ UNCHANGED <<breaker, refreshIn, probing, relayed, healthy>>

\* The winner goes half-open, whatever happened to its breaker during the await.
ApplyClaim(t) ==
  /\ pc[t] = "claimed"
  /\ SetBreaker(t, IF reply[t].won THEN Adopt(breaker[Home[t]], HALF_OPEN, 0)
                                   ELSE breaker[Home[t]])
  /\ reply' = [reply EXCEPT ![t] = NoReply]
  /\ Goto(t, "gate")
  /\ UNCHANGED <<refreshIn, key, probing, relayed, healthy>>

\* allow_request: call the provider, or skip to the next deployment of the chain.
Gate(t) ==
  LET b == breaker[Home[t]] IN
  /\ pc[t] = "gate"
  /\ SetBreaker(t, Admit(b))
  /\ \/ /\ Allows(b)
        /\ Goto(t, "calling")
        /\ probing' = [probing EXCEPT ![t] = TakesProbe(b)]
        /\ UNCHANGED relayed
     \/ /\ ~Allows(b)
        /\ Leave(t)
  /\ UNCHANGED <<refreshIn, key, reply, healthy>>

(***************************************************************************)
(* The provider call                                                       *)
(***************************************************************************)

\* The first token of a stream: not yet a success.
FirstToken(t) ==
  /\ pc[t] = "calling"
  /\ Goto(t, "streaming")
  /\ relayed' = [relayed EXCEPT ![t] = TRUE]
  /\ UNCHANGED <<breaker, refreshIn, key, reply, probing, healthy>>

\* A full answer, a stream that ran to its end, or a 400, which clears the breaker
\* just the same (_succeeded): the local half of record_success.
Succeed(t) ==
  /\ pc[t] \in {"calling", "streaming"}
  /\ SetBreaker(t, RecordSuccess(breaker[Home[t]]))
  /\ Goto(t, "clear")
  /\ probing' = [probing EXCEPT ![t] = FALSE]
  /\ UNCHANGED <<refreshIn, key, reply, relayed, healthy>>

\* A timeout, a retryable error, an adapter exception or an interrupted stream: the
\* local half of record_failure, and the choice of what Redis is told.
Fail(t) ==
  LET b == breaker[Home[t]] IN
  /\ pc[t] \in {"calling", "streaming"}
  /\ ~healthy
  /\ SetBreaker(t, RecordFailure(b))
  /\ Goto(t, IF FailureOpens(b) THEN "open" ELSE "fail")
  /\ probing' = [probing EXCEPT ![t] = FALSE]
  /\ UNCHANGED <<refreshIn, key, reply, relayed, healthy>>

\* The client goes away mid-stream: _relay's finally settles the price and closes the
\* provider's iterator, and tells the breaker nothing.
HangUp(t) ==
  /\ HANGUPS
  /\ pc[t] = "streaming"
  /\ Leave(t)
  /\ UNCHANGED <<breaker, refreshIn, key, reply, healthy>>

(***************************************************************************)
(* The shared half of record_success and record_failure                    *)
(***************************************************************************)

\* DELETE the three keys, best effort.
ClearKeys(t) ==
  /\ pc[t] = "clear"
  /\ \E o \in RedisOutcomes : key' = IF o = "err" THEN key ELSE NoKeys
  /\ Leave(t)
  /\ UNCHANGED <<breaker, refreshIn, reply, healthy>>

\* INCR and EXPIRE.  Only an "ok" brings the pooled count back; anything else ends the
\* call with what the local breaker said.
CountedKeys == [fails |-> Capped(key.fails + 1), failsTTL |-> FAIL_WINDOW,
                open |-> key.open, probe |-> key.probe]

\* record_failure has returned and the retry loop looks at the breaker: one that is not
\* CLOSED sends the request to the next deployment, else there may be a retry left.  A
\* stream that broke does neither.  b is the replica's breaker as it now is.
FailureRecorded(t, b) ==
  \/ /\ SetBreaker(t, IF relayed[t] THEN b ELSE Look(b))
     /\ Leave(t)
  \/ /\ ~relayed[t] /\ Look(b).state = CLOSED
     /\ SetBreaker(t, b)
     /\ Goto(t, "calling")
     /\ UNCHANGED <<probing, relayed>>

CountFailure(t) ==
  /\ pc[t] = "fail"
  /\ \/ /\ "ok" \in RedisOutcomes
        /\ key' = CountedKeys
        /\ reply' = [reply EXCEPT ![t].fails = CountedKeys.fails]
        /\ Goto(t, "failed")
        /\ UNCHANGED <<breaker, probing, relayed>>
     \/ /\ \E o \in RedisOutcomes \ {"ok"} : key' = IF o = "err" THEN key ELSE CountedKeys
        /\ FailureRecorded(t, breaker[Home[t]])
        /\ UNCHANGED reply
  /\ UNCHANGED <<refreshIn, healthy>>

\* A bug record_failure could have: one failure too many.
PooledExceeds(n) == n > THRESHOLD

PooledReached(n) == n >= THRESHOLD

\* The pooled count is in: at the threshold, open the circuit for everyone.
ApplyCount(t) ==
  /\ pc[t] = "failed"
  /\ IF PooledReached(reply[t].fails)
       THEN /\ Goto(t, "pool")
            /\ UNCHANGED <<breaker, probing, relayed>>
       ELSE FailureRecorded(t, breaker[Home[t]])
  /\ reply' = [reply EXCEPT ![t] = NoReply]
  /\ UNCHANGED <<refreshIn, key, healthy>>

\* _open: SET the open key for the cooldown, DELETE the other two, best effort.
OpenKeys(t) ==
  /\ pc[t] \in {"open", "pool"}
  /\ \E o \in RedisOutcomes :
       key' = IF o = "err" THEN key ELSE [NoKeys EXCEPT !.open = COOLDOWN]
  /\ IF pc[t] = "open"
       THEN FailureRecorded(t, breaker[Home[t]])
       ELSE /\ Goto(t, "pooled")
            /\ UNCHANGED <<breaker, probing, relayed>>
  /\ UNCHANGED <<refreshIn, reply, healthy>>

\* record_failure resumes after _open: only now does its own breaker open.
AdoptPooled(t) ==
  /\ pc[t] = "pooled"
  /\ FailureRecorded(t, Adopt(breaker[Home[t]], OPEN, THRESHOLD))
  /\ UNCHANGED <<refreshIn, key, reply, healthy>>

(***************************************************************************)
(* The world                                                               *)
(***************************************************************************)

\* A request for a chain without this deployment stamps _synced_at, which is one per
\* replica, and reads other keys.
OtherChainSync(r) ==
  /\ OTHER_CHAINS
  /\ refreshIn[r] = 0
  /\ refreshIn' = [refreshIn EXCEPT ![r] = REFRESH]
  /\ UNCHANGED <<breaker, key, pc, reply, probing, relayed, healthy>>

\* The pod is replaced: its breakers and its requests are gone.
Restart(r) ==
  /\ RESTARTS
  /\ breaker'   = [breaker EXCEPT ![r] = NewBreaker]
  /\ refreshIn' = [refreshIn EXCEPT ![r] = 0]
  /\ pc'      = [t \in Tasks |-> IF Home[t] = r THEN "idle" ELSE pc[t]]
  /\ reply'   = [t \in Tasks |-> IF Home[t] = r THEN NoReply ELSE reply[t]]
  /\ probing' = [t \in Tasks |-> IF Home[t] = r THEN FALSE ELSE probing[t]]
  /\ relayed' = [t \in Tasks |-> IF Home[t] = r THEN FALSE ELSE relayed[t]]
  /\ UNCHANGED <<key, healthy>>

\* The provider's outage ends.
Recover ==
  /\ ~healthy
  /\ healthy' = TRUE
  /\ UNCHANGED <<breaker, refreshIn, key, pc, reply, probing, relayed>>

Down(n) == IF n > 0 THEN n - 1 ELSE 0

\* A tick passes in a provider call or between requests; also while a command is on its
\* way or a task is further down another chain, when SLOW_REDIS says so.
Tick ==
  /\ SLOW_REDIS \/ \A t \in Tasks : pc[t] \in {"idle", "calling", "streaming"}
  /\ breaker'   = [r \in Replicas |-> Cool(breaker[r])]
  /\ refreshIn' = [r \in Replicas |-> Down(refreshIn[r])]
  /\ key' = [fails    |-> IF key.failsTTL > 1 THEN key.fails ELSE 0,
             failsTTL |-> Down(key.failsTTL),
             open     |-> Down(key.open),
             probe    |-> Down(key.probe)]
  /\ UNCHANGED <<pc, reply, probing, relayed, healthy>>

Serve(t) ==
  \/ Arrive(t) \/ ReadKeys(t) \/ ApplyRead(t) \/ ClaimProbe(t) \/ ApplyClaim(t)
  \/ Gate(t) \/ FirstToken(t) \/ Succeed(t) \/ Fail(t) \/ HangUp(t)
  \/ ClearKeys(t) \/ CountFailure(t) \/ ApplyCount(t) \/ OpenKeys(t) \/ AdoptPooled(t)

Next ==
  \/ \E t \in Tasks : Serve(t)
  \/ \E r \in Replicas : OtherChainSync(r) \/ Restart(r)
  \/ Recover
  \/ Tick

Spec == Init /\ [][Next]_vars

\* Every await is answered and every provider call is cut off by its timeout, so a task
\* never stops for good; requests keep coming to every replica; clocks move; the outage
\* ends.  Nothing says that a stream is not abandoned, or that a replica restarts.
Fairness == /\ \A t \in Tasks : WF_vars(Serve(t))
            /\ WF_vars(Tick)
            /\ WF_vars(Recover)

FairSpec == Spec /\ Fairness

-----------------------------------------------------------------------------
(***************************************************************************)
(* Properties                                                              *)
(***************************************************************************)

\* Types, and that every breaker is sound: no interleaving of adoptions, claims and
\* outcomes leaves a breaker with a probe out that is not half-open, or cooling down
\* without being open.
TypeOK ==
  /\ breaker   \in [Replicas -> SoundBreaker]
  /\ refreshIn \in [Replicas -> 0..REFRESH]
  /\ key       \in Keys
  /\ pc        \in [Tasks -> Locations]
  /\ reply     \in [Tasks -> Replies]
  /\ probing   \in [Tasks -> BOOLEAN]
  /\ relayed   \in [Tasks -> BOOLEAN]
  /\ healthy   \in BOOLEAN

InCall(t) == pc[t] \in {"calling", "streaming"}

\* A breaker that says its probe is out has a probe out: some request of that replica is
\* still in its provider call and will report how it went.  allow_request sets the flag
\* and trusts the outcome to clear it; a flag nobody owns turns every request away.
\* Holds when no client abandons a stream.
ProbeHasOwner ==
  \A r \in Replicas :
     breaker[r].probe => (\E t \in Tasks : Home[t] = r /\ probing[t] /\ InCall(t))

\* Failures pooled across replicas are acted on: whenever the shared count stands at the
\* threshold, some replica holds that count and is on its way to publishing the open
\* circuit (record_failure between its INCR and its _open).  No replica's own count need
\* have got there.  Holds while Redis answers and no replica is killed.
WillOpen(t) == \/ pc[t] = "failed" /\ reply[t].fails >= THRESHOLD
               \/ pc[t] \in {"pool", "open"}

PooledFailuresOpen == key.fails >= THRESHOLD => \E t \in Tasks : WillOpen(t)

Local == INSTANCE LocalBreakers

\* "If Redis cannot be reached the local breakers keep their own counts and timers, which
\* is exactly how the gateway behaved before": when every command raises, sync,
\* record_failure and record_success do to a replica's breaker what the class does by
\* itself, and no replica acts on another's.
WithoutRedisLocal == Local!Spec

AllClosed == \A r \in Replicas : Look(breaker[r]).state = CLOSED

\* Once the provider is well, every replica's circuit closes and stays closed, however
\* the reads, claims and writes of the recovery overlap, as long as requests come.
EventuallyClosed == <>[]AllClosed
=============================================================================
