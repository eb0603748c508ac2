------------------------------ MODULE Rollout ------------------------------
(***************************************************************************)
(* Canary rollouts of the route table: app/gateway/rollout.py              *)
(* (RolloutManager), the chat requests of app/gateway/service.py that      *)
(* select a table and record an outcome, and the operators who call        *)
(* app/api/admin.py.                                                       *)
(*                                                                         *)
(* The stable version, the canary and the counters are Redis keys; every   *)
(* replica caches the first two.  A task is a coroutine on its replica.    *)
(* An MGET or HMGET is executed by one action and its reply used by a      *)
(* later one; so is a SET or DELETE and the invalidation that follows it.  *)
(* Redis may raise: a read then yields nothing, and a write ends its       *)
(* coroutine with or without having taken effect.                          *)
(***************************************************************************)
EXTENDS Naturals

CONSTANTS
  Replicas,        \* the API pods
  Requests,        \* chat coroutines
  Operators,       \* admin coroutines
  Home,            \* the replica of each task
  Versions,        \* fingerprints of the route tables that are published
  Startup,         \* that of the table on disk
  None,            \* no version, no canary, no variant
  WEIGHTS,         \* the percentages in use, 0 among them
  MIN_REQUESTS,    \* canary_min_requests
  MAX_ERROR_RATE,  \* canary_max_error_rate, as a percentage
  REFRESH,         \* rollout_refresh_seconds, in ticks
  Ops,             \* what operators do: a subset of {"publish", "weigh", "promote", "discard"}
  Good,            \* versions whose requests never fail
  MAX_COUNT,       \* bound: the requests of a version that are counted
  MAX_EVENTS       \* bound: operations operators begin, and Redis errors

Tasks == Requests \cup Operators

Canaries == [version : Versions, weight : WEIGHTS, mark : {"live", "rolled_back"}]
Pairs    == [stable : Versions \cup {None}, canary : Canaries \cup {None}]
Variants == [name : {"stable", "canary"}, version : Versions \cup {Startup}]

ASSUME HomeAssumption    == Home \in [Tasks -> Replicas]
ASSUME ApartAssumption   == Requests \cap Operators = {} /\ Replicas \cap Tasks = {}
ASSUME VersionAssumption == /\ None \notin Versions \cup {Startup} \cup Canaries \cup Variants
                            /\ Good \subseteq Versions
ASSUME WeightAssumption  == WEIGHTS \subseteq 0..100 /\ 0 \in WEIGHTS
ASSUME BudgetAssumption  == /\ MIN_REQUESTS \in Nat \ {0} /\ MAX_COUNT \in Nat /\ MAX_EVENTS \in Nat
                            /\ MAX_ERROR_RATE \in 1..100
ASSUME RefreshAssumption == REFRESH \in Nat \ {0}

VARIABLES
  stable,   \* rollout:stable, its version
  canary,   \* rollout:canary
  stats,    \* rollout:stats, per published version
  view,     \* the pair in each replica's _cache, and in the reply a task awaits
  age,      \* ticks since the fetch of each pair began
  pc,       \* where each task is
  op,       \* why it loads the pair, or what it writes
  served,   \* the Variant a request was given
  draft,    \* the CanaryState a task is about to write
  events,   \* operations begun by operators and Redis errors, so far
  late      \* auxiliary: ticks since each pair was last what Redis held

vars == <<stable, canary, stats, view, age, pc, op, served, draft, events, late>>

Holders == Replicas \cup Tasks

Shared == [stable |-> stable, canary |-> canary]
Empty  == [stable |-> None, canary |-> None]

\* The API starts, with whatever earlier deployments left in Redis.
Init ==
  /\ stable \in Versions \cup {None}
  /\ canary \in {c \in Canaries : c.mark = "live"} \cup {None}
  /\ stats  = [v \in Versions |-> [requests |-> 0, errors |-> 0]]
  /\ view   = [h \in Holders |-> Empty]
  /\ age    = [h \in Holders |-> REFRESH]
  /\ pc     = [t \in Tasks |-> "idle"]
  /\ op     = [t \in Tasks |-> "none"]
  /\ served = [t \in Tasks |-> None]
  /\ draft  = [t \in Tasks |-> None]
  /\ events = 0
  /\ late   = [h \in Holders |-> 0]

Active(c) == c # None /\ c.weight > 0 /\ c.mark = "live"

\* A weight of 100 is always drawn, one of 0 never.
Picks(p) ==
  LET mainly == [name |-> "stable", version |-> IF p.stable = None THEN Startup ELSE p.stable]
  IN IF ~Active(p.canary) THEN {mainly}
     ELSE {[name |-> "canary", version |-> p.canary.version]}
          \cup (IF p.canary.weight = 100 THEN {} ELSE {mainly})

OverBudget(n) == n.requests >= MIN_REQUESTS /\ n.errors * 100 > MAX_ERROR_RATE * n.requests

HasCanary(o, p) == p.canary # None
\* A bug: only the request that completes the sample is looked into.
LookedIntoOnce(x, ok) ==
  x.name = "canary" /\ ~ok /\ stats[x.version].requests = MIN_REQUESTS - 1
LookedInto(x, ok) == x.name = "canary" /\ ~ok

Reweighed(c, w) == [c EXCEPT !.weight = w, !.mark = IF w > 0 THEN "live" ELSE @]
RolledBack(c)   == [c EXCEPT !.weight = 0, !.mark = "rolled_back"]

-----------------------------------------------------------------------------
Goto(t, l) == pc' = [pc EXCEPT ![t] = l]

Finish(t) == /\ Goto(t, "idle")
             /\ op'     = [op EXCEPT ![t] = "none"]
             /\ served' = [served EXCEPT ![t] = None]
             /\ draft'  = [draft EXCEPT ![t] = None]

Event == events < MAX_EVENTS /\ events' = events + 1

\* The next await after a write, unless its reply never comes.
Wrote(t, l) == \/ Goto(t, l) /\ UNCHANGED <<op, served, draft, events>>
               \/ Finish(t) /\ Event

Fresh(r) == age[r] < REFRESH

\* Every action's account of late, which matters for pairs that are or may be routed by.
Watch(l) ==
  late' = [h \in Holders |->
             IF \/ view'[h] = Shared'
                \/ h \in Replicas /\ age'[h] >= REFRESH
                \/ h \in Tasks /\ pc'[h] # "loaded"
             THEN 0 ELSE l[h]]

\* What the task does, up to its next await, with the pair p that _load returned for o;
\* v is view with p in the replica's cache.  set_weight and roll_back change the cached
\* CanaryState itself before they write it.
Proceed(t, o, p, v) ==
  LET Write(c) == /\ Goto(t, "set")
                  /\ draft' = [draft EXCEPT ![t] = c]
                  /\ view' = [v EXCEPT ![Home[t]].canary = c]
                  /\ op' = [op EXCEPT ![t] = o] /\ UNCHANGED served
  IN \/ /\ o = "select"
        /\ \E x \in Picks(p) : served' = [served EXCEPT ![t] = x]
        /\ Goto(t, "call") /\ op' = [op EXCEPT ![t] = o]
        /\ view' = v /\ UNCHANGED draft
     \/ /\ o = "judge" /\ Active(p.canary) /\ p.canary.version = served[t].version
        /\ Goto(t, "stats") /\ op' = [op EXCEPT ![t] = o]
        /\ view' = v /\ UNCHANGED <<served, draft>>
     \/ /\ o = "judge" /\ ~(Active(p.canary) /\ p.canary.version = served[t].version)
        /\ Finish(t) /\ view' = v
     \/ /\ o \in {"condemn", "weigh", "promote"} /\ ~HasCanary(o, p)
        /\ Finish(t) /\ view' = v
     \/ o = "condemn" /\ HasCanary(o, p) /\ Write(RolledBack(p.canary))
     \/ o = "weigh" /\ HasCanary(o, p) /\ \E w \in WEIGHTS : Write(Reweighed(p.canary, w))
     \/ /\ o = "promote" /\ HasCanary(o, p)
        /\ Goto(t, "set_stable") /\ op' = [op EXCEPT ![t] = o]
        /\ draft' = [draft EXCEPT ![t] = p.canary] /\ view' = v /\ UNCHANGED served

\* _load: the cached pair if it is fresh, otherwise an MGET is sent.
Load(t, o) ==
  /\ \/ Fresh(Home[t]) /\ Proceed(t, o, view[Home[t]], view) /\ UNCHANGED age
     \/ /\ ~Fresh(Home[t])
        /\ Goto(t, "load") /\ op' = [op EXCEPT ![t] = o]
        /\ age' = [age EXCEPT ![t] = 0] /\ UNCHANGED <<view, served, draft>>
  /\ UNCHANGED <<stable, canary, stats>> /\ Watch(late)

Read(t) ==
  /\ pc[t] = "load" /\ Goto(t, "loaded")
  /\ \/ view' = [view EXCEPT ![t] = Shared] /\ UNCHANGED events
     \/ view' = [view EXCEPT ![t] = Empty] /\ Event
  /\ UNCHANGED <<stable, canary, stats, age, op, served, draft>>
  /\ Watch([late EXCEPT ![t] = 0])

\* A bug: fetched_at is taken when the reply arrives.
FetchedAgeOnReply(t) == 0
\* fetched_at, taken before the MGET was sent.
FetchedAge(t) == age[t]

\* The pair becomes the replica's cache, as old as the moment it was asked for.
Resume(t) ==
  /\ pc[t] = "loaded"
  /\ Proceed(t, op[t], view[t], [view EXCEPT ![Home[t]] = view[t], ![t] = Empty])
  /\ age' = [age EXCEPT ![Home[t]] = FetchedAge(t), ![t] = REFRESH]
  /\ UNCHANGED <<stable, canary, stats, events>>
  /\ Watch([late EXCEPT ![Home[t]] = late[t], ![t] = 0])

\* _write_canary
SetCanary(t) ==
  /\ pc[t] = "set"
  /\ canary' = draft[t] /\ Wrote(t, "invalidate")
  /\ UNCHANGED <<stable, stats, view, age>> /\ Watch(late)

SetStable(t) ==
  /\ pc[t] = "set_stable"
  /\ stable' = draft[t].version /\ Wrote(t, "delete")
  /\ UNCHANGED <<canary, stats, view, age>> /\ Watch(late)

DeleteCanary(t) ==
  /\ pc[t] = "delete"
  /\ canary' = None /\ Wrote(t, "invalidate")
  /\ UNCHANGED <<stable, stats, view, age>> /\ Watch(late)

Invalidate(t) ==
  /\ pc[t] = "invalidate"
  /\ age' = [age EXCEPT ![Home[t]] = REFRESH]
  /\ IF op[t] = "publish" THEN Goto(t, "clear") /\ UNCHANGED <<op, served, draft>> ELSE Finish(t)
  /\ UNCHANGED <<stable, canary, stats, view, events>> /\ Watch(late)

ClearStats(t) ==
  /\ pc[t] = "clear"
  /\ stats' = [stats EXCEPT ![draft[t].version] = [requests |-> 0, errors |-> 0]]
  /\ Finish(t)
  /\ UNCHANGED <<stable, canary, view, age, events>> /\ Watch(late)

\* A command that raises before it did anything.
Raise(t) ==
  /\ pc[t] \in {"set", "set_stable", "delete", "clear", "stats"}
  /\ Finish(t) /\ Event
  /\ UNCHANGED <<stable, canary, stats, view, age>> /\ Watch(late)

-----------------------------------------------------------------------------
Select(t) == t \in Requests /\ pc[t] = "idle" /\ Load(t, "select") /\ UNCHANGED events

\* The request ends and is counted; a failure of the canary is looked into.
Record(t, ok) ==
  LET x == served[t] IN
  /\ pc[t] = "call"
  /\ x.version \in Good => ok
  /\ stats' = IF x.version \notin Versions \/ stats[x.version].requests = MAX_COUNT THEN stats
              ELSE [stats EXCEPT ![x.version].requests = @ + 1,
                                 ![x.version].errors = IF ok THEN @ ELSE @ + 1]
  /\ IF LookedInto(x, ok)
     THEN Wrote(t, "judge")
     ELSE Finish(t) /\ UNCHANGED events
  /\ UNCHANGED <<stable, canary, view, age>> /\ Watch(late)

\* Its client left, or Redis did not take the count.
Unrecorded(t) ==
  /\ pc[t] = "call" /\ Finish(t)
  /\ UNCHANGED <<stable, canary, stats, view, age, events>> /\ Watch(late)

Judge(t) == pc[t] = "judge" /\ Load(t, "judge") /\ UNCHANGED events

ReadStats(t) ==
  /\ pc[t] = "stats"
  /\ IF OverBudget(stats[served[t].version])
     THEN Goto(t, "condemn") /\ UNCHANGED <<op, served, draft>>
     ELSE Finish(t)
  /\ UNCHANGED <<stable, canary, stats, view, age, events>> /\ Watch(late)

Condemn(t) == pc[t] = "condemn" /\ Load(t, "condemn") /\ UNCHANGED events

Begin(t, o) == /\ t \in Operators /\ pc[t] = "idle" /\ o \in Ops
               /\ Event

Publish(t) ==
  /\ Begin(t, "publish")
  /\ Goto(t, "set") /\ op' = [op EXCEPT ![t] = "publish"]
  /\ \E v \in Versions, w \in WEIGHTS :
       draft' = [draft EXCEPT ![t] = [version |-> v, weight |-> w, mark |-> "live"]]
  /\ UNCHANGED <<stable, canary, stats, view, age, served>> /\ Watch(late)

Adjust(t) ==
  \E o \in {"weigh", "promote"} : Begin(t, o) /\ Load(t, o)

Discard(t) ==
  /\ Begin(t, "discard")
  /\ Goto(t, "delete") /\ op' = [op EXCEPT ![t] = "discard"]
  /\ UNCHANGED <<stable, canary, stats, view, age, served, draft>> /\ Watch(late)

Tick ==
  /\ age' = [h \in Holders |-> IF age[h] < REFRESH THEN age[h] + 1 ELSE REFRESH]
  /\ UNCHANGED <<stable, canary, stats, view, pc, op, served, draft, events>>
  /\ Watch([h \in Holders |-> IF late[h] < REFRESH THEN late[h] + 1 ELSE REFRESH])

\* What a coroutine that has started does next.
Continue(t) ==
  \/ Read(t) \/ Resume(t) \/ SetCanary(t) \/ SetStable(t) \/ DeleteCanary(t)
  \/ Invalidate(t) \/ ClearStats(t) \/ Judge(t) \/ ReadStats(t) \/ Condemn(t)

Next ==
  \/ Tick
  \/ \E t \in Tasks : \/ Continue(t) \/ Raise(t)
                      \/ Select(t) \/ (\E ok \in BOOLEAN : Record(t, ok)) \/ Unrecorded(t)
                      \/ Publish(t) \/ Adjust(t) \/ Discard(t)

\* Requests keep coming and end, time passes; each replica draws its canary again and again,
\* and the canary's requests, if they can fail, fail again and again.
Draw(t)   == (Select(t) \/ Resume(t)) /\ pc'[t] = "call" /\ served'[t].name = "canary"
Fairness ==
  /\ WF_vars(Tick)
  /\ \A t \in Tasks : WF_vars(Continue(t))
  /\ \A t \in Requests : /\ WF_vars(Select(t))
                         /\ WF_vars(\E ok \in BOOLEAN : Record(t, ok))
                         /\ SF_vars(Draw(t))
                         /\ SF_vars(Record(t, FALSE) /\ served[t].name = "canary")

Spec     == Init /\ [][Next]_vars
FairSpec == Spec /\ Fairness

-----------------------------------------------------------------------------
Locations == {"idle", "load", "loaded", "call", "judge", "stats", "condemn", "set", "set_stable",
              "delete", "invalidate", "clear"}
Purposes  == {"none", "select", "judge", "condemn", "weigh", "promote", "publish", "discard"}

Equipped(t) ==
  /\ pc[t] \in {"set", "set_stable", "clear"} \/ op[t] = "publish" => draft[t] # None
  /\ pc[t] \in {"call", "judge", "stats", "condemn"} \/ op[t] \in {"judge", "condemn"}
       => served[t] # None

\* Every variable holds what the code can put there, no version has more errors than requests,
\* and a coroutine has the draft or the variant that it is about to use.
TypeOK ==
  /\ stable \in Versions \cup {None}
  /\ canary \in Canaries \cup {None}
  /\ stats \in [Versions -> [requests : 0..MAX_COUNT, errors : 0..MAX_COUNT]]
  /\ \A v \in Versions : stats[v].errors <= stats[v].requests
  /\ view \in [Holders -> Pairs]
  /\ age \in [Holders -> 0..REFRESH]
  /\ pc \in [Tasks -> Locations] /\ op \in [Tasks -> Purposes]
  /\ served \in [Tasks -> Variants \cup {None}]
  /\ draft \in [Tasks -> Canaries \cup {None}]
  /\ events \in 0..MAX_EVENTS
  /\ late \in [Holders -> 0..REFRESH]
  /\ \A t \in Tasks : Equipped(t)

\* "Each replica caches the pair for a second" (the module's docstring), which is only
\* true because _load takes the time before it awaits the MGET: whatever overtakes
\* it (a slow reply, another load, a write on this or another replica), the pair a
\* replica routes by was Redis's less than the refresh window ago.
StaleAtMostRefresh == \A r \in Replicas : Fresh(r) => late[r] <= age[r]

\* "It rolls itself back": a canary over its budget on the counters pooled by all replicas is
\* withdrawn, replaced or back within its budget in the end.
Overspent(v) == Active(canary) /\ canary.version = v /\ OverBudget(stats[v])
BadCanaryWithdrawn == \A v \in Versions : Overspent(v) ~> ~Overspent(v)
=============================================================================
