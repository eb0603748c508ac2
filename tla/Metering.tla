------------------------------ MODULE Metering ------------------------------
(***************************************************************************)
(* One key's usage by the day (app/core/metering.py): requests record      *)
(* themselves in pipelines that are no transactions, so the commands of    *)
(* several interleave and a lost connection leaves some out, while         *)
(* GET /v1/usage (app/api/account.py) reads the hashes one by one.         *)
(***************************************************************************)
EXTENDS Integers, Sequences

CONSTANTS Recorders, Prices, LAST_DAY

ASSUME MeteringAssumption == Prices \subseteq Nat /\ LAST_DAY \in Nat

VARIABLES
  day,
  usage,     \* usage:{key_id}:{day}
  done,      \* the requests that have called record
  pipe,      \* the commands of each that are still to run
  rows       \* the days that daily has read

meterVars == <<day, usage, done, pipe, rows>>

NoUsage == [requests |-> 0, cache_hits |-> 0, cost |-> 0, saved |-> 0,
            self_hosted |-> 0, self_hosted_cost |-> 0]

MeterInit ==
  /\ day = 0
  /\ usage = [d \in 0..LAST_DAY |-> NoUsage]
  /\ done = {}
  /\ pipe = [r \in Recorders |-> <<>>]
  /\ rows = <<>>

Midnight ==
  /\ day < LAST_DAY
  /\ day' = day + 1
  /\ UNCHANGED <<usage, done, pipe, rows>>

Incr(field, by) == [day |-> day, field |-> field, by |-> by]

\* A bug record could have: the kind of the request is counted before the request.
CommandsHitFirst(kind, price) ==
  IF kind = "cached" THEN <<Incr("cache_hits", 1), Incr("requests", 1), Incr("saved", price)>>
  ELSE <<Incr("requests", 1), Incr("cost", price)>>

\* record: the commands in their order; tokens are left out, they go as the cost goes.
Commands(kind, price) ==
  CASE kind = "cached"      -> <<Incr("requests", 1), Incr("cache_hits", 1), Incr("saved", price)>>
    [] kind = "provider"    -> <<Incr("requests", 1), Incr("cost", price)>>
    [] kind = "self_hosted" -> <<Incr("requests", 1), Incr("cost", price), Incr("self_hosted", 1),
                                 Incr("self_hosted_cost", price)>>

Record(r) ==
  /\ r \notin done
  /\ done' = done \cup {r}
  /\ \E kind \in {"cached", "provider", "self_hosted"}, price \in Prices :
       pipe' = [pipe EXCEPT ![r] = Commands(kind, price)]
  /\ UNCHANGED <<day, usage, rows>>

RunCommand(r) ==
  /\ pipe[r] # <<>>
  /\ LET incr == Head(pipe[r]) IN usage' = [usage EXCEPT ![incr.day][incr.field] = @ + incr.by]
  /\ pipe' = [pipe EXCEPT ![r] = Tail(@)]
  /\ UNCHANGED <<day, done, rows>>

\* The connection breaks: what Redis has not run, it never will.
Break(r) ==
  /\ pipe[r] # <<>>
  /\ pipe' = [pipe EXCEPT ![r] = <<>>]
  /\ UNCHANGED <<day, usage, done, rows>>

\* daily: the next of its days, each at one moment; the oldest first, and then another report.
Daily ==
  /\ rows' = IF Len(rows) = LAST_DAY + 1 THEN <<>> ELSE Append(rows, usage[Len(rows)])
  /\ UNCHANGED <<day, usage, done, pipe>>

MeterNext == (\E r \in Recorders : Record(r) \/ RunCommand(r) \/ Break(r)) \/ Daily \/ Midnight
MeterSpec == MeterInit /\ [][MeterNext]_meterVars
-----------------------------------------------------------------------------
\* The totals of GET /v1/usage over the days read.
Totals ==
  [f \in DOMAIN NoUsage |->
     LET sum[i \in 0..Len(rows)] == IF i = 0 THEN 0 ELSE sum[i - 1] + rows[i][f]
     IN sum[Len(rows)]]

AtLeast0(n) == IF n > 0 THEN n ELSE 0
ProviderRequests(row) == AtLeast0(row.requests - row.cache_hits - row.self_hosted)
ProviderCost(row) == AtLeast0(row.cost - row.self_hosted_cost)

\* The requests each kind's cost per 1000 is averaged over, and what each kind cost.
CostKinds(t) ==
  [cache_hit     |-> [requests |-> t.cache_hits, cost |-> 0],
   provider_call |-> [requests |-> ProviderRequests(t), cost |-> ProviderCost(t)],
   self_hosted   |-> [requests |-> t.self_hosted, cost |-> t.self_hosted_cost]]

\* Types; and every report adds up, whatever pipelines it overlaps and whichever broke: its kinds
\* are all of its requests and all of its cost, so no clamp ever hides a difference
\* (provider_requests and provider_cost_usd, metering.py:26-33; _cost_per_1k, account.py:83-95).
MeterTypeOK ==
  /\ usage \in [0..LAST_DAY -> [DOMAIN NoUsage -> Nat]]
  /\ LET k == CostKinds(Totals) IN
       /\ k.cache_hit.requests + k.provider_call.requests + k.self_hosted.requests
            = Totals.requests
       /\ k.provider_call.cost + k.self_hosted.cost = Totals.cost
=============================================================================
