--------------------------- MODULE FaultInjector ----------------------------
(***************************************************************************)
(* The chaos-test switch of app/gateway/faults.py for one deployment: the  *)
(* table in Redis, the copy each replica caches, the calls that ask        *)
(* whether they must fail (router.py), and the admin endpoints.            *)
(***************************************************************************)
EXTENDS Integers

CONSTANTS
  Pods, Calls,
  CallPod,       \* the replica a call is on
  REFRESH,       \* refresh_seconds
  MAX_TICKS, MAX_SWITCHES  \* bounds

ASSUME FaultAssumption ==
  /\ CallPod \in [Calls -> Pods]
  /\ REFRESH \in Nat \ {0} /\ MAX_TICKS \in Nat /\ MAX_SWITCHES \in Nat

VARIABLES
  tick,      \* monotonic time
  table,     \* faults:deployments: the number of the last change, 0 for no fault ever set
  changed,   \* when each change was made
  cached,    \* each replica's rates: their number, or Nothing when Redis could not be read
  fetched,   \* ... and _fetched_at
  asking,    \* each call
  switching  \* the admin endpoint between its write and the end of set or clear

faultVars == <<tick, table, changed, cached, fetched, asking, switching>>

Never == -1 - REFRESH
Nothing == -1
Away == [at |-> "away"]

FaultInit ==
  /\ tick = 0 /\ table = 0 /\ changed = [n \in {0} |-> 0]
  /\ cached = [p \in Pods |-> Nothing] /\ fetched = [p \in Pods |-> Never]
  /\ asking = [c \in Calls |-> Away]
  /\ switching = {}

TickOn ==
  /\ tick < MAX_TICKS
  /\ tick' = tick + 1
  /\ UNCHANGED <<table, changed, cached, fetched, asking, switching>>

\* A bug rates could have: the copy is dated when the reply comes.
DatedOnReply(c) == tick
Dated(c) == asking[c].since

\* rates: the copy if it is young enough, else the table is read.
MaybeFail(c) ==
  /\ asking[c] = Away
  /\ LET p == CallPod[c] IN
     asking' = [asking EXCEPT ![c] =
       IF tick - fetched[p] >= REFRESH THEN [at |-> "read", since |-> tick]
       ELSE [at |-> "decide", since |-> tick, by |-> cached[p]]]
  /\ UNCHANGED <<tick, table, changed, cached, fetched, switching>>

ReadTable(c) ==
  /\ asking[c].at = "read"
  /\ \E answer \in {table, Nothing} :
       asking' = [asking EXCEPT ![c] = [at |-> "reply", since |-> @.since, by |-> answer]]
  /\ UNCHANGED <<tick, table, changed, cached, fetched, switching>>

\* The reply, or the exception, replaces the copy and dates it by the clock read before.
Apply(c) ==
  /\ asking[c].at = "reply"
  /\ LET p == CallPod[c] IN
     /\ cached' = [cached EXCEPT ![p] = asking[c].by]
     /\ fetched' = [fetched EXCEPT ![p] = Dated(c)]
  /\ asking' = [asking EXCEPT ![c].at = "decide"]
  /\ UNCHANGED <<tick, table, changed, switching>>

\* A ProviderError where the provider would raise one, or the provider is called.
Decide(c) ==
  /\ asking[c].at = "decide"
  /\ asking' = [asking EXCEPT ![c] = Away]
  /\ UNCHANGED <<tick, table, changed, cached, fetched, switching>>

\* set or clear on any replica, behind the admin endpoints, whose refusals (409 while injection is
\* disabled, 404 for what is unknown) change nothing: the table ...
Switch(p) ==
  /\ p \notin switching /\ table < MAX_SWITCHES
  /\ table' = table + 1
  /\ changed' = [n \in 0..table' |-> IF n = table' THEN tick ELSE changed[n]]
  /\ switching' = switching \cup {p}
  /\ UNCHANGED <<tick, cached, fetched, asking>>

\* ... and then this replica's copy is out of date, unless a reply that is still to come renews it.
Expire(p) ==
  /\ p \in switching
  /\ fetched' = [fetched EXCEPT ![p] = Never]
  /\ switching' = switching \ {p}
  /\ UNCHANGED <<tick, table, changed, cached, asking>>

FaultNext ==
  \/ TickOn
  \/ \E c \in Calls : MaybeFail(c) \/ ReadTable(c) \/ Apply(c) \/ Decide(c)
  \/ \E p \in Pods : Switch(p) \/ Expire(p)
FaultSpec == FaultInit /\ [][FaultNext]_faultVars
-----------------------------------------------------------------------------
FaultTypeOK ==
  /\ table \in Nat /\ DOMAIN changed = 0..table
  /\ cached \in [Pods -> Nothing..table]
  /\ fetched \in [Pods -> {Never} \cup 0..tick]
  /\ switching \subseteq Pods
  /\ \A c \in Calls : asking[c].at \in {"away", "read", "reply", "decide"}

\* A fault that was set or cleared REFRESH or more before a call came decides that call, on every
\* replica, however slow the reads are and however they overtake one another
\* (FaultInjector.rates, faults.py:46-56; "others within a second", :65).
FaultsFresh ==
  \A c \in Calls : asking[c].at = "decide" /\ asking[c].by # Nothing /\ asking[c].by < table =>
    changed[asking[c].by + 1] > asking[c].since - REFRESH
=============================================================================
