--------------------------- MODULE SemanticCache ----------------------------
(***************************************************************************)
(* The semantic response cache of app/cache/semantic_cache.py: replicas    *)
(* store and look up completions, an operator or a tenant purges them, and *)
(* Redis expires them.  Each action is one round trip to Redis; what a     *)
(* caller holds between two of them may be stale.                          *)
(*                                                                         *)
(* namespace_for hashes everything that makes two requests different, the  *)
(* tenant included: a namespace is a value with an owner.                  *)
(***************************************************************************)
EXTENDS Integers, FiniteSets

CONSTANTS
  Namespaces, Tenants,
  Owner,        \* whose namespace it is
  Callers,      \* requests in flight, each storing or looking up
  MAX_ENTRIES, TTL,
  MAX_STORES, MAX_TIME  \* bounds of the exploration

ASSUME CacheAssumption ==
  /\ Owner \in [Namespaces -> Tenants]
  /\ MAX_ENTRIES \in Nat \ {0} /\ TTL \in Nat \ {0}
  /\ MAX_STORES \in Nat /\ MAX_TIME \in Nat

VARIABLES
  now,       \* seconds
  entry,     \* semcache:e: -- by id, in the order in which the stores read the clock
  listed,    \* semcache:z: -- the ids each namespace lists, ranked by created
  owned,     \* semcache:t: -- the namespaces each tenant is known to have, until when
  caller,    \* what each request is doing
  purge,     \* the purge that is running
  indexed, \* which VectorIndex the gateway was built with
  stranded,  \* entries whose eviction a crash cut short
  raced,     \* entries stored while a purge ran
  voided     \* entries stored before a purge that has returned

cacheVars == <<now, entry, listed, owned, caller, purge, indexed, stranded, raced, voided>>

NoWork == [doing |-> "idle"]
Ids == 1..MAX_STORES
Entries == [ns : Namespaces, created : 0..MAX_TIME, until : 0..(MAX_TIME + TTL)]

CacheInit ==
  /\ now = 0
  /\ entry = <<>>
  /\ listed = [n \in Namespaces |-> {}]
  /\ owned = [t \in Tenants |-> [spaces |-> {}, until |-> 0]]
  /\ caller = [c \in Callers |-> NoWork]
  /\ purge = NoWork
  /\ indexed \in BOOLEAN
  /\ stranded = {} /\ raced = {} /\ voided = {}

\* The hash exists: Redis expires it, or somebody deletes it (until = 0).
Live(e) == now < entry[e].until
LiveIn(n) == {e \in DOMAIN entry : entry[e].ns = n /\ Live(e)}
Deleted(E) == [e \in DOMAIN entry |-> IF e \in E THEN [entry[e] EXCEPT !.until = 0] ELSE entry[e]]
SpacesOf(t) == IF now < owned[t].until THEN owned[t].spaces ELSE {}
Newest(E, n) == {e \in E : Cardinality({f \in E : f > e}) < n}
Purging == purge # NoWork

Tick ==
  /\ now < MAX_TIME
  /\ now' = now + 1
  /\ UNCHANGED <<entry, listed, owned, caller, purge, indexed, stranded, raced, voided>>

\* store, up to the clock: the id takes its place in the order.
Stamp(c, n) ==
  /\ caller[c] = NoWork /\ Cardinality(DOMAIN entry) < MAX_STORES
  /\ LET e == Cardinality(DOMAIN entry) + 1 IN
     /\ entry' = [i \in 1..e |-> IF i = e THEN [ns |-> n, created |-> now, until |-> 0] ELSE entry[i]]
     /\ caller' = [caller EXCEPT ![c] = [doing |-> "store", id |-> e]]
  /\ UNCHANGED <<now, listed, owned, purge, indexed, stranded, raced, voided>>

\* A bug store could have: the ids beyond the cap are read after they are removed.
EvictedTooLate(ids) == {}

\* zrange before zremrangebyrank: the ids beyond the cap, oldest first.
Evicted(ids) == ids \ Newest(ids, MAX_ENTRIES)

\* The transaction of store: everything but the evicted hashes themselves.
Commit(c) ==
  /\ caller[c].doing = "store"
  /\ LET e == caller[c].id
         n == entry[e].ns
         ids == {i \in listed[n] \cup {e} : entry[i].created > entry[e].created - TTL}
         t == Owner[n]
     IN /\ entry' = [entry EXCEPT ![e].until = now + TTL]
        /\ listed' = [listed EXCEPT ![n] = Newest(ids, MAX_ENTRIES)]
        /\ owned' = [owned EXCEPT ![t] = [spaces |-> SpacesOf(t) \cup {n}, until |-> now + TTL]]
        /\ caller' = [caller EXCEPT ![c] = IF Evicted(ids) = {} THEN NoWork
                                           ELSE [doing |-> "evict", ids |-> Evicted(ids)]]
        /\ raced' = IF Purging THEN raced \cup {e} ELSE raced
  /\ UNCHANGED <<now, purge, indexed, stranded, voided>>

\* The second call of store.
Evict(c) ==
  /\ caller[c].doing = "evict"
  /\ entry' = Deleted(caller[c].ids)
  /\ caller' = [caller EXCEPT ![c] = NoWork]
  /\ UNCHANGED <<now, listed, owned, purge, indexed, stranded, raced, voided>>

\* lookup with the brute-force index: the newest ids the namespace lists ...
ListIds(c, n) ==
  /\ caller[c] = NoWork /\ ~indexed /\ listed[n] # {}
  /\ caller' = [caller EXCEPT ![c] = [doing |-> "compare", ns |-> n, ids |-> listed[n]]]
  /\ UNCHANGED <<now, entry, listed, owned, purge, indexed, stranded, raced, voided>>

Above(c, E) == {NoWork} \cup {[doing |-> "fetch", id |-> e] : e \in E}

\* ... their vectors, of which the nearest may be above the threshold, unless some have expired ...
Compare(c) ==
  /\ caller[c].doing = "compare"
  /\ LET live == {e \in caller[c].ids : Live(e)}
         dead == caller[c].ids \ live
     IN IF dead = {} THEN \E a \in Above(c, live) : caller' = [caller EXCEPT ![c] = a]
        ELSE caller' = [caller EXCEPT ![c] =
               [doing |-> "tidy", ns |-> caller[c].ns, ids |-> dead, live |-> live]]
  /\ UNCHANGED <<now, entry, listed, owned, purge, indexed, stranded, raced, voided>>

\* ... which it takes off the list first.
Tidy(c) ==
  /\ caller[c].doing = "tidy"
  /\ listed' = [listed EXCEPT ![caller[c].ns] = @ \ caller[c].ids]
  /\ \E a \in Above(c, caller[c].live) : caller' = [caller EXCEPT ![c] = a]
  /\ UNCHANGED <<now, entry, owned, purge, indexed, stranded, raced, voided>>

\* lookup with the RediSearch index, which covers every hash there is.
Nearest(c, n) ==
  /\ caller[c] = NoWork /\ indexed
  /\ \E e \in LiveIn(n) : caller' = [caller EXCEPT ![c] = [doing |-> "fetch", id |-> e]]
  /\ UNCHANGED <<now, entry, listed, owned, purge, indexed, stranded, raced, voided>>

\* The payload: a hit, or a miss if the entry is gone by now.
Fetch(c) ==
  /\ caller[c].doing = "fetch"
  /\ caller' = [caller EXCEPT ![c] = NoWork]
  /\ UNCHANGED <<now, entry, listed, owned, purge, indexed, stranded, raced, voided>>

\* The replica dies, or the caller is gone, between the two calls of store; at any other point it
\* leaves nothing behind.
Crash(c) ==
  /\ caller[c].doing = "evict"
  /\ caller' = [caller EXCEPT ![c] = NoWork]
  /\ stranded' = stranded \cup caller[c].ids
  /\ UNCHANGED <<now, entry, listed, owned, purge, indexed, raced, voided>>

Settled(S) == {e \in UNION {LiveIn(n) : n \in S} : e \notin raced}

\* A bug purge_tenant could have: the set is forgotten before its namespaces are deleted.
ReadSpacesForgets(t) ==
  /\ ~Purging
  /\ purge' = [doing |-> "scan", tenant |-> t, left |-> SpacesOf(t), batch |-> {},
               targets |-> Settled({n \in Namespaces : Owner[n] = t})]
  /\ owned' = [owned EXCEPT ![t].until = 0]
  /\ UNCHANGED <<now, entry, listed, caller, indexed, stranded, raced, voided>>

\* purge_tenant: the namespaces the tenant is known to have ...
ReadSpaces(t) ==
  /\ ~Purging
  /\ purge' = [doing |-> "scan", tenant |-> t, left |-> SpacesOf(t), batch |-> {},
               targets |-> Settled({n \in Namespaces : Owner[n] = t})]
  /\ UNCHANGED <<now, entry, listed, owned, caller, indexed, stranded, raced, voided>>

\* ... one by one, their hashes as the scan finds them ...
Scan(n) ==
  /\ purge.doing = "scan" /\ n \in purge.left
  /\ purge' = [purge EXCEPT !.doing = "delete", !.left = @ \ {n},
                            !.batch = [ns |-> n, ids |-> LiveIn(n)]]
  /\ UNCHANGED <<now, entry, listed, owned, caller, indexed, stranded, raced, voided>>

DeleteBatch ==
  /\ purge.doing = "delete"
  /\ entry' = Deleted(purge.batch.ids)
  /\ purge' = [purge EXCEPT !.doing = "unlist"]
  /\ UNCHANGED <<now, listed, owned, caller, indexed, stranded, raced, voided>>

\* ... and the list ...
Unlist ==
  /\ purge.doing = "unlist"
  /\ listed' = [listed EXCEPT ![purge.batch.ns] = {}]
  /\ purge' = [purge EXCEPT !.doing = "scan", !.batch = {}]
  /\ UNCHANGED <<now, entry, owned, caller, indexed, stranded, raced, voided>>

\* ... and at last the set.
ForgetSpaces ==
  /\ purge.doing = "scan" /\ purge.left = {}
  /\ owned' = [owned EXCEPT ![purge.tenant].until = 0]
  /\ voided' = voided \cup purge.targets
  /\ purge' = NoWork
  /\ UNCHANGED <<now, entry, listed, caller, indexed, stranded, raced>>

\* purge_all: every hash, then every list, then every set, by key pattern.
ScanAll ==
  /\ ~Purging
  /\ purge' = [doing |-> "all entries", targets |-> Settled(Namespaces),
               batch |-> UNION {LiveIn(n) : n \in Namespaces}]
  /\ UNCHANGED <<now, entry, listed, owned, caller, indexed, stranded, raced, voided>>
DeleteAll ==
  /\ purge.doing = "all entries"
  /\ entry' = Deleted(purge.batch)
  /\ purge' = [purge EXCEPT !.doing = "all lists"]
  /\ UNCHANGED <<now, listed, owned, caller, indexed, stranded, raced, voided>>
UnlistAll ==
  /\ purge.doing = "all lists"
  /\ listed' = [n \in Namespaces |-> {}]
  /\ purge' = [purge EXCEPT !.doing = "all sets"]
  /\ UNCHANGED <<now, entry, owned, caller, indexed, stranded, raced, voided>>
ForgetAll ==
  /\ purge.doing = "all sets"
  /\ owned' = [t \in Tenants |-> [spaces |-> {}, until |-> 0]]
  /\ voided' = voided \cup purge.targets
  /\ purge' = NoWork
  /\ UNCHANGED <<now, entry, listed, caller, indexed, stranded, raced>>

\* The replica that purges dies half way.
PurgeCrash ==
  /\ Purging
  /\ purge' = NoWork
  /\ UNCHANGED <<now, entry, listed, owned, caller, indexed, stranded, raced, voided>>

CacheNext ==
  \/ Tick
  \/ \E c \in Callers :
       \/ \E n \in Namespaces : Stamp(c, n) \/ ListIds(c, n) \/ Nearest(c, n)
       \/ Commit(c) \/ Evict(c) \/ Compare(c) \/ Tidy(c) \/ Fetch(c) \/ Crash(c)
  \/ \E t \in Tenants : ReadSpaces(t)
  \/ \E n \in Namespaces : Scan(n)
  \/ DeleteBatch \/ Unlist \/ ForgetSpaces \/ ScanAll \/ DeleteAll \/ UnlistAll \/ ForgetAll
  \/ PurgeCrash
CacheSpec == CacheInit /\ [][CacheNext]_cacheVars
-----------------------------------------------------------------------------
CacheTypeOK ==
  /\ DOMAIN entry \subseteq Ids /\ \A e \in DOMAIN entry : entry[e] \in Entries
  /\ \A n \in Namespaces : \A e \in listed[n] : entry[e].ns = n
  /\ \A t \in Tenants : \A n \in owned[t].spaces : Owner[n] = t
  /\ stranded \cup raced \cup voided \subseteq DOMAIN entry

\* Once a purge has returned, nothing that was stored before it began is left to be served, even if
\* an earlier purge died half way; an entry is lost to all purges only if it was stored while one
\* ran (purge_tenant, semantic_cache.py:253-260, purge_all, :262-266).
PurgedGone == \A e \in voided : ~Live(e)

\* The cap of a namespace bounds what Redis holds for it: an entry the list no longer has is about
\* to be evicted or has outlived its TTL by its own clock, or a crash cut its eviction short or it
\* was stored while a purge ran (store, semantic_cache.py:241-251; BruteForceIndex.nearest,
\* :121-122).
CapHolds ==
  /\ \A n \in Namespaces : Cardinality(listed[n]) <= MAX_ENTRIES
  /\ \A e \in DOMAIN entry : Live(e) =>
       \/ e \in listed[entry[e].ns]
       \/ \E c \in Callers : caller[c].doing = "evict" /\ e \in caller[c].ids
       \/ now >= entry[e].created + TTL
       \/ e \in stranded \cup raced
=============================================================================
