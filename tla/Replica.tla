------------------------------ MODULE Replica -------------------------------
(***************************************************************************)
(* One API replica from its start to its end: the lifespan of app/main.py, *)
(* the composition root (app/core/container.py), demo mode (app/demo.py)   *)
(* and the readiness probe (app/api/health.py).  Redis and Qdrant outlive  *)
(* the replica; every await may raise, and the replica may die at each.    *)
(***************************************************************************)
EXTENDS Integers, FiniteSets, Sequences

CONSTANTS
  Corpus,      \* the demo documents
  MAX_STARTS   \* bound: starts of the replica

Parts == {"clients", "router", "cache", "rag", "celery", "inline", "bound", "services"}

\* built holds the documents beside the parts, as something else than these.
ASSUME ReplicaAssumption ==
  IsFiniteSet(Corpus) /\ Corpus \cap Parts = {} /\ MAX_STARTS \in Nat

VARIABLES
  settings,  \* what the environment says
  life,      \* where the start, or the stop, is
  built,     \* what build_services has made so far
  open,      \* the clients to be closed
  stores,    \* in Redis and Qdrant: index, collection, demo keys, demo documents
  shown,     \* app.state.demo_key
  starts,
  probe,     \* readyz: the checks so far
  verdict     \* ... and what it said: "none", "ready" or "not_ready"

replicaVars == <<settings, life, built, open, stores, shown, starts, probe, verdict>>

Secrets == {"admin_token", "jwt_secret"}

Settings == [prod : BOOLEAN, defaults : SUBSET Secrets, routes : {"valid", "invalid"},
             tracing : BOOLEAN, cache : {"off", "bruteforce", "redisearch"},
             queue : {"celery", "inline"}, demo : BOOLEAN]

ReplicaInit ==
  /\ settings \in Settings
  /\ life = "down" /\ built = {} /\ open = {} /\ shown = 0 /\ starts = 0
  /\ stores = [index |-> FALSE, collection |-> FALSE, keys |-> 0, documents |-> {}]
  /\ probe = <<>> /\ verdict = "none"

Has(part) == built' = built \cup {part}

\* Uvicorn starts the application.
Launch ==
  /\ life = "down" /\ starts < MAX_STARTS
  /\ life' = "check" /\ starts' = starts + 1
  /\ UNCHANGED <<settings, built, open, stores, shown, probe, verdict>>

\* A bug check_production_secrets could have: it looks at the first field only.
InsecureFirstOnly == settings.prod /\ "admin_token" \in settings.defaults
\* check_production_secrets
Insecure == settings.prod /\ settings.defaults # {}

Exits == life' = "down" /\ built' = {} /\ open' = {} /\ shown' = 0

CheckSecrets ==
  /\ life = "check"
  /\ IF Insecure THEN Exits ELSE life' = "connect" /\ UNCHANGED <<built, open, shown>>
  /\ UNCHANGED <<settings, stores, starts, probe, verdict>>

\* build_tracer, which falls back to no tracing, and the clients, which connect when first used.
Connect ==
  /\ life = "connect"
  /\ \E tracer \in {"noop"} \cup (IF settings.tracing THEN {"langfuse"} ELSE {}) :
       open' = {"qdrant", "redis", "cache_redis", tracer}
  /\ Has("clients")
  /\ life' = "route"
  /\ UNCHANGED <<settings, stores, shown, starts, probe, verdict>>

\* RoutingConfig.from_yaml and the check for unregistered providers.
BuildRouter ==
  /\ life = "route"
  /\ IF settings.routes = "invalid" THEN Exits
     ELSE life' = "cache" /\ Has("router") /\ UNCHANGED <<open, shown>>
  /\ UNCHANGED <<settings, stores, starts, probe, verdict>>

SetUpCache ==
  /\ life = "cache"
  /\ IF settings.cache = "off" THEN UNCHANGED <<stores, built>>
     ELSE /\ stores' = [stores EXCEPT !.index = @ \/ settings.cache = "redisearch"]
          /\ Has("cache")
  /\ life' = "rag"
  /\ UNCHANGED <<settings, open, shown, starts, probe, verdict>>

\* build_rag: the collection, and then everything that needs no answer from elsewhere.
BuildRag ==
  /\ life = "rag"
  /\ stores' = [stores EXCEPT !.collection = TRUE]
  /\ built' = built \cup {"rag", settings.queue}
  /\ life' = "bind"
  /\ UNCHANGED <<settings, open, shown, starts, probe, verdict>>

\* The inline queue is given the service that runs its jobs.
Bind ==
  /\ life = "bind"
  /\ IF "inline" \in built THEN Has("bound") ELSE UNCHANGED built
  /\ life' = "services"
  /\ UNCHANGED <<settings, open, stores, shown, starts, probe, verdict>>

Assemble ==
  /\ life = "services"
  /\ Has("services")
  /\ life' = IF settings.demo THEN "mint" ELSE "serving"
  /\ UNCHANGED <<settings, open, stores, shown, starts, probe, verdict>>

\* prepare_demo: a new key at every start, and the documents one by one, not through the queue.
MintKey ==
  /\ life = "mint"
  /\ stores' = [stores EXCEPT !.keys = @ + 1]
  /\ shown' = stores'.keys
  /\ life' = "ingest"
  /\ UNCHANGED <<settings, built, open, starts, probe, verdict>>

\* The files in the order of their names; those of an earlier start are replaced.
IngestDocument(d) ==
  /\ life = "ingest" /\ d \notin built
  /\ stores' = [stores EXCEPT !.documents = @ \cup {d}]
  /\ Has(d)
  /\ UNCHANGED <<settings, life, open, shown, starts, probe, verdict>>

DemoReady ==
  /\ life = "ingest" /\ Corpus \subseteq built
  /\ life' = "serving"
  /\ UNCHANGED <<settings, built, open, stores, shown, starts, probe, verdict>>

\* An await of the start raises, or the process dies; a write may have happened.
StartFails ==
  /\ life \notin {"down", "closing"}
  /\ \/ UNCHANGED stores
     \/ life = "rag" /\ stores' = [stores EXCEPT !.collection = TRUE]
     \/ life = "mint" /\ stores' = [stores EXCEPT !.keys = @ + 1]
  /\ Exits
  /\ probe' = <<>> /\ verdict' = "none"
  /\ UNCHANGED <<settings, starts>>

-----------------------------------------------------------------------------
\* readyz asks Redis and then Qdrant; an exception is an answer like another.
Ping ==
  /\ life = "serving" /\ Len(probe) < 2
  /\ \E ok \in BOOLEAN : probe' = Append(probe, ok)
  /\ verdict' = "none"
  /\ UNCHANGED <<settings, life, built, open, stores, shown, starts>>

Readyz ==
  /\ Len(probe) = 2
  /\ verdict' = IF probe[1] /\ probe[2] THEN "ready" ELSE "not_ready"
  /\ probe' = <<>>
  /\ UNCHANGED <<settings, life, built, open, stores, shown, starts>>

-----------------------------------------------------------------------------
\* The order of aclose: after the tracer, whose flush never raises.
Closing == <<"qdrant", "redis", "cache_redis">>

\* The lifespan ends: what is not part of a request any more (inline jobs, abandoned streams'
\* bills) is not waited for.
Stop ==
  /\ life = "serving"
  /\ life' = "closing"
  /\ open' = open \ {"noop", "langfuse"}
  /\ probe' = <<>> /\ verdict' = "none"
  /\ UNCHANGED <<settings, built, stores, shown, starts>>

CloseNext ==
  /\ life = "closing" /\ open # {}
  /\ open' = open \ {Closing[4 - Cardinality(open)]}
  /\ UNCHANGED <<settings, life, built, stores, shown, starts, probe, verdict>>

\* One that raises leaves the rest to the end of the process.
CloseRaises ==
  /\ life = "closing" /\ open # {}
  /\ Exits
  /\ UNCHANGED <<settings, stores, starts, probe, verdict>>

Closed ==
  /\ life = "closing" /\ open = {}
  /\ Exits
  /\ UNCHANGED <<settings, stores, starts, probe, verdict>>

ReplicaNext ==
  \/ Launch \/ CheckSecrets \/ Connect \/ BuildRouter \/ SetUpCache \/ BuildRag \/ Bind
  \/ Assemble \/ MintKey \/ (\E d \in Corpus : IngestDocument(d)) \/ DemoReady \/ StartFails
  \/ Ping \/ Readyz \/ Stop \/ CloseNext \/ CloseRaises \/ Closed
ReplicaSpec == ReplicaInit /\ [][ReplicaNext]_replicaVars
-----------------------------------------------------------------------------
\* What takes traffic was set up whole, in this start, however earlier starts ended: no default
\* secret in production, a router, the stores the settings ask for, an inline queue that can run
\* jobs, and in demo mode the one key that is shown and all documents ("the demo must be ready
\* before it takes traffic", demo.py:45).  A replica never says it is ready before (health.py:18).
StartsWhole ==
  /\ life = "serving" =>
       /\ settings.prod => settings.defaults = {}
       /\ {"clients", "router", "rag", "services", settings.queue} \subseteq built
       /\ settings.cache # "off" => "cache" \in built
       /\ settings.cache = "redisearch" => stores.index
       /\ stores.collection
       /\ settings.queue = "inline" => "bound" \in built
       /\ settings.demo => shown = stores.keys /\ shown > 0 /\ stores.documents = Corpus
       /\ {"qdrant", "redis", "cache_redis"} \subseteq open
  /\ verdict = "ready" => life = "serving"
=============================================================================
