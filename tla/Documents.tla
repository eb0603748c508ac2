----------------------------- MODULE Documents ------------------------------
(***************************************************************************)
(* A tenant's documents: replicas that start together set up the stores    *)
(* (QdrantChunkStore.setup, RediSearchIndex.setup, in the order of         *)
(* build_services) and then ingest and delete documents whose chunks are   *)
(* points in Qdrant and whose records are in Redis (app/rag/ingestion.py,  *)
(* documents.py, vector_store.py, parsing.py, app/api/rag.py).             *)
(*                                                                         *)
(* A document is its bytes: doc_id is their hash.  Its chunks still vary,  *)
(* with the file name, the parser and the chunker of the release that      *)
(* ingests it.  What runs an ingestion is IngestJobs' matter: here it is   *)
(* any replica, at any time, and it may fail at every call it awaits.      *)
(***************************************************************************)
EXTENDS Integers, FiniteSets

CONSTANTS
  Replicas, Docs,
  Data,         \* of each document: [bytes, nul, pdf, text]
  MAX_BYTES,    \* settings.rag_max_upload_bytes
  MAX_CHUNKS,   \* bound: chunks of a document
  BATCH,        \* points of one upsert
  MAX_INGESTS   \* bound: ingestions

ASSUME DocumentsAssumption ==
  /\ MAX_CHUNKS \in Nat /\ BATCH \in Nat \ {0} /\ MAX_INGESTS \in Nat
  /\ DOMAIN Data = Docs

VARIABLES
  wanted,     \* settings.retrieval_hybrid of each replica's release
  redisearch, \* settings.cache_index_backend
  index,      \* the cache's index exists
  collection, \* the chunk collection: none, dense, or with a lexical vector too
  replica,    \* how far each replica's start-up is, and its _lexical
  op,         \* what each replica is doing to a document
  points,     \* the points of each document, by chunk index
  registry,   \* ragdoc: and ragdocs: -- the record of each document
  ingests,    \* how many ingestions reached the store
  torn        \* documents two writers were at, or a writer left half way

docVars == <<wanted, redisearch, index, collection, replica, op, points, registry, ingests, torn>>
stores == <<wanted, redisearch, index, collection>>

Idle == [doing |-> "idle"]
NoRecord == [chunks |-> -1, by |-> 0]
Stages == {"index", "create index", "collection", "create", "inspect", "payload indexes", "up"}

DocInit ==
  /\ wanted \in [Replicas -> BOOLEAN] /\ redisearch \in BOOLEAN
  /\ index = FALSE /\ collection = "none"
  /\ replica = [r \in Replicas |-> [stage |-> "index", lexical |-> FALSE]]
  /\ op = [r \in Replicas |-> Idle]
  /\ points = [d \in Docs |-> <<>>]
  /\ registry = [d \in Docs |-> NoRecord]
  /\ ingests = 0
  /\ torn = [d \in Docs |-> FALSE]

Goes(r, stage) == replica' = [replica EXCEPT ![r].stage = stage]
At(r, stage) == replica[r].stage = stage

(***************************************************************************)
(* Start-up                                                                *)
(***************************************************************************)

\* info answers, or raises because there is no index; the brute-force index has nothing to set up.
LookForIndex(r) ==
  /\ At(r, "index")
  /\ Goes(r, IF redisearch /\ ~index THEN "create index" ELSE "collection")
  /\ UNCHANGED <<stores, op, points, registry, ingests, torn>>

\* Created now, or by a replica that was faster: "already exists".
CreateIndex(r) ==
  /\ At(r, "create index")
  /\ index' = TRUE
  /\ Goes(r, "collection")
  /\ UNCHANGED <<wanted, redisearch, collection, op, points, registry, ingests, torn>>

LookForCollection(r) ==
  /\ At(r, "collection")
  /\ Goes(r, IF collection = "none" THEN "create" ELSE "inspect")
  /\ UNCHANGED <<stores, op, points, registry, ingests, torn>>

\* The first one decides which vectors the collection has; losing the race is fine.
CreateCollection(r) ==
  /\ At(r, "create")
  /\ collection' = IF collection # "none" THEN collection
                   ELSE IF wanted[r] THEN "lexical" ELSE "dense"
  /\ Goes(r, "inspect")
  /\ UNCHANGED <<wanted, redisearch, index, op, points, registry, ingests, torn>>

\* A bug setup could have: it trusts what it asked for instead of what there is.
AsAsked(r) == {wanted[r]}

\* _has_lexical_vector: what the collection has, or FALSE if it could not be inspected.
Found(r) == {wanted[r] /\ collection = "lexical", FALSE}

Inspect(r) ==
  /\ At(r, "inspect")
  /\ \E found \in Found(r) :
       replica' = [replica EXCEPT ![r] = [stage |-> "payload indexes", lexical |-> found]]
  /\ UNCHANGED <<stores, op, points, registry, ingests, torn>>

\* Both create_payload_index calls, idempotent on the server.
IndexPayload(r) ==
  /\ At(r, "payload indexes")
  /\ Goes(r, "up")
  /\ UNCHANGED <<stores, op, points, registry, ingests, torn>>

(***************************************************************************)
(* Upload and parsing                                                      *)
(***************************************************************************)

\* detect_kind: the name's suffix or the content type.
Kind(suffix, ctype) ==
  IF suffix = "pdf" \/ ctype = "pdf" THEN "pdf"
  ELSE IF suffix = "text" \/ ctype = "text" THEN "text" ELSE "unsupported"

\* upload_document: one byte past the limit is read, then precheck.
Accepts(d, kind) ==
  /\ Data[d].bytes <= MAX_BYTES
  /\ kind \in {"pdf", "text"}
  /\ kind = "text" => ~Data[d].nul

\* parse_document: sections with text in them, or one of PERMANENT_ERRORS.
Parses(d, kind) ==
  /\ Accepts(d, kind)
  /\ kind = "pdf" => Data[d].pdf
  /\ Data[d].text

Upload(r, d) ==
  /\ At(r, "up") /\ op[r] = Idle /\ ingests < MAX_INGESTS
  /\ \E suffix, ctype \in {"pdf", "text", "other"} :
       /\ Accepts(d, Kind(suffix, ctype))
       /\ op' = [op EXCEPT ![r] = [doing |-> "parse", doc |-> d, kind |-> Kind(suffix, ctype)]]
  /\ UNCHANGED <<stores, replica, points, registry, ingests, torn>>

(***************************************************************************)
(* Ingestion                                                               *)
(***************************************************************************)

\* What a replica does between its first and last write of a document.
Writes(r, d) == op[r].doing \in {"delete old", "upsert", "register", "delete chunks", "unregister"}
                /\ op[r].doc = d
Torn(d, b) == torn' = [torn EXCEPT ![d] = b]

\* A writer comes to a document: it repairs it if it is the only one there and gets to its end.
Enter(r, d) == Torn(d, \E q \in Replicas \ {r} : Writes(q, d))

\* Parsed, chunked and embedded: from here the store changes.  A document of nothing but headings
\* has no chunks.
Parse(r) ==
  /\ op[r].doing = "parse"
  /\ LET d == op[r].doc IN
     IF Parses(d, op[r].kind)
       THEN /\ ingests < MAX_INGESTS
            /\ ingests' = ingests + 1
            /\ \E n \in 0..MAX_CHUNKS :
                 op' = [op EXCEPT ![r] = [doing |-> "delete old", doc |-> d, chunks |-> n,
                                          upserted |-> 0, by |-> ingests']]
            /\ Enter(r, d)
       ELSE /\ op' = [op EXCEPT ![r] = Idle]
            /\ UNCHANGED <<ingests, torn>>
  /\ UNCHANGED <<stores, replica, points, registry>>

\* A bug replace_document could have: the new points are trusted to overwrite the old ones.
DeleteNothing(r) ==
  /\ op[r].doing = "delete old"
  /\ op' = [op EXCEPT ![r].doing = "upsert"]
  /\ UNCHANGED <<stores, replica, points, registry, ingests, torn>>

DeleteOld(r) ==
  /\ op[r].doing = "delete old"
  /\ points' = [points EXCEPT ![op[r].doc] = <<>>]
  /\ op' = [op EXCEPT ![r].doing = "upsert"]
  /\ UNCHANGED <<stores, replica, registry, ingests, torn>>

\* One upsert of at most BATCH points; the ids are those of the chunks' places, so points of an
\* earlier ingestion are overwritten.
Upsert(r) ==
  /\ op[r].doing = "upsert" /\ op[r].upserted < op[r].chunks
  /\ LET o    == op[r]
         last == IF o.upserted + BATCH < o.chunks THEN o.upserted + BATCH ELSE o.chunks
         new  == o.upserted..(last - 1)
         old  == points[o.doc]
     IN /\ points' = [points EXCEPT ![o.doc] =
                        [i \in DOMAIN old \cup new |->
                           IF i \in new THEN [by |-> o.by, lexical |-> replica[r].lexical] ELSE old[i]]]
        /\ op' = [op EXCEPT ![r].upserted = last]
  /\ UNCHANGED <<stores, replica, registry, ingests, torn>>

EndUpserts(r) ==
  /\ op[r].doing = "upsert" /\ op[r].upserted = op[r].chunks
  /\ op' = [op EXCEPT ![r].doing = "register"]
  /\ UNCHANGED <<stores, replica, points, registry, ingests, torn>>

\* registry.put: record and index in one transaction.
Register(r) ==
  /\ op[r].doing = "register"
  /\ registry' = [registry EXCEPT ![op[r].doc] = [chunks |-> op[r].chunks, by |-> op[r].by]]
  /\ op' = [op EXCEPT ![r] = Idle]
  /\ UNCHANGED <<stores, replica, points, ingests, torn>>

(***************************************************************************)
(* Deletion                                                                *)
(***************************************************************************)

\* IngestionService.delete: a document without a record is not found, whatever chunks it has.
Delete(r, d) ==
  /\ At(r, "up") /\ op[r] = Idle
  /\ registry[d] # NoRecord
  /\ op' = [op EXCEPT ![r] = [doing |-> "delete chunks", doc |-> d]]
  /\ Enter(r, d)
  /\ UNCHANGED <<stores, replica, points, registry, ingests>>

DeleteChunks(r) ==
  /\ op[r].doing = "delete chunks"
  /\ points' = [points EXCEPT ![op[r].doc] = <<>>]
  /\ op' = [op EXCEPT ![r].doing = "unregister"]
  /\ UNCHANGED <<stores, replica, registry, ingests, torn>>

Unregister(r) ==
  /\ op[r].doing = "unregister"
  /\ registry' = [registry EXCEPT ![op[r].doc] = NoRecord]
  /\ op' = [op EXCEPT ![r] = Idle]
  /\ UNCHANGED <<stores, replica, points, ingests, torn>>

\* A call to the embedder, to Qdrant or to Redis raises: the job or the request fails there.
Fail(r) ==
  /\ op[r] # Idle
  /\ op' = [op EXCEPT ![r] = Idle]
  /\ torn' = [d \in Docs |-> torn[d] \/ Writes(r, d)]
  /\ UNCHANGED <<stores, replica, points, registry, ingests>>

\* The replica dies, or its start-up raises, and it starts again.
Restart(r) ==
  /\ replica[r].stage # "index"
  /\ op' = [op EXCEPT ![r] = Idle]
  /\ replica' = [replica EXCEPT ![r] = [stage |-> "index", lexical |-> FALSE]]
  /\ torn' = [d \in Docs |-> torn[d] \/ Writes(r, d)]
  /\ UNCHANGED <<stores, points, registry, ingests>>

DocNext == \E r \in Replicas :
  \/ LookForIndex(r) \/ CreateIndex(r) \/ LookForCollection(r) \/ CreateCollection(r)
  \/ Inspect(r) \/ IndexPayload(r)
  \/ \E d \in Docs : Upload(r, d) \/ Delete(r, d)
  \/ Parse(r) \/ DeleteOld(r) \/ Upsert(r) \/ EndUpserts(r) \/ Register(r)
  \/ DeleteChunks(r) \/ Unregister(r) \/ Fail(r) \/ Restart(r)
DocSpec == DocInit /\ [][DocNext]_docVars
-----------------------------------------------------------------------------
\* Types, and what the stores can hold: only a collection that exists serves, and only one with a
\* lexical vector is searched or written with one.
DocTypeOK ==
  /\ \A r \in Replicas :
       /\ replica[r].stage \in Stages
       /\ At(r, "up") => collection # "none" /\ (redisearch => index)
       /\ replica[r].lexical => collection = "lexical"
  /\ \A d \in Docs :
       /\ DOMAIN points[d] \subseteq 0..(MAX_CHUNKS - 1)
       /\ \A i \in DOMAIN points[d] : points[d][i].lexical => collection = "lexical"
       /\ registry[d].chunks \in -1..MAX_CHUNKS /\ registry[d].by \in 0..ingests

\* Whatever was torn before, a writer that was alone at a document and got to its end leaves it
\* whole: the record's chunks, all of them and all of one ingestion, or nothing at all
\* (IngestionService.ingest and delete, ingestion.py:82-118; replace_document, vector_store.py:141).
DocumentRepaired ==
  \A d \in Docs : ~torn[d] /\ (\A r \in Replicas : ~Writes(r, d)) =>
    /\ DOMAIN points[d] = 0..(registry[d].chunks - 1)
    /\ \A i \in DOMAIN points[d] : points[d][i].by = registry[d].by
=============================================================================
