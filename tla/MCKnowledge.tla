---------------------------- MODULE MCKnowledge ----------------------------
(* What the gateway knows: its response cache, a tenant's documents and    *)
(* what is made of them.  The five components share no state with one      *)
(* another: the first state says which of them moves.                      *)
EXTENDS SemanticCache, Documents, Chunking, Retrieval, AgentGraph, TLC

CONSTANTS n1, n2, t1, c1, c2, d1, r1, r2, p1, p2, p3

OneTenant == n1 :> t1 @@ n2 :> t1

\* A text of the largest size, which is no PDF, whatever its name says.
OneText == d1 :> [bytes |-> 2, nul |-> FALSE, pdf |-> FALSE, text |-> TRUE]

\* Headings of two levels, list items shorter and longer than a chunk, sentences whole and broken.
LineKinds == {[kind |-> "blank", words |-> 0, ends |-> TRUE, level |-> 0],
              [kind |-> "heading", words |-> 1, ends |-> TRUE, level |-> 1],
              [kind |-> "heading", words |-> 1, ends |-> TRUE, level |-> 2],
              [kind |-> "item", words |-> 1, ends |-> TRUE, level |-> 0],
              [kind |-> "item", words |-> 4, ends |-> TRUE, level |-> 0],
              [kind |-> "text", words |-> 1, ends |-> TRUE, level |-> 0],
              [kind |-> "text", words |-> 2, ends |-> FALSE, level |-> 0]}

AllSame == Permutations({c1, c2}) \cup Permutations({n1, n2}) \cup Permutations({r1, r2})

VARIABLE part

KnowledgeInit ==
  /\ part \in {"cache", "documents", "chunking", "retrieval", "agent"}
  /\ CacheInit /\ (part # "cache" => indexed)
  /\ DocInit /\ (part # "documents" => redisearch /\ wanted = [r \in Replicas |-> TRUE])
  /\ ChunkInit /\ (part # "chunking" => left = <<>> /\ strategy = "fixed")
  /\ RetrievalInit /\ (part # "retrieval" =>
       query = [top_k |-> 1, rerank |-> TRUE, hybrid |-> TRUE, sparse |-> TRUE])
  /\ AgentInit /\ (part # "agent" =>
       run.max_steps = 12 /\ run.max_revisions = 0 /\ run.max_searches = 1 /\ run.top_k = 1)

KnowledgeNext ==
  /\ part' = part
  /\ \/ part = "cache" /\ CacheNext
        /\ UNCHANGED <<docVars, chunkVars, retrievalVars, agentVars>>
     \/ part = "documents" /\ DocNext
        /\ UNCHANGED <<cacheVars, chunkVars, retrievalVars, agentVars>>
     \/ part = "chunking" /\ ChunkNext
        /\ UNCHANGED <<cacheVars, docVars, retrievalVars, agentVars>>
     \/ part = "retrieval" /\ RetrievalNext
        /\ UNCHANGED <<cacheVars, docVars, chunkVars, agentVars>>
     \/ part = "agent" /\ AgentNext
        /\ UNCHANGED <<cacheVars, docVars, chunkVars, retrievalVars>>

\* Types, and the accounts of the stores and of each run, as each module says.
KnowledgeTypes == CacheTypeOK /\ DocTypeOK /\ ChunkTypeOK /\ RetrievalTypeOK /\ AgentTypeOK

\* Wherever the best few of what was found are kept, nothing better is left out: by the retriever
\* and by the agent's merge of several searches (retrieval.py:59-82, nodes.py:123-131).
BestKept == BestAreReturned /\ BestPassagesKept

\* Chunks repeat, lose and mix nothing: words, overlaps, sizes and sections (chunking.py:47-176).
ChunksFaithful == ChunksCover /\ OneSectionPerChunk
=============================================================================
