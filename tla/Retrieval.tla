----------------------------- MODULE Retrieval ------------------------------
(***************************************************************************)
(* One question answered from a tenant's documents: Retriever.search of    *)
(* app/rag/retrieval.py, over the dense or fused search of the vector      *)
(* store, reranked or degraded, and RagService.answer on top of it.        *)
(***************************************************************************)
EXTENDS Integers, Sequences, FiniteSets

CONSTANTS
  Stored,        \* the tenant's chunks
  Relevance,     \* the scores a reranker gives
  CANDIDATES,    \* settings.rag_rerank_candidates
  PREFETCH_FLOOR \* rows each half offers the fusion at least

ASSUME RetrievalAssumption ==
  /\ IsFiniteSet(Stored) /\ Relevance \subseteq Int
  /\ CANDIDATES \in Nat \ {0} /\ PREFETCH_FLOOR \in Nat

VARIABLES
  query,   \* the request and how the service is set up
  phase,   \* where it is
  offered, \* what each half of the store offered
  candidates,   \* the candidates, in the store's order
  scored,  \* the reranker's scores, <<>> without one
  passages \* what search returns, in order

retrievalVars == <<query, phase, offered, candidates, scored, passages>>

Least(a, b) == IF a < b THEN a ELSE b
Prefix(s, n) == SubSeq(s, 1, Least(n, Len(s)))
Elements(s) == {s[i] : i \in DOMAIN s}

\* Rankings of stored chunks, without repetition, of at most n.
RankingsOf(S, n) ==
  {r \in UNION {[1..k -> S] : k \in 0..Least(n, Cardinality(S))} :
     \A i, j \in DOMAIN r : r[i] = r[j] => i = j}

RetrievalInit ==
  /\ query \in [top_k : 1..2, rerank : BOOLEAN, hybrid : BOOLEAN, sparse : BOOLEAN]
  /\ phase = "embed"
  /\ offered = [dense |-> <<>>, lexical |-> <<>>]
  /\ candidates = <<>> /\ scored = <<>> /\ passages = <<>>

\* embed_query: a vector, or OverloadedError from the embedder's gate.
EmbedQuery ==
  /\ phase = "embed"
  /\ phase' \in {"search", "failed"}
  /\ UNCHANGED <<query, offered, candidates, scored, passages>>

\* How many candidates the store is asked for.
Limit == IF query.rerank /\ CANDIDATES > query.top_k THEN CANDIDATES ELSE query.top_k
Depth == IF Limit > PREFETCH_FLOOR THEN Limit ELSE PREFETCH_FLOOR

\* QdrantChunkStore.search: the nearest chunks.
DenseSearch ==
  /\ phase = "search" /\ ~query.hybrid
  /\ \E r \in RankingsOf(Stored, Cardinality(Stored)) :
       /\ offered' = [offered EXCEPT !.dense = r]
       /\ candidates' = Prefix(r, Limit)
  /\ phase' = "found"
  /\ UNCHANGED <<query, scored, passages>>

\* hybrid_search: both halves prefetch Depth rows, the lexical one only if the query has terms,
\* and the server fuses what they offered.
HybridSearch ==
  /\ phase = "search" /\ query.hybrid
  /\ \E d, l \in RankingsOf(Stored, Cardinality(Stored)) :
       LET dense   == Prefix(d, Depth)
           lexical == IF query.sparse THEN Prefix(l, Depth) ELSE <<>>
           union   == Elements(dense) \cup Elements(lexical)
       IN /\ offered' = [dense |-> dense, lexical |-> lexical]
          /\ \E r \in RankingsOf(union, Limit) :
               /\ Len(r) = Least(Limit, Cardinality(union))
               /\ candidates' = r
  /\ phase' = "found"
  /\ UNCHANGED <<query, scored, passages>>

\* No reranker, none wanted or nothing to rerank; or the reranker's gate sheds the call.
StoreOrder ==
  /\ phase = "found"
  /\ passages' = Prefix(candidates, query.top_k)
  /\ phase' = "retrieved"
  /\ UNCHANGED <<query, offered, candidates, scored>>

\* A bug search could have: the order is the reranker's, upside down.
OutranksReversed(s, i, j) == s[i] < s[j] \/ (s[i] = s[j] /\ i < j)

\* sorted(..., reverse=True) is stable: equal scores keep the store's order.
Outranks(s, i, j) == s[i] > s[j] \/ (s[i] = s[j] /\ i < j)

\* One score a candidate, on the model's own scale.
RerankScores == [DOMAIN candidates -> Relevance]

Rerank ==
  /\ phase = "found" /\ query.rerank /\ candidates # <<>>
  /\ \E s \in RerankScores :
       LET rank == [i \in DOMAIN candidates |->
                      1 + Cardinality({j \in DOMAIN candidates : Outranks(s, j, i)})]
       IN /\ scored' = s
          /\ passages' = [n \in 1..Least(query.top_k, Len(candidates)) |->
                            candidates[CHOOSE i \in DOMAIN candidates : rank[i] = n]]
  /\ phase' = "retrieved"
  /\ UNCHANGED <<query, offered, candidates>>

\* The store or the reranker raises anything else: so does the request.
SearchRaises ==
  /\ phase = "search" \/ (phase = "found" /\ query.rerank /\ candidates # <<>>)
  /\ phase' = "failed"
  /\ UNCHANGED <<query, offered, candidates, scored, passages>>

\* RagService.answer: an empty result is answered without a model; otherwise the model is shown
\* the passages, numbered, and may fail.
Compose ==
  /\ phase = "retrieved"
  /\ phase' \in IF passages = <<>> THEN {"no_context"} ELSE {"answered", "failed"}
  /\ UNCHANGED <<query, offered, candidates, scored, passages>>

\* The search endpoint: the passages themselves, and from them whether they were reranked.
Report ==
  /\ phase = "retrieved"
  /\ phase' = IF \E i \in DOMAIN passages : i \in DOMAIN scored THEN "reranked" ELSE "plain"
  /\ UNCHANGED <<query, offered, candidates, scored, passages>>

RetrievalNext ==
  \/ EmbedQuery \/ DenseSearch \/ HybridSearch \/ StoreOrder \/ Rerank
  \/ SearchRaises \/ Compose \/ Report
RetrievalSpec == RetrievalInit /\ [][RetrievalNext]_retrievalVars
-----------------------------------------------------------------------------
RetrievalTypeOK ==
  /\ phase \in {"embed", "search", "found", "retrieved", "answered", "no_context",
               "reranked", "plain", "failed"}
  /\ candidates \in Seq(Stored) /\ Len(candidates) <= Limit
  /\ passages \in Seq(Stored) /\ Len(passages) <= query.top_k
  /\ scored \in Seq(Relevance)

Position(c) == CHOOSE i \in DOMAIN candidates : candidates[i] = c
Retrieved == phase \in {"retrieved", "answered", "no_context", "reranked", "plain"}

\* Reranked passages are the best of all the candidates, ties
\* in the store's order; degraded, they are the store's own first ones; and no passage that both
\* top_k and the store allow is missing (Retriever.search, retrieval.py:59-82).
BestAreReturned ==
  Retrieved =>
    LET kept == Elements(passages) IN
    /\ phase = "plain" => passages = Prefix(candidates, query.top_k)
    /\ Cardinality(kept) = Len(passages)
    /\ Len(passages) = Least(query.top_k,
                             Cardinality(Elements(offered.dense) \cup Elements(offered.lexical)))
    /\ IF scored = <<>>
         THEN passages = Prefix(candidates, query.top_k)
         ELSE /\ \A c \in kept, o \in Elements(candidates) \ kept :
                   scored[Position(c)] >= scored[Position(o)]
              /\ \A m, n \in DOMAIN passages : m < n =>
                   \/ scored[Position(passages[m])] > scored[Position(passages[n])]
                   \/ /\ scored[Position(passages[m])] = scored[Position(passages[n])]
                      /\ Position(passages[m]) < Position(passages[n])
              \* what a half ranked first is seen by the reranker whenever one candidate is
              \* enough for it
              /\ Limit >= Cardinality(Elements(offered.dense) \cup Elements(offered.lexical))
                   => Elements(candidates) = Elements(offered.dense) \cup Elements(offered.lexical)
=============================================================================
