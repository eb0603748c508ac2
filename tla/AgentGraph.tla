----------------------------- MODULE AgentGraph -----------------------------
(***************************************************************************)
(* One run of the research agent: Graph.run of app/agents/graph.py over    *)
(* the five nodes of app/agents/nodes.py, started and reported by          *)
(* ResearchAgent.research of app/agents/service.py.  A run shares nothing  *)
(* with other runs; what makes it hard is its own loop, the calls that     *)
(* fail in the middle of it and the budgets that end it.                   *)
(*                                                                         *)
(* A text is the number of the LLM call that wrote it: 0 is "", NoContext  *)
(* the fixed answer of a run that found nothing.                           *)
(***************************************************************************)
EXTENDS Integers, Sequences, FiniteSets

CONSTANTS
  Passages,      \* the chunks a search can return
  Scores,        \* what _score makes of a hit
  StepBudgets,   \* values of settings.agent_max_steps
  MAX_REVISIONS, \* the largest max_revisions a request may ask for
  MAX_SEARCHES,  \* the largest max_searches
  MAX_TOP_K      \* the largest top_k

ASSUME AgentAssumption ==
  /\ IsFiniteSet(Passages) /\ Scores \subseteq Int
  /\ StepBudgets \subseteq Nat \ {0}
  /\ MAX_REVISIONS \in Nat
  /\ MAX_SEARCHES \in Nat \ {0} /\ MAX_TOP_K \in Nat \ {0}

VARIABLES
  run,       \* the request, the step budget and what is settled of the run
  node,      \* the node about to run, or END
  path,      \* the steps collected so far
  outcome,   \* how research ended
  best,      \* retrieve's merge: the best score of each passage found
  asked,     \* how many of the planned searches retrieve has made
  hits,      \* every hit of those searches, whatever the merge made of it, until the draft
  billed,    \* what the run's LLM calls cost its key, those that raised included
  failures   \* how many calls raised and were survived

agentVars == <<run, node, path, outcome, best, asked, hits, billed, failures>>

END == "end"
Edges == [plan     |-> {"retrieve"},
          retrieve |-> {"draft", END},
          draft    |-> {"critique"},
          critique |-> {"revise", END},
          revise   |-> {"critique"}]
NoContext == -1

\* ResearchState: its budgets, and the fields the nodes write.
Runs == [max_steps : StepBudgets, max_revisions : 0..MAX_REVISIONS,
         max_searches : 1..MAX_SEARCHES, top_k : 1..MAX_TOP_K,
         searches : 0..MAX_SEARCHES, passages : SUBSET Passages,
         draft : Int, reviewed : Int, review : {"none", "approved", "issues", "unusable", "failed"},
         revisions : Nat, llm_calls : Nat, cost : Nat]

AgentInit ==
  /\ run \in [max_steps : StepBudgets, max_revisions : 0..MAX_REVISIONS,
              max_searches : 1..MAX_SEARCHES, top_k : 1..MAX_TOP_K,
              searches : {0}, passages : {{}}, draft : {0}, reviewed : {0}, review : {"none"},
              revisions : {0}, llm_calls : {0}, cost : {0}]
  /\ node = "plan" /\ path = <<>> /\ outcome = "running"
  /\ best = <<>> /\ asked = 0 /\ hits = {}
  /\ billed = 0 /\ failures = 0

\* Graph.run enters a node only while the budget lasts.
Enters(n) == outcome = "running" /\ node = n /\ Len(path) < run.max_steps

\* The node has decided: the edge is checked, the step reported, and at END the run is over.
Move(n) ==
  /\ n \in Edges[node]
  /\ path' = Append(path, node)
  /\ node' = n
  /\ outcome' = IF n # END THEN "running"
                ELSE IF run'.passages # {} THEN "answered" ELSE "no_context"

OutOfSteps ==
  /\ outcome = "running" /\ Len(path) >= run.max_steps
  /\ outcome' = "budget_exceeded"
  /\ UNCHANGED <<run, node, path, best, asked, hits, billed, failures>>

\* _ask answered: the run's totals and the key's bill go up by the same amount, nothing for a
\* cache hit.
Asked(r) ==
  \E c \in {0, 1} :
    /\ run' = [r EXCEPT !.llm_calls = @ + 1, !.cost = @ + c]
    /\ billed' = billed + c
    /\ UNCHANGED failures
NewText == run.llm_calls + 1

\* _ask raised something that is not FATAL, before or after the call was billed, and the node
\* goes on without a reply.
Survived(r) ==
  /\ run' = r
  /\ \E c \in {0, 1} : billed' = billed + c
  /\ failures' = failures + 1

\* An error no node catches, of a search or of an LLM call: research raises, nothing is reported.
Raise ==
  /\ Enters(node)
  /\ node = "critique" => run.revisions < run.max_revisions
  /\ node = "retrieve" => asked < run.searches
  /\ outcome' = "raised"
  /\ \E c \in {0, 1} : billed' = IF node = "retrieve" THEN billed ELSE billed + c
  /\ UNCHANGED <<run, node, path, best, asked, hits, failures>>

\* The distinct queries of the reply, at most max_searches; the question itself if there are none.
Queries(n) == IF n = 0 THEN 1 ELSE IF n > run.max_searches THEN run.max_searches ELSE n
Plan ==
  /\ Enters("plan")
  /\ \/ \E n \in 0..(MAX_SEARCHES + 1) : Asked([run EXCEPT !.searches = Queries(n)])
     \/ Survived([run EXCEPT !.searches = Queries(0)])
  /\ Move("retrieve")
  /\ UNCHANGED <<best, asked, hits>>

\* The merge of one search's hits: the better score of a passage that was found before.
Merged(found) ==
  [p \in DOMAIN best \cup DOMAIN found |->
     IF p \in DOMAIN best /\ (p \in DOMAIN found => found[p] <= best[p]) THEN best[p] ELSE found[p]]

\* One search of the plan, awaited before the next: at most top_k hits.
Search ==
  /\ Enters("retrieve") /\ asked < run.searches
  /\ \E P \in SUBSET Passages :
       /\ Cardinality(P) <= run.top_k
       /\ \E found \in [P -> Scores] :
            /\ best' = Merged(found)
            /\ hits' = hits \cup {<<p, found[p]>> : p \in P}
  /\ asked' = asked + 1
  /\ UNCHANGED <<run, node, path, outcome, billed, failures>>

\* sorted(..., reverse=True)[:top_k], whichever way ties fall.
TopOf(P) ==
  /\ P \subseteq DOMAIN best
  /\ Cardinality(P) = run.top_k \/ (P = DOMAIN best /\ Cardinality(P) <= run.top_k)
  /\ \A p \in P, q \in DOMAIN best \ P : best[p] >= best[q]

Retrieve ==
  /\ Enters("retrieve") /\ asked = run.searches
  /\ \E P \in SUBSET Passages :
       /\ TopOf(P)
       /\ run' = [run EXCEPT !.passages = P, !.draft = IF P = {} THEN NoContext ELSE @]
       /\ Move(IF P = {} THEN END ELSE "draft")
  /\ best' = <<>>
  /\ UNCHANGED <<asked, hits, billed, failures>>

\* The reply is the draft, a blank one too.
Draft ==
  /\ Enters("draft")
  /\ \E t \in {0, NewText} : Asked([run EXCEPT !.draft = t])
  /\ Move("critique")
  /\ hits' = {}
  /\ UNCHANGED <<best, asked>>

\* A bug the node could have: the last revision allowed is never asked for.
SkipCritiqueEarly ==
  /\ Enters("critique") /\ run.revisions + 1 >= run.max_revisions
  /\ UNCHANGED <<run, best, asked, hits, billed, failures>>
  /\ Move(END)

SkipCritique ==
  /\ Enters("critique") /\ run.revisions >= run.max_revisions
  /\ UNCHANGED <<run, best, asked, hits, billed, failures>>
  /\ Move(END)

\* What a reply of the reviewer amounts to: a clear OK or nothing at all, no line to act on, issues.
Verdicts == {"approved", "unusable", "issues"}

Critique ==
  /\ Enters("critique") /\ run.revisions < run.max_revisions
  /\ \/ \E v \in Verdicts :
          /\ Asked([run EXCEPT !.reviewed = run.draft, !.review = v])
          /\ Move(IF v = "issues" THEN "revise" ELSE END)
     \/ Survived([run EXCEPT !.review = "failed"]) /\ Move(END)
  /\ UNCHANGED <<best, asked, hits>>

\* A bug the loop could have: a reply that was discarded costs no revision.
ReviseFreely ==
  /\ Enters("revise")
  /\ \/ Asked([run EXCEPT !.revisions = @ + 1, !.draft = NewText])
     \/ Asked(run)
  /\ Move("critique")
  /\ UNCHANGED <<best, asked, hits>>

\* A rewritten answer; or a reviewer's word, which is none, and the draft stands.
Rewrites == {run.draft, NewText}

\* Either uses up a revision.
Revise ==
  /\ Enters("revise")
  /\ \E t \in Rewrites : Asked([run EXCEPT !.revisions = @ + 1, !.draft = t])
  /\ Move("critique")
  /\ UNCHANGED <<best, asked, hits>>

AgentNext ==
  \/ Plan \/ Search \/ Retrieve \/ Draft \/ SkipCritique \/ Critique \/ Revise
  \/ Raise \/ OutOfSteps

AgentSpec == AgentInit /\ [][AgentNext]_agentVars
-----------------------------------------------------------------------------
\* The response, and what the metrics say of it.
Answered == outcome \in {"answered", "no_context", "budget_exceeded"}

\* Types, and the edges the path followed.
AgentTypeOK ==
  /\ run \in Runs
  /\ node \in DOMAIN Edges \cup {END}
  /\ path \in Seq(DOMAIN Edges) /\ Len(path) <= run.max_steps
  /\ outcome \in {"running", "answered", "no_context", "budget_exceeded", "raised"}
  /\ DOMAIN best \subseteq Passages
  /\ asked \in 0..run.searches
  /\ billed \in Nat /\ failures \in Nat

\* An answer that was not stopped by the step budget is a text the reviewer saw, or the last one
\* the revision budget allowed, or the reviewer failed on the way: no other text goes out
\* unreviewed (AgentNodes.critique and revise, nodes.py:144-191).
AnswerReviewed ==
  outcome = "answered" =>
    \/ run.review \in {"approved", "unusable"} /\ run.reviewed = run.draft
    \/ run.review = "failed"
    \/ run.revisions = run.max_revisions

\* Whatever the searches found in whatever order, no passage left out has a better hit than one
\* that was kept, and none is left out while top_k has room (AgentNodes.retrieve, nodes.py:123-131).
BestPassagesKept ==
  node = "draft" \/ outcome = "no_context" =>
    LET found == {h[1] : h \in hits} IN
    /\ \A h \in hits : h[1] \notin run.passages =>
         \A p \in run.passages : \E g \in hits : g[1] = p /\ g[2] >= h[2]
    /\ run.passages = found \/ Cardinality(run.passages) = run.top_k

\* 4 + 2 * max_revisions steps are always enough, so the step budget never cuts a run that its
\* revision budget would have ended and the defaults (12 steps, at most 3 revisions) leave room; and
\* a run makes no more calls than those steps, and reports their cost short of at most one call for
\* each that failed after it was billed (Graph.run, graph.py:80; AgentNodes._ask and critique,
\* nodes.py:78-83, :147).
ResearchBounded ==
  /\ outcome = "budget_exceeded" => run.max_steps < 4 + 2 * run.max_revisions
  /\ run.llm_calls + failures <= 2 + 2 * run.max_revisions
  /\ Answered => run.cost <= billed /\ billed <= run.cost + failures
=============================================================================
