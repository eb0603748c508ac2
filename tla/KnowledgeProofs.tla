--------------------------- MODULE KnowledgeProofs --------------------------
(***************************************************************************)
(* Proofs about what answers with what is stored: a run of the research    *)
(* agent, for any passages, scores and budgets (its type, what it costs,   *)
(* what it lets out unreviewed, what its searches' merge keeps); the       *)
(* response cache, for any tenants, namespaces, callers, cap and TTL (its  *)
(* purges and its cap); the document stores and the repair of a document,  *)
(* for any replicas, documents, chunks and batches; what a search returns, *)
(* for any points, limits and scores; the chunks of a text, for any lines, *)
(* chunk size and overlap; and all of them side by side.                   *)
(***************************************************************************)
EXTENDS MCKnowledge, FiniteSetTheorems, SequenceTheorems, TLAPS

(***************************************************************************)
(* Where a run is tells how many steps it has taken and how many calls it  *)
(* has made: two of each for a round of the revision loop.                 *)
(***************************************************************************)

Calls == run.llm_calls + failures

Pace ==
  /\ outcome = "running" => node # END
  /\ run.revisions <= run.max_revisions
  /\ Calls <= 2 + 2 * run.max_revisions
  /\ outcome = "running" =>
       CASE node = "plan"     -> Len(path) = 0 /\ Calls = 0
         [] node = "retrieve" -> Len(path) = 1 /\ Calls = 1
         [] node = "draft"    -> Len(path) = 2 /\ Calls = 1 /\ run.revisions = 0
         [] node = "critique" -> Len(path) = 3 + 2 * run.revisions
                                 /\ Calls = 2 + 2 * run.revisions
         [] node = "revise"   -> Len(path) = 4 + 2 * run.revisions
                                 /\ Calls = 3 + 2 * run.revisions
                                 /\ run.revisions < run.max_revisions
  /\ outcome = "budget_exceeded" => run.max_steps < 4 + 2 * run.max_revisions

Bill == outcome # "raised" => run.cost <= billed /\ billed <= run.cost + failures

Types ==
  /\ run \in Runs
  /\ node \in {"plan", "retrieve", "draft", "critique", "revise", END}
  /\ path \in Seq({"plan", "retrieve", "draft", "critique", "revise"})
  /\ Len(path) <= run.max_steps
  /\ outcome \in {"running", "answered", "no_context", "budget_exceeded", "raised"}
  /\ DOMAIN best \subseteq Passages
  /\ asked \in 0..run.searches
  /\ billed \in Nat /\ failures \in Nat

\* The induction: a run at plan has searched nothing, and a run that has drafted has passages.
AgentInv ==
  /\ Types /\ Pace /\ Bill /\ AnswerReviewed
  /\ node = "plan" => run.searches = 0 /\ run.revisions = 0
  /\ node = "retrieve" => run.revisions = 0

LEMMA EdgeNodes == DOMAIN Edges = {"plan", "retrieve", "draft", "critique", "revise"}
BY DEF Edges

LEMMA AgentInitially == AgentInit => AgentInv
<1> SUFFICES ASSUME AgentInit PROVE AgentInv
  OBVIOUS
<1> DEFINE First == [max_steps : StepBudgets, max_revisions : 0..MAX_REVISIONS,
                      max_searches : 1..MAX_SEARCHES, top_k : 1..MAX_TOP_K,
                      searches : {0}, passages : {{}}, draft : {0}, reviewed : {0},
                      review : {"none"}, revisions : {0}, llm_calls : {0}, cost : {0}]
<1>a. run \in First
  BY Zenon DEF AgentInit
<1>b. /\ run.searches = 0 /\ run.revisions = 0 /\ run.llm_calls = 0 /\ run.cost = 0
      /\ run.max_revisions \in 0..MAX_REVISIONS /\ run.max_steps \in StepBudgets
  BY <1>a
<1>1. /\ run.searches = 0 /\ run.revisions = 0 /\ run.llm_calls = 0 /\ run.cost = 0
      /\ run.max_revisions \in Nat /\ run.max_steps \in Nat
  <2>1. StepBudgets \subseteq Nat
    BY Zenon, AgentAssumption
  <2>2. \A n \in 0..MAX_REVISIONS : n \in Nat
    OBVIOUS
  <2> QED
    BY Zenon, <1>b, <2>1, <2>2
<1>2. run \in Runs
  BY <1>a, AgentAssumption DEF Runs
<1> HIDE DEF First
<1>3. /\ node = "plan" /\ path = <<>> /\ outcome = "running" /\ best = <<>> /\ asked = 0
      /\ billed = 0 /\ failures = 0
  BY DEF AgentInit
<1>4. Types
  BY <1>1, <1>2, <1>3 DEF Types
<1>5. Pace
  BY <1>1, <1>3 DEF Pace, Calls, END
<1> QED
  BY <1>1, <1>3, <1>4, <1>5 DEF AgentInv, Bill, AnswerReviewed

\* What every step of a node needs of the state before it.
LEMMA RunFields ==
  ASSUME AgentInv
  PROVE  /\ run.max_steps \in Nat /\ run.max_revisions \in Nat /\ run.max_searches \in 1..MAX_SEARCHES
         /\ run.searches \in 0..MAX_SEARCHES /\ run.revisions \in Nat /\ run.llm_calls \in Nat
         /\ run.cost \in Nat /\ run.draft \in Int /\ run.reviewed \in Int
         /\ run.passages \subseteq Passages /\ Len(path) \in Nat
         /\ asked \in Nat /\ billed \in Nat /\ failures \in Nat
<1>1. run \in Runs
  BY Zenon DEF AgentInv, Types
<1>2. /\ run.max_steps \in StepBudgets /\ run.max_revisions \in 0..MAX_REVISIONS
      /\ run.max_searches \in 1..MAX_SEARCHES
      /\ run.searches \in 0..MAX_SEARCHES /\ run.revisions \in Nat /\ run.llm_calls \in Nat
      /\ run.cost \in Nat /\ run.draft \in Int /\ run.reviewed \in Int
      /\ run.passages \in SUBSET Passages
  BY <1>1 DEF Runs
<1>3. run.max_steps \in Nat /\ run.max_revisions \in Nat
  <2>1. StepBudgets \subseteq Nat
    BY Zenon, AgentAssumption
  <2>2. \A n \in 0..MAX_REVISIONS : n \in Nat
    OBVIOUS
  <2> QED
    BY Zenon, <1>2, <2>1, <2>2
<1>4. asked \in 0..run.searches /\ billed \in Nat /\ failures \in Nat
      /\ path \in Seq({"plan", "retrieve", "draft", "critique", "revise"})
  BY DEF AgentInv, Types
<1>5. asked \in Nat /\ Len(path) \in Nat
  BY <1>2, <1>4
<1> QED
  BY <1>2, <1>3, <1>4, <1>5

\* A node moves on: the path grows by it, within the step budget.
LEMMA MoveKeepsTypes ==
  ASSUME AgentInv, NEW n, Enters(node), Move(n), run' \in Runs,
         run'.max_steps = run.max_steps
  PROVE  /\ node' = n /\ Len(path') = Len(path) + 1 /\ Len(path') <= run'.max_steps
         /\ node' \in {"plan", "retrieve", "draft", "critique", "revise", END}
         /\ path' \in Seq({"plan", "retrieve", "draft", "critique", "revise"})
         /\ outcome' = IF n # END THEN "running"
                       ELSE IF run'.passages # {} THEN "answered" ELSE "no_context"
<1>1. node \in {"plan", "retrieve", "draft", "critique", "revise"}
  BY DEF AgentInv, Types, Pace, Enters
<1>2. /\ n \in Edges[node] /\ path' = Append(path, node) /\ node' = n
      /\ outcome' = IF n # END THEN "running"
                    ELSE IF run'.passages # {} THEN "answered" ELSE "no_context"
  BY DEF Move
<1>3. n \in {"plan", "retrieve", "draft", "critique", "revise", END}
  BY <1>1, <1>2 DEF Edges
<1>4. path \in Seq({"plan", "retrieve", "draft", "critique", "revise"})
  BY DEF AgentInv, Types
<1>5. path' \in Seq({"plan", "retrieve", "draft", "critique", "revise"})
      /\ Len(path') = Len(path) + 1
  BY <1>1, <1>2, <1>4
<1>6. Len(path) + 1 <= run.max_steps
  BY RunFields DEF Enters
<1> QED
  BY <1>2, <1>3, <1>5, <1>6

\* A call that answered: what it adds to the totals, and what it leaves alone.
LEMMA AskedFields ==
  ASSUME NEW r \in Runs, Asked(r), billed \in Nat, failures \in Nat
  PROVE  /\ run' \in Runs /\ failures' = failures /\ billed' \in Nat
         /\ run'.llm_calls = r.llm_calls + 1
         /\ \E c \in {0, 1} : run'.cost = r.cost + c /\ billed' = billed + c
         /\ run'.max_steps = r.max_steps /\ run'.max_revisions = r.max_revisions
         /\ run'.searches = r.searches /\ run'.passages = r.passages /\ run'.draft = r.draft
         /\ run'.reviewed = r.reviewed /\ run'.review = r.review
         /\ run'.revisions = r.revisions
<1>1. PICK c \in {0, 1} : /\ run' = [r EXCEPT !.llm_calls = @ + 1, !.cost = @ + c]
                           /\ billed' = billed + c /\ failures' = failures
  BY DEF Asked
<1>2. r.llm_calls \in Nat /\ r.cost \in Nat
  BY DEF Runs
<1>3. r.llm_calls + 1 \in Nat /\ r.cost + c \in Nat
  BY <1>2
<1>4. run' \in Runs
  BY <1>1, <1>3 DEF Runs
<1>5. /\ run'.llm_calls = r.llm_calls + 1 /\ run'.cost = r.cost + c
      /\ run'.max_steps = r.max_steps /\ run'.max_revisions = r.max_revisions
      /\ run'.searches = r.searches /\ run'.passages = r.passages /\ run'.draft = r.draft
      /\ run'.reviewed = r.reviewed /\ run'.review = r.review
      /\ run'.revisions = r.revisions
  BY <1>1 DEF Runs
<1> QED
  BY <1>1, <1>2, <1>3, <1>4, <1>5

\* A call that raised and was survived may have been billed, and is counted.
LEMMA SurvivedFields ==
  ASSUME NEW r \in Runs, Survived(r), billed \in Nat, failures \in Nat
  PROVE  /\ run' = r /\ run' \in Runs /\ failures' = failures + 1 /\ billed' \in Nat
         /\ billed <= billed' /\ billed' <= billed + 1
BY DEF Survived

\* One call more, answered or survived: it is counted once, and the bill covers the report.
LEMMA CallCounts ==
  ASSUME AgentInv, outcome = "running", NEW r \in Runs, Asked(r) \/ Survived(r),
         r.llm_calls = run.llm_calls, r.cost = run.cost
  PROVE  /\ run' \in Runs /\ failures' \in Nat /\ billed' \in Nat
         /\ run'.llm_calls + failures' = Calls + 1
         /\ run'.cost <= billed' /\ billed' <= run'.cost + failures'
         /\ run'.max_steps = r.max_steps /\ run'.max_revisions = r.max_revisions
         /\ run'.searches = r.searches /\ run'.passages = r.passages /\ run'.draft = r.draft
         /\ run'.reviewed = r.reviewed /\ run'.review = r.review
         /\ run'.revisions = r.revisions
<1>1. /\ run.cost \in Nat /\ run.llm_calls \in Nat /\ billed \in Nat /\ failures \in Nat
      /\ run.cost <= billed /\ billed <= run.cost + failures
  BY RunFields DEF AgentInv, Bill
<1>2. CASE Asked(r)
  <2>1. PICK c \in {0, 1} : run'.cost = r.cost + c /\ billed' = billed + c
    BY <1>1, <1>2, AskedFields
  <2> QED
    BY <1>1, <1>2, <2>1, AskedFields DEF Calls
<1>3. CASE Survived(r)
  BY <1>1, <1>3, SurvivedFields DEF Calls
<1> QED
  BY <1>2, <1>3

\* The parts of the invariant put together again.
LEMMA Assembled ==
  ASSUME Types', Pace', Bill', AnswerReviewed',
         node' = "plan" => run'.searches = 0 /\ run'.revisions = 0,
         node' = "retrieve" => run'.revisions = 0
  PROVE  AgentInv'
BY DEF AgentInv

LEMMA PlanKeeps ==
  ASSUME AgentInv, Plan
  PROVE  AgentInv'
<1>1. /\ Enters("plan") /\ Move("retrieve") /\ asked' = asked /\ best' = best
  BY DEF Plan
<1>2. /\ node = "plan" /\ outcome = "running" /\ run \in Runs /\ asked = 0
      /\ Len(path) = 0 /\ Calls = 0 /\ run.revisions = 0
      /\ billed \in Nat /\ failures \in Nat /\ DOMAIN best \subseteq Passages
      /\ run.cost <= billed /\ billed <= run.cost + failures
  BY <1>1, RunFields DEF AgentInv, Types, Pace, Bill, Enters
<1>3. PICK n \in 0..MAX_SEARCHES :
        LET r == [run EXCEPT !.searches = n] IN Asked(r) \/ Survived(r)
  <2>1. \A n \in Nat : Queries(n) \in 0..MAX_SEARCHES
    BY RunFields, AgentAssumption DEF Queries
  <2>2. \A n \in 0..(MAX_SEARCHES + 1) : n \in Nat
    OBVIOUS
  <2> QED
    BY <2>1, <2>2 DEF Plan
<1> DEFINE r == [run EXCEPT !.searches = n]
<1>4. /\ r \in Runs /\ r.max_steps = run.max_steps /\ r.max_revisions = run.max_revisions
      /\ r.llm_calls = run.llm_calls /\ r.cost = run.cost /\ r.revisions = run.revisions
      /\ r.searches = n
  BY <1>2 DEF Runs
<1> HIDE DEF r
<1>5. /\ run' \in Runs /\ failures' \in Nat /\ billed' \in Nat
      /\ run'.max_steps = run.max_steps /\ run'.max_revisions = run.max_revisions
      /\ run'.revisions = run.revisions /\ run'.searches = n
      /\ run'.llm_calls + failures' = Calls + 1
      /\ run'.cost <= billed' /\ billed' <= run'.cost + failures'
  BY <1>2, <1>3, <1>4, CallCounts DEF r
<1>6. /\ node' = "retrieve" /\ Len(path') = 1 /\ Len(path') <= run'.max_steps
      /\ path' \in Seq({"plan", "retrieve", "draft", "critique", "revise"})
      /\ outcome' = "running"
  BY <1>1, <1>2, <1>5, MoveKeepsTypes DEF END
<1>7. Types'
  BY <1>1, <1>2, <1>3, <1>5, <1>6 DEF Types
<1>8. Pace'
  BY <1>2, <1>5, <1>6, RunFields DEF Pace, Calls, END
<1>9. Bill' /\ AnswerReviewed'
  BY <1>5, <1>6 DEF Bill, AnswerReviewed
<1> QED
  BY <1>2, <1>5, <1>6, <1>7, <1>8, <1>9, Assembled

LEMMA SearchKeeps ==
  ASSUME AgentInv, Search
  PROVE  AgentInv'
<1>1. /\ node = "retrieve" /\ outcome = "running" /\ asked < run.searches /\ asked' = asked + 1
      /\ UNCHANGED <<run, node, path, outcome, billed, failures>>
  BY DEF Search, Enters
<1>2. PICK P \in SUBSET Passages : \E found \in [P -> Scores] : best' = Merged(found)
  BY DEF Search
<1>3. DOMAIN best' \subseteq Passages
  <2>1. PICK found \in [P -> Scores] : best' = Merged(found)
    BY <1>2
  <2>2. DOMAIN best \subseteq Passages
    BY DEF AgentInv, Types
  <2> QED
    BY <2>1, <2>2 DEF Merged
<1>4. asked' \in 0..run'.searches
  BY <1>1, RunFields
<1>5. Types'
  BY <1>1, <1>3, <1>4 DEF AgentInv, Types
<1>6. Pace' /\ Bill' /\ AnswerReviewed'
  BY <1>1 DEF AgentInv, Pace, Bill, Calls, AnswerReviewed
<1> QED
  BY <1>1, <1>5, <1>6, Assembled DEF AgentInv

LEMMA RetrieveKeeps ==
  ASSUME AgentInv, Retrieve
  PROVE  AgentInv'
<1>1. /\ node = "retrieve" /\ outcome = "running" /\ Enters(node) /\ run \in Runs
      /\ Len(path) = 1 /\ Calls = 1 /\ run.revisions = 0
      /\ DOMAIN best \subseteq Passages /\ asked \in 0..run.searches
      /\ run.cost <= billed /\ billed <= run.cost + failures
  BY DEF AgentInv, Types, Pace, Bill, Retrieve, Enters
<1>2. PICK P \in SUBSET Passages :
        /\ run' = [run EXCEPT !.passages = P, !.draft = IF P = {} THEN NoContext ELSE @]
        /\ Move(IF P = {} THEN END ELSE "draft")
  BY Zenon DEF Retrieve
<1>3. /\ best' = <<>> /\ UNCHANGED <<asked, billed, failures>>
  BY DEF Retrieve
<1> DEFINE d == IF P = {} THEN NoContext ELSE run.draft
<1>a. d \in Int /\ run' = [run EXCEPT !.passages = P, !.draft = d]
  BY <1>2, RunFields DEF NoContext
<1> HIDE DEF d
<1>4. /\ run' \in Runs /\ run'.max_steps = run.max_steps /\ run'.passages = P
      /\ run'.max_revisions = run.max_revisions /\ run'.revisions = run.revisions
      /\ run'.searches = run.searches /\ run'.llm_calls = run.llm_calls /\ run'.cost = run.cost
  BY <1>1, <1>a DEF Runs
<1> DEFINE n == IF P = {} THEN END ELSE "draft"
<1>b. Move(n)
  BY <1>2
<1>c. (n # END) <=> (P # {})
  BY DEF END
<1> HIDE DEF n
<1>d. /\ node' = n /\ Len(path') = Len(path) + 1 /\ Len(path') <= run'.max_steps
      /\ node' \in {"plan", "retrieve", "draft", "critique", "revise", END}
      /\ path' \in Seq({"plan", "retrieve", "draft", "critique", "revise"})
      /\ outcome' = IF n # END THEN "running"
                    ELSE IF run'.passages # {} THEN "answered" ELSE "no_context"
  BY <1>1, <1>4, <1>b, MoveKeepsTypes
<1>5. /\ node' = (IF P = {} THEN END ELSE "draft")
      /\ Len(path') = 2 /\ Len(path') <= run'.max_steps
      /\ node' \in {"plan", "retrieve", "draft", "critique", "revise", END}
      /\ path' \in Seq({"plan", "retrieve", "draft", "critique", "revise"})
      /\ outcome' = IF P = {} THEN "no_context" ELSE "running"
  BY <1>1, <1>4, <1>c, <1>d DEF n
<1>6. DOMAIN best' = {}
  BY <1>3
<1>7. Types'
  BY <1>1, <1>3, <1>4, <1>5, <1>6 DEF Types, AgentInv
<1>8. Pace'
  BY <1>1, <1>3, <1>4, <1>5, RunFields DEF Pace, Calls, END
<1>9. Bill' /\ AnswerReviewed'
  BY <1>1, <1>3, <1>4, <1>5 DEF Bill, AnswerReviewed
<1> QED
  BY <1>5, <1>7, <1>8, <1>9, Assembled DEF END

LEMMA DraftKeeps ==
  ASSUME AgentInv, Draft
  PROVE  AgentInv'
<1>1. /\ node = "draft" /\ outcome = "running" /\ Enters(node) /\ run \in Runs
      /\ Len(path) = 2 /\ Calls = 1 /\ run.revisions = 0
      /\ DOMAIN best \subseteq Passages /\ asked \in 0..run.searches
  BY DEF AgentInv, Types, Pace, Draft, Enters
<1>2. PICK t \in {0, NewText} : Asked([run EXCEPT !.draft = t])
  BY DEF Draft
<1>3. Move("critique") /\ best' = best /\ asked' = asked
  BY DEF Draft
<1> DEFINE r == [run EXCEPT !.draft = t]
<1>4. /\ r \in Runs /\ r.max_steps = run.max_steps /\ r.max_revisions = run.max_revisions
      /\ r.llm_calls = run.llm_calls /\ r.cost = run.cost /\ r.revisions = run.revisions
      /\ r.searches = run.searches
  <2>1. t \in Int
    BY RunFields DEF NewText
  <2> QED
    BY <1>1, <2>1 DEF Runs
<1>5. Asked(r) \/ Survived(r)
  BY <1>2
<1> HIDE DEF r
<1>6. /\ run' \in Runs /\ failures' \in Nat /\ billed' \in Nat
      /\ run'.llm_calls + failures' = Calls + 1
      /\ run'.cost <= billed' /\ billed' <= run'.cost + failures'
      /\ run'.max_steps = run.max_steps /\ run'.max_revisions = run.max_revisions
      /\ run'.searches = run.searches /\ run'.revisions = run.revisions
  BY <1>1, <1>4, <1>5, CallCounts
<1>7. /\ node' = "critique" /\ Len(path') = 3 /\ Len(path') <= run'.max_steps
      /\ path' \in Seq({"plan", "retrieve", "draft", "critique", "revise"})
      /\ outcome' = "running"
  BY <1>1, <1>3, <1>6, MoveKeepsTypes DEF END
<1>8. Types'
  BY <1>1, <1>3, <1>6, <1>7 DEF Types
<1>a. /\ run'.revisions = 0 /\ Calls' = 2 /\ run'.max_revisions \in Nat
  BY <1>1, <1>6, RunFields DEF Calls
<1>b. Calls' = 2 + 2 * run'.revisions /\ Len(path') = 3 + 2 * run'.revisions
  BY <1>a, <1>7
<1>c. Calls' <= 2 + 2 * run'.max_revisions /\ run'.revisions <= run'.max_revisions
  BY <1>a
<1>9. Pace'
  BY <1>7, <1>b, <1>c DEF Pace, END
<1>10. Bill' /\ AnswerReviewed'
  BY <1>6, <1>7 DEF Bill, AnswerReviewed
<1> QED
  BY <1>7, <1>8, <1>9, <1>10, Assembled

LEMMA SkipCritiqueKeeps ==
  ASSUME AgentInv, SkipCritique
  PROVE  AgentInv'
<1>a. /\ node = "critique" /\ outcome = "running" /\ Enters(node) /\ run.revisions >= run.max_revisions
      /\ Move(END) /\ UNCHANGED <<run, best, asked, hits, billed, failures>>
  BY DEF SkipCritique, Enters
<1>b. /\ run \in Runs /\ run.revisions <= run.max_revisions
      /\ Calls <= 2 + 2 * run.max_revisions
  BY DEF AgentInv, Types, Pace
<1>1. /\ run.revisions = run.max_revisions /\ run' = run /\ run' \in Runs
      /\ billed' = billed /\ failures' = failures /\ Calls' = Calls
  BY <1>a, <1>b, RunFields DEF Calls
<1>2. /\ node' = END /\ Len(path') <= run'.max_steps
      /\ path' \in Seq({"plan", "retrieve", "draft", "critique", "revise"})
      /\ outcome' \in {"answered", "no_context"}
  BY <1>a, <1>1, MoveKeepsTypes
<1>3. Types'
  BY <1>a, <1>1, <1>2 DEF AgentInv, Types
<1>4. Pace'
  BY <1>b, <1>1, <1>2 DEF Pace
<1>5. Bill' /\ AnswerReviewed'
  BY <1>a, <1>1, <1>2 DEF AgentInv, Bill, AnswerReviewed
<1> QED
  BY <1>2, <1>3, <1>4, <1>5, Assembled DEF END

LEMMA Double ==
  ASSUME NEW a \in Nat, NEW b \in Nat, a < b
  PROVE  /\ 3 + 2 * a <= 2 + 2 * b /\ 2 + 2 * (a + 1) <= 2 + 2 * b /\ a + 1 <= b
         /\ 4 + 2 * a = (3 + 2 * a) + 1 /\ 3 + 2 * a = (2 + 2 * a) + 1
         /\ 3 + 2 * (a + 1) = (4 + 2 * a) + 1 /\ 2 + 2 * (a + 1) = (3 + 2 * a) + 1
OBVIOUS

\* A node that calls and moves on leaves a well-typed state behind, with two more steps of the
\* loop accounted for one by one.
LEMMA CallKeepsTypes ==
  ASSUME AgentInv, NEW n \in {"critique", "revise", END}, Enters(node), Move(n),
         NEW r \in Runs, Asked(r) \/ Survived(r),
         r.llm_calls = run.llm_calls, r.cost = run.cost, r.searches = run.searches,
         r.max_steps = run.max_steps, best' = best, asked' = asked
  PROVE  /\ Types' /\ Bill' /\ node' = n /\ Len(path') = Len(path) + 1 /\ Calls' = Calls + 1
         /\ outcome' = IF n # END THEN "running"
                       ELSE IF run'.passages # {} THEN "answered" ELSE "no_context"
         /\ run'.max_revisions = r.max_revisions /\ run'.revisions = r.revisions
         /\ run'.draft = r.draft /\ run'.reviewed = r.reviewed /\ run'.review = r.review
<1>1. outcome = "running"
  BY DEF Enters
<1>2. /\ run' \in Runs /\ failures' \in Nat /\ billed' \in Nat
      /\ run'.llm_calls + failures' = Calls + 1
      /\ run'.cost <= billed' /\ billed' <= run'.cost + failures'
      /\ run'.max_steps = run.max_steps /\ run'.max_revisions = r.max_revisions
      /\ run'.searches = run.searches /\ run'.revisions = r.revisions
      /\ run'.draft = r.draft /\ run'.reviewed = r.reviewed /\ run'.review = r.review
  BY <1>1, CallCounts
<1>3. /\ node' = n /\ Len(path') = Len(path) + 1 /\ Len(path') <= run'.max_steps
      /\ node' \in {"plan", "retrieve", "draft", "critique", "revise", END}
      /\ path' \in Seq({"plan", "retrieve", "draft", "critique", "revise"})
      /\ outcome' = IF n # END THEN "running"
                    ELSE IF run'.passages # {} THEN "answered" ELSE "no_context"
  BY <1>2, MoveKeepsTypes
<1>4. DOMAIN best \subseteq Passages /\ asked \in 0..run.searches
  BY DEF AgentInv, Types
<1>5. outcome' \in {"running", "answered", "no_context"}
  BY <1>3
<1>6. Types'
  BY <1>2, <1>3, <1>4, <1>5 DEF Types
<1>7. Bill' /\ Calls' = Calls + 1
  BY <1>2 DEF Bill, Calls
<1> QED
  BY <1>2, <1>3, <1>6, <1>7

LEMMA CritiqueKeeps ==
  ASSUME AgentInv, Critique
  PROVE  AgentInv'
<1>1. /\ node = "critique" /\ outcome = "running" /\ Enters(node) /\ run \in Runs
      /\ run.revisions < run.max_revisions /\ best' = best /\ asked' = asked
      /\ Len(path) = 3 + 2 * run.revisions /\ Calls = 2 + 2 * run.revisions
  BY Zenon DEF AgentInv, Types, Pace, Critique, Enters
<1>2. PICK r \in Runs, n \in {"critique", "revise", END} :
        /\ Asked(r) \/ Survived(r)
        /\ Move(n) /\ n # "critique"
        /\ r.llm_calls = run.llm_calls /\ r.cost = run.cost /\ r.searches = run.searches
        /\ r.max_steps = run.max_steps /\ r.max_revisions = run.max_revisions
        /\ r.revisions = run.revisions
        /\ n = END => \/ r.review \in {"approved", "unusable"} /\ r.reviewed = r.draft
                      \/ r.review = "failed"
  <2>1. CASE \E v \in Verdicts :
               /\ Asked([run EXCEPT !.reviewed = run.draft, !.review = v])
               /\ Move(IF v = "issues" THEN "revise" ELSE END)
    <3>1. PICK v \in Verdicts :
               /\ Asked([run EXCEPT !.reviewed = run.draft, !.review = v])
               /\ Move(IF v = "issues" THEN "revise" ELSE END)
      BY Zenon, <2>1
    <3> DEFINE r == [run EXCEPT !.reviewed = run.draft, !.review = v]
    <3> DEFINE n == IF v = "issues" THEN "revise" ELSE END
    <3>2. v \in {"approved", "unusable", "issues"} /\ run.draft \in Int
      BY RunFields DEF Verdicts
    <3>3. /\ r \in Runs /\ r.llm_calls = run.llm_calls /\ r.cost = run.cost
          /\ r.searches = run.searches
          /\ r.max_steps = run.max_steps /\ r.max_revisions = run.max_revisions
          /\ r.revisions = run.revisions /\ r.review = v /\ r.reviewed = r.draft
      BY <1>1, <3>2 DEF Runs
    <3>4. /\ n \in {"critique", "revise", END} /\ n # "critique"
          /\ n = END => v \in {"approved", "unusable"}
      BY <3>2 DEF END
    <3>5. Asked(r) /\ Move(n)
      BY <3>1
    <3> HIDE DEF r, n
    <3> QED
      BY <3>3, <3>4, <3>5
  <2>2. CASE Survived([run EXCEPT !.review = "failed"]) /\ Move(END)
    <3> DEFINE r == [run EXCEPT !.review = "failed"]
    <3>1. /\ r \in Runs /\ r.llm_calls = run.llm_calls /\ r.cost = run.cost
          /\ r.searches = run.searches
          /\ r.max_steps = run.max_steps /\ r.max_revisions = run.max_revisions
          /\ r.revisions = run.revisions /\ r.review = "failed"
      BY <1>1 DEF Runs
    <3>2. Survived(r) /\ Move(END)
      BY <2>2
    <3>3. END \in {"critique", "revise", END} /\ END # "critique"
      BY DEF END
    <3> HIDE DEF r
    <3> QED
      BY <3>1, <3>2, <3>3
  <2> QED
    BY Zenon, <2>1, <2>2 DEF Critique
<1>3. /\ Types' /\ Bill' /\ node' = n /\ Len(path') = Len(path) + 1 /\ Calls' = Calls + 1
      /\ outcome' = IF n # END THEN "running"
                    ELSE IF run'.passages # {} THEN "answered" ELSE "no_context"
      /\ run'.max_revisions = r.max_revisions /\ run'.revisions = r.revisions
      /\ run'.draft = r.draft /\ run'.reviewed = r.reviewed /\ run'.review = r.review
  BY <1>1, <1>2, CallKeepsTypes
<1>4. /\ run.revisions \in Nat /\ run.max_revisions \in Nat
      /\ run'.revisions = run.revisions /\ run'.max_revisions = run.max_revisions
      /\ Len(path') = 4 + 2 * run'.revisions /\ Calls' = 3 + 2 * run'.revisions
      /\ Calls' <= 2 + 2 * run'.max_revisions
      /\ run'.revisions < run'.max_revisions
  <2>1. /\ run.revisions \in Nat /\ run.max_revisions \in Nat
        /\ run'.revisions = run.revisions /\ run'.max_revisions = run.max_revisions
    BY <1>2, <1>3, RunFields
  <2>2. /\ Len(path') = (3 + 2 * run.revisions) + 1 /\ Calls' = (2 + 2 * run.revisions) + 1
    BY <1>1, <1>3
  <2> QED
    BY Zenon, <1>1, <2>1, <2>2, Double
<1>5. node' = END \/ node' = "revise"
  BY <1>2, <1>3
<1>6. outcome' = "running" => node' = "revise"
  BY <1>3, <1>5
<1>7. outcome' # "budget_exceeded"
  BY <1>3
<1>8. run'.revisions <= run'.max_revisions
  BY <1>4
<1>9. Pace'
  BY <1>4, <1>6, <1>7, <1>8 DEF Pace, END
<1>10. AnswerReviewed'
  BY <1>2, <1>3 DEF AnswerReviewed
<1> QED
  BY <1>3, <1>5, <1>9, <1>10, Assembled DEF END

LEMMA ReviseKeeps ==
  ASSUME AgentInv, Revise
  PROVE  AgentInv'
<1>1. /\ node = "revise" /\ outcome = "running" /\ Enters(node) /\ run \in Runs
      /\ run.revisions < run.max_revisions /\ best' = best /\ asked' = asked
      /\ Len(path) = 4 + 2 * run.revisions /\ Calls = 3 + 2 * run.revisions
      /\ Move("critique")
  BY DEF AgentInv, Types, Pace, Revise, Enters
<1>2. PICK t \in Rewrites : Asked([run EXCEPT !.revisions = @ + 1, !.draft = t])
  BY Zenon DEF Revise
<1> DEFINE r == [run EXCEPT !.revisions = @ + 1, !.draft = t]
<1>3. t \in Int /\ run.revisions + 1 \in Nat
  BY RunFields DEF Rewrites, NewText
<1>4. /\ r \in Runs /\ r.llm_calls = run.llm_calls /\ r.cost = run.cost
      /\ r.searches = run.searches
      /\ r.max_steps = run.max_steps /\ r.max_revisions = run.max_revisions
      /\ r.revisions = run.revisions + 1
  BY <1>1, <1>3 DEF Runs
<1>5. Asked(r) \/ Survived(r)
  BY <1>2
<1> HIDE DEF r
<1>6. /\ Types' /\ Bill' /\ node' = "critique" /\ Len(path') = Len(path) + 1
      /\ Calls' = Calls + 1 /\ outcome' = "running"
      /\ run'.max_revisions = r.max_revisions /\ run'.revisions = r.revisions
  <2>1. "critique" # END /\ "critique" \in {"critique", "revise", END}
    BY DEF END
  <2> QED
    BY <2>1, <1>1, <1>4, <1>5, CallKeepsTypes
<1>7. /\ run.revisions \in Nat /\ run.max_revisions \in Nat
      /\ run'.revisions = run.revisions + 1 /\ run'.max_revisions = run.max_revisions
      /\ Len(path') = 3 + 2 * run'.revisions /\ Calls' = 2 + 2 * run'.revisions
      /\ run'.revisions <= run'.max_revisions /\ Calls' <= 2 + 2 * run'.max_revisions
  <2>1. /\ run.revisions \in Nat /\ run.max_revisions \in Nat
        /\ run'.revisions = run.revisions + 1 /\ run'.max_revisions = run.max_revisions
    BY <1>4, <1>6, RunFields
  <2>2. /\ Len(path') = (4 + 2 * run.revisions) + 1 /\ Calls' = (3 + 2 * run.revisions) + 1
    BY <1>1, <1>6
  <2> QED
    BY Zenon, <1>1, <2>1, <2>2, Double
<1>8. Pace'
  BY <1>6, <1>7 DEF Pace, END
<1> QED
  BY <1>6, <1>8, Assembled DEF AnswerReviewed

LEMMA RaiseKeeps ==
  ASSUME AgentInv, Raise
  PROVE  AgentInv'
<1>1. /\ outcome = "running" /\ outcome' = "raised"
      /\ \E c \in {0, 1} : billed' = IF node = "retrieve" THEN billed ELSE billed + c
      /\ UNCHANGED <<run, node, path, best, asked, hits, failures>>
  BY DEF Raise, Enters
<1>2. billed' \in Nat
  BY <1>1, RunFields
<1>3. Types'
  BY <1>1, <1>2 DEF AgentInv, Types
<1>4. Pace' /\ Bill' /\ AnswerReviewed'
  BY <1>1 DEF AgentInv, Pace, Bill, Calls, AnswerReviewed
<1> QED
  BY <1>1, <1>3, <1>4, Assembled DEF AgentInv

\* The step budget ends a run where Pace says it is: short of 4 + 2 * max_revisions steps.
LEMMA OutOfStepsKeeps ==
  ASSUME AgentInv, OutOfSteps
  PROVE  AgentInv'
<1>1. /\ outcome = "running" /\ outcome' = "budget_exceeded" /\ Len(path) >= run.max_steps
      /\ UNCHANGED <<run, node, path, best, asked, hits, billed, failures>>
  BY DEF OutOfSteps
<1>2. /\ run.revisions \in Nat /\ run.max_revisions \in Nat /\ run.max_steps \in Nat
      /\ Len(path) \in Nat
  BY RunFields
<1>3. /\ run.revisions <= run.max_revisions
      /\ \/ Len(path) <= 2
         \/ Len(path) = 3 + 2 * run.revisions
         \/ Len(path) = 4 + 2 * run.revisions /\ run.revisions < run.max_revisions
  <2>1. node \in {"plan", "retrieve", "draft", "critique", "revise"}
    BY <1>1 DEF AgentInv, Types, Pace
  <2>2. Pace
    BY DEF AgentInv
  <2>3. CASE node \in {"plan", "retrieve", "draft"}
    <3>1. Len(path) \in {0, 1, 2} /\ run.revisions <= run.max_revisions
      BY <1>1, <2>2, <2>3 DEF Pace
    <3>2. \A k \in {0, 1, 2} : k <= 2
      OBVIOUS
    <3> QED
      BY Zenon, <3>1, <3>2
  <2>4. CASE node = "critique"
    BY Zenon, <1>1, <2>2, <2>4 DEF Pace
  <2>5. CASE node = "revise"
    BY <1>1, <2>2, <2>5 DEF Pace
  <2> QED
    BY <2>1, <2>2, <2>3, <2>4, <2>5 DEF Pace
<1>4. Len(path) < 4 + 2 * run.max_revisions
  BY <1>2, <1>3
<1>5. run.max_steps < 4 + 2 * run.max_revisions
  BY <1>1, <1>2, <1>4
<1>6. Types'
  BY <1>1 DEF AgentInv, Types
<1>7. Pace' /\ Bill' /\ AnswerReviewed'
  BY <1>1, <1>5 DEF AgentInv, Pace, Bill, Calls, AnswerReviewed
<1> QED
  BY <1>1, <1>6, <1>7, Assembled DEF AgentInv

LEMMA AgentSteps == AgentInv /\ [AgentNext]_agentVars => AgentInv'
<1> SUFFICES ASSUME AgentInv, [AgentNext]_agentVars PROVE AgentInv'
  OBVIOUS
<1>1. CASE Plan
  BY <1>1, PlanKeeps
<1>2. CASE Search
  BY <1>2, SearchKeeps
<1>3. CASE Retrieve
  BY <1>3, RetrieveKeeps
<1>4. CASE Draft
  BY <1>4, DraftKeeps
<1>5. CASE SkipCritique
  BY <1>5, SkipCritiqueKeeps
<1>6. CASE Critique
  BY <1>6, CritiqueKeeps
<1>7. CASE Revise
  BY <1>7, ReviseKeeps
<1>8. CASE Raise
  BY <1>8, RaiseKeeps
<1>9. CASE OutOfSteps
  BY <1>9, OutOfStepsKeeps
<1>10. CASE UNCHANGED agentVars
  BY <1>10 DEF AgentInv, Types, Pace, Bill, Calls, AnswerReviewed, agentVars
<1> QED
  BY <1>1, <1>2, <1>3, <1>4, <1>5, <1>6, <1>7, <1>8, <1>9, <1>10 DEF AgentNext

LEMMA AgentHolds == AgentSpec => []AgentInv
BY AgentInitially, AgentSteps, PTL DEF AgentSpec

\* A run of the agent is well typed and never takes a step its budget does not allow
\* (Graph.run, graph.py:80).
THEOREM AgentTypes == AgentSpec => []AgentTypeOK
<1>1. AgentInv => AgentTypeOK
  BY EdgeNodes DEF AgentInv, Types, AgentTypeOK
<1> QED
  BY <1>1, AgentHolds, PTL

\* Whatever the passages, the scores and the budgets, no text goes out unreviewed but the last one
\* the revision budget allowed or one whose reviewer failed (nodes.py:144-191).
THEOREM NothingUnreviewed == AgentSpec => []AnswerReviewed
<1>1. AgentInv => AnswerReviewed
  BY DEF AgentInv
<1> QED
  BY <1>1, AgentHolds, PTL

\* Whatever the budgets, a run makes at most 2 + 2 * max_revisions calls, is never cut short with
\* 4 + 2 * max_revisions steps to spend, and reports what it cost but for the calls that failed
\* (graph.py:80, nodes.py:78-83).
THEOREM RunsAreBounded == AgentSpec => []ResearchBounded
<1>1. AgentInv => ResearchBounded
  BY DEF AgentInv, Pace, Bill, Calls, ResearchBounded, Answered
<1> QED
  BY <1>1, AgentHolds, PTL

(***************************************************************************)
(* What the merge of several searches keeps                                *)
(***************************************************************************)

FoundIn == {h[1] : h \in hits}

\* Until retrieve has chosen, the merge holds one hit of every passage found, the best one; after
\* it, what was chosen is never empty while there is a draft to write.
MergeInv ==
  /\ node \in {"plan", "retrieve"} =>
       /\ hits \subseteq Passages \X Scores
       /\ best \in [FoundIn -> Scores]
       /\ \A p \in FoundIn : <<p, best[p]>> \in hits
       /\ \A h \in hits : best[h[1]] >= h[2]
  /\ node \in {"draft", "critique", "revise"} => run.passages # {}
  /\ outcome = "no_context" => node = END
  /\ BestPassagesKept

LEMMA MergeInitially == AgentInit => MergeInv
BY DEF AgentInit, MergeInv, FoundIn, BestPassagesKept, END

LEMMA SearchMerges ==
  ASSUME AgentInv, MergeInv, Search
  PROVE  MergeInv'
<1>1. /\ node = "retrieve" /\ outcome = "running" /\ UNCHANGED <<run, node, outcome>>
      /\ hits \subseteq Passages \X Scores /\ best \in [FoundIn -> Scores]
      /\ \A p \in FoundIn : <<p, best[p]>> \in hits
      /\ \A h \in hits : best[h[1]] >= h[2]
  BY DEF Search, Enters, MergeInv
<1>a. PICK P \in SUBSET Passages : \E found \in [P -> Scores] :
        /\ best' = Merged(found)
        /\ hits' = hits \cup {<<p, found[p]>> : p \in P}
  BY DEF Search
<1>2. PICK found \in [P -> Scores] :
        /\ best' = Merged(found)
        /\ hits' = hits \cup {<<p, found[p]>> : p \in P}
  BY <1>a
<1> DEFINE Keeps(p) == p \in FoundIn /\ (p \in P => found[p] <= best[p])
<1>3. DOMAIN best = FoundIn /\ DOMAIN found = P
  BY <1>1, <1>2
<1>4. best' = [p \in FoundIn \cup P |-> IF Keeps(p) THEN best[p] ELSE found[p]]
  BY <1>2, <1>3 DEF Merged
<1>5. FoundIn' = FoundIn \cup P
  <2>1. \A p : p \in FoundIn' <=> \E h \in hits' : p = h[1]
    BY DEF FoundIn
  <2>2. \A p : p \in FoundIn <=> \E h \in hits : p = h[1]
    BY DEF FoundIn
  <2>3. \A h : h \in hits' <=> h \in hits \/ \E p \in P : h = <<p, found[p]>>
    BY <1>2
  <2>4. ASSUME NEW p \in P PROVE p \in FoundIn'
    <3>1. <<p, found[p]>> \in hits' /\ p = <<p, found[p]>>[1]
      BY <2>3
    <3> QED
      BY <2>1, <3>1
  <2>5. ASSUME NEW p \in FoundIn' PROVE p \in FoundIn \cup P
    <3>1. PICK h \in hits' : p = h[1]
      BY <2>1
    <3>2. CASE h \in hits
      BY <2>2, <3>1, <3>2
    <3>3. CASE h \notin hits
      <4>1. PICK q \in P : h = <<q, found[q]>>
        BY <2>3, <3>3
      <4> QED
        BY <3>1, <4>1
    <3> QED
      BY <3>2, <3>3
  <2>6. FoundIn \subseteq FoundIn'
    BY <2>1, <2>2, <2>3
  <2> QED
    BY <2>4, <2>5, <2>6
<1>6. \A p \in FoundIn \cup P : ~Keeps(p) => p \in P
  OBVIOUS
<1>7. hits' \subseteq Passages \X Scores
  BY <1>1, <1>2
<1>8. best' \in [FoundIn' -> Scores]
  BY <1>1, <1>4, <1>5, <1>6
<1>9. \A p \in FoundIn' : <<p, best'[p]>> \in hits'
  BY <1>1, <1>2, <1>4, <1>5, <1>6
<1>10. ASSUME NEW h \in hits' PROVE best'[h[1]] >= h[2]
  <2>1. h[1] \in FoundIn' /\ h[2] \in Scores /\ h \in Passages \X Scores
    BY <1>7, <1>10 DEF FoundIn
  <2>2. best'[h[1]] = IF Keeps(h[1]) THEN best[h[1]] ELSE found[h[1]]
    BY <1>4, <1>5, <2>1
  <2>3. Scores \subseteq Int
    BY AgentAssumption
  <2>a. PICK q : q = h[1]
    OBVIOUS
  <2>b. q \in FoundIn => best[q] \in Int
    BY <1>1, <2>3
  <2>c. q \in P => found[q] \in Int
    BY <1>2, <2>3
  <2>d. h[2] \in Int
    BY <2>1, <2>3
  <2>4. CASE h \in hits
    <3>1. best[q] >= h[2] /\ q \in FoundIn
      BY <1>1, <2>4, <2>a DEF FoundIn
    <3>2. CASE Keeps(q)
      BY <2>2, <2>a, <3>1, <3>2
    <3>3. CASE ~Keeps(q)
      <4>1. q \in P /\ ~(found[q] <= best[q])
        BY <3>1, <3>3
      <4>2. best'[q] = found[q]
        BY <2>2, <2>a, <3>3
      <4> QED
        BY <2>a, <2>b, <2>c, <2>d, <3>1, <4>1, <4>2
    <3> QED
      BY <3>2, <3>3
  <2>5. CASE h \notin hits
    <3>1. q \in P /\ h[2] = found[q]
      BY <1>2, <1>10, <2>5, <2>a
    <3>2. CASE Keeps(q)
      BY <2>2, <2>a, <2>b, <2>c, <3>1, <3>2
    <3>3. CASE ~Keeps(q)
      BY <2>2, <2>a, <2>c, <3>1, <3>3
    <3> QED
      BY <3>2, <3>3
  <2> QED
    BY <2>4, <2>5
<1> QED
  BY <1>1, <1>7, <1>8, <1>9, <1>10 DEF MergeInv, BestPassagesKept

LEMMA RetrieveMerges ==
  ASSUME AgentInv, MergeInv, Retrieve
  PROVE  MergeInv'
<1>1. /\ node = "retrieve" /\ outcome = "running" /\ hits' = hits /\ run \in Runs
      /\ hits \subseteq Passages \X Scores /\ best \in [FoundIn -> Scores]
      /\ \A p \in FoundIn : <<p, best[p]>> \in hits
      /\ \A h \in hits : best[h[1]] >= h[2]
  BY DEF Retrieve, Enters, MergeInv, AgentInv, Types
<1>2. PICK P \in SUBSET Passages :
        /\ TopOf(P)
        /\ run' = [run EXCEPT !.passages = P, !.draft = IF P = {} THEN NoContext ELSE @]
        /\ Move(IF P = {} THEN END ELSE "draft")
  BY Zenon DEF Retrieve
<1>3. run'.passages = P /\ run'.top_k = run.top_k /\ run.top_k \in Nat \ {0}
  BY <1>1, <1>2, AgentAssumption DEF Runs
<1>4. /\ node' = IF P = {} THEN END ELSE "draft"
      /\ outcome' = IF P = {} THEN "no_context" ELSE "running"
  BY <1>2, <1>3 DEF Move, END
<1>5. /\ DOMAIN best = FoundIn /\ FoundIn' = FoundIn /\ P \subseteq FoundIn
      /\ Cardinality(P) = run.top_k \/ P = FoundIn
      /\ \A p \in P, q \in FoundIn \ P : best[p] >= best[q]
  BY <1>1, <1>2 DEF TopOf, FoundIn
<1>6. ASSUME NEW h \in hits', h[1] \notin P, NEW p \in P
      PROVE  \E g \in hits' : g[1] = p /\ g[2] >= h[2]
  <2>1. Scores \subseteq Int
    BY AgentAssumption
  <2>2. h[1] \in FoundIn \ P /\ h[2] \in Int
    BY <1>1, <1>6, <2>1 DEF FoundIn
  <2>3. best[p] \in Int /\ best[h[1]] \in Int /\ best[p] >= best[h[1]] /\ best[h[1]] >= h[2]
    BY <1>1, <1>5, <1>6, <2>1, <2>2
  <2>4. <<p, best[p]>> \in hits'
    BY <1>1, <1>5
  <2> QED
    BY <2>2, <2>3, <2>4
<1>7. BestPassagesKept'
  BY <1>3, <1>5, <1>6 DEF BestPassagesKept, FoundIn
<1> QED
  BY <1>3, <1>4, <1>7 DEF MergeInv, END

\* The nodes that only ask leave the passages alone, and the draft forgets the hits.
LEMMA OthersMerge ==
  ASSUME AgentInv, MergeInv, ~Search, ~Retrieve, [AgentNext]_agentVars
  PROVE  MergeInv'
<1>1. run \in Runs /\ billed \in Nat /\ failures \in Nat
  BY DEF AgentInv, Types
<1>2. ASSUME NEW r, NEW n, Asked(r) \/ Survived(r), r \in Runs, r.passages = run.passages,
             Move(n), n \in {"critique", "revise", END}, run.passages # {}
      PROVE  MergeInv'
  <2>1. run'.passages # {}
    BY <1>1, <1>2, AskedFields, SurvivedFields
  <2>2. node' = n /\ outcome' # "no_context"
    BY <1>2, <2>1 DEF Move
  <2> QED
    BY <1>2, <2>1, <2>2 DEF MergeInv, BestPassagesKept, END
<1>3. CASE Plan
  <2>1. node = "plan" /\ UNCHANGED <<best, hits>> /\ Move("retrieve")
    BY <1>3 DEF Plan, Enters
  <2>2. node' = "retrieve" /\ outcome' = "running"
    BY <2>1 DEF Move, END
  <2> QED
    BY <2>1, <2>2 DEF MergeInv, BestPassagesKept, FoundIn, END
<1>4. CASE Draft
  <2>1. PICK t \in {0, NewText} : Asked([run EXCEPT !.draft = t])
    BY <1>4 DEF Draft
  <2>2. node = "draft" /\ Move("critique") /\ run.passages # {}
    BY <1>4 DEF Draft, Enters, MergeInv
  <2>3. t \in Int
    BY <1>1, RunFields DEF NewText
  <2>4. [run EXCEPT !.draft = t] \in Runs /\ [run EXCEPT !.draft = t].passages = run.passages
    BY <1>1, <2>3 DEF Runs
  <2> QED
    BY <1>2, <2>1, <2>2, <2>4
<1>5. CASE SkipCritique
  <2>1. node = "critique" /\ run' = run /\ hits' = hits /\ Move(END) /\ run.passages # {}
    BY <1>5 DEF SkipCritique, Enters, MergeInv
  <2>2. node' = END /\ outcome' # "no_context"
    BY <2>1 DEF Move
  <2> QED
    BY <2>1, <2>2 DEF MergeInv, BestPassagesKept, END
<1>6. CASE Critique
  <2>a. Enters("critique")
    BY <1>6, Zenon DEF Critique
  <2>1. node = "critique" /\ run.passages # {}
    BY <2>a DEF Enters, MergeInv
  <2>2. ASSUME NEW v \in Verdicts, Asked([run EXCEPT !.reviewed = run.draft, !.review = v]),
               Move(IF v = "issues" THEN "revise" ELSE END)
        PROVE  MergeInv'
    <3>1. /\ [run EXCEPT !.reviewed = run.draft, !.review = v] \in Runs
          /\ [run EXCEPT !.reviewed = run.draft, !.review = v].passages = run.passages
      BY <1>1 DEF Runs, Verdicts
    <3> QED
      BY <1>2, <2>1, <2>2, <3>1
  <2>3. ASSUME Survived([run EXCEPT !.review = "failed"]), Move(END)
        PROVE  MergeInv'
    <3>1. /\ [run EXCEPT !.review = "failed"] \in Runs
          /\ [run EXCEPT !.review = "failed"].passages = run.passages
      BY <1>1 DEF Runs
    <3> QED
      BY <1>2, <2>1, <2>3, <3>1
  <2> QED
    BY <1>6, <2>2, <2>3, Zenon DEF Critique
<1>7. CASE Revise
  <2>1. node = "revise" /\ run.passages # {} /\ Move("critique")
    BY <1>7 DEF Revise, Enters, MergeInv
  <2>2. PICK t \in Rewrites : Asked([run EXCEPT !.revisions = @ + 1, !.draft = t])
    BY <1>7, Zenon DEF Revise
  <2>3. t \in Int /\ run.revisions + 1 \in Nat
    <3>1. run.draft \in Int /\ run.revisions \in Nat /\ run.llm_calls \in Nat
      BY <1>1 DEF Runs
    <3> QED
      BY <3>1 DEF Rewrites, NewText
  <2>4. /\ [run EXCEPT !.revisions = @ + 1, !.draft = t] \in Runs
        /\ [run EXCEPT !.revisions = @ + 1, !.draft = t].passages = run.passages
    BY <1>1, <2>3 DEF Runs
  <2> QED
    BY <1>2, <2>1, <2>2, <2>4
<1>8. CASE Raise \/ OutOfSteps \/ UNCHANGED agentVars
  <2>1. UNCHANGED <<run, node, best, hits>>
        /\ (outcome' \in {"raised", "budget_exceeded"} \/ outcome' = outcome)
    BY <1>8 DEF Raise, OutOfSteps, agentVars
  <2> QED
    BY <2>1 DEF MergeInv, BestPassagesKept, FoundIn
<1> QED
  BY <1>3, <1>4, <1>5, <1>6, <1>7, <1>8 DEF AgentNext

LEMMA MergeHolds == AgentSpec => []MergeInv
<1>1. AgentInv /\ MergeInv /\ [AgentNext]_agentVars => MergeInv'
  BY SearchMerges, RetrieveMerges, OthersMerge
<1> QED
  BY <1>1, MergeInitially, AgentHolds, PTL DEF AgentSpec

\* Whatever the searches find, in whatever order and however ties fall, no passage left out of the
\* draft has a better hit than one that was kept, and none is left out while top_k has room
\* (nodes.py:123-131).
THEOREM MergeKeepsBest == AgentSpec => []BestPassagesKept
<1>1. MergeInv => BestPassagesKept
  BY DEF MergeInv
<1> QED
  BY <1>1, MergeHolds, PTL

(***************************************************************************)
(* The response cache                                                      *)
(***************************************************************************)

Rows == [ns : Namespaces, created : Nat, until : Nat]
Purges ==
  {NoWork}
    \cup [doing : {"scan"}, tenant : Tenants, left : SUBSET Namespaces, batch : {{}},
          targets : SUBSET Nat]
    \cup [doing : {"delete", "unlist"}, tenant : Tenants, left : SUBSET Namespaces,
          batch : [ns : Namespaces, ids : SUBSET Nat], targets : SUBSET Nat]
    \cup [doing : {"all entries", "all lists", "all sets"}, targets : SUBSET Nat,
          batch : SUBSET Nat]

CacheShape ==
  /\ now \in Nat
  /\ \E k \in Nat : DOMAIN entry = 1..k
  /\ \A e \in DOMAIN entry : entry[e] \in Rows /\ entry[e].until <= now + TTL
  /\ owned \in [Tenants -> [spaces : SUBSET Namespaces, until : Nat]]
  /\ DOMAIN caller = Callers
  /\ purge \in Purges
  /\ voided \subseteq DOMAIN entry

\* An entry that a store has yet to write is its own: no purge has met it.
Unwritten(e) == entry[e].until = 0 /\ e \notin voided /\ (Purging => e \notin purge.targets)
Stores ==
  /\ \A c \in Callers : caller[c].doing = "store" =>
       caller[c].id \in DOMAIN entry /\ Unwritten(caller[c].id)
  /\ \A c, d \in Callers : caller[c].doing = "store" /\ caller[d].doing = "store"
       /\ caller[c].id = caller[d].id => c = d

\* What can be served was stored while a purge ran, or its namespace is known as long as it lives.
Known ==
  \A e \in DOMAIN entry : Live(e) /\ e \notin raced =>
    /\ entry[e].ns \in owned[Owner[entry[e].ns]].spaces
    /\ entry[e].until <= owned[Owner[entry[e].ns]].until

\* A purge still has ahead of it what it is to delete and has not yet deleted, and it is to delete
\* all there is in its reach but what was stored while a purge ran.
Ahead(e) ==
  CASE purge.doing \in {"scan", "unlist"} -> entry[e].ns \in purge.left
    [] purge.doing = "delete" -> entry[e].ns \in purge.left \/ e \in purge.batch.ids
    [] purge.doing = "all entries" -> e \in purge.batch
    [] OTHER -> FALSE
OfTenant == purge.doing \in {"scan", "delete", "unlist"}
InReach(e) == OfTenant => Owner[entry[e].ns] = purge.tenant
Aimed ==
  Purging =>
    /\ purge.targets \subseteq DOMAIN entry
    /\ \A e \in purge.targets : Live(e) => Ahead(e)
    /\ \A e \in DOMAIN entry : Live(e) /\ e \notin raced /\ InReach(e) => e \in purge.targets

CacheInv == CacheShape /\ Stores /\ Known /\ Aimed /\ PurgedGone

LEMMA CacheInitially == CacheInit => CacheInv
<1> SUFFICES ASSUME CacheInit PROVE CacheInv
  OBVIOUS
<1>1. /\ now = 0 /\ entry = <<>> /\ purge = NoWork /\ voided = {}
      /\ owned = [t \in Tenants |-> [spaces |-> {}, until |-> 0]]
      /\ caller = [c \in Callers |-> NoWork]
  BY DEF CacheInit
<1>2. DOMAIN entry = 1..0 /\ DOMAIN entry = {}
  BY <1>1
<1>3. CacheShape
  BY <1>1, <1>2 DEF CacheShape, Purges
<1>4. \A c \in Callers : caller[c].doing = "idle"
  BY <1>1 DEF NoWork
<1> QED
  BY <1>1, <1>2, <1>3, <1>4 DEF CacheInv, Stores, Known, Aimed, PurgedGone, Purging

\* What a step may do to the entries that are there: time passes, and some are deleted.
LEMMA FewerLive ==
  ASSUME CacheInv, now \in Nat, now' \in Nat, now <= now', DOMAIN entry' = DOMAIN entry,
         \A e \in DOMAIN entry : entry'[e] = entry[e] \/ entry'[e] = [entry[e] EXCEPT !.until = 0]
  PROVE  /\ \A e \in DOMAIN entry : Live(e)' => Live(e) /\ entry'[e] = entry[e]
         /\ \A e \in DOMAIN entry :
              /\ entry'[e] \in Rows /\ entry'[e].until <= now' + TTL /\ entry'[e].ns = entry[e].ns
              /\ entry[e].until = 0 => entry'[e].until = 0
<1>1. TTL \in Nat
  BY CacheAssumption
<1>2. SUFFICES ASSUME NEW e \in DOMAIN entry
               PROVE  /\ Live(e)' => Live(e) /\ entry'[e] = entry[e]
                      /\ entry'[e] \in Rows /\ entry'[e].until <= now' + TTL
                      /\ entry'[e].ns = entry[e].ns
                      /\ entry[e].until = 0 => entry'[e].until = 0
  OBVIOUS
<1>3. entry[e] \in Rows /\ entry[e].until <= now + TTL /\ entry[e].until \in Nat
  BY DEF CacheInv, CacheShape, Rows
<1>4. CASE entry'[e] = entry[e]
  BY <1>1, <1>3, <1>4 DEF Live
<1>5. CASE entry'[e] = [entry[e] EXCEPT !.until = 0]
  <2>1. entry'[e] \in Rows /\ entry'[e].until = 0 /\ entry'[e].ns = entry[e].ns
    BY <1>3, <1>5 DEF Rows
  <2> QED
    BY <1>1, <2>1 DEF Live
<1> QED
  BY <1>4, <1>5

\* A step that stores nothing, forgets no namespace and ends no purge keeps the induction if it
\* keeps what a purge has ahead of it.
LEMMA Fading ==
  ASSUME CacheInv, now' \in Nat, now <= now', DOMAIN entry' = DOMAIN entry,
         \A e \in DOMAIN entry : entry'[e] = entry[e] \/ entry'[e] = [entry[e] EXCEPT !.until = 0],
         DOMAIN caller' = Callers,
         \A c \in Callers : caller'[c].doing = "store" => caller'[c] = caller[c],
         UNCHANGED <<owned, raced, voided>>,
         purge' \in Purges, Aimed',
         Purging' => \A e \in purge'.targets :
           (Purging /\ e \in purge.targets) \/ entry[e].until # 0
  PROVE  CacheInv'
<1>1. now \in Nat
  BY DEF CacheInv, CacheShape
<1>2. /\ \A e \in DOMAIN entry : Live(e)' => Live(e) /\ entry'[e] = entry[e]
      /\ \A e \in DOMAIN entry :
           /\ entry'[e] \in Rows /\ entry'[e].until <= now' + TTL /\ entry'[e].ns = entry[e].ns
           /\ entry[e].until = 0 => entry'[e].until = 0
  BY <1>1, FewerLive
<1>3. CacheShape'
  BY <1>2 DEF CacheInv, CacheShape
<1>4. \A c \in Callers : caller'[c].doing = "store" =>
        caller'[c].id \in DOMAIN entry' /\ Unwritten(caller[c].id)'
  <2> SUFFICES ASSUME NEW c \in Callers, caller'[c].doing = "store"
               PROVE  caller'[c].id \in DOMAIN entry' /\ Unwritten(caller[c].id)'
    OBVIOUS
  <2> DEFINE e == caller[c].id
  <2>1. caller'[c] = caller[c] /\ e \in DOMAIN entry /\ Unwritten(e)
    BY DEF CacheInv, Stores
  <2>2. entry'[e].until = 0 /\ e \notin voided'
    BY <1>2, <2>1 DEF Unwritten
  <2>3. Purging' => e \notin purge'.targets
    BY <2>1 DEF Unwritten
  <2> QED
    BY <2>1, <2>2, <2>3 DEF Unwritten
<1>5. Stores'
  <2>1. \A c, d \in Callers : caller'[c].doing = "store" /\ caller'[d].doing = "store"
          /\ caller'[c].id = caller'[d].id => c = d
    BY DEF CacheInv, Stores
  <2> QED
    BY <1>4, <2>1 DEF Stores
<1>6. Known'
  BY <1>2 DEF CacheInv, Known
<1>7. PurgedGone'
  BY <1>2 DEF CacheInv, CacheShape, PurgedGone
<1> QED
  BY <1>3, <1>5, <1>6, <1>7 DEF CacheInv

\* ... as it does when it is no step of the purge, or the purge dies.
LEMMA Aside ==
  ASSUME CacheInv, now' \in Nat, now <= now', DOMAIN entry' = DOMAIN entry,
         \A e \in DOMAIN entry : entry'[e] = entry[e] \/ entry'[e] = [entry[e] EXCEPT !.until = 0],
         DOMAIN caller' = Callers,
         \A c \in Callers : caller'[c].doing = "store" => caller'[c] = caller[c],
         UNCHANGED <<owned, raced, voided>>,
         purge' = purge \/ purge' = NoWork
  PROVE  CacheInv'
<1>1. now \in Nat /\ purge \in Purges
  BY DEF CacheInv, CacheShape
<1>2. /\ \A e \in DOMAIN entry : Live(e)' => Live(e) /\ entry'[e] = entry[e]
      /\ \A e \in DOMAIN entry : entry'[e].ns = entry[e].ns
  BY <1>1, FewerLive
<1>3. purge' \in Purges
  BY Zenon, <1>1 DEF Purges
<1>4. CASE purge' = NoWork
  <2>1. ~Purging' /\ Aimed'
    BY <1>4 DEF Purging, Aimed
  <2> QED
    BY <1>3, <2>1, Fading
<1>5. CASE purge' = purge
  <2>1. Purging' = Purging /\ OfTenant' = OfTenant
    BY <1>5 DEF Purging, OfTenant
  <2>2. ASSUME NEW e \in DOMAIN entry
        PROVE  (Ahead(e) => Ahead(e)') /\ (InReach(e)' => InReach(e))
    BY Zenon, <1>2, <1>5, <2>1 DEF Ahead, InReach
  <2>3. Aimed'
    BY <1>2, <1>5, <2>1, <2>2 DEF CacheInv, Aimed
  <2> QED
    BY <1>3, <1>5, <2>1, <2>3, Fading
<1> QED
  BY <1>4, <1>5

LEMMA TimePasses == CacheInv /\ Tick => CacheInv'
<1> SUFFICES ASSUME CacheInv, Tick PROVE CacheInv'
  OBVIOUS
<1>1. /\ now \in Nat /\ now' = now + 1 /\ DOMAIN caller = Callers
      /\ UNCHANGED <<entry, caller, owned, purge, raced, voided>>
  BY DEF CacheInv, CacheShape, Tick
<1> QED
  BY <1>1, Aside

LEMMA DeletedFades ==
  ASSUME NEW E
  PROVE  /\ DOMAIN Deleted(E) = DOMAIN entry
         /\ \A e \in DOMAIN entry :
              /\ Deleted(E)[e] = entry[e] \/ Deleted(E)[e] = [entry[e] EXCEPT !.until = 0]
              /\ e \in E => Deleted(E)[e] = [entry[e] EXCEPT !.until = 0]
BY DEF Deleted

\* Lookups write at most a list; an eviction deletes, and a crash leaves what it would have deleted.
LEMMA CallersAside ==
  ASSUME CacheInv, NEW c \in Callers,
         \/ \E n \in Namespaces : ListIds(c, n) \/ Nearest(c, n)
         \/ Evict(c) \/ Compare(c) \/ Tidy(c) \/ Fetch(c) \/ Crash(c)
  PROVE  CacheInv'
<1>1. now \in Nat /\ DOMAIN caller = Callers
  BY DEF CacheInv, CacheShape
<1>2. UNCHANGED <<now, owned, raced, voided, purge>>
  BY DEF ListIds, Nearest, Evict, Compare, Tidy, Fetch, Crash
<1>3. UNCHANGED entry \/ \E E : entry' = Deleted(E)
  BY DEF ListIds, Nearest, Evict, Compare, Tidy, Fetch, Crash
<1>4. \E r : caller' = [caller EXCEPT ![c] = r] /\ r.doing # "store"
  <2>1. ASSUME NEW E, NEW a \in Above(c, E) PROVE a.doing # "store"
    BY <2>1 DEF Above, NoWork
  <2>2. CASE \E n \in Namespaces : ListIds(c, n) \/ Nearest(c, n)
    <3>1. CASE \E n \in Namespaces : ListIds(c, n)
      <4>1. PICK n \in Namespaces : ListIds(c, n)
        BY <3>1
      <4>2. caller' = [caller EXCEPT ![c] = [doing |-> "compare", ns |-> n, ids |-> listed[n]]]
        BY <4>1 DEF ListIds
      <4>3. [doing |-> "compare", ns |-> n, ids |-> listed[n]].doing # "store"
        OBVIOUS
      <4> QED
        BY <4>2, <4>3, Zenon
    <3>2. CASE \E n \in Namespaces : Nearest(c, n)
      <4>1. PICK n \in Namespaces : Nearest(c, n)
        BY <3>2
      <4>2. PICK e \in LiveIn(n) : caller' = [caller EXCEPT ![c] = [doing |-> "fetch", id |-> e]]
        BY <4>1 DEF Nearest
      <4>3. [doing |-> "fetch", id |-> e].doing # "store"
        OBVIOUS
      <4> QED
        BY <4>2, <4>3, Zenon
    <3> QED
      BY <2>2, <3>1, <3>2
  <2>3. CASE Evict(c) \/ Fetch(c) \/ Crash(c)
    BY <2>3 DEF Evict, Fetch, Crash, NoWork
  <2>4. CASE Compare(c)
    BY <2>1, <2>4 DEF Compare
  <2>5. CASE Tidy(c)
    BY <2>1, <2>5 DEF Tidy
  <2> QED
    BY <2>2, <2>3, <2>4, <2>5
<1>5. DOMAIN caller' = Callers /\ \A d \in Callers : caller'[d].doing = "store" => caller'[d] = caller[d]
  BY <1>1, <1>4
<1>6. /\ DOMAIN entry' = DOMAIN entry
      /\ \A e \in DOMAIN entry : entry'[e] = entry[e] \/ entry'[e] = [entry[e] EXCEPT !.until = 0]
  BY <1>3, DeletedFades
<1> QED
  BY <1>1, <1>2, <1>5, <1>6, Aside

\* An id that has taken its place and is not written yet.
LEMMA StampKeeps ==
  ASSUME CacheInv, NEW c \in Callers, NEW n \in Namespaces, Stamp(c, n)
  PROVE  CacheInv'
<1>1. PICK k \in Nat : DOMAIN entry = 1..k
  BY DEF CacheInv, CacheShape
<1> DEFINE e == k + 1
<1>2. Cardinality(DOMAIN entry) = k
  BY <1>1, FS_Interval
<1>3. /\ entry' = [i \in 1..e |-> IF i = e THEN [ns |-> n, created |-> now, until |-> 0]
                                  ELSE entry[i]]
      /\ caller' = [caller EXCEPT ![c] = [doing |-> "store", id |-> e]]
      /\ UNCHANGED <<now, owned, purge, raced, voided>>
  BY <1>2 DEF Stamp
<1>4. TTL \in Nat /\ now \in Nat /\ DOMAIN caller = Callers
  BY CacheAssumption DEF CacheInv, CacheShape
<1>5. /\ DOMAIN entry' = 1..e /\ e \in DOMAIN entry' /\ e \notin DOMAIN entry
      /\ DOMAIN entry' = DOMAIN entry \cup {e}
      /\ entry'[e] = [ns |-> n, created |-> now, until |-> 0]
      /\ \A i \in DOMAIN entry : entry'[i] = entry[i]
  BY <1>1, <1>3
<1>6. entry'[e] \in Rows /\ entry'[e].until = 0 /\ ~Live(e)'
  BY <1>3, <1>4, <1>5 DEF Rows, Live
<1>7. \A i \in DOMAIN entry : Live(i)' = Live(i)
  BY <1>3, <1>5 DEF Live
<1>8. CacheShape'
  <2>1. \A i \in DOMAIN entry' : entry'[i] \in Rows /\ entry'[i].until <= now' + TTL
    BY <1>3, <1>4, <1>5, <1>6 DEF CacheInv, CacheShape
  <2>2. \E j \in Nat : DOMAIN entry' = 1..j
    BY <1>5
  <2>3. DOMAIN caller' = Callers
    BY <1>3, <1>4
  <2> QED
    BY <1>3, <1>5, <2>1, <2>2, <2>3 DEF CacheInv, CacheShape
<1>9. Purging' = Purging /\ (Purging => purge.targets \subseteq DOMAIN entry)
  BY <1>3 DEF Purging, CacheInv, Aimed
<1>10. /\ caller'[c] = [doing |-> "store", id |-> e]
       /\ \A d \in Callers : d # c => caller'[d] = caller[d]
  BY <1>3, <1>4
<1>11. Stores'
  <2>1. voided \subseteq DOMAIN entry
    BY DEF CacheInv, CacheShape
  <2>2. \A d \in Callers : d # c /\ caller[d].doing = "store" =>
          caller[d].id \in DOMAIN entry /\ Unwritten(caller[d].id)
    BY DEF CacheInv, Stores
  <2>3. \A d \in Callers : caller'[d].doing = "store" =>
          /\ caller'[d].id \in DOMAIN entry' /\ entry'[caller'[d].id].until = 0
          /\ caller'[d].id \notin voided'
          /\ Purging' => caller'[d].id \notin purge'.targets
    <3> SUFFICES ASSUME NEW d \in Callers, caller'[d].doing = "store"
                 PROVE  /\ caller'[d].id \in DOMAIN entry' /\ entry'[caller'[d].id].until = 0
                        /\ caller'[d].id \notin voided'
                        /\ Purging' => caller'[d].id \notin purge'.targets
      OBVIOUS
    <3>1. CASE d = c
      BY <1>3, <1>5, <1>6, <1>9, <1>10, <2>1, <3>1
    <3>2. CASE d # c
      BY <1>3, <1>5, <1>9, <1>10, <2>2, <3>2 DEF Unwritten
    <3> QED
      BY <3>1, <3>2
  <2>4. \A d, b \in Callers : caller'[d].doing = "store" /\ caller'[b].doing = "store"
          /\ caller'[d].id = caller'[b].id => d = b
    <3> SUFFICES ASSUME NEW d \in Callers, NEW b \in Callers, d # b,
                        caller'[d].doing = "store", caller'[b].doing = "store"
                 PROVE  caller'[d].id # caller'[b].id
      OBVIOUS
    <3>1. CASE d = c
      BY <1>5, <1>10, <2>2, <3>1
    <3>2. CASE b = c
      BY <1>5, <1>10, <2>2, <3>2
    <3>3. CASE d # c /\ b # c
      BY <1>10, <3>3 DEF CacheInv, Stores
    <3> QED
      BY <3>1, <3>2, <3>3
  <2> QED
    BY <2>3, <2>4 DEF Stores, Unwritten
<1>12. Known'
  BY <1>3, <1>5, <1>6, <1>7 DEF CacheInv, Known
<1>13. Aimed'
  <2> SUFFICES ASSUME Purging PROVE Aimed'
    BY <1>9 DEF Aimed
  <2>1. OfTenant' = OfTenant
    BY <1>3 DEF OfTenant
  <2>2. ASSUME NEW i \in DOMAIN entry PROVE Ahead(i)' = Ahead(i) /\ InReach(i)' = InReach(i)
    BY Zenon, <1>3, <1>5, <2>1 DEF Ahead, InReach
  <2> QED
    BY <1>3, <1>5, <1>6, <1>7, <1>9, <2>2 DEF CacheInv, Aimed
<1>14. PurgedGone'
  BY <1>3, <1>7 DEF CacheInv, CacheShape, PurgedGone
<1> QED
  BY <1>8, <1>11, <1>12, <1>13, <1>14 DEF CacheInv

\* The transaction writes what it stores and makes the namespace known for as long; the namespaces
\* that it drops from the set had expired with all they held.
LEMMA CommitKeeps ==
  ASSUME CacheInv, NEW c \in Callers, Commit(c)
  PROVE  CacheInv'
<1> DEFINE e == caller[c].id
           n == entry[e].ns
           t == Owner[n]
<1>1. /\ caller[c].doing = "store" /\ DOMAIN caller = Callers
      /\ e \in DOMAIN entry /\ Unwritten(e) /\ entry[e] \in Rows /\ n \in Namespaces /\ t \in Tenants
  BY CacheAssumption DEF CacheInv, CacheShape, Stores, Commit, Rows
<1>2. TTL \in Nat /\ now \in Nat
  BY CacheAssumption DEF CacheInv, CacheShape
<1>3. /\ entry' = [entry EXCEPT ![e].until = now + TTL]
      /\ owned' = [owned EXCEPT ![t] = [spaces |-> SpacesOf(t) \cup {n}, until |-> now + TTL]]
      /\ raced' = IF Purging THEN raced \cup {e} ELSE raced
      /\ UNCHANGED <<now, purge, voided>>
  BY Zenon DEF Commit
<1>4. \E r : caller' = [caller EXCEPT ![c] = r] /\ r.doing # "store"
  <2>1. \E E : caller' = [caller EXCEPT ![c] = IF E = {} THEN NoWork
                                               ELSE [doing |-> "evict", ids |-> E]]
    BY Zenon DEF Commit
  <2>2. ASSUME NEW E
        PROVE  (IF E = {} THEN NoWork ELSE [doing |-> "evict", ids |-> E]).doing # "store"
    BY DEF NoWork
  <2> QED
    BY <2>1, <2>2, Zenon
<1>5. /\ DOMAIN caller' = Callers
      /\ \A d \in Callers : caller'[d].doing = "store" => d # c /\ caller'[d] = caller[d]
  BY <1>1, <1>4
<1>6. /\ DOMAIN entry' = DOMAIN entry /\ entry'[e] = [entry[e] EXCEPT !.until = now + TTL]
      /\ \A d \in DOMAIN entry : d # e => entry'[d] = entry[d]
  BY <1>1, <1>3
<1>7. entry'[e] \in Rows /\ entry'[e].until = now + TTL /\ entry'[e].ns = n
  BY <1>1, <1>2, <1>6 DEF Rows
<1>8. \A d \in DOMAIN entry : entry'[d].ns = entry[d].ns /\ (d # e => Live(d)' = Live(d))
  BY <1>3, <1>6, <1>7 DEF Live
<1> HIDE DEF e, n, t
<1>9. owned \in [Tenants -> [spaces : SUBSET Namespaces, until : Nat]]
  BY DEF CacheInv, CacheShape
<1>10. /\ owned' \in [Tenants -> [spaces : SUBSET Namespaces, until : Nat]]
       /\ owned'[t].spaces = SpacesOf(t) \cup {n} /\ owned'[t].until = now + TTL
       /\ \A u \in Tenants : u # t => owned'[u] = owned[u]
  <2>1. SpacesOf(t) \cup {n} \in SUBSET Namespaces /\ now + TTL \in Nat
    BY <1>1, <1>2, <1>9 DEF SpacesOf
  <2> QED
    BY <1>1, <1>3, <1>9, <2>1
<1>11. CacheShape'
  <2>1. \A d \in DOMAIN entry' : entry'[d] \in Rows /\ entry'[d].until <= now' + TTL
    BY <1>2, <1>3, <1>6, <1>7 DEF CacheInv, CacheShape
  <2> QED
    BY <1>3, <1>5, <1>6, <1>10, <2>1 DEF CacheInv, CacheShape
<1>12. Stores'
  <2>1. \A d \in Callers : caller'[d].doing = "store" =>
          caller'[d] = caller[d] /\ caller[d].id # e
    BY <1>1, <1>5 DEF CacheInv, Stores, e
  <2>2. Purging' = Purging
    BY <1>3 DEF Purging
  <2>3. \A d \in Callers : caller'[d].doing = "store" =>
          /\ caller'[d].id \in DOMAIN entry' /\ entry'[caller'[d].id].until = 0
          /\ caller'[d].id \notin voided'
          /\ Purging' => caller'[d].id \notin purge'.targets
    BY <1>3, <1>6, <2>1, <2>2 DEF CacheInv, Stores, Unwritten
  <2>4. \A d, b \in Callers : caller'[d].doing = "store" /\ caller'[b].doing = "store"
          /\ caller'[d].id = caller'[b].id => d = b
    BY <2>1 DEF CacheInv, Stores
  <2> QED
    BY <2>3, <2>4 DEF Stores, Unwritten
<1>13. Known'
  <2> SUFFICES ASSUME NEW d \in DOMAIN entry, Live(d)', d \notin raced'
               PROVE  /\ entry'[d].ns \in owned'[Owner[entry'[d].ns]].spaces
                      /\ entry'[d].until <= owned'[Owner[entry'[d].ns]].until
    BY <1>6 DEF Known
  <2>1. CASE d = e
    BY <1>2, <1>7, <1>10, <2>1 DEF t
  <2>2. CASE d # e
    <3> DEFINE u == Owner[entry[d].ns]
    <3>1. entry'[d] = entry[d] /\ Live(d) /\ d \notin raced /\ entry[d] \in Rows /\ u \in Tenants
          /\ entry[d].until <= now + TTL
      BY CacheAssumption, <1>3, <1>6, <1>8, <2>2 DEF CacheInv, CacheShape, Rows
    <3>2. entry[d].ns \in owned[u].spaces /\ entry[d].until <= owned[u].until
      BY <3>1 DEF CacheInv, Known
    <3>3. CASE u = t
      <4>1. now < entry[d].until /\ entry[d].until \in Nat /\ owned[t].until \in Nat
        BY <1>1, <1>9, <3>1 DEF Live, Rows
      <4>2. SpacesOf(t) = owned[t].spaces
        BY <1>2, <3>2, <3>3, <4>1 DEF SpacesOf
      <4> QED
        BY <1>10, <3>1, <3>2, <3>3, <4>2
    <3>4. CASE u # t
      BY <1>10, <3>1, <3>2, <3>4
    <3> QED
      BY <3>3, <3>4
  <2> QED
    BY <2>1, <2>2
<1>14. Aimed'
  <2>1. Purging' = Purging /\ OfTenant' = OfTenant
    BY <1>3 DEF Purging, OfTenant
  <2> SUFFICES ASSUME Purging PROVE Aimed'
    BY <2>1 DEF Aimed
  <2>2. e \in raced' /\ e \notin purge.targets
    BY <1>1, <1>3 DEF Unwritten
  <2>3. ASSUME NEW d \in DOMAIN entry PROVE Ahead(d)' = Ahead(d) /\ InReach(d)' = InReach(d)
    BY Zenon, <1>3, <1>8, <2>1 DEF Ahead, InReach
  <2> QED
    BY <1>3, <1>6, <1>8, <2>2, <2>3 DEF CacheInv, Aimed
<1>15. PurgedGone'
  BY <1>1, <1>3, <1>8 DEF CacheInv, CacheShape, PurgedGone, Unwritten
<1> QED
  BY <1>11, <1>12, <1>13, <1>14, <1>15 DEF CacheInv

LEMMA SettledIs ==
  ASSUME CacheInv, NEW S \in SUBSET Namespaces
  PROVE  /\ Settled(S) \subseteq DOMAIN entry /\ Settled(S) \in SUBSET Nat
         /\ \A e \in Settled(S) : Live(e) /\ entry[e].until # 0
         /\ \A e \in DOMAIN entry : Live(e) /\ entry[e].ns \in S /\ e \notin raced => e \in Settled(S)
         /\ \A e \in Settled(S) : entry[e].ns \in S /\ e \notin raced
<1>1. DOMAIN entry \subseteq Nat /\ now \in Nat
  BY DEF CacheInv, CacheShape
<1>2. \A e : e \in Settled(S) <=>
        e \in DOMAIN entry /\ Live(e) /\ entry[e].ns \in S /\ e \notin raced
  BY DEF Settled, LiveIn
<1>3. \A e \in DOMAIN entry : Live(e) => entry[e].until # 0
  BY <1>1 DEF Live
<1> QED
  BY <1>1, <1>2, <1>3

\* A purge of a tenant begins with all the namespaces in which it may have something.
LEMMA ReadSpacesKeeps ==
  ASSUME CacheInv, NEW t \in Tenants, ReadSpaces(t)
  PROVE  CacheInv'
<1> DEFINE S == {n \in Namespaces : Owner[n] = t}
<1>1. /\ purge' = [doing |-> "scan", tenant |-> t, left |-> SpacesOf(t), batch |-> {},
                   targets |-> Settled(S)]
      /\ UNCHANGED <<now, entry, owned, caller, raced, voided>>
  BY DEF ReadSpaces
<1>2. now \in Nat /\ DOMAIN caller = Callers /\ SpacesOf(t) \in SUBSET Namespaces
  BY DEF CacheInv, CacheShape, SpacesOf
<1>3. /\ Settled(S) \subseteq DOMAIN entry /\ Settled(S) \in SUBSET Nat
      /\ \A e \in Settled(S) : Live(e) /\ entry[e].until # 0 /\ entry[e].ns \in S /\ e \notin raced
      /\ \A e \in DOMAIN entry : Live(e) /\ entry[e].ns \in S /\ e \notin raced => e \in Settled(S)
  BY SettledIs
<1>4. purge' \in Purges
  BY Zenon, <1>1, <1>2, <1>3 DEF Purges
<1>5. ASSUME NEW e \in Settled(S) PROVE entry[e].ns \in SpacesOf(t)
  <2>1. /\ Live(e) /\ e \in DOMAIN entry /\ Owner[entry[e].ns] = t /\ e \notin raced
        /\ entry[e].until \in Nat /\ owned[t].until \in Nat
    BY <1>3 DEF CacheInv, CacheShape, Rows
  <2>2. entry[e].ns \in owned[t].spaces /\ entry[e].until <= owned[t].until
    BY <2>1 DEF CacheInv, Known
  <2> QED
    BY <1>2, <2>1, <2>2 DEF SpacesOf, Live
<1>6. \A e \in DOMAIN entry : Live(e)' = Live(e) /\ entry'[e] = entry[e] /\ entry[e].ns \in Namespaces
  BY <1>1 DEF Live, CacheInv, CacheShape, Rows
<1>7. /\ purge'.targets = Settled(S) /\ purge'.doing = "scan" /\ purge'.left = SpacesOf(t)
      /\ purge'.tenant = t
  BY <1>1
<1>8. Aimed'
  <2>1. ASSUME NEW e \in Settled(S) PROVE Ahead(e)'
    BY <1>3, <1>5, <1>6, <1>7 DEF Ahead
  <2>2. ASSUME NEW e \in DOMAIN entry, Live(e), e \notin raced, InReach(e)'
        PROVE  e \in Settled(S)
    BY <1>3, <1>6, <1>7, <2>2 DEF InReach, OfTenant
  <2> QED
    BY <1>1, <1>3, <1>6, <1>7, <2>1, <2>2 DEF Aimed
<1>9. \A e \in purge'.targets : entry[e].until # 0
  BY <1>3, <1>7
<1> QED
  BY <1>1, <1>2, <1>4, <1>8, <1>9, Fading

LEMMA ScanAllKeeps == CacheInv /\ ScanAll => CacheInv'
<1> SUFFICES ASSUME CacheInv, ScanAll PROVE CacheInv'
  OBVIOUS
<1> DEFINE B == UNION {LiveIn(n) : n \in Namespaces}
<1>1. /\ purge' = [doing |-> "all entries", targets |-> Settled(Namespaces), batch |-> B]
      /\ UNCHANGED <<now, entry, owned, caller, raced, voided>>
  BY Zenon DEF ScanAll
<1>2. now \in Nat /\ DOMAIN caller = Callers /\ B \in SUBSET Nat
  BY DEF CacheInv, CacheShape, LiveIn
<1>3. /\ Settled(Namespaces) \subseteq DOMAIN entry /\ Settled(Namespaces) \in SUBSET Nat
      /\ \A e \in Settled(Namespaces) : Live(e) /\ entry[e].until # 0
      /\ \A e \in DOMAIN entry : Live(e) /\ entry[e].ns \in Namespaces /\ e \notin raced =>
           e \in Settled(Namespaces)
  BY SettledIs
<1>4. purge' \in Purges
  BY Zenon, <1>1, <1>2, <1>3 DEF Purges
<1>5. Settled(Namespaces) \subseteq B
  BY DEF Settled
<1>6. \A e \in DOMAIN entry : Live(e)' = Live(e) /\ entry'[e] = entry[e] /\ entry[e].ns \in Namespaces
  BY Zenon, <1>1 DEF Live, CacheInv, CacheShape, Rows
<1>7. purge'.targets = Settled(Namespaces) /\ purge'.doing = "all entries" /\ purge'.batch = B
  BY Zenon, <1>1
<1> HIDE DEF B
<1>8. Aimed'
  <2>1. ASSUME NEW e \in Settled(Namespaces) PROVE Ahead(e)'
    BY Zenon, <1>5, <1>7 DEF Ahead
  <2> QED
    BY Zenon, <1>1, <1>3, <1>6, <1>7, <2>1 DEF Aimed
<1>9. \A e \in purge'.targets : entry[e].until # 0
  BY Zenon, <1>3, <1>7
<1>10. /\ now' \in Nat /\ now <= now' /\ DOMAIN entry' = DOMAIN entry /\ DOMAIN caller' = Callers
       /\ \A c \in Callers : caller'[c].doing = "store" => caller'[c] = caller[c]
       /\ UNCHANGED <<owned, raced, voided>>
  <2>1. now' = now /\ UNCHANGED <<entry, caller, owned, raced, voided>>
    BY Zenon DEF ScanAll
  <2> QED
    BY <1>2, <2>1
<1>11. \A e \in DOMAIN entry : entry'[e] = entry[e] \/ entry'[e] = [entry[e] EXCEPT !.until = 0]
  BY <1>6
<1>12. Purging' => \A e \in purge'.targets : (Purging /\ e \in purge.targets) \/ entry[e].until # 0
  BY <1>9
<1> QED
  BY <1>4, <1>8, <1>10, <1>11, <1>12, Fading, Zenon

\* What kind of purge runs tells its fields.
LEMMA PurgeShapes ==
  ASSUME CacheInv
  PROVE  /\ NoWork.doing = "idle" /\ (purge.doing # "idle" => Purging)
         /\ purge.doing = "scan" =>
              purge \in [doing : {"scan"}, tenant : Tenants, left : SUBSET Namespaces,
                        batch : {{}}, targets : SUBSET Nat]
         /\ purge.doing \in {"delete", "unlist"} =>
              purge \in [doing : {"delete", "unlist"}, tenant : Tenants, left : SUBSET Namespaces,
                        batch : [ns : Namespaces, ids : SUBSET Nat], targets : SUBSET Nat]
         /\ purge.doing \in {"all entries", "all lists", "all sets"} =>
              purge \in [doing : {"all entries", "all lists", "all sets"}, targets : SUBSET Nat,
                        batch : SUBSET Nat]
<1> DEFINE A == [doing : {"scan"}, tenant : Tenants, left : SUBSET Namespaces, batch : {{}},
                 targets : SUBSET Nat]
           B == [doing : {"delete", "unlist"}, tenant : Tenants, left : SUBSET Namespaces,
                 batch : [ns : Namespaces, ids : SUBSET Nat], targets : SUBSET Nat]
           C == [doing : {"all entries", "all lists", "all sets"}, targets : SUBSET Nat,
                 batch : SUBSET Nat]
<1>1. purge \in {NoWork} \cup A \cup B \cup C
  BY Zenon DEF CacheInv, CacheShape, Purges
<1>2. NoWork.doing = "idle"
  BY DEF NoWork
<1>3. /\ purge \in A => purge.doing = "scan"
      /\ purge \in B => purge.doing \in {"delete", "unlist"}
      /\ purge \in C => purge.doing \in {"all entries", "all lists", "all sets"}
  BY Zenon
<1> HIDE DEF A, B, C
<1>4. /\ purge.doing # "idle" => Purging
      /\ purge.doing = "scan" => purge \in A
      /\ purge.doing \in {"delete", "unlist"} => purge \in B
      /\ purge.doing \in {"all entries", "all lists", "all sets"} => purge \in C
  BY Zenon, <1>1, <1>2, <1>3 DEF Purging
<1> QED
  BY <1>2, <1>4, Zenon DEF A, B, C

\* The namespace that is scanned leaves what is ahead for the batch.
LEMMA ScanKeeps ==
  ASSUME CacheInv, NEW n \in Namespaces, Scan(n)
  PROVE  CacheInv'
<1>1. /\ purge.doing = "scan" /\ Purging /\ purge \in Purges
      /\ purge' = [purge EXCEPT !.doing = "delete", !.left = @ \ {n},
                                !.batch = [ns |-> n, ids |-> LiveIn(n)]]
      /\ UNCHANGED <<now, entry, owned, caller, raced, voided>>
  BY PurgeShapes DEF Scan, CacheInv, CacheShape
<1>2. purge \in [doing : {"scan"}, tenant : Tenants, left : SUBSET Namespaces, batch : {{}},
                 targets : SUBSET Nat]
  BY <1>1, PurgeShapes
<1>3. now \in Nat /\ DOMAIN caller = Callers /\ LiveIn(n) \in SUBSET Nat
  BY DEF CacheInv, CacheShape, LiveIn
<1>4. /\ purge'.doing = "delete" /\ purge'.tenant = purge.tenant /\ purge'.left = purge.left \ {n}
      /\ purge'.batch = [ns |-> n, ids |-> LiveIn(n)] /\ purge'.targets = purge.targets
  BY <1>1, <1>2
<1>5. purge' \in Purges
  <2>1. [ns |-> n, ids |-> LiveIn(n)] \in [ns : Namespaces, ids : SUBSET Nat]
    BY <1>3
  <2>2. purge' \in [doing : {"delete", "unlist"}, tenant : Tenants, left : SUBSET Namespaces,
                    batch : [ns : Namespaces, ids : SUBSET Nat], targets : SUBSET Nat]
    BY <1>1, <1>2, <2>1
  <2> QED
    BY Zenon, <2>2 DEF Purges
<1>6. \A e \in DOMAIN entry : Live(e)' = Live(e) /\ entry'[e] = entry[e]
  BY <1>1 DEF Live
<1>7. Aimed'
  <2>1. OfTenant' = OfTenant
    BY <1>1, <1>4 DEF OfTenant
  <2>2. ASSUME NEW e \in DOMAIN entry, Live(e), Ahead(e) PROVE Ahead(e)'
    BY <1>1, <1>4, <1>6, <2>2 DEF Ahead, LiveIn
  <2>3. \A e \in DOMAIN entry : InReach(e)' = InReach(e)
    BY <1>4, <1>6, <2>1 DEF InReach
  <2> QED
    BY <1>1, <1>4, <1>6, <2>2, <2>3 DEF CacheInv, Aimed
<1> QED
  BY <1>1, <1>3, <1>4, <1>5, <1>7, Fading

\* What is deleted is dead, and nothing else changes: the batch is behind the purge.
LEMMA DeleteBatchKeeps == CacheInv /\ DeleteBatch => CacheInv'
<1> SUFFICES ASSUME CacheInv, DeleteBatch PROVE CacheInv'
  OBVIOUS
<1>1. /\ purge.doing = "delete" /\ Purging
      /\ purge \in [doing : {"delete", "unlist"}, tenant : Tenants, left : SUBSET Namespaces,
                    batch : [ns : Namespaces, ids : SUBSET Nat], targets : SUBSET Nat]
      /\ entry' = Deleted(purge.batch.ids) /\ purge' = [purge EXCEPT !.doing = "unlist"]
  BY PurgeShapes DEF DeleteBatch
<1>2. now' = now /\ UNCHANGED <<caller, owned, raced, voided>>
  BY DEF DeleteBatch
<1>3. /\ purge'.doing = "unlist" /\ purge'.tenant = purge.tenant /\ purge'.left = purge.left
      /\ purge'.targets = purge.targets
  BY <1>1
<1>4. purge' \in Purges
  <2>1. purge' \in [doing : {"delete", "unlist"}, tenant : Tenants, left : SUBSET Namespaces,
                    batch : [ns : Namespaces, ids : SUBSET Nat], targets : SUBSET Nat]
    BY <1>1
  <2> QED
    BY Zenon, <2>1 DEF Purges
<1>5. /\ DOMAIN entry' = DOMAIN entry
      /\ \A e \in DOMAIN entry :
           /\ entry'[e] = entry[e] \/ entry'[e] = [entry[e] EXCEPT !.until = 0]
           /\ e \in purge.batch.ids => entry'[e] = [entry[e] EXCEPT !.until = 0]
  BY <1>1, DeletedFades
<1>6. now \in Nat /\ now' \in Nat /\ now <= now' /\ DOMAIN caller' = Callers
  BY <1>2 DEF CacheInv, CacheShape
<1>7. \A e \in DOMAIN entry : /\ Live(e)' => Live(e) /\ entry'[e] = entry[e]
                              /\ entry'[e].ns = entry[e].ns
  BY <1>5, <1>6, FewerLive
<1>8. ASSUME NEW e \in DOMAIN entry, Live(e)' PROVE e \notin purge.batch.ids
  <2>1. SUFFICES ASSUME e \in purge.batch.ids PROVE FALSE
    OBVIOUS
  <2>2. entry'[e] = [entry[e] EXCEPT !.until = 0] /\ entry[e] \in Rows
    BY <1>5, <2>1 DEF CacheInv, CacheShape
  <2>3. entry'[e].until = 0
    BY <2>2 DEF Rows
  <2> QED
    BY <1>6, <1>8, <2>3 DEF Live
<1>9. Aimed'
  <2>1. OfTenant' = OfTenant
    BY <1>1, <1>3 DEF OfTenant
  <2>2. ASSUME NEW e \in DOMAIN entry, Live(e)', Ahead(e) PROVE Ahead(e)'
    BY <1>1, <1>3, <1>7, <1>8, <2>2 DEF Ahead
  <2>3. \A e \in DOMAIN entry : InReach(e)' = InReach(e)
    BY <1>3, <1>7, <2>1 DEF InReach
  <2> QED
    BY <1>1, <1>2, <1>3, <1>5, <1>7, <2>2, <2>3 DEF CacheInv, Aimed
<1> QED
  BY <1>1, <1>2, <1>3, <1>4, <1>5, <1>6, <1>9, Fading

LEMMA DeleteAllKeeps == CacheInv /\ DeleteAll => CacheInv'
<1> SUFFICES ASSUME CacheInv, DeleteAll PROVE CacheInv'
  OBVIOUS
<1>1. /\ purge.doing = "all entries" /\ Purging
      /\ purge \in [doing : {"all entries", "all lists", "all sets"}, targets : SUBSET Nat,
                    batch : SUBSET Nat]
      /\ entry' = Deleted(purge.batch) /\ purge' = [purge EXCEPT !.doing = "all lists"]
  BY Zenon, PurgeShapes DEF DeleteAll
<1>2. now' = now /\ UNCHANGED <<caller, owned, raced, voided>>
  BY Zenon DEF DeleteAll
<1>3. purge'.doing = "all lists" /\ purge'.targets = purge.targets
  BY Zenon, <1>1
<1>4. purge' \in Purges
  <2>1. purge' \in [doing : {"all entries", "all lists", "all sets"}, targets : SUBSET Nat,
                    batch : SUBSET Nat]
    BY Zenon, <1>1
  <2> QED
    BY Zenon, <2>1 DEF Purges
<1>5. /\ DOMAIN entry' = DOMAIN entry
      /\ \A e \in DOMAIN entry :
           /\ entry'[e] = entry[e] \/ entry'[e] = [entry[e] EXCEPT !.until = 0]
           /\ e \in purge.batch => entry'[e] = [entry[e] EXCEPT !.until = 0]
  BY Zenon, <1>1, DeletedFades
<1>6. now \in Nat /\ now' \in Nat /\ now <= now' /\ DOMAIN caller' = Callers
  BY <1>2 DEF CacheInv, CacheShape
<1>7. \A e \in DOMAIN entry : Live(e)' => Live(e) /\ entry'[e] = entry[e]
  BY <1>5, <1>6, FewerLive
<1>8. ASSUME NEW e \in DOMAIN entry, Live(e)' PROVE ~Ahead(e)
  <2>1. SUFFICES ASSUME e \in purge.batch PROVE FALSE
    BY Zenon, <1>1 DEF Ahead
  <2>2. entry'[e] = [entry[e] EXCEPT !.until = 0] /\ entry[e] \in Rows
    BY <1>5, <2>1 DEF CacheInv, CacheShape
  <2>3. entry'[e].until = 0
    BY <2>2 DEF Rows
  <2> QED
    BY <1>6, <1>8, <2>3 DEF Live
<1>9. Aimed'
  <2>1. \A e \in DOMAIN entry : InReach(e)
    BY Zenon, <1>1 DEF InReach, OfTenant
  <2> QED
    BY Zenon, <1>1, <1>2, <1>3, <1>5, <1>7, <1>8, <2>1 DEF CacheInv, Aimed
<1> QED
  BY Zenon, <1>1, <1>2, <1>3, <1>4, <1>5, <1>6, <1>9, Fading

\* The lists are no part of what a purge promises.
LEMMA UnlistKeeps == CacheInv /\ (Unlist \/ UnlistAll) => CacheInv'
<1> SUFFICES ASSUME CacheInv, Unlist \/ UnlistAll PROVE CacheInv'
  OBVIOUS
<1>1. /\ now' = now /\ UNCHANGED <<entry, caller, owned, raced, voided>>
      /\ now \in Nat /\ DOMAIN caller = Callers
  BY Zenon DEF Unlist, UnlistAll, CacheInv, CacheShape
<1>2. \A e \in DOMAIN entry : Live(e)' = Live(e)
  BY <1>1 DEF Live
<1>3. CASE Unlist
  <2>1. /\ purge.doing = "unlist" /\ Purging
        /\ purge \in [doing : {"delete", "unlist"}, tenant : Tenants, left : SUBSET Namespaces,
                      batch : [ns : Namespaces, ids : SUBSET Nat], targets : SUBSET Nat]
        /\ purge' = [purge EXCEPT !.doing = "scan", !.batch = {}]
    BY <1>3, PurgeShapes DEF Unlist
  <2>2. /\ purge'.doing = "scan" /\ purge'.tenant = purge.tenant /\ purge'.left = purge.left
        /\ purge'.targets = purge.targets
    BY <2>1
  <2>3. purge' \in Purges
    <3>1. purge' \in [doing : {"scan"}, tenant : Tenants, left : SUBSET Namespaces, batch : {{}},
                      targets : SUBSET Nat]
      BY <2>1
    <3> QED
      BY Zenon, <3>1 DEF Purges
  <2>4. OfTenant' = OfTenant
    BY <2>1, <2>2 DEF OfTenant
  <2>5. \A e \in DOMAIN entry : Ahead(e)' = Ahead(e) /\ InReach(e)' = InReach(e)
    BY <1>1, <2>1, <2>2, <2>4 DEF Ahead, InReach
  <2>6. Aimed'
    BY <1>1, <1>2, <2>1, <2>2, <2>5 DEF CacheInv, Aimed
  <2> QED
    BY <1>1, <2>1, <2>2, <2>3, <2>6, Fading
<1>4. CASE UnlistAll
  <2>1. /\ purge.doing = "all lists" /\ Purging
        /\ purge \in [doing : {"all entries", "all lists", "all sets"}, targets : SUBSET Nat,
                      batch : SUBSET Nat]
        /\ purge' = [purge EXCEPT !.doing = "all sets"]
    BY Zenon, <1>4, PurgeShapes DEF UnlistAll
  <2>2. purge'.doing = "all sets" /\ purge'.targets = purge.targets
    BY Zenon, <2>1
  <2>3. purge' \in Purges
    <3>1. purge' \in [doing : {"all entries", "all lists", "all sets"}, targets : SUBSET Nat,
                      batch : SUBSET Nat]
      BY Zenon, <2>1
    <3> QED
      BY Zenon, <3>1 DEF Purges
  <2>4. \A e \in DOMAIN entry : ~Ahead(e) /\ InReach(e)
    BY Zenon, <2>1 DEF Ahead, InReach, OfTenant
  <2>5. Aimed'
    BY Zenon, <1>1, <1>2, <2>1, <2>2, <2>4 DEF CacheInv, Aimed
  <2>6. /\ now' \in Nat /\ now <= now' /\ DOMAIN entry' = DOMAIN entry /\ DOMAIN caller' = Callers
        /\ \A c \in Callers : caller'[c].doing = "store" => caller'[c] = caller[c]
        /\ \A e \in DOMAIN entry :
             entry'[e] = entry[e] \/ entry'[e] = [entry[e] EXCEPT !.until = 0]
        /\ UNCHANGED <<owned, raced, voided>>
    BY <1>1
  <2>7. \A e \in purge'.targets : Purging /\ e \in purge.targets
    BY Zenon, <2>1, <2>2
  <2> QED
    BY <2>3, <2>5, <2>6, <2>7, Fading, Zenon
<1> QED
  BY <1>3, <1>4

\* A purge that returns has nothing ahead of it: what it was to delete is dead, and what is left in
\* its reach was stored while a purge ran, so that the namespaces can be forgotten.
LEMMA ForgetKeeps ==
  ASSUME CacheInv, Purging, \A e \in DOMAIN entry : ~Ahead(e),
         now' = now, UNCHANGED <<entry, caller, raced>>,
         purge' = NoWork, voided' = voided \cup purge.targets,
         owned' \in [Tenants -> [spaces : SUBSET Namespaces, until : Nat]],
         \A e \in DOMAIN entry : InReach(e) \/ owned'[Owner[entry[e].ns]] = owned[Owner[entry[e].ns]]
  PROVE  CacheInv'
<1>1. purge.targets \subseteq DOMAIN entry /\ \A e \in purge.targets : ~Live(e)
  BY DEF CacheInv, Aimed
<1>2. \A e \in DOMAIN entry : Live(e)' = Live(e)
  BY DEF Live
<1>3. ~Purging' /\ Aimed' /\ purge' \in Purges
  BY DEF Purging, Aimed, Purges
<1>4. CacheShape'
  BY <1>1, <1>3 DEF CacheInv, CacheShape
<1>5. Stores'
  BY <1>3 DEF CacheInv, Stores, Unwritten
<1>6. Known'
  <2> SUFFICES ASSUME NEW e \in DOMAIN entry, Live(e), e \notin raced
               PROVE  /\ entry[e].ns \in owned'[Owner[entry[e].ns]].spaces
                      /\ entry[e].until <= owned'[Owner[entry[e].ns]].until
    BY <1>2 DEF Known
  <2>1. ~InReach(e)
    BY <1>1 DEF CacheInv, Aimed
  <2> QED
    BY <2>1 DEF CacheInv, Known
<1>7. PurgedGone'
  BY <1>1, <1>2 DEF CacheInv, CacheShape, PurgedGone
<1> QED
  BY <1>3, <1>4, <1>5, <1>6, <1>7 DEF CacheInv

LEMMA ForgetSpacesKeeps == CacheInv /\ ForgetSpaces => CacheInv'
<1> SUFFICES ASSUME CacheInv, ForgetSpaces PROVE CacheInv'
  OBVIOUS
<1>1. /\ purge.doing = "scan" /\ purge.left = {} /\ Purging /\ purge.tenant \in Tenants
      /\ owned' = [owned EXCEPT ![purge.tenant].until = 0]
  BY PurgeShapes DEF ForgetSpaces
<1>2. /\ now' = now /\ UNCHANGED <<entry, caller, raced>> /\ purge' = NoWork
      /\ voided' = voided \cup purge.targets
  BY DEF ForgetSpaces
<1>3. \A e \in DOMAIN entry : ~Ahead(e)
  BY <1>1 DEF Ahead
<1>4. owned \in [Tenants -> [spaces : SUBSET Namespaces, until : Nat]]
  BY DEF CacheInv, CacheShape
<1>5. /\ owned' \in [Tenants -> [spaces : SUBSET Namespaces, until : Nat]]
      /\ \A t \in Tenants : t # purge.tenant => owned'[t] = owned[t]
  <2>1. [owned[purge.tenant] EXCEPT !.until = 0] \in [spaces : SUBSET Namespaces, until : Nat]
    BY <1>1, <1>4
  <2> QED
    BY <1>1, <1>4, <2>1
<1>6. \A e \in DOMAIN entry : Owner[entry[e].ns] \in Tenants
  BY CacheAssumption DEF CacheInv, CacheShape, Rows
<1>7. \A e \in DOMAIN entry : InReach(e) \/ owned'[Owner[entry[e].ns]] = owned[Owner[entry[e].ns]]
  BY <1>5, <1>6 DEF InReach
<1> QED
  BY <1>1, <1>2, <1>3, <1>5, <1>7, ForgetKeeps

LEMMA ForgetAllKeeps == CacheInv /\ ForgetAll => CacheInv'
<1> SUFFICES ASSUME CacheInv, ForgetAll PROVE CacheInv'
  OBVIOUS
<1>1. /\ purge.doing = "all sets" /\ Purging
      /\ owned' = [t \in Tenants |-> [spaces |-> {}, until |-> 0]]
  BY Zenon, PurgeShapes DEF ForgetAll
<1>2. /\ now' = now /\ UNCHANGED <<entry, caller, raced>> /\ purge' = NoWork
      /\ voided' = voided \cup purge.targets
  BY Zenon DEF ForgetAll
<1>3. \A e \in DOMAIN entry : ~Ahead(e) /\ InReach(e)
  BY Zenon, <1>1 DEF Ahead, InReach, OfTenant
<1>4. owned' \in [Tenants -> [spaces : SUBSET Namespaces, until : Nat]]
  BY Zenon, <1>1
<1> QED
  BY Zenon, <1>1, <1>2, <1>3, <1>4, ForgetKeeps

LEMMA PurgeCrashKeeps == CacheInv /\ PurgeCrash => CacheInv'
<1> SUFFICES ASSUME CacheInv, PurgeCrash PROVE CacheInv'
  OBVIOUS
<1>1. /\ UNCHANGED <<now, entry, owned, caller, raced, voided>> /\ purge' = NoWork
      /\ now \in Nat /\ DOMAIN caller = Callers
  BY DEF PurgeCrash, CacheInv, CacheShape
<1> QED
  BY <1>1, Aside

LEMMA CacheSteps == CacheInv /\ [CacheNext]_cacheVars => CacheInv'
<1> SUFFICES ASSUME CacheInv, [CacheNext]_cacheVars PROVE CacheInv'
  OBVIOUS
<1>1. CASE Tick
  BY <1>1, TimePasses
<1>2. CASE \E c \in Callers :
             \/ \E n \in Namespaces : Stamp(c, n) \/ ListIds(c, n) \/ Nearest(c, n)
             \/ Commit(c) \/ Evict(c) \/ Compare(c) \/ Tidy(c) \/ Fetch(c) \/ Crash(c)
  <2>1. PICK c \in Callers :
             \/ \E n \in Namespaces : Stamp(c, n) \/ ListIds(c, n) \/ Nearest(c, n)
             \/ Commit(c) \/ Evict(c) \/ Compare(c) \/ Tidy(c) \/ Fetch(c) \/ Crash(c)
    BY <1>2
  <2>2. CASE \E n \in Namespaces : Stamp(c, n)
    BY <2>2, StampKeeps
  <2>3. CASE Commit(c)
    BY <2>3, CommitKeeps
  <2>4. CASE \/ \E n \in Namespaces : ListIds(c, n) \/ Nearest(c, n)
             \/ Evict(c) \/ Compare(c) \/ Tidy(c) \/ Fetch(c) \/ Crash(c)
    BY <2>4, CallersAside, Zenon
  <2> QED
    BY <2>1, <2>2, <2>3, <2>4, Zenon
<1>3. CASE \E t \in Tenants : ReadSpaces(t)
  BY <1>3, ReadSpacesKeeps
<1>4. CASE \E n \in Namespaces : Scan(n)
  BY <1>4, ScanKeeps
<1>5. CASE DeleteBatch \/ DeleteAll \/ Unlist \/ UnlistAll
  BY <1>5, DeleteBatchKeeps, DeleteAllKeeps, UnlistKeeps
<1>6. CASE ForgetSpaces \/ ForgetAll \/ ScanAll \/ PurgeCrash
  BY <1>6, ForgetSpacesKeeps, ForgetAllKeeps, ScanAllKeeps, PurgeCrashKeeps
<1>7. CASE UNCHANGED cacheVars
  <2>1. /\ UNCHANGED <<now, entry, owned, caller, purge, raced, voided>>
        /\ now \in Nat /\ DOMAIN caller = Callers
    BY <1>7 DEF cacheVars, CacheInv, CacheShape
  <2> QED
    BY <2>1, Aside
<1> QED
  BY <1>1, <1>2, <1>3, <1>4, <1>5, <1>6, <1>7, Zenon DEF CacheNext

\* A purge that returns has left nothing to be served of what was stored before it began, whatever
\* the other callers do and wherever earlier purges died: for any tenants, namespaces, callers, cap
\* and TTL (purge_tenant, semantic_cache.py:253-260, purge_all, :262-266).
THEOREM PurgedStaysGone == CacheSpec => []PurgedGone
<1>1. CacheInv => PurgedGone
  BY DEF CacheInv
<1> QED
  BY <1>1, CacheInitially, CacheSteps, PTL DEF CacheSpec

(***************************************************************************)
(* The lists                                                               *)
(***************************************************************************)

Pending(e) == \E c \in Callers : caller[c].doing = "store" /\ caller[c].id = e
Evicting(e) == \E c \in Callers : caller[c].doing = "evict" /\ e \in caller[c].ids

\* What a caller holds: ids of one namespace, none of which is still to be written, and what it
\* found dead stays dead.
Holds(w) ==
  /\ w.doing = "evict" => w.ids \subseteq DOMAIN entry
  /\ w.doing \in {"compare", "tidy"} =>
       w.ns \in Namespaces /\ w.ids \subseteq DOMAIN entry /\ \A e \in w.ids : ~Pending(e)
  /\ w.doing = "tidy" => \A e \in w.ids : ~Live(e)

Listings ==
  /\ listed \in [Namespaces -> SUBSET DOMAIN entry]
  /\ \A n \in Namespaces : \A e \in listed[n] : entry[e].ns = n /\ ~Pending(e)
  /\ \A n \in Namespaces : Cardinality(listed[n]) <= MAX_ENTRIES
Bounds ==
  /\ now \in 0..MAX_TIME
  /\ DOMAIN entry \subseteq Ids
  /\ \A e \in DOMAIN entry : entry[e].created <= now
  /\ \A t \in Tenants : \A n \in owned[t].spaces : Owner[n] = t
  /\ stranded \cup raced \subseteq DOMAIN entry

\* The namespace whose list a purge is about to delete is its tenant's, and no longer ahead of it.
Behind ==
  /\ OfTenant => \A n \in purge.left : Owner[n] = purge.tenant
  /\ purge.doing \in {"delete", "unlist"} =>
       purge.batch.ns \notin purge.left /\ Owner[purge.batch.ns] = purge.tenant

\* Why an entry that can be served is not one too many.
Accounted(e) ==
  \/ e \in listed[entry[e].ns]
  \/ Evicting(e)
  \/ now >= entry[e].created + TTL
  \/ e \in stranded \cup raced

ListInv ==
  /\ Bounds /\ Listings /\ Behind
  /\ \A c \in Callers : Holds(caller[c])
  /\ \A e \in DOMAIN entry : Live(e) => Accounted(e)

\* Of a set of ids, at most n are among its newest n.
LEMMA FewNewest ==
  ASSUME NEW E, IsFiniteSet(E), E \subseteq Nat, NEW n \in Nat
  PROVE  Newest(E, n) \subseteq E /\ Cardinality(Newest(E, n)) <= n
<1> DEFINE More(e) == {f \in E : f > e}
           N == Newest(E, n)
           rank == [e \in N |-> Cardinality(More(e))]
<1>1. N \subseteq E /\ IsFiniteSet(N) /\ \A e \in N : Cardinality(More(e)) < n
  BY FS_Subset DEF Newest
<1>2. \A e \in E : IsFiniteSet(More(e)) /\ Cardinality(More(e)) \in Nat
  BY FS_Subset, FS_CardinalityType
<1>3. ASSUME NEW e \in E, NEW f \in E, e < f
      PROVE  Cardinality(More(f)) < Cardinality(More(e))
  <2>1. More(f) \subseteq More(e) /\ f \in More(e) /\ f \notin More(f)
    <3>1. e \in Nat /\ f \in Nat /\ \A g \in E : g \in Nat
      OBVIOUS
    <3>2. \A g \in E : g > f => g > e
      BY <1>3, <3>1
    <3>3. f > e /\ ~(f > f)
      BY <1>3, <3>1
    <3> QED
      BY <3>2, <3>3
  <2>2. More(f) # More(e)
    BY <2>1
  <2> HIDE DEF More
  <2> QED
    BY <1>2, <2>1, <2>2, FS_Subset
<1> HIDE DEF More, N
<1>4. rank \in [N -> 0..(n - 1)]
  <2>1. ASSUME NEW e \in N PROVE Cardinality(More(e)) \in 0..(n - 1)
    <3>1. Cardinality(More(e)) \in Nat /\ Cardinality(More(e)) < n
      BY <1>1, <1>2
    <3> QED
      BY <3>1
  <2> QED
    BY <2>1
<1>5. \A e, f \in N : rank[e] = rank[f] => e = f
  <2> SUFFICES ASSUME NEW e \in N, NEW f \in N, e # f PROVE rank[e] # rank[f]
    OBVIOUS
  <2>1. rank[e] = Cardinality(More(e)) /\ rank[f] = Cardinality(More(f))
    OBVIOUS
  <2>2. e \in Nat /\ f \in Nat /\ e \in E /\ f \in E
    BY <1>1
  <2>3. Cardinality(More(e)) \in Nat /\ Cardinality(More(f)) \in Nat
    BY <1>2, <2>2
  <2>4. e < f \/ f < e
    BY <2>2
  <2>5. Cardinality(More(e)) < Cardinality(More(f)) \/ Cardinality(More(f)) < Cardinality(More(e))
    BY <1>3, <2>2, <2>4
  <2> QED
    BY <2>1, <2>3, <2>5
<1>6. rank \in Injection(N, 0..(n - 1))
  BY <1>4, <1>5 DEF Injection, IsInjective
<1>7. IsFiniteSet(0..(n - 1)) /\ Cardinality(0..(n - 1)) = n
  BY FS_Interval
<1>8. Cardinality(N) <= n
  BY <1>6, <1>7, FS_Injection
<1> QED
  BY <1>1, <1>8 DEF N

LEMMA EntriesFinite == CacheInv => IsFiniteSet(DOMAIN entry) /\ DOMAIN entry \subseteq Nat
<1> SUFFICES ASSUME CacheInv PROVE IsFiniteSet(DOMAIN entry) /\ DOMAIN entry \subseteq Nat
  OBVIOUS
<1>1. PICK k \in Nat : DOMAIN entry = 1..k
  BY DEF CacheInv, CacheShape
<1> QED
  BY <1>1, FS_Interval

\* A step that stores nothing: time passes, entries are deleted, ids leave the lists, and one caller
\* goes on to something that it may hold.
LEMMA ListsFade ==
  ASSUME CacheInv, ListInv, now' \in 0..MAX_TIME, now <= now', DOMAIN entry' = DOMAIN entry,
         \A e \in DOMAIN entry : entry'[e] = entry[e] \/ entry'[e] = [entry[e] EXCEPT !.until = 0],
         listed' \in [Namespaces -> SUBSET DOMAIN entry],
         \A n \in Namespaces : listed'[n] \subseteq listed[n],
         raced' = raced, stranded \subseteq stranded', stranded' \subseteq DOMAIN entry,
         \A t \in Tenants : \A n \in owned'[t].spaces : n \in owned[t].spaces,
         \A c \in Callers : caller'[c] = caller[c] \/ (caller'[c].doing # "store" /\ Holds(caller'[c])),
         Behind',
         \A e \in DOMAIN entry : Live(e)' /\ Accounted(e) => Accounted(e)'
  PROVE  ListInv'
<1>1. now \in Nat /\ now' \in Nat
  BY CacheAssumption DEF CacheInv, CacheShape
<1>2. /\ \A e \in DOMAIN entry : Live(e)' => Live(e) /\ entry'[e] = entry[e]
      /\ \A e \in DOMAIN entry : entry'[e].ns = entry[e].ns /\ entry'[e] \in Rows
  BY <1>1, FewerLive
<1>3. \A e : Pending(e)' => Pending(e)
  BY DEF Pending
<1>4. \A e \in DOMAIN entry : entry'[e].created <= now'
  <2> SUFFICES ASSUME NEW e \in DOMAIN entry PROVE entry'[e].created <= now'
    OBVIOUS
  <2>1. entry[e] \in Rows /\ entry[e].created <= now /\ entry'[e].created = entry[e].created
    BY DEF CacheInv, CacheShape, ListInv, Bounds, Rows
  <2>2. entry[e].created \in Nat
    BY <2>1 DEF Rows
  <2> QED
    BY <1>1, <2>1, <2>2
<1>5. Bounds'
  BY <1>4 DEF ListInv, Bounds
<1>6. Listings'
  <2>1. \A n \in Namespaces : IsFiniteSet(listed[n]) /\ Cardinality(listed[n]) <= MAX_ENTRIES
    <3>1. IsFiniteSet(DOMAIN entry)
      BY EntriesFinite
    <3> QED
      BY <3>1, FS_Subset DEF ListInv, Listings
  <2>2. \A n \in Namespaces : Cardinality(listed'[n]) <= MAX_ENTRIES
    <3> SUFFICES ASSUME NEW n \in Namespaces PROVE Cardinality(listed'[n]) <= MAX_ENTRIES
      OBVIOUS
    <3>1. IsFiniteSet(listed'[n]) /\ Cardinality(listed'[n]) <= Cardinality(listed[n])
      BY <2>1, FS_Subset
    <3>2. Cardinality(listed'[n]) \in Nat /\ Cardinality(listed[n]) \in Nat /\ MAX_ENTRIES \in Nat
      BY <2>1, <3>1, FS_CardinalityType, CacheAssumption
    <3> QED
      BY <2>1, <3>1, <3>2
  <2>4. \A n \in Namespaces : \A e \in listed'[n] : entry'[e].ns = n /\ ~Pending(e)'
    BY <1>2, <1>3 DEF ListInv, Listings
  <2> QED
    BY <2>2, <2>4 DEF Listings
<1>7. ASSUME NEW c \in Callers PROVE Holds(caller[c])'
  <2>1. Holds(caller'[c])
    BY DEF ListInv
  <2> QED
    BY <1>2, <1>3, <2>1 DEF Holds
<1>8. \A e \in DOMAIN entry' : Live(e)' => Accounted(e)'
  BY <1>2 DEF ListInv
<1> QED
  BY <1>5, <1>6, <1>7, <1>8 DEF ListInv

LEMMA ListsInitially == CacheInit => ListInv
<1> SUFFICES ASSUME CacheInit PROVE ListInv
  OBVIOUS
<1>1. /\ now = 0 /\ entry = <<>> /\ purge = NoWork /\ stranded = {} /\ raced = {}
      /\ owned = [t \in Tenants |-> [spaces |-> {}, until |-> 0]]
      /\ listed = [n \in Namespaces |-> {}]
      /\ caller = [c \in Callers |-> NoWork]
  BY DEF CacheInit
<1>2. DOMAIN entry = {}
  BY <1>1
<1>3. MAX_TIME \in Nat /\ MAX_ENTRIES \in Nat
  BY CacheAssumption
<1>4. Bounds
  BY <1>1, <1>2, <1>3 DEF Bounds
<1>5. Listings
  BY <1>1, <1>3, FS_EmptySet DEF Listings
<1>6. NoWork.doing = "idle"
  BY DEF NoWork
<1>7. Behind
  BY <1>1, <1>6 DEF Behind, OfTenant
<1>8. \A c \in Callers : Holds(caller[c])
  BY <1>1, <1>6 DEF Holds
<1> QED
  BY <1>2, <1>4, <1>5, <1>7, <1>8 DEF ListInv

\* What a caller may have: whoever is not evicting it keeps it accounted for if nobody else loses it.
LEMMA StaysAccounted ==
  ASSUME now \in Nat, now' \in Nat, now <= now',
         NEW e \in DOMAIN entry, entry[e] \in Rows, entry'[e] = entry[e], Accounted(e),
         e \in listed[entry[e].ns] => e \in listed'[entry[e].ns],
         raced \subseteq raced', stranded \subseteq stranded',
         \A c \in Callers : caller[c].doing = "evict" /\ e \in caller[c].ids =>
           caller'[c] = caller[c] \/ e \in stranded'
  PROVE  Accounted(e)'
<1>1. CASE e \in listed[entry[e].ns]
  BY <1>1 DEF Accounted
<1>2. CASE Evicting(e)
  BY <1>2 DEF Accounted, Evicting
<1>3. CASE now >= entry[e].created + TTL
  <2>1. entry[e].created \in Nat /\ TTL \in Nat
    BY CacheAssumption DEF Rows
  <2>2. now' >= entry'[e].created + TTL
    BY <1>3, <2>1
  <2> QED
    BY <2>2 DEF Accounted
<1>4. CASE e \in stranded \cup raced
  BY <1>4 DEF Accounted
<1> QED
  BY <1>1, <1>2, <1>3, <1>4 DEF Accounted

\* Steps that touch neither what is stored nor what is listed.
LEMMA ListsAside ==
  ASSUME CacheInv, ListInv, now' \in 0..MAX_TIME, now <= now',
         UNCHANGED <<entry, listed, stranded, raced>>,
         \A t \in Tenants : \A n \in owned'[t].spaces : n \in owned[t].spaces,
         \A c \in Callers : caller'[c] = caller[c] \/
           (caller[c].doing # "evict" /\ caller'[c].doing # "store" /\ Holds(caller'[c])),
         Behind'
  PROVE  ListInv'
<1>1. now \in Nat /\ now' \in Nat
  BY CacheAssumption DEF CacheInv, CacheShape
<1>2. ASSUME NEW e \in DOMAIN entry, Accounted(e) PROVE Accounted(e)'
  <2>1. entry[e] \in Rows
    BY DEF CacheInv, CacheShape
  <2> QED
    BY <1>1, <1>2, <2>1, StaysAccounted
<1>3. listed' \in [Namespaces -> SUBSET DOMAIN entry] /\ stranded' \subseteq DOMAIN entry
  BY DEF ListInv, Listings, Bounds
<1>4. \A c \in Callers : caller'[c] = caller[c] \/ (caller'[c].doing # "store" /\ Holds(caller'[c]))
  OBVIOUS
<1> QED
  BY <1>2, <1>3, <1>4, ListsFade

LEMMA TickLists == CacheInv /\ ListInv /\ Tick => ListInv'
<1> SUFFICES ASSUME CacheInv, ListInv, Tick PROVE ListInv'
  OBVIOUS
<1>1. /\ now \in Nat /\ MAX_TIME \in Nat /\ now < MAX_TIME /\ now' = now + 1
      /\ UNCHANGED <<entry, listed, owned, caller, purge, stranded, raced>>
  BY CacheAssumption DEF CacheInv, CacheShape, Tick
<1>2. now' \in 0..MAX_TIME /\ now <= now'
  BY <1>1
<1>3. Behind'
  BY <1>1 DEF ListInv, Behind, OfTenant
<1> QED
  BY <1>1, <1>2, <1>3, ListsAside

\* A lookup: what it reads of a list is written, and what it finds dead stays dead.
LEMMA LookupLists ==
  ASSUME CacheInv, ListInv, NEW c \in Callers,
         \/ \E n \in Namespaces : ListIds(c, n) \/ Nearest(c, n)
         \/ Compare(c) \/ Fetch(c)
  PROVE  ListInv'
<1>1. /\ now \in Nat /\ now \in 0..MAX_TIME /\ DOMAIN caller = Callers
      /\ UNCHANGED <<now, entry, listed, owned, purge, stranded, raced>>
  BY DEF CacheInv, CacheShape, ListInv, Bounds, ListIds, Nearest, Compare, Fetch
<1>2. NoWork.doing = "idle"
  BY DEF NoWork
<1>3. Holds(NoWork)
  BY <1>2 DEF Holds
<1>4. ASSUME NEW E, NEW a \in Above(c, E) PROVE a.doing \in {"idle", "fetch"} /\ Holds(a)
  BY <1>2, <1>4 DEF Above, Holds
<1>5. caller[c].doing # "evict" /\ \E r : caller' = [caller EXCEPT ![c] = r] /\ r.doing # "store" /\ Holds(r)
  <2>1. CASE \E n \in Namespaces : ListIds(c, n)
    <3>1. PICK n \in Namespaces : ListIds(c, n)
      BY <2>1
    <3> DEFINE r == [doing |-> "compare", ns |-> n, ids |-> listed[n]]
    <3>2. caller' = [caller EXCEPT ![c] = r] /\ caller[c] = NoWork
      BY <3>1 DEF ListIds
    <3>3. r.doing = "compare" /\ r.ns = n /\ r.ids = listed[n]
      OBVIOUS
    <3> HIDE DEF r
    <3>4. Holds(r)
      BY <3>3 DEF Holds, ListInv, Listings
    <3> QED
      BY <1>2, <3>2, <3>3, <3>4
  <2>2. CASE \E n \in Namespaces : Nearest(c, n)
    <3>1. PICK n \in Namespaces : Nearest(c, n)
      BY <2>2
    <3>2. PICK e \in LiveIn(n) : caller' = [caller EXCEPT ![c] = [doing |-> "fetch", id |-> e]]
      BY <3>1 DEF Nearest
    <3>3. caller[c] = NoWork
      BY <3>1 DEF Nearest
    <3>4. [doing |-> "fetch", id |-> e].doing = "fetch" /\ Holds([doing |-> "fetch", id |-> e])
      BY DEF Holds
    <3> QED
      BY <1>2, <3>2, <3>3, <3>4
  <2>3. CASE Fetch(c)
    BY <1>2, <1>3, <2>3 DEF Fetch
  <2>4. CASE Compare(c)
    <3> DEFINE live == {e \in caller[c].ids : Live(e)}
               dead == caller[c].ids \ live
               r == [doing |-> "tidy", ns |-> caller[c].ns, ids |-> dead, live |-> live]
    <3>1. caller[c].doing = "compare" /\ Holds(caller[c])
      BY <2>4 DEF Compare, ListInv
    <3>2. \/ \E a \in Above(c, live) : caller' = [caller EXCEPT ![c] = a]
          \/ caller' = [caller EXCEPT ![c] = r]
      BY <2>4 DEF Compare
    <3>3. r.doing = "tidy" /\ r.ns = caller[c].ns /\ r.ids = dead
      OBVIOUS
    <3>4. dead \subseteq caller[c].ids /\ \A e \in dead : ~Live(e)
      OBVIOUS
    <3> HIDE DEF r, live, dead
    <3>5. Holds(r)
      BY <3>1, <3>3, <3>4 DEF Holds
    <3> QED
      BY <1>4, <3>1, <3>2, <3>3, <3>5
  <2> QED
    BY <2>1, <2>2, <2>3, <2>4
<1>6. \A d \in Callers : caller'[d] = caller[d] \/
        (caller[d].doing # "evict" /\ caller'[d].doing # "store" /\ Holds(caller'[d]))
  BY <1>1, <1>5
<1>7. Behind'
  BY <1>1 DEF ListInv, Behind, OfTenant
<1> QED
  BY <1>1, <1>6, <1>7, ListsAside

\* A lookup takes ids off the list that can no longer be served.
LEMMA TidyLists ==
  ASSUME CacheInv, ListInv, NEW c \in Callers, Tidy(c)
  PROVE  ListInv'
<1>1. /\ now \in Nat /\ now \in 0..MAX_TIME /\ DOMAIN caller = Callers
      /\ UNCHANGED <<now, entry, owned, purge, stranded, raced>>
      /\ listed \in [Namespaces -> SUBSET DOMAIN entry] /\ stranded \subseteq DOMAIN entry
  BY DEF CacheInv, CacheShape, ListInv, Bounds, Listings, Tidy
<1>2. /\ caller[c].doing = "tidy" /\ Holds(caller[c])
      /\ listed' = [listed EXCEPT ![caller[c].ns] = @ \ caller[c].ids]
      /\ \E a \in Above(c, caller[c].live) : caller' = [caller EXCEPT ![c] = a]
  BY DEF Tidy, ListInv
<1>3. caller[c].ns \in Namespaces /\ \A e \in caller[c].ids : ~Live(e)
  BY <1>2 DEF Holds
<1>4. ASSUME NEW E, NEW a \in Above(c, E) PROVE a.doing \in {"idle", "fetch"} /\ Holds(a)
  BY <1>4 DEF Above, Holds, NoWork
<1>5. \A d \in Callers : caller'[d] = caller[d] \/
        (caller[d].doing # "evict" /\ caller'[d].doing # "store" /\ Holds(caller'[d]))
  BY <1>1, <1>2, <1>4
<1>6. listed' \in [Namespaces -> SUBSET DOMAIN entry] /\ \A n \in Namespaces : listed'[n] \subseteq listed[n]
  BY <1>1, <1>2, <1>3
<1>7. Behind'
  BY <1>1 DEF ListInv, Behind, OfTenant
<1>8. ASSUME NEW e \in DOMAIN entry, Live(e)', Accounted(e) PROVE Accounted(e)'
  <2>1. Live(e) /\ entry[e] \in Rows
    BY <1>1, <1>8 DEF Live, CacheInv, CacheShape
  <2>2. e \in listed[entry[e].ns] => e \in listed'[entry[e].ns]
    BY <1>1, <1>2, <1>3, <2>1 DEF Rows
  <2> QED
    BY <1>1, <1>5, <1>8, <2>1, <2>2, StaysAccounted
<1> QED
  BY <1>1, <1>5, <1>6, <1>7, <1>8, ListsFade

\* What is evicted is dead, and what a crash leaves is stranded.
LEMMA EvictLists ==
  ASSUME CacheInv, ListInv, NEW c \in Callers, Evict(c) \/ Crash(c)
  PROVE  ListInv'
<1>1. /\ now \in Nat /\ now \in 0..MAX_TIME /\ DOMAIN caller = Callers
      /\ UNCHANGED <<now, listed, owned, purge, raced>>
      /\ listed \in [Namespaces -> SUBSET DOMAIN entry] /\ stranded \subseteq DOMAIN entry
  BY DEF CacheInv, CacheShape, ListInv, Bounds, Listings, Evict, Crash
<1>2. /\ caller[c].doing = "evict" /\ Holds(caller[c])
      /\ caller' = [caller EXCEPT ![c] = NoWork]
      /\ \/ entry' = Deleted(caller[c].ids) /\ stranded' = stranded
         \/ entry' = entry /\ stranded' = stranded \cup caller[c].ids
  BY DEF Evict, Crash, ListInv
<1>3. NoWork.doing = "idle" /\ Holds(NoWork)
  BY DEF NoWork, Holds
<1>4. \A d \in Callers : caller'[d] = caller[d] \/ (caller'[d].doing # "store" /\ Holds(caller'[d]))
  BY <1>1, <1>2, <1>3
<1>5. caller[c].ids \subseteq DOMAIN entry
  BY <1>2 DEF Holds
<1>6. /\ DOMAIN entry' = DOMAIN entry
      /\ \A e \in DOMAIN entry : entry'[e] = entry[e] \/ entry'[e] = [entry[e] EXCEPT !.until = 0]
  BY <1>2, DeletedFades
<1>7. \A e \in DOMAIN entry : Live(e)' => Live(e) /\ entry'[e] = entry[e]
  BY <1>1, <1>6, FewerLive
<1>8. Behind'
  BY <1>1 DEF ListInv, Behind, OfTenant
<1>9. ASSUME NEW e \in DOMAIN entry, Live(e)', Accounted(e) PROVE Accounted(e)'
  <2>1. entry'[e] = entry[e] /\ entry[e] \in Rows
    BY <1>7, <1>9 DEF CacheInv, CacheShape
  <2>2. e \in caller[c].ids => e \in stranded'
    <3>1. SUFFICES ASSUME e \in caller[c].ids, entry' = Deleted(caller[c].ids) PROVE FALSE
      BY <1>2
    <3>2. entry'[e] = [entry[e] EXCEPT !.until = 0]
      BY <3>1, DeletedFades
    <3>3. entry'[e].until = 0
      BY <2>1, <3>2 DEF Rows
    <3> QED
      BY <1>1, <1>9, <3>3 DEF Live
  <2>3. \A d \in Callers : caller[d].doing = "evict" /\ e \in caller[d].ids =>
          caller'[d] = caller[d] \/ e \in stranded'
    BY <1>1, <1>2, <2>2
  <2>4. stranded \subseteq stranded'
    BY <1>2
  <2> QED
    BY <1>1, <1>9, <2>1, <2>3, <2>4, StaysAccounted
<1>10. stranded \subseteq stranded' /\ stranded' \subseteq DOMAIN entry
  BY <1>1, <1>2, <1>5
<1>11. /\ now' \in 0..MAX_TIME /\ now <= now' /\ raced' = raced
       /\ listed' \in [Namespaces -> SUBSET DOMAIN entry]
       /\ \A n \in Namespaces : listed'[n] \subseteq listed[n]
       /\ \A t \in Tenants : \A n \in owned'[t].spaces : n \in owned[t].spaces
  BY <1>1
<1> QED
  BY <1>4, <1>6, <1>8, <1>9, <1>10, <1>11, ListsFade

\* An id that takes its place is on no list, and nobody holds it.
LEMMA StampLists ==
  ASSUME CacheInv, ListInv, NEW c \in Callers, NEW n \in Namespaces, Stamp(c, n)
  PROVE  ListInv'
<1>1. PICK k \in Nat : DOMAIN entry = 1..k
  BY DEF CacheInv, CacheShape
<1> DEFINE e == k + 1
<1>2. Cardinality(DOMAIN entry) = k
  BY <1>1, FS_Interval
<1>3. /\ entry' = [i \in 1..e |-> IF i = e THEN [ns |-> n, created |-> now, until |-> 0]
                                  ELSE entry[i]]
      /\ caller' = [caller EXCEPT ![c] = [doing |-> "store", id |-> e]]
      /\ caller[c] = NoWork /\ k < MAX_STORES
      /\ UNCHANGED <<now, listed, owned, purge, stranded, raced>>
  BY <1>2 DEF Stamp
<1>4. now \in Nat /\ now \in 0..MAX_TIME /\ DOMAIN caller = Callers /\ MAX_STORES \in Nat
  BY CacheAssumption DEF CacheInv, CacheShape, ListInv, Bounds
<1>5. /\ DOMAIN entry' = 1..e /\ e \in DOMAIN entry' /\ e \notin DOMAIN entry
      /\ DOMAIN entry' = DOMAIN entry \cup {e}
      /\ entry'[e] = [ns |-> n, created |-> now, until |-> 0]
      /\ \A i \in DOMAIN entry : entry'[i] = entry[i]
  BY <1>1, <1>3
<1>6. ~Live(e)' /\ \A i \in DOMAIN entry : Live(i)' = Live(i)
  BY <1>3, <1>4, <1>5 DEF Live
<1>7. /\ caller'[c] = [doing |-> "store", id |-> e] /\ caller'[c].doing = "store" /\ caller'[c].id = e
      /\ \A d \in Callers : d # c => caller'[d] = caller[d]
  BY <1>3, <1>4
<1>8. \A i \in DOMAIN entry : Pending(i)' => Pending(i)
  BY <1>5, <1>7 DEF Pending
<1>9. Bounds'
  <2>1. DOMAIN entry' \subseteq Ids
    BY <1>3, <1>4, <1>5 DEF Ids
  <2>2. \A i \in DOMAIN entry' : entry'[i].created <= now'
    BY <1>3, <1>4, <1>5 DEF ListInv, Bounds
  <2> QED
    BY <1>3, <1>5, <2>1, <2>2 DEF ListInv, Bounds
<1>10. Listings'
  <2>1. listed \in [Namespaces -> SUBSET DOMAIN entry]
    BY DEF ListInv, Listings
  <2>2. listed' \in [Namespaces -> SUBSET DOMAIN entry']
    BY <1>3, <1>5, <2>1
  <2>3. \A m \in Namespaces : \A i \in listed'[m] : entry'[i].ns = m /\ ~Pending(i)'
    BY <1>3, <1>5, <1>8, <2>1 DEF ListInv, Listings
  <2> QED
    BY <1>3, <2>2, <2>3 DEF ListInv, Listings
<1>11. Behind'
  BY <1>3 DEF ListInv, Behind, OfTenant
<1>12. ASSUME NEW d \in Callers PROVE Holds(caller[d])'
  <2>1. CASE d = c
    BY <1>7, <2>1 DEF Holds
  <2>2. CASE d # c
    <3>1. Holds(caller[d]) /\ caller'[d] = caller[d]
      BY <1>7, <2>2 DEF ListInv
    <3> QED
      BY <1>5, <1>6, <1>8, <3>1 DEF Holds
  <2> QED
    BY <2>1, <2>2
<1>13. ASSUME NEW i \in DOMAIN entry', Live(i)' PROVE Accounted(i)'
  <2>1. i \in DOMAIN entry /\ Live(i) /\ Accounted(i) /\ entry'[i] = entry[i] /\ entry[i] \in Rows
    BY <1>5, <1>6, <1>13 DEF ListInv, CacheInv, CacheShape
  <2>2. caller[c].doing # "evict"
    BY <1>3 DEF NoWork
  <2>3. \A d \in Callers : caller[d].doing = "evict" /\ i \in caller[d].ids =>
          caller'[d] = caller[d] \/ i \in stranded'
    BY <1>7, <2>2
  <2> QED
    BY <1>3, <1>4, <2>1, <2>3, StaysAccounted
<1> QED
  BY <1>9, <1>10, <1>11, <1>12, <1>13 DEF ListInv

\* The transaction: what it takes off the list it is about to evict, or has outlived its TTL, and of
\* what it lists nothing is still to be written.
LEMMA CommitLists ==
  ASSUME CacheInv, ListInv, NEW c \in Callers, Commit(c)
  PROVE  ListInv'
<1> DEFINE e == caller[c].id
           n == entry[e].ns
           t == Owner[n]
           ids == {i \in listed[n] \cup {e} : entry[i].created > entry[e].created - TTL}
           new == Newest(ids, MAX_ENTRIES)
           gone == Evicted(ids)
           next == IF gone = {} THEN NoWork ELSE [doing |-> "evict", ids |-> gone]
<1>1. /\ caller[c].doing = "store" /\ DOMAIN caller = Callers
      /\ e \in DOMAIN entry /\ entry[e] \in Rows /\ n \in Namespaces /\ t \in Tenants
      /\ \A d \in Callers : caller[d].doing = "store" /\ caller[d].id = e => d = c
  BY CacheAssumption DEF CacheInv, CacheShape, Stores, Commit, Rows
<1>2. /\ TTL \in Nat /\ TTL > 0 /\ MAX_ENTRIES \in Nat /\ now \in Nat
      /\ now \in 0..MAX_TIME /\ \A i \in DOMAIN entry : entry[i] \in Rows /\ entry[i].created \in Nat
  BY CacheAssumption DEF CacheInv, CacheShape, ListInv, Bounds, Rows
<1>3. /\ entry' = [entry EXCEPT ![e].until = now + TTL]
      /\ owned' = [owned EXCEPT ![t] = [spaces |-> SpacesOf(t) \cup {n}, until |-> now + TTL]]
      /\ raced' = IF Purging THEN raced \cup {e} ELSE raced
      /\ UNCHANGED <<now, purge, stranded>>
  BY Zenon DEF Commit
<1>4. listed' = [listed EXCEPT ![n] = new] /\ caller' = [caller EXCEPT ![c] = next]
  BY Zenon DEF Commit
<1>5. /\ DOMAIN entry' = DOMAIN entry /\ entry'[e] = [entry[e] EXCEPT !.until = now + TTL]
      /\ \A d \in DOMAIN entry : d # e => entry'[d] = entry[d]
  BY <1>1, <1>3
<1>6. \A d \in DOMAIN entry : entry'[d].ns = entry[d].ns /\ entry'[d].created = entry[d].created
  <2>1. entry'[e].ns = entry[e].ns /\ entry'[e].created = entry[e].created
    BY <1>1, <1>5 DEF Rows
  <2> QED
    BY <1>5, <2>1
<1>7. \A d \in DOMAIN entry : d # e => Live(d)' = Live(d)
  BY <1>3, <1>5 DEF Live
<1>8. listed \in [Namespaces -> SUBSET DOMAIN entry] /\ owned \in [Tenants -> [spaces : SUBSET Namespaces, until : Nat]]
  BY DEF ListInv, Listings, CacheInv, CacheShape
<1>9. ids \subseteq DOMAIN entry /\ ids \subseteq listed[n] \cup {e} /\ e \in ids
  <2>1. entry[e].created > entry[e].created - TTL
    BY <1>1, <1>2
  <2> QED
    BY <1>1, <1>8, <2>1
<1>10. \A i \in listed[n] : i \notin ids => now >= entry[i].created + TTL
  <2> SUFFICES ASSUME NEW i \in listed[n], i \notin ids PROVE now >= entry[i].created + TTL
    OBVIOUS
  <2>1. i \in DOMAIN entry /\ ~(entry[i].created > entry[e].created - TTL)
    BY <1>1, <1>8
  <2>2. entry[i].created \in Nat /\ entry[e].created \in Nat /\ entry[e].created <= now
    BY <1>1, <1>2, <2>1 DEF ListInv, Bounds
  <2> HIDE DEF e
  <2> QED
    BY <1>2, <2>1, <2>2
<1> HIDE DEF ids
<1>11. new \subseteq ids /\ Cardinality(new) <= MAX_ENTRIES
  <2>1. IsFiniteSet(ids) /\ ids \subseteq Nat
    BY <1>9, EntriesFinite, FS_Subset
  <2> QED
    BY <1>2, <2>1, FewNewest
<1>12. gone = ids \ new
  BY DEF Evicted
<1> HIDE DEF new, gone
<1>13. /\ next.doing \in {"idle", "evict"}
       /\ gone # {} => next.doing = "evict" /\ next.ids = gone
       /\ next.doing = "evict" => next.ids = gone
  <2>1. CASE gone = {}
    BY <2>1 DEF NoWork
  <2>2. CASE gone # {}
    BY <2>2
  <2> QED
    BY <2>1, <2>2
<1> HIDE DEF next
<1>14. caller'[c] = next /\ \A d \in Callers : d # c => caller'[d] = caller[d]
  BY <1>1, <1>4
<1>15. listed'[n] = new /\ \A m \in Namespaces : m # n => listed'[m] = listed[m]
  BY <1>1, <1>4, <1>8
<1>16. \A i : Pending(i)' => Pending(i) /\ i # e
  BY <1>1, <1>13, <1>14 DEF Pending
<1>17. Pending(e)
  BY <1>1 DEF Pending
<1> HIDE DEF e, n, t
<1>18. Bounds'
  <2>1. \A u \in Tenants : \A m \in owned'[u].spaces : Owner[m] = u
    <3> SUFFICES ASSUME NEW u \in Tenants, NEW m \in owned'[u].spaces PROVE Owner[m] = u
      OBVIOUS
    <3>1. CASE u = t
      <4>1. owned'[t].spaces = SpacesOf(t) \cup {n}
        BY <1>1, <1>3, <1>8
      <4>2. SpacesOf(t) \subseteq owned[t].spaces
        BY DEF SpacesOf
      <4> QED
        BY <1>1, <3>1, <4>1, <4>2 DEF ListInv, Bounds, t
    <3>2. CASE u # t
      BY <1>3, <1>8, <3>2 DEF ListInv, Bounds
    <3> QED
      BY <3>1, <3>2
  <2>2. \A i \in DOMAIN entry' : entry'[i].created <= now'
    BY <1>3, <1>5, <1>6 DEF ListInv, Bounds
  <2>3. stranded' \cup raced' \subseteq DOMAIN entry'
    BY <1>1, <1>3, <1>5 DEF ListInv, Bounds
  <2> QED
    BY <1>3, <1>5, <2>1, <2>2, <2>3 DEF ListInv, Bounds
<1>19. Listings'
  <2>1. listed' \in [Namespaces -> SUBSET DOMAIN entry']
    BY <1>4, <1>5, <1>8, <1>9, <1>11
  <2>2. \A m \in Namespaces : Cardinality(listed'[m]) <= MAX_ENTRIES
    BY <1>11, <1>15 DEF ListInv, Listings
  <2>3. ASSUME NEW m \in Namespaces, NEW i \in listed'[m] PROVE entry'[i].ns = m /\ ~Pending(i)'
    <3>1. CASE i = e
      <4>1. m = n
        BY <1>15, <1>17, <2>3, <3>1 DEF ListInv, Listings
      <4> QED
        BY <1>1, <1>6, <1>16, <3>1, <4>1 DEF n
    <3>2. CASE i # e
      <4>1. i \in listed[m]
        BY <1>9, <1>11, <1>15, <2>3, <3>2
      <4> QED
        BY <1>6, <1>8, <1>16, <4>1 DEF ListInv, Listings
    <3> QED
      BY <3>1, <3>2
  <2> QED
    BY <2>1, <2>2, <2>3 DEF Listings
<1>20. Behind'
  BY <1>3 DEF ListInv, Behind, OfTenant
<1>21. ASSUME NEW d \in Callers PROVE Holds(caller[d])'
  <2>1. CASE d = c
    BY <1>5, <1>9, <1>12, <1>13, <1>14, <2>1 DEF Holds
  <2>2. CASE d # c
    <3>1. Holds(caller[d]) /\ caller'[d] = caller[d]
      BY <1>14, <2>2 DEF ListInv
    <3> QED
      BY <1>5, <1>7, <1>16, <1>17, <3>1 DEF Holds
  <2> QED
    BY <2>1, <2>2
<1>22. ASSUME NEW i \in DOMAIN entry', Live(i)' PROVE Accounted(i)'
  <2>0. entry'[i].ns = entry[i].ns /\ entry'[i].created = entry[i].created /\ i \in DOMAIN entry
    BY <1>5, <1>6
  <2>1. CASE i \in ids
    <3>1. entry[i].ns = n
      <4>1. i = e => entry[i].ns = n
        BY DEF n
      <4>2. i \in listed[n] \/ i = e
        BY <1>9, <2>1
      <4> QED
        BY <1>1, <4>1, <4>2 DEF ListInv, Listings
    <3>2. CASE i \in new
      BY <1>15, <2>0, <3>1, <3>2 DEF Accounted
    <3>3. CASE i \notin new
      <4>1. i \in gone
        BY <1>12, <2>1, <3>3
      <4>2. next.doing = "evict" /\ i \in next.ids
        BY <1>13, <4>1
      <4> QED
        BY <1>14, <4>2 DEF Accounted, Evicting
    <3> QED
      BY <3>2, <3>3
  <2>2. CASE i \notin ids
    <3>1. i # e /\ Live(i) /\ Accounted(i) /\ entry[i] \in Rows
      BY <1>2, <1>7, <1>9, <1>22, <2>0, <2>2 DEF ListInv
    <3>2. CASE i \in listed[n]
      BY <1>3, <1>10, <2>0, <2>2, <3>2 DEF Accounted
    <3>3. CASE i \notin listed[n]
      <4>1. entry'[i] = entry[i]
        BY <1>5, <2>0, <3>1
      <4>2. i \in listed[entry[i].ns] => i \in listed'[entry[i].ns]
        BY <1>15, <3>1, <3>3 DEF Rows
      <4>3. \A d \in Callers : caller[d].doing = "evict" /\ i \in caller[d].ids =>
              caller'[d] = caller[d] \/ i \in stranded'
        BY <1>1, <1>14
      <4>4. raced \subseteq raced' /\ stranded \subseteq stranded'
        BY <1>3
      <4> QED
        BY <1>2, <1>3, <2>0, <3>1, <4>1, <4>2, <4>3, <4>4, StaysAccounted
    <3> QED
      BY <3>2, <3>3
  <2> QED
    BY <2>1, <2>2
<1> QED
  BY <1>18, <1>19, <1>20, <1>21, <1>22 DEF ListInv

\* A purge begins with namespaces of its tenant and forgets what it forgets as a whole; where it
\* dies matters to no list.
LEMMA PurgeBeginsAndEnds ==
  ASSUME CacheInv, ListInv,
         \/ \E t \in Tenants : ReadSpaces(t)
         \/ \E n \in Namespaces : Scan(n)
         \/ ForgetSpaces \/ ScanAll \/ ForgetAll \/ PurgeCrash
  PROVE  ListInv'
<1>1. /\ now \in 0..MAX_TIME /\ now \in Nat
      /\ UNCHANGED <<now, entry, listed, caller, stranded, raced>>
  BY Zenon
     DEF CacheInv, CacheShape, ListInv, Bounds, ReadSpaces, Scan, ForgetSpaces, ScanAll, ForgetAll,
         PurgeCrash
<1>2. owned \in [Tenants -> [spaces : SUBSET Namespaces, until : Nat]]
  BY DEF CacheInv, CacheShape
<1>3. \A t \in Tenants : \A n \in owned'[t].spaces : n \in owned[t].spaces
  <2>1. CASE ForgetAll
    BY Zenon, <2>1 DEF ForgetAll
  <2>2. CASE ForgetSpaces
    BY <1>2, <2>2 DEF ForgetSpaces
  <2>3. CASE owned' = owned
    BY <2>3
  <2> QED
    BY Zenon, <2>1, <2>2, <2>3 DEF ReadSpaces, Scan, ScanAll, PurgeCrash
<1>4. NoWork.doing = "idle"
  BY DEF NoWork
<1>5. Behind'
  <2>1. CASE \E t \in Tenants : ReadSpaces(t)
    <3>1. PICK t \in Tenants : ReadSpaces(t)
      BY <2>1
    <3>2. purge'.doing = "scan" /\ purge'.tenant = t /\ purge'.left = SpacesOf(t)
      BY <3>1 DEF ReadSpaces
    <3>3. \A n \in SpacesOf(t) : Owner[n] = t
      BY DEF SpacesOf, ListInv, Bounds
    <3> QED
      BY <3>2, <3>3 DEF Behind, OfTenant
  <2>2. CASE \E n \in Namespaces : Scan(n)
    <3>1. PICK n \in Namespaces : Scan(n)
      BY <2>2
    <3>2. /\ purge.doing = "scan" /\ n \in purge.left
          /\ purge' = [purge EXCEPT !.doing = "delete", !.left = @ \ {n},
                                    !.batch = [ns |-> n, ids |-> LiveIn(n)]]
      BY Zenon, <3>1 DEF Scan
    <3>3. purge \in [doing : {"scan"}, tenant : Tenants, left : SUBSET Namespaces, batch : {{}},
                     targets : SUBSET Nat]
      BY <3>2, PurgeShapes
    <3>4. /\ purge'.doing = "delete" /\ purge'.tenant = purge.tenant
          /\ purge'.left = purge.left \ {n} /\ purge'.batch.ns = n
      BY <3>2, <3>3
    <3>5. \A m \in purge.left : Owner[m] = purge.tenant
      BY <3>2 DEF ListInv, Behind, OfTenant
    <3> QED
      BY <3>2, <3>4, <3>5 DEF Behind, OfTenant
  <2>3. CASE ScanAll
    <3>1. purge'.doing = "all entries"
      BY Zenon, <2>3 DEF ScanAll
    <3> QED
      BY Zenon, <3>1 DEF Behind, OfTenant
  <2>4. CASE ForgetSpaces \/ ForgetAll \/ PurgeCrash
    <3>1. purge'.doing = "idle"
      BY Zenon, <1>4, <2>4 DEF ForgetSpaces, ForgetAll, PurgeCrash
    <3> QED
      BY <3>1 DEF Behind, OfTenant
  <2> QED
    BY <2>1, <2>2, <2>3, <2>4
<1>6. now' \in 0..MAX_TIME /\ now <= now'
  BY <1>1
<1> QED
  BY <1>1, <1>3, <1>5, <1>6, ListsAside

\* Deleted entries are accounted for by nobody, and need not be.
LEMMA DeletesLists ==
  ASSUME CacheInv, ListInv, DeleteBatch \/ DeleteAll
  PROVE  ListInv'
<1>1. /\ now \in 0..MAX_TIME /\ now \in Nat
      /\ UNCHANGED <<now, listed, owned, caller, stranded, raced>>
      /\ listed \in [Namespaces -> SUBSET DOMAIN entry] /\ stranded \subseteq DOMAIN entry
  BY Zenon DEF CacheInv, CacheShape, ListInv, Bounds, Listings, DeleteBatch, DeleteAll
<1>2. \E E : entry' = Deleted(E)
  BY Zenon DEF DeleteBatch, DeleteAll
<1>3. /\ DOMAIN entry' = DOMAIN entry
      /\ \A e \in DOMAIN entry : entry'[e] = entry[e] \/ entry'[e] = [entry[e] EXCEPT !.until = 0]
  BY <1>2, DeletedFades
<1>4. \A e \in DOMAIN entry : Live(e)' => Live(e) /\ entry'[e] = entry[e]
  BY <1>1, <1>3, FewerLive
<1>5. ASSUME NEW e \in DOMAIN entry, Live(e)', Accounted(e) PROVE Accounted(e)'
  <2>1. entry'[e] = entry[e] /\ entry[e] \in Rows
    BY <1>4, <1>5 DEF CacheInv, CacheShape
  <2> QED
    BY <1>1, <1>5, <2>1, StaysAccounted
<1>6. Behind'
  <2>1. CASE DeleteBatch
    <3>1. /\ purge.doing = "delete" /\ purge' = [purge EXCEPT !.doing = "unlist"]
          /\ purge \in [doing : {"delete", "unlist"}, tenant : Tenants, left : SUBSET Namespaces,
                        batch : [ns : Namespaces, ids : SUBSET Nat], targets : SUBSET Nat]
      BY <2>1, PurgeShapes DEF DeleteBatch
    <3>2. /\ purge'.doing = "unlist" /\ purge'.tenant = purge.tenant
          /\ purge'.left = purge.left /\ purge'.batch = purge.batch
      BY <3>1
    <3> QED
      BY <3>1, <3>2 DEF ListInv, Behind, OfTenant
  <2>2. CASE DeleteAll
    <3>1. /\ purge.doing = "all entries" /\ purge' = [purge EXCEPT !.doing = "all lists"]
          /\ purge \in [doing : {"all entries", "all lists", "all sets"}, targets : SUBSET Nat,
                        batch : SUBSET Nat]
      BY Zenon, <2>2, PurgeShapes DEF DeleteAll
    <3>2. purge'.doing = "all lists"
      BY Zenon, <3>1
    <3> QED
      BY Zenon, <3>2 DEF Behind, OfTenant
  <2> QED
    BY <2>1, <2>2
<1>7. /\ now' \in 0..MAX_TIME /\ now <= now' /\ raced' = raced
      /\ listed' \in [Namespaces -> SUBSET DOMAIN entry]
      /\ \A n \in Namespaces : listed'[n] \subseteq listed[n]
      /\ stranded \subseteq stranded' /\ stranded' \subseteq DOMAIN entry
      /\ \A t \in Tenants : \A n \in owned'[t].spaces : n \in owned[t].spaces
      /\ \A c \in Callers : caller'[c] = caller[c]
  BY <1>1
<1> QED
  BY <1>3, <1>5, <1>6, <1>7, ListsFade

\* A list is deleted when all that can be served of its namespace was stored while a purge ran.
LEMMA UnlistLists ==
  ASSUME CacheInv, ListInv, Unlist \/ UnlistAll
  PROVE  ListInv'
<1>1. /\ now \in 0..MAX_TIME /\ now \in Nat
      /\ UNCHANGED <<now, entry, owned, caller, stranded, raced>>
      /\ listed \in [Namespaces -> SUBSET DOMAIN entry] /\ stranded \subseteq DOMAIN entry
      /\ \A e \in DOMAIN entry : entry[e] \in Rows /\ entry[e].ns \in Namespaces
  BY Zenon DEF CacheInv, CacheShape, ListInv, Bounds, Listings, Unlist, UnlistAll, Rows
<1>2. ASSUME NEW e \in DOMAIN entry, Live(e), e \notin raced, InReach(e), Purging PROVE Ahead(e)
  BY <1>2 DEF CacheInv, Aimed
<1>3. ASSUME NEW S \in SUBSET Namespaces,
             listed' = [n \in Namespaces |-> IF n \in S THEN {} ELSE listed[n]],
             \A e \in DOMAIN entry : Live(e) /\ entry[e].ns \in S => e \in raced,
             Behind'
      PROVE  ListInv'
  <2>1. /\ listed' \in [Namespaces -> SUBSET DOMAIN entry]
        /\ \A n \in Namespaces : listed'[n] \subseteq listed[n]
        /\ \A n \in Namespaces \ S : listed'[n] = listed[n]
    BY <1>1, <1>3
  <2>2. ASSUME NEW e \in DOMAIN entry, Live(e)', Accounted(e) PROVE Accounted(e)'
    <3>1. Live(e)
      BY <1>1, <2>2 DEF Live
    <3>2. CASE entry[e].ns \in S
      BY <1>1, <1>3, <3>1, <3>2 DEF Accounted
    <3>3. CASE entry[e].ns \notin S
      BY <1>1, <2>1, <2>2, <3>3, StaysAccounted
    <3> QED
      BY <3>2, <3>3
  <2>3. /\ now' \in 0..MAX_TIME /\ now <= now' /\ DOMAIN entry' = DOMAIN entry
        /\ \A e \in DOMAIN entry : entry'[e] = entry[e]
        /\ raced' = raced /\ stranded \subseteq stranded' /\ stranded' \subseteq DOMAIN entry
        /\ \A t \in Tenants : \A n \in owned'[t].spaces : n \in owned[t].spaces
        /\ \A c \in Callers : caller'[c] = caller[c]
    BY <1>1
  <2> QED
    BY <1>3, <2>1, <2>2, <2>3, ListsFade
<1>4. CASE Unlist
  <2>1. /\ purge.doing = "unlist" /\ Purging
        /\ purge \in [doing : {"delete", "unlist"}, tenant : Tenants, left : SUBSET Namespaces,
                      batch : [ns : Namespaces, ids : SUBSET Nat], targets : SUBSET Nat]
        /\ purge' = [purge EXCEPT !.doing = "scan", !.batch = {}]
        /\ listed' = [listed EXCEPT ![purge.batch.ns] = {}]
    BY <1>4, PurgeShapes DEF Unlist
  <2>2. purge'.doing = "scan" /\ purge'.tenant = purge.tenant /\ purge'.left = purge.left
    BY <2>1
  <2>3. Behind'
    BY <2>1, <2>2 DEF ListInv, Behind, OfTenant
  <2>4. purge.batch.ns \notin purge.left /\ Owner[purge.batch.ns] = purge.tenant
        /\ purge.batch.ns \in Namespaces
    BY <2>1 DEF ListInv, Behind
  <2>5. ASSUME NEW e \in DOMAIN entry, Live(e), entry[e].ns = purge.batch.ns PROVE e \in raced
    <3>1. InReach(e) /\ ~Ahead(e)
      BY <2>1, <2>4, <2>5 DEF InReach, Ahead
    <3> QED
      BY <1>2, <2>1, <2>5, <3>1
  <2> DEFINE S == {purge.batch.ns}
  <2>6. listed' = [n \in Namespaces |-> IF n \in S THEN {} ELSE listed[n]]
    BY <1>1, <2>1
  <2>7. S \in SUBSET Namespaces /\ \A e \in DOMAIN entry : Live(e) /\ entry[e].ns \in S => e \in raced
    BY <2>4, <2>5
  <2> HIDE DEF S
  <2> QED
    BY <1>3, <2>3, <2>6, <2>7
<1>5. CASE UnlistAll
  <2>1. /\ purge.doing = "all lists" /\ Purging
        /\ purge \in [doing : {"all entries", "all lists", "all sets"}, targets : SUBSET Nat,
                      batch : SUBSET Nat]
        /\ purge' = [purge EXCEPT !.doing = "all sets"]
        /\ listed' = [n \in Namespaces |-> {}]
    BY Zenon, <1>5, PurgeShapes DEF UnlistAll
  <2>2. purge'.doing = "all sets"
    BY Zenon, <2>1
  <2>3. Behind'
    BY Zenon, <2>2 DEF Behind, OfTenant
  <2>4. ASSUME NEW e \in DOMAIN entry, Live(e) PROVE e \in raced
    <3>1. InReach(e) /\ ~Ahead(e)
      BY Zenon, <2>1 DEF InReach, OfTenant, Ahead
    <3> QED
      BY Zenon, <1>2, <2>1, <2>4, <3>1
  <2>5. listed' = [n \in Namespaces |-> IF n \in Namespaces THEN {} ELSE listed[n]]
    BY Zenon, <2>1
  <2> QED
    BY <1>3, <2>3, <2>4, <2>5
<1> QED
  BY <1>4, <1>5

LEMMA ListSteps == CacheInv /\ ListInv /\ [CacheNext]_cacheVars => ListInv'
<1> SUFFICES ASSUME CacheInv, ListInv, [CacheNext]_cacheVars PROVE ListInv'
  OBVIOUS
<1>1. CASE Tick
  BY <1>1, TickLists
<1>2. CASE \E c \in Callers :
             \/ \E n \in Namespaces : Stamp(c, n) \/ ListIds(c, n) \/ Nearest(c, n)
             \/ Commit(c) \/ Evict(c) \/ Compare(c) \/ Tidy(c) \/ Fetch(c) \/ Crash(c)
  <2>1. PICK c \in Callers :
             \/ \E n \in Namespaces : Stamp(c, n) \/ ListIds(c, n) \/ Nearest(c, n)
             \/ Commit(c) \/ Evict(c) \/ Compare(c) \/ Tidy(c) \/ Fetch(c) \/ Crash(c)
    BY <1>2
  <2>2. CASE \E n \in Namespaces : Stamp(c, n)
    BY <2>2, StampLists
  <2>3. CASE Commit(c)
    BY <2>3, CommitLists
  <2>4. CASE (\E n \in Namespaces : ListIds(c, n) \/ Nearest(c, n)) \/ Compare(c) \/ Fetch(c)
    BY <2>4, LookupLists, Zenon
  <2>5. CASE Evict(c) \/ Crash(c)
    BY <2>5, EvictLists, Zenon
  <2>6. CASE Tidy(c)
    BY <2>6, TidyLists
  <2> QED
    BY <2>1, <2>2, <2>3, <2>4, <2>5, <2>6, Zenon
<1>3. CASE \/ \E t \in Tenants : ReadSpaces(t)
           \/ \E n \in Namespaces : Scan(n)
           \/ ForgetSpaces \/ ScanAll \/ ForgetAll \/ PurgeCrash
  BY <1>3, PurgeBeginsAndEnds, Zenon
<1>4. CASE DeleteBatch \/ DeleteAll
  BY <1>4, DeletesLists, Zenon
<1>5. CASE Unlist \/ UnlistAll
  BY <1>5, UnlistLists, Zenon
<1>6. CASE UNCHANGED cacheVars
  <2>1. /\ UNCHANGED <<now, entry, listed, owned, caller, purge, stranded, raced>>
        /\ now \in 0..MAX_TIME /\ now \in Nat
    BY <1>6 DEF cacheVars, CacheInv, CacheShape, ListInv, Bounds
  <2>2. Behind'
    BY <2>1 DEF ListInv, Behind, OfTenant
  <2>3. now' \in 0..MAX_TIME /\ now <= now'
    BY <2>1
  <2> QED
    BY <2>1, <2>2, <2>3, ListsAside
<1> QED
  BY <1>1, <1>2, <1>3, <1>4, <1>5, <1>6, Zenon DEF CacheNext

LEMMA CacheHolds == CacheSpec => [](CacheInv /\ ListInv)
<1>1. CacheInit => CacheInv /\ ListInv
  BY CacheInitially, ListsInitially
<1>2. CacheInv /\ ListInv /\ [CacheNext]_cacheVars => (CacheInv /\ ListInv)'
  BY CacheSteps, ListSteps
<1> QED
  BY <1>1, <1>2, PTL DEF CacheSpec

\* No namespace lists more than its cap, and what Redis still serves beyond the list is on its way
\* out or was cut off by a crash or a purge: for any namespaces, callers, cap and TTL, and wherever
\* stores, lookups, crashes and purges meet (store, semantic_cache.py:241-251; nearest, :121-122).
THEOREM CapIsKept == CacheSpec => []CapHolds
<1>1. CacheInv /\ ListInv => CapHolds
  BY DEF ListInv, Listings, Accounted, Evicting, CapHolds
<1> QED
  BY <1>1, CacheHolds, PTL

\* What is stored, listed and known has its type, and no namespace is known to a tenant that is not
\* its own (semantic_cache.py:60-75, 241-251).
THEOREM CacheTypes == CacheSpec => []CacheTypeOK
<1>1. CacheInv /\ ListInv => CacheTypeOK
  <2> SUFFICES ASSUME CacheInv, ListInv PROVE CacheTypeOK
    OBVIOUS
  <2>1. \A e \in DOMAIN entry : entry[e] \in Entries
    <3> SUFFICES ASSUME NEW e \in DOMAIN entry PROVE entry[e] \in Entries
      OBVIOUS
    <3>1. /\ entry[e] \in Rows /\ entry[e].until <= now + TTL /\ entry[e].created <= now
          /\ now \in 0..MAX_TIME /\ MAX_TIME \in Nat /\ TTL \in Nat
      BY CacheAssumption DEF CacheInv, CacheShape, ListInv, Bounds
    <3>2. entry[e].created \in 0..MAX_TIME /\ entry[e].until \in 0..(MAX_TIME + TTL)
      BY <3>1 DEF Rows
    <3> QED
      BY <3>1, <3>2 DEF Rows, Entries
  <2> QED
    BY <2>1 DEF CacheInv, CacheShape, ListInv, Bounds, Listings, CacheTypeOK
<1> QED
  BY <1>1, CacheHolds, PTL

(***************************************************************************)
(* The documents                                                           *)
(***************************************************************************)

Ops ==
  {Idle} \cup [doing : {"parse"}, doc : Docs, kind : {"pdf", "text", "unsupported"}]
         \cup [doing : {"delete old", "upsert", "register"}, doc : Docs, chunks : Nat,
               upserted : Nat, by : Nat]
         \cup [doing : {"delete chunks", "unregister"}, doc : Docs]

\* A document of n chunks, all of them there and all of ingestion b.
Written(d, n, b) ==
  DOMAIN points[d] = 0..(n - 1) /\ \A i \in DOMAIN points[d] : points[d][i].by = b

\* What a writer has done so far.
Underway(r, d) ==
  /\ op[r].doing = "delete old" => op[r].upserted = 0
  /\ op[r].doing = "upsert" => /\ op[r].upserted <= op[r].chunks
                               /\ Written(d, op[r].upserted, op[r].by)
  /\ op[r].doing = "register" => Written(d, op[r].chunks, op[r].by)
  /\ op[r].doing = "unregister" => Written(d, 0, 0)

\* A document that is not torn has one writer, who has left what the next of its steps needs, or
\* none and is whole.
Clean(d) ==
  ~torn[d] =>
    /\ \A r, q \in Replicas : Writes(r, d) /\ Writes(q, d) => r = q
    /\ \A r \in Replicas : Writes(r, d) => Underway(r, d)
    /\ (\A r \in Replicas : ~Writes(r, d)) => Written(d, registry[d].chunks, registry[d].by)

DocShape ==
  /\ op \in [Replicas -> Ops] /\ torn \in [Docs -> BOOLEAN]
  /\ DOMAIN points = Docs /\ DOMAIN registry = Docs
  /\ ingests \in Nat
DocInv == DocShape /\ \A d \in Docs : Clean(d)

LEMMA DocInitially == DocInit => DocInv
<1> SUFFICES ASSUME DocInit PROVE DocInv
  OBVIOUS
<1>1. /\ op = [r \in Replicas |-> Idle] /\ torn = [d \in Docs |-> FALSE] /\ ingests = 0
      /\ points = [d \in Docs |-> <<>>] /\ registry = [d \in Docs |-> NoRecord]
  BY DEF DocInit
<1>2. DocShape
  BY <1>1 DEF DocShape, Ops
<1>3. ASSUME NEW d \in Docs PROVE Clean(d)
  <2>1. \A r \in Replicas : ~Writes(r, d)
    BY Zenon, <1>1 DEF Writes, Idle
  <2>2. DOMAIN points[d] = 0..(-1 - 1) /\ DOMAIN points[d] = {} /\ registry[d].chunks = -1
    BY <1>1 DEF NoRecord
  <2> QED
    BY <2>1, <2>2 DEF Clean, Written
<1> QED
  BY <1>2, <1>3 DEF DocInv

\* A document at which nothing happens.
LEMMA Untouched ==
  ASSUME NEW d \in Docs, Clean(d), torn'[d] = torn[d], points'[d] = points[d],
         registry'[d] = registry[d],
         \A q \in Replicas : op'[q] = op[q] \/ (~Writes(q, d) /\ ~Writes(q, d)')
  PROVE  Clean(d)'
<1>1. \A q \in Replicas : Writes(q, d)' => Writes(q, d) /\ op'[q] = op[q]
  BY Zenon DEF Writes
<1>2. \A q \in Replicas : Writes(q, d) => Writes(q, d)'
  BY Zenon DEF Writes
<1>3. \A q \in Replicas : op'[q] = op[q] /\ Underway(q, d) => Underway(q, d)'
  BY Zenon DEF Underway, Written
<1> QED
  BY <1>1, <1>2, <1>3 DEF Clean, Written

\* What a replica is doing tells what it writes.
LEMMA OpShapes ==
  ASSUME DocInv, NEW r \in Replicas
  PROVE  /\ op[r].doing \in {"delete old", "upsert", "register"} =>
              op[r] \in [doing : {"delete old", "upsert", "register"}, doc : Docs, chunks : Nat,
                         upserted : Nat, by : Nat]
         /\ op[r].doing \in {"parse", "delete chunks", "unregister"} => op[r].doc \in Docs
         /\ op[r].doing \in {"delete chunks", "unregister"} =>
              op[r] \in [doing : {"delete chunks", "unregister"}, doc : Docs]
         /\ Idle.doing = "idle"
<1> DEFINE A == [doing : {"parse"}, doc : Docs, kind : {"pdf", "text", "unsupported"}]
           B == [doing : {"delete old", "upsert", "register"}, doc : Docs, chunks : Nat,
                 upserted : Nat, by : Nat]
           C == [doing : {"delete chunks", "unregister"}, doc : Docs]
           o == op[r]
<1>1. o \in {Idle} \cup A \cup B \cup C
  BY Zenon DEF DocInv, DocShape, Ops
<1>2. Idle.doing = "idle"
  BY DEF Idle
<1>3. /\ o \in A => o.doing = "parse" /\ o.doc \in Docs
      /\ o \in B => o.doing \in {"delete old", "upsert", "register"}
      /\ o \in C => o.doing \in {"delete chunks", "unregister"} /\ o.doc \in Docs
  BY Zenon
<1> HIDE DEF A, B, C, o
<1>4. /\ o.doing \in {"delete old", "upsert", "register"} => o \in B
      /\ o.doing \in {"parse", "delete chunks", "unregister"} => o.doc \in Docs
      /\ o.doing \in {"delete chunks", "unregister"} => o \in C
  BY Zenon, <1>1, <1>2, <1>3
<1> QED
  BY <1>2, <1>4, Zenon DEF B, C, o

\* A step of one replica at one document, whoever else is there: right if it is right there.
LEMMA OneDocument ==
  ASSUME DocInv, NEW r \in Replicas, NEW d \in Docs, NEW o \in Ops,
         op' = [op EXCEPT ![r] = o],
         \A e \in Docs \ {d} : /\ torn'[e] = torn[e] /\ points'[e] = points[e]
                               /\ registry'[e] = registry[e],
         \A e \in Docs \ {d} : ~Writes(r, e) /\ ~Writes(r, e)',
         torn' \in [Docs -> BOOLEAN], DOMAIN points' = Docs, DOMAIN registry' = Docs, ingests' \in Nat,
         Clean(d)'
  PROVE  DocInv'
<1>1. op' \in [Replicas -> Ops] /\ \A q \in Replicas \ {r} : op'[q] = op[q]
  BY DEF DocInv, DocShape
<1>2. \A e \in Docs \ {d} : Clean(e)'
  BY <1>1, Untouched DEF DocInv
<1> QED
  BY <1>1, <1>2 DEF DocInv, DocShape

\* The only writer of a document goes on.
LEMMA WriterGoesOn ==
  ASSUME DocInv, NEW r \in Replicas, NEW d \in Docs, NEW o \in Ops, Writes(r, d),
         op' = [op EXCEPT ![r] = o], torn' = torn, Writes(r, d)',
         ~torn[d] /\ Underway(r, d) => Underway(r, d)'
  PROVE  Clean(d)'
<1>1. op'[r] = o /\ \A q \in Replicas \ {r} : op'[q] = op[q]
  BY DEF DocInv, DocShape
<1>2. \A q \in Replicas : Writes(q, d)' = Writes(q, d)
  BY Zenon, <1>1 DEF Writes
<1>3. ASSUME ~torn[d], NEW q \in Replicas, Writes(q, d) PROVE q = r /\ Underway(r, d)
  BY <1>3 DEF DocInv, Clean
<1> QED
  BY <1>2, <1>3 DEF Clean

\* The only writer of a document gets to its end.
LEMMA WriterEnds ==
  ASSUME DocInv, NEW r \in Replicas, NEW d \in Docs, Writes(r, d),
         op' = [op EXCEPT ![r] = Idle], torn' = torn,
         ~torn[d] /\ Underway(r, d) => Written(d, registry[d].chunks, registry[d].by)'
  PROVE  Clean(d)'
<1>1. op'[r] = Idle /\ \A q \in Replicas \ {r} : op'[q] = op[q]
  BY DEF DocInv, DocShape
<1>2. ~Writes(r, d)' /\ \A q \in Replicas \ {r} : Writes(q, d)' = Writes(q, d)
  <2>1. op'[r].doing = "idle"
    BY Zenon, <1>1, OpShapes
  <2>2. ~Writes(r, d)'
    BY Zenon, <2>1 DEF Writes
  <2>3. \A q \in Replicas \ {r} : Writes(q, d)' = Writes(q, d)
    BY Zenon, <1>1 DEF Writes
  <2> QED
    BY <2>2, <2>3
<1>3. ASSUME ~torn[d] PROVE Underway(r, d) /\ \A q \in Replicas \ {r} : ~Writes(q, d)
  BY <1>3 DEF DocInv, Clean
<1> QED
  BY <1>2, <1>3 DEF Clean

\* A writer comes.
LEMMA WriterEnters ==
  ASSUME DocInv, NEW r \in Replicas, NEW d \in Docs, NEW o \in Ops, Enter(r, d),
         op' = [op EXCEPT ![r] = o], Writes(r, d)', Underway(r, d)'
  PROVE  Clean(d)'
<1>1. op'[r] = o /\ \A q \in Replicas \ {r} : op'[q] = op[q]
  BY DEF DocInv, DocShape
<1>2. \A q \in Replicas \ {r} : Writes(q, d)' = Writes(q, d)
  BY Zenon, <1>1 DEF Writes
<1>3. torn'[d] = \E q \in Replicas \ {r} : Writes(q, d)
  BY DEF Enter, Torn, DocInv, DocShape
<1> QED
  BY <1>2, <1>3 DEF Clean

\* A replica that writes nothing, before and after.
LEMMA NoWriter ==
  ASSUME DocInv, NEW r \in Replicas, NEW o \in Ops, op' = [op EXCEPT ![r] = o],
         \A d \in Docs : ~Writes(r, d) /\ ~Writes(r, d)',
         UNCHANGED <<points, registry, ingests, torn>>
  PROVE  DocInv'
<1>1. op' \in [Replicas -> Ops] /\ \A q \in Replicas \ {r} : op'[q] = op[q]
  BY DEF DocInv, DocShape
<1>2. \A d \in Docs : Clean(d)'
  BY <1>1, Untouched DEF DocInv
<1> QED
  BY <1>1, <1>2 DEF DocInv, DocShape

LEMMA UploadKeeps ==
  ASSUME DocInv, NEW r \in Replicas, NEW d \in Docs, Upload(r, d)
  PROVE  DocInv'
<1>1. PICK s \in {"pdf", "text", "other"}, c \in {"pdf", "text", "other"} :
        op' = [op EXCEPT ![r] = [doing |-> "parse", doc |-> d, kind |-> Kind(s, c)]]
  BY DEF Upload
<1>2. Kind(s, c) \in {"pdf", "text", "unsupported"}
  BY DEF Kind
<1> DEFINE o == [doing |-> "parse", doc |-> d, kind |-> Kind(s, c)]
<1>3. o \in Ops /\ o.doing = "parse"
  BY Zenon, <1>2 DEF Ops
<1>4. op[r].doing = "idle" /\ UNCHANGED <<points, registry, ingests, torn>>
  BY Zenon, OpShapes DEF Upload
<1>5. op'[r] = o
  BY <1>1 DEF DocInv, DocShape
<1> HIDE DEF o
<1>6. \A e \in Docs : ~Writes(r, e) /\ ~Writes(r, e)'
  BY Zenon, <1>3, <1>4, <1>5 DEF Writes
<1> QED
  BY <1>1, <1>3, <1>4, <1>6, NoWriter DEF o

\* From here the store changes: a writer comes with nothing written yet.
LEMMA ParseKeeps ==
  ASSUME DocInv, NEW r \in Replicas, Parse(r)
  PROVE  DocInv'
<1>0. PICK d \in Docs : d = op[r].doc
  BY Zenon, OpShapes DEF Parse
<1>1. /\ op[r].doing = "parse" /\ UNCHANGED <<points, registry>>
      /\ \A e \in Docs : ~Writes(r, e)
  BY Zenon DEF Parse, Writes
<1>2. CASE Parses(d, op[r].kind)
  <2>1. PICK n \in 0..MAX_CHUNKS :
          op' = [op EXCEPT ![r] = [doing |-> "delete old", doc |-> d, chunks |-> n,
                                   upserted |-> 0, by |-> ingests']]
    BY Zenon, <1>0, <1>2 DEF Parse
  <2> DEFINE o == [doing |-> "delete old", doc |-> d, chunks |-> n, upserted |-> 0, by |-> ingests']
  <2>2. ingests' = ingests + 1 /\ ingests' \in Nat /\ Enter(r, d)
    <3>1. ingests' = ingests + 1 /\ Enter(r, d)
      BY <1>0, <1>2, Zenon DEF Parse
    <3> QED
      BY <3>1 DEF DocInv, DocShape
  <2>3. o \in Ops /\ o.doing = "delete old" /\ o.doc = d /\ o.upserted = 0
    <3>1. n \in Nat
      BY DocumentsAssumption
    <3> QED
      BY Zenon, <1>1, <2>2, <3>1 DEF Ops
  <2>4. op'[r] = o
    BY Zenon, <2>1 DEF DocInv, DocShape
  <2>5. torn' \in [Docs -> BOOLEAN] /\ \A e \in Docs \ {d} : torn'[e] = torn[e]
    BY <1>1, <2>2 DEF Enter, Torn, DocInv, DocShape
  <2> HIDE DEF o
  <2>6. Writes(r, d)' /\ Underway(r, d)' /\ \A e \in Docs \ {d} : ~Writes(r, e)'
    BY Zenon, <2>3, <2>4 DEF Writes, Underway
  <2>7. Clean(d)'
    BY Zenon, <1>1, <2>1, <2>2, <2>3, <2>6, WriterEnters DEF o
  <2>8. DOMAIN points' = Docs /\ DOMAIN registry' = Docs
    BY <1>1 DEF DocInv, DocShape
  <2>9. \A e \in Docs \ {d} : /\ torn'[e] = torn[e] /\ points'[e] = points[e]
                              /\ registry'[e] = registry[e] /\ ~Writes(r, e) /\ ~Writes(r, e)'
    BY <1>1, <2>5, <2>6
  <2>10. op' = [op EXCEPT ![r] = o]
    BY Zenon, <2>1 DEF o
  <2> QED
    BY Zenon, <1>1, <2>2, <2>3, <2>5, <2>7, <2>8, <2>9, <2>10, OneDocument
<1>3. CASE ~Parses(d, op[r].kind)
  <2>1. op' = [op EXCEPT ![r] = Idle] /\ UNCHANGED <<points, registry, ingests, torn>>
    BY <1>0, <1>1, <1>3, Zenon DEF Parse
  <2>2. Idle \in Ops /\ op'[r].doing = "idle"
    BY Zenon, <2>1, OpShapes DEF Ops, DocInv, DocShape
  <2>3. \A e \in Docs : ~Writes(r, e)'
    BY <2>2 DEF Writes
  <2> QED
    BY <1>1, <2>1, <2>2, <2>3, NoWriter
<1> QED
  BY <1>2, <1>3

LEMMA DeleteKeeps ==
  ASSUME DocInv, NEW r \in Replicas, NEW d \in Docs, Delete(r, d)
  PROVE  DocInv'
<1> DEFINE o == [doing |-> "delete chunks", doc |-> d]
<1>1. /\ op' = [op EXCEPT ![r] = o] /\ Enter(r, d) /\ UNCHANGED <<points, registry, ingests>>
      /\ op[r].doing = "idle"
  BY Zenon, OpShapes DEF Delete
<1>2. o \in Ops /\ o.doing = "delete chunks" /\ o.doc = d
  BY Zenon DEF Ops
<1>3. op'[r] = o
  BY Zenon, <1>1 DEF DocInv, DocShape
<1>4. torn' \in [Docs -> BOOLEAN] /\ \A e \in Docs \ {d} : torn'[e] = torn[e]
  BY Zenon, <1>1 DEF Enter, Torn, DocInv, DocShape
<1> HIDE DEF o
<1>5. /\ Writes(r, d)' /\ Underway(r, d)' /\ \A e \in Docs \ {d} : ~Writes(r, e)'
      /\ \A e \in Docs : ~Writes(r, e)
  BY Zenon, <1>1, <1>2, <1>3 DEF Writes, Underway
<1>6. Clean(d)'
  BY Zenon, <1>1, <1>2, <1>5, WriterEnters
<1>7. DOMAIN points' = Docs /\ DOMAIN registry' = Docs /\ ingests' \in Nat
  BY <1>1 DEF DocInv, DocShape
<1>8. \A e \in Docs \ {d} : /\ torn'[e] = torn[e] /\ points'[e] = points[e]
                            /\ registry'[e] = registry[e] /\ ~Writes(r, e) /\ ~Writes(r, e)'
  BY <1>1, <1>4, <1>5
<1> QED
  BY Zenon, <1>1, <1>2, <1>4, <1>6, <1>7, <1>8, OneDocument

\* The writer's steps but its last: each leaves what the next one needs.
LEMMA WritingKeeps ==
  ASSUME DocInv, NEW r \in Replicas, DeleteOld(r) \/ Upsert(r) \/ EndUpserts(r) \/ DeleteChunks(r)
  PROVE  DocInv'
<1>0. PICK d \in Docs : d = op[r].doc
  BY Zenon, OpShapes DEF DeleteOld, Upsert, EndUpserts, DeleteChunks
<1>1. /\ Writes(r, d) /\ UNCHANGED <<registry, ingests, torn>>
      /\ DOMAIN points = Docs /\ DOMAIN registry = Docs /\ DOMAIN op = Replicas
      /\ torn \in [Docs -> BOOLEAN] /\ ingests \in Nat
  BY Zenon, <1>0 DEF DeleteOld, Upsert, EndUpserts, DeleteChunks, Writes, DocInv, DocShape
\* What such a step must do is this.
<1>2. ASSUME NEW o \in Ops, op' = [op EXCEPT ![r] = o], o.doc = d,
             o.doing \in {"upsert", "register", "unregister"},
             DOMAIN points' = Docs, \A e \in Docs \ {d} : points'[e] = points[e],
             ~torn[d] /\ Underway(r, d) =>
               /\ o.doing = "upsert" => /\ o.upserted <= o.chunks
                                        /\ DOMAIN points'[d] = 0..(o.upserted - 1)
                                        /\ \A i \in DOMAIN points'[d] : points'[d][i].by = o.by
               /\ o.doing = "register" => /\ DOMAIN points'[d] = 0..(o.chunks - 1)
                                          /\ \A i \in DOMAIN points'[d] : points'[d][i].by = o.by
               /\ o.doing = "unregister" => DOMAIN points'[d] = {}
      PROVE  DocInv'
  <2>1. op'[r] = o
    BY <1>1, <1>2
  <2>2. Writes(r, d)' /\ \A e \in Docs \ {d} : ~Writes(r, e) /\ ~Writes(r, e)'
    BY Zenon, <1>0, <1>2, <2>1 DEF Writes
  <2>3. ~torn[d] /\ Underway(r, d) => Underway(r, d)'
    <3> SUFFICES ASSUME ~torn[d], Underway(r, d) PROVE Underway(r, d)'
      OBVIOUS
    <3>1. op'[r].doing # "delete old"
      BY Zenon, <1>2, <2>1
    <3>2. o.doing = "unregister" => Written(d, 0, 0)'
      BY <1>2 DEF Written
    <3> QED
      BY Zenon, <1>2, <2>1, <3>1, <3>2 DEF Underway, Written
  <2>4. Clean(d)'
    BY <1>1, <1>2, <2>2, <2>3, WriterGoesOn
  <2> QED
    BY <1>1, <1>2, <2>2, <2>4, OneDocument
<1>3. CASE DeleteOld(r)
  <2>1. /\ op[r] \in [doing : {"delete old", "upsert", "register"}, doc : Docs, chunks : Nat,
                      upserted : Nat, by : Nat]
        /\ op[r].doing = "delete old"
    BY Zenon, <1>3, OpShapes DEF DeleteOld
  <2> DEFINE o == [op[r] EXCEPT !.doing = "upsert"]
  <2>2. /\ o \in [doing : {"delete old", "upsert", "register"}, doc : Docs, chunks : Nat,
                  upserted : Nat, by : Nat]
        /\ o.doing = "upsert" /\ o.doc = d /\ o.upserted = op[r].upserted /\ o.chunks \in Nat
    BY Zenon, <1>0, <2>1
  <2>3. o \in Ops /\ op' = [op EXCEPT ![r] = o]
    BY Zenon, <1>3, <2>2 DEF Ops, DeleteOld
  <2>4. points' = [points EXCEPT ![d] = <<>>]
    BY Zenon, <1>0, <1>3 DEF DeleteOld
  <2>5. /\ DOMAIN points' = Docs /\ \A e \in Docs \ {d} : points'[e] = points[e]
        /\ DOMAIN points'[d] = {}
    BY <1>1, <2>4
  <2>6. Underway(r, d) => o.upserted = 0
    BY Zenon, <2>1, <2>2 DEF Underway
  <2> HIDE DEF o
  <2>7. Underway(r, d) => /\ o.upserted <= o.chunks /\ DOMAIN points'[d] = 0..(o.upserted - 1)
                          /\ \A i \in DOMAIN points'[d] : points'[d][i].by = o.by
    <3> SUFFICES ASSUME Underway(r, d)
                 PROVE  /\ o.upserted <= o.chunks /\ DOMAIN points'[d] = 0..(o.upserted - 1)
                        /\ \A i \in DOMAIN points'[d] : points'[d][i].by = o.by
      OBVIOUS
    <3>1. o.upserted = 0 /\ o.upserted <= o.chunks
      <4>1. o.chunks \in Nat /\ o.upserted = 0
        BY <2>2, <2>6, Zenon
      <4> QED
        BY <4>1
    <3>2. 0..(0 - 1) = {}
      OBVIOUS
    <3> QED
      BY <2>5, <3>1, <3>2
  <2>8. o.doing \in {"upsert", "register", "unregister"} /\ o.doing # "register"
        /\ o.doing # "unregister"
    BY Zenon, <2>2
  <2> QED
    BY Zenon, <1>2, <2>2, <2>3, <2>5, <2>7, <2>8
<1>4. CASE Upsert(r)
  <2>1. /\ op[r] \in [doing : {"delete old", "upsert", "register"}, doc : Docs, chunks : Nat,
                      upserted : Nat, by : Nat]
        /\ op[r].doing = "upsert" /\ op[r].upserted < op[r].chunks
    BY Zenon, <1>4, OpShapes DEF Upsert
  <2> DEFINE u == op[r].upserted
             last == IF u + BATCH < op[r].chunks THEN u + BATCH ELSE op[r].chunks
             new  == u..(last - 1)
             old  == points[d]
             o    == [op[r] EXCEPT !.upserted = last]
  <2>2. u \in Nat /\ last \in Nat /\ u < last /\ last <= op[r].chunks
    <3>1. u \in Nat /\ op[r].chunks \in Nat /\ u < op[r].chunks
      BY Zenon, <2>1
    <3>2. BATCH \in Nat /\ BATCH > 0
      BY DocumentsAssumption
    <3> HIDE DEF u
    <3> QED
      BY <3>1, <3>2
  <2>3. /\ points' = [points EXCEPT ![d] =
             [i \in DOMAIN old \cup new |->
                IF i \in new THEN [by |-> op[r].by, lexical |-> replica[r].lexical] ELSE old[i]]]
        /\ op' = [op EXCEPT ![r].upserted = last]
    BY <1>0, <1>4, Zenon DEF Upsert
  <2>4. op' = [op EXCEPT ![r] = o]
    BY <2>3
  <2> HIDE DEF last
  <2>5. /\ o \in [doing : {"delete old", "upsert", "register"}, doc : Docs, chunks : Nat,
                  upserted : Nat, by : Nat]
        /\ o.doing = "upsert" /\ o.doc = d /\ o.upserted = last /\ o.chunks = op[r].chunks
        /\ o.by = op[r].by
    BY Zenon, <1>0, <2>1, <2>2
  <2> HIDE DEF o
  <2>6. o \in Ops
    BY Zenon, <2>5 DEF Ops
  <2>7. /\ DOMAIN points' = Docs /\ \A e \in Docs \ {d} : points'[e] = points[e]
        /\ DOMAIN points'[d] = DOMAIN old \cup new
        /\ \A i \in DOMAIN old \cup new :
             points'[d][i].by = IF i \in new THEN op[r].by ELSE old[i].by
    BY <1>1, <2>3
  <2>8. Underway(r, d) => DOMAIN old = 0..(u - 1) /\ \A i \in DOMAIN old : old[i].by = op[r].by
    BY Zenon, <2>1 DEF Underway, Written
  <2>9. (0..(u - 1)) \cup new = 0..(last - 1)
    BY <2>2
  <2> HIDE DEF new, old, u
  <2> QED
    BY Zenon, <1>2, <2>2, <2>4, <2>5, <2>6, <2>7, <2>8, <2>9
<1>5. CASE EndUpserts(r)
  <2>1. /\ op[r] \in [doing : {"delete old", "upsert", "register"}, doc : Docs, chunks : Nat,
                      upserted : Nat, by : Nat]
        /\ op[r].doing = "upsert" /\ op[r].upserted = op[r].chunks
    BY Zenon, <1>5, OpShapes DEF EndUpserts
  <2> DEFINE o == [op[r] EXCEPT !.doing = "register"]
  <2>2. /\ o \in [doing : {"delete old", "upsert", "register"}, doc : Docs, chunks : Nat,
                  upserted : Nat, by : Nat]
        /\ o.doing = "register" /\ o.doc = d /\ o.by = op[r].by /\ o.chunks = op[r].chunks
    BY Zenon, <1>0, <2>1
  <2>3. o \in Ops /\ op' = [op EXCEPT ![r] = o] /\ points' = points
    BY Zenon, <1>5, <2>2 DEF Ops, EndUpserts
  <2>4. Underway(r, d) => /\ DOMAIN points[d] = 0..(o.chunks - 1)
                          /\ \A i \in DOMAIN points[d] : points[d][i].by = o.by
    BY Zenon, <2>1, <2>2 DEF Underway, Written
  <2> HIDE DEF o
  <2> QED
    BY Zenon, <1>1, <1>2, <2>2, <2>3, <2>4
<1>6. CASE DeleteChunks(r)
  <2>1. op[r] \in [doing : {"delete chunks", "unregister"}, doc : Docs]
    BY Zenon, <1>6, OpShapes DEF DeleteChunks
  <2> DEFINE o == [op[r] EXCEPT !.doing = "unregister"]
  <2>2. /\ o \in [doing : {"delete chunks", "unregister"}, doc : Docs]
        /\ o.doing = "unregister" /\ o.doc = d
    BY Zenon, <1>0, <2>1
  <2>3. o \in Ops /\ op' = [op EXCEPT ![r] = o] /\ points' = [points EXCEPT ![d] = <<>>]
    BY Zenon, <1>0, <1>6, <2>2 DEF Ops, DeleteChunks
  <2>4. /\ DOMAIN points' = Docs /\ \A e \in Docs \ {d} : points'[e] = points[e]
        /\ DOMAIN points'[d] = {}
    BY <1>1, <2>3
  <2> HIDE DEF o
  <2> QED
    BY Zenon, <1>2, <2>2, <2>3, <2>4
<1> QED
  BY <1>3, <1>4, <1>5, <1>6

\* The writer's last step leaves the record of what it wrote, or neither record nor chunks.
LEMMA EndsKeep ==
  ASSUME DocInv, NEW r \in Replicas, Register(r) \/ Unregister(r)
  PROVE  DocInv'
<1>0. PICK d \in Docs : d = op[r].doc
  BY Zenon, OpShapes DEF Register, Unregister
<1>1. /\ Writes(r, d) /\ op' = [op EXCEPT ![r] = Idle] /\ UNCHANGED <<points, ingests, torn>>
      /\ DOMAIN points = Docs /\ DOMAIN registry = Docs
      /\ torn \in [Docs -> BOOLEAN] /\ ingests \in Nat
  BY Zenon, <1>0 DEF Register, Unregister, Writes, DocInv, DocShape
<1>2. Idle \in Ops /\ op'[r].doing = "idle"
  BY Zenon, <1>1, OpShapes DEF Ops, DocInv, DocShape
<1>3. \A e \in Docs \ {d} : ~Writes(r, e) /\ ~Writes(r, e)'
  BY Zenon, <1>0, <1>2 DEF Writes
<1>4. CASE Register(r)
  <2>1. registry' = [registry EXCEPT ![d] = [chunks |-> op[r].chunks, by |-> op[r].by]]
        /\ op[r].doing = "register"
    BY <1>0, <1>4 DEF Register
  <2>2. /\ DOMAIN registry' = Docs /\ \A e \in Docs \ {d} : registry'[e] = registry[e]
        /\ registry'[d].chunks = op[r].chunks /\ registry'[d].by = op[r].by
    BY <1>1, <2>1
  <2>3. Underway(r, d) => Written(d, registry[d].chunks, registry[d].by)'
    BY <1>1, <2>1, <2>2 DEF Underway, Written
  <2>4. Clean(d)'
    BY <1>1, <2>3, WriterEnds
  <2> QED
    BY <1>1, <1>2, <1>3, <2>2, <2>4, OneDocument
<1>5. CASE Unregister(r)
  <2>1. registry' = [registry EXCEPT ![d] = NoRecord] /\ op[r].doing = "unregister"
    BY <1>0, <1>5 DEF Unregister
  <2>2. /\ DOMAIN registry' = Docs /\ \A e \in Docs \ {d} : registry'[e] = registry[e]
        /\ registry'[d].chunks = -1
    BY <1>1, <2>1 DEF NoRecord
  <2>3. 0..(0 - 1) = {} /\ 0..(-1 - 1) = {}
    OBVIOUS
  <2>4. Underway(r, d) => Written(d, registry[d].chunks, registry[d].by)'
    BY <1>1, <2>1, <2>2, <2>3 DEF Underway, Written
  <2>5. Clean(d)'
    BY <1>1, <2>4, WriterEnds
  <2> QED
    BY <1>1, <1>2, <1>3, <2>2, <2>5, OneDocument
<1> QED
  BY <1>4, <1>5

\* Who fails or dies while it writes leaves the document torn, and no other.
LEMMA FailuresKeep ==
  ASSUME DocInv, NEW r \in Replicas, Fail(r) \/ Restart(r)
  PROVE  DocInv'
<1>1. /\ op' = [op EXCEPT ![r] = Idle] /\ torn' = [d \in Docs |-> torn[d] \/ Writes(r, d)]
      /\ UNCHANGED <<points, registry, ingests>>
  BY DEF Fail, Restart
<1>2. /\ op' \in [Replicas -> Ops] /\ op'[r].doing = "idle"
      /\ \A q \in Replicas \ {r} : op'[q] = op[q]
  BY Zenon, <1>1, OpShapes DEF Ops, DocInv, DocShape
<1>3. \A d \in Docs : ~Writes(r, d)'
  BY <1>2 DEF Writes
<1>4. DocShape'
  BY Zenon, <1>1, <1>2 DEF DocInv, DocShape, Writes
<1>5. ASSUME NEW d \in Docs PROVE Clean(d)'
  <2>1. CASE Writes(r, d)
    <3>1. torn'[d]
      BY <1>1, <2>1
    <3> QED
      BY <3>1 DEF Clean
  <2>2. CASE ~Writes(r, d)
    <3>1. torn'[d] = torn[d]
      BY <1>1, <2>2 DEF DocInv, DocShape
    <3> QED
      BY <1>1, <1>2, <1>3, <2>2, <3>1, Untouched DEF DocInv
  <2> QED
    BY <2>1, <2>2
<1> QED
  BY <1>4, <1>5 DEF DocInv

LEMMA DocSteps == DocInv /\ [DocNext]_docVars => DocInv'
<1> SUFFICES ASSUME DocInv, [DocNext]_docVars PROVE DocInv'
  OBVIOUS
<1>1. CASE UNCHANGED <<op, points, registry, ingests, torn>>
  <2>1. DocShape'
    BY <1>1 DEF DocInv, DocShape
  <2>2. \A d \in Docs : Clean(d)'
    BY <1>1, Untouched DEF DocInv
  <2> QED
    BY <2>1, <2>2 DEF DocInv
<1>2. ASSUME NEW r \in Replicas,
             \/ LookForIndex(r) \/ CreateIndex(r) \/ LookForCollection(r) \/ CreateCollection(r)
             \/ Inspect(r) \/ IndexPayload(r)
      PROVE  DocInv'
  BY Zenon, <1>1, <1>2 DEF LookForIndex, CreateIndex, LookForCollection, CreateCollection, Inspect,
                    IndexPayload
<1>3. ASSUME NEW r \in Replicas, \E d \in Docs : Upload(r, d) \/ Delete(r, d)
      PROVE  DocInv'
  BY <1>3, UploadKeeps, DeleteKeeps
<1>4. ASSUME NEW r \in Replicas,
             \/ Parse(r) \/ DeleteOld(r) \/ Upsert(r) \/ EndUpserts(r) \/ DeleteChunks(r)
             \/ Register(r) \/ Unregister(r) \/ Fail(r) \/ Restart(r)
      PROVE  DocInv'
  BY <1>4, ParseKeeps, WritingKeeps, EndsKeep, FailuresKeep
<1>5. CASE UNCHANGED docVars
  BY <1>1, <1>5 DEF docVars
<1>6. CASE DocNext
  <2>1. PICK r \in Replicas :
          \/ LookForIndex(r) \/ CreateIndex(r) \/ LookForCollection(r) \/ CreateCollection(r)
          \/ Inspect(r) \/ IndexPayload(r)
          \/ \E d \in Docs : Upload(r, d) \/ Delete(r, d)
          \/ Parse(r) \/ DeleteOld(r) \/ Upsert(r) \/ EndUpserts(r) \/ Register(r)
          \/ DeleteChunks(r) \/ Unregister(r) \/ Fail(r) \/ Restart(r)
    BY <1>6, Zenon DEF DocNext
  <2> QED
    BY <1>2, <1>3, <1>4, <2>1, Zenon
<1> QED
  BY <1>5, <1>6

\* A writer that was alone at a document and got to its end leaves it whole, whatever was torn
\* before and whichever writers fail or die: for any replicas, documents, chunks and batches
\* (IngestionService.ingest and delete, ingestion.py:82-118; replace_document, vector_store.py:141).
THEOREM LoneWriterRepairs == DocSpec => []DocumentRepaired
<1>1. DocInv => DocumentRepaired
  BY DEF DocInv, Clean, Written, DocumentRepaired
<1> QED
  BY <1>1, DocInitially, DocSteps, PTL DEF DocSpec

(***************************************************************************)
(* What the stores can hold                                                *)
(***************************************************************************)

\* A replica that has looked at the collection knows that it is there, and one that is past the
\* index that the cache can be searched.
Starting ==
  /\ replica \in [Replicas -> [stage : Stages, lexical : BOOLEAN]]
  /\ collection \in {"none", "dense", "lexical"}
  /\ \A r \in Replicas :
       /\ replica[r].stage \in {"inspect", "payload indexes", "up"} => collection # "none"
       /\ replica[r].stage \notin {"index", "create index"} => (redisearch => index)
       /\ replica[r].lexical => collection = "lexical"

Bounded(o, n) ==
  o.doing \in {"delete old", "upsert", "register"} => o.chunks <= MAX_CHUNKS /\ o.by <= n
PointsOK(P) ==
  DOMAIN P \subseteq 0..(MAX_CHUNKS - 1) /\ \A i \in DOMAIN P : P[i].lexical => collection = "lexical"
RecordOK(x, n) == x.chunks \in -1..MAX_CHUNKS /\ x.by \in 0..n

StoreInv ==
  /\ Starting
  /\ \A r \in Replicas : Bounded(op[r], ingests)
  /\ \A d \in Docs : PointsOK(points[d]) /\ RecordOK(registry[d], ingests)

LEMMA StoresInitially == DocInit => StoreInv
<1> SUFFICES ASSUME DocInit PROVE StoreInv
  OBVIOUS
<1>1. Starting
  BY Zenon DEF DocInit, Starting, Stages
<1>2. \A r \in Replicas : Bounded(op[r], ingests)
  BY Zenon DEF DocInit, Bounded, Idle
<1>3. ASSUME NEW d \in Docs PROVE PointsOK(points[d]) /\ RecordOK(registry[d], ingests)
  <2>1. points[d] = <<>> /\ registry[d] = NoRecord /\ ingests = 0
    BY DEF DocInit
  <2>2. DOMAIN points[d] = {}
    BY <2>1
  <2> QED
    BY <2>1, <2>2, DocumentsAssumption DEF PointsOK, RecordOK, NoRecord
<1> QED
  BY <1>1, <1>2, <1>3 DEF StoreInv

\* Where a replica goes in its start-up.
LEMMA GoesOn ==
  ASSUME Starting, NEW r \in Replicas, NEW s \in Stages, Goes(r, s)
  PROVE  /\ replica' \in [Replicas -> [stage : Stages, lexical : BOOLEAN]]
         /\ replica'[r].stage = s /\ replica'[r].lexical = replica[r].lexical
         /\ \A q \in Replicas \ {r} : replica'[q] = replica[q]
BY Zenon DEF Starting, Goes

LEMMA StartUpKeeps ==
  ASSUME DocInv, StoreInv, NEW r \in Replicas,
         \/ LookForIndex(r) \/ CreateIndex(r) \/ LookForCollection(r) \/ CreateCollection(r)
         \/ Inspect(r) \/ IndexPayload(r)
  PROVE  StoreInv'
<1>1. UNCHANGED <<op, points, registry, ingests>> /\ redisearch' = redisearch
  BY Zenon DEF LookForIndex, CreateIndex, LookForCollection, CreateCollection, Inspect,
     IndexPayload, stores
<1>2. Starting /\ replica[r] \in [stage : Stages, lexical : BOOLEAN]
  BY Zenon DEF StoreInv, Starting
<1>3. Starting' /\ (collection = "lexical" => collection' = "lexical")
  <2>1. CASE LookForIndex(r)
    <3>1. collection' = collection /\ index' = index
      BY Zenon, <2>1 DEF LookForIndex, stores
    <3>2. PICK s \in Stages : Goes(r, s) /\ (s = "create index" \/ (s = "collection" /\ (redisearch => index)))
      BY Zenon, <2>1 DEF LookForIndex, Stages
    <3>3. replica[r].stage = "index"
      BY Zenon, <2>1 DEF LookForIndex, At
    <3> QED
      BY Zenon, <1>1, <1>2, <3>1, <3>2, <3>3, GoesOn DEF Starting
  <2>2. CASE CreateIndex(r)
    <3>1. collection' = collection /\ index' = TRUE /\ Goes(r, "collection") /\ "collection" \in Stages
      BY Zenon, <2>2 DEF CreateIndex, Stages
    <3> QED
      BY Zenon, <1>1, <1>2, <3>1, GoesOn DEF Starting
  <2>3. CASE LookForCollection(r)
    <3>1. collection' = collection /\ index' = index /\ replica[r].stage = "collection"
      BY <2>3 DEF LookForCollection, stores, At
    <3>2. PICK s \in Stages : Goes(r, s) /\ (s = "create" \/ (s = "inspect" /\ collection # "none"))
      BY <2>3 DEF LookForCollection, Stages
    <3> QED
      BY Zenon, <1>1, <1>2, <3>1, <3>2, GoesOn DEF Starting
  <2>4. CASE CreateCollection(r)
    <3>1. /\ index' = index /\ replica[r].stage = "create" /\ Goes(r, "inspect") /\ "inspect" \in Stages
          /\ collection' # "none" /\ collection' \in {"none", "dense", "lexical"}
          /\ collection = "lexical" => collection' = "lexical"
      BY Zenon, <1>2, <2>4 DEF CreateCollection, At, Stages, Starting
    <3> QED
      BY Zenon, <1>1, <1>2, <3>1, GoesOn DEF Starting
  <2>5. CASE Inspect(r)
    <3>1. collection' = collection /\ index' = index /\ replica[r].stage = "inspect"
      BY Zenon, <2>5 DEF Inspect, stores, At
    <3>2. PICK f \in Found(r) : replica' = [replica EXCEPT ![r] = [stage |-> "payload indexes", lexical |-> f]]
      BY Zenon, <2>5 DEF Inspect
    <3>3. f \in BOOLEAN /\ (f => collection = "lexical")
      <4>1. f = (wanted[r] /\ collection = "lexical") \/ f = FALSE
        BY DEF Found
      <4> QED
        BY <4>1
    <3>4. /\ replica' \in [Replicas -> [stage : Stages, lexical : BOOLEAN]]
          /\ replica'[r].stage = "payload indexes" /\ replica'[r].lexical = f
          /\ \A q \in Replicas \ {r} : replica'[q] = replica[q]
      BY Zenon, <1>2, <3>2, <3>3 DEF Starting, Stages
    <3> QED
      BY Zenon, <1>1, <1>2, <3>1, <3>3, <3>4 DEF Starting
  <2>6. CASE IndexPayload(r)
    <3>1. /\ collection' = collection /\ index' = index /\ replica[r].stage = "payload indexes"
          /\ Goes(r, "up") /\ "up" \in Stages
      BY Zenon, <2>6 DEF IndexPayload, stores, At, Stages
    <3> QED
      BY Zenon, <1>1, <1>2, <3>1, GoesOn DEF Starting
  <2> QED
    BY <2>1, <2>2, <2>3, <2>4, <2>5, <2>6
<1> QED
  BY Zenon, <1>1, <1>3 DEF StoreInv, Bounded, PointsOK, RecordOK

\* More ingestions leave room for what fewer have done.
LEMMA RoomGrows ==
  ASSUME NEW m \in Nat, NEW n \in Nat, m <= n
  PROVE  /\ \A o : (o.doing \in {"delete old", "upsert", "register"} => o.by \in Nat) /\ Bounded(o, m)
                   => Bounded(o, n)
         /\ \A x : RecordOK(x, m) => RecordOK(x, n)
<1>1. \A b \in Nat : b <= m => b <= n
  OBVIOUS
<1>2. \A b \in 0..m : b \in 0..n
  OBVIOUS
<1>3. \A o : (o.doing \in {"delete old", "upsert", "register"} => o.by \in Nat) /\ Bounded(o, m)
             => Bounded(o, n)
  BY <1>1, Zenon DEF Bounded
<1>4. \A x : RecordOK(x, m) => RecordOK(x, n)
  BY <1>2, Zenon DEF RecordOK
<1> QED
  BY <1>3, <1>4, Zenon

\* What a replica does to documents once it is up.
LEMMA WorkKeeps ==
  ASSUME DocInv, StoreInv, NEW r \in Replicas, NEW o, Bounded(o, ingests'),
         op' = [op EXCEPT ![r] = o], UNCHANGED <<redisearch, index, collection, replica>>,
         ingests' \in Nat, ingests <= ingests',
         \A d \in Docs : PointsOK(points'[d]),
         \A d \in Docs : registry'[d] = registry[d] \/ RecordOK(registry'[d], ingests')
  PROVE  StoreInv'
<1>1. DOMAIN op = Replicas /\ ingests \in Nat
  BY DEF DocInv, DocShape
<1>2. Starting'
  BY Zenon, <1>1 DEF StoreInv, Starting
<1>3. /\ \A p : (p.doing \in {"delete old", "upsert", "register"} => p.by \in Nat) /\ Bounded(p, ingests)
                => Bounded(p, ingests')
      /\ \A x : RecordOK(x, ingests) => RecordOK(x, ingests')
  BY Zenon, <1>1, RoomGrows
<1>4. ASSUME NEW q \in Replicas PROVE Bounded(op'[q], ingests')
  <2>1. CASE q = r
    BY <1>1, <2>1
  <2>2. CASE q # r
    <3>1. op'[q] = op[q] /\ Bounded(op[q], ingests)
      BY <1>1, <2>2 DEF StoreInv
    <3>2. op[q].doing \in {"delete old", "upsert", "register"} => op[q].by \in Nat
      BY Zenon, OpShapes
    <3> QED
      BY <1>3, <3>1, <3>2, Zenon
  <2> QED
    BY <2>1, <2>2
<1>5. \A d \in Docs : PointsOK(points[d])'
  BY DEF PointsOK
<1>6. \A d \in Docs : RecordOK(registry'[d], ingests')
  BY <1>3, Zenon DEF StoreInv
<1> QED
  BY <1>2, <1>4, <1>5, <1>6 DEF StoreInv

LEMMA DocumentsKeepStores ==
  ASSUME DocInv, StoreInv, NEW r \in Replicas,
         \/ \E d \in Docs : Upload(r, d) \/ Delete(r, d)
         \/ Parse(r) \/ DeleteOld(r) \/ Upsert(r) \/ EndUpserts(r) \/ Register(r)
         \/ DeleteChunks(r) \/ Unregister(r) \/ Fail(r)
  PROVE  StoreInv'
<1> DEFINE W == [doing : {"delete old", "upsert", "register"}, doc : Docs, chunks : Nat,
                 upserted : Nat, by : Nat]
<1>1. /\ UNCHANGED <<redisearch, index, collection, replica>> /\ ingests \in Nat
      /\ DOMAIN op = Replicas /\ DOMAIN points = Docs /\ DOMAIN registry = Docs
  BY Zenon DEF Upload, Delete, Parse, DeleteOld, Upsert, EndUpserts, Register, DeleteChunks,
     Unregister, Fail,
         stores, DocInv, DocShape
<1>0. ingests <= ingests
  BY <1>1
<1>2. \A d \in Docs : PointsOK(points[d]) /\ RecordOK(registry[d], ingests)
  BY DEF StoreInv
<1>3. PointsOK(<<>>)
  BY DEF PointsOK
<1>4. \A n : Bounded(Idle, n)
  BY DEF Bounded, Idle
<1>5. op[r].doing \in {"delete old", "upsert", "register"} =>
        op[r] \in W /\ op[r].chunks <= MAX_CHUNKS /\ op[r].by <= ingests
  BY Zenon, OpShapes DEF StoreInv, Bounded
<1>6. MAX_CHUNKS \in Nat /\ BATCH \in Nat
  BY DocumentsAssumption
<1>7. CASE \E d \in Docs : Upload(r, d) \/ Delete(r, d)
  <2>1. \E o : op' = [op EXCEPT ![r] = o] /\ o.doing \in {"parse", "delete chunks"}
    <3>1. PICK d \in Docs : Upload(r, d) \/ Delete(r, d)
      BY <1>7
    <3>2. CASE Delete(r, d)
      <4>1. [doing |-> "delete chunks", doc |-> d].doing = "delete chunks"
        OBVIOUS
      <4> QED
        BY <3>2, <4>1, Zenon DEF Delete
    <3>3. CASE Upload(r, d)
      <4>1. PICK k : op' = [op EXCEPT ![r] = [doing |-> "parse", doc |-> d, kind |-> k]]
        BY <3>3, Zenon DEF Upload
      <4>2. [doing |-> "parse", doc |-> d, kind |-> k].doing = "parse"
        OBVIOUS
      <4> QED
        BY <4>1, <4>2, Zenon
    <3> QED
      BY Zenon, <3>1, <3>2, <3>3
  <2>2. PICK o : op' = [op EXCEPT ![r] = o] /\ o.doing \in {"parse", "delete chunks"}
    BY Zenon, <2>1
  <2>3. UNCHANGED <<points, registry, ingests>>
    BY Zenon, <1>7 DEF Upload, Delete
  <2>4. Bounded(o, ingests')
    BY Zenon, <2>2 DEF Bounded
  <2> QED
    BY Zenon, <1>0, <1>1, <1>2, <2>2, <2>3, <2>4, WorkKeeps
<1>8. CASE Parse(r)
  <2>1. UNCHANGED <<points, registry>>
    BY Zenon, <1>8 DEF Parse
  <2>2. CASE op' = [op EXCEPT ![r] = Idle] /\ ingests' = ingests
    BY <1>0, <1>1, <1>2, <1>4, <2>1, <2>2, WorkKeeps
  <2>3. CASE ~(op' = [op EXCEPT ![r] = Idle] /\ ingests' = ingests)
    <3>1. Parses(op[r].doc, op[r].kind)
      BY <1>8, <2>3, Zenon DEF Parse
    <3>2. /\ ingests' = ingests + 1
          /\ \E n \in 0..MAX_CHUNKS :
               op' = [op EXCEPT ![r] = [doing |-> "delete old", doc |-> op[r].doc, chunks |-> n,
                                        upserted |-> 0, by |-> ingests']]
      BY <1>8, <3>1, Zenon DEF Parse
    <3>3. PICK n \in 0..MAX_CHUNKS :
               op' = [op EXCEPT ![r] = [doing |-> "delete old", doc |-> op[r].doc, chunks |-> n,
                                        upserted |-> 0, by |-> ingests']]
      BY Zenon, <3>2
    <3> DEFINE o == [doing |-> "delete old", doc |-> op[r].doc, chunks |-> n, upserted |-> 0,
                     by |-> ingests']
    <3>4. o.chunks <= MAX_CHUNKS /\ o.by = ingests' /\ ingests' \in Nat /\ ingests <= ingests'
      <4>0. ingests' = ingests + 1 /\ ingests \in Nat
        BY <1>1, <3>2, Zenon
      <4>1. ingests' \in Nat /\ ingests <= ingests'
        BY <4>0
      <4>3. n <= MAX_CHUNKS
        BY <1>6
      <4>2. o.chunks = n /\ o.by = ingests'
        OBVIOUS
      <4> QED
        BY <4>1, <4>2, <4>3, Zenon
    <3>5. op' = [op EXCEPT ![r] = o]
      BY Zenon, <3>3
    <3> HIDE DEF o
    <3>6. Bounded(o, ingests')
      <4>1. ingests' <= ingests'
        BY <3>4
      <4> QED
        BY <3>4, <4>1, Zenon DEF Bounded
    <3>7. UNCHANGED <<redisearch, index, collection, replica>> /\ \A d \in Docs : PointsOK(points'[d]) /\ registry'[d] = registry[d]
      BY <1>1, <1>2, <2>1
    <3> QED
      BY <3>4, <3>5, <3>6, <3>7, WorkKeeps
  <2> QED
    BY <2>2, <2>3
<1>9. ASSUME NEW s \in {"upsert", "register"}, op[r] \in W,
             op' = [op EXCEPT ![r].doing = s], UNCHANGED <<registry, ingests>>,
             \A d \in Docs : PointsOK(points'[d])
      PROVE  StoreInv'
  <2>1. op' = [op EXCEPT ![r] = [op[r] EXCEPT !.doing = s]]
    BY Zenon, <1>9
  <2>2. [op[r] EXCEPT !.doing = s].chunks = op[r].chunks /\ [op[r] EXCEPT !.doing = s].by = op[r].by
    BY Zenon, <1>9
  <2>3. op[r].doing \in {"delete old", "upsert", "register"}
    BY Zenon, <1>9
  <2> DEFINE o == [op[r] EXCEPT !.doing = s]
  <2>4. Bounded(o, ingests')
    BY Zenon, <1>5, <1>9, <2>2, <2>3 DEF Bounded
  <2>5. op' = [op EXCEPT ![r] = o] /\ \A d \in Docs : registry'[d] = registry[d]
    BY Zenon, <1>9, <2>1
  <2>6. ingests' \in Nat /\ ingests <= ingests'
    BY <1>0, <1>1, <1>9, Zenon
  <2> HIDE DEF o
  <2> QED
    BY Zenon, <1>1, <1>9, <2>4, <2>5, <2>6, WorkKeeps
<1>10. CASE DeleteOld(r)
  <2>1. op' = [op EXCEPT ![r].doing = "upsert"] /\ op[r] \in W /\ UNCHANGED <<registry, ingests>>
    BY Zenon, <1>5, <1>10 DEF DeleteOld
  <2>2. \A d \in Docs : PointsOK(points'[d])
    BY Zenon, <1>1, <1>2, <1>3, <1>10 DEF DeleteOld
  <2> QED
    BY Zenon, <1>9, <2>1, <2>2
<1>11. CASE EndUpserts(r)
  <2>1. op' = [op EXCEPT ![r].doing = "register"] /\ op[r] \in W /\ UNCHANGED <<points, registry, ingests>>
    BY Zenon, <1>5, <1>11 DEF EndUpserts
  <2> QED
    BY Zenon, <1>2, <1>9, <2>1
<1>12. CASE Upsert(r)
  <2> DEFINE o == op[r]
             last == IF o.upserted + BATCH < o.chunks THEN o.upserted + BATCH ELSE o.chunks
             new == o.upserted..(last - 1)
             old == points[o.doc]
             P == [i \in DOMAIN old \cup new |->
                     IF i \in new THEN [by |-> o.by, lexical |-> replica[r].lexical] ELSE old[i]]
  <2>1. /\ o.doing = "upsert" /\ o.upserted < o.chunks
        /\ points' = [points EXCEPT ![o.doc] = P]
        /\ op' = [op EXCEPT ![r].upserted = last]
        /\ UNCHANGED <<registry, ingests>>
    BY <1>12, Zenon DEF Upsert
  <2>2. o \in W /\ o.chunks <= MAX_CHUNKS /\ o.by <= ingests
    BY Zenon, <1>5, <2>1
  <2>3. o.doc \in Docs /\ o.upserted \in Nat /\ o.chunks \in Nat /\ last \in Nat /\ last <= o.chunks
    <3>1. o.doc \in Docs /\ o.upserted \in Nat /\ o.chunks \in Nat
      BY Zenon, <2>2
    <3>2. \A u, n \in Nat : LET m == IF u + BATCH < n THEN u + BATCH ELSE n IN m \in Nat /\ m <= n
      BY <1>6
    <3>3. last \in Nat /\ last <= o.chunks
      BY <3>1, <3>2
    <3> QED
      BY <3>1, <3>3
  <2>4. new \subseteq 0..(MAX_CHUNKS - 1)
    <3>1. \A u, m, n \in Nat : m <= n /\ n <= MAX_CHUNKS => u..(m - 1) \subseteq 0..(MAX_CHUNKS - 1)
      BY <1>6
    <3> HIDE DEF o, last
    <3> QED
      BY Zenon, <2>2, <2>3, <3>1
  <2>5. PointsOK(old)
    BY <1>2, <2>3
  <2>6. replica[r].lexical => collection = "lexical"
    BY Zenon DEF StoreInv, Starting
  <2>7. op' = [op EXCEPT ![r] = [o EXCEPT !.upserted = last]]
    BY <2>1
  <2>8. [o EXCEPT !.upserted = last].chunks = o.chunks /\ [o EXCEPT !.upserted = last].by = o.by
    BY Zenon, <2>2
  <2> HIDE DEF o, last, new, old
  <2>9. PointsOK(P)
    <3>1. DOMAIN P = DOMAIN old \cup new
      OBVIOUS
    <3>2. ASSUME NEW i \in DOMAIN P, P[i].lexical PROVE collection = "lexical"
      BY <2>5, <2>6, <3>1, <3>2 DEF PointsOK
    <3> QED
      BY <2>4, <2>5, <3>1, <3>2 DEF PointsOK
  <2> HIDE DEF P
  <2>10. \A d \in Docs : PointsOK(points'[d])
    BY <1>1, <1>2, <2>1, <2>3, <2>9
  <2>11. Bounded([o EXCEPT !.upserted = last], ingests')
    BY Zenon, <2>1, <2>2, <2>8 DEF Bounded
  <2>12. ingests' \in Nat /\ ingests <= ingests' /\ \A d \in Docs : registry'[d] = registry[d]
    BY <1>0, <1>1, <2>1, Zenon
  <2> QED
    BY <1>1, <2>7, <2>10, <2>11, <2>12, WorkKeeps
<1>13. CASE Register(r)
  <2>1. /\ op' = [op EXCEPT ![r] = Idle] /\ UNCHANGED <<points, ingests>> /\ op[r] \in W
        /\ registry' = [registry EXCEPT ![op[r].doc] = [chunks |-> op[r].chunks, by |-> op[r].by]]
    BY Zenon, <1>5, <1>13 DEF Register
  <2>2. op[r].chunks \in -1..MAX_CHUNKS /\ op[r].by \in 0..ingests
    <3>1. op[r].doing \in {"delete old", "upsert", "register"}
      BY Zenon, <2>1
    <3>2. op[r].chunks \in Nat /\ op[r].by \in Nat /\ op[r].chunks <= MAX_CHUNKS /\ op[r].by <= ingests
      BY Zenon, <1>5, <2>1, <3>1
    <3>3. \A c, b \in Nat : c <= MAX_CHUNKS /\ b <= ingests => c \in -1..MAX_CHUNKS /\ b \in 0..ingests
      BY <1>1, <1>6
    <3> QED
      BY <3>2, <3>3
  <2>3. \A d \in Docs : registry'[d] = registry[d]
           \/ RecordOK(registry'[d], ingests')
    BY Zenon, <1>1, <2>1, <2>2 DEF RecordOK
  <2> QED
    BY Zenon, <1>0, <1>1, <1>2, <1>4, <2>1, <2>3, WorkKeeps
<1>14. CASE DeleteChunks(r)
  <2>1. /\ op[r] \in [doing : {"delete chunks", "unregister"}, doc : Docs]
        /\ op' = [op EXCEPT ![r] = [op[r] EXCEPT !.doing = "unregister"]]
        /\ UNCHANGED <<registry, ingests>>
    BY Zenon, <1>14, OpShapes DEF DeleteChunks
  <2>2. [op[r] EXCEPT !.doing = "unregister"].doing = "unregister"
    BY Zenon, <2>1
  <2>3. /\ ingests' \in Nat /\ ingests <= ingests' /\ \A d \in Docs : registry'[d] = registry[d]
        /\ Bounded([op[r] EXCEPT !.doing = "unregister"], ingests')
    BY Zenon, <1>0, <1>1, <2>1, <2>2 DEF Bounded
  <2>4. \A d \in Docs : PointsOK(points'[d])
    BY Zenon, <1>1, <1>2, <1>3, <1>14 DEF DeleteChunks
  <2> QED
    BY Zenon, <1>1, <2>1, <2>2, <2>3, <2>4, WorkKeeps
<1>15. CASE Unregister(r)
  <2>1. /\ op' = [op EXCEPT ![r] = Idle] /\ UNCHANGED <<points, ingests>>
        /\ registry' = [registry EXCEPT ![op[r].doc] = NoRecord]
    BY <1>15 DEF Unregister
  <2>2. NoRecord.chunks \in -1..MAX_CHUNKS /\ NoRecord.by \in 0..ingests
    BY <1>1, <1>6 DEF NoRecord
  <2>3. \A d \in Docs : registry'[d] = registry[d]
           \/ RecordOK(registry'[d], ingests')
    BY <1>1, <2>1, <2>2 DEF RecordOK
  <2> QED
    BY <1>0, <1>1, <1>2, <1>4, <2>1, <2>3, WorkKeeps
<1>16. CASE Fail(r)
  <2>1. op' = [op EXCEPT ![r] = Idle] /\ UNCHANGED <<points, registry, ingests>>
    BY <1>16 DEF Fail
  <2> QED
    BY <1>0, <1>1, <1>2, <1>4, <2>1, WorkKeeps
<1> QED
  BY <1>7, <1>8, <1>10, <1>11, <1>12, <1>13, <1>14, <1>15, <1>16

LEMMA RestartKeepsStores ==
  ASSUME DocInv, StoreInv, NEW r \in Replicas, Restart(r)
  PROVE  StoreInv'
<1>1. /\ op' = [op EXCEPT ![r] = Idle] /\ UNCHANGED <<redisearch, index, collection, points, registry, ingests>>
      /\ replica' = [replica EXCEPT ![r] = [stage |-> "index", lexical |-> FALSE]]
      /\ DOMAIN op = Replicas
  BY DEF Restart, stores, DocInv, DocShape
<1>2. Starting'
  BY Zenon, <1>1 DEF StoreInv, Starting, Stages
<1>3. \A q \in Replicas : Bounded(op[q], ingests)'
  BY Zenon, <1>1 DEF StoreInv, Bounded, Idle
<1>4. \A d \in Docs : PointsOK(points[d])' /\ RecordOK(registry[d], ingests)'
  BY <1>1 DEF StoreInv, PointsOK, RecordOK
<1> QED
  BY <1>2, <1>3, <1>4 DEF StoreInv

LEMMA StoreSteps == DocInv /\ StoreInv /\ [DocNext]_docVars => StoreInv'
<1> SUFFICES ASSUME DocInv, StoreInv, [DocNext]_docVars PROVE StoreInv'
  OBVIOUS
<1>1. CASE UNCHANGED docVars
  BY Zenon, <1>1 DEF docVars, StoreInv, Starting, Bounded, PointsOK, RecordOK
<1>2. CASE DocNext
  <2>1. PICK r \in Replicas :
      \/ LookForIndex(r) \/ CreateIndex(r) \/ LookForCollection(r) \/ CreateCollection(r)
      \/ Inspect(r) \/ IndexPayload(r)
      \/ \E d \in Docs : Upload(r, d) \/ Delete(r, d)
      \/ Parse(r) \/ DeleteOld(r) \/ Upsert(r) \/ EndUpserts(r) \/ Register(r)
      \/ DeleteChunks(r) \/ Unregister(r) \/ Fail(r) \/ Restart(r)
    BY <1>2, Zenon DEF DocNext
  <2> QED
    BY <2>1, StartUpKeeps, DocumentsKeepStores, RestartKeepsStores, Zenon
<1> QED
  BY <1>1, <1>2

LEMMA DocHolds == DocSpec => [](DocInv /\ StoreInv)
<1>1. DocInit => DocInv /\ StoreInv
  BY DocInitially, StoresInitially
<1>2. DocInv /\ StoreInv /\ [DocNext]_docVars => (DocInv /\ StoreInv)'
  BY DocSteps, StoreSteps
<1> QED
  BY <1>1, <1>2, PTL DEF DocSpec

\* Only a collection that is there serves, and only one with a lexical vector is searched or written
\* with one, however many replicas of however many releases start at once; the stores hold no chunk
\* beyond the bound, whatever stops a writer (QdrantChunkStore.setup, vector_store.py:94-135;
\* replace_document, :141).
THEOREM StoresTyped == DocSpec => []DocTypeOK
<1>1. DocInv /\ StoreInv => DocTypeOK
  BY Zenon DEF StoreInv, Starting, PointsOK, RecordOK, DocTypeOK, At
<1> QED
  BY <1>1, DocHolds, PTL

(***************************************************************************)
(* What a search returns                                                   *)
(***************************************************************************)

Distinct(s) == \A i, j \in DOMAIN s : s[i] = s[j] => i = j

LEMMA DistinctCount ==
  ASSUME NEW S, NEW s \in Seq(S), Distinct(s)
  PROVE  IsFiniteSet(Elements(s)) /\ Cardinality(Elements(s)) = Len(s)
<1>1. Len(s) \in Nat /\ DOMAIN s = 1..Len(s)
  OBVIOUS
<1>2. s \in [1..Len(s) -> Elements(s)]
  BY DEF Elements
<1>3. s \in Injection(1..Len(s), Elements(s)) /\ s \in Surjection(1..Len(s), Elements(s))
  BY <1>1, <1>2 DEF Distinct, Elements, Injection, Surjection, IsInjective
<1>4. IsFiniteSet(1..Len(s)) /\ Cardinality(1..Len(s)) = Len(s)
  BY <1>1, FS_Interval
<1> QED
  BY <1>3, <1>4, FS_Surjection

LEMMA PrefixIs ==
  ASSUME NEW S, NEW s \in Seq(S), NEW n \in Nat
  PROVE  /\ Prefix(s, n) \in Seq(S) /\ Len(Prefix(s, n)) = Least(n, Len(s))
         /\ \A i \in 1..Least(n, Len(s)) : Prefix(s, n)[i] = s[i]
         /\ Elements(Prefix(s, n)) \subseteq Elements(s)
         /\ Distinct(s) => Distinct(Prefix(s, n))
<1> DEFINE m == Least(n, Len(s))
<1>1. m \in 0..Len(s) /\ m \in Nat /\ m <= n
  BY DEF Least
<1>2. Prefix(s, n) = SubSeq(s, 1, m)
  BY DEF Prefix
<1> HIDE DEF m
<1>3. /\ SubSeq(s, 1, m) \in Seq(S) /\ Len(SubSeq(s, 1, m)) = m
      /\ \A i \in 1..m : SubSeq(s, 1, m)[i] = s[i]
  BY <1>1
<1>4. /\ Prefix(s, n) \in Seq(S) /\ Len(Prefix(s, n)) = m
      /\ \A i \in 1..m : Prefix(s, n)[i] = s[i]
  BY <1>2, <1>3
<1>5. DOMAIN Prefix(s, n) = 1..m /\ 1..m \subseteq DOMAIN s
  BY <1>1, <1>4
<1> QED
  BY <1>4, <1>5 DEF Elements, Distinct, m

LEMMA RankingIs ==
  ASSUME NEW S, IsFiniteSet(S), NEW n \in Nat, NEW r \in RankingsOf(S, n)
  PROVE  /\ r \in Seq(S) /\ Distinct(r) /\ Elements(r) \subseteq S
         /\ Len(r) <= n /\ Len(r) <= Cardinality(S)
<1>1. Cardinality(S) \in Nat
  BY FS_CardinalityType
<1>2. Least(n, Cardinality(S)) \in Nat /\ Least(n, Cardinality(S)) <= n /\ Least(n, Cardinality(S)) <= Cardinality(S)
  BY <1>1 DEF Least
<1>3. PICK k \in 0..Least(n, Cardinality(S)) : r \in [1..k -> S]
  BY DEF RankingsOf
<1>4. r \in Seq(S) /\ Len(r) = k
  BY <1>2, <1>3
<1>5. Distinct(r)
  BY DEF RankingsOf, Distinct
<1> QED
  BY <1>1, <1>2, <1>3, <1>4, <1>5 DEF Elements

\* The places that Outranks gives the candidates: every one is somebody's, and nobody shares one.
Place(s, D, i) == 1 + Cardinality({j \in D : Outranks(s, j, i)})

LEMMA Places ==
  ASSUME NEW m \in Nat, NEW s, \A i \in 1..m : s[i] \in Int
  PROVE  /\ \A i \in 1..m : Place(s, 1..m, i) \in 1..m
         /\ \A i, j \in 1..m : Place(s, 1..m, i) < Place(s, 1..m, j) => Outranks(s, i, j)
         /\ \A i, j \in 1..m : Place(s, 1..m, i) = Place(s, 1..m, j) => i = j
         /\ \A n \in 1..m : \E i \in 1..m : Place(s, 1..m, i) = n
<1> DEFINE D == 1..m
           Ahd(i) == {j \in D : Outranks(s, j, i)}
           place == [i \in D |-> Place(s, D, i)]
<1>1. IsFiniteSet(D) /\ Cardinality(D) = m
  BY FS_Interval
<1>2. \A i \in D : IsFiniteSet(Ahd(i)) /\ Cardinality(Ahd(i)) \in Nat
  BY <1>1, FS_Subset, FS_CardinalityType
<1>3. ASSUME NEW i \in D, NEW j \in D
      PROVE  /\ ~Outranks(s, i, i)
             /\ Outranks(s, i, j) \/ Outranks(s, j, i) \/ i = j
             /\ \A k \in D : Outranks(s, k, i) /\ Outranks(s, i, j) => Outranks(s, k, j)
  BY DEF Outranks
<1>4. ASSUME NEW i \in D, NEW j \in D, Outranks(s, i, j)
      PROVE  Cardinality(Ahd(i)) < Cardinality(Ahd(j))
  <2>1. Ahd(i) \subseteq Ahd(j) /\ i \in Ahd(j) /\ i \notin Ahd(i)
    BY <1>3, <1>4
  <2>2. Ahd(i) # Ahd(j)
    BY <2>1
  <2> HIDE DEF Ahd
  <2> QED
    BY <1>2, <2>1, <2>2, FS_Subset
<1>5. ASSUME NEW i \in D PROVE Cardinality(Ahd(i)) < m
  <2>1. Ahd(i) \subseteq D /\ i \notin Ahd(i)
    BY <1>3
  <2>2. Ahd(i) # D
    BY <2>1
  <2> HIDE DEF Ahd
  <2> QED
    BY <1>1, <1>2, <2>1, <2>2, FS_Subset
<1>6. \A i : Place(s, D, i) = 1 + Cardinality(Ahd(i))
  BY DEF Place
<1> HIDE DEF Ahd
<1>7. \A i \in D : Place(s, D, i) \in D /\ Place(s, D, i) \in Nat
  BY <1>2, <1>5, <1>6
<1>8. \A i, j \in D : Outranks(s, i, j) => Place(s, D, i) < Place(s, D, j)
  BY <1>2, <1>4, <1>6
<1> HIDE DEF D
<1>9. \A i, j \in D : Place(s, D, i) < Place(s, D, j) => Outranks(s, i, j)
  <2> SUFFICES ASSUME NEW i \in D, NEW j \in D, Place(s, D, i) < Place(s, D, j)
               PROVE  Outranks(s, i, j)
    OBVIOUS
  <2>1. Place(s, D, i) \in Nat /\ Place(s, D, j) \in Nat
    BY <1>7
  <2>2. ~Outranks(s, j, i) /\ i # j
    BY <1>8, <2>1
  <2> QED
    BY <1>3, <2>2
<1>10. \A i, j \in D : Place(s, D, i) = Place(s, D, j) => i = j
  <2> SUFFICES ASSUME NEW i \in D, NEW j \in D, Place(s, D, i) = Place(s, D, j)
               PROVE  i = j
    OBVIOUS
  <2>1. Place(s, D, i) \in Nat /\ Place(s, D, j) \in Nat
    BY <1>7
  <2>2. ~Outranks(s, j, i) /\ ~Outranks(s, i, j)
    BY <1>8, <2>1
  <2> QED
    BY <1>3, <2>2
<1>11. place \in Injection(D, D)
  BY <1>7, <1>10 DEF Injection, IsInjective
<1>12. place \in Surjection(D, D)
  BY <1>1, <1>11, FS_Injection
<1>13. \A n \in D : \E i \in D : Place(s, D, i) = n
  BY <1>12 DEF Surjection
<1> QED
  BY <1>7, <1>9, <1>10, <1>13 DEF D

\* Where a passage stands among the candidates, and what "the best, in order" says of a reranking.
Pos(s, c) == CHOOSE i \in DOMAIN s : s[i] = c
BestFirst(s, x, p) ==
  /\ \A c \in Elements(p), o \in Elements(s) \ Elements(p) : x[Pos(s, c)] >= x[Pos(s, o)]
  /\ \A m, n \in DOMAIN p : m < n =>
       \/ x[Pos(s, p[m])] > x[Pos(s, p[n])]
       \/ x[Pos(s, p[m])] = x[Pos(s, p[n])] /\ Pos(s, p[m]) < Pos(s, p[n])

LEMMA PosIs ==
  ASSUME NEW S, NEW s \in Seq(S), Distinct(s), NEW i \in DOMAIN s
  PROVE  Pos(s, s[i]) = i
<1>1. Pos(s, s[i]) \in DOMAIN s /\ s[Pos(s, s[i])] = s[i]
  BY DEF Pos
<1> QED
  BY <1>1 DEF Distinct

\* p is the first k of s as x ranks them: at[n] is who is n-th.
PickedBy(s, x, k, at, p) ==
  /\ \A i \in 1..Len(s) : x[i] \in Int
  /\ k \in Nat /\ k <= Len(s)
  /\ \A n \in 1..Len(s) : at[n] \in 1..Len(s) /\ Place(x, 1..Len(s), at[n]) = n
  /\ p = [n \in 1..k |-> s[at[n]]]

LEMMA RankedBest ==
  ASSUME NEW S, NEW s \in Seq(S), Distinct(s), NEW x, NEW k, NEW at, NEW p,
         PickedBy(s, x, k, at, p)
  PROVE  p \in Seq(S) /\ Len(p) = k /\ Distinct(p) /\ Elements(p) \subseteq Elements(s)
         /\ BestFirst(s, x, p)
<1> DEFINE m == Len(s)
           place(i) == Place(x, 1..m, i)
<1> USE DEF PickedBy
<1>1. m \in Nat /\ DOMAIN s = 1..m /\ 1..k \subseteq 1..m
  OBVIOUS
<1>2. p \in Seq(S) /\ Len(p) = k /\ DOMAIN p = 1..k /\ \A n \in 1..k : p[n] = s[at[n]]
  BY <1>1
<1>3. /\ \A i \in 1..m : place(i) \in 1..m
      /\ \A i, j \in 1..m : place(i) < place(j) => Outranks(x, i, j)
      /\ \A i, j \in 1..m : place(i) = place(j) => i = j
  BY <1>1, Places
<1>4. \A n \in 1..k : at[n] \in 1..m /\ place(at[n]) = n /\ Pos(s, p[n]) = at[n]
  BY <1>1, <1>2, PosIs
<1>5. \A n, l \in 1..k : n < l => Outranks(x, at[n], at[l])
  BY <1>3, <1>4
<1>6. \A i \in 1..m : place(i) <= k => i = at[place(i)]
  BY <1>1, <1>3
<1>7. Distinct(p)
  <2> SUFFICES ASSUME NEW n \in 1..k, NEW l \in 1..k, p[n] = p[l] PROVE n = l
    BY <1>2 DEF Distinct
  <2>1. at[n] = at[l]
    BY <1>4
  <2> QED
    BY <2>1, <1>4
<1>8. Elements(p) \subseteq Elements(s)
  BY <1>1, <1>2, <1>4 DEF Elements
<1>9. ASSUME NEW c \in Elements(p), NEW o \in Elements(s) \ Elements(p)
      PROVE  x[Pos(s, c)] >= x[Pos(s, o)]
  <2>1. PICK n \in 1..k : c = p[n]
    BY <1>2 DEF Elements
  <2>2. PICK j \in 1..m : o = s[j]
    BY <1>1 DEF Elements
  <2>3. ~(place(j) <= k)
    <3>1. SUFFICES ASSUME place(j) <= k PROVE FALSE
      OBVIOUS
    <3>2. place(j) \in 1..k /\ s[at[place(j)]] = o
      BY <1>3, <1>6, <2>2, <3>1
    <3> QED
      BY <1>2, <3>2 DEF Elements
  <2>4. place(at[n]) < place(j)
    BY <1>3, <1>4, <2>1, <2>3
  <2>5. Outranks(x, at[n], j)
    BY <1>3, <1>4, <2>1, <2>2, <2>4
  <2>6. Pos(s, c) = at[n] /\ Pos(s, o) = j
    BY <1>1, <1>4, <2>1, <2>2, PosIs
  <2>7. x[at[n]] \in Int /\ x[j] \in Int
    BY <1>4, <2>1, <2>2
  <2> QED
    BY <2>5, <2>6, <2>7 DEF Outranks
<1>10. ASSUME NEW n \in 1..k, NEW l \in 1..k, n < l
       PROVE  \/ x[Pos(s, p[n])] > x[Pos(s, p[l])]
              \/ x[Pos(s, p[n])] = x[Pos(s, p[l])] /\ Pos(s, p[n]) < Pos(s, p[l])
  BY <1>4, <1>5, <1>10 DEF Outranks
<1> QED
  BY <1>2, <1>7, <1>8, <1>9, <1>10 DEF BestFirst

\* Both halves' offer, and what the phases say of the search.
Both == Elements(offered.dense) \cup Elements(offered.lexical)

QueryOK ==
  query \in [top_k : 1..2, rerank : BOOLEAN, hybrid : BOOLEAN, sparse : BOOLEAN]

Searched ==
  /\ offered.dense \in Seq(Stored) /\ offered.lexical \in Seq(Stored)
  /\ candidates \in Seq(Stored) /\ Distinct(candidates) /\ Elements(candidates) \subseteq Both
  /\ Len(candidates) = Least(Limit, Cardinality(Both))

Ranked ==
  /\ DOMAIN scored = DOMAIN candidates
  /\ Elements(passages) \subseteq Elements(candidates)
  /\ BestFirst(candidates, scored, passages)

\* BestAreReturned, with what its induction needs: no candidate twice, as many of them as the
\* store offered up to the limit, and a score for each once there is one for any.
RetrievalInv ==
  /\ QueryOK
  /\ RetrievalTypeOK
  /\ phase \in {"embed", "search", "found"} => scored = <<>> /\ passages = <<>>
  /\ phase \in {"embed", "search"} => offered = [dense |-> <<>>, lexical |-> <<>>]
  /\ phase = "found" \/ Retrieved => Searched
  /\ Retrieved => /\ Distinct(passages)
                  /\ Len(passages) = Least(query.top_k, Len(candidates))
                  /\ scored = <<>> => passages = Prefix(candidates, query.top_k)
                  /\ scored # <<>> => Ranked
  /\ phase = "plain" => scored = <<>>

LEMMA LimitIs ==
  ASSUME QueryOK
  PROVE  /\ query.top_k \in 1..2 /\ query.rerank \in BOOLEAN
         /\ Limit \in Nat /\ Limit >= query.top_k /\ Depth \in Nat
BY RetrievalAssumption DEF QueryOK, Limit, Depth

LEMMA BothFinite ==
  ASSUME offered.dense \in Seq(Stored), offered.lexical \in Seq(Stored)
  PROVE  Both \subseteq Stored /\ IsFiniteSet(Both) /\ Cardinality(Both) \in Nat
<1>1. Both \subseteq Stored
  BY DEF Both, Elements
<1>2. IsFiniteSet(Both)
  BY <1>1, RetrievalAssumption, FS_Subset
<1> QED
  BY <1>1, <1>2, FS_CardinalityType

\* The inductive invariant says at least what BestAreReturned says.
LEMMA RetrievalInvBest ==
  ASSUME RetrievalInv
  PROVE  BestAreReturned
<1>1. SUFFICES ASSUME Retrieved PROVE BestAreReturned
  BY DEF BestAreReturned
<1>2. /\ Searched /\ Distinct(passages) /\ QueryOK
      /\ Len(passages) = Least(query.top_k, Len(candidates))
      /\ passages \in Seq(Stored)
      /\ scored = <<>> => passages = Prefix(candidates, query.top_k)
      /\ scored # <<>> => Ranked
      /\ phase = "plain" => scored = <<>>
  BY <1>1 DEF RetrievalInv, RetrievalTypeOK
<1>3. Cardinality(Elements(passages)) = Len(passages)
  BY <1>2, DistinctCount
<1>4. Both \subseteq Stored /\ IsFiniteSet(Both) /\ Cardinality(Both) \in Nat
  BY <1>2, BothFinite DEF Searched
<1>5. Len(candidates) = Least(Limit, Cardinality(Both))
  BY <1>2 DEF Searched
<1>6. query.top_k \in 1..2 /\ Limit \in Nat /\ Limit >= query.top_k
  BY <1>2, LimitIs
<1>7. Len(passages) = Least(query.top_k, Cardinality(Both))
  BY <1>2, <1>4, <1>5, <1>6 DEF Least
<1>8. ASSUME Limit >= Cardinality(Both) PROVE Elements(candidates) = Both
  <2>1. Len(candidates) = Cardinality(Both)
    BY <1>4, <1>5, <1>6, <1>8 DEF Least
  <2>2. Cardinality(Elements(candidates)) = Cardinality(Both) /\ Elements(candidates) \subseteq Both
    BY <1>2, <2>1, DistinctCount DEF Searched
  <2> QED
    BY <1>4, <2>2, FS_Subset
<1>9. ASSUME scored # <<>>
      PROVE  /\ \A c \in Elements(passages), o \in Elements(candidates) \ Elements(passages) :
                  scored[Position(c)] >= scored[Position(o)]
             /\ \A m, n \in DOMAIN passages : m < n =>
                  \/ scored[Position(passages[m])] > scored[Position(passages[n])]
                  \/ /\ scored[Position(passages[m])] = scored[Position(passages[n])]
                     /\ Position(passages[m]) < Position(passages[n])
  <2>1. BestFirst(candidates, scored, passages)
    BY <1>2, <1>9 DEF Ranked
  <2>2. \A c : Pos(candidates, c) = Position(c)
    BY DEF Pos, Position
  <2> QED
    BY <2>1, <2>2 DEF BestFirst
<1> QED
  BY <1>2, <1>3, <1>7, <1>8, <1>9 DEF BestAreReturned, Both

\* What a search found, whichever way it was made.
LEMMA FoundKept ==
  ASSUME RetrievalInv, DenseSearch \/ HybridSearch
  PROVE  RetrievalInv'
<1>1. /\ phase = "search" /\ phase' = "found" /\ QueryOK
      /\ UNCHANGED <<query, scored, passages>> /\ scored = <<>> /\ passages = <<>>
  BY DEF RetrievalInv, DenseSearch, HybridSearch
<1>2. IsFiniteSet(Stored) /\ Cardinality(Stored) \in Nat
  BY RetrievalAssumption, FS_CardinalityType
<1>3. query.top_k \in 1..2 /\ Limit \in Nat /\ Limit >= query.top_k /\ Depth \in Nat
  BY <1>1, LimitIs
<1>4. Limit' = Limit
  BY <1>1 DEF Limit
<1>5. Searched' /\ Len(candidates') <= Limit
  <2>1. CASE DenseSearch
    <3>1. PICK r \in RankingsOf(Stored, Cardinality(Stored)) :
            offered' = [offered EXCEPT !.dense = r] /\ candidates' = Prefix(r, Limit)
      BY <2>1 DEF DenseSearch
    <3>2. r \in Seq(Stored) /\ Distinct(r)
      BY <1>2, <3>1, RankingIs
    <3>3. offered' = [dense |-> r, lexical |-> <<>>]
      BY <1>1, <3>1 DEF RetrievalInv
    <3>4. Both' = Elements(r)
      BY <3>3 DEF Both, Elements
    <3>5. Cardinality(Both') = Len(r) /\ Len(r) \in Nat
      BY <3>2, <3>4, DistinctCount
    <3>6. /\ candidates' \in Seq(Stored) /\ Distinct(candidates') /\ Elements(candidates') \subseteq Elements(r)
          /\ Len(candidates') = Least(Limit, Len(r))
      BY <1>3, <3>1, <3>2, PrefixIs
    <3>7. Len(candidates') <= Limit
      BY <1>3, <3>5, <3>6 DEF Least
    <3> QED
      BY <1>4, <3>2, <3>3, <3>4, <3>5, <3>6, <3>7 DEF Searched
  <2>2. CASE HybridSearch
    <3>1. PICK d \in RankingsOf(Stored, Cardinality(Stored)), l \in RankingsOf(Stored, Cardinality(Stored)) :
            LET dense   == Prefix(d, Depth)
                lexical == IF query.sparse THEN Prefix(l, Depth) ELSE <<>>
                union   == Elements(dense) \cup Elements(lexical)
            IN /\ offered' = [dense |-> dense, lexical |-> lexical]
               /\ \E r \in RankingsOf(union, Limit) :
                    /\ Len(r) = Least(Limit, Cardinality(union))
                    /\ candidates' = r
      BY <2>2 DEF HybridSearch
    <3> DEFINE dense == Prefix(d, Depth)
               lexical == IF query.sparse THEN Prefix(l, Depth) ELSE <<>>
               union == Elements(dense) \cup Elements(lexical)
    <3>2. offered' = [dense |-> dense, lexical |-> lexical]
      BY <3>1
    <3>3. PICK r \in RankingsOf(union, Limit) :
            Len(r) = Least(Limit, Cardinality(union)) /\ candidates' = r
      BY <3>1
    <3>4. d \in Seq(Stored) /\ l \in Seq(Stored)
      BY <1>2, RankingIs
    <3>5. dense \in Seq(Stored) /\ lexical \in Seq(Stored)
      <4>1. Prefix(d, Depth) \in Seq(Stored)
        BY <1>3, <3>4, PrefixIs
      <4>2. Prefix(l, Depth) \in Seq(Stored)
        BY <1>3, <3>4, PrefixIs
      <4>3. <<>> \in Seq(Stored)
        OBVIOUS
      <4> QED
        BY <4>1, <4>2, <4>3
    <3> HIDE DEF dense, lexical
    <3>6. Both' = union /\ union \subseteq Stored
      BY <3>2, <3>5 DEF Both, Elements
    <3>7. IsFiniteSet(union) /\ Cardinality(union) \in Nat
      BY <1>2, <3>6, FS_Subset, FS_CardinalityType
    <3> HIDE DEF union
    <3>8. r \in Seq(union) /\ Distinct(r) /\ Elements(r) \subseteq union
      BY <1>3, <3>7, RankingIs
    <3>9. r \in Seq(Stored)
      BY <3>6, <3>8
    <3>10. Len(r) <= Limit
      BY <1>3, <3>3, <3>7 DEF Least
    <3>11. offered'.dense \in Seq(Stored) /\ offered'.lexical \in Seq(Stored)
      BY <3>2, <3>5
    <3> QED
      BY <1>4, <3>3, <3>6, <3>8, <3>9, <3>10, <3>11 DEF Searched
  <2> QED
    BY <2>1, <2>2
<1> QED
  BY <1>1, <1>3, <1>4, <1>5 DEF RetrievalInv, RetrievalTypeOK, Retrieved, QueryOK, Searched

\* The passages search returns, from the candidates it found.
LEMMA StoreOrderKept ==
  ASSUME RetrievalInv, StoreOrder
  PROVE  RetrievalInv'
<1>1. /\ phase = "found" /\ phase' = "retrieved" /\ passages' = Prefix(candidates, query.top_k)
      /\ UNCHANGED <<query, offered, candidates, scored>>
      /\ QueryOK /\ RetrievalTypeOK /\ Searched /\ scored = <<>>
  BY DEF RetrievalInv, StoreOrder
<1>2. query.top_k \in 1..2 /\ Limit \in Nat
  BY <1>1, LimitIs
<1>3. Limit' = Limit /\ Both' = Both
  BY <1>1 DEF Limit, Both
<1>4. candidates \in Seq(Stored) /\ Distinct(candidates) /\ Len(candidates) \in Nat
  BY <1>1 DEF Searched
<1>5. /\ passages' \in Seq(Stored) /\ Len(passages') = Least(query.top_k, Len(candidates))
      /\ Distinct(passages')
  <2>1. query.top_k \in Nat
    BY <1>2
  <2>2. /\ Prefix(candidates, query.top_k) \in Seq(Stored)
        /\ Len(Prefix(candidates, query.top_k)) = Least(query.top_k, Len(candidates))
        /\ Distinct(Prefix(candidates, query.top_k))
    BY <1>4, <2>1, PrefixIs
  <2> QED
    BY <1>1, <2>2
<1>6. Len(passages') <= query.top_k
  BY <1>2, <1>4, <1>5 DEF Least
<1>7. Searched' /\ QueryOK'
  BY <1>1, <1>3 DEF Searched, QueryOK
<1> QED
  BY <1>1, <1>3, <1>5, <1>6, <1>7 DEF RetrievalInv, RetrievalTypeOK, Retrieved

LEMMA RerankKept ==
  ASSUME RetrievalInv, Rerank
  PROVE  RetrievalInv'
<1>1. /\ phase = "found" /\ phase' = "retrieved" /\ candidates # <<>>
      /\ UNCHANGED <<query, offered, candidates>>
      /\ QueryOK /\ RetrievalTypeOK /\ Searched
  BY DEF RetrievalInv, Rerank
<1> DEFINE m == Len(candidates)
           k == Least(query.top_k, m)
<1>2. query.top_k \in 1..2 /\ Limit \in Nat
  BY <1>1, LimitIs
<1>3. Limit' = Limit /\ Both' = Both
  BY <1>1 DEF Limit, Both
<1>4. /\ candidates \in Seq(Stored) /\ Distinct(candidates) /\ m \in Nat \ {0}
      /\ DOMAIN candidates = 1..m
  BY <1>1 DEF Searched
<1>5. k \in Nat /\ k <= m /\ k <= query.top_k
  BY <1>2, <1>4 DEF Least
<1>6. PICK s \in RerankScores :
        LET rank == [i \in DOMAIN candidates |->
                       1 + Cardinality({j \in DOMAIN candidates : Outranks(s, j, i)})]
        IN /\ scored' = s
           /\ passages' = [n \in 1..Least(query.top_k, Len(candidates)) |->
                             candidates[CHOOSE i \in DOMAIN candidates : rank[i] = n]]
  BY DEF Rerank
<1> DEFINE rank == [i \in DOMAIN candidates |->
                      1 + Cardinality({j \in DOMAIN candidates : Outranks(s, j, i)})]
           at == [n \in 1..m |-> CHOOSE i \in DOMAIN candidates : rank[i] = n]
<1>7. /\ scored' = s
      /\ passages' = [n \in 1..k |-> candidates[CHOOSE i \in DOMAIN candidates : rank[i] = n]]
  BY <1>6
<1>8. s \in [1..m -> Relevance] /\ \A i \in 1..m : s[i] \in Int
  BY <1>4, RetrievalAssumption DEF RerankScores
<1>9. \A i \in 1..m : rank[i] = Place(s, 1..m, i)
  BY <1>4 DEF Place
<1> HIDE DEF rank
<1>10. \A n \in 1..m : \E i \in 1..m : rank[i] = n
  <2>1. \A n \in 1..m : \E i \in 1..m : Place(s, 1..m, i) = n
    BY <1>4, <1>8, Places
  <2> QED
    BY <1>9, <2>1
<1>11. \A n \in 1..m : at[n] \in 1..m /\ rank[at[n]] = n
  BY <1>4, <1>10
<1>12. \A n \in 1..m : at[n] \in 1..m /\ Place(s, 1..m, at[n]) = n
  BY <1>9, <1>11
<1>13. passages' = [n \in 1..k |-> candidates[at[n]]]
  BY <1>4, <1>5, <1>7
<1> HIDE DEF at, k
<1>14. /\ passages' \in Seq(Stored) /\ Len(passages') = k /\ Distinct(passages')
       /\ Elements(passages') \subseteq Elements(candidates)
       /\ BestFirst(candidates, s, passages')
  <2>1. PICK a : a = at
    OBVIOUS
  <2>2. PICK p : p = [n \in 1..k |-> candidates[a[n]]]
    OBVIOUS
  <2>3. p = passages'
    BY <1>13, <2>1, <2>2
  <2>4. \A n \in 1..m : a[n] \in 1..m /\ Place(s, 1..m, a[n]) = n
    BY <1>12, <2>1
  <2>5. /\ p \in Seq(Stored) /\ Len(p) = k /\ Distinct(p)
        /\ Elements(p) \subseteq Elements(candidates) /\ BestFirst(candidates, s, p)
    <3>1. PickedBy(candidates, s, k, a, p)
      BY <1>5, <1>8, <2>2, <2>4 DEF PickedBy
    <3> QED
      BY <1>4, <3>1, RankedBest
  <2> QED
    BY <2>3, <2>5
<1>15. scored' \in Seq(Relevance) /\ DOMAIN scored' = DOMAIN candidates /\ scored' # <<>>
  BY <1>4, <1>7, <1>8
<1>16. Searched' /\ QueryOK'
  BY <1>1, <1>3 DEF Searched, QueryOK
<1>17. Ranked'
  BY <1>1, <1>7, <1>14, <1>15 DEF Ranked
<1>18. RetrievalTypeOK' /\ Len(passages') = Least(query.top_k, Len(candidates))
  BY <1>1, <1>3, <1>5, <1>14, <1>15 DEF RetrievalTypeOK, k
<1> QED
  BY <1>1, <1>14, <1>15, <1>16, <1>17, <1>18 DEF RetrievalInv, Retrieved

\* The steps that only decide: the vector, the failures, the answer and the report.
LEMMA DecidedKept ==
  ASSUME RetrievalInv, EmbedQuery \/ SearchRaises \/ Compose \/ Report
  PROVE  RetrievalInv'
<1>1. UNCHANGED <<query, offered, candidates, scored, passages>> /\ QueryOK /\ RetrievalTypeOK
  BY DEF RetrievalInv, EmbedQuery, SearchRaises, Compose, Report
<1>2. /\ Limit' = Limit /\ QueryOK' /\ (Searched' <=> Searched) /\ (Ranked' <=> Ranked)
      /\ Distinct(passages') = Distinct(passages)
  BY <1>1 DEF Limit, Both, QueryOK, Searched, Ranked
<1>3. phase' = "plain" => Report
  BY DEF EmbedQuery, SearchRaises, Compose, Report
<1>4. ASSUME Report, phase' = "plain" PROVE scored = <<>>
  <2>1. SUFFICES ASSUME scored # <<>> PROVE FALSE
    OBVIOUS
  <2>2. phase = "retrieved" /\ ~\E i \in DOMAIN passages : i \in DOMAIN scored
    BY <1>4 DEF Report
  <2>3. /\ Ranked /\ Searched /\ Len(passages) = Least(query.top_k, Len(candidates))
        /\ passages \in Seq(Stored) /\ candidates \in Seq(Stored)
    BY <2>1, <2>2 DEF RetrievalInv, Retrieved, RetrievalTypeOK
  <2>4. scored \in Seq(Relevance) /\ DOMAIN scored = DOMAIN candidates
    BY <1>1, <2>3 DEF RetrievalTypeOK, Ranked
  <2>5. Len(candidates) \in Nat /\ Len(candidates) >= 1 /\ query.top_k \in 1..2
    BY <1>1, <2>1, <2>3, <2>4, LimitIs
  <2>6. Len(passages) >= 1
    BY <2>3, <2>5 DEF Least
  <2>7. 1 \in DOMAIN passages /\ 1 \in DOMAIN scored
    BY <2>3, <2>4, <2>5, <2>6
  <2> QED
    BY <2>2, <2>7
<1>5. CASE EmbedQuery
  BY <1>1, <1>2, <1>5 DEF RetrievalInv, RetrievalTypeOK, Retrieved, EmbedQuery
<1>6. CASE SearchRaises
  BY <1>1, <1>2, <1>6 DEF RetrievalInv, RetrievalTypeOK, Retrieved, SearchRaises
<1>7. CASE Compose
  BY <1>1, <1>2, <1>7 DEF RetrievalInv, RetrievalTypeOK, Retrieved, Compose
<1>8. CASE Report
  BY <1>1, <1>2, <1>4, <1>8 DEF RetrievalInv, RetrievalTypeOK, Retrieved, Report
<1> QED
  BY <1>5, <1>6, <1>7, <1>8

LEMMA RetrievalInvHolds == RetrievalSpec => []RetrievalInv
<1>1. RetrievalInit => RetrievalInv
  <2> SUFFICES ASSUME RetrievalInit PROVE RetrievalInv
    OBVIOUS
  <2>1. QueryOK /\ phase = "embed" /\ candidates = <<>> /\ scored = <<>> /\ passages = <<>>
    BY DEF RetrievalInit, QueryOK
  <2>2. query.top_k \in 1..2 /\ Limit \in Nat
    BY <2>1, LimitIs
  <2>3. RetrievalTypeOK
    BY <2>1, <2>2 DEF RetrievalTypeOK
  <2> QED
    BY <2>1, <2>3 DEF RetrievalInit, RetrievalInv, Retrieved
<1>2. RetrievalInv /\ [RetrievalNext]_retrievalVars => RetrievalInv'
  <2>1. ASSUME RetrievalInv, UNCHANGED retrievalVars PROVE RetrievalInv'
    <3>1. UNCHANGED <<query, phase, offered, candidates, scored, passages>>
      BY <2>1 DEF retrievalVars
    <3>2. Limit' = Limit /\ (Searched' <=> Searched) /\ (Ranked' <=> Ranked)
      BY <3>1 DEF Limit, Both, Searched, Ranked
    <3> QED
      BY <2>1, <3>1, <3>2 DEF RetrievalInv, RetrievalTypeOK, Retrieved, QueryOK, Distinct
  <2> QED
    BY <2>1, FoundKept, StoreOrderKept, RerankKept, DecidedKept DEF RetrievalNext
<1> QED
  BY <1>1, <1>2, PTL DEF RetrievalSpec

\* What a request is: its phases, at most as many candidates as the store is asked for, and at
\* most top_k passages (retrieval.py:59-82).
THEOREM RetrievalTypes == RetrievalSpec => []RetrievalTypeOK
<1>1. RetrievalInv => RetrievalTypeOK
  BY DEF RetrievalInv
<1> QED
  BY <1>1, RetrievalInvHolds, PTL

\* Whatever the store offers and the reranker says, the passages are the best of the candidates,
\* best first, ties in the store's order; degraded, they are the store's own; and none that both
\* top_k and the store allow is missing (retrieval.py:59-82).
THEOREM BestReturned == RetrievalSpec => []BestAreReturned
BY RetrievalInvHolds, RetrievalInvBest, PTL

(***************************************************************************)
(* Induction over numbers and sequences                                    *)
(*                                                                         *)
(* The library's induction theorems cannot be cited here, so induction is  *)
(* proved in terms of sets: a set of sequences that has the empty one and  *)
(* every extension of its members has all of them.                         *)
(***************************************************************************)

\* There is a least one: the finite sets of numbers are well-founded by inclusion.
LEMMA LeastNat ==
  ASSUME NEW T, T \subseteq Nat, T # {}
  PROVE \E x \in T : \A y \in T : x <= y
<1> DEFINE R == StrictSubsetOrdering(Nat)
           B == {1..n : n \in T}
<1>1. IsWellFoundedOn(R, FiniteSubsetsOf(Nat))
  BY FS_StrictSubsetOrderingWellFounded
<1>2. B \subseteq FiniteSubsetsOf(Nat) /\ B # {}
  <2>1. ASSUME NEW n \in T PROVE 1..n \in FiniteSubsetsOf(Nat)
    <3>1. IsFiniteSet(1..n) /\ 1..n \in SUBSET Nat
      BY FS_Interval
    <3> QED BY <3>1, Zenon DEF FiniteSubsetsOf
  <2>2. PICK n \in T : TRUE
    OBVIOUS
  <2> QED BY <2>1, <2>2, Zenon
<1>3. \A x, y \in Nat : x < y => <<1..x, 1..y>> \in R
  <2> SUFFICES ASSUME NEW x \in Nat, NEW y \in Nat, x < y
               PROVE  <<1..x, 1..y>> \in R
    OBVIOUS
  <2>1. 1..x \in SUBSET Nat /\ 1..y \in SUBSET Nat /\ 1..x \subseteq 1..y
    OBVIOUS
  <2>2. y \in 1..y /\ y \notin 1..x
    OBVIOUS
  <2> QED
    BY <2>1, <2>2, Zenon DEF StrictSubsetOrdering
<1> HIDE DEF R
<1>4. PICK b \in B : \A c \in B : <<c, b>> \notin R
  <2> HIDE DEF B
  <2> QED BY <1>1, <1>2, WFMin, Zenon
<1>5. PICK x \in T : b = 1..x
  BY <1>4
<1>6. ASSUME NEW y \in T PROVE x <= y
  <2>1. 1..y \in B
    OBVIOUS
  <2>2. ~(y < x)
    BY <2>1, <1>3, <1>4, <1>5, Zenon
  <2> QED BY <2>2
<1> QED BY <1>6, Zenon

\* Induction over the naturals.
LEMMA Induction ==
  ASSUME NEW S, 0 \in S, \A n \in Nat : n \in S => n + 1 \in S
  PROVE Nat \subseteq S
<1>1. SUFFICES ASSUME Nat \ S # {} PROVE FALSE
  OBVIOUS
<1>2. PICK x \in Nat \ S : \A y \in Nat \ S : x <= y
  BY <1>1, LeastNat
<1>3. x # 0 /\ x - 1 \in Nat
  BY <1>2
<1>4. x - 1 \in S
  BY <1>2, <1>3
<1> QED BY <1>2, <1>3, <1>4

\* Induction over sequences.
LEMMA OverSeqs ==
  ASSUME NEW A, NEW S, <<>> \in S,
         \A s \in Seq(A), e \in A : s \in S => Append(s, e) \in S
  PROVE  Seq(A) \subseteq S
<1> DEFINE T == {n \in Nat : \A s \in Seq(A) : Len(s) = n => s \in S}
<1>1. 0 \in T
  <2>1. ASSUME NEW s \in Seq(A), Len(s) = 0 PROVE s \in S
    BY <2>1, EmptySeq
  <2> QED
    BY <2>1
<1>2. ASSUME NEW n \in Nat, n \in T PROVE n + 1 \in T
  <2>1. ASSUME NEW s \in Seq(A), Len(s) = n + 1 PROVE s \in S
    <3>1. s # <<>>
      BY <2>1
    <3>2. \E t \in Seq(A), e \in A : s = Append(t, e)
      BY <3>1, SequenceEmptyOrAppend
    <3>3. PICK t \in Seq(A) : \E e \in A : s = Append(t, e)
      BY <3>2
    <3>4. PICK e \in A : s = Append(t, e)
      BY <3>3
    <3>5. Len(t) \in Nat /\ Len(s) = Len(t) + 1
      BY <3>4, AppendProperties, LenProperties
    <3>6. Len(t) = n
      BY <2>1, <3>5
    <3>7. t \in S
      BY <1>2, <3>6
    <3> QED
      BY <3>4, <3>7
  <2> QED
    BY <2>1
<1>3. Nat \subseteq T
  <2> HIDE DEF T
  <2> QED
    BY <1>1, <1>2, Induction
<1>4. ASSUME NEW s \in Seq(A) PROVE s \in S
  <2>1. Len(s) \in T
    BY <1>3, LenProperties
  <2> QED
    BY <2>1
<1> QED
  BY <1>4

(***************************************************************************)
(* Words put one after the other                                           *)
(***************************************************************************)

Words == Seq(Nat)

\* f holds what the first i members of ss make together.
Sums(ss, f) == f = [i \in 0..Len(ss) |-> IF i = 0 THEN <<>> ELSE f[i - 1] \o ss[i]]
SumsOf(ss)  == CHOOSE f : Sums(ss, f)

\* Such sums are words, and the last is what the members make.
LEMMA SumsAre ==
  ASSUME NEW S, NEW ss \in Seq(S), NEW f, Sums(ss, f)
  PROVE  /\ DOMAIN f = 0..Len(ss) /\ f = [i \in 0..Len(ss) |-> f[i]]
         /\ f[0] = <<>>
         /\ \A i \in 1..Len(ss) : f[i] = f[i - 1] \o ss[i]
<1>0. Len(ss) \in Nat
  BY LenProperties
<1>n. PICK n \in Nat : n = Len(ss)
  BY <1>0
<1>1. f = [i \in 0..n |-> IF i = 0 THEN <<>> ELSE f[i - 1] \o ss[i]]
  BY <1>n DEF Sums
<1>2. DOMAIN f = 0..n /\ \A i \in 0..n : f[i] = IF i = 0 THEN <<>> ELSE f[i - 1] \o ss[i]
  BY <1>1
<1>3. f = [i \in 0..n |-> f[i]]
  BY <1>1, <1>2
<1>4. 0 \in 0..n /\ \A i \in 1..n : i \in 0..n /\ i # 0
  OBVIOUS
<1>5. f[0] = <<>> /\ \A i \in 1..n : f[i] = f[i - 1] \o ss[i]
  BY <1>2, <1>4
<1> QED
  BY <1>n, <1>2, <1>3, <1>5

LEMMA SumsEmpty == Sums(<<>>, [i \in 0..0 |-> <<>>])
<1>1. Len(<<>>) = 0
  OBVIOUS
<1> QED
  BY <1>1 DEF Sums

LEMMA SumsExtend ==
  ASSUME NEW S, NEW ss \in Seq(S), NEW s \in S, NEW f, Sums(ss, f)
  PROVE  \E h : Sums(Append(ss, s), h) /\ h[Len(ss) + 1] = f[Len(ss)] \o s
<1>n. PICK n \in Nat : n = Len(ss)
  BY LenProperties
<1>t. PICK t : t = Append(ss, s)
  OBVIOUS
<1>1. Len(t) = n + 1 /\ t[n + 1] = s /\ \A i \in 1..n : t[i] = ss[i]
  BY <1>n, <1>t, AppendProperties
<1>2. /\ f[0] = <<>>
      /\ \A i \in 1..n : f[i] = f[i - 1] \o ss[i]
  BY <1>n, SumsAre
<1>3. PICK h : h = [i \in 0..(n + 1) |-> IF i = n + 1 THEN f[n] \o s ELSE f[i]]
  OBVIOUS
<1>4. h[n + 1] = f[n] \o s /\ \A i \in 0..n : h[i] = f[i]
  BY <1>3
<1>5. ASSUME NEW i \in 0..(n + 1)
      PROVE  h[i] = IF i = 0 THEN <<>> ELSE h[i - 1] \o t[i]
  <2>1. CASE i = 0
    BY <1>2, <1>4, <2>1
  <2>2. CASE i = n + 1
    <3>1. i - 1 = n /\ i # 0 /\ n \in 0..n
      BY <2>2
    <3> QED
      BY <1>1, <1>4, <2>2, <3>1
  <2>3. CASE i # 0 /\ i # n + 1
    <3>1. i \in 1..n /\ i \in 0..n /\ i - 1 \in 0..n
      BY <2>3
    <3>2. h[i] = f[i] /\ h[i - 1] = f[i - 1] /\ t[i] = ss[i]
      BY <1>1, <1>4, <3>1
    <3> QED
      BY <1>2, <2>3, <3>1, <3>2
  <2> QED
    BY <2>1, <2>2, <2>3
<1>6. h = [i \in 0..(n + 1) |-> h[i]]
  BY <1>3
<1>7. h = [i \in 0..(n + 1) |-> IF i = 0 THEN <<>> ELSE h[i - 1] \o t[i]]
  BY <1>5, <1>6
<1>8. Sums(t, h)
  BY <1>1, <1>7 DEF Sums
<1> QED
  BY <1>n, <1>t, <1>4, <1>8

\* Every sequence of words has such sums.
LEMMA SumsExist ==
  ASSUME NEW S, NEW ss \in Seq(S)
  PROVE  \E f : Sums(ss, f)
<1> DEFINE T == {s \in Seq(S) : \E f : Sums(s, f)}
<1>1. <<>> \in T
  BY SumsEmpty
<1>2. \A s \in Seq(S), e \in S : s \in T => Append(s, e) \in T
  BY SumsExtend, AppendProperties
<1>3. Seq(S) \subseteq T
  <2> HIDE DEF T
  <2> QED
    BY <1>1, <1>2, OverSeqs
<1> QED
  BY <1>3

\* It has no others, so Joined is what any such sums end with.
LEMMA SumsUnique ==
  ASSUME NEW S, NEW ss \in Seq(S), NEW f, NEW g, Sums(ss, f), Sums(ss, g)
  PROVE  f = g
<1>n. PICK n \in Nat : n = Len(ss)
  BY LenProperties
<1>1. /\ f = [i \in 0..n |-> f[i]] /\ f[0] = <<>>
      /\ \A i \in 1..n : f[i] = f[i - 1] \o ss[i]
  BY <1>n, SumsAre
<1>2. /\ g = [i \in 0..n |-> g[i]] /\ g[0] = <<>>
      /\ \A i \in 1..n : g[i] = g[i - 1] \o ss[i]
  BY <1>n, SumsAre
<1> DEFINE T == {k \in Nat : k <= n => f[k] = g[k]}
<1>3. 0 \in T
  BY <1>1, <1>2
<1>4. ASSUME NEW k \in Nat, k \in T PROVE k + 1 \in T
  <2>1. SUFFICES ASSUME k + 1 <= n PROVE f[k + 1] = g[k + 1]
    OBVIOUS
  <2>2. k + 1 \in 1..n /\ (k + 1) - 1 = k /\ f[k] = g[k]
    BY <1>4, <2>1
  <2> QED
    BY <1>1, <1>2, <2>2
<1>5. Nat \subseteq T
  <2> HIDE DEF T
  <2> QED
    BY <1>3, <1>4, Induction
<1>6. \A i \in 0..n : f[i] = g[i]
  BY <1>5
<1> QED
  BY <1>1, <1>2, <1>6

LEMMA JoinedBy ==
  ASSUME NEW S, NEW ss \in Seq(S), NEW f, Sums(ss, f)
  PROVE  Joined(ss) = f[Len(ss)]
<1>1. PICK g : g = SumsOf(ss) /\ Sums(ss, g)
  BY Zenon DEF SumsOf
<1>2. Joined(ss) = g[Len(ss)]
  BY <1>1 DEF Joined, SumsOf, Sums
<1> QED
  BY <1>1, <1>2, SumsUnique

LEMMA JoinedNone == Joined(<<>>) = <<>>
<1>1. <<>> \in Seq(Words) /\ Len(<<>>) = 0 /\ [i \in 0..0 |-> <<>>][0] = <<>>
  OBVIOUS
<1> QED
  BY <1>1, SumsEmpty, JoinedBy

LEMMA JoinedAppend ==
  ASSUME NEW S, NEW ss \in Seq(S), NEW s \in S
  PROVE  Joined(Append(ss, s)) = Joined(ss) \o s
<1>1. PICK f : Sums(ss, f)
  BY SumsExist
<1>2. PICK h : Sums(Append(ss, s), h) /\ h[Len(ss) + 1] = f[Len(ss)] \o s
  BY <1>1, SumsExtend
<1>3. Append(ss, s) \in Seq(S) /\ Len(Append(ss, s)) = Len(ss) + 1
  BY AppendProperties
<1>4. Joined(Append(ss, s)) = h[Len(ss) + 1]
  BY <1>2, <1>3, JoinedBy
<1>5. Joined(ss) = f[Len(ss)]
  BY <1>1, JoinedBy
<1> QED
  BY <1>2, <1>4, <1>5

LEMMA JoinedType ==
  ASSUME NEW ss \in Seq(Words)
  PROVE  Joined(ss) \in Words
<1> DEFINE T == {s \in Seq(Words) : Joined(s) \in Words}
<1>1. <<>> \in T
  BY JoinedNone, EmptySeq DEF Words
<1>2. ASSUME NEW s \in Seq(Words), NEW e \in Words, s \in T PROVE Append(s, e) \in T
  <2>1. Joined(s) \o e \in Words
    BY <1>2, ConcatProperties DEF Words
  <2> QED
    BY <2>1, JoinedAppend, AppendProperties
<1>3. Seq(Words) \subseteq T
  <2> HIDE DEF T
  <2> QED
    BY <1>1, <1>2, OverSeqs
<1> QED
  BY <1>3

\* The order of joining does not matter.
LEMMA Assoc ==
  ASSUME NEW a \in Words, NEW b \in Words, NEW c \in Words
  PROVE  /\ a \o b \in Words /\ b \o c \in Words
         /\ (a \o b) \o c = a \o (b \o c)
BY ConcatProperties, ConcatAssociative DEF Words

\* What two sequences make together.
LEMMA JoinedConcat ==
  ASSUME NEW ss \in Seq(Words), NEW tt \in Seq(Words)
  PROVE  Joined(ss \o tt) = Joined(ss) \o Joined(tt)
<1> DEFINE T == {t \in Seq(Words) : Joined(ss \o t) = Joined(ss) \o Joined(t)}
<1>0. Joined(ss) \in Words
  BY JoinedType
<1>1. <<>> \in T
  <2>1. ss \o <<>> = ss /\ Joined(ss) \o <<>> = Joined(ss)
    BY <1>0, ConcatEmptySeq DEF Words
  <2>2. <<>> \in Seq(Words)
    BY EmptySeq
  <2> QED
    BY <2>1, <2>2, JoinedNone
<1>2. ASSUME NEW t \in Seq(Words), NEW e \in Words, t \in T PROVE Append(t, e) \in T
  <2>1. Joined(t) \in Words /\ ss \o t \in Seq(Words) /\ Append(t, e) \in Seq(Words)
    BY JoinedType, ConcatProperties, AppendProperties
  <2>2. ss \o Append(t, e) = Append(ss \o t, e)
    <3>1. /\ Append(t, e) = t \o <<e>> /\ Append(ss \o t, e) = (ss \o t) \o <<e>>
          /\ <<e>> \in Seq(Words)
      BY <2>1, AppendIsConcat
    <3> QED
      BY <3>1, ConcatAssociative
  <2>3. Joined(ss \o Append(t, e)) = (Joined(ss) \o Joined(t)) \o e
    BY <1>2, <2>1, <2>2, JoinedAppend
  <2>4. Joined(ss) \o Joined(Append(t, e)) = Joined(ss) \o (Joined(t) \o e)
    BY JoinedAppend
  <2>5. (Joined(ss) \o Joined(t)) \o e = Joined(ss) \o (Joined(t) \o e)
    BY <1>0, <2>1, Assoc
  <2> QED
    BY <2>1, <2>3, <2>4, <2>5
<1>3. Seq(Words) \subseteq T
  <2> HIDE DEF T
  <2> QED
    BY <1>1, <1>2, OverSeqs
<1> QED
  BY <1>3

\* A sequence through a function, and the words that makes.
Img(us, g) == [i \in DOMAIN us |-> g[us[i]]]
Cat(us, g) == Joined(Img(us, g))

LEMMA ImgIs ==
  ASSUME NEW S, NEW T, NEW xs \in Seq(S), NEW g, \A e \in S : g[e] \in T
  PROVE  /\ Img(xs, g) \in Seq(T) /\ Len(Img(xs, g)) = Len(xs)
         /\ \A i \in 1..Len(xs) : Img(xs, g)[i] = g[xs[i]]
<1>n. PICK n \in Nat : n = Len(xs) /\ DOMAIN xs = 1..n
  BY LenProperties
<1>1. Img(xs, g) = [i \in 1..n |-> g[xs[i]]]
  BY <1>n DEF Img
<1>2. \A i \in 1..n : xs[i] \in S
  BY <1>n, ElementOfSeq
<1>3. \A i \in 1..n : g[xs[i]] \in T
  BY <1>2
<1> QED
  BY <1>n, <1>1, <1>3

\* The image of two sequences put together.
LEMMA ImgConcat ==
  ASSUME NEW S, NEW g, NEW us \in Seq(S), NEW vs \in Seq(S)
  PROVE  Img(us \o vs, g) = Img(us, g) \o Img(vs, g)
<1>t. PICK T : \A e \in S : g[e] \in T
  <2>1. \A e \in S : g[e] \in {g[d] : d \in S}
    OBVIOUS
  <2> QED
    BY <2>1
<1>a. PICK a : a = Img(us, g)
  OBVIOUS
<1>b. PICK b : b = Img(vs, g)
  OBVIOUS
<1>c. PICK ws : ws = us \o vs
  OBVIOUS
<1>d. PICK c : c = Img(ws, g)
  OBVIOUS
<1>i. ASSUME NEW xs \in Seq(S)
      PROVE  /\ Img(xs, g) \in Seq(T) /\ Len(Img(xs, g)) = Len(xs)
             /\ \A i \in 1..Len(xs) : Img(xs, g)[i] = g[xs[i]]
  BY <1>t, ImgIs
<1>1. /\ a \in Seq(T) /\ Len(a) = Len(us)
      /\ \A i \in 1..Len(us) : a[i] = g[us[i]]
  BY <1>a, <1>i
<1>2. /\ b \in Seq(T) /\ Len(b) = Len(vs)
      /\ \A i \in 1..Len(vs) : b[i] = g[vs[i]]
  BY <1>b, <1>i
<1>3. /\ ws \in Seq(S) /\ Len(ws) = Len(us) + Len(vs)
      /\ \A i \in 1..(Len(us) + Len(vs)) :
           ws[i] = IF i <= Len(us) THEN us[i] ELSE vs[i - Len(us)]
  BY <1>c, ConcatProperties, Zenon
<1>4. /\ c \in Seq(T) /\ Len(c) = Len(ws)
      /\ \A i \in 1..Len(ws) : c[i] = g[ws[i]]
  <2>1. ws \in Seq(S)
    BY <1>3, Zenon
  <2> QED
    BY <1>d, <1>i, <2>1, Zenon
<1>5. /\ a \o b \in Seq(T) /\ Len(a \o b) = Len(a) + Len(b)
      /\ \A i \in 1..(Len(a) + Len(b)) : (a \o b)[i] = IF i <= Len(a) THEN a[i] ELSE b[i - Len(a)]
  BY <1>1, <1>2, ConcatProperties, Zenon
<1>m. PICK m \in Nat : m = Len(us)
  BY LenProperties
<1>n. PICK n \in Nat : n = Len(vs)
  BY LenProperties
<1>6. ASSUME NEW i \in 1..(m + n) PROVE c[i] = (a \o b)[i]
  <2>1. CASE i <= m
    <3>1. i \in 1..m
      BY <2>1
    <3>2. c[i] = g[ws[i]] /\ ws[i] = us[i]
      BY <1>3, <1>4, <1>m, <1>n, <2>1
    <3>3. (a \o b)[i] = a[i] /\ a[i] = g[us[i]]
      BY <1>1, <1>2, <1>5, <1>m, <1>n, <2>1, <3>1
    <3> QED
      BY <3>2, <3>3, Zenon
  <2>2. CASE i > m
    <3>1. i - m \in 1..n /\ ~(i <= m)
      BY <2>2
    <3>2. c[i] = g[ws[i]] /\ ws[i] = vs[i - m]
      BY <1>3, <1>4, <1>m, <1>n, <3>1
    <3>3. (a \o b)[i] = b[i - m] /\ b[i - m] = g[vs[i - m]]
      BY <1>1, <1>2, <1>5, <1>m, <1>n, <3>1
    <3> QED
      BY <3>2, <3>3, Zenon
  <2>3. i <= m \/ i > m
    OBVIOUS
  <2> QED
    BY <2>1, <2>2, <2>3, Zenon
<1>7. Len(c) = m + n /\ Len(a \o b) = m + n
  BY <1>1, <1>2, <1>3, <1>4, <1>5, <1>m, <1>n
<1>8. c = a \o b
  BY <1>4, <1>5, <1>6, <1>7, SeqEqual
<1> QED
  BY <1>a, <1>b, <1>c, <1>d, <1>8, Zenon

LEMMA CatNone ==
  ASSUME NEW g
  PROVE  Cat(<<>>, g) = <<>>
<1>1. Img(<<>>, g) = <<>>
  BY DEF Img
<1> QED
  BY <1>1, JoinedNone DEF Cat

\* What a sequence makes through a function, and what two make together.
LEMMA CatIs ==
  ASSUME NEW S, NEW us \in Seq(S), NEW g \in [S -> Words]
  PROVE  /\ Cat(us, g) \in Words
         /\ \A vs \in Seq(S) : Cat(us \o vs, g) = Cat(us, g) \o Cat(vs, g)
         /\ \A e \in S : Cat(<<e>>, g) = g[e] /\ Cat(Append(us, e), g) = Cat(us, g) \o g[e]
<1>1. Img(us, g) \in Seq(Words)
  BY ImgIs
<1>2. Cat(us, g) \in Words
  BY <1>1, JoinedType DEF Cat
<1>3. ASSUME NEW vs \in Seq(S) PROVE Cat(us \o vs, g) = Cat(us, g) \o Cat(vs, g)
  <2>1. Img(vs, g) \in Seq(Words)
    BY ImgIs
  <2>2. Img(us \o vs, g) = Img(us, g) \o Img(vs, g)
    BY ImgConcat
  <2> QED
    BY <1>1, <2>1, <2>2, JoinedConcat DEF Cat
<1>4. ASSUME NEW e \in S PROVE Cat(<<e>>, g) = g[e]
  <2>1. <<e>> \in Seq(S) /\ Len(<<e>>) = 1 /\ <<e>>[1] = e
    OBVIOUS
  <2>2. Img(<<e>>, g) = <<g[e]>>
    BY <2>1 DEF Img
  <2>3. <<g[e]>> = Append(<<>>, g[e]) /\ g[e] \in Words /\ <<>> \in Seq(Words)
    OBVIOUS
  <2>4. Joined(<<g[e]>>) = <<>> \o g[e]
    BY <2>3, JoinedNone, JoinedAppend
  <2> QED
    BY <2>2, <2>3, <2>4, ConcatEmptySeq DEF Cat, Words
<1>5. ASSUME NEW e \in S PROVE Cat(Append(us, e), g) = Cat(us, g) \o g[e]
  <2>1. Append(us, e) = us \o <<e>> /\ <<e>> \in Seq(S)
    BY AppendIsConcat
  <2> QED
    BY <1>3, <1>4, <2>1
<1> QED
  BY <1>2, <1>3, <1>4, <1>5

LEMMA CatOne ==
  ASSUME NEW S, NEW us \in Seq(S), NEW g \in [S -> Words], NEW e \in S
  PROVE  Cat(<<e>>, g) = g[e] /\ Cat(Append(us, e), g) = Cat(us, g) \o g[e]
BY CatIs

(***************************************************************************)
(* Units and paragraphs                                                    *)
(***************************************************************************)

Filled    == Words \ {<<>>}
Marks     == [level : Nat, at : Nat]
Units     == [text : Filled, path : Seq(Marks), heading : BOOLEAN, starts : BOOLEAN]
TextOf    == [u \in Units |-> u.text]
ParaLines == [text : Filled, ends : BOOLEAN]
ParaText  == [l \in ParaLines |-> l.text]
Upto(n)   == [w \in 1..n |-> w]

LEMMA TextsAreWords ==
  /\ TextOf \in [Units -> Words] /\ ParaText \in [ParaLines -> Words]
  /\ \A u \in Units : TextOf[u] = u.text /\ u.text \in Filled
  /\ \A l \in ParaLines : ParaText[l] = l.text /\ l.text \in Filled
BY DEF TextOf, ParaText, Units, ParaLines, Filled

LEMMA TextIsCat ==
  ASSUME NEW us \in Seq(Units)
  PROVE  Text(us) = Cat(us, TextOf)
<1>1. \A i \in DOMAIN us : us[i] \in Units
  BY LenProperties, ElementOfSeq
<1>2. [i \in DOMAIN us |-> us[i].text] = [i \in DOMAIN us |-> TextOf[us[i]]]
  BY <1>1, TextsAreWords
<1> QED
  BY <1>2 DEF Text, Cat, Img

\* What Text makes of units put together.
LEMMA TextIs ==
  ASSUME NEW us \in Seq(Units)
  PROVE  /\ Text(us) \in Words
         /\ \A vs \in Seq(Units) : Text(us \o vs) = Text(us) \o Text(vs)
         /\ \A u \in Units : Text(<<u>>) = u.text /\ Text(Append(us, u)) = Text(us) \o u.text
<1>1. Text(us) \in Words
  BY TextIsCat, CatIs, TextsAreWords
<1>2. ASSUME NEW vs \in Seq(Units) PROVE Text(us \o vs) = Text(us) \o Text(vs)
  <2>1. us \o vs \in Seq(Units)
    BY ConcatProperties
  <2>2. Cat(us \o vs, TextOf) = Cat(us, TextOf) \o Cat(vs, TextOf)
    BY CatIs, TextsAreWords
  <2>3. /\ Text(us \o vs) = Cat(us \o vs, TextOf) /\ Text(us) = Cat(us, TextOf)
        /\ Text(vs) = Cat(vs, TextOf)
    BY <2>1, TextIsCat
  <2> QED
    BY <2>2, <2>3
<1>3. ASSUME NEW u \in Units PROVE Text(<<u>>) = u.text /\ Text(Append(us, u)) = Text(us) \o u.text
  <2>1. <<u>> \in Seq(Units) /\ Append(us, u) \in Seq(Units)
    BY AppendProperties
  <2>2. Cat(<<u>>, TextOf) = TextOf[u] /\ Cat(Append(us, u), TextOf) = Cat(us, TextOf) \o TextOf[u]
    BY CatOne, TextsAreWords
  <2>3. /\ Text(<<u>>) = Cat(<<u>>, TextOf) /\ Text(Append(us, u)) = Cat(Append(us, u), TextOf)
        /\ Text(us) = Cat(us, TextOf)
    BY <2>1, TextIsCat
  <2> QED
    BY <2>2, <2>3, TextsAreWords
<1> QED
  BY <1>1, <1>2, <1>3

LEMMA TextNone == Text(<<>>) = <<>>
<1>1. <<>> \in Seq(Units)
  BY EmptySeq
<1> QED
  BY <1>1, TextIsCat, CatNone

LEMMA UptoGrows ==
  ASSUME NEW m \in Nat, NEW k \in Nat
  PROVE  /\ Upto(m) \in Words /\ [i \in 1..k |-> m + i] \in Words
         /\ Upto(m) \o [i \in 1..k |-> m + i] = Upto(m + k)
<1>a. PICK a : a = Upto(m)
  OBVIOUS
<1>c. PICK c : c = Upto(m + k)
  OBVIOUS
<1>1. a \in Seq(Nat) /\ Len(a) = m /\ \A i \in 1..m : a[i] = i
  BY <1>a DEF Upto
<1>2. PICK b : b = [i \in 1..k |-> m + i]
  OBVIOUS
<1>3. b \in Seq(Nat) /\ Len(b) = k /\ \A i \in 1..k : b[i] = m + i
  BY <1>2
<1>4. c \in Seq(Nat) /\ Len(c) = m + k /\ \A i \in 1..(m + k) : c[i] = i
  BY <1>c DEF Upto
<1>d. PICK d : d = a \o b
  OBVIOUS
<1>5. /\ d \in Seq(Nat) /\ Len(d) = m + k
      /\ \A i \in 1..(m + k) : d[i] = IF i <= m THEN a[i] ELSE b[i - m]
  <2>1. /\ a \o b \in Seq(Nat) /\ Len(a \o b) = Len(a) + Len(b)
        /\ \A i \in 1..(Len(a) + Len(b)) : (a \o b)[i] = IF i <= Len(a) THEN a[i] ELSE b[i - Len(a)]
    BY <1>1, <1>3, ConcatProperties
  <2> QED
    BY <1>1, <1>3, <1>d, <2>1
<1>6. ASSUME NEW i \in 1..(m + k) PROVE d[i] = c[i]
  <2>1. CASE i <= m
    <3>1. i \in 1..m
      BY <2>1
    <3> QED
      BY <1>1, <1>4, <1>5, <2>1, <3>1
  <2>2. CASE i > m
    <3>1. i - m \in 1..k /\ ~(i <= m) /\ m + (i - m) = i
      BY <2>2
    <3> QED
      BY <1>3, <1>4, <1>5, <3>1
  <2> QED
    BY <2>1, <2>2
<1>7. d = c
  BY <1>4, <1>5, <1>6, SeqEqual
<1> QED
  BY <1>1, <1>2, <1>3, <1>7, <1>a, <1>c, <1>d, Zenon DEF Words

(***************************************************************************)
(* The sentences of a paragraph                                            *)
(***************************************************************************)

\* One more line of the paragraph.
LineAdded(p, i, s) ==
  IF i > 1 /\ ~p[i - 1].ends THEN [s EXCEPT ![Len(s)] = @ \o p[i].text] ELSE Append(s, p[i].text)
ParaSums(p, f) == f = [i \in 0..Len(p) |-> IF i = 0 THEN <<>> ELSE LineAdded(p, i, f[i - 1])]
ParaSumsOf(p)   == CHOOSE f : ParaSums(p, f)

LEMMA ParaSumsExtend ==
  ASSUME NEW S, NEW p \in Seq(S), NEW l \in S, NEW f, ParaSums(p, f)
  PROVE  \E h : ParaSums(Append(p, l), h)
<1>n. PICK n \in Nat : n = Len(p)
  BY LenProperties
<1>t. PICK t : t = Append(p, l)
  OBVIOUS
<1>1. Len(t) = n + 1 /\ \A i \in 1..n : t[i] = p[i]
  BY <1>n, <1>t, AppendProperties
<1>2. f = [i \in 0..n |-> IF i = 0 THEN <<>> ELSE LineAdded(p, i, f[i - 1])]
  BY <1>n DEF ParaSums
<1>a. \A i \in 0..n : f[i] = IF i = 0 THEN <<>> ELSE LineAdded(p, i, f[i - 1])
  BY <1>2
<1>3. PICK h : h = [i \in 0..(n + 1) |-> IF i = n + 1 THEN LineAdded(t, n + 1, f[n]) ELSE f[i]]
  OBVIOUS
<1>4. h[n + 1] = LineAdded(t, n + 1, f[n]) /\ \A i \in 0..n : h[i] = f[i]
  BY <1>3
<1>5. ASSUME NEW i \in 0..(n + 1)
      PROVE  h[i] = IF i = 0 THEN <<>> ELSE LineAdded(t, i, h[i - 1])
  <2>1. CASE i = 0
    BY <1>a, <1>4, <2>1
  <2>2. CASE i = n + 1
    <3>1. i - 1 = n /\ i # 0 /\ n \in 0..n
      BY <2>2
    <3>2. h[i - 1] = f[n]
      BY <1>4, <3>1
    <3> QED
      BY <1>4, <2>2, <3>1, <3>2
  <2>3. CASE i # 0 /\ i # n + 1
    <3>1. i \in 1..n /\ i \in 0..n /\ i - 1 \in 0..n
      BY <2>3
    <3>2. h[i] = f[i] /\ h[i - 1] = f[i - 1] /\ t[i] = p[i]
      BY <1>1, <1>4, <3>1
    <3>3. i > 1 => t[i - 1] = p[i - 1]
      <4>1. i > 1 => i - 1 \in 1..n
        BY <3>1
      <4> QED
        BY <1>1, <4>1
    <3>4. LineAdded(t, i, h[i - 1]) = LineAdded(p, i, f[i - 1])
      BY <3>2, <3>3 DEF LineAdded
    <3> QED
      BY <1>a, <2>3, <3>1, <3>2, <3>4
  <2> QED
    BY <2>1, <2>2, <2>3
<1>6. h = [i \in 0..(n + 1) |-> h[i]]
  BY <1>3
<1>7. h = [i \in 0..(n + 1) |-> IF i = 0 THEN <<>> ELSE LineAdded(t, i, h[i - 1])]
  BY <1>5, <1>6
<1>8. ParaSums(t, h)
  BY <1>1, <1>7 DEF ParaSums
<1> QED
  BY <1>t, <1>8

\* Every paragraph has its sentences.
LEMMA ParaSumsExist ==
  ASSUME NEW S, NEW p \in Seq(S)
  PROVE  \E f : ParaSums(p, f)
<1> DEFINE T == {s \in Seq(S) : \E f : ParaSums(s, f)}
<1>1. <<>> \in T
  <2>1. <<>> \in Seq(S) /\ Len(<<>>) = 0
    BY EmptySeq
  <2>2. PICK f : f = [i \in 0..0 |-> <<>>]
    OBVIOUS
  <2>3. f = [i \in 0..0 |-> IF i = 0 THEN <<>> ELSE LineAdded(<<>>, i, f[i - 1])]
    BY <2>2
  <2>4. ParaSums(<<>>, f)
    BY <2>1, <2>3 DEF ParaSums
  <2> QED
    BY <2>1, <2>4
<1>2. \A s \in Seq(S), e \in S : s \in T => Append(s, e) \in T
  BY ParaSumsExtend, AppendProperties
<1>3. Seq(S) \subseteq T
  <2> HIDE DEF T
  <2> QED
    BY <1>1, <1>2, OverSeqs
<1> QED
  BY <1>3

\* A line goes on with the last sentence or begins one: what the sentences make grows by it.
LEMMA GoesOnIs ==
  ASSUME NEW s \in Seq(Filled), NEW p \in Seq(ParaLines), NEW i \in 1..Len(p),
         i > 1 => s # <<>>
  PROVE  /\ LineAdded(p, i, s) \in Seq(Filled) /\ LineAdded(p, i, s) # <<>>
         /\ Joined(LineAdded(p, i, s)) = Joined(s) \o p[i].text
<1>1. p[i] \in ParaLines
  BY ElementOfSeq
<1>2. PICK x : x = p[i].text /\ x \in Filled
  BY <1>1, TextsAreWords
<1>3. Filled \subseteq Words /\ s \in Seq(Words)
  BY SeqMonotonic DEF Filled
<1>4. CASE ~(i > 1 /\ ~p[i - 1].ends)
  <2>1. LineAdded(p, i, s) = Append(s, x)
    BY <1>2, <1>4 DEF LineAdded
  <2>2. Append(s, x) \in Seq(Filled) /\ Append(s, x) # <<>>
    BY <1>2, AppendProperties
  <2>3. Joined(Append(s, x)) = Joined(s) \o x
    BY <1>2, JoinedAppend
  <2> QED
    BY <1>2, <2>1, <2>2, <2>3
<1>5. CASE i > 1 /\ ~p[i - 1].ends
  <2>1. PICK r \in Seq(Filled) : \E e \in Filled : s = Append(r, e)
    BY <1>5, SequenceEmptyOrAppend
  <2>2. PICK e \in Filled : s = Append(r, e)
    BY <2>1
  <2>3. e \in Words /\ x \in Words /\ e # <<>>
    BY <1>2 DEF Filled
  <2>4. e \o x \in Filled
    <3>1. e \o x \in Words /\ e \o x # <<>>
      BY <2>3, ConcatProperties, ConcatEqualIffEmpty DEF Words
    <3> QED
      BY <3>1 DEF Filled
  <2>n. PICK n \in Nat : n = Len(r)
    BY LenProperties
  <2>5. /\ Len(s) = n + 1 /\ s[n + 1] = e /\ s \in Seq(Filled)
        /\ \A k \in 1..n : s[k] = r[k]
    BY <2>2, <2>n, AppendProperties
  <2>6. PICK t : t = [s EXCEPT ![n + 1] = e \o x]
    OBVIOUS
  <2>7. LineAdded(p, i, s) = t
    <3>1. LineAdded(p, i, s) = [s EXCEPT ![Len(s)] = @ \o p[i].text]
      BY <1>5 DEF LineAdded
    <3>2. s[Len(s)] = e
      BY <2>5
    <3> QED
      BY <1>2, <2>5, <2>6, <3>1, <3>2
  <2>8. /\ t \in Seq(Filled) /\ Len(t) = n + 1
        /\ \A k \in 1..(n + 1) : t[k] = IF k = n + 1 THEN e \o x ELSE s[k]
    <3>1. n + 1 \in 1..Len(s)
      BY <2>5
    <3> QED
      BY <2>4, <2>5, <2>6, <3>1, ExceptSeq
  <2>9. PICK u : u = Append(r, e \o x)
    OBVIOUS
  <2>10. /\ u \in Seq(Filled) /\ Len(u) = n + 1 /\ u[n + 1] = e \o x /\ u # <<>>
         /\ \A k \in 1..n : u[k] = r[k]
    <3>1. PICK y : y = e \o x
      OBVIOUS
    <3>2. y \in Filled /\ u = Append(r, y)
      BY <2>4, <2>9, <3>1
    <3>3. /\ u \in Seq(Filled) /\ Len(u) = Len(r) + 1 /\ u[Len(r) + 1] = y /\ u # <<>>
          /\ \A k \in 1..Len(r) : u[k] = r[k]
      BY <3>2, AppendProperties
    <3> QED
      BY <2>n, <3>1, <3>3
  <2>11. t = u
    <3>1. ASSUME NEW k \in 1..(n + 1) PROVE t[k] = u[k]
      <4>1. CASE k = n + 1
        BY <2>8, <2>10, <4>1
      <4>2. CASE k # n + 1
        <5>1. k \in 1..n
          BY <4>2
        <5> QED
          BY <2>5, <2>8, <2>10, <4>2, <5>1
      <4> QED
        BY <4>1, <4>2
    <3> QED
      BY <2>8, <2>10, <3>1, SeqEqual
  <2>12. Joined(u) = Joined(r) \o (e \o x)
    BY <2>4, <2>9, JoinedAppend
  <2>13. Joined(s) = Joined(r) \o e
    BY <2>2, JoinedAppend
  <2>14. Joined(r) \in Words
    <3>1. r \in Seq(Words)
      BY <1>3, SeqMonotonic
    <3> QED
      BY <3>1, JoinedType
  <2>15. (Joined(r) \o e) \o x = Joined(r) \o (e \o x)
    BY <2>3, <2>14, Assoc
  <2> QED
    BY <1>2, <2>7, <2>10, <2>11, <2>12, <2>13, <2>15
<1> QED
  BY <1>4, <1>5

\* The sentences of a paragraph are its words, none of them empty.
LEMMA SentencesAre ==
  ASSUME NEW p \in Seq(ParaLines)
  PROVE  /\ Sentences(p) \in Seq(Filled)
         /\ Joined(Sentences(p)) = Cat(p, ParaText)
<1>n. PICK n \in Nat : n = Len(p) /\ DOMAIN p = 1..n
  BY LenProperties
<1>1. PICK f : f = ParaSumsOf(p) /\ ParaSums(p, f)
  <2>1. \E f : ParaSums(p, f)
    BY ParaSumsExist
  <2> QED
    BY <2>1, Zenon DEF ParaSumsOf
<1>2. Sentences(p) = f[n]
  BY <1>1, <1>n DEF Sentences, ParaSumsOf, ParaSums, LineAdded
<1>3. f[0] = <<>> /\ \A i \in 1..n : f[i] = LineAdded(p, i, f[i - 1])
  <2>1. f = [i \in 0..n |-> IF i = 0 THEN <<>> ELSE LineAdded(p, i, f[i - 1])]
    BY <1>1, <1>n DEF ParaSums
  <2>2. \A i \in 0..n : f[i] = IF i = 0 THEN <<>> ELSE LineAdded(p, i, f[i - 1])
    BY <2>1
  <2>3. 0 \in 0..n /\ \A i \in 1..n : i \in 0..n /\ i # 0
    OBVIOUS
  <2> QED
    BY <2>2, <2>3
<1>4. PICK ts : ts = Img(p, ParaText)
  OBVIOUS
<1>5. ts \in Seq(Words) /\ Len(ts) = n /\ \A i \in 1..n : ts[i] = p[i].text
  <2>1. Img(p, ParaText) \in Seq(Words) /\ Len(Img(p, ParaText)) = Len(p)
        /\ \A i \in 1..Len(p) : Img(p, ParaText)[i] = ParaText[p[i]]
    BY ImgIs, TextsAreWords
  <2>2. \A i \in 1..n : p[i] \in ParaLines
    BY <1>n, ElementOfSeq
  <2> QED
    BY <1>4, <1>n, <2>1, <2>2, TextsAreWords
<1>6. PICK g : Sums(ts, g)
  BY <1>5, SumsExist
<1>7. g[0] = <<>> /\ \A i \in 1..n : g[i] = g[i - 1] \o ts[i]
  BY <1>5, <1>6, SumsAre
<1>8. Cat(p, ParaText) = g[n]
  BY <1>4, <1>5, <1>6, JoinedBy DEF Cat
<1> DEFINE Good(i) == f[i] \in Seq(Filled) /\ (i > 0 => f[i] # <<>>) /\ Joined(f[i]) = g[i]
           T == {i \in Nat : i <= n => Good(i)}
<1>9. 0 \in T
  <2>1. <<>> \in Seq(Filled) /\ Joined(<<>>) = <<>> /\ ~(0 > 0)
    BY JoinedNone, EmptySeq
  <2>2. Good(0)
    BY <1>3, <1>7, <2>1
  <2> QED
    BY <2>2
<1>10. ASSUME NEW i \in Nat, i \in T PROVE i + 1 \in T
  <2>1. SUFFICES ASSUME i + 1 <= n PROVE Good(i + 1)
    OBVIOUS
  <2>2. i + 1 \in 1..n /\ (i + 1) - 1 = i /\ Good(i) /\ i + 1 > 0 /\ (i + 1 > 1 => i > 0)
    BY <1>10, <2>1
  <2>3. f[i + 1] = LineAdded(p, i + 1, f[i]) /\ g[i + 1] = g[i] \o ts[i + 1] /\ ts[i + 1] = p[i + 1].text
    BY <1>3, <1>5, <1>7, <2>2
  <2>4. /\ LineAdded(p, i + 1, f[i]) \in Seq(Filled) /\ LineAdded(p, i + 1, f[i]) # <<>>
        /\ Joined(LineAdded(p, i + 1, f[i])) = Joined(f[i]) \o p[i + 1].text
    BY <1>n, <2>2, GoesOnIs
  <2> QED
    BY <2>2, <2>3, <2>4
<1>11. Nat \subseteq T
  <2> HIDE DEF T
  <2> QED
    BY <1>9, <1>10, Induction
<1>12. Good(n)
  BY <1>11
<1> QED
  BY <1>2, <1>8, <1>12

(***************************************************************************)
(* Headings                                                                *)
(***************************************************************************)

\* Of numbers up to n there is a largest.
LEMMA MostOf ==
  ASSUME NEW n \in Nat, NEW S, S \subseteq 0..n, S # {}
  PROVE  \E m \in S : \A k \in S : k <= m
<1> DEFINE T == {n - k : k \in S}
<1>1. T \subseteq Nat /\ T # {}
  <2>1. \A k \in S : k \in 0..n /\ n - k \in Nat
    OBVIOUS
  <2>2. PICK k \in S : TRUE
    OBVIOUS
  <2>3. n - k \in T
    OBVIOUS
  <2> QED
    BY <2>1, <2>3
<1>2. PICK x \in T : \A y \in T : x <= y
  <2> HIDE DEF T
  <2> QED
    BY <1>1, LeastNat
<1>3. PICK m \in S : x = n - m
  BY <1>2
<1>4. ASSUME NEW k \in S PROVE k <= m
  <2>1. n - k \in T
    OBVIOUS
  <2>2. x <= n - k
    BY <1>2, <2>1
  <2>3. k \in 0..n /\ m \in 0..n
    OBVIOUS
  <2> QED
    BY <1>3, <2>2, <2>3
<1> QED
  BY <1>4

Mark(u) == u.path[Len(u.path)]
\* The headings in force after k units: those that none of them closes.
OpenAt(us, k) ==
  {j \in 1..k : us[j].heading
                /\ \A i \in (j + 1)..k : us[i].heading => Level(us[i]) > Level(us[j])}
MarksAt(us, k) == {Mark(us[j]) : j \in OpenAt(us, k)}
Climbs(s) == \A i, j \in DOMAIN s : i < j => s[i].level < s[j].level

UnitOK(us, k) ==
  /\ Elements(us[k].path) = MarksAt(us, k)
  /\ us[k].heading => us[k].starts /\ us[k].path # <<>> /\ Mark(us[k]).at = us[k].text[1]
  /\ ~us[k].heading /\ k > 1 => us[k].path = us[k - 1].path

\* The units are under the headings they say, and the stack is what is in force after them.
Sectioned(us, stack) ==
  /\ us \in Seq(Units) /\ stack \in Seq(Marks) /\ Climbs(stack)
  /\ \A k \in 1..Len(us) : UnitOK(us, k)
  /\ Elements(stack) = MarksAt(us, Len(us))
  /\ us # <<>> => us[Len(us)].path = stack

Tops(s, h) == s # <<>> /\ s[Len(s)] = h

\* A heading pushed closes those at its level or deeper, and no other.
LEMMA PushedIs ==
  ASSUME NEW stack \in Seq(Marks), Climbs(stack), NEW h \in Marks, NEW s, s = Pushed(stack, h)
  PROVE  /\ s \in Seq(Marks) /\ Climbs(s) /\ Tops(s, h)
         /\ Elements(s) = {m \in Elements(stack) : m.level < h.level} \cup {h}
<1>n. PICK n \in Nat : n = Len(stack) /\ DOMAIN stack = 1..n
  BY LenProperties
<1>a. \A i \in 1..n : stack[i] \in Marks /\ stack[i].level \in Nat
  <2>1. \A i \in 1..n : stack[i] \in Marks
    BY <1>n, ElementOfSeq
  <2> QED
    BY <2>1 DEF Marks
<1>b. h.level \in Nat
  BY DEF Marks
<1>1. PICK open : open = {k \in 0..n : \A i \in 1..k : stack[i].level < h.level}
  OBVIOUS
<1>2. open \subseteq 0..n /\ 0 \in open
  BY <1>1
<1>3. \E m \in open : \A k \in open : k <= m
  BY <1>2, MostOf
<1>4. PICK m : m = CHOOSE x \in open : \A k \in open : k <= x
  OBVIOUS
<1>5. m \in open /\ \A k \in open : k <= m
  BY <1>3, <1>4, Zenon
<1>6. s = Append(SubSeq(stack, 1, m), h)
  BY <1>1, <1>4, <1>n DEF Pushed
<1>7. m \in 0..n /\ \A i \in 1..m : stack[i].level < h.level
  BY <1>1, <1>5
<1>8. PICK r : r = SubSeq(stack, 1, m)
  OBVIOUS
<1>9. r \in Seq(Marks) /\ Len(r) = m /\ \A i \in 1..m : r[i] = stack[i]
  BY <1>7, <1>8, <1>a, <1>n
<1>10. /\ s \in Seq(Marks) /\ s # <<>> /\ Len(s) = m + 1 /\ s[m + 1] = h
       /\ \A i \in 1..m : s[i] = stack[i]
  BY <1>6, <1>8, <1>9, AppendProperties
<1>11. DOMAIN s = 1..(m + 1)
  BY <1>7, <1>10, LenProperties
<1>12. Climbs(s)
  <2> SUFFICES ASSUME NEW i \in 1..(m + 1), NEW j \in 1..(m + 1), i < j
               PROVE  s[i].level < s[j].level
    BY <1>11 DEF Climbs
  <2>1. i \in 1..m /\ i \in 1..n /\ s[i] = stack[i]
    BY <1>7, <1>10
  <2>2. CASE j = m + 1
    BY <1>7, <1>10, <2>1, <2>2
  <2>3. CASE j # m + 1
    <3>1. j \in 1..m /\ j \in 1..n
      BY <1>7, <2>3
    <3> QED
      BY <1>10, <1>n, <2>1, <3>1 DEF Climbs
  <2> QED
    BY <2>2, <2>3
<1>13. \A i \in (m + 1)..n : ~(stack[i].level < h.level)
  <2> SUFFICES ASSUME NEW i \in (m + 1)..n, stack[i].level < h.level PROVE FALSE
    OBVIOUS
  <2>1. m + 1 \in 1..n /\ i \in 1..n /\ m + 1 <= i
    BY <1>7
  <2>2. stack[m + 1].level <= stack[i].level
    <3>1. CASE i = m + 1
      BY <1>a, <2>1, <3>1
    <3>2. CASE i # m + 1
      <4>1. m + 1 < i
        BY <2>1, <3>2
      <4>2. stack[m + 1].level < stack[i].level
        BY <1>n, <2>1, <4>1 DEF Climbs
      <4> QED
        BY <1>a, <2>1, <4>2
    <3> QED
      BY <3>1, <3>2
  <2>3. stack[m + 1].level < h.level
    BY <1>a, <1>b, <2>1, <2>2
  <2>4. \A k \in 1..(m + 1) : stack[k].level < h.level
    <3>1. \A k \in 1..(m + 1) : k \in 1..m \/ k = m + 1
      BY <1>7
    <3> QED
      BY <1>7, <2>3, <3>1
  <2>5. m + 1 \in open
    BY <1>1, <2>1, <2>4
  <2> QED
    BY <1>5, <1>7, <2>5
<1>14. Elements(s) = {e \in Elements(stack) : e.level < h.level} \cup {h}
  <2>1. ASSUME NEW e \in Elements(s)
        PROVE  e = h \/ (e \in Elements(stack) /\ e.level < h.level)
    <3>1. PICK i \in 1..(m + 1) : e = s[i]
      BY <1>11 DEF Elements
    <3>2. CASE i = m + 1
      BY <1>10, <3>1, <3>2
    <3>3. CASE i # m + 1
      <4>1. i \in 1..m /\ i \in 1..n
        BY <1>7, <3>3
      <4> QED
        BY <1>7, <1>10, <1>n, <3>1, <4>1 DEF Elements
    <3> QED
      BY <3>2, <3>3
  <2>2. h \in Elements(s)
    <3>1. m + 1 \in 1..(m + 1)
      BY <1>7
    <3> QED
      BY <1>10, <1>11, <3>1 DEF Elements
  <2>3. ASSUME NEW e \in Elements(stack), e.level < h.level PROVE e \in Elements(s)
    <3>1. PICK i \in 1..n : e = stack[i]
      BY <1>n DEF Elements
    <3>2. i \in 1..m
      BY <1>7, <1>13, <2>3, <3>1
    <3>3. i \in 1..(m + 1) /\ e = s[i]
      BY <1>7, <1>10, <3>1, <3>2
    <3> QED
      BY <1>11, <3>3 DEF Elements
  <2> QED
    BY <2>1, <2>2, <2>3
<1> QED
  BY <1>7, <1>10, <1>12, <1>14 DEF Tops

\* What is in force after k units depends on those k.
LEMMA OpenSame ==
  ASSUME NEW us, NEW vs, NEW k \in Nat, \A i \in 1..k : us[i] = vs[i]
  PROVE  OpenAt(us, k) = OpenAt(vs, k) /\ MarksAt(us, k) = MarksAt(vs, k)
<1>1. OpenAt(us, k) = OpenAt(vs, k)
  <2>1. ASSUME NEW j \in 1..k, NEW i \in (j + 1)..k PROVE i \in 1..k
    OBVIOUS
  <2> QED
    BY <2>1 DEF OpenAt
<1>2. \A j \in OpenAt(us, k) : j \in 1..k
  BY DEF OpenAt
<1> QED
  BY <1>1, <1>2 DEF MarksAt

\* The sequence of units with one more.
Longer(us, u, vs) ==
  /\ us \in Seq(Units) /\ u \in Units /\ vs \in Seq(Units)
  /\ Len(vs) = Len(us) + 1 /\ vs[Len(us) + 1] = u
  /\ \A i \in 1..Len(us) : vs[i] = us[i]

LEMMA AppendIsLonger ==
  ASSUME NEW us \in Seq(Units), NEW u \in Units
  PROVE  Longer(us, u, Append(us, u))
BY AppendProperties DEF Longer

LEMMA OldUnitsOK ==
  ASSUME NEW us, NEW u, NEW vs, Longer(us, u, vs), \A k \in 1..Len(us) : UnitOK(us, k)
  PROVE  \A k \in 1..Len(us) : UnitOK(vs, k)
<1>n. PICK n \in Nat : n = Len(us)
  BY LenProperties DEF Longer
<1> SUFFICES ASSUME NEW k \in 1..n PROVE UnitOK(vs, k)
  BY <1>n
<1>1. \A i \in 1..k : vs[i] = us[i]
  BY <1>n DEF Longer
<1>2. MarksAt(vs, k) = MarksAt(us, k)
  BY <1>1, OpenSame
<1>3. vs[k] = us[k]
  BY <1>1
<1>4. k > 1 => vs[k - 1] = us[k - 1]
  BY <1>1
<1> QED
  BY <1>n, <1>2, <1>3, <1>4 DEF UnitOK

LEMMA LongerFacts ==
  ASSUME NEW us, NEW u, NEW vs, Longer(us, u, vs)
  PROVE  /\ Len(us) \in Nat /\ Len(vs) = Len(us) + 1 /\ vs[Len(us) + 1] = u
         /\ vs \in Seq(Units) /\ vs # <<>>
         /\ OpenAt(vs, Len(us)) = OpenAt(us, Len(us)) /\ MarksAt(vs, Len(us)) = MarksAt(us, Len(us))
         /\ \A j \in 1..Len(us) : vs[j] = us[j]
<1>1. Len(us) \in Nat /\ Len(vs) = Len(us) + 1 /\ \A i \in 1..Len(us) : us[i] = vs[i]
  BY LenProperties DEF Longer
<1>2. OpenAt(vs, Len(us)) = OpenAt(us, Len(us)) /\ MarksAt(vs, Len(us)) = MarksAt(us, Len(us))
  BY <1>1, OpenSame
<1>3. vs # <<>>
  BY <1>1
<1> QED
  BY <1>1, <1>2, <1>3 DEF Longer

\* A sentence or an item goes under the headings in force.
LEMMA BodyAppends ==
  ASSUME NEW us, NEW stack, Sectioned(us, stack), NEW u \in Units, ~u.heading, u.path = stack
  PROVE  Sectioned(Append(us, u), stack)
<1>v. PICK vs : vs = Append(us, u)
  OBVIOUS
<1>1. Longer(us, u, vs)
  BY <1>v, AppendIsLonger DEF Sectioned
<1>n. PICK n : n = Len(us)
  OBVIOUS
<1>2. /\ n \in Nat /\ Len(vs) = n + 1 /\ vs[n + 1] = u /\ vs \in Seq(Units) /\ vs # <<>>
      /\ OpenAt(vs, n) = OpenAt(us, n) /\ MarksAt(vs, n) = MarksAt(us, n)
      /\ \A j \in 1..n : vs[j] = us[j]
  BY <1>1, <1>n, LongerFacts
<1>3. OpenAt(vs, n + 1) = OpenAt(vs, n)
  <2>1. ASSUME NEW j \in 1..(n + 1), vs[j].heading PROVE j \in 1..n
    BY <1>2, <2>1
  <2>2. ASSUME NEW j \in 1..n
        PROVE  (\A i \in (j + 1)..(n + 1) : vs[i].heading => Level(vs[i]) > Level(vs[j]))
               <=> (\A i \in (j + 1)..n : vs[i].heading => Level(vs[i]) > Level(vs[j]))
    <3>1. \A i \in (j + 1)..(n + 1) : i \in (j + 1)..n \/ i = n + 1
      BY <1>2
    <3>2. \A i \in (j + 1)..n : i \in (j + 1)..(n + 1)
      BY <1>2
    <3> QED
      BY <1>2, <3>1, <3>2
  <2>3. \A j \in 1..n : j \in 1..(n + 1)
    BY <1>2
  <2> QED
    BY <2>1, <2>2, <2>3 DEF OpenAt
<1>4. MarksAt(vs, n + 1) = Elements(stack)
  <2>1. \A j \in OpenAt(vs, n) : j \in 1..n
    BY DEF OpenAt
  <2>2. MarksAt(vs, n + 1) = MarksAt(vs, n)
    BY <1>3 DEF MarksAt
  <2> QED
    BY <1>2, <1>n, <2>2 DEF Sectioned
<1>5. UnitOK(vs, n + 1)
  <2>1. n + 1 > 1 => vs[n].path = stack
    <3>1. n + 1 > 1 => n \in 1..n /\ us # <<>>
      BY <1>2, <1>n
    <3> QED
      BY <1>2, <1>n, <3>1 DEF Sectioned
  <2>2. (n + 1) - 1 = n
    BY <1>2
  <2> QED
    BY <1>2, <1>4, <2>1, <2>2 DEF UnitOK
<1>6. \A k \in 1..n : UnitOK(vs, k)
  BY <1>1, <1>n, OldUnitsOK DEF Sectioned
<1>7. \A k \in 1..(n + 1) : UnitOK(vs, k)
  <2>1. \A k \in 1..(n + 1) : k \in 1..n \/ k = n + 1
    BY <1>2
  <2> QED
    BY <1>5, <1>6, <2>1
<1>8. Sectioned(vs, stack)
  <2>1. stack \in Seq(Marks) /\ Climbs(stack)
    BY DEF Sectioned
  <2> QED
    BY <1>2, <1>4, <1>7, <2>1 DEF Sectioned
<1> QED
  BY <1>v, <1>8

\* A heading closes those at its level or deeper.
LEMMA HeadingAppends ==
  ASSUME NEW us, NEW stack, Sectioned(us, stack), NEW h \in Marks, NEW u \in Units,
         u.heading, u.starts, u.path = Pushed(stack, h), h.at = u.text[1]
  PROVE  Sectioned(Append(us, u), Pushed(stack, h))
<1>v. PICK vs : vs = Append(us, u)
  OBVIOUS
<1>s. PICK s : s = Pushed(stack, h)
  OBVIOUS
<1>1. Longer(us, u, vs)
  BY <1>v, AppendIsLonger DEF Sectioned
<1>n. PICK n : n = Len(us)
  OBVIOUS
<1>2. /\ n \in Nat /\ Len(vs) = n + 1 /\ vs[n + 1] = u /\ vs \in Seq(Units) /\ vs # <<>>
      /\ OpenAt(vs, n) = OpenAt(us, n) /\ MarksAt(vs, n) = MarksAt(us, n)
      /\ \A j \in 1..n : vs[j] = us[j]
  BY <1>1, <1>n, LongerFacts
<1>3. /\ s \in Seq(Marks) /\ Climbs(s) /\ s # <<>> /\ s[Len(s)] = h
      /\ Elements(s) = {m \in Elements(stack) : m.level < h.level} \cup {h}
  <2>1. stack \in Seq(Marks) /\ Climbs(stack)
    BY DEF Sectioned
  <2> QED
    <3>1. s \in Seq(Marks) /\ Climbs(s) /\ Tops(s, h)
      BY <1>s, <2>1, PushedIs
    <3>2. Elements(s) = {m \in Elements(stack) : m.level < h.level} \cup {h}
      BY <1>s, <2>1, PushedIs
    <3> QED
      BY <3>1, <3>2 DEF Tops
<1>4. Mark(u) = h /\ Level(u) = h.level
  BY <1>s, <1>3 DEF Mark, Level
<1>5. \A j : j \in OpenAt(vs, n + 1) <=> (j \in OpenAt(vs, n) /\ Mark(vs[j]).level < h.level) \/ j = n + 1
  <2>1. ASSUME NEW j \in 1..n
        PROVE  (\A i \in (j + 1)..(n + 1) : vs[i].heading => Level(vs[i]) > Level(vs[j]))
               <=> /\ \A i \in (j + 1)..n : vs[i].heading => Level(vs[i]) > Level(vs[j])
                   /\ h.level > Level(vs[j])
    <3>1. \A i \in (j + 1)..(n + 1) : i \in (j + 1)..n \/ i = n + 1
      BY <1>2
    <3>2. (\A i \in (j + 1)..n : i \in (j + 1)..(n + 1)) /\ n + 1 \in (j + 1)..(n + 1)
      BY <1>2
    <3> QED
      BY <1>2, <1>4, <3>1, <3>2
  <2>2. \A j \in 1..n : Mark(vs[j]).level = Level(vs[j])
    BY DEF Mark, Level
  <2>3. n + 1 \in OpenAt(vs, n + 1)
    <3>1. n + 1 \in 1..(n + 1) /\ ((n + 1) + 1)..(n + 1) = {}
      BY <1>2
    <3> QED
      BY <1>2, <3>1 DEF OpenAt
  <2>4. ASSUME NEW j \in 1..n
        PROVE  /\ Level(vs[j]) \in Nat \/ ~vs[j].heading
               /\ j \in 1..(n + 1)
    <3>1. us[j] \in Units /\ UnitOK(us, j) /\ vs[j] = us[j]
      BY <1>2, <1>n, ElementOfSeq DEF Sectioned
    <3>2. us[j].heading => us[j].path # <<>> /\ us[j].path \in Seq(Marks)
      BY <3>1 DEF UnitOK, Units
    <3>3. us[j].heading => us[j].path[Len(us[j].path)] \in Marks
      <4>1. us[j].heading => Len(us[j].path) \in 1..Len(us[j].path)
        BY <3>2, EmptySeq
      <4> QED
        BY <3>2, <4>1, ElementOfSeq
    <3> QED
      BY <1>2, <3>1, <3>3 DEF Level, Marks
  <2>5. ASSUME NEW j \in 1..n
        PROVE  j \in OpenAt(vs, n + 1) <=> j \in OpenAt(vs, n) /\ Mark(vs[j]).level < h.level
    <3>1. h.level \in Nat
      BY DEF Marks
    <3>2. vs[j].heading => (h.level > Level(vs[j]) <=> Mark(vs[j]).level < h.level)
      BY <2>2, <2>4, <3>1
    <3> QED
      BY <2>1, <2>4, <3>2 DEF OpenAt
  <2>6. \A j : j \in OpenAt(vs, n + 1) => j \in 1..n \/ j = n + 1
    BY <1>2 DEF OpenAt
  <2>7. \A j : j \in OpenAt(vs, n) => j \in 1..n
    BY DEF OpenAt
  <2> QED
    BY <2>3, <2>5, <2>6, <2>7
<1>6. MarksAt(vs, n + 1) = Elements(s)
  <2>1. Elements(stack) = {Mark(vs[j]) : j \in OpenAt(vs, n)}
    BY <1>2, <1>n DEF Sectioned, MarksAt
  <2>2. MarksAt(vs, n + 1) = {Mark(vs[j]) : j \in OpenAt(vs, n + 1)}
    BY DEF MarksAt
  <2>3. Mark(vs[n + 1]) = h
    BY <1>2, <1>4
  <2>4. ASSUME NEW e \in MarksAt(vs, n + 1) PROVE e \in Elements(s)
    <3>1. PICK j \in OpenAt(vs, n + 1) : e = Mark(vs[j])
      BY <2>2
    <3> QED
      BY <1>3, <1>5, <2>1, <2>3, <3>1
  <2>5. ASSUME NEW e \in Elements(s) PROVE e \in MarksAt(vs, n + 1)
    <3>1. CASE e = h
      BY <1>5, <2>2, <2>3, <3>1
    <3>2. CASE e # h
      <4>1. e \in Elements(stack) /\ e.level < h.level
        BY <1>3, <3>2
      <4>2. PICK j \in OpenAt(vs, n) : e = Mark(vs[j])
        BY <2>1, <4>1
      <4> QED
        BY <1>5, <2>2, <4>1, <4>2
    <3> QED
      BY <3>1, <3>2
  <2> QED
    BY <2>4, <2>5
<1>7. UnitOK(vs, n + 1)
  BY <1>2, <1>3, <1>4, <1>6, <1>s DEF UnitOK
<1>8. \A k \in 1..n : UnitOK(vs, k)
  BY <1>1, <1>n, OldUnitsOK DEF Sectioned
<1>9. \A k \in 1..(n + 1) : UnitOK(vs, k)
  <2>1. \A k \in 1..(n + 1) : k \in 1..n \/ k = n + 1
    BY <1>2
  <2> QED
    BY <1>7, <1>8, <2>1
<1>10. Sectioned(vs, s)
  BY <1>2, <1>3, <1>6, <1>9, <1>s DEF Sectioned
<1> QED
  BY <1>s, <1>v, <1>10

(***************************************************************************)
(* Splitting                                                               *)
(***************************************************************************)

Splits == [units : Seq(Units), stack : Seq(Marks), pending : BOOLEAN, para : Seq(ParaLines)]

SplitOK(s) == s \in Splits /\ ~s.pending /\ Sectioned(s.units, s.stack)

\* Sentences and items become units under the headings in force.
LEMMA AddBody ==
  ASSUME NEW s, SplitOK(s), NEW pieces \in Seq(Filled), NEW t, t = Add(s, pieces, FALSE)
  PROVE  /\ SplitOK(t) /\ t.stack = s.stack /\ t.para = s.para
         /\ Text(t.units) = Text(s.units) \o Joined(pieces)
<1>1. /\ s \in Splits /\ s.units \in Seq(Units) /\ s.stack \in Seq(Marks) /\ ~s.pending
      /\ Sectioned(s.units, s.stack)
  BY DEF SplitOK, Splits
<1>2. PICK us : us = s.units
  OBVIOUS
<1>3. PICK stack : stack = s.stack
  OBVIOUS
<1>4. PICK unit : unit = [x \in Filled |-> [text |-> x, path |-> stack, heading |-> FALSE,
                                           starts |-> FALSE]]
  OBVIOUS
<1>5. /\ unit \in [Filled -> Units]
      /\ \A x \in Filled : /\ unit[x] \in Units /\ unit[x].text = x /\ unit[x].path = stack
                           /\ ~unit[x].heading
  BY <1>1, <1>3, <1>4 DEF Units
<1>6. PICK new : new = [i \in DOMAIN pieces |->
                          [text |-> pieces[i], path |-> s.stack, heading |-> FALSE,
                           starts |-> s.pending /\ i = 1]]
  OBVIOUS
<1>7. new = Img(pieces, unit)
  <2>1. \A i \in DOMAIN pieces : pieces[i] \in Filled
    BY LenProperties, ElementOfSeq
  <2>2. \A i \in DOMAIN pieces : unit[pieces[i]] = [text |-> pieces[i], path |-> s.stack,
                                                   heading |-> FALSE, starts |-> s.pending /\ i = 1]
    <3>1. \A i \in DOMAIN pieces : (s.pending /\ i = 1) = FALSE
      BY <1>1
    <3> QED
      BY <1>3, <1>4, <2>1, <3>1
  <2> QED
    BY <1>6, <2>2 DEF Img
<1>8. /\ t = [s EXCEPT !.units = us \o new, !.pending = s.pending /\ pieces = <<>>]
  BY <1>2, <1>6 DEF Add
<1> DEFINE Good(p) == /\ Sectioned(us \o Img(p, unit), stack) /\ us \o Img(p, unit) \in Seq(Units)
                      /\ Text(us \o Img(p, unit)) = Text(us) \o Joined(p)
           T == {p \in Seq(Filled) : Good(p)}
<1>9. us \in Seq(Units) /\ Sectioned(us, stack) /\ Text(us) \in Words
  BY <1>1, <1>2, <1>3, TextIs
<1>10. <<>> \in T
  <2>1. Img(<<>>, unit) = <<>> /\ <<>> \in Seq(Filled)
    BY EmptySeq DEF Img
  <2>2. us \o <<>> = us
    BY <1>9, ConcatEmptySeq
  <2>3. Text(us) \o <<>> = Text(us)
    BY <1>9, ConcatEmptySeq DEF Words
  <2> QED
    BY <1>9, <2>1, <2>2, <2>3, JoinedNone
<1>11. ASSUME NEW p \in Seq(Filled), NEW x \in Filled, p \in T PROVE Append(p, x) \in T
  <2>1. Img(p, unit) \in Seq(Units)
    BY <1>5, ImgIs
  <2>2. Append(p, x) \in Seq(Filled) /\ Append(p, x) = p \o <<x>> /\ <<x>> \in Seq(Filled)
    BY AppendProperties, AppendIsConcat
  <2>3. Img(Append(p, x), unit) = Img(p, unit) \o <<unit[x]>>
    <3>1. Img(p \o <<x>>, unit) = Img(p, unit) \o Img(<<x>>, unit)
      BY <2>2, ImgConcat
    <3>2. Img(<<x>>, unit) = <<unit[x]>>
      <4>1. Len(<<x>>) = 1 /\ <<x>>[1] = x
        OBVIOUS
      <4> QED
        BY <2>2, <4>1 DEF Img
    <3> QED
      BY <2>2, <3>1, <3>2
  <2>4. PICK v : v = us \o Img(p, unit)
    OBVIOUS
  <2>5. v \in Seq(Units) /\ Sectioned(v, stack) /\ Text(v) = Text(us) \o Joined(p)
    BY <1>11, <2>4
  <2>6. us \o Img(Append(p, x), unit) = Append(v, unit[x])
    <3>1. <<unit[x]>> \in Seq(Units) /\ unit[x] \in Units
      BY <1>5
    <3>2. us \o (Img(p, unit) \o <<unit[x]>>) = v \o <<unit[x]>>
      BY <1>9, <2>1, <2>4, <3>1, ConcatAssociative
    <3>3. Append(v, unit[x]) = v \o <<unit[x]>>
      BY <2>5, <3>1, AppendIsConcat
    <3> QED
      BY <2>3, <3>2, <3>3
  <2>7. Sectioned(Append(v, unit[x]), stack) /\ Append(v, unit[x]) \in Seq(Units)
    BY <1>5, <2>5, BodyAppends, AppendProperties
  <2>8. Text(Append(v, unit[x])) = Text(us) \o Joined(Append(p, x))
    <3>1. Text(Append(v, unit[x])) = Text(v) \o x
      BY <1>5, <2>5, TextIs
    <3>2. Joined(Append(p, x)) = Joined(p) \o x
      BY JoinedAppend
    <3>3. x \in Words /\ Joined(p) \in Words
      <4>1. p \in Seq(Words)
        BY SeqMonotonic DEF Filled
      <4> QED
        BY <4>1, JoinedType DEF Filled
    <3>4. (Text(us) \o Joined(p)) \o x = Text(us) \o (Joined(p) \o x)
      BY <1>9, <3>3, Assoc
    <3> QED
      BY <2>5, <3>1, <3>2, <3>4
  <2> QED
    BY <2>2, <2>6, <2>7, <2>8
<1>12. pieces \in T
  <2> HIDE DEF T
  <2> QED
    BY <1>10, <1>11, OverSeqs
<1>13. /\ t \in Splits /\ t.units = us \o new /\ t.stack = s.stack /\ t.para = s.para
       /\ ~t.pending
  <2>1. us \o new \in Seq(Units) /\ (s.pending /\ pieces = <<>>) = FALSE
    BY <1>1, <1>7, <1>12
  <2> QED
    BY <1>1, <1>8, <2>1 DEF Splits
<1> QED
  BY <1>2, <1>3, <1>7, <1>12, <1>13 DEF SplitOK

\* A heading becomes a unit, the first of its section.
LEMMA AddHeading ==
  ASSUME NEW s, SplitOK(s), NEW x \in Filled, NEW h \in Marks, h.at = x[1],
         NEW t, t = Add([s EXCEPT !.stack = Pushed(@, h), !.pending = TRUE], <<x>>, TRUE)
  PROVE  /\ SplitOK(t) /\ t.para = s.para
         /\ Text(t.units) = Text(s.units) \o x
<1>1. /\ s \in Splits /\ s.units \in Seq(Units) /\ s.stack \in Seq(Marks) /\ ~s.pending
      /\ Sectioned(s.units, s.stack)
  BY DEF SplitOK, Splits
<1>2. PICK us : us = s.units
  OBVIOUS
<1>3. PICK stack : stack = Pushed(s.stack, h)
  OBVIOUS
<1>4. stack \in Seq(Marks)
  BY <1>1, <1>3, PushedIs DEF Sectioned
<1>5. PICK u : u = [text |-> x, path |-> stack, heading |-> TRUE, starts |-> TRUE]
  OBVIOUS
<1>6. u \in Units /\ u.heading /\ u.starts /\ u.path = stack /\ u.text = x
  BY <1>4, <1>5 DEF Units
<1>7. PICK r : r = [s EXCEPT !.stack = Pushed(@, h), !.pending = TRUE]
  OBVIOUS
<1>8. /\ r \in Splits /\ r.units = us /\ r.stack = stack /\ r.pending = TRUE /\ r.para = s.para
  BY <1>1, <1>2, <1>3, <1>4, <1>7 DEF Splits
<1>9. PICK new : new = [i \in DOMAIN <<x>> |->
                          [text |-> <<x>>[i], path |-> r.stack, heading |-> TRUE,
                           starts |-> r.pending /\ i = 1]]
  OBVIOUS
<1>10. new = <<u>>
  <2>1. DOMAIN <<x>> = 1..1 /\ <<x>>[1] = x
    OBVIOUS
  <2>2. (r.pending /\ 1 = 1) = TRUE
    BY <1>8
  <2>3. new = [i \in 1..1 |-> u]
    <3>1. \A i \in 1..1 : <<x>>[i] = x /\ (r.pending /\ i = 1) = TRUE
      BY <1>8, <2>1, <2>2
    <3>2. \A i \in 1..1 : [text |-> <<x>>[i], path |-> r.stack, heading |-> TRUE,
                           starts |-> r.pending /\ i = 1] = u
      BY <1>5, <1>8, <3>1
    <3> QED
      BY <1>9, <2>1, <3>2, Zenon
  <2> QED
    BY <2>3
<1>11. t = [r EXCEPT !.units = us \o new, !.pending = r.pending /\ <<x>> = <<>>]
  BY <1>7, <1>8, <1>9 DEF Add
<1>12. us \o new = Append(us, u) /\ Append(us, u) \in Seq(Units)
  BY <1>1, <1>2, <1>6, <1>10, AppendIsConcat, AppendProperties
<1>13. /\ t \in Splits /\ t.units = Append(us, u) /\ t.stack = stack /\ t.para = s.para /\ ~t.pending
  <2>1. (r.pending /\ <<x>> = <<>>) = FALSE
    OBVIOUS
  <2> QED
    BY <1>8, <1>11, <1>12, <2>1 DEF Splits
<1>14. Sectioned(t.units, t.stack)
  BY <1>1, <1>2, <1>3, <1>6, <1>13, HeadingAppends
<1>15. Text(t.units) = Text(us) \o x
  BY <1>1, <1>2, <1>6, <1>13, TextIs
<1> QED
  BY <1>2, <1>13, <1>14, <1>15 DEF SplitOK

\* The words of a paragraph with one more line.
LEMMA ParaCat ==
  ASSUME NEW xs \in Seq(ParaLines), NEW l \in ParaLines
  PROVE  Cat(Append(xs, l), ParaText) = Cat(xs, ParaText) \o l.text
<1>1. ParaText \in [ParaLines -> Words] /\ ParaText[l] = l.text
  BY TextsAreWords
<1>2. Cat(Append(xs, l), ParaText) = Cat(xs, ParaText) \o ParaText[l]
  BY Zenon, <1>1, CatOne
<1> QED
  BY <1>1, <1>2


\* The paragraph's sentences become units.
LEMMA ParagraphEnds ==
  ASSUME NEW s, SplitOK(s), NEW t, t = EndParagraph(s)
  PROVE  /\ SplitOK(t) /\ t.para = <<>> /\ t.stack = s.stack
         /\ Text(t.units) = Text(s.units) \o Cat(s.para, ParaText)
<1>1. s.para \in Seq(ParaLines)
  BY DEF SplitOK, Splits
<1>2. Sentences(s.para) \in Seq(Filled) /\ Joined(Sentences(s.para)) = Cat(s.para, ParaText)
  BY <1>1, SentencesAre
<1>3. PICK a : a = Add(s, Sentences(s.para), FALSE)
  OBVIOUS
<1>4. /\ SplitOK(a) /\ a.stack = s.stack /\ a.para = s.para
      /\ Text(a.units) = Text(s.units) \o Joined(Sentences(s.para))
  BY <1>2, <1>3, AddBody
<1>5. t = [a EXCEPT !.para = <<>>]
  BY <1>3 DEF EndParagraph
<1>6. a \in Splits /\ <<>> \in Seq(ParaLines)
  BY <1>4, EmptySeq DEF SplitOK
<1>7. /\ t \in Splits /\ t.units = a.units /\ t.stack = a.stack /\ t.pending = a.pending
      /\ t.para = <<>>
  BY <1>5, <1>6 DEF Splits
<1> QED
  BY <1>2, <1>4, <1>7 DEF SplitOK

\* The words that the split has so far, and those of the paragraph it reads.
SplitInv ==
  /\ strategy \in {"fixed", "sentence", "structured"} /\ chunker \in {"split", "pack", "done"}
  /\ left \in Seq(Lines) /\ read \in Nat
  /\ SplitOK(split)
  /\ Text(split.units) \o Cat(split.para, ParaText) = Upto(read)
  /\ chunker # "split" => split.para = <<>>

LEMMA JoinedOne ==
  ASSUME NEW x \in Words
  PROVE  Joined(<<x>>) = x /\ <<x>> = Append(<<>>, x)
<1>1. <<x>> = Append(<<>>, x) /\ <<>> \in Seq(Words)
  OBVIOUS
<1>2. Joined(<<x>>) = <<>> \o x
  BY <1>1, JoinedNone, JoinedAppend
<1>3. <<>> \o x = x
  BY ConcatEmptySeq DEF Words
<1> QED
  BY <1>1, <1>2, <1>3

\* A line read: the words split so far are those read.
LEMMA ReadLineSplits ==
  ASSUME SplitInv, ReadLine
  PROVE  SplitInv'
<1>1. PICK line : line = Head(left)
  OBVIOUS
<1>2. /\ chunker = "split" /\ left # <<>> /\ left \in Seq(Lines) /\ read \in Nat
      /\ SplitOK(split) /\ Text(split.units) \o Cat(split.para, ParaText) = Upto(read)
      /\ left' = Tail(left) /\ read' = read + line.words
      /\ UNCHANGED <<strategy, chunker>>
  BY <1>1 DEF SplitInv, ReadLine
<1>3. line \in Lines /\ left' \in Seq(Lines)
  BY <1>1, <1>2, HeadTailProperties
<1>4. /\ line.kind \in {"blank", "heading", "item", "text"} /\ line.words \in Nat
      /\ line.ends \in BOOLEAN /\ line.level \in Nat
      /\ (line.words = 0 <=> line.kind = "blank")
  BY <1>3, ChunkingAssumption
<1>5. PICK x : x = Numbered(line.words)
  OBVIOUS
<1>6. /\ x = [i \in 1..line.words |-> read + i] /\ x \in Words
      /\ Upto(read) \o x = Upto(read + line.words) /\ Upto(read) \in Words
  <2>1. x = [i \in 1..line.words |-> read + i]
    BY <1>5 DEF Numbered
  <2> QED
    BY <1>2, <1>4, <2>1, UptoGrows
<1>7. ASSUME line.words # 0 PROVE x \in Filled /\ x[1] = read + 1 /\ <<x>> \in Seq(Filled)
  <2>1. 1 \in 1..line.words
    BY <1>4, <1>7
  <2>2. x[1] = read + 1 /\ x # <<>>
    BY <1>6, <2>1
  <2>3. x \in Filled
    BY <1>6, <2>2 DEF Filled
  <2> QED
    BY <2>2, <2>3
<1>8. PICK done : done = EndParagraph(split)
  OBVIOUS
<1>9. SplitOK(done) /\ done.para = <<>> /\ Text(done.units) = Upto(read)
  BY <1>2, <1>8, ParagraphEnds
<1>10. Text(split.units) \in Words /\ Cat(split.para, ParaText) \in Words
       /\ split.para \in Seq(ParaLines) /\ split \in Splits
  <2>1. split \in Splits
    BY <1>2 DEF SplitOK
  <2>2. split.units \in Seq(Units) /\ split.para \in Seq(ParaLines)
    BY <2>1 DEF Splits
  <2>3. Cat(split.para, ParaText) \in Words
    BY <2>2, CatIs, TextsAreWords
  <2> QED
    BY <2>1, <2>2, <2>3, TextIs
<1> DEFINE Reads(s) == SplitOK(s) /\ Text(s.units) \o Cat(s.para, ParaText) = Upto(read + line.words)
<1>a. ASSUME NEW s, SplitOK(s), s.para = <<>>, Text(s.units) = Upto(read + line.words)
      PROVE  Reads(s)
  <2>1. Cat(s.para, ParaText) = <<>>
    BY <1>a, CatNone
  <2>2. Upto(read + line.words) \in Seq(Nat)
    <3>1. read + line.words \in Nat
      BY <1>2, <1>4
    <3> QED
      BY <3>1 DEF Upto
  <2>3. Upto(read + line.words) \o <<>> = Upto(read + line.words)
    BY <2>2, ConcatEmptySeq
  <2> QED
    BY <1>a, <2>1, <2>3
<1>11. CASE line.kind = "text"
  <2>1. PICK l : l = [text |-> x, ends |-> line.ends]
    OBVIOUS
  <2>2. split' = [split EXCEPT !.para = Append(@, l)]
    BY <1>1, <1>5, <1>11, <2>1 DEF ReadLine
  <2>3. l \in ParaLines /\ l.text = x
    BY <1>4, <1>7, <1>11, <2>1 DEF ParaLines
  <2>4. Append(split.para, l) \in Seq(ParaLines)
    BY <1>10, <2>3, AppendProperties
  <2>5. /\ split' \in Splits /\ split'.para = Append(split.para, l) /\ split'.units = split.units
        /\ split'.stack = split.stack /\ split'.pending = split.pending
    BY <1>10, <2>2, <2>4 DEF Splits
  <2>6. SplitOK(split')
    BY <1>2, <2>5 DEF SplitOK
  <2>7. Cat(Append(split.para, l), ParaText) = Cat(split.para, ParaText) \o x
    BY <1>10, <2>3, ParaCat
  <2>8. Text(split.units) \o (Cat(split.para, ParaText) \o x) = Upto(read + line.words)
    <3>1. PICK a : a = Text(split.units)
      OBVIOUS
    <3>2. PICK b : b = Cat(split.para, ParaText)
      OBVIOUS
    <3>3. a \in Words /\ b \in Words /\ x \in Words /\ a \o b = Upto(read)
      BY <1>2, <1>6, <1>10, <3>1, <3>2
    <3>4. (a \o b) \o x = a \o (b \o x)
      BY <3>3, Assoc
    <3> QED
      BY <1>6, <3>1, <3>2, <3>3, <3>4
  <2>9. Reads(split')
    BY <2>5, <2>6, <2>7, <2>8
  <2> HIDE DEF Reads
  <2> QED
    BY <1>2, <1>3, <1>4, <2>9 DEF SplitInv, Reads
<1>12. CASE line.kind = "blank"
  <2>1. split' = done /\ line.words = 0
    BY <1>1, <1>4, <1>8, <1>12 DEF ReadLine
  <2>2. read + line.words = read
    BY <1>2, <2>1
  <2>3. Reads(done)
    <3> HIDE DEF Reads
    <3> QED
      BY <1>9, <1>a, <2>2
  <2> QED
    BY <1>2, <1>3, <1>4, <2>1, <2>3 DEF SplitInv
<1>13. CASE line.kind = "item"
  <2>1. split' = Add(done, <<x>>, FALSE)
    BY <1>1, <1>5, <1>8, <1>13 DEF ReadLine
  <2>2. x \in Filled /\ <<x>> \in Seq(Filled)
    BY <1>4, <1>7, <1>13
  <2>3. PICK t : t = Add(done, <<x>>, FALSE)
    OBVIOUS
  <2>4. /\ SplitOK(t) /\ t.para = done.para /\ Text(t.units) = Text(done.units) \o Joined(<<x>>)
    BY <1>9, <2>2, <2>3, AddBody
  <2>5. Text(t.units) = Upto(read + line.words)
    BY <1>6, <1>9, <2>4, JoinedOne
  <2>6. Reads(t)
    <3> HIDE DEF Reads
    <3> QED
      BY <1>9, <1>a, <2>4, <2>5
  <2>7. split' = t
    BY <2>1, <2>3
  <2> QED
    BY <1>2, <1>3, <1>4, <2>6, <2>7 DEF SplitInv
<1>14. CASE line.kind = "heading"
  <2>1. PICK h : h = [level |-> line.level, at |-> read + 1]
    OBVIOUS
  <2>2. split' = Add([done EXCEPT !.stack = Pushed(@, h), !.pending = TRUE], <<x>>, TRUE)
    BY <1>1, <1>5, <1>8, <1>14, <2>1 DEF ReadLine
  <2>3. h \in Marks /\ x \in Filled /\ h.at = x[1]
    BY <1>2, <1>4, <1>7, <1>14, <2>1 DEF Marks
  <2>4. PICK t : t = Add([done EXCEPT !.stack = Pushed(@, h), !.pending = TRUE], <<x>>, TRUE)
    OBVIOUS
  <2>5. SplitOK(t) /\ t.para = done.para /\ Text(t.units) = Text(done.units) \o x
    BY Zenon, <1>9, <2>3, <2>4, AddHeading
  <2>6. Text(t.units) = Upto(read + line.words)
    BY <1>6, <1>9, <2>5
  <2>7. Reads(t)
    <3> HIDE DEF Reads
    <3> QED
      BY <1>9, <1>a, <2>5, <2>6
  <2> QED
    <3>1. split' = t
      BY <2>2, <2>4
    <3> QED
      BY <1>2, <1>3, <1>4, <2>7, <3>1 DEF SplitInv
<1> QED
  BY <1>4, <1>11, <1>12, <1>13, <1>14

\* Nothing read yet.
LEMMA SplitStarts ==
  ASSUME ChunkInit
  PROVE  SplitInv
<1>1. /\ strategy \in {"fixed", "sentence", "structured"} /\ chunker = "split" /\ read = 0
      /\ split = [units |-> <<>>, stack |-> <<>>, pending |-> FALSE, para |-> <<>>]
      /\ left \in Seq(Lines)
  BY DEF ChunkInit
<1>2. split \in Splits
  BY <1>1, EmptySeq DEF Splits
<1>3. Sectioned(<<>>, <<>>)
  <2>1. OpenAt(<<>>, 0) = {} /\ Elements(<<>>) = {}
    BY DEF OpenAt, Elements
  <2>2. MarksAt(<<>>, 0) = {}
    BY <2>1 DEF MarksAt
  <2>3. Climbs(<<>>)
    BY DEF Climbs
  <2>4. Len(<<>>) = 0 /\ \A k \in 1..0 : UnitOK(<<>>, k)
    OBVIOUS
  <2>5. <<>> \in Seq(Units) /\ <<>> \in Seq(Marks)
    BY EmptySeq
  <2> QED
    BY <2>1, <2>2, <2>3, <2>4, <2>5 DEF Sectioned
<1>4. SplitOK(split)
  BY <1>1, <1>2, <1>3 DEF SplitOK
<1>5. Text(split.units) \o Cat(split.para, ParaText) = Upto(read)
  <2>1. Upto(0) = <<>>
    BY DEF Upto
  <2>2. <<>> \o <<>> = <<>>
    OBVIOUS
  <2> QED
    BY <1>1, <2>1, <2>2, TextNone, CatNone
<1> QED
  BY <1>1, <1>4, <1>5 DEF SplitInv

\* The text ended: all that was read is in units.
LEMMA EndOfTextSplits ==
  ASSUME SplitInv, EndOfText
  PROVE  SplitInv' /\ Text(split'.units) = Upto(read)
<1>1. PICK t : t = EndParagraph(split)
  OBVIOUS
<1>2. split' = t /\ chunker' = "pack" /\ UNCHANGED <<strategy, left, read>>
  BY <1>1 DEF EndOfText
<1>3. SplitOK(t) /\ t.para = <<>> /\ Text(t.units) = Upto(read)
  BY <1>1, ParagraphEnds DEF SplitInv
<1>4. Text(t.units) \o Cat(t.para, ParaText) = Upto(read)
  <2>1. Upto(read) \o <<>> = Upto(read)
    BY ConcatEmptySeq DEF SplitInv, Upto
  <2> QED
    BY <1>3, <2>1, CatNone
<1> QED
  BY <1>2, <1>3, <1>4 DEF SplitInv

LEMMA SplitStays ==
  ASSUME SplitInv, UNCHANGED <<strategy, left, read, split>>,
         chunker' = chunker \/ (chunker = "pack" /\ chunker' = "done")
  PROVE  SplitInv'
BY DEF SplitInv

\* What the split promises of its units.
UnitsOK(us, n) ==
  /\ us \in Seq(Units) /\ n \in Nat /\ Text(us) = Upto(n)
  /\ \A k \in 1..Len(us) : UnitOK(us, k)

\* The units of a split: all words read, in order, each under the headings in force.
LEMMA SplitGives ==
  ASSUME SplitInv, chunker # "split"
  PROVE  UnitsOK(split.units, read)
<1>1. /\ split \in Splits /\ Sectioned(split.units, split.stack) /\ split.para = <<>>
      /\ read \in Nat
      /\ Text(split.units) \o Cat(split.para, ParaText) = Upto(read)
  BY DEF SplitInv, SplitOK
<1>2. Text(split.units) \in Seq(Nat)
  BY <1>1, TextIs DEF Splits, Words
<1>3. Text(split.units) = Upto(read)
  BY <1>1, <1>2, CatNone, ConcatEmptySeq
<1> QED
  BY <1>1, <1>3 DEF UnitsOK, Sectioned
(***************************************************************************)
(* Which unit a word is in                                                 *)
(***************************************************************************)

\* A sequence is what comes up to a place and what comes after it.
LEMMA SeqSplits ==
  ASSUME NEW S, NEW s \in Seq(S), NEW m \in 0..Len(s)
  PROVE  /\ SubSeq(s, 1, m) \in Seq(S) /\ Len(SubSeq(s, 1, m)) = m
         /\ \A i \in 1..m : SubSeq(s, 1, m)[i] = s[i]
         /\ SubSeq(s, m + 1, Len(s)) \in Seq(S) /\ Len(SubSeq(s, m + 1, Len(s))) = Len(s) - m
         /\ \A i \in 1..(Len(s) - m) : SubSeq(s, m + 1, Len(s))[i] = s[m + i]
         /\ s = SubSeq(s, 1, m) \o SubSeq(s, m + 1, Len(s))
<1>n. PICK n \in Nat : n = Len(s)
  BY LenProperties
<1>1. PICK a : a = SubSeq(s, 1, m)
  OBVIOUS
<1>2. a \in Seq(S) /\ Len(a) = m /\ \A i \in 1..m : a[i] = s[i]
  <2>1. \A i \in 1..m : i \in 1..n
    BY <1>n
  <2> QED
    BY <1>1, <1>n, <2>1, SubSeqProperties
<1>3. PICK b : b = SubSeq(s, m + 1, n)
  OBVIOUS
<1>4. b \in Seq(S) /\ Len(b) = n - m /\ \A i \in 1..(n - m) : b[i] = s[m + i]
  <2>1. \A i \in (m + 1)..n : i \in 1..n
    BY <1>n
  <2>2. \A i \in 1..(n - m) : (m + 1) + i - 1 = m + i
    BY <1>n
  <2>3. IF m + 1 <= n THEN n - (m + 1) + 1 = n - m ELSE n - m = 0
    BY <1>n
  <2> QED
    BY <1>3, <1>n, <2>1, <2>2, <2>3, SubSeqProperties
<1>5. PICK c : c = a \o b
  OBVIOUS
<1>6. /\ c \in Seq(S) /\ Len(c) = n
      /\ \A i \in 1..n : c[i] = IF i <= m THEN a[i] ELSE b[i - m]
  <2>1. /\ a \o b \in Seq(S) /\ Len(a \o b) = Len(a) + Len(b)
        /\ \A i \in 1..(Len(a) + Len(b)) : (a \o b)[i] = IF i <= Len(a) THEN a[i] ELSE b[i - Len(a)]
    BY <1>2, <1>4, ConcatProperties
  <2>2. Len(a) + Len(b) = n
    BY <1>2, <1>4, <1>n
  <2> QED
    BY <1>2, <1>5, <2>1, <2>2
<1>7. ASSUME NEW i \in 1..n PROVE c[i] = s[i]
  <2>1. CASE i <= m
    <3>1. i \in 1..m
      BY <2>1
    <3> QED
      BY <1>2, <1>6, <2>1, <3>1
  <2>2. CASE i > m
    <3>1. i - m \in 1..(n - m) /\ ~(i <= m) /\ m + (i - m) = i
      BY <1>n, <2>2
    <3> QED
      BY <1>4, <1>6, <3>1
  <2> QED
    BY <2>1, <2>2
<1>8. c = s
  BY <1>6, <1>7, <1>n, SeqEqual
<1> QED
  BY <1>1, <1>2, <1>3, <1>4, <1>5, <1>8, <1>n

\* Every word of the text is in one unit, after those of the units before.
LEMMA TextSplits ==
  ASSUME NEW us \in Seq(Units), NEW k \in 1..Len(us)
  PROVE  \E c \in Words : /\ Text(us) = Text(SubSeq(us, 1, k - 1)) \o (us[k].text \o c)
                          /\ c = Text(SubSeq(us, k + 1, Len(us)))
<1>n. PICK n \in Nat : n = Len(us)
  BY LenProperties
<1>1. k - 1 \in 0..n /\ k \in 0..n /\ k \in Nat /\ (k - 1) + 1 = k
  BY <1>n
<1>2. PICK p : p = SubSeq(us, 1, k - 1)
  OBVIOUS
<1>3. PICK q : q = SubSeq(us, k + 1, n)
  OBVIOUS
<1>4. PICK r : r = SubSeq(us, 1, k)
  OBVIOUS
<1>5. p \in Seq(Units) /\ Len(p) = k - 1 /\ \A i \in 1..(k - 1) : p[i] = us[i]
  BY <1>1, <1>2, <1>n, SeqSplits
<1>6. r \in Seq(Units) /\ Len(r) = k /\ (\A i \in 1..k : r[i] = us[i]) /\ q \in Seq(Units)
      /\ us = r \o q
  BY <1>1, <1>3, <1>4, <1>n, SeqSplits
<1>7. us[k] \in Units
  BY <1>n, ElementOfSeq
<1>8. r = Append(p, us[k])
  <2>1. PICK a : a = Append(p, us[k])
    OBVIOUS
  <2>2. a \in Seq(Units) /\ Len(a) = k /\ (\A i \in 1..(k - 1) : a[i] = p[i]) /\ a[k] = us[k]
    BY <1>1, <1>5, <1>7, <2>1, AppendProperties
  <2>3. ASSUME NEW i \in 1..k PROVE a[i] = r[i]
    <3>1. CASE i = k
      BY <1>6, <2>2, <3>1
    <3>2. CASE i # k
      <4>1. i \in 1..(k - 1)
        BY <3>2
      <4> QED
        BY <1>5, <1>6, <2>2, <4>1
    <3> QED
      BY <3>1, <3>2
  <2> QED
    BY <1>1, <1>6, <2>1, <2>2, <2>3, SeqEqual
<1>9. Text(us) = Text(r) \o Text(q)
  BY <1>6, TextIs
<1>10. Text(r) = Text(p) \o us[k].text
  BY <1>5, <1>7, <1>8, TextIs
<1>11. PICK a : a = Text(p)
  OBVIOUS
<1>12. PICK c : c = Text(q)
  OBVIOUS
<1>13. a \in Words /\ c \in Words /\ us[k].text \in Words
  BY <1>5, <1>6, <1>7, <1>11, <1>12, TextIs, TextsAreWords DEF Filled
<1>14. (a \o us[k].text) \o c = a \o (us[k].text \o c)
  BY Zenon, <1>13, Assoc
<1> QED
  BY <1>2, <1>3, <1>9, <1>10, <1>11, <1>12, <1>13, <1>14, <1>n

\* Where a word of three parts is.
Parts(a, b, c) ==
  /\ \A i \in 1..Len(a) : a[i] = i
  /\ \A i \in 1..Len(b) : b[i] = Len(a) + i
  /\ \A i \in 1..Len(c) : c[i] = Len(a) + Len(b) + i

\* The first, second and third part hold the words before, in and after the second.
LEMMA PartsAt ==
  ASSUME NEW n \in Nat, NEW a \in Words, NEW b \in Words, NEW c \in Words,
         Upto(n) = a \o (b \o c)
  PROVE  Parts(a, b, c)
<1>a. PICK x \in Nat : x = Len(a)
  BY LenProperties DEF Words
<1>b. PICK y \in Nat : y = Len(b)
  BY LenProperties DEF Words
<1>c. PICK z \in Nat : z = Len(c)
  BY LenProperties DEF Words
<1>1. PICK d : d = b \o c
  OBVIOUS
<1>2. /\ d \in Seq(Nat) /\ Len(d) = y + z
      /\ \A i \in 1..(y + z) : d[i] = IF i <= y THEN b[i] ELSE c[i - y]
  <2>1. /\ b \o c \in Seq(Nat) /\ Len(b \o c) = Len(b) + Len(c)
        /\ \A i \in 1..(Len(b) + Len(c)) : (b \o c)[i] = IF i <= Len(b) THEN b[i] ELSE c[i - Len(b)]
    BY ConcatProperties DEF Words
  <2> QED
    BY <1>1, <1>b, <1>c, <2>1
<1>3. PICK e : e = a \o d
  OBVIOUS
<1>4. /\ Len(e) = x + (y + z)
      /\ \A i \in 1..(x + (y + z)) : e[i] = IF i <= x THEN a[i] ELSE d[i - x]
  <2>1. /\ a \o d \in Seq(Nat) /\ Len(a \o d) = Len(a) + Len(d)
        /\ \A i \in 1..(Len(a) + Len(d)) : (a \o d)[i] = IF i <= Len(a) THEN a[i] ELSE d[i - Len(a)]
    BY <1>2, ConcatProperties DEF Words
  <2> QED
    BY <1>2, <1>3, <1>a, <2>1
<1>5. Len(Upto(n)) = n /\ \A i \in 1..n : Upto(n)[i] = i
  BY DEF Upto
<1>6. n = x + (y + z) /\ \A i \in 1..n : e[i] = i
  BY <1>1, <1>3, <1>4, <1>5
<1>7. ASSUME NEW i \in 1..x PROVE a[i] = i
  <2>1. i \in 1..n /\ i \in 1..(x + (y + z)) /\ i <= x
    BY <1>6
  <2> QED
    BY <1>4, <1>6, <2>1
<1>8. ASSUME NEW i \in 1..(y + z) PROVE d[i] = x + i
  <2>1. x + i \in 1..n /\ x + i \in 1..(x + (y + z)) /\ ~(x + i <= x) /\ (x + i) - x = i
    BY <1>6
  <2>2. e[x + i] = d[i]
    BY <1>4, <2>1
  <2> QED
    BY <1>6, <2>1, <2>2
<1>9. ASSUME NEW i \in 1..y PROVE b[i] = x + i
  <2>1. i \in 1..(y + z) /\ i <= y
    OBVIOUS
  <2> QED
    BY <1>2, <1>8, <2>1
<1>10. ASSUME NEW i \in 1..z PROVE c[i] = x + y + i
  <2>1. y + i \in 1..(y + z) /\ ~(y + i <= y) /\ (y + i) - y = i
    OBVIOUS
  <2>2. d[y + i] = c[i]
    BY <1>2, <2>1
  <2>3. d[y + i] = x + (y + i)
    BY <1>8, <2>1
  <2> QED
    BY <2>2, <2>3
<1> QED
  BY <1>7, <1>9, <1>10, <1>a, <1>b, <1>c DEF Parts

\* A unit's first word is one of those the units together have.
LEMMA FirstWordIn ==
  ASSUME NEW us \in Seq(Units), NEW j \in 1..Len(us)
  PROVE  \E x \in 1..Len(Text(us)) : us[j].text[1] = Text(us)[x]
<1>1. PICK a : a = Text(SubSeq(us, 1, j - 1))
  OBVIOUS
<1>2. PICK c \in Words : Text(us) = a \o (us[j].text \o c)
  BY <1>1, TextSplits
<1>3. PICK b : b = us[j].text
  OBVIOUS
<1>4. a \in Seq(Nat) /\ b \in Seq(Nat) /\ b # <<>> /\ c \in Seq(Nat)
  <2>1. j - 1 \in 0..Len(us) /\ us[j] \in Units
    BY LenProperties, ElementOfSeq
  <2>2. SubSeq(us, 1, j - 1) \in Seq(Units)
    BY <2>1, SeqSplits
  <2> QED
    BY <1>1, <1>3, <2>1, <2>2, TextIs, TextsAreWords DEF Filled, Words
<1>5. PICK d : d = b \o c
  OBVIOUS
<1>6. d \in Seq(Nat) /\ Len(d) = Len(b) + Len(c) /\ d[1] = b[1] /\ Len(b) > 0
  <2>1. Len(b) \in Nat /\ Len(b) > 0 /\ Len(c) \in Nat
    BY <1>4, LenProperties, EmptySeq
  <2>2. 1 \in 1..(Len(b) + Len(c)) /\ 1 <= Len(b)
    BY <2>1
  <2> QED
    BY <1>4, <1>5, <2>1, <2>2, ConcatProperties
<1>7. PICK e : e = a \o d
  OBVIOUS
<1>8. Len(e) = Len(a) + Len(d) /\ e[Len(a) + 1] = d[1] /\ Len(a) + 1 \in 1..Len(e)
  <2>1. Len(a) \in Nat /\ Len(d) \in Nat /\ Len(d) > 0
    BY <1>4, <1>6, LenProperties
  <2>2. Len(a) + 1 \in 1..(Len(a) + Len(d)) /\ ~(Len(a) + 1 <= Len(a)) /\ (Len(a) + 1) - Len(a) = 1
    BY <2>1
  <2>3. /\ a \o d \in Seq(Nat) /\ Len(a \o d) = Len(a) + Len(d)
        /\ \A x \in 1..(Len(a) + Len(d)) : (a \o d)[x] = IF x <= Len(a) THEN a[x] ELSE d[x - Len(a)]
    <3>1. a \in Seq(Nat) /\ d \in Seq(Nat)
      BY <1>4, <1>6
    <3> QED
      BY <3>1, ConcatProperties
  <2>4. e[Len(a) + 1] = d[1]
    BY <1>7, <2>2, <2>3
  <2> QED
    BY <1>7, <2>2, <2>3, <2>4
<1>9. e = Text(us)
  BY <1>2, <1>3, <1>5, <1>7
<1> QED
  BY <1>3, <1>6, <1>8, <1>9

\* The units that have begun at a word are its own and those before it.
LEMMA BegunAt ==
  ASSUME NEW us, NEW n, UnitsOK(us, n), NEW k \in 1..Len(us), NEW i \in 1..Len(us[k].text),
         NEW j \in 1..Len(us)
  PROVE  (us[j].text[1] <= us[k].text[i]) <=> j <= k
<1>u. us \in Seq(Units) /\ n \in Nat /\ Text(us) = Upto(n)
  BY DEF UnitsOK
<1>l. PICK l \in Nat : l = Len(us)
  BY <1>u, LenProperties
<1>p. PICK p : p = SubSeq(us, 1, k - 1)
  OBVIOUS
<1>q. PICK q : q = SubSeq(us, k + 1, Len(us))
  OBVIOUS
<1>1. /\ p \in Seq(Units) /\ Len(p) = k - 1 /\ \A x \in 1..(k - 1) : p[x] = us[x]
  <2>1. k - 1 \in 0..Len(us)
    BY <1>l
  <2> QED
    BY <1>p, <1>u, <2>1, SeqSplits
<1>2. /\ q \in Seq(Units) /\ Len(q) = l - k /\ \A x \in 1..(l - k) : q[x] = us[k + x]
  <2>1. k \in 0..Len(us)
    BY <1>l
  <2> QED
    BY <1>l, <1>q, <1>u, <2>1, SeqSplits
<1>a. PICK a : a = Text(p)
  OBVIOUS
<1>b. PICK b : b = us[k].text
  OBVIOUS
<1>c. PICK c : c = Text(q)
  OBVIOUS
<1>3. Upto(n) = a \o (b \o c)
  BY <1>a, <1>b, <1>c, <1>p, <1>q, <1>u, TextSplits
<1>4. a \in Words /\ b \in Words /\ b # <<>> /\ c \in Words
  <2>1. us[k] \in Units
    BY <1>u, <1>l, ElementOfSeq
  <2> QED
    BY <1>1, <1>2, <1>a, <1>b, <1>c, <2>1, TextIs, TextsAreWords DEF Filled
<1>5. /\ \A x \in 1..Len(a) : a[x] = x
      /\ \A x \in 1..Len(b) : b[x] = Len(a) + x
      /\ \A x \in 1..Len(c) : c[x] = Len(a) + Len(b) + x
  <2>1. Parts(a, b, c)
    BY <1>3, <1>4, <1>u, PartsAt
  <2> QED
    BY <2>1 DEF Parts
<1>6. Len(a) \in Nat /\ Len(b) \in Nat /\ Len(c) \in Nat /\ Len(b) > 0
  BY <1>4, LenProperties, EmptySeq DEF Words
<1>7. b[i] = Len(a) + i /\ i \in 1..Len(b)
  BY <1>5, <1>b
<1>8. CASE j < k
  <2>1. j \in 1..Len(p) /\ us[j] = p[j]
    BY <1>1, <1>l, <1>8
  <2>2. PICK x \in 1..Len(a) : us[j].text[1] = a[x]
    BY <1>1, <1>a, <2>1, FirstWordIn
  <2> QED
    BY <1>5, <1>6, <1>7, <1>8, <1>b, <1>l, <2>2
<1>9. CASE j = k
  BY <1>5, <1>6, <1>7, <1>9, <1>b
<1>10. CASE j > k
  <2>1. j - k \in 1..Len(q) /\ us[j] = q[j - k]
    <3>1. j - k \in 1..(l - k) /\ k + (j - k) = j
      BY <1>l, <1>10
    <3> QED
      BY <1>2, <3>1
  <2>2. PICK x \in 1..Len(c) : us[j].text[1] = c[x]
    BY <1>2, <1>c, <2>1, FirstWordIn
  <2> QED
    BY <1>5, <1>6, <1>7, <1>10, <1>b, <1>l, <2>2
<1> QED
  BY <1>8, <1>9, <1>10, <1>l

\* The path of a unit has the headings in force at each of its words.
LEMMA PathsAreRight ==
  ASSUME UnitsOK(split.units, read), NEW k \in 1..Len(split.units),
         NEW i \in 1..Len(split.units[k].text)
  PROVE  {split.units[k].path[m].at : m \in DOMAIN split.units[k].path}
           = PathAt(split.units[k].text[i])
<1>u. PICK us : us = split.units
  OBVIOUS
<1>1. UnitsOK(us, read) /\ k \in 1..Len(us) /\ i \in 1..Len(us[k].text) /\ us \in Seq(Units)
  BY <1>u DEF UnitsOK
<1>l. PICK l \in Nat : l = Len(us) /\ DOMAIN us = 1..l
  BY <1>1, LenProperties
<1>w. PICK w : w = us[k].text[i]
  OBVIOUS
<1>2. \A j \in 1..l : (us[j].text[1] <= w) <=> j <= k
  BY <1>1, <1>l, <1>w, BegunAt
<1> DEFINE Before(j) == us[j].heading /\ us[j].text[1] <= w
<1>3. PathAt(w) = {us[j].text[1] : j \in {j \in 1..l :
                    Before(j) /\ \A x \in (j + 1)..l : Before(x) => Level(us[x]) > Level(us[j])}}
  BY <1>u, <1>l DEF PathAt
<1>4. {j \in 1..l : Before(j) /\ \A x \in (j + 1)..l : Before(x) => Level(us[x]) > Level(us[j])}
        = OpenAt(us, k)
  <2>1. ASSUME NEW j \in 1..l, Before(j),
               \A x \in (j + 1)..l : Before(x) => Level(us[x]) > Level(us[j])
        PROVE  j \in OpenAt(us, k)
    <3>1. j <= k /\ j \in 1..k /\ us[j].heading
      BY <1>1, <1>2, <1>l, <2>1
    <3>2. ASSUME NEW x \in (j + 1)..k, us[x].heading PROVE Level(us[x]) > Level(us[j])
      <4>1. x \in (j + 1)..l /\ x \in 1..l /\ x <= k
        BY <1>1, <1>l, <3>2
      <4>2. Before(x)
        BY <1>2, <3>2, <4>1
      <4> QED
        BY <2>1, <4>1, <4>2
    <3> QED
      BY <3>1, <3>2 DEF OpenAt
  <2>2. ASSUME NEW j \in OpenAt(us, k)
        PROVE  /\ j \in 1..l /\ Before(j)
               /\ \A x \in (j + 1)..l : Before(x) => Level(us[x]) > Level(us[j])
    <3>1. /\ j \in 1..k /\ us[j].heading
          /\ \A x \in (j + 1)..k : us[x].heading => Level(us[x]) > Level(us[j])
      BY DEF OpenAt
    <3>2. j \in 1..l /\ j <= k
      BY <1>1, <1>l, <3>1
    <3>3. ASSUME NEW x \in (j + 1)..l, Before(x) PROVE Level(us[x]) > Level(us[j])
      <4>1. x \in 1..l
        BY <3>2
      <4>2. x <= k
        BY <1>2, <3>3, <4>1
      <4>3. x \in (j + 1)..k
        BY <4>1, <4>2, <3>2, <1>1, <1>l
      <4> QED
        BY <3>1, <3>3, <4>3
    <3> QED
      BY <1>2, <3>1, <3>2, <3>3
  <2> QED
    BY <2>1, <2>2
<1>5. PathAt(w) = {us[j].text[1] : j \in OpenAt(us, k)}
  BY <1>3, <1>4
<1>6. ASSUME NEW j \in OpenAt(us, k) PROVE us[j].text[1] = Mark(us[j]).at
  <2>1. j \in 1..Len(us) /\ us[j].heading
    BY <1>1, <1>l DEF OpenAt
  <2> QED
    BY <1>1, <2>1 DEF UnitsOK, UnitOK
<1>7. PICK pa : pa = us[k].path
  OBVIOUS
<1>8. Elements(pa) = {Mark(us[j]) : j \in OpenAt(us, k)}
  BY <1>1, <1>7 DEF UnitsOK, UnitOK, MarksAt
<1>9. {pa[m].at : m \in DOMAIN pa} = {e.at : e \in Elements(pa)}
  BY DEF Elements
<1>10. {e.at : e \in Elements(pa)} = {us[j].text[1] : j \in OpenAt(us, k)}
  BY <1>6, <1>8
<1> QED
  BY <1>5, <1>7, <1>9, <1>10, <1>u, <1>w

(***************************************************************************)
(* Windows                                                                 *)
(***************************************************************************)

\* A stretch of a sequence.
LEMMA SubSeqIs ==
  ASSUME NEW S, NEW s \in Seq(S), NEW m \in 0..Len(s), NEW n \in m..Len(s)
  PROVE  /\ SubSeq(s, m + 1, n) \in Seq(S) /\ Len(SubSeq(s, m + 1, n)) = n - m
         /\ \A i \in 1..(n - m) : SubSeq(s, m + 1, n)[i] = s[m + i]
<1>l. PICK l \in Nat : l = Len(s)
  BY LenProperties
<1>1. m \in Nat /\ n \in Nat /\ m <= n /\ n <= l
  BY <1>l
<1>2. \A i \in (m + 1)..n : i \in 1..l /\ s[i] \in S
  <2>1. \A i \in (m + 1)..n : i \in 1..l
    BY <1>1
  <2> QED
    BY <2>1, <1>l, ElementOfSeq
<1>3. \A i \in 1..(n - m) : (m + 1) + i - 1 = m + i
  BY <1>1
<1>4. IF m + 1 <= n THEN n - (m + 1) + 1 = n - m ELSE n - m = 0
  BY <1>1
<1> QED
  BY <1>1, <1>2, <1>3, <1>4, SubSeqProperties

\* Two stretches of a sequence that meet.
LEMMA SubSeqsMeet ==
  ASSUME NEW S, NEW s \in Seq(S), NEW k \in 0..Len(s), NEW m \in k..Len(s), NEW n \in m..Len(s)
  PROVE  SubSeq(s, k + 1, m) \o SubSeq(s, m + 1, n) = SubSeq(s, k + 1, n)
<1>l. PICK l \in Nat : l = Len(s)
  BY LenProperties
<1>1. k \in 0..l /\ m \in k..l /\ n \in m..l /\ k \in Nat /\ m \in Nat /\ n \in Nat /\ k <= m /\ m <= n
      /\ m \in 0..l /\ n \in k..l
  BY <1>l
<1>a. PICK a : a = SubSeq(s, k + 1, m)
  OBVIOUS
<1>b. PICK b : b = SubSeq(s, m + 1, n)
  OBVIOUS
<1>c. PICK c : c = SubSeq(s, k + 1, n)
  OBVIOUS
<1>2. a \in Seq(S) /\ Len(a) = m - k /\ \A i \in 1..(m - k) : a[i] = s[k + i]
  BY <1>1, <1>a, <1>l, SubSeqIs
<1>3. b \in Seq(S) /\ Len(b) = n - m /\ \A i \in 1..(n - m) : b[i] = s[m + i]
  BY <1>1, <1>b, <1>l, SubSeqIs
<1>4. c \in Seq(S) /\ Len(c) = n - k /\ \A i \in 1..(n - k) : c[i] = s[k + i]
  BY <1>1, <1>c, <1>l, SubSeqIs
<1>d. PICK d : d = a \o b
  OBVIOUS
<1>5. /\ d \in Seq(S) /\ Len(d) = n - k
      /\ \A i \in 1..(n - k) : d[i] = IF i <= m - k THEN a[i] ELSE b[i - (m - k)]
  <2>1. /\ a \o b \in Seq(S) /\ Len(a \o b) = Len(a) + Len(b)
        /\ \A i \in 1..(Len(a) + Len(b)) : (a \o b)[i] = IF i <= Len(a) THEN a[i] ELSE b[i - Len(a)]
    BY <1>2, <1>3, ConcatProperties
  <2>2. Len(a) + Len(b) = n - k
    BY <1>1, <1>2, <1>3
  <2> QED
    BY <1>2, <1>d, <2>1, <2>2
<1>6. ASSUME NEW i \in 1..(n - k) PROVE d[i] = c[i]
  <2>1. CASE i <= m - k
    <3>1. i \in 1..(m - k)
      BY <1>1, <2>1
    <3> QED
      BY <1>2, <1>4, <1>5, <2>1, <3>1
  <2>2. CASE i > m - k
    <3>1. i - (m - k) \in 1..(n - m) /\ ~(i <= m - k) /\ m + (i - (m - k)) = k + i
      BY <1>1, <2>2
    <3> QED
      BY <1>3, <1>4, <1>5, <3>1
  <2>3. i <= m - k \/ i > m - k
    BY <1>1
  <2> QED
    BY <2>1, <2>2, <2>3
<1>7. d = c
  BY <1>4, <1>5, <1>6, SeqEqual
<1> QED
  BY <1>a, <1>b, <1>c, <1>d, <1>7

\* Stretches that follow each other from the start to the end make the whole.
LEMMA StretchesJoin ==
  ASSUME NEW w \in Words, NEW ss \in Seq(Words), NEW e \in [0..Len(ss) -> 0..Len(w)],
         e[0] = 0, e[Len(ss)] = Len(w),
         \A i \in 1..Len(ss) : e[i - 1] <= e[i] /\ ss[i] = SubSeq(w, e[i - 1] + 1, e[i])
  PROVE  Joined(ss) = w
<1>n. PICK n \in Nat : n = Len(ss)
  BY LenProperties
<1>l. PICK l \in Nat : l = Len(w)
  BY LenProperties DEF Words
<1>w. w \in Seq(Nat)
  BY DEF Words
<1>1. PICK f : f = [i \in 0..n |-> SubSeq(w, 1, e[i])]
  OBVIOUS
<1>2. f[0] = <<>> /\ f[n] = w
  <2>1. SubSeq(w, 1, 0) = <<>>
    <3>1. SubSeq(w, 0 + 1, 0) \in Seq(Nat) /\ Len(SubSeq(w, 0 + 1, 0)) = 0 - 0
      <4>1. 0 \in 0..Len(w) /\ 0 \in 0..Len(w)
        BY <1>l
      <4> QED
        BY <1>w, <4>1, SubSeqIs
    <3>2. 0 + 1 = 1 /\ 0 - 0 = 0
      OBVIOUS
    <3> QED
      BY <3>1, <3>2, EmptySeq
  <2>2. SubSeq(w, 1, Len(w)) = w
    <3>1. PICK v : v = SubSeq(w, 1, l)
      OBVIOUS
    <3>2. v \in Seq(Nat) /\ Len(v) = l /\ \A i \in 1..l : v[i] = w[i]
      BY <1>l, <1>w, <3>1, SeqSplits
    <3> QED
      BY <1>l, <1>w, <3>1, <3>2, SeqEqual
  <2>3. 0 \in 0..n /\ n \in 0..n
    OBVIOUS
  <2> QED
    BY <1>1, <1>n, <2>1, <2>2, <2>3
<1>3. ASSUME NEW i \in 1..n PROVE f[i] = f[i - 1] \o ss[i]
  <2>1. i - 1 \in 0..n /\ i \in 0..n /\ i \in 1..Len(ss)
    BY <1>n
  <2>2. PICK a : a = e[i - 1]
    OBVIOUS
  <2>3. PICK b : b = e[i]
    OBVIOUS
  <2>4. a \in 0..l /\ b \in a..l /\ ss[i] = SubSeq(w, a + 1, b)
    <3>1. a \in 0..l /\ b \in 0..l
      BY <1>l, <1>n, <2>1, <2>2, <2>3
    <3>2. a <= b /\ ss[i] = SubSeq(w, a + 1, b)
      BY <2>1, <2>2, <2>3
    <3> QED
      BY <3>1, <3>2
  <2>5. SubSeq(w, 0 + 1, a) \o SubSeq(w, a + 1, b) = SubSeq(w, 0 + 1, b)
    <3>1. 0 \in 0..Len(w) /\ a \in 0..Len(w) /\ b \in a..Len(w)
      BY <1>l, <2>4
    <3> QED
      BY <1>w, <3>1, SubSeqsMeet
  <2>6. 0 + 1 = 1
    OBVIOUS
  <2> QED
    BY <1>1, <2>1, <2>2, <2>3, <2>4, <2>5, <2>6
<1>4. Sums(ss, f)
  <2>1. ASSUME NEW i \in 0..n PROVE f[i] = IF i = 0 THEN <<>> ELSE f[i - 1] \o ss[i]
    <3>1. CASE i = 0
      BY <1>2, <3>1
    <3>2. CASE i # 0
      <4>1. i \in 1..n
        BY <3>2
      <4> QED
        BY <1>3, <3>2, <4>1
    <3> QED
      BY <3>1, <3>2
  <2> QED
    BY <1>1, <1>n, <2>1 DEF Sums
<1> QED
  BY <1>2, <1>4, <1>n, JoinedBy

LEMMA Multiples ==
  ASSUME NEW s \in Nat
  PROVE  \E p \in [Nat -> Nat] :
           /\ \A i \in Nat : p[i] = i * s /\ p[i + 1] = p[i] + s
           /\ \A i, j \in Nat : i <= j => p[i] <= p[j]
           /\ p[0] = 0 /\ (s > 0 => \A i \in Nat : i <= p[i])
<1>1. PICK p : p = [i \in Nat |-> i * s]
  OBVIOUS
<1>2. p \in [Nat -> Nat] /\ p[0] = 0
  BY <1>1
<1>3. ASSUME NEW i \in Nat PROVE p[i] = i * s /\ p[i + 1] = p[i] + s
  BY <1>1
<1>4. ASSUME NEW i \in Nat, NEW j \in Nat, i <= j PROVE p[i] <= p[j]
  <2>1. PICK d \in Nat : d = j - i
    BY <1>4
  <2>2. j * s = i * s + d * s
    BY <2>1
  <2>3. PICK c \in Nat : c = d * s
    OBVIOUS
  <2>4. p[j] = p[i] + c
    BY <1>3, <2>2, <2>3
  <2>5. p[i] \in Nat /\ p[j] \in Nat
    BY <1>2
  <2> QED
    BY <2>4, <2>5
<1>5. ASSUME s > 0, NEW i \in Nat PROVE i <= p[i]
  <2>1. PICK d \in Nat : s = d + 1
    BY <1>5
  <2>2. i * s = i * d + i
    BY <2>1
  <2>3. PICK c \in Nat : c = i * d
    OBVIOUS
  <2>4. p[i] = c + i
    BY Zenon, <1>3, <2>2, <2>3
  <2> QED
    BY <2>4
<1> QED
  BY <1>2, <1>3, <1>4, <1>5

LEMMA PartsOf ==
  ASSUME NEW S, NEW a \in Seq(S), NEW b \in Seq(S)
  PROVE  /\ a \o b \in Seq(S) /\ Len(a \o b) = Len(a) + Len(b)
         /\ SubSeq(a \o b, 1, Len(a)) = a /\ SubSeq(a \o b, Len(a) + 1, Len(a \o b)) = b
<1>a. PICK x \in Nat : x = Len(a)
  BY LenProperties
<1>b. PICK y \in Nat : y = Len(b)
  BY LenProperties
<1>c. PICK c : c = a \o b
  OBVIOUS
<1>1. /\ c \in Seq(S) /\ Len(c) = x + y
      /\ \A i \in 1..(x + y) : c[i] = IF i <= x THEN a[i] ELSE b[i - x]
  <2>1. /\ a \o b \in Seq(S) /\ Len(a \o b) = Len(a) + Len(b)
        /\ \A i \in 1..(Len(a) + Len(b)) : (a \o b)[i] = IF i <= Len(a) THEN a[i] ELSE b[i - Len(a)]
    BY ConcatProperties
  <2> QED
    BY <1>a, <1>b, <1>c, <2>1
<1>2. PICK d : d = SubSeq(c, 1, x)
  OBVIOUS
<1>3. PICK f : f = SubSeq(c, x + 1, Len(c))
  OBVIOUS
<1>4. /\ d \in Seq(S) /\ Len(d) = x /\ \A i \in 1..x : d[i] = c[i]
      /\ f \in Seq(S) /\ Len(f) = y /\ \A i \in 1..y : f[i] = c[x + i]
  <2>1. x \in 0..Len(c) /\ Len(c) - x = y
    BY <1>1
  <2>2. /\ SubSeq(c, 1, x) \in Seq(S) /\ Len(SubSeq(c, 1, x)) = x
        /\ \A i \in 1..x : SubSeq(c, 1, x)[i] = c[i]
        /\ SubSeq(c, x + 1, Len(c)) \in Seq(S) /\ Len(SubSeq(c, x + 1, Len(c))) = Len(c) - x
        /\ \A i \in 1..(Len(c) - x) : SubSeq(c, x + 1, Len(c))[i] = c[x + i]
    BY <1>1, <2>1, SeqSplits
  <2> QED
    BY <1>2, <1>3, <2>1, <2>2
<1>5. d = a
  <2>1. ASSUME NEW i \in 1..x PROVE d[i] = a[i]
    <3>1. i \in 1..(x + y) /\ i <= x
      OBVIOUS
    <3> QED
      BY <1>1, <1>4, <3>1
  <2> QED
    BY <1>4, <1>a, <2>1, SeqEqual
<1>6. f = b
  <2>1. ASSUME NEW i \in 1..y PROVE f[i] = b[i]
    <3>1. x + i \in 1..(x + y) /\ ~(x + i <= x) /\ (x + i) - x = i
      OBVIOUS
    <3> QED
      BY <1>1, <1>4, <3>1
  <2> QED
    BY <1>4, <1>b, <2>1, SeqEqual
<1> QED
  BY Zenon, <1>1, <1>2, <1>3, <1>5, <1>6, <1>a, <1>b, <1>c

Chunks == [path : Seq(Marks), text : Words, new : Words]
NewOf  == [c \in Chunks |-> c.new]

\* A chunk of the words, none longer than it may be and repeating no more than it may.
PieceOf(c, words, overlap) ==
  /\ c \in Chunks /\ c.text # <<>> /\ Len(c.text) <= MAX_WORDS
  /\ \E x \in Words : Len(x) <= overlap /\ c.text = x \o c.new
  /\ \E a, b \in Words : words = a \o (c.text \o b)

\* How many windows it takes.
CountOf(words, step) ==
  CHOOSE n \in 0..Len(words) :
    /\ n = 0 <=> words = <<>>
    /\ n > 0 => (n - 1) * step + MAX_WORDS >= Len(words)
    /\ n > 1 => (n - 2) * step + MAX_WORDS < Len(words)

CountOK(n, l, p) ==
  /\ n \in 0..l /\ (n = 0 <=> l = 0)
  /\ n > 0 => p[n - 1] + MAX_WORDS >= l
  /\ n > 1 => p[n - 2] + MAX_WORDS < l

\* The number of windows: enough to reach the end, and no more.
LEMMA CountIs ==
  ASSUME NEW words \in Words, NEW step \in 1..MAX_WORDS, NEW p \in [Nat -> Nat],
         \A i \in Nat : p[i] = i * step, \A i \in Nat : i <= p[i]
  PROVE  CountOK(CountOf(words, step), Len(words), p)
<1>l. PICK l \in Nat : l = Len(words)
  BY LenProperties DEF Words
<1>c. PICK count : count = CountOf(words, step)
  OBVIOUS
<1>m. MAX_WORDS \in Nat /\ MAX_WORDS > 0
  BY ChunkingAssumption
<1> DEFINE Fit(n) == /\ n = 0 <=> words = <<>>
                     /\ n > 0 => (n - 1) * step + MAX_WORDS >= l
                     /\ n > 1 => (n - 2) * step + MAX_WORDS < l
<1>e. words = <<>> <=> l = 0
  BY <1>l, EmptySeq DEF Words
<1>1. ASSUME NEW n \in 0..l
      PROVE  Fit(n) <=> /\ n = 0 <=> l = 0
                        /\ n > 0 => p[n - 1] + MAX_WORDS >= l
                        /\ n > 1 => p[n - 2] + MAX_WORDS < l
  <2>1. n > 0 => n - 1 \in Nat /\ p[n - 1] = (n - 1) * step
    BY <1>1
  <2>2. n > 1 => n - 2 \in Nat /\ p[n - 2] = (n - 2) * step
    BY <1>1
  <2> QED
    BY <1>e, <2>1, <2>2
<1>2. \E n \in 0..l : Fit(n)
  <2>1. CASE l = 0
    <3>1. 0 \in 0..l /\ Fit(0)
      BY <1>e, <2>1
    <3> QED
      BY <3>1
  <2>2. CASE l # 0
    <3>1. PICK T : T = {n \in Nat : n >= 1 /\ p[n - 1] + MAX_WORDS >= l}
      OBVIOUS
    <3>2. l \in T
      <4>1. l - 1 \in Nat /\ l >= 1
        BY <2>2
      <4>2. l - 1 <= p[l - 1] /\ p[l - 1] \in Nat
        BY <4>1
      <4>3. p[l - 1] + MAX_WORDS >= l
        BY <1>m, <4>1, <4>2
      <4> QED
        BY <3>1, <4>1, <4>3
    <3>3. PICK n \in T : \A k \in T : n <= k
      <4>1. T \subseteq Nat /\ T # {}
        BY <3>1, <3>2
      <4> QED
        BY <4>1, LeastNat
    <3>4. n \in Nat /\ n >= 1 /\ p[n - 1] + MAX_WORDS >= l /\ n <= l /\ n \in 0..l
      BY <3>1, <3>2, <3>3
    <3>5. ASSUME n > 1 PROVE p[n - 2] + MAX_WORDS < l
      <4>1. n - 1 \in Nat /\ n - 1 >= 1 /\ (n - 1) - 1 = n - 2 /\ n - 2 \in Nat
        BY <3>4, <3>5
      <4>2. n - 1 \notin T
        BY <3>3, <3>4
      <4>3. ~(p[n - 2] + MAX_WORDS >= l)
        BY <3>1, <4>1, <4>2
      <4>4. p[n - 2] \in Nat
        BY <4>1
      <4> QED
        BY <1>m, <4>3, <4>4
    <3>6. Fit(n)
      <4> HIDE DEF Fit
      <4> QED
        BY <1>1, <2>2, <3>4, <3>5
    <3> QED
      BY <3>4, <3>6
  <2> QED
    BY <2>1, <2>2
<1>3. count \in 0..l /\ Fit(count)
  <2>1. count = CHOOSE n \in 0..l : Fit(n)
    BY <1>c, <1>l DEF CountOf
  <2> HIDE DEF Fit
  <2> QED
    BY <1>2, <2>1, Zenon
<1> QED
  <2> HIDE DEF Fit
  <2>1. CountOK(count, l, p)
    BY <1>1, <1>3 DEF CountOK
  <2> QED
    BY <2>1, <1>c, <1>l

LEMMA NewsAre ==
  ASSUME NEW cs \in Seq(Chunks)
  PROVE  /\ Img(cs, NewOf) \in Seq(Words) /\ Len(Img(cs, NewOf)) = Len(cs)
         /\ \A i \in 1..Len(cs) : Img(cs, NewOf)[i] = NewOf[cs[i]]
<1>n. PICK n \in Nat : n = Len(cs) /\ DOMAIN cs = 1..n /\ \A i \in 1..n : cs[i] \in Chunks
  BY LenProperties, ElementOfSeq
<1>1. \A c \in Chunks : NewOf[c] \in Words
  BY DEF NewOf, Chunks
<1>2. Img(cs, NewOf) = [i \in 1..n |-> NewOf[cs[i]]]
  BY <1>n DEF Img
<1>3. \A i \in 1..n : NewOf[cs[i]] \in Words
  BY <1>1, <1>n
<1> QED
  BY <1>2, <1>3, <1>n

CutsOK(cs, words, pa, overlap) ==
  /\ cs \in Seq(Chunks) /\ Cat(cs, NewOf) = words
  /\ \A i \in 1..Len(cs) : PieceOf(cs[i], words, overlap) /\ cs[i].path = pa

\* The windows cover the words, repeat no more than the overlap, and none is too long.
LEMMA CutsAre ==
  ASSUME NEW words \in Words, NEW pa \in Seq(Marks), NEW overlap \in 0..(MAX_WORDS - 1)
  PROVE  CutsOK(Cuts(words, pa, overlap), words, pa, overlap)
<1>z. PICK cs : cs = Cuts(words, pa, overlap)
  OBVIOUS
<1>m. MAX_WORDS \in Nat /\ MAX_WORDS > 0 /\ overlap \in Nat
  BY ChunkingAssumption
<1>l. PICK l \in Nat : l = Len(words)
  BY LenProperties DEF Words
<1>s. PICK step \in 1..MAX_WORDS : step = MAX_WORDS - overlap
  BY <1>m
<1>p. PICK p \in [Nat -> Nat] :
           /\ \A i \in Nat : p[i] = i * step /\ p[i + 1] = p[i] + step
           /\ \A i, j \in Nat : i <= j => p[i] <= p[j]
           /\ p[0] = 0 /\ (step > 0 => \A i \in Nat : i <= p[i])
  <2>1. step \in Nat
    BY <1>m
  <2> QED
    BY <2>1, Multiples
<1>c. PICK count : count = CountOf(words, step)
  OBVIOUS
<1>1. /\ count \in 0..l /\ (count = 0 <=> l = 0)
      /\ count > 0 => p[count - 1] + MAX_WORDS >= l
      /\ count > 1 => p[count - 2] + MAX_WORDS < l
  <2>1. \A i \in Nat : p[i] = i * step
    BY <1>p
  <2>2. \A i \in Nat : i <= p[i]
    BY <1>p
  <2>3. CountOK(CountOf(words, step), Len(words), p)
    BY <2>1, <2>2, CountIs
  <2> QED
    BY <1>c, <1>l, <2>3 DEF CountOK
<1>2. PICK e : e = [i \in 0..count |-> IF i = 0 THEN 0 ELSE Smaller(p[i - 1] + MAX_WORDS, l)]
  OBVIOUS
<1>t. count \in Nat /\ l \in Nat /\ count \in 0..l /\ (count = 0 <=> l = 0)
  BY <1>1
<1>u. MAX_WORDS \in Nat /\ overlap \in Nat /\ step \in Nat /\ step <= MAX_WORDS
      /\ step = MAX_WORDS - overlap /\ MAX_WORDS > 0 /\ step > 0
  BY <1>m, <1>s
<1> DEFINE Ends(a, q) == /\ a \in 0..l /\ a > q /\ a <= q + MAX_WORDS
                         /\ a = IF q + MAX_WORDS < l THEN q + MAX_WORDS ELSE l
<1>v. ASSUME NEW q \in Nat, q < l, NEW a, a = Smaller(q + MAX_WORDS, l)
      PROVE  Ends(a, q)
  <2>1. a = IF q + MAX_WORDS < l THEN q + MAX_WORDS ELSE l
    BY <1>v DEF Smaller
  <2>2. CASE q + MAX_WORDS < l
    BY <1>t, <1>u, <2>1, <2>2
  <2>3. CASE ~(q + MAX_WORDS < l)
    BY <1>t, <1>u, <1>v, <2>1, <2>3
  <2> QED
    BY <2>2, <2>3
<1>3. ASSUME NEW i \in 1..count
      PROVE  /\ i - 1 \in Nat /\ p[i - 1] \in Nat /\ p[i - 1] < l
             /\ e[i] = Smaller(p[i - 1] + MAX_WORDS, l)
             /\ Ends(e[i], p[i - 1])
             /\ e[i - 1] \in 0..l /\ e[i - 1] <= e[i]
             /\ IF i = 1 THEN e[i - 1] = p[i - 1] ELSE e[i - 1] = p[i - 1] + overlap
  <2>1. i - 1 \in Nat /\ i \in 0..count /\ i - 1 \in 0..count /\ count > 0 /\ l > 0
    BY <1>t
  <2>q. PICK q \in Nat : q = p[i - 1]
    BY <2>1
  <2>2. e[i] = Smaller(q + MAX_WORDS, l)
    BY <1>2, <2>1, <2>q
  <2>a. PICK a : a = e[i]
    OBVIOUS
  <2>b. PICK b : b = e[i - 1]
    OBVIOUS
  <2>3. ASSUME i = 1 PROVE q < l /\ b = q /\ b \in 0..l
    <3>1. i - 1 = 0 /\ e[0] = 0 /\ p[0] = 0
      BY <1>2, <1>p, <2>1, <2>3
    <3>2. q = 0 /\ b = 0
      BY <3>1, <2>b, <2>q
    <3> QED
      BY <1>t, <2>1, <3>2
  <2>4. ASSUME i # 1 PROVE q < l /\ b = q + overlap /\ b \in 0..l
    <3>1. i - 2 \in Nat /\ count > 1 /\ count - 2 \in Nat /\ i - 2 <= count - 2
          /\ (i - 2) + 1 = i - 1 /\ (i - 1) - 1 = i - 2 /\ i - 1 # 0
      BY <1>t, <2>1, <2>4
    <3>x. PICK x \in Nat : x = p[i - 2]
      BY <3>1
    <3>y. PICK y \in Nat : y = p[count - 2]
      BY <3>1
    <3>2. x <= y
      BY <1>p, <3>1, <3>x, <3>y
    <3>3. q = x + step
      BY <1>p, <2>q, <3>1, <3>x
    <3>4. y + MAX_WORDS < l
      BY <1>1, <3>1, <3>y
    <3>5. x + MAX_WORDS < l
      BY <1>t, <1>u, <3>2, <3>4
    <3>6. b = Smaller(x + MAX_WORDS, l)
      BY <1>2, <2>1, <2>b, <3>1, <3>x
    <3>7. b = x + MAX_WORDS
      BY <3>5, <3>6 DEF Smaller
    <3> QED
      BY <1>t, <1>u, <3>3, <3>5, <3>7
  <2>5. q < l /\ b \in 0..l
    BY <2>3, <2>4
  <2>6. Ends(a, q)
    <3> HIDE DEF Ends
    <3> QED
      BY <1>v, <2>2, <2>5, <2>a
  <2>7. b <= a
    <3>1. b = q \/ b = q + overlap
      BY <2>3, <2>4
    <3>2. CASE q + MAX_WORDS < l
      BY <1>t, <1>u, <2>5, <2>6, <3>1, <3>2
    <3>3. CASE ~(q + MAX_WORDS < l)
      BY <1>t, <1>u, <2>5, <2>6, <3>3
    <3> QED
      BY <3>2, <3>3
  <2> HIDE DEF Ends
  <2> QED
    BY <2>1, <2>2, <2>3, <2>4, <2>5, <2>6, <2>7, <2>a, <2>b, <2>q
<1>4. e[0] = 0 /\ e[count] = l /\ e \in [0..count -> 0..l]
  <2>1. 0 \in 0..count /\ e[0] = 0
    BY <1>t, <1>2
  <2>2. e[count] = l
    <3>1. CASE count = 0
      BY <1>t, <2>1, <3>1
    <3>2. CASE count # 0
      <4>1. count \in 1..count /\ count > 0 /\ count - 1 \in Nat
        BY <1>t, <3>2
      <4>q. PICK q \in Nat : q = p[count - 1]
        BY <4>1
      <4>2. q + MAX_WORDS >= l /\ e[count] = Smaller(q + MAX_WORDS, l)
        BY <1>1, <1>3, <4>1, <4>q
      <4> QED
        BY <1>t, <1>u, <4>2 DEF Smaller
    <3> QED
      BY <3>1, <3>2
  <2>3. ASSUME NEW i \in 0..count PROVE e[i] \in 0..l
    <3>1. i = 0 \/ i \in 1..count
      BY <1>t
    <3>2. CASE i = 0
      <4>1. e[i] = e[0]
        BY <3>2, Zenon
      <4>2. e[i] = 0
        BY <2>1, <4>1, Zenon
      <4>3. 0 \in 0..l
        BY <1>t
      <4> QED
        BY <4>2, <4>3, Zenon
    <3>3. CASE i \in 1..count
      <4>a. PICK a : a = e[i]
        OBVIOUS
      <4>q. PICK q : q = p[i - 1]
        OBVIOUS
      <4>1. Ends(a, q)
        <5> HIDE DEF Ends
        <5> QED
          BY <1>3, <3>3, <4>a, <4>q
      <4>2. a \in 0..l
        BY <4>1
      <4> QED
        BY <4>2, <4>a
    <3> QED
      BY <3>1, <3>2, <3>3
  <2> QED
    BY <1>2, <2>1, <2>2, <2>3
<1> DEFINE Txt(i) == SubSeq(words, p[i - 1] + 1, e[i])
           New(i) == IF i = 1 THEN Txt(i) ELSE SubSeq(Txt(i), overlap + 1, Len(Txt(i)))
<1>5. cs = [i \in 1..count |-> [path |-> pa, text |-> Txt(i), new |-> New(i)]]
  <2>1. \A i \in 1..count : /\ (i - 1) * step = p[i - 1]
                            /\ e[i] = Smaller(p[i - 1] + MAX_WORDS, l)
    BY <1>3, <1>p
  <2>2. cs = [i \in 1..count |->
        LET start == (i - 1) * step
            text  == SubSeq(words, start + 1, Smaller(start + MAX_WORDS, Len(words)))
        IN [path |-> pa, text |-> text,
            new |-> IF i = 1 THEN text ELSE SubSeq(text, overlap + 1, Len(text))]]
    BY <1>c, <1>s, <1>z DEF Cuts, CountOf
  <2> QED
    BY <2>1, <2>2, <1>l
<1>w. words \in Seq(Nat)
  BY DEF Words
<1>6. ASSUME NEW i \in 1..count
      PROVE  /\ Txt(i) \in Words /\ Txt(i) # <<>> /\ Len(Txt(i)) <= MAX_WORDS
             /\ \E a, b \in Words : words = a \o (Txt(i) \o b)
             /\ New(i) = SubSeq(words, e[i - 1] + 1, e[i]) /\ New(i) \in Words
             /\ \E x \in Words : Len(x) <= overlap /\ Txt(i) = x \o New(i)
  <2>1. PICK q \in Nat : q = p[i - 1]
    BY <1>3
  <2>2. PICK t : t = SubSeq(words, q + 1, e[i])
    OBVIOUS
  <2>f. PICK f : f = e[i]
    OBVIOUS
  <2>3. q < l /\ f \in 0..l /\ f > q /\ f <= q + MAX_WORDS /\ f \in Nat
    <3>1. q < l /\ Ends(f, q)
      <4> HIDE DEF Ends
      <4> QED
        BY <1>3, <2>1, <2>f
    <3> QED
      BY <1>t, <3>1
  <2>4. q \in 0..Len(words) /\ f \in q..Len(words)
    <3>1. q \in 0..l /\ f \in q..l
      BY <1>t, <2>3
    <3> QED
      BY <1>l, <3>1
  <2>5. t \in Seq(Nat) /\ Len(t) = f - q
    <3>1. SubSeq(words, q + 1, f) \in Seq(Nat) /\ Len(SubSeq(words, q + 1, f)) = f - q
      BY <1>w, <2>4, SubSeqIs
    <3> QED
      BY <2>2, <2>f, <3>1
  <2>6. t # <<>> /\ Len(t) <= MAX_WORDS
    <3>1. Len(t) > 0 /\ Len(t) <= MAX_WORDS
      BY <1>u, <2>3, <2>5
    <3> QED
      BY <3>1
  <2>7. \E a, b \in Words : words = a \o (t \o b)
    <3>1. PICK k \in Nat : k = f
      BY <2>3
    <3>a. PICK a : a = SubSeq(words, 1, q)
      OBVIOUS
    <3>b. PICK b : b = SubSeq(words, k + 1, Len(words))
      OBVIOUS
    <3>2. a \in Words /\ b \in Words
      <4>1. q \in 0..Len(words) /\ k \in 0..Len(words)
        BY <1>l, <2>3, <3>1
      <4> QED
        BY <1>w, <3>a, <3>b, <4>1, SeqSplits DEF Words
    <3>3. a \o SubSeq(words, q + 1, Len(words)) = words
      BY <1>w, <2>4, <3>a, SeqSplits
    <3>4. t \o b = SubSeq(words, q + 1, Len(words))
      <4>1. k \in q..Len(words) /\ Len(words) \in k..Len(words)
        BY <1>l, <2>4, <3>1
      <4> QED
        BY <1>w, <2>2, <2>4, <2>f, <3>1, <3>b, <4>1, SubSeqsMeet
    <3> QED
      BY <3>2, <3>3, <3>4
  <2>8. CASE i = 1
    <3>1. e[i - 1] = q
      <4> HIDE DEF Ends
      <4> QED
        BY <1>3, <2>1, <2>8
    <3>2. <<>> \in Words /\ Len(<<>>) <= overlap /\ <<>> \o t = t
      BY <1>m, <2>5, EmptySeq, ConcatEmptySeq DEF Words
    <3>3. Txt(i) = t /\ New(i) = t
      BY <2>1, <2>2, <2>8
    <3> QED
      BY <2>2, <2>5, <2>6, <2>7, <3>1, <3>2, <3>3 DEF Words
  <2>9. CASE i # 1
    <3>1. PICK k : k = e[i - 1]
      OBVIOUS
    <3>2. k = q + overlap /\ k <= f /\ k \in 0..l
      <4> HIDE DEF Ends
      <4> QED
        BY <1>3, <2>1, <2>9, <2>f, <3>1
    <3>3. PICK x : x = SubSeq(words, q + 1, k)
      OBVIOUS
    <3>4. PICK y : y = SubSeq(words, k + 1, f)
      OBVIOUS
    <3>5. k \in q..Len(words) /\ f \in k..Len(words) /\ k \in 0..Len(words)
      <4>1. k \in q..l /\ f \in k..l /\ k \in 0..l
        BY <1>t, <1>u, <2>3, <3>2
      <4> QED
        BY <1>l, <4>1
    <3>6. x \in Seq(Nat) /\ Len(x) = k - q
      BY <1>w, <2>4, <3>3, <3>5, SubSeqIs
    <3>7. y \in Seq(Nat)
      BY <1>w, <3>4, <3>5, SubSeqIs
    <3>8. t = x \o y
      BY <1>w, <2>2, <2>4, <2>f, <3>3, <3>4, <3>5, SubSeqsMeet
    <3>9. Len(x) = overlap
      BY <1>m, <3>2, <3>6
    <3>10. SubSeq(t, overlap + 1, Len(t)) = y
      <4>1. /\ x \o y \in Seq(Nat) /\ SubSeq(x \o y, Len(x) + 1, Len(x \o y)) = y
        <5>1. x \in Seq(Nat) /\ y \in Seq(Nat)
          BY <3>6, <3>7
        <5> QED
          BY <5>1, PartsOf
      <4> QED
        BY <3>8, <3>9, <4>1
    <3>11. Txt(i) = t
      BY <2>1, <2>2
    <3>12. New(i) = y
      BY <2>9, <3>10, <3>11
    <3>13. Len(x) <= overlap
      BY <1>m, <3>9
    <3> HIDE DEF Txt, New
    <3> QED
      BY Zenon, <2>5, <2>6, <2>7, <2>f, <3>1, <3>4, <3>6, <3>7, <3>8, <3>11, <3>12, <3>13 DEF Words
  <2> QED
    BY <2>8, <2>9
<1> HIDE DEF Txt, New, Ends
<1>7. ASSUME NEW i \in 1..count
      PROVE  /\ cs[i] \in Chunks /\ PieceOf(cs[i], words, overlap) /\ cs[i].path = pa
             /\ cs[i].new = SubSeq(words, e[i - 1] + 1, e[i])
  <2>1. cs[i] = [path |-> pa, text |-> Txt(i), new |-> New(i)]
    BY <1>5
  <2>2. cs[i] \in Chunks /\ cs[i].text = Txt(i) /\ cs[i].new = New(i) /\ cs[i].path = pa
    BY <1>6, <2>1 DEF Chunks
  <2> QED
    BY <1>6, <2>2 DEF PieceOf
<1>8. cs \in Seq(Chunks) /\ Len(cs) = count
  BY <1>1, <1>5, <1>7
<1>9. Cat(cs, NewOf) = words
  <2>1. PICK ns : ns = Img(cs, NewOf)
    OBVIOUS
  <2>2. \A c \in Chunks : NewOf[c] = c.new /\ c.new \in Words
    BY DEF NewOf, Chunks
  <2>3. ns \in Seq(Words) /\ Len(ns) = count /\ \A i \in 1..count : ns[i] = NewOf[cs[i]]
    <3>1. \A c \in Chunks : NewOf[c] \in Words
      BY <2>2
    <3>2. /\ Img(cs, NewOf) \in Seq(Words) /\ Len(Img(cs, NewOf)) = Len(cs)
          /\ \A i \in 1..Len(cs) : Img(cs, NewOf)[i] = NewOf[cs[i]]
      <4>1. cs \in Seq(Chunks)
        BY <1>8
      <4> QED
        BY <4>1, NewsAre
    <3> QED
      BY <1>8, <2>1, <3>2
  <2>4. ASSUME NEW i \in 1..count PROVE e[i - 1] <= e[i] /\ ns[i] = SubSeq(words, e[i - 1] + 1, e[i])
    BY <1>3, <1>7, <2>2, <2>3
  <2>5. Joined(ns) = words
    BY <1>4, <1>l, <2>3, <2>4, StretchesJoin
  <2> QED
    BY <2>1, <2>5 DEF Cat
<1> QED
  BY <1>7, <1>8, <1>9, <1>z DEF CutsOK

(***************************************************************************)
(* Packing                                                                 *)
(***************************************************************************)

\* What of a unit there is to chunk.
KeptBy(st) == [u \in Units |-> IF st = "structured" /\ u.heading THEN <<>> ELSE u.text]

LEMMA KeptIsWords ==
  ASSUME NEW st
  PROVE  /\ KeptBy(st) \in [Units -> Words]
         /\ \A u \in Units : KeptBy(st)[u] = IF st = "structured" /\ u.heading THEN <<>> ELSE u.text
<1>1. <<>> \in Words /\ \A u \in Units : u.text \in Words
  BY EmptySeq DEF Units, Filled, Words
<1> QED
  BY <1>1 DEF KeptBy

LEMMA KeptIs ==
  ASSUME NEW st, NEW us \in Seq(Units)
  PROVE  /\ Cat(us, KeptBy(st)) \in Words
         /\ \A u \in Units : Cat(Append(us, u), KeptBy(st)) = Cat(us, KeptBy(st)) \o KeptBy(st)[u]
         /\ \A vs \in Seq(Units) :
              Cat(us \o vs, KeptBy(st)) = Cat(us, KeptBy(st)) \o Cat(vs, KeptBy(st))
<1>1. PICK g \in [Units -> Words] : g = KeptBy(st)
  BY KeptIsWords
<1>2. /\ Cat(us, g) \in Words
      /\ \A vs \in Seq(Units) : Cat(us \o vs, g) = Cat(us, g) \o Cat(vs, g)
      /\ \A e \in Units : Cat(<<e>>, g) = g[e] /\ Cat(Append(us, e), g) = Cat(us, g) \o g[e]
  BY CatIs
<1> QED
  BY <1>1, <1>2

\* Body, as a sequence through a function.
LEMMA BodyIs ==
  ASSUME split.units \in Seq(Units)
  PROVE  Body = Cat(split.units, KeptBy(strategy))
<1>1. \A i \in DOMAIN split.units : split.units[i] \in Units
  BY LenProperties, ElementOfSeq
<1>2. \A i \in DOMAIN split.units : Kept(split.units[i]) = KeptBy(strategy)[split.units[i]]
  BY <1>1 DEF Kept, KeptBy
<1>3. [i \in DOMAIN split.units |-> Kept(split.units[i])] = Img(split.units, KeptBy(strategy))
  BY <1>2 DEF Img
<1> QED
  BY <1>3 DEF Body, Cat

\* Without headings that are left out it is the text.
LEMMA KeptIsText ==
  ASSUME NEW st, NEW us \in Seq(Units),
         st = "structured" => \A i \in 1..Len(us) : ~us[i].heading
  PROVE  Cat(us, KeptBy(st)) = Text(us)
<1>1. \A i \in DOMAIN us : us[i] \in Units /\ i \in 1..Len(us)
  BY LenProperties, ElementOfSeq
<1>2. \A i \in DOMAIN us : KeptBy(st)[us[i]] = TextOf[us[i]]
  BY <1>1, KeptIsWords, TextsAreWords
<1>3. Img(us, KeptBy(st)) = Img(us, TextOf)
  BY <1>2 DEF Img
<1> QED
  BY <1>3, TextIsCat DEF Cat

WordIn(us, x) == \E k \in 1..Len(us) : \E i \in 1..Len(us[k].text) : x = us[k].text[i]

\* Every word of the text is in a unit.
LEMMA WordsAreIn ==
  ASSUME NEW us \in Seq(Units)
  PROVE  \A w \in 1..Len(Text(us)) : WordIn(us, Text(us)[w])
<1> DEFINE T == {s \in Seq(Units) : \A w \in 1..Len(Text(s)) : WordIn(s, Text(s)[w])}
<1>1. <<>> \in T
  <2>1. Text(<<>>) = <<>> /\ Len(<<>>) = 0
    BY TextNone
  <2>2. \A w \in 1..Len(Text(<<>>)) : FALSE
    BY <2>1
  <2> QED
    BY <2>2, EmptySeq
<1>2. ASSUME NEW s \in Seq(Units), NEW u \in Units, s \in T PROVE Append(s, u) \in T
  <2>a. PICK a : a = Append(s, u)
    OBVIOUS
  <2>1. a \in Seq(Units) /\ Len(s) \in Nat /\ Len(a) = Len(s) + 1 /\ a[Len(s) + 1] = u
        /\ \A k \in 1..Len(s) : a[k] = s[k]
    BY <2>a, AppendProperties, LenProperties
  <2>t. PICK t : t = Text(s)
    OBVIOUS
  <2>x. PICK x : x = u.text
    OBVIOUS
  <2>2. t \in Seq(Nat) /\ x \in Seq(Nat)
    BY <2>t, <2>x, TextIs, TextsAreWords DEF Filled, Words
  <2>3. Text(a) = t \o x
    BY <2>a, <2>t, <2>x, TextIs
  <2>4. /\ t \o x \in Seq(Nat) /\ Len(t \o x) = Len(t) + Len(x)
        /\ \A i \in 1..(Len(t) + Len(x)) : (t \o x)[i] = IF i <= Len(t) THEN t[i] ELSE x[i - Len(t)]
    BY <2>2, ConcatProperties
  <2>5. Len(t) \in Nat /\ Len(x) \in Nat
    BY <2>2, LenProperties
  <2>6. ASSUME NEW w \in 1..(Len(t) + Len(x)) PROVE WordIn(a, (t \o x)[w])
    <3>1. CASE w <= Len(t)
      <4>1. w \in 1..Len(t) /\ (t \o x)[w] = t[w]
        BY <2>4, <2>5, <3>1
      <4>2. WordIn(s, t[w])
        BY <2>t, <1>2, <4>1
      <4>3. PICK k \in 1..Len(s) : \E i \in 1..Len(s[k].text) : t[w] = s[k].text[i]
        BY <4>2 DEF WordIn
      <4>4. k \in 1..Len(a) /\ a[k] = s[k]
        BY <2>1
      <4> QED
        BY <4>1, <4>3, <4>4 DEF WordIn
    <3>2. CASE w > Len(t)
      <4>1. w - Len(t) \in 1..Len(x) /\ ~(w <= Len(t))
        BY <2>5, <3>2
      <4>2. (t \o x)[w] = x[w - Len(t)]
        BY <2>4, <4>1
      <4>3. Len(s) + 1 \in 1..Len(a)
        BY <2>1
      <4> QED
        BY <2>1, <2>x, <4>1, <4>2, <4>3 DEF WordIn
    <3>3. w <= Len(t) \/ w > Len(t)
      BY <2>5
    <3> QED
      BY <3>1, <3>2, <3>3
  <2>7. \A w \in 1..Len(Text(a)) : WordIn(a, Text(a)[w])
    BY <2>3, <2>4, <2>6
  <2> QED
    BY <2>1, <2>7, <2>a
<1>3. Seq(Units) \subseteq T
  <2> HIDE DEF T
  <2> QED
    BY <1>1, <1>2, OverSeqs
<1> QED
  BY <1>3

\* A chunk: what it has to say of the body, and one section when sections are kept apart.
ChunkOK(us, st, c) ==
  /\ PieceOf(c, Cat(us, KeptBy(st)), OVERLAP_WORDS)
  /\ st = "structured" =>
       \A w \in 1..Len(c.text) : \E k \in 1..Len(us) : \E i \in 1..Len(us[k].text) :
         c.text[w] = us[k].text[i] /\ c.path = us[k].path

\* The chunk being built has the last units packed, what it repeats is within the budget, and
\* the new words so far are those of the units packed.
PackOK(us, st, o, cur, fr, p) ==
  /\ us \in Seq(Units) /\ p \in 0..Len(us) /\ o \in Seq(Chunks)
  /\ \A i \in 1..Len(o) : ChunkOK(us, st, o[i])
  /\ cur \in Seq(Units) /\ Len(cur) <= p /\ \A i \in 1..Len(cur) : cur[i] = us[p - Len(cur) + i]
  /\ st = "structured" => \A i \in 1..Len(cur) : ~cur[i].heading /\ cur[i].path = us[p].path
  /\ fr \in 0..Len(cur)
  /\ Len(Text(cur)) <= MAX_WORDS
  /\ Len(Text(SubSeq(cur, 1, Len(cur) - fr))) <= OVERLAP_WORDS
  /\ Cat(o, NewOf) \o Text(Last(cur, fr)) = Cat(SubSeq(us, 1, p), KeptBy(st))

LEMMA NewsGrow ==
  ASSUME NEW o \in Seq(Chunks)
  PROVE  /\ Cat(o, NewOf) \in Words
         /\ \A c \in Chunks : Cat(Append(o, c), NewOf) = Cat(o, NewOf) \o c.new
         /\ \A cs \in Seq(Chunks) : Cat(o \o cs, NewOf) = Cat(o, NewOf) \o Cat(cs, NewOf)
<1>1. PICK g \in [Chunks -> Words] : g = NewOf
  BY DEF NewOf, Chunks
<1>2. /\ Cat(o, g) \in Words
      /\ \A vs \in Seq(Chunks) : Cat(o \o vs, g) = Cat(o, g) \o Cat(vs, g)
      /\ \A e \in Chunks : Cat(<<e>>, g) = g[e] /\ Cat(Append(o, e), g) = Cat(o, g) \o g[e]
  BY CatIs
<1>3. \A c \in Chunks : g[c] = c.new
  BY <1>1 DEF NewOf
<1> QED
  BY <1>1, <1>2, <1>3

\* The last members of a sequence.
LEMMA LastIs ==
  ASSUME NEW S, NEW s \in Seq(S), NEW n \in 0..Len(s)
  PROVE  /\ Last(s, n) \in Seq(S) /\ Len(Last(s, n)) = n
         /\ SubSeq(s, 1, Len(s) - n) \in Seq(S)
         /\ \A i \in 1..n : Last(s, n)[i] = s[Len(s) - n + i]
         /\ s = SubSeq(s, 1, Len(s) - n) \o Last(s, n)
<1>l. PICK l \in Nat : l = Len(s)
  BY LenProperties
<1>m. PICK m : m = l - n
  OBVIOUS
<1>1. m \in 0..l /\ l - m = n
  BY <1>l, <1>m
<1>2. /\ SubSeq(s, 1, m) \in Seq(S)
      /\ SubSeq(s, m + 1, Len(s)) \in Seq(S) /\ Len(SubSeq(s, m + 1, Len(s))) = Len(s) - m
      /\ \A i \in 1..(Len(s) - m) : SubSeq(s, m + 1, Len(s))[i] = s[m + i]
      /\ s = SubSeq(s, 1, m) \o SubSeq(s, m + 1, Len(s))
  <2>1. m \in 0..Len(s)
    BY <1>1, <1>l
  <2> QED
    BY <2>1, SeqSplits
<1>3. Last(s, n) = SubSeq(s, m + 1, Len(s))
  BY <1>l, <1>m DEF Last
<1> QED
  BY <1>1, <1>2, <1>3, <1>l, <1>m

Assocs(a, b, c) == a \o b \in Words /\ b \o c \in Words /\ (a \o b) \o c = a \o (b \o c)

LEMMA AssocOf ==
  ASSUME NEW a \in Words, NEW b \in Words, NEW c \in Words
  PROVE  Assocs(a, b, c)
BY Assoc DEF Assocs

Inside(w, body) == \E u, v \in Words : body = u \o (w \o v)

LEMMA Nested ==
  ASSUME NEW u \in Words, NEW a \in Words, NEW t \in Words, NEW b \in Words, NEW v \in Words
  PROVE  Inside(t, u \o ((a \o (t \o b)) \o v))
<1>b. PICK body : body = u \o ((a \o (t \o b)) \o v)
  OBVIOUS
<1>d. PICK d : d = t \o b
  OBVIOUS
<1>f. PICK f : f = d \o v
  OBVIOUS
<1>1. Assocs(t, b, v)
  BY AssocOf
<1>2. d \in Words /\ b \o v \in Words /\ f = t \o (b \o v)
  BY <1>1, <1>d, <1>f DEF Assocs
<1>3. Assocs(a, d, v)
  BY <1>2, AssocOf
<1>4. f \in Words /\ (a \o d) \o v = a \o f
  BY <1>3, <1>f DEF Assocs
<1>5. Assocs(u, a, f)
  BY <1>4, AssocOf
<1>6. u \o a \in Words /\ (u \o a) \o f = u \o (a \o f)
  BY <1>5 DEF Assocs
<1>7. body = (u \o a) \o (t \o (b \o v))
  BY <1>2, <1>4, <1>6, <1>b, <1>d
<1>8. Inside(t, body)
  BY <1>2, <1>6, <1>7 DEF Inside
<1> QED
  BY <1>8, <1>b

\* A piece of a piece is a piece of the whole.
LEMMA PieceWithin ==
  ASSUME NEW c, NEW w \in Words, NEW n \in 0..OVERLAP_WORDS, PieceOf(c, w, n),
         NEW u \in Words, NEW v \in Words, NEW body, body = u \o (w \o v)
  PROVE  PieceOf(c, body, OVERLAP_WORDS)
<1>1. /\ c \in Chunks /\ c.text # <<>> /\ Len(c.text) <= MAX_WORDS /\ c.text \in Words
      /\ \E x \in Words : Len(x) <= n /\ c.text = x \o c.new
      /\ \E a, b \in Words : w = a \o (c.text \o b)
  BY DEF PieceOf, Chunks
<1>2. PICK a \in Words, b \in Words : w = a \o (c.text \o b)
  BY <1>1
<1>3. PICK x \in Words : Len(x) <= n /\ c.text = x \o c.new
  BY <1>1
<1>4. Len(x) <= OVERLAP_WORDS
  <2>1. Len(x) \in Nat /\ OVERLAP_WORDS \in Nat
    BY LenProperties, ChunkingAssumption DEF Words
  <2> QED
    BY <1>3, <2>1
<1>t. PICK t \in Words : t = c.text
  BY <1>1
<1>5. body = u \o ((a \o (t \o b)) \o v)
  BY <1>2, <1>t
<1>6. \E y, z \in Words : body = y \o (c.text \o z)
  <2>1. Inside(t, u \o ((a \o (t \o b)) \o v))
    BY Nested
  <2>2. Inside(t, body)
    BY <1>5, <2>1
  <2> QED
    BY <1>t, <2>2 DEF Inside
<1> QED
  BY <1>1, <1>3, <1>4, <1>6 DEF PieceOf

\* emit of what is being built.
ChunkOf(cur, fr) == [path |-> cur[Len(cur) - fr + 1].path, text |-> Text(cur),
                     new |-> Text(Last(cur, fr))]
EmittedOf(o, cur, fr) ==
  IF fr = 0 THEN o
  ELSE Append(o, ChunkOf(cur, fr))

\* Where the chunk being built is in the body.
LEMMA CurrentIn ==
  ASSUME NEW us, NEW st, NEW o, NEW cur, NEW fr, NEW p, PackOK(us, st, o, cur, fr, p)
  PROVE  /\ PackOK(us, st, o, cur, fr, p)
         /\ Inside(Text(cur), Cat(us, KeptBy(st)))
<1>1. /\ us \in Seq(Units) /\ p \in 0..Len(us) /\ cur \in Seq(Units)
      /\ Len(cur) <= p /\ \A i \in 1..Len(cur) : cur[i] = us[p - Len(cur) + i]
  BY DEF PackOK
<1>h. st = "structured" => \A i \in 1..Len(cur) : ~cur[i].heading
  BY DEF PackOK
<1>l. PICK l \in Nat : l = Len(us)
  BY <1>1, LenProperties
<1>n. PICK n \in Nat : n = Len(cur)
  BY <1>1, LenProperties
<1>2. p \in Nat /\ p <= l /\ n <= p
  BY <1>1, <1>l, <1>n
<1>m. PICK m \in Nat : m = p - n
  BY <1>2
<1>3. m \in 0..l /\ p \in m..l /\ m \in 0..Len(us) /\ p \in m..Len(us) /\ Len(us) \in p..Len(us)
  BY <1>2, <1>l, <1>m
<1>a. PICK a : a = SubSeq(us, 1, m)
  OBVIOUS
<1>b. PICK b : b = SubSeq(us, m + 1, p)
  OBVIOUS
<1>c. PICK c : c = SubSeq(us, p + 1, Len(us))
  OBVIOUS
<1>d. PICK d : d = SubSeq(us, m + 1, Len(us))
  OBVIOUS
<1>4. a \in Seq(Units) /\ d \in Seq(Units) /\ us = a \o d
  BY <1>1, <1>3, <1>a, <1>d, SeqSplits
<1>5. d = b \o c
  BY <1>1, <1>3, <1>b, <1>c, <1>d, SubSeqsMeet
<1>6. b \in Seq(Units) /\ Len(b) = p - m /\ \A i \in 1..(p - m) : b[i] = us[m + i]
  <2>1. /\ SubSeq(us, m + 1, p) \in Seq(Units) /\ Len(SubSeq(us, m + 1, p)) = p - m
        /\ \A i \in 1..(p - m) : SubSeq(us, m + 1, p)[i] = us[m + i]
    BY <1>1, <1>3, SubSeqIs
  <2> QED
    BY <1>b, <2>1
<1>7. c \in Seq(Units)
  <2>1. p \in 0..Len(us)
    BY <1>1
  <2> QED
    BY <1>1, <1>c, <2>1, SeqSplits
<1>8. b = cur
  <2>1. p - m = n
    BY <1>2, <1>m
  <2>2. \A i \in 1..n : b[i] = cur[i]
    BY <1>1, <1>6, <1>m, <1>n, <2>1
  <2> QED
    BY <1>1, <1>6, <1>n, <2>1, <2>2, SeqEqual
<1>9. Cat(us, KeptBy(st)) = Cat(a, KeptBy(st)) \o Cat(d, KeptBy(st))
  BY <1>4, KeptIs
<1>10. Cat(d, KeptBy(st)) = Cat(cur, KeptBy(st)) \o Cat(c, KeptBy(st))
  BY <1>5, <1>6, <1>7, <1>8, KeptIs
<1>11. Cat(cur, KeptBy(st)) = Text(cur)
  BY <1>1, <1>h, KeptIsText
<1>12. Cat(a, KeptBy(st)) \in Words /\ Cat(c, KeptBy(st)) \in Words
  BY <1>4, <1>7, KeptIs
<1> QED
  BY <1>9, <1>10, <1>11, <1>12 DEF Inside

EmittedOne(us, st, cur, fr) ==
  /\ ChunkOf(cur, fr) \in Chunks /\ ChunkOK(us, st, ChunkOf(cur, fr))
  /\ ChunkOf(cur, fr).new = Text(Last(cur, fr))

\* What emit adds is a chunk of the body, with the words that were new.
LEMMA EmittedChunk ==
  ASSUME NEW us, NEW st, NEW o, NEW cur, NEW fr, NEW p, PackOK(us, st, o, cur, fr, p), fr # 0
  PROVE  PackOK(us, st, o, cur, fr, p) /\ EmittedOne(us, st, cur, fr)
<1>c. PICK c : c = ChunkOf(cur, fr)
  OBVIOUS
<1>1. /\ us \in Seq(Units) /\ p \in 0..Len(us) /\ cur \in Seq(Units)
      /\ Len(cur) <= p /\ \A i \in 1..Len(cur) : cur[i] = us[p - Len(cur) + i]
      /\ fr \in 0..Len(cur) /\ Len(Text(cur)) <= MAX_WORDS
      /\ Len(Text(SubSeq(cur, 1, Len(cur) - fr))) <= OVERLAP_WORDS
  BY DEF PackOK
<1>n. PICK n \in Nat : n = Len(cur)
  BY <1>1, LenProperties
<1>2. n - fr + 1 \in 1..n /\ 1 \in 1..n
  BY <1>1, <1>n
<1>3. \A i \in 1..n : cur[i] \in Units /\ cur[i].path \in Seq(Marks)
  <2>1. \A i \in 1..n : cur[i] \in Units
    BY <1>1, <1>n, ElementOfSeq
  <2> QED
    BY <2>1 DEF Units
<1>x. PICK x : x = Text(SubSeq(cur, 1, Len(cur) - fr))
  OBVIOUS
<1>y. PICK y : y = Text(Last(cur, fr))
  OBVIOUS
<1>4. x \in Words /\ y \in Words /\ Text(cur) = x \o y /\ Text(cur) \in Words
  <2>1. /\ SubSeq(cur, 1, Len(cur) - fr) \in Seq(Units) /\ Last(cur, fr) \in Seq(Units)
        /\ cur = SubSeq(cur, 1, Len(cur) - fr) \o Last(cur, fr)
    BY <1>1, LastIs
  <2>2. Text(SubSeq(cur, 1, Len(cur) - fr) \o Last(cur, fr)) = x \o y
    BY <1>x, <1>y, <2>1, TextIs
  <2>3. x \in Words /\ y \in Words
    BY <1>x, <1>y, <2>1, TextIs
  <2> QED
    BY <1>1, <2>1, <2>2, <2>3, TextIs
<1>5. c \in Chunks /\ c.text = Text(cur) /\ c.new = y /\ c.path = cur[n - fr + 1].path
  BY <1>2, <1>3, <1>4, <1>c, <1>n, <1>y DEF Chunks, ChunkOf
<1>6. Text(cur) # <<>>
  <2>1. PICK w \in 1..Len(Text(cur)) : cur[1].text[1] = Text(cur)[w]
    BY <1>1, <1>2, <1>n, FirstWordIn
  <2> QED
    BY <2>1
<1>7. PICK u \in Words, v \in Words : Cat(us, KeptBy(st)) = u \o (Text(cur) \o v)
  <2>1. /\ PackOK(us, st, o, cur, fr, p)
        /\ Inside(Text(cur), Cat(us, KeptBy(st)))
    BY CurrentIn
  <2> QED
    BY <2>1 DEF Inside
<1>8. PieceOf(c, Cat(us, KeptBy(st)), OVERLAP_WORDS)
  <2>1. \E z \in Words : Len(z) <= OVERLAP_WORDS /\ c.text = z \o c.new
    BY <1>1, <1>4, <1>5, <1>x
  <2>2. \E a, b \in Words : Cat(us, KeptBy(st)) = a \o (c.text \o b)
    BY <1>5, <1>7
  <2> QED
    BY <1>1, <1>5, <1>6, <2>1, <2>2 DEF PieceOf
<1>9. ASSUME st = "structured", NEW w \in 1..Len(c.text)
      PROVE  \E k \in 1..Len(us) : \E i \in 1..Len(us[k].text) :
               c.text[w] = us[k].text[i] /\ c.path = us[k].path
  <2>1. \A i \in 1..n : cur[i].path = us[p].path
    BY <1>9, <1>n DEF PackOK
  <2>2. WordIn(cur, Text(cur)[w])
    BY <1>1, <1>5, <1>9, WordsAreIn
  <2>3. PICK k \in 1..n : \E i \in 1..Len(cur[k].text) : Text(cur)[w] = cur[k].text[i]
    BY <1>n, <2>2 DEF WordIn
  <2>4. PICK j : j = p - n + k
    OBVIOUS
  <2>5. j \in 1..Len(us) /\ cur[k] = us[j]
    <3>1. Len(us) \in Nat
      BY <1>1, LenProperties
    <3>2. p \in Nat /\ p <= Len(us) /\ n <= p
      BY <1>1, <1>n, <3>1
    <3>3. j \in 1..Len(us)
      BY <2>4, <3>1, <3>2
    <3> QED
      BY <1>1, <1>n, <2>4, <3>3
  <2>6. c.path = us[j].path
    BY <1>2, <1>5, <2>1, <2>5
  <2> QED
    BY <1>5, <2>3, <2>5, <2>6
<1>10. ChunkOK(us, st, c)
  BY <1>8, <1>9 DEF ChunkOK
<1> QED
  BY <1>5, <1>10, <1>c, <1>y DEF EmittedOne

LEMMA WholeIs ==
  ASSUME NEW S, NEW s \in Seq(S)
  PROVE  SubSeq(s, 1, Len(s) - 0) = s /\ Last(s, 0) = <<>> /\ s \in Seq(S)
<1>1. 0 \in 0..Len(s)
  BY LenProperties
<1>2. Last(s, 0) \in Seq(S) /\ Len(Last(s, 0)) = 0 /\ SubSeq(s, 1, Len(s) - 0) \in Seq(S)
      /\ s = SubSeq(s, 1, Len(s) - 0) \o Last(s, 0)
  BY <1>1, LastIs
<1>3. Last(s, 0) = <<>>
  BY <1>2, EmptySeq
<1> QED
  BY <1>2, <1>3, ConcatEmptySeq

LEMMA NothingAfter ==
  ASSUME NEW w \in Words
  PROVE  w \o <<>> = w /\ <<>> \o w = w
BY ConcatEmptySeq DEF Words

\* After an emit the next chunk starts from trailing units that fit the overlap.
LEMMA EmitOK ==
  ASSUME NEW us, NEW st, NEW o, NEW cur, NEW fr, NEW p, PackOK(us, st, o, cur, fr, p),
         NEW m \in 0..Len(cur), Len(Text(Last(cur, m))) <= OVERLAP_WORDS
  PROVE  PackOK(us, st, EmittedOf(o, cur, fr), Last(cur, m), 0, p)
<1>1. /\ us \in Seq(Units) /\ p \in 0..Len(us) /\ o \in Seq(Chunks)
      /\ \A i \in 1..Len(o) : ChunkOK(us, st, o[i])
      /\ cur \in Seq(Units) /\ Len(cur) <= p /\ \A i \in 1..Len(cur) : cur[i] = us[p - Len(cur) + i]
      /\ st = "structured" => \A i \in 1..Len(cur) : ~cur[i].heading /\ cur[i].path = us[p].path
      /\ Cat(o, NewOf) \o Text(Last(cur, fr)) = Cat(SubSeq(us, 1, p), KeptBy(st))
  BY DEF PackOK
<1>n. PICK n \in Nat : n = Len(cur)
  BY <1>1, LenProperties
<1>l. PICK l \in Nat : l = Len(us)
  BY <1>1, LenProperties
<1>2. m \in 0..n /\ p \in 0..l /\ n <= p
  BY <1>1, <1>l, <1>n
<1>e. PICK e : e = EmittedOf(o, cur, fr)
  OBVIOUS
<1>t. PICK t : t = Last(cur, m)
  OBVIOUS
<1>3. t \in Seq(Units) /\ Len(t) = m /\ \A i \in 1..m : t[i] = cur[n - m + i]
  <2>1. /\ Last(cur, m) \in Seq(Units) /\ Len(Last(cur, m)) = m
        /\ \A i \in 1..m : Last(cur, m)[i] = cur[Len(cur) - m + i]
    BY <1>1, LastIs
  <2> QED
    BY <1>n, <1>t, <2>1
<1>4. ASSUME NEW i \in 1..m
      PROVE  /\ t[i] = us[p - m + i]
             /\ st = "structured" => ~t[i].heading /\ t[i].path = us[p].path
  <2>1. PICK j : j = n - m + i
    OBVIOUS
  <2>2. j \in 1..n /\ p - n + j = p - m + i
    BY <1>2, <2>1
  <2>3. t[i] = cur[j]
    BY <1>3, <2>1
  <2> QED
    BY <1>1, <1>n, <2>2, <2>3
<1>5. e \in Seq(Chunks) /\ (\A i \in 1..Len(e) : ChunkOK(us, st, e[i]))
      /\ Cat(e, NewOf) = Cat(SubSeq(us, 1, p), KeptBy(st)) /\ Cat(e, NewOf) \in Words
  <2>1. CASE fr = 0
    <3>1. e = o
      BY <1>e, <2>1 DEF EmittedOf
    <3>2. Text(Last(cur, fr)) = <<>>
      <4>1. Last(cur, 0) = <<>>
        BY <1>1, WholeIs
      <4> QED
        BY <2>1, <4>1, TextNone
    <3>3. Cat(o, NewOf) \in Words
      BY <1>1, NewsGrow
    <3> QED
      BY <1>1, <3>1, <3>2, <3>3, NothingAfter
  <2>2. CASE fr # 0
    <3>c. PICK c : c = ChunkOf(cur, fr)
      OBVIOUS
    <3>1. e = Append(o, c)
      BY <1>e, <2>2, <3>c DEF EmittedOf
    <3>2. c \in Chunks /\ ChunkOK(us, st, c) /\ c.new = Text(Last(cur, fr))
      <4>1. PackOK(us, st, o, cur, fr, p) /\ EmittedOne(us, st, cur, fr)
        BY <2>2, EmittedChunk
      <4> QED
        BY <3>c, <4>1 DEF EmittedOne
    <3>3. Cat(e, NewOf) = Cat(o, NewOf) \o c.new
      BY <1>1, <3>1, <3>2, NewsGrow
    <3>4. PICK k \in Nat : k = Len(o)
      BY <1>1, LenProperties
    <3>5. e \in Seq(Chunks) /\ Len(e) = k + 1 /\ e[k + 1] = c /\ \A i \in 1..k : e[i] = o[i]
      BY <1>1, <3>1, <3>2, <3>4, AppendProperties
    <3>6. ASSUME NEW i \in 1..(k + 1) PROVE ChunkOK(us, st, e[i])
      <4>1. CASE i = k + 1
        BY <3>2, <3>5, <4>1
      <4>2. CASE i # k + 1
        <5>1. i \in 1..k
          BY <4>2
        <5> QED
          BY <1>1, <3>4, <3>5, <5>1
      <4> QED
        BY <4>1, <4>2
    <3>7. Cat(e, NewOf) \in Words
      BY <3>5, NewsGrow
    <3> QED
      BY <1>1, <3>2, <3>3, <3>5, <3>6, <3>7
  <2> QED
    BY <2>1, <2>2
<1>6. Cat(e, NewOf) \o Text(Last(t, 0)) = Cat(SubSeq(us, 1, p), KeptBy(st))
  <2>1. Last(t, 0) = <<>>
    BY <1>3, WholeIs
  <2> QED
    BY <1>5, <2>1, TextNone, NothingAfter
<1>7. Len(Text(SubSeq(t, 1, Len(t) - 0))) <= OVERLAP_WORDS
  <2>1. SubSeq(t, 1, Len(t) - 0) = t
    BY <1>3, WholeIs
  <2> QED
    BY <1>t, <2>1
<1>8. Len(Text(t)) <= MAX_WORDS
  <2>1. Text(t) \in Seq(Nat)
    BY <1>3, TextIs DEF Words
  <2>2. Len(Text(t)) \in Nat /\ Len(Text(t)) <= OVERLAP_WORDS
    BY <1>t, <2>1, LenProperties
  <2>3. OVERLAP_WORDS \in Nat /\ MAX_WORDS \in Nat /\ OVERLAP_WORDS <= MAX_WORDS
    BY ChunkingAssumption
  <2> QED
    BY <2>2, <2>3
<1>9. Len(t) <= p /\ 0 \in 0..Len(t)
  BY <1>2, <1>3
<1>10. PackOK(us, st, e, t, 0, p)
  BY <1>1, <1>3, <1>4, <1>5, <1>6, <1>7, <1>8, <1>9 DEF PackOK
<1> QED
  BY <1>10, <1>e, <1>t

LEMMA ConcatAppend ==
  ASSUME NEW S, NEW a \in Seq(S), NEW b \in Seq(S), NEW e \in S
  PROVE  a \o Append(b, e) = Append(a \o b, e) /\ a \o b \in Seq(S)
BY ConcatProperties, AppendProperties

LEMMA PrefixGrows ==
  ASSUME NEW S, NEW us \in Seq(S), NEW p \in 0..Len(us), p < Len(us)
  PROVE  /\ p + 1 \in 0..Len(us) /\ us[p + 1] \in S /\ SubSeq(us, 1, p) \in Seq(S)
         /\ SubSeq(us, 1, p + 1) = Append(SubSeq(us, 1, p), us[p + 1])
<1>n. PICK n \in Nat : n = Len(us)
  BY LenProperties
<1>1. p + 1 \in 0..n /\ p + 1 \in 1..n /\ p \in 0..n /\ p \in Nat
  BY <1>n
<1>u. us[p + 1] \in S
  BY <1>1, <1>n, ElementOfSeq
<1>a. PICK a : a = SubSeq(us, 1, p)
  OBVIOUS
<1>b. PICK b : b = SubSeq(us, 1, p + 1)
  OBVIOUS
<1>2. a \in Seq(S) /\ Len(a) = p /\ \A i \in 1..p : a[i] = us[i]
  BY <1>1, <1>a, <1>n, SeqSplits
<1>3. b \in Seq(S) /\ Len(b) = p + 1 /\ \A i \in 1..(p + 1) : b[i] = us[i]
  BY <1>1, <1>b, <1>n, SeqSplits
<1>c. PICK c : c = Append(a, us[p + 1])
  OBVIOUS
<1>4. c \in Seq(S) /\ Len(c) = p + 1 /\ c[p + 1] = us[p + 1] /\ \A i \in 1..p : c[i] = a[i]
  BY <1>2, <1>c, <1>u, AppendProperties
<1>5. ASSUME NEW i \in 1..(p + 1) PROVE b[i] = c[i]
  <2>1. CASE i = p + 1
    BY <1>3, <1>4, <2>1
  <2>2. CASE i # p + 1
    <3>1. i \in 1..p
      BY <1>1, <2>2
    <3> QED
      BY <1>2, <1>3, <1>4, <3>1
  <2> QED
    BY <2>1, <2>2
<1>6. b = c
  BY <1>1, <1>3, <1>4, <1>5, SeqEqual
<1> QED
  BY <1>1, <1>2, <1>6, <1>a, <1>b, <1>c, <1>n, <1>u

KeptUpTo(us, st, p) == Cat(SubSeq(us, 1, p), KeptBy(st))

\* The words kept of one unit more.
LEMMA KeptGrows ==
  ASSUME NEW st, NEW us \in Seq(Units), NEW p \in 0..Len(us), p < Len(us)
  PROVE  /\ us[p + 1] \in Units /\ p + 1 \in 0..Len(us)
         /\ KeptUpTo(us, st, p) \in Words
         /\ KeptUpTo(us, st, p + 1) = KeptUpTo(us, st, p) \o KeptBy(st)[us[p + 1]]
<1>1. /\ p + 1 \in 0..Len(us) /\ us[p + 1] \in Units /\ SubSeq(us, 1, p) \in Seq(Units)
      /\ SubSeq(us, 1, p + 1) = Append(SubSeq(us, 1, p), us[p + 1])
  BY PrefixGrows
<1> QED
  BY <1>1, KeptIs DEF KeptUpTo

\* A unit joins the chunk being built.
LEMMA AppendOK ==
  ASSUME NEW us, NEW st, NEW o, NEW cur, NEW fr, NEW p, PackOK(us, st, o, cur, fr, p),
         p < Len(us), \A k \in 1..Len(us) : UnitOK(us, k),
         ~(st = "structured" /\ us[p + 1].heading),
         Len(Text(cur)) + Len(us[p + 1].text) <= MAX_WORDS
  PROVE  PackOK(us, st, o, Append(cur, us[p + 1]), fr + 1, p + 1)
<1>1. /\ us \in Seq(Units) /\ p \in 0..Len(us) /\ o \in Seq(Chunks)
      /\ \A i \in 1..Len(o) : ChunkOK(us, st, o[i])
      /\ cur \in Seq(Units) /\ Len(cur) <= p /\ \A i \in 1..Len(cur) : cur[i] = us[p - Len(cur) + i]
      /\ fr \in 0..Len(cur)
      /\ Cat(o, NewOf) \o Text(Last(cur, fr)) = KeptUpTo(us, st, p)
  BY DEF PackOK, KeptUpTo
<1>2. st = "structured" => \A i \in 1..Len(cur) : ~cur[i].heading /\ cur[i].path = us[p].path
  BY DEF PackOK
<1>3. Len(Text(SubSeq(cur, 1, Len(cur) - fr))) <= OVERLAP_WORDS
  BY DEF PackOK
<1>n. PICK n \in Nat : n = Len(cur)
  BY <1>1, LenProperties
<1>l. PICK l \in Nat : l = Len(us)
  BY <1>1, LenProperties
<1>4. p \in 0..l /\ p < l /\ n <= p /\ fr \in 0..n
  BY <1>1, <1>l, <1>n
<1>u. PICK u : u = us[p + 1]
  OBVIOUS
<1>5. /\ u \in Units /\ p + 1 \in 0..Len(us) /\ KeptUpTo(us, st, p) \in Words
      /\ KeptUpTo(us, st, p + 1) = KeptUpTo(us, st, p) \o KeptBy(st)[u]
  BY <1>1, <1>u, KeptGrows
<1>6. KeptBy(st)[u] = u.text /\ u.text \in Words
  BY <1>5, <1>u, KeptIsWords, TextsAreWords DEF Filled
<1>c. PICK c : c = Append(cur, u)
  OBVIOUS
<1>7. c \in Seq(Units) /\ Len(c) = n + 1 /\ c[n + 1] = u /\ \A i \in 1..n : c[i] = cur[i]
  BY <1>1, <1>5, <1>c, <1>n, AppendProperties
<1>8. ASSUME NEW i \in 1..(n + 1) PROVE c[i] = us[p - n + i]
  <2>1. CASE i = n + 1
    <3>1. p - n + i = p + 1
      BY <1>4, <2>1
    <3> QED
      BY <1>7, <1>u, <2>1, <3>1
  <2>2. CASE i # n + 1
    <3>1. i \in 1..n
      BY <2>2
    <3> QED
      BY <1>1, <1>7, <1>n, <3>1
  <2> QED
    BY <2>1, <2>2
<1>9. ASSUME st = "structured", NEW i \in 1..(n + 1)
      PROVE  ~c[i].heading /\ c[i].path = us[p + 1].path
  <2>1. CASE i = n + 1
    BY <1>7, <1>9, <1>u, <2>1
  <2>2. CASE i # n + 1
    <3>1. i \in 1..n
      BY <2>2
    <3>2. ~cur[i].heading /\ cur[i].path = us[p].path
      BY <1>2, <1>9, <1>n, <3>1
    <3>3. us[p + 1].path = us[p].path
      <4>1. p + 1 \in 1..Len(us) /\ p + 1 > 1 /\ (p + 1) - 1 = p
        BY <1>4, <1>l, <3>1
      <4>2. ~us[p + 1].heading
        BY <1>9
      <4> QED
        BY <4>1, <4>2 DEF UnitOK
    <3> QED
      BY <1>7, <3>1, <3>2, <3>3
  <2> QED
    BY <2>1, <2>2
<1>f. PICK f : f = SubSeq(cur, 1, Len(cur) - fr)
  OBVIOUS
<1>g. PICK g : g = Last(cur, fr)
  OBVIOUS
<1>10. f \in Seq(Units) /\ g \in Seq(Units) /\ Len(g) = fr /\ cur = f \o g
  <2>1. /\ Last(cur, fr) \in Seq(Units) /\ Len(Last(cur, fr)) = fr
        /\ SubSeq(cur, 1, Len(cur) - fr) \in Seq(Units)
        /\ cur = SubSeq(cur, 1, Len(cur) - fr) \o Last(cur, fr)
    BY <1>1, LastIs
  <2> QED
    BY <1>f, <1>g, <2>1
<1>h. PICK h : h = Append(g, u)
  OBVIOUS
<1>11. h \in Seq(Units) /\ Text(h) = Text(g) \o u.text /\ Text(g) \in Words
  BY <1>5, <1>10, <1>h, AppendProperties, TextIs
<1>12. c = f \o h
  <2>1. f \o Append(g, u) = Append(f \o g, u)
    <3>1. f \o Append(g, u) = Append(f \o g, u) /\ f \o g \in Seq(Units)
      BY <1>5, <1>10, ConcatAppend
    <3> QED
      BY <3>1
  <2> QED
    BY <1>10, <1>c, <1>h, <2>1
<1>13. Len(f) = n - fr
  <2>1. Len(f \o g) = Len(f) + Len(g)
    BY <1>10, ConcatProperties
  <2>2. Len(f) \in Nat
    BY <1>10, LenProperties
  <2> QED
    BY <1>4, <1>10, <1>n, <2>1, <2>2
<1>14. SubSeq(c, 1, Len(f)) = f /\ SubSeq(c, Len(f) + 1, Len(c)) = h
  <2>1. /\ f \o h \in Seq(Units) /\ SubSeq(f \o h, 1, Len(f)) = f
        /\ SubSeq(f \o h, Len(f) + 1, Len(f \o h)) = h
    BY <1>10, <1>11, PartsOf
  <2> QED
    BY <1>12, <2>1
<1>15. Last(c, fr + 1) = h /\ SubSeq(c, 1, Len(c) - (fr + 1)) = f
  <2>1. Len(c) - (fr + 1) = Len(f) /\ Len(c) - (fr + 1) + 1 = Len(f) + 1
    BY <1>4, <1>7, <1>13
  <2> QED
    BY <1>14, <2>1 DEF Last
<1>16. Cat(o, NewOf) \o Text(Last(c, fr + 1)) = KeptUpTo(us, st, p + 1)
  <2>a. PICK a : a = Cat(o, NewOf)
    OBVIOUS
  <2>b. PICK b : b = Text(g)
    OBVIOUS
  <2>1. a \in Words /\ b \in Words /\ u.text \in Words
    BY <1>1, <1>6, <1>11, <2>a, <2>b, NewsGrow
  <2>2. Assocs(a, b, u.text)
    BY <2>1, AssocOf
  <2>3. a \o b = KeptUpTo(us, st, p)
    BY <1>1, <1>g, <2>a, <2>b
  <2>4. a \o (b \o u.text) = KeptUpTo(us, st, p + 1)
    BY <1>5, <1>6, <2>2, <2>3 DEF Assocs
  <2> QED
    BY <1>11, <1>15, <2>4, <2>a, <2>b
<1>17. Len(Text(c)) <= MAX_WORDS
  <2>t. PICK t : t = Text(cur)
    OBVIOUS
  <2>x. PICK x : x = u.text
    OBVIOUS
  <2>1. Text(c) = t \o x /\ t \in Seq(Nat) /\ x \in Seq(Nat)
    BY <1>1, <1>5, <1>6, <1>c, <2>t, <2>x, TextIs DEF Words
  <2>2. Len(t \o x) = Len(t) + Len(x)
    BY <2>1, ConcatProperties
  <2>3. Len(t) + Len(x) <= MAX_WORDS
    BY <1>u, <2>t, <2>x
  <2> QED
    BY <2>1, <2>2, <2>3
<1>18. Len(Text(SubSeq(c, 1, Len(c) - (fr + 1)))) <= OVERLAP_WORDS
  BY <1>3, <1>15, <1>f
<1>19. fr + 1 \in 0..Len(c) /\ Len(c) <= p + 1
  BY <1>4, <1>7
<1>20. \A i \in 1..Len(c) : c[i] = us[(p + 1) - Len(c) + i]
  <2>1. (p + 1) - Len(c) = p - n
    BY <1>4, <1>7
  <2> QED
    BY <1>7, <1>8, <2>1
<1>21. st = "structured" => \A i \in 1..Len(c) : ~c[i].heading /\ c[i].path = us[p + 1].path
  BY <1>7, <1>9
<1>22. PackOK(us, st, o, c, fr + 1, p + 1)
  BY <1>1, <1>5, <1>7, <1>16, <1>17, <1>18, <1>19, <1>20, <1>21 DEF PackOK, KeptUpTo
<1> QED
  BY <1>22, <1>c, <1>u

LEMMA NothingIs ==
  /\ <<>> \in Seq(Units) /\ Len(<<>>) = 0 /\ Text(<<>>) = <<>> /\ Last(<<>>, 0) = <<>>
  /\ SubSeq(<<>>, 1, Len(<<>>) - 0) = <<>> /\ OVERLAP_WORDS \in Nat /\ MAX_WORDS \in Nat
<1>1. <<>> \in Seq(Units) /\ Len(<<>>) = 0
  BY EmptySeq
<1>2. Last(<<>>, 0) = <<>> /\ SubSeq(<<>>, 1, Len(<<>>) - 0) = <<>>
  BY <1>1, WholeIs
<1>3. OVERLAP_WORDS \in Nat /\ MAX_WORDS \in Nat
  BY ChunkingAssumption
<1> QED
  BY <1>1, <1>2, <1>3, TextNone

\* With nothing being built.
LEMMA NothingBuilt ==
  ASSUME NEW us, NEW st, NEW o, NEW p
  PROVE  PackOK(us, st, o, <<>>, 0, p) <=>
           /\ us \in Seq(Units) /\ p \in 0..Len(us) /\ o \in Seq(Chunks)
           /\ \A i \in 1..Len(o) : ChunkOK(us, st, o[i])
           /\ Cat(o, NewOf) = KeptUpTo(us, st, p)
<1>1. ASSUME us \in Seq(Units), p \in 0..Len(us)
      PROVE  /\ <<>> \in Seq(Units) /\ Len(<<>>) <= p
             /\ \A i \in 1..Len(<<>>) : <<>>[i] = us[p - Len(<<>>) + i]
             /\ st = "structured" => \A i \in 1..Len(<<>>) : ~<<>>[i].heading /\ <<>>[i].path = us[p].path
             /\ 0 \in 0..Len(<<>>)
             /\ Len(Text(<<>>)) <= MAX_WORDS
             /\ Len(Text(SubSeq(<<>>, 1, Len(<<>>) - 0))) <= OVERLAP_WORDS
  <2>1. p \in Nat /\ \A i \in 1..0 : FALSE
    BY <1>1
  <2>2. Len(Text(<<>>)) = 0 /\ Len(Text(SubSeq(<<>>, 1, Len(<<>>) - 0))) = 0
    BY NothingIs
  <2>3. \A i \in 1..Len(<<>>) : FALSE
    BY <2>1, NothingIs
  <2>4. 0 <= MAX_WORDS /\ 0 <= OVERLAP_WORDS /\ Len(<<>>) <= p /\ 0 \in 0..Len(<<>>)
    BY <2>1, NothingIs
  <2> QED
    BY <2>2, <2>3, <2>4, NothingIs
<1>2. ASSUME o \in Seq(Chunks)
      PROVE  Cat(o, NewOf) \o Text(Last(<<>>, 0)) = Cat(o, NewOf)
  <2>1. Cat(o, NewOf) \in Words
    BY <1>2, NewsGrow
  <2>2. Text(Last(<<>>, 0)) = <<>>
    BY NothingIs
  <2> QED
    BY <2>1, <2>2, NothingAfter
<1> QED
  BY <1>1, <1>2 DEF PackOK, KeptUpTo

\* Nothing packed yet.
LEMMA PackStarts ==
  ASSUME NEW us \in Seq(Units), NEW st
  PROVE  PackOK(us, st, <<>>, <<>>, 0, 0)
<1>1. 0 \in 0..Len(us)
  BY LenProperties
<1>2. SubSeq(us, 1, 0) = <<>>
  <2>1. SubSeq(us, 1, 0) \in Seq(Units) /\ Len(SubSeq(us, 1, 0)) = 0
    BY <1>1, SeqSplits
  <2> QED
    BY <2>1, EmptySeq
<1>3. Cat(<<>>, NewOf) = <<>> /\ KeptUpTo(us, st, 0) = <<>>
  BY <1>2, CatNone DEF KeptUpTo
<1>4. <<>> \in Seq(Chunks) /\ Len(<<>>) = 0 /\ \A i \in 1..0 : FALSE
  BY EmptySeq
<1>o. PICK o : o = <<>>
  OBVIOUS
<1>5. o \in Seq(Chunks) /\ \A i \in 1..Len(o) : ChunkOK(us, st, o[i])
  BY <1>4, <1>o
<1>6. Cat(o, NewOf) = KeptUpTo(us, st, 0)
  BY <1>3, <1>o
<1>7. PackOK(us, st, o, <<>>, 0, 0)
  BY <1>1, <1>5, <1>6, NothingBuilt
<1> QED
  BY <1>7, <1>o

\* A heading of a structured text is in the path and not in the chunks.
LEMMA SkipOK ==
  ASSUME NEW us, NEW st, NEW o, NEW p, PackOK(us, st, o, <<>>, 0, p), p < Len(us),
         st = "structured", us[p + 1].heading
  PROVE  PackOK(us, st, o, <<>>, 0, p + 1)
<1>1. /\ us \in Seq(Units) /\ p \in 0..Len(us) /\ o \in Seq(Chunks)
      /\ \A i \in 1..Len(o) : ChunkOK(us, st, o[i])
      /\ Cat(o, NewOf) = KeptUpTo(us, st, p)
  BY NothingBuilt
<1>2. /\ us[p + 1] \in Units /\ p + 1 \in 0..Len(us)
      /\ KeptUpTo(us, st, p) \in Words
      /\ KeptUpTo(us, st, p + 1) = KeptUpTo(us, st, p) \o KeptBy(st)[us[p + 1]]
  BY <1>1, KeptGrows
<1>3. KeptBy(st)[us[p + 1]] = <<>>
  BY <1>2, KeptIsWords
<1>4. KeptUpTo(us, st, p + 1) = KeptUpTo(us, st, p)
  BY <1>2, <1>3, NothingAfter
<1> QED
  BY <1>1, <1>2, <1>4, NothingBuilt

\* A stretch of a unit is a stretch of the body.
LEMMA UnitInside ==
  ASSUME NEW us, NEW st, NEW p, us \in Seq(Units), p \in 0..Len(us), p < Len(us),
         ~(st = "structured" /\ us[p + 1].heading)
  PROVE  Inside(us[p + 1].text, Cat(us, KeptBy(st)))
<1>1. /\ us[p + 1] \in Units /\ p + 1 \in 0..Len(us)
      /\ KeptUpTo(us, st, p) \in Words
      /\ KeptUpTo(us, st, p + 1) = KeptUpTo(us, st, p) \o KeptBy(st)[us[p + 1]]
  BY KeptGrows
<1>2. KeptBy(st)[us[p + 1]] = us[p + 1].text /\ us[p + 1].text \in Words
  BY <1>1, KeptIsWords, TextsAreWords DEF Filled
<1>k. PICK k : k = p + 1
  OBVIOUS
<1>a. PICK a : a = SubSeq(us, 1, k)
  OBVIOUS
<1>b. PICK b : b = SubSeq(us, k + 1, Len(us))
  OBVIOUS
<1>3. a \in Seq(Units) /\ b \in Seq(Units) /\ us = a \o b
  <2>1. k \in 0..Len(us)
    BY <1>1, <1>k
  <2> QED
    BY <1>a, <1>b, <2>1, SeqSplits
<1>4. Cat(us, KeptBy(st)) = Cat(a, KeptBy(st)) \o Cat(b, KeptBy(st)) /\ Cat(b, KeptBy(st)) \in Words
  BY <1>3, KeptIs
<1>5. Cat(a, KeptBy(st)) = KeptUpTo(us, st, p + 1)
  BY <1>a, <1>k DEF KeptUpTo
<1>x. PICK x : x = KeptUpTo(us, st, p)
  OBVIOUS
<1>y. PICK y : y = us[p + 1].text
  OBVIOUS
<1>z. PICK z : z = Cat(b, KeptBy(st))
  OBVIOUS
<1>6. x \in Words /\ y \in Words /\ z \in Words
  BY <1>1, <1>2, <1>4, <1>x, <1>y, <1>z
<1>7. Assocs(x, y, z)
  BY <1>6, AssocOf
<1>8. Cat(us, KeptBy(st)) = x \o (y \o z)
  BY <1>1, <1>2, <1>4, <1>5, <1>7, <1>x, <1>y, <1>z DEF Assocs
<1>9. Inside(y, Cat(us, KeptBy(st)))
  BY <1>6, <1>8 DEF Inside
<1> QED
  BY <1>9, <1>y

\* An over-long unit is cut by itself.
LEMMA BigOK ==
  ASSUME NEW us, NEW st, NEW o, NEW p, PackOK(us, st, o, <<>>, 0, p), p < Len(us),
         ~(st = "structured" /\ us[p + 1].heading)
  PROVE  PackOK(us, st, o \o Cuts(us[p + 1].text, us[p + 1].path, 0), <<>>, 0, p + 1)
<1>1. /\ us \in Seq(Units) /\ p \in 0..Len(us) /\ o \in Seq(Chunks)
      /\ \A i \in 1..Len(o) : ChunkOK(us, st, o[i])
      /\ Cat(o, NewOf) = KeptUpTo(us, st, p)
  BY NothingBuilt
<1>u. PICK u : u = us[p + 1]
  OBVIOUS
<1>2. /\ u \in Units /\ p + 1 \in 0..Len(us) /\ KeptUpTo(us, st, p) \in Words
      /\ KeptUpTo(us, st, p + 1) = KeptUpTo(us, st, p) \o KeptBy(st)[u]
  BY <1>1, <1>u, KeptGrows
<1>3. KeptBy(st)[u] = u.text /\ u.text \in Words /\ u.path \in Seq(Marks)
  <2>1. u.path \in Seq(Marks)
    BY <1>2 DEF Units
  <2> QED
    BY <1>2, <1>u, <2>1, KeptIsWords, TextsAreWords DEF Filled
<1>c. PICK cs : cs = Cuts(u.text, u.path, 0)
  OBVIOUS
<1>4. CutsOK(cs, u.text, u.path, 0)
  <2>1. 0 \in 0..(MAX_WORDS - 1)
    BY ChunkingAssumption
  <2> QED
    BY <1>3, <1>c, <2>1, CutsAre
<1>5. cs \in Seq(Chunks) /\ Cat(cs, NewOf) = u.text
  BY <1>4 DEF CutsOK
<1>6. ASSUME NEW i \in 1..Len(cs) PROVE ChunkOK(us, st, cs[i])
  <2>d. PICK d : d = cs[i]
    OBVIOUS
  <2>1. PieceOf(d, u.text, 0) /\ d.path = u.path
    BY <1>4, <2>d DEF CutsOK
  <2>2. Inside(u.text, Cat(us, KeptBy(st)))
    BY <1>1, <1>u, UnitInside
  <2>3. PICK v \in Words, w \in Words : Cat(us, KeptBy(st)) = v \o (u.text \o w)
    BY <2>2 DEF Inside
  <2>4. PieceOf(d, Cat(us, KeptBy(st)), OVERLAP_WORDS)
    <3>1. 0 \in 0..OVERLAP_WORDS
      BY NothingIs
    <3>x. PICK x : x = u.text
      OBVIOUS
    <3>b. PICK body : body = Cat(us, KeptBy(st))
      OBVIOUS
    <3>2. x \in Words /\ PieceOf(d, x, 0) /\ body = v \o (x \o w)
      BY <1>3, <2>1, <2>3, <3>b, <3>x
    <3>3. PieceOf(d, body, OVERLAP_WORDS)
      BY <3>1, <3>2, PieceWithin
    <3> QED
      BY <3>3, <3>b
  <2>5. ASSUME NEW j \in 1..Len(d.text)
        PROVE  \E k \in 1..Len(us) : \E y \in 1..Len(us[k].text) :
                 d.text[j] = us[k].text[y] /\ d.path = us[k].path
    <3>1. PICK a \in Words, b \in Words : u.text = a \o (d.text \o b)
      BY <2>1 DEF PieceOf
    <3>t. PICK t : t = d.text
      OBVIOUS
    <3>2. a \in Seq(Nat) /\ b \in Seq(Nat) /\ t \in Seq(Nat) /\ j \in 1..Len(t)
      BY <2>1, <2>5, <3>t DEF PieceOf, Chunks, Words
    <3>e. PICK e : e = t \o b
      OBVIOUS
    <3>3. e \in Seq(Nat) /\ Len(e) = Len(t) + Len(b) /\ j \in 1..Len(e) /\ e[j] = t[j]
      <4>1. /\ t \o b \in Seq(Nat) /\ Len(t \o b) = Len(t) + Len(b)
            /\ \A x \in 1..(Len(t) + Len(b)) : (t \o b)[x] = IF x <= Len(t) THEN t[x] ELSE b[x - Len(t)]
        <5>1. t \in Seq(Nat) /\ b \in Seq(Nat)
          BY <3>2
        <5> QED
          BY <5>1, ConcatProperties
      <4>2. Len(t) \in Nat /\ Len(b) \in Nat
        BY <3>2, LenProperties
      <4>3. j \in 1..(Len(t) + Len(b)) /\ j <= Len(t)
        BY <3>2, <4>2
      <4> QED
        BY <3>e, <4>1, <4>3
    <3>4. \E y \in 1..Len(u.text) : u.text[y] = e[j]
      <4>1. /\ a \o e \in Seq(Nat) /\ Len(a \o e) = Len(a) + Len(e)
            /\ \A x \in 1..(Len(a) + Len(e)) : (a \o e)[x] = IF x <= Len(a) THEN a[x] ELSE e[x - Len(a)]
        <5>1. a \in Seq(Nat) /\ e \in Seq(Nat)
          BY <3>2, <3>3
        <5> QED
          BY <5>1, ConcatProperties
      <4>2. Len(a) \in Nat /\ Len(e) \in Nat
        BY <3>2, <3>3, LenProperties
      <4>y. PICK y : y = Len(a) + j
        OBVIOUS
      <4>3. y \in 1..(Len(a) + Len(e)) /\ ~(y <= Len(a)) /\ y - Len(a) = j
        BY <3>3, <4>2, <4>y
      <4>4. (a \o e)[y] = e[j]
        BY <4>1, <4>3
      <4>5. u.text = a \o e
        BY <3>1, <3>e, <3>t
      <4> QED
        BY <4>1, <4>3, <4>4, <4>5
    <3>5. p + 1 \in 1..Len(us)
      <4>1. p \in Nat /\ Len(us) \in Nat
        BY <1>1, LenProperties
      <4> QED
        BY <1>2, <4>1
    <3> QED
      BY <1>u, <2>1, <3>3, <3>4, <3>5, <3>t
  <2>6. ChunkOK(us, st, d)
    BY <2>4, <2>5 DEF ChunkOK
  <2> QED
    BY <2>6, <2>d
<1>e. PICK e : e = o \o cs
  OBVIOUS
<1>7. e \in Seq(Chunks) /\ \A i \in 1..Len(e) : ChunkOK(us, st, e[i])
  <2>1. /\ o \o cs \in Seq(Chunks) /\ Len(o \o cs) = Len(o) + Len(cs)
        /\ \A x \in 1..(Len(o) + Len(cs)) : (o \o cs)[x] = IF x <= Len(o) THEN o[x] ELSE cs[x - Len(o)]
    <3>1. o \in Seq(Chunks) /\ cs \in Seq(Chunks)
      BY <1>1, <1>5
    <3> QED
      BY <3>1, ConcatProperties
  <2>2. Len(o) \in Nat /\ Len(cs) \in Nat
    BY <1>1, <1>5, LenProperties
  <2>3. ASSUME NEW i \in 1..(Len(o) + Len(cs)) PROVE ChunkOK(us, st, e[i])
    <3>1. CASE i <= Len(o)
      <4>1. i \in 1..Len(o) /\ e[i] = o[i]
        BY <1>e, <2>1, <2>2, <3>1
      <4> QED
        BY <1>1, <4>1
    <3>2. CASE ~(i <= Len(o))
      <4>1. i - Len(o) \in 1..Len(cs) /\ e[i] = cs[i - Len(o)]
        <5>1. i - Len(o) \in 1..Len(cs)
          BY <2>2, <3>2
        <5> QED
          BY <1>e, <2>1, <3>2, <5>1
      <4> QED
        BY <1>6, <4>1
    <3> QED
      BY <3>1, <3>2
  <2> QED
    BY <1>e, <2>1, <2>3
<1>8. Cat(e, NewOf) = KeptUpTo(us, st, p + 1)
  <2>1. Cat(e, NewOf) = Cat(o, NewOf) \o Cat(cs, NewOf)
    BY <1>1, <1>5, <1>e, NewsGrow
  <2> QED
    BY <1>1, <1>2, <1>3, <1>5, <2>1
<1>9. PackOK(us, st, e, <<>>, 0, p + 1)
  BY <1>1, <1>2, <1>7, <1>8, NothingBuilt
<1> QED
  BY <1>9, <1>c, <1>e, <1>u

\* _overlap: the trailing units fit the overlap and leave room for the next one.
LEMMA OverlapIs ==
  ASSUME current \in Seq(Units), NEW size \in 0..MAX_WORDS
  PROVE  \E m \in 0..Len(current) :
           /\ Overlap(size) = Last(current, m)
           /\ Len(Text(Last(current, m))) <= OVERLAP_WORDS
           /\ Len(Text(Last(current, m))) + size <= MAX_WORDS
<1>n. PICK n \in Nat : n = Len(current)
  BY LenProperties
<1>b. PICK budget : budget = Smaller(OVERLAP_WORDS, MAX_WORDS - size)
  OBVIOUS
<1>1. budget \in Nat /\ budget <= OVERLAP_WORDS /\ budget + size <= MAX_WORDS
  BY <1>b, NothingIs DEF Smaller
<1>f. PICK fit : fit = {x \in 0..n : Len(Text(Last(current, x))) <= budget}
  OBVIOUS
<1>2. 0 \in fit
  <2>1. Last(current, 0) = <<>>
    BY WholeIs
  <2>2. Len(Text(Last(current, 0))) = 0
    BY <2>1, NothingIs
  <2>3. 0 \in 0..n /\ 0 <= budget
    BY <1>1
  <2> QED
    BY <1>f, <2>2, <2>3
<1>3. \E m \in fit : \A k \in fit : k <= m
  <2>1. fit \subseteq 0..n
    BY <1>f
  <2> QED
    BY <1>2, <2>1, MostOf
<1>m. PICK m : m = CHOOSE x \in fit : \A k \in fit : k <= x
  OBVIOUS
<1>4. m \in fit
  BY <1>3, <1>m, Zenon
<1>5. Overlap(size) = Last(current, m)
  BY <1>b, <1>f, <1>m, <1>n DEF Overlap
<1>6. m \in 0..n /\ Len(Text(Last(current, m))) <= budget
  BY <1>4, <1>f
<1>7. Len(Text(Last(current, m))) \in Nat
  <2>1. Last(current, m) \in Seq(Units)
    BY <1>6, <1>n, LastIs
  <2>2. Text(Last(current, m)) \in Seq(Nat)
    BY <2>1, TextIs DEF Words
  <2> QED
    BY <2>2, LenProperties
<1>8. Len(Text(Last(current, m))) <= OVERLAP_WORDS /\ Len(Text(Last(current, m))) + size <= MAX_WORDS
  <2>1. PICK y \in Nat : y = Len(Text(Last(current, m)))
    BY <1>7
  <2>2. y <= OVERLAP_WORDS /\ y + size <= MAX_WORDS
    BY <1>1, <1>6, <2>1, NothingIs
  <2> QED
    BY <2>1, <2>2
<1> QED
  BY <1>5, <1>6, <1>8, <1>n

\* What packing keeps true, and what packing a unit does to it.
Packing == PackOK(split.units, strategy, out, current, fresh, packed)

LEMMA EmittedIs == Emitted = EmittedOf(out, current, fresh)
BY DEF Emitted, EmittedOf, ChunkOf

LEMMA EmitsAll ==
  ASSUME Packing
  PROVE  PackOK(split.units, strategy, Emitted, <<>>, 0, packed)
<1>1. PackOK(split.units, strategy, out, current, fresh, packed) /\ current \in Seq(Units)
  BY DEF Packing, PackOK
<1>2. 0 \in 0..Len(current) /\ Last(current, 0) = <<>>
  BY <1>1, WholeIs, LenProperties
<1>3. Len(Text(Last(current, 0))) <= OVERLAP_WORDS
  BY <1>2, NothingIs
<1>4. PackOK(split.units, strategy, EmittedOf(out, current, fresh), Last(current, 0), 0, packed)
  BY <1>1, <1>2, <1>3, EmitOK
<1> QED
  BY <1>2, <1>4, EmittedIs

\* Packing a unit: the body grows by it, and nothing is lost or repeated beyond the overlap.
LEMMA PackUnitOK ==
  ASSUME Packing, UnitsOK(split.units, read), PackUnit
  PROVE  Packing' /\ packed' \in 0..Len(split'.units) /\ fresh' \in 0..Len(current')
<1>s. PICK us : us = split.units
  OBVIOUS
<1>t. PICK st : st = strategy
  OBVIOUS
<1>u. PICK u : u = us[packed + 1]
  OBVIOUS
<1>1. /\ PackOK(us, st, out, current, fresh, packed) /\ packed < Len(us)
      /\ \A k \in 1..Len(us) : UnitOK(us, k)
      /\ split' = split /\ strategy' = strategy /\ packed' = packed + 1
  BY <1>s, <1>t DEF Packing, UnitsOK, PackUnit
<1>2. /\ us \in Seq(Units) /\ packed \in 0..Len(us) /\ current \in Seq(Units)
      /\ fresh \in 0..Len(current) /\ Len(Text(current)) <= MAX_WORDS
  BY <1>1 DEF PackOK
<1>3. PackOK(us, st, Emitted, <<>>, 0, packed)
  BY <1>s, <1>t, EmitsAll
<1>4. u \in Units /\ u.text \in Seq(Nat)
  BY <1>1, <1>2, <1>u, KeptGrows, TextsAreWords DEF Filled, Words
<1>z. PICK size : size = Len(u.text)
  OBVIOUS
<1>5. size \in Nat
  BY <1>4, <1>z, LenProperties
<1>c. PICK closes \in BOOLEAN : closes = (st = "structured" /\ u.starts /\ current # <<>>)
  OBVIOUS
<1>b. PICK before : before = IF closes THEN <<>> ELSE current
  OBVIOUS
<1>f. PICK full \in BOOLEAN : full = (before # <<>> /\ Len(Text(before)) + size > MAX_WORDS)
  OBVIOUS
<1>6. IF st = "structured" /\ u.heading
        THEN /\ out' = IF closes THEN Emitted ELSE out
             /\ current' = before
             /\ fresh' = IF closes THEN 0 ELSE fresh
      ELSE IF size > MAX_WORDS
        THEN out' = Emitted \o Pieces(u) /\ current' = <<>> /\ fresh' = 0
        ELSE /\ out' = IF closes \/ full THEN Emitted ELSE out
             /\ current' = Append(IF full THEN Overlap(size) ELSE before, u)
             /\ fresh' = IF closes \/ full THEN 1 ELSE fresh + 1
  BY <1>b, <1>c, <1>f, <1>s, <1>t, <1>u, <1>z DEF PackUnit
<1> DEFINE Next(o, cur, fr) == out' = o /\ current' = cur /\ fresh' = fr /\ PackOK(us, st, o, cur, fr, packed + 1)
<1>7. ASSUME st = "structured", u.heading PROVE \E o, cur, fr : Next(o, cur, fr)
  <2>1. u.starts
    <3>1. packed + 1 \in 1..Len(us)
      <4>1. Len(us) \in Nat
        BY <1>2, LenProperties
      <4> QED
        BY <1>1, <1>2, <4>1
    <3> QED
      BY <1>1, <1>7, <1>u, <3>1 DEF UnitOK
  <2>2. current' = <<>> /\ fresh' = 0 /\ PackOK(us, st, out', <<>>, 0, packed)
    <3>1. CASE closes
      BY <1>3, <1>6, <1>7, <1>b, <3>1
    <3>2. CASE ~closes
      <4>1. current = <<>>
        BY <1>7, <1>c, <2>1, <3>2
      <4>2. fresh = 0
        <5>1. fresh \in 0..0
          BY <1>2, <4>1, NothingIs
        <5> QED
          BY <5>1
      <4>3. out' = out /\ current' = current /\ fresh' = fresh
        BY <1>6, <1>7, <1>b, <3>2
      <4> QED
        BY <1>1, <4>1, <4>2, <4>3
    <3> QED
      BY <3>1, <3>2
  <2>3. PackOK(us, st, out', <<>>, 0, packed + 1)
    BY <1>1, <1>7, <1>u, <2>2, SkipOK
  <2> QED
    BY <2>2, <2>3
<1>8. ASSUME ~(st = "structured" /\ u.heading), size > MAX_WORDS PROVE \E o, cur, fr : Next(o, cur, fr)
  <2>1. out' = Emitted \o Pieces(u) /\ current' = <<>> /\ fresh' = 0
    BY <1>6, <1>8
  <2>2. PackOK(us, st, Emitted \o Cuts(us[packed + 1].text, us[packed + 1].path, 0), <<>>, 0, packed + 1)
    BY <1>1, <1>3, <1>8, <1>u, BigOK
  <2>3. PackOK(us, st, Emitted \o Pieces(u), <<>>, 0, packed + 1)
    BY <1>u, <2>2 DEF Pieces
  <2> QED
    BY <2>1, <2>3
<1>9. ASSUME ~(st = "structured" /\ u.heading), ~(size > MAX_WORDS) PROVE \E o, cur, fr : Next(o, cur, fr)
  <2>1. size <= MAX_WORDS /\ size \in 0..MAX_WORDS
    BY <1>5, <1>9, NothingIs
  <2>2. /\ out' = IF closes \/ full THEN Emitted ELSE out
        /\ current' = Append(IF full THEN Overlap(size) ELSE before, u)
        /\ fresh' = IF closes \/ full THEN 1 ELSE fresh + 1
    BY <1>6, <1>9
  <2>a. ASSUME NEW o, NEW cur, NEW fr, PackOK(us, st, o, cur, fr, packed),
               Len(Text(cur)) + size <= MAX_WORDS
        PROVE  PackOK(us, st, o, Append(cur, u), fr + 1, packed + 1)
    <3>1. Len(Text(cur)) + Len(us[packed + 1].text) <= MAX_WORDS
      BY <1>u, <1>z, <2>a
    <3>2. PackOK(us, st, o, Append(cur, us[packed + 1]), fr + 1, packed + 1)
      BY <1>1, <1>9, <1>u, <2>a, <3>1, AppendOK
    <3> QED
      BY <1>u, <3>2
  <2>3. CASE closes
    <3>1. out' = Emitted /\ current' = Append(<<>>, u) /\ fresh' = 1
      <4>1. before = <<>> /\ ~full
        BY <1>b, <1>f, <2>3
      <4> QED
        BY <2>2, <2>3, <4>1
    <3>2. Len(Text(<<>>)) + size <= MAX_WORDS
      BY <1>5, <2>1, NothingIs
    <3>3. PackOK(us, st, Emitted, Append(<<>>, u), 0 + 1, packed + 1)
      BY <1>3, <2>a, <3>2
    <3>4. 0 + 1 = 1
      OBVIOUS
    <3> QED
      BY <3>1, <3>3, <3>4
  <2>4. CASE ~closes /\ full
    <3>1. out' = Emitted /\ current' = Append(Overlap(size), u) /\ fresh' = 1
      BY <2>2, <2>4
    <3>2. PICK m \in 0..Len(current) :
             /\ Overlap(size) = Last(current, m)
             /\ Len(Text(Last(current, m))) <= OVERLAP_WORDS
             /\ Len(Text(Last(current, m))) + size <= MAX_WORDS
      BY <1>2, <2>1, OverlapIs
    <3>3. PackOK(us, st, EmittedOf(out, current, fresh), Last(current, m), 0, packed)
      BY <1>1, <3>2, EmitOK
    <3>4. PackOK(us, st, Emitted, Overlap(size), 0, packed)
      BY <3>2, <3>3, EmittedIs
    <3>5. PackOK(us, st, Emitted, Append(Overlap(size), u), 0 + 1, packed + 1)
      BY <2>a, <3>2, <3>4
    <3>6. 0 + 1 = 1
      OBVIOUS
    <3> QED
      BY <3>1, <3>5, <3>6
  <2>5. CASE ~closes /\ ~full
    <3>1. out' = out /\ current' = Append(current, u) /\ fresh' = fresh + 1 /\ before = current
      BY <1>b, <2>2, <2>5
    <3>2. Len(Text(current)) + size <= MAX_WORDS
      <4>1. CASE current = <<>>
        <5>1. Len(Text(current)) = 0
          BY <4>1, NothingIs
        <5> QED
          BY <1>5, <2>1, <5>1
      <4>2. CASE current # <<>>
        <5>1. ~(Len(Text(current)) + size > MAX_WORDS)
          BY <1>f, <2>5, <3>1, <4>2
        <5>2. Text(current) \in Seq(Nat)
          BY <1>2, TextIs DEF Words
        <5>3. Len(Text(current)) \in Nat
          BY <5>2, LenProperties
        <5> QED
          BY <1>5, <5>1, <5>3, NothingIs
      <4> QED
        BY <4>1, <4>2
    <3>3. PackOK(us, st, out, Append(current, u), fresh + 1, packed + 1)
      BY <1>1, <2>a, <3>2
    <3> QED
      BY <3>1, <3>3
  <2> QED
    BY <2>3, <2>4, <2>5
<1>10. \E o, cur, fr : Next(o, cur, fr)
  <2> HIDE DEF Next
  <2> QED
    BY <1>7, <1>8, <1>9
<1>11. PackOK(us, st, out', current', fresh', packed + 1)
  BY <1>10
<1>12. packed + 1 \in 0..Len(us) /\ fresh' \in 0..Len(current')
  BY <1>11 DEF PackOK
<1> QED
  BY <1>1, <1>11, <1>12, <1>s, <1>t DEF Packing

(***************************************************************************)
(* The chunker's run                                                       *)
(***************************************************************************)

ChunkInv ==
  /\ SplitInv
  /\ packed \in 0..Len(split.units) /\ fresh \in 0..Len(current)
  /\ chunker = "split" => packed = 0 /\ current = <<>> /\ fresh = 0 /\ out = <<>>
  /\ chunker = "pack" => Packing
  /\ chunker = "done" =>
       /\ out \in Seq(Chunks) /\ Cat(out, NewOf) = Cat(split.units, KeptBy(strategy))
       /\ \A i \in 1..Len(out) : ChunkOK(split.units, strategy, out[i])

LEMMA SplitUnits ==
  ASSUME SplitInv
  PROVE  split.units \in Seq(Units)
BY DEF SplitInv, SplitOK, Splits

LEMMA ChunkStarts == ChunkInit => ChunkInv
<1> SUFFICES ASSUME ChunkInit PROVE ChunkInv
  OBVIOUS
<1>1. SplitInv
  BY SplitStarts
<1>2. /\ packed = 0 /\ current = <<>> /\ fresh = 0 /\ out = <<>> /\ chunker = "split"
      /\ split.units = <<>>
  BY DEF ChunkInit
<1>3. packed \in 0..Len(split.units) /\ fresh \in 0..Len(current)
  BY <1>2, NothingIs
<1> QED
  BY <1>1, <1>2, <1>3 DEF ChunkInv

\* The chunker's steps, one by one.
LEMMA ReadLineKeeps == ChunkInv /\ ReadLine => ChunkInv'
<1> SUFFICES ASSUME ChunkInv, ReadLine PROVE ChunkInv'
  OBVIOUS
<1>1. SplitInv'
  BY ReadLineSplits DEF ChunkInv
<1>2. /\ packed = 0 /\ current = <<>> /\ fresh = 0 /\ out = <<>> /\ chunker = "split"
      /\ UNCHANGED <<packed, current, fresh, out, chunker>>
  BY DEF ChunkInv, ReadLine
<1>3. split'.units \in Seq(Units)
  BY <1>1 DEF SplitInv, SplitOK, Splits
<1>4. packed' \in 0..Len(split'.units) /\ fresh' \in 0..Len(current')
  BY <1>2, <1>3, NothingIs, LenProperties
<1> QED
  BY <1>1, <1>2, <1>4 DEF ChunkInv

LEMMA EndOfTextKeeps == ChunkInv /\ EndOfText => ChunkInv'
<1> SUFFICES ASSUME ChunkInv, EndOfText PROVE ChunkInv'
  OBVIOUS
<1>1. SplitInv'
  BY EndOfTextSplits DEF ChunkInv
<1>2. /\ packed = 0 /\ current = <<>> /\ fresh = 0 /\ out = <<>> /\ chunker' = "pack"
      /\ UNCHANGED <<packed, current, fresh, out, strategy>>
  BY DEF ChunkInv, EndOfText
<1>3. split'.units \in Seq(Units)
  BY <1>1 DEF SplitInv, SplitOK, Splits
<1>4. packed' \in 0..Len(split'.units) /\ fresh' \in 0..Len(current')
  BY <1>2, <1>3, NothingIs, LenProperties
<1>5. Packing'
  <2>1. PackOK(split'.units, strategy', <<>>, <<>>, 0, 0)
    BY <1>3, PackStarts
  <2> QED
    BY <1>2, <2>1 DEF Packing
<1> QED
  BY <1>1, <1>2, <1>4, <1>5 DEF ChunkInv

LEMMA WindowKeeps == ChunkInv /\ Window => ChunkInv'
<1> SUFFICES ASSUME ChunkInv, Window PROVE ChunkInv'
  OBVIOUS
<1>1. /\ SplitInv /\ packed \in 0..Len(split.units) /\ fresh \in 0..Len(current)
      /\ chunker = "pack" /\ strategy = "fixed" /\ chunker' = "done"
      /\ out' = Cuts(Text(split.units), <<>>, OVERLAP_WORDS)
      /\ UNCHANGED <<strategy, left, read, split, packed, current, fresh>>
  BY DEF ChunkInv, Window
<1>2. SplitInv'
  BY <1>1, SplitStays
<1>u. PICK us : us = split.units
  OBVIOUS
<1>3. us \in Seq(Units) /\ Text(us) \in Words /\ <<>> \in Seq(Marks)
  BY <1>1, <1>u, SplitUnits, TextIs, EmptySeq
<1>4. Cat(us, KeptBy("fixed")) = Text(us)
  <2>1. "fixed" = "structured" => \A i \in 1..Len(us) : ~us[i].heading
    OBVIOUS
  <2> QED
    BY <1>3, <2>1, KeptIsText
<1>c. PICK cs : cs = Cuts(Text(us), <<>>, OVERLAP_WORDS)
  OBVIOUS
<1>5. CutsOK(cs, Text(us), <<>>, OVERLAP_WORDS)
  <2>1. OVERLAP_WORDS \in 0..(MAX_WORDS - 1)
    BY ChunkingAssumption
  <2> QED
    BY <1>3, <1>c, <2>1, CutsAre
<1>6. /\ cs \in Seq(Chunks) /\ Cat(cs, NewOf) = Cat(us, KeptBy("fixed"))
      /\ \A i \in 1..Len(cs) : ChunkOK(us, "fixed", cs[i])
  <2>1. cs \in Seq(Chunks) /\ Cat(cs, NewOf) = Text(us)
        /\ \A i \in 1..Len(cs) : PieceOf(cs[i], Text(us), OVERLAP_WORDS)
    BY <1>5 DEF CutsOK
  <2>2. \A i \in 1..Len(cs) : ChunkOK(us, "fixed", cs[i])
    BY <1>4, <2>1 DEF ChunkOK
  <2> QED
    BY <1>4, <2>1, <2>2
<1>7. out' = cs /\ split'.units = us /\ strategy' = "fixed"
  BY <1>1, <1>c, <1>u
<1> QED
  BY <1>1, <1>2, <1>6, <1>7 DEF ChunkInv

LEMMA PackUnitKeeps == ChunkInv /\ PackUnit => ChunkInv'
<1> SUFFICES ASSUME ChunkInv, PackUnit PROVE ChunkInv'
  OBVIOUS
<1>1. /\ SplitInv /\ Packing /\ chunker = "pack"
      /\ UNCHANGED <<strategy, left, read, split, chunker>>
  BY DEF ChunkInv, PackUnit
<1>2. SplitInv'
  BY <1>1, SplitStays
<1>3. UnitsOK(split.units, read)
  BY <1>1, SplitGives
<1>4. Packing' /\ packed' \in 0..Len(split'.units) /\ fresh' \in 0..Len(current')
  BY <1>1, <1>3, PackUnitOK
<1> QED
  BY <1>1, <1>2, <1>4 DEF ChunkInv

LEMMA EndOfUnitsKeeps == ChunkInv /\ EndOfUnits => ChunkInv'
<1> SUFFICES ASSUME ChunkInv, EndOfUnits PROVE ChunkInv'
  OBVIOUS
<1>1. /\ SplitInv /\ Packing /\ packed \in 0..Len(split.units) /\ fresh \in 0..Len(current)
      /\ chunker = "pack" /\ chunker' = "done" /\ out' = Emitted /\ packed = Len(split.units)
      /\ UNCHANGED <<strategy, left, read, split, packed, current, fresh>>
  BY DEF ChunkInv, EndOfUnits
<1>2. SplitInv'
  BY <1>1, SplitStays
<1>3. PackOK(split.units, strategy, Emitted, <<>>, 0, packed)
  BY <1>1, EmitsAll
<1>4. /\ split.units \in Seq(Units) /\ Emitted \in Seq(Chunks)
      /\ \A i \in 1..Len(Emitted) : ChunkOK(split.units, strategy, Emitted[i])
      /\ Cat(Emitted, NewOf) = KeptUpTo(split.units, strategy, packed)
  BY <1>3, NothingBuilt
<1>5. KeptUpTo(split.units, strategy, packed) = Cat(split.units, KeptBy(strategy))
  <2>1. SubSeq(split.units, 1, Len(split.units) - 0) = split.units
    BY <1>4, WholeIs
  <2>2. Len(split.units) - 0 = packed
    BY <1>1
  <2> QED
    BY <2>1, <2>2 DEF KeptUpTo
<1> QED
  BY <1>1, <1>2, <1>4, <1>5 DEF ChunkInv

LEMMA ChunkSteps == ChunkInv /\ [ChunkNext]_chunkVars => ChunkInv'
<1> SUFFICES ASSUME ChunkInv, [ChunkNext]_chunkVars PROVE ChunkInv'
  OBVIOUS
<1>1. CASE UNCHANGED chunkVars
  BY <1>1 DEF chunkVars, ChunkInv, SplitInv, Packing
<1> QED
  BY <1>1, ReadLineKeeps, EndOfTextKeeps, WindowKeeps, PackUnitKeeps, EndOfUnitsKeeps
  DEF ChunkNext

LEMMA ChunkHolds == ChunkSpec => []ChunkInv
BY ChunkStarts, ChunkSteps, PTL DEF ChunkSpec

\* No chunk is without words.
LEMMA OutIs ==
  ASSUME ChunkInv
  PROVE  /\ out \in Seq(Chunks)
         /\ \A i \in 1..Len(out) : ChunkOK(split.units, strategy, out[i])
<1>1. CASE chunker = "split"
  <2>1. out = <<>>
    BY <1>1 DEF ChunkInv
  <2>2. out \in Seq(Chunks) /\ Len(out) = 0
    BY <2>1, EmptySeq
  <2>3. \A i \in 1..Len(out) : FALSE
    BY <2>2
  <2> QED
    BY <2>2, <2>3
<1>2. CASE chunker = "pack"
  BY <1>2 DEF ChunkInv, Packing, PackOK
<1>3. CASE chunker = "done"
  BY <1>3 DEF ChunkInv
<1> QED
  BY <1>1, <1>2, <1>3 DEF ChunkInv, SplitInv

\* What a chunker is: its phases, what it has read and packed, and no chunk without words
\* (chunking.py:47-176).
THEOREM ChunkTypes == ChunkSpec => []ChunkTypeOK
<1>1. ASSUME ChunkInv PROVE ChunkTypeOK
  <2>1. out \in Seq(Chunks) /\ \A i \in 1..Len(out) : ChunkOK(split.units, strategy, out[i])
    BY <1>1, OutIs
  <2>2. DOMAIN out = 1..Len(out)
    BY <2>1, LenProperties
  <2>3. ASSUME NEW i \in DOMAIN out PROVE Len(out[i].text) > 0
    <3>1. out[i].text \in Seq(Nat) /\ out[i].text # <<>>
      BY <2>1, <2>2 DEF ChunkOK, PieceOf, Chunks, Words
    <3> QED
      BY <3>1, LenProperties, EmptySeq
  <2> QED
    BY <1>1, <2>3 DEF ChunkInv, SplitInv, ChunkTypeOK
<1> QED
  BY <1>1, ChunkHolds, PTL

Within(t, body) == \E k \in 0..(Len(body) - Len(t)) : t = SubSeq(body, k + 1, k + Len(t))

\* A middle of three parts is a stretch of the whole.
LEMMA MiddleIs ==
  ASSUME NEW a \in Words, NEW t \in Words, NEW b \in Words
  PROVE  Within(t, a \o (t \o b))
<1> PICK body : body = a \o (t \o b)
  OBVIOUS
<1>1. a \in Seq(Nat) /\ t \in Seq(Nat) /\ b \in Seq(Nat)
  BY DEF Words
<1>d. PICK d : d = t \o b
  OBVIOUS
<1>2. /\ d \in Seq(Nat) /\ Len(d) = Len(t) + Len(b)
      /\ \A i \in 1..(Len(t) + Len(b)) : d[i] = IF i <= Len(t) THEN t[i] ELSE b[i - Len(t)]
  BY <1>1, <1>d, ConcatProperties
<1>e. PICK e : e = a \o d
  OBVIOUS
<1>3. /\ e \in Seq(Nat) /\ Len(e) = Len(a) + Len(d)
      /\ \A i \in 1..(Len(a) + Len(d)) : e[i] = IF i <= Len(a) THEN a[i] ELSE d[i - Len(a)]
  <2>1. a \in Seq(Nat) /\ d \in Seq(Nat)
    BY <1>1, <1>2
  <2>2. /\ a \o d \in Seq(Nat) /\ Len(a \o d) = Len(a) + Len(d)
        /\ \A i \in 1..(Len(a) + Len(d)) : (a \o d)[i] = IF i <= Len(a) THEN a[i] ELSE d[i - Len(a)]
    BY <2>1, ConcatProperties
  <2> QED
    BY <1>e, <2>2
<1>x. PICK x \in Nat : x = Len(a)
  BY <1>1, LenProperties
<1>y. PICK y \in Nat : y = Len(t)
  BY <1>1, LenProperties
<1>z. PICK z \in Nat : z = Len(b)
  BY <1>1, LenProperties
<1>4. Len(e) = x + (y + z) /\ x \in 0..Len(e) /\ x + y \in x..Len(e)
  <2>1. Len(e) = x + (y + z)
    BY <1>2, <1>3, <1>x, <1>y, <1>z
  <2> QED
    BY <2>1
<1>s. PICK s : s = SubSeq(e, x + 1, x + y)
  OBVIOUS
<1>5. s \in Seq(Nat) /\ Len(s) = y /\ \A i \in 1..y : s[i] = e[x + i]
  <2>1. /\ SubSeq(e, x + 1, x + y) \in Seq(Nat) /\ Len(SubSeq(e, x + 1, x + y)) = (x + y) - x
        /\ \A i \in 1..((x + y) - x) : SubSeq(e, x + 1, x + y)[i] = e[x + i]
    <3>1. e \in Seq(Nat) /\ x \in 0..Len(e) /\ x + y \in x..Len(e)
      BY <1>3, <1>4
    <3> QED
      BY <3>1, SubSeqIs
  <2>2. (x + y) - x = y
    OBVIOUS
  <2> QED
    BY <1>s, <2>1, <2>2
<1>6. ASSUME NEW i \in 1..y PROVE s[i] = t[i]
  <2>1. x + i \in 1..(x + (y + z)) /\ ~(x + i <= x) /\ (x + i) - x = i /\ i \in 1..(y + z) /\ i <= y
    OBVIOUS
  <2>2. e[x + i] = d[i]
    <3>1. Len(a) + Len(d) = x + (y + z)
      BY <1>2, <1>x, <1>y, <1>z
    <3> QED
      BY <1>3, <1>x, <2>1, <3>1
  <2>3. d[i] = t[i]
    BY <1>2, <1>y, <1>z, <2>1
  <2> QED
    BY <1>5, <2>2, <2>3
<1>7. s = t
  BY <1>1, <1>5, <1>6, <1>y, SeqEqual
<1>8. e = body
  BY <1>d, <1>e
<1>9. x \in 0..(Len(body) - Len(t)) /\ t = SubSeq(body, x + 1, x + Len(t))
  <2>1. x \in 0..(Len(e) - y)
    BY <1>4
  <2> QED
    BY <1>7, <1>8, <1>s, <1>y, <2>1
<1> QED
  BY <1>9 DEF Within

\* The invariant gives the properties, once the chunker is done.
LEMMA ChunksAreCover == ChunkInv => ChunksCover
<1> SUFFICES ASSUME ChunkInv, chunker = "done" PROVE ChunksCover
  BY DEF ChunksCover
<1>1. /\ SplitInv /\ out \in Seq(Chunks)
      /\ Cat(out, NewOf) = Cat(split.units, KeptBy(strategy))
      /\ \A i \in 1..Len(out) : ChunkOK(split.units, strategy, out[i])
  BY DEF ChunkInv
<1>2. UnitsOK(split.units, read)
  BY <1>1, SplitGives
<1>3. Text(split.units) = [w \in 1..read |-> w] /\ split.units \in Seq(Units)
  BY <1>2 DEF UnitsOK, Upto
<1>4. DOMAIN out = 1..Len(out) /\ \A i \in 1..Len(out) : out[i] \in Chunks
  BY <1>1, LenProperties, ElementOfSeq
<1>b. Body = Cat(split.units, KeptBy(strategy))
  BY <1>3, BodyIs
<1>5. Joined([i \in DOMAIN out |-> out[i].new]) = Body
  <2>1. \A i \in DOMAIN out : NewOf[out[i]] = out[i].new
    BY <1>4 DEF NewOf
  <2>2. [i \in DOMAIN out |-> out[i].new] = Img(out, NewOf)
    BY <2>1 DEF Img
  <2> QED
    BY <1>1, <1>b, <2>2 DEF Cat
<1>6. ASSUME NEW i \in DOMAIN out
      PROVE  LET c == out[i]
                 repeated == SubSeq(c.text, 1, Len(c.text) - Len(c.new))
             IN /\ Len(c.text) <= MAX_WORDS
                /\ Len(repeated) <= OVERLAP_WORDS
                /\ c.text = repeated \o c.new
                /\ \E k \in 0..(Len(Body) - Len(c.text)) : c.text = SubSeq(Body, k + 1, k + Len(c.text))
  <2>c. PICK c : c = out[i]
    OBVIOUS
  <2>1. PieceOf(c, Body, OVERLAP_WORDS)
    BY <1>1, <1>4, <1>6, <1>b, <2>c DEF ChunkOK
  <2>2. /\ c \in Chunks /\ Len(c.text) <= MAX_WORDS /\ c.text \in Words /\ c.new \in Words
        /\ \E x \in Words : Len(x) <= OVERLAP_WORDS /\ c.text = x \o c.new
        /\ \E a, b \in Words : Body = a \o (c.text \o b)
    BY <2>1 DEF PieceOf, Chunks
  <2>3. PICK x \in Words : Len(x) <= OVERLAP_WORDS /\ c.text = x \o c.new
    BY <2>2
  <2>n. PICK n : n = c.new
    OBVIOUS
  <2>4. /\ Len(x \o n) = Len(x) + Len(n) /\ SubSeq(x \o n, 1, Len(x)) = x
        /\ Len(x) \in Nat /\ Len(n) \in Nat
    <3>1. x \in Seq(Nat) /\ n \in Seq(Nat)
      BY <2>2, <2>n DEF Words
    <3>2. /\ x \o n \in Seq(Nat) /\ Len(x \o n) = Len(x) + Len(n)
          /\ SubSeq(x \o n, 1, Len(x)) = x /\ SubSeq(x \o n, Len(x) + 1, Len(x \o n)) = n
      BY <3>1, PartsOf
    <3> QED
      BY <3>1, <3>2, LenProperties
  <2>5. Len(x \o n) - Len(n) = Len(x)
    BY <2>4
  <2>6. SubSeq(c.text, 1, Len(c.text) - Len(c.new)) = x
    BY <2>3, <2>4, <2>5, <2>n
  <2>t. PICK t \in Words : t = c.text
    BY <2>2
  <2>7. \E k \in 0..(Len(Body) - Len(t)) : t = SubSeq(Body, k + 1, k + Len(t))
    <3>1. PICK a \in Words, b \in Words : Body = a \o (t \o b)
      BY <2>2, <2>t
    <3>2. PICK body : body = Body
      OBVIOUS
    <3>3. body = a \o (t \o b)
      BY <3>1, <3>2
    <3>4. Within(t, a \o (t \o b))
      BY MiddleIs
    <3>5. Within(t, body)
      BY <3>3, <3>4
    <3> QED
      BY <3>2, <3>5 DEF Within
  <2> QED
    BY <2>2, <2>3, <2>6, <2>7, <2>c, <2>t
<1> QED
  BY <1>3, <1>5, <1>6 DEF ChunksCover

LEMMA SectionsAreKept == ChunkInv => OneSectionPerChunk
<1> SUFFICES ASSUME ChunkInv, chunker = "done", strategy = "structured",
                    NEW i \in DOMAIN out, NEW w \in DOMAIN out[i].text
             PROVE  {out[i].path[k].at : k \in DOMAIN out[i].path} = PathAt(out[i].text[w])
  BY DEF OneSectionPerChunk
<1>1. /\ SplitInv /\ out \in Seq(Chunks)
      /\ \A x \in 1..Len(out) : ChunkOK(split.units, strategy, out[x])
  BY DEF ChunkInv
<1>2. UnitsOK(split.units, read)
  BY <1>1, SplitGives
<1>3. i \in 1..Len(out) /\ out[i] \in Chunks
  BY <1>1, LenProperties, ElementOfSeq
<1>4. w \in 1..Len(out[i].text)
  <2>1. out[i].text \in Seq(Nat)
    BY <1>3 DEF Chunks, Words
  <2> QED
    BY <2>1, LenProperties
<1>5. PICK k \in 1..Len(split.units) : \E y \in 1..Len(split.units[k].text) :
         out[i].text[w] = split.units[k].text[y] /\ out[i].path = split.units[k].path
  BY <1>1, <1>3, <1>4 DEF ChunkOK
<1>6. PICK y \in 1..Len(split.units[k].text) :
         out[i].text[w] = split.units[k].text[y] /\ out[i].path = split.units[k].path
  BY <1>5
<1>7. {split.units[k].path[m].at : m \in DOMAIN split.units[k].path}
        = PathAt(split.units[k].text[y])
  BY <1>2, PathsAreRight
<1> QED
  BY <1>6, <1>7

\* Whatever the lines, the chunk size, the overlap and the strategy: chunked, every word of the
\* text is in a unit and every one to chunk is new in exactly one chunk, in the order of the text;
\* no chunk is too long, and what it repeats is at most the overlap and directly precedes its new
\* words (chunking.py:47-176).
THEOREM NothingLost == ChunkSpec => []ChunksCover
BY ChunksAreCover, ChunkHolds, PTL

\* A structured chunk mixes no sections: its path has the headings in force at every word of it,
\* the repeated ones included (chunking.py:100-106, :144-148).
THEOREM SectionsKept == ChunkSpec => []OneSectionPerChunk
BY SectionsAreKept, ChunkHolds, PTL

(***************************************************************************)
(* The parts of the run, side by side                                      *)
(***************************************************************************)

knowledgeVars == <<part, cacheVars, docVars, chunkVars, retrievalVars, agentVars>>
KnowledgeSpec == KnowledgeInit /\ [][KnowledgeNext]_knowledgeVars

LEMMA KnowledgeStarts ==
  KnowledgeInit => CacheInit /\ DocInit /\ ChunkInit /\ RetrievalInit /\ AgentInit
BY DEF KnowledgeInit

LEMMA KnowledgeSteps ==
  [KnowledgeNext]_knowledgeVars =>
    /\ [CacheNext]_cacheVars /\ [DocNext]_docVars /\ [ChunkNext]_chunkVars
    /\ [RetrievalNext]_retrievalVars /\ [AgentNext]_agentVars
BY DEF KnowledgeNext, knowledgeVars

\* Wherever the best few of what was found are kept, nothing better is left out: by the retriever,
\* and by the agent's merge of several searches, which share nothing (retrieval.py:59-82,
\* nodes.py:123-131).
THEOREM BestOfBoth == KnowledgeSpec => []BestKept
<1>1. KnowledgeSpec => RetrievalSpec /\ AgentSpec
  BY KnowledgeStarts, KnowledgeSteps, PTL DEF KnowledgeSpec, RetrievalSpec, AgentSpec
<1>2. BestAreReturned /\ BestPassagesKept => BestKept
  BY DEF BestKept
<1> QED
  BY <1>1, <1>2, BestReturned, MergeKeepsBest, PTL

\* Chunks repeat, lose and mix nothing, whatever else the gateway does (chunking.py:47-176).
THEOREM FaithfulChunks == KnowledgeSpec => []ChunksFaithful
<1>1. KnowledgeSpec => ChunkSpec
  BY KnowledgeStarts, KnowledgeSteps, PTL DEF KnowledgeSpec, ChunkSpec
<1>2. ChunksCover /\ OneSectionPerChunk => ChunksFaithful
  BY DEF ChunksFaithful
<1> QED
  BY <1>1, <1>2, NothingLost, SectionsKept, PTL

\* The five components keep their types and accounts next to one another.
THEOREM TypesOfAll == KnowledgeSpec => []KnowledgeTypes
<1>1. KnowledgeSpec => CacheSpec /\ DocSpec /\ ChunkSpec /\ RetrievalSpec /\ AgentSpec
  BY KnowledgeStarts, KnowledgeSteps, PTL
     DEF KnowledgeSpec, CacheSpec, DocSpec, ChunkSpec, RetrievalSpec, AgentSpec
<1>2. CacheTypeOK /\ DocTypeOK /\ ChunkTypeOK /\ RetrievalTypeOK /\ AgentTypeOK => KnowledgeTypes
  BY DEF KnowledgeTypes
<1> QED
  BY <1>1, <1>2, CacheTypes, StoresTyped, ChunkTypes, RetrievalTypes, AgentTypes, PTL
=============================================================================
