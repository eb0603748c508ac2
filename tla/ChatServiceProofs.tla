------------------------- MODULE ChatServiceProofs -------------------------
(***************************************************************************)
(* Billing and caching of chat requests, for any number of requests,       *)
(* prompts and words.  Requests meet in the cache only: the invariant is   *)
(* one of the cache and one of each request by itself.                     *)
(***************************************************************************)
EXTENDS ChatService, TLAPS

Begun  == {"idle", "lookup", "call"}
Before == Begun \cup InTry \cup {"store", "meter"}

\* What an answer is, by where it came from and how far it has got.
Answered(r, q) ==
  /\ q.gone # "no" => q.at = "done"
  /\ q.fate \in {"cached", "answered"} => q.shown = WORDS
  /\ q.fate = "answered" => q.made = WORDS
  /\ q.fate \in {"cached", "failed", "client_error"} => q.made = 0
  /\ q.at \in Begun => q.fate = "none" /\ q.made = 0
  /\ q.at \in InTry => r \in Streams /\ q.made > 0 /\ q.shown = q.made /\ q.fate = "none"
  /\ q.at = "succeed" => q.made = WORDS
  /\ q.at = "store" => q.fate = "answered"
  /\ q.at = "meter" => q.fate \in {"cached", "answered", "broken"}
  /\ q.at = "replay" => q.fate = "cached"
  /\ q.at = "final" => q.fate \in {"answered", "broken"}
  /\ q.at \in {"replay", "final"} => r \in Streams

Priced(q) ==
  /\ q.priced <= q.made
  /\ q.at = "first" => q.made = 1 /\ q.priced = 0
  /\ q.at # "first" /\ q.gone # "first" => q.priced = q.made

\* What is on the ledger (l), with the billing task (w), for a request.
Billed(r, q, l, w) ==
  /\ l.times <= 1 /\ l.words <= q.made
  /\ q.at \in Before => l.times = 0 /\ l.words = 0 /\ w = 0 /\ ~q.raised
  /\ q.at \in {"tell", "final", "replay"}
       => w = 0 /\ (q.raised => r \notin Streams) /\ (q.raised \/ l.words = q.made)
  /\ w > 0 => q.at = "done" /\ q.gone # "no" /\ l.times = 0 /\ l.words = 0 /\ w = q.made
  /\ q.at = "done" /\ w = 0 /\ ~Lost(q) => l.words = q.made

\* What the rollout was told (t) of a request.
Told(q, t) ==
  /\ q.at \in Before \cup {"tell", "replay"} => t.ok = 0 /\ t.error = 0
  /\ t.ok + t.error <= 1
  /\ q.at \in {"final", "done"} /\ q.gone = "no" /\ ~q.raised /\ q.fate # "none"
       => IF q.fate \in {"cached", "answered"} THEN t.ok = 1 ELSE t.error = 1

Charges  == [times : Nat, words : Nat]
Outcomes == [ok : Nat, error : Nat]

Sound(r, q, l, w, t) ==
  /\ q \in Request /\ l \in Charges /\ w \in 0..WORDS /\ t \in Outcomes
  /\ Answered(r, q) /\ Priced(q) /\ Billed(r, q, l, w) /\ Told(q, t)

Tables == /\ req \in [Requests -> Request] /\ ledger \in [Requests -> Charges]
          /\ later \in [Requests -> 0..WORDS] /\ told \in [Requests -> Outcomes]

\* Only whole answers are in the cache, and every request is sound.
IInv ==
  /\ cache \in [Prompts -> SUBSET {WORDS}]
  /\ Tables
  /\ \A r \in Requests : Sound(r, req[r], ledger[r], later[r], told[r])

-----------------------------------------------------------------------------
\* The state of one request may be replaced by any sound one.
LEMMA Replaced ==
  ASSUME IInv, NEW r \in Requests, NEW q, NEW l, NEW w, NEW t,
         Sound(r, q, l, w, t),
         req' = [req EXCEPT ![r] = q], ledger' = [ledger EXCEPT ![r] = l],
         later' = [later EXCEPT ![r] = w], told' = [told EXCEPT ![r] = t],
         cache' \in [Prompts -> SUBSET {WORDS}]
  PROVE  IInv'
<1>1. Tables'
  BY DEF IInv, Tables, Sound
<1>2. ASSUME NEW u \in Requests
      PROVE  Sound(u, req[u], ledger[u], later[u], told[u])'
  <2>1. CASE u = r
    <3>1. req'[u] = q /\ ledger'[u] = l /\ later'[u] = w /\ told'[u] = t
      BY <2>1 DEF IInv, Tables
    <3> QED
      BY <2>1, <3>1 DEF Sound, Answered, Priced, Billed, Told, Lost
  <2>2. CASE u # r
    <3>1. /\ req'[u] = req[u] /\ ledger'[u] = ledger[u]
          /\ later'[u] = later[u] /\ told'[u] = told[u]
      BY <2>2 DEF IInv, Tables
    <3>2. Sound(u, req[u], ledger[u], later[u], told[u])
      BY DEF IInv
    <3> QED
      BY <3>1, <3>2 DEF Sound, Answered, Priced, Billed, Told, Lost
  <2> QED
    BY <2>1, <2>2
<1> QED
  BY <1>1, <1>2 DEF IInv

\* A step that only moves a request on.
LEMMA MovedOn ==
  ASSUME IInv, NEW r \in Requests, NEW q, Step(r, q), UNCHANGED <<cache, ledger, later, told>>,
         Sound(r, q, ledger[r], later[r], told[r])
  PROVE  IInv'
<1> DEFINE l == ledger[r] w == later[r] t == told[r]
<1>1. /\ ledger' = [ledger EXCEPT ![r] = l] /\ later' = [later EXCEPT ![r] = w]
      /\ told' = [told EXCEPT ![r] = t]
  BY DEF IInv, Tables
<1>2. cache' \in [Prompts -> SUBSET {WORDS}]
  BY DEF IInv
<1>3. Sound(r, q, l, w, t) /\ req' = [req EXCEPT ![r] = q]
  BY DEF Step
<1> HIDE DEF l, w, t
<1> QED
  BY <1>1, <1>2, <1>3, Replaced

\* A step that bills a request.
LEMMA Charged ==
  ASSUME IInv, NEW r \in Requests, NEW q, NEW n \in Nat, NEW w,
         Step(r, q), Charge(r, n), later' = [later EXCEPT ![r] = w], UNCHANGED <<cache, told>>,
         Sound(r, q, [times |-> ledger[r].times + 1, words |-> ledger[r].words + n], w, told[r])
  PROVE  IInv'
<1> DEFINE t == told[r]
           m == [times |-> ledger[r].times + 1, words |-> ledger[r].words + n]
<1>1. told' = [told EXCEPT ![r] = t] /\ cache' \in [Prompts -> SUBSET {WORDS}]
  BY DEF IInv, Tables
<1>2. Sound(r, q, m, w, t) /\ req' = [req EXCEPT ![r] = q]
  BY DEF Step
<1>3. ledger' = [ledger EXCEPT ![r] = m]
  BY DEF Charge, IInv, Tables
<1> HIDE DEF t, m
<1> QED
  BY <1>1, <1>2, <1>3, Replaced

\* A step that ends a request without billing it here.
LEMMA Uncharged ==
  ASSUME IInv, NEW r \in Requests, NEW q, NEW w,
         Step(r, q), later' = [later EXCEPT ![r] = w], UNCHANGED <<cache, ledger, told>>,
         Sound(r, q, ledger[r], w, told[r])
  PROVE  IInv'
<1> DEFINE t == told[r] l == ledger[r]
<1>1. /\ told' = [told EXCEPT ![r] = t] /\ ledger' = [ledger EXCEPT ![r] = l]
      /\ cache' \in [Prompts -> SUBSET {WORDS}]
  BY DEF IInv, Tables
<1>2. Sound(r, q, l, w, t) /\ req' = [req EXCEPT ![r] = q]
  BY DEF Step
<1> HIDE DEF t, l
<1> QED
  BY <1>1, <1>2, Replaced

-----------------------------------------------------------------------------
LEMMA Initially == Init => IInv
<1> SUFFICES ASSUME Init PROVE IInv
  OBVIOUS
<1>1. cache \in [Prompts -> SUBSET {WORDS}] /\ Tables
  BY WordsAssumption
     DEF Init, Tables, Request, NewRequest, Locations, Charges, Outcomes
<1>2. ASSUME NEW r \in Requests PROVE Sound(r, req[r], ledger[r], later[r], told[r])
  <2>1. /\ req[r] = NewRequest /\ ledger[r] = [times |-> 0, words |-> 0]
        /\ later[r] = 0 /\ told[r] = [ok |-> 0, error |-> 0]
    BY DEF Init
  <2>2. req[r] \in Request /\ ledger[r] \in Charges /\ later[r] \in 0..WORDS /\ told[r] \in Outcomes
    BY <1>1 DEF Tables
  <2> QED
    BY <2>1, <2>2
       DEF Sound, NewRequest, Answered, Priced, Billed, Told, Begun, Before, InTry, Lost
<1> QED
  BY <1>1, <1>2 DEF IInv

\* What a leaf about an action starts from.
LEMMA Given ==
  ASSUME IInv, NEW r \in Requests
  PROVE  /\ Sound(r, req[r], ledger[r], later[r], told[r])
         /\ req[r] \in Request /\ req[r].at \in Locations
BY DEF IInv, Sound, Request

LEMMA Early ==
  ASSUME IInv, NEW r \in Requests, Ask(r) \/ Hit(r) \/ Miss(r) \/ Reject(r) \/ ClientError(r)
  PROVE  IInv'
<1> USE DEF Locations, Begun, Before, InTry, Lost
<1>1. ASSUME Ask(r) PROVE IInv'
  <2>0. PICK a \in {"lookup", "call", "done"} : Step(r, [req[r] EXCEPT !.at = a])
    BY <1>1 DEF Ask
  <2> DEFINE q == [req[r] EXCEPT !.at = a]
  <2>1. Step(r, q) /\ UNCHANGED <<cache, ledger, later, told>>
    BY <1>1, <2>0 DEF Ask
  <2>3. /\ q \in Request
        /\ q.at = a
        /\ q.fate = req[r].fate /\ q.made = req[r].made /\ q.priced = req[r].priced
        /\ q.shown = req[r].shown /\ q.raised = req[r].raised /\ q.gone = req[r].gone
    BY <1>1, <2>0, Given DEF Ask, Request, Sound, Answered
  <2> HIDE DEF q
  <2>4. Answered(r, q)
    BY <1>1, <2>3, Given DEF Ask, Request, Sound, Answered
  <2>5. Priced(q)
    BY <1>1, <2>3, Given DEF Ask, Request, Sound, Answered, Priced
  <2>6. Billed(r, q, ledger[r], later[r])
    BY <1>1, <2>3, Given DEF Ask, Request, Sound, Answered, Billed
  <2>7. Told(q, told[r])
    BY <1>1, <2>3, Given DEF Ask, Request, Sound, Answered, Told
  <2> QED
    BY <2>1, <2>3, <2>4, <2>5, <2>6, <2>7, Given, MovedOn DEF Sound
<1>2. ASSUME Hit(r) PROVE IInv'
  <2>0. PICK n \in cache[Prompt[r]] : Step(r, [req[r] EXCEPT !.at = "meter", !.fate = "cached", !.shown = n])
    BY <1>2 DEF Hit
  <2> DEFINE q == [req[r] EXCEPT !.at = "meter", !.fate = "cached", !.shown = n]
  <2>1. Step(r, q) /\ UNCHANGED <<cache, ledger, later, told>>
    BY <1>2, <2>0 DEF Hit
  <2>2. n = WORDS /\ WORDS \in Nat /\ n \in 0..WORDS
    BY <2>0, PromptAssumption, WordsAssumption DEF IInv
  <2>3. /\ q \in Request
        /\ q.at = "meter"
        /\ q.fate = "cached"
        /\ q.shown = n
        /\ q.made = req[r].made /\ q.priced = req[r].priced /\ q.raised = req[r].raised
        /\ q.gone = req[r].gone
    BY <1>2, <2>0, <2>2, Given DEF Hit, Request, Sound, Answered
  <2> HIDE DEF q
  <2>4. Answered(r, q)
    BY <1>2, <2>2, <2>3, Given DEF Hit, Request, Sound, Answered
  <2>5. Priced(q)
    BY <1>2, <2>2, <2>3, Given DEF Hit, Request, Sound, Answered, Priced
  <2>6. Billed(r, q, ledger[r], later[r])
    BY <1>2, <2>2, <2>3, Given DEF Hit, Request, Sound, Answered, Billed
  <2>7. Told(q, told[r])
    BY <1>2, <2>2, <2>3, Given DEF Hit, Request, Sound, Answered, Told
  <2> QED
    BY <2>1, <2>3, <2>4, <2>5, <2>6, <2>7, Given, MovedOn DEF Sound
<1>3. ASSUME Miss(r) PROVE IInv'
  <2> DEFINE q == [req[r] EXCEPT !.at = "call"]
  <2>1. Step(r, q) /\ UNCHANGED <<cache, ledger, later, told>>
    BY <1>3 DEF Miss
  <2>3. /\ q \in Request
        /\ q.at = "call"
        /\ q.fate = req[r].fate /\ q.made = req[r].made /\ q.priced = req[r].priced
        /\ q.shown = req[r].shown /\ q.raised = req[r].raised /\ q.gone = req[r].gone
    BY <1>3, Given DEF Miss, Request, Sound, Answered
  <2> HIDE DEF q
  <2>4. Answered(r, q)
    BY <1>3, <2>3, Given DEF Miss, Request, Sound, Answered
  <2>5. Priced(q)
    BY <1>3, <2>3, Given DEF Miss, Request, Sound, Answered, Priced
  <2>6. Billed(r, q, ledger[r], later[r])
    BY <1>3, <2>3, Given DEF Miss, Request, Sound, Answered, Billed
  <2>7. Told(q, told[r])
    BY <1>3, <2>3, Given DEF Miss, Request, Sound, Answered, Told
  <2> QED
    BY <2>1, <2>3, <2>4, <2>5, <2>6, <2>7, Given, MovedOn DEF Sound
<1>4. ASSUME Reject(r) PROVE IInv'
  <2> DEFINE q == [req[r] EXCEPT !.at = "tell", !.fate = "failed"]
  <2>1. Step(r, q) /\ UNCHANGED <<cache, ledger, later, told>>
    BY <1>4 DEF Reject
  <2>3. /\ q \in Request
        /\ q.at = "tell"
        /\ q.fate = "failed"
        /\ q.made = req[r].made /\ q.priced = req[r].priced /\ q.shown = req[r].shown
        /\ q.raised = req[r].raised /\ q.gone = req[r].gone
    BY <1>4, Given DEF Reject, Request, Sound, Answered
  <2> HIDE DEF q
  <2>4. Answered(r, q)
    BY <1>4, <2>3, Given DEF Reject, Request, Sound, Answered
  <2>5. Priced(q)
    BY <1>4, <2>3, Given DEF Reject, Request, Sound, Answered, Priced
  <2>6. Billed(r, q, ledger[r], later[r])
    BY <1>4, <2>3, Given DEF Reject, Request, Sound, Answered, Billed
  <2>7. Told(q, told[r])
    BY <1>4, <2>3, Given DEF Reject, Request, Sound, Answered, Told
  <2> QED
    BY <2>1, <2>3, <2>4, <2>5, <2>6, <2>7, Given, MovedOn DEF Sound
<1>5. ASSUME ClientError(r) PROVE IInv'
  <2> DEFINE q == [req[r] EXCEPT !.at = "tell", !.fate = "client_error"]
  <2>1. Step(r, q) /\ UNCHANGED <<cache, ledger, later, told>>
    BY <1>5 DEF ClientError
  <2>3. /\ q \in Request
        /\ q.at = "tell"
        /\ q.fate = "client_error"
        /\ q.made = req[r].made /\ q.priced = req[r].priced /\ q.shown = req[r].shown
        /\ q.raised = req[r].raised /\ q.gone = req[r].gone
    BY <1>5, Given DEF ClientError, Request, Sound, Answered
  <2> HIDE DEF q
  <2>4. Answered(r, q)
    BY <1>5, <2>3, Given DEF ClientError, Request, Sound, Answered
  <2>5. Priced(q)
    BY <1>5, <2>3, Given DEF ClientError, Request, Sound, Answered, Priced
  <2>6. Billed(r, q, ledger[r], later[r])
    BY <1>5, <2>3, Given DEF ClientError, Request, Sound, Answered, Billed
  <2>7. Told(q, told[r])
    BY <1>5, <2>3, Given DEF ClientError, Request, Sound, Answered, Told
  <2> QED
    BY <2>1, <2>3, <2>4, <2>5, <2>6, <2>7, Given, MovedOn DEF Sound
<1> QED
  BY <1>1, <1>2, <1>3, <1>4, <1>5

LEMMA Answers ==
  ASSUME IInv, NEW r \in Requests,
         Answer(r) \/ Open(r) \/ ReadOn(r) \/ Delta(r) \/ End(r) \/ Succeed(r) \/ Break(r) \/ Interrupt(r)
  PROVE  IInv'
<1> USE DEF Locations, Begun, Before, InTry, Lost
<1>1. ASSUME Answer(r) PROVE IInv'
  <2> DEFINE q == [req[r] EXCEPT !.at = IF Stores(r, "answered") THEN "store" ELSE "meter",
                                !.fate = "answered",
                                !.made = WORDS,
                                !.priced = WORDS,
                                !.shown = WORDS]
  <2>1. Step(r, q) /\ UNCHANGED <<cache, ledger, later, told>>
    BY <1>1 DEF Answer
  <2>2. WORDS \in 0..WORDS
    BY WordsAssumption
  <2>3. /\ q \in Request
        /\ q.at = IF Stores(r, "answered") THEN "store" ELSE "meter"
        /\ q.fate = "answered"
        /\ q.made = WORDS
        /\ q.priced = WORDS
        /\ q.shown = WORDS
        /\ q.raised = req[r].raised /\ q.gone = req[r].gone
    BY <1>1, <2>2, Given, WordsAssumption DEF Answer, Request, Sound, Answered
  <2> HIDE DEF q
  <2>4. Answered(r, q)
    BY <1>1, <2>2, <2>3, Given, WordsAssumption DEF Answer, Request, Sound, Answered
  <2>5. Priced(q)
    BY <1>1, <2>2, <2>3, Given, WordsAssumption DEF Answer, Request, Sound, Answered, Priced
  <2>6. Billed(r, q, ledger[r], later[r])
    BY <1>1, <2>2, <2>3, Given, WordsAssumption DEF Answer, Request, Sound, Answered, Billed
  <2>7. Told(q, told[r])
    BY <1>1, <2>2, <2>3, Given, WordsAssumption DEF Answer, Request, Sound, Answered, Told
  <2> QED
    BY <2>1, <2>3, <2>4, <2>5, <2>6, <2>7, Given, MovedOn DEF Sound
<1>2. ASSUME Open(r) PROVE IInv'
  <2> DEFINE q == [req[r] EXCEPT !.at = "first", !.made = 1, !.shown = 1]
  <2>1. Step(r, q) /\ UNCHANGED <<cache, ledger, later, told>>
    BY <1>2 DEF Open
  <2>2. 1 \in 0..WORDS
    BY WordsAssumption
  <2>3. /\ q \in Request
        /\ q.at = "first"
        /\ q.made = 1
        /\ q.shown = 1
        /\ q.fate = req[r].fate /\ q.priced = req[r].priced /\ q.raised = req[r].raised
        /\ q.gone = req[r].gone
    BY <1>2, <2>2, Given, WordsAssumption DEF Open, Request, Sound, Answered
  <2> HIDE DEF q
  <2>4. Answered(r, q)
    BY <1>2, <2>2, <2>3, Given, WordsAssumption DEF Open, Request, Sound, Answered
  <2>5. Priced(q)
    BY <1>2, <2>2, <2>3, Given, WordsAssumption DEF Open, Request, Sound, Answered, Priced
  <2>6. Billed(r, q, ledger[r], later[r])
    BY <1>2, <2>2, <2>3, Given, WordsAssumption DEF Open, Request, Sound, Answered, Billed
  <2>7. Told(q, told[r])
    BY <1>2, <2>2, <2>3, Given, WordsAssumption DEF Open, Request, Sound, Answered, Told
  <2> QED
    BY <2>1, <2>3, <2>4, <2>5, <2>6, <2>7, Given, MovedOn DEF Sound
<1>3. ASSUME ReadOn(r) PROVE IInv'
  <2> DEFINE q == [req[r] EXCEPT !.at = "relay",
                                !.priced = IF req[r].at = "first" THEN Estimate(1) ELSE @]
  <2>1. Step(r, q) /\ UNCHANGED <<cache, ledger, later, told>>
    BY <1>3 DEF ReadOn, Estimate
  <2>2. Estimate(1) = 1 /\ 1 \in 0..WORDS
    BY WordsAssumption DEF Estimate
  <2>3. /\ q \in Request
        /\ q.at = "relay"
        /\ q.priced = IF req[r].at = "first" THEN Estimate(1) ELSE req[r].priced
        /\ q.fate = req[r].fate /\ q.made = req[r].made /\ q.shown = req[r].shown
        /\ q.raised = req[r].raised /\ q.gone = req[r].gone
    BY <1>3, <2>2, Given, WordsAssumption DEF ReadOn, Request, Sound, Answered
  <2> HIDE DEF q
  <2>4. Answered(r, q)
    BY <1>3, <2>2, <2>3, Given, WordsAssumption DEF ReadOn, Request, Sound, Answered
  <2>5. Priced(q)
    BY <1>3, <2>2, <2>3, Given, WordsAssumption DEF ReadOn, Request, Sound, Answered, Priced
  <2>6. Billed(r, q, ledger[r], later[r])
    BY <1>3, <2>2, <2>3, Given, WordsAssumption DEF ReadOn, Request, Sound, Answered, Billed
  <2>7. Told(q, told[r])
    BY <1>3, <2>2, <2>3, Given, WordsAssumption DEF ReadOn, Request, Sound, Answered, Told
  <2> QED
    BY <2>1, <2>3, <2>4, <2>5, <2>6, <2>7, Given, MovedOn DEF Sound
<1>4. ASSUME Delta(r) PROVE IInv'
  <2> DEFINE q == [req[r] EXCEPT !.at = "chunk",
                                !.made = req[r].made + 1,
                                !.shown = req[r].made + 1,
                                !.priced = Running(req[r], req[r].made + 1)]
  <2>1. Step(r, q) /\ UNCHANGED <<cache, ledger, later, told>>
    BY <1>4 DEF Delta, Running, Estimate
  <2>2. /\ req[r].made + 1 \in 0..WORDS
        /\ Running(req[r], req[r].made + 1) = req[r].made + 1
    BY <1>4, Given, WordsAssumption DEF Delta, Sound, Request, Running, Estimate
  <2>3. /\ q \in Request
        /\ q.at = "chunk"
        /\ q.made = req[r].made + 1
        /\ q.shown = req[r].made + 1
        /\ q.priced = Running(req[r], req[r].made + 1)
        /\ q.fate = req[r].fate /\ q.raised = req[r].raised /\ q.gone = req[r].gone
    BY <1>4, <2>2, Given, WordsAssumption DEF Delta, Request, Sound, Answered
  <2> HIDE DEF q
  <2>4. Answered(r, q)
    BY <1>4, <2>2, <2>3, Given, WordsAssumption DEF Delta, Request, Sound, Answered
  <2>5. Priced(q)
    BY <1>4, <2>2, <2>3, Given, WordsAssumption DEF Delta, Request, Sound, Answered, Priced
  <2>6. Billed(r, q, ledger[r], later[r])
    BY <1>4, <2>2, <2>3, Given, WordsAssumption DEF Delta, Request, Sound, Answered, Billed
  <2>7. Told(q, told[r])
    BY <1>4, <2>2, <2>3, Given, WordsAssumption DEF Delta, Request, Sound, Answered, Told
  <2> QED
    BY <2>1, <2>3, <2>4, <2>5, <2>6, <2>7, Given, MovedOn DEF Sound
<1>5. ASSUME End(r) PROVE IInv'
  <2> DEFINE q == [req[r] EXCEPT !.at = "succeed"]
  <2>1. Step(r, q) /\ UNCHANGED <<cache, ledger, later, told>>
    BY <1>5 DEF End
  <2>3. /\ q \in Request
        /\ q.at = "succeed"
        /\ q.fate = req[r].fate /\ q.made = req[r].made /\ q.priced = req[r].priced
        /\ q.shown = req[r].shown /\ q.raised = req[r].raised /\ q.gone = req[r].gone
    BY <1>5, Given, WordsAssumption DEF End, Request, Sound, Answered
  <2> HIDE DEF q
  <2>4. Answered(r, q)
    BY <1>5, <2>3, Given, WordsAssumption DEF End, Request, Sound, Answered
  <2>5. Priced(q)
    BY <1>5, <2>3, Given, WordsAssumption DEF End, Request, Sound, Answered, Priced
  <2>6. Billed(r, q, ledger[r], later[r])
    BY <1>5, <2>3, Given, WordsAssumption DEF End, Request, Sound, Answered, Billed
  <2>7. Told(q, told[r])
    BY <1>5, <2>3, Given, WordsAssumption DEF End, Request, Sound, Answered, Told
  <2> QED
    BY <2>1, <2>3, <2>4, <2>5, <2>6, <2>7, Given, MovedOn DEF Sound
<1>6. ASSUME Succeed(r) PROVE IInv'
  <2> DEFINE q == [req[r] EXCEPT !.at = IF Stores(r, "answered") THEN "store" ELSE "meter",
                                !.fate = "answered",
                                !.priced = req[r].made]
  <2>1. Step(r, q) /\ UNCHANGED <<cache, ledger, later, told>>
    BY <1>6 DEF Succeed
  <2>3. /\ q \in Request
        /\ q.at = IF Stores(r, "answered") THEN "store" ELSE "meter"
        /\ q.fate = "answered"
        /\ q.priced = req[r].made
        /\ q.made = req[r].made /\ q.shown = req[r].shown /\ q.raised = req[r].raised
        /\ q.gone = req[r].gone
    BY <1>6, Given, WordsAssumption DEF Succeed, Request, Sound, Answered
  <2> HIDE DEF q
  <2>4. Answered(r, q)
    BY <1>6, <2>3, Given, WordsAssumption DEF Succeed, Request, Sound, Answered
  <2>5. Priced(q)
    BY <1>6, <2>3, Given, WordsAssumption DEF Succeed, Request, Sound, Answered, Priced
  <2>6. Billed(r, q, ledger[r], later[r])
    BY <1>6, <2>3, Given, WordsAssumption DEF Succeed, Request, Sound, Answered, Billed
  <2>7. Told(q, told[r])
    BY <1>6, <2>3, Given, WordsAssumption DEF Succeed, Request, Sound, Answered, Told
  <2> QED
    BY <2>1, <2>3, <2>4, <2>5, <2>6, <2>7, Given, MovedOn DEF Sound
<1>7. ASSUME Break(r) PROVE IInv'
  <2> DEFINE q == [req[r] EXCEPT !.at = "broken", !.priced = req[r].made]
  <2>1. Step(r, q) /\ UNCHANGED <<cache, ledger, later, told>>
    BY <1>7 DEF Break
  <2>3. /\ q \in Request
        /\ q.at = "broken"
        /\ q.priced = req[r].made
        /\ q.fate = req[r].fate /\ q.made = req[r].made /\ q.shown = req[r].shown
        /\ q.raised = req[r].raised /\ q.gone = req[r].gone
    BY <1>7, Given, WordsAssumption DEF Break, Request, Sound, Answered
  <2> HIDE DEF q
  <2>4. Answered(r, q)
    BY <1>7, <2>3, Given, WordsAssumption DEF Break, Request, Sound, Answered
  <2>5. Priced(q)
    BY <1>7, <2>3, Given, WordsAssumption DEF Break, Request, Sound, Answered, Priced
  <2>6. Billed(r, q, ledger[r], later[r])
    BY <1>7, <2>3, Given, WordsAssumption DEF Break, Request, Sound, Answered, Billed
  <2>7. Told(q, told[r])
    BY <1>7, <2>3, Given, WordsAssumption DEF Break, Request, Sound, Answered, Told
  <2> QED
    BY <2>1, <2>3, <2>4, <2>5, <2>6, <2>7, Given, MovedOn DEF Sound
<1>8. ASSUME Interrupt(r) PROVE IInv'
  <2> DEFINE q == [req[r] EXCEPT !.at = IF Stores(r, "broken") THEN "store" ELSE "meter",
                                !.fate = "broken"]
  <2>1. Step(r, q) /\ UNCHANGED <<cache, ledger, later, told>>
    BY <1>8 DEF Interrupt, Stores
  <2>3. /\ q \in Request
        /\ q.at = IF Stores(r, "broken") THEN "store" ELSE "meter"
        /\ q.fate = "broken"
        /\ q.made = req[r].made /\ q.priced = req[r].priced /\ q.shown = req[r].shown
        /\ q.raised = req[r].raised /\ q.gone = req[r].gone
    BY <1>8, Given, WordsAssumption DEF Interrupt, Request, Sound, Answered, Stores
  <2> HIDE DEF q
  <2>4. Answered(r, q)
    BY <1>8, <2>3, Given, WordsAssumption DEF Interrupt, Request, Sound, Answered, Stores
  <2>5. Priced(q)
    BY <1>8, <2>3, Given, WordsAssumption DEF Interrupt, Request, Sound, Answered, Priced, Stores
  <2>6. Billed(r, q, ledger[r], later[r])
    BY <1>8, <2>3, Given, WordsAssumption DEF Interrupt, Request, Sound, Answered, Billed, Stores
  <2>7. Told(q, told[r])
    BY <1>8, <2>3, Given, WordsAssumption DEF Interrupt, Request, Sound, Answered, Told, Stores
  <2> QED
    BY <2>1, <2>3, <2>4, <2>5, <2>6, <2>7, Given, MovedOn DEF Sound
<1> QED
  BY <1>1, <1>2, <1>3, <1>4, <1>5, <1>6, <1>7, <1>8

LEMMA Endings ==
  ASSUME IInv, NEW r \in Requests,
         Store(r) \/ Meter(r) \/ Replay(r) \/ Tell(r) \/ Final(r)
  PROVE  IInv'
<1> USE DEF Locations, Begun, Before, InTry, Lost
<1>1. ASSUME Store(r) PROVE IInv'
  <2> DEFINE q == [req[r] EXCEPT !.at = "meter"] l == ledger[r] w == later[r] t == told[r]
  <2>1. /\ req' = [req EXCEPT ![r] = q] /\ ledger' = [ledger EXCEPT ![r] = l]
        /\ later' = [later EXCEPT ![r] = w] /\ told' = [told EXCEPT ![r] = t]
    BY <1>1 DEF Store, Step, IInv, Tables
  <2>2. req[r].shown = WORDS
    BY <1>1, Given DEF Store, Sound, Answered
  <2>3. cache' \in [Prompts -> SUBSET {WORDS}]
    BY <1>1, <2>2, PromptAssumption DEF Store, IInv
  <2>4. /\ q \in Request
        /\ q.at = "meter"
        /\ q.fate = req[r].fate /\ q.made = req[r].made /\ q.priced = req[r].priced
        /\ q.shown = req[r].shown /\ q.raised = req[r].raised /\ q.gone = req[r].gone
    BY <1>1, Given DEF Store, Request
  <2> HIDE DEF q
  <2>5. Answered(r, q)
    BY <1>1, <2>4, Given DEF Store, Request, Sound, Answered
  <2>6. Priced(q)
    BY <1>1, <2>4, Given DEF Store, Request, Sound, Answered, Priced
  <2>7. Billed(r, q, ledger[r], later[r])
    BY <1>1, <2>4, Given DEF Store, Request, Sound, Answered, Billed, Priced, Charges
  <2>8. Told(q, told[r])
    BY <1>1, <2>4, Given DEF Store, Request, Sound, Answered, Told, Outcomes
  <2>9. Sound(r, q, l, w, t)
    BY <2>4, <2>5, <2>6, <2>7, <2>8, Given DEF Sound
  <2> HIDE DEF l, w, t
  <2> QED
    BY <2>1, <2>3, <2>9, Replaced
<1>2. ASSUME Meter(r) PROVE IInv'
  <2> DEFINE q == [req[r] EXCEPT !.at = IF r \in Streams /\ req[r].fate = "cached" THEN "replay" ELSE "tell"]
             m == [times |-> ledger[r].times + 1, words |-> ledger[r].words + req[r].priced]
             w == later[r]
  <2>1. /\ Step(r, q) /\ Charge(r, req[r].priced) /\ UNCHANGED <<cache, told>>
        /\ later' = [later EXCEPT ![r] = w] /\ req[r].priced \in Nat
    BY <1>2, Given DEF Meter, Request, IInv, Tables
  <2>2. /\ m \in Charges /\ m.times = ledger[r].times + 1
        /\ m.words = ledger[r].words + req[r].priced
    BY <2>1, Given DEF Charges, Sound
  <2>3. /\ q \in Request
        /\ q.at = IF r \in Streams /\ req[r].fate = "cached" THEN "replay" ELSE "tell"
        /\ q.fate = req[r].fate /\ q.made = req[r].made /\ q.priced = req[r].priced
        /\ q.shown = req[r].shown /\ q.raised = req[r].raised /\ q.gone = req[r].gone
    BY <1>2, Given DEF Meter, Request
  <2> HIDE DEF q, m
  <2>4. Answered(r, q)
    BY <1>2, <2>2, <2>3, Given DEF Meter, Request, Sound, Answered
  <2>5. Priced(q)
    BY <1>2, <2>2, <2>3, Given DEF Meter, Request, Sound, Answered, Priced
  <2>6. Billed(r, q, m, later[r])
    BY <1>2, <2>2, <2>3, Given DEF Meter, Request, Sound, Answered, Billed, Priced, Charges
  <2>7. Told(q, told[r])
    BY <1>2, <2>2, <2>3, Given DEF Meter, Request, Sound, Answered, Told, Outcomes
  <2>8. Sound(r, q, m, w, told[r])
    BY <2>2, <2>3, <2>4, <2>5, <2>6, <2>7, Given DEF Sound
  <2> HIDE DEF w
  <2> QED
    BY <2>1, <2>8, Charged DEF m
<1>3. ASSUME Replay(r) PROVE IInv'
  <2> DEFINE q == [req[r] EXCEPT !.at = "tell"]
  <2>1. Step(r, q) /\ UNCHANGED <<cache, ledger, later, told>>
    BY <1>3 DEF Replay
  <2>2. /\ q \in Request
        /\ q.at = "tell"
        /\ q.fate = req[r].fate /\ q.made = req[r].made /\ q.priced = req[r].priced
        /\ q.shown = req[r].shown /\ q.raised = req[r].raised /\ q.gone = req[r].gone
    BY <1>3, Given DEF Replay, Request
  <2> HIDE DEF q
  <2>3. Answered(r, q)
    BY <1>3, <2>2, Given DEF Replay, Request, Sound, Answered
  <2>4. Priced(q)
    BY <1>3, <2>2, Given DEF Replay, Request, Sound, Answered, Priced
  <2>5. Billed(r, q, ledger[r], later[r])
    BY <1>3, <2>2, Given DEF Replay, Request, Sound, Answered, Billed, Priced, Charges
  <2>6. Told(q, told[r])
    BY <1>3, <2>2, Given DEF Replay, Request, Sound, Answered, Told, Outcomes
  <2> QED
    BY <2>1, <2>2, <2>3, <2>4, <2>5, <2>6, Given, MovedOn DEF Sound
<1>4. ASSUME Tell(r) PROVE IInv'
  <2> DEFINE q == [req[r] EXCEPT !.at = IF r \in Streams /\ req[r].fate \in {"answered", "broken"} THEN "final" ELSE "done"]
             t == IF Verdict(req[r]) THEN [ok |-> 1, error |-> 0] ELSE [ok |-> 0, error |-> 1]
             l == ledger[r]
             w == later[r]
  <2>0. told[r] \in Outcomes /\ told[r].ok = 0 /\ told[r].error = 0
    BY <1>4, Given DEF Tell, Sound, Told
  <2>1. /\ [told[r] EXCEPT !.ok = @ + 1] = [ok |-> 1, error |-> 0]
        /\ [told[r] EXCEPT !.error = @ + 1] = [ok |-> 0, error |-> 1]
    BY <2>0 DEF Outcomes
  <2>2. /\ req' = [req EXCEPT ![r] = q] /\ told' = [told EXCEPT ![r] = t]
        /\ ledger' = [ledger EXCEPT ![r] = l] /\ later' = [later EXCEPT ![r] = w]
        /\ cache' \in [Prompts -> SUBSET {WORDS}]
    BY <1>4, <2>1 DEF Tell, Step, IInv, Tables
  <2>3. /\ q \in Request
        /\ q.at = IF r \in Streams /\ req[r].fate \in {"answered", "broken"} THEN "final" ELSE "done"
        /\ q.fate = req[r].fate /\ q.made = req[r].made /\ q.priced = req[r].priced
        /\ q.shown = req[r].shown /\ q.raised = req[r].raised /\ q.gone = req[r].gone
    BY <1>4, Given DEF Tell, Request
  <2>4. t \in Outcomes /\ t.ok + t.error = 1 /\ (t.ok = 1 <=> Verdict(req[r]))
    BY DEF Outcomes
  <2> HIDE DEF q, t
  <2>5. Answered(r, q)
    BY <1>4, <2>3, <2>4, Given DEF Tell, Request, Sound, Answered, Verdict
  <2>6. Priced(q)
    BY <1>4, <2>3, <2>4, Given DEF Tell, Request, Sound, Answered, Priced, Verdict
  <2>7. Billed(r, q, ledger[r], later[r])
    BY <1>4, <2>3, <2>4, Given DEF Tell, Request, Sound, Answered, Billed, Priced, Charges, Verdict
  <2>8. Told(q, t)
    BY <1>4, <2>3, <2>4, Given DEF Tell, Request, Sound, Answered, Told, Outcomes, Verdict
  <2>9. Sound(r, q, l, w, t)
    BY <2>3, <2>4, <2>5, <2>6, <2>7, <2>8, Given DEF Sound
  <2> HIDE DEF l, w
  <2> QED
    BY <2>2, <2>9, Replaced
<1>5. ASSUME Final(r) PROVE IInv'
  <2> DEFINE q == [req[r] EXCEPT !.at = "done"]
  <2>1. Step(r, q) /\ UNCHANGED <<cache, ledger, later, told>>
    BY <1>5 DEF Final
  <2>2. /\ q \in Request
        /\ q.at = "done"
        /\ q.fate = req[r].fate /\ q.made = req[r].made /\ q.priced = req[r].priced
        /\ q.shown = req[r].shown /\ q.raised = req[r].raised /\ q.gone = req[r].gone
    BY <1>5, Given DEF Final, Request
  <2> HIDE DEF q
  <2>3. Answered(r, q)
    BY <1>5, <2>2, Given DEF Final, Request, Sound, Answered
  <2>4. Priced(q)
    BY <1>5, <2>2, Given DEF Final, Request, Sound, Answered, Priced
  <2>5. Billed(r, q, ledger[r], later[r])
    BY <1>5, <2>2, Given DEF Final, Request, Sound, Answered, Billed, Priced, Charges
  <2>6. Told(q, told[r])
    BY <1>5, <2>2, Given DEF Final, Request, Sound, Answered, Told, Outcomes
  <2> QED
    BY <2>1, <2>2, <2>3, <2>4, <2>5, <2>6, Given, MovedOn DEF Sound
<1> QED
  BY <1>1, <1>2, <1>3, <1>4, <1>5

LEMMA Failures ==
  ASSUME IInv, NEW r \in Requests,
         MeterRaises(r) \/ HangUp(r) \/ Bill(r) \/ BillRaises(r)
  PROVE  IInv'
<1> USE DEF Locations, Begun, Before, InTry, Lost
<1>1. ASSUME MeterRaises(r) PROVE IInv'
  <2> DEFINE q == [req[r] EXCEPT !.at = IF r \in Streams THEN "done" ELSE "tell",
                                !.raised = TRUE]
             w == later[r]
             m == [times |-> ledger[r].times + 1, words |-> ledger[r].words + req[r].priced]
  <2>1. Step(r, q) /\ UNCHANGED <<cache, told>> /\ later' = [later EXCEPT ![r] = w]
    BY <1>1 DEF MeterRaises, IInv, Tables
  <2>2. w \in 0..WORDS /\ req[r].priced \in Nat
    BY <1>1, Given, WordsAssumption DEF MeterRaises, Request, Sound
  <2>3. /\ m \in Charges /\ m.times = ledger[r].times + 1
        /\ m.words = ledger[r].words + req[r].priced
    BY <2>2, Given DEF Charges, Sound
  <2>4. /\ q \in Request
        /\ q.at = IF r \in Streams THEN "done" ELSE "tell"
        /\ q.raised = TRUE
        /\ q.fate = req[r].fate /\ q.made = req[r].made /\ q.priced = req[r].priced
        /\ q.shown = req[r].shown /\ q.gone = req[r].gone
    BY <1>1, Given DEF MeterRaises, Request
  <2> HIDE DEF q, m
  <2>5. Answered(r, q)
    BY <1>1, <2>4, Given DEF MeterRaises, Request, Sound, Answered
  <2>6. Priced(q)
    BY <1>1, <2>4, Given DEF MeterRaises, Request, Sound, Answered, Priced
  <2>7. Told(q, told[r])
    BY <1>1, <2>4, Given DEF MeterRaises, Request, Sound, Answered, Told, Outcomes
  <2>8. CASE Charge(r, req[r].priced)
    <3>1. Billed(r, q, m, w)
      BY <1>1, <2>2, <2>3, <2>4, <2>8, Given
         DEF MeterRaises, Request, Sound, Answered, Priced, Billed, Charges
    <3>2. Sound(r, q, m, w, told[r])
      BY <2>2, <2>3, <2>4, <2>5, <2>6, <2>7, <3>1, Given DEF Sound
    <3> HIDE DEF w
    <3> QED
      BY <2>1, <2>2, <2>8, <3>2, Charged DEF m
  <2>9. CASE UNCHANGED ledger
    <3>1. Billed(r, q, ledger[r], w)
      BY <1>1, <2>2, <2>4, <2>9, Given
         DEF MeterRaises, Request, Sound, Answered, Priced, Billed, Charges
    <3>2. Sound(r, q, ledger[r], w, told[r])
      BY <2>2, <2>4, <2>5, <2>6, <2>7, <3>1, Given DEF Sound
    <3> HIDE DEF w
    <3> QED
      BY <2>1, <2>9, <3>2, Uncharged
  <2> QED
    BY <1>1, <2>8, <2>9 DEF MeterRaises, PerhapsCharge
<1>2. ASSUME HangUp(r) PROVE IInv'
  <2> DEFINE q == [req[r] EXCEPT !.at = "done", !.gone = req[r].at]
             w == IF req[r].at \in InTry THEN Owed(req[r]) ELSE later[r]
             m == [times |-> ledger[r].times + 1, words |-> ledger[r].words + req[r].priced]
  <2>1. Step(r, q) /\ UNCHANGED <<cache, told>> /\ later' = [later EXCEPT ![r] = w]
    BY <1>2 DEF HangUp, IInv, Tables
  <2>2. w \in 0..WORDS /\ req[r].priced \in Nat
    BY <1>2, Given, WordsAssumption DEF HangUp, Request, Sound, Owed
  <2>3. /\ m \in Charges /\ m.times = ledger[r].times + 1
        /\ m.words = ledger[r].words + req[r].priced
    BY <2>2, Given DEF Charges, Sound
  <2>4. /\ q \in Request
        /\ q.at = "done" /\ q.gone = req[r].at
        /\ q.fate = req[r].fate /\ q.made = req[r].made /\ q.priced = req[r].priced
        /\ q.shown = req[r].shown /\ q.raised = req[r].raised
    BY <1>2, Given DEF HangUp, Request
  <2> HIDE DEF q, m
  <2>5. Answered(r, q)
    BY <1>2, <2>4, Given DEF HangUp, Request, Sound, Answered, Leavable
  <2>6. Priced(q)
    BY <1>2, <2>4, Given DEF HangUp, Request, Sound, Answered, Priced, Leavable
  <2>7. Told(q, told[r])
    BY <1>2, <2>4, Given DEF HangUp, Request, Sound, Answered, Told, Outcomes, Leavable
  <2>8. CASE Charge(r, req[r].priced) /\ req[r].at = "meter"
    <3>1. Billed(r, q, m, w)
      BY <1>2, <2>2, <2>3, <2>4, <2>8, Given
         DEF HangUp, Request, Sound, Answered, Priced, Billed, Charges
    <3>2. Sound(r, q, m, w, told[r])
      BY <2>2, <2>3, <2>4, <2>5, <2>6, <2>7, <3>1, Given DEF Sound
    <3> HIDE DEF w
    <3> QED
      BY <2>1, <2>2, <2>8, <3>2, Charged DEF m
  <2>9. CASE UNCHANGED ledger
    <3>1. Billed(r, q, ledger[r], w)
      BY <1>2, <2>2, <2>4, <2>9, Given
         DEF HangUp, Request, Sound, Answered, Priced, Billed, Charges, Owed, Leavable
    <3>2. Sound(r, q, ledger[r], w, told[r])
      BY <2>2, <2>4, <2>5, <2>6, <2>7, <3>1, Given DEF Sound
    <3> HIDE DEF w
    <3> QED
      BY <2>1, <2>9, <3>2, Uncharged
  <2> QED
    BY <1>2, <2>8, <2>9 DEF HangUp, PerhapsCharge
<1>3. ASSUME BillRaises(r) PROVE IInv'
  <2> DEFINE q == [req[r] EXCEPT !.raised = TRUE]
             w == 0
             m == [times |-> ledger[r].times + 1, words |-> ledger[r].words + later[r]]
  <2>1. Step(r, q) /\ UNCHANGED <<cache, told>> /\ later' = [later EXCEPT ![r] = w]
    BY <1>3 DEF BillRaises, IInv, Tables
  <2>2. w \in 0..WORDS /\ later[r] \in Nat
    BY <1>3, Given, WordsAssumption DEF Sound
  <2>3. /\ m \in Charges /\ m.times = ledger[r].times + 1
        /\ m.words = ledger[r].words + later[r]
    BY <2>2, Given DEF Charges, Sound
  <2>4. /\ q \in Request
        /\ q.raised = TRUE
        /\ q.at = req[r].at /\ q.gone = req[r].gone
        /\ q.fate = req[r].fate /\ q.made = req[r].made /\ q.priced = req[r].priced
        /\ q.shown = req[r].shown
    BY <1>3, Given DEF BillRaises, Request
  <2> HIDE DEF q, m
  <2>5. Answered(r, q)
    BY <1>3, <2>4, Given DEF BillRaises, Request, Sound, Answered, Billed
  <2>6. Priced(q)
    BY <1>3, <2>4, Given DEF BillRaises, Request, Sound, Answered, Priced
  <2>7. Told(q, told[r])
    BY <1>3, <2>4, Given DEF BillRaises, Request, Sound, Answered, Told, Outcomes, Billed
  <2>8. CASE Charge(r, later[r])
    <3>1. Billed(r, q, m, w)
      BY <1>3, <2>2, <2>3, <2>4, <2>8, Given
         DEF BillRaises, Request, Sound, Answered, Priced, Billed, Charges
    <3>2. Sound(r, q, m, w, told[r])
      BY <2>2, <2>3, <2>4, <2>5, <2>6, <2>7, <3>1, Given DEF Sound
    <3> HIDE DEF w
    <3> QED
      BY <2>1, <2>2, <2>8, <3>2, Charged DEF m
  <2>9. CASE UNCHANGED ledger
    <3>1. Billed(r, q, ledger[r], w)
      BY <1>3, <2>2, <2>4, <2>9, Given
         DEF BillRaises, Request, Sound, Answered, Priced, Billed, Charges
    <3>2. Sound(r, q, ledger[r], w, told[r])
      BY <2>2, <2>4, <2>5, <2>6, <2>7, <3>1, Given DEF Sound
    <3> HIDE DEF w
    <3> QED
      BY <2>1, <2>9, <3>2, Uncharged
  <2> QED
    BY <1>3, <2>8, <2>9 DEF BillRaises, PerhapsCharge
<1>4. ASSUME Bill(r) PROVE IInv'
  <2> DEFINE q == req[r]
             w == 0
             m == [times |-> ledger[r].times + 1, words |-> ledger[r].words + later[r]]
  <2>1. Step(r, q) /\ UNCHANGED <<cache, told>> /\ later' = [later EXCEPT ![r] = w]
    BY <1>4 DEF Bill, Step, IInv, Tables
  <2>2. w \in 0..WORDS /\ later[r] \in Nat
    BY <1>4, Given, WordsAssumption DEF Sound
  <2>3. /\ m \in Charges /\ m.times = ledger[r].times + 1
        /\ m.words = ledger[r].words + later[r]
    BY <2>2, Given DEF Charges, Sound
  <2>4. q = req[r] /\ q \in Request
    BY <1>4, Given DEF Bill, Request
  <2> HIDE DEF q, m
  <2>5. Answered(r, q)
    BY <1>4, <2>4, Given DEF Bill, Request, Sound, Answered
  <2>6. Priced(q)
    BY <1>4, <2>4, Given DEF Bill, Request, Sound, Answered, Priced
  <2>7. Told(q, told[r])
    BY <1>4, <2>4, Given DEF Bill, Request, Sound, Answered, Told, Outcomes
  <2>8. CASE Charge(r, later[r])
    <3>1. Billed(r, q, m, w)
      BY <1>4, <2>2, <2>3, <2>4, <2>8, Given
         DEF Bill, Request, Sound, Answered, Priced, Billed, Charges
    <3>2. Sound(r, q, m, w, told[r])
      BY <2>2, <2>3, <2>4, <2>5, <2>6, <2>7, <3>1, Given DEF Sound
    <3> HIDE DEF w
    <3> QED
      BY <2>1, <2>2, <2>8, <3>2, Charged DEF m
  <2> QED
    BY <1>4, <2>8 DEF Bill
<1> QED
  BY <1>1, <1>2, <1>3, <1>4

LEMMA Forgotten ==
  ASSUME IInv, NEW p \in Prompts, Forget(p)
  PROVE  IInv'
<1>1. cache' \in [Prompts -> SUBSET {WORDS}]
  BY DEF IInv, Forget
<1>2. UNCHANGED <<req, ledger, later, told>>
  BY DEF Forget
<1> QED
  BY <1>1, <1>2 DEF IInv, Tables, Sound, Answered, Priced, Billed, Told, Lost

-----------------------------------------------------------------------------
LEMMA Inductive == IInv /\ [Next]_vars => IInv'
<1> SUFFICES ASSUME IInv, [Next]_vars PROVE IInv'
  OBVIOUS
<1>1. ASSUME NEW r \in Requests, Ask(r) \/ Proceed(r) PROVE IInv'
  BY <1>1, Early, Answers, Endings, Failures DEF Proceed
<1>2. ASSUME NEW p \in Prompts, Forget(p) PROVE IInv'
  BY <1>2, Forgotten
<1>3. CASE UNCHANGED vars
  BY <1>3 DEF vars, IInv, Tables, Sound, Answered, Priced, Billed, Told, Lost
<1> QED
  BY <1>1, <1>2, <1>3 DEF Next

LEMMA Invariant == Spec => []IInv
BY Initially, Inductive, PTL DEF Spec

\* What holds of a sound request is what the properties say of it.
LEMMA Consequences == IInv => TypeOK /\ BilledOnce /\ GeneratedIsBilled /\ AnswersWhole /\ OutcomeTold
<1> SUFFICES ASSUME IInv PROVE TypeOK /\ BilledOnce /\ GeneratedIsBilled /\ AnswersWhole /\ OutcomeTold
  OBVIOUS
<1>1. \A r \in Requests : Sound(r, req[r], ledger[r], later[r], told[r])
  BY DEF IInv
<1>2. TypeOK
  <2>1. cache \in [Prompts -> SUBSET (1..WORDS)]
    BY WordsAssumption DEF IInv
  <2> QED
    BY <1>1, <2>1 DEF TypeOK, IInv, Tables, Charges, Outcomes, Sound, Priced
<1>3. BilledOnce
  BY <1>1 DEF BilledOnce, Sound, Billed
<1>4. GeneratedIsBilled
  BY <1>1 DEF GeneratedIsBilled, Sound, Billed
<1>5. AnswersWhole
  BY <1>1 DEF AnswersWhole, Sound, Answered
<1>6. OutcomeTold
  BY <1>1 DEF OutcomeTold, Sound, Told
<1> QED
  BY <1>2, <1>3, <1>4, <1>5, <1>6

\* Types of the chat service: what complete, stream and _relay may leave behind.
THEOREM TypeCorrect == Spec => []TypeOK
BY Invariant, Consequences, PTL

\* Metering, in _complete, _finish_stream and _meter_later: no request is charged twice.
THEOREM NeverBilledTwice == Spec => []BilledOnce
BY Invariant, Consequences, PTL

\* Hanging up, in stream: words that were produced are billed, but for the exceptions of Lost.
THEOREM ProducedIsBilled == Spec => []GeneratedIsBilled
BY Invariant, Consequences, PTL

\* Caching in _finish_stream: nobody who stays is served a part as the whole.
THEOREM WholeAnswersOnly == Spec => []AnswersWhole
BY Invariant, Consequences, PTL

\* _record_variant: the rollout is told once, of a success exactly if the answer was whole; the
\* errors it hears of include the requests a provider refused as the caller's own fault.
THEOREM ToldOnce == Spec => []OutcomeTold
BY Invariant, Consequences, PTL
=============================================================================
