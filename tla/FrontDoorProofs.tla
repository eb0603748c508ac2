-------------------------- MODULE FrontDoorProofs ---------------------------
(***************************************************************************)
(* Proofs about what stands in front of the gateway and beside it, for any *)
(* values of the constants: the token bucket, the API keys, the fault      *)
(* table, the inference gate (which implements BoundedSlots), the usage    *)
(* reports, the traces, a stream's price, the recent alerts, the books of  *)
(* the jobs, a replica's start, and all of them side by side.              *)
(***************************************************************************)
EXTENDS MCFrontDoor, FiniteSetTheorems, TLAPS

(***************************************************************************)
(* The bucket                                                              *)
(***************************************************************************)

\* Arithmetic of the script, a multiplication by the rate at a time.
LEMMA Distributes ==
  ASSUME NEW r \in Int, NEW a \in Int, NEW b \in Int
  PROVE  r * (a + b) = r * a + r * b
OBVIOUS

LEMMA Grows ==
  ASSUME NEW r \in Nat, NEW a \in Int, NEW b \in Int, a <= b
  PROVE  r * a <= r * b
<1>1. b - a \in Nat /\ b = a + (b - a)
  OBVIOUS
<1>2. r * (b - a) \in Nat
  BY <1>1
<1>3. r * b = r * a + r * (b - a)
  BY <1>1, Distributes
<1> QED
  BY <1>2, <1>3

\* A division rounded up is a number of seconds that refills what is divided.
LEMMA CeilingRefills ==
  ASSUME NEW n \in Nat, NEW r \in Nat \ {0}
  PROVE  /\ (n + r - 1) \div r \in Nat
         /\ r * ((n + r - 1) \div r) >= n
         /\ n > 0 => (n + r - 1) \div r > 0
<1> DEFINE x == n + r - 1
           q == x \div r
<1>1. x \in Nat /\ r \in Nat /\ r > 0
  OBVIOUS
<1>2. q \in Int /\ x = r * q + (x % r) /\ x % r \in 0..(r - 1)
  BY <1>1
<1>3. r * q >= n
  BY <1>1, <1>2
<1>4. q >= 0
  <2>1. SUFFICES ASSUME q <= -1 PROVE FALSE
    BY <1>2
  <2>2. r * q <= r * (-1)
    BY <1>1, <1>2, <2>1, Grows
  <2> QED
    BY <1>1, <1>3, <2>2
<1>5. ASSUME n > 0 PROVE q # 0
  BY <1>3, <1>5
<1> QED
  BY <1>2, <1>3, <1>4, <1>5

LEMMA FullRefills == Full \in Nat /\ RATE * Full >= CAPACITY
BY CeilingRefills, BucketAssumption DEF Full

\* No caller finds more than the capacity, nor more than what was left and refilled since.
LEMMA TokensBounded ==
  ASSUME BucketTypeOK, NEW now \in Nat
  PROVE  /\ Tokens(now) \in 0..CAPACITY
         /\ Exists => Tokens(now) <= bucket.tokens + RATE * Pos(now - bucket.ts)
<1> DEFINE since == Pos(now - bucket.ts)
<1>1. since \in Nat /\ bucket.tokens \in 0..CAPACITY
  BY DEF BucketTypeOK, Pos
<1>2. since * RATE \in Nat /\ since * RATE = RATE * since
  BY <1>1, BucketAssumption
<1>3. Tokens(now) = IF ~Exists \/ bucket.tokens + since * RATE > CAPACITY THEN CAPACITY
                    ELSE bucket.tokens + since * RATE
  BY DEF Tokens
<1> HIDE DEF since
<1>4. Tokens(now) \in 0..CAPACITY
  BY <1>1, <1>2, <1>3, BucketAssumption
<1>5. ASSUME Exists PROVE Tokens(now) <= bucket.tokens + RATE * since
  BY <1>1, <1>2, <1>3, <1>5, BucketAssumption
<1> QED
  BY <1>4, <1>5 DEF since

LEMMA AgainIsNat ==
  ASSUME BucketTypeOK, NEW now \in Nat
  PROVE  Again(now) \in Nat
BY FullRefills DEF Again, Pos, BucketTypeOK

\* The induction needs only this besides: before the first hit nothing has been spent.
BucketInv == BucketTypeOK /\ NoOverspend /\ (hits = 0 => spent = 0)

LEMMA BucketInitially == BucketInit => BucketInv
BY BucketAssumption DEF BucketInit, BucketInv, BucketTypeOK, NoOverspend, Hits, Ready

\* Either the bucket still exists, and what it holds is what the time since its own refilled;
\* or it has expired, and the seconds counted in drift pay for a full one.
LEMMA ScriptPays ==
  ASSUME BucketInv, NEW now \in Nat, hits > 0
  PROVE  spent + Tokens(now) <= CAPACITY + RATE * (now - first + drift + Again(now))
<1> DEFINE base == bucket.ts - first + drift
<1>1. /\ bucket.tokens \in Nat /\ bucket.ts \in Nat /\ spent \in Nat /\ drift \in Nat
      /\ first \in Nat /\ clock \in Nat /\ base \in Int /\ RATE \in Nat /\ CAPACITY \in Nat
  BY BucketAssumption DEF BucketInv, BucketTypeOK
<1>2. spent + bucket.tokens <= CAPACITY + RATE * base
  BY DEF BucketInv, NoOverspend
<1>3. Again(now) \in Nat /\ Tokens(now) \in 0..CAPACITY
  BY AgainIsNat, TokensBounded DEF BucketInv
<1>4. CASE Exists
  <2>1. Again(now) = Pos(bucket.ts - now)
    BY <1>4 DEF Again
  <2>2. now - first + drift + Again(now) = base + Pos(now - bucket.ts)
    BY <1>1, <2>1 DEF Pos
  <2>3. Pos(now - bucket.ts) \in Nat
    BY <1>1 DEF Pos
  <2>4. RATE * (base + Pos(now - bucket.ts)) = RATE * base + RATE * Pos(now - bucket.ts)
    BY <1>1, <2>3, Distributes
  <2>5. Tokens(now) <= bucket.tokens + RATE * Pos(now - bucket.ts)
    BY <1>4, TokensBounded DEF BucketInv
  <2>6. RATE * base \in Int /\ RATE * Pos(now - bucket.ts) \in Int
    BY <1>1, <2>3
  <2> QED
    BY <1>1, <1>2, <1>3, <2>2, <2>4, <2>5, <2>6
<1>5. CASE ~Exists
  <2>1. Again(now) = Pos(bucket.ts + Full - now)
    BY <1>5 DEF Again
  <2>2. base + Full <= now - first + drift + Again(now)
    BY <1>1, <2>1, FullRefills DEF Pos
  <2>3. RATE * base + RATE * Full <= RATE * (now - first + drift + Again(now))
    BY <1>1, <1>3, <2>2, FullRefills, Grows, Distributes
  <2>4. RATE * base \in Int /\ RATE * Full \in Int
    BY <1>1, FullRefills
  <2> QED
    BY <1>1, <1>2, <1>3, <2>3, <2>4, FullRefills
<1> QED
  BY <1>4, <1>5

LEMMA ReadClockKeeps ==
  ASSUME BucketInv, NEW q \in Requests, ReadClock(q)
  PROVE  BucketInv'
<1>1. PICK s \in 0..SKEW : hit' = [hit EXCEPT ![q] = [at |-> "asked", now |-> clock + s]]
  BY DEF ReadClock
<1>2. [at |-> "asked", now |-> clock + s] \in Hits
  BY BucketAssumption DEF BucketInv, BucketTypeOK, Hits
<1>3. hit' \in [Requests -> Hits]
  BY <1>1, <1>2 DEF BucketInv, BucketTypeOK
<1>4. \A p \in Requests : hit'[p].at = "refused" => hit'[p].retry > 0
  BY <1>1 DEF BucketInv, BucketTypeOK
<1> QED
  BY <1>3, <1>4 DEF ReadClock, BucketInv, BucketTypeOK, NoOverspend

LEMMA RespondKeeps ==
  ASSUME BucketInv, NEW q \in Requests, Respond(q)
  PROVE  BucketInv'
<1>1. hit' = [hit EXCEPT ![q] = Ready]
  BY DEF Respond
<1>2. hit' \in [Requests -> Hits]
  BY <1>1 DEF BucketInv, BucketTypeOK, Hits
<1>3. \A p \in Requests : hit'[p].at = "refused" => hit'[p].retry > 0
  BY <1>1 DEF BucketInv, BucketTypeOK, Ready
<1> QED
  BY <1>2, <1>3 DEF Respond, BucketInv, BucketTypeOK, NoOverspend

\* Being told to come back later is being told a positive number of seconds.
LEMMA DecisionTyped ==
  ASSUME NEW left \in Nat, NEW allowed \in BOOLEAN, ~allowed => left < COST
  PROVE  /\ Decision(allowed, left) \in Hits
         /\ Decision(allowed, left).at = "refused" => Decision(allowed, left).retry > 0
<1>1. CASE allowed
  BY <1>1 DEF Decision, Hits
<1>2. CASE ~allowed
  <2>1. COST - left \in Nat /\ COST - left > 0
    BY <1>2, BucketAssumption
  <2>2. (COST - left + RATE - 1) \div RATE \in Nat /\ (COST - left + RATE - 1) \div RATE > 0
    BY <2>1, CeilingRefills, BucketAssumption
  <2> QED
    BY <1>2, <2>2 DEF Decision, Hits
<1> QED
  BY <1>1, <1>2

LEMMA RunScriptKeeps ==
  ASSUME BucketInv, NEW q \in Requests, RunScript(q)
  PROVE  BucketInv'
<1> DEFINE now == hit[q].now
           allowed == Tokens(now) >= COST
           left == IF allowed THEN Tokens(now) - COST ELSE Tokens(now)
<1>1. now \in Nat
  BY DEF RunScript, BucketInv, BucketTypeOK, Hits, Ready
<1>2. Tokens(now) \in 0..CAPACITY /\ Again(now) \in Nat /\ Full \in Nat
  BY <1>1, TokensBounded, AgainIsNat, FullRefills DEF BucketInv
<1>3. /\ bucket' = [tokens |-> left, ts |-> now, until |-> clock + Full + GRACE]
      /\ hit' = [hit EXCEPT ![q] = Decision(allowed, left)]
      /\ spent' = IF allowed THEN spent + COST ELSE spent
      /\ first' = IF hits = 0 THEN now ELSE first
      /\ drift' = drift + Again(now)
      /\ hits' = hits + 1 /\ clock' = clock
  BY DEF RunScript
<1>4. /\ clock \in Nat /\ hits \in Nat /\ first \in Nat /\ spent \in Nat /\ drift \in Nat
      /\ hit \in [Requests -> Hits] /\ GRACE \in Nat /\ COST \in Nat /\ CAPACITY \in Nat
      /\ bucket.ts \in Nat
      /\ \A p \in Requests : hit[p].at = "refused" => hit[p].retry > 0
  BY BucketAssumption DEF BucketInv, BucketTypeOK
<1>5. spent + Tokens(now) <= CAPACITY + RATE * (now - first' + drift')
  <2>1. CASE hits > 0
    <3>1. now - first' + drift' = now - first + drift + Again(now)
      BY <1>1, <1>2, <1>3, <1>4, <2>1
    <3>2. spent + Tokens(now) <= CAPACITY + RATE * (now - first + drift + Again(now))
      BY <1>1, <2>1, ScriptPays
    <3> QED
      BY <3>1, <3>2
  <2>2. CASE hits = 0
    <3>1. spent = 0
      BY <2>2 DEF BucketInv
    <3>2. RATE * (now - first' + drift') \in Nat
      BY <1>1, <1>2, <1>3, <1>4, <2>2, BucketAssumption
    <3> QED
      BY <1>2, <1>4, <3>1, <3>2
  <2> QED
    BY <1>4, <2>1, <2>2
<1> HIDE DEF now
<1>6. left \in 0..CAPACITY /\ spent' + left = spent + Tokens(now) /\ spent' \in Nat
  BY <1>2, <1>3, <1>4
<1>7. ~allowed => left < COST
  BY <1>2, <1>4
<1> HIDE DEF allowed, left
<1>8. Decision(allowed, left) \in Hits
      /\ (Decision(allowed, left).at = "refused" => Decision(allowed, left).retry > 0)
  <2>1. allowed \in BOOLEAN
    BY DEF allowed
  <2> QED
    BY <1>4, <1>6, <1>7, <2>1, DecisionTyped
<1>9. bucket' \in [tokens : 0..CAPACITY, ts : Nat, until : Nat]
  BY <1>1, <1>2, <1>3, <1>4, <1>6
<1>10. hit' \in [Requests -> Hits]
       /\ \A p \in Requests : hit'[p].at = "refused" => hit'[p].retry > 0
  BY <1>3, <1>4, <1>8
<1>11. BucketTypeOK'
  BY <1>1, <1>2, <1>3, <1>4, <1>6, <1>9, <1>10 DEF BucketTypeOK
<1>12. bucket'.tokens = left /\ bucket'.ts = now
  BY <1>3
<1>13. NoOverspend'
  BY <1>5, <1>6, <1>12 DEF NoOverspend
<1> QED
  BY <1>3, <1>4, <1>11, <1>13 DEF BucketInv

LEMMA BucketSteps == BucketInv /\ [BucketNext]_bucketVars => BucketInv'
<1> SUFFICES ASSUME BucketInv, [BucketNext]_bucketVars PROVE BucketInv'
  OBVIOUS
<1>1. CASE Second
  BY <1>1 DEF Second, BucketInv, BucketTypeOK, NoOverspend
<1>2. CASE \E q \in Requests : ReadClock(q) \/ RunScript(q) \/ Respond(q)
  BY <1>2, ReadClockKeeps, RunScriptKeeps, RespondKeeps
<1>3. CASE UNCHANGED bucketVars
  BY <1>3 DEF bucketVars, BucketInv, BucketTypeOK, NoOverspend
<1> QED
  BY <1>1, <1>2, <1>3 DEF BucketNext

\* Every reachable state of the bucket is well typed, and who is refused is told to come back
\* later and not at once (TokenBucketLimiter.hit, rate_limit.py:60-71).
THEOREM BucketTypes == BucketSpec => []BucketTypeOK
<1>1. BucketInv => BucketTypeOK
  BY DEF BucketInv
<1> QED
  BY <1>1, BucketInitially, BucketSteps, PTL DEF BucketSpec

\* The promise of the limiter (rate_limit.py:21-42), for any number of requests in flight, any
\* capacity, rate, cost, clock skew and grace.
THEOREM NeverOverspent == BucketSpec => []NoOverspend
<1>1. BucketInv => NoOverspend
  BY DEF BucketInv
<1> QED
  BY <1>1, BucketInitially, BucketSteps, PTL DEF BucketSpec

(***************************************************************************)
(* The keys                                                                *)
(***************************************************************************)

Places == Ends \cup {"hash", "hash for token", "record", "record for token", "issue"}
Presences == {Free} \cup [at : Places, key : Keys, late : BOOLEAN]
Errands == {Free} \cup [at : {"revoke"}, key : Keys]
             \cup [at : {"drop"}, key : Keys, hash : BOOLEAN]

\* Where a request may be that came after its key's revocation had returned: on its way to a read
\* that will not find the key, or turned away.
Doomed == {"hash", "hash for token", "record", "401", "500"}

\* What the two reads of a request rest on: a key that is gone is in neither structure, it is never
\* minted again, and an operator who found no hash for a key found none because it had gone.
KeysInv ==
  /\ KeysTypeOK
  /\ call \in [Bearers -> Presences] /\ admin \in [Operators -> Errands]
  /\ minted \subseteq Keys /\ \A t \in tokens : t.key \in Keys
  /\ \A o \in Operators : admin[o] # Free =>
       /\ admin[o].key \in minted
       /\ admin[o].at = "drop" => admin[o].hash \/ admin[o].key \notin hashes
  /\ \A c \in Bearers : call[c] # Free /\ call[c].late =>
       call[c].key \in gone /\ call[c].at \in Doomed

LEMMA KeysInitially == KeysInit => KeysInv
<1> SUFFICES ASSUME KeysInit PROVE KeysInv
  OBVIOUS
<1>1. /\ call = [c \in Bearers |-> Free] /\ admin = [o \in Operators |-> Free]
      /\ minted = {} /\ hashes = {} /\ records = {} /\ members = {} /\ tokens = {} /\ gone = {}
  BY DEF KeysInit
<1>2. call \in [Bearers -> Presences] /\ admin \in [Operators -> Errands]
  BY <1>1 DEF Presences, Errands
<1>3. KeysTypeOK
  BY <1>1 DEF KeysTypeOK, Free
<1> QED
  BY <1>1, <1>2, <1>3 DEF KeysInv

\* The two ways a request's place changes: it comes, or it goes on.
LEMMA ComesKeeps ==
  ASSUME KeysInv, NEW c \in Bearers, NEW k \in Keys, NEW at \in Places, Comes(c, at, k),
         at \in Doomed
  PROVE  KeysInv'
<1>1. call' = [call EXCEPT ![c] = [at |-> at, key |-> k, late |-> k \in gone]]
  BY DEF Comes
<1>2. [at |-> at, key |-> k, late |-> k \in gone] \in Presences
  BY DEF Presences
<1>3. call' \in [Bearers -> Presences]
  BY <1>1, <1>2 DEF KeysInv
<1>4. \A b \in Bearers : call'[b].at \in Places \cup {"free"}
  BY <1>3 DEF Presences, Free
<1>5. \A b \in Bearers : call'[b] # Free /\ call'[b].late =>
        call'[b].key \in gone /\ call'[b].at \in Doomed
  BY <1>1 DEF KeysInv
<1> QED
  BY <1>3, <1>4, <1>5 DEF Comes, KeysInv, KeysTypeOK, store, Places

LEMMA Relocated ==
  ASSUME NEW P, NEW K, NEW r \in [at : P, key : K, late : BOOLEAN], NEW at
  PROVE  [r EXCEPT !.at = at] = [at |-> at, key |-> r.key, late |-> r.late]
OBVIOUS

LEMMA GoesKeeps ==
  ASSUME KeysInv, NEW c \in Bearers, NEW at \in Places, call[c] # Free, Goes(c, at),
         call[c].late => at \in Doomed,
         UNCHANGED <<today, store, admin, gone>>, \A t \in tokens' : t.key \in Keys
  PROVE  KeysInv'
<1>1. call[c] \in [at : Places, key : Keys, late : BOOLEAN]
  BY Zenon DEF KeysInv, Presences
<1>2. call' = [call EXCEPT ![c] = [at |-> at, key |-> call[c].key, late |-> call[c].late]]
  <2>1. [call[c] EXCEPT !.at = at] = [at |-> at, key |-> call[c].key, late |-> call[c].late]
    BY <1>1, Relocated
  <2>2. call' = [call EXCEPT ![c] = [call[c] EXCEPT !.at = at]]
    BY Zenon DEF Goes
  <2> QED
    BY <2>1, <2>2, Zenon
<1>3. [at |-> at, key |-> call[c].key, late |-> call[c].late] \in Presences
  BY <1>1 DEF Presences
<1>4. call' \in [Bearers -> Presences]
  BY <1>2, <1>3 DEF KeysInv
<1>5. \A b \in Bearers : call'[b].at \in Places \cup {"free"}
  BY <1>4 DEF Presences, Free
<1>6. \A b \in Bearers : call'[b] # Free /\ call'[b].late =>
        call'[b].key \in gone /\ call'[b].at \in Doomed
  BY <1>2 DEF KeysInv
<1> QED
  BY <1>4, <1>5, <1>6 DEF KeysInv, KeysTypeOK, store, Places

LEMMA CreateKeeps ==
  ASSUME KeysInv, NEW k \in Keys, Create(k)
  PROVE  KeysInv'
<1>1. KeysTypeOK'
  BY DEF Create, KeysInv, KeysTypeOK
<1>2. \A o \in Operators : admin[o] # Free =>
        /\ admin[o].key \in minted'
        /\ admin[o].at = "drop" => admin[o].hash \/ admin[o].key \notin hashes'
  BY DEF Create, KeysInv
<1> QED
  BY <1>1, <1>2 DEF Create, KeysInv

\* An errand begins, goes on or ends; nothing else changes.
LEMMA ErrandKeeps ==
  ASSUME KeysInv, NEW o \in Operators, NEW e \in Errands,
         admin' = [admin EXCEPT ![o] = e],
         e # Free => e.key \in minted /\ (e.at = "drop" => e.hash \/ e.key \notin hashes),
         UNCHANGED <<today, store, tokens, call, gone>>
  PROVE  KeysInv'
<1>1. admin' \in [Operators -> Errands]
  BY DEF KeysInv
<1>2. \A p \in Operators : admin'[p] # Free =>
        /\ admin'[p].key \in minted
        /\ admin'[p].at = "drop" => admin'[p].hash \/ admin'[p].key \notin hashes
  BY DEF KeysInv
<1> QED
  BY <1>1, <1>2 DEF KeysInv, KeysTypeOK, store

LEMMA FindKeyKeeps ==
  ASSUME KeysInv, NEW o \in Operators, NEW k \in Keys, FindKey(o, k)
  PROVE  KeysInv'
<1> DEFINE e == [at |-> "revoke", key |-> k]
<1>1. e \in Errands /\ e.key \in minted /\ e.at # "drop"
  BY DEF FindKey, KeysInv, KeysTypeOK, Errands
<1>2. admin' = [admin EXCEPT ![o] = e] /\ UNCHANGED <<today, store, tokens, call, gone>>
  BY DEF FindKey
<1> QED
  BY <1>1, <1>2, ErrandKeeps

LEMMA FindHashKeeps ==
  ASSUME KeysInv, NEW o \in Operators, FindHash(o)
  PROVE  KeysInv'
<1> DEFINE h == admin[o].key \in hashes
           e == [at |-> "drop", key |-> admin[o].key, hash |-> h]
<1>1. admin[o] # Free /\ admin[o] \in Errands /\ h \in BOOLEAN
  BY DEF FindHash, Free, KeysInv
<1>2. admin[o].key \in Keys /\ admin[o].key \in minted
  BY <1>1 DEF Errands, KeysInv
<1>3. e \in Errands
  BY <1>1, <1>2 DEF Errands
<1>4. e.key \in minted /\ (e.at = "drop" => e.hash \/ e.key \notin hashes)
  BY <1>2
<1>5. admin' = [admin EXCEPT ![o] = e] /\ UNCHANGED <<today, store, tokens, call, gone>>
  BY DEF FindHash
<1> HIDE DEF e
<1> QED
  BY <1>3, <1>4, <1>5, ErrandKeeps

LEMMA DropKeeps ==
  ASSUME KeysInv, NEW o \in Operators, Drop(o)
  PROVE  KeysInv'
<1> DEFINE k == admin[o].key
<1>1. /\ records' = records \ {k} /\ members' = members \ {k} /\ gone' = gone \cup {k}
      /\ hashes' = IF admin[o].hash THEN hashes \ {k} ELSE hashes
      /\ admin' = [admin EXCEPT ![o] = Free]
      /\ UNCHANGED <<today, minted, tokens, call>>
  BY DEF Drop
<1>2. k \in minted /\ (admin[o].hash \/ k \notin hashes)
  BY DEF Drop, Free, KeysInv
<1>3. hashes' = hashes \ {k}
  BY <1>1, <1>2
<1>4. KeysTypeOK'
  BY <1>1, <1>2, <1>3 DEF KeysInv, KeysTypeOK
<1>5. admin' \in [Operators -> Errands]
  BY <1>1 DEF KeysInv, Errands
<1>6. \A p \in Operators : admin'[p] # Free =>
        /\ admin'[p].key \in minted'
        /\ admin'[p].at = "drop" => admin'[p].hash \/ admin'[p].key \notin hashes'
  BY <1>1, <1>3 DEF KeysInv
<1> QED
  BY <1>1, <1>4, <1>5, <1>6 DEF KeysInv

LEMMA AdminFailsKeeps ==
  ASSUME KeysInv, NEW o \in Operators, AdminFails(o)
  PROVE  KeysInv'
<1>1. Free \in Errands
  BY DEF Errands
<1> QED
  BY <1>1, ErrandKeeps DEF AdminFails

LEMMA PresentKeyKeeps ==
  ASSUME KeysInv, NEW c \in Bearers, NEW k \in Keys,
         PresentKey(c, k) \/ PresentKeyForToken(c, k)
  PROVE  KeysInv'
<1>1. CASE PresentKey(c, k)
  BY <1>1, ComesKeeps DEF PresentKey, Places, Doomed
<1>2. CASE PresentKeyForToken(c, k)
  BY <1>2, ComesKeeps DEF PresentKeyForToken, Places, Doomed
<1> QED
  BY <1>1, <1>2

LEMMA PresentTokenKeeps ==
  ASSUME KeysInv, NEW c \in Bearers, NEW t \in tokens, PresentToken(c, t)
  PROVE  KeysInv'
<1>1. t.key \in Keys
  BY DEF KeysInv
<1>2. PICK at \in {"record", "401"} : Comes(c, at, t.key)
  BY DEF PresentToken
<1> QED
  BY <1>1, <1>2, ComesKeeps DEF Places, Doomed, Ends

\* A key that is gone has no hash any more: whoever came after that goes no further.
LEMMA ReadHashKeeps ==
  ASSUME KeysInv, NEW c \in Bearers, ReadHash(c)
  PROVE  KeysInv'
<1>1. call[c] # Free /\ \A t \in tokens' : t.key \in Keys
  <2>1. call[c] # Free
    <3>1. call[c].at # "free"
      BY Zenon DEF ReadHash
    <3> QED
      BY <3>1 DEF Free
  <2>2. tokens' = tokens
    BY DEF ReadHash
  <2> QED
    BY <2>1, <2>2 DEF KeysInv
<1>2. UNCHANGED <<today, store, admin, gone>>
  BY DEF ReadHash
<1>3. CASE call[c].key \notin hashes
  <2>1. Goes(c, "401")
    BY <1>3 DEF ReadHash
  <2> QED
    BY <1>1, <1>2, <2>1, GoesKeeps DEF Places, Ends, Doomed
<1>4. CASE call[c].key \in hashes
  <2>1. ~call[c].late
    BY <1>1, <1>4 DEF KeysInv, KeysTypeOK
  <2>2. PICK at \in {"record", "record for token"} : Goes(c, at)
    BY <1>4 DEF ReadHash
  <2> QED
    BY <1>1, <1>2, <2>1, <2>2, GoesKeeps DEF Places
<1> QED
  BY <1>3, <1>4

\* ... and neither has it a record, which is all that a token's bearer is asked for.
LEMMA ReadRecordKeeps ==
  ASSUME KeysInv, NEW c \in Bearers, ReadRecord(c)
  PROVE  KeysInv'
<1>1. call[c] # Free /\ \A t \in tokens' : t.key \in Keys
  <2>1. call[c] # Free
    <3>1. call[c].at # "free"
      BY Zenon DEF ReadRecord
    <3> QED
      BY <3>1 DEF Free
  <2>2. tokens' = tokens
    BY DEF ReadRecord
  <2> QED
    BY <2>1, <2>2 DEF KeysInv
<1>2. UNCHANGED <<today, store, admin, gone>>
  BY DEF ReadRecord
<1>3. CASE call[c].key \notin records
  <2>1. Goes(c, "401")
    BY <1>3 DEF ReadRecord
  <2> QED
    BY <1>1, <1>2, <2>1, GoesKeeps DEF Places, Ends, Doomed
<1>4. CASE call[c].key \in records
  <2>1. ~call[c].late
    BY <1>1, <1>4 DEF KeysInv, KeysTypeOK
  <2>2. PICK at \in {"principal", "issue"} : Goes(c, at)
    BY <1>4 DEF ReadRecord
  <2> QED
    BY <1>1, <1>2, <2>1, <2>2, GoesKeeps DEF Places, Ends
<1> QED
  BY <1>3, <1>4

LEMMA IssueTokenKeeps ==
  ASSUME KeysInv, NEW c \in Bearers, IssueToken(c)
  PROVE  KeysInv'
<1>1. call[c] # Free /\ call[c].at = "issue" /\ call[c] \in Presences
  BY DEF IssueToken, Free, KeysInv
<1>2. call[c].key \in Keys /\ ~call[c].late
  BY <1>1 DEF Presences, KeysInv, Doomed
<1>3. UNCHANGED <<today, store, admin, gone>>
  BY DEF IssueToken
<1>4. CASE call[c].key \in records
  <2>1. Goes(c, "token") /\ tokens' = tokens \cup {TokenFor(call[c].key)}
    BY <1>4 DEF IssueToken
  <2>2. \A t \in tokens' : t.key \in Keys
    BY <1>2, <2>1 DEF TokenFor, KeysInv
  <2> QED
    BY <1>1, <1>2, <1>3, <2>1, <2>2, GoesKeeps DEF Places, Ends
<1>5. CASE call[c].key \notin records
  <2>1. Goes(c, "500") /\ \A t \in tokens' : t.key \in Keys
    BY <1>5 DEF IssueToken, KeysInv
  <2> QED
    BY <1>1, <1>2, <1>3, <2>1, GoesKeeps DEF Places, Ends
<1> QED
  BY <1>4, <1>5

LEMMA AnsweredKeeps ==
  ASSUME KeysInv, NEW c \in Bearers, Answered(c)
  PROVE  KeysInv'
<1>1. call' = [call EXCEPT ![c] = Free] /\ UNCHANGED <<today, store, tokens, admin, gone>>
  BY DEF Answered
<1>2. call' \in [Bearers -> Presences]
  BY <1>1 DEF KeysInv, Presences
<1>3. \A b \in Bearers : call'[b].at \in Places \cup {"free"}
  BY <1>2 DEF Presences, Free
<1>4. \A b \in Bearers : call'[b] # Free /\ call'[b].late =>
        call'[b].key \in gone /\ call'[b].at \in Doomed
  BY <1>1 DEF KeysInv
<1> QED
  BY <1>1, <1>2, <1>3, <1>4 DEF KeysInv, KeysTypeOK, store, Places

LEMMA KeysSteps == KeysInv /\ [KeysNext]_keyVars => KeysInv'
<1> SUFFICES ASSUME KeysInv, [KeysNext]_keyVars PROVE KeysInv'
  OBVIOUS
<1>1. CASE NextDay
  BY <1>1 DEF NextDay, store, KeysInv, KeysTypeOK
<1>2. ASSUME NEW k \in Keys, Create(k) \/ \E o \in Operators : FindKey(o, k)
      PROVE  KeysInv'
  BY <1>2, CreateKeeps, FindKeyKeeps
<1>3. ASSUME NEW o \in Operators, FindHash(o) \/ Drop(o) \/ AdminFails(o)
      PROVE  KeysInv'
  BY <1>3, FindHashKeeps, DropKeeps, AdminFailsKeeps
<1>4. ASSUME NEW c \in Bearers,
             \/ \E k \in Keys : PresentKey(c, k) \/ PresentKeyForToken(c, k)
             \/ \E t \in tokens : PresentToken(c, t)
             \/ ReadHash(c) \/ ReadRecord(c) \/ IssueToken(c) \/ Answered(c)
      PROVE  KeysInv'
  BY <1>4, PresentKeyKeeps, PresentTokenKeeps, ReadHashKeeps, ReadRecordKeeps, IssueTokenKeeps,
     AnsweredKeeps
<1>5. CASE UNCHANGED keyVars
  BY <1>5 DEF keyVars, KeysInv, KeysTypeOK
<1> QED
  BY <1>1, <1>2, <1>3, <1>4, <1>5 DEF KeysNext

\* The four structures of a key are there together or not at all, and a key whose revocation has
\* returned is in none of them, whatever operators died in the middle (security.py:85-90, :113-125).
THEOREM KeysTogether == KeysSpec => []KeysTypeOK
<1>1. KeysInv => KeysTypeOK
  BY DEF KeysInv
<1> QED
  BY <1>1, KeysInitially, KeysSteps, PTL DEF KeysSpec

\* "Revoking a key revokes its outstanding tokens immediately" (security.py:8-9), for any number of
\* keys, requests and operators and any lifetime of tokens.
THEOREM RevokedNeverEnters == KeysSpec => []RevokedStaysOut
<1>1. KeysInv => RevokedStaysOut
  <2> SUFFICES ASSUME KeysInv, NEW c \in Bearers, call[c].at \in {"principal", "token"}
               PROVE  ~call[c].late
    BY DEF RevokedStaysOut
  <2>1. call[c] # Free
    BY DEF Free
  <2>2. call[c].at \notin Doomed
    BY DEF Doomed
  <2> QED
    BY <2>1, <2>2, Zenon DEF KeysInv
<1> QED
  BY <1>1, KeysInitially, KeysSteps, PTL DEF KeysSpec

(***************************************************************************)
(* The fault table                                                         *)
(***************************************************************************)

Answers == Nothing..table
Questions ==
  {Away} \cup [at : {"read"}, since : 0..tick]
         \cup [at : {"reply", "decide"}, since : 0..tick, by : Answers]

\* A copy that is behind the table fell behind no earlier than the date it bears, and so did an
\* answer; a copy that still decides is younger than REFRESH.
Behind(n) == n # Nothing /\ n < table
FaultInv ==
  /\ FaultTypeOK
  /\ tick \in Nat
  /\ changed \in [0..table -> Nat]
  /\ asking \in [Calls -> Questions]
  /\ \A p \in Pods : Behind(cached[p]) => changed[cached[p] + 1] >= fetched[p]
  /\ \A c \in Calls : asking[c].at = "reply" /\ Behind(asking[c].by) =>
       changed[asking[c].by + 1] >= asking[c].since
  /\ FaultsFresh

LEMMA FaultInitially == FaultInit => FaultInv
<1> SUFFICES ASSUME FaultInit PROVE FaultInv
  OBVIOUS
<1>1. REFRESH \in Nat
  BY FaultAssumption
<1>2. /\ tick = 0 /\ table = 0 /\ changed = [n \in {0} |-> 0] /\ switching = {}
      /\ cached = [p \in Pods |-> -1] /\ fetched = [p \in Pods |-> Never]
      /\ asking = [c \in Calls |-> Away]
  BY DEF FaultInit, Nothing
<1>3. FaultTypeOK
  BY <1>2 DEF FaultTypeOK, Nothing, Away
<1>4. asking \in [Calls -> Questions] /\ \A c \in Calls : asking[c].at = "away"
  BY <1>2 DEF Questions, Away
<1> QED
  BY <1>2, <1>3, <1>4 DEF FaultInv, FaultsFresh, Behind, Nothing

\* What a change of time or of the table does to the calls: nothing that they know becomes ill-typed.
LEMMA QuestionsGrow ==
  ASSUME tick \in Nat, tick' \in Nat, tick <= tick', table \in Nat, table' \in Nat, table <= table'
  PROVE  Questions \subseteq Questions'
<1>1. 0..tick \subseteq 0..tick' /\ Answers \subseteq Answers'
  BY DEF Answers, Nothing
<1> QED
  BY <1>1 DEF Questions, Away

LEMMA TickOnKeeps == FaultInv /\ TickOn => FaultInv'
<1> SUFFICES ASSUME FaultInv, TickOn PROVE FaultInv'
  OBVIOUS
<1>1. /\ tick' = tick + 1 /\ tick \in Nat /\ table \in Nat
      /\ UNCHANGED <<table, changed, cached, fetched, asking, switching>>
  BY DEF TickOn, FaultInv, FaultTypeOK
<1>2. asking' \in [Calls -> Questions']
  BY <1>1, QuestionsGrow DEF FaultInv
<1>3. FaultTypeOK'
  BY <1>1 DEF FaultInv, FaultTypeOK, Never
<1> QED
  BY <1>1, <1>2, <1>3 DEF FaultInv, FaultsFresh, Behind

\* A call that is decided by the copy is decided by one that is younger than REFRESH.
LEMMA MaybeFailKeeps == FaultInv /\ (\E c \in Calls : MaybeFail(c)) => FaultInv'
<1> SUFFICES ASSUME FaultInv, NEW c \in Calls, MaybeFail(c) PROVE FaultInv'
  OBVIOUS
<1> DEFINE p == CallPod[c]
<1>1. p \in Pods /\ REFRESH \in Nat \ {0}
  BY FaultAssumption
<1>2. /\ UNCHANGED <<tick, table, changed, cached, fetched, switching>>
      /\ tick \in Nat /\ table \in Nat /\ changed \in [0..table -> Nat]
      /\ cached \in [Pods -> Answers] /\ fetched \in [Pods -> {Never} \cup 0..tick]
  BY DEF MaybeFail, FaultInv, FaultTypeOK, Answers
<1>3. PICK q \in Questions :
        /\ asking' = [asking EXCEPT ![c] = q]
        /\ q.at \in {"read", "decide"}
        /\ q.at = "decide" => q.since = tick /\ q.by = cached[p] /\ tick - fetched[p] < REFRESH
  <2>1. CASE tick - fetched[p] >= REFRESH
    <3>1. [at |-> "read", since |-> tick] \in Questions
      BY <1>2 DEF Questions
    <3> QED
      BY <2>1, <3>1 DEF MaybeFail
  <2>2. CASE ~(tick - fetched[p] >= REFRESH)
    <3>1. [at |-> "decide", since |-> tick, by |-> cached[p]] \in Questions
      BY <1>1, <1>2 DEF Questions
    <3>2. tick - fetched[p] < REFRESH
      BY <1>1, <1>2, <2>2 DEF Never
    <3> QED
      BY <2>2, <3>1, <3>2 DEF MaybeFail
  <2> QED
    BY <2>1, <2>2
<1>4. Questions' = Questions /\ asking \in [Calls -> Questions]
  BY <1>2 DEF Questions, Answers, FaultInv
<1>5. asking' \in [Calls -> Questions'] /\ asking'[c] = q
      /\ \A d \in Calls : d # c => asking'[d] = asking[d]
  BY <1>3, <1>4
<1>6. FaultTypeOK'
  BY <1>2, <1>3, <1>5 DEF FaultInv, FaultTypeOK
<1>7. ASSUME q.at = "decide", Behind(q.by)
      PROVE  changed[q.by + 1] > q.since - REFRESH
  <2>1. cached[p] \in Answers /\ Behind(cached[p]) /\ q.since = tick /\ q.by = cached[p]
    BY <1>1, <1>2, <1>3, <1>7
  <2>2. cached[p] + 1 \in 0..table /\ changed[cached[p] + 1] \in Nat
    BY <1>2, <2>1 DEF Answers, Behind, Nothing
  <2>3. changed[cached[p] + 1] >= fetched[p]
    BY <1>1, <2>1 DEF FaultInv
  <2>4. fetched[p] \in Int /\ tick - fetched[p] < REFRESH
    BY <1>1, <1>2, <1>3, <1>7 DEF Never
  <2> QED
    BY <1>1, <1>2, <2>1, <2>2, <2>3, <2>4
<1>8. FaultsFresh'
  <2> SUFFICES ASSUME NEW d \in Calls, asking'[d].at = "decide", Behind(asking'[d].by)
               PROVE  changed[asking'[d].by + 1] > asking'[d].since - REFRESH
    BY <1>2 DEF FaultsFresh, Behind
  <2>1. CASE d = c
    BY <1>5, <1>7, <2>1
  <2>2. CASE d # c
    BY <1>5, <2>2 DEF FaultInv, FaultsFresh, Behind
  <2> QED
    BY <2>1, <2>2
<1>9. \A d \in Calls : asking'[d].at = "reply" => asking'[d] = asking[d]
  BY <1>3, <1>5
<1> QED
  BY <1>2, <1>5, <1>6, <1>8, <1>9 DEF FaultInv, Behind

LEMMA ReadTableKeeps == FaultInv /\ (\E c \in Calls : ReadTable(c)) => FaultInv'
<1> SUFFICES ASSUME FaultInv, NEW c \in Calls, ReadTable(c) PROVE FaultInv'
  OBVIOUS
<1>1. /\ UNCHANGED <<tick, table, changed, cached, fetched, switching>>
      /\ table \in Nat /\ asking \in [Calls -> Questions] /\ asking[c].at = "read"
  BY DEF ReadTable, FaultInv, FaultTypeOK
<1>2. PICK a \in {table, Nothing} :
        asking' = [asking EXCEPT ![c] = [at |-> "reply", since |-> asking[c].since, by |-> a]]
  BY DEF ReadTable
<1>3. asking[c].since \in 0..tick
  BY <1>1 DEF Questions, Away
<1>4. a \in Answers /\ ~Behind(a)
  BY <1>1, <1>2 DEF Answers, Behind, Nothing
<1>5. [at |-> "reply", since |-> asking[c].since, by |-> a] \in Questions
  BY <1>3, <1>4 DEF Questions
<1>6. Questions' = Questions
  BY <1>1 DEF Questions, Answers
<1>7. /\ asking' \in [Calls -> Questions']
      /\ asking'[c].at = "reply" /\ asking'[c].by = a
      /\ \A d \in Calls : d # c => asking'[d] = asking[d]
  BY <1>1, <1>2, <1>5, <1>6
<1>8. FaultTypeOK'
  BY <1>1, <1>7 DEF FaultInv, FaultTypeOK
<1>9. FaultsFresh'
  BY <1>1, <1>7 DEF FaultInv, FaultsFresh
<1> QED
  BY <1>1, <1>4, <1>7, <1>8, <1>9 DEF FaultInv, Behind

\* The copy is dated by the clock that was read before the table was, not by the reply.
LEMMA ApplyKeeps == FaultInv /\ (\E c \in Calls : Apply(c)) => FaultInv'
<1> SUFFICES ASSUME FaultInv, NEW c \in Calls, Apply(c) PROVE FaultInv'
  OBVIOUS
<1> DEFINE p == CallPod[c]
           q == asking[c]
<1>1. p \in Pods /\ REFRESH \in Nat \ {0}
  BY FaultAssumption
<1>2. /\ UNCHANGED <<tick, table, changed, switching>>
      /\ tick \in Nat /\ table \in Nat /\ changed \in [0..table -> Nat]
      /\ asking \in [Calls -> Questions] /\ q.at = "reply"
      /\ cached \in [Pods -> Answers] /\ fetched \in [Pods -> {Never} \cup 0..tick]
      /\ cached' = [cached EXCEPT ![p] = q.by] /\ fetched' = [fetched EXCEPT ![p] = q.since]
      /\ asking' = [asking EXCEPT ![c].at = "decide"]
  BY DEF Apply, Dated, FaultInv, FaultTypeOK, Answers
<1>3. q \in [at : {"reply", "decide"}, since : 0..tick, by : Answers]
  BY <1>2 DEF Questions, Away
<1>4. [q EXCEPT !.at = "decide"] \in [at : {"reply", "decide"}, since : 0..tick, by : Answers]
      /\ [q EXCEPT !.at = "decide"].by = q.by /\ [q EXCEPT !.at = "decide"].since = q.since
      /\ [q EXCEPT !.at = "decide"].at = "decide"
  BY <1>3
<1>5. Questions' = Questions /\ Answers' = Answers
  BY <1>2 DEF Questions, Answers
<1>6. /\ asking' \in [Calls -> Questions']
      /\ asking'[c].at = "decide" /\ asking'[c].by = q.by /\ asking'[c].since = q.since
      /\ \A d \in Calls : d # c => asking'[d] = asking[d]
  <2>1. [q EXCEPT !.at = "decide"] \in Questions
    BY <1>4 DEF Questions
  <2>2. asking' = [asking EXCEPT ![c] = [q EXCEPT !.at = "decide"]]
    BY <1>2
  <2> QED
    BY <1>2, <1>4, <1>5, <2>1, <2>2
<1>7. /\ cached' \in [Pods -> Answers'] /\ fetched' \in [Pods -> {Never} \cup 0..tick]
      /\ cached'[p] = q.by /\ fetched'[p] = q.since
      /\ \A r \in Pods : r # p => cached'[r] = cached[r] /\ fetched'[r] = fetched[r]
  BY <1>1, <1>2, <1>3, <1>5
<1>8. FaultTypeOK'
  BY <1>2, <1>6, <1>7 DEF FaultInv, FaultTypeOK, Answers
<1>9. Behind(q.by) => changed[q.by + 1] \in Nat /\ changed[q.by + 1] >= q.since
  <2> SUFFICES ASSUME Behind(q.by)
               PROVE  changed[q.by + 1] \in Nat /\ changed[q.by + 1] >= q.since
    OBVIOUS
  <2>1. q.by + 1 \in 0..table
    <3>1. q.by \in -1..table /\ q.by # -1 /\ q.by < table
      BY <1>3 DEF Behind, Answers, Nothing
    <3> QED
      BY <1>2, <3>1
  <2>2. changed[q.by + 1] >= q.since
    BY <1>2 DEF FaultInv
  <2> QED
    BY <1>2, <2>1, <2>2
<1>10. FaultsFresh'
  <2> SUFFICES ASSUME NEW d \in Calls, asking'[d].at = "decide", Behind(asking'[d].by)
               PROVE  changed[asking'[d].by + 1] > asking'[d].since - REFRESH
    BY <1>2 DEF FaultsFresh, Behind
  <2>1. CASE d = c
    BY <1>1, <1>3, <1>6, <1>9, <2>1
  <2>2. CASE d # c
    BY <1>6, <2>2 DEF FaultInv, FaultsFresh, Behind
  <2> QED
    BY <2>1, <2>2
<1>11. \A r \in Pods : Behind(cached'[r]) => changed[cached'[r] + 1] >= fetched'[r]
  BY <1>7, <1>9 DEF FaultInv
<1> QED
  BY <1>2, <1>6, <1>8, <1>10, <1>11 DEF FaultInv, Behind

LEMMA DecideKeeps == FaultInv /\ (\E c \in Calls : Decide(c)) => FaultInv'
<1> SUFFICES ASSUME FaultInv, NEW c \in Calls, Decide(c) PROVE FaultInv'
  OBVIOUS
<1>1. /\ UNCHANGED <<tick, table, changed, cached, fetched, switching>>
      /\ asking \in [Calls -> Questions] /\ asking' = [asking EXCEPT ![c] = Away]
  BY DEF Decide, FaultInv
<1>2. Away \in Questions' /\ Away.at = "away" /\ Questions' = Questions
  BY <1>1 DEF Questions, Answers, Away
<1>3. /\ asking' \in [Calls -> Questions'] /\ asking'[c].at = "away"
      /\ \A d \in Calls : d # c => asking'[d] = asking[d]
  BY <1>1, <1>2
<1>4. FaultTypeOK' /\ FaultsFresh'
  BY <1>1, <1>3 DEF FaultInv, FaultTypeOK, FaultsFresh
<1> QED
  BY <1>1, <1>3, <1>4 DEF FaultInv, Behind

\* What was up to date falls behind now, and nothing bears a date to come.
LEMMA SwitchKeeps == FaultInv /\ (\E p \in Pods : Switch(p)) => FaultInv'
<1> SUFFICES ASSUME FaultInv, NEW p \in Pods, Switch(p) PROVE FaultInv'
  OBVIOUS
<1>1. REFRESH \in Nat \ {0}
  BY FaultAssumption
<1>2. /\ UNCHANGED <<tick, cached, fetched, asking>>
      /\ table' = table + 1 /\ switching' = switching \cup {p}
      /\ changed' = [n \in 0..table' |-> IF n = table' THEN tick ELSE changed[n]]
      /\ tick \in Nat /\ table \in Nat /\ changed \in [0..table -> Nat]
      /\ asking \in [Calls -> Questions]
      /\ cached \in [Pods -> Answers] /\ fetched \in [Pods -> {Never} \cup 0..tick]
  BY DEF Switch, FaultInv, FaultTypeOK, Answers
<1>3. changed' \in [0..table' -> Nat] /\ changed'[table + 1] = tick
      /\ \A n \in 0..table : changed'[n] = changed[n]
  BY <1>2
<1>4. asking' \in [Calls -> Questions']
  BY <1>2, QuestionsGrow
<1>5. FaultTypeOK'
  BY <1>2 DEF FaultInv, FaultTypeOK, Nothing
<1>6. ASSUME NEW n \in Answers, Behind(n)'
      PROVE  IF Behind(n) THEN changed'[n + 1] = changed[n + 1] ELSE changed'[n + 1] = tick
  BY <1>2, <1>3, <1>6 DEF Answers, Behind, Nothing
<1>7. \A r \in Pods : Behind(cached[r])' => changed'[cached[r] + 1] >= fetched[r]
  <2> SUFFICES ASSUME NEW r \in Pods, Behind(cached[r])'
               PROVE  changed'[cached[r] + 1] >= fetched[r]
    OBVIOUS
  <2>1. cached[r] \in Answers /\ cached'[r] = cached[r] /\ fetched[r] <= tick
    BY <1>1, <1>2 DEF Never
  <2> QED
    BY <1>2, <1>6, <2>1 DEF FaultInv, Behind
<1>8. ASSUME NEW c \in Calls, asking[c].at \in {"reply", "decide"}
      PROVE  asking[c].since \in 0..tick /\ asking[c].by \in Answers
  BY <1>2, <1>8 DEF Questions, Away
<1>9. \A c \in Calls : asking[c].at = "reply" /\ Behind(asking[c].by)' =>
        changed'[asking[c].by + 1] >= asking[c].since
  <2> SUFFICES ASSUME NEW c \in Calls, asking[c].at = "reply", Behind(asking[c].by)'
               PROVE  changed'[asking[c].by + 1] >= asking[c].since
    OBVIOUS
  <2>1. asking[c].since \in 0..tick /\ asking[c].by \in Answers
    BY <1>8
  <2>2. CASE Behind(asking[c].by)
    <3>1. changed[asking[c].by + 1] >= asking[c].since
      BY <2>2 DEF FaultInv
    <3>2. changed'[asking[c].by + 1] = changed[asking[c].by + 1]
      BY <1>2, <1>6, <2>1, <2>2
    <3> QED
      BY <3>1, <3>2
  <2>3. CASE ~Behind(asking[c].by)
    <3>1. changed'[asking[c].by + 1] = tick
      BY <1>2, <1>6, <2>1, <2>3
    <3>2. tick \in Nat /\ asking[c].since \in Nat /\ asking[c].since <= tick
      BY <1>2, <2>1
    <3> QED
      BY <3>1, <3>2
  <2> QED
    BY <2>2, <2>3
<1>10. FaultsFresh'
  <2> SUFFICES ASSUME NEW c \in Calls, asking[c].at = "decide", Behind(asking[c].by)'
               PROVE  changed'[asking[c].by + 1] > asking[c].since - REFRESH
    BY <1>2 DEF FaultsFresh, Behind
  <2>1. asking[c].since \in 0..tick /\ asking[c].by \in Answers
    BY <1>8
  <2>2. CASE Behind(asking[c].by)
    <3>1. changed[asking[c].by + 1] > asking[c].since - REFRESH
      BY <2>2 DEF FaultInv, FaultsFresh, Behind
    <3>2. changed'[asking[c].by + 1] = changed[asking[c].by + 1]
      BY <1>2, <1>6, <2>1, <2>2
    <3> QED
      BY <3>1, <3>2
  <2>3. CASE ~Behind(asking[c].by)
    <3>1. changed'[asking[c].by + 1] = tick
      BY <1>2, <1>6, <2>1, <2>3
    <3>2. tick \in Nat /\ asking[c].since \in Nat /\ asking[c].since <= tick
      BY <1>2, <2>1
    <3> QED
      BY <1>1, <3>1, <3>2
  <2> QED
    BY <2>2, <2>3
<1> QED
  BY <1>2, <1>3, <1>4, <1>5, <1>7, <1>9, <1>10 DEF FaultInv, Behind

LEMMA ExpireKeeps == FaultInv /\ (\E p \in Pods : Expire(p)) => FaultInv'
<1> SUFFICES ASSUME FaultInv, NEW p \in Pods, Expire(p) PROVE FaultInv'
  OBVIOUS
<1>1. REFRESH \in Nat \ {0} /\ Never < 0 /\ Never \in Int
  BY FaultAssumption DEF Never
<1>2. /\ UNCHANGED <<tick, table, changed, cached, asking>>
      /\ fetched' = [fetched EXCEPT ![p] = Never] /\ switching' = switching \ {p}
      /\ table \in Nat /\ changed \in [0..table -> Nat]
      /\ cached \in [Pods -> Answers] /\ fetched \in [Pods -> {Never} \cup 0..tick]
  BY DEF Expire, FaultInv, FaultTypeOK, Answers
<1>3. asking' \in [Calls -> Questions']
  BY <1>2 DEF FaultInv, Questions, Answers
<1>4. FaultTypeOK' /\ FaultsFresh'
  BY <1>2 DEF FaultInv, FaultTypeOK, FaultsFresh
<1>5. \A r \in Pods : Behind(cached[r]) => changed[cached[r] + 1] >= fetched'[r]
  <2> SUFFICES ASSUME NEW r \in Pods, Behind(cached[r])
               PROVE  changed[cached[r] + 1] >= fetched'[r]
    OBVIOUS
  <2>1. changed[cached[r] + 1] \in Nat
    BY <1>2 DEF Answers, Behind, Nothing
  <2> QED
    BY <1>1, <1>2, <2>1 DEF FaultInv
<1> QED
  BY <1>2, <1>3, <1>4, <1>5 DEF FaultInv, Behind

LEMMA FaultSteps == FaultInv /\ [FaultNext]_faultVars => FaultInv'
<1> SUFFICES ASSUME FaultInv, [FaultNext]_faultVars PROVE FaultInv'
  OBVIOUS
<1>1. CASE TickOn
  BY <1>1, TickOnKeeps
<1>2. CASE \E c \in Calls : MaybeFail(c) \/ ReadTable(c) \/ Apply(c) \/ Decide(c)
  BY <1>2, MaybeFailKeeps, ReadTableKeeps, ApplyKeeps, DecideKeeps
<1>3. CASE \E p \in Pods : Switch(p) \/ Expire(p)
  BY <1>3, SwitchKeeps, ExpireKeeps
<1>4. CASE UNCHANGED faultVars
  <2>1. UNCHANGED <<tick, table, changed, cached, fetched, asking, switching>>
    BY <1>4 DEF faultVars
  <2>2. Questions' = Questions
    BY <2>1 DEF Questions, Answers
  <2> QED
    BY <2>1, <2>2 DEF FaultInv, FaultTypeOK, FaultsFresh, Behind
<1> QED
  BY <1>1, <1>2, <1>3, <1>4 DEF FaultNext

\* A fault that was set or cleared a refresh interval before a call came decides that call, on
\* every replica: for any number of replicas, calls and operators, any interval and any order of
\* the reads' answers (FaultInjector.rates, faults.py:46-56).
THEOREM FaultsStayFresh == FaultSpec => []FaultsFresh
<1>1. FaultInv => FaultsFresh
  BY DEF FaultInv
<1> QED
  BY <1>1, FaultInitially, FaultSteps, PTL DEF FaultSpec

(***************************************************************************)
(* The gate                                                                *)
(*                                                                         *)
(* The invariant adds that the semaphore's queue holds every waiter once.  *)
(* A step that wakes the first pending waiter is a Serve of BoundedSlots   *)
(* because that waiter has the least index among the pending ones.         *)
(***************************************************************************)

\* There is a least one: the finite sets of numbers are well-founded by inclusion.
LEMMA LeastNat ==
  ASSUME NEW T, T \subseteq Nat, T # {}
  PROVE \E x \in T : \A y \in T : x <= y
<1> DEFINE R == StrictSubsetOrdering(Nat)
           B == {1..n : n \in T}
<1>1. IsWellFoundedOn(R, FiniteSubsetsOf(Nat))
  BY FS_StrictSubsetOrderingWellFounded
<1>2. B \subseteq FiniteSubsetsOf(Nat) /\ B # {}
  <2>1. ASSUME NEW n \in T PROVE 1..n \in FiniteSubsetsOf(Nat)
    <3>1. IsFiniteSet(1..n) /\ 1..n \in SUBSET Nat
      BY FS_Interval
    <3> QED BY <3>1, Zenon DEF FiniteSubsetsOf
  <2>2. PICK n \in T : TRUE
    OBVIOUS
  <2> QED BY <2>1, <2>2, Zenon
<1>3. \A x, y \in Nat : x < y => <<1..x, 1..y>> \in R
  <2> SUFFICES ASSUME NEW x \in Nat, NEW y \in Nat, x < y
               PROVE  <<1..x, 1..y>> \in R
    OBVIOUS
  <2>1. 1..x \in SUBSET Nat /\ 1..y \in SUBSET Nat /\ 1..x \subseteq 1..y
    OBVIOUS
  <2>2. y \in 1..y /\ y \notin 1..x
    OBVIOUS
  <2> QED
    BY <2>1, <2>2, Zenon DEF StrictSubsetOrdering
<1> HIDE DEF R
<1>4. PICK b \in B : \A c \in B : <<c, b>> \notin R
  <2> HIDE DEF B
  <2> QED BY <1>1, <1>2, WFMin, Zenon
<1>5. PICK x \in T : b = 1..x
  BY <1>4
<1>6. ASSUME NEW y \in T PROVE x <= y
  <2>1. 1..y \in B
    OBVIOUS
  <2>2. ~(y < x)
    BY <2>1, <1>3, <1>4, <1>5, Zenon
  <2> QED BY <2>2
<1> QED BY <1>6, Zenon


Holding == {"granted", "withdrawn", "acquired", "running"}
Counting == States \ {"out", "running"}
InLine == {"queued", "granted", "dropped", "withdrawn"}
InOf(s, S) == {c \in Callers : s[c] \in S}
Put(s, c, x) == [s EXCEPT ![c] = x]

\* The queue holds every waiter, once.
Queues(q, s) ==
  /\ q \in Seq(Callers)
  /\ \A i, j \in DOMAIN q : q[i] = q[j] => i = j
  /\ \A c \in Callers : s[c] \in InLine <=> \E i \in DOMAIN q : q[i] = c

Precedes(q, a, b) == \E i, j \in DOMAIN q : i < j /\ q[i] = a /\ q[j] = b

GateInv ==
  /\ budgeted \in BOOLEAN
  /\ state \in [Callers -> States]
  /\ slots \in Nat /\ slots + Cardinality(InOf(state, Holding)) = MAX_CONCURRENCY
  /\ waiting = Cardinality(InOf(state, Counting))
  /\ ~budgeted => waiting <= MAX_QUEUE /\ InOf(state, {"starting", "acquired"}) = {}
  /\ strays \in 0..MAX_STRAYS
  /\ Queues(queue, state)
  /\ NoIdleSlot

\* One caller moves: the sets it leaves lose it and the sets it comes to get it.
LEMMA Moves ==
  ASSUME NEW s \in [Callers -> States], NEW c \in Callers, NEW x \in States, NEW t,
         t = Put(s, c, x)
  PROVE  /\ t \in [Callers -> States] /\ t[c] = x /\ \A d \in Callers \ {c} : t[d] = s[d]
         /\ \A S : /\ x \in S => InOf(t, S) = InOf(s, S) \cup {c}
                   /\ x \notin S => InOf(t, S) = InOf(s, S) \ {c}
BY DEF InOf, Put

LEMMA Counts == \A s, S : Cardinality(InOf(s, S)) \in Nat
BY GateAssumption, FS_Subset, FS_CardinalityType DEF InOf

LEMMA CountMoves ==
  ASSUME NEW s \in [Callers -> States], NEW c \in Callers, NEW x \in States, NEW t,
         t = Put(s, c, x), NEW S
  PROVE  LET m == Cardinality(InOf(s, S))
             n == Cardinality(InOf(t, S))
         IN /\ m \in Nat /\ n \in Nat
            /\ (x \in S <=> s[c] \in S) => n = m
            /\ x \in S /\ s[c] \notin S => n = m + 1
            /\ x \notin S /\ s[c] \in S => n = m - 1
<1> DEFINE A == InOf(s, S)
           B == InOf(t, S)
<1>1. IsFiniteSet(A) /\ Cardinality(A) \in Nat /\ Cardinality(B) \in Nat
  <2>1. A \subseteq Callers
    BY DEF InOf
  <2> QED
    BY <2>1, GateAssumption, Counts, FS_Subset
<1>2. /\ x \in S => B = A \cup {c}
      /\ x \notin S => B = A \ {c}
  BY Moves
<1>3. c \in A <=> s[c] \in S
  BY DEF InOf
<1> HIDE DEF A, B
<1>4. CASE x \in S
  <2>1. Cardinality(B) = IF c \in A THEN Cardinality(A) ELSE Cardinality(A) + 1
    BY <1>1, <1>2, <1>4, FS_AddElement
  <2> QED
    BY <1>1, <1>3, <1>4, <2>1 DEF A, B
<1>5. CASE x \notin S
  <2>1. Cardinality(B) = IF c \in A THEN Cardinality(A) - 1 ELSE Cardinality(A)
    BY <1>1, <1>2, <1>5, FS_RemoveElement
  <2> QED
    BY <1>1, <1>3, <1>5, <2>1 DEF A, B
<1> QED
  BY <1>4, <1>5

LEMMA Leaves ==
  ASSUME NEW q \in Seq(Callers), NEW c \in Callers, NEW k \in DOMAIN q, q[k] = c,
         \A i, j \in DOMAIN q : q[i] = q[j] => i = j
  PROVE  /\ Without(q, c) \in Seq(Callers)
         /\ \A i, j \in DOMAIN Without(q, c) : Without(q, c)[i] = Without(q, c)[j] => i = j
         /\ \A d \in Callers : (\E i \in DOMAIN Without(q, c) : Without(q, c)[i] = d)
                                 <=> d # c /\ \E i \in DOMAIN q : q[i] = d
         /\ \A a, b \in Callers \ {c} : Precedes(Without(q, c), a, b) <=> Precedes(q, a, b)
<1> DEFINE r == Without(q, c)
           old(i) == IF i < k THEN i ELSE i + 1
<1>1. (CHOOSE i \in DOMAIN q : q[i] = c) = k
  OBVIOUS
<1>2. k \in 1..Len(q) /\ DOMAIN q = 1..Len(q) /\ Len(q) \in Nat
  OBVIOUS
<1>3. r = [i \in 1..Len(q) - 1 |-> q[old(i)]]
  BY <1>1, <1>2 DEF Without
<1>4. /\ \A i \in 1..Len(q) - 1 : old(i) \in 1..Len(q) /\ old(i) # k
      /\ \A i, j \in 1..Len(q) - 1 : (old(i) = old(j) <=> i = j) /\ (old(i) < old(j) <=> i < j)
      /\ \A m \in 1..Len(q) : m # k => \E i \in 1..Len(q) - 1 : old(i) = m
  <2>1. ASSUME NEW m \in 1..Len(q), m # k PROVE \E i \in 1..Len(q) - 1 : old(i) = m
    <3>1. CASE m < k
      BY <1>2, <2>1, <3>1
    <3>2. CASE m > k
      <4>1. m - 1 \in 1..Len(q) - 1 /\ old(m - 1) = m
        BY <1>2, <2>1, <3>2
      <4> QED
        BY <4>1
    <3> QED
      BY <1>2, <2>1, <3>1, <3>2
  <2> QED
    BY <1>2, <2>1
<1>5. r \in Seq(Callers) /\ DOMAIN r = 1..Len(q) - 1 /\ \A i \in DOMAIN r : r[i] = q[old(i)]
  BY <1>2, <1>3, <1>4
<1> HIDE DEF r, old
<1>6. \A i, j \in DOMAIN r : r[i] = r[j] => i = j
  BY <1>2, <1>4, <1>5
<1>7. \A d \in Callers : (\E i \in DOMAIN r : r[i] = d) <=> d # c /\ \E i \in DOMAIN q : q[i] = d
  <2>1. ASSUME NEW d \in Callers, NEW i \in DOMAIN r, r[i] = d
        PROVE  d # c /\ \E j \in DOMAIN q : q[j] = d
    BY <1>2, <1>4, <1>5, <2>1
  <2>2. ASSUME NEW d \in Callers, d # c, NEW j \in DOMAIN q, q[j] = d
        PROVE  \E i \in DOMAIN r : r[i] = d
    <3>1. PICK i \in 1..Len(q) - 1 : old(i) = j
      BY <1>2, <1>4, <2>2
    <3> QED
      BY <1>5, <2>2, <3>1
  <2> QED
    BY <2>1, <2>2
<1>8. ASSUME NEW a \in Callers \ {c}, NEW b \in Callers \ {c}
      PROVE  Precedes(r, a, b) <=> Precedes(q, a, b)
  <2>1. ASSUME Precedes(q, a, b) PROVE Precedes(r, a, b)
    <3>1. PICK m, n \in DOMAIN q : m < n /\ q[m] = a /\ q[n] = b
      BY <2>1 DEF Precedes
    <3>2. m # k /\ n # k
      BY <3>1
    <3>3. PICK i \in 1..Len(q) - 1 : old(i) = m
      BY <1>2, <1>4, <3>2
    <3>4. PICK j \in 1..Len(q) - 1 : old(j) = n
      BY <1>2, <1>4, <3>2
    <3> QED
      BY <1>4, <1>5, <3>1, <3>3, <3>4 DEF Precedes
  <2>2. ASSUME Precedes(r, a, b) PROVE Precedes(q, a, b)
    <3>1. PICK i, j \in DOMAIN r : i < j /\ r[i] = a /\ r[j] = b
      BY <2>2 DEF Precedes
    <3>2. /\ old(i) \in DOMAIN q /\ old(j) \in DOMAIN q
          /\ old(i) < old(j) /\ q[old(i)] = a /\ q[old(j)] = b
      BY <1>2, <1>4, <1>5, <3>1
    <3> QED
      BY <3>2 DEF Precedes
  <2> QED
    BY <2>1, <2>2
<1> QED
  BY <1>5, <1>6, <1>7, <1>8 DEF r

\* What a release does with n free slots: the first that waits gets one.
LEMMA Waking ==
  ASSUME NEW s \in [Callers -> States], NEW q, Queues(q, s), NEW n \in Nat, Wake(s, q, n)
  PROVE  /\ state' \in [Callers -> States] /\ slots' \in Nat
         /\ slots' + Cardinality(InOf(state', Holding)) = n + Cardinality(InOf(s, Holding))
         /\ InOf(state', Counting) = InOf(s, Counting)
         /\ InOf(state', {"starting", "acquired"}) = InOf(s, {"starting", "acquired"})
         /\ Queues(q, state')
         /\ slots' > 0 /\ InOf(state', {"queued"}) # {} => InOf(state', {"granted", "withdrawn"}) # {}
         /\ \E served \in SUBSET InOf(s, {"queued"}) :
              /\ \A a \in served, b \in InOf(s, {"queued"}) : Precedes(q, b, a) => b \in served
              /\ InOf(state', Holding) = InOf(s, Holding) \cup served
              /\ InOf(state', {"queued"}) = InOf(s, {"queued"}) \ served
<1> DEFINE pending == {i \in DOMAIN q : s[q[i]] = "queued"}
           front == CHOOSE i \in pending : \A j \in pending : i <= j
<1>0. \A S : Cardinality(InOf(s, S)) \in Nat
  BY GateAssumption, FS_Subset, FS_CardinalityType DEF InOf
<1>1. CASE pending = {} \/ n = 0
  <2>1. state' = s /\ slots' = n
    BY <1>1 DEF Wake
  <2>2. n > 0 => InOf(s, {"queued"}) = {}
    BY <1>1 DEF Queues, InOf, InLine
  <2>3. {} \in SUBSET InOf(s, {"queued"})
    OBVIOUS
  <2>4. \A S : InOf(state', S) = InOf(s, S)
    BY <2>1
  <2> HIDE DEF pending
  <2>5. /\ \A a \in {}, b \in InOf(s, {"queued"}) : Precedes(q, b, a) => b \in {}
        /\ InOf(state', Holding) = InOf(s, Holding) \cup {}
        /\ InOf(state', {"queued"}) = InOf(s, {"queued"}) \ {}
    BY <2>4
  <2>6. Queues(q, state')
    BY <2>1
  <2> QED
    BY <2>1, <2>2, <2>3, <2>4, <2>5, <2>6
<1>2. CASE pending # {} /\ n # 0
  <2>1. pending \subseteq Nat
    BY DEF Queues
  <2>2. \E i \in pending : \A j \in pending : i <= j
    <3> HIDE DEF pending
    <3> QED
      BY <1>2, <2>1, LeastNat
  <2>3. front \in pending /\ \A j \in pending : front <= j
    BY <2>2
  <2> DEFINE f == q[front]
  <2>4. state' = Put(s, f, "granted") /\ slots' = n - 1
    BY <1>2 DEF Wake, Put
  <2>5. f \in Callers /\ s[f] = "queued"
    BY <2>3 DEF Queues
  <2>6. \A b \in InOf(s, {"queued"}) : Precedes(q, b, f) => b = f
    <3>1. SUFFICES ASSUME NEW i \in DOMAIN q, NEW j \in DOMAIN q, i < j, s[q[i]] = "queued", q[j] = f
                   PROVE  FALSE
      BY DEF Precedes, InOf
    <3>2. j = front /\ i \in pending
      BY <2>3, <3>1 DEF Queues
    <3> QED
      BY <2>1, <2>3, <3>1, <3>2
  <2> HIDE DEF f, front, pending
  <2>7. /\ "granted" \in States
        /\ "granted" \in Holding /\ "queued" \notin Holding
        /\ "granted" \in Counting /\ "queued" \in Counting
        /\ "granted" \in InLine /\ "queued" \in InLine
    BY DEF States, Holding, Counting, InLine
  <2>8. /\ state' \in [Callers -> States] /\ state'[f] = "granted"
        /\ \A d \in Callers \ {f} : state'[d] = s[d]
        /\ \A S : /\ "granted" \in S => InOf(state', S) = InOf(s, S) \cup {f}
                  /\ "granted" \notin S => InOf(state', S) = InOf(s, S) \ {f}
        /\ Cardinality(InOf(state', Holding)) = Cardinality(InOf(s, Holding)) + 1
    <3>1. /\ state' \in [Callers -> States] /\ state'[f] = "granted"
          /\ \A d \in Callers \ {f} : state'[d] = s[d]
          /\ \A S : /\ "granted" \in S => InOf(state', S) = InOf(s, S) \cup {f}
                    /\ "granted" \notin S => InOf(state', S) = InOf(s, S) \ {f}
      BY <2>4, <2>5, <2>7, Moves
    <3>2. Cardinality(InOf(state', Holding)) = Cardinality(InOf(s, Holding)) + 1
      BY <2>4, <2>5, <2>7, CountMoves
    <3> QED
      BY <3>1, <3>2
  <2>9. slots' \in Nat
        /\ slots' + Cardinality(InOf(state', Holding)) = n + Cardinality(InOf(s, Holding))
    BY <1>0, <1>2, <2>4, <2>8
  <2>10. /\ InOf(state', Counting) = InOf(s, Counting)
         /\ InOf(state', {"starting", "acquired"}) = InOf(s, {"starting", "acquired"})
    BY <2>5, <2>7, <2>8 DEF InOf
  <2>11. Queues(q, state')
    BY <2>5, <2>7, <2>8 DEF Queues
  <2>12. f \in InOf(state', {"granted", "withdrawn"})
    BY <2>5, <2>8 DEF InOf
  <2>13. /\ {f} \in SUBSET InOf(s, {"queued"})
         /\ \A a \in {f}, b \in InOf(s, {"queued"}) : Precedes(q, b, a) => b \in {f}
         /\ InOf(state', Holding) = InOf(s, Holding) \cup {f}
         /\ InOf(state', {"queued"}) = InOf(s, {"queued"}) \ {f}
    BY <2>5, <2>6, <2>7, <2>8 DEF InOf
  <2> QED
    BY <2>8, <2>9, <2>10, <2>11, <2>12, <2>13
<1> QED
  BY <1>1, <1>2

AheadOf(s, q) == {w \in InOf(s, {"queued"}) \X InOf(s, {"queued"}) : Precedes(q, w[1], w[2])}

LEMMA Views ==
  /\ \A S : In(S) = InOf(state, S) /\ In(S)' = InOf(state', S)
  /\ Holders = InOf(state, Holding) /\ Holders' = InOf(state', Holding)
  /\ Queued = InOf(state, {"queued"}) /\ Queued' = InOf(state', {"queued"})
  /\ Ahead = AheadOf(state, queue) /\ Ahead' = AheadOf(state', queue')
<1>1. /\ \A S : In(S) = InOf(state, S) /\ In(S)' = InOf(state', S)
      /\ Holders = InOf(state, Holding) /\ Holders' = InOf(state', Holding)
      /\ Queued = InOf(state, {"queued"}) /\ Queued' = InOf(state', {"queued"})
  BY DEF In, InOf, Holders, Queued, Holding
<1>2. ASSUME NEW S, NEW q
      PROVE  {w \in S \X S : \E i, j \in DOMAIN q : i < j /\ w = <<q[i], q[j]>>}
               = {w \in S \X S : Precedes(q, w[1], w[2])}
  BY DEF Precedes
<1>3. Ahead = AheadOf(state, queue)
  BY <1>1, <1>2 DEF Ahead, AheadOf
<1>4. Ahead' = AheadOf(state', queue')
  BY <1>1, <1>2 DEF Ahead, AheadOf
<1> QED
  BY <1>1, <1>3, <1>4

LEMMA SameCount == \A S : Slots!Cardinality(S) = Cardinality(S)
BY DEF Slots!Cardinality, Cardinality, Slots!IsFiniteSet, IsFiniteSet

\* Clients that leave, and the first in line served.
LEMMA Serves ==
  ASSUME NEW leavers \in SUBSET Callers,
         NEW served \in SUBSET (InOf(state, {"queued"}) \ leavers),
         \A a \in served, b \in InOf(state, {"queued"}) \ leavers :
           Precedes(queue, b, a) => b \in served,
         InOf(state', Holding) = (InOf(state, Holding) \ leavers) \cup served,
         InOf(state', {"queued"}) = (InOf(state, {"queued"}) \ leavers) \ served,
         \A a, b \in InOf(state', {"queued"}) : Precedes(queue', a, b) <=> Precedes(queue, a, b),
         Cardinality(InOf(state', Holding)) <= MAX_CONCURRENCY
  PROVE  Slots!SlotsNext
<1> DEFINE L == InOf(state, {"queued"})
           M == InOf(state', {"queued"})
<1>1. AheadOf(state', queue') = AheadOf(state, queue) \cap (M \X M)
  <2>1. M \subseteq L
    OBVIOUS
  <2>2. \A w \in M \X M : Precedes(queue', w[1], w[2]) <=> Precedes(queue, w[1], w[2])
    OBVIOUS
  <2>3. M \X M \subseteq L \X L
    BY <2>1
  <2> QED
    BY <2>2, <2>3 DEF AheadOf
<1>2. \A a \in served, b \in L \ leavers : <<b, a>> \in AheadOf(state, queue) => b \in served
  BY DEF AheadOf
<1>3. Slots!Serve(leavers)
  <2>1. /\ served \in SUBSET (Queued \ leavers)
        /\ \A a \in served, b \in Queued \ leavers : <<b, a>> \in Ahead => b \in served
        /\ Holders' = (Holders \ leavers) \cup served
        /\ Queued' = (Queued \ leavers) \ served
        /\ Cardinality(Holders') <= MAX_CONCURRENCY
    BY <1>2, Views
  <2>2. Ahead' = Ahead \cap (Queued' \X Queued')
    BY <1>1, Views
  <2> QED
    BY <2>1, <2>2, SameCount DEF Slots!Serve
<1> QED
  BY <1>3 DEF Slots!SlotsNext

\* A step that neither the line nor the holders see.
LEMMA Unseen ==
  ASSUME InOf(state', Holding) = InOf(state, Holding),
         InOf(state', {"queued"}) = InOf(state, {"queued"}),
         \A a, b \in InOf(state, {"queued"}) : Precedes(queue', a, b) <=> Precedes(queue, a, b)
  PROVE  UNCHANGED Slots!slotVars
<1>1. AheadOf(state', queue') = AheadOf(state, queue)
  BY DEF AheadOf
<1> QED
  BY <1>1, Views DEF Slots!slotVars

\* A caller that has run again, has ended or goes away leaves the queue, if it is there.
LEMMA LeavesQueue ==
  ASSUME GateInv, NEW c \in Callers, NEW x \in States \ InLine, NEW r,
         \/ state[c] \notin InLine /\ r = queue
         \/ state[c] \in InLine /\ r = Without(queue, c)
  PROVE  /\ Queues(r, Put(state, c, x))
         /\ \A a, b \in Callers \ {c} : Precedes(r, a, b) <=> Precedes(queue, a, b)
<1> DEFINE s == Put(state, c, x)
<1>1. /\ s[c] = x /\ \A d \in Callers \ {c} : s[d] = state[d]
      /\ Queues(queue, state)
  BY Moves DEF GateInv
<1> HIDE DEF s
<1>2. CASE state[c] \notin InLine /\ r = queue
  BY <1>1, <1>2 DEF Queues, s
<1>3. CASE state[c] \in InLine /\ r = Without(queue, c)
  <2>1. PICK k \in DOMAIN queue : queue[k] = c
    BY <1>1, <1>3 DEF Queues
  <2>2. queue \in Seq(Callers) /\ \A i, j \in DOMAIN queue : queue[i] = queue[j] => i = j
    BY <1>1 DEF Queues
  <2>3. /\ r \in Seq(Callers)
        /\ \A i, j \in DOMAIN r : r[i] = r[j] => i = j
        /\ \A d \in Callers : (\E i \in DOMAIN r : r[i] = d)
                                <=> d # c /\ \E i \in DOMAIN queue : queue[i] = d
        /\ \A a, b \in Callers \ {c} : Precedes(r, a, b) <=> Precedes(queue, a, b)
    BY <1>3, <2>1, <2>2, Leaves
  <2>4. \A d \in Callers : s[d] \in InLine <=> \E i \in DOMAIN r : r[i] = d
    BY <1>1, <2>3 DEF Queues
  <2> QED
    BY <2>3, <2>4 DEF Queues, s
<1> QED
  BY <1>2, <1>3

\* What a step of a caller that has a slot does, whether it keeps it or gives it back.
LEMMA Released ==
  ASSUME GateInv, NEW c \in Callers, NEW x \in States, NEW n \in Nat,
         \/ state[c] \in {"running", "withdrawn"} /\ x = "out" /\ n = slots + 1
         \/ state[c] = "granted" /\ x \in {"acquired", "running"} /\ n = slots,
         IF state[c] = "running" THEN queue' = queue ELSE queue' = Without(queue, c),
         Wake(Put(state, c, x), queue', n)
  PROVE  /\ state' \in [Callers -> States] /\ slots' \in Nat
         /\ slots' + Cardinality(InOf(state', Holding)) = MAX_CONCURRENCY
         /\ Cardinality(InOf(state', Counting)) = Cardinality(InOf(Put(state, c, x), Counting))
         /\ InOf(state', {"starting", "acquired"})
              = InOf(Put(state, c, x), {"starting", "acquired"})
         /\ Queues(queue', state') /\ NoIdleSlot'
         /\ [Slots!SlotsNext]_(Slots!slotVars)
<1> DEFINE s == Put(state, c, x)
           leavers == IF x = "out" THEN {c} ELSE {}
           H == InOf(state, Holding)
           L == InOf(state, {"queued"})
<1>0. /\ state \in [Callers -> States] /\ slots \in Nat /\ Queues(queue, state)
      /\ slots + Cardinality(H) = MAX_CONCURRENCY
      /\ MAX_CONCURRENCY \in Nat /\ \A S, t : Cardinality(InOf(t, S)) \in Nat
  BY GateAssumption, Counts DEF GateInv
<1>1. /\ s \in [Callers -> States] /\ s[c] = x /\ \A d \in Callers \ {c} : s[d] = state[d]
  BY <1>0, Moves
<1>2. /\ x \in States \ InLine
      /\ \/ state[c] \notin InLine /\ queue' = queue
         \/ state[c] \in InLine /\ queue' = Without(queue, c)
  BY DEF InLine, States
<1>3. /\ Queues(queue', s)
      /\ \A a, b \in Callers \ {c} : Precedes(queue', a, b) <=> Precedes(queue, a, b)
  BY <1>2, LeavesQueue
<1>4. n + Cardinality(InOf(s, Holding)) = MAX_CONCURRENCY
  <2>1. /\ x \in Holding <=> x # "out"
        /\ state[c] \in Holding
    BY DEF Holding
  <2>2. Cardinality(InOf(s, Holding)) = Cardinality(H) - (IF x = "out" THEN 1 ELSE 0)
    BY <1>0, <2>1, CountMoves
  <2> QED
    BY <1>0, <2>2
<1>5. /\ c \notin L /\ InOf(s, {"queued"}) = L /\ InOf(s, Holding) = H \ leavers
      /\ leavers \in SUBSET Callers /\ L \ leavers = L
  BY <1>1 DEF InOf, Holding
<1> HIDE DEF s, leavers, H, L
<1>6. /\ state' \in [Callers -> States] /\ slots' \in Nat
      /\ slots' + Cardinality(InOf(state', Holding)) = n + Cardinality(InOf(s, Holding))
      /\ InOf(state', Counting) = InOf(s, Counting)
      /\ InOf(state', {"starting", "acquired"}) = InOf(s, {"starting", "acquired"})
      /\ Queues(queue', state')
      /\ slots' > 0 /\ InOf(state', {"queued"}) # {} => InOf(state', {"granted", "withdrawn"}) # {}
      /\ \E served \in SUBSET InOf(s, {"queued"}) :
           /\ \A a \in served, b \in InOf(s, {"queued"}) : Precedes(queue', b, a) => b \in served
           /\ InOf(state', Holding) = InOf(s, Holding) \cup served
           /\ InOf(state', {"queued"}) = InOf(s, {"queued"}) \ served
  BY <1>1, <1>3, Waking DEF s
<1>7. NoIdleSlot'
  BY <1>6, Views DEF NoIdleSlot
<1>8. Slots!SlotsNext
  <2>1. PICK served \in SUBSET L :
           /\ \A a \in served, b \in L : Precedes(queue', b, a) => b \in served
           /\ InOf(state', Holding) = (H \ leavers) \cup served
           /\ InOf(state', {"queued"}) = L \ served
    BY <1>5, <1>6
  <2>2. L \subseteq Callers \ {c}
    BY <1>5 DEF L, InOf
  <2>3. \A a, b \in L : Precedes(queue', a, b) <=> Precedes(queue, a, b)
    BY <1>3, <2>2
  <2>4. Cardinality(InOf(state', Holding)) <= MAX_CONCURRENCY
    <3>1. Cardinality(InOf(state', Holding)) \in Nat
      BY Counts
    <3> QED
      BY <1>0, <1>4, <1>6, <3>1
  <2>5. /\ served \in SUBSET (L \ leavers)
        /\ \A a \in served, b \in L \ leavers : Precedes(queue, b, a) => b \in served
        /\ InOf(state', {"queued"}) = (L \ leavers) \ served
        /\ \A a, b \in InOf(state', {"queued"}) : Precedes(queue', a, b) <=> Precedes(queue, a, b)
    BY <1>5, <2>1, <2>3
  <2> QED
    BY <1>5, <2>1, <2>4, <2>5, Serves DEF H, L
<1> QED
  BY <1>4, <1>6, <1>7, <1>8 DEF s

LEMMA GateFacts ==
  ASSUME GateInv
  PROVE  /\ budgeted \in BOOLEAN /\ state \in [Callers -> States]
         /\ slots \in Nat /\ waiting \in Nat /\ strays \in 0..MAX_STRAYS
         /\ slots + Cardinality(InOf(state, Holding)) = MAX_CONCURRENCY
         /\ waiting = Cardinality(InOf(state, Counting))
         /\ ~budgeted => waiting <= MAX_QUEUE /\ InOf(state, {"starting", "acquired"}) = {}
         /\ Queues(queue, state) /\ NoIdleSlot
         /\ MAX_CONCURRENCY \in Nat /\ MAX_QUEUE \in Nat /\ MAX_STRAYS \in Nat
BY GateAssumption, Counts DEF GateInv

\* What the gate promises of a step.
Kept == GateInv' /\ [Slots!SlotsNext]_(Slots!slotVars)

LEMMA SlotStepKeeps ==
  ASSUME GateInv, NEW c \in Callers,
         \/ Granted(c) \/ Finish(c) \/ HangUp(c)
         \/ state[c] = "withdrawn" /\ Cancelled(c)
  PROVE  Kept
<1>0. PICK x \in States, n \in Nat :
        /\ \/ state[c] \in {"running", "withdrawn"} /\ x = "out" /\ n = slots + 1
           \/ state[c] = "granted" /\ n = slots /\ x = IF budgeted THEN "acquired" ELSE "running"
        /\ IF state[c] = "running" THEN queue' = queue ELSE queue' = Without(queue, c)
        /\ Wake(Put(state, c, x), queue', n)
        /\ waiting' = IF state[c] = "withdrawn" \/ x = "running" THEN waiting - 1 ELSE waiting
        /\ strays' \in 0..MAX_STRAYS /\ budgeted' = budgeted
  <2>1. "out" \in States /\ "acquired" \in States /\ "running" \in States
        /\ slots \in Nat /\ slots + 1 \in Nat /\ strays \in Nat /\ strays <= MAX_STRAYS
    BY GateFacts DEF States
  <2>2. CASE Granted(c)
    BY <2>1, <2>2 DEF Granted, PassOn, Put
  <2>3. CASE Finish(c) \/ HangUp(c)
    BY <2>1, <2>3, GateAssumption DEF Finish, HangUp, Put
  <2>4. CASE state[c] = "withdrawn" /\ Cancelled(c)
    BY <2>1, <2>4 DEF Cancelled, Put
  <2> QED
    BY <2>2, <2>3, <2>4
<1> DEFINE s == Put(state, c, x)
<1>1. /\ state' \in [Callers -> States] /\ slots' \in Nat
      /\ slots' + Cardinality(InOf(state', Holding)) = MAX_CONCURRENCY
      /\ Cardinality(InOf(state', Counting)) = Cardinality(InOf(s, Counting))
      /\ InOf(state', {"starting", "acquired"}) = InOf(s, {"starting", "acquired"})
      /\ Queues(queue', state') /\ NoIdleSlot'
      /\ [Slots!SlotsNext]_(Slots!slotVars)
  <2>1. \/ state[c] \in {"running", "withdrawn"} /\ x = "out" /\ n = slots + 1
        \/ state[c] = "granted" /\ x \in {"acquired", "running"} /\ n = slots
    BY <1>0
  <2> QED
    BY <1>0, <2>1, Released
<1>2. waiting' = Cardinality(InOf(s, Counting)) /\ waiting' <= waiting
  <2>1. /\ x \in Counting <=> x = "acquired"
        /\ state[c] \in Counting <=> state[c] # "running"
    BY <1>0 DEF Counting, States
  <2>2. /\ state \in [Callers -> States] /\ waiting = Cardinality(InOf(state, Counting))
        /\ waiting \in Nat
    BY GateFacts
  <2>3. CASE x = "acquired"
    BY <1>0, <2>1, <2>2, <2>3, CountMoves
  <2>4. CASE x # "acquired" /\ state[c] = "running"
    BY <1>0, <2>1, <2>2, <2>4, CountMoves
  <2>5. CASE x # "acquired" /\ state[c] # "running"
    <3>1. Cardinality(InOf(s, Counting)) = waiting - 1
      BY <1>0, <2>1, <2>2, <2>5, CountMoves
    <3> QED
      BY <1>0, <2>2, <2>5, <3>1
  <2> QED
    BY <2>3, <2>4, <2>5
<1>3. ~budgeted => InOf(s, {"starting", "acquired"}) = {}
  <2>1. ~budgeted => x \notin {"starting", "acquired"}
    BY <1>0
  <2>2. state \in [Callers -> States] /\ s[c] = x /\ \A d \in Callers \ {c} : s[d] = state[d]
    BY GateFacts, Moves
  <2>3. ~budgeted => InOf(state, {"starting", "acquired"}) = {}
    BY GateFacts
  <2> HIDE DEF s
  <2> QED
    BY <2>1, <2>2, <2>3 DEF InOf
<1>4. ~budgeted => waiting' <= MAX_QUEUE
  <2>1. waiting' \in Nat /\ waiting \in Nat /\ MAX_QUEUE \in Nat
    BY <1>2, Counts, GateFacts
  <2> QED
    BY <1>2, <2>1, GateFacts
<1> HIDE DEF s
<1> QED
  BY <1>0, <1>1, <1>2, <1>3, <1>4, GateFacts DEF Kept, GateInv

\* The steps in which one caller's state changes, and neither the semaphore nor the queue.
LEMMA AsideKeeps ==
  ASSUME GateInv, NEW c \in Callers,
         \/ Enter(c) \/ GiveUp(c) \/ GiveUpStarting(c)
         \/ budgeted /\ Arrive(c)
  PROVE  Kept
<1>0. PICK x \in States :
        /\ state' = Put(state, c, x)
        /\ \/ state[c] = "acquired" /\ x = "running" /\ waiting' = waiting - 1
           \/ state[c] = "queued" /\ x = "dropped" /\ waiting' = waiting
           \/ state[c] = "granted" /\ x = "withdrawn" /\ waiting' = waiting
           \/ state[c] = "starting" /\ x = "out" /\ waiting' = waiting - 1
           \/ state[c] = "out" /\ x = "starting" /\ waiting' = waiting + 1 /\ budgeted
        /\ UNCHANGED <<budgeted, slots, queue, strays>>
  BY DEF Enter, GiveUp, GiveUpStarting, Arrive, States, Put
<1>1. /\ state' \in [Callers -> States] /\ state'[c] = x
      /\ \A d \in Callers \ {c} : state'[d] = state[d]
  BY <1>0, GateFacts, Moves
<1>2. Cardinality(InOf(state', Holding)) = Cardinality(InOf(state, Holding))
  <2>1. x \in Holding <=> state[c] \in Holding
    BY <1>0 DEF Holding
  <2> QED
    BY <1>0, <2>1, GateFacts, CountMoves
<1>3. waiting' = Cardinality(InOf(state', Counting))
  <2>1. /\ x \in Counting <=> x \notin {"running", "out"}
        /\ state[c] \in Counting <=> state[c] # "out"
    BY <1>0 DEF Counting, States
  <2> QED
    BY <1>0, <2>1, GateFacts, CountMoves
<1>4. ~budgeted => waiting' <= MAX_QUEUE /\ InOf(state', {"starting", "acquired"}) = {}
  <2>1. ~budgeted => waiting' <= waiting /\ x \notin {"starting", "acquired"}
    BY <1>0, GateFacts
  <2>2. waiting' \in Nat
    BY <1>3, Counts
  <2>3. ~budgeted => InOf(state', {"starting", "acquired"}) = {}
    BY <1>1, <2>1, GateFacts DEF InOf
  <2> QED
    BY <2>1, <2>2, <2>3, GateFacts
<1>5. Queues(queue, state')
  BY <1>0, <1>1, GateFacts DEF Queues, InLine
<1>6. NoIdleSlot'
  <2>1. InOf(state', {"queued"}) \subseteq InOf(state, {"queued"})
    BY <1>0, <1>1 DEF InOf
  <2>2. InOf(state, {"granted", "withdrawn"}) \subseteq InOf(state', {"granted", "withdrawn"})
    BY <1>0, <1>1 DEF InOf
  <2> QED
    BY <1>0, <2>1, <2>2, GateFacts, Views DEF NoIdleSlot
<1>7. [Slots!SlotsNext]_(Slots!slotVars)
  <2>1. InOf(state', Holding) = InOf(state, Holding)
    BY <1>0, <1>1 DEF InOf, Holding
  <2>2. CASE x # "dropped"
    <3>1. InOf(state', {"queued"}) = InOf(state, {"queued"})
      BY <1>0, <1>1, <2>2 DEF InOf
    <3> QED
      BY <1>0, <2>1, <3>1, Unseen
  <2>3. CASE x = "dropped"
    <3>1. InOf(state', {"queued"}) = InOf(state, {"queued"}) \ {c}
      BY <1>0, <1>1, <2>3 DEF InOf
    <3>2. c \notin InOf(state, Holding)
      BY <1>0, <2>3 DEF InOf, Holding
    <3>3. Cardinality(InOf(state', Holding)) <= MAX_CONCURRENCY
      BY <1>2, GateFacts, Counts
    <3>4. PICK leavers, served : leavers = {c} /\ served = {}
      OBVIOUS
    <3>5. /\ leavers \in SUBSET Callers
          /\ served \in SUBSET (InOf(state, {"queued"}) \ leavers)
      BY <3>4
    <3>6. /\ \A a \in served, b \in InOf(state, {"queued"}) \ leavers :
               Precedes(queue, b, a) => b \in served
          /\ InOf(state', Holding) = (InOf(state, Holding) \ leavers) \cup served
          /\ InOf(state', {"queued"}) = (InOf(state, {"queued"}) \ leavers) \ served
      BY <2>1, <3>1, <3>2, <3>4
    <3>7. \A a, b \in InOf(state', {"queued"}) : Precedes(queue', a, b) <=> Precedes(queue, a, b)
      BY <1>0
    <3> QED
      BY <3>3, <3>5, <3>6, <3>7, Serves
  <2> QED
    BY <2>2, <2>3
<1> QED
  BY <1>0, <1>1, <1>2, <1>3, <1>4, <1>5, <1>6, <1>7, GateFacts DEF Kept, GateInv

\* A cancelled waiter that had no slot leaves the queue.
LEMMA DroppedKeeps ==
  ASSUME GateInv, NEW c \in Callers, state[c] = "dropped", Cancelled(c)
  PROVE  Kept
<1>0. /\ state' = Put(state, c, "out") /\ queue' = Without(queue, c) /\ waiting' = waiting - 1
      /\ UNCHANGED <<budgeted, slots, strays>>
      /\ "out" \in States \ InLine
  BY DEF Cancelled, Put, States, InLine
<1>1. /\ state' \in [Callers -> States] /\ state'[c] = "out"
      /\ \A d \in Callers \ {c} : state'[d] = state[d]
  BY <1>0, GateFacts, Moves
<1>2. /\ InOf(state', Holding) = InOf(state, Holding)
      /\ InOf(state', {"queued"}) = InOf(state, {"queued"})
      /\ InOf(state', {"granted", "withdrawn"}) = InOf(state, {"granted", "withdrawn"})
      /\ InOf(state', {"starting", "acquired"}) = InOf(state, {"starting", "acquired"})
  BY <1>0, <1>1 DEF InOf, Holding
<1>3. waiting' = Cardinality(InOf(state', Counting))
  <2>1. "out" \notin Counting /\ state[c] \in Counting
    BY DEF Counting, States
  <2> QED
    BY <1>0, <2>1, GateFacts, CountMoves
<1>4. /\ Queues(queue', state')
      /\ \A a, b \in Callers \ {c} : Precedes(queue', a, b) <=> Precedes(queue, a, b)
  <2>1. state[c] \in InLine
    BY DEF InLine
  <2> QED
    BY <1>0, <2>1, LeavesQueue
<1>5. NoIdleSlot'
  BY <1>0, <1>2, GateFacts, Views DEF NoIdleSlot
<1>6. [Slots!SlotsNext]_(Slots!slotVars)
  <2>1. InOf(state, {"queued"}) \subseteq Callers \ {c}
    BY DEF InOf
  <2> QED
    BY <1>2, <1>4, <2>1, Unseen
<1> QED
  BY <1>0, <1>1, <1>2, <1>3, <1>4, <1>5, <1>6, GateFacts, Counts DEF Kept, GateInv

\* A newcomer at the end of the queue is behind everybody in it.
LEMMA Joins ==
  ASSUME NEW q \in Seq(Callers), NEW c \in Callers, \A i \in DOMAIN q : q[i] # c,
         \A i, j \in DOMAIN q : q[i] = q[j] => i = j
  PROVE  LET r == Append(q, c) IN
         /\ r \in Seq(Callers)
         /\ \A i, j \in DOMAIN r : r[i] = r[j] => i = j
         /\ \A d \in Callers : (\E i \in DOMAIN r : r[i] = d)
                                 <=> d = c \/ \E i \in DOMAIN q : q[i] = d
         /\ \A a, b \in Callers : Precedes(r, a, b)
              <=> Precedes(q, a, b) \/ (b = c /\ \E i \in DOMAIN q : q[i] = a)
<1> DEFINE r == Append(q, c)
           n == Len(q)
<1>1. /\ r \in Seq(Callers) /\ DOMAIN r = 1..n + 1 /\ DOMAIN q = 1..n /\ n \in Nat
      /\ r[n + 1] = c /\ \A i \in 1..n : r[i] = q[i]
  OBVIOUS
<1> HIDE DEF r, n
<1>2. \A i, j \in DOMAIN r : r[i] = r[j] => i = j
  BY <1>1
<1>3. ASSUME NEW d \in Callers
      PROVE  (\E i \in DOMAIN r : r[i] = d) <=> d = c \/ \E i \in DOMAIN q : q[i] = d
  <2>1. n + 1 \in DOMAIN r /\ \A i \in DOMAIN q : i \in DOMAIN r
    BY <1>1
  <2>2. \A i \in DOMAIN r : i = n + 1 \/ i \in DOMAIN q
    BY <1>1
  <2> QED
    BY <1>1, <2>1, <2>2
<1>4. ASSUME NEW a \in Callers, NEW b \in Callers
      PROVE  Precedes(r, a, b) <=> Precedes(q, a, b) \/ (b = c /\ \E i \in DOMAIN q : q[i] = a)
  <2>1. ASSUME Precedes(r, a, b)
        PROVE  Precedes(q, a, b) \/ (b = c /\ \E i \in DOMAIN q : q[i] = a)
    <3>1. PICK i, j \in DOMAIN r : i < j /\ r[i] = a /\ r[j] = b
      BY <2>1 DEF Precedes
    <3>2. i \in DOMAIN q /\ q[i] = a
      BY <1>1, <3>1
    <3>3. CASE j = n + 1
      BY <1>1, <3>1, <3>2, <3>3
    <3>4. CASE j # n + 1
      <4>1. j \in DOMAIN q /\ q[j] = b
        BY <1>1, <3>1, <3>4
      <4> QED
        BY <3>1, <3>2, <4>1 DEF Precedes
    <3> QED
      BY <3>3, <3>4
  <2>2. ASSUME Precedes(q, a, b) PROVE Precedes(r, a, b)
    <3>1. PICK i, j \in DOMAIN q : i < j /\ q[i] = a /\ q[j] = b
      BY <2>2 DEF Precedes
    <3>2. i \in DOMAIN r /\ j \in DOMAIN r /\ r[i] = a /\ r[j] = b
      BY <1>1, <3>1
    <3> QED
      BY <3>1, <3>2 DEF Precedes
  <2>3. ASSUME b = c, NEW i \in DOMAIN q, q[i] = a PROVE Precedes(r, a, b)
    <3>1. i \in DOMAIN r /\ n + 1 \in DOMAIN r /\ i < n + 1 /\ r[i] = a /\ r[n + 1] = b
      BY <1>1, <2>3
    <3> QED
      BY <3>1 DEF Precedes
  <2> QED
    BY <2>1, <2>2, <2>3
<1> QED
  BY <1>1, <1>2, <1>3, <1>4 DEF r

\* acquire, up to its await.
LEMMA Acquires ==
  ASSUME GateInv, NEW c \in Callers, state[c] \in {"out", "starting"},
         NEW next \in {"running", "acquired"}, TryAcquire(c, next)
  PROVE  /\ state' = Put(state, c, IF Locked THEN "queued" ELSE next) /\ slots' \in Nat
         /\ slots' + Cardinality(InOf(state', Holding)) = MAX_CONCURRENCY
         /\ Queues(queue', state') /\ NoIdleSlot'
         /\ Slots!SlotsNext
<1>1. CASE ~Locked
  <2>1. state' = Put(state, c, next) /\ slots' = slots - 1 /\ queue' = queue /\ slots # 0
    BY <1>1 DEF TryAcquire, Locked, Put
  <2>2. next \in States /\ next \in Holding /\ state[c] \notin Holding
    BY DEF States, Holding
  <2>3. InOf(state, {"queued"}) = {}
    BY <1>1, GateFacts DEF Locked, Queues, InOf, InLine
  <2>4. /\ state' \in [Callers -> States] /\ state'[c] = next
        /\ \A d \in Callers \ {c} : state'[d] = state[d]
    BY <2>1, <2>2, GateFacts, Moves
  <2>5. /\ InOf(state', {"queued"}) = {}
        /\ InOf(state', Holding) = InOf(state, Holding) \cup {c}
    BY <2>2, <2>3, <2>4 DEF InOf, Holding
  <2>6. slots' \in Nat /\ slots' + Cardinality(InOf(state', Holding)) = MAX_CONCURRENCY
    <3>1. /\ Cardinality(InOf(state', Holding)) = Cardinality(InOf(state, Holding)) + 1
          /\ Cardinality(InOf(state, Holding)) \in Nat
      BY <2>1, <2>2, GateFacts, CountMoves
    <3> QED
      BY <2>1, <3>1, GateFacts
  <2>7. Queues(queue', state')
    BY <2>1, <2>2, <2>4, GateFacts DEF Queues, InLine, Holding
  <2>8. NoIdleSlot'
    BY <2>5, Views DEF NoIdleSlot
  <2>9. Slots!Come(c)
    <3>1. c \notin Holders \cup Queued /\ Queued = {} /\ Queued' = {} /\ Ahead = {} /\ Ahead' = {}
      BY <2>2, <2>3, <2>5, Views DEF AheadOf, InOf
    <3>2. Holders' = Holders \cup {c}
      BY <2>5, Views
    <3>3. Slots!Cardinality(Holders) < MAX_CONCURRENCY
      BY <2>1, GateFacts, Counts, Views, SameCount
    <3> QED
      BY <3>1, <3>2, <3>3 DEF Slots!Come
  <2> QED
    BY <1>1, <2>1, <2>6, <2>7, <2>8, <2>9 DEF Slots!SlotsNext
<1>2. CASE Locked
  <2>1. state' = Put(state, c, "queued") /\ queue' = Append(queue, c) /\ slots' = slots
    BY <1>2 DEF TryAcquire, Put
  <2>2. "queued" \in States /\ "queued" \notin Holding /\ state[c] \notin Holding
        /\ state[c] \notin InLine /\ "queued" \in InLine
    BY DEF States, Holding, InLine
  <2>3. /\ state' \in [Callers -> States] /\ state'[c] = "queued"
        /\ \A d \in Callers \ {c} : state'[d] = state[d]
    BY <2>1, <2>2, GateFacts, Moves
  <2>4. /\ InOf(state', {"queued"}) = InOf(state, {"queued"}) \cup {c}
        /\ InOf(state', Holding) = InOf(state, Holding)
        /\ InOf(state', {"granted", "withdrawn"}) = InOf(state, {"granted", "withdrawn"})
    BY <2>2, <2>3 DEF InOf, Holding
  <2>5. /\ queue \in Seq(Callers) /\ \A i \in DOMAIN queue : queue[i] # c
        /\ \A i, j \in DOMAIN queue : queue[i] = queue[j] => i = j
        /\ \A d \in Callers : state[d] \in InLine <=> \E i \in DOMAIN queue : queue[i] = d
    BY <2>2, GateFacts DEF Queues
  <2>6. /\ queue' \in Seq(Callers)
        /\ \A i, j \in DOMAIN queue' : queue'[i] = queue'[j] => i = j
        /\ \A d \in Callers : (\E i \in DOMAIN queue' : queue'[i] = d)
                                <=> d = c \/ \E i \in DOMAIN queue : queue[i] = d
        /\ \A a, b \in Callers : Precedes(queue', a, b)
             <=> Precedes(queue, a, b) \/ (b = c /\ \E i \in DOMAIN queue : queue[i] = a)
    BY <2>1, <2>5, Joins
  <2>7. Queues(queue', state')
    BY <2>2, <2>3, <2>5, <2>6 DEF Queues
  <2>8. NoIdleSlot'
    <3>1. slots > 0 => InOf(state, {"queued", "granted", "withdrawn"}) # {}
      BY <1>2, <2>5, GateFacts DEF Locked, InOf, InLine
    <3>2. slots > 0 => InOf(state, {"granted", "withdrawn"}) # {}
      BY <3>1, GateFacts, Views DEF NoIdleSlot, InOf
    <3> QED
      BY <2>1, <2>4, <3>2, Views DEF NoIdleSlot
  <2>9. Slots!Come(c)
    <3>1. c \notin Holders \cup Queued /\ Queued' = Queued \cup {c} /\ Holders' = Holders
      BY <2>2, <2>4, Views DEF InOf, InLine
    <3>2. AheadOf(state', queue') = AheadOf(state, queue) \cup (InOf(state, {"queued"}) \X {c})
      <4> DEFINE L == InOf(state, {"queued"})
      <4>1. c \notin L /\ L \subseteq Callers /\ \A a \in L : \E i \in DOMAIN queue : queue[i] = a
        BY <2>2, <2>5 DEF InOf, InLine
      <4>2. \A a, b \in L \cup {c} : Precedes(queue', a, b)
              <=> a \in L /\ ((b \in L /\ Precedes(queue, a, b)) \/ b = c)
        <5>1. \A a, b \in Callers : Precedes(queue, a, b) => a # c /\ b # c
          BY <2>5 DEF Precedes
        <5> QED
          BY <2>5, <2>6, <4>1, <5>1
      <4> HIDE DEF L
      <4> QED
        BY <2>4, <4>1, <4>2 DEF AheadOf, L
    <3> QED
      BY <3>1, <3>2, Views DEF Slots!Come
  <2>10. Cardinality(InOf(state', Holding)) = Cardinality(InOf(state, Holding))
    BY <2>4
  <2> QED
    BY <1>2, <2>1, <2>7, <2>8, <2>9, <2>10, GateFacts DEF Slots!SlotsNext
<1> QED
  BY <1>1, <1>2

LEMMA AcquireKeeps ==
  ASSUME GateInv, NEW c \in Callers,
         \/ ~budgeted /\ Arrive(c)
         \/ budgeted /\ StartAcquire(c)
  PROVE  Kept
<1> DEFINE next == IF budgeted THEN "acquired" ELSE "running"
           x == IF Locked THEN "queued" ELSE next
<1>1. /\ TryAcquire(c, next) /\ state[c] = IF budgeted THEN "starting" ELSE "out"
      /\ waiting' = IF ~budgeted /\ Locked THEN waiting + 1 ELSE waiting
      /\ ~budgeted /\ Locked => waiting < MAX_QUEUE
      /\ UNCHANGED <<budgeted, strays>>
  BY GateFacts DEF Arrive, StartAcquire, Shed
<1>2. /\ state' = Put(state, c, x) /\ slots' \in Nat
      /\ slots' + Cardinality(InOf(state', Holding)) = MAX_CONCURRENCY
      /\ Queues(queue', state') /\ NoIdleSlot'
      /\ Slots!SlotsNext
  BY <1>1, Acquires
<1>3. x \in States /\ (x \in Counting <=> x # "running") /\ (state[c] \in Counting <=> budgeted)
  BY <1>1 DEF States, Counting
<1>4. /\ state' \in [Callers -> States] /\ state'[c] = x
      /\ \A d \in Callers \ {c} : state'[d] = state[d]
  BY <1>2, <1>3, GateFacts, Moves
<1>5. waiting' = Cardinality(InOf(state', Counting))
  BY <1>1, <1>2, <1>3, GateFacts, CountMoves
<1>6. ~budgeted => waiting' <= MAX_QUEUE /\ InOf(state', {"starting", "acquired"}) = {}
  <2>1. ~budgeted => x \notin {"starting", "acquired"}
    OBVIOUS
  <2> QED
    BY <1>1, <1>4, <2>1, GateFacts DEF InOf
<1> QED
  BY <1>1, <1>2, <1>4, <1>5, <1>6, GateFacts DEF Kept, GateInv

LEMMA NobodyInside ==
  GateInit => /\ InOf(state, Holding) = {} /\ InOf(state, {"queued"}) = {}
              /\ InOf(state, Counting) = {} /\ InOf(state, {"starting", "acquired"}) = {}
BY DEF GateInit, InOf, Holding, Counting

LEMMA GateInitially == GateInit => GateInv /\ Slots!SlotsInit
<1> SUFFICES ASSUME GateInit PROVE GateInv /\ Slots!SlotsInit
  OBVIOUS
<1>1. /\ Cardinality(InOf(state, Holding)) = 0 /\ Cardinality(InOf(state, Counting)) = 0
  BY NobodyInside, FS_EmptySet
<1>2. Queues(queue, state)
  BY DEF GateInit, Queues, InLine
<1>3. NoIdleSlot
  BY NobodyInside, Views DEF NoIdleSlot
<1>4. GateInv
  BY <1>1, <1>2, <1>3, NobodyInside, GateAssumption DEF GateInit, GateInv, States
<1>5. Slots!SlotsInit
  BY NobodyInside, Views DEF Slots!SlotsInit, AheadOf
<1> QED
  BY <1>4, <1>5

LEMMA GateSteps ==
  GateInv /\ [GateNext]_gateVars => GateInv' /\ [Slots!SlotsNext]_(Slots!slotVars)
<1> SUFFICES ASSUME GateInv, [GateNext]_gateVars PROVE Kept
  BY DEF Kept
<1>1. ASSUME NEW c \in Callers, Arrive(c) PROVE Kept
  <2>1. budgeted \in BOOLEAN
    BY GateFacts
  <2>2. CASE budgeted
    BY <1>1, <2>2, AsideKeeps
  <2>3. CASE ~budgeted
    BY <1>1, <2>3, AcquireKeeps
  <2> QED
    BY <2>2, <2>3
<1>2. ASSUME NEW c \in Callers, StartAcquire(c) PROVE Kept
  <2>1. c \in InOf(state, {"starting", "acquired"})
    BY <1>2 DEF StartAcquire, InOf
  <2>2. budgeted
    BY <2>1, GateFacts
  <2> QED
    BY <1>2, <2>2, AcquireKeeps
<1>3. ASSUME NEW c \in Callers, Granted(c) \/ Finish(c) \/ HangUp(c) PROVE Kept
  BY <1>3, SlotStepKeeps
<1>4. ASSUME NEW c \in Callers, Enter(c) \/ GiveUp(c) \/ GiveUpStarting(c) PROVE Kept
  BY <1>4, AsideKeeps
<1>5. ASSUME NEW c \in Callers, Cancelled(c) PROVE Kept
  <2>1. state[c] = "dropped" \/ state[c] = "withdrawn"
    BY <1>5 DEF Cancelled
  <2> QED
    BY <1>5, <2>1, DroppedKeeps, SlotStepKeeps
<1>6. CASE StrayEnds \/ UNCHANGED gateVars
  <2>1. /\ UNCHANGED <<budgeted, state, slots, queue, waiting>> /\ strays' \in 0..MAX_STRAYS
    BY <1>6, GateFacts DEF StrayEnds, gateVars
  <2>2. GateInv'
    BY <2>1, GateFacts, Views DEF GateInv, NoIdleSlot
  <2>3. UNCHANGED Slots!slotVars
    BY <2>1, Unseen
  <2> QED
    BY <2>2, <2>3 DEF Kept
<1> QED
  BY <1>1, <1>2, <1>3, <1>4, <1>5, <1>6 DEF GateNext

LEMMA GateHolds == GateSpec => []GateInv
<1> QED
  BY GateInitially, GateSteps, PTL DEF GateSpec

\* Whatever is cancelled, times out or finishes in whatever order, the semaphore's value and the
\* callers that hold a slot add up, every waiter is counted in self._waiting once, and without
\* budgets no more wait than may (InferenceGate.run, concurrency.py:42-70), for any number of
\* callers, slots and places.
THEOREM GateTypes == GateSpec => []GateTypeOK
<1>1. GateInv => GateTypeOK
  <2> SUFFICES ASSUME GateInv PROVE GateTypeOK
    OBVIOUS
  <2>1. Callers \ In({"out", "running"}) = InOf(state, Counting)
    BY GateFacts DEF In, InOf, Counting
  <2>2. slots \in 0..MAX_CONCURRENCY
    BY GateFacts, Counts
  <2> QED
    BY <2>1, <2>2, GateFacts, Views DEF GateTypeOK
<1> QED
  BY <1>1, GateHolds, PTL

\* A caller waits beside a free slot only while another one, woken already, is about to pass it
\* on (concurrency.py:55-70).
THEOREM SlotsNeverIdle == GateSpec => []NoIdleSlot
<1>1. GateInv => NoIdleSlot
  BY DEF GateInv
<1> QED
  BY <1>1, GateHolds, PTL

\* The gate implements BoundedSlots: never more slots than there are, first come first served
\* (InferenceGate.run, concurrency.py:49-70).
THEOREM SlotsInOrder == GateSpec => SlotsImplemented
BY GateInitially, GateSteps, GateHolds, PTL DEF GateSpec, SlotsImplemented, Slots!SlotsSpec

(***************************************************************************)
(* The usage of a key                                                      *)
(***************************************************************************)

\* Induction over the naturals.
LEMMA Induction ==
  ASSUME NEW S, 0 \in S, \A n \in Nat : n \in S => n + 1 \in S
  PROVE Nat \subseteq S
<1>1. SUFFICES ASSUME Nat \ S # {} PROVE FALSE
  OBVIOUS
<1>2. PICK x \in Nat \ S : \A y \in Nat \ S : x <= y
  BY <1>1, LeastNat
<1>3. x # 0 /\ x - 1 \in Nat
  BY <1>2
<1>4. x - 1 \in S
  BY <1>2, <1>3
<1> QED BY <1>2, <1>3, <1>4

Fields == {"requests", "cache_hits", "cost", "saved", "self_hosted", "self_hosted_cost"}
Inc(d, f, n) == [day |-> d, field |-> f, by |-> n]

\* What is left of a pipeline that was recorded on day d, for the price p.
Rest(s, d, p) ==
  \/ s = <<>>
  \/ s = <<Inc(d, "requests", 1), Inc(d, "cache_hits", 1), Inc(d, "saved", p)>>
  \/ s = <<Inc(d, "cache_hits", 1), Inc(d, "saved", p)>>
  \/ s = <<Inc(d, "saved", p)>>
  \/ s = <<Inc(d, "requests", 1), Inc(d, "cost", p)>>
  \/ s = <<Inc(d, "cost", p)>>
  \/ s = <<Inc(d, "requests", 1), Inc(d, "cost", p), Inc(d, "self_hosted", 1),
           Inc(d, "self_hosted_cost", p)>>
  \/ s = <<Inc(d, "cost", p), Inc(d, "self_hosted", 1), Inc(d, "self_hosted_cost", p)>>
  \/ s = <<Inc(d, "self_hosted", 1), Inc(d, "self_hosted_cost", p)>>
  \/ s = <<Inc(d, "self_hosted_cost", p)>>

\* What such a pipeline will still add to a day: the kind of a request that is counted already,
\* and the self-hosted part of a cost that is.
KindsDue(s, d) ==
  IF s # <<>> /\ s[1].day = d
     /\ (s[1].field \in {"cache_hits", "self_hosted"} \/ (s[1].field = "cost" /\ Len(s) = 3))
    THEN 1 ELSE 0
CostDue(s, d) ==
  IF s # <<>> /\ s[1].day = d /\ s[1].field \in {"self_hosted", "self_hosted_cost"}
    THEN s[Len(s)].by ELSE 0

\* What the pipelines will add, as that many pairs.
Due(v) == {w \in Recorders \X Nat : w[2] \in 1..v[w[1]]}
AllKinds(d) == [r \in Recorders |-> KindsDue(pipe[r], d)]
AllCosts(d) == [r \in Recorders |-> CostDue(pipe[r], d)]

\* A row adds up.
Adds(row) ==
  /\ row.cache_hits + row.self_hosted <= row.requests
  /\ row.self_hosted_cost <= row.cost

MeterInv ==
  /\ day \in 0..LAST_DAY
  /\ usage \in [0..LAST_DAY -> [Fields -> Nat]]
  /\ DOMAIN pipe = Recorders
  /\ \A r \in Recorders : \E d \in 0..LAST_DAY, p \in Nat : Rest(pipe[r], d, p)
  /\ \A d \in 0..LAST_DAY :
       /\ IsFiniteSet(Due(AllKinds(d))) /\ IsFiniteSet(Due(AllCosts(d)))
       /\ usage[d].cache_hits + usage[d].self_hosted + Cardinality(Due(AllKinds(d)))
            <= usage[d].requests
       /\ usage[d].self_hosted_cost + Cardinality(Due(AllCosts(d))) <= usage[d].cost
  /\ rows \in Seq([Fields -> Nat]) /\ Len(rows) <= LAST_DAY + 1
  /\ \A i \in DOMAIN rows : Adds(rows[i])

LEMMA UsageFields == DOMAIN NoUsage = Fields /\ NoUsage \in [Fields -> Nat]
BY DEF NoUsage, Fields

\* One pipeline is another number short of its end.
LEMMA DueMoves ==
  ASSUME NEW v \in [Recorders -> Nat], NEW w \in [Recorders -> Nat], NEW r \in Recorders,
         \A q \in Recorders \ {r} : w[q] = v[q], IsFiniteSet(Due(v))
  PROVE  /\ IsFiniteSet(Due(w))
         /\ Cardinality(Due(v)) \in Nat /\ Cardinality(Due(w)) \in Nat
         /\ Cardinality(Due(w)) + v[r] = Cardinality(Due(v)) + w[r]
<1> DEFINE mine(k) == {r} \X (1..k)
           others == {u \in Due(v) : u[1] # r}
<1>1. ASSUME NEW k \in Nat PROVE IsFiniteSet(mine(k)) /\ Cardinality(mine(k)) = k
  <2>1. IsFiniteSet({r}) /\ Cardinality({r}) = 1 /\ IsFiniteSet(1..k) /\ Cardinality(1..k) = k
    <3>1. IsFiniteSet(1..k) /\ Cardinality(1..k) = IF 1 > k THEN 0 ELSE k - 1 + 1
      <4>1. 1 \in Int /\ k \in Int
        BY <1>1
      <4> QED BY <4>1, FS_Interval
    <3>2. IsFiniteSet({r}) /\ Cardinality({r}) = 1
      BY FS_Singleton
    <3> QED
      BY <1>1, <3>1, <3>2
  <2>2. IsFiniteSet(mine(k)) /\ Cardinality(mine(k)) = 1 * k
    BY <2>1, FS_Product
  <2> QED
    BY <1>1, <2>2
<1>2. IsFiniteSet(others) /\ Cardinality(others) \in Nat
  BY FS_Subset, FS_CardinalityType
<1>3. ASSUME NEW u \in [Recorders -> Nat], \A q \in Recorders \ {r} : u[q] = v[q]
      PROVE  Due(u) = others \cup mine(u[r])
  BY <1>3 DEF Due
<1>4. \A k : others \cap mine(k) = {}
  OBVIOUS
<1> HIDE DEF mine, others
<1>5. ASSUME NEW u \in [Recorders -> Nat], \A q \in Recorders \ {r} : u[q] = v[q]
      PROVE  IsFiniteSet(Due(u)) /\ Cardinality(Due(u)) = Cardinality(others) + u[r]
  <2>1. u[r] \in Nat
    BY <1>5
  <2>2. /\ IsFiniteSet(others \cup mine(u[r]))
        /\ Cardinality(others \cup mine(u[r])) = Cardinality(others) + Cardinality(mine(u[r]))
    <3>1. Cardinality(others \cap mine(u[r])) = 0
      BY <1>4, FS_EmptySet
    <3>2. IsFiniteSet(mine(u[r])) /\ Cardinality(mine(u[r])) \in Nat
      BY <1>1, <2>1
    <3>3. /\ IsFiniteSet(others \cup mine(u[r]))
          /\ Cardinality(others \cup mine(u[r]))
               = Cardinality(others) + Cardinality(mine(u[r])) - Cardinality(others \cap mine(u[r]))
      BY <1>2, <3>2, FS_Union
    <3> QED
      BY <1>2, <3>1, <3>2, <3>3
  <2> QED
    BY <1>1, <1>3, <1>5, <2>1, <2>2
<1>7. IsFiniteSet(Due(w)) /\ Cardinality(Due(w)) = Cardinality(others) + w[r] /\ w[r] \in Nat
  BY <1>5
<1>8. Cardinality(Due(v)) = Cardinality(others) + v[r] /\ v[r] \in Nat
  BY <1>5
<1> QED
  BY <1>2, <1>7, <1>8

\* What the tails of a pipeline have due.
LEMMA DueCost ==
  ASSUME NEW s, NEW e, NEW p, NEW d, s = <<Inc(e, "cost", p)>>
  PROVE  KindsDue(s, d) = 0 /\ CostDue(s, d) = 0
BY DEF Inc, KindsDue, CostDue
LEMMA DueHosted ==
  ASSUME NEW s, NEW e, NEW p, NEW d, s = <<Inc(e, "cost", p), Inc(e, "self_hosted", 1), Inc(e, "self_hosted_cost", p)>>
  PROVE  KindsDue(s, d) = (IF d = e THEN 1 ELSE 0) /\ CostDue(s, d) = 0
BY DEF Inc, KindsDue, CostDue
LEMMA DueKind ==
  ASSUME NEW s, NEW e, NEW p, NEW d, s = <<Inc(e, "self_hosted", 1), Inc(e, "self_hosted_cost", p)>>
  PROVE  KindsDue(s, d) = (IF d = e THEN 1 ELSE 0) /\ CostDue(s, d) = (IF d = e THEN p ELSE 0)
BY DEF Inc, KindsDue, CostDue

\* Command (f, n) of day e pays what is due before it, or makes it due after it.
Pays(s, t, e, f, n) ==
  \A d \in 0..LAST_DAY :
    /\ KindsDue(t, d) + (IF d = e /\ f \in {"cache_hits", "self_hosted"} THEN n ELSE 0)
         <= KindsDue(s, d) + (IF d = e /\ f = "requests" THEN n ELSE 0)
    /\ CostDue(t, d) + (IF d = e /\ f = "self_hosted_cost" THEN n ELSE 0)
         <= CostDue(s, d) + (IF d = e /\ f = "cost" THEN n ELSE 0)

LEMMA CommandPays ==
  ASSUME NEW s, NEW t, NEW e \in 0..LAST_DAY, NEW p \in Nat, Rest(s, e, p), s # <<>>, t = Tail(s)
  PROVE  /\ Rest(t, e, p)
         /\ \E f \in Fields, n \in Nat : Head(s) = Inc(e, f, n) /\ Pays(s, t, e, f, n)
<1>f. 1 \in Nat /\ p \in Nat
  OBVIOUS
<1>g. "requests" \in Fields /\ "cache_hits" \in Fields /\ "cost" \in Fields /\ "saved" \in Fields
      /\ "self_hosted" \in Fields /\ "self_hosted_cost" \in Fields
  BY DEF Fields
<1>1. CASE s = <<Inc(e, "requests", 1), Inc(e, "cache_hits", 1), Inc(e, "saved", p)>>
  <2>1. /\ Head(s) = Inc(e, "requests", 1)
        /\ t = <<Inc(e, "cache_hits", 1), Inc(e, "saved", p)>>
    BY <1>1
  <2>2. ASSUME NEW d PROVE KindsDue(s, d) = 0 /\ CostDue(s, d) = 0
    BY <1>1 DEF Inc, KindsDue, CostDue
  <2>3. ASSUME NEW d PROVE KindsDue(t, d) = (IF d = e THEN 1 ELSE 0) /\ CostDue(t, d) = 0
    BY <2>1 DEF Inc, KindsDue, CostDue
  <2>4. Pays(s, t, e, "requests", 1)
    BY <2>2, <2>3 DEF Pays
  <2>5. Rest(t, e, p)
    BY <2>1, Zenon DEF Rest
  <2> QED
    BY <1>f, <1>g, <2>1, <2>4, <2>5, Zenon
<1>2. CASE s = <<Inc(e, "cache_hits", 1), Inc(e, "saved", p)>>
  <2>1. /\ Head(s) = Inc(e, "cache_hits", 1)
        /\ t = <<Inc(e, "saved", p)>>
    BY <1>2
  <2>2. ASSUME NEW d PROVE KindsDue(s, d) = (IF d = e THEN 1 ELSE 0) /\ CostDue(s, d) = 0
    BY <1>2 DEF Inc, KindsDue, CostDue
  <2>3. ASSUME NEW d PROVE KindsDue(t, d) = 0 /\ CostDue(t, d) = 0
    BY <2>1 DEF Inc, KindsDue, CostDue
  <2>4. Pays(s, t, e, "cache_hits", 1)
    BY <2>2, <2>3 DEF Pays
  <2>5. Rest(t, e, p)
    BY <2>1, Zenon DEF Rest
  <2> QED
    BY <1>f, <1>g, <2>1, <2>4, <2>5, Zenon
<1>3. CASE s = <<Inc(e, "saved", p)>>
  <2>1. /\ Head(s) = Inc(e, "saved", p)
        /\ t = <<>>
    BY <1>3
  <2>2. ASSUME NEW d PROVE KindsDue(s, d) = 0 /\ CostDue(s, d) = 0
    BY <1>3 DEF Inc, KindsDue, CostDue
  <2>3. ASSUME NEW d PROVE KindsDue(t, d) = 0 /\ CostDue(t, d) = 0
    BY <2>1 DEF Inc, KindsDue, CostDue
  <2>4. Pays(s, t, e, "saved", p)
    BY <2>2, <2>3 DEF Pays
  <2>5. Rest(t, e, p)
    BY <2>1, Zenon DEF Rest
  <2> QED
    BY <1>f, <1>g, <2>1, <2>4, <2>5, Zenon
<1>4. CASE s = <<Inc(e, "requests", 1), Inc(e, "cost", p)>>
  <2>1. /\ Head(s) = Inc(e, "requests", 1)
        /\ t = <<Inc(e, "cost", p)>>
    BY <1>4
  <2>2. ASSUME NEW d PROVE KindsDue(s, d) = 0 /\ CostDue(s, d) = 0
    BY <1>4 DEF Inc, KindsDue, CostDue
  <2>3. ASSUME NEW d PROVE KindsDue(t, d) = 0 /\ CostDue(t, d) = 0
    BY <2>1, DueCost, Zenon
  <2>4. Pays(s, t, e, "requests", 1)
    BY <2>2, <2>3 DEF Pays
  <2>5. Rest(t, e, p)
    BY <2>1, Zenon DEF Rest
  <2> QED
    BY <1>f, <1>g, <2>1, <2>4, <2>5, Zenon
<1>5. CASE s = <<Inc(e, "cost", p)>>
  <2>1. /\ Head(s) = Inc(e, "cost", p)
        /\ t = <<>>
    BY <1>5
  <2>2. ASSUME NEW d PROVE KindsDue(s, d) = 0 /\ CostDue(s, d) = 0
    BY <1>5 DEF Inc, KindsDue, CostDue
  <2>3. ASSUME NEW d PROVE KindsDue(t, d) = 0 /\ CostDue(t, d) = 0
    BY <2>1 DEF Inc, KindsDue, CostDue
  <2>4. Pays(s, t, e, "cost", p)
    BY <2>2, <2>3 DEF Pays
  <2>5. Rest(t, e, p)
    BY <2>1, Zenon DEF Rest
  <2> QED
    BY <1>f, <1>g, <2>1, <2>4, <2>5, Zenon
<1>6. CASE s = <<Inc(e, "requests", 1), Inc(e, "cost", p), Inc(e, "self_hosted", 1),
                 Inc(e, "self_hosted_cost", p)>>
  <2>1. /\ Head(s) = Inc(e, "requests", 1)
        /\ t = <<Inc(e, "cost", p), Inc(e, "self_hosted", 1), Inc(e, "self_hosted_cost", p)>>
    BY <1>6
  <2>2. ASSUME NEW d PROVE KindsDue(s, d) = 0 /\ CostDue(s, d) = 0
    BY <1>6 DEF Inc, KindsDue, CostDue
  <2>3. ASSUME NEW d PROVE KindsDue(t, d) = (IF d = e THEN 1 ELSE 0) /\ CostDue(t, d) = 0
    BY <2>1, DueHosted, Zenon
  <2>4. Pays(s, t, e, "requests", 1)
    BY <2>2, <2>3 DEF Pays
  <2>5. Rest(t, e, p)
    BY <2>1, Zenon DEF Rest
  <2> QED
    BY <1>f, <1>g, <2>1, <2>4, <2>5, Zenon
<1>7. CASE s = <<Inc(e, "cost", p), Inc(e, "self_hosted", 1), Inc(e, "self_hosted_cost", p)>>
  <2>1. /\ Head(s) = Inc(e, "cost", p)
        /\ t = <<Inc(e, "self_hosted", 1), Inc(e, "self_hosted_cost", p)>>
    BY <1>7
  <2>2. ASSUME NEW d PROVE KindsDue(s, d) = (IF d = e THEN 1 ELSE 0) /\ CostDue(s, d) = 0
    BY <1>7 DEF Inc, KindsDue, CostDue
  <2>3. ASSUME NEW d PROVE KindsDue(t, d) = (IF d = e THEN 1 ELSE 0) /\ CostDue(t, d) = (IF d = e THEN p ELSE 0)
    BY <2>1, DueKind, Zenon
  <2>4. Pays(s, t, e, "cost", p)
    BY <2>2, <2>3 DEF Pays
  <2>5. Rest(t, e, p)
    BY <2>1, Zenon DEF Rest
  <2> QED
    BY <1>f, <1>g, <2>1, <2>4, <2>5, Zenon
<1>8. CASE s = <<Inc(e, "self_hosted", 1), Inc(e, "self_hosted_cost", p)>>
  <2>1. /\ Head(s) = Inc(e, "self_hosted", 1)
        /\ t = <<Inc(e, "self_hosted_cost", p)>>
    BY <1>8
  <2>2. ASSUME NEW d PROVE KindsDue(s, d) = (IF d = e THEN 1 ELSE 0) /\ CostDue(s, d) = (IF d = e THEN p ELSE 0)
    BY <1>8 DEF Inc, KindsDue, CostDue
  <2>3. ASSUME NEW d PROVE KindsDue(t, d) = 0 /\ CostDue(t, d) = (IF d = e THEN p ELSE 0)
    <3>0. ASSUME NEW u, u = <<Inc(e, "self_hosted_cost", p)>>
          PROVE  /\ KindsDue(u, d) = 0
                 /\ CostDue(u, d) = (IF d = e THEN p ELSE 0)
      BY <3>0 DEF Inc, KindsDue, CostDue
    <3> QED BY <2>1, <3>0, Zenon
  <2>4. Pays(s, t, e, "self_hosted", 1)
    BY <2>2, <2>3 DEF Pays
  <2>5. Rest(t, e, p)
    BY <2>1, Zenon DEF Rest
  <2> QED
    BY <1>f, <1>g, <2>1, <2>4, <2>5, Zenon
<1>9. CASE s = <<Inc(e, "self_hosted_cost", p)>>
  <2>1. /\ Head(s) = Inc(e, "self_hosted_cost", p)
        /\ t = <<>>
    BY <1>9
  <2>2. ASSUME NEW d PROVE KindsDue(s, d) = 0 /\ CostDue(s, d) = (IF d = e THEN p ELSE 0)
    BY <1>9 DEF Inc, KindsDue, CostDue
  <2>3. ASSUME NEW d PROVE KindsDue(t, d) = 0 /\ CostDue(t, d) = 0
    BY <2>1 DEF Inc, KindsDue, CostDue
  <2>4. Pays(s, t, e, "self_hosted_cost", p)
    BY <2>2, <2>3 DEF Pays
  <2>5. Rest(t, e, p)
    BY <2>1, Zenon DEF Rest
  <2> QED
    BY <1>f, <1>g, <2>1, <2>4, <2>5, Zenon
<1> QED
  BY <1>1, <1>2, <1>3, <1>4, <1>5, <1>6, <1>7, <1>8, <1>9, Zenon DEF Rest

LEMMA DueTypes ==
  ASSUME NEW s, NEW e, NEW p \in Nat, Rest(s, e, p), NEW d
  PROVE  KindsDue(s, d) \in Nat /\ CostDue(s, d) \in Nat
<1>1. KindsDue(s, d) \in Nat
  BY DEF KindsDue
<1>2. s = <<>> \/ s[Len(s)].by \in Nat
  BY DEF Rest, Inc
<1> QED
  BY <1>1, <1>2 DEF CostDue

\* Only pipeline r moves.
LEMMA PipeMoves ==
  ASSUME MeterInv, NEW r \in Recorders, NEW t, NEW e \in 0..LAST_DAY, NEW p \in Nat, Rest(t, e, p),
         pipe' = [pipe EXCEPT ![r] = t], NEW d \in 0..LAST_DAY
  PROVE  /\ IsFiniteSet(Due(AllKinds(d)')) /\ IsFiniteSet(Due(AllCosts(d)'))
         /\ Cardinality(Due(AllKinds(d))) \in Nat /\ Cardinality(Due(AllKinds(d)')) \in Nat
         /\ Cardinality(Due(AllCosts(d))) \in Nat /\ Cardinality(Due(AllCosts(d)')) \in Nat
         /\ Cardinality(Due(AllKinds(d)')) + KindsDue(pipe[r], d)
              = Cardinality(Due(AllKinds(d))) + KindsDue(t, d)
         /\ Cardinality(Due(AllCosts(d)')) + CostDue(pipe[r], d)
              = Cardinality(Due(AllCosts(d))) + CostDue(t, d)
         /\ KindsDue(pipe[r], d) \in Nat /\ KindsDue(t, d) \in Nat
         /\ CostDue(pipe[r], d) \in Nat /\ CostDue(t, d) \in Nat
<1>1. /\ DOMAIN pipe = Recorders /\ IsFiniteSet(Due(AllKinds(d))) /\ IsFiniteSet(Due(AllCosts(d)))
      /\ \A q \in Recorders : \E x \in 0..LAST_DAY, y \in Nat : Rest(pipe[q], x, y)
  BY Zenon DEF MeterInv
<1>2. p \in Nat /\ Prices \subseteq Nat
  BY MeteringAssumption
<1>3. \A q \in Recorders : KindsDue(pipe[q], d) \in Nat /\ CostDue(pipe[q], d) \in Nat
  BY <1>1, <1>2, DueTypes
<1>4. KindsDue(t, d) \in Nat /\ CostDue(t, d) \in Nat
  BY <1>2, DueTypes
<1>5. AllKinds(d) \in [Recorders -> Nat] /\ AllCosts(d) \in [Recorders -> Nat]
  BY <1>3 DEF AllKinds, AllCosts
<1>6. /\ AllKinds(d)' = [AllKinds(d) EXCEPT ![r] = KindsDue(t, d)]
      /\ AllCosts(d)' = [AllCosts(d) EXCEPT ![r] = CostDue(t, d)]
  BY <1>1 DEF AllKinds, AllCosts
<1>7. AllKinds(d)[r] = KindsDue(pipe[r], d) /\ AllCosts(d)[r] = CostDue(pipe[r], d)
  BY DEF AllKinds, AllCosts
<1>a. /\ AllKinds(d)' \in [Recorders -> Nat] /\ AllKinds(d)'[r] = KindsDue(t, d)
      /\ \A q \in Recorders \ {r} : AllKinds(d)'[q] = AllKinds(d)[q]
  BY <1>4, <1>5, <1>6
<1>c. /\ AllCosts(d)' \in [Recorders -> Nat] /\ AllCosts(d)'[r] = CostDue(t, d)
      /\ \A q \in Recorders \ {r} : AllCosts(d)'[q] = AllCosts(d)[q]
  BY <1>4, <1>5, <1>6
<1>b. ASSUME NEW v \in [Recorders -> Nat], NEW w \in [Recorders -> Nat], IsFiniteSet(Due(v)),
             \A q \in Recorders \ {r} : w[q] = v[q]
      PROVE  /\ IsFiniteSet(Due(w))
             /\ Cardinality(Due(v)) \in Nat /\ Cardinality(Due(w)) \in Nat
             /\ Cardinality(Due(w)) + v[r] = Cardinality(Due(v)) + w[r]
  BY <1>b, DueMoves, Zenon
<1>8. /\ IsFiniteSet(Due(AllKinds(d)'))
      /\ Cardinality(Due(AllKinds(d))) \in Nat /\ Cardinality(Due(AllKinds(d)')) \in Nat
      /\ Cardinality(Due(AllKinds(d)')) + AllKinds(d)[r]
           = Cardinality(Due(AllKinds(d))) + AllKinds(d)'[r]
  BY <1>1, <1>5, <1>a, <1>b, Zenon
<1>9. /\ IsFiniteSet(Due(AllCosts(d)'))
      /\ Cardinality(Due(AllCosts(d))) \in Nat /\ Cardinality(Due(AllCosts(d)')) \in Nat
      /\ Cardinality(Due(AllCosts(d)')) + AllCosts(d)[r]
           = Cardinality(Due(AllCosts(d))) + AllCosts(d)'[r]
  BY <1>1, <1>5, <1>b, <1>c, Zenon
<1> QED
  BY <1>1, <1>3, <1>4, <1>7, <1>8, <1>9, <1>a, <1>c

\* Every pipeline has a rest, whichever of them moved.
LEMMA RestsKept ==
  ASSUME MeterInv, NEW r \in Recorders, NEW t, NEW e \in 0..LAST_DAY, NEW p \in Nat, Rest(t, e, p),
         pipe' = [pipe EXCEPT ![r] = t]
  PROVE  /\ DOMAIN pipe' = Recorders
         /\ \A q \in Recorders : \E x \in 0..LAST_DAY, y \in Nat : Rest(pipe'[q], x, y)
<1>1. /\ DOMAIN pipe = Recorders
      /\ \A q \in Recorders : \E x \in 0..LAST_DAY, y \in Nat : Rest(pipe[q], x, y)
  BY Zenon DEF MeterInv
<1>2. DOMAIN pipe' = Recorders /\ \A q \in Recorders : pipe'[q] = IF q = r THEN t ELSE pipe[q]
  BY <1>1
<1>3. ASSUME NEW q \in Recorders PROVE \E x \in 0..LAST_DAY, y \in Nat : Rest(pipe'[q], x, y)
  <2>1. CASE q = r
    <3>1. pipe'[q] = t
      BY <1>2, <2>1
    <3> QED BY <3>1
  <2>2. CASE q # r
    <3>1. pipe'[q] = pipe[q]
      BY <1>2, <2>2
    <3> QED BY <1>1, <3>1
  <2> QED BY <2>1, <2>2
<1> QED
  BY <1>2, <1>3

\* A pipeline that has nothing due takes the place of another: recorded, or cut off.
LEMMA Replaced ==
  ASSUME MeterInv, NEW r \in Recorders, NEW t, NEW e \in 0..LAST_DAY, NEW p \in Nat, Rest(t, e, p),
         \A d \in 0..LAST_DAY : KindsDue(t, d) = 0 /\ CostDue(t, d) = 0,
         pipe' = [pipe EXCEPT ![r] = t], usage' = usage, day' = day, rows' = rows
  PROVE  MeterInv'
<1>1. /\ day' \in 0..LAST_DAY /\ usage' \in [0..LAST_DAY -> [Fields -> Nat]]
      /\ rows' \in Seq([Fields -> Nat]) /\ Len(rows') <= LAST_DAY + 1
      /\ \A i \in DOMAIN rows' : Adds(rows'[i])
  BY Zenon DEF MeterInv
<1>2. /\ DOMAIN pipe' = Recorders
      /\ \A q \in Recorders : \E x \in 0..LAST_DAY, y \in Nat : Rest(pipe'[q], x, y)
  BY RestsKept
<1>3. ASSUME NEW d \in 0..LAST_DAY
      PROVE  /\ IsFiniteSet(Due(AllKinds(d)')) /\ IsFiniteSet(Due(AllCosts(d)'))
             /\ usage'[d].cache_hits + usage'[d].self_hosted + Cardinality(Due(AllKinds(d)'))
                  <= usage'[d].requests
             /\ usage'[d].self_hosted_cost + Cardinality(Due(AllCosts(d)')) <= usage'[d].cost
  <2>1. /\ usage[d].cache_hits + usage[d].self_hosted + Cardinality(Due(AllKinds(d)))
             <= usage[d].requests
        /\ usage[d].self_hosted_cost + Cardinality(Due(AllCosts(d))) <= usage[d].cost
        /\ usage[d] \in [Fields -> Nat]
    BY DEF MeterInv
  <2>2. /\ IsFiniteSet(Due(AllKinds(d)')) /\ IsFiniteSet(Due(AllCosts(d)'))
        /\ Cardinality(Due(AllKinds(d))) \in Nat /\ Cardinality(Due(AllKinds(d)')) \in Nat
        /\ Cardinality(Due(AllCosts(d))) \in Nat /\ Cardinality(Due(AllCosts(d)')) \in Nat
        /\ Cardinality(Due(AllKinds(d)')) <= Cardinality(Due(AllKinds(d)))
        /\ Cardinality(Due(AllCosts(d)')) <= Cardinality(Due(AllCosts(d)))
    <3>1. KindsDue(t, d) = 0 /\ CostDue(t, d) = 0
      OBVIOUS
    <3>2. /\ IsFiniteSet(Due(AllKinds(d)')) /\ IsFiniteSet(Due(AllCosts(d)'))
          /\ Cardinality(Due(AllKinds(d))) \in Nat /\ Cardinality(Due(AllKinds(d)')) \in Nat
          /\ Cardinality(Due(AllCosts(d))) \in Nat /\ Cardinality(Due(AllCosts(d)')) \in Nat
          /\ Cardinality(Due(AllKinds(d)')) + KindsDue(pipe[r], d)
               = Cardinality(Due(AllKinds(d))) + KindsDue(t, d)
          /\ Cardinality(Due(AllCosts(d)')) + CostDue(pipe[r], d)
               = Cardinality(Due(AllCosts(d))) + CostDue(t, d)
          /\ KindsDue(pipe[r], d) \in Nat /\ CostDue(pipe[r], d) \in Nat
      BY PipeMoves, Zenon
    <3> QED
      BY <3>1, <3>2
  <2>3. {usage[d].cache_hits, usage[d].self_hosted, usage[d].requests, usage[d].cost,
         usage[d].self_hosted_cost} \subseteq Nat
    BY <2>1 DEF Fields
  <2> QED
    BY <2>1, <2>2, <2>3
<1> QED
  BY <1>1, <1>2, <1>3 DEF MeterInv

\* The next command of a pipeline runs.
LEMMA Commanded ==
  ASSUME MeterInv, NEW r \in Recorders, RunCommand(r)
  PROVE  MeterInv'
<1>1. PICK e \in 0..LAST_DAY, p \in Nat : Rest(pipe[r], e, p)
  BY Zenon DEF MeterInv
<1>2. p \in Nat
  BY MeteringAssumption
<1>3. PICK t : t = Tail(pipe[r])
  OBVIOUS
<1>4. /\ Rest(t, e, p)
      /\ \E f \in Fields, n \in Nat : Head(pipe[r]) = Inc(e, f, n) /\ Pays(pipe[r], t, e, f, n)
  <2>1. pipe[r] # <<>>
    BY DEF RunCommand
  <2> QED BY <1>1, <1>2, <1>3, <2>1, CommandPays, Zenon
<1>5. PICK f \in Fields, n \in Nat : Head(pipe[r]) = Inc(e, f, n) /\ Pays(pipe[r], t, e, f, n)
  BY <1>4
<1>6. /\ usage \in [0..LAST_DAY -> [Fields -> Nat]]
      /\ DOMAIN pipe = Recorders
  BY DEF MeterInv
<1>7. pipe' = [pipe EXCEPT ![r] = t]
  BY <1>3, <1>6 DEF RunCommand
<1>8. usage' = [usage EXCEPT ![e][f] = @ + n]
  <2>1. Head(pipe[r]).day = e /\ Head(pipe[r]).field = f /\ Head(pipe[r]).by = n
    BY <1>5 DEF Inc
  <2>2. usage' = [usage EXCEPT ![Head(pipe[r]).day][Head(pipe[r]).field] = @ + Head(pipe[r]).by]
    BY DEF RunCommand
  <2> QED BY <2>1, <2>2
<1>9. /\ usage' \in [0..LAST_DAY -> [Fields -> Nat]]
      /\ \A d \in 0..LAST_DAY, g \in Fields :
           usage'[d][g] = IF d = e /\ g = f THEN usage[d][g] + n ELSE usage[d][g]
  BY <1>6, <1>8
<1>a. /\ day' \in 0..LAST_DAY /\ rows' \in Seq([Fields -> Nat]) /\ Len(rows') <= LAST_DAY + 1
      /\ \A i \in DOMAIN rows' : Adds(rows'[i])
  BY Zenon DEF MeterInv, RunCommand
<1>b. /\ DOMAIN pipe' = Recorders
      /\ \A q \in Recorders : \E x \in 0..LAST_DAY, y \in Nat : Rest(pipe'[q], x, y)
  BY <1>4, <1>7, RestsKept, Zenon
<1>c. ASSUME NEW d \in 0..LAST_DAY
      PROVE  /\ IsFiniteSet(Due(AllKinds(d)')) /\ IsFiniteSet(Due(AllCosts(d)'))
             /\ usage'[d].cache_hits + usage'[d].self_hosted + Cardinality(Due(AllKinds(d)'))
                  <= usage'[d].requests
             /\ usage'[d].self_hosted_cost + Cardinality(Due(AllCosts(d)')) <= usage'[d].cost
  <2>1. /\ usage[d].cache_hits + usage[d].self_hosted + Cardinality(Due(AllKinds(d)))
             <= usage[d].requests
        /\ usage[d].self_hosted_cost + Cardinality(Due(AllCosts(d))) <= usage[d].cost
    BY DEF MeterInv
  <2>2. /\ IsFiniteSet(Due(AllKinds(d)')) /\ IsFiniteSet(Due(AllCosts(d)'))
        /\ Cardinality(Due(AllKinds(d))) \in Nat /\ Cardinality(Due(AllKinds(d)')) \in Nat
        /\ Cardinality(Due(AllCosts(d))) \in Nat /\ Cardinality(Due(AllCosts(d)')) \in Nat
        /\ Cardinality(Due(AllKinds(d)')) + KindsDue(pipe[r], d)
             = Cardinality(Due(AllKinds(d))) + KindsDue(t, d)
        /\ Cardinality(Due(AllCosts(d)')) + CostDue(pipe[r], d)
             = Cardinality(Due(AllCosts(d))) + CostDue(t, d)
        /\ KindsDue(pipe[r], d) \in Nat /\ KindsDue(t, d) \in Nat
        /\ CostDue(pipe[r], d) \in Nat /\ CostDue(t, d) \in Nat
    BY <1>4, <1>7, PipeMoves, Zenon
  <2>3. /\ KindsDue(t, d) + (IF d = e /\ f \in {"cache_hits", "self_hosted"} THEN n ELSE 0)
             <= KindsDue(pipe[r], d) + (IF d = e /\ f = "requests" THEN n ELSE 0)
        /\ CostDue(t, d) + (IF d = e /\ f = "self_hosted_cost" THEN n ELSE 0)
             <= CostDue(pipe[r], d) + (IF d = e /\ f = "cost" THEN n ELSE 0)
    BY <1>5 DEF Pays
  <2>4. {usage[d].cache_hits, usage[d].self_hosted, usage[d].requests, usage[d].cost,
         usage[d].self_hosted_cost} \subseteq Nat
    BY <1>6 DEF Fields
  <2>5. /\ usage'[d].cache_hits = IF d = e /\ f = "cache_hits" THEN usage[d].cache_hits + n ELSE usage[d].cache_hits
        /\ usage'[d].self_hosted = IF d = e /\ f = "self_hosted" THEN usage[d].self_hosted + n ELSE usage[d].self_hosted
        /\ usage'[d].requests = IF d = e /\ f = "requests" THEN usage[d].requests + n ELSE usage[d].requests
        /\ usage'[d].cost = IF d = e /\ f = "cost" THEN usage[d].cost + n ELSE usage[d].cost
        /\ usage'[d].self_hosted_cost = IF d = e /\ f = "self_hosted_cost" THEN usage[d].self_hosted_cost + n ELSE usage[d].self_hosted_cost
    BY <1>9 DEF Fields
  <2>6. usage'[d].cache_hits + usage'[d].self_hosted + Cardinality(Due(AllKinds(d)')) <= usage'[d].requests
    BY <2>1, <2>2, <2>3, <2>4, <2>5
  <2>7. usage'[d].self_hosted_cost + Cardinality(Due(AllCosts(d)')) <= usage'[d].cost
    BY <2>1, <2>2, <2>3, <2>4, <2>5
  <2> QED
    BY <2>2, <2>6, <2>7
<1> QED
  BY <1>9, <1>a, <1>b, <1>c DEF MeterInv

LEMMA Metered ==
  ASSUME MeterInv, [MeterNext]_meterVars
  PROVE  MeterInv'
<1>1. ASSUME NEW r \in Recorders, Record(r) PROVE MeterInv'
  <2>1. PICK kind \in {"cached", "provider", "self_hosted"}, price \in Prices :
          pipe' = [pipe EXCEPT ![r] = Commands(kind, price)]
    BY <1>1 DEF Record
  <2>2. day \in 0..LAST_DAY /\ price \in Nat
    BY MeteringAssumption DEF MeterInv
  <2>3. /\ Rest(Commands(kind, price), day, price)
        /\ \A d \in 0..LAST_DAY :
             /\ KindsDue(Commands(kind, price), d) = 0
             /\ CostDue(Commands(kind, price), d) = 0
    <3>0. kind = "cached" \/ kind = "provider" \/ kind = "self_hosted"
      OBVIOUS
    <3>1. CASE kind = "cached"
      <4>1. Commands(kind, price) = <<Inc(day, "requests", 1), Inc(day, "cache_hits", 1), Inc(day, "saved", price)>>
        BY <3>1 DEF Commands, Incr, Inc
      <4>2. ASSUME NEW d PROVE KindsDue(Commands(kind, price), d) = 0 /\ CostDue(Commands(kind, price), d) = 0
        BY <4>1 DEF KindsDue, CostDue, Inc
      <4> QED BY <4>1, <4>2, Zenon DEF Rest
    <3>2. CASE kind = "provider"
      <4>1. Commands(kind, price) = <<Inc(day, "requests", 1), Inc(day, "cost", price)>>
        BY <3>2 DEF Commands, Incr, Inc
      <4>2. ASSUME NEW d PROVE KindsDue(Commands(kind, price), d) = 0 /\ CostDue(Commands(kind, price), d) = 0
        BY <4>1 DEF KindsDue, CostDue, Inc
      <4> QED BY <4>1, <4>2, Zenon DEF Rest
    <3>3. CASE kind = "self_hosted"
      <4>1. Commands(kind, price) = <<Inc(day, "requests", 1), Inc(day, "cost", price), Inc(day, "self_hosted", 1),
                                      Inc(day, "self_hosted_cost", price)>>
        BY <3>3 DEF Commands, Incr, Inc
      <4>2. ASSUME NEW d PROVE KindsDue(Commands(kind, price), d) = 0 /\ CostDue(Commands(kind, price), d) = 0
        BY <4>1 DEF KindsDue, CostDue, Inc
      <4> QED BY <4>1, <4>2, Zenon DEF Rest
    <3> QED BY <3>0, <3>1, <3>2, <3>3
  <2>4. usage' = usage /\ day' = day /\ rows' = rows
    BY <1>1 DEF Record
  <2> QED BY <2>1, <2>2, <2>3, <2>4, Replaced, Zenon
<1>2. ASSUME NEW r \in Recorders, RunCommand(r) PROVE MeterInv'
  BY <1>2, Commanded, Zenon
<1>3. ASSUME NEW r \in Recorders, Break(r) PROVE MeterInv'
  <2>1. PICK e \in 0..LAST_DAY, p \in Nat : Rest(pipe[r], e, p)
    BY Zenon DEF MeterInv
  <2>2. Rest(<<>>, e, p)
    BY Zenon DEF Rest
  <2>3. \A d \in 0..LAST_DAY : KindsDue(<<>>, d) = 0 /\ CostDue(<<>>, d) = 0
    BY DEF KindsDue, CostDue
  <2>4. pipe' = [pipe EXCEPT ![r] = <<>>] /\ usage' = usage /\ day' = day /\ rows' = rows
    BY <1>3 DEF Break
  <2> QED BY <2>2, <2>3, <2>4, Replaced, Zenon
<1>4. ASSUME Daily PROVE MeterInv'
  <2>1. /\ day' \in 0..LAST_DAY /\ usage' \in [0..LAST_DAY -> [Fields -> Nat]]
        /\ DOMAIN pipe' = Recorders
        /\ \A r \in Recorders : \E d \in 0..LAST_DAY, p \in Nat : Rest(pipe'[r], d, p)
    BY <1>4, Zenon DEF Daily, MeterInv
  <2>2. \A d \in 0..LAST_DAY :
          /\ IsFiniteSet(Due(AllKinds(d))) /\ IsFiniteSet(Due(AllCosts(d)))
          /\ usage[d].cache_hits + usage[d].self_hosted + Cardinality(Due(AllKinds(d)))
               <= usage[d].requests
          /\ usage[d].self_hosted_cost + Cardinality(Due(AllCosts(d))) <= usage[d].cost
    BY Zenon DEF MeterInv
  <2>3. \A d \in 0..LAST_DAY :
          /\ IsFiniteSet(Due(AllKinds(d)')) /\ IsFiniteSet(Due(AllCosts(d)'))
          /\ usage'[d].cache_hits + usage'[d].self_hosted + Cardinality(Due(AllKinds(d)'))
               <= usage'[d].requests
          /\ usage'[d].self_hosted_cost + Cardinality(Due(AllCosts(d)')) <= usage'[d].cost
    BY <1>4, <2>2 DEF Daily, AllKinds, AllCosts
  <2>4. ASSUME NEW d \in 0..LAST_DAY PROVE Adds(usage[d])
    <3>1. {usage[d].cache_hits, usage[d].self_hosted, usage[d].requests, usage[d].cost,
           usage[d].self_hosted_cost} \subseteq Nat
      <4>1. usage[d] \in [Fields -> Nat]
        BY DEF MeterInv
      <4> QED BY <4>1 DEF Fields
    <3>2. Cardinality(Due(AllKinds(d))) \in Nat /\ Cardinality(Due(AllCosts(d))) \in Nat
      BY <2>2, FS_CardinalityType
    <3> QED BY <2>2, <3>1, <3>2 DEF Adds
  <2>5. /\ rows \in Seq([Fields -> Nat]) /\ Len(rows) <= LAST_DAY + 1
        /\ \A i \in DOMAIN rows : Adds(rows[i])
        /\ usage \in [0..LAST_DAY -> [Fields -> Nat]]
    BY DEF MeterInv
  <2>6. rows' = IF Len(rows) = LAST_DAY + 1 THEN <<>> ELSE Append(rows, usage[Len(rows)])
    BY <1>4 DEF Daily
  <2>7. /\ rows' \in Seq([Fields -> Nat]) /\ Len(rows') <= LAST_DAY + 1
        /\ \A i \in DOMAIN rows' : Adds(rows'[i])
    <3>1. CASE Len(rows) = LAST_DAY + 1
      BY <2>6, <3>1, MeteringAssumption
    <3>2. CASE Len(rows) # LAST_DAY + 1
      <4>1. Len(rows) \in 0..LAST_DAY
        BY <2>5, <3>2, MeteringAssumption
      <4>2. PICK u \in [Fields -> Nat] : u = usage[Len(rows)] /\ Adds(u)
        BY <2>4, <2>5, <4>1
      <4> QED BY <2>5, <2>6, <3>2, <4>1, <4>2, MeteringAssumption
    <3> QED BY <3>1, <3>2
  <2> QED BY <2>1, <2>3, <2>7 DEF MeterInv
<1>5. CASE Midnight
  <2>1. day' \in 0..LAST_DAY
    BY <1>5, MeteringAssumption DEF Midnight, MeterInv
  <2> QED BY <1>5, <2>1 DEF Midnight, MeterInv, AllKinds, AllCosts
<1>6. CASE UNCHANGED meterVars
  BY <1>6 DEF meterVars, MeterInv, AllKinds, AllCosts
<1> QED
  BY <1>1, <1>2, <1>3, <1>4, <1>5, <1>6 DEF MeterNext

\* The sum of a column up to each row.
Running(f, s) == s = [i \in 0..Len(rows) |-> IF i = 0 THEN 0 ELSE s[i - 1] + rows[i][f]]
Column(f) == CHOOSE s : Running(f, s)

LEMMA ColumnsSum ==
  ASSUME rows \in Seq([Fields -> Nat]), NEW f \in Fields
  PROVE  /\ Column(f)[0] = 0
         /\ \A i \in 1..Len(rows) : Column(f)[i] = Column(f)[i - 1] + rows[i][f]
         /\ \A i \in 0..Len(rows) : Column(f)[i] \in Nat
<1> DEFINE Upto(n) == n <= Len(rows) =>
             \E s \in [0..n -> Nat] : s[0] = 0 /\ \A i \in 1..n : s[i] = s[i - 1] + rows[i][f]
           S == {n \in Nat : Upto(n)}
<1>0. Len(rows) \in Nat /\ \A i \in 1..Len(rows) : rows[i][f] \in Nat
  OBVIOUS
<1>1. Upto(0)
  <2>1. PICK s : s = [i \in 0..0 |-> 0]
    OBVIOUS
  <2>2. s \in [0..0 -> Nat] /\ s[0] = 0 /\ \A i \in 1..0 : s[i] = s[i - 1] + rows[i][f]
    BY <2>1
  <2> QED BY <2>2
<1>2. ASSUME NEW n \in Nat, Upto(n) PROVE Upto(n + 1)
  <2>1. SUFFICES ASSUME n + 1 <= Len(rows)
                 PROVE  \E s \in [0..(n + 1) -> Nat] :
                          s[0] = 0 /\ \A i \in 1..(n + 1) : s[i] = s[i - 1] + rows[i][f]
    OBVIOUS
  <2>2. PICK s \in [0..n -> Nat] : s[0] = 0 /\ \A i \in 1..n : s[i] = s[i - 1] + rows[i][f]
    <3>1. n <= Len(rows)
      BY <1>0, <2>1
    <3> QED BY <1>2, <3>1
  <2>3. PICK u : u = [i \in 0..(n + 1) |-> IF i = n + 1 THEN s[n] + rows[n + 1][f] ELSE s[i]]
    OBVIOUS
  <2>4. u \in [0..(n + 1) -> Nat]
    BY <1>0, <2>1, <2>3
  <2>5. u[0] = 0
    BY <2>2, <2>3
  <2>6. ASSUME NEW i \in 1..(n + 1) PROVE u[i] = u[i - 1] + rows[i][f]
    <3>1. CASE i = n + 1
      BY <2>3, <3>1
    <3>2. CASE i # n + 1
      <4>1. i \in 1..n /\ i - 1 \in 0..n
        BY <3>2
      <4>2. u[i] = s[i] /\ u[i - 1] = s[i - 1]
        BY <2>3, <4>1
      <4> QED BY <2>2, <4>1, <4>2
    <3> QED BY <3>1, <3>2
  <2> QED BY <2>4, <2>5, <2>6
<1>3. Upto(Len(rows))
  <2> HIDE DEF Upto
  <2>1. 0 \in S /\ \A n \in Nat : n \in S => n + 1 \in S
    BY <1>1, <1>2
  <2>2. Nat \subseteq S
    <3> HIDE DEF S
    <3> QED BY <2>1, Induction
  <2> QED BY <1>0, <2>2
<1>4. \E s : Running(f, s)
  <2>1. PICK s \in [0..Len(rows) -> Nat] :
          s[0] = 0 /\ \A i \in 1..Len(rows) : s[i] = s[i - 1] + rows[i][f]
    BY <1>0, <1>3
  <2>2. s = [i \in 0..Len(rows) |-> IF i = 0 THEN 0 ELSE s[i - 1] + rows[i][f]]
    BY <1>0, <2>1
  <2> QED BY <2>2 DEF Running
<1>5. PICK s : s = Column(f) /\ Running(f, s)
  BY <1>4, Zenon DEF Column
<1>6. /\ s[0] = 0
      /\ \A i \in 1..Len(rows) : s[i] = s[i - 1] + rows[i][f]
  <2>1. s = [i \in 0..Len(rows) |-> IF i = 0 THEN 0 ELSE s[i - 1] + rows[i][f]]
    BY <1>5, Zenon DEF Running
  <2>2. Len(rows) \in Nat
    BY <1>0
  <2>3. \A i \in 0..Len(rows) : s[i] = IF i = 0 THEN 0 ELSE s[i - 1] + rows[i][f]
    BY <2>1, Zenon
  <2>4. 0 \in 0..Len(rows) /\ \A i \in 1..Len(rows) : i \in 0..Len(rows) /\ i # 0
    BY <2>2
  <2> QED BY <2>3, <2>4, Zenon
<1>7. \A i \in 0..Len(rows) : s[i] \in Nat
  <2> DEFINE T == {n \in Nat : n <= Len(rows) => s[n] \in Nat}
  <2>1. 0 \in T
    BY <1>6
  <2>2. ASSUME NEW n \in Nat, n \in T PROVE n + 1 \in T
    <3>1. n + 1 <= Len(rows) => s[n + 1] = s[n] + rows[n + 1][f] /\ rows[n + 1][f] \in Nat
      <4>1. n + 1 <= Len(rows) => n + 1 \in 1..Len(rows) /\ (n + 1) - 1 = n
        BY <1>0
      <4> QED BY <1>0, <1>6, <4>1
    <3> QED BY <1>0, <2>2, <3>1
  <2>3. Nat \subseteq T
    <3> HIDE DEF T
    <3> QED BY <2>1, <2>2, Induction
  <2> QED BY <1>0, <2>3
<1> QED
  BY <1>5, <1>6, <1>7

\* Rows that add up have totals that do.
LEMMA TotalsAdd ==
  ASSUME rows \in Seq([Fields -> Nat]), \A i \in DOMAIN rows : Adds(rows[i])
  PROVE  Totals \in [Fields -> Nat] /\ Adds(Totals)
<1>0. Len(rows) \in Nat /\ DOMAIN rows = 1..Len(rows)
  OBVIOUS
<1>1. \A f \in Fields :
        /\ Column(f)[0] = 0
        /\ \A i \in 1..Len(rows) : Column(f)[i] = Column(f)[i - 1] + rows[i][f]
        /\ \A i \in 0..Len(rows) : Column(f)[i] \in Nat
  BY ColumnsSum
<1>2. Totals = [f \in Fields |-> Column(f)[Len(rows)]]
  BY UsageFields DEF Totals, Column, Running
<1> DEFINE Row(n) == [f \in Fields |-> Column(f)[n]]
           S == {n \in Nat : n <= Len(rows) => Adds(Row(n))}
<1>3. 0 \in S
  <2>1. \A f \in Fields : Row(0)[f] = 0
    BY <1>1
  <2> HIDE DEF Row
  <2> QED BY <2>1 DEF Adds, Fields
<1>4. ASSUME NEW n \in Nat, n \in S PROVE n + 1 \in S
  <2>1. SUFFICES ASSUME n + 1 <= Len(rows) PROVE Adds(Row(n + 1))
    OBVIOUS
  <2>2. n \in 0..Len(rows) /\ n + 1 \in 1..Len(rows) /\ (n + 1) - 1 = n
    BY <1>0, <2>1
  <2>3. Adds(Row(n)) /\ Adds(rows[n + 1]) /\ rows[n + 1] \in [Fields -> Nat]
    BY <1>0, <1>4, <2>2
  <2>4. \A f \in Fields :
          /\ Row(n + 1)[f] = Row(n)[f] + rows[n + 1][f]
          /\ Row(n)[f] \in Nat /\ rows[n + 1][f] \in Nat
    BY <1>1, <2>2, <2>3
  <2> HIDE DEF Row
  <2>5. PICK a, b, c : a = Row(n) /\ b = rows[n + 1] /\ c = Row(n + 1)
    OBVIOUS
  <2>6. /\ c.cache_hits = a.cache_hits + b.cache_hits /\ c.self_hosted = a.self_hosted + b.self_hosted
        /\ c.requests = a.requests + b.requests /\ c.cost = a.cost + b.cost
        /\ c.self_hosted_cost = a.self_hosted_cost + b.self_hosted_cost
        /\ a.cache_hits \in Nat /\ a.self_hosted \in Nat /\ a.requests \in Nat /\ a.cost \in Nat
        /\ a.self_hosted_cost \in Nat
        /\ b.cache_hits \in Nat /\ b.self_hosted \in Nat /\ b.requests \in Nat /\ b.cost \in Nat
        /\ b.self_hosted_cost \in Nat
    BY <2>4, <2>5 DEF Fields
  <2>7. Adds(a) /\ Adds(b)
    BY <2>3, <2>5
  <2>8. Adds(c)
    <3>1. /\ a.cache_hits + a.self_hosted <= a.requests /\ a.self_hosted_cost <= a.cost
          /\ b.cache_hits + b.self_hosted <= b.requests /\ b.self_hosted_cost <= b.cost
      BY <2>7 DEF Adds
    <3>0. \A x, y, z, u, v, w \in Nat : x + y <= z /\ u + v <= w => (x + u) + (y + v) <= z + w
      OBVIOUS
    <3>2. c.cache_hits + c.self_hosted <= c.requests
      <4>1. (a.cache_hits + b.cache_hits) + (a.self_hosted + b.self_hosted) <= a.requests + b.requests
        BY <2>6, <3>0, <3>1, Zenon
      <4> QED BY <2>6, <4>1, Zenon
    <3>3. c.self_hosted_cost <= c.cost
      BY <2>6, <3>1
    <3> QED BY <3>2, <3>3 DEF Adds
  <2> QED BY <2>5, <2>8
<1>5. Len(rows) \in S
  <2> HIDE DEF S
  <2> QED BY <1>0, <1>3, <1>4, Induction
<1>6. Totals \in [Fields -> Nat]
  <2>1. Len(rows) \in 0..Len(rows)
    BY <1>0
  <2> HIDE DEF Row, S
  <2> QED BY <1>1, <1>2, <2>1
<1>7. Adds(Totals)
  BY <1>0, <1>2, <1>5
<1> QED
  BY <1>6, <1>7

\* Every usage report adds up, whatever pipelines it overlaps and whichever broke off: its kinds are
\* all of its requests and all of its cost (record and daily, metering.py; provider_requests and
\* provider_cost_usd, :26-33), for any number of recorders, any prices and days.
THEOREM MeterTypes == MeterSpec => []MeterTypeOK
<1>1. MeterInit => MeterInv
  <2> SUFFICES ASSUME MeterInit PROVE MeterInv
    OBVIOUS
  <2>1. /\ day \in 0..LAST_DAY /\ usage \in [0..LAST_DAY -> [Fields -> Nat]]
        /\ rows \in Seq([Fields -> Nat]) /\ Len(rows) <= LAST_DAY + 1
        /\ \A i \in DOMAIN rows : Adds(rows[i])
    BY MeteringAssumption, UsageFields DEF MeterInit
  <2>2. DOMAIN pipe = Recorders /\ \A r \in Recorders : pipe[r] = <<>>
    BY DEF MeterInit
  <2>3. \A r \in Recorders : \E d \in 0..LAST_DAY, p \in Nat : Rest(pipe[r], d, p)
    <3>1. 0 \in 0..LAST_DAY /\ 0 \in Nat
      BY MeteringAssumption
    <3>2. Rest(<<>>, 0, 0)
      BY Zenon DEF Rest
    <3> QED BY <2>2, <3>1, <3>2, Zenon
  <2>4. ASSUME NEW d \in 0..LAST_DAY
        PROVE  /\ IsFiniteSet(Due(AllKinds(d))) /\ IsFiniteSet(Due(AllCosts(d)))
               /\ usage[d].cache_hits + usage[d].self_hosted + Cardinality(Due(AllKinds(d)))
                    <= usage[d].requests
               /\ usage[d].self_hosted_cost + Cardinality(Due(AllCosts(d))) <= usage[d].cost
    <3>1. \A r \in Recorders : AllKinds(d)[r] = 0 /\ AllCosts(d)[r] = 0
      BY <2>2 DEF AllKinds, AllCosts, KindsDue, CostDue
    <3>2. Due(AllKinds(d)) = {} /\ Due(AllCosts(d)) = {}
      BY <3>1 DEF Due
    <3>3. usage[d] = NoUsage
      BY DEF MeterInit
    <3> QED BY <3>2, <3>3, FS_EmptySet DEF NoUsage
  <2> QED BY <2>1, <2>2, <2>3, <2>4 DEF MeterInv
<1>2. MeterInv /\ [MeterNext]_meterVars => MeterInv'
  BY Metered
<1>3. MeterInv => MeterTypeOK
  <2> SUFFICES ASSUME MeterInv PROVE MeterTypeOK
    OBVIOUS
  <2>1. /\ usage \in [0..LAST_DAY -> [Fields -> Nat]]
        /\ rows \in Seq([Fields -> Nat]) /\ \A i \in DOMAIN rows : Adds(rows[i])
    BY DEF MeterInv
  <2>2. PICK t : t = Totals /\ t \in [Fields -> Nat] /\ Adds(t)
    BY <2>1, TotalsAdd
  <2>3. {t.cache_hits, t.self_hosted, t.requests, t.cost, t.self_hosted_cost} \subseteq Nat
    BY <2>2 DEF Fields
  <2>4. /\ t.cache_hits + ProviderRequests(t) + t.self_hosted = t.requests
        /\ ProviderCost(t) + t.self_hosted_cost = t.cost
    BY <2>2, <2>3 DEF Adds, ProviderRequests, ProviderCost, AtLeast0
  <2> QED BY <2>1, <2>2, <2>4, UsageFields DEF MeterTypeOK, CostKinds
<1> QED
  BY <1>1, <1>2, <1>3, PTL DEF MeterSpec

(***************************************************************************)
(* The traces                                                              *)
(***************************************************************************)

\* What the SDK may do to a request: nothing it leaves entered, nothing it records twice ...
TraceCounts ==
  /\ traced \in {"propagate", "start", "traced", "untraced", "record", "exit", "done"}
  /\ entered \in Nat /\ updates \in Nat
  /\ traced \in {"propagate", "start", "traced", "untraced", "record"} => updates = 0
  /\ updates <= 1
  /\ traced = "done" => entered = 0

\* ... and what the error of the request's own code was, is noted with the trace.
TraceTells ==
  /\ traced \in {"propagate", "start", "traced", "untraced", "record"} => updates = 0
  /\ traced = "record" /\ body = "raised" => noted
  /\ updates # 0 /\ body = "raised" => noted
  /\ traced = "done" => outcome = IF escaped THEN "raised" ELSE body

LEMMA TraceStepsCount == TraceCounts /\ [TraceNext]_traceVars => TraceCounts'
<1> SUFFICES ASSUME TraceCounts, [TraceNext]_traceVars PROVE TraceCounts'
  OBVIOUS
<1>1. CASE EnterContext
  BY <1>1 DEF EnterContext, TraceCounts
<1>2. ASSUME NEW how \in {"answered", "raised", "left"}, Serve(how) PROVE TraceCounts'
  <2>1. /\ traced \in {"traced", "untraced"} /\ UNCHANGED <<entered, updates>>
        /\ traced' = IF traced = "traced" THEN "record" ELSE "exit"
    BY <1>2, Zenon DEF Serve
  <2>2. traced' \in {"record", "exit"} /\ updates' = 0 /\ entered' = entered
    BY <2>1 DEF TraceCounts
  <2> QED
    BY <2>2 DEF TraceCounts
<1>3. CASE RecordTrace
  <2>1. /\ traced = "record" /\ traced' = "exit" /\ updates' \in {updates, updates + 1}
        /\ entered' = entered
    BY <1>3 DEF RecordTrace
  <2>2. updates = 0 /\ entered \in Nat
    BY <2>1 DEF TraceCounts
  <2> QED
    BY <2>1, <2>2 DEF TraceCounts
<1>4. CASE Unwind \/ Return
  <2>1. /\ traced = "exit" /\ updates' = updates
        /\ \/ traced' = "exit" /\ entered > 0 /\ entered' = entered - 1
           \/ traced' = "done" /\ entered = 0 /\ entered' = entered
    BY <1>4, Zenon DEF Unwind, Return
  <2> QED
    BY <2>1 DEF TraceCounts
<1>5. CASE UNCHANGED traceVars
  BY <1>5 DEF traceVars, TraceCounts
<1> QED
  BY <1>1, <1>2, <1>3, <1>4, <1>5 DEF TraceNext

LEMMA TraceStepsTell == TraceTells /\ [TraceNext]_traceVars => TraceTells'
<1> SUFFICES ASSUME TraceTells, [TraceNext]_traceVars PROVE TraceTells'
  OBVIOUS
<1>1. CASE EnterContext
  BY <1>1, Zenon DEF EnterContext, TraceTells
<1>2. ASSUME NEW how \in {"answered", "raised", "left"}, Serve(how) PROVE TraceTells'
  <2>1. CASE traced = "traced"
    <3>1. /\ updates = 0 /\ updates' = updates /\ traced' = "record"
          /\ how = "raised" => noted'
          /\ body' = how
      BY <1>2, <2>1, Zenon DEF Serve, TraceTells
    <3> QED
      BY <3>1, Zenon DEF TraceTells
  <2>2. CASE traced = "untraced"
    <3>1. updates = 0 /\ updates' = updates /\ traced' = "exit"
      BY <1>2, <2>2, Zenon DEF Serve, TraceTells
    <3> QED
      BY <3>1, Zenon DEF TraceTells
  <2> QED
    BY <1>2, <2>1, <2>2, Zenon DEF Serve
<1>3. CASE RecordTrace
  <2>1. /\ traced = "record" /\ traced' = "exit"
        /\ UNCHANGED <<entered, body, noted, outcome, escaped>>
    BY <1>3, Zenon DEF RecordTrace
  <2> QED
    BY <2>1, Zenon DEF TraceTells
<1>4. CASE Unwind
  <2>1. traced = "exit" /\ UNCHANGED <<traced, body, noted, updates, outcome>>
    BY <1>4, Zenon DEF Unwind
  <2> QED
    BY <2>1, Zenon DEF TraceTells
<1>5. CASE Return
  <2>1. /\ traced' = "done" /\ UNCHANGED <<entered, body, noted, updates, escaped>>
        /\ outcome' = IF escaped THEN "raised" ELSE body
    BY <1>5, Zenon DEF Return
  <2> QED
    BY <2>1, Zenon DEF TraceTells
<1>6. CASE UNCHANGED traceVars
  BY <1>6, Zenon DEF traceVars, TraceTells
<1> QED
  BY <1>1, <1>2, <1>3, <1>4, <1>5, <1>6, Zenon DEF TraceNext

\* Whatever entering the tracing SDK's contexts and recording raise, the caller sees what the
\* request's own code did; only an exit of those contexts that raises is seen instead.  In every
\* case the contexts entered are left and a trace is recorded at most once, with the error there
\* was (chat, tracing.py:104-133).
THEOREM TracingHarmlessUntilExit == TraceSpec => []NeverFatal
<1>1. TraceInit => TraceCounts
  BY DEF TraceInit, TraceCounts
<1>2. TraceInit => TraceTells
  BY Zenon DEF TraceInit, TraceTells
<1>3. TraceCounts /\ TraceTells => NeverFatal
  <2>1. updates = 1 => updates # 0
    OBVIOUS
  <2> QED
    BY <2>1, Zenon DEF TraceCounts, TraceTells, NeverFatal
<1> QED
  BY <1>1, <1>2, <1>3, TraceStepsCount, TraceStepsTell, PTL DEF TraceSpec

(***************************************************************************)
(* A stream and its price                                                  *)
(***************************************************************************)

Letters == {"a", "s", "n"}
At(t, l) == {i \in DOMAIN t : t[i] = l}
Heads(t) == {i \in DOMAIN t : t[i] = "a" /\ (i = 1 \/ t[i - 1] # "a")}

LEMMA Interval ==
  ASSUME NEW n \in Nat, NEW S \in SUBSET (1..n)
  PROVE  IsFiniteSet(S) /\ Cardinality(S) \in Nat
<1>1. IsFiniteSet(1..n)
  <2>1. 1 \in Int /\ n \in Int
    OBVIOUS
  <2> QED BY <2>1, FS_Interval
<1>2. IsFiniteSet(S)
  BY <1>1, FS_Subset
<1> QED BY <1>2, FS_CardinalityType

LEMMA TextCounts ==
  ASSUME NEW t \in Seq(Letters)
  PROVE  /\ \A l : IsFiniteSet(At(t, l)) /\ Cardinality(At(t, l)) \in Nat
         /\ IsFiniteSet(Heads(t)) /\ Cardinality(Heads(t)) \in Nat
         /\ Spaces(t) = Cardinality(At(t, "s")) /\ Breaks(t) = Cardinality(At(t, "n"))
         /\ Words(t) = Cardinality(Heads(t))
<1>1. Len(t) \in Nat /\ Heads(t) \in SUBSET (1..Len(t)) /\ \A l : At(t, l) \in SUBSET (1..Len(t))
  BY DEF Heads, At
<1> QED
  BY <1>1, Interval DEF Spaces, Breaks, Words, At, Heads

\* Every word but the first comes after a space or a line break.
LEMMA WordsAreApart ==
  ASSUME NEW t \in Seq(Letters)
  PROVE  Words(t) <= Spaces(t) + Breaks(t) + 1
<1>1. Len(t) \in Nat /\ DOMAIN t = 1..Len(t) /\ \A i \in 1..Len(t) : t[i] \in Letters
  OBVIOUS
<1> DEFINE rest == Heads(t) \ {1}
           gaps == At(t, "s") \cup At(t, "n")
           f == [i \in rest |-> i - 1]
<1>2. f \in Injection(rest, gaps)
  <2>1. ASSUME NEW i \in rest PROVE i - 1 \in gaps
    <3>1. i \in 1..Len(t) /\ i # 1 /\ t[i - 1] # "a"
      BY <1>1 DEF Heads
    <3>2. i - 1 \in 1..Len(t) /\ t[i - 1] \in Letters
      BY <1>1, <3>1
    <3> QED BY <1>1, <3>1, <3>2 DEF At, Letters
  <2>2. rest \subseteq Nat
    BY <1>1 DEF Heads
  <2>3. f \in [rest -> gaps]
    BY <2>1
  <2>4. \A i, j \in rest : f[i] = f[j] => i = j
    BY <2>2
  <2> HIDE DEF f, rest, gaps
  <2> QED BY <2>3, <2>4 DEF Injection, IsInjective
<1>3. /\ IsFiniteSet(rest) /\ Cardinality(Heads(t)) <= Cardinality(rest) + 1 /\ Cardinality(rest) \in Nat
  <2>1. IsFiniteSet(Heads(t)) /\ Cardinality(Heads(t)) \in Nat
    BY TextCounts
  <2>2. /\ IsFiniteSet(rest)
        /\ Cardinality(rest) = IF 1 \in Heads(t) THEN Cardinality(Heads(t)) - 1 ELSE Cardinality(Heads(t))
    BY <2>1, FS_RemoveElement
  <2>3. Cardinality(rest) \in Nat
    BY <2>2, FS_CardinalityType
  <2> QED BY <2>1, <2>2, <2>3
<1>4. IsFiniteSet(gaps) /\ Cardinality(gaps) = Spaces(t) + Breaks(t)
  <2>1. /\ IsFiniteSet(At(t, "s")) /\ Cardinality(At(t, "s")) = Spaces(t) /\ Spaces(t) \in Nat
        /\ IsFiniteSet(At(t, "n")) /\ Cardinality(At(t, "n")) = Breaks(t) /\ Breaks(t) \in Nat
    BY TextCounts
  <2>2. At(t, "s") \cap At(t, "n") = {}
    BY DEF At
  <2>3. Cardinality(At(t, "s") \cap At(t, "n")) = 0
    BY <2>2, FS_EmptySet
  <2>4. /\ IsFiniteSet(gaps)
        /\ Cardinality(gaps) = Cardinality(At(t, "s")) + Cardinality(At(t, "n"))
                                 - Cardinality(At(t, "s") \cap At(t, "n"))
    BY <2>1, FS_Union
  <2> QED BY <2>1, <2>3, <2>4
<1>5. Cardinality(rest) <= Cardinality(gaps)
  <2> HIDE DEF rest, gaps, f
  <2> QED BY <1>2, <1>4, FS_Injection
<1>6. Words(t) = Cardinality(Heads(t)) /\ Words(t) \in Nat /\ Spaces(t) \in Nat /\ Breaks(t) \in Nat
  BY TextCounts
<1> HIDE DEF rest, gaps
<1> QED BY <1>3, <1>4, <1>5, <1>6

LEMMA JoinOf ==
  ASSUME NEW t \in Seq(Letters), NEW c \in Seq(Letters), NEW u, u = t \o c
  PROVE  /\ u \in Seq(Letters) /\ Len(u) = Len(t) + Len(c)
         /\ \A i \in 1..(Len(t) + Len(c)) : u[i] = IF i <= Len(t) THEN t[i] ELSE c[i - Len(t)]
OBVIOUS

LEMMA SpacesAdd ==
  ASSUME NEW t \in Seq(Letters), NEW c \in Seq(Letters)
  PROVE  Spaces(t \o c) = Spaces(t) + Spaces(c)
<1>u. PICK u : u = t \o c
  OBVIOUS
<1>1. /\ u \in Seq(Letters) /\ Len(u) = Len(t) + Len(c) /\ Len(t) \in Nat /\ Len(c) \in Nat
      /\ \A i \in 1..(Len(t) + Len(c)) : u[i] = IF i <= Len(t) THEN t[i] ELSE c[i - Len(t)]
  BY <1>u, JoinOf
<1> DEFINE here == At(t, "s")
           there == {i \in 1..Len(u) : i > Len(t) /\ u[i] = "s"}
           f == [i \in At(c, "s") |-> Len(t) + i]
<1>2. At(u, "s") = here \cup there
  <2>1. ASSUME NEW i \in 1..Len(u), i <= Len(t) PROVE u[i] = t[i] /\ i \in 1..Len(t)
    BY <1>1, <2>1
  <2>2. ASSUME NEW i \in 1..Len(t) PROVE u[i] = t[i] /\ i \in 1..Len(u) /\ i <= Len(t)
    BY <1>1
  <2>3. DOMAIN u = 1..Len(u) /\ DOMAIN t = 1..Len(t)
    BY <1>1
  <2> QED BY <1>1, <2>1, <2>2, <2>3 DEF At
<1>3. here \cap there = {}
  BY <1>1 DEF At
<1>4. f \in Bijection(At(c, "s"), there)
  <2>0. DOMAIN c = 1..Len(c)
    OBVIOUS
  <2>1. ASSUME NEW i \in At(c, "s") PROVE Len(t) + i \in there
    <3>1. i \in 1..Len(c) /\ c[i] = "s"
      BY <2>0 DEF At
    <3>2. Len(t) + i \in 1..(Len(t) + Len(c)) /\ ~(Len(t) + i <= Len(t)) /\ (Len(t) + i) - Len(t) = i
      BY <1>1, <3>1
    <3>3. u[Len(t) + i] = c[i]
      BY <1>1, <3>2
    <3> QED BY <1>1, <3>1, <3>2, <3>3
  <2>2. ASSUME NEW k \in there PROVE \E i \in At(c, "s") : Len(t) + i = k
    <3>1. k \in 1..(Len(t) + Len(c)) /\ ~(k <= Len(t)) /\ u[k] = "s"
      BY <1>1
    <3>2. k - Len(t) \in 1..Len(c) /\ c[k - Len(t)] = "s" /\ Len(t) + (k - Len(t)) = k
      BY <1>1, <3>1
    <3> QED BY <2>0, <3>2 DEF At
  <2>3. At(c, "s") \subseteq Nat
    BY <2>0 DEF At
  <2>4. f \in [At(c, "s") -> there]
    BY <2>1
  <2>5. \A i, j \in At(c, "s") : f[i] = f[j] => i = j
    BY <1>1, <2>3
  <2>6. \A k \in there : \E i \in At(c, "s") : f[i] = k
    BY <2>2
  <2> HIDE DEF f, there
  <2> QED BY <2>4, <2>5, <2>6 DEF Bijection, Injection, IsInjective, Surjection
<1>5. /\ IsFiniteSet(here) /\ Cardinality(here) = Spaces(t) /\ Spaces(t) \in Nat
      /\ IsFiniteSet(At(c, "s")) /\ Cardinality(At(c, "s")) = Spaces(c) /\ Spaces(c) \in Nat
      /\ Spaces(u) = Cardinality(At(u, "s"))
  BY <1>1, TextCounts
<1>6. IsFiniteSet(there) /\ Cardinality(there) = Spaces(c)
  <2>1. ExistsBijection(At(c, "s"), there)
    BY <1>4 DEF ExistsBijection
  <2> HIDE DEF there, f
  <2> QED BY <1>5, <2>1, FS_Bijection
<1>7. Cardinality(here \cup there) = Cardinality(here) + Cardinality(there) - Cardinality(here \cap there)
  <2> HIDE DEF here, there
  <2> QED BY <1>5, <1>6, FS_Union
<1>8. Cardinality(here \cap there) = 0
  BY <1>3, FS_EmptySet
<1> HIDE DEF here, there
<1>9. Cardinality(here \cup there) = Spaces(t) + Spaces(c)
  BY <1>5, <1>6, <1>7, <1>8
<1>10. Spaces(u) = Spaces(t) + Spaces(c)
  BY <1>2, <1>5, <1>9, Zenon
<1> QED BY <1>10, <1>u, Zenon

\* The mock provider's answer, a word longer.
LEMMA WordMore ==
  ASSUME NEW t \in Seq(Letters), t # <<>>
  PROVE  Words(t \o <<"s", "a">>) = Words(t) + 1
<1>c. PICK c : c = <<"s", "a">>
  OBVIOUS
<1>d. c \in Seq(Letters) /\ Len(c) = 2 /\ c[1] = "s" /\ c[2] = "a"
  BY <1>c DEF Letters
<1>u. PICK u : u = t \o c
  OBVIOUS
<1>1. /\ u \in Seq(Letters) /\ Len(u) = Len(t) + 2 /\ Len(t) \in Nat /\ Len(t) > 0
      /\ \A i \in 1..(Len(t) + 2) : u[i] = IF i <= Len(t) THEN t[i] ELSE c[i - Len(t)]
  <2>1. /\ u \in Seq(Letters) /\ Len(u) = Len(t) + Len(c)
        /\ \A i \in 1..(Len(t) + Len(c)) : u[i] = IF i <= Len(t) THEN t[i] ELSE c[i - Len(t)]
    BY <1>d, <1>u, JoinOf
  <2>2. Len(t) \in Nat /\ Len(t) > 0
    OBVIOUS
  <2> QED BY <1>d, <2>1, <2>2
<1>2. /\ \A i \in 1..Len(t) : u[i] = t[i]
      /\ u[Len(t) + 1] = "s" /\ u[Len(t) + 2] = "a"
  BY <1>1, <1>d
<1>3. Heads(u) = Heads(t) \cup {Len(t) + 2}
  <2>0. DOMAIN u = 1..(Len(t) + 2) /\ DOMAIN t = 1..Len(t)
    BY <1>1
  <2>1. ASSUME NEW i \in 1..Len(t) PROVE i \in Heads(u) <=> i \in Heads(t)
    <3>1. u[i] = t[i] /\ (i # 1 => u[i - 1] = t[i - 1])
      BY <1>1, <1>2
    <3> QED BY <1>1, <2>0, <3>1 DEF Heads
  <2>2. Len(t) + 1 \notin Heads(u)
    BY <1>2 DEF Heads
  <2>3. Len(t) + 2 \in Heads(u)
    <3>1. (Len(t) + 2) - 1 = Len(t) + 1 /\ Len(t) + 2 \in 1..(Len(t) + 2)
      BY <1>1
    <3> QED BY <1>2, <2>0, <3>1 DEF Heads
  <2>4. Heads(u) \subseteq 1..(Len(t) + 2) /\ Heads(t) \subseteq 1..Len(t)
    BY <2>0 DEF Heads
  <2>5. 1..(Len(t) + 2) = (1..Len(t)) \cup {Len(t) + 1, Len(t) + 2}
    BY <1>1
  <2> QED BY <2>1, <2>2, <2>3, <2>4, <2>5
<1>4. Len(t) + 2 \notin Heads(t)
  BY <1>1 DEF Heads
<1>5. IsFiniteSet(Heads(t)) /\ Words(t) = Cardinality(Heads(t)) /\ Words(u) = Cardinality(Heads(u))
  BY <1>1, TextCounts
<1>6. Cardinality(Heads(t) \cup {Len(t) + 2}) = Cardinality(Heads(t)) + 1
  BY <1>4, <1>5, FS_AddElement
<1> QED BY <1>3, <1>5, <1>6, <1>c, <1>u

LEMMA OneWord == Words(<<"a">>) = 1 /\ Spaces(<<"a">>) = 0 /\ Spaces(<<>>) = 0
<1>1. /\ {i \in DOMAIN <<"a">> : <<"a">>[i] = "a" /\ (i = 1 \/ <<"a">>[i - 1] # "a")} = {1}
      /\ {i \in DOMAIN <<"a">> : <<"a">>[i] = "s"} = {}
      /\ {i \in DOMAIN <<>> : <<>>[i] = "s"} = {}
  OBVIOUS
<1>2. Cardinality({1}) = 1 /\ Cardinality({}) = 0
  BY FS_Singleton, FS_EmptySet
<1> QED BY <1>1, <1>2 DEF Words, Spaces

Opened == [usage : Int, reported : BOOLEAN, estimated : BOOLEAN, settled : BOOLEAN]
Deltas == [content : Seq(Letters), usage : Int]
Says(p) == {i \in DOMAIN p : p[i].usage # Silent}
Tells(p, n) == \E i \in DOMAIN p : p[i].usage # Silent /\ n = p[i].usage
                 /\ \A j \in DOMAIN p : p[j].usage # Silent => j <= i
Ended == {"complete", "broken", "left"}

\* What is known of the usage: the provider's last word, or the words counted so far, or in the end.
Priced(o) ==
  IF Told # {} THEN o.reported = TRUE /\ Tells(parts, o.usage) /\ (place \in Ended => o.estimated = FALSE)
  ELSE /\ o.reported = FALSE /\ o.estimated = TRUE
       /\ o.usage = IF place \in Ended THEN Words(text) ELSE words

\* What the mock provider has sent.
Mocked ==
  /\ Len(parts) \in 1..(ANSWER + 1) /\ firstDelta = Delta(<<"a">>, Silent)
  /\ \A i \in 1..Len(parts) : parts[i].usage = IF i = ANSWER + 1 THEN ANSWER ELSE Silent
  /\ Started => text # <<>> /\ Words(text) = IF Len(parts) <= ANSWER THEN Len(parts) ELSE ANSWER

StreamInv ==
  /\ adapter \in {"litellm", "mock", "plain"}
  /\ place \in {"opening", "first", "failed", "waiting", "yielded"} \cup Ended
  /\ parts \in Seq(Deltas) /\ text \in Seq(Letters)
  /\ opened \in Opened
  /\ place \in Ended => opened.settled = TRUE /\ counted = 1
  /\ place \notin Ended => opened.settled = FALSE /\ counted = 0
  /\ place = "opening" => opened = NotOpen /\ parts = <<>>
  /\ place = "first" => opened = NotOpen /\ parts = <<firstDelta>>
  /\ Started => words \in Nat /\ Spaces(text) <= words /\ Priced(opened)
  /\ bill # Silent => place \in Ended
  /\ bill # Silent /\ Told = {} => bill \in {words, Words(text)}
  /\ adapter = "mock" /\ place \notin {"opening", "failed"} => Mocked
  /\ adapter = "mock" /\ place = "complete" => Told # {}


LEMMA Appended ==
  ASSUME NEW p \in Seq(Deltas), NEW d \in Deltas
  PROVE  /\ Append(p, d) \in Seq(Deltas) /\ Len(Append(p, d)) = Len(p) + 1
         /\ d.usage = Silent => Says(Append(p, d)) = Says(p) /\ \A n : Tells(p, n) => Tells(Append(p, d), n)
         /\ d.usage # Silent => Says(Append(p, d)) # {} /\ Tells(Append(p, d), d.usage)
<1>q. PICK q : q = Append(p, d)
  OBVIOUS
<1>1. /\ q \in Seq(Deltas) /\ Len(q) = Len(p) + 1 /\ Len(p) \in Nat
      /\ DOMAIN p = 1..Len(p) /\ DOMAIN q = 1..(Len(p) + 1)
      /\ q[Len(p) + 1] = d /\ \A i \in 1..Len(p) : q[i] = p[i]
  BY <1>q
<1>2. DOMAIN q = DOMAIN p \cup {Len(p) + 1} /\ \A i \in DOMAIN p : q[i] = p[i] /\ i < Len(p) + 1
  BY <1>1
<1>3. ASSUME d.usage = Silent PROVE Says(q) = Says(p)
  BY <1>1, <1>2, <1>3 DEF Says
<1>4. ASSUME d.usage = Silent, NEW n, Tells(p, n) PROVE Tells(q, n)
  <2>1. PICK i \in DOMAIN p : /\ p[i].usage # Silent /\ n = p[i].usage
                             /\ \A j \in DOMAIN p : p[j].usage # Silent => j <= i
    BY <1>4 DEF Tells
  <2>2. i \in DOMAIN q /\ q[i].usage # Silent /\ n = q[i].usage
    BY <1>2, <2>1
  <2>3. \A j \in DOMAIN q : q[j].usage # Silent => j <= i
    BY <1>1, <1>2, <1>4, <2>1
  <2> QED BY <2>2, <2>3 DEF Tells
<1>5. ASSUME d.usage # Silent PROVE Says(q) # {} /\ Tells(q, d.usage)
  <2>1. Len(p) + 1 \in DOMAIN q /\ q[Len(p) + 1].usage # Silent /\ d.usage = q[Len(p) + 1].usage
    BY <1>1, <1>5
  <2>2. \A j \in DOMAIN q : j <= Len(p) + 1
    BY <1>1
  <2> QED BY <2>1, <2>2 DEF Says, Tells
<1> QED BY <1>1, <1>3, <1>4, <1>5, <1>q

\* What has been reported is in it; and, after an estimate, what has not is estimated.
Informed(p, o) ==
  /\ o \in Opened /\ o.settled = FALSE
  /\ Says(p) # {} => o.reported = TRUE /\ Tells(p, o.usage)
  /\ Says(p) = {} => o.reported = FALSE
Estimates(p, o, n) ==
  /\ Informed(p, o)
  /\ Says(p) = {} => o.estimated = TRUE /\ o.usage = n

\* One more delta, and the estimate after it.
LEMMA Absorbed ==
  ASSUME NEW p \in Seq(Deltas), NEW d \in Deltas, NEW o, NEW n \in Int, Informed(p, o)
  PROVE  Estimates(Append(p, d), Estimate(Absorb(o, d), n), n)
<1>1. /\ o \in Opened /\ o.settled = FALSE
      /\ Says(p) # {} => o.reported = TRUE /\ Tells(p, o.usage)
      /\ Says(p) = {} => o.reported = FALSE
  BY DEF Informed
<1>2. PICK q, x : q = Append(p, d) /\ x = Estimate(Absorb(o, d), n)
  OBVIOUS
<1>3. /\ x \in Opened /\ x.settled = o.settled
      /\ Says(q) # {} => x.reported = TRUE /\ Tells(q, x.usage)
      /\ Says(q) = {} => x.reported = FALSE /\ x.estimated = TRUE /\ x.usage = n
  <2>1. CASE d.usage # Silent
    <3>1. Absorb(o, d) = [o EXCEPT !.usage = d.usage, !.reported = TRUE]
      BY <2>1 DEF Absorb
    <3>2. /\ Absorb(o, d) \in Opened /\ Absorb(o, d).reported = TRUE /\ Absorb(o, d).usage = d.usage
          /\ Absorb(o, d).settled = o.settled
      BY <1>1, <3>1 DEF Opened, Deltas
    <3>3. x = Absorb(o, d)
      BY <1>2, <3>2 DEF Estimate
    <3> QED BY <1>1, <1>2, <2>1, <3>2, <3>3, Appended
  <2>2. CASE d.usage = Silent
    <3>1. x = IF o.reported THEN o ELSE [o EXCEPT !.usage = n, !.estimated = TRUE]
      BY <1>2, <2>2 DEF Absorb, Estimate
    <3>2. Says(q) = Says(p) /\ \A m : Tells(p, m) => Tells(q, m)
      BY <1>2, <2>2, Appended
    <3>3. CASE o.reported = TRUE
      <4>1. x = o /\ Says(p) # {}
        BY <1>1, <3>1, <3>3
      <4> QED BY <1>1, <3>2, <3>3, <4>1
    <3>4. CASE o.reported = FALSE
      <4>1. x = [o EXCEPT !.usage = n, !.estimated = TRUE] /\ Says(p) = {}
        BY <1>1, <3>1, <3>4
      <4>2. x \in Opened /\ x.settled = o.settled /\ x.reported = FALSE /\ x.estimated = TRUE /\ x.usage = n
        BY <1>1, <3>4, <4>1 DEF Opened
      <4> QED BY <3>2, <4>1, <4>2
    <3>5. o.reported \in BOOLEAN
      BY <1>1 DEF Opened
    <3> QED BY <3>3, <3>4, <3>5
  <2> QED BY <2>1, <2>2
<1>4. Estimates(q, x, n)
  BY <1>1, <1>3 DEF Estimates, Informed
<1> QED BY <1>2, <1>4

LEMMA AbsorbedOnly ==
  ASSUME NEW p \in Seq(Deltas), NEW d \in Deltas, NEW o, NEW n, Estimates(p, o, n)
  PROVE  Estimates(Append(p, d), Absorb(o, d), n)
<1>1. /\ o \in Opened /\ o.settled = FALSE
      /\ Says(p) # {} => o.reported = TRUE /\ Tells(p, o.usage)
      /\ Says(p) = {} => o.reported = FALSE /\ o.estimated = TRUE /\ o.usage = n
  BY DEF Estimates, Informed
<1>2. PICK q, x : q = Append(p, d) /\ x = Absorb(o, d)
  OBVIOUS
<1>3. /\ x \in Opened /\ x.settled = o.settled
      /\ Says(q) # {} => x.reported = TRUE /\ Tells(q, x.usage)
      /\ Says(q) = {} => x = o
  <2>1. CASE d.usage # Silent
    <3>1. x = [o EXCEPT !.usage = d.usage, !.reported = TRUE]
      BY <1>2, <2>1 DEF Absorb
    <3>2. x \in Opened /\ x.reported = TRUE /\ x.usage = d.usage /\ x.settled = o.settled
      BY <1>1, <3>1 DEF Opened, Deltas
    <3> QED BY <1>1, <1>2, <2>1, <3>2, Appended
  <2>2. CASE d.usage = Silent
    <3>1. x = o
      BY <1>2, <2>2 DEF Absorb
    <3>2. Says(q) = Says(p) /\ \A m : Tells(p, m) => Tells(q, m)
      BY <1>2, <2>2, Appended
    <3> QED BY <1>1, <3>1, <3>2
  <2> QED BY <2>1, <2>2
<1>4. Says(q) = {} => Says(p) = {}
  BY <1>2, Appended
<1>5. Estimates(q, x, n)
  BY <1>1, <1>3, <1>4 DEF Estimates, Informed
<1> QED BY <1>2, <1>5

LEMMA OfferedTyped ==
  ASSUME NEW d \in Offered, adapter \in {"litellm", "mock", "plain"}
  PROVE  d \in Deltas
<1>1. /\ Pieces \subseteq Seq(Letters) /\ Reports \subseteq Int /\ Silent \in Int /\ ANSWER \in Int
      /\ <<"a">> \in Seq(Letters) /\ <<"s", "a">> \in Seq(Letters) /\ <<>> \in Seq(Letters)
  BY StreamAssumption DEF Letters, Silent
<1>2. \A c \in Seq(Letters), u \in Int : Delta(c, u) \in Deltas
  BY DEF Delta, Deltas
<1>3. \A n : /\ MockParts(n) \subseteq Deltas
            /\ ChunkParts(n) \subseteq Deltas
            /\ LiteLLMParts \subseteq Deltas
  <2>1. \A n : MockParts(n) \subseteq Deltas
    BY <1>1, <1>2 DEF MockParts
  <2>2. \A n : ChunkParts(n) \subseteq Deltas
    BY <1>1, <1>2 DEF ChunkParts
  <2>3. LiteLLMParts \subseteq Deltas
    BY <1>1, <1>2 DEF LiteLLMParts
  <2> QED BY <2>1, <2>2, <2>3
<1>4. CASE adapter = "litellm"
  BY <1>3, <1>4 DEF Offered
<1>5. CASE adapter = "mock"
  BY <1>3, <1>5 DEF Offered
<1>6. CASE adapter = "plain"
  BY <1>3, <1>6 DEF Offered
<1> QED BY <1>4, <1>5, <1>6

LEMMA MockOffers ==
  ASSUME adapter = "mock", NEW d \in Offered, NEW n, n = Len(parts), n \in Nat
  PROVE  /\ ~ReportSent
         /\ n < ANSWER => d = Delta(IF n = 0 THEN <<"a">> ELSE <<"s", "a">>, Silent)
         /\ ~(n < ANSWER) => d = Delta(<<>>, ANSWER)
<1>1. Offered = IF ReportSent THEN {} ELSE MockParts(Len(parts))
  BY DEF Offered
<1> QED BY <1>1 DEF MockParts

LEMMA SettledOnce ==
  ASSUME NEW o \in Opened, o.settled = FALSE, NEW t \in Seq(Letters), NEW x, x = Settle(o, t)
  PROVE  /\ x \in Opened /\ x.settled = TRUE
         /\ o.reported = TRUE => x.reported = TRUE /\ x.estimated = FALSE /\ x.usage = o.usage
         /\ o.reported = FALSE => x.reported = FALSE /\ x.estimated = TRUE /\ x.usage = Words(t)
<1>1. Words(t) \in Int
  BY TextCounts
<1>2. x = IF o.reported THEN [o EXCEPT !.settled = TRUE, !.estimated = FALSE]
          ELSE [o EXCEPT !.settled = TRUE, !.estimated = TRUE, !.usage = Words(t)]
  BY DEF Settle
<1>3. CASE o.reported = TRUE
  BY <1>2, <1>3 DEF Opened
<1>4. CASE o.reported = FALSE
  BY <1>1, <1>2, <1>4 DEF Opened
<1>5. o.reported \in BOOLEAN
  BY DEF Opened
<1> QED BY <1>3, <1>4, <1>5

\* The stream is settled.
LEMMA SettlesKeeps ==
  ASSUME StreamInv, place \in {"waiting", "yielded"}, place' \in Ended, Settles,
         place' = "complete" => MayEnd,
         UNCHANGED <<adapter, parts, firstDelta, words, text>>,
         bill' = bill \/ (place' = "left" /\ bill' \in {opened.usage, opened'.usage})
  PROVE  StreamInv'
<1>1. /\ adapter \in {"litellm", "mock", "plain"} /\ parts \in Seq(Deltas) /\ text \in Seq(Letters)
      /\ opened \in Opened /\ Priced(opened) /\ words \in Nat /\ Spaces(text) <= words
      /\ bill = Silent
      /\ adapter = "mock" => Mocked
  <2>1. Started /\ place \notin Ended
    BY DEF Started, Ended
  <2> QED BY <2>1 DEF StreamInv
<1>2. opened.settled = FALSE /\ counted = 0
  BY DEF StreamInv, Ended
<1>3. counted' = 1
  <2>1. counted' = IF opened.settled THEN counted ELSE counted + 1
    BY DEF Settles
  <2> QED BY <1>2, <2>1
<1>4. /\ opened' \in Opened /\ opened'.settled = TRUE
      /\ opened.reported = TRUE =>
           opened'.reported = TRUE /\ opened'.estimated = FALSE /\ opened'.usage = opened.usage
      /\ opened.reported = FALSE =>
           opened'.reported = FALSE /\ opened'.estimated = TRUE /\ opened'.usage = Words(text)
  <2>1. opened' = Settle(opened, text)
    BY DEF Settles
  <2>2. \A x : x = Settle(opened, text) =>
          /\ x \in Opened /\ x.settled = TRUE
          /\ opened.reported = TRUE => x.reported = TRUE /\ x.estimated = FALSE /\ x.usage = opened.usage
          /\ opened.reported = FALSE => x.reported = FALSE /\ x.estimated = TRUE /\ x.usage = Words(text)
    BY <1>1, <1>2, SettledOnce
  <2> QED BY <2>1, <2>2, Zenon
<1>5. Priced(opened)'
  <2>1. Told' = Told /\ parts' = parts /\ words' = words /\ text' = text
    BY DEF Told
  <2>2. CASE Told # {}
    <3>1. opened.reported = TRUE /\ Tells(parts, opened.usage)
      BY <1>1, <2>2 DEF Priced
    <3>2. opened'.reported = TRUE /\ opened'.estimated = FALSE /\ Tells(parts', opened'.usage)
      BY <1>4, <2>1, <3>1
    <3> QED BY <2>1, <2>2, <3>2 DEF Priced
  <2>3. CASE Told = {}
    <3>1. opened.reported = FALSE
      BY <1>1, <2>3 DEF Priced
    <3>2. opened'.reported = FALSE /\ opened'.estimated = TRUE /\ opened'.usage = Words(text')
      BY <1>4, <2>1, <3>1
    <3> QED BY <2>1, <2>3, <3>2 DEF Priced
  <2> QED BY <2>2, <2>3
<1>6. bill' # Silent /\ Told' = {} => bill' \in {words', Words(text')}
  <2>1. Told' = Told /\ words' = words /\ text' = text
    BY DEF Told
  <2>2. Told = {} => opened.usage = words /\ opened.reported = FALSE
    BY DEF StreamInv, Started, Priced, Ended
  <2> QED BY <1>1, <1>4, <2>1, <2>2
<1>7. place' = "complete" /\ adapter = "mock" => Told' # {}
  <2>1. place' = "complete" /\ adapter = "mock" => parts # <<>> /\ parts[Len(parts)].usage # Silent
    BY DEF MayEnd, ReportSent
  <2>2. parts # <<>> => Len(parts) \in DOMAIN parts
    BY <1>1
  <2> QED BY <2>1, <2>2 DEF Told
<1>8. adapter' = "mock" => Mocked'
  <2>1. Started /\ Started'
    BY DEF Started, Ended
  <2> QED BY <1>1, <2>1 DEF Mocked
<1> QED
  BY <1>1, <1>3, <1>4, <1>5, <1>6, <1>7, <1>8 DEF StreamInv, Ended

LEMMA BeginKeeps == StreamInv /\ Begin => StreamInv'
<1> SUFFICES ASSUME StreamInv, Begin PROVE StreamInv'
  OBVIOUS
<1>1. /\ adapter \in {"litellm", "mock", "plain"} /\ adapter' = adapter
      /\ parts = <<firstDelta>> /\ parts' = parts /\ firstDelta' = firstDelta /\ parts \in Seq(Deltas)
      /\ opened = NotOpen /\ bill' = bill /\ bill = Silent /\ counted = 0 /\ counted' = counted
      /\ place = "first" /\ place' = "waiting"
      /\ adapter = "mock" => Mocked
  BY DEF StreamInv, Begin, Ended
<1>2. /\ text' = firstDelta.content /\ words' = Spaces(text') + (IF text' = <<>> THEN 0 ELSE 1)
      /\ opened' = Estimate(Absorb(opened, firstDelta), words')
  BY DEF Begin
<1>3. firstDelta \in Deltas
  BY <1>1
<1>4. text' \in Seq(Letters) /\ Spaces(text') \in Nat
  BY <1>2, <1>3, TextCounts DEF Deltas
<1>5. words' \in Nat /\ Spaces(text') <= words'
  BY <1>2, <1>4
<1>6. Estimates(parts, opened', words')
  <2>1. Informed(<<>>, opened)
    BY <1>1 DEF NotOpen, Opened, Says, Informed
  <2>2. parts = Append(<<>>, firstDelta) /\ <<>> \in Seq(Deltas) /\ words' \in Int
    BY <1>1, <1>5
  <2>3. Estimates(Append(<<>>, firstDelta), Estimate(Absorb(opened, firstDelta), words'), words')
    BY <1>3, <2>1, <2>2, Absorbed, Zenon
  <2> QED BY <1>2, <2>2, <2>3, Zenon
<1>7. Priced(opened)'
  <2>1. Told' = Says(parts) /\ place' \notin Ended
    BY <1>1 DEF Told, Says, Ended
  <2> QED BY <1>1, <1>6, <2>1 DEF Priced, Estimates, Informed
<1>8. adapter' = "mock" => Mocked'
  <2> SUFFICES ASSUME adapter = "mock" PROVE Mocked'
    BY <1>1
  <2>1. text' = <<"a">> /\ Words(text') = 1 /\ Len(parts') = 1 /\ 1 <= ANSWER
    BY <1>1, <1>2, OneWord, StreamAssumption DEF Mocked, Delta
  <2> QED BY <1>1, <2>1 DEF Mocked
<1> QED
  <2>1. opened' \in Opened /\ opened'.settled = FALSE
    BY <1>6 DEF Estimates, Informed
  <2> QED BY <1>1, <1>4, <1>5, <1>7, <1>8, <2>1 DEF StreamInv, Ended

LEMMA ReadDeltaKeeps == StreamInv /\ ReadDelta => StreamInv'
<1> SUFFICES ASSUME StreamInv, ReadDelta PROVE StreamInv'
  OBVIOUS
<1>1. /\ adapter \in {"litellm", "mock", "plain"} /\ adapter' = adapter
      /\ firstDelta' = firstDelta /\ parts \in Seq(Deltas) /\ text \in Seq(Letters)
      /\ opened \in Opened /\ bill' = bill /\ bill = Silent /\ counted = 0 /\ counted' = counted
      /\ place = "waiting" /\ opened.settled = FALSE
      /\ words \in Nat /\ Spaces(text) <= words /\ Priced(opened)
      /\ adapter = "mock" => Mocked
  <2>1. place = "waiting" /\ UNCHANGED <<adapter, firstDelta, counted, bill>>
    BY DEF ReadDelta
  <2>2. Started /\ place \notin Ended /\ place \notin {"opening", "failed"}
    BY <2>1 DEF Started, Ended
  <2> QED BY <2>1, <2>2 DEF StreamInv
<1>2. PICK d \in Offered :
        /\ parts' = Append(parts, d)
        /\ text' = text \o d.content
        /\ words' = words + Spaces(d.content)
        /\ opened' = IF d.content = <<>> THEN Absorb(opened, d)
                     ELSE Estimate(Absorb(opened, d), words')
        /\ place' = IF d.content = <<>> THEN "waiting" ELSE "yielded"
  BY DEF ReadDelta
<1>3. d \in Deltas /\ d.content \in Seq(Letters)
  BY <1>1, OfferedTyped DEF Deltas
<1>4. /\ text' \in Seq(Letters) /\ Spaces(text') = Spaces(text) + Spaces(d.content)
      /\ Spaces(d.content) \in Nat /\ Spaces(text) \in Nat
  BY <1>1, <1>2, <1>3, JoinOf, SpacesAdd, TextCounts
<1>5. words' \in Nat /\ Spaces(text') <= words'
  BY <1>1, <1>2, <1>4
<1>6. parts' \in Seq(Deltas) /\ place' \in {"waiting", "yielded"} /\ place' \notin Ended
  BY <1>1, <1>2, <1>3 DEF Ended
<1>7. Estimates(parts, opened, words)
  BY <1>1 DEF Priced, Says, Told, Ended, Estimates, Informed
<1>8. Estimates(parts', opened', words')
  <2>1. CASE d.content = <<>>
    <3>1. opened' = Absorb(opened, d) /\ words' = words /\ parts' = Append(parts, d)
      BY <1>1, <1>2, <2>1, OneWord
    <3>2. Estimates(Append(parts, d), Absorb(opened, d), words)
      BY <1>1, <1>3, <1>7, AbsorbedOnly, Zenon
    <3> QED BY <3>1, <3>2, Zenon
  <2>2. CASE d.content # <<>>
    <3>1. opened' = Estimate(Absorb(opened, d), words') /\ parts' = Append(parts, d)
      BY <1>2, <2>2
    <3>2. words' \in Int /\ Informed(parts, opened)
      BY <1>5, <1>7 DEF Estimates
    <3>3. Estimates(Append(parts, d), Estimate(Absorb(opened, d), words'), words')
      BY <1>1, <1>3, <3>2, Absorbed, Zenon
    <3> QED BY <3>1, <3>3, Zenon
  <2> QED BY <2>1, <2>2
<1>9. Priced(opened)'
  <2>1. Told' = Says(parts')
    BY DEF Told, Says
  <2> QED BY <1>6, <1>8, <2>1 DEF Priced, Estimates, Informed
<1>10. adapter' = "mock" => Mocked'
  <2> SUFFICES ASSUME adapter = "mock" PROVE Mocked'
    BY <1>1
  <2>1. /\ Len(parts) \in 1..(ANSWER + 1) /\ firstDelta = Delta(<<"a">>, Silent)
        /\ \A i \in 1..Len(parts) : parts[i].usage = IF i = ANSWER + 1 THEN ANSWER ELSE Silent
        /\ text # <<>> /\ Words(text) = IF Len(parts) <= ANSWER THEN Len(parts) ELSE ANSWER
    BY <1>1 DEF Mocked, Started
  <2>2. PICK n : n = Len(parts) /\ n \in Nat
    BY <1>1
  <2>3. /\ ~ReportSent
        /\ n < ANSWER => d = Delta(IF n = 0 THEN <<"a">> ELSE <<"s", "a">>, Silent)
        /\ ~(n < ANSWER) => d = Delta(<<>>, ANSWER)
    BY <2>2, MockOffers
  <2>4. n # 0 /\ n <= ANSWER /\ ANSWER \in Nat
    <3>1. ANSWER \in Nat /\ ANSWER # Silent
      BY StreamAssumption DEF Silent
    <3>2. n # ANSWER + 1
      <4>1. n = ANSWER + 1 => parts # <<>> /\ parts[Len(parts)].usage = ANSWER
        <5> SUFFICES ASSUME n = ANSWER + 1 PROVE parts # <<>> /\ parts[Len(parts)].usage = ANSWER
          OBVIOUS
        <5>1. Len(parts) \in 1..Len(parts) /\ Len(parts) = ANSWER + 1
          BY <2>2, <3>1
        <5> QED BY <2>1, <3>1, <5>1
      <4> QED BY <2>3, <3>1, <4>1 DEF ReportSent
    <3> QED BY <2>1, <2>2, <3>1, <3>2
  <2>5. /\ Len(parts') = n + 1 /\ \A i \in 1..n : parts'[i] = parts[i]
        /\ parts'[n + 1] = d
    BY <1>1, <1>2, <1>3, <2>2
  <2>6. CASE n < ANSWER
    <3>1. d = Delta(<<"s", "a">>, Silent)
      BY <2>3, <2>4, <2>6
    <3>2. d.content = <<"s", "a">> /\ d.usage = Silent
      BY <3>1 DEF Delta
    <3>3. Words(text') = n + 1
      <4>1. Words(text) = n
        BY <2>1, <2>2, <2>4
      <4> QED BY <1>1, <1>2, <2>1, <3>2, <4>1, WordMore
    <3>4. \A i \in 1..(n + 1) : parts'[i].usage = IF i = ANSWER + 1 THEN ANSWER ELSE Silent
      BY <2>1, <2>2, <2>4, <2>5, <2>6, <3>2
    <3>5. text' # <<>>
      BY <1>1, <1>2, <1>3, <2>1
    <3> QED BY <1>1, <2>1, <2>2, <2>4, <2>5, <2>6, <3>3, <3>4, <3>5 DEF Mocked
  <2>7. CASE ~(n < ANSWER)
    <3>1. n = ANSWER /\ d.content = <<>> /\ d.usage = ANSWER
      <4>1. n = ANSWER
        BY <2>2, <2>4, <2>7
      <4>2. d = Delta(<<>>, ANSWER)
        BY <2>3, <2>7
      <4> QED BY <4>1, <4>2 DEF Delta
    <3>2. text' = text
      BY <1>1, <1>2, <3>1
    <3>3. \A i \in 1..(n + 1) : parts'[i].usage = IF i = ANSWER + 1 THEN ANSWER ELSE Silent
      BY <2>1, <2>2, <2>4, <2>5, <2>7, <3>1
    <3>4. Words(text') = ANSWER
      BY <2>1, <2>2, <3>1, <3>2
    <3> QED BY <1>1, <2>1, <2>2, <2>4, <2>5, <3>1, <3>2, <3>3, <3>4 DEF Mocked
  <2> QED BY <2>6, <2>7
<1> QED
  <2>1. opened' \in Opened /\ opened'.settled = FALSE
    BY <1>8 DEF Estimates, Informed
  <2> QED BY <1>1, <1>4, <1>5, <1>6, <1>9, <1>10, <2>1 DEF StreamInv

LEMMA StreamSteps == StreamInv /\ [StreamNext]_streamVars => StreamInv'
<1> SUFFICES ASSUME StreamInv, [StreamNext]_streamVars PROVE StreamInv'
  OBVIOUS
<1>1. CASE Open
  <2>1. PICK d \in Offered : firstDelta' = d /\ parts' = <<d>>
    BY <1>1 DEF Open
  <2>2. /\ place = "opening" /\ place' = "first" /\ UNCHANGED <<adapter, opened, words, text, counted, bill>>
    BY <1>1 DEF Open
  <2>3. /\ adapter \in {"litellm", "mock", "plain"} /\ text \in Seq(Letters) /\ opened = NotOpen
        /\ opened \in Opened /\ parts = <<>> /\ opened.settled = FALSE /\ counted = 0 /\ bill = Silent
    BY <2>2 DEF StreamInv, Ended
  <2>4. d \in Deltas
    BY <2>3, OfferedTyped
  <2>5. parts' \in Seq(Deltas) /\ Len(parts') = 1 /\ parts'[1] = d
    BY <2>1, <2>4
  <2>6. adapter = "mock" => Mocked'
    <3> SUFFICES ASSUME adapter = "mock" PROVE Mocked'
      OBVIOUS
    <3>1. ANSWER \in Nat /\ ANSWER >= 1
      BY StreamAssumption
    <3>2. d = Delta(<<"a">>, Silent)
      <4>1. Len(parts) = 0
        BY <2>3
      <4> QED BY <3>1, <4>1, MockOffers
    <3>3. ~Started'
      BY <2>2 DEF Started
    <3> QED BY <2>1, <2>5, <3>1, <3>2, <3>3 DEF Mocked, Delta
  <2> QED BY <2>1, <2>2, <2>3, <2>5, <2>6 DEF StreamInv, Ended, Started
<1>2. CASE NotOpened
  BY <1>2 DEF NotOpened, StreamInv, Ended, Started
<1>3. CASE Begin
  BY <1>3, BeginKeeps
<1>4. CASE ReadDelta
  BY <1>4, ReadDeltaKeeps
<1>5. CASE ReadOn
  <2>1. /\ place = "yielded" /\ place' = "waiting"
        /\ UNCHANGED <<adapter, parts, opened, firstDelta, words, text, counted, bill>>
    BY <1>5 DEF ReadOn
  <2>2. Started /\ Started' /\ place \notin Ended /\ place' \notin Ended /\ Told' = Told
    BY <2>1 DEF Started, Ended, Told
  <2>3. Priced(opened)'
    BY <2>1, <2>2 DEF StreamInv, Priced
  <2>4. adapter = "mock" => Mocked'
    BY <2>1, <2>2 DEF StreamInv, Mocked
  <2> QED BY <2>1, <2>2, <2>3, <2>4 DEF StreamInv
<1>6. CASE EndOfStream
  BY <1>6, SettlesKeeps DEF EndOfStream, Ended
<1>7. CASE BreakOff
  BY <1>7, SettlesKeeps DEF BreakOff, Ended
<1>8. CASE Leave
  BY <1>8, SettlesKeeps DEF Leave, Ended
<1>9. CASE UNCHANGED streamVars
  <2>1. UNCHANGED <<adapter, place, parts, opened, firstDelta, words, text, counted, bill>>
    BY <1>9 DEF streamVars
  <2> QED BY <2>1 DEF StreamInv, Priced, Mocked, Told, Started
<1> QED
  BY <1>1, <1>2, <1>3, <1>4, <1>5, <1>6, <1>7, <1>8, <1>9 DEF StreamNext

\* However a stream is cut into parts and however it ends, it is priced once, on what the provider
\* last reported or else on the words that went out, and its running count lags behind those by no
\* more than the first
\* word and a word per line break of those (_relay, _estimate and _settle, router.py:358-361,
\* :413-441), for any pieces of text, any reports and any number of parts.
THEOREM StreamsPriced == StreamSpec => []StreamPriced
<1>1. StreamInit => StreamInv
  BY DEF StreamInit, StreamInv, Started, Ended, NotOpen, Opened, Letters, Silent
<1>2. StreamInv /\ [StreamNext]_streamVars => StreamInv'
  BY StreamSteps
<1>3. StreamInv => StreamPriced
  <2> SUFFICES ASSUME StreamInv PROVE StreamPriced
    OBVIOUS
  <2>1. counted = (IF opened.settled THEN 1 ELSE 0) /\ (opened.settled <=> place \in {"complete", "broken", "left"})
    BY DEF StreamInv, Ended
  <2>2. text \in Seq(Letters) /\ parts \in Seq(Deltas) /\ opened \in Opened
    BY DEF StreamInv
  <2>3. /\ Words(text) \in Nat /\ Spaces(text) \in Nat /\ Breaks(text) \in Nat
        /\ Words(text) <= Spaces(text) + Breaks(text) + 1
    BY <2>2, TextCounts, WordsAreApart
  <2>4. Started => words \in Nat /\ Spaces(text) <= words /\ Priced(opened)
    BY DEF StreamInv
  <2>5. ASSUME Started, Told # {}
        PROVE  /\ opened.usage = parts[CHOOSE i \in Told : \A j \in Told : j <= i].usage
               /\ opened.settled => ~opened.estimated
    <3>1. Tells(parts, opened.usage) /\ (place \in Ended => opened.estimated = FALSE)
      BY <2>4, <2>5 DEF Priced
    <3>2. PICK i \in DOMAIN parts : /\ parts[i].usage # Silent /\ opened.usage = parts[i].usage
                                   /\ \A j \in DOMAIN parts : parts[j].usage # Silent => j <= i
      BY <3>1 DEF Tells
    <3>3. i \in Told /\ (\A j \in Told : j <= i) /\ Told \subseteq Nat
      BY <2>2, <3>2 DEF Told
    <3>4. \A k \in Told : (\A j \in Told : j <= k) => k = i
      BY <3>3
    <3>5. (CHOOSE k \in Told : \A j \in Told : j <= k) = i
      BY <3>3, <3>4
    <3>6. opened.settled => ~opened.estimated
      BY <2>1, <3>1 DEF Ended
    <3> QED BY <3>2, <3>5, <3>6
  <2>6. ASSUME Started, Told = {}
        PROVE  /\ opened.estimated
               /\ Words(text) <= opened.usage + 1 + Breaks(text)
               /\ opened.settled => opened.usage = Words(text)
    <3>1. opened.estimated = TRUE /\ opened.usage = IF place \in Ended THEN Words(text) ELSE words
      BY <2>4, <2>6 DEF Priced
    <3>2. Words(text) <= opened.usage + 1 + Breaks(text)
      BY <2>3, <2>4, <2>6, <3>1
    <3>3. opened.settled => opened.usage = Words(text)
      BY <2>1, <3>1 DEF Ended
    <3> QED BY <3>1, <3>2, <3>3
  <2>7. ASSUME bill # Silent, Told = {} PROVE Words(text) <= bill + 1 + Breaks(text)
    <3>1. Started /\ bill \in {words, Words(text)}
      BY <2>7 DEF StreamInv, Started, Ended
    <3> QED BY <2>3, <2>4, <3>1
  <2>8. ASSUME adapter = "mock", place = "complete" PROVE opened.usage = Words(text)
    <3>1. Started /\ Told # {} /\ Mocked
      BY <2>8 DEF StreamInv, Started
    <3>2. PICK i \in DOMAIN parts : parts[i].usage # Silent /\ opened.usage = parts[i].usage
      BY <2>4, <3>1 DEF Priced, Tells
    <3>3. /\ i \in 1..Len(parts) /\ Len(parts) \in 1..(ANSWER + 1) /\ ANSWER \in Nat
          /\ parts[i].usage = IF i = ANSWER + 1 THEN ANSWER ELSE Silent
          /\ Words(text) = IF Len(parts) <= ANSWER THEN Len(parts) ELSE ANSWER
      BY <2>2, <3>1, <3>2, StreamAssumption DEF Mocked
    <3> QED BY <3>2, <3>3
  <2> QED BY <2>1, <2>5, <2>6, <2>7, <2>8 DEF StreamPriced
<1> QED
  BY <1>1, <1>2, <1>3, PTL DEF StreamSpec

(***************************************************************************)
(* The recent alerts                                                       *)
(***************************************************************************)

\* No two places of a sequence hold the same.
Apart(s) == \A i, j \in 1..Len(s) : s[i] = s[j] => i = j
Within(s, n) == s \in Seq(Nat) /\ \A i \in 1..Len(s) : s[i] <= n
Meet(s, t) == \E i \in 1..Len(s), j \in 1..Len(t) : s[i] = t[j]

LEMMA ApartCounts ==
  ASSUME NEW s \in Seq(Nat), Apart(s)
  PROVE  Cardinality(ToSet(s)) = Len(s)
<1>1. Len(s) \in Nat /\ DOMAIN s = 1..Len(s)
  OBVIOUS
<1>2. s \in Bijection(1..Len(s), ToSet(s))
  <2>1. ToSet(s) = {s[i] : i \in 1..Len(s)}
    BY <1>1 DEF ToSet
  <2>2. s \in [1..Len(s) -> ToSet(s)]
    BY <1>1, <2>1
  <2>3. s \in Injection(1..Len(s), ToSet(s))
    BY <1>1, <2>2 DEF Apart, Injection, IsInjective
  <2>4. s \in Surjection(1..Len(s), ToSet(s))
    BY <2>1, <2>2 DEF Surjection
  <2> QED BY <2>3, <2>4 DEF Bijection
<1>3. ExistsBijection(1..Len(s), ToSet(s))
  BY <1>2 DEF ExistsBijection
<1> QED
  BY <1>1, <1>3, FS_CountingElements

\* The list mirrors the end of what was stored.
Mirrors(list, all) ==
  /\ list \in Seq(Nat) /\ Len(list) <= RECENT_MAX /\ Len(list) <= Len(all)
  /\ Len(list) < RECENT_MAX => Len(list) = Len(all)
  /\ \A i \in 1..Len(list) : list[i] = all[Len(all) + 1 - i]

AlertsInv ==
  /\ sent \in Nat
  /\ Within(stored, sent) /\ Apart(stored)
  /\ hook \in [Hooks -> [status : {"away", "storing", "200", "401"}, alerts : Seq(Nat)]]
  /\ \A h \in Hooks : hook[h].status = "storing" =>
       /\ Within(hook[h].alerts, sent) /\ Apart(hook[h].alerts)
       /\ ~Meet(stored, hook[h].alerts)
       /\ \A g \in Hooks \ {h} : hook[g].status = "storing" => ~Meet(hook[g].alerts, hook[h].alerts)
  /\ Mirrors(recent, stored)
  /\ listing \in Seq(Nat) /\ Apart(listing)

LEMMA FirstOfIs ==
  ASSUME NEW s \in Seq(Nat), NEW n \in Nat
  PROVE  /\ FirstOf(s, n) \in Seq(Nat)
         /\ Len(FirstOf(s, n)) = IF Len(s) < n THEN Len(s) ELSE n
         /\ \A i \in 1..Len(FirstOf(s, n)) : FirstOf(s, n)[i] = s[i]
<1> DEFINE m == IF Len(s) < n THEN Len(s) ELSE n
<1>1. m \in 0..Len(s) /\ FirstOf(s, n) = SubSeq(s, 1, m)
  BY DEF FirstOf
<1> QED
  BY <1>1

LEMMA ReverseIs ==
  ASSUME NEW s \in Seq(Nat)
  PROVE  /\ Reverse(s) \in Seq(Nat) /\ Len(Reverse(s)) = Len(s)
         /\ \A i \in 1..Len(s) : Reverse(s)[i] = s[Len(s) + 1 - i]
BY DEF Reverse

LEMMA JoinIs ==
  ASSUME NEW s \in Seq(Nat), NEW t \in Seq(Nat), NEW u, u = s \o t
  PROVE  /\ u \in Seq(Nat) /\ Len(u) = Len(s) + Len(t)
         /\ \A i \in 1..(Len(s) + Len(t)) : u[i] = IF i <= Len(s) THEN s[i] ELSE t[i - Len(s)]
OBVIOUS

LEMMA Mirrored ==
  ASSUME NEW a \in Seq(Nat), NEW list, NEW all \in Seq(Nat), Mirrors(list, all)
  PROVE  Mirrors(FirstOf(Reverse(a) \o list, RECENT_MAX), all \o a)
<1>0. RECENT_MAX \in Nat
  BY AlertsAssumption
<1>1. /\ list \in Seq(Nat) /\ Len(list) <= RECENT_MAX /\ Len(list) <= Len(all)
      /\ Len(list) < RECENT_MAX => Len(list) = Len(all)
      /\ \A i \in 1..Len(list) : list[i] = all[Len(all) + 1 - i]
      /\ Len(list) \in Nat /\ Len(a) \in Nat /\ Len(all) \in Nat
  BY DEF Mirrors
<1>2. PICK r : r = Reverse(a) /\ r \in Seq(Nat) /\ Len(r) = Len(a)
             /\ \A i \in 1..Len(a) : r[i] = a[Len(a) + 1 - i]
  BY ReverseIs
<1>b. PICK b : b = r \o list
  OBVIOUS
<1>3. /\ b \in Seq(Nat) /\ Len(b) = Len(a) + Len(list)
      /\ \A i \in 1..(Len(a) + Len(list)) : b[i] = IF i <= Len(a) THEN r[i] ELSE list[i - Len(a)]
  <2>1. r \in Seq(Nat) /\ list \in Seq(Nat)
    BY <1>1, <1>2
  <2>2. /\ b \in Seq(Nat) /\ Len(b) = Len(r) + Len(list)
        /\ \A i \in 1..(Len(r) + Len(list)) : b[i] = IF i <= Len(r) THEN r[i] ELSE list[i - Len(r)]
    BY <2>1, <1>b, JoinIs
  <2> QED BY <1>2, <2>2
<1>c. PICK c : c = all \o a
  OBVIOUS
<1>4. /\ c \in Seq(Nat) /\ Len(c) = Len(all) + Len(a)
      /\ \A i \in 1..(Len(all) + Len(a)) : c[i] = IF i <= Len(all) THEN all[i] ELSE a[i - Len(all)]
  BY <1>c, JoinIs
<1>d. PICK d : d = FirstOf(b, RECENT_MAX)
  OBVIOUS
<1>5. /\ d \in Seq(Nat)
      /\ Len(d) = IF Len(b) < RECENT_MAX THEN Len(b) ELSE RECENT_MAX
      /\ \A i \in 1..Len(d) : d[i] = b[i]
  BY <1>0, <1>3, <1>d, FirstOfIs
<1>6. /\ Len(d) <= RECENT_MAX /\ Len(d) <= Len(c) /\ Len(d) <= Len(b)
      /\ Len(d) < RECENT_MAX => Len(d) = Len(c)
  <2>2. Len(b) \in Nat /\ Len(c) \in Nat /\ Len(d) \in Nat
    BY <1>3, <1>4, <1>5
  <2>3. CASE Len(b) < RECENT_MAX
    <3>1. Len(d) = Len(b)
      BY <1>5, <2>3
    <3>2. Len(list) < RECENT_MAX
      BY <1>0, <1>1, <1>3, <2>3
    <3>3. Len(list) = Len(all)
      BY <1>1, <3>2
    <3> QED BY <1>0, <1>1, <1>3, <1>4, <2>2, <2>3, <3>1, <3>3
  <2>4. CASE ~(Len(b) < RECENT_MAX)
    <3>1. Len(d) = RECENT_MAX
      BY <1>5, <2>4
    <3> QED BY <1>0, <1>1, <1>3, <1>4, <2>2, <2>4, <3>1
  <2> QED BY <2>3, <2>4
<1>7. ASSUME NEW i \in 1..Len(d) PROVE d[i] = c[Len(c) + 1 - i]
  <2>0. i \in 1..(Len(a) + Len(list)) /\ d[i] = b[i]
    <3>1. i \in 1..Len(b)
      BY <1>0, <1>1, <1>3, <1>5
    <3> QED BY <1>3, <1>5, <3>1
  <2>1. CASE i <= Len(a)
    <3>1. Len(a) + 1 - i \in 1..Len(a) /\ i \in 1..Len(a)
      BY <1>1, <2>0, <2>1
    <3>2. b[i] = a[Len(a) + 1 - i]
      BY <1>2, <1>3, <2>0, <2>1, <3>1
    <3>3. /\ Len(c) + 1 - i \in 1..(Len(all) + Len(a)) /\ ~(Len(c) + 1 - i <= Len(all))
          /\ (Len(c) + 1 - i) - Len(all) = Len(a) + 1 - i
      BY <1>1, <1>4, <3>1
    <3>4. c[Len(c) + 1 - i] = a[Len(a) + 1 - i]
      BY <1>4, <3>3
    <3> QED BY <2>0, <3>2, <3>4
  <2>2. CASE ~(i <= Len(a))
    <3>1. i - Len(a) \in 1..Len(list)
      BY <1>1, <2>0, <2>2
    <3>2. b[i] = all[Len(all) + 1 - (i - Len(a))]
      BY <1>1, <1>3, <2>0, <2>2, <3>1
    <3>3. /\ Len(c) + 1 - i \in 1..(Len(all) + Len(a)) /\ Len(c) + 1 - i <= Len(all)
          /\ Len(c) + 1 - i = Len(all) + 1 - (i - Len(a))
      BY <1>1, <1>4, <3>1, <2>0
    <3>4. c[Len(c) + 1 - i] = all[Len(all) + 1 - (i - Len(a))]
      BY <1>4, <3>3
    <3> QED BY <2>0, <3>2, <3>4
  <2> QED BY <2>1, <2>2
<1>8. Mirrors(d, c)
  BY <1>5, <1>6, <1>7 DEF Mirrors
<1> QED
  BY <1>2, <1>8, <1>b, <1>c, <1>d

LEMMA JoinApart ==
  ASSUME NEW n, NEW s, NEW t, Within(s, n), Within(t, n), Apart(s), Apart(t), ~Meet(s, t)
  PROVE  Within(s \o t, n) /\ Apart(s \o t)
<1>0. s \in Seq(Nat) /\ t \in Seq(Nat)
  BY DEF Within
<1>u. PICK u : u = s \o t
  OBVIOUS
<1>2. /\ Len(u) = Len(s) + Len(t) /\ Len(s) \in Nat /\ Len(t) \in Nat
      /\ \A i \in 1..(Len(s) + Len(t)) : u[i] = IF i <= Len(s) THEN s[i] ELSE t[i - Len(s)]
      /\ u \in Seq(Nat)
  BY <1>0, <1>u, JoinIs
<1>1. Within(u, n)
  <2>1. /\ \A i \in 1..Len(s) : s[i] <= n
        /\ \A i \in 1..Len(t) : t[i] <= n
    BY DEF Within
  <2>2. ASSUME NEW i \in 1..Len(u) PROVE u[i] <= n
    <3>1. CASE i <= Len(s)
      BY <1>2, <2>1, <3>1
    <3>2. CASE ~(i <= Len(s))
      <4>1. i - Len(s) \in 1..Len(t) /\ u[i] = t[i - Len(s)]
        BY <1>2, <3>2
      <4> QED BY <2>1, <4>1
    <3> QED BY <3>1, <3>2
  <2> QED BY <1>2, <2>2 DEF Within
<1>3. ASSUME NEW i \in 1..Len(u), NEW j \in 1..Len(u), u[i] = u[j] PROVE i = j
  <2>1. CASE i <= Len(s) /\ j <= Len(s)
    <3>1. i \in 1..Len(s) /\ j \in 1..Len(s) /\ s[i] = s[j]
      BY <1>2, <1>3, <2>1
    <3> QED BY <3>1 DEF Apart
  <2>2. CASE ~(i <= Len(s)) /\ ~(j <= Len(s))
    <3>1. i - Len(s) \in 1..Len(t) /\ j - Len(s) \in 1..Len(t)
      BY <1>2, <2>2
    <3>2. t[i - Len(s)] = t[j - Len(s)]
      BY <1>2, <1>3, <2>2
    <3>3. i - Len(s) = j - Len(s)
      BY <3>1, <3>2 DEF Apart
    <3> QED BY <1>2, <3>3
  <2>3. CASE i <= Len(s) /\ ~(j <= Len(s))
    <3>1. i \in 1..Len(s) /\ j - Len(s) \in 1..Len(t)
      BY <1>2, <2>3
    <3>2. s[i] = t[j - Len(s)]
      BY <1>2, <1>3, <2>3
    <3> QED BY <3>1, <3>2 DEF Meet
  <2>4. CASE ~(i <= Len(s)) /\ j <= Len(s)
    <3>1. j \in 1..Len(s) /\ i - Len(s) \in 1..Len(t)
      BY <1>2, <2>4
    <3>2. s[j] = t[i - Len(s)]
      BY <1>2, <1>3, <2>4
    <3> QED BY <3>1, <3>2 DEF Meet
  <2> QED BY <2>1, <2>2, <2>3, <2>4
<1> QED
  BY <1>1, <1>3, <1>u DEF Apart

LEMMA AlertStepsKeep == AlertsInv /\ [AlertsNext]_alertVars => AlertsInv'
<1> SUFFICES ASSUME AlertsInv, [AlertsNext]_alertVars PROVE AlertsInv'
  OBVIOUS
<1>0. /\ sent \in Nat /\ Within(stored, sent) /\ Apart(stored)
      /\ hook \in [Hooks -> [status : {"away", "storing", "200", "401"}, alerts : Seq(Nat)]]
      /\ Mirrors(recent, stored) /\ listing \in Seq(Nat) /\ Apart(listing)
      /\ \A h \in Hooks : hook[h].status = "storing" =>
           /\ Within(hook[h].alerts, sent) /\ Apart(hook[h].alerts) /\ ~Meet(stored, hook[h].alerts)
           /\ \A g \in Hooks \ {h} : hook[g].status = "storing" => ~Meet(hook[g].alerts, hook[h].alerts)
  BY Zenon DEF AlertsInv
\* A delivery that stores nothing any more.
<1>a. ASSUME NEW h \in Hooks, NEW x \in [status : {"away", "200", "401"}, alerts : Seq(Nat)],
             hook' = [hook EXCEPT ![h] = x],
             sent' = sent, recent' = recent, stored' = stored, listing' \in Seq(Nat), Apart(listing')
      PROVE  AlertsInv'
  <2>1. DOMAIN hook' = Hooks /\ \A g \in Hooks : hook'[g] = IF g = h THEN x ELSE hook[g]
    BY <1>0, <1>a
  <2>2. \A g \in Hooks : hook'[g].status = "storing" => g # h /\ hook'[g] = hook[g]
    BY <1>a, <2>1
  <2>3. \A g \in Hooks : hook'[g].status = "storing" =>
           /\ Within(hook'[g].alerts, sent) /\ Apart(hook'[g].alerts) /\ ~Meet(stored, hook'[g].alerts)
           /\ \A f \in Hooks \ {g} : hook'[f].status = "storing" => ~Meet(hook'[f].alerts, hook'[g].alerts)
    BY <1>0, <2>2
  <2>4. x \in [status : {"away", "storing", "200", "401"}, alerts : Seq(Nat)]
    BY <1>a
  <2>5. hook' \in [Hooks -> [status : {"away", "storing", "200", "401"}, alerts : Seq(Nat)]]
    BY <1>0, <1>a, <2>4
  <2> QED BY <1>0, <1>a, <2>3, <2>5 DEF AlertsInv
<1>1. ASSUME NEW h \in Hooks, Receive(h) PROVE AlertsInv'
  <2>1. PICK n \in 0..2 : /\ sent' = sent + n
                          /\ hook' = [hook EXCEPT ![h] =
                               [status |-> "storing", alerts |-> [i \in 1..n |-> sent + i]]]
    BY <1>1 DEF Receive
  <2>2. recent' = recent /\ stored' = stored /\ listing' = listing
    BY <1>1 DEF Receive
  <2>3. PICK a : a = [i \in 1..n |-> sent + i]
    OBVIOUS
  <2>4. /\ hook'[h].status = "storing" /\ hook'[h].alerts = a
        /\ \A g \in Hooks \ {h} : hook'[g] = hook[g]
    BY <1>0, <2>1, <2>3
  <2>5. a \in Seq(Nat) /\ Len(a) = n /\ \A i \in 1..n : a[i] = sent + i
    BY <1>0, <2>3
  <2>6. sent' \in Nat /\ sent <= sent'
    BY <1>0, <2>1
  <2>7. Within(a, sent') /\ Apart(a)
    BY <1>0, <2>1, <2>5 DEF Within, Apart
  <2>8. ASSUME NEW s, Within(s, sent)
        PROVE  Within(s, sent') /\ ~Meet(s, a) /\ ~Meet(a, s)
    <3>1. s \in Seq(Nat) /\ Len(s) \in Nat /\ \A i \in 1..Len(s) : s[i] <= sent /\ s[i] \in Nat
      BY <2>8 DEF Within
    <3>2. Within(s, sent')
      BY <1>0, <2>6, <3>1 DEF Within
    <3>3. ASSUME NEW i \in 1..Len(s), NEW j \in 1..Len(a) PROVE s[i] # a[j]
      <4>1. a[j] = sent + j /\ j >= 1 /\ j \in Nat
        BY <2>5
      <4>2. s[i] <= sent /\ s[i] \in Nat
        BY <3>1
      <4> QED BY <1>0, <4>1, <4>2
    <3> QED BY <3>2, <3>3 DEF Meet
  <2>9. ASSUME NEW f \in Hooks, hook'[f].status = "storing"
        PROVE  /\ Within(hook'[f].alerts, sent') /\ Apart(hook'[f].alerts) /\ ~Meet(stored', hook'[f].alerts)
               /\ \A g \in Hooks \ {f} : hook'[g].status = "storing" => ~Meet(hook'[g].alerts, hook'[f].alerts)
    <3>1. CASE f = h
      BY <1>0, <2>2, <2>4, <2>7, <2>8, <3>1
    <3>2. CASE f # h
      <4>1. hook'[f] = hook[f]
        BY <2>4, <3>2
      <4>2. /\ Within(hook[f].alerts, sent) /\ Apart(hook[f].alerts) /\ ~Meet(stored, hook[f].alerts)
            /\ \A g \in Hooks \ {f} : hook[g].status = "storing" => ~Meet(hook[g].alerts, hook[f].alerts)
        BY <1>0, <2>9, <4>1
      <4>3. Within(hook[f].alerts, sent') /\ ~Meet(a, hook[f].alerts)
        BY <2>8, <4>2
      <4>4. ASSUME NEW g \in Hooks \ {f}, hook'[g].status = "storing"
            PROVE  ~Meet(hook'[g].alerts, hook[f].alerts)
        <5>1. CASE g = h
          BY <2>4, <4>3, <5>1
        <5>2. CASE g # h
          BY <2>4, <4>2, <4>4, <5>2
        <5> QED BY <5>1, <5>2
      <4> QED BY <2>2, <4>1, <4>2, <4>3, <4>4
    <3> QED BY <3>1, <3>2
  <2>10. Within(stored', sent')
    BY <1>0, <2>2, <2>8
  <2>11. hook' \in [Hooks -> [status : {"away", "storing", "200", "401"}, alerts : Seq(Nat)]]
    BY <1>0, <2>1, <2>3, <2>5
  <2> QED BY <1>0, <2>2, <2>6, <2>9, <2>10, <2>11 DEF AlertsInv
<1>2. ASSUME NEW h \in Hooks, Unauthorised(h) PROVE AlertsInv'
  <2>1. PICK x : x = [status |-> "401", alerts |-> hook[h].alerts]
    OBVIOUS
  <2>2. hook' = [hook EXCEPT ![h] = x]
    <3>1. hook[h] \in [status : {"away", "storing", "200", "401"}, alerts : Seq(Nat)]
      BY <1>0
    <3>2. [hook[h] EXCEPT !.status = "401"] = x
      BY <2>1, <3>1
    <3> QED BY <1>2, <3>2 DEF Unauthorised
  <2>3. x \in [status : {"away", "200", "401"}, alerts : Seq(Nat)]
    BY <1>0, <2>1
  <2>4. sent' = sent /\ recent' = recent /\ stored' = stored /\ listing' = listing
    BY <1>2 DEF Unauthorised
  <2>5. listing' \in Seq(Nat) /\ Apart(listing')
    BY <1>0, <2>4
  <2> QED BY <1>a, <2>2, <2>3, <2>4, <2>5
<1>3. ASSUME NEW h \in Hooks, Remember(h) PROVE AlertsInv'
  <2>1. PICK x : x = [status |-> "200", alerts |-> hook[h].alerts]
    OBVIOUS
  <2>2. hook' = [hook EXCEPT ![h] = x]
    <3>1. hook[h] \in [status : {"away", "storing", "200", "401"}, alerts : Seq(Nat)]
      BY <1>0
    <3>2. [hook[h] EXCEPT !.status = "200"] = x
      BY <2>1, <3>1
    <3> QED BY <1>3, <3>2 DEF Remember
  <2>3. x \in [status : {"away", "200", "401"}, alerts : Seq(Nat)]
    BY <1>0, <2>1
  <2>4. UNCHANGED <<sent, listing>> /\ hook[h].status = "storing"
    BY <1>3 DEF Remember
  <2>5. CASE UNCHANGED <<recent, stored>>
    <3>1. listing' \in Seq(Nat) /\ Apart(listing') /\ sent' = sent /\ recent' = recent /\ stored' = stored
      BY <1>0, <2>4, <2>5
    <3> QED BY <1>a, <2>2, <2>3, <3>1
  <2>6. CASE recent' = Pushed(hook[h].alerts) /\ stored' = stored \o hook[h].alerts
    <3>1. /\ Within(hook[h].alerts, sent) /\ Apart(hook[h].alerts) /\ ~Meet(stored, hook[h].alerts)
          /\ \A g \in Hooks \ {h} : hook[g].status = "storing" => ~Meet(hook[g].alerts, hook[h].alerts)
      BY <1>0, <2>4
    <3>2. PICK a : a = hook[h].alerts
      OBVIOUS
    <3>3. Within(stored', sent') /\ Apart(stored')
      BY <1>0, <2>4, <2>6, <3>1, JoinApart
    <3>4. Mirrors(recent', stored')
      <4>1. a \in Seq(Nat) /\ stored \in Seq(Nat)
        BY <1>0, <3>1, <3>2 DEF Within
      <4>2. Mirrors(FirstOf(Reverse(a) \o recent, RECENT_MAX), stored \o a)
        BY <1>0, <4>1, Mirrored, Zenon
      <4> QED BY <2>6, <3>2, <4>2, Zenon DEF Pushed
    <3>5. /\ hook' \in [Hooks -> [status : {"away", "storing", "200", "401"}, alerts : Seq(Nat)]]
          /\ \A g \in Hooks : hook'[g].status = "storing" => g # h /\ hook'[g] = hook[g]
      BY <1>0, <2>1, <2>2
    <3>6. ASSUME NEW g \in Hooks, hook'[g].status = "storing"
          PROVE  /\ Within(hook'[g].alerts, sent') /\ Apart(hook'[g].alerts) /\ ~Meet(stored', hook'[g].alerts)
                 /\ \A f \in Hooks \ {g} : hook'[f].status = "storing" => ~Meet(hook'[f].alerts, hook'[g].alerts)
      <4>1. g # h /\ hook'[g] = hook[g]
        BY <3>5, <3>6
      <4>2. /\ Within(hook[g].alerts, sent) /\ Apart(hook[g].alerts) /\ ~Meet(stored, hook[g].alerts)
            /\ \A f \in Hooks \ {g} : hook[f].status = "storing" => ~Meet(hook[f].alerts, hook[g].alerts)
        BY <1>0, <3>6, <4>1
      <4>3. ~Meet(a, hook[g].alerts)
        BY <2>4, <3>2, <4>1, <4>2
      <4>4. ~Meet(stored', hook[g].alerts)
        <5>1. /\ stored' = stored \o a /\ Len(stored) \in Nat /\ Len(a) \in Nat
              /\ Len(stored') = Len(stored) + Len(a)
              /\ \A i \in 1..(Len(stored) + Len(a)) :
                   stored'[i] = IF i <= Len(stored) THEN stored[i] ELSE a[i - Len(stored)]
          <6>1. a \in Seq(Nat) /\ stored \in Seq(Nat)
            BY <1>0, <3>1, <3>2 DEF Within
          <6> QED BY <2>6, <3>2, <6>1, JoinIs
        <5>2. ASSUME NEW i \in 1..Len(stored'), NEW j \in 1..Len(hook[g].alerts)
              PROVE  stored'[i] # hook[g].alerts[j]
          <6>1. CASE i <= Len(stored)
            <7>1. i \in 1..Len(stored) /\ stored'[i] = stored[i]
              BY <5>1, <6>1
            <7> QED BY <4>2, <7>1 DEF Meet
          <6>2. CASE ~(i <= Len(stored))
            <7>1. i - Len(stored) \in 1..Len(a) /\ stored'[i] = a[i - Len(stored)]
              BY <5>1, <6>2
            <7> QED BY <4>3, <7>1 DEF Meet
          <6> QED BY <6>1, <6>2
        <5> QED BY <5>2 DEF Meet
      <4> QED BY <2>4, <3>5, <4>1, <4>2, <4>4
    <3> QED BY <1>0, <2>4, <3>3, <3>4, <3>5, <3>6 DEF AlertsInv
  <2> QED BY <1>3, <2>5, <2>6 DEF Remember
<1>4. ASSUME NEW h \in Hooks, Answer(h) PROVE AlertsInv'
  <2>1. PICK x : x = NoHook
    OBVIOUS
  <2>2. x \in [status : {"away", "200", "401"}, alerts : Seq(Nat)]
    BY <2>1 DEF NoHook
  <2>3. hook' = [hook EXCEPT ![h] = x] /\ sent' = sent /\ recent' = recent /\ stored' = stored /\ listing' = listing
    BY <1>4, <2>1 DEF Answer
  <2>4. listing' \in Seq(Nat) /\ Apart(listing')
    BY <1>0, <2>3
  <2> QED BY <1>a, <2>2, <2>3, <2>4
<1>5. CASE ListRecent
  <2>1. PICK n \in 1..RECENT_MAX : listing' = FirstOf(recent, n)
    BY <1>5 DEF ListRecent
  <2>2. sent' = sent /\ hook' = hook /\ recent' = recent /\ stored' = stored
    BY <1>5 DEF ListRecent
  <2>3. n \in Nat /\ recent \in Seq(Nat)
    BY <1>0, AlertsAssumption DEF Mirrors
  <2>4. PICK d : d = FirstOf(recent, n) /\ d \in Seq(Nat)
               /\ Len(d) = (IF Len(recent) < n THEN Len(recent) ELSE n)
               /\ \A i \in 1..Len(d) : d[i] = recent[i]
    BY <2>3, FirstOfIs
  <2>5. ASSUME NEW i \in 1..Len(d), NEW j \in 1..Len(d), d[i] = d[j] PROVE i = j
    <3>1. Len(recent) \in Nat /\ Len(stored) \in Nat /\ Len(d) <= Len(recent) /\ Len(recent) <= Len(stored)
      BY <1>0, <2>3, <2>4 DEF Mirrors, Within
    <3>2. i \in 1..Len(recent) /\ j \in 1..Len(recent)
      BY <2>4, <3>1
    <3>3. stored[Len(stored) + 1 - i] = stored[Len(stored) + 1 - j]
      BY <1>0, <2>4, <2>5, <3>2 DEF Mirrors
    <3>4. Len(stored) + 1 - i \in 1..Len(stored) /\ Len(stored) + 1 - j \in 1..Len(stored)
      BY <3>1, <3>2
    <3>5. Len(stored) + 1 - i = Len(stored) + 1 - j
      BY <1>0, <3>3, <3>4 DEF Apart
    <3> QED BY <3>1, <3>2, <3>5
  <2>6. Apart(d)
    BY <2>5 DEF Apart
  <2> QED BY <1>0, <2>1, <2>2, <2>4, <2>6 DEF AlertsInv
<1>6. CASE UNCHANGED alertVars
  BY <1>6, Zenon DEF alertVars, AlertsInv
<1> QED
  BY <1>1, <1>2, <1>3, <1>4, <1>5, <1>6 DEF AlertsNext

\* The list of recent alerts is the newest of those that were stored, newest first and without a
\* gap, whichever deliveries overlap and fail (_remember, alerts.py:97-102), for any number of
\* webhooks and alerts and any cap.
THEOREM AlertsNewest == AlertsSpec => []NewestKept
<1>1. AlertsInit => AlertsInv
  <2> SUFFICES ASSUME AlertsInit PROVE AlertsInv
    OBVIOUS
  <2>1. /\ sent = 0 /\ recent = <<>> /\ stored = <<>> /\ listing = <<>>
        /\ hook \in [Hooks -> [status : {"away", "storing", "200", "401"}, alerts : Seq(Nat)]]
        /\ \A h \in Hooks : hook[h].status # "storing"
    BY DEF AlertsInit, NoHook
  <2>2. /\ Within(<<>>, 0) /\ Apart(<<>>) /\ <<>> \in Seq(Nat)
    BY DEF Within, Apart
  <2>3. Mirrors(<<>>, <<>>)
    BY AlertsAssumption DEF Mirrors
  <2> QED BY <2>1, <2>2, <2>3 DEF AlertsInv
<1>2. AlertsInv /\ [AlertsNext]_alertVars => AlertsInv'
  BY AlertStepsKeep
<1>3. AlertsInv => NewestKept
  BY ApartCounts DEF AlertsInv, Mirrors, NewestKept
<1> QED
  BY <1>1, <1>2, <1>3, PTL DEF AlertsSpec

(***************************************************************************)
(* The books of the jobs                                                   *)
(*                                                                         *)
(* A job between its count as submitted and its count as ended is open,    *)
(* and one counted as failed and not yet pushed is being buried: with      *)
(* those two sets the counts become inductive.  The order of a listing     *)
(* comes from the first number a job takes, before ZADD NX shows it.       *)
(***************************************************************************)

Stages == {"new", "number", "store", "count", "enqueue", "execute", "attempt", "ingest", "bury",
           "sleep", "over"}
Statuses == {"queued", "processing", "done", "failed"}
Saves == {"number", "store", "count"}

\* A job counted as submitted, and not yet as ended.
OpenJob(w) == w.at \in {"enqueue", "execute", "attempt", "ingest", "sleep"}
             \/ (w.at \in Saves /\ w.attempt > 0)
Live == {j \in Jobs : OpenJob(work[j])}
Burying == {j \in Jobs : work[j].at = "bury"}

\* A job's first number, while its place depends on it.
Num(w, x) == IF x > 0 THEN x ELSE IF w.at = "store" THEN w.number ELSE 0
Number(j) == Num(work[j], index[j])
Uploaded == {uploads[i] : i \in DOMAIN uploads}

\* Later uploads first.
Ordered(ids) == \A i, k \in DOMAIN ids : i < k =>
  \E p, q \in DOMAIN uploads : q < p /\ uploads[p] = ids[i] /\ uploads[q] = ids[k]

\* What a listing (its ids in order: ok), a scrape or a purge has read, by the failed jobs (failed),
\* and the letters there are and were (n).
ReadOK(v, ok, failed, n) ==
  \/ v = Unread
  \/ v.at \in {"list", "listed"} /\ ok
  \/ v.at = "scrape" /\ v.dead \in Nat /\ v.dead <= failed
  \/ v.at = "scraped" /\ v.dead <= v.failed
  \/ v.at = "purge" /\ v.depth \in Nat /\ v.before \in Nat /\ v.depth + v.before <= n
AllReaders == Readers \cup Purgers
ReadInv(o) == ReadOK(reader[o], Ordered(reader[o].ids), totals.failed, Len(letters) + removed)
Reading == DOMAIN reader = AllReaders /\ \A o \in AllReaders : ReadInv(o)

Work == [at : Stages, status : Statuses, attempt : Nat, number : Nat]
LedgerTypes ==
  /\ sequence \in Nat /\ index \in [Jobs -> Nat] /\ record \in [Jobs -> Statuses \cup {"gone"}]
  /\ totals \in [Outcomes -> Nat] /\ letters \in Seq(Jobs) /\ uploads \in Seq(Jobs)
  /\ removed \in Nat
  /\ work \in [Jobs -> Work]

\* A job's work, and what the books have of it.
JobOK(j, w, x, r, last, up) ==
  /\ w.at \in Saves /\ w.attempt = 0 => w.status = "queued"
  /\ w.at = "new" => w.attempt = 0
  /\ w.at = "ingest" => w.attempt > 0
  /\ w.at = "count" => w.status # "processing" /\ r = w.status
  /\ w.at = "bury" => r = "failed"
  /\ w.at = "new" \/ (w.at = "number" /\ w.attempt = 0) => j \notin up
  /\ (OpenJob(w) /\ w.at # "store") \/ w.at \in {"count", "bury"} => x > 0
  /\ w.at = "store" => w.number > 0
  /\ w.at = "store" /\ w.attempt > 0 => x > 0
  /\ x <= last /\ Num(w, x) <= last
  /\ Num(w, x) > 0 => j \in up
JobInv(j) == JobOK(j, work[j], index[j], record[j], sequence, Uploaded)

PlacedApart(i, k) ==
  /\ uploads[i] # uploads[k]
  /\ Number(uploads[i]) > 0 /\ Number(uploads[k]) > 0 => Number(uploads[i]) < Number(uploads[k])
PlaceInv == \A i, k \in DOMAIN uploads : i < k => PlacedApart(i, k)

CountInv ==
  /\ IsFiniteSet(Live) /\ IsFiniteSet(Burying)
  /\ totals.done + totals.failed + Cardinality(Live) <= totals.submitted
  /\ Len(letters) + removed + Cardinality(Burying) <= totals.failed

LetterInv ==
  /\ Len(letters) <= MAX_LETTERS
  /\ \A i \in DOMAIN letters : work[letters[i]].at = "over" /\ record[letters[i]] \in {"failed", "gone"}

LedgerInv ==
  /\ LedgerTypes /\ (\A j \in Jobs : JobInv(j)) /\ PlaceInv /\ CountInv /\ LetterInv /\ Reading

Counted(j, S) == IF j \in S THEN 1 ELSE 0
Opens(w) == IF OpenJob(w) THEN 1 ELSE 0
Buries(w) == IF w.at = "bury" THEN 1 ELSE 0

Moved(S, T, j) == T = S \cup {j} \/ T = S \ {j}

\* A set of jobs that a step takes one job into or out of.
LEMMA SetMoves ==
  ASSUME NEW S, IsFiniteSet(S), NEW j, NEW T, Moved(S, T, j)
  PROVE  /\ IsFiniteSet(T) /\ Cardinality(S) \in Nat /\ Cardinality(T) \in Nat
         /\ Cardinality(T) + Counted(j, S) = Cardinality(S) + Counted(j, T)
<1>1. Cardinality(S) \in Nat
  BY FS_CardinalityType
<1>2. CASE T = S \cup {j}
  <2>1. /\ IsFiniteSet(T)
        /\ Cardinality(T) = IF j \in S THEN Cardinality(S) ELSE Cardinality(S) + 1
    BY <1>2, FS_AddElement
  <2>2. j \in T
    BY <1>2
  <2> QED BY <1>1, <2>1, <2>2 DEF Counted
<1>3. CASE T = S \ {j}
  <2>1. /\ IsFiniteSet(T)
        /\ Cardinality(T) = IF j \in S THEN Cardinality(S) - 1 ELSE Cardinality(S)
    BY <1>3, FS_RemoveElement
  <2>2. Cardinality(T) \in Nat /\ j \notin T
    BY <1>3, <2>1, FS_CardinalityType
  <2> QED BY <1>1, <2>1, <2>2 DEF Counted
<1> QED BY <1>2, <1>3 DEF Moved

LEMMA WorkMoves ==
  ASSUME LedgerTypes, IsFiniteSet(Live), IsFiniteSet(Burying), NEW j \in Jobs, NEW w,
         work' = [work EXCEPT ![j] = w]
  PROVE  /\ IsFiniteSet(Live') /\ IsFiniteSet(Burying')
         /\ Cardinality(Live) \in Nat /\ Cardinality(Live') \in Nat
         /\ Cardinality(Burying) \in Nat /\ Cardinality(Burying') \in Nat
         /\ Cardinality(Live') + Opens(work[j]) = Cardinality(Live) + Opens(w)
         /\ Cardinality(Burying') + Buries(work[j]) = Cardinality(Burying) + Buries(w)
<1>1. DOMAIN work = Jobs
  BY DEF LedgerTypes
<1>2. work'[j] = w /\ \A k \in Jobs \ {j} : work'[k] = work[k]
  BY <1>1
<1>3. Moved(Live, Live', j) /\ Moved(Burying, Burying', j)
  BY <1>2 DEF Live, Burying, Moved
<1>5. /\ Counted(j, Live) = Opens(work[j]) /\ Counted(j, Live') = Opens(w)
      /\ Counted(j, Burying) = Buries(work[j]) /\ Counted(j, Burying') = Buries(w)
  BY <1>2 DEF Live, Burying, Buries, Opens, Counted
<1>6. /\ IsFiniteSet(Live') /\ Cardinality(Live) \in Nat /\ Cardinality(Live') \in Nat
      /\ Cardinality(Live') + Counted(j, Live) = Cardinality(Live) + Counted(j, Live')
  BY <1>3, SetMoves, Zenon
<1>7. /\ IsFiniteSet(Burying') /\ Cardinality(Burying) \in Nat /\ Cardinality(Burying') \in Nat
      /\ Cardinality(Burying') + Counted(j, Burying) = Cardinality(Burying) + Counted(j, Burying')
  BY <1>3, SetMoves, Zenon
<1> QED BY <1>5, <1>6, <1>7, Zenon

\* What a longer list of uploads keeps.
LEMMA OrderStays ==
  ASSUME NEW ids, Ordered(ids), uploads \in Seq(Jobs), NEW j, uploads' = uploads \/ uploads' = Append(uploads, j)
  PROVE  Ordered(ids)'
<1>1. DOMAIN uploads \subseteq DOMAIN uploads' /\ \A i \in DOMAIN uploads : uploads'[i] = uploads[i]
  OBVIOUS
<1> QED BY <1>1 DEF Ordered

LEMMA UploadedGrows ==
  ASSUME uploads \in Seq(Jobs), NEW j, uploads' = Append(uploads, j)
  PROVE  Uploaded' = Uploaded \cup {j}
<1>1. /\ DOMAIN uploads = 1..Len(uploads) /\ DOMAIN uploads' = 1..(Len(uploads) + 1) /\ Len(uploads) \in Nat
      /\ uploads'[Len(uploads) + 1] = j /\ \A i \in 1..Len(uploads) : uploads'[i] = uploads[i]
  OBVIOUS
<1>2. DOMAIN uploads' = DOMAIN uploads \cup {Len(uploads) + 1}
  BY <1>1
<1> QED BY <1>1, <1>2 DEF Uploaded

LEMMA JobStays ==
  ASSUME NEW k, NEW w, NEW x \in Nat, NEW r, NEW m \in Nat, NEW n \in Nat, NEW U, NEW V,
         JobOK(k, w, x, r, m, U), m <= n, U \subseteq V, k \in V => k \in U, Num(w, x) \in Nat
  PROVE  JobOK(k, w, x, r, n, V)
<1>1. x <= n /\ Num(w, x) <= n
  BY DEF JobOK
<1>2. k \in U <=> k \in V
  OBVIOUS
<1> QED BY <1>1, <1>2, Zenon DEF JobOK

\* What a step of one job does to the books.
JobStep(j, w, x, r) ==
  /\ j \in Jobs /\ w \in Work /\ x \in Nat /\ r \in Statuses \cup {"gone"}
  /\ work' = [work EXCEPT ![j] = w] /\ index' = [index EXCEPT ![j] = x]
  /\ record' = [record EXCEPT ![j] = r]
  /\ sequence' \in Nat /\ sequence <= sequence'
  /\ \/ uploads' = uploads /\ (Num(w, x) = 0 \/ Num(w, x) = Number(j))
     \/ uploads' = Append(uploads, j) /\ j \notin Uploaded /\ Num(w, x) > sequence
  /\ JobOK(j, w, x, r, sequence', Uploaded')
  /\ totals' \in [Outcomes -> Nat] /\ totals.failed <= totals'.failed
  /\ totals'.done + totals'.failed + Opens(w) + totals.submitted
       <= totals.done + totals.failed + totals'.submitted + Opens(work[j])
  /\ Len(letters') + Buries(w) + totals.failed <= Len(letters) + totals'.failed + Buries(work[j])
  /\ letters' \in Seq(Jobs) /\ Len(letters') <= MAX_LETTERS /\ Len(letters) <= Len(letters')
  /\ \A i \in DOMAIN letters' :
       letters'[i] # j => \E k \in DOMAIN letters : letters[k] = letters'[i]
  /\ (\E i \in DOMAIN letters' : letters'[i] = j) => w.at = "over" /\ r \in {"failed", "gone"}
  /\ UNCHANGED <<reader, removed>>

LEMMA NumType == \A w \in Work, x \in Nat : Num(w, x) \in Nat
  BY DEF Num, Work

LEMMA StepTypes ==
  ASSUME LedgerInv, NEW j, NEW w, NEW x, NEW r, JobStep(j, w, x, r)
  PROVE  /\ LedgerTypes'
         /\ work'[j] = w /\ index'[j] = x /\ record'[j] = r
         /\ \A k \in Jobs \ {j} : work'[k] = work[k] /\ index'[k] = index[k] /\ record'[k] = record[k]
<1>1. LedgerTypes
  BY DEF LedgerInv
<1>2. j \in Jobs /\ w \in Work /\ x \in Nat /\ r \in Statuses \cup {"gone"}
  BY DEF JobStep
<1>3. /\ work' = [work EXCEPT ![j] = w] /\ index' = [index EXCEPT ![j] = x]
      /\ record' = [record EXCEPT ![j] = r]
  BY DEF JobStep
<1>4. /\ work' \in [Jobs -> Work] /\ work'[j] = w /\ \A k \in Jobs \ {j} : work'[k] = work[k]
  BY <1>1, <1>2, <1>3 DEF LedgerTypes
<1>5. /\ index' \in [Jobs -> Nat] /\ index'[j] = x /\ \A k \in Jobs \ {j} : index'[k] = index[k]
  BY <1>1, <1>2, <1>3 DEF LedgerTypes
<1>6. /\ record' \in [Jobs -> Statuses \cup {"gone"}] /\ record'[j] = r
      /\ \A k \in Jobs \ {j} : record'[k] = record[k]
  BY <1>1, <1>2, <1>3 DEF LedgerTypes
<1>7. sequence' \in Nat /\ totals' \in [Outcomes -> Nat] /\ letters' \in Seq(Jobs) /\ removed' = removed
  BY DEF JobStep
<1>8. uploads' \in Seq(Jobs)
  <2>1. uploads \in Seq(Jobs) /\ (uploads' = uploads \/ uploads' = Append(uploads, j))
    BY <1>1 DEF LedgerTypes, JobStep
  <2> QED BY <1>2, <2>1
<1> QED BY <1>1, <1>4, <1>5, <1>6, <1>7, <1>8 DEF LedgerTypes

LEMMA StepJobs ==
  ASSUME LedgerInv, NEW j, NEW w, NEW x, NEW r, JobStep(j, w, x, r), NEW k \in Jobs
  PROVE  JobInv(k)'
<1>1. /\ work'[j] = w /\ index'[j] = x /\ record'[j] = r
      /\ \A l \in Jobs \ {j} : work'[l] = work[l] /\ index'[l] = index[l] /\ record'[l] = record[l]
  BY StepTypes
<1>2. CASE k = j
  BY <1>1, <1>2 DEF JobInv, JobStep
<1>3. CASE k # j
  <2>1. work'[k] = work[k] /\ index'[k] = index[k] /\ record'[k] = record[k]
    BY <1>1, <1>3
  <2>2. JobOK(k, work[k], index[k], record[k], sequence, Uploaded)
    BY DEF LedgerInv, JobInv
  <2>3. /\ sequence \in Nat /\ sequence' \in Nat /\ sequence <= sequence'
        /\ work[k] \in Work /\ index[k] \in Nat /\ uploads \in Seq(Jobs)
    BY DEF LedgerInv, LedgerTypes, JobStep
  <2>4. Num(work[k], index[k]) \in Nat
    BY <2>3, NumType
  <2>5. Uploaded \subseteq Uploaded' /\ (k \in Uploaded' => k \in Uploaded)
    <3>1. CASE uploads' = uploads
      BY <3>1 DEF Uploaded
    <3>2. CASE uploads' = Append(uploads, j)
      <4>1. Uploaded' = Uploaded \cup {j}
        BY <2>3, <3>2, UploadedGrows
      <4> QED BY <4>1, <1>3
    <3> QED BY <3>1, <3>2 DEF JobStep
  <2>6. JobOK(k, work[k], index[k], record[k], sequence', Uploaded')
    BY <2>2, <2>3, <2>4, <2>5, JobStays
  <2> QED BY <2>1, <2>6 DEF JobInv
<1> QED BY <1>2, <1>3

LEMMA StepPlaces ==
  ASSUME LedgerInv, NEW j, NEW w, NEW x, NEW r, JobStep(j, w, x, r)
  PROVE  PlaceInv'
<1>1. /\ work'[j] = w /\ index'[j] = x
      /\ \A l \in Jobs \ {j} : work'[l] = work[l] /\ index'[l] = index[l]
  BY StepTypes
<1>2. Number(j)' = Num(w, x) /\ \A l \in Jobs \ {j} : Number(l)' = Number(l)
  BY <1>1 DEF Number
<1>3. PlaceInv /\ uploads \in Seq(Jobs) /\ sequence \in Nat
  BY DEF LedgerInv, LedgerTypes
<1>4. \A l \in Jobs : Number(l) \in Nat /\ Number(l) <= sequence
  BY NumType DEF LedgerInv, LedgerTypes, JobInv, JobOK, Number
<1>5. CASE uploads' = uploads /\ (Num(w, x) = 0 \/ Num(w, x) = Number(j))
  <2>1. \A l \in Jobs : Number(l)' = 0 \/ Number(l)' = Number(l)
    BY <1>2, <1>5
  <2>2. \A i \in DOMAIN uploads : uploads[i] \in Jobs
    BY <1>3
  <2> QED BY <1>3, <1>4, <1>5, <2>1, <2>2 DEF PlaceInv, PlacedApart
<1>6. CASE uploads' = Append(uploads, j) /\ j \notin Uploaded /\ Num(w, x) > sequence
  <2>1. /\ DOMAIN uploads = 1..Len(uploads) /\ DOMAIN uploads' = 1..(Len(uploads) + 1)
        /\ Len(uploads) \in Nat
        /\ uploads'[Len(uploads) + 1] = j /\ \A i \in 1..Len(uploads) : uploads'[i] = uploads[i]
    BY <1>3, <1>6
  <2>2. \A i \in DOMAIN uploads : uploads[i] \in Jobs \ {j}
    BY <1>3, <1>6 DEF Uploaded
  <2>3. ASSUME NEW i \in DOMAIN uploads', NEW k \in DOMAIN uploads', i < k
        PROVE  (PlacedApart(i, k))'
    <3>1. i \in DOMAIN uploads /\ uploads'[i] = uploads[i] /\ uploads[i] \in Jobs \ {j}
      BY <2>1, <2>2, <2>3
    <3>2. Number(uploads[i])' = Number(uploads[i])
      BY <1>2, <3>1
    <3>3. CASE k \in DOMAIN uploads
      <4>1. uploads'[k] = uploads[k] /\ uploads[k] \in Jobs \ {j}
        BY <2>1, <2>2, <3>3
      <4>2. Number(uploads[k])' = Number(uploads[k])
        BY <1>2, <4>1
      <4>3. PlacedApart(i, k)
        BY <1>3, <2>3, <3>1, <3>3 DEF PlaceInv
      <4> QED BY <3>1, <3>2, <4>1, <4>2, <4>3 DEF PlacedApart
    <3>4. CASE k = Len(uploads) + 1
      <4>1. uploads'[k] = j /\ Number(j)' = Num(w, x)
        BY <1>2, <2>1, <3>4
      <4>2. Number(uploads[i]) \in Nat /\ Number(uploads[i]) <= sequence
        BY <1>4, <3>1
      <4>3. Num(w, x) \in Nat
        BY NumType DEF JobStep
      <4> QED BY <1>3, <1>6, <3>1, <3>2, <4>1, <4>2, <4>3 DEF PlacedApart
    <3> QED BY <2>1, <3>3, <3>4
  <2> QED BY <2>3 DEF PlaceInv
<1> QED BY <1>5, <1>6 DEF JobStep

\* The sums of the two counts.
LEMMA Sums ==
  \A a, c, s, o, ax, cx, sx, ox \in Nat :
    cx + o = c + ox /\ a + c <= s /\ ax + ox + s <= a + sx + o => ax + cx <= sx
  OBVIOUS
LEMMA TotalTypes ==
  ASSUME NEW t \in [Outcomes -> Nat]
  PROVE  t.done \in Nat /\ t.failed \in Nat /\ t.submitted \in Nat /\ t.done + t.failed \in Nat
<1>1. t.done \in Nat /\ t.failed \in Nat /\ t.submitted \in Nat
  BY DEF Outcomes
<1> QED BY <1>1

LEMMA StepCounts ==
  ASSUME LedgerInv, NEW j, NEW w, NEW x, NEW r, JobStep(j, w, x, r)
  PROVE  CountInv'
<1>1. LedgerTypes /\ CountInv /\ IsFiniteSet(Live) /\ IsFiniteSet(Burying)
  BY DEF LedgerInv, CountInv
<1>2. j \in Jobs /\ work' = [work EXCEPT ![j] = w]
  BY DEF JobStep
<1>3. /\ IsFiniteSet(Live') /\ IsFiniteSet(Burying')
      /\ Cardinality(Live) \in Nat /\ Cardinality(Live') \in Nat
      /\ Cardinality(Burying) \in Nat /\ Cardinality(Burying') \in Nat
      /\ Cardinality(Live') + Opens(work[j]) = Cardinality(Live) + Opens(w)
      /\ Cardinality(Burying') + Buries(work[j]) = Cardinality(Burying) + Buries(w)
  BY <1>1, <1>2, WorkMoves, Zenon
<1>4. /\ Opens(w) \in Nat /\ Opens(work[j]) \in Nat /\ Buries(w) \in Nat /\ Buries(work[j]) \in Nat
  BY DEF Opens, Buries
<1>0. /\ totals \in [Outcomes -> Nat] /\ totals' \in [Outcomes -> Nat]
      /\ letters \in Seq(Jobs) /\ letters' \in Seq(Jobs) /\ removed \in Nat
      /\ removed' = removed
  BY <1>1 DEF LedgerTypes, JobStep
<1>5. /\ totals.done + totals.failed \in Nat /\ totals.failed \in Nat /\ totals.submitted \in Nat
      /\ totals'.done + totals'.failed \in Nat /\ totals'.failed \in Nat /\ totals'.submitted \in Nat
  BY <1>0, TotalTypes, Zenon
<1>8. Len(letters) \in Nat /\ Len(letters') \in Nat /\ removed \in Nat
  BY <1>0
<1>6. totals'.done + totals'.failed + Cardinality(Live') <= totals'.submitted
  <2>1. totals.done + totals.failed + Cardinality(Live) <= totals.submitted
    BY <1>1 DEF CountInv
  <2>2. totals'.done + totals'.failed + Opens(w) + totals.submitted
          <= totals.done + totals.failed + totals'.submitted + Opens(work[j])
    BY DEF JobStep
  <2> QED BY <1>3, <1>4, <1>5, <2>1, <2>2, Sums
<1>7. Len(letters') + removed' + Cardinality(Burying') <= totals'.failed
  <2>1. Len(letters) + removed + Cardinality(Burying) <= totals.failed
    BY <1>1 DEF CountInv
  <2>2. Len(letters') + Buries(w) + totals.failed <= Len(letters) + totals'.failed + Buries(work[j])
    BY DEF JobStep
  <2>3. Len(letters') + removed + Cardinality(Burying') <= totals'.failed
    <3>1. PICK n : n = Len(letters)
      OBVIOUS
    <3>2. PICK m : m = Len(letters')
      OBVIOUS
    <3>3. PICK p : p = removed
      OBVIOUS
    <3>4. PICK c : c = Cardinality(Burying)
      OBVIOUS
    <3>5. PICK d : d = Cardinality(Burying')
      OBVIOUS
    <3>6. PICK f : f = totals.failed
      OBVIOUS
    <3>7. PICK g : g = totals'.failed
      OBVIOUS
    <3>8. /\ n \in Nat /\ m \in Nat /\ p \in Nat /\ c \in Nat /\ d \in Nat /\ f \in Nat /\ g \in Nat
          /\ d + Buries(work[j]) = c + Buries(w) /\ n + p + c <= f
          /\ m + Buries(w) + f <= n + g + Buries(work[j])
      BY <1>3, <1>5, <1>8, <2>1, <2>2, <3>1, <3>2, <3>3, <3>4, <3>5, <3>6, <3>7, Zenon
    <3>9. m + p + d <= g
      BY <1>4, <3>8
    <3> QED BY <3>2, <3>3, <3>5, <3>7, <3>9, Zenon
  <2> QED BY <1>0, <2>3
<1> QED BY <1>3, <1>6, <1>7 DEF CountInv

LEMMA StepLetters ==
  ASSUME LedgerInv, NEW j, NEW w, NEW x, NEW r, JobStep(j, w, x, r)
  PROVE  LetterInv'
<1>1. /\ work'[j] = w /\ record'[j] = r
      /\ \A k \in Jobs \ {j} : work'[k] = work[k] /\ record'[k] = record[k]
  BY StepTypes
<1>2. Len(letters') <= MAX_LETTERS
  BY DEF JobStep, LedgerInv, LetterInv
<1>3. ASSUME NEW i \in DOMAIN letters'
      PROVE  work'[letters'[i]].at = "over" /\ record'[letters'[i]] \in {"failed", "gone"}
  <2>1. CASE letters'[i] = j
    BY <1>1, <1>3, <2>1 DEF JobStep
  <2>2. CASE letters'[i] # j
    <3>1. PICK k \in DOMAIN letters : letters[k] = letters'[i]
      BY <1>3, <2>2 DEF JobStep
    <3>2. letters[k] \in Jobs
      BY DEF LedgerInv, LedgerTypes
    <3>3. work[letters[k]].at = "over" /\ record[letters[k]] \in {"failed", "gone"}
      BY DEF LedgerInv, LetterInv
    <3> QED BY <1>1, <2>2, <3>1, <3>2, <3>3
  <2> QED BY <2>1, <2>2
<1> QED BY <1>2, <1>3 DEF LetterInv

\* Nothing that readers have read, or read it from, changes.
LEMMA SameReading ==
  ASSUME Reading, UNCHANGED <<totals, letters, reader, uploads, removed>>
  PROVE  Reading'
<1>1. ASSUME NEW o \in AllReaders PROVE ReadInv(o)'
  <2>1. ReadInv(o)
    BY DEF Reading
  <2> QED BY <2>1 DEF ReadInv, ReadOK, Ordered
<1> QED BY <1>1, Zenon DEF Reading, AllReaders

\* What was read stays right while failed jobs, uploads and letters, there or removed, only grow.
LEMMA ReadStays ==
  ASSUME NEW v, NEW a, NEW b, a => b, NEW f \in Nat, NEW g \in Nat, f <= g,
         NEW m \in Nat, NEW n \in Nat, m <= n, ReadOK(v, a, f, m)
  PROVE  ReadOK(v, b, g, n)
<1>1. CASE v = Unread
  BY <1>1 DEF ReadOK
<1>2. CASE v.at \in {"list", "listed"} /\ a
  BY <1>2 DEF ReadOK
<1>3. CASE v.at = "scrape" /\ v.dead \in Nat /\ v.dead <= f
  <2>1. v.dead <= g
    BY <1>3
  <2> QED BY <1>3, <2>1 DEF ReadOK
<1>4. CASE v.at = "scraped" /\ v.dead <= v.failed
  BY <1>4 DEF ReadOK
<1>5. CASE v.at = "purge" /\ v.depth \in Nat /\ v.before \in Nat /\ v.depth + v.before <= m
  <2>1. v.depth + v.before <= n
    BY <1>5
  <2> QED BY <1>5, <2>1 DEF ReadOK
<1> QED BY <1>1, <1>2, <1>3, <1>4, <1>5 DEF ReadOK

LEMMA OthersRead ==
  ASSUME LedgerInv, NEW o \in AllReaders, reader'[o] = reader[o],
         uploads' = uploads \/ \E j \in Jobs : uploads' = Append(uploads, j),
         totals.failed \in Nat, totals'.failed \in Nat, totals.failed <= totals'.failed,
         NEW m, NEW n, m = Len(letters) + removed, n = (Len(letters) + removed)',
         m \in Nat, n \in Nat, m <= n
  PROVE  ReadInv(o)'
<1>1. uploads \in Seq(Jobs) /\ ReadInv(o)
  BY DEF LedgerInv, LedgerTypes, Reading
<1>2. ReadOK(reader[o], Ordered(reader[o].ids), totals.failed, m)
  BY <1>1 DEF ReadInv
<1>3. PICK ids : ids = reader[o].ids
  OBVIOUS
<1>4. Ordered(ids) => Ordered(ids)'
  <2>1. CASE uploads' = uploads
    BY <2>1 DEF Ordered
  <2>2. CASE \E j \in Jobs : uploads' = Append(uploads, j)
    BY <1>1, <2>2, OrderStays
  <2> QED BY <2>1, <2>2
<1>5. PICK b \in BOOLEAN : b = Ordered(reader[o].ids)'
  BY DEF Ordered
<1>6. Ordered(reader[o].ids) => b
  BY <1>3, <1>4, <1>5 DEF Ordered
<1>7. ReadOK(reader[o], b, totals'.failed, n)
  BY <1>2, <1>6, ReadStays
<1> QED BY <1>5, <1>7 DEF ReadInv

LEMMA StepReads ==
  ASSUME LedgerInv, NEW j, NEW w, NEW x, NEW r, JobStep(j, w, x, r)
  PROVE  Reading'
<1>1. /\ j \in Jobs /\ (uploads' = uploads \/ uploads' = Append(uploads, j))
      /\ reader' = reader /\ removed' = removed
      /\ Len(letters) <= Len(letters') /\ totals.failed <= totals'.failed
      /\ totals \in [Outcomes -> Nat] /\ totals' \in [Outcomes -> Nat]
      /\ letters \in Seq(Jobs) /\ letters' \in Seq(Jobs) /\ removed \in Nat
      /\ DOMAIN reader = AllReaders
  BY DEF LedgerInv, LedgerTypes, JobStep, Reading
<1>2. totals.failed \in Nat /\ totals'.failed \in Nat
  BY <1>1, TotalTypes, Zenon
<1>3. Len(letters) \in Nat /\ Len(letters') \in Nat
  BY <1>1
<1>4. PICK m, n : m = Len(letters) + removed /\ n = (Len(letters) + removed)'
  OBVIOUS
<1>5. m \in Nat /\ n \in Nat /\ m <= n
  BY <1>1, <1>3, <1>4
<1>6. \A o \in AllReaders : ReadInv(o)'
  BY <1>1, <1>2, <1>4, <1>5, OthersRead
<1> QED BY <1>1, <1>6 DEF Reading, AllReaders

\* The step of one job that keeps to JobStep keeps the books.
LEMMA JobSteps ==
  ASSUME LedgerInv, NEW j, NEW w, NEW x, NEW r, JobStep(j, w, x, r)
  PROVE  LedgerInv'
<1>1. LedgerTypes'
  BY StepTypes
<1>2. \A k \in Jobs : JobInv(k)'
  BY StepJobs
<1>3. PlaceInv' /\ CountInv' /\ LetterInv' /\ Reading'
  BY StepPlaces, StepCounts, StepLetters, StepReads
<1> QED BY <1>1, <1>2, <1>3 DEF LedgerInv

\* What a step that only moves the job's work along has to show.
Quiet(j, w) ==
  /\ j \in Jobs /\ w \in Work /\ work' = [work EXCEPT ![j] = w]
  /\ work[j].at # "over" /\ Opens(w) <= Opens(work[j]) /\ Buries(w) <= Buries(work[j])
  /\ Num(w, index[j]) = 0 \/ Num(w, index[j]) = Number(j)
  /\ JobOK(j, w, index[j], record[j], sequence, Uploaded)
  /\ UNCHANGED <<sequence, index, record, totals, letters, reader, uploads, removed>>

LEMMA QuietSteps ==
  ASSUME LedgerInv, NEW j, NEW w, Quiet(j, w)
  PROVE  LedgerInv'
<1>1. /\ LedgerTypes /\ j \in Jobs /\ w \in Work /\ work' = [work EXCEPT ![j] = w]
      /\ index[j] \in Nat /\ record[j] \in Statuses \cup {"gone"}
      /\ index' = [index EXCEPT ![j] = index[j]] /\ record' = [record EXCEPT ![j] = record[j]]
  BY DEF LedgerInv, LedgerTypes, Quiet
<1>2. /\ sequence' = sequence /\ totals' = totals /\ letters' = letters /\ uploads' = uploads
      /\ UNCHANGED <<reader, removed>>
  BY DEF Quiet
<1>3. Uploaded' = Uploaded
  BY <1>2 DEF Uploaded
<1>4. Opens(w) \in Nat /\ Opens(work[j]) \in Nat /\ Buries(w) \in Nat /\ Buries(work[j]) \in Nat
  BY DEF Opens, Buries
<1>5. totals \in [Outcomes -> Nat] /\ letters \in Seq(Jobs) /\ sequence \in Nat /\ Len(letters) \in Nat
  BY <1>1 DEF LedgerTypes
<1>12. /\ totals.done + totals.failed \in Nat /\ totals.failed \in Nat /\ totals.submitted \in Nat
       /\ Opens(w) <= Opens(work[j]) /\ Buries(w) <= Buries(work[j])
  BY <1>5, TotalTypes, Zenon DEF Quiet
<1>13. \A a, f, o, ox \in Nat : ox <= o => a + ox + f <= a + f + o
  OBVIOUS
<1>14. /\ totals.done + totals.failed + Opens(w) + totals.submitted
           <= totals.done + totals.failed + totals.submitted + Opens(work[j])
      /\ Len(letters) + Buries(w) + totals.failed <= Len(letters) + totals.failed + Buries(work[j])
  BY <1>4, <1>5, <1>12, <1>13, Zenon
<1>6. /\ totals'.done + totals'.failed + Opens(w) + totals.submitted
           <= totals.done + totals.failed + totals'.submitted + Opens(work[j])
      /\ Len(letters') + Buries(w) + totals.failed <= Len(letters) + totals'.failed + Buries(work[j])
      /\ sequence <= sequence' /\ totals.failed <= totals'.failed /\ Len(letters) <= Len(letters')
  BY <1>2, <1>5, <1>12, <1>14
<1>7. /\ Len(letters) <= MAX_LETTERS
      /\ ~(\E i \in DOMAIN letters : letters[i] = j)
  BY DEF LedgerInv, LetterInv, Quiet
<1>8. JobOK(j, w, index[j], record[j], sequence', Uploaded')
  BY <1>2, <1>3, Zenon DEF Quiet
<1>9. Num(w, index[j]) = 0 \/ Num(w, index[j]) = Number(j)
  BY DEF Quiet
<1>10. \A i \in DOMAIN letters' :
         letters'[i] # j => \E k \in DOMAIN letters : letters[k] = letters'[i]
  BY <1>2
<1>11. JobStep(j, w, index[j], record[j])
  BY <1>1, <1>2, <1>5, <1>6, <1>7, <1>8, <1>9, <1>10, Zenon DEF JobStep
<1> QED BY <1>11, JobSteps

JobWork(at, status, attempt, number) ==
  [at |-> at, status |-> status, attempt |-> attempt, number |-> number]

LEMMA JobsFields ==
  \A a, b, c, d : /\ JobWork(a, b, c, d).at = a /\ JobWork(a, b, c, d).status = b
                  /\ JobWork(a, b, c, d).attempt = c /\ JobWork(a, b, c, d).number = d
  BY DEF JobWork

LEMMA JobIsWhole ==
  ASSUME NEW A, NEW B, NEW C, NEW D, NEW w \in [at : A, status : B, attempt : C, number : D]
  PROVE  w = JobWork(w.at, w.status, w.attempt, w.number)
  BY DEF JobWork

\* Changed field by field, a job's work is the job with those fields.
LEMMA WorkAlong ==
  ASSUME NEW w \in Work, NEW a
  PROVE  [w EXCEPT !.at = a, !.number = 0] = JobWork(a, w.status, w.attempt, 0)
<1> DEFINE v == [w EXCEPT !.at = a, !.number = 0]
<1>1. v \in [at : {a}, status : {w.status}, attempt : {w.attempt}, number : {0}]
  BY DEF Work
<1>2. v = JobWork(v.at, v.status, v.attempt, v.number)
  BY <1>1, JobIsWhole
<1>3. v.at = a /\ v.status = w.status /\ v.attempt = w.attempt /\ v.number = 0
  BY <1>1
<1> QED BY <1>2, <1>3

LEMMA WorkSaves ==
  ASSUME NEW w \in Work, NEW s
  PROVE  [[w EXCEPT !.at = "number"] EXCEPT !.status = s] = JobWork("number", s, w.attempt, w.number)
<1> DEFINE v == [[w EXCEPT !.at = "number"] EXCEPT !.status = s]
<1>1. v \in [at : {"number"}, status : {s}, attempt : {w.attempt}, number : {w.number}]
  BY DEF Work
<1>2. v = JobWork(v.at, v.status, v.attempt, v.number)
  BY <1>1, JobIsWhole
<1>3. v.at = "number" /\ v.status = s /\ v.attempt = w.attempt /\ v.number = w.number
  BY <1>1
<1> QED BY <1>2, <1>3

LEMMA WorkStarts ==
  ASSUME NEW w \in Work, NEW n, NEW s
  PROVE  [[[w EXCEPT !.at = "number"] EXCEPT !.attempt = n] EXCEPT !.status = s] = JobWork("number", s, n, w.number)
<1> DEFINE v == [[[w EXCEPT !.at = "number"] EXCEPT !.attempt = n] EXCEPT !.status = s]
<1>1. v \in [at : {"number"}, status : {s}, attempt : {n}, number : {w.number}]
  BY DEF Work
<1>2. v = JobWork(v.at, v.status, v.attempt, v.number)
  BY <1>1, JobIsWhole
<1>3. v.at = "number" /\ v.status = s /\ v.attempt = n /\ v.number = w.number
  BY <1>1
<1> QED BY <1>2, <1>3

LEMMA WorkNumbers ==
  ASSUME NEW w \in Work, NEW n
  PROVE  [[w EXCEPT !.at = "store"] EXCEPT !.number = n] = JobWork("store", w.status, w.attempt, n)
<1> DEFINE v == [[w EXCEPT !.at = "store"] EXCEPT !.number = n]
<1>1. v \in [at : {"store"}, status : {w.status}, attempt : {w.attempt}, number : {n}]
  BY DEF Work
<1>2. v = JobWork(v.at, v.status, v.attempt, v.number)
  BY <1>1, JobIsWhole
<1>3. v.at = "store" /\ v.status = w.status /\ v.attempt = w.attempt /\ v.number = n
  BY <1>1
<1> QED BY <1>2, <1>3

\* What Proceeds makes of a job's work.
Along(w, at) == IF at = "over" THEN Doing("over")
                ELSE JobWork(at, w.status, w.attempt, 0)
\* ... and Saving.
SavedAs(w, s) == JobWork("number", s, w.attempt, w.number)

LEMMA ProceedsAlong ==
  ASSUME LedgerTypes, NEW j \in Jobs, NEW at \in Stages, Proceeds(j, at)
  PROVE  Along(work[j], at) \in Work /\ work' = [work EXCEPT ![j] = Along(work[j], at)]
<1>1. work[j] \in Work /\ work \in [Jobs -> Work]
  BY DEF LedgerTypes
<1>2. Doing("over") \in Work
  BY DEF Doing, Work, Stages, Statuses
<1>3. Along(work[j], at) \in Work
  BY <1>1, <1>2 DEF Along, Work, Stages, JobWork
<1>4. (IF at = "over" THEN Doing(at) ELSE [work[j] EXCEPT !.at = at, !.number = 0]) = Along(work[j], at)
  <2>1. [work[j] EXCEPT !.at = at, !.number = 0] = JobWork(at, work[j].status, work[j].attempt, 0)
    BY <1>1, WorkAlong
  <2> QED BY <2>1 DEF Along
<1> QED BY <1>3, <1>4 DEF Proceeds

LEMMA SavingSaves ==
  ASSUME LedgerTypes, NEW j \in Jobs, NEW s \in Statuses, Saving(j, s)
  PROVE  SavedAs(work[j], s) \in Work /\ work' = [work EXCEPT ![j] = SavedAs(work[j], s)]
<1>1. work[j] \in Work /\ work \in [Jobs -> Work]
  BY DEF LedgerTypes
<1>2. SavedAs(work[j], s) \in Work
  BY <1>1 DEF SavedAs, Work, Stages, JobWork
<1>3. [[work[j] EXCEPT !.at = "number"] EXCEPT !.status = s] = SavedAs(work[j], s)
  BY <1>1, WorkSaves DEF SavedAs
<1>4. work' = [work EXCEPT ![j] = [[work[j] EXCEPT !.at = "number"] EXCEPT !.status = s]]
  BY <1>1 DEF Saving
<1> QED BY <1>2, <1>3, <1>4

\* The facts of one job that a step of it needs.
LEMMA JobFacts ==
  ASSUME LedgerInv, NEW j \in Jobs
  PROVE  /\ LedgerTypes /\ work[j] \in Work /\ index[j] \in Nat /\ record[j] \in Statuses \cup {"gone"}
         /\ JobOK(j, work[j], index[j], record[j], sequence, Uploaded) /\ sequence \in Nat
         /\ work[j].attempt \in Nat /\ work[j].status \in Statuses /\ work[j].number \in Nat
         /\ work[j].at \in Stages
  BY DEF LedgerInv, JobInv, LedgerTypes, Work

LEMMA QuietAlong ==
  ASSUME LedgerInv, NEW j \in Jobs, NEW at \in {"enqueue", "execute", "attempt", "over"},
         work[j].at \notin {"new", "over"},
         at # "over" => work[j].at \in {"enqueue", "execute", "sleep"},
         Proceeds(j, at),
         UNCHANGED <<sequence, index, record, totals, letters, reader, uploads, removed>>
  PROVE  LedgerInv'
<1> DEFINE w == Along(work[j], at)
<1>1. /\ LedgerTypes /\ work[j] \in Work /\ index[j] \in Nat
      /\ JobOK(j, work[j], index[j], record[j], sequence, Uploaded) /\ sequence \in Nat
      /\ work[j].attempt \in Nat /\ work[j].status \in Statuses
  BY JobFacts
<1>2. w \in Work /\ work' = [work EXCEPT ![j] = w]
  BY <1>1, ProceedsAlong DEF Stages
<1>3. /\ w.at = at
      /\ at # "over" => w.status = work[j].status /\ w.attempt = work[j].attempt
  BY JobsFields DEF Along, Doing
<1>4. Opens(w) <= Opens(work[j]) /\ Buries(w) <= Buries(work[j])
  BY <1>3 DEF Opens, Buries, OpenJob, Saves
<1>5. Num(w, index[j]) = 0 \/ Num(w, index[j]) = Number(j)
  BY <1>3 DEF Num, Number
<1>6. Num(w, index[j]) <= sequence /\ (Num(w, index[j]) > 0 => j \in Uploaded)
  BY <1>1, <1>3, <1>5 DEF JobOK, Num
<1>7. JobOK(j, w, index[j], record[j], sequence, Uploaded)
  BY <1>1, <1>3, <1>6 DEF JobOK, OpenJob, Saves
<1>8. Quiet(j, w)
  BY <1>2, <1>4, <1>5, <1>7 DEF Quiet
<1> QED BY <1>8, QuietSteps

LEMMA QuietSaves ==
  ASSUME LedgerInv, NEW j \in Jobs, NEW w \in Work, work' = [work EXCEPT ![j] = w],
         w.at = "number",
         \/ work[j].at = "new" /\ w.attempt = 0 /\ w.status = "queued"
         \/ work[j].at \in {"attempt", "ingest"} /\ w.attempt > 0,
         UNCHANGED <<sequence, index, record, totals, letters, reader, uploads, removed>>
  PROVE  LedgerInv'
<1>1. /\ LedgerTypes /\ work[j] \in Work /\ index[j] \in Nat /\ sequence \in Nat
      /\ JobOK(j, work[j], index[j], record[j], sequence, Uploaded) /\ w.attempt \in Nat
  BY JobFacts DEF Work
<1>2. Opens(w) <= Opens(work[j]) /\ Buries(w) <= Buries(work[j]) /\ work[j].at # "over"
  BY DEF Opens, Buries, OpenJob, Saves
<1>3. Num(w, index[j]) = 0 \/ Num(w, index[j]) = Number(j)
  BY DEF Num, Number
<1>4. Num(w, index[j]) <= sequence /\ (Num(w, index[j]) > 0 => j \in Uploaded)
  BY <1>1, <1>3 DEF JobOK, Num
<1>5. JobOK(j, w, index[j], record[j], sequence, Uploaded)
  BY <1>1, <1>4 DEF JobOK, OpenJob, Saves
<1>6. Quiet(j, w)
  BY <1>2, <1>3, <1>5 DEF Quiet
<1> QED BY <1>6, QuietSteps

LEMMA QuietActions ==
  ASSUME LedgerInv, NEW j \in Jobs,
         Submits(j) \/ Enqueue(j) \/ Execute(j) \/ StartAttempt(j) \/ Ingest(j) \/ Retry(j) \/ Raises(j)
  PROVE  LedgerInv'
<1>1. /\ LedgerTypes /\ work[j] \in Work /\ work[j].attempt \in Nat
      /\ JobOK(j, work[j], index[j], record[j], sequence, Uploaded)
  BY JobFacts
<1>2. CASE Submits(j)
  <2>1. Saving(j, "queued") /\ work[j].at = "new"
    BY <1>2 DEF Submits
  <2>2. SavedAs(work[j], "queued") \in Work /\ work' = [work EXCEPT ![j] = SavedAs(work[j], "queued")]
    BY <1>1, <2>1, SavingSaves DEF Statuses
  <2>3. /\ SavedAs(work[j], "queued").at = "number" /\ SavedAs(work[j], "queued").status = "queued"
        /\ SavedAs(work[j], "queued").attempt = 0
    BY <1>1, <2>1, JobsFields DEF SavedAs, JobOK
  <2> QED BY <1>2, <2>1, <2>2, <2>3, QuietSaves DEF Submits
<1>3. CASE Ingest(j)
  <2>1. PICK s \in Statuses : Saving(j, s)
    BY <1>3 DEF Ingest, Statuses
  <2>2. SavedAs(work[j], s) \in Work /\ work' = [work EXCEPT ![j] = SavedAs(work[j], s)]
    BY <1>1, <2>1, SavingSaves
  <2>3. SavedAs(work[j], s).at = "number" /\ SavedAs(work[j], s).attempt > 0 /\ work[j].at = "ingest"
    BY <1>1, <1>3, JobsFields DEF Ingest, SavedAs, JobOK
  <2> QED BY <1>3, <2>2, <2>3, QuietSaves DEF Ingest
<1>4. CASE StartAttempt(j)
  <2> DEFINE n == work[j].attempt + 1
             s == IF n > MAX_ATTEMPTS THEN "failed" ELSE "processing"
             w == JobWork("number", s, n, work[j].number)
  <2>1. [[[work[j] EXCEPT !.at = "number"] EXCEPT !.attempt = n] EXCEPT !.status = s] = w
    BY <1>1, WorkStarts
  <2>4. w \in Work
    BY <1>1 DEF Work, Stages, Statuses, JobWork
  <2>2. work' = [work EXCEPT ![j] = [[[work[j] EXCEPT !.at = "number"] EXCEPT !.attempt = n] EXCEPT !.status = s]]
    BY <1>1, <1>4 DEF StartAttempt, LedgerTypes
  <2>3. work' = [work EXCEPT ![j] = w] /\ w.at = "number" /\ w.attempt > 0 /\ work[j].at = "attempt"
    <3>1. w.at = "number" /\ w.attempt = n
      BY JobsFields
    <3>2. n > 0 /\ work[j].at = "attempt"
      BY <1>1, <1>4 DEF StartAttempt
    <3> HIDE DEF n, s, w
    <3> QED BY <2>1, <2>2, <3>1, <3>2
  <2>5. UNCHANGED <<sequence, index, record, totals, letters, reader, uploads, removed>>
    BY <1>4 DEF StartAttempt
  <2> HIDE DEF n, s, w
  <2> QED BY <2>3, <2>4, <2>5, QuietSaves
<1>5. CASE Enqueue(j)
  BY <1>5, QuietAlong DEF Enqueue
<1>6. CASE Execute(j)
  BY <1>6, QuietAlong DEF Execute
<1>7. CASE Retry(j)
  BY <1>7, QuietAlong DEF Retry
<1>8. CASE Raises(j)
  BY <1>8, QuietAlong DEF Raises
<1> QED BY <1>2, <1>3, <1>4, <1>5, <1>6, <1>7, <1>8

\* What a step that leaves the totals and the letters alone has to show of the counts.
LEMMA SameBooks ==
  ASSUME LedgerInv, NEW j \in Jobs, NEW w, work[j].at # "over", UNCHANGED <<totals, letters>>,
         Opens(w) <= Opens(work[j]), Buries(w) <= Buries(work[j])
  PROVE  /\ totals' \in [Outcomes -> Nat] /\ totals.failed <= totals'.failed
         /\ totals'.done + totals'.failed + Opens(w) + totals.submitted
              <= totals.done + totals.failed + totals'.submitted + Opens(work[j])
         /\ Len(letters') + Buries(w) + totals.failed <= Len(letters) + totals'.failed + Buries(work[j])
         /\ letters' \in Seq(Jobs) /\ Len(letters') <= MAX_LETTERS /\ Len(letters) <= Len(letters')
         /\ \A i \in DOMAIN letters' :
              letters'[i] # j => \E k \in DOMAIN letters : letters[k] = letters'[i]
         /\ ~(\E i \in DOMAIN letters' : letters'[i] = j)
<1>1. /\ totals \in [Outcomes -> Nat] /\ letters \in Seq(Jobs) /\ Len(letters) \in Nat
      /\ totals' = totals /\ letters' = letters /\ Len(letters) <= MAX_LETTERS
  BY DEF LedgerInv, LedgerTypes, LetterInv
<1>2. totals.done + totals.failed \in Nat /\ totals.failed \in Nat /\ totals.submitted \in Nat
  BY <1>1, TotalTypes, Zenon
<1>3. Opens(w) \in Nat /\ Opens(work[j]) \in Nat /\ Buries(w) \in Nat /\ Buries(work[j]) \in Nat
  BY DEF Opens, Buries
<1>4. \A a, f, o, ox \in Nat : ox <= o => a + ox + f <= a + f + o
  OBVIOUS
<1>5. /\ totals.done + totals.failed + Opens(w) + totals.submitted
           <= totals.done + totals.failed + totals.submitted + Opens(work[j])
      /\ Len(letters) + Buries(w) + totals.failed <= Len(letters) + totals.failed + Buries(work[j])
  BY <1>1, <1>2, <1>3, <1>4, Zenon
<1>6. ~(\E i \in DOMAIN letters : letters[i] = j)
  BY DEF LedgerInv, LetterInv
<1> QED BY <1>1, <1>2, <1>5, <1>6

LEMMA TakeNumberStep ==
  ASSUME LedgerInv, NEW j \in Jobs, TakeNumber(j)
  PROVE  LedgerInv'
<1> DEFINE n == sequence + 1
           w == JobWork("store", work[j].status, work[j].attempt, n)
<1>1. /\ LedgerTypes /\ work[j] \in Work /\ index[j] \in Nat /\ record[j] \in Statuses \cup {"gone"}
      /\ JobOK(j, work[j], index[j], record[j], sequence, Uploaded) /\ sequence \in Nat
      /\ work[j].attempt \in Nat /\ work[j].status \in Statuses
  BY JobFacts
<1>2. /\ work[j].at = "number" /\ sequence' = n /\ UNCHANGED <<totals, letters>>
      /\ UNCHANGED <<reader, removed>>
  BY DEF TakeNumber
<1>3. w \in Work
  BY <1>1 DEF Work, Stages, JobWork
<1>4. work' = [work EXCEPT ![j] = w]
  <2>1. [[work[j] EXCEPT !.at = "store"] EXCEPT !.number = n] = w
    BY <1>1, WorkNumbers
  <2>2. work' = [work EXCEPT ![j] = [[work[j] EXCEPT !.at = "store"] EXCEPT !.number = n]]
    BY <1>1 DEF TakeNumber, LedgerTypes
  <2> QED BY <2>1, <2>2
<1>5. w.at = "store" /\ w.status = work[j].status /\ w.attempt = work[j].attempt /\ w.number = n
  BY JobsFields
<1> HIDE DEF w
<1>6. index' = [index EXCEPT ![j] = index[j]] /\ record' = [record EXCEPT ![j] = record[j]]
  BY <1>1 DEF TakeNumber, LedgerTypes
<1>7. Opens(w) <= Opens(work[j]) /\ Buries(w) <= Buries(work[j])
  BY <1>2, <1>5 DEF Opens, Buries, OpenJob, Saves
<1>8. Num(w, index[j]) = IF index[j] > 0 THEN index[j] ELSE n
  BY <1>5 DEF Num
<1>9. \/ uploads' = uploads /\ j \in Uploaded
      \/ uploads' = Append(uploads, j) /\ j \notin Uploaded
  <2>1. ToSet(uploads) = Uploaded
    BY DEF ToSet, Uploaded
  <2> QED BY <2>1 DEF TakeNumber
<1>10. j \in Uploaded => index[j] > 0
  BY <1>1, <1>2 DEF JobOK, OpenJob, Saves
<1>11. j \notin Uploaded => index[j] = 0
  BY <1>1 DEF JobOK, Num
<1>12. j \in Uploaded'
  BY <1>1, <1>9, UploadedGrows DEF LedgerTypes, Uploaded
<1>13. /\ n \in Nat /\ sequence <= n /\ index[j] <= sequence /\ sequence < n /\ index[j] <= n
  BY <1>1 DEF JobOK
<1>14. JobOK(j, w, index[j], record[j], sequence', Uploaded')
  BY <1>1, <1>2, <1>5, <1>8, <1>12, <1>13 DEF JobOK, OpenJob, Saves
<1>15. \/ uploads' = uploads /\ (Num(w, index[j]) = 0 \/ Num(w, index[j]) = Number(j))
       \/ uploads' = Append(uploads, j) /\ j \notin Uploaded /\ Num(w, index[j]) > sequence
  BY <1>8, <1>9, <1>10, <1>11, <1>13 DEF Number, Num
<1>16. sequence' \in Nat /\ sequence <= sequence'
  BY <1>2, <1>13
<1>17. work[j].at # "over"
  BY <1>2
<1>18. JobStep(j, w, index[j], record[j])
  BY <1>1, <1>2, <1>3, <1>4, <1>6, <1>7, <1>14, <1>15, <1>16, <1>17, SameBooks, Zenon DEF JobStep
<1> QED BY <1>18, JobSteps

LEMMA StoreRecordStep ==
  ASSUME LedgerInv, NEW j \in Jobs, StoreRecord(j)
  PROVE  LedgerInv'
<1> DEFINE at == IF work[j].status = "processing" THEN "ingest" ELSE "count"
           w == Along(work[j], at)
           x == IF index[j] = 0 THEN work[j].number ELSE index[j]
           r == work[j].status
<1>1. /\ LedgerTypes /\ work[j] \in Work /\ index[j] \in Nat /\ record[j] \in Statuses \cup {"gone"}
      /\ JobOK(j, work[j], index[j], record[j], sequence, Uploaded) /\ sequence \in Nat
      /\ work[j].attempt \in Nat /\ work[j].status \in Statuses /\ work[j].number \in Nat
  BY JobFacts
<1>2. /\ work[j].at = "store" /\ UNCHANGED <<totals, letters>> /\ UNCHANGED <<reader, removed>>
      /\ sequence' = sequence /\ uploads' = uploads /\ record' = [record EXCEPT ![j] = r]
      /\ Proceeds(j, at) /\ index' = Scored(j)
  BY DEF StoreRecord
<1>3. at \in Stages /\ at # "over"
  BY DEF Stages
<1>4. w \in Work /\ work' = [work EXCEPT ![j] = w]
  BY <1>1, <1>2, <1>3, ProceedsAlong, Zenon
<1>5. w.at = at /\ w.status = r /\ w.attempt = work[j].attempt
  BY <1>3, JobsFields DEF Along
<1> HIDE DEF w
<1>6. index' = [index EXCEPT ![j] = x] /\ x \in Nat
  BY <1>1, <1>2 DEF Scored, LedgerTypes
<1>7. Opens(w) <= Opens(work[j]) /\ Buries(w) <= Buries(work[j])
  BY <1>1, <1>2, <1>5 DEF Opens, Buries, OpenJob, Saves, JobOK
<1>8. x > 0 /\ Num(w, x) = x /\ x = Number(j)
  BY <1>1, <1>2 DEF JobOK, Num, Number
<1>9. Uploaded' = Uploaded
  BY <1>2 DEF Uploaded
<1>10. x <= sequence /\ j \in Uploaded
  BY <1>1, <1>8 DEF JobOK, Number
<1>11. JobOK(j, w, x, r, sequence, Uploaded)
  BY <1>1, <1>2, <1>5, <1>8, <1>10 DEF JobOK, OpenJob, Saves, Statuses
<1>12. JobOK(j, w, x, r, sequence', Uploaded')
  BY <1>2, <1>9, <1>11, Zenon
<1>13. sequence' \in Nat /\ sequence <= sequence' /\ r \in Statuses \cup {"gone"}
  BY <1>1, <1>2
<1>14. uploads' = uploads /\ (Num(w, x) = 0 \/ Num(w, x) = Number(j)) /\ work[j].at # "over"
  BY <1>2, <1>8
<1>15. JobStep(j, w, x, r)
  BY <1>2, <1>4, <1>6, <1>7, <1>12, <1>13, <1>14, SameBooks, Zenon DEF JobStep
<1> QED BY <1>15, JobSteps

LEMMA CountStep ==
  ASSUME LedgerInv, NEW j \in Jobs, Count(j)
  PROVE  LedgerInv'
<1> DEFINE o == Outcome(j)
           w == Along(work[j], Then[o])
<1>1. /\ LedgerTypes /\ work[j] \in Work /\ index[j] \in Nat /\ record[j] \in Statuses \cup {"gone"}
      /\ JobOK(j, work[j], index[j], record[j], sequence, Uploaded) /\ sequence \in Nat
      /\ work[j].attempt \in Nat /\ work[j].status \in Statuses
  BY JobFacts
<1>2. /\ work[j].at = "count" /\ totals' = [totals EXCEPT ![o] = @ + 1]
      /\ UNCHANGED <<sequence, index, record, letters, reader, uploads, removed>>
      /\ Proceeds(j, Then[o])
  BY DEF Count
<1>3. /\ o \in Outcomes /\ Then[o] \in {"enqueue", "sleep", "over", "bury"}
      /\ o = "submitted" <=> work[j].attempt = 0
      /\ o = "submitted" => Then[o] = "enqueue"
      /\ o = "retried" => Then[o] = "sleep"
      /\ o = "done" => Then[o] = "over"
      /\ o = "failed" => Then[o] = "bury" /\ record[j] = "failed"
  BY <1>1, <1>2 DEF Outcome, Then, Outcomes, Statuses, JobOK, Saves
<1>4. w \in Work /\ work' = [work EXCEPT ![j] = w]
  BY <1>1, <1>2, <1>3, ProceedsAlong DEF Stages
<1>5. w.at = Then[o]
  BY JobsFields DEF Along, Doing
<1> HIDE DEF w
<1>6. index' = [index EXCEPT ![j] = index[j]] /\ record' = [record EXCEPT ![j] = record[j]]
  BY <1>1, <1>2 DEF LedgerTypes
<1>7. /\ Opens(w) = (IF o \in {"submitted", "retried"} THEN 1 ELSE 0)
      /\ Opens(work[j]) = (IF o = "submitted" THEN 0 ELSE 1)
      /\ Buries(w) = (IF o = "failed" THEN 1 ELSE 0) /\ Buries(work[j]) = 0
  BY <1>1, <1>2, <1>3, <1>5 DEF Opens, Buries, OpenJob, Saves, Outcomes
<1>8. /\ totals \in [Outcomes -> Nat] /\ totals' \in [Outcomes -> Nat]
      /\ \A p \in Outcomes : totals'[p] = IF p = o THEN totals[p] + 1 ELSE totals[p]
  BY <1>1, <1>2, <1>3 DEF LedgerTypes
<1>9. /\ totals'.done = (IF o = "done" THEN totals.done + 1 ELSE totals.done)
      /\ totals'.failed = (IF o = "failed" THEN totals.failed + 1 ELSE totals.failed)
      /\ totals'.submitted = (IF o = "submitted" THEN totals.submitted + 1 ELSE totals.submitted)
  BY <1>8 DEF Outcomes
<1>10. totals.done \in Nat /\ totals.failed \in Nat /\ totals.submitted \in Nat
  BY <1>8, TotalTypes, Zenon
<1>11. totals'.done + totals'.failed + Opens(w) + totals.submitted
         <= totals.done + totals.failed + totals'.submitted + Opens(work[j])
  BY <1>3, <1>7, <1>9, <1>10 DEF Outcomes
<1>12. letters \in Seq(Jobs) /\ Len(letters) \in Nat /\ letters' = letters
  BY <1>1, <1>2 DEF LedgerTypes
<1>13. /\ Len(letters') + Buries(w) + totals.failed <= Len(letters) + totals'.failed + Buries(work[j])
       /\ totals.failed <= totals'.failed /\ Len(letters) <= Len(letters')
  <2>1. PICK n : n = Len(letters)
    OBVIOUS
  <2>2. n \in Nat /\ Len(letters') = n
    BY <1>12, <2>1
  <2>3. n + Buries(w) + totals.failed <= n + totals'.failed + Buries(work[j]) /\ totals.failed <= totals'.failed
    BY <1>7, <1>9, <1>10, <2>2
  <2> QED BY <2>1, <2>2, <2>3
<1>14. Len(letters') <= MAX_LETTERS /\ ~(\E i \in DOMAIN letters' : letters'[i] = j)
  BY <1>2, <1>12 DEF LedgerInv, LetterInv
<1>15. \A i \in DOMAIN letters' : letters'[i] # j => \E k \in DOMAIN letters : letters[k] = letters'[i]
  BY <1>12
<1>16. Num(w, index[j]) = index[j] /\ Number(j) = index[j]
  BY <1>1, <1>2, <1>3, <1>5 DEF Num, Number
<1>17. Uploaded' = Uploaded /\ sequence' = sequence /\ sequence' \in Nat /\ sequence <= sequence'
  BY <1>1, <1>2 DEF Uploaded
<1>23. /\ Num(w, index[j]) <= sequence /\ index[j] <= sequence /\ index[j] > 0
       /\ Num(w, index[j]) > 0 => j \in Uploaded
  BY <1>1, <1>2, <1>16 DEF JobOK, Number
<1>24. w.at \in {"enqueue", "sleep", "over", "bury"} /\ (w.at = "bury" => record[j] = "failed")
  BY <1>3, <1>5 DEF Outcomes
<1>18. JobOK(j, w, index[j], record[j], sequence, Uploaded)
  BY <1>23, <1>24 DEF JobOK, OpenJob, Saves
<1>19. JobOK(j, w, index[j], record[j], sequence', Uploaded')
  BY <1>17, <1>18, Zenon
<1>20. /\ uploads' = uploads /\ (Num(w, index[j]) = 0 \/ Num(w, index[j]) = Number(j))
       /\ UNCHANGED <<reader, removed>>
  BY <1>2, <1>16
<1>21. letters' \in Seq(Jobs)
  BY <1>12
<1>22. JobStep(j, w, index[j], record[j])
  BY <1>1, <1>4, <1>6, <1>8, <1>11, <1>13, <1>14, <1>15, <1>17, <1>19, <1>20, <1>21, Zenon DEF JobStep
<1> QED BY <1>22, JobSteps

\* What push leaves of the letters.
LEMMA LettersPushed ==
  ASSUME NEW S, NEW s \in Seq(S), NEW j \in S, NEW m \in Nat \ {0}, Len(s) <= m, NEW t,
         t = SubSeq(<<j>> \o s, 1, IF Len(s) < m THEN Len(s) + 1 ELSE m)
  PROVE  /\ t \in Seq(S) /\ Len(t) <= m /\ Len(s) <= Len(t) /\ Len(t) <= Len(s) + 1
         /\ \A i \in DOMAIN t : t[i] # j => \E k \in DOMAIN s : s[k] = t[i]
<1>1. PICK u : u = <<j>> \o s
  OBVIOUS
<1>2. /\ u \in Seq(S) /\ Len(u) = Len(s) + 1 /\ Len(s) \in Nat
      /\ u[1] = j /\ \A i \in 2..(Len(s) + 1) : u[i] = s[i - 1]
  BY <1>1
<1>3. PICK n : n = IF Len(s) < m THEN Len(s) + 1 ELSE m
  OBVIOUS
<1>4. n \in 1..Len(u) /\ n <= m /\ Len(s) <= n /\ n <= Len(s) + 1
  BY <1>2, <1>3
<1>5. t = SubSeq(u, 1, n)
  BY <1>1, <1>3
<1>6. t \in Seq(S) /\ Len(t) = n /\ DOMAIN t = 1..n /\ \A i \in 1..n : t[i] = u[i]
  BY <1>2, <1>4, <1>5
<1>7. ASSUME NEW i \in DOMAIN t, t[i] # j
      PROVE  \E k \in DOMAIN s : s[k] = t[i]
  <2>1. i \in 2..(Len(s) + 1) /\ t[i] = s[i - 1]
    BY <1>2, <1>4, <1>6, <1>7
  <2>2. i - 1 \in DOMAIN s
    BY <1>2, <2>1
  <2> QED BY <2>1, <2>2
<1> QED BY <1>4, <1>6, <1>7

LEMMA BuryStep ==
  ASSUME LedgerInv, NEW j \in Jobs, Bury(j)
  PROVE  LedgerInv'
<1> DEFINE w == Doing("over")
<1>1. /\ LedgerTypes /\ work[j] \in Work /\ index[j] \in Nat /\ record[j] \in Statuses \cup {"gone"}
      /\ JobOK(j, work[j], index[j], record[j], sequence, Uploaded) /\ sequence \in Nat
  BY JobFacts
<1>2. /\ work[j].at = "bury"
      /\ UNCHANGED <<sequence, index, record, totals, reader, uploads, removed>>
      /\ Proceeds(j, "over")
      /\ letters' = SubSeq(<<j>> \o letters, 1,
                           IF Len(letters) < MAX_LETTERS THEN Len(letters) + 1 ELSE MAX_LETTERS)
  BY DEF Bury
<1>3. w \in Work /\ work' = [work EXCEPT ![j] = w]
  BY <1>1, <1>2, ProceedsAlong DEF Stages, Along
<1>4. w.at = "over"
  BY DEF Doing
<1> HIDE DEF w
<1>5. letters \in Seq(Jobs) /\ Len(letters) <= MAX_LETTERS /\ Len(letters) \in Nat
  BY <1>1 DEF LedgerTypes, LedgerInv, LetterInv
<1>6. /\ letters' \in Seq(Jobs) /\ Len(letters') <= MAX_LETTERS /\ Len(letters) <= Len(letters')
      /\ Len(letters') <= Len(letters) + 1
      /\ \A i \in DOMAIN letters' : letters'[i] # j => \E k \in DOMAIN letters : letters[k] = letters'[i]
  BY <1>2, <1>5, LettersPushed, LedgerAssumption
<1>7. Opens(w) = 0 /\ Opens(work[j]) = 0 /\ Buries(w) = 0 /\ Buries(work[j]) = 1
  BY <1>2, <1>4 DEF Opens, Buries, OpenJob, Saves
<1>8. totals \in [Outcomes -> Nat] /\ totals' = totals
  BY <1>1, <1>2 DEF LedgerTypes
<1>9. totals.done \in Nat /\ totals.failed \in Nat /\ totals.submitted \in Nat
  BY <1>8, TotalTypes, Zenon
<1>10. /\ totals'.done + totals'.failed + Opens(w) + totals.submitted
            <= totals.done + totals.failed + totals'.submitted + Opens(work[j])
       /\ totals.failed <= totals'.failed /\ totals' \in [Outcomes -> Nat]
  BY <1>7, <1>8, <1>9
<1>11. Len(letters') + Buries(w) + totals.failed <= Len(letters) + totals'.failed + Buries(work[j])
  <2>1. PICK n : n = Len(letters)
    OBVIOUS
  <2>2. PICK m : m = Len(letters')
    OBVIOUS
  <2>3. n \in Nat /\ m \in Nat /\ m <= n + 1
    BY <1>5, <1>6, <2>1, <2>2
  <2>4. m + Buries(w) + totals.failed <= n + totals.failed + Buries(work[j])
    BY <1>7, <1>9, <2>3
  <2> QED BY <1>8, <2>1, <2>2, <2>4
<1>12. index' = [index EXCEPT ![j] = index[j]] /\ record' = [record EXCEPT ![j] = record[j]]
  BY <1>1, <1>2 DEF LedgerTypes
<1>13. Num(w, index[j]) = index[j] /\ Number(j) = index[j] /\ record[j] = "failed"
  BY <1>1, <1>2, <1>4 DEF Num, Number, JobOK
<1>14. Uploaded' = Uploaded /\ sequence' = sequence /\ sequence' \in Nat /\ sequence <= sequence'
  BY <1>1, <1>2 DEF Uploaded
<1>20. Num(w, index[j]) <= sequence /\ index[j] <= sequence /\ (Num(w, index[j]) > 0 => j \in Uploaded)
  BY <1>1, <1>13 DEF JobOK, Number
<1>15. JobOK(j, w, index[j], record[j], sequence, Uploaded)
  BY <1>4, <1>20 DEF JobOK, OpenJob, Saves
<1>16. JobOK(j, w, index[j], record[j], sequence', Uploaded')
  BY <1>14, <1>15, Zenon
<1>17. /\ uploads' = uploads /\ (Num(w, index[j]) = 0 \/ Num(w, index[j]) = Number(j))
       /\ UNCHANGED <<reader, removed>>
  BY <1>2, <1>13
<1>18. record[j] \in {"failed", "gone"}
  BY <1>13
<1>19. JobStep(j, w, index[j], record[j])
  BY <1>1, <1>3, <1>4, <1>6, <1>10, <1>11, <1>12, <1>14, <1>16, <1>17, <1>18, Zenon DEF JobStep
<1> QED BY <1>19, JobSteps

LEMMA ExpireStep ==
  ASSUME LedgerInv, NEW j \in Jobs, ExpireJob(j)
  PROVE  LedgerInv'
<1> DEFINE w == work[j]
<1>1. /\ LedgerTypes /\ work[j] \in Work /\ index[j] \in Nat
      /\ JobOK(j, work[j], index[j], record[j], sequence, Uploaded) /\ sequence \in Nat
  BY JobFacts
<1>2. /\ work[j].at = "over" /\ record' = [record EXCEPT ![j] = "gone"]
      /\ UNCHANGED <<sequence, index, totals, letters, work, reader, uploads, removed>>
  BY DEF ExpireJob
<1>3. index' = [index EXCEPT ![j] = index[j]] /\ work' = [work EXCEPT ![j] = w]
  BY <1>1, <1>2 DEF LedgerTypes
<1>4. Opens(w) \in Nat /\ Buries(w) \in Nat
  BY DEF Opens, Buries
<1>5. /\ totals \in [Outcomes -> Nat] /\ letters \in Seq(Jobs) /\ Len(letters) \in Nat
      /\ totals' = totals /\ letters' = letters /\ Len(letters) <= MAX_LETTERS
  BY <1>1, <1>2 DEF LedgerInv, LedgerTypes, LetterInv
<1>6. totals.done + totals.failed \in Nat /\ totals.failed \in Nat /\ totals.submitted \in Nat
  BY <1>5, TotalTypes, Zenon
<1>7. \A a, f, o \in Nat : a + o + f <= a + f + o
  OBVIOUS
<1>8. /\ totals.done + totals.failed + Opens(w) + totals.submitted
           <= totals.done + totals.failed + totals.submitted + Opens(w)
      /\ Len(letters) + Buries(w) + totals.failed <= Len(letters) + totals.failed + Buries(w)
  BY <1>4, <1>5, <1>6, <1>7, Zenon
<1>9. /\ totals'.done + totals'.failed + Opens(w) + totals.submitted
           <= totals.done + totals.failed + totals'.submitted + Opens(work[j])
      /\ Len(letters') + Buries(w) + totals.failed <= Len(letters) + totals'.failed + Buries(work[j])
      /\ totals.failed <= totals'.failed /\ Len(letters) <= Len(letters') /\ Len(letters') <= MAX_LETTERS
      /\ totals' \in [Outcomes -> Nat] /\ letters' \in Seq(Jobs)
  BY <1>5, <1>6, <1>8
<1>10. \A i \in DOMAIN letters' : letters'[i] # j => \E k \in DOMAIN letters : letters[k] = letters'[i]
  BY <1>5
<1>11. Uploaded' = Uploaded /\ sequence' = sequence /\ sequence' \in Nat /\ sequence <= sequence'
  BY <1>1, <1>2 DEF Uploaded
<1>12. JobOK(j, w, index[j], "gone", sequence, Uploaded)
  BY <1>1, <1>2 DEF JobOK
<1>13. JobOK(j, w, index[j], "gone", sequence', Uploaded')
  BY <1>11, <1>12, Zenon
<1>14. /\ uploads' = uploads /\ Num(w, index[j]) = Number(j) /\ UNCHANGED <<reader, removed>>
       /\ "gone" \in Statuses \cup {"gone"} /\ "gone" \in {"failed", "gone"}
  BY <1>2 DEF Number
<1>15. JobStep(j, w, index[j], "gone")
  BY <1>1, <1>2, <1>3, <1>9, <1>10, <1>11, <1>13, <1>14, Zenon DEF JobStep
<1> QED BY <1>15, JobSteps

\* With the process its tasks end.
LEMMA ProcessEndsStep ==
  ASSUME LedgerInv, ProcessEnds
  PROVE  LedgerInv'
<1>1. /\ LedgerTypes /\ PlaceInv /\ CountInv /\ LetterInv /\ Reading
      /\ work' = [j \in Jobs |-> IF work[j].at = "new" THEN work[j] ELSE Doing("over")]
      /\ UNCHANGED <<sequence, index, record, totals, letters, reader, uploads, removed>>
  BY DEF LedgerInv, ProcessEnds
<1>2. \A j \in Jobs : /\ work[j] \in Work /\ index[j] \in Nat /\ sequence \in Nat
                      /\ JobOK(j, work[j], index[j], record[j], sequence, Uploaded)
  BY JobFacts
<1>3. ASSUME NEW j \in Jobs
      PROVE  /\ work'[j] \in Work /\ (work'[j].at = "over" \/ (work'[j] = work[j] /\ work[j].at = "new"))
             /\ work[j].at = "over" => work'[j].at = "over"
             /\ Num(work'[j], index[j]) = index[j]
  <2>1. Doing("over") \in Work /\ Doing("over").at = "over"
    BY DEF Doing, Work, Stages, Statuses
  <2>2. work'[j] = IF work[j].at = "new" THEN work[j] ELSE Doing("over")
    BY <1>1
  <2> QED BY <1>2, <2>1, <2>2 DEF Num
<1>4. LedgerTypes'
  <2>1. work' \in [Jobs -> Work]
    BY <1>1, <1>3
  <2> QED BY <1>1, <2>1 DEF LedgerTypes
<1>5. Uploaded' = Uploaded
  BY <1>1 DEF Uploaded
<1>6. ASSUME NEW j \in Jobs
      PROVE  JobInv(j)'
  <2>1. /\ index[j] <= sequence /\ (index[j] > 0 => j \in Uploaded)
        /\ work[j].at = "new" => j \notin Uploaded /\ work[j].attempt = 0
    BY <1>2 DEF JobOK, Num
  <2>2. work'[j].at = "over" \/ (work'[j] = work[j] /\ work[j].at = "new")
    BY <1>3
  <2>3. JobOK(j, work'[j], index[j], record[j], sequence, Uploaded)
    BY <1>2, <1>3, <2>1, <2>2 DEF JobOK, OpenJob, Saves
  <2> QED BY <1>1, <1>5, <2>3, Zenon DEF JobInv
<1>7. PlaceInv'
  <2>1. ASSUME NEW j \in Jobs
        PROVE  Number(j)' = index[j] /\ (index[j] > 0 => Number(j) = index[j])
    BY <1>1, <1>3 DEF Number, Num
  <2>2. \A i \in DOMAIN uploads : uploads[i] \in Jobs
    BY <1>1 DEF LedgerTypes
  <2>3. \A j \in Jobs : index[j] \in Nat
    BY <1>2
  <2> QED BY <1>1, <2>1, <2>2, <2>3 DEF PlaceInv, PlacedApart
<1>8. CountInv'
  <2>1. Live' = {} /\ Burying' = {}
    BY <1>3, <1>2 DEF Live, Burying, OpenJob, Saves
  <2>2. IsFiniteSet({}) /\ Cardinality({}) = 0
    BY FS_EmptySet
  <2>3. /\ Cardinality(Live) \in Nat /\ Cardinality(Burying) \in Nat
    BY <1>1, FS_CardinalityType DEF CountInv
  <2>4. /\ totals.done + totals.failed \in Nat /\ totals.failed \in Nat /\ totals.submitted \in Nat
    BY <1>1, TotalTypes DEF LedgerTypes
  <2>5. letters \in Seq(Jobs) /\ Len(letters) \in Nat /\ removed \in Nat
    BY <1>1 DEF LedgerTypes
  <2>6. Len(letters) + removed \in Nat
    BY <2>5
  <2>7. \A a, c, f \in Nat : a + c <= f => a + 0 <= f
    OBVIOUS
  <2>8. /\ totals.done + totals.failed + 0 <= totals.submitted
        /\ Len(letters) + removed + 0 <= totals.failed
    BY <1>1, <2>3, <2>4, <2>6, <2>7, Zenon DEF CountInv
  <2> QED BY <1>1, <2>1, <2>2, <2>8 DEF CountInv
<1>9. LetterInv'
  <2>1. \A i \in DOMAIN letters : letters[i] \in Jobs
    BY <1>1 DEF LedgerTypes
  <2> QED BY <1>1, <1>3, <2>1 DEF LetterInv
<1>10. Reading'
  BY <1>1, SameReading
<1> QED BY <1>4, <1>6, <1>7, <1>8, <1>9, <1>10 DEF LedgerInv

\* What has a place in the index was uploaded, and later uploads have later places.
LEMMA IndexFollowsUploads ==
  ASSUME LedgerInv, NEW j \in Jobs, NEW k \in Jobs, index[j] > index[k], index[k] > 0
  PROVE  \E p, q \in DOMAIN uploads : q < p /\ uploads[p] = j /\ uploads[q] = k
<1>1. /\ index[j] \in Nat /\ index[k] \in Nat /\ uploads \in Seq(Jobs)
      /\ JobOK(j, work[j], index[j], record[j], sequence, Uploaded)
      /\ JobOK(k, work[k], index[k], record[k], sequence, Uploaded)
  BY JobFacts DEF LedgerInv, LedgerTypes
<1>2. Number(j) = index[j] /\ Number(k) = index[k] /\ j \in Uploaded /\ k \in Uploaded
  BY <1>1 DEF Number, Num, JobOK
<1>3. PICK p \in DOMAIN uploads : uploads[p] = j
  BY <1>2 DEF Uploaded
<1>4. PICK q \in DOMAIN uploads : uploads[q] = k
  BY <1>2 DEF Uploaded
<1>5. p \in Nat /\ q \in Nat /\ p # q
  BY <1>1, <1>3, <1>4
<1>6. ~(p < q)
  BY <1>1, <1>2, <1>3, <1>4 DEF LedgerInv, PlaceInv, PlacedApart
<1> QED BY <1>3, <1>4, <1>5, <1>6

LEMMA UploadedFinite ==
  ASSUME uploads \in Seq(Jobs)
  PROVE  IsFiniteSet(Uploaded)
<1>1. 1 \in Int /\ Len(uploads) \in Int
  OBVIOUS
<1>2. IsFiniteSet(1..Len(uploads))
  BY <1>1, FS_Interval
<1>3. uploads \in Surjection(1..Len(uploads), Uploaded)
  BY DEF Surjection, Uploaded
<1> QED BY <1>2, <1>3, FS_Surjection

InIndex == {j \in Jobs : index[j] > 0}
Rank(j) == Cardinality(Newer(j))

LEMMA Ranks ==
  ASSUME LedgerInv
  PROVE  /\ IsFiniteSet(InIndex) /\ Cardinality(InIndex) \in Nat
         /\ \A j \in InIndex : Rank(j) \in 0..(Cardinality(InIndex) - 1)
         /\ \A j, k \in InIndex : index[j] > index[k] <=> Rank(j) < Rank(k)
         /\ \A j, k \in InIndex : Rank(j) = Rank(k) => j = k
<1>1. /\ uploads \in Seq(Jobs) /\ \A j \in Jobs : index[j] \in Nat
  BY DEF LedgerInv, LedgerTypes
<1>2. InIndex \subseteq Uploaded
  <2>1. SUFFICES ASSUME NEW j \in InIndex PROVE j \in Uploaded
    OBVIOUS
  <2>2. JobOK(j, work[j], index[j], record[j], sequence, Uploaded)
    BY JobFacts DEF InIndex
  <2> QED BY <2>2 DEF InIndex, JobOK, Num
<1>3. IsFiniteSet(InIndex) /\ Cardinality(InIndex) \in Nat
  BY <1>1, <1>2, UploadedFinite, FS_Subset, FS_CardinalityType
<1>4. \A j \in InIndex : Newer(j) \subseteq InIndex /\ j \notin Newer(j)
  BY <1>1 DEF Newer, InIndex
<1>5. \A j \in InIndex : IsFiniteSet(Newer(j)) /\ Rank(j) \in Nat
  BY <1>3, <1>4, FS_Subset, FS_CardinalityType DEF Rank
<1>6. ASSUME NEW j \in InIndex PROVE Rank(j) < Cardinality(InIndex)
  <2>1. Newer(j) \subseteq InIndex /\ Newer(j) # InIndex
    BY <1>4
  <2>2. /\ Cardinality(Newer(j)) <= Cardinality(InIndex)
        /\ Cardinality(InIndex) = Cardinality(Newer(j)) => InIndex = Newer(j)
    BY <1>3, <2>1, FS_Subset
  <2> QED BY <1>3, <1>5, <2>1, <2>2 DEF Rank
<1>7. ASSUME NEW j \in InIndex, NEW k \in InIndex, index[j] > index[k] PROVE Rank(j) < Rank(k)
  <2>1. Newer(j) \subseteq Newer(k) /\ j \in Newer(k) /\ j \notin Newer(j)
    BY <1>1, <1>7 DEF Newer, InIndex
  <2>2. Newer(j) # Newer(k)
    BY <2>1
  <2> QED BY <1>5, <2>1, <2>2, FS_Subset DEF Rank
<1>8. ASSUME NEW j \in InIndex, NEW k \in InIndex, index[j] = index[k] PROVE j = k
  <2>1. /\ JobOK(j, work[j], index[j], record[j], sequence, Uploaded)
        /\ JobOK(k, work[k], index[k], record[k], sequence, Uploaded)
        /\ j \in Jobs /\ k \in Jobs
    BY JobFacts DEF InIndex
  <2>2. Number(j) = index[j] /\ Number(k) = index[k] /\ index[j] > 0 /\ index[j] \in Nat
    BY <1>1, <1>8, <2>1 DEF Number, Num, InIndex
  <2>3. PICK p \in DOMAIN uploads : uploads[p] = j
    BY <1>2 DEF Uploaded
  <2>4. PICK q \in DOMAIN uploads : uploads[q] = k
    BY <1>2 DEF Uploaded
  <2>5. p \in Nat /\ q \in Nat
    BY <1>1, <2>3, <2>4
  <2>6. ~(p < q) /\ ~(q < p)
    BY <1>8, <2>2, <2>3, <2>4 DEF LedgerInv, PlaceInv, PlacedApart
  <2> QED BY <2>3, <2>4, <2>5, <2>6
<1>9. ASSUME NEW j \in InIndex, NEW k \in InIndex
      PROVE  (index[j] > index[k] <=> Rank(j) < Rank(k)) /\ (Rank(j) = Rank(k) => j = k)
  <2>1. index[j] \in Nat /\ index[k] \in Nat /\ Rank(j) \in Nat /\ Rank(k) \in Nat
    BY <1>1, <1>5 DEF InIndex
  <2>2. /\ index[j] > index[k] => Rank(j) < Rank(k)
        /\ index[k] > index[j] => Rank(k) < Rank(j)
        /\ index[j] = index[k] => j = k
    BY <1>7, <1>8
  <2> QED BY <2>1, <2>2
<1>10. \A j \in InIndex : Rank(j) \in 0..(Cardinality(InIndex) - 1)
  BY <1>3, <1>5, <1>6
<1> QED BY <1>3, <1>9, <1>10

\* Every place of a listing is somebody's.
LEMMA RanksTaken ==
  ASSUME LedgerInv, NEW n \in 0..(Cardinality(InIndex) - 1)
  PROVE  \E j \in InIndex : Rank(j) = n
<1> DEFINE f == [j \in InIndex |-> Rank(j)]
           T == 0..(Cardinality(InIndex) - 1)
<1>1. /\ IsFiniteSet(InIndex) /\ Cardinality(InIndex) \in Nat
      /\ \A j \in InIndex : Rank(j) \in T
      /\ \A j, k \in InIndex : Rank(j) = Rank(k) => j = k
  BY Ranks
<1>2. 0 \in Int /\ Cardinality(InIndex) - 1 \in Int
  BY <1>1
<1>3. IsFiniteSet(T) /\ Cardinality(T) = IF 0 > Cardinality(InIndex) - 1 THEN 0 ELSE Cardinality(InIndex) - 1 - 0 + 1
  BY <1>2, FS_Interval
<1>4. Cardinality(T) = Cardinality(InIndex)
  BY <1>1, <1>3
<1>5. f \in Injection(InIndex, T)
  BY <1>1 DEF Injection, IsInjective
<1>6. f \in Surjection(InIndex, T)
  BY <1>1, <1>3, <1>4, <1>5, FS_Injection
<1> QED BY <1>6 DEF Surjection

LEMMA NewestFirstOrdered ==
  ASSUME LedgerInv, NEW n \in Nat
  PROVE  Ordered(NewestFirst(n))
<1> DEFINE size == IF Cardinality(InIndex) < n THEN Cardinality(InIndex) ELSE n
           ids == NewestFirst(n)
<1>1. ids = [i \in 1..size |-> CHOOSE j \in InIndex : Rank(j) = i - 1]
  BY DEF NewestFirst, InIndex, Rank
<1>2. Cardinality(InIndex) \in Nat /\ size \in Nat /\ size <= Cardinality(InIndex)
  BY Ranks
<1>3. DOMAIN ids = 1..size
  BY <1>1
<1>4. ASSUME NEW i \in 1..size
      PROVE  ids[i] \in InIndex /\ Rank(ids[i]) = i - 1
  <2>1. i - 1 \in 0..(Cardinality(InIndex) - 1)
    BY <1>2
  <2>2. \E j \in InIndex : Rank(j) = i - 1
    BY <2>1, RanksTaken
  <2>3. ids[i] = CHOOSE j \in InIndex : Rank(j) = i - 1
    BY <1>1
  <2> HIDE DEF ids
  <2> QED BY <2>2, <2>3
<1> HIDE DEF ids, size
<1>5. ASSUME NEW i \in DOMAIN ids, NEW k \in DOMAIN ids, i < k
      PROVE  \E p, q \in DOMAIN uploads : q < p /\ uploads[p] = ids[i] /\ uploads[q] = ids[k]
  <2>1. /\ ids[i] \in InIndex /\ ids[k] \in InIndex /\ Rank(ids[i]) < Rank(ids[k])
    BY <1>2, <1>3, <1>4, <1>5
  <2>2. index[ids[i]] > index[ids[k]] /\ index[ids[k]] > 0 /\ ids[i] \in Jobs /\ ids[k] \in Jobs
    BY <2>1, Ranks DEF InIndex
  <2> QED BY <2>2, IndexFollowsUploads
<1> QED BY <1>5 DEF Ordered, ids

\* The steps of the readers.
LEMMA ReaderSteps ==
  ASSUME LedgerInv, Reading',
         UNCHANGED <<sequence, index, record, totals, letters, work, uploads, removed>>
  PROVE  LedgerInv'
<1>1. LedgerTypes'
  BY DEF LedgerInv, LedgerTypes
<1>2. Uploaded' = Uploaded /\ Live' = Live /\ Burying' = Burying
  BY DEF Uploaded, Live, Burying
<1>3. \A j \in Jobs : JobInv(j)'
  BY <1>2 DEF LedgerInv, JobInv
<1>4. PlaceInv'
  BY DEF LedgerInv, PlaceInv, PlacedApart, Number
<1>5. CountInv'
  BY <1>2 DEF LedgerInv, CountInv
<1>6. LetterInv'
  BY DEF LedgerInv, LetterInv
<1> QED BY <1>1, <1>3, <1>4, <1>5, <1>6 DEF LedgerInv

\* A reader that has something else, which is right, and the others as they were.
LEMMA OneReads ==
  ASSUME LedgerInv, NEW o \in AllReaders, NEW v, Reads(o, v),
         ReadOK(v, Ordered(v.ids), totals.failed, Len(letters) + removed),
         UNCHANGED <<sequence, index, record, totals, letters, work, uploads, removed>>
  PROVE  LedgerInv'
<1>1. /\ DOMAIN reader = AllReaders /\ reader' = [reader EXCEPT ![o] = v]
      /\ \A p \in AllReaders : ReadInv(p)
  BY DEF LedgerInv, Reading, Reads
<1>2. /\ DOMAIN reader' = AllReaders /\ reader'[o] = v
      /\ \A p \in AllReaders : p # o => reader'[p] = reader[p]
  BY <1>1
<1>3. ASSUME NEW p \in AllReaders PROVE ReadInv(p)'
  <2>1. CASE p = o
    BY <1>2, <2>1 DEF ReadInv, ReadOK, Ordered
  <2>2. CASE p # o
    <3>1. reader'[p] = reader[p] /\ ReadInv(p)
      BY <1>1, <1>2, <2>2
    <3> QED BY <3>1 DEF ReadInv, ReadOK, Ordered
  <2> QED BY <2>1, <2>2
<1>4. Reading'
  BY <1>2, <1>3 DEF Reading, AllReaders
<1> QED BY <1>4, ReaderSteps

LEMMA ReaderActions ==
  ASSUME LedgerInv, NEW o \in AllReaders,
         \/ ListIndex(o) \/ ListRecords(o) \/ ScrapeDepth(o) \/ ScrapeTotals(o)
         \/ PurgeDepth(o) \/ Shown(o)
  PROVE  LedgerInv'
<1>1. /\ ReadOK(reader[o], Ordered(reader[o].ids), totals.failed, Len(letters) + removed)
      /\ uploads \in Seq(Jobs) /\ letters \in Seq(Jobs) /\ Len(letters) \in Nat
      /\ totals \in [Outcomes -> Nat] /\ removed \in Nat
  BY DEF LedgerInv, LedgerTypes, Reading, ReadInv
<1>2. UNCHANGED <<sequence, index, record, totals, letters, work, uploads, removed>>
  BY DEF ListIndex, ListRecords, ScrapeDepth, ScrapeTotals, PurgeDepth, Shown
<1>3. CASE ListIndex(o)
  <2>1. PICK n \in 1..2 : Reads(o, [at |-> "list", ids |-> NewestFirst(n)])
    BY <1>3 DEF ListIndex
  <2>2. Ordered(NewestFirst(n))
    BY NewestFirstOrdered
  <2>3. PICK v : v = [at |-> "list", ids |-> NewestFirst(n)]
    OBVIOUS
  <2>4. v.at = "list" /\ v.ids = NewestFirst(n)
    BY <2>3
  <2>5. ReadOK(v, Ordered(v.ids), totals.failed, Len(letters) + removed)
    BY <2>2, <2>4 DEF ReadOK
  <2> QED BY <1>2, <2>1, <2>3, <2>5, OneReads
<1>4. CASE ListRecords(o)
  <2>1. reader[o].at = "list" /\ Ordered(reader[o].ids)
    BY <1>1, <1>4 DEF ListRecords, ReadOK, Unread
  <2>2. PICK kept : /\ kept \subseteq DOMAIN reader[o].ids
                    /\ Reads(o, [at |-> "listed", ids |-> Restrict(reader[o].ids, kept)])
    BY <1>4 DEF ListRecords
  <2>3. PICK v : v = [at |-> "listed", ids |-> Restrict(reader[o].ids, kept)]
    OBVIOUS
  <2>4. v.at = "listed" /\ v.ids = [i \in kept |-> reader[o].ids[i]]
    BY <2>3 DEF Restrict
  <2>5. Ordered(v.ids)
    BY <2>1, <2>2, <2>4 DEF Ordered
  <2>6. ReadOK(v, Ordered(v.ids), totals.failed, Len(letters) + removed)
    BY <2>4, <2>5 DEF ReadOK
  <2> QED BY <1>2, <2>2, <2>3, <2>6, OneReads
<1>5. CASE ScrapeDepth(o)
  <2>1. Len(letters) <= totals.failed
    <3>1. /\ Len(letters) + removed + Cardinality(Burying) <= totals.failed
          /\ Cardinality(Burying) \in Nat
      BY FS_CardinalityType DEF LedgerInv, CountInv
    <3>2. PICK n : n = Len(letters)
      OBVIOUS
    <3>3. n \in Nat /\ removed \in Nat /\ totals.failed \in Nat
      BY <1>1, <3>2, TotalTypes
    <3>4. n + removed + Cardinality(Burying) <= totals.failed
      BY <3>1, <3>2, Zenon
    <3>5. n <= totals.failed
      BY <3>1, <3>3, <3>4
    <3> QED BY <3>2, <3>5
  <2>2. PICK v : v = [at |-> "scrape", dead |-> Len(letters)]
    OBVIOUS
  <2>3. v.at = "scrape" /\ v.dead = Len(letters)
    BY <2>2
  <2>4. ReadOK(v, Ordered(v.ids), totals.failed, Len(letters) + removed)
    BY <1>1, <2>1, <2>3 DEF ReadOK
  <2> QED BY <1>2, <1>5, <2>2, <2>4, OneReads DEF ScrapeDepth
<1>6. CASE ScrapeTotals(o)
  <2>1. reader[o].at = "scrape" /\ reader[o].dead <= totals.failed
    BY <1>1, <1>6 DEF ScrapeTotals, ReadOK, Unread
  <2>2. PICK v : v = [at |-> "scraped", dead |-> reader[o].dead, failed |-> totals.failed]
    OBVIOUS
  <2>3. v.at = "scraped" /\ v.dead = reader[o].dead /\ v.failed = totals.failed
    BY <2>2
  <2>4. ReadOK(v, Ordered(v.ids), totals.failed, Len(letters) + removed)
    BY <2>1, <2>3 DEF ReadOK
  <2> QED BY <1>2, <1>6, <2>2, <2>4, OneReads DEF ScrapeTotals
<1>7. CASE PurgeDepth(o)
  <2>1. PICK v : v = [at |-> "purge", depth |-> Len(letters), before |-> removed]
    OBVIOUS
  <2>2. v.at = "purge" /\ v.depth = Len(letters) /\ v.before = removed
    BY <2>1
  <2>3. ReadOK(v, Ordered(v.ids), totals.failed, Len(letters) + removed)
    BY <1>1, <2>2 DEF ReadOK
  <2> QED BY <1>2, <1>7, <2>1, <2>3, OneReads DEF PurgeDepth
<1>8. CASE Shown(o)
  <2>1. ReadOK(Unread, Ordered(Unread.ids), totals.failed, Len(letters) + removed)
    BY DEF ReadOK
  <2> QED BY <1>2, <1>8, <2>1, OneReads DEF Shown
<1> QED BY <1>3, <1>4, <1>5, <1>6, <1>7, <1>8

LEMMA PurgeStep ==
  ASSUME LedgerInv, NEW o \in AllReaders, PurgeDelete(o)
  PROVE  LedgerInv'
<1>1. /\ LedgerTypes /\ PlaceInv /\ CountInv /\ LetterInv /\ DOMAIN reader = AllReaders
      /\ removed' = removed + Len(letters) /\ letters' = <<>>
      /\ reader' = [reader EXCEPT ![o] = Unread]
      /\ UNCHANGED <<sequence, index, record, totals, work, uploads>>
  BY DEF LedgerInv, Reading, PurgeDelete, Reads
<1>2. /\ letters \in Seq(Jobs) /\ Len(letters) \in Nat /\ removed \in Nat /\ removed' \in Nat
      /\ totals \in [Outcomes -> Nat] /\ Len(letters') = 0 /\ DOMAIN letters' = {}
  BY <1>1 DEF LedgerTypes
<1>3. LedgerTypes'
  BY <1>1, <1>2 DEF LedgerTypes
<1>4. Uploaded' = Uploaded /\ Live' = Live /\ Burying' = Burying
  BY <1>1 DEF Uploaded, Live, Burying
<1>5. \A j \in Jobs : JobInv(j)'
  BY <1>1, <1>4 DEF LedgerInv, JobInv
<1>6. PlaceInv'
  BY <1>1 DEF PlaceInv, PlacedApart, Number
<1>7. Len(letters) + removed = Len(letters') + removed'
  BY <1>1, <1>2
<1>8. CountInv'
  BY <1>1, <1>4, <1>7 DEF CountInv
<1>9. LetterInv'
  BY <1>2, LedgerAssumption DEF LetterInv
<1>10. Reading'
  <2>1. /\ DOMAIN reader' = AllReaders /\ reader'[o] = Unread
        /\ \A p \in AllReaders : p # o => reader'[p] = reader[p]
    BY <1>1
  <2>2. totals.failed \in Nat
    BY <1>2, TotalTypes
  <2>3. PICK m, n : m = Len(letters) + removed /\ n = (Len(letters) + removed)'
    OBVIOUS
  <2>4. m \in Nat /\ n \in Nat /\ m <= n
    <3>1. Len(letters) + removed \in Nat
      BY <1>2
    <3>2. m \in Nat /\ n = m
      BY <1>7, <2>3, <3>1, Zenon
    <3> QED BY <3>2
  <2>5. ASSUME NEW p \in AllReaders PROVE ReadInv(p)'
    <3>1. CASE p = o
      BY <2>1, <3>1 DEF ReadInv, ReadOK
    <3>2. CASE p # o
      <4>1. reader'[p] = reader[p] /\ totals' = totals /\ uploads' = uploads
        BY <1>1, <2>1, <3>2
      <4> QED BY <2>2, <2>3, <2>4, <4>1, OthersRead
    <3> QED BY <3>1, <3>2
  <2> QED BY <2>1, <2>5 DEF Reading, AllReaders
<1> QED BY <1>3, <1>5, <1>6, <1>8, <1>9, <1>10 DEF LedgerInv

LEMMA LedgerSteps == LedgerInv /\ [LedgerNext]_ledgerVars => LedgerInv'
<1> SUFFICES ASSUME LedgerInv, [LedgerNext]_ledgerVars PROVE LedgerInv'
  OBVIOUS
<1>1. CASE UNCHANGED ledgerVars
  <2>1. /\ UNCHANGED <<sequence, index, record, totals, letters, work, uploads, removed>>
        /\ reader' = reader
    BY <1>1 DEF ledgerVars
  <2>2. Reading'
    BY <2>1, SameReading DEF LedgerInv
  <2> QED BY <2>1, <2>2, ReaderSteps
<1>2. ASSUME NEW j \in Jobs, \/ Submits(j) \/ Enqueue(j) \/ Execute(j) \/ StartAttempt(j)
                             \/ Ingest(j) \/ Retry(j) \/ Raises(j)
      PROVE  LedgerInv'
  BY <1>2, QuietActions
<1>3. ASSUME NEW j \in Jobs, TakeNumber(j) \/ StoreRecord(j) \/ Count(j) \/ Bury(j) \/ ExpireJob(j)
      PROVE  LedgerInv'
  BY <1>3, TakeNumberStep, StoreRecordStep, CountStep, BuryStep, ExpireStep
<1>4. ASSUME NEW o \in AllReaders, \/ ListIndex(o) \/ ListRecords(o) \/ ScrapeDepth(o)
                                   \/ ScrapeTotals(o) \/ PurgeDepth(o) \/ Shown(o)
      PROVE  LedgerInv'
  BY <1>4, ReaderActions
<1>5. ASSUME NEW o \in AllReaders, PurgeDelete(o)
      PROVE  LedgerInv'
  BY <1>5, PurgeStep
<1>6. CASE ProcessEnds
  BY <1>6, ProcessEndsStep
<1>7. Readers \subseteq AllReaders /\ Purgers \subseteq AllReaders
  BY DEF AllReaders
<1> QED BY <1>1, <1>2, <1>3, <1>4, <1>5, <1>6, <1>7 DEF LedgerNext, AllReaders

LEMMA LedgerStarts == LedgerInit => LedgerInv
<1> SUFFICES ASSUME LedgerInit PROVE LedgerInv
  OBVIOUS
<1>1. /\ sequence = 0 /\ index = [j \in Jobs |-> 0] /\ record = [j \in Jobs |-> "gone"]
      /\ totals = [o \in Outcomes |-> 0]
      /\ letters = <<>> /\ uploads = <<>> /\ removed = 0
      /\ work = [j \in Jobs |-> Doing("new")] /\ reader = [o \in AllReaders |-> Unread]
  BY DEF LedgerInit, AllReaders
<1>2. Doing("new") \in Work /\ Doing("new").at = "new" /\ Doing("new").attempt = 0
  BY DEF Doing, Work, Stages, Statuses
<1>3. LedgerTypes
  BY <1>1, <1>2 DEF LedgerTypes
<1>4. Uploaded = {} /\ Live = {} /\ Burying = {} /\ DOMAIN uploads = {} /\ DOMAIN letters = {}
  BY <1>1, <1>2 DEF Uploaded, Live, Burying, OpenJob, Saves
<1>5. \A j \in Jobs : JobInv(j)
  BY <1>1, <1>2, <1>4 DEF JobInv, JobOK, OpenJob, Saves, Num
<1>6. PlaceInv
  BY <1>4 DEF PlaceInv
<1>7. /\ totals.done = 0 /\ totals.failed = 0 /\ totals.submitted = 0
      /\ Len(letters) = 0 /\ removed = 0
  BY <1>1 DEF Outcomes
<1>8. CountInv
  <2>1. IsFiniteSet({}) /\ Cardinality({}) = 0
    BY FS_EmptySet
  <2> QED BY <1>4, <1>7, <2>1 DEF CountInv
<1>9. LetterInv
  BY <1>4, <1>7, LedgerAssumption DEF LetterInv
<1>10. Reading
  BY <1>1 DEF Reading, ReadInv, ReadOK
<1> QED BY <1>3, <1>5, <1>6, <1>8, <1>9, <1>10 DEF LedgerInv

LEMMA LedgerInvKeeps == LedgerInv => LedgerKept
<1> SUFFICES ASSUME LedgerInv PROVE LedgerKept
  OBVIOUS
<1>1. /\ totals \in [Outcomes -> Nat] /\ letters \in Seq(Jobs) /\ removed \in Nat
      /\ uploads \in Seq(Jobs) /\ PlaceInv /\ LetterInv
      /\ totals.done + totals.failed + Cardinality(Live) <= totals.submitted
      /\ Len(letters) + removed + Cardinality(Burying) <= totals.failed
      /\ Cardinality(Live) \in Nat /\ Cardinality(Burying) \in Nat
  BY FS_CardinalityType DEF LedgerInv, LedgerTypes, CountInv
<1>9. totals.done + totals.failed \in Nat /\ totals.failed \in Nat /\ totals.submitted \in Nat
  BY <1>1, TotalTypes, Zenon
<1>10. Len(letters) + removed \in Nat
  BY <1>1
<1>2. /\ totals.done + totals.failed \in Nat /\ totals.failed \in Nat /\ totals.submitted \in Nat
      /\ Len(letters) + removed \in Nat
  BY <1>9, <1>10
<1>3. \A a, c, f \in Nat : a + c <= f => a <= f
  OBVIOUS
<1>4. /\ totals.done + totals.failed <= totals.submitted
      /\ Len(letters) + removed <= totals.failed
  BY <1>1, <1>2, <1>3, Zenon
<1>5. /\ Len(letters) <= MAX_LETTERS
      /\ \A i \in DOMAIN letters : record[letters[i]] \in {"failed", "gone"}
  BY <1>1 DEF LetterInv
<1>6. ASSUME NEW o \in AllReaders
      PROVE  /\ reader[o].at = "scraped" => reader[o].dead <= reader[o].failed
             /\ reader[o].at = "purge" => reader[o].depth <= Len(letters) + (removed - reader[o].before)
             /\ reader[o].at = "listed" => Ordered(reader[o].ids)
  <2>1. PICK v : v = reader[o]
    OBVIOUS
  <2>2. ReadOK(v, Ordered(v.ids), totals.failed, Len(letters) + removed)
    BY <2>1 DEF LedgerInv, Reading, ReadInv
  <2>3. v.at = "scraped" => v.dead <= v.failed
    BY <2>2 DEF ReadOK, Unread
  <2>4. v.at = "listed" => Ordered(v.ids)
    BY <2>2 DEF ReadOK, Unread
  <2>5. ASSUME v.at = "purge"
        PROVE  v.depth <= Len(letters) + (removed - v.before)
    <3>1. v.depth \in Nat /\ v.before \in Nat /\ v.depth + v.before <= Len(letters) + removed
      BY <2>2, <2>5 DEF ReadOK, Unread
    <3>2. Len(letters) \in Nat /\ removed \in Nat
      BY <1>1
    <3> QED BY <3>1, <3>2
  <2> QED BY <2>1, <2>3, <2>4, <2>5
<1>7. ASSUME NEW p \in DOMAIN uploads
      PROVE  Place(uploads[p]) = p
  <2>1. \A i \in DOMAIN uploads : uploads[i] = uploads[p] => i = p
    <3>1. \A i \in DOMAIN uploads : i \in Nat
      BY <1>1
    <3>2. \A i \in DOMAIN uploads : ~(i < p /\ uploads[i] = uploads[p]) /\ ~(p < i /\ uploads[i] = uploads[p])
      BY <1>1 DEF PlaceInv, PlacedApart
    <3> QED BY <3>1, <3>2
  <2> QED BY <2>1 DEF Place
<1>8. ASSUME NEW o \in AllReaders, reader[o].at = "listed",
             NEW i \in DOMAIN reader[o].ids, NEW k \in DOMAIN reader[o].ids, i < k
      PROVE  Place(reader[o].ids[i]) > Place(reader[o].ids[k])
  <2>1. Ordered(reader[o].ids)
    BY <1>6, <1>8
  <2>2. PICK p, q \in DOMAIN uploads : q < p /\ uploads[p] = reader[o].ids[i] /\ uploads[q] = reader[o].ids[k]
    BY <1>8, <2>1 DEF Ordered
  <2>3. Place(reader[o].ids[i]) = p /\ Place(reader[o].ids[k]) = q
    BY <1>7, <2>2
  <2> QED BY <2>2, <2>3
<1> QED BY <1>4, <1>5, <1>6, <1>8 DEF LedgerKept, AllReaders

\* The books of the jobs agree in every state: ends never outnumber submissions, a dead letter is
\* counted as failed first, a scrape never shows more than that, what a purge reports is removed by
\* it or by one that overlaps it, and a listing keeps the order of the uploads (JobStore.save, count
\* and list, DeadLetterQueue.push and purge, and refresh_metrics, with any number of readers and
\* purges at once, and a job, a scrape or the process stopped between any two calls of Redis).
THEOREM BooksKept == LedgerSpec => []LedgerKept
<1> QED BY LedgerStarts, LedgerSteps, LedgerInvKeeps, PTL DEF LedgerSpec

(***************************************************************************)
(* A replica                                                               *)
(***************************************************************************)

\* The steps of a start, in their order; a replica that is past one of them has done it.
PastMint     == {"ingest", "serving"}
PastServices == {"mint"} \cup PastMint
PastBind     == {"services"} \cup PastServices
PastRag      == {"bind"} \cup PastBind
PastCache    == {"rag"} \cup PastRag
PastRoute    == {"cache"} \cup PastCache
PastConnect  == {"route"} \cup PastRoute
PastCheck    == {"connect"} \cup PastConnect

Clients == {"qdrant", "redis", "cache_redis"}

ReplicaInv ==
  /\ settings \in Settings
  /\ life \in {"down", "check", "closing"} \cup PastCheck
  /\ stores \in [index : BOOLEAN, collection : BOOLEAN, keys : Nat, documents : SUBSET Corpus]
  /\ life \in PastCheck /\ settings.prod => settings.defaults = {}
  /\ life \in {"down", "check", "connect"} => built = {}
  /\ life \in PastConnect => "clients" \in built /\ Clients \subseteq open
  /\ life \in PastRoute => "router" \in built
  /\ life \in PastCache /\ settings.cache # "off" => "cache" \in built
  /\ life \in PastCache /\ settings.cache = "redisearch" => stores.index
  /\ life \in PastRag => {"rag", settings.queue} \subseteq built /\ stores.collection
  /\ life \in PastBind /\ settings.queue = "inline" => "bound" \in built
  /\ life \in PastServices => "services" \in built
  /\ life \in {"mint", "ingest"} => settings.demo
  /\ life \in PastMint /\ settings.demo => shown = stores.keys /\ shown > 0
  /\ life \notin {"down", "closing", "check"} => \A d \in Corpus \cap built : d \in stores.documents
  /\ life = "serving" /\ settings.demo => Corpus \subseteq built
  /\ life # "serving" => probe = <<>> /\ verdict = "none"

USE DEF PastMint, PastServices, PastBind, PastRag, PastCache, PastRoute, PastConnect, PastCheck

LEMMA StartKeeps ==
  ASSUME ReplicaInv, Launch \/ CheckSecrets \/ Connect \/ BuildRouter \/ SetUpCache
                     \/ BuildRag \/ Bind \/ Assemble
  PROVE  ReplicaInv'
<1> USE ReplicaAssumption DEF Parts, Clients, Settings
<1>1. CASE Launch
  BY <1>1 DEF Launch, ReplicaInv
<1>2. CASE CheckSecrets
  BY <1>2 DEF CheckSecrets, Insecure, Exits, ReplicaInv
<1>3. CASE Connect
  <2>1. /\ life = "connect" /\ life' = "route" /\ Clients \subseteq open'
        /\ built' = built \cup {"clients"}
        /\ UNCHANGED <<settings, stores, shown, starts, probe, verdict>>
    BY <1>3, Zenon DEF Connect, Has
  <2> QED
    BY <2>1 DEF ReplicaInv
<1>4. CASE BuildRouter
  BY <1>4 DEF BuildRouter, Exits, Has, ReplicaInv
<1>5. CASE SetUpCache
  <2>1. /\ life = "cache" /\ life' = "rag"
        /\ UNCHANGED <<settings, open, shown, starts, probe, verdict>>
        /\ built' = built \/ built' = built \cup {"cache"}
        /\ settings.cache # "off" => built' = built \cup {"cache"}
    BY <1>5, Zenon DEF SetUpCache, Has
  <2>2. /\ stores' \in [index : BOOLEAN, collection : BOOLEAN, keys : Nat, documents : SUBSET Corpus]
        /\ stores'.documents = stores.documents
        /\ settings.cache = "redisearch" => stores'.index
    <3>0. stores \in [index : BOOLEAN, collection : BOOLEAN, keys : Nat, documents : SUBSET Corpus]
      BY DEF ReplicaInv
    <3>1. CASE settings.cache = "off"
      BY <1>5, <3>0, <3>1 DEF SetUpCache
    <3>2. CASE settings.cache # "off"
      <4>1. stores' = [stores EXCEPT !.index = @ \/ settings.cache = "redisearch"]
        BY <1>5, <3>2, Zenon DEF SetUpCache
      <4>2. PICK b \in BOOLEAN : b = (stores.index \/ settings.cache = "redisearch")
        BY Zenon
      <4>3. stores' = [stores EXCEPT !.index = b]
        BY <4>1, <4>2, Zenon
      <4>4. stores' \in [index : BOOLEAN, collection : BOOLEAN, keys : Nat, documents : SUBSET Corpus]
            /\ stores'.documents = stores.documents /\ stores'.index = b
        BY <3>0, <4>3
      <4> QED
        BY <4>2, <4>4, Zenon
    <3> QED
      BY <3>1, <3>2
  <2> QED
    BY <2>1, <2>2 DEF ReplicaInv
<1>6. CASE BuildRag
  BY <1>6 DEF BuildRag, ReplicaInv
<1>7. CASE Bind
  BY <1>7 DEF Bind, Has, ReplicaInv
<1>8. CASE Assemble
  BY <1>8 DEF Assemble, Has, ReplicaInv
<1> QED
  BY <1>1, <1>2, <1>3, <1>4, <1>5, <1>6, <1>7, <1>8

LEMMA RunKeeps ==
  ASSUME ReplicaInv, MintKey \/ (\E d \in Corpus : IngestDocument(d)) \/ DemoReady \/ StartFails
                     \/ Ping \/ Readyz \/ Stop \/ CloseNext \/ CloseRaises \/ Closed
  PROVE  ReplicaInv'
<1> USE ReplicaAssumption DEF Parts, Clients, Settings
<1>1. CASE MintKey
  BY <1>1 DEF MintKey, ReplicaInv
<1>2. ASSUME NEW d \in Corpus, IngestDocument(d) PROVE ReplicaInv'
  BY <1>2 DEF IngestDocument, Has, ReplicaInv
<1>3. CASE DemoReady
  BY <1>3 DEF DemoReady, ReplicaInv
<1>4. CASE StartFails
  <2>1. /\ life' = "down" /\ built' = {} /\ probe' = <<>> /\ verdict' = "none"
        /\ UNCHANGED <<settings, starts>>
        /\ \/ stores' = stores
           \/ stores' = [stores EXCEPT !.collection = TRUE]
           \/ stores' = [stores EXCEPT !.keys = @ + 1]
    BY <1>4, Zenon DEF StartFails, Exits
  <2>2. stores' \in [index : BOOLEAN, collection : BOOLEAN, keys : Nat, documents : SUBSET Corpus]
    <3>0. stores \in [index : BOOLEAN, collection : BOOLEAN, keys : Nat, documents : SUBSET Corpus]
      BY DEF ReplicaInv
    <3>1. CASE stores' = stores
      BY <3>0, <3>1
    <3>2. CASE stores' = [stores EXCEPT !.collection = TRUE]
      BY <3>0, <3>2
    <3>3. CASE stores' = [stores EXCEPT !.keys = @ + 1]
      BY <3>0, <3>3
    <3> QED
      BY <2>1, <3>1, <3>2, <3>3
  <2> QED
    BY <2>1, <2>2 DEF ReplicaInv
<1>5. CASE Ping
  BY <1>5 DEF Ping, ReplicaInv
<1>6. CASE Readyz
  BY <1>6 DEF Readyz, ReplicaInv
<1>7. CASE Stop
  BY <1>7 DEF Stop, ReplicaInv
<1>8. CASE CloseNext \/ CloseRaises \/ Closed
  BY <1>8 DEF CloseNext, CloseRaises, Closed, Exits, ReplicaInv
<1> QED
  BY <1>1, <1>2, <1>3, <1>4, <1>5, <1>6, <1>7, <1>8

\* A replica that takes traffic was set up whole in this start, however often it started before and
\* however those starts ended, and says so no earlier, for any corpus and any number of starts
\* (lifespan, main.py; build, container.py; demo.py:45; readyz, health.py:18).
THEOREM TrafficNeedsAll == ReplicaSpec => []StartsWhole
<1>1. ReplicaInit => ReplicaInv
  BY DEF ReplicaInit, ReplicaInv
<1>2. ReplicaInv /\ [ReplicaNext]_replicaVars => ReplicaInv'
  <2>1. CASE UNCHANGED replicaVars
    BY <2>1 DEF replicaVars, ReplicaInv
  <2>2. CASE ReplicaNext
    BY <2>2, StartKeeps, RunKeeps DEF ReplicaNext
  <2> QED
    BY <2>1, <2>2
<1>3. ReplicaInv => StartsWhole
  <2> SUFFICES ASSUME ReplicaInv PROVE StartsWhole
    OBVIOUS
  <2>1. verdict = "ready" => life = "serving"
    BY DEF ReplicaInv
  <2>2. ASSUME life = "serving"
        PROVE  /\ settings.prod => settings.defaults = {}
               /\ "clients" \in built /\ "router" \in built /\ "services" \in built
               /\ {"rag", settings.queue} \subseteq built
               /\ settings.cache # "off" => "cache" \in built
               /\ settings.cache = "redisearch" => stores.index
               /\ stores.collection
               /\ settings.queue = "inline" => "bound" \in built
    <3>1. life \in PastCheck /\ life \in PastConnect /\ life \in PastRoute /\ life \in PastCache
          /\ life \in PastRag /\ life \in PastBind /\ life \in PastServices
      BY <2>2
    <3> HIDE DEF PastMint, PastServices, PastBind, PastRag, PastCache, PastRoute, PastConnect, PastCheck
    <3> QED
      BY <3>1, Zenon DEF ReplicaInv
  <2>3. ASSUME life = "serving", settings.demo
        PROVE  shown = stores.keys /\ shown > 0 /\ stores.documents = Corpus
    BY <2>3 DEF ReplicaInv
  <2>4. life = "serving" => {"qdrant", "redis", "cache_redis"} \subseteq open
    BY Zenon DEF ReplicaInv, Clients
  <2>5. life = "serving" =>
          {"clients", "router", "rag", "services", settings.queue} \subseteq built
    BY <2>2
  <2> QED
    BY <2>1, <2>2, <2>3, <2>4, <2>5, Zenon DEF StartsWhole
<1> QED
  BY <1>1, <1>2, <1>3, PTL DEF ReplicaSpec
HIDE DEF PastMint, PastServices, PastBind, PastRag, PastCache, PastRoute, PastConnect, PastCheck

(***************************************************************************)
(* Side by side                                                            *)
(***************************************************************************)

frontDoorVars ==
  <<part, keyVars, bucketVars, gateVars, faultVars, meterVars, streamVars, replicaVars, alertVars,
    traceVars, ledgerVars>>
FrontDoorSpec == FrontDoorInit /\ [][FrontDoorNext]_frontDoorVars

LEMMA PartsStart ==
  FrontDoorInit => /\ KeysInit /\ BucketInit /\ GateInit /\ FaultInit /\ MeterInit /\ AlertsInit
                   /\ TraceInit
  BY Zenon DEF FrontDoorInit

LEMMA PartsStep ==
  [FrontDoorNext]_frontDoorVars =>
    /\ [KeysNext]_keyVars /\ [BucketNext]_bucketVars /\ [GateNext]_gateVars
    /\ [FaultNext]_faultVars /\ [MeterNext]_meterVars /\ [AlertsNext]_alertVars
    /\ [TraceNext]_traceVars
<1> SUFFICES ASSUME [FrontDoorNext]_frontDoorVars
             PROVE  /\ [KeysNext]_keyVars /\ [BucketNext]_bucketVars /\ [GateNext]_gateVars
                    /\ [FaultNext]_faultVars /\ [MeterNext]_meterVars /\ [AlertsNext]_alertVars
                    /\ [TraceNext]_traceVars
  OBVIOUS
<1>1. CASE UNCHANGED frontDoorVars
  BY <1>1 DEF frontDoorVars
<1>2. CASE FrontDoorNext
  BY <1>2 DEF FrontDoorNext
<1> QED
  BY <1>1, <1>2

\* The components of the run share no state, so what each of them keeps they keep together: types,
\* and the accounts of the keys' structures, the bucket, the gate's slots, the fault table, the usage
\* reports, the recent alerts and the traces.
THEOREM SideBySide == FrontDoorSpec => []FrontDoorTypes
<1>1. FrontDoorSpec => KeysSpec /\ BucketSpec /\ GateSpec /\ FaultSpec /\ MeterSpec /\ AlertsSpec /\ TraceSpec
  BY PartsStart, PartsStep, PTL
     DEF FrontDoorSpec, KeysSpec, BucketSpec, GateSpec, FaultSpec, MeterSpec, AlertsSpec, TraceSpec
<1>2. FaultSpec => []FaultTypeOK
  <2>1. FaultInv => FaultTypeOK
    BY DEF FaultInv
  <2> QED
    BY <2>1, FaultInitially, FaultSteps, PTL DEF FaultSpec
<1>3. /\ KeysTypeOK /\ BucketTypeOK /\ GateTypeOK /\ FaultTypeOK /\ MeterTypeOK
      /\ NewestKept /\ NeverFatal
      => FrontDoorTypes
  BY DEF FrontDoorTypes
<1> QED
  BY <1>1, <1>2, <1>3, KeysTogether, BucketTypes, GateTypes, MeterTypes, AlertsNewest,
     TracingHarmlessUntilExit, PTL
=============================================================================
