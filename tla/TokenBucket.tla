---------------------------- MODULE TokenBucket -----------------------------
(***************************************************************************)
(* One key's bucket in the rate limiter (app/core/rate_limit.py), as       *)
(* rate_limited of app/api/deps.py uses it on every replica: a request     *)
(* reads its replica's clock, and some time later Redis runs the script    *)
(* with it.  Tokens are integers: a unit may be any fraction of a request. *)
(***************************************************************************)
EXTENDS Integers, FiniteSets

CONSTANTS
  Requests,      \* those in flight
  CAPACITY, RATE, COST,   \* in units, RATE per second
  SKEW,          \* how far ahead the clock of a replica may be
  GRACE,         \* seconds a full bucket is kept longer
  MAX_TIME, MAX_HITS      \* bounds of the exploration

ASSUME BucketAssumption ==
  /\ CAPACITY \in Nat \ {0} /\ RATE \in Nat \ {0} /\ COST \in Nat \ {0}
  /\ SKEW \in Nat /\ GRACE \in Nat /\ MAX_TIME \in Nat /\ MAX_HITS \in Nat

VARIABLES
  clock,   \* Redis's time
  bucket,  \* ratelimit:{key}: its hash, and when it expires
  hit,     \* each request: the time it took along, then what it was told
  hits,    \* scripts run
  first,   \* the time of the first of them
  spent,   \* units taken
  drift    \* seconds that were refilled more than once

bucketVars == <<clock, bucket, hit, hits, first, spent, drift>>

Full == (CAPACITY + RATE - 1) \div RATE   \* ceil(capacity / rate)
Pos(n) == IF n > 0 THEN n ELSE 0
Ready == [at |-> "ready"]

BucketInit ==
  /\ clock = 0
  /\ bucket = [tokens |-> 0, ts |-> 0, until |-> 0]
  /\ hit = [q \in Requests |-> Ready]
  /\ hits = 0 /\ first = 0 /\ spent = 0 /\ drift = 0

Second ==
  /\ clock < MAX_TIME
  /\ clock' = clock + 1
  /\ UNCHANGED <<bucket, hit, hits, first, spent, drift>>

\* hit reads self._clock() on whichever replica it is.
ReadClock(q) ==
  /\ hit[q] = Ready
  /\ \E s \in 0..SKEW : hit' = [hit EXCEPT ![q] = [at |-> "asked", now |-> clock + s]]
  /\ UNCHANGED <<clock, bucket, hits, first, spent, drift>>

Exists == clock < bucket.until

\* A bug the script could have: the time since the last hit may be negative or positive.
TokensAbsolute(now) ==
  LET since == IF now > bucket.ts THEN now - bucket.ts ELSE bucket.ts - now
      full  == bucket.tokens + since * RATE
  IN IF ~Exists \/ full > CAPACITY THEN CAPACITY ELSE full

\* What the bucket holds for a caller who says it is now.
Tokens(now) ==
  LET full == bucket.tokens + Pos(now - bucket.ts) * RATE
  IN IF ~Exists \/ full > CAPACITY THEN CAPACITY ELSE full

\* How much of the refill had been given before: the clock went back, or a bucket that had expired
\* was not due to be full by its own clock.
Again(now) ==
  IF hits = 0 THEN 0
  ELSE IF Exists THEN Pos(bucket.ts - now) ELSE Pos(bucket.ts + Full - now)

\* The decision, and how long a refused caller should wait.
Decision(allowed, left) ==
  [at |-> IF allowed THEN "allowed" ELSE "refused",
   retry |-> IF allowed THEN 0 ELSE (COST - left + RATE - 1) \div RATE]

\* The script, atomic in Redis.
RunScript(q) ==
  /\ hit[q].at = "asked" /\ hits < MAX_HITS
  /\ LET now == hit[q].now
         allowed == Tokens(now) >= COST
         left == IF allowed THEN Tokens(now) - COST ELSE Tokens(now)
     IN /\ bucket' = [tokens |-> left, ts |-> now, until |-> clock + Full + GRACE]
        /\ hit' = [hit EXCEPT ![q] = Decision(allowed, left)]
        /\ spent' = IF allowed THEN spent + COST ELSE spent
        /\ first' = IF hits = 0 THEN now ELSE first
        /\ drift' = drift + Again(now)
  /\ hits' = hits + 1
  /\ UNCHANGED clock

\* 429 with Retry-After, or on to the handler; either way the caller may come again.
Respond(q) ==
  /\ hit[q].at \in {"allowed", "refused"}
  /\ hit' = [hit EXCEPT ![q] = Ready]
  /\ UNCHANGED <<clock, bucket, hits, first, spent, drift>>

BucketNext == Second \/ (\E q \in Requests : ReadClock(q) \/ RunScript(q) \/ Respond(q))
BucketSpec == BucketInit /\ [][BucketNext]_bucketVars
-----------------------------------------------------------------------------
Hits == {Ready} \cup [at : {"asked"}, now : Nat] \cup [at : {"allowed", "refused"}, retry : Int]

\* Types; a refused caller is told to come back, and not at once.
BucketTypeOK ==
  /\ clock \in Nat /\ hits \in Nat /\ first \in Nat /\ spent \in Nat /\ drift \in Nat
  /\ bucket \in [tokens : 0..CAPACITY, ts : Nat, until : Nat]
  /\ hit \in [Requests -> Hits]
  /\ \A q \in Requests : hit[q].at = "refused" => hit[q].retry > 0

\* No more is spent than the capacity and what the rate refills between the first and the last
\* hit, however requests overtake one another and buckets expire, except for the seconds that
\* clocks apart or requests overtaken make the script refill again (rate_limit.py:21-42).
NoOverspend ==
  hits > 0 => spent + bucket.tokens <= CAPACITY + RATE * (bucket.ts - first + drift)
=============================================================================
