--------------------------- MODULE CircuitBreaker ---------------------------
(***************************************************************************)
(* One deployment's in-process breaker: the class CircuitBreaker of        *)
(* app/gateway/circuit_breaker.py as operators on a record.                *)
(*                                                                         *)
(*   state   the attribute _state                                          *)
(*   fails   _consecutive_failures, saturated at THRESHOLD: the code only  *)
(*           ever compares it with the threshold                           *)
(*   cool    ticks left until clock() - _opened_at >= cooldown_seconds;    *)
(*           0 in every state but OPEN, where nothing reads _opened_at     *)
(*   probe   _probe_in_flight                                              *)
(*                                                                         *)
(* The `state` property of the class writes when it is read: an OPEN       *)
(* breaker whose cooldown is over becomes HALF_OPEN at the next look, not  *)
(* when the clock passes.  Look is that read; every method that goes       *)
(* through the property goes through Look here.                            *)
(***************************************************************************)
EXTENDS Integers

CONSTANTS THRESHOLD,   \* failure_threshold
          COOLDOWN     \* cooldown_seconds, in ticks

\* __init__ raises ValueError below one failure.
ASSUME ThresholdAssumption == THRESHOLD \in Nat \ {0}
\* The OPEN key's TTL is max(int(cooldown), 1), so a cooldown is at least a tick.
ASSUME CooldownAssumption == COOLDOWN \in Nat \ {0}

CLOSED    == "closed"
OPEN      == "open"
HALF_OPEN == "half_open"

Breaker == [state : {CLOSED, OPEN, HALF_OPEN},
            fails : 0..THRESHOLD,
            cool  : 0..COOLDOWN,
            probe : BOOLEAN]

\* What every method keeps: only an OPEN breaker cools down, only a HALF_OPEN one has a
\* probe out.
SoundBreaker ==
  {b \in Breaker : (b.cool > 0 => b.state = OPEN) /\ (b.probe => b.state = HALF_OPEN)}

NewBreaker == [state |-> CLOSED, fails |-> 0, cool |-> 0, probe |-> FALSE]

\* Saturating count of failures.
Capped(n) == IF n >= THRESHOLD THEN THRESHOLD ELSE n

\* The `state` property: what the caller sees is Look(b).state, and b becomes Look(b).
Look(b) == IF b.state = OPEN /\ b.cool = 0
             THEN [state |-> HALF_OPEN, fails |-> b.fails, cool |-> 0, probe |-> FALSE]
             ELSE b

\* allow_request: whether the request goes through, and what it leaves behind.
Allows(b)   == \/ Look(b).state = CLOSED
               \/ Look(b).state = HALF_OPEN /\ ~Look(b).probe
TakesProbe(b) == Look(b).state = HALF_OPEN /\ ~Look(b).probe
Admit(b) ==
  IF TakesProbe(b)
    THEN [state |-> HALF_OPEN, fails |-> b.fails, cool |-> 0, probe |-> TRUE]
    ELSE Look(b)

\* A bug adopt could have: the probe flag survives.
AdoptKeepsProbe(b, s, n) ==
  [state |-> s, fails |-> Capped(n), cool |-> IF s = OPEN THEN COOLDOWN ELSE 0,
   probe |-> b.probe]

\* adopt(state, consecutive_failures).  CLOSED leaves the probe flag alone.
Adopt(b, s, n) ==
  [state |-> s,
   fails |-> Capped(n),
   cool  |-> IF s = OPEN THEN COOLDOWN ELSE 0,
   probe |-> IF s = CLOSED THEN b.probe ELSE FALSE]

\* A bug record_success could have: the circuit is not closed.
SuccessResetsCount(b) == [b EXCEPT !.fails = 0]

RecordSuccess(b) == NewBreaker

\* record_failure: the count goes up first, then the state is looked at.
Counted(b)  == [b EXCEPT !.fails = Capped(b.fails + 1)]
FailureOpens(b) ==
  LET c == Look(Counted(b))
  IN  \/ c.state = HALF_OPEN
      \/ c.state = CLOSED /\ c.fails >= THRESHOLD
RecordFailure(b) ==
  LET c == Look(Counted(b))
  IN  IF FailureOpens(b)
        THEN [state |-> OPEN, fails |-> c.fails, cool |-> COOLDOWN, probe |-> FALSE]
        ELSE c

\* One tick of the clock the breaker reads.
Cool(b) == IF b.cool > 0 THEN [b EXCEPT !.cool = b.cool - 1] ELSE b
=============================================================================
