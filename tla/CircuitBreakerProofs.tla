------------------------ MODULE CircuitBreakerProofs ------------------------
(***************************************************************************)
(* Lemmas about the methods of one breaker, for every threshold and        *)
(* cooldown, cited by the proofs of the modules built on CircuitBreaker.   *)
(***************************************************************************)
EXTENDS CircuitBreaker, TLAPS

\* Every method of the class keeps a breaker sound.  adopt(CLOSED) leaves the probe flag
\* alone, so it does so only for a breaker that has no probe out.
LEMMA BreakerMethods ==
  ASSUME NEW b \in SoundBreaker
  PROVE  /\ NewBreaker \in SoundBreaker
         /\ Look(b) \in SoundBreaker
         /\ Admit(b) \in SoundBreaker
         /\ RecordSuccess(b) \in SoundBreaker
         /\ RecordFailure(b) \in SoundBreaker
         /\ Cool(b) \in SoundBreaker
         /\ \A n \in Nat : /\ Adopt(b, OPEN, n) \in SoundBreaker
                           /\ Adopt(b, HALF_OPEN, n) \in SoundBreaker
                           /\ Adopt(Look(b), Look(b).state, n) \in SoundBreaker
<1> USE ThresholdAssumption, CooldownAssumption
        DEF SoundBreaker, Breaker, CLOSED, OPEN, HALF_OPEN
<1>1. NewBreaker \in SoundBreaker
  BY DEF NewBreaker
<1>2. Look(b) \in SoundBreaker
  BY DEF Look
<1>3. Admit(b) \in SoundBreaker
  BY <1>2 DEF Admit, TakesProbe
<1>4. RecordSuccess(b) \in SoundBreaker
  BY <1>1 DEF RecordSuccess
<1>5. RecordFailure(b) \in SoundBreaker
  <2>1. Counted(b) \in SoundBreaker
    BY DEF Counted, Capped
  <2>2. Look(Counted(b)) \in SoundBreaker
    BY <2>1 DEF Look
  <2> QED
    BY <2>2 DEF RecordFailure, FailureOpens
<1>6. Cool(b) \in SoundBreaker
  BY DEF Cool
<1>7. ASSUME NEW n \in Nat
      PROVE  /\ Adopt(b, OPEN, n) \in SoundBreaker
             /\ Adopt(b, HALF_OPEN, n) \in SoundBreaker
             /\ Adopt(Look(b), Look(b).state, n) \in SoundBreaker
  <2> DEFINE c == Look(b)
  <2>1. Adopt(b, OPEN, n) \in SoundBreaker
    BY DEF Adopt, Capped
  <2>2. Adopt(b, HALF_OPEN, n) \in SoundBreaker
    BY DEF Adopt, Capped
  <2>3. Adopt(c, OPEN, n) \in SoundBreaker /\ Adopt(c, HALF_OPEN, n) \in SoundBreaker
    BY DEF Adopt, Capped
  <2>4. CASE c.state = CLOSED
    <3>1. c.probe = FALSE
      BY <1>2, <2>4
    <3>2. Adopt(c, CLOSED, n) = [state |-> CLOSED, fails |-> Capped(n), cool |-> 0,
                                 probe |-> FALSE]
      BY <3>1 DEF Adopt
    <3>3. Capped(n) \in 0..THRESHOLD
      BY DEF Capped
    <3>4. [state |-> CLOSED, fails |-> Capped(n), cool |-> 0, probe |-> FALSE]
            \in SoundBreaker
      BY <3>3
    <3> QED
      BY <2>1, <2>2, <2>4, <3>2, <3>4
  <2> QED
    BY <1>2, <2>1, <2>2, <2>3, <2>4
<1> QED
  BY <1>1, <1>2, <1>3, <1>4, <1>5, <1>6, <1>7

\* Which methods can leave the probe flag up: only allow_request raises it, the outcomes
\* always clear it, and no adoption raises it.
LEMMA ProbeFlag ==
  ASSUME NEW b \in SoundBreaker
  PROVE  /\ ~NewBreaker.probe
         /\ Look(b).probe => b.probe
         /\ Admit(b).probe => b.probe \/ TakesProbe(b)
         /\ ~RecordSuccess(b).probe
         /\ ~RecordFailure(b).probe
         /\ Cool(b).probe => b.probe
         /\ \A n \in Nat : /\ ~Adopt(b, OPEN, n).probe
                           /\ ~Adopt(b, HALF_OPEN, n).probe
                           /\ Adopt(Look(b), Look(b).state, n).probe => b.probe
<1> USE ThresholdAssumption, CooldownAssumption
        DEF SoundBreaker, Breaker, CLOSED, OPEN, HALF_OPEN
<1>1. ~NewBreaker.probe /\ ~RecordSuccess(b).probe
  BY DEF NewBreaker, RecordSuccess
<1>2. Look(b).probe => b.probe
  BY DEF Look
<1>3. Admit(b).probe => b.probe \/ TakesProbe(b)
  BY <1>2 DEF Admit
<1>4. ~RecordFailure(b).probe
  <2> DEFINE c == Look(Counted(b))
  <2>1. Counted(b) \in SoundBreaker
    BY DEF Counted, Capped
  <2>2. c \in SoundBreaker
    BY <2>1 DEF Look
  <2>3. c.probe => FailureOpens(b)
    BY <2>2 DEF FailureOpens
  <2> QED
    BY <2>3 DEF RecordFailure
<1>5. Cool(b).probe => b.probe
  BY DEF Cool
<1>6. ASSUME NEW n \in Nat
      PROVE  /\ ~Adopt(b, OPEN, n).probe
             /\ ~Adopt(b, HALF_OPEN, n).probe
             /\ Adopt(Look(b), Look(b).state, n).probe => b.probe
  BY <1>2 DEF Adopt
<1> QED
  BY <1>1, <1>2, <1>3, <1>4, <1>5, <1>6

\* What no failure has touched stays as it is, and lets everybody in.
LEMMA NewBreakerStays ==
  /\ Look(NewBreaker) = NewBreaker
  /\ Admit(NewBreaker) = NewBreaker
  /\ RecordSuccess(NewBreaker) = NewBreaker
  /\ Cool(NewBreaker) = NewBreaker
  /\ Allows(NewBreaker)
BY DEF Look, Admit, TakesProbe, RecordSuccess, Cool, Allows, NewBreaker, CLOSED, OPEN,
   HALF_OPEN
=============================================================================
