------------------------ MODULE BreakerClusterProofs ------------------------
(***************************************************************************)
(* Proofs about the shared circuit breaker, for any number of replicas and *)
(* tasks and any threshold, cooldown and TTL.                              *)
(***************************************************************************)
EXTENDS BreakerCluster, CircuitBreakerProofs

\* The values the tasks and the keys start from, and what a write leaves in them.
LEMMA Values ==
  /\ NoReply \in Replies
  /\ NoKeys \in Keys
  /\ TypeOK => CountedKeys \in Keys
<1> USE ThresholdAssumption, CooldownAssumption, TimeAssumption
<1>1. NoReply \in Replies
  BY DEF NoReply, Replies
<1>2. NoKeys \in Keys
  BY DEF NoKeys, Keys
<1>3. ASSUME TypeOK PROVE CountedKeys \in Keys
  <2>1. key \in Keys
    BY <1>3 DEF TypeOK
  <2>2. Capped(key.fails + 1) \in 0..THRESHOLD
    BY <2>1 DEF Keys, Capped
  <2> QED
    BY <2>1, <2>2 DEF CountedKeys, Keys
<1> QED
  BY <1>1, <1>2, <1>3

\* A task that replaces its replica's breaker by a sound one keeps them all sound.
LEMMA BreakerStep ==
  ASSUME TypeOK, NEW t \in Tasks, NEW b \in SoundBreaker, SetBreaker(t, b)
  PROVE  breaker' \in [Replicas -> SoundBreaker]
BY HomeAssumption DEF TypeOK, SetBreaker

LEMMA LeaveType ==
  ASSUME TypeOK, NEW t \in Tasks, Leave(t)
  PROVE  /\ pc' \in [Tasks -> Locations]
         /\ probing' \in [Tasks -> BOOLEAN]
         /\ relayed' \in [Tasks -> BOOLEAN]
BY DEF TypeOK, Leave, Goto, Locations

LEMMA FailureRecordedType ==
  ASSUME TypeOK, NEW t \in Tasks, NEW b \in SoundBreaker, FailureRecorded(t, b)
  PROVE  /\ breaker' \in [Replicas -> SoundBreaker]
         /\ pc' \in [Tasks -> Locations]
         /\ probing' \in [Tasks -> BOOLEAN]
         /\ relayed' \in [Tasks -> BOOLEAN]
<1>1. CASE SetBreaker(t, IF relayed[t] THEN b ELSE Look(b)) /\ Leave(t)
  BY <1>1, LeaveType, BreakerStep, BreakerMethods
<1>2. CASE SetBreaker(t, b) /\ Goto(t, "calling") /\ UNCHANGED <<probing, relayed>>
  BY <1>2, BreakerStep DEF TypeOK, Goto, Locations
<1> QED
  BY <1>1, <1>2 DEF FailureRecorded

\* Types and sound breakers, at every step of every interleaving: TypeOK of the runs.
THEOREM TypeCorrect == Spec => []TypeOK
<1> USE HomeAssumption, TimeAssumption, ThresholdAssumption, CooldownAssumption
<1>1. Init => TypeOK
  <2> SUFFICES ASSUME Init PROVE TypeOK
    OBVIOUS
  <2>1. breaker \in [Replicas -> SoundBreaker]
    BY DEF Init, NewBreaker, SoundBreaker, Breaker, CLOSED
  <2>2. pc \in [Tasks -> Locations] /\ refreshIn \in [Replicas -> 0..REFRESH]
    BY DEF Init, Locations
  <2>3. reply \in [Tasks -> Replies] /\ key \in Keys
    BY Values DEF Init
  <2>4. probing \in [Tasks -> BOOLEAN] /\ relayed \in [Tasks -> BOOLEAN]
    BY DEF Init
  <2>5. healthy \in BOOLEAN
    BY DEF Init
  <2> QED
    BY <2>1, <2>2, <2>3, <2>4, <2>5 DEF TypeOK
<1>2. TypeOK /\ [Next]_vars => TypeOK'
  <2> SUFFICES ASSUME TypeOK, [Next]_vars PROVE TypeOK'
    OBVIOUS
  <2> DEFINE b(t) == breaker[Home[t]]
  <2>0. \A t \in Tasks : b(t) \in SoundBreaker
    BY DEF TypeOK
  <2>1. ASSUME NEW t \in Tasks, Arrive(t) PROVE TypeOK'
    <3>1. refreshIn' \in [Replicas -> 0..REFRESH]
      BY <2>1 DEF TypeOK, Arrive
    <3>2. pc' \in [Tasks -> Locations]
      BY <2>1 DEF TypeOK, Arrive, Goto, Locations
    <3> QED
      BY <2>1, <3>1, <3>2 DEF TypeOK, Arrive
  <2>2. ASSUME NEW t \in Tasks, ReadKeys(t) PROVE TypeOK'
    <3>0. Found \in Replies
      BY DEF TypeOK, Found, Replies, Keys
    <3>1. reply' \in [Tasks -> Replies]
      BY <2>2, <3>0 DEF TypeOK, ReadKeys
    <3>2. pc' \in [Tasks -> Locations]
      BY <2>2 DEF TypeOK, ReadKeys, Goto, Locations
    <3> QED
      BY <2>2, <3>1, <3>2 DEF TypeOK, ReadKeys
  <2>3. ASSUME NEW t \in Tasks, ApplyRead(t) PROVE TypeOK'
    <3>1. reply[t].fails \in Nat
      BY DEF TypeOK, Replies
    <3>2. /\ Look(b(t)) \in SoundBreaker
          /\ Adopt(Look(b(t)), OPEN, THRESHOLD) \in SoundBreaker
          /\ Adopt(Look(b(t)), Look(b(t)).state, reply[t].fails) \in SoundBreaker
      BY <2>0, <3>1, BreakerMethods
    <3>3. breaker' \in [Replicas -> SoundBreaker]
      BY <2>3, <3>2, BreakerStep DEF ApplyRead
    <3>4. pc' \in [Tasks -> Locations]
      BY <2>3 DEF TypeOK, ApplyRead, Goto, Locations
    <3>5. reply' \in [Tasks -> Replies]
      BY <2>3, Values DEF TypeOK, ApplyRead
    <3> QED
      BY <2>3, <3>3, <3>4, <3>5 DEF TypeOK, ApplyRead
  <2>4. ASSUME NEW t \in Tasks, ClaimProbe(t) PROVE TypeOK'
    <3>1. key' \in Keys
      BY <2>4 DEF TypeOK, ClaimProbe, Keys
    <3>2. reply' \in [Tasks -> Replies]
      <4>1. \A won \in BOOLEAN : Claim(won) \in Replies
        BY DEF Claim, Replies
      <4>2. PICK o \in RedisOutcomes :
              reply' = [reply EXCEPT ![t] = Claim(o = "ok" => key.probe = 0)]
        BY <2>4 DEF ClaimProbe
      <4>3. Claim(o = "ok" => key.probe = 0) \in Replies
        BY <4>1
      <4> QED
        BY <4>2, <4>3 DEF TypeOK
    <3> QED
      BY <2>4, <3>1, <3>2 DEF TypeOK, ClaimProbe, Goto, Locations
  <2>5. ASSUME NEW t \in Tasks, ApplyClaim(t) PROVE TypeOK'
    <3>1. breaker' \in [Replicas -> SoundBreaker]
      BY <2>0, <2>5, BreakerMethods, BreakerStep DEF ApplyClaim
    <3>2. reply' \in [Tasks -> Replies]
      BY <2>5, Values DEF TypeOK, ApplyClaim
    <3> QED
      BY <2>5, <3>1, <3>2 DEF TypeOK, ApplyClaim, Goto, Locations
  <2>6. ASSUME NEW t \in Tasks, Gate(t) PROVE TypeOK'
    <3>1. breaker' \in [Replicas -> SoundBreaker]
      BY <2>0, <2>6, BreakerMethods, BreakerStep DEF Gate
    <3>2. TakesProbe(b(t)) \in BOOLEAN
      BY DEF TakesProbe
    <3>3. /\ pc' \in [Tasks -> Locations]
          /\ probing' \in [Tasks -> BOOLEAN]
          /\ relayed' \in [Tasks -> BOOLEAN]
      BY <2>6, <3>2, LeaveType DEF TypeOK, Gate, Goto, Locations
    <3> QED
      BY <2>6, <3>1, <3>3 DEF TypeOK, Gate
  <2>7. ASSUME NEW t \in Tasks, FirstToken(t) PROVE TypeOK'
    BY <2>7 DEF TypeOK, FirstToken, Goto, Locations
  <2>8. ASSUME NEW t \in Tasks, Succeed(t) PROVE TypeOK'
    <3>1. breaker' \in [Replicas -> SoundBreaker]
      BY <2>0, <2>8, BreakerMethods, BreakerStep DEF Succeed
    <3> QED
      BY <2>8, <3>1 DEF TypeOK, Succeed, Goto, Locations
  <2>9. ASSUME NEW t \in Tasks, Fail(t) PROVE TypeOK'
    <3>1. breaker' \in [Replicas -> SoundBreaker]
      BY <2>0, <2>9, BreakerMethods, BreakerStep DEF Fail
    <3> QED
      BY <2>9, <3>1 DEF TypeOK, Fail, Goto, Locations
  <2>10. ASSUME NEW t \in Tasks, HangUp(t) PROVE TypeOK'
    BY <2>10, LeaveType DEF TypeOK, HangUp
  <2>11. ASSUME NEW t \in Tasks, ClearKeys(t) PROVE TypeOK'
    BY <2>11, LeaveType, Values DEF TypeOK, ClearKeys
  <2>12. ASSUME NEW t \in Tasks, CountFailure(t) PROVE TypeOK'
    <3>1. key' \in Keys /\ CountedKeys.fails \in 0..THRESHOLD
      BY <2>12, Values DEF TypeOK, CountFailure, Keys
    <3>2. reply' \in [Tasks -> Replies]
      BY <2>12, <3>1 DEF TypeOK, CountFailure, Replies
    <3>3. /\ breaker' \in [Replicas -> SoundBreaker]
          /\ pc' \in [Tasks -> Locations]
          /\ probing' \in [Tasks -> BOOLEAN]
          /\ relayed' \in [Tasks -> BOOLEAN]
      BY <2>0, <2>12, FailureRecordedType DEF TypeOK, CountFailure, Goto, Locations
    <3> QED
      BY <2>12, <3>1, <3>2, <3>3 DEF TypeOK, CountFailure
  <2>13. ASSUME NEW t \in Tasks, ApplyCount(t) PROVE TypeOK'
    <3>1. reply' \in [Tasks -> Replies]
      BY <2>13, Values DEF TypeOK, ApplyCount
    <3>2. /\ breaker' \in [Replicas -> SoundBreaker]
          /\ pc' \in [Tasks -> Locations]
          /\ probing' \in [Tasks -> BOOLEAN]
          /\ relayed' \in [Tasks -> BOOLEAN]
      BY <2>0, <2>13, FailureRecordedType DEF TypeOK, ApplyCount, Goto, Locations
    <3> QED
      BY <2>13, <3>1, <3>2 DEF TypeOK, ApplyCount
  <2>14. ASSUME NEW t \in Tasks, OpenKeys(t) PROVE TypeOK'
    <3>1. [NoKeys EXCEPT !.open = COOLDOWN] \in Keys
      BY Values DEF Keys
    <3>2. key' \in Keys
      BY <2>14, <3>1 DEF TypeOK, OpenKeys
    <3>3. /\ breaker' \in [Replicas -> SoundBreaker]
          /\ pc' \in [Tasks -> Locations]
          /\ probing' \in [Tasks -> BOOLEAN]
          /\ relayed' \in [Tasks -> BOOLEAN]
      BY <2>0, <2>14, FailureRecordedType DEF TypeOK, OpenKeys, Goto, Locations
    <3> QED
      BY <2>14, <3>2, <3>3 DEF TypeOK, OpenKeys
  <2>15. ASSUME NEW t \in Tasks, AdoptPooled(t) PROVE TypeOK'
    BY <2>0, <2>15, BreakerMethods, FailureRecordedType DEF TypeOK, AdoptPooled
  <2>16. ASSUME NEW r \in Replicas, OtherChainSync(r) PROVE TypeOK'
    BY <2>16 DEF TypeOK, OtherChainSync
  <2>17. ASSUME NEW r \in Replicas, Restart(r) PROVE TypeOK'
    <3>1. NewBreaker \in SoundBreaker
      BY DEF NewBreaker, SoundBreaker, Breaker, CLOSED
    <3>2. breaker' \in [Replicas -> SoundBreaker] /\ refreshIn' \in [Replicas -> 0..REFRESH]
      BY <2>17, <3>1 DEF TypeOK, Restart
    <3>3. pc' \in [Tasks -> Locations]
      BY <2>17 DEF TypeOK, Restart, Locations
    <3>4. reply' \in [Tasks -> Replies]
      BY <2>17, Values DEF TypeOK, Restart
    <3>5. probing' \in [Tasks -> BOOLEAN] /\ relayed' \in [Tasks -> BOOLEAN]
      BY <2>17 DEF TypeOK, Restart
    <3> QED
      BY <2>17, <3>2, <3>3, <3>4, <3>5 DEF TypeOK, Restart
  <2>18. CASE Recover
    BY <2>18 DEF TypeOK, Recover
  <2>19. CASE Tick
    <3>1. breaker' \in [Replicas -> SoundBreaker]
      BY <2>19, BreakerMethods DEF TypeOK, Tick
    <3>2. refreshIn' \in [Replicas -> 0..REFRESH]
      BY <2>19 DEF TypeOK, Tick, Down
    <3>3. key' \in Keys
      BY <2>19 DEF TypeOK, Tick, Keys, Down
    <3> QED
      BY <2>19, <3>1, <3>2, <3>3 DEF TypeOK, Tick
  <2>20. CASE UNCHANGED vars
    BY <2>20 DEF TypeOK, vars
  <2> QED
    BY <2>1, <2>2, <2>3, <2>4, <2>5, <2>6, <2>7, <2>8, <2>9, <2>10, <2>11, <2>12, <2>13,
       <2>14, <2>15, <2>16, <2>17, <2>18, <2>19, <2>20 DEF Next, Serve
<1> QED
  BY <1>1, <1>2, PTL DEF Spec

-----------------------------------------------------------------------------
(***************************************************************************)
(* The probe flag has an owner.                                            *)
(*                                                                         *)
(* ProbeHasOwner is inductive together with TypeOK: the flag appears only  *)
(* in Gate, with its owner; a task leaves its call only in Succeed and     *)
(* Fail, which leave no flag behind on its replica; the adoptions clear    *)
(* the flag or keep it.  HangUp is the one step that breaks it.            *)
(***************************************************************************)

OthersStay(t) == \A u \in Tasks \ {t} : pc'[u] = pc[u] /\ probing'[u] = probing[u]
NoNewProbe    == \A r \in Replicas : breaker'[r].probe => breaker[r].probe

\* A step of a task outside its call that raises no flag leaves every owner where it was.
LEMMA OwnersKept ==
  ASSUME ProbeHasOwner, NEW t \in Tasks, ~InCall(t), OthersStay(t), NoNewProbe
  PROVE  ProbeHasOwner'
<1> SUFFICES ASSUME NEW r \in Replicas, breaker'[r].probe
             PROVE  \E u \in Tasks : Home[u] = r /\ probing'[u] /\ InCall(u)'
  BY DEF ProbeHasOwner
<1>1. PICK u \in Tasks : Home[u] = r /\ probing[u] /\ InCall(u)
  BY DEF ProbeHasOwner, NoNewProbe
<1>2. u # t
  BY <1>1
<1> QED
  BY <1>1, <1>2 DEF OthersStay, InCall

\* The ways a step writes the variables keep the other tasks and raise no flag.
LEMMA TaskWrites ==
  ASSUME TypeOK, NEW t \in Tasks
  PROVE  /\ \A l : Goto(t, l) /\ UNCHANGED probing => OthersStay(t)
         /\ Leave(t) => OthersStay(t)
         /\ UNCHANGED breaker => NoNewProbe
         /\ \A b : SetBreaker(t, b) /\ (b.probe => breaker[Home[t]].probe) => NoNewProbe
BY HomeAssumption DEF TypeOK, Goto, Leave, OthersStay, NoNewProbe, SetBreaker

LEMMA FailureRecordedOwners ==
  ASSUME TypeOK, NEW t \in Tasks, NEW b \in SoundBreaker,
         b.probe => breaker[Home[t]].probe, FailureRecorded(t, b)
  PROVE  OthersStay(t) /\ NoNewProbe
<1>1. Look(b).probe => breaker[Home[t]].probe
  BY ProbeFlag
<1>2. CASE SetBreaker(t, IF relayed[t] THEN b ELSE Look(b)) /\ Leave(t)
  BY <1>1, <1>2, TaskWrites
<1>3. CASE SetBreaker(t, b) /\ Goto(t, "calling") /\ UNCHANGED <<probing, relayed>>
  BY <1>3, TaskWrites
<1> QED
  BY <1>2, <1>3 DEF FailureRecorded

\* No client abandons a stream: then a breaker never waits for a probe that is not there.
THEOREM ProbeOwned ==
  ASSUME HANGUPS = FALSE
  PROVE  Spec => []ProbeHasOwner
<1> USE HomeAssumption
<1>1. Init => ProbeHasOwner
  BY DEF Init, ProbeHasOwner, NewBreaker
<1>2. TypeOK /\ ProbeHasOwner /\ [Next]_vars => ProbeHasOwner'
  <2> SUFFICES ASSUME TypeOK, ProbeHasOwner, [Next]_vars PROVE ProbeHasOwner'
    OBVIOUS
  <2> DEFINE b(t) == breaker[Home[t]]
  <2>0. \A t \in Tasks : b(t) \in SoundBreaker
    BY DEF TypeOK
  <2>1. ASSUME NEW t \in Tasks, Arrive(t) PROVE ProbeHasOwner'
    <3>1. ~InCall(t) /\ OthersStay(t) /\ NoNewProbe
      BY <2>1, TaskWrites DEF Arrive, InCall
    <3> QED
      BY <3>1, OwnersKept
  <2>2. ASSUME NEW t \in Tasks, ReadKeys(t) PROVE ProbeHasOwner'
    <3>1. ~InCall(t) /\ OthersStay(t) /\ NoNewProbe
      BY <2>2, TaskWrites DEF ReadKeys, InCall
    <3> QED
      BY <3>1, OwnersKept
  <2>3. ASSUME NEW t \in Tasks, ApplyRead(t) PROVE ProbeHasOwner'
    <3>1. reply[t].fails \in Nat /\ THRESHOLD \in Nat
      BY ThresholdAssumption DEF TypeOK, Replies
    <3>2. Look(b(t)) \in SoundBreaker
      BY <2>0, BreakerMethods
    <3>3. /\ Adopt(Look(b(t)), OPEN, THRESHOLD).probe => b(t).probe
          /\ Look(b(t)).probe => b(t).probe
          /\ Adopt(Look(b(t)), Look(b(t)).state, reply[t].fails).probe => b(t).probe
      BY <2>0, <3>1, <3>2, ProbeFlag
    <3>4. ~InCall(t) /\ OthersStay(t) /\ NoNewProbe
      BY <2>3, <3>3, TaskWrites DEF ApplyRead, InCall
    <3> QED
      BY <3>4, OwnersKept
  <2>4. ASSUME NEW t \in Tasks, ClaimProbe(t) PROVE ProbeHasOwner'
    <3>1. ~InCall(t) /\ OthersStay(t) /\ NoNewProbe
      BY <2>4, TaskWrites DEF ClaimProbe, InCall
    <3> QED
      BY <3>1, OwnersKept
  <2>5. ASSUME NEW t \in Tasks, ApplyClaim(t) PROVE ProbeHasOwner'
    <3>1. ~Adopt(b(t), HALF_OPEN, 0).probe
      BY <2>0, ProbeFlag
    <3>2. ~InCall(t) /\ OthersStay(t) /\ NoNewProbe
      BY <2>5, <3>1, TaskWrites DEF ApplyClaim, InCall
    <3> QED
      BY <3>2, OwnersKept
  <2>6. ASSUME NEW t \in Tasks, Gate(t) PROVE ProbeHasOwner'
    <3>1. ~InCall(t) /\ OthersStay(t)
      BY <2>6, TaskWrites DEF Gate, InCall, TypeOK, Goto, OthersStay
    <3>2. Admit(b(t)).probe => b(t).probe \/ TakesProbe(b(t))
      BY <2>0, ProbeFlag
    <3>3. CASE ~TakesProbe(b(t))
      <4>1. NoNewProbe
        BY <2>6, <3>2, <3>3, TaskWrites DEF Gate
      <4> QED
        BY <3>1, <4>1, OwnersKept
    <3>4. CASE TakesProbe(b(t))
      <4>1. /\ pc'[t] = "calling" /\ probing'[t]
            /\ \A r \in Replicas : r # Home[t] => breaker'[r] = breaker[r]
        BY <2>6, <3>4 DEF Gate, Allows, TakesProbe, TypeOK, Goto, SetBreaker
      <4> SUFFICES ASSUME NEW r \in Replicas, breaker'[r].probe
                   PROVE  \E u \in Tasks : Home[u] = r /\ probing'[u] /\ InCall(u)'
        BY DEF ProbeHasOwner
      <4>2. CASE r = Home[t]
        BY <4>1, <4>2 DEF InCall
      <4>3. CASE r # Home[t]
        <5>1. PICK u \in Tasks : Home[u] = r /\ probing[u] /\ InCall(u)
          BY <4>1, <4>3 DEF ProbeHasOwner
        <5> QED
          BY <3>1, <5>1, <4>3 DEF OthersStay, InCall
      <4> QED
        BY <4>2, <4>3
    <3> QED
      BY <3>3, <3>4
  <2>7. ASSUME NEW t \in Tasks, FirstToken(t) PROVE ProbeHasOwner'
    <3>1. \A u \in Tasks : (InCall(u) => InCall(u)') /\ probing'[u] = probing[u]
      BY <2>7 DEF FirstToken, InCall, Goto, TypeOK
    <3> QED
      BY <2>7, <3>1 DEF ProbeHasOwner, FirstToken
  <2>8. ASSUME NEW t \in Tasks, Succeed(t) \/ Fail(t) PROVE ProbeHasOwner'
    <3>1. /\ OthersStay(t)
          /\ \A r \in Replicas : r # Home[t] => breaker'[r] = breaker[r]
      BY <2>8 DEF Succeed, Fail, Goto, OthersStay, TypeOK, SetBreaker
    <3>2. ~RecordSuccess(b(t)).probe /\ ~RecordFailure(b(t)).probe
      BY <2>0, ProbeFlag
    <3>3. ~breaker'[Home[t]].probe
      BY <2>8, <3>2 DEF Succeed, Fail, SetBreaker, TypeOK
    <3> SUFFICES ASSUME NEW r \in Replicas, breaker'[r].probe
                 PROVE  \E u \in Tasks : Home[u] = r /\ probing'[u] /\ InCall(u)'
      BY DEF ProbeHasOwner
    <3>4. r # Home[t]
      BY <3>3
    <3>5. PICK u \in Tasks : Home[u] = r /\ probing[u] /\ InCall(u)
      BY <3>1, <3>4 DEF ProbeHasOwner
    <3> QED
      BY <3>1, <3>4, <3>5 DEF OthersStay, InCall
  <2>9. ASSUME NEW t \in Tasks, HangUp(t) PROVE FALSE
    BY <2>9 DEF HangUp
  <2>10. ASSUME NEW t \in Tasks, ClearKeys(t) PROVE ProbeHasOwner'
    <3>1. ~InCall(t) /\ OthersStay(t) /\ NoNewProbe
      BY <2>10, TaskWrites DEF ClearKeys, InCall
    <3> QED
      BY <3>1, OwnersKept
  <2>11. ASSUME NEW t \in Tasks, CountFailure(t) \/ ApplyCount(t) \/ OpenKeys(t)
         PROVE  ProbeHasOwner'
    <3>1. FailureRecorded(t, b(t)) => OthersStay(t) /\ NoNewProbe
      BY <2>0, FailureRecordedOwners
    <3>2. ~InCall(t) /\ OthersStay(t) /\ NoNewProbe
      BY <2>11, <3>1, TaskWrites DEF CountFailure, ApplyCount, OpenKeys, InCall
    <3> QED
      BY <3>2, OwnersKept
  <2>12. ASSUME NEW t \in Tasks, AdoptPooled(t) PROVE ProbeHasOwner'
    <3> DEFINE a == Adopt(b(t), OPEN, THRESHOLD)
    <3>1. a \in SoundBreaker /\ ~a.probe
      BY <2>0, ThresholdAssumption, BreakerMethods, ProbeFlag
    <3>2. FailureRecorded(t, a) /\ ~InCall(t)
      BY <2>12 DEF AdoptPooled, InCall
    <3> HIDE DEF a
    <3>3. OthersStay(t) /\ NoNewProbe
      BY <3>1, <3>2, FailureRecordedOwners
    <3> QED
      BY <3>2, <3>3, OwnersKept
  <2>13. ASSUME NEW r \in Replicas, OtherChainSync(r) PROVE ProbeHasOwner'
    BY <2>13 DEF ProbeHasOwner, OtherChainSync, InCall
  <2>14. ASSUME NEW q \in Replicas, Restart(q) PROVE ProbeHasOwner'
    <3>1. ~breaker'[q].probe
      BY <2>14 DEF Restart, NewBreaker, TypeOK
    <3> SUFFICES ASSUME NEW r \in Replicas, breaker'[r].probe
                 PROVE  \E u \in Tasks : Home[u] = r /\ probing'[u] /\ InCall(u)'
      BY DEF ProbeHasOwner
    <3>2. r # q /\ breaker'[r] = breaker[r]
      BY <2>14, <3>1 DEF Restart, TypeOK
    <3>3. PICK u \in Tasks : Home[u] = r /\ probing[u] /\ InCall(u)
      BY <3>2 DEF ProbeHasOwner
    <3> QED
      BY <2>14, <3>2, <3>3 DEF Restart, InCall, TypeOK
  <2>15. CASE Recover
    BY <2>15 DEF ProbeHasOwner, Recover, InCall
  <2>16. CASE Tick
    <3>1. NoNewProbe
      BY <2>16, ProbeFlag DEF Tick, NoNewProbe, TypeOK
    <3> QED
      BY <2>16, <3>1 DEF ProbeHasOwner, NoNewProbe, Tick, InCall
  <2>17. CASE UNCHANGED vars
    BY <2>17 DEF ProbeHasOwner, vars, InCall
  <2> QED
    BY <2>1, <2>2, <2>3, <2>4, <2>5, <2>6, <2>7, <2>8, <2>9, <2>10, <2>11, <2>12, <2>13,
       <2>14, <2>15, <2>16, <2>17 DEF Next, Serve
<1> QED
  BY <1>1, <1>2, TypeCorrect, PTL DEF Spec

-----------------------------------------------------------------------------
(***************************************************************************)
(* Pooled failures are acted on.                                           *)
(*                                                                         *)
(* Inductive with TypeOK: only CountFailure brings the shared count to the *)
(* threshold, and the reply it leaves its task is that count; the task     *)
(* gives it up only by going for _open, and _open and a success bring the  *)
(* count back to nothing.                                                  *)
(***************************************************************************)

\* A step that adds no failure, and neither moves a task that will open nor takes its
\* reply, keeps the property.
LEMMA OpenersKept ==
  ASSUME PooledFailuresOpen, key'.fails >= THRESHOLD => key.fails >= THRESHOLD,
         \A u \in Tasks : WillOpen(u) => WillOpen(u)'
  PROVE  PooledFailuresOpen'
BY DEF PooledFailuresOpen

\* While Redis answers and no replica is killed, a shared count at the threshold always
\* has a replica about to publish the open circuit.
THEOREM PooledFailuresAct ==
  ASSUME RedisOutcomes \subseteq {"ok"}, RESTARTS = FALSE
  PROVE  Spec => []PooledFailuresOpen
<1> USE HomeAssumption, ThresholdAssumption
<1>1. Init => PooledFailuresOpen
  BY DEF Init, PooledFailuresOpen, NoKeys
<1>2. TypeOK /\ PooledFailuresOpen /\ [Next]_vars => PooledFailuresOpen'
  <2> SUFFICES ASSUME TypeOK, PooledFailuresOpen, [Next]_vars PROVE PooledFailuresOpen'
    OBVIOUS
  <2>1. ASSUME NEW t \in Tasks,
               \/ Arrive(t) \/ ReadKeys(t) \/ ApplyRead(t) \/ ClaimProbe(t)
               \/ ApplyClaim(t) \/ FirstToken(t) \/ Succeed(t) \/ Fail(t) \/ AdoptPooled(t)
               \/ Gate(t) \/ HangUp(t)
        PROVE  PooledFailuresOpen'
    <3>1. ~WillOpen(t)
      BY <2>1 DEF WillOpen, Arrive, ReadKeys, ApplyRead, ClaimProbe, ApplyClaim, FirstToken,
         Succeed, Fail, AdoptPooled, Gate, HangUp
    <3>2. \A u \in Tasks \ {t} : pc'[u] = pc[u] /\ reply'[u] = reply[u]
      BY <2>1 DEF TypeOK, Goto, Leave, FailureRecorded, Arrive, ReadKeys, ApplyRead,
         ClaimProbe, ApplyClaim, FirstToken, Succeed, Fail, AdoptPooled, Gate, HangUp
    <3>3. key'.fails = key.fails
      <4>1. key' = key \/ ClaimProbe(t)
        BY <2>1 DEF Arrive, ReadKeys, ApplyRead, ApplyClaim, FirstToken, Succeed, Fail,
           AdoptPooled, Gate, HangUp
      <4>2. ClaimProbe(t) => key'.fails = key.fails
        BY DEF ClaimProbe, TypeOK, Keys
      <4> QED
        BY <4>1, <4>2
    <3> QED
      BY <3>1, <3>2, <3>3, OpenersKept DEF WillOpen
  <2>2. ASSUME NEW t \in Tasks, ClearKeys(t) \/ OpenKeys(t) PROVE PooledFailuresOpen'
    <3>1. key'.fails = 0
      BY <2>2 DEF ClearKeys, OpenKeys, NoKeys
    <3> QED
      BY <3>1 DEF PooledFailuresOpen
  <2>3. ASSUME NEW t \in Tasks, CountFailure(t) PROVE PooledFailuresOpen'
    <3>1. /\ key' = CountedKeys /\ pc'[t] = "failed"
          /\ reply'[t].fails = CountedKeys.fails
      BY <2>3 DEF CountFailure, Goto, TypeOK, Replies
    <3> QED
      BY <3>1 DEF PooledFailuresOpen, WillOpen
  <2>4. ASSUME NEW t \in Tasks, ApplyCount(t) PROVE PooledFailuresOpen'
    <3>1. \A u \in Tasks \ {t} : pc'[u] = pc[u] /\ reply'[u] = reply[u]
      BY <2>4 DEF ApplyCount, FailureRecorded, Leave, Goto, TypeOK
    <3>2. WillOpen(t) => pc'[t] = "pool"
      BY <2>4 DEF ApplyCount, WillOpen, PooledReached, Goto, TypeOK
    <3>3. key' = key
      BY <2>4 DEF ApplyCount
    <3> QED
      BY <3>1, <3>2, <3>3, OpenersKept DEF WillOpen
  <2>5. ASSUME NEW r \in Replicas, OtherChainSync(r) PROVE PooledFailuresOpen'
    BY <2>5 DEF PooledFailuresOpen, WillOpen, OtherChainSync
  <2>6. ASSUME NEW r \in Replicas, Restart(r) PROVE FALSE
    BY <2>6 DEF Restart
  <2>7. CASE Recover
    BY <2>7 DEF PooledFailuresOpen, WillOpen, Recover
  <2>8. CASE Tick
    <3>1. key'.fails >= THRESHOLD => key.fails >= THRESHOLD
      BY <2>8 DEF Tick
    <3> QED
      BY <2>8, <3>1 DEF PooledFailuresOpen, WillOpen, Tick
  <2>9. CASE UNCHANGED vars
    BY <2>9 DEF PooledFailuresOpen, WillOpen, vars
  <2> QED
    BY <2>1, <2>2, <2>3, <2>4, <2>5, <2>6, <2>7, <2>8, <2>9 DEF Next, Serve
<1> QED
  BY <1>1, <1>2, TypeCorrect, PTL DEF Spec

-----------------------------------------------------------------------------
(***************************************************************************)
(* Without Redis the replicas are on their own.                            *)
(***************************************************************************)

\* With every command raising, no task ever has a reply to act on.
NothingHeard ==
  \A t \in Tasks : pc[t] \notin {"synced", "claim", "claimed", "failed", "pool", "pooled"}

LEMMA NeverHeard ==
  ASSUME RedisOutcomes \subseteq {"err"}
  PROVE  Spec => []NothingHeard
<1>1. Init => NothingHeard
  BY DEF Init, NothingHeard
<1>2. TypeOK /\ NothingHeard /\ [Next]_vars => NothingHeard'
  <2> SUFFICES ASSUME TypeOK, NothingHeard, [Next]_vars PROVE NothingHeard'
    OBVIOUS
  <2>1. ASSUME NEW t \in Tasks, Arrive(t) \/ ReadKeys(t) \/ Gate(t) \/ FirstToken(t)
        PROVE  NothingHeard'
    BY <2>1 DEF NothingHeard, TypeOK, Arrive, ReadKeys, Gate, FirstToken, Goto, Leave
  <2>2. ASSUME NEW t \in Tasks, Succeed(t) \/ Fail(t) \/ HangUp(t) \/ ClearKeys(t)
        PROVE  NothingHeard'
    BY <2>2 DEF NothingHeard, TypeOK, Succeed, Fail, HangUp, ClearKeys, Goto, Leave
  <2>3. ASSUME NEW t \in Tasks, CountFailure(t) \/ OpenKeys(t)
        PROVE  NothingHeard'
    <3>1. FailureRecorded(t, breaker[Home[t]])
      BY <2>3 DEF NothingHeard, CountFailure, OpenKeys
    <3> QED
      BY <3>1 DEF NothingHeard, TypeOK, FailureRecorded, Goto, Leave
  <2>4. ASSUME NEW t \in Tasks, ApplyRead(t) \/ ClaimProbe(t) \/ ApplyClaim(t)
                                \/ ApplyCount(t) \/ AdoptPooled(t)
        PROVE  FALSE
    BY <2>4 DEF NothingHeard, ApplyRead, ClaimProbe, ApplyClaim, ApplyCount, AdoptPooled
  <2>5. ASSUME NEW r \in Replicas, OtherChainSync(r) \/ Restart(r) PROVE NothingHeard'
    BY <2>5 DEF NothingHeard, OtherChainSync, Restart, TypeOK
  <2>6. CASE Recover \/ Tick \/ UNCHANGED vars
    BY <2>6 DEF NothingHeard, Recover, Tick, vars
  <2> QED
    BY <2>1, <2>2, <2>3, <2>4, <2>5, <2>6 DEF Next, Serve
<1> QED
  BY <1>1, <1>2, TypeCorrect, PTL DEF Spec

\* The instance has the class's methods under names of its own: they are the same.
LEMMA SameMethods ==
  /\ Local!NewBreaker = NewBreaker
  /\ \A b : /\ Local!Look(b) = Look(b)
            /\ Local!Allows(b) <=> Allows(b)
            /\ Local!Admit(b) = Admit(b)
            /\ Local!RecordSuccess(b) = RecordSuccess(b)
            /\ Local!RecordFailure(b) = RecordFailure(b)
            /\ Local!Cool(b) = Cool(b)
<1> USE DEF CLOSED, OPEN, HALF_OPEN, Local!CLOSED, Local!OPEN, Local!HALF_OPEN
<1>1. Local!NewBreaker = NewBreaker
  BY DEF NewBreaker, Local!NewBreaker
<1>2. ASSUME NEW b PROVE Local!Look(b) = Look(b)
  BY DEF Look, Local!Look
<1>3. ASSUME NEW b PROVE Local!TakesProbe(b) <=> TakesProbe(b)
  BY <1>2 DEF TakesProbe, Local!TakesProbe
<1>4. ASSUME NEW b PROVE Local!Allows(b) <=> Allows(b)
  BY <1>2 DEF Allows, Local!Allows
<1>5. ASSUME NEW b PROVE Local!Admit(b) = Admit(b)
  BY <1>2, <1>3 DEF Admit, Local!Admit
<1>6. ASSUME NEW b PROVE Local!RecordSuccess(b) = RecordSuccess(b)
  BY <1>1 DEF RecordSuccess, Local!RecordSuccess
<1>7. ASSUME NEW b PROVE Local!RecordFailure(b) = RecordFailure(b)
  <2>1. Local!Counted(b) = Counted(b)
    BY DEF Counted, Local!Counted, Capped, Local!Capped
  <2>2. Local!Look(Local!Counted(b)) = Look(Counted(b))
    BY <2>1, <1>2
  <2>3. Local!FailureOpens(b) <=> FailureOpens(b)
    BY <2>2 DEF FailureOpens, Local!FailureOpens
  <2> QED
    BY <2>2, <2>3 DEF RecordFailure, Local!RecordFailure
<1>8. ASSUME NEW b PROVE Local!Cool(b) = Cool(b)
  BY DEF Cool, Local!Cool
<1> QED
  BY <1>1, <1>2, <1>4, <1>5, <1>6, <1>7, <1>8

\* "Exactly how the gateway behaved before any of this existed": with Redis unreachable
\* the cluster of breakers implements replicas that share nothing.
THEOREM RedisDownIsLocal ==
  ASSUME RedisOutcomes \subseteq {"err"}
  PROVE  Spec => WithoutRedisLocal
<1> USE HomeAssumption
<1>1. Init => Local!Init
  BY SameMethods DEF Init, Local!Init
<1>2. TypeOK /\ NothingHeard /\ [Next]_vars => [Local!Next]_breaker
  <2> SUFFICES ASSUME TypeOK, NothingHeard, [Next]_vars PROVE Local!Next \/ UNCHANGED breaker
    OBVIOUS
  <2>0. \A t \in Tasks : Home[t] \in Replicas
    OBVIOUS
  <2>1. ASSUME NEW t \in Tasks, Arrive(t) \/ ReadKeys(t) \/ FirstToken(t) \/ HangUp(t)
                                \/ ClearKeys(t)
        PROVE  UNCHANGED breaker
    BY <2>1 DEF Arrive, ReadKeys, FirstToken, HangUp, ClearKeys
  <2>2. ASSUME NEW t \in Tasks, Gate(t) PROVE Local!Next
    <3>1. Local!AllowRequest(Home[t]) \/ Local!LookAt(Home[t])
      <4>1. CASE Allows(breaker[Home[t]])
        BY <2>2, <4>1, SameMethods DEF Gate, SetBreaker, Local!AllowRequest, Local!Becomes
      <4>2. CASE ~Allows(breaker[Home[t]])
        <5>1. Admit(breaker[Home[t]]) = Look(breaker[Home[t]])
          BY <4>2 DEF Admit, Allows, TakesProbe
        <5> QED
          BY <2>2, <5>1, SameMethods DEF Gate, SetBreaker, Local!LookAt, Local!Becomes
      <4> QED
        BY <4>1, <4>2
    <3> QED
      BY <2>0, <3>1 DEF Local!Next
  <2>3. ASSUME NEW t \in Tasks, Succeed(t) PROVE Local!Next
    BY <2>0, <2>3, SameMethods DEF Succeed, SetBreaker, Local!Next, Local!Success, Local!Becomes
  <2>4. ASSUME NEW t \in Tasks, Fail(t) PROVE Local!Next
    BY <2>0, <2>4, SameMethods DEF Fail, SetBreaker, Local!Next, Local!Failure, Local!Becomes
  <2>5. ASSUME NEW t \in Tasks, CountFailure(t) \/ OpenKeys(t)
        PROVE  Local!Next \/ UNCHANGED breaker
    <3> DEFINE b == breaker[Home[t]]
    <3>1. FailureRecorded(t, b)
      BY <2>5 DEF NothingHeard, CountFailure, OpenKeys
    <3>2. SetBreaker(t, b) \/ SetBreaker(t, Look(b))
      <4>1. CASE relayed[t]
        BY <3>1, <4>1 DEF FailureRecorded
      <4>2. CASE ~relayed[t]
        BY <3>1, <4>2 DEF FailureRecorded
      <4> QED
        BY <4>1, <4>2
    <3>3. CASE SetBreaker(t, b)
      BY <3>3 DEF SetBreaker, TypeOK
    <3>4. CASE SetBreaker(t, Look(b))
      BY <2>0, <3>4, SameMethods DEF SetBreaker, Local!Next, Local!LookAt, Local!Becomes
    <3> QED
      BY <3>2, <3>3, <3>4
  <2>6. ASSUME NEW t \in Tasks, ApplyRead(t) \/ ClaimProbe(t) \/ ApplyClaim(t)
                                \/ ApplyCount(t) \/ AdoptPooled(t)
        PROVE  FALSE
    BY <2>6 DEF NothingHeard, ApplyRead, ClaimProbe, ApplyClaim, ApplyCount, AdoptPooled
  <2>7. ASSUME NEW r \in Replicas, OtherChainSync(r) PROVE UNCHANGED breaker
    BY <2>7 DEF OtherChainSync
  <2>8. ASSUME NEW r \in Replicas, Restart(r) PROVE Local!Next
    BY <2>8, SameMethods DEF Restart, Local!Next, Local!Restart, Local!Becomes
  <2>9. CASE Recover
    BY <2>9 DEF Recover
  <2>10. CASE Tick
    BY <2>10, SameMethods DEF Tick, Local!Next, Local!Tick
  <2>11. CASE UNCHANGED vars
    BY <2>11 DEF vars
  <2> QED
    BY <2>1, <2>2, <2>3, <2>4, <2>5, <2>6, <2>7, <2>8, <2>9, <2>10, <2>11 DEF Next, Serve
<1> QED
  BY <1>1, <1>2, NeverHeard, TypeCorrect, PTL DEF Spec, WithoutRedisLocal, Local!Spec
=============================================================================
