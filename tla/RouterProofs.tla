---------------------------- MODULE RouterProofs ----------------------------
(***************************************************************************)
(* A healthy deployment saves every request, for any chain, any number of  *)
(* concurrent requests and any retry budget.                               *)
(*                                                                         *)
(* HealthyServes alone is not inductive: that no request has failed says   *)
(* nothing of where the walks are.  The invariant adds why they stop: the  *)
(* breaker of a healthy deployment is as new, so it lets everybody in, and *)
(* nobody has walked past such a deployment.                               *)
(*                                                                         *)
(* The second part, on top of it, shows that the choice is locked in: an   *)
(* answered request stays at the deployment that answered it.              *)
(*                                                                         *)
(* The third counts what a request reports: the attempts at a position it  *)
(* has passed are one skip, or as many failures as it has calls to make.   *)
(***************************************************************************)
EXTENDS Router, CircuitBreakerProofs, FiniteSetTheorems

InDeployment == {"calling", "told", "sleep", "relaying"}

\* Where a request can be: not past a healthy deployment, and not out of the chain while
\* it deals with a deployment.
NotPast(q) ==
  /\ \A p \in 1..pos[q] - 1 : Chain[q][p] \notin Healthy
  /\ pos[q] <= Len(Chain[q]) + 1
  /\ pc[q] \in InDeployment => pos[q] <= Len(Chain[q])
  /\ pc[q] = "told" => Dep(q) \notin Healthy
  /\ result[q] = "all_failed" => pos[q] = Len(Chain[q]) + 1

HealthyUntouched == \A d \in Healthy : breaker[d] = NewBreaker

IInv == TypeOK /\ HealthyUntouched /\ (\A q \in Requests : NotPast(q))

\* A step of request q that leaves the other requests where they are need only be right
\* about q.
LEMMA OneMoves ==
  ASSUME NEW q \in Requests, \A u \in Requests : NotPast(u), NotPast(q)',
         \A u \in Requests \ {q} : /\ pc'[u] = pc[u] /\ pos'[u] = pos[u]
                                   /\ result'[u] = result[u]
  PROVE  \A u \in Requests : NotPast(u)'
BY DEF NotPast, Dep

\* A function keeps its type when one argument gets another value of it.
LEMMA Updated ==
  ASSUME NEW S, NEW T, NEW f \in [S -> T], NEW x, NEW v \in T
  PROVE  [f EXCEPT ![x] = v] \in [S -> T]
OBVIOUS

LEMMA ChainLength ==
  \A q \in Requests : /\ Len(Chain[q]) \in Nat
                      /\ \A p \in 1..Len(Chain[q]) : Chain[q][p] \in Deployments
BY ChainAssumption

\* A breaker set for one deployment: the array stays typed, and the healthy stay untouched
\* when it is as new or the deployment is not healthy.
LEMMA BreakerSet ==
  ASSUME TypeOK, NEW d \in Deployments, NEW b \in SoundBreaker, SetBreaker(d, b)
  PROVE  /\ breaker' \in [Deployments -> SoundBreaker]
         /\ HealthyUntouched /\ (d \in Healthy => b = NewBreaker) => HealthyUntouched'
BY HealthyAssumption DEF TypeOK, SetBreaker, HealthyUntouched

LEMMA ReportType ==
  ASSUME TypeOK, NEW q \in Requests, pos[q] <= Len(Chain[q]), NEW o \in Outcomes, Report(q, o)
  PROVE  attempts' \in [Requests -> Seq(Attempt)]
<1>1. [pos |-> pos[q], outcome |-> o] \in Attempt
  BY ChainLength DEF TypeOK, Attempt
<1> QED
  BY <1>1 DEF TypeOK, Report

LEMMA Initially == Init => IInv
<1> SUFFICES ASSUME Init PROVE IInv
  OBVIOUS
<1> USE ChainLength
<1>1. breaker \in [Deployments -> SoundBreaker]
  BY ThresholdAssumption, CooldownAssumption
     DEF Init, NewBreaker, SoundBreaker, Breaker, CLOSED
<1>2. stream \in [Requests -> BOOLEAN]
  BY DEF Init
<1>3. pos \in [Requests -> Nat \ {0}] /\ retry \in [Requests -> Nat]
  BY DEF Init
<1>4. /\ pc \in [Requests -> Locations] /\ result \in [Requests -> Results]
      /\ attempts \in [Requests -> Seq(Attempt)]
  BY DEF Init, Locations, Results
<1>5. HealthyUntouched
  BY HealthyAssumption DEF Init, HealthyUntouched
<1>6. \A q \in Requests : NotPast(q)
  BY DEF Init, NotPast, InDeployment
<1> QED
  BY <1>1, <1>2, <1>3, <1>4, <1>5, <1>6 DEF IInv, TypeOK

\* The breakers a sync leaves: sound ones, and a healthy deployment's as it was.
LEMMA SyncedType ==
  ASSUME TypeOK, NEW d \in Deployments
  PROVE  /\ Synced(d) \subseteq SoundBreaker
         /\ d \in Healthy => Synced(d) = {breaker[d]}
<1> DEFINE b == breaker[d]
<1>1. b \in SoundBreaker
  BY DEF TypeOK
<1>2. Look(b) \in SoundBreaker
  BY <1>1, BreakerMethods
<1>3. \A n \in 1..THRESHOLD : Adopt(Look(b), Look(b).state, n) \in SoundBreaker
  BY <1>1, ThresholdAssumption, BreakerMethods
<1>4. Adopt(Look(b), OPEN, THRESHOLD) \in SoundBreaker /\ Adopt(Look(b), HALF_OPEN, 0) \in SoundBreaker
  BY <1>2, ThresholdAssumption, BreakerMethods
<1> QED
  BY <1>1, <1>2, <1>3, <1>4 DEF Synced

\* What a failure may leave.
LEMMA FailureType ==
  ASSUME TypeOK, NEW d \in Deployments, d \notin Healthy, HealthyUntouched, RecordsFailure(d)
  PROVE  breaker' \in [Deployments -> SoundBreaker] /\ HealthyUntouched'
<1>1. RecordFailure(breaker[d]) \in SoundBreaker
  BY BreakerMethods DEF TypeOK
<1>2. Adopt(RecordFailure(breaker[d]), OPEN, THRESHOLD) \in SoundBreaker
  BY <1>1, ThresholdAssumption, BreakerMethods
<1> QED
  BY <1>1, <1>2, BreakerSet DEF RecordsFailure

LEMMA Step ==
  ASSUME IInv, [Next]_vars
  PROVE  IInv'
<1> USE ChainLength
<1>0. TypeOK /\ HealthyUntouched /\ (\A q \in Requests : NotPast(q))
  BY DEF IInv
<1> DEFINE b(q) == breaker[Dep(q)]
<1>d. \A q \in Requests : pos[q] <= Len(Chain[q]) =>
         /\ Dep(q) \in Deployments /\ b(q) \in SoundBreaker
         /\ Dep(q) \in Healthy => b(q) = NewBreaker
  BY <1>0 DEF TypeOK, Dep, HealthyUntouched
<1>1. ASSUME NEW q \in Requests, Arrive(q) PROVE IInv'
  <2>1. PICK f \in [Deployments -> UNION {Synced(d) : d \in Deployments}] :
          (\A d \in Deployments : f[d] \in Synced(d)) /\ breaker' = f
    BY <1>1 DEF Arrive
  <2>2. \A d \in Deployments : f[d] \in SoundBreaker /\ (d \in Healthy => f[d] = breaker[d])
    BY <1>0, <2>1, SyncedType
  <2>3. breaker' \in [Deployments -> SoundBreaker] /\ HealthyUntouched'
    BY <1>0, <2>1, <2>2, HealthyAssumption DEF HealthyUntouched
  <2>4. stream' \in [Requests -> BOOLEAN]
    BY <1>0, <1>1 DEF Arrive, TypeOK
  <2>5. TypeOK'
    BY <1>0, <1>1, <2>3, <2>4 DEF Arrive, TypeOK, Goto, Locations
  <2>6. NotPast(q)'
    BY <1>0, <1>1 DEF Arrive, TypeOK, Goto, NotPast, InDeployment, Dep
  <2>7. \A u \in Requests : NotPast(u)'
    BY <1>0, <1>1, <2>6, OneMoves DEF Arrive, TypeOK, Goto
  <2> QED
    BY <2>3, <2>5, <2>7 DEF IInv
<1>2. ASSUME NEW q \in Requests, Walk(q) PROVE IInv'
  <2>1. pos[q] <= Len(Chain[q]) /\ pc[q] = "walk" /\ SetBreaker(Dep(q), Admit(b(q)))
    BY <1>2 DEF Walk
  <2>2. Admit(b(q)) \in SoundBreaker /\ (Dep(q) \in Healthy => Admit(b(q)) = NewBreaker)
    BY <1>0, <1>d, <2>1, BreakerMethods, NewBreakerStays
  <2>3. breaker' \in [Deployments -> SoundBreaker] /\ HealthyUntouched'
    BY <1>0, <1>d, <2>1, <2>2, BreakerSet
  <2>4. Dep(q) \in Healthy => Allows(b(q))
    BY <1>0, <1>d, <2>1, NewBreakerStays
  <2>5. attempts' \in [Requests -> Seq(Attempt)]
    BY <1>0, <1>2, <2>1, ReportType DEF Walk, TypeOK, Outcomes
  <2>6. pos' \in [Requests -> Nat \ {0}] /\ pc' \in [Requests -> Locations]
    <3>1. pos[q] + 1 \in Nat \ {0}
      BY <1>0, <2>1, ChainAssumption DEF TypeOK
    <3>2. pos' = pos \/ pos' = [pos EXCEPT ![q] = pos[q] + 1]
      BY <1>2 DEF Walk
    <3>3. pc' = pc \/ pc' = [pc EXCEPT ![q] = "calling"]
      BY <1>2 DEF Walk, Goto
    <3> QED
      BY <1>0, <3>1, <3>2, <3>3 DEF TypeOK, Locations
  <2>7. TypeOK'
    BY <1>0, <1>2, <2>3, <2>5, <2>6 DEF Walk, TypeOK
  <2>8. NotPast(q)'
    <3>1. result[q] # "all_failed"
      BY <1>0, <2>1 DEF NotPast, TypeOK
    <3>2. CASE Allows(b(q)) /\ Goto(q, "calling") /\ UNCHANGED pos
      BY <1>0, <1>2, <2>1, <3>1, <3>2 DEF Walk, TypeOK, Goto, NotPast, InDeployment
    <3>3. CASE ~Allows(b(q)) /\ UNCHANGED pc /\ pos' = [pos EXCEPT ![q] = pos[q] + 1]
      BY <1>0, <1>2, <2>1, <2>4, <3>1, <3>3 DEF Walk, TypeOK, NotPast, InDeployment, Dep
    <3> QED
      BY <1>2, <3>2, <3>3 DEF Walk
  <2>9. \A u \in Requests : NotPast(u)'
    BY <1>0, <1>2, <2>8, OneMoves DEF Walk, TypeOK, Goto
  <2> QED
    BY <2>3, <2>7, <2>9 DEF IInv
<1>3. ASSUME NEW q \in Requests, Exhaust(q) PROVE IInv'
  <2>1. TypeOK'
    BY <1>0, <1>3 DEF Exhaust, TypeOK, Finish, Goto, Locations, Results
  <2>2. NotPast(q)'
    BY <1>0, <1>3 DEF Exhaust, TypeOK, Finish, Goto, NotPast, InDeployment
  <2>3. \A u \in Requests : NotPast(u)'
    BY <1>0, <1>3, <2>2, OneMoves DEF Exhaust, TypeOK, Finish, Goto
  <2>4. HealthyUntouched'
    BY <1>0, <1>3 DEF Exhaust, HealthyUntouched
  <2> QED
    BY <2>1, <2>3, <2>4 DEF IInv
<1>4. ASSUME NEW q \in Requests, Answer(q) \/ Reject(q) \/ StreamEnds(q) PROVE IInv'
  <2>1. /\ pos[q] <= Len(Chain[q]) /\ result[q] # "all_failed"
        /\ SetBreaker(Dep(q), RecordSuccess(b(q)))
    BY <1>0, <1>4 DEF Answer, Reject, StreamEnds, NotPast, InDeployment, TypeOK
  <2>2. RecordSuccess(b(q)) \in SoundBreaker /\ RecordSuccess(b(q)) = NewBreaker
    BY <1>d, <2>1, BreakerMethods DEF RecordSuccess
  <2>3. breaker' \in [Deployments -> SoundBreaker] /\ HealthyUntouched'
    BY <1>0, <1>d, <2>1, <2>2, BreakerSet
  <2>4. attempts' \in [Requests -> Seq(Attempt)]
    BY <1>0, <1>4, <2>1, ReportType DEF Answer, Reject, StreamEnds, TypeOK, Outcomes
  <2>5. pc' \in [Requests -> Locations] /\ result' \in [Requests -> Results]
    BY <1>0, <1>4 DEF Answer, Reject, StreamEnds, TypeOK, Finish, Goto, Locations, Results
  <2>6. TypeOK'
    BY <1>0, <1>4, <2>3, <2>4, <2>5 DEF Answer, Reject, StreamEnds, TypeOK
  <2>7. NotPast(q)'
    BY <1>0, <1>4 DEF Answer, Reject, StreamEnds, TypeOK, Finish, Goto, NotPast, InDeployment
  <2>8. \A u \in Requests : NotPast(u)'
    BY <1>0, <1>4, <2>7, OneMoves DEF Answer, Reject, StreamEnds, TypeOK, Finish, Goto
  <2> QED
    BY <2>3, <2>6, <2>8 DEF IInv
<1>5. ASSUME NEW q \in Requests, FirstToken(q) PROVE IInv'
  <2>1. pos[q] <= Len(Chain[q])
    BY <1>0, <1>5 DEF FirstToken, NotPast, InDeployment
  <2>2. attempts' \in [Requests -> Seq(Attempt)]
    BY <1>0, <1>5, <2>1, ReportType DEF FirstToken, Outcomes
  <2>3. TypeOK'
    BY <1>0, <1>5, <2>2 DEF FirstToken, TypeOK, Goto, Locations
  <2>4. NotPast(q)'
    BY <1>0, <1>5, <2>1 DEF FirstToken, TypeOK, Goto, NotPast, InDeployment
  <2>5. \A u \in Requests : NotPast(u)'
    BY <1>0, <1>5, <2>4, OneMoves DEF FirstToken, TypeOK, Goto
  <2>6. HealthyUntouched'
    BY <1>0, <1>5 DEF FirstToken, HealthyUntouched
  <2> QED
    BY <2>3, <2>5, <2>6 DEF IInv
<1>6. ASSUME NEW q \in Requests, CallFails(q) \/ StreamBreaks(q) PROVE IInv'
  <2>1. /\ pos[q] <= Len(Chain[q]) /\ result[q] # "all_failed"
        /\ Dep(q) \notin Healthy /\ RecordsFailure(Dep(q))
    BY <1>0, <1>6 DEF CallFails, StreamBreaks, NotPast, InDeployment, TypeOK
  <2>2. breaker' \in [Deployments -> SoundBreaker] /\ HealthyUntouched'
    BY <1>0, <1>d, <2>1, FailureType
  <2>3. attempts' \in [Requests -> Seq(Attempt)]
    BY <1>0, <1>6, <2>1, ReportType DEF CallFails, StreamBreaks, Outcomes
  <2>4. pc' \in [Requests -> Locations] /\ result' \in [Requests -> Results]
    BY <1>0, <1>6 DEF CallFails, StreamBreaks, TypeOK, Finish, Goto, Locations, Results
  <2>5. TypeOK'
    BY <1>0, <1>6, <2>2, <2>3, <2>4 DEF CallFails, StreamBreaks, TypeOK
  <2>6. NotPast(q)'
    BY <1>0, <1>6, <2>1
       DEF CallFails, StreamBreaks, TypeOK, Finish, Goto, NotPast, InDeployment, Dep
  <2>7. \A u \in Requests : NotPast(u)'
    BY <1>0, <1>6, <2>6, OneMoves DEF CallFails, StreamBreaks, TypeOK, Finish, Goto
  <2> QED
    BY <2>2, <2>5, <2>7 DEF IInv
<1>7. ASSUME NEW q \in Requests, Recorded(q) PROVE IInv'
  <2>1. /\ pos[q] <= Len(Chain[q]) /\ pc[q] = "told" /\ result[q] # "all_failed"
        /\ Dep(q) \notin Healthy /\ SetBreaker(Dep(q), Look(b(q)))
    BY <1>0, <1>7 DEF Recorded, NotPast, InDeployment, TypeOK
  <2>2. breaker' \in [Deployments -> SoundBreaker] /\ HealthyUntouched'
    BY <1>0, <1>d, <2>1, BreakerMethods, BreakerSet
  <2>3. /\ pc' \in [Requests -> Locations] /\ retry' \in [Requests -> Nat]
        /\ pos' \in [Requests -> Nat \ {0}]
    <3>1. pos[q] + 1 \in Nat \ {0} /\ retry[q] + 1 \in Nat
      BY <1>0, <2>1, ChainAssumption DEF TypeOK
    <3>2. pos' = pos \/ pos' = [pos EXCEPT ![q] = pos[q] + 1]
      BY <1>7 DEF Recorded
    <3>3. pc' = [pc EXCEPT ![q] = "sleep"] \/ pc' = [pc EXCEPT ![q] = "walk"]
      BY <1>7 DEF Recorded, Goto
    <3>4. retry' = [retry EXCEPT ![q] = retry[q] + 1] \/ retry' = [retry EXCEPT ![q] = 0]
      BY <1>7 DEF Recorded
    <3>5. pc' \in [Requests -> Locations]
      BY <1>0, <3>3 DEF TypeOK, Locations
    <3>6. retry' \in [Requests -> Nat]
      <4>1. retry \in [Requests -> Nat] /\ 0 \in Nat
        BY <1>0 DEF TypeOK
      <4> HIDE DEF b
      <4>2. [retry EXCEPT ![q] = retry[q] + 1] \in [Requests -> Nat]
        BY ONLY <4>1, <3>1, Updated
      <4>3. [retry EXCEPT ![q] = 0] \in [Requests -> Nat]
        BY ONLY <4>1, Updated
      <4> QED
        BY ONLY <3>4, <4>2, <4>3
    <3>7. pos' \in [Requests -> Nat \ {0}]
      BY <1>0, <3>1, <3>2 DEF TypeOK
    <3> QED
      BY <3>5, <3>6, <3>7
  <2>4. TypeOK'
    BY <1>0, <1>7, <2>2, <2>3 DEF Recorded, TypeOK
  <2>5. NotPast(q)'
    BY <1>0, <1>7, <2>1 DEF Recorded, TypeOK, Goto, NotPast, InDeployment, Dep
  <2>6. \A u \in Requests : NotPast(u)'
    BY <1>0, <1>7, <2>5, OneMoves DEF Recorded, TypeOK, Goto
  <2> QED
    BY <2>2, <2>4, <2>6 DEF IInv
<1>8. ASSUME NEW q \in Requests, Wake(q) \/ HangUp(q) PROVE IInv'
  <2>1. TypeOK'
    BY <1>0, <1>8 DEF Wake, HangUp, TypeOK, Finish, Goto, Locations, Results
  <2>2. NotPast(q)'
    BY <1>0, <1>8 DEF Wake, HangUp, TypeOK, Finish, Goto, NotPast, InDeployment
  <2>3. \A u \in Requests : NotPast(u)'
    BY <1>0, <1>8, <2>2, OneMoves DEF Wake, HangUp, TypeOK, Finish, Goto
  <2>4. HealthyUntouched'
    BY <1>0, <1>8 DEF Wake, HangUp, HealthyUntouched
  <2> QED
    BY <2>1, <2>3, <2>4 DEF IInv
<1>9. ASSUME NEW q \in Requests, Reset(q) PROVE IInv'
  <2>1. stream' \in [Requests -> BOOLEAN]
    BY <1>0, <1>9 DEF Reset, TypeOK
  <2>2. pos' \in [Requests -> Nat \ {0}] /\ retry' \in [Requests -> Nat]
    BY <1>0, <1>9 DEF Reset, TypeOK
  <2>3. TypeOK'
    BY <1>0, <1>9, <2>1, <2>2 DEF Reset, TypeOK, Goto, Locations, Results
  <2>4. NotPast(q)'
    BY <1>0, <1>9 DEF Reset, TypeOK, Goto, NotPast, InDeployment
  <2>5. \A u \in Requests : NotPast(u)'
    BY <1>0, <1>9, <2>4, OneMoves DEF Reset, TypeOK, Goto
  <2>6. HealthyUntouched'
    BY <1>0, <1>9 DEF Reset, HealthyUntouched
  <2> QED
    BY <2>3, <2>5, <2>6 DEF IInv
<1>10. CASE Tick
  <2>1. breaker' \in [Deployments -> SoundBreaker]
    BY <1>0, <1>10, BreakerMethods DEF Tick, TypeOK
  <2>2. HealthyUntouched'
    BY <1>0, <1>10, NewBreakerStays, HealthyAssumption DEF Tick, HealthyUntouched
  <2>3. TypeOK' /\ (\A q \in Requests : NotPast(q)')
    BY <1>0, <1>10, <2>1 DEF Tick, TypeOK, NotPast, Dep
  <2> QED
    BY <2>2, <2>3 DEF IInv
<1>11. CASE UNCHANGED vars
  BY <1>0, <1>11 DEF vars, IInv, TypeOK, HealthyUntouched, NotPast, Dep
<1> QED
  BY <1>1, <1>2, <1>3, <1>4, <1>5, <1>6, <1>7, <1>8, <1>9, <1>10, <1>11 DEF Next, Proceed

\* The invariant holds in every reachable state.
LEMMA Inductive == Spec => []IInv
BY Initially, Step, PTL DEF Spec

\* Types, and attempts that name positions in a chain: TypeOK of the runs.
THEOREM RouterTypes == Spec => []TypeOK
<1>1. IInv => TypeOK
  BY DEF IInv
<1> QED
  BY <1>1, Inductive, PTL

\* While one deployment of the chain answers in full, no request ever ends in "all
\* deployments failed".
THEOREM HealthyAlwaysServes == Spec => []HealthyServes
<1>1. IInv => HealthyServes
  <2> SUFFICES ASSUME IInv, NEW q \in Requests, result[q] = "all_failed",
                      NEW p \in 1..Len(Chain[q]), Chain[q][p] \in Healthy
               PROVE  FALSE
    BY DEF HealthyServes
  <2>1. pos[q] = Len(Chain[q]) + 1 /\ (\A i \in 1..pos[q] - 1 : Chain[q][i] \notin Healthy)
    BY DEF IInv, NotPast
  <2> QED
    BY <2>1, ChainLength
<1> QED
  BY <1>1, Inductive, PTL

(***************************************************************************)
(* A choice that has been made is kept                                     *)
(***************************************************************************)

Answers == {"success", "client_error"}

\* An answer was given by the deployment the request is at, which relays it or is done with it;
\* what was reported after it is that it broke.
Chosen(q) ==
  /\ \A i \in 1..Len(attempts[q]) : attempts[q][i].outcome \in Answers =>
       pc[q] \in {"relaying", "done"} /\ attempts[q][i].pos = pos[q]
  /\ \A i, j \in 1..Len(attempts[q]) : i < j /\ attempts[q][i].outcome \in Answers =>
       attempts[q][j].outcome = "interrupted" /\ attempts[q][j].pos = attempts[q][i].pos

\* A step that reports nothing moves on only a request that was not answered.
LEMMA Unreported ==
  ASSUME NEW q \in Requests, Chosen(q), attempts'[q] = attempts[q],
         pc[q] \in {"relaying", "done"} => pc'[q] \in {"relaying", "done"} /\ pos'[q] = pos[q]
  PROVE  Chosen(q)'
BY DEF Chosen

\* A step that reports either finds no answer, or has an answer that breaks.
LEMMA Reported ==
  ASSUME TypeOK, NEW q \in Requests, Chosen(q), NEW o \in Outcomes, Report(q, o),
         \/ /\ pc[q] \notin {"relaying", "done"}
            /\ o \in Answers => pc'[q] \in {"relaying", "done"} /\ pos'[q] = pos[q]
         \/ o = "interrupted" /\ pc'[q] \in {"relaying", "done"} /\ pos'[q] = pos[q]
  PROVE  Chosen(q)'
<1> DEFINE s == attempts[q]
           a == [pos |-> pos[q], outcome |-> o]
           n == Len(s)
<1>1. s \in Seq(Attempt) /\ attempts'[q] = Append(s, a) /\ n \in Nat
  BY DEF TypeOK, Report
<1>2. /\ Len(attempts'[q]) = n + 1 /\ attempts'[q][n + 1] = a
      /\ \A i \in 1..n : attempts'[q][i] = s[i]
  BY <1>1
<1>3. a.pos = pos[q] /\ a.outcome = o
  OBVIOUS
<1> HIDE DEF a
<1>4. \A i \in 1..n : s[i].outcome \in Answers => o = "interrupted" /\ s[i].pos = pos[q]
                                                /\ pc'[q] \in {"relaying", "done"} /\ pos'[q] = pos[q]
  BY DEF Chosen
<1>5. o \in Answers => pc'[q] \in {"relaying", "done"} /\ pos'[q] = pos[q]
  OBVIOUS
<1>6. \A i, j \in 1..n : i < j /\ s[i].outcome \in Answers =>
        s[j].outcome = "interrupted" /\ s[j].pos = s[i].pos
  BY DEF Chosen
<1> HIDE DEF s, n
<1>a. n \in Nat
  BY <1>1
<1>b. \A i \in 1..(n + 1) : i \in 1..n \/ i = n + 1
  BY <1>a
<1>7. ASSUME NEW i \in 1..(n + 1), attempts'[q][i].outcome \in Answers
      PROVE  pc'[q] \in {"relaying", "done"} /\ attempts'[q][i].pos = pos'[q]
  <2>1. CASE i \in 1..n
    BY <1>2, <1>4, <1>7, <2>1
  <2>2. CASE i = n + 1
    BY <1>2, <1>3, <1>5, <1>7, <2>2
  <2> QED
    BY <1>b, <2>1, <2>2
<1>8. ASSUME NEW i \in 1..(n + 1), NEW j \in 1..(n + 1), i < j, attempts'[q][i].outcome \in Answers
      PROVE  attempts'[q][j].outcome = "interrupted" /\ attempts'[q][j].pos = attempts'[q][i].pos
  <2>1. i \in 1..n /\ attempts'[q][i] = s[i]
    <3>1. i \in 1..n
      BY <1>a, <1>8
    <3> QED
      BY <1>2, <3>1
  <2>2. CASE j \in 1..n
    BY <1>2, <1>6, <1>8, <2>1, <2>2
  <2>3. CASE j = n + 1
    BY <1>2, <1>3, <1>4, <1>8, <2>1, <2>3
  <2> QED
    BY <1>b, <2>2, <2>3
<1> QED
  BY <1>2, <1>7, <1>8 DEF Chosen

LEMMA ChosenStays ==
  ASSUME IInv, \A q \in Requests : Chosen(q), [Next]_vars
  PROVE  \A q \in Requests : Chosen(q)'
<1>0. TypeOK
  BY DEF IInv
<1>1. ASSUME NEW q \in Requests, Chosen(q)',
             \A u \in Requests \ {q} : /\ pc'[u] = pc[u] /\ pos'[u] = pos[u]
                                       /\ attempts'[u] = attempts[u]
      PROVE  \A u \in Requests : Chosen(u)'
  BY <1>1 DEF Chosen
<1>2. ASSUME NEW q \in Requests, Arrive(q) \/ Exhaust(q) \/ Wake(q) \/ StreamEnds(q) \/ HangUp(q)
      PROVE  \A u \in Requests : Chosen(u)'
  <2>1. /\ attempts' = attempts /\ pos' = pos
        /\ pc[q] \in {"relaying", "done"} => pc'[q] \in {"relaying", "done"}
        /\ \A u \in Requests \ {q} : pc'[u] = pc[u]
    BY <1>0, <1>2 DEF TypeOK, Arrive, Exhaust, Wake, StreamEnds, HangUp, Finish, Goto
  <2>2. Chosen(q)'
    BY <2>1, Unreported
  <2> QED
    BY <1>1, <2>1, <2>2
<1>3. ASSUME NEW q \in Requests, Walk(q) PROVE \A u \in Requests : Chosen(u)'
  <2>1. pc[q] = "walk" /\ \A u \in Requests \ {q} : /\ pc'[u] = pc[u] /\ pos'[u] = pos[u]
                                                    /\ attempts'[u] = attempts[u]
    BY <1>0, <1>3 DEF TypeOK, Walk, Goto, Report
  <2>2. CASE attempts' = attempts
    BY <1>1, <2>1, <2>2, Unreported
  <2>3. CASE Report(q, "skipped")
    BY <1>0, <1>1, <2>1, <2>3, Reported DEF Outcomes, Answers
  <2> QED
    BY <1>3, <2>2, <2>3 DEF Walk
<1>4. ASSUME NEW q \in Requests, NEW o \in Outcomes, Report(q, o), pos' = pos,
             \/ pc[q] = "calling" /\ o \in {"success", "client_error", "failed"}
             \/ o = "interrupted",
             \E l \in Locations : Goto(q, l) /\ (o # "failed" => l \in {"relaying", "done"})
      PROVE  \A u \in Requests : Chosen(u)'
  <2>1. \A u \in Requests \ {q} : /\ pc'[u] = pc[u] /\ pos'[u] = pos[u]
                                  /\ attempts'[u] = attempts[u]
    BY <1>0, <1>4 DEF TypeOK, Goto, Report
  <2>2. pc[q] \in Locations /\ (o # "failed" => pc'[q] \in {"relaying", "done"})
    BY <1>0, <1>4 DEF TypeOK, Goto
  <2>3. Chosen(q)'
    BY <1>0, <1>4, <2>2, Reported DEF Answers
  <2> QED
    BY <1>1, <2>1, <2>3
<1>5. ASSUME NEW q \in Requests,
             Answer(q) \/ FirstToken(q) \/ Reject(q) \/ CallFails(q) \/ StreamBreaks(q)
      PROVE  \A u \in Requests : Chosen(u)'
  <2>1. /\ {"success", "client_error", "failed", "interrupted"} \subseteq Outcomes
        /\ {"done", "relaying", "told"} \subseteq Locations
    BY DEF Outcomes, Locations
  <2>2. CASE Answer(q) \/ FirstToken(q)
    <3>1. /\ pc[q] = "calling" /\ Report(q, "success") /\ pos' = pos
          /\ Goto(q, "done") \/ Goto(q, "relaying")
      BY <2>2 DEF Answer, FirstToken, Finish
    <3> QED
      BY <1>4, <2>1, <3>1
  <2>3. CASE Reject(q)
    <3>1. pc[q] = "calling" /\ Report(q, "client_error") /\ pos' = pos /\ Goto(q, "done")
      BY <2>3 DEF Reject, Finish
    <3> QED
      BY <1>4, <2>1, <3>1
  <2>4. CASE CallFails(q)
    <3>1. pc[q] = "calling" /\ Report(q, "failed") /\ pos' = pos /\ Goto(q, "told")
      BY <2>4 DEF CallFails
    <3> QED
      BY <1>4, <2>1, <3>1
  <2>5. CASE StreamBreaks(q)
    <3>1. Report(q, "interrupted") /\ pos' = pos /\ Goto(q, "done")
      BY <2>5 DEF StreamBreaks, Finish
    <3> QED
      BY <1>4, <2>1, <3>1
  <2> QED
    BY <1>5, <2>2, <2>3, <2>4, <2>5
<1>6. ASSUME NEW q \in Requests, Recorded(q) PROVE \A u \in Requests : Chosen(u)'
  <2>1. /\ attempts' = attempts /\ pc[q] = "told"
        /\ \A u \in Requests \ {q} : pc'[u] = pc[u] /\ pos'[u] = pos[u]
    BY <1>0, <1>6 DEF TypeOK, Recorded, Goto
  <2> QED
    BY <1>1, <2>1, Unreported
<1>7. ASSUME NEW q \in Requests, Reset(q) PROVE \A u \in Requests : Chosen(u)'
  <2>1. /\ attempts'[q] = <<>>
        /\ \A u \in Requests \ {q} : /\ pc'[u] = pc[u] /\ pos'[u] = pos[u]
                                     /\ attempts'[u] = attempts[u]
    BY <1>0, <1>7 DEF TypeOK, Reset, Goto
  <2>2. Chosen(q)'
    BY <2>1 DEF Chosen
  <2> QED
    BY <1>1, <2>1, <2>2
<1>8. CASE Tick \/ UNCHANGED vars
  BY <1>8 DEF Tick, vars, Chosen
<1> QED
  BY <1>2, <1>3, <1>5, <1>6, <1>7, <1>8 DEF Next, Proceed

\* "After that the choice is locked in" (open_stream, router.py): for any chains, any number of
\* concurrent requests and any retry budget, nothing is tried after an answer.
THEOREM ChoiceIsLockedIn == Spec => []AnswerIsLast
<1> DEFINE AllChosen == \A q \in Requests : Chosen(q)
<1>1. Init => AllChosen
  BY DEF Init, Chosen
<1>2. IInv /\ AllChosen /\ [Next]_vars => AllChosen'
  BY ChosenStays
<1>3. AllChosen => AnswerIsLast
  BY DEF Chosen, AnswerIsLast, Answers
<1> QED
  BY <1>1, <1>2, <1>3, Inductive, PTL DEF Spec

(***************************************************************************)
(* Why a deployment was passed over.                                       *)
(***************************************************************************)

Times(q, p)   == Cardinality(Tried(q, p))
Each(q, p, o) == \A i \in Tried(q, p) : attempts[q][i].outcome = o

ForCause(q, p) ==
  \/ Times(q, p) = 1 /\ Each(q, p, "skipped")
  \/ Times(q, p) \in 1..MaxRetries[Chain[q][p]] + 1 /\ Each(q, p, "failed")

\* Nothing is reported of what is ahead, and of the deployment the request is at as many failures
\* as the retry loop has counted.
Cause(q) ==
  /\ \A i \in DOMAIN attempts[q] : attempts[q][i].pos <= pos[q]
  /\ \A p \in 1..pos[q] - 1 : ForCause(q, p)
  /\ pc[q] \in {"idle", "walk"} => Tried(q, pos[q]) = {} /\ retry[q] = 0
  /\ pc[q] \in {"calling", "told", "sleep"} =>
       /\ Each(q, pos[q], "failed")
       /\ retry[q] <= MaxRetries[Dep(q)]
       /\ Times(q, pos[q]) = IF pc[q] = "told" THEN retry[q] + 1 ELSE retry[q]

LEMMA TriedFinite ==
  ASSUME TypeOK, NEW q \in Requests, NEW p
  PROVE  IsFiniteSet(Tried(q, p)) /\ Times(q, p) \in Nat
<1>1. attempts[q] \in Seq(Attempt)
  BY DEF TypeOK
<1>2. Tried(q, p) \in SUBSET (1..Len(attempts[q])) /\ Len(attempts[q]) \in Nat
  BY <1>1 DEF Tried
<1>3. IsFiniteSet(1..Len(attempts[q]))
  BY <1>2, FS_Interval
<1> QED
  BY <1>2, <1>3, FS_Subset, FS_CardinalityType DEF Times

\* A report adds one to what is said of the deployment the request is at, and nothing to what is
\* said of the others.
LEMMA ReportAdds ==
  ASSUME TypeOK, NEW q \in Requests, NEW o \in Outcomes, Report(q, o), NEW here, here = pos[q]
  PROVE  /\ \A p : p # here => /\ Tried(q, p)' = Tried(q, p)
                               /\ \A x : Each(q, p, x) => Each(q, p, x)'
         /\ Times(q, here)' = Times(q, here) + 1
         /\ Each(q, here, o) => Each(q, here, o)'
         /\ (\A i \in DOMAIN attempts[q] : attempts[q][i].pos <= here) =>
              \A i \in DOMAIN attempts'[q] : attempts'[q][i].pos <= here
<1> DEFINE s == attempts[q]
           t == attempts'[q]
           n == Len(s)
           a == [pos |-> here, outcome |-> o]
<1>1. s \in Seq(Attempt) /\ n \in Nat /\ here \in Nat
  <2>1. s \in Seq(Attempt) /\ pos[q] \in Nat
    BY DEF TypeOK
  <2> QED
    BY <2>1
<1>a. a \in Attempt /\ a.pos = here /\ a.outcome = o
  BY DEF TypeOK, Attempt
<1>2. t = Append(s, a)
  BY DEF Report, TypeOK
<1> HIDE DEF a
<1>4. /\ DOMAIN s = 1..n /\ DOMAIN t = 1..(n + 1)
      /\ \A i \in 1..n : t[i] = s[i]
      /\ t[n + 1] = a
  BY <1>1, <1>a, <1>2
<1>5. \A p : Tried(q, p) = {i \in DOMAIN s : s[i].pos = p}
  BY DEF Tried
<1>6. \A p : Tried(q, p)' = {i \in DOMAIN t : t[i].pos = p}
  BY DEF Tried
<1>7. \A p, x : Each(q, p, x) <=> \A i \in Tried(q, p) : s[i].outcome = x
  BY DEF Each
<1>8. \A p, x : Each(q, p, x)' <=> \A i \in Tried(q, p)' : t[i].outcome = x
  BY DEF Each
<1>9. (\A i \in DOMAIN s : s[i].pos <= here) => \A i \in DOMAIN t : t[i].pos <= here
  BY <1>1, <1>a, <1>4
<1> HIDE DEF s, t, n
<1>10. DOMAIN t = DOMAIN s \cup {n + 1} /\ n + 1 \notin DOMAIN s
  BY <1>1, <1>4
<1>11. ASSUME NEW p, p # here
       PROVE  /\ Tried(q, p)' = Tried(q, p)
              /\ \A x : Each(q, p, x) => Each(q, p, x)'
  <2>1. Tried(q, p)' = Tried(q, p)
    <3>1. \A i \in DOMAIN t : t[i].pos = p <=> i \in DOMAIN s /\ s[i].pos = p
      BY <1>a, <1>1, <1>4, <1>10, <1>11
    <3> QED
      BY <1>5, <1>6, <1>10, <3>1, Zenon
  <2>2. \A i \in Tried(q, p) : t[i] = s[i]
    BY <1>4, <1>5
  <2> QED
    BY <1>7, <1>8, <2>1, <2>2
<1>12. Tried(q, here)' = Tried(q, here) \cup {n + 1} /\ n + 1 \notin Tried(q, here)
  <2>1. \A i \in DOMAIN t : t[i].pos = here <=> i = n + 1 \/ (i \in DOMAIN s /\ s[i].pos = here)
    BY <1>a, <1>1, <1>4, <1>10
  <2>2. n + 1 \notin Tried(q, here)
    BY <1>5, <1>10
  <2>3. ASSUME NEW i PROVE i \in Tried(q, here)' <=> i \in Tried(q, here) \cup {n + 1}
    BY <1>5, <1>6, <1>10, <2>1
  <2> QED
    BY <2>2, <2>3
<1>13. Times(q, here)' = Times(q, here) + 1
  BY <1>12, TriedFinite, FS_AddElement DEF Times
<1>14. Each(q, here, o) => Each(q, here, o)'
  BY <1>a, <1>4, <1>5, <1>7, <1>8, <1>12
<1> QED
  BY <1>9, <1>11, <1>13, <1>14 DEF s, t

LEMMA ReportKeepsCauses ==
  ASSUME TypeOK, NEW q \in Requests, NEW o \in Outcomes, Report(q, o), NEW p, p # pos[q],
         ForCause(q, p)
  PROVE  ForCause(q, p)'
<1>1. Tried(q, p)' = Tried(q, p) /\ \A x : Each(q, p, x) => Each(q, p, x)'
  BY ReportAdds
<1>2. Times(q, p)' = Times(q, p)
  BY <1>1 DEF Times
<1> QED
  BY <1>1, <1>2 DEF ForCause

\* A step that reports nothing and stays at its deployment.
LEMMA SameReport ==
  ASSUME NEW q \in Requests, Cause(q), attempts'[q] = attempts[q], pos'[q] = pos[q],
         pc'[q] \in {"idle", "walk"} => pc[q] \in {"idle", "walk"} /\ retry'[q] = retry[q],
         pc'[q] \in {"calling", "told", "sleep"} =>
           /\ Each(q, pos[q], "failed") /\ retry'[q] <= MaxRetries[Dep(q)]
           /\ Times(q, pos[q]) = IF pc'[q] = "told" THEN retry'[q] + 1 ELSE retry'[q]
  PROVE  Cause(q)'
<1>1. \A p : Tried(q, p)' = Tried(q, p)
  BY DEF Tried
<1>2. \A p : Times(q, p)' = Times(q, p) /\ \A x : Each(q, p, x)' = Each(q, p, x)
  BY <1>1 DEF Times, Each
<1>3. Tried(q, pos[q])' = Tried(q, pos[q]) /\ Times(q, pos[q])' = Times(q, pos[q])
  BY <1>1, <1>2
<1>4. \A p : ForCause(q, p)' = ForCause(q, p)
  BY <1>2 DEF ForCause
<1>5. \A i \in DOMAIN attempts'[q] : attempts'[q][i].pos <= pos'[q]
  BY DEF Cause
<1>6. \A p \in 1..pos'[q] - 1 : ForCause(q, p)'
  BY <1>4 DEF Cause
<1> QED
  BY <1>1, <1>2, <1>5, <1>6 DEF Cause, Dep

\* A report on the deployment the request is at, and leaves or does not leave by it.
LEMMA ReportsHere ==
  ASSUME TypeOK, NEW q \in Requests, Cause(q), NEW o \in Outcomes, Report(q, o), pos'[q] = pos[q],
         \/ pc'[q] \in {"relaying", "done"}
         \/ pc'[q] = "told" /\ pc[q] = "calling" /\ o = "failed" /\ retry'[q] = retry[q]
  PROVE  Cause(q)'
<1>0. PICK here : here = pos[q]
  OBVIOUS
<1>1. \A p \in 1..here - 1 : ForCause(q, p)'
  BY <1>0, ReportKeepsCauses DEF Cause, TypeOK
<1>2. /\ Times(q, here)' = Times(q, here) + 1
      /\ Each(q, here, o) => Each(q, here, o)'
      /\ \A i \in DOMAIN attempts'[q] : attempts'[q][i].pos <= here
  BY <1>0, ReportAdds DEF Cause
<1>3. pos'[q] = here
  BY <1>0
<1>4. CASE pc'[q] \in {"relaying", "done"}
  BY <1>1, <1>2, <1>3, <1>4 DEF Cause
<1>5. CASE pc'[q] = "told" /\ pc[q] = "calling" /\ o = "failed" /\ retry'[q] = retry[q]
  <2>1. Each(q, here, "failed")'
    BY <1>0, <1>2, <1>5 DEF Cause
  <2>2. retry'[q] <= MaxRetries[Chain[q][here]] /\ Times(q, here)' = retry'[q] + 1
    BY <1>0, <1>2, <1>5 DEF Cause, Dep
  <2> QED
    BY <1>1, <1>2, <1>3, <1>5, <2>1, <2>2 DEF Cause, Dep
<1> QED
  BY <1>4, <1>5

LEMMA CauseStays ==
  ASSUME IInv, \A q \in Requests : Cause(q), [Next]_vars
  PROVE  \A q \in Requests : Cause(q)'
<1>0. TypeOK
  BY DEF IInv
<1>a. ASSUME NEW q \in Requests, pos[q] <= Len(Chain[q])
      PROVE  MaxRetries[Dep(q)] \in Nat /\ retry[q] \in Nat /\ pos[q] \in Nat \ {0}
  BY <1>0, <1>a, ChainAssumption, RetriesAssumption DEF TypeOK, Dep
<1>1. ASSUME NEW q \in Requests, Cause(q)',
             \A u \in Requests \ {q} : /\ pc'[u] = pc[u] /\ pos'[u] = pos[u]
                                       /\ retry'[u] = retry[u] /\ attempts'[u] = attempts[u]
      PROVE  \A u \in Requests : Cause(u)'
  <2>1. ASSUME NEW u \in Requests \ {q} PROVE Cause(u)'
    BY <1>1, <2>1, SameReport DEF Cause
  <2> QED
    BY <1>1, <2>1
<1>2. ASSUME NEW q \in Requests,
             Arrive(q) \/ Exhaust(q) \/ Wake(q) \/ StreamEnds(q) \/ HangUp(q)
      PROVE  \A u \in Requests : Cause(u)'
  <2>1. /\ attempts' = attempts /\ pos' = pos /\ retry' = retry
        /\ \A u \in Requests \ {q} : pc'[u] = pc[u]
        /\ \/ pc[q] = "idle" /\ pc'[q] = "walk"
           \/ pc'[q] = "done"
           \/ pc[q] = "sleep" /\ pc'[q] = "calling"
    BY <1>0, <1>2 DEF TypeOK, Arrive, Exhaust, Wake, StreamEnds, HangUp, Finish, Goto
  <2>2. Cause(q)'
    BY <2>1, SameReport DEF Cause
  <2> QED
    BY <1>1, <2>1, <2>2
<1>3. ASSUME NEW q \in Requests, Walk(q) PROVE \A u \in Requests : Cause(u)'
  <2>1. /\ pc[q] = "walk" /\ retry' = retry /\ pos[q] <= Len(Chain[q])
        /\ \A u \in Requests \ {q} : /\ pc'[u] = pc[u] /\ pos'[u] = pos[u]
                                     /\ attempts'[u] = attempts[u]
    BY <1>0, <1>3 DEF TypeOK, Walk, Goto, Report
  <2>2. Tried(q, pos[q]) = {} /\ Times(q, pos[q]) = 0 /\ retry[q] = 0
    BY <2>1, FS_EmptySet DEF Cause, Times
  <2>3. CASE Goto(q, "calling") /\ UNCHANGED <<pos, attempts>>
    <3>1. pc'[q] = "calling"
      BY <1>0, <2>3 DEF TypeOK, Goto
    <3>2. Each(q, pos[q], "failed") /\ 0 <= MaxRetries[Dep(q)]
      BY <2>1, <2>2, <1>a DEF Each
    <3>3. Cause(q)'
      BY <2>1, <2>2, <2>3, <3>1, <3>2, SameReport
    <3> QED
      BY <1>1, <2>1, <3>3
  <2>4. CASE Report(q, "skipped") /\ pos' = [pos EXCEPT ![q] = pos[q] + 1] /\ UNCHANGED pc
    <3>0. PICK here : here = pos[q]
      OBVIOUS
    <3>1. here \in Nat \ {0} /\ pos'[q] = here + 1 /\ pc'[q] = "walk" /\ retry'[q] = 0
      BY <3>0, <1>0, <2>1, <2>2, <2>4 DEF TypeOK
    <3>2. \A p \in 1..here - 1 : ForCause(q, p)'
      BY <3>0, <1>0, <2>4, ReportKeepsCauses DEF Cause, TypeOK, Outcomes
    <3>3. "skipped" \in Outcomes /\ Each(q, here, "skipped")
      BY <3>0, <2>2 DEF Outcomes, Each
    <3>4. /\ Times(q, here)' = 1 /\ Each(q, here, "skipped")'
          /\ \A i \in DOMAIN attempts'[q] : attempts'[q][i].pos <= here
      BY <3>0, <1>0, <2>2, <2>4, <3>3, ReportAdds DEF Cause
    <3>5. ForCause(q, here)'
      BY <3>4 DEF ForCause
    <3>6. \A p \in 1..pos'[q] - 1 : ForCause(q, p)'
      BY <3>1, <3>2, <3>5
    <3>7. \A i \in DOMAIN attempts'[q] : attempts'[q][i].pos <= pos'[q]
                                         /\ attempts'[q][i].pos # pos'[q]
      <4>1. attempts'[q] \in Seq(Attempt)
        BY <1>0, <2>1, <2>4, <3>3, ReportType
      <4>2. \A i \in DOMAIN attempts'[q] : attempts'[q][i] \in Attempt
        BY <4>1
      <4>3. \A i \in DOMAIN attempts'[q] : attempts'[q][i].pos \in Nat
        BY <4>2 DEF Attempt
      <4> QED
        BY <3>1, <3>4, <4>3
    <3>8. Tried(q, pos[q])' = {}
      BY <3>7 DEF Tried
    <3>9. Cause(q)'
      BY <3>1, <3>6, <3>7, <3>8 DEF Cause
    <3> QED
      BY <1>1, <2>1, <3>9
  <2> QED
    BY <1>3, <2>3, <2>4 DEF Walk
<1>4. ASSUME NEW q \in Requests,
             Answer(q) \/ FirstToken(q) \/ Reject(q) \/ CallFails(q) \/ StreamBreaks(q)
      PROVE  \A u \in Requests : Cause(u)'
  <2>1. /\ pos' = pos /\ retry' = retry
        /\ \A u \in Requests \ {q} : pc'[u] = pc[u] /\ attempts'[u] = attempts[u]
    BY <1>0, <1>4
       DEF TypeOK, Answer, FirstToken, Reject, CallFails, StreamBreaks, Finish, Goto, Report
  <2>2. \E o \in Outcomes :
          /\ Report(q, o)
          /\ \/ pc'[q] \in {"relaying", "done"}
             \/ pc'[q] = "told" /\ pc[q] = "calling" /\ o = "failed"
    BY <1>0, <1>4
       DEF TypeOK, Answer, FirstToken, Reject, CallFails, StreamBreaks, Finish, Goto, Outcomes
  <2>3. PICK o \in Outcomes :
          /\ Report(q, o)
          /\ \/ pc'[q] \in {"relaying", "done"}
             \/ pc'[q] = "told" /\ pc[q] = "calling" /\ o = "failed"
    BY <2>2
  <2>4. Cause(q) /\ pos'[q] = pos[q] /\ retry'[q] = retry[q]
    BY <2>1
  <2>5. \/ pc'[q] \in {"relaying", "done"}
        \/ pc'[q] = "told" /\ pc[q] = "calling" /\ o = "failed" /\ retry'[q] = retry[q]
    BY <2>3, <2>4
  <2>6. Report(q, o)
    BY <2>3
  <2>7. Cause(q)'
    BY <1>0, <2>3, <2>4, <2>5, <2>6, ReportsHere
  <2> QED
    BY <1>1, <2>1, <2>7
<1>5. ASSUME NEW q \in Requests, Recorded(q) PROVE \A u \in Requests : Cause(u)'
  <2>1. /\ pc[q] = "told" /\ attempts' = attempts /\ pos[q] <= Len(Chain[q])
        /\ \A u \in Requests \ {q} : pc'[u] = pc[u] /\ pos'[u] = pos[u] /\ retry'[u] = retry[u]
    BY <1>0, <1>5 DEF TypeOK, Recorded, Goto, IInv, NotPast, InDeployment
  <2>2. /\ Each(q, pos[q], "failed") /\ Times(q, pos[q]) = retry[q] + 1
        /\ retry[q] <= MaxRetries[Dep(q)]
    BY <2>1 DEF Cause
  <2>3. CASE /\ HasRetry(q) /\ retry' = [retry EXCEPT ![q] = retry[q] + 1]
             /\ Goto(q, "sleep") /\ UNCHANGED pos
    <3>1. pc'[q] = "sleep" /\ retry'[q] = retry[q] + 1 /\ retry[q] + 1 <= MaxRetries[Dep(q)]
      BY <1>0, <1>a, <2>1, <2>3 DEF TypeOK, Goto, HasRetry
    <3>2. Cause(q)'
      BY <2>1, <2>2, <2>3, <3>1, SameReport
    <3> QED
      BY <1>1, <2>1, <3>2
  <2>4. CASE /\ retry' = [retry EXCEPT ![q] = 0] /\ pos' = [pos EXCEPT ![q] = pos[q] + 1]
             /\ Goto(q, "walk")
    <3>0. PICK here : here = pos[q]
      OBVIOUS
    <3>1. here \in Nat \ {0} /\ pos'[q] = here + 1 /\ pc'[q] = "walk" /\ retry'[q] = 0
      BY <3>0, <1>0, <1>a, <2>1, <2>4 DEF TypeOK, Goto
    <3>2. ForCause(q, here)
      BY <3>0, <1>a, <2>1, <2>2 DEF ForCause, Dep
    <3>3. \A p : ForCause(q, p)' = ForCause(q, p)
      BY <2>1 DEF ForCause, Times, Each, Tried
    <3>4. (\A p \in 1..here - 1 : ForCause(q, p))
          /\ \A i \in DOMAIN attempts[q] : attempts[q][i].pos <= here
      BY <3>0 DEF Cause
    <3>5. \A p \in 1..pos'[q] - 1 : ForCause(q, p)'
      BY <3>1, <3>2, <3>3, <3>4
    <3>6. \A i \in DOMAIN attempts'[q] : attempts'[q][i].pos <= pos'[q]
                                         /\ attempts'[q][i].pos # pos'[q]
      <4>1. attempts[q] \in Seq(Attempt)
        BY <1>0 DEF TypeOK
      <4>2. \A i \in DOMAIN attempts[q] : attempts[q][i] \in Attempt
        BY <4>1
      <4>3. \A i \in DOMAIN attempts[q] : attempts[q][i].pos \in Nat
        BY <4>2 DEF Attempt
      <4> QED
        BY <2>1, <3>1, <3>4, <4>3
    <3>7. Tried(q, pos[q])' = {}
      BY <3>6 DEF Tried
    <3>8. Cause(q)'
      BY <3>1, <3>5, <3>6, <3>7 DEF Cause
    <3> QED
      BY <1>1, <2>1, <3>8
  <2> QED
    BY <1>5, <2>3, <2>4 DEF Recorded
<1>6. ASSUME NEW q \in Requests, Reset(q) PROVE \A u \in Requests : Cause(u)'
  <2>1. /\ attempts'[q] = <<>> /\ pos'[q] = 1 /\ retry'[q] = 0 /\ pc'[q] = "idle"
        /\ \A u \in Requests \ {q} : /\ pc'[u] = pc[u] /\ pos'[u] = pos[u]
                                     /\ retry'[u] = retry[u] /\ attempts'[u] = attempts[u]
    BY <1>0, <1>6 DEF TypeOK, Reset, Goto
  <2>2. Cause(q)'
    BY <2>1 DEF Cause, Tried
  <2> QED
    BY <1>1, <2>1, <2>2
<1>7. CASE Tick \/ UNCHANGED vars
  <2>1. UNCHANGED <<pc, pos, retry, attempts>>
    BY <1>7 DEF Tick, vars
  <2> QED
    BY <2>1, SameReport DEF Cause
<1> QED
  BY <1>2, <1>3, <1>4, <1>5, <1>6, <1>7 DEF Next, Proceed

\* A request "walks a route's fallback chain with retries, timeouts and circuit breaking"
\* (router.py:1): for any chains, any retry budgets and any number of concurrent requests, a
\* deployment was passed over because its circuit was open or because every call it was given failed.
THEOREM NonePassedOver == Spec => []PassedOverForCause
<1> DEFINE Causes == \A q \in Requests : Cause(q)
<1>1. Init => Causes
  BY DEF Init, Cause, Tried
<1>2. IInv /\ Causes /\ [Next]_vars => Causes'
  BY CauseStays
<1>3. Causes => PassedOverForCause
  BY DEF Cause, ForCause, PassedOverForCause, Times, Each
<1> QED
  BY <1>1, <1>2, <1>3, Inductive, PTL DEF Spec
=============================================================================
