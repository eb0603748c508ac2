---------------------------- MODULE LocalBreakers ----------------------------
(***************************************************************************)
(* What the gateway promises when its replicas share nothing: each replica *)
(* has a breaker of its own, and only its own requests and its own clock   *)
(* move it (app/gateway/circuit_breaker.py with LLMRouter.cluster = None). *)
(***************************************************************************)
EXTENDS CircuitBreaker

CONSTANT Replicas

VARIABLE breaker

Init == breaker = [r \in Replicas |-> NewBreaker]

Becomes(r, b) == breaker' = [breaker EXCEPT ![r] = b]

LookAt(r)       == Becomes(r, Look(breaker[r]))
AllowRequest(r) == Allows(breaker[r]) /\ Becomes(r, Admit(breaker[r]))
Success(r)      == Becomes(r, RecordSuccess(breaker[r]))
Failure(r)      == Becomes(r, RecordFailure(breaker[r]))
Restart(r)      == Becomes(r, NewBreaker)
Tick            == breaker' = [r \in Replicas |-> Cool(breaker[r])]

Next == \/ \E r \in Replicas : \/ LookAt(r) \/ AllowRequest(r) \/ Success(r)
                               \/ Failure(r) \/ Restart(r)
        \/ Tick

Spec == Init /\ [][Next]_breaker
=============================================================================
