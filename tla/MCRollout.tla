----------------------------- MODULE MCRollout -----------------------------
(* Small deployments for TLC: the replica of each coroutine. *)
EXTENDS Rollout, TLC
CONSTANTS r1, r2, q1, q2, a1, v1, v2

HomeNear  == q1 :> r1 @@ a1 :> r1
HomeFar   == q1 :> r1 @@ a1 :> r2
HomeApart == q1 :> r1 @@ q2 :> r2 @@ a1 :> r2
=============================================================================
