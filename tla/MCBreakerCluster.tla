-------------------------- MODULE MCBreakerCluster --------------------------
(* Small clusters for TLC: the replica of each task. *)
EXTENDS BreakerCluster, TLC
CONSTANTS r1, r2, t1, t2, t3

HomeOneEach == t1 :> r1 @@ t2 :> r2
HomeTwoOne  == t1 :> r1 @@ t2 :> r1 @@ t3 :> r2
HomeSameTwo == t1 :> r1 @@ t2 :> r1
=============================================================================
