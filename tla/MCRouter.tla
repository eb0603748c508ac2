------------------------------ MODULE MCRouter ------------------------------
(* Two deployments, the first with one retry: one route has both, the other the first only. *)
EXTENDS Router, TLC
CONSTANTS primary, backup, q1, q2

TwoRoutes == q1 :> <<primary, backup>> @@ q2 :> <<primary>>
OneRetry  == primary :> 1 @@ backup :> 0
=============================================================================
