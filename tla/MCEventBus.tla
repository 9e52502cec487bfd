----------------------------- MODULE MCEventBus -----------------------------
(* Model values for checking EventBus with TLC.                            *)
EXTENDS EventBus, TLC

CONSTANTS p1, p2, s1, s2, r1, r2

\* One publisher publishes twice, which is what it takes to see its order.
MCMaxEvents == p1 :> 2 @@ p2 :> 1
=============================================================================
