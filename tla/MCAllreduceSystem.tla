-------------------------- MODULE MCAllreduceSystem --------------------------
(* Instances of AllreduceSystem for TLC. *)
EXTENDS AllreduceSystem, TLC

CONSTANTS c1, c2   \* model values: the clients

MCOnePipe == c1 :> 0 @@ c2 :> 0

MCTwoPipes == c1 :> 0 @@ c2 :> 3

\* A call that needs the ring twice, then a short one.
MCCalls == <<3, 1>>
=============================================================================
