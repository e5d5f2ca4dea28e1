------------------------- MODULE MCAggregationFabric -------------------------
(* Instances of AggregationFabric for TLC. *)
EXTENDS AggregationFabric, TLC

CONSTANTS c1, c2, c3   \* model values: the clients

\* Two clients on pipe 0 and one on pipe 3: both pipes aggregate.
MCTwoPipes == c1 :> 0 @@ c2 :> 0 @@ c3 :> 3
=============================================================================
