--------------------------- MODULE MCChannelTables ---------------------------
(* Instances of ChannelTables for TLC. *)
EXTENDS ChannelTables

CONSTANTS n1, n2, n3   \* model values: the nodes

\* Nodes 1 and 2 are on pipe 0, node 3 on pipe 3.
MCPortOf == n1 :> 8 @@ n2 :> 16 @@ n3 :> 400

\* Applications that share nodes: two clients on one node, one on each of two
\* pipes, and one that uses both.
MCGroup ==
    1 :> (0 :> n1 @@ 1 :> n1) @@
    2 :> (0 :> n2 @@ 1 :> n3) @@
    3 :> (0 :> n1 @@ 1 :> n3 @@ 2 :> n1)
=============================================================================
