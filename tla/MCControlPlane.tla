--------------------------- MODULE MCControlPlane ---------------------------
(* Instances of ControlPlane for TLC: clients are 0, 1, ... *)
EXTENDS ControlPlane

CONSTANTS n1, n2   \* model values: the nodes

MCNodeOf == 0 :> n1 @@ 1 :> n1 @@ 2 :> n2

\* Node 1 is on pipe 0, node 2 on pipe 3.
MCPortOf == n1 :> 8 @@ n2 :> 400

MCOneChannel == <<1>>

\* The group of channel 1 is destroyed and created again.
MCRegroup == <<1, 1>>

MCRegroupTwoChannels == <<1, 2, 1>>
=============================================================================
