----------------------------- MODULE MCSwitchLan -----------------------------
(* Instances of SwitchLan for TLC. *)
EXTENDS SwitchLan

CONSTANTS h1, h2, p1, p2, p3   \* model values: nodes and ports

=============================================================================
