--------------------------- MODULE MCTableUpdates ---------------------------
(* Instances of TableUpdates for TLC: the applications of MCChannelTables. *)
EXTENDS TableUpdates, MCChannelTables
=============================================================================
