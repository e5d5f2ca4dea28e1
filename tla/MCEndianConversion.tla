------------------------- MODULE MCEndianConversion -------------------------
(* An instance of EndianConversion for TLC. *)
EXTENDS EndianConversion
=============================================================================
