------------------------ MODULE MCProtocolController ------------------------
(* ProtocolController for TLC; the constants are in the cfg. *)
EXTENDS ProtocolController
=============================================================================
