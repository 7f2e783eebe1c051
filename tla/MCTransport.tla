---------------------------- MODULE MCTransport ----------------------------
(* Instance of Transport for TLC. *)
EXTENDS Transport
=============================================================================
