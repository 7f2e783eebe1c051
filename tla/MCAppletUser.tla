---------------------------- MODULE MCAppletUser ----------------------------
(* Instances of AppletUser for TLC. *)
EXTENDS AppletUser

MCCardPin == [a \in Applets |-> "p"]
=============================================================================
