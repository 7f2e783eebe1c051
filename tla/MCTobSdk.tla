------------------------------ MODULE MCTobSdk ------------------------------
(* Instances of TobSdk for TLC. *)
EXTENDS TobSdk

\* The two applets have different PINs, and there is a PIN that is neither.
MCCardPin == [a \in Applets |-> IF a = "MF" THEN "p_mf" ELSE "p_mias"]
=============================================================================
