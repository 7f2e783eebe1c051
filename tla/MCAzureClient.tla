--------------------------- MODULE MCAzureClient ---------------------------
(***************************************************************************)
(* The Azure programs with two devices.  ll_client sends 5 messages in the *)
(* source; its loop does not tell 5 from 2.                                *)
(***************************************************************************)
EXTENDS AzureClient
=============================================================================
