--------------------------- MODULE MCMiasKeyPairs ---------------------------
(* Instances of MiasKeyPairs for TLC. *)
EXTENDS MiasKeyPairs

\* Five records, one of them empty and one of a key of unknown size.
MCRecords == <<"rsa", "empty", "rsa", "other", "rsa">>

\* Files of containers 2, 0 and 4, of none, and a second one of container 0.
MCDir == <<2, -1, 0, 4, 0>>
=============================================================================
