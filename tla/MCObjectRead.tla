---------------------------- MODULE MCObjectRead ----------------------------
(* Instances of ObjectRead for TLC. *)
EXTENDS ObjectRead

\* Two labelled objects among other files; "absent" is in none of them.
MCFiles == <<"other", "new", "foreign", "other", "legacy">>
=============================================================================
