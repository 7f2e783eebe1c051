------------------------------ MODULE KeyCache ------------------------------
(***************************************************************************)
(* What the SDK relies on in MIAS::listKeyPairs, for one container: the    *)
(* answer it gives about the container is fixed by the first listing that  *)
(* gets anywhere and is never revised while the process lives.  This is    *)
(* how TobSdk treats its variable `keys'.                                  *)
(***************************************************************************)
EXTENDS Naturals

CONSTANT Answers    \* what a listing may find out: "full", "nocert", "none"

VARIABLES
    keys,
    life    \* the process: 0, 1, ...

Init == keys = "unlisted" /\ life = 0

List == keys = "unlisted" /\ keys' \in Answers /\ UNCHANGED life

NewProcess == keys' = "unlisted" /\ life' = life + 1

Spec == Init /\ [][List \/ NewProcess]_<<keys, life>>
=============================================================================
