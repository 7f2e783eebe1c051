---------------------------- MODULE ApduExchange ----------------------------
(***************************************************************************)
(* What SEInterface::transmit promises the applets: a command is run at    *)
(* most once; true means it was run and its own answer is in the response  *)
(* buffer; false leaves open whether it was run.  These are the outcomes   *)
(* answered, lostReq and lostRsp of module Applet.                         *)
(*                                                                         *)
(* A command with data that the card answers with 6Cxx is sent again with  *)
(* a wrong length (spoilt): true then does not mean that it was run.  And  *)
(* the promise is void in a program that has opened a port with answers to *)
(* a dead program's commands still to come (tainted).                      *)
(***************************************************************************)
VARIABLES
    phase,     \* "down": no program; "idle"; "busy": in transmit()
    ran,       \* how often the card has run the command
    result,    \* "none", "answered" (true) or "lost" (false)
    spoilt,
    tainted

vars == <<phase, ran, result, spoilt, tainted>>

Init == phase = "down" /\ ran = 0 /\ result = "none" /\ spoilt = FALSE /\ tainted = FALSE

Start ==
    /\ phase = "down" /\ phase' = "idle"
    /\ tainted' \in BOOLEAN /\ spoilt' = FALSE
    /\ UNCHANGED <<ran, result>>

Begin ==
    /\ phase = "idle" /\ phase' = "busy"
    /\ ran' = 0 /\ result' = "none" /\ spoilt' = FALSE
    /\ UNCHANGED tainted

\* A command whose program has died may still be run.
Run ==
    /\ phase \in {"busy", "down"} /\ ran = 0 /\ ran' = 1
    /\ UNCHANGED <<phase, result, spoilt, tainted>>

\* Only a command that was not run is sent again.
Spoil ==
    /\ phase = "busy" /\ ran = 0 /\ spoilt' = TRUE
    /\ UNCHANGED <<phase, ran, result, tainted>>

\* The run and the end of the exchange may be seen at once.
End ==
    /\ phase = "busy" /\ phase' = "idle"
    /\ result' \in {"answered", "lost"}
    /\ ran' = ran \/ (ran = 0 /\ ran' = 1)
    /\ result' = "answered" => ran' = 1 \/ spoilt
    /\ UNCHANGED <<spoilt, tainted>>

Die == phase # "down" /\ phase' = "down" /\ result' = "none" /\ UNCHANGED <<ran, spoilt, tainted>>

\* Anything, until another program starts.
Void == tainted /\ tainted'

Next == Start \/ Begin \/ Run \/ Spoil \/ End \/ Die \/ Void

Spec == Init /\ [][Next]_vars
=============================================================================
