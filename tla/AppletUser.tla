----------------------------- MODULE AppletUser -----------------------------
(***************************************************************************)
(* A program that drives MF and MIAS itself, as external_libs/tob_sim's    *)
(* README and tests/BreakoutTrustOnboardLLTests.cpp do: closeAllChannels() *)
(* and init() once, then select(), commands and deselect() on either       *)
(* applet in any order.  Unlike the SDK it may have both selected at once. *)
(***************************************************************************)
EXTENDS Applet

CONSTANTS
    BasicArgs   \* the arguments the program gives to select(isBasic)

ASSUME BasicArgsAssumption == BasicArgs \subseteq BOOLEAN

VARIABLES
    usable,     \* the applets the last operation on which was a select() that was true
    reached     \* history: <<sender, applet>> of the last command the card ran

vars == <<cardVars, appletVars, usable, reached>>

Nothing == <<"none", "none">>

Init ==
    /\ CardInit
    /\ AppletInit
    /\ pc = "close_all"
    /\ usable = {}
    /\ reached = Nothing

TypeOK ==
    /\ CardTypeOK
    /\ AppletTypeOK /\ FlagsOK
    /\ pc \in AppletPCs \cup {"idle"}
    /\ usable \subseteq Applets
    /\ reached \in {Nothing} \cup (Applets \X Applets)

\* init() on both applets.
Ready ==
    /\ pc = "closed_all"
    /\ pc' = "idle"
    /\ seiface' = TRUE
    /\ idx' = 1
    /\ UNCHANGED <<cardVars, hostVars, cur, basicArg, lost, usable, reached>>

Select(a, b) == pc = "idle" /\ SelectStart(a, b) /\ UNCHANGED <<usable, reached>>

Deselect(a) == pc = "idle" /\ DeselectStart(a) /\ UNCHANGED <<usable, reached>>

\* Applet::transmit and the functions built on it: the command goes to
\* _channel, and the card runs it on the applet selected there.  The program
\* sends nothing after a select() that returned false.
Transmit(a) ==
    /\ pc = "idle" /\ a \in usable \cap isSelected
    /\ reached' = IF chan[channel[a]] = Closed THEN Nothing ELSE <<a, chan[channel[a]]>>
    /\ UNCHANGED <<cardVars, appletVars, usable>>

OperationReturns ==
    /\ pc \in {"selected", "unselected", "deselected"}
    /\ pc' = "idle"
    /\ usable' = IF pc = "selected" THEN usable \cup {cur} ELSE usable \ {cur}
    /\ UNCHANGED <<cardVars, seiface, hostVars, cur, basicArg, idx, lost, reached>>

Exchange == AppletStep /\ UNCHANGED <<usable, reached>>

Next ==
    \/ \E a \in Applets : \/ \E b \in BasicArgs : Select(a, b)
                          \/ Deselect(a)
                          \/ Transmit(a)
    \/ Exchange \/ Ready \/ OperationReturns

Spec == Init /\ [][Next]_vars

----------------------------------------------------------------------------
(* Properties                                                              *)

(* As long as no exchange is lost, the host's flags tell the truth about   *)
(* logical channels between two operations: an applet selected on one has  *)
(* it for itself, and no other logical channel is open (select, deselect). *)
ChannelsAccountedFor ==
    LET onLogical == isSelected \ isBasic
    IN  pc = "idle" =>
            /\ OpenChannels = {channel[a] : a \in onLogical}
            /\ \A a \in onLogical : chan[channel[a]] = a

(* "Transmit an APDU ... to the applet through the corresponding channel"  *)
(* (Applet.h): as long as no exchange is lost, another applet runs a       *)
(* command only when it was sent on the basic channel, which select(true)  *)
(* of that applet has taken over, whatever the applets were selected on    *)
(* before.                                                                 *)
OnlyBasicIsTakenOver ==
    [][\A a \in Applets :
          Transmit(a) /\ reached'[1] # reached'[2] => a \in isBasic /\ channel[a] = 0]_vars
=============================================================================
