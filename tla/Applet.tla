------------------------------- MODULE Applet -------------------------------
(***************************************************************************)
(* class Applet (external_libs/tob_sim/common/src/Applet.cpp): the host's  *)
(* view of an applet of the card, and the exchanges that select and        *)
(* deselect it.                                                            *)
(*                                                                         *)
(* Every SEInterface::transmit is one step.  Its outcome is one of         *)
(* Transport: "answered" (the card ran the command, the answer arrived),   *)
(* "lostReq" (transmit() is false and the card never saw the command) and  *)
(* "lostRsp" (transmit() is false although the card ran the command).      *)
(*                                                                         *)
(* This module has no Next of its own: select(), deselect() and            *)
(* closeAllChannels() leave pc at "selected", "unselected", "deselected"   *)
(* or "closed_all", from where the module that composes it goes on.        *)
(***************************************************************************)
EXTENDS SimCard

CONSTANTS
    AppletMaxChannel,   \* APPLET_MAX_CHANNEL: closeAllChannels closes 1..this
    Transport           \* the outcomes a transmit may have

Outcomes == {"answered", "lostReq", "lostRsp"}

ASSUME AppletMaxChannelAssumption ==
    AppletMaxChannel \in Nat /\ NumChannels <= AppletMaxChannel
ASSUME TransportAssumption == "answered" \in Transport /\ Transport \subseteq Outcomes

VARIABLES
    seiface,      \* _seiface is set (init() has been called on both applets)
    isSelected,   \* the applets whose _isSelected is set
    isBasic,      \* the applets whose _isBasic is set
    channel,      \* applet -> _channel
    pc,           \* the next exchange, or the result of the last operation
    cur,          \* the applet being operated on
    basicArg,     \* the argument of select()
    idx,          \* the loop variable of closeAllChannels()
    lost          \* history: open channels left so by a lost exchange

hostVars   == <<isSelected, isBasic, channel>>
appletVars == <<seiface, isSelected, isBasic, channel, pc, cur, basicArg, idx, lost>>

AppletPCs == {"sel_close", "sel_basic", "sel_open", "sel_aid", "sel_undo", "des_close",
              "close_all", "selected", "unselected", "deselected", "closed_all"}

AppletTypeOK ==
    /\ isSelected \subseteq Applets
    /\ isBasic \subseteq Applets
    /\ channel \in [Applets -> 0 .. NumChannels]
    /\ cur \in Applets
    /\ idx \in 1 .. AppletMaxChannel + 1
    /\ lost \subseteq Logical

FlagsOK == seiface \in BOOLEAN /\ basicArg \in BOOLEAN

\* Applet::Applet for both applets.
AppletInit ==
    /\ seiface = FALSE
    /\ isSelected = {}
    /\ isBasic = {}
    /\ channel = [a \in Applets |-> 0]
    /\ cur = "MIAS"
    /\ basicArg = FALSE
    /\ idx = 1
    /\ lost = {}

\* The same in a process that replaces this one.
AppletRestart ==
    /\ seiface' = FALSE
    /\ isSelected' = {}
    /\ isBasic' = {}
    /\ channel' = [a \in Applets |-> 0]
    /\ cur' = "MIAS"
    /\ basicArg' = FALSE
    /\ idx' = 1
    /\ lost' = {}

----------------------------------------------------------------------------
(* MANAGE CHANNEL close of channel ch, as the card and `lost' see it.      *)
CloseExchange(ch, out) ==
    \/ /\ out = "lostReq"
       /\ lost' = lost \cup ({ch} \cap OpenChannels)
       /\ UNCHANGED cardVars
    \/ /\ out # "lostReq"
       /\ lost' = lost \ {ch}
       /\ CardClose(ch)

----------------------------------------------------------------------------
(* select(isBasic)                                                         *)

\* What select() does once deselect() has returned, whatever it returned.
AfterDeselect(b) == IF b THEN "sel_basic" ELSE "sel_open"

\* Mutant: the basic channel is selected, and _channel is not set to 0.
SelectStartKeepsChannel(a, b) ==
    /\ cur' = a
    /\ basicArg' = b
    /\ \/ ~seiface /\ pc' = "unselected" /\ UNCHANGED hostVars
       \/ seiface /\ a \in isSelected /\ a \notin isBasic /\ pc' = "sel_close" /\ UNCHANGED hostVars
       \/ /\ seiface /\ (a \in isSelected => a \in isBasic)
          /\ pc' = AfterDeselect(b)
          /\ isSelected' = isSelected \ {a}
          /\ UNCHANGED <<channel, isBasic>>
    /\ UNCHANGED <<cardVars, seiface, idx, lost>>

\* select() up to its first exchange, the tests of deselect() included.
SelectStart(a, b) ==
    /\ cur' = a
    /\ basicArg' = b
    /\ \/ /\ ~seiface
          /\ pc' = "unselected"
          /\ UNCHANGED hostVars
       \/ /\ seiface /\ a \in isSelected /\ a \notin isBasic
          /\ pc' = "sel_close"
          /\ UNCHANGED hostVars
       \/ /\ seiface /\ (a \in isSelected => a \in isBasic)
          /\ pc' = AfterDeselect(b)
          /\ isSelected' = isSelected \ {a}
          /\ channel' = IF b THEN [channel EXCEPT ![a] = 0] ELSE channel
          /\ UNCHANGED isBasic
    /\ UNCHANGED <<cardVars, seiface, idx, lost>>

\* The MANAGE CHANNEL close of deselect(): only an answer 9000 clears
\* _isSelected.
DeselectClose(out) ==
    /\ isSelected' = IF out = "answered" /\ CloseAccepted(channel[cur])
                     THEN isSelected \ {cur} ELSE isSelected
    /\ CloseExchange(channel[cur], out)

\* Mutant: select() gives up when its deselect() was false.
SelCloseMustSucceed ==
    /\ pc = "sel_close"
    /\ \E out \in Transport : DeselectClose(out)
    /\ pc' = IF cur \in isSelected' THEN "unselected" ELSE AfterDeselect(basicArg)
    /\ channel' = IF basicArg THEN [channel EXCEPT ![cur] = 0] ELSE channel
    /\ UNCHANGED <<seiface, isBasic, cur, basicArg, idx>>

SelClose ==
    /\ pc = "sel_close"
    /\ \E out \in Transport : DeselectClose(out)
    /\ pc' = AfterDeselect(basicArg)
    /\ channel' = IF basicArg THEN [channel EXCEPT ![cur] = 0] ELSE channel
    /\ UNCHANGED <<seiface, isBasic, cur, basicArg, idx>>

\* SELECT on the basic channel.
SelBasic ==
    /\ pc = "sel_basic"
    /\ \/ /\ CardSelect(0, cur)
          /\ pc' = "selected"
          /\ isSelected' = isSelected \cup {cur}
          /\ isBasic' = isBasic \cup {cur}
       \/ /\ "lostRsp" \in Transport
          /\ CardSelect(0, cur)
          /\ pc' = "unselected"
          /\ UNCHANGED <<isSelected, isBasic>>
       \/ /\ pc' = "unselected"       \* refused, or "lostReq"
          /\ UNCHANGED <<cardVars, isSelected, isBasic>>
    /\ UNCHANGED <<seiface, channel, cur, basicArg, idx, lost>>

\* MANAGE CHANNEL open; getResponse(&_channel) on 9000.
SelOpen ==
    /\ pc = "sel_open"
    /\ \/ \E ch \in Logical :
            /\ CardOpen(ch)
            /\ pc' = "sel_aid"
            /\ channel' = [channel EXCEPT ![cur] = ch]
            /\ UNCHANGED lost
       \/ \E ch \in Logical :
            /\ "lostRsp" \in Transport
            /\ CardOpen(ch)
            /\ pc' = "unselected"
            /\ lost' = lost \cup {ch}
            /\ UNCHANGED channel
       \/ /\ OpenChannels = Logical \/ "lostReq" \in Transport
          /\ pc' = "unselected"
          /\ UNCHANGED <<cardVars, channel, lost>>
    /\ UNCHANGED <<seiface, isSelected, isBasic, cur, basicArg, idx>>

\* Mutant: the status word of SELECT is not looked at.
SelAidUnchecked ==
    /\ pc = "sel_aid"
    /\ pc' = "selected"
    /\ isSelected' = isSelected \cup {cur}
    /\ isBasic' = isBasic \ {cur}
    /\ CardSelect(channel[cur], cur) \/ UNCHANGED cardVars
    /\ UNCHANGED <<seiface, channel, cur, basicArg, idx, lost>>

\* SELECT of the applet on the new channel.
SelAid ==
    /\ pc = "sel_aid"
    /\ \/ /\ CardSelect(channel[cur], cur)
          /\ pc' = "selected"
          /\ isSelected' = isSelected \cup {cur}
          /\ isBasic' = isBasic \ {cur}
       \/ /\ "lostRsp" \in Transport
          /\ CardSelect(channel[cur], cur)
          /\ pc' = "sel_undo"
          /\ UNCHANGED <<isSelected, isBasic>>
       \/ /\ pc' = "sel_undo"         \* refused, or "lostReq"
          /\ UNCHANGED <<cardVars, isSelected, isBasic>>
    /\ UNCHANGED <<seiface, channel, cur, basicArg, idx, lost>>

\* Mutant: select() returns without closing the channel it opened.
SelUndoForgotten ==
    /\ pc = "sel_undo"
    /\ pc' = "unselected"
    /\ UNCHANGED <<cardVars, seiface, hostVars, cur, basicArg, idx, lost>>

\* The close of the channel whose SELECT failed; its result is ignored.
SelUndo ==
    /\ pc = "sel_undo"
    /\ \E out \in Transport : CloseExchange(channel[cur], out)
    /\ pc' = "unselected"
    /\ UNCHANGED <<seiface, hostVars, cur, basicArg, idx>>

----------------------------------------------------------------------------
(* deselect()                                                              *)

DeselectStart(a) ==
    /\ cur' = a
    /\ \/ /\ seiface /\ a \in isSelected /\ a \notin isBasic
          /\ pc' = "des_close"
          /\ UNCHANGED isSelected
       \/ /\ seiface /\ a \in isSelected /\ a \in isBasic
          /\ pc' = "deselected"
          /\ isSelected' = isSelected \ {a}
       \/ /\ ~(seiface /\ a \in isSelected)
          /\ pc' = "deselected"
          /\ UNCHANGED isSelected
    /\ UNCHANGED <<cardVars, seiface, isBasic, channel, basicArg, idx, lost>>

DesClose ==
    /\ pc = "des_close"
    /\ \E out \in Transport : DeselectClose(out)
    /\ pc' = "deselected"
    /\ UNCHANGED <<seiface, isBasic, channel, cur, basicArg, idx>>

----------------------------------------------------------------------------
(* closeAllChannels(seiface): every result is ignored.                     *)

\* Mutant: the loop starts at channel 2.
CloseAllFromTwo ==
    /\ pc' = "close_all"
    /\ idx' = 2
    /\ lost' = {}
    /\ UNCHANGED <<cardVars, seiface, hostVars, cur, basicArg>>

CloseAllStart ==
    /\ pc' = "close_all"
    /\ idx' = 1
    /\ lost' = {}
    /\ UNCHANGED <<cardVars, seiface, hostVars, cur, basicArg>>

CloseAllStep ==
    /\ pc = "close_all"
    /\ \E out \in Transport : CloseExchange(idx, out)
    /\ pc' = IF idx = AppletMaxChannel THEN "closed_all" ELSE "close_all"
    /\ idx' = idx + 1
    /\ UNCHANGED <<seiface, hostVars, cur, basicArg>>

AppletStep ==
    \/ SelClose \/ SelBasic \/ SelOpen \/ SelAid \/ SelUndo
    \/ DesClose
    \/ CloseAllStep

\* The card loses power: its channels go, and with them what was lost.
ResetCard ==
    /\ CardReset
    /\ lost' = {}
    /\ UNCHANGED <<seiface, hostVars, pc, cur, basicArg, idx>>

\* Channels some applet, or the select() in progress, will still close.
Held ==
    {channel[a] : a \in isSelected}
        \cup (IF pc \in {"sel_aid", "sel_undo"} THEN {channel[cur]} ELSE {})
=============================================================================
