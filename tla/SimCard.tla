------------------------------ MODULE SimCard ------------------------------
(***************************************************************************)
(* The Trust Onboard SIM, as the host code uses it.  The card is external  *)
(* to the repository: its reactions are the ones the SDK relies on when it *)
(* sends MANAGE CHANNEL, SELECT and VERIFY (ISO/IEC 7816-4).               *)
(*                                                                         *)
(* A channel is Closed or has one applet selected.  Channel 0, the basic   *)
(* channel, is always open.  The PIN of an applet has a try counter that   *)
(* survives resets; a verified PIN is a property of the channel's session. *)
(***************************************************************************)
EXTENDS Naturals, FiniteSets

CONSTANTS
    NumChannels,   \* logical channels 1..NumChannels the card supports
    MaxTries,      \* wrong PINs the card accepts in a row before it blocks
    Pins,          \* the PIN values callers use
    CardPin        \* the right PIN of each applet (they may differ)

Applets == {"MF", "MIAS"}
Closed  == "closed"
Logical == 1 .. NumChannels

\* SELECT addresses a channel with the two low bits of the class byte
\* (0x00 | _channel), which is what bounds the number of channels.
ASSUME NumChannelsAssumption == NumChannels \in 1 .. 3
ASSUME MaxTriesAssumption == MaxTries \in Nat \ {0}
ASSUME CardPinAssumption == CardPin \in [Applets -> Pins]

VARIABLES
    chan,    \* channel -> Closed or the applet selected on it
    auth,    \* channels whose applet has had its PIN verified
    tries    \* applet -> PIN tries left

cardVars == <<chan, auth, tries>>

CardTypeOK ==
    /\ chan \in [0 .. NumChannels -> Applets \cup {Closed}]
    /\ auth \subseteq 0 .. NumChannels
    /\ tries \in [Applets -> 0 .. MaxTries]

OpenChannels == {ch \in Logical : chan[ch] # Closed}

(* A card that was already in use: any logical channel may have been left  *)
(* open by a previous program.                                             *)
CardInit ==
    /\ chan \in [0 .. NumChannels -> Applets \cup {Closed}]
    /\ chan[0] = "MF"
    /\ auth = {}
    /\ tries = [a \in Applets |-> MaxTries]

----------------------------------------------------------------------------
(* Reactions to the commands of Applet.cpp and of verifyPin.               *)

\* MANAGE CHANNEL open: the card picks a free channel; MF is selected on it.
CardOpen(ch) ==
    /\ chan[ch] = Closed
    /\ chan' = [chan EXCEPT ![ch] = "MF"]
    /\ auth' = auth \ {ch}
    /\ UNCHANGED tries

\* MANAGE CHANNEL close: the basic channel cannot be closed.
CloseAccepted(ch) == ch \in OpenChannels

CardClose(ch) ==
    /\ chan' = [c \in 0 .. NumChannels |-> IF c = ch /\ c # 0 THEN Closed ELSE chan[c]]
    /\ auth' = IF ch = 0 THEN auth ELSE auth \ {ch}
    /\ UNCHANGED tries

\* SELECT by AID on an open channel starts an unverified session.
CardSelect(ch, a) ==
    /\ chan[ch] # Closed
    /\ chan' = [chan EXCEPT ![ch] = a]
    /\ auth' = auth \ {ch}
    /\ UNCHANGED tries

\* VERIFY goes to whatever applet is selected on the channel it is sent on.
VerifyAccepted(ch, pin) ==
    /\ chan[ch] # Closed
    /\ tries[chan[ch]] > 0
    /\ pin = CardPin[chan[ch]]

CardVerify(ch, pin) ==
    /\ UNCHANGED chan
    /\ \/ /\ VerifyAccepted(ch, pin)
          /\ tries' = [tries EXCEPT ![chan[ch]] = MaxTries]
          /\ auth' = auth \cup {ch}
       \/ /\ ~VerifyAccepted(ch, pin)
          /\ chan[ch] # Closed
          /\ tries' = [tries EXCEPT ![chan[ch]] = IF @ > 0 THEN @ - 1 ELSE 0]
          /\ auth' = auth \ {ch}
       \/ /\ chan[ch] = Closed
          /\ UNCHANGED <<auth, tries>>

\* Power loss or a warm reset of the card (modem reset, reader reconnect).
CardReset ==
    /\ chan' = [ch \in 0 .. NumChannels |-> IF ch = 0 THEN "MF" ELSE Closed]
    /\ auth' = {}
    /\ UNCHANGED tries
=============================================================================
