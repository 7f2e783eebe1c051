-------------------------- MODULE AppletUserProofs --------------------------
(***************************************************************************)
(* Proofs about AppletUser, for every number of channels and whatever the  *)
(* program passes to select(): as long as no exchange is lost, the flags   *)
(* of both applets tell the truth about the card.                          *)
(***************************************************************************)
EXTENDS AppletUser, TLAPS

USE DEF Applets, Closed, Logical, AppletPCs

DataOK ==
    /\ chan \in [0 .. NumChannels -> Applets \cup {Closed}]
    /\ isSelected \subseteq Applets
    /\ isBasic \subseteq Applets
    /\ channel \in [Applets -> 0 .. NumChannels]
    /\ cur \in Applets
    /\ idx \in Nat \ {0}
    /\ pc \in AppletPCs \cup {"idle"}

\* The applets that are selected on a logical channel.
OnLogical == isSelected \ isBasic

Closing == {"close_all", "closed_all"}
Opened  == {"sel_aid", "sel_undo"}

\* Nothing is selected while closeAllChannels() closes one channel after the
\* other.
ClosingInv ==
    /\ pc \in Closing => isSelected = {}
    /\ pc = "close_all" => idx <= AppletMaxChannel /\ \A ch \in Logical : ch < idx => chan[ch] = Closed
    /\ pc = "closed_all" => \A ch \in Logical : chan[ch] = Closed

\* Where an operation on cur stands: what it closes is in use, and cur is
\* not selected while it opens another channel.
CurInv ==
    /\ pc \in {"sel_close", "des_close"} => cur \in OnLogical
    /\ pc \in Opened \cup {"sel_open", "sel_basic"} => cur \notin isSelected
    /\ pc = "sel_basic" => channel[cur] = 0

\* An applet selected on a logical channel has it for itself.
OwnInv == \A a \in OnLogical : channel[a] \in Logical /\ chan[channel[a]] = a

\* No other channel is open, but the one select() has just opened.
OpenInv ==
    /\ pc \notin Closing =>
          \A ch \in Logical : chan[ch] # Closed =>
              (\E a \in OnLogical : channel[a] = ch) \/ (pc \in Opened /\ ch = channel[cur])
    /\ pc \in Opened =>
          /\ channel[cur] \in Logical
          /\ chan[channel[cur]] # Closed
          /\ \A a \in OnLogical : channel[a] # channel[cur]

\* An applet selected on the basic channel has 0 in _channel.
BasicInv == \A a \in isSelected \cap isBasic : channel[a] = 0

\* The inductive invariant.
UserInv ==
    /\ DataOK
    /\ ClosingInv
    /\ CurInv
    /\ OwnInv
    /\ OpenInv
    /\ BasicInv

(* The initial states satisfy the invariant, whatever channels a previous  *)
(* program has left open.                                                  *)
LEMMA InitUserInv == Init => UserInv
  BY NumChannelsAssumption, AppletMaxChannelAssumption
     DEF Init, CardInit, AppletInit, UserInv, DataOK, ClosingInv, CurInv, OwnInv, OpenInv, BasicInv,
         OnLogical, Closing, Opened

(* An operation starts, or a command is sent.                              *)
LEMMA StartStep ==
    ASSUME UserInv, NEW a \in Applets,
           (\E b \in BasicArgs : Select(a, b)) \/ Deselect(a) \/ Transmit(a)
    PROVE  UserInv'
  <1> USE NumChannelsAssumption DEF UserInv
  <1>1. pc = "idle" /\ UNCHANGED <<chan, isBasic, idx>>
    BY DEF Select, SelectStart, Deselect, DeselectStart, Transmit, cardVars, appletVars, hostVars
  <1>2. /\ isSelected' \subseteq isSelected
        /\ isSelected \ isSelected' \subseteq isBasic
        /\ \A x \in isSelected' : channel'[x] = channel[x]
        /\ channel' \in [Applets -> 0 .. NumChannels]
    <2>1. CASE \E b \in BasicArgs : Select(a, b)
      <3>1. PICK b \in BasicArgs : Select(a, b)
        BY <2>1
      <3>2. CASE UNCHANGED hostVars
        BY <3>2 DEF hostVars, DataOK
      <3>3. CASE /\ a \in isSelected => a \in isBasic
                 /\ isSelected' = isSelected \ {a}
                 /\ channel' = IF b THEN [channel EXCEPT ![a] = 0] ELSE channel
        BY <3>3 DEF DataOK
      <3> QED BY <3>1, <3>2, <3>3 DEF Select, SelectStart
    <2>2. CASE Deselect(a) \/ Transmit(a)
      BY <2>2 DEF Deselect, DeselectStart, Transmit, appletVars, DataOK
    <2> QED BY <2>1, <2>2
  <1>3. /\ pc' \in {"idle", "unselected", "sel_close", "sel_open", "sel_basic", "des_close", "deselected"}
        /\ pc' \in {"sel_close", "des_close"} => cur' \in isSelected' \ isBasic
        /\ pc' \in {"sel_open", "sel_basic"} => cur' \notin isSelected'
        /\ pc' = "sel_basic" => channel'[cur'] = 0
        /\ cur' \in Applets
    BY DEF Select, SelectStart, AfterDeselect, Deselect, DeselectStart, Transmit, appletVars, hostVars, DataOK
  <1>4. OnLogical' = OnLogical
    BY <1>1, <1>2 DEF OnLogical
  <1>5. DataOK' /\ ClosingInv' /\ CurInv'
    BY <1>1, <1>2, <1>3 DEF DataOK, ClosingInv, CurInv, OnLogical, Closing, Opened
  <1>6. OwnInv' /\ OpenInv' /\ BasicInv'
    BY <1>1, <1>2, <1>3, <1>4 DEF OwnInv, OpenInv, BasicInv, OnLogical, Closing, Opened
  <1> QED BY <1>5, <1>6

(* init() on both applets, and the end of an operation.                    *)
LEMMA ReturnStep == ASSUME UserInv, Ready \/ OperationReturns PROVE UserInv'
  <1> USE DEF UserInv
  <1>1. /\ UNCHANGED <<chan, isSelected, isBasic, channel, cur>> /\ idx' \in {1, idx}
        /\ pc \in {"closed_all", "selected", "unselected", "deselected"} /\ pc' = "idle"
    BY DEF Ready, OperationReturns, cardVars, hostVars
  <1>2. DataOK' /\ ClosingInv' /\ CurInv' /\ OwnInv' /\ BasicInv'
    BY <1>1 DEF DataOK, ClosingInv, CurInv, OwnInv, BasicInv, OnLogical, Closing, Opened
  <1>3. OpenInv'
    BY <1>1 DEF OpenInv, ClosingInv, OnLogical, Closing, Opened
  <1> QED BY <1>2, <1>3

(* The MANAGE CHANNEL close of an answered deselect() is accepted, since   *)
(* the channel is open.                                                    *)
LEMMA DeselectAnswered ==
    ASSUME UserInv, Transport = {"answered"}, cur \in OnLogical,
           \E out \in Transport : DeselectClose(out)
    PROVE  /\ isSelected' = isSelected \ {cur}
           /\ chan' = [ch \in 0 .. NumChannels |-> IF ch = channel[cur] THEN Closed ELSE chan[ch]]
  <1> USE NumChannelsAssumption
  <1>1. channel[cur] \in OpenChannels /\ channel[cur] # 0
    BY DEF UserInv, OwnInv, OpenChannels, DataOK
  <1> QED BY <1>1 DEF DeselectClose, CloseExchange, CardClose, CloseAccepted

(* The close at the start of select().                                     *)
LEMMA SelCloseStep == ASSUME UserInv, Transport = {"answered"}, SelClose PROVE UserInv'
  <1> USE NumChannelsAssumption DEF UserInv
  <1>1. /\ cur \in OnLogical /\ isSelected' = isSelected \ {cur}
        /\ chan' = [ch \in 0 .. NumChannels |-> IF ch = channel[cur] THEN Closed ELSE chan[ch]]
    BY DeselectAnswered DEF SelClose, CurInv
  <1>2. /\ UNCHANGED <<isBasic, cur, idx>> /\ pc = "sel_close" /\ pc' \in {"sel_basic", "sel_open"}
        /\ channel' \in [Applets -> 0 .. NumChannels]
        /\ \A a \in Applets : a # cur => channel'[a] = channel[a]
        /\ pc' = "sel_basic" => channel'[cur] = 0
    BY DEF SelClose, AfterDeselect, DataOK
  <1>3. DataOK' /\ ClosingInv' /\ CurInv' /\ BasicInv'
    BY <1>1, <1>2 DEF DataOK, ClosingInv, CurInv, BasicInv, OnLogical, Closing, Opened
  <1>4. OwnInv' /\ OpenInv'
    BY <1>1, <1>2 DEF OwnInv, OpenInv, OnLogical, Closing, Opened, DataOK
  <1> QED BY <1>3, <1>4

(* The close of deselect().                                                *)
LEMMA DesCloseStep == ASSUME UserInv, Transport = {"answered"}, DesClose PROVE UserInv'
  <1> USE NumChannelsAssumption DEF UserInv
  <1>1. /\ cur \in OnLogical /\ isSelected' = isSelected \ {cur}
        /\ chan' = [ch \in 0 .. NumChannels |-> IF ch = channel[cur] THEN Closed ELSE chan[ch]]
    BY DeselectAnswered DEF DesClose, CurInv
  <1>2. UNCHANGED <<isBasic, channel, cur, idx>> /\ pc = "des_close" /\ pc' = "deselected"
    BY DEF DesClose
  <1>3. DataOK' /\ ClosingInv' /\ CurInv' /\ BasicInv'
    BY <1>1, <1>2 DEF DataOK, ClosingInv, CurInv, BasicInv, OnLogical, Closing, Opened
  <1>4. OwnInv' /\ OpenInv'
    BY <1>1, <1>2 DEF OwnInv, OpenInv, OnLogical, Closing, Opened, DataOK
  <1> QED BY <1>3, <1>4

(* SELECT on the basic channel.                                            *)
LEMMA SelBasicStep == ASSUME UserInv, SelBasic PROVE UserInv'
  <1> USE NumChannelsAssumption DEF UserInv
  <1>1. /\ chan' = chan \/ chan' = [chan EXCEPT ![0] = cur]
        /\ UNCHANGED <<channel, cur, idx>> /\ pc = "sel_basic"
        /\ \/ isSelected' = isSelected \cup {cur} /\ isBasic' = isBasic \cup {cur} /\ pc' = "selected"
           \/ UNCHANGED <<isSelected, isBasic>> /\ pc' = "unselected"
    BY DEF SelBasic, CardSelect, cardVars
  <1>2. OnLogical' = OnLogical
    BY <1>1 DEF OnLogical, CurInv
  <1>3. \A ch \in Logical : chan'[ch] = chan[ch]
    BY <1>1 DEF DataOK
  <1>4. DataOK' /\ ClosingInv' /\ CurInv' /\ BasicInv'
    BY <1>1 DEF DataOK, ClosingInv, CurInv, BasicInv, Closing, Opened
  <1>5. OwnInv' /\ OpenInv'
    BY <1>1, <1>2, <1>3 DEF OwnInv, OpenInv, Closing, Opened
  <1> QED BY <1>4, <1>5

(* MANAGE CHANNEL open.                                                    *)
LEMMA SelOpenStep == ASSUME UserInv, Transport = {"answered"}, SelOpen PROVE UserInv'
  <1> USE NumChannelsAssumption DEF UserInv
  <1>1. UNCHANGED <<isSelected, isBasic, cur, idx>> /\ pc = "sel_open" /\ cur \notin isSelected
    BY DEF SelOpen, CurInv
  <1>2. CASE UNCHANGED <<chan, channel>> /\ pc' = "unselected"
    BY <1>1, <1>2 DEF DataOK, ClosingInv, CurInv, OwnInv, OpenInv, BasicInv, OnLogical, Closing, Opened
  <1>3. ASSUME NEW ch \in Logical, chan[ch] = Closed, chan' = [chan EXCEPT ![ch] = "MF"],
               channel' = [channel EXCEPT ![cur] = ch], pc' = "sel_aid"
        PROVE  UserInv'
    <2>1. \A a \in OnLogical : a # cur /\ channel'[a] = channel[a] /\ channel[a] # ch /\ OnLogical' = OnLogical
      BY <1>1, <1>3 DEF OwnInv, OnLogical, DataOK
    <2>2. channel'[cur] = ch /\ \A c \in 0 .. NumChannels : chan'[c] = IF c = ch THEN "MF" ELSE chan[c]
      BY <1>3 DEF DataOK
    <2>3. DataOK' /\ ClosingInv' /\ CurInv' /\ BasicInv'
      BY <1>1, <1>3 DEF DataOK, ClosingInv, CurInv, BasicInv, OnLogical, Closing, Opened
    <2>4. OnLogical' = OnLogical
      BY <1>1 DEF OnLogical
    <2>5. OwnInv' /\ OpenInv'
      BY <1>1, <1>3, <2>1, <2>2, <2>4 DEF OwnInv, OpenInv, Closing, Opened
    <2> QED BY <2>3, <2>5
  <1> QED BY <1>2, <1>3 DEF SelOpen, CardOpen, cardVars

(* SELECT of the applet on the new channel.                                *)
LEMMA SelAidStep == ASSUME UserInv, SelAid PROVE UserInv'
  <1> USE NumChannelsAssumption DEF UserInv
  <1>1. /\ UNCHANGED <<channel, cur, idx>> /\ pc = "sel_aid" /\ cur \notin isSelected
        /\ channel[cur] \in Logical /\ chan[channel[cur]] # Closed
        /\ \A a \in OnLogical : a # cur /\ channel[a] # channel[cur]
    BY DEF SelAid, CurInv, OpenInv, Opened, OnLogical
  <1>2. CASE /\ chan' = [chan EXCEPT ![channel[cur]] = cur] /\ pc' = "selected"
             /\ isSelected' = isSelected \cup {cur} /\ isBasic' = isBasic \ {cur}
    <2>1. OnLogical' = OnLogical \cup {cur}
      BY <1>1, <1>2 DEF OnLogical
    <2>2. \A ch \in 0 .. NumChannels : chan'[ch] = IF ch = channel[cur] THEN cur ELSE chan[ch]
      BY <1>2 DEF DataOK
    <2>3. DataOK' /\ ClosingInv' /\ CurInv' /\ BasicInv'
      BY <1>1, <1>2 DEF DataOK, ClosingInv, CurInv, BasicInv, OnLogical, Closing, Opened
    <2>4. OwnInv' /\ OpenInv'
      BY <1>1, <1>2, <2>1, <2>2 DEF OwnInv, OpenInv, Closing, Opened, DataOK
    <2> QED BY <2>3, <2>4
  <1>3. CASE /\ chan' = chan \/ chan' = [chan EXCEPT ![channel[cur]] = cur]
             /\ pc' = "sel_undo" /\ UNCHANGED <<isSelected, isBasic>>
    <2>1. OnLogical' = OnLogical
      BY <1>3 DEF OnLogical
    <2>2. /\ \A ch \in Logical : ch # channel[cur] => chan'[ch] = chan[ch]
          /\ chan'[channel[cur]] # Closed
      BY <1>1, <1>3 DEF DataOK
    <2>3. DataOK' /\ ClosingInv' /\ CurInv' /\ BasicInv'
      BY <1>1, <1>3 DEF DataOK, ClosingInv, CurInv, BasicInv, OnLogical, Closing, Opened
    <2>4. OwnInv' /\ OpenInv'
      BY <1>1, <1>3, <2>1, <2>2 DEF OwnInv, OpenInv, Closing, Opened
    <2> QED BY <2>3, <2>4
  <1> QED BY <1>2, <1>3 DEF SelAid, CardSelect, cardVars

(* The close of a channel whose SELECT failed.                             *)
LEMMA SelUndoStep == ASSUME UserInv, Transport = {"answered"}, SelUndo PROVE UserInv'
  <1> USE NumChannelsAssumption DEF UserInv
  <1>1. /\ UNCHANGED <<isSelected, isBasic, channel, cur, idx>> /\ pc = "sel_undo" /\ pc' = "unselected"
        /\ channel[cur] \in Logical
        /\ \A a \in OnLogical : channel[a] # channel[cur]
    BY DEF SelUndo, hostVars, OpenInv, Opened
  <1>2. chan' = [ch \in 0 .. NumChannels |-> IF ch = channel[cur] THEN Closed ELSE chan[ch]]
    BY <1>1 DEF SelUndo, CloseExchange, CardClose
  <1>3. OnLogical' = OnLogical
    BY <1>1 DEF OnLogical
  <1>4. DataOK' /\ ClosingInv' /\ CurInv' /\ BasicInv'
    BY <1>1, <1>2 DEF DataOK, ClosingInv, CurInv, BasicInv, Closing, Opened
  <1>5. OwnInv' /\ OpenInv'
    BY <1>1, <1>2, <1>3 DEF OwnInv, OpenInv, Closing, Opened
  <1> QED BY <1>4, <1>5

(* A round of closeAllChannels().                                          *)
LEMMA CloseAllStepStep == ASSUME UserInv, Transport = {"answered"}, CloseAllStep PROVE UserInv'
  <1> USE NumChannelsAssumption, AppletMaxChannelAssumption DEF UserInv
  <1>1. /\ UNCHANGED <<isSelected, isBasic, channel, cur>> /\ pc = "close_all" /\ idx' = idx + 1
        /\ pc' = IF idx = AppletMaxChannel THEN "closed_all" ELSE "close_all"
        /\ isSelected = {} /\ idx <= AppletMaxChannel
    BY DEF CloseAllStep, hostVars, ClosingInv, Closing
  <1>2. chan' = [ch \in 0 .. NumChannels |-> IF ch = idx /\ ch # 0 THEN Closed ELSE chan[ch]]
    BY DEF CloseAllStep, CloseExchange, CardClose
  <1>3. DataOK' /\ CurInv' /\ BasicInv' /\ OwnInv' /\ OpenInv'
    BY <1>1, <1>2 DEF DataOK, CurInv, BasicInv, OwnInv, OpenInv, OnLogical, Closing, Opened
  <1>4. ClosingInv'
    <2>1. \A ch \in Logical : ch <= idx => chan'[ch] = Closed
      BY <1>1, <1>2 DEF ClosingInv, DataOK
    <2>2. idx \in Nat /\ AppletMaxChannel \in Nat
      BY DEF DataOK
    <2> QED BY <1>1, <2>1, <2>2 DEF ClosingInv, Closing
  <1> QED BY <1>3, <1>4

(* The invariant holds as long as no exchange is lost.                     *)
THEOREM UserInvariant == Transport = {"answered"} => (Spec => []UserInv)
  <1> SUFFICES ASSUME Transport = {"answered"} PROVE Spec => []UserInv
    OBVIOUS
  <1>1. ASSUME UserInv, [Next]_vars PROVE UserInv'
    <2>1. CASE UNCHANGED vars
      BY <1>1, <2>1 DEF vars, cardVars, appletVars, UserInv, DataOK, ClosingInv, CurInv, OwnInv,
         OpenInv, BasicInv, OnLogical
    <2>2. CASE Exchange
      BY <1>1, <2>2, SelCloseStep, SelBasicStep, SelOpenStep, SelAidStep, SelUndoStep, DesCloseStep,
         CloseAllStepStep DEF Exchange, AppletStep
    <2> QED BY <1>1, <2>1, <2>2, StartStep, ReturnStep DEF Next
  <1> QED BY <1>1, InitUserInv, PTL DEF Spec

(* Between two operations the logical channels are those of the selected   *)
(* applets, each its own, as long as no exchange is lost.                  *)
THEOREM ChannelsAccountedForHolds == Transport = {"answered"} => (Spec => []ChannelsAccountedFor)
  <1> SUFFICES ASSUME Transport = {"answered"} PROVE Spec => []ChannelsAccountedFor
    OBVIOUS
  <1>1. UserInv => ChannelsAccountedFor
    <2> SUFFICES ASSUME UserInv, pc = "idle"
                 PROVE  /\ OpenChannels = {channel[a] : a \in OnLogical}
                        /\ \A a \in OnLogical : chan[channel[a]] = a
      BY DEF ChannelsAccountedFor, OnLogical
    <2> USE DEF UserInv
    <2>1. \A a \in OnLogical : channel[a] \in Logical /\ chan[channel[a]] = a /\ a # Closed
      BY DEF OwnInv, OnLogical, DataOK
    <2>2. \A ch \in OpenChannels : \E a \in OnLogical : channel[a] = ch
      BY DEF OpenInv, OpenChannels, Closing, Opened
    <2> QED BY <2>1, <2>2 DEF OpenChannels
  <1> QED BY <1>1, UserInvariant, PTL

(* Only on the basic channel can a command reach another applet, as long   *)
(* as no exchange is lost.                                                 *)
THEOREM OnlyBasicIsTakenOverHolds == Transport = {"answered"} => (Spec => OnlyBasicIsTakenOver)
  <1> SUFFICES ASSUME Transport = {"answered"} PROVE Spec => OnlyBasicIsTakenOver
    OBVIOUS
  <1> DEFINE Taken == \A a \in Applets : Transmit(a) /\ reached'[1] # reached'[2] => a \in isBasic /\ channel[a] = 0
  <1>1. ASSUME UserInv PROVE Taken
    <2> SUFFICES ASSUME NEW a \in Applets, Transmit(a), reached'[1] # reached'[2]
                 PROVE  a \in isBasic /\ channel[a] = 0
      OBVIOUS
    <2>1. a \in isSelected /\ chan[channel[a]] # a
      BY DEF Transmit, Nothing
    <2> QED BY <1>1, <2>1 DEF UserInv, OwnInv, BasicInv, OnLogical
  <1>2. UserInv => [Taken]_vars
    BY <1>1
  <1> QED BY <1>2, UserInvariant, PTL DEF OnlyBasicIsTakenOver
=============================================================================
