---------------------------- MODULE TobSdkProofs ----------------------------
(***************************************************************************)
(* Proofs about TobSdk, for every number of channels and tries, every set  *)
(* of PINs and API calls and every choice of transport outcomes.           *)
(***************************************************************************)
EXTENDS TobSdk, TLAPS

USE DEF Applets, Closed, Logical, P11Calls, SignCalls, KeyCalls, Calls, PinCalls, KeyLists,
        Codes, SdkPCs, AppletPCs, Selecting, Inside, Leaving, InSession

\* What IInv says of everything but the Boolean flags, which go to Zenon.
DataOK ==
    /\ CardTypeOK
    /\ AppletTypeOK
    /\ pc \in AppletPCs \cup SdkPCs
    /\ keys \in KeyLists
    /\ present \subseteq {"new", "legacy"}
    /\ call \in Calls \cup {"none", "init", "exit"}
    /\ pin \in Pins \cup {NoPin}
    /\ label \in {"new", "legacy"}
    /\ ret \in Codes
    /\ got \in {"none", "new", "legacy", "partial", "alien", "done"}
    /\ burnt \in 0 .. 2

DataInv ==
    /\ DataOK
    /\ ControlInv
    /\ LogicalInv
    /\ SessionReachesApplet
    /\ NothingSentLocked
    /\ OrphansExplained
    /\ ClosingInv
    /\ BurntInv

(* The invariant, split into data and flags. *)
LEMMA IInvSplit == IInv <=> DataInv /\ SdkFlagsOK
  BY DEF IInv, DataInv, TypeOK, DataOK

(* A MANAGE CHANNEL close opens nothing, and a channel that survives it was *)
(* another one or is accounted for in `lost'.                               *)
LEMMA CloseEffect ==
    ASSUME CardTypeOK, lost \subseteq Logical,
           NEW ch \in Nat, NEW out \in Transport, CloseExchange(ch, out)
    PROVE  /\ CardTypeOK'
           /\ lost' \subseteq Logical
           /\ \A x \in OpenChannels' : x \in OpenChannels /\ ((x = ch \/ x \in lost) => x \in lost')
  <1> USE NumChannelsAssumption
  <1>1. CASE out = "lostReq"
    BY <1>1 DEF CloseExchange, CardTypeOK, OpenChannels, cardVars
  <1>2. CASE out # "lostReq"
    <2>1. chan' = [c \in 0 .. NumChannels |-> IF c = ch /\ c # 0 THEN Closed ELSE chan[c]]
      BY <1>2 DEF CloseExchange, CardClose
    <2>2. lost' = lost \ {ch} /\ auth' \subseteq auth /\ tries' = tries
      BY <1>2 DEF CloseExchange, CardClose
    <2>3. CardTypeOK'
      BY <2>1, <2>2 DEF CardTypeOK
    <2>4. \A x \in OpenChannels' : x \in OpenChannels /\ x # ch
      BY <2>1 DEF OpenChannels
    <2> QED BY <2>2, <2>3, <2>4
  <1> QED BY <1>1, <1>2

(* The initial states satisfy the invariant. *)
LEMMA InitIInv == Init => IInv
  <1> SUFFICES ASSUME Init PROVE IInv
    OBVIOUS
  <1>1. CardTypeOK
    BY NumChannelsAssumption, MaxTriesAssumption DEF Init, CardInit, CardTypeOK
  <1>2. AppletTypeOK
    BY NumChannelsAssumption, AppletMaxChannelAssumption DEF Init, AppletInit, AppletTypeOK
  <1>3. DataOK
    BY <1>1, <1>2 DEF Init, DataOK
  <1>4. SdkFlagsOK
    BY Zenon DEF Init, AppletInit, SdkFlagsOK, FlagsOK
  <1>5. ControlInv /\ LogicalInv /\ SessionReachesApplet /\ NothingSentLocked
    BY DEF Init, AppletInit, ControlInv, LogicalInv, SessionReachesApplet, NothingSentLocked
  <1>6. OrphansExplained /\ ClosingInv /\ BurntInv
    BY DEF Init, AppletInit, OrphansExplained, ClosingInv, BurntInv
  <1> QED BY <1>3, <1>4, <1>5, <1>6, IInvSplit DEF DataInv

(* tobInitialize and tobInitializeWithInterface, up to closeAllChannels(). *)
LEMMA InitializeStep == ASSUME DataInv, tobInitialize \/ tobInitializeWithInterface PROVE DataInv'
  <1> USE NumChannelsAssumption, AppletMaxChannelAssumption
          DEF DataInv, DataOK, tobInitialize, tobInitializeWithInterface, NewCall, CloseAllStart,
              cardVars, appletVars, hostVars
  <1>1. CardTypeOK' /\ AppletTypeOK'
    <2>1. CardTypeOK'
      BY DEF CardTypeOK
    <2>2. /\ isSelected' = isSelected /\ isBasic' = isBasic /\ channel' = channel /\ cur' = cur
          /\ idx' \in {1, idx} /\ lost' \subseteq lost
      OBVIOUS
    <2>3. AppletTypeOK'
      BY <2>2 DEF AppletTypeOK
    <2> QED BY <2>1, <2>3
  <1>2. DataOK'
    <2>1. CASE tobInitialize
      BY <1>1, <2>1
    <2>2. CASE tobInitializeWithInterface
      BY <1>1, <2>2
    <2> QED BY <2>1, <2>2
  <1>3. ControlInv' /\ LogicalInv' /\ BurntInv'
    BY DEF ControlInv, LogicalInv, BurntInv, AppletTypeOK
  <1>4. SessionReachesApplet' /\ NothingSentLocked'
    BY DEF SessionReachesApplet, NothingSentLocked, ControlInv, LogicalInv, Reached, CardTypeOK,
           AppletTypeOK
  <1>5. OrphansExplained' /\ ClosingInv'
    BY DEF OrphansExplained, ClosingInv, OpenChannels, Held, LogicalInv, CardTypeOK, AppletTypeOK
  <1> QED BY <1>2, <1>3, <1>4, <1>5

(* The end of an initialisation. *)
LEMMA InitDoneStep == ASSUME DataInv, InitDone PROVE DataInv'
  <1> USE NumChannelsAssumption, AppletMaxChannelAssumption
          DEF DataInv, DataOK, InitDone, cardVars, appletVars, hostVars
  <1>1. CardTypeOK' /\ AppletTypeOK'
    BY SMTT(30) DEF CardTypeOK, AppletTypeOK
  <1>2. DataOK'
    BY <1>1, SMTT(30)
  <1>3. ControlInv' /\ LogicalInv' /\ BurntInv'
    BY DEF ControlInv, LogicalInv, BurntInv, AppletTypeOK
  <1>4. SessionReachesApplet' /\ NothingSentLocked'
    BY DEF SessionReachesApplet, NothingSentLocked, ControlInv, LogicalInv, Reached, CardTypeOK,
           AppletTypeOK
  <1>5. OrphansExplained' /\ ClosingInv'
    BY DEF OrphansExplained, ClosingInv, OpenChannels, Held, LogicalInv, CardTypeOK, AppletTypeOK
  <1> QED BY <1>2, <1>3, <1>4, <1>5

(* The entry of a call: select() up to its first exchange. *)
LEMMA EnterStep == ASSUME DataInv, \E c \in Calls, p \in Pins \cup {NoPin} : Enter(c, p) PROVE DataInv'
  <1> USE NumChannelsAssumption, AppletMaxChannelAssumption
          DEF DataInv, DataOK, Enter, NewCall, SelectStart, AfterDeselect, AppOf, cardVars, appletVars, hostVars
  <1>1. CardTypeOK' /\ AppletTypeOK'
    BY ZenonT(60) DEF CardTypeOK, AppletTypeOK
  <1>2. DataOK'
    BY <1>1, SMTT(30)
  <1>3. ControlInv' /\ LogicalInv' /\ BurntInv'
    BY DEF ControlInv, LogicalInv, BurntInv, AppletTypeOK
  <1>4. SessionReachesApplet' /\ NothingSentLocked'
    BY DEF SessionReachesApplet, NothingSentLocked, ControlInv, LogicalInv, Reached, CardTypeOK,
           AppletTypeOK
  <1>5. OrphansExplained' /\ ClosingInv'
    BY DEF OrphansExplained, ClosingInv, OpenChannels, Held, LogicalInv, CardTypeOK, AppletTypeOK
  <1> QED BY <1>2, <1>3, <1>4, <1>5

(* An ill-formed EF name. *)
LEMMA EfNameStep == ASSUME DataInv, EfNameInvalid PROVE DataInv'
  <1> USE NumChannelsAssumption, AppletMaxChannelAssumption
          DEF DataInv, DataOK, EfNameInvalid, NewCall, cardVars, appletVars, hostVars
  <1>1. CardTypeOK' /\ AppletTypeOK'
    BY SMTT(30) DEF CardTypeOK, AppletTypeOK
  <1>2. DataOK'
    BY <1>1, SMTT(30)
  <1>3. ControlInv' /\ LogicalInv' /\ BurntInv'
    BY DEF ControlInv, LogicalInv, BurntInv, AppletTypeOK
  <1>4. SessionReachesApplet' /\ NothingSentLocked'
    BY DEF SessionReachesApplet, NothingSentLocked, ControlInv, LogicalInv, Reached, CardTypeOK,
           AppletTypeOK
  <1>5. OrphansExplained' /\ ClosingInv'
    BY DEF OrphansExplained, ClosingInv, OpenChannels, Held, LogicalInv, CardTypeOK, AppletTypeOK
  <1> QED BY <1>2, <1>3, <1>4, <1>5

(* The call after a select() that was false. *)
LEMMA SelectFailsStep == ASSUME DataInv, SelectFails PROVE DataInv'
  <1> USE NumChannelsAssumption, AppletMaxChannelAssumption
          DEF DataInv, DataOK, SelectFails, SelectFailureCodes, cardVars, appletVars, hostVars
  <1>1. CardTypeOK' /\ AppletTypeOK'
    BY SMTT(30) DEF CardTypeOK, AppletTypeOK
  <1>2. DataOK'
    BY <1>1, SMTT(30)
  <1>3. ControlInv' /\ LogicalInv' /\ BurntInv'
    BY DEF ControlInv, LogicalInv, BurntInv, AppletTypeOK
  <1>4. SessionReachesApplet' /\ NothingSentLocked'
    BY DEF SessionReachesApplet, NothingSentLocked, ControlInv, LogicalInv, Reached, CardTypeOK,
           AppletTypeOK
  <1>5. OrphansExplained' /\ ClosingInv'
    BY DEF OrphansExplained, ClosingInv, OpenChannels, Held, LogicalInv, CardTypeOK, AppletTypeOK
  <1> QED BY <1>2, <1>3, <1>4, <1>5

(* The key pair lookup. *)
LEMMA KeyPairStep == ASSUME DataInv, getKeyPairByContainerId PROVE DataInv'
  <1> USE NumChannelsAssumption, AppletMaxChannelAssumption
          DEF DataInv, DataOK, getKeyPairByContainerId, ListResults, FinishKeyLookup, cardVars, appletVars, hostVars
  <1>1. CardTypeOK' /\ AppletTypeOK'
    BY SMTT(30) DEF CardTypeOK, AppletTypeOK
  <1>2. DataOK'
    BY <1>1, SMTT(30)
  <1>3. ControlInv' /\ LogicalInv' /\ BurntInv'
    BY DEF ControlInv, LogicalInv, BurntInv, AppletTypeOK
  <1>4. SessionReachesApplet' /\ NothingSentLocked'
    BY DEF SessionReachesApplet, NothingSentLocked, ControlInv, LogicalInv, Reached, CardTypeOK,
           AppletTypeOK
  <1>5. OrphansExplained' /\ ClosingInv'
    BY DEF OrphansExplained, ClosingInv, OpenChannels, Held, LogicalInv, CardTypeOK, AppletTypeOK
  <1> QED BY <1>2, <1>3, <1>4, <1>5

(* verifyPin: a try is spent only when it fails, and then the call is on its way out. *)
LEMMA VerifyStep == ASSUME DataInv, verifyPin PROVE DataInv'
  <1> USE NumChannelsAssumption, AppletMaxChannelAssumption, MaxTriesAssumption
          DEF DataInv, DataOK, verifyPin, VerifyResult, CardVerify, VerifyAccepted,
              cardVars, appletVars, hostVars
  <1>1. CardTypeOK' /\ AppletTypeOK'
    <2>0. channel[cur] \in 0 .. NumChannels
      BY DEF AppletTypeOK
    <2>1. chan' = chan /\ auth' \subseteq 0 .. NumChannels
      BY <2>0 DEF CardTypeOK
    <2>2. tries' \in [Applets -> 0 .. MaxTries]
      BY <2>0 DEF CardTypeOK
    <2>3. AppletTypeOK'
      BY DEF AppletTypeOK
    <2> QED BY <2>1, <2>2, <2>3 DEF CardTypeOK
  <1>2. DataOK'
    <2>1. burnt = 0 /\ burnt' \in 0 .. 2
      BY DEF BurntInv
    <2>2. pc' \in {"verified", "leaving"} /\ ret' \in {ret, "VERIFY_PIN"}
      OBVIOUS
    <2> QED BY <1>1, <2>1, <2>2
  <1>3. ControlInv' /\ LogicalInv' /\ BurntInv'
    <2>1. burnt = 0
      BY DEF BurntInv
    <2>2. (\E a \in Applets : tries'[a] < tries[a]) => pc' = "leaving" /\ ret' = "VERIFY_PIN"
      BY DEF CardTypeOK, AppletTypeOK
    <2>3. BurntInv'
      BY <2>1, <2>2 DEF BurntInv
    <2>4. ControlInv' /\ LogicalInv'
      BY DEF ControlInv, LogicalInv
    <2> QED BY <2>3, <2>4
  <1>4. SessionReachesApplet' /\ NothingSentLocked'
    BY DEF SessionReachesApplet, NothingSentLocked, ControlInv, LogicalInv, Reached, CardTypeOK,
           AppletTypeOK
  <1>5. OrphansExplained' /\ ClosingInv'
    BY DEF OrphansExplained, ClosingInv, OpenChannels, Held, LogicalInv, CardTypeOK, AppletTypeOK
  <1> QED BY <1>2, <1>3, <1>4, <1>5

(* The functions that read objects. *)
LEMMA ReadsStep == ASSUME DataInv, p11GetObjectByLabel \/ readEF \/ getCertificateByContainerId PROVE DataInv'
  <1> USE NumChannelsAssumption, AppletMaxChannelAssumption
          DEF DataInv, DataOK, p11GetObjectByLabel, readEF, getCertificateByContainerId, ReadStep,
              cardVars, appletVars, hostVars
  <1>1. CardTypeOK' /\ AppletTypeOK'
    BY ZenonT(60) DEF CardTypeOK, AppletTypeOK
  <1>2. DataOK'
    BY <1>1, ZenonT(60)
  <1>3. ControlInv' /\ LogicalInv' /\ BurntInv'
    BY DEF ControlInv, LogicalInv, BurntInv, AppletTypeOK
  <1>4. SessionReachesApplet' /\ NothingSentLocked'
    BY DEF SessionReachesApplet, NothingSentLocked, ControlInv, LogicalInv, Reached, CardTypeOK,
           AppletTypeOK
  <1>5. OrphansExplained' /\ ClosingInv'
    BY DEF OrphansExplained, ClosingInv, OpenChannels, Held, LogicalInv, CardTypeOK, AppletTypeOK
  <1> QED BY <1>2, <1>3, <1>4, <1>5

(* signInit, signFinal, decryptInit and decryptFinal. *)
LEMMA SignStep == ASSUME DataInv, signInit \/ signFinal \/ decryptInit \/ decryptFinal
                    PROVE DataInv'
  <1> USE NumChannelsAssumption, AppletMaxChannelAssumption
          DEF DataInv, DataOK, cardVars, appletVars, hostVars
  <1>a. PICK c \in SignCalls : MseSet(c) \/ Pso(c)
    BY DEF signInit, signFinal, decryptInit, decryptFinal, SignCalls
  <1> USE <1>a DEF MseSet, Pso
  <1>1. CardTypeOK' /\ AppletTypeOK'
    BY ZenonT(60) DEF CardTypeOK, AppletTypeOK
  <1>2. DataOK'
    BY <1>1, ZenonT(60)
  <1>3. ControlInv' /\ LogicalInv' /\ BurntInv'
    BY DEF ControlInv, LogicalInv, BurntInv, AppletTypeOK
  <1>4. SessionReachesApplet' /\ NothingSentLocked'
    BY DEF SessionReachesApplet, NothingSentLocked, ControlInv, LogicalInv, Reached, CardTypeOK,
           AppletTypeOK
  <1>5. OrphansExplained' /\ ClosingInv'
    BY DEF OrphansExplained, ClosingInv, OpenChannels, Held, LogicalInv, CardTypeOK, AppletTypeOK
  <1> QED BY <1>2, <1>3, <1>4, <1>5

(* deselect() up to its exchange. *)
LEMMA LeaveStep == ASSUME DataInv, Leave PROVE DataInv'
  <1> USE NumChannelsAssumption, AppletMaxChannelAssumption
          DEF DataInv, DataOK, Leave, DeselectStart, sdkVars, cardVars, appletVars, hostVars
  <1>1. CardTypeOK' /\ AppletTypeOK'
    BY ZenonT(60) DEF CardTypeOK, AppletTypeOK
  <1>2. DataOK'
    BY <1>1, SMTT(30)
  <1>3. ControlInv' /\ LogicalInv' /\ BurntInv'
    BY DEF ControlInv, LogicalInv, BurntInv, AppletTypeOK
  <1>4. SessionReachesApplet' /\ NothingSentLocked'
    BY DEF SessionReachesApplet, NothingSentLocked, ControlInv, LogicalInv, Reached, CardTypeOK,
           AppletTypeOK
  <1>5. OrphansExplained' /\ ClosingInv'
    BY DEF OrphansExplained, ClosingInv, OpenChannels, Held, LogicalInv, CardTypeOK, AppletTypeOK
  <1> QED BY <1>2, <1>3, <1>4, <1>5

(* The return of a call, or its second reading. *)
LEMMA ReturnStep == ASSUME DataInv, Return PROVE DataInv'
  <1> USE NumChannelsAssumption, AppletMaxChannelAssumption
          DEF DataInv, DataOK, Return, Retry, SelectStart, AfterDeselect, AppOf, sdkVars, cardVars, appletVars, hostVars
  <1>1. CardTypeOK' /\ AppletTypeOK'
    BY ZenonT(60) DEF CardTypeOK, AppletTypeOK
  <1>2. DataOK'
    BY <1>1, ZenonT(60)
  <1>3. ControlInv' /\ LogicalInv' /\ BurntInv'
    BY DEF ControlInv, LogicalInv, BurntInv, AppletTypeOK
  <1>4. SessionReachesApplet' /\ NothingSentLocked'
    BY DEF SessionReachesApplet, NothingSentLocked, ControlInv, LogicalInv, Reached, CardTypeOK,
           AppletTypeOK
  <1>5. OrphansExplained' /\ ClosingInv'
    BY DEF OrphansExplained, ClosingInv, OpenChannels, Held, LogicalInv, CardTypeOK, AppletTypeOK
  <1> QED BY <1>2, <1>3, <1>4, <1>5

(* The destructors. *)
LEMMA ExitStep == ASSUME DataInv, Exit \/ (Destroyed /\ cur = "MIAS") PROVE DataInv'
  <1> USE NumChannelsAssumption, AppletMaxChannelAssumption
          DEF DataInv, DataOK, Exit, Destroyed, DeselectStart, NewCall, sdkVars, cardVars, appletVars, hostVars
  <1>1. CardTypeOK' /\ AppletTypeOK'
    BY ZenonT(60) DEF CardTypeOK, AppletTypeOK
  <1>2. DataOK'
    <2>1. CASE Exit
      BY <1>1, <2>1
    <2>2. CASE Destroyed /\ cur = "MIAS"
      BY <1>1, <2>2
    <2> QED BY <2>1, <2>2
  <1>3. ControlInv' /\ LogicalInv' /\ BurntInv'
    BY DEF ControlInv, LogicalInv, BurntInv, AppletTypeOK
  <1>4. SessionReachesApplet' /\ NothingSentLocked'
    BY DEF SessionReachesApplet, NothingSentLocked, ControlInv, LogicalInv, Reached, CardTypeOK,
           AppletTypeOK
  <1>5. OrphansExplained' /\ ClosingInv'
    BY DEF OrphansExplained, ClosingInv, OpenChannels, Held, LogicalInv, CardTypeOK, AppletTypeOK
  <1> QED BY <1>2, <1>3, <1>4, <1>5

(* A new process. *)
LEMMA RestartStep == ASSUME DataInv, Restart PROVE DataInv'
  <1> USE NumChannelsAssumption, AppletMaxChannelAssumption
          DEF DataInv, DataOK, Restart, AppletRestart, NewCall, cardVars, appletVars, hostVars
  <1>1. CardTypeOK' /\ AppletTypeOK'
    BY SMTT(30) DEF CardTypeOK, AppletTypeOK
  <1>2. DataOK'
    BY <1>1, SMTT(30)
  <1>3. ControlInv' /\ LogicalInv' /\ BurntInv'
    BY DEF ControlInv, LogicalInv, BurntInv, AppletTypeOK
  <1>4. SessionReachesApplet' /\ NothingSentLocked'
    BY DEF SessionReachesApplet, NothingSentLocked, ControlInv, LogicalInv, Reached, CardTypeOK,
           AppletTypeOK
  <1>5. OrphansExplained' /\ ClosingInv'
    BY DEF OrphansExplained, ClosingInv, OpenChannels, Held, LogicalInv, CardTypeOK, AppletTypeOK
  <1> QED BY <1>2, <1>3, <1>4, <1>5

(* A card reset closes the channels under the host. *)
LEMMA ResetStep == ASSUME DataInv, CardResets PROVE DataInv'
  <1> USE NumChannelsAssumption, AppletMaxChannelAssumption
          DEF DataInv, DataOK, CardResets, ResetCard, CardReset, cardVars, appletVars, hostVars
  <1>1. CardTypeOK' /\ AppletTypeOK'
    BY SMTT(30) DEF CardTypeOK, AppletTypeOK
  <1>2. DataOK'
    BY <1>1, SMTT(30)
  <1>3. ControlInv' /\ LogicalInv' /\ BurntInv'
    BY DEF ControlInv, LogicalInv, BurntInv, AppletTypeOK
  <1>4. SessionReachesApplet' /\ NothingSentLocked'
    BY DEF SessionReachesApplet, NothingSentLocked, ControlInv, LogicalInv, Reached, CardTypeOK,
           AppletTypeOK
  <1>5. OrphansExplained' /\ ClosingInv'
    BY DEF OrphansExplained, ClosingInv, OpenChannels, Held, LogicalInv, CardTypeOK, AppletTypeOK
  <1> QED BY <1>2, <1>3, <1>4, <1>5

(* MANAGE CHANNEL open: the new channel is held, or lost. *)
LEMMA SelOpenStep == ASSUME DataInv, SelOpen /\ Exchange PROVE DataInv'
  <1> USE NumChannelsAssumption, AppletMaxChannelAssumption
          DEF DataInv, DataOK, SelOpen, Exchange, CardOpen, cardVars, appletVars, hostVars
  <1>1. CardTypeOK' /\ AppletTypeOK'
    BY SMTT(30) DEF CardTypeOK, AppletTypeOK
  <1>2. DataOK'
    BY <1>1, SMTT(30)
  <1>3. ControlInv' /\ LogicalInv' /\ BurntInv'
    BY DEF ControlInv, LogicalInv, BurntInv, AppletTypeOK
  <1>4. SessionReachesApplet' /\ NothingSentLocked'
    BY DEF SessionReachesApplet, NothingSentLocked, ControlInv, LogicalInv, Reached, CardTypeOK,
           AppletTypeOK
  <1>5. OrphansExplained' /\ ClosingInv'
    <2>1. CASE pc' = "sel_aid"
      <3>1. PICK ch \in Logical : CardOpen(ch) /\ channel' = [channel EXCEPT ![cur] = ch] /\ lost' = lost
        BY <2>1
      <3>2. OpenChannels' = OpenChannels \cup {ch}
        BY <3>1 DEF OpenChannels, CardTypeOK
      <3>3. channel'[cur] = ch /\ \A a \in Applets \ {cur} : channel'[a] = channel[a]
        BY <3>1 DEF AppletTypeOK
      <3>4. ch \in Held'
        BY <2>1, <3>3 DEF Held
      <3> QED BY <2>1, <3>2, <3>3, <3>4 DEF OrphansExplained, ClosingInv, Held, AppletTypeOK
    <2>2. CASE pc' = "unselected"
      BY <2>2 DEF OrphansExplained, ClosingInv, OpenChannels, Held, CardTypeOK, AppletTypeOK
    <2> QED BY <2>1, <2>2
  <1> QED BY <1>2, <1>3, <1>4, <1>5

(* SELECT on the new channel. *)
LEMMA SelAidStep == ASSUME DataInv, SelAid /\ Exchange PROVE DataInv'
  <1> USE NumChannelsAssumption, AppletMaxChannelAssumption
          DEF DataInv, DataOK, SelAid, Exchange, CardSelect, cardVars, appletVars, hostVars
  <1>1. CardTypeOK' /\ AppletTypeOK'
    BY SMTT(30) DEF CardTypeOK, AppletTypeOK
  <1>2. DataOK'
    BY <1>1, SMTT(30)
  <1>3. ControlInv' /\ LogicalInv' /\ BurntInv'
    BY DEF ControlInv, LogicalInv, BurntInv, AppletTypeOK
  <1>4. SessionReachesApplet' /\ NothingSentLocked'
    BY DEF SessionReachesApplet, NothingSentLocked, ControlInv, LogicalInv, Reached, CardTypeOK,
           AppletTypeOK
  <1>5. OrphansExplained' /\ ClosingInv'
    BY DEF OrphansExplained, ClosingInv, OpenChannels, Held, LogicalInv, CardTypeOK, AppletTypeOK
  <1> QED BY <1>2, <1>3, <1>4, <1>5

(* deselect() inside select(). *)
LEMMA SelCloseStep == ASSUME DataInv, SelClose /\ Exchange PROVE DataInv'
  <1>a. CardTypeOK /\ lost \subseteq Logical /\ channel[cur] \in Nat
    BY NumChannelsAssumption DEF DataInv, DataOK, AppletTypeOK
  <1>b. PICK ch \in Nat : ch = channel[cur]
    BY <1>a
  <1>c. PICK out \in Transport : CloseExchange(ch, out)
    BY <1>b DEF SelClose, DeselectClose, CloseExchange, CardClose
  <1>0. /\ CardTypeOK' /\ lost' \subseteq Logical
        /\ \A x \in OpenChannels' : x \in OpenChannels /\ ((x = ch \/ x \in lost) => x \in lost')
    BY <1>a, <1>c, CloseEffect
  <1> USE NumChannelsAssumption, AppletMaxChannelAssumption
          DEF DataInv, DataOK, SelClose, Exchange, DeselectClose, AfterDeselect, cardVars, appletVars, hostVars
  <1>1. CardTypeOK' /\ AppletTypeOK'
    BY <1>0 DEF AppletTypeOK
  <1>2. DataOK'
    BY <1>1, SMTT(30)
  <1>3. ControlInv' /\ LogicalInv' /\ BurntInv'
    BY DEF ControlInv, LogicalInv, BurntInv, AppletTypeOK
  <1>4. SessionReachesApplet' /\ NothingSentLocked'
    BY DEF SessionReachesApplet, NothingSentLocked, ControlInv, LogicalInv, Reached, CardTypeOK,
           AppletTypeOK
  <1>5. OrphansExplained' /\ ClosingInv'
    BY <1>0, <1>b DEF OrphansExplained, ClosingInv, Held, LogicalInv, AppletTypeOK
  <1> QED BY <1>2, <1>3, <1>4, <1>5

(* The close of a channel whose SELECT failed. *)
LEMMA SelUndoStep == ASSUME DataInv, SelUndo /\ Exchange PROVE DataInv'
  <1>a. CardTypeOK /\ lost \subseteq Logical /\ channel[cur] \in Nat
    BY NumChannelsAssumption DEF DataInv, DataOK, AppletTypeOK
  <1>b. PICK ch \in Nat : ch = channel[cur]
    BY <1>a
  <1>c. PICK out \in Transport : CloseExchange(ch, out)
    BY <1>b DEF SelUndo, CloseExchange, CardClose
  <1>0. /\ CardTypeOK' /\ lost' \subseteq Logical
        /\ \A x \in OpenChannels' : x \in OpenChannels /\ ((x = ch \/ x \in lost) => x \in lost')
    BY <1>a, <1>c, CloseEffect
  <1> USE NumChannelsAssumption, AppletMaxChannelAssumption
          DEF DataInv, DataOK, SelUndo, Exchange, cardVars, appletVars, hostVars
  <1>1. CardTypeOK' /\ AppletTypeOK'
    BY <1>0 DEF AppletTypeOK
  <1>2. DataOK'
    BY <1>1, SMTT(30)
  <1>3. ControlInv' /\ LogicalInv' /\ BurntInv'
    BY DEF ControlInv, LogicalInv, BurntInv, AppletTypeOK
  <1>4. SessionReachesApplet' /\ NothingSentLocked'
    BY DEF SessionReachesApplet, NothingSentLocked, ControlInv, LogicalInv, Reached, CardTypeOK,
           AppletTypeOK
  <1>5. OrphansExplained' /\ ClosingInv'
    BY <1>0, <1>b DEF OrphansExplained, ClosingInv, Held, LogicalInv, AppletTypeOK
  <1> QED BY <1>2, <1>3, <1>4, <1>5

(* deselect(). *)
LEMMA DesCloseStep == ASSUME DataInv, DesClose /\ Exchange PROVE DataInv'
  <1>a. CardTypeOK /\ lost \subseteq Logical /\ channel[cur] \in Nat
    BY NumChannelsAssumption DEF DataInv, DataOK, AppletTypeOK
  <1>b. PICK ch \in Nat : ch = channel[cur]
    BY <1>a
  <1>c. PICK out \in Transport : CloseExchange(ch, out)
    BY <1>b DEF DesClose, DeselectClose, CloseExchange, CardClose
  <1>0. /\ CardTypeOK' /\ lost' \subseteq Logical
        /\ \A x \in OpenChannels' : x \in OpenChannels /\ ((x = ch \/ x \in lost) => x \in lost')
    BY <1>a, <1>c, CloseEffect
  <1> USE NumChannelsAssumption, AppletMaxChannelAssumption
          DEF DataInv, DataOK, DesClose, Exchange, DeselectClose, cardVars, appletVars, hostVars
  <1>1. CardTypeOK' /\ AppletTypeOK'
    BY <1>0 DEF AppletTypeOK
  <1>2. DataOK'
    BY <1>1, SMTT(30)
  <1>3. ControlInv' /\ LogicalInv' /\ BurntInv'
    BY DEF ControlInv, LogicalInv, BurntInv, AppletTypeOK
  <1>4. SessionReachesApplet' /\ NothingSentLocked'
    BY DEF SessionReachesApplet, NothingSentLocked, ControlInv, LogicalInv, Reached, CardTypeOK,
           AppletTypeOK
  <1>5. OrphansExplained' /\ ClosingInv'
    BY <1>0, <1>b DEF OrphansExplained, ClosingInv, Held, LogicalInv, AppletTypeOK
  <1> QED BY <1>2, <1>3, <1>4, <1>5

(* One close of closeAllChannels(). *)
LEMMA CloseAllStepStep == ASSUME DataInv, CloseAllStep /\ Exchange PROVE DataInv'
  <1>a. CardTypeOK /\ lost \subseteq Logical /\ idx \in Nat
    BY NumChannelsAssumption DEF DataInv, DataOK, AppletTypeOK
  <1>b. PICK ch \in Nat : ch = idx
    BY <1>a
  <1>c. PICK out \in Transport : CloseExchange(ch, out)
    BY <1>b DEF CloseAllStep, CloseExchange, CardClose
  <1>0. /\ CardTypeOK' /\ lost' \subseteq Logical
        /\ \A x \in OpenChannels' : x \in OpenChannels /\ ((x = ch \/ x \in lost) => x \in lost')
    BY <1>a, <1>c, CloseEffect
  <1> USE NumChannelsAssumption, AppletMaxChannelAssumption
          DEF DataInv, DataOK, CloseAllStep, Exchange, cardVars, appletVars, hostVars
  <1>1. CardTypeOK' /\ AppletTypeOK'
    BY <1>0 DEF AppletTypeOK, ControlInv
  <1>2. DataOK'
    BY <1>1, SMTT(30)
  <1>3. ControlInv' /\ LogicalInv' /\ BurntInv'
    BY DEF ControlInv, LogicalInv, BurntInv, AppletTypeOK
  <1>4. SessionReachesApplet' /\ NothingSentLocked'
    BY DEF SessionReachesApplet, NothingSentLocked, ControlInv, LogicalInv, Reached, CardTypeOK,
           AppletTypeOK
  <1>5. OrphansExplained' /\ ClosingInv'
    <2>1. \A x \in OpenChannels' : x \in lost' \/ x >= idx + 1
      BY <1>0, <1>b DEF ClosingInv, OpenChannels, AppletTypeOK
    <2>2. pc' = "closed_all" => \A x \in OpenChannels' : x \in lost'
      BY <2>1 DEF OpenChannels
    <2> QED BY <2>1, <2>2 DEF OrphansExplained, ClosingInv
  <1> QED BY <1>2, <1>3, <1>4, <1>5

(* Steps that change no variable keep the invariant. *)
LEMMA StutterStep == ASSUME IInv, UNCHANGED vars PROVE IInv'
  BY DEF IInv, TypeOK, CardTypeOK, AppletTypeOK, SdkFlagsOK, FlagsOK, ControlInv, LogicalInv,
         SessionReachesApplet, NothingSentLocked, OrphansExplained, ClosingInv, BurntInv,
         OpenChannels, Held, Reached, vars, cardVars, appletVars, sdkVars

(* Every step of the SDK, the card and the environment keeps DataInv. *)
LEMMA DataStep == ASSUME DataInv, Next PROVE DataInv'
  <1>1. CASE ApiCall
    <2>1. CASE tobInitialize \/ tobInitializeWithInterface
      BY <2>1, InitializeStep
    <2>2. CASE EfNameInvalid
      BY <2>2, EfNameStep
    <2>3. CASE Exit
      BY <2>3, ExitStep
    <2>4. CASE \E c \in Calls, p \in Pins \cup {NoPin} : Enter(c, p)
      BY <2>4, EnterStep
    <2> QED BY <1>1, <2>1, <2>2, <2>3, <2>4 DEF ApiCall, tobExtractAvailableCertificate,
               tobExtractAvailablePrivateKey, tobExtractSigningCertificate, tobSigningSign,
               tobSigningDecrypt, tobSigningLen, se_read_object
  <1>2. CASE Exchange
    <2>1. LogicalInv
      BY DEF DataInv
    <2> QED BY <1>2, <2>1, SelCloseStep, SelOpenStep, SelAidStep, SelUndoStep, DesCloseStep,
               CloseAllStepStep DEF Exchange, AppletStep, SelBasic, LogicalInv
  <1>3. CASE CallStep /\ ~Exchange
    BY <1>3, InitDoneStep, SelectFailsStep, KeyPairStep, VerifyStep, ReadsStep, SignStep, LeaveStep,
       ReturnStep, ExitStep, RestartStep DEF CallStep, Destroyed
  <1>4. CASE Crash \/ CardResets
    BY <1>4, RestartStep, ResetStep DEF Crash
  <1> QED BY <1>1, <1>2, <1>3, <1>4 DEF Next, CallStep

(* The Boolean flags stay Boolean. *)
LEMMA FlagsStep == ASSUME SdkFlagsOK, DataInv, Next PROVE SdkFlagsOK'
  <1> USE DEF SdkFlagsOK, FlagsOK, cardVars, appletVars, hostVars, sdkVars
  <1>1. CASE ApiCall
    BY <1>1, Zenon DEF ApiCall, tobInitialize, tobInitializeWithInterface, NewCall, CloseAllStart,
       Exit, DeselectStart, EfNameInvalid, se_read_object, Enter, SelectStart,
       tobExtractAvailableCertificate, tobExtractAvailablePrivateKey,
       tobExtractSigningCertificate, tobSigningSign, tobSigningDecrypt, tobSigningLen
  <1>2. CASE Exchange
    BY <1>2, Zenon DEF Exchange, AppletStep, SelClose, SelBasic, SelOpen, SelAid, SelUndo, DesClose,
       CloseAllStep
  <1>3. CASE CallStep /\ ~Exchange
    BY <1>3, Zenon DEF CallStep, InitDone, SelectFails, getKeyPairByContainerId, verifyPin,
       p11GetObjectByLabel, readEF, getCertificateByContainerId, ReadStep, signInit, signFinal, decryptInit, decryptFinal, MseSet, Pso,
       Leave, DeselectStart, Return, SelectStart, Destroyed, Restart, AppletRestart, NewCall
  <1>4. CASE Crash \/ CardResets
    BY <1>4, Zenon DEF Crash, CardResets, ResetCard, Restart, AppletRestart, NewCall
  <1> QED BY <1>1, <1>2, <1>3, <1>4 DEF Next, CallStep

(* IInv is an invariant of the SDK: it holds at first and every step, of   *)
(* the program, of a crash or of a card reset, keeps it.                   *)
THEOREM Invariance == Spec => []IInv
  <1>1. Init => IInv
    BY InitIInv
  <1>2. IInv /\ [Next]_vars => IInv'
    <2> SUFFICES ASSUME IInv, [Next]_vars PROVE IInv'
      OBVIOUS
    <2>1. CASE Next
      <3>1. DataInv /\ SdkFlagsOK
        BY IInvSplit
      <3>2. DataInv' /\ SdkFlagsOK'
        BY <2>1, <3>1, DataStep, FlagsStep
      <3> QED BY <3>2 DEF IInv, DataInv, TypeOK, DataOK
    <2>2. CASE UNCHANGED vars
      BY <2>2, StutterStep
    <2> QED BY <2>1, <2>2
  <1> QED BY <1>1, <1>2, PTL DEF Spec

(* Type correctness: no sequence of calls, losses, crashes and resets      *)
(* takes the state out of its types.                                       *)
THEOREM TypeCorrect == Spec => []TypeOK
  <1>1. IInv => TypeOK
    BY DEF IInv
  <1> QED BY <1>1, Invariance, PTL

(* Within a call every command goes to the applet the call selected, or to *)
(* no applet at all (Applet::transmit).                                    *)
THEOREM SessionsAreSafe == Spec => []SessionReachesApplet
  <1>1. IInv => SessionReachesApplet
    BY DEF IInv
  <1> QED BY <1>1, Invariance, PTL

(* After a successful verifyPin() nothing is sent on a locked session.     *)
THEOREM SessionsAreUnlocked == Spec => []NothingSentLocked
  <1>1. IInv => NothingSentLocked
    BY DEF IInv
  <1> QED BY <1>1, Invariance, PTL

(* The host leaks no channel by itself (select, deselect,                  *)
(* closeAllChannels): an open channel nobody will close was lost.          *)
THEOREM NoLeaks == Spec => []OrphansExplained
  <1>1. IInv => OrphansExplained
    BY DEF IInv
  <1> QED BY <1>1, Invariance, PTL

(* A call costs at most one PIN try.                                       *)
THEOREM OneTryPerCall == Spec => []AtMostOneTry
  <1>1. IInv => AtMostOneTry
    BY DEF IInv, BurntInv, AtMostOneTry
  <1> QED BY <1>1, Invariance, PTL

\* What TriesOnlyByWrongPin says of a step.
TriesStep == \A a \in Applets : tries'[a] < tries[a] => AppOf(call) = a /\ pin # CardPin[a]

(* Only VERIFY changes a try counter. *)
LEMMA OtherTries == ASSUME IInv, Next, ~verifyPin PROVE tries' = tries
  <1> USE DEF cardVars, sdkVars, hostVars, appletVars
  <1>1. CASE ApiCall
    BY <1>1 DEF ApiCall, tobInitialize, tobInitializeWithInterface, CloseAllStart,
       Exit, DeselectStart, EfNameInvalid, se_read_object, Enter, SelectStart,
       tobExtractAvailableCertificate, tobExtractAvailablePrivateKey,
       tobExtractSigningCertificate, tobSigningSign, tobSigningDecrypt, tobSigningLen
  <1>2. CASE Exchange
    BY <1>2 DEF Exchange, AppletStep, SelClose, SelBasic, SelOpen, SelAid, SelUndo, DesClose,
       CloseAllStep, DeselectClose, CloseExchange, CardClose, CardOpen, CardSelect
  <1>3. CASE CallStep /\ ~Exchange
    BY <1>3 DEF CallStep, InitDone, SelectFails, getKeyPairByContainerId,
       p11GetObjectByLabel, readEF, getCertificateByContainerId, ReadStep, signInit, signFinal, decryptInit, decryptFinal, MseSet, Pso,
       Leave, DeselectStart, Return, SelectStart, Destroyed, Restart
  <1>4. CASE Crash \/ CardResets
    BY <1>4 DEF Crash, CardResets, ResetCard, CardReset, Restart
  <1> QED BY <1>1, <1>2, <1>3, <1>4 DEF Next, CallStep

(* The card counts a try of an applet down only in a call on that applet   *)
(* that was given a wrong PIN (MF::verifyPin, MIAS::verifyPin).            *)
THEOREM TriesAreSafe == Spec => TriesOnlyByWrongPin
  <1>1. IInv /\ [Next]_vars => [TriesStep]_vars
    <2> SUFFICES ASSUME IInv, Next PROVE TriesStep
      OBVIOUS
    <2>1. tries \in [Applets -> 0 .. MaxTries] /\ MaxTries \in Nat /\ channel[cur] \in 0 .. NumChannels
      BY MaxTriesAssumption DEF IInv, TypeOK, CardTypeOK, AppletTypeOK
    <2>2. CASE ~verifyPin
      <3>1. tries' = tries
        BY <2>2, OtherTries
      <3> QED BY <2>1, <3>1 DEF TriesStep
    <2>3. CASE verifyPin
      <3>1. cur = AppOf(call) /\ Reached \in {cur, Closed}
        BY <2>3 DEF verifyPin, IInv, SessionReachesApplet
      <3>2. CASE tries' = tries
        BY <2>1, <3>2 DEF TriesStep
      <3>3. CASE tries' # tries
        <4>1. CardVerify(channel[cur], pin)
          BY <2>3, <3>3 DEF verifyPin, cardVars
        <4>2. chan[channel[cur]] = cur
          BY <3>1, <3>3, <4>1 DEF CardVerify, Reached, VerifyAccepted
        <4>3. CASE VerifyAccepted(channel[cur], pin)
          BY <2>1, <4>1, <4>3 DEF CardVerify, TriesStep
        <4>4. CASE ~VerifyAccepted(channel[cur], pin)
          <5>1. tries' = [tries EXCEPT ![cur] = IF @ > 0 THEN @ - 1 ELSE 0]
            BY <4>1, <4>2, <4>4, <3>3 DEF CardVerify
          <5>2. tries[cur] > 0
            BY <2>1, <5>1, <3>3 DEF IInv, TypeOK, AppletTypeOK
          <5>3. pin # CardPin[cur]
            BY <4>2, <4>4, <5>2 DEF VerifyAccepted, IInv, TypeOK, AppletTypeOK
          <5> QED BY <2>1, <3>1, <5>1, <5>3 DEF TriesStep
        <4> QED BY <4>3, <4>4
      <3> QED BY <3>2, <3>3
    <2> QED BY <2>2, <2>3
  <1> QED BY <1>1, Invariance, PTL DEF Spec, TriesOnlyByWrongPin, TriesStep

----------------------------------------------------------------------------
(* What the calls return: OkMeansDelivered and CleanCallSucceeds.           *)

\* The call is on its way out, or has returned.
Ending == pc \in Leaving \cup {"leaving", "idle"}

\* A documented call: se_read_ef alone returns what it never assigned.
Documented == call \in Calls \ {"ef"}

\* A result is only there once the call is on its way out, and 0 comes with
\* the object.  A call does not return while there is a label left to try.
DeliveredInv ==
    /\ pc \in Selecting \cup Inside => ret = "none"
    /\ pc = "idle" => ~Retry
    /\ Ending /\ Documented /\ ret = "ok" =>
           /\ got \notin {"none", "alien"}
           /\ call \in P11Calls => got \in {label, "partial"}
           /\ got = "partial" => ~clean

\* The channel the call in progress has opened and will close.
OwnChannel ==
    IF pc \in Inside \cup {"sel_aid", "sel_undo", "des_close"} \/ (pc = "leaving" /\ cur \in isSelected)
    THEN {channel[cur]} ELSE {}

\* What is open is the channel of the call or was lost.  OrphansExplained is
\* weaker: a stale _isSelected of the other applet would excuse a channel.
OpenInv == seiface /\ pc \notin {"close_all", "closed_all"} => OpenChannels \subseteq OwnChannel \cup lost

\* Why a call with no lost or refused exchange may have failed all the same.
Reason ==
    \/ ret = "BAD_KEY" /\ call \in KeyCalls /\ ~Usable(keys)
    \/ ret = "VERIFY_PIN" /\ call \in PinCalls /\ (pin # CardPin["MIAS"] \/ ~(tries["MIAS"] > 0))
    \/ ret = "MIAS_READ" /\ call \in P11Calls /\ label \notin present

\* Of a clean call: it does reach its applet, it is not turned away by
\* select(), and it fails for a reason.
CleanInv ==
    seiface /\ clean /\ Documented =>
        /\ pc \notin {"sel_undo", "unselected"}
        /\ pc \in Inside \cup {"sel_aid"} => Reached # Closed
        /\ label = "legacy" => "new" \notin present
        /\ Ending => ret = "ok" \/ Reason

ResultInv == DeliveredInv /\ OpenInv /\ CleanInv

USE DEF Ending, Documented

(* A call that begins has nothing to answer for yet.                       *)
LEMMA BeginDelivered == ASSUME IInv, DeliveredInv, ApiCall PROVE DeliveredInv'
  <1> USE DEF DeliveredInv, Retry, NewCall, hostVars, cardVars, appletVars
  <1>1. CASE tobInitialize \/ tobInitializeWithInterface
    BY <1>1 DEF tobInitialize, tobInitializeWithInterface, CloseAllStart
  <1>2. CASE EfNameInvalid
    BY <1>2 DEF EfNameInvalid
  <1>3. CASE Exit
    BY <1>3 DEF Exit, DeselectStart
  <1>4. CASE \E c \in Calls, p \in Pins \cup {NoPin} : Enter(c, p)
    BY <1>4 DEF Enter, SelectStart, AfterDeselect
  <1> QED BY <1>1, <1>2, <1>3, <1>4 DEF ApiCall, tobExtractAvailableCertificate,
             tobExtractAvailablePrivateKey, tobExtractSigningCertificate, tobSigningSign,
             tobSigningDecrypt, tobSigningLen, se_read_object

(* Where an exchange of select(), deselect() or closeAllChannels() leads.  *)
LEMMA ExchangeLeads ==
    ASSUME IInv, Exchange
    PROVE  /\ UNCHANGED <<modem, keys, present, call, pin, label, ret, got, burnt, seiface, cur>>
           /\ clean' => clean
           /\ \/ pc \in Selecting \ {"unselected"} /\ pc' \in Selecting \cup {"selected"}
              \/ pc = "des_close" /\ pc' = "deselected"
              \/ pc = "close_all" /\ pc' \in {"close_all", "closed_all"}
  <1>1. clean' => clean
    BY Zenon DEF Exchange
  <1>2. pc # "sel_basic" /\ ~basicArg
    BY DEF IInv, LogicalInv
  <1> QED BY <1>1, <1>2 DEF Exchange, AppletStep, SelClose, SelBasic, SelOpen, SelAid, SelUndo, DesClose, CloseAllStep,
             AfterDeselect, hostVars

(* What 0 means, step by step.                                             *)
LEMMA DeliveredStep == ASSUME IInv, DeliveredInv, [Next]_vars PROVE DeliveredInv'
  <1> USE DEF DeliveredInv, Retry
  <1>1. CASE Exchange
    BY <1>1, ExchangeLeads
  <1>2. CASE InitDone
    BY <1>2 DEF InitDone, IInv, ControlInv
  <1>3. CASE SelectFails
    BY <1>3 DEF SelectFails, SelectFailureCodes
  <1>4. CASE getKeyPairByContainerId
    BY <1>4 DEF getKeyPairByContainerId, FinishKeyLookup
  <1>5. CASE verifyPin
    BY <1>5 DEF verifyPin, VerifyResult
  <1>6. CASE p11GetObjectByLabel \/ readEF \/ getCertificateByContainerId
    <2>1. Reached \in {cur, Closed} /\ label \in {"new", "legacy"}
      BY <1>6 DEF p11GetObjectByLabel, readEF, getCertificateByContainerId, IInv, SessionReachesApplet, TypeOK
    <2> QED BY <1>6, <2>1 DEF p11GetObjectByLabel, readEF, getCertificateByContainerId, ReadStep
  <1>7. CASE signInit \/ decryptInit \/ signFinal \/ decryptFinal
    BY <1>7 DEF signInit, decryptInit, signFinal, decryptFinal, MseSet, Pso
  <1>8. CASE Leave
    BY <1>8 DEF Leave, DeselectStart, sdkVars
  <1>9. CASE Return
    BY <1>9 DEF Return, SelectStart, AfterDeselect, sdkVars
  <1>10. CASE Destroyed
    BY <1>10 DEF Destroyed, DeselectStart, Restart, NewCall, sdkVars
  <1>11. CASE Crash
    BY <1>11 DEF Crash, Restart, NewCall
  <1>12. CASE CardResets
    BY <1>12 DEF CardResets, ResetCard
  <1>13. CASE UNCHANGED vars
    BY <1>13 DEF vars, appletVars, sdkVars
  <1> QED BY <1>1, <1>2, <1>3, <1>4, <1>5, <1>6, <1>7, <1>8, <1>9, <1>10, <1>11, <1>12, <1>13, BeginDelivered
          DEF Next, CallStep

(* What is open, step by step: the steps that leave the card alone.        *)
LEMMA OpenQuiet ==
    ASSUME OpenInv, UNCHANGED <<chan, lost, seiface, channel, cur>>, OwnChannel \subseteq OwnChannel',
           pc \in {"close_all", "closed_all"} => pc' \in {"close_all", "closed_all"}
    PROVE  OpenInv'
  BY DEF OpenInv, OpenChannels

(* Entering select() or deselect(): nothing is open but what was lost, and *)
(* a deselect() that does nothing had nothing to close.                    *)
LEMMA OpenStart ==
    ASSUME IInv, OpenInv, NEW a \in Applets,
           \/ SelectStart(a, FALSE) /\ pc \in {"idle", "deselected"}
           \/ DeselectStart(a) /\ pc \in {"idle", "deselected", "leaving"},
           pc = "leaving" => a = cur
    PROVE  OpenInv'
  <1>1. UNCHANGED <<chan, lost, seiface>> /\ isBasic = {}
    BY DEF SelectStart, DeselectStart, cardVars, IInv, LogicalInv
  <1>2. CASE SelectStart(a, FALSE) /\ pc \in {"idle", "deselected"}
    BY <1>1, <1>2 DEF SelectStart, AfterDeselect, OpenInv, OwnChannel, OpenChannels
  <1>3. CASE DeselectStart(a) /\ pc \in {"idle", "deselected", "leaving"}
    BY <1>1, <1>3 DEF DeselectStart, OpenInv, OwnChannel, OpenChannels
  <1> QED BY <1>2, <1>3

(* The exchanges.                                                          *)
LEMMA OpenExchange == ASSUME IInv, OpenInv, Exchange PROVE OpenInv'
  <1>1. CardTypeOK /\ AppletTypeOK /\ lost \subseteq Logical /\ channel[cur] \in Nat /\ idx \in Nat
    BY NumChannelsAssumption DEF IInv, TypeOK, AppletTypeOK
  <1>2. ASSUME NEW ch \in Nat, NEW out \in Transport, CloseExchange(ch, out)
        PROVE  \A x \in OpenChannels' : x \in OpenChannels /\ ((x = ch \/ x \in lost) => x \in lost')
    BY <1>1, <1>2, CloseEffect
  <1>3. CASE SelClose
    <2>1. \A x \in OpenChannels' : x \in OpenChannels /\ ((x = channel[cur] \/ x \in lost) => x \in lost')
      BY <1>1, <1>2, <1>3 DEF SelClose, DeselectClose
    <2>2. pc = "sel_close" /\ pc' = "sel_open" /\ UNCHANGED seiface
      BY <1>3 DEF SelClose, AfterDeselect, IInv, LogicalInv
    <2> QED BY <2>1, <2>2 DEF OpenInv, OwnChannel
  <1>4. CASE SelOpen
    <2>1. pc = "sel_open" /\ UNCHANGED <<seiface, cur, isSelected>>
      BY <1>4 DEF SelOpen
    <2>2. CASE UNCHANGED <<chan, lost>> /\ pc' = "unselected"
      BY <2>1, <2>2 DEF OpenInv, OwnChannel, OpenChannels
    <2>3. ASSUME NEW ch \in Logical, CardOpen(ch)
          PROVE  OpenChannels' \subseteq OpenChannels \cup {ch}
      BY <1>1, <2>3, NumChannelsAssumption DEF CardOpen, CardTypeOK, OpenChannels
    <2>4. CASE \E ch \in Logical : CardOpen(ch) /\ pc' = "sel_aid" /\ channel' = [channel EXCEPT ![cur] = ch] /\ UNCHANGED lost
      BY <1>1, <2>1, <2>3, <2>4 DEF OpenInv, OwnChannel, AppletTypeOK
    <2>5. CASE \E ch \in Logical : CardOpen(ch) /\ pc' = "unselected" /\ lost' = lost \cup {ch}
      BY <2>1, <2>3, <2>5 DEF OpenInv, OwnChannel
    <2> QED BY <1>4, <2>2, <2>4, <2>5 DEF SelOpen, cardVars
  <1>5. CASE SelAid
    <2>1. UNCHANGED <<seiface, cur, channel, lost>> /\ pc = "sel_aid" /\ pc' \in {"selected", "sel_undo"}
      BY <1>5 DEF SelAid
    <2>2. OpenChannels' \subseteq OpenChannels
      BY <1>1, <1>5, NumChannelsAssumption DEF SelAid, CardSelect, CardTypeOK, OpenChannels, cardVars
    <2> QED BY <2>1, <2>2 DEF OpenInv, OwnChannel
  <1>6. CASE SelUndo \/ DesClose
    <2>1. \A x \in OpenChannels' : x \in OpenChannels /\ ((x = channel[cur] \/ x \in lost) => x \in lost')
      BY <1>1, <1>2, <1>6 DEF SelUndo, DesClose, DeselectClose
    <2>2. pc \in {"sel_undo", "des_close"} /\ pc' \in {"unselected", "deselected"} /\ UNCHANGED seiface
      BY <1>6 DEF SelUndo, DesClose
    <2> QED BY <2>1, <2>2 DEF OpenInv, OwnChannel
  <1>7. CASE CloseAllStep
    BY <1>7 DEF CloseAllStep, OpenInv
  <1>8. ~SelBasic
    BY DEF SelBasic, IInv, LogicalInv
  <1> QED BY <1>3, <1>4, <1>5, <1>6, <1>7, <1>8 DEF Exchange, AppletStep

(* OpenInv, step by step.                                                  *)
LEMMA OpenStep == ASSUME IInv, OpenInv, [Next]_vars PROVE OpenInv'
  <1> USE DEF cardVars, hostVars, appletVars, sdkVars
  <1>1. CASE tobInitialize \/ tobInitializeWithInterface
    BY <1>1 DEF tobInitialize, tobInitializeWithInterface, CloseAllStart, OpenInv, OpenChannels, OwnChannel
  <1>2. CASE EfNameInvalid
    BY <1>2, OpenQuiet DEF EfNameInvalid, OwnChannel
  <1>3. CASE Exit
    BY <1>3, OpenStart DEF Exit
  <1>4. CASE \E c \in Calls, p \in Pins \cup {NoPin} : Enter(c, p)
    BY <1>4, OpenStart DEF Enter, AppOf
  <1>5. CASE Exchange
    BY <1>5, OpenExchange
  <1>6. CASE InitDone
    BY <1>6 DEF InitDone, OpenInv, OpenChannels, IInv, ClosingInv
  <1>7. CASE SelectFails
    BY <1>7, OpenQuiet DEF SelectFails, OwnChannel
  <1>8. CASE getKeyPairByContainerId \/ verifyPin \/ p11GetObjectByLabel \/ readEF \/ getCertificateByContainerId
             \/ signInit \/ decryptInit \/ signFinal \/ decryptFinal
    <2>1. /\ UNCHANGED <<chan, lost, seiface, channel, cur, isSelected>>
          /\ pc \in Inside /\ pc' \in Inside \cup {"leaving"}
      BY <1>8 DEF getKeyPairByContainerId, FinishKeyLookup, verifyPin, VerifyResult, CardVerify,
         p11GetObjectByLabel, readEF, getCertificateByContainerId, ReadStep,
         signInit, decryptInit, signFinal, decryptFinal, MseSet, Pso
    <2>2. cur \in isSelected
      BY <2>1 DEF IInv, SessionReachesApplet
    <2>3. OwnChannel \subseteq OwnChannel'
      BY <2>1, <2>2 DEF OwnChannel
    <2> QED BY <2>1, <2>3, OpenQuiet
  <1>9. CASE Leave
    <2>1. cur \in Applets
      BY DEF IInv, TypeOK, AppletTypeOK
    <2> QED BY <1>9, <2>1, OpenStart DEF Leave
  <1>10. CASE Return
    <2>1. CASE SelectStart("MIAS", FALSE)
      BY <1>10, <2>1, OpenStart DEF Return
    <2>2. CASE UNCHANGED <<chan, lost, seiface, channel, cur>> /\ pc' = "idle"
      BY <1>10, <2>2, OpenQuiet DEF Return, OwnChannel
    <2> QED BY <1>10, <2>1, <2>2 DEF Return
  <1>11. CASE Destroyed /\ cur = "MIAS"
    BY <1>11, OpenStart DEF Destroyed
  <1>12. CASE Restart
    BY <1>12 DEF Restart, AppletRestart, OpenInv
  <1>13. CASE CardResets
    <2>1. OpenChannels' = {}
      BY <1>13 DEF CardResets, ResetCard, CardReset, OpenChannels
    <2> QED BY <2>1 DEF OpenInv
  <1>14. CASE UNCHANGED vars
    BY <1>14, OpenQuiet DEF vars, OwnChannel
  <1> QED BY <1>1, <1>2, <1>3, <1>4, <1>5, <1>6, <1>7, <1>8, <1>9, <1>10, <1>11, <1>12, <1>13, <1>14
          DEF Next, CallStep, ApiCall, Destroyed, Crash, tobExtractAvailableCertificate,
              tobExtractAvailablePrivateKey, tobExtractSigningCertificate, tobSigningSign,
              tobSigningDecrypt, tobSigningLen, se_read_object

(* An exchange of a clean call: no channel but a lost one can make the card *)
(* refuse to open another, so a clean select() goes through.               *)
LEMMA CleanExchange == ASSUME IInv, OpenInv, CleanInv, Exchange PROVE CleanInv'
  <1> SUFFICES ASSUME seiface', clean', Documented'
               PROVE  /\ pc' \notin {"sel_undo", "unselected"}
                      /\ pc' \in Inside \cup {"sel_aid"} => Reached' # Closed
                      /\ label' = "legacy" => "new" \notin present'
                      /\ Ending' => ret' = "ok" \/ Reason'
    BY DEF CleanInv
  <1>1. /\ UNCHANGED <<modem, keys, present, call, pin, label, ret, got, burnt, seiface, cur>>
        /\ \/ pc \in Selecting \ {"unselected"} /\ pc' \in Selecting \cup {"selected"}
           \/ pc = "des_close" /\ pc' = "deselected"
           \/ pc = "close_all" /\ pc' \in {"close_all", "closed_all"}
    BY ExchangeLeads
  <1>2. /\ seiface /\ clean /\ Documented
        /\ pc \notin {"sel_undo", "unselected"}
        /\ pc \in Inside \cup {"sel_aid"} => Reached # Closed
        /\ label = "legacy" => "new" \notin present
        /\ Ending => ret = "ok" \/ Reason
    BY <1>1, ExchangeLeads DEF CleanInv
  <1>3. tries' = tries
    BY OtherTries, <1>1 DEF Next, CallStep, verifyPin
  <1>4. Ending' => ret' = "ok" \/ Reason'
    BY <1>1, <1>2, <1>3 DEF Reason, Usable
  <1>5. AppletTypeOK /\ CardTypeOK
    BY DEF IInv, TypeOK
  <1>6. CASE SelClose
    BY <1>1, <1>2, <1>4, <1>6 DEF SelClose, AfterDeselect, IInv, LogicalInv
  <1>7. CASE SelOpen
    <2>1. pc = "sel_open"
      BY <1>7 DEF SelOpen
    <2>2. pc' = "sel_aid"
      <3>1. pc' = "sel_aid" \/ (OpenChannels = Logical /\ lost = {})
        BY <2>1, Zenon DEF Exchange
      <3>2. OpenChannels \subseteq lost
        BY <1>2, <2>1 DEF OpenInv, OwnChannel
      <3>3. 1 \in Logical
        BY NumChannelsAssumption
      <3> QED BY <3>1, <3>2, <3>3
    <2>3. PICK ch \in Logical : CardOpen(ch) /\ channel' = [channel EXCEPT ![cur] = ch]
      BY <1>7, <2>2 DEF SelOpen
    <2>4. channel'[cur'] = ch
      BY <1>1, <1>5, <2>3 DEF AppletTypeOK
    <2>5. chan'[ch] = "MF"
      BY <1>5, <2>3, NumChannelsAssumption DEF CardOpen, CardTypeOK
    <2> QED BY <1>1, <1>2, <1>4, <2>2, <2>4, <2>5 DEF Reached
  <1>8. CASE SelAid
    <2>1. pc = "sel_aid"
      BY <1>8 DEF SelAid
    <2>2. pc' = "selected"
      <3>1. pc' = "selected" \/ Reached = Closed
        BY <2>1, Zenon DEF Exchange
      <3> QED BY <1>2, <2>1, <3>1
    <2>3. CardSelect(channel[cur], cur) /\ channel' = channel
      BY <1>8, <2>2 DEF SelAid
    <2>4. Reached' = cur
      BY <1>1, <1>5, <2>3 DEF CardSelect, CardTypeOK, AppletTypeOK, Reached
    <2> QED BY <1>1, <1>2, <1>4, <1>5, <2>2, <2>4 DEF AppletTypeOK
  <1>9. CASE SelUndo
    BY <1>2, <1>9 DEF SelUndo
  <1>10. CASE DesClose
    BY <1>1, <1>2, <1>4, <1>10 DEF DesClose
  <1>11. CASE CloseAllStep
    BY <1>2, <1>11 DEF CloseAllStep, IInv, ControlInv
  <1>12. ~SelBasic
    BY DEF SelBasic, IInv, LogicalInv
  <1> QED BY <1>6, <1>7, <1>8, <1>9, <1>10, <1>11, <1>12 DEF Exchange, AppletStep

(* verifyPin: a VERIFY that was answered fails for the PIN or the counter. *)
LEMMA CleanVerify == ASSUME IInv, CleanInv, verifyPin PROVE CleanInv'
  <1> SUFFICES ASSUME seiface', clean', Documented'
               PROVE  /\ pc' \notin {"sel_undo", "unselected"}
                      /\ pc' \in Inside \cup {"sel_aid"} => Reached' # Closed
                      /\ label' = "legacy" => "new" \notin present'
                      /\ Ending' => ret' = "ok" \/ Reason'
    BY DEF CleanInv
  <1> USE DEF verifyPin
  <1>1. UNCHANGED <<seiface, hostVars, cur, keys, present, call, label, pin, chan>> /\ pc \in Inside /\ call \in PinCalls
    BY DEF CardVerify, cardVars
  <1>2. clean' => clean
    BY Zenon
  <1>3. /\ Reached # Closed
        /\ label = "legacy" => "new" \notin present
    BY <1>1, <1>2 DEF CleanInv
  <1>4. cur = "MIAS" /\ Reached = "MIAS"
    BY <1>1, <1>3 DEF IInv, SessionReachesApplet, AppOf
  <1>5. PICK out \in Transport :
           /\ VerifyResult(out = "answered" /\ VerifyAccepted(channel[cur], pin))
           /\ clean' = (clean /\ out = "answered")
           /\ \/ out = "lostReq" /\ UNCHANGED cardVars
              \/ out # "lostReq" /\ CardVerify(channel[cur], pin)
    BY <1>4
  <1>6. out = "answered"
    BY <1>5, Zenon
  <1>7. CASE VerifyAccepted(channel[cur], pin)
    BY <1>1, <1>3, <1>5, <1>6, <1>7 DEF VerifyResult, Reached, hostVars
  <1>8. CASE ~VerifyAccepted(channel[cur], pin)
    <2>1. pc' = "leaving" /\ ret' = "VERIFY_PIN" /\ CardVerify(channel[cur], pin)
      BY <1>5, <1>6, <1>8 DEF VerifyResult
    <2>2. tries' = [tries EXCEPT !["MIAS"] = IF @ > 0 THEN @ - 1 ELSE 0]
      BY <1>4, <1>8, <2>1 DEF CardVerify, Reached
    <2>3. ~(tries["MIAS"] > 0) \/ pin # CardPin["MIAS"]
      BY <1>4, <1>8 DEF VerifyAccepted, Reached
    <2>4. tries \in [Applets -> 0 .. MaxTries] /\ MaxTries \in Nat
      BY MaxTriesAssumption DEF IInv, TypeOK, CardTypeOK
    <2>5. pin' # CardPin["MIAS"] \/ ~(tries'["MIAS"] > 0)
      BY <1>1, <2>2, <2>3, <2>4
    <2> QED BY <1>1, <1>3, <2>1, <2>5 DEF Reason
  <1> QED BY <1>7, <1>8

(* CleanInv, step by step.                                                 *)
LEMMA CleanStep == ASSUME IInv, OpenInv, DeliveredInv, CleanInv, [Next]_vars PROVE CleanInv'
  <1>1. CASE ApiCall
    <2> USE DEF CleanInv, NewCall
    <2>1. CASE tobInitialize \/ tobInitializeWithInterface \/ EfNameInvalid \/ Exit
      BY <2>1 DEF tobInitialize, tobInitializeWithInterface, EfNameInvalid, Exit
    <2>2. CASE \E c \in Calls, p \in Pins \cup {NoPin} : Enter(c, p)
      BY <2>2 DEF Enter, SelectStart, AfterDeselect
    <2> QED BY <1>1, <2>1, <2>2 DEF ApiCall, tobExtractAvailableCertificate,
             tobExtractAvailablePrivateKey, tobExtractSigningCertificate, tobSigningSign,
             tobSigningDecrypt, tobSigningLen, se_read_object
  <1>2. CASE Exchange
    BY <1>2, CleanExchange
  <1>3. CASE InitDone
    BY <1>3 DEF InitDone, IInv, ControlInv, CleanInv
  <1>4. CASE SelectFails
    BY <1>4 DEF SelectFails, CleanInv
  <1>5. CASE getKeyPairByContainerId
    <2> USE DEF getKeyPairByContainerId
    <2>1. /\ UNCHANGED <<chan, channel, cur, seiface, call, present, label>>
          /\ pc = "selected" /\ (clean' => clean)
      <3>1. clean' => clean
        BY <1>5, Zenon
      <3> QED BY <1>5, <3>1 DEF cardVars, hostVars
    <2>2. CASE ret' = "BAD_KEY" /\ pc' = "leaving" /\ ~Usable(keys')
      BY <1>5, <2>1, <2>2 DEF CleanInv, Reason, Usable
    <2>3. CASE (ret' = "ok" /\ pc' = "leaving") \/ pc' = "keyed"
      BY <1>5, <2>1, <2>3 DEF CleanInv, Reached
    <2> QED BY <1>5, <2>2, <2>3 DEF FinishKeyLookup
  <1>6. CASE verifyPin
    BY <1>6, CleanVerify
  <1>7. CASE p11GetObjectByLabel \/ readEF \/ getCertificateByContainerId
    <2> SUFFICES ASSUME seiface', clean', Documented'
                 PROVE  /\ label' = "legacy" => "new" \notin present'
                        /\ ret' = "ok" \/ Reason'
      BY <1>7 DEF p11GetObjectByLabel, readEF, getCertificateByContainerId, ReadStep, CleanInv
    <2>1. /\ UNCHANGED <<seiface, call, present, label, pin>> /\ (clean' => clean)
          /\ pc \in Inside /\ (call \in P11Calls => pc = "verified")
      <3>1. clean' => clean
        BY <1>7, Zenon DEF p11GetObjectByLabel, readEF, getCertificateByContainerId, ReadStep
      <3> QED BY <1>7, <3>1 DEF p11GetObjectByLabel, readEF, getCertificateByContainerId, ReadStep
    <2>2. Reached = cur /\ (label = "legacy" => "new" \notin present)
      BY <2>1 DEF CleanInv, IInv, SessionReachesApplet
    <2>3. call \in P11Calls => Unlocked
      BY <2>1, <2>2 DEF Unlocked, IInv, NothingSentLocked, TypeOK, AppletTypeOK
    <2>4. CASE p11GetObjectByLabel
      <3>1. ret' = "ok" \/ (ret' = "MIAS_READ" /\ ~(Unlocked /\ label \in present))
        BY <2>4, Zenon DEF p11GetObjectByLabel, ReadStep
      <3> QED BY <2>1, <2>2, <2>3, <2>4, <3>1 DEF p11GetObjectByLabel, Reason
    <2>5. CASE getCertificateByContainerId
      <3>1. ret' = "ok" \/ ~(Reached = cur)
        BY <2>5, Zenon DEF getCertificateByContainerId, ReadStep
      <3> QED BY <2>1, <2>2, <3>1
    <2>6. CASE readEF
      BY <2>1, <2>6 DEF readEF
    <2> QED BY <1>7, <2>4, <2>5, <2>6
  <1>8. CASE signInit \/ decryptInit \/ signFinal \/ decryptFinal
    <2>1. PICK c \in SignCalls : MseSet(c) \/ Pso(c)
      BY <1>8 DEF signInit, decryptInit, signFinal, decryptFinal
    <2> SUFFICES ASSUME seiface', clean', Documented'
                 PROVE  /\ pc' \notin {"sel_undo", "unselected"}
                        /\ pc' \in Inside \cup {"sel_aid"} => Reached' # Closed
                        /\ label' = "legacy" => "new" \notin present'
                        /\ Ending' => ret' = "ok" \/ Reason'
      BY DEF CleanInv
    <2>2. /\ UNCHANGED <<seiface, call, present, label, chan, channel, cur>> /\ (clean' => clean)
          /\ pc \in {"verified", "prepared"}
      <3>1. clean' => clean
        BY <2>1, Zenon DEF MseSet, Pso
      <3> QED BY <2>1, <3>1 DEF MseSet, Pso, cardVars, hostVars
    <2>3. Reached # Closed /\ (label = "legacy" => "new" \notin present)
      BY <2>2 DEF CleanInv
    <2>4. Unlocked
      BY <2>2, <2>3 DEF Unlocked, IInv, NothingSentLocked, SessionReachesApplet
    <2>5. pc' = "prepared" \/ (pc' = "leaving" /\ ret' = "ok")
      BY <2>1, <2>4, Zenon DEF MseSet, Pso
    <2> QED BY <2>2, <2>3, <2>5 DEF Reached
  <1>9. CASE Leave
    BY <1>9 DEF Leave, DeselectStart, sdkVars, cardVars, CleanInv, Reason, Usable
  <1>10. CASE Return
    <2>1. CASE Retry /\ label' = "legacy" /\ SelectStart("MIAS", FALSE) /\ UNCHANGED <<present, call, clean>>
      BY <1>10, <2>1 DEF Return, Retry, SelectStart, AfterDeselect, CleanInv, Reason
    <2>2. CASE pc' = "idle" /\ UNCHANGED <<cardVars, seiface, sdkVars>>
      BY <1>10, <2>2 DEF Return, sdkVars, cardVars, CleanInv, Reason, Usable
    <2> QED BY <1>10, <2>1, <2>2 DEF Return
  <1>11. CASE Destroyed \/ Restart
    BY <1>11 DEF Destroyed, Restart, AppletRestart, sdkVars, CleanInv
  <1>12. CASE CardResets
    BY <1>12 DEF CardResets, CleanInv
  <1>13. CASE UNCHANGED vars
    BY <1>13 DEF vars, cardVars, appletVars, sdkVars, CleanInv, Reached, Reason, Usable
  <1> QED BY <1>1, <1>2, <1>3, <1>4, <1>5, <1>6, <1>7, <1>8, <1>9, <1>10, <1>11, <1>12, <1>13
          DEF Next, CallStep, Crash

----------------------------------------------------------------------------
(* What a call has to answer for is invariant, given the invariant of the  *)
(* sessions.                                                               *)
THEOREM ResultInvariant == Spec => []ResultInv
  <1>1. Init => ResultInv
    BY DEF Init, AppletInit, ResultInv, DeliveredInv, Retry, OpenInv, CleanInv
  <1>2. IInv /\ ResultInv /\ [Next]_vars => ResultInv'
    BY DeliveredStep, OpenStep, CleanStep DEF ResultInv
  <1> QED BY <1>1, <1>2, Invariance, PTL DEF Spec

(* A documented call that returns 0 has got its object from the right      *)
(* applet, whole unless an exchange was lost.                              *)
THEOREM OkMeansDeliveredHolds == Spec => []OkMeansDelivered
  <1>1. ResultInv => OkMeansDelivered
    BY DEF ResultInv, DeliveredInv, OkMeansDelivered, Returned
  <1> QED BY <1>1, ResultInvariant, PTL

(* Whatever happened before, a feasible call none of whose exchanges is    *)
(* lost or refused succeeds.                                               *)
THEOREM CleanCallSucceedsHolds == Spec => []CleanCallSucceeds
  <1>1. IInv /\ ResultInv => CleanCallSucceeds
    <2> SUFFICES ASSUME IInv, ResultInv, Returned, seiface, clean, Feasible, ret # "ok" PROVE FALSE
      BY DEF CleanCallSucceeds
    <2>1. Reason /\ (label = "legacy" => "new" \notin present)
      BY DEF ResultInv, CleanInv, Returned
    <2>2. CASE ret = "MIAS_READ" /\ call \in P11Calls /\ label \notin present
      <3>1. label = "legacy"
        BY <2>2 DEF Returned, ResultInv, DeliveredInv, Retry, IInv, TypeOK
      <3> QED BY <2>1, <2>2, <3>1 DEF Feasible, IInv, TypeOK
    <2> QED BY <2>1, <2>2 DEF Reason, Feasible
  <1> QED BY <1>1, Invariance, ResultInvariant, PTL

----------------------------------------------------------------------------
(* The key pair list is a KeyCache.  TobSdk does not number its processes; *)
(* Restart is the step NewProcess.                                         *)
Cache == INSTANCE KeyCache WITH Answers <- {"full", "nocert", "none"}, life <- 0

\* The list changes by a listing over a channel to MIAS or with the process.
KeysAsListed == [][(Cache!List /\ Reached = "MIAS") \/ Restart]_keys

(* Only a listing changes the key pair list of a process that lives.       *)
LEMMA OtherKeys == ASSUME Next, ~getKeyPairByContainerId, ~Restart PROVE keys' = keys
  <1> USE DEF sdkVars
  <1>1. CASE ApiCall
    BY <1>1 DEF ApiCall, tobInitialize, tobInitializeWithInterface,
       Exit, EfNameInvalid, se_read_object, Enter,
       tobExtractAvailableCertificate, tobExtractAvailablePrivateKey,
       tobExtractSigningCertificate, tobSigningSign, tobSigningDecrypt, tobSigningLen
  <1>2. CASE CallStep
    BY <1>2 DEF CallStep, Exchange, InitDone, SelectFails, verifyPin,
       p11GetObjectByLabel, readEF, getCertificateByContainerId, ReadStep, signInit, signFinal,
       decryptInit, decryptFinal, MseSet, Pso, Leave, Return, Destroyed
  <1>3. CASE CardResets
    BY <1>3 DEF CardResets
  <1> QED BY <1>1, <1>2, <1>3 DEF Next, Crash

(* What MIAS::listKeyPairs promises is what the calls of the SDK live on:  *)
(* the answer about a key is unknown until a listing that reached MIAS     *)
(* found one, and is then the same in every call until the process ends.   *)
(* CachedForLife shows the same of the listing in MiasKeyPairs.            *)
THEOREM KeysAreCached == Spec => KeysAsListed
  <1>1. [Next]_vars => [(Cache!List /\ Reached = "MIAS") \/ Restart]_keys
    <2> SUFFICES ASSUME Next, ~Restart, keys' # keys PROVE Cache!List /\ Reached = "MIAS"
      BY DEF vars, sdkVars
    <2>1. getKeyPairByContainerId
      BY OtherKeys
    <2>2. PICK k \in ListResults : keys' = k
      BY <2>1 DEF getKeyPairByContainerId
    <2>3. keys = "unlisted" /\ Reached = "MIAS" /\ k \in KeyLists
      BY <2>2 DEF ListResults
    <2> QED BY <2>2, <2>3 DEF Cache!List
  <1> QED BY <1>1, PTL DEF Spec, KeysAsListed
=============================================================================
