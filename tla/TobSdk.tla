------------------------------- MODULE TobSdk -------------------------------
(***************************************************************************)
(* The SDK (src/BreakoutTrustOnboardSDK.cpp) over the applets MF and MIAS: *)
(* initialisation, the calls that read certificates and keys, sign and     *)
(* decrypt, process exit, and the crashes and card resets around them.     *)
(*                                                                         *)
(* A call runs select(), the operation and deselect().  select(),          *)
(* deselect() and verifyPin() are one step per exchange; the functions     *)
(* that only read (listKeyPairs, p11GetObjectByLabel,                      *)
(* getCertificateByContainerId, readEF, signInit, signFinal, ...) do not   *)
(* change channels or PINs and are one step each, with every result their  *)
(* exchanges can lead to.                                                  *)
(***************************************************************************)
EXTENDS Applet

CONSTANTS
    ApiCalls,   \* the calls the program makes
    LongPins    \* PINs of more than 8 characters, which MF::verifyPin rejects

VARIABLES
    modem,     \* _modem is set
    keys,      \* the key pair list MIAS caches for the life of the process
    present,   \* the labels under which the card holds the available objects
    call,      \* the API call in progress, or the last one
    pin,       \* its PIN argument, NoPin if it uses none
    label,     \* the label being read: the new name first, then the legacy one
    ret,       \* its result
    got,       \* history: what the operation delivered
    burnt,     \* history: PIN tries the call has cost
    clean      \* history: no exchange of the call was lost or refused

sdkVars == <<modem, keys, present, call, pin, label, ret, got, burnt, clean>>
vars    == <<cardVars, appletVars, sdkVars>>

P11Calls  == {"cert_available", "key_available"}
SignCalls == {"sign", "decrypt"}
KeyCalls  == SignCalls \cup {"len", "cert_signing"}
Calls     == P11Calls \cup KeyCalls \cup {"ef"}
PinCalls  == P11Calls \cup SignCalls \cup {"ef"}

ASSUME ApiCallsAssumption == ApiCalls \subseteq Calls
ASSUME LongPinsAssumption == LongPins \subseteq Pins

NoPin == "none"

AppOf(c) == IF c = "ef" THEN "MF" ELSE "MIAS"

KeyLists == {"unlisted", "full", "nocert", "none"}
Codes    == {"ok", "fail", "BAD_KEY", "VERIFY_PIN", "MIAS_READ", "EF_READ", "EF_NAME",
             "garbage", "none"}
SdkPCs   == {"idle", "keyed", "verified", "prepared", "leaving"}

Init ==
    /\ CardInit
    /\ AppletInit
    /\ pc = "idle"
    /\ modem = FALSE
    /\ keys = "unlisted"
    /\ present \in SUBSET {"new", "legacy"}
    /\ call = "none"
    /\ pin = NoPin
    /\ label = "new"
    /\ ret = "none"
    /\ got = "none"
    /\ burnt = 0
    /\ clean = TRUE

SdkFlagsOK == FlagsOK /\ modem \in BOOLEAN /\ clean \in BOOLEAN

TypeOK ==
    /\ CardTypeOK
    /\ AppletTypeOK
    /\ SdkFlagsOK
    /\ pc \in AppletPCs \cup SdkPCs
    /\ keys \in KeyLists
    /\ present \subseteq {"new", "legacy"}
    /\ call \in Calls \cup {"none", "init", "exit"}
    /\ pin \in Pins \cup {NoPin}
    /\ label \in {"new", "legacy"}
    /\ ret \in Codes
    /\ got \in {"none", "new", "legacy", "partial", "alien", "done"}
    /\ burnt \in 0 .. 2

----------------------------------------------------------------------------
(* Initialisation                                                          *)

\* A call begins, and leaves no trace of the previous one.
NewCall(c, p) ==
    /\ call' = c
    /\ pin' = p
    /\ label' = "new"
    /\ got' = "none"
    /\ burnt' = 0
    /\ clean' = TRUE

tobInitializeWithInterface ==
    /\ pc = "idle"
    /\ NewCall("init", NoPin)
    /\ ret' = "none"
    /\ \/ CloseAllStart
       \/ /\ seiface' = FALSE           \* seiface == NULL
          /\ UNCHANGED <<cardVars, hostVars, pc, cur, basicArg, idx, lost>>
    /\ UNCHANGED <<modem, keys, present>>

tobInitialize ==
    /\ pc = "idle"
    /\ NewCall("init", NoPin)
    /\ \/ /\ modem                      \* already initialised
          /\ ret' = "ok"
          /\ UNCHANGED <<cardVars, appletVars, modem>>
       \/ /\ ~modem                     \* no device, or open() fails
          /\ ret' = "fail"
          /\ UNCHANGED <<cardVars, appletVars, modem>>
       \/ /\ ~modem
          /\ ret' = "none"
          /\ modem' = TRUE
          /\ CloseAllStart
    /\ UNCHANGED <<keys, present>>

\* _mias.init(seiface), _mf.init(seiface): nothing else of them is reset.
InitDone ==
    /\ pc = "closed_all"
    /\ seiface' = TRUE
    /\ pc' = "idle"
    /\ idx' = 1
    /\ ret' = "ok"
    /\ UNCHANGED <<cardVars, hostVars, cur, basicArg, lost>>
    /\ UNCHANGED <<modem, keys, present, call, pin, label, got, burnt, clean>>

----------------------------------------------------------------------------
(* The steps calls are made of                                             *)

\* Entry of a call that selects its applet on a logical channel.
Enter(c, p) ==
    /\ pc = "idle" /\ c \in ApiCalls
    /\ NewCall(c, p)
    /\ ret' = "none"
    /\ SelectStart(AppOf(c), FALSE)
    /\ UNCHANGED <<modem, keys, present>>

tobExtractAvailableCertificate == \E p \in Pins : Enter("cert_available", p)
tobExtractAvailablePrivateKey  == \E p \in Pins : Enter("key_available", p)
tobSigningSign                 == \E p \in Pins : Enter("sign", p)
tobSigningDecrypt              == \E p \in Pins : Enter("decrypt", p)

\* These two take a PIN and do not use it.
tobExtractSigningCertificate == Enter("cert_signing", NoPin)
tobSigningLen                == Enter("len", NoPin)

\* The SE://EF/ paths of tob_x509_crt_extract_se and tob_pk_extract_se: an
\* ill-formed name never reaches the card.
EfNameInvalid ==
    /\ pc = "idle" /\ "ef" \in ApiCalls
    /\ NewCall("ef", NoPin)
    /\ ret' = "EF_NAME"
    /\ UNCHANGED <<cardVars, appletVars, modem, keys, present>>

se_read_object == EfNameInvalid \/ \E p \in Pins : Enter("ef", p)

\* Mutant: every call returns a `ret' it never assigned, as se_read_ef does.
SelectFailureUnassigned(c) == {"ok", "garbage"}

\* What a call returns when select() is false.  se_read_ef returns a `ret'
\* it never assigned.
SelectFailureCodes(c) ==
    CASE c \in P11Calls -> {"MIAS_READ"}
      [] c = "ef"       -> {"ok", "garbage"}
      [] OTHER          -> {"BAD_KEY"}

SelectFails ==
    /\ pc = "unselected"
    /\ ret' \in SelectFailureCodes(call)
    /\ pc' = "leaving"
    /\ UNCHANGED <<cardVars, seiface, hostVars, cur, basicArg, idx, lost>>
    /\ UNCHANGED <<modem, keys, present, call, pin, label, got, burnt, clean>>

\* The applet that the commands of the call reach.
Reached == chan[channel[cur]]

\* getKeyPairByContainerId: listKeyPairs() asks the card only while nothing
\* is cached, and caches what it got even when records were lost.
ListResults ==
    IF keys # "unlisted" THEN {keys}
    ELSE IF Reached = "MIAS" THEN KeyLists ELSE {"unlisted"}

\* Whether the list has the key pair, and the certificate if it is asked for.
Usable(k) == k = "full" \/ (k = "nocert" /\ call # "cert_signing")

FinishKeyLookup(k) ==
    \/ ~Usable(k) /\ ret' = "BAD_KEY" /\ pc' = "leaving" /\ UNCHANGED got
    \/ Usable(k) /\ call = "len" /\ ret' = "ok" /\ pc' = "leaving" /\ got' = "done"
    \/ Usable(k) /\ call # "len" /\ pc' = "keyed" /\ UNCHANGED <<ret, got>>

getKeyPairByContainerId ==
    /\ pc = "selected"
    /\ call \in KeyCalls
    /\ \E k \in ListResults :
         /\ keys' = k
         /\ clean' = (clean /\ (keys = "unlisted" /\ Reached = "MIAS" => k = "full"))
         /\ FinishKeyLookup(k)
    /\ UNCHANGED <<cardVars, seiface, hostVars, cur, basicArg, idx, lost>>
    /\ UNCHANGED <<modem, present, call, pin, label, burnt>>

\* Mutant: the result of VERIFY is not looked at.
VerifyResultIgnored(accepted) ==
    /\ pc' = "verified"
    /\ ret' = ret

\* MIAS::verifyPin, MF::verifyPin.
VerifyResult(accepted) ==
    /\ pc' = IF accepted THEN "verified" ELSE "leaving"
    /\ ret' = IF accepted THEN ret ELSE "VERIFY_PIN"

verifyPin ==
    /\ \/ pc = "selected" /\ call \in PinCalls \ SignCalls
       \/ pc = "keyed" /\ call \in SignCalls
    /\ \/ /\ cur = "MF" /\ pin \in LongPins
          /\ VerifyResult(FALSE)
          /\ UNCHANGED <<cardVars, burnt, clean>>
       \/ /\ ~(cur = "MF" /\ pin \in LongPins)
          /\ \E out \in Transport :
               /\ VerifyResult(out = "answered" /\ VerifyAccepted(channel[cur], pin))
               /\ clean' = (clean /\ out = "answered")
               /\ \/ out = "lostReq" /\ UNCHANGED cardVars
                  \/ out # "lostReq" /\ CardVerify(channel[cur], pin)
               /\ burnt' = IF \E a \in Applets : tries'[a] < tries[a] THEN burnt + 1 ELSE burnt
    /\ UNCHANGED <<seiface, hostVars, cur, basicArg, idx, lost>>
    /\ UNCHANGED <<modem, keys, present, call, label, pin, got>>

\* A read of the object `what' from the applet the call selected.  It may
\* be answered, be answered with holes, fail, or be answered by another
\* applet, if that is what the channel leads to.
ReadStep(what, readable, failure) ==
    /\ pc' = "leaving"
    /\ \/ /\ readable \/ Reached \notin {cur, Closed}
          /\ ret' = "ok" /\ got' = IF readable THEN what ELSE "alien"
          /\ UNCHANGED clean
       \/ /\ readable
          /\ ret' = "ok" /\ got' = "partial"
          /\ clean' = FALSE
       \/ /\ ret' = failure
          /\ clean' = (clean /\ ~readable)
          /\ UNCHANGED got
    /\ UNCHANGED <<cardVars, seiface, hostVars, cur, basicArg, idx, lost>>
    /\ UNCHANGED <<modem, keys, present, call, pin, label, burnt>>

Unlocked == Reached = cur /\ channel[cur] \in auth

p11GetObjectByLabel ==
    /\ pc = "verified" /\ call \in P11Calls
    /\ ReadStep(label, Unlocked /\ label \in present, "MIAS_READ")

readEF ==
    /\ pc = "verified" /\ call = "ef"
    /\ ReadStep("done", Unlocked, "EF_READ")

\* The certificate is public: no PIN is verified before it is read.
getCertificateByContainerId ==
    /\ pc = "keyed" /\ call = "cert_signing"
    /\ ReadStep("done", Reached = cur, "BAD_KEY")

\* MSE SET: choose the key and the algorithm.
MseSet(c) ==
    /\ pc = "verified" /\ call = c
    /\ \/ /\ Reached # Closed
          /\ pc' = "prepared"
          /\ UNCHANGED <<ret, clean>>
       \/ /\ pc' = "leaving"
          /\ ret' = "BAD_KEY"
          /\ clean' = (clean /\ ~Unlocked)
    /\ UNCHANGED <<cardVars, seiface, hostVars, cur, basicArg, idx, lost>>
    /\ UNCHANGED <<modem, keys, present, call, pin, label, got, burnt>>

signInit    == MseSet("sign")
decryptInit == MseSet("decrypt")

\* PSO and the transfer of its result.
Pso(c) ==
    /\ pc = "prepared" /\ call = c
    /\ pc' = "leaving"
    /\ \/ /\ Unlocked
          /\ ret' = "ok" /\ got' = "done"
          /\ UNCHANGED clean
       \/ /\ ret' = "BAD_KEY"
          /\ clean' = (clean /\ ~Unlocked)
          /\ UNCHANGED got
    /\ UNCHANGED <<cardVars, seiface, hostVars, cur, basicArg, idx, lost>>
    /\ UNCHANGED <<modem, keys, present, call, pin, label, burnt>>

signFinal    == Pso("sign")
decryptFinal == Pso("decrypt")

\* deselect() at the end of every call (SelectionGuard's destructor).
Leave ==
    /\ pc = "leaving"
    /\ DeselectStart(cur)
    /\ UNCHANGED sdkVars

\* Mutant: any failure is retried.
RetryAnyFailure == call \in P11Calls /\ label = "new" /\ ret # "ok"

\* The call returns, or reads again under the legacy label.
Retry == call \in P11Calls /\ label = "new" /\ ret = "MIAS_READ"

\* Mutant: the second reading uses the new label again.
ReturnSameLabel ==
    /\ pc = "deselected" /\ call \in Calls
    /\ \/ /\ Retry
          /\ ret' = "none"
          /\ SelectStart("MIAS", FALSE)
          /\ UNCHANGED <<modem, keys, present, call, pin, label, got, burnt, clean>>
       \/ /\ ~Retry
          /\ pc' = "idle"
          /\ UNCHANGED <<cardVars, seiface, hostVars, cur, basicArg, idx, lost, sdkVars>>

Return ==
    /\ pc = "deselected" /\ call \in Calls
    /\ \/ /\ Retry
          /\ label' = "legacy"
          /\ ret' = "none"
          /\ SelectStart("MIAS", FALSE)
          /\ UNCHANGED <<modem, keys, present, call, pin, got, burnt, clean>>
       \/ /\ ~Retry
          /\ pc' = "idle"
          /\ UNCHANGED <<cardVars, seiface, hostVars, cur, basicArg, idx, lost, sdkVars>>

----------------------------------------------------------------------------
(* The end of the process                                                  *)

\* A new process: static constructors; the card keeps its state.
Restart ==
    /\ AppletRestart
    /\ pc' = "idle"
    /\ modem' = FALSE
    /\ keys' = "unlisted"
    /\ NewCall("none", NoPin)
    /\ ret' = "none"
    /\ UNCHANGED <<cardVars, present>>

\* exit(): the destructors of _mias and _mf deselect what is still selected.
Exit ==
    /\ pc = "idle"
    /\ NewCall("exit", NoPin)
    /\ ret' = "none"
    /\ DeselectStart("MIAS")
    /\ UNCHANGED <<modem, keys, present>>

Destroyed ==
    /\ pc = "deselected" /\ call = "exit"
    /\ \/ cur = "MIAS" /\ DeselectStart("MF") /\ UNCHANGED sdkVars
       \/ cur = "MF" /\ Restart

\* The process dies at any point; the card may or may not have run the
\* command it was waiting for, which is the step before or not.
Crash == Restart

CardResets == ResetCard /\ clean' = FALSE /\ UNCHANGED <<modem, keys, present, call, pin,
                                                        label, ret, got, burnt>>

\* The steps of select(), deselect() and closeAllChannels().  A refused or
\* lost open or SELECT makes the call unclean, unless the host brought it
\* about itself (no channel left although none was lost, channel closed).
Exchange ==
    /\ AppletStep
    /\ clean' = (clean /\ CASE pc = "sel_open" -> pc' = "sel_aid" \/ (OpenChannels = Logical /\ lost = {})
                            [] pc = "sel_aid"  -> pc' = "selected" \/ Reached = Closed
                            [] OTHER           -> TRUE)
    /\ UNCHANGED <<modem, keys, present, call, pin, label, ret, got, burnt>>

ApiCall ==
    \/ tobInitialize \/ tobInitializeWithInterface
    \/ tobExtractAvailableCertificate \/ tobExtractAvailablePrivateKey
    \/ tobExtractSigningCertificate
    \/ tobSigningSign \/ tobSigningDecrypt \/ tobSigningLen
    \/ se_read_object
    \/ Exit

\* A step of the call in progress.
CallStep ==
    \/ Exchange
    \/ InitDone \/ SelectFails
    \/ getKeyPairByContainerId \/ verifyPin
    \/ p11GetObjectByLabel \/ readEF \/ getCertificateByContainerId
    \/ signInit \/ signFinal \/ decryptInit \/ decryptFinal
    \/ Leave \/ Return \/ Destroyed

Next == ApiCall \/ CallStep \/ Crash \/ CardResets

Spec == Init /\ [][Next]_vars

\* A thread that is in a call goes on: transmit() returns, with an answer or
\* with an error.  Nothing is assumed of the caller, the card or crashes.
FairSpec == Spec /\ WF_vars(CallStep)

----------------------------------------------------------------------------
(* Properties                                                              *)

InSession == pc \in {"selected", "keyed", "verified", "prepared"}

(* Between select() and deselect() the commands of a call go to the applet *)
(* it selected or nowhere: losses, resets, stale _isSelected flags and     *)
(* reused channel numbers never put another applet behind _channel         *)
(* (Applet::transmit).                                                     *)
SessionReachesApplet ==
    InSession => /\ cur = AppOf(call)
                 /\ cur \in isSelected /\ cur \notin isBasic
                 /\ Reached \in {cur, Closed}

(* After verifyPin() returned true every command of the call is sent on a  *)
(* channel whose session the card has unlocked, or on a channel that the   *)
(* card has closed (se_p11_read_object, tobSigningSign).                   *)
NothingSentLocked ==
    pc \in {"verified", "prepared"} /\ Reached # Closed => channel[cur] \in auth

(* A logical channel that is open while no applet will close it was left   *)
(* so by a lost exchange since the last initialisation: select()'s undo,   *)
(* deselect() and closeAllChannels() leak nothing by themselves.           *)
OrphansExplained ==
    seiface /\ pc \notin {"close_all", "closed_all"} => OpenChannels \subseteq Held \cup lost

(* One API call costs at most one PIN try, the second reading under the    *)
(* legacy label included (tobExtractAvailableCertificate: "Must be correct *)
(* or SIM may be locked after repeated attempts").                         *)
AtMostOneTry == burnt <= 1

(* The card counts a PIN try of an applet down only in a call on that      *)
(* applet that was given a wrong PIN; a right PIN, or the PIN of the other *)
(* applet given to its own applet, never brings the SIM nearer to being    *)
(* blocked, whatever is lost (MF::verifyPin, MIAS::verifyPin).             *)
TriesOnlyByWrongPin ==
    [][\A a \in Applets : tries'[a] < tries[a] => AppOf(call) = a /\ pin # CardPin[a]]_vars

\* The documented calls, once they have returned.
Returned == pc = "idle" /\ call \in Calls \ {"ef"}

(* A documented call that returns 0 has got its object from the right      *)
(* applet, complete unless an exchange of the call was lost ("@return 0 if *)
(* successful", BreakoutTrustOnboardSDK.h).                                *)
OkMeansDelivered ==
    Returned /\ ret = "ok" =>
        /\ got \notin {"none", "alien"}
        /\ call \in P11Calls => got \in {label, "partial"}
        /\ got = "partial" => ~clean

\* The call had what it needs: the right PIN, the object, a usable key list.
Feasible ==
    /\ call \in PinCalls => pin = CardPin["MIAS"] /\ tries["MIAS"] > 0
    /\ call \in P11Calls => present # {}
    /\ call \in KeyCalls => Usable(keys)

(* Whatever happened before (crashes, losses, resets, stale flags in the   *)
(* applets), a call none of whose exchanges is lost or refused succeeds,   *)
(* provided the host is initialised and the call is feasible.              *)
CleanCallSucceeds == Returned /\ seiface /\ clean /\ Feasible => ret = "ok"

(* ERR_SE_BAD_KEY_NAME_ERROR, "No matching key found with the given name": *)
(* a call whose exchanges were all answered does not return it, as the     *)
(* card does hold the signing key and its certificate.                     *)
BadKeyMeansNoKey == Returned /\ seiface /\ clean => ret # "BAD_KEY"

(* Every call returns: select, the operation, the second reading and       *)
(* deselect come to an end whatever is lost.                               *)
CallReturns == pc # "idle" ~> pc = "idle"

----------------------------------------------------------------------------
(* The inductive invariant behind the properties above                     *)

Selecting == {"sel_close", "sel_open", "sel_aid", "sel_undo", "unselected"}
Inside    == {"selected", "keyed", "verified", "prepared"}
Leaving   == {"des_close", "deselected"}

\* Which call and which applet each control point belongs to.
ControlInv ==
    /\ pc \in Selecting \cup Inside \cup {"leaving"} => call \in Calls /\ cur = AppOf(call)
    /\ pc \in Leaving => call \in Calls \cup {"exit"}
    /\ pc \in Leaving /\ call \in Calls => cur = AppOf(call)
    /\ pc \in {"close_all", "closed_all"} => call = "init"
    /\ pc = "close_all" => idx <= AppletMaxChannel

\* The SDK never uses the basic channel.
LogicalInv ==
    /\ pc # "sel_basic" /\ ~basicArg /\ isBasic = {}
    /\ pc \in Inside \cup {"sel_aid", "sel_undo"} => channel[cur] \in Logical

\* When select() opens a channel it forgets the one it failed to close: that
\* one is lost.  While closeAllChannels() runs, what is open was lost or is
\* still to come.
ClosingInv ==
    /\ seiface /\ pc = "sel_open" =>
           OpenChannels \subseteq {channel[a] : a \in isSelected \ {cur}} \cup lost
    /\ pc = "close_all" => \A ch \in OpenChannels : ch \in lost \/ ch >= idx
    /\ pc = "closed_all" => OpenChannels \subseteq lost

\* A try is spent only by a call that is on its way out.
BurntInv ==
    /\ burnt <= 1
    /\ burnt = 1 => ret = "VERIFY_PIN" /\ pc \in Leaving \cup {"leaving", "idle"}

IInv ==
    /\ TypeOK
    /\ ControlInv
    /\ LogicalInv
    /\ SessionReachesApplet
    /\ NothingSentLocked
    /\ OrphansExplained
    /\ ClosingInv
    /\ BurntInv
=============================================================================
