------------------------- MODULE AzureClientProofs -------------------------
(***************************************************************************)
(* Proofs about AzureHsm and AzureClient, for every set of handles and     *)
(* devices and every number of messages.                                   *)
(***************************************************************************)
EXTENDS AzureClient, TLAPS

USE DEF Configs, Credentials, Certs, Readings, Credential

HsmDataOK ==
    /\ modem \in Devices \cup {None}
    /\ hsm \in [Handles -> Info \cup {None}]
    /\ given \in [Handles -> SUBSET Gifts]
    /\ twice \subseteq Handles

\* All a handle has cached and handed out is of the device of _modem.
SourceInv(h) ==
    /\ \A g \in given[h] : g.device = modem
    /\ hsm[h] # None =>
          /\ hsm[h].certificate # None => hsm[h].certificate.device = modem
          /\ hsm[h].common_name # None => hsm[h].common_name.device = modem
          /\ hsm[h].key # None => hsm[h].key.device = modem

\* A handle without a configuration has handed out and cached nothing.
FreshInv(h) ==
    /\ hsm[h] = None => given[h] = {} /\ h \notin twice
    /\ hsm[h] # None /\ hsm[h].conf = None =>
          /\ given[h] = {} /\ h \notin twice
          /\ hsm[h].certificate = None /\ hsm[h].key = None /\ hsm[h].signing_key = FALSE

\* The name goes with the certificate, and is missing only if that has holes.
NameInv(h) ==
    hsm[h] # None =>
        /\ hsm[h].certificate = None => hsm[h].common_name = None
        /\ hsm[h].certificate # None /\ hsm[h].common_name = None => hsm[h].certificate.read = "holes"

\* All a handle that was configured once has cached and handed out is of the
\* key pair it was configured for.
ModeInv(h) ==
    hsm[h] # None /\ hsm[h].conf # None /\ h \notin twice =>
        /\ hsm[h].certificate # None => hsm[h].certificate.signing = hsm[h].conf.signing
        /\ hsm[h].common_name # None => hsm[h].common_name.signing = hsm[h].conf.signing
        /\ hsm[h].key # None => hsm[h].key.signing = hsm[h].conf.signing
        /\ hsm[h].signing_key = TRUE => hsm[h].conf.signing = TRUE
        /\ \A g \in given[h] : g.signing = hsm[h].conf.signing

HandleInv(h) == SourceInv(h) /\ FreshInv(h) /\ NameInv(h) /\ ModeInv(h)

HsmInv ==
    /\ HsmDataOK
    /\ \A h \in Handles : HandleInv(h)
    /\ NullExplained

\* Which handle exists where in main; a program of one's own has none of this.
WhereInv ==
    /\ pc \in {"free", "undefined"} <=> program = "own"
    /\ pc \in {"start", "create", "hub_create", "exit"} => live = {}
    /\ pc \in {"option", "register", "work", "destroy"} => live = {"prov"}
    /\ pc \in {"hub_option", "run", "hub_destroy"} => live = {"hub"}

\* A program configures its handles once, and all alike.
ConfigInv ==
    program # "own" =>
        /\ twice = {}
        /\ pc \notin {"start", "exit"} => config \in Configs
        /\ pc = "option" => hsm["prov"].conf = None
        /\ pc = "hub_option" => hsm["hub"].conf = None
        /\ \A h \in live : hsm[h].conf \in {None, config}

\* The registered identity is that of the SIM and the configuration.
RegisteredInv ==
    registered # None =>
        /\ program # "own" /\ pc # "start" /\ config \in Configs
        /\ modem # None
        /\ registered = Credential(modem, config.signing)

ClientInv ==
    /\ pc \in {"free", "start", "create", "option", "register", "work", "destroy",
               "hub_create", "hub_option", "run", "hub_destroy", "exit", "undefined"}
    /\ WhereInv
    /\ ConfigInv
    /\ RegisteredInv

\* The inductive invariant.
AzureInv == HsmInv /\ ClientInv

(* What an action on one handle leaves alone stays as it was: the modem is *)
(* only set if there is none, and then nothing has been read.              *)
LEMMA OtherHandles ==
    ASSUME HsmInv, NEW k \in Handles, hsm'[k] = hsm[k], given'[k] = given[k],
           k \in twice' <=> k \in twice, modem # None => modem' = modem
    PROVE  HandleInv(k)'
  <1> USE DEF HsmInv
  <1>1. FreshInv(k)' /\ NameInv(k)' /\ ModeInv(k)'
    BY DEF HandleInv, FreshInv, NameInv, ModeInv
  <1>2. SourceInv(k)'
    <2>1. CASE modem # None
      BY <2>1 DEF HandleInv, SourceInv
    <2>2. CASE modem = None
      <3>1. given[k] = {}
        BY <2>2, NoneAssumption DEF HandleInv, SourceInv, HsmDataOK, Gifts
      <3>2. hsm[k] # None => hsm[k].certificate = None /\ hsm[k].common_name = None /\ hsm[k].key = None
        <4> SUFFICES ASSUME hsm[k] # None
                     PROVE  hsm[k].certificate = None /\ hsm[k].common_name = None /\ hsm[k].key = None
          OBVIOUS
        <4>1. hsm[k] \in Info
          BY DEF HsmDataOK
        <4>2. SourceInv(k)
          BY DEF HandleInv
        <4> QED BY <2>2, <4>1, <4>2, NoneAssumption DEF Info, SourceInv
      <3> QED BY <3>1, <3>2 DEF SourceInv
    <2> QED BY <2>1, <2>2
  <1> QED BY <1>1, <1>2 DEF HandleInv

(* The initial states of the HSM.                                          *)
LEMMA InitHsmInv == HsmInit => HsmInv
  BY DEF HsmInit, HsmInv, HsmDataOK, HandleInv, SourceInv, FreshInv, NameInv, ModeInv, NullExplained

(* A handle is made.                                                       *)
LEMMA CreateStep == ASSUME HsmInv, NEW h \in Handles, custom_hsm_create(h) PROVE HsmInv'
  <1> USE DEF custom_hsm_create
  <1> DEFINE new == [conf |-> None, certificate |-> None, common_name |-> None, key |-> None, signing_key |-> FALSE]
  <1>1. hsm' = [hsm EXCEPT ![h] = new] /\ new \in Info /\ hsm[h] = None
    BY DEF Info
  <1>2. new.conf = None /\ new.certificate = None /\ new.common_name = None /\ new.key = None /\ new.signing_key = FALSE
    OBVIOUS
  <1> HIDE DEF new
  <1>3. hsm'[h] = new /\ \A k \in Handles : k # h => hsm'[k] = hsm[k]
    BY <1>1 DEF HsmInv, HsmDataOK
  <1>4. HsmDataOK'
    BY <1>1 DEF HsmInv, HsmDataOK
  <1>5. given'[h] = {} /\ h \notin twice'
    BY <1>1 DEF HsmInv, HandleInv, FreshInv
  <1>6. HandleInv(h)'
    BY <1>2, <1>3, <1>5 DEF HandleInv, SourceInv, FreshInv, NameInv, ModeInv
  <1>7. \A k \in Handles : k # h => HandleInv(k)'
    BY <1>3, OtherHandles
  <1>8. NullExplained'
    BY DEF NullExplained
  <1> QED BY <1>4, <1>6, <1>7, <1>8 DEF HsmInv

(* A handle is destroyed.                                                  *)
LEMMA DestroyStep == ASSUME HsmInv, NEW h \in Handles, custom_hsm_destroy(h) PROVE HsmInv'
  <1> USE DEF custom_hsm_destroy
  <1>1. /\ hsm'[h] = None /\ \A k \in Handles : k # h => hsm'[k] = hsm[k]
        /\ given'[h] = {} /\ \A k \in Handles : k # h => given'[k] = given[k]
        /\ h \notin twice'
    BY DEF HsmInv, HsmDataOK
  <1>2. HsmDataOK'
    BY DEF HsmInv, HsmDataOK
  <1>3. HandleInv(h)'
    BY <1>1 DEF HandleInv, SourceInv, FreshInv, NameInv, ModeInv
  <1>4. \A k \in Handles : k # h => HandleInv(k)'
    BY <1>1, OtherHandles
  <1>5. NullExplained'
    BY DEF NullExplained
  <1> QED BY <1>2, <1>3, <1>4, <1>5 DEF HsmInv

(* A handle is configured.                                                 *)
LEMMA SetDataStep == ASSUME HsmInv, NEW h \in Handles, NEW c \in Configs, custom_hsm_set_data(h, c) PROVE HsmInv'
  <1> USE DEF custom_hsm_set_data
  <1> DEFINE new == [hsm[h] EXCEPT !.conf = c]
  <1>1. hsm[h] \in Info /\ hsm[h] # None /\ hsm' = [hsm EXCEPT ![h] = new]
    BY DEF HsmInv, HsmDataOK
  <1>2. /\ new \in Info /\ new.conf = c
        /\ new.certificate = hsm[h].certificate /\ new.common_name = hsm[h].common_name
        /\ new.key = hsm[h].key /\ new.signing_key = hsm[h].signing_key
    BY <1>1 DEF Info
  <1> HIDE DEF new
  <1>3. hsm'[h] = new /\ \A k \in Handles : k # h => hsm'[k] = hsm[k]
    BY <1>1 DEF HsmInv, HsmDataOK
  <1>4. HsmDataOK'
    BY <1>1, <1>2 DEF HsmInv, HsmDataOK
  <1>5. c # None /\ new # None
    BY <1>2, NoneAssumption
  <1>6. SourceInv(h)' /\ FreshInv(h)' /\ NameInv(h)'
    BY <1>1, <1>2, <1>3, <1>5 DEF HsmInv, HandleInv, SourceInv, FreshInv, NameInv
  <1>7. ModeInv(h)'
    <2>1. CASE hsm[h].conf = None
      BY <1>1, <1>2, <1>3, <2>1 DEF HsmInv, HandleInv, FreshInv, NameInv, ModeInv
    <2>2. CASE hsm[h].conf # None
      BY <2>2 DEF ModeInv
    <2> QED BY <2>1, <2>2
  <1>8. \A k \in Handles : k # h => HandleInv(k)'
    <2>1. \A k \in Handles : k # h => (k \in twice' <=> k \in twice)
      OBVIOUS
    <2> QED BY <1>3, <2>1, OtherHandles
  <1>9. NullExplained'
    BY DEF NullExplained
  <1> QED BY <1>4, <1>6, <1>7, <1>8, <1>9 DEF HsmInv, HandleInv

(* The modem after tobInitialize.                                          *)
LEMMA OpenedIsStable ==
    ASSUME HsmInv, NEW h \in Handles, Configured(h), modem' \in Opened(h)
    PROVE  modem' \in Devices \cup {None} /\ (modem # None => modem' = modem)
  <1>1. hsm[h] \in Info /\ hsm[h].conf \in Configs
    BY DEF HsmInv, HsmDataOK, Configured, Info
  <1> QED BY <1>1 DEF Opened, HsmInv, HsmDataOK

(* What a get hands out.                                                   *)
LEMMA GivesEffect ==
    ASSUME HsmInv, NEW h \in Handles, NEW what \in {"cert", "key", "name"}, NEW c, NEW read,
           c # None => c.device \in Devices /\ c.signing \in BOOLEAN,
           Gives(h, what, c, read)
    PROVE  /\ given' \in [Handles -> SUBSET Gifts]
           /\ twice' = twice
           /\ \A k \in Handles : k # h => given'[k] = given[k]
           /\ given[h] \subseteq given'[h]
           /\ \A g \in given'[h] \ given[h] : c # None /\ g.device = c.device /\ g.signing = c.signing
           /\ out' = IF c = None THEN Null(h, what, read) ELSE NoCall
  <1> USE DEF Gives
  <1> DEFINE g0 == [what |-> what, device |-> c.device, signing |-> c.signing]
  <1>1. twice' = twice /\ out' = IF c = None THEN Null(h, what, read) ELSE NoCall
    OBVIOUS
  <1>2. CASE c = None \/ what = "name"
    BY <1>1, <1>2 DEF HsmInv, HsmDataOK
  <1>3. CASE ~(c = None \/ what = "name")
    <2>1. g0 \in Gifts /\ g0.device = c.device /\ g0.signing = c.signing
      BY <1>3 DEF Gifts
    <2>2. given' = [given EXCEPT ![h] = given[h] \cup {g0}]
      BY <1>3
    <2> HIDE DEF g0
    <2>3. given'[h] = given[h] \cup {g0} /\ \A k \in Handles : k # h => given'[k] = given[k]
      BY <2>2 DEF HsmInv, HsmDataOK
    <2>4. given' \in [Handles -> SUBSET Gifts]
      BY <2>1, <2>2 DEF HsmInv, HsmDataOK
    <2> QED BY <1>1, <1>3, <2>1, <2>3, <2>4
  <1> QED BY <1>2, <1>3

(* A get of something that is cached, or that the handle cannot have.      *)
LEMMA CachedGetStep ==
    ASSUME HsmInv, NEW h \in Handles, Configured(h), UNCHANGED <<modem, hsm>>,
           NEW what \in {"cert", "key", "name"}, NEW c, NEW read, Gives(h, what, c, read),
           c \in {hsm[h].certificate, hsm[h].common_name, hsm[h].key, None},
           \/ c # None
           \/ read = "mode"
           \/ what = "name" /\ hsm[h].certificate # None /\ hsm[h].certificate.read = "holes"
    PROVE  HsmInv'
  <1>1. hsm[h] \in Info /\ hsm[h] # None /\ hsm[h].conf # None
    BY DEF HsmInv, HsmDataOK, Configured
  <1>2. c # None => c.device \in Devices /\ c.signing \in BOOLEAN /\ c.device = modem
    BY <1>1 DEF Info, HsmInv, HandleInv, SourceInv
  <1>3. c # None /\ h \notin twice => c.signing = hsm[h].conf.signing
    BY <1>1 DEF HsmInv, HandleInv, ModeInv
  <1>4. /\ given' \in [Handles -> SUBSET Gifts]
        /\ twice' = twice
        /\ \A k \in Handles : k # h => given'[k] = given[k]
        /\ given[h] \subseteq given'[h]
        /\ \A g \in given'[h] \ given[h] : c # None /\ g.device = c.device /\ g.signing = c.signing
        /\ out' = IF c = None THEN Null(h, what, read) ELSE NoCall
    BY <1>2, GivesEffect
  <1>5. HsmDataOK'
    BY <1>4 DEF HsmInv, HsmDataOK
  <1>6. HandleInv(h)'
    <2>1. SourceInv(h)'
      BY <1>1, <1>2, <1>4 DEF HsmInv, HandleInv, SourceInv
    <2>2. FreshInv(h)' /\ NameInv(h)'
      BY <1>1, <1>4 DEF HsmInv, HandleInv, FreshInv, NameInv
    <2>3. ModeInv(h)'
      BY <1>1, <1>3, <1>4 DEF HsmInv, HandleInv, ModeInv
    <2> QED BY <2>1, <2>2, <2>3 DEF HandleInv
  <1>7. \A k \in Handles : k # h => HandleInv(k)'
    BY <1>4, OtherHandles
  <1>8. NullExplained'
    BY <1>4 DEF NullExplained, Null, NoCall
  <1> QED BY <1>5, <1>6, <1>7, <1>8 DEF HsmInv

(* A get that reads first: what is read is of the modem and of the pair    *)
(* the handle is configured for.                                           *)
LEMMA ReadingGetStep ==
    ASSUME HsmInv, NEW h \in Handles, Configured(h), NEW r \in Readings, Read(h, r),
           NEW new, hsm' = IF r = "failed" THEN hsm ELSE [hsm EXCEPT ![h] = new],
           NEW what \in {"cert", "key", "name"}, NEW c, Gives(h, what, c, r),
           c \in {hsm'[h].certificate, hsm'[h].common_name, hsm'[h].key},
           r = "failed" => c = None,
           r # "failed" /\ c = None => what = "name" /\ new.certificate # None /\ new.certificate.read = "holes",
           r # "failed" =>
               /\ new \in Info /\ new.conf = hsm[h].conf /\ new.signing_key = hsm[h].signing_key
               /\ \A cred \in {<<new.certificate, hsm[h].certificate>>, <<new.common_name, hsm[h].common_name>>,
                               <<new.key, hsm[h].key>>} :
                     cred[1] # cred[2] => cred[1].device = modem' /\ cred[1].signing = hsm[h].conf.signing
               /\ new.certificate = None => new.common_name = None
               /\ new.certificate # None /\ new.common_name = None => new.certificate.read = "holes"
    PROVE  HsmInv'
  <1>1. hsm[h] \in Info /\ hsm[h] # None /\ hsm[h].conf # None /\ HandleInv(h)
    BY DEF HsmInv, HsmDataOK, Configured
  <1>2. modem' \in Devices \cup {None} /\ (modem # None => modem' = modem)
    BY OpenedIsStable DEF Read
  <1>3. CASE r = "failed"
    <2>1. hsm' = hsm /\ c = None
      BY <1>3
    <2>2. /\ given' \in [Handles -> SUBSET Gifts]
          /\ twice' = twice
          /\ \A k \in Handles : given'[k] = given[k]
          /\ out' = Null(h, what, r)
      BY <2>1 DEF Gives, HsmInv, HsmDataOK
    <2>3. HsmDataOK'
      BY <1>2, <2>1, <2>2 DEF HsmInv, HsmDataOK
    <2>4. \A k \in Handles : HandleInv(k)'
      BY <1>2, <2>1, <2>2, OtherHandles
    <2>5. NullExplained'
      BY <1>3, <2>2 DEF NullExplained, Null
    <2> QED BY <2>3, <2>4, <2>5 DEF HsmInv
  <1>4. CASE r # "failed"
    <2>1. hsm' = [hsm EXCEPT ![h] = new] /\ modem' \in Devices /\ new # None
      BY <1>2, <1>4, NoneAssumption DEF Read
    <2>2. hsm'[h] = new /\ \A k \in Handles : k # h => hsm'[k] = hsm[k]
      BY <2>1 DEF HsmInv, HsmDataOK
    <2>3. /\ new.certificate # None => new.certificate.device = modem'
          /\ new.common_name # None => new.common_name.device = modem'
          /\ new.key # None => new.key.device = modem'
          /\ \A g \in given[h] : g.device = modem'
      <3>1. CASE modem # None
        BY <1>1, <1>2, <1>4, <3>1 DEF HandleInv, SourceInv
      <3>2. CASE modem = None
        <4>1. hsm[h].certificate = None /\ hsm[h].common_name = None /\ hsm[h].key = None
          BY <1>1, <3>2, NoneAssumption DEF HandleInv, SourceInv, Info
        <4>2. given[h] = {}
          BY <1>1, <3>2, NoneAssumption DEF HandleInv, SourceInv, HsmInv, HsmDataOK, Gifts
        <4> QED BY <1>4, <4>1, <4>2
      <3> QED BY <3>1, <3>2
    <2>4. c # None => c.device = modem' /\ c.device \in Devices /\ c.signing \in BOOLEAN
      BY <1>4, <2>1, <2>2, <2>3 DEF Info
    <2>5. /\ given' \in [Handles -> SUBSET Gifts]
          /\ twice' = twice
          /\ \A k \in Handles : k # h => given'[k] = given[k]
          /\ given[h] \subseteq given'[h]
          /\ \A g \in given'[h] \ given[h] : c # None /\ g.device = c.device /\ g.signing = c.signing
          /\ out' = IF c = None THEN Null(h, what, r) ELSE NoCall
      BY <2>4, GivesEffect
    <2>6. HsmDataOK'
      BY <1>2, <1>4, <2>1, <2>5 DEF HsmInv, HsmDataOK
    <2>7. SourceInv(h)'
      BY <2>2, <2>3, <2>4, <2>5 DEF SourceInv
    <2>8. FreshInv(h)' /\ NameInv(h)'
      BY <1>1, <1>4, <2>1, <2>2 DEF FreshInv, NameInv
    <2>9. ModeInv(h)'
      <3> SUFFICES ASSUME h \notin twice PROVE ModeInv(h)'
        BY <2>5 DEF ModeInv
      <3>1. /\ new.certificate # None => new.certificate.signing = hsm[h].conf.signing
            /\ new.common_name # None => new.common_name.signing = hsm[h].conf.signing
            /\ new.key # None => new.key.signing = hsm[h].conf.signing
            /\ new.signing_key = TRUE => hsm[h].conf.signing = TRUE
            /\ \A g \in given[h] : g.signing = hsm[h].conf.signing
        BY <1>1, <1>4 DEF HandleInv, ModeInv
      <3>2. c # None => c.signing = hsm[h].conf.signing
        BY <2>2, <3>1
      <3> QED BY <1>4, <2>2, <2>5, <3>1, <3>2 DEF ModeInv
    <2>10. \A k \in Handles : k # h => HandleInv(k)'
      BY <1>2, <2>2, <2>5, OtherHandles
    <2>11. NullExplained'
      BY <1>4, <2>2, <2>5 DEF NullExplained, Null, NoCall
    <2> QED BY <2>6, <2>7, <2>8, <2>9, <2>10, <2>11 DEF HsmInv, HandleInv
  <1> QED BY <1>3, <1>4

(* populate_cert and the certificate or the name of what it has read.      *)
LEMMA PopulateCertStep ==
    ASSUME HsmInv, NEW h \in Handles, Configured(h), hsm[h].certificate = None,
           NEW r \in Readings, populate_cert(h, r),
           \/ Gives(h, "cert", hsm'[h].certificate, r)
           \/ Gives(h, "name", hsm'[h].common_name, r)
    PROVE  HsmInv'
  <1>1. hsm[h] \in Info /\ hsm[h].conf \in Configs /\ hsm[h].common_name = None
    BY DEF HsmInv, HsmDataOK, Configured, Info, HandleInv, NameInv
  <1> DEFINE cert == [device |-> modem', signing |-> hsm[h].conf.signing, read |-> r]
             name == subjectName(h, r)
             new  == [hsm[h] EXCEPT !.certificate = cert, !.common_name = name]
  <1>2. Read(h, r) /\ hsm' = IF r = "failed" THEN hsm ELSE [hsm EXCEPT ![h] = new]
    BY DEF populate_cert
  <1>3. r # "failed" => modem' \in Devices
    BY <1>2, OpenedIsStable DEF Read
  <1>4. r # "failed" => cert \in Certs /\ cert # None
    BY <1>1, <1>3, NoneAssumption
  <1>5. cert.device = modem' /\ cert.signing = hsm[h].conf.signing /\ cert.read = r
    OBVIOUS
  <1>6. r = "whole" => /\ name \in Credentials /\ name # None
                       /\ name.device = modem' /\ name.signing = hsm[h].conf.signing
    BY <1>1, <1>3, NoneAssumption DEF subjectName
  <1>7. r = "holes" => name = None
    BY <1>1 DEF subjectName
  <1> HIDE DEF cert, name
  <1>8. r # "failed" =>
            /\ new \in Info /\ new.conf = hsm[h].conf /\ new.signing_key = hsm[h].signing_key
            /\ new.certificate = cert /\ new.common_name = name /\ new.key = hsm[h].key
    BY <1>1, <1>4, <1>6, <1>7 DEF Info
  <1> HIDE DEF new
  <1>9. r = "failed" => hsm'[h].certificate = None /\ hsm'[h].common_name = None
    BY <1>1, <1>2
  <1>10. r # "failed" => hsm'[h] = new
    BY <1>2 DEF HsmInv, HsmDataOK
  <1>11. r # "failed" =>
            /\ new \in Info /\ new.conf = hsm[h].conf /\ new.signing_key = hsm[h].signing_key
            /\ \A cred \in {<<new.certificate, hsm[h].certificate>>, <<new.common_name, hsm[h].common_name>>,
                            <<new.key, hsm[h].key>>} :
                  cred[1] # cred[2] => cred[1].device = modem' /\ cred[1].signing = hsm[h].conf.signing
            /\ new.certificate # None
            /\ new.common_name = None => new.certificate.read = "holes"
    BY <1>1, <1>4, <1>5, <1>6, <1>7, <1>8
  <1>12. CASE Gives(h, "cert", hsm'[h].certificate, r)
    BY <1>2, <1>9, <1>10, <1>11, <1>12, ReadingGetStep
  <1>13. CASE Gives(h, "name", hsm'[h].common_name, r)
    BY <1>2, <1>9, <1>10, <1>11, <1>13, ReadingGetStep
  <1> QED BY <1>12, <1>13

(* populate_key and the key it has read.                                   *)
LEMMA PopulateKeyStep ==
    ASSUME HsmInv, NEW h \in Handles, Configured(h), hsm[h].key = None, ~hsm[h].conf.signing,
           NEW r \in Readings, populate_key(h, r), Gives(h, "key", hsm'[h].key, r)
    PROVE  HsmInv'
  <1>1. /\ hsm[h] \in Info /\ hsm[h].conf \in Configs /\ hsm[h].conf.signing = FALSE
        /\ hsm[h].certificate = None => hsm[h].common_name = None
        /\ hsm[h].certificate # None /\ hsm[h].common_name = None => hsm[h].certificate.read = "holes"
    BY DEF HsmInv, HsmDataOK, Configured, Info, HandleInv, NameInv
  <1> DEFINE key == Credential(modem', FALSE)
             new == [hsm[h] EXCEPT !.key = key]
  <1>2. Read(h, r) /\ hsm' = IF r = "failed" THEN hsm ELSE [hsm EXCEPT ![h] = new]
    BY DEF populate_key
  <1>3. r # "failed" => modem' \in Devices
    BY <1>2, OpenedIsStable DEF Read
  <1>4. r # "failed" => key \in Credentials /\ key # None /\ key.device = modem' /\ key.signing = FALSE
    <2>1. r # "failed" => key \in Credentials
      BY <1>3
    <2>2. key.device = modem' /\ key.signing = FALSE
      OBVIOUS
    <2> QED BY <2>1, <2>2, NoneAssumption
  <1> HIDE DEF key
  <1>5. r # "failed" =>
            /\ new \in Info /\ new.conf = hsm[h].conf /\ new.signing_key = hsm[h].signing_key
            /\ new.certificate = hsm[h].certificate /\ new.common_name = hsm[h].common_name /\ new.key = key
    BY <1>1, <1>4 DEF Info
  <1> HIDE DEF new
  <1>6. r = "failed" => hsm'[h].key = None
    BY <1>2
  <1>7. r # "failed" => hsm'[h] = new
    BY <1>2 DEF HsmInv, HsmDataOK
  <1>8. r # "failed" =>
            /\ \A cred \in {<<new.certificate, hsm[h].certificate>>, <<new.common_name, hsm[h].common_name>>,
                            <<new.key, hsm[h].key>>} :
                  cred[1] # cred[2] => cred[1].device = modem' /\ cred[1].signing = hsm[h].conf.signing
            /\ hsm'[h].key # None
    BY <1>1, <1>4, <1>5, <1>7
  <1>9. r # "failed" =>
            /\ new.certificate = None => new.common_name = None
            /\ new.certificate # None /\ new.common_name = None => new.certificate.read = "holes"
    BY <1>1, <1>5
  <1> QED BY <1>2, <1>5, <1>6, <1>8, <1>9, ReadingGetStep

(* custom_hsm_get_certificate, custom_hsm_get_common_name and              *)
(* custom_hsm_get_key.                                                     *)
LEMMA GetStep ==
    ASSUME HsmInv, NEW h \in Handles,
           custom_hsm_get_certificate(h) \/ custom_hsm_get_common_name(h) \/ custom_hsm_get_key(h)
    PROVE  HsmInv'
  <1>1. CASE custom_hsm_get_certificate(h)
    <2>1. CASE UNCHANGED <<modem, hsm>> /\ hsm[h].certificate # None /\ Gives(h, "cert", hsm[h].certificate, "cached")
      BY <1>1, <2>1, CachedGetStep DEF custom_hsm_get_certificate
    <2> QED BY <1>1, <2>1, PopulateCertStep DEF custom_hsm_get_certificate
  <1>2. CASE custom_hsm_get_common_name(h)
    <2>1. CASE /\ UNCHANGED <<modem, hsm>>
               /\ hsm[h].common_name # None \/ hsm[h].certificate # None
               /\ Gives(h, "name", hsm[h].common_name, "cached")
      <3>1. hsm[h] # None /\ NameInv(h)
        BY <1>2 DEF custom_hsm_get_common_name, Configured, HsmInv, HandleInv
      <3>2. hsm[h].common_name # None \/ (hsm[h].certificate # None /\ hsm[h].certificate.read = "holes")
        BY <2>1, <3>1 DEF NameInv
      <3> QED BY <1>2, <2>1, <3>2, CachedGetStep DEF custom_hsm_get_common_name
    <2> QED BY <1>2, <2>1, PopulateCertStep DEF custom_hsm_get_common_name
  <1>3. CASE custom_hsm_get_key(h)
    <2>1. CASE UNCHANGED <<modem, hsm>> /\ Gives(h, "key", None, "mode")
      BY <1>3, <2>1, CachedGetStep DEF custom_hsm_get_key
    <2>2. CASE UNCHANGED <<modem, hsm>> /\ hsm[h].key # None /\ Gives(h, "key", hsm[h].key, "cached")
      BY <1>3, <2>2, CachedGetStep DEF custom_hsm_get_key
    <2> QED BY <1>3, <2>1, <2>2, PopulateKeyStep DEF custom_hsm_get_key
  <1> QED BY <1>1, <1>2, <1>3

(* custom_hsm_get_key_cryptodev: callbacks instead of a key.               *)
LEMMA CryptodevStep == ASSUME HsmInv, NEW h \in Handles, custom_hsm_get_key_cryptodev(h) PROVE HsmInv'
  <1> USE DEF custom_hsm_get_key_cryptodev
  <1>1. UNCHANGED <<given, twice>> /\ out' \in {NoCall, Null(h, "cryptodev", "mode")} /\ Configured(h)
    OBVIOUS
  <1>2. NullExplained'
    BY <1>1 DEF NullExplained, Null
  <1>3. CASE UNCHANGED <<modem, hsm>>
    <2>1. HsmDataOK'
      BY <1>1, <1>3 DEF HsmInv, HsmDataOK
    <2>2. \A k \in Handles : HandleInv(k)'
      BY <1>1, <1>3, OtherHandles
    <2> QED BY <1>2, <2>1, <2>2 DEF HsmInv
  <1>4. CASE hsm[h].conf.signing /\ populate_signing_key(h)
    <2> DEFINE new == [hsm[h] EXCEPT !.signing_key = TRUE]
    <2>1. hsm[h] \in Info /\ hsm[h].conf \in Configs /\ hsm[h] # None /\ hsm[h].conf # None
      BY <1>1 DEF HsmInv, HsmDataOK, Configured, Info
    <2>2. hsm' = [hsm EXCEPT ![h] = new] /\ modem' \in Opened(h)
      BY <1>4 DEF populate_signing_key
    <2>3. /\ new \in Info /\ new.conf = hsm[h].conf /\ new.signing_key = TRUE
          /\ new.certificate = hsm[h].certificate /\ new.common_name = hsm[h].common_name
          /\ new.key = hsm[h].key
      BY <2>1 DEF Info
    <2> HIDE DEF new
    <2>4. hsm'[h] = new /\ \A k \in Handles : k # h => hsm'[k] = hsm[k]
      BY <2>2 DEF HsmInv, HsmDataOK
    <2>5. modem' \in Devices \cup {None} /\ (modem # None => modem' = modem)
      BY <1>1, <2>2, OpenedIsStable
    <2>6. HsmDataOK'
      BY <1>1, <2>2, <2>3, <2>5 DEF HsmInv, HsmDataOK
    <2>7. new # None /\ hsm[h].conf.signing = TRUE
      BY <1>4, <2>1, <2>3, NoneAssumption
    <2>8. SourceInv(h)'
      <3>1. CASE modem # None
        BY <1>1, <2>1, <2>3, <2>4, <2>5, <3>1 DEF HsmInv, HandleInv, SourceInv
      <3>2. CASE modem = None
        <4>1. hsm[h].certificate = None /\ hsm[h].common_name = None /\ hsm[h].key = None
          BY <2>1, <3>2, NoneAssumption DEF HsmInv, HandleInv, SourceInv, Info
        <4>2. given[h] = {}
          BY <3>2, NoneAssumption DEF HandleInv, SourceInv, HsmInv, HsmDataOK, Gifts
        <4> QED BY <1>1, <2>3, <2>4, <4>1, <4>2 DEF SourceInv
      <3> QED BY <3>1, <3>2
    <2>9. FreshInv(h)' /\ NameInv(h)' /\ ModeInv(h)'
      BY <1>1, <2>1, <2>3, <2>4, <2>7 DEF HsmInv, HandleInv, FreshInv, NameInv, ModeInv
    <2>10. \A k \in Handles : k # h => HandleInv(k)'
      BY <1>1, <2>4, <2>5, OtherHandles
    <2> QED BY <1>2, <2>6, <2>8, <2>9, <2>10 DEF HsmInv, HandleInv
  <1> QED BY <1>3, <1>4

(* The callbacks of the signing key.                                       *)
LEMMA UseSigningKeyStep == ASSUME HsmInv, NEW h \in Handles, UseSigningKey(h) PROVE HsmInv'
  <1> USE DEF UseSigningKey
  <1> DEFINE g0 == [what |-> "key", device |-> modem, signing |-> TRUE]
  <1>1. g0 \in Gifts /\ g0.device = modem /\ g0.signing = TRUE
    BY DEF HsmInv, HsmDataOK, Gifts
  <1>2. given' = [given EXCEPT ![h] = given[h] \cup {g0}] /\ UNCHANGED <<modem, hsm, twice>>
    OBVIOUS
  <1> HIDE DEF g0
  <1>3. given'[h] = given[h] \cup {g0} /\ \A k \in Handles : k # h => given'[k] = given[k]
    BY <1>2 DEF HsmInv, HsmDataOK
  <1>4. HsmDataOK'
    BY <1>1, <1>2 DEF HsmInv, HsmDataOK
  <1>5. hsm[h].signing_key = TRUE /\ hsm[h] # None
    BY DEF HsmInv, HsmDataOK, Info
  <1>6. HandleInv(h)'
    <2>1. HandleInv(h)
      BY DEF HsmInv
    <2>2. SourceInv(h)' /\ NameInv(h)'
      BY <1>1, <1>2, <1>3, <2>1 DEF HandleInv, SourceInv, NameInv
    <2>3. FreshInv(h)'
      BY <1>2, <1>5, <2>1 DEF HandleInv, FreshInv
    <2>4. ModeInv(h)'
      BY <1>1, <1>2, <1>3, <1>5, <2>1 DEF HandleInv, ModeInv
    <2> QED BY <2>2, <2>3, <2>4 DEF HandleInv
  <1>7. \A k \in Handles : k # h => HandleInv(k)'
    BY <1>2, <1>3, OtherHandles
  <1>8. NullExplained'
    BY DEF NullExplained
  <1> QED BY <1>4, <1>6, <1>7, <1>8 DEF HsmInv

(* Anything the Azure SDK asks a handle for.                               *)
LEMMA AskStep == ASSUME HsmInv, NEW h \in Handles, Ask(h) PROVE HsmInv'
  BY GetStep, CryptodevStep, UseSigningKeyStep DEF Ask, hsm_signing_sign, hsm_signing_decrypt

(* What asking leaves alone: handles, their configurations and, once it is *)
(* set, the modem.                                                         *)
LEMMA AskFrame ==
    ASSUME HsmInv, NEW h \in Handles, Ask(h)
    PROVE  /\ UNCHANGED twice
           /\ live' = live
           /\ \A k \in live : hsm'[k].conf = hsm[k].conf
           /\ modem # None => modem' = modem
  <1>1. CASE UNCHANGED <<modem, hsm, twice>>
    BY <1>1 DEF live
  <1>2. ASSUME Configured(h), modem' \in Opened(h), UNCHANGED twice,
               NEW new, new \in Info, new.conf = hsm[h].conf, hsm' \in {hsm, [hsm EXCEPT ![h] = new]}
        PROVE  /\ UNCHANGED twice
               /\ live' = live
               /\ \A k \in live : hsm'[k].conf = hsm[k].conf
               /\ modem # None => modem' = modem
    <2>1. modem # None => modem' = modem
      BY <1>2, OpenedIsStable
    <2>2. new # None /\ hsm[h] # None
      BY <1>2, NoneAssumption DEF Configured
    <2>3. \A k \in Handles : hsm'[k] = hsm[k] \/ (k = h /\ hsm'[k] = new)
      <3>1. CASE hsm' = hsm
        BY <3>1
      <3>2. CASE hsm' = [hsm EXCEPT ![h] = new]
        BY <3>2 DEF HsmInv, HsmDataOK
      <3> QED BY <1>2, <3>1, <3>2
    <2>4. live' = live
      BY <2>2, <2>3 DEF live
    <2> QED BY <1>2, <2>1, <2>3, <2>4 DEF live
  <1>3. ASSUME Configured(h), NEW r \in Readings, populate_cert(h, r), UNCHANGED twice
        PROVE  /\ UNCHANGED twice
               /\ live' = live
               /\ \A k \in live : hsm'[k].conf = hsm[k].conf
               /\ modem # None => modem' = modem
    <2>1. hsm[h] \in Info /\ hsm[h].conf \in Configs
      BY <1>3 DEF HsmInv, HsmDataOK, Configured, Info
    <2> DEFINE cert == [device |-> modem', signing |-> hsm[h].conf.signing, read |-> r]
               name == subjectName(h, r)
               new  == [hsm[h] EXCEPT !.certificate = cert, !.common_name = name]
    <2>2. modem' \in Opened(h) /\ hsm' = IF r = "failed" THEN hsm ELSE [hsm EXCEPT ![h] = new]
      BY <1>3 DEF populate_cert, Read
    <2>3. CASE r = "failed"
      BY <1>2, <1>3, <2>1, <2>2, <2>3
    <2>4. CASE r # "failed"
      <3>1. modem' \in Devices
        BY <1>3, <2>2, <2>4, OpenedIsStable DEF populate_cert, Read
      <3>2. cert \in Certs /\ name \in Credentials \cup {None}
        BY <2>1, <2>4, <3>1 DEF subjectName, Info
      <3> HIDE DEF cert, name
      <3>3. new \in Info /\ new.conf = hsm[h].conf
        BY <2>1, <3>2 DEF Info
      <3> HIDE DEF new
      <3> QED BY <1>2, <1>3, <2>2, <2>4, <3>3
    <2> QED BY <2>3, <2>4
  <1>4. ASSUME Configured(h), NEW r \in Readings, populate_key(h, r), UNCHANGED twice
        PROVE  /\ UNCHANGED twice
               /\ live' = live
               /\ \A k \in live : hsm'[k].conf = hsm[k].conf
               /\ modem # None => modem' = modem
    <2>1. hsm[h] \in Info
      BY <1>4 DEF HsmInv, HsmDataOK, Configured
    <2> DEFINE key == Credential(modem', FALSE)
               new == [hsm[h] EXCEPT !.key = key]
    <2>2. modem' \in Opened(h) /\ hsm' = IF r = "failed" THEN hsm ELSE [hsm EXCEPT ![h] = new]
      BY <1>4 DEF populate_key, Read
    <2>3. CASE r = "failed"
      BY <1>2, <1>4, <2>1, <2>2, <2>3
    <2>4. CASE r # "failed"
      <3>1. modem' \in Devices
        BY <1>4, <2>2, <2>4, OpenedIsStable DEF populate_key, Read
      <3>2. key \in Credentials
        BY <3>1
      <3> HIDE DEF key
      <3>3. new \in Info /\ new.conf = hsm[h].conf
        BY <2>1, <3>2 DEF Info
      <3> HIDE DEF new
      <3> QED BY <1>2, <1>4, <2>2, <2>4, <3>3
    <2> QED BY <2>3, <2>4
  <1>5. ASSUME Configured(h), populate_signing_key(h), UNCHANGED twice
        PROVE  /\ UNCHANGED twice
               /\ live' = live
               /\ \A k \in live : hsm'[k].conf = hsm[k].conf
               /\ modem # None => modem' = modem
    <2> DEFINE new == [hsm[h] EXCEPT !.signing_key = TRUE]
    <2>1. hsm[h] \in Info
      BY <1>5 DEF HsmInv, HsmDataOK, Configured
    <2>2. modem' \in Opened(h) /\ hsm' = [hsm EXCEPT ![h] = new]
      BY <1>5 DEF populate_signing_key
    <2>3. new \in Info /\ new.conf = hsm[h].conf
      BY <2>1 DEF Info
    <2> HIDE DEF new
    <2> QED BY <1>2, <1>5, <2>2, <2>3
  <1>6. UNCHANGED twice
    BY DEF Ask, custom_hsm_get_certificate, custom_hsm_get_common_name, custom_hsm_get_key,
       custom_hsm_get_key_cryptodev, hsm_signing_sign, hsm_signing_decrypt, UseSigningKey, Gives
  <1>7. \/ UNCHANGED <<modem, hsm>>
        \/ Configured(h) /\ \E r \in Readings : populate_cert(h, r) \/ populate_key(h, r)
        \/ Configured(h) /\ populate_signing_key(h)
    BY DEF Ask, custom_hsm_get_certificate, custom_hsm_get_common_name, custom_hsm_get_key,
       custom_hsm_get_key_cryptodev, hsm_signing_sign, hsm_signing_decrypt, UseSigningKey
  <1> QED BY <1>1, <1>3, <1>4, <1>5, <1>6, <1>7

(* What the other operations on handles leave alone.                       *)
LEMMA CreateFrame ==
    ASSUME HsmInv, NEW h \in Handles, custom_hsm_create(h)
    PROVE  /\ UNCHANGED <<modem, twice, given>> /\ live' = live \cup {h}
           /\ hsm'[h].conf = None /\ \A k \in live : hsm'[k] = hsm[k]
  <1> USE DEF custom_hsm_create
  <1> DEFINE new == [conf |-> None, certificate |-> None, common_name |-> None, key |-> None, signing_key |-> FALSE]
  <1>1. hsm' = [hsm EXCEPT ![h] = new] /\ new \in Info /\ new.conf = None /\ hsm[h] = None
    BY DEF Info
  <1> HIDE DEF new
  <1>2. hsm'[h] = new /\ \A k \in Handles : k # h => hsm'[k] = hsm[k]
    BY <1>1 DEF HsmInv, HsmDataOK
  <1> QED BY <1>1, <1>2, NoneAssumption DEF live

(* The same of a handle that is destroyed.                                 *)
LEMMA DestroyFrame ==
    ASSUME HsmInv, NEW h \in Handles, custom_hsm_destroy(h)
    PROVE  /\ UNCHANGED modem /\ twice' \subseteq twice /\ live' = live \ {h}
           /\ \A k \in live' : hsm'[k] = hsm[k]
  BY DEF custom_hsm_destroy, live, HsmInv, HsmDataOK

(* The same of a handle that is configured.                                *)
LEMMA SetDataFrame ==
    ASSUME HsmInv, NEW h \in Handles, NEW c \in Configs, custom_hsm_set_data(h, c)
    PROVE  /\ UNCHANGED modem /\ live' = live /\ hsm'[h].conf = c
           /\ hsm[h].conf = None => twice' = twice
           /\ \A k \in live : k # h => hsm'[k] = hsm[k]
  <1> USE DEF custom_hsm_set_data
  <1> DEFINE new == [hsm[h] EXCEPT !.conf = c]
  <1>1. hsm[h] \in Info /\ hsm[h] # None /\ hsm' = [hsm EXCEPT ![h] = new]
    BY DEF HsmInv, HsmDataOK
  <1>2. new \in Info /\ new.conf = c
    BY <1>1 DEF Info
  <1> HIDE DEF new
  <1>3. hsm'[h] = new /\ \A k \in Handles : k # h => hsm'[k] = hsm[k]
    BY <1>1 DEF HsmInv, HsmDataOK
  <1> QED BY <1>1, <1>2, <1>3, NoneAssumption DEF live

(* Steps that leave the HSM alone.                                         *)
LEMMA HsmStutter == ASSUME HsmInv, UNCHANGED hsmVars PROVE HsmInv'
  BY DEF HsmInv, HsmDataOK, HandleInv, SourceInv, FreshInv, NameInv, ModeInv, NullExplained, live, hsmVars

(* The initial states of a program.                                        *)
LEMMA InitAzureInv == Init => AzureInv
  <1> SUFFICES ASSUME Init PROVE AzureInv
    OBVIOUS
  <1>1. HsmInv
    BY InitHsmInv DEF Init
  <1>2. live = {}
    BY DEF Init, HsmInit, live
  <1>3. ClientInv
    BY <1>2, ProgramsAssumption DEF Init, HsmInit, ClientInv, WhereInv, ConfigInv, RegisteredInv
  <1> QED BY <1>1, <1>3 DEF AzureInv

(* main, up to the first handle.                                           *)
LEMMA OptionsStep == ASSUME AzureInv, Options PROVE AzureInv'
  <1> USE DEF Options, Go, At
  <1>1. HsmInv' /\ live' = live
    BY HsmStutter DEF AzureInv, hsmVars, live
  <1>2. ClientInv'
    BY <1>1 DEF AzureInv, ClientInv, WhereInv, ConfigInv, RegisteredInv, hsmVars
  <1> QED BY <1>1, <1>2 DEF AzureInv

(* Steps of main, and callbacks, that touch neither the HSM, nor the       *)
(* configuration, nor what is registered.                                  *)
LEMMA QuietStep ==
    ASSUME AzureInv,
           \/ Go("create", "exit") \/ Go("register", "work") \/ Go("register", "destroy")
           \/ Go("work", "destroy") \/ Go("hub_create", "exit") \/ Go("hub_option", "hub_destroy")
           \/ Round \/ send_confirm_callback \/ UNCHANGED vars
    PROVE  AzureInv'
  <1>1. UNCHANGED <<hsmVars, program, config, registered>>
    BY DEF Go, Round, send_confirm_callback, vars, clientVars
  <1>2. HsmInv' /\ live' = live
    BY <1>1, HsmStutter DEF AzureInv, hsmVars, live
  <1>3. \/ pc' = pc
        \/ pc \in {"create", "hub_create"} /\ pc' = "exit"
        \/ pc \in {"register", "work"} /\ pc' \in {"work", "destroy"}
        \/ pc \in {"hub_option", "run"} /\ pc' = "hub_destroy"
    BY DEF Go, At, Round, send_confirm_callback, vars, clientVars
  <1>4. ClientInv'
    BY <1>1, <1>2, <1>3 DEF AzureInv, ClientInv, WhereInv, ConfigInv, RegisteredInv, hsmVars
  <1> QED BY <1>2, <1>4 DEF AzureInv

(* Making one of the two handles.                                          *)
LEMMA MakeHandleStep ==
    ASSUME AzureInv, NEW h \in {"prov", "hub"}, custom_hsm_create(h),
           UNCHANGED <<program, config, registered>>,
           \/ h = "prov" /\ pc = "create" /\ pc' = "option"
           \/ h = "hub" /\ pc = "hub_create" /\ pc' = "hub_option"
    PROVE  AzureInv'
  <1>1. h \in Handles
    BY HandlesAssumption
  <1>2. HsmInv'
    BY <1>1, CreateStep DEF AzureInv
  <1>3. UNCHANGED <<modem, twice>> /\ live' = live \cup {h} /\ hsm'[h].conf = None
    BY <1>1, CreateFrame DEF AzureInv
  <1>4. live = {}
    BY DEF AzureInv, ClientInv, WhereInv
  <1>5. ClientInv'
    BY <1>3, <1>4 DEF AzureInv, ClientInv, WhereInv, ConfigInv, RegisteredInv
  <1> QED BY <1>2, <1>5 DEF AzureInv

(* Configuring it.                                                         *)
LEMMA ConfigureHandleStep ==
    ASSUME AzureInv, NEW h \in {"prov", "hub"}, custom_hsm_set_data(h, config),
           UNCHANGED <<program, config, registered>>,
           \/ h = "prov" /\ pc = "option" /\ pc' = "register"
           \/ h = "hub" /\ pc = "hub_option" /\ pc' = "run"
    PROVE  AzureInv'
  <1>1. h \in Handles /\ config \in Configs /\ live = {h} /\ hsm[h].conf = None
    BY HandlesAssumption DEF AzureInv, ClientInv, WhereInv, ConfigInv
  <1>2. HsmInv'
    BY <1>1, SetDataStep DEF AzureInv
  <1>3. UNCHANGED <<modem, twice>> /\ live' = live /\ hsm'[h].conf = config
    BY <1>1, SetDataFrame DEF AzureInv
  <1>4. ClientInv'
    BY <1>1, <1>3 DEF AzureInv, ClientInv, WhereInv, ConfigInv, RegisteredInv
  <1> QED BY <1>2, <1>4 DEF AzureInv

(* Destroying it.                                                          *)
LEMMA DestroyHandleStep ==
    ASSUME AzureInv, NEW h \in {"prov", "hub"}, custom_hsm_destroy(h),
           UNCHANGED <<program, config, registered>>,
           \/ h = "prov" /\ pc = "destroy" /\ pc' \in {"hub_create", "exit"}
           \/ h = "hub" /\ pc = "hub_destroy" /\ pc' = "exit"
    PROVE  AzureInv'
  <1>1. h \in Handles /\ live = {h}
    BY HandlesAssumption DEF AzureInv, ClientInv, WhereInv
  <1>2. HsmInv'
    BY <1>1, DestroyStep DEF AzureInv
  <1>3. UNCHANGED modem /\ twice' \subseteq twice /\ live' = {}
    BY <1>1, DestroyFrame DEF AzureInv
  <1>4. ClientInv'
    BY <1>3 DEF AzureInv, ClientInv, WhereInv, ConfigInv, RegisteredInv
  <1> QED BY <1>2, <1>4 DEF AzureInv

(* The service registers the identity it was shown: by SourceInv and       *)
(* ModeInv that of the SIM and of the program's configuration.             *)
LEMMA RegisterStep == ASSUME AzureInv, register_device_callback PROVE AzureInv'
  <1> USE DEF register_device_callback
  <1>1. HsmInv' /\ live' = live /\ UNCHANGED <<modem, hsm, twice, program, pc, config>>
    BY HsmStutter DEF AzureInv, hsmVars, live
  <1>2. live = {"prov"} /\ program # "own" /\ twice = {} /\ config \in Configs /\ "prov" \in Handles
    BY HandlesAssumption DEF AzureInv, ClientInv, WhereInv, ConfigInv
  <1>3. ASSUME NEW c \in Credentials, Accepted(c)
        PROVE  modem # None /\ c = Credential(modem, config.signing)
    <2>1. hsm["prov"] # None /\ hsm["prov"].common_name = c /\ c # None
      BY <1>2, <1>3, NoneAssumption DEF live, Accepted
    <2>2. hsm["prov"].conf = config
      <3>1. given["prov"] # {}
        BY <1>3 DEF Accepted
      <3>2. hsm["prov"].conf # None
        BY <1>2, <2>1, <3>1 DEF AzureInv, HsmInv, HandleInv, FreshInv
      <3> QED BY <1>2, <3>2 DEF AzureInv, ClientInv, ConfigInv
    <2>3. c.device = modem
      BY <1>2, <2>1 DEF AzureInv, HsmInv, HandleInv, SourceInv
    <2>4. c.signing = config.signing
      <3>1. config # None
        BY <1>2, NoneAssumption
      <3> QED BY <1>2, <2>1, <2>2, <3>1 DEF AzureInv, HsmInv, HandleInv, ModeInv
    <2> QED BY <1>3, <2>3, <2>4, NoneAssumption
  <1>4. RegisteredInv'
    <2>1. registered' = registered \/ (modem # None /\ registered' = Credential(modem, config.signing))
      BY <1>3
    <2> QED BY <1>1, <1>2, <2>1 DEF AzureInv, ClientInv, RegisteredInv
  <1>5. ClientInv'
    BY <1>1, <1>4 DEF AzureInv, ClientInv, WhereInv, ConfigInv
  <1> QED BY <1>1, <1>5 DEF AzureInv

(* The Azure SDK asks a handle.                                            *)
LEMMA AzureAsksStep == ASSUME AzureInv, AzureAsks PROVE AzureInv'
  <1>1. PICK h \in Handles : Ask(h)
    BY HandlesAssumption DEF AzureAsks
  <1>2. HsmInv'
    BY <1>1, AskStep DEF AzureInv
  <1>3. /\ UNCHANGED twice /\ live' = live
        /\ \A k \in live : hsm'[k].conf = hsm[k].conf
        /\ modem # None => modem' = modem
    BY <1>1, AskFrame DEF AzureInv
  <1>4. UNCHANGED <<program, pc, config, registered>> /\ pc \in {"register", "work", "run"}
    BY DEF AzureAsks, clientVars
  <1>5. ClientInv'
    BY <1>3, <1>4 DEF AzureInv, ClientInv, WhereInv, ConfigInv, RegisteredInv
  <1> QED BY <1>2, <1>5 DEF AzureInv

(* A program of one's own does anything to any handle.                     *)
LEMMA UseInterfaceStep == ASSUME AzureInv, UseInterface PROVE AzureInv'
  <1>1. HsmInv'
    BY CreateStep, DestroyStep, SetDataStep, AskStep DEF UseInterface, AzureInv
  <1>2. UNCHANGED <<program, pc, config, registered>> /\ pc = "free"
    BY DEF UseInterface, clientVars
  <1>3. ClientInv'
    BY <1>2 DEF AzureInv, ClientInv, WhereInv, ConfigInv, RegisteredInv
  <1> QED BY <1>1, <1>3 DEF AzureInv

(* It ends with the use of a key whose handle it has destroyed.            *)
LEMMA UseOrphanStep == ASSUME AzureInv, UseOrphan PROVE AzureInv'
  <1>1. HsmInv'
    BY DestroyStep DEF UseOrphan, AzureInv, live
  <1>2. UNCHANGED <<program, config, registered>> /\ pc = "free" /\ pc' = "undefined"
    BY DEF UseOrphan, At
  <1>3. ClientInv'
    BY <1>2 DEF AzureInv, ClientInv, WhereInv, ConfigInv, RegisteredInv
  <1> QED BY <1>1, <1>3 DEF AzureInv

(* AzureInv is inductive: every step of every program and of the Azure SDK *)
(* keeps it.                                                               *)
LEMMA AzureStep == AzureInv /\ [Next]_vars => AzureInv'
  <1> SUFFICES ASSUME AzureInv, [Next]_vars PROVE AzureInv'
    OBVIOUS
  <1>1. CASE Options
    BY <1>1, OptionsStep
  <1>2. CASE ProvCreate
    BY <1>2, QuietStep, MakeHandleStep DEF ProvCreate, At
  <1>3. CASE ProvSetOption
    BY <1>3, ConfigureHandleStep DEF ProvSetOption, At
  <1>4. CASE RegisterDevice
    BY <1>4, QuietStep DEF RegisterDevice
  <1>5. CASE register_device_callback
    BY <1>5, RegisterStep
  <1>6. CASE WorkDone
    BY <1>6, QuietStep DEF WorkDone
  <1>7. CASE ProvDestroy
    BY <1>7, DestroyHandleStep DEF ProvDestroy, At
  <1>8. CASE HubCreate
    BY <1>8, QuietStep, MakeHandleStep DEF HubCreate, At
  <1>9. CASE HubSetOption
    BY <1>9, QuietStep, ConfigureHandleStep DEF HubSetOption, At
  <1>10. CASE Round \/ send_confirm_callback \/ UNCHANGED vars
    BY <1>10, QuietStep
  <1>11. CASE HubDestroy
    BY <1>11, DestroyHandleStep DEF HubDestroy, At
  <1>12. CASE AzureAsks
    BY <1>12, AzureAsksStep
  <1>13. CASE UseInterface
    BY <1>13, UseInterfaceStep
  <1>14. CASE UseOrphan
    BY <1>14, UseOrphanStep
  <1> QED
    BY <1>1, <1>2, <1>3, <1>4, <1>5, <1>6, <1>7, <1>8, <1>9, <1>10, <1>11, <1>12, <1>13, <1>14
       DEF Next, Main, Callback

----------------------------------------------------------------------------
(* In every reachable state of every program the inductive invariant holds. *)
THEOREM AzureInvariant == Spec => []AzureInv
  <1>1. Init => AzureInv
    BY InitAzureInv
  <1>2. AzureInv /\ [Next]_vars => AzureInv'
    BY AzureStep
  <1> QED BY <1>1, <1>2, PTL DEF Spec

(* A process has one SIM, whatever its handles are configured with: all    *)
(* that is handed out or signed with comes from the device tobInitialize   *)
(* opened first.                                                           *)
THEOREM OneSourceHolds == Spec => []OneSource
  <1>1. AzureInv => OneSource
    BY DEF AzureInv, HsmInv, HandleInv, SourceInv, OneSource, live
  <1> QED BY <1>1, AzureInvariant, PTL

(* A handle that was configured once hands out one key pair, however often *)
(* populate_cert and populate_key failed or were cut short in between.     *)
THEOREM PairBelongsHolds == Spec => []PairBelongs
  <1>1. AzureInv => PairBelongs
    <2> SUFFICES ASSUME AzureInv, NEW h \in live \ twice
                 PROVE  /\ \A g \in given[h] : g.signing = hsm[h].conf.signing
                        /\ hsm[h].common_name # None => hsm[h].common_name.signing = hsm[h].conf.signing
      BY DEF PairBelongs
    <2>1. h \in Handles /\ hsm[h] # None /\ HandleInv(h)
      BY DEF AzureInv, HsmInv, live
    <2>2. CASE hsm[h].conf = None
      BY <2>1, <2>2 DEF HandleInv, FreshInv, NameInv
    <2>3. CASE hsm[h].conf # None
      BY <2>1, <2>3 DEF HandleInv, ModeInv
    <2> QED BY <2>2, <2>3
  <1> QED BY <1>1, AzureInvariant, PTL

(* A get returns NULL only for its own failed reading, for the mode of the *)
(* handle, or for the name in a certificate that was read with holes.      *)
THEOREM NullExplainedHolds == Spec => []NullExplained
  <1>1. AzureInv => NullExplained
    BY DEF AzureInv, HsmInv
  <1> QED BY <1>1, AzureInvariant, PTL

(* The hub is shown the identity that was registered, through a second     *)
(* handle made after the first was destroyed.                              *)
THEOREM SameIdentityHolds == Spec => []SameIdentity
  <1>1. AzureInv => SameIdentity
    <2> SUFFICES ASSUME AzureInv, registered # None, NEW g \in given["hub"]
                 PROVE  Credential(g.device, g.signing) = registered
      BY DEF SameIdentity
    <2>1. "hub" \in Handles /\ HandleInv("hub")
      BY HandlesAssumption DEF AzureInv, HsmInv
    <2>2. hsm["hub"] # None /\ hsm["hub"].conf # None /\ "hub" \in live
      BY <2>1 DEF HandleInv, FreshInv, live
    <2>3. program # "own" /\ registered = Credential(modem, config.signing)
      BY DEF AzureInv, ClientInv, RegisteredInv
    <2>4. hsm["hub"].conf = config /\ twice = {}
      BY <2>2, <2>3 DEF AzureInv, ClientInv, ConfigInv
    <2>5. g.device = modem
      BY <2>1 DEF HandleInv, SourceInv
    <2>6. g.signing = config.signing
      BY <2>1, <2>2, <2>4 DEF HandleInv, ModeInv
    <2> QED BY <2>3, <2>5, <2>6
  <1> QED BY <1>1, AzureInvariant, PTL

(* Whichever step of registering or connecting fails, no program ends with *)
(* a handle left behind.                                                   *)
THEOREM NoHandleLeftHolds == Spec => []NoHandleLeft
  <1>1. AzureInv => NoHandleLeft
    BY DEF AzureInv, ClientInv, WhereInv, NoHandleLeft
  <1> QED BY <1>1, AzureInvariant, PTL

----------------------------------------------------------------------------
(* What is left of the types: the counters of main and the last get.       *)
CountersOK ==
    /\ program \in Programs
    /\ config \in Configs \cup {None}
    /\ complete \in 0 .. 2
    /\ sent \in Nat /\ accepted \in Nat /\ confirmed \in Nat
    /\ confirmed <= accepted /\ accepted <= sent /\ sent <= MESSAGE_COUNT

OutOK == out.read \in Readings \cup {"none", "cached", "mode"}

(* The counters: a message is confirmed after it was taken, taken when it  *)
(* is sent, and no more than MESSAGE_COUNT are sent.                       *)
LEMMA CountersStep == ASSUME CountersOK, [Next]_vars PROVE CountersOK'
  <1> USE DEF CountersOK
  <1>1. CASE Round
    BY <1>1, MessageCountAssumption DEF Round
  <1>2. CASE Main /\ UNCHANGED messageVars
    BY <1>2 DEF Main, Options, ProvCreate, ProvSetOption, RegisterDevice, WorkDone, ProvDestroy,
       HubCreate, HubSetOption, Round, HubDestroy, Go, messageVars
  <1>3. CASE Callback
    BY <1>3, MessageCountAssumption DEF Callback, register_device_callback, send_confirm_callback, messageVars
  <1>4. CASE UNCHANGED <<program, config, complete, messageVars>>
    BY <1>4 DEF messageVars
  <1>5. Main => Round \/ UNCHANGED messageVars
    BY DEF Main, Options, ProvCreate, ProvSetOption, RegisterDevice, WorkDone, ProvDestroy,
       HubCreate, HubSetOption, HubDestroy, Go
  <1> QED BY <1>1, <1>2, <1>3, <1>4, <1>5 DEF Next, AzureAsks, UseInterface, UseOrphan, vars, clientVars

(* A get reports how it read.                                              *)
LEMMA OutStep == ASSUME OutOK, [Next]_vars PROVE OutOK'
  <1> USE DEF OutOK
  <1>1. NoCall.read = "none" /\ \A h, op, r : Null(h, op, r).read = r
    BY DEF NoCall, Null
  <1>2. ASSUME NEW h, Ask(h)
        PROVE  OutOK'
    <2>1. ASSUME NEW what, NEW c, NEW r \in Readings \cup {"cached", "mode"}, Gives(h, what, c, r)
          PROVE  OutOK'
      BY <1>1, <2>1 DEF Gives
    <2>2. CASE custom_hsm_get_certificate(h) \/ custom_hsm_get_common_name(h) \/ custom_hsm_get_key(h)
      BY <2>1, <2>2 DEF custom_hsm_get_certificate, custom_hsm_get_common_name, custom_hsm_get_key
    <2>3. CASE custom_hsm_get_key_cryptodev(h) \/ UseSigningKey(h)
      BY <1>1, <2>3 DEF custom_hsm_get_key_cryptodev, UseSigningKey
    <2> QED BY <1>2, <2>2, <2>3 DEF Ask, hsm_signing_sign, hsm_signing_decrypt
  <1>3. ASSUME NEW h, custom_hsm_create(h) \/ custom_hsm_destroy(h) \/ \E c : custom_hsm_set_data(h, c)
        PROVE  OutOK'
    BY <1>1, <1>3 DEF custom_hsm_create, custom_hsm_destroy, custom_hsm_set_data
  <1>4. CASE UNCHANGED hsmVars
    BY <1>4 DEF hsmVars
  <1>5. CASE Main \/ Callback
    BY <1>3, <1>4, <1>5 DEF Main, Callback, Options, ProvCreate, ProvSetOption, RegisterDevice, WorkDone, ProvDestroy,
       HubCreate, HubSetOption, Round, HubDestroy, Go, register_device_callback, send_confirm_callback
  <1>6. CASE AzureAsks \/ UseInterface \/ UseOrphan
    BY <1>2, <1>3, <1>6 DEF AzureAsks, UseInterface, UseOrphan
  <1> QED BY <1>4, <1>5, <1>6 DEF Next, vars

(* Types: what a handle holds is what its fields are for, a handle that    *)
(* does not exist was not configured, and where main uses a handle it is   *)
(* there.                                                                  *)
THEOREM TypeOKHolds == Spec => []TypeOK
  <1>1. Init => CountersOK /\ OutOK
    BY MessageCountAssumption DEF Init, HsmInit, CountersOK, OutOK, NoCall
  <1>2. CountersOK /\ OutOK /\ [Next]_vars => CountersOK' /\ OutOK'
    BY CountersStep, OutStep
  <1>3. AzureInv /\ CountersOK /\ OutOK => TypeOK
    <2> SUFFICES ASSUME AzureInv, CountersOK, OutOK PROVE TypeOK
      OBVIOUS
    <2>1. HsmTypeOK
      BY DEF AzureInv, HsmInv, HsmDataOK, HandleInv, FreshInv, HsmTypeOK, OutOK, live
    <2>2. registered \in Credentials \cup {None}
      BY DEF AzureInv, HsmInv, HsmDataOK, ClientInv, RegisteredInv
    <2>3. (pc \in {"work", "register"} => hsm["prov"] # None) /\ (pc = "run" => hsm["hub"] # None)
      BY DEF AzureInv, ClientInv, WhereInv, live
    <2> QED BY <2>1, <2>2, <2>3 DEF AzureInv, ClientInv, CountersOK, TypeOK
  <1> QED BY <1>1, <1>2, <1>3, AzureInvariant, PTL DEF Spec
=============================================================================
