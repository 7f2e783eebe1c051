------------------------------ MODULE AzureHsm ------------------------------
(***************************************************************************)
(* The custom HSM of the Azure SDK (src/TobAzureHsm.cpp): handles with a   *)
(* configuration and cached credentials, over one SDK that keeps the first *)
(* modem it has opened for the life of the process.                        *)
(*                                                                         *)
(* A credential is the device it was read from and the key pair it belongs *)
(* to: the signing one or the available one.  A reading of the SDK fails,  *)
(* is whole, or has holes (see ObjectRead); one with holes does not parse. *)
(***************************************************************************)
EXTENDS Naturals

CONSTANTS
    Handles,     \* TWILIO_TRUST_ONBOARD_HSM_INFO objects
    Devices,     \* device paths
    None         \* NULL

VARIABLES
    modem,    \* SDK: the device of _modem, or None
    hsm,      \* handle -> its structure, None when there is none
    given,    \* history: handle -> certificates and keys it has handed out or used
    twice,    \* history: handles that were configured more than once
    out       \* history: the last get, if it returned NULL

hsmVars == <<modem, hsm, given, twice, out>>

Configs     == [device : Devices, signing : BOOLEAN]
Credentials == [device : Devices, signing : BOOLEAN]
Certs       == [device : Devices, signing : BOOLEAN, read : {"whole", "holes"}]
Readings    == {"failed", "whole", "holes"}

Info == [conf : Configs \cup {None}, certificate : Certs \cup {None},
         common_name : Credentials \cup {None}, key : Credentials \cup {None},
         signing_key : BOOLEAN]

\* A pointer to something is not NULL.
ASSUME NoneAssumption == None \notin Devices \cup Configs \cup Credentials \cup Certs \cup Info

Gifts == [what : {"cert", "key"}, device : Devices, signing : BOOLEAN]

live == {h \in Handles : hsm[h] # None}

NoCall            == [handle |-> None, op |-> "none", read |-> "none"]
Null(h, op, read) == [handle |-> h, op |-> op, read |-> read]

HsmInit ==
    /\ modem = None
    /\ hsm = [h \in Handles |-> None]
    /\ given = [h \in Handles |-> {}]
    /\ twice = {}
    /\ out = NoCall

HsmTypeOK ==
    /\ modem \in Devices \cup {None}
    /\ hsm \in [Handles -> Info \cup {None}]
    /\ \A h \in Handles : given[h] \subseteq Gifts
    /\ twice \subseteq live
    /\ out.read \in Readings \cup {"none", "cached", "mode"}

----------------------------------------------------------------------------
\* custom_hsm_create: a zeroed structure.
custom_hsm_create(h) ==
    /\ hsm[h] = None
    /\ hsm' = [hsm EXCEPT ![h] = [conf |-> None, certificate |-> None, common_name |-> None,
                                  key |-> None, signing_key |-> FALSE]]
    /\ out' = NoCall
    /\ UNCHANGED <<modem, given, twice>>

\* custom_hsm_destroy: the signing key is not freed, and its callbacks point
\* to the structure that is: see UseOrphan of AzureClient.
custom_hsm_destroy(h) ==
    /\ hsm[h] # None
    /\ hsm' = [hsm EXCEPT ![h] = None]
    /\ twice' = twice \ {h}
    /\ given' = [given EXCEPT ![h] = {}]
    /\ out' = NoCall
    /\ UNCHANGED modem

\* custom_hsm_set_data: what has been cached stays.
custom_hsm_set_data(h, c) ==
    /\ hsm[h] # None
    /\ hsm' = [hsm EXCEPT ![h].conf = c]
    /\ twice' = IF hsm[h].conf = None THEN twice ELSE twice \cup {h}
    /\ out' = NoCall
    /\ UNCHANGED <<modem, given>>

----------------------------------------------------------------------------
(* Reading                                                                 *)

\* Mutant: every handle opens its own device.
OpenedOwnDevice(h) == {hsm[h].conf.device, None}

\* The device of _modem after tobInitialize(device_path): the one it has, or
\* the handle's if that can be opened.  The result is not looked at.
Opened(h) == IF modem # None THEN {modem} ELSE {hsm[h].conf.device, None}

\* tobInitialize and an extracting function, which fails without a modem.
Read(h, r) ==
    /\ modem' \in Opened(h)
    /\ r \in Readings
    /\ modem' = None => r = "failed"

Credential(d, s) == [device |-> d, signing |-> s]

\* subjectName: the name in the first certificate of what has been read.
subjectName(h, r) ==
    IF r = "whole" THEN Credential(modem', hsm[h].conf.signing) ELSE hsm[h].common_name

\* Mutant: the certificate is kept whatever the reading returned.
PopulateCertAlways(h, r) ==
    /\ Read(h, r)
    /\ hsm' = IF modem' = None THEN hsm
              ELSE [hsm EXCEPT ![h].certificate = [device |-> modem', signing |-> hsm[h].conf.signing, read |-> r],
                               ![h].common_name = subjectName(h, r)]

\* populate_cert without a certificate.
populate_cert(h, r) ==
    /\ Read(h, r)
    /\ hsm' = IF r = "failed" THEN hsm
              ELSE [hsm EXCEPT ![h].certificate = [device |-> modem', signing |-> hsm[h].conf.signing, read |-> r],
                               ![h].common_name = subjectName(h, r)]

\* populate_key without a key: the key that can be read is the available one.
populate_key(h, r) ==
    /\ Read(h, r)
    /\ hsm' = IF r = "failed" THEN hsm ELSE [hsm EXCEPT ![h].key = Credential(modem', FALSE)]

\* populate_signing_key: callbacks, which stay when there is no modem.
populate_signing_key(h) ==
    /\ modem' \in Opened(h)
    /\ hsm' = [hsm EXCEPT ![h].signing_key = TRUE]

----------------------------------------------------------------------------
(* What the Azure SDK calls                                                *)

Configured(h) == hsm[h] # None /\ hsm[h].conf # None

\* A get returns a copy of c, NULL if there is none.
Gives(h, what, c, read) ==
    /\ given' = IF c = None \/ what = "name" THEN given
                ELSE [given EXCEPT ![h] = @ \cup {[what |-> what, device |-> c.device, signing |-> c.signing]}]
    /\ out' = IF c = None THEN Null(h, what, read) ELSE NoCall
    /\ UNCHANGED twice

custom_hsm_get_certificate(h) ==
    /\ Configured(h)
    /\ \/ /\ hsm[h].certificate # None
          /\ Gives(h, "cert", hsm[h].certificate, "cached")
          /\ UNCHANGED <<modem, hsm>>
       \/ /\ hsm[h].certificate = None
          /\ \E r \in Readings : populate_cert(h, r) /\ Gives(h, "cert", hsm'[h].certificate, r)

\* With a certificate but no name populate_cert returns at once.
custom_hsm_get_common_name(h) ==
    /\ Configured(h)
    /\ \/ /\ hsm[h].common_name # None \/ hsm[h].certificate # None
          /\ Gives(h, "name", hsm[h].common_name, "cached")
          /\ UNCHANGED <<modem, hsm>>
       \/ /\ hsm[h].common_name = None /\ hsm[h].certificate = None
          /\ \E r \in Readings : populate_cert(h, r) /\ Gives(h, "name", hsm'[h].common_name, r)

\* Mutant: the key that can be read is handed out in signing mode too.
custom_hsm_get_key_any_mode(h) ==
    /\ Configured(h)
    /\ \/ hsm[h].key # None /\ Gives(h, "key", hsm[h].key, "cached") /\ UNCHANGED <<modem, hsm>>
       \/ hsm[h].key = None /\ \E r \in Readings : populate_key(h, r) /\ Gives(h, "key", hsm'[h].key, r)

custom_hsm_get_key(h) ==
    /\ Configured(h)
    /\ \/ /\ hsm[h].conf.signing
          /\ Gives(h, "key", None, "mode")
          /\ UNCHANGED <<modem, hsm>>
       \/ /\ ~hsm[h].conf.signing /\ hsm[h].key # None
          /\ Gives(h, "key", hsm[h].key, "cached")
          /\ UNCHANGED <<modem, hsm>>
       \/ /\ ~hsm[h].conf.signing /\ hsm[h].key = None
          /\ \E r \in Readings : populate_key(h, r) /\ Gives(h, "key", hsm'[h].key, r)

custom_hsm_get_key_cryptodev(h) ==
    /\ Configured(h)
    /\ \/ /\ ~hsm[h].conf.signing
          /\ out' = Null(h, "cryptodev", "mode")
          /\ UNCHANGED <<modem, hsm>>
       \/ /\ hsm[h].conf.signing
          /\ out' = NoCall
          /\ IF hsm[h].signing_key THEN UNCHANGED <<modem, hsm>> ELSE populate_signing_key(h)
    /\ UNCHANGED <<given, twice>>

\* The callbacks of the signing key, whose digest has a known length: they
\* use the signing key of the SIM the SDK talks to, if it talks to one.
UseSigningKey(h) ==
    /\ hsm[h] # None /\ hsm[h].signing_key
    /\ modem # None
    /\ given' = [given EXCEPT ![h] = @ \cup {[what |-> "key", device |-> modem, signing |-> TRUE]}]
    /\ out' = NoCall
    /\ UNCHANGED <<modem, hsm, twice>>

hsm_signing_sign(h)    == UseSigningKey(h)
hsm_signing_decrypt(h) == UseSigningKey(h)

\* Anything the Azure SDK asks a configured handle for.
Ask(h) ==
    \/ custom_hsm_get_certificate(h) \/ custom_hsm_get_common_name(h)
    \/ custom_hsm_get_key(h) \/ custom_hsm_get_key_cryptodev(h)
    \/ hsm_signing_sign(h) \/ hsm_signing_decrypt(h)
=============================================================================
