---------------------------- MODULE AzureClient ----------------------------
(***************************************************************************)
(* The programs that use the custom HSM through the Azure SDK: the         *)
(* registerer (tools/AzureDpsRegisterer.cpp), which provisions the device  *)
(* and ends; the temperature monitor (rpi_temp_monitor.c), which           *)
(* provisions it and then connects to the hub it was assigned; ll_client   *)
(* (ll_client.c), which sends messages to a known hub; and a program of    *)
(* one's own that uses the HSM's interface in any order.                   *)
(*                                                                         *)
(* The Azure SDK and its services are external: they create and destroy    *)
(* handles as told, ask a handle for what they need, in any order and as   *)
(* often as they like, and call back.                                      *)
(***************************************************************************)
EXTENDS AzureHsm

CONSTANTS
    Programs,         \* of the four above
    MESSAGE_COUNT     \* what ll_client sends

ASSUME ProgramsAssumption == Programs \subseteq {"registerer", "monitor", "ll_client", "own"}
ASSUME HandlesAssumption == {"prov", "hub"} \subseteq Handles
ASSUME MessageCountAssumption == MESSAGE_COUNT \in Nat \ {0}

VARIABLES
    program,
    pc,           \* where main is
    config,       \* hsmConfig, or the registerer's config
    complete,     \* registration_complete: 0, 1 (success), 2 (failure)
    sent,         \* ll_client: messages_sent
    accepted,     \* ll_client: messages the Azure SDK has taken
    confirmed,    \* ll_client: g_message_count_send_confirmations
    registered    \* history: the identity the service has registered

messageVars == <<sent, accepted, confirmed>>
clientVars  == <<program, pc, config, complete, messageVars, registered>>
vars        == <<hsmVars, clientVars>>

Init ==
    /\ HsmInit
    /\ program \in Programs
    /\ pc = IF program = "own" THEN "free" ELSE "start"
    /\ config = None /\ complete = 0
    /\ sent = 0 /\ accepted = 0 /\ confirmed = 0
    /\ registered = None

TypeOK ==
    /\ HsmTypeOK
    /\ program \in Programs
    /\ pc \in {"free", "start", "create", "option", "register", "work", "destroy",
               "hub_create", "hub_option", "run", "hub_destroy", "exit", "undefined"}
    /\ config \in Configs \cup {None} /\ complete \in 0 .. 2
    /\ confirmed <= accepted /\ accepted <= sent /\ sent <= MESSAGE_COUNT
    /\ registered \in Credentials \cup {None}
    /\ pc \in {"work", "register"} => hsm["prov"] # None
    /\ pc = "run" => hsm["hub"] # None

At(from, to) == pc = from /\ pc' = to

\* Main goes on without touching the HSM.
Go(from, to) == At(from, to) /\ UNCHANGED <<hsmVars, program, config, complete, messageVars, registered>>

\* main, up to the first handle: the options, or a usage message; the
\* monitor also needs its sensor and an ID scope.
Options ==
    \/ /\ At("start", IF program = "ll_client" THEN "hub_create" ELSE "create")
       /\ config' \in Configs
       /\ UNCHANGED <<hsmVars, program, complete, messageVars, registered>>
    \/ Go("start", "exit")

----------------------------------------------------------------------------
(* Provisioning: main of the registerer, provision_device of the monitor   *)

\* Prov_Device_LL_Create, which makes a handle of the HSM or fails.
ProvCreate ==
    \/ /\ At("create", "option")
       /\ custom_hsm_create("prov")
       /\ UNCHANGED <<program, config, complete, messageVars, registered>>
    \/ Go("create", "exit")

\* Prov_Device_LL_SetOption(PROV_HSM_CONFIG_DATA)
ProvSetOption ==
    /\ At("option", "register")
    /\ custom_hsm_set_data("prov", config)
    /\ UNCHANGED <<program, config, complete, messageVars, registered>>

\* Mutant: a registration that could not be started ends the program.
RegisterDeviceReturn == Go("register", "work") \/ Go("register", "exit")

\* Prov_Device_LL_Register_Device needs the name and may fail all the same.
RegisterDevice ==
    \/ /\ Go("register", "work")
       /\ hsm["prov"].common_name # None
    \/ Go("register", "destroy")

\* The service accepts who has shown a certificate and the key to it.
Accepted(c) ==
    /\ hsm["prov"].common_name = c
    /\ \A what \in {"cert", "key"} : [what |-> what, device |-> c.device, signing |-> c.signing] \in given["prov"]

\* Mutant: a failure is only reported.
CallbackNoFailure ==
    /\ pc = "work" /\ complete = 0
    /\ \E c \in Credentials : Accepted(c) /\ registered' = c
    /\ complete' = 1
    /\ UNCHANGED <<hsmVars, program, pc, config, messageVars>>

\* Called from Prov_Device_LL_DoWork.
register_device_callback ==
    /\ pc = "work" /\ complete = 0
    /\ \/ \E c \in Credentials : Accepted(c) /\ registered' = c /\ complete' = 1
       \/ complete' = 2 /\ UNCHANGED registered
    /\ UNCHANGED <<hsmVars, program, pc, config, messageVars>>

\* The loop around DoWork ends with registration_complete.
WorkDone == complete # 0 /\ Go("work", "destroy")

\* Prov_Device_LL_Destroy; only the monitor goes on, if it is registered.
ProvDestroy ==
    /\ At("destroy", IF program = "monitor" /\ complete = 1 THEN "hub_create" ELSE "exit")
    /\ custom_hsm_destroy("prov")
    /\ UNCHANGED <<program, config, complete, messageVars, registered>>

----------------------------------------------------------------------------
(* The hub: the second half of the monitor, and ll_client                  *)

\* IoTHubDeviceClient_LL_CreateFromConnectionString
HubCreate ==
    \/ /\ At("hub_create", "hub_option")
       /\ custom_hsm_create("hub")
       /\ UNCHANGED <<program, config, complete, messageVars, registered>>
    \/ Go("hub_create", "exit")

\* Mutant: the hub's handle gets the configuration the source starts with.
HubSetOptionDefault ==
    \/ /\ At("hub_option", "run")
       /\ custom_hsm_set_data("hub", [config EXCEPT !.signing = FALSE])
       /\ UNCHANGED <<program, config, complete, messageVars, registered>>
    \/ Go("hub_option", "hub_destroy")

\* IoTHubDeviceClient_LL_SetOption(OPTION_HSM_CONFIG_DATA)
HubSetOption ==
    \/ /\ At("hub_option", "run")
       /\ custom_hsm_set_data("hub", config)
       /\ UNCHANGED <<program, config, complete, messageVars, registered>>
    \/ Go("hub_option", "hub_destroy")

\* A round of ll_client's loop; the monitor's has no end.  A message that
\* IoTHubDeviceClient_LL_SendEventAsync refuses is counted like the others.
Round ==
    /\ pc = "run" /\ program = "ll_client"
    /\ \/ /\ sent < MESSAGE_COUNT
          /\ sent' = sent + 1
          /\ accepted' \in {accepted, accepted + 1}
          /\ UNCHANGED pc
       \/ /\ sent >= MESSAGE_COUNT /\ confirmed >= MESSAGE_COUNT
          /\ pc' = "hub_destroy"
          /\ UNCHANGED <<sent, accepted>>
    /\ UNCHANGED <<hsmVars, program, config, complete, confirmed, registered>>

\* Called from IoTHubDeviceClient_LL_DoWork, once for every message that was
\* taken, whether it is then delivered, rejected or times out.
send_confirm_callback ==
    /\ pc = "run" /\ confirmed < accepted
    /\ confirmed' = confirmed + 1
    /\ UNCHANGED <<hsmVars, program, pc, config, complete, sent, accepted, registered>>

HubDestroy ==
    /\ At("hub_destroy", "exit")
    /\ custom_hsm_destroy("hub")
    /\ UNCHANGED <<program, config, complete, messageVars, registered>>

----------------------------------------------------------------------------
\* The Azure SDK asks a handle while it registers or talks to the hub.
AzureAsks ==
    /\ \/ pc \in {"register", "work"} /\ complete = 0 /\ Ask("prov")
       \/ pc = "run" /\ Ask("hub")
    /\ UNCHANGED clientVars

\* A program that uses hsm_client_x509_interface() by itself.
UseInterface ==
    /\ pc = "free"
    /\ \E h \in Handles :
        \/ custom_hsm_create(h) \/ custom_hsm_destroy(h)
        \/ \E c \in Configs : custom_hsm_set_data(h, c)
        \/ Ask(h)
    /\ UNCHANGED clientVars

\* Such a program may destroy a handle and keep its signing key: when it uses
\* the key, sooner or later, the callbacks read the PIN from freed memory.
UseOrphan ==
    /\ At("free", "undefined")
    /\ \E h \in live : hsm[h].signing_key /\ custom_hsm_destroy(h)
    /\ UNCHANGED <<program, config, complete, messageVars, registered>>

Main ==
    \/ Options \/ ProvCreate \/ ProvSetOption \/ RegisterDevice \/ WorkDone \/ ProvDestroy
    \/ HubCreate \/ HubSetOption \/ Round \/ HubDestroy

Callback == register_device_callback \/ send_confirm_callback

Next == Main \/ Callback \/ AzureAsks \/ UseInterface \/ UseOrphan

\* Main goes on, and DoWork calls back in the end, if only with a failure,
\* for a registration and for every message it has taken.
Spec == Init /\ [][Next]_vars /\ WF_vars(Main) /\ WF_vars(Callback)

----------------------------------------------------------------------------
(* Properties                                                              *)

(* A process has one SIM: whatever the handles are configured with, all    *)
(* that any of them has handed out or signed with comes from the device    *)
(* that was opened first, since tobInitialize returns at once when _modem  *)
(* is set.  A certificate of one SIM never goes with a key of another.     *)
OneSource ==
    /\ \A h \in Handles : \A g \in given[h] : g.device = modem
    /\ \A h \in live : hsm[h].key # None => hsm[h].key.device = modem

(* A handle that was configured once hands out one key pair: certificate,  *)
(* name and key, read at different times, with failures and truncated      *)
(* readings in between, are all of the signing pair or all of the          *)
(* available pair.                                                         *)
PairBelongs ==
    \A h \in live \ twice :
        /\ \A g \in given[h] : g.signing = hsm[h].conf.signing
        /\ hsm[h].common_name # None => hsm[h].common_name.signing = hsm[h].conf.signing

(* A failure is not remembered: a get returns NULL only because the        *)
(* reading it has just made failed, because the handle has the other mode, *)
(* or because the name is asked for of a certificate that was read with    *)
(* holes and is cached.                                                    *)
NullExplained ==
    out # NoCall =>
        \/ out.read \in {"failed", "mode"}
        \/ /\ out.op = "name"
           /\ hsm[out.handle].certificate # None
           /\ hsm[out.handle].certificate.read = "holes"

(* The monitor connects to the hub as the device that it has registered:   *)
(* what the second handle gives out, long after the first was destroyed,   *)
(* is of the SIM and key pair of the registered identity.                  *)
SameIdentity ==
    registered # None => \A g \in given["hub"] : Credential(g.device, g.signing) = registered

(* No program leaves a handle behind, whichever step of registering or     *)
(* connecting fails.                                                       *)
NoHandleLeft == pc = "exit" => live = {}

(* The registerer ends, and the monitor ends or is connected, whatever     *)
(* fails: the loop on registration_complete is not endless.  ll_client     *)
(* ends when every message it sends is taken; it counts one that is        *)
(* refused too and then waits for ever for a confirmation nobody owes it.  *)
ProgramsEnd ==
    program # "own" ~> \/ pc = "exit"
                       \/ program = "monitor" /\ pc = "run"
                       \/ program = "ll_client" /\ pc = "run" /\ accepted < sent
=============================================================================
