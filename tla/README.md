# A TLA+ model of the Trust Onboard SDK

This directory models the Breakout Trust Onboard SDK: the C++ code that reads
certificates and keys from a Trust Onboard SIM and signs and decrypts with the
key that never leaves it. Paths below are relative to the repository's root.
`PROJECT.json` lists, for every definition, the source lines it models.

## 1. The system

| Part | State | Operations | Where it gets hard |
|---|---|---|---|
| SIM card (external) | applet on each logical channel, verified PINs, PIN tries | MANAGE CHANNEL, SELECT, VERIFY, READ BINARY, PSO | keeps its state when the host dies, loses all but the tries on a reset |
| Modem / reader: `ATInterface`, `GenericModem`, `LSerial`, `Pcsc` | serial port | one APDU out, one answer back | lost commands, lost or late answers, leftovers of a dead program, a loop that may not end |
| `SEInterface` | one APDU buffer and one response buffer | `transmit` with the 61xx and 6Cxx repetitions | recursion, stale response after a failure |
| `Applet` (base of `MF`, `MIAS`) | `_seiface`, `_isSelected`, `_isBasic`, `_channel` | `closeAllChannels`, `init`, `select`, `deselect`, `transmit`, destructor | the flags and the card disagree after a loss |
| `MF` | - | `verifyPin`, `readEF`, `changePin` | chunked reading |
| `MIAS` | `_keypairs`, `_keypairs_num`, `_files` | `verifyPin`, `listKeyPairs`, `getKeyPairByContainerId`, `getCertificateByContainerId`, `p11GetObjectByLabel`, sign, decrypt, hash, `changePin` | a cache filled during losses, loops that step over losses, record numbering |
| SDK API (`src/BreakoutTrustOnboardSDK.cpp`) | `_mf`, `_mias`, `_modem` | `tobInitialize`, `tobInitializeWithInterface`, the certificate, key, sign, decrypt and length calls | every call is select, operation, deselect; a second reading under a legacy label |
| OpenSSL engine (`tools/OpenSSLEngine.cpp`) | `tob_ctx_t` with `sim_lock`, keys that point to it | init, finish, ctrl, load, sign, decrypt | several threads over an SDK that is not thread safe |
| Azure HSM (`src/TobAzureHsm.cpp`) | handles with a configuration and cached credentials | create, destroy, set, get, sign, decrypt | caches filled at different times, one SIM behind several handles |
| Azure programs (`AzureDpsRegisterer`, `rpi_temp_monitor`, `ll_client`) | where `main` is, `registration_complete`, counters | register, connect, send | loops that wait for callbacks, two handles one after the other |
| Conversions: base64, PEM, hexadecimal, TLV sizes, labels, PIN blocks | - | pure functions | lengths, uninitialised variables |
| mbedTLS keys, `TrustOnboardTool`, other samples | key contexts, - | set-up, sign, decrypt | bounded pool |

Calls go straight down: API -> applet -> `SEInterface` -> modem -> card. There
are no callbacks and no threads below the OpenSSL engine; concurrency comes
from the engine's callers, and from the card, which runs on (or is reset) while
the host waits or dies. A failed `transmit` does not tell the host whether the
card has run the command. That one fact causes most of the hazards.

What makes each part correct:

- *Applets*: commands reach the applet that was selected; channels do not leak.
- *SDK*: success means the object was delivered; PIN tries are spent only by a
  wrong PIN, at most one a call; whatever happened before, a call whose own
  exchanges are answered works; every call returns.
- *Key list*: the key found is the one asked for; the pool does not overflow.
- *Object reading*: the right object, no unexplained holes, loops that end.
- *Transport*: a command is run at most once, an answer is the answer to this
  command, `transmit` returns.
- *Engine*: one thread at a time in the SDK, no context freed under the thread
  that has its lock, the PIN is the one set last, the lock is always released.
- *Azure*: a certificate goes with its key, failures are not cached, the identity
  registered is the one used, no handle leaks, the programs end.
- *Conversions*: they compute what they are for, within the size they announce.

## 2. The modules

```
SimCard  <-  Applet  <-  TobSdk      <-  MCTobSdk,  TobSdkProofs
                     <-  AppletUser  <-  MCAppletUser,  AppletUserProofs
KeyCache  (implemented by)  MiasKeyPairs   <-  MCMiasKeyPairs,  MiasKeyPairsProofs
ApduExchange  (implemented by)  Transport  <-  MCTransport,  TransportProofs
ObjectRead                   <-  MCObjectRead,  ObjectReadProofs
OpenSSLEngine                <-  MCOpenSSLEngine,  OpenSSLEngineProofs
AzureHsm  <-  AzureClient    <-  MCAzureClient,  AzureClientProofs
Conversions                  <-  MCConversions,  ConversionsProofs
```

**SimCard** (external). `chan` maps a channel to the applet selected on it or to
`Closed`; `auth` holds the channels whose session has a verified PIN; `tries`
counts PIN tries. The operators are the card's reactions to the commands
`Applet.cpp` and `verifyPin` send.

**Applet** (`external_libs/tob_sim/common/src/Applet.cpp`). The variables
`isSelected`, `isBasic`, `channel` and `seiface` are the members of the two
objects. `pc` names the next exchange. Each `SEInterface::transmit` is one step
with three outcomes: `answered`; `lostReq`, where `transmit()` is false and the
card saw nothing; and `lostRsp`, where it is false and the card ran the command.
`SelClose`, `SelBasic`, `SelOpen`, `SelAid` and `SelUndo` are the exchanges of
`select()`, `DesClose` that of `deselect()`, `CloseAllStep` the loop of
`closeAllChannels()`. `select()` ignores what its own `deselect()` returned, as
in the code. `lost` is history: channels left open by a lost exchange.

**TobSdk** (`src/BreakoutTrustOnboardSDK.cpp`). Each API call is an action that
starts `select()`; the rest of the call is steps of `Applet` and of this module:
`SelectFails`, `getKeyPairByContainerId`, `verifyPin`, the reads,
`signInit`/`signFinal`, `decryptInit`/`decryptFinal`, `Leave` (the destructor of
`SelectionGuard`) and `Return`, which also starts the second reading under the
legacy label. `Exit` runs the static destructors, `Crash` does not, `CardResets`
can happen at any point. Functions that only read are one step with every result
they can have; `MiasKeyPairs` and `ObjectRead` take two of these apart. A `ret`
returned without having been assigned (`se_read_ef` when `select()` fails) is a
choice between 0 and another value.

**AppletUser**: a program that uses `MF` and `MIAS` without the SDK, as
`tests/BreakoutTrustOnboardLLTests.cpp` does; it may have both selected, also on
the basic channel.

**MiasKeyPairs** (`MIAS::listKeyPairs`, `getKeyPairByContainerId`), one step per
READ BINARY of CONTAINERS_INFO and FILE_DIR. `num` is `_keypairs_num`, from -1.
**KeyCache** is its abstract specification and describes the variable `keys` of
TobSdk: unknown, then fixed for the life of the process.

**ObjectRead**: the directory scan, label look-up and chunk loops of
`MIAS::p11GetObjectByLabel`, `MIAS::getCertificateByContainerId` and
`MF::readEF`. Consecutive exchanges that have the same way out are one step.

**Transport** (`SEInterface.cpp`, `ATInterface.cpp`, `GenericModem.cpp`,
`LSerial.cpp`, `Pcsc.cpp`). `transmit(k)` is a call of one of the four overloads;
`AwaitCsim` and `DrainOk` are the two loops of `sendATCSIM`, one step a line;
`HandleResponse` is the rest of `transmit` with its 61xx and 6Cxx repetitions,
which the card may ask for after any command, GET RESPONSE included; after 6Cxx to
a command with data the length of the data is wrong (`lc`). `PcscTransmit` is the
reader's way. Opening may fail, for whatever reason, and be tried again. The modem (external) works off the lines it
was sent in order, may lose the command or the answer, end it with `OK`, `ERROR`
or `+CME ERROR`, and put other lines in between. A program may die at any time
and the next one opens the port with what is there (`start`); `skew` records how
many answers were still to come. **ApduExchange** is the abstract specification:
the three outcomes `Applet` takes an exchange to have. Its `true` says nothing of a
command whose data length was overwritten (`spoilt`), and it is void in a program
that has found answers of a dead program (`tainted`).

**OpenSSLEngine** (`tools/OpenSSLEngine.cpp`): threads, contexts, `sim_lock`, PINs
and keys. OpenSSL (external) calls `tob_engine_init` for the first functional
reference under a lock of its own, and `tob_engine_finish` after the last one
without it. The application is free: it may configure, initialise and finish the
engine while other threads are in it, load a certificate before the engine is
initialised, and keep keys beyond its end. What is then done to freed memory or to
a lock that does not exist is undefined; `undef` records it and ends the
behaviour (`Undefined`, `Gone`). The functions that go to the SIM have an action each, which ends before the lock,
and share the steps from there (`Lock`, `SdkReturns`, `SdkFails`,
`SdkAgainReturns`, `Unlock`). `SignUnknownDigest` is the path that unlocks without
having locked: unlocking a mutex that another thread holds is undefined, it may
release it (`stray` records that) or do nothing. `SetPin`, `SetModem` and
`tob_extract_certificate` are the commands of `tob_engine_ctrl`, before the engine
is initialised or after.

**AzureHsm** (`src/TobAzureHsm.cpp`): handles over the one modem of the SDK. A
credential is the device it was read from and the key pair it belongs to; a
reading fails, is whole or has holes (`ObjectRead` shows how). `given` records
what a handle has handed out. After a failed reading `populate_cert` still calls
`subjectName` on the buffer, with the size the reading left, in general 0; the
model takes it to find no name.

**AzureClient**: `main` of `AzureDpsRegisterer.cpp`, `rpi_temp_monitor.c` and
`ll_client.c`, and a program that uses the HSM's interface in any order, also a
signing key whose handle it has destroyed (`UseOrphan`, undefined from there on).
The Azure SDK (external) asks a handle for what it likes between the calls of
`main`. It may refuse a message, which `ll_client` counts all the same (`sent`
and `accepted`), and calls back in the end for every one it has taken.

**Conversions**: operators for `base64.c`, the PEM functions and the hexadecimal
conversions, the size fields of control parameters and PKCS#11 objects, label
trimming and MF's PIN blocks. The behaviours only build up inputs.

Definitions whose comment starts with "Mutant" are not part of the model: each
is the form a definition would have with a plausible bug, and `PROJECT.json` names
the property that catches it.

## 3. The runs

| Run | Checks | Shows |
|---|---|---|
| `sdk_read` | `SessionReachesApplet`, `NothingSentLocked`, `OrphansExplained`, `AtMostOneTry`, `TriesOnlyByWrongPin` | the SDK's sessions, channels and PIN tries with losses, crashes, resets, PINs of the other applet and PINs that are too long, for reads on both applets |
| `sdk_sign` | `IInv`, `OkMeansDelivered`, `CleanCallSucceeds`, `CallReturns` | results and ends of the calls on the signing key and of the private key call under the same faults; the inductive invariant holds |
| `sdk_bad_key` | `BadKeyMeansNoKey`, violated | finding 1 |
| `applets` | `ChannelsAccountedFor`, `OnlyBasicIsTakenOver` | without losses the applets' flags agree with the card's logical channels, in any order of operations, and only the basic channel can be taken away |
| `keys_list` | `PoolRespected`, `LookUpIsRight`, `CleanListIsComplete`, `CachedForLife` | the key list, and that it implements `KeyCache` |
| `object_read` | `HolesOnlyByLoss`, `RightObject`, `CleanReadDecides`, `ReadReturns` | chunked reading |
| `object_holes` | `TrueMeansRead`, violated | finding 2 |
| `engine` | `IInv`, `SdkExclusive`, `OwnedIsLive`, `PinIsTheOneSet`, `WaitersServed` | threads that configure, initialise, use and finish the engine at any time, and start again |
| `engine_digest` | `OneThreadInSdk`, violated | finding 3 |
| `transport` | `InStep`, `ResponseIsLastGood`, `TransmitReturns`, `ImplementsExchange` | commands over a modem and a reader with every fault above and repetitions of every command; `transmit` implements `ApduExchange` |
| `hsm` | `OneSource`, `PairBelongs`, `NullExplained`, `SameIdentity`, `NoHandleLeft`, `ProgramsEnd` | the Azure programs over two handles and two devices; `ll_client` ends unless a message was refused |
| `conversions` | `RoundTrips`, `PemFits`, `CropIsFirst`, `SizesDecoded`, `LabelIsWhole`, `PinBlocks` | each conversion against a definition of what it is for |

`TypeOK` of TobSdk and of OpenSSLEngine is a conjunct of `IInv`; the type
invariants of the other modules have no run of their own; those of Transport and
AzureClient are proved.

### Bounds

- *Channels*: 2 logical channels in the safety runs of the SDK (3 in
  AppletUser). Two are enough for a channel held by one applet beside one that
  was lost, and for the card to run out. `AppletMaxChannel` is 13 in the code;
  what matters is that it is not less than the card's channels; in `sdk_sign` it
  is greater.
- *PINs*: the right one of each applet, which is wrong for the other; a PIN of
  more than 8 characters in `sdk_read`. Two tries there, so that a PIN can be wrong
  without being blocked and then be blocked.
- *Crashes, resets, losses and calls* are not bounded: the state space is finite
  without. Each run of TobSdk takes a part of the calls (`ApiCalls`): the two that
  read different applets; the four on the signing key and the private key call.
- *Key list*: five records with an empty and an unknown one among them, a pool of
  3, one smaller than the records in use, and two processes one after the other
  (`MaxLives`). `KidModulus` is 8 where the code has 16 (four bits).
- *Objects*: 5 bytes in chunks of 2, so that the last chunk is shorter than the
  others and a short answer moves the boundaries.
- *Engine*: 2 threads and 2 contexts (`MaxCtx`), so that the engine is finished
  and initialised again with a PIN set in between, and one thread can finish it
  while the other is anywhere else; the theorems are for any number. Deadlock is
  not checked: when all contexts have been used, or memory that was freed, the
  behaviour has come to its end.
- *Transport*: 2 calls (`MaxCalls`), enough for one that fails or repeats itself
  and one behind, in two programs or one; up to 3 repetitions in a call
  (`MaxRepeats`), so that 6Cxx, 61xx and another 6Cxx to the GET RESPONSE can
  follow each other. The code has no such bound. Cases 2 and 3: in the model 1 is
  like 2 and 4 like 3, which differ in what the fifth byte of the APDU is. The
  theorems are for any number of calls and repetitions and for all cases.
- *Azure*: two devices and two handles, `prov` and `hub`; 2 messages where the
  source has 5.
- *Conversions*: all inputs over small alphabets up to the lengths in
  `MCConversions`: two whole groups and both tails of base64, chains more than
  twice as long as the footer, which is shortened to dashes around a word of two
  letters, templates of five fields, PIN pairs of up to 10 bytes, among them PINs
  that are too long. The theorems are for every length. Deadlock is not checked:
  inputs stop growing.

### Fairness

`FairSpec` of TobSdk and of ObjectRead is weak fairness of the steps of the call
in progress: a thread in a call goes on. This takes for granted that
`SEInterface::transmit` returns, with an answer or an error. `TransmitReturns`
says when it does: always over PC/SC, and over a modem unless the port fails or
the modem ends a command with `+CME ERROR`, or with `ERROR` behind `+CSIM`, lines
the loops of `sendATCSIM` pass over. Nothing is assumed of the application, the
card or crashes; `CallReturns` holds if calls are interrupted by resets for ever.
`ReadReturns` also relies on a READ BINARY with status 9000 having at least one
byte of data. In Transport the program in `transmit` and a modem that works are
weakly fair; that the card stops asking for repetitions (`MaxRepeats`) is an
assumption about the card, over PC/SC too. In OpenSSLEngine each thread inside the engine is weakly fair; as
pthread mutexes promise no order, no thread that waits is promised the lock:
`WaitersServed` says that *some* thread gets it, or the engine has been finished
under those that wait. In AzureClient `main` goes on, and the Azure SDK calls back
in the end for a registration and for every message it has taken, if only with a
failure or a time-out, which is what its interface says of it; for a message it
has refused it never does.

### Findings

1. `MIAS::listKeyPairs` caches a list built while records were lost. Later
   signing calls, all of whose exchanges are answered, report
   `ERR_SE_BAD_KEY_NAME_ERROR` for a key that exists.
2. `p11GetObjectByLabel` and `getCertificateByContainerId` return true with a
   hole in the data when a chunk was lost or refused; `readEF` does not.
3. `tob_key_signing_sign` unlocks `sim_lock` without having locked it when the
   digest has a length it does not know.

Two more kinds of disagreement have no violated run. First, what a comment in the
repository says and the code does not do. The properties leave these cases out,
in the way that is named:

- *Key numbers.* The comment at `MIAS.cpp:405-408` has the number in the name of a
  certificate file count containers from 1; lines 416 and 430 compare it with a
  number that counts from 0. `LookUpIsRight` and `CleanListIsComplete` hold for
  either base and do not say which is right.
- *Status word.* `getStatusWord()` is "the status word received after the last
  successful transmit, 0 otherwise" (`SEInterface.h:68`). When a repetition is lost,
  `transmit` is false and the 61xx or 6Cxx of the failed command stays in the
  buffer. No caller looks at it after a failure. The data, by `getResponse()`, are
  as the comment at line 71 says (`ResponseIsLastGood`), but for the "0 otherwise":
  after a failure they are those of the last success.
- *Length of an object.* `p11GetObjectByLabel` promises the length
  (`MIAS.h:110-111`); for a length in the form 0x81 the upper byte of `size` is
  never set (`MIAS.cpp:662-665`). `SizesDecoded` is about the other forms.
- *`MIAS::changePin`* is to change the PIN (`MIAS.h:95-96`), but line 562 copies the
  new PIN over the last byte of the old one, and the last byte of the command is
  never set. It is not reached from the API and not modelled.
- *`sim_lock`* is "ownership of the SIM before destroying applets"
  (`OpenSSLEngine.cpp:153`). `tob_engine_finish` then unlocks and frees it and the
  context with it: threads that wait for it, also one that gets it before it is
  freed, and whoever signs with a key loaded before, use freed memory. OpenSSL does
  not hold its own lock then, and `ENGINE_set_ex_data(NULL)` comes last, so that an
  initialisation in between finds the freed context. `OwnedIsLive` is about the
  thread that has the lock.

Second, what nothing in the repository denies, or what is outside a model:

- *Applets.* After a lost answer to the close in `deselect()` an applet keeps the
  number of a channel that the card may give to the other applet; commands of a
  program that uses both applets directly are then run by the wrong one. The SDK
  is safe from this (`SessionsAreSafe`): it always selects anew. `select(true)` of
  one applet leaves `isSelected()` of the other true (`OnlyBasicIsTakenOver` says
  that this is all it takes away).
- *SDK.* `tobExtractAvailableCertificate` returns `ERR_SE_MIAS_READ_OBJECT_ERROR`,
  which is not among the codes its comment lists
  (`include/BreakoutTrustOnboardSDK.h:86-90`). A second `tobInitialize` with
  another device succeeds and does nothing (`OneSource`).
- *MIAS.* A template without a size field leaves `ef_size` to chance. A label field
  longer than the 21-byte `record` (`MIAS.cpp:629`) is written past its end.
- *Transport.* `transmit` calls itself for every 61xx and 6Cxx without a limit
  (`SEInterface.cpp:94-110`). 6Cxx to a command of case 3 or 4 overwrites the length
  of its data (line 95), and what is sent again is another command; `Applet` and
  TobSdk take for granted that a card does not answer so. Answers to a dead
  program's commands put every answer of the next
  program off by as many (`InStep` bounds it); a stale 6Cxx among them repeats a
  command the card has run. TobSdk takes for granted that a program finds an empty
  port. In `LSerial.cpp` the case for 1152000 baud is written 11520000.
- *Engine.* `LOAD_CERT_CTRL` before the initialisation locks a lock that does not
  exist. `CMD_PIN` takes no lock and frees a PIN that may be in use. A PIN that was
  cleared goes to the SDK as NULL: loading does not look for it, and signing and
  decrypting look before they have the lock.
- *Azure.* `ll_client.c:198` ignores the result of `SendEventAsync` and counts the
  message: after one that was refused the loop at 182-212 waits for ever
  (`ProgramsEnd` excepts that). A certificate read with a hole is cached, and the
  name is NULL for the life of the handle (`NullExplained`). `custom_hsm_set_data`
  leaves cached credentials alone, so that a handle configured twice may mix key
  pairs (`twice` in `PairBelongs`). `custom_hsm_destroy` leaves the name and the
  signing key allocated, and the latter points to the freed handle
  (`TobAzureHsm.cpp:204`, 226-237). The registerer's exit code is 0 when the
  registration failed.

## 4. The proofs

Every safety property that a passing run checks is also proved, for all values of
the constants that the named `ASSUME`s admit;
hypotheses beyond these are part of the theorem's statement and are given below.
Each module defines an inductive invariant, proves that the initial states have
it and that each action keeps it (one lemma or step an action), and derives the
properties from it. The invariants were model-checked on the instances of the
runs before they were proved.

| Module | Invariant | Properties | Hypotheses |
|---|---|---|---|
| TobSdkProofs | `IInv` | `TypeOK`, `SessionReachesApplet`, `NothingSentLocked`, `OrphansExplained`, `AtMostOneTry`, `TriesOnlyByWrongPin` | - |
| | `ResultInv`, on top of `IInv` | `OkMeansDelivered`, `CleanCallSucceeds` | - |
| | - | `KeysAsListed`: `keys` changes by a listing of KeyCache or with the process | - |
| AppletUserProofs | `UserInv` | `ChannelsAccountedFor`, `OnlyBasicIsTakenOver` | no exchange is lost |
| MiasKeyPairsProofs | `ListInv` | `PoolRespected`, `LookUpIsRight`, `CleanListIsComplete`, refinement of KeyCache (`CachedForLife`) | for the second and third: fewer containers than a key id tells apart |
| ObjectReadProofs | `ReadInv` | `HolesOnlyByLoss`, `RightObject`, `CleanReadDecides` | - |
| TransportProofs | `TransportInv` | `TypeOK`, `InStep`, `ResponseIsLastGood`, refinement of ApduExchange (`ImplementsExchange`) | - |
| OpenSSLEngineProofs | `IInv` | `SdkExclusive`, `OwnedIsLive`, `PinIsTheOneSet` | - |
| AzureClientProofs | `AzureInv` | `TypeOK`, `OneSource`, `PairBelongs`, `NullExplained`, `SameIdentity`, `NoHandleLeft` | - |
| ConversionsProofs | `InputInv` | `RoundTrips`, `PemFits`, `CropIsFirst`, `SizesDecoded`, `LabelIsWhole`, `PinBlocks` | - |

**TobSdkProofs** is for every `NumChannels` in 1..3, every `AppletMaxChannel`
not below it, every `MaxTries`, `Pins`, `CardPin`, `LongPins`, `ApiCalls` and
`Transport`. The bound 3 is the code's: it addresses a channel with the two low
bits of the class byte. `IInv` adds to the properties:

- `ControlInv`: which call and applet each control point belongs to. The
  properties speak of `cur`, which every step of `Applet` takes for granted.
- `LogicalInv`: the SDK never uses the basic channel, and a session's channel is
  a logical one; a MANAGE CHANNEL close would not close channel 0.
- `ClosingInv`: at `sel_open` the applet is about to forget its old channel, which
  must then be closed or in `lost`; during `closeAllChannels()` what is open and
  not lost is still to come. `OrphansExplained` is not inductive without it.
- `BurntInv`: a try is spent only by a call that returns `ERR_SE_EF_VERIFY_PIN_ERROR`,
  which is not retried; hence at most one a call.

`SessionReachesApplet` carries itself: SELECT is the only step that enters a
session, it puts the applet on the channel, and no other step of the host touches
a channel before `deselect()`. Boolean variables are kept apart (`IInvSplit`),
as SMT and Zenon are good at different halves of `TypeOK`.

The second part of TobSdkProofs adds what the calls return. `DeliveredInv` ties a result to
the object that was read. `CleanInv` says of a call with no loss of its own that
it gets past `select()` and fails only for a reason of its own (its PIN, the key
list, a label that is not there). Being refused a channel is excused only if one
was lost before; that the card otherwise has a channel to give does not follow
from `OrphansExplained`, which a stale `_isSelected` of the other applet satisfies.
`OpenInv` is stronger: what is open is the channel of the call in progress or was
lost. `KeysAreCached` joins TobSdk and MiasKeyPairs: `keys` goes from unknown to one
of the three answers of KeyCache, over a channel that leads to MIAS, and back only
with a new process, which is what `CachedForLife` shows of the listing itself.

**AppletUserProofs** needs that no exchange is lost (`Transport = {"answered"}`),
as the properties themselves say: a lost answer makes the flags wrong. `OwnInv`
(an applet selected on a logical channel has it for itself) and `OpenInv` (no other
is open) depend on each other and on where an operation stands (`CurInv`).

**MiasKeyPairsProofs** is for every content of CONTAINERS_INFO and FILE_DIR.
`CountInv` fixes what `_keypairs_num` means: -1, then the last position in use,
then, from the end of the first file on, the length. `PairInv` keeps each entry's
key id tied to the number of its record across losses. `RecordsInv` and `CertInv`
count what a listing without losses has found so far. `LookUpIsRight` and
`CleanListIsComplete` need `Len(Records) < KidModulus`: from the 16th container on
the four bits of the key id wrap (see the hazards).

**ObjectReadProofs** is for every directory, label, size and chunk length.
`ChunkInv` is the loop invariant of the chunk loops (`filled = 0 .. i - 1` in
`readEF` and as long as nothing was lost), `DirInv` and `SearchInv` those of the
directory scan and of the search by label.

**TransportProofs** is for any number of calls and of programs, whatever each has
left behind. What it takes is the order of the lines: `LinesInv` says that there
is a function from unread lines to command numbers that rises (`Order`), misses no
command once an answer is there (`Gapless`), and is bounded below by the skew
(`Bounded`: no unread answer is more than `skew` commands old, and none is *that*
old once this command's answer was read). `Gapless` is what makes `start` right:
the lines it counts are as many as the commands from the oldest unread answer on
(`CountOK`, by an injection of commands into lines). `ModemInv` says that the modem has the
last commands sent, `InStepInv` that with skew 0 it has at most the APDU in
progress, and how often the card has run it. The refinement maps every step to one
of ApduExchange or to none; after the port was opened with answers outstanding it
is the step `Void`. A port that failed stays so: `LinesInv`, `ModemInv` and
`InStepInv` are then no longer needed, and no longer true.

**OpenSSLEngineProofs** is for any set of threads and number of contexts, and for
any application. `SdkExclusive` and `OwnedIsLive` hold until an unlock has really
released another thread's lock (`stray`), which `engine_digest` shows to happen;
`PinIsTheOneSet` holds even then. The invariant says that only the context in
ex_data can have a lock, and that whatever else a thread or a key points to has
been freed (`ContextInv`); that `tob_engine_init` works on a context that has no
lock yet, alone, and that a freed context in ex_data has one thread that will clear
it (`PhaseInv`); that whoever is past its lock step holds the lock of a context
that has one (`MutexInv`), which is what keeps `FinishFree`, behind the same lock,
from freeing it; and that the live context has the PIN set last while those to
come have the default (`PinInv`, without which nothing would be known of the PIN
of a new context).

**AzureClientProofs** is for any set of handles that contains the two that the
programs use, any devices and any number of messages. `HsmInv` speaks of each
handle: what it has cached and handed out is of `_modem` (`SourceInv`) and, if it
was configured once, of one key pair (`ModeInv`); both need that a handle without
a configuration has nothing (`FreshInv`). `SameIdentity` compares what two handles
give out that never exist at the same time; `RegisteredInv` and `ConfigInv` carry
the registered identity over from one to the other.

**ConversionsProofs** is for inputs of every length, over any alphabets that the
`ASSUME`s admit (bytes are bytes, a field of a template is as long as it says, a
size has two bytes), any footer and any captions. The invariant is no more than
the type of the input; the work is in what the operators compute. The library's
induction theorems take an operator as a parameter, which the provers cannot
instantiate, so induction is over a set instead: `Induction` says that a subset of
`0 .. n` that has 0 and with `m - 1` also `m` is all of it, and follows from
`NatLessThanWellFounded` (`LeastElement`). `RecursiveFunction` shows with it that a
function defined by recursion exists and so satisfies its equations, which TLA+
gives only for functions that exist. On these rest

- `FlattenProperties`: where each part of a flattened sequence begins, and how
  long it is together. Base64 in both directions, the
  hexadecimal digits and the templates are such sequences;
- `GroupIsBits` and `TailProperties`: the characters of a group are its bits, six
  at a time. The first is the only arithmetic of Base64: a byte is the sum of its
  bits (`BitsOfBytes`), and the rest is which bit stands where;
- `DecodeGivesBack`: any text that begins with the characters for some bytes and
  then ends, or goes on with a character that is none, decodes to those bytes.
  `PemFits` needs this of a content followed by the footer, `RoundTrips` of the
  content alone;
- `FooterIndMatched` and `FooterIndFinds`: `footer_ind` counts characters of the
  footer that were just read; and it is 0 behind a character that is none of the
  footer's, so that a footer there is met from its beginning. An earlier form of
  `CropIsFirst`, for footers behind any character but a dash, held on the instance,
  whose footer had one letter between the dashes, and did not yield to proof: with a
  longer word it is false, as a footer behind `-E`, the beginning of another, is
  overlooked. The property now speaks of footers that begin a line, and the
  instance has a word of two letters;
- `PositionsAre`: the walk through a template stops at the fields and nowhere else,
  whatever bytes are in them; `WalksFind` then has MF take the first size and MIAS
  the last;
- `LengthsDecoded`: two shifts leave nothing of what was in a 16-bit `size` before.
  After one shift the old low byte is left, which is why 0x81 is left out.

Only model-checked:

- the liveness properties (`CallReturns`, `ReadReturns`, `WaitersServed`,
  `TransmitReturns`, `ProgramsEnd`): fairness is out of this prover's reach.

## 5. Not modelled

- *mbedTLS keys* (`src/TobMbedtls.cpp`): sixteen contexts that are never given back
  and callbacks that hand their arguments on. A model could say no more than the
  guard of `tob_mbedtls_setup_key`.
- *`changePin`* as an exchange, and hashing on the card (`hashInit`, `hashUpdate`,
  `hashFinal`): not reached from the API. The blocks `MF::changePin` sends are in
  Conversions.
- *Signing and deciphering exchange by exchange*: in TobSdk each of `signInit`,
  `signFinal`, `decryptInit`, `decryptFinal` is one step with all its results.
- *`TrustOnboardTool`*, the TLS and MQTT client samples, the Python sample and the
  scripts: argument parsing, file and network I/O around single calls.
- *Terminal attributes* and the list of baud rates of `LSerial`, the list of
  readers in `Pcsc`: in Transport an opening succeeds or fails.
- *Inputs left out of Conversions*: templates of 254 bytes or more (the 8-bit walk
  of `listKeyPairs` wraps), an odd number of hexadecimal digits, labels of spaces
  only, lengths in the form 0x81, footers behind characters of a footer.
- *More than 14 containers, more than 32 directory entries*: see the hazards.

What could follow: proofs that join more of the modules, which are so far
connected by reading (the outcomes of an exchange in `Applet` are those of
ApduExchange, those of a reading in TobSdk and AzureHsm are those of ObjectRead).
