--------------------------- MODULE OpenSSLEngine ---------------------------
(***************************************************************************)
(* The OpenSSL engine (tools/OpenSSLEngine.cpp) used by several threads:   *)
(* its context tob_ctx_t, the lock sim_lock that serialises the calls into *)
(* the SDK, which is not thread safe itself, the private keys that point   *)
(* to the context, and the PIN that tob_engine_ctrl puts there.            *)
(*                                                                         *)
(* Contexts are numbered in the order they are allocated.  OpenSSL itself  *)
(* is external: it calls tob_engine_init when the engine gets its first    *)
(* functional reference, under its own lock, and tob_engine_finish when it *)
(* has lost the last one, without that lock.  Only loading keys needs a    *)
(* functional reference.                                                   *)
(*                                                                         *)
(* The application may finish or configure the engine while other threads  *)
(* are in it or have keys.  What a thread does to a context without a lock *)
(* or to memory that was freed is undefined: the model stops there.        *)
(***************************************************************************)
EXTENDS Naturals, FiniteSets

CONSTANTS
    Threads,
    Nobody,          \* no thread
    MaxCtx           \* bound on the contexts allocated in a behaviour

ASSUME NobodyAssumption == Nobody \notin Threads
ASSUME MaxCtxAssumption == MaxCtx \in Nat

VARIABLES
    functional,   \* the engine has functional references
    ctx,          \* the context in the engine's ex_data, 0 for NULL
    next,         \* the number of the next context
    ready,        \* contexts with initialized = 1 and a sim_lock
    freed,        \* contexts that have been freed
    owner,        \* context -> thread that holds its sim_lock
    pin,          \* context -> its PIN, "null" for a NULL pointer
    pc,           \* thread -> where it is
    op,           \* thread -> the engine function it is in
    use,          \* thread -> the context that function works on
    key,          \* thread -> the context its private key points to, 0: no key
    wanted,       \* history: the PIN the application set last, until it
                  \* finishes the engine
    stray,        \* history: an unlock has released the lock of another thread
    undef         \* history: freed memory or a lock that is not there was used

engineVars  == <<functional, ctx, next>>
contextVars == <<ready, freed, owner, pin>>
threadVars  == <<pc, op, use, key>>
history     == <<wanted, stray, undef>>
vars        == <<engineVars, contextVars, threadVars, history>>

Ctxs == 1 .. MaxCtx

\* The functions that go to the SIM, and those that go there twice: once for
\* the length, once for the data.
Ops     == {"sign", "decrypt", "load_cert", "load_signing_key", "load_available_key"}
TwoStep == {"load_cert", "load_signing_key", "load_available_key"}

\* strdup("0000"), a PIN of the application's, NULL.
Pins == {"default", "own", "null"}

PCs == {"idle", "init", "lock", "sdk", "sdk_again", "unlock", "fin_lock", "fin_free", "fin_clear"}

Init ==
    /\ functional = FALSE
    /\ ctx = 0
    /\ next = 1
    /\ ready = {}
    /\ freed = {}
    /\ owner = [c \in Ctxs |-> Nobody]
    /\ pin = [c \in Ctxs |-> "default"]
    /\ pc = [t \in Threads |-> "idle"]
    /\ op = [t \in Threads |-> "sign"]
    /\ use = [t \in Threads |-> 0]
    /\ key = [t \in Threads |-> 0]
    /\ wanted = "default"
    /\ stray = FALSE
    /\ undef = FALSE

TypeOK ==
    /\ functional \in BOOLEAN
    /\ ctx \in 0 .. MaxCtx
    /\ next \in 1 .. MaxCtx + 1
    /\ ready \subseteq Ctxs
    /\ freed \subseteq Ctxs
    /\ owner \in [Ctxs -> Threads \cup {Nobody}]
    /\ pin \in [Ctxs -> Pins]
    /\ pc \in [Threads -> PCs]
    /\ op \in [Threads -> Ops]
    /\ use \in [Threads -> 0 .. MaxCtx]
    /\ key \in [Threads -> 0 .. MaxCtx]
    /\ wanted \in Pins
    /\ stray \in BOOLEAN
    /\ undef \in BOOLEAN

\* OpenSSL's own lock: no thread is in ENGINE_init.
EngineUnlocked == \A t \in Threads : pc[t] # "init"

\* Threads whose next step is in the SDK, and those of them past sim_lock.
InSdk   == {t \in Threads : pc[t] \in {"init", "sdk", "sdk_again"}}
Holding == {"sdk", "sdk_again", "unlock"}

Undefined == undef' = TRUE /\ UNCHANGED <<engineVars, contextVars, threadVars, wanted, stray>>

----------------------------------------------------------------------------
(* tob_engine_ctrl and tob_engine_init                                     *)

\* tob_get_ctx, tob_set_ctx: the context in ex_data, or a new one, with the
\* default PIN, taken as one step.
GetCtx ==
    \/ ctx # 0 /\ UNCHANGED <<ctx, next>>
    \/ ctx = 0 /\ next <= MaxCtx /\ ctx' = next /\ next' = next + 1

\* Mutants: tobInitialize is run again on a context that has its lock; a
\* context that exists is not found.
InitStartTwice(t) ==
    /\ pc[t] = "idle" /\ ~functional /\ EngineUnlocked
    /\ GetCtx
    /\ use' = [use EXCEPT ![t] = ctx']
    /\ pc' = [pc EXCEPT ![t] = "init"]
    /\ UNCHANGED <<functional, contextVars, op, key, history>>

InitStartForgets(t) ==
    /\ pc[t] = "idle" /\ ~functional /\ EngineUnlocked
    /\ next <= MaxCtx /\ ctx' = next /\ next' = next + 1
    /\ use' = [use EXCEPT ![t] = ctx']
    /\ pc' = [pc EXCEPT ![t] = "init"]
    /\ UNCHANGED <<functional, contextVars, op, key, history>>

\* A context that is being finished may still be there, with its lock.
InitStart(t) ==
    /\ pc[t] = "idle" /\ ~functional /\ EngineUnlocked
    /\ \/ ctx \in freed /\ Undefined
       \/ /\ ctx \in ready
          /\ functional' = TRUE
          /\ UNCHANGED <<ctx, next, contextVars, threadVars, history>>
       \/ /\ ctx \notin freed \cup ready
          /\ GetCtx
          /\ use' = [use EXCEPT ![t] = ctx']
          /\ pc' = [pc EXCEPT ![t] = "init"]
          /\ UNCHANGED <<functional, contextVars, op, key, history>>

\* tobInitialize, which talks to the SIM; then the lock is created.
InitEnd(t) ==
    /\ pc[t] = "init"
    /\ pc' = [pc EXCEPT ![t] = "idle"]
    /\ \/ functional' = TRUE /\ ready' = ready \cup {use[t]}
       \/ UNCHANGED <<functional, ready>>
    /\ UNCHANGED <<ctx, next, freed, owner, pin, op, use, key, history>>

\* CMD_PIN sets the PIN of the context, or clears it; CMD_MODEM_DEVICE and
\* CMD_MODEM_BAUDRATE only matter to tobInitialize.  The strings they free
\* may be in use in the SDK.  All work before tob_engine_init too.
SetPin(t) ==
    /\ pc[t] = "idle"
    /\ \/ /\ \/ ctx \in freed
             \/ \E s \in Threads : pc[s] \in {"sdk", "sdk_again"} /\ use[s] = ctx /\ pin[ctx] # "null"
          /\ Undefined
       \/ /\ ctx \notin freed
          /\ \A s \in Threads : pc[s] \in {"sdk", "sdk_again"} /\ use[s] = ctx => pin[ctx] = "null"
          /\ GetCtx
          /\ \E p \in Pins : wanted' = p /\ pin' = [pin EXCEPT ![ctx'] = p]
          /\ UNCHANGED <<functional, ready, freed, owner, threadVars, stray, undef>>

SetModem(t) ==
    /\ pc[t] = "idle"
    /\ \/ /\ ctx \in freed \/ \E s \in Threads : pc[s] = "init" /\ use[s] = ctx
          /\ Undefined
       \/ /\ ctx \notin freed
          /\ GetCtx
          /\ UNCHANGED <<functional, contextVars, threadVars, history>>

----------------------------------------------------------------------------
(* Signing, decrypting and loading                                         *)

\* Up to the lock.
Begin(t, o, c) ==
    /\ op' = [op EXCEPT ![t] = o]
    /\ use' = [use EXCEPT ![t] = c]
    /\ pc' = [pc EXCEPT ![t] = "lock"]
    /\ UNCHANGED <<functional, contextVars, key, history>>

\* Signing and decrypting work on the context in the key, which does not
\* keep the engine from being finished, and look for its PIN first.
BeginWithKey(t, o) ==
    /\ pc[t] = "idle" /\ key[t] # 0
    /\ \/ key[t] \in freed /\ Undefined
       \/ /\ key[t] \notin freed /\ pin[key[t]] # "null"
          /\ Begin(t, o, key[t])
          /\ UNCHANGED <<ctx, next>>

\* RSA_sign with a digest of a known length, and RSA_private_decrypt.
tob_key_signing_sign(t)    == BeginWithKey(t, "sign")
tob_key_signing_decrypt(t) == BeginWithKey(t, "decrypt")

\* The certificates, for the public keys or, of an engine that need not have
\* been initialised, for CMD_LOAD_CERT_CTRL; the private keys.
tob_extract_certificate(t)           == pc[t] = "idle" /\ GetCtx /\ Begin(t, "load_cert", ctx')
tob_engine_load_signing_privkey(t)   == pc[t] = "idle" /\ functional /\ GetCtx /\ Begin(t, "load_signing_key", ctx')
tob_engine_load_available_privkey(t) == pc[t] = "idle" /\ functional /\ GetCtx /\ Begin(t, "load_available_key", ctx')

\* tob_key_signing_sign with a digest length it does not know: it unlocks,
\* and has not locked.  Unlocking a lock another thread holds may have no
\* effect or release the lock.
SignUnknownDigest(t) ==
    /\ pc[t] = "idle" /\ key[t] # 0
    /\ \/ key[t] \in freed /\ Undefined
       \/ /\ key[t] \notin freed /\ pin[key[t]] # "null"
          /\ \/ /\ owner' = [owner EXCEPT ![key[t]] = Nobody]
                /\ stray' = (stray \/ owner[key[t]] # Nobody)
             \/ UNCHANGED <<owner, stray>>
          /\ UNCHANGED <<engineVars, ready, freed, pin, threadVars, wanted, undef>>

\* Mutant: the lock is taken whoever holds it.
LockTaken(t) ==
    /\ pc[t] = "lock" /\ use[t] \in ready
    /\ owner' = [owner EXCEPT ![use[t]] = t]
    /\ pc' = [pc EXCEPT ![t] = "sdk"]
    /\ UNCHANGED <<engineVars, ready, freed, pin, op, use, key, history>>

\* ssl_lock_universal_lock
Lock(t) ==
    /\ pc[t] = "lock" /\ use[t] \in ready
    /\ owner[use[t]] = Nobody
    /\ owner' = [owner EXCEPT ![use[t]] = t]
    /\ pc' = [pc EXCEPT ![t] = "sdk"]
    /\ UNCHANGED <<engineVars, ready, freed, pin, op, use, key, history>>

\* The (first) call into the SDK returns.
SdkReturns(t) ==
    /\ pc[t] = "sdk"
    /\ pc' = [pc EXCEPT ![t] = IF op[t] \in TwoStep THEN "sdk_again" ELSE "unlock"]
    /\ UNCHANGED <<engineVars, contextVars, op, use, key, history>>

\* Mutant: the error path returns without unlocking.
SdkFailsLocked(t) ==
    /\ pc[t] \in {"sdk", "sdk_again"}
    /\ pc' = [pc EXCEPT ![t] = "idle"]
    /\ UNCHANGED <<engineVars, contextVars, op, use, key, history>>

\* A failure goes straight to the unlock.
SdkFails(t) ==
    /\ pc[t] \in {"sdk", "sdk_again"}
    /\ pc' = [pc EXCEPT ![t] = "idle"]
    /\ owner' = [owner EXCEPT ![use[t]] = Nobody]
    /\ UNCHANGED <<engineVars, ready, freed, pin, op, use, key, history>>

SdkAgainReturns(t) ==
    /\ pc[t] = "sdk_again"
    /\ pc' = [pc EXCEPT ![t] = "unlock"]
    /\ UNCHANGED <<engineVars, contextVars, op, use, key, history>>

\* ssl_lock_universal_unlock; a new signing key points to the context, if what
\* was read could be made into one.
Unlock(t) ==
    /\ pc[t] = "unlock"
    /\ owner' = [owner EXCEPT ![use[t]] = Nobody]
    /\ pc' = [pc EXCEPT ![t] = "idle"]
    /\ \/ op[t] = "load_signing_key" /\ key' = [key EXCEPT ![t] = use[t]]
       \/ UNCHANGED key
    /\ UNCHANGED <<engineVars, ready, freed, pin, op, use, history>>

\* tob_engine_signing_rsa_finish
FreeKey(t) ==
    /\ pc[t] = "idle" /\ key[t] # 0
    /\ key' = [key EXCEPT ![t] = 0]
    /\ UNCHANGED <<engineVars, contextVars, pc, op, use, history>>

----------------------------------------------------------------------------
(* tob_engine_finish                                                       *)

FinishStart(t) ==
    /\ pc[t] = "idle" /\ functional /\ EngineUnlocked
    /\ functional' = FALSE
    /\ GetCtx
    /\ use' = [use EXCEPT ![t] = ctx']
    /\ pc' = [pc EXCEPT ![t] = "fin_lock"]
    /\ UNCHANGED <<contextVars, op, key, history>>

\* Mutant: the lock is not waited for.
FinishLockNot(t) ==
    /\ pc[t] = "fin_lock"
    /\ owner' = [owner EXCEPT ![use[t]] = t]
    /\ pc' = [pc EXCEPT ![t] = "fin_free"]
    /\ UNCHANGED <<engineVars, ready, freed, pin, op, use, key, history>>

\* "take ownership of the SIM", if the context has a lock.
FinishLock(t) ==
    /\ pc[t] = "fin_lock"
    /\ \/ use[t] \in ready /\ owner[use[t]] = Nobody /\ owner' = [owner EXCEPT ![use[t]] = t]
       \/ use[t] \notin ready /\ UNCHANGED owner
    /\ pc' = [pc EXCEPT ![t] = "fin_free"]
    /\ UNCHANGED <<engineVars, ready, freed, pin, op, use, key, history>>

\* Free the PIN, unlock, free the lock, free the context.  A thread that
\* waits may get the lock in between, but no context it could use: see Gone.
FinishFree(t) ==
    /\ pc[t] = "fin_free"
    /\ owner' = [owner EXCEPT ![use[t]] = Nobody]
    /\ freed' = freed \cup {use[t]}
    /\ ready' = ready \ {use[t]}
    /\ pc' = [pc EXCEPT ![t] = "fin_clear"]
    /\ UNCHANGED <<engineVars, pin, op, use, key, history>>

\* ENGINE_set_ex_data(NULL)
FinishClear(t) ==
    /\ pc[t] = "fin_clear"
    /\ ctx' = 0
    /\ wanted' = "default"
    /\ pc' = [pc EXCEPT ![t] = "idle"]
    /\ UNCHANGED <<functional, next, contextVars, op, use, key, stray, undef>>

----------------------------------------------------------------------------
\* The next thing t does is not defined: its context has been freed, or has no
\* lock to wait for, or has got one after tob_engine_finish has found none.
Gone(t) ==
    \/ pc[t] \notin {"idle", "fin_clear"} /\ use[t] \in freed
    \/ pc[t] = "lock" /\ use[t] \notin ready
    \/ pc[t] = "fin_free" /\ use[t] \in ready /\ owner[use[t]] # t

\* The steps a thread takes on its own once it has entered the engine.
Step(t) ==
    \/ Gone(t) /\ Undefined
    \/ /\ ~Gone(t)
       /\ \/ InitEnd(t)
          \/ Lock(t) \/ SdkReturns(t) \/ SdkFails(t) \/ SdkAgainReturns(t) \/ Unlock(t)
          \/ FinishLock(t) \/ FinishFree(t) \/ FinishClear(t)

Enter(t) ==
    \/ SetPin(t) \/ SetModem(t)
    \/ InitStart(t) \/ FinishStart(t)
    \/ SignUnknownDigest(t) \/ FreeKey(t)
    \/ tob_key_signing_sign(t) \/ tob_key_signing_decrypt(t)
    \/ tob_extract_certificate(t)
    \/ tob_engine_load_signing_privkey(t) \/ tob_engine_load_available_privkey(t)

Next == ~undef /\ \E t \in Threads : Step(t) \/ Enter(t)

Spec == Init /\ [][Next]_vars

\* A thread inside the engine goes on.  No fairness among the threads that
\* wait for the lock: the lock may always go to another one.
FairSpec == Spec /\ \A t \in Threads : WF_vars(~undef /\ Step(t))

----------------------------------------------------------------------------
(* Properties                                                              *)

(* The SDK and the SIM serve one thread at a time: sim_lock, or OpenSSL's  *)
(* initialisation lock before there is one, keeps the others out.          *)
OneThreadInSdk == \A s, t \in InSdk : s = t

(* Two threads are in the SDK at once only after tob_key_signing_sign has  *)
(* released the lock of another thread for a digest of unknown length:     *)
(* not because the engine is finished and initialised again meanwhile.     *)
SdkExclusive == stray \/ OneThreadInSdk

(* "take ownership of the SIM before destroying applets": until an unlock  *)
(* goes astray tob_engine_finish frees no context under a thread that has  *)
(* got its lock, however initialisations, functions and other calls of     *)
(* finish overlap.  The threads that wait for the lock meanwhile, even one *)
(* that gets it before it is freed, and the keys are not safe.             *)
OwnedIsLive ==
    stray \/ \A t \in Threads : pc[t] \in Holding => use[t] \in ready /\ use[t] \notin freed

(* The SIM is asked with the PIN that the application last gave to         *)
(* tob_engine_ctrl, before tob_engine_init or after it, while a thread     *)
(* waits for the lock and across failed initialisations, or the default    *)
(* when it gave none.  That is no PIN at all once the application has      *)
(* cleared it: sign and decrypt look for it before they have the lock, and *)
(* loading does not look.                                                  *)
PinIsTheOneSet ==
    \A t \in Threads : pc[t] \in {"sdk", "sdk_again"} /\ use[t] \notin freed => pin[use[t]] = wanted

(* sim_lock never stays taken: when threads wait for it, one of them gets  *)
(* to the SDK, whatever the calls before it returned, unless the engine    *)
(* has been finished under them.                                           *)
WaitersServed ==
    (\E t \in Threads : pc[t] = "lock") ~> (undef \/ \E t \in Threads : pc[t] = "sdk")

----------------------------------------------------------------------------
(* The inductive invariant behind SdkExclusive, OwnedIsLive and            *)
(* PinIsTheOneSet.                                                         *)

\* Only the context in ex_data can have a lock, and everything else that a
\* thread or a key points to has been freed.
ContextInv ==
    /\ ctx # 0 => ctx < next
    /\ ready \subseteq {ctx} \ freed
    /\ \A c \in freed : c < next
    /\ \A t \in Threads : key[t] # 0 => key[t] = ctx \/ key[t] \in freed
    /\ \A t \in Threads : pc[t] # "idle" => use[t] # 0 /\ (use[t] = ctx \/ use[t] \in freed)

\* tob_engine_init works on a context without a lock, one thread at a time;
\* the thread that has freed the context will clear ex_data.
PhaseInv ==
    /\ \A t \in Threads : pc[t] = "init" => ready = {}
    /\ \A t \in Threads : pc[t] = "fin_clear" => use[t] = ctx /\ ctx \in freed
    /\ \A s, t \in Threads : pc[s] = pc[t] /\ pc[t] \in {"init", "fin_clear"} => s = t

\* Whoever is past its lock step holds the lock of a context that has one.
MutexInv == ~stray => \A t \in Threads : pc[t] \in Holding => use[t] \in ready /\ owner[use[t]] = t

\* The live context has the PIN set last, the ones to come the default.
PinInv ==
    /\ ctx = 0 => wanted = "default"
    /\ ctx # 0 /\ ctx \notin freed => wanted = pin[ctx]
    /\ \A c \in Ctxs : c >= next => pin[c] = "default"

IInv == TypeOK /\ ContextInv /\ PhaseInv /\ MutexInv /\ PinInv
=============================================================================
