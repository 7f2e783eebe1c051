------------------------ MODULE OpenSSLEngineProofs ------------------------
(***************************************************************************)
(* The OpenSSL engine for any number of threads and contexts, with the     *)
(* application free to configure, initialise and finish it at any moment:  *)
(* until the first stray unlock of tob_key_signing_sign one thread at most *)
(* is in the SDK and no context is freed under it, and the SIM gets the    *)
(* PIN that was set last.                                                  *)
(*                                                                         *)
(* The argument: only the context in ex_data can have a lock, every other  *)
(* one that a thread still works on has been freed, and what such a thread *)
(* does next is undefined; so the threads that go on are serialised by one *)
(* lock, which tob_engine_finish takes before it frees the context.        *)
(***************************************************************************)
EXTENDS OpenSSLEngine, TLAPS

USE DEF Ctxs, Ops, TwoStep, PCs, Pins

(* The initial state, before the engine has a context, satisfies IInv.     *)
LEMMA InitInv == Init => IInv
<1> SUFFICES ASSUME Init PROVE IInv
  OBVIOUS
<1>1. TypeOK
  <2>1. next \in 1 .. MaxCtx + 1 /\ ctx \in 0 .. MaxCtx
    BY MaxCtxAssumption DEF Init
  <2>2. owner \in [Ctxs -> Threads \cup {Nobody}] /\ pc \in [Threads -> PCs] /\ op \in [Threads -> Ops]
    BY DEF Init
  <2>3. use \in [Threads -> 0 .. MaxCtx] /\ key \in [Threads -> 0 .. MaxCtx]
    BY MaxCtxAssumption DEF Init
  <2>4. functional \in BOOLEAN /\ ready \subseteq Ctxs /\ freed \subseteq Ctxs
    BY DEF Init
  <2>5. pin \in [Ctxs -> Pins] /\ wanted \in Pins /\ stray \in BOOLEAN /\ undef \in BOOLEAN
    BY DEF Init
  <2> QED
    BY <2>1, <2>2, <2>3, <2>4, <2>5 DEF TypeOK
<1>2. ContextInv
  BY DEF Init, ContextInv
<1>3. PhaseInv
  BY DEF Init, PhaseInv
<1>4. MutexInv
  BY DEF Init, MutexInv, Holding
<1>5. PinInv
  BY DEF Init, PinInv
<1> QED
  BY <1>1, <1>2, <1>3, <1>4, <1>5 DEF IInv

(* Undefined behaviour ends the model's behaviour where it is.             *)
LEMMA UndefinedInv == IInv /\ Undefined => IInv'
<1> SUFFICES ASSUME IInv, Undefined PROVE IInv'
  OBVIOUS
<1> USE DEF IInv, Undefined, engineVars, contextVars, threadVars
<1>1. TypeOK'
  BY DEF TypeOK
<1>2. ContextInv' /\ PhaseInv' /\ MutexInv' /\ PinInv'
  BY DEF ContextInv, PhaseInv, MutexInv, PinInv
<1> QED
  BY <1>1, <1>2

(* tob_get_ctx returns the context in ex_data, or one never used before.   *)
LEMMA GetCtxFacts ==
    ASSUME IInv, GetCtx
    PROVE  /\ ctx' \in Ctxs /\ next' \in 1 .. MaxCtx + 1
           /\ ctx' < next' /\ next <= next'
           /\ ctx # 0 => ctx' = ctx
           /\ ctx = 0 => ctx' \notin freed \cup ready /\ pin[ctx'] = "default"
<1> USE MaxCtxAssumption DEF IInv, TypeOK, ContextInv, GetCtx
<1>1. ctx' \in Ctxs /\ next' \in 1 .. MaxCtx + 1 /\ ctx' < next' /\ next <= next' /\ (ctx # 0 => ctx' = ctx)
  OBVIOUS
<1>2. ctx = 0 => ctx' \notin freed \cup ready /\ pin[ctx'] = "default"
  BY DEF PinInv
<1> QED
  BY <1>1, <1>2

(* tob_engine_init works on the context in ex_data, if it has no lock yet. *)
LEMMA InitStartInv ==
    ASSUME IInv, NEW t \in Threads, InitStart(t)
    PROVE  IInv'
<1> USE DEF IInv, engineVars, contextVars, threadVars, history
<1>1. CASE Undefined
  BY <1>1, UndefinedInv
<1>2. CASE /\ functional' = TRUE
           /\ UNCHANGED <<ctx, next, contextVars, threadVars, history>>
  <2>1. TypeOK'
    BY <1>2, MaxCtxAssumption, NobodyAssumption DEF TypeOK
  <2>2. ContextInv'
    BY <1>2, MaxCtxAssumption DEF TypeOK, ContextInv, PhaseInv
  <2>3. PhaseInv'
    BY <1>2, MaxCtxAssumption DEF TypeOK, ContextInv, PhaseInv
  <2>4. MutexInv'
    BY <1>2, MaxCtxAssumption, NobodyAssumption DEF TypeOK, ContextInv, PhaseInv, MutexInv, Holding
  <2>5. PinInv'
    BY <1>2, MaxCtxAssumption DEF TypeOK, ContextInv, PhaseInv, PinInv
  <2> QED
    BY <2>1, <2>2, <2>3, <2>4, <2>5
<1>3. ASSUME ctx \notin freed \cup ready, GetCtx,
             pc[t] = "idle", \A s \in Threads : pc[s] # "init",
             use' = [use EXCEPT ![t] = ctx'], pc' = [pc EXCEPT ![t] = "init"],
             UNCHANGED <<functional, contextVars, op, key, history>>
      PROVE  IInv'
  <2>0. /\ ctx' \in Ctxs /\ next' \in 1 .. MaxCtx + 1
        /\ ctx' < next' /\ next <= next'
        /\ ctx # 0 => ctx' = ctx
        /\ ctx = 0 => ctx' \notin freed \cup ready /\ pin[ctx'] = "default"
    BY <1>3, GetCtxFacts
  <2>1. TypeOK'
    BY <1>3, <2>0, MaxCtxAssumption DEF TypeOK
  <2>2. ContextInv'
    BY <1>3, <2>0, MaxCtxAssumption DEF TypeOK, ContextInv, PhaseInv
  <2>3. PhaseInv'
    BY <1>3, <2>0, MaxCtxAssumption DEF TypeOK, ContextInv, PhaseInv
  <2>4. MutexInv'
    BY <1>3, <2>0, MaxCtxAssumption, NobodyAssumption DEF TypeOK, ContextInv, PhaseInv, MutexInv, Holding
  <2>5. PinInv'
    BY <1>3, <2>0, MaxCtxAssumption DEF TypeOK, ContextInv, PhaseInv, PinInv
  <2> QED
    BY <2>1, <2>2, <2>3, <2>4, <2>5
<1> QED
  BY <1>1, <1>2, <1>3 DEF InitStart, EngineUnlocked

(* tob_engine_init gives its context the lock.                             *)
LEMMA InitEndInv ==
    ASSUME IInv, NEW t \in Threads, ~Gone(t), InitEnd(t)
    PROVE  IInv'
<1> USE DEF IInv, engineVars, contextVars, threadVars, history
<1>0. pc[t] = "init" /\ use[t] = ctx /\ ctx \in Ctxs /\ ctx \notin freed
  BY MaxCtxAssumption DEF TypeOK, ContextInv, Gone, InitEnd
<1>1. TypeOK'
  BY <1>0, MaxCtxAssumption, NobodyAssumption DEF TypeOK, InitEnd
<1>2. ContextInv'
  BY <1>0, MaxCtxAssumption DEF TypeOK, ContextInv, PhaseInv, InitEnd
<1>3. PhaseInv'
  BY <1>0, MaxCtxAssumption DEF TypeOK, ContextInv, PhaseInv, InitEnd
<1>4. MutexInv'
  BY <1>0, MaxCtxAssumption, NobodyAssumption DEF TypeOK, ContextInv, PhaseInv, MutexInv, Holding, InitEnd
<1>5. PinInv'
  BY <1>0, MaxCtxAssumption DEF TypeOK, ContextInv, PhaseInv, PinInv, InitEnd
<1> QED
  BY <1>1, <1>2, <1>3, <1>4, <1>5

(* CMD_PIN puts the PIN into the context there is.                         *)
LEMMA SetPinInv ==
    ASSUME IInv, NEW t \in Threads, SetPin(t)
    PROVE  IInv'
<1> USE DEF IInv, engineVars, contextVars, threadVars, history
<1>1. CASE Undefined
  BY <1>1, UndefinedInv
<1>2. ASSUME ctx \notin freed, GetCtx, NEW p \in Pins, wanted' = p, pin' = [pin EXCEPT ![ctx'] = p],
             UNCHANGED <<functional, ready, freed, owner, threadVars, stray, undef>>
      PROVE  IInv'
  <2>0. /\ ctx' \in Ctxs /\ next' \in 1 .. MaxCtx + 1
        /\ ctx' < next' /\ next <= next'
        /\ ctx # 0 => ctx' = ctx
        /\ ctx = 0 => ctx' \notin freed \cup ready /\ pin[ctx'] = "default"
    BY <1>2, GetCtxFacts
  <2>1. TypeOK'
    <3>1. pin' \in [Ctxs -> Pins]
      BY <1>2, <2>0 DEF TypeOK
    <3> QED
      BY <1>2, <2>0, <3>1 DEF TypeOK
  <2>2. ContextInv'
    BY <1>2, <2>0, MaxCtxAssumption DEF TypeOK, ContextInv, PhaseInv
  <2>3. PhaseInv'
    BY <1>2, <2>0, MaxCtxAssumption DEF TypeOK, ContextInv, PhaseInv
  <2>4. MutexInv'
    BY <1>2, <2>0, MaxCtxAssumption, NobodyAssumption DEF TypeOK, ContextInv, PhaseInv, MutexInv, Holding
  <2>5. PinInv'
    <3>1. ctx' # 0 /\ pin'[ctx'] = wanted'
      BY <1>2, <2>0, MaxCtxAssumption DEF TypeOK
    <3>2. \A c \in Ctxs : c >= next' => c # ctx' /\ c >= next
      BY <2>0, MaxCtxAssumption DEF TypeOK
    <3>3. \A c \in Ctxs : c >= next' => pin'[c] = "default"
      BY <1>2, <3>2 DEF TypeOK, PinInv
    <3> QED
      BY <3>1, <3>3 DEF PinInv
  <2> QED
    BY <2>1, <2>2, <2>3, <2>4, <2>5
<1> QED
  BY <1>1, <1>2 DEF SetPin

(* CMD_MODEM_DEVICE and CMD_MODEM_BAUDRATE may allocate the context.       *)
LEMMA SetModemInv ==
    ASSUME IInv, NEW t \in Threads, SetModem(t)
    PROVE  IInv'
<1> USE DEF IInv, engineVars, contextVars, threadVars, history
<1>1. CASE Undefined
  BY <1>1, UndefinedInv
<1>2. ASSUME ctx \notin freed, GetCtx, UNCHANGED <<functional, contextVars, threadVars, history>>
      PROVE  IInv'
  <2>0. /\ ctx' \in Ctxs /\ next' \in 1 .. MaxCtx + 1
        /\ ctx' < next' /\ next <= next'
        /\ ctx # 0 => ctx' = ctx
        /\ ctx = 0 => ctx' \notin freed \cup ready /\ pin[ctx'] = "default"
    BY <1>2, GetCtxFacts
  <2>1. TypeOK'
    BY <1>2, <2>0, MaxCtxAssumption, NobodyAssumption DEF TypeOK
  <2>2. ContextInv'
    BY <1>2, <2>0, MaxCtxAssumption DEF TypeOK, ContextInv, PhaseInv
  <2>3. PhaseInv'
    BY <1>2, <2>0, MaxCtxAssumption DEF TypeOK, ContextInv, PhaseInv
  <2>4. MutexInv'
    BY <1>2, <2>0, MaxCtxAssumption, NobodyAssumption DEF TypeOK, ContextInv, PhaseInv, MutexInv, Holding
  <2>5. PinInv'
    BY <1>2, <2>0, MaxCtxAssumption DEF TypeOK, ContextInv, PhaseInv, PinInv
  <2> QED
    BY <2>1, <2>2, <2>3, <2>4, <2>5
<1> QED
  BY <1>1, <1>2 DEF SetModem

(* A function starts on the context in ex_data or in a live key.           *)
LEMMA BeginInv ==
    ASSUME IInv, NEW t \in Threads, NEW o \in Ops, NEW c \in Ctxs, c = ctx', pc[t] = "idle",
           GetCtx, Begin(t, o, c)
    PROVE  IInv'
<1> USE DEF IInv, Begin, engineVars, contextVars, threadVars, history
<1>0. /\ ctx' \in Ctxs /\ next' \in 1 .. MaxCtx + 1
      /\ ctx' < next' /\ next <= next'
      /\ ctx # 0 => ctx' = ctx
      /\ ctx = 0 => ctx' \notin freed \cup ready /\ pin[ctx'] = "default"
  BY GetCtxFacts
<1>1. TypeOK'
  BY <1>0, MaxCtxAssumption DEF TypeOK
<1>2. ContextInv'
  BY <1>0, MaxCtxAssumption DEF TypeOK, ContextInv, PhaseInv
<1>3. PhaseInv'
  BY <1>0, MaxCtxAssumption DEF TypeOK, ContextInv, PhaseInv
<1>4. MutexInv'
  BY <1>0, MaxCtxAssumption, NobodyAssumption DEF TypeOK, ContextInv, PhaseInv, MutexInv, Holding
<1>5. PinInv'
  BY <1>0, MaxCtxAssumption DEF TypeOK, ContextInv, PhaseInv, PinInv
<1> QED
  BY <1>1, <1>2, <1>3, <1>4, <1>5

(* The lock goes to a thread only when nobody has it.                      *)
LEMMA LockInv ==
    ASSUME IInv, NEW t \in Threads, ~Gone(t), Lock(t)
    PROVE  IInv'
<1> USE DEF IInv, Lock, Gone, engineVars, contextVars, threadVars, history
<1>1. TypeOK'
  BY MaxCtxAssumption DEF TypeOK
<1>2. ContextInv'
  BY MaxCtxAssumption DEF TypeOK, ContextInv, PhaseInv
<1>3. PhaseInv'
  BY MaxCtxAssumption DEF TypeOK, ContextInv, PhaseInv
<1>4. MutexInv'
  BY MaxCtxAssumption, NobodyAssumption DEF TypeOK, ContextInv, PhaseInv, MutexInv, Holding
<1>5. PinInv'
  BY MaxCtxAssumption DEF TypeOK, ContextInv, PhaseInv, PinInv
<1> QED
  BY <1>1, <1>2, <1>3, <1>4, <1>5

(* A first call into the SDK that succeeds keeps the lock.                 *)
LEMMA SdkReturnsInv ==
    ASSUME IInv, NEW t \in Threads, ~Gone(t), SdkReturns(t)
    PROVE  IInv'
<1> USE DEF IInv, SdkReturns, Gone, engineVars, contextVars, threadVars, history
<1>1. TypeOK'
  BY MaxCtxAssumption DEF TypeOK
<1>2. ContextInv'
  BY MaxCtxAssumption DEF TypeOK, ContextInv, PhaseInv
<1>3. PhaseInv'
  BY MaxCtxAssumption DEF TypeOK, ContextInv, PhaseInv
<1>4. MutexInv'
  BY MaxCtxAssumption, NobodyAssumption DEF TypeOK, ContextInv, PhaseInv, MutexInv, Holding
<1>5. PinInv'
  BY MaxCtxAssumption DEF TypeOK, ContextInv, PhaseInv, PinInv
<1> QED
  BY <1>1, <1>2, <1>3, <1>4, <1>5

(* A failed call into the SDK gives up the lock of its own context.        *)
LEMMA SdkFailsInv ==
    ASSUME IInv, NEW t \in Threads, ~Gone(t), SdkFails(t)
    PROVE  IInv'
<1> USE DEF IInv, SdkFails, Gone, engineVars, contextVars, threadVars, history
<1>1. TypeOK'
  BY MaxCtxAssumption DEF TypeOK
<1>2. ContextInv'
  BY MaxCtxAssumption DEF TypeOK, ContextInv, PhaseInv
<1>3. PhaseInv'
  BY MaxCtxAssumption DEF TypeOK, ContextInv, PhaseInv
<1>4. MutexInv'
  BY MaxCtxAssumption, NobodyAssumption DEF TypeOK, ContextInv, PhaseInv, MutexInv, Holding
<1>5. PinInv'
  BY MaxCtxAssumption DEF TypeOK, ContextInv, PhaseInv, PinInv
<1> QED
  BY <1>1, <1>2, <1>3, <1>4, <1>5

(* A second call that succeeds keeps the lock too.                         *)
LEMMA SdkAgainReturnsInv ==
    ASSUME IInv, NEW t \in Threads, ~Gone(t), SdkAgainReturns(t)
    PROVE  IInv'
<1> USE DEF IInv, SdkAgainReturns, Gone, engineVars, contextVars, threadVars, history
<1>1. TypeOK'
  BY MaxCtxAssumption DEF TypeOK
<1>2. ContextInv'
  BY MaxCtxAssumption DEF TypeOK, ContextInv, PhaseInv
<1>3. PhaseInv'
  BY MaxCtxAssumption DEF TypeOK, ContextInv, PhaseInv
<1>4. MutexInv'
  BY MaxCtxAssumption, NobodyAssumption DEF TypeOK, ContextInv, PhaseInv, MutexInv, Holding
<1>5. PinInv'
  BY MaxCtxAssumption DEF TypeOK, ContextInv, PhaseInv, PinInv
<1> QED
  BY <1>1, <1>2, <1>3, <1>4, <1>5

(* The unlock, and the new key that points to the context.                 *)
LEMMA UnlockInv ==
    ASSUME IInv, NEW t \in Threads, ~Gone(t), Unlock(t)
    PROVE  IInv'
<1> USE DEF IInv, Unlock, Gone, engineVars, contextVars, threadVars, history
<1>1. TypeOK'
  BY MaxCtxAssumption DEF TypeOK
<1>2. ContextInv'
  BY MaxCtxAssumption DEF TypeOK, ContextInv, PhaseInv
<1>3. PhaseInv'
  BY MaxCtxAssumption DEF TypeOK, ContextInv, PhaseInv
<1>4. MutexInv'
  BY MaxCtxAssumption, NobodyAssumption DEF TypeOK, ContextInv, PhaseInv, MutexInv, Holding
<1>5. PinInv'
  BY MaxCtxAssumption DEF TypeOK, ContextInv, PhaseInv, PinInv
<1> QED
  BY <1>1, <1>2, <1>3, <1>4, <1>5

(* A stray unlock touches nothing but the lock, and is remembered when it  *)
(* releases the lock of another thread.                                    *)
LEMMA SignUnknownDigestInv ==
    ASSUME IInv, NEW t \in Threads, SignUnknownDigest(t)
    PROVE  IInv'
<1> USE DEF IInv, engineVars, contextVars, threadVars, history
<1>1. CASE Undefined
  BY <1>1, UndefinedInv
<1>2. ASSUME key[t] # 0, key[t] \notin freed,
             \/ /\ owner' = [owner EXCEPT ![key[t]] = Nobody]
                /\ stray' = (stray \/ owner[key[t]] # Nobody)
             \/ UNCHANGED <<owner, stray>>,
             UNCHANGED <<engineVars, ready, freed, pin, threadVars, wanted, undef>>
      PROVE  IInv'
  <2>0. key[t] = ctx
    BY <1>2 DEF ContextInv
  <2>1. TypeOK'
    <3>1. owner' \in [Ctxs -> Threads \cup {Nobody}] /\ stray' \in BOOLEAN
      BY <1>2 DEF TypeOK
    <3> QED
      BY <1>2, <3>1 DEF TypeOK
  <2>2. ContextInv'
    BY <1>2, MaxCtxAssumption DEF TypeOK, ContextInv, PhaseInv
  <2>3. PhaseInv'
    BY <1>2, MaxCtxAssumption DEF TypeOK, ContextInv, PhaseInv
  <2>4. MutexInv'
    <3>1. CASE UNCHANGED <<owner, stray>>
      BY <1>2, <3>1 DEF MutexInv
    <3>2. CASE stray' = (stray \/ owner[key[t]] # Nobody)
      <4> SUFFICES ASSUME ~stray', NEW s \in Threads, pc'[s] \in Holding
                   PROVE  FALSE
        BY DEF MutexInv
      <4>1. ~stray /\ owner[ctx] = Nobody
        BY <2>0, <3>2
      <4>2. use[s] \in ready /\ owner[use[s]] = s
        BY <1>2, <4>1 DEF MutexInv
      <4>3. use[s] = ctx
        BY <4>2 DEF ContextInv
      <4> QED
        BY <4>1, <4>2, <4>3, NobodyAssumption
    <3> QED
      BY <1>2, <3>1, <3>2
  <2>5. PinInv'
    BY <1>2, MaxCtxAssumption DEF TypeOK, ContextInv, PhaseInv, PinInv
  <2> QED
    BY <2>1, <2>2, <2>3, <2>4, <2>5
<1> QED
  BY <1>1, <1>2 DEF SignUnknownDigest

(* Freeing a key leaves contexts and locks alone.                          *)
LEMMA FreeKeyInv ==
    ASSUME IInv, NEW t \in Threads, FreeKey(t)
    PROVE  IInv'
<1> USE DEF IInv, FreeKey, engineVars, contextVars, threadVars, history
<1>1. TypeOK'
  BY MaxCtxAssumption DEF TypeOK
<1>2. ContextInv'
  BY MaxCtxAssumption DEF TypeOK, ContextInv, PhaseInv
<1>3. PhaseInv'
  BY MaxCtxAssumption DEF TypeOK, ContextInv, PhaseInv
<1>4. MutexInv'
  BY MaxCtxAssumption, NobodyAssumption DEF TypeOK, ContextInv, PhaseInv, MutexInv, Holding
<1>5. PinInv'
  BY MaxCtxAssumption DEF TypeOK, ContextInv, PhaseInv, PinInv
<1> QED
  BY <1>1, <1>2, <1>3, <1>4, <1>5

(* tob_engine_finish starts on the context in ex_data, which may have been *)
(* freed.                                                                  *)
LEMMA FinishStartInv ==
    ASSUME IInv, NEW t \in Threads, FinishStart(t)
    PROVE  IInv'
<1> USE DEF IInv, engineVars, contextVars, threadVars, history
<1>0. /\ ctx' \in Ctxs /\ next' \in 1 .. MaxCtx + 1
      /\ ctx' < next' /\ next <= next'
      /\ ctx # 0 => ctx' = ctx
      /\ ctx = 0 => ctx' \notin freed \cup ready /\ pin[ctx'] = "default"
  BY GetCtxFacts DEF FinishStart
<1>1. TypeOK'
  <2>1. functional' \in BOOLEAN /\ pc' \in [Threads -> PCs]
    BY DEF TypeOK, FinishStart
  <2>2. ctx' \in 0 .. MaxCtx
    BY <1>0, MaxCtxAssumption
  <2>3. use' \in [Threads -> 0 .. MaxCtx]
    BY <2>2 DEF TypeOK, FinishStart
  <2> QED
    BY <1>0, <2>1, <2>2, <2>3 DEF TypeOK, FinishStart
<1>2. ContextInv'
  BY <1>0, MaxCtxAssumption DEF TypeOK, ContextInv, PhaseInv, FinishStart
<1>3. PhaseInv'
  BY <1>0, MaxCtxAssumption DEF TypeOK, ContextInv, PhaseInv, FinishStart
<1>4. MutexInv'
  BY <1>0, MaxCtxAssumption, NobodyAssumption DEF TypeOK, ContextInv, PhaseInv, MutexInv, Holding, FinishStart
<1>5. PinInv'
  BY <1>0, MaxCtxAssumption DEF TypeOK, ContextInv, PhaseInv, PinInv, FinishStart
<1> QED
  BY <1>1, <1>2, <1>3, <1>4, <1>5

(* tob_engine_finish waits for the lock of a context that has one.         *)
LEMMA FinishLockInv ==
    ASSUME IInv, NEW t \in Threads, ~Gone(t), FinishLock(t)
    PROVE  IInv'
<1> USE DEF IInv, FinishLock, Gone, engineVars, contextVars, threadVars, history
<1>1. TypeOK'
  BY MaxCtxAssumption DEF TypeOK
<1>2. ContextInv'
  BY MaxCtxAssumption DEF TypeOK, ContextInv, PhaseInv
<1>3. PhaseInv'
  BY MaxCtxAssumption DEF TypeOK, ContextInv, PhaseInv
<1>4. MutexInv'
  BY MaxCtxAssumption, NobodyAssumption DEF TypeOK, ContextInv, PhaseInv, MutexInv, Holding
<1>5. PinInv'
  BY MaxCtxAssumption DEF TypeOK, ContextInv, PhaseInv, PinInv
<1> QED
  BY <1>1, <1>2, <1>3, <1>4, <1>5

(* The context is freed when its lock is this thread's, or when it has     *)
(* none: nobody else is past it.                                           *)
LEMMA FinishFreeInv ==
    ASSUME IInv, NEW t \in Threads, ~Gone(t), FinishFree(t)
    PROVE  IInv'
<1> USE DEF IInv, engineVars, contextVars, threadVars, history
<1>0. pc[t] = "fin_free" /\ use[t] = ctx /\ ctx \in Ctxs /\ ctx \notin freed /\ (ctx \in ready => owner[ctx] = t)
  BY MaxCtxAssumption DEF TypeOK, ContextInv, Gone, FinishFree
<1>1. TypeOK'
  BY <1>0, MaxCtxAssumption, NobodyAssumption DEF TypeOK, FinishFree
<1>2. ContextInv'
  BY <1>0, MaxCtxAssumption DEF TypeOK, ContextInv, PhaseInv, FinishFree
<1>3. PhaseInv'
  BY <1>0, MaxCtxAssumption DEF TypeOK, ContextInv, PhaseInv, FinishFree
<1>4. MutexInv'
  BY <1>0, MaxCtxAssumption, NobodyAssumption DEF TypeOK, ContextInv, PhaseInv, MutexInv, Holding, FinishFree
<1>5. PinInv'
  BY <1>0, MaxCtxAssumption DEF TypeOK, ContextInv, PhaseInv, PinInv, FinishFree
<1> QED
  BY <1>1, <1>2, <1>3, <1>4, <1>5

(* The thread that has freed the context clears ex_data.                   *)
LEMMA FinishClearInv ==
    ASSUME IInv, NEW t \in Threads, FinishClear(t)
    PROVE  IInv'
<1> USE DEF IInv, FinishClear, engineVars, contextVars, threadVars, history
<1>1. TypeOK'
  BY MaxCtxAssumption DEF TypeOK
<1>2. ContextInv'
  BY MaxCtxAssumption DEF TypeOK, ContextInv, PhaseInv
<1>3. PhaseInv'
  BY MaxCtxAssumption DEF TypeOK, ContextInv, PhaseInv
<1>4. MutexInv'
  BY MaxCtxAssumption, NobodyAssumption DEF TypeOK, ContextInv, PhaseInv, MutexInv, Holding
<1>5. PinInv'
  BY MaxCtxAssumption DEF TypeOK, ContextInv, PhaseInv, PinInv
<1> QED
  BY <1>1, <1>2, <1>3, <1>4, <1>5

(* Every step of the engine preserves IInv.                                *)
LEMMA NextInv == IInv /\ [Next]_vars => IInv'
<1> SUFFICES ASSUME IInv, [Next]_vars PROVE IInv'
  OBVIOUS
<1>1. CASE UNCHANGED vars
  BY <1>1 DEF IInv, TypeOK, ContextInv, PhaseInv, MutexInv, PinInv, vars, engineVars, contextVars, threadVars, history
<1>2. ASSUME NEW t \in Threads, Step(t) PROVE IInv'
  BY <1>2, UndefinedInv, InitEndInv, LockInv, SdkReturnsInv, SdkFailsInv, SdkAgainReturnsInv, UnlockInv,
     FinishLockInv, FinishFreeInv, FinishClearInv DEF Step
<1>3. ASSUME NEW t \in Threads, Enter(t) PROVE IInv'
  <2>1. ASSUME SetPin(t) \/ SetModem(t) PROVE IInv'
    BY <2>1, SetPinInv, SetModemInv
  <2>2. ASSUME InitStart(t) \/ FinishStart(t) \/ SignUnknownDigest(t) \/ FreeKey(t) PROVE IInv'
    BY <2>2, InitStartInv, FinishStartInv, SignUnknownDigestInv, FreeKeyInv
  <2>3. ASSUME NEW o \in {"sign", "decrypt"}, BeginWithKey(t, o) PROVE IInv'
    <3>1. CASE Undefined
      BY <3>1, UndefinedInv
    <3>2. ASSUME key[t] \notin freed, Begin(t, o, key[t]), UNCHANGED <<ctx, next>> PROVE IInv'
      <4>1. key[t] = ctx /\ ctx \in Ctxs
        BY <2>3, <3>2, MaxCtxAssumption DEF BeginWithKey, IInv, TypeOK, ContextInv
      <4>2. GetCtx /\ Begin(t, o, ctx') /\ ctx' \in Ctxs /\ pc[t] = "idle"
        BY <2>3, <3>2, <4>1 DEF GetCtx, BeginWithKey
      <4> QED
        BY <4>2, BeginInv
    <3> QED
      BY <2>3, <3>1, <3>2 DEF BeginWithKey
  <2>4. ASSUME NEW o \in TwoStep, pc[t] = "idle", GetCtx, Begin(t, o, ctx') PROVE IInv'
    BY <2>4, GetCtxFacts, BeginInv
  <2> QED
    BY <1>3, <2>1, <2>2, <2>3, <2>4
       DEF Enter, tob_key_signing_sign, tob_key_signing_decrypt, tob_extract_certificate,
           tob_engine_load_signing_privkey, tob_engine_load_available_privkey
<1> QED
  BY <1>1, <1>2, <1>3 DEF Next

(* IInv holds in every state of the engine, whatever the application does. *)
THEOREM EngineInvariance == Spec => []IInv
<1>1. IInv /\ [Next]_vars => IInv'
  BY NextInv
<1> QED
  BY InitInv, <1>1, PTL DEF Spec

(* The SDK serves one thread at a time until an unlock goes astray: the    *)
(* threads past sim_lock hold the one lock there is, and tob_engine_init   *)
(* runs only while there is none.                                          *)
THEOREM SdkIsExclusive == Spec => []SdkExclusive
<1>1. IInv => SdkExclusive
  <2> SUFFICES ASSUME IInv, ~stray, NEW s \in InSdk, NEW t \in InSdk PROVE s = t
    BY DEF SdkExclusive, OneThreadInSdk
  <2>1. \A u \in Threads : pc[u] \in {"sdk", "sdk_again"} => use[u] \in ready /\ owner[use[u]] = u
    BY DEF IInv, MutexInv, Holding
  <2>2. \A u \in Threads : pc[u] = "init" => ready = {}
    BY DEF IInv, PhaseInv
  <2>3. ready \subseteq {ctx}
    BY DEF IInv, ContextInv
  <2>4. CASE pc[s] = "init" /\ pc[t] = "init"
    BY <2>4 DEF IInv, PhaseInv, InSdk
  <2>5. CASE pc[s] # "init" /\ pc[t] # "init"
    BY <2>1, <2>3, <2>5 DEF InSdk
  <2> QED
    BY <2>1, <2>2, <2>4, <2>5 DEF InSdk
<1> QED
  BY <1>1, EngineInvariance, PTL

(* tob_engine_finish, waiting for the lock, never frees the context under  *)
(* a thread that has got it, until an unlock goes astray.                  *)
THEOREM OwnersAreSafe == Spec => []OwnedIsLive
<1>1. IInv => OwnedIsLive
  BY DEF IInv, ContextInv, MutexInv, OwnedIsLive
<1> QED
  BY <1>1, EngineInvariance, PTL

(* A call into the SDK on a live context takes the PIN set last.           *)
THEOREM PinIsHandedOn == Spec => []PinIsTheOneSet
<1>1. IInv => PinIsTheOneSet
  <2> SUFFICES ASSUME IInv, NEW t \in Threads, pc[t] \in {"sdk", "sdk_again"}, use[t] \notin freed
               PROVE  pin[use[t]] = wanted
    BY DEF PinIsTheOneSet
  <2>1. use[t] # 0 /\ use[t] = ctx
    BY DEF IInv, ContextInv
  <2> QED
    BY <2>1 DEF IInv, PinInv
<1> QED
  BY <1>1, EngineInvariance, PTL
=============================================================================
