---------------------------- MODULE MiasKeyPairs ----------------------------
(***************************************************************************)
(* The key pair list of class MIAS (external_libs/tob_sim/common/src/      *)
(* MIAS.cpp): listKeyPairs(), exchange by exchange, and the look-up        *)
(* getKeyPairByContainerId() that starts it.                               *)
(*                                                                         *)
(* The card holds CONTAINERS_INFO, one record for each container (the      *)
(* sequence Records), and FILE_DIR, whose entries name the certificate     *)
(* files ("kscNN", "kxcNN") of containers (the sequence Dir holds NN).     *)
(* An exchange is answered 9000, answered with another status word or      *)
(* lost.                                                                   *)
(***************************************************************************)
EXTENDS Integers, Sequences, FiniteSets

CONSTANTS
    Records,       \* CONTAINERS_INFO: "empty", "rsa", or "other" for a key size
                   \* the code knows no key id for
    Dir,           \* FILE_DIR: the container of each certificate file, -1 for
                   \* any other file
    KeyPoolSize,   \* key_pool_size
    KidModulus,    \* a key id has log2(KidModulus) bits for the container
    Losses,        \* ways an exchange may go wrong: "refused", "lost"
    SigningId,     \* the container of the signing key
    MaxLives       \* bound on the restarts of the process in a behaviour

ASSUME RecordsAssumption == Records \in Seq({"empty", "rsa", "other"})
ASSUME DirAssumption == Dir \in Seq(Nat \cup {-1})
ASSUME KeyPoolSizeAssumption == KeyPoolSize \in Nat \ {0}
ASSUME KidModulusAssumption == KidModulus \in Nat \ {0}
ASSUME LossesAssumption == Losses \subseteq {"refused", "lost"}
ASSUME SigningIdAssumption == SigningId \in Nat
ASSUME MaxLivesAssumption == MaxLives \in Nat

VARIABLES
    keypairs,   \* _keypairs, as a sequence; each knows its record (history)
    num,        \* _keypairs_num
    pc,
    i,          \* the loop variable, from 0
    id,         \* the argument of getKeyPairByContainerId
    found,      \* its result: 0, or the position of the key pair in keypairs
    clean,      \* history: no exchange of the listing went wrong
    life        \* history: the number of restarts so far

vars == <<keypairs, num, pc, i, id, found, clean, life>>

Ids == 0 .. Len(Records)

KeyPair == [record : 1 .. Len(Records), kid : 0 .. KidModulus - 1, cert : 0 .. Len(Dir)]

Init ==
    /\ keypairs = <<>>
    /\ num = -1
    /\ pc = "idle"
    /\ i = 0
    /\ id = 0
    /\ found = 0
    /\ clean = TRUE
    /\ life = 0

TypeOK ==
    /\ keypairs \in Seq(KeyPair)
    /\ num \in -1 .. KeyPoolSize
    /\ pc \in {"idle", "select_info", "read_info", "select_dir", "read_count", "read_dir", "search"}
    /\ i \in Nat
    /\ id \in Ids
    /\ found \in 0 .. KeyPoolSize
    /\ clean \in BOOLEAN
    /\ life \in 0 .. MaxLives

----------------------------------------------------------------------------
\* (kid & 0x0F) - 1
ContainerOf(kp) == kp.kid - 1

\* Mutant: the key id counts the key pairs in the list, not the records.
KidByPosition(k) == IF Records[k + 1] = "rsa" THEN (num + 2) % KidModulus ELSE 0

\* The low bits of kid; a key of unknown size keeps the 0 of a static object.
Kid(k) == IF Records[k + 1] = "rsa" THEN (k + 1) % KidModulus ELSE 0

\* The first of the listed key pairs of container c, 0 if there is none.
FirstOf(c) ==
    LET of == {j \in 1 .. num : ContainerOf(keypairs[j]) = c}
    IN  IF of = {} THEN 0 ELSE CHOOSE j \in of : \A k \in of : j <= k

\* Mutant: the list is asked for again whenever a key is looked up.
LookUpAlwaysLists(c) ==
    /\ pc = "idle"
    /\ id' = c
    /\ pc' = "select_info"
    /\ UNCHANGED <<keypairs, num, i, found, clean, life>>

\* getKeyPairByContainerId and the first test of listKeyPairs.
LookUp(c) ==
    /\ pc = "idle"
    /\ id' = c
    /\ pc' = IF num # -1 THEN "search" ELSE "select_info"
    /\ UNCHANGED <<keypairs, num, i, found, clean, life>>

\* SELECT of CONTAINERS_INFO; without its size the listing ends.
SelectInfo ==
    /\ pc = "select_info"
    /\ \/ pc' = "read_info" /\ clean' = TRUE
       \/ Losses # {} /\ pc' = "search" /\ UNCHANGED clean
    /\ i' = 0
    /\ UNCHANGED <<keypairs, num, id, found, life>>

\* The end of the loop over the records.
InfoDone ==
    /\ num' = num + 1
    /\ pc' = "select_dir"
    /\ UNCHANGED keypairs

\* Mutant: the pool is full one record later.
ReadInfoOverflow ==
    /\ pc = "read_info"
    /\ \/ /\ i = Len(Records)
          /\ InfoDone /\ UNCHANGED <<i, clean>>
       \/ /\ i < Len(Records) /\ Records[i + 1] # "empty"
          /\ num' = num + 1
          /\ keypairs' = Append(keypairs, [record |-> i + 1, kid |-> Kid(i), cert |-> 0])
          /\ i' = i + 1
          /\ UNCHANGED <<pc, clean>>
       \/ /\ i < Len(Records) /\ Records[i + 1] = "empty"
          /\ i' = i + 1
          /\ UNCHANGED <<keypairs, num, pc, clean>>
    /\ UNCHANGED <<id, found, life>>

\* READ BINARY of record i: a lost record is skipped, a refused one ends the
\* loop, and so does a full pool.
ReadInfo ==
    /\ pc = "read_info"
    /\ \/ /\ i = Len(Records)
          /\ InfoDone /\ UNCHANGED <<i, clean>>
       \/ /\ i < Len(Records) /\ "lost" \in Losses
          /\ i' = i + 1
          /\ clean' = FALSE
          /\ UNCHANGED <<keypairs, num, pc>>
       \/ /\ i < Len(Records) /\ "refused" \in Losses
          /\ clean' = FALSE
          /\ InfoDone /\ UNCHANGED i
       \/ /\ i < Len(Records) /\ Records[i + 1] = "empty"
          /\ i' = i + 1
          /\ UNCHANGED <<keypairs, num, pc, clean>>
       \/ /\ i < Len(Records) /\ Records[i + 1] # "empty"
          /\ num >= KeyPoolSize - 1
          /\ InfoDone /\ UNCHANGED <<i, clean>>
       \/ /\ i < Len(Records) /\ Records[i + 1] # "empty"
          /\ num < KeyPoolSize - 1
          /\ num' = num + 1
          /\ keypairs' = Append(keypairs, [record |-> i + 1, kid |-> Kid(i), cert |-> 0])
          /\ i' = i + 1
          /\ UNCHANGED <<pc, clean>>
    /\ UNCHANGED <<id, found, life>>

\* SELECT of FILE_DIR, and READ BINARY of its first byte, the number of files.
SelectDir ==
    /\ pc = "select_dir"
    /\ \/ pc' = "read_count" /\ UNCHANGED clean
       \/ Losses # {} /\ pc' = "search" /\ clean' = FALSE
    /\ UNCHANGED <<keypairs, num, i, id, found, life>>

ReadCount ==
    /\ pc = "read_count"
    /\ i' = 0
    /\ \/ pc' = "read_dir" /\ UNCHANGED clean
       \/ Losses # {} /\ pc' = "search" /\ clean' = FALSE
    /\ UNCHANGED <<keypairs, num, id, found, life>>

\* Mutant: the first file that is no certificate ends the loop.
ReadDirEndsEarly ==
    /\ pc = "read_dir"
    /\ \/ /\ i = Len(Dir) \/ Dir[i + 1] = -1
          /\ pc' = "search"
          /\ UNCHANGED <<keypairs, i, clean>>
       \/ /\ i < Len(Dir) /\ Dir[i + 1] # -1
          /\ i' = i + 1
          /\ LET j == FirstOf(Dir[i + 1])
             IN  keypairs' = IF j = 0 THEN keypairs ELSE [keypairs EXCEPT ![j].cert = i + 1]
          /\ UNCHANGED <<pc, clean>>
    /\ UNCHANGED <<num, id, found, life>>

\* READ BINARY of entry i: the file goes to the first key pair of the
\* container it names; a lost or refused entry is skipped.
ReadDir ==
    /\ pc = "read_dir"
    /\ \/ /\ i = Len(Dir)
          /\ pc' = "search"
          /\ UNCHANGED <<keypairs, i, clean>>
       \/ /\ i < Len(Dir) /\ Losses # {}
          /\ i' = i + 1
          /\ clean' = FALSE
          /\ UNCHANGED <<keypairs, pc>>
       \/ /\ i < Len(Dir)
          /\ i' = i + 1
          /\ LET j == FirstOf(Dir[i + 1])
             IN  keypairs' = IF Dir[i + 1] = -1 \/ j = 0 THEN keypairs
                             ELSE [keypairs EXCEPT ![j].cert = i + 1]
          /\ UNCHANGED <<pc, clean>>
    /\ UNCHANGED <<num, id, found, life>>

\* The loop of getKeyPairByContainerId, whatever listKeyPairs returned.
Search ==
    /\ pc = "search"
    /\ found' = FirstOf(id)
    /\ pc' = "idle"
    /\ UNCHANGED <<keypairs, num, i, id, clean, life>>

\* The process ends and another starts: MIAS::MIAS.
Restart ==
    /\ life < MaxLives /\ life' = life + 1
    /\ keypairs' = <<>>
    /\ num' = -1
    /\ pc' = "idle"
    /\ i' = 0
    /\ id' = 0
    /\ found' = 0
    /\ clean' = TRUE

Step == SelectInfo \/ ReadInfo \/ SelectDir \/ ReadCount \/ ReadDir \/ Search

Next == (\E c \in Ids : LookUp(c)) \/ Step \/ Restart

Spec == Init /\ [][Next]_vars

----------------------------------------------------------------------------
(* Properties                                                              *)

Listed == pc \in {"idle", "search"} /\ num # -1

(* The list never outgrows _keypairs[], and _keypairs_num is its length    *)
(* once it is listed (listKeyPairs, the test against key_pool_size - 1 and *)
(* the increment after the loop).                                          *)
PoolRespected ==
    /\ Len(keypairs) <= KeyPoolSize
    /\ Listed => num = Len(keypairs)

\* A certificate file belongs to the container it is numbered for, the first
\* container having the number base.  The code counts from 0, its comment
\* from 1.
Numbered(base) ==
    \A j \in 1 .. Len(keypairs) :
        keypairs[j].cert # 0 => Dir[keypairs[j].cert] = keypairs[j].record - 1 + base

(* Lost and refused records never shift the numbering: the key pair that   *)
(* getKeyPairByContainerId finds is the one in the record of the container *)
(* it was asked for, and the certificate files go to the containers of the *)
(* numbers in their names, wherever these numbers start.                   *)
LookUpIsRight ==
    /\ pc = "idle" /\ found # 0 => keypairs[found].record = id + 1
    /\ \E base \in {0, 1} : Numbered(base)

\* The records before record k that take a place in the pool.
Before(k) == {m \in 1 .. k - 1 : Records[m] # "empty"}

(* A listing none of whose exchanges went wrong finds every key pair the   *)
(* pool has room for, and the certificate of each such container that has  *)
(* one, wherever the numbers of the files start.                           *)
CleanListIsComplete ==
    Listed /\ clean =>
        \E base \in {0, 1} :
            /\ Numbered(base)
            /\ \A k \in 1 .. Len(Records) :
                  Records[k] = "rsa" /\ Cardinality(Before(k)) < KeyPoolSize =>
                      \E j \in 1 .. Len(keypairs) :
                          /\ keypairs[j].record = k
                          /\ (\E d \in 1 .. Len(Dir) : Dir[d] = k - 1 + base) => keypairs[j].cert # 0

----------------------------------------------------------------------------
(* Refinement: what the list says of the signing key is a KeyCache.        *)
SigningKey ==
    LET j == FirstOf(SigningId)
    IN  IF ~Listed THEN "unlisted"
        ELSE IF j = 0 THEN "none"
        ELSE IF keypairs[j].cert = 0 THEN "nocert" ELSE "full"

Cache == INSTANCE KeyCache WITH keys <- SigningKey, Answers <- {"full", "nocert", "none"}

(* The list behaves like the variable `keys' of TobSdk: unknown, then one  *)
(* of three answers, never revised while the process lives, however often  *)
(* keys are looked up.                                                     *)
CachedForLife == Cache!Spec
=============================================================================
