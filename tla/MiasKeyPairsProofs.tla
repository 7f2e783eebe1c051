------------------------- MODULE MiasKeyPairsProofs -------------------------
(***************************************************************************)
(* Proofs about MiasKeyPairs, for every content of CONTAINERS_INFO and     *)
(* FILE_DIR, every pool size and every way exchanges may go wrong.         *)
(***************************************************************************)
EXTENDS MiasKeyPairs, SequenceTheorems, FiniteSetTheorems, WellFoundedInduction, TLAPS

DataOK ==
    /\ keypairs \in Seq(KeyPair)
    /\ num \in Int
    /\ pc \in {"idle", "select_info", "read_info", "select_dir", "read_count", "read_dir", "search"}
    /\ i \in Nat
    /\ id \in Ids
    /\ found \in Nat
    /\ life \in Nat

\* num is -1 before the first listing, the last position in use while the
\* records are read, and the length of the list from then on.
CountInv ==
    /\ Len(keypairs) <= KeyPoolSize
    /\ num = -1 => keypairs = <<>> /\ pc \in {"idle", "select_info", "read_info", "search"}
    /\ pc = "select_info" => num = -1
    /\ pc = "read_info" => num = Len(keypairs) - 1 /\ i <= Len(Records)
    /\ pc \notin {"select_info", "read_info"} /\ num # -1 => num = Len(keypairs)
    /\ pc = "read_dir" => i <= Len(Dir)

\* Every key pair has the key id of its record, and a certificate file, and no
\* other file, numbered for the container of that key id.
PairInv ==
    \A k \in 1 .. Len(keypairs) :
        /\ keypairs[k].kid = Kid(keypairs[k].record - 1)
        /\ keypairs[k].cert # 0 => Dir[keypairs[k].cert] # -1 /\ Dir[keypairs[k].cert] = ContainerOf(keypairs[k])

\* j is the first key pair in the list of container c.
IsFirst(j, c) ==
    /\ j \in 1 .. Len(keypairs)
    /\ ContainerOf(keypairs[j]) = c
    /\ \A k \in 1 .. j - 1 : ContainerOf(keypairs[k]) # c

FoundInv == pc = "idle" /\ found # 0 => num # -1 /\ IsFirst(found, id)

\* Record k is in the list.
InList(k) == \E j \in 1 .. Len(keypairs) : keypairs[j].record = k

\* A listing without loss has all the records so far, then all the pool has
\* room for, and the certificates of all the directory entries so far.
RecordsInv ==
    /\ pc = "read_info" /\ clean =>
          /\ Len(keypairs) = Cardinality(Before(i + 1))
          /\ \A k \in 1 .. i : Records[k] # "empty" => InList(k)
    /\ pc \notin {"select_info", "read_info"} /\ num # -1 /\ clean =>
          \A k \in 1 .. Len(Records) :
              Records[k] # "empty" /\ Cardinality(Before(k)) < KeyPoolSize => InList(k)

CertInv ==
    /\ pc = "read_dir" /\ clean =>
          \A d \in 1 .. i : \A j \in 1 .. Len(keypairs) :
              Dir[d] # -1 /\ IsFirst(j, Dir[d]) => keypairs[j].cert # 0
    /\ Listed /\ clean =>
          \A d \in 1 .. Len(Dir) : \A j \in 1 .. Len(keypairs) :
              Dir[d] # -1 /\ IsFirst(j, Dir[d]) => keypairs[j].cert # 0

\* The inductive invariant.
ListInv ==
    /\ DataOK
    /\ clean \in BOOLEAN
    /\ CountInv
    /\ PairInv
    /\ FoundInv
    /\ RecordsInv
    /\ CertInv

(* A set of naturals that is not empty has a least element.                *)
LEMMA LeastElement ==
    ASSUME NEW T, T \subseteq Nat, T # {}
    PROVE  \E x \in T : \A y \in T : x <= y
  <1> DEFINE R == OpToRel(<, Nat)
  <1>1. IsWellFoundedOn(R, Nat)
    BY NatLessThanWellFounded
  <1>2. \A x, y \in Nat : <<y, x>> \in R <=> y < x
    BY DEF OpToRel
  <1> HIDE DEF R
  <1>3. PICK x \in T : \A y \in T : ~(<<y, x>> \in R)
    BY <1>1, WFMin
  <1>4. \A y \in T : x <= y
    <2> TAKE y \in T
    <2>1. x \in Nat /\ y \in Nat /\ ~(<<y, x>> \in R)
      BY <1>3
    <2>2. ~(y < x)
      BY <1>2, <2>1, Zenon
    <2> QED BY <2>1, <2>2
  <1> QED BY <1>4

(* A key id fits, and is the number of the record if there are fewer of    *)
(* them than key ids.                                                      *)
LEMMA KidFits ==
    ASSUME NEW k \in Nat, k < Len(Records)
    PROVE  /\ Kid(k) \in 0 .. KidModulus - 1
           /\ Len(Records) < KidModulus /\ Kid(k) # 0 => Kid(k) = k + 1
           /\ Len(Records) < KidModulus /\ Records[k + 1] = "rsa" => Kid(k) = k + 1
  <1> USE KidModulusAssumption
  <1>1. (k + 1) % KidModulus \in 0 .. KidModulus - 1
    OBVIOUS
  <1>2. Len(Records) \in Nat
    BY RecordsAssumption, LenProperties
  <1>3. Len(Records) < KidModulus => (k + 1) % KidModulus = k + 1
    BY <1>2
  <1> QED BY <1>1, <1>3 DEF Kid

(* The loop over the list finds the first key pair of the container, and   *)
(* nothing only if there is none.                                          *)
LEMMA FirstOfIsFirst ==
    ASSUME DataOK, num = Len(keypairs), NEW c
    PROVE  \/ FirstOf(c) = 0 /\ \A k \in 1 .. Len(keypairs) : ContainerOf(keypairs[k]) # c
           \/ IsFirst(FirstOf(c), c)
  <1> DEFINE of == {k \in 1 .. num : ContainerOf(keypairs[k]) = c}
  <1>1. Len(keypairs) \in Nat
    BY LenProperties DEF DataOK
  <1>2. CASE of = {}
    BY <1>2 DEF FirstOf
  <1>3. CASE of # {}
    <2>1. \E x \in of : \A y \in of : x <= y
      <3>1. of \subseteq Nat
        BY <1>1
      <3> QED BY <1>3, <3>1, LeastElement
    <2>2. FirstOf(c) = CHOOSE x \in of : \A y \in of : x <= y
      BY <1>3 DEF FirstOf
    <2> HIDE DEF of
    <2>3. FirstOf(c) \in of /\ \A y \in of : FirstOf(c) <= y
      BY <2>1, <2>2
    <2>4. FirstOf(c) \in 1 .. Len(keypairs) /\ ContainerOf(keypairs[FirstOf(c)]) = c
      BY <2>3 DEF of
    <2>5. \A k \in 1 .. FirstOf(c) - 1 : k \notin of
      BY <1>1, <2>3, <2>4
    <2> HIDE DEF FirstOf, ContainerOf
    <2>6. \A k \in 1 .. FirstOf(c) - 1 : ContainerOf(keypairs[k]) # c
      BY <1>1, <2>4, <2>5 DEF of
    <2> QED BY <2>4, <2>6 DEF IsFirst
  <1> QED BY <1>2, <1>3

(* A list has one first key pair of a container.                           *)
LEMMA FirstIsUnique ==
    ASSUME DataOK, NEW c, NEW j, NEW k, IsFirst(j, c), IsFirst(k, c)
    PROVE  j = k
  <1> USE DEF IsFirst
  <1>1. Len(keypairs) \in Nat
    BY LenProperties DEF DataOK
  <1>2. ~(j < k) /\ ~(k < j)
    BY <1>1
  <1> QED BY <1>1, <1>2

(* The places records take in the pool.                                    *)
LEMMA BeforeGrows ==
    ASSUME NEW k \in Nat \ {0}
    PROVE  /\ Cardinality(Before(k)) \in Nat
           /\ Records[k] # "empty" => Cardinality(Before(k + 1)) = Cardinality(Before(k)) + 1
           /\ Records[k] = "empty" => Before(k + 1) = Before(k)
           /\ \A m \in Nat : m >= k => Cardinality(Before(k)) <= Cardinality(Before(m))
  <1>1. \A m \in Nat : IsFiniteSet(Before(m))
    <2> TAKE m \in Nat
    <2>1. IsFiniteSet(1 .. m - 1)
      BY FS_Interval
    <2>2. Before(m) \in SUBSET (1 .. m - 1)
      BY DEF Before
    <2> QED BY <2>1, <2>2, FS_Subset
  <1>2. Cardinality(Before(k)) \in Nat
    BY <1>1, FS_CardinalityType
  <1>3. ASSUME Records[k] # "empty"
        PROVE  Cardinality(Before(k + 1)) = Cardinality(Before(k)) + 1
    <2>1. Before(k + 1) = Before(k) \cup {k} /\ k \notin Before(k)
      BY <1>3 DEF Before
    <2> QED BY <1>1, <2>1, FS_AddElement
  <1>4. Records[k] = "empty" => Before(k + 1) = Before(k)
    BY DEF Before
  <1>5. ASSUME NEW m \in Nat, m >= k
        PROVE  Cardinality(Before(k)) <= Cardinality(Before(m))
    <2>1. Before(k) \in SUBSET Before(m)
      BY <1>5 DEF Before
    <2> QED BY <1>1, <2>1, FS_Subset
  <1> QED BY <1>2, <1>3, <1>4, <1>5

(* The initial states satisfy the invariant.                               *)
LEMMA InitListInv == Init => ListInv
  <1> SUFFICES ASSUME Init PROVE ListInv
    OBVIOUS
  <1> USE DEF Init
  <1>1. Len(keypairs) = 0 /\ keypairs \in Seq(KeyPair) /\ Len(Records) \in Nat
    BY EmptySeq, LenProperties, RecordsAssumption
  <1>2. DataOK /\ clean \in BOOLEAN
    BY <1>1 DEF DataOK, Ids
  <1>3. CountInv
    BY <1>1, KeyPoolSizeAssumption DEF CountInv
  <1>4. PairInv /\ FoundInv /\ RecordsInv /\ CertInv
    BY <1>1 DEF PairInv, FoundInv, RecordsInv, CertInv, Listed
  <1> QED BY <1>2, <1>3, <1>4 DEF ListInv

(* A new process starts as the first one did.                              *)
LEMMA RestartStep == ASSUME ListInv, Restart PROVE ListInv'
  <1> USE DEF Restart
  <1>1. Len(keypairs') = 0 /\ keypairs' \in Seq(KeyPair) /\ Len(Records) \in Nat
    BY EmptySeq, LenProperties, RecordsAssumption
  <1>2. DataOK'
    BY <1>1 DEF DataOK, Ids, ListInv
  <1>3. (clean \in BOOLEAN)'
    OBVIOUS
  <1>4. CountInv'
    BY <1>1, KeyPoolSizeAssumption DEF CountInv
  <1>5. PairInv' /\ FoundInv' /\ RecordsInv' /\ CertInv'
    BY <1>1 DEF PairInv, FoundInv, RecordsInv, CertInv, Listed
  <1> QED BY <1>2, <1>3, <1>4, <1>5 DEF ListInv

(* The entry of a look-up.                                                 *)
LEMMA LookUpStep == ASSUME ListInv, NEW c \in Ids, LookUp(c) PROVE ListInv'
  <1> USE DEF ListInv, LookUp
  <1>1. DataOK'
    BY DEF DataOK
  <1>2. (clean \in BOOLEAN)' /\ CountInv' /\ PairInv' /\ FoundInv'
    BY DEF CountInv, PairInv, FoundInv
  <1>3. RecordsInv'
    BY DEF RecordsInv, InList
  <1>4. CertInv'
    BY DEF CertInv, Listed, IsFirst
  <1> QED BY <1>1, <1>2, <1>3, <1>4

(* SELECT of CONTAINERS_INFO.                                              *)
LEMMA SelectInfoStep == ASSUME ListInv, SelectInfo PROVE ListInv'
  <1> USE DEF ListInv, SelectInfo
  <1>1. DataOK'
    BY DEF DataOK
  <1>2. (clean \in BOOLEAN)'
    BY Zenon
  <1>3. CountInv' /\ PairInv' /\ FoundInv' /\ num' = -1
    BY EmptySeq, LenProperties, RecordsAssumption DEF CountInv, PairInv, FoundInv
  <1>4. RecordsInv'
    <2>1. Len(keypairs') = 0 /\ i' = 0
      BY EmptySeq DEF CountInv
    <2>2. Cardinality(Before(i' + 1)) = 0
      <3>1. Before(i' + 1) = {}
        BY <2>1 DEF Before
      <3> QED BY <3>1, FS_EmptySet
    <2> QED BY <1>3, <2>1, <2>2 DEF RecordsInv
  <1>5. CertInv'
    BY <1>3 DEF CertInv, Listed
  <1> QED BY <1>1, <1>2, <1>3, <1>4, <1>5

(* SELECT of FILE_DIR and the number of its entries.                       *)
LEMMA SelectDirStep == ASSUME ListInv, SelectDir \/ ReadCount PROVE ListInv'
  <1> USE DEF ListInv, SelectDir, ReadCount
  <1>1. DataOK'
    BY DEF DataOK
  <1>2. (clean \in BOOLEAN)'
    BY Zenon
  <1>3. CountInv' /\ PairInv' /\ FoundInv'
    BY LenProperties, DirAssumption DEF CountInv, PairInv, FoundInv
  <1>4. RecordsInv'
    BY DEF RecordsInv, InList, CountInv
  <1>5. CertInv'
    BY DEF CertInv, Listed, CountInv
  <1> QED BY <1>1, <1>2, <1>3, <1>4, <1>5

(* The loop of getKeyPairByContainerId.                                    *)
LEMMA SearchStep == ASSUME ListInv, Search PROVE ListInv'
  <1> USE DEF ListInv, Search
  <1>1. \/ FirstOf(id) = 0
        \/ num # -1 /\ IsFirst(FirstOf(id), id)
    <2>1. CASE num = -1
      BY <2>1 DEF FirstOf
    <2>2. CASE num # -1
      BY <2>2, FirstOfIsFirst DEF CountInv
    <2> QED BY <2>1, <2>2
  <1> HIDE DEF FirstOf
  <1>2. found' \in Nat /\ FoundInv'
    <2>1. Len(keypairs) \in Nat
      BY LenProperties DEF DataOK
    <2> QED BY <1>1, <2>1 DEF FoundInv, IsFirst
  <1>3. DataOK'
    BY <1>2 DEF DataOK
  <1>4. (clean \in BOOLEAN)' /\ CountInv' /\ PairInv'
    BY DEF CountInv, PairInv
  <1>5. RecordsInv' /\ CertInv'
    BY DEF RecordsInv, InList, CertInv, Listed, IsFirst
  <1> QED BY <1>2, <1>3, <1>4, <1>5

(* A record of CONTAINERS_INFO that is skipped.                            *)
LEMMA SkipRecordStep ==
    ASSUME ListInv, ReadInfo, i < Len(Records), i' = i + 1, UNCHANGED <<keypairs, num, pc>>,
           clean' => clean /\ Records[i + 1] = "empty"
    PROVE  ListInv'
  <1> USE DEF ListInv
  <1>1. pc = "read_info" /\ i \in Nat /\ Len(Records) \in Nat /\ UNCHANGED <<id, found, life>>
    BY LenProperties, RecordsAssumption DEF ReadInfo, DataOK
  <1>2. DataOK'
    BY <1>1 DEF DataOK
  <1>3. (clean \in BOOLEAN)'
    BY Zenon DEF ReadInfo, InfoDone
  <1>4. CountInv' /\ PairInv' /\ FoundInv'
    BY <1>1 DEF CountInv, PairInv, FoundInv
  <1>5. RecordsInv'
    <2> SUFFICES ASSUME clean' PROVE RecordsInv'
      BY <1>1 DEF RecordsInv
    <2>1. Before(i' + 1) = Before(i + 1)
      BY <1>1, BeforeGrows
    <2>2. \A k \in 1 .. i' : k \in 1 .. i \/ k = i + 1
      BY <1>1
    <2> QED BY <1>1, <2>1, <2>2 DEF RecordsInv, InList
  <1>6. CertInv'
    BY <1>1 DEF CertInv, Listed
  <1> QED BY <1>2, <1>3, <1>4, <1>5, <1>6

(* The end of the loop over the records.                                   *)
LEMMA InfoDoneStep ==
    ASSUME ListInv, ReadInfo, InfoDone, UNCHANGED i,
           clean' => /\ clean
                     /\ \/ i = Len(Records)
                        \/ Records[i + 1] # "empty" /\ num >= KeyPoolSize - 1
    PROVE  ListInv'
  <1> USE DEF ListInv, InfoDone
  <1>1. pc = "read_info" /\ i \in Nat /\ Len(Records) \in Nat /\ UNCHANGED <<id, found, life>>
    BY LenProperties, RecordsAssumption DEF ReadInfo, DataOK
  <1>2. DataOK'
    BY <1>1 DEF DataOK
  <1>3. (clean \in BOOLEAN)'
    BY Zenon DEF ReadInfo
  <1>4. Len(keypairs) \in Nat /\ num = Len(keypairs) - 1
    BY <1>1, LenProperties DEF DataOK, CountInv
  <1>5. CountInv' /\ PairInv' /\ FoundInv'
    BY <1>1, <1>4 DEF CountInv, PairInv, FoundInv
  <1>6. RecordsInv'
    <2> SUFFICES ASSUME clean', NEW k \in 1 .. Len(Records), Records[k] # "empty",
                        Cardinality(Before(k)) < KeyPoolSize
                 PROVE  InList(k)
      BY <1>1 DEF RecordsInv, InList
    <2>1. Len(keypairs) = Cardinality(Before(i + 1)) /\ \A m \in 1 .. i : Records[m] # "empty" => InList(m)
      BY <1>1 DEF RecordsInv
    <2>2. CASE k <= i
      BY <2>1, <2>2
    <2>3. CASE k > i
      <3>1. num >= KeyPoolSize - 1
        BY <1>1, <2>3
      <3>2. Cardinality(Before(i + 1)) <= Cardinality(Before(k)) /\ Cardinality(Before(k)) \in Nat
        BY <1>1, <2>3, BeforeGrows
      <3> QED BY <1>4, <2>1, <3>1, <3>2, KeyPoolSizeAssumption
    <2> QED BY <1>1, <2>2, <2>3
  <1>7. CertInv'
    BY <1>1 DEF CertInv, Listed
  <1> QED BY <1>2, <1>3, <1>5, <1>6, <1>7

(* A record that takes a place in the pool.                                *)
LEMMA TakeRecordStep ==
    ASSUME ListInv, ReadInfo, i < Len(Records), Records[i + 1] # "empty",
           num < KeyPoolSize - 1, num' = num + 1, i' = i + 1,
           keypairs' = Append(keypairs, [record |-> i + 1, kid |-> Kid(i), cert |-> 0]),
           UNCHANGED <<pc, clean>>
    PROVE  ListInv'
  <1> USE DEF ListInv
  <1> DEFINE kp == [record |-> i + 1, kid |-> Kid(i), cert |-> 0]
  <1>1. pc = "read_info" /\ i \in Nat /\ Len(Records) \in Nat /\ UNCHANGED <<id, found, life>>
    BY LenProperties, RecordsAssumption DEF ReadInfo, DataOK
  <1>2. kp \in KeyPair
    <2>1. Kid(i) \in 0 .. KidModulus - 1
      BY <1>1, KidFits
    <2>2. Len(Dir) \in Nat
      BY LenProperties, DirAssumption
    <2> QED BY <1>1, <2>1, <2>2 DEF KeyPair
  <1>3. /\ keypairs' \in Seq(KeyPair)
        /\ Len(keypairs) \in Nat
        /\ Len(keypairs') = Len(keypairs) + 1
        /\ \A k \in 1 .. Len(keypairs) : keypairs'[k] = keypairs[k]
        /\ keypairs'[Len(keypairs) + 1] = kp
    <2> HIDE DEF kp
    <2>1. keypairs \in Seq(KeyPair) /\ keypairs' = Append(keypairs, kp)
      BY DEF DataOK, kp
    <2> QED BY <1>2, <2>1, AppendProperties, LenProperties
  <1>4. kp.record = i + 1 /\ kp.kid = Kid(i) /\ kp.cert = 0
    OBVIOUS
  <1> HIDE DEF kp
  <1>5. DataOK' /\ (clean \in BOOLEAN)'
    BY <1>1, <1>3 DEF DataOK
  <1>6. CountInv' /\ FoundInv'
    BY <1>1, <1>3, KeyPoolSizeAssumption DEF CountInv, FoundInv, DataOK
  <1>7. PairInv'
    <2> SUFFICES ASSUME NEW k \in 1 .. Len(keypairs) + 1
                 PROVE  /\ keypairs'[k].kid = Kid(keypairs'[k].record - 1)
                        /\ keypairs'[k].cert # 0 => Dir[keypairs'[k].cert] # -1 /\ Dir[keypairs'[k].cert] = ContainerOf(keypairs'[k])
      BY <1>3 DEF PairInv, Kid, ContainerOf
    <2>1. CASE k \in 1 .. Len(keypairs)
      BY <1>3, <2>1 DEF PairInv
    <2>2. CASE k = Len(keypairs) + 1
      <3>1. keypairs'[k].record - 1 = i
        BY <1>1, <1>3, <1>4, <2>2
      <3>2. keypairs'[k].kid = Kid(i) /\ keypairs'[k].cert = 0
        BY <1>3, <1>4, <2>2
      <3> QED BY <3>1, <3>2
    <2> QED BY <1>3, <2>1, <2>2
  <1>8. RecordsInv'
    <2> SUFFICES ASSUME clean PROVE RecordsInv'
      BY <1>1 DEF RecordsInv
    <2>1. Len(keypairs') = Cardinality(Before(i' + 1))
      BY <1>1, <1>3, BeforeGrows DEF RecordsInv
    <2>2. \A k \in 1 .. i : Records[k] # "empty" => InList(k)'
      BY <1>1, <1>3 DEF RecordsInv, InList
    <2>3. InList(i)'
      <3>1. Len(keypairs) + 1 \in 1 .. Len(keypairs')
        BY <1>3
      <3>2. keypairs'[Len(keypairs) + 1].record = i'
        BY <1>3, <1>4
      <3> QED BY <3>1, <3>2 DEF InList
    <2>4. \A k \in 1 .. i' : k \in 1 .. i \/ k = i'
      BY <1>1
    <2> QED BY <1>1, <2>1, <2>2, <2>3, <2>4 DEF RecordsInv
  <1>9. CertInv'
    BY <1>1 DEF CertInv, Listed
  <1> QED BY <1>5, <1>6, <1>7, <1>8, <1>9

(* READ BINARY of a record.                                                *)
LEMMA ReadInfoStep == ASSUME ListInv, ReadInfo PROVE ListInv'
  <1>1. CASE i = Len(Records) /\ InfoDone /\ UNCHANGED <<i, clean>>
    BY <1>1, InfoDoneStep
  <1>2. CASE i < Len(Records) /\ i' = i + 1 /\ clean' = FALSE /\ UNCHANGED <<keypairs, num, pc>>
    BY <1>2, SkipRecordStep
  <1>3. CASE i < Len(Records) /\ clean' = FALSE /\ InfoDone /\ UNCHANGED i
    BY <1>3, InfoDoneStep
  <1>4. CASE i < Len(Records) /\ Records[i + 1] = "empty" /\ i' = i + 1 /\ UNCHANGED <<keypairs, num, pc, clean>>
    BY <1>4, SkipRecordStep
  <1>5. CASE /\ i < Len(Records) /\ Records[i + 1] # "empty"
             /\ num >= KeyPoolSize - 1 /\ InfoDone /\ UNCHANGED <<i, clean>>
    BY <1>5, InfoDoneStep
  <1>6. CASE /\ i < Len(Records) /\ Records[i + 1] # "empty"
             /\ num < KeyPoolSize - 1
             /\ num' = num + 1
             /\ keypairs' = Append(keypairs, [record |-> i + 1, kid |-> Kid(i), cert |-> 0])
             /\ i' = i + 1
             /\ UNCHANGED <<pc, clean>>
    BY <1>6, TakeRecordStep
  <1> QED BY <1>1, <1>2, <1>3, <1>4, <1>5, <1>6 DEF ReadInfo

\* List s with certificate file c for key pair f.
WithCert(s, f, c) == [s EXCEPT ![f].cert = c]

(* What giving key pair f a certificate file does to a list.               *)
LEMMA SetCert ==
    ASSUME NEW s \in Seq(KeyPair), NEW f \in 1 .. Len(s), NEW c \in 0 .. Len(Dir)
    PROVE  LET t == WithCert(s, f, c)
           IN  /\ t \in Seq(KeyPair)
               /\ Len(t) = Len(s)
               /\ \A k \in 1 .. Len(s) :
                     /\ t[k].record = s[k].record
                     /\ t[k].kid = s[k].kid
                     /\ t[k].cert = IF k = f THEN c ELSE s[k].cert
  <1> DEFINE kp == [s[f] EXCEPT !.cert = c]
  <1>1. s[f] \in KeyPair
    BY ElementOfSeq
  <1>2. kp \in KeyPair /\ kp.record = s[f].record /\ kp.kid = s[f].kid /\ kp.cert = c
    BY <1>1 DEF KeyPair
  <1> DEFINE t == WithCert(s, f, c)
  <1>3. t = [s EXCEPT ![f] = kp]
    BY DEF WithCert
  <1> HIDE DEF kp, t
  <1>4. /\ t \in Seq(KeyPair)
        /\ Len(t) = Len(s)
        /\ \A k \in 1 .. Len(s) : t[k] = IF k = f THEN kp ELSE s[k]
    BY <1>2, <1>3, ExceptSeq
  <1> QED BY <1>2, <1>4 DEF t

(* An entry of FILE_DIR that changes nothing in the list: one that is      *)
(* lost, is no certificate, or names a container that is not listed.       *)
LEMMA SkipEntryStep ==
    ASSUME ListInv, ReadDir, i < Len(Dir), i' = i + 1, UNCHANGED <<keypairs, pc>>,
           clean' => /\ clean
                     /\ Dir[i + 1] # -1 => \A k \in 1 .. Len(keypairs) : ContainerOf(keypairs[k]) # Dir[i + 1]
    PROVE  ListInv'
  <1> USE DEF ListInv
  <1>1. pc = "read_dir" /\ i \in Nat /\ Len(Dir) \in Nat /\ UNCHANGED <<num, id, found, life>>
    BY LenProperties, DirAssumption DEF ReadDir, DataOK
  <1>2. DataOK'
    BY <1>1 DEF DataOK
  <1>3. (clean \in BOOLEAN)'
    BY Zenon DEF ReadDir
  <1>4. CountInv' /\ PairInv' /\ FoundInv'
    BY <1>1 DEF CountInv, PairInv, FoundInv
  <1>5. RecordsInv'
    BY <1>1 DEF RecordsInv, InList
  <1>6. CertInv'
    <2> SUFFICES ASSUME clean', NEW d \in 1 .. i', NEW j \in 1 .. Len(keypairs),
                        Dir[d] # -1, IsFirst(j, Dir[d])
                 PROVE  keypairs[j].cert # 0
      BY <1>1 DEF CertInv, Listed, IsFirst
    <2>1. d \in 1 .. i \/ d = i + 1
      BY <1>1
    <2> QED BY <1>1, <2>1 DEF CertInv, IsFirst
  <1> QED BY <1>2, <1>3, <1>4, <1>5, <1>6

(* An entry that is the certificate of a listed container.                 *)
LEMMA TakeEntryStep ==
    ASSUME ListInv, ReadDir, i < Len(Dir), i' = i + 1, UNCHANGED <<pc, clean>>,
           NEW f, IsFirst(f, Dir[i + 1]), Dir[i + 1] # -1,
           keypairs' = WithCert(keypairs, f, i + 1)
    PROVE  ListInv'
  <1> USE DEF ListInv
  <1>1. pc = "read_dir" /\ i \in Nat /\ Len(Dir) \in Nat /\ UNCHANGED <<num, id, found, life>>
    BY LenProperties, DirAssumption DEF ReadDir, DataOK
  <1>2. f \in 1 .. Len(keypairs) /\ Len(keypairs) \in Nat
    BY LenProperties DEF DataOK, IsFirst
  <1>3. /\ keypairs' \in Seq(KeyPair)
        /\ Len(keypairs') = Len(keypairs)
        /\ \A k \in 1 .. Len(keypairs) :
              /\ keypairs'[k].record = keypairs[k].record
              /\ keypairs'[k].kid = keypairs[k].kid
              /\ keypairs'[k].cert = IF k = f THEN i + 1 ELSE keypairs[k].cert
    <2>1. i + 1 \in 0 .. Len(Dir) /\ keypairs \in Seq(KeyPair)
      BY <1>1 DEF DataOK
    <2> QED BY <1>2, <2>1, SetCert
  <1>4. \A k \in 1 .. Len(keypairs) : keypairs[k].cert # 0 => keypairs'[k].cert # 0
    BY <1>1, <1>3
  <1>5. \A k, c : IsFirst(k, c)' <=> IsFirst(k, c)
    <2> TAKE k, c
    <2>1. \A m \in 1 .. Len(keypairs) : keypairs'[m].kid = keypairs[m].kid
      BY <1>3
    <2>2. k \in 1 .. Len(keypairs) => \A m \in 1 .. k - 1 : m \in 1 .. Len(keypairs)
      BY <1>2
    <2> HIDE DEF ListInv, WithCert
    <2>3. Len(keypairs') = Len(keypairs)
      BY <1>3
    <2> QED BY <2>1, <2>2, <2>3 DEF IsFirst, ContainerOf
  <1>6. DataOK' /\ (clean \in BOOLEAN)'
    BY <1>1, <1>3 DEF DataOK
  <1>7. CountInv' /\ FoundInv'
    BY <1>1, <1>3 DEF CountInv, FoundInv
  <1>8. PairInv'
    <2> SUFFICES ASSUME NEW k \in 1 .. Len(keypairs)
                 PROVE  /\ keypairs'[k].kid = Kid(keypairs'[k].record - 1)
                        /\ keypairs'[k].cert # 0 => Dir[keypairs'[k].cert] # -1 /\ Dir[keypairs'[k].cert] = ContainerOf(keypairs'[k])
      BY <1>3 DEF PairInv, Kid, ContainerOf
    <2>1. CASE k = f
      BY <1>3, <2>1 DEF PairInv, IsFirst, ContainerOf
    <2>2. CASE k # f
      BY <1>3, <2>2 DEF PairInv, ContainerOf
    <2> QED BY <2>1, <2>2
  <1>9. RecordsInv'
    BY <1>1, <1>3 DEF RecordsInv, InList
  <1>10. CertInv'
    <2> SUFFICES ASSUME clean, NEW d \in 1 .. i', NEW j \in 1 .. Len(keypairs),
                        Dir[d] # -1, IsFirst(j, Dir[d])
                 PROVE  keypairs'[j].cert # 0
      BY <1>1, <1>3, <1>5 DEF CertInv, Listed
    <2>1. CASE d \in 1 .. i
      BY <1>1, <1>4, <2>1 DEF CertInv
    <2>2. CASE d = i + 1
      <3>1. j = f
        BY <2>2, FirstIsUnique
      <3> QED BY <1>1, <1>3, <3>1
    <2> QED BY <1>1, <2>1, <2>2
  <1> QED BY <1>6, <1>7, <1>8, <1>9, <1>10

(* READ BINARY of an entry.                                                *)
LEMMA ReadDirStep == ASSUME ListInv, ReadDir PROVE ListInv'
  <1>1. CASE i = Len(Dir) /\ pc' = "search" /\ UNCHANGED <<keypairs, i, clean>>
    <2> USE DEF ListInv
    <2>1. pc = "read_dir" /\ UNCHANGED <<num, id, found, life>>
      BY DEF ReadDir
    <2>2. DataOK' /\ (clean \in BOOLEAN)' /\ CountInv' /\ PairInv' /\ FoundInv'
      BY <1>1, <2>1 DEF DataOK, CountInv, PairInv, FoundInv
    <2>3. RecordsInv'
      BY <1>1, <2>1 DEF RecordsInv, InList
    <2>4. CertInv'
      BY <1>1, <2>1 DEF CertInv, Listed, IsFirst
    <2> QED BY <2>2, <2>3, <2>4
  <1>2. CASE i < Len(Dir) /\ i' = i + 1 /\ clean' = FALSE /\ UNCHANGED <<keypairs, pc>>
    BY <1>2, SkipEntryStep
  <1>3. CASE /\ i < Len(Dir) /\ i' = i + 1 /\ UNCHANGED <<pc, clean>>
             /\ keypairs' = IF Dir[i + 1] = -1 \/ FirstOf(Dir[i + 1]) = 0 THEN keypairs
                            ELSE [keypairs EXCEPT ![FirstOf(Dir[i + 1])].cert = i + 1]
    <2>1. DataOK /\ num = Len(keypairs)
      BY DEF ListInv, CountInv, ReadDir
    <2>2. \/ FirstOf(Dir[i + 1]) = 0 /\ \A k \in 1 .. Len(keypairs) : ContainerOf(keypairs[k]) # Dir[i + 1]
          \/ IsFirst(FirstOf(Dir[i + 1]), Dir[i + 1])
      BY <2>1, FirstOfIsFirst
    <2>3. CASE Dir[i + 1] = -1 \/ FirstOf(Dir[i + 1]) = 0
      <3>1. ~IsFirst(0, Dir[i + 1])
        BY DEF IsFirst
      <3> QED BY <1>3, <2>2, <2>3, <3>1, SkipEntryStep
    <2>4. CASE ~(Dir[i + 1] = -1 \/ FirstOf(Dir[i + 1]) = 0)
      BY <1>3, <2>2, <2>4, TakeEntryStep DEF WithCert
    <2> QED BY <2>3, <2>4
  <1> QED BY <1>1, <1>2, <1>3 DEF ReadDir

(* The invariant holds in every reachable state.                           *)
THEOREM ListInvariant == Spec => []ListInv
  <1>1. ListInv /\ [Next]_vars => ListInv'
    <2> SUFFICES ASSUME ListInv, [Next]_vars PROVE ListInv'
      OBVIOUS
    <2>1. CASE UNCHANGED vars
      BY <2>1 DEF vars, ListInv, DataOK, CountInv, PairInv, FoundInv, IsFirst, RecordsInv, InList,
         CertInv, Listed
    <2> QED BY <2>1, LookUpStep, SelectInfoStep, ReadInfoStep, SelectDirStep, ReadDirStep, SearchStep,
            RestartStep DEF Next, Step
  <1> QED BY <1>1, InitListInv, PTL DEF Spec

(* _keypairs[] never overflows and _keypairs_num counts what is in it.     *)
THEOREM PoolRespectedHolds == Spec => []PoolRespected
  <1>1. ListInv => PoolRespected
    BY DEF ListInv, CountInv, PoolRespected, Listed
  <1> QED BY <1>1, ListInvariant, PTL

(* With fewer containers than a key id can tell apart, every certificate   *)
(* file is with the container it is numbered for, as the code counts.      *)
LEMMA NumberedFromZero == ASSUME Len(Records) < KidModulus, ListInv PROVE Numbered(0)
  <1> SUFFICES ASSUME NEW j \in 1 .. Len(keypairs), keypairs[j].cert # 0
               PROVE  Dir[keypairs[j].cert] = keypairs[j].record - 1
    <2>1. \A j \in 1 .. Len(keypairs) : keypairs[j] \in KeyPair
      BY LenProperties DEF ListInv, DataOK
    <2>2. \A j \in 1 .. Len(keypairs) : keypairs[j].record \in Int
      BY <2>1, LenProperties, RecordsAssumption DEF KeyPair
    <2>3. \A n \in Int : n - 1 + 0 = n - 1
      OBVIOUS
    <2> QED BY <2>2, <2>3 DEF Numbered
  <1> USE DEF ListInv
  <1>1. keypairs[j] \in KeyPair /\ keypairs[j].kid = Kid(keypairs[j].record - 1)
    BY LenProperties DEF DataOK, PairInv
  <1>2. Dir[keypairs[j].cert] # -1 /\ Dir[keypairs[j].cert] = keypairs[j].kid - 1
    BY DEF PairInv, ContainerOf
  <1>3. keypairs[j].record - 1 \in Nat /\ keypairs[j].record - 1 < Len(Records)
    BY <1>1, LenProperties, RecordsAssumption DEF KeyPair
  <1>4. keypairs[j].kid \in Nat /\ keypairs[j].kid # 0
    BY <1>1, <1>2, KidModulusAssumption DEF KeyPair
  <1>5. keypairs[j].kid = keypairs[j].record
    BY <1>1, <1>3, <1>4, KidFits DEF KeyPair
  <1> QED BY <1>2, <1>5

(* With fewer containers than a key id can tell apart, a look-up finds the *)
(* container it was asked for, and a certificate file is with its own.     *)
THEOREM LookUpIsRightHolds == Len(Records) < KidModulus => (Spec => []LookUpIsRight)
  <1> SUFFICES ASSUME Len(Records) < KidModulus PROVE Spec => []LookUpIsRight
    OBVIOUS
  <1>1. ASSUME ListInv PROVE LookUpIsRight
    <2> SUFFICES ASSUME pc = "idle", found # 0
                 PROVE  keypairs[found].record = id + 1
      BY <1>1, NumberedFromZero DEF LookUpIsRight
    <2> USE <1>1 DEF ListInv
    <2>1. IsFirst(found, id) /\ found \in 1 .. Len(keypairs) /\ keypairs[found] \in KeyPair
      BY LenProperties DEF FoundInv, IsFirst, DataOK
    <2>2. keypairs[found].kid = id + 1 /\ id \in Nat
      <3>1. id \in Nat
        BY LenProperties, RecordsAssumption DEF DataOK, Ids
      <3>2. keypairs[found].kid \in Int /\ keypairs[found].kid - 1 = id
        BY <2>1, KidModulusAssumption DEF KeyPair, IsFirst, ContainerOf
      <3> QED BY <3>1, <3>2
    <2>3. keypairs[found].record - 1 \in Nat /\ keypairs[found].record - 1 < Len(Records)
      BY <2>1, LenProperties, RecordsAssumption DEF KeyPair
    <2>4. keypairs[found].kid = Kid(keypairs[found].record - 1)
      BY <2>1 DEF PairInv
    <2>5. keypairs[found].record = id + 1
      BY <2>1, <2>2, <2>3, <2>4, KidFits DEF KeyPair
    <2> QED BY <2>5
  <1> QED BY <1>1, ListInvariant, PTL

(* With fewer containers than a key id can tell apart, a listing without a *)
(* loss is complete, certificates included.                                *)
THEOREM CleanListIsCompleteHolds == Len(Records) < KidModulus => (Spec => []CleanListIsComplete)
  <1> SUFFICES ASSUME Len(Records) < KidModulus PROVE Spec => []CleanListIsComplete
    OBVIOUS
  <1>1. ASSUME ListInv PROVE CleanListIsComplete
    <2> SUFFICES ASSUME Listed, clean, NEW k \in 1 .. Len(Records), Records[k] = "rsa",
                        Cardinality(Before(k)) < KeyPoolSize
                 PROVE  \E j \in 1 .. Len(keypairs) :
                            /\ keypairs[j].record = k
                            /\ (\E d \in 1 .. Len(Dir) : Dir[d] = k - 1 + 0) => keypairs[j].cert # 0
      BY <1>1, NumberedFromZero DEF CleanListIsComplete
    <2> USE <1>1 DEF ListInv
    <2>1. k \in Nat \ {0} /\ Len(Records) \in Nat /\ Len(keypairs) \in Nat /\ num = Len(keypairs)
      BY LenProperties, RecordsAssumption DEF DataOK, CountInv, Listed
    <2>2. \A j \in 1 .. Len(keypairs) :
              /\ keypairs[j] \in KeyPair
              /\ keypairs[j].kid = Kid(keypairs[j].record - 1)
      BY LenProperties DEF DataOK, PairInv
    <2>3. PICK j \in 1 .. Len(keypairs) : keypairs[j].record = k
      BY DEF RecordsInv, Listed, InList
    <2>4. ContainerOf(keypairs[j]) = k - 1
      <3>1. Kid(k - 1) = k
        BY <2>1, KidFits
      <3> QED BY <2>2, <2>3, <3>1 DEF ContainerOf
    <2>5. IsFirst(FirstOf(k - 1), k - 1)
      BY <2>1, <2>4, FirstOfIsFirst
    <2> DEFINE f == FirstOf(k - 1)
    <2> HIDE DEF f
    <2>6. f \in 1 .. Len(keypairs) /\ keypairs[f].kid = k /\ keypairs[f] \in KeyPair
      BY <2>1, <2>2, <2>5, KidModulusAssumption, SMTT(30) DEF IsFirst, ContainerOf, f, KeyPair
    <2>7. keypairs[f].record - 1 \in Nat /\ keypairs[f].record - 1 < Len(Records)
      BY <2>1, <2>6 DEF KeyPair
    <2>8. keypairs[f].record = k
      BY <2>1, <2>2, <2>6, <2>7, KidFits DEF KeyPair
    <2>9. (\E d \in 1 .. Len(Dir) : Dir[d] = k - 1 + 0) => keypairs[f].cert # 0
      <3>1. k - 1 # -1 /\ k - 1 + 0 = k - 1
        BY <2>1
      <3> QED BY <2>5, <2>6, <3>1 DEF CertInv, f
    <2> QED BY <2>6, <2>8, <2>9
  <1> QED BY <1>1, ListInvariant, PTL

(* The key pair list implements KeyCache: what it says of the signing key  *)
(* is fixed by the first listing that gets anywhere, for the life of the   *)
(* process, however often keys are looked up and whatever is lost.         *)
THEOREM CachedForLifeHolds == Spec => CachedForLife
  <1>1. Init => Cache!Init
    BY DEF Init, Cache!Init, SigningKey, Listed
  <1>2. [Next]_vars => [Cache!List \/ Cache!NewProcess]_<<SigningKey, life>>
    <2> SUFFICES ASSUME [Next]_vars
                 PROVE  \/ Cache!List \/ Cache!NewProcess
                        \/ UNCHANGED <<SigningKey, life>>
      OBVIOUS
    <2> DEFINE Answer == IF FirstOf(SigningId) = 0 THEN "none"
                         ELSE IF keypairs[FirstOf(SigningId)].cert = 0 THEN "nocert" ELSE "full"
    <2>1. SigningKey = IF Listed THEN Answer ELSE "unlisted"
      BY DEF SigningKey
    <2>2. SigningKey' = IF Listed' THEN Answer' ELSE "unlisted"
      BY DEF SigningKey
    <2>3. Answer' \in {"full", "nocert", "none"}
      OBVIOUS
    <2>4. UNCHANGED <<keypairs, num>> => Answer' = Answer
      BY DEF FirstOf, ContainerOf
    <2> HIDE DEF Answer
    <2>5. CASE Restart
      BY <2>2, <2>5 DEF Restart, Listed, Cache!NewProcess
    <2>6. CASE UNCHANGED vars
      BY <2>1, <2>2, <2>4, <2>6 DEF vars, Listed
    <2>7. CASE Search \/ \E c \in Ids : LookUp(c)
      <3>1. UNCHANGED <<keypairs, num, life>> /\ (Listed <=> Listed')
        BY <2>7 DEF Search, LookUp, Listed
      <3> QED BY <2>1, <2>2, <2>4, <3>1
    <2>8. CASE SelectInfo \/ ReadInfo \/ SelectDir \/ ReadCount \/ ReadDir
      <3>1. ~Listed /\ UNCHANGED life
        BY <2>8 DEF SelectInfo, ReadInfo, SelectDir, ReadCount, ReadDir, Listed
      <3> QED BY <2>1, <2>2, <2>3, <3>1 DEF Cache!List
    <2> QED BY <2>5, <2>6, <2>7, <2>8 DEF Next, Step
  <1> QED BY <1>1, <1>2, PTL DEF Spec, CachedForLife, Cache!Spec
=============================================================================
