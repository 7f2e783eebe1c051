------------------------- MODULE ConversionsProofs -------------------------
(***************************************************************************)
(* Proofs about Conversions, for inputs of every length over any alphabet. *)
(*                                                                         *)
(* Induction is by the least counterexample: a set of natural numbers that *)
(* is not empty has a least element.  So are the recursive functions shown *)
(* to exist, from which their defining equations follow.                   *)
(***************************************************************************)
EXTENDS Conversions, SequenceTheorems, FiniteSetTheorems, WellFoundedInduction, TLAPS

\* Inputs grow by elements of their alphabet, to their bound.
InputInv ==
    /\ kind \in DOMAIN Alphabet
    /\ input \in Seq(Alphabet[kind])
    /\ Len(input) <= MaxLen[kind]

\* A set of naturals that is not empty has a least element.
LEMMA LeastElement ==
    ASSUME NEW S \in SUBSET Nat, S # {}
    PROVE  \E n \in S : \A m \in S : n <= m
<1> DEFINE R == OpToRel(<, Nat)
<1>1. IsWellFoundedOn(R, Nat)
  BY NatLessThanWellFounded
<1>2. \A x, y \in Nat : <<y, x>> \in R <=> y < x
  BY DEF OpToRel
<1> HIDE DEF R
<1>3. PICK n \in S : \A m \in S : ~(<<m, n>> \in R)
  BY <1>1, WFMin
<1>4. ASSUME NEW m \in S
      PROVE  n <= m
  <2>1. n \in Nat /\ m \in Nat /\ ~(m < n)
    BY <1>2, <1>3
  <2> QED
    BY <2>1
<1> QED
  BY <1>4

\* Max of a set of naturals up to n.
LEMMA MaxProperties ==
    ASSUME NEW n \in Nat, NEW S \in SUBSET (0 .. n), S # {}
    PROVE  Max(S) \in S /\ \A m \in S : m <= Max(S)
<1> DEFINE T == {k \in 0 .. n : n - k \in S}
<1>1. PICK t \in T : \A u \in T : t <= u
  <2>1. T \in SUBSET Nat
    OBVIOUS
  <2>2. PICK m \in S : TRUE
    OBVIOUS
  <2>3. n - m \in T
    BY <2>2
  <2> QED
    BY <2>1, <2>3, LeastElement
<1>2. n - t \in S /\ \A m \in S : m <= n - t
  <2>1. ASSUME NEW m \in S
        PROVE  m <= n - t
    <3>1. n - m \in T /\ m \in 0 .. n /\ t \in 0 .. n
      OBVIOUS
    <3>2. t <= n - m
      BY <1>1, <3>1
    <3> QED
      BY <3>1, <3>2
  <2> QED
    BY <2>1
<1> QED
  BY <1>2 DEF Max

\* Min of a set of naturals.
LEMMA MinProperties ==
    ASSUME NEW S \in SUBSET Nat, S # {}
    PROVE  Min(S) \in S /\ \A m \in S : Min(S) <= m
BY LeastElement DEF Min

\* A part of a sequence, or nothing between two of its elements.
LEMMA PartOfSeq ==
    ASSUME NEW S, NEW s \in Seq(S), NEW m \in Nat, NEW n \in Nat,
           1 <= m, m <= n + 1, n <= Len(s)
    PROVE  /\ SubSeq(s, m, n) \in Seq(S)
           /\ Len(SubSeq(s, m, n)) = n - m + 1
           /\ \A i \in 1 .. n - m + 1 : SubSeq(s, m, n)[i] = s[i + m - 1]
OBVIOUS

\* A function on 1 .. n is a sequence of length n.
LEMMA SeqOfFunction ==
    ASSUME NEW S, NEW n \in Nat, NEW f \in [1 .. n -> S]
    PROVE  f \in Seq(S) /\ Len(f) = n
OBVIOUS

\* What holds at 0, and at k when it does at k - 1, holds up to n.
LEMMA Induction ==
    ASSUME NEW n \in Nat, NEW T \in SUBSET (0 .. n), 0 \in T,
           \A k \in 1 .. n : k - 1 \in T => k \in T
    PROVE  T = 0 .. n
<1> SUFFICES ASSUME T # 0 .. n
             PROVE  FALSE
  OBVIOUS
<1> DEFINE U == (0 .. n) \ T
<1>1. U \in SUBSET Nat /\ U # {}
  <2>1. 0 .. n \in SUBSET Nat
    OBVIOUS
  <2>2. \E k \in 0 .. n : k \notin T
    BY Zenon
  <2> QED
    BY <2>1, <2>2, Zenon
<1>2. PICK k \in U : \A m \in U : k <= m
  BY <1>1, LeastElement
<1>3. k \in 0 .. n /\ k \notin T /\ k # 0
  OBVIOUS
<1>4. k \in 1 .. n /\ k - 1 \in 0 .. n /\ ~(k <= k - 1)
  BY <1>3
<1>5. k - 1 \in T
  BY <1>2, <1>4
<1> QED
  BY <1>3, <1>4, <1>5

\* g is the function with g[0] = base and g[k] = step[k][g[k - 1]].
IsRecursive(g, n, X, base, step) ==
    /\ g \in [0 .. n -> X]
    /\ g[0] = base
    /\ \A k \in 1 .. n : g[k] = step[k][g[k - 1]]

\* A function that is defined by recursion on its argument exists.
LEMMA RecursiveFunction ==
    ASSUME NEW X, NEW n \in Nat, NEW base \in X, NEW step, step \in [1 .. n -> [X -> X]]
    PROVE  \E g : IsRecursive(g, n, X, base, step)
<1> DEFINE Is(g, m) == IsRecursive(g, m, X, base, step)
           T == {m \in 0 .. n : \E g : Is(g, m)}
<1>1. 0 \in T
  <2> DEFINE g == [k \in 0 .. 0 |-> base]
  <2>1. Is(g, 0)
    BY DEF IsRecursive
  <2> HIDE DEF g, Is
  <2> QED
    BY <2>1
<1>2. ASSUME NEW m \in 1 .. n, m - 1 \in T
      PROVE  m \in T
  <2>1. PICK g : Is(g, m - 1)
    BY <1>2
  <2> USE DEF IsRecursive
  <2> DEFINE h == [k \in 0 .. m |-> IF k = m THEN step[m][g[m - 1]] ELSE g[k]]
  <2>2. h \in [0 .. m -> X]
    <3>1. g[m - 1] \in X
      BY <2>1
    <3> QED
      BY <2>1, <3>1
  <2>3. h[0] = base
    BY <2>1
  <2>4. ASSUME NEW k \in 1 .. m
        PROVE  h[k] = step[k][h[k - 1]]
    <3>1. k - 1 \in 0 .. m /\ k - 1 # m
      OBVIOUS
    <3>2. h[k - 1] = g[k - 1]
      BY <3>1
    <3>3. CASE k = m
      BY <3>2, <3>3
    <3>4. CASE k # m
      <4>1. k \in 1 .. m - 1
        BY <3>4
      <4> QED
        BY <2>1, <3>2, <3>4, <4>1
    <3> QED
      BY <3>3, <3>4
  <2>5. Is(h, m)
    BY <2>2, <2>3, <2>4
  <2> HIDE DEF h, Is, IsRecursive
  <2> QED
    BY <2>5
<1>3. T = 0 .. n
  <2> HIDE DEF T
  <2>1. T \in SUBSET (0 .. n)
    BY DEF T
  <2> QED
    BY <1>1, <1>2, <2>1, Induction
<1>4. n \in T
  BY <1>3
<1> QED
  BY <1>4

\* The inputs a behaviour reaches.
THEOREM InputInvariant == Spec => []InputInv
<1>1. Init => InputInv
  BY KindsAssumption DEF Init, InputInv
<1>2. InputInv /\ [Longer]_vars => InputInv'
  <2> SUFFICES ASSUME InputInv, [Longer]_vars
               PROVE  InputInv'
    OBVIOUS
  <2>1. CASE Longer
    <3>1. PICK e \in Alphabet[kind] : input' = Append(input, e)
      BY <2>1 DEF Longer
    <3>2. /\ input' \in Seq(Alphabet[kind])
          /\ Len(input') = Len(input) + 1
      BY <3>1, AppendProperties DEF InputInv
    <3> QED
      BY <2>1, <3>2, KindsAssumption DEF Longer, InputInv
  <2>2. CASE UNCHANGED vars
    BY <2>2 DEF vars, InputInv
  <2> QED
    BY <2>1, <2>2
<1> QED
  BY <1>1, <1>2, PTL DEF Spec

----------------------------------------------------------------------------
(* Labels                                                                  *)

\* trimLen is the position of the last character that is no space.
LEMMA TrimLen ==
    ASSUME NEW S, NEW record \in Seq(S), NEW i \in 1 .. Len(record), record[i] # Space
    PROVE  /\ trimLen(record) \in 1 .. Len(record)
           /\ record[trimLen(record)] # Space
           /\ \A j \in trimLen(record) + 1 .. Len(record) : record[j] = Space
<1> DEFINE T == {j \in 1 .. Len(record) : record[j] # Space}
<1>1. trimLen(record) = IF T = {} THEN 0 ELSE Max(T)
  BY DEF trimLen, SelectLastInSeq
<1>2. Len(record) \in Nat /\ i \in T /\ T \in SUBSET (0 .. Len(record))
  OBVIOUS
<1>3. Max(T) \in T /\ \A m \in T : m <= Max(T)
  BY <1>2, MaxProperties
<1>4. trimLen(record) = Max(T)
  BY <1>1, <1>2
<1>5. ASSUME NEW j \in Max(T) + 1 .. Len(record)
      PROVE  record[j] = Space
  <2>1. Max(T) \in 0 .. Len(record) /\ (j \in T => j <= Max(T))
    BY <1>2, <1>3
  <2>2. j \in 1 .. Len(record) /\ j \notin T
    BY <1>2, <2>1
  <2> QED
    BY <2>2
<1> QED
  BY <1>2, <1>3, <1>4, <1>5

\* A label is found in a record that is the label and spaces, and in no other.
LEMMA LabelMatchesWhole ==
    ASSUME NEW S, NEW record \in Seq(S), NEW i \in 1 .. Len(record), record[i] # Space,
           NEW n \in 0 .. Len(record)
    PROVE  LabelMatches(SubSeq(record, 1, n), record)
               <=> /\ n > 0 /\ record[n] # Space
                   /\ \A j \in n + 1 .. Len(record) : record[j] = Space
<1> DEFINE label == SubSeq(record, 1, n)
<1>1. Len(record) \in Nat
  OBVIOUS
<1>2. label \in Seq(S) /\ Len(label) = n
  OBVIOUS
<1> HIDE DEF label
<1>3. IsPrefix(label, record)
  <2>1. SubSeq(label, 1, n) = label
    BY <1>2, SubSeqFull
  <2> QED
    BY <1>1, <1>2, <2>1 DEF IsPrefix, label
<1>4. LabelMatches(label, record) <=> n = trimLen(record)
  BY <1>2, <1>3 DEF LabelMatches
<1>5. /\ trimLen(record) \in 1 .. Len(record)
      /\ record[trimLen(record)] # Space
      /\ \A j \in trimLen(record) + 1 .. Len(record) : record[j] = Space
  BY TrimLen
<1> QED
  BY <1>1, <1>4, <1>5 DEF label

\* p11GetObjectByLabel takes a record for a label exactly when it is the label
\* and spaces behind it, for records and labels of every length.
THEOREM LabelIsWholeHolds == Spec => []LabelIsWhole
<1>1. InputInv => LabelIsWhole
  BY LenProperties, LabelMatchesWhole DEF InputInv, LabelIsWhole
<1> QED
  BY <1>1, InputInvariant, PTL

----------------------------------------------------------------------------
(* PINs                                                                    *)

\* Copied writes from behind the first at elements and keeps the others.
LEMMA CopiedProperties ==
    ASSUME NEW S, NEW block \in Seq(S), NEW at \in Nat, NEW from \in Seq(S)
    PROVE  /\ Copied(block, at, from) \in Seq(S)
           /\ Len(Copied(block, at, from)) = Len(block)
           /\ \A i \in 1 .. Len(block) :
                  Copied(block, at, from)[i] =
                      IF i - at \in 1 .. Len(from) THEN from[i - at] ELSE block[i]
<1>1. DOMAIN block = 1 .. Len(block) /\ DOMAIN from = 1 .. Len(from)
  OBVIOUS
<1>2. \A i \in 1 .. Len(block) :
          (IF i - at \in 1 .. Len(from) THEN from[i - at] ELSE block[i]) \in S
  OBVIOUS
<1>3. Copied(block, at, from) =
          [i \in 1 .. Len(block) |-> IF i - at \in 1 .. Len(from) THEN from[i - at] ELSE block[i]]
  BY <1>1 DEF Copied
<1>4. Copied(block, at, from) \in [1 .. Len(block) -> S]
  BY <1>2, <1>3
<1> QED
  BY <1>3, <1>4

\* A PIN in a block of n bytes.
Padded(pin, n) == Copied([i \in 1 .. n |-> Pad], 0, pin)

\* It is the PIN and padding behind it.
LEMMA PaddedProperties ==
    ASSUME NEW S, NEW pin \in Seq(S), NEW n \in Nat
    PROVE  /\ Padded(pin, n) \in Seq(S \cup {Pad})
           /\ Len(Padded(pin, n)) = n
           /\ \A i \in 1 .. n : Padded(pin, n)[i] = IF i <= Len(pin) THEN pin[i] ELSE Pad
<1> DEFINE f == [i \in 1 .. n |-> IF i <= Len(pin) THEN pin[i] ELSE Pad]
<1>1. Padded(pin, n) = f
  <2>1. DOMAIN [i \in 1 .. n |-> Pad] = 1 .. n /\ DOMAIN pin = 1 .. Len(pin) /\ Len(pin) \in Nat
    OBVIOUS
  <2>2. Padded(pin, n) =
            [i \in 1 .. n |-> IF i - 0 \in DOMAIN pin THEN pin[i - 0] ELSE [j \in 1 .. n |-> Pad][i]]
    BY <2>1 DEF Padded, Copied
  <2>3. \A i \in 1 .. n : (i - 0 \in DOMAIN pin <=> i <= Len(pin)) /\ i - 0 = i
    BY <2>1
  <2> QED
    BY <2>2, <2>3
<1>2. f \in [1 .. n -> S \cup {Pad}]
  OBVIOUS
<1> QED
  BY <1>1, <1>2

\* A pair of PINs, each copied over the padding of its half of a block.
LEMMA HalvesOfBlock ==
    ASSUME NEW S, NEW old \in Seq(S), NEW new \in Seq(S), NEW L \in Nat, NEW N \in Nat,
           N = L + L, Len(old) <= L, Len(new) <= L
    PROVE  Copied(Padded(old, N), L, new) = Padded(old, L) \o Padded(new, L)
<1> DEFINE W == S \cup {Pad}
           C == Padded(old, N)
           D == Copied(C, L, new)
           V == Padded(old, L)
           X == Padded(new, L)
<1>1. new \in Seq(W) /\ Len(old) \in Nat /\ Len(new) \in Nat
  OBVIOUS
<1>2. /\ C \in Seq(W) /\ Len(C) = N
      /\ \A i \in 1 .. N : C[i] = IF i <= Len(old) THEN old[i] ELSE Pad
  BY PaddedProperties
<1>3. /\ V \in Seq(W) /\ Len(V) = L
      /\ \A i \in 1 .. L : V[i] = IF i <= Len(old) THEN old[i] ELSE Pad
  BY PaddedProperties
<1>4. /\ X \in Seq(W) /\ Len(X) = L
      /\ \A i \in 1 .. L : X[i] = IF i <= Len(new) THEN new[i] ELSE Pad
  BY PaddedProperties
<1> HIDE DEF W, C, V, X
<1>5. /\ D \in Seq(W) /\ Len(D) = N
      /\ \A i \in 1 .. N : D[i] = IF i - L \in 1 .. Len(new) THEN new[i - L] ELSE C[i]
  BY <1>1, <1>2, CopiedProperties
<1> HIDE DEF D
<1> DEFINE J == V \o X
<1>6. /\ J \in Seq(W) /\ Len(J) = N
      /\ \A i \in 1 .. N : J[i] = IF i <= L THEN V[i] ELSE X[i - L]
  <2>1. V \in Seq(W) /\ X \in Seq(W) /\ Len(V) = L /\ Len(X) = L
    BY <1>3, <1>4
  <2>2. /\ J \in Seq(W) /\ Len(J) = Len(V) + Len(X)
        /\ \A i \in 1 .. Len(V) + Len(X) : J[i] = IF i <= Len(V) THEN V[i] ELSE X[i - Len(V)]
    BY <2>1, ConcatProperties, Zenon
  <2> QED
    BY <2>1, <2>2
<1> HIDE DEF J
<1>7. ASSUME NEW i \in 1 .. N
      PROVE  D[i] = J[i]
  <2>1. CASE i <= L
    <3>1. i \in 1 .. L /\ i - L \notin 1 .. Len(new)
      BY <1>1, <2>1
    <3> QED
      BY <1>2, <1>3, <1>5, <1>6, <2>1, <3>1
  <2>2. CASE i > L
    <3>1. /\ i - L \in 1 .. L /\ ~(i <= Len(old)) /\ ~(i <= L)
          /\ i - L <= Len(new) <=> i - L \in 1 .. Len(new)
      BY <1>1, <2>2
    <3> QED
      BY <1>2, <1>4, <1>5, <1>6, <3>1
  <2> QED
    BY <2>1, <2>2
<1>8. D = J
  BY <1>5, <1>6, <1>7, SeqEqual
<1> QED
  BY <1>8 DEF C, D, J, V, X

\* MF::changePin sends what MF::verifyPin would send for either PIN.
LEMMA MfBlocks ==
    ASSUME NEW S, NEW old \in Seq(S), NEW new \in Seq(S), Len(old) <= 8, Len(new) <= 8
    PROVE  mf_change_pin(old, new) = mf_verify_pin(old) \o mf_verify_pin(new)
<1>1. /\ mf_change_pin(old, new) = Copied(Padded(old, 16), 8, new)
      /\ mf_verify_pin(old) = Padded(old, 8)
      /\ mf_verify_pin(new) = Padded(new, 8)
  BY DEF mf_change_pin, mf_verify_pin, Padded
<1>2. 8 \in Nat /\ 16 \in Nat /\ 16 = 8 + 8
  OBVIOUS
<1>3. Copied(Padded(old, 16), 8, new) = Padded(old, 8) \o Padded(new, 8)
  BY <1>2, HalvesOfBlock, Zenon
<1> QED
  BY <1>1, <1>3

\* Of PINs of every length: MF sends each in a block of its own or refuses the
\* pair.
THEOREM PinBlocksHolds == Spec => []PinBlocks
<1>1. InputInv => PinBlocks
  <2> SUFFICES ASSUME InputInv, NEW n \in 1 .. Len(input) - 1
               PROVE  LET old == SubSeq(input, 1, n)
                          new == SubSeq(input, n + 1, Len(input))
                      IN  mf_change_pin(old, new) = IF n > 8 \/ Len(input) - n > 8 THEN Refused
                                                    ELSE mf_verify_pin(old) \o mf_verify_pin(new)
    BY DEF PinBlocks
  <2> DEFINE S == Alphabet[kind]
             old == SubSeq(input, 1, n)
             new == SubSeq(input, n + 1, Len(input))
  <2>1. /\ old \in Seq(S) /\ Len(old) = n
        /\ new \in Seq(S) /\ Len(new) = Len(input) - n
        /\ n \in Nat /\ n > 0 /\ n < Len(input) /\ Len(input) \in Nat
    BY DEF InputInv
  <2> HIDE DEF S, old, new
  <2>2. mf_change_pin(old, new) = IF n > 8 \/ Len(input) - n > 8 THEN Refused
                                  ELSE mf_verify_pin(old) \o mf_verify_pin(new)
    <3>1. CASE n > 8 \/ Len(input) - n > 8
      BY <2>1, <3>1 DEF mf_change_pin
    <3>2. CASE ~(n > 8 \/ Len(input) - n > 8)
      BY <2>1, <3>2, MfBlocks
    <3> QED
      BY <3>1, <3>2
  <2> QED
    BY <2>2 DEF old, new
<1> QED
  BY <1>1, InputInvariant, PTL

----------------------------------------------------------------------------
(* The first certificate of a chain                                        *)

\* The equations that define FooterInd.
LEMMA FooterIndEquations ==
    ASSUME NEW S, NEW pem \in Seq(S)
    PROVE  /\ FooterInd(pem) \in [0 .. Len(pem) -> 0 .. Len(Footer)]
           /\ FooterInd(pem)[0] = 0
           /\ \A i \in 1 .. Len(pem) : FooterInd(pem)[i] = Match(FooterInd(pem)[i - 1], pem[i])
<1> DEFINE n == Len(pem)
           X == 0 .. Len(Footer)
           step == [k \in 1 .. n |-> [x \in X |-> Match(x, pem[k])]]
           Def(g) == g = [i \in 0 .. n |-> IF i = 0 THEN 0 ELSE Match(g[i - 1], pem[i])]
<1>1. n \in Nat /\ Len(Footer) \in Nat /\ 0 \in X
  BY FooterAssumption
<1>2. \A k \in X : \A c : Match(k, c) \in X
  BY <1>1 DEF Match
<1>3. step \in [1 .. n -> [X -> X]]
  BY <1>2
<1> HIDE DEF n, X, step
<1>4. PICK g : IsRecursive(g, n, X, 0, step)
  BY <1>1, <1>3, RecursiveFunction
<1>5. ASSUME NEW k \in 1 .. n
      PROVE  g[k] = Match(g[k - 1], pem[k])
  <2>1. g[k - 1] \in X
    BY <1>1, <1>4 DEF IsRecursive
  <2> QED
    BY <1>4, <2>1 DEF step, IsRecursive
<1>6. Def(g)
  <2>1. \A i \in 0 .. n : g[i] = IF i = 0 THEN 0 ELSE Match(g[i - 1], pem[i])
    BY <1>1, <1>4, <1>5 DEF IsRecursive
  <2> QED
    BY <1>4, <2>1 DEF IsRecursive
<1> DEFINE f == FooterInd(pem)
<1>7. Def(f)
  <2>1. f = CHOOSE h : Def(h)
    BY DEF FooterInd, n
  <2> HIDE DEF f, Def
  <2> QED
    BY <1>6, <2>1
<1> HIDE DEF f
<1>8. /\ DOMAIN f = 0 .. n /\ f = [i \in 0 .. n |-> f[i]]
      /\ f[0] = 0 /\ \A i \in 1 .. n : f[i] = Match(f[i - 1], pem[i])
  <2>1. DOMAIN f = 0 .. n /\ f = [i \in 0 .. n |-> f[i]]
    BY <1>7, Zenon
  <2>2. \A i \in 0 .. n : f[i] = IF i = 0 THEN 0 ELSE Match(f[i - 1], pem[i])
    BY <1>7, Zenon
  <2>3. 0 \in 0 .. n /\ \A i \in 1 .. n : i \in 0 .. n /\ i # 0
    BY <1>1
  <2> QED
    BY <2>1, <2>2, <2>3
<1> HIDE DEF Def
<1> DEFINE T == {i \in 0 .. n : f[i] \in X}
<1>9. T = 0 .. n
  <2>1. 0 \in T
    BY <1>1, <1>8
  <2>2. ASSUME NEW k \in 1 .. n, k - 1 \in T
        PROVE  k \in T
    <3>1. f[k] = Match(f[k - 1], pem[k]) /\ f[k - 1] \in X /\ k \in 0 .. n
      BY <1>1, <1>8, <2>2
    <3> QED
      BY <1>2, <3>1
  <2>3. T \in SUBSET (0 .. n)
    OBVIOUS
  <2> HIDE DEF T
  <2> QED
    BY <1>1, <2>1, <2>2, <2>3, Induction
<1>10. f \in [0 .. n -> X]
  BY <1>8, <1>9
<1> QED
  BY <1>8, <1>10 DEF f, n, X

\* The last k characters up to i are the first k of the footer.
Matched(pem, i, k) == k <= i /\ \A j \in 1 .. k : pem[i - k + j] = Footer[j]

\* As long as the footer was not complete before, what is matched was read.
LEMMA FooterIndMatched ==
    ASSUME NEW S, NEW pem \in Seq(S), NEW i \in 1 .. Len(pem),
           FooterInd(pem)[i - 1] # Len(Footer)
    PROVE  Matched(pem, i, FooterInd(pem)[i])
<1> DEFINE n == Len(pem)
           F == Len(Footer)
           ind == FooterInd(pem)
           T == {k \in 0 .. n : k > 0 /\ ind[k - 1] # F => Matched(pem, k, ind[k])}
<1>1. n \in Nat /\ F \in Nat \ {0}
  BY FooterAssumption
<1>2. /\ ind \in [0 .. n -> 0 .. F]
      /\ ind[0] = 0
      /\ \A k \in 1 .. n : ind[k] = Match(ind[k - 1], pem[k])
  BY FooterIndEquations
<1> HIDE DEF n, F, ind
<1>3. 0 \in T
  BY <1>1
<1>4. ASSUME NEW k \in 1 .. n, k - 1 \in T
      PROVE  k \in T
  <2> SUFFICES ASSUME ind[k - 1] # F
               PROVE  Matched(pem, k, ind[k])
    BY <1>1
  <2>1. /\ k - 1 \in 0 .. n /\ ind[k - 1] \in 0 .. F
        /\ ind[k] = IF pem[k] = Footer[ind[k - 1] + 1] THEN ind[k - 1] + 1 ELSE 0
    BY <1>1, <1>2 DEF Match, F
  <2>2. Matched(pem, k - 1, ind[k - 1])
    <3>1. CASE k = 1
      BY <1>2, <3>1 DEF Matched
    <3>2. CASE k # 1
      <4>1. k - 1 \in 1 .. n
        BY <1>1, <3>2
      <4>2. ind[k - 1] = Match(ind[k - 1 - 1], pem[k - 1])
        BY <1>2, <4>1
      <4>3. ind[k - 1 - 1] # F
        BY <4>2 DEF Match, F
      <4> QED
        BY <1>4, <4>1, <4>3
    <3> QED
      BY <3>1, <3>2
  <2>3. CASE pem[k] = Footer[ind[k - 1] + 1]
    <3> DEFINE m == ind[k - 1]
    <3>1. m \in Nat /\ ind[k] = m + 1 /\ m <= k - 1 /\ \A j \in 1 .. m : pem[k - 1 - m + j] = Footer[j]
      BY <2>1, <2>2, <2>3 DEF Matched
    <3> HIDE DEF m
    <3>2. ASSUME NEW j \in 1 .. m + 1
          PROVE  pem[k - (m + 1) + j] = Footer[j]
      <4>1. CASE j = m + 1
        <5>1. k - (m + 1) + j = k
          BY <1>1, <3>1, <4>1
        <5> QED
          BY <2>3, <4>1, <5>1 DEF m
      <4>2. CASE j # m + 1
        <5>1. j \in 1 .. m /\ k - (m + 1) + j = k - 1 - m + j
          BY <1>1, <3>1, <4>2
        <5> QED
          BY <3>1, <5>1
      <4> QED
        BY <4>1, <4>2
    <3> QED
      BY <1>1, <3>1, <3>2 DEF Matched
  <2>4. CASE pem[k] # Footer[ind[k - 1] + 1]
    BY <2>1, <2>4 DEF Matched
  <2> QED
    BY <2>3, <2>4
<1>5. T = 0 .. n
  <2>1. T \in SUBSET (0 .. n)
    OBVIOUS
  <2> HIDE DEF T
  <2> QED
    BY <1>1, <1>3, <1>4, <2>1, Induction
<1>6. i \in T /\ i > 0
  BY <1>1, <1>5 DEF n
<1> QED
  BY <1>6 DEF F, ind

\* A footer at s that starts a line is complete at its end, or one was before.
LEMMA FooterIndFinds ==
    ASSUME NEW S, NEW pem \in Seq(S), NEW s \in Footers(pem),
           s = 1 \/ pem[s - 1] \notin Range(Footer)
    PROVE  \E i \in 1 .. Len(pem) :
               i <= s + Len(Footer) - 1 /\ FooterInd(pem)[i] = Len(Footer)
<1> DEFINE n == Len(pem)
           F == Len(Footer)
           ind == FooterInd(pem)
           T == {k \in 0 .. F : ind[s - 1 + k] = k}
<1>1. n \in Nat /\ F \in Nat \ {0}
  BY FooterAssumption
<1>2. /\ ind \in [0 .. n -> 0 .. F]
      /\ ind[0] = 0
      /\ \A k \in 1 .. n : ind[k] = Match(ind[k - 1], pem[k])
  BY FooterIndEquations
<1>3. /\ s \in 1 .. n /\ s + F - 1 \in 1 .. n
      /\ \A j \in 1 .. F : pem[s - 1 + j] = Footer[j]
  <2>1. s \in 1 .. n - F + 1 /\ SubSeq(pem, s, s + F - 1) = Footer
    BY DEF Footers
  <2>2. s \in Nat /\ s + F - 1 \in Nat /\ 1 <= s /\ s <= s + F - 1 + 1 /\ s + F - 1 <= Len(pem)
    BY <1>1, <2>1
  <2>3. \A j \in 1 .. s + F - 1 - s + 1 : SubSeq(pem, s, s + F - 1)[j] = pem[j + s - 1]
    BY <2>2, PartOfSeq
  <2>4. ASSUME NEW j \in 1 .. F
        PROVE  pem[s - 1 + j] = Footer[j]
    <3>1. j \in 1 .. s + F - 1 - s + 1 /\ j + s - 1 = s - 1 + j
      BY <1>1, <2>2
    <3> QED
      BY <2>1, <2>3, <3>1
  <2> QED
    BY <1>1, <2>2, <2>4
<1> HIDE DEF n, F, ind
<1>4. CASE ind[s - 1] = F
  <2>1. s - 1 \in 1 .. n /\ s - 1 <= s + F - 1
    BY <1>1, <1>2, <1>3, <1>4
  <2> QED
    BY <1>4, <2>1 DEF n, F, ind
<1>5. CASE ind[s - 1] # F
  <2>1. ind[s - 1] = 0
    <3>1. CASE s = 1
      BY <1>2, <3>1
    <3>2. CASE s # 1
      <4>1. s - 1 \in 1 .. n /\ s - 1 - 1 \in 0 .. n
        BY <1>1, <1>3, <3>2
      <4>2. ind[s - 1] = Match(ind[s - 1 - 1], pem[s - 1]) /\ ind[s - 1 - 1] \in 0 .. F
        BY <1>2, <4>1
      <4>3. ind[s - 1 - 1] # F
        BY <1>5, <4>2 DEF Match, F
      <4>4. ind[s - 1 - 1] + 1 \in 1 .. F
        BY <1>1, <4>2, <4>3
      <4>5. Footer[ind[s - 1 - 1] + 1] \in Range(Footer)
        BY <4>4, FooterAssumption DEF Range, F
      <4> QED
        BY <3>2, <4>2, <4>3, <4>5 DEF Match, F
    <3> QED
      BY <3>1, <3>2
  <2>2. 0 \in T
    BY <1>1, <1>3, <2>1
  <2>3. ASSUME NEW k \in 1 .. F, k - 1 \in T
        PROVE  k \in T
    <3>1. /\ s - 1 + k \in 1 .. n /\ s - 1 + k - 1 = s - 1 + (k - 1)
          /\ k - 1 # F /\ k - 1 + 1 = k /\ k \in 0 .. F
      BY <1>1, <1>3
    <3>2. ind[s - 1 + k] = Match(k - 1, Footer[k])
      BY <1>2, <1>3, <2>3, <3>1
    <3> QED
      BY <3>1, <3>2 DEF Match, F
  <2>4. T = 0 .. F
    <3>1. T \in SUBSET (0 .. F)
      OBVIOUS
    <3> HIDE DEF T
    <3> QED
      BY <1>1, <2>2, <2>3, <3>1, Induction
  <2>5. ind[s - 1 + F] = F
    BY <1>1, <2>4
  <2>6. s + F - 1 = s - 1 + F
    BY <1>1, <1>3
  <2> QED
    BY <1>3, <2>5, <2>6 DEF n, F, ind
<1> QED
  BY <1>4, <1>5

\* crop_pem_chain cuts behind a footer or not at all, and never behind the
\* first footer that starts a line.
LEMMA CropProperties ==
    ASSUME NEW S, NEW pem \in Seq(S)
    PROVE  /\ crop_pem_chain(pem) = Len(pem) \/ crop_pem_chain(pem) - Len(Footer) + 1 \in Footers(pem)
           /\ \A s \in Footers(pem) : s = 1 \/ pem[s - 1] \notin Range(Footer)
                  => crop_pem_chain(pem) <= s + Len(Footer) - 1
<1> DEFINE n == Len(pem)
           F == Len(Footer)
           ind == FooterInd(pem)
           ends == {i \in 1 .. n : ind[i] = F}
           e == Min(ends)
<1>1. n \in Nat /\ F \in Nat \ {0}
  BY FooterAssumption
<1>2. /\ ind \in [0 .. n -> 0 .. F]
      /\ ind[0] = 0
  BY FooterIndEquations
<1>3. crop_pem_chain(pem) = IF ends = {} THEN n ELSE e
  BY DEF crop_pem_chain
<1>4. ends \in SUBSET Nat
  OBVIOUS
<1>5. ends # {} => e \in ends /\ \A i \in ends : e <= i
  <2> HIDE DEF ends
  <2> QED
    BY <1>4, MinProperties
<1> HIDE DEF e
<1>6. ends # {} => e - F + 1 \in Footers(pem)
  <2> SUFFICES ASSUME ends # {}
               PROVE  e - F + 1 \in Footers(pem)
    OBVIOUS
  <2>1. e \in 1 .. n /\ ind[e] = F
    BY <1>5
  <2>2. ind[e - 1] # F
    <3>1. CASE e = 1
      BY <1>1, <1>2, <3>1
    <3>2. CASE e # 1
      <4>1. e - 1 \in 1 .. n /\ ~(e <= e - 1)
        BY <1>1, <2>1, <3>2
      <4> QED
        BY <1>5, <4>1
    <3> QED
      BY <3>1, <3>2
  <2>3. Matched(pem, e, F)
    BY <2>1, <2>2, FooterIndMatched
  <2>4. F <= e /\ \A j \in 1 .. F : pem[e - F + j] = Footer[j]
    BY <2>3 DEF Matched
  <2> DEFINE s == e - F + 1
             part == SubSeq(pem, s, s + F - 1)
  <2>5. s \in Nat /\ s + F - 1 = e /\ s \in 1 .. n - F + 1 /\ e \in Nat /\ 1 <= s /\ s <= e + 1 /\ e <= n
        /\ e - s + 1 = F
    BY <1>1, <2>1, <2>4
  <2>6. part \in Seq(S) /\ Len(part) = F /\ \A j \in 1 .. F : part[j] = pem[j + s - 1]
    BY <2>5, PartOfSeq
  <2>7. \A j \in 1 .. F : j + s - 1 = e - F + j
    BY <1>1, <2>1
  <2> HIDE DEF part
  <2>8. part = Footer
    <3>1. \A j \in 1 .. F : part[j] = Footer[j]
      BY <2>4, <2>6, <2>7
    <3>2. part \in [1 .. F -> S] /\ DOMAIN Footer = 1 .. F /\ Footer = [j \in 1 .. F |-> Footer[j]]
      BY <2>6, FooterAssumption
    <3> QED
      BY <3>1, <3>2
  <2> QED
    BY <2>5, <2>8 DEF Footers, part
<1>7. ASSUME NEW s \in Footers(pem), s = 1 \/ pem[s - 1] \notin Range(Footer)
      PROVE  ends # {} /\ e <= s + F - 1
  <2>1. PICK i \in 1 .. n : i <= s + F - 1 /\ ind[i] = F
    BY <1>7, FooterIndFinds
  <2>2. i \in ends
    BY <2>1
  <2>3. e \in ends /\ e <= i
    BY <1>5, <2>2
  <2>4. e \in Nat /\ i \in Nat
    BY <1>4, <2>2, <2>3
  <2>5. s \in Int
    BY <1>1 DEF Footers
  <2> QED
    BY <1>1, <2>1, <2>2, <2>3, <2>4, <2>5
<1> QED
  BY <1>3, <1>6, <1>7

\* crop_pem_chain keeps the first certificate of a chain: what it takes for a
\* footer is one, and no footer that starts a line is passed over, whatever
\* the footer, the text around it and the length of the chain.
THEOREM CropIsFirstHolds == Spec => []CropIsFirst
<1>1. InputInv => CropIsFirst
  <2> SUFFICES ASSUME InputInv
               PROVE  CropIsFirst
    OBVIOUS
  <2> DEFINE starts   == Footers(input)
             starting == {i \in starts : i = 1 \/ input[i - 1] \notin Range(Footer)}
             crop     == crop_pem_chain(input)
  <2>1. /\ crop = Len(input) \/ crop - Len(Footer) + 1 \in starts
        /\ \A i \in starting : crop <= i + Len(Footer) - 1
    BY CropProperties DEF InputInv
  <2>2. starting # {} => Min(starting) \in starting
    <3>1. starting \in SUBSET Nat
      BY DEF Footers
    <3> HIDE DEF starting
    <3> QED
      BY <3>1, MinProperties
  <2> QED
    BY <2>1, <2>2 DEF CropIsFirst
<1> QED
  BY <1>1, InputInvariant, PTL

----------------------------------------------------------------------------
(* Sequences of sequences                                                  *)

\* What FlattenSeq computes, a sequence at a time.
LEMMA FlattenSteps ==
    ASSUME NEW S, NEW seqs \in Seq(Seq(S))
    PROVE  \E g \in [0 .. Len(seqs) -> Seq(S)] :
               /\ g[0] = <<>>
               /\ \A k \in 1 .. Len(seqs) : g[k] = g[k - 1] \o seqs[k]
               /\ FlattenSeq(seqs) = g[Len(seqs)]
<1> DEFINE n == Len(seqs)
           X == Seq(S)
           step == [k \in 1 .. n |-> [x \in X |-> x \o seqs[k]]]
           Def(f) == f = [i \in 1 .. n |-> IF i = 1 THEN seqs[i] ELSE f[i - 1] \o seqs[i]]
           f == CHOOSE h : Def(h)
<1>1. n \in Nat /\ <<>> \in X /\ \A k \in 1 .. n : seqs[k] \in X
  OBVIOUS
<1>2. \A x, y \in X : x \o y \in X
  OBVIOUS
<1>3. \A x \in X : <<>> \o x = x
  OBVIOUS
<1>4. FlattenSeq(seqs) = IF n = 0 THEN seqs ELSE f[n]
  BY DEF FlattenSeq
<1>5. n = 0 => seqs = <<>>
  OBVIOUS
<1> HIDE DEF n, X
<1>6. step \in [1 .. n -> [X -> X]]
  BY <1>1, <1>2
<1>7. PICK g : IsRecursive(g, n, X, <<>>, step)
  <2> HIDE DEF step
  <2> QED
    BY <1>1, <1>6, RecursiveFunction
<1>8. /\ g \in [0 .. n -> X] /\ g[0] = <<>>
      /\ \A k \in 1 .. n : g[k] = g[k - 1] \o seqs[k]
  <2>1. ASSUME NEW k \in 1 .. n
        PROVE  g[k] = g[k - 1] \o seqs[k]
    <3>1. g[k - 1] \in X
      BY <1>1, <1>7 DEF IsRecursive
    <3> QED
      BY <1>7, <3>1 DEF IsRecursive
  <2> QED
    BY <1>7, <2>1 DEF IsRecursive
<1> HIDE DEF step
<1>9. Def(f)
  <2> DEFINE h == [i \in 1 .. n |-> g[i]]
  <2>1. ASSUME NEW i \in 1 .. n
        PROVE  h[i] = IF i = 1 THEN seqs[i] ELSE h[i - 1] \o seqs[i]
    <3>1. CASE i = 1
      BY <1>1, <1>3, <1>8, <3>1
    <3>2. CASE i # 1
      <4>1. i - 1 \in 1 .. n
        BY <1>1, <3>2
      <4> QED
        BY <1>8, <3>2, <4>1
    <3> QED
      BY <3>1, <3>2
  <2>2. h = [i \in 1 .. n |-> h[i]]
    OBVIOUS
  <2> HIDE DEF h
  <2>3. Def(h)
    BY <2>1, <2>2
  <2> HIDE DEF Def
  <2> QED
    BY <2>3
<1>10. \A i \in 1 .. n : f[i] = IF i = 1 THEN seqs[i] ELSE f[i - 1] \o seqs[i]
  <2> HIDE DEF f
  <2> QED
    BY <1>9, Zenon
<1> HIDE DEF f, Def
<1> DEFINE T == {k \in 0 .. n : k = 0 \/ f[k] = g[k]}
<1>11. T = 0 .. n
  <2>1. 0 \in T
    BY <1>1
  <2>2. ASSUME NEW k \in 1 .. n, k - 1 \in T
        PROVE  k \in T
    <3>1. /\ f[k] = IF k = 1 THEN seqs[k] ELSE f[k - 1] \o seqs[k]
          /\ g[k] = g[k - 1] \o seqs[k]
      BY <1>8, <1>10
    <3>2. CASE k = 1
      <4>1. g[k] = <<>> \o seqs[k] /\ seqs[k] \in X
        <5>1. k - 1 = 0
          BY <3>2
        <5> QED
          BY <1>1, <1>8, <3>1, <5>1, Zenon
      <4> QED
        BY <1>1, <1>3, <3>1, <3>2, <4>1
    <3>3. CASE k # 1
      <4>1. f[k - 1] = g[k - 1]
        BY <2>2, <3>3
      <4> QED
        <5>1. f[k] = g[k]
          BY <3>1, <3>3, <4>1, Zenon
        <5>2. k \in 0 .. n
          BY <1>1
        <5> QED
          BY <5>1, <5>2, Zenon
    <3> QED
      BY <3>2, <3>3
  <2>3. T \in SUBSET (0 .. n)
    OBVIOUS
  <2> HIDE DEF T
  <2> QED
    BY <1>1, <2>1, <2>2, <2>3, Induction
<1>12. FlattenSeq(seqs) = g[n]
  <2>1. n \in T
    BY <1>1, <1>11
  <2> QED
    BY <1>4, <1>5, <1>8, <2>1
<1> QED
  BY <1>8, <1>12 DEF n, X

\* off[i] is the length of the first i sequences.
IsOffset(off, seqs) ==
    /\ off \in [0 .. Len(seqs) -> Nat]
    /\ off[0] = 0
    /\ \A i \in 1 .. Len(seqs) : off[i] = off[i - 1] + Len(seqs[i])

\* f has the elements of sequence i behind its first off[i - 1].
IsFlat(f, S, seqs, off) ==
    /\ f \in Seq(S)
    /\ Len(f) = off[Len(seqs)]
    /\ \A i \in 1 .. Len(seqs) : \A j \in 1 .. Len(seqs[i]) : f[off[i - 1] + j] = seqs[i][j]
    /\ \A i \in 1 .. Len(seqs) : off[i] <= off[Len(seqs)]

\* FlattenSeq puts sequences together.
LEMMA FlattenProperties ==
    ASSUME NEW S, NEW seqs \in Seq(Seq(S)), NEW off, IsOffset(off, seqs)
    PROVE  IsFlat(FlattenSeq(seqs), S, seqs, off)
<1> DEFINE n == Len(seqs)
           Placed(f, k) ==
               /\ Len(f) = off[k]
               /\ \A i \in 1 .. k : off[i] <= off[k] /\ \A j \in 1 .. Len(seqs[i]) : f[off[i - 1] + j] = seqs[i][j]
<1>1. PICK g \in [0 .. n -> Seq(S)] :
          /\ g[0] = <<>>
          /\ \A k \in 1 .. n : g[k] = g[k - 1] \o seqs[k]
          /\ FlattenSeq(seqs) = g[n]
  BY FlattenSteps
<1>2. /\ n \in Nat
      /\ \A k \in 1 .. n : seqs[k] \in Seq(S)
      /\ \A k \in 0 .. n : off[k] \in Nat
      /\ off[0] = 0
      /\ \A k \in 1 .. n : off[k] = off[k - 1] + Len(seqs[k])
  <2>1. n \in Nat /\ \A k \in 1 .. n : seqs[k] \in Seq(S)
    OBVIOUS
  <2>2. /\ off \in [0 .. n -> Nat] /\ off[0] = 0
        /\ \A k \in 1 .. n : off[k] = off[k - 1] + Len(seqs[k])
    BY Zenon DEF IsOffset
  <2> HIDE DEF n
  <2> QED
    BY <2>1, <2>2
<1> HIDE DEF n
<1> DEFINE T == {k \in 0 .. n : Placed(g[k], k)}
<1>3. 0 \in T
  BY <1>1, <1>2
<1>4. ASSUME NEW k \in 1 .. n, k - 1 \in T
      PROVE  k \in T
  <2> DEFINE a == g[k - 1]
             b == seqs[k]
             c == g[k]
  <2>1. a \in Seq(S) /\ b \in Seq(S) /\ c = a \o b /\ k - 1 \in 0 .. n /\ k \in 0 .. n
    <3>1. k - 1 \in 0 .. n /\ k \in 0 .. n
      BY <1>2
    <3>2. a \in Seq(S)
      BY <1>1, <3>1, Zenon
    <3>3. b \in Seq(S) /\ c = a \o b
      BY <1>1, <1>2, Zenon
    <3> QED
      BY <3>1, <3>2, <3>3
  <2>2. Len(a) = off[k - 1] /\ off[k] = off[k - 1] + Len(b) /\ off[k - 1] \in Nat /\ Len(b) \in Nat
    BY <1>2, <1>4, <2>1
  <2>3. \A i \in 1 .. k - 1 :
            off[i] <= off[k - 1] /\ \A j \in 1 .. Len(seqs[i]) : a[off[i - 1] + j] = seqs[i][j]
    BY <1>4
  <2> HIDE DEF a, b, c
  <2>4. Len(c) = Len(a) + Len(b)
        /\ \A m \in 1 .. Len(a) + Len(b) : c[m] = IF m <= Len(a) THEN a[m] ELSE b[m - Len(a)]
    BY <2>1, ConcatProperties
  <2>5. ASSUME NEW i \in 1 .. k
        PROVE  off[i] <= off[k] /\ \A j \in 1 .. Len(seqs[i]) : c[off[i - 1] + j] = seqs[i][j]
    <3>1. CASE i = k
      <4>1. off[k] <= off[k]
        BY <1>2, <2>1
      <4>2. ASSUME NEW j \in 1 .. Len(b)
            PROVE  c[off[k - 1] + j] = b[j]
        <5> DEFINE m == off[k - 1] + j
        <5>1. m \in 1 .. Len(a) + Len(b) /\ ~(m <= Len(a)) /\ m - Len(a) = j
          BY <2>2
        <5> HIDE DEF m
        <5>2. c[m] = b[j]
          BY <2>4, <5>1
        <5> QED
          BY <5>2 DEF m
      <4> QED
        BY <3>1, <4>1, <4>2 DEF b
    <3>2. CASE i # k
      <4>1. i \in 1 .. k - 1 /\ i \in 1 .. n /\ i - 1 \in 0 .. n /\ i \in 0 .. n
        BY <1>2, <3>2
      <4>2. /\ off[i] <= off[k - 1] /\ off[i] \in Nat /\ off[i - 1] \in Nat
            /\ off[i] = off[i - 1] + Len(seqs[i]) /\ Len(seqs[i]) \in Nat
        BY <1>2, <2>3, <4>1
      <4>3. ASSUME NEW j \in 1 .. Len(seqs[i])
            PROVE  c[off[i - 1] + j] = seqs[i][j]
        <5> DEFINE m == off[i - 1] + j
        <5>1. m \in 1 .. Len(a) + Len(b) /\ m <= Len(a)
          <6>1. off[i - 1] \in Nat /\ Len(seqs[i]) \in Nat /\ j \in Nat /\ 1 <= j /\ j <= Len(seqs[i])
            BY <4>2
          <6>2. off[i - 1] + Len(seqs[i]) <= Len(a) /\ Len(a) \in Nat /\ Len(b) \in Nat
            BY <2>2, <4>2
          <6>3. PICK o, l \in Nat : o = off[i - 1] /\ l = Len(seqs[i])
            BY <6>1
          <6>4. o \in Nat /\ l \in Nat /\ 1 <= j /\ j <= l /\ o + l <= Len(a) /\ m = o + j
            BY <6>1, <6>2, <6>3
          <6> HIDE DEF m
          <6> QED
            BY <6>1, <6>2, <6>4
        <5>2. a[m] = seqs[i][j]
          BY <2>3, <4>1
        <5> HIDE DEF m
        <5>3. c[m] = seqs[i][j]
          BY <2>4, <5>1, <5>2
        <5> QED
          BY <5>3 DEF m
      <4>4. off[i] <= off[k]
        BY <2>2, <4>2
      <4> QED
        BY <4>3, <4>4
    <3> QED
      BY <3>1, <3>2
  <2>6. Placed(c, k)
    BY <2>2, <2>4, <2>5
  <2> QED
    BY <2>1, <2>6 DEF c
<1>5. T = 0 .. n
  <2>1. T \in SUBSET (0 .. n)
    OBVIOUS
  <2> HIDE DEF T
  <2> QED
    BY <1>2, <1>3, <1>4, <2>1, Induction
<1>6. n \in T /\ g[n] \in Seq(S)
  <2>1. n \in 0 .. n
    BY <1>2
  <2> QED
    BY <1>1, <1>5, <2>1
<1> QED
  BY <1>1, <1>6 DEF n, IsFlat

----------------------------------------------------------------------------
(* Base64                                                                  *)

Bytes == 0 .. 255

\* Byte i of s, or 0 behind it.
Byte(s, i) == IF i <= Len(s) THEN s[i] ELSE 0

\* The characters for bytes 3x + 1 to 3x + 3 of s.
Group(s, x) == EncodeGroup(Byte(s, 3 * x + 1), Byte(s, 3 * x + 2), Byte(s, 3 * x + 3))

\* Bytes are bytes, behind the end too.
LEMMA ByteType ==
    ASSUME NEW s \in Seq(Bytes), NEW i \in Nat \ {0}
    PROVE  Byte(s, i) \in Bytes
<1>1. CASE i <= Len(s)
  <2>1. s[i] \in Bytes
    BY <1>1
  <2> QED
    BY <1>1, <2>1 DEF Byte
<1>2. CASE ~(i <= Len(s))
  BY <1>2 DEF Byte, Bytes
<1> QED
  BY <1>1, <1>2

\* The bits of byte q + 1.
LEMMA BitsOfByte ==
    ASSUME NEW s \in Seq(Bytes), NEW q \in Nat
    PROVE  /\ Bit(s, 8 * q) = (Byte(s, q + 1) \div 128) % 2
           /\ Bit(s, 8 * q + 1) = (Byte(s, q + 1) \div 64) % 2
           /\ Bit(s, 8 * q + 2) = (Byte(s, q + 1) \div 32) % 2
           /\ Bit(s, 8 * q + 3) = (Byte(s, q + 1) \div 16) % 2
           /\ Bit(s, 8 * q + 4) = (Byte(s, q + 1) \div 8) % 2
           /\ Bit(s, 8 * q + 5) = (Byte(s, q + 1) \div 4) % 2
           /\ Bit(s, 8 * q + 6) = (Byte(s, q + 1) \div 2) % 2
           /\ Bit(s, 8 * q + 7) = (Byte(s, q + 1) \div 1) % 2
<1> DEFINE weight == <<128, 64, 32, 16, 8, 4, 2, 1>>
<1>1. \A r \in 0 .. 7 : (8 * q + r) \div 8 = q /\ (8 * q + r) % 8 = r
  OBVIOUS
<1>2. \A r \in 0 .. 7 :
          Bit(s, 8 * q + r) = IF q < Len(s) THEN (s[q + 1] \div weight[r + 1]) % 2 ELSE 0
  BY <1>1 DEF Bit
<1>3. /\ weight[1] = 128 /\ weight[2] = 64 /\ weight[3] = 32 /\ weight[4] = 16
      /\ weight[5] = 8 /\ weight[6] = 4 /\ weight[7] = 2 /\ weight[8] = 1
  OBVIOUS
<1> HIDE DEF weight
<1>4. /\ Bit(s, 8 * q + 0) = IF q < Len(s) THEN (s[q + 1] \div 128) % 2 ELSE 0
      /\ Bit(s, 8 * q + 1) = IF q < Len(s) THEN (s[q + 1] \div 64) % 2 ELSE 0
      /\ Bit(s, 8 * q + 2) = IF q < Len(s) THEN (s[q + 1] \div 32) % 2 ELSE 0
      /\ Bit(s, 8 * q + 3) = IF q < Len(s) THEN (s[q + 1] \div 16) % 2 ELSE 0
      /\ Bit(s, 8 * q + 4) = IF q < Len(s) THEN (s[q + 1] \div 8) % 2 ELSE 0
      /\ Bit(s, 8 * q + 5) = IF q < Len(s) THEN (s[q + 1] \div 4) % 2 ELSE 0
      /\ Bit(s, 8 * q + 6) = IF q < Len(s) THEN (s[q + 1] \div 2) % 2 ELSE 0
      /\ Bit(s, 8 * q + 7) = IF q < Len(s) THEN (s[q + 1] \div 1) % 2 ELSE 0
  <2>1. Bit(s, 8 * q + 0) = IF q < Len(s) THEN (s[q + 1] \div 128) % 2 ELSE 0
    <3>1. 0 \in 0 .. 7 /\ 0 + 1 = 1
      OBVIOUS
    <3> QED
      BY <1>2, <1>3, <3>1, SMTT(40)
  <2>2. Bit(s, 8 * q + 1) = IF q < Len(s) THEN (s[q + 1] \div 64) % 2 ELSE 0
    <3>1. 1 \in 0 .. 7 /\ 1 + 1 = 2
      OBVIOUS
    <3> QED
      BY <1>2, <1>3, <3>1, SMTT(40)
  <2>3. Bit(s, 8 * q + 2) = IF q < Len(s) THEN (s[q + 1] \div 32) % 2 ELSE 0
    <3>1. 2 \in 0 .. 7 /\ 2 + 1 = 3
      OBVIOUS
    <3> QED
      BY <1>2, <1>3, <3>1, SMTT(40)
  <2>4. Bit(s, 8 * q + 3) = IF q < Len(s) THEN (s[q + 1] \div 16) % 2 ELSE 0
    <3>1. 3 \in 0 .. 7 /\ 3 + 1 = 4
      OBVIOUS
    <3> QED
      BY <1>2, <1>3, <3>1, SMTT(40)
  <2>5. Bit(s, 8 * q + 4) = IF q < Len(s) THEN (s[q + 1] \div 8) % 2 ELSE 0
    <3>1. 4 \in 0 .. 7 /\ 4 + 1 = 5
      OBVIOUS
    <3> QED
      BY <1>2, <1>3, <3>1, SMTT(40)
  <2>6. Bit(s, 8 * q + 5) = IF q < Len(s) THEN (s[q + 1] \div 4) % 2 ELSE 0
    <3>1. 5 \in 0 .. 7 /\ 5 + 1 = 6
      OBVIOUS
    <3> QED
      BY <1>2, <1>3, <3>1, SMTT(40)
  <2>7. Bit(s, 8 * q + 6) = IF q < Len(s) THEN (s[q + 1] \div 2) % 2 ELSE 0
    <3>1. 6 \in 0 .. 7 /\ 6 + 1 = 7
      OBVIOUS
    <3> QED
      BY <1>2, <1>3, <3>1, SMTT(40)
  <2>8. Bit(s, 8 * q + 7) = IF q < Len(s) THEN (s[q + 1] \div 1) % 2 ELSE 0
    <3>1. 7 \in 0 .. 7 /\ 7 + 1 = 8
      OBVIOUS
    <3> QED
      BY <1>2, <1>3, <3>1, SMTT(40)
  <2> QED
    BY <2>1, <2>2, <2>3, <2>4, <2>5, <2>6, <2>7, <2>8
<1>5. /\ Len(s) \in Nat /\ 8 * q + 0 = 8 * q
      /\ q < Len(s) => Byte(s, q + 1) = s[q + 1]
      /\ ~(q < Len(s)) => Byte(s, q + 1) = 0
  BY DEF Byte
<1>6. \A w \in {128, 64, 32, 16, 8, 4, 2, 1} : (0 \div w) % 2 = 0
  OBVIOUS
<1>7. CASE q < Len(s)
  BY <1>4, <1>5, <1>7
<1>8. CASE ~(q < Len(s))
  BY <1>4, <1>5, <1>6, <1>8, SMTT(30)
<1> QED
  BY <1>5, <1>7, <1>8

\* Bits are numbers.
LEMMA BitType ==
    ASSUME NEW a \in Bytes
    PROVE  /\ (a \div 128) % 2 \in Int /\ (a \div 64) % 2 \in Int
           /\ (a \div 32) % 2 \in Int /\ (a \div 16) % 2 \in Int
           /\ (a \div 8) % 2 \in Int /\ (a \div 4) % 2 \in Int
           /\ (a \div 2) % 2 \in Int /\ (a \div 1) % 2 \in Int
BY DEF Bytes

\* Bytes from their bits.
LEMMA BitsOfBytes ==
    ASSUME NEW a \in Bytes
    PROVE  /\ a \div 4 = 32 * ((a \div 128) % 2) + 16 * ((a \div 64) % 2) + 8 * ((a \div 32) % 2)
                         + 4 * ((a \div 16) % 2) + 2 * ((a \div 8) % 2) + ((a \div 4) % 2)
           /\ (a % 4) * 16 = 32 * ((a \div 2) % 2) + 16 * ((a \div 1) % 2)
           /\ a \div 16 = 8 * ((a \div 128) % 2) + 4 * ((a \div 64) % 2) + 2 * ((a \div 32) % 2)
                         + ((a \div 16) % 2)
           /\ (a % 16) * 4 = 32 * ((a \div 8) % 2) + 16 * ((a \div 4) % 2) + 8 * ((a \div 2) % 2)
                         + 4 * ((a \div 1) % 2)
           /\ a \div 64 = 2 * ((a \div 128) % 2) + ((a \div 64) % 2)
           /\ a % 64 = 32 * ((a \div 32) % 2) + 16 * ((a \div 16) % 2) + 8 * ((a \div 8) % 2)
                         + 4 * ((a \div 4) % 2) + 2 * ((a \div 2) % 2) + ((a \div 1) % 2)
BY DEF Bytes

\* A group of characters is the bit string, six bits a character.
LEMMA GroupIsBits ==
    ASSUME NEW s \in Seq(Bytes), NEW x \in Nat
    PROVE  /\ SixBits(s, 4 * x) = Group(s, x)[1]
           /\ SixBits(s, 4 * x + 1) = Group(s, x)[2]
           /\ SixBits(s, 4 * x + 2) = Group(s, x)[3]
           /\ SixBits(s, 4 * x + 3) = Group(s, x)[4]
<1> DEFINE a == Byte(s, 3 * x + 1)
           b == Byte(s, 3 * x + 2)
           c == Byte(s, 3 * x + 3)
           Bt(k) == Bit(s, 24 * x + k)
<1>1. a \in Bytes /\ b \in Bytes /\ c \in Bytes
  <2>1. 3 * x + 1 \in Nat \ {0} /\ 3 * x + 2 \in Nat \ {0} /\ 3 * x + 3 \in Nat \ {0}
    OBVIOUS
  <2> QED
    BY <2>1, ByteType
<1>2. /\ Bt(0) = (a \div 128) % 2 /\ Bt(1) = (a \div 64) % 2
      /\ Bt(2) = (a \div 32) % 2 /\ Bt(3) = (a \div 16) % 2
      /\ Bt(4) = (a \div 8) % 2 /\ Bt(5) = (a \div 4) % 2
      /\ Bt(6) = (a \div 2) % 2 /\ Bt(7) = (a \div 1) % 2
  <2>1. /\ 3 * x \in Nat /\ 24 * x + 0 = 8 * (3 * x)
        /\ 24 * x + 1 = 8 * (3 * x) + 1 /\ 24 * x + 2 = 8 * (3 * x) + 2
        /\ 24 * x + 3 = 8 * (3 * x) + 3 /\ 24 * x + 4 = 8 * (3 * x) + 4
        /\ 24 * x + 5 = 8 * (3 * x) + 5 /\ 24 * x + 6 = 8 * (3 * x) + 6
        /\ 24 * x + 7 = 8 * (3 * x) + 7
    OBVIOUS
  <2> QED
    BY <2>1, BitsOfByte
<1>3. /\ Bt(8) = (b \div 128) % 2 /\ Bt(9) = (b \div 64) % 2
      /\ Bt(10) = (b \div 32) % 2 /\ Bt(11) = (b \div 16) % 2
      /\ Bt(12) = (b \div 8) % 2 /\ Bt(13) = (b \div 4) % 2
      /\ Bt(14) = (b \div 2) % 2 /\ Bt(15) = (b \div 1) % 2
  <2>1. /\ 3 * x + 1 \in Nat /\ 24 * x + 8 = 8 * (3 * x + 1) /\ 3 * x + 1 + 1 = 3 * x + 2
        /\ 24 * x + 9 = 8 * (3 * x + 1) + 1 /\ 24 * x + 10 = 8 * (3 * x + 1) + 2
        /\ 24 * x + 11 = 8 * (3 * x + 1) + 3 /\ 24 * x + 12 = 8 * (3 * x + 1) + 4
        /\ 24 * x + 13 = 8 * (3 * x + 1) + 5 /\ 24 * x + 14 = 8 * (3 * x + 1) + 6
        /\ 24 * x + 15 = 8 * (3 * x + 1) + 7
    OBVIOUS
  <2> QED
    BY <2>1, BitsOfByte
<1>4. /\ Bt(16) = (c \div 128) % 2 /\ Bt(17) = (c \div 64) % 2
      /\ Bt(18) = (c \div 32) % 2 /\ Bt(19) = (c \div 16) % 2
      /\ Bt(20) = (c \div 8) % 2 /\ Bt(21) = (c \div 4) % 2
      /\ Bt(22) = (c \div 2) % 2 /\ Bt(23) = (c \div 1) % 2
  <2>1. /\ 3 * x + 2 \in Nat /\ 24 * x + 16 = 8 * (3 * x + 2) /\ 3 * x + 2 + 1 = 3 * x + 3
        /\ 24 * x + 17 = 8 * (3 * x + 2) + 1 /\ 24 * x + 18 = 8 * (3 * x + 2) + 2
        /\ 24 * x + 19 = 8 * (3 * x + 2) + 3 /\ 24 * x + 20 = 8 * (3 * x + 2) + 4
        /\ 24 * x + 21 = 8 * (3 * x + 2) + 5 /\ 24 * x + 22 = 8 * (3 * x + 2) + 6
        /\ 24 * x + 23 = 8 * (3 * x + 2) + 7
    OBVIOUS
  <2> DEFINE q == 3 * x + 2
  <2>2. q \in Nat /\ c = Byte(s, q + 1)
    BY <2>1
  <2> HIDE DEF c, q
  <2>3. /\ Bit(s, 8 * q) = (c \div 128) % 2 /\ Bit(s, 8 * q + 1) = (c \div 64) % 2
        /\ Bit(s, 8 * q + 2) = (c \div 32) % 2 /\ Bit(s, 8 * q + 3) = (c \div 16) % 2
        /\ Bit(s, 8 * q + 4) = (c \div 8) % 2 /\ Bit(s, 8 * q + 5) = (c \div 4) % 2
        /\ Bit(s, 8 * q + 6) = (c \div 2) % 2 /\ Bit(s, 8 * q + 7) = (c \div 1) % 2
    BY <2>2, BitsOfByte
  <2> QED
    BY <2>1, <2>3, ZenonT(40) DEF q
<1>5. ASSUME NEW m \in 0 .. 3
      PROVE  SixBits(s, 4 * x + m) = 32 * Bt(6 * m) + 16 * Bt(6 * m + 1) + 8 * Bt(6 * m + 2)
                                     + 4 * Bt(6 * m + 3) + 2 * Bt(6 * m + 4) + Bt(6 * m + 5)
  <2>1. \A k \in 0 .. 5 : 6 * (4 * x + m) + k = 24 * x + (6 * m + k)
    OBVIOUS
  <2>2. 6 * m + 0 = 6 * m
    OBVIOUS
  <2> QED
    BY <2>1, <2>2 DEF SixBits
<1>6. /\ Group(s, x)[1] = a \div 4 /\ Group(s, x)[2] = (a % 4) * 16 + b \div 16
      /\ Group(s, x)[3] = (b % 16) * 4 + c \div 64 /\ Group(s, x)[4] = c % 64
  BY DEF Group, EncodeGroup
<1> HIDE DEF a, b, c, Bt
<1>7. /\ SixBits(s, 4 * x + 0) = 32 * Bt(0) + 16 * Bt(1) + 8 * Bt(2) + 4 * Bt(3) + 2 * Bt(4) + Bt(5)
      /\ SixBits(s, 4 * x + 1) = 32 * Bt(6) + 16 * Bt(7) + 8 * Bt(8) + 4 * Bt(9) + 2 * Bt(10) + Bt(11)
      /\ SixBits(s, 4 * x + 2) = 32 * Bt(12) + 16 * Bt(13) + 8 * Bt(14) + 4 * Bt(15) + 2 * Bt(16) + Bt(17)
      /\ SixBits(s, 4 * x + 3) = 32 * Bt(18) + 16 * Bt(19) + 8 * Bt(20) + 4 * Bt(21) + 2 * Bt(22) + Bt(23)
  BY <1>5
<1>8. 4 * x + 0 = 4 * x
  OBVIOUS
<1>9. SixBits(s, 4 * x + 0) = a \div 4
  BY <1>1, <1>2, <1>7, BitsOfBytes
<1>10. SixBits(s, 4 * x + 1) = (a % 4) * 16 + b \div 16
  <2> DEFINE hi == (a % 4) * 16
             lo == b \div 16
  <2>1. hi = 32 * Bt(6) + 16 * Bt(7)
    BY <1>1, <1>2, BitsOfBytes
  <2>2. lo = 8 * Bt(8) + 4 * Bt(9) + 2 * Bt(10) + Bt(11)
    BY <1>1, <1>3, BitsOfBytes
  <2> QED
    <3>1. /\ Bt(6) \in Int /\ Bt(7) \in Int /\ Bt(8) \in Int
          /\ Bt(9) \in Int /\ Bt(10) \in Int /\ Bt(11) \in Int
      BY <1>1, <1>2, <1>3, BitType
    <3>2. PICK p, q, r, t, u, v \in Int :
              /\ p = Bt(6) /\ q = Bt(7) /\ r = Bt(8)
              /\ t = Bt(9) /\ u = Bt(10) /\ v = Bt(11)
      BY <3>1
    <3> HIDE DEF hi, lo
    <3>3. /\ SixBits(s, 4 * x + 1) = 32 * p + 16 * q + 8 * r + 4 * t + 2 * u + v
          /\ hi = 32 * p + 16 * q /\ lo = 8 * r + 4 * t + 2 * u + v
      BY <1>7, <2>1, <2>2, <3>2
    <3>4. SixBits(s, 4 * x + 1) = hi + lo
      BY <3>3
    <3> QED
      BY <3>4 DEF hi, lo
<1>11. SixBits(s, 4 * x + 2) = (b % 16) * 4 + c \div 64
  <2> DEFINE hi == (b % 16) * 4
             lo == c \div 64
  <2>1. hi = 32 * Bt(12) + 16 * Bt(13) + 8 * Bt(14) + 4 * Bt(15)
    BY <1>1, <1>3, BitsOfBytes
  <2>2. lo = 2 * Bt(16) + Bt(17)
    BY <1>1, <1>4, BitsOfBytes
  <2> QED
    <3>1. /\ Bt(12) \in Int /\ Bt(13) \in Int /\ Bt(14) \in Int
          /\ Bt(15) \in Int /\ Bt(16) \in Int /\ Bt(17) \in Int
      BY <1>1, <1>3, <1>4, BitType
    <3>2. PICK p, q, r, t, u, v \in Int :
              /\ p = Bt(12) /\ q = Bt(13) /\ r = Bt(14)
              /\ t = Bt(15) /\ u = Bt(16) /\ v = Bt(17)
      BY <3>1
    <3> HIDE DEF hi, lo
    <3>3. /\ SixBits(s, 4 * x + 2) = 32 * p + 16 * q + 8 * r + 4 * t + 2 * u + v
          /\ hi = 32 * p + 16 * q + 8 * r + 4 * t /\ lo = 2 * u + v
      BY <1>7, <2>1, <2>2, <3>2
    <3>4. SixBits(s, 4 * x + 2) = hi + lo
      BY <3>3
    <3> QED
      BY <3>4 DEF hi, lo
<1>12. SixBits(s, 4 * x + 3) = c % 64
  BY <1>1, <1>4, <1>7, BitsOfBytes
<1> QED
  BY <1>6, <1>8, <1>9, <1>10, <1>11, <1>12

Characters64 == 0 .. 64

\* A group is four characters.
LEMMA GroupType ==
    ASSUME NEW s \in Seq(Bytes), NEW x \in Nat
    PROVE  /\ Group(s, x) \in Seq(Characters64) /\ Len(Group(s, x)) = 4
           /\ \A k \in 1 .. 4 : Group(s, x)[k] \in 0 .. 63
<1> DEFINE a == Byte(s, 3 * x + 1)
           b == Byte(s, 3 * x + 2)
           c == Byte(s, 3 * x + 3)
<1>1. a \in 0 .. 255 /\ b \in 0 .. 255 /\ c \in 0 .. 255
  <2>1. 3 * x + 1 \in Nat \ {0} /\ 3 * x + 2 \in Nat \ {0} /\ 3 * x + 3 \in Nat \ {0}
    OBVIOUS
  <2> QED
    BY <2>1, ByteType DEF Bytes
<1>2. Group(s, x) = <<a \div 4, (a % 4) * 16 + b \div 16, (b % 16) * 4 + c \div 64, c % 64>>
  BY DEF Group, EncodeGroup
<1> HIDE DEF a, b, c
<1> DEFINE d == a \div 4
           e == (a % 4) * 16 + b \div 16
           f == (b % 16) * 4 + c \div 64
           h == c % 64
<1>3. d \in 0 .. 63 /\ e \in 0 .. 63 /\ f \in 0 .. 63 /\ h \in 0 .. 63
  BY <1>1
<1>4. Group(s, x) = <<d, e, f, h>>
  BY <1>2
<1> HIDE DEF d, e, f, h
<1>5. d \in Characters64 /\ e \in Characters64 /\ f \in Characters64 /\ h \in Characters64
  BY <1>3 DEF Characters64
<1> QED
  BY <1>3, <1>4, <1>5

\* How many groups there are, and how many characters that stand for bits.
Groups(n) == (n + 2) \div 3
BitChars(n) == (8 * n + 5) \div 6

\* The last group is incomplete when one or two bytes are left over.
LEMMA GroupCounts ==
    ASSUME NEW n \in Nat
    PROVE  /\ n \div 3 \in Nat /\ n - 3 * (n \div 3) \in {0, 1, 2}
           /\ n - 3 * (n \div 3) = 0 => Groups(n) = n \div 3 /\ BitChars(n) = 4 * (n \div 3)
           /\ n - 3 * (n \div 3) = 1 => Groups(n) = n \div 3 + 1 /\ BitChars(n) = 4 * (n \div 3) + 2
           /\ n - 3 * (n \div 3) = 2 => Groups(n) = n \div 3 + 1 /\ BitChars(n) = 4 * (n \div 3) + 3
BY DEF Groups, BitChars

\* The groups of owl_base64encode's loop, one after the other.
LEMMA EncodeLoop ==
    ASSUME NEW s \in Seq(Bytes)
    PROVE  LET G    == Len(s) \div 3
               flat == FlattenSeq([g \in 1 .. G |-> EncodeGroup(s[3*g - 2], s[3*g - 1], s[3*g])])
           IN  /\ flat \in Seq(Characters64) /\ Len(flat) = 4 * G
               /\ \A x \in 0 .. G - 1 : \A k \in 1 .. 4 : flat[4 * x + k] = Group(s, x)[k]
<1> DEFINE n == Len(s)
           G == n \div 3
           seqs == [g \in 1 .. G |-> EncodeGroup(s[3*g - 2], s[3*g - 1], s[3*g])]
           off == [i \in 0 .. G |-> 4 * i]
<1>1. n \in Nat /\ G \in Nat /\ 3 * G <= n
  OBVIOUS
<1>2. ASSUME NEW g \in 1 .. G
      PROVE  seqs[g] = Group(s, g - 1)
  <2>1. /\ 3 * (g - 1) + 1 = 3*g - 2 /\ 3 * (g - 1) + 2 = 3*g - 1 /\ 3 * (g - 1) + 3 = 3*g
        /\ 3*g - 2 <= n /\ 3*g - 1 <= n /\ 3*g <= n
    BY <1>1
  <2> QED
    BY <2>1 DEF Group, Byte
<1>3. seqs = [g \in 1 .. G |-> Group(s, g - 1)]
  BY <1>2
<1> HIDE DEF n, G, seqs
<1>4. ASSUME NEW g \in 1 .. G
      PROVE  /\ seqs[g] = Group(s, g - 1) /\ Len(seqs[g]) = 4 /\ seqs[g] \in Seq(Characters64)
  <2>1. g - 1 \in Nat
    BY <1>1
  <2> QED
    BY <1>2, <2>1, GroupType
<1>5. seqs \in Seq(Seq(Characters64)) /\ Len(seqs) = G
  <2>1. seqs \in [1 .. G -> Seq(Characters64)]
    BY <1>3, <1>4
  <2> QED
    BY <1>1, <2>1
<1>6. IsOffset(off, seqs)
  <2>1. /\ off \in [0 .. G -> Nat] /\ off[0] = 0
        /\ \A i \in 1 .. G : off[i] = off[i - 1] + 4
    BY <1>1
  <2> HIDE DEF off
  <2> QED
    BY <1>4, <1>5, <2>1 DEF IsOffset
<1>7. /\ FlattenSeq(seqs) \in Seq(Characters64)
      /\ Len(FlattenSeq(seqs)) = off[G]
      /\ \A i \in 1 .. G : \A j \in 1 .. Len(seqs[i]) : FlattenSeq(seqs)[off[i - 1] + j] = seqs[i][j]
  <2> HIDE DEF off
  <2>1. IsFlat(FlattenSeq(seqs), Characters64, seqs, off)
    BY <1>5, <1>6, FlattenProperties
  <2> QED
    BY <1>5, <2>1 DEF IsFlat
<1> DEFINE flat == FlattenSeq(seqs)
<1>8. ASSUME NEW g \in 1 .. G, NEW k \in 1 .. 4
      PROVE  flat[4 * (g - 1) + k] = Group(s, g - 1)[k]
  <2>1. g - 1 \in 0 .. G
    BY <1>1
  <2>2. k \in 1 .. Len(seqs[g])
    BY <1>4
  <2>3. flat[off[g - 1] + k] = seqs[g][k]
    BY <1>7, <2>2, Zenon
  <2> HIDE DEF flat
  <2>4. off[g - 1] = 4 * (g - 1) /\ seqs[g] = Group(s, g - 1)
    BY <1>4, <2>1
  <2> QED
    BY <2>3, <2>4
<1> HIDE DEF flat
<1>9. ASSUME NEW x \in 0 .. G - 1, NEW k \in 1 .. 4
      PROVE  flat[4 * x + k] = Group(s, x)[k]
  <2>1. x + 1 \in 1 .. G /\ x + 1 - 1 = x
    BY <1>1
  <2>2. PICK g \in 1 .. G : g - 1 = x
    BY <2>1
  <2>3. flat[4 * (g - 1) + k] = Group(s, g - 1)[k]
    BY <1>8
  <2> QED
    BY <2>2, <2>3
<1>10. off[G] = 4 * G
  BY <1>1
<1> QED
  BY <1>7, <1>9, <1>10 DEF flat, seqs, G, n

\* What owl_base64encode writes for the bytes left over.
Tail64(s) ==
    LET rest == SubSeq(s, (Len(s) \div 3) * 3 + 1, Len(s))
    IN  CASE Len(rest) = 0 -> <<>>
          [] Len(rest) = 1 -> <<rest[1] \div 4, (rest[1] % 4) * 16, Other, Other>>
          [] Len(rest) = 2 -> <<rest[1] \div 4, (rest[1] % 4) * 16 + rest[2] \div 16,
                                (rest[2] % 16) * 4, Other>>

\* It is an incomplete group with the missing characters replaced.
LEMMA TailProperties ==
    ASSUME NEW s \in Seq(Bytes)
    PROVE  LET n == Len(s)
               G == n \div 3
           IN  /\ Tail64(s) \in Seq(Characters64) /\ Len(Tail64(s)) = 4 * (Groups(n) - G)
               /\ \A k \in 1 .. Len(Tail64(s)) :
                      Tail64(s)[k] = IF 4 * G + k <= BitChars(n) THEN Group(s, G)[k] ELSE Other
<1> DEFINE n == Len(s)
           G == n \div 3
           rest == SubSeq(s, G * 3 + 1, n)
<1>1. n \in Nat /\ G \in Nat /\ 3 * G <= n /\ n - 3 * G \in {0, 1, 2}
  OBVIOUS
<1>2. /\ n - 3 * G = 0 => Groups(n) = G /\ BitChars(n) = 4 * G
      /\ n - 3 * G = 1 => Groups(n) = G + 1 /\ BitChars(n) = 4 * G + 2
      /\ n - 3 * G = 2 => Groups(n) = G + 1 /\ BitChars(n) = 4 * G + 3
  BY <1>1, GroupCounts
<1>3. Tail64(s) = CASE Len(rest) = 0 -> <<>>
                    [] Len(rest) = 1 -> <<rest[1] \div 4, (rest[1] % 4) * 16, Other, Other>>
                    [] Len(rest) = 2 -> <<rest[1] \div 4, (rest[1] % 4) * 16 + rest[2] \div 16,
                                          (rest[2] % 16) * 4, Other>>
  BY DEF Tail64
<1> HIDE DEF G
<1>4. /\ rest \in Seq(Bytes) /\ Len(rest) = n - 3 * G
      /\ \A i \in 1 .. n - 3 * G : rest[i] = s[3 * G + i]
  <2> DEFINE m == G * 3 + 1
  <2>1. /\ m \in Nat /\ 1 <= m /\ m <= n + 1 /\ n <= Len(s)
        /\ n - m + 1 = n - 3 * G
        /\ \A i \in Int : i + m - 1 = 3 * G + i
    BY <1>1
  <2> HIDE DEF m, n
  <2>2. /\ SubSeq(s, m, n) \in Seq(Bytes) /\ Len(SubSeq(s, m, n)) = n - m + 1
        /\ \A i \in 1 .. n - m + 1 : SubSeq(s, m, n)[i] = s[i + m - 1]
    BY <1>1, <2>1, PartOfSeq
  <2>3. rest = SubSeq(s, m, n)
    BY DEF m
  <2> HIDE DEF rest
  <2>4. \A i \in 1 .. n - m + 1 : i \in Int
    OBVIOUS
  <2> QED
    BY <2>1, <2>2, <2>3, <2>4
<1> HIDE DEF n, rest
<1>5. Group(s, G) = EncodeGroup(Byte(s, 3 * G + 1), Byte(s, 3 * G + 2), Byte(s, 3 * G + 3))
  BY DEF Group
<1>6. CASE n - 3 * G = 0
  <2>1. Tail64(s) = <<>>
    BY <1>3, <1>4, <1>6
  <2>2. 4 * (Groups(n) - G) = 0
    BY <1>1, <1>2, <1>6
  <2> QED
    BY <2>1, <2>2 DEF n, G
<1>7. CASE n - 3 * G = 1
  <2> DEFINE a == s[3 * G + 1]
  <2>1. 3 * G + 1 <= n /\ ~(3 * G + 2 <= n) /\ 4 * (Groups(n) - G) = 4
    BY <1>1, <1>2, <1>7
  <2>2. rest[1] = a /\ Len(rest) = 1
    BY <1>4, <1>7
  <2>3. Byte(s, 3 * G + 1) = a /\ Byte(s, 3 * G + 2) = 0
    BY <2>1 DEF Byte, n
  <2>4. a \in 0 .. 255
    <3>1. rest[1] \in Bytes
      <4>1. rest \in Seq(Bytes) /\ Len(rest) = 1
        BY <1>4, <2>2, Zenon
      <4>2. 1 \in 1 .. Len(rest)
        BY <4>1
      <4> QED
        BY <4>1, <4>2, ElementOfSeq, Zenon
    <3> QED
      BY <2>2, <3>1 DEF Bytes
  <2> HIDE DEF a
  <2>5. Tail64(s) = <<a \div 4, (a % 4) * 16, Other, Other>>
    BY <1>3, <2>2
  <2>6. /\ Group(s, G)[1] = a \div 4 /\ Group(s, G)[2] = (a % 4) * 16 + 0 \div 16
    BY <1>5, <2>3 DEF EncodeGroup
  <2>7. (a % 4) * 16 + 0 \div 16 = (a % 4) * 16 /\ a \div 4 \in 0 .. 64 /\ (a % 4) * 16 \in 0 .. 64 /\ Other \in 0 .. 64
    BY <2>4 DEF Other
  <2>8. /\ 4 * G + 1 <= BitChars(n) /\ 4 * G + 2 <= BitChars(n)
        /\ ~(4 * G + 3 <= BitChars(n)) /\ ~(4 * G + 4 <= BitChars(n))
    BY <1>1, <1>2, <1>7
  <2> DEFINE d == a \div 4
             e == (a % 4) * 16
  <2>9. /\ Tail64(s) = <<d, e, Other, Other>> /\ Group(s, G)[1] = d /\ Group(s, G)[2] = e
        /\ d \in Characters64 /\ e \in Characters64 /\ Other \in Characters64
    BY <2>5, <2>6, <2>7 DEF Characters64
  <2> HIDE DEF d, e
  <2>10. Tail64(s) \in Seq(Characters64) /\ Len(Tail64(s)) = 4
    BY <2>9
  <2>11. \A k \in 1 .. 4 : Tail64(s)[k] = IF 4 * G + k <= BitChars(n) THEN Group(s, G)[k] ELSE Other
    BY <2>8, <2>9
  <2> QED
    BY <2>1, <2>10, <2>11 DEF n, G
<1>8. CASE n - 3 * G = 2
  <2> DEFINE a == s[3 * G + 1]
             b == s[3 * G + 2]
  <2>1. 3 * G + 1 <= n /\ 3 * G + 2 <= n /\ ~(3 * G + 3 <= n) /\ 4 * (Groups(n) - G) = 4
    BY <1>1, <1>2, <1>8
  <2>2. rest[1] = a /\ rest[2] = b /\ Len(rest) = 2
    BY <1>4, <1>8
  <2>3. Byte(s, 3 * G + 1) = a /\ Byte(s, 3 * G + 2) = b /\ Byte(s, 3 * G + 3) = 0
    BY <2>1 DEF Byte, n
  <2>4. a \in 0 .. 255 /\ b \in 0 .. 255
    <3>1. rest[1] \in Bytes /\ rest[2] \in Bytes
      <4>1. rest \in Seq(Bytes) /\ Len(rest) = 2
        BY <1>4, <2>2, Zenon
      <4>2. 1 \in 1 .. Len(rest) /\ 2 \in 1 .. Len(rest)
        BY <4>1
      <4> QED
        BY <4>1, <4>2, ElementOfSeq, Zenon
    <3> QED
      BY <2>2, <3>1 DEF Bytes
  <2> HIDE DEF a, b
  <2>5. Tail64(s) = <<a \div 4, (a % 4) * 16 + b \div 16, (b % 16) * 4, Other>>
    BY <1>3, <2>2
  <2>6. /\ Group(s, G)[1] = a \div 4 /\ Group(s, G)[2] = (a % 4) * 16 + b \div 16
        /\ Group(s, G)[3] = (b % 16) * 4 + 0 \div 64
    BY <1>5, <2>3 DEF EncodeGroup
  <2>7. /\ (b % 16) * 4 + 0 \div 64 = (b % 16) * 4
        /\ a \div 4 \in 0 .. 64 /\ (a % 4) * 16 + b \div 16 \in 0 .. 64 /\ (b % 16) * 4 \in 0 .. 64
        /\ Other \in 0 .. 64
    BY <2>4 DEF Other
  <2>8. /\ 4 * G + 1 <= BitChars(n) /\ 4 * G + 2 <= BitChars(n)
        /\ 4 * G + 3 <= BitChars(n) /\ ~(4 * G + 4 <= BitChars(n))
    BY <1>1, <1>2, <1>8
  <2> DEFINE d == a \div 4
             e == (a % 4) * 16 + b \div 16
             f == (b % 16) * 4
  <2>9. /\ Tail64(s) = <<d, e, f, Other>>
        /\ Group(s, G)[1] = d /\ Group(s, G)[2] = e /\ Group(s, G)[3] = f
        /\ d \in Characters64 /\ e \in Characters64 /\ f \in Characters64 /\ Other \in Characters64
    BY <2>5, <2>6, <2>7 DEF Characters64
  <2> HIDE DEF d, e, f
  <2>10. Tail64(s) \in Seq(Characters64) /\ Len(Tail64(s)) = 4
    BY <2>9
  <2>11. \A k \in 1 .. 4 : Tail64(s)[k] = IF 4 * G + k <= BitChars(n) THEN Group(s, G)[k] ELSE Other
    BY <2>8, <2>9
  <2> QED
    BY <2>1, <2>10, <2>11 DEF n, G
<1> QED
  BY <1>1, <1>6, <1>7, <1>8

\* owl_base64encode writes whole groups, and the other character for those
\* that stand for no bits.
LEMMA EncodeProperties ==
    ASSUME NEW s \in Seq(Bytes)
    PROVE  /\ owl_base64encode(s) \in Seq(Characters64)
           /\ Len(owl_base64encode(s)) = 4 * Groups(Len(s))
           /\ \A x \in 0 .. Groups(Len(s)) - 1 : \A k \in 1 .. 4 :
                  owl_base64encode(s)[4 * x + k] =
                      IF 4 * x + k <= BitChars(Len(s)) THEN Group(s, x)[k] ELSE Other
<1> DEFINE n == Len(s)
           G == n \div 3
           flat == FlattenSeq([g \in 1 .. G |-> EncodeGroup(s[3*g - 2], s[3*g - 1], s[3*g])])
           tail == Tail64(s)
           text == flat \o tail
<1>1. owl_base64encode(s) = text
  BY DEF owl_base64encode, Tail64
<1>2. n \in Nat /\ G \in Nat /\ 3 * G <= n /\ n - 3 * G \in {0, 1, 2}
  OBVIOUS
<1>3. Groups(n) \in {G, G + 1} /\ BitChars(n) \in Nat /\ 4 * G <= BitChars(n)
  <2>1. /\ n - 3 * G = 0 => Groups(n) = G /\ BitChars(n) = 4 * G
        /\ n - 3 * G = 1 => Groups(n) = G + 1 /\ BitChars(n) = 4 * G + 2
        /\ n - 3 * G = 2 => Groups(n) = G + 1 /\ BitChars(n) = 4 * G + 3
    BY <1>2, GroupCounts
  <2> HIDE DEF n, G
  <2> QED
    BY <1>2, <2>1
<1>4. /\ flat \in Seq(Characters64) /\ Len(flat) = 4 * G
      /\ \A x \in 0 .. G - 1 : \A k \in 1 .. 4 : flat[4 * x + k] = Group(s, x)[k]
  BY EncodeLoop
<1>5. /\ tail \in Seq(Characters64) /\ Len(tail) = 4 * (Groups(n) - G)
      /\ \A k \in 1 .. Len(tail) :
             tail[k] = IF 4 * G + k <= BitChars(n) THEN Group(s, G)[k] ELSE Other
  BY TailProperties
<1> HIDE DEF n, G, flat, tail
<1>6. /\ text \in Seq(Characters64) /\ Len(text) = Len(flat) + Len(tail)
      /\ \A i \in 1 .. Len(flat) + Len(tail) :
             text[i] = IF i <= Len(flat) THEN flat[i] ELSE tail[i - Len(flat)]
  BY <1>4, <1>5, ConcatProperties
<1> HIDE DEF text
<1>7. Len(text) = 4 * Groups(n)
  BY <1>2, <1>3, <1>4, <1>5, <1>6
<1>8. ASSUME NEW x \in 0 .. Groups(n) - 1, NEW k \in 1 .. 4
      PROVE  text[4 * x + k] = IF 4 * x + k <= BitChars(n) THEN Group(s, x)[k] ELSE Other
  <2>1. x \in 0 .. G /\ (x = G => Groups(n) = G + 1)
    BY <1>2, <1>3
  <2>2. PICK i \in Nat : i = 4 * x + k
    BY <1>2, <2>1
  <2>3. CASE x # G
    <3>1. x \in 0 .. G - 1 /\ i \in 1 .. Len(flat) + Len(tail) /\ i <= Len(flat) /\ i <= BitChars(n)
      <4>1. Len(flat) = 4 * G /\ Len(tail) \in Nat /\ Groups(n) \in Int
        BY <1>2, <1>3, <1>4, <1>5
      <4>2. x \in 0 .. G - 1
        BY <1>2, <2>1, <2>3
      <4>3. x <= G - 1 /\ x \in Nat /\ k \in Nat /\ 1 <= k /\ k <= 4
        BY <1>2, <4>2
      <4>4. 1 <= i /\ i <= 4 * G
        BY <1>2, <2>2, <4>3
      <4> QED
        BY <1>2, <1>3, <2>2, <4>1, <4>2, <4>4
    <3>2. text[i] = flat[i]
      BY <1>6, <3>1
    <3>3. flat[i] = Group(s, x)[k]
      BY <1>4, <2>2, <3>1
    <3> QED
      BY <2>2, <3>1, <3>2, <3>3
  <2>4. CASE x = G
    <3>1. /\ i \in 1 .. Len(flat) + Len(tail) /\ ~(i <= Len(flat))
          /\ i - Len(flat) = k /\ k \in 1 .. Len(tail) /\ i = 4 * G + k
      BY <1>2, <1>4, <1>5, <2>1, <2>2, <2>4
    <3>2. text[i] = tail[k]
      BY <1>6, <3>1
    <3>3. tail[k] = IF i <= BitChars(n) THEN Group(s, G)[k] ELSE Other
      BY <1>5, <3>1
    <3> QED
      BY <2>2, <2>4, <3>2, <3>3
  <2> QED
    BY <2>3, <2>4
<1> QED
  BY <1>1, <1>6, <1>7, <1>8 DEF n

\* The number of characters is the position before the first that is none.
LEMMA CharactersProperties ==
    ASSUME NEW t \in Seq(Characters64)
    PROVE  /\ Characters(t) \in 0 .. Len(t)
           /\ \A i \in 1 .. Characters(t) : t[i] \in 0 .. 63
           /\ Characters(t) < Len(t) => t[Characters(t) + 1] = Other
<1> DEFINE u == Append(t, Other)
           I == {i \in 1 .. Len(u) : u[i] = Other}
<1>1. /\ u \in Seq(Characters64) /\ Len(u) = Len(t) + 1
      /\ \A i \in 1 .. Len(t) : u[i] = t[i]
      /\ u[Len(t) + 1] = Other /\ Len(t) \in Nat
  <2>1. Other \in Characters64
    BY DEF Other, Characters64
  <2> QED
    BY <2>1, AppendProperties
<1>2. Characters(t) = (IF I # {} THEN Min(I) ELSE 0) - 1
  BY DEF Characters, SelectInSeq
<1> HIDE DEF u
<1>3. I \in SUBSET Nat /\ Len(t) + 1 \in I
  BY <1>1
<1>4. Min(I) \in I /\ \A i \in I : Min(I) <= i
  <2> HIDE DEF I
  <2> QED
    BY <1>3, MinProperties
<1>5. PICK m \in I : m = Min(I)
  BY <1>4
<1>6. /\ m \in 1 .. Len(t) + 1 /\ u[m] = Other /\ \A i \in I : m <= i
      /\ Characters(t) = m - 1
  BY <1>1, <1>2, <1>3, <1>4, <1>5
<1>7. ASSUME NEW i \in 1 .. m - 1
      PROVE  t[i] \in 0 .. 63
  <2>1. i \in 1 .. Len(t) /\ i \in 1 .. Len(u) /\ ~(m <= i)
    BY <1>1, <1>6
  <2>2. t[i] # Other
    BY <1>1, <1>6, <2>1
  <2>3. t[i] \in Characters64
    BY <2>1
  <2> QED
    BY <2>2, <2>3 DEF Other, Characters64
<1>8. ASSUME m - 1 < Len(t)
      PROVE  t[m - 1 + 1] = Other
  <2>1. m \in 1 .. Len(t) /\ m - 1 + 1 = m
    BY <1>1, <1>6, <1>8
  <2> QED
    BY <1>1, <1>6, <2>1
<1>9. m - 1 \in 0 .. Len(t)
  BY <1>1, <1>6
<1> QED
  BY <1>6, <1>7, <1>8, <1>9

\* So it is known from one character that is none, if all before it are some.
LEMMA CharactersKnown ==
    ASSUME NEW t \in Seq(Characters64), NEW n \in 0 .. Len(t),
           \A i \in 1 .. n : t[i] \in 0 .. 63, n < Len(t) => t[n + 1] = Other
    PROVE  Characters(t) = n
<1>1. /\ Characters(t) \in 0 .. Len(t) /\ Len(t) \in Nat
      /\ \A i \in 1 .. Characters(t) : t[i] \in 0 .. 63
      /\ Characters(t) < Len(t) => t[Characters(t) + 1] = Other
  BY CharactersProperties
<1>2. PICK c \in 0 .. Len(t) : c = Characters(t)
  BY <1>1
<1>3. Other \notin 0 .. 63
  BY DEF Other
<1>4. CASE c < n
  <2>1. c < Len(t) /\ c + 1 \in 1 .. n
    BY <1>1, <1>2, <1>4
  <2> QED
    BY <1>1, <1>2, <1>3, <2>1
<1>5. CASE n < c
  <2>1. n < Len(t) /\ n + 1 \in 1 .. c
    BY <1>1, <1>2, <1>5
  <2> QED
    BY <1>1, <1>2, <1>3, <2>1
<1> QED
  BY <1>1, <1>2, <1>4, <1>5

\* A group of which the first c characters are some gives c - 1 bytes.
LEMMA DecodeGroupProperties ==
    ASSUME NEW g \in Seq(Characters64), Len(g) = 4,
           NEW c \in 0 .. 4,
           \A k \in 1 .. c : g[k] # Other,
           c < 4 => g[c + 1] = Other
    PROVE  LET w == IF c = 0 THEN 0 ELSE c - 1
           IN  /\ DecodeGroup(g) \in Seq(Bytes) /\ Len(DecodeGroup(g)) = w
               /\ 1 <= w => DecodeGroup(g)[1] = (g[1] * 4 + g[2] \div 16) % 256
               /\ 2 <= w => DecodeGroup(g)[2] = (g[2] * 16 + g[3] \div 4) % 256
               /\ 3 <= w => DecodeGroup(g)[3] = (g[3] * 64 + g[4]) % 256
<1> DEFINE I == {i \in 1 .. Len(g) : g[i] = Other}
           w == IF c = 0 THEN 0 ELSE c - 1
<1>1. g[1] \in Characters64 /\ g[2] \in Characters64 /\ g[3] \in Characters64 /\ g[4] \in Characters64
  <2>1. 1 \in 1 .. Len(g) /\ 2 \in 1 .. Len(g) /\ 3 \in 1 .. Len(g) /\ 4 \in 1 .. Len(g)
    OBVIOUS
  <2> QED
    BY <2>1, ElementOfSeq, Zenon
<1>2. Len(g) = 4
  OBVIOUS
<1> DEFINE a == g[1] * 4 + g[2] \div 16
           b == g[2] * 16 + g[3] \div 4
           d == g[3] * 64 + g[4]
           bytes == <<a, b, d>>
           n == IF I # {} THEN Min(I) ELSE 0
           whole == IF n = 0 THEN 3 ELSE IF n <= 2 THEN 0 ELSE n - 2
<1>3. DecodeGroup(g) = [i \in 1 .. whole |-> bytes[i] % 256]
  <2>1. SelectInSeq(g, LAMBDA x : x = Other) = n
    BY Zenon DEF SelectInSeq
  <2> HIDE DEF n
  <2> QED
    BY <2>1, Zenon DEF DecodeGroup
<1>4. a \in Int /\ b \in Int /\ d \in Int
  <2>1. \A y, z \in Characters64 : y * 4 + z \div 16 \in Int /\ y * 16 + z \div 4 \in Int /\ y * 64 + z \in Int
    BY DEF Characters64
  <2> QED
    BY <1>1, <2>1, Zenon
<1>5. whole = w
  <2>1. CASE c = 4
    <3>1. I = {}
      BY <1>2, <2>1
    <3> QED
      BY <2>1, <3>1
  <2>2. CASE c < 4
    <3>1. c + 1 \in I /\ I \in SUBSET Nat
      BY <1>2, <2>2
    <3>2. Min(I) \in I /\ \A m \in I : Min(I) <= m
      <4> HIDE DEF I
      <4> QED
        BY <3>1, MinProperties
    <3>3. Min(I) = c + 1
      <4>1. Min(I) \in Nat /\ Min(I) <= c + 1 /\ Min(I) \notin 1 .. c /\ Min(I) >= 1
        BY <3>1, <3>2
      <4> QED
        <5> DEFINE m == Min(I)
        <5>1. m \in Nat /\ m <= c + 1 /\ m \notin 1 .. c /\ m >= 1
          BY <4>1
        <5> HIDE DEF m
        <5>2. m = c + 1
          BY <5>1
        <5> QED
          BY <5>2 DEF m
    <3>4. n = c + 1
      BY <3>1, <3>3
    <3> HIDE DEF n
    <3> QED
      BY <2>2, <3>4
  <2>3. c = 4 \/ c < 4
    OBVIOUS
  <2> QED
    BY <2>1, <2>2, <2>3, Zenon
<1> HIDE DEF whole, n, I
<1>6. DecodeGroup(g) = [i \in 1 .. w |-> bytes[i] % 256]
  BY <1>3, <1>5
<1>7. bytes[1] = a /\ bytes[2] = b /\ bytes[3] = d
  OBVIOUS
<1> HIDE DEF bytes, a, b, d
<1>8. w \in 0 .. 3
  OBVIOUS
<1> HIDE DEF w
<1>9. \A i \in 1 .. w : bytes[i] % 256 \in Bytes
  <2>1. a % 256 \in Bytes /\ b % 256 \in Bytes /\ d % 256 \in Bytes
    BY <1>4 DEF Bytes
  <2>2. \A i \in 1 .. w : i = 1 \/ i = 2 \/ i = 3
    BY <1>8
  <2> QED
    BY <1>7, <2>1, <2>2, Zenon
<1>10. DecodeGroup(g) \in [1 .. w -> Bytes]
  BY <1>6, <1>9
<1>11. DecodeGroup(g) \in Seq(Bytes) /\ Len(DecodeGroup(g)) = w
  BY <1>8, <1>10
<1>12. /\ 1 <= w => DecodeGroup(g)[1] = a % 256
       /\ 2 <= w => DecodeGroup(g)[2] = b % 256
       /\ 3 <= w => DecodeGroup(g)[3] = d % 256
  BY <1>6, <1>7, <1>8
<1> QED
  BY <1>11, <1>12 DEF a, b, d, w

\* Character i of the first n, or none behind them.
CharAt(t, n, i) == IF i <= n THEN t[i] ELSE Other

\* The bytes of group x of t, of which the first n are characters.
DecodedAt(bytes, t, n, x) ==
    /\ 4 * x + 2 <= n => bytes[1] = (t[4 * x + 1] * 4 + t[4 * x + 2] \div 16) % 256
    /\ 4 * x + 3 <= n => bytes[2] = (t[4 * x + 2] * 16 + t[4 * x + 3] \div 4) % 256
    /\ 4 * x + 4 <= n => bytes[3] = (t[4 * x + 3] * 64 + t[4 * x + 4]) % 256

\* What a turn of owl_base64decode's loop writes.
LEMMA DecodeTurn ==
    ASSUME NEW t \in Seq(Characters64), NEW n \in 0 .. Len(t), \A i \in 1 .. n : t[i] \in 0 .. 63,
           NEW x \in Nat, 4 * x < n
    PROVE  LET bytes == DecodeGroup([k \in 1 .. 4 |-> CharAt(t, n, 4 * x + k)])
           IN  /\ bytes \in Seq(Bytes)
               /\ Len(bytes) = IF 4 * x + 4 <= n THEN 3 ELSE n - 4 * x - 1
               /\ DecodedAt(bytes, t, n, x)
<1> DEFINE p == CharAt(t, n, 4 * x + 1)
           q == CharAt(t, n, 4 * x + 2)
           r == CharAt(t, n, 4 * x + 3)
           u == CharAt(t, n, 4 * x + 4)
           g == [k \in 1 .. 4 |-> CharAt(t, n, 4 * x + k)]
           c == IF 4 * x + 4 <= n THEN 4 ELSE n - 4 * x
           w == IF c = 0 THEN 0 ELSE c - 1
<1>1. n \in Nat /\ Len(t) \in Nat /\ n <= Len(t)
  OBVIOUS
<1>2. ASSUME NEW i \in Nat \ {0}
      PROVE  /\ CharAt(t, n, i) \in Characters64
             /\ i <= n => CharAt(t, n, i) = t[i] /\ CharAt(t, n, i) # Other
             /\ n < i => CharAt(t, n, i) = Other
  <2>1. CASE i <= n
    <3>1. t[i] \in 0 .. 63 /\ ~(n < i)
      BY <1>1, <2>1
    <3>2. CharAt(t, n, i) = t[i]
      BY <2>1 DEF CharAt
    <3>3. \A y \in 0 .. 63 : y \in Characters64 /\ y # Other
      BY DEF Characters64, Other
    <3> QED
      BY <3>1, <3>2, <3>3
  <2>2. CASE n < i
    <3>1. ~(i <= n)
      BY <1>1, <2>2
    <3> QED
      BY <3>1 DEF CharAt, Characters64, Other
  <2> QED
    BY <1>1, <2>1, <2>2
<1>3. p \in Characters64 /\ q \in Characters64 /\ r \in Characters64 /\ u \in Characters64
  <2>1. /\ 4 * x + 1 \in Nat \ {0} /\ 4 * x + 2 \in Nat \ {0}
        /\ 4 * x + 3 \in Nat \ {0} /\ 4 * x + 4 \in Nat \ {0}
    OBVIOUS
  <2> QED
    BY <1>2, <2>1, Zenon
<1>4. g \in Seq(Characters64) /\ Len(g) = 4 /\ g[1] = p /\ g[2] = q /\ g[3] = r /\ g[4] = u
  <2>1. g[1] = p /\ g[2] = q /\ g[3] = r /\ g[4] = u
    OBVIOUS
  <2>2. \A k \in 1 .. 4 : k = 1 \/ k = 2 \/ k = 3 \/ k = 4
    OBVIOUS
  <2>3. \A k \in 1 .. 4 : CharAt(t, n, 4 * x + k) \in Characters64
    BY <1>3, <2>2, Zenon
  <2>4. g \in [1 .. 4 -> Characters64]
    BY <2>3, Zenon
  <2>5. 4 \in Nat
    OBVIOUS
  <2> HIDE DEF p, q, r, u, g
  <2>6. g \in Seq(Characters64) /\ Len(g) = 4
    BY <2>4, <2>5, SeqOfFunction, Zenon
  <2> QED
    BY <2>1, <2>6, Zenon
<1>5. c \in 0 .. 4 /\ c >= 1 /\ w = c - 1
  BY <1>1
<1>6. \A k \in 1 .. 4 : g[k] = CharAt(t, n, 4 * x + k)
  OBVIOUS
<1> HIDE DEF g
<1>7. \A k \in 1 .. c : g[k] # Other
  <2> SUFFICES ASSUME NEW k \in 1 .. c
               PROVE  g[k] # Other
    OBVIOUS
  <2>1. k \in 1 .. 4 /\ 4 * x + k \in Nat \ {0} /\ 4 * x + k <= n
    BY <1>1, <1>5
  <2> QED
    BY <1>2, <1>6, <2>1
<1>8. c < 4 => g[c + 1] = Other
  <2> SUFFICES ASSUME c < 4
               PROVE  g[c + 1] = Other
    OBVIOUS
  <2> DEFINE k == c + 1
  <2>1. k \in 1 .. 4 /\ 4 * x + k \in Nat \ {0} /\ n < 4 * x + k
    BY <1>1, <1>5
  <2> HIDE DEF k
  <2>2. g[k] = Other
    BY <1>2, <1>6, <2>1
  <2> QED
    BY <2>2 DEF k
<1> DEFINE bytes == DecodeGroup(g)
<1> HIDE DEF c
<1>9. /\ bytes \in Seq(Bytes) /\ Len(bytes) = w
      /\ 1 <= w => bytes[1] = (p * 4 + q \div 16) % 256
      /\ 2 <= w => bytes[2] = (q * 16 + r \div 4) % 256
      /\ 3 <= w => bytes[3] = (r * 64 + u) % 256
  <2>1. /\ bytes \in Seq(Bytes) /\ Len(bytes) = w
        /\ 1 <= w => bytes[1] = (g[1] * 4 + g[2] \div 16) % 256
        /\ 2 <= w => bytes[2] = (g[2] * 16 + g[3] \div 4) % 256
        /\ 3 <= w => bytes[3] = (g[3] * 64 + g[4]) % 256
    BY <1>4, <1>5, <1>7, <1>8, DecodeGroupProperties
  <2> HIDE DEF p, q, r, u, bytes
  <2> QED
    BY <1>4, <2>1
<1> HIDE DEF bytes, w
<1>10. Len(bytes) = IF 4 * x + 4 <= n THEN 3 ELSE n - 4 * x - 1
  BY <1>1, <1>5, <1>9 DEF c
<1>11. /\ 4 * x + 1 <= n => p = t[4 * x + 1]
       /\ 4 * x + 2 <= n => q = t[4 * x + 2]
       /\ 4 * x + 3 <= n => r = t[4 * x + 3]
       /\ 4 * x + 4 <= n => u = t[4 * x + 4]
  BY DEF CharAt
<1> HIDE DEF p, q, r, u
<1>12. /\ 4 * x + 2 <= n => 1 <= w /\ 4 * x + 1 <= n
       /\ 4 * x + 3 <= n => 2 <= w /\ 4 * x + 2 <= n
       /\ 4 * x + 4 <= n => 3 <= w /\ 4 * x + 3 <= n
  BY <1>1, <1>5 DEF c
<1>13. DecodedAt(bytes, t, n, x)
  BY <1>9, <1>11, <1>12, ZenonT(40) DEF DecodedAt
<1> QED
  BY <1>9, <1>10, <1>13 DEF bytes, g

\* What owl_base64decode makes of the first n characters: a byte less for
\* every group, whole or not.
IsDecoded(bytes, t, n) ==
    /\ bytes \in Seq(Bytes)
    /\ Len(bytes) = n - (n + 3) \div 4
    /\ \A x \in 0 .. (n + 3) \div 4 - 1 :
        /\ 4 * x + 2 <= n => bytes[3 * x + 1] = (t[4 * x + 1] * 4 + t[4 * x + 2] \div 16) % 256
        /\ 4 * x + 3 <= n => bytes[3 * x + 2] = (t[4 * x + 2] * 16 + t[4 * x + 3] \div 4) % 256
        /\ 4 * x + 4 <= n => bytes[3 * x + 3] = (t[4 * x + 3] * 64 + t[4 * x + 4]) % 256

\* That is what it returns.
LEMMA DecodeProperties ==
    ASSUME NEW t \in Seq(Characters64)
    PROVE  IsDecoded(owl_base64decode(t), t, Characters(t))
<1> DEFINE n == Characters(t)
           G == (n + 3) \div 4
           seqs == [g \in 1 .. G |-> DecodeGroup([k \in 1 .. 4 |-> CharAt(t, n, 4*g - 4 + k)])]
           off == [i \in 0 .. G |-> IF i < G THEN 3 * i ELSE n - G]
<1>1. owl_base64decode(t) = FlattenSeq(seqs)
  BY Zenon DEF owl_base64decode, CharAt
<1>2. n \in 0 .. Len(t) /\ n \in Nat /\ \A i \in 1 .. n : t[i] \in 0 .. 63
  <2>1. n \in 0 .. Len(t) /\ Len(t) \in Nat /\ \A i \in 1 .. n : t[i] \in 0 .. 63
    BY CharactersProperties
  <2> HIDE DEF n
  <2> QED
    BY <2>1
<1> HIDE DEF n
<1>3. G \in Nat /\ 4 * G - 4 < n + (IF G = 0 THEN 4 ELSE 0) /\ n <= 4 * G /\ G <= n
  BY <1>2
<1>4. ASSUME NEW g \in 1 .. G
      PROVE  /\ seqs[g] \in Seq(Bytes)
             /\ Len(seqs[g]) = (IF g < G THEN 3 ELSE n - 4 * (g - 1) - 1)
             /\ DecodedAt(seqs[g], t, n, g - 1)
  <2> DEFINE x == g - 1
             bytes == DecodeGroup([k \in 1 .. 4 |-> CharAt(t, n, 4 * x + k)])
  <2>1. x \in Nat /\ 4 * x < n /\ (4 * x + 4 <= n => (g < G \/ n - 4 * (g - 1) - 1 = 3)) /\ (g < G => 4 * x + 4 <= n) /\ 4*g - 4 = 4 * x
    BY <1>2, <1>3
  <2>2. seqs[g] = bytes
    <3> HIDE DEF x
    <3> QED
      BY <2>1
  <2>3. /\ bytes \in Seq(Bytes)
        /\ Len(bytes) = IF 4 * x + 4 <= n THEN 3 ELSE n - 4 * x - 1
        /\ DecodedAt(bytes, t, n, x)
    <3> HIDE DEF x
    <3> QED
      BY <1>2, <2>1, DecodeTurn
  <2> HIDE DEF bytes, seqs
  <2>4. Len(bytes) = (IF g < G THEN 3 ELSE n - 4 * (g - 1) - 1)
    BY <1>2, <1>3, <2>1, <2>3
  <2> QED
    BY <2>2, <2>3, <2>4
<1>5. seqs \in Seq(Seq(Bytes)) /\ Len(seqs) = G
  <2>1. seqs \in [1 .. G -> Seq(Bytes)]
    BY <1>4
  <2> HIDE DEF seqs, G
  <2> QED
    BY <1>3, <2>1
<1> HIDE DEF seqs, G
<1>6. IsOffset(off, seqs)
  <2>1. off \in [0 .. G -> Nat] /\ off[0] = 0 /\ off[G] = n - G
    BY <1>2, <1>3
  <2>2. ASSUME NEW i \in 1 .. G
        PROVE  off[i] = off[i - 1] + Len(seqs[i])
    <3>1. i - 1 \in 0 .. G /\ i \in 0 .. G /\ i - 1 < G
      BY <1>3
    <3>2. off[i - 1] = 3 * (i - 1)
      BY <1>3, <3>1
    <3>3. CASE i < G
      <4>1. Len(seqs[i]) = 3
        BY <1>4, <3>3
      <4>2. off[i] = 3 * i
        BY <3>1, <3>3
      <4> HIDE DEF off
      <4> QED
        BY <3>1, <3>2, <4>1, <4>2
    <3>4. CASE i = G
      <4>1. Len(seqs[i]) = n - 4 * (i - 1) - 1
        BY <1>3, <1>4, <3>4
      <4> HIDE DEF off
      <4> QED
        BY <1>2, <1>3, <2>1, <3>2, <3>4, <4>1
    <3> QED
      BY <1>3, <3>3, <3>4
  <2> HIDE DEF off
  <2> QED
    BY <1>5, <2>1, <2>2 DEF IsOffset
<1> DEFINE bytes == FlattenSeq(seqs)
<1>7. /\ bytes \in Seq(Bytes) /\ Len(bytes) = off[G]
      /\ \A i \in 1 .. G : \A j \in 1 .. Len(seqs[i]) : bytes[off[i - 1] + j] = seqs[i][j]
  <2> HIDE DEF off
  <2>1. IsFlat(FlattenSeq(seqs), Bytes, seqs, off)
    BY <1>5, <1>6, FlattenProperties
  <2> QED
    BY <1>5, <2>1 DEF IsFlat
<1> HIDE DEF bytes
<1>8. off[G] = n - G /\ \A i \in 1 .. G : off[i - 1] = 3 * (i - 1)
  BY <1>3
<1> HIDE DEF off
<1>9. ASSUME NEW g \in 1 .. G
      PROVE  LET x == g - 1
             IN  /\ 4 * x + 2 <= n => bytes[3 * x + 1] = (t[4 * x + 1] * 4 + t[4 * x + 2] \div 16) % 256
                 /\ 4 * x + 3 <= n => bytes[3 * x + 2] = (t[4 * x + 2] * 16 + t[4 * x + 3] \div 4) % 256
                 /\ 4 * x + 4 <= n => bytes[3 * x + 3] = (t[4 * x + 3] * 64 + t[4 * x + 4]) % 256
  <2> DEFINE x == g - 1
             L == Len(seqs[g])
  <2>1. L = (IF g < G THEN 3 ELSE n - 4 * x - 1) /\ L \in Nat
    BY <1>4
  <2>2. \A j \in 1 .. L : bytes[3 * x + j] = seqs[g][j]
    BY <1>7, <1>8
  <2>3. DecodedAt(seqs[g], t, n, x)
    BY <1>4
  <2>4. x \in Nat
    BY <1>3
  <2>5. /\ 4 * x + 2 <= n => 1 \in 1 .. L
        /\ 4 * x + 3 <= n => 2 \in 1 .. L
        /\ 4 * x + 4 <= n => 3 \in 1 .. L
    <3> HIDE DEF L
    <3> QED
      BY <1>2, <1>3, <2>1
  <2> HIDE DEF x, L
  <2>6. /\ 4 * x + 2 <= n => bytes[3 * x + 1] = (t[4 * x + 1] * 4 + t[4 * x + 2] \div 16) % 256
        /\ 4 * x + 3 <= n => bytes[3 * x + 2] = (t[4 * x + 2] * 16 + t[4 * x + 3] \div 4) % 256
        /\ 4 * x + 4 <= n => bytes[3 * x + 3] = (t[4 * x + 3] * 64 + t[4 * x + 4]) % 256
    <3>1. /\ 1 \in 1 .. L => bytes[3 * x + 1] = seqs[g][1]
          /\ 2 \in 1 .. L => bytes[3 * x + 2] = seqs[g][2]
          /\ 3 \in 1 .. L => bytes[3 * x + 3] = seqs[g][3]
      BY <2>2, Zenon
    <3> QED
      BY <2>3, <2>5, <3>1, ZenonT(40) DEF DecodedAt
  <2> QED
    BY <2>6 DEF x
<1>10. ASSUME NEW x \in 0 .. G - 1
       PROVE  /\ 4 * x + 2 <= n => bytes[3 * x + 1] = (t[4 * x + 1] * 4 + t[4 * x + 2] \div 16) % 256
              /\ 4 * x + 3 <= n => bytes[3 * x + 2] = (t[4 * x + 2] * 16 + t[4 * x + 3] \div 4) % 256
              /\ 4 * x + 4 <= n => bytes[3 * x + 3] = (t[4 * x + 3] * 64 + t[4 * x + 4]) % 256
  <2>1. x + 1 \in 1 .. G /\ x + 1 - 1 = x
    BY <1>3
  <2>2. PICK g \in 1 .. G : g - 1 = x
    BY <2>1
  <2> QED
    BY <1>9, <2>2, ZenonT(40)
<1>11. IsDecoded(bytes, t, n)
  BY <1>7, <1>8, <1>10 DEF IsDecoded, G
<1> QED
  BY <1>1, <1>11 DEF bytes, n

\* t begins with the characters for s, and no other follows them.
IsText(t, s) ==
    /\ t \in Seq(Characters64)
    /\ BitChars(Len(s)) <= Len(t)
    /\ \A x \in 0 .. Groups(Len(s)) - 1 : \A k \in 1 .. 4 :
           4 * x + k <= BitChars(Len(s)) => t[4 * x + k] = Group(s, x)[k]
    /\ BitChars(Len(s)) < Len(t) => t[BitChars(Len(s)) + 1] = Other

\* Four characters hold the bits of three bytes.
LEMMA BytesOfGroup ==
    ASSUME NEW a \in Bytes, NEW b \in Bytes, NEW c \in Bytes, NEW g, g = EncodeGroup(a, b, c)
    PROVE  /\ (g[1] * 4 + g[2] \div 16) % 256 = a
           /\ (g[2] * 16 + g[3] \div 4) % 256 = b
           /\ (g[3] * 64 + g[4]) % 256 = c
<1>1. g[1] = a \div 4 /\ g[2] = (a % 4) * 16 + b \div 16 /\ g[3] = (b % 16) * 4 + c \div 64 /\ g[4] = c % 64
  BY DEF EncodeGroup
<1>2. ((a \div 4) * 4 + ((a % 4) * 16 + b \div 16) \div 16) % 256 = a
  BY DEF Bytes
<1>3. (((a % 4) * 16 + b \div 16) * 16 + ((b % 16) * 4 + c \div 64) \div 4) % 256 = b
  BY DEF Bytes
<1>4. (((b % 16) * 4 + c \div 64) * 64 + (c % 64)) % 256 = c
  BY DEF Bytes
<1> QED
  BY <1>1, <1>2, <1>3, <1>4, Zenon

\* Where byte j is, in a group and in the text.
LEMMA PlaceOfByte ==
    ASSUME NEW n \in Nat, NEW j \in 1 .. n
    PROVE  \E x \in 0 .. Groups(n) - 1 : \E i \in 1 .. 3 : j = 3 * x + i /\ 4 * x + i + 1 <= BitChars(n)
<1> DEFINE x == (j - 1) \div 3
           i == ((j - 1) % 3) + 1
<1>1. x \in Nat /\ i \in 1 .. 3 /\ j = 3 * x + i
  OBVIOUS
<1> HIDE DEF x, i
<1>2. x <= Groups(n) - 1 /\ Groups(n) \in Nat
  BY <1>1 DEF Groups
<1>3. 4 * x + i + 1 <= BitChars(n)
  BY <1>1 DEF BitChars
<1> QED
  BY <1>1, <1>2, <1>3

\* A text for s is decoded to s.
LEMMA DecodeGivesBack ==
    ASSUME NEW s \in Seq(Bytes), NEW t, IsText(t, s)
    PROVE  owl_base64decode(t) = s
<1> DEFINE n == Len(s)
           B == BitChars(n)
           bytes == owl_base64decode(t)
<1>1. n \in Nat /\ B \in Nat /\ Groups(n) \in Nat /\ B <= 4 * Groups(n)
      /\ (B + 3) \div 4 = Groups(n) /\ B - Groups(n) = n
  BY DEF BitChars, Groups
<1>2. /\ t \in Seq(Characters64) /\ B \in 0 .. Len(t)
      /\ \A x \in 0 .. Groups(n) - 1 : \A k \in 1 .. 4 : 4 * x + k <= B => t[4 * x + k] = Group(s, x)[k]
      /\ B < Len(t) => t[B + 1] = Other
  <2>1. t \in Seq(Characters64) /\ B <= Len(t)
    BY DEF IsText
  <2>2. Len(t) \in Nat
    BY <2>1
  <2> HIDE DEF B
  <2>3. B \in 0 .. Len(t)
    BY <1>1, <2>1, <2>2
  <2> QED
    BY <2>1, <2>3 DEF IsText, B
<1> HIDE DEF n, B
<1>3. ASSUME NEW i \in 1 .. B
      PROVE  t[i] \in 0 .. 63
  <2> DEFINE x == (i - 1) \div 4
             k == ((i - 1) % 4) + 1
  <2>1. x \in 0 .. Groups(n) - 1 /\ k \in 1 .. 4 /\ i = 4 * x + k /\ x \in Nat
    <3>1. k \in 1 .. 4 /\ i = 4 * x + k /\ x \in Nat
      BY <1>1
    <3> HIDE DEF x, k
    <3> QED
      BY <1>1, <3>1
  <2> HIDE DEF x, k
  <2>2. 4 * x + k <= B
    BY <1>1, <2>1
  <2>3. t[4 * x + k] = Group(s, x)[k]
    BY <1>2, <2>1, <2>2, Zenon
  <2>4. Group(s, x)[k] \in 0 .. 63
    BY <2>1, GroupType, Zenon
  <2> QED
    BY <2>1, <2>3, <2>4, Zenon
<1>4. Characters(t) = B
  BY <1>2, <1>3, CharactersKnown
<1>5. IsDecoded(bytes, t, B)
  <2>1. IsDecoded(bytes, t, Characters(t))
    BY <1>2, DecodeProperties, Zenon
  <2> QED
    BY <1>4, <2>1, Zenon
<1>6. bytes \in Seq(Bytes) /\ Len(bytes) = n
  <2> HIDE DEF bytes
  <2> QED
    BY <1>1, <1>5 DEF IsDecoded
<1> HIDE DEF bytes
<1>7. ASSUME NEW j \in 1 .. n
      PROVE  bytes[j] = s[j]
  <2>1. PICK x \in 0 .. Groups(n) - 1 : \E i \in 1 .. 3 : j = 3 * x + i /\ 4 * x + i + 1 <= B
    BY <1>1, PlaceOfByte DEF B
  <2>2. PICK i \in 1 .. 3 : j = 3 * x + i /\ 4 * x + i + 1 <= B
    BY <2>1
  <2> DEFINE a == Byte(s, 3 * x + 1)
             b == Byte(s, 3 * x + 2)
             c == Byte(s, 3 * x + 3)
             g == Group(s, x)
  <2>3. x \in Nat
    BY <1>1
  <2>4. a \in Bytes /\ b \in Bytes /\ c \in Bytes /\ g = EncodeGroup(a, b, c)
    <3>1. 3 * x + 1 \in Nat \ {0} /\ 3 * x + 2 \in Nat \ {0} /\ 3 * x + 3 \in Nat \ {0}
      BY <2>3
    <3> QED
      BY <3>1, ByteType, Zenon DEF Group
  <2> HIDE DEF g
  <2>5. /\ (g[1] * 4 + g[2] \div 16) % 256 = a
        /\ (g[2] * 16 + g[3] \div 4) % 256 = b
        /\ (g[3] * 64 + g[4]) % 256 = c
    <3> HIDE DEF a, b, c
    <3> QED
      BY <2>4, BytesOfGroup
  <2>6. /\ 1 \in 1 .. 4 /\ 2 \in 1 .. 4 /\ 3 \in 1 .. 4 /\ 4 \in 1 .. 4
    OBVIOUS
  <2>7. /\ 4 * x + 1 <= B => t[4 * x + 1] = g[1]
        /\ 4 * x + 2 <= B => t[4 * x + 2] = g[2]
        /\ 4 * x + 3 <= B => t[4 * x + 3] = g[3]
        /\ 4 * x + 4 <= B => t[4 * x + 4] = g[4]
    BY <1>2, <2>6, Zenon DEF g
  <2>8. /\ 4 * x + 2 <= B => bytes[3 * x + 1] = (t[4 * x + 1] * 4 + t[4 * x + 2] \div 16) % 256
        /\ 4 * x + 3 <= B => bytes[3 * x + 2] = (t[4 * x + 2] * 16 + t[4 * x + 3] \div 4) % 256
        /\ 4 * x + 4 <= B => bytes[3 * x + 3] = (t[4 * x + 3] * 64 + t[4 * x + 4]) % 256
    BY <1>1, <1>5, Zenon DEF IsDecoded
  <2>9. Byte(s, j) = s[j]
    BY <1>1 DEF Byte, n
  <2> HIDE DEF a, b, c
  <2>10. CASE i = 1
    <3>1. 4 * x + 1 <= B /\ 4 * x + 2 <= B /\ j = 3 * x + 1
      BY <1>1, <2>2, <2>3, <2>10
    <3> QED
      BY <2>5, <2>7, <2>8, <2>9, <3>1, ZenonT(40) DEF a
  <2>11. CASE i = 2
    <3>1. 4 * x + 2 <= B /\ 4 * x + 3 <= B /\ j = 3 * x + 2
      BY <1>1, <2>2, <2>3, <2>11
    <3> QED
      BY <2>5, <2>7, <2>8, <2>9, <3>1, ZenonT(40) DEF b
  <2>12. CASE i = 3
    <3>1. 4 * x + 3 <= B /\ 4 * x + 4 <= B /\ j = 3 * x + 3
      BY <1>1, <2>2, <2>3, <2>12
    <3> QED
      BY <2>5, <2>7, <2>8, <2>9, <3>1, ZenonT(40) DEF c
  <2>13. i = 1 \/ i = 2 \/ i = 3
    OBVIOUS
  <2> QED
    BY <2>10, <2>11, <2>12, <2>13, Zenon
<1> QED
  BY <1>6, <1>7, SeqEqual DEF n, bytes

\* Where character j is, in a group.
LEMMA PlaceOfCharacter ==
    ASSUME NEW G \in Nat, NEW j \in 1 .. 4 * G
    PROVE  \E x \in 0 .. G - 1 : \E k \in 1 .. 4 : j = 4 * x + k
<1> DEFINE x == (j - 1) \div 4
           k == ((j - 1) % 4) + 1
<1>1. k \in 1 .. 4 /\ j = 4 * x + k /\ x \in Nat
  OBVIOUS
<1> HIDE DEF x, k
<1>2. x \in 0 .. G - 1
  BY <1>1
<1> QED
  BY <1>1, <1>2

\* owl_base64encode writes a text for its input, with six bits of it in each
\* character.
LEMMA EncodeWrites ==
    ASSUME NEW s \in Seq(Bytes)
    PROVE  LET text == owl_base64encode(s)
           IN  /\ IsText(text, s)
               /\ text \in Seq(Characters64)
               /\ Len(text) = owl_base64encode_len(Len(s)) - 1
               /\ \A j \in 1 .. Len(text) :
                      text[j] = IF j <= BitChars(Len(s)) THEN SixBits(s, j - 1) ELSE Other
<1> DEFINE text == owl_base64encode(s)
           n == Len(s)
           B == BitChars(n)
<1>1. /\ n \in Nat /\ B \in Nat /\ Groups(n) \in Nat /\ B <= 4 * Groups(n)
      /\ owl_base64encode_len(n) - 1 = 4 * Groups(n)
  BY DEF BitChars, Groups, owl_base64encode_len
<1>2. /\ text \in Seq(Characters64) /\ Len(text) = 4 * Groups(n)
      /\ \A x \in 0 .. Groups(n) - 1 : \A k \in 1 .. 4 :
             text[4 * x + k] = IF 4 * x + k <= B THEN Group(s, x)[k] ELSE Other
  BY EncodeProperties
<1> HIDE DEF text, n, B
<1>3. ASSUME NEW j \in 1 .. 4 * Groups(n)
      PROVE  text[j] = IF j <= B THEN SixBits(s, j - 1) ELSE Other
  <2>1. PICK x \in 0 .. Groups(n) - 1 : \E k \in 1 .. 4 : j = 4 * x + k
    BY <1>1, PlaceOfCharacter
  <2>2. PICK k \in 1 .. 4 : j = 4 * x + k
    BY <2>1
  <2>3. text[4 * x + k] = IF 4 * x + k <= B THEN Group(s, x)[k] ELSE Other
    BY <1>2, Zenon
  <2> DEFINE m == k - 1
  <2>4. x \in Nat /\ m \in 0 .. 3 /\ m + 1 = k /\ 4 * x + m = j - 1
    BY <1>1, <2>2
  <2> HIDE DEF m
  <2>5. SixBits(s, 4 * x + m) = Group(s, x)[m + 1]
    <3>1. m = 0 \/ m = 1 \/ m = 2 \/ m = 3
      BY <2>4
    <3>2. 4 * x + 0 = 4 * x /\ 0 + 1 = 1 /\ 1 + 1 = 2 /\ 2 + 1 = 3 /\ 3 + 1 = 4
      BY <2>4
    <3>3. /\ SixBits(s, 4 * x) = Group(s, x)[1]
          /\ SixBits(s, 4 * x + 1) = Group(s, x)[2]
          /\ SixBits(s, 4 * x + 2) = Group(s, x)[3]
          /\ SixBits(s, 4 * x + 3) = Group(s, x)[4]
      BY <2>4, GroupIsBits, Zenon
    <3> QED
      BY <3>1, <3>2, <3>3, Zenon
  <2> QED
    BY <2>2, <2>3, <2>4, <2>5, Zenon
<1>4. B < Len(text) => text[B + 1] = Other
  <2> SUFFICES ASSUME B < Len(text)
               PROVE  text[B + 1] = Other
    OBVIOUS
  <2> DEFINE j == B + 1
  <2>1. j \in 1 .. 4 * Groups(n) /\ ~(j <= B)
    BY <1>1, <1>2
  <2> HIDE DEF j
  <2>2. text[j] = Other
    BY <1>3, <2>1, Zenon
  <2> QED
    BY <2>2 DEF j
<1>5. /\ B <= Len(text)
      /\ \A x \in 0 .. Groups(n) - 1 : \A k \in 1 .. 4 : 4 * x + k <= B => text[4 * x + k] = Group(s, x)[k]
  BY <1>1, <1>2
<1>6. IsText(text, s)
  BY <1>2, <1>4, <1>5, Zenon DEF IsText, n, B
<1> QED
  BY <1>1, <1>2, <1>3, <1>6 DEF text, n, B

\* The digits of a byte string are read back.
LEMMA HexGivesBack ==
    ASSUME NEW s \in Seq(Bytes)
    PROVE  hexString2BytesArray(bytesArray2HexString(s)) = s
<1> DEFINE n == Len(s)
           D == 0 .. 15
           seqs == [i \in 1 .. n |-> <<(s[i] \div 16) % 16, s[i] % 16>>]
           off == [i \in 0 .. n |-> 2 * i]
           hex == bytesArray2HexString(s)
<1>1. n \in Nat /\ \A i \in 1 .. n : s[i] \in 0 .. 255
  <2>1. \A i \in 1 .. n : s[i] \in Bytes
    OBVIOUS
  <2> QED
    BY <2>1 DEF Bytes
<1>2. hex = FlattenSeq(seqs)
  BY DEF bytesArray2HexString
<1>3. ASSUME NEW i \in 1 .. n
      PROVE  /\ seqs[i] \in Seq(D) /\ Len(seqs[i]) = 2
             /\ seqs[i][1] = (s[i] \div 16) % 16 /\ seqs[i][2] = s[i] % 16
  <2> DEFINE d == (s[i] \div 16) % 16
             e == s[i] % 16
  <2>1. seqs[i] = <<d, e>>
    OBVIOUS
  <2>2. d \in D /\ e \in D
    <3>1. \A y \in 0 .. 255 : (y \div 16) % 16 \in D /\ y % 16 \in D
      OBVIOUS
    <3> QED
      BY <1>1, <3>1, Zenon
  <2> HIDE DEF d, e, D
  <2>3. seqs[i] \in Seq(D) /\ Len(seqs[i]) = 2 /\ seqs[i][1] = d /\ seqs[i][2] = e
    BY <2>1, <2>2
  <2> QED
    BY <2>3 DEF d, e
<1>4. seqs \in Seq(Seq(D)) /\ Len(seqs) = n
  <2>1. seqs \in [1 .. n -> Seq(D)]
    BY <1>3
  <2> HIDE DEF seqs, n, D
  <2> QED
    BY <1>1, <2>1, SeqOfFunction, Zenon
<1> HIDE DEF seqs, n, hex, D
<1>5. IsOffset(off, seqs)
  <2>1. /\ off \in [0 .. n -> Nat] /\ off[0] = 0
        /\ \A i \in 1 .. n : off[i] = off[i - 1] + 2
    BY <1>1
  <2> HIDE DEF off
  <2> QED
    BY <1>3, <1>4, <2>1 DEF IsOffset
<1>6. /\ Len(hex) = 2 * n
      /\ \A i \in 1 .. n : \A j \in 1 .. Len(seqs[i]) : hex[2 * (i - 1) + j] = seqs[i][j]
  <2>1. off[n] = 2 * n /\ \A i \in 1 .. n : off[i - 1] = 2 * (i - 1)
    BY <1>1
  <2> HIDE DEF off
  <2>2. IsFlat(FlattenSeq(seqs), D, seqs, off)
    BY <1>4, <1>5, FlattenProperties
  <2> QED
    BY <1>2, <1>4, <2>1, <2>2 DEF IsFlat
<1>7. ASSUME NEW i \in 1 .. n
      PROVE  hex[2*i - 1] * 16 + hex[2*i] = s[i]
  <2>1. 2 * (i - 1) + 1 = 2*i - 1 /\ 2 * (i - 1) + 2 = 2*i /\ 1 \in 1 .. 2 /\ 2 \in 1 .. 2
    BY <1>1
  <2>2. hex[2 * (i - 1) + 1] = seqs[i][1] /\ hex[2 * (i - 1) + 2] = seqs[i][2]
    BY <1>3, <1>6, <2>1, Zenon
  <2>3. hex[2*i - 1] = (s[i] \div 16) % 16 /\ hex[2*i] = s[i] % 16
    BY <1>3, <2>1, <2>2, Zenon
  <2>4. \A y \in 0 .. 255 : ((y \div 16) % 16) * 16 + (y % 16) = y
    OBVIOUS
  <2>5. s[i] \in 0 .. 255
    BY <1>1
  <2> QED
    BY <2>3, <2>4, <2>5, Zenon
<1>8. Len(hex) \div 2 = n
  BY <1>1, <1>6
<1>9. hexString2BytesArray(hex) = [i \in 1 .. n |-> s[i]]
  BY <1>7, <1>8 DEF hexString2BytesArray
<1>10. s = [i \in 1 .. n |-> s[i]]
  BY DEF n
<1> QED
  BY <1>9, <1>10 DEF hex

\* owl_base64decode returns the number of the bytes it has written.
LEMMA DecodedLenIsLen ==
    ASSUME NEW t \in Seq(Characters64)
    PROVE  /\ DecodedLen(t) = Len(owl_base64decode(t))
           /\ DecodedLen(t) <= owl_base64decode_len(t)
<1> DEFINE n == Characters(t)
           G == (n + 3) \div 4
           left == IF n = 0 THEN 0 ELSE ((n - 1) % 4) + 1
<1>1. n \in Nat
  <2>1. n \in 0 .. Len(t) /\ Len(t) \in Nat
    BY CharactersProperties
  <2> HIDE DEF n
  <2> QED
    BY <2>1
<1>2. IsDecoded(owl_base64decode(t), t, n)
  BY DecodeProperties
<1>3. Len(owl_base64decode(t)) = n - G
  BY <1>2 DEF IsDecoded
<1>4. owl_base64decode_len(t) = G * 3 /\ DecodedLen(t) = G * 3 - ((4 - left) % 4)
  BY DEF owl_base64decode_len, DecodedLen
<1> HIDE DEF n
<1>5. G * 3 - ((4 - left) % 4) = n - G /\ G * 3 - ((4 - left) % 4) <= G * 3
  <2>1. CASE n = 0
    <3>1. G = 0 /\ left = 0
      BY <2>1
    <3> QED
      BY <2>1, <3>1
  <2>2. CASE n # 0
    <3>1. left \in 1 .. 4 /\ n = 4 * (G - 1) + left /\ G \in Nat
      BY <1>1, <2>2
    <3> HIDE DEF left, G
    <3>2. (4 - left) % 4 = 4 - left
      BY <3>1
    <3> QED
      BY <1>1, <3>1, <3>2
  <2> QED
    BY <2>1, <2>2
<1> QED
  BY <1>3, <1>4, <1>5

\* Bytes and digits survive owl_base64encode and decode and the conversions
\* of the modem's line, whatever their number; the length that is returned
\* for a text is that of the bytes written, whatever the text.
THEOREM RoundTripsHolds == Spec => []RoundTrips
<1>1. InputInv => RoundTrips
  <2> SUFFICES ASSUME InputInv
               PROVE  RoundTrips
    OBVIOUS
  <2>1. ASSUME kind = "bytes"
        PROVE  LET text == owl_base64encode(input)
                   bits == (8 * Len(input) + 5) \div 6
               IN  /\ Len(text) = owl_base64encode_len(Len(input)) - 1
                   /\ \A j \in 1 .. Len(text) : text[j] = IF j <= bits THEN SixBits(input, j - 1) ELSE Other
                   /\ owl_base64decode(text) = input
                   /\ hexString2BytesArray(bytesArray2HexString(input)) = input
                   /\ hex_string_2_bytes_array(bytesArray2HexString(input)) = input
    <3>1. input \in Seq(Bytes)
      <4>1. Alphabet[kind] \subseteq Bytes
        BY <2>1, BytesAssumption DEF InputInv, Bytes
      <4> QED
        BY <4>1 DEF InputInv
    <3> DEFINE text == owl_base64encode(input)
    <3>2. /\ IsText(text, input)
          /\ Len(text) = owl_base64encode_len(Len(input)) - 1
          /\ \A j \in 1 .. Len(text) :
                 text[j] = IF j <= BitChars(Len(input)) THEN SixBits(input, j - 1) ELSE Other
      BY <3>1, EncodeWrites
    <3> HIDE DEF text
    <3>3. owl_base64decode(text) = input
      BY <3>1, <3>2, DecodeGivesBack
    <3>4. /\ hexString2BytesArray(bytesArray2HexString(input)) = input
          /\ hex_string_2_bytes_array(bytesArray2HexString(input)) = input
      BY <3>1, HexGivesBack DEF hex_string_2_bytes_array
    <3> QED
      BY <3>2, <3>3, <3>4, Zenon DEF BitChars, text
  <2>2. ASSUME kind = "text"
        PROVE  /\ DecodedLen(input) = Len(owl_base64decode(input))
               /\ DecodedLen(input) <= owl_base64decode_len(input)
    <3>1. input \in Seq(Characters64)
      <4>1. Alphabet[kind] \subseteq Characters64
        BY <2>2, TextAssumption DEF InputInv, Characters64
      <4> QED
        BY <4>1 DEF InputInv
    <3> QED
      BY <3>1, DecodedLenIsLen
  <2> QED
    BY <2>1, <2>2, Zenon DEF RoundTrips
<1> QED
  BY <1>1, InputInvariant, PTL

\* Characters that stand for nothing.
LEMMA CharsProperties ==
    ASSUME NEW n \in Nat
    PROVE  /\ Chars(n) \in Seq(Characters64) /\ Len(Chars(n)) = n
           /\ \A i \in 1 .. n : Chars(n)[i] = Other
BY DEF Chars, Characters64, Other

\* What is put behind a sequence leaves its first element.
LEMMA ConcatFirst ==
    ASSUME NEW S, NEW s \in Seq(S), NEW t \in Seq(S)
    PROVE  /\ s \o t \in Seq(S) /\ Len(s \o t) = Len(s) + Len(t)
           /\ Len(s) > 0 => (s \o t)[1] = s[1]
OBVIOUS

\* A PEM text is what comes before the content, the content and the rest.
LEMMA PemParts ==
    ASSUME NEW s \in Seq(Bytes), NEW caption \in Nat
    PROVE  \E before, after :
               /\ before \in Seq(Characters64) /\ Len(before) = 17 + caption
               /\ after \in Seq(Characters64) /\ Len(after) = 15 + caption
               /\ after[1] = Other
               /\ convert_der_to_pem(s, caption) = before \o (owl_base64encode(s) \o after)
<1> DEFINE text == owl_base64encode(s)
           b1 == Chars(11)
           b2 == Chars(caption)
           b3 == Chars(6)
           a1 == Chars(10)
           a3 == Chars(5)
           before == (b1 \o b2) \o b3
           after == (a1 \o b2) \o a3
<1>1. text \in Seq(Characters64)
  BY EncodeWrites
<1>2. /\ b1 \in Seq(Characters64) /\ Len(b1) = 11
      /\ b2 \in Seq(Characters64) /\ Len(b2) = caption
      /\ b3 \in Seq(Characters64) /\ Len(b3) = 6
      /\ a1 \in Seq(Characters64) /\ Len(a1) = 10 /\ a1[1] = Other
      /\ a3 \in Seq(Characters64) /\ Len(a3) = 5
  <2>1. 11 \in Nat /\ 6 \in Nat /\ 10 \in Nat /\ 5 \in Nat /\ 1 \in 1 .. 10
    OBVIOUS
  <2> QED
    BY <2>1, CharsProperties, Zenon
<1>3. convert_der_to_pem(s, caption) = ((((before \o text) \o a1) \o b2) \o a3)
  BY Zenon DEF convert_der_to_pem
<1> HIDE DEF text, b1, b2, b3, a1, a3
<1>4. /\ b1 \o b2 \in Seq(Characters64) /\ Len(b1 \o b2) = 11 + caption
      /\ a1 \o b2 \in Seq(Characters64) /\ Len(a1 \o b2) = 10 + caption
      /\ (a1 \o b2)[1] = a1[1]
  <2>1. b1 \in Seq(Characters64) /\ b2 \in Seq(Characters64) /\ a1 \in Seq(Characters64)
    BY <1>2, Zenon
  <2>2. b1 \o b2 \in Seq(Characters64) /\ Len(b1 \o b2) = Len(b1) + Len(b2)
    BY <2>1, ConcatFirst, Zenon
  <2>3. /\ a1 \o b2 \in Seq(Characters64) /\ Len(a1 \o b2) = Len(a1) + Len(b2)
        /\ Len(a1) > 0 => (a1 \o b2)[1] = a1[1]
    BY <2>1, ConcatFirst
  <2>4. 10 > 0
    OBVIOUS
  <2> QED
    BY <1>2, <2>2, <2>3, <2>4, Zenon
<1>5. /\ before \in Seq(Characters64) /\ Len(before) = 17 + caption
      /\ after \in Seq(Characters64) /\ Len(after) = 15 + caption
      /\ after[1] = Other
  <2> DEFINE p == b1 \o b2
             q == a1 \o b2
  <2>1. /\ p \in Seq(Characters64) /\ Len(p) = 11 + caption
        /\ q \in Seq(Characters64) /\ Len(q) = 10 + caption /\ q[1] = Other
    BY <1>2, <1>4
  <2> HIDE DEF p, q
  <2>2. /\ 11 + caption \in Nat /\ 10 + caption \in Nat /\ 10 + caption > 0 /\ 5 \in Nat /\ 6 \in Nat
        /\ 11 + caption + 6 = 17 + caption /\ 10 + caption + 5 = 15 + caption
    OBVIOUS
  <2>3. /\ p \o b3 \in Seq(Characters64) /\ Len(p \o b3) = 11 + caption + 6
        /\ q \o a3 \in Seq(Characters64) /\ Len(q \o a3) = 10 + caption + 5
        /\ (q \o a3)[1] = q[1]
    <3>1. p \in Seq(Characters64) /\ q \in Seq(Characters64) /\ b3 \in Seq(Characters64) /\ a3 \in Seq(Characters64)
      BY <1>2, <2>1, Zenon
    <3>2. p \o b3 \in Seq(Characters64) /\ Len(p \o b3) = Len(p) + Len(b3)
      BY <3>1, ConcatFirst, Zenon
    <3>3. /\ q \o a3 \in Seq(Characters64) /\ Len(q \o a3) = Len(q) + Len(a3)
          /\ Len(q) > 0 => (q \o a3)[1] = q[1]
      BY <3>1, ConcatFirst
    <3> QED
      BY <1>2, <2>1, <2>2, <3>2, <3>3, Zenon
  <2> QED
    BY <2>1, <2>2, <2>3, Zenon DEF p, q
<1> HIDE DEF before
<1>6. ((((before \o text) \o a1) \o b2) \o a3) = before \o (text \o after)
  <2>1. before \o text \in Seq(Characters64) /\ text \o after \in Seq(Characters64)
    BY <1>1, <1>5, ConcatProperties
  <2>2. ((((before \o text) \o a1) \o b2) \o a3) = (before \o text) \o after
    <3> DEFINE h == before \o text
    <3> HIDE DEF h
    <3>1. /\ h \in Seq(Characters64) /\ a1 \in Seq(Characters64)
          /\ b2 \in Seq(Characters64) /\ a3 \in Seq(Characters64)
          /\ a1 \o b2 \in Seq(Characters64)
      BY <1>2, <1>4, <2>1, Zenon DEF h
    <3>2. (h \o a1) \o b2 = h \o (a1 \o b2)
      BY <3>1, ConcatAssociative
    <3>3. (h \o (a1 \o b2)) \o a3 = h \o ((a1 \o b2) \o a3)
      <4> DEFINE k == a1 \o b2
      <4>1. h \in Seq(Characters64) /\ k \in Seq(Characters64) /\ a3 \in Seq(Characters64)
        BY <3>1
      <4> HIDE DEF k
      <4>2. (h \o k) \o a3 = h \o (k \o a3)
        BY <4>1, ConcatAssociative
      <4> QED
        BY <4>2 DEF k
    <3> QED
      BY <3>2, <3>3 DEF h
  <2>3. (before \o text) \o after = before \o (text \o after)
    <3> HIDE DEF after
    <3> QED
      BY <1>1, <1>5, ConcatAssociative, SMTT(30)
  <2> QED
    BY <2>2, <2>3
<1> QED
  BY <1>3, <1>5, <1>6, Zenon DEF text

\* What follows a sequence is found behind it.
LEMMA PartBehind ==
    ASSUME NEW S, NEW s \in Seq(S), NEW t \in Seq(S)
    PROVE  SubSeq(s \o t, Len(s) + 1, Len(s \o t)) = t
<1> DEFINE st == s \o t
           m == Len(s) + 1
           n == Len(st)
           part == SubSeq(st, m, n)
<1>1. Len(s) \in Nat /\ Len(t) \in Nat
  OBVIOUS
<1>2. /\ st \in Seq(S) /\ n = Len(s) + Len(t)
      /\ \A i \in 1 .. Len(s) + Len(t) : st[i] = IF i <= Len(s) THEN s[i] ELSE t[i - Len(s)]
  BY ConcatProperties
<1> HIDE DEF st
<1>3. m \in Nat /\ n \in Nat /\ 1 <= m /\ m <= n + 1 /\ n <= Len(st) /\ n - m + 1 = Len(t)
  BY <1>1, <1>2
<1> HIDE DEF m, n
<1>4. /\ part \in Seq(S) /\ Len(part) = n - m + 1
      /\ \A i \in 1 .. n - m + 1 : part[i] = st[i + m - 1]
  BY <1>2, <1>3, PartOfSeq
<1> HIDE DEF part
<1>5. ASSUME NEW i \in 1 .. Len(t)
      PROVE  part[i] = t[i]
  <2> DEFINE j == i + m - 1
  <2>1. j \in 1 .. Len(s) + Len(t) /\ ~(j <= Len(s)) /\ j - Len(s) = i
    BY <1>1 DEF m
  <2>2. part[i] = st[j]
    BY <1>3, <1>4
  <2> HIDE DEF j
  <2>3. st[j] = t[i]
    BY <1>2, <2>1
  <2> QED
    BY <2>2, <2>3
<1>6. part = t
  BY <1>3, <1>4, <1>5, SeqEqual
<1> QED
  BY <1>6 DEF part, m, n, st

\* A text is one also with characters behind it, if the first of them is none.
LEMMA TextAndMore ==
    ASSUME NEW s \in Seq(Bytes), NEW after \in Seq(Characters64), Len(after) > 0, after[1] = Other
    PROVE  IsText(owl_base64encode(s) \o after, s)
<1> DEFINE text == owl_base64encode(s)
           n == Len(s)
           B == BitChars(n)
           t == text \o after
<1>1. n \in Nat /\ B \in Nat /\ Groups(n) \in Nat /\ B <= 4 * Groups(n) /\ Len(after) \in Nat
  BY DEF BitChars, Groups
<1>2. IsText(text, s)
  BY EncodeWrites
<1>3. /\ text \in Seq(Characters64) /\ Len(text) = 4 * Groups(n)
  BY EncodeProperties
<1>4. /\ \A x \in 0 .. Groups(n) - 1 : \A k \in 1 .. 4 : 4 * x + k <= B => text[4 * x + k] = Group(s, x)[k]
      /\ B < Len(text) => text[B + 1] = Other
  BY <1>2 DEF IsText
<1> HIDE DEF text, n, B
<1>5. /\ t \in Seq(Characters64) /\ Len(t) = Len(text) + Len(after)
      /\ \A i \in 1 .. Len(text) + Len(after) : t[i] = IF i <= Len(text) THEN text[i] ELSE after[i - Len(text)]
  BY <1>3, ConcatProperties
<1> HIDE DEF t
<1>6. B <= Len(t)
  BY <1>1, <1>3, <1>5
<1>7. ASSUME NEW x \in 0 .. Groups(n) - 1, NEW k \in 1 .. 4, 4 * x + k <= B
      PROVE  t[4 * x + k] = Group(s, x)[k]
  <2>1. PICK i \in Nat : i = 4 * x + k
    BY <1>1
  <2>2. i \in 1 .. Len(text) + Len(after) /\ i <= Len(text)
    BY <1>1, <1>3, <1>7, <2>1, SMTT(30)
  <2>3. t[i] = text[i]
    BY <1>5, <2>2
  <2> QED
    BY <1>4, <1>7, <2>1, <2>3
<1>8. t[B + 1] = Other
  <2> DEFINE i == B + 1
  <2>1. i \in 1 .. Len(text) + Len(after)
    BY <1>1, <1>3
  <2>2. CASE i <= Len(text)
    <3>1. B < Len(text)
      BY <1>1, <1>3, <2>2
    <3>2. text[i] = Other
      BY <1>4, <3>1
    <3> HIDE DEF i
    <3>3. t[i] = Other
      BY <1>5, <2>1, <2>2, <3>2
    <3> QED
      BY <3>3 DEF i
  <2>3. CASE ~(i <= Len(text))
    <3>1. i - Len(text) = 1
      <4>1. B \in Nat /\ Len(text) \in Nat /\ B <= Len(text) /\ ~(B + 1 <= Len(text))
        BY <1>1, <1>3, <2>3, SMTT(30)
      <4> QED
        BY <4>1
    <3> HIDE DEF i
    <3>2. t[i] = Other
      BY <1>5, <2>1, <2>3, <3>1
    <3> QED
      BY <3>2 DEF i
  <2> QED
    BY <2>2, <2>3
<1> QED
  BY <1>5, <1>6, <1>7, <1>8, Zenon DEF IsText, t, text, n, B

\* convert_der_to_pem fills what der_to_pem_len has promised for a DER of any
\* length and a caption of any length, and the DER is what is found in it.
THEOREM PemFitsHolds == Spec => []PemFits
<1>1. InputInv => PemFits
  <2> SUFFICES ASSUME InputInv, kind = "bytes", NEW caption \in Captions
               PROVE  LET pem   == convert_der_to_pem(input, caption)
                          start == 11 + caption + 6
                      IN  /\ Len(pem) = der_to_pem_len(Len(input), caption)
                          /\ start + owl_base64encode_len(Len(input)) <= Len(pem)
                          /\ owl_base64decode(SubSeq(pem, start + 1, Len(pem))) = input
    BY Zenon DEF PemFits
  <2> DEFINE s == input
             text == owl_base64encode(s)
             pem == convert_der_to_pem(s, caption)
             start == 11 + caption + 6
  <2>1. s \in Seq(Bytes) /\ Len(s) \in Nat
    <3>1. Alphabet[kind] \subseteq Bytes
      BY BytesAssumption DEF InputInv, Bytes
    <3> QED
      BY <3>1 DEF InputInv
  <2>2. caption \in Nat
    BY CaptionsAssumption
  <2>3. PICK before, after :
            /\ before \in Seq(Characters64) /\ Len(before) = 17 + caption
            /\ after \in Seq(Characters64) /\ Len(after) = 15 + caption
            /\ after[1] = Other
            /\ pem = before \o (text \o after)
    BY <2>1, <2>2, PemParts, Zenon
  <2>4. /\ text \in Seq(Characters64) /\ Len(text) = owl_base64encode_len(Len(s)) - 1
        /\ Len(text) \in Nat
    <3>1. text \in Seq(Characters64) /\ Len(text) = owl_base64encode_len(Len(s)) - 1
      BY <2>1, EncodeWrites
    <3> HIDE DEF text
    <3> QED
      BY <3>1
  <2>5. IsText(text \o after, s)
    <3>1. Len(after) > 0
      BY <2>2, <2>3
    <3> QED
      BY <2>1, <2>3, <3>1, TextAndMore, Zenon
  <2> HIDE DEF text
  <2> DEFINE t == text \o after
  <2>6. t \in Seq(Characters64) /\ Len(t) = Len(text) + (15 + caption)
    <3>1. text \in Seq(Characters64) /\ after \in Seq(Characters64)
      BY <2>3, <2>4
    <3>2. t \in Seq(Characters64) /\ Len(t) = Len(text) + Len(after)
      BY <3>1, ConcatFirst
    <3> QED
      BY <2>3, <3>2, Zenon
  <2> HIDE DEF t
  <2>7. pem = before \o t
    BY <2>3 DEF t
  <2>8. Len(pem) = (17 + caption) + (Len(text) + (15 + caption)) /\ SubSeq(pem, Len(before) + 1, Len(pem)) = t
    <3>1. before \in Seq(Characters64) /\ t \in Seq(Characters64)
      BY <2>3, <2>6, Zenon
    <3>2. Len(before \o t) = Len(before) + Len(t)
      BY <3>1, ConcatFirst
    <3>3. SubSeq(before \o t, Len(before) + 1, Len(before \o t)) = t
      BY <3>1, PartBehind, Zenon
    <3> QED
      BY <2>3, <2>6, <2>7, <3>2, <3>3, Zenon
  <2> HIDE DEF pem
  <2>9. owl_base64encode_len(Len(s)) \in Int
    BY <2>1 DEF owl_base64encode_len
  <2>10. start = 17 + caption
    BY <2>2
  <2>11. Len(pem) = der_to_pem_len(Len(s), caption) /\ start + owl_base64encode_len(Len(s)) <= Len(pem)
    <3> DEFINE L == owl_base64encode_len(Len(s))
    <3>1. der_to_pem_len(Len(s), caption) = 11 + caption + 6 + L + 9 + caption + 5
      BY DEF der_to_pem_len
    <3> HIDE DEF L, start
    <3>2. L \in Int /\ Len(text) = L - 1
      BY <2>4, <2>9 DEF L
    <3>3. Len(pem) = (17 + caption) + (L - 1 + (15 + caption))
      BY <2>8, <3>2
    <3>4. (17 + caption) + (L - 1 + (15 + caption)) = 11 + caption + 6 + L + 9 + caption + 5
      BY <2>2, <3>2
    <3>5. 17 + caption + L <= (17 + caption) + (L - 1 + (15 + caption))
      BY <2>2, <3>2
    <3> QED
      BY <2>10, <3>1, <3>3, <3>4, <3>5, Zenon DEF L
  <2>12. owl_base64decode(SubSeq(pem, start + 1, Len(pem))) = s
    <3>1. owl_base64decode(t) = s
      BY <2>1, <2>5, DecodeGivesBack DEF t
    <3> HIDE DEF start
    <3> QED
      BY <2>3, <2>8, <2>10, <3>1, Zenon
  <2> QED
    BY <2>11, <2>12 DEF pem
<1> QED
  BY <1>1, InputInvariant, PTL

----------------------------------------------------------------------------
(* Sizes                                                                   *)

\* size is what a size holds after each byte shifted into it.
IsShift(size, size0, bytes) ==
    /\ size[0] = size0
    /\ \A k \in 1 .. Len(bytes) : size[k] = Shifted(size[k - 1], bytes[k])
    /\ Shift(size0, bytes) = size[Len(bytes)]

\* Shift shifts the bytes in one by one.
LEMMA ShiftSteps ==
    ASSUME NEW bytes \in Seq(Bytes), NEW size0 \in Int
    PROVE  \E size : IsShift(size, size0, bytes)
<1> DEFINE n == Len(bytes)
           step == [k \in 1 .. n |-> [x \in Int |-> Shifted(x, bytes[k])]]
           Def(g) == g = [k \in 0 .. n |-> IF k = 0 THEN size0 ELSE Shifted(g[k - 1], bytes[k])]
<1>1. n \in Nat /\ \A k \in 1 .. n : bytes[k] \in 0 .. 255
  <2>1. n \in Nat /\ \A k \in 1 .. n : bytes[k] \in Bytes
    OBVIOUS
  <2> QED
    BY <2>1 DEF Bytes
<1>2. \A x \in Int : \A b \in 0 .. 255 : Shifted(x, b) \in Int
  BY DEF Shifted
<1>3. step \in [1 .. n -> [Int -> Int]]
  BY <1>1, <1>2
<1> HIDE DEF n, step
<1>4. PICK g : IsRecursive(g, n, Int, size0, step)
  BY <1>1, <1>3, RecursiveFunction
<1>5. ASSUME NEW k \in 1 .. n
      PROVE  g[k] = Shifted(g[k - 1], bytes[k])
  <2>1. g[k - 1] \in Int
    BY <1>1, <1>4 DEF IsRecursive
  <2> QED
    BY <1>4, <2>1 DEF step, IsRecursive
<1>6. Def(g)
  <2>1. \A k \in 0 .. n : g[k] = IF k = 0 THEN size0 ELSE Shifted(g[k - 1], bytes[k])
    BY <1>1, <1>4, <1>5 DEF IsRecursive
  <2> QED
    BY <1>4, <2>1 DEF IsRecursive
<1> DEFINE f == CHOOSE h : Def(h)
<1>7. Def(f)
  <2> HIDE DEF Def
  <2> QED
    BY <1>6
<1>8. Shift(size0, bytes) = f[n]
  BY DEF Shift, n
<1> HIDE DEF f
<1>9. f[0] = size0 /\ \A k \in 1 .. n : f[k] = Shifted(f[k - 1], bytes[k])
  <2>1. \A k \in 0 .. n : f[k] = IF k = 0 THEN size0 ELSE Shifted(f[k - 1], bytes[k])
    BY <1>7, Zenon
  <2>2. 0 \in 0 .. n /\ \A k \in 1 .. n : k \in 0 .. n /\ k # 0
    BY <1>1
  <2> HIDE DEF Def
  <2> QED
    BY <2>1, <2>2
<1>10. IsShift(f, size0, bytes)
  BY <1>8, <1>9 DEF IsShift, n
<1> QED
  BY <1>10

\* Two bytes shifted in replace what a size held.
LEMMA ShiftedTwice ==
    ASSUME NEW y \in Int, NEW b \in Bytes, NEW c \in Bytes, NEW z, z = Shifted(y, b)
    PROVE  Shifted(z, c) = b * 256 + c
BY DEF Shifted, Bytes

\* The last two bytes are the size, whatever it was before.
LEMMA ShiftTwo ==
    ASSUME NEW bytes \in Seq(Bytes), NEW size0 \in Int, NEW n \in {2, 3}, Len(bytes) = n
    PROVE  Shift(size0, bytes) = bytes[n - 1] * 256 + bytes[n]
<1>1. PICK size : IsShift(size, size0, bytes)
  BY ShiftSteps
<1>2. /\ size[0] = size0 /\ Shift(size0, bytes) = size[n]
      /\ \A k \in 1 .. n : size[k] = Shifted(size[k - 1], bytes[k])
  BY <1>1 DEF IsShift
<1>3. \A k \in 1 .. n : bytes[k] \in Bytes
  OBVIOUS
<1>4. \A y \in Int : \A b \in Bytes : Shifted(y, b) \in Int
  BY DEF Shifted, Bytes
<1>5. n \in Nat /\ n - 1 \in 1 .. n /\ n \in 1 .. n
  OBVIOUS
<1>6. size[n - 1 - 1] \in Int
  <2>1. CASE n = 2
    BY <1>2, <2>1
  <2>2. CASE n = 3
    <3>1. 1 \in 1 .. n /\ n - 1 - 1 = 1 /\ 1 - 1 = 0
      BY <2>2
    <3> QED
      BY <1>2, <1>3, <1>4, <3>1, Zenon
  <2> QED
    BY <2>1, <2>2
<1>7. size[n - 1] = Shifted(size[n - 1 - 1], bytes[n - 1]) /\ size[n] = Shifted(size[n - 1], bytes[n])
  BY <1>2, <1>5, Zenon
<1>8. bytes[n - 1] \in Bytes /\ bytes[n] \in Bytes
  BY <1>3, <1>5, Zenon
<1> DEFINE y == size[n - 1 - 1]
           z == size[n - 1]
           b == bytes[n - 1]
           c == bytes[n]
<1>9. /\ y \in Int /\ b \in Bytes /\ c \in Bytes /\ z = Shifted(y, b) /\ size[n] = Shifted(z, c)
      /\ Shift(size0, bytes) = size[n]
  BY <1>2, <1>6, <1>7, <1>8, Zenon
<1> HIDE DEF y, z, b, c
<1>10. Shifted(z, c) = b * 256 + c
  BY <1>9, ShiftedTwice
<1> QED
  BY <1>9, <1>10, Zenon DEF b, c

\* A length in the n bytes behind the first is their last two.
LEMMA LengthInBytes ==
    ASSUME NEW record \in Seq(Bytes), NEW size0 \in Int, NEW n \in {2, 3},
           record[1] = 128 + n, n + 1 <= Len(record)
    PROVE  p11_value_size(record, size0) = [size |-> record[n] * 256 + record[n + 1], skip |-> n + 1]
<1> DEFINE bytes == SubSeq(record, 2, n + 1)
<1>1. ~(record[1] < 128) /\ record[1] % 16 = n
  OBVIOUS
<1>2. p11_value_size(record, size0) = [size |-> Shift(size0, bytes), skip |-> n + 1]
  BY <1>1 DEF p11_value_size
<1>3. /\ bytes \in Seq(Bytes) /\ Len(bytes) = n
      /\ \A i \in 1 .. n : bytes[i] = record[i + 1]
  <2> DEFINE m == n + 1
  <2>1. /\ 2 \in Nat /\ m \in Nat /\ 1 <= 2 /\ 2 <= m + 1 /\ m <= Len(record)
        /\ m - 2 + 1 = n /\ \A i \in Int : i + 2 - 1 = i + 1
    OBVIOUS
  <2> HIDE DEF m
  <2>2. /\ SubSeq(record, 2, m) \in Seq(Bytes) /\ Len(SubSeq(record, 2, m)) = m - 2 + 1
        /\ \A i \in 1 .. m - 2 + 1 : SubSeq(record, 2, m)[i] = record[i + 2 - 1]
    BY <2>1, PartOfSeq
  <2>3. \A i \in 1 .. n : i \in Int
    OBVIOUS
  <2>4. bytes = SubSeq(record, 2, m)
    BY DEF m
  <2> HIDE DEF bytes
  <2> QED
    BY <2>1, <2>2, <2>3, <2>4
<1> HIDE DEF bytes
<1>4. Shift(size0, bytes) = bytes[n - 1] * 256 + bytes[n]
  BY <1>3, ShiftTwo, ZenonT(40)
<1>5. n - 1 \in 1 .. n /\ n \in 1 .. n /\ n - 1 + 1 = n
  OBVIOUS
<1>6. bytes[n - 1] = record[n] /\ bytes[n] = record[n + 1]
  BY <1>3, <1>5, Zenon
<1> QED
  BY <1>2, <1>4, <1>6, Zenon

\* p11GetObjectByLabel reads each encoding of a length.
LEMMA LengthsDecoded ==
    ASSUME NEW hi \in Bytes, NEW lo \in Bytes, NEW size0 \in Int
    PROVE  \A l \in Lengths(hi, lo) :
               p11_value_size(l \o <<0, 0, 0, 0>>, size0) = [size |-> hi * 256 + lo, skip |-> Len(l)]
<1> DEFINE rest == <<0, 0, 0, 0>>
<1>1. rest \in Seq(Bytes) /\ Len(rest) = 4
  BY DEF Bytes
<1> HIDE DEF rest
<1>2. ASSUME NEW l \in Seq(Bytes)
      PROVE  /\ l \o rest \in Seq(Bytes) /\ Len(l \o rest) = Len(l) + 4
             /\ \A i \in 1 .. Len(l) : (l \o rest)[i] = l[i]
  <2> DEFINE r == l \o rest
  <2>1. /\ r \in Seq(Bytes) /\ Len(r) = Len(l) + Len(rest)
        /\ \A i \in 1 .. Len(l) + Len(rest) : r[i] = IF i <= Len(l) THEN l[i] ELSE rest[i - Len(l)]
    BY <1>1, ConcatProperties
  <2> HIDE DEF r
  <2>2. Len(l) \in Nat /\ Len(rest) \in Nat
    BY <1>1
  <2>3. \A i \in 1 .. Len(l) : i \in 1 .. Len(l) + Len(rest) /\ i <= Len(l)
    BY <2>2
  <2>4. \A i \in 1 .. Len(l) : r[i] = l[i]
    BY <2>1, <2>3, Zenon
  <2> QED
    BY <1>1, <2>1, <2>4 DEF r
<1>3. ASSUME NEW l, l = <<130, hi, lo>>
      PROVE  p11_value_size(l \o rest, size0) = [size |-> hi * 256 + lo, skip |-> Len(l)]
  <2> DEFINE r == l \o rest
  <2>1. 130 \in Bytes
    BY DEF Bytes
  <2>2. l \in Seq(Bytes) /\ Len(l) = 3 /\ l[1] = 130 /\ l[2] = hi /\ l[3] = lo
    BY <1>3, <2>1
  <2>3. 1 \in 1 .. 3 /\ 2 \in 1 .. 3 /\ 3 \in 1 .. 3 /\ 128 + 2 = 130 /\ 2 + 1 = 3 /\ 3 <= 3 + 4 /\ 2 > 1
    OBVIOUS
  <2>4. r \in Seq(Bytes) /\ Len(r) = 3 + 4 /\ r[1] = 130 /\ r[2] = hi /\ r[3] = lo
    <3>1. /\ r \in Seq(Bytes) /\ Len(r) = Len(l) + 4
          /\ \A i \in 1 .. Len(l) : r[i] = l[i]
      BY <1>2, <2>2
    <3> HIDE DEF r
    <3> QED
      BY <2>2, <2>3, <3>1
  <2> HIDE DEF r
  <2>5. p11_value_size(r, size0) = [size |-> r[2] * 256 + r[2 + 1], skip |-> 2 + 1]
    <3> DEFINE n == 2
    <3>1. r \in Seq(Bytes) /\ n \in {2, 3} /\ r[1] = 128 + n /\ n + 1 <= Len(r)
      BY <2>3, <2>4
    <3> HIDE DEF n
    <3>2. p11_value_size(r, size0) = [size |-> r[n] * 256 + r[n + 1], skip |-> n + 1]
      BY <3>1, LengthInBytes
    <3> QED
      BY <3>2 DEF n
  <2> QED
    BY <2>2, <2>3, <2>4, <2>5, Zenon DEF r
<1>4. ASSUME NEW l, l = <<131, 0, hi, lo>>
      PROVE  p11_value_size(l \o rest, size0) = [size |-> hi * 256 + lo, skip |-> Len(l)]
  <2> DEFINE r == l \o rest
  <2>1. 131 \in Bytes /\ 0 \in Bytes
    BY DEF Bytes
  <2>2. l \in Seq(Bytes) /\ Len(l) = 4 /\ l[1] = 131 /\ l[3] = hi /\ l[4] = lo
    BY <1>4, <2>1
  <2>3. 1 \in 1 .. 4 /\ 3 \in 1 .. 3 /\ 3 \in 1 .. 4 /\ 4 \in 1 .. 4 /\ 128 + 3 = 131 /\ 3 + 1 = 4 /\ 4 <= 4 + 4 /\ 3 > 1
    OBVIOUS
  <2>4. r \in Seq(Bytes) /\ Len(r) = 4 + 4 /\ r[1] = 131 /\ r[3] = hi /\ r[4] = lo
    <3>1. /\ r \in Seq(Bytes) /\ Len(r) = Len(l) + 4
          /\ \A i \in 1 .. Len(l) : r[i] = l[i]
      BY <1>2, <2>2
    <3> HIDE DEF r
    <3> QED
      BY <2>2, <2>3, <3>1
  <2> HIDE DEF r
  <2>5. p11_value_size(r, size0) = [size |-> r[3] * 256 + r[3 + 1], skip |-> 3 + 1]
    <3> DEFINE n == 3
    <3>1. r \in Seq(Bytes) /\ n \in {2, 3} /\ r[1] = 128 + n /\ n + 1 <= Len(r)
      BY <2>3, <2>4
    <3> HIDE DEF n
    <3>2. p11_value_size(r, size0) = [size |-> r[n] * 256 + r[n + 1], skip |-> n + 1]
      BY <3>1, LengthInBytes
    <3> QED
      BY <3>2 DEF n
  <2> QED
    BY <2>2, <2>3, <2>4, <2>5, Zenon DEF r
<1>5. ASSUME NEW l, l = <<lo>>, hi = 0, lo < 128
      PROVE  p11_value_size(l \o rest, size0) = [size |-> hi * 256 + lo, skip |-> Len(l)]
  <2> DEFINE r == l \o rest
  <2>1. l \in Seq(Bytes) /\ Len(l) = 1 /\ l[1] = lo
    BY <1>5
  <2>2. 1 \in 1 .. 1 /\ hi * 256 + lo = lo
    BY <1>5 DEF Bytes
  <2>3. r[1] = lo
    BY <1>2, <2>1, <2>2, Zenon
  <2> HIDE DEF r
  <2>4. p11_value_size(r, size0) = [size |-> lo, skip |-> 1]
    BY <1>5, <2>3 DEF p11_value_size
  <2> QED
    BY <2>1, <2>2, <2>4, Zenon DEF r
<1>6. ASSUME NEW l \in Lengths(hi, lo)
      PROVE  p11_value_size(l \o rest, size0) = [size |-> hi * 256 + lo, skip |-> Len(l)]
  <2>1. l = <<130, hi, lo>> \/ l = <<131, 0, hi, lo>> \/ (l = <<lo>> /\ hi = 0 /\ lo < 128)
    BY DEF Lengths
  <2>2. CASE l = <<130, hi, lo>>
    BY <1>3, <2>2, Zenon
  <2>3. CASE l = <<131, 0, hi, lo>>
    BY <1>4, <2>3, Zenon
  <2>4. CASE l = <<lo>> /\ hi = 0 /\ lo < 128
    BY <1>5, <2>4, Zenon
  <2> QED
    BY <2>1, <2>2, <2>3, <2>4, Zenon
<1> QED
  BY <1>6, Zenon DEF rest

\* Sequences have offsets.
LEMMA OffsetExists ==
    ASSUME NEW S, NEW seqs \in Seq(Seq(S))
    PROVE  \E off : IsOffset(off, seqs)
<1> DEFINE n == Len(seqs)
           step == [k \in 1 .. n |-> [x \in Nat |-> x + Len(seqs[k])]]
<1>1. n \in Nat /\ \A k \in 1 .. n : Len(seqs[k]) \in Nat
  <2>1. \A k \in 1 .. n : seqs[k] \in Seq(S)
    OBVIOUS
  <2> QED
    BY <2>1
<1>2. step \in [1 .. n -> [Nat -> Nat]] /\ 0 \in Nat
  BY <1>1
<1>3. \A k \in 1 .. n : \A x \in Nat : step[k][x] = x + Len(seqs[k])
  OBVIOUS
<1> HIDE DEF n, step
<1>4. PICK off : IsRecursive(off, n, Nat, 0, step)
  BY <1>1, <1>2, RecursiveFunction
<1>5. off \in [0 .. n -> Nat] /\ off[0] = 0
  BY <1>4 DEF IsRecursive
<1>6. ASSUME NEW k \in 1 .. n
      PROVE  off[k] = off[k - 1] + Len(seqs[k])
  <2>1. off[k - 1] \in Nat
    BY <1>1, <1>5
  <2> QED
    BY <1>3, <1>4, <2>1 DEF IsRecursive
<1>7. IsOffset(off, seqs)
  BY <1>5, <1>6 DEF IsOffset, n
<1> QED
  BY <1>7

\* They do not decrease.
LEMMA OffsetMonotone ==
    ASSUME NEW S, NEW seqs \in Seq(Seq(S)), NEW off, IsOffset(off, seqs),
           NEW i \in 0 .. Len(seqs), NEW j \in 0 .. Len(seqs), i <= j
    PROVE  off[i] <= off[j]
<1> DEFINE n == Len(seqs)
           T == {k \in 0 .. n : i <= k => off[i] <= off[k]}
<1>1. n \in Nat /\ \A k \in 1 .. n : Len(seqs[k]) \in Nat
  <2>1. \A k \in 1 .. n : seqs[k] \in Seq(S)
    OBVIOUS
  <2> QED
    BY <2>1
<1>2. /\ \A k \in 0 .. n : off[k] \in Nat
      /\ \A k \in 1 .. n : off[k] = off[k - 1] + Len(seqs[k])
  BY DEF IsOffset
<1>3. i \in 0 .. n /\ j \in 0 .. n
  OBVIOUS
<1> HIDE DEF n
<1>4. 0 \in T
  BY <1>1, <1>2, <1>3
<1>5. ASSUME NEW k \in 1 .. n, k - 1 \in T
      PROVE  k \in T
  <2>1. off[k - 1] \in Nat /\ off[k] = off[k - 1] + Len(seqs[k]) /\ Len(seqs[k]) \in Nat /\ off[i] \in Nat
        /\ k \in 0 .. n
    BY <1>1, <1>2, <1>3
  <2>2. off[k - 1] <= off[k]
    BY <2>1
  <2>3. CASE i = k
    BY <2>1, <2>3
  <2>4. CASE i # k
    <3>1. i <= k => i <= k - 1
      BY <1>1, <1>3, <2>4
    <3>2. i <= k - 1 => off[i] <= off[k - 1]
      BY <1>5
    <3> QED
      BY <2>1, <2>2, <3>1, <3>2
  <2> QED
    BY <2>3, <2>4
<1>6. T = 0 .. n
  <2>1. T \in SUBSET (0 .. n)
    OBVIOUS
  <2> HIDE DEF T
  <2> QED
    BY <1>1, <1>4, <1>5, <2>1, Induction
<1>7. j \in T
  BY <1>3, <1>6
<1> QED
  BY <1>7

\* The fields of a template.
IsTemplate(fields) ==
    /\ fields \in Seq(Seq(Bytes))
    /\ \A i \in 1 .. Len(fields) :
        /\ Len(fields[i]) >= 2 /\ Len(fields[i]) = 2 + fields[i][2]
        /\ fields[i][1] \in {SizeWithoutInfo, SizeWithInfo} => fields[i][2] = 2

\* tlvs is the template, off where its fields begin.
IsLaidOut(tlvs, fields, off) ==
    /\ IsTemplate(fields)
    /\ IsOffset(off, fields)
    /\ IsFlat(tlvs, Bytes, fields, off)

\* What is found at and behind the beginning of field i.
IsField(tlvs, f, off, i) ==
    /\ f \in Seq(Bytes) /\ Len(f) \in Nat /\ Len(f) >= 2 /\ Len(f) = 2 + f[2] /\ f[2] \in Nat
    /\ off[i - 1] \in Nat /\ off[i] \in Nat /\ off[i] = off[i - 1] + Len(f)
    /\ off[i] <= Len(tlvs) /\ Len(tlvs) \in Nat
    /\ \A j \in 1 .. Len(f) : tlvs[off[i - 1] + j] = f[j]

\* That is the field.
LEMMA FieldAt ==
    ASSUME NEW tlvs, NEW fields, NEW off, IsLaidOut(tlvs, fields, off),
           NEW i \in 1 .. Len(fields)
    PROVE  IsField(tlvs, fields[i], off, i)
<1> DEFINE f == fields[i]
           n == Len(fields)
<1>1. /\ fields \in Seq(Seq(Bytes)) /\ Len(f) >= 2 /\ Len(f) = 2 + f[2]
  BY DEF IsLaidOut, IsTemplate
<1>2. n \in Nat /\ f \in Seq(Bytes) /\ Len(f) \in Nat
  <2>1. n \in Nat /\ f \in Seq(Bytes)
    BY <1>1, ElementOfSeq
  <2> HIDE DEF f, n
  <2> QED
    BY <2>1
<1>3. f[2] \in Nat
  <2> HIDE DEF f
  <2>1. 2 \in 1 .. Len(f)
    BY <1>1, <1>2
  <2>2. f[2] \in Bytes
    BY <1>2, <2>1, ElementOfSeq, Zenon
  <2>3. \A y \in Bytes : y \in Nat
    BY DEF Bytes
  <2> QED
    BY <2>2, <2>3, Zenon
<1>4. off \in [0 .. n -> Nat] /\ off[i] = off[i - 1] + Len(f)
  BY DEF IsLaidOut, IsOffset
<1>5. i \in 1 .. n /\ i \in 0 .. n /\ i - 1 \in 0 .. n
  BY <1>2
<1>6. /\ tlvs \in Seq(Bytes) /\ Len(tlvs) = off[n] /\ off[i] <= off[n]
      /\ \A j \in 1 .. Len(f) : tlvs[off[i - 1] + j] = f[j]
  BY DEF IsLaidOut, IsFlat
<1>7. Len(tlvs) \in Nat
  BY <1>6
<1> HIDE DEF f, n
<1>8. off[i - 1] \in Nat /\ off[i] \in Nat
  BY <1>4, <1>5
<1> QED
  BY <1>1, <1>2, <1>3, <1>4, <1>6, <1>7, <1>8, Zenon DEF f, IsField

\* After each turn the loop stands where the next field begins, or behind the
\* last one.
LEMMA PositionsAre ==
    ASSUME NEW tlvs, NEW fields, NEW off, IsLaidOut(tlvs, fields, off)
    PROVE  LET n == Len(fields)
           IN  /\ n \in Nat /\ Len(tlvs) \in Nat /\ n <= Len(tlvs)
               /\ DOMAIN Positions(tlvs) = 0 .. Len(tlvs)
               /\ \A k \in 0 .. Len(tlvs) :
                      Positions(tlvs)[k] = off[IF k <= n THEN k ELSE n] + 1
<1> DEFINE n == Len(fields)
           L == Len(tlvs)
           at(k) == off[IF k <= n THEN k ELSE n] + 1
<1>1. /\ fields \in Seq(Seq(Bytes)) /\ n \in Nat
      /\ tlvs \in Seq(Bytes) /\ L = off[n] /\ L \in Nat
      /\ off[0] = 0 /\ \A k \in 0 .. n : off[k] \in Nat
  <2>1. fields \in Seq(Seq(Bytes)) /\ tlvs \in Seq(Bytes) /\ L = off[n]
    BY DEF IsLaidOut, IsTemplate, IsFlat
  <2>2. off \in [0 .. n -> Nat] /\ off[0] = 0
    BY DEF IsLaidOut, IsOffset
  <2>3. L \in Nat /\ n \in Nat
    BY <2>1
  <2> QED
    BY <2>1, <2>2, <2>3
<1>2. ASSUME NEW k \in 1 .. n
      PROVE  /\ off[k - 1] \in Nat /\ off[k] \in Nat /\ off[k] >= off[k - 1] + 2 /\ off[k] <= L
             /\ off[k] = off[k - 1] + 2 + tlvs[off[k - 1] + 1 + 1]
  <2> DEFINE f == fields[k]
             p == off[k - 1]
  <2>1. /\ Len(f) >= 2 /\ Len(f) = 2 + f[2] /\ f[2] \in Nat /\ p \in Nat /\ off[k] \in Nat
        /\ off[k] = p + Len(f) /\ off[k] <= L
        /\ \A j \in 1 .. Len(f) : tlvs[p + j] = f[j]
    <3>1. IsField(tlvs, f, off, k)
      BY FieldAt
    <3> QED
      BY <3>1 DEF IsField
  <2> HIDE DEF f, p
  <2>2. 2 \in 1 .. Len(f) /\ p + 2 = p + 1 + 1 /\ off[k] = p + 2 + f[2]
    BY <2>1
  <2>3. tlvs[p + 1 + 1] = f[2]
    BY <2>1, <2>2
  <2>4. off[k] >= p + 2
    BY <2>1
  <2> QED
    BY <2>1, <2>2, <2>3, <2>4 DEF p
<1> HIDE DEF n, L
<1>3. \A k \in 0 .. n : off[k] >= k
  <2> DEFINE T == {k \in 0 .. n : off[k] >= k}
  <2>1. 0 \in T
    BY <1>1
  <2>2. ASSUME NEW k \in 1 .. n, k - 1 \in T
        PROVE  k \in T
    <3>1. off[k - 1] >= k - 1
      BY <2>2
    <3>2. off[k - 1] \in Nat /\ off[k] \in Nat /\ off[k] >= off[k - 1] + 2
      BY <1>2
    <3>3. off[k] >= k
      BY <3>1, <3>2
    <3> QED
      BY <1>1, <3>3
  <2>3. T = 0 .. n
    <3>1. T \in SUBSET (0 .. n)
      OBVIOUS
    <3> HIDE DEF T
    <3> QED
      BY <1>1, <2>1, <2>2, <3>1, Induction
  <2> QED
    BY <2>3
<1>4. n <= L
  BY <1>1, <1>3
<1>5. at(0) = 1
  BY <1>1
<1>6. ASSUME NEW k \in 1 .. L
      PROVE  at(k) = Behind(tlvs, at(k - 1))
  <2>1. CASE k <= n
    <3>1. k \in 1 .. n /\ k - 1 <= n
      BY <1>1, <2>1
    <3>2. /\ off[k - 1] \in Nat /\ off[k] \in Nat /\ off[k] >= off[k - 1] + 2 /\ off[k] <= L
          /\ off[k] = off[k - 1] + 2 + tlvs[off[k - 1] + 1 + 1]
      BY <1>2, <3>1
    <3>3. at(k) = off[k] + 1 /\ at(k - 1) = off[k - 1] + 1
      BY <2>1, <3>1
    <3> DEFINE p == off[k - 1]
    <3>4. ~(p + 1 > L) /\ p \in Nat
      BY <1>1, <3>2
    <3>5. Behind(tlvs, p + 1) = p + 1 + 2 + tlvs[p + 1 + 1]
      BY <3>4 DEF Behind, L
    <3> DEFINE b == tlvs[p + 1 + 1]
    <3>6. b \in Int
      <4>1. p + 1 + 1 \in 1 .. L
        BY <1>1, <3>2, SMTT(30)
      <4>2. b \in Bytes
        BY <1>1, <4>1, ElementOfSeq DEF L
      <4>3. \A y \in Bytes : y \in Int
        BY DEF Bytes
      <4> QED
        BY <4>2, <4>3, Zenon
    <3>7. off[k] = p + 2 + b
      BY <3>2
    <3> HIDE DEF p, b
    <3>8. p + 2 + b + 1 = p + 1 + 2 + b
      BY <3>4, <3>6
    <3> QED
      BY <3>3, <3>5, <3>7, <3>8, Zenon DEF b, p
  <2>2. CASE ~(k <= n)
    <3>1. at(k) = off[n] + 1 /\ at(k - 1) = off[n] + 1
      <4>1. k - 1 <= n => k - 1 = n
        BY <1>1, <2>2
      <4> QED
        BY <2>2, <4>1
    <3>2. Behind(tlvs, L + 1) = L + 1
      <4>1. L + 1 > L
        BY <1>1
      <4> QED
        BY <4>1 DEF Behind, L
    <3> QED
      BY <1>1, <3>1, <3>2
  <2> QED
    BY <2>1, <2>2
<1> DEFINE Def(g) == g = [k \in 0 .. L |-> IF k = 0 THEN 1 ELSE Behind(tlvs, g[k - 1])]
           f == Positions(tlvs)
<1>7. Def(f)
  <2> DEFINE g == [k \in 0 .. L |-> at(k)]
  <2>1. \A k \in 0 .. L : g[k] = at(k)
    OBVIOUS
  <2> HIDE DEF at
  <2>2. \A k \in 0 .. L : at(k) = IF k = 0 THEN 1 ELSE Behind(tlvs, g[k - 1])
    <3> SUFFICES ASSUME NEW k \in 0 .. L, k # 0
                 PROVE  at(k) = Behind(tlvs, g[k - 1])
      BY <1>5
    <3>1. k \in 1 .. L /\ k - 1 \in 0 .. L
      BY <1>1
    <3>2. g[k - 1] = at(k - 1)
      BY <2>1, <3>1
    <3> QED
      BY <1>6, <3>1, <3>2
  <2>3. Def(g)
    <3>1. g = [k \in 0 .. L |-> IF k = 0 THEN 1 ELSE Behind(tlvs, g[k - 1])]
      BY <2>2
    <3> QED
      BY <3>1
  <2>4. f = CHOOSE h : Def(h)
    BY Zenon DEF Positions, L
  <2> HIDE DEF f, g, Def
  <2> QED
    BY <2>3, <2>4
<1> HIDE DEF f
<1>8. /\ DOMAIN f = 0 .. L /\ f[0] = 1
      /\ \A k \in 1 .. L : f[k] = Behind(tlvs, f[k - 1])
  <2>1. DOMAIN f = 0 .. L
    BY <1>7, Zenon
  <2>2. \A k \in 0 .. L : f[k] = IF k = 0 THEN 1 ELSE Behind(tlvs, f[k - 1])
    BY <1>7, Zenon
  <2>3. 0 \in 0 .. L /\ \A k \in 1 .. L : k \in 0 .. L /\ k # 0
    BY <1>1
  <2> HIDE DEF Def
  <2> QED
    BY <2>1, <2>2, <2>3
<1> DEFINE T == {k \in 0 .. L : f[k] = at(k)}
<1> HIDE DEF at, Def
<1>9. 0 \in T
  BY <1>1, <1>5, <1>8
<1>10. ASSUME NEW k \in 1 .. L, k - 1 \in T
       PROVE  k \in T
  <2>1. f[k - 1] = at(k - 1) /\ k \in 0 .. L
    BY <1>1, <1>10
  <2> QED
    BY <1>6, <1>8, <2>1
<1>11. T = 0 .. L
  <2>1. T \in SUBSET (0 .. L)
    OBVIOUS
  <2> HIDE DEF T
  <2> QED
    BY <1>1, <1>9, <1>10, <2>1, Induction
<1>12. \A k \in 0 .. L : f[k] = at(k)
  BY <1>11
<1> QED
  BY <1>1, <1>4, <1>8, <1>12 DEF at, f, n, L

\* The loop meets every field and nothing else.
LEMMA TaggedAre ==
    ASSUME NEW tlvs, NEW fields, NEW off, IsLaidOut(tlvs, fields, off), NEW tag
    PROVE  /\ Tagged(tlvs, tag) \in SUBSET (0 .. Len(tlvs))
           /\ \A i \in 1 .. Len(fields) : fields[i][1] = tag => off[i - 1] + 1 \in Tagged(tlvs, tag)
           /\ \A p \in Tagged(tlvs, tag) :
                  \E i \in 1 .. Len(fields) : p = off[i - 1] + 1 /\ fields[i][1] = tag
<1> DEFINE n == Len(fields)
           L == Len(tlvs)
           f == Positions(tlvs)
<1>1. /\ n \in Nat /\ L \in Nat /\ n <= L /\ DOMAIN f = 0 .. L
      /\ \A k \in 0 .. L : f[k] = off[IF k <= n THEN k ELSE n] + 1
  BY PositionsAre
<1>2. off \in [0 .. n -> Nat] /\ L = off[n]
  BY DEF IsLaidOut, IsOffset, IsFlat
<1>3. ASSUME NEW i \in 1 .. n
      PROVE  off[i - 1] \in Nat /\ off[i - 1] + 1 <= L /\ tlvs[off[i - 1] + 1] = fields[i][1]
  <2> DEFINE g == fields[i]
             p == off[i - 1]
  <2>1. /\ Len(g) \in Nat /\ Len(g) >= 2 /\ p \in Nat /\ off[i] \in Nat
        /\ off[i] = p + Len(g) /\ off[i] <= L
        /\ \A j \in 1 .. Len(g) : tlvs[p + j] = g[j]
    <3>1. IsField(tlvs, g, off, i)
      BY FieldAt
    <3> QED
      BY <3>1 DEF IsField
  <2> HIDE DEF g, p
  <2>2. 1 \in 1 .. Len(g) /\ p + 1 <= L
    BY <1>1, <2>1
  <2>3. tlvs[p + 1] = g[1]
    BY <2>1, <2>2, Zenon
  <2> QED
    BY <2>1, <2>2, <2>3 DEF p, g
<1>4. Tagged(tlvs, tag) = {p \in Range(f) : p <= L /\ tlvs[p] = tag}
  BY DEF Tagged
<1> HIDE DEF n, L, f
<1>5. ASSUME NEW i \in 1 .. n, fields[i][1] = tag
      PROVE  off[i - 1] + 1 \in Tagged(tlvs, tag)
  <2>1. i - 1 \in 0 .. L /\ i - 1 <= n
    BY <1>1
  <2>2. f[i - 1] = off[i - 1] + 1
    BY <1>1, <2>1
  <2>3. off[i - 1] + 1 \in Range(f)
    BY <1>1, <2>1, <2>2 DEF Range
  <2> QED
    BY <1>3, <1>4, <1>5, <2>3
<1>6. ASSUME NEW p \in Tagged(tlvs, tag)
      PROVE  p \in 0 .. L /\ \E i \in 1 .. n : p = off[i - 1] + 1 /\ fields[i][1] = tag
  <2>1. p \in Range(f) /\ p <= L /\ tlvs[p] = tag
    BY <1>4
  <2>2. PICK k \in 0 .. L : p = f[k]
    BY <1>1, <2>1 DEF Range
  <2>3. CASE k < n
    <3>1. k + 1 \in 1 .. n /\ k + 1 - 1 = k /\ k <= n /\ k \in 0 .. n
      BY <1>1, <2>3
    <3>2. PICK i \in 1 .. n : i - 1 = k
      BY <3>1
    <3>3. p = off[i - 1] + 1
      BY <1>1, <2>2, <3>1, <3>2
    <3>4. fields[i][1] = tag
      BY <1>3, <2>1, <3>3
    <3>5. p \in 0 .. L
      <4> DEFINE o == off[i - 1]
      <4>1. o \in Nat /\ o + 1 <= L /\ p = o + 1
        BY <1>3, <3>3
      <4> HIDE DEF o
      <4> QED
        BY <1>1, <4>1
    <3> QED
      BY <3>3, <3>4, <3>5
  <2>4. CASE ~(k < n)
    <3>1. p = off[n] + 1
      <4>1. k <= n => k = n
        BY <1>1, <2>4
      <4> QED
        BY <1>1, <2>2, <4>1
    <3> QED
      BY <1>1, <1>2, <2>1, <3>1
  <2> QED
    BY <2>3, <2>4
<1> QED
  BY <1>5, <1>6 DEF n, L

\* The fields with a tag.
WithTag(fields, tag) == {i \in 1 .. Len(fields) : fields[i][1] = tag}

\* The first and the last field with a tag are met first and last.
LEMMA FirstAndLast ==
    ASSUME NEW tlvs, NEW fields, NEW off, IsLaidOut(tlvs, fields, off), NEW tag
    PROVE  LET M == WithTag(fields, tag)
               F == Tagged(tlvs, tag)
           IN  /\ M = {} <=> F = {}
               /\ M # {} => /\ Min(M) \in M /\ Max(M) \in M
                            /\ Min(F) = off[Min(M) - 1] + 1
                            /\ Max(F) = off[Max(M) - 1] + 1
<1> DEFINE M == WithTag(fields, tag)
           n == Len(fields)
           F == Tagged(tlvs, tag)
           at(i) == off[i - 1] + 1
<1>1. /\ F \in SUBSET (0 .. Len(tlvs)) /\ \A i \in M : at(i) \in F
      /\ \A p \in F : \E i \in M : p = at(i)
  BY TaggedAre DEF WithTag
<1>2. fields \in Seq(Seq(Bytes)) /\ n \in Nat /\ Len(tlvs) \in Nat
  <2>1. fields \in Seq(Seq(Bytes)) /\ tlvs \in Seq(Bytes)
    BY DEF IsLaidOut, IsTemplate, IsFlat
  <2> QED
    BY <2>1
<1>3. ASSUME NEW i \in M, NEW j \in M, i <= j
      PROVE  at(i) <= at(j) /\ at(i) \in Nat /\ at(j) \in Nat
  <2>1. i - 1 \in 0 .. n /\ j - 1 \in 0 .. n /\ i - 1 <= j - 1
    BY <1>2, <1>3 DEF WithTag
  <2>2. IsOffset(off, fields)
    BY DEF IsLaidOut
  <2>3. off[i - 1] \in Nat /\ off[j - 1] \in Nat
    BY <2>1, <2>2 DEF IsOffset
  <2> DEFINE a == i - 1
             b == j - 1
  <2>4. off[a] <= off[b]
    <3> HIDE DEF a, b
    <3>1. a \in 0 .. n /\ b \in 0 .. n /\ a <= b
      BY <2>1 DEF a, b
    <3> QED
      BY <1>2, <2>2, <3>1, OffsetMonotone
  <2> QED
    BY <2>3, <2>4
<1>4. M \in SUBSET (0 .. n) /\ M \in SUBSET Nat
  BY <1>2 DEF WithTag
<1> HIDE DEF M, n, F, at
<1>5. M = {} <=> F = {}
  BY <1>1
<1>6. ASSUME M # {}
      PROVE  /\ Min(M) \in M /\ Max(M) \in M
             /\ Min(F) = at(Min(M)) /\ Max(F) = at(Max(M))
  <2>1. Min(M) \in M /\ \A m \in M : Min(M) <= m
    BY <1>4, <1>6, MinProperties
  <2>2. Max(M) \in M /\ \A m \in M : m <= Max(M)
    BY <1>2, <1>4, <1>6, MaxProperties
  <2>3. F # {} /\ F \in SUBSET Nat
    BY <1>1, <1>2, <1>5, <1>6
  <2>4. Min(F) \in F /\ \A p \in F : Min(F) <= p
    BY <2>3, MinProperties
  <2>5. Max(F) \in F /\ \A p \in F : p <= Max(F)
    BY <1>1, <1>2, <2>3, MaxProperties
  <2>6. PICK i \in M : Min(F) = at(i)
    BY <1>1, <2>4
  <2>7. PICK j \in M : Max(F) = at(j)
    BY <1>1, <2>5
  <2> DEFINE a == Min(M)
             b == Max(M)
  <2>8. a \in M /\ b \in M /\ a <= i /\ j <= b
    BY <2>1, <2>2
  <2> HIDE DEF a, b
  <2>9. at(a) <= at(i) /\ at(j) <= at(b) /\ at(a) \in Nat /\ at(i) \in Nat /\ at(b) \in Nat /\ at(j) \in Nat
    BY <1>3, <2>8
  <2>10. at(i) <= at(a) /\ at(b) <= at(j)
    BY <1>1, <2>4, <2>5, <2>6, <2>7, <2>8
  <2>11. at(i) = at(a) /\ at(j) = at(b)
    BY <2>9, <2>10
  <2> QED
    BY <2>1, <2>2, <2>6, <2>7, <2>11 DEF a, b
<1> QED
  BY <1>5, <1>6, Zenon DEF M, F, at

\* A size is found behind its tag and its length.
LEMMA SizeAt ==
    ASSUME NEW tlvs, NEW fields, NEW off, IsLaidOut(tlvs, fields, off), NEW i \in 1 .. Len(fields),
           fields[i][1] \in {SizeWithoutInfo, SizeWithInfo}, NEW p, p = off[i - 1] + 1
    PROVE  /\ Shift(0, SubSeq(tlvs, p + 2, p + 1 + tlvs[p + 1])) = TwoBytes(fields[i])
           /\ tlvs[p + 2] * 256 + tlvs[p + 3] = TwoBytes(fields[i])
<1> DEFINE f == fields[i]
           o == off[i - 1]
           L == Len(tlvs)
<1>1. /\ f \in Seq(Bytes) /\ Len(f) = 2 + f[2] /\ o \in Nat /\ off[i] \in Nat /\ off[i] = o + Len(f)
      /\ off[i] <= L /\ L \in Nat /\ \A j \in 1 .. Len(f) : tlvs[o + j] = f[j]
  <2>1. IsField(tlvs, f, off, i)
    BY FieldAt
  <2> QED
    BY <2>1 DEF IsField
<1>2. f[2] = 2 /\ tlvs \in Seq(Bytes)
  BY DEF IsLaidOut, IsTemplate, IsFlat
<1>3. p = o + 1
  OBVIOUS
<1> HIDE DEF f, o, L
<1>4. Len(f) = 4 /\ o + 4 <= L /\ p \in Nat
  BY <1>1, <1>2, <1>3
<1>5. tlvs[p + 1] = 2 /\ tlvs[p + 2] = f[3] /\ tlvs[p + 3] = f[4]
  <2>1. /\ p + 1 = o + 2 /\ p + 2 = o + 3 /\ p + 3 = o + 4
        /\ 2 \in 1 .. Len(f) /\ 3 \in 1 .. Len(f) /\ 4 \in 1 .. Len(f)
    BY <1>1, <1>3, <1>4, SMTT(30)
  <2> QED
    BY <1>1, <1>2, <2>1, Zenon
<1> DEFINE m == p + 2
           e == p + 3
           bytes == SubSeq(tlvs, m, e)
<1>6. /\ m \in Nat /\ e \in Nat /\ 1 <= m /\ m <= e + 1 /\ e <= Len(tlvs) /\ e - m + 1 = 2
      /\ 1 + m - 1 = p + 2 /\ 2 + m - 1 = p + 3 /\ p + 1 + 2 = e
  <2>1. p \in Nat /\ p + 3 = o + 4
    BY <1>1, <1>3, SMTT(30)
  <2>2. e <= Len(tlvs)
    BY <1>4, <2>1 DEF L
  <2>3. /\ m \in Nat /\ e \in Nat /\ 1 <= m /\ m <= e + 1 /\ e - m + 1 = 2
        /\ 1 + m - 1 = p + 2 /\ 2 + m - 1 = p + 3 /\ p + 1 + 2 = e
    BY <2>1, SMTT(30)
  <2> QED
    BY <2>2, <2>3, Zenon
<1> HIDE DEF m, e
<1>7. bytes \in Seq(Bytes) /\ Len(bytes) = 2 /\ bytes[1] = f[3] /\ bytes[2] = f[4]
  <2>1. /\ bytes \in Seq(Bytes) /\ Len(bytes) = e - m + 1
        /\ \A k \in 1 .. e - m + 1 : bytes[k] = tlvs[k + m - 1]
    BY <1>2, <1>6, PartOfSeq
  <2> HIDE DEF bytes
  <2>2. 1 \in 1 .. 2 /\ 2 \in 1 .. 2
    OBVIOUS
  <2> QED
    BY <1>5, <1>6, <2>1, <2>2, Zenon
<1> HIDE DEF bytes
<1>8. Shift(0, bytes) = bytes[1] * 256 + bytes[2]
  <2> DEFINE n == 2
             z == 0
  <2>1. n \in {2, 3} /\ Len(bytes) = n /\ z \in Int /\ n - 1 = 1
    BY <1>7
  <2> HIDE DEF n, z
  <2>2. Shift(z, bytes) = bytes[n - 1] * 256 + bytes[n]
    BY <1>7, <2>1, ShiftTwo
  <2> QED
    BY <2>1, <2>2 DEF n, z
<1>9. SubSeq(tlvs, p + 2, p + 1 + tlvs[p + 1]) = bytes
  BY <1>5, <1>6, Zenon DEF bytes, m
<1> QED
  BY <1>5, <1>7, <1>8, <1>9, Zenon DEF TwoBytes, f

\* The two walks return the first and the last size.
LEMMA WalksFind ==
    ASSUME NEW tlvs, NEW fields, NEW off, IsLaidOut(tlvs, fields, off), NEW size0
    PROVE  LET with(tag) == WithTag(fields, tag)
           IN  /\ getEFSize(tlvs) = IF with(SizeWithoutInfo) = {} THEN NotFound
                                    ELSE TwoBytes(fields[Min(with(SizeWithoutInfo))])
               /\ fcp_size(tlvs, size0) = IF with(SizeWithInfo) = {} THEN size0
                                          ELSE TwoBytes(fields[Max(with(SizeWithInfo))])
<1> DEFINE with(tag) == WithTag(fields, tag)
<1>1. getEFSize(tlvs) = IF with(SizeWithoutInfo) = {} THEN NotFound ELSE TwoBytes(fields[Min(with(SizeWithoutInfo))])
  <2> DEFINE M == with(SizeWithoutInfo)
             F == Tagged(tlvs, SizeWithoutInfo)
             p == Min(F)
  <2>1. /\ M = {} <=> F = {}
        /\ M # {} => Min(M) \in M /\ p = off[Min(M) - 1] + 1
    BY FirstAndLast
  <2>2. getEFSize(tlvs) = IF F = {} THEN NotFound ELSE Shift(0, SubSeq(tlvs, p + 2, p + 1 + tlvs[p + 1]))
    BY DEF getEFSize
  <2>3. ASSUME M # {}
        PROVE  Shift(0, SubSeq(tlvs, p + 2, p + 1 + tlvs[p + 1])) = TwoBytes(fields[Min(M)])
    <3> DEFINE i == Min(M)
    <3>1. i \in 1 .. Len(fields) /\ fields[i][1] \in {SizeWithoutInfo, SizeWithInfo} /\ p = off[i - 1] + 1
      BY <2>1, <2>3 DEF WithTag
    <3> HIDE DEF i, p
    <3> QED
      BY <3>1, SizeAt, SMTT(30) DEF i
  <2> HIDE DEF F, p, M
  <2> QED
    BY <2>1, <2>2, <2>3, Zenon DEF M
<1>2. fcp_size(tlvs, size0) = IF with(SizeWithInfo) = {} THEN size0 ELSE TwoBytes(fields[Max(with(SizeWithInfo))])
  <2> DEFINE M == with(SizeWithInfo)
             F == Tagged(tlvs, SizeWithInfo)
             p == Max(F)
  <2>1. /\ M = {} <=> F = {}
        /\ M # {} => Max(M) \in M /\ p = off[Max(M) - 1] + 1
    BY FirstAndLast
  <2>2. fcp_size(tlvs, size0) = IF F = {} THEN size0 ELSE tlvs[p + 2] * 256 + tlvs[p + 3]
    BY DEF fcp_size
  <2>3. ASSUME M # {}
        PROVE  tlvs[p + 2] * 256 + tlvs[p + 3] = TwoBytes(fields[Max(M)])
    <3> DEFINE i == Max(M)
    <3>1. i \in 1 .. Len(fields) /\ fields[i][1] \in {SizeWithoutInfo, SizeWithInfo} /\ p = off[i - 1] + 1
      BY <2>1, <2>3 DEF WithTag
    <3> HIDE DEF i, p
    <3> QED
      BY <3>1, SizeAt, SMTT(30) DEF i
  <2> HIDE DEF F, p, M
  <2> QED
    BY <2>1, <2>2, <2>3, Zenon DEF M
<1> QED
  BY <1>1, <1>2, Zenon

\* The sizes of files, whatever the template around them, and the lengths of
\* values in Lengths are those the card has encoded, whatever was in the
\* variables before.
THEOREM SizesDecodedHolds == Spec => []SizesDecoded
<1>1. InputInv => SizesDecoded
  <2> SUFFICES ASSUME InputInv
               PROVE  SizesDecoded
    OBVIOUS
  <2>1. Junk \subseteq Int
    BY JunkAssumption
  <2>2. ASSUME kind = "fcp"
        PROVE  LET tlvs    == FlattenSeq(input)
                   without == Fields(SizeWithoutInfo)
                   with    == Fields(SizeWithInfo)
               IN  /\ getEFSize(tlvs) = IF without = {} THEN NotFound ELSE TwoBytes(input[Min(without)])
                   /\ with # {} => \A size0 \in Junk : fcp_size(tlvs, size0) = TwoBytes(input[Max(with)])
    <3>1. input \in Seq(Alphabet["fcp"]) /\ "fcp" \in DOMAIN Alphabet
      BY <2>2 DEF InputInv
    <3>2. \A f \in Alphabet["fcp"] :
              /\ f \in Seq(Bytes)
              /\ Len(f) >= 2 /\ Len(f) = 2 + f[2]
              /\ f[1] \in {SizeWithoutInfo, SizeWithInfo} => f[2] = 2
      BY <3>1, TemplateAssumption DEF Bytes, SizeWithoutInfo, SizeWithInfo
    <3>3. input \in Seq(Seq(Bytes)) /\ \A i \in 1 .. Len(input) : input[i] \in Alphabet["fcp"]
      <4>1. \A i \in 1 .. Len(input) : input[i] \in Alphabet["fcp"]
        BY <3>1, ElementOfSeq
      <4>2. Alphabet["fcp"] \subseteq Seq(Bytes)
        BY <3>2
      <4> QED
        BY <3>1, <4>1, <4>2
    <3>4. IsTemplate(input)
      BY <3>2, <3>3, Zenon DEF IsTemplate
    <3>5. PICK off : IsOffset(off, input)
      BY <3>3, OffsetExists
    <3> DEFINE tlvs == FlattenSeq(input)
    <3>6. IsFlat(tlvs, Bytes, input, off)
      BY <3>3, <3>5, FlattenProperties
    <3>7. IsLaidOut(tlvs, input, off)
      BY <3>4, <3>5, <3>6 DEF IsLaidOut
    <3> HIDE DEF tlvs
    <3>8. \A size0 :
              /\ getEFSize(tlvs) = IF Fields(SizeWithoutInfo) = {} THEN NotFound
                                   ELSE TwoBytes(input[Min(Fields(SizeWithoutInfo))])
              /\ fcp_size(tlvs, size0) = IF Fields(SizeWithInfo) = {} THEN size0
                                         ELSE TwoBytes(input[Max(Fields(SizeWithInfo))])
      BY <3>7, WalksFind DEF Fields, WithTag
    <3> QED
      BY <3>8, Zenon DEF tlvs
  <2>3. ASSUME kind = "length", Len(input) = 2, NEW size0 \in Junk
        PROVE  \A l \in Lengths(input[1], input[2]) :
                   p11_value_size(l \o <<0, 0, 0, 0>>, size0) = [size |-> input[1] * 256 + input[2], skip |-> Len(l)]
    <3>1. input[1] \in Bytes /\ input[2] \in Bytes
      <4>1. input \in Seq(Alphabet["length"]) /\ Alphabet["length"] \subseteq Bytes
        BY <2>3, BytesAssumption DEF InputInv, Bytes
      <4>2. 1 \in 1 .. Len(input) /\ 2 \in 1 .. Len(input)
        BY <2>3
      <4> QED
        BY <4>1, <4>2, ElementOfSeq
    <3>2. size0 \in Int
      BY <2>1
    <3> DEFINE hi == input[1]
               lo == input[2]
    <3>3. hi \in Bytes /\ lo \in Bytes
      BY <3>1
    <3> HIDE DEF hi, lo
    <3>4. \A l \in Lengths(hi, lo) :
              p11_value_size(l \o <<0, 0, 0, 0>>, size0) = [size |-> hi * 256 + lo, skip |-> Len(l)]
      BY <3>2, <3>3, LengthsDecoded
    <3> QED
      BY <3>4, Zenon DEF hi, lo
  <2> QED
    BY <2>2, <2>3, Zenon DEF SizesDecoded
<1> QED
  BY <1>1, InputInvariant, PTL
=============================================================================
