-------------------------- MODULE ObjectReadProofs --------------------------
(***************************************************************************)
(* Proofs about ObjectRead, for every directory, every set of labels and   *)
(* every size of object and chunk, with and without short answers and      *)
(* losses.                                                                 *)
(***************************************************************************)
EXTENDS ObjectRead, SequenceTheorems, TLAPS

\* The types, with the bounds of the loop variables where they are used.
DataOK ==
    /\ op \in {"p11", "cert", "ef", "none"}
    /\ pc \in {"idle", "open", "dir", "probe", "value", "chunk"}
    /\ i \in Nat
    /\ files \in Seq(1 .. Len(Files))
    /\ j \in Nat \ {0}
    /\ filled \subseteq Bytes

FlagsOK == compressed \in BOOLEAN /\ buffer \in BOOLEAN /\ ret \in BOOLEAN /\ clean \in BOOLEAN

\* Which function is where, and with what it starts.
ControlInv ==
    /\ pc # "idle" => op # "none"
    /\ pc \in {"dir", "probe", "value"} => op = "p11"
    /\ pc = "chunk" => buffer
    /\ pc = "open" => i = 0 /\ files = <<>> /\ j = 1 /\ filled = {} /\ clean

\* The directory: no more entries than there are, and all of them in order if
\* none was lost.
DirInv ==
    /\ pc = "dir" => i <= Len(Files) /\ Len(files) <= i /\ j = 1 /\ filled = {}
    /\ pc = "dir" /\ clean => Len(files) = i
    /\ pc \in {"probe", "value"} => Len(files) <= Len(Files) /\ j <= Len(files) + 1 /\ filled = {}
    /\ pc \in {"probe", "value"} /\ clean => Len(files) = Len(Files)
    /\ pc \in {"dir", "probe", "value"} /\ clean => \A k \in 1 .. Len(files) : files[k] = k

\* The search: the file that is read is the one asked for, and no file before
\* it was if no attempt was lost.
SearchInv ==
    /\ pc \in {"value", "chunk"} /\ op = "p11" => j <= Len(files) /\ Files[files[j]] = label
    /\ pc \in {"probe", "value"} /\ clean => \A k \in 1 .. j - 1 : Files[k] # label

\* The chunks: up to the position, no byte is missing in readEF, nor in a call
\* none of whose exchanges went wrong.
ChunkInv ==
    /\ pc = "chunk" => i <= Size
    /\ pc = "chunk" /\ (op = "ef" \/ clean) => filled = 0 .. i - 1

\* The inductive invariant.
ReadInv ==
    /\ DataOK
    /\ FlagsOK
    /\ ControlInv
    /\ DirInv
    /\ SearchInv
    /\ ChunkInv
    /\ HolesOnlyByLoss
    /\ RightObject
    /\ CleanReadDecides

(* A chunk asks for at least one byte, and for none behind the end.        *)
LEMMA WantedBounds ==
    ASSUME i \in Nat, i < Size
    PROVE  Wanted \in Nat \ {0} /\ i + Wanted <= Size
  <1> USE SizesAssumption
  <1> DEFINE S == {Chunk, Size - i}
  <1>1. \E x \in S : \A y \in S : x <= y
    <2>1. CASE Chunk <= Size - i
      BY <2>1
    <2>2. CASE ~(Chunk <= Size - i)
      BY <2>2
    <2> QED BY <2>1, <2>2
  <1>2. Wanted \in S /\ \A y \in S : Wanted <= y
    <2> HIDE DEF S
    <2>1. Wanted = CHOOSE x \in S : \A y \in S : x <= y
      BY DEF Wanted, Min, S
    <2> QED BY <1>1, <2>1
  <1> QED BY <1>2

(* The initial states satisfy the invariant.                               *)
LEMMA InitReadInv == Init => ReadInv
  <1> SUFFICES ASSUME Init PROVE ReadInv
    OBVIOUS
  <1> USE DEF Init
  <1>1. DataOK
    BY EmptySeq DEF DataOK
  <1>2. FlagsOK
    BY Zenon DEF FlagsOK
  <1>3. ControlInv /\ DirInv /\ SearchInv /\ ChunkInv
    BY DEF ControlInv, DirInv, SearchInv, ChunkInv
  <1>4. HolesOnlyByLoss /\ RightObject /\ CleanReadDecides
    BY DEF HolesOnlyByLoss, RightObject, CleanReadDecides, True
  <1> QED BY <1>1, <1>2, <1>3, <1>4 DEF ReadInv

(* A call starts with nothing read.                                        *)
LEMMA CallStep ==
    ASSUME ReadInv, NEW o \in {"p11", "cert", "ef"}, NEW b \in BOOLEAN, NEW l \in Labels, Call(o, b, l)
    PROVE  ReadInv'
  <1> USE DEF ReadInv, Call
  <1>1. DataOK'
    BY DEF DataOK, Bytes
  <1>2. FlagsOK'
    BY DEF FlagsOK
  <1>3. ControlInv' /\ DirInv' /\ SearchInv' /\ ChunkInv'
    BY DEF ControlInv, DirInv, SearchInv, ChunkInv
  <1>4. HolesOnlyByLoss' /\ RightObject' /\ CleanReadDecides'
    BY DEF HolesOnlyByLoss, RightObject, CleanReadDecides, True
  <1> QED BY <1>1, <1>2, <1>3, <1>4

(* SELECT.                                                                 *)
LEMMA OpenStep == ASSUME ReadInv, Open PROVE ReadInv'
  <1> USE SizesAssumption, FilesAssumption DEF ReadInv, Open, Return
  <1>1. DataOK'
    BY DEF DataOK
  <1>2. FlagsOK'
    BY DEF FlagsOK
  <1>3. ControlInv' /\ DirInv' /\ SearchInv'
    <2>1. Len(<<>>) = 0 /\ Len(Files) \in Nat
      BY LenProperties
    <2>2. pc' = "dir" => i' = 0 /\ files' = <<>> /\ j' = 1 /\ filled' = {}
      BY DEF ControlInv
    <2>3. pc' \in {"dir", "chunk", "idle"} /\ (pc' = "chunk" => op # "p11" /\ buffer) /\ (pc' = "dir" => op = "p11")
      BY DEF ControlInv
    <2> QED BY <2>1, <2>2, <2>3 DEF ControlInv, DirInv, SearchInv
  <1>4. ChunkInv'
    <2>1. 0 .. 0 - 1 = {}
      OBVIOUS
    <2> QED BY <2>1 DEF ChunkInv, ControlInv, DataOK
  <1>5. HolesOnlyByLoss' /\ RightObject' /\ CleanReadDecides'
    BY DEF HolesOnlyByLoss, RightObject, CleanReadDecides, True, ControlInv, DataOK, FlagsOK
  <1> QED BY <1>1, <1>2, <1>3, <1>4, <1>5

(* A directory entry.                                                      *)
LEMMA ReadEntryStep == ASSUME ReadInv, ReadEntry PROVE ReadInv'
  <1> USE FilesAssumption DEF ReadInv, ReadEntry
  <1>1. /\ files' \in Seq(1 .. Len(Files))
        /\ \/ files' = files
           \/ /\ i < Len(Files) /\ i' = i + 1 /\ Len(files') = Len(files) + 1
              /\ \A k \in 1 .. Len(files') : files'[k] = IF k <= Len(files) THEN files[k] ELSE i + 1
    <2>1. CASE files' = files
      BY <2>1 DEF DataOK
    <2>2. CASE i < Len(Files) /\ i' = i + 1 /\ files' = Append(files, i + 1)
      <3>1. i + 1 \in 1 .. Len(Files)
        BY <2>2 DEF DataOK
      <3> QED BY <2>2, <3>1, AppendProperties, LenProperties DEF DataOK
    <2> QED BY <2>1, <2>2
  <1>2. DataOK'
    BY <1>1 DEF DataOK
  <1>3. FlagsOK'
    BY Zenon DEF FlagsOK
  <1>4. ControlInv'
    BY DEF ControlInv
  <1>5. DirInv'
    <2>1. CASE pc' = "dir"
      BY <1>1, <2>1, LenProperties DEF DirInv, DataOK, FlagsOK
    <2>2. CASE pc' = "probe"
      BY <2>2, LenProperties DEF DirInv, DataOK
    <2> QED BY <2>1, <2>2
  <1>6. SearchInv' /\ ChunkInv'
    BY DEF SearchInv, ChunkInv, DirInv, DataOK
  <1>7. HolesOnlyByLoss' /\ RightObject' /\ CleanReadDecides'
    BY DEF HolesOnlyByLoss, RightObject, CleanReadDecides, True
  <1> QED BY <1>2, <1>3, <1>4, <1>5, <1>6, <1>7

(* The label of a file.                                                    *)
LEMMA ProbeStep == ASSUME ReadInv, Probe PROVE ReadInv'
  <1> USE FilesAssumption DEF ReadInv, Probe, Return
  <1>1. DataOK'
    BY DEF DataOK
  <1>2. FlagsOK'
    BY Zenon DEF FlagsOK
  <1>3. ControlInv' /\ DirInv' /\ ChunkInv'
    BY DEF ControlInv, DirInv, ChunkInv, DataOK, FlagsOK
  <1>4. SearchInv'
    BY DEF SearchInv, DirInv, ControlInv, DataOK, FlagsOK
  <1>5. HolesOnlyByLoss' /\ RightObject'
    BY DEF HolesOnlyByLoss, RightObject, True
  <1>6. CleanReadDecides'
    <2> SUFFICES ASSUME j > Len(files), Return(FALSE), UNCHANGED <<op, label, clean>>, clean
                 PROVE  CleanReadDecides'
      BY DEF CleanReadDecides
    <2>1. \A k \in 1 .. Len(Files) : Files[k] # label
      BY DEF DirInv, SearchInv, DataOK
    <2>2. op = "p11"
      BY DEF ControlInv
    <2> QED BY <2>1, <2>2 DEF CleanReadDecides
  <1> QED BY <1>1, <1>2, <1>3, <1>4, <1>5, <1>6

(* The header of the value.                                                *)
LEMMA ValueHeaderStep == ASSUME ReadInv, ValueHeader PROVE ReadInv'
  <1> USE FilesAssumption, SizesAssumption DEF ReadInv, ValueHeader, Return
  <1>1. DataOK'
    BY DEF DataOK
  <1>2. FlagsOK'
    BY Zenon DEF FlagsOK
  <1>3. ControlInv' /\ DirInv'
    BY DEF ControlInv, DirInv, SearchInv, DataOK, FlagsOK
  <1>4. ChunkInv'
    <2>1. pc' = "chunk" => i' = 0 /\ filled' = {}
      BY DEF DirInv
    <2>2. i' = 0 => 0 .. i' - 1 = {} /\ i' <= Size
      OBVIOUS
    <2> QED BY <2>1, <2>2, Zenon DEF ChunkInv
  <1>5. SearchInv'
    BY DEF SearchInv, DirInv, ControlInv, DataOK, FlagsOK
  <1>6. HolesOnlyByLoss' /\ RightObject'
    BY DEF HolesOnlyByLoss, RightObject, True, SearchInv, ControlInv
  <1>7. CleanReadDecides'
    <2>1. j <= Len(files) => files[j] \in 1 .. Len(Files)
      BY DEF DataOK
    <2> QED BY <2>1 DEF CleanReadDecides, ControlInv, SearchInv, DataOK, FlagsOK
  <1> QED BY <1>1, <1>2, <1>3, <1>4, <1>5, <1>6, <1>7

(* A chunk.                                                                *)
LEMMA ReadChunkStep == ASSUME ReadInv, ReadChunk PROVE ReadInv'
  <1> USE FilesAssumption, SizesAssumption DEF ReadInv, Return
  <1>1. CASE i >= Size
    <2>1. PICK r \in EndResults : Return(r) /\ UNCHANGED <<i, filled, clean, compressed, op, buffer, label, files, j>>
      BY <1>1 DEF ReadChunk, DataOK
    <2>2. pc = "chunk" /\ i = Size
      BY <1>1 DEF ReadChunk, ChunkInv, DataOK
    <2>3. r \in BOOLEAN
      BY DEF EndResults, FlagsOK
    <2>4. DataOK' /\ FlagsOK'
      BY <2>1, <2>3 DEF DataOK, FlagsOK
    <2>5. ControlInv' /\ DirInv' /\ SearchInv' /\ ChunkInv'
      BY <2>1 DEF ControlInv, DirInv, SearchInv, ChunkInv
    <2>6. op = "ef" \/ clean => filled = Bytes /\ {0, 1} \subseteq filled
      BY <2>2 DEF ChunkInv, Bytes
    <2>7. HolesOnlyByLoss' /\ RightObject'
      BY <2>1, <2>2, <2>6 DEF HolesOnlyByLoss, RightObject, True, SearchInv, ControlInv, Bytes
    <2>8. CleanReadDecides'
      <3>1. op = "p11" => j <= Len(files) /\ files[j] \in 1 .. Len(Files) /\ Files[files[j]] = label
        BY <2>2 DEF DataOK, SearchInv
      <3>2. clean /\ op = "cert" => (r <=> ~compressed)
        BY <2>1, <2>6 DEF EndResults, FlagsOK
      <3>3. op # "cert" => r
        BY <2>1 DEF EndResults
      <3> QED BY <2>1, <2>2, <3>1, <3>2, <3>3 DEF CleanReadDecides, ControlInv, DataOK, FlagsOK
    <2> QED BY <2>4, <2>5, <2>7, <2>8
  <1>2. CASE i < Size
    <2> USE <1>2
    <2>1. i \in Nat /\ Size \in Nat /\ pc = "chunk" /\ Wanted \in Nat \ {0} /\ i + Wanted <= Size
      BY WantedBounds DEF DataOK, ReadChunk
    <2> HIDE DEF Wanted
    <2>2. ASSUME NEW k \in Answered, filled' = filled \cup i .. i + k - 1, i' = i + k,
                 UNCHANGED <<pc, ret, clean, compressed, op, buffer, label, files, j>>
          PROVE  ReadInv'
      <3>1. k \in Nat \ {0} /\ i + k <= Size
        BY <2>1 DEF Answered
      <3>2. DataOK'
        BY <2>1, <2>2, <3>1 DEF DataOK, Bytes
      <3>3. FlagsOK'
        BY <2>2 DEF FlagsOK
      <3>4. ControlInv' /\ DirInv' /\ SearchInv'
        BY <2>1, <2>2 DEF ControlInv, DirInv, SearchInv
      <3>5. ChunkInv'
        BY <2>1, <2>2, <3>1 DEF ChunkInv
      <3>6. HolesOnlyByLoss' /\ RightObject' /\ CleanReadDecides'
        BY <2>1, <2>2 DEF HolesOnlyByLoss, RightObject, CleanReadDecides, True
      <3> QED BY <3>2, <3>3, <3>4, <3>5, <3>6
    <2>3. ASSUME ChunkFails, clean' = FALSE, UNCHANGED <<filled, compressed, op, buffer, label, files, j>>
          PROVE  ReadInv'
      <3>1. DataOK'
        BY <2>1, <2>3 DEF DataOK, ChunkFails
      <3>2. FlagsOK'
        BY <2>3, Zenon DEF FlagsOK, ChunkFails
      <3>3. ControlInv' /\ DirInv' /\ SearchInv' /\ ChunkInv'
        BY <2>1, <2>3 DEF ControlInv, DirInv, SearchInv, ChunkInv, ChunkFails
      <3>4. HolesOnlyByLoss' /\ RightObject' /\ CleanReadDecides'
        BY <2>1, <2>3 DEF HolesOnlyByLoss, RightObject, CleanReadDecides, True, ChunkFails
      <3> QED BY <3>1, <3>2, <3>3, <3>4
    <2>4. \/ \E k \in Answered : filled' = filled \cup i .. i + k - 1 /\ i' = i + k /\ UNCHANGED <<pc, ret, clean>>
          \/ ChunkFails /\ clean' = FALSE /\ UNCHANGED filled
      <3>1. ~(i >= Size)
        BY <2>1
      <3> QED BY <3>1, Zenon DEF ReadChunk
    <2>5. UNCHANGED <<compressed, op, buffer, label, files, j>>
      BY DEF ReadChunk
    <2> QED BY <2>2, <2>3, <2>4, <2>5
  <1> QED BY <1>1, <1>2 DEF DataOK

(* The invariant holds in every reachable state.                           *)
THEOREM ReadInvariant == Spec => []ReadInv
  <1>1. ReadInv /\ [Next]_vars => ReadInv'
    <2> SUFFICES ASSUME ReadInv, [Next]_vars PROVE ReadInv'
      OBVIOUS
    <2>1. CASE UNCHANGED vars
      BY <2>1 DEF vars, ReadInv, DataOK, FlagsOK, ControlInv, DirInv, SearchInv, ChunkInv,
         HolesOnlyByLoss, RightObject, CleanReadDecides, True
    <2> QED BY <2>1, CallStep, OpenStep, ReadEntryStep, ProbeStep, ValueHeaderStep, ReadChunkStep
            DEF Next, Step
  <1> QED BY <1>1, InitReadInv, PTL DEF Spec

(* readEF never reports success over a hole, and the other two functions   *)
(* only if an exchange of the call went wrong.                             *)
THEOREM HolesOnlyByLossHolds == Spec => []HolesOnlyByLoss
  <1>1. ReadInv => HolesOnlyByLoss
    BY DEF ReadInv
  <1> QED BY <1>1, ReadInvariant, PTL

(* p11GetObjectByLabel reads the object it was asked for, whatever entries *)
(* and attempts were lost.                                                 *)
THEOREM RightObjectHolds == Spec => []RightObject
  <1>1. ReadInv => RightObject
    BY DEF ReadInv
  <1> QED BY <1>1, ReadInvariant, PTL

(* Without a loss, the result says whether the object is there and can be  *)
(* used.                                                                   *)
THEOREM CleanReadDecidesHolds == Spec => []CleanReadDecides
  <1>1. ReadInv => CleanReadDecides
    BY DEF ReadInv
  <1> QED BY <1>1, ReadInvariant, PTL
=============================================================================
