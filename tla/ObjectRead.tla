----------------------------- MODULE ObjectRead -----------------------------
(***************************************************************************)
(* How an object is read from the card, exchange by exchange:              *)
(* MIAS::p11GetObjectByLabel, the reading in                               *)
(* MIAS::getCertificateByContainerId and MF::readEF.  All three read a     *)
(* file in chunks; they differ in what they do when a chunk does not       *)
(* arrive.                                                                 *)
(*                                                                         *)
(* Exchanges in a row that all end the function (or the attempt on a file) *)
(* when they fail are one step.  The length of an object is taken as read  *)
(* from its header in two bytes, as for every object of 256 bytes or more. *)
(***************************************************************************)
EXTENDS Naturals, Sequences, FiniteSetsExt

CONSTANTS
    Files,         \* FILE_DIR: the label in each p11 data file, "other" if it is none
    Labels,        \* the labels asked for
    Size,          \* bytes of an object
    Chunk,         \* bytes of a chunk: 0xEE, and 255 in readEF
    ShortAnswers,  \* whether the card may answer with fewer bytes than asked for
    Losses         \* whether exchanges may be lost or refused

ASSUME SizesAssumption == Size \in Nat \ {0, 1} /\ Chunk \in Nat \ {0, 1}
ASSUME FilesAssumption == Files \in Seq(STRING) /\ "other" \notin Labels
ASSUME FlagsAssumption == {ShortAnswers, Losses} \subseteq BOOLEAN

VARIABLES
    compressed, \* the certificate on the card is a compressed one
    op,        \* the function: "p11", "cert", "ef"
    buffer,    \* whether it was given a buffer, or asked for the length only
    label,     \* the label asked for in p11GetObjectByLabel
    pc,
    i,         \* loop variable: directory entry, then byte of the object
    files,     \* _files: the directory entries that arrived
    j,         \* the entry of files being tried
    filled,    \* bytes of the caller's buffer that come from the card
    ret,       \* the result
    clean      \* history: no exchange went wrong

vars == <<compressed, op, buffer, label, pc, i, files, j, filled, ret, clean>>

Bytes == 0 .. Size - 1

Init ==
    /\ compressed \in BOOLEAN
    /\ op = "none"
    /\ buffer = FALSE
    /\ label \in Labels
    /\ pc = "idle"
    /\ i = 0
    /\ files = <<>>
    /\ j = 1
    /\ filled = {}
    /\ ret = FALSE
    /\ clean = TRUE

TypeOK ==
    /\ compressed \in BOOLEAN
    /\ op \in {"p11", "cert", "ef", "none"}
    /\ buffer \in BOOLEAN
    /\ label \in Labels
    /\ pc \in {"idle", "open", "dir", "probe", "value", "chunk"}
    /\ i \in 0 .. Max({Size, Len(Files)})
    /\ files \in Seq(1 .. Len(Files))
    /\ j \in 1 .. Len(Files) + 1
    /\ filled \subseteq Bytes
    /\ ret \in BOOLEAN /\ clean \in BOOLEAN

Call(o, b, l) ==
    /\ pc = "idle"
    /\ op' = o
    /\ buffer' = b
    /\ label' = l
    /\ pc' = "open"
    /\ i' = 0
    /\ files' = <<>>
    /\ j' = 1
    /\ filled' = {}
    /\ clean' = TRUE
    /\ UNCHANGED <<compressed, ret>>

Return(r) == pc' = "idle" /\ ret' = r

----------------------------------------------------------------------------
\* SELECT of the file and the size in its answer; for p11GetObjectByLabel,
\* SELECT of FILE_DIR and the number of its entries.
Open ==
    /\ pc = "open"
    /\ \/ /\ op = "p11" \/ buffer
          /\ pc' = IF op = "p11" THEN "dir" ELSE "chunk"
          /\ UNCHANGED <<ret, clean>>
       \/ /\ op # "p11" /\ ~buffer
          /\ Return(TRUE)
          /\ UNCHANGED clean
       \/ /\ Losses
          /\ Return(FALSE)
          /\ clean' = FALSE
    /\ UNCHANGED <<compressed, op, buffer, label, i, files, j, filled>>

\* READ BINARY of a directory entry: one that does not arrive is skipped.
ReadEntry ==
    /\ pc = "dir"
    /\ \/ /\ i = Len(Files)
          /\ pc' = "probe"
          /\ UNCHANGED <<i, files, clean>>
       \/ /\ i < Len(Files)
          /\ i' = i + 1
          /\ files' = Append(files, i + 1)
          /\ UNCHANGED <<pc, clean>>
       \/ /\ i < Len(Files) /\ Losses
          /\ i' = i + 1
          /\ clean' = FALSE
          /\ UNCHANGED <<pc, files>>
    /\ UNCHANGED <<compressed, op, buffer, label, j, filled, ret>>

\* Mutant: the label in the file is not compared.
ProbeAnyLabel ==
    /\ pc = "probe"
    /\ \/ j > Len(files) /\ Return(FALSE) /\ UNCHANGED <<j, clean>>
       \/ j <= Len(files) /\ Files[files[j]] = "other" /\ j' = j + 1 /\ UNCHANGED <<pc, ret, clean>>
       \/ j <= Len(files) /\ Files[files[j]] # "other" /\ pc' = "value" /\ UNCHANGED <<j, ret, clean>>
    /\ UNCHANGED <<compressed, op, buffer, label, i, files, filled>>

\* The next file: SELECT and the label in it, unless it is not a p11 data
\* file.  Whatever goes wrong, the next file is tried.
Probe ==
    /\ pc = "probe"
    /\ \/ /\ j > Len(files)
          /\ Return(FALSE)
          /\ UNCHANGED <<j, clean>>
       \/ /\ j <= Len(files) /\ Files[files[j]] # label
          /\ j' = j + 1
          /\ UNCHANGED <<pc, ret, clean>>
       \/ /\ j <= Len(files) /\ Files[files[j]] # "other" /\ Losses
          /\ j' = j + 1
          /\ clean' = FALSE
          /\ UNCHANGED <<pc, ret>>
       \/ /\ j <= Len(files) /\ Files[files[j]] = label
          /\ pc' = "value"
          /\ UNCHANGED <<j, ret, clean>>
    /\ UNCHANGED <<compressed, op, buffer, label, i, files, filled>>

\* CKA_APPLICATION and CKA_OBJECT_ID are skipped, the length of CKA_VALUE read.
ValueHeader ==
    /\ pc = "value"
    /\ \/ /\ buffer
          /\ pc' = "chunk"
          /\ i' = 0
          /\ UNCHANGED <<j, ret, clean>>
       \/ /\ ~buffer
          /\ Return(TRUE)
          /\ UNCHANGED <<i, j, clean>>
       \/ /\ Losses
          /\ pc' = "probe"
          /\ j' = j + 1
          /\ clean' = FALSE
          /\ UNCHANGED <<i, ret>>
    /\ UNCHANGED <<compressed, op, buffer, label, files, filled>>

\* Bytes asked for at position i.
Wanted == Min({Chunk, Size - i})

\* Bytes of a chunk that is answered 9000.
Answered == IF ShortAnswers THEN 1 .. Wanted ELSE {Wanted}

\* Mutants: readEF carries on after a chunk that did not arrive, as the other
\* two do; a chunk that did not arrive makes the reading start over.
ChunkFailsSkipped ==
    /\ i' = i + Wanted
    /\ UNCHANGED <<pc, ret>>

ChunkFailsRestarted ==
    i' = 0 /\ UNCHANGED <<pc, ret>>

\* A chunk is refused or lost: readEF fails, the others go on behind it.
ChunkFails ==
    \/ op = "ef" /\ Return(FALSE) /\ UNCHANGED i
    \/ op # "ef" /\ i' = i + Wanted /\ UNCHANGED <<pc, ret>>

\* Mutant: the test for compression is missing.
EndResultsUnchecked == {TRUE}

\* The result once all chunks have been asked for: a certificate whose first
\* two bytes say that it is compressed is an error.  Bytes that never arrived
\* are whatever the caller's buffer held.
EndResults ==
    IF op # "cert" THEN {TRUE}
    ELSE IF {0, 1} \subseteq filled THEN {~compressed} ELSE BOOLEAN

ReadChunk ==
    /\ pc = "chunk"
    /\ \/ /\ i >= Size
          /\ \E r \in EndResults : Return(r)
          /\ UNCHANGED <<i, filled, clean>>
       \/ /\ i < Size
          /\ \E k \in Answered :
               /\ filled' = filled \cup i .. i + k - 1
               /\ i' = i + k
          /\ UNCHANGED <<pc, ret, clean>>
       \/ /\ i < Size /\ Losses
          /\ ChunkFails
          /\ clean' = FALSE
          /\ UNCHANGED filled
    /\ UNCHANGED <<compressed, op, buffer, label, files, j>>

----------------------------------------------------------------------------
Step == Open \/ ReadEntry \/ Probe \/ ValueHeader \/ ReadChunk

Next == Step \/ \E o \in {"p11", "cert", "ef"}, b \in BOOLEAN, l \in Labels : Call(o, b, l)

Spec == Init /\ [][Next]_vars

\* The function runs on: transmit() returns, with an answer or an error.
FairSpec == Spec /\ WF_vars(Step)

----------------------------------------------------------------------------
(* Properties                                                              *)

\* The function has returned true.
True == pc = "idle" /\ op # "none" /\ ret

(* readEF never returns true with a hole in the data, and the other two do *)
(* so only if an exchange of the call went wrong; short answers alone lose *)
(* nothing.                                                                *)
HolesOnlyByLoss == True /\ buffer /\ filled # Bytes => op # "ef" /\ ~clean

(* p11GetObjectByLabel reads the object with the label it was given, even  *)
(* if directory entries or attempts on other files were lost.              *)
RightObject == True /\ op = "p11" => j <= Len(files) /\ Files[files[j]] = label

(* A call none of whose exchanges went wrong returns true if and only if   *)
(* the object exists and, if a certificate is read, it is not compressed.  *)
CleanReadDecides ==
    pc = "idle" /\ op # "none" /\ clean =>
        (ret <=> \/ op = "ef"
                 \/ op = "cert" /\ (buffer => ~compressed)
                 \/ op = "p11" /\ \E f \in 1 .. Len(Files) : Files[f] = label)

(* Every call returns, whatever is lost, as long as the card answers a     *)
(* READ BINARY it accepts with at least one byte.                          *)
ReadReturns == pc # "idle" ~> pc = "idle"

(* "Returns true in case operation was successful, false otherwise"        *)
(* (MIAS.h): the object in the buffer is the one on the card.              *)
TrueMeansRead == True /\ buffer => filled = Bytes
=============================================================================
