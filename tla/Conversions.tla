---------------------------- MODULE Conversions ----------------------------
(***************************************************************************)
(* The conversions between the card, the modem and the caller: Base64 and  *)
(* PEM, hexadecimal digits, the cropping of a certificate chain, the sizes *)
(* in a file's control parameters and in a PKCS#11 object, the trimming of *)
(* labels and the PIN blocks.  Each is an operator translated from the     *)
(* code, compared with a definition of what it is for on all inputs up to  *)
(* a length: a behaviour chooses a kind of input and makes it longer.      *)
(*                                                                         *)
(* Indices are those of TLA+ sequences, one more than in the code.  A      *)
(* Base64 character is its value, 0 .. 63; 64 is any other character.      *)
(***************************************************************************)
EXTENDS Integers, Sequences, SequencesExt, FiniteSetsExt

CONSTANTS
    Alphabet,     \* kind of input -> its elements
    MaxLen,       \* kind of input -> bound on its length
    Footer,       \* what ends a certificate in a chain
    Captions,     \* lengths of the captions of PEM texts
    Junk          \* values an uninitialised uint16_t may have

ASSUME KindsAssumption == DOMAIN Alphabet = DOMAIN MaxLen /\ \A k \in DOMAIN MaxLen : MaxLen[k] \in Nat
ASSUME FooterAssumption == Footer \in Seq(Range(Footer)) /\ Footer # <<>>
ASSUME CaptionsAssumption == Captions \subseteq Nat
ASSUME JunkAssumption == Junk \subseteq 0 .. 65535

\* Bytes are bytes, and characters of Base64 text are values or none.
ASSUME BytesAssumption == \A k \in DOMAIN Alphabet : k \in {"bytes", "length"} => Alphabet[k] \subseteq 0 .. 255
ASSUME TextAssumption == "text" \in DOMAIN Alphabet => Alphabet["text"] \subseteq 0 .. 64

\* A field of a template is a tag, the length of its value and the value; a
\* size has two bytes.
ASSUME TemplateAssumption ==
    "fcp" \in DOMAIN Alphabet =>
        \A f \in Alphabet["fcp"] :
            /\ f \in Seq(0 .. 255)
            /\ Len(f) >= 2 /\ Len(f) = 2 + f[2]
            /\ f[1] \in {128, 129} => f[2] = 2

VARIABLES kind, input

vars == <<kind, input>>

Init == kind \in DOMAIN Alphabet /\ input = <<>>

Longer ==
    /\ Len(input) < MaxLen[kind]
    /\ \E e \in Alphabet[kind] : input' = Append(input, e)
    /\ UNCHANGED kind

Spec == Init /\ [][Longer]_vars

----------------------------------------------------------------------------
(* Base64                                                                  *)

Other == 64

owl_base64encode_len(len) == ((len + 2) \div 3) * 4 + 1

\* The characters for three bytes.
EncodeGroup(a, b, c) ==
    <<a \div 4, (a % 4) * 16 + b \div 16, (b % 16) * 4 + c \div 64, c % 64>>

\* Mutant: one byte less counts as left over.
owl_base64encode_tail(s) ==
    LET groups == Len(s) \div 3
        rest   == SubSeq(s, groups * 3 + 1, Len(s))
    IN  FlattenSeq([g \in 1 .. groups |-> EncodeGroup(s[3*g - 2], s[3*g - 1], s[3*g])])
        \o IF rest = <<>> THEN <<>> ELSE <<rest[1] \div 4, (rest[1] % 4) * 16, Other, Other>>

\* owl_base64encode without the NUL at the end.
owl_base64encode(s) ==
    LET groups == Len(s) \div 3
        rest   == SubSeq(s, groups * 3 + 1, Len(s))
    IN  FlattenSeq([g \in 1 .. groups |-> EncodeGroup(s[3*g - 2], s[3*g - 1], s[3*g])])
        \o CASE Len(rest) = 0 -> <<>>
             [] Len(rest) = 1 -> <<rest[1] \div 4, (rest[1] % 4) * 16, Other, Other>>
             [] Len(rest) = 2 -> <<rest[1] \div 4, (rest[1] % 4) * 16 + rest[2] \div 16,
                                   (rest[2] % 16) * 4, Other>>

\* How many characters there are before the first that is none.
Characters(t) == SelectInSeq(Append(t, Other), LAMBDA c : c = Other) - 1

owl_base64decode_len(t) == ((Characters(t) + 3) \div 4) * 3

\* The bytes for a group of characters: none for one, one for two, ...
DecodeGroup(g) ==
    LET bytes == <<g[1] * 4 + g[2] \div 16, g[2] * 16 + g[3] \div 4, g[3] * 64 + g[4]>>
        n     == SelectInSeq(g, LAMBDA c : c = Other)
        whole == IF n = 0 THEN 3 ELSE IF n <= 2 THEN 0 ELSE n - 2
    IN  [i \in 1 .. whole |-> bytes[i] % 256]

owl_base64decode(t) ==
    LET n      == Characters(t)
        groups == (n + 3) \div 4
        At(i)  == IF i <= n THEN t[i] ELSE Other
    IN  FlattenSeq([g \in 1 .. groups |-> DecodeGroup([k \in 1 .. 4 |-> At(4*g - 4 + k)])])

\* What owl_base64decode returns.
DecodedLen(t) ==
    LET n    == Characters(t)
        left == IF n = 0 THEN 0 ELSE ((n - 1) % 4) + 1     \* nprbytes behind the loop
    IN  owl_base64decode_len(t) - ((4 - left) % 4)

----------------------------------------------------------------------------
(* PEM                                                                     *)

Chars(n) == [i \in 1 .. n |-> Other]

\* Mutant: the caption is counted once.
der_to_pem_len_once(derLen, caption) ==
    11 + caption + 6 + owl_base64encode_len(derLen) + 9 + 5

der_to_pem_len(derLen, caption) ==
    11 + caption + 6 + owl_base64encode_len(derLen) + 9 + caption + 5

\* convert_der_to_pem: the text, whose letters outside of the content do not
\* matter.  The NUL behind the content is overwritten by the line feed.
convert_der_to_pem(der, caption) ==
    Chars(11) \o Chars(caption) \o Chars(6)
    \o owl_base64encode(der)
    \o Chars(10) \o Chars(caption) \o Chars(5)

----------------------------------------------------------------------------
(* The first certificate of a chain                                        *)

\* Mutant: a mismatch does not start the footer afresh.
MatchSticky(ind, c) ==
    IF ind = Len(Footer) \/ c # Footer[ind + 1] THEN ind ELSE ind + 1

\* footer_ind after character c: the search ends when the footer is complete.
Match(ind, c) ==
    IF ind = Len(Footer) THEN ind
    ELSE IF c = Footer[ind + 1] THEN ind + 1 ELSE 0

\* footer_ind after each character.
FooterInd(pem) ==
    LET ind[i \in 0 .. Len(pem)] == IF i = 0 THEN 0 ELSE Match(ind[i - 1], pem[i])
    IN  ind

crop_pem_chain(pem) ==
    LET ind == FooterInd(pem)
        ends == {i \in 1 .. Len(pem) : ind[i] = Len(Footer)}
    IN  IF ends = {} THEN Len(pem) ELSE Min(ends)

----------------------------------------------------------------------------
(* Hexadecimal digits                                                      *)

bytesArray2HexString(bytes) ==
    FlattenSeq([i \in 1 .. Len(bytes) |-> <<(bytes[i] \div 16) % 16, bytes[i] % 16>>])

\* Of an even number of digits, as there are in a +CSIM line.
hexString2BytesArray(hex) ==
    [i \in 1 .. Len(hex) \div 2 |-> hex[2*i - 1] * 16 + hex[2*i]]

\* The SDK has its own copy, for the names of EFs.
hex_string_2_bytes_array(hex) == hexString2BytesArray(hex)

----------------------------------------------------------------------------
(* Sizes                                                                   *)

SizeWithoutInfo == 128     \* FCPFileSizeWithoutInfo
SizeWithInfo    == 129     \* FCPFileSizeWithInfo

Shifted(size, b) == (size * 256 + b) % 65536

\* Bytes shifted one by one into a size.
Shift(size0, bytes) ==
    LET size[k \in 0 .. Len(bytes)] == IF k = 0 THEN size0 ELSE Shifted(size[k - 1], bytes[k])
    IN  size[Len(bytes)]

NotFound == -1

\* A turn of the loop through the fields of a template.
Behind(tlvs, p) == IF p > Len(tlvs) THEN p ELSE p + 2 + tlvs[p + 1]

\* Where the loop stands after each turn.
Positions(tlvs) ==
    LET at[k \in 0 .. Len(tlvs)] == IF k = 0 THEN 1 ELSE Behind(tlvs, at[k - 1])
    IN  at

\* The fields with a tag that it meets.
Tagged(tlvs, tag) == {p \in Range(Positions(tlvs)) : p <= Len(tlvs) /\ tlvs[p] = tag}

\* MF's getEFSize on the template after its tag and length: the first size.
getEFSize(tlvs) ==
    LET found == Tagged(tlvs, SizeWithoutInfo)
        p     == Min(found)
    IN  IF found = {} THEN NotFound ELSE Shift(0, SubSeq(tlvs, p + 2, p + 1 + tlvs[p + 1]))

\* MIAS's walk through the template: the last size, or what its variable
\* held before.
fcp_size(tlvs, size0) ==
    LET found == Tagged(tlvs, SizeWithInfo)
        p     == Max(found)
    IN  IF found = {} THEN size0 ELSE tlvs[p + 2] * 256 + tlvs[p + 3]

\* Mutant: the bytes of the length are not stepped over.
p11_value_size_at_once(record, size0) ==
    IF record[1] < 128 THEN [size |-> record[1], skip |-> 1]
    ELSE LET n == record[1] % 16
         IN  [size |-> Shift(size0, SubSeq(record, 2, n + 1)), skip |-> 1]

\* The length of CKA_VALUE in p11GetObjectByLabel and how far behind its
\* first byte the value begins; size0 is what size held before.
p11_value_size(record, size0) ==
    IF record[1] < 128 THEN [size |-> record[1], skip |-> 1]
    ELSE LET n == record[1] % 16
         IN  [size |-> Shift(size0, SubSeq(record, 2, n + 1)), skip |-> n + 1]

----------------------------------------------------------------------------
(* Labels and PINs                                                         *)

Space == " "

\* Mutant: the position of the last character is taken for the length.
trimLenShort(record) == SelectLastInSeq(record, LAMBDA c : c # Space) - 1

\* trimLen of a record that is not all spaces.
trimLen(record) == SelectLastInSeq(record, LAMBDA c : c # Space)

LabelMatches(label, record) ==
    /\ Len(label) = trimLen(record)
    /\ IsPrefix(label, record)

\* memcpy(&block[at], from, Len(from)) with at counted from 0.
Copied(block, at, from) ==
    [i \in DOMAIN block |-> IF i - at \in DOMAIN from THEN from[i - at] ELSE block[i]]

Pad == 255

\* Mutant: the new PIN goes behind the old one.
mf_change_pin_packed(old, new) == Copied(Copied([i \in 1 .. 16 |-> Pad], 0, old), Len(old), new)

\* Nothing is sent.
Refused == <<>>

mf_verify_pin(pin) == IF Len(pin) > 8 THEN Refused ELSE Copied([i \in 1 .. 8 |-> Pad], 0, pin)

mf_change_pin(old, new) ==
    IF Len(old) > 8 \/ Len(new) > 8 THEN Refused
    ELSE Copied(Copied([i \in 1 .. 16 |-> Pad], 0, old), 8, new)

----------------------------------------------------------------------------
(* Properties                                                              *)

\* Bit k of a byte string, from 0, the most significant first; 0 behind it.
Bit(s, k) ==
    LET weight == <<128, 64, 32, 16, 8, 4, 2, 1>>
    IN  IF k \div 8 < Len(s) THEN (s[k \div 8 + 1] \div weight[(k % 8) + 1]) % 2 ELSE 0

\* Six bits of a byte string as a number.
SixBits(s, j) ==
    LET B(k) == Bit(s, 6 * j + k)
    IN  32 * B(0) + 16 * B(1) + 8 * B(2) + 4 * B(3) + 2 * B(4) + B(5)

(* Base64 and hexadecimal give back what they were given: owl_base64encode *)
(* writes the bit string six bits a character, padded to fours, in one     *)
(* byte less than owl_base64encode_len says; decoding it, and the digits   *)
(* AT+CSIM is sent with, returns the bytes.  Of any other text, truncated  *)
(* or with a character too many, owl_base64decode returns the number of    *)
(* bytes it has written, no more than owl_base64decode_len has promised.   *)
RoundTrips ==
    /\ kind = "bytes" =>
        LET text == owl_base64encode(input)
            bits == (8 * Len(input) + 5) \div 6
        IN  /\ Len(text) = owl_base64encode_len(Len(input)) - 1
            /\ \A j \in 1 .. Len(text) : text[j] = IF j <= bits THEN SixBits(input, j - 1) ELSE Other
            /\ owl_base64decode(text) = input
            /\ hexString2BytesArray(bytesArray2HexString(input)) = input
            /\ hex_string_2_bytes_array(bytesArray2HexString(input)) = input
    /\ kind = "text" =>
        /\ DecodedLen(input) = Len(owl_base64decode(input))
        /\ DecodedLen(input) <= owl_base64decode_len(input)

(* The buffer a caller allocates after asking for the size is filled to    *)
(* the last byte: convert_der_to_pem writes as much as der_to_pem_len      *)
(* says, the NUL of owl_base64encode included, and the content of the text *)
(* is the DER.                                                             *)
PemFits ==
    kind = "bytes" =>
        \A caption \in Captions :
            LET pem   == convert_der_to_pem(input, caption)
                start == 11 + caption + 6
            IN  /\ Len(pem) = der_to_pem_len(Len(input), caption)
                /\ start + owl_base64encode_len(Len(input)) <= Len(pem)
                /\ owl_base64decode(SubSeq(pem, start + 1, Len(pem))) = input

Footers(pem) ==
    {i \in 1 .. Len(pem) - Len(Footer) + 1 : SubSeq(pem, i, i + Len(Footer) - 1) = Footer}

(* crop_pem_chain cuts behind the first certificate of a chain, although   *)
(* its search never steps back: it finds every footer that starts a line   *)
(* (no character of the footer is before it), and what it takes for a      *)
(* footer is one.                                                          *)
CropIsFirst ==
    kind = "chain" =>
        LET starts   == Footers(input)
            starting == {i \in starts : i = 1 \/ input[i - 1] \notin Range(Footer)}
            crop     == crop_pem_chain(input)
        IN  /\ crop = Len(input) \/ crop - Len(Footer) + 1 \in starts
            /\ starting # {} => crop <= Min(starting) + Len(Footer) - 1

\* The fields of a template are kept as such in the input of kind "fcp".
Fields(tag) == {i \in 1 .. Len(input) : input[i][1] = tag}
TwoBytes(f) == f[3] * 256 + f[4]

\* The positions in a template are bytes; one that is longer does not occur.
MaxTemplate == 253

\* The encodings of a length of two bytes, but for the one in a single byte
\* behind the first (0x81), of which the code gets only the low byte right.
Lengths(hi, lo) ==
    {<<130, hi, lo>>, <<131, 0, hi, lo>>} \cup (IF hi = 0 /\ lo < 128 THEN {<<lo>>} ELSE {})

(* Sizes are what the card says.  The two walks through a file's control   *)
(* parameters find the size whatever other fields come before, between and *)
(* behind, whatever bytes are in them and whatever the variable held       *)
(* before; getEFSize also sees that there is none.  p11GetObjectByLabel    *)
(* computes the length of a value that is encoded in one byte, or in two   *)
(* or more behind the first, whatever size held before, and finds where    *)
(* the value begins.                                                       *)
SizesDecoded ==
    /\ kind = "fcp" =>
        LET tlvs    == FlattenSeq(input)
            without == Fields(SizeWithoutInfo)
            with    == Fields(SizeWithInfo)
        IN  Len(tlvs) <= MaxTemplate =>
            /\ getEFSize(tlvs) = IF without = {} THEN NotFound ELSE TwoBytes(input[Min(without)])
            /\ with # {} => \A size0 \in Junk : fcp_size(tlvs, size0) = TwoBytes(input[Max(with)])
    /\ kind = "length" /\ Len(input) = 2 =>
        \A size0 \in Junk : \A l \in Lengths(input[1], input[2]) :
            p11_value_size(l \o <<0, 0, 0, 0>>, size0) = [size |-> input[1] * 256 + input[2], skip |-> Len(l)]

(* A label is found in a record exactly when the record is the label and   *)
(* spaces behind it; a label that is a part of another is never mistaken   *)
(* for it.  Records that are all spaces are left out.                      *)
LabelIsWhole ==
    kind = "label" /\ (\E i \in DOMAIN input : input[i] # Space) =>
        \A n \in 0 .. Len(input) :
            LabelMatches(SubSeq(input, 1, n), input)
                <=> /\ n > 0 /\ input[n] # Space
                    /\ \A i \in n + 1 .. Len(input) : input[i] = Space

(* MF::changePin sends the old and the new PIN each in a block of its own, *)
(* padded as verifyPin pads it, so that what the card compares and stores  *)
(* is what verifyPin will send; it refuses a PIN that is too long.         *)
PinBlocks ==
    kind = "pins" =>
        \A n \in 1 .. Len(input) - 1 :
            LET old == SubSeq(input, 1, n)
                new == SubSeq(input, n + 1, Len(input))
            IN  mf_change_pin(old, new) = IF n > 8 \/ Len(input) - n > 8 THEN Refused
                                          ELSE mf_verify_pin(old) \o mf_verify_pin(new)
=============================================================================
