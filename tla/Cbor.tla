--------------------------------- MODULE Cbor ---------------------------------
(***************************************************************************)
(* The CBOR codec (go/internal/cbor): Encoder, which appends to the octets *)
(* it has written, and Decoder, which takes octets from the front of what  *)
(* is left to read.  Octets are the numbers 0..255.  A uint64 is the       *)
(* sequence of its eight octets, the most significant one first, so that   *)
(* all of its 64 bits are there.                                           *)
(***************************************************************************)
EXTENDS Results, Integers, Sequences, SequencesExt

PosInt == 0
NegInt == 1
Bytes == 2
Text == 3
Array == 4
Map == 5
Tag == 6
Other == 7

Octet == 0..255
Uint64 == [1..8 -> Octet]

Zeros(n, k) == \A i \in 1..k : n[i] = 0

(* A number below 2^24, and a string of at most eight octets, as uint64. *)
Uint(m) == <<0, 0, 0, 0, 0, m \div 65536, (m \div 256) % 256, m % 256>>
Widen(bs) == [i \in 1..8 |-> IF i <= 8 - Len(bs) THEN 0 ELSE bs[i - (8 - Len(bs))]]

(* int(n) and int64(n): from 2^63 on they are negative.  Numbers of this   *)
(* size or more, either way, stand for themselves as -Huge and Huge: no    *)
(* input is as long.                                                       *)
Huge == 16777216
Magnitude(n) == IF Zeros(n, 5) THEN (n[6] * 256 + n[7]) * 256 + n[8] ELSE Huge
Complement(n) == [i \in 1..8 |-> 255 - n[i]]
Int64(n) == IF n[1] < 128 THEN Magnitude(n) ELSE -(Magnitude(Complement(n)) + 1)

(* n * 2, in 64 bits. *)
Double(n) ==
  [i \in 1..8 |-> (2 * n[i] + (IF i < 8 THEN n[i + 1] \div 128 ELSE 0)) % 256]

(* bytes.Compare(a, b) < 0 *)
Before(a, b) ==
  \/ IsStrictPrefix(a, b)
  \/ \E i \in DOMAIN a \cap DOMAIN b :
       a[i] < b[i] /\ \A j \in 1..(i - 1) : a[j] = b[j]

-----------------------------------------------------------------------------
(* utf8.Valid *)

Continues(o) == o \in 128..191

(* The octets that may follow a first octet, and how many do. *)
Followers(o) ==
  CASE o < 128 -> 0
    [] o \in 194..223 -> 1
    [] o \in 224..239 -> 2
    [] o \in 240..244 -> 3
    [] OTHER -> -1

Second(o) ==
  CASE o = 224 -> 160..191
    [] o = 237 -> 128..159
    [] o = 240 -> 144..191
    [] o = 244 -> 128..143
    [] OTHER -> 128..191

IsUtf8(bs) ==
  \A i \in DOMAIN bs :
    IF Continues(bs[i])
    THEN \E j \in 1..3 : i > j /\ Followers(bs[i - j]) >= j
                           /\ \A k \in 1..(j - 1) : Continues(bs[i - k])
    ELSE /\ Followers(bs[i]) >= 0
         /\ i + Followers(bs[i]) <= Len(bs)
         /\ \A j \in 1..Followers(bs[i]) : Continues(bs[i + j])
         /\ Followers(bs[i]) > 0 => bs[i + 1] \in Second(bs[i])

-----------------------------------------------------------------------------
(* Encoder *)

(* How many octets follow the first one of a head. *)
NumFollowing(n) ==
  IF Zeros(n, 7) /\ n[8] < 24 THEN 0
  ELSE IF Zeros(n, 7) THEN 1
  ELSE IF Zeros(n, 6) THEN 2
  ELSE IF Zeros(n, 4) THEN 4
  ELSE 8

AdditionalInfo(n) ==
  IF Zeros(n, 7) /\ n[8] < 24 THEN n[8]
  ELSE IF Zeros(n, 7) THEN 24
  ELSE IF Zeros(n, 6) THEN 25
  ELSE IF Zeros(n, 4) THEN 26
  ELSE 27

(* Mutant of EncodeTypedUint: 24 is still put into the first octet. *)
EncodeTypedUintUpTo24(t, n) ==
  IF n = Uint(24) THEN <<32 * t + 24>>
  ELSE <<32 * t + AdditionalInfo(n)>> \o SubSeq(n, 9 - NumFollowing(n), 8)

EncodeTypedUint(t, n) ==
  <<32 * t + AdditionalInfo(n)>> \o SubSeq(n, 9 - NumFollowing(n), 8)

EncodeUint(n) == EncodeTypedUint(PosInt, n)

(* n has the bits of an int64; -n - 1 is its complement. *)
EncodeInt(n) ==
  IF n[1] < 128 THEN EncodeTypedUint(PosInt, n) ELSE EncodeTypedUint(NegInt, Complement(n))

EncodeBytes(t, bs) == EncodeTypedUint(t, Uint(Len(bs))) \o bs
EncodeByteString(bs) == EncodeBytes(Bytes, bs)
CanEncodeText(bs) == IsUtf8(bs)
EncodeTextString(bs) == EncodeBytes(Text, bs)
EncodeArrayHeader(n) == EncodeTypedUint(Array, Uint(n))
EncodeBool(b) == <<32 * Other + (IF b THEN 21 ELSE 20)>>

(* The entries of a map, [key, value], in the order of their keys. *)
Sorted(entries) == SortSeq(entries, LAMBDA e, f : Before(e.key, f.key))

(* EncodeMap: the header and the entries before a repeated key have been   *)
(* written when it is found.                                               *)
EncodeMap(entries) ==
  LET sorted == Sorted(entries)
      repeats == {i \in 2..Len(sorted) : sorted[i].key = sorted[i - 1].key}
      end == IF repeats = {} THEN Len(sorted)
             ELSE (CHOOSE i \in repeats : \A j \in repeats : i <= j) - 1
  IN [ok |-> repeats = {},
      out |-> EncodeTypedUint(Map, Uint(Len(entries)))
                \o FlattenSeq([i \in 1..end |-> sorted[i].key \o sorted[i].value])]

-----------------------------------------------------------------------------
(* Decoder: in is what is left to read, and rest what is left after it. *)

MajorType(o) == o \div 32
Info(o) == o % 32
FollowingOf(info) == IF info \in 24..27 THEN <<1, 2, 4, 8>>[info - 23] ELSE 0

(* decodeTypedUint: 28 to 31 are taken for the number itself. *)
DecodeTypedUint(in) ==
  LET k == FollowingOf(Info(in[1]))
  IN IF in = <<>> \/ Len(in) < 1 + k THEN Error
     ELSE Ok([type |-> MajorType(in[1]),
              n |-> IF k = 0 THEN Uint(Info(in[1])) ELSE Widen(SubSeq(in, 2, 1 + k))],
             SubSeq(in, 2 + k, Len(in)))

DecodeOfType(t, in) ==
  Then(DecodeTypedUint(in),
       LAMBDA head, rest : IF head.type = t THEN Ok(head.n, rest) ELSE Error)

DecodeUint(in) == DecodeOfType(PosInt, in)
DecodeArrayHeader(in) == DecodeOfType(Array, in)
DecodeMapHeader(in) == DecodeOfType(Map, in)

(* Mutant of CopyN: what there is of the octets will do. *)
CopyUpToN(in, n) ==
  IF n <= 0 THEN Ok(<<>>, in)
  ELSE IF n > Len(in) THEN Ok(in, <<>>)
  ELSE Ok(SubSeq(in, 1, n), SubSeq(in, n + 1, Len(in)))

(* io.CopyN: a negative number of octets is none. *)
CopyN(in, n) ==
  IF n <= 0 THEN Ok(<<>>, in)
  ELSE IF n > Len(in) THEN Error
  ELSE Ok(SubSeq(in, 1, n), SubSeq(in, n + 1, Len(in)))

DecodeBytesOfType(t, in) ==
  Then(DecodeOfType(t, in), LAMBDA n, rest : CopyN(rest, Int64(n)))

DecodeByteString(in) == DecodeBytesOfType(Bytes, in)

DecodeTextString(in) ==
  Then(DecodeBytesOfType(Text, in),
       LAMBDA text, rest : IF IsUtf8(text) THEN Ok(text, rest) ELSE Error)
=============================================================================
