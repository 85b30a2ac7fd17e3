------------------------------ MODULE BundleProofs ------------------------------
(***************************************************************************)
(* Proofs about bundles and the CBOR that they are made of.  The heads and *)
(* the byte strings of the codec are read back for every number of 64 bits,*)
(* every major type and whatever octets follow.  A bundle of any exchanges *)
(* that is written, to a writer that may fail at any octet, is read back,  *)
(* as far as it has been written.                                          *)
(***************************************************************************)
EXTENDS BundleRoundTrip, Cbor, InductionProofs, FiniteSetTheorems

-----------------------------------------------------------------------------
(* The CBOR codec                                                          *)

Types == 0..7

(* The additional information of a head tells how many octets follow its   *)
(* first one.                                                              *)
LEMMA FollowingIsKnown ==
  ASSUME NEW n \in Uint64
  PROVE  /\ NumFollowing(n) \in {0, 1, 2, 4, 8}
         /\ AdditionalInfo(n) \in 0..27
         /\ FollowingOf(AdditionalInfo(n)) = NumFollowing(n)
         /\ NumFollowing(n) = 0 => AdditionalInfo(n) = n[8]
<1>1. \A i \in 1..8 : n[i] \in 0..255
  BY DEF Uint64, Octet
<1>2. QED
  BY <1>1 DEF NumFollowing, AdditionalInfo, FollowingOf

(* The octets that are not written are zeros. *)
LEMMA OmittedAreZeros ==
  ASSUME NEW n \in Uint64, NEW i \in 1..(8 - NumFollowing(n)), NumFollowing(n) # 0
  PROVE  n[i] = 0
BY DEF NumFollowing, Zeros

(* What follows the first octet of a head: as many octets as announced. *)
LEMMA FollowingOctets ==
  ASSUME NEW n \in Uint64
  PROVE  LET k == NumFollowing(n)
             following == SubSeq(n, 9 - k, 8)
         IN /\ following \in Seq(Octet)
            /\ Len(following) = k
            /\ \A i \in 1..k : following[i] = n[8 - k + i]
<1> DEFINE k == NumFollowing(n)
<1>1. k \in {0, 1, 2, 4, 8}
  BY FollowingIsKnown
<1>2. \A i \in (9 - k)..8 : n[i] \in Octet
  BY <1>1 DEF Uint64
<1>3. QED
  BY <1>1, <1>2, SubSeqProperties

(* Padding them with zeros gives the number back. *)
LEMMA WidenedIsNumber ==
  ASSUME NEW n \in Uint64, NumFollowing(n) # 0
  PROVE  Widen(SubSeq(n, 9 - NumFollowing(n), 8)) = n
<1> DEFINE k == NumFollowing(n)
           following == SubSeq(n, 9 - k, 8)
<1>1. k \in {1, 2, 4, 8}
  BY FollowingIsKnown
<1>2. Len(following) = k /\ \A i \in 1..k : following[i] = n[8 - k + i]
  BY FollowingOctets
<1>3. ASSUME NEW i \in 1..8
      PROVE  Widen(following)[i] = n[i]
  <2>1. CASE i <= 8 - k
    BY <1>1, <1>2, <2>1, OmittedAreZeros DEF Widen
  <2>2. CASE ~(i <= 8 - k)
    <3>1. i - (8 - k) \in 1..k
      BY <1>1, <2>2
    <3>2. following[i - (8 - k)] = n[8 - k + (i - (8 - k))]
      BY <1>2, <3>1
    <3>3. QED
      BY <1>1, <1>2, <2>2, <3>2 DEF Widen
  <2>3. QED
    BY <2>1, <2>2
<1>4. Widen(following) = [i \in 1..8 |-> Widen(following)[i]]
  BY DEF Widen
<1>5. n = [i \in 1..8 |-> n[i]]
  BY DEF Uint64
<1>6. QED
  BY <1>3, <1>4, <1>5

(* A number below 24 is in the first octet.  It is a number of 64 bits. *)
LEMMA SmallNumber ==
  ASSUME NEW n \in Uint64, NumFollowing(n) = 0
  PROVE  Uint(n[8]) = n
<1>1. \A i \in 1..7 : n[i] = 0
  BY DEF NumFollowing, Zeros
<1>2. n[8] \in 0..23
  <2>1. n[8] \in 0..255
    BY DEF Uint64, Octet
  <2>2. QED
    BY <2>1 DEF NumFollowing
<1>3. Uint(n[8]) = <<0, 0, 0, 0, 0, 0, 0, n[8]>>
  BY <1>2 DEF Uint
<1>4. n = <<n[1], n[2], n[3], n[4], n[5], n[6], n[7], n[8]>>
  BY DEF Uint64
<1>5. QED
  BY <1>1, <1>3, <1>4

(* Major type and additional information share an octet. *)
LEMMA FirstOctet ==
  ASSUME NEW t \in Types, NEW ai \in 0..31
  PROVE  /\ 32 * t + ai \in Octet
         /\ MajorType(32 * t + ai) = t
         /\ Info(32 * t + ai) = ai
BY DEF Types, Octet, MajorType, Info

(* What is written in front of other octets can be told from them. *)
LEMMA FrontOfOctets ==
  ASSUME NEW o \in Octet, NEW s \in Seq(Octet), NEW rest \in Seq(Octet)
  PROVE  LET in == <<o>> \o s \o rest
             k == Len(s)
         IN /\ in \in Seq(Octet)
            /\ in # <<>> /\ in[1] = o
            /\ Len(in) = 1 + k + Len(rest)
            /\ SubSeq(in, 2, 1 + k) = s
            /\ SubSeq(in, 2 + k, Len(in)) = rest
<1> DEFINE front == <<o>> \o s
           in == front \o rest
           k == Len(s)
<1>1. k \in Nat /\ Len(rest) \in Nat
  BY LenProperties
<1>2. <<o>> \in Seq(Octet) /\ Len(<<o>>) = 1 /\ <<o>>[1] = o
  OBVIOUS
<1>3. /\ front \in Seq(Octet)
      /\ Len(front) = 1 + k
      /\ \A i \in 1..(1 + k) : front[i] = IF i <= 1 THEN <<o>>[i] ELSE s[i - 1]
  BY <1>1, <1>2, ConcatProperties
<1>4. /\ in \in Seq(Octet)
      /\ Len(in) = 1 + k + Len(rest)
      /\ \A i \in 1..(1 + k + Len(rest)) :
           in[i] = IF i <= 1 + k THEN front[i] ELSE rest[i - (1 + k)]
  <2> HIDE DEF front, k
  <2>1. /\ front \o rest \in Seq(Octet)
        /\ Len(front \o rest) = Len(front) + Len(rest)
        /\ \A i \in 1..(Len(front) + Len(rest)) :
             (front \o rest)[i] = IF i <= Len(front) THEN front[i] ELSE rest[i - Len(front)]
    BY <1>3, ConcatProperties
  <2>2. QED
    BY <1>3, <2>1
<1>5. in[1] = o /\ in # <<>>
  <2>1. in[1] = front[1] /\ front[1] = o
    BY <1>1, <1>2, <1>3, <1>4
  <2>2. Len(in) # 0
    BY <1>1, <1>4
  <2>3. QED
    BY <2>1, <2>2, EmptySeq
<1>6. \A i \in 1..Len(in) : in[i] \in Octet
  BY <1>4, ElementOfSeq
<1>7. SubSeq(in, 2, 1 + k) = s
  <2>1. \A i \in 2..(1 + k) : in[i] \in Octet
    BY <1>1, <1>4, <1>6
  <2>2. /\ SubSeq(in, 2, 1 + k) \in Seq(Octet)
        /\ Len(SubSeq(in, 2, 1 + k)) = k
        /\ \A i \in 1..k : SubSeq(in, 2, 1 + k)[i] = in[2 + i - 1]
    <3> HIDE DEF in
    <3>1. QED
      BY <1>1, <2>1, SubSeqProperties
  <2>3. \A i \in 1..k : in[2 + i - 1] = s[i]
    BY <1>1, <1>3, <1>4
  <2>4. QED
    BY <2>2, <2>3, SeqEqual
<1>8. SubSeq(in, 2 + k, Len(in)) = rest
  <2>1. \A i \in (2 + k)..Len(in) : in[i] \in Octet
    BY <1>1, <1>4, <1>6
  <2>2. /\ SubSeq(in, 2 + k, Len(in)) \in Seq(Octet)
        /\ Len(SubSeq(in, 2 + k, Len(in))) = Len(rest)
        /\ \A i \in 1..Len(rest) : SubSeq(in, 2 + k, Len(in))[i] = in[2 + k + i - 1]
    <3> HIDE DEF in
    <3>1. QED
      BY <1>1, <1>4, <2>1, SubSeqProperties
  <2>3. \A i \in 1..Len(rest) : in[2 + k + i - 1] = rest[i]
    BY <1>1, <1>4
  <2>4. QED
    BY <2>2, <2>3, SeqEqual
<1>9. QED
  BY <1>4, <1>5, <1>7, <1>8

(* A head is octets, and of the length that NumFollowing says. *)
LEMMA HeadIsOctets ==
  ASSUME NEW t \in Types, NEW n \in Uint64
  PROVE  /\ EncodeTypedUint(t, n) \in Seq(Octet)
         /\ Len(EncodeTypedUint(t, n)) = 1 + NumFollowing(n)
<1> DEFINE following == SubSeq(n, 9 - NumFollowing(n), 8)
           o == 32 * t + AdditionalInfo(n)
<1>1. following \in Seq(Octet) /\ Len(following) = NumFollowing(n)
  BY FollowingOctets
<1>2. o \in Octet
  <2>1. AdditionalInfo(n) \in 0..31
    BY FollowingIsKnown
  <2>2. QED
    BY <2>1, FirstOctet
<1>3. <<o>> \in Seq(Octet) /\ Len(<<o>>) = 1
  BY <1>2
<1>4. QED
  BY <1>1, <1>3, ConcatProperties DEF EncodeTypedUint

(* A head that the Encoder writes is read by the Decoder as what it was    *)
(* written for, with all 64 bits of its number, and exactly the octets     *)
(* after it are left, whatever they are.                                   *)
THEOREM HeadsReadBack ==
  ASSUME NEW t \in Types, NEW n \in Uint64, NEW rest \in Seq(Octet)
  PROVE  DecodeTypedUint(EncodeTypedUint(t, n) \o rest) = Ok([type |-> t, n |-> n], rest)
<1> DEFINE k == NumFollowing(n)
           following == SubSeq(n, 9 - k, 8)
           o == 32 * t + AdditionalInfo(n)
           in == <<o>> \o following \o rest
<1>1. /\ k \in {0, 1, 2, 4, 8}
      /\ AdditionalInfo(n) \in 0..27
      /\ FollowingOf(AdditionalInfo(n)) = k
      /\ k = 0 => AdditionalInfo(n) = n[8]
  BY FollowingIsKnown
<1>2. o \in Octet /\ MajorType(o) = t /\ Info(o) = AdditionalInfo(n)
  <2>1. AdditionalInfo(n) \in 0..31
    BY <1>1
  <2>2. QED
    BY <2>1, FirstOctet
<1>3. following \in Seq(Octet) /\ Len(following) = k
  BY FollowingOctets
<1>4. /\ in # <<>> /\ in[1] = o
      /\ Len(in) = 1 + k + Len(rest)
      /\ SubSeq(in, 2, 1 + k) = following
      /\ SubSeq(in, 2 + k, Len(in)) = rest
  <2> HIDE DEF o, following
  <2>1. QED
    BY <1>2, <1>3, FrontOfOctets
<1>5. Len(rest) \in Nat
  BY LenProperties
<1>6. (IF k = 0 THEN Uint(Info(o)) ELSE Widen(following)) = n
  BY <1>1, <1>2, SmallNumber, WidenedIsNumber
<1>7. in = EncodeTypedUint(t, n) \o rest
  BY DEF EncodeTypedUint
<1>8. DecodeTypedUint(in) = Ok([type |-> t, n |-> n], rest)
  <2>1. FollowingOf(Info(in[1])) = k
    BY <1>1, <1>2, <1>4
  <2> HIDE DEF in, k, following, o
  <2>2. k \in Nat /\ Len(in) = 1 + k + Len(rest)
    BY <1>1, <1>4
  <2>3. ~(Len(in) < 1 + k)
    BY <1>5, <2>2
  <2>4. QED
    BY <1>2, <1>4, <1>6, <2>1, <2>3 DEF DecodeTypedUint
<1>9. QED
  BY <1>7, <1>8

(* A string in front of other octets is cut off by its length. *)
LEMMA CutByLength ==
  ASSUME NEW s \in Seq(Octet), NEW rest \in Seq(Octet)
  PROVE  LET in == s \o rest
         IN /\ Len(in) >= Len(s)
            /\ SubSeq(in, 1, Len(s)) = s
            /\ SubSeq(in, Len(s) + 1, Len(in)) = rest
<1> DEFINE in == s \o rest
           k == Len(s)
<1>1. k \in Nat /\ Len(rest) \in Nat
  BY LenProperties
<1>2. /\ in \in Seq(Octet)
      /\ Len(in) = k + Len(rest)
      /\ \A i \in 1..(k + Len(rest)) : in[i] = IF i <= k THEN s[i] ELSE rest[i - k]
  BY ConcatProperties
<1>3. \A i \in 1..Len(in) : in[i] \in Octet
  BY <1>2, ElementOfSeq
<1> HIDE DEF in
<1>4. SubSeq(in, 1, k) = s
  <2>1. \A i \in 1..k : in[i] \in Octet
    BY <1>1, <1>2, <1>3
  <2>2. /\ SubSeq(in, 1, k) \in Seq(Octet)
        /\ Len(SubSeq(in, 1, k)) = k
        /\ \A i \in 1..k : SubSeq(in, 1, k)[i] = in[1 + i - 1]
    BY <1>1, <2>1, SubSeqProperties
  <2>3. \A i \in 1..k : in[1 + i - 1] = s[i]
    BY <1>1, <1>2
  <2>4. QED
    BY <2>2, <2>3, SeqEqual
<1>5. SubSeq(in, k + 1, Len(in)) = rest
  <2>1. \A i \in (k + 1)..Len(in) : in[i] \in Octet
    BY <1>1, <1>2, <1>3
  <2>2. /\ SubSeq(in, k + 1, Len(in)) \in Seq(Octet)
        /\ Len(SubSeq(in, k + 1, Len(in))) = Len(rest)
        /\ \A i \in 1..Len(rest) : SubSeq(in, k + 1, Len(in))[i] = in[k + 1 + i - 1]
    BY <1>1, <1>2, <2>1, SubSeqProperties
  <2>3. \A i \in 1..Len(rest) : in[k + 1 + i - 1] = rest[i]
    BY <1>1, <1>2
  <2>4. QED
    BY <2>2, <2>3, SeqEqual
<1>6. QED
  BY <1>1, <1>2, <1>4, <1>5 DEF in

(* Below 2^24, writing a length as 64 bits and reading it as an int64 is   *)
(* the identity.                                                           *)
LEMMA LengthsAreKept ==
  ASSUME NEW m \in Nat, m < Huge
  PROVE  Uint(m) \in Uint64 /\ Int64(Uint(m)) = m
<1> DEFINE high == m \div 65536
           middle == (m \div 256) % 256
           low == m % 256
           n == Uint(m)
<1>1. high \in 0..255 /\ middle \in 0..255 /\ low \in 0..255
  BY DEF Huge
<1>2. (high * 256 + middle) * 256 + low = m
  OBVIOUS
<1>3. n = <<0, 0, 0, 0, 0, high, middle, low>>
  BY DEF Uint
<1> HIDE DEF high, middle, low, n
<1>4. n \in Uint64
  BY <1>1, <1>3 DEF Uint64, Octet
<1>5. Zeros(n, 5)
  BY <1>3 DEF Zeros
<1>6. n[1] = 0 /\ n[6] = high /\ n[7] = middle /\ n[8] = low
  BY <1>3
<1>7. Int64(n) = m
  BY <1>2, <1>5, <1>6 DEF Int64, Magnitude
<1>8. QED
  BY <1>4, <1>7 DEF n

(* The parts of a result. *)
LEMMA ResultOk ==
  ASSUME NEW value, NEW rest
  PROVE  Ok(value, rest).ok /\ Ok(value, rest).value = value /\ Ok(value, rest).rest = rest
BY DEF Ok

(* A string of either kind that the Encoder writes is read by the Decoder  *)
(* as what it was, and exactly the octets after it are left.               *)
LEMMA StringsReadBack ==
  ASSUME NEW t \in {Bytes, Text},
         NEW bs \in Seq(Octet), Len(bs) < Huge, NEW rest \in Seq(Octet)
  PROVE  DecodeBytesOfType(t, EncodeBytes(t, bs) \o rest) = Ok(bs, rest)
<1> DEFINE n == Uint(Len(bs))
           after == bs \o rest
           in == EncodeBytes(t, bs) \o rest
<1>1. Len(bs) \in Nat
  BY LenProperties
<1>2. n \in Uint64 /\ Int64(n) = Len(bs)
  BY <1>1, LengthsAreKept
<1>3. after \in Seq(Octet)
  BY ConcatProperties
<1>4. t \in Types
  BY DEF Bytes, Text, Types
<1>5. in = EncodeTypedUint(t, n) \o after
  <2>1. EncodeTypedUint(t, n) \in Seq(Octet)
    BY <1>2, <1>4, HeadIsOctets
  <2>2. EncodeBytes(t, bs) = EncodeTypedUint(t, n) \o bs
    BY DEF EncodeBytes
  <2>3. QED
    BY <2>1, <2>2, ConcatAssociative
<1>6. DecodeTypedUint(in) = Ok([type |-> t, n |-> n], after)
  BY <1>2, <1>3, <1>4, <1>5, HeadsReadBack
<1>7. DecodeOfType(t, in) = Ok(n, after)
  <2>1. /\ DecodeTypedUint(in).ok
        /\ DecodeTypedUint(in).value.type = t
        /\ DecodeTypedUint(in).value.n = n
        /\ DecodeTypedUint(in).rest = after
    <3> HIDE DEF n, after, in
    <3>1. QED
      BY <1>6, ResultOk
  <2> HIDE DEF n, after, in
  <2>2. QED
    BY <2>1 DEF DecodeOfType, Then
<1>8. /\ Len(after) >= Len(bs)
      /\ SubSeq(after, 1, Len(bs)) = bs
      /\ SubSeq(after, Len(bs) + 1, Len(after)) = rest
  BY CutByLength
<1>9. Len(after) \in Nat
  BY <1>3, LenProperties
<1> HIDE DEF n, after, in
<1>10. CopyN(after, Len(bs)) = Ok(bs, rest)
  <2>1. CASE Len(bs) = 0
    <3>1. bs = <<>>
      BY <2>1, EmptySeq
    <3>2. after = rest
      BY <3>1, ConcatEmptySeq DEF after
    <3>3. QED
      BY <2>1, <3>1, <3>2 DEF CopyN
  <2>2. CASE Len(bs) # 0
    <3>1. ~(Len(bs) <= 0) /\ ~(Len(bs) > Len(after))
      BY <1>1, <1>8, <1>9, <2>2
    <3>2. CopyN(after, Len(bs)) =
            Ok(SubSeq(after, 1, Len(bs)), SubSeq(after, Len(bs) + 1, Len(after)))
      BY <3>1 DEF CopyN
    <3>3. QED
      BY <1>8, <3>2
  <2>3. QED
    BY <2>1, <2>2
<1>11. DecodeBytesOfType(t, in) = CopyN(after, Int64(n))
  <2>1. /\ DecodeOfType(t, in).ok
        /\ DecodeOfType(t, in).value = n
        /\ DecodeOfType(t, in).rest = after
    BY <1>7, ResultOk
  <2>2. QED
    BY <2>1 DEF DecodeBytesOfType, Then
<1>12. QED
  BY <1>2, <1>10, <1>11 DEF in

(* A byte string that the Encoder writes is read by the Decoder as what it *)
(* was, whatever octets it is made of (also those that look like heads),   *)
(* and exactly the octets after it are left.                               *)
THEOREM ByteStringsReadBack ==
  ASSUME NEW bs \in Seq(Octet), Len(bs) < Huge, NEW rest \in Seq(Octet)
  PROVE  DecodeByteString(EncodeByteString(bs) \o rest) = Ok(bs, rest)
BY StringsReadBack DEF EncodeByteString, DecodeByteString

(* A text is read back too, if it is UTF-8.  If it is not, and was put     *)
(* there by someone else (EncodeTextString refuses it), it is refused.     *)
THEOREM TextStringsReadBack ==
  ASSUME NEW bs \in Seq(Octet), Len(bs) < Huge, NEW rest \in Seq(Octet)
  PROVE  DecodeTextString(EncodeBytes(Text, bs) \o rest) =
           IF CanEncodeText(bs) THEN Ok(bs, rest) ELSE Error
<1> DEFINE read == DecodeBytesOfType(Text, EncodeBytes(Text, bs) \o rest)
<1>1. read = Ok(bs, rest)
  BY StringsReadBack
<1>2. read.ok /\ read.value = bs /\ read.rest = rest
  <2> HIDE DEF read
  <2>1. QED
    BY <1>1, ResultOk
<1>3. DecodeTextString(EncodeBytes(Text, bs) \o rest) =
        IF IsUtf8(read.value) THEN Ok(read.value, read.rest) ELSE Error
  <2>1. DecodeTextString(EncodeBytes(Text, bs) \o rest) =
          Then(read, LAMBDA text, unread : IF IsUtf8(text) THEN Ok(text, unread) ELSE Error)
    BY DEF DecodeTextString
  <2> HIDE DEF read
  <2>2. QED
    BY <1>2, <2>1 DEF Then
<1>4. QED
  <2> HIDE DEF read
  <2>1. QED
    BY <1>2, <1>3 DEF CanEncodeText

(* An octet has a major type and additional information. *)
LEMMA PartsOfFirst ==
  ASSUME NEW o \in 0..255
  PROVE  MajorType(o) \in Types /\ Info(o) \in 0..31
BY DEF MajorType, Info, Types

(* A number below 24 has one octet that is not zero. *)
LEMMA SmallUint ==
  ASSUME NEW i \in 0..23
  PROVE  Uint(i) = <<0, 0, 0, 0, 0, 0, 0, i>>
<1>1. i \div 65536 = 0 /\ (i \div 256) % 256 = 0 /\ i % 256 = i
  OBVIOUS
<1>2. QED
  BY <1>1 DEF Uint

(* Octets padded with zeros are a number, in which they need not be more. *)
LEMMA WidenedOctets ==
  ASSUME NEW k \in {1, 2, 4, 8}, NEW s \in Seq(Octet), Len(s) = k
  PROVE  Widen(s) \in Uint64 /\ NumFollowing(Widen(s)) <= k
<1> DEFINE n == Widen(s)
<1>1. n = [i \in 1..8 |-> IF i <= 8 - k THEN 0 ELSE s[i - (8 - k)]]
  BY DEF Widen
<1> HIDE DEF n
<1>2. ASSUME NEW i \in 1..8
      PROVE  n[i] \in Octet /\ (i <= 8 - k => n[i] = 0)
  <2>1. CASE i <= 8 - k
    <3>1. n[i] = 0
      BY <1>1, <2>1
    <3>2. QED
      BY <3>1 DEF Octet
  <2>2. CASE ~(i <= 8 - k)
    <3>1. i - (8 - k) \in 1..Len(s)
      BY <2>2
    <3>2. n[i] = s[i - (8 - k)]
      BY <1>1, <2>2
    <3>3. QED
      BY <2>2, <3>1, <3>2, ElementOfSeq
  <2>3. QED
    BY <2>1, <2>2
<1>3. n \in Uint64
  <2>1. n = [i \in 1..8 |-> n[i]]
    BY <1>1
  <2>2. QED
    BY <1>2, <2>1 DEF Uint64
<1>4. \A i \in 1..8 : i <= 8 - k => n[i] = 0
  BY <1>2
<1>5. NumFollowing(n) <= k
  <2>1. NumFollowing(n) \in {0, 1, 2, 4, 8}
    BY <1>3, FollowingIsKnown
  <2>2. CASE k = 1
    <3>1. Zeros(n, 7)
      BY <1>4, <2>2 DEF Zeros
    <3>2. QED
      BY <2>2, <3>1 DEF NumFollowing
  <2>3. CASE k = 2
    <3>1. Zeros(n, 6)
      BY <1>4, <2>3 DEF Zeros
    <3>2. QED
      BY <2>3, <3>1 DEF NumFollowing
  <2>4. CASE k = 4
    <3>1. Zeros(n, 4)
      BY <1>4, <2>4 DEF Zeros
    <3>2. QED
      BY <2>4, <3>1 DEF NumFollowing
  <2>5. CASE k = 8
    BY <2>1, <2>5
  <2>6. QED
    BY <2>2, <2>3, <2>4, <2>5
<1>6. QED
  BY <1>3, <1>5 DEF n

(* What comes out of a head made by anyone is a major type and a number of *)
(* 64 bits, and what is left is the end of the input.                      *)
LEMMA ReadHead ==
  ASSUME NEW in \in Seq(Octet), DecodeTypedUint(in).ok
  PROVE  LET head == DecodeTypedUint(in)
             k == FollowingOf(Info(in[1]))
         IN /\ k \in {0, 1, 2, 4, 8} /\ Info(in[1]) \in 0..31
            /\ k = 0 => Info(in[1]) \notin 24..27
            /\ Len(in) >= 1 + k
            /\ head.value.type \in Types
            /\ head.value.n = IF k = 0 THEN Uint(Info(in[1])) ELSE Widen(SubSeq(in, 2, 1 + k))
            /\ head.rest = SubSeq(in, 2 + k, Len(in))
<1> DEFINE head == DecodeTypedUint(in)
           info == Info(in[1])
           k == FollowingOf(info)
           number == IF k = 0 THEN Uint(info) ELSE Widen(SubSeq(in, 2, 1 + k))
<1>1. in # <<>> /\ ~(Len(in) < 1 + k)
  BY DEF DecodeTypedUint, Error
<1>2. head = Ok([type |-> MajorType(in[1]), n |-> number], SubSeq(in, 2 + k, Len(in)))
  BY <1>1 DEF DecodeTypedUint
<1>3. in[1] \in 0..255
  <2>1. Len(in) \in Nat /\ Len(in) # 0
    BY <1>1, LenProperties, EmptySeq
  <2>2. 1 \in 1..Len(in)
    BY <2>1
  <2>3. in[1] \in Octet
    BY <2>2, ElementOfSeq
  <2>4. QED
    BY <2>3 DEF Octet
<1>4. MajorType(in[1]) \in Types /\ info \in 0..31
  BY <1>3, PartsOfFirst
<1>5. k \in {0, 1, 2, 4, 8} /\ (k = 0 => info \notin 24..27)
  <2> HIDE DEF info
  <2>1. QED
    BY <1>4 DEF FollowingOf
<1>6. Len(in) >= 1 + k
  <2> HIDE DEF k
  <2>1. Len(in) \in Nat
    BY LenProperties
  <2>2. QED
    BY <1>1, <1>5, <2>1
<1>7. /\ head.value.type = MajorType(in[1])
      /\ head.value.n = number
      /\ head.rest = SubSeq(in, 2 + k, Len(in))
  <2> DEFINE type == MajorType(in[1])
             unread == SubSeq(in, 2 + k, Len(in))
  <2> HIDE DEF head, number, unread, type
  <2>1. head = Ok([type |-> type, n |-> number], unread)
    BY <1>2 DEF type, unread
  <2>2. head.value = [type |-> type, n |-> number] /\ head.rest = unread
    BY ONLY <2>1, ResultOk
  <2>3. head.value.type = type /\ head.value.n = number
    BY ONLY <2>2
  <2>4. QED
    BY <2>2, <2>3 DEF type, unread
<1>8. QED
  BY <1>4, <1>5, <1>6, <1>7

(* Heads are of minimal length: no head that the Decoder reads as a type   *)
(* and a number is shorter than the one that the Encoder writes for them.  *)
(* (The decoder takes additional information of 28 to 31, which is reserved*)
(* or of indefinite length, for the number itself; these are left out.)    *)
THEOREM HeadsAreMinimal ==
  ASSUME NEW in \in Seq(Octet), DecodeTypedUint(in).ok, Info(in[1]) \notin 28..31
  PROVE  LET head == DecodeTypedUint(in)
         IN /\ head.value.type \in Types /\ head.value.n \in Uint64
            /\ Len(EncodeTypedUint(head.value.type, head.value.n)) + Len(head.rest) <= Len(in)
<1> DEFINE head == DecodeTypedUint(in)
           info == Info(in[1])
           k == FollowingOf(info)
           n == head.value.n
           following == SubSeq(in, 2, 1 + k)
<1>1. /\ k \in {0, 1, 2, 4, 8} /\ info \in 0..31
      /\ k = 0 => info \notin 24..27
      /\ Len(in) >= 1 + k
      /\ head.value.type \in Types
      /\ n = IF k = 0 THEN Uint(info) ELSE Widen(following)
      /\ head.rest = SubSeq(in, 2 + k, Len(in))
  BY ReadHead
<1>2. Len(in) \in Nat
  BY LenProperties
<1>3. \A i \in 1..Len(in) : in[i] \in Octet
  BY ElementOfSeq
<1> HIDE DEF head, info, k, n
<1>4. Len(head.rest) = Len(in) - (1 + k)
  <2>1. \A i \in (2 + k)..Len(in) : in[i] \in Octet
    BY <1>1, <1>2, <1>3
  <2>2. Len(SubSeq(in, 2 + k, Len(in))) = IF 2 + k <= Len(in) THEN Len(in) - (2 + k) + 1 ELSE 0
    BY <1>1, <1>2, <2>1, SubSeqProperties
  <2>3. QED
    BY <1>1, <1>2, <2>2
<1>5. following \in Seq(Octet) /\ Len(following) = k
  <2>1. \A i \in 2..(1 + k) : in[i] \in Octet
    BY <1>1, <1>2, <1>3
  <2>2. /\ following \in Seq(Octet)
        /\ Len(following) = IF 2 <= 1 + k THEN 1 + k - 2 + 1 ELSE 0
    BY <1>1, <2>1, SubSeqProperties
  <2>3. QED
    BY <1>1, <2>2
<1>6. n \in Uint64 /\ NumFollowing(n) <= k
  <2> HIDE DEF following
  <2>1. CASE k = 0
    <3>1. info \in 0..23
      BY <1>1, <2>1 DEF info
    <3>2. n = <<0, 0, 0, 0, 0, 0, 0, info>>
      BY <1>1, <2>1, <3>1, SmallUint
    <3>3. n \in Uint64
      <4>1. info \in Octet /\ 0 \in Octet
        BY <3>1 DEF Octet
      <4>2. n = [i \in 1..8 |-> IF i = 8 THEN info ELSE 0]
        BY <3>2
      <4>3. QED
        BY <4>1, <4>2 DEF Uint64
    <3>4. Zeros(n, 7) /\ n[8] < 24
      BY <3>1, <3>2 DEF Zeros
    <3>5. QED
      BY <2>1, <3>3, <3>4 DEF NumFollowing
  <2>2. CASE k # 0
    <3>1. k \in {1, 2, 4, 8} /\ n = Widen(following)
      BY <1>1, <2>2
    <3>2. QED
      BY <1>5, <3>1, WidenedOctets
  <2>3. QED
    BY <2>1, <2>2
<1>7. Len(EncodeTypedUint(head.value.type, n)) = 1 + NumFollowing(n)
  BY <1>1, <1>6, HeadIsOctets
<1>8. NumFollowing(n) \in Nat
  BY <1>6, FollowingIsKnown
<1>9. Len(EncodeTypedUint(head.value.type, n)) + Len(head.rest) <= Len(in)
  <2> DEFINE encoded == Len(EncodeTypedUint(head.value.type, n))
             f == NumFollowing(n)
             unread == Len(head.rest)
             l == Len(in)
  <2>1. encoded = 1 + f /\ f <= k /\ unread = l - (1 + k) /\ f \in Nat /\ l \in Nat
    BY <1>2, <1>4, <1>6, <1>7, <1>8
  <2>2. k \in Nat
    BY <1>1
  <2> HIDE DEF encoded, f, unread, l
  <2>3. encoded + unread <= l
    BY ONLY <2>1, <2>2
  <2>4. QED
    BY <2>3 DEF encoded, unread, l
<1>10. QED
  BY <1>1, <1>6, <1>9 DEF head, n

(* A string that is cut off anywhere, in its head or in its octets, is     *)
(* refused: decodeTypedUint and io.CopyN find the end of the input.        *)
THEOREM CutStringsAreRefused ==
  ASSUME NEW t \in {Bytes, Text}, NEW bs \in Seq(Octet), Len(bs) < Huge,
         NEW m \in 0..(Len(EncodeBytes(t, bs)) - 1)
  PROVE  DecodeBytesOfType(t, SubSeq(EncodeBytes(t, bs), 1, m)) = Error
<1> DEFINE n == Uint(Len(bs))
           k == NumFollowing(n)
           head == EncodeTypedUint(t, n)
           whole == EncodeBytes(t, bs)
           in == SubSeq(whole, 1, m)
<1>1. Len(bs) \in Nat
  BY LenProperties
<1>2. n \in Uint64 /\ Int64(n) = Len(bs)
  BY <1>1, LengthsAreKept
<1>3. t \in Types
  BY DEF Bytes, Text, Types
<1>4. head \in Seq(Octet) /\ Len(head) = 1 + k /\ k \in {0, 1, 2, 4, 8}
  BY <1>2, <1>3, HeadIsOctets, FollowingIsKnown
<1>5. whole = head \o bs
  BY DEF EncodeBytes
<1> HIDE DEF n, k, head, whole
<1>6. /\ whole \in Seq(Octet)
      /\ Len(whole) = 1 + k + Len(bs)
      /\ \A i \in 1..(1 + k + Len(bs)) :
           whole[i] = IF i <= 1 + k THEN head[i] ELSE bs[i - (1 + k)]
  BY <1>1, <1>4, <1>5, ConcatProperties
<1>7. m \in Nat /\ m < 1 + k + Len(bs)
  BY <1>1, <1>4, <1>6 DEF whole
<1>8. /\ in \in Seq(Octet) /\ Len(in) = m
      /\ \A i \in 1..m : in[i] = whole[i]
  <2>1. \A i \in 1..m : whole[i] \in Octet
    BY <1>1, <1>4, <1>6, <1>7, ElementOfSeq
  <2>2. /\ in \in Seq(Octet)
        /\ Len(in) = IF 1 <= m THEN m - 1 + 1 ELSE 0
        /\ \A i \in 1..(m - 1 + 1) : in[i] = whole[1 + i - 1]
    BY <1>7, <2>1, SubSeqProperties
  <2>3. QED
    BY <1>7, <2>2
<1> HIDE DEF in
<1>9. CASE m < 1 + k
  <2>1. in = <<>> \/ Len(in) < 1 + FollowingOf(Info(in[1]))
    <3>1. CASE m = 0
      BY <1>8, <3>1, EmptySeq
    <3>2. CASE m # 0
      <4>1. in[1] = head[1]
        BY <1>1, <1>4, <1>6, <1>7, <1>8, <3>2
      <4>2. head[1] = 32 * t + AdditionalInfo(n)
        <5> DEFINE following == SubSeq(n, 9 - k, 8)
                   o == 32 * t + AdditionalInfo(n)
        <5>1. following \in Seq(Octet)
          BY <1>2, FollowingOctets DEF k
        <5>2. o \in Octet
          <6>1. AdditionalInfo(n) \in 0..31
            BY <1>2, FollowingIsKnown
          <6>2. QED
            BY <1>3, <6>1, FirstOctet
        <5>3. head = <<o>> \o following
          BY DEF head, EncodeTypedUint, k
        <5> HIDE DEF following, o
        <5>4. head[1] = o
          BY <5>1, <5>2, <5>3
        <5>5. QED
          BY <5>4 DEF o
      <4>3. FollowingOf(Info(in[1])) = k
        <5>1. AdditionalInfo(n) \in 0..31 /\ FollowingOf(AdditionalInfo(n)) = k
          BY <1>2, FollowingIsKnown DEF k
        <5>2. Info(in[1]) = AdditionalInfo(n)
          <6>1. Info(32 * t + AdditionalInfo(n)) = AdditionalInfo(n)
            BY <1>3, <5>1, FirstOctet
          <6>2. in[1] = 32 * t + AdditionalInfo(n)
            BY <4>1, <4>2
          <6>3. QED
            BY <6>1, <6>2
        <5>3. QED
          BY <5>1, <5>2
      <4>4. QED
        BY <1>8, <1>9, <4>3
    <3>3. QED
      BY <3>1, <3>2
  <2>2. DecodeTypedUint(in) = Error
    BY <2>1 DEF DecodeTypedUint
  <2>3. DecodeOfType(t, in) = Error
    BY <2>2 DEF DecodeOfType, Then, Error
  <2>4. QED
    BY <2>3 DEF DecodeBytesOfType, Then, Error, in, whole
<1>10. CASE ~(m < 1 + k)
  <2> DEFINE l == m - (1 + k)
             after == SubSeq(bs, 1, l)
  <2>1. l \in Nat /\ l < Len(bs)
    BY <1>1, <1>4, <1>7, <1>10
  <2>2. \A i \in 1..Len(bs) : bs[i] \in Octet
    BY ElementOfSeq
  <2> HIDE DEF l
  <2>3. /\ after \in Seq(Octet) /\ Len(after) = l
        /\ \A i \in 1..l : after[i] = bs[i]
    <3>1. \A i \in 1..l : bs[i] \in Octet
      BY <1>1, <2>1, <2>2
    <3>2. /\ after \in Seq(Octet)
          /\ Len(after) = IF 1 <= l THEN l - 1 + 1 ELSE 0
          /\ \A i \in 1..(l - 1 + 1) : after[i] = bs[1 + i - 1]
      BY <2>1, <3>1, SubSeqProperties
    <3>3. QED
      BY <2>1, <3>2
  <2> HIDE DEF after
  <2>4. in = head \o after
    <3>1. /\ head \o after \in Seq(Octet)
          /\ Len(head \o after) = 1 + k + l
          /\ \A i \in 1..(1 + k + l) :
               (head \o after)[i] = IF i <= 1 + k THEN head[i] ELSE after[i - (1 + k)]
      BY <1>4, <2>3, ConcatProperties
    <3>2. m = 1 + k + l
      BY <1>4, <1>7 DEF l
    <3>3. ASSUME NEW i \in 1..m
          PROVE  in[i] = (head \o after)[i]
      <4>1. in[i] = IF i <= 1 + k THEN head[i] ELSE bs[i - (1 + k)]
        BY <1>1, <1>4, <1>6, <1>7, <1>8, <3>3
      <4>2. ~(i <= 1 + k) => after[i - (1 + k)] = bs[i - (1 + k)]
        <5>1. ~(i <= 1 + k) => i - (1 + k) \in 1..l
          BY <1>4, <2>1, <3>2, <3>3
        <5>2. QED
          BY <2>3, <5>1
      <4>3. QED
        BY <3>1, <3>2, <4>1, <4>2
    <3>4. QED
      BY <1>8, <3>1, <3>2, <3>3, SeqEqual
  <2>5. DecodeTypedUint(in) = Ok([type |-> t, n |-> n], after)
    BY <1>2, <1>3, <2>3, <2>4, HeadsReadBack DEF head
  <2>6. DecodeOfType(t, in) = Ok(n, after)
    <3>1. /\ DecodeTypedUint(in).ok
          /\ DecodeTypedUint(in).value.type = t
          /\ DecodeTypedUint(in).value.n = n
          /\ DecodeTypedUint(in).rest = after
      BY <2>5, ResultOk
    <3>2. QED
      BY <3>1 DEF DecodeOfType, Then
  <2>7. DecodeBytesOfType(t, in) = CopyN(after, Len(bs))
    <3>1. /\ DecodeOfType(t, in).ok
          /\ DecodeOfType(t, in).value = n
          /\ DecodeOfType(t, in).rest = after
      BY <2>6, ResultOk
    <3>2. QED
      BY <1>2, <3>1 DEF DecodeBytesOfType, Then
  <2>8. CopyN(after, Len(bs)) = Error
    BY <1>1, <2>1, <2>3 DEF CopyN
  <2>9. QED
    BY <2>7, <2>8 DEF in, whole
<1>11. QED
  BY <1>9, <1>10 DEF whole, in

-----------------------------------------------------------------------------
(* What folds over lists compute                                           *)

(* The first k numbers without the largest are the first k - 1. *)
LEMMA FirstOf ==
  ASSUME NEW n \in Nat, NEW k \in 1..n
  PROVE  /\ 1..k \in SUBSET (1..n) /\ 1..k # {}
         /\ Max(1..k) = k /\ (1..k) \ {k} = 1..(k - 1)
<1>1. k \in Nat /\ k # 0 /\ 1..k \in SUBSET (1..n)
  OBVIOUS
<1>2. QED
  BY <1>1, MaxOfFirst

-----------------------------------------------------------------------------
SumFolds(f, t) ==
  f = [s \in SUBSET DOMAIN t |->
         IF s = {} THEN 0 ELSE f[s \ {Max(s)}] + t[Max(s)].length]

(* LengthBefore adds up: a fold over section lengths is the last of the    *)
(* sums.                                                                   *)
LEMMA SumOfLengths ==
  ASSUME NEW t, IsList(t), \A i \in 1..Len(t) : t[i].length \in Nat,
         NEW at, at[1] = 0, \A i \in 1..Len(t) : at[i + 1] = at[i] + t[i].length
  PROVE  FoldLeft(LAMBDA sum, so : sum + so.length, 0, t) = at[Len(t) + 1]
<1> DEFINE n == Len(t)
           g == [x \in Nat \X (1..n) |-> x[1] + t[x[2]].length]
           f == CHOOSE h : SumFolds(h, t)
<1>1. n \in Nat /\ DOMAIN t = 1..n
  BY ListLength
<1>2. FoldLeft(LAMBDA sum, so : sum + so.length, 0, t) = f[DOMAIN t]
  BY DEF FoldLeft, MapThenFoldSet, SumFolds
<1> HIDE DEF n
<1>3. \E h : SumFolds(h, t)
  <2>1. g \in [Nat \X (1..n) -> Nat]
    BY DEF n
  <2>2. PICK h \in [SUBSET (1..n) -> Nat] : Folds(h, n, 0, g)
    BY <1>1, <2>1, FoldExists
  <2>3. \A a \in Nat, i \in 1..n : g[<<a, i>>] = a + t[i].length
    OBVIOUS
  <2> HIDE DEF g
  <2>4. \A s \in SUBSET (1..n) : s # {} => Max(s) \in 1..n
    BY <1>1, MaxIsIn
  <2>5. \A s \in SUBSET (1..n) : s # {} =>
          g[<<h[s \ {Max(s)}], Max(s)>>] = h[s \ {Max(s)}] + t[Max(s)].length
    <3> SUFFICES ASSUME NEW s \in SUBSET (1..n), s # {}
                 PROVE  g[<<h[s \ {Max(s)}], Max(s)>>] = h[s \ {Max(s)}] + t[Max(s)].length
      OBVIOUS
    <3>1. Max(s) \in 1..n /\ s \ {Max(s)} \in SUBSET (1..n)
      BY <2>4
    <3>2. h[s \ {Max(s)}] \in Nat
      BY <3>1
    <3>3. QED
      BY <2>3, <3>1, <3>2
  <2>6. h = [s \in SUBSET (1..n) |->
               IF s = {} THEN 0 ELSE h[s \ {Max(s)}] + t[Max(s)].length]
    BY <2>2, <2>5 DEF Folds
  <2>7. SumFolds(h, t)
    BY <1>1, <2>6 DEF SumFolds
  <2>8. QED
    BY <2>7
<1>4. SumFolds(f, t)
  BY <1>3
<1> HIDE DEF f
<1>5. \A s \in SUBSET (1..n) : f[s] = IF s = {} THEN 0 ELSE f[s \ {Max(s)}] + t[Max(s)].length
  BY <1>1, <1>4 DEF SumFolds
<1> DEFINE Agrees(k) == f[1..k] = at[k + 1]
           K == {k \in Nat : k <= n => Agrees(k)}
<1>6. Agrees(0)
  <2>1. {} \in SUBSET (1..n)
    OBVIOUS
  <2>2. f[{}] = 0
    BY <1>5, <2>1
  <2>3. 1..0 = {} /\ 0 + 1 = 1
    OBVIOUS
  <2>4. QED
    BY <2>2, <2>3
<1> HIDE DEF Agrees
<1>10. 0 \in K
  BY <1>6
<1>7. ASSUME NEW k \in Nat, k \in K PROVE k + 1 \in K
  <2> SUFFICES ASSUME k + 1 <= n PROVE Agrees(k + 1)
    OBVIOUS
  <2>1. f[1..k] = at[k + 1]
    BY <1>1, <1>7 DEF Agrees
  <2>2. k + 1 \in Nat /\ k + 1 # 0 /\ (k + 1) - 1 = k /\ k + 1 \in 1..n
    BY <1>1
  <2>3. 1..(k + 1) # {} /\ Max(1..(k + 1)) = k + 1 /\ (1..(k + 1)) \ {k + 1} = 1..k
    BY <2>2, MaxOfFirst
  <2>4. 1..(k + 1) \in SUBSET (1..n)
    BY <1>1, <2>2
  <2>5. f[1..(k + 1)] = f[1..k] + t[k + 1].length
    BY <1>5, <2>3, <2>4
  <2>6. at[(k + 1) + 1] = at[k + 1] + t[k + 1].length
    BY <2>2 DEF n
  <2>7. QED
    BY <2>1, <2>5, <2>6 DEF Agrees
<1>8. Agrees(n)
  <2> HIDE DEF K
  <2>1. n \in K
    BY <1>1, <1>10, <1>7, InductionOnSets
  <2>2. QED
    BY <1>1, <2>1 DEF K
<1>9. QED
  BY <1>1, <1>2, <1>8 DEF n, Agrees

(* A fold whose next value is op of the last one, with op as a function g. *)
ProductFolds(f, v) ==
  f = [s \in SUBSET DOMAIN v |->
         IF s = {} THEN 1
         ELSE IF f[s \ {Max(s)}] * Len(v[Max(s)]) > MaxNumVariantsForSingleURL
              THEN 0 ELSE f[s \ {Max(s)}] * Len(v[Max(s)])]

Capped(a, l) == IF a * l > MaxNumVariantsForSingleURL THEN 0 ELSE a * l

(* The numbers of keys for the first axes of a Variants value.             *)
AreProducts(h, v) ==
  /\ h \in [0..Len(v) -> Nat] /\ h[0] = 1
  /\ \A k \in 1..Len(v) : h[k] = Capped(h[k - 1], Len(v[k]))

(* The number of possible keys is what is left of their product.           *)
LEMMA ProductChain ==
  ASSUME NEW v, IsLists(v)
  PROVE  \E h : AreProducts(h, v) /\ h[Len(v)] = NumberOfPossibleKeys(v)
<1> DEFINE n == Len(v)
           capped(a, i) == IF a * Len(v[i]) > MaxNumVariantsForSingleURL THEN 0 ELSE a * Len(v[i])
           g == [x \in Nat \X (1..n) |-> capped(x[1], x[2])]
           f == CHOOSE h : ProductFolds(h, v)
<1>1. n \in Nat /\ DOMAIN v = 1..n /\ \A i \in 1..n : Len(v[i]) \in Nat
  BY ListLength DEF IsLists
<1>2. NumberOfPossibleKeys(v) = f[DOMAIN v]
  BY DEF NumberOfPossibleKeys, FoldLeft, MapThenFoldSet, ProductFolds
<1> HIDE DEF n
<1>3. \A a \in Nat, i \in 1..n : capped(a, i) \in Nat
  <2>1. \A a, b \in Nat : a * b \in Nat
    OBVIOUS
  <2>2. QED
    BY <1>1, <2>1
<1> HIDE DEF capped
<1>4. g \in [Nat \X (1..n) -> Nat] /\ \A a \in Nat, i \in 1..n : g[<<a, i>>] = capped(a, i)
  BY <1>3
<1> HIDE DEF g
<1>5. ProductFolds(f, v)
  <2>1. PICK h \in [SUBSET (1..n) -> Nat] : Folds(h, n, 1, g)
    BY <1>1, <1>4, FoldExists
  <2>2. ASSUME NEW s \in SUBSET (1..n), s # {}
        PROVE  g[<<h[s \ {Max(s)}], Max(s)>>] = capped(h[s \ {Max(s)}], Max(s))
    <3>1. Max(s) \in 1..n /\ s \ {Max(s)} \in SUBSET (1..n)
      BY <1>1, <2>2, MaxIsIn
    <3>2. QED
      BY <1>4, <3>1
  <2>3. h = [s \in SUBSET (1..n) |-> IF s = {} THEN 1 ELSE capped(h[s \ {Max(s)}], Max(s))]
    BY <2>1, <2>2 DEF Folds
  <2>4. ProductFolds(h, v)
    BY <1>1, <2>3 DEF ProductFolds, capped
  <2>5. QED
    BY <2>4
<1> HIDE DEF f
<1>6. \A s \in SUBSET (1..n) : f[s] = IF s = {} THEN 1 ELSE capped(f[s \ {Max(s)}], Max(s))
  BY <1>1, <1>5 DEF ProductFolds, capped
<1>7. f[{}] = 1
  <2>1. {} \in SUBSET (1..n)
    OBVIOUS
  <2>2. QED
    BY <1>6, <2>1
<1>8. \A k \in 1..n : f[1..(k - 1)] \in Nat => f[1..k] = g[<<f[1..(k - 1)], k>>]
  <2> SUFFICES ASSUME NEW k \in 1..n, f[1..(k - 1)] \in Nat
               PROVE  f[1..k] = g[<<f[1..(k - 1)], k>>]
    OBVIOUS
  <2>1. 1..k \in SUBSET (1..n) /\ 1..k # {} /\ Max(1..k) = k /\ (1..k) \ {k} = 1..(k - 1)
    BY <1>1, FirstOf
  <2>2. f[1..k] = capped(f[1..(k - 1)], k)
    BY <1>6, <2>1
  <2>3. QED
    BY <1>4, <2>2
<1>9. PICK h \in [0..n -> Nat] : IsFoldChain(h, n, 1, g) /\ h[n] = f[1..n]
  <2>1. Unfolds(f, Nat, n, 1, g)
    BY <1>7, <1>8 DEF Unfolds
  <2>2. n \in Nat /\ 1 \in Nat
    BY <1>1
  <2>4. g \in [Nat \X (1..n) -> Nat]
    BY <1>4
  <2>3. HasChain(f, Nat, n, 1, g)
    BY <2>2, <2>4, <2>1, FoldChain
  <2>5. QED
    BY <2>3 DEF HasChain
<1>10. \A k \in 1..n : h[k] = capped(h[k - 1], k)
  <2>1. \A k \in 1..n : k - 1 \in 0..n
    BY <1>1
  <2>2. QED
    BY <1>4, <1>9, <2>1 DEF IsFoldChain
<1>11. AreProducts(h, v)
  BY <1>9, <1>10 DEF AreProducts, IsFoldChain, n, Capped, capped
<1>12. h[n] = NumberOfPossibleKeys(v)
  BY <1>1, <1>2, <1>9
<1>13. QED
  BY <1>11, <1>12 DEF n

(* A Variants value has a natural number of possible keys. *)
LEMMA NumberOfKeysIsNat ==
  ASSUME NEW v, IsLists(v)
  PROVE  NumberOfPossibleKeys(v) \in Nat
<1>1. PICK h : AreProducts(h, v) /\ h[Len(v)] = NumberOfPossibleKeys(v)
  BY ProductChain
<1>2. Len(v) \in 0..Len(v)
  <2>1. Len(v) \in Nat
    BY ListLength DEF IsLists
  <2>2. QED
    BY <2>1
<1>3. QED
  BY <1>1, <1>2 DEF AreProducts

-----------------------------------------------------------------------------
(* The entries of a URL *)

FoundFolds(f, es, url) ==
  f = [s \in SUBSET DOMAIN es |->
         IF s = {} THEN <<>>
         ELSE IF es[Max(s)].url = url THEN Append(f[s \ {Max(s)}], es[Max(s)])
                                      ELSE f[s \ {Max(s)}]]

(* EntriesOf finds the entries of a URL, all of them and no others. *)
LEMMA EntriesOfUrl ==
  ASSUME NEW es, IsList(es), NEW url
  PROVE  /\ IsList(EntriesOf(es, url))
         /\ \A x : Occurs(x, EntriesOf(es, url)) <=>
                     \E i \in 1..Len(es) : es[i] = x /\ x.url = url
<1> DEFINE n == Len(es)
           A == Seq(Range(es))
           found(a, i) == IF es[i].url = url THEN Append(a, es[i]) ELSE a
           g == [x \in A \X (1..n) |-> found(x[1], x[2])]
           f == CHOOSE h : FoundFolds(h, es, url)
<1>1. n \in Nat /\ DOMAIN es = 1..n /\ \A i \in 1..n : es[i] \in Range(es)
  BY ListLength DEF Range
<1>2. EntriesOf(es, url) = f[DOMAIN es]
  BY DEF EntriesOf, FoldLeft, MapThenFoldSet, FoundFolds
<1> HIDE DEF n
<1>3. \A a \in A, i \in 1..n : found(a, i) \in A
  BY <1>1, AppendProperties
<1>4. <<>> \in A
  BY EmptySeq
<1> HIDE DEF found
<1>5. g \in [A \X (1..n) -> A] /\ \A a \in A, i \in 1..n : g[<<a, i>>] = found(a, i)
  BY <1>3
<1> HIDE DEF g, A
<1>6. FoundFolds(f, es, url)
  <2>1. PICK h \in [SUBSET (1..n) -> A] : Folds(h, n, <<>>, g)
    BY <1>1, <1>4, <1>5, FoldExists
  <2>2. ASSUME NEW s \in SUBSET (1..n), s # {}
        PROVE  g[<<h[s \ {Max(s)}], Max(s)>>] = found(h[s \ {Max(s)}], Max(s))
    <3>1. Max(s) \in 1..n /\ s \ {Max(s)} \in SUBSET (1..n)
      BY <1>1, <2>2, MaxIsIn
    <3>2. QED
      BY <1>5, <3>1
  <2>3. h = [s \in SUBSET (1..n) |-> IF s = {} THEN <<>> ELSE found(h[s \ {Max(s)}], Max(s))]
    BY <2>1, <2>2 DEF Folds
  <2>4. FoundFolds(h, es, url)
    BY <1>1, <2>3 DEF FoundFolds, found
  <2>5. QED
    BY <2>4
<1> HIDE DEF f
<1>7. \A s \in SUBSET (1..n) : f[s] = IF s = {} THEN <<>> ELSE found(f[s \ {Max(s)}], Max(s))
  BY <1>1, <1>6 DEF FoundFolds, found
<1>8. f[{}] = <<>>
  <2>1. {} \in SUBSET (1..n)
    OBVIOUS
  <2>2. QED
    BY <1>7, <2>1
<1>9. \A k \in 1..n : f[1..(k - 1)] \in A => f[1..k] = g[<<f[1..(k - 1)], k>>]
  <2> SUFFICES ASSUME NEW k \in 1..n, f[1..(k - 1)] \in A
               PROVE  f[1..k] = g[<<f[1..(k - 1)], k>>]
    OBVIOUS
  <2>1. 1..k \in SUBSET (1..n) /\ 1..k # {} /\ Max(1..k) = k /\ (1..k) \ {k} = 1..(k - 1)
    BY <1>1, FirstOf
  <2>2. f[1..k] = found(f[1..(k - 1)], k)
    BY <1>7, <2>1
  <2>3. QED
    BY <1>5, <2>2
<1>10. PICK h \in [0..n -> A] : IsFoldChain(h, n, <<>>, g) /\ h[n] = f[1..n]
  <2>1. Unfolds(f, A, n, <<>>, g)
    BY <1>8, <1>9 DEF Unfolds
  <2>2. n \in Nat /\ <<>> \in A
    BY <1>1, <1>4
  <2>3. g \in [A \X (1..n) -> A]
    BY <1>5
  <2>4. HasChain(f, A, n, <<>>, g)
    BY <2>1, <2>2, <2>3, FoldChain
  <2>5. QED
    BY <2>4 DEF HasChain
<1>11. \A k \in 1..n : h[k - 1] \in A /\ h[k] = found(h[k - 1], k)
  <2>1. \A k \in 1..n : k - 1 \in 0..n
    BY <1>1
  <2>2. QED
    BY <1>5, <1>10, <2>1 DEF IsFoldChain
<1> DEFINE Holds(k) == \A x : Occurs(x, h[k]) <=> \E i \in 1..k : es[i] = x /\ x.url = url
           K == {k \in Nat : k <= n => Holds(k)}
<1>12. Holds(0)
  <2>1. \A i : i \notin 1..0
    OBVIOUS
  <2>2. DOMAIN h[0] = {}
    BY <1>10 DEF IsFoldChain
  <2>3. QED
    BY <2>1, <2>2 DEF Occurs
<1>13. ASSUME NEW k \in Nat, k + 1 <= n, Holds(k) PROVE Holds(k + 1)
  <2>1. /\ k + 1 \in 1..n /\ (k + 1) - 1 = k
        /\ \A i : i \in 1..(k + 1) <=> i \in 1..k \/ i = k + 1
    BY <1>13
  <2> DEFINE m == k + 1
  <2>2. h[k] \in A /\ h[m] = found(h[k], m) /\ es[m] \in Range(es)
    BY <1>1, <1>11, <2>1
  <2> SUFFICES ASSUME NEW x
               PROVE  Occurs(x, h[m]) <=> \E i \in 1..m : es[i] = x /\ x.url = url
    OBVIOUS
  <2>3. (\E i \in 1..m : es[i] = x /\ x.url = url)
          <=> (\E i \in 1..k : es[i] = x /\ x.url = url) \/ (es[m] = x /\ x.url = url)
    BY <2>1
  <2>4. Occurs(x, h[k]) <=> \E i \in 1..k : es[i] = x /\ x.url = url
    BY <1>13
  <2> HIDE DEF m
  <2>5. CASE es[m].url = url
    <3>1. h[m] = Append(h[k], es[m]) /\ h[k] \in Seq(Range(es))
      BY <2>2, <2>5 DEF found, A
    <3>2. <<es[m]>> \in Seq(Range(es)) /\ h[m] = h[k] \o <<es[m]>>
      BY <2>2, <3>1, AppendIsConcat
    <3>3. Occurs(x, <<es[m]>>) <=> es[m] = x
      BY DEF Occurs
    <3>4. Occurs(x, h[m]) <=> Occurs(x, h[k]) \/ Occurs(x, <<es[m]>>)
      <4> DEFINE a == h[k]
                 b == <<es[m]>>
                 c == h[m]
                 S == Range(es)
      <4>1. a \in Seq(S) /\ b \in Seq(S) /\ c = a \o b
        BY <3>1, <3>2
      <4> HIDE DEF a, b, c, S
      <4>2. Occurs(x, c) <=> Occurs(x, a) \/ Occurs(x, b)
        BY <4>1, OccursInJoin
      <4>3. QED
        BY <4>2 DEF a, b, c
    <3>5. QED
      BY <2>3, <2>4, <2>5, <3>3, <3>4
  <2>6. CASE es[m].url # url
    <3>1. h[m] = h[k]
      BY <2>2, <2>6 DEF found
    <3>2. QED
      BY <2>3, <2>4, <2>6, <3>1
  <2>7. QED
    BY <2>5, <2>6
<1> HIDE DEF Holds
<1>14. 0 \in K
  BY <1>12
<1>15. ASSUME NEW k \in Nat, k \in K PROVE k + 1 \in K
  <2> SUFFICES ASSUME k + 1 <= n PROVE Holds(k + 1)
    OBVIOUS
  <2>1. Holds(k)
    BY <1>1, <1>15
  <2>2. QED
    BY <1>13, <2>1
<1>16. Holds(n)
  <2> HIDE DEF K
  <2>1. n \in K
    BY <1>1, <1>14, <1>15, InductionOnSets
  <2>2. QED
    BY <1>1, <2>1 DEF K
<1>17. EntriesOf(es, url) = h[n] /\ h[n] \in A
  <2>1. n \in 0..n
    BY <1>1
  <2>2. QED
    BY <1>1, <1>2, <1>10, <2>1
<1>18. IsList(EntriesOf(es, url))
  BY <1>17, SeqIsList DEF A
<1>19. QED
  BY <1>16, <1>17, <1>18 DEF Holds, n

-----------------------------------------------------------------------------
(* The order of possible keys                                              *)

(* A value of an axis is found there, where it is first. *)
LEMMA ValueInAxis ==
  ASSUME NEW vals, IsList(vals), NEW value, \E j \in DOMAIN vals : vals[j] = value
  PROVE  /\ IndexInAxis(vals, value) \in 0..(Len(vals) - 1)
         /\ vals[IndexInAxis(vals, value) + 1] = value
<1> DEFINE J == {j \in 1..Len(vals) : vals[j] = value}
           first == CHOOSE j \in DOMAIN vals : vals[j] = value /\ \A l \in 1..(j - 1) : vals[l] # value
<1>1. Len(vals) \in Nat /\ DOMAIN vals = 1..Len(vals)
  BY ListLength
<1>2. J \in SUBSET Nat /\ J # {}
  BY <1>1
<1>3. Min(J) \in J /\ \A j \in J : Min(J) <= j
  BY <1>2, MinIsLeast
<1>4. \E j \in DOMAIN vals : vals[j] = value /\ \A l \in 1..(j - 1) : vals[l] # value
  <2> DEFINE j == Min(J)
  <2>1. j \in 1..Len(vals) /\ vals[j] = value
    BY <1>3
  <2>2. ASSUME NEW l \in 1..(j - 1) PROVE vals[l] # value
    <3> HIDE DEF j
    <3>1. l \in 1..Len(vals) /\ ~(j <= l)
      BY <1>1, <2>1
    <3>2. l \notin J
      BY <1>3, <3>1 DEF j
    <3>3. QED
      BY <3>1, <3>2
  <2>3. QED
    BY <1>1, <2>1, <2>2
<1>5. first \in DOMAIN vals /\ vals[first] = value
  BY <1>4
<1> HIDE DEF first
<1>6. IndexInAxis(vals, value) = first - 1
  BY DEF IndexInAxis, first
<1>7. QED
  BY <1>1, <1>5, <1>6

KeyFolds(f, v, key) ==
  f = [s \in SUBSET DOMAIN [i \in DOMAIN v |-> i] |->
         IF s = {} THEN 0
         ELSE Place(f[s \ {Max(s)}], v[[i \in DOMAIN v |-> i][Max(s)]], key[[i \in DOMAIN v |-> i][Max(s)]])]

(* The indices of a key by its first axes.                                 *)
AreIndices(h, v, key) ==
  /\ h \in [0..Len(v) -> Nat] /\ h[0] = 0
  /\ \A k \in 1..Len(v) : h[k] = h[k - 1] * Len(v[k]) + IndexInAxis(v[k], key[k])

(* The index of a possible key is computed axis by axis.                   *)
LEMMA IndexChain ==
  ASSUME NEW v, IsLists(v), NEW key, IsPossibleKey(v, key)
  PROVE  \E h : AreIndices(h, v, key) /\ h[Len(v)] = IndexInPossibleKeys(v, key)
<1> DEFINE n == Len(v)
           step(a, i) == Place(a, v[i], key[i])
           g == [x \in Nat \X (1..n) |-> step(x[1], x[2])]
           f == CHOOSE h : KeyFolds(h, v, key)
           same == [i \in DOMAIN v |-> i]
<1>1. n \in Nat /\ DOMAIN v = 1..n /\ \A i \in 1..n : IsList(v[i]) /\ Len(v[i]) \in Nat
  BY ListLength DEF IsLists
<1>2. IndexInPossibleKeys(v, key) = f[DOMAIN [i \in DOMAIN v |-> i]]
  BY DEF IndexInPossibleKeys, FoldLeft, MapThenFoldSet, KeyFolds
<1>2a. DOMAIN same = 1..n /\ \A i \in 1..n : same[i] = i
  BY <1>1
<1> HIDE DEF n, same
<1>3. \A i \in 1..n : IndexInAxis(v[i], key[i]) \in Nat
  <2> SUFFICES ASSUME NEW i \in 1..n PROVE IndexInAxis(v[i], key[i]) \in Nat
    OBVIOUS
  <2>1. \E j \in DOMAIN v[i] : v[i][j] = key[i]
    BY <1>1 DEF IsPossibleKey
  <2>2. IndexInAxis(v[i], key[i]) \in 0..(Len(v[i]) - 1)
    BY <1>1, <2>1, ValueInAxis
  <2>3. QED
    BY <1>1, <2>2
<1>4. \A a \in Nat, i \in 1..n : step(a, i) \in Nat
  <2>1. \A a, b, c \in Nat : a * b + c \in Nat
    OBVIOUS
  <2>2. QED
    BY <1>1, <1>3, <2>1 DEF Place
<1> HIDE DEF step
<1>5. g \in [Nat \X (1..n) -> Nat] /\ \A a \in Nat, i \in 1..n : g[<<a, i>>] = step(a, i)
  BY <1>4
<1> HIDE DEF g
<1>6. KeyFolds(f, v, key)
  <2>1. PICK h \in [SUBSET (1..n) -> Nat] : Folds(h, n, 0, g)
    BY <1>1, <1>5, FoldExists
  <2>2. ASSUME NEW s \in SUBSET (1..n), s # {}
        PROVE  g[<<h[s \ {Max(s)}], Max(s)>>] = step(h[s \ {Max(s)}], same[Max(s)])
    <3>1. Max(s) \in 1..n /\ s \ {Max(s)} \in SUBSET (1..n)
      BY <1>1, <2>2, MaxIsIn
    <3>2. QED
      BY <1>2a, <1>5, <3>1
  <2>3. h = [s \in SUBSET (1..n) |->
               IF s = {} THEN 0 ELSE step(h[s \ {Max(s)}], same[Max(s)])]
    BY <2>1, <2>2 DEF Folds
  <2>4. KeyFolds(h, v, key)
    BY <1>2a, <2>3 DEF KeyFolds, step, same
  <2>5. QED
    BY <2>4
<1> HIDE DEF f
<1>7. \A s \in SUBSET (1..n) : f[s] = IF s = {} THEN 0 ELSE step(f[s \ {Max(s)}], Max(s))
  <2>1. f = [s \in SUBSET (1..n) |->
               IF s = {} THEN 0 ELSE step(f[s \ {Max(s)}], same[Max(s)])]
    BY <1>2a, <1>6 DEF KeyFolds, step, same
  <2>2. \A s \in SUBSET (1..n) : s # {} => same[Max(s)] = Max(s)
    BY <1>1, <1>2a, MaxIsIn
  <2>3. QED
    BY <2>1, <2>2
<1>8. f[{}] = 0
  <2>1. {} \in SUBSET (1..n)
    OBVIOUS
  <2>2. QED
    BY <1>7, <2>1
<1>9. \A k \in 1..n : f[1..(k - 1)] \in Nat => f[1..k] = g[<<f[1..(k - 1)], k>>]
  <2> SUFFICES ASSUME NEW k \in 1..n, f[1..(k - 1)] \in Nat
               PROVE  f[1..k] = g[<<f[1..(k - 1)], k>>]
    OBVIOUS
  <2>1. 1..k \in SUBSET (1..n) /\ 1..k # {} /\ Max(1..k) = k /\ (1..k) \ {k} = 1..(k - 1)
    BY <1>1, FirstOf
  <2>2. f[1..k] = step(f[1..(k - 1)], k)
    BY <1>7, <2>1
  <2>3. QED
    BY <1>5, <2>2
<1>10. PICK h \in [0..n -> Nat] : IsFoldChain(h, n, 0, g) /\ h[n] = f[1..n]
  <2>1. Unfolds(f, Nat, n, 0, g)
    BY <1>8, <1>9 DEF Unfolds
  <2>2. n \in Nat /\ 0 \in Nat /\ g \in [Nat \X (1..n) -> Nat]
    BY <1>1, <1>5
  <2>3. HasChain(f, Nat, n, 0, g)
    BY <2>1, <2>2, FoldChain
  <2>4. QED
    BY <2>3 DEF HasChain
<1>11. \A k \in 1..n : h[k] = step(h[k - 1], k)
  <2>1. \A k \in 1..n : k - 1 \in 0..n
    BY <1>1
  <2>2. QED
    BY <1>5, <1>10, <2>1 DEF IsFoldChain
<1>12. AreIndices(h, v, key)
  BY <1>10, <1>11 DEF AreIndices, IsFoldChain, n, step, Place
<1>13. h[n] = IndexInPossibleKeys(v, key)
  BY <1>2, <1>2a, <1>10 DEF same
<1>14. QED
  BY <1>12, <1>13 DEF n

(* A number and a digit: the number counts first. *)
LEMMA DigitsInOrder ==
  ASSUME NEW l \in Nat, NEW x \in 0..(l - 1), NEW y \in 0..(l - 1), NEW a \in Nat, NEW b \in Nat
  PROVE  /\ a * l + x < b * l + y <=> a < b \/ (a = b /\ x < y)
         /\ a * l + x = b * l + y <=> a = b /\ x = y
<1>1. ASSUME NEW c \in Nat, NEW d \in Nat, c < d PROVE c * l + l <= d * l
  <2>1. PICK e \in Nat : d = c + 1 + e
    <3>1. d - c - 1 \in Nat /\ d = c + 1 + (d - c - 1)
      BY <1>1
    <3>2. QED
      BY <3>1
  <2>2. d * l = c * l + l + e * l
    BY <2>1
  <2>3. c * l \in Nat /\ e * l \in Nat
    OBVIOUS
  <2>4. QED
    BY <2>2, <2>3
<1>2. a * l \in Nat /\ b * l \in Nat
  OBVIOUS
<1>3. CASE a < b
  <2>1. a * l + l <= b * l
    BY <1>1, <1>3
  <2> DEFINE al == a * l
             bl == b * l
  <2>2. al \in Nat /\ bl \in Nat /\ al + l <= bl
    BY <1>2, <2>1
  <2> HIDE DEF al, bl
  <2>3. al + x < bl + y /\ al + x # bl + y
    BY <2>2
  <2>4. QED
    BY <1>3, <2>3 DEF al, bl
<1>4. CASE b < a
  <2>1. b * l + l <= a * l
    BY <1>1, <1>4
  <2> DEFINE al == a * l
             bl == b * l
  <2>2. al \in Nat /\ bl \in Nat /\ bl + l <= al
    BY <1>2, <2>1
  <2> HIDE DEF al, bl
  <2>3. ~(al + x < bl + y) /\ al + x # bl + y
    BY <2>2
  <2>4. QED
    BY <1>4, <2>3 DEF al, bl
<1>5. CASE a = b
  <2> DEFINE al == a * l
  <2>1. al \in Nat
    BY <1>2
  <2> HIDE DEF al
  <2>2. (al + x < al + y <=> x < y) /\ (al + x = al + y <=> x = y)
    BY <2>1
  <2>3. QED
    BY <1>5, <2>2 DEF al
<1>6. QED
  BY <1>3, <1>4, <1>5

(* Where a value of a key is on its axis. *)
Axis(v, key, i) == IndexInAxis(v[i], key[i])

(* Row-major order of keys by the first k axes: the first axis in which    *)
(* they differ decides.                                                    *)
Agree(a, b, k) == \A i \in 1..k : a[i] = b[i]
RowMajor(v, a, b, k) ==
  \E i \in 1..k : Agree(a, b, i - 1) /\ Axis(v, a, i) < Axis(v, b, i)

(* The value of a possible key is on the axis where its index says.       *)
LEMMA AxisIndex ==
  ASSUME NEW v, IsLists(v), NEW key, IsPossibleKey(v, key), NEW i \in 1..Len(v)
  PROVE  /\ Len(v[i]) \in Nat /\ Axis(v, key, i) \in 0..(Len(v[i]) - 1)
         /\ v[i][Axis(v, key, i) + 1] = key[i]
<1>1. DOMAIN v = 1..Len(v) /\ IsList(v[i]) /\ Len(v[i]) \in Nat
  BY ListLength DEF IsLists
<1>2. \E j \in DOMAIN v[i] : v[i][j] = key[i]
  BY <1>1 DEF IsPossibleKey
<1>3. QED
  BY <1>1, <1>2, ValueInAxis DEF Axis

(* The index of a possible key is below the number of keys, if there are   *)
(* not too many.                                                           *)
LEMMA IndexInRange ==
  ASSUME NEW v, IsLists(v), NumberOfPossibleKeys(v) # 0, NEW key, IsPossibleKey(v, key)
  PROVE  IndexInPossibleKeys(v, key) \in 0..(NumberOfPossibleKeys(v) - 1)
<1>1. PICK p : AreProducts(p, v) /\ p[Len(v)] = NumberOfPossibleKeys(v)
  BY ProductChain
<1>2. PICK h : AreIndices(h, v, key) /\ h[Len(v)] = IndexInPossibleKeys(v, key)
  BY IndexChain
<1>3. Len(v) \in Nat
  BY ListLength DEF IsLists
<1> DEFINE Holds(k) == p[k] # 0 => h[k] < p[k]
           K == {k \in Nat : k <= Len(v) => Holds(k)}
<1>4. 0 \in K
  <2>1. p[0] = 1 /\ h[0] = 0
    BY <1>1, <1>2 DEF AreProducts, AreIndices
  <2>2. Holds(0)
    BY <2>1
  <2>3. QED
    BY <2>2
<1>5. ASSUME NEW k \in Nat, k \in K PROVE k + 1 \in K
  <2> SUFFICES ASSUME k + 1 <= Len(v) PROVE Holds(k + 1)
    OBVIOUS
  <2> DEFINE l == Len(v[k + 1])
             x == Axis(v, key, k + 1)
             i == h[k]
             q == p[k]
  <2>1. k + 1 \in 1..Len(v) /\ (k + 1) - 1 = k /\ k \in 0..Len(v) /\ k <= Len(v)
    BY <1>3
  <2>2. l \in Nat /\ x \in 0..(l - 1)
    BY <2>1, AxisIndex
  <2>3. h[k + 1] = i * l + x
    BY <1>2, <2>1 DEF AreIndices, Axis
  <2>4. p[k + 1] = Capped(q, l)
    BY <1>1, <2>1 DEF AreProducts
  <2>5. i \in Nat /\ q \in Nat
    BY <1>1, <1>2, <2>1 DEF AreProducts, AreIndices
  <2>6. q # 0 => i < q
    BY <1>5, <2>1
  <2> HIDE DEF l, x, i, q
  <2>7. CASE p[k + 1] # 0
    <3>1. p[k + 1] = q * l
      BY <2>4, <2>7 DEF Capped
    <3>2. q # 0
      BY <2>2, <2>7, <3>1
    <3>3. i * l + x < q * l + 0
      <4>1. i < q /\ 0 \in 0..(l - 1)
        BY <2>2, <2>6, <3>2
      <4>2. QED
        BY <2>2, <2>5, <4>1, DigitsInOrder
    <3>4. q * l \in Nat
      BY <2>2, <2>5
    <3>5. QED
      BY <2>3, <3>1, <3>3, <3>4
  <2>8. QED
    BY <2>7
<1>6. Holds(Len(v))
  <2> HIDE DEF K
  <2>1. Len(v) \in K
    BY <1>3, <1>4, <1>5, InductionOnSets
  <2>2. QED
    BY <1>3, <2>1 DEF K
<1>7. h[Len(v)] \in Nat /\ p[Len(v)] \in Nat
  BY <1>1, <1>2, <1>3 DEF AreProducts, AreIndices
<1>8. QED
  BY <1>1, <1>2, <1>6, <1>7

(* indexInPossibleKeys numbers the possible keys of a Variants value in    *)
(* row-major order: each has a number of its own, below the number of keys,*)
(* and of two keys the first one is the one whose value comes first on the *)
(* first axis where they differ.                                           *)
THEOREM KeysInRowMajorOrder ==
  ASSUME NEW v, IsLists(v), NumberOfPossibleKeys(v) # 0,
         NEW a, IsList(a), IsPossibleKey(v, a), NEW b, IsList(b), IsPossibleKey(v, b)
  PROVE  /\ IndexInPossibleKeys(v, a) \in 0..(NumberOfPossibleKeys(v) - 1)
         /\ IndexInPossibleKeys(v, a) = IndexInPossibleKeys(v, b) <=> a = b
         /\ IndexInPossibleKeys(v, a) < IndexInPossibleKeys(v, b) <=> RowMajor(v, a, b, Len(v))
<1> DEFINE n == Len(v)
<1>1. PICK h : AreIndices(h, v, a) /\ h[n] = IndexInPossibleKeys(v, a)
  BY IndexChain
<1>2. PICK g : AreIndices(g, v, b) /\ g[n] = IndexInPossibleKeys(v, b)
  BY IndexChain
<1>3. n \in Nat
  BY ListLength DEF IsLists
<1>4. Len(a) = n /\ Len(b) = n
  BY DEF IsPossibleKey
<1> DEFINE Holds(k) == /\ h[k] = g[k] <=> Agree(a, b, k)
                       /\ h[k] < g[k] <=> RowMajor(v, a, b, k)
           K == {k \in Nat : k <= n => Holds(k)}
<1>5. 0 \in K
  <2>1. h[0] = 0 /\ g[0] = 0
    BY <1>1, <1>2 DEF AreIndices
  <2>2. Agree(a, b, 0) /\ ~RowMajor(v, a, b, 0)
    BY DEF Agree, RowMajor
  <2>3. Holds(0)
    BY <2>1, <2>2
  <2>4. QED
    BY <2>3
<1>6. ASSUME NEW k \in Nat, k \in K PROVE k + 1 \in K
  <2> SUFFICES ASSUME k + 1 <= n PROVE Holds(k + 1)
    OBVIOUS
  <2> DEFINE l == Len(v[k + 1])
             x == Axis(v, a, k + 1)
             y == Axis(v, b, k + 1)
             i == h[k]
             j == g[k]
  <2>1. k + 1 \in 1..n /\ (k + 1) - 1 = k /\ k \in 0..n /\ k <= n
    BY <1>3
  <2>2. /\ l \in Nat /\ x \in 0..(l - 1) /\ y \in 0..(l - 1)
        /\ v[k + 1][x + 1] = a[k + 1] /\ v[k + 1][y + 1] = b[k + 1]
    BY <2>1, AxisIndex
  <2>3. x = y <=> a[k + 1] = b[k + 1]
    <3>1. a[k + 1] = b[k + 1] => x = y
      BY DEF Axis
    <3>2. x = y => a[k + 1] = b[k + 1]
      BY <2>2
    <3>3. QED
      BY <3>1, <3>2
  <2>4. h[k + 1] = i * l + x /\ g[k + 1] = j * l + y
    BY <1>1, <1>2, <2>1 DEF AreIndices, Axis
  <2>5. i \in Nat /\ j \in Nat
    BY <1>1, <1>2, <2>1 DEF AreIndices
  <2>6. (i = j <=> Agree(a, b, k)) /\ (i < j <=> RowMajor(v, a, b, k))
    BY <1>6, <2>1
  <2>7. Agree(a, b, k + 1) <=> Agree(a, b, k) /\ a[k + 1] = b[k + 1]
    <3>1. \A m : m \in 1..(k + 1) <=> m \in 1..k \/ m = k + 1
      OBVIOUS
    <3>2. QED
      BY <3>1 DEF Agree
  <2>8. RowMajor(v, a, b, k + 1) <=> RowMajor(v, a, b, k) \/ (Agree(a, b, k) /\ x < y)
    <3>1. \A m : m \in 1..(k + 1) <=> m \in 1..k \/ m = k + 1
      OBVIOUS
    <3>2. QED
      BY <2>1, <3>1 DEF RowMajor
  <2> HIDE DEF l, x, y, i, j
  <2>9. /\ i * l + x < j * l + y <=> i < j \/ (i = j /\ x < y)
        /\ i * l + x = j * l + y <=> i = j /\ x = y
    BY <2>2, <2>5, DigitsInOrder
  <2>10. QED
    BY <2>3, <2>4, <2>6, <2>7, <2>8, <2>9
<1>7. Holds(n)
  <2> HIDE DEF K
  <2>1. n \in K
    BY <1>3, <1>5, <1>6, InductionOnSets
  <2>2. QED
    BY <1>3, <2>1 DEF K
<1>8. Agree(a, b, n) <=> a = b
  BY <1>4, SameList DEF Agree
<1>9. IndexInPossibleKeys(v, a) \in 0..(NumberOfPossibleKeys(v) - 1)
  BY IndexInRange
<1>10. QED
  BY <1>1, <1>2, <1>7, <1>8, <1>9

-----------------------------------------------------------------------------
(* The slots of a URL's possible keys                                      *)

AreSlots(slots, n) == slots \in [0..(n - 1) -> Int]
AreDead(slots, n) == slots = [i \in 0..(n - 1) |-> -1]

(* The slot that the p-th of some keys claims. *)
SlotOf(v, keys, p) == IndexInPossibleKeys(v, keys[p])

(* The slots of the first k keys exist, are free and differ. *)
Fit(v, keys, slots, n, k) ==
  /\ \A p \in 1..k : SlotOf(v, keys, p) \in 0..(n - 1) /\ slots[SlotOf(v, keys, p)] = 0
  /\ \A p, q \in 1..k : SlotOf(v, keys, p) = SlotOf(v, keys, q) => p = q

(* What becomes of the slots when an entry claims those of its first k     *)
(* keys: they are the entry's, or there is an end to all slots.            *)
Claimed(v, keys, old, new, n, e, k) ==
  IF Fit(v, keys, old, n, k)
  THEN \A i \in 0..(n - 1) :
         new[i] = IF \E p \in 1..k : SlotOf(v, keys, p) = i THEN e ELSE old[i]
  ELSE AreDead(new, n)

(* Put claims the slot of one more key. *)
LEMMA PutClaims ==
  ASSUME NEW v, NEW keys, NEW n \in Nat, NEW e \in Nat, e # 0, NEW k \in Nat,
         NEW old, NEW new, AreSlots(old, n), AreSlots(new, n),
         Claimed(v, keys, old, new, n, e, k)
  PROVE  LET put == Put(new, SlotOf(v, keys, k + 1), e)
         IN AreSlots(put, n) /\ Claimed(v, keys, old, put, n, e, k + 1)
<1> DEFINE D == 0..(n - 1)
           s == SlotOf(v, keys, k + 1)
           put == Put(new, s, e)
           slot(p) == SlotOf(v, keys, p)
<1>1. new \in [D -> Int] /\ e \in Int /\ -1 \in Int /\ 0 # -1
  BY DEF AreSlots
<1>2. \A p : p \in 1..(k + 1) <=> p \in 1..k \/ p = k + 1
  OBVIOUS
<1>2a. k + 1 \notin 1..k
  OBVIOUS
<1>3. AreSlots(put, n)
  <2>1. put = [new EXCEPT ![s] = e] \/ put = [i \in D |-> -1]
    BY <1>1 DEF Put
  <2> HIDE DEF put, s
  <2>2. QED
    BY <1>1, <2>1 DEF AreSlots
<1>4. Fit(v, keys, old, n, k + 1) <=>
        /\ Fit(v, keys, old, n, k)
        /\ s \in D /\ old[s] = 0 /\ \A p \in 1..k : slot(p) # s
  BY <1>2, <1>2a DEF Fit
<1> HIDE DEF s
<1>5. CASE Fit(v, keys, old, n, k)
  <2>1. \A i \in D : new[i] = IF \E p \in 1..k : slot(p) = i THEN e ELSE old[i]
    BY <1>5 DEF Claimed
  <2>2. CASE s \in D /\ old[s] = 0 /\ \A p \in 1..k : slot(p) # s
    <3>1. new[s] = 0
      BY <2>1, <2>2
    <3>2. put = [new EXCEPT ![s] = e]
      BY <1>1, <2>2, <3>1 DEF Put
    <3>3. ASSUME NEW i \in D
          PROVE  put[i] = IF \E p \in 1..(k + 1) : slot(p) = i THEN e ELSE old[i]
      <4>1. put[i] = IF i = s THEN e ELSE new[i]
        BY <1>1, <3>2
      <4>2. (\E p \in 1..(k + 1) : slot(p) = i) <=> (\E p \in 1..k : slot(p) = i) \/ i = s
        BY <1>2 DEF s
      <4> HIDE DEF put, slot
      <4>3. QED
        BY <2>1, <4>1, <4>2
    <3>4. QED
      BY <1>3, <1>4, <1>5, <2>2, <3>3 DEF Claimed, s
  <2>3. CASE ~(s \in D /\ old[s] = 0 /\ \A p \in 1..k : slot(p) # s)
    <3>1. ~(s \in DOMAIN new /\ new[s] = 0)
      BY <1>1, <2>1, <2>3
    <3>2. put = [i \in D |-> -1]
      BY <1>1, <3>1 DEF Put
    <3>3. AreDead(put, n)
      BY <3>2 DEF AreDead
    <3>4. QED
      BY <1>3, <1>4, <2>3, <3>3 DEF Claimed, s
  <2>4. QED
    BY <2>2, <2>3
<1>6. CASE ~Fit(v, keys, old, n, k)
  <2>1. new = [i \in D |-> -1]
    BY <1>6 DEF Claimed, AreDead
  <2>2. ~(s \in DOMAIN new /\ new[s] = 0)
    BY <1>1, <2>1
  <2>3. put = [i \in D |-> -1]
    BY <1>1, <2>2 DEF Put
  <2>4. AreDead(put, n)
    BY <2>3 DEF AreDead
  <2>5. QED
    BY <1>3, <1>4, <1>6, <2>4 DEF Claimed, s
<1>7. QED
  BY <1>5, <1>6

ClaimFolds(f, v, slots, e, keys) ==
  f = [s \in SUBSET DOMAIN keys |->
         IF s = {} THEN slots
         ELSE Put(f[s \ {Max(s)}], IndexInPossibleKeys(v, keys[Max(s)]), e)]

(* An entry claims the slots of its keys one after the other. *)
LEMMA ClaimClaims ==
  ASSUME NEW v, NEW n \in Nat, NEW slots, AreSlots(slots, n), NEW e \in Nat, e # 0,
         NEW keys, IsList(keys)
  PROVE  /\ AreSlots(Claim(v, slots, e, keys), n)
         /\ Claimed(v, keys, slots, Claim(v, slots, e, keys), n, e, Len(keys))
<1> DEFINE m == Len(keys)
           A == [0..(n - 1) -> Int]
           at(i) == IndexInPossibleKeys(v, keys[i])
           g == [x \in A \X (1..m) |-> Put(x[1], at(x[2]), e)]
           f == CHOOSE h : ClaimFolds(h, v, slots, e, keys)
<1>1. m \in Nat /\ DOMAIN keys = 1..m
  BY ListLength
<1>2. Claim(v, slots, e, keys) = f[DOMAIN keys]
  BY DEF Claim, FoldLeft, MapThenFoldSet, ClaimFolds
<1> HIDE DEF m, at
<1>3. ASSUME NEW a \in A, NEW i \in 1..m PROVE Put(a, at(i), e) \in A
  <2>1. e \in Int /\ -1 \in Int
    OBVIOUS
  <2>2. Put(a, at(i), e) = [a EXCEPT ![at(i)] = e] \/ Put(a, at(i), e) = [j \in 0..(n - 1) |-> -1]
    BY DEF Put
  <2>3. QED
    BY <2>1, <2>2
<1>4. slots \in A
  BY DEF AreSlots
<1>5. g \in [A \X (1..m) -> A] /\ \A a \in A, i \in 1..m : g[<<a, i>>] = Put(a, at(i), e)
  BY <1>3
<1> HIDE DEF g, A
<1>6. ClaimFolds(f, v, slots, e, keys)
  <2>1. PICK h \in [SUBSET (1..m) -> A] : Folds(h, m, slots, g)
    BY <1>1, <1>4, <1>5, FoldExists
  <2>2. ASSUME NEW s \in SUBSET (1..m), s # {}
        PROVE  g[<<h[s \ {Max(s)}], Max(s)>>] = Put(h[s \ {Max(s)}], at(Max(s)), e)
    <3>1. Max(s) \in 1..m /\ s \ {Max(s)} \in SUBSET (1..m)
      BY <1>1, <2>2, MaxIsIn
    <3>2. QED
      BY <1>5, <3>1
  <2>3. h = [s \in SUBSET (1..m) |->
               IF s = {} THEN slots ELSE Put(h[s \ {Max(s)}], at(Max(s)), e)]
    BY <2>1, <2>2 DEF Folds
  <2>4. ClaimFolds(h, v, slots, e, keys)
    BY <1>1, <2>3 DEF ClaimFolds, at
  <2>5. QED
    BY <2>4
<1> HIDE DEF f
<1>7. \A s \in SUBSET (1..m) : f[s] = IF s = {} THEN slots ELSE Put(f[s \ {Max(s)}], at(Max(s)), e)
  BY <1>1, <1>6 DEF ClaimFolds, at
<1>8. f[{}] = slots
  <2>1. {} \in SUBSET (1..m)
    OBVIOUS
  <2>2. QED
    BY <1>7, <2>1
<1>9. \A k \in 1..m : f[1..(k - 1)] \in A => f[1..k] = g[<<f[1..(k - 1)], k>>]
  <2> SUFFICES ASSUME NEW k \in 1..m, f[1..(k - 1)] \in A
               PROVE  f[1..k] = g[<<f[1..(k - 1)], k>>]
    OBVIOUS
  <2>1. 1..k \in SUBSET (1..m) /\ 1..k # {} /\ Max(1..k) = k /\ (1..k) \ {k} = 1..(k - 1)
    BY <1>1, FirstOf
  <2>2. f[1..k] = Put(f[1..(k - 1)], at(k), e)
    BY <1>7, <2>1
  <2>3. QED
    BY <1>5, <2>2
<1>10. PICK h \in [0..m -> A] : IsFoldChain(h, m, slots, g) /\ h[m] = f[1..m]
  <2>1. Unfolds(f, A, m, slots, g)
    BY <1>8, <1>9 DEF Unfolds
  <2>2. m \in Nat /\ slots \in A /\ g \in [A \X (1..m) -> A]
    BY <1>1, <1>4, <1>5
  <2>3. HasChain(f, A, m, slots, g)
    BY <2>1, <2>2, FoldChain
  <2>4. QED
    BY <2>3 DEF HasChain
<1>11. \A k \in 1..m : h[k - 1] \in A /\ h[k] = Put(h[k - 1], at(k), e)
  <2>1. \A k \in 1..m : k - 1 \in 0..m
    BY <1>1
  <2>2. QED
    BY <1>5, <1>10, <2>1 DEF IsFoldChain
<1> DEFINE Holds(k) == AreSlots(h[k], n) /\ Claimed(v, keys, slots, h[k], n, e, k)
           K == {k \in Nat : k <= m => Holds(k)}
<1>12. Holds(0)
  <2>1. h[0] = slots
    BY <1>10 DEF IsFoldChain
  <2>2. 1..0 = {}
    OBVIOUS
  <2>3. QED
    BY <2>1, <2>2 DEF Claimed, Fit
<1>13. ASSUME NEW k \in Nat, k + 1 <= m, Holds(k) PROVE Holds(k + 1)
  <2>1. k + 1 \in 1..m /\ (k + 1) - 1 = k
    BY <1>13
  <2> DEFINE a == h[k]
  <2>2. h[k + 1] = Put(a, SlotOf(v, keys, k + 1), e)
    BY <1>11, <2>1 DEF SlotOf, at
  <2>3. AreSlots(a, n) /\ Claimed(v, keys, slots, a, n, e, k)
    BY <1>13
  <2> HIDE DEF a
  <2>4. QED
    BY <2>2, <2>3, PutClaims
<1> HIDE DEF Holds
<1>14. 0 \in K
  BY <1>12
<1>15. ASSUME NEW k \in Nat, k \in K PROVE k + 1 \in K
  <2> SUFFICES ASSUME k + 1 <= m PROVE Holds(k + 1)
    OBVIOUS
  <2>1. Holds(k)
    BY <1>1, <1>15
  <2>2. QED
    BY <1>13, <2>1
<1>16. Holds(m)
  <2> HIDE DEF K
  <2>1. m \in K
    BY <1>1, <1>14, <1>15, InductionOnSets
  <2>2. QED
    BY <1>1, <2>1 DEF K
<1>17. Claim(v, slots, e, keys) = h[m]
  BY <1>1, <1>2, <1>10
<1>18. QED
  BY <1>16, <1>17 DEF Holds, m

SlotsFolds(f, v, n, es) ==
  f = [s \in SUBSET DOMAIN [e \in DOMAIN es |-> e] |->
         IF s = {} THEN [i \in 0..(n - 1) |-> 0]
         ELSE Claim(v, f[s \ {Max(s)}], [e \in DOMAIN es |-> e][Max(s)],
                    es[[e \in DOMAIN es |-> e][Max(s)]].keys)]

(* The slot that the p-th key of the e-th entry claims. *)
SlotAt(v, es, e, p) == SlotOf(v, es[e].keys, p)

(* The slots of all keys of the first k entries exist and differ. *)
AllFit(v, es, n, k) ==
  /\ \A e \in 1..k : \A p \in 1..Len(es[e].keys) : SlotAt(v, es, e, p) \in 0..(n - 1)
  /\ \A e, f \in 1..k : \A p \in 1..Len(es[e].keys) : \A q \in 1..Len(es[f].keys) :
       SlotAt(v, es, e, p) = SlotAt(v, es, f, q) => e = f /\ p = q

(* After the claims of the first k entries each has the slots of its keys, *)
(* and no others; or there is an end to all slots.                         *)
Shared(v, es, slots, n, k) ==
  IF AllFit(v, es, n, k)
  THEN /\ \A i \in 0..(n - 1) : slots[i] \in 0..k
       /\ \A e \in 1..k : \A i \in 0..(n - 1) :
            slots[i] = e <=> \E p \in 1..Len(es[e].keys) : SlotAt(v, es, e, p) = i
  ELSE AreDead(slots, n)

(* One more entry claims its slots. *)
LEMMA ClaimShares ==
  ASSUME NEW v, NEW es, NEW n \in Nat, NEW k \in Nat, NEW old, NEW new,
         Len(es[k + 1].keys) \in Nat,
         AreSlots(old, n), Shared(v, es, old, n, k), AreSlots(new, n),
         Claimed(v, es[k + 1].keys, old, new, n, k + 1, Len(es[k + 1].keys))
  PROVE  Shared(v, es, new, n, k + 1)
<1> DEFINE D == 0..(n - 1)
           keys == es[k + 1].keys
           m == Len(keys)
           slot(p) == SlotOf(v, keys, p)
           at(e, p) == SlotAt(v, es, e, p)
<1>1. \A e : e \in 1..(k + 1) <=> e \in 1..k \/ e = k + 1
  OBVIOUS
<1>2. k + 1 \notin 0..k /\ k + 1 \notin 1..k /\ 0 \notin 1..(k + 1)
  OBVIOUS
<1>3. \A p : at(k + 1, p) = slot(p)
  BY DEF SlotAt
<1>4. CASE AllFit(v, es, n, k)
  <2>1. /\ \A i \in D : old[i] \in 0..k
        /\ \A e \in 1..k : \A i \in D :
             old[i] = e <=> \E p \in 1..Len(es[e].keys) : at(e, p) = i
    BY <1>4 DEF Shared
  <2>2. \A i \in D : old[i] = 0 <=> \A e \in 1..k : \A p \in 1..Len(es[e].keys) : at(e, p) # i
    <3>1. \A x : x \in 0..k <=> x = 0 \/ x \in 1..k
      OBVIOUS
    <3>2. 0 \notin 1..k
      OBVIOUS
    <3> HIDE DEF at, D
    <3>3. QED
      BY <2>1, <3>1, <3>2
  <2>3. Fit(v, keys, old, n, m) <=>
          /\ \A p \in 1..m : slot(p) \in D
          /\ \A p \in 1..m : \A e \in 1..k : \A q \in 1..Len(es[e].keys) : at(e, q) # slot(p)
          /\ \A p, q \in 1..m : slot(p) = slot(q) => p = q
    BY <2>2 DEF Fit
  <2>4. AllFit(v, es, n, k + 1) <=> Fit(v, keys, old, n, m)
    <3>1. AllFit(v, es, n, k + 1) <=>
            /\ \A e \in 1..(k + 1) : \A p \in 1..Len(es[e].keys) : at(e, p) \in D
            /\ \A e, f \in 1..(k + 1) : \A p \in 1..Len(es[e].keys) : \A q \in 1..Len(es[f].keys) :
                 at(e, p) = at(f, q) => e = f /\ p = q
      BY DEF AllFit
    <3>2. /\ \A e \in 1..k : \A p \in 1..Len(es[e].keys) : at(e, p) \in D
          /\ \A e, f \in 1..k : \A p \in 1..Len(es[e].keys) : \A q \in 1..Len(es[f].keys) :
               at(e, p) = at(f, q) => e = f /\ p = q
      BY <1>4 DEF AllFit
    <3> HIDE DEF at, slot, D
    <3>3. ASSUME AllFit(v, es, n, k + 1) PROVE Fit(v, keys, old, n, m)
      <4>1. \A p \in 1..m : slot(p) \in D
        BY <1>1, <1>3, <3>1, <3>3
      <4>2. \A p, q \in 1..m : slot(p) = slot(q) => p = q
        BY <1>1, <1>3, <3>1, <3>3
      <4>3. \A p \in 1..m : \A e \in 1..k : \A q \in 1..Len(es[e].keys) : at(e, q) # slot(p)
        BY <1>1, <1>2, <1>3, <3>1, <3>3
      <4>4. QED
        BY <2>3, <4>1, <4>2, <4>3
    <3>4. ASSUME Fit(v, keys, old, n, m) PROVE AllFit(v, es, n, k + 1)
      <4>1. /\ \A p \in 1..m : slot(p) \in D
            /\ \A p \in 1..m : \A e \in 1..k : \A q \in 1..Len(es[e].keys) : at(e, q) # slot(p)
            /\ \A p, q \in 1..m : slot(p) = slot(q) => p = q
        BY <2>3, <3>4
      <4>2. \A e \in 1..(k + 1) : \A p \in 1..Len(es[e].keys) : at(e, p) \in D
        BY <1>1, <1>3, <3>2, <4>1
      <4>3. ASSUME NEW e \in 1..(k + 1), NEW f \in 1..(k + 1),
                   NEW p \in 1..Len(es[e].keys), NEW q \in 1..Len(es[f].keys), at(e, p) = at(f, q)
            PROVE  e = f /\ p = q
        <5>1. CASE e = k + 1 /\ f = k + 1
          BY <1>3, <4>1, <4>3, <5>1
        <5>2. CASE e \in 1..k /\ f \in 1..k
          BY <3>2, <4>3, <5>2
        <5>3. CASE e = k + 1 /\ f \in 1..k
          BY <1>3, <4>1, <4>3, <5>3
        <5>4. CASE e \in 1..k /\ f = k + 1
          BY <1>3, <4>1, <4>3, <5>4
        <5>5. QED
          BY <1>1, <5>1, <5>2, <5>3, <5>4
      <4>4. QED
        BY <3>1, <4>2, <4>3
    <3>5. QED
      BY <3>3, <3>4
  <2>5. CASE Fit(v, keys, old, n, m)
    <3>1. \A i \in D : new[i] = IF \E p \in 1..m : slot(p) = i THEN k + 1 ELSE old[i]
      BY <2>5 DEF Claimed
    <3>2. \A p \in 1..m : \A e \in 1..k : \A q \in 1..Len(es[e].keys) : at(e, q) # slot(p)
      BY <2>3, <2>5
    <3> HIDE DEF at, slot, D
    <3>3. ASSUME NEW i \in D PROVE new[i] \in 0..(k + 1)
      <4>1. new[i] = k + 1 \/ new[i] = old[i]
        BY <3>1
      <4>2. old[i] \in 0..k
        BY <2>1
      <4>3. QED
        BY <4>1, <4>2
    <3>4. ASSUME NEW e \in 1..(k + 1), NEW i \in D
          PROVE  new[i] = e <=> \E p \in 1..Len(es[e].keys) : at(e, p) = i
      <4>1. CASE \E p \in 1..m : slot(p) = i
        <5>1. new[i] = k + 1
          BY <3>1, <4>1
        <5>2. CASE e = k + 1
          BY <1>3, <4>1, <5>1, <5>2
        <5>3. CASE e \in 1..k
          <6>1. ~\E p \in 1..Len(es[e].keys) : at(e, p) = i
            BY <3>2, <4>1, <5>3
          <6>2. QED
            BY <1>2, <5>1, <5>3, <6>1
        <5>4. QED
          BY <1>1, <5>2, <5>3
      <4>2. CASE ~\E p \in 1..m : slot(p) = i
        <5>1. new[i] = old[i] /\ old[i] \in 0..k
          BY <2>1, <3>1, <4>2
        <5>2. CASE e = k + 1
          BY <1>2, <1>3, <4>2, <5>1, <5>2
        <5>3. CASE e \in 1..k
          BY <2>1, <5>1, <5>3
        <5>4. QED
          BY <1>1, <5>2, <5>3
      <4>3. QED
        BY <4>1, <4>2
    <3>5. QED
      BY <2>4, <2>5, <3>3, <3>4 DEF Shared, at, D
  <2>6. CASE ~Fit(v, keys, old, n, m)
    <3>1. AreDead(new, n)
      BY <2>6 DEF Claimed
    <3>2. QED
      BY <2>4, <2>6, <3>1 DEF Shared
  <2>7. QED
    BY <2>5, <2>6
<1>5. CASE ~AllFit(v, es, n, k)
  <2>1. \A i \in D : old[i] = -1
    BY <1>5 DEF Shared, AreDead
  <2>2. ~AllFit(v, es, n, k + 1)
    BY <1>1, <1>5 DEF AllFit
  <2>3. AreDead(new, n)
    <3>1. CASE m = 0
      <4>1. 1..m = {}
        BY <3>1
      <4>2. Fit(v, keys, old, n, m)
        BY <4>1 DEF Fit
      <4>3. \A i \in D : new[i] = old[i]
        BY <4>1, <4>2 DEF Claimed
      <4>4. new = [i \in D |-> new[i]]
        BY DEF AreSlots
      <4>5. QED
        BY <2>1, <4>3, <4>4 DEF AreDead
    <3>2. CASE m # 0
      <4>1. 1 \in 1..m
        BY <3>2
      <4>2. ~Fit(v, keys, old, n, m)
        <5>1. ~(slot(1) \in D /\ old[slot(1)] = 0)
          BY <2>1
        <5>2. QED
          BY <4>1, <5>1 DEF Fit
      <4>3. QED
        BY <4>2 DEF Claimed
    <3>3. QED
      BY <3>1, <3>2
  <2>4. QED
    BY <2>2, <2>3 DEF Shared
<1>6. QED
  BY <1>4, <1>5

(* Once all have claimed, every key has its slot, or all slots are marked. *)
LEMMA SlotsShared ==
  ASSUME NEW v, NEW n \in Nat, NEW es, IsList(es),
         \A e \in 1..Len(es) : IsList(es[e].keys)
  PROVE  AreSlots(Slots(v, n, es), n) /\ Shared(v, es, Slots(v, n, es), n, Len(es))
<1> DEFINE m == Len(es)
           A == [0..(n - 1) -> Int]
           base == [i \in 0..(n - 1) |-> 0]
           next(a, e) == Claim(v, a, e, es[e].keys)
           g == [x \in A \X (1..m) |-> next(x[1], x[2])]
           f == CHOOSE h : SlotsFolds(h, v, n, es)
<1>1. m \in Nat /\ DOMAIN es = 1..m
  BY ListLength
<1>2. Slots(v, n, es) = f[DOMAIN [e \in DOMAIN es |-> e]]
  BY DEF Slots, FoldLeft, MapThenFoldSet, SlotsFolds
<1>2a. DOMAIN [e \in DOMAIN es |-> e] = 1..m /\ \A e \in 1..m : [x \in DOMAIN es |-> x][e] = e
  BY <1>1
<1>3. ASSUME NEW a \in A, NEW e \in 1..m
      PROVE  next(a, e) \in A /\ Claimed(v, es[e].keys, a, next(a, e), n, e, Len(es[e].keys))
  <2> DEFINE keys == es[e].keys
  <2>1. IsList(keys) /\ e \in Nat /\ e # 0
    BY <1>1
  <2> HIDE DEF keys
  <2>2. AreSlots(a, n)
    BY DEF AreSlots
  <2>3. /\ AreSlots(Claim(v, a, e, keys), n)
        /\ Claimed(v, keys, a, Claim(v, a, e, keys), n, e, Len(keys))
    BY <2>1, <2>2, ClaimClaims
  <2>4. QED
    BY <2>3 DEF AreSlots, keys
<1> HIDE DEF m, next
<1>4. base \in A
  OBVIOUS
<1>5. g \in [A \X (1..m) -> A] /\ \A a \in A, i \in 1..m : g[<<a, i>>] = next(a, i)
  BY <1>3
<1> HIDE DEF g, A, base
<1>6. SlotsFolds(f, v, n, es)
  <2>1. PICK h \in [SUBSET (1..m) -> A] : Folds(h, m, base, g)
    BY <1>1, <1>4, <1>5, FoldExists
  <2>2. ASSUME NEW s \in SUBSET (1..m), s # {}
        PROVE  g[<<h[s \ {Max(s)}], Max(s)>>] = next(h[s \ {Max(s)}], Max(s))
    <3>1. Max(s) \in 1..m /\ s \ {Max(s)} \in SUBSET (1..m)
      BY <1>1, <2>2, MaxIsIn
    <3>2. QED
      BY <1>5, <3>1
  <2>3. h = [s \in SUBSET (1..m) |-> IF s = {} THEN base ELSE next(h[s \ {Max(s)}], Max(s))]
    BY <2>1, <2>2 DEF Folds
  <2> DEFINE same == [e \in DOMAIN es |-> e]
  <2>4. \A s \in SUBSET (1..m) : s # {} => same[Max(s)] = Max(s)
    BY <1>1, <1>2a, MaxIsIn
  <2> HIDE DEF same
  <2>5. h = [s \in SUBSET (1..m) |->
               IF s = {} THEN base ELSE next(h[s \ {Max(s)}], same[Max(s)])]
    BY <2>3, <2>4
  <2>6. SlotsFolds(h, v, n, es)
    BY <1>2a, <2>5 DEF SlotsFolds, next, same, base
  <2>7. QED
    BY <2>6
<1> HIDE DEF f
<1>7. \A s \in SUBSET (1..m) : f[s] = IF s = {} THEN base ELSE next(f[s \ {Max(s)}], Max(s))
  <2> DEFINE same == [e \in DOMAIN es |-> e]
  <2>1. \A s \in SUBSET (1..m) : s # {} => same[Max(s)] = Max(s)
    BY <1>1, <1>2a, MaxIsIn
  <2>2. f = [s \in SUBSET (1..m) |->
               IF s = {} THEN base ELSE next(f[s \ {Max(s)}], same[Max(s)])]
    BY <1>2a, <1>6 DEF SlotsFolds, next, base
  <2> HIDE DEF same
  <2>3. QED
    BY <2>1, <2>2
<1>8. f[{}] = base
  <2>1. {} \in SUBSET (1..m)
    OBVIOUS
  <2>2. QED
    BY <1>7, <2>1
<1>9. \A k \in 1..m : f[1..(k - 1)] \in A => f[1..k] = g[<<f[1..(k - 1)], k>>]
  <2> SUFFICES ASSUME NEW k \in 1..m, f[1..(k - 1)] \in A
               PROVE  f[1..k] = g[<<f[1..(k - 1)], k>>]
    OBVIOUS
  <2>1. 1..k \in SUBSET (1..m) /\ 1..k # {} /\ Max(1..k) = k /\ (1..k) \ {k} = 1..(k - 1)
    BY <1>1, FirstOf
  <2>2. f[1..k] = next(f[1..(k - 1)], k)
    BY <1>7, <2>1
  <2>3. QED
    BY <1>5, <2>2
<1>10. PICK h \in [0..m -> A] : IsFoldChain(h, m, base, g) /\ h[m] = f[1..m]
  <2>1. Unfolds(f, A, m, base, g)
    BY <1>8, <1>9 DEF Unfolds
  <2>2. m \in Nat /\ base \in A /\ g \in [A \X (1..m) -> A]
    BY <1>1, <1>4, <1>5
  <2>3. HasChain(f, A, m, base, g)
    BY <2>1, <2>2, FoldChain
  <2>4. QED
    BY <2>3 DEF HasChain
<1>11. \A k \in 1..m : h[k - 1] \in A /\ h[k] = next(h[k - 1], k)
  <2>1. \A k \in 1..m : k - 1 \in 0..m
    BY <1>1
  <2>2. QED
    BY <1>5, <1>10, <2>1 DEF IsFoldChain
<1> DEFINE Holds(k) == AreSlots(h[k], n) /\ Shared(v, es, h[k], n, k)
           K == {k \in Nat : k <= m => Holds(k)}
<1>12. Holds(0)
  <2>1. h[0] = base
    BY <1>10 DEF IsFoldChain
  <2>2. \A e : e \notin 1..0
    OBVIOUS
  <2>3. \A i \in 0..(n - 1) : base[i] \in 0..0
    BY DEF base
  <2>4. AreSlots(base, n)
    BY <1>4 DEF AreSlots, A
  <2>5. AllFit(v, es, n, 0)
    BY <2>2 DEF AllFit
  <2>6. QED
    BY <2>1, <2>2, <2>3, <2>4, <2>5 DEF Shared
<1>13. ASSUME NEW k \in Nat, k + 1 <= m, Holds(k) PROVE Holds(k + 1)
  <2>1. k + 1 \in 1..m /\ (k + 1) - 1 = k /\ k + 1 # 0 /\ k + 1 \in Nat
    BY <1>13
  <2> DEFINE a == h[k]
             e == k + 1
             b == h[e]
  <2>2. a \in A /\ b = next(a, e)
    BY <1>11, <2>1
  <2>3. AreSlots(a, n) /\ Shared(v, es, a, n, k)
    BY <1>13
  <2>3a. Len(es[k + 1].keys) \in Nat
    BY <1>1, <2>1, ListLength DEF m
  <2> HIDE DEF a, b
  <2>4. AreSlots(b, n) /\ Claimed(v, es[e].keys, a, b, n, e, Len(es[e].keys))
    BY <1>3, <2>1, <2>2 DEF AreSlots, A
  <2>5. Shared(v, es, b, n, k + 1)
    BY <2>3, <2>3a, <2>4, ClaimShares
  <2>6. QED
    BY <2>4, <2>5 DEF b
<1> HIDE DEF Holds
<1>14. 0 \in K
  BY <1>12
<1>15. ASSUME NEW k \in Nat, k \in K PROVE k + 1 \in K
  <2> SUFFICES ASSUME k + 1 <= m PROVE Holds(k + 1)
    OBVIOUS
  <2>1. Holds(k)
    BY <1>1, <1>15
  <2>2. QED
    BY <1>13, <2>1
<1>16. Holds(m)
  <2> HIDE DEF K
  <2>1. m \in K
    BY <1>1, <1>14, <1>15, InductionOnSets
  <2>2. QED
    BY <1>1, <2>1 DEF K
<1>17. Slots(v, n, es) = h[m]
  BY <1>1, <1>2, <1>2a, <1>10
<1>18. QED
  BY <1>16, <1>17 DEF Holds, m

(* Every key is named by some entry, and by one only; every name is a key. *)
NamesEveryKeyOnce(v, es) ==
  /\ \A e \in 1..Len(es) : \A p \in 1..Len(es[e].keys) : IsPossibleKey(v, es[e].keys[p])
  /\ \A e, f \in 1..Len(es) : \A p \in 1..Len(es[e].keys) : \A q \in 1..Len(es[f].keys) :
       es[e].keys[p] = es[f].keys[q] => e = f /\ p = q
  /\ \A i \in 0..(NumberOfPossibleKeys(v) - 1) :
       \E e \in 1..Len(es) : \E p \in 1..Len(es[e].keys) :
         IndexInPossibleKeys(v, es[e].keys[p]) = i

(* Slots are claimed without conflict if the keys are possible and differ. *)
LEMMA KeysFit ==
  ASSUME NEW v, IsLists(v), NumberOfPossibleKeys(v) # 0, NEW es,
         \A e \in 1..Len(es) : \A p \in 1..Len(es[e].keys) : IsList(es[e].keys[p])
  PROVE  AllFit(v, es, NumberOfPossibleKeys(v), Len(es)) <=>
           /\ \A e \in 1..Len(es) : \A p \in 1..Len(es[e].keys) : IsPossibleKey(v, es[e].keys[p])
           /\ \A e, f \in 1..Len(es) : \A p \in 1..Len(es[e].keys) : \A q \in 1..Len(es[f].keys) :
                es[e].keys[p] = es[f].keys[q] => e = f /\ p = q
<1> DEFINE n == NumberOfPossibleKeys(v)
           at(e, p) == SlotAt(v, es, e, p)
           key(e, p) == es[e].keys[p]
<1>1. \A e, p : at(e, p) = IndexInPossibleKeys(v, key(e, p))
  BY DEF SlotAt, SlotOf
<1>2. ASSUME NEW e \in 1..Len(es), NEW p \in 1..Len(es[e].keys)
      PROVE  at(e, p) \in 0..(n - 1) <=> IsPossibleKey(v, key(e, p))
  <2>1. CASE IsPossibleKey(v, key(e, p))
    <3>1. IndexInPossibleKeys(v, key(e, p)) \in 0..(n - 1)
      BY <2>1, IndexInRange
    <3>2. QED
      BY <1>1, <2>1, <3>1
  <2>2. CASE ~IsPossibleKey(v, key(e, p))
    <3>1. at(e, p) = -1
      BY <1>1, <2>2 DEF IndexInPossibleKeys
    <3> HIDE DEF at, n
    <3>2. at(e, p) \notin 0..(n - 1)
      BY <3>1
    <3>3. QED
      BY <2>2, <3>2
  <2>3. QED
    BY <2>1, <2>2
<1>3. ASSUME NEW e \in 1..Len(es), NEW p \in 1..Len(es[e].keys),
             NEW f \in 1..Len(es), NEW q \in 1..Len(es[f].keys),
             IsPossibleKey(v, key(e, p)), IsPossibleKey(v, key(f, q))
      PROVE  at(e, p) = at(f, q) <=> key(e, p) = key(f, q)
  <2>1. IsList(key(e, p)) /\ IsList(key(f, q))
    OBVIOUS
  <2> HIDE DEF at, key
  <2>2. IndexInPossibleKeys(v, key(e, p)) = IndexInPossibleKeys(v, key(f, q))
          <=> key(e, p) = key(f, q)
    BY <1>3, <2>1, KeysInRowMajorOrder
  <2>3. QED
    BY <1>1, <2>2
<1>4. AllFit(v, es, n, Len(es)) <=>
        /\ \A e \in 1..Len(es) : \A p \in 1..Len(es[e].keys) : at(e, p) \in 0..(n - 1)
        /\ \A e, f \in 1..Len(es) : \A p \in 1..Len(es[e].keys) : \A q \in 1..Len(es[f].keys) :
             at(e, p) = at(f, q) => e = f /\ p = q
  BY DEF AllFit
<1> HIDE DEF at, n
<1>5. ASSUME \A e \in 1..Len(es) : \A p \in 1..Len(es[e].keys) : IsPossibleKey(v, key(e, p))
      PROVE  \A e, f \in 1..Len(es) : \A p \in 1..Len(es[e].keys) : \A q \in 1..Len(es[f].keys) :
               at(e, p) = at(f, q) <=> key(e, p) = key(f, q)
  BY <1>3, <1>5
<1> HIDE DEF key
<1>6. QED
  <2>1. AllFit(v, es, n, Len(es)) <=>
          /\ \A e \in 1..Len(es) : \A p \in 1..Len(es[e].keys) : IsPossibleKey(v, key(e, p))
          /\ \A e, f \in 1..Len(es) : \A p \in 1..Len(es[e].keys) : \A q \in 1..Len(es[f].keys) :
               key(e, p) = key(f, q) => e = f /\ p = q
    <3>1. CASE \A e \in 1..Len(es) : \A p \in 1..Len(es[e].keys) : IsPossibleKey(v, key(e, p))
      <4>1. \A e \in 1..Len(es) : \A p \in 1..Len(es[e].keys) : at(e, p) \in 0..(n - 1)
        BY <1>2, <3>1
      <4>2. QED
        BY <1>4, <1>5, <3>1, <4>1
    <3>2. CASE ~\A e \in 1..Len(es) : \A p \in 1..Len(es[e].keys) : IsPossibleKey(v, key(e, p))
      BY <1>2, <1>4, <3>2
    <3>3. QED
      BY <3>1, <3>2
  <2>2. QED
    BY <2>1 DEF n, key

(* What entriesInPossibleKeyOrder takes for entries of a URL: sequences of *)
(* values, of axes and of keys.                                            *)
AreEntries(es) ==
  /\ IsList(es) /\ Len(es) # 0
  /\ \A e \in 1..Len(es) :
       /\ IsLists(es[e].variants) /\ IsList(es[e].keys)
       /\ \A p \in 1..Len(es[e].keys) : IsList(es[e].keys[p])

(* entriesInPossibleKeyOrder lists the responses of a URL exactly if they  *)
(* have one Variants header, of which they name every possible key, and    *)
(* none twice; whatever their order. At the index of a key it has the      *)
(* response that names it, so that a reader who counts keys in row-major   *)
(* order finds it there.                                                   *)
THEOREM ListedByTheirKeys ==
  ASSUME NEW es, AreEntries(es)
  PROVE  LET v == es[1].variants
             n == NumberOfPossibleKeys(v)
             order == EntriesInPossibleKeyOrder(es)
         IN /\ order.ok <=>
                 /\ v # <<>> /\ n # 0
                 /\ \A e \in 1..Len(es) : es[e].text = es[1].text /\ es[e].keys # <<>>
                 /\ NamesEveryKeyOnce(v, es)
            /\ order.ok =>
                 /\ IsList(order.entries) /\ Len(order.entries) = n /\ n \in Nat \ {0}
                 /\ \A i \in 1..n : order.entries[i] \in 1..Len(es)
                 /\ \A e \in 1..Len(es) : \A p \in 1..Len(es[e].keys) :
                      LET i == IndexInPossibleKeys(v, es[e].keys[p])
                      IN i \in 0..(n - 1) /\ order.entries[i + 1] = e
<1> DEFINE v == es[1].variants
           n == NumberOfPossibleKeys(v)
           slots == Slots(v, n, es)
           order == EntriesInPossibleKeyOrder(es)
           agree == /\ v # <<>> /\ n # 0
                    /\ \A e \in 1..Len(es) : es[e].text = es[1].text /\ es[e].keys # <<>>
           at(e, p) == SlotAt(v, es, e, p)
<1>1. /\ Len(es) \in Nat /\ DOMAIN es = 1..Len(es) /\ 1 \in 1..Len(es)
      /\ IsLists(v) /\ n \in Nat
      /\ \A e \in 1..Len(es) : IsList(es[e].keys)
      /\ \A e \in 1..Len(es) : \A p \in 1..Len(es[e].keys) : IsList(es[e].keys[p])
  <2>1. Len(es) \in Nat /\ DOMAIN es = 1..Len(es) /\ Len(es) # 0
    BY ListLength DEF AreEntries
  <2>2. 1 \in 1..Len(es)
    BY <2>1
  <2>3. QED
    BY <2>1, <2>2, NumberOfKeysIsNat DEF AreEntries
<1>2. AreSlots(slots, n) /\ Shared(v, es, slots, n, Len(es))
  <2> HIDE DEF n, v
  <2>1. n \in Nat /\ IsList(es) /\ \A e \in 1..Len(es) : IsList(es[e].keys)
    BY <1>1 DEF AreEntries
  <2>2. QED
    BY <2>1, SlotsShared
<1>3. DOMAIN slots = 0..(n - 1) /\ slots \in [0..(n - 1) -> Int]
  <2> HIDE DEF slots, n
  <2>1. QED
    BY <1>2 DEF AreSlots
<1>4. /\ order.ok <=> agree /\ \A i \in 0..(n - 1) : slots[i] > 0
      /\ order.ok => order.entries = Listed(slots, n)
  <2> HIDE DEF slots
  <2>1. order = IF /\ v # <<>>
                   /\ n # 0
                   /\ \A e \in DOMAIN es : es[e].text = es[1].text /\ es[e].keys # <<>>
                   /\ \A i \in DOMAIN slots : slots[i] > 0
                THEN [ok |-> TRUE, entries |-> Listed(slots, n)] ELSE NoOrder
    BY DEF EntriesInPossibleKeyOrder, slots
  <2> HIDE DEF order, n, v
  <2>2. QED
    BY <1>1, <1>3, <2>1 DEF NoOrder
<1> HIDE DEF n, v, slots, order, at
<1>5. ASSUME n # 0, \A i \in 0..(n - 1) : slots[i] > 0 PROVE AllFit(v, es, n, Len(es))
  <2>1. 0 \in 0..(n - 1)
    BY <1>1, <1>5
  <2>2. slots[0] > 0 /\ ~(-1 > 0)
    BY <1>5, <2>1
  <2>3. ~AreDead(slots, n)
    BY <2>1, <2>2 DEF AreDead
  <2>4. QED
    BY <1>2, <2>3 DEF Shared
<1>6. ASSUME AllFit(v, es, n, Len(es))
      PROVE  /\ \A i \in 0..(n - 1) : slots[i] \in 0..Len(es)
             /\ \A e \in 1..Len(es) : \A i \in 0..(n - 1) :
                  slots[i] = e <=> \E p \in 1..Len(es[e].keys) : at(e, p) = i
  BY <1>2, <1>6 DEF Shared, at
<1>7. ASSUME n # 0
      PROVE  (\A i \in 0..(n - 1) : slots[i] > 0) <=> NamesEveryKeyOnce(v, es)
  <2> DEFINE hit(i) == \E e \in 1..Len(es) : \E p \in 1..Len(es[e].keys) : at(e, p) = i
  <2>1. NamesEveryKeyOnce(v, es) <=> AllFit(v, es, n, Len(es)) /\ \A i \in 0..(n - 1) : hit(i)
    <3>1. AllFit(v, es, n, Len(es)) <=>
            /\ \A e \in 1..Len(es) : \A p \in 1..Len(es[e].keys) : IsPossibleKey(v, es[e].keys[p])
            /\ \A e, f \in 1..Len(es) : \A p \in 1..Len(es[e].keys) : \A q \in 1..Len(es[f].keys) :
                 es[e].keys[p] = es[f].keys[q] => e = f /\ p = q
      BY <1>1, <1>7, KeysFit DEF n
    <3>2. QED
      BY <3>1 DEF NamesEveryKeyOnce, at, SlotAt, SlotOf, n
  <2>2. ASSUME AllFit(v, es, n, Len(es)), NEW i \in 0..(n - 1) PROVE slots[i] > 0 <=> hit(i)
    <3>1. slots[i] \in 0..Len(es)
      BY <1>6, <2>2
    <3>2. \A x \in 0..Len(es) : x > 0 <=> x \in 1..Len(es)
      BY <1>1
    <3>3. slots[i] > 0 <=> slots[i] \in 1..Len(es)
      BY <3>1, <3>2
    <3>4. \A e \in 1..Len(es) : slots[i] = e <=> \E p \in 1..Len(es[e].keys) : at(e, p) = i
      BY <1>6, <2>2
    <3>5. QED
      BY <3>3, <3>4
  <2> HIDE DEF hit
  <2>3. QED
    BY <1>5, <1>7, <2>1, <2>2
<1>8. order.ok <=> agree /\ NamesEveryKeyOnce(v, es)
  BY <1>4, <1>7
<1>9. ASSUME order.ok
      PROVE  /\ IsList(order.entries) /\ Len(order.entries) = n /\ n \in Nat \ {0}
             /\ \A i \in 1..n : order.entries[i] \in 1..Len(es)
             /\ \A e \in 1..Len(es) : \A p \in 1..Len(es[e].keys) :
                  at(e, p) \in 0..(n - 1) /\ order.entries[at(e, p) + 1] = e
  <2>1. n # 0 /\ \A i \in 0..(n - 1) : slots[i] > 0
    BY <1>4, <1>9
  <2>2. AllFit(v, es, n, Len(es))
    BY <1>5, <2>1
  <2>3. order.entries = [i \in 1..n |-> slots[i - 1]]
    BY <1>4, <1>9 DEF Listed
  <2> DEFINE o == order.entries
  <2>4. IsList(o) /\ Len(o) = n
    <3>1. DOMAIN o = 1..n /\ o = [i \in 1..n |-> o[i]]
      BY <2>3
    <3> HIDE DEF o
    <3>2. QED
      BY <1>1, <3>1, FunctionIsList
  <2>5. \A i \in 1..n : i - 1 \in 0..(n - 1) /\ o[i] = slots[i - 1]
    BY <1>1, <2>3
  <2>6. ASSUME NEW i \in 0..(n - 1) PROVE slots[i] \in 1..Len(es)
    <3>1. slots[i] \in 0..Len(es) /\ slots[i] > 0
      BY <1>6, <2>1, <2>2
    <3>2. QED
      BY <1>1, <3>1
  <2>7. ASSUME NEW e \in 1..Len(es), NEW p \in 1..Len(es[e].keys)
        PROVE  at(e, p) \in 0..(n - 1) /\ o[at(e, p) + 1] = e
    <3>1. at(e, p) \in 0..(n - 1)
      BY <2>2 DEF AllFit, at
    <3>2. slots[at(e, p)] = e
      BY <1>6, <2>2, <3>1
    <3>3. at(e, p) + 1 \in 1..n /\ (at(e, p) + 1) - 1 = at(e, p)
      BY <1>1, <3>1
    <3>4. QED
      BY <2>5, <3>1, <3>2, <3>3
  <2>8. QED
    BY <1>1, <2>1, <2>4, <2>5, <2>6, <2>7
<1>10. \A e, p : at(e, p) = IndexInPossibleKeys(v, es[e].keys[p])
  BY DEF at, SlotAt, SlotOf
<1>11. QED
  BY <1>8, <1>9, <1>10 DEF n, v, order

(* The order in which an index lists the responses of a URL has a place for*)
(* each possible key, and every one of the responses has a place in it.    *)
IsOrder(order, es, n) ==
  /\ IsList(order) /\ Len(order) = n /\ n \in Nat \ {0}
  /\ \A i \in 1..n : order[i] \in 1..Len(es)
  /\ \A e \in 1..Len(es) : \E i \in 1..n : order[i] = e

(* The order of the responses of a URL names no others, and leaves out     *)
(* none.                                                                   *)
LEMMA OrderCovers ==
  ASSUME NEW es, IsList(es), Len(es) # 0,
         \A e \in 1..Len(es) : IsList(es[e].keys) /\ IsLists(es[e].variants),
         EntriesInPossibleKeyOrder(es).ok
  PROVE  /\ es[1].variants # <<>>
         /\ IsOrder(EntriesInPossibleKeyOrder(es).entries, es, NumberOfPossibleKeys(es[1].variants))
<1> DEFINE v == es[1].variants
           n == NumberOfPossibleKeys(v)
           slots == Slots(v, n, es)
           order == EntriesInPossibleKeyOrder(es).entries
<1>1. Len(es) \in Nat /\ DOMAIN es = 1..Len(es) /\ 1 \in 1..Len(es)
  BY ListLength
<1>2. n \in Nat
  BY <1>1, NumberOfKeysIsNat
<1>3. /\ v # <<>> /\ n # 0
      /\ \A e \in DOMAIN es : es[e].text = es[1].text /\ es[e].keys # <<>>
      /\ \A i \in DOMAIN slots : slots[i] > 0
      /\ order = Listed(slots, n)
  BY DEF EntriesInPossibleKeyOrder, NoOrder
<1>4. \A e \in 1..Len(es) : IsList(es[e].keys) /\ Len(es[e].keys) # 0
  BY <1>1, <1>3, EmptyList
<1> HIDE DEF n, v
<1>5. AreSlots(slots, n) /\ Shared(v, es, slots, n, Len(es))
  BY <1>2, <1>4, SlotsShared
<1> HIDE DEF slots, order
<1>6. DOMAIN slots = 0..(n - 1) /\ slots \in [0..(n - 1) -> Int]
  BY <1>5 DEF AreSlots
<1>7. AllFit(v, es, n, Len(es))
  <2>1. 0 \in 0..(n - 1)
    BY <1>2, <1>3
  <2>2. slots[0] > 0 /\ ~(-1 > 0)
    BY <1>3, <1>6, <2>1
  <2>3. ~AreDead(slots, n)
    BY <2>1, <2>2 DEF AreDead
  <2>4. QED
    BY <1>5, <2>3 DEF Shared
<1> DEFINE at(e, p) == SlotAt(v, es, e, p)
<1>8. /\ \A i \in 0..(n - 1) : slots[i] \in 0..Len(es)
      /\ \A e \in 1..Len(es) : \A i \in 0..(n - 1) :
           slots[i] = e <=> \E p \in 1..Len(es[e].keys) : at(e, p) = i
      /\ \A e \in 1..Len(es) : \A p \in 1..Len(es[e].keys) : at(e, p) \in 0..(n - 1)
  BY <1>5, <1>7 DEF Shared, AllFit
<1> HIDE DEF at
<1>9. order = [i \in 1..n |-> slots[i - 1]]
  BY <1>3 DEF Listed
<1>10. \A i \in 1..n : i - 1 \in 0..(n - 1) /\ order[i] = slots[i - 1]
  BY <1>2, <1>9
<1>11. IsList(order) /\ Len(order) = n
  <2>1. DOMAIN order = 1..n /\ order = [i \in 1..n |-> order[i]]
    BY <1>9
  <2>2. QED
    BY <1>2, <2>1, FunctionIsList
<1>12. ASSUME NEW i \in 1..n PROVE order[i] \in 1..Len(es)
  <2>1. order[i] \in 0..Len(es) /\ order[i] > 0
    BY <1>3, <1>6, <1>8, <1>10
  <2>2. QED
    BY <1>1, <2>1
<1>13. ASSUME NEW e \in 1..Len(es) PROVE \E i \in 1..n : order[i] = e
  <2>1. Len(es[e].keys) \in Nat /\ Len(es[e].keys) # 0
    BY <1>4, ListLength
  <2>2. 1 \in 1..Len(es[e].keys)
    BY <2>1
  <2>3. at(e, 1) \in 0..(n - 1) /\ slots[at(e, 1)] = e
    BY <1>8, <2>2
  <2>4. at(e, 1) + 1 \in 1..n /\ (at(e, 1) + 1) - 1 = at(e, 1)
    BY <1>2, <2>3
  <2>5. QED
    BY <1>10, <2>3, <2>4
<1>14. QED
  <2>1. IsOrder(order, es, n)
    BY <1>2, <1>3, <1>11, <1>12, <1>13 DEF IsOrder
  <2>2. QED
    BY <1>3, <2>1 DEF n, v, order

(* The places of the sequences of a list grow along the list. *)
LEMMA PlacesGrow ==
  ASSUME NEW at, NEW p, IsLists(p), ArePlaces(at, p),
         NEW i \in 1..(Len(p) + 1), NEW j \in 1..(Len(p) + 1), i <= j
  PROVE  at[i] \in Nat /\ at[j] \in Nat /\ at[i] <= at[j]
<1> DEFINE n == Len(p)
           K == {k \in Nat : i + k <= n + 1 => at[i] <= at[i + k]}
<1>1. n \in Nat /\ \A k \in 1..n : Len(p[k]) \in Nat
  BY ListLength DEF IsLists
<1>2. /\ \A k \in 1..(n + 1) : at[k] \in Nat
      /\ \A k \in 1..n : at[k + 1] = at[k] + Len(p[k])
  BY DEF ArePlaces
<1> HIDE DEF n
<1>3. 0 \in K
  BY <1>1, <1>2 DEF n
<1>4. ASSUME NEW k \in Nat, k \in K PROVE k + 1 \in K
  <2> SUFFICES ASSUME i + (k + 1) <= n + 1 PROVE at[i] <= at[i + (k + 1)]
    OBVIOUS
  <2>1. i \in Nat /\ i # 0
    BY <1>1 DEF n
  <2>2. i + k \in 1..n /\ i + k <= n + 1 /\ i + (k + 1) = (i + k) + 1 /\ i \in 1..(n + 1)
    BY <1>1, <2>1
  <2>3. at[i] <= at[i + k]
    BY <1>4, <2>2
  <2> DEFINE l == i + k
  <2> HIDE DEF l
  <2>4. at[l + 1] = at[l] + Len(p[l]) /\ at[l] \in Nat /\ Len(p[l]) \in Nat /\ at[i] \in Nat
    BY <1>1, <1>2, <2>2 DEF l
  <2>5. QED
    BY <2>2, <2>3, <2>4 DEF l
<1>5. j - i \in Nat /\ i + (j - i) = j
  BY <1>1 DEF n
<1>6. j - i \in K
  <2> HIDE DEF K
  <2>1. QED
    BY <1>3, <1>4, <1>5, InductionOnSets
<1>7. QED
  BY <1>1, <1>2, <1>5, <1>6 DEF n

(* In a list of pairs, the places are the even numbers. *)
LEMMA PlacesOfPairs ==
  ASSUME NEW at, NEW p, IsLists(p), ArePlaces(at, p), \A i \in 1..Len(p) : Len(p[i]) = 2,
         NEW i \in 1..(Len(p) + 1)
  PROVE  at[i] = 2 * (i - 1)
<1> DEFINE n == Len(p)
           K == {k \in Nat : k <= n => at[k + 1] = 2 * k}
<1>1. n \in Nat /\ at[1] = 0 /\ \A k \in 1..n : at[k + 1] = at[k] + 2
  BY ListLength DEF IsLists, ArePlaces
<1> HIDE DEF n
<1>2. 0 \in K
  BY <1>1
<1>3. ASSUME NEW k \in Nat, k \in K PROVE k + 1 \in K
  <2> SUFFICES ASSUME k + 1 <= n PROVE at[(k + 1) + 1] = 2 * (k + 1)
    OBVIOUS
  <2>1. at[k + 1] = 2 * k /\ k + 1 \in 1..n
    BY <1>1, <1>3
  <2>2. at[(k + 1) + 1] = at[k + 1] + 2
    BY <1>1, <2>1
  <2>3. QED
    BY <2>1, <2>2
<1>4. i - 1 \in Nat /\ (i - 1) + 1 = i /\ i - 1 <= n
  BY <1>1 DEF n
<1>5. i - 1 \in K
  <2> HIDE DEF K
  <2>1. QED
    BY <1>2, <1>3, <1>4, InductionOnSets
<1>6. QED
  BY <1>4, <1>5

(* SetToSeq lists the elements of a finite set, all of them and nothing    *)
(* else.                                                                   *)
LEMMA SetListed ==
  ASSUME NEW S, IsFiniteSet(S)
  PROVE  /\ IsList(SetToSeq(S))
         /\ \A i \in 1..Len(SetToSeq(S)) : SetToSeq(S)[i] \in S
         /\ \A x \in S : \E i \in 1..Len(SetToSeq(S)) : SetToSeq(S)[i] = x
<1> DEFINE n == Cardinality(S)
           s == SetToSeq(S)
<1>1. n \in Nat /\ ExistsBijection(1..n, S)
  BY FS_CardinalityType
<1>2. \E f \in [1..n -> S] : IsInjective(f)
  BY <1>1 DEF ExistsBijection, Bijection, Injection
<1>3. s \in [1..n -> S] /\ IsInjective(s)
  BY <1>2 DEF SetToSeq
<1>4. IsFiniteSet(1..n) /\ Cardinality(1..n) = n
  <2>1. 1 \in Int /\ n \in Int /\ (1 > n => n = 0) /\ n - 1 + 1 = n
    BY <1>1
  <2> HIDE DEF n
  <2>2. Cardinality(1..n) = IF 1 > n THEN 0 ELSE n - 1 + 1
    BY <2>1, FS_Interval
  <2>3. QED
    BY <2>1, <2>2, FS_Interval
<1>5. s \in Injection(1..n, S)
  BY <1>3 DEF Injection
<1> HIDE DEF s
<1>6. s \in Surjection(1..n, S)
  BY <1>4, <1>5, FS_Injection
<1>7. \A x \in S : \E i \in 1..n : s[i] = x
  BY <1>6 DEF Surjection
<1>8. IsList(s) /\ Len(s) = n
  <2>1. DOMAIN s = 1..n /\ s = [i \in 1..n |-> s[i]]
    BY <1>3
  <2> HIDE DEF n
  <2>2. QED
    BY <1>1, <2>1, FunctionIsList
<1>9. \A i \in 1..n : s[i] \in S
  BY <1>3
<1>10. QED
  BY <1>7, <1>8, <1>9 DEF s

(* The URLs of an index section are listed, all of them and no others. *)
LEMMA UrlsListed ==
  ASSUME NEW es, IsList(es)
  PROVE  LET urls == SetToSeq(UrlsOf(es))
         IN  /\ IsList(urls)
             /\ \A i \in 1..Len(urls) : \E e \in 1..Len(es) : es[e].url = urls[i]
             /\ \A e \in 1..Len(es) : \E i \in 1..Len(urls) : urls[i] = es[e].url
<1> DEFINE n == Len(es)
           f == [i \in 1..n |-> es[i].url]
           U == UrlsOf(es)
<1>1. n \in Nat /\ DOMAIN es = 1..n
  BY ListLength
<1>2. U = {es[i].url : i \in 1..n}
  BY <1>1 DEF UrlsOf
<1>3. f \in Surjection(1..n, U)
  BY <1>2 DEF Surjection
<1>4. IsFiniteSet(1..n)
  BY <1>1, FS_Interval
<1> HIDE DEF f, U
<1>5. IsFiniteSet(U)
  BY <1>3, <1>4, FS_Surjection
<1>6. /\ IsList(SetToSeq(U))
      /\ \A i \in 1..Len(SetToSeq(U)) : SetToSeq(U)[i] \in U
      /\ \A x \in U : \E i \in 1..Len(SetToSeq(U)) : SetToSeq(U)[i] = x
  BY <1>5, SetListed
<1>7. QED
  BY <1>2, <1>6 DEF U

-----------------------------------------------------------------------------
(* What IndexCells puts where                                              *)

OrderOf(es) == IF Len(es) = 1 THEN <<1>> ELSE EntriesInPossibleKeyOrder(es).entries
VariantsOf(es) == IF Len(es) = 1 THEN <<>> ELSE es[1].variants
HeadLength(ver) == IF SupportsVariants(ver) THEN 3 ELSE 2

(* What a list of index entries has to be so that Finalize takes it. *)
CanList(ver, es) ==
  /\ IsList(es) /\ Len(es) # 0
  /\ \A e \in 1..Len(es) : IsList(es[e].keys) /\ IsLists(es[e].variants)
  /\ Len(es) = 1 \/ (SupportsVariants(ver) /\ EntriesInPossibleKeyOrder(es).ok)

(* What Finalize lets through has an order of its responses, as many as    *)
(* the Variants value has possible keys; without Variants it is one        *)
(* response.                                                               *)
LEMMA OrderIsOne ==
  ASSUME NEW ver, NEW es, CanList(ver, es)
  PROVE  /\ IsOrder(OrderOf(es), es, Len(OrderOf(es)))
         /\ Len(OrderOf(es)) = IF VariantsOf(es) = <<>> THEN 1
                                 ELSE NumberOfPossibleKeys(VariantsOf(es))
         /\ ~SupportsVariants(ver) => Len(OrderOf(es)) = 1
<1>1. CASE Len(es) = 1
  <2>1. OrderOf(es) = <<1>> /\ VariantsOf(es) = <<>>
    BY <1>1 DEF OrderOf, VariantsOf
  <2>2. IsList(<<1>>) /\ Len(<<1>>) = 1 /\ <<1>>[1] = 1
    BY ShortLists
  <2>3. \A i \in 1..1 : i = 1
    OBVIOUS
  <2>4. IsOrder(<<1>>, es, 1)
    <3> DEFINE o == <<1>>
    <3>1. IsList(o) /\ Len(o) = 1 /\ o[1] = 1
      BY <2>2
    <3> HIDE DEF o
    <3>2. 1 \in 1..1 /\ 1 \in Nat \ {0}
      OBVIOUS
    <3>3. /\ \A i \in 1..1 : o[i] \in 1..Len(es)
          /\ \A e \in 1..Len(es) : \E i \in 1..1 : o[i] = e
      BY <1>1, <2>3, <3>1, <3>2
    <3>4. IsOrder(o, es, 1)
      BY <3>1, <3>2, <3>3 DEF IsOrder
    <3>5. QED
      BY <3>4 DEF o
  <2>5. QED
    BY <2>1, <2>2, <2>4
<1>2. CASE Len(es) # 1
  <2>1. /\ OrderOf(es) = EntriesInPossibleKeyOrder(es).entries
        /\ VariantsOf(es) = es[1].variants
        /\ SupportsVariants(ver) /\ EntriesInPossibleKeyOrder(es).ok
    BY <1>2 DEF OrderOf, VariantsOf, CanList
  <2>2. /\ es[1].variants # <<>>
        /\ IsOrder(EntriesInPossibleKeyOrder(es).entries, es, NumberOfPossibleKeys(es[1].variants))
    BY <2>1, OrderCovers DEF CanList
  <2>3. QED
    BY <2>1, <2>2 DEF IsOrder
<1>3. QED
  BY <1>1, <1>2

(* The cells of an index entry: the URL, and, in the order of the possible *)
(* keys, where the responses are.                                          *)
IsEntry(c, ver, es) ==
  LET n == Len(OrderOf(es))
      first == HeadLength(ver)
  IN /\ IsList(c)
     /\ Len(c) = first + 2 * n
     /\ c[1] = Cell("text", es[1].url)
     /\ c[2] = Cell("array", IF SupportsVariants(ver) THEN 2 * n + 1 ELSE 2)
     /\ SupportsVariants(ver) => c[3] = Cell("variants", VariantsOf(es))
     /\ \A j \in 1..n : /\ c[first + 2 * (j - 1) + 1] = Cell("uint", es[OrderOf(es)[j]].offset)
                        /\ c[first + 2 * (j - 1) + 2] = Cell("uint", es[OrderOf(es)[j]].length)

(* The cells of an index entry are where the reader looks for them. *)
LEMMA EntryCells ==
  ASSUME NEW ver, NEW es, CanList(ver, es)
  PROVE  IsEntry(IndexEntryCells(ver, es), ver, es)
<1> DEFINE order == OrderOf(es)
           n == Len(order)
           q == [i \in DOMAIN order |-> LocationCells(es[order[i]])]
           locs == FlattenSeq(q)
           head == IF SupportsVariants(ver)
                   THEN <<Cell("text", es[1].url), Cell("array", 1 + Len(locs)),
                          Cell("variants", VariantsOf(es))>>
                   ELSE <<Cell("text", es[1].url), Cell("array", 2)>>
           first == HeadLength(ver)
           c == IndexEntryCells(ver, es)
<1>1. IsOrder(order, es, n) /\ n \in Nat /\ IsList(order) /\ DOMAIN order = 1..n
  BY OrderIsOne, ListLength DEF IsOrder
<1>2. c = head \o locs
  BY DEF IndexEntryCells, OrderOf, VariantsOf
<1> HIDE DEF order, c
<1>3. /\ IsLists(q) /\ Len(q) = n
      /\ \A i \in 1..n : /\ IsList(q[i]) /\ Len(q[i]) = 2
                         /\ q[i][1] = Cell("uint", es[order[i]].offset)
                         /\ q[i][2] = Cell("uint", es[order[i]].length)
  <2>1. IsList(q) /\ Len(q) = n
    <3>1. DOMAIN q = 1..n /\ q = [i \in 1..n |-> q[i]]
      BY <1>1
    <3> HIDE DEF n, q
    <3>2. QED
      BY <1>1, <3>1, FunctionIsList
  <2>2. ASSUME NEW i \in 1..n
        PROVE  /\ IsList(q[i]) /\ Len(q[i]) = 2
               /\ q[i][1] = Cell("uint", es[order[i]].offset)
               /\ q[i][2] = Cell("uint", es[order[i]].length)
    <3> DEFINE x == Cell("uint", es[order[i]].offset)
               y == Cell("uint", es[order[i]].length)
    <3>1. q[i] = <<x, y>>
      BY <1>1 DEF LocationCells
    <3> HIDE DEF x, y, q
    <3>2. IsList(q[i]) /\ Len(q[i]) = 2 /\ q[i][1] = x /\ q[i][2] = y
      BY <3>1, ShortLists
    <3>3. QED
      BY <3>2 DEF x, y
  <2> HIDE DEF q
  <2>3. IsLists(q)
    BY <2>1, <2>2, ListLength DEF IsLists
  <2>4. QED
    BY <2>1, <2>2, <2>3
<1> HIDE DEF q, n
<1>4. PICK at : /\ ArePlaces(at, q)
                /\ Len(locs) = at[Len(q) + 1]
                /\ \A i \in 1..Len(q) : \A j \in 1..Len(q[i]) :
                     /\ at[i] + j \in 1..Len(locs)
                     /\ locs[at[i] + j] = q[i][j]
  BY <1>3, FlatPlaces
<1>5. \A i \in 1..(n + 1) : at[i] = 2 * (i - 1)
  BY <1>3, <1>4, PlacesOfPairs
<1>6. IsList(locs) /\ Len(locs) = 2 * n
  <2>1. IsList(locs)
    BY <1>3, FlattenIsList
  <2>2. n + 1 \in 1..(n + 1) /\ (n + 1) - 1 = n
    BY <1>1
  <2> HIDE DEF locs
  <2>3. Len(locs) = at[n + 1]
    BY <1>3, <1>4
  <2>4. at[n + 1] = 2 * ((n + 1) - 1)
    BY <1>5, <2>2
  <2>5. QED
    BY <2>1, <2>2, <2>3, <2>4
<1> HIDE DEF locs
<1>7. \A j \in 1..n : /\ 2 * (j - 1) + 1 \in 1..Len(locs) /\ 2 * (j - 1) + 2 \in 1..Len(locs)
                      /\ locs[2 * (j - 1) + 1] = Cell("uint", es[order[j]].offset)
                      /\ locs[2 * (j - 1) + 2] = Cell("uint", es[order[j]].length)
  <2> SUFFICES ASSUME NEW j \in 1..n
               PROVE  /\ 2 * (j - 1) + 1 \in 1..Len(locs) /\ 2 * (j - 1) + 2 \in 1..Len(locs)
                      /\ locs[2 * (j - 1) + 1] = Cell("uint", es[order[j]].offset)
                      /\ locs[2 * (j - 1) + 2] = Cell("uint", es[order[j]].length)
    OBVIOUS
  <2>1. j \in 1..(n + 1) /\ 1 \in 1..2 /\ 2 \in 1..2
    BY <1>1
  <2>2. at[j] = 2 * (j - 1) /\ Len(q[j]) = 2
    BY <1>3, <1>5, <2>1
  <2>3. /\ at[j] + 1 \in 1..Len(locs) /\ locs[at[j] + 1] = q[j][1]
        /\ at[j] + 2 \in 1..Len(locs) /\ locs[at[j] + 2] = q[j][2]
    BY <1>3, <1>4, <2>1, <2>2
  <2>4. QED
    BY <1>3, <2>2, <2>3
<1>8. /\ IsList(head) /\ Len(head) = first
      /\ head[1] = Cell("text", es[1].url)
      /\ head[2] = Cell("array", IF SupportsVariants(ver) THEN 2 * n + 1 ELSE 2)
      /\ SupportsVariants(ver) => head[3] = Cell("variants", VariantsOf(es))
  <2> DEFINE x == Cell("text", es[1].url)
             y == Cell("array", 1 + Len(locs))
             z == Cell("variants", VariantsOf(es))
             u == Cell("array", 2)
  <2>1. 1 + Len(locs) = 2 * n + 1
    BY <1>1, <1>6
  <2>2. y = Cell("array", 2 * n + 1)
    BY <2>1
  <2>3. head = IF SupportsVariants(ver) THEN <<x, y, z>> ELSE <<x, u>>
    OBVIOUS
  <2> HIDE DEF x, y, z, u, head
  <2>4. CASE SupportsVariants(ver)
    <3>1. IsList(head) /\ Len(head) = 3 /\ head[1] = x /\ head[2] = y /\ head[3] = z
      BY <2>3, <2>4, ShortLists
    <3>2. QED
      BY <2>2, <2>4, <3>1 DEF HeadLength, x, z
  <2>5. CASE ~SupportsVariants(ver)
    <3>1. IsList(head) /\ Len(head) = 2 /\ head[1] = x /\ head[2] = u
      BY <2>3, <2>5, ShortLists
    <3>2. QED
      BY <2>5, <3>1 DEF HeadLength, x, u
  <2>6. QED
    BY <2>4, <2>5
<1>9. first \in {2, 3} /\ (SupportsVariants(ver) => first = 3)
  BY DEF HeadLength
<1> HIDE DEF head, first
<1>10. /\ IsList(c) /\ Len(c) = first + 2 * n
       /\ \A i \in 1..first : c[i] = head[i]
       /\ \A i \in 1..Len(locs) : c[first + i] = locs[i]
  <2>1. /\ IsList(head \o locs)
        /\ Len(head \o locs) = Len(head) + Len(locs)
        /\ \A i \in 1..Len(head) : (head \o locs)[i] = head[i]
        /\ \A i \in 1..Len(locs) : (head \o locs)[Len(head) + i] = locs[i]
    BY <1>6, <1>8, ListsJoined
  <2>2. QED
    BY <1>2, <1>6, <1>8, <2>1
<1>11. 1 \in 1..first /\ 2 \in 1..first /\ (SupportsVariants(ver) => 3 \in 1..first)
  BY <1>9
<1>12. \A j \in 1..n : /\ c[first + 2 * (j - 1) + 1] = Cell("uint", es[order[j]].offset)
                       /\ c[first + 2 * (j - 1) + 2] = Cell("uint", es[order[j]].length)
  <2> SUFFICES ASSUME NEW j \in 1..n
               PROVE  /\ c[first + 2 * (j - 1) + 1] = Cell("uint", es[order[j]].offset)
                      /\ c[first + 2 * (j - 1) + 2] = Cell("uint", es[order[j]].length)
    OBVIOUS
  <2> DEFINE k == 2 * (j - 1)
  <2>1. k \in Nat
    BY <1>1
  <2>2. /\ k + 1 \in 1..Len(locs) /\ k + 2 \in 1..Len(locs)
        /\ locs[k + 1] = Cell("uint", es[order[j]].offset)
        /\ locs[k + 2] = Cell("uint", es[order[j]].length)
    BY <1>7
  <2> HIDE DEF k
  <2>3. first + k + 1 = first + (k + 1) /\ first + k + 2 = first + (k + 2)
    BY <1>9, <2>1
  <2>4. c[first + (k + 1)] = locs[k + 1] /\ c[first + (k + 2)] = locs[k + 2]
    BY <1>10, <2>2
  <2>5. QED
    BY <2>2, <2>3, <2>4 DEF k
<1>13. QED
  BY <1>8, <1>10, <1>11, <1>12 DEF IsEntry, n, order, c, first

(* The index: the URLs, each with its entry, and where the entries are. *)
UrlList(es) == SetToSeq(UrlsOf(es))
EntryList(ver, es) ==
  [i \in DOMAIN UrlList(es) |-> IndexEntryCells(ver, EntriesOf(es, UrlList(es)[i]))]

(* at[i] is the number of cells before the i-th list of p. *)
PlacesOf(p) == CHOOSE at : ArePlaces(at, p)

(* The places of the sequences of a list, and what is there. *)
LEMMA PlacesExist ==
  ASSUME NEW p, IsLists(p)
  PROVE  /\ ArePlaces(PlacesOf(p), p)
         /\ IsList(FlattenSeq(p))
         /\ Len(FlattenSeq(p)) = PlacesOf(p)[Len(p) + 1]
         /\ \A i \in 1..Len(p) : \A j \in 1..Len(p[i]) :
              /\ PlacesOf(p)[i] + j \in 1..Len(FlattenSeq(p))
              /\ FlattenSeq(p)[PlacesOf(p)[i] + j] = p[i][j]
<1>1. PICK at : /\ ArePlaces(at, p)
                /\ Len(FlattenSeq(p)) = at[Len(p) + 1]
                /\ \A i \in 1..Len(p) : \A j \in 1..Len(p[i]) :
                     /\ at[i] + j \in 1..Len(FlattenSeq(p))
                     /\ FlattenSeq(p)[at[i] + j] = p[i][j]
  BY FlatPlaces
<1> DEFINE b == PlacesOf(p)
<1>2. ArePlaces(b, p)
  BY <1>1 DEF PlacesOf
<1> HIDE DEF b
<1>3. b = at
  <2> DEFINE n == Len(p)
             K == {k \in Nat : k <= n => b[k + 1] = at[k + 1]}
  <2>1. n \in Nat
    BY ListLength DEF IsLists
  <2>2. /\ b \in [1..(n + 1) -> Nat] /\ at \in [1..(n + 1) -> Nat]
        /\ b[1] = 0 /\ at[1] = 0
        /\ \A i \in 1..n : b[i + 1] = b[i] + Len(p[i]) /\ at[i + 1] = at[i] + Len(p[i])
    BY <1>1, <1>2 DEF ArePlaces
  <2> HIDE DEF n
  <2>3. 0 \in K
    BY <2>2
  <2>4. ASSUME NEW k \in Nat, k \in K PROVE k + 1 \in K
    <3> SUFFICES ASSUME k + 1 <= n PROVE b[(k + 1) + 1] = at[(k + 1) + 1]
      OBVIOUS
    <3>1. b[k + 1] = at[k + 1] /\ k + 1 \in 1..n
      BY <2>1, <2>4
    <3>2. QED
      BY <2>2, <3>1
  <2>5. \A i \in 1..(n + 1) : b[i] = at[i]
    <3> SUFFICES ASSUME NEW i \in 1..(n + 1) PROVE b[i] = at[i]
      OBVIOUS
    <3>1. i - 1 \in Nat /\ (i - 1) + 1 = i /\ i - 1 <= n
      BY <2>1
    <3>2. i - 1 \in K
      <4> HIDE DEF K
      <4>1. QED
        BY <2>3, <2>4, <3>1, InductionOnSets
    <3>3. QED
      BY <3>1, <3>2
  <2> HIDE DEF K
  <2>6. b = [i \in 1..(n + 1) |-> b[i]] /\ at = [i \in 1..(n + 1) |-> at[i]]
    BY <2>2
  <2>7. QED
    BY <2>5, <2>6
<1>4. IsList(FlattenSeq(p))
  BY FlattenIsList
<1>5. QED
  BY <1>1, <1>3, <1>4 DEF b

(* The index entries that Finalize takes. *)
CanIndex(ver, ix) ==
  /\ IsList(ix)
  /\ \A e \in 1..Len(ix) : IsList(ix[e].keys) /\ IsLists(ix[e].variants)
  /\ CanFinalize(ver, ix)

EntriesAt(ix, i) == EntriesOf(ix, UrlList(ix)[i])

(* The entries that the index has for its i-th URL. *)
LEMMA UrlEntries ==
  ASSUME NEW ver, NEW ix, CanIndex(ver, ix), NEW i \in 1..Len(UrlList(ix))
  PROVE  /\ CanList(ver, EntriesAt(ix, i))
         /\ 1 \in 1..Len(EntriesAt(ix, i))
         /\ EntriesAt(ix, i)[1].url = UrlList(ix)[i]
         /\ \A p \in 1..Len(EntriesAt(ix, i)) :
              /\ EntriesAt(ix, i)[p].url = UrlList(ix)[i]
              /\ \E e \in 1..Len(ix) : ix[e] = EntriesAt(ix, i)[p]
         /\ \A e \in 1..Len(ix) :
              ix[e].url = UrlList(ix)[i] =>
                \E p \in 1..Len(EntriesAt(ix, i)) : EntriesAt(ix, i)[p] = ix[e]
<1> DEFINE url == UrlList(ix)[i]
           es == EntriesAt(ix, i)
<1>1. IsList(ix) /\ Len(ix) \in Nat /\ DOMAIN ix = 1..Len(ix)
  BY ListLength DEF CanIndex
<1>2. PICK f \in 1..Len(ix) : ix[f].url = url
  BY <1>1, UrlsListed DEF UrlList
<1>3. es = EntriesOf(ix, url)
  BY DEF EntriesAt
<1> HIDE DEF url, es
<1>4. /\ IsList(es)
      /\ \A x : Occurs(x, es) <=> \E e \in 1..Len(ix) : ix[e] = x /\ x.url = url
  BY <1>1, <1>3, EntriesOfUrl
<1>5. Len(es) \in Nat /\ DOMAIN es = 1..Len(es)
  BY <1>4, ListLength
<1>6. ASSUME NEW p \in 1..Len(es)
      PROVE  \E e \in 1..Len(ix) : ix[e] = es[p] /\ es[p].url = url
  <2>1. Occurs(es[p], es)
    BY <1>5 DEF Occurs
  <2>2. QED
    BY <1>4, <2>1
<1>7. ASSUME NEW e \in 1..Len(ix), ix[e].url = url
      PROVE  \E p \in 1..Len(es) : es[p] = ix[e]
  <2>1. Occurs(ix[e], es)
    BY <1>4, <1>7
  <2>2. QED
    BY <1>5, <2>1 DEF Occurs
<1>8. Len(es) # 0 /\ 1 \in 1..Len(es)
  BY <1>2, <1>5, <1>7
<1>9. \A p \in 1..Len(es) : IsList(es[p].keys) /\ IsLists(es[p].variants)
  BY <1>6 DEF CanIndex
<1>10. Len(es) = 1 \/ (SupportsVariants(ver) /\ EntriesInPossibleKeyOrder(es).ok)
  <2>1. url \in UrlsOf(ix)
    BY <1>1, <1>2 DEF UrlsOf
  <2>2. QED
    BY <1>3, <2>1 DEF CanIndex, CanFinalize
<1>11. CanList(ver, es)
  BY <1>4, <1>8, <1>9, <1>10 DEF CanList
<1>12. QED
  BY <1>6, <1>7, <1>8, <1>11 DEF url, es

(* Everything that a reader has to know of the cells of an index. *)
IsIndex(cells, ver, ix) ==
  LET list == EntryList(ver, ix)
      at == PlacesOf(list)
      n == Len(UrlList(ix))
  IN /\ IsList(cells) /\ Len(cells) = 1 + at[n + 1]
     /\ cells[1] = Cell("map", n)
     /\ IsLists(list) /\ Len(list) = n /\ n \in Nat /\ ArePlaces(at, list)
     /\ \A i \in 1..n : IsEntry(list[i], ver, EntriesAt(ix, i))
     /\ \A i \in 1..n : \A j \in 1..Len(list[i]) : cells[1 + at[i] + j] = list[i][j]

(* The cells of the index section are where the reader looks for them. *)
LEMMA IndexLayout ==
  ASSUME NEW ver, NEW ix, CanIndex(ver, ix)
  PROVE  IsIndex(IndexCells(ver, ix), ver, ix)
<1> DEFINE urls == UrlList(ix)
           list == EntryList(ver, ix)
           n == Len(urls)
           at == PlacesOf(list)
           head == <<Cell("map", n)>>
           rest == FlattenSeq(list)
           cells == IndexCells(ver, ix)
<1>1. IsList(urls) /\ n \in Nat /\ DOMAIN urls = 1..n
  BY UrlsListed, ListLength DEF UrlList, CanIndex
<1>2. cells = head \o rest
  BY DEF IndexCells, EntryList, UrlList
<1> HIDE DEF cells
<1>3. IsLists(list) /\ Len(list) = n /\ \A i \in 1..n : IsEntry(list[i], ver, EntriesAt(ix, i))
  <2>1. DOMAIN list = 1..n /\ list = [i \in 1..n |-> list[i]]
    BY <1>1 DEF EntryList
  <2>2. IsList(list) /\ Len(list) = n
    <3> HIDE DEF list, n
    <3>1. QED
      BY <1>1, <2>1, FunctionIsList
  <2>3. ASSUME NEW i \in 1..n PROVE IsEntry(list[i], ver, EntriesAt(ix, i))
    <3>1. list[i] = IndexEntryCells(ver, EntriesAt(ix, i))
      BY <1>1 DEF EntryList, EntriesAt
    <3>2. CanList(ver, EntriesAt(ix, i))
      BY UrlEntries
    <3>3. IsEntry(IndexEntryCells(ver, EntriesAt(ix, i)), ver, EntriesAt(ix, i))
      BY <3>2, EntryCells
    <3>4. QED
      BY <3>1, <3>3
  <2>4. \A i \in 1..n : IsList(list[i])
    BY <2>3 DEF IsEntry
  <2> HIDE DEF list, n
  <2>5. QED
    BY <2>1, <2>2, <2>3, <2>4 DEF IsLists
<1> HIDE DEF list, n, urls
<1>4. /\ ArePlaces(at, list)
      /\ IsList(rest)
      /\ Len(rest) = at[n + 1]
      /\ \A i \in 1..n : \A j \in 1..Len(list[i]) :
           at[i] + j \in 1..Len(rest) /\ rest[at[i] + j] = list[i][j]
  BY <1>3, PlacesExist
<1>5. IsList(head) /\ Len(head) = 1 /\ head[1] = Cell("map", n)
  <2> DEFINE x == Cell("map", n)
  <2> HIDE DEF x
  <2>1. IsList(<<x>>) /\ Len(<<x>>) = 1 /\ <<x>>[1] = x
    BY ShortLists
  <2>2. QED
    BY <2>1 DEF x
<1> HIDE DEF head, rest, at
<1>6. /\ IsList(cells) /\ Len(cells) = 1 + Len(rest)
      /\ cells[1] = head[1]
      /\ \A k \in 1..Len(rest) : cells[1 + k] = rest[k]
  <2>0. IsList(head) /\ IsList(rest)
    BY <1>4, <1>5
  <2>1. /\ IsList(head \o rest)
        /\ Len(head \o rest) = Len(head) + Len(rest)
        /\ \A i \in 1..Len(head) : (head \o rest)[i] = head[i]
        /\ \A i \in 1..Len(rest) : (head \o rest)[Len(head) + i] = rest[i]
    BY <2>0, ListsJoined
  <2>2. 1 \in 1..1
    OBVIOUS
  <2>3. QED
    BY <1>2, <1>5, <2>1, <2>2
<1>7. ASSUME NEW i \in 1..n, NEW j \in 1..Len(list[i])
      PROVE  cells[1 + at[i] + j] = list[i][j]
  <2>1. at[i] \in Nat /\ j \in Nat
    <3>1. i \in 1..(n + 1)
      BY <1>1
    <3>2. Len(list[i]) \in Nat
      BY <1>3, ListLength DEF IsLists
    <3>3. at \in [1..(n + 1) -> Nat]
      BY <1>3, <1>4 DEF ArePlaces
    <3>4. QED
      BY <3>1, <3>2, <3>3
  <2>2. 1 + at[i] + j = 1 + (at[i] + j)
    BY <2>1
  <2>3. cells[1 + (at[i] + j)] = rest[at[i] + j]
    BY <1>4, <1>6
  <2>4. QED
    BY <1>4, <2>2, <2>3
<1>8. /\ IsList(cells) /\ Len(cells) = 1 + at[n + 1] /\ cells[1] = Cell("map", n)
      /\ IsLists(list) /\ Len(list) = n /\ n \in Nat /\ ArePlaces(at, list)
  BY <1>1, <1>3, <1>4, <1>5, <1>6
<1>9. \A i \in 1..n : IsEntry(list[i], ver, EntriesAt(ix, i))
  BY <1>3
<1>10. \A i \in 1..n : \A j \in 1..Len(list[i]) : cells[1 + at[i] + j] = list[i][j]
  BY <1>7
<1>11. QED
  BY <1>8, <1>9, <1>10 DEF IsIndex, list, at, n, urls, cells

-----------------------------------------------------------------------------
(* The sections of a bundle                                                *)

UrlIsSection(b) == ~HasPrimaryURLFieldInHeader(b.version) /\ b.primaryURL # NoUrl

SectionsOf(b, ix, rs) ==
  << [name |-> "index", cells |-> IndexCells(b.version, ix)] >>
    \o (IF HasPrimaryURLFieldInHeader(b.version) THEN <<>> ELSE UrlSection("primary", b.primaryURL))
    \o UrlSection("manifest", b.manifestURL)
    \o (IF b.signed
        THEN << [name |-> "signatures", cells |-> <<Cell("array", 2), Cell("sigs", b.version)>>] >>
        ELSE <<>>)
    \o << [name |-> "responses", cells |-> rs] >>

IsSection(x, b, ix, rs) ==
  \/ x.name = "index" /\ x.cells = IndexCells(b.version, ix)
  \/ x.name = "primary" /\ x.cells = <<Cell("text", b.primaryURL)>> /\ UrlIsSection(b)
  \/ x.name = "manifest" /\ x.cells = <<Cell("text", b.manifestURL)>> /\ b.manifestURL # NoUrl
  \/ /\ x.name = "signatures" /\ x.cells = <<Cell("array", 2), Cell("sigs", b.version)>>
     /\ b.signed
  \/ x.name = "responses" /\ x.cells = rs

(* The first sections of a bundle, which have these names. *)
AreSections(s, names, b, ix, rs) ==
  /\ IsList(s) /\ Len(s) # 0 /\ s[1].name = "index"
  /\ \A i \in 1..Len(s) : IsSection(s[i], b, ix, rs) /\ s[i].name \in names
  /\ \A name \in names : \E i \in 1..Len(s) : s[i].name = name
  /\ \A i, j \in 1..Len(s) : s[i].name = s[j].name => i = j

(* One section more, of another name. *)
LEMMA OneMore ==
  ASSUME NEW b, NEW ix, NEW rs, NEW s, NEW names, AreSections(s, names, b, ix, rs),
         NEW x, IsSection(x, b, ix, rs), x.name \notin names
  PROVE  /\ AreSections(s \o <<x>>, names \union {x.name}, b, ix, rs)
         /\ Len(s \o <<x>>) = Len(s) + 1 /\ (s \o <<x>>)[Len(s) + 1] = x
<1> DEFINE t == s \o <<x>>
           n == Len(s)
<1>1. /\ IsList(s) /\ n \in Nat /\ n # 0 /\ s[1].name = "index"
      /\ \A i \in 1..n : IsSection(s[i], b, ix, rs) /\ s[i].name \in names
  BY ListLength DEF AreSections
<1>1a. /\ \A name \in names : \E i \in 1..n : s[i].name = name
       /\ \A i, j \in 1..n : s[i].name = s[j].name => i = j
  BY DEF AreSections
<1>2. IsList(<<x>>) /\ Len(<<x>>) = 1 /\ <<x>>[1] = x
  BY ShortLists
<1>3. /\ IsList(t) /\ Len(t) = n + 1
      /\ \A i \in 1..n : t[i] = s[i]
      /\ t[n + 1] = x
  <2> DEFINE o == <<x>>
  <2>1. IsList(s) /\ IsList(o)
    BY <1>1, <1>2
  <2>2. Len(o) = 1 /\ o[1] = x
    BY <1>2
  <2> HIDE DEF o
  <2>3. /\ IsList(s \o o)
        /\ Len(s \o o) = Len(s) + Len(o)
        /\ \A i \in 1..Len(s) : (s \o o)[i] = s[i]
        /\ \A i \in 1..Len(o) : (s \o o)[Len(s) + i] = o[i]
    BY <2>1, ListsJoined
  <2>4. 1 \in 1..1
    OBVIOUS
  <2>5. QED
    BY <2>2, <2>3, <2>4 DEF o
<1> HIDE DEF t, n
<1>4. \A i \in 1..(n + 1) : i \in 1..n \/ i = n + 1
  BY <1>1
<1>5. 1 \in 1..n /\ n + 1 \in 1..(n + 1) /\ \A i \in 1..n : i \in 1..(n + 1)
  BY <1>1
<1>6. \A i \in 1..(n + 1) : IsSection(t[i], b, ix, rs) /\ t[i].name \in names \union {x.name}
  BY <1>1, <1>3, <1>4
<1>7. \A name \in names \union {x.name} : \E i \in 1..(n + 1) : t[i].name = name
  <2> SUFFICES ASSUME NEW name \in names \union {x.name}
               PROVE  \E i \in 1..(n + 1) : t[i].name = name
    OBVIOUS
  <2>1. CASE name = x.name
    BY <1>3, <1>5, <2>1
  <2>2. CASE name \in names
    <3>1. PICK i \in 1..n : s[i].name = name
      BY <1>1a, <2>2
    <3>2. t[i].name = name /\ i \in 1..(n + 1)
      BY <1>3, <1>5, <3>1
    <3>3. QED
      BY <3>2
  <2>3. QED
    BY <2>1, <2>2
<1>8. \A i, j \in 1..(n + 1) : t[i].name = t[j].name => i = j
  <2> SUFFICES ASSUME NEW i \in 1..(n + 1), NEW j \in 1..(n + 1), t[i].name = t[j].name
               PROVE  i = j
    OBVIOUS
  <2>1. CASE i \in 1..n /\ j \in 1..n
    BY <1>1a, <1>3, <2>1
  <2>2. CASE i = n + 1 /\ j \in 1..n
    BY <1>1, <1>3, <2>2
  <2>3. CASE i \in 1..n /\ j = n + 1
    BY <1>1, <1>3, <2>3
  <2>4. QED
    BY <1>4, <2>1, <2>2, <2>3
<1>9. t[1].name = "index" /\ Len(t) # 0
  BY <1>1, <1>3, <1>5
<1>10. AreSections(t, names \union {x.name}, b, ix, rs)
  BY <1>3, <1>6, <1>7, <1>8, <1>9 DEF AreSections
<1>11. QED
  BY <1>3, <1>10 DEF t, n

(* The names that the sections of a bundle have. *)
SectionNames(b) ==
  {"index", "responses"}
    \union (IF UrlIsSection(b) THEN {"primary"} ELSE {})
    \union (IF b.manifestURL # NoUrl THEN {"manifest"} ELSE {})
    \union (IF b.signed THEN {"signatures"} ELSE {})

(* WriteTo puts the sections together: each once, the index first and the  *)
(* responses last.                                                         *)
LEMMA SectionsAreSections ==
  ASSUME NEW b, NEW ix, NEW rs
  PROVE  LET s == SectionsOf(b, ix, rs)
         IN  /\ AreSections(s, SectionNames(b), b, ix, rs)
             /\ Len(s) \in Nat /\ Len(s) >= 2 /\ s[Len(s)].name = "responses"
<1> DEFINE idx == [name |-> "index", cells |-> IndexCells(b.version, ix)]
           prim == [name |-> "primary", cells |-> <<Cell("text", b.primaryURL)>>]
           mani == [name |-> "manifest", cells |-> <<Cell("text", b.manifestURL)>>]
           sigs == [name |-> "signatures", cells |-> <<Cell("array", 2), Cell("sigs", b.version)>>]
           resp == [name |-> "responses", cells |-> rs]
           p2 == IF UrlIsSection(b) THEN <<prim>> ELSE <<>>
           p3 == IF b.manifestURL # NoUrl THEN <<mani>> ELSE <<>>
           p4 == IF b.signed THEN <<sigs>> ELSE <<>>
           n2 == IF UrlIsSection(b) THEN {"primary"} ELSE {}
           n3 == IF b.manifestURL # NoUrl THEN {"manifest"} ELSE {}
           n4 == IF b.signed THEN {"signatures"} ELSE {}
           s1 == <<idx>>
           s2 == s1 \o p2
           s3 == s2 \o p3
           s4 == s3 \o p4
           s5 == s4 \o <<resp>>
           m1 == {"index"}
           m2 == m1 \union n2
           m3 == m2 \union n3
           m4 == m3 \union n4
<1>1. SectionsOf(b, ix, rs) = s5
  <2>1. p2 = IF HasPrimaryURLFieldInHeader(b.version) THEN <<>> ELSE UrlSection("primary", b.primaryURL)
    BY DEF UrlIsSection, UrlSection
  <2>2. p3 = UrlSection("manifest", b.manifestURL)
    BY DEF UrlSection
  <2> HIDE DEF p2, p3
  <2>3. QED
    BY <2>1, <2>2 DEF SectionsOf
<1>2. /\ idx.name = "index" /\ IsSection(idx, b, ix, rs)
      /\ prim.name = "primary" /\ (UrlIsSection(b) => IsSection(prim, b, ix, rs))
      /\ mani.name = "manifest" /\ (b.manifestURL # NoUrl => IsSection(mani, b, ix, rs))
      /\ sigs.name = "signatures" /\ (b.signed => IsSection(sigs, b, ix, rs))
      /\ resp.name = "responses" /\ IsSection(resp, b, ix, rs)
  BY DEF IsSection
<1>3. /\ p2 = IF UrlIsSection(b) THEN <<prim>> ELSE <<>>
      /\ p3 = IF b.manifestURL # NoUrl THEN <<mani>> ELSE <<>>
      /\ p4 = IF b.signed THEN <<sigs>> ELSE <<>>
  OBVIOUS
<1> HIDE DEF idx, prim, mani, sigs, resp, p2, p3, p4
<1>4. AreSections(s1, m1, b, ix, rs)
  <2>1. IsList(s1) /\ Len(s1) = 1 /\ s1[1] = idx
    BY ShortLists
  <2> HIDE DEF s1
  <2>2. \A i \in 1..1 : i = 1
    OBVIOUS
  <2>3. 1 \in 1..1
    OBVIOUS
  <2>4. QED
    BY <1>2, <2>1, <2>2, <2>3 DEF AreSections
<1> HIDE DEF s1
<1>5. AreSections(s2, m2, b, ix, rs)
  <2>1. CASE UrlIsSection(b)
    <3>1. p2 = <<prim>> /\ n2 = {prim.name} /\ prim.name \notin m1 /\ IsSection(prim, b, ix, rs)
      BY <1>2, <1>3, <2>1
    <3> HIDE DEF m1, n2
    <3>2. AreSections(s1 \o <<prim>>, m1 \union {prim.name}, b, ix, rs)
      BY <1>4, <3>1, OneMore
    <3>3. QED
      BY <3>1, <3>2
  <2>2. CASE ~UrlIsSection(b)
    <3>1. p2 = <<>> /\ n2 = {} /\ m2 = m1
      BY <1>3, <2>2
    <3>2. s1 \o <<>> = s1
      BY <1>4, ListsJoinedToEmpty DEF AreSections
    <3> HIDE DEF m1, n2
    <3>3. QED
      BY <1>4, <3>1, <3>2
  <2>3. QED
    BY <2>1, <2>2
<1> HIDE DEF s2
<1>6. AreSections(s3, m3, b, ix, rs)
  <2>1. CASE b.manifestURL # NoUrl
    <3>1. p3 = <<mani>> /\ n3 = {mani.name} /\ mani.name \notin m2 /\ IsSection(mani, b, ix, rs)
      BY <1>2, <1>3, <2>1
    <3> HIDE DEF m2, n3
    <3>2. AreSections(s2 \o <<mani>>, m2 \union {mani.name}, b, ix, rs)
      BY <1>5, <3>1, OneMore
    <3>3. QED
      BY <3>1, <3>2
  <2>2. CASE b.manifestURL = NoUrl
    <3>1. p3 = <<>> /\ n3 = {} /\ m3 = m2
      BY <1>3, <2>2
    <3>2. s2 \o <<>> = s2
      BY <1>5, ListsJoinedToEmpty DEF AreSections
    <3> HIDE DEF m2, n3
    <3>3. QED
      BY <1>5, <3>1, <3>2
  <2>3. QED
    BY <2>1, <2>2
<1> HIDE DEF s3
<1>7. AreSections(s4, m4, b, ix, rs)
  <2>1. CASE b.signed
    <3>1. p4 = <<sigs>> /\ n4 = {sigs.name} /\ sigs.name \notin m3 /\ IsSection(sigs, b, ix, rs)
      BY <1>2, <1>3, <2>1
    <3> HIDE DEF m3, n4
    <3>2. AreSections(s3 \o <<sigs>>, m3 \union {sigs.name}, b, ix, rs)
      BY <1>6, <3>1, OneMore
    <3>3. QED
      BY <3>1, <3>2
  <2>2. CASE ~b.signed
    <3>1. p4 = <<>> /\ n4 = {} /\ m4 = m3
      BY <1>3, <2>2
    <3>2. s3 \o <<>> = s3
      BY <1>6, ListsJoinedToEmpty DEF AreSections
    <3> HIDE DEF m3, n4
    <3>3. QED
      BY <1>6, <3>1, <3>2
  <2>3. QED
    BY <2>1, <2>2
<1> HIDE DEF s4
<1>8. /\ AreSections(s5, m4 \union {"responses"}, b, ix, rs)
      /\ Len(s5) = Len(s4) + 1 /\ s5[Len(s4) + 1] = resp
  <2>1. resp.name \notin m4 /\ resp.name = "responses" /\ IsSection(resp, b, ix, rs)
    BY <1>2
  <2> HIDE DEF m4
  <2>2. QED
    BY <1>7, <2>1, OneMore
<1>9. m4 \union {"responses"} = SectionNames(b)
  BY DEF SectionNames
<1>10. Len(s4) \in Nat /\ Len(s4) # 0
  BY <1>7, ListLength DEF AreSections
<1> HIDE DEF s5, m4
<1>11. AreSections(s5, SectionNames(b), b, ix, rs)
  BY <1>8, <1>9
<1>12. Len(s5) \in Nat /\ Len(s5) >= 2 /\ s5[Len(s5)].name = "responses"
  BY <1>2, <1>8, <1>10
<1>13. QED
  BY <1>1, <1>11, <1>12

-----------------------------------------------------------------------------
(* What a bundle has where                                                 *)

(* The cells before section-lengths. *)
TablePlace(b) == IF HasPrimaryURLFieldInHeader(b.version) THEN 2 ELSE 1

PiecesOf(b, ss) == Pieces(b.version, b.primaryURL, ss)
CellsOf(b, ss) == FlattenSeq(PiecesOf(b, ss))
WholeOf(b, ss) == CellsOf(b, ss) \o <<Cell("length", Len(CellsOf(b, ss)) + FooterLength)>>

(* The offset of each section, and of the footer. *)
StartsOf(b, ss) ==
  [i \in 1..(Len(ss) + 1) |-> PlacesOf(PiecesOf(b, ss))[TablePlace(b) + 2 + i]]

ArePieces(p, b, ss) ==
  LET n == TablePlace(b)
  IN /\ IsLists(p) /\ Len(p) = n + 2 + Len(ss)
     /\ p[1] = <<Cell("magic", b.version)>>
     /\ HasPrimaryURLFieldInHeader(b.version) => p[2] = <<Cell("text", b.primaryURL)>>
     /\ p[n + 1] = <<Cell("lengths", SectionLengths(ss))>>
     /\ p[n + 2] = <<Cell("array", Len(ss))>>
     /\ \A i \in 1..Len(ss) : p[n + 2 + i] = ss[i].cells

(* A list of one-cell pieces, before and after one more is appended. *)
LEMMA TwoJoined ==
  ASSUME NEW a, NEW b, IsLists(a), IsLists(b)
  PROVE  /\ IsLists(a \o b) /\ Len(a \o b) = Len(a) + Len(b)
         /\ \A i \in 1..Len(a) : (a \o b)[i] = a[i]
         /\ \A i \in 1..Len(b) : (a \o b)[Len(a) + i] = b[i]
<1> DEFINE c == a \o b
<1>1. IsList(a) /\ IsList(b)
  BY DEF IsLists
<1>2. /\ IsList(c) /\ Len(c) = Len(a) + Len(b)
      /\ \A i \in 1..Len(a) : c[i] = a[i]
      /\ \A i \in 1..Len(b) : c[Len(a) + i] = b[i]
  BY <1>1, ListsJoined
<1>3. /\ Len(a) \in Nat /\ Len(b) \in Nat
      /\ \A i \in 1..Len(a) : IsList(a[i])
      /\ \A i \in 1..Len(b) : IsList(b[i])
  BY ListLength DEF IsLists
<1> HIDE DEF c
<1>4. DOMAIN c = 1..Len(c)
  BY <1>2, ListLength
<1>5. ASSUME NEW i \in 1..Len(c) PROVE IsList(c[i])
  <2>1. CASE i <= Len(a)
    <3>1. i \in 1..Len(a)
      BY <1>2, <1>3, <2>1
    <3>2. QED
      BY <1>2, <1>3, <3>1
  <2>2. CASE ~(i <= Len(a))
    <3>1. i - Len(a) \in 1..Len(b) /\ Len(a) + (i - Len(a)) = i
      BY <1>2, <1>3, <2>2
    <3>2. c[i] = b[i - Len(a)]
      BY <1>2, <3>1
    <3>3. QED
      BY <1>3, <3>1, <3>2
  <2>3. QED
    BY <2>1, <2>2
<1>6. IsLists(c)
  BY <1>2, <1>4, <1>5 DEF IsLists
<1>7. QED
  BY <1>2, <1>6 DEF c

(* Lists of no, one and two sequences. *)
LEMMA ListsOfOne ==
  /\ IsLists(<<>>) /\ Len(<<>>) = 0
  /\ \A x : IsList(x) => IsLists(<<x>>) /\ Len(<<x>>) = 1 /\ <<x>>[1] = x
  /\ \A x, y : IsList(x) /\ IsList(y) =>
       IsLists(<<x, y>>) /\ Len(<<x, y>>) = 2 /\ <<x, y>>[1] = x /\ <<x, y>>[2] = y
<1>1. IsLists(<<>>) /\ Len(<<>>) = 0
  <2> DEFINE o == <<>>
  <2>1. IsList(o) /\ Len(o) = 0
    BY ShortLists
  <2> HIDE DEF o
  <2>2. DOMAIN o = 1..0
    BY <2>1, ListLength
  <2>3. \A i : i \notin 1..0
    OBVIOUS
  <2>4. QED
    BY <2>1, <2>2, <2>3 DEF IsLists, o
<1>2. ASSUME NEW x, IsList(x) PROVE IsLists(<<x>>) /\ Len(<<x>>) = 1 /\ <<x>>[1] = x
  <2> DEFINE o == <<x>>
  <2>1. IsList(o) /\ Len(o) = 1 /\ o[1] = x
    BY ShortLists
  <2> HIDE DEF o
  <2>2. DOMAIN o = 1..1
    BY <2>1, ListLength
  <2>3. \A i \in 1..1 : i = 1
    OBVIOUS
  <2>4. IsLists(o)
    BY <1>2, <2>1, <2>2, <2>3 DEF IsLists
  <2>5. QED
    BY <2>1, <2>4 DEF o
<1>3. ASSUME NEW x, NEW y, IsList(x), IsList(y)
      PROVE  IsLists(<<x, y>>) /\ Len(<<x, y>>) = 2 /\ <<x, y>>[1] = x /\ <<x, y>>[2] = y
  <2> DEFINE o == <<x, y>>
  <2>1. IsList(o) /\ Len(o) = 2 /\ o[1] = x /\ o[2] = y
    BY ShortLists
  <2> HIDE DEF o
  <2>2. DOMAIN o = 1..2
    BY <2>1, ListLength
  <2>3. \A i \in 1..2 : i = 1 \/ i = 2
    OBVIOUS
  <2>4. IsLists(o)
    BY <1>3, <2>1, <2>2, <2>3 DEF IsLists
  <2>5. QED
    BY <2>1, <2>4 DEF o
<1>4. QED
  BY <1>1, <1>2, <1>3

(* The pieces that WriteTo writes, in their order. *)
LEMMA PiecesLayout ==
  ASSUME NEW b, NEW ss, IsList(ss), \A i \in 1..Len(ss) : IsList(ss[i].cells)
  PROVE  ArePieces(PiecesOf(b, ss), b, ss)
<1> DEFINE m == <<Cell("magic", b.version)>>
           u == <<Cell("text", b.primaryURL)>>
           l == <<Cell("lengths", SectionLengths(ss))>>
           a == <<Cell("array", Len(ss))>>
           p1 == <<m>>
           p2 == IF HasPrimaryURLFieldInHeader(b.version) THEN <<u>> ELSE <<>>
           p3 == <<l, a>>
           p4 == [i \in DOMAIN ss |-> ss[i].cells]
           q2 == p1 \o p2
           q3 == q2 \o p3
           q4 == q3 \o p4
           n == TablePlace(b)
           N == Len(ss)
<1>1. PiecesOf(b, ss) = q4
  BY DEF PiecesOf, Pieces
<1>2. IsList(m) /\ IsList(u) /\ IsList(l) /\ IsList(a)
  BY ShortLists
<1>3. IsLists(p4) /\ Len(p4) = N /\ N \in Nat /\ \A i \in 1..N : p4[i] = ss[i].cells
  <2>1. N \in Nat /\ DOMAIN ss = 1..N
    BY ListLength
  <2>2. DOMAIN p4 = 1..N /\ p4 = [i \in 1..N |-> p4[i]] /\ \A i \in 1..N : p4[i] = ss[i].cells
    BY <2>1
  <2> HIDE DEF p4
  <2>3. \A i \in 1..N : IsList(p4[i])
    BY <2>2
  <2> HIDE DEF N
  <2>4. IsList(p4) /\ Len(p4) = N
    BY <2>1, <2>2, FunctionIsList
  <2>5. QED
    BY <2>1, <2>2, <2>3, <2>4 DEF IsLists
<1> HIDE DEF m, u, l, a, p4
<1>4. IsLists(p1) /\ Len(p1) = 1 /\ p1[1] = m
  BY <1>2, ListsOfOne
<1>5. /\ IsLists(p2) /\ Len(p2) = n - 1 /\ n \in {1, 2}
      /\ HasPrimaryURLFieldInHeader(b.version) => n = 2 /\ p2[1] = u
  <2>1. CASE HasPrimaryURLFieldInHeader(b.version)
    <3>1. p2 = <<u>> /\ n = 2
      BY <2>1 DEF TablePlace
    <3>2. IsLists(<<u>>) /\ Len(<<u>>) = 1 /\ <<u>>[1] = u
      BY <1>2, ListsOfOne
    <3> HIDE DEF p2, n
    <3>3. QED
      BY <3>1, <3>2
  <2>2. CASE ~HasPrimaryURLFieldInHeader(b.version)
    <3>1. p2 = <<>> /\ n = 1
      BY <2>2 DEF TablePlace
    <3> HIDE DEF p2, n
    <3>2. QED
      BY <2>2, <3>1, ListsOfOne
  <2>3. QED
    BY <2>1, <2>2
<1>6. IsLists(p3) /\ Len(p3) = 2 /\ p3[1] = l /\ p3[2] = a
  BY <1>2, ListsOfOne
<1> HIDE DEF p1, p2, p3, n
<1>7. /\ IsLists(q2) /\ Len(q2) = n
      /\ q2[1] = m
      /\ HasPrimaryURLFieldInHeader(b.version) => q2[2] = u
  <2>1. /\ IsLists(q2) /\ Len(q2) = Len(p1) + Len(p2)
        /\ \A i \in 1..Len(p1) : q2[i] = p1[i]
        /\ \A i \in 1..Len(p2) : q2[Len(p1) + i] = p2[i]
    <3>1. IsLists(p1) /\ IsLists(p2)
      BY <1>4, <1>5
    <3>2. QED
      BY <3>1, TwoJoined
  <2> HIDE DEF q2
  <2>2. 1 \in 1..1 /\ 1 + 1 = 2 /\ (n = 2 => 1 \in 1..(n - 1))
    OBVIOUS
  <2>3. q2[1] = m /\ Len(q2) = n
    BY <1>4, <1>5, <2>1, <2>2
  <2>4. HasPrimaryURLFieldInHeader(b.version) => q2[2] = u
    BY <1>4, <1>5, <2>1, <2>2
  <2>5. QED
    BY <2>1, <2>3, <2>4
<1> HIDE DEF q2
<1>8. /\ IsLists(q3) /\ Len(q3) = n + 2
      /\ \A i \in 1..n : q3[i] = q2[i]
      /\ q3[n + 1] = l /\ q3[n + 2] = a
  <2>1. /\ IsLists(q3) /\ Len(q3) = Len(q2) + Len(p3)
        /\ \A i \in 1..Len(q2) : q3[i] = q2[i]
        /\ \A i \in 1..Len(p3) : q3[Len(q2) + i] = p3[i]
    <3>1. IsLists(q2) /\ IsLists(p3)
      BY <1>6, <1>7
    <3>2. QED
      BY <3>1, TwoJoined
  <2> HIDE DEF q3
  <2>2. 1 \in 1..2 /\ 2 \in 1..2
    OBVIOUS
  <2>3. QED
    BY <1>6, <1>7, <2>1, <2>2
<1> HIDE DEF q3
<1>9. /\ IsLists(q4) /\ Len(q4) = n + 2 + N
      /\ \A i \in 1..(n + 2) : q4[i] = q3[i]
      /\ \A i \in 1..N : q4[n + 2 + i] = p4[i]
  <2>1. /\ IsLists(q4) /\ Len(q4) = Len(q3) + Len(p4)
        /\ \A i \in 1..Len(q3) : q4[i] = q3[i]
        /\ \A i \in 1..Len(p4) : q4[Len(q3) + i] = p4[i]
    <3>1. IsLists(q3) /\ IsLists(p4)
      BY <1>3, <1>8
    <3>2. QED
      BY <3>1, TwoJoined
  <2> HIDE DEF q4
  <2>2. QED
    BY <1>3, <1>8, <2>1
<1> HIDE DEF q4
<1>10. /\ 1 \in 1..n /\ 1 \in 1..(n + 2) /\ n + 1 \in 1..(n + 2) /\ n + 2 \in 1..(n + 2)
       /\ (n = 2 => 2 \in 1..n /\ 2 \in 1..(n + 2))
  BY <1>5
<1>11. /\ q4[1] = m /\ q4[n + 1] = l /\ q4[n + 2] = a
       /\ HasPrimaryURLFieldInHeader(b.version) => q4[2] = u
  BY <1>5, <1>7, <1>8, <1>9, <1>10
<1>12. \A i \in 1..N : q4[n + 2 + i] = ss[i].cells
  BY <1>3, <1>9
<1>13. ArePieces(q4, b, ss)
  BY <1>9, <1>11, <1>12 DEF ArePieces, n, m, l, a, u
<1>14. QED
  BY <1>1, <1>13

(* Everything that a reader has to know of the cells of a bundle. *)
IsWholeBundle(cells, b, ss) ==
  LET n == TablePlace(b)
      at == StartsOf(b, ss)
  IN /\ IsList(cells)
     /\ at \in [1..(Len(ss) + 1) -> Nat]
     /\ at[1] = n + 2
     /\ \A i \in 1..Len(ss) : at[i + 1] = at[i] + Len(ss[i].cells)
     /\ Len(cells) = at[Len(ss) + 1] + 1
     /\ cells[1] = Cell("magic", b.version)
     /\ HasPrimaryURLFieldInHeader(b.version) => cells[2] = Cell("text", b.primaryURL)
     /\ cells[n + 1] = Cell("lengths", SectionLengths(ss))
     /\ cells[n + 2] = Cell("array", Len(ss))
     /\ \A i \in 1..Len(ss) : \A j \in 1..Len(ss[i].cells) : cells[at[i] + j] = ss[i].cells[j]

(* Where the sections are in the bundle that these pieces make. *)
LEMMA BundleLayout ==
  ASSUME NEW b, NEW ss, IsList(ss), \A i \in 1..Len(ss) : IsList(ss[i].cells)
  PROVE  /\ IsList(CellsOf(b, ss))
         /\ IsWholeBundle(WholeOf(b, ss), b, ss)
         /\ \A i \in 1..Len(ss) : \A j \in i..(Len(ss) + 1) :
              StartsOf(b, ss)[i] <= StartsOf(b, ss)[j]
<1> DEFINE p == PiecesOf(b, ss)
           n == TablePlace(b)
           N == Len(ss)
           pl == PlacesOf(p)
           at == StartsOf(b, ss)
           flat == CellsOf(b, ss)
           foot == <<Cell("length", Len(flat) + FooterLength)>>
           cells == WholeOf(b, ss)
<1>1. ArePieces(p, b, ss) /\ N \in Nat /\ n \in {1, 2}
  BY PiecesLayout, ListLength DEF TablePlace
<1>2. /\ IsLists(p) /\ Len(p) = n + 2 + N
      /\ p[1] = <<Cell("magic", b.version)>>
      /\ HasPrimaryURLFieldInHeader(b.version) => p[2] = <<Cell("text", b.primaryURL)>>
      /\ p[n + 1] = <<Cell("lengths", SectionLengths(ss))>>
      /\ p[n + 2] = <<Cell("array", Len(ss))>>
      /\ \A i \in 1..N : p[n + 2 + i] = ss[i].cells
  BY <1>1 DEF ArePieces
<1>3. /\ flat = FlattenSeq(p)
      /\ at = [i \in 1..(N + 1) |-> pl[n + 2 + i]]
      /\ HasPrimaryURLFieldInHeader(b.version) => n = 2
      /\ ~HasPrimaryURLFieldInHeader(b.version) => n = 1
  BY DEF CellsOf, StartsOf, TablePlace
<1>4. cells = flat \o foot
  BY DEF WholeOf
<1> HIDE DEF p, n, N, at, flat, cells
<1>5. /\ ArePlaces(pl, p)
      /\ IsList(flat)
      /\ Len(flat) = pl[Len(p) + 1]
      /\ \A i \in 1..Len(p) : \A j \in 1..Len(p[i]) :
           /\ pl[i] + j \in 1..Len(flat)
           /\ flat[pl[i] + j] = p[i][j]
  BY <1>2, <1>3, PlacesExist
<1> HIDE DEF pl
<1>6. /\ pl \in [1..(n + 2 + N + 1) -> Nat] /\ pl[1] = 0
      /\ \A i \in 1..(n + 2 + N) : pl[i + 1] = pl[i] + Len(p[i])
  BY <1>2, <1>5 DEF ArePlaces
<1>7. \A x : Len(<<x>>) = 1 /\ <<x>>[1] = x
  BY ShortLists
<1>8. /\ Len(p[1]) = 1 /\ Len(p[n + 1]) = 1 /\ Len(p[n + 2]) = 1 /\ (n = 2 => Len(p[2]) = 1)
      /\ p[1][1] = Cell("magic", b.version)
      /\ HasPrimaryURLFieldInHeader(b.version) => p[2][1] = Cell("text", b.primaryURL)
      /\ p[n + 1][1] = Cell("lengths", SectionLengths(ss))
      /\ p[n + 2][1] = Cell("array", Len(ss))
  <2>1. Len(p[1]) = 1 /\ p[1][1] = Cell("magic", b.version)
    BY <1>2, <1>7
  <2>2. Len(p[n + 1]) = 1 /\ p[n + 1][1] = Cell("lengths", SectionLengths(ss))
    BY <1>2, <1>7
  <2>3. Len(p[n + 2]) = 1 /\ p[n + 2][1] = Cell("array", Len(ss))
    BY <1>2, <1>7
  <2>4. HasPrimaryURLFieldInHeader(b.version) =>
          Len(p[2]) = 1 /\ p[2][1] = Cell("text", b.primaryURL)
    BY <1>2, <1>7
  <2>5. QED
    BY <1>3, <2>1, <2>2, <2>3, <2>4
<1>9. pl[2] = 1 /\ pl[n + 1] = n /\ pl[n + 2] = n + 1 /\ pl[n + 3] = n + 2
  <2>1. pl[1 + 1] = pl[1] + Len(p[1])
    <3>1. 1 \in 1..(n + 2 + N)
      BY <1>1
    <3>2. QED
      BY <1>6, <3>1
  <2>2. n = 2 => pl[2 + 1] = pl[2] + Len(p[2])
    <3>1. n = 2 => 2 \in 1..(n + 2 + N)
      BY <1>1
    <3>2. QED
      BY <1>6, <3>1
  <2>3. pl[(n + 1) + 1] = pl[n + 1] + Len(p[n + 1])
    <3>1. n + 1 \in 1..(n + 2 + N)
      BY <1>1
    <3>2. QED
      BY <1>6, <3>1
  <2>4. pl[(n + 2) + 1] = pl[n + 2] + Len(p[n + 2])
    <3>1. n + 2 \in 1..(n + 2 + N)
      BY <1>1
    <3>2. QED
      BY <1>6, <3>1
  <2>5. /\ 1 + 1 = 2 /\ 2 + 1 = 3 /\ 1 + 2 = 3 /\ 2 + 2 = 4
        /\ (n + 1) + 1 = n + 2 /\ (n + 2) + 1 = n + 3
    BY <1>1
  <2>6. pl[2] = 1
    BY <1>6, <1>8, <2>1, <2>5
  <2>7. pl[n + 1] = n
    BY <1>1, <1>8, <2>2, <2>5, <2>6
  <2>8. pl[n + 2] = n + 1
    BY <1>1, <1>8, <2>3, <2>5, <2>7
  <2>9. pl[n + 3] = n + 2
    <3>1. pl[n + 3] = (n + 1) + 1
      BY <1>8, <2>4, <2>5, <2>8
    <3>2. QED
      BY <1>1, <3>1
  <2>10. QED
    BY <2>6, <2>7, <2>8, <2>9
<1>10. /\ at \in [1..(N + 1) -> Nat] /\ at[1] = n + 2
       /\ \A i \in 1..N : at[i + 1] = at[i] + Len(ss[i].cells)
       /\ Len(flat) = at[N + 1]
  <2>1. \A i \in 1..(N + 1) : n + 2 + i \in 1..(n + 2 + N + 1) /\ at[i] = pl[n + 2 + i]
    BY <1>1, <1>3
  <2>2. at \in [1..(N + 1) -> Nat]
    BY <1>3, <1>6, <2>1
  <2>3. at[1] = n + 2
    <3>1. 1 \in 1..(N + 1) /\ n + 2 + 1 = n + 3
      BY <1>1
    <3>2. QED
      BY <1>9, <2>1, <3>1
  <2>4. ASSUME NEW i \in 1..N PROVE at[i + 1] = at[i] + Len(ss[i].cells)
    <3>1. /\ i \in 1..(N + 1) /\ i + 1 \in 1..(N + 1)
          /\ n + 2 + (i + 1) = (n + 2 + i) + 1 /\ n + 2 + i \in 1..(n + 2 + N)
      BY <1>1
    <3>2. pl[(n + 2 + i) + 1] = pl[n + 2 + i] + Len(p[n + 2 + i])
      BY <1>6, <3>1
    <3>3. QED
      BY <1>2, <2>1, <3>1, <3>2
  <2>5. Len(flat) = at[N + 1]
    <3>1. N + 1 \in 1..(N + 1) /\ n + 2 + (N + 1) = (n + 2 + N) + 1
      BY <1>1
    <3>2. Len(flat) = pl[(n + 2 + N) + 1]
      BY <1>2, <1>5
    <3>3. QED
      BY <2>1, <3>1, <3>2
  <2>6. QED
    BY <2>2, <2>3, <2>4, <2>5
<1>11. /\ IsList(cells) /\ Len(cells) = Len(flat) + 1
       /\ \A i \in 1..Len(flat) : cells[i] = flat[i]
  <2>1. IsList(foot) /\ Len(foot) = 1
    BY ShortLists
  <2> HIDE DEF foot
  <2>2. IsList(flat)
    BY <1>5
  <2>3. /\ IsList(flat \o foot)
        /\ Len(flat \o foot) = Len(flat) + Len(foot)
        /\ \A i \in 1..Len(flat) : (flat \o foot)[i] = flat[i]
    BY <2>1, <2>2, ListsJoined
  <2>4. QED
    BY <1>4, <2>1, <2>3
<1>12. ASSUME NEW i \in 1..Len(p), NEW j \in 1..Len(p[i]) PROVE cells[pl[i] + j] = p[i][j]
  BY <1>5, <1>11
<1>13. /\ cells[1] = Cell("magic", b.version)
       /\ HasPrimaryURLFieldInHeader(b.version) => cells[2] = Cell("text", b.primaryURL)
       /\ cells[n + 1] = Cell("lengths", SectionLengths(ss))
       /\ cells[n + 2] = Cell("array", Len(ss))
  <2>1. /\ 1 \in 1..Len(p) /\ n + 1 \in 1..Len(p) /\ n + 2 \in 1..Len(p)
        /\ (n = 2 => 2 \in 1..Len(p)) /\ 1 \in 1..1 /\ 0 + 1 = 1 /\ 1 + 1 = 2
        /\ (n + 1) + 1 = n + 2
    BY <1>1, <1>2
  <2>2. cells[pl[1] + 1] = p[1][1] /\ cells[pl[n + 1] + 1] = p[n + 1][1]
        /\ cells[pl[n + 2] + 1] = p[n + 2][1] /\ (n = 2 => cells[pl[2] + 1] = p[2][1])
    BY <1>8, <1>12, <2>1
  <2>3. QED
    BY <1>3, <1>6, <1>8, <1>9, <2>1, <2>2
<1>14. ASSUME NEW i \in 1..N, NEW j \in 1..Len(ss[i].cells)
       PROVE  cells[at[i] + j] = ss[i].cells[j]
  <2>1. n + 2 + i \in 1..Len(p) /\ i \in 1..(N + 1)
    BY <1>1, <1>2
  <2>2. p[n + 2 + i] = ss[i].cells /\ at[i] = pl[n + 2 + i]
    BY <1>2, <1>3, <2>1
  <2>3. j \in 1..Len(p[n + 2 + i])
    BY <2>2
  <2>4. QED
    BY <1>12, <2>1, <2>2, <2>3
<1>15. Len(cells) = at[N + 1] + 1
  BY <1>10, <1>11
<1>16. IsWholeBundle(cells, b, ss)
  BY <1>10, <1>11, <1>13, <1>14, <1>15 DEF IsWholeBundle, n, N, at
<1>17. ASSUME NEW i \in 1..N, NEW j \in i..(N + 1) PROVE at[i] <= at[j]
  <2> DEFINE k == n + 2 + i
             l == n + 2 + j
  <2>1. /\ k \in 1..(Len(p) + 1) /\ l \in 1..(Len(p) + 1) /\ k <= l
        /\ i \in 1..(N + 1) /\ j \in 1..(N + 1)
    <3>1. N \in Nat /\ n \in {1, 2} /\ Len(p) = n + 2 + N
      BY <1>1, <1>2
    <3>2. QED
      BY <3>1
  <2>2. at[i] = pl[k] /\ at[j] = pl[l]
    BY <1>3, <2>1
  <2> HIDE DEF k, l
  <2>3. pl[k] <= pl[l]
    BY <1>2, <1>5, <2>1, PlacesGrow
  <2>4. QED
    BY <2>2, <2>3
<1>18. QED
  BY <1>5, <1>16, <1>17 DEF flat, cells, at, N

(* The operators of BundleFormat mean the same in the writer: the order of *)
(* the responses of a URL,                                                 *)
LEMMA WriterKeys ==
  ASSUME NEW es
  PROVE  W!EntriesInPossibleKeyOrder(es) = EntriesInPossibleKeyOrder(es)
BY DEF W!EntriesInPossibleKeyOrder, EntriesInPossibleKeyOrder, W!NumberOfPossibleKeys, NumberOfPossibleKeys,
       W!Slots, Slots, W!Claim, Claim, W!Put, Put, W!IndexInPossibleKeys, IndexInPossibleKeys,
       W!IsPossibleKey, IsPossibleKey, W!Place, Place, W!IndexInAxis, IndexInAxis,
       W!Listed, Listed, W!NoOrder, NoOrder,
       W!FoldLeft, FoldLeft, W!MapThenFoldSet, MapThenFoldSet, W!Max, Max

(* the entries of a URL, *)
LEMMA WriterEntries ==
  ASSUME NEW es, NEW url
  PROVE  W!EntriesOf(es, url) = EntriesOf(es, url)
BY DEF W!EntriesOf, EntriesOf, W!FoldLeft, FoldLeft, W!MapThenFoldSet, MapThenFoldSet, W!Max, Max

(* whether the index can be finalized, *)
LEMMA WriterFinalizes ==
  ASSUME NEW ver, NEW es
  PROVE  W!CanFinalize(ver, es) <=> CanFinalize(ver, es)
<1>1. W!UrlsOf(es) = UrlsOf(es)
  BY DEF W!UrlsOf, UrlsOf
<1>2. W!SupportsVariants(ver) <=> SupportsVariants(ver)
  BY DEF W!SupportsVariants, SupportsVariants
<1>3. QED
  BY <1>1, <1>2, WriterEntries, WriterKeys DEF W!CanFinalize, CanFinalize

(* the cells of an index entry *)
LEMMA WriterEntryCells ==
  ASSUME NEW ver, NEW es
  PROVE  W!IndexEntryCells(ver, es) = IndexEntryCells(ver, es)
<1> DEFINE order == IF Len(es) = 1 THEN <<1>> ELSE EntriesInPossibleKeyOrder(es).entries
           variants == IF Len(es) = 1 THEN <<>> ELSE es[1].variants
           places == [i \in DOMAIN order |-> LocationCells(es[order[i]])]
           locations == FlattenSeq(places)
<1>1. \A s : W!FlattenSeq(s) = FlattenSeq(s)
  BY DEF W!FlattenSeq, FlattenSeq
<1>2. \A k, v : W!Cell(k, v) = Cell(k, v)
  BY DEF W!Cell, Cell
<1>3. \A e : W!LocationCells(e) = LocationCells(e)
  BY <1>2 DEF W!LocationCells, LocationCells
<1>4. W!SupportsVariants(ver) <=> SupportsVariants(ver)
  BY DEF W!SupportsVariants, SupportsVariants
<1>5. IndexEntryCells(ver, es) =
        IF SupportsVariants(ver)
        THEN <<Cell("text", es[1].url), Cell("array", 1 + Len(locations)),
               Cell("variants", variants)>> \o locations
        ELSE <<Cell("text", es[1].url), Cell("array", 2)>> \o locations
  BY DEF IndexEntryCells
<1>6. W!IndexEntryCells(ver, es) =
        LET o == IF Len(es) = 1 THEN <<1>> ELSE W!EntriesInPossibleKeyOrder(es).entries
            l == W!FlattenSeq([i \in DOMAIN o |-> W!LocationCells(es[o[i]])])
        IN IF W!SupportsVariants(ver)
           THEN <<W!Cell("text", es[1].url), W!Cell("array", 1 + Len(l)),
                  W!Cell("variants", variants)>> \o l
           ELSE <<W!Cell("text", es[1].url), W!Cell("array", 2)>> \o l
  BY DEF W!IndexEntryCells
<1>7. order = IF Len(es) = 1 THEN <<1>> ELSE W!EntriesInPossibleKeyOrder(es).entries
  BY WriterKeys
<1> HIDE DEF order
<1>8. places = [i \in DOMAIN order |-> W!LocationCells(es[order[i]])]
  BY <1>3
<1> HIDE DEF places, variants
<1>9. locations = W!FlattenSeq([i \in DOMAIN order |-> W!LocationCells(es[order[i]])])
  BY <1>1, <1>8
<1> HIDE DEF locations
<1>10. W!IndexEntryCells(ver, es) =
         IF W!SupportsVariants(ver)
         THEN <<W!Cell("text", es[1].url), W!Cell("array", 1 + Len(locations)),
                W!Cell("variants", variants)>> \o locations
         ELSE <<W!Cell("text", es[1].url), W!Cell("array", 2)>> \o locations
  BY <1>6, <1>7, <1>9
<1>11. QED
  BY <1>2, <1>4, <1>5, <1>10

(* and of the index, *)
LEMMA WriterIndexCells ==
  ASSUME NEW ver, NEW es
  PROVE  W!IndexCells(ver, es) = IndexCells(ver, es)
<1>1. W!UrlsOf(es) = UrlsOf(es)
  BY DEF W!UrlsOf, UrlsOf
<1>2. \A S : W!SetToSeq(S) = SetToSeq(S)
  BY DEF W!SetToSeq, SetToSeq, W!IsInjective, IsInjective, W!Cardinality, Cardinality, W!IsFiniteSet, IsFiniteSet
<1>3. \A s : W!FlattenSeq(s) = FlattenSeq(s)
  BY DEF W!FlattenSeq, FlattenSeq
<1>4. \A k, v : W!Cell(k, v) = Cell(k, v)
  BY DEF W!Cell, Cell
<1> DEFINE urls == SetToSeq(UrlsOf(es))
<1>5. W!SetToSeq(W!UrlsOf(es)) = urls
  BY <1>1, <1>2
<1> HIDE DEF urls
<1>6. [i \in DOMAIN urls |-> W!IndexEntryCells(ver, W!EntriesOf(es, urls[i]))]
        = [i \in DOMAIN urls |-> IndexEntryCells(ver, EntriesOf(es, urls[i]))]
  BY WriterEntries, WriterEntryCells
<1>7. W!IndexCells(ver, es)
        = <<W!Cell("map", Len(urls))>>
            \o W!FlattenSeq([i \in DOMAIN urls |-> W!IndexEntryCells(ver, W!EntriesOf(es, urls[i]))])
  BY <1>5 DEF W!IndexCells
<1>8. IndexCells(ver, es)
        = <<Cell("map", Len(urls))>>
            \o FlattenSeq([i \in DOMAIN urls |-> IndexEntryCells(ver, EntriesOf(es, urls[i]))])
  BY DEF IndexCells, urls
<1>9. QED
  BY <1>3, <1>4, <1>6, <1>7, <1>8

(* the sections and the pieces, *)
LEMMA WriterSections ==
  /\ W!Sections = SectionsOf(bundle, index, responses)
  /\ \A ss : W!Pieces(bundle.version, bundle.primaryURL, ss) = PiecesOf(bundle, ss)
<1>1. \A name, url : W!UrlSection(name, url) = UrlSection(name, url)
  BY DEF W!UrlSection, UrlSection, W!Cell, Cell, W!NoUrl, NoUrl
<1>2. \A k, v : W!Cell(k, v) = Cell(k, v)
  BY DEF W!Cell, Cell
<1>3. W!HasPrimaryURLFieldInHeader(bundle.version) <=> HasPrimaryURLFieldInHeader(bundle.version)
  BY DEF W!HasPrimaryURLFieldInHeader, HasPrimaryURLFieldInHeader
<1>4. W!IndexCells(bundle.version, index) = IndexCells(bundle.version, index)
  BY WriterIndexCells
<1>5. W!Sections = SectionsOf(bundle, index, responses)
  BY <1>1, <1>2, <1>3, <1>4 DEF W!Sections, SectionsOf
<1>6. \A ss : W!SectionLengths(ss) = SectionLengths(ss)
  BY DEF W!SectionLengths, SectionLengths
<1>7. \A ss : W!Pieces(bundle.version, bundle.primaryURL, ss)
                = Pieces(bundle.version, bundle.primaryURL, ss)
  BY <1>2, <1>3, <1>6 DEF W!Pieces, Pieces
<1>8. QED
  BY <1>5, <1>7 DEF PiecesOf

(* and the cells of a response. *)
LEMMA WriterResponses ==
  ASSUME NEW x
  PROVE  W!ResponseCells(x) = ResponseCells(x)
BY DEF W!ResponseCells, ResponseCells, W!BodyCells, BodyCells, W!HeaderOf, HeaderOf, W!Cell, Cell

(* The cells of a response are where the reader looks for them. *)
LEMMA ResponseLayout ==
  ASSUME NEW x, IsList(x.body)
  PROVE  LET c == ResponseCells(x)
             n == Len(x.body)
         IN  /\ IsList(c) /\ n \in Nat /\ Len(c) = 3 + n
             /\ c[1] = Cell("array", 2) /\ c[2] = Cell("header", HeaderOf(x))
             /\ c[3] = Cell("bytes", n)
             /\ \A i \in 1..n : c[3 + i] = Cell("octet", x.body[i])
<1> DEFINE n == Len(x.body)
           u == Cell("array", 2)
           v == Cell("header", HeaderOf(x))
           w == Cell("bytes", n)
           a == <<u, v>>
           b == <<w>>
           o == [i \in DOMAIN x.body |-> Cell("octet", x.body[i])]
           bo == b \o o
           c == a \o bo
<1>1. ResponseCells(x) = c
  BY DEF ResponseCells, BodyCells
<1>2. n \in Nat /\ DOMAIN x.body = 1..n
  BY ListLength
<1>3. IsList(o) /\ Len(o) = n /\ \A i \in 1..n : o[i] = Cell("octet", x.body[i])
  <2>1. DOMAIN o = 1..n /\ o = [i \in 1..n |-> o[i]] /\ \A i \in 1..n : o[i] = Cell("octet", x.body[i])
    BY <1>2
  <2> HIDE DEF o, n
  <2>2. IsList(o) /\ Len(o) = n
    BY <1>2, <2>1, FunctionIsList
  <2>3. QED
    BY <2>1, <2>2
<1> HIDE DEF o, n, u, v, w
<1>4. IsList(a) /\ Len(a) = 2 /\ a[1] = u /\ a[2] = v
  BY ShortLists
<1>5. IsList(b) /\ Len(b) = 1 /\ b[1] = w
  BY ShortLists
<1> HIDE DEF a, b
<1>6. /\ IsList(bo) /\ Len(bo) = 1 + n /\ bo[1] = w
      /\ \A i \in 1..n : bo[1 + i] = o[i]
  <2>1. IsList(b) /\ IsList(o)
    BY <1>3, <1>5
  <2>2. /\ IsList(bo) /\ Len(bo) = Len(b) + Len(o)
        /\ \A i \in 1..Len(b) : bo[i] = b[i]
        /\ \A i \in 1..Len(o) : bo[Len(b) + i] = o[i]
    BY <2>1, ListsJoined
  <2> HIDE DEF bo
  <2>3. 1 \in 1..1
    OBVIOUS
  <2>4. QED
    BY <1>3, <1>5, <2>2, <2>3
<1> HIDE DEF bo
<1>7. /\ IsList(c) /\ Len(c) = 3 + n /\ c[1] = u /\ c[2] = v
      /\ \A i \in 1..(1 + n) : c[2 + i] = bo[i]
  <2>1. IsList(a) /\ IsList(bo)
    BY <1>4, <1>6
  <2>2. /\ IsList(c) /\ Len(c) = Len(a) + Len(bo)
        /\ \A i \in 1..Len(a) : c[i] = a[i]
        /\ \A i \in 1..Len(bo) : c[Len(a) + i] = bo[i]
    BY <2>1, ListsJoined
  <2> HIDE DEF c
  <2>3. 1 \in 1..2 /\ 2 \in 1..2 /\ 2 + (1 + n) = 3 + n
    BY <1>2
  <2>4. QED
    BY <1>4, <1>6, <2>2, <2>3
<1> HIDE DEF c
<1>8. c[3] = w /\ \A i \in 1..n : c[3 + i] = o[i]
  <2>1. 1 \in 1..(1 + n) /\ 2 + 1 = 3 /\ \A i \in 1..n : 1 + i \in 1..(1 + n) /\ 2 + (1 + i) = 3 + i
    BY <1>2
  <2>2. c[2 + 1] = bo[1] /\ \A i \in 1..n : c[2 + (1 + i)] = bo[1 + i]
    BY <1>7, <2>1
  <2>3. QED
    BY <1>6, <2>1, <2>2
<1>9. QED
  BY <1>1, <1>2, <1>3, <1>7, <1>8 DEF n, u, v, w

-----------------------------------------------------------------------------
(* The writer                                                              *)

(* An index entry for an exchange, and what it tells where to find.  *)
IsAdded(e, x, rs) ==
  /\ e.url = x.url /\ e.variants = x.variants /\ e.keys = x.keys
  /\ e.offset \in Nat /\ e.length = Len(ResponseCells(x))
  /\ e.offset + e.length <= Len(rs)
  /\ \A j \in 1..Len(ResponseCells(x)) : rs[e.offset + j] = ResponseCells(x)[j]

IndexInv ==
  /\ IsList(index) /\ IsList(responses) /\ Len(index) <= Len(bundle.exchanges)
  /\ \A i \in 1..Len(index) : IsAdded(index[i], bundle.exchanges[i], responses)

TheSections == SectionsOf(bundle, index, responses)
Begins(s, t) == IsList(s) /\ Len(s) <= Len(t) /\ \A i \in 1..Len(s) : s[i] = t[i]

StreamInv ==
  /\ IsList(stream)
  /\ wpc \in {"adding", "invalid"} => stream = <<>>
  /\ wpc = "writing" => IsLists(pieces) /\ stream \o FlattenSeq(pieces) = CellsOf(bundle, TheSections)
  /\ wpc = "ioError" => Begins(stream, WholeOf(bundle, TheSections))
  /\ wpc = "panic" => Begins(stream, WholeOf(bundle, TheSections))
  /\ wpc = "done" => stream = WholeOf(bundle, TheSections)

WriterInv ==
  /\ bundle \in Bundles
  /\ wpc \in {"adding", "writing", "done", "invalid", "ioError", "panic"}
  /\ IndexInv
  /\ wpc \in {"writing", "done", "ioError", "panic"} =>
       Len(index) = Len(bundle.exchanges) /\ CanFinalize(bundle.version, index)
  /\ written = Len(stream)
  /\ StreamInv

(* What is known of the exchanges of a bundle that is written. *)
LEMMA GoodExchanges ==
  ASSUME bundle \in Bundles
  PROVE  /\ bundle.signed \in BOOLEAN
         /\ IsList(bundle.exchanges) /\ Len(bundle.exchanges) \in Nat
         /\ DOMAIN bundle.exchanges = 1..Len(bundle.exchanges)
         /\ \A i \in 1..Len(bundle.exchanges) :
              /\ IsList(bundle.exchanges[i].body)
              /\ IsList(bundle.exchanges[i].keys)
              /\ IsLists(bundle.exchanges[i].variants)
<1> DEFINE xs == bundle.exchanges
<1>1. /\ bundle.signed \in BOOLEAN
      /\ IsList(xs)
      /\ \A e \in Range(xs) : /\ IsList(e.body) /\ IsList(e.keys) /\ IsList(e.variants)
                              /\ \A vals \in Range(e.variants) : IsList(vals)
  BY BundlesAssumption DEF IsList
<1> HIDE DEF xs
<1>2. Len(xs) \in Nat /\ DOMAIN xs = 1..Len(xs)
  BY <1>1, ListLength
<1>3. ASSUME NEW i \in 1..Len(xs)
      PROVE  IsList(xs[i].body) /\ IsList(xs[i].keys) /\ IsLists(xs[i].variants)
  <2>1. xs[i] \in Range(xs)
    BY <1>2 DEF Range
  <2>2. \A k \in DOMAIN xs[i].variants : xs[i].variants[k] \in Range(xs[i].variants)
    BY DEF Range
  <2>3. QED
    BY <1>1, <2>1, <2>2 DEF IsLists
<1>4. QED
  BY <1>1, <1>2, <1>3 DEF xs

(* A sequence begins with the first of two that it has been joined from. *)
LEMMA BeginsJoined ==
  ASSUME NEW a, NEW b, IsList(a), IsList(b)
  PROVE  Begins(a, a \o b)
<1>1. /\ Len(a) \in Nat /\ Len(b) \in Nat /\ Len(a \o b) = Len(a) + Len(b)
      /\ \A i \in 1..Len(a) : (a \o b)[i] = a[i]
  BY ListsJoined, ListLength
<1>2. QED
  BY <1>1 DEF Begins

(* Cutting off nothing. *)
LEMMA CutWhole ==
  ASSUME NEW s, IsList(s)
  PROVE  SubSeq(s, 1, Len(s)) = s
<1> DEFINE n == Len(s)
           t == SubSeq(s, 1, n)
<1>1. n \in 0..n
  BY ListLength
<1>2. IsList(t) /\ Len(t) = n /\ \A i \in 1..n : t[i] = s[i]
  BY <1>1, CutList
<1> HIDE DEF t
<1>3. QED
  BY <1>2, SameList DEF t

(* The writer starts with an array header in its buffer, and an empty      *)
(* index.                                                                  *)
LEMMA WriterInit ==
  ASSUME Init PROVE WriterInv
<1>1. /\ bundle \in Bundles /\ responses = <<Cell("array", Len(bundle.exchanges))>>
      /\ index = <<>> /\ pieces = <<>> /\ written = 0 /\ stream = <<>> /\ wpc = "adding"
  BY DEF Init, W!NewWriter, W!Cell, Cell
<1>2. IsList(index) /\ Len(index) = 0 /\ IsList(stream) /\ Len(stream) = 0 /\ IsList(responses)
  BY <1>1, ShortLists
<1>3. Len(bundle.exchanges) \in Nat
  BY <1>1, GoodExchanges
<1>4. \A i : i \notin 1..0
  OBVIOUS
<1>5. IndexInv
  BY <1>2, <1>3, <1>4 DEF IndexInv
<1>6. QED
  BY <1>1, <1>2, <1>5 DEF WriterInv, StreamInv

(* A response is appended, and its place is right now and stays so. *)
LEMMA AddExchangeKeeps ==
  ASSUME WriterInv, W!AddExchange
  PROVE  WriterInv'
<1> DEFINE n == Len(index)
           x == bundle.exchanges[n + 1]
           c == ResponseCells(x)
           e == [url |-> x.url, text |-> x.text, variants |-> x.variants, keys |-> x.keys,
                 offset |-> Len(responses), length |-> Len(c)]
<1>1. /\ wpc = "adding" /\ n < Len(bundle.exchanges)
      /\ UNCHANGED <<bundle, pieces, written, stream>>
  BY DEF W!AddExchange, W!Adding
<1>2. \/ responses' = responses \o c /\ index' = Append(index, e) /\ wpc' = wpc
      \/ wpc' = "invalid" /\ UNCHANGED <<responses, index>>
  BY WriterResponses DEF W!AddExchange, W!Exchange, W!IndexEntry, W!Location
<1>3. /\ bundle \in Bundles /\ IndexInv /\ stream = <<>> /\ written = Len(stream) /\ IsList(stream)
  BY <1>1 DEF WriterInv, StreamInv
<1>4. /\ IsList(index) /\ IsList(responses) /\ n \in Nat /\ Len(responses) \in Nat
      /\ \A i \in 1..n : IsAdded(index[i], bundle.exchanges[i], responses)
  BY <1>3, ListLength DEF IndexInv
<1>5. CASE wpc' = "invalid" /\ UNCHANGED <<responses, index>>
  <2>1. IndexInv'
    BY <1>1, <1>3, <1>5 DEF IndexInv
  <2>2. QED
    BY <1>1, <1>3, <1>5, <2>1 DEF WriterInv, StreamInv
<1>6. CASE responses' = responses \o c /\ index' = Append(index, e) /\ wpc' = wpc
  <2>1. n + 1 \in 1..Len(bundle.exchanges)
    BY <1>1, <1>3, <1>4, GoodExchanges
  <2>2. IsList(x.body)
    BY <1>3, <2>1, GoodExchanges
  <2>3. IsList(c) /\ Len(c) \in Nat
    BY <2>2, ResponseLayout, ListLength
  <2> DEFINE rs == responses \o c
  <2> HIDE DEF c, x
  <2>4. /\ IsList(rs) /\ Len(rs) = Len(responses) + Len(c)
        /\ \A i \in 1..Len(responses) : rs[i] = responses[i]
        /\ \A i \in 1..Len(c) : rs[Len(responses) + i] = c[i]
    BY <1>4, <2>3, ListsJoined
  <2> DEFINE ix == Append(index, e)
  <2>5. /\ IsList(ix) /\ Len(ix) = n + 1
        /\ \A i \in 1..n : ix[i] = index[i]
        /\ ix[n + 1] = e
    <3> DEFINE S == Range(index) \union {e}
    <3>1. index \in Seq(S) /\ e \in S
      BY <1>4, SeqMonotonic DEF IsList
    <3> HIDE DEF S, e, n
    <3>2. /\ ix \in Seq(S) /\ Len(ix) = Len(index) + 1
          /\ \A i \in 1..Len(index) : ix[i] = index[i]
          /\ ix[Len(index) + 1] = e
      BY <3>1, AppendProperties
    <3>3. IsList(ix)
      BY <3>2, SeqIsList
    <3>4. QED
      BY <3>2, <3>3 DEF n
  <2>6. IsAdded(e, x, rs)
    <3>1. /\ e.url = x.url /\ e.variants = x.variants /\ e.keys = x.keys
          /\ e.offset = Len(responses) /\ e.length = Len(c)
      OBVIOUS
    <3> HIDE DEF e, rs
    <3>2. QED
      BY <1>4, <2>3, <2>4, <3>1 DEF IsAdded, c
  <2> HIDE DEF e, rs, ix, n
  <2>7. ASSUME NEW i \in 1..(n + 1) PROVE IsAdded(ix[i], bundle.exchanges[i], rs)
    <3>1. CASE i = n + 1
      BY <2>5, <2>6, <3>1 DEF x
    <3>2. CASE i \in 1..n
      <4>1. IsAdded(index[i], bundle.exchanges[i], responses) /\ ix[i] = index[i]
        BY <1>4, <2>5, <3>2
      <4> DEFINE y == bundle.exchanges[i]
                 d == index[i]
                 m == Len(ResponseCells(y))
      <4>2. m \in Nat
        <5>1. i \in 1..Len(bundle.exchanges)
          BY <1>1, <1>3, <1>4, <3>2, GoodExchanges DEF n
        <5>2. IsList(y.body)
          BY <1>3, <5>1, GoodExchanges
        <5> HIDE DEF y
        <5>3. IsList(ResponseCells(y))
          BY <5>2, ResponseLayout
        <5>4. QED
          BY <5>3, ListLength
      <4> HIDE DEF y, d
      <4>3. /\ d.url = y.url /\ d.variants = y.variants /\ d.keys = y.keys
            /\ d.offset \in Nat /\ d.length = m
            /\ d.offset + d.length <= Len(responses)
            /\ \A j \in 1..m : responses[d.offset + j] = ResponseCells(y)[j]
        BY <4>1 DEF IsAdded, y, d
      <4> HIDE DEF m
      <4>4. d.offset + d.length <= Len(rs)
        BY <1>4, <2>3, <2>4, <4>2, <4>3
      <4>5. \A j \in 1..m : d.offset + j \in 1..Len(responses)
        BY <1>4, <4>2, <4>3
      <4>6. \A j \in 1..m : rs[d.offset + j] = ResponseCells(y)[j]
        BY <2>4, <4>3, <4>5
      <4>7. IsAdded(d, y, rs)
        BY <4>3, <4>4, <4>6 DEF IsAdded, m
      <4>8. QED
        BY <4>1, <4>7 DEF y, d
    <3>3. QED
      BY <1>4, <3>1, <3>2 DEF n
  <2>8. n + 1 <= Len(bundle.exchanges)
    BY <2>1 DEF n
  <2>9. IndexInv'
    BY <1>1, <1>6, <2>4, <2>5, <2>7, <2>8 DEF IndexInv, rs, ix
  <2>10. QED
    BY <1>1, <1>3, <1>6, <2>9 DEF WriterInv, StreamInv
<1>7. QED
  BY <1>2, <1>5, <1>6

(* What is known once Finalize has succeeded. *)
Finalized ==
  /\ bundle \in Bundles /\ IndexInv
  /\ Len(index) = Len(bundle.exchanges) /\ CanFinalize(bundle.version, index)

(* An index that has been finalized can be laid out. *)
LEMMA FinalizedIndex ==
  ASSUME Finalized
  PROVE  CanIndex(bundle.version, index)
<1>1. ASSUME NEW e \in 1..Len(index)
      PROVE  IsList(index[e].keys) /\ IsLists(index[e].variants)
  <2>1. IsAdded(index[e], bundle.exchanges[e], responses)
    BY DEF Finalized, IndexInv
  <2>2. e \in 1..Len(bundle.exchanges)
    BY DEF Finalized
  <2>3. QED
    BY <2>1, <2>2, GoodExchanges DEF IsAdded, Finalized
<1>2. QED
  BY <1>1 DEF CanIndex, IndexInv, Finalized

(* So can the sections be. *)
LEMMA FinalizedSections ==
  ASSUME Finalized
  PROVE  /\ AreSections(TheSections, SectionNames(bundle), bundle, index, responses)
         /\ IsList(TheSections) /\ \A i \in 1..Len(TheSections) : IsList(TheSections[i].cells)
         /\ Len(TheSections) \in Nat /\ Len(TheSections) >= 2
         /\ TheSections[Len(TheSections)].name = "responses"
<1> DEFINE ss == TheSections
<1>1. IsList(IndexCells(bundle.version, index))
  BY FinalizedIndex, IndexLayout DEF IsIndex
<1>2. IsList(responses)
  BY DEF Finalized, IndexInv
<1>3. \A u : IsList(<<u>>)
  BY ShortLists
<1>4. \A u, v : IsList(<<u, v>>)
  BY ShortLists
<1>5. /\ AreSections(ss, SectionNames(bundle), bundle, index, responses)
      /\ Len(ss) \in Nat /\ Len(ss) >= 2 /\ ss[Len(ss)].name = "responses"
  BY SectionsAreSections DEF TheSections
<1> HIDE DEF ss
<1>6. ASSUME NEW i \in 1..Len(ss) PROVE IsList(ss[i].cells)
  <2>1. IsSection(ss[i], bundle, index, responses)
    BY <1>5 DEF AreSections
  <2>2. QED
    BY <1>1, <1>2, <1>3, <1>4, <2>1 DEF IsSection
<1>7. IsList(ss)
  BY <1>5 DEF AreSections
<1>8. QED
  BY <1>5, <1>6, <1>7 DEF ss

(* What has been written, and what is still to be, is the whole bundle but *)
(* for the footer.                                                         *)
LEMMA FinalizeKeeps ==
  ASSUME WriterInv, W!Finalize
  PROVE  WriterInv'
<1>1. /\ wpc = "adding" /\ Len(index) = Len(bundle.exchanges)
      /\ UNCHANGED <<bundle, responses, index, written, stream>>
  BY DEF W!Finalize, W!Added
<1>2. /\ bundle \in Bundles /\ IndexInv /\ stream = <<>> /\ written = Len(stream) /\ IsList(stream)
  BY <1>1 DEF WriterInv, StreamInv
<1>3. IndexInv'
  BY <1>1, <1>2 DEF IndexInv
<1>4. CASE wpc' = "invalid"
  BY <1>1, <1>2, <1>3, <1>4 DEF WriterInv, StreamInv
<1>5. CASE /\ W!CanWrite /\ wpc' = "writing"
           /\ pieces' = W!Pieces(bundle.version, bundle.primaryURL, W!Sections)
  <2>1. CanFinalize(bundle.version, index)
    BY <1>5, WriterFinalizes DEF W!CanWrite
  <2>2. pieces' = PiecesOf(bundle, TheSections)
    BY <1>5, WriterSections DEF TheSections
  <2>3. TheSections' = TheSections
    BY <1>1 DEF TheSections
  <2>4. IsLists(pieces') /\ IsList(FlattenSeq(pieces'))
    <3> DEFINE ss == TheSections
    <3>1. IsList(ss) /\ \A i \in 1..Len(ss) : IsList(ss[i].cells)
      BY <1>1, <1>2, <2>1, FinalizedSections DEF Finalized
    <3> HIDE DEF ss
    <3>2. ArePieces(PiecesOf(bundle, ss), bundle, ss)
      BY <3>1, PiecesLayout
    <3>3. IsLists(pieces')
      BY <2>2, <3>2 DEF ArePieces, ss
    <3>4. QED
      BY <3>3, FlattenIsList
  <2>5. stream' \o FlattenSeq(pieces') = FlattenSeq(pieces')
    BY <1>1, <1>2, <2>4, ListsJoinedToEmpty
  <2>6. FlattenSeq(pieces') = CellsOf(bundle, TheSections)
    BY <2>2 DEF CellsOf
  <2>7. StreamInv'
    BY <1>1, <1>2, <1>5, <2>3, <2>4, <2>5, <2>6 DEF StreamInv
  <2>8. QED
    BY <1>1, <1>2, <1>3, <1>5, <2>1, <2>7 DEF WriterInv
<1>6. QED
  BY <1>4, <1>5 DEF W!Finalize

(* It stays so with each piece; after a failing write, the stream begins   *)
(* as the bundle does.                                                     *)
LEMMA WritePieceKeeps ==
  ASSUME WriterInv, NEW n \in Nat, W!WritePiece(n)
  PROVE  WriterInv'
<1> DEFINE p == Head(pieces)
           q == Tail(pieces)
           flat == CellsOf(bundle, TheSections)
           foot == <<Cell("length", Len(flat) + FooterLength)>>
           whole == WholeOf(bundle, TheSections)
           cut == SubSeq(p, 1, n)
<1>1. /\ wpc = "writing" /\ pieces # <<>> /\ n <= Len(p)
      /\ stream' = stream \o cut /\ written' = written + n
      /\ \/ n = Len(p) /\ pieces' = q /\ wpc' = wpc
         \/ n # Len(p) /\ wpc' = "ioError"
      /\ UNCHANGED <<bundle, responses, index>>
  BY DEF W!WritePiece, W!Write
<1>2. /\ IsList(stream) /\ IsLists(pieces) /\ stream \o FlattenSeq(pieces) = flat
      /\ written = Len(stream) /\ Len(stream) \in Nat
      /\ bundle \in Bundles /\ IndexInv
      /\ Len(index) = Len(bundle.exchanges) /\ CanFinalize(bundle.version, index)
  BY <1>1, ListLength DEF WriterInv, StreamInv
<1>3. IndexInv' /\ TheSections' = TheSections
  BY <1>1, <1>2 DEF IndexInv, TheSections
<1>4. IsList(p) /\ IsLists(q) /\ FlattenSeq(pieces) = p \o FlattenSeq(q)
  BY <1>1, <1>2, FlattenFromHead
<1>5. IsList(FlattenSeq(q)) /\ Len(p) \in Nat
  BY <1>4, FlattenIsList, ListLength
<1> HIDE DEF p, q
<1>6. n \in 0..Len(p)
  BY <1>1, <1>5
<1> DEFINE rest == SubSeq(p, n + 1, Len(p))
<1>7. IsList(cut) /\ Len(cut) = n /\ IsList(rest) /\ cut \o rest = p
  BY <1>4, <1>6, CutList
<1>8. n = Len(p) => cut = p
  BY <1>4, CutWhole
<1> HIDE DEF cut, rest
<1>9. IsList(stream \o cut) /\ Len(stream \o cut) = Len(stream) + n
  BY <1>2, <1>7, ListsJoined
<1>10. IsList(stream') /\ written' = Len(stream')
  BY <1>1, <1>2, <1>9
<1>11. CASE n = Len(p) /\ pieces' = q /\ wpc' = wpc
  <2>1. stream' \o FlattenSeq(q) = stream \o (p \o FlattenSeq(q))
    <3>1. stream' = stream \o p
      BY <1>1, <1>8, <1>11
    <3>2. IsList(stream) /\ IsList(p) /\ IsList(FlattenSeq(q))
      BY <1>2, <1>4, <1>5
    <3>3. (stream \o p) \o FlattenSeq(q) = stream \o (p \o FlattenSeq(q))
      BY <3>2, ListsJoinedTwice
    <3>4. QED
      BY <3>1, <3>3
  <2>2. stream' \o FlattenSeq(pieces') = flat
    BY <1>2, <1>4, <1>11, <2>1
  <2>3. StreamInv'
    BY <1>1, <1>3, <1>4, <1>10, <1>11, <2>2 DEF StreamInv
  <2>4. QED
    BY <1>1, <1>2, <1>3, <1>10, <1>11, <2>3 DEF WriterInv
<1>12. CASE n # Len(p) /\ wpc' = "ioError"
  <2> DEFINE r1 == rest \o FlattenSeq(q)
             r2 == r1 \o foot
  <2>1. IsList(foot)
    BY ShortLists
  <2> HIDE DEF foot
  <2>2. IsList(r1)
    BY <1>5, <1>7, ListsJoined
  <2>3. p \o FlattenSeq(q) = cut \o r1
    <3> DEFINE t == FlattenSeq(q)
    <3>1. IsList(cut) /\ IsList(rest) /\ IsList(t)
      BY <1>5, <1>7
    <3> HIDE DEF t
    <3>2. (cut \o rest) \o t = cut \o (rest \o t)
      BY <3>1, ListsJoinedTwice
    <3>3. QED
      BY <1>7, <3>2 DEF t
  <2> HIDE DEF r1
  <2>4. flat = (stream \o cut) \o r1
    <3>1. IsList(stream) /\ IsList(cut) /\ IsList(r1)
      BY <1>2, <1>7, <2>2
    <3>2. (stream \o cut) \o r1 = stream \o (cut \o r1)
      BY <3>1, ListsJoinedTwice
    <3>3. QED
      BY <1>2, <1>4, <2>3, <3>2
  <2>5. IsList(r2)
    BY <2>1, <2>2, ListsJoined
  <2>6. ((stream \o cut) \o r1) \o foot = (stream \o cut) \o r2
    <3> DEFINE t == stream \o cut
    <3>1. IsList(t) /\ IsList(r1) /\ IsList(foot)
      BY <1>9, <2>1, <2>2
    <3> HIDE DEF t
    <3>2. (t \o r1) \o foot = t \o (r1 \o foot)
      BY <3>1, ListsJoinedTwice
    <3>3. QED
      BY <3>2 DEF t
  <2>7. whole = flat \o foot
    BY DEF WholeOf, foot
  <2> HIDE DEF r2, flat, whole
  <2>8. whole = stream' \o r2
    BY <1>1, <2>4, <2>6, <2>7
  <2>9. Begins(stream', whole)
    BY <1>10, <2>5, <2>8, BeginsJoined
  <2>10. StreamInv'
    BY <1>1, <1>3, <1>10, <1>12, <2>9 DEF StreamInv, whole
  <2>11. QED
    BY <1>1, <1>2, <1>3, <1>10, <1>12, <2>10 DEF WriterInv
<1>13. QED
  BY <1>1, <1>11, <1>12

(* With the footer the bundle is whole, and its length is what the footer  *)
(* tells.                                                                  *)
LEMMA WriteFooterKeeps ==
  ASSUME WriterInv, NEW n \in Nat, W!WriteFooter(n)
  PROVE  WriterInv'
<1> DEFINE flat == CellsOf(bundle, TheSections)
           x == Cell("length", Len(flat) + FooterLength)
           foot == <<x>>
           whole == WholeOf(bundle, TheSections)
           cut == SubSeq(foot, 1, n)
<1>1. /\ wpc = "writing" /\ pieces = <<>> /\ n <= 1
      /\ stream' = stream \o SubSeq(<<Cell("length", written + 1)>>, 1, n)
      /\ written' = written + n
      /\ wpc' = IF n = 1 THEN "done" ELSE "ioError"
      /\ UNCHANGED <<bundle, responses, index, pieces>>
  BY DEF W!WriteFooter, W!Write, W!FooterLength, W!Cell, Cell
<1>2. /\ IsList(stream) /\ stream \o FlattenSeq(pieces) = flat /\ IsLists(pieces)
      /\ written = Len(stream) /\ Len(stream) \in Nat
      /\ bundle \in Bundles /\ IndexInv
      /\ Len(index) = Len(bundle.exchanges) /\ CanFinalize(bundle.version, index)
  BY <1>1, ListLength DEF WriterInv, StreamInv
<1>3. IndexInv' /\ TheSections' = TheSections
  BY <1>1, <1>2 DEF IndexInv, TheSections
<1>4. flat = stream
  <2>1. Len(pieces) = 0
    BY <1>1, ShortLists
  <2>2. FlattenSeq(pieces) = <<>>
    BY <1>2, <2>1, FlattenIsList
  <2>3. QED
    BY <1>2, <2>2, ListsJoinedToEmpty
<1>5. whole = flat \o foot
  BY DEF WholeOf
<1>6. stream' = stream \o cut
  BY <1>1, <1>2, <1>4 DEF FooterLength
<1> HIDE DEF x, flat, whole
<1>7. IsList(foot) /\ Len(foot) = 1
  BY ShortLists
<1> HIDE DEF foot
<1>8. n \in 0..1
  BY <1>1
<1>9. IsList(cut) /\ Len(cut) = n
  BY <1>7, <1>8, CutList
<1>10. n = 1 => cut = foot
  BY <1>7, CutWhole
<1> HIDE DEF cut
<1>11. IsList(stream') /\ written' = Len(stream')
  <2>1. IsList(stream) /\ IsList(cut)
    BY <1>2, <1>9
  <2>2. IsList(stream \o cut) /\ Len(stream \o cut) = Len(stream) + Len(cut)
    BY <2>1, ListsJoined
  <2>3. QED
    BY <1>1, <1>2, <1>6, <1>9, <2>2
<1>12. CASE n = 1
  <2>1. stream' = whole
    BY <1>4, <1>5, <1>6, <1>10, <1>12
  <2>2. StreamInv'
    BY <1>1, <1>3, <1>11, <1>12, <2>1 DEF StreamInv, whole
  <2>3. QED
    BY <1>1, <1>2, <1>3, <1>11, <1>12, <2>2 DEF WriterInv
<1>13. CASE n # 1
  <2>1. Len(cut) = 0
    BY <1>8, <1>9, <1>13
  <2>2. cut = <<>>
    BY <1>9, <2>1, EmptyList
  <2>3. stream' = stream
    BY <1>2, <1>6, <2>2, ListsJoinedToEmpty
  <2>4. Begins(stream, whole)
    BY <1>2, <1>4, <1>5, <1>7, BeginsJoined
  <2>5. StreamInv'
    BY <1>1, <1>3, <1>11, <1>13, <2>3, <2>4 DEF StreamInv, whole
  <2>6. QED
    BY <1>1, <1>2, <1>3, <1>11, <1>13, <2>5 DEF WriterInv
<1>14. QED
  BY <1>12, <1>13

(* All steps keep the invariant of the writer, those of the reader since   *)
(* they change nothing of it.                                              *)
LEMMA WriterKeeps ==
  ASSUME WriterInv, [Next]_vars
  PROVE  WriterInv'
<1>1. CASE W!AddExchange
  BY <1>1, AddExchangeKeeps
<1>2. CASE W!Finalize
  BY <1>2, FinalizeKeeps
<1>3. CASE W!WritePrimaryURLPanics
  <2>1. /\ wpc = "writing" /\ wpc' = "panic"
        /\ UNCHANGED <<bundle, responses, index, pieces, written, stream>>
    BY <1>3 DEF W!WritePrimaryURLPanics
  <2> DEFINE flat == CellsOf(bundle, TheSections)
             foot == <<Cell("length", Len(flat) + FooterLength)>>
             more == FlattenSeq(pieces)
             rest == more \o foot
  <2>2. /\ IsList(stream) /\ stream \o more = flat /\ IsLists(pieces)
        /\ bundle \in Bundles /\ IndexInv
    BY <2>1 DEF WriterInv, StreamInv
  <2>3. IndexInv' /\ TheSections' = TheSections
    BY <2>1, <2>2 DEF IndexInv, TheSections
  <2>4. WholeOf(bundle, TheSections) = flat \o foot
    BY DEF WholeOf
  <2>5. IsList(foot) /\ IsList(more)
    BY <2>2, ShortLists, FlattenIsList
  <2> HIDE DEF flat, foot, more
  <2>6. (stream \o more) \o foot = stream \o rest /\ IsList(rest)
    <3>1. IsList(stream) /\ IsList(more) /\ IsList(foot)
      BY <2>2, <2>5
    <3>2. (stream \o more) \o foot = stream \o (more \o foot)
      BY <3>1, ListsJoinedTwice
    <3>3. IsList(more \o foot)
      BY <3>1, ListsJoined
    <3>4. QED
      BY <3>2, <3>3
  <2> HIDE DEF rest
  <2>7. Begins(stream, stream \o rest)
    BY <2>2, <2>6, BeginsJoined
  <2>8. Begins(stream, WholeOf(bundle, TheSections))
    BY <2>2, <2>4, <2>6, <2>7
  <2>9. StreamInv'
    BY <2>1, <2>2, <2>3, <2>8 DEF StreamInv
  <2>10. QED
    BY <2>1, <2>2, <2>3, <2>9 DEF WriterInv
<1>4. ASSUME NEW n \in 0..(IF pieces = <<>> THEN W!FooterLength ELSE Len(Head(pieces))),
             W!WritePiece(n)
      PROVE  WriterInv'
  <2>1. n \in Nat
    BY <1>4
  <2>2. QED
    BY <1>4, <2>1, WritePieceKeeps
<1>5. ASSUME NEW n \in 0..(IF pieces = <<>> THEN W!FooterLength ELSE Len(Head(pieces))),
             W!WriteFooter(n)
      PROVE  WriterInv'
  <2>1. n \in Nat
    BY <1>5
  <2>2. QED
    BY <1>5, <2>1, WriteFooterKeeps
<1>6. CASE UNCHANGED writerVars
  BY <1>6 DEF WriterInv, StreamInv, IndexInv, TheSections, writerVars
<1>7. QED
  BY <1>1, <1>2, <1>3, <1>4, <1>5, <1>6 DEF Next, W!Next, vars

(* It holds of all bundles and whatever writes fail. *)
LEMMA WriterInvariance == Spec => []WriterInv
<1>1. Init => WriterInv
  BY WriterInit
<1>2. WriterInv /\ [Next]_vars => WriterInv'
  BY WriterKeeps
<1>3. QED
  BY <1>1, <1>2, PTL DEF Spec

(* The count is the length of the stream, and the footer tells it. *)
LEMMA FooterTells ==
  ASSUME WriterInv PROVE CountIsRight
<1>1. written = Len(stream) /\ (wpc = "done" => stream = WholeOf(bundle, TheSections))
  BY DEF WriterInv, StreamInv
<1>2. CASE wpc = "done"
  <2> DEFINE flat == CellsOf(bundle, TheSections)
             x == Cell("length", Len(flat) + 1)
             foot == <<x>>
             whole == flat \o foot
  <2>1. stream = whole
    BY <1>1, <1>2 DEF WholeOf, FooterLength
  <2>2. IsList(flat)
    <3>1. Finalized
      BY <1>2 DEF WriterInv, Finalized
    <3>2. QED
      BY <3>1, FinalizedSections, BundleLayout
  <2> HIDE DEF flat
  <2>3. Len(flat) \in Nat
    BY <2>2, ListLength
  <2>4. x = Cell("length", Len(flat) + 1)
    OBVIOUS
  <2> HIDE DEF x
  <2>5. IsList(foot) /\ Len(foot) = 1 /\ foot[1] = x
    BY ShortLists
  <2> HIDE DEF foot
  <2>6. Len(whole) = Len(flat) + 1 /\ whole[Len(flat) + 1] = x
    <3>0. IsList(flat) /\ IsList(foot)
      BY <2>2, <2>5
    <3>1. /\ Len(flat \o foot) = Len(flat) + Len(foot)
          /\ \A i \in 1..Len(foot) : (flat \o foot)[Len(flat) + i] = foot[i]
      BY <3>0, ListsJoined
    <3>2. 1 \in 1..1
      OBVIOUS
    <3>3. /\ Len(flat \o foot) = Len(flat) + 1
          /\ (flat \o foot)[Len(flat) + 1] = x
      BY <2>5, <3>1, <3>2
    <3>4. QED
      BY <3>3
  <2> HIDE DEF whole
  <2>7. Last(stream) = Cell("length", Len(stream))
    BY <2>1, <2>4, <2>6 DEF Last
  <2>8. QED
    BY <1>1, <2>7 DEF CountIsRight
<1>3. QED
  BY <1>1, <1>2 DEF CountIsRight

(* The length that WriteTo reports, and that the footer tells, is the      *)
(* number of octets that the writer has got.                               *)
THEOREM CountIsExact == Spec => []CountIsRight
<1>1. WriterInv => CountIsRight
  BY FooterTells
<1>2. QED
  BY <1>1, WriterInvariance, PTL

-----------------------------------------------------------------------------
(* What a reader finds                                                     *)

Number == Len(TheSections)
Start(i) == StartsOf(bundle, TheSections)[i]
Whole == WholeOf(bundle, TheSections)

(* The stream is what the writer has written of a bundle. *)
Offered == Finalized /\ Begins(stream, Whole) /\ (wpc = "done" => Len(stream) = Len(Whole))

(* When the writer is done or has failed, the stream begins as a bundle    *)
(* does, and is all of it if nothing failed.                               *)
LEMMA OverIsOffered ==
  ASSUME WriterInv, WriterIsOver
  PROVE  Offered
<1>1. Finalized
  BY DEF WriterInv, WriterIsOver, Finalized
<1>2. IsList(stream) /\ Len(stream) \in Nat
  BY ListLength DEF WriterInv, StreamInv
<1>3. CASE wpc = "done"
  <2>1. stream = Whole
    BY <1>3 DEF WriterInv, StreamInv, Whole
  <2> HIDE DEF Whole
  <2>2. QED
    BY <1>1, <1>2, <2>1 DEF Offered, Begins
<1>4. CASE wpc # "done"
  <2>1. Begins(stream, Whole)
    BY <1>4 DEF WriterInv, StreamInv, WriterIsOver, Whole
  <2>2. QED
    BY <1>1, <1>4, <2>1 DEF Offered
<1>5. QED
  BY <1>3, <1>4

(* The sections' places *)
LEMMA Places ==
  ASSUME Finalized
  PROVE  /\ Number \in Nat /\ Number >= 2 /\ TablePlace(bundle) \in {1, 2}
         /\ \A i \in 1..(Number + 1) : Start(i) \in Nat
         /\ Start(1) = TablePlace(bundle) + 2
         /\ \A i \in 1..Number :
              /\ Len(TheSections[i].cells) \in Nat
              /\ Start(i + 1) = Start(i) + Len(TheSections[i].cells)
         /\ \A i \in 1..Number : \A j \in i..(Number + 1) : Start(i) <= Start(j)
         /\ IsList(Whole) /\ Len(Whole) = Start(Number + 1) + 1
<1> DEFINE ss == TheSections
<1>1. /\ IsList(ss) /\ \A i \in 1..Len(ss) : IsList(ss[i].cells)
      /\ Len(ss) \in Nat /\ Len(ss) >= 2
  BY FinalizedSections
<1> HIDE DEF ss
<1>2. /\ IsWholeBundle(WholeOf(bundle, ss), bundle, ss)
      /\ \A i \in 1..Len(ss) : \A j \in i..(Len(ss) + 1) :
           StartsOf(bundle, ss)[i] <= StartsOf(bundle, ss)[j]
  BY <1>1, BundleLayout
<1>3. \A i \in 1..Len(ss) : Len(ss[i].cells) \in Nat
  BY <1>1, ListLength
<1>4. TablePlace(bundle) \in {1, 2}
  BY DEF TablePlace
<1> DEFINE at == StartsOf(bundle, ss)
           whole == WholeOf(bundle, ss)
<1> HIDE DEF at, whole
<1>5. /\ IsList(whole)
      /\ at \in [1..(Len(ss) + 1) -> Nat]
      /\ at[1] = TablePlace(bundle) + 2
      /\ \A i \in 1..Len(ss) : at[i + 1] = at[i] + Len(ss[i].cells)
      /\ Len(whole) = at[Len(ss) + 1] + 1
  BY <1>2 DEF IsWholeBundle, at, whole
<1>6. \A i \in 1..(Len(ss) + 1) : at[i] \in Nat
  BY <1>5
<1>7. QED
  BY <1>1, <1>2, <1>3, <1>4, <1>5, <1>6 DEF at, whole, ss, Start, Number, Whole

(* A cell of a section, in the stream. *)
LEMMA CellOfSection ==
  ASSUME Finalized, Begins(stream, Whole),
         NEW i \in 1..Number, NEW j \in 1..Len(TheSections[i].cells), Start(i) + j <= Len(stream)
  PROVE  stream[Start(i) + j] = TheSections[i].cells[j]
<1>1. /\ IsList(TheSections) /\ \A k \in 1..Len(TheSections) : IsList(TheSections[k].cells)
  BY FinalizedSections
<1>2. IsWholeBundle(Whole, bundle, TheSections)
  BY <1>1, BundleLayout DEF Whole
<1>3. Whole[Start(i) + j] = TheSections[i].cells[j]
  BY <1>2 DEF IsWholeBundle, Start, Number
<1>4. i \in 1..(Number + 1) /\ Len(TheSections[i].cells) \in Nat
  BY Places
<1>5. Start(i) \in Nat /\ j \in Nat /\ j >= 1
  BY <1>4, Places
<1>6. Len(stream) \in Nat
  BY ListLength DEF Begins
<1>7. Start(i) + j \in 1..Len(stream)
  BY <1>5, <1>6
<1>8. QED
  BY <1>3, <1>7 DEF Begins

(* The cells that precede the sections, in the stream. *)
LEMMA CellsOfHeader ==
  ASSUME Finalized, Begins(stream, Whole)
  PROVE  /\ Len(stream) \in Nat /\ Len(stream) <= Len(Whole)
         /\ Len(stream) >= 1 => stream[1] = Cell("magic", bundle.version)
         /\ HasPrimaryURLFieldInHeader(bundle.version) /\ Len(stream) >= 2 =>
              stream[2] = Cell("text", bundle.primaryURL)
         /\ Len(stream) >= TablePlace(bundle) + 1 =>
              stream[TablePlace(bundle) + 1] = Cell("lengths", SectionLengths(TheSections))
         /\ Len(stream) >= TablePlace(bundle) + 2 =>
              stream[TablePlace(bundle) + 2] = Cell("array", Number)
<1>1. /\ IsList(TheSections) /\ \A k \in 1..Len(TheSections) : IsList(TheSections[k].cells)
  BY FinalizedSections
<1>2. IsWholeBundle(Whole, bundle, TheSections)
  BY <1>1, BundleLayout DEF Whole
<1>3. /\ Whole[1] = Cell("magic", bundle.version)
      /\ HasPrimaryURLFieldInHeader(bundle.version) => Whole[2] = Cell("text", bundle.primaryURL)
      /\ Whole[TablePlace(bundle) + 1] = Cell("lengths", SectionLengths(TheSections))
      /\ Whole[TablePlace(bundle) + 2] = Cell("array", Number)
  BY <1>2 DEF IsWholeBundle, Number
<1>4. /\ Len(stream) \in Nat /\ Len(stream) <= Len(Whole)
      /\ \A i \in 1..Len(stream) : stream[i] = Whole[i]
  BY ListLength DEF Begins
<1>5. TablePlace(bundle) \in {1, 2}
  BY DEF TablePlace
<1>6. /\ Len(stream) >= 1 => 1 \in 1..Len(stream)
      /\ Len(stream) >= 2 => 2 \in 1..Len(stream)
      /\ Len(stream) >= TablePlace(bundle) + 1 => TablePlace(bundle) + 1 \in 1..Len(stream)
      /\ Len(stream) >= TablePlace(bundle) + 2 => TablePlace(bundle) + 2 \in 1..Len(stream)
  BY <1>4, <1>5
<1>7. QED
  BY <1>3, <1>4, <1>6

(* section-lengths names the sections in their order, each once. *)
LEMMA TableOf ==
  ASSUME Finalized
  PROVE  LET t == SectionLengths(TheSections)
         IN  /\ IsList(t) /\ Len(t) = Number /\ DOMAIN t = 1..Number
             /\ \A i \in 1..Number : /\ t[i].name = TheSections[i].name
                                     /\ t[i].length = Len(TheSections[i].cells)
             /\ \A i, j \in 1..Number : t[i].name = t[j].name => i = j
             /\ t[1].name = "index" /\ t[Number].name = "responses"
<1> DEFINE ss == TheSections
           t == SectionLengths(ss)
<1>1. /\ AreSections(ss, SectionNames(bundle), bundle, index, responses)
      /\ Len(ss) \in Nat /\ Len(ss) >= 2 /\ ss[Len(ss)].name = "responses" /\ IsList(ss)
  BY FinalizedSections
<1> HIDE DEF ss
<1>2. DOMAIN ss = 1..Len(ss)
  BY <1>1, ListLength
<1>3. /\ DOMAIN t = 1..Len(ss) /\ t = [i \in 1..Len(ss) |-> t[i]]
      /\ \A i \in 1..Len(ss) : t[i].name = ss[i].name /\ t[i].length = Len(ss[i].cells)
  BY <1>2 DEF SectionLengths
<1> HIDE DEF t
<1>4. IsList(t) /\ Len(t) = Len(ss)
  BY <1>1, <1>3, FunctionIsList
<1>5. /\ ss[1].name = "index"
      /\ \A i, j \in 1..Len(ss) : ss[i].name = ss[j].name => i = j
  BY <1>1 DEF AreSections
<1>6. 1 \in 1..Len(ss) /\ Len(ss) \in 1..Len(ss)
  BY <1>1
<1>7. QED
  BY <1>1, <1>3, <1>4, <1>5, <1>6 DEF t, ss, Number

(* FindSection finds the section that has been written under the name. *)
LEMMA SectionFound ==
  ASSUME Finalized, table = SectionLengths(TheSections), NEW k \in 1..Number, NEW name,
         name = TheSections[k].name
  PROVE  /\ R!OffsetOf(name) \in Nat
         /\ TablePlace(bundle) + 2 + R!OffsetOf(name) = Start(k)
         /\ R!LengthOf(name) = Len(TheSections[k].cells)
<1> DEFINE ss == TheSections
           t == SubSeq(table, 1, k - 1)
           first == Start(1)
           at == [i \in 1..k |-> Start(i) - first]
<1>1. /\ IsList(table) /\ Len(table) = Number /\ DOMAIN table = 1..Number
      /\ \A i \in 1..Number : table[i].name = ss[i].name /\ table[i].length = Len(ss[i].cells)
      /\ \A i, j \in 1..Number : table[i].name = table[j].name => i = j
  BY TableOf
<1>2. (CHOOSE i \in DOMAIN table : table[i].name = name) = k
  <2>1. \A i \in DOMAIN table : table[i].name = name <=> i = k
    BY <1>1
  <2>2. k \in DOMAIN table
    BY <1>1
  <2>3. QED
    BY <2>1, <2>2
<1>3. R!LengthOf(name) = Len(ss[k].cells)
  BY <1>1, <1>2 DEF R!LengthOf
<1>4. R!OffsetOf(name) = FoldLeft(LAMBDA sum, so : sum + so.length, 0, t)
  <2>1. R!OffsetOf(name) = R!LengthBefore(k)
    BY <1>2 DEF R!OffsetOf
  <2>2. R!LengthBefore(k) = FoldLeft(LAMBDA sum, so : sum + so.length, 0, t)
    BY DEF R!LengthBefore, R!FoldLeft, FoldLeft, R!MapThenFoldSet, MapThenFoldSet, R!Max, Max
  <2>3. QED
    BY <2>1, <2>2
<1>5. /\ Number \in Nat
      /\ \A i \in 1..(Number + 1) : Start(i) \in Nat
      /\ \A i \in 1..Number : /\ Len(ss[i].cells) \in Nat
                              /\ Start(i + 1) = Start(i) + Len(ss[i].cells)
      /\ first = TablePlace(bundle) + 2 /\ TablePlace(bundle) \in {1, 2}
  BY Places
<1>5a. first <= Start(k)
  <2>1. 1 \in 1..Number /\ k \in 1..(Number + 1)
    BY <1>5
  <2>2. QED
    BY <2>1, Places
<1>6. IsList(t) /\ Len(t) = k - 1 /\ \A i \in 1..(k - 1) : t[i] = table[i]
  <2> DEFINE m == k - 1
  <2>1. IsList(table) /\ m \in 0..Len(table)
    BY <1>1, <1>5
  <2>2. t = SubSeq(table, 1, m)
    OBVIOUS
  <2> HIDE DEF m, t
  <2>3. IsList(t) /\ Len(t) = m /\ \A i \in 1..m : t[i] = table[i]
    BY <2>1, <2>2, CutList
  <2>4. QED
    BY <2>3 DEF m
<1> HIDE DEF ss, t, first
<1>7. \A i \in 1..(k - 1) : i \in 1..Number /\ i \in 1..k /\ i + 1 \in 1..k /\ i \in 1..(Number + 1)
  BY <1>5
<1>8. \A i \in 1..Len(t) : t[i].length \in Nat /\ t[i].length = Len(ss[i].cells)
  <2> SUFFICES ASSUME NEW i \in 1..(k - 1)
               PROVE  t[i].length \in Nat /\ t[i].length = Len(ss[i].cells)
    BY <1>6
  <2>1. i \in 1..Number /\ t[i] = table[i]
    BY <1>6, <1>7
  <2>2. table[i].length = Len(ss[i].cells) /\ Len(ss[i].cells) \in Nat
    BY <1>1, <1>5, <2>1 DEF ss
  <2>3. QED
    BY <2>1, <2>2
<1>9. at[1] = 0
  <2>1. 1 \in 1..k /\ 1 \in 1..(Number + 1)
    BY <1>5
  <2>2. first \in Nat
    BY <1>5, <2>1 DEF first
  <2>3. QED
    BY <2>1, <2>2 DEF first
<1>10. \A i \in 1..Len(t) : at[i + 1] = at[i] + t[i].length
  <2> SUFFICES ASSUME NEW i \in 1..(k - 1) PROVE at[i + 1] = at[i] + t[i].length
    BY <1>6
  <2>1. at[i + 1] = Start(i + 1) - first /\ at[i] = Start(i) - first
    BY <1>7
  <2>2. Start(i + 1) = Start(i) + t[i].length /\ t[i].length \in Nat
    <3>1. t[i].length \in Nat /\ t[i].length = Len(ss[i].cells)
      BY <1>6, <1>8
    <3>2. i \in 1..Number
      BY <1>7
    <3>3. Start(i + 1) = Start(i) + Len(ss[i].cells)
      BY <1>5, <3>2 DEF ss
    <3>4. QED
      BY <3>1, <3>3
  <2>3. Start(i) \in Nat /\ first \in Nat
    BY <1>5, <1>7
  <2> HIDE DEF at
  <2>4. QED
    BY <2>1, <2>2, <2>3
<1>11. at[Len(t) + 1] = Start(k) - first
  BY <1>5, <1>6
<1> HIDE DEF at
<1>12. FoldLeft(LAMBDA sum, so : sum + so.length, 0, t) = at[Len(t) + 1]
  BY <1>6, <1>8, <1>9, <1>10, SumOfLengths
<1>13. R!OffsetOf(name) = Start(k) - first
  BY <1>4, <1>11, <1>12
<1>14. Start(k) \in Nat
  BY <1>5
<1>15. R!OffsetOf(name) \in Nat /\ TablePlace(bundle) + 2 + R!OffsetOf(name) = Start(k)
  <2>1. first \in Nat /\ first <= Start(k)
    BY <1>5, <1>5a
  <2>2. first = TablePlace(bundle) + 2 /\ TablePlace(bundle) \in Nat
    BY <1>5, <1>5a
  <2>3. QED
    BY <1>13, <1>14, <2>1, <2>2
<1>16. QED
  BY <1>3, <1>15 DEF ss

-----------------------------------------------------------------------------
(* The reader                                                              *)

IsRequest(r, e) ==
  /\ r.url = index[e].url
  /\ r.offset = Start(Number) + index[e].offset
  /\ r.length = index[e].length

(* Everything that the index has for the first m URLs has been asked for. *)
Requested(m) ==
  \A i \in 1..m :
    /\ ~IsBadUrl(UrlList(index)[i])
    /\ \A e \in 1..Len(index) :
         index[e].url = UrlList(index)[i] => \E q \in 1..Len(requests) : IsRequest(requests[q], e)

IsLoaded(x, r, e) ==
  /\ bundle.exchanges[e].header # "odd"
  /\ IF R!IsWhole(r) THEN x = WithoutVariants(bundle.exchanges[e])
                     ELSE IsTruncation(x, bundle.exchanges[e])

UrlCount == Len(UrlList(index))
EntryPlace(m) == Start(1) + 1 + PlacesOf(EntryList(bundle.version, index))[m + 1]

Passed(name) == \E i \in 1..(current - 1) : TheSections[i].name = name

TableInv ==
  /\ table = SectionLengths(TheSections) /\ start = TablePlace(bundle) + 2
  /\ current \in 1..(Number + 1)
  /\ offset \in Nat /\ pos \in Nat /\ left \in Nat

(* url.Parse takes the URL in the header, if there is one. *)
UrlParses(b) == HasPrimaryURLFieldInHeader(b.version) => b.primaryURL # Unparsable

MetaInv ==
  /\ UrlParses(bundle)
  /\ meta = [version |-> bundle.version,
             primaryURL |-> IF HasPrimaryURLFieldInHeader(bundle.version) \/ Passed("primary")
                            THEN bundle.primaryURL ELSE NoUrl,
             manifestURL |-> IF Passed("manifest") THEN bundle.manifestURL ELSE NoUrl,
             signed |-> IF Passed("signatures") THEN TRUE ELSE FALSE]
  /\ Passed("manifest") => IsSectionUrl(bundle.manifestURL)
  /\ Passed("primary") => IsSectionUrl(bundle.primaryURL)

RequestsInv ==
  /\ IsList(requests)
  /\ \A q \in 1..Len(requests) : \E e \in 1..Len(index) : IsRequest(requests[q], e)

InIndex ==
  /\ current = 1 /\ offset = Start(1) /\ Start(2) < Len(stream)
  /\ left <= UrlCount /\ pos = EntryPlace(UrlCount - left) /\ Requested(UrlCount - left)

ProgressInv ==
  /\ rpc = "sections" /\ current <= Number => offset = Start(current)
  /\ rpc = "index" => InIndex
  /\ current > 1 => Requested(UrlCount)
  /\ rpc \in {"sections", "index"} => exchanges = <<>>
  /\ rpc \in {"load", "ok"} => current = Number + 1

LoadInv ==
  /\ IsList(exchanges) /\ Len(exchanges) <= Len(requests)
  /\ \A q \in 1..Len(exchanges) : \A e \in 1..Len(index) :
       IsRequest(requests[q], e) => IsLoaded(exchanges[q], requests[q], e)

OutcomeInv ==
  /\ rpc = "ok" => Len(exchanges) = Len(requests)
  /\ rpc = "error" /\ wpc = "done" => ~IsReadable(bundle)
  /\ rpc = "panic" => wpc # "done"

Reading ==
  /\ rpc \in {"sections", "index", "load", "ok", "error", "panic"}
  /\ TableInv /\ MetaInv /\ RequestsInv /\ ProgressInv /\ LoadInv /\ OutcomeInv

Fresh ==
  /\ table = <<>> /\ requests = <<>> /\ exchanges = <<>>
  /\ start = 0 /\ current = 1 /\ offset = 0 /\ pos = 0 /\ left = 0

ReaderInv ==
  \/ rpc = "header" /\ Fresh
  \/ rpc = "error" /\ Fresh /\ WriterIsOver /\ (wpc = "done" => ~UrlParses(bundle))
  \/ WriterIsOver /\ Reading

Inv == WriterInv /\ ReaderInv

(* What a step of the reader does not touch. *)
LEMMA Kept ==
  ASSUME UNCHANGED writerVars
  PROVE  /\ UNCHANGED <<bundle, responses, index, stream, wpc>>
         /\ TheSections' = TheSections /\ Number' = Number /\ TablePlace(bundle)' = TablePlace(bundle)
         /\ Whole' = Whole /\ UrlCount' = UrlCount
         /\ \A i : Start(i)' = Start(i)
         /\ \A m : EntryPlace(m)' = EntryPlace(m)
         /\ \A r, e : IsRequest(r, e)' <=> IsRequest(r, e)
         /\ \A x, r, e : IsLoaded(x, r, e)' <=> IsLoaded(x, r, e)
         /\ (Offered => Offered')
<1>1. UNCHANGED <<bundle, responses, index, stream, wpc>>
  BY DEF writerVars
<1>2. TheSections' = TheSections
  BY <1>1 DEF TheSections
<1>3. Number' = Number /\ Whole' = Whole /\ UrlCount' = UrlCount /\ TablePlace(bundle)' = TablePlace(bundle)
  BY <1>1, <1>2 DEF Number, Whole, UrlCount
<1>4. \A i : Start(i)' = Start(i)
  BY <1>1, <1>2 DEF Start
<1>5. \A m : EntryPlace(m)' = EntryPlace(m)
  BY <1>1, <1>4 DEF EntryPlace
<1>6. \A r, e : IsRequest(r, e)' <=> IsRequest(r, e)
  BY <1>1, <1>3, <1>4 DEF IsRequest
<1>7. \A x, r, e : IsLoaded(x, r, e)' <=> IsLoaded(x, r, e)
  BY <1>1 DEF IsLoaded, R!IsWhole
<1>8. Offered => Offered'
  BY <1>1, <1>3 DEF Offered, Finalized, IndexInv
<1>9. QED
  BY <1>1, <1>2, <1>3, <1>4, <1>5, <1>6, <1>7, <1>8

(* Requests stay what they are while there are no new ones, *)
LEMMA RequestedKept ==
  ASSUME UNCHANGED writerVars, UNCHANGED requests
  PROVE  /\ \A m : Requested(m)' <=> Requested(m)
         /\ RequestsInv' <=> RequestsInv
BY Kept DEF Requested, RequestsInv

(* and so do exchanges. *)
LEMMA LoadKept ==
  ASSUME UNCHANGED writerVars, UNCHANGED <<requests, exchanges>>
  PROVE  LoadInv' <=> LoadInv
BY Kept DEF LoadInv

(* The header is read as it was written, and if everything is there and its*)
(* URL can be parsed, it is read at all.                                   *)
LEMMA HeaderFound ==
  ASSUME Offered
  PROVE  /\ R!HeaderIsRead => /\ R!Value(0) = bundle.version
                              /\ R!TableAt = TablePlace(bundle)
                              /\ R!Value(R!TableAt) = SectionLengths(TheSections)
                              /\ HasPrimaryURLFieldInHeader(bundle.version) =>
                                   R!Value(1) = bundle.primaryURL
                              /\ UrlParses(bundle)
         /\ wpc = "done" /\ UrlParses(bundle) => R!HeaderIsRead
<1> DEFINE n == TablePlace(bundle)
           t == SectionLengths(TheSections)
           isB1 == HasPrimaryURLFieldInHeader(bundle.version)
<1>1. /\ Len(stream) \in Nat
      /\ Len(stream) >= 1 => stream[1] = Cell("magic", bundle.version)
      /\ isB1 /\ Len(stream) >= 2 => stream[2] = Cell("text", bundle.primaryURL)
      /\ Len(stream) >= n + 1 => stream[n + 1] = Cell("lengths", t)
      /\ Len(stream) >= n + 2 => stream[n + 2] = Cell("array", Number)
  BY CellsOfHeader DEF Offered
<1>2. n = (IF isB1 THEN 2 ELSE 1)
  BY DEF TablePlace
<1>3. \A v : R!HasPrimaryURLFieldInHeader(v) <=> HasPrimaryURLFieldInHeader(v)
  BY DEF R!HasPrimaryURLFieldInHeader, HasPrimaryURLFieldInHeader
<1>4. \A k, v : Cell(k, v).k = k /\ Cell(k, v).v = v
  BY DEF Cell
<1>5. Len(t) = Number /\ Number \in Nat /\ Number >= 2 /\ R!AcceptsTable(t)
  <2>0. \A i \in 1..Number : t[i].name # R!LongName
    <3>1. /\ \A i \in 1..Number : t[i].name = TheSections[i].name
          /\ \A i \in 1..Number : IsSection(TheSections[i], bundle, index, responses)
      BY TableOf, FinalizedSections DEF Offered, AreSections, Number
    <3> HIDE DEF t
    <3>2. QED
      BY <3>1 DEF IsSection, R!LongName
  <2>1. /\ IsList(t) /\ Len(t) = Number /\ DOMAIN t = 1..Number
        /\ \A i, j \in 1..Number : t[i].name = t[j].name => i = j
        /\ t[Number].name = "responses"
    BY TableOf DEF Offered
  <2>2. Number \in Nat /\ Number >= 2
    BY Places DEF Offered
  <2> HIDE DEF t
  <2>3. t # <<>>
    BY <2>1, <2>2, ShortLists
  <2>4. R!Last(t) = t[Number]
    BY <2>1 DEF R!Last
  <2>5. QED
    BY <2>0, <2>1, <2>2, <2>3, <2>4 DEF R!AcceptsTable
<1> HIDE DEF n, t
<1>6. ASSUME Len(stream) >= 1
      PROVE  /\ R!Value(0) = bundle.version /\ R!TableAt = n
             /\ stream[0 + 1].k = "magic"
  <2>1. stream[0 + 1] = Cell("magic", bundle.version)
    BY <1>1, <1>6
  <2>2. R!Value(0) = bundle.version
    BY <1>4, <2>1 DEF R!Value
  <2>3. R!TableAt = n
    BY <1>2, <1>3, <2>2 DEF R!TableAt
  <2>4. QED
    BY <1>4, <2>1, <2>2, <2>3
<1>7. ASSUME isB1, Len(stream) >= 2 PROVE R!Value(1) = bundle.primaryURL /\ stream[1 + 1].k = "text"
  <2>1. stream[1 + 1] = Cell("text", bundle.primaryURL)
    BY <1>1, <1>7
  <2>2. QED
    BY <1>4, <2>1 DEF R!Value
<1>8. ASSUME R!HeaderIsRead
      PROVE  /\ R!Value(0) = bundle.version /\ R!TableAt = n /\ R!Value(n) = t
             /\ isB1 => R!Value(1) = bundle.primaryURL
             /\ UrlParses(bundle)
  <2>1. Len(stream) >= 1
    BY <1>1, <1>8 DEF R!HeaderIsRead, R!At
  <2>2. R!Value(0) = bundle.version /\ R!TableAt = n
    BY <1>6, <2>1
  <2>3. n < Len(stream) /\ (isB1 => 1 < Len(stream))
    BY <1>3, <1>8, <2>2 DEF R!HeaderIsRead, R!At
  <2>4. R!Value(n) = t
    <3>1. Len(stream) >= n + 1
      BY <1>1, <1>2, <2>3
    <3>2. QED
      BY <1>1, <1>4, <3>1 DEF R!Value
  <2>5. isB1 => R!Value(1) = bundle.primaryURL
    BY <1>1, <1>7, <2>3
  <2>6. UrlParses(bundle)
    <3>1. isB1 => R!Value(1) # R!Unparsable
      BY <1>3, <1>8, <2>2 DEF R!HeaderIsRead
    <3>2. QED
      BY <2>5, <3>1 DEF UrlParses, R!Unparsable, Unparsable
  <2>7. QED
    BY <2>2, <2>4, <2>5, <2>6
<1>9. ASSUME wpc = "done", UrlParses(bundle) PROVE R!HeaderIsRead
  <2>1. Len(stream) >= n + 3
    <3>1. Len(stream) = Len(Whole)
      BY <1>9 DEF Offered
    <3>2. Len(Whole) = Start(Number + 1) + 1 /\ Start(1) = n + 2 /\ Start(1) <= Start(Number + 1)
          /\ Start(Number + 1) \in Nat
      <4>1. 1 \in 1..Number /\ Number + 1 \in 1..(Number + 1)
        BY <1>5
      <4>2. QED
        BY <4>1, Places DEF Offered, n
    <3>3. QED
      BY <1>2, <3>1, <3>2
  <2>2. Len(stream) >= 1 /\ Len(stream) >= n + 1 /\ Len(stream) >= n + 2 /\ (isB1 => Len(stream) >= 2)
        /\ 0 < Len(stream) /\ n < Len(stream) /\ n + 1 < Len(stream) /\ (isB1 => 1 < Len(stream))
    BY <1>1, <1>2, <2>1
  <2>3. R!At(0, "magic", Len(stream)) /\ R!Value(0) = bundle.version /\ R!TableAt = n
    BY <1>6, <2>2 DEF R!At
  <2>4. isB1 => R!At(1, "text", Len(stream)) /\ R!Value(1) # R!Unparsable
    <3>1. isB1 => bundle.primaryURL # Unparsable
      BY <1>9 DEF UrlParses
    <3>2. QED
      BY <1>7, <2>2, <3>1 DEF R!At, R!Unparsable, Unparsable
  <2>5. R!At(n, "lengths", Len(stream)) /\ R!Value(n) = t
    BY <1>1, <1>4, <2>2 DEF R!At, R!Value
  <2>6. R!At(n + 1, "array", Len(stream)) /\ R!Value(n + 1) = Number
    <3>1. (n + 1) + 1 = n + 2
      BY <1>2
    <3>2. stream[(n + 1) + 1] = Cell("array", Number)
      BY <1>1, <2>2, <3>1
    <3>3. QED
      BY <1>4, <2>2, <3>2 DEF R!At, R!Value
  <2>7. QED
    BY <1>3, <1>5, <2>3, <2>4, <2>5, <2>6 DEF R!HeaderIsRead
<1>10. QED
  BY <1>8, <1>9 DEF n, t

(* ReadHeader finds the version, the primary URL and the table of the      *)
(* bundle, or the stream is cut off.                                       *)
LEMMA ReadHeaderKeeps ==
  ASSUME Offered, WriterIsOver, rpc = "header", Fresh, R!ReadHeader, UNCHANGED writerVars
  PROVE  ReaderInv'
<1>1. UNCHANGED <<current, pos, left, requests, exchanges>>
  BY DEF R!ReadHeader
<1>2. /\ wpc' = wpc /\ (WriterIsOver)' /\ TheSections' = TheSections /\ Number' = Number
      /\ bundle' = bundle /\ index' = index
      /\ \A i : Start(i)' = Start(i)
  BY Kept DEF WriterIsOver
<1>3. CASE ~R!HeaderIsRead
  <2>1. rpc' = "error" /\ UNCHANGED <<table, start, offset>>
    BY <1>3 DEF R!ReadHeader, R!Fail
  <2>2. wpc = "done" => ~UrlParses(bundle)
    BY <1>3, HeaderFound
  <2>3. QED
    BY <1>1, <1>2, <2>1, <2>2 DEF ReaderInv, Fresh
<1>4. CASE R!HeaderIsRead
  <2> DEFINE n == TablePlace(bundle)
             isB1 == HasPrimaryURLFieldInHeader(bundle.version)
  <2>1. /\ R!Value(0) = bundle.version /\ R!TableAt = n
        /\ R!Value(R!TableAt) = SectionLengths(TheSections)
        /\ isB1 => R!Value(1) = bundle.primaryURL
        /\ UrlParses(bundle)
    BY <1>4, HeaderFound
  <2>2. /\ rpc' = "sections" /\ table' = SectionLengths(TheSections)
        /\ start' = n + 2 /\ offset' = n + 2
        /\ meta' = [R!NoMeta EXCEPT !.version = bundle.version,
                      !.primaryURL = IF R!HasPrimaryURLFieldInHeader(bundle.version)
                                     THEN R!Value(1) ELSE R!NoUrl]
    BY <1>4, <2>1 DEF R!ReadHeader
  <2>3. meta' = [version |-> bundle.version,
                 primaryURL |-> IF isB1 THEN bundle.primaryURL ELSE NoUrl,
                 manifestURL |-> NoUrl, signed |-> FALSE]
    BY <2>1, <2>2 DEF R!NoMeta, R!NoUrl, NoUrl, R!HasPrimaryURLFieldInHeader, HasPrimaryURLFieldInHeader
  <2>4. Number \in Nat /\ Number >= 2 /\ n \in {1, 2} /\ Start(1) = n + 2
    BY Places DEF Offered
  <2>5. /\ current' = 1 /\ pos' = 0 /\ left' = 0 /\ requests' = <<>> /\ exchanges' = <<>>
    BY <1>1 DEF Fresh
  <2>6. \A name : ~Passed(name)'
    <3>1. \A i : i \notin 1..(1 - 1)
      OBVIOUS
    <3>2. QED
      BY <2>5, <3>1 DEF Passed
  <2>7. TableInv'
    BY <1>2, <2>2, <2>4, <2>5 DEF TableInv
  <2>8. MetaInv'
    BY <1>2, <2>1, <2>3, <2>6 DEF MetaInv
  <2>9. \A i : i \notin 1..0
    OBVIOUS
  <2>10. IsList(<<>>) /\ Len(<<>>) = 0
    BY ShortLists
  <2>11. RequestsInv'
    BY <2>5, <2>9, <2>10 DEF RequestsInv
  <2>12. LoadInv'
    BY <2>5, <2>9, <2>10 DEF LoadInv
  <2>13. ProgressInv'
    BY <1>2, <2>2, <2>4, <2>5 DEF ProgressInv
  <2>14. OutcomeInv'
    BY <2>2 DEF OutcomeInv
  <2>15. Reading'
    BY <2>2, <2>7, <2>8, <2>11, <2>12, <2>13, <2>14 DEF Reading
  <2>16. QED
    BY <1>2, <2>15 DEF ReaderInv
<1>5. QED
  BY <1>3, <1>4

(* One more section has been passed, *)
LEMMA PassedNext ==
  ASSUME UNCHANGED writerVars, current \in 1..Number, current' = current + 1
  PROVE  \A name : Passed(name)' <=> (Passed(name) \/ TheSections[current].name = name)
<1>1. TheSections' = TheSections
  BY Kept
<1>2. \A i : i \in 1..((current + 1) - 1) <=> (i \in 1..(current - 1) \/ i = current)
  OBVIOUS
<1>3. QED
  BY <1>1, <1>2 DEF Passed

(* or none. *)
LEMMA PassedKept ==
  ASSUME UNCHANGED writerVars, UNCHANGED current
  PROVE  /\ \A name : Passed(name)' <=> Passed(name)
         /\ UNCHANGED meta => (MetaInv' <=> MetaInv)
<1>1. TheSections' = TheSections /\ bundle' = bundle
  BY Kept
<1>2. \A name : Passed(name)' <=> Passed(name)
  BY <1>1 DEF Passed
<1>3. QED
  BY <1>1, <1>2 DEF MetaInv

(* The section that is to be read next, where it is, and that it is there  *)
(* if everything is.                                                       *)
LEMMA SectionIsNext ==
  ASSUME Offered, Reading, R!More
  PROVE  /\ current \in 1..Number /\ Number \in Nat /\ R!Name = TheSections[current].name
         /\ offset = Start(current) /\ R!End = Start(current + 1)
         /\ Start(current) \in Nat /\ Start(current + 1) \in Nat
         /\ Start(current + 1) = Start(current) + Len(TheSections[current].cells)
         /\ wpc = "done" => R!InRange
         /\ R!InRange => Start(current + 1) < Len(stream)
         /\ Len(stream) \in Nat
         /\ R!Name = "index" <=> current = 1
         /\ R!Name = "responses" <=> current = Number
         /\ IsSection(TheSections[current], bundle, index, responses)
         /\ rpc = "sections" /\ exchanges = <<>>
         /\ current > 1 => Requested(UrlCount)
<1>1. Finalized /\ Begins(stream, Whole) /\ (wpc = "done" => Len(stream) = Len(Whole))
  BY DEF Offered
<1>2. /\ Number \in Nat /\ Number >= 2
      /\ \A i \in 1..(Number + 1) : Start(i) \in Nat
      /\ \A i \in 1..Number :
              /\ Len(TheSections[i].cells) \in Nat
              /\ Start(i + 1) = Start(i) + Len(TheSections[i].cells)
      /\ \A i \in 1..Number : \A j \in i..(Number + 1) : Start(i) <= Start(j)
      /\ Len(Whole) = Start(Number + 1) + 1
  BY <1>1, Places
<1>3. /\ Len(table) = Number
      /\ \A i \in 1..Number : /\ table[i].name = TheSections[i].name
                              /\ table[i].length = Len(TheSections[i].cells)
      /\ \A i, j \in 1..Number : table[i].name = table[j].name => i = j
      /\ table[1].name = "index" /\ table[Number].name = "responses"
  BY <1>1, TableOf DEF Reading, TableInv
<1>4. rpc = "sections" /\ current \in 1..Number /\ offset = Start(current) /\ exchanges = <<>>
  BY <1>2, <1>3 DEF R!More, Reading, TableInv, ProgressInv
<1>5. R!Name = TheSections[current].name /\ R!End = Start(current + 1)
  BY <1>2, <1>3, <1>4 DEF R!Name, R!End
<1>6. Len(stream) \in Nat
  BY <1>1, ListLength DEF Begins
<1>7. /\ current \in 1..(Number + 1) /\ current + 1 \in 1..(Number + 1)
      /\ Number + 1 \in (current + 1)..(Number + 1) /\ Number + 1 \in current..(Number + 1)
      /\ 1 \in 1..Number /\ Number \in 1..Number /\ Number + 1 \in 1..(Number + 1)
  BY <1>2, <1>4
<1>8. Start(current) \in Nat /\ Start(current + 1) \in Nat /\ Start(Number + 1) \in Nat
  BY <1>2, <1>7
<1>9. wpc = "done" => R!InRange
  <2>1. Start(current) <= Start(Number + 1) /\ Start(current + 1) <= Start(Number + 1)
    <3>1. Start(current) <= Start(Number + 1)
      BY <1>2, <1>4, <1>7
    <3>2. CASE current = Number
      BY <1>8, <3>1, <3>2
    <3>3. CASE current # Number
      <4>1. current + 1 \in 1..Number
        BY <1>2, <1>4, <3>3
      <4>2. QED
        BY <1>2, <1>7, <3>1, <4>1
    <3>4. QED
      BY <3>2, <3>3
  <2>2. QED
    BY <1>1, <1>2, <1>4, <1>5, <1>8, <2>1 DEF R!InRange
<1>10. R!InRange => Start(current + 1) < Len(stream)
  BY <1>5 DEF R!InRange
<1>11. IsSection(TheSections[current], bundle, index, responses)
  BY <1>1, <1>4, FinalizedSections DEF AreSections, Number
<1>12. (R!Name = "index" <=> current = 1) /\ (R!Name = "responses" <=> current = Number)
  BY <1>3, <1>4, <1>5, <1>7
<1>13. current > 1 => Requested(UrlCount)
  BY DEF Reading, ProgressInv
<1>14. Start(current + 1) = Start(current) + Len(TheSections[current].cells)
  BY <1>2, <1>4
<1>15. QED
  BY <1>2, <1>4, <1>5, <1>6, <1>8, <1>9, <1>10, <1>11, <1>12, <1>13, <1>14

(* A section other than the index has been read or skipped, and the next   *)
(* one follows.                                                            *)
LEMMA SectionIsRead ==
  ASSUME Offered, WriterIsOver, Reading, R!More, UNCHANGED writerVars,
         UNCHANGED <<table, start, pos, left, requests, exchanges>>,
         current' = current + 1, rpc' = "sections", R!Name # "index",
         offset' \in Nat, current < Number => offset' = Start(current + 1), MetaInv'
  PROVE  ReaderInv'
<1>1. /\ current \in 1..Number /\ Number \in Nat /\ (R!Name = "index" <=> current = 1)
      /\ (current > 1 => Requested(UrlCount)) /\ exchanges = <<>> /\ rpc = "sections"
  BY SectionIsNext
<1>2. /\ TheSections' = TheSections /\ Number' = Number /\ TablePlace(bundle)' = TablePlace(bundle)
      /\ UrlCount' = UrlCount /\ bundle' = bundle /\ wpc' = wpc
      /\ \A i : Start(i)' = Start(i)
  BY Kept
<1>3. (\A m : Requested(m)' <=> Requested(m)) /\ (RequestsInv' <=> RequestsInv)
  BY RequestedKept
<1>4. LoadInv' <=> LoadInv
  BY LoadKept
<1>5. TableInv'
  BY <1>1, <1>2 DEF Reading, TableInv
<1>6. ProgressInv'
  BY <1>1, <1>2, <1>3 DEF ProgressInv
<1>7. OutcomeInv'
  BY DEF OutcomeInv
<1>8. Reading'
  BY <1>3, <1>4, <1>5, <1>6, <1>7 DEF Reading
<1>9. QED
  BY <1>2, <1>8 DEF ReaderInv, WriterIsOver

(* Reading fails, and may do so: the bundle is not one that readers take,  *)
(* or it is cut off.                                                       *)
LEMMA ReadFails ==
  ASSUME WriterIsOver, Reading, UNCHANGED writerVars,
         UNCHANGED <<table, start, current, offset, pos, left, meta, requests, exchanges>>,
         rpc' = "error", wpc = "done" => ~IsReadable(bundle)
  PROVE  ReaderInv'
<1>1. /\ TheSections' = TheSections /\ Number' = Number /\ TablePlace(bundle)' = TablePlace(bundle)
      /\ UrlCount' = UrlCount /\ bundle' = bundle /\ wpc' = wpc
      /\ \A i : Start(i)' = Start(i)
  BY Kept
<1>2. (\A m : Requested(m)' <=> Requested(m)) /\ (RequestsInv' <=> RequestsInv)
  BY RequestedKept
<1>3. LoadInv' <=> LoadInv
  BY LoadKept
<1>4. TableInv' /\ MetaInv'
  BY <1>1, PassedKept DEF Reading, TableInv
<1>5. ProgressInv'
  BY <1>1, <1>2 DEF Reading, ProgressInv
<1>6. OutcomeInv'
  BY <1>1 DEF OutcomeInv, IsReadable
<1>7. Reading'
  BY <1>2, <1>3, <1>4, <1>5, <1>6 DEF Reading
<1>8. QED
  BY <1>1, <1>7 DEF ReaderInv, WriterIsOver

(* The only section that is skipped is that of the responses, the last     *)
(* one.                                                                    *)
LEMMA SkipSectionKeeps ==
  ASSUME Offered, WriterIsOver, Reading, R!SkipSection, UNCHANGED writerVars
  PROVE  ReaderInv'
<1>1. /\ R!More /\ R!Name \notin {"index", "manifest", "primary", "signatures"}
      /\ current' = current + 1
      /\ UNCHANGED <<rpc, table, start, offset, pos, left, meta, requests, exchanges>>
  BY DEF R!SkipSection
<1>2. /\ current \in 1..Number /\ R!Name = TheSections[current].name
      /\ IsSection(TheSections[current], bundle, index, responses)
      /\ (R!Name = "responses" <=> current = Number) /\ rpc = "sections"
  BY <1>1, SectionIsNext
<1>3. R!Name = "responses"
  BY <1>1, <1>2 DEF IsSection
<1>4. \A name : Passed(name)' <=> (Passed(name) \/ R!Name = name)
  BY <1>1, <1>2, PassedNext
<1>5. MetaInv'
  BY <1>1, <1>3, <1>4, Kept DEF Reading, MetaInv
<1>6. offset' \in Nat /\ current = Number
  BY <1>1, <1>2, <1>3 DEF Reading, TableInv
<1>7. rpc' = "sections" /\ R!Name # "index" /\ (current < Number => offset' = Start(current + 1))
  BY <1>1, <1>2, <1>6
<1>8. QED
  BY <1>1, <1>5, <1>6, <1>7, SectionIsRead

(* ReadUrlSection reads the URL that has been written there, or fails for  *)
(* good reason.                                                            *)
LEMMA ReadUrlSectionKeeps ==
  ASSUME Offered, WriterIsOver, Reading, R!ReadUrlSection, UNCHANGED writerVars
  PROVE  ReaderInv'
<1> DEFINE url == IF R!Name = "primary" THEN bundle.primaryURL ELSE bundle.manifestURL
           isUrl == /\ R!InRange /\ R!At(offset, "text", R!End)
                    /\ ~R!IsBadUrl(R!Value(offset)) /\ R!IsAbsolute(R!Value(offset))
<1>1. /\ R!More /\ R!Name \in {"primary", "manifest"}
      /\ IF isUrl
         THEN /\ meta' = IF R!Name = "primary"
                     THEN [meta EXCEPT !.primaryURL = R!Value(offset)]
                     ELSE [meta EXCEPT !.manifestURL = R!Value(offset)]
              /\ offset' = R!End
              /\ current' = current + 1
              /\ UNCHANGED rpc
         ELSE rpc' = "error" /\ UNCHANGED <<meta, offset, current>>
      /\ UNCHANGED <<table, start, pos, left, requests, exchanges>>
  BY DEF R!ReadUrlSection, R!Fail
<1> HIDE DEF isUrl
<1>2. /\ current \in 1..Number /\ R!Name = TheSections[current].name
      /\ offset = Start(current) /\ R!End = Start(current + 1)
      /\ Start(current) \in Nat /\ Start(current + 1) \in Nat
      /\ Start(current + 1) = Start(current) + Len(TheSections[current].cells)
      /\ wpc = "done" => R!InRange
      /\ R!InRange => Start(current + 1) < Len(stream)
      /\ Len(stream) \in Nat
      /\ IsSection(TheSections[current], bundle, index, responses)
      /\ rpc = "sections"
  BY <1>1, SectionIsNext
<1>3. /\ TheSections[current].cells = <<Cell("text", url)>>
      /\ R!Name = "primary" => UrlIsSection(bundle)
  BY <1>1, <1>2 DEF IsSection
<1>4. Len(TheSections[current].cells) = 1 /\ TheSections[current].cells[1] = Cell("text", url)
  BY <1>3
<1>5. ASSUME R!InRange PROVE R!Value(offset) = url /\ R!At(offset, "text", R!End)
  <2>1. Start(current) + 1 <= Len(stream) /\ 1 \in 1..Len(TheSections[current].cells)
    BY <1>2, <1>4, <1>5
  <2>2. stream[Start(current) + 1] = Cell("text", url)
    BY <1>2, <1>4, <2>1, CellOfSection DEF Offered
  <2>3. Cell("text", url).k = "text" /\ Cell("text", url).v = url
    BY DEF Cell
  <2>4. offset < R!End
    BY <1>2, <1>4
  <2>5. QED
    BY <1>2, <2>2, <2>3, <2>4 DEF R!Value, R!At
<1>6. \A u : (R!IsBadUrl(u) <=> IsBadUrl(u)) /\ (R!IsAbsolute(u) <=> IsAbsolute(u))
  BY DEF R!IsBadUrl, IsBadUrl, R!Unparsable, Unparsable, R!IsAbsolute, IsAbsolute
<1>7. CASE isUrl
  <2>1. R!Value(offset) = url /\ IsSectionUrl(url)
    BY <1>5, <1>6, <1>7 DEF isUrl, IsSectionUrl
  <2>2. meta' = IF R!Name = "primary" THEN [meta EXCEPT !.primaryURL = bundle.primaryURL]
                                      ELSE [meta EXCEPT !.manifestURL = bundle.manifestURL]
    BY <1>1, <1>7, <2>1
  <2>3. \A name : Passed(name)' <=> (Passed(name) \/ R!Name = name)
    BY <1>1, <1>2, <1>7, PassedNext
  <2>4. MetaInv'
    <3>1. bundle' = bundle
      BY Kept
    <3>2. MetaInv
      BY DEF Reading
    <3>3. CASE R!Name = "primary"
      <4>1. Passed("primary")' /\ (Passed("manifest")' <=> Passed("manifest"))
            /\ (Passed("signatures")' <=> Passed("signatures"))
        BY <2>3, <3>3
      <4>2. IsSectionUrl(bundle.primaryURL)
        BY <2>1, <3>3
      <4>3. QED
        BY <2>2, <3>1, <3>2, <3>3, <4>1, <4>2 DEF MetaInv
    <3>4. CASE R!Name = "manifest"
      <4>1. Passed("manifest")' /\ (Passed("primary")' <=> Passed("primary"))
            /\ (Passed("signatures")' <=> Passed("signatures"))
        BY <2>3, <3>4
      <4>2. IsSectionUrl(bundle.manifestURL)
        BY <2>1, <3>4
      <4>3. QED
        BY <2>2, <3>1, <3>2, <3>4, <4>1, <4>2 DEF MetaInv
    <3>5. QED
      BY <1>1, <3>3, <3>4
  <2>5. rpc' = "sections" /\ R!Name # "index" /\ offset' \in Nat /\ current' = current + 1
        /\ (current < Number => offset' = Start(current + 1))
    BY <1>1, <1>2, <1>7
  <2>6. QED
    BY <1>1, <2>4, <2>5, SectionIsRead
<1>8. CASE ~isUrl
  <2>1. wpc = "done" => ~IsReadable(bundle)
    <3> SUFFICES ASSUME wpc = "done" PROVE ~IsReadable(bundle)
      OBVIOUS
    <3>1. ~IsSectionUrl(url)
      BY <1>2, <1>5, <1>6, <1>8 DEF isUrl, IsSectionUrl
    <3>2. QED
      BY <1>1, <1>3, <3>1 DEF IsReadable, UrlIsSection
  <2>2. QED
    BY <1>1, <1>8, <2>1, ReadFails
<1>9. QED
  BY <1>7, <1>8

(* ReadSignatures reads what has been written there, or the stream is cut  *)
(* off.                                                                    *)
LEMMA ReadSignaturesKeeps ==
  ASSUME Offered, WriterIsOver, Reading, R!ReadSignatures, UNCHANGED writerVars
  PROVE  ReaderInv'
<1> DEFINE isThere == /\ R!InRange /\ R!At(offset, "array", R!End) /\ R!Value(offset) = 2
                      /\ R!At(offset + 1, "sigs", R!End)
<1>1. /\ R!More /\ R!Name = "signatures"
      /\ IF isThere
         THEN /\ meta' = [meta EXCEPT !.signed = TRUE]
              /\ offset' = R!End
              /\ current' = current + 1
              /\ UNCHANGED rpc
         ELSE rpc' = "error" /\ UNCHANGED <<meta, offset, current>>
      /\ UNCHANGED <<table, start, pos, left, requests, exchanges>>
  BY DEF R!ReadSignatures, R!Fail
<1> HIDE DEF isThere
<1>2. /\ current \in 1..Number /\ R!Name = TheSections[current].name
      /\ offset = Start(current) /\ R!End = Start(current + 1)
      /\ Start(current) \in Nat /\ Start(current + 1) \in Nat
      /\ Start(current + 1) = Start(current) + Len(TheSections[current].cells)
      /\ wpc = "done" => R!InRange
      /\ R!InRange => Start(current + 1) < Len(stream)
      /\ Len(stream) \in Nat
      /\ IsSection(TheSections[current], bundle, index, responses)
      /\ rpc = "sections"
  BY <1>1, SectionIsNext
<1>3. /\ TheSections[current].cells = <<Cell("array", 2), Cell("sigs", bundle.version)>>
  BY <1>1, <1>2 DEF IsSection
<1>4. /\ Len(TheSections[current].cells) = 2
      /\ TheSections[current].cells[1] = Cell("array", 2)
      /\ TheSections[current].cells[2] = Cell("sigs", bundle.version)
  BY <1>3
<1>5. ASSUME R!InRange PROVE isThere
  <2>1. /\ Start(current) + 1 <= Len(stream) /\ Start(current) + 2 <= Len(stream)
        /\ 1 \in 1..Len(TheSections[current].cells) /\ 2 \in 1..Len(TheSections[current].cells)
    BY <1>2, <1>4, <1>5
  <2>2. stream[Start(current) + 1] = Cell("array", 2)
    BY <1>2, <1>4, <2>1, CellOfSection DEF Offered
  <2>3. stream[Start(current) + 2] = Cell("sigs", bundle.version)
    BY <1>2, <1>4, <2>1, CellOfSection DEF Offered
  <2>4. \A k, v : Cell(k, v).k = k /\ Cell(k, v).v = v
    BY DEF Cell
  <2>5. offset < R!End /\ offset + 1 < R!End /\ (offset + 1) + 1 = Start(current) + 2
    BY <1>2, <1>4
  <2>6. R!At(offset, "array", R!End) /\ R!Value(offset) = 2
    BY <1>2, <2>2, <2>4, <2>5 DEF R!Value, R!At
  <2>7. R!At(offset + 1, "sigs", R!End)
    BY <2>3, <2>4, <2>5 DEF R!At
  <2>8. QED
    BY <1>5, <2>6, <2>7 DEF isThere
<1>7. CASE isThere
  <2>1. meta' = [meta EXCEPT !.signed = TRUE]
    BY <1>1, <1>7
  <2>2. \A name : Passed(name)' <=> (Passed(name) \/ R!Name = name)
    BY <1>1, <1>2, <1>7, PassedNext
  <2>3. Passed("signatures")' /\ (Passed("primary")' <=> Passed("primary"))
        /\ (Passed("manifest")' <=> Passed("manifest"))
    BY <1>1, <2>2
  <2>4. bundle' = bundle
    BY Kept
  <2>5. MetaInv'
    BY <2>1, <2>3, <2>4 DEF Reading, MetaInv
  <2>6. rpc' = "sections" /\ R!Name # "index" /\ offset' \in Nat /\ current' = current + 1
        /\ (current < Number => offset' = Start(current + 1))
    BY <1>1, <1>2, <1>7
  <2>7. QED
    BY <1>1, <2>5, <2>6, SectionIsRead
<1>8. CASE ~isThere
  <2>1. wpc # "done"
    BY <1>2, <1>5, <1>8
  <2>2. QED
    BY <1>1, <1>8, <2>1, ReadFails
<1>9. QED
  BY <1>7, <1>8

TheEntry(i) == EntryList(bundle.version, index)[i]

(* The index section, in the stream. *)
LEMMA IndexIsThere ==
  ASSUME Offered
  PROVE  /\ UrlCount \in Nat /\ Start(1) \in Nat /\ Start(2) \in Nat
         /\ Start(2) = Start(1) + Len(TheSections[1].cells) /\ Start(1) < Start(2)
         /\ TheSections[1].name = "index"
         /\ EntryPlace(0) = Start(1) + 1 /\ EntryPlace(UrlCount) = Start(2)
         /\ \A m \in 0..UrlCount : EntryPlace(m) \in Nat /\ EntryPlace(m) <= Start(2)
         /\ \A i \in 1..UrlCount :
              /\ EntryPlace(i) = EntryPlace(i - 1) + Len(TheEntry(i)) /\ Len(TheEntry(i)) \in Nat
              /\ IsEntry(TheEntry(i), bundle.version, EntriesAt(index, i))
              /\ \A j \in 1..Len(TheEntry(i)) :
                   EntryPlace(i - 1) + j <= Len(stream) =>
                     stream[EntryPlace(i - 1) + j] = TheEntry(i)[j]
         /\ Start(1) < Len(stream) => stream[Start(1) + 1] = Cell("map", UrlCount)
<1> DEFINE list == EntryList(bundle.version, index)
           at == PlacesOf(list)
           n == UrlCount
           cells == TheSections[1].cells
<1>1. Finalized /\ Begins(stream, Whole)
  BY DEF Offered
<1>2. /\ Number \in Nat /\ Number >= 2 /\ Start(1) \in Nat /\ Start(2) \in Nat
      /\ Len(cells) \in Nat /\ Start(2) = Start(1) + Len(cells) /\ 1 \in 1..Number
  <2>1. /\ Number \in Nat /\ Number >= 2
        /\ \A i \in 1..(Number + 1) : Start(i) \in Nat
        /\ \A i \in 1..Number :
                /\ Len(TheSections[i].cells) \in Nat
                /\ Start(i + 1) = Start(i) + Len(TheSections[i].cells)
    BY <1>1, Places
  <2>2. 1 \in 1..Number /\ 1 \in 1..(Number + 1) /\ 2 \in 1..(Number + 1) /\ 1 + 1 = 2
    BY <2>1
  <2>3. Start(1 + 1) = Start(1) + Len(cells)
    BY <2>1, <2>2
  <2>4. QED
    BY <2>1, <2>2, <2>3
<1>3. TheSections[1].name = "index" /\ cells = IndexCells(bundle.version, index)
  <2>1. TheSections[1].name = "index"
    BY <1>1, FinalizedSections DEF AreSections
  <2>2. IsSection(TheSections[1], bundle, index, responses)
    BY <1>1, <1>2, FinalizedSections DEF AreSections, Number
  <2>3. QED
    BY <2>1, <2>2 DEF IsSection
<1> HIDE DEF cells
<1>4. IsIndex(cells, bundle.version, index)
  BY <1>1, <1>3, FinalizedIndex, IndexLayout
<1>5. /\ Len(cells) = 1 + at[n + 1] /\ cells[1] = Cell("map", n)
      /\ IsLists(list) /\ Len(list) = n /\ n \in Nat /\ ArePlaces(at, list)
      /\ \A i \in 1..n : IsEntry(list[i], bundle.version, EntriesAt(index, i))
      /\ \A i \in 1..n : \A j \in 1..Len(list[i]) : cells[1 + at[i] + j] = list[i][j]
  BY <1>4 DEF IsIndex, UrlCount
<1>5a. n \in Nat /\ Len(cells) = 1 + at[n + 1] /\ Start(2) = Start(1) + Len(cells)
       /\ Start(1) \in Nat
  BY <1>2, <1>5
<1>6. /\ \A i \in 1..(n + 1) : at[i] \in Nat
      /\ at[1] = 0
      /\ \A i \in 1..n : at[i + 1] = at[i] + Len(list[i])
  BY <1>5 DEF ArePlaces
<1>7. \A i \in 1..n : Len(list[i]) \in Nat
  <2>1. \A i \in 1..n : IsList(list[i])
    BY <1>5 DEF IsEntry
  <2>2. QED
    BY <2>1, ListLength
<1>8. \A i \in 1..(n + 1) : at[i] <= at[n + 1]
  <2> SUFFICES ASSUME NEW i \in 1..(n + 1) PROVE at[i] <= at[n + 1]
    OBVIOUS
  <2>1. i \in 1..(Len(list) + 1) /\ n + 1 \in 1..(Len(list) + 1) /\ i <= n + 1
    BY <1>5
  <2> HIDE DEF list, at, n
  <2>2. QED
    BY <1>5, <2>1, PlacesGrow
<1> HIDE DEF list, at
<1>9. \A m : EntryPlace(m) = Start(1) + 1 + at[m + 1]
  BY DEF EntryPlace, at, list
<1>10. \A m \in 0..n : EntryPlace(m) \in Nat /\ EntryPlace(m) <= Start(2)
  <2> SUFFICES ASSUME NEW m \in 0..n
               PROVE  EntryPlace(m) \in Nat /\ EntryPlace(m) <= Start(2)
    OBVIOUS
  <2>1. m + 1 \in 1..(n + 1) /\ n + 1 \in 1..(n + 1)
    BY <1>5
  <2>2. at[m + 1] \in Nat /\ at[m + 1] <= at[n + 1] /\ at[n + 1] \in Nat
    BY <1>6, <1>8, <2>1
  <2>3. EntryPlace(m) = Start(1) + 1 + at[m + 1]
    BY <1>9
  <2>4. Start(2) = Start(1) + (1 + at[n + 1]) /\ Start(1) \in Nat
    BY <1>5a
  <2>5. Start(1) + 1 + at[m + 1] \in Nat /\ Start(1) + 1 + at[m + 1] <= Start(2)
    BY <2>2, <2>4
  <2>6. QED
    BY <2>3, <2>5
<1>11. EntryPlace(0) = Start(1) + 1 /\ EntryPlace(n) = Start(2)
  <2>1. EntryPlace(0) = Start(1) + 1 + at[0 + 1] /\ EntryPlace(n) = Start(1) + 1 + at[n + 1]
    BY <1>9
  <2>2. at[n + 1] \in Nat
    BY <1>5, <1>6
  <2>3. EntryPlace(0) = Start(1) + 1
    BY <1>5a, <1>6, <2>1
  <2>4. EntryPlace(n) = Start(2)
    BY <1>5a, <2>1, <2>2
  <2>5. QED
    BY <2>3, <2>4
<1>12. \A m : m < Len(cells) /\ m \in Nat /\ Start(1) + (m + 1) <= Len(stream) =>
               stream[Start(1) + (m + 1)] = cells[m + 1]
  <2> SUFFICES ASSUME NEW m \in Nat, m < Len(cells), Start(1) + (m + 1) <= Len(stream)
               PROVE  stream[Start(1) + (m + 1)] = cells[m + 1]
    OBVIOUS
  <2>1. m + 1 \in 1..Len(TheSections[1].cells)
    BY <1>2 DEF cells
  <2>2. QED
    BY <1>1, <1>2, <2>1, CellOfSection DEF cells
<1>13. ASSUME NEW i \in 1..n
       PROVE  /\ EntryPlace(i) = EntryPlace(i - 1) + Len(list[i])
              /\ \A j \in 1..Len(list[i]) :
                   EntryPlace(i - 1) + j <= Len(stream) => stream[EntryPlace(i - 1) + j] = list[i][j]
  <2>1. i \in 1..(n + 1) /\ i + 1 \in 1..(n + 1) /\ n + 1 \in 1..(n + 1)
    BY <1>5
  <2>2. EntryPlace(i) = Start(1) + 1 + at[i + 1] /\ EntryPlace(i - 1) = Start(1) + 1 + at[i]
    <3>1. EntryPlace(i - 1) = Start(1) + 1 + at[(i - 1) + 1] /\ (i - 1) + 1 = i
      BY <1>9
    <3>2. QED
      BY <1>9, <3>1
  <2>3. at[i + 1] = at[i] + Len(list[i]) /\ at[i] \in Nat /\ Len(list[i]) \in Nat
        /\ at[i + 1] <= at[n + 1] /\ at[n + 1] \in Nat
    BY <1>6, <1>7, <1>8, <2>1
  <2>4. ASSUME NEW j \in 1..Len(list[i]), EntryPlace(i - 1) + j <= Len(stream)
        PROVE  stream[EntryPlace(i - 1) + j] = list[i][j]
    <3>1. at[i] + j \in Nat /\ at[i] + j < Len(cells) /\ EntryPlace(i - 1) + j = Start(1) + (at[i] + j + 1)
          /\ 1 + at[i] + j = at[i] + j + 1
      <4> DEFINE a == at[i]
                 b == at[i + 1]
                 z == at[n + 1]
                 l == Len(list[i])
                 c == Len(cells)
      <4>1. /\ b = a + l /\ a \in Nat /\ l \in Nat /\ b <= z /\ z \in Nat
            /\ j \in 1..l /\ c = 1 + z
        BY <1>5a, <2>3
      <4>2. EntryPlace(i - 1) = Start(1) + 1 + a /\ Start(1) \in Nat
        BY <1>5a, <2>2
      <4> HIDE DEF a, b, z, l, c
      <4>3. a + j \in Nat /\ a + j < c /\ 1 + a + j = a + j + 1
        BY <4>1
      <4>4. EntryPlace(i - 1) + j = Start(1) + (a + j + 1)
        BY <4>1, <4>2
      <4>5. QED
        BY <4>3, <4>4 DEF a, c
    <3>2. stream[Start(1) + (at[i] + j + 1)] = cells[at[i] + j + 1]
      BY <1>12, <2>4, <3>1
    <3>3. cells[1 + at[i] + j] = list[i][j]
      BY <1>5
    <3>4. QED
      BY <3>1, <3>2, <3>3
  <2>5. QED
    BY <1>2, <2>2, <2>3, <2>4
<1>14. \A i : TheEntry(i) = list[i]
  BY DEF TheEntry, list
<1>15. Start(1) < Len(stream) => stream[Start(1) + 1] = Cell("map", n)
  <2> SUFFICES ASSUME Start(1) < Len(stream) PROVE stream[Start(1) + 1] = Cell("map", n)
    OBVIOUS
  <2>1. Len(stream) \in Nat
    BY <1>1, ListLength DEF Begins
  <2>2. at[n + 1] \in Nat
    BY <1>5, <1>6
  <2>3. 1 \in 1..Len(TheSections[1].cells) /\ Start(1) + 1 <= Len(stream)
    BY <1>2, <1>5, <2>1, <2>2 DEF cells
  <2>4. QED
    BY <1>1, <1>2, <1>5, <2>3, CellOfSection DEF cells
<1>16. Start(1) < Start(2)
  <2>1. at[n + 1] \in Nat
    BY <1>5, <1>6
  <2>2. QED
    BY <1>2, <1>5, <2>1
<1>17. QED
  BY <1>2, <1>3, <1>5, <1>7, <1>10, <1>11, <1>13, <1>14, <1>15, <1>16 DEF cells

(* StartIndex finds as many entries announced as there are URLs. *)
LEMMA StartIndexKeeps ==
  ASSUME Offered, WriterIsOver, Reading, R!StartIndex, UNCHANGED writerVars
  PROVE  ReaderInv'
<1> DEFINE isThere == R!InRange /\ R!At(offset, "map", R!End)
<1>1. /\ R!More /\ R!Name = "index"
      /\ IF isThere
         THEN rpc' = "index" /\ left' = R!Value(offset) /\ pos' = offset + 1
         ELSE rpc' = "error" /\ UNCHANGED <<left, pos>>
      /\ UNCHANGED <<table, start, current, offset, meta, requests, exchanges>>
  BY DEF R!StartIndex, R!Fail
<1> HIDE DEF isThere
<1>2. /\ current = 1 /\ Number \in Nat /\ 1 \in 1..Number
      /\ offset = Start(current) /\ R!End = Start(current + 1)
      /\ wpc = "done" => R!InRange
      /\ R!InRange => Start(current + 1) < Len(stream)
      /\ Len(stream) \in Nat /\ exchanges = <<>>
  BY <1>1, SectionIsNext
<1>3. offset = Start(1) /\ R!End = Start(2) /\ (R!InRange => Start(2) < Len(stream))
  <2>1. current + 1 = 2
    BY <1>2
  <2>2. QED
    BY <1>2, <2>1
<1>4. /\ UrlCount \in Nat /\ Start(1) \in Nat /\ Start(2) \in Nat /\ Start(1) < Start(2)
      /\ EntryPlace(0) = Start(1) + 1
      /\ Start(1) < Len(stream) => stream[Start(1) + 1] = Cell("map", UrlCount)
  BY IndexIsThere
<1>5. R!InRange => isThere /\ R!Value(offset) = UrlCount
  <2> SUFFICES ASSUME R!InRange PROVE isThere /\ R!Value(offset) = UrlCount
    OBVIOUS
  <2>1. stream[offset + 1] = Cell("map", UrlCount)
    BY <1>2, <1>3, <1>4
  <2>2. QED
    BY <1>3, <1>4, <2>1 DEF isThere, R!At, R!Value, Cell
<1>6. CASE ~isThere
  <2>1. wpc # "done"
    BY <1>2, <1>5, <1>6
  <2>2. QED
    BY <1>1, <1>6, <2>1, ReadFails
<1>7. CASE isThere
  <2>1. R!InRange
    BY <1>7 DEF isThere
  <2>2. rpc' = "index" /\ left' = UrlCount /\ pos' = EntryPlace(0) /\ current' = 1
        /\ offset' = Start(1) /\ Start(2) < Len(stream)
    BY <1>1, <1>2, <1>3, <1>4, <1>5, <1>7, <2>1
  <2>3. /\ TheSections' = TheSections /\ Number' = Number /\ TablePlace(bundle)' = TablePlace(bundle)
        /\ UrlCount' = UrlCount /\ bundle' = bundle /\ wpc' = wpc /\ stream' = stream
        /\ \A i : Start(i)' = Start(i)
        /\ \A m : EntryPlace(m)' = EntryPlace(m)
    BY Kept
  <2>4. (\A m : Requested(m)' <=> Requested(m)) /\ (RequestsInv' <=> RequestsInv)
    BY <1>1, RequestedKept
  <2>5. LoadInv' <=> LoadInv
    BY <1>1, LoadKept
  <2>6. Requested(0)
    <3>1. \A i : i \notin 1..0
      OBVIOUS
    <3>2. QED
      BY <3>1 DEF Requested
  <2>7. UrlCount' - left' = 0 /\ left' \in Nat /\ pos' \in Nat
    BY <1>4, <2>2, <2>3
  <2>8. InIndex'
    <3>1. pos' = EntryPlace(UrlCount - left)'
      <4>1. EntryPlace(UrlCount - left)' = EntryPlace(0)'
        BY <2>7
      <4>2. QED
        BY <2>2, <2>3, <4>1
    <3>2. Requested(UrlCount - left)'
      <4>1. Requested(UrlCount - left)' <=> Requested(0)'
        BY <2>7
      <4>2. QED
        BY <2>4, <2>6, <4>1
    <3>3. QED
      BY <1>4, <2>2, <2>3, <3>1, <3>2 DEF InIndex
  <2>9. TableInv' /\ MetaInv'
    BY <1>1, <1>2, <2>3, <2>7, PassedKept DEF Reading, TableInv
  <2>10. ProgressInv'
    BY <1>1, <1>2, <2>2, <2>8 DEF ProgressInv
  <2>11. OutcomeInv'
    BY <2>2 DEF OutcomeInv
  <2>12. Reading'
    BY <2>2, <2>4, <2>5, <2>9, <2>10, <2>11 DEF Reading
  <2>13. QED
    BY <2>3, <2>12 DEF ReaderInv, WriterIsOver
<1>8. QED
  BY <1>6, <1>7

(* At the end of the index everything has been asked for. *)
LEMMA EndIndexKeeps ==
  ASSUME Offered, WriterIsOver, Reading, R!EndIndex, UNCHANGED writerVars
  PROVE  ReaderInv'
<1>1. /\ rpc = "index" /\ left = 0 /\ rpc' = "sections" /\ offset' = R!End /\ current' = current + 1
      /\ UNCHANGED <<table, start, pos, left, meta, requests, exchanges>>
  BY DEF R!EndIndex
<1>2. InIndex /\ exchanges = <<>>
  BY <1>1 DEF Reading, ProgressInv
<1>3. current = 1 /\ offset = Start(1) /\ Requested(UrlCount - left)
  BY <1>2 DEF InIndex
<1>4. /\ UrlCount \in Nat /\ Start(2) \in Nat
      /\ Start(2) = Start(1) + Len(TheSections[1].cells)
      /\ TheSections[1].name = "index"
  BY IndexIsThere
<1>5. Number \in Nat /\ Number >= 2
  BY Places DEF Offered
<1>6. R!End = Start(2)
  <2>1. Finalized
    BY DEF Offered
  <2>2. table[1].length = Len(TheSections[1].cells)
    <3>1. 1 \in 1..Number
      BY <1>5
    <3>2. QED
      BY <2>1, <3>1, TableOf DEF Reading, TableInv
  <2>3. QED
    BY <1>3, <1>4, <2>2 DEF R!End
<1>7. Requested(UrlCount)
  <2>1. UrlCount - left = UrlCount
    BY <1>1, <1>4
  <2>2. QED
    BY <1>3, <2>1
<1>8. /\ TheSections' = TheSections /\ Number' = Number /\ TablePlace(bundle)' = TablePlace(bundle)
      /\ UrlCount' = UrlCount /\ bundle' = bundle /\ wpc' = wpc
      /\ \A i : Start(i)' = Start(i)
  BY Kept
<1>9. (\A m : Requested(m)' <=> Requested(m)) /\ (RequestsInv' <=> RequestsInv)
  BY <1>1, RequestedKept
<1>10. LoadInv' <=> LoadInv
  BY <1>1, LoadKept
<1>11. MetaInv'
  <2>1. \A name : Passed(name)' <=> (Passed(name) \/ TheSections[current].name = name)
    BY <1>1, <1>3, <1>5, PassedNext
  <2>2. \A name \in {"primary", "manifest", "signatures"} : Passed(name)' <=> Passed(name)
    BY <1>3, <1>4, <2>1
  <2>3. QED
    BY <1>1, <1>8, <2>2 DEF Reading, MetaInv
<1>12. TableInv'
  BY <1>1, <1>3, <1>4, <1>5, <1>6, <1>8 DEF Reading, TableInv
<1>13. ProgressInv'
  <2>1. current' = 2 /\ offset' = Start(2)'
    BY <1>1, <1>3, <1>6, <1>8
  <2>2. QED
    BY <1>1, <1>2, <1>7, <1>8, <1>9, <2>1 DEF ProgressInv
<1>14. OutcomeInv'
  BY <1>1 DEF OutcomeInv
<1>15. Reading'
  BY <1>1, <1>9, <1>10, <1>11, <1>12, <1>13, <1>14 DEF Reading
<1>16. QED
  BY <1>8, <1>15 DEF ReaderInv, WriterIsOver

(* At the end of the sections all of them have been passed. *)
LEMMA EndMetadataKeeps ==
  ASSUME Offered, WriterIsOver, Reading, R!EndMetadata, UNCHANGED writerVars
  PROVE  ReaderInv'
<1>1. /\ rpc = "sections" /\ current > Len(table) /\ rpc' = "load"
      /\ UNCHANGED <<table, start, current, offset, pos, left, meta, requests, exchanges>>
  BY DEF R!EndMetadata
<1>2. Number \in Nat /\ Len(table) = Number
  BY Places, TableOf DEF Offered, Reading, TableInv
<1>3. current = Number + 1
  BY <1>1, <1>2 DEF Reading, TableInv
<1>4. /\ TheSections' = TheSections /\ Number' = Number /\ TablePlace(bundle)' = TablePlace(bundle)
      /\ UrlCount' = UrlCount /\ bundle' = bundle /\ wpc' = wpc
      /\ \A i : Start(i)' = Start(i)
  BY Kept
<1>5. (\A m : Requested(m)' <=> Requested(m)) /\ (RequestsInv' <=> RequestsInv)
  BY <1>1, RequestedKept
<1>6. LoadInv' <=> LoadInv
  BY <1>1, LoadKept
<1>7. MetaInv' /\ TableInv'
  BY <1>1, <1>4, PassedKept DEF Reading, TableInv
<1>8. ProgressInv'
  BY <1>1, <1>3, <1>4, <1>5 DEF Reading, ProgressInv
<1>9. OutcomeInv'
  BY <1>1 DEF OutcomeInv
<1>10. Reading'
  BY <1>1, <1>5, <1>6, <1>7, <1>8, <1>9 DEF Reading
<1>11. QED
  BY <1>4, <1>10 DEF ReaderInv, WriterIsOver

(* The index entry that is to be read next, and its place. *)
LEMMA EntryIsNext ==
  ASSUME Offered, Reading, rpc = "index", left > 0, NEW i, i = UrlCount - left + 1
  PROVE  /\ i \in 1..UrlCount /\ UrlCount \in Nat /\ left \in Nat
         /\ pos \in Nat /\ pos = EntryPlace(i - 1)
         /\ R!End = Start(2)
         /\ EntryPlace(i) = pos + Len(TheEntry(i)) /\ Len(TheEntry(i)) \in Nat
         /\ IsEntry(TheEntry(i), bundle.version, EntriesAt(index, i))
         /\ \A j \in 0..(Len(TheEntry(i)) - 1) :
              pos + j < R!End /\ stream[pos + j + 1] = TheEntry(i)[j + 1]
         /\ exchanges = <<>> /\ Requested(i - 1) /\ Start(2) < Len(stream)
         /\ current = 1 /\ offset = Start(1) /\ Start(2) \in Nat
<1>1. InIndex /\ exchanges = <<>> /\ left \in Nat /\ pos \in Nat
  BY DEF Reading, ProgressInv, TableInv
<1>2. /\ current = 1 /\ offset = Start(1) /\ Start(2) < Len(stream)
      /\ left <= UrlCount /\ pos = EntryPlace(UrlCount - left) /\ Requested(UrlCount - left)
  BY <1>1 DEF InIndex
<1>3. /\ UrlCount \in Nat /\ Start(2) \in Nat
      /\ Start(2) = Start(1) + Len(TheSections[1].cells)
      /\ \A m \in 0..UrlCount : EntryPlace(m) \in Nat /\ EntryPlace(m) <= Start(2)
      /\ \A k \in 1..UrlCount :
           /\ EntryPlace(k) = EntryPlace(k - 1) + Len(TheEntry(k)) /\ Len(TheEntry(k)) \in Nat
           /\ IsEntry(TheEntry(k), bundle.version, EntriesAt(index, k))
           /\ \A j \in 1..Len(TheEntry(k)) :
                EntryPlace(k - 1) + j <= Len(stream) =>
                  stream[EntryPlace(k - 1) + j] = TheEntry(k)[j]
  BY IndexIsThere
<1>4. i \in 1..UrlCount /\ i - 1 = UrlCount - left /\ i \in 0..UrlCount
  BY <1>1, <1>2, <1>3
<1>5. pos = EntryPlace(i - 1) /\ Requested(i - 1)
  BY <1>2, <1>4
<1>6. R!End = Start(2)
  <2>1. Finalized
    BY DEF Offered
  <2>2. table[1].length = Len(TheSections[1].cells)
    <3>1. 1 \in 1..Number
      BY <2>1, Places
    <3>2. QED
      BY <2>1, <3>1, TableOf DEF Reading, TableInv
  <2>3. QED
    BY <1>2, <1>3, <2>2 DEF R!End
<1>7. Len(stream) \in Nat
  BY ListLength DEF Offered, Begins
<1>8. /\ EntryPlace(i) = pos + Len(TheEntry(i)) /\ Len(TheEntry(i)) \in Nat
      /\ EntryPlace(i) <= Start(2)
      /\ \A j \in 1..Len(TheEntry(i)) :
           pos + j <= Len(stream) => stream[pos + j] = TheEntry(i)[j]
      /\ IsEntry(TheEntry(i), bundle.version, EntriesAt(index, i))
  BY <1>3, <1>4, <1>5
<1> DEFINE l == Len(TheEntry(i))
<1>8a. /\ pos \in Nat /\ l \in Nat /\ Start(2) \in Nat /\ Len(stream) \in Nat
       /\ pos + l <= Start(2) /\ Start(2) < Len(stream)
  BY <1>1, <1>2, <1>3, <1>7, <1>8
<1> HIDE DEF l
<1>9. ASSUME NEW j \in 0..(Len(TheEntry(i)) - 1)
      PROVE  pos + j < R!End /\ stream[pos + j + 1] = TheEntry(i)[j + 1]
  <2>1. j + 1 \in 1..Len(TheEntry(i)) /\ pos + (j + 1) <= Len(stream) /\ pos + (j + 1) = pos + j + 1
        /\ pos + j < R!End
    BY <1>6, <1>8a DEF l
  <2>2. QED
    BY <1>8, <2>1
<1>10. QED
  BY <1>1, <1>2, <1>3, <1>4, <1>5, <1>6, <1>8, <1>9

(* The operators of BundleFormat mean the same in the reader. *)
LEMMA ReaderKeys ==
  /\ \A v : R!NumberOfPossibleKeys(v) = NumberOfPossibleKeys(v)
  /\ \A v : R!SupportsVariants(v) <=> SupportsVariants(v)
  /\ \A u : (R!IsBadUrl(u) <=> IsBadUrl(u)) /\ (R!IsAbsolute(u) <=> IsAbsolute(u))
<1>1. \A v : R!NumberOfPossibleKeys(v) = NumberOfPossibleKeys(v)
  BY DEF R!NumberOfPossibleKeys, NumberOfPossibleKeys, R!FoldLeft, FoldLeft, R!MapThenFoldSet, MapThenFoldSet,
         R!Max, Max
<1>2. QED
  BY <1>1 DEF R!SupportsVariants, SupportsVariants, R!IsBadUrl, IsBadUrl, R!Unparsable, Unparsable,
             R!IsAbsolute, IsAbsolute

(* Every entry that has been listed locates something in the responses. *)
LEMMA Located ==
  ASSUME Offered, Reading, NEW e \in 1..Len(index)
  PROVE  /\ index[e].offset \in Nat /\ index[e].length \in Nat
         /\ index[e].offset + index[e].length <= R!LengthOf("responses")
         /\ R!ToStream(index[e].offset) = Start(Number) + index[e].offset
         /\ TheSections[Number].cells = responses
         /\ Start(Number) + R!LengthOf("responses") < Len(Whole)
         /\ e \in 1..Len(bundle.exchanges)
         /\ IsAdded(index[e], bundle.exchanges[e], responses)
         /\ index[e].url = bundle.exchanges[e].url
         /\ IsList(bundle.exchanges[e].body)
<1>1. Finalized /\ IndexInv
  BY DEF Offered, Finalized
<1>2. Number \in Nat /\ Number >= 2 /\ Number \in 1..Number /\ TablePlace(bundle) \in {1, 2}
      /\ Number \in 1..(Number + 1) /\ Number + 1 \in 1..(Number + 1)
  BY <1>1, Places
<1>3. TheSections[Number].name = "responses" /\ TheSections[Number].cells = responses
  <2>1. TheSections[Number].name = "responses"
    BY <1>1, FinalizedSections DEF Number
  <2>2. IsSection(TheSections[Number], bundle, index, responses)
    BY <1>1, <1>2, FinalizedSections DEF AreSections, Number
  <2>3. QED
    BY <2>1, <2>2 DEF IsSection
<1>4. /\ R!OffsetOf("responses") \in Nat
      /\ TablePlace(bundle) + 2 + R!OffsetOf("responses") = Start(Number)
      /\ R!LengthOf("responses") = Len(responses)
  BY <1>1, <1>2, <1>3, SectionFound DEF Reading, TableInv
<1>5. IsAdded(index[e], bundle.exchanges[e], responses) /\ e \in 1..Len(bundle.exchanges)
  <2>1. Len(index) = Len(bundle.exchanges)
    BY <1>1 DEF Finalized
  <2>2. QED
    BY <1>1, <2>1 DEF IndexInv
<1>6. IsList(bundle.exchanges[e].body)
  BY <1>1, <1>5, GoodExchanges DEF Finalized
<1>7. /\ index[e].offset \in Nat /\ index[e].length = Len(ResponseCells(bundle.exchanges[e]))
      /\ index[e].offset + index[e].length <= Len(responses)
      /\ index[e].url = bundle.exchanges[e].url
  BY <1>5 DEF IsAdded
<1>8. index[e].length \in Nat
  <2>1. IsList(ResponseCells(bundle.exchanges[e]))
    BY <1>6, ResponseLayout
  <2>2. QED
    BY <1>7, <2>1, ListLength
<1>9. R!ToStream(index[e].offset) = Start(Number) + index[e].offset
  BY <1>2, <1>4, <1>7 DEF R!ToStream, Reading, TableInv
<1>10. Start(Number) + Len(responses) < Len(Whole)
  <2>1. /\ Start(Number) \in Nat /\ Start(Number + 1) \in Nat
        /\ Start(Number + 1) = Start(Number) + Len(responses) /\ Len(Whole) = Start(Number + 1) + 1
    BY <1>1, <1>2, <1>3, Places
  <2>2. QED
    BY <2>1
<1>11. QED
  BY <1>3, <1>4, <1>5, <1>6, <1>7, <1>8, <1>9, <1>10

(* What the entry tells is taken as it was meant. *)
LEMMA EntryTells ==
  ASSUME Offered, Reading, rpc = "index", left > 0, NEW i, i = UrlCount - left + 1
  PROVE  LET es == EntriesAt(index, i)
             n == Len(OrderOf(es))
         IN  /\ R!At(pos, "text", R!End) /\ R!Value(pos) = UrlList(index)[i]
             /\ R!At(pos + 1, "array", R!End)
             /\ n \in Nat \ {0} /\ R!NumLocations = n
             /\ R!FirstLocation = pos + HeadLength(bundle.version)
             /\ R!FirstLocation + 2 * n = EntryPlace(i)
             /\ \A j \in 1..n :
                  /\ OrderOf(es)[j] \in 1..Len(es)
                  /\ R!IsLocation(R!FirstLocation + 2 * (j - 1))
                  /\ R!Value(R!FirstLocation + 2 * (j - 1)) = es[OrderOf(es)[j]].offset
                  /\ R!Value(R!FirstLocation + 2 * (j - 1) + 1) = es[OrderOf(es)[j]].length
             /\ \A p \in 1..Len(es) : \E j \in 1..n : OrderOf(es)[j] = p
<1> DEFINE es == EntriesAt(index, i)
           order == OrderOf(es)
           n == Len(order)
           c == TheEntry(i)
           ver == bundle.version
           first == HeadLength(ver)
           at == R!FirstLocation
<1>1. /\ i \in 1..UrlCount /\ pos \in Nat
      /\ EntryPlace(i) = pos + Len(c) /\ Len(c) \in Nat
      /\ IsEntry(c, ver, es)
      /\ \A j \in 0..(Len(c) - 1) : pos + j < R!End /\ stream[pos + j + 1] = c[j + 1]
  BY EntryIsNext
<1>2. CanIndex(ver, index)
  BY FinalizedIndex DEF Offered
<1>3. /\ CanList(ver, es)
      /\ es[1].url = UrlList(index)[i]
      /\ \A p \in 1..Len(es) : \E e \in 1..Len(index) : index[e] = es[p]
  <2>1. i \in 1..Len(UrlList(index))
    BY <1>1 DEF UrlCount
  <2>2. QED
    BY <1>2, <2>1, UrlEntries
<1> HIDE DEF es, c
<1>4. /\ IsOrder(order, es, n)
      /\ n = IF VariantsOf(es) = <<>> THEN 1 ELSE NumberOfPossibleKeys(VariantsOf(es))
      /\ ~SupportsVariants(ver) => n = 1
  BY <1>3, OrderIsOne
<1> HIDE DEF order
<1>5. /\ n \in Nat \ {0} /\ \A j \in 1..n : order[j] \in 1..Len(es)
      /\ \A p \in 1..Len(es) : \E j \in 1..n : order[j] = p
  BY <1>4 DEF IsOrder
<1>6. /\ Len(c) = first + 2 * n
      /\ c[1] = Cell("text", es[1].url)
      /\ c[2] = Cell("array", IF SupportsVariants(ver) THEN 2 * n + 1 ELSE 2)
      /\ SupportsVariants(ver) => c[3] = Cell("variants", VariantsOf(es))
      /\ \A j \in 1..n : /\ c[first + 2 * (j - 1) + 1] = Cell("uint", es[order[j]].offset)
                         /\ c[first + 2 * (j - 1) + 2] = Cell("uint", es[order[j]].length)
  BY <1>1 DEF IsEntry, order
<1>7. first = (IF SupportsVariants(ver) THEN 3 ELSE 2) /\ first \in Nat
  BY DEF HeadLength
<1>8. meta.version = ver
  BY DEF Reading, MetaInv
<1>9. at = pos + first
  BY <1>7, <1>8, ReaderKeys DEF R!FirstLocation
<1> HIDE DEF n, first, at, ver
<1>10. \A j \in 0..(Len(c) - 1) : \A k, v :
         c[j + 1] = Cell(k, v) => R!At(pos + j, k, R!End) /\ R!Value(pos + j) = v
  <2> SUFFICES ASSUME NEW j \in 0..(Len(c) - 1), NEW k, NEW v, c[j + 1] = Cell(k, v)
               PROVE  R!At(pos + j, k, R!End) /\ R!Value(pos + j) = v
    OBVIOUS
  <2>1. pos + j < R!End /\ stream[pos + j + 1] = Cell(k, v)
    BY <1>1
  <2>2. QED
    BY <2>1 DEF R!At, R!Value, Cell
<1>11. R!At(pos, "text", R!End) /\ R!Value(pos) = es[1].url
  <2>1. 0 \in 0..(Len(c) - 1) /\ 0 + 1 = 1 /\ pos + 0 = pos
    BY <1>1, <1>5, <1>6, <1>7
  <2>2. c[0 + 1] = Cell("text", es[1].url)
    BY <1>6, <2>1
  <2>3. R!At(pos + 0, "text", R!End) /\ R!Value(pos + 0) = es[1].url
    BY <1>10, <2>1, <2>2
  <2>4. QED
    BY <2>1, <2>3
<1>12. /\ R!At(pos + 1, "array", R!End)
       /\ R!Value(pos + 1) = (IF SupportsVariants(ver) THEN 2 * n + 1 ELSE 2)
  <2>1. 1 \in 0..(Len(c) - 1) /\ 1 + 1 = 2
    BY <1>1, <1>5, <1>6, <1>7
  <2>2. c[1 + 1] = Cell("array", IF SupportsVariants(ver) THEN 2 * n + 1 ELSE 2)
    BY <1>6, <2>1
  <2>3. QED
    BY <1>10, <2>1, <2>2
<1>13. SupportsVariants(ver) =>
         R!At(pos + 2, "variants", R!End) /\ R!Value(pos + 2) = VariantsOf(es)
  <2> SUFFICES ASSUME SupportsVariants(ver)
               PROVE  R!At(pos + 2, "variants", R!End) /\ R!Value(pos + 2) = VariantsOf(es)
    OBVIOUS
  <2>1. 2 \in 0..(Len(c) - 1) /\ 2 + 1 = 3
    BY <1>1, <1>5, <1>6, <1>7
  <2>2. c[2 + 1] = Cell("variants", VariantsOf(es))
    BY <1>6, <2>1
  <2>3. QED
    BY <1>10, <2>1, <2>2
<1>14. R!NumLocations = n
  <2>1. CASE SupportsVariants(ver)
    <3>1. R!SupportsVariants(meta.version)
      BY <1>8, <2>1, ReaderKeys
    <3>2. R!Value(pos + 1) = 2 * n + 1
      BY <1>12, <2>1
    <3>3. (IF R!Value(pos + 2) = <<>> THEN 1 ELSE R!NumberOfPossibleKeys(R!Value(pos + 2))) = n
      BY <1>4, <1>13, <2>1, ReaderKeys DEF n
    <3>4. QED
      BY <1>13, <2>1, <3>1, <3>2, <3>3 DEF R!NumLocations
  <2>2. CASE ~SupportsVariants(ver)
    <3>1. ~R!SupportsVariants(meta.version)
      BY <1>8, <2>2, ReaderKeys
    <3>2. R!Value(pos + 1) = 2 /\ n = 1
      BY <1>4, <1>12, <2>2 DEF ver, n
    <3>3. QED
      BY <3>1, <3>2 DEF R!NumLocations
  <2>3. QED
    BY <2>1, <2>2
<1>15. ASSUME NEW j \in 1..n
       PROVE  /\ R!IsLocation(at + 2 * (j - 1))
              /\ R!Value(at + 2 * (j - 1)) = es[order[j]].offset
              /\ R!Value(at + 2 * (j - 1) + 1) = es[order[j]].length
  <2> DEFINE o == first + 2 * (j - 1)
             x == es[order[j]]
  <2>1. o \in 0..(Len(c) - 1) /\ o + 1 \in 0..(Len(c) - 1) /\ (o + 1) + 1 = o + 2
        /\ at + 2 * (j - 1) = pos + o /\ at + 2 * (j - 1) + 1 = pos + (o + 1)
    BY <1>1, <1>5, <1>6, <1>7, <1>9
  <2>2. c[o + 1] = Cell("uint", x.offset) /\ c[(o + 1) + 1] = Cell("uint", x.length)
    <3>1. c[o + 1] = Cell("uint", x.offset) /\ c[o + 2] = Cell("uint", x.length)
      BY <1>6
    <3>2. QED
      BY <2>1, <3>1
  <2> HIDE DEF o
  <2>3. /\ R!At(pos + o, "uint", R!End) /\ R!Value(pos + o) = x.offset
        /\ R!At(pos + (o + 1), "uint", R!End) /\ R!Value(pos + (o + 1)) = x.length
    BY <1>10, <2>1, <2>2
  <2>4. x.offset + x.length <= R!LengthOf("responses")
    <3>1. order[j] \in 1..Len(es)
      BY <1>5
    <3>2. PICK e \in 1..Len(index) : index[e] = x
      BY <1>3, <3>1
    <3>3. QED
      BY <3>2, Located
  <2>5. (pos + o) + 1 = pos + (o + 1)
    BY <1>1, <2>1
  <2> HIDE DEF x
  <2>6. R!IsLocation(pos + o)
    BY <2>3, <2>4, <2>5 DEF R!IsLocation
  <2>7. QED
    BY <2>1, <2>3, <2>6 DEF x
<1>16. at + 2 * n = EntryPlace(i)
  <2>1. EntryPlace(i) = pos + Len(c) /\ Len(c) = first + 2 * n
    BY <1>1, <1>6
  <2>2. n \in Nat /\ first \in Nat /\ pos \in Nat
    BY <1>1, <1>5, <1>7
  <2>3. QED
    BY <1>9, <2>1, <2>2
<1>17. QED
  BY <1>3, <1>5, <1>9, <1>11, <1>12, <1>14, <1>15, <1>16 DEF es, order, n, at, first, ver

(* Requests that are already there stay what they are. *)
LEMMA MoreRequests ==
  ASSUME UNCHANGED writerVars, IsList(requests), NEW new, IsList(new), requests' = requests \o new
  PROVE  /\ IsList(requests') /\ Len(requests') = Len(requests) + Len(new)
         /\ Len(requests) \in Nat /\ Len(new) \in Nat
         /\ \A q \in 1..Len(requests) : requests'[q] = requests[q]
         /\ \A k \in 1..Len(new) : requests'[Len(requests) + k] = new[k]
         /\ \A m : Requested(m) => \A i \in 1..m :
              /\ ~IsBadUrl(UrlList(index)[i])
              /\ \A e \in 1..Len(index) :
                   index[e].url = UrlList(index)[i] =>
                     \E q \in 1..Len(requests') : IsRequest(requests'[q], e)
<1>1. /\ IsList(requests') /\ Len(requests') = Len(requests) + Len(new)
      /\ Len(requests) \in Nat /\ Len(new) \in Nat
      /\ \A q \in 1..Len(requests) : requests'[q] = requests[q]
      /\ \A k \in 1..Len(new) : requests'[Len(requests) + k] = new[k]
  BY ListsJoined, ListLength
<1>2. \A q \in 1..Len(requests) : q \in 1..Len(requests')
  BY <1>1
<1>3. \A e : (\E q \in 1..Len(requests) : IsRequest(requests[q], e)) =>
              \E q \in 1..Len(requests') : IsRequest(requests'[q], e)
  BY <1>1, <1>2
<1>4. QED
  BY <1>1, <1>3 DEF Requested

(* ReadIndexEntry asks for every response of its URL, or fails since       *)
(* readers do not take the URL.                                            *)
LEMMA ReadIndexEntryKeeps ==
  ASSUME Offered, WriterIsOver, Reading, R!ReadIndexEntry, UNCHANGED writerVars
  PROVE  ReaderInv'
<1> DEFINE i == UrlCount - left + 1
           es == EntriesAt(index, i)
           order == OrderOf(es)
           n == Len(order)
           url == UrlList(index)[i]
           at == R!FirstLocation
           isThere == /\ R!At(pos, "text", R!End) /\ ~R!IsBadUrl(R!Value(pos))
                      /\ R!At(pos + 1, "array", R!End)
                      /\ R!NumLocations > 0
                      /\ \A j \in 0..(R!NumLocations - 1) : R!IsLocation(at + 2 * j)
           asked == [j \in 1..R!NumLocations |->
                      [url |-> R!Value(pos),
                       offset |-> R!ToStream(R!Value(at + 2 * (j - 1))),
                       length |-> R!Value(at + 2 * (j - 1) + 1)]]
<1>1. /\ rpc = "index" /\ left > 0
      /\ IF isThere
         THEN /\ requests' = requests \o asked
              /\ pos' = at + 2 * R!NumLocations
              /\ left' = left - 1
              /\ UNCHANGED rpc
         ELSE rpc' = "error" /\ UNCHANGED <<requests, pos, left>>
      /\ UNCHANGED <<table, start, current, offset, meta, exchanges>>
  BY DEF R!ReadIndexEntry, R!Fail
<1> HIDE DEF isThere
<1>2. /\ i \in 1..UrlCount /\ UrlCount \in Nat /\ left \in Nat /\ pos \in Nat
      /\ exchanges = <<>> /\ Requested(i - 1) /\ Start(2) < Len(stream)
      /\ current = 1 /\ offset = Start(1)
  BY <1>1, EntryIsNext
<1>3. /\ R!At(pos, "text", R!End) /\ R!Value(pos) = url
      /\ R!At(pos + 1, "array", R!End)
      /\ n \in Nat \ {0} /\ R!NumLocations = n
      /\ at + 2 * n = EntryPlace(i)
      /\ \A j \in 1..n :
           /\ order[j] \in 1..Len(es)
           /\ R!IsLocation(at + 2 * (j - 1))
           /\ R!Value(at + 2 * (j - 1)) = es[order[j]].offset
           /\ R!Value(at + 2 * (j - 1) + 1) = es[order[j]].length
      /\ \A p \in 1..Len(es) : \E j \in 1..n : order[j] = p
  BY <1>1, EntryTells
<1>4. /\ \A p \in 1..Len(es) : es[p].url = url /\ \E e \in 1..Len(index) : index[e] = es[p]
      /\ \A e \in 1..Len(index) : index[e].url = url => \E p \in 1..Len(es) : es[p] = index[e]
  <2>1. CanIndex(bundle.version, index)
    BY FinalizedIndex DEF Offered
  <2>2. i \in 1..Len(UrlList(index))
    BY <1>2 DEF UrlCount
  <2> HIDE DEF i
  <2>3. /\ \A p \in 1..Len(EntriesAt(index, i)) :
             /\ EntriesAt(index, i)[p].url = UrlList(index)[i]
             /\ \E e \in 1..Len(index) : index[e] = EntriesAt(index, i)[p]
        /\ \A e \in 1..Len(index) :
              index[e].url = UrlList(index)[i] =>
                \E p \in 1..Len(EntriesAt(index, i)) : EntriesAt(index, i)[p] = index[e]
    <3> HIDE DEF es, url, order, n
    <3>1. QED
      BY ONLY <2>1, <2>2, UrlEntries
  <2>4. QED
    BY ONLY <2>3
<1>5. i \in Nat /\ i - 1 = UrlCount - left /\ UrlCount - (left - 1) = i
  BY <1>2
<1>6. EntryPlace(i) \in Nat
  <2>1. i \in 0..UrlCount
    BY <1>2
  <2>2. QED
    BY <2>1, IndexIsThere
<1> HIDE DEF i, es, order, n, url, at
<1>7. isThere <=> ~IsBadUrl(url)
  <2>1. \A j \in 0..(n - 1) : R!IsLocation(at + 2 * j)
    <3> SUFFICES ASSUME NEW j \in 0..(n - 1) PROVE R!IsLocation(at + 2 * j)
      OBVIOUS
    <3>1. j + 1 \in 1..n /\ (j + 1) - 1 = j
      BY <1>3
    <3>2. R!IsLocation(at + 2 * ((j + 1) - 1))
      BY <1>3, <3>1
    <3>3. QED
      BY <3>1, <3>2
  <2>2. R!IsBadUrl(R!Value(pos)) <=> IsBadUrl(url)
    BY <1>3, ReaderKeys
  <2>3. n > 0
    BY <1>3
  <2>4. QED
    BY <1>3, <2>1, <2>2, <2>3 DEF isThere
<1>8. CASE ~isThere
  <2>1. ~IsReadable(bundle)
    <3>1. IsBadUrl(url)
      BY <1>7, <1>8
    <3>2. \E j \in 1..n : order[j] \in 1..Len(es)
      <4>1. 1 \in 1..n
        BY <1>3
      <4>2. QED
        BY <1>3, <4>1
    <3>3. PICK e \in 1..Len(index) : index[e].url = url
      BY <1>4, <3>2
    <3>4. index[e].url = bundle.exchanges[e].url /\ e \in 1..Len(bundle.exchanges)
      BY Located
    <3>5. e \in DOMAIN bundle.exchanges
      BY <3>4, GoodExchanges DEF Offered, Finalized
    <3>6. QED
      BY <3>1, <3>3, <3>4, <3>5 DEF IsReadable
  <2>2. QED
    BY <1>1, <1>8, <2>1, ReadFails
<1>9. CASE isThere
  <2> HIDE DEF asked
  <2>1. /\ requests' = requests \o asked /\ pos' = EntryPlace(i) /\ left' = left - 1 /\ rpc' = "index"
    BY <1>1, <1>3, <1>9
  <2>2. /\ asked = [j \in 1..n |-> asked[j]] /\ DOMAIN asked = 1..n
        /\ \A j \in 1..n : asked[j] = [url |-> url,
                                       offset |-> R!ToStream(es[order[j]].offset),
                                       length |-> es[order[j]].length]
    <3>1. asked = [j \in 1..n |->
                    [url |-> url,
                     offset |-> R!ToStream(R!Value(at + 2 * (j - 1))),
                     length |-> R!Value(at + 2 * (j - 1) + 1)]]
      BY <1>3 DEF asked
    <3>2. QED
      BY <1>3, <3>1
  <2>3. IsList(asked) /\ Len(asked) = n
    BY <1>3, <2>2, FunctionIsList
  <2>4. IsList(requests) /\ \A q \in 1..Len(requests) : \E e \in 1..Len(index) : IsRequest(requests[q], e)
    BY DEF Reading, RequestsInv
  <2>5. /\ IsList(requests') /\ Len(requests') = Len(requests) + n /\ Len(requests) \in Nat
        /\ \A q \in 1..Len(requests) : requests'[q] = requests[q]
        /\ \A k \in 1..n : requests'[Len(requests) + k] = asked[k]
        /\ \A k \in 1..(i - 1) :
              /\ ~IsBadUrl(UrlList(index)[k])
              /\ \A e \in 1..Len(index) :
                   index[e].url = UrlList(index)[k] =>
                     \E q \in 1..Len(requests') : IsRequest(requests'[q], e)
    BY <1>2, <2>1, <2>3, <2>4, MoreRequests
  <2>6. /\ TheSections' = TheSections /\ Number' = Number /\ TablePlace(bundle)' = TablePlace(bundle)
        /\ UrlCount' = UrlCount /\ bundle' = bundle /\ wpc' = wpc /\ stream' = stream /\ index' = index
        /\ \A k : Start(k)' = Start(k)
        /\ \A m : EntryPlace(m)' = EntryPlace(m)
        /\ \A r, e : IsRequest(r, e)' <=> IsRequest(r, e)
    BY Kept
  <2>7. ASSUME NEW j \in 1..n, NEW e \in 1..Len(index), index[e] = es[order[j]]
        PROVE  IsRequest(asked[j], e)
    <3>1. R!ToStream(index[e].offset) = Start(Number) + index[e].offset
      BY Located
    <3>2. index[e].url = url
      BY <1>3, <1>4, <2>7
    <3>3. asked[j].url = url /\ asked[j].offset = R!ToStream(index[e].offset)
          /\ asked[j].length = index[e].length
      BY <2>2, <2>7
    <3>4. QED
      BY <3>1, <3>2, <3>3 DEF IsRequest
  <2>8. \A q \in 1..Len(requests') : \E e \in 1..Len(index) : IsRequest(requests'[q], e)
    <3> SUFFICES ASSUME NEW q \in 1..Len(requests')
                 PROVE  \E e \in 1..Len(index) : IsRequest(requests'[q], e)
      OBVIOUS
    <3>1. CASE q <= Len(requests)
      <4>1. q \in 1..Len(requests)
        BY <2>5, <3>1
      <4>2. QED
        BY <2>4, <2>5, <4>1
    <3>2. CASE q > Len(requests)
      <4> DEFINE j == q - Len(requests)
      <4>1. j \in 1..n /\ Len(requests) + j = q
        BY <1>3, <2>5, <3>2
      <4> HIDE DEF j
      <4>2. PICK e \in 1..Len(index) : index[e] = es[order[j]]
        BY <1>3, <1>4, <4>1
      <4>3. requests'[q] = asked[j]
        BY <2>5, <4>1
      <4>4. QED
        BY <2>7, <4>1, <4>2, <4>3
    <3>3. QED
      BY <2>5, <3>1, <3>2
  <2>9. RequestsInv'
    BY <2>5, <2>6, <2>8 DEF RequestsInv
  <2>10. ASSUME NEW e \in 1..Len(index), index[e].url = url
         PROVE  \E q \in 1..Len(requests') : IsRequest(requests'[q], e)
    <3>1. PICK p \in 1..Len(es) : es[p] = index[e]
      BY <1>4, <2>10
    <3>2. PICK j \in 1..n : order[j] = p
      BY <1>3
    <3>3. IsRequest(asked[j], e)
      BY <2>7, <3>1, <3>2
    <3>4. Len(requests) + j \in 1..Len(requests')
      BY <1>3, <2>5
    <3>5. QED
      BY <2>5, <3>3, <3>4
  <2>11. ~IsBadUrl(url)
    BY <1>7, <1>9
  <2>12. \A k \in 1..i :
              /\ ~IsBadUrl(UrlList(index)[k])
              /\ \A e \in 1..Len(index) :
                   index[e].url = UrlList(index)[k] =>
                     \E q \in 1..Len(requests') : IsRequest(requests'[q], e)
    <3> SUFFICES ASSUME NEW k \in 1..i
                 PROVE  /\ ~IsBadUrl(UrlList(index)[k])
                        /\ \A e \in 1..Len(index) :
                             index[e].url = UrlList(index)[k] =>
                               \E q \in 1..Len(requests') : IsRequest(requests'[q], e)
      OBVIOUS
    <3>1. CASE k = i
      BY <2>10, <2>11, <3>1 DEF url
    <3>2. CASE k # i
      <4>1. k \in 1..(i - 1)
        BY <1>5, <3>2
      <4>2. QED
        BY <2>5, <4>1
    <3>3. QED
      BY <3>1, <3>2
  <2>13. Requested(UrlCount - left)'
    <3>1. (UrlCount - left)' = i
      BY <1>5, <2>1, <2>6
    <3>2. QED
      BY <2>6, <2>12, <3>1 DEF Requested
  <2>14. InIndex'
    <3>1. pos' = EntryPlace(UrlCount - left)'
      <4>1. (UrlCount - left)' = i
        BY <1>5, <2>1, <2>6
      <4>2. EntryPlace(UrlCount - left)' = EntryPlace(i)
        BY <2>6, <4>1
      <4>3. QED
        BY <2>1, <4>2
    <3>2. left' <= UrlCount'
      BY <1>2, <2>1, <2>6 DEF i
    <3>3. QED
      BY <1>1, <1>2, <2>6, <2>13, <3>1, <3>2 DEF InIndex
  <2>15. left' \in Nat /\ pos' \in Nat
    BY <1>1, <1>2, <1>6, <2>1
  <2>16. TableInv' /\ MetaInv'
    BY <1>1, <2>6, <2>15, PassedKept DEF Reading, TableInv
  <2>17. ProgressInv'
    BY <1>1, <1>2, <2>1, <2>14 DEF ProgressInv
  <2>18. LoadInv'
    <3>1. Len(exchanges') = 0 /\ IsList(exchanges')
      BY <1>1, <1>2, ShortLists
    <3>2. Len(requests') >= 0
      BY <1>3, <2>5
    <3>3. \A q \in 1..0 : FALSE
      OBVIOUS
    <3>4. QED
      BY <3>1, <3>2, <3>3 DEF LoadInv
  <2>19. OutcomeInv'
    BY <2>1 DEF OutcomeInv
  <2>20. Reading'
    BY <2>1, <2>9, <2>16, <2>17, <2>18, <2>19 DEF Reading
  <2>21. QED
    BY <2>6, <2>20 DEF ReaderInv, WriterIsOver
<1>10. QED
  BY <1>8, <1>9

(* The cells that a request is answered with are those of its response, but*)
(* for those past the end of the stream.                                   *)
LEMMA SliceOfResponse ==
  ASSUME Offered, Reading, NEW r, NEW e \in 1..Len(index), IsRequest(r, e)
  PROVE  LET x == bundle.exchanges[e]
             c == ResponseCells(x)
             s == R!Slice(r)
         IN  /\ IsList(s) /\ Len(s) = Len(c) /\ Len(c) \in Nat
             /\ \A j \in 1..Len(c) : s[j] = c[j] \/ s[j] = R!Cell("zero", "zero")
             /\ R!IsWhole(r) => \A j \in 1..Len(c) : s[j] = c[j]
             /\ wpc = "done" => R!IsWhole(r)
             /\ r.url = x.url /\ IsList(x.body)
             /\ e \in DOMAIN bundle.exchanges
<1> DEFINE x == bundle.exchanges[e]
           c == ResponseCells(x)
           s == R!Slice(r)
           o == index[e].offset
           l == index[e].length
           base == Start(Number)
<1>1. /\ o \in Nat /\ l \in Nat /\ o + l <= R!LengthOf("responses")
      /\ base + R!LengthOf("responses") < Len(Whole)
      /\ TheSections[Number].cells = responses
      /\ e \in 1..Len(bundle.exchanges)
      /\ IsAdded(index[e], x, responses) /\ index[e].url = x.url
      /\ IsList(x.body)
  BY Located
<1>2. /\ r.url = index[e].url /\ r.offset = base + o /\ r.length = l
  BY DEF IsRequest
<1>3. /\ l = Len(c) /\ o + l <= Len(responses)
      /\ \A j \in 1..Len(c) : responses[o + j] = c[j]
  BY <1>1 DEF IsAdded
<1>4. /\ Finalized /\ Begins(stream, Whole) /\ (wpc = "done" => Len(stream) = Len(Whole))
  BY DEF Offered
<1>5. base \in Nat /\ Number \in 1..Number
  <2>1. /\ Number \in Nat /\ Number >= 2 /\ \A i \in 1..(Number + 1) : Start(i) \in Nat
    BY <1>4, Places
  <2>2. Number \in 1..(Number + 1) /\ Number \in 1..Number
    BY <2>1
  <2>3. QED
    BY <2>1, <2>2
<1>6. Len(stream) \in Nat /\ Len(responses) \in Nat
  <2>1. IsList(responses) /\ IsList(stream)
    BY <1>4 DEF Finalized, IndexInv, Begins
  <2>2. QED
    BY <2>1, ListLength
<1>7. s = [i \in 1..l |-> IF base + o + i <= Len(stream) THEN stream[base + o + i]
                                                      ELSE R!Cell("zero", "zero")]
  BY <1>2 DEF R!Slice
<1>8. R!IsWhole(r) <=> base + o + l <= Len(stream)
  BY <1>2 DEF R!IsWhole
<1> HIDE DEF x, c, s, o, l, base
<1>9. DOMAIN s = 1..l /\ s = [i \in 1..l |-> s[i]]
  BY <1>7
<1>10. IsList(s) /\ Len(s) = l
  BY <1>1, <1>9, FunctionIsList
<1>10a. /\ o \in Nat /\ l \in Nat /\ o + l <= Len(responses)
        /\ base \in Nat /\ Len(responses) \in Nat
  BY <1>1, <1>3, <1>5, <1>6
<1>11. ASSUME NEW j \in 1..l
       PROVE  /\ base + o + j <= Len(stream) => s[j] = c[j]
              /\ base + o + j > Len(stream) => s[j] = R!Cell("zero", "zero")
              /\ R!IsWhole(r) => base + o + j <= Len(stream)
              /\ base + o + j <= Len(stream) \/ base + o + j > Len(stream)
  <2>1. o + j \in 1..Len(responses) /\ base + o + j = base + (o + j)
    BY <1>10a
  <2>2. ASSUME base + o + j <= Len(stream) PROVE s[j] = c[j]
    <3>1. o + j \in 1..Len(TheSections[Number].cells) /\ Start(Number) + (o + j) <= Len(stream)
      BY <1>1, <2>1, <2>2 DEF base
    <3>2. stream[Start(Number) + (o + j)] = TheSections[Number].cells[o + j]
      BY <1>4, <1>5, <3>1, CellOfSection
    <3>3. s[j] = stream[base + o + j]
      BY <1>7, <2>2
    <3>4. responses[o + j] = c[j]
      BY <1>3
    <3>5. QED
      BY <1>1, <2>1, <3>2, <3>3, <3>4 DEF base
  <2>3. ASSUME base + o + j > Len(stream) PROVE s[j] = R!Cell("zero", "zero")
    <3>1. ~(base + o + j <= Len(stream))
      BY <1>1, <1>5, <1>6, <2>3
    <3>2. QED
      BY <1>7, <3>1
  <2>4. R!IsWhole(r) => base + o + j <= Len(stream)
    BY <1>1, <1>5, <1>6, <1>8
  <2>5. QED
    BY <1>1, <1>5, <1>6, <2>2, <2>3, <2>4
<1>12. wpc = "done" => R!IsWhole(r)
  <2> SUFFICES ASSUME wpc = "done" PROVE R!IsWhole(r)
    OBVIOUS
  <2>1. Len(stream) = Len(Whole)
    BY <1>4
  <2>2. o + l <= Len(responses)
    BY <1>3
  <2>3. R!LengthOf("responses") \in Nat /\ R!LengthOf("responses") = Len(responses)
    <3>1. TheSections[Number].name = "responses"
      BY <1>4, FinalizedSections DEF Number
    <3>2. R!LengthOf("responses") = Len(TheSections[Number].cells)
      BY <1>4, <1>5, <3>1, SectionFound DEF Reading, TableInv
    <3>3. QED
      BY <1>1, <1>6, <3>2
  <2>4. base + Len(responses) < Len(Whole)
    BY <1>1, <2>3
  <2>5. QED
    BY <1>1, <1>5, <1>6, <1>8, <2>1, <2>2, <2>4
<1>13. e \in DOMAIN bundle.exchanges
  BY <1>1, <1>4, GoodExchanges DEF Finalized
<1>14. /\ \A j \in 1..Len(c) : s[j] = c[j] \/ s[j] = R!Cell("zero", "zero")
       /\ R!IsWhole(r) => \A j \in 1..Len(c) : s[j] = c[j]
  BY <1>3, <1>11
<1>15. Len(s) = Len(c) /\ Len(c) \in Nat
  BY <1>1, <1>3, <1>10
<1>16. QED
  BY <1>1, <1>2, <1>10, <1>12, <1>13, <1>14, <1>15 DEF x, c, s

(* The response that is made of them *)
Taken(r) ==
  LET s == R!Slice(r)
  IN [url |-> r.url, header |-> s[2].v, body |-> [i \in 1..s[3].v |-> s[3 + i].v]]

(* It is the one that has been written, but for octets past the end; and   *)
(* it is only refused if readers do not take its header, or if something   *)
(* is missing.                                                             *)
LEMMA TakenIsLoaded ==
  ASSUME Offered, Reading, NEW r, NEW e \in 1..Len(index), IsRequest(r, e)
  PROVE  /\ R!IsResponse(R!Slice(r)) => IsLoaded(Taken(r), r, e)
         /\ wpc = "done" /\ ~R!IsResponse(R!Slice(r)) => ~IsReadable(bundle)
<1> DEFINE x == bundle.exchanges[e]
           c == ResponseCells(x)
           s == R!Slice(r)
           n == Len(x.body)
<1>1. /\ IsList(s) /\ Len(s) = Len(c) /\ Len(c) \in Nat
      /\ \A j \in 1..Len(c) : s[j] = c[j] \/ s[j] = R!Cell("zero", "zero")
      /\ R!IsWhole(r) => \A j \in 1..Len(c) : s[j] = c[j]
      /\ wpc = "done" => R!IsWhole(r)
      /\ r.url = x.url /\ IsList(x.body)
      /\ e \in DOMAIN bundle.exchanges
  BY SliceOfResponse
<1>2. /\ n \in Nat /\ Len(c) = 3 + n
      /\ c[1] = Cell("array", 2) /\ c[2] = Cell("header", HeaderOf(x))
      /\ c[3] = Cell("bytes", n)
      /\ \A i \in 1..n : c[3 + i] = Cell("octet", x.body[i])
  BY <1>1, ResponseLayout
<1>3. /\ \A k, v : Cell(k, v).k = k /\ Cell(k, v).v = v
      /\ R!Cell("zero", "zero").k = "zero" /\ R!Cell("zero", "zero").v = "zero"
  BY DEF Cell, R!Cell
<1>4. HeaderOf(x).header = x.header
  BY DEF HeaderOf
<1> HIDE DEF s, c, n
<1>5. 1 \in 1..Len(c) /\ 2 \in 1..Len(c) /\ 3 \in 1..Len(c)
      /\ \A i \in 1..n : 3 + i \in 1..Len(c)
  BY <1>2
<1>6. ASSUME R!IsResponse(s)
      PROVE  IsLoaded(Taken(r), r, e)
  <2>1. /\ s[2].k = "header" /\ s[2].v.header # "odd" /\ s[3].k = "bytes"
    BY <1>6 DEF R!IsResponse
  <2>2. s[2] = c[2] /\ s[3] = c[3]
    <3>1. s[2] # R!Cell("zero", "zero") /\ s[3] # R!Cell("zero", "zero")
      BY <1>3, <2>1
    <3>2. QED
      BY <1>1, <1>5, <3>1
  <2>3. s[2].v = HeaderOf(x) /\ s[3].v = n /\ x.header # "odd"
    BY <1>2, <1>3, <1>4, <2>1, <2>2
  <2> DEFINE b == [i \in 1..n |-> s[3 + i].v]
  <2>4. Taken(r) = [url |-> x.url, header |-> HeaderOf(x), body |-> b]
    BY <1>1, <2>3 DEF Taken, s
  <2>5. IsList(b) /\ Len(b) = n /\ DOMAIN b = 1..n
    <3>1. DOMAIN b = 1..n /\ b = [i \in 1..n |-> b[i]]
      OBVIOUS
    <3> HIDE DEF b
    <3>2. QED
      BY <1>2, <3>1, FunctionIsList
  <2>6. \A i \in 1..n : b[i] \in {x.body[i], "zero"}
    <3> SUFFICES ASSUME NEW i \in 1..n PROVE b[i] \in {x.body[i], "zero"}
      OBVIOUS
    <3>1. b[i] = s[3 + i].v
      OBVIOUS
    <3>2. s[3 + i] = c[3 + i] \/ s[3 + i] = R!Cell("zero", "zero")
      BY <1>1, <1>5
    <3>3. c[3 + i] = Cell("octet", x.body[i])
      BY <1>2
    <3> HIDE DEF b
    <3>4. QED
      BY <1>3, <3>1, <3>2, <3>3
  <2>7. R!IsWhole(r) => b = x.body
    <3> SUFFICES ASSUME R!IsWhole(r) PROVE b = x.body
      OBVIOUS
    <3>1. \A i \in 1..n : b[i] = x.body[i]
      <4> SUFFICES ASSUME NEW i \in 1..n PROVE b[i] = x.body[i]
        OBVIOUS
      <4>1. b[i] = s[3 + i].v
        OBVIOUS
      <4>2. s[3 + i] = c[3 + i] /\ c[3 + i] = Cell("octet", x.body[i])
        BY <1>1, <1>2, <1>5
      <4> HIDE DEF b
      <4>3. QED
        BY <1>3, <4>1, <4>2
    <3>2. IsList(b) /\ IsList(x.body) /\ Len(b) = Len(x.body) /\ \A i \in 1..Len(b) : b[i] = x.body[i]
      BY <1>1, <2>5, <3>1 DEF n
    <3> HIDE DEF b, x
    <3>3. QED
      BY ONLY <3>2, SameList
  <2> HIDE DEF b
  <2>8. CASE R!IsWhole(r)
    BY <2>3, <2>4, <2>7, <2>8 DEF IsLoaded, WithoutVariants
  <2>9. CASE ~R!IsWhole(r)
    <3>1. IsTruncation(Taken(r), x)
      BY <2>4, <2>5, <2>6 DEF IsTruncation, n
    <3>2. QED
      BY <2>3, <2>9, <3>1 DEF IsLoaded
  <2>10. QED
    BY <2>8, <2>9
<1>7. ASSUME wpc = "done", ~R!IsResponse(s) PROVE ~IsReadable(bundle)
  <2>1. s[1] = c[1] /\ s[2] = c[2] /\ s[3] = c[3]
    BY <1>1, <1>5, <1>7
  <2>2. /\ s[1].k = "array" /\ s[2].k = "header" /\ s[2].v = HeaderOf(x) /\ s[3].k = "bytes" /\ s[3].v = n
    BY <1>2, <1>3, <2>1
  <2>3. Len(s) >= 3 /\ Len(s) = 3 + n
    BY <1>1, <1>2
  <2>4. x.header = "odd"
    BY <1>4, <1>7, <2>2, <2>3 DEF R!IsResponse
  <2>5. QED
    BY <1>1, <2>4 DEF IsReadable
<1>8. QED
  BY <1>6, <1>7 DEF s

(* LoadResponse adds the exchange that has been asked for. *)
LEMMA LoadResponseKeeps ==
  ASSUME Offered, WriterIsOver, Reading, R!LoadResponse, UNCHANGED writerVars
  PROVE  ReaderInv'
<1> DEFINE q == Len(exchanges) + 1
           r == requests[q]
<1>1. /\ rpc = "load" /\ Len(exchanges) < Len(requests)
      /\ IF R!IsResponse(R!Slice(r))
         THEN exchanges' = Append(exchanges, Taken(r)) /\ UNCHANGED rpc
         ELSE rpc' = "error" /\ UNCHANGED exchanges
      /\ UNCHANGED <<table, start, current, offset, pos, left, meta, requests>>
  BY DEF R!LoadResponse, R!Fail, R!Request, Taken
<1>2. /\ IsList(exchanges) /\ IsList(requests)
      /\ \A k \in 1..Len(requests) : \E e \in 1..Len(index) : IsRequest(requests[k], e)
      /\ \A k \in 1..Len(exchanges) : \A e \in 1..Len(index) :
           IsRequest(requests[k], e) => IsLoaded(exchanges[k], requests[k], e)
  BY DEF Reading, RequestsInv, LoadInv
<1>3. Len(exchanges) \in Nat /\ Len(requests) \in Nat /\ q \in 1..Len(requests)
  <2>1. Len(exchanges) \in Nat /\ Len(requests) \in Nat
    BY <1>2, ListLength
  <2>2. QED
    BY <1>1, <2>1
<1>4. PICK f \in 1..Len(index) : IsRequest(r, f)
  BY <1>2, <1>3
<1> HIDE DEF r
<1>5. CASE ~R!IsResponse(R!Slice(r))
  <2>1. wpc = "done" => ~IsReadable(bundle)
    BY <1>4, <1>5, TakenIsLoaded
  <2>2. rpc' = "error"
        /\ UNCHANGED <<table, start, current, offset, pos, left, meta, requests, exchanges>>
    BY <1>1, <1>5
  <2>3. QED
    BY <2>1, <2>2, ReadFails
<1>6. CASE R!IsResponse(R!Slice(r))
  <2> DEFINE x == Taken(r)
  <2>1. exchanges' = Append(exchanges, x) /\ rpc' = "load"
    BY <1>1, <1>6
  <2>2. \A e \in 1..Len(index) : IsRequest(r, e) => IsLoaded(x, r, e)
    BY <1>6, TakenIsLoaded
  <2> HIDE DEF x
  <2>3. /\ IsList(exchanges') /\ Len(exchanges') = q
        /\ \A k \in 1..Len(exchanges) : exchanges'[k] = exchanges[k]
        /\ exchanges'[q] = x
    <3>1. /\ IsList(Append(exchanges, x)) /\ Len(Append(exchanges, x)) = q
          /\ \A k \in 1..Len(exchanges) : Append(exchanges, x)[k] = exchanges[k]
          /\ Append(exchanges, x)[q] = x
      BY <1>2, Appended
    <3> HIDE DEF q
    <3>2. QED
      BY <2>1, <3>1
  <2>4. /\ TheSections' = TheSections /\ Number' = Number /\ TablePlace(bundle)' = TablePlace(bundle)
        /\ UrlCount' = UrlCount /\ bundle' = bundle /\ wpc' = wpc /\ index' = index
        /\ \A i : Start(i)' = Start(i)
        /\ \A k, e : IsRequest(k, e)' <=> IsRequest(k, e)
        /\ \A y, k, e : IsLoaded(y, k, e)' <=> IsLoaded(y, k, e)
    BY Kept
  <2>5. (\A m : Requested(m)' <=> Requested(m)) /\ (RequestsInv' <=> RequestsInv)
    BY <1>1, RequestedKept
  <2>6. TableInv' /\ MetaInv'
    BY <1>1, <2>4, PassedKept DEF Reading, TableInv
  <2>7. ProgressInv'
    BY <1>1, <2>1, <2>4, <2>5 DEF Reading, ProgressInv
  <2>8. \A k \in 1..q : \A e \in 1..Len(index) :
           IsRequest(requests[k], e) => IsLoaded(exchanges'[k], requests[k], e)
    <3> SUFFICES ASSUME NEW k \in 1..q, NEW e \in 1..Len(index), IsRequest(requests[k], e)
                 PROVE  IsLoaded(exchanges'[k], requests[k], e)
      OBVIOUS
    <3>1. CASE k = q
      BY <2>2, <2>3, <3>1 DEF r
    <3>2. CASE k # q
      <4>1. k \in 1..Len(exchanges)
        BY <1>3, <3>2
      <4>2. QED
        BY <1>2, <2>3, <4>1
    <3>3. QED
      BY <3>1, <3>2
  <2>9. LoadInv'
    <3>1. q <= Len(requests)
      BY <1>3
    <3>2. IsList(exchanges') /\ Len(exchanges') = q /\ requests' = requests
      BY <1>1, <2>3
    <3> HIDE DEF q
    <3>3. QED
      BY <2>4, <2>8, <3>1, <3>2 DEF LoadInv
  <2>10. OutcomeInv'
    BY <2>1 DEF OutcomeInv
  <2>11. Reading'
    BY <2>1, <2>5, <2>6, <2>7, <2>9, <2>10 DEF Reading
  <2>12. QED
    BY <2>4, <2>11 DEF ReaderInv, WriterIsOver
<1>7. QED
  BY <1>5, <1>6

(* A slice can only panic where something is missing. *)
LEMMA EndLoadKeeps ==
  ASSUME Offered, WriterIsOver, Reading, R!SlicePanics \/ R!EndLoad, UNCHANGED writerVars
  PROVE  ReaderInv'
<1>1. /\ rpc = "load" /\ rpc' \in {"panic", "ok"}
      /\ UNCHANGED <<table, start, current, offset, pos, left, meta, requests, exchanges>>
  BY DEF R!SlicePanics, R!EndLoad
<1>2. rpc' = "ok" => Len(exchanges) = Len(requests)
  BY DEF R!SlicePanics, R!EndLoad
<1>3. rpc' = "panic" => wpc # "done"
  <2> SUFFICES ASSUME rpc' = "panic" PROVE wpc # "done"
    OBVIOUS
  <2> DEFINE q == Len(exchanges) + 1
  <2>1. Len(exchanges) < Len(requests) /\ ~R!IsWhole(requests[q])
    BY DEF R!SlicePanics, R!EndLoad, R!Request
  <2>2. IsList(exchanges) /\ IsList(requests)
    BY DEF Reading, RequestsInv, LoadInv
  <2>3. q \in 1..Len(requests)
    BY <2>1, <2>2, ListLength
  <2> HIDE DEF q
  <2>4. PICK e \in 1..Len(index) : IsRequest(requests[q], e)
    BY <2>3 DEF Reading, RequestsInv
  <2>5. wpc = "done" => R!IsWhole(requests[q])
    BY <2>4, SliceOfResponse
  <2>6. QED
    BY <2>1, <2>5
<1>4. /\ TheSections' = TheSections /\ Number' = Number /\ TablePlace(bundle)' = TablePlace(bundle)
      /\ UrlCount' = UrlCount /\ bundle' = bundle /\ wpc' = wpc
      /\ \A i : Start(i)' = Start(i)
  BY Kept
<1>5. (\A m : Requested(m)' <=> Requested(m)) /\ (RequestsInv' <=> RequestsInv)
  BY <1>1, RequestedKept
<1>6. LoadInv' <=> LoadInv
  BY <1>1, LoadKept
<1>7. TableInv' /\ MetaInv'
  BY <1>1, <1>4, PassedKept DEF Reading, TableInv
<1>8. ProgressInv'
  BY <1>1, <1>4, <1>5 DEF Reading, ProgressInv
<1>9. OutcomeInv'
  BY <1>1, <1>2, <1>3, <1>4 DEF OutcomeInv
<1>10. Reading'
  BY <1>1, <1>5, <1>6, <1>7, <1>8, <1>9 DEF Reading
<1>11. QED
  BY <1>4, <1>10 DEF ReaderInv, WriterIsOver

(* The writer takes no step once it is done. *)
LEMMA WriterIsNotOver ==
  ASSUME W!Next
  PROVE  wpc \in {"adding", "writing"}
BY DEF W!Next, W!AddExchange, W!Finalize, W!WritePrimaryURLPanics, W!WritePiece, W!WriteFooter,
       W!Adding, W!Added

(* The invariant of the reader is about nothing but the variables. *)
LEMMA ReaderStays ==
  ASSUME ReaderInv, UNCHANGED readerVars, UNCHANGED writerVars
  PROVE  ReaderInv'
<1>1. UNCHANGED <<rpc, table, start, current, offset, pos, left, meta, requests, exchanges>>
  BY DEF readerVars
<1>2. /\ TheSections' = TheSections /\ Number' = Number /\ TablePlace(bundle)' = TablePlace(bundle)
      /\ UrlCount' = UrlCount /\ bundle' = bundle /\ wpc' = wpc /\ stream' = stream
      /\ \A i : Start(i)' = Start(i)
      /\ \A m : EntryPlace(m)' = EntryPlace(m)
  BY Kept
<1>3. CASE rpc = "header" /\ Fresh
  BY <1>1, <1>3 DEF ReaderInv, Fresh
<1>4. CASE rpc = "error" /\ Fresh /\ WriterIsOver /\ (wpc = "done" => ~UrlParses(bundle))
  BY <1>1, <1>2, <1>4 DEF ReaderInv, Fresh, WriterIsOver
<1>5. CASE WriterIsOver /\ Reading
  <2>1. (\A m : Requested(m)' <=> Requested(m)) /\ (RequestsInv' <=> RequestsInv)
    BY <1>1, RequestedKept
  <2>2. LoadInv' <=> LoadInv
    BY <1>1, LoadKept
  <2>3. TableInv' /\ MetaInv'
    BY <1>1, <1>2, <1>5, PassedKept DEF Reading, TableInv
  <2>4. InIndex => InIndex'
    <3> SUFFICES ASSUME InIndex PROVE InIndex'
      OBVIOUS
    <3> DEFINE m == UrlCount - left
    <3>1. pos = EntryPlace(m) /\ Requested(m)
      BY DEF InIndex
    <3>2. m' = m
      BY <1>1, <1>2
    <3> HIDE DEF m
    <3>3. pos' = EntryPlace(m)' /\ Requested(m)'
      <4>1. EntryPlace(m)' = EntryPlace(m)
        BY <1>2, <3>2
      <4>2. Requested(m)' <=> Requested(m)
        BY <2>1, <3>2
      <4>3. QED
        BY <1>1, <3>1, <4>1, <4>2
    <3>4. QED
      BY <1>1, <1>2, <3>3 DEF InIndex, m
  <2>5. ProgressInv'
    BY <1>1, <1>2, <1>5, <2>1, <2>4 DEF Reading, ProgressInv
  <2>6. OutcomeInv'
    BY <1>1, <1>2, <1>5 DEF Reading, OutcomeInv
  <2>7. Reading'
    BY <1>1, <1>5, <2>1, <2>2, <2>3, <2>5, <2>6 DEF Reading
  <2>8. QED
    BY <1>2, <1>5, <2>7 DEF ReaderInv, WriterIsOver
<1>6. QED
  BY <1>3, <1>4, <1>5 DEF ReaderInv

(* All steps keep the invariant of the reader, those of the writer since   *)
(* nothing has been read yet.                                              *)
LEMMA ReaderKeeps ==
  ASSUME Inv, [Next]_vars
  PROVE  ReaderInv'
<1>1. WriterInv /\ ReaderInv
  BY DEF Inv
<1>2. CASE W!Next /\ UNCHANGED readerVars
  <2>1. ~WriterIsOver
    BY <1>2, WriterIsNotOver DEF WriterIsOver
  <2>2. rpc = "header" /\ Fresh
    BY <1>1, <2>1 DEF ReaderInv
  <2>3. QED
    BY <1>2, <2>2 DEF ReaderInv, Fresh, readerVars
<1>3. CASE WriterIsOver /\ R!Next /\ UNCHANGED writerVars
  <2>1. Offered
    BY <1>1, <1>3, OverIsOffered
  <2>2. CASE rpc = "header" /\ Fresh
    <3>1. R!ReadHeader
      BY <1>3, <2>2 DEF R!Next, R!SkipSection, R!ReadUrlSection, R!ReadSignatures, R!StartIndex,
         R!ReadIndexEntry, R!EndIndex, R!EndMetadata, R!LoadResponse, R!SlicePanics, R!EndLoad, R!More
    <3>2. QED
      BY <1>3, <2>1, <2>2, <3>1, ReadHeaderKeeps
  <2>3. ~(rpc = "error" /\ Fresh)
    BY <1>3 DEF R!Next, R!ReadHeader, R!SkipSection, R!ReadUrlSection, R!ReadSignatures, R!StartIndex,
       R!ReadIndexEntry, R!EndIndex, R!EndMetadata, R!LoadResponse, R!SlicePanics, R!EndLoad, R!More
  <2>4. CASE Reading
    <3>1. CASE R!ReadHeader
      BY <2>4, <3>1 DEF Reading, R!ReadHeader
    <3>2. CASE R!SkipSection
      BY <1>3, <2>1, <2>4, <3>2, SkipSectionKeeps
    <3>3. CASE R!ReadUrlSection
      BY <1>3, <2>1, <2>4, <3>3, ReadUrlSectionKeeps
    <3>4. CASE R!ReadSignatures
      BY <1>3, <2>1, <2>4, <3>4, ReadSignaturesKeeps
    <3>5. CASE R!StartIndex
      BY <1>3, <2>1, <2>4, <3>5, StartIndexKeeps
    <3>6. CASE R!ReadIndexEntry
      BY <1>3, <2>1, <2>4, <3>6, ReadIndexEntryKeeps
    <3>7. CASE R!EndIndex
      BY <1>3, <2>1, <2>4, <3>7, EndIndexKeeps
    <3>8. CASE R!EndMetadata
      BY <1>3, <2>1, <2>4, <3>8, EndMetadataKeeps
    <3>9. CASE R!LoadResponse
      BY <1>3, <2>1, <2>4, <3>9, LoadResponseKeeps
    <3>10. CASE R!SlicePanics \/ R!EndLoad
      BY <1>3, <2>1, <2>4, <3>10, EndLoadKeeps
    <3>11. QED
      BY <1>3, <3>1, <3>2, <3>3, <3>4, <3>5, <3>6, <3>7, <3>8, <3>9, <3>10 DEF R!Next
  <2>5. QED
    BY <1>1, <2>2, <2>3, <2>4 DEF ReaderInv
<1>4. CASE UNCHANGED vars
  <2>1. UNCHANGED writerVars /\ UNCHANGED readerVars
    BY <1>4 DEF vars
  <2>2. QED
    BY <1>1, <2>1, ReaderStays
<1>5. QED
  BY <1>2, <1>3, <1>4 DEF Next

(* It holds of all bundles and wherever they have been cut off. *)
LEMMA Invariance == Spec => []Inv
<1>1. Init => Inv
  <2> SUFFICES ASSUME Init PROVE Inv
    OBVIOUS
  <2>1. WriterInv
    BY WriterInit
  <2>2. rpc = "header" /\ Fresh
    BY DEF Init, R!NewReader, Fresh
  <2>3. QED
    BY <2>1, <2>2 DEF Inv, ReaderInv
<1>2. Inv /\ [Next]_vars => Inv'
  <2> SUFFICES ASSUME Inv, [Next]_vars PROVE Inv'
    OBVIOUS
  <2>1. WriterInv'
    BY WriterKeeps DEF Inv
  <2>2. ReaderInv'
    BY ReaderKeeps
  <2>3. QED
    BY <2>1, <2>2 DEF Inv
<1>3. QED
  BY <1>1, <1>2, PTL DEF Spec

(* The type invariant holds for all bundles. *)
THEOREM TypeCorrectness == Spec => []TypeOK
<1>1. Inv => TypeOK
  <2> SUFFICES ASSUME Inv PROVE TypeOK
    OBVIOUS
  <2>1. WriterInv /\ ReaderInv
    BY DEF Inv
  <2>2. /\ bundle \in Bundles
        /\ wpc \in {"adding", "writing", "done", "invalid", "ioError", "panic"}
        /\ Len(index) <= Len(bundle.exchanges)
        /\ written \in Nat
    <3>1. IsList(stream)
      BY <2>1 DEF WriterInv, StreamInv
    <3>2. QED
      BY <2>1, <3>1, ListLength DEF WriterInv, IndexInv
  <2>3. CASE Fresh /\ rpc \in {"header", "error"}
    <3>1. /\ table = <<>> /\ requests = <<>> /\ exchanges = <<>>
          /\ start = 0 /\ current = 1 /\ offset = 0 /\ pos = 0 /\ left = 0
      BY <2>3 DEF Fresh
    <3>2. Len(table) = 0 /\ Len(requests) = 0 /\ Len(exchanges) = 0 /\ DOMAIN requests = {}
      BY <3>1, ShortLists
    <3>3. current \in 1..(Len(table) + 1)
      BY <3>1, <3>2
    <3>4. QED
      BY <2>2, <2>3, <3>1, <3>2, <3>3 DEF TypeOK
  <2>4. CASE WriterIsOver /\ Reading
    <3>1. Offered /\ Finalized
      BY <2>1, <2>4, OverIsOffered DEF Offered
    <3>2. /\ rpc \in {"sections", "index", "load", "ok", "error", "panic"}
          /\ TableInv /\ RequestsInv /\ Len(exchanges) <= Len(requests)
      BY <2>4 DEF Reading, LoadInv
    <3>3. TablePlace(bundle) \in {1, 2} /\ Number \in Nat /\ Number >= 2 /\ Number \in 1..Number
      BY <3>1, Places
    <3>4. Len(table) = Number
      BY <3>1, <3>2, TableOf DEF TableInv
    <3>5. /\ start \in Nat /\ offset \in Nat /\ pos \in Nat /\ left \in Nat
          /\ current \in 1..(Len(table) + 1)
      BY <3>2, <3>3, <3>4 DEF TableInv
    <3>6. \A i \in DOMAIN requests : start + R!OffsetOf("responses") <= requests[i].offset
      <4> SUFFICES ASSUME NEW i \in DOMAIN requests
                   PROVE  start + R!OffsetOf("responses") <= requests[i].offset
        OBVIOUS
      <4>1. IsList(requests)
        BY <3>2 DEF RequestsInv
      <4>2. i \in 1..Len(requests)
        BY <4>1, ListLength
      <4>3. PICK e \in 1..Len(index) : IsRequest(requests[i], e)
        BY <3>2, <4>2 DEF RequestsInv
      <4>4. requests[i].offset = Start(Number) + index[e].offset
        BY <4>3 DEF IsRequest
      <4>5. index[e].offset \in Nat
        BY <2>4, <3>1, Located
      <4>6. TheSections[Number].name = "responses"
        BY <3>1, FinalizedSections DEF Number
      <4>7. /\ R!OffsetOf("responses") \in Nat
            /\ TablePlace(bundle) + 2 + R!OffsetOf("responses") = Start(Number)
        BY <3>1, <3>2, <3>3, <4>6, SectionFound DEF TableInv
      <4>8. start = TablePlace(bundle) + 2
        BY <3>2 DEF TableInv
      <4>9. QED
        BY <3>3, <4>4, <4>5, <4>7, <4>8
    <3>7. QED
      BY <2>2, <3>2, <3>5, <3>6 DEF TypeOK
  <2>5. QED
    BY <2>1, <2>3, <2>4 DEF ReaderInv
<1>2. QED
  BY <1>1, Invariance, PTL

(* Once all sections have been looked at, the reader knows what there is. *)
LEMMA MetaIsRead ==
  ASSUME Offered, Reading, rpc = "ok"
  PROVE  /\ meta = MetaOf(bundle)
         /\ IsSectionUrl(bundle.manifestURL)
         /\ IF HasPrimaryURLFieldInHeader(bundle.version) THEN bundle.primaryURL # Unparsable
            ELSE IsSectionUrl(bundle.primaryURL)
<1>1. current = Number + 1 /\ MetaInv
  BY DEF Reading, ProgressInv
<1>2. Finalized /\ AreSections(TheSections, SectionNames(bundle), bundle, index, responses)
  BY FinalizedSections DEF Offered
<1>3. Number \in Nat
  BY <1>2, Places
<1>4. \A name : Passed(name) <=> name \in SectionNames(bundle)
  <2>1. (current - 1) = Number
    BY <1>1, <1>3
  <2>2. \A name : Passed(name) <=> \E i \in 1..Number : TheSections[i].name = name
    BY <2>1 DEF Passed
  <2>3. QED
    BY <1>2, <2>2 DEF AreSections, Number
<1>5. /\ Passed("primary") <=> UrlIsSection(bundle)
      /\ Passed("manifest") <=> bundle.manifestURL # NoUrl
      /\ Passed("signatures") <=> bundle.signed
  BY <1>4 DEF SectionNames
<1>6. IsSectionUrl(NoUrl)
  BY DEF IsSectionUrl, IsBadUrl, IsAbsolute, NoUrl, Unparsable
<1>7. bundle.signed \in BOOLEAN
  BY <1>2, GoodExchanges DEF Finalized
<1>8. IsSectionUrl(bundle.manifestURL)
  BY <1>1, <1>5, <1>6 DEF MetaInv
<1>9. IF HasPrimaryURLFieldInHeader(bundle.version) THEN bundle.primaryURL # Unparsable
      ELSE IsSectionUrl(bundle.primaryURL)
  BY <1>1, <1>5, <1>6 DEF MetaInv, UrlIsSection, UrlParses
<1>10. meta = MetaOf(bundle)
  <2>1. (IF HasPrimaryURLFieldInHeader(bundle.version) \/ Passed("primary")
         THEN bundle.primaryURL ELSE NoUrl) = bundle.primaryURL
    BY <1>5 DEF UrlIsSection
  <2>2. (IF Passed("manifest") THEN bundle.manifestURL ELSE NoUrl) = bundle.manifestURL
    BY <1>5
  <2>3. (IF Passed("signatures") THEN TRUE ELSE FALSE) = bundle.signed
    BY <1>5, <1>7
  <2>4. QED
    BY <1>1, <2>1, <2>2, <2>3 DEF MetaInv, MetaOf
<1>11. QED
  BY <1>8, <1>9, <1>10

(* Every exchange that has been read is one of the bundle, and the other way*)
(* round.                                                                  *)
LEMMA ExchangesAreRead ==
  ASSUME Offered, Reading, rpc = "ok"
  PROVE  /\ DOMAIN exchanges = 1..Len(exchanges)
         /\ DOMAIN bundle.exchanges = 1..Len(bundle.exchanges)
         /\ \A q \in 1..Len(exchanges) : \E e \in 1..Len(bundle.exchanges) :
              /\ IsLoaded(exchanges[q], requests[q], e)
              /\ wpc = "done" => R!IsWhole(requests[q])
         /\ \A e \in 1..Len(bundle.exchanges) : \E q \in 1..Len(exchanges) :
              /\ IsLoaded(exchanges[q], requests[q], e)
              /\ wpc = "done" => R!IsWhole(requests[q])
         /\ \A e \in 1..Len(bundle.exchanges) : ~IsBadUrl(bundle.exchanges[e].url)
<1>1. /\ IsList(exchanges) /\ Len(exchanges) = Len(requests)
      /\ \A q \in 1..Len(requests) : \E e \in 1..Len(index) : IsRequest(requests[q], e)
      /\ \A q \in 1..Len(exchanges) : \A e \in 1..Len(index) :
           IsRequest(requests[q], e) => IsLoaded(exchanges[q], requests[q], e)
  BY DEF Reading, LoadInv, OutcomeInv, RequestsInv
<1>2. DOMAIN exchanges = 1..Len(exchanges)
  BY <1>1, ListLength
<1>3. /\ Finalized /\ IndexInv /\ Len(index) = Len(bundle.exchanges)
      /\ DOMAIN bundle.exchanges = 1..Len(bundle.exchanges)
  BY GoodExchanges DEF Offered, Finalized
<1>4. \A q \in 1..Len(requests), e \in 1..Len(index) :
        IsRequest(requests[q], e) => (wpc = "done" => R!IsWhole(requests[q]))
  BY SliceOfResponse
<1>5. Requested(UrlCount)
  <2>1. current = Number + 1
    BY DEF Reading, ProgressInv
  <2>2. Number \in Nat /\ Number >= 2
    BY <1>3, Places
  <2>3. current > 1
    BY <2>1, <2>2
  <2>4. QED
    BY <2>3 DEF Reading, ProgressInv
<1>6. \A e \in 1..Len(index) : \E i \in 1..UrlCount : UrlList(index)[i] = index[e].url
  <2>1. IsList(index)
    BY <1>3 DEF IndexInv
  <2>2. QED
    BY <2>1, UrlsListed DEF UrlCount, UrlList
<1>7. \A e \in 1..Len(index) :
        /\ ~IsBadUrl(index[e].url)
        /\ \E q \in 1..Len(requests) : IsRequest(requests[q], e)
  BY <1>5, <1>6 DEF Requested
<1>8. \A e \in 1..Len(index) : index[e].url = bundle.exchanges[e].url
  BY Located
<1>9. QED
  BY <1>1, <1>2, <1>3, <1>4, <1>7, <1>8

(* A bundle that has been written completely and is such that readers take *)
(* it is read back, whatever it holds, and no other one is read at all.    *)
THEOREM BundlesReadBack == Spec => []ReadsBack
<1>1. Inv => ReadsBack
  <2> SUFFICES ASSUME Inv, wpc = "done", ReadIsOver
               PROVE  IF IsReadable(bundle)
                      THEN /\ rpc = "ok"
                           /\ meta = MetaOf(bundle)
                           /\ Range(exchanges) = {WithoutVariants(e) : e \in Range(bundle.exchanges)}
                      ELSE rpc = "error"
    BY DEF ReadsBack
  <2>0. CASE rpc = "error" /\ Fresh /\ WriterIsOver /\ (wpc = "done" => ~UrlParses(bundle))
    BY <2>0 DEF IsReadable, UrlParses
  <2> SUFFICES ASSUME WriterIsOver /\ Reading
               PROVE  IF IsReadable(bundle)
                      THEN /\ rpc = "ok"
                           /\ meta = MetaOf(bundle)
                           /\ Range(exchanges) = {WithoutVariants(e) : e \in Range(bundle.exchanges)}
                      ELSE rpc = "error"
    BY <2>0 DEF Inv, ReaderInv, ReadIsOver
  <2>1. WriterIsOver /\ Reading /\ Offered
    BY OverIsOffered DEF Inv
  <2>2. rpc \in {"ok", "error"} /\ (rpc = "error" => ~IsReadable(bundle))
    BY <2>1 DEF Reading, OutcomeInv, ReadIsOver
  <2>3. CASE rpc = "error"
    BY <2>2, <2>3
  <2>4. CASE rpc = "ok"
    <3>1. /\ meta = MetaOf(bundle)
          /\ IsSectionUrl(bundle.manifestURL)
          /\ IF HasPrimaryURLFieldInHeader(bundle.version) THEN bundle.primaryURL # Unparsable
             ELSE IsSectionUrl(bundle.primaryURL)
      BY <2>1, <2>4, MetaIsRead
    <3>2. /\ DOMAIN exchanges = 1..Len(exchanges)
          /\ DOMAIN bundle.exchanges = 1..Len(bundle.exchanges)
          /\ \A q \in 1..Len(exchanges) : \E e \in 1..Len(bundle.exchanges) :
               /\ IsLoaded(exchanges[q], requests[q], e)
               /\ R!IsWhole(requests[q])
          /\ \A e \in 1..Len(bundle.exchanges) : \E q \in 1..Len(exchanges) :
               /\ IsLoaded(exchanges[q], requests[q], e)
               /\ R!IsWhole(requests[q])
          /\ \A e \in 1..Len(bundle.exchanges) : ~IsBadUrl(bundle.exchanges[e].url)
      BY <2>1, <2>4, ExchangesAreRead
    <3>3. \A q, e : IsLoaded(exchanges[q], requests[q], e) /\ R!IsWhole(requests[q]) =>
                      /\ bundle.exchanges[e].header # "odd"
                      /\ exchanges[q] = WithoutVariants(bundle.exchanges[e])
      BY DEF IsLoaded
    <3>4. \A q \in 1..Len(exchanges) : \E e \in 1..Len(bundle.exchanges) :
            exchanges[q] = WithoutVariants(bundle.exchanges[e])
      BY <3>2, <3>3
    <3>5. \A e \in 1..Len(bundle.exchanges) :
            /\ bundle.exchanges[e].header # "odd"
            /\ \E q \in 1..Len(exchanges) : exchanges[q] = WithoutVariants(bundle.exchanges[e])
      BY <3>2, <3>3
    <3>6. IsReadable(bundle)
      BY <3>1, <3>2, <3>5 DEF IsReadable
    <3>7. Range(exchanges) \subseteq {WithoutVariants(e) : e \in Range(bundle.exchanges)}
      BY <3>2, <3>4 DEF Range
    <3>8. {WithoutVariants(e) : e \in Range(bundle.exchanges)} \subseteq Range(exchanges)
      BY <3>2, <3>5 DEF Range
    <3>9. QED
      BY <2>4, <3>1, <3>6, <3>7, <3>8
  <2>5. QED
    BY <2>2, <2>3, <2>4
<1>2. QED
  BY <1>1, Invariance, PTL

(* However many of the octets are missing, nothing is read that is not of  *)
(* the bundle, and only what is not there is lost.                         *)
THEOREM TruncationIsHarmless == Spec => []TruncationLosesOnlyTheTail
<1>1. Inv => TruncationLosesOnlyTheTail
  <2> SUFFICES ASSUME Inv, rpc = "ok"
               PROVE  /\ meta = MetaOf(bundle)
                      /\ {x.url : x \in Range(exchanges)} = {e.url : e \in Range(bundle.exchanges)}
                      /\ \A i \in DOMAIN exchanges :
                           \E e \in Range(bundle.exchanges) :
                             IF R!IsWhole(requests[i])
                             THEN exchanges[i] = WithoutVariants(e)
                             ELSE IsTruncation(exchanges[i], e)
    BY DEF TruncationLosesOnlyTheTail
  <2>1. WriterIsOver /\ Reading /\ Offered
    <3>1. WriterIsOver /\ Reading
      BY DEF Inv, ReaderInv
    <3>2. QED
      BY <3>1, OverIsOffered DEF Inv
  <2>2. meta = MetaOf(bundle)
    BY <2>1, MetaIsRead
  <2>3. /\ DOMAIN exchanges = 1..Len(exchanges)
        /\ DOMAIN bundle.exchanges = 1..Len(bundle.exchanges)
        /\ \A q \in 1..Len(exchanges) : \E e \in 1..Len(bundle.exchanges) :
             IsLoaded(exchanges[q], requests[q], e)
        /\ \A e \in 1..Len(bundle.exchanges) : \E q \in 1..Len(exchanges) :
             IsLoaded(exchanges[q], requests[q], e)
    BY <2>1, ExchangesAreRead
  <2>4. \A q, e : IsLoaded(exchanges[q], requests[q], e) =>
                    exchanges[q].url = bundle.exchanges[e].url
    <3> SUFFICES ASSUME NEW q, NEW e, IsLoaded(exchanges[q], requests[q], e)
                 PROVE  exchanges[q].url = bundle.exchanges[e].url
      OBVIOUS
    <3>1. \/ exchanges[q] = WithoutVariants(bundle.exchanges[e])
          \/ IsTruncation(exchanges[q], bundle.exchanges[e])
      BY DEF IsLoaded
    <3>2. QED
      BY <3>1 DEF WithoutVariants, IsTruncation
  <2>5. \A q \in 1..Len(exchanges) : \E e \in 1..Len(bundle.exchanges) :
          exchanges[q].url = bundle.exchanges[e].url
    BY <2>3, <2>4
  <2>6. \A e \in 1..Len(bundle.exchanges) : \E q \in 1..Len(exchanges) :
          exchanges[q].url = bundle.exchanges[e].url
    BY <2>3, <2>4
  <2>7. {x.url : x \in Range(exchanges)} \subseteq {e.url : e \in Range(bundle.exchanges)}
    BY <2>3, <2>5 DEF Range
  <2>8. {e.url : e \in Range(bundle.exchanges)} \subseteq {x.url : x \in Range(exchanges)}
    BY <2>3, <2>6 DEF Range
  <2>9. ASSUME NEW i \in DOMAIN exchanges
        PROVE  \E e \in Range(bundle.exchanges) :
                 IF R!IsWhole(requests[i])
                 THEN exchanges[i] = WithoutVariants(e)
                 ELSE IsTruncation(exchanges[i], e)
    <3>1. PICK e \in 1..Len(bundle.exchanges) : IsLoaded(exchanges[i], requests[i], e)
      BY <2>3
    <3>2. bundle.exchanges[e] \in Range(bundle.exchanges)
      BY <2>3, <3>1 DEF Range
    <3>3. IF R!IsWhole(requests[i])
          THEN exchanges[i] = WithoutVariants(bundle.exchanges[e])
          ELSE IsTruncation(exchanges[i], bundle.exchanges[e])
      BY <3>1 DEF IsLoaded
    <3>4. QED
      BY <3>2, <3>3
  <2>10. QED
    BY <2>2, <2>7, <2>8, <2>9
<1>2. QED
  BY <1>1, Invariance, PTL

=============================================================================
