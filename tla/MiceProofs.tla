----------------------------- MODULE MiceProofs -----------------------------
(***************************************************************************)
(* Proofs about the MICE decoder, for every payload, every stream, every   *)
(* record size and any number of faults of the underlying reader.          *)
(***************************************************************************)
EXTENDS MiceDecoder, InductionProofs, SequenceTheorems, TLAPS

-----------------------------------------------------------------------------
(* Lemmas about the format *)

(* The ideal digest identifies the string it was computed from. *)
LEMMA HashInjective ==
  ASSUME NEW s, NEW t, Hash(s) = Hash(t)
  PROVE  s = t
<1>1. Hash(s)[1] = <<s, 1>> /\ Hash(t)[1] = <<t, 1>>
  BY FormatAssumption DEF Hash
<1>2. QED
  BY <1>1

(* A digest is HashSize symbols long, hence not empty. *)
LEMMA HashLength ==
  ASSUME NEW S, NEW s, Hash(s) \in Seq(S)
  PROVE  Len(Hash(s)) = HashSize /\ Hash(s) # <<>>
<1>1. DOMAIN Hash(s) = 1..HashSize
  BY DEF Hash
<1>2. QED
  BY <1>1, FormatAssumption, LenProperties, EmptySeq

(* Two strings that end in one flag octet each are equal only if the flags *)
(* are and what precedes them is.                                          *)
LEMMA FlagCancels ==
  ASSUME NEW S, NEW s \in Seq(S), NEW t \in Seq(S),
         NEW x \in S, NEW y \in S, s \o <<x>> = t \o <<y>>
  PROVE  s = t /\ x = y
<1>1. /\ Len(s \o <<x>>) = Len(s) + 1
      /\ Len(t \o <<y>>) = Len(t) + 1
      /\ (s \o <<x>>)[Len(s) + 1] = x
      /\ (t \o <<y>>)[Len(t) + 1] = y
      /\ \A i \in 1..Len(s) : (s \o <<x>>)[i] = s[i]
      /\ \A i \in 1..Len(t) : (t \o <<y>>)[i] = t[i]
  OBVIOUS
<1>2. Len(s) = Len(t)
  BY <1>1, LenProperties
<1>3. x = y
  BY <1>1, <1>2
<1>4. s = t
  BY <1>1, <1>2, SeqEqual
<1>5. QED
  BY <1>3, <1>4

(* There is a record, all the records before the last are full, and the    *)
(* last one ends where the payload does.                                   *)
LEMMA RecordBounds ==
  ASSUME NEW c \in Seq(Symbol)
  PROVE  /\ NumRecords(c) \in Nat \ {0}
         /\ \A i \in 1..NumRecords(c) :
              /\ Offset(i) \in 0..Len(c)
              /\ i # NumRecords(c) => /\ Offset(i) + RecordSize = Offset(i + 1)
                                      /\ Offset(i + 1) <= Len(c)
<1> DEFINE L == Len(c)
           N == (L + RecordSize - 1) \div RecordSize
<1>1. L \in Nat /\ RecordSize \in Nat /\ RecordSize >= 1
  BY FormatAssumption, LenProperties
<1>2. CASE c = <<>>
  <2>1. NumRecords(c) = 1 /\ L = 0
    BY <1>2 DEF NumRecords
  <2>2. QED
    BY <2>1, <1>1 DEF Offset
<1>3. CASE c # <<>>
  <2>1. NumRecords(c) = N /\ L >= 1
    BY <1>3, <1>1, EmptySeq DEF NumRecords
  <2>2. /\ N \in Int
        /\ N * RecordSize <= L + RecordSize - 1
        /\ L + RecordSize - 1 < (N + 1) * RecordSize
    BY <1>1, Z3
  <2>3. N >= 1
    BY <1>1, <2>1, <2>2, Z3
  <2>4. ASSUME NEW i \in 1..N
        PROVE  Offset(i) \in 0..L
    <3>1. /\ (i - 1) * RecordSize <= (N - 1) * RecordSize
          /\ (i - 1) * RecordSize \in Nat
      BY <1>1, <2>2, <2>3, Z3
    <3>2. (N - 1) * RecordSize <= L - 1
      BY <1>1, <2>2, Z3
    <3>3. QED
      BY <3>1, <3>2, <1>1, <2>2 DEF Offset
  <2>5. ASSUME NEW i \in 1..N, i # N
        PROVE  Offset(i) + RecordSize = Offset(i + 1) /\ Offset(i + 1) <= L
    <3>1. Offset(i) + RecordSize = Offset(i + 1)
      BY <1>1, <2>2 DEF Offset
    <3>2. i + 1 \in 1..N
      BY <2>2, <2>5
    <3>3. QED
      BY <3>1, <3>2, <2>4, <1>1
  <2>6. QED
    BY <2>1, <2>2, <2>3, <2>4, <2>5
<1>4. QED
  BY <1>2, <1>3

(* A record is a string of the payload's symbols; only the last one may be *)
(* shorter than RecordSize; and the payload is its records end to end.     *)
LEMMA RecordProperties ==
  ASSUME NEW c \in Seq(Symbol), NEW i \in 1..NumRecords(c)
  PROVE  /\ Record(c, i) \in Seq(Symbol)
         /\ i # NumRecords(c) =>
              /\ Len(Record(c, i)) = RecordSize
              /\ SubSeq(c, 1, Offset(i)) \o Record(c, i) = SubSeq(c, 1, Offset(i + 1))
         /\ i = NumRecords(c) => SubSeq(c, 1, Offset(i)) \o Record(c, i) = c
<1> DEFINE o == Offset(i)
           last == IF i = NumRecords(c) THEN Len(c) ELSE o + RecordSize
<1>1. /\ o \in 0..Len(c)
      /\ RecordSize \in Nat
      /\ Len(c) \in Nat
      /\ i # NumRecords(c) => last = Offset(i + 1)
      /\ o <= last
      /\ last \in 0..Len(c)
  BY RecordBounds, FormatAssumption, LenProperties
<1>2. Record(c, i) = SubSeq(c, o + 1, last)
  BY DEF Record
<1>3. /\ Record(c, i) \in Seq(Symbol)
      /\ Len(Record(c, i)) = last - o
  <2>1. \A j \in (o + 1)..last : c[j] \in Symbol
    BY <1>1, ElementOfSeq
  <2>2. QED
    BY <1>1, <1>2, <2>1, SubSeqProperties
<1>4. SubSeq(c, 1, o) \o SubSeq(c, o + 1, last) = SubSeq(c, 1, last)
  <2>1. /\ 1 \in 1..(Len(c) + 1)
        /\ o \in (1 - 1)..Len(c)
        /\ last \in o..Len(c)
    BY <1>1
  <2>2. HIDE DEF o, last
  <2>3. QED
    BY <2>1, ConcatAdjacentSubSeq
<1>5. SubSeq(c, 1, Len(c)) = c
  BY SubSeqFull
<1>6. CASE i = NumRecords(c)
  <2>1. last = Len(c)
    BY <1>6
  <2>2. QED
    BY <1>2, <1>3, <1>4, <1>5, <1>6, <2>1
<1>7. CASE i # NumRecords(c)
  <2>1. last = Offset(i + 1) /\ last = o + RecordSize
    BY <1>1, <1>7
  <2>2. last - o = RecordSize
    BY <1>1, <2>1
  <2>3. HIDE DEF o, last
  <2>4. QED
    BY <1>2, <1>3, <1>4, <1>7, <2>1, <2>2 DEF o
<1>8. QED
  BY <1>6, <1>7

(* The proofs of the last k + 1 records exist, whatever k is: the recursion*)
(* of ProofChain goes from the last record to the first.                   *)
IsChain(f, c, first) ==
  f = [i \in first..NumRecords(c) |->
         IF i = NumRecords(c)
         THEN Hash(Record(c, i) \o <<Zero>>)
         ELSE Hash(Record(c, i) \o f[i + 1] \o <<One>>)]

LEMMA ChainGrows ==
  ASSUME NEW c, NumRecords(c) \in Nat, NEW first \in Int, first < NumRecords(c),
         NEW f, IsChain(f, c, first + 1)
  PROVE  \E g : IsChain(g, c, first)
<1> DEFINE n == NumRecords(c)
           AtEnd(i) == Hash(Record(c, i) \o <<Zero>>)
           Inner(i, p) == Hash(Record(c, i) \o p \o <<One>>)
           g == [i \in first..n |-> IF i = first THEN Inner(i, f[i + 1]) ELSE f[i]]
<1>1. f = [i \in (first + 1)..n |-> IF i = n THEN AtEnd(i) ELSE Inner(i, f[i + 1])]
  BY DEF IsChain
<1>2. n \in Nat /\ first < n
  OBVIOUS
<1> HIDE DEF n, AtEnd, Inner
<1>3. ASSUME NEW i \in first..n
      PROVE  g[i] = IF i = n THEN AtEnd(i) ELSE Inner(i, g[i + 1])
  <2>1. CASE i = first
    <3>1. i # n /\ i + 1 \in first..n /\ i + 1 # first
      BY <1>2, <2>1
    <3>2. g[i + 1] = f[i + 1]
      BY <3>1
    <3>3. g[i] = Inner(i, f[i + 1])
      BY <2>1
    <3> HIDE DEF g
    <3>4. QED
      BY <3>1, <3>2, <3>3
  <2>2. CASE i # first
    <3>1. i \in (first + 1)..n
      BY <1>2, <2>2
    <3>2. g[i] = f[i] /\ f[i] = IF i = n THEN AtEnd(i) ELSE Inner(i, f[i + 1])
      BY <1>1, <2>2, <3>1
    <3>3. i # n => g[i + 1] = f[i + 1]
      <4>1. i # n => i + 1 \in first..n /\ i + 1 # first
        BY <1>2, <3>1
      <4>2. QED
        BY <4>1
    <3> HIDE DEF g
    <3>4. QED
      BY <3>2, <3>3
  <2>3. QED
    BY <2>1, <2>2
<1>4. g = [i \in first..n |-> IF i = n THEN AtEnd(i) ELSE Inner(i, g[i + 1])]
  BY <1>3
<1> HIDE DEF g
<1>5. IsChain(g, c, first)
  BY <1>4 DEF IsChain, n, AtEnd, Inner
<1>6. QED
  BY <1>5

(* What ProofChain's recursion defines: the proof of a record, from that   *)
(* of the next one.                                                        *)
LEMMA ProofChainUnfolds ==
  ASSUME NEW c \in Seq(Symbol)
  PROVE  \A i \in 1..NumRecords(c) :
           ProofChain(c)[i] = IF i = NumRecords(c)
                              THEN Hash(Record(c, i) \o <<Zero>>)
                              ELSE Hash(Record(c, i) \o ProofChain(c)[i + 1] \o <<One>>)
<1> DEFINE n == NumRecords(c)
           K == {k \in Nat : k < n => \E f : IsChain(f, c, n - k)}
<1>1. n \in Nat /\ n >= 1
  BY RecordBounds
<1>2. 0 \in K
  <2>1. IsChain([i \in n..n |-> Hash(Record(c, i) \o <<Zero>>)], c, n)
    BY <1>1 DEF IsChain
  <2>2. n - 0 = n
    BY <1>1
  <2>3. QED
    BY <2>1, <2>2
<1>3. ASSUME NEW k \in Nat, k \in K
      PROVE  k + 1 \in K
  <2> SUFFICES ASSUME k + 1 < n
               PROVE  \E f : IsChain(f, c, n - (k + 1))
    OBVIOUS
  <2>1. PICK f : IsChain(f, c, n - k)
    BY <1>1, <1>3
  <2>2. n - k = (n - (k + 1)) + 1 /\ n - (k + 1) \in Int /\ n - (k + 1) < n
    BY <1>1
  <2>3. QED
    BY <1>1, <2>1, <2>2, ChainGrows
<1>4. n - 1 \in K
  <2> HIDE DEF K
  <2>1. Nat \subseteq K
    BY <1>2, <1>3, InductionOnSets
  <2>2. QED
    BY <1>1, <2>1
<1>5. \E f : IsChain(f, c, 1)
  <2>1. n - (n - 1) = 1 /\ n - 1 < n
    BY <1>1
  <2>2. QED
    BY <1>4, <2>1
<1>6. ProofChain(c) = CHOOSE f : IsChain(f, c, 1)
  BY DEF ProofChain, IsChain
<1>7. IsChain(ProofChain(c), c, 1)
  BY <1>5, <1>6
<1>8. QED
  BY <1>7 DEF IsChain

(* If a string is accepted as the last record against the proof of record  *)
(* k, then k is the last record and the string is that record.             *)
LEMMA LastRecordAuthentic ==
  ASSUME NEW c \in Contents, NEW k \in 1..NumRecords(c), NEW r \in Seq(Symbol),
         ValidateRecord(r, ProofChain(c)[k], TRUE)
  PROVE  k = NumRecords(c) /\ r = Record(c, k)
<1> DEFINE S == Symbol \union {Zero, One}
<1>1. Hash(r \o <<Zero>>) = ProofChain(c)[k]
  BY DEF ValidateRecord
<1>2. /\ c \in Seq(Symbol)
      /\ Record(c, k) \in Seq(S)
      /\ r \in Seq(S)
  BY DecoderAssumption, RecordProperties, SeqMonotonic
<1>3. CASE k = NumRecords(c)
  <2>1. ProofChain(c)[k] = Hash(Record(c, k) \o <<Zero>>)
    BY <1>3, DecoderAssumption, ProofChainUnfolds
  <2>2. r \o <<Zero>> = Record(c, k) \o <<Zero>>
    BY <1>1, <2>1, HashInjective
  <2>3. QED
    BY <1>2, <1>3, <2>2, FlagCancels
<1>4. CASE k # NumRecords(c)
  <2>1. ProofChain(c)[k] = Hash((Record(c, k) \o ProofChain(c)[k + 1]) \o <<One>>)
    BY <1>4, DecoderAssumption, ProofChainUnfolds
  <2>2. r \o <<Zero>> = (Record(c, k) \o ProofChain(c)[k + 1]) \o <<One>>
    BY <1>1, <2>1, HashInjective
  <2>3. NumRecords(c) \in Nat
    BY <1>2, RecordBounds
  <2>4. ProofChain(c)[k + 1] \in Seq(S)
    BY <1>4, <2>3, DecoderAssumption, SeqMonotonic
  <2>5. Record(c, k) \o ProofChain(c)[k + 1] \in Seq(S)
    BY <1>2, <2>4, ConcatProperties
  <2>6. Zero = One
    BY <1>2, <2>2, <2>5, FlagCancels
  <2>7. QED
    BY <2>6, FormatAssumption
<1>5. QED
  BY <1>3, <1>4

(* buf is record k of c, and the proof of the next one. *)
IsFullRecord(buf, size, c, k) ==
  /\ k # NumRecords(c)
  /\ k + 1 \in 1..NumRecords(c)
  /\ size = RecordSize
  /\ SubSeq(buf, 1, size) = Record(c, k)
  /\ SubSeq(buf, size + 1, size + HashSize) = ProofChain(c)[k + 1]

(* If a string of size + HashSize octets is accepted as an inner record    *)
(* against the proof of record k, then k is not the last record, size is   *)
(* the encoder's record size, and the string is record k followed by the   *)
(* proof of record k + 1.                                                  *)
LEMMA FullRecordAuthentic ==
  ASSUME NEW c \in Contents, NEW k \in 1..NumRecords(c), NEW buf \in Seq(Symbol),
         NEW size \in Nat, Len(buf) = size + HashSize,
         ValidateRecord(buf, ProofChain(c)[k], FALSE)
  PROVE  IsFullRecord(buf, size, c, k)
<1> SUFFICES /\ k # NumRecords(c)
             /\ k + 1 \in 1..NumRecords(c)
             /\ size = RecordSize
             /\ SubSeq(buf, 1, size) = Record(c, k)
             /\ SubSeq(buf, size + 1, size + HashSize) = ProofChain(c)[k + 1]
  BY DEF IsFullRecord
<1> DEFINE S == Symbol \union {Zero, One}
           next == ProofChain(c)[k + 1]
<1>1. Hash(buf \o <<One>>) = ProofChain(c)[k]
  BY DEF ValidateRecord
<1>2. /\ c \in Seq(Symbol)
      /\ Record(c, k) \in Seq(Symbol)
      /\ Record(c, k) \in Seq(S)
      /\ buf \in Seq(S)
      /\ NumRecords(c) \in Nat
  BY DecoderAssumption, RecordProperties, RecordBounds, SeqMonotonic
<1>3. k # NumRecords(c)
  <2>1. SUFFICES ASSUME k = NumRecords(c) PROVE FALSE
    OBVIOUS
  <2>2. buf \o <<One>> = Record(c, k) \o <<Zero>>
    BY <1>1, <2>1, DecoderAssumption, ProofChainUnfolds, HashInjective
  <2>3. Zero = One
    BY <1>2, <2>2, FlagCancels
  <2>4. QED
    BY <2>3, FormatAssumption
<1>4. k + 1 \in 1..NumRecords(c)
  BY <1>2, <1>3
<1>5. /\ next \in Seq(Symbol)
      /\ next \in Seq(S)
      /\ \E s : next = Hash(s)
  BY <1>4, DecoderAssumption, ProofChainUnfolds, SeqMonotonic
<1>6. Len(next) = HashSize
  BY <1>5, HashLength
<1>7. buf = Record(c, k) \o next
  <2>1. ProofChain(c)[k] = Hash((Record(c, k) \o next) \o <<One>>)
    BY <1>3, DecoderAssumption, ProofChainUnfolds
  <2>2. buf \o <<One>> = (Record(c, k) \o next) \o <<One>>
    BY <1>1, <2>1, HashInjective
  <2>3. Record(c, k) \o next \in Seq(S)
    BY <1>2, <1>5, ConcatProperties
  <2>4. One \in S /\ buf \in Seq(S)
    BY <1>2
  <2>5. HIDE DEF S, next
  <2>6. QED
    BY <2>2, <2>3, <2>4, FlagCancels, SMTT(30)
<1>8. Len(Record(c, k)) = RecordSize
  BY <1>2, <1>3, RecordProperties
<1>9. size = RecordSize
  BY <1>2, <1>5, <1>6, <1>7, <1>8, ConcatProperties, FormatAssumption
<1>10. /\ SubSeq(Record(c, k) \o next, 1, Len(Record(c, k))) = Record(c, k)
       /\ SubSeq(Record(c, k) \o next, Len(Record(c, k)) + 1,
                 Len(Record(c, k)) + Len(next)) = next
  BY <1>2, <1>5, SubSeqOfConcat1, SubSeqOfConcat2, SubSeqFull, LenProperties
<1>11. QED
  BY <1>3, <1>4, <1>6, <1>7, <1>8, <1>9, <1>10

-----------------------------------------------------------------------------
(* The inductive invariant *)

(* The caller holds, or will be handed, exactly the records before record  *)
(* k, and the decoder waits for record k.                                  *)
AtRecord(k) ==
  /\ nextProof = ProofChain(content)[k]
  /\ delivered \o out = SubSeq(content, 1, Offset(k))

Position ==
  IF phase = "open"
  THEN \/ nextProof = <<>> /\ delivered \o out = content
       \/ nextProof # <<>> /\ \E k \in 1..NumRecords(content) : AtRecord(k)
  ELSE delivered = <<>> /\ out = <<>>

(* Once the decoder has reported the end it has nothing more to hand over. *)
NothingLeft == err = "EOF" => phase = "open" /\ out = <<>> /\ nextProof = <<>>

IInv == TypeOK /\ Position /\ NothingLeft

(* Handing over part of the pending octets loses and reorders none.        *)
LEMMA DeliverKeepsOrder ==
  ASSUME TypeOK, NEW o \in Seq(Symbol), NEW dst \in 0..MaxDst, Deliver(o, dst)
  PROVE  /\ out' \in Seq(Symbol)
         /\ delivered' \in Seq(Symbol)
         /\ delivered' \o out' = delivered \o o
         /\ err' = "nil"
<1> DEFINE n == IF dst < Len(o) THEN dst ELSE Len(o)
<1>1. n \in 0..Len(o) /\ Len(o) \in Nat
  BY DecoderAssumption, LenProperties
<1>2. /\ delivered' = delivered \o SubSeq(o, 1, n)
      /\ out' = SubSeq(o, n + 1, Len(o))
      /\ err' = "nil"
  BY DEF Deliver
<1> HIDE DEF n
<1>3. SubSeq(o, 1, n) \in Seq(Symbol) /\ SubSeq(o, n + 1, Len(o)) \in Seq(Symbol)
  <2>1. \A j \in 1..Len(o) : o[j] \in Symbol
    BY ElementOfSeq
  <2>2. /\ \A j \in 1..n : o[j] \in Symbol
        /\ \A j \in (n + 1)..Len(o) : o[j] \in Symbol
    BY <1>1, <2>1
  <2>3. QED
    BY <1>1, <2>2, SubSeqProperties
<1>4. delivered \in Seq(Symbol)
  BY DEF TypeOK
<1>5. SubSeq(o, 1, n) \o SubSeq(o, n + 1, Len(o)) = o
  <2>1. 1 \in 1..(Len(o) + 1) /\ n \in (1 - 1)..Len(o) /\ Len(o) \in n..Len(o)
    BY <1>1
  <2>2. SubSeq(o, 1, n) \o SubSeq(o, n + 1, Len(o)) = SubSeq(o, 1, Len(o))
    BY <2>1, ConcatAdjacentSubSeq
  <2>3. QED
    BY <2>2, SubSeqFull
<1>6. delivered' \o out' = delivered \o (SubSeq(o, 1, n) \o SubSeq(o, n + 1, Len(o)))
  <2> DEFINE u == SubSeq(o, 1, n)
             v == SubSeq(o, n + 1, Len(o))
  <2>1. u \in Seq(Symbol) /\ v \in Seq(Symbol) /\ delivered' = delivered \o u /\ out' = v
    BY <1>2, <1>3
  <2> HIDE DEF u, v
  <2>2. (delivered \o u) \o v = delivered \o (u \o v)
    <3>1. delivered \in Seq(Symbol) /\ u \in Seq(Symbol) /\ v \in Seq(Symbol)
      BY <1>4, <2>1
    <3>2. QED
      BY <3>1, ConcatAssociative, SMTT(30)
  <2>3. delivered' \o out' = (delivered \o u) \o v
    BY <2>1
  <2>4. QED
    BY <2>2, <2>3 DEF u, v
<1>7. QED
  BY <1>2, <1>3, <1>4, <1>5, <1>6, ConcatProperties

LEMMA InitEstablishesIInv == Init => IInv
<1>1. Init => TypeOK
  BY DecoderAssumption, EmptySeq DEF Init, TypeOK, Errors, Drafts
<1>2. QED
  BY <1>1 DEF Init, IInv, Position, NothingLeft

(* What the underlying reader has left is a string of symbols. *)
LEMMA ConsumeType ==
  ASSUME TypeOK, NEW n \in Nat, n <= Len(rest), Consume(n)
  PROVE  rest' \in Seq(Symbol)
<1>1. rest \in Seq(Symbol) /\ Len(rest) \in Nat
  BY LenProperties DEF TypeOK
<1>2. \A j \in (n + 1)..Len(rest) : rest[j] \in Symbol
  BY <1>1, ElementOfSeq
<1>3. QED
  BY <1>1, <1>2, SubSeqProperties DEF Consume

(* A record the caller waits for: what is accepted as the last record      *)
(* completes the payload.                                                  *)
LEMMA LastRecordStep ==
  ASSUME IInv, phase = "open", out = <<>>, nextProof # <<>>,
         NEW r \in Seq(Symbol), ValidateRecord(r, nextProof, TRUE)
  PROVE  delivered \o r = content
<1>1. PICK k \in 1..NumRecords(content) : AtRecord(k)
  BY DEF IInv, Position
<1>2. content \in Contents /\ content \in Seq(Symbol) /\ delivered \in Seq(Symbol)
  BY DecoderAssumption DEF IInv, TypeOK
<1>3. k = NumRecords(content) /\ r = Record(content, k)
  BY <1>1, <1>2, LastRecordAuthentic DEF AtRecord
<1>4. delivered = SubSeq(content, 1, Offset(k))
  BY <1>1, <1>2, ConcatEmptySeq DEF AtRecord
<1>5. QED
  BY <1>2, <1>3, <1>4, RecordProperties

(* What is accepted as an inner record is the record the caller waits for, *)
(* and the next proof is the one the encoder chained to it.                *)
LEMMA FullRecordStep ==
  ASSUME IInv, phase = "open", out = <<>>, nextProof # <<>>,
         NEW buf \in Seq(Symbol), Len(buf) = BufferSize,
         ValidateRecord(buf, nextProof, FALSE)
  PROVE  /\ SubSeq(buf, 1, recordSize) \in Seq(Symbol)
         /\ SubSeq(buf, recordSize + 1, BufferSize) \in Seq(Symbol)
         /\ Len(SubSeq(buf, recordSize + 1, BufferSize)) = HashSize
         /\ \E k \in 1..NumRecords(content) :
              /\ SubSeq(buf, recordSize + 1, BufferSize) = ProofChain(content)[k]
              /\ delivered \o SubSeq(buf, 1, recordSize) = SubSeq(content, 1, Offset(k))
<1>1. PICK k \in 1..NumRecords(content) : AtRecord(k)
  BY DEF IInv, Position
<1>2. /\ content \in Contents
      /\ content \in Seq(Symbol)
      /\ delivered \in Seq(Symbol)
      /\ recordSize \in Nat
  BY DecoderAssumption DEF IInv, TypeOK
<1>3. /\ k # NumRecords(content)
      /\ k + 1 \in 1..NumRecords(content)
      /\ SubSeq(buf, 1, recordSize) = Record(content, k)
      /\ SubSeq(buf, recordSize + 1, BufferSize) = ProofChain(content)[k + 1]
  <2>1. BufferSize = recordSize + HashSize /\ Len(buf) = recordSize + HashSize
    BY DEF BufferSize
  <2>2. ValidateRecord(buf, ProofChain(content)[k], FALSE)
    BY <1>1, Zenon DEF AtRecord
  <2>3. QED
    <3>1. IsFullRecord(buf, recordSize, content, k)
      BY <1>2, <2>1, <2>2, FullRecordAuthentic
    <3>2. QED
      BY <2>1, <3>1 DEF IsFullRecord
<1>4. delivered = SubSeq(content, 1, Offset(k))
  BY <1>1, <1>2, ConcatEmptySeq DEF AtRecord
<1>5. delivered \o Record(content, k) = SubSeq(content, 1, Offset(k + 1))
  BY <1>2, <1>3, <1>4, RecordProperties
<1>6. /\ Record(content, k) \in Seq(Symbol)
      /\ ProofChain(content)[k + 1] \in Seq(Symbol)
      /\ \E s : ProofChain(content)[k + 1] = Hash(s)
  <2>1. Record(content, k) \in Seq(Symbol)
    BY <1>2, RecordProperties
  <2>2. ProofChain(content)[k + 1] \in Seq(Symbol)
    BY <1>2, <1>3, DecoderAssumption
  <2>3. \E s : ProofChain(content)[k + 1] = Hash(s)
    BY <1>2, <1>3, ProofChainUnfolds
  <2>4. QED
    BY <2>1, <2>2, <2>3
<1>7. Len(ProofChain(content)[k + 1]) = HashSize
  BY <1>6, HashLength
<1>8. QED
  BY <1>3, <1>5, <1>6, <1>7

LEMMA FirstProof ==
  ASSUME NEW c \in Contents
  PROVE  /\ 1 \in 1..NumRecords(c)
         /\ TopLevelProof(c) = ProofChain(c)[1]
         /\ TopLevelProof(c) \in Seq(Symbol)
         /\ TopLevelProof(c) # <<>>
         /\ Len(TopLevelProof(c)) = HashSize
         /\ SubSeq(c, 1, Offset(1)) = <<>>
<1>1. c \in Seq(Symbol)
  BY DecoderAssumption
<1>2. 1 \in 1..NumRecords(c)
  BY <1>1, RecordBounds
<1>3. /\ ProofChain(c)[1] \in Seq(Symbol)
      /\ \E s : ProofChain(c)[1] = Hash(s)
  BY <1>2, DecoderAssumption, ProofChainUnfolds
<1>4. ProofChain(c)[1] # <<>> /\ Len(ProofChain(c)[1]) = HashSize
  BY <1>3, HashLength
<1>5. Offset(1) = 0
  BY FormatAssumption DEF Offset
<1>6. SubSeq(c, 1, 0) = <<>>
  BY <1>1, SubSeqEmpty
<1>7. QED
  BY <1>2, <1>3, <1>4, <1>5, <1>6 DEF TopLevelProof

LEMMA NewDecoderKeepsIInv ==
  ASSUME IInv, NEW parsed \in BOOLEAN, NewDecoder(parsed)
  PROVE  IInv'
<1>1. /\ content \in Contents
      /\ content \in Seq(Symbol)
      /\ input \in InputType
      /\ delivered = <<>>
      /\ out = <<>>
      /\ delivered \o out = <<>>
  BY DecoderAssumption, EmptySeq, ConcatEmptySeq DEF IInv, TypeOK, Position, NewDecoder
<1>2. ASSUME NEW e \in Errors, e # "EOF", Refuse(e)
      PROVE  IInv'
  BY <1>2 DEF IInv, TypeOK, Position, NothingLeft, NewDecoder, Refuse
<1>3. CASE parsed /\ input.header = "none" /\ draft # "draft02"
           /\ ValidateRecord(<<>>, TopLevelProof(content), TRUE) /\ Open(0, <<>>)
  <2>1. <<>> \in Seq(Symbol)
    BY EmptySeq
  <2>2. 1 = NumRecords(content) /\ <<>> = Record(content, 1)
    BY <1>1, <1>3, <2>1, FirstProof, LastRecordAuthentic
  <2>3. SubSeq(content, 1, Offset(1)) \o Record(content, 1) = content
    BY <1>1, <2>2, FirstProof, RecordProperties
  <2>4. content = <<>>
    BY <1>1, <2>2, <2>3, FirstProof
  <2>5. TypeOK'
    BY <1>1, <1>3, <2>1, EmptySeq DEF IInv, TypeOK, NewDecoder, Open, InputType, Errors
  <2>6. QED
    BY <1>1, <1>3, <2>4, <2>5 DEF IInv, Position, NothingLeft, NewDecoder, Open
<1>4. CASE parsed /\ input.header = "full" /\ Open(input.size, TopLevelProof(content))
  <2>1. TypeOK'
    BY <1>1, <1>4, FirstProof DEF IInv, TypeOK, NewDecoder, Open, InputType, Errors
  <2>2. AtRecord(1)'
    BY <1>1, <1>4, FirstProof DEF AtRecord, NewDecoder, Open
  <2>3. QED
    BY <1>1, <1>4, <2>1, <2>2, FirstProof
       DEF IInv, Position, NothingLeft, NewDecoder, Open
<1>5. QED
  BY <1>2, <1>3, <1>4 DEF NewDecoder, Errors

(* One conjunct per outcome of io.ReadFull. *)
LEMMA ReadNextRecordKeepsIInv ==
  ASSUME IInv, phase = "open", out = <<>>, nextProof # <<>>,
         NEW dst \in 0..MaxDst, ReadNextRecord(dst),
         UNCHANGED <<draft, content, input, phase, recordSize>>
  PROVE  IInv'
<1>1. /\ TypeOK
      /\ content \in Seq(Symbol)
      /\ rest \in Seq(Symbol)
      /\ Len(rest) \in Nat
      /\ recordSize \in Nat
      /\ HashSize \in Nat \ {0}
      /\ BufferSize \in Nat
      /\ BufferSize = recordSize + HashSize
      /\ delivered \in Seq(Symbol)
      /\ delivered \o out = delivered
  BY DecoderAssumption, FormatAssumption, LenProperties, ConcatEmptySeq
     DEF IInv, TypeOK, BufferSize
<1>2. ASSUME NEW e \in Errors, e # "EOF", Fail(e), rest' \in Seq(Symbol),
             faults' \in 0..MaxFaults
      PROVE  IInv'
  <2>1. TypeOK'
    BY <1>1, <1>2 DEF TypeOK, Fail
  <2>2. Position'
    BY <1>2 DEF IInv, Position, AtRecord, Fail
  <2>3. QED
    BY <1>2, <2>1, <2>2 DEF IInv, NothingLeft, Fail
<1>3. ASSUME NEW n \in Nat, n <= Len(rest), LastRecord(n, dst), Consume(n),
             faults' \in 0..MaxFaults
      PROVE  IInv'
  <2> DEFINE r == SubSeq(rest, 1, n)
  <2>1. rest' \in Seq(Symbol)
    BY <1>1, <1>3, ConsumeType
  <2>2. r \in Seq(Symbol)
    <3>1. \A j \in 1..n : rest[j] \in Symbol
      BY <1>1, <1>3, ElementOfSeq
    <3>2. QED
      BY <3>1, SubSeqProperties
  <2>3. CASE Fail("midHash") \/ Fail("validation")
    BY <1>2, <1>3, <2>1, <2>3 DEF Errors
  <2>4. CASE ValidateRecord(r, nextProof, TRUE) /\ nextProof' = <<>> /\ Deliver(r, dst)
    <3> HIDE DEF r
    <3>1. delivered \o r = content
      BY <2>2, <2>4, LastRecordStep
    <3>2. /\ out' \in Seq(Symbol)
          /\ delivered' \in Seq(Symbol)
          /\ delivered' \o out' = delivered \o r
          /\ err' = "nil"
      BY <1>1, <2>2, <2>4, DeliverKeepsOrder
    <3>3. TypeOK'
      BY <1>1, <1>3, <2>1, <2>4, <3>2, EmptySeq DEF TypeOK, Errors
    <3>4. QED
      BY <2>4, <3>1, <3>2, <3>3 DEF IInv, Position, NothingLeft
  <2>5. QED
    BY <1>3, <2>3, <2>4 DEF LastRecord
<1>4. CASE Len(rest) >= BufferSize /\ FullRecord(dst) /\ Consume(BufferSize)
           /\ UNCHANGED faults
  <2> DEFINE buf == SubSeq(rest, 1, BufferSize)
             record == SubSeq(buf, 1, recordSize)
             proof == SubSeq(buf, recordSize + 1, BufferSize)
  <2>1. rest' \in Seq(Symbol) /\ faults' \in 0..MaxFaults
    BY <1>1, <1>4, ConsumeType DEF TypeOK
  <2>2. buf \in Seq(Symbol) /\ Len(buf) = BufferSize
    <3>1. \A j \in 1..BufferSize : rest[j] \in Symbol
      BY <1>1, <1>4, ElementOfSeq
    <3>2. BufferSize >= 1
      BY <1>1
    <3>3. QED
      BY <1>1, <3>1, <3>2, SubSeqProperties
  <2>3. CASE Fail("validation")
    BY <1>2, <2>1, <2>3 DEF Errors
  <2>4. CASE ValidateRecord(buf, nextProof, FALSE) /\ nextProof' = proof
             /\ Deliver(record, dst)
    <3> HIDE DEF buf
    <3>1. /\ record \in Seq(Symbol)
          /\ proof \in Seq(Symbol)
          /\ Len(proof) = HashSize
          /\ \E k \in 1..NumRecords(content) :
               /\ proof = ProofChain(content)[k]
               /\ delivered \o record = SubSeq(content, 1, Offset(k))
      BY <2>2, <2>4, FullRecordStep
    <3> HIDE DEF record, proof
    <3>2. /\ out' \in Seq(Symbol)
          /\ delivered' \in Seq(Symbol)
          /\ delivered' \o out' = delivered \o record
          /\ err' = "nil"
      BY <1>1, <2>4, <3>1, DeliverKeepsOrder
    <3>3. TypeOK'
      BY <1>1, <2>1, <2>4, <3>1, <3>2 DEF TypeOK, Errors
    <3>4. proof # <<>>
      BY <1>1, <3>1, EmptySeq
    <3>5. \E k \in 1..NumRecords(content') : AtRecord(k)'
      BY <2>4, <3>1, <3>2 DEF AtRecord
    <3>6. QED
      BY <2>4, <3>2, <3>3, <3>4, <3>5 DEF IInv, Position, NothingLeft
  <2>5. QED
    BY <1>4, <2>3, <2>4 DEF FullRecord
<1>5. CASE rest = <<>> /\ EmptyLastRecord /\ UNCHANGED <<rest, faults>>
  <2>1. rest' \in Seq(Symbol) /\ faults' \in 0..MaxFaults
    BY <1>1, <1>5 DEF TypeOK
  <2>2. CASE Fail("unexpectedEnd") \/ Fail("validation")
    BY <1>2, <2>1, <2>2 DEF Errors
  <2>3. CASE /\ ValidateRecord(<<>>, nextProof, TRUE)
             /\ nextProof' = <<>>
             /\ err' = "EOF"
             /\ UNCHANGED <<out, delivered>>
    <3>1. <<>> \in Seq(Symbol)
      BY EmptySeq
    <3>2. delivered \o <<>> = content
      BY <2>3, <3>1, LastRecordStep
    <3>3. TypeOK'
      BY <1>1, <2>1, <2>3, EmptySeq DEF TypeOK, Errors
    <3>4. QED
      BY <2>3, <3>2, <3>3 DEF IInv, Position, NothingLeft
  <2>4. QED
    BY <1>5, <2>2, <2>3 DEF EmptyLastRecord
<1>6. CASE /\ faults < MaxFaults
           /\ faults' = faults + 1
           /\ \E n \in 0..(BufferSize - 1) :
                /\ n <= Len(rest)
                /\ Fail("io") \/ LastRecord(n, dst)
                /\ Consume(n)
  <2>1. faults' \in 0..MaxFaults
    BY <1>1, <1>6, DecoderAssumption DEF TypeOK
  <2>2. PICK n \in 0..(BufferSize - 1) :
          n <= Len(rest) /\ (Fail("io") \/ LastRecord(n, dst)) /\ Consume(n)
    BY <1>6
  <2>3. n \in Nat /\ rest' \in Seq(Symbol)
    BY <1>1, <2>2, ConsumeType
  <2>4. QED
    BY <1>2, <1>3, <2>1, <2>2, <2>3 DEF Errors
<1>7. CASE /\ Len(rest) \in 1..(BufferSize - 1)
           /\ LastRecord(Len(rest), dst)
           /\ Consume(Len(rest))
           /\ UNCHANGED faults
  <2>1. faults' \in 0..MaxFaults
    BY <1>1, <1>7 DEF TypeOK
  <2>2. QED
    BY <1>1, <1>3, <1>7, <2>1
<1>8. QED
  BY <1>4, <1>5, <1>6, <1>7 DEF ReadNextRecord

LEMMA ReadKeepsIInv ==
  ASSUME IInv, NEW dst \in 0..MaxDst, Read(dst)
  PROVE  IInv'
<1>1. phase = "open" /\ UNCHANGED <<draft, content, input, phase, recordSize>>
  BY DEF Read
<1>2. CASE out # <<>> /\ Deliver(out, dst) /\ UNCHANGED <<nextProof, rest, faults>>
  <2>1. /\ out' \in Seq(Symbol)
        /\ delivered' \in Seq(Symbol)
        /\ delivered' \o out' = delivered \o out
        /\ err' = "nil"
    BY <1>2, DeliverKeepsOrder DEF IInv, TypeOK
  <2>2. TypeOK'
    BY <1>1, <1>2, <2>1 DEF IInv, TypeOK, Errors
  <2>3. Position'
    BY <1>1, <1>2, <2>1 DEF IInv, Position, AtRecord
  <2>4. QED
    BY <2>1, <2>2, <2>3 DEF IInv, NothingLeft
<1>3. CASE /\ out = <<>>
           /\ nextProof = <<>>
           /\ err' = "EOF"
           /\ UNCHANGED <<nextProof, out, delivered, rest, faults>>
  BY <1>1, <1>3 DEF IInv, TypeOK, Errors, Position, AtRecord, NothingLeft
<1>4. CASE out = <<>> /\ nextProof # <<>> /\ ReadNextRecord(dst)
  BY <1>1, <1>4, ReadNextRecordKeepsIInv
<1>5. QED
  BY <1>2, <1>3, <1>4 DEF Read

(* Every state of every behaviour satisfies the inductive invariant.       *)
THEOREM Invariance == Spec => []IInv
<1>1. Init => IInv
  BY InitEstablishesIInv
<1>2. IInv /\ [Next]_vars => IInv'
  <2> SUFFICES ASSUME IInv, [Next]_vars PROVE IInv'
    OBVIOUS
  <2>1. ASSUME NEW parsed \in BOOLEAN, NewDecoder(parsed) PROVE IInv'
    BY <2>1, NewDecoderKeepsIInv
  <2>2. ASSUME NEW dst \in 0..MaxDst, Read(dst) PROVE IInv'
    BY <2>2, ReadKeepsIInv
  <2>3. CASE UNCHANGED vars
    BY <2>3 DEF vars, IInv, TypeOK, Position, AtRecord, NothingLeft
  <2>4. QED
    BY <2>1, <2>2, <2>3 DEF Next
<1>3. QED
  BY <1>1, <1>2, PTL DEF Spec

(* The decoder struct and the caller's history keep their types: in        *)
(* particular nextProof is nil or a whole digest.                          *)
THEOREM TypeCorrectness == Spec => []TypeOK
<1>1. IInv => TypeOK
  BY DEF IInv
<1>2. QED
  BY <1>1, Invariance, PTL

(* Every octet that Read returns, or keeps for the next call, belongs to   *)
(* the payload whose digest the caller trusts, in its place, for every     *)
(* stream and every pattern of faults and retries.                         *)
THEOREM Authenticity == Spec => []OnlyAuthenticOctets
<1>1. ASSUME IInv PROVE OnlyAuthenticOctets
  <2>1. content \in Seq(Symbol) /\ content \in Contents
    BY <1>1, DecoderAssumption DEF IInv, TypeOK
  <2>2. \E n \in 0..Len(content) : delivered \o out = SubSeq(content, 1, n)
    <3>1. CASE delivered \o out = content
      BY <2>1, <3>1, SubSeqFull, LenProperties
    <3>2. ASSUME NEW k \in 1..NumRecords(content), AtRecord(k)
          PROVE  \E n \in 0..Len(content) : delivered \o out = SubSeq(content, 1, n)
      BY <2>1, <3>2, RecordBounds DEF AtRecord
    <3>3. CASE phase # "open"
      BY <1>1, <2>1, <3>3, SubSeqEmpty, LenProperties, ConcatEmptySeq, EmptySeq
         DEF IInv, Position
    <3>4. QED
      BY <1>1, <3>1, <3>2, <3>3 DEF IInv, Position
  <2>3. PICK n \in 0..Len(content) : delivered \o out = SubSeq(content, 1, n)
    BY <2>2
  <2>4. Len(SubSeq(content, 1, n)) = n
    BY <2>1, <2>3, SubSeqProperties, ElementOfSeq, LenProperties
  <2>5. QED
    BY <2>1, <2>3, <2>4 DEF OnlyAuthenticOctets, IsPrefix
<1>2. QED
  BY <1>1, Invariance, PTL

(* Read returns io.EOF only when the caller has the whole payload.         *)
THEOREM NoSilentTruncation == Spec => []EndMeansComplete
<1>1. ASSUME IInv PROVE EndMeansComplete
  BY <1>1, ConcatEmptySeq DEF IInv, TypeOK, Position, NothingLeft, EndMeansComplete
<1>2. QED
  BY <1>1, Invariance, PTL

(* Each step of the decoder is a step of the abstract reader, or changes   *)
(* nothing that a caller of the abstract reader sees.                      *)
THEOREM DecoderImplementsReader == Spec => ImplementsReader
<1> DEFINE ReaderStep == [Reader!Next]_(Reader!vars)
<1>1. Init => Reader!Init
  BY DEF Init, Reader!Init
<1>2. ASSUME IInv, IInv', OnlyAuthenticOctets, OnlyAuthenticOctets', [Next]_vars
      PROVE  ReaderStep
  <2>1. CASE UNCHANGED vars
    BY <2>1 DEF vars, Reader!vars
  <2>2. ASSUME NEW parsed \in BOOLEAN, NewDecoder(parsed) PROVE ReaderStep
    <3>1. phase = "new" /\ UNCHANGED <<content, delivered>>
      BY <2>2 DEF NewDecoder
    <3>2. err # "EOF"
      BY <1>2, <3>1 DEF IInv, NothingLeft
    <3>3. err' # "EOF"
      BY <2>2 DEF NewDecoder, Refuse, Open
    <3>4. QED
      BY <3>1, <3>2, <3>3 DEF Reader!vars
  <2>3. ASSUME NEW dst \in 0..MaxDst, Read(dst) PROVE ReaderStep
    <3>1. content' = content /\ phase = "open"
      BY <2>3 DEF Read
    <3>2. CASE err = "EOF"
      BY <1>2, <2>3, <3>1, <3>2 DEF IInv, NothingLeft, Read, Reader!vars
    <3>3. CASE err # "EOF" /\ err' = "EOF"
      <4>1. delivered' = delivered
        <5>1. CASE out # <<>> /\ Deliver(out, dst)
          BY <3>3, <5>1 DEF Deliver
        <5>2. CASE out = <<>> /\ nextProof = <<>> /\ UNCHANGED delivered
          BY <5>2
        <5>3. CASE ReadNextRecord(dst)
          BY <3>3, <5>3 DEF ReadNextRecord, FullRecord, LastRecord, EmptyLastRecord,
                            Deliver, Fail
        <5>4. QED
          BY <2>3, <5>1, <5>2, <5>3 DEF Read
      <4>2. delivered' = content'
        BY <1>2, <3>3, ConcatEmptySeq DEF IInv, TypeOK, Position, NothingLeft
      <4>3. Reader!End
        BY <3>1, <3>3, <4>1, <4>2 DEF Reader!End
      <4>4. QED
        BY <4>3 DEF Reader!Next
    <3>4. CASE err # "EOF" /\ err' # "EOF"
      <4>1. CASE delivered' = delivered
        BY <3>1, <3>4, <4>1 DEF Reader!vars
      <4>2. CASE \E o \in Seq(Symbol) : Deliver(o, dst)
        <5>1. PICK o \in Seq(Symbol) : Deliver(o, dst)
          BY <4>2
        <5>2. /\ content \in Seq(Symbol)
              /\ delivered \in Seq(Symbol)
              /\ delivered' \in Seq(Symbol)
              /\ out' \in Seq(Symbol)
              /\ delivered' \o out' \in Seq(Symbol)
          BY <1>2, DecoderAssumption, ConcatProperties DEF IInv, TypeOK
        <5>3. Len(delivered) \in Nat /\ Len(delivered') \in Nat /\ Len(content) \in Nat
          BY <5>2, LenProperties
        <5>4. Len(delivered) <= Len(delivered')
          <6> DEFINE u == SubSeq(o, 1, IF dst < Len(o) THEN dst ELSE Len(o))
          <6>1. u \in Seq(Symbol)
            BY DecoderAssumption, LenProperties, ElementOfSeq, SubSeqProperties
          <6>2. delivered' = delivered \o u
            BY <5>1 DEF Deliver
          <6> HIDE DEF u
          <6>3. Len(delivered') = Len(delivered) + Len(u)
            BY <5>2, <6>1, <6>2, ConcatProperties
          <6>4. QED
            BY <5>3, <6>1, <6>3, LenProperties
        <5>5. /\ Len(delivered') <= Len(content)
              /\ delivered' = SubSeq(content, 1, Len(delivered'))
          <6> DEFINE w == delivered' \o out'
          <6>1. /\ Len(w) = Len(delivered') + Len(out')
                /\ \A i \in 1..Len(delivered') : w[i] = delivered'[i]
            BY <5>2, ConcatProperties, LenProperties
          <6>2. Len(w) <= Len(content) /\ w = SubSeq(content, 1, Len(w))
            <7>1. /\ Len(w) <= Len(content)
                  /\ SubSeq(w, 1, Len(w)) = SubSeq(content, 1, Len(w))
              BY <1>2, <3>1 DEF OnlyAuthenticOctets, IsPrefix
            <7>2. SubSeq(w, 1, Len(w)) = w
              BY <5>2, SubSeqFull
            <7>3. QED
              BY <7>1, <7>2
          <6> HIDE DEF w
          <6>3. Len(out') \in Nat
            BY <5>2, LenProperties
          <6>4. Len(w) \in Nat /\ \A i \in 1..Len(w) : content[i] \in Symbol
            BY <5>2, <5>3, <6>1, <6>2, <6>3, ElementOfSeq
          <6>5. \A i \in 1..Len(w) : w[i] = content[i]
            BY <6>2, <6>4, SubSeqProperties
          <6>6. Len(delivered') <= Len(w)
            BY <5>3, <6>1, <6>3
          <6>7. /\ SubSeq(content, 1, Len(delivered')) \in Seq(Symbol)
                /\ Len(SubSeq(content, 1, Len(delivered'))) = Len(delivered')
                /\ \A i \in 1..Len(delivered') :
                     SubSeq(content, 1, Len(delivered'))[i] = content[i]
            BY <5>3, <6>4, <6>6, SubSeqProperties
          <6>8. \A i \in 1..Len(delivered') :
                  SubSeq(content, 1, Len(delivered'))[i] = delivered'[i]
            BY <5>3, <6>1, <6>4, <6>5, <6>6, <6>7
          <6>9. delivered' = SubSeq(content, 1, Len(delivered'))
            BY <5>2, <6>7, <6>8, SeqEqual
          <6>10. QED
            BY <5>3, <6>2, <6>4, <6>6, <6>9
        <5>6. Reader!Extend
          <6>1. (err' = "EOF") = FALSE /\ ~(err = "EOF")
            BY <3>4
          <6>2. Len(delivered') \in Len(delivered)..Len(content)
            BY <5>3, <5>4, <5>5
          <6>3. \E n \in Len(delivered)..Len(content) : delivered' = SubSeq(content, 1, n)
            BY <5>5, <6>2
          <6>4. QED
            BY <3>1, <6>1, <6>3, Zenon DEF Reader!Extend
        <5>7. QED
          BY <5>6 DEF Reader!Next
      <4>3. QED
        <5>1. CASE out # <<>> /\ Deliver(out, dst)
          BY <1>2, <4>2, <5>1 DEF IInv, TypeOK
        <5>2. CASE UNCHANGED delivered
          BY <4>1, <5>2
        <5>3. CASE ReadNextRecord(dst)
          <6>1. ASSUME NEW n \in Nat, n <= Len(rest), LastRecord(n, dst)
                PROVE  ReaderStep
            <7>1. SubSeq(rest, 1, n) \in Seq(Symbol)
              BY <1>2, <6>1, ElementOfSeq, SubSeqProperties, LenProperties DEF IInv, TypeOK
            <7>2. QED
              BY <4>1, <4>2, <6>1, <7>1 DEF LastRecord, Fail
          <6>2. ASSUME Len(rest) >= BufferSize, FullRecord(dst)
                PROVE  ReaderStep
            <7> DEFINE buf == SubSeq(rest, 1, BufferSize)
            <7>1. /\ rest \in Seq(Symbol)
                  /\ Len(rest) \in Nat
                  /\ recordSize \in Nat
                  /\ BufferSize \in Nat
                  /\ recordSize <= BufferSize
              BY <1>2, FormatAssumption, LenProperties DEF IInv, TypeOK, BufferSize
            <7>2. buf \in Seq(Symbol) /\ Len(buf) = BufferSize
              BY <6>2, <7>1, ElementOfSeq, SubSeqProperties
            <7>3. SubSeq(buf, 1, recordSize) \in Seq(Symbol)
              <8> HIDE DEF buf
              <8>1. QED
                BY <7>1, <7>2, ElementOfSeq, SubSeqProperties
            <7>4. QED
              BY <4>1, <4>2, <6>2, <7>3 DEF FullRecord, Fail
          <6>3. CASE EmptyLastRecord
            BY <4>1, <6>3 DEF EmptyLastRecord, Fail
          <6>4. CASE Fail("io")
            BY <4>1, <6>4 DEF Fail
          <6>5. Len(rest) \in Nat /\ BufferSize \in Nat
            BY <1>2, FormatAssumption, LenProperties DEF IInv, TypeOK, BufferSize
          <6>6. QED
            BY <5>3, <6>1, <6>2, <6>3, <6>4, <6>5 DEF ReadNextRecord
        <5>4. QED
          BY <2>3, <5>1, <5>2, <5>3 DEF Read
    <3>5. QED
      BY <3>2, <3>3, <3>4
  <2>4. QED
    BY <1>2, <2>1, <2>2, <2>3 DEF Next
<1>3. QED
  BY <1>1, <1>2, Invariance, Authenticity, PTL DEF Spec, ImplementsReader, Reader!Spec

-----------------------------------------------------------------------------
(* The stream that the encoder writes                                      *)

(* Strings of symbols are joined in either order.                          *)
LEMMA JoinAssoc ==
  ASSUME NEW a \in Seq(Symbol), NEW b \in Seq(Symbol), NEW d \in Seq(Symbol)
  PROVE  (a \o b) \o d = a \o (b \o d)
BY ConcatAssociative

(* What follows the same beginning is the same.                            *)
LEMMA CancelLeft ==
  ASSUME NEW a \in Seq(Symbol), NEW b \in Seq(Symbol), NEW d \in Seq(Symbol),
         a \o b = a \o d
  PROVE  b = d
<1>1. \A S : \A s, t, v \in Seq(S) : s \o t = s \o v => t = v
  BY ConcatSimplifications
<1>2. QED
  BY <1>1, Zenon

(* The last record is no longer than the others, and empty only when the   *)
(* payload is.                                                             *)
LEMMA LastRecordLength ==
  ASSUME NEW c \in Seq(Symbol)
  PROVE  /\ Len(Record(c, NumRecords(c))) <= RecordSize
         /\ Record(c, NumRecords(c)) = <<>> => c = <<>>
<1> DEFINE L == Len(c)
           n == NumRecords(c)
           N == (L + RecordSize - 1) \div RecordSize
<1>1. L \in Nat /\ RecordSize \in Nat /\ RecordSize >= 1
  BY FormatAssumption, LenProperties
<1>2. n \in Nat \ {0} /\ n \in 1..n /\ Offset(n) \in 0..L
  BY RecordBounds
<1>3. Record(c, n) = SubSeq(c, Offset(n) + 1, L)
  BY DEF Record
<1>4. Len(Record(c, n)) = L - Offset(n)
  <2>1. \A j \in (Offset(n) + 1)..L : c[j] \in Symbol
    BY <1>1, <1>2, ElementOfSeq
  <2> HIDE DEF n, L
  <2>2. QED
    BY <1>1, <1>2, <1>3, <2>1, SubSeqProperties
<1>5. CASE c = <<>>
  <2>1. L = 0
    BY <1>5
  <2>2. QED
    BY <1>1, <1>2, <1>4, <1>5, <2>1
<1>6. CASE c # <<>>
  <2>1. n = N /\ L >= 1
    BY <1>6, <1>1, EmptySeq DEF NumRecords
  <2>2. /\ N \in Int
        /\ N * RecordSize <= L + RecordSize - 1
        /\ L + RecordSize - 1 < (N + 1) * RecordSize
    BY <1>1, Z3
  <2> HIDE DEF N, L, n
  <2>3. Offset(n) <= L - 1 /\ L <= Offset(n) + RecordSize
    BY <1>1, <2>1, <2>2, Z3 DEF Offset
  <2>4. Len(Record(c, n)) <= RecordSize /\ Len(Record(c, n)) # 0
    BY <1>1, <1>2, <1>4, <2>3
  <2>5. QED
    BY <2>4 DEF n
<1>7. QED
  BY <1>5, <1>6

(* tail[k] is what is left of the stream when the decoder waits for record *)
(* k and holds its proof.                                                  *)
IsTails(tail, c, body) ==
  LET n == NumRecords(c)
  IN /\ \A k \in 1..n : tail[k] \in Seq(Symbol)
     /\ tail[1] = body
     /\ tail[n] = Record(c, n)
     /\ \A k \in 1..n : k # n =>
          tail[k] = (Record(c, k) \o ProofChain(c)[k + 1]) \o tail[k + 1]

(* What Encode writes is each record followed by the proof of the next one.*)
LEMMA EncodedTails ==
  ASSUME NEW c \in Contents
  PROVE  \E tail : IsTails(tail, c,
           FlattenSeq([i \in 1..NumRecords(c) |->
                         (IF i = 1 THEN <<>> ELSE ProofChain(c)[i]) \o Record(c, i)]))
<1> DEFINE n == NumRecords(c)
           R(i) == Record(c, i)
           X(i) == ProofChain(c)[i]
           seg == [i \in 1..n |-> (IF i = 1 THEN <<>> ELSE X(i)) \o R(i)]
           body == FlattenSeq(seg)
<1>1. /\ c \in Seq(Symbol)
      /\ n \in Nat /\ n >= 1
      /\ \A i \in 1..n : R(i) \in Seq(Symbol) /\ X(i) \in Seq(Symbol)
      /\ <<>> \in Seq(Symbol)
  BY DecoderAssumption, RecordBounds, RecordProperties
<1> HIDE DEF n, R, X
<1>2. \A i \in 1..n : seg[i] \in Seq(Symbol)
  <2> TAKE i \in 1..n
  <2>1. seg[i] = (IF i = 1 THEN <<>> ELSE X(i)) \o R(i)
    OBVIOUS
  <2> HIDE DEF seg
  <2>2. QED
    BY <1>1, <2>1, ConcatProperties
<1>3. seg \in Seq(Seq(Symbol)) /\ Len(seg) = n
  <2>1. seg \in [1..n -> Seq(Symbol)]
    BY <1>2
  <2>2. QED
    BY <1>1, <2>1, SeqDef
<1>4. /\ seg[1] = <<>> \o R(1)
      /\ \A i \in 2..n : seg[i] = X(i) \o R(i)
  <2>1. 1 \in 1..n /\ \A i \in 2..n : i \in 1..n /\ i # 1
    BY <1>1
  <2>2. \A i \in 1..n : seg[i] = (IF i = 1 THEN <<>> ELSE X(i)) \o R(i)
    OBVIOUS
  <2> HIDE DEF seg
  <2>3. QED
    BY <2>1, <2>2
<1> HIDE DEF seg
<1>5. PICK f : /\ f[1] = seg[1]
               /\ \A i \in 2..n : f[i] = f[i - 1] \o seg[i]
               /\ \A i \in 1..n : f[i] \in Seq(Symbol)
               /\ f[n] = body
  <2>1. Len(seg) # 0
    BY <1>1, <1>3
  <2>2. \E f : /\ f[1] = seg[1]
               /\ \A i \in 2..Len(seg) : f[i] = f[i - 1] \o seg[i]
               /\ \A i \in 1..Len(seg) : f[i] \in Seq(Symbol)
               /\ f[Len(seg)] = FlattenSeq(seg)
    BY <1>3, <2>1, FlattenUnfolds
  <2>3. QED
    BY <1>3, <2>2
<1> HIDE DEF body
<1> DEFINE P == [k \in 1..n |-> IF k = 1 THEN <<>> ELSE f[k - 1] \o X(k)]
<1>6. \A k \in 1..n : k # 1 => k \in 2..n /\ k - 1 \in 1..n
  BY <1>1
<1>7. ASSUME NEW k \in 1..n
      PROVE  P[k] \in Seq(Symbol) /\ f[k] = P[k] \o R(k)
  <2>1. P[k] = IF k = 1 THEN <<>> ELSE f[k - 1] \o X(k)
    OBVIOUS
  <2> HIDE DEF P
  <2>2. CASE k = 1
    BY <1>1, <1>4, <1>5, <2>1, <2>2
  <2>3. CASE k # 1
    <3>1. P[k] = f[k - 1] \o X(k) /\ f[k] = f[k - 1] \o (X(k) \o R(k))
      BY <1>4, <1>5, <1>6, <2>1, <2>3
    <3>2. f[k - 1] \in Seq(Symbol) /\ X(k) \in Seq(Symbol) /\ R(k) \in Seq(Symbol)
      BY <1>1, <1>5, <1>6, <2>3
    <3>3. (f[k - 1] \o X(k)) \o R(k) = f[k - 1] \o (X(k) \o R(k))
      BY <3>2, JoinAssoc
    <3>4. f[k - 1] \o X(k) \in Seq(Symbol)
      BY <3>2, ConcatProperties
    <3>5. QED
      BY <3>1, <3>3, <3>4
  <2>4. QED
    BY <2>2, <2>3
<1>8. P[1] = <<>>
  BY <1>1
<1>9. ASSUME NEW k \in 1..n, k # n
      PROVE  /\ k + 1 \in 1..n
             /\ R(k) \o X(k + 1) \in Seq(Symbol)
             /\ P[k + 1] = P[k] \o (R(k) \o X(k + 1))
  <2>1. k + 1 \in 1..n /\ k + 1 # 1 /\ (k + 1) - 1 = k
    BY <1>1, <1>9
  <2>2. P[k + 1] = f[k] \o X(k + 1)
    BY <2>1
  <2> HIDE DEF P
  <2>3. /\ f[k] = P[k] \o R(k) /\ P[k] \in Seq(Symbol)
        /\ R(k) \in Seq(Symbol) /\ X(k + 1) \in Seq(Symbol)
    BY <1>1, <1>7, <2>1
  <2>4. P[k] \o (R(k) \o X(k + 1)) = (P[k] \o R(k)) \o X(k + 1)
    BY <2>3, JoinAssoc
  <2>5. R(k) \o X(k + 1) \in Seq(Symbol)
    BY <2>3, ConcatProperties
  <2>6. P[k + 1] = (P[k] \o R(k)) \o X(k + 1)
    BY <2>2, <2>3, Zenon
  <2>7. P[k + 1] = P[k] \o (R(k) \o X(k + 1))
    BY <2>4, <2>6, Zenon
  <2>8. QED
    BY <2>1, <2>5, <2>7
<1> HIDE DEF P
<1> DEFINE K == {j \in Nat : j < n => \E t \in Seq(Symbol) : P[n - j] \o t = body}
<1>10. 0 \in K
  <2>1. n \in 1..n /\ n - 0 = n
    BY <1>1
  <2>2. f[n] = P[n] \o R(n) /\ R(n) \in Seq(Symbol)
    BY <1>1, <1>7, <2>1
  <2>3. P[n] \o R(n) = body
    BY <1>5, <2>2, Zenon
  <2>4. QED
    BY <2>1, <2>2, <2>3
<1>11. ASSUME NEW j \in Nat, j \in K
       PROVE  j + 1 \in K
  <2> SUFFICES ASSUME j + 1 < n
               PROVE  \E t \in Seq(Symbol) : P[n - (j + 1)] \o t = body
    OBVIOUS
  <2> DEFINE k == n - (j + 1)
  <2>1. k \in 1..n /\ k # n /\ k + 1 = n - j /\ j < n
    BY <1>1
  <2>2. PICK t \in Seq(Symbol) : P[n - j] \o t = body
    BY <1>11, <2>1
  <2> HIDE DEF k
  <2>3. /\ P[k + 1] = P[k] \o (R(k) \o X(k + 1)) /\ P[k] \in Seq(Symbol)
        /\ R(k) \o X(k + 1) \in Seq(Symbol)
    BY <1>7, <1>9, <2>1
  <2>4. P[k] \o ((R(k) \o X(k + 1)) \o t) = body
    <3>1. (P[k] \o (R(k) \o X(k + 1))) \o t = body
      BY <2>1, <2>2, <2>3
    <3>2. QED
      BY <2>3, <3>1, JoinAssoc
  <2>5. (R(k) \o X(k + 1)) \o t \in Seq(Symbol)
    BY <2>3, ConcatProperties
  <2>6. QED
    BY <2>4, <2>5 DEF k
<1>12. ASSUME NEW k \in 1..n
       PROVE  \E t \in Seq(Symbol) : P[k] \o t = body
  <2> HIDE DEF K
  <2>1. Nat \subseteq K
    BY <1>10, <1>11, InductionOnSets
  <2>2. n - k \in Nat /\ n - k < n /\ n - (n - k) = k
    BY <1>1
  <2>3. n - k < n => \E t \in Seq(Symbol) : P[n - (n - k)] \o t = body
    BY <2>1, <2>2 DEF K
  <2>4. QED
    BY <2>2, <2>3
<1> DEFINE T == [k \in 1..n |-> CHOOSE t \in Seq(Symbol) : P[k] \o t = body]
<1>13. ASSUME NEW k \in 1..n
       PROVE  T[k] \in Seq(Symbol) /\ P[k] \o T[k] = body
  BY <1>12
<1> HIDE DEF T
<1>14. T[1] = body
  <2>1. <<>> \o T[1] = body /\ T[1] \in Seq(Symbol)
    <3>1. 1 \in 1..n
      BY <1>1
    <3>2. QED
      BY <1>8, <1>13, <3>1
  <2>2. QED
    BY <2>1, ConcatEmptySeq
<1>15. T[n] = R(n)
  <2>1. /\ P[n] \o T[n] = body /\ P[n] \o R(n) = body
        /\ P[n] \in Seq(Symbol) /\ T[n] \in Seq(Symbol) /\ R(n) \in Seq(Symbol)
    <3>1. n \in 1..n
      BY <1>1
    <3>2. QED
      BY <1>1, <1>5, <1>7, <1>13, <3>1
  <2>2. QED
    BY <2>1, CancelLeft
<1>16. ASSUME NEW k \in 1..n, k # n
       PROVE  T[k] = (R(k) \o X(k + 1)) \o T[k + 1]
  <2> DEFINE m == R(k) \o X(k + 1)
  <2>1. /\ k + 1 \in 1..n
        /\ m \in Seq(Symbol)
        /\ P[k + 1] = P[k] \o m
    BY <1>9, <1>16
  <2>2. /\ P[k] \o T[k] = body /\ P[k + 1] \o T[k + 1] = body
        /\ P[k] \in Seq(Symbol) /\ T[k] \in Seq(Symbol) /\ T[k + 1] \in Seq(Symbol)
    BY <1>7, <1>13, <2>1
  <2> HIDE DEF m
  <2>3. P[k] \o T[k] = P[k] \o (m \o T[k + 1])
    <3>1. (P[k] \o m) \o T[k + 1] = P[k] \o (m \o T[k + 1])
      BY <2>1, <2>2, JoinAssoc
    <3>2. QED
      BY <2>1, <2>2, <3>1
  <2>4. m \o T[k + 1] \in Seq(Symbol)
    BY <2>1, <2>2, ConcatProperties
  <2>5. T[k] = m \o T[k + 1]
    BY <2>2, <2>3, <2>4, CancelLeft
  <2>6. QED
    BY <2>5 DEF m
<1>17. IsTails(T, c, body)
  BY <1>13, <1>14, <1>15, <1>16 DEF IsTails, n, R, X
<1>18. QED
  BY <1>17 DEF body, seg, n, R, X

(* A joined string is cut apart where it was joined.                       *)
LEMMA PrefixOfJoin ==
  ASSUME NEW a \in Seq(Symbol), NEW b \in Seq(Symbol)
  PROVE  SubSeq(a \o b, 1, Len(a)) = a
<1>1. Len(a) \in Nat
  BY LenProperties
<1>2. CASE Len(a) = 0
  BY <1>2, SubSeqEmpty, EmptySeq, ConcatProperties
<1>3. CASE Len(a) # 0
  <2>1. 1 \in 1..Len(a) /\ Len(a) \in 1..Len(a)
    BY <1>1, <1>3
  <2>2. SubSeq(a \o b, 1, Len(a)) = SubSeq(a, 1, Len(a))
    BY <2>1, SubSeqOfConcat1
  <2>3. QED
    BY <2>2, SubSeqFull
<1>4. QED
  BY <1>2, <1>3

LEMMA SuffixOfJoin ==
  ASSUME NEW a \in Seq(Symbol), NEW b \in Seq(Symbol)
  PROVE  SubSeq(a \o b, Len(a) + 1, Len(a) + Len(b)) = b
<1>1. Len(a) \in Nat /\ Len(b) \in Nat
  BY LenProperties
<1>2. CASE Len(b) = 0
  <2>1. b = <<>>
    BY <1>2, EmptySeq
  <2>2. SubSeq(a \o b, Len(a) + 1, Len(a)) = <<>>
    BY <1>1, ConcatProperties, SubSeqEmpty
  <2>3. QED
    BY <1>1, <1>2, <2>1, <2>2
<1>3. CASE Len(b) # 0
  <2>1. /\ Len(a) + 1 \in (Len(a) + 1)..(Len(a) + Len(b))
        /\ Len(a) + Len(b) \in (Len(a) + 1)..(Len(a) + Len(b))
        /\ (Len(a) + 1) - Len(a) = 1 /\ (Len(a) + Len(b)) - Len(a) = Len(b)
    BY <1>1, <1>3
  <2>2. SubSeq(a \o b, Len(a) + 1, Len(a) + Len(b)) = SubSeq(b, 1, Len(b))
    BY <2>1, SubSeqOfConcat2
  <2>3. QED
    BY <2>2, SubSeqFull
<1>4. QED
  BY <1>2, <1>3

-----------------------------------------------------------------------------
(* The decoder on the stream that the encoder wrote                        *)

(* The honest stream: while the decoder waits for a record it holds the    *)
(* proof of, exactly that record and what follows it are left, and the     *)
(* record size is the encoder's.                                           *)
AtTail(k) ==
  /\ nextProof = ProofChain(content)[k]
  /\ \E tail : IsTails(tail, content, input.body) /\ rest = tail[k]

OnTrack ==
  HonestInput =>
    /\ err \in {"nil", "EOF", "badDigest"}
    /\ phase = "open" /\ nextProof # <<>> =>
         /\ recordSize = RecordSize
         /\ ~(draft = "draft03" /\ content = <<>>)
         /\ \E k \in 1..NumRecords(content) : AtTail(k)

(* What NewDecoder finds at the beginning of an honest stream.             *)
LEMMA HonestHeader ==
  ASSUME TypeOK, input = Encode(draft, content)
  PROVE  \/ /\ draft = "draft03" /\ content = <<>>
            /\ input.header = "none"
            /\ ValidateRecord(<<>>, TopLevelProof(content), TRUE)
         \/ /\ ~(draft = "draft03" /\ content = <<>>)
            /\ input.header = "full" /\ input.size = RecordSize
            /\ \E tail : IsTails(tail, content, input.body)
<1>1. content \in Contents /\ content \in Seq(Symbol)
  BY DecoderAssumption DEF TypeOK
<1>2. CASE draft = "draft03" /\ content = <<>>
  <2>1. input.header = "none"
    BY <1>2 DEF Encode
  <2>2. NumRecords(content) = 1
    BY <1>2 DEF NumRecords
  <2>3. Record(content, 1) = <<>>
    <3>1. Record(content, 1) = SubSeq(content, Offset(1) + 1, Len(content))
      BY <2>2 DEF Record
    <3>2. Offset(1) = 0 /\ Len(content) = 0
      BY <1>2, FormatAssumption DEF Offset
    <3>3. QED
      BY <1>1, <3>1, <3>2, SubSeqEmpty
  <2>4. TopLevelProof(content) = Hash(<<>> \o <<Zero>>)
    <3>1. 1 \in 1..NumRecords(content) /\ 1 = NumRecords(content)
      BY <2>2
    <3>2. ProofChain(content)[1] = Hash(Record(content, 1) \o <<Zero>>)
      BY <1>1, <3>1, ProofChainUnfolds
    <3>3. QED
      BY <2>3, <3>2 DEF TopLevelProof
  <2>5. QED
    BY <1>2, <2>1, <2>4 DEF ValidateRecord
<1>3. CASE ~(draft = "draft03" /\ content = <<>>)
  <2>1. /\ input.header = "full" /\ input.size = RecordSize
        /\ input.body = FlattenSeq([i \in 1..NumRecords(content) |->
             (IF i = 1 THEN <<>> ELSE ProofChain(content)[i]) \o Record(content, i)])
    BY <1>3 DEF Encode
  <2>2. QED
    BY <1>1, <1>3, <2>1, EncodedTails
<1>4. QED
  BY <1>2, <1>3

LEMMA NewDecoderStaysOnTrack ==
  ASSUME IInv, OnTrack, NEW parsed \in BOOLEAN, NewDecoder(parsed)
  PROVE  OnTrack'
<1> SUFFICES ASSUME HonestInput' PROVE (OnTrack!2)'
  BY DEF OnTrack
<1>1. /\ HonestInput /\ UNCHANGED <<draft, content, input, faults>>
      /\ RecordSize \in Nat \ {0} /\ RecordSize <= MaxRecordSize
      /\ TypeOK /\ content \in Contents
  BY FormatAssumption DEF HonestInput, NewDecoder, IInv, TypeOK
<1>2. CASE ~parsed /\ Refuse("badDigest")
  BY <1>2, <1>1 DEF Refuse
<1>3. CASE parsed /\ draft = "draft03" /\ content = <<>>
  <2>1. input.header = "none" /\ ValidateRecord(<<>>, TopLevelProof(content), TRUE)
    BY <1>1, <1>3, HonestHeader DEF HonestInput
  <2>2. Open(0, <<>>)
    BY <1>3, <2>1 DEF NewDecoder
  <2>3. QED
    BY <2>2 DEF Open
<1>4. CASE parsed /\ ~(draft = "draft03" /\ content = <<>>)
  <2>1. /\ input.header = "full" /\ input.size = RecordSize
        /\ \E tail : IsTails(tail, content, input.body)
    BY <1>1, <1>4, HonestHeader DEF HonestInput
  <2>2. Open(RecordSize, TopLevelProof(content))
    <3>1. ~(input.size = 0 \/ input.size > MaxRecordSize)
      BY <1>1, <2>1, DecoderAssumption
    <3>2. QED
      BY <1>4, <2>1, <3>1 DEF NewDecoder
  <2>3. 1 \in 1..NumRecords(content) /\ TopLevelProof(content) = ProofChain(content)[1]
    BY <1>1, FirstProof
  <2>4. AtTail(1)'
    BY <1>1, <2>1, <2>2, <2>3 DEF AtTail, IsTails, Open
  <2>5. QED
    BY <1>1, <1>4, <2>2, <2>3, <2>4 DEF Open
<1>5. QED
  BY <1>2, <1>3, <1>4 DEF NewDecoder

(* An inner record of an honest stream fills the buffer and is accepted.   *)
LEMMA HonestInnerRecord ==
  ASSUME IInv, NEW k \in 1..NumRecords(content), k # NumRecords(content), AtTail(k),
         recordSize = RecordSize
  PROVE  /\ Len(rest) >= BufferSize
         /\ ValidateRecord(SubSeq(rest, 1, BufferSize), nextProof, FALSE)
         /\ k + 1 \in 1..NumRecords(content)
         /\ SubSeq(SubSeq(rest, 1, BufferSize), recordSize + 1, BufferSize)
              = ProofChain(content)[k + 1]
         /\ Consume(BufferSize) =>
              \E tail : IsTails(tail, content, input.body) /\ rest' = tail[k + 1]
<1> DEFINE R == Record(content, k)
           X == ProofChain(content)[k + 1]
<1>1. /\ content \in Contents /\ content \in Seq(Symbol)
      /\ NumRecords(content) \in Nat
      /\ RecordSize \in Nat /\ HashSize \in Nat \ {0}
      /\ k + 1 \in 1..NumRecords(content)
      /\ BufferSize = RecordSize + HashSize
  BY DecoderAssumption, FormatAssumption, RecordBounds DEF IInv, TypeOK, BufferSize
<1>2. /\ R \in Seq(Symbol) /\ Len(R) = RecordSize
      /\ X \in Seq(Symbol)
      /\ \E s : X = Hash(s)
      /\ ProofChain(content)[k] = Hash(R \o X \o <<One>>)
  <2>1. R \in Seq(Symbol) /\ Len(R) = RecordSize
    BY <1>1, RecordProperties
  <2>2. X \in Seq(Symbol)
    BY <1>1, DecoderAssumption
  <2>3. \E s : X = Hash(s)
    BY <1>1, ProofChainUnfolds
  <2>4. ProofChain(content)[k] = Hash(R \o X \o <<One>>)
    BY <1>1, ProofChainUnfolds
  <2>5. QED
    BY <2>1, <2>2, <2>3, <2>4
<1>3. Len(X) = HashSize
  BY <1>2, HashLength
<1>4. PICK tail : IsTails(tail, content, input.body) /\ rest = tail[k]
  BY DEF AtTail
<1> DEFINE T == tail[k + 1]
<1>5. rest = (R \o X) \o T /\ T \in Seq(Symbol)
  BY <1>1, <1>4 DEF IsTails
<1>6. nextProof = Hash(R \o X \o <<One>>)
  BY <1>2 DEF AtTail
<1> HIDE DEF R, X, T
<1>7. R \o X \in Seq(Symbol) /\ Len(R \o X) = BufferSize
  BY <1>1, <1>2, <1>3, ConcatProperties
<1>8. Len(rest) = BufferSize + Len(T) /\ Len(T) \in Nat /\ BufferSize \in Nat /\ BufferSize >= 1
  <2>1. Len((R \o X) \o T) = Len(R \o X) + Len(T)
    BY <1>5, <1>7, ConcatProperties
  <2>2. Len(T) \in Nat
    BY <1>5, LenProperties
  <2>3. QED
    BY <1>1, <1>5, <1>7, <2>1, <2>2
<1>9. SubSeq(rest, 1, BufferSize) = R \o X
  BY <1>5, <1>7, <1>8, PrefixOfJoin
<1>10. SubSeq(rest, BufferSize + 1, Len(rest)) = T
  BY <1>5, <1>7, <1>8, SuffixOfJoin
<1>11. SubSeq(R \o X, RecordSize + 1, BufferSize) = X
  BY <1>1, <1>2, <1>3, <1>7, SuffixOfJoin
<1>12. ValidateRecord(SubSeq(rest, 1, BufferSize), nextProof, FALSE)
  BY <1>6, <1>9 DEF ValidateRecord
<1>13. ASSUME Consume(BufferSize)
       PROVE  rest' = tail[k + 1]
  BY <1>10, <1>13 DEF Consume, T
<1>14. SubSeq(SubSeq(rest, 1, BufferSize), recordSize + 1, BufferSize) = ProofChain(content)[k + 1]
  BY <1>9, <1>11 DEF X
<1>15. Consume(BufferSize) =>
         \E g : IsTails(g, content, input.body) /\ rest' = g[k + 1]
  BY <1>4, <1>13
<1>16. Len(rest) >= BufferSize
  BY <1>8
<1>17. QED
  BY <1>1, <1>12, <1>14, <1>15, <1>16

(* The last record of an honest stream ends it and is accepted.            *)
LEMMA HonestLastRecord ==
  ASSUME IInv, AtTail(NumRecords(content)), recordSize = RecordSize
  PROVE  /\ Len(rest) <= recordSize /\ Len(rest) < BufferSize
         /\ ValidateRecord(rest, nextProof, TRUE)
         /\ SubSeq(rest, 1, Len(rest)) = rest
         /\ rest = <<>> => content = <<>>
<1>1. /\ content \in Contents /\ content \in Seq(Symbol) /\ rest \in Seq(Symbol)
      /\ NumRecords(content) \in 1..NumRecords(content)
      /\ RecordSize \in Nat /\ HashSize \in Nat \ {0} /\ Len(rest) \in Nat
      /\ BufferSize = RecordSize + HashSize
  BY DecoderAssumption, FormatAssumption, RecordBounds, LenProperties
     DEF IInv, TypeOK, BufferSize
<1>2. rest = Record(content, NumRecords(content))
  BY DEF AtTail, IsTails
<1>3. nextProof = Hash(rest \o <<Zero>>)
  BY <1>1, <1>2, ProofChainUnfolds DEF AtTail
<1>4. QED
  BY <1>1, <1>2, <1>3, LastRecordLength, SubSeqFull DEF ValidateRecord

LEMMA ReadStaysOnTrack ==
  ASSUME IInv, OnTrack, NEW dst \in 0..MaxDst, Read(dst)
  PROVE  OnTrack'
<1> SUFFICES ASSUME HonestInput' PROVE (OnTrack!2)'
  BY DEF OnTrack
<1>1. /\ phase = "open"
      /\ UNCHANGED <<draft, content, input, phase, recordSize>>
      /\ faults \in Nat /\ faults' = 0
      /\ TypeOK
  BY DEF Read, HonestInput, IInv, TypeOK
<1>2. HonestInput /\ faults' = faults
  BY <1>1 DEF Read, ReadNextRecord, HonestInput
<1>3. CASE out # <<>> /\ Deliver(out, dst) /\ UNCHANGED <<nextProof, rest, faults>>
  BY <1>1, <1>2, <1>3 DEF OnTrack, AtTail, Deliver
<1>4. CASE /\ nextProof = <<>>
           /\ err' = "EOF"
           /\ UNCHANGED <<nextProof, out, delivered, rest, faults>>
  BY <1>4
<1>5. CASE nextProof # <<>> /\ ReadNextRecord(dst)
  <2>1. /\ recordSize = RecordSize
        /\ ~(draft = "draft03" /\ content = <<>>)
        /\ \E k \in 1..NumRecords(content) : AtTail(k)
    BY <1>1, <1>2, <1>5 DEF OnTrack
  <2>2. PICK k \in 1..NumRecords(content) : AtTail(k)
    BY <2>1
  <2>3. BufferSize \in Nat /\ BufferSize >= 1 /\ Len(rest) \in Nat
    BY <1>1, FormatAssumption, LenProperties DEF TypeOK, BufferSize
  <2>4. CASE k # NumRecords(content)
    <3>1. /\ Len(rest) >= BufferSize
          /\ ValidateRecord(SubSeq(rest, 1, BufferSize), nextProof, FALSE)
      BY <2>1, <2>2, <2>4, HonestInnerRecord
    <3>2. FullRecord(dst) /\ Consume(BufferSize)
      <4>1. ~(Len(rest) \in 1..(BufferSize - 1)) /\ rest # <<>> /\ faults' # faults + 1
        BY <1>1, <1>2, <2>3, <3>1
      <4>2. QED
        BY <1>5, <4>1 DEF ReadNextRecord
    <3>3. nextProof' = SubSeq(SubSeq(rest, 1, BufferSize), recordSize + 1, BufferSize)
          /\ err' = "nil"
      BY <3>1, <3>2 DEF FullRecord, Deliver
    <3>4. AtTail(k + 1)' /\ k + 1 \in 1..NumRecords(content)
      <4>1. /\ k + 1 \in 1..NumRecords(content)
            /\ SubSeq(SubSeq(rest, 1, BufferSize), recordSize + 1, BufferSize)
                 = ProofChain(content)[k + 1]
            /\ \E tail : IsTails(tail, content, input.body) /\ rest' = tail[k + 1]
        BY <2>1, <2>2, <2>3, <2>4, <3>2, HonestInnerRecord
      <4>2. QED
        BY <1>1, <3>3, <4>1 DEF AtTail
    <3>5. QED
      BY <1>1, <2>1, <3>3, <3>4
  <2>5. CASE k = NumRecords(content)
    <3>1. /\ Len(rest) <= recordSize /\ Len(rest) < BufferSize
          /\ ValidateRecord(rest, nextProof, TRUE)
          /\ SubSeq(rest, 1, Len(rest)) = rest
          /\ rest = <<>> => content = <<>>
      BY <2>1, <2>2, <2>5, HonestLastRecord
    <3>2. \/ LastRecord(Len(rest), dst)
          \/ rest = <<>> /\ EmptyLastRecord
      <4>1. ~(Len(rest) >= BufferSize) /\ faults' # faults + 1
        BY <1>1, <1>2, <2>3, <3>1
      <4>2. QED
        BY <1>5, <4>1 DEF ReadNextRecord
    <3>3. CASE LastRecord(Len(rest), dst)
      <4>1. ~(Len(rest) > recordSize)
        BY <1>1, <2>3, <3>1 DEF TypeOK
      <4>2. nextProof' = <<>> /\ err' = "nil"
        BY <3>1, <3>3, <4>1 DEF LastRecord, Deliver
      <4>3. QED
        BY <4>2
    <3>4. CASE rest = <<>> /\ EmptyLastRecord
      <4>1. draft = "draft02"
        BY <1>1, <2>1, <3>1, <3>4 DEF TypeOK, Drafts
      <4>2. nextProof' = <<>> /\ err' = "EOF"
        BY <3>1, <3>4, <4>1 DEF EmptyLastRecord
      <4>3. QED
        BY <4>2
    <3>5. QED
      BY <3>2, <3>3, <3>4
  <2>6. QED
    BY <2>4, <2>5
<1>6. QED
  BY <1>3, <1>4, <1>5 DEF Read

(* The decoder refuses no stream that the encoder wrote for the payload    *)
(* the caller asked for and that arrived whole, whatever buffers the       *)
(* caller reads it with.                                                   *)
THEOREM NoRefusalOfHonestStreams == Spec => []NoFalseAlarm
<1>1. Init => OnTrack
  BY DEF Init, OnTrack
<1>2. IInv /\ OnTrack /\ [Next]_vars => OnTrack'
  <2> SUFFICES ASSUME IInv, OnTrack, [Next]_vars PROVE OnTrack'
    OBVIOUS
  <2>1. ASSUME NEW parsed \in BOOLEAN, NewDecoder(parsed) PROVE OnTrack'
    BY <2>1, NewDecoderStaysOnTrack
  <2>2. ASSUME NEW dst \in 0..MaxDst, Read(dst) PROVE OnTrack'
    BY <2>2, ReadStaysOnTrack
  <2>3. CASE UNCHANGED vars
    BY <2>3 DEF vars, OnTrack, AtTail, HonestInput
  <2>4. QED
    BY <2>1, <2>2, <2>3 DEF Next
<1>3. OnTrack => NoFalseAlarm
  BY DEF OnTrack, NoFalseAlarm
<1>4. QED
  BY <1>1, <1>2, <1>3, Invariance, PTL DEF Spec

=============================================================================
