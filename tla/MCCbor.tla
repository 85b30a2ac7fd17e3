-------------------------------- MODULE MCCbor --------------------------------
(***************************************************************************)
(* What the algorithms of the formats are applied to is a sequence of parts*)
(* that grows, of one sort in a behaviour.  This module has the parts that *)
(* are CBOR, MCGenBundle and MCFormats add the other sorts, and MCFormats  *)
(* has the actions of them all.                                            *)
(*                                                                         *)
(* The CBOR codec on what calls of the Encoder write, the two checks of    *)
(* deterministic encoding on octets of any sort, and, encoded so,          *)
(* certificate chain files and the SCT lists in them: what gen-certurl     *)
(* writes, and files of anyone, as clients and dump-certurl read them.     *)
(***************************************************************************)
EXTENDS CertChain, FiniteSets

CONSTANTS
  MaxCalls,     \* bound: calls of an encoder
  MaxPieces,    \* bound: pieces that octets to be checked are put together from
  MaxCerts,     \* bound: certificates of a chain, and maps of a file
  MaxScts       \* bound: SCTs of a list

VARIABLES
  of,      \* the sort of the parts
  parts

Start(sort) == of = sort /\ parts = <<>>

Add(sort, part) == of = sort /\ parts' = Append(parts, part) /\ UNCHANGED of

-----------------------------------------------------------------------------
Go == INSTANCE CborDeterministic WITH Language <- "Go"
Js == INSTANCE CborDeterministic WITH Language <- "JavaScript"

-----------------------------------------------------------------------------
(* Octets: heads of all lengths, minimal and not, of strings, arrays and   *)
(* maps that may hold each other, unsupported and reserved ones, lengths up*)
(* to 2^64 - 1, and heads that lack their end.                             *)

Ones == <<255, 255, 255, 255, 255, 255, 255, 255>>
TwoTo63 == <<128, 0, 0, 0, 0, 0, 0, 0>>
TwoTo32 == <<0, 0, 0, 1, 0, 0, 0, 0>>

OctetPieces ==
  { <<0>>, <<0, 64>>, <<64, 0>>, <<23>>, <<24, 23>>, <<24, 24>>, <<25, 1, 0>>, <<25, 0, 255>>,
    <<26, 0, 1, 0, 0>>, <<27>> \o TwoTo32, <<27>> \o Ones, <<27, 0, 0, 0, 0, 255, 255, 255, 255>>,
    <<64>>, <<65>>, <<97>>, <<88, 1>>, <<91>> \o Ones, <<91>> \o TwoTo63, <<91>> \o TwoTo32,
    <<91, 127>> \o Tail(Ones),
    <<129>>, <<130>>, <<155>> \o TwoTo63,
    <<160>>, <<161>>, <<162>>, <<187, 128, 0, 0, 0, 0, 0, 0, 1>>,
    <<32>>, <<95>>, <<28>>, <<245>> }

(* The last two pieces complete what the first two began. *)
LastPieces == { <<0>>, <<64>>, <<97>>, <<0, 64>>, <<64, 0>>, <<24, 23>> }

AddOctets ==
  /\ Len(parts) < MaxPieces
  /\ \E piece \in IF Len(parts) >= MaxPieces - 2 THEN LastPieces ELSE OctetPieces :
       Add("octets", piece)

(* The definition that the checks are compared with: what Encoder writes   *)
(* for unsigned numbers, strings, arrays of items, and maps with ascending *)
(* keys.  HeadLengths has the only possible length of a first item's head. *)
HeadLengths(in) ==
  {k \in {1, 2, 3, 5, 9} : k <= Len(in) /\ LET head == DecodeTypedUint(in)
     IN /\ head.ok /\ Info(in[1]) < 28
        /\ SubSeq(in, 1, k) = EncodeTypedUint(head.value.type, head.value.n)}

Suffix(in, k) == SubSeq(in, k + 1, Len(in))
IsOfSize(n, size) == Magnitude(n) # Huge /\ Magnitude(n) = size

RECURSIVE IsItem(_), AreItems(_, _), AreEntries(_, _, _)

IsItem(in) ==
  \E k \in HeadLengths(in) :
    LET head == DecodeTypedUint(in).value
        rest == Suffix(in, k)
    IN CASE head.type = PosInt -> rest = <<>>
         [] head.type \in {Bytes, Text} -> IsOfSize(head.n, Len(rest))
         [] head.type = Array -> AreItems(rest, Magnitude(head.n))
         [] head.type = Map -> AreEntries(rest, Magnitude(head.n), <<>>)
         [] OTHER -> FALSE

AreItems(in, n) ==
  IF n = 0 THEN in = <<>>
  ELSE n <= Len(in) /\ \E k \in 1..(Len(in) - n + 1) :
         IsItem(SubSeq(in, 1, k)) /\ AreItems(Suffix(in, k), n - 1)

(* All keys are greater than the last one before them. *)
AreEntries(in, n, last) ==
  IF n = 0 THEN in = <<>>
  ELSE n <= Len(in) /\ \E k \in 1..Len(in) : \E l \in (k + 1)..Len(in) :
         /\ Before(last, SubSeq(in, 1, k))
         /\ IsItem(SubSeq(in, 1, k)) /\ IsItem(SubSeq(in, k + 1, l))
         /\ AreEntries(Suffix(in, l), n - 1, SubSeq(in, 1, k))

RECURSIVE IsDeterministic(_)
IsDeterministic(in) ==
  in = <<>> \/ \E k \in 1..Len(in) : IsItem(SubSeq(in, 1, k)) /\ IsDeterministic(Suffix(in, k))

(* No string, array or map claims a length of 2^62 or more. *)
NoHugeLengths(in) ==
  \A i \in DOMAIN in : in[i] \in {91, 123, 155, 187} /\ i < Len(in) => in[i + 1] < 64

(* The JavaScript check accepts deterministic encodings and nothing else,  *)
(* and never but with an error.  The Go check accepts them all; it accepts *)
(* something else only where a length has the top bits of an int, and      *)
(* refuses with an error, not a panic, nothing that JavaScript accepts.    *)
ChecksAreExact ==
  of = "octets" =>
    LET in == FlattenSeq(parts)
        go == Go!Deterministic(in)
        js == Js!Deterministic(in)
    IN /\ js \in {"ok", "error"}
       /\ js = "ok" <=> IsDeterministic(in)
       /\ js = "ok" => go = "ok"
       /\ NoHugeLengths(in) => (go = "ok" <=> js = "ok")

-----------------------------------------------------------------------------
(* Calls of an Encoder, and the calls of a Decoder that read the same.     *)

Entry(key, value) == [key |-> key, value |-> value]
NumberKey == Entry(EncodeUint(Uint(7)), EncodeByteString(<<1>>))
TextKey(text) == Entry(EncodeTextString(text), EncodeByteString(<<Len(text)>>))
ByteKey(bs) == Entry(EncodeByteString(bs), EncodeUint(Uint(Len(bs))))

Repeat(n, octet) == [i \in 1..n |-> octet]

Numbers ==
  { Uint(m) : m \in {0, 23, 24, 255, 256, 65535, 65536} }
    \union { TwoTo32, <<0, 0, 0, 0, 255, 255, 255, 255>>, TwoTo63, Complement(TwoTo63), Ones }

Calls ==
  [call : {"uint", "int"}, n : Numbers]
    \union [call : {"bytes", "text"}, bs :
              { <<>>, <<97>>, <<255>>, <<195, 169>>, <<195>>, <<237, 160, 128>>,
                <<240, 159, 147, 156>>, <<97, 128>>, Repeat(23, 98), Repeat(24, 98),
                Repeat(256, 98) }]
    \union [call : {"array"}, n : {0, 1, 2, 24}]
    \union [call : {"bool"}, b : BOOLEAN]
    \union [call : {"map"}, entries :
              { <<>>, <<TextKey(<<98>>), TextKey(<<97>>)>>, <<TextKey(<<97, 97>>), TextKey(<<98>>)>>,
                <<TextKey(<<97>>), NumberKey, ByteKey(<<97>>)>>,
                <<ByteKey(<<98>>), TextKey(<<97>>), ByteKey(<<98>>)>> }]

LastCalls ==
  [call : {"uint"}, n : {Uint(24)}] \union [call : {"text"}, bs : {<<97>>}]
    \union [call : {"array"}, n : {0}]

AddCall ==
  /\ Len(parts) < MaxCalls
  /\ \E call \in IF Len(parts) = MaxCalls - 1 THEN LastCalls ELSE Calls : Add("calls", call)

Outcome(ok, out) == [ok |-> ok, out |-> out]

Encode(c) ==
  CASE c.call = "uint" -> Outcome(TRUE, EncodeUint(c.n))
    [] c.call = "int" -> Outcome(TRUE, EncodeInt(c.n))
    [] c.call = "bytes" -> Outcome(TRUE, EncodeByteString(c.bs))
    [] c.call = "text" -> Outcome(CanEncodeText(c.bs), EncodeTextString(c.bs))
    [] c.call = "array" -> Outcome(TRUE, EncodeArrayHeader(c.n))
    [] c.call = "bool" -> Outcome(TRUE, EncodeBool(c.b))
    [] c.call = "map" -> EncodeMap(c.entries)

IsNegative(c) == c.call = "int" /\ c.n[1] >= 128

(* The decoder's call for what has been written; nothing in the package    *)
(* decodes a negative number or a Boolean value.                           *)
Reads(c, in) ==
  CASE c.call \in {"uint", "int"} -> DecodeUint(in)
    [] c.call = "bytes" -> DecodeByteString(in)
    [] c.call = "text" -> DecodeTextString(in)
    [] c.call = "array" -> DecodeArrayHeader(in)
    [] c.call = "map" -> DecodeMapHeader(in)

ReadsSame(c, in, rest) ==
  LET got == Reads(c, in)
  IN CASE c.call = "bool" \/ IsNegative(c) -> TRUE
       [] c.call \in {"uint", "int"} -> got = Ok(c.n, rest)
       [] c.call \in {"bytes", "text"} -> got = Ok(c.bs, rest)
       [] c.call = "array" -> got = Ok(Uint(c.n), rest)
       [] c.call = "map" ->
            /\ got.ok /\ got.value = Uint(Len(c.entries))
            /\ \E order \in SetToSeqs(ToSet(c.entries)) :
                 got.rest = FlattenSeq([i \in DOMAIN order |-> order[i].key \o order[i].value])
                              \o rest

(* The items still to come after the calls; 0 if the last one is complete. *)
Pending(calls) ==
  FoldLeft(LAMBDA n, c : (IF n = 0 THEN 0 ELSE n - 1) + (IF c.call = "array" THEN c.n ELSE 0),
           0, calls)

(* What calls of an Encoder have written without an error reads back call  *)
(* for call with the Decoder, every number and length with all of its bits,*)
(* and is accepted as deterministic by both checks when the last item is   *)
(* complete.  A text that is not UTF-8 and a repeated key are refused.     *)
EncodedReadsBack ==
  of = "calls" =>
    LET outs == [i \in DOMAIN parts |-> Encode(parts[i]).out]
        octets == FlattenSeq(outs)
        isSupported == \A i \in DOMAIN parts : parts[i].call # "bool" /\ ~IsNegative(parts[i])
        allOk == \A i \in DOMAIN parts : Encode(parts[i]).ok
    IN /\ \A i \in DOMAIN parts : parts[i].call = "map" =>
            (Encode(parts[i]).ok <=> Cardinality({e.key : e \in ToSet(parts[i].entries)})
                                       = Len(parts[i].entries))
       /\ allOk =>
            /\ \A i \in DOMAIN parts :
                 ReadsSame(parts[i], FlattenSeq(SubSeq(outs, i, Len(outs))),
                           FlattenSeq(SubSeq(outs, i + 1, Len(outs))))
            /\ Pending(parts) = 0 =>
                 /\ Js!Deterministic(octets) = IF isSupported THEN "ok" ELSE "error"
                 /\ Go!Deterministic(octets) = Js!Deterministic(octets)

-----------------------------------------------------------------------------
(* Whole octets, and all beginnings that lack the end. *)
Beginnings(in) == {SubSeq(in, 1, k) : k \in 0..(Len(in) - 1)}

IsDer(octets) == octets # <<>> /\ octets[1] = 48

-----------------------------------------------------------------------------
(* Chains in memory. *)

Options == { None, Some(<<>>), Some(<<1>>) }

AddCertificate ==
  /\ Len(parts) < MaxCerts
  /\ \E cert \in { <<48>>, <<48, 1>> }, ocsp \in Options, sct \in Options :
       Add("certificates", [cert |-> cert, ocsp |-> ocsp, sct |-> sct])

OnlyTheFirstHasOcsp(chain) == \A i \in DOMAIN chain : chain[i].ocsp # None <=> i = 1

(* A chain of which the first certificate and no other has an OCSP response*)
(* is written so that it is read back with all that it had, empty responses*)
(* and lists among them, and is refused if any of its end is missing; both *)
(* checks of deterministic encoding accept it.                             *)
IsWrittenAs(chain, out) ==
  /\ ReadCertChain(out) = Ok(chain, <<>>)
  /\ \A in \in Beginnings(out) : ~ReadCertChain(in).ok
  /\ Go!Deterministic(out) = "ok" /\ Js!Deterministic(out) = "ok"

-----------------------------------------------------------------------------
(* Files of anyone: entries come in any order, again, or are unknown.      *)

CertEntry(key, value) == EncodeTextString(key) \o EncodeByteString(value)

Items ==
  { CertEntry(CertKey, <<48>>), CertEntry(CertKey, <<48, 1>>), CertEntry(CertKey, <<>>),
    CertEntry(OcspKey, <<>>), CertEntry(OcspKey, <<1>>), CertEntry(SctKey, <<2>>), CertEntry(<<120>>, <<3>>) }

MapOf(n, items) == EncodeTypedUint(Map, Uint(n)) \o FlattenSeq(items)

AddToFile ==
  \/ /\ parts = <<>>
     /\ \E n \in 1..3, magic \in { MagicString, <<97>> } :
          Add("chain file", EncodeArrayHeader(n) \o EncodeTextString(magic))
  \/ /\ Len(parts) = 1
     /\ \E items \in BoundedSeq(Items, 3) : Add("chain file", MapOf(Len(items), items))
  \/ /\ Len(parts) \in 2..MaxCerts
     /\ \E items \in BoundedSeq(Items, 1), n \in 0..2 : Add("chain file", MapOf(n, items))

(* A file that is accepted, whatever is in it, gives a chain with a        *)
(* certificate in each place and an OCSP response in the first only, which *)
(* can be written again and is then read the same.                         *)
CanBeWrittenAgain(got) ==
  got.ok =>
    /\ got.value # <<>>
    /\ OnlyTheFirstHasOcsp(got.value)
    /\ \A i \in DOMAIN got.value : IsDer(got.value[i].cert)
    /\ ReadCertChain(Write(got.value)) = Ok(got.value, <<>>)

(* Chain files: see IsWrittenAs and CanBeWrittenAgain.               *)
CertChainsReadBack ==
  /\ of = "certificates" =>
       /\ IsValid(parts) <=> parts # <<>> /\ OnlyTheFirstHasOcsp(parts)
       /\ IsValid(parts) => IsWrittenAs(parts, Write(parts))
  /\ of = "chain file" => CanBeWrittenAgain(ReadCertChain(FlattenSeq(parts)))

-----------------------------------------------------------------------------
(* SCT lists, with octets from 0 to OctetRange - 1. *)

Scts ==
  { [i \in 1..n |-> IF i = 1 THEN version ELSE (i + n) % OctetRange] :
      n \in {0, 1, HeaderLength - 1, HeaderLength, HeaderLength + 1,
             MaxSerializedSCTLength - 4 - HeaderLength, MaxSerializedSCTLength - 2,
             MaxSerializedSCTLength - 1, MaxSerializedSCTLength + 1},
      version \in {0, 1} }

AddSct ==
  /\ Len(parts) < MaxScts
  /\ \E sct \in Scts : Add("SCTs", sct)

RECURSIVE OctetsOf(_)
OctetsOf(scts) == IF scts = <<>> THEN 0 ELSE 2 + Len(Head(scts)) + OctetsOf(Tail(scts))

IsReadableSct(sct) == Len(sct) >= HeaderLength /\ sct[1] = 0
LogIds(scts) == [i \in DOMAIN scts |-> SubSeq(scts[i], 2, HeaderLength)]

IsPrintedFrom(list, unreadable) ==
  /\ PrettyPrintSCT(list) =
       IF unreadable = 0 THEN Printed(LogIds(parts), FALSE)
       ELSE Printed(LogIds(SubSeq(parts, 1, unreadable - 1)), TRUE)
  /\ \A in \in Beginnings(list) \union {Append(list, 0)} :
       PrettyPrintSCT(in) = Printed(<<>>, TRUE)

IsReadFrom(file) ==
  /\ file.ok <=> OctetsOf(parts) < OctetRange * OctetRange
  /\ file.ok =>
       LET chain == ReadCertChain(file.value)
       IN /\ chain.ok
          /\ IsPrintedFrom(chain.value[1].sct[1],
                           SelectInSeq(parts, LAMBDA sct : ~IsReadableSct(sct)))

(* gen-certurl fails exactly if the list would not fit in the two octets of*)
(* its length.  Otherwise dump-certurl finds it in the chain it reads and  *)
(* prints the LogIDs of the SCTs up to the first that is too short or of an*)
(* unknown version, and an error for that one only.  A list that lost its  *)
(* end, or has something behind it, is an error from the start.            *)
SctListsReadBack ==
  of = "SCTs" => IsReadFrom(GenCertUrl(<< <<48>>, <<48, 1>> >>, <<1>>, Some(parts)))
===============================================================================
