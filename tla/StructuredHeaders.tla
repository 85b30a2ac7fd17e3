--------------------------- MODULE StructuredHeaders ---------------------------
(***************************************************************************)
(* The parser and the writer of structured headers (go/signedexchange/     *)
(* structuredheader).  Text is a sequence of characters, of which there are*)
(* those in Alphabet.  Numbers have a range of their own in place of that  *)
(* of int64.                                                               *)
(***************************************************************************)
EXTENDS Results, Integers, Sequences, SequencesExt

CONSTANT MaxNumber    \* 2^63 - 1

ASSUME StructuredHeadersAssumption == MaxNumber \in Nat

Digits == <<"0", "1", "2", "3", "4", "5", "6", "7", "8", "9">>
Upper == <<"A", "B", "C", "D", "E", "F", "G", "H", "I", "J", "K", "L", "M",
           "N", "O", "P", "Q", "R", "S", "T", "U", "V", "W", "X", "Y", "Z">>
Lower == <<"a", "b", "c", "d", "e", "f", "g", "h", "i", "j", "k", "l", "m",
           "n", "o", "p", "q", "r", "s", "t", "u", "v", "w", "x", "y", "z">>

(* In the order of their codes; the last one stands for any character that *)
(* is not printable ASCII and does not break a line.                       *)
Alphabet == <<"\t", " ", "\"", "%", "*", "+", ",", "-", ".", "/">> \o Digits
              \o <<":", ";", "=">> \o Upper \o <<"\\", "_">> \o Lower \o <<"unprintable">>

PlacesIn(cs) == [c \in ToSet(cs) |-> SelectInSeq(cs, LAMBDA d : d = c)]
Code == PlacesIn(Alphabet)
DigitValue == [c \in ToSet(Digits) |-> PlacesIn(Digits)[c] - 1]

IsOWS(c) == c \in {" ", "\t"}
IsDigit(c) == c \in DOMAIN DigitValue
IsLCAlpha(c) == c \in ToSet(Lower)
IsAlpha(c) == IsLCAlpha(c) \/ c \in ToSet(Upper)
IsKeyChar(c) == IsLCAlpha(c) \/ IsDigit(c) \/ c \in {"_", "-"}
IsTokenChar(c) == IsAlpha(c) \/ IsDigit(c) \/ c \in {"_", "-", ".", ":", "%", "*", "/"}
IsStringChar(c) == c \notin {"\t", "unprintable"}

(* An item; nil is the value of a parameter without one. *)
Item(type, content) == [type |-> type, content |-> content]
Nil == Item("nil", <<>>)

(* The longest beginning of in with such characters, and what follows it. *)
SpanLength(in, Is(_)) ==
  LET others == {i \in DOMAIN in : ~Is(in[i])}
  IN IF others = {} THEN Len(in) ELSE (CHOOSE i \in others : \A j \in others : i <= j) - 1
After(in, n) == SubSeq(in, n + 1, Len(in))
StartsWith(in, c) == in # <<>> /\ in[1] = c

DiscardLeadingOWS(in) == After(in, SpanLength(in, IsOWS))

-----------------------------------------------------------------------------
(* base64.StdEncoding, and RawStdEncoding for lengths that 4 does not      *)
(* divide: four characters of six bits for three octets.                   *)

SextetChars == Upper \o Lower \o Digits \o <<"+", "/">>
Sextet == PlacesIn(SextetChars)    \* more by 1 than the value

IsBase64(cs) == \A i \in DOMAIN cs : cs[i] \in DOMAIN Sextet

Bits(cs, i) == IF i \in DOMAIN cs THEN Sextet[cs[i]] - 1 ELSE 0

(* The octet number i, counted from 0, of the characters. *)
OctetAt(cs, i) ==
  LET first == 4 * (i \div 3) + 1
      group == (Bits(cs, first) * 64 + Bits(cs, first + 1)) * 4096
                 + Bits(cs, first + 2) * 64 + Bits(cs, first + 3)
  IN CASE i % 3 = 0 -> group \div 65536
       [] i % 3 = 1 -> (group \div 256) % 256
       [] i % 3 = 2 -> group % 256

WithoutPadding(cs) ==
  IF Len(cs) % 4 # 0 THEN cs
  ELSE SubSeq(cs, 1, Len(cs) - (IF IsSuffix(<<"=", "=">>, cs) THEN 2
                                ELSE IF IsSuffix(<<"=">>, cs) THEN 1 ELSE 0))

DecodeBase64(cs) ==
  LET data == WithoutPadding(cs)
  IN IF IsBase64(data) /\ Len(data) % 4 # 1
     THEN Ok([i \in 1..((Len(data) * 3) \div 4) |-> OctetAt(data, i - 1)], <<>>)
     ELSE Error

EncodeBase64(octets) ==
  LET at(i) == IF i \in DOMAIN octets THEN octets[i] ELSE 0
      sextet(i) ==   \* number i, counted from 0
        LET first == 3 * (i \div 4) + 1
            group == (at(first) * 256 + at(first + 1)) * 256 + at(first + 2)
        IN CASE i % 4 = 0 -> group \div 262144
             [] i % 4 = 1 -> (group \div 4096) % 64
             [] i % 4 = 2 -> (group \div 64) % 64
             [] i % 4 = 3 -> group % 64
      length == (Len(octets) * 8 + 5) \div 6
  IN [i \in 1..(4 * ((Len(octets) + 2) \div 3)) |->
        IF i <= length THEN SextetChars[sextet(i - 1) + 1] ELSE "="]

-----------------------------------------------------------------------------
(* The parser: each function takes the value from the front of in. *)

(* parseKey and parseToken *)
ParseWord(in, IsFirst(_), IsNext(_)) ==
  IF in = <<>> THEN Error
  ELSE IF IsFirst(in[1])
       THEN Ok(SubSeq(in, 1, SpanLength(in, IsNext)), After(in, SpanLength(in, IsNext)))
       ELSE Error

ParseKey(in) == ParseWord(in, IsLCAlpha, IsKeyChar)
ParseToken(in) == ParseWord(in, IsAlpha, IsTokenChar)

(* parseNumber: a sign and no digits is an error of strconv.ParseInt. *)
ParseNumber(in) ==
  LET sign == IF in[1] = "-" THEN 1 ELSE 0
      length == SpanLength(After(in, sign), IsDigit)
      n == FoldLeft(LAMBDA m, c : IF m > MaxNumber + 1 THEN m ELSE 10 * m + DigitValue[c],
                    0, SubSeq(in, sign + 1, sign + length))
  IN IF length = 0 \/ n > MaxNumber + sign THEN Error
     ELSE Ok(Item("number", IF sign = 1 THEN -n ELSE n), After(in, sign + length))

(* parseString, after the opening quote. *)
RECURSIVE ParseStringRest(_, _)
ParseStringRest(in, value) ==
  IF in = <<>> THEN Error
  ELSE IF in[1] = "\\"
       THEN IF Len(in) > 1 /\ in[2] \in {"\"", "\\"}
            THEN ParseStringRest(After(in, 2), Append(value, in[2]))
            ELSE Error
  ELSE IF in[1] = "\"" THEN Ok(Item("string", value), Tail(in))
  ELSE IF IsStringChar(in[1]) THEN ParseStringRest(Tail(in), Append(value, in[1]))
  ELSE Error

(* parseByteSequence, after the opening asterisk. *)
ParseByteSequenceRest(in) ==
  LET length == SpanLength(in, LAMBDA c : c # "*")
  IN IF length = Len(in) THEN Error
     ELSE Then(DecodeBase64(SubSeq(in, 1, length)),
               LAMBDA octets, none : Ok(Item("bytes", octets), After(in, length + 1)))

ParseItem(in) ==
  IF in = <<>> THEN Error
  ELSE IF in[1] = "-" \/ IsDigit(in[1]) THEN ParseNumber(in)
  ELSE IF in[1] = "\"" THEN ParseStringRest(Tail(in), <<>>)
  ELSE IF in[1] = "*" THEN ParseByteSequenceRest(Tail(in))
  ELSE Then(ParseToken(in), LAMBDA token, rest : Ok(Item("token", token), rest))

(* The loop of parseParameterisedIdentifier over the parameters, which are *)
(* a function from keys to items.                                          *)
RECURSIVE ParseParameters(_, _)
ParseParameters(in, params) ==
  LET semicolon == DiscardLeadingOWS(in)
  IN IF ~StartsWith(semicolon, ";") THEN Ok(params, semicolon)
     ELSE Then(ParseKey(DiscardLeadingOWS(Tail(semicolon))), LAMBDA key, value :
       IF key \in DOMAIN params THEN Error
       ELSE Then(IF StartsWith(value, "=") THEN ParseItem(Tail(value)) ELSE Ok(Nil, value),
                 LAMBDA item, rest : ParseParameters(rest, (key :> item) @@ params)))

ParseParameterisedIdentifier(in) ==
  Then(ParseToken(in), LAMBDA label, afterLabel :
    Then(ParseParameters(afterLabel, <<>>), LAMBDA params, rest :
      Ok([label |-> label, params |-> params], rest)))

RECURSIVE ParseIdentifiers(_, _)
ParseIdentifiers(in, items) ==
  Then(ParseParameterisedIdentifier(in), LAMBDA item, after :
    LET rest == DiscardLeadingOWS(after)
    IN IF rest = <<>> THEN Ok(Append(items, item), <<>>)
       ELSE IF rest[1] = ","
            THEN ParseIdentifiers(DiscardLeadingOWS(Tail(rest)), Append(items, item))
       ELSE Error)

ParseParameterisedList(in) == ParseIdentifiers(DiscardLeadingOWS(in), <<>>)

RECURSIVE ParseLists(_, _, _)
ParseLists(in, topList, innerList) ==
  Then(ParseItem(in), LAMBDA item, after :
    LET rest == DiscardLeadingOWS(after)
        inner == Append(innerList, item)
        next == DiscardLeadingOWS(Tail(rest))
    IN IF rest = <<>> THEN Ok(Append(topList, inner), <<>>)
       ELSE IF rest[1] = "," THEN ParseLists(next, Append(topList, inner), <<>>)
       ELSE IF rest[1] = ";" THEN ParseLists(next, topList, inner)
       ELSE Error)

ParseListOfLists(in) == ParseLists(DiscardLeadingOWS(in), <<>>, <<>>)
-----------------------------------------------------------------------------
(* The writer.  What cannot be written makes the whole an error. *)

Written(out) == [ok |-> TRUE, out |-> out]

(* The parts, with a separator between them. *)
Joined(written, separator) ==
  IF written = <<>> \/ \E i \in DOMAIN written : ~written[i].ok THEN Error
  ELSE Written(written[1].out \o
         FlattenSeq([i \in 1..(Len(written) - 1) |-> separator \o written[i + 1].out]))

IsWord(cs, IsFirst(_), IsNext(_)) ==
  cs # <<>> /\ IsFirst(cs[1]) /\ \A i \in DOMAIN cs : IsNext(cs[i])

IsValidKey(cs) == IsWord(cs, IsLCAlpha, IsKeyChar)

(* Mutant of IsValidToken: the first character is like the others. *)
IsValidTokenAnywhere(cs) == IsWord(cs, IsTokenChar, IsTokenChar)

IsValidToken(cs) == IsWord(cs, IsAlpha, IsTokenChar)

RECURSIVE Decimal(_)
Decimal(n) == IF n < 10 THEN <<Digits[n + 1]>> ELSE Append(Decimal(n \div 10), Digits[(n % 10) + 1])

(* strconv.Quote, of printable ASCII. *)
Escaped(c) == IF c \in {"\"", "\\"} THEN <<"\\", c>> ELSE <<c>>

SerializeItem(item) ==
  LET v == item.content
  IN CASE item.type = "number" -> Written(IF v < 0 THEN <<"-">> \o Decimal(-v) ELSE Decimal(v))
       [] item.type = "string" ->
            IF \A i \in DOMAIN v : IsStringChar(v[i])
            THEN Written(<<"\"">> \o FlattenSeq([i \in DOMAIN v |-> Escaped(v[i])]) \o <<"\"">>)
            ELSE Error
       [] item.type = "token" -> IF IsValidToken(v) THEN Written(v) ELSE Error
       [] item.type = "bytes" -> Written(<<"*">> \o EncodeBase64(v) \o <<"*">>)
       [] OTHER -> Error

KeyPrecedes(k, l) ==
  \/ IsStrictPrefix(k, l)
  \/ \E i \in DOMAIN k \cap DOMAIN l :
       /\ Code[k[i]] < Code[l[i]]
       /\ \A j \in 1..(i - 1) : k[j] = l[j]

SerializeParameter(key, item) ==
  IF ~IsValidKey(key) THEN Error
  ELSE IF item.type = "nil" THEN Written(key)
  ELSE Joined(<<Written(key), SerializeItem(item)>>, <<"=">>)

SerializeIdentifier(pi) ==
  LET keys == SetToSortSeq(DOMAIN pi.params, KeyPrecedes)
  IN IF IsValidToken(pi.label)
     THEN Joined(<<Written(pi.label)>>
                   \o [i \in DOMAIN keys |-> SerializeParameter(keys[i], pi.params[keys[i]])],
                 <<";">>)
     ELSE Error

SerializeParameterisedList(pl) ==
  Joined([i \in DOMAIN pl |-> SerializeIdentifier(pl[i])], <<",", " ">>)

SerializeInnerList(list) == Joined([i \in DOMAIN list |-> SerializeItem(list[i])], <<";", " ">>)

SerializeListOfLists(ll) ==
  Joined([i \in DOMAIN ll |-> SerializeInnerList(ll[i])], <<",", " ">>)
===============================================================================
