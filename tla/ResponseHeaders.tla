---------------------------- MODULE ResponseHeaders ----------------------------
(***************************************************************************)
(* Responses in a bundle: Response.EncodeHeader and the encoding of the    *)
(* responses section (go/bundle/encoder.go), and loadResponse with         *)
(* decodeCborHeaders (go/bundle/decoder.go).  Names and values are octets. *)
(* A header is http.Header: a function from names to the sequences of their*)
(* values.                                                                 *)
(***************************************************************************)
EXTENDS Cbor

Colon == 58
Comma == 44
Dash == 45
StatusName == <<Colon, 115, 116, 97, 116, 117, 115>>

IsUpperOctet(o) == o \in 65..90
IsLowerOctet(o) == o \in 97..122
IsDigitOctet(o) == o \in 48..57
IsTokenOctet(o) == IsUpperOctet(o) \/ IsLowerOctet(o) \/ IsDigitOctet(o) \/ o \in {Dash, 46, 95}

IsAscii(bs) == \A i \in DOMAIN bs : bs[i] < 128
IsPseudo(name) == name # <<>> /\ name[1] = Colon

(* strings.ToLower; it changes some octets that are not ASCII as well, and *)
(* no reader takes names with those.                                       *)
LowerOctet(o) == IF IsUpperOctet(o) THEN o + 32 ELSE o
ToLower(bs) == [i \in DOMAIN bs |-> LowerOctet(bs[i])]

(* http.CanonicalHeaderKey: names that are no tokens stay as they are. *)
CanonicalHeaderKey(name) ==
  IF \E i \in DOMAIN name : ~IsTokenOctet(name[i]) THEN name
  ELSE [i \in DOMAIN name |->
          IF (i = 1 \/ name[i - 1] = Dash) /\ IsLowerOctet(name[i]) THEN name[i] - 32
          ELSE IF i > 1 /\ name[i - 1] # Dash THEN LowerOctet(name[i])
          ELSE name[i]]

(* Header.Add and Header.Set *)
ValuesOf(header, key) == IF key \in DOMAIN header THEN header[key] ELSE <<>>
HeaderAdd(header, name, value) ==
  LET key == CanonicalHeaderKey(name)
  IN (key :> Append(ValuesOf(header, key), value)) @@ header
HeaderSet(header, name, value) == (CanonicalHeaderKey(name) :> <<value>>) @@ header

-----------------------------------------------------------------------------
(* Writing *)

RECURSIVE Itoa(_)
Itoa(n) == IF n < 10 THEN <<48 + n>> ELSE Append(Itoa(n \div 10), 48 + (n % 10))

(* Mutant of NormalizeHeaderValues: the first value stands for all. *)
FirstHeaderValue(values) == IF values = <<>> THEN <<>> ELSE values[1]

(* strings.Join(values, ",") *)
NormalizeHeaderValues(values) ==
  FlattenSeq([i \in DOMAIN values |-> IF i = 1 THEN values[i] ELSE <<Comma>> \o values[i]])

HeaderEntry(name, value) == [key |-> EncodeByteString(name), value |-> EncodeByteString(value)]

(* EncodeHeader: [ok, out] of EncodeMap. *)
EncodeHeader(r) ==
  LET names == SetToSeq(DOMAIN r.header)
  IN EncodeMap(<<HeaderEntry(StatusName, Itoa(r.status))>>
       \o [i \in DOMAIN names |->
             HeaderEntry(ToLower(names[i]), NormalizeHeaderValues(r.header[names[i]]))])

(* responsesSection.addResponse, where the header has been encoded. *)
EncodeResponse(r) ==
  EncodeArrayHeader(2) \o EncodeByteString(EncodeHeader(r).out) \o EncodeByteString(r.body)

-----------------------------------------------------------------------------
(* Reading *)

NoHeaders == [headers |-> <<>>, pseudos |-> <<>>]

(* An entry of the map.  Its name is looked up as it is, in lower case,    *)
(* among names that are canonical: a name with a letter is not found, and  *)
(* HeaderSet replaces the value it had.                                    *)
DecodeHeaderEntry(got, in) ==
  Then(DecodeByteString(in), LAMBDA name, afterName :
    Then(DecodeByteString(afterName), LAMBDA value, rest :
      IF ~IsAscii(name) \/ ~IsAscii(value) THEN Error
      ELSE IF ToLower(name) # name THEN Error
      ELSE IF name \in DOMAIN (IF IsPseudo(name) THEN got.pseudos ELSE got.headers) THEN Error
      ELSE IF IsPseudo(name) THEN Ok([got EXCEPT !.pseudos = (name :> value) @@ @], rest)
      ELSE Ok([got EXCEPT !.headers = HeaderSet(@, name, value)], rest)))

(* A map with more entries than there are octets left ends too early. *)
DecodeCborHeaders(in) ==
  Then(DecodeMapHeader(in), LAMBDA n, entries :
    IF Magnitude(n) > Len(entries) THEN Error
    ELSE FoldLeft(LAMBDA got, i : Then(got, DecodeHeaderEntry),
                  Ok(NoHeaders, entries), [i \in 1..Magnitude(n) |-> i]))

IsStatus(bs) == Len(bs) = 3 /\ \A i \in 1..3 : IsDigitOctet(bs[i])
Atoi(bs) == FoldLeft(LAMBDA n, o : 10 * n + (o - 48), 0, bs)

(* loadResponse, of the octets of one response; what follows the map within*)
(* the byte string of the header is not looked at.                         *)
LoadResponse(in) ==
  IF in = <<>> THEN Error
  ELSE IF in[1] # 130 THEN Error
  ELSE Then(DecodeByteString(Tail(in)), LAMBDA header, afterHeader :
    Then(DecodeCborHeaders(header), LAMBDA got, unread :
      IF DOMAIN got.pseudos # {StatusName} THEN Error
      ELSE IF ~IsStatus(got.pseudos[StatusName]) THEN Error
      ELSE Then(DecodeByteString(afterHeader), LAMBDA body, rest :
        IF rest # <<>> THEN Error
        ELSE Ok([status |-> Atoi(got.pseudos[StatusName]), header |-> got.headers,
                 body |-> body], <<>>))))
================================================================================
