------------------------------ MODULE MCFormats -------------------------------
(***************************************************************************)
(* The algorithms of the formats: the CBOR codec, index entries with       *)
(* variants, response headers, certificate chains and SCT lists, structured*)
(* headers, and gen-bundle's choice of exchanges.                          *)
(***************************************************************************)
EXTENDS MCGenBundle, ResponseHeaders, StructuredHeaders

CONSTANTS
  MaxFields,     \* bound: fields of a header
  MaxLexemes     \* bound: pieces of a text

-----------------------------------------------------------------------------
(* Responses that are written and read, and responses of anyone that are   *)
(* read, written and read again.                                           *)

LetterA == 97
LetterB == 98

(* Two spellings of a name with a dash and of one with a space, which keeps*)
(* its case, a name without letters, two that no reader takes.             *)
Names == { <<LetterA, Dash, LetterB>>, <<65, Dash, 66>>, <<LetterA, 32, LetterB>>, <<65, 32, LetterB>>, <<49>>,
           <<Colon, LetterA>>, <<195, 169>>, StatusName }
Values == { <<>>, <<LetterA>>, <<LetterB, Comma>>, <<255>> }

(* The status comes first, then the fields in the order they are added. *)
AddField ==
  \/ parts = <<>> /\ \E status \in {0, 99, 100, 200, 999, 1000} : Add("response", status)
  \/ /\ Len(parts) \in 1..MaxFields
     /\ \E name \in Names, value \in Values : Add("response", [name |-> name, value |-> value])

Response(status, fields) ==
  [status |-> status, body |-> <<1, 2>>,
   header |-> FoldLeft(LAMBDA h, f : HeaderAdd(h, f.name, f.value), <<>>, fields)]

IsAsciiField(f) == IsAscii(f.name) /\ IsAscii(f.value)

(* The values of a name, in the order in which they were added. *)
ValuesAdded(fields, name) ==
  LET same == SelectSeq(fields, LAMBDA f : CanonicalHeaderKey(f.name) = CanonicalHeaderKey(name))
  IN NormalizeHeaderValues([i \in DOMAIN same |-> same[i].value])

LowerKey(name) == CanonicalHeaderKey(ToLower(name))

(* What a reader makes of the fields. *)
HeaderRead(fields, names) ==
  [key \in {LowerKey(n) : n \in names} |->
     << ValuesAdded(fields, CHOOSE n \in names : LowerKey(n) = key) >>]

IsLoadedFrom(out, r, fields, names) ==
  /\ \A k \in 0..(Len(out) - 1) : ~LoadResponse(SubSeq(out, 1, k)).ok
  /\ LoadResponse(out) =
       IF /\ r.status \in 100..999
          /\ \A i \in DOMAIN fields : IsAsciiField(fields[i]) /\ ~IsPseudo(fields[i].name)
       THEN Ok([r EXCEPT !.header = HeaderRead(fields, names)], <<>>)
       ELSE Error

ResponseReadsBack(header, r, fields, names) ==
  /\ header.ok <=>
       /\ StatusName \notin names
       /\ \A m, n \in names : ToLower(m) = ToLower(n) => m = n
  /\ header.ok =>
       /\ Go!Deterministic(header.out) = "ok"
       /\ IsLoadedFrom(EncodeResponse(r), r, fields, names)

WrittenResponseReadsBack(r, fields) ==
  ResponseReadsBack(EncodeHeader(r), r, fields,
                   { CanonicalHeaderKey(f.name) : f \in ToSet(fields) })

(* Maps with entries in any order, repeated, and without a status. *)
ForeignEntries ==
  { [name |-> n, value |-> v] :
      n \in { <<LetterA, Dash, LetterB>>, <<65>>, <<49>>, <<LetterA, 32>>, <<Colon, LetterA>> }, v \in { <<LetterA>>, <<LetterB>> } }
    \union { [name |-> StatusName, value |-> v] : v \in { <<50, 48, 48>>, <<48, 48, 55>>, <<50, 48>> } }

AddForeignEntry ==
  /\ Len(parts) <= MaxFields
  /\ \E e \in ForeignEntries : Add("response of anyone", e)

Octets(e) == EncodeByteString(e.name) \o EncodeByteString(e.value)

ForeignResponse(entries) ==
  EncodeArrayHeader(2)
    \o EncodeByteString(EncodeTypedUint(Map, Uint(Len(entries)))
                          \o FlattenSeq([i \in DOMAIN entries |-> Octets(entries[i])]))
    \o EncodeByteString(<<1>>)

ComeOnce(entries) ==
  \A i, j \in DOMAIN entries : entries[i].name = entries[j].name => i = j

ValueSent(entries, key) ==
  (CHOOSE e \in ToSet(entries) : CanonicalHeaderKey(e.name) = key).value

AcceptedResponseReadsBack(got, entries) ==
  got.ok =>
    /\ DOMAIN got.value.header =
         {CanonicalHeaderKey(e.name) : e \in ToSet(entries)} \ {StatusName}
    /\ ComeOnce(entries) =>
         \A key \in DOMAIN got.value.header :
           got.value.header[key] = << ValueSent(entries, key) >>
    /\ EncodeHeader(got.value).ok
    /\ got.value.status >= 100 => LoadResponse(EncodeResponse(got.value)) = got

(* A response is written unless two of its names differ in nothing but case*)
(* or one is ":status", and then it is read with the values of each name in*)
(* order, unless it has what the reader refuses; a reader refuses it if any*)
(* of its end is missing.  A response that is accepted, whoever wrote it,  *)
(* has the values that its map had for each name, unless the map has a name*)
(* twice (see RepeatedHeadersAreRefused), and can be written and read      *)
(* again, unless its status is below 100.                                  *)
ResponsesReadBack ==
  /\ of = "response" /\ parts # <<>> =>
       WrittenResponseReadsBack(Response(parts[1], Tail(parts)), Tail(parts))
  /\ of = "response of anyone" =>
       AcceptedResponseReadsBack(LoadResponse(ForeignResponse(parts)), parts)

(* go/bundle/decoder.go looks for a name that comes a second time, to end  *)
(* with "Header %q appeared twice", as it does for pseudo headers: a       *)
(* response that is accepted has no name twice.                            *)
RepeatedHeadersAreRefused ==
  (of = "response of anyone" /\ LoadResponse(ForeignResponse(parts)).ok) => ComeOnce(parts)

-----------------------------------------------------------------------------
(* Structured headers written and parsed again, and text of anyone parsed, *)
(* written and parsed again.                                               *)

MCItems ==
  { Item("number", n) : n \in {0, 9, 10, -1, MaxNumber, -MaxNumber - 1} }
    \union { Item("string", s) : s \in
               { <<>>, <<"a", "\"">>, <<"\\">>, <<"\\", "\"">>, <<",", ";">>, <<"unprintable">> } }
    \union { Item("token", t) : t \in { <<>>, <<"a">>, <<"B", "*", "/", "1">>, <<"1">>, <<"a", "=">> } }
    \union { Item("bytes", b) : b \in { <<>>, <<0>>, <<4, 4>>, <<0, 4, 4>>, <<0, 0, 0, 4>> } }
    \union { Nil }

MCKeys == { <<"a">>, <<"a", "_">>, <<"b", "0">>, <<"A">> }

MCParameters == UNION { [keys -> MCItems] : keys \in UNION {kSubset(n, MCKeys) : n \in 0..2} }

AddIdentifier ==
  \/ /\ parts = <<>>
     /\ \E label \in { <<"a">>, <<"E", "b">>, <<"*">> }, params \in MCParameters :
          Add("identifiers", [label |-> label, params |-> params])
  \/ /\ Len(parts) = 1
     /\ \E params \in { <<>>, <<"b">> :> Item("token", <<"a">>) } :
          Add("identifiers", [label |-> <<"b">>, params |-> params])

AddInnerList ==
  \/ parts = <<>> /\ \E list \in BoundedSeq(MCItems, 2) : Add("inner lists", list)
  \/ Len(parts) = 1 /\ \E list \in BoundedSeq(MCItems, 1) : Add("inner lists", list)

Lexemes ==
  { <<"a">>, <<"B">>, <<";", "b">>, <<"=">>, <<",">>, <<" ", "\t">>, <<";">>, <<"\"">>,
    <<"\\", "\"">>, <<"*">>, <<"A", "A">>, <<"-">>, <<"0", "9">>, <<"=", "=">>,
    <<"unprintable">> }

AddLexeme ==
  /\ Len(parts) < MaxLexemes
  /\ \E lexeme \in Lexemes : Add("text", lexeme)

(* What section 3 of the draft that the package names has a text for. *)
IsExpressible(item) ==
  CASE item.type = "string" -> \A c \in ToSet(item.content) : c \notin {"\t", "unprintable"}
    [] item.type = "token" -> item.content \in { <<"a">>, <<"B", "*", "/", "1">> }
    [] item.type = "nil" -> FALSE
    [] OTHER -> TRUE

AreExpressible(params) ==
  /\ <<"A">> \notin DOMAIN params
  /\ \A key \in DOMAIN params : params[key].type = "nil" \/ IsExpressible(params[key])

(* written is text that the parser turns into value again. *)
IsReadAs(written, Parse(_), value) == written.ok /\ Parse(written.out) = Ok(value, <<>>)

(* A value that was parsed can be written, and is parsed again the same. *)
CanBeRewritten(parsed, Parse(_), Serialize(_)) ==
  parsed.ok => IsReadAs(Serialize(parsed.value), Parse, parsed.value)

(* What has a text is written, and parsed again; what has none is refused. *)
WrittenReadsBack(written, hasText, Parse(_), value) ==
  IF hasText THEN IsReadAs(written, Parse, value) ELSE ~written.ok

(* What the writer writes, the parser reads as the same labels, parameters *)
(* and items: quotes, separators and asterisks in a value end nothing too  *)
(* early, numbers keep their range and octets their number.  The writer    *)
(* refuses only what has no text.  What the parser accepts can be written. *)
StructuredHeadersReadBack ==
  /\ of = "identifiers" =>
       WrittenReadsBack(
         SerializeParameterisedList(parts),
         /\ parts # <<>>
         /\ \A i \in DOMAIN parts : parts[i].label # <<"*">> /\ AreExpressible(parts[i].params),
         ParseParameterisedList, parts)
  /\ of = "inner lists" =>
       WrittenReadsBack(
         SerializeListOfLists(parts),
         /\ parts # <<>>
         /\ \A i \in DOMAIN parts :
              parts[i] # <<>> /\ \A j \in DOMAIN parts[i] : IsExpressible(parts[i][j]),
         ParseListOfLists, parts)
  /\ of = "text" =>
       /\ CanBeRewritten(ParseParameterisedList(FlattenSeq(parts)),
                         ParseParameterisedList, SerializeParameterisedList)
       /\ CanBeRewritten(ParseListOfLists(FlattenSeq(parts)),
                         ParseListOfLists, SerializeListOfLists)

-----------------------------------------------------------------------------
(* One sort of input in a behaviour.                                       *)

Sorts ==
  { "octets", "calls", "responses of a URL", "certificates", "chain file", "SCTs", "identifiers",
    "inner lists", "text", "response", "response of anyone", "HAR", "URL list", "directory" }

Init == \E sort \in Sorts : Start(sort)

Next ==
  \/ AddOctets
  \/ AddCall
  \/ AddEntry
  \/ AddCertificate
  \/ AddToFile
  \/ AddSct
  \/ AddIdentifier
  \/ AddInnerList
  \/ AddLexeme
  \/ AddField
  \/ AddForeignEntry
  \/ AddHarEntry
  \/ AddLine
  \/ AddFile

Spec == Init /\ [][Next]_<<of, parts>>
===============================================================================
