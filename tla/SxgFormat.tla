------------------------------ MODULE SxgFormat ------------------------------
(***************************************************************************)
(* The application/signed-exchange file of go/signedexchange: the exchange,*)
(* the canonical form of its headers, the message a signature covers, what *)
(* Exchange.Write puts in a file and what ReadExchange makes of a file.    *)
(*                                                                         *)
(* An exchange is a record [ver, uri, method, reqh, status, resph, sigs,   *)
(* payload].  A header map takes a lower-case name to the sequence of its  *)
(* values, and a value is the sequence of its comma-separated tokens.  A   *)
(* file is the sequence of its fields, each [tag, val, size]: val is what  *)
(* the field holds, size its length in octets.  SHA-256 and CBOR are free  *)
(* constructors.                                                           *)
(***************************************************************************)
EXTENDS Integers, Sequences, FiniteSets, SequencesExt, FiniteSetsExt

CONSTANTS
  Field2,          \* 2^16, the values of a two-octet length
  Field3,          \* 2^24, the values of a three-octet length
  MaxSigLength,    \* 16384: maxSignatureHeaderValueLen
  MaxHeaderLength, \* 524288: maxHeaderLen
  SignatureLength  \* octets of a signature besides its cert-url

ASSUME SxgFormatAssumption ==
  /\ {Field2, Field3, SignatureLength} \subseteq Nat \ {0}
  /\ {MaxSigLength, MaxHeaderLength} \subseteq 0..(Field3 - 1)

HasRequestMap(v) == v \in {"1b1", "1b2"}

MiceEncoding(v) == IF v = "1b1" THEN "draft02" ELSE "draft03"
DigestHeaderName(v) == IF v = "1b1" THEN "mi-draft2" ELSE "digest"

(* "No value": a nil slice, an absent URL, octets that were not written.   *)
None == <<>>

-----------------------------------------------------------------------------
(* Headers.                                                                *)

(* http.Header.Get: the first value of the name, or the empty string. *)
Get(headers, name) ==
  IF name \in DOMAIN headers /\ headers[name] # <<>>
  THEN headers[name][1] ELSE <<>>

(* http.Header.Add. *)
Add(headers, name, value) ==
  [n \in DOMAIN headers \cup {name} |->
     IF n # name THEN headers[n]
     ELSE IF n \in DOMAIN headers THEN Append(headers[n], value) ELSE <<value>>]

(* Encoding joins the values of a name with commas, so decoding finds one. *)
Joined(headers) == [n \in DOMAIN headers |-> <<FlattenSeq(headers[n])>>]

NoHeaders == [n \in {} |-> <<>>]

(* A header that has the name of a pseudo-header repeats a key of the map, *)
(* which EncodeMap refuses.                                                *)
HeadersEncodable(e) ==
  /\ ":status" \notin DOMAIN e.resph
  /\ HasRequestMap(e.ver) => ":method" \notin DOMAIN e.reqh
  /\ e.ver = "1b1" => ":url" \notin DOMAIN e.reqh

RequestMapWithoutHeaders(e) ==   \* a slip: encodeHeaders is not called
  IF ~HasRequestMap(e.ver) THEN None
  ELSE <<[method |-> e.method, headers |-> NoHeaders,
          url |-> IF e.ver = "1b1" THEN <<e.uri>> ELSE None]>>

EncodedRequestMap(e) ==
  IF ~HasRequestMap(e.ver) THEN None
  ELSE <<[method |-> e.method, headers |-> Joined(e.reqh),
          url |-> IF e.ver = "1b1" THEN <<e.uri>> ELSE None]>>

EncodedHeaders(e) ==
  [request |-> EncodedRequestMap(e), status |-> e.status,
   headers |-> Joined(e.resph)]

(* The octets of the headers, counted as one for each entry of the maps. *)
HeaderLength(e) ==
  1 + Cardinality(DOMAIN e.resph)
    + (IF HasRequestMap(e.ver)
       THEN 1 + Cardinality(DOMAIN e.reqh)
              + (IF e.ver = "1b1" THEN 1 ELSE 0)
       ELSE 0)

(* Only an https URL is read back, from either place that holds one. *)
ValidFallbackURL(uri) == uri.scheme = "https"

-----------------------------------------------------------------------------
(* Lengths and times in a fixed number of octets.                          *)

(* The range check admits the number of values of the field itself, whose  *)
(* octets are then those of zero.                                          *)
EncodableUint(n, values) == n >= 0 /\ n <= values
StoredUint(n, values) == n % values

(* Eight octets hold every int64 but a negative one, for which the error   *)
(* of EncodeBytesUint is dropped and no octet is written.                  *)
EightOctets(n) == IF n < 0 THEN None ELSE <<n>>

MessageWithoutUrl(e, certSha256, validityUrl, date, expires) ==   \* a slip
  [context     |-> e.ver,
   certSha256  |-> certSha256,
   validityUrl |-> validityUrl,
   date        |-> <<date>>,
   expires     |-> <<expires>>,
   headers     |-> IF HeadersEncodable(e) THEN <<EncodedHeaders(e)>> ELSE None]

(* serializeSignedMessage.  Version b1 signs a CBOR map, whose integers    *)
(* have a sign; the others sign a concatenation.                           *)
SignedMessage(e, certSha256, validityUrl, date, expires) ==
  [context     |-> e.ver,
   certSha256  |-> certSha256,
   validityUrl |-> validityUrl,
   date        |-> IF e.ver = "1b1" THEN <<date>> ELSE EightOctets(date),
   expires     |-> IF e.ver = "1b1" THEN <<expires>> ELSE EightOctets(expires),
   url         |-> IF e.ver = "1b1" THEN None ELSE <<e.uri>>,
   headers     |-> IF HeadersEncodable(e) THEN <<EncodedHeaders(e)>> ELSE None]

(* For b1 the error of the header encoder is dropped, and for the others   *)
(* it is returned.                                                         *)
MessageSerializable(e) == e.ver = "1b1" \/ HeadersEncodable(e)

-----------------------------------------------------------------------------
(* Exchange.Write.                                                         *)

SigLength(sigs) ==
  FoldSeq(LAMBDA s, n : n + SignatureLength + s.certUrl.len, 0, sigs)

Part(tag, val, size) == [tag |-> tag, val |-> val, size |-> size]

(* The writes of Write in their order, each with the check before it. *)
Steps(e) ==
  LET sig == SigLength(e.sigs)
      hdr == HeaderLength(e)
      limited == e.ver # "1b1"
      step(ok, tag, val, size) == [ok |-> ok, part |-> Part(tag, val, size)]
      magic == step(TRUE, "magic", e.ver, 8)
      urlLength == step(EncodableUint(e.uri.len, Field2), "urlLength",
                        StoredUint(e.uri.len, Field2), 2)
      url == step(TRUE, "url", e.uri, e.uri.len)
      sigLength == step((limited => sig <= MaxSigLength) /\ EncodableUint(sig, Field3),
                        "sigLength", StoredUint(sig, Field3), 3)
      headerLength == step((limited => hdr <= MaxHeaderLength) /\ EncodableUint(hdr, Field3),
                           "headerLength", StoredUint(hdr, Field3), 3)
      signatures == step(TRUE, "sig", e.sigs, sig)
      headers == step(TRUE, "headers", EncodedHeaders(e), hdr)
      payload == step(TRUE, "payload", e.payload, 0)
  IN IF limited
     THEN <<magic, urlLength, url, sigLength, headerLength, signatures, headers, payload>>
     ELSE <<magic, sigLength, headerLength, signatures, headers, payload>>

(* The headers are encoded before the first octet is written; a check that *)
(* fails later leaves the fields written so far.                           *)
Written(e) ==
  LET steps == Steps(e)
      bad == {i \in DOMAIN steps : ~steps[i].ok}
      n == IF ~HeadersEncodable(e) THEN 0
           ELSE IF bad = {} THEN Len(steps) ELSE Min(bad) - 1
  IN [ok |-> n = Len(steps), parts |-> [i \in 1..n |-> steps[i].part]]

-----------------------------------------------------------------------------
(* ReadExchange.                                                           *)

Unreadable == [ok |-> FALSE]

(* ReadExchange takes the fields in order.  A stored length that is not    *)
(* the size of its field makes the next field start inside this one, and   *)
(* none of the texts a writer puts there decodes as what is expected.      *)
HasField(file, i, tag) == i \in DOMAIN file /\ file[i].tag = tag
FieldMatches(file, at, of) == file[at].val = file[of].size

(* decodeRequestMap: the URL is a key of the map in b1 alone. *)
HeadersDecode(v, h) ==
  HasRequestMap(v) =>
    LET q == h.request[1] IN
    /\ h.request # None
    /\ v = "1b1" => q.url # None /\ ValidFallbackURL(q.url[1])
    /\ v = "1b2" => q.url = None /\ ":url" \notin DOMAIN q.headers

ReadExchange(file) ==
  LET v == file[1].val
      n == IF v = "1b1" THEN 1 ELSE 3      \* the fields before sigLength
      prologue ==
        /\ HasField(file, 1, "magic")
        /\ n = 3 => /\ HasField(file, 3, "url")
                    /\ FieldMatches(file, 2, 3)
                    /\ ValidFallbackURL(file[3].val)
        /\ HasField(file, n + 4, "headers")
        /\ FieldMatches(file, n + 1, n + 3)
        /\ FieldMatches(file, n + 2, n + 4)
      h == file[n + 4].val
      q == h.request[1]
  IN IF ~prologue \/ ~HeadersDecode(v, h) THEN Unreadable
     ELSE [ok |-> TRUE,
           exchange |->
             [ver     |-> v,
              uri     |-> IF v = "1b1" THEN q.url[1] ELSE file[3].val,
              method  |-> IF HasRequestMap(v) THEN q.method ELSE "GET",
              reqh    |-> IF HasRequestMap(v) THEN q.headers ELSE NoHeaders,
              status  |-> h.status,
              resph   |-> h.headers,
              sigs    |-> file[n + 3].val,
              payload |-> IF HasField(file, n + 5, "payload")
                          THEN file[n + 5].val
                          ELSE [enc |-> "cut", content |-> None, rs |-> 0]]]

=============================================================================
