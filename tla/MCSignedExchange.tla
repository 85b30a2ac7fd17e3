--------------------------- MODULE MCSignedExchange ---------------------------
(***************************************************************************)
(* Workloads for SignedExchange.  Breadth has one file of each of many     *)
(* exchanges and signers; Mixing has two files of a few, so that fields,   *)
(* signatures and certificates of the two can meet; Caching has headers of *)
(* several values; Oversize has a Signature header that is too long.       *)
(***************************************************************************)
EXTENDS SignedExchange

Url(scheme, host, len) == [scheme |-> scheme, host |-> host, len |-> len]

Page     == Url("https", "a", 1)
Page2    == Url("https", "a", 2)
Plain    == Url("http", "a", 1)
Long     == Url("https", "a", Field2)
Validity == Url("https", "a", 1)
Foreign  == Url("https", "b", 1)
CertA    == Url("https", "c", 1)
CertHttp == Url("http", "c", 1)
CertLong == Url("data", "", MaxSigLength)
CertFull == Url("data", "", Field3 - SignatureLength)

Cert1 == [id |-> "cert1", key |-> "k1", supported |-> TRUE]
Cert2 == [id |-> "cert2", key |-> "k2", supported |-> TRUE]
CertX == [id |-> "certX", key |-> "k1", supported |-> FALSE]

Values(d) == <<<<Token(d)>>>>
ContentType == [n \in {"content-type"} |-> Values("html")]
One(name, d) == [n \in {name} |-> Values(d)]
With(h, name, d) == [n \in DOMAIN h \cup {name} |->
                       IF n = name THEN Values(d) ELSE h[n]]

Ex(ver, uri, method, reqh, status, resph) ==
  [ver |-> ver, uri |-> uri, method |-> method, reqh |-> reqh,
   status |-> status, resph |-> resph, sigs |-> None,
   payload |-> [enc |-> "none", content |-> "body", rs |-> 0]]

Get200(ver, uri) == Ex(ver, uri, "GET", NoHeaders, 200, ContentType)

Signer(key, certs, certUrl, validityUrl, date, expires) ==
  [key |-> key, certs |-> certs, certUrl |-> certUrl,
   validityUrl |-> validityUrl, date |-> date, expires |-> expires]

S1 == Signer("k1", <<Cert1>>, CertA, Validity, 1, 2)
S2 == Signer("k2", <<Cert2>>, CertA, Validity, 0, SevenDays)

-----------------------------------------------------------------------------
BreadthExchanges ==
  {Get200(v, Page) : v \in {"1b1", "1b2", "1b3"}}
  \cup {Get200("1b3", Plain)}
  \cup {Get200("1b2", Long)}
  \cup {Ex("1b2", Page, m, One("accept", "any"), 200, ContentType) : m \in {"HEAD", "POST"}}
  \cup {Ex("1b1", Page, "GET", One("cookie", "c"), 200, ContentType)}
  \cup {Ex("1b2", Page, "GET", One(h, "u"), 200, ContentType) : h \in {":url", ":method"}}
  \cup {Ex("1b1", Page, "GET", One(":url", "u"), 200, ContentType)}
  \cup {Ex("1b3", Page, "GET", NoHeaders, 200, h) :
          h \in {NoHeaders, One(":status", "s"), With(ContentType, "set-cookie", "s"),
                 With(With(ContentType, "etag", "e"), "vary", "v")}}
  \cup {Ex("1b3", Page, "GET", NoHeaders, 302, ContentType),
        Ex("1b3", Page, "GET", NoHeaders, 302, With(ContentType, "expires", "t")),
        Ex("1b3", Page, "GET", NoHeaders, 302, With(ContentType, "cache-control", "public")),
        Ex("1b3", Page, "GET", NoHeaders, 200, With(ContentType, "cache-control", "private")),
        Ex("1b3", Page, "GET", NoHeaders, 999, With(ContentType, "expires", "t"))}

BreadthSigners ==
  {S1,
   Signer("k1", <<Cert1>>, CertA, Validity, 0, 0),
   Signer("k2", <<Cert1>>, CertA, Validity, 0, 1),
   Signer("k1", <<CertX>>, CertA, Validity, 0, 1),
   Signer("k1", <<>>, CertA, Validity, 0, 1),
   Signer("k1", <<Cert1>>, CertA, Foreign, 0, 1),
   Signer("k1", <<Cert1>>, CertHttp, Validity, 0, 1),
   Signer("k1", <<Cert1>>, CertLong, Validity, 0, 1),
   Signer("k1", <<Cert1>>, CertFull, Validity, 0, 1),
   Signer("k1", <<Cert1>>, CertA, Validity, 0, SevenDays + 1)}

Breadth ==
  [exchanges   |-> BreadthExchanges,
   recordSizes |-> {MaxMIRecordSize, MaxMIRecordSize + 1},
   additions   |-> {<<"etag", <<Token("e")>>>>},
   signers     |-> BreadthSigners,
   chains      |-> {None, <<Cert1>>, <<CertX>>},
   maxFiles    |-> 1,
   maxSignings |-> 1]

Mixing ==
  [exchanges   |-> {Get200("1b3", Page), Get200("1b3", Page2), Get200("1b2", Page)},
   recordSizes |-> {MaxMIRecordSize},
   additions   |-> {},
   signers     |-> {S1, S2},
   chains      |-> {<<Cert1>>, <<Cert2>>},
   maxFiles    |-> 2,
   maxSignings |-> 2]

Caching ==
  [Mixing EXCEPT
     !.additions   = {<<"cache-control", <<Token(v)>>>> : v \in {"public", "no-store"}}
                       \cup {<<"digest", <<Token("other")>>>>},
     !.signers     = {S1},
     !.chains      = {<<Cert1>>},
     !.maxFiles    = 1,
     !.maxSignings = 1]

Oversize ==
  [Mixing EXCEPT
     !.exchanges   = {Get200("1b1", Page), Get200("1b2", Page)},
     !.signers     = {S1, Signer("k1", <<Cert1>>, CertLong, Validity, 0, 1)},
     !.chains      = {<<Cert1>>},
     !.maxFiles    = 1,
     !.maxSignings = 1]

MCWorkloads == {Breadth, Mixing, Caching}
OversizeWorkloads == {Oversize}

=============================================================================
