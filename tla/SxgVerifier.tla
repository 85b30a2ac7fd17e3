----------------------------- MODULE SxgVerifier -----------------------------
(***************************************************************************)
(* What Exchange.Verify decides of one signature of the Signature header:  *)
(* go/signedexchange/verifier.go and stateful_headers.go.  The loop over   *)
(* the signatures is in SignedExchange.                                    *)
(*                                                                         *)
(* A signature is a record [complete, sig, integrity, certUrl, certSha256, *)
(* validityUrl, date, expires], complete when every parameter is there     *)
(* with its type; a certificate is [id, key, supported].                   *)
(***************************************************************************)
EXTENDS SxgFormat

CONSTANTS
  MaxMIRecordSize,   \* 16384
  SevenDays          \* 7*24*time.Hour, in units of the clock

ASSUME SxgVerifierAssumption ==
  MaxMIRecordSize \in Nat \ {0} /\ SevenDays \in Nat \ {0}

IntegrityIdentifier(v) ==
  IF v = "1b1" THEN "mi-draft2" ELSE "digest/mi-sha256-03"

(* The header value that the MICE encoder returns for a payload. *)
Digest(payload) == [d |-> "mi", of |-> payload]
Token(d) == [d |-> d]

StatefulRequestHeaders ==
  {"authorization", "cookie", "cookie2", "proxy-authorization",
   "sec-websocket-key"}

UncachedHeaders ==
  {"connection", "keep-alive", "proxy-connection", "trailer",
   "transfer-encoding", "upgrade", "authentication-control",
   "authentication-info", "clear-site-data", "optional-www-authenticate",
   "proxy-authenticate", "proxy-authentication-info", "public-key-pins",
   "sec-websocket-accept", "set-cookie", "set-cookie2", "setprofile",
   "strict-transport-security", "www-authenticate"}

(* Two URLs, both of which url.Parse accepts, of one origin. *)
IsSameOrigin(u1, u2) ==
  /\ "unparsable" \notin {u1.scheme, u2.scheme}
  /\ u1.scheme = u2.scheme
  /\ u1.host = u2.host

TimestampsEverValid(s, at) ==   \* a slip: the expiry is not compared
  s.expires - s.date <= SevenDays /\ at >= s.date

(* A span of up to seven days, with the verification time in it. *)
TimestampsValid(s, at) ==
  /\ s.expires - s.date <= SevenDays
  /\ at >= s.date
  /\ at <= s.expires

(* The chain is what the fetcher returned, None if that is no chain. *)
SignatureVerifies(e, s, at, chain) ==
  /\ chain # None
  /\ chain[1].supported
  /\ TimestampsValid(s, at)
  /\ MessageSerializable(e)
  /\ s.certSha256 = <<chain[1].id>>
  /\ s.sig = [key |-> chain[1].key,
              msg |-> SignedMessage(e, <<chain[1].id>>, s.validityUrl,
                                    s.date, s.expires)]

(* NewDecoder and ReadAll: the digest is that of an undamaged encoding     *)
(* whose record size is within the limit.  MiceDecoder is the detail.      *)
PayloadVerifies(e, s) ==
  /\ s.integrity = IntegrityIdentifier(e.ver)
  /\ Get(e.resph, DigestHeaderName(e.ver)) = <<Digest(e.payload)>>
  /\ e.payload.enc = MiceEncoding(e.ver)
  /\ e.payload.rs <= MaxMIRecordSize

VerifySignature(e, s, at, chain) ==
  /\ SignatureVerifies(e, s, at, chain)
  /\ ~HasRequestMap(e.ver) => Get(e.resph, "content-type") # <<>>
  /\ PayloadVerifies(e, s)

KnownStatus == {200, 201, 203, 204, 206, 300, 301, 302, 404, 405, 410, 414,
                500, 501}
CacheableStatusCodes ==
  {200, 203, 204, 206, 300, 301, 404, 405, 410, 414, 501}

(* Only the first Cache-Control value of the map is looked at. *)
IsCacheable(e) ==
  LET directives == {t.d : t \in Range(Get(e.resph, "cache-control"))}
  IN /\ e.status \in KnownStatus
     /\ {"no-store", "private"} \cap directives = {}
     /\ \/ Get(e.resph, "expires") # <<>>
        \/ {"max-age", "s-maxage", "public"} \cap directives # {}
        \/ e.status \in CacheableStatusCodes

VerifyHeaders(e) ==
  /\ DOMAIN e.reqh \cap StatefulRequestHeaders = {}
  /\ DOMAIN e.resph \cap UncachedHeaders = {}

(* One turn of the loop of Verify. *)
SignatureAccepted(e, s, at, chain) ==
  /\ s.complete
  /\ IsSameOrigin(s.validityUrl, e.uri)
  /\ VerifySignature(e, s, at, chain)
  /\ IF HasRequestMap(e.ver) THEN e.method \in {"GET", "HEAD"}
                             ELSE IsCacheable(e)
  /\ VerifyHeaders(e)

=============================================================================
