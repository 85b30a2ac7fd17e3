---------------------------- MODULE SignedExchange ----------------------------
(***************************************************************************)
(* The life of a signed exchange.  A publisher builds an Exchange with the *)
(* library calls of go/signedexchange, in any order, checks it the way     *)
(* gen-signedexchange does and writes it; files reach a reader whole, cut, *)
(* damaged, or with fields of two files mixed; dump-signedexchange reads   *)
(* one and verifies it at some time, fetching the certificate chain anew   *)
(* for each signature: the server may replace it between two fetches.      *)
(***************************************************************************)
EXTENDS SxgVerifier

(* A workload is what one publisher and its readers are given:             *)
(*   exchanges    the arguments of NewExchange                             *)
(*   recordSizes  the record sizes given to MiEncodePayload                *)
(*   additions    <<name, value>> that a caller adds to ResponseHeaders    *)
(*   signers      [key, certs, certUrl, validityUrl, date, expires]        *)
(*   chains       what a cert-url may serve; None when the fetch fails     *)
(*   maxFiles     bound: files written                                     *)
(*   maxSignings  bound: different signings                                *)
CONSTANTS
  Workloads,
  MaxTime        \* bound: the verification times

PlainToken == [d : STRING]
IsPlainMap(h) == \A n \in DOMAIN h : h[n] \in Seq(Seq(PlainToken))

(* An exchange before it is encoded and signed: no value of its headers is *)
(* the digest of a payload, which MiEncodePayload alone adds.              *)
IsUnsigned(e) ==
  /\ DOMAIN e = {"ver", "uri", "method", "reqh", "status", "resph", "sigs", "payload"}
  /\ e.sigs = None /\ e.uri.len \in Nat
  /\ IsFiniteSet(DOMAIN e.reqh) /\ IsFiniteSet(DOMAIN e.resph)
  /\ IsPlainMap(e.reqh) /\ IsPlainMap(e.resph)

ASSUME SignedExchangeAssumption ==
  /\ MaxTime \in Nat
  /\ \A w \in Workloads :
       /\ \A e \in w.exchanges : IsUnsigned(e)
       /\ \A a \in w.additions : a[2] \in Seq(PlainToken)
       /\ \A s \in w.signers : s.certUrl.len \in Nat

VARIABLES
  workload,   \* the inputs and bounds of this behaviour, which never change
  exchange,   \* the publisher's Exchange, in a sequence of at most one
  signer,     \* the Signer of the last AddSignatureHeader, likewise
  checked,    \* the exchange as it is has passed the publisher's Verify
  signings,   \* what has been signed, by whom (history)
  disk,       \* the files written
  reader      \* the reading in progress, or the last one

vars == <<workload, exchange, signer, checked, signings, disk, reader>>

publisher == <<workload, exchange, signer, checked, signings, disk>>

Idle == [phase |-> "idle"]

Init ==
  /\ workload \in Workloads
  /\ exchange = None /\ signer = None /\ checked = FALSE
  /\ signings = {} /\ disk = <<>>
  /\ reader = Idle

-----------------------------------------------------------------------------
(* The publisher.                                                          *)

New(e) ==
  /\ exchange = None
  /\ Len(disk) < workload.maxFiles /\ Cardinality(signings) < workload.maxSignings
  /\ reader.phase = "idle"
  /\ exchange' = <<e>> /\ signer' = None /\ checked' = FALSE
  /\ UNCHANGED <<workload, signings, disk, reader>>

(* MiEncodePayload refuses a response that has the digest header. *)
MiEncoded(e, recordSize) ==
  LET p == [enc |-> MiceEncoding(e.ver), content |-> e.payload.content,
            rs |-> recordSize]
      h == Add(e.resph, "content-encoding", <<Token("mi-sha256")>>)
  IN [e EXCEPT !.payload = p,
               !.resph = Add(h, DigestHeaderName(e.ver), <<Digest(p)>>)]

MiEncodePayload(recordSize) ==
  /\ exchange # None
  /\ Get(exchange[1].resph, DigestHeaderName(exchange[1].ver)) = <<>>
  /\ exchange' = <<MiEncoded(exchange[1], recordSize)>>
  /\ checked' = FALSE
  /\ UNCHANGED <<workload, signer, signings, disk, reader>>

(* ResponseHeaders is an exported field; one addition of each is enough. *)
AddHeader(a) ==
  /\ exchange # None
  /\ a[2] \notin Range(LET h == exchange[1].resph
                       IN IF a[1] \in DOMAIN h THEN h[a[1]] ELSE <<>>)
  /\ exchange' = <<[exchange[1] EXCEPT !.resph = Add(@, a[1], a[2])]>>
  /\ checked' = FALSE
  /\ UNCHANGED <<workload, signer, signings, disk, reader>>

CertSha256(certs) == IF certs = <<>> THEN None ELSE <<certs[1].id>>

SignatureOf(e, s) ==
  [complete    |-> TRUE,
   sig         |-> [key |-> s.key,
                    msg |-> SignedMessage(e, CertSha256(s.certs),
                                          s.validityUrl, s.date, s.expires)],
   integrity   |-> IntegrityIdentifier(e.ver),
   certUrl     |-> s.certUrl,
   certSha256  |-> CertSha256(s.certs),
   validityUrl |-> s.validityUrl,
   date        |-> s.date,
   expires     |-> s.expires]

(* The header value replaces the one of an earlier call. *)
AddSignatureHeader(s) ==
  /\ exchange # None
  /\ Cardinality(signings) < workload.maxSignings
  /\ s.certUrl.scheme \in {"https", "data"}
  /\ MessageSerializable(exchange[1])
  /\ exchange' = <<[exchange[1] EXCEPT !.sigs = <<SignatureOf(exchange[1], s)>>]>>
  /\ signer' = <<s>>
  /\ checked' = FALSE
  /\ signings' = signings \cup
                   {[exchange |-> [exchange[1] EXCEPT !.sigs = None], signer |-> s]}
  /\ UNCHANGED <<workload, disk, reader>>

(* gen-signedexchange verifies the Exchange it holds at the date of the    *)
(* signature and with the signer's own certificates, and gives up if that  *)
(* fails, unless it runs with -ignoreErrors.                               *)
SelfCheckPasses(e, s) ==
  \E i \in DOMAIN e.sigs : SignatureAccepted(e, e.sigs[i], s.date, s.certs)

SelfCheck ==
  /\ exchange # None /\ signer # None /\ ~checked
  /\ IF SelfCheckPasses(exchange[1], signer[1])
     THEN checked' = TRUE /\ UNCHANGED <<exchange, signer>>
     ELSE exchange' = None /\ signer' = None /\ UNCHANGED checked
  /\ UNCHANGED <<workload, signings, disk, reader>>

(* Write leaves what it wrote before an error. *)
Write ==
  /\ exchange # None
  /\ LET w == Written(exchange[1])
     IN disk' = Append(disk, [file    |-> w.parts,
                              ok      |-> w.ok,
                              source  |-> exchange[1],
                              signer  |-> signer,
                              checked |-> checked])
  /\ exchange' = None /\ signer' = None /\ checked' = FALSE
  /\ UNCHANGED <<workload, signings, reader>>

-----------------------------------------------------------------------------
(* What reaches a reader.                                                  *)

Groups == {{"urlLength", "url"}, {"sigLength", "sig"},
           {"headerLength", "headers"}, {"payload"}}

(* A file has a field once, if it was not cut before it. *)
Has(file, tag) == \E i \in DOMAIN file : file[i].tag = tag
Field(file, tag) == file[CHOOSE i \in DOMAIN file : file[i].tag = tag]

(* f with the fields of a group as g has them. *)
WithFieldsOf(f, g, group) ==
  [i \in DOMAIN f |->
     IF f[i].tag \in group /\ Has(g, f[i].tag) THEN Field(g, f[i].tag) ELSE f[i]]

(* The header maps of two versions have two shapes; the other fields of a  *)
(* version can turn up in a file of another one.                           *)
Mixtures(f, g) ==
  {WithFieldsOf(f, g, group) :
     group \in {x \in Groups : f[1] = g[1] \/ "headers" \notin x}}

Cuts(f) == {SubSeq(f, 1, n) : n \in 1..Len(f)}

Damaged(f) ==
  [i \in DOMAIN f |-> IF f[i].tag # "payload" THEN f[i]
                      ELSE [f[i] EXCEPT !.val.enc = "damaged"]]

(* The Signature header with the signatures of another file, and one that  *)
(* lacks a parameter, ahead of its own.                                    *)
Listed(f, g) ==
  LET partial == [Field(f, "sig").val[1] EXCEPT !.complete = FALSE]
      sigs == <<partial>> \o Field(g, "sig").val \o Field(f, "sig").val
      put(p) == IF p.tag = "sig"
                THEN Part("sig", sigs, SigLength(sigs))
                ELSE IF p.tag = "sigLength"
                THEN Part("sigLength", SigLength(sigs), 3)
                ELSE p
  IN [i \in DOMAIN f |-> put(f[i])]

HasSignature(f) == Has(f, "sig") /\ Field(f, "sig").val # <<>>

MixedOf(f) ==
  UNION {Mixtures(f, x.file) : x \in {y \in Range(disk) : y.file # <<>>}}

ListedOf(f) ==
  {Listed(f, x.file) : x \in {y \in Range(disk) : HasSignature(f) /\ HasSignature(y.file)}}

Delivered(d) ==
  IF d.file = <<>> THEN {}
  ELSE Cuts(d.file) \cup {Damaged(d.file)} \cup MixedOf(d.file) \cup ListedOf(d.file)

-----------------------------------------------------------------------------
(* The reader.                                                             *)

(* ReadExchange; verificationTime is a parameter of Verify.  A reading     *)
(* shares nothing with the publisher but finished files and nothing with   *)
(* another reading, so one reading, with the publisher at rest, is enough. *)
Open(i, file, at) ==
  LET r == ReadExchange(file) IN
  /\ reader.phase = "idle" /\ exchange = None
  /\ reader' = IF ~r.ok THEN [phase |-> "unreadable", entry |-> i, file |-> file]
               ELSE [phase |-> "verifying", entry |-> i, file |-> file,
                     exchange |-> r.exchange, at |-> at,
                     fetched |-> <<>>, valid |-> FALSE]
  /\ UNCHANGED publisher

VerifyFirstOnly(chain) ==   \* a slip: return where the code says continue
  LET e == reader.exchange
      i == Len(reader.fetched) + 1
      s == e.sigs[i]
  IN /\ reader.phase = "verifying"
     /\ i <= Len(e.sigs)
     /\ LET accepted == SignatureAccepted(e, s, reader.at, chain)
        IN reader' = [reader EXCEPT
                        !.fetched = Append(@, chain),
                        !.valid = accepted,
                        !.phase = "done"]
     /\ UNCHANGED publisher

(* One turn of the loop over the signatures, with its fetch. *)
VerifyNext(chain) ==
  LET e == reader.exchange
      i == Len(reader.fetched) + 1
      s == e.sigs[i]
  IN /\ reader.phase = "verifying"
     /\ i <= Len(e.sigs)
     /\ LET accepted == SignatureAccepted(e, s, reader.at, chain)
        IN reader' = [reader EXCEPT
                        !.fetched = Append(@, chain),
                        !.valid = accepted,
                        !.phase = IF accepted THEN "done" ELSE "verifying"]
     /\ UNCHANGED publisher

(* The end of the list: no signature is valid. *)
GiveUp ==
  /\ reader.phase = "verifying"
  /\ Len(reader.fetched) = Len(reader.exchange.sigs)
  /\ reader' = [reader EXCEPT !.phase = "done"]
  /\ UNCHANGED publisher

-----------------------------------------------------------------------------
Publish ==
  \/ \E e \in workload.exchanges : New(e)
  \/ \E n \in workload.recordSizes : MiEncodePayload(n)
  \/ \E a \in workload.additions : AddHeader(a)
  \/ \E s \in workload.signers : AddSignatureHeader(s)
  \/ SelfCheck
  \/ Write

Next ==
  \/ Publish
  \/ \E i \in DOMAIN disk, at \in 0..MaxTime :
       \E file \in Delivered(disk[i]) : Open(i, file, at)
  \/ \E chain \in workload.chains : VerifyNext(chain)
  \/ GiveUp

Spec == Init /\ [][Next]_vars

-----------------------------------------------------------------------------
(* Properties.                                                             *)

(* What Verify accepts, payload and all, is what one signer signed with    *)
(* the key of a certificate that the reader fetched, and the verification  *)
(* time is in a window of that signer of at most seven days: no mixture of *)
(* two files, no damage and no replaced certificate gets past it.          *)
Signed(g, r) ==
  /\ r.exchange.ver = g.exchange.ver
  /\ r.exchange.uri = g.exchange.uri
  /\ r.exchange.status = g.exchange.status
  /\ r.exchange.resph = Joined(g.exchange.resph)
  /\ HasRequestMap(r.exchange.ver) =>
       /\ r.exchange.method = g.exchange.method
       /\ r.exchange.reqh = Joined(g.exchange.reqh)
  /\ r.exchange.payload = g.exchange.payload
  /\ \E c \in Range(r.fetched) : c # None /\ c[1].key = g.signer.key
  /\ g.signer.date <= r.at /\ r.at <= g.signer.expires
  /\ g.signer.expires - g.signer.date <= SevenDays

AcceptedAsSigned ==
  (reader.phase = "done" /\ reader.valid) =>
    \E g \in signings : Signed(g, reader)

(* A file that was checked and written is accepted while its signature is  *)
(* in its window and its certificate is served, whatever other signatures, *)
(* even incomplete ones, stand before its own.  Headers with two values    *)
(* for Cache-Control or for the digest are left out: the verifier looks at *)
(* the first value of each, and the file has the values joined into one, so*)
(* the check in memory and the reader's can disagree.                      *)
SingleValued(e) ==
  \A name \in {"cache-control", DigestHeaderName(e.ver)} \cap DOMAIN e.resph :
    Len(e.resph[name]) = 1

Untouched(r) ==
  LET f == disk[r.entry].file IN
  \A i \in DOMAIN f : f[i].tag \notin {"sig", "sigLength"} =>
    i \in DOMAIN r.file /\ r.file[i] = f[i]

GenuineIsAccepted ==
  reader.phase = "done" =>
    LET d == disk[reader.entry]
        s == d.source.sigs[1]
        sigs == reader.exchange.sigs
    IN (/\ d.ok /\ d.checked /\ SingleValued(d.source)
        /\ Untouched(reader)
        /\ TimestampsValid(s, reader.at)
        /\ \E i \in DOMAIN sigs :
             sigs[i] = s /\ (i \in DOMAIN reader.fetched =>
                               reader.fetched[i] = d.signer[1].certs))
       => reader.valid

(* A file that Write finished, with lengths that fit their fields, is read *)
(* back as the exchange it was written from: same URL, status, signatures  *)
(* and payload, the values of each header joined in their order.           *)
LengthsFit(e) ==
  /\ e.ver # "1b1" => e.uri.len < Field2
  /\ SigLength(e.sigs) < Field3
  /\ HeaderLength(e) < Field3

Normal(e) ==
  [e EXCEPT !.resph = Joined(@),
            !.reqh = IF HasRequestMap(e.ver) THEN Joined(@) ELSE NoHeaders,
            !.method = IF HasRequestMap(e.ver) THEN @ ELSE "GET"]

ReadsBack ==
  reader.phase # "idle" =>
    LET d == disk[reader.entry]
    IN (/\ d.ok /\ reader.file = d.file
        /\ ValidFallbackURL(d.source.uri)
        /\ ~(d.source.ver = "1b2" /\ ":url" \in DOMAIN d.source.reqh)
        /\ LengthsFit(d.source))
       => /\ reader.phase # "unreadable"
          /\ reader.exchange = Normal(d.source)

-----------------------------------------------------------------------------
(* What the repository says, and the code does not do.                     *)

(* signedexchange.go, ReadExchangePrologue: "If this is larger than 16384  *)
(* (16*1024), parsing MUST fail."                                          *)
OversizeIsRefused ==
  reader.phase \in {"verifying", "done"} =>
    SigLength(reader.exchange.sigs) <= MaxSigLength

=============================================================================
