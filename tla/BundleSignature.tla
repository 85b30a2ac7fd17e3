---------------------------- MODULE BundleSignature ----------------------------
(***************************************************************************)
(* The signatures section of a bundle: sign-bundle signatures-section and  *)
(* callers of go/bundle/signature add signatures to a bundle, one signer   *)
(* after the other, and a client checks what it received of it.            *)
(*                                                                         *)
(* A signer makes the payload of each exchange it can sign for MICE, which *)
(* rewrites the body and the headers of the bundle in memory, hashes it,   *)
(* and at the end appends its certificates and its signed subset to the    *)
(* lists that every earlier signer appended to.  A run that fails leaves   *)
(* in memory what it did so far: the command exits, and a caller of the    *)
(* package may go on.                                                      *)
(*                                                                         *)
(* An exchange is [url, header, body]; a header holds the fields the       *)
(* exchange came with and its Digest; a body is [payload, size], MICE of   *)
(* records of that size or, at size 0, the payload itself.  Hashes, digests*)
(* and signatures stand for what they are over.  The MICE coding is        *)
(* MiceDecoder's subject.                                                  *)
(***************************************************************************)
EXTENDS Integers, Sequences, FiniteSets, SequencesExt

CONSTANTS
  Originals,       \* the bundles there are to sign: [version, exchanges]
  HostOf,          \* the host of a URL
  Signers,         \* records [key, chain, date, expires]
  RecordSizes,     \* values of -miRecordSize
  KeyOf, HostsOf,  \* the public key and the host names of a certificate
  SupportedKeys,   \* ECDSA keys on P-256 and P-384
  MaxMIRecordSize, \* 16384
  SevenDays,       \* in units of the clock
  Times,           \* the clock's readings at a client
  Versions,        \* b1 and b2
  MaxSigners       \* bound: the signers created in a behaviour

None == "none"
NoDigest == [payload |-> None, size |-> 0]

(* An exchange that is not coded yet; it may have a Digest.                *)
IsPlain(e) ==
  e = [url |-> e.url, header |-> [fields |-> e.header.fields, digest |-> e.header.digest],
       body |-> [payload |-> e.body.payload, size |-> 0]]

(* A chain is a sequence of [cert, ocsp]. *)
ASSUME BundleSignatureAssumption ==
  /\ MaxMIRecordSize \in Nat /\ SevenDays \in Nat /\ MaxSigners \in Nat
  /\ RecordSizes \subseteq Nat \ {0} /\ Times \subseteq Int
  /\ \A s \in Signers :
       s.date \in Int /\ s.expires \in Int /\ s.chain \in Seq(ToSet(s.chain))
  /\ \A o \in Originals :
       /\ o.exchanges \in Seq(ToSet(o.exchanges))
       /\ \A i \in DOMAIN o.exchanges : IsPlain(o.exchanges[i])

VARIABLES
  original,  \* the bundle before any signer touched it
  file,      \* the bundle last written
  mem,       \* the bundle in the memory of the signing process
  run,       \* the signer at work
  signings,  \* history: the signatures made, and over what
  client     \* a client's copy and how far it is with it

vars == <<original, file, mem, run, signings, client>>

Unsigned(b) == [version |-> b.version, exchanges |-> b.exchanges,
                authorities |-> <<>>, vouched |-> <<>>]

Zeros == "zeros"   \* a payload that lost its end
Unreadable == [version |-> None, exchanges |-> <<>>, authorities |-> <<>>, vouched |-> <<>>]

Init ==
  /\ original \in Originals
  /\ file = Unsigned(original)
  /\ mem = file
  /\ run = [phase |-> "idle", used |-> 0]
  /\ signings = {}
  /\ client = [phase |-> "none"]

-----------------------------------------------------------------------------
(* The signer. *)

ChainIsValid(chain) ==
  /\ chain # <<>>
  /\ \A i \in DOMAIN chain : chain[i].ocsp <=> i = 1

(* The signer of the run works on exchange `next`. *)
NewSigner(s, size) ==
  /\ run.phase = "idle" /\ run.used < MaxSigners
  /\ client.phase = "none"
  /\ ChainIsValid(s.chain)
  /\ run' = [phase |-> "adding", used |-> run.used + 1, signer |-> s,
             size |-> size, next |-> 1, hashes |-> {}]
  /\ UNCHANGED <<original, file, mem, signings, client>>

CanSignFor(s, url) == HostOf[url] \in HostsOf[s.chain[1].cert]

CanSignForChain(s, url) ==   \* a slip: any certificate of the chain will do
  \E i \in DOMAIN s.chain : HostOf[url] \in HostsOf[s.chain[i].cert]
CanSignForURL(s, url) == CanSignFor(s, url)

GiveUp == run' = [phase |-> "idle", used |-> run.used]

(* addSignature's loop skips what the certificate is not for. *)
SkipExchange ==
  /\ run.phase = "adding" /\ run.next <= Len(mem.exchanges)
  /\ ~ CanSignForURL(run.signer, mem.exchanges[run.next].url)
  /\ run' = [run EXCEPT !.next = @ + 1]
  /\ UNCHANGED <<original, file, mem, signings, client>>

IntegrityIdentifier == "digest/mi-sha256-03"

(* AddPayloadIntegrity, where it does not fail. *)
WithIntegrity(e, size) ==
  LET mice == [payload |-> e.body.payload, size |-> size]
  IN  [url |-> e.url, header |-> [e.header EXCEPT !.digest = mice], body |-> mice]

IntegrityWithoutDigest(e) ==   \* a slip: the headers of before the coding
  [url |-> e.url, integrity |-> IntegrityIdentifier,
   headerSha256 |-> [e.header EXCEPT !.digest = NoDigest]]
ResourceIntegrity(e) ==
  [url |-> e.url, integrity |-> IntegrityIdentifier, headerSha256 |-> e.header]

EncodesAgain(e) == TRUE      \* a slip: the Digest header is not looked at
HasNoDigest(e) == e.header.digest = NoDigest

(* The exchange has a Digest header: addSignature fails. *)
RefuseExchange ==
  /\ run.phase = "adding" /\ run.next <= Len(mem.exchanges)
  /\ CanSignForURL(run.signer, mem.exchanges[run.next].url)
  /\ ~ HasNoDigest(mem.exchanges[run.next])
  /\ GiveUp
  /\ UNCHANGED <<original, file, mem, signings, client>>

(* The bundle in memory is rewritten first; then AddExchange fails where   *)
(* the signer has the URL already.                                         *)
AddExchange ==
  LET e == WithIntegrity(mem.exchanges[run.next], run.size)
  IN  /\ run.phase = "adding" /\ run.next <= Len(mem.exchanges)
      /\ CanSignForURL(run.signer, e.url)
      /\ HasNoDigest(mem.exchanges[run.next])
      /\ mem' = [mem EXCEPT !.exchanges[run.next] = e]
      /\ IF \E h \in run.hashes : h.url = e.url
         THEN GiveUp
         ELSE run' = [run EXCEPT !.next = @ + 1,
                                 !.hashes = @ \cup {ResourceIntegrity(e)}]
      /\ UNCHANGED <<original, file, signings, client>>

SignedSubset(r) ==
  [authSha256 |-> r.signer.chain[1].cert, date |-> r.signer.date,
   expires |-> r.signer.expires, subsetHashes |-> r.hashes]

SignedMessage(signed, version) == [context |-> version, signed |-> signed]

LastAuthority(authorities, chain) ==   \* a slip: the chain's last certificate
  Len(authorities) + Len(chain) - 1
OneBasedAuthority(authorities, chain) ==   \* a slip: counted from 1
  Len(authorities) + 1
(* The position of the signer's certificate, from 0. *)
AuthorityIndex(authorities, chain) == Len(authorities)

(* The certificates are appended before sign fails on a curve it does not  *)
(* know.  With no signatures in the bundle yet (nil), they go to a new     *)
(* object that is dropped.                                                 *)
UpdateSignatures ==
  LET certs == [i \in DOMAIN run.signer.chain |-> run.signer.chain[i].cert]
      signed == SignedSubset(run)
      sig == [key |-> run.signer.key,
              of |-> SignedMessage(signed, mem.version)]
      vouched == [authority |-> AuthorityIndex(mem.authorities, certs),
                  sig |-> sig, signed |-> signed]
      covered == {e \in ToSet(mem.exchanges) :
                    \E h \in run.hashes : h.url = e.url}
  IN  /\ run.phase = "adding" /\ run.next > Len(mem.exchanges)
      /\ IF run.signer.key \in SupportedKeys
         THEN /\ mem' = [mem EXCEPT !.authorities = @ \o certs,
                                    !.vouched = Append(@, vouched)]
              /\ signings' = signings \cup
                   {[signer |-> run.signer, sig |-> sig,
                     covered |-> covered]}
         ELSE /\ mem' = IF mem.authorities = <<>> THEN mem
                        ELSE [mem EXCEPT !.authorities = @ \o certs]
              /\ UNCHANGED signings
      /\ GiveUp
      /\ UNCHANGED <<original, file, client>>

(* What a write that does not get to its end leaves: a file that cannot be *)
(* read, or one of which the last body lacks its end.  The responses come  *)
(* last, and Read fills up what it misses with zeros, if it is not much.   *)
CutShort(b) ==
  {Unreadable, [b EXCEPT !.exchanges[Len(b.exchanges)].body.payload = Zeros]}

(* writeBundleToFile; the process may end within it, or the disk be full.  *)
Save ==
  /\ run.phase = "idle" /\ mem # file /\ client.phase = "none"
  /\ file' \in {mem} \cup CutShort(mem)
  /\ UNCHANGED <<original, mem, run, signings, client>>

(* The process ends, after a failure or without one, and another reads the *)
(* file.                                                                   *)
Load ==
  /\ run.phase = "idle" /\ mem # file /\ client.phase = "none"
  /\ file # Unreadable
  /\ mem' = file
  /\ UNCHANGED <<original, file, run, signings, client>>

-----------------------------------------------------------------------------
(* The client. *)

IsWhole(b) == \A e \in ToSet(b.exchanges) : e.body.payload # Zeros

(* What may come of a bundle on its way, one change at a time. *)
AlteredExchange(b) ==
  LET E == DOMAIN b.exchanges
  IN    {[b EXCEPT !.exchanges[i].header = b.exchanges[j].header] : i \in E, j \in E}
   \cup {[b EXCEPT !.exchanges[i].body = b.exchanges[j].body] : i \in E, j \in E}
   \cup {[b EXCEPT !.exchanges[i].url = b.exchanges[j].url] : i \in E, j \in E}
AlteredSubset(b) ==
  LET V == DOMAIN b.vouched
  IN    {[b EXCEPT !.vouched[v].authority = a] : v \in V, a \in 0..Len(b.authorities)}
   \cup {[b EXCEPT !.vouched[v].signed = b.vouched[w].signed] : v \in V, w \in V}
   \cup {[b EXCEPT !.vouched = RemoveAt(@, v)] : v \in V}
AlteredRest(b) ==
        {[b EXCEPT !.version = v] : v \in Versions}
   \cup {[b EXCEPT !.authorities[a] = c] : a \in DOMAIN b.authorities, c \in DOMAIN KeyOf}
Altered(b) == AlteredExchange(b) \cup AlteredSubset(b) \cup AlteredRest(b)

(* bound: one client, once the signing process rests, of a file that has a *)
(* signature (dump-bundle checks no other); a file that a write has cut    *)
(* short is not altered on its way as well                                 *)
Receive(b) ==
  /\ client.phase = "none"
  /\ run.phase = "idle" /\ mem = file
  /\ file.authorities # <<>>
  /\ client' = [phase |-> "received", bundle |-> b]
  /\ UNCHANGED <<original, file, mem, run, signings>>

AnyAuthority(signed, cert) == TRUE   \* a slip: auth-sha256 is not compared
AuthorityMatches(signed, cert) == signed.authSha256 = cert

(* verifyVouchedSubset and decodeSignedSubset: the times are encoded as    *)
(* CBOR integers and decoded as unsigned ones.                             *)
VouchedSubsetVerifies(v, b, at) ==
  /\ v.authority < Len(b.authorities)
  /\ LET cert == b.authorities[v.authority + 1]
     IN  /\ KeyOf[cert] \in SupportedKeys
         /\ v.sig = [key |-> KeyOf[cert],
                     of |-> SignedMessage(v.signed, b.version)]
         /\ AuthorityMatches(v.signed, cert)
  /\ v.signed.date >= 0 /\ v.signed.expires >= 0
  /\ v.signed.expires - v.signed.date <= SevenDays
  /\ v.signed.date <= at /\ at <= v.signed.expires

(* One subset that does not verify is enough for there to be no Verifier.  *)
NewVerifier(at) ==
  /\ client.phase = "received"
  /\ LET b == client.bundle
     IN  client' = [phase |-> IF \A v \in ToSet(b.vouched) :
                                   VouchedSubsetVerifies(v, b, at)
                              THEN "verifier" ELSE "refused",
                    bundle |-> b, at |-> at]
  /\ UNCHANGED <<original, file, mem, run, signings>>

(* The MICE decoder, run to its end, on whole bodies. *)
Decodes(body, digest) ==
  digest.size # 0 /\ digest.size <= MaxMIRecordSize /\ body = digest

(* What VerifyExchange returns: (nil, nil) is "uncovered".  Every signer   *)
(* writes an empty variants-value and one hash for a URL.                  *)
Verdict(e, b) ==
  LET covering == {i \in DOMAIN b.vouched :
                     \E h \in b.vouched[i].signed.subsetHashes : h.url = e.url}
      v == b.vouched[Min(covering)]
      h == CHOOSE x \in v.signed.subsetHashes : x.url = e.url
      ok == /\ h.headerSha256 = e.header
            /\ h.integrity = IntegrityIdentifier
            /\ e.header.digest # NoDigest
            /\ Decodes(e.body, e.header.digest)
  IN  IF covering = {} THEN [is |-> "uncovered"]
      ELSE IF ~ ok THEN [is |-> "error"]
      ELSE [is |-> "verified", payload |-> e.body.payload,
            authority |-> b.authorities[v.authority + 1]]

VerifyExchange(i) ==
  /\ client.phase = "verifier"
  /\ client' = [phase |-> "answered", bundle |-> client.bundle,
                at |-> client.at, of |-> i,
                verdict |-> Verdict(client.bundle.exchanges[i], client.bundle)]
  /\ UNCHANGED <<original, file, mem, run, signings>>

-----------------------------------------------------------------------------
Publish ==
  \/ \E s \in Signers, size \in RecordSizes : NewSigner(s, size)
  \/ SkipExchange
  \/ RefuseExchange
  \/ AddExchange
  \/ UpdateSignatures
  \/ Save
  \/ Load

Consume ==
  \/ \E b \in {file} \cup (IF IsWhole(file) THEN Altered(file) ELSE {}) : Receive(b)
  \/ \E at \in Times : NewVerifier(at)
  \/ client.phase = "verifier" /\
       \E i \in DOMAIN client.bundle.exchanges : VerifyExchange(i)

Next == Publish \/ Consume

Spec == Init /\ [][Next]_vars

-----------------------------------------------------------------------------
(* Every variable has its type: the exchanges stay the original's but for  *)
(* their coding and what a write lost of them, and a run's hashes name URLs*)
(* of the bundle once each.                                                *)
TypeOK ==
  /\ original \in Originals
  /\ \A b \in {file, mem} \ {Unreadable} :
       /\ b.version = original.version
       /\ Len(b.exchanges) = Len(original.exchanges)
       /\ \A i \in DOMAIN b.exchanges :
            LET e == b.exchanges[i]
                o == original.exchanges[i]
            IN  /\ e.url = o.url /\ e.header.fields = o.header.fields
                /\ e.body.size \in {0} \cup RecordSizes
                /\ e.body.payload \in {o.body.payload, Zeros}
       /\ \A v \in ToSet(b.vouched) : v.authority \in 0..(Len(b.authorities) - 1)
  /\ run.phase \in {"idle", "adding"} /\ run.used \in 0..MaxSigners
  /\ run.phase = "adding" =>
       /\ run.next \in 1..(Len(mem.exchanges) + 1)
       /\ \A h1, h2 \in run.hashes : h1.url = h2.url => h1 = h2
  /\ client.phase \in {"none", "received", "verifier", "refused", "answered"}

Answered(is) == client.phase = "answered" /\ client.verdict.is = is

(* A payload that a client takes for verified, of a bundle that may have   *)
(* been altered on its way, is one that a signer holding the key of the    *)
(* authority's certificate signed for this URL with these headers, for a   *)
(* host of the certificate, at a time the signature is good for.  It       *)
(* crosses the order of the certificates, the binding of certificate and   *)
(* subset by auth-sha256, and the hashes.                                  *)
VerifiedMeansSigned ==
  Answered("verified") =>
    LET e == client.bundle.exchanges[client.of]
        cert == client.verdict.authority
    IN  \E s \in signings :
          /\ s.signer.chain[1].cert = cert /\ KeyOf[cert] = s.signer.key
          /\ HostOf[e.url] \in HostsOf[cert]
          /\ \E c \in s.covered :
               /\ c.url = e.url /\ c.header = e.header
               /\ c.body.payload = client.verdict.payload
          /\ client.at >= s.signer.date /\ client.at <= s.signer.expires
          /\ s.signer.expires - s.signer.date <= SevenDays

MadeBy(s, v) == s.sig = v.sig
SigningsIn(b) == {s \in signings : \E v \in ToSet(b.vouched) : MadeBy(s, v)}

SigningHolds(s, at) ==
  /\ s.signer.key = KeyOf[s.signer.chain[1].cert]
  /\ 0 <= s.signer.date /\ s.signer.date <= at /\ at <= s.signer.expires
  /\ s.signer.expires - s.signer.date <= SevenDays

(* Of a bundle received as it was written, NewVerifier refuses all of it   *)
(* exactly when one of its signings was made with a key that is not the    *)
(* certificate's or is not good at this time: signings made one after      *)
(* another, some of them failing half way, leave every earlier one with    *)
(* its own certificate.                                                    *)
RefusedForACause ==
  client.phase \in {"refused", "verifier"} /\ client.bundle = file =>
    (client.phase = "refused" <=>
       \E v \in ToSet(file.vouched), s \in signings :
         MadeBy(s, v) /\ ~ SigningHolds(s, client.at))

(* Of a bundle received as it was written, an exchange that a signing in   *)
(* it covers verifies, with the payload it had before any signing, unless  *)
(* its records are too large for the client, or it lost its end when it was*)
(* written; if it had lost it before it was signed, it verifies without it.*)
(* One that none covers is reported as such.  "If e is not covered by a signature, returns         *)
(* (nil, nil)" (go/bundle/signature/verifier.go:58).                       *)
VerdictsMatchHistory ==
  client.phase = "answered" /\ client.bundle = file =>
    LET e == file.exchanges[client.of]
        o == original.exchanges[client.of]
        covering == {c \in UNION {s.covered : s \in SigningsIn(file)} : c.url = e.url}
        lostItsEnd == e.body.payload = Zeros /\ \A c \in covering : c.body.payload # Zeros
    IN  /\ client.verdict.is = "uncovered" <=> covering = {}
        /\ client.verdict.is = "verified" <=>
             covering # {} /\ e.body.size <= MaxMIRecordSize /\ ~ lostItsEnd
        /\ client.verdict.is = "verified" =>
             client.verdict.payload =
               IF \E c \in covering : c.body.payload = Zeros THEN Zeros ELSE o.body.payload

(* A signing that succeeds covers every exchange whose host its            *)
(* certificate has, and no other: the tool "will sign all exchanges in     *)
(* unsigned.wbn whose URL's hostname is example.org"                       *)
(* (go/bundle/README.md:143-145), whatever earlier signers did or failed   *)
(* to do to the bundle in memory.                                          *)
SignsAllOfItsHosts ==
  \A s \in signings :
    {c.url : c \in s.covered} =
      {u \in {e.url : e \in ToSet(original.exchanges)} :
         HostOf[u] \in HostsOf[s.signer.chain[1].cert]}

(* What is written over a signed bundle keeps its certificates and         *)
(* signatures where they were, and leaves the exchanges they cover as they *)
(* were signed: no later signer undoes an earlier one, and a write that is *)
(* cut short, but leaves a bundle that can be read, loses the end of a body*)
(* and no signature.                                                       *)
EarlierSigningsKept ==
  [][file' # Unreadable =>
     /\ IsPrefix(file.authorities, file'.authorities)
     /\ IsPrefix(file.vouched, file'.vouched)
     /\ \A i \in DOMAIN file.exchanges :
          (\E v \in ToSet(file.vouched) : \E h \in v.signed.subsetHashes :
             h.url = file.exchanges[i].url)
          => \/ file'.exchanges[i] = file.exchanges[i]
             \/ Zeros \in {file.exchanges[i].body.payload, file'.exchanges[i].body.payload}
    ]_file

=============================================================================
