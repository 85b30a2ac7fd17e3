------------------------- MODULE SignedExchangeProofs -------------------------
(***************************************************************************)
(* Proofs about the life of a signed exchange, for every workload: any     *)
(* exchanges, signers, certificate chains and headers, any number of files *)
(* and of signings.                                                        *)
(***************************************************************************)
EXTENDS SignedExchange, InductionProofs, FiniteSetTheorems

-----------------------------------------------------------------------------
(* The inductive invariant                                                 *)

(* A map whose values are lists of lists of tokens, whatever these are. *)
IsMap(h) == \E T : \A n \in DOMAIN h : h[n] \in Seq(Seq(T))

(* The digest header of an exchange holds the digest of its own payload,   *)
(* if that of any: MiEncodePayload replaces the payload and adds the       *)
(* digest in one call, and nothing else adds one.                          *)
DigestIsOwn(e) ==
  LET name == DigestHeaderName(e.ver)
  IN name \in DOMAIN e.resph =>
       \/ \A j \in 1..Len(e.resph[name]) : e.resph[name][j] \in Seq(PlainToken)
       \/ \E j \in 1..Len(e.resph[name]) : Occurs(Digest(e.payload), e.resph[name][j])

SoundExchange(e) ==
  /\ DOMAIN e = {"ver", "uri", "method", "reqh", "status", "resph", "sigs", "payload"}
  /\ IsMap(e.resph)
  /\ DigestIsOwn(e)

(* s was made by one of the signings, whether or not a parameter was lost. *)
Genuine(s, past) ==
  /\ {"sig", "date", "expires"} \subseteq DOMAIN s
  /\ \E g \in past : /\ s.sig = SignatureOf(g.exchange, g.signer).sig
                     /\ s.date = g.signer.date
                     /\ s.expires = g.signer.expires

GenuineList(sigs, past) ==
  \E T : sigs \in Seq(T) /\ \A s \in T : Genuine(s, past)

(* The header section is what Write made for some exchange of the version. *)
SoundHeaders(v, h) ==
  \E e : e.ver = v /\ HeadersEncodable(e) /\ h = EncodedHeaders(e)

SigAt(v) == IF v = "1b1" THEN 4 ELSE 6

SoundField(f, i, past) ==
  /\ DOMAIN f[i] = {"tag", "val", "size"}
  /\ i = 1 => f[i].tag = "magic"
  /\ i = SigAt(f[1].val) => f[i].tag = "sig"
  /\ f[i].tag = "sig" => GenuineList(f[i].val, past)
  /\ f[i].tag = "headers" => SoundHeaders(f[1].val, f[i].val)

SoundFile(f, past) ==
  /\ Len(f) \in Nat /\ DOMAIN f = 1..Len(f)
  /\ \A i \in 1..Len(f) : SoundField(f, i, past)

SoundRead(e, past) ==
  /\ GenuineList(e.sigs, past)
  /\ HeadersEncodable(e)
  /\ Joined(e.resph) = e.resph
  /\ HasRequestMap(e.ver) => Joined(e.reqh) = e.reqh

PublisherInv ==
  /\ \/ exchange = None
     \/ \E e : exchange = <<e>> /\ SoundExchange(e) /\ GenuineList(e.sigs, signings)
  /\ \A g \in signings : SoundExchange(g.exchange)

DiskInv == \E T : disk \in Seq(T) /\ \A d \in T : SoundFile(d.file, signings)

ReaderInv ==
  reader.phase \in {"verifying", "done"} =>
    /\ DOMAIN reader = {"phase", "entry", "file", "exchange", "at", "fetched", "valid"}
    /\ \E T : reader.fetched \in Seq(T)
    /\ SoundRead(reader.exchange, signings)
    /\ reader.valid =>
         \E i \in DOMAIN reader.exchange.sigs, c \in Range(reader.fetched) :
           SignatureAccepted(reader.exchange, reader.exchange.sigs[i], reader.at, c)

Sound == PublisherInv /\ DiskInv /\ ReaderInv

IInv == workload \in Workloads /\ Sound

(* What was made by one of the signings stays so. *)
LEMMA PastGrows ==
  ASSUME NEW past, NEW later, past \subseteq later
  PROVE  /\ \A sigs : GenuineList(sigs, past) => GenuineList(sigs, later)
         /\ \A f : SoundFile(f, past) => SoundFile(f, later)
         /\ \A e : SoundRead(e, past) => SoundRead(e, later)
<1>1. \A s : Genuine(s, past) => Genuine(s, later)
  BY DEF Genuine
<1>2. \A sigs : GenuineList(sigs, past) => GenuineList(sigs, later)
  BY <1>1 DEF GenuineList
<1>3. \A f, i : SoundField(f, i, past) => SoundField(f, i, later)
  BY <1>2 DEF SoundField
<1>4. QED
  BY <1>2, <1>3 DEF SoundFile, SoundRead

-----------------------------------------------------------------------------
(* What is accepted was signed                                             *)

(* Joining joined values changes nothing. *)
LEMMA JoinedTwice ==
  ASSUME NEW h
  PROVE  Joined(Joined(h)) = Joined(h) /\ DOMAIN Joined(h) = DOMAIN h
<1>1. DOMAIN Joined(h) = DOMAIN h /\ DOMAIN Joined(Joined(h)) = DOMAIN h
  BY DEF Joined
<1>2. \A n \in DOMAIN h : Joined(h)[n] = <<FlattenSeq(h[n])>>
  BY DEF Joined
<1>3. \A n \in DOMAIN h : Joined(Joined(h))[n] = <<FlattenSeq(Joined(h)[n])>>
  BY DEF Joined
<1>4. \A n \in DOMAIN h : Joined(Joined(h))[n] = Joined(h)[n]
  <2> TAKE n \in DOMAIN h
  <2> DEFINE x == FlattenSeq(h[n])
  <2> HIDE DEF x
  <2>1. FlattenSeq(<<x>>) = x
    BY FlattenOne
  <2>2. QED
    BY <1>2, <1>3, <2>1 DEF x
<1>5. Joined(Joined(h)) = Joined(h)
  <2>1. \A j, k : (DOMAIN j = DOMAIN h /\ DOMAIN k = DOMAIN h
                    /\ j = [n \in DOMAIN h |-> j[n]] /\ k = [n \in DOMAIN h |-> k[n]]
                    /\ \A n \in DOMAIN h : j[n] = k[n]) => j = k
    OBVIOUS
  <2>2. /\ Joined(h) = [n \in DOMAIN h |-> Joined(h)[n]]
        /\ Joined(Joined(h)) = [n \in DOMAIN h |-> Joined(Joined(h))[n]]
    BY <1>1 DEF Joined
  <2>3. QED
    BY <1>1, <1>4, <2>1, <2>2
<1>6. QED
  BY <1>1, <1>5

(* One signed message determines the exchange, but for its payload.        *)
LEMMA MessageDetermines ==
  ASSUME NEW e, NEW g, NEW c1, NEW v1, NEW d1, NEW x1, NEW c2, NEW v2, NEW d2, NEW x2,
         SignedMessage(e, c1, v1, d1, x1) = SignedMessage(g, c2, v2, d2, x2),
         HeadersEncodable(e)
  PROVE  /\ e.ver = g.ver /\ e.uri = g.uri /\ e.status = g.status
         /\ Joined(e.resph) = Joined(g.resph)
         /\ HasRequestMap(e.ver) => /\ e.method = g.method
                                    /\ Joined(e.reqh) = Joined(g.reqh)
<1> DEFINE m == SignedMessage(e, c1, v1, d1, x1)
           k == SignedMessage(g, c2, v2, d2, x2)
<1>1. /\ m.context = e.ver /\ k.context = g.ver
      /\ m.url = IF e.ver = "1b1" THEN None ELSE <<e.uri>>
      /\ k.url = IF g.ver = "1b1" THEN None ELSE <<g.uri>>
      /\ m.headers = <<EncodedHeaders(e)>>
      /\ k.headers = IF HeadersEncodable(g) THEN <<EncodedHeaders(g)>> ELSE None
  BY DEF SignedMessage
<1>2. m = k
  OBVIOUS
<1> HIDE DEF m, k
<1>3. e.ver = g.ver /\ (e.ver # "1b1" => e.uri = g.uri)
  <2>1. e.ver = g.ver
    BY <1>1, <1>2
  <2>2. ASSUME e.ver # "1b1" PROVE e.uri = g.uri
    <3>1. <<e.uri>> = <<g.uri>>
      BY <1>1, <1>2, <2>1, <2>2
    <3>2. QED
      BY <3>1
  <2>3. QED
    BY <2>1, <2>2
<1>4. EncodedHeaders(e) = EncodedHeaders(g)
  <2> DEFINE a == EncodedHeaders(e)
             b == EncodedHeaders(g)
  <2> HIDE DEF a, b
  <2>1. <<a>> = IF HeadersEncodable(g) THEN <<b>> ELSE None
    BY <1>1, <1>2 DEF a, b
  <2>2. <<a>> # None
    BY DEF None
  <2>3. <<a>> = <<b>>
    BY <2>1, <2>2
  <2>4. QED
    BY <2>3 DEF a, b
<1>5. /\ EncodedRequestMap(e) = EncodedRequestMap(g)
      /\ e.status = g.status
      /\ Joined(e.resph) = Joined(g.resph)
  <2>1. /\ EncodedHeaders(e).request = EncodedRequestMap(e)
        /\ EncodedHeaders(g).request = EncodedRequestMap(g)
        /\ EncodedHeaders(e).status = e.status /\ EncodedHeaders(g).status = g.status
        /\ EncodedHeaders(e).headers = Joined(e.resph)
        /\ EncodedHeaders(g).headers = Joined(g.resph)
    BY DEF EncodedHeaders
  <2>2. QED
    BY <1>4, <2>1
<1>6. ASSUME HasRequestMap(e.ver)
      PROVE  /\ e.method = g.method /\ Joined(e.reqh) = Joined(g.reqh)
             /\ e.ver = "1b1" => e.uri = g.uri
  <2> DEFINE p == [method |-> e.method, headers |-> Joined(e.reqh),
                   url |-> IF e.ver = "1b1" THEN <<e.uri>> ELSE None]
             q == [method |-> g.method, headers |-> Joined(g.reqh),
                   url |-> IF g.ver = "1b1" THEN <<g.uri>> ELSE None]
  <2>1. EncodedRequestMap(e) = <<p>> /\ EncodedRequestMap(g) = <<q>>
    BY <1>3, <1>6 DEF EncodedRequestMap
  <2>2. /\ p.method = e.method /\ q.method = g.method
        /\ p.headers = Joined(e.reqh) /\ q.headers = Joined(g.reqh)
        /\ p.url = IF e.ver = "1b1" THEN <<e.uri>> ELSE None
        /\ q.url = IF g.ver = "1b1" THEN <<g.uri>> ELSE None
    OBVIOUS
  <2> HIDE DEF p, q
  <2>3. p = q
    <3>1. <<p>> = <<q>>
      BY <1>5, <2>1
    <3>2. QED
      BY <3>1
  <2>4. e.ver = "1b1" => <<e.uri>> = <<g.uri>>
    BY <1>3, <2>2, <2>3
  <2>5. QED
    BY <2>2, <2>3, <2>4
<1>7. e.uri = g.uri
  BY <1>3, <1>6 DEF HasRequestMap
<1>8. QED
  BY <1>3, <1>5, <1>6, <1>7

(* The digest in a header of a file is that of the payload it was signed   *)
(* with.                                                                   *)
LEMMA DigestDetermines ==
  ASSUME NEW g, SoundExchange(g), NEW payload,
         Get(Joined(g.resph), DigestHeaderName(g.ver)) = <<Digest(payload)>>
  PROVE  payload = g.payload
<1> DEFINE name == DigestHeaderName(g.ver)
           s == g.resph[name]
           t == Digest(payload)
<1>1. name \in DOMAIN g.resph /\ FlattenSeq(s) = <<t>>
  <2>1. <<t>> # <<>>
    OBVIOUS
  <2>2. name \in DOMAIN Joined(g.resph) /\ Joined(g.resph)[name][1] = <<t>>
    BY <2>1 DEF Get
  <2>3. DOMAIN Joined(g.resph) = DOMAIN g.resph
    BY DEF Joined
  <2>4. Joined(g.resph)[name] = <<FlattenSeq(s)>>
    BY <2>2, <2>3 DEF Joined
  <2>5. QED
    BY <2>2, <2>3, <2>4
<1>2. PICK T : s \in Seq(Seq(T))
  BY <1>1 DEF SoundExchange, IsMap
<1>3. \/ \A j \in 1..Len(s) : s[j] \in Seq(PlainToken)
      \/ \E j \in 1..Len(s) : Occurs(Digest(g.payload), s[j])
  BY <1>1 DEF SoundExchange, DigestIsOwn
<1>4. \A x : Occurs(x, <<t>>) <=> x = t
  BY DEF Occurs
<1> HIDE DEF s, t
<1>5. \A x : Occurs(x, <<t>>) <=> \E i \in 1..Len(s) : Occurs(x, s[i])
  <2> TAKE x
  <2>1. Occurs(x, FlattenSeq(s)) <=> \E i \in 1..Len(s) : Occurs(x, s[i])
    BY <1>2, OccursInFlatten
  <2>2. QED
    BY <1>1, <2>1
<1>6. ASSUME \A j \in 1..Len(s) : s[j] \in Seq(PlainToken)
      PROVE  FALSE
  <2>1. PICK i \in 1..Len(s) : Occurs(t, s[i])
    BY <1>4, <1>5
  <2>2. t \in PlainToken
    <3>1. PICK p \in DOMAIN s[i] : s[i][p] = t
      BY <2>1 DEF Occurs
    <3>2. s[i] \in Seq(PlainToken)
      BY <1>6
    <3>3. QED
      BY <3>1, <3>2, ElementOfSeq, LenProperties
  <2>3. DOMAIN t = {"d", "of"}
    BY DEF t, Digest
  <2>4. DOMAIN t = {"d"}
    BY <2>2 DEF PlainToken
  <2>5. QED
    BY <2>3, <2>4
<1>7. Digest(g.payload) = t
  BY <1>3, <1>4, <1>5, <1>6
<1>8. Digest(g.payload).of = g.payload /\ t.of = payload
  BY DEF Digest, t
<1>9. QED
  BY <1>7, <1>8

(* One signer signed e, with the key of c, in a window that holds at. *)
WasSigned(e, at, c) ==
  \E g \in signings :
    /\ e.ver = g.exchange.ver
    /\ e.uri = g.exchange.uri
    /\ e.status = g.exchange.status
    /\ e.resph = Joined(g.exchange.resph)
    /\ HasRequestMap(e.ver) => /\ e.method = g.exchange.method
                               /\ e.reqh = Joined(g.exchange.reqh)
    /\ e.payload = g.exchange.payload
    /\ c # None /\ c[1].key = g.signer.key
    /\ g.signer.date <= at /\ at <= g.signer.expires
    /\ g.signer.expires - g.signer.date <= SevenDays

(* What the verifier accepts is what one signer signed. *)
LEMMA AcceptedWasSigned ==
  ASSUME NEW e, SoundRead(e, signings), \A g \in signings : SoundExchange(g.exchange),
         NEW i \in DOMAIN e.sigs, NEW at, NEW c,
         SignatureAccepted(e, e.sigs[i], at, c)
  PROVE  WasSigned(e, at, c)
<1> DEFINE s == e.sigs[i]
<1>1. Genuine(s, signings)
  <2>1. PICK T : e.sigs \in Seq(T) /\ \A x \in T : Genuine(x, signings)
    BY DEF SoundRead, GenuineList
  <2>2. s \in T
    BY <2>1, ElementOfSeq, LenProperties
  <2>3. QED
    BY <2>1, <2>2
<1> HIDE DEF s
<1>2. PICK g \in signings : /\ s.sig = SignatureOf(g.exchange, g.signer).sig
                            /\ s.date = g.signer.date
                            /\ s.expires = g.signer.expires
  BY <1>1 DEF Genuine
<1>3. /\ SignatureVerifies(e, s, at, c) /\ PayloadVerifies(e, s)
  BY DEF SignatureAccepted, VerifySignature, s
<1>4. /\ s.sig.key = c[1].key
      /\ s.sig.msg = SignedMessage(e, <<c[1].id>>, s.validityUrl, s.date, s.expires)
      /\ c # None /\ TimestampsValid(s, at)
  BY <1>3 DEF SignatureVerifies
<1>5. /\ s.sig.key = g.signer.key
      /\ s.sig.msg = SignedMessage(g.exchange, CertSha256(g.signer.certs),
                                   g.signer.validityUrl, g.signer.date, g.signer.expires)
  BY <1>2 DEF SignatureOf
<1>6. /\ e.ver = g.exchange.ver /\ e.uri = g.exchange.uri
      /\ e.status = g.exchange.status
      /\ Joined(e.resph) = Joined(g.exchange.resph)
      /\ HasRequestMap(e.ver) => /\ e.method = g.exchange.method
                                 /\ Joined(e.reqh) = Joined(g.exchange.reqh)
  <2>1. SignedMessage(e, <<c[1].id>>, s.validityUrl, s.date, s.expires)
          = SignedMessage(g.exchange, CertSha256(g.signer.certs),
                          g.signer.validityUrl, g.signer.date, g.signer.expires)
    BY <1>4, <1>5
  <2>2. HeadersEncodable(e)
    BY DEF SoundRead
  <2>3. QED
    BY <2>1, <2>2, MessageDetermines
<1>7. /\ e.resph = Joined(g.exchange.resph)
      /\ HasRequestMap(e.ver) => e.reqh = Joined(g.exchange.reqh)
  BY <1>6 DEF SoundRead
<1>8. e.payload = g.exchange.payload
  <2>1. Get(Joined(g.exchange.resph), DigestHeaderName(g.exchange.ver))
          = <<Digest(e.payload)>>
    BY <1>3, <1>6, <1>7 DEF PayloadVerifies
  <2>2. SoundExchange(g.exchange)
    OBVIOUS
  <2>3. QED
    BY <2>1, <2>2, DigestDetermines
<1>9. /\ g.signer.date <= at /\ at <= g.signer.expires
      /\ g.signer.expires - g.signer.date <= SevenDays
  <2>1. s.expires - s.date <= SevenDays /\ at >= s.date /\ at <= s.expires
    BY <1>4 DEF TimestampsValid
  <2>2. QED
    BY <1>2, <2>1
<1>10. c[1].key = g.signer.key
  BY <1>4, <1>5
<1>11. QED
  BY <1>4, <1>6, <1>7, <1>8, <1>9, <1>10 DEF WasSigned

-----------------------------------------------------------------------------
(* The publisher                                                           *)

LEMMA InitIsSound == Init => Sound
<1> SUFFICES ASSUME Init PROVE Sound
  OBVIOUS
<1>1. PublisherInv
  BY DEF Init, PublisherInv
<1>2. DiskInv
  <2>1. disk \in Seq({})
    BY EmptySeq DEF Init
  <2>2. QED
    BY <2>1 DEF DiskInv
<1>3. ReaderInv
  BY DEF Init, Idle, ReaderInv
<1>4. QED
  BY <1>1, <1>2, <1>3 DEF Sound

LEMMA AddKeepsMap ==
  ASSUME NEW h, IsMap(h), NEW name, NEW U, NEW value \in Seq(U)
  PROVE  IsMap(Add(h, name, value))
<1>1. PICK T : \A n \in DOMAIN h : h[n] \in Seq(Seq(T))
  BY DEF IsMap
<1> DEFINE V == T \cup U
           r == Add(h, name, value)
<1>2. \A n \in DOMAIN h : h[n] \in Seq(Seq(V))
  <2>1. Seq(T) \subseteq Seq(V)
    BY SeqMonotonic
  <2>2. Seq(Seq(T)) \subseteq Seq(Seq(V))
    BY <2>1, SeqMonotonic
  <2>3. QED
    BY <1>1, <2>2
<1>3. value \in Seq(V)
  BY SeqMonotonic
<1> HIDE DEF V, r
<1>4. /\ DOMAIN r = DOMAIN h \cup {name}
      /\ \A n \in DOMAIN h : n # name => r[n] = h[n]
      /\ r[name] = IF name \in DOMAIN h THEN Append(h[name], value) ELSE <<value>>
  BY DEF r, Add
<1>5. r[name] \in Seq(Seq(V))
  <2>1. CASE name \in DOMAIN h
    BY <1>2, <1>3, <1>4, <2>1, AppendProperties
  <2>2. CASE name \notin DOMAIN h
    BY <1>3, <1>4, <2>2
  <2>3. QED
    BY <2>1, <2>2
<1>6. \A n \in DOMAIN r : r[n] \in Seq(Seq(V))
  BY <1>2, <1>4, <1>5
<1>7. QED
  BY <1>6 DEF IsMap, r

(* A header that a caller adds is no digest of a payload. *)
LEMMA PlainAdditionIsSound ==
  ASSUME NEW e, SoundExchange(e), NEW name, NEW value \in Seq(PlainToken), NEW x,
         DOMAIN x = DOMAIN e, x.ver = e.ver, x.payload = e.payload,
         x.resph = Add(e.resph, name, value)
  PROVE  SoundExchange(x)
<1> DEFINE dn == DigestHeaderName(e.ver)
           h == e.resph
           r == Add(h, name, value)
<1>1. IsMap(r)
  BY AddKeepsMap DEF SoundExchange
<1>2. /\ DOMAIN r = DOMAIN h \cup {name}
      /\ \A n \in DOMAIN h : n # name => r[n] = h[n]
      /\ r[name] = IF name \in DOMAIN h THEN Append(h[name], value) ELSE <<value>>
  BY DEF Add
<1>3. dn \in DOMAIN h =>
        /\ \E T : h[dn] \in Seq(T)
        /\ \/ \A j \in 1..Len(h[dn]) : h[dn][j] \in Seq(PlainToken)
           \/ \E j \in 1..Len(h[dn]) : Occurs(Digest(e.payload), h[dn][j])
  BY DEF SoundExchange, DigestIsOwn, IsMap
<1>4. x.resph = r
  OBVIOUS
<1> HIDE DEF dn, h, r
<1>5. dn \in DOMAIN r =>
        \/ \A j \in 1..Len(r[dn]) : r[dn][j] \in Seq(PlainToken)
        \/ \E j \in 1..Len(r[dn]) : Occurs(Digest(e.payload), r[dn][j])
  <2> SUFFICES ASSUME dn \in DOMAIN r
               PROVE  \/ \A j \in 1..Len(r[dn]) : r[dn][j] \in Seq(PlainToken)
                      \/ \E j \in 1..Len(r[dn]) : Occurs(Digest(e.payload), r[dn][j])
    OBVIOUS
  <2>1. CASE dn # name
    BY <1>2, <1>3, <2>1
  <2>2. CASE dn = name /\ name \notin DOMAIN h
    <3>1. r[dn] = <<value>>
      BY <1>2, <2>2
    <3>2. QED
      BY <3>1
  <2>3. CASE dn = name /\ name \in DOMAIN h
    <3> DEFINE s == h[dn]
               u == Append(s, value)
    <3>1. r[dn] = u
      BY <1>2, <2>3
    <3>2. PICK T : s \in Seq(T)
      BY <1>3, <2>3
    <3>3. /\ Len(s) \in Nat
          /\ Len(u) = Len(s) + 1
          /\ \A j \in 1..Len(s) : u[j] = s[j]
          /\ u[Len(s) + 1] = value
      <4>1. s \in Seq(T \cup {value}) /\ value \in T \cup {value}
        BY <3>2, SeqMonotonic
      <4> HIDE DEF s
      <4>2. QED
        BY <4>1, AppendProperties, LenProperties
    <3>4. \/ \A j \in 1..Len(s) : s[j] \in Seq(PlainToken)
          \/ \E j \in 1..Len(s) : Occurs(Digest(e.payload), s[j])
      BY <1>3, <2>3
    <3> HIDE DEF s, u
    <3>5. CASE \A j \in 1..Len(s) : s[j] \in Seq(PlainToken)
      <4>1. \A j \in 1..Len(u) : j \in 1..Len(s) \/ j = Len(s) + 1
        BY <3>3
      <4>2. \A j \in 1..Len(u) : u[j] \in Seq(PlainToken)
        BY <3>3, <3>5, <4>1
      <4>3. QED
        BY <3>1, <4>2
    <3>6. CASE \E j \in 1..Len(s) : Occurs(Digest(e.payload), s[j])
      <4>1. PICK j \in 1..Len(s) : Occurs(Digest(e.payload), s[j])
        BY <3>6
      <4>2. j \in 1..Len(u) /\ u[j] = s[j]
        BY <3>3
      <4>3. QED
        BY <3>1, <4>1, <4>2
    <3>7. QED
      BY <3>4, <3>5, <3>6
  <2>4. QED
    BY <2>1, <2>2, <2>3
<1>6. QED
  BY <1>1, <1>4, <1>5 DEF SoundExchange, DigestIsOwn, dn

(* The digest that MiEncodePayload adds is that of the payload it leaves.  *)
LEMMA MiEncodedIsSound ==
  ASSUME NEW e, SoundExchange(e), NEW n
  PROVE  /\ SoundExchange(MiEncoded(e, n))
         /\ MiEncoded(e, n).sigs = e.sigs
<1> DEFINE dn == DigestHeaderName(e.ver)
           p == [enc |-> MiceEncoding(e.ver), content |-> e.payload.content, rs |-> n]
           h == Add(e.resph, "content-encoding", <<Token("mi-sha256")>>)
           r == Add(h, dn, <<Digest(p)>>)
           x == MiEncoded(e, n)
<1>1. DOMAIN e = {"ver", "uri", "method", "reqh", "status", "resph", "sigs", "payload"}
  BY DEF SoundExchange
<1>2. x = [e EXCEPT !.payload = p, !.resph = r]
  BY DEF MiEncoded
<1>3. IsMap(h) /\ IsMap(r)
  <2>1. <<Token("mi-sha256")>> \in Seq({Token("mi-sha256")})
    OBVIOUS
  <2>2. <<Digest(p)>> \in Seq({Digest(p)})
    OBVIOUS
  <2>3. IsMap(h)
    BY <2>1, AddKeepsMap DEF SoundExchange
  <2> HIDE DEF h, p
  <2>4. QED
    BY <2>2, <2>3, AddKeepsMap
<1>4. r[dn] = IF dn \in DOMAIN h THEN Append(h[dn], <<Digest(p)>>) ELSE <<<<Digest(p)>>>>
  BY DEF Add
<1> HIDE DEF p, h, r, x
<1>5. /\ DOMAIN x = DOMAIN e
      /\ x.ver = e.ver /\ x.sigs = e.sigs /\ x.payload = p /\ x.resph = r
  BY <1>1, <1>2
<1> HIDE DEF dn
<1>6. \E j \in 1..Len(r[dn]) : Occurs(Digest(p), r[dn][j])
  <2>1. Occurs(Digest(p), <<Digest(p)>>)
    BY DEF Occurs
  <2> DEFINE v == <<Digest(p)>>
  <2>2. CASE dn \notin DOMAIN h
    <3> HIDE DEF v
    <3>1. Len(<<v>>) = 1 /\ <<v>>[1] = v
      OBVIOUS
    <3>2. r[dn] = <<v>>
      BY <1>4, <2>2 DEF v
    <3>3. QED
      BY <2>1, <3>1, <3>2 DEF v
  <2>3. CASE dn \in DOMAIN h
    <3>1. PICK T : h[dn] \in Seq(Seq(T))
      BY <1>3, <2>3 DEF IsMap
    <3> DEFINE s == h[dn]
               u == Append(s, v)
    <3> HIDE DEF s, v
    <3>2. s \in Seq(Seq(T) \cup {v}) /\ v \in Seq(T) \cup {v}
      BY <3>1, SeqMonotonic DEF s
    <3>3. Len(s) \in Nat /\ Len(u) = Len(s) + 1 /\ u[Len(s) + 1] = v
      BY <3>2, AppendProperties, LenProperties
    <3>4. r[dn] = u
      BY <1>4, <2>3 DEF s, v
    <3> HIDE DEF u
    <3>5. Len(s) + 1 \in 1..Len(u)
      BY <3>3
    <3>6. QED
      BY <2>1, <3>3, <3>4, <3>5 DEF v
  <2>4. QED
    BY <2>2, <2>3
<1>7. DigestIsOwn(x)
  BY <1>5, <1>6 DEF DigestIsOwn, dn
<1>8. QED
  BY <1>1, <1>3, <1>5, <1>7 DEF SoundExchange, x

(* The signatures that an exchange carries are not part of what is signed. *)
LEMMA SignaturesAreNotSigned ==
  ASSUME NEW x, NEW y, NEW s,
         x.ver = y.ver, x.uri = y.uri, x.method = y.method, x.reqh = y.reqh,
         x.status = y.status, x.resph = y.resph
  PROVE  SignatureOf(x, s) = SignatureOf(y, s)
<1>1. EncodedRequestMap(x) = EncodedRequestMap(y)
  BY DEF EncodedRequestMap
<1>2. EncodedHeaders(x) = EncodedHeaders(y)
  BY <1>1 DEF EncodedHeaders
<1>3. HeadersEncodable(x) <=> HeadersEncodable(y)
  BY DEF HeadersEncodable
<1>4. \A c, v, d, u : SignedMessage(x, c, v, d, u) = SignedMessage(y, c, v, d, u)
  BY <1>2, <1>3 DEF SignedMessage
<1>5. SignedMessage(x, CertSha256(s.certs), s.validityUrl, s.date, s.expires)
        = SignedMessage(y, CertSha256(s.certs), s.validityUrl, s.date, s.expires)
  BY <1>4
<1>6. QED
  BY <1>5, Zenon DEF SignatureOf

LEMMA SignedIsSound ==
  ASSUME PublisherInv, NEW s, AddSignatureHeader(s)
  PROVE  PublisherInv'
<1>1. PICK e : exchange = <<e>> /\ SoundExchange(e)
  BY DEF AddSignatureHeader, PublisherInv
<1> DEFINE x == [e EXCEPT !.sigs = <<SignatureOf(e, s)>>]
           y == [e EXCEPT !.sigs = None]
           g == [exchange |-> y, signer |-> s]
<1>2. DOMAIN e = {"ver", "uri", "method", "reqh", "status", "resph", "sigs", "payload"}
  BY <1>1 DEF SoundExchange
<1>3. exchange' = <<x>> /\ signings' = signings \cup {g}
  BY <1>1 DEF AddSignatureHeader
<1>4. /\ DOMAIN x = DOMAIN e /\ x.ver = e.ver /\ x.payload = e.payload
      /\ x.resph = e.resph /\ x.sigs = <<SignatureOf(e, s)>>
  BY <1>2
<1>5. /\ DOMAIN y = DOMAIN e /\ y.ver = e.ver /\ y.payload = e.payload
      /\ y.resph = e.resph /\ y.uri = e.uri /\ y.method = e.method
      /\ y.reqh = e.reqh /\ y.status = e.status
  BY <1>2
<1>6. g.exchange = y /\ g.signer = s
  OBVIOUS
<1> HIDE DEF x, y, g
<1>7. SoundExchange(x) /\ SoundExchange(y)
  BY <1>1, <1>2, <1>4, <1>5 DEF SoundExchange, DigestIsOwn
<1>8. SignatureOf(y, s) = SignatureOf(e, s)
  BY <1>5, SignaturesAreNotSigned
<1>9. Genuine(SignatureOf(e, s), signings')
  <2>1. /\ {"sig", "date", "expires"} \subseteq DOMAIN SignatureOf(e, s)
        /\ SignatureOf(e, s).date = s.date /\ SignatureOf(e, s).expires = s.expires
    BY DEF SignatureOf
  <2>2. g \in signings'
    BY <1>3
  <2>3. QED
    BY <1>6, <1>8, <2>1, <2>2 DEF Genuine
<1>10. GenuineList(x.sigs, signings')
  <2> DEFINE t == SignatureOf(e, s)
  <2> HIDE DEF t
  <2>1. <<t>> \in Seq({t})
    OBVIOUS
  <2>2. x.sigs \in Seq({t}) /\ \A u \in {t} : Genuine(u, signings')
    BY <1>4, <1>9, <2>1 DEF t
  <2>3. QED
    BY <2>2 DEF GenuineList
<1>11. \A k \in signings' : SoundExchange(k.exchange)
  BY <1>3, <1>6, <1>7 DEF PublisherInv
<1>12. QED
  BY <1>3, <1>7, <1>10, <1>11 DEF PublisherInv

(* What Write puts in a file is the fields of the exchange in their order, *)
(* up to the first check that fails.                                       *)
LEMMA StepsInOrder ==
  ASSUME NEW e
  PROVE  LET limited == e.ver # "1b1"
             at(i) == Steps(e)[i].part
             n == IF limited THEN 3 ELSE 1
         IN /\ Len(Steps(e)) = n + 5 /\ DOMAIN Steps(e) = 1..(n + 5)
            /\ \A i \in 1..(n + 5) : DOMAIN at(i) = {"tag", "val", "size"}
            /\ at(1).tag = "magic" /\ at(1).val = e.ver
            /\ at(n + 3).tag = "sig" /\ at(n + 3).val = e.sigs
            /\ at(n + 4).tag = "headers" /\ at(n + 4).val = EncodedHeaders(e)
            /\ \A i \in 1..(n + 5) :
                 i \notin {n + 3, n + 4} => at(i).tag \notin {"sig", "headers"}
<1> DEFINE sig == SigLength(e.sigs)
           hdr == HeaderLength(e)
           limited == e.ver # "1b1"
           step(ok, tag, val, size) == [ok |-> ok, part |-> Part(tag, val, size)]
           a == step(TRUE, "magic", e.ver, 8)
           b == step(EncodableUint(e.uri.len, Field2), "urlLength",
                     StoredUint(e.uri.len, Field2), 2)
           c == step(TRUE, "url", e.uri, e.uri.len)
           d == step((limited => sig <= MaxSigLength) /\ EncodableUint(sig, Field3),
                     "sigLength", StoredUint(sig, Field3), 3)
           f == step((limited => hdr <= MaxHeaderLength) /\ EncodableUint(hdr, Field3),
                     "headerLength", StoredUint(hdr, Field3), 3)
           p == step(TRUE, "sig", e.sigs, sig)
           q == step(TRUE, "headers", EncodedHeaders(e), hdr)
           r == step(TRUE, "payload", e.payload, 0)
<1>1. Steps(e) = IF limited THEN <<a, b, c, d, f, p, q, r>> ELSE <<a, d, f, p, q, r>>
  BY DEF Steps
<1>2. \A i \in {a, b, c, d, f, p, q, r} : DOMAIN i.part = {"tag", "val", "size"}
  BY DEF Part
<1>3. /\ a.part.tag = "magic" /\ a.part.val = e.ver
      /\ b.part.tag = "urlLength" /\ c.part.tag = "url"
      /\ d.part.tag = "sigLength" /\ f.part.tag = "headerLength"
      /\ p.part.tag = "sig" /\ p.part.val = e.sigs
      /\ q.part.tag = "headers" /\ q.part.val = EncodedHeaders(e)
      /\ r.part.tag = "payload"
  BY DEF Part
<1> HIDE DEF a, b, c, d, f, p, q, r
<1>4. CASE ~limited
  <2>1. Steps(e) = <<a, d, f, p, q, r>>
    BY <1>1, <1>4
  <2>2. QED
    BY <1>2, <1>3, <1>4, <2>1
<1>5. CASE limited
  <2>1. Steps(e) = <<a, b, c, d, f, p, q, r>>
    BY <1>1, <1>5
  <2>2. QED
    BY <1>2, <1>3, <1>5, <2>1
<1>6. QED
  BY <1>4, <1>5

LEMMA WrittenIsSound ==
  ASSUME NEW e, NEW past, GenuineList(e.sigs, past)
  PROVE  SoundFile(Written(e).parts, past)
<1> DEFINE steps == Steps(e)
           bad == {i \in DOMAIN steps : ~steps[i].ok}
           n == IF ~HeadersEncodable(e) THEN 0
                ELSE IF bad = {} THEN Len(steps) ELSE Min(bad) - 1
           k == IF e.ver # "1b1" THEN 3 ELSE 1
           f == [i \in 1..n |-> steps[i].part]
<1>1. Written(e).parts = f
  BY DEF Written
<1>2. k \in Nat /\ (k = IF e.ver # "1b1" THEN 3 ELSE 1)
  OBVIOUS
<1>3. /\ Len(steps) = k + 5 /\ DOMAIN steps = 1..(k + 5)
      /\ \A i \in 1..(k + 5) : DOMAIN steps[i].part = {"tag", "val", "size"}
      /\ steps[1].part.tag = "magic" /\ steps[1].part.val = e.ver
      /\ steps[k + 3].part.tag = "sig" /\ steps[k + 3].part.val = e.sigs
      /\ steps[k + 4].part.tag = "headers" /\ steps[k + 4].part.val = EncodedHeaders(e)
      /\ \A i \in 1..(k + 5) :
           i \notin {k + 3, k + 4} => steps[i].part.tag \notin {"sig", "headers"}
  BY StepsInOrder
<1> HIDE DEF steps, k
<1>4. n \in 0..(k + 5) /\ (n # 0 => HeadersEncodable(e))
  <2>1. CASE bad # {} /\ HeadersEncodable(e)
    <3>1. bad \in SUBSET Nat /\ \A i \in bad : i \in 1..(k + 5)
      BY <1>2, <1>3
    <3>2. Min(bad) \in bad
      BY <2>1, <3>1, MinIsLeast
    <3>3. n = Min(bad) - 1
      BY <2>1
    <3> HIDE DEF bad, n
    <3>4. Min(bad) \in 1..(k + 5)
      BY <3>1, <3>2
    <3>5. QED
      BY <1>2, <2>1, <3>3, <3>4
  <2>2. CASE ~(bad # {} /\ HeadersEncodable(e))
    BY <1>2, <1>3, <2>2
  <2>3. QED
    BY <2>1, <2>2
<1> HIDE DEF n
<1>5. Len(f) = n /\ DOMAIN f = 1..n /\ \A i \in 1..n : f[i] = steps[i].part
  BY <1>2, <1>4
<1> HIDE DEF f
<1>6. ASSUME NEW i \in 1..n
      PROVE  SoundField(f, i, past)
  <2>1. 1 \in 1..n /\ i \in 1..(k + 5) /\ HeadersEncodable(e)
    BY <1>2, <1>4
  <2>2. f[i] = steps[i].part /\ f[1].val = e.ver
    BY <1>3, <1>5, <2>1
  <2>3. SigAt(e.ver) = k + 3
    BY <1>2 DEF SigAt
  <2>4. f[i].tag = "sig" => i = k + 3 \/ i = k + 4
    BY <1>3, <2>1, <2>2
  <2>5. f[i].tag = "sig" => i = k + 3
    BY <1>3, <2>2, <2>4
  <2>6. f[i].tag = "headers" => i = k + 4
    BY <1>3, <2>1, <2>2
  <2>7. f[i].tag = "headers" => SoundHeaders(e.ver, f[i].val)
    BY <1>3, <2>1, <2>2, <2>6 DEF SoundHeaders
  <2>8. f[i].tag = "sig" => GenuineList(f[i].val, past)
    BY <1>3, <2>2, <2>5
  <2>9. /\ DOMAIN f[i] = {"tag", "val", "size"}
        /\ i = 1 => f[i].tag = "magic"
        /\ i = k + 3 => f[i].tag = "sig"
    BY <1>3, <2>1, <2>2
  <2>10. QED
    BY <2>2, <2>3, <2>7, <2>8, <2>9 DEF SoundField
<1>7. QED
  BY <1>1, <1>4, <1>5, <1>6 DEF SoundFile

-----------------------------------------------------------------------------
(* What reaches a reader                                                   *)

(* A field is where its tag is. *)
LEMMA FieldIsThere ==
  ASSUME NEW f, NEW tag, Has(f, tag)
  PROVE  \E i \in DOMAIN f : f[i].tag = tag /\ Field(f, tag) = f[i]
BY DEF Has, Field

LEMMA CutIsSound ==
  ASSUME NEW past, NEW f, SoundFile(f, past), NEW g \in Cuts(f)
  PROVE  SoundFile(g, past)
<1>1. Len(f) \in Nat /\ DOMAIN f = 1..Len(f) /\ \A i \in 1..Len(f) : SoundField(f, i, past)
  BY DEF SoundFile
<1>2. PICK n \in 1..Len(f) : g = SubSeq(f, 1, n)
  BY DEF Cuts
<1>3. Len(g) = n /\ DOMAIN g = 1..n /\ \A i \in 1..n : g[i] = f[i]
  BY <1>1, <1>2
<1>4. ASSUME NEW i \in 1..n PROVE SoundField(g, i, past)
  <2>1. g[i] = f[i] /\ g[1] = f[1] /\ SoundField(f, i, past)
    BY <1>1, <1>2, <1>3
  <2>2. QED
    BY <2>1 DEF SoundField
<1>5. QED
  BY <1>1, <1>3, <1>4 DEF SoundFile

(* Replacing fields by fields of the same tag, of sound content, leaves a  *)
(* sound file.                                                             *)
Retagged(f, g, past) ==
  /\ DOMAIN g = DOMAIN f /\ Len(g) = Len(f)
  /\ Len(f) # 0 => g[1] = f[1]
  /\ \A i \in DOMAIN f :
       /\ DOMAIN g[i] = {"tag", "val", "size"}
       /\ g[i].tag = f[i].tag
       /\ g[i].tag = "sig" => GenuineList(g[i].val, past)
       /\ g[i].tag = "headers" => SoundHeaders(f[1].val, g[i].val)

LEMMA RetaggedIsSound ==
  ASSUME NEW past, NEW f, SoundFile(f, past), NEW g, Retagged(f, g, past)
  PROVE  SoundFile(g, past)
<1>1. Len(f) \in Nat /\ DOMAIN f = 1..Len(f) /\ \A i \in 1..Len(f) : SoundField(f, i, past)
  BY DEF SoundFile
<1>2. ASSUME NEW i \in 1..Len(g) PROVE SoundField(g, i, past)
  <2>1. i \in DOMAIN f /\ g[1] = f[1] /\ SoundField(f, i, past)
    BY <1>1 DEF Retagged
  <2>2. QED
    BY <2>1 DEF SoundField, Retagged
<1>3. QED
  BY <1>1, <1>2 DEF SoundFile, Retagged

LEMMA MixtureIsSound ==
  ASSUME NEW past, NEW f, SoundFile(f, past), f # <<>>,
         NEW h, SoundFile(h, past), h # <<>>, NEW g \in Mixtures(f, h)
  PROVE  SoundFile(g, past)
<1>1. PICK group \in Groups : /\ f[1] = h[1] \/ "headers" \notin group
                              /\ g = WithFieldsOf(f, h, group)
  BY DEF Mixtures
<1>2. /\ Len(f) \in Nat /\ DOMAIN f = 1..Len(f)
      /\ \A i \in 1..Len(f) : SoundField(f, i, past)
      /\ DOMAIN h = 1..Len(h) /\ \A i \in 1..Len(h) : SoundField(h, i, past)
  BY DEF SoundFile
<1>3. /\ DOMAIN g = DOMAIN f
      /\ \A i \in DOMAIN f : g[i] = IF f[i].tag \in group /\ Has(h, f[i].tag)
                                    THEN Field(h, f[i].tag) ELSE f[i]
  BY <1>1 DEF WithFieldsOf
<1>4. Len(g) = Len(f)
  BY <1>2, <1>3
<1>5. "magic" \notin group
  BY <1>1 DEF Groups
<1>6. Len(f) # 0 => g[1] = f[1]
  <2> SUFFICES ASSUME Len(f) # 0 PROVE g[1] = f[1]
    OBVIOUS
  <2>1. 1 \in DOMAIN f /\ f[1].tag = "magic"
    BY <1>2 DEF SoundField
  <2>2. QED
    BY <1>3, <1>5, <2>1
<1>7. ASSUME NEW i \in DOMAIN f
      PROVE  /\ DOMAIN g[i] = {"tag", "val", "size"}
             /\ g[i].tag = f[i].tag
             /\ g[i].tag = "sig" => GenuineList(g[i].val, past)
             /\ g[i].tag = "headers" => SoundHeaders(f[1].val, g[i].val)
  <2>1. CASE f[i].tag \in group /\ Has(h, f[i].tag)
    <3>1. PICK j \in DOMAIN h : h[j].tag = f[i].tag /\ Field(h, f[i].tag) = h[j]
      BY <2>1, FieldIsThere
    <3>2. g[i] = h[j] /\ SoundField(h, j, past)
      BY <1>2, <1>3, <2>1, <3>1
    <3>3. g[i].tag = "headers" => f[1] = h[1]
      BY <1>1, <2>1, <3>1, <3>2
    <3>4. QED
      BY <3>1, <3>2, <3>3 DEF SoundField
  <2>2. CASE ~(f[i].tag \in group /\ Has(h, f[i].tag))
    <3>1. g[i] = f[i] /\ SoundField(f, i, past)
      BY <1>2, <1>3, <2>2
    <3>2. QED
      BY <3>1 DEF SoundField
  <2>3. QED
    BY <2>1, <2>2
<1>8. Retagged(f, g, past)
  BY <1>3, <1>4, <1>6, <1>7 DEF Retagged
<1>9. QED
  BY <1>8, RetaggedIsSound

LEMMA DamagedIsSound ==
  ASSUME NEW past, NEW f, SoundFile(f, past)
  PROVE  SoundFile(Damaged(f), past)
<1> DEFINE g == Damaged(f)
<1>1. /\ Len(f) \in Nat /\ DOMAIN f = 1..Len(f)
      /\ \A i \in 1..Len(f) : SoundField(f, i, past)
  BY DEF SoundFile
<1>2. /\ DOMAIN g = DOMAIN f
      /\ \A i \in DOMAIN f : g[i] = IF f[i].tag # "payload" THEN f[i]
                                    ELSE [f[i] EXCEPT !.val.enc = "damaged"]
  BY DEF Damaged
<1> HIDE DEF g
<1>3. Len(g) = Len(f)
  BY <1>1, <1>2
<1>4. ASSUME NEW i \in DOMAIN f
      PROVE  /\ f[i].tag # "payload" => g[i] = f[i]
             /\ DOMAIN g[i] = {"tag", "val", "size"}
             /\ g[i].tag = f[i].tag
  <2>1. DOMAIN f[i] = {"tag", "val", "size"}
    BY <1>1 DEF SoundField
  <2>2. CASE f[i].tag # "payload"
    BY <1>2, <2>1, <2>2
  <2>3. CASE f[i].tag = "payload"
    <3> DEFINE r == f[i]
    <3>1. g[i] = [r EXCEPT !.val.enc = "damaged"]
      BY <1>2, <2>3
    <3> HIDE DEF r
    <3>2. DOMAIN r = {"tag", "val", "size"}
      BY <2>1 DEF r
    <3>3. DOMAIN g[i] = DOMAIN r /\ g[i].tag = r.tag
      BY <3>1, <3>2
    <3>4. QED
      BY <2>3, <3>2, <3>3 DEF r
  <2>4. QED
    BY <2>2, <2>3
<1>5. Len(f) # 0 => g[1] = f[1]
  BY <1>1, <1>4 DEF SoundField
<1>6. ASSUME NEW i \in DOMAIN f
      PROVE  /\ DOMAIN g[i] = {"tag", "val", "size"}
             /\ g[i].tag = f[i].tag
             /\ g[i].tag = "sig" => GenuineList(g[i].val, past)
             /\ g[i].tag = "headers" => SoundHeaders(f[1].val, g[i].val)
  BY <1>1, <1>4 DEF SoundField
<1>7. Retagged(f, g, past)
  BY <1>2, <1>3, <1>5, <1>6 DEF Retagged
<1>8. SoundFile(g, past)
  BY <1>7, RetaggedIsSound
<1>9. QED
  BY <1>8 DEF g

LEMMA JoinedListsAreGenuine ==
  ASSUME NEW past, NEW a, GenuineList(a, past), NEW b, GenuineList(b, past)
  PROVE  GenuineList(a \o b, past)
<1>1. PICK S : a \in Seq(S) /\ \A s \in S : Genuine(s, past)
  BY DEF GenuineList
<1>2. PICK T : b \in Seq(T) /\ \A s \in T : Genuine(s, past)
  BY DEF GenuineList
<1>3. a \in Seq(S \cup T) /\ b \in Seq(S \cup T) /\ \A s \in S \cup T : Genuine(s, past)
  BY <1>1, <1>2, SeqMonotonic
<1>4. a \o b \in Seq(S \cup T)
  BY <1>3, ConcatProperties
<1>5. QED
  BY <1>3, <1>4 DEF GenuineList

LEMMA ListedIsSound ==
  ASSUME NEW past, NEW f, SoundFile(f, past), HasSignature(f),
         NEW h, SoundFile(h, past), HasSignature(h)
  PROVE  SoundFile(Listed(f, h), past)
<1> DEFINE own == Field(f, "sig").val
           other == Field(h, "sig").val
           partial == [own[1] EXCEPT !.complete = FALSE]
           sigs == <<partial>> \o other \o own
           put(p) == IF p.tag = "sig"
                     THEN Part("sig", sigs, SigLength(sigs))
                     ELSE IF p.tag = "sigLength"
                     THEN Part("sigLength", SigLength(sigs), 3)
                     ELSE p
           g == Listed(f, h)
<1>1. /\ Len(f) \in Nat /\ DOMAIN f = 1..Len(f)
      /\ \A i \in 1..Len(f) : SoundField(f, i, past)
      /\ DOMAIN h = 1..Len(h) /\ \A i \in 1..Len(h) : SoundField(h, i, past)
  BY DEF SoundFile
<1>2. g = [i \in DOMAIN f |-> put(f[i])]
  BY DEF Listed
<1>3. GenuineList(own, past) /\ GenuineList(other, past) /\ own # <<>>
  <2>1. PICK i \in DOMAIN f : f[i].tag = "sig" /\ Field(f, "sig") = f[i]
    BY FieldIsThere DEF HasSignature
  <2>2. PICK j \in DOMAIN h : h[j].tag = "sig" /\ Field(h, "sig") = h[j]
    BY FieldIsThere DEF HasSignature
  <2>3. QED
    BY <1>1, <2>1, <2>2 DEF SoundField, HasSignature
<1> HIDE DEF own, other
<1>4. GenuineList(sigs, past)
  <2>1. Genuine(own[1], past)
    <3>1. PICK T : own \in Seq(T) /\ \A s \in T : Genuine(s, past)
      BY <1>3 DEF GenuineList
    <3>2. own[1] \in T
      BY <1>3, <3>1, ElementOfSeq, EmptySeq, LenProperties
    <3>3. QED
      BY <3>1, <3>2
  <2>2. Genuine(partial, past)
    <3> DEFINE s == own[1]
    <3> HIDE DEF s
    <3>1. {"sig", "date", "expires"} \subseteq DOMAIN s
      BY <2>1 DEF Genuine, s
    <3> DEFINE t == [s EXCEPT !.complete = FALSE]
    <3>2. /\ DOMAIN t = DOMAIN s
          /\ t.sig = s.sig /\ t.date = s.date /\ t.expires = s.expires
      BY <3>1
    <3> HIDE DEF t
    <3>3. Genuine(t, past)
      BY <2>1, <3>2 DEF Genuine, s
    <3>4. QED
      BY <3>3 DEF s, t
  <2> HIDE DEF partial
  <2>3. GenuineList(<<partial>>, past)
    <3> DEFINE one == <<partial>>
    <3>1. one \in Seq({partial}) /\ \A s \in {partial} : Genuine(s, past)
      BY <2>2
    <3> HIDE DEF one
    <3>2. GenuineList(one, past)
      BY <3>1 DEF GenuineList
    <3>3. QED
      BY <3>2 DEF one
  <2>4. GenuineList(<<partial>> \o other, past)
    BY <1>3, <2>3, JoinedListsAreGenuine
  <2>5. QED
    BY <1>3, <2>4, JoinedListsAreGenuine
<1> HIDE DEF sigs, g
<1>5. /\ DOMAIN g = DOMAIN f
      /\ \A i \in DOMAIN f : g[i] = put(f[i])
  BY <1>2
<1>6. Len(g) = Len(f)
  BY <1>1, <1>5
<1>7. ASSUME NEW i \in DOMAIN f
      PROVE  /\ f[i].tag \notin {"sig", "sigLength"} => g[i] = f[i]
             /\ DOMAIN g[i] = {"tag", "val", "size"}
             /\ g[i].tag = f[i].tag
             /\ f[i].tag = "sig" => g[i].val = sigs
  <2>1. DOMAIN f[i] = {"tag", "val", "size"}
    BY <1>1 DEF SoundField
  <2>2. QED
    BY <1>5, <2>1 DEF Part
<1>8. Len(f) # 0 => g[1] = f[1]
  BY <1>1, <1>7 DEF SoundField
<1>9. ASSUME NEW i \in DOMAIN f
      PROVE  /\ DOMAIN g[i] = {"tag", "val", "size"}
             /\ g[i].tag = f[i].tag
             /\ g[i].tag = "sig" => GenuineList(g[i].val, past)
             /\ g[i].tag = "headers" => SoundHeaders(f[1].val, g[i].val)
  BY <1>1, <1>4, <1>7 DEF SoundField
<1>10. Retagged(f, g, past)
  BY <1>5, <1>6, <1>8, <1>9 DEF Retagged
<1>11. SoundFile(g, past)
  BY <1>10, RetaggedIsSound
<1>12. QED
  BY <1>11 DEF g

LEMMA DeliveredIsSound ==
  ASSUME DiskInv, NEW i \in DOMAIN disk, NEW f \in Delivered(disk[i])
  PROVE  SoundFile(f, signings)
<1>1. \A d \in Range(disk) : SoundFile(d.file, signings)
  <2>1. PICK T : disk \in Seq(T) /\ \A d \in T : SoundFile(d.file, signings)
    BY DEF DiskInv
  <2>2. \A j \in DOMAIN disk : disk[j] \in T
    BY <2>1, ElementOfSeq, LenProperties
  <2>3. QED
    BY <2>1, <2>2 DEF Range
<1> DEFINE o == disk[i].file
<1>2. SoundFile(o, signings)
  BY <1>1 DEF Range
<1>3. o # <<>> /\ f \in Cuts(o) \cup {Damaged(o)} \cup MixedOf(o) \cup ListedOf(o)
  BY DEF Delivered
<1>4. f \in Cuts(o) \/ f = Damaged(o) \/ f \in MixedOf(o) \/ f \in ListedOf(o)
  BY <1>3
<1> HIDE DEF o
<1>5. CASE f \in MixedOf(o)
  <2>1. PICK d \in Range(disk) : d.file # <<>> /\ f \in Mixtures(o, d.file)
    BY <1>5 DEF MixedOf
  <2>2. QED
    BY <1>1, <1>2, <1>3, <2>1, MixtureIsSound
<1>6. CASE f \in ListedOf(o)
  <2>1. PICK d \in Range(disk) : /\ HasSignature(o) /\ HasSignature(d.file)
                                 /\ f = Listed(o, d.file)
    BY <1>6 DEF ListedOf
  <2>2. QED
    BY <1>1, <1>2, <2>1, ListedIsSound
<1>7. QED
  BY <1>2, <1>4, <1>5, <1>6, CutIsSound, DamagedIsSound

-----------------------------------------------------------------------------
(* The reader                                                              *)

(* What ReadExchange makes of a file has the headers that Write put in one,*)
(* of its version, and signatures that were made.                          *)
LEMMA ReadIsSound ==
  ASSUME NEW past, NEW f, SoundFile(f, past), ReadExchange(f).ok
  PROVE  SoundRead(ReadExchange(f).exchange, past)
<1> DEFINE v == f[1].val
           n == IF v = "1b1" THEN 1 ELSE 3
           h == f[n + 4].val
           q == h.request[1]
           x == ReadExchange(f).exchange
<1>1. /\ HasField(f, n + 4, "headers")
      /\ x = [ver     |-> v,
              uri     |-> IF v = "1b1" THEN q.url[1] ELSE f[3].val,
              method  |-> IF HasRequestMap(v) THEN q.method ELSE "GET",
              reqh    |-> IF HasRequestMap(v) THEN q.headers ELSE NoHeaders,
              status  |-> h.status,
              resph   |-> h.headers,
              sigs    |-> f[n + 3].val,
              payload |-> IF HasField(f, n + 5, "payload")
                          THEN f[n + 5].val
                          ELSE [enc |-> "cut", content |-> None, rs |-> 0]]
  <2>1. ~Unreadable.ok
    BY DEF Unreadable
  <2>2. QED
    BY <2>1 DEF ReadExchange
<1>2. /\ x.ver = v /\ x.resph = h.headers /\ x.sigs = f[n + 3].val
      /\ HasRequestMap(v) => x.reqh = q.headers
  <2> HIDE DEF v, n, h, q, x
  <2>1. QED
    BY <1>1
<1> HIDE DEF x
<1>3. n + 3 = SigAt(v) /\ n \in Nat
  BY DEF SigAt
<1>4. /\ n + 3 \in 1..Len(f) /\ n + 4 \in 1..Len(f)
      /\ SoundField(f, n + 3, past) /\ SoundField(f, n + 4, past)
      /\ f[n + 4].tag = "headers"
  <2>1. Len(f) \in Nat /\ n + 4 \in 1..Len(f) /\ f[n + 4].tag = "headers"
    BY <1>1 DEF SoundFile, HasField
  <2> HIDE DEF n, v
  <2>2. n + 3 \in 1..Len(f)
    BY <1>3, <2>1
  <2>3. QED
    BY <2>1, <2>2 DEF SoundFile
<1> HIDE DEF n
<1>5. GenuineList(x.sigs, past)
  BY <1>2, <1>3, <1>4 DEF SoundField
<1>6. PICK e : e.ver = v /\ HeadersEncodable(e) /\ h = EncodedHeaders(e)
  BY <1>4 DEF SoundField, SoundHeaders
<1>7. h.headers = Joined(e.resph) /\ h.request = EncodedRequestMap(e)
  BY <1>6 DEF EncodedHeaders
<1>8. HasRequestMap(v) => q.headers = Joined(e.reqh)
  <2> SUFFICES ASSUME HasRequestMap(v) PROVE q.headers = Joined(e.reqh)
    OBVIOUS
  <2> DEFINE r == [method |-> e.method, headers |-> Joined(e.reqh),
                   url |-> IF e.ver = "1b1" THEN <<e.uri>> ELSE None]
  <2>1. h.request = <<r>>
    BY <1>6, <1>7 DEF EncodedRequestMap
  <2>2. r.headers = Joined(e.reqh)
    OBVIOUS
  <2> HIDE DEF r
  <2>3. QED
    BY <2>1, <2>2
<1> HIDE DEF q, h, v
<1>9. /\ Joined(x.resph) = x.resph /\ DOMAIN x.resph = DOMAIN e.resph
      /\ HasRequestMap(v) => /\ Joined(x.reqh) = x.reqh
                             /\ DOMAIN x.reqh = DOMAIN e.reqh
  BY <1>2, <1>7, <1>8, JoinedTwice
<1>10. HeadersEncodable(x)
  <2>1. v = "1b1" => HasRequestMap(v)
    BY DEF HasRequestMap
  <2>2. QED
    BY <1>2, <1>6, <1>9, <2>1 DEF HeadersEncodable
<1>11. SoundRead(x, past)
  BY <1>2, <1>5, <1>9, <1>10 DEF SoundRead
<1>12. QED
  BY <1>11 DEF x

LEMMA OpenKeepsSound ==
  ASSUME Sound, NEW i \in DOMAIN disk, NEW at, NEW file \in Delivered(disk[i]),
         Open(i, file, at)
  PROVE  Sound'
<1>1. UNCHANGED publisher
  BY DEF Open
<1>2. PublisherInv' /\ DiskInv'
  BY <1>1 DEF Sound, PublisherInv, DiskInv, publisher
<1>3. ReaderInv'
  <2> DEFINE r == ReadExchange(file)
             x == [phase |-> "verifying", entry |-> i, file |-> file,
                   exchange |-> r.exchange, at |-> at,
                   fetched |-> <<>>, valid |-> FALSE]
  <2>1. CASE r.ok
    <3>1. SoundRead(r.exchange, signings)
      BY <2>1, DeliveredIsSound, ReadIsSound DEF Sound
    <3>2. reader' = x
      BY <2>1 DEF Open
    <3>3. /\ DOMAIN x = {"phase", "entry", "file", "exchange", "at", "fetched", "valid"}
          /\ x.fetched \in Seq({}) /\ x.exchange = r.exchange /\ ~x.valid
      OBVIOUS
    <3> HIDE DEF x, r
    <3>4. QED
      BY <1>1, <3>1, <3>2, <3>3 DEF ReaderInv, publisher
  <2>2. CASE ~r.ok
    <3>1. reader'.phase = "unreadable"
      BY <2>2 DEF Open
    <3>2. QED
      BY <3>1 DEF ReaderInv
  <2>3. QED
    BY <2>1, <2>2
<1>4. QED
  BY <1>2, <1>3 DEF Sound

LEMMA VerifyNextKeepsSound ==
  ASSUME Sound, NEW chain, VerifyNext(chain)
  PROVE  Sound'
<1> DEFINE e == reader.exchange
           i == Len(reader.fetched) + 1
           ok == SignatureAccepted(e, e.sigs[i], reader.at, chain)
<1>1. /\ UNCHANGED publisher /\ reader.phase = "verifying" /\ i <= Len(e.sigs)
      /\ reader' = [reader EXCEPT !.fetched = Append(@, chain),
                                  !.valid = ok,
                                  !.phase = IF ok THEN "done" ELSE "verifying"]
  BY DEF VerifyNext
<1>2. PublisherInv' /\ DiskInv'
  BY <1>1 DEF Sound, PublisherInv, DiskInv, publisher
<1>3. /\ DOMAIN reader = {"phase", "entry", "file", "exchange", "at", "fetched", "valid"}
      /\ SoundRead(e, signings)
      /\ \E T : reader.fetched \in Seq(T)
  BY <1>1 DEF Sound, ReaderInv
<1> HIDE DEF ok
<1>4. /\ DOMAIN reader' = DOMAIN reader
      /\ (reader').exchange = e
      /\ (reader').at = reader.at
      /\ (reader').fetched = Append(reader.fetched, chain)
      /\ (reader').valid = ok
  BY <1>1, <1>3
<1>5. PICK T : reader.fetched \in Seq(T)
  BY <1>3
<1>6. /\ (reader').fetched \in Seq(T \cup {chain})
      /\ i \in DOMAIN (reader').fetched
      /\ (reader').fetched[i] = chain
  <2>1. reader.fetched \in Seq(T \cup {chain}) /\ chain \in T \cup {chain}
    BY <1>5, SeqMonotonic
  <2> DEFINE s == reader.fetched
  <2> HIDE DEF s
  <2>2. /\ Append(s, chain) \in Seq(T \cup {chain})
        /\ Len(Append(s, chain)) = Len(s) + 1 /\ Append(s, chain)[Len(s) + 1] = chain
        /\ Len(s) \in Nat
    BY <2>1, AppendProperties, LenProperties DEF s
  <2>3. Len(s) + 1 \in DOMAIN Append(s, chain)
    BY <2>2, LenProperties
  <2>4. QED
    BY <1>4, <2>2, <2>3 DEF s
<1>7. chain \in Range((reader').fetched)
  BY <1>6 DEF Range
<1>8. i \in DOMAIN e.sigs
  <2>1. PICK S : e.sigs \in Seq(S)
    BY <1>3 DEF SoundRead, GenuineList
  <2>2. Len(reader.fetched) \in Nat /\ Len(e.sigs) \in Nat /\ DOMAIN e.sigs = 1..Len(e.sigs)
    BY <1>5, <2>1, LenProperties
  <2>3. QED
    BY <1>1, <2>2
<1> HIDE DEF e, i
<1>9. ReaderInv'
  BY <1>1, <1>3, <1>4, <1>6, <1>7, <1>8 DEF ReaderInv, ok, publisher
<1>10. QED
  BY <1>2, <1>9 DEF Sound

LEMMA GiveUpKeepsSound ==
  ASSUME Sound, GiveUp
  PROVE  Sound'
<1>1. /\ UNCHANGED publisher /\ reader.phase = "verifying"
      /\ reader' = [reader EXCEPT !.phase = "done"]
  BY DEF GiveUp
<1>2. PublisherInv' /\ DiskInv'
  BY <1>1 DEF Sound, PublisherInv, DiskInv, publisher
<1>3. DOMAIN reader = {"phase", "entry", "file", "exchange", "at", "fetched", "valid"}
  BY <1>1 DEF Sound, ReaderInv
<1>4. /\ DOMAIN reader' = DOMAIN reader
      /\ (reader').exchange = reader.exchange
      /\ (reader').at = reader.at
      /\ (reader').fetched = reader.fetched
      /\ (reader').valid = reader.valid
  BY <1>1, <1>3
<1>5. ReaderInv'
  BY <1>1, <1>4 DEF Sound, ReaderInv, publisher
<1>6. QED
  BY <1>2, <1>5 DEF Sound

-----------------------------------------------------------------------------
(* The theorem                                                             *)

LEMMA PublishKeepsSound ==
  ASSUME Sound, workload \in Workloads, Publish
  PROVE  Sound'
<1>1. PublisherInv /\ DiskInv /\ ReaderInv
  BY DEF Sound
<1>2. signings \subseteq signings' /\ UNCHANGED reader
  BY DEF Publish, New, MiEncodePayload, AddHeader, AddSignatureHeader, SelfCheck, Write
<1>3. ReaderInv'
  BY <1>1, <1>2, PastGrows DEF ReaderInv
<1>4. UNCHANGED disk => DiskInv'
  BY <1>1, <1>2, PastGrows DEF DiskInv
<1>5. ASSUME NEW e \in workload.exchanges, New(e) PROVE Sound'
  <2>1. SoundExchange(e) /\ e.sigs = <<>>
    <3>1. IsUnsigned(e)
      BY SignedExchangeAssumption
    <3>2. IsMap(e.resph) /\ \A n \in DOMAIN e.resph : e.resph[n] \in Seq(Seq(PlainToken))
      BY <3>1 DEF IsUnsigned, IsPlainMap, IsMap
    <3>3. DigestIsOwn(e)
      BY <3>2, ElementOfSeq DEF DigestIsOwn
    <3>4. QED
      BY <3>1, <3>2, <3>3 DEF SoundExchange, IsUnsigned, None
  <2>2. GenuineList(e.sigs, signings)
    <3>1. e.sigs \in Seq({})
      BY <2>1
    <3>2. QED
      BY <3>1 DEF GenuineList
  <2>3. PublisherInv'
    BY <1>1, <1>5, <2>1, <2>2 DEF PublisherInv, New
  <2>4. QED
    BY <1>3, <1>4, <1>5, <2>3 DEF Sound, New
<1>6. ASSUME NEW n, MiEncodePayload(n) PROVE Sound'
  <2>1. PICK e : exchange = <<e>> /\ SoundExchange(e) /\ GenuineList(e.sigs, signings)
    BY <1>1, <1>6 DEF PublisherInv, MiEncodePayload
  <2>2. exchange' = <<MiEncoded(e, n)>>
    BY <1>6, <2>1 DEF MiEncodePayload
  <2>3. PublisherInv'
    BY <1>1, <1>6, <2>1, <2>2, MiEncodedIsSound DEF PublisherInv, MiEncodePayload
  <2>4. QED
    BY <1>3, <1>4, <1>6, <2>3 DEF Sound, MiEncodePayload
<1>7. ASSUME NEW a \in workload.additions, AddHeader(a) PROVE Sound'
  <2>1. PICK e : exchange = <<e>> /\ SoundExchange(e) /\ GenuineList(e.sigs, signings)
    BY <1>1, <1>7 DEF PublisherInv, AddHeader
  <2> DEFINE x == [e EXCEPT !.resph = Add(@, a[1], a[2])]
  <2>2. exchange' = <<x>>
    BY <1>7, <2>1 DEF AddHeader
  <2>3. /\ DOMAIN x = DOMAIN e /\ x.ver = e.ver /\ x.payload = e.payload
        /\ x.resph = Add(e.resph, a[1], a[2]) /\ x.sigs = e.sigs
    BY <2>1 DEF SoundExchange
  <2> HIDE DEF x
  <2>4. a[2] \in Seq(PlainToken)
    BY SignedExchangeAssumption
  <2>5. SoundExchange(x)
    BY <2>1, <2>3, <2>4, PlainAdditionIsSound
  <2>6. PublisherInv'
    BY <1>1, <1>7, <2>1, <2>2, <2>3, <2>5 DEF PublisherInv, AddHeader
  <2>7. QED
    BY <1>3, <1>4, <1>7, <2>6 DEF Sound, AddHeader
<1>8. ASSUME NEW s, AddSignatureHeader(s) PROVE Sound'
  BY <1>1, <1>3, <1>4, <1>8, SignedIsSound DEF Sound, AddSignatureHeader
<1>9. CASE SelfCheck
  <2>1. (exchange' = exchange \/ exchange' = None) /\ signings' = signings
    BY <1>9 DEF SelfCheck
  <2>2. PublisherInv'
    BY <1>1, <2>1 DEF PublisherInv
  <2>3. QED
    BY <1>3, <1>4, <1>9, <2>2 DEF Sound, SelfCheck
<1>10. CASE Write
  <2>1. PICK e : exchange = <<e>> /\ GenuineList(e.sigs, signings)
    BY <1>1, <1>10 DEF PublisherInv, Write
  <2>2. exchange[1] = e
    BY <2>1
  <2> DEFINE d == [file |-> Written(exchange[1]).parts, ok |-> Written(exchange[1]).ok,
                   source |-> exchange[1], signer |-> signer, checked |-> checked]
  <2>3. disk' = Append(disk, d) /\ exchange' = None /\ signings' = signings
    BY <1>10 DEF Write
  <2>4. d.file = Written(e).parts
    BY <2>2
  <2> HIDE DEF d
  <2>5. SoundFile(d.file, signings)
    BY <2>1, <2>4, WrittenIsSound
  <2>6. PICK T : disk \in Seq(T) /\ \A x \in T : SoundFile(x.file, signings)
    BY <1>1 DEF DiskInv
  <2>7. disk' \in Seq(T \cup {d}) /\ \A x \in T \cup {d} : SoundFile(x.file, signings)
    <3>1. disk \in Seq(T \cup {d}) /\ d \in T \cup {d}
      BY <2>6, SeqMonotonic
    <3>2. QED
      BY <2>3, <2>5, <2>6, <3>1, AppendProperties
  <2>8. DiskInv'
    BY <2>3, <2>7 DEF DiskInv
  <2>9. PublisherInv'
    BY <1>1, <2>3 DEF PublisherInv
  <2>10. QED
    BY <1>3, <2>8, <2>9 DEF Sound
<1>11. QED
  BY <1>5, <1>6, <1>7, <1>8, <1>9, <1>10 DEF Publish

(* Every state of every behaviour satisfies the inductive invariant. *)
THEOREM ExchangeInvariance == Spec => []IInv
<1>1. Init => IInv
  BY InitIsSound DEF Init, IInv
<1>2. IInv /\ [Next]_vars => IInv'
  <2> SUFFICES ASSUME workload \in Workloads, Sound, [Next]_vars
               PROVE  workload' \in Workloads /\ Sound'
    BY DEF IInv
  <2>1. CASE Publish
    <3>1. UNCHANGED workload
      BY <2>1 DEF Publish, New, MiEncodePayload, AddHeader, AddSignatureHeader,
                  SelfCheck, Write
    <3>2. QED
      BY <2>1, <3>1, PublishKeepsSound
  <2>2. ASSUME NEW i \in DOMAIN disk, NEW at \in 0..MaxTime,
               NEW file \in Delivered(disk[i]), Open(i, file, at)
        PROVE  workload' \in Workloads /\ Sound'
    BY <2>2, OpenKeepsSound DEF Open, publisher
  <2>3. ASSUME NEW chain, VerifyNext(chain)
        PROVE  workload' \in Workloads /\ Sound'
    BY <2>3, VerifyNextKeepsSound DEF VerifyNext, publisher
  <2>4. CASE GiveUp
    BY <2>4, GiveUpKeepsSound DEF GiveUp, publisher
  <2>5. CASE UNCHANGED vars
    BY <2>5 DEF vars, Sound, PublisherInv, DiskInv, ReaderInv
  <2>6. QED
    BY <2>1, <2>2, <2>3, <2>4, <2>5 DEF Next
<1>3. QED
  BY <1>1, <1>2, PTL DEF Spec

(* What Verify accepts, payload and headers, is what one signer signed with*)
(* the key of a certificate the reader fetched, in a window of that signer *)
(* that holds the verification time: whatever was cut, damaged, mixed with *)
(* another file or listed twice on the way, and whatever chains the server *)
(* gave out at each fetch.                                                 *)
THEOREM AcceptedIsSigned == Spec => []AcceptedAsSigned
<1>1. IInv => AcceptedAsSigned
  <2> SUFFICES ASSUME IInv, reader.phase = "done", reader.valid
               PROVE  \E g \in signings : Signed(g, reader)
    BY DEF AcceptedAsSigned
  <2> DEFINE e == reader.exchange
             at == reader.at
  <2>1. PICK i \in DOMAIN e.sigs, c \in Range(reader.fetched) :
          SignatureAccepted(e, e.sigs[i], at, c)
    BY DEF IInv, Sound, ReaderInv
  <2>2. SoundRead(e, signings) /\ \A g \in signings : SoundExchange(g.exchange)
    BY DEF IInv, Sound, ReaderInv, PublisherInv
  <2> HIDE DEF e, at
  <2>3. WasSigned(e, at, c)
    BY <2>1, <2>2, AcceptedWasSigned, Zenon
  <2>4. QED
    BY <2>1, <2>3 DEF Signed, WasSigned, e, at
<1>2. QED
  BY <1>1, ExchangeInvariance, PTL

-----------------------------------------------------------------------------
(* What is written is read back                                            *)

(* The fold that adds up the lengths of the signatures: its recursion is   *)
(* over the sets of their positions.                                       *)
IsSum(sum, sigs) ==
  sum = [t \in SUBSET DOMAIN sigs |->
           IF t = {} THEN 0
           ELSE LET x == CHOOSE y \in t : TRUE
                IN sum[t \ {x}] + SignatureLength + sigs[x].certUrl.len]

LEMMA SumOfSignatures ==
  ASSUME NEW sigs, NEW g, IsSum(g, sigs)
  PROVE  \E sum : IsSum(sum, sigs) /\ SigLength(sigs) = sum[DOMAIN sigs]
<1> DEFINE sum == CHOOSE f : IsSum(f, sigs)
<1>1. SigLength(sigs) = sum[DOMAIN sigs]
  BY DEF SigLength, FoldSeq, FoldFunction, FoldFunctionOnSet, MapThenFoldSet, IsSum
<1>2. IsSum(sum, sigs)
  OBVIOUS
<1>3. QED
  BY <1>1, <1>2

LEMMA OneSignatureLength ==
  ASSUME NEW s, s.certUrl.len \in Nat, NEW sigs, sigs = None \/ sigs = <<s>>
  PROVE  SigLength(sigs) \in Nat
<1> DEFINE n == SignatureLength + s.certUrl.len
           g == [t \in SUBSET DOMAIN sigs |-> IF t = {} THEN 0 ELSE n]
<1>1. DOMAIN sigs \in {{}, {1}} /\ \A i \in DOMAIN sigs : i = 1 /\ sigs[i] = s
  <2>1. DOMAIN None = {} /\ DOMAIN <<s>> = {1} /\ <<s>>[1] = s
    BY DEF None
  <2>2. QED
    BY <2>1
<1>2. n \in Nat /\ 0 + SignatureLength + s.certUrl.len = n
  BY SxgFormatAssumption
<1> HIDE DEF n
<1>3. ASSUME NEW t \in SUBSET DOMAIN sigs, t # {}, NEW f, f[{}] = 0
      PROVE  LET x == CHOOSE y \in t : TRUE
             IN f[t \ {x}] + SignatureLength + sigs[x].certUrl.len = n
  <2> DEFINE x == CHOOSE y \in t : TRUE
  <2>1. x \in t
    BY <1>3
  <2> HIDE DEF x
  <2>2. x = 1 /\ sigs[x] = s /\ t \ {x} = {}
    BY <1>1, <2>1
  <2>3. f[t \ {x}] + SignatureLength + sigs[x].certUrl.len = n
    BY <1>2, <1>3, <2>2
  <2>4. QED
    BY <2>3 DEF x
<1>4. IsSum(g, sigs)
  <2>1. g[{}] = 0
    OBVIOUS
  <2> HIDE DEF g
  <2>2. g = [t \in SUBSET DOMAIN sigs |->
               IF t = {} THEN 0
               ELSE LET x == CHOOSE y \in t : TRUE
                    IN g[t \ {x}] + SignatureLength + sigs[x].certUrl.len]
    <3>1. \A t \in SUBSET DOMAIN sigs : t # {} =>
            LET x == CHOOSE y \in t : TRUE
            IN g[t \ {x}] + SignatureLength + sigs[x].certUrl.len = n
      BY <1>3, <2>1
    <3>2. QED
      BY <3>1 DEF g
  <2>3. QED
    BY <2>2 DEF IsSum
<1> HIDE DEF g
<1>5. PICK sum : IsSum(sum, sigs) /\ SigLength(sigs) = sum[DOMAIN sigs]
  BY <1>4, SumOfSignatures
<1>6. \A t \in SUBSET DOMAIN sigs :
        sum[t] = IF t = {} THEN 0
                 ELSE LET x == CHOOSE y \in t : TRUE
                      IN sum[t \ {x}] + SignatureLength + sigs[x].certUrl.len
  BY <1>5 DEF IsSum
<1>7. sum[{}] = 0
  BY <1>6
<1>8. DOMAIN sigs # {} => sum[DOMAIN sigs] = n
  <2> SUFFICES ASSUME DOMAIN sigs # {} PROVE sum[DOMAIN sigs] = n
    OBVIOUS
  <2> DEFINE t == DOMAIN sigs
  <2>1. LET x == CHOOSE y \in t : TRUE
        IN sum[t \ {x}] + SignatureLength + sigs[x].certUrl.len = n
    BY <1>3, <1>7
  <2>2. QED
    BY <1>6, <2>1
<1>9. CASE DOMAIN sigs = {}
  <2>1. SigLength(sigs) = 0
    BY <1>5, <1>7, <1>9
  <2>2. QED
    BY <2>1
<1>10. CASE DOMAIN sigs # {}
  <2>1. SigLength(sigs) = n
    BY <1>5, <1>8, <1>10
  <2>2. QED
    BY <1>2, <2>1
<1>11. QED
  BY <1>9, <1>10

LEMMA HeaderLengthIsNat ==
  ASSUME NEW e, IsFiniteSet(DOMAIN e.reqh), IsFiniteSet(DOMAIN e.resph)
  PROVE  HeaderLength(e) \in Nat
<1>1. Cardinality(DOMAIN e.reqh) \in Nat /\ Cardinality(DOMAIN e.resph) \in Nat
  BY FS_CardinalityType
<1>2. QED
  BY <1>1 DEF HeaderLength

(* What Write made of an exchange when it finished.                        *)
IsWhole(f, e) ==
  LET n == IF e.ver = "1b1" THEN 1 ELSE 3
      sig == SigLength(e.sigs)
      hdr == HeaderLength(e)
  IN /\ DOMAIN f = 1..(n + 5)
     /\ f[1] = Part("magic", e.ver, 8)
     /\ n = 3 => /\ f[2] = Part("urlLength", StoredUint(e.uri.len, Field2), 2)
                 /\ f[3] = Part("url", e.uri, e.uri.len)
     /\ f[n + 1] = Part("sigLength", StoredUint(sig, Field3), 3)
     /\ f[n + 2] = Part("headerLength", StoredUint(hdr, Field3), 3)
     /\ f[n + 3] = Part("sig", e.sigs, sig)
     /\ f[n + 4] = Part("headers", EncodedHeaders(e), hdr)
     /\ f[n + 5] = Part("payload", e.payload, 0)

LEMMA FinishedIsWhole ==
  ASSUME NEW e, Written(e).ok
  PROVE  HeadersEncodable(e) /\ IsWhole(Written(e).parts, e)
<1> DEFINE sig == SigLength(e.sigs)
           hdr == HeaderLength(e)
           limited == e.ver # "1b1"
           step(ok, tag, val, size) == [ok |-> ok, part |-> Part(tag, val, size)]
           a == step(TRUE, "magic", e.ver, 8)
           b == step(EncodableUint(e.uri.len, Field2), "urlLength",
                     StoredUint(e.uri.len, Field2), 2)
           c == step(TRUE, "url", e.uri, e.uri.len)
           d == step((limited => sig <= MaxSigLength) /\ EncodableUint(sig, Field3),
                     "sigLength", StoredUint(sig, Field3), 3)
           h == step((limited => hdr <= MaxHeaderLength) /\ EncodableUint(hdr, Field3),
                     "headerLength", StoredUint(hdr, Field3), 3)
           p == step(TRUE, "sig", e.sigs, sig)
           q == step(TRUE, "headers", EncodedHeaders(e), hdr)
           r == step(TRUE, "payload", e.payload, 0)
           steps == Steps(e)
           bad == {i \in DOMAIN steps : ~steps[i].ok}
           m == IF ~HeadersEncodable(e) THEN 0
                ELSE IF bad = {} THEN Len(steps) ELSE Min(bad) - 1
           f == [i \in 1..m |-> steps[i].part]
           n == IF e.ver = "1b1" THEN 1 ELSE 3
<1>1. m = Len(steps) /\ Written(e).parts = f
  BY DEF Written
<1>2. Len(steps) = n + 5 /\ DOMAIN steps = 1..(n + 5) /\ n \in Nat
  BY StepsInOrder
<1>3. HeadersEncodable(e)
  <2> HIDE DEF steps, n, bad
  <2>1. QED
    BY <1>1, <1>2
<1>4. f = [i \in 1..(n + 5) |-> steps[i].part]
  BY <1>1, <1>2
<1>5. steps = IF limited THEN <<a, b, c, d, h, p, q, r>> ELSE <<a, d, h, p, q, r>>
  BY DEF Steps
<1>6. /\ a.part = Part("magic", e.ver, 8)
      /\ b.part = Part("urlLength", StoredUint(e.uri.len, Field2), 2)
      /\ c.part = Part("url", e.uri, e.uri.len)
      /\ d.part = Part("sigLength", StoredUint(sig, Field3), 3)
      /\ h.part = Part("headerLength", StoredUint(hdr, Field3), 3)
      /\ p.part = Part("sig", e.sigs, sig)
      /\ q.part = Part("headers", EncodedHeaders(e), hdr)
      /\ r.part = Part("payload", e.payload, 0)
  OBVIOUS
<1> HIDE DEF a, b, c, d, h, p, q, r, steps, m, f
<1>7. CASE limited
  <2>1. n = 3 /\ steps = <<a, b, c, d, h, p, q, r>>
    BY <1>5, <1>7
  <2>2. f = [i \in 1..8 |-> steps[i].part]
    <3>1. n + 5 = 8
      BY <2>1
    <3> HIDE DEF n
    <3>2. QED
      BY <1>4, <3>1
  <2>3. /\ f[1] = a.part /\ f[2] = b.part /\ f[3] = c.part /\ f[4] = d.part
        /\ f[5] = h.part /\ f[6] = p.part /\ f[7] = q.part /\ f[8] = r.part
    BY <2>1, <2>2
  <2>4. IsWhole(f, e)
    BY <1>6, <1>7, <2>2, <2>3 DEF IsWhole
  <2>5. QED
    BY <1>1, <1>3, <2>4
<1>8. CASE ~limited
  <2>1. n = 1 /\ steps = <<a, d, h, p, q, r>>
    BY <1>5, <1>8
  <2>2. f = [i \in 1..6 |-> steps[i].part]
    <3>1. n + 5 = 6
      BY <2>1
    <3> HIDE DEF n
    <3>2. QED
      BY <1>4, <3>1
  <2>3. /\ f[1] = a.part /\ f[2] = d.part /\ f[3] = h.part
        /\ f[4] = p.part /\ f[5] = q.part /\ f[6] = r.part
    BY <2>1, <2>2
  <2>4. IsWhole(f, e)
    BY <1>6, <1>8, <2>2, <2>3 DEF IsWhole
  <2>5. QED
    BY <1>1, <1>3, <2>4
<1>9. QED
  BY <1>7, <1>8

(* x is e as a file gives it back, but for the signatures. *)
ReadAs(x, e) ==
  /\ x.ver = e.ver /\ x.uri = e.uri /\ x.status = e.status
  /\ x.resph = Joined(e.resph) /\ x.payload = e.payload
  /\ x.method = IF HasRequestMap(e.ver) THEN e.method ELSE "GET"
  /\ x.reqh = IF HasRequestMap(e.ver) THEN Joined(e.reqh) ELSE NoHeaders

IsExchange(x) ==
  x = [ver |-> x.ver, uri |-> x.uri, method |-> x.method, reqh |-> x.reqh,
       status |-> x.status, resph |-> x.resph, sigs |-> x.sigs, payload |-> x.payload]

(* The request map that an encoder wrote. *)
LEMMA RequestMapOf ==
  ASSUME NEW e, HasRequestMap(e.ver)
  PROVE  LET r == EncodedHeaders(e).request
         IN /\ r # None /\ r[1].method = e.method /\ r[1].headers = Joined(e.reqh)
            /\ r[1].url = IF e.ver = "1b1" THEN <<e.uri>> ELSE None
<1> DEFINE q == [method |-> e.method, headers |-> Joined(e.reqh),
                 url |-> IF e.ver = "1b1" THEN <<e.uri>> ELSE None]
<1>1. EncodedHeaders(e).request = <<q>>
  BY DEF EncodedHeaders, EncodedRequestMap
<1>2. /\ q.method = e.method /\ q.headers = Joined(e.reqh)
      /\ q.url = IF e.ver = "1b1" THEN <<e.uri>> ELSE None
  OBVIOUS
<1> HIDE DEF q
<1>3. <<q>> # None /\ <<q>>[1] = q
  BY DEF None
<1>4. QED
  BY <1>1, <1>2, <1>3

(* A file that has the fields Write put there, other signatures aside, is  *)
(* read as the exchange that was written, if it is read at all.            *)
LEMMA UntouchedIsRead ==
  ASSUME NEW e, NEW f, IsWhole(f, e), NEW g,
         \A i \in DOMAIN f : f[i].tag \notin {"sig", "sigLength"} =>
                               i \in DOMAIN g /\ g[i] = f[i],
         ReadExchange(g).ok
  PROVE  /\ ReadAs(ReadExchange(g).exchange, e)
         /\ ReadExchange(g).exchange.sigs = g[IF e.ver = "1b1" THEN 4 ELSE 6].val
         /\ IsExchange(ReadExchange(g).exchange)
<1> DEFINE n == IF e.ver = "1b1" THEN 1 ELSE 3
           h == EncodedHeaders(e)
           q == h.request[1]
           x == ReadExchange(g).exchange
<1>1. /\ 1 \in DOMAIN g /\ n + 4 \in DOMAIN g /\ n + 5 \in DOMAIN g
      /\ g[1] = f[1] /\ g[n + 4] = f[n + 4] /\ g[n + 5] = f[n + 5]
      /\ n = 3 => 3 \in DOMAIN g /\ g[3] = f[3]
  <2>1. /\ 1 \in DOMAIN f /\ n + 4 \in DOMAIN f /\ n + 5 \in DOMAIN f
        /\ n = 3 => 3 \in DOMAIN f
    BY DEF IsWhole
  <2>2. /\ f[1].tag = "magic" /\ f[n + 4].tag = "headers" /\ f[n + 5].tag = "payload"
        /\ n = 3 => f[3].tag = "url"
    BY DEF IsWhole, Part
  <2> HIDE DEF n
  <2>3. QED
    BY <2>1, <2>2
<1>2. /\ g[1].val = e.ver /\ g[n + 4].val = h
      /\ g[n + 5].tag = "payload" /\ g[n + 5].val = e.payload
      /\ n = 3 => g[3].val = e.uri
  BY <1>1 DEF IsWhole, Part
<1>3. HasField(g, n + 5, "payload")
  BY <1>1, <1>2 DEF HasField
<1>4. x = [ver     |-> e.ver,
           uri     |-> IF e.ver = "1b1" THEN q.url[1] ELSE g[3].val,
           method  |-> IF HasRequestMap(e.ver) THEN q.method ELSE "GET",
           reqh    |-> IF HasRequestMap(e.ver) THEN q.headers ELSE NoHeaders,
           status  |-> h.status,
           resph   |-> h.headers,
           sigs    |-> g[n + 3].val,
           payload |-> e.payload]
  <2>1. ~Unreadable.ok
    BY DEF Unreadable
  <2> HIDE DEF h
  <2>2. QED
    BY <1>2, <1>3, <2>1 DEF ReadExchange
<1>5. h.status = e.status /\ h.headers = Joined(e.resph)
  BY DEF EncodedHeaders
<1>6. HasRequestMap(e.ver) =>
        /\ q.method = e.method /\ q.headers = Joined(e.reqh)
        /\ q.url = IF e.ver = "1b1" THEN <<e.uri>> ELSE None
  BY RequestMapOf
<1>7. /\ x.ver = e.ver
      /\ x.uri = (IF e.ver = "1b1" THEN q.url[1] ELSE g[3].val)
      /\ x.method = (IF HasRequestMap(e.ver) THEN q.method ELSE "GET")
      /\ x.reqh = (IF HasRequestMap(e.ver) THEN q.headers ELSE NoHeaders)
      /\ x.status = h.status /\ x.resph = h.headers
      /\ x.sigs = g[n + 3].val /\ x.payload = e.payload
  <2> HIDE DEF h, q, x, n
  <2>1. QED
    BY <1>4
<1>8. x.sigs = g[IF e.ver = "1b1" THEN 4 ELSE 6].val
  BY <1>7
<1>9. x.uri = e.uri
  <2>1. CASE e.ver = "1b1"
    <3>1. q.url = <<e.uri>>
      BY <1>6, <2>1 DEF HasRequestMap
    <3> HIDE DEF q, x
    <3>2. QED
      BY <1>7, <2>1, <3>1
  <2>2. CASE e.ver # "1b1"
    BY <1>2, <1>7, <2>2
  <2>3. QED
    BY <2>1, <2>2
<1> HIDE DEF h, q, x, n
<1>10. ReadAs(x, e)
  BY <1>5, <1>6, <1>7, <1>9 DEF ReadAs
<1>11. IsExchange(x)
  BY <1>4, <1>7 DEF IsExchange
<1>12. QED
  BY <1>8, <1>10, <1>11 DEF x

(* A length below the number of values of its field is stored as it is.    *)
LEMMA StoredAsIs ==
  ASSUME NEW n \in Nat, NEW values \in Nat \ {0}, n < values
  PROVE  StoredUint(n, values) = n
BY DEF StoredUint

LEMMA WholeIsRead ==
  ASSUME NEW e, NEW f, IsWhole(f, e),
         DOMAIN e = {"ver", "uri", "method", "reqh", "status", "resph", "sigs", "payload"},
         e.uri.len \in Nat, SigLength(e.sigs) \in Nat, HeaderLength(e) \in Nat,
         LengthsFit(e), ValidFallbackURL(e.uri),
         ~(e.ver = "1b2" /\ ":url" \in DOMAIN e.reqh)
  PROVE  ReadExchange(f).ok /\ ReadExchange(f).exchange = Normal(e)
<1> DEFINE n == IF e.ver = "1b1" THEN 1 ELSE 3
           sig == SigLength(e.sigs)
           hdr == HeaderLength(e)
           h == EncodedHeaders(e)
           x == ReadExchange(f).exchange
<1>1. StoredUint(sig, Field3) = sig /\ StoredUint(hdr, Field3) = hdr
  BY StoredAsIs, SxgFormatAssumption DEF LengthsFit
<1>2. n = 3 => StoredUint(e.uri.len, Field2) = e.uri.len
  BY StoredAsIs, SxgFormatAssumption DEF LengthsFit
<1>3. /\ DOMAIN f = 1..(n + 5)
      /\ f[1].tag = "magic" /\ f[1].val = e.ver
      /\ n = 3 => /\ f[2].val = e.uri.len /\ f[3].size = e.uri.len
                  /\ f[3].tag = "url" /\ f[3].val = e.uri
      /\ f[n + 1].val = sig /\ f[n + 3].size = sig
      /\ f[n + 2].val = hdr /\ f[n + 4].size = hdr
      /\ f[n + 4].tag = "headers" /\ f[n + 4].val = h
      /\ f[n + 3].val = e.sigs
  BY <1>1, <1>2 DEF IsWhole, Part
<1>4. HasRequestMap(e.ver) =>
        /\ h.request # None /\ h.request[1].headers = Joined(e.reqh)
        /\ h.request[1].url = IF e.ver = "1b1" THEN <<e.uri>> ELSE None
  BY RequestMapOf
<1>5. HeadersDecode(e.ver, h)
  <2>1. DOMAIN Joined(e.reqh) = DOMAIN e.reqh
    BY DEF Joined
  <2>2. <<e.uri>> # None /\ <<e.uri>>[1] = e.uri
    BY DEF None
  <2> HIDE DEF h
  <2>3. QED
    BY <1>4, <2>1, <2>2 DEF HeadersDecode
<1> HIDE DEF h, sig, hdr
<1>6. /\ HasField(f, 1, "magic") /\ HasField(f, n + 4, "headers")
      /\ FieldMatches(f, n + 1, n + 3) /\ FieldMatches(f, n + 2, n + 4)
      /\ n = 3 => /\ HasField(f, 3, "url") /\ FieldMatches(f, 2, 3)
                  /\ ValidFallbackURL(f[3].val)
  <2>1. 1 \in DOMAIN f /\ n + 4 \in DOMAIN f /\ (n = 3 => 3 \in DOMAIN f)
    BY <1>3
  <2> HIDE DEF n
  <2>2. QED
    BY <1>3, <2>1 DEF HasField, FieldMatches
<1>7. ReadExchange(f).ok
  BY <1>3, <1>5, <1>6 DEF ReadExchange
<1>8. ReadAs(x, e) /\ x.sigs = e.sigs /\ IsExchange(x)
  <2>1. f[IF e.ver = "1b1" THEN 4 ELSE 6].val = e.sigs
    BY <1>3
  <2> HIDE DEF n
  <2>2. QED
    BY <1>7, <2>1, UntouchedIsRead
<1> HIDE DEF x
<1>9. /\ DOMAIN Normal(e) = DOMAIN e
      /\ Normal(e).ver = e.ver /\ Normal(e).uri = e.uri /\ Normal(e).status = e.status
      /\ Normal(e).sigs = e.sigs /\ Normal(e).payload = e.payload
      /\ Normal(e).resph = Joined(e.resph)
      /\ Normal(e).method = (IF HasRequestMap(e.ver) THEN e.method ELSE "GET")
      /\ Normal(e).reqh = (IF HasRequestMap(e.ver) THEN Joined(e.reqh) ELSE NoHeaders)
  BY DEF Normal
<1>10. IsExchange(Normal(e))
  <2> DEFINE r == Normal(e)
  <2>1. r = [z \in DOMAIN e |-> r[z]]
    BY DEF Normal
  <2> HIDE DEF r
  <2>2. QED
    BY <2>1 DEF IsExchange, r
<1>11. x = Normal(e)
  <2> DEFINE r == Normal(e)
  <2>1. /\ r.ver = x.ver /\ r.uri = x.uri /\ r.method = x.method /\ r.reqh = x.reqh
        /\ r.status = x.status /\ r.resph = x.resph /\ r.sigs = x.sigs
        /\ r.payload = x.payload
    BY <1>8, <1>9 DEF ReadAs
  <2> HIDE DEF r
  <2>2. QED
    BY <1>8, <1>10, <2>1 DEF IsExchange, r
<1>12. QED
  BY <1>7, <1>11 DEF x

(* A header of one value, or of none, is the same from a file; one that is *)
(* not empty is not empty in a file.                                       *)
LEMMA SameFromFile ==
  ASSUME NEW h, IsMap(h), NEW name
  PROVE  /\ (name \in DOMAIN h => Len(h[name]) = 1) => Get(Joined(h), name) = Get(h, name)
         /\ Get(h, name) # <<>> => Get(Joined(h), name) # <<>>
<1> DEFINE s == h[name]
           joined == FlattenSeq(s)
<1>1. CASE name \notin DOMAIN h
  BY <1>1 DEF Get, Joined
<1>2. CASE name \in DOMAIN h
  <2>1. PICK T : s \in Seq(Seq(T))
    BY <1>2 DEF IsMap
  <2>2. Get(Joined(h), name) = joined
    <3>1. DOMAIN Joined(h) = DOMAIN h /\ Joined(h)[name] = <<joined>>
      BY <1>2 DEF Joined
    <3> HIDE DEF joined
    <3>2. <<joined>> # <<>> /\ <<joined>>[1] = joined
      OBVIOUS
    <3>3. QED
      BY <1>2, <3>1, <3>2 DEF Get
  <2>3. Get(h, name) = IF s # <<>> THEN s[1] ELSE <<>>
    BY <1>2 DEF Get
  <2> HIDE DEF s, joined
  <2>4. ASSUME Len(s) = 1 PROVE joined = Get(h, name)
    <3> DEFINE U == Seq(T)
    <3>1. s = <<s[1]>> /\ s # <<>>
      <4>1. s \in Seq(U)
        BY <2>1
      <4> HIDE DEF U
      <4>2. QED
        BY <2>4, <4>1
    <3>2. FlattenSeq(<<s[1]>>) = s[1]
      BY FlattenOne
    <3>3. QED
      BY <2>3, <3>1, <3>2 DEF joined
  <2>5. ASSUME Get(h, name) # <<>> PROVE joined # <<>>
    <3>1. s # <<>> /\ s[1] # <<>>
      BY <2>3, <2>5
    <3>2. 1 \in 1..Len(s) /\ s[1] \in Seq(T)
      BY <2>1, <3>1, LenProperties, EmptySeq
    <3> DEFINE v == s[1]
    <3>3. Occurs(v[1], v)
      <4> HIDE DEF v
      <4>1. v \in Seq(T) /\ v # <<>>
        BY <3>1, <3>2 DEF v
      <4>2. 1 \in DOMAIN v
        BY <4>1
      <4>3. QED
        BY <4>2 DEF Occurs
    <3>4. Occurs(s[1][1], joined)
      BY <2>1, <3>2, <3>3, OccursInFlatten DEF joined
    <3>5. ~Occurs(s[1][1], <<>>)
      BY DEF Occurs
    <3>6. QED
      BY <3>4, <3>5
  <2>6. QED
    BY <1>2, <2>2, <2>4, <2>5 DEF s
<1>3. QED
  BY <1>1, <1>2

(* What the verifier accepts in memory it accepts from the file, at any    *)
(* time in the window of the signature.                                    *)
LEMMA AcceptedFromFile ==
  ASSUME NEW e, SoundExchange(e), SingleValued(e), NEW x, ReadAs(x, e),
         NEW s, NEW then, NEW at, NEW c,
         SignatureAccepted(e, s, then, c), TimestampsValid(s, at)
  PROVE  SignatureAccepted(x, s, at, c)
<1> DEFINE h == e.resph
           dn == DigestHeaderName(e.ver)
<1>1. IsMap(h)
  BY DEF SoundExchange
<1>2. /\ x.ver = e.ver /\ x.uri = e.uri /\ x.status = e.status
      /\ x.resph = Joined(h) /\ x.payload = e.payload
      /\ HasRequestMap(e.ver) => x.method = e.method /\ x.reqh = Joined(e.reqh)
      /\ ~HasRequestMap(e.ver) => x.reqh = NoHeaders
  BY DEF ReadAs
<1>3. /\ DOMAIN x.resph = DOMAIN h
      /\ HasRequestMap(e.ver) => DOMAIN x.reqh = DOMAIN e.reqh
      /\ ~HasRequestMap(e.ver) => DOMAIN x.reqh = {}
  BY <1>2 DEF Joined, NoHeaders
<1>4. /\ s.complete /\ IsSameOrigin(s.validityUrl, e.uri)
      /\ SignatureVerifies(e, s, then, c)
      /\ ~HasRequestMap(e.ver) => Get(h, "content-type") # <<>>
      /\ PayloadVerifies(e, s)
      /\ IF HasRequestMap(e.ver) THEN e.method \in {"GET", "HEAD"} ELSE IsCacheable(e)
      /\ VerifyHeaders(e)
  BY DEF SignatureAccepted, VerifySignature
<1>5. EncodedHeaders(x) = EncodedHeaders(e)
  <2>1. Joined(x.resph) = x.resph /\ (HasRequestMap(e.ver) => Joined(x.reqh) = x.reqh)
    BY <1>2, JoinedTwice
  <2>2. EncodedRequestMap(x) = EncodedRequestMap(e)
    BY <1>2, <2>1 DEF EncodedRequestMap
  <2>3. QED
    BY <1>2, <2>1, <2>2 DEF EncodedHeaders
<1>6. HeadersEncodable(x) <=> HeadersEncodable(e)
  <2>1. e.ver = "1b1" => HasRequestMap(e.ver)
    BY DEF HasRequestMap
  <2>2. QED
    BY <1>2, <1>3, <2>1 DEF HeadersEncodable
<1>7. SignatureVerifies(x, s, at, c)
  <2>1. \A k, v, d, u : SignedMessage(x, k, v, d, u) = SignedMessage(e, k, v, d, u)
    BY <1>2, <1>5, <1>6 DEF SignedMessage
  <2>2. SignedMessage(x, <<c[1].id>>, s.validityUrl, s.date, s.expires)
          = SignedMessage(e, <<c[1].id>>, s.validityUrl, s.date, s.expires)
    BY <2>1
  <2>3. /\ c # None /\ c[1].supported /\ s.certSha256 = <<c[1].id>>
        /\ s.sig = [key |-> c[1].key,
                    msg |-> SignedMessage(e, <<c[1].id>>, s.validityUrl,
                                          s.date, s.expires)]
        /\ MessageSerializable(e)
    BY <1>4 DEF SignatureVerifies
  <2>4. MessageSerializable(x)
    BY <1>2, <1>6, <2>3 DEF MessageSerializable
  <2>5. QED
    BY <2>2, <2>3, <2>4, Zenon DEF SignatureVerifies
<1>8. \A name \in {"cache-control", dn} : Get(x.resph, name) = Get(h, name)
  <2> TAKE name \in {"cache-control", dn}
  <2>1. name \in DOMAIN h => Len(h[name]) = 1
    BY DEF SingleValued
  <2> HIDE DEF h, dn
  <2>2. QED
    BY <1>1, <1>2, <2>1, SameFromFile
<1>9. \A name : Get(h, name) # <<>> => Get(x.resph, name) # <<>>
  BY <1>1, <1>2, SameFromFile
<1>10. PayloadVerifies(x, s)
  BY <1>2, <1>4, <1>8 DEF PayloadVerifies
<1>11. IsCacheable(e) => IsCacheable(x)
  <2>1. Get(x.resph, "cache-control") = Get(e.resph, "cache-control")
    BY <1>8
  <2>2. Get(e.resph, "expires") # <<>> => Get(x.resph, "expires") # <<>>
    BY <1>9
  <2>3. QED
    BY <1>2, <2>1, <2>2 DEF IsCacheable
<1>12. VerifyHeaders(x)
  BY <1>2, <1>3, <1>4 DEF VerifyHeaders
<1>13. VerifySignature(x, s, at, c)
  BY <1>2, <1>4, <1>7, <1>9, <1>10 DEF VerifySignature
<1>14. QED
  BY <1>2, <1>4, <1>11, <1>12, <1>13 DEF SignatureAccepted

-----------------------------------------------------------------------------
(* What the files hold, and how far the reader is                          *)

(* An exchange that the library calls made: its header maps are finite, it *)
(* has at most one signature, and the lengths of its URLs are numbers.     *)
WellFormed(e) ==
  /\ e.uri.len \in Nat
  /\ IsFiniteSet(DOMAIN e.reqh) /\ IsFiniteSet(DOMAIN e.resph)
  /\ \E s : s.certUrl.len \in Nat /\ e.sigs \in {None, <<s>>}

(* What the publisher holds, and what its check has shown. *)
HeldInv ==
  /\ exchange # None => WellFormed(exchange[1])
  /\ checked => exchange # None /\ SelfCheckPasses(exchange[1], signer[1])

(* Each file is what Write made of its source, which the publisher had.    *)
EntryInv(d) ==
  /\ d.file = Written(d.source).parts /\ d.ok = Written(d.source).ok
  /\ SoundExchange(d.source) /\ WellFormed(d.source)
  /\ d.checked => SelfCheckPasses(d.source, d.signer[1])

EntriesInv == \A i \in DOMAIN disk : EntryInv(disk[i])

(* The signatures that the loop has looked at, each with its chain. *)
Rejected(r) ==
  \A i \in 1..Len(r.fetched) :
    ~SignatureAccepted(r.exchange, r.exchange.sigs[i], r.at, r.fetched[i])

(* The reader holds what ReadExchange makes of its file, and while nothing *)
(* is accepted every signature looked at was rejected; it gives up when    *)
(* that is all of them.                                                    *)
ReadingInv ==
  reader.phase # "idle" =>
    /\ reader.entry \in DOMAIN disk
    /\ reader.phase = "unreadable" => ~ReadExchange(reader.file).ok
    /\ reader.phase # "unreadable" =>
         /\ reader.phase \in {"verifying", "done"}
         /\ ReadExchange(reader.file).ok
         /\ reader.exchange = ReadExchange(reader.file).exchange
         /\ reader.phase = "verifying" => ~reader.valid
         /\ ~reader.valid => Rejected(reader)
         /\ (reader.phase = "done" /\ ~reader.valid) =>
              Len(reader.fetched) = Len(reader.exchange.sigs)

FilesInv == HeldInv /\ EntriesInv /\ ReadingInv

LEMMA AddedIsFinite ==
  ASSUME NEW h, IsFiniteSet(DOMAIN h), NEW name, NEW value
  PROVE  IsFiniteSet(DOMAIN Add(h, name, value))
<1>1. DOMAIN Add(h, name, value) = DOMAIN h \cup {name}
  BY DEF Add
<1>2. QED
  BY <1>1, FS_AddElement

(* Every call of the publisher leaves a well-formed exchange, and none but *)
(* the check says that it was checked.                                     *)
LEMMA PublishKeepsHeld ==
  ASSUME Sound, workload \in Workloads, HeldInv, Publish
  PROVE  HeldInv'
<1>1. exchange # None =>
        /\ exchange = <<exchange[1]>> /\ SoundExchange(exchange[1])
        /\ WellFormed(exchange[1])
  BY DEF Sound, PublisherInv, HeldInv
<1> DEFINE e == exchange[1]
<1>2. ASSUME NEW x, exchange' = <<x>>, ~checked', WellFormed(x) PROVE HeldInv'
  BY <1>2 DEF HeldInv
<1>3. ASSUME exchange' = None, ~checked' PROVE HeldInv'
  BY <1>3 DEF HeldInv
<1>4. ASSUME NEW x \in workload.exchanges, New(x) PROVE HeldInv'
  <2>1. IsUnsigned(x)
    BY SignedExchangeAssumption
  <2>2. \E s : s.certUrl.len \in Nat
    <3>1. [certUrl |-> [len |-> 0]].certUrl.len \in Nat
      OBVIOUS
    <3>2. QED
      BY <3>1
  <2>3. WellFormed(x)
    BY <2>1, <2>2 DEF IsUnsigned, WellFormed
  <2>4. QED
    BY <1>2, <1>4, <2>3 DEF New
<1>5. ASSUME NEW n, MiEncodePayload(n) PROVE HeldInv'
  <2>1. exchange # None /\ exchange' = <<MiEncoded(e, n)>> /\ ~checked'
    BY <1>5 DEF MiEncodePayload
  <2> DEFINE p == [enc |-> MiceEncoding(e.ver), content |-> e.payload.content, rs |-> n]
             h == Add(e.resph, "content-encoding", <<Token("mi-sha256")>>)
             r == Add(h, DigestHeaderName(e.ver), <<Digest(p)>>)
             x == MiEncoded(e, n)
  <2>2. x = [e EXCEPT !.payload = p, !.resph = r]
    BY DEF MiEncoded
  <2>3. IsFiniteSet(DOMAIN r)
    <3>1. IsFiniteSet(DOMAIN h)
      BY <1>1, <2>1, AddedIsFinite DEF WellFormed
    <3> HIDE DEF h, p
    <3>2. QED
      BY <3>1, AddedIsFinite
  <2> HIDE DEF p, r, x, e
  <2>4. x.resph = r /\ x.uri = e.uri /\ x.reqh = e.reqh /\ x.sigs = e.sigs
    BY <1>1, <2>1, <2>2 DEF SoundExchange, e
  <2>5. WellFormed(x)
    BY <1>1, <2>1, <2>3, <2>4 DEF WellFormed, e
  <2>6. QED
    BY <1>2, <2>1, <2>5 DEF x, e
<1>6. ASSUME NEW a, AddHeader(a) PROVE HeldInv'
  <2> DEFINE r == Add(e.resph, a[1], a[2])
             x == [e EXCEPT !.resph = Add(@, a[1], a[2])]
  <2>1. exchange # None /\ exchange' = <<x>> /\ ~checked'
    BY <1>6 DEF AddHeader
  <2>2. IsFiniteSet(DOMAIN r)
    BY <1>1, <2>1, AddedIsFinite DEF WellFormed
  <2>3. x.resph = r /\ x.uri = e.uri /\ x.reqh = e.reqh /\ x.sigs = e.sigs
    BY <1>1, <2>1 DEF SoundExchange
  <2> HIDE DEF r, x
  <2>4. WellFormed(x)
    BY <1>1, <2>1, <2>2, <2>3 DEF WellFormed
  <2>5. QED
    BY <1>2, <2>1, <2>4
<1>7. ASSUME NEW s \in workload.signers, AddSignatureHeader(s) PROVE HeldInv'
  <2> DEFINE t == SignatureOf(e, s)
             x == [e EXCEPT !.sigs = <<t>>]
  <2>1. exchange # None /\ exchange' = <<x>> /\ ~checked'
    BY <1>7 DEF AddSignatureHeader
  <2>2. t.certUrl = s.certUrl /\ s.certUrl.len \in Nat
    BY SignedExchangeAssumption DEF SignatureOf
  <2> HIDE DEF t
  <2>3. x.resph = e.resph /\ x.uri = e.uri /\ x.reqh = e.reqh /\ x.sigs = <<t>>
    BY <1>1, <2>1 DEF SoundExchange
  <2> HIDE DEF x
  <2>4. WellFormed(x)
    BY <1>1, <2>1, <2>2, <2>3 DEF WellFormed
  <2>5. QED
    BY <1>2, <2>1, <2>4
<1>8. CASE SelfCheck
  <2>1. CASE SelfCheckPasses(exchange[1], signer[1])
    BY <1>8, <2>1 DEF SelfCheck, HeldInv
  <2>2. CASE ~SelfCheckPasses(exchange[1], signer[1])
    <3>1. exchange' = None /\ checked' = checked /\ ~checked
      BY <1>8, <2>2 DEF SelfCheck
    <3>2. QED
      BY <1>3, <3>1
  <2>3. QED
    BY <2>1, <2>2
<1>9. CASE Write
  BY <1>3, <1>9 DEF Write
<1>10. QED
  BY <1>4, <1>5, <1>6, <1>7, <1>8, <1>9 DEF Publish

(* The files stay, and the one that Write adds is made of what was held.   *)
LEMMA PublishKeepsEntries ==
  ASSUME Sound, HeldInv, EntriesInv, Publish
  PROVE  /\ EntriesInv'
         /\ DOMAIN disk \subseteq DOMAIN disk'
         /\ \A i \in DOMAIN disk : disk'[i] = disk[i]
<1>1. CASE UNCHANGED disk
  BY <1>1 DEF EntriesInv
<1>2. CASE Write
  <2> DEFINE e == exchange[1]
             d == [file |-> Written(e).parts, ok |-> Written(e).ok,
                   source |-> e, signer |-> signer, checked |-> checked]
  <2>1. exchange # None /\ disk' = Append(disk, d)
    BY <1>2 DEF Write
  <2>2. SoundExchange(e) /\ WellFormed(e)
    BY <2>1 DEF Sound, PublisherInv, HeldInv
  <2>3. /\ d.file = Written(d.source).parts /\ d.ok = Written(d.source).ok
        /\ d.source = e /\ d.signer = signer /\ d.checked = checked
    OBVIOUS
  <2> HIDE DEF d
  <2>4. EntryInv(d)
    BY <2>2, <2>3 DEF HeldInv, EntryInv
  <2>5. PICK T : disk \in Seq(T)
    BY DEF Sound, DiskInv
  <2>6. disk \in Seq(T \cup {d}) /\ d \in T \cup {d}
    BY <2>5, SeqMonotonic
  <2>7. /\ Len(disk) \in Nat /\ DOMAIN disk = 1..Len(disk)
        /\ DOMAIN disk' = 1..(Len(disk) + 1)
        /\ \A i \in 1..Len(disk) : disk'[i] = disk[i]
        /\ disk'[Len(disk) + 1] = d
    BY <2>1, <2>6, AppendProperties, LenProperties
  <2>8. DOMAIN disk' = DOMAIN disk \cup {Len(disk) + 1}
    BY <2>7
  <2>9. QED
    BY <2>4, <2>7, <2>8 DEF EntriesInv
<1>3. QED
  BY <1>1, <1>2 DEF Publish, New, MiEncodePayload, AddHeader, AddSignatureHeader, SelfCheck

LEMMA OpenKeepsReading ==
  ASSUME NEW i \in DOMAIN disk, NEW at, NEW file, Open(i, file, at)
  PROVE  ReadingInv'
<1> DEFINE r == ReadExchange(file)
           x == [phase |-> "verifying", entry |-> i, file |-> file,
                 exchange |-> r.exchange, at |-> at, fetched |-> <<>>, valid |-> FALSE]
<1>1. DOMAIN disk' = DOMAIN disk
  BY DEF Open, publisher
<1>2. CASE ~r.ok
  <2>1. reader' = [phase |-> "unreadable", entry |-> i, file |-> file]
    BY <1>2 DEF Open
  <2>2. /\ (reader').phase = "unreadable" /\ (reader').entry = i
        /\ (reader').file = file
    BY <2>1
  <2>3. QED
    BY <1>1, <1>2, <2>2 DEF ReadingInv
<1>3. CASE r.ok
  <2>1. reader' = x
    BY <1>3 DEF Open
  <2>2. /\ x.phase = "verifying" /\ x.entry = i /\ x.file = file
        /\ x.exchange = r.exchange /\ ~x.valid /\ x.fetched = <<>>
    OBVIOUS
  <2>3. Len(x.fetched) = 0
    BY <2>2
  <2> HIDE DEF x, r
  <2>4. Rejected(x)
    BY <2>3 DEF Rejected
  <2>5. QED
    BY <1>1, <1>3, <2>1, <2>2, <2>4 DEF ReadingInv, r
<1>4. QED
  BY <1>2, <1>3

LEMMA VerifyNextKeepsReading ==
  ASSUME Sound, ReadingInv, NEW chain, VerifyNext(chain)
  PROVE  ReadingInv'
<1> DEFINE e == reader.exchange
           n == Len(reader.fetched)
           ok == SignatureAccepted(e, e.sigs[n + 1], reader.at, chain)
<1>1. /\ UNCHANGED disk /\ reader.phase = "verifying"
      /\ reader' = [reader EXCEPT !.fetched = Append(@, chain),
                                  !.valid = ok,
                                  !.phase = IF ok THEN "done" ELSE "verifying"]
  BY DEF VerifyNext, publisher
<1>2. /\ DOMAIN reader = {"phase", "entry", "file", "exchange", "at", "fetched", "valid"}
      /\ \E T : reader.fetched \in Seq(T)
  BY <1>1 DEF Sound, ReaderInv
<1> HIDE DEF ok
<1>3. /\ (reader').exchange = e /\ (reader').at = reader.at
      /\ (reader').entry = reader.entry /\ (reader').file = reader.file
      /\ (reader').fetched = Append(reader.fetched, chain)
      /\ (reader').valid = ok
      /\ (reader').phase = IF ok THEN "done" ELSE "verifying"
  BY <1>1, <1>2
<1>4. /\ n \in Nat /\ Len((reader').fetched) = n + 1
      /\ \A i \in 1..n : (reader').fetched[i] = reader.fetched[i]
      /\ (reader').fetched[n + 1] = chain
  <2>1. PICK T : reader.fetched \in Seq(T)
    BY <1>2
  <2>2. reader.fetched \in Seq(T \cup {chain}) /\ chain \in T \cup {chain}
    BY <2>1, SeqMonotonic
  <2> DEFINE s == reader.fetched
  <2> HIDE DEF s
  <2>3. /\ Len(s) \in Nat /\ Len(Append(s, chain)) = Len(s) + 1
        /\ \A i \in 1..Len(s) : Append(s, chain)[i] = s[i]
        /\ Append(s, chain)[Len(s) + 1] = chain
    BY <2>2, AppendProperties, LenProperties DEF s
  <2>4. QED
    BY <1>3, <2>3 DEF s
<1>5. Rejected(reader)
  BY <1>1 DEF ReadingInv
<1>6. ASSUME ~ok PROVE Rejected(reader')
  <2>1. \A i \in 1..(n + 1) : i \in 1..n \/ i = n + 1
    BY <1>4
  <2>2. ~SignatureAccepted(e, e.sigs[n + 1], reader.at, chain)
    BY <1>6 DEF ok
  <2> HIDE DEF n, e
  <2>3. \A i \in 1..n :
          ~SignatureAccepted(e, e.sigs[i], reader.at, reader.fetched[i])
    BY <1>5 DEF Rejected, e, n
  <2>4. \A i \in 1..(n + 1) :
          ~SignatureAccepted(e, e.sigs[i], reader.at, (reader').fetched[i])
    BY <1>4, <2>1, <2>2, <2>3
  <2>5. QED
    BY <1>3, <1>4, <2>4 DEF Rejected
<1> HIDE DEF n, e
<1>7. /\ reader.entry \in DOMAIN disk /\ ReadExchange(reader.file).ok
      /\ e = ReadExchange(reader.file).exchange
  BY <1>1 DEF ReadingInv, e
<1>8. QED
  BY <1>1, <1>3, <1>6, <1>7 DEF ReadingInv

LEMMA GiveUpKeepsReading ==
  ASSUME Sound, ReadingInv, GiveUp
  PROVE  ReadingInv'
<1>1. /\ UNCHANGED disk /\ reader.phase = "verifying"
      /\ Len(reader.fetched) = Len(reader.exchange.sigs)
      /\ reader' = [reader EXCEPT !.phase = "done"]
  BY DEF GiveUp, publisher
<1>2. DOMAIN reader = {"phase", "entry", "file", "exchange", "at", "fetched", "valid"}
  BY <1>1 DEF Sound, ReaderInv
<1>3. /\ (reader').phase = "done" /\ (reader').exchange = reader.exchange
      /\ (reader').entry = reader.entry /\ (reader').file = reader.file
      /\ (reader').fetched = reader.fetched /\ (reader').at = reader.at
      /\ (reader').valid = reader.valid
  BY <1>1, <1>2
<1>4. Rejected(reader) => Rejected(reader')
  BY <1>3 DEF Rejected
<1>5. QED
  BY <1>1, <1>3, <1>4 DEF ReadingInv

(* Every state of every behaviour has files as Write made them, and the    *)
(* reader has rejected all the signatures that it has passed.              *)
THEOREM FilesInvariance == Spec => []FilesInv
<1>1. Init => FilesInv
  BY DEF Init, FilesInv, HeldInv, EntriesInv, ReadingInv, Idle
<1>2. IInv /\ FilesInv /\ [Next]_vars => FilesInv'
  <2> SUFFICES ASSUME Sound, workload \in Workloads, HeldInv, EntriesInv, ReadingInv,
                      [Next]_vars
               PROVE  HeldInv' /\ EntriesInv' /\ ReadingInv'
    BY DEF IInv, FilesInv
  <2>1. CASE Publish
    <3>1. HeldInv' /\ EntriesInv' /\ DOMAIN disk \subseteq DOMAIN disk'
      BY <2>1, PublishKeepsHeld, PublishKeepsEntries
    <3>2. UNCHANGED reader
      BY <2>1 DEF Publish, New, MiEncodePayload, AddHeader, AddSignatureHeader,
                  SelfCheck, Write
    <3>3. ReadingInv'
      BY <3>1, <3>2 DEF ReadingInv, Rejected
    <3>4. QED
      BY <3>1, <3>3
  <2>2. UNCHANGED publisher => HeldInv' /\ EntriesInv'
    BY DEF publisher, HeldInv, EntriesInv
  <2>3. ASSUME NEW i \in DOMAIN disk, NEW at, NEW file, Open(i, file, at)
        PROVE  HeldInv' /\ EntriesInv' /\ ReadingInv'
    BY <2>2, <2>3, OpenKeepsReading DEF Open
  <2>4. ASSUME NEW chain, VerifyNext(chain)
        PROVE  HeldInv' /\ EntriesInv' /\ ReadingInv'
    BY <2>2, <2>4, VerifyNextKeepsReading DEF VerifyNext
  <2>5. CASE GiveUp
    BY <2>2, <2>5, GiveUpKeepsReading DEF GiveUp
  <2>6. CASE UNCHANGED vars
    <3>1. UNCHANGED publisher /\ UNCHANGED reader /\ UNCHANGED disk
      BY <2>6 DEF vars, publisher
    <3>2. QED
      BY <2>2, <3>1 DEF ReadingInv, Rejected
  <2>7. QED
    BY <2>1, <2>3, <2>4, <2>5, <2>6 DEF Next
<1>3. QED
  BY <1>1, <1>2, ExchangeInvariance, PTL DEF Spec

(* A file that Write finished, with lengths that fit their fields, is read *)
(* back as the exchange it was written from, whatever the exchange.        *)
THEOREM WrittenIsReadBack == Spec => []ReadsBack
<1>1. FilesInv => ReadsBack
  <2> SUFFICES ASSUME FilesInv, reader.phase # "idle",
                      NEW d, d = disk[reader.entry],
                      d.ok, reader.file = d.file, ValidFallbackURL(d.source.uri),
                      ~(d.source.ver = "1b2" /\ ":url" \in DOMAIN d.source.reqh),
                      LengthsFit(d.source)
               PROVE  /\ reader.phase # "unreadable"
                      /\ reader.exchange = Normal(d.source)
    BY DEF ReadsBack
  <2> DEFINE e == d.source
  <2>1. EntryInv(d)
    BY DEF FilesInv, EntriesInv, ReadingInv
  <2>2. /\ reader.file = Written(e).parts /\ Written(e).ok
        /\ SoundExchange(e) /\ WellFormed(e)
    BY <2>1 DEF EntryInv
  <2> HIDE DEF e
  <2>3. IsWhole(reader.file, e)
    BY <2>2, FinishedIsWhole
  <2>4. e.uri.len \in Nat /\ SigLength(e.sigs) \in Nat /\ HeaderLength(e) \in Nat
    BY <2>2, OneSignatureLength, HeaderLengthIsNat DEF WellFormed
  <2>5. ReadExchange(reader.file).ok /\ ReadExchange(reader.file).exchange = Normal(e)
    BY <2>2, <2>3, <2>4, WholeIsRead DEF SoundExchange, e
  <2>6. QED
    BY <2>5 DEF FilesInv, ReadingInv, e
<1>2. QED
  BY <1>1, FilesInvariance, PTL

(* A file that was checked and written is accepted while its signature is  *)
(* in its window and its certificate is served, whatever other signatures  *)
(* stand before its own and whatever chains are served for those.          *)
THEOREM CheckedIsAccepted == Spec => []GenuineIsAccepted
<1>1. IInv /\ FilesInv => GenuineIsAccepted
  <2> SUFFICES ASSUME IInv, FilesInv, reader.phase = "done",
                      NEW d, d = disk[reader.entry],
                      d.ok, d.checked, SingleValued(d.source), Untouched(reader),
                      TimestampsValid(d.source.sigs[1], reader.at),
                      NEW i \in DOMAIN reader.exchange.sigs,
                      reader.exchange.sigs[i] = d.source.sigs[1],
                      i \in DOMAIN reader.fetched => reader.fetched[i] = d.signer[1].certs,
                      ~reader.valid
               PROVE  FALSE
    BY DEF GenuineIsAccepted
  <2> DEFINE e == d.source
             s == e.sigs[1]
             x == reader.exchange
             c == d.signer[1].certs
  <2>1. EntryInv(d)
    BY DEF FilesInv, EntriesInv, ReadingInv
  <2>2. /\ d.file = Written(e).parts /\ Written(e).ok
        /\ SoundExchange(e) /\ WellFormed(e)
        /\ SelfCheckPasses(e, d.signer[1])
    BY <2>1 DEF EntryInv
  <2>3. SignatureAccepted(e, s, d.signer[1].date, c)
    <3>1. PICK j \in DOMAIN e.sigs : SignatureAccepted(e, e.sigs[j], d.signer[1].date, c)
      BY <2>2 DEF SelfCheckPasses
    <3>2. PICK t : e.sigs \in {None, <<t>>}
      BY <2>2 DEF WellFormed
    <3>3. \A k \in DOMAIN None : FALSE
      BY DEF None
    <3>4. \A k \in DOMAIN <<t>> : k = 1
      OBVIOUS
    <3> HIDE DEF e, c
    <3>5. j = 1
      BY <3>1, <3>2, <3>3, <3>4
    <3>6. QED
      BY <3>1, <3>5
  <2> HIDE DEF s, x, c
  <2>4. ReadAs(x, e)
    <3>1. IsWhole(d.file, e)
      BY <2>2, FinishedIsWhole
    <3>2. \A k \in DOMAIN d.file : d.file[k].tag \notin {"sig", "sigLength"} =>
            k \in DOMAIN reader.file /\ reader.file[k] = d.file[k]
      BY DEF Untouched
    <3>3. ReadExchange(reader.file).ok /\ x = ReadExchange(reader.file).exchange
      BY DEF FilesInv, ReadingInv, x
    <3> HIDE DEF e
    <3>4. QED
      BY <3>1, <3>2, <3>3, UntouchedIsRead
  <2>5. SignatureAccepted(x, s, reader.at, c)
    <3>1. SingleValued(e) /\ TimestampsValid(s, reader.at)
      BY DEF s
    <3> HIDE DEF e
    <3>2. QED
      BY <2>2, <2>3, <2>4, <3>1, AcceptedFromFile
  <2>6. /\ Len(reader.fetched) = Len(x.sigs) /\ Rejected(reader)
    BY DEF FilesInv, ReadingInv, x
  <2>7. i \in 1..Len(reader.fetched) /\ i \in DOMAIN reader.fetched
    <3>1. PICK T : x.sigs \in Seq(T)
      BY DEF IInv, Sound, ReaderInv, SoundRead, GenuineList, x
    <3>2. PICK U : reader.fetched \in Seq(U)
      BY DEF IInv, Sound, ReaderInv
    <3>3. /\ DOMAIN x.sigs = 1..Len(x.sigs)
          /\ DOMAIN reader.fetched = 1..Len(reader.fetched)
      BY <3>1, <3>2, LenProperties
    <3>4. QED
      BY <2>6, <3>3 DEF x
  <2>8. ~SignatureAccepted(x, x.sigs[i], reader.at, reader.fetched[i])
    BY <2>6, <2>7 DEF Rejected, x
  <2>9. x.sigs[i] = s /\ reader.fetched[i] = c
    BY <2>7 DEF s, x, c
  <2> HIDE DEF e
  <2>10. QED
    BY <2>5, <2>8, <2>9
<1>2. QED
  BY <1>1, ExchangeInvariance, FilesInvariance, PTL

=============================================================================
