------------------------ MODULE BundleSignatureProofs ------------------------
(***************************************************************************)
(* Proofs about the signatures section of a bundle, for any bundles with   *)
(* any number of exchanges, any certificates and signers, failing or not,  *)
(* one after another, and any alteration of the file that a client may get.*)
(***************************************************************************)
EXTENDS BundleSignature, InductionProofs, SequenceTheorems, TLAPS

IsSeq(s) == s \in Seq(ToSet(s))

(* The i-th exchange of a bundle is the original's but for its coding, and *)
(* what a write lost of it.                                                *)
IsCodingOf(e, o) ==
  /\ e = [url |-> o.url, header |-> [fields |-> o.header.fields, digest |-> e.header.digest],
          body |-> [payload |-> e.body.payload, size |-> e.body.size]]
  /\ e.body.size \in {0} \cup RecordSizes
  /\ e.body.payload \in {o.body.payload, Zeros}

HasExchanges(b) ==
  /\ IsSeq(b.exchanges)
  /\ Len(b.exchanges) = Len(original.exchanges)
  /\ \A i \in DOMAIN b.exchanges : IsCodingOf(b.exchanges[i], original.exchanges[i])

(* A subset stands with the certificate of the signer who signed it.       *)
MadeFor(v, b, s) ==
  /\ v = [authority |-> v.authority, sig |-> s.sig, signed |-> s.sig.of.signed]
  /\ v.authority \in 0..(Len(b.authorities) - 1)
  /\ b.authorities[v.authority + 1] = s.signer.chain[1].cert

HasSignatures(b) ==
  /\ IsSeq(b.authorities) /\ IsSeq(b.vouched)
  /\ \A v \in ToSet(b.vouched) : \E s \in signings : MadeFor(v, b, s)

(* The exchange is as it was when h was made of it; only its body may have *)
(* lost its end since.                                                     *)
SignedAs(e, h) ==
  /\ h = ResourceIntegrity(e)
  /\ e.header.digest.size # 0
  /\ e.body.size = e.header.digest.size
  /\ e.body.payload \in {e.header.digest.payload, Zeros}

Intact(b) ==
  \A v \in ToSet(b.vouched) : \A h \in v.signed.subsetHashes :
    \A i \in DOMAIN b.exchanges : b.exchanges[i].url = h.url => SignedAs(b.exchanges[i], h)

IsBundle(b) ==
  /\ b = [version |-> original.version, exchanges |-> b.exchanges,
          authorities |-> b.authorities, vouched |-> b.vouched]
  /\ HasExchanges(b) /\ HasSignatures(b) /\ Intact(b)

(* What EarlierSigningsKept says of two bundles. *)
Covers(b, i) ==
  \E v \in ToSet(b.vouched) : \E h \in v.signed.subsetHashes : h.url = b.exchanges[i].url
Keeps(b, c) ==
  /\ IsPrefix(b.authorities, c.authorities)
  /\ IsPrefix(b.vouched, c.vouched)
  /\ \A i \in DOMAIN b.exchanges :
       Covers(b, i) => \/ c.exchanges[i] = b.exchanges[i]
                       \/ Zeros \in {b.exchanges[i].body.payload, c.exchanges[i].body.payload}

BundlesInv ==
  /\ original \in Originals
  /\ file = Unreadable \/ IsBundle(file)
  /\ IsBundle(mem)
  /\ Keeps(file, mem)

(* Exchanges that were coded for what their Digest says, one for each URL. *)
AreAdded(exchanges) ==
  /\ \A e \in exchanges :
       /\ e.body = e.header.digest
       /\ e.body = [payload |-> e.body.payload, size |-> e.body.size]
       /\ e.body.size # 0
  /\ \A e, f \in exchanges : e.url = f.url => e = f

(* What the signer of the run has gone past and can sign for.              *)
Added ==
  {mem.exchanges[i] : i \in {j \in 1..(run.next - 1) :
                               CanSignFor(run.signer, mem.exchanges[j].url)}}

RunInv ==
  /\ run.phase \in {"idle", "adding"} /\ run.used \in 0..MaxSigners
  /\ run.phase = "adding" =>
       /\ run = [phase |-> "adding", used |-> run.used, signer |-> run.signer,
                 size |-> run.size, next |-> run.next, hashes |-> run.hashes]
       /\ run.signer \in Signers /\ ChainIsValid(run.signer.chain)
       /\ run.size \in RecordSizes
       /\ run.next \in 1..(Len(mem.exchanges) + 1)
       /\ AreAdded(Added)
       /\ run.hashes = {ResourceIntegrity(e) : e \in Added}

Urls == {e.url : e \in ToSet(original.exchanges)}

IsSigning(s) ==
  /\ s.sig = [key |-> s.signer.key, of |-> SignedMessage(s.sig.of.signed, original.version)]
  /\ s.sig.of.signed =
       [authSha256 |-> s.signer.chain[1].cert, date |-> s.signer.date,
        expires |-> s.signer.expires,
        subsetHashes |-> {ResourceIntegrity(e) : e \in s.covered}]
  /\ s.signer \in Signers /\ s.signer.key \in SupportedKeys
  /\ AreAdded(s.covered)
  /\ {e.url : e \in s.covered} = {u \in Urls : CanSignFor(s.signer, u)}

SigningsInv == \A s \in signings : IsSigning(s)

(* However the bundle was altered, a signature that it holds was made.     *)
IsSigned(b) == IsSeq(b.vouched) /\ \A v \in ToSet(b.vouched) : \E s \in signings : v.sig = s.sig

AllVerify(b, at) == \A v \in ToSet(b.vouched) : VouchedSubsetVerifies(v, b, at)

ClientInv ==
  /\ client.phase \in {"none", "received", "verifier", "refused", "answered"}
  /\ client.phase # "none" => IsSigned(client.bundle)
  /\ client.phase \in {"verifier", "refused", "answered"} => client.at \in Times
  /\ client.phase = "refused" => ~ AllVerify(client.bundle, client.at)
  /\ client.phase \in {"verifier", "answered"} => AllVerify(client.bundle, client.at)
  /\ client.phase = "answered" =>
       /\ client.of \in DOMAIN client.bundle.exchanges
       /\ client.verdict = Verdict(client.bundle.exchanges[client.of], client.bundle)

IInv == BundlesInv /\ RunInv /\ SigningsInv /\ ClientInv

-----------------------------------------------------------------------------
(* Sequences.                                                              *)

LEMMA SeqIsSeq ==
  ASSUME NEW T, NEW s \in Seq(T)
  PROVE  IsSeq(s)
<1>1. PICK n \in Nat : s \in [1..n -> T]
  BY SeqDef
<1>2. s \in [1..n -> ToSet(s)]
  BY <1>1 DEF ToSet
<1>3. QED
  BY <1>2, SeqDef DEF IsSeq

LEMMA SeqIsFunction ==
  ASSUME NEW s, IsSeq(s)
  PROVE  /\ Len(s) \in Nat /\ DOMAIN s = 1..Len(s)
         /\ s = [i \in 1..Len(s) |-> s[i]]
         /\ \A x : x \in ToSet(s) <=> \E i \in 1..Len(s) : x = s[i]
BY DEF IsSeq, ToSet

(* t is s but for its element at i, if there is one, which is x.           *)
IsReplaced(s, i, x, t) ==
  /\ IsSeq(t) /\ Len(t) = Len(s)
  /\ i \in 1..Len(s) => t[i] = x
  /\ \A j \in 1..Len(s) : j # i => t[j] = s[j]

LEMMA ExceptIsSeq ==
  ASSUME NEW s, IsSeq(s), NEW i, NEW x
  PROVE  IsReplaced(s, i, x, [s EXCEPT ![i] = x])
<1> DEFINE t == [s EXCEPT ![i] = x]
<1>1. Len(s) \in Nat /\ DOMAIN s = 1..Len(s)
  BY SeqIsFunction
<1>2. t \in [1..Len(s) -> ToSet(t)]
  BY <1>1 DEF ToSet
<1>3. /\ i \in 1..Len(s) => t[i] = x
      /\ \A j \in 1..Len(s) : j # i => t[j] = s[j]
  BY <1>1
<1> HIDE DEF t
<1>4. t \in Seq(ToSet(t))
  BY <1>1, <1>2, SeqDef
<1>5. Len(t) = Len(s)
  BY <1>1, <1>2, <1>4
<1>6. IsReplaced(s, i, x, t)
  BY <1>3, <1>4, <1>5 DEF IsSeq, IsReplaced
<1>7. QED
  BY <1>6 DEF t

LEMMA AppendIsSeq ==
  ASSUME NEW s, IsSeq(s), NEW x
  PROVE  /\ IsSeq(Append(s, x))
         /\ Len(Append(s, x)) = Len(s) + 1
         /\ \A i \in 1..Len(s) : Append(s, x)[i] = s[i]
         /\ Append(s, x)[Len(s) + 1] = x
         /\ \A y : y \in ToSet(Append(s, x)) <=> y \in ToSet(s) \/ y = x
<1> DEFINE T == ToSet(s) \cup {x}
           t == Append(s, x)
<1>1. s \in Seq(T)
  BY SeqMonotonic DEF IsSeq
<1>2. /\ t \in Seq(T) /\ Len(t) = Len(s) + 1
      /\ \A i \in 1..Len(s) : t[i] = s[i]
      /\ t[Len(s) + 1] = x
  BY <1>1, AppendProperties
<1>3. IsSeq(t)
  BY <1>2, SeqIsSeq
<1> HIDE DEF t
<1>4. ASSUME NEW y
      PROVE  y \in ToSet(t) <=> y \in ToSet(s) \/ y = x
  BY <1>2, <1>3, SeqIsFunction
<1>5. QED
  BY <1>2, <1>3, <1>4 DEF t

LEMMA ConcatIsSeq ==
  ASSUME NEW s, IsSeq(s), NEW u, IsSeq(u)
  PROVE  /\ IsSeq(s \o u)
         /\ Len(s \o u) = Len(s) + Len(u)
         /\ \A i \in 1..Len(s) : (s \o u)[i] = s[i]
         /\ \A i \in 1..Len(u) : (s \o u)[Len(s) + i] = u[i]
<1> DEFINE T == ToSet(s) \cup ToSet(u)
<1>1. s \in Seq(T) /\ u \in Seq(T)
  BY SeqMonotonic DEF IsSeq
<1>2. Len(s) \in Nat /\ Len(u) \in Nat
  BY <1>1
<1>3. /\ s \o u \in Seq(T) /\ Len(s \o u) = Len(s) + Len(u)
      /\ \A i \in 1 .. Len(s) + Len(u) : (s \o u)[i] = IF i <= Len(s) THEN s[i] ELSE u[i - Len(s)]
  BY <1>1, ConcatProperties
<1>4. IsSeq(s \o u)
  BY <1>3, SeqIsSeq
<1>5. ASSUME NEW i \in 1..Len(u)
      PROVE  (s \o u)[Len(s) + i] = u[i]
  <2>1. /\ Len(s) + i \in 1 .. Len(s) + Len(u) /\ ~ (Len(s) + i <= Len(s))
        /\ (Len(s) + i) - Len(s) = i
    BY <1>2
  <2>2. QED
    BY <2>1, <1>3
<1>6. QED
  BY <1>2, <1>3, <1>4, <1>5

LEMMA PrefixesAgree ==
  ASSUME NEW s, IsSeq(s), NEW t, IsSeq(t)
  PROVE  IsPrefix(s, t) <=> Len(s) <= Len(t) /\ \A i \in 1..Len(s) : s[i] = t[i]
<1>1. Len(s) \in Nat /\ Len(t) \in Nat
  BY SeqIsFunction
<1>2. SubSeq(s, 1, Len(s)) = [i \in 1..Len(s) |-> s[i]]
  BY <1>1 DEF IsSeq
<1>3. SubSeq(t, 1, Len(s)) = [i \in 1..Len(s) |-> t[i]]
  BY <1>1 DEF IsSeq
<1>4. QED
  BY <1>2, <1>3 DEF IsPrefix

-----------------------------------------------------------------------------
(* The initial bundle, and what a step leaves alone.                       *)

LEMMA KeepsItself ==
  ASSUME NEW b, IsSeq(b.authorities), IsSeq(b.vouched)
  PROVE  Keeps(b, b)
BY PrefixesAgree, SeqIsFunction DEF Keeps

LEMMA EmptyIsSeq == IsSeq(<<>>) /\ Len(<<>>) = 0 /\ ToSet(<<>>) = {}
BY DEF IsSeq, ToSet

LEMMA InitInv == Init => IInv
<1> SUFFICES ASSUME Init PROVE IInv
  OBVIOUS
<1> USE DEF Init
<1>1. /\ file = mem /\ original \in Originals
      /\ mem = [version |-> original.version, exchanges |-> original.exchanges,
                authorities |-> <<>>, vouched |-> <<>>]
  BY DEF Unsigned
<1>2. /\ IsSeq(original.exchanges)
      /\ \A i \in DOMAIN original.exchanges : IsPlain(original.exchanges[i])
  BY <1>1, BundleSignatureAssumption DEF IsSeq
<1>3. \A o : IsPlain(o) => IsCodingOf(o, o)
  BY DEF IsPlain, IsCodingOf
<1>4. HasExchanges(mem)
  BY <1>1, <1>2, <1>3 DEF HasExchanges
<1>5. /\ IsSeq(mem.authorities) /\ IsSeq(mem.vouched) /\ ToSet(mem.vouched) = {}
  BY <1>1, EmptyIsSeq
<1>6. IsBundle(mem)
  BY <1>1, <1>4, <1>5 DEF IsBundle, HasSignatures, Intact
<1>7. BundlesInv
  BY <1>1, <1>5, <1>6, KeepsItself DEF BundlesInv
<1>8. RunInv /\ SigningsInv /\ ClientInv
  BY BundleSignatureAssumption DEF RunInv, SigningsInv, ClientInv
<1>9. QED
  BY <1>7, <1>8 DEF IInv

LEMMA BundlesUnchanged ==
  ASSUME BundlesInv, UNCHANGED <<original, file, mem, signings>>
  PROVE  BundlesInv'
BY DEF BundlesInv, IsBundle, HasExchanges, HasSignatures

LEMMA RunUnchanged ==
  ASSUME RunInv, UNCHANGED <<mem, run>>
  PROVE  RunInv'
BY DEF RunInv, Added

LEMMA SigningsUnchanged ==
  ASSUME SigningsInv, UNCHANGED <<original, signings>>
  PROVE  SigningsInv'
BY DEF SigningsInv, IsSigning, Urls

LEMMA ClientUnchanged ==
  ASSUME ClientInv, UNCHANGED client, signings \subseteq signings'
  PROVE  ClientInv'
BY DEF ClientInv, IsSigned

LEMMA RunEnds ==
  ASSUME RunInv, GiveUp
  PROVE  RunInv'
BY DEF RunInv, GiveUp

(* The exchanges of the bundle in memory.                                  *)
LEMMA MemExchanges ==
  ASSUME BundlesInv
  PROVE  /\ IsSeq(mem.exchanges)
         /\ Len(mem.exchanges) \in Nat /\ DOMAIN mem.exchanges = 1..Len(mem.exchanges)
         /\ \A i \in 1..Len(mem.exchanges) : IsCodingOf(mem.exchanges[i], original.exchanges[i])
<1>1. IsSeq(mem.exchanges) /\ HasExchanges(mem)
  BY DEF BundlesInv, IsBundle, HasExchanges
<1>2. DOMAIN mem.exchanges = 1..Len(mem.exchanges) /\ Len(mem.exchanges) \in Nat
  BY <1>1, SeqIsFunction
<1>3. QED
  BY <1>1, <1>2 DEF HasExchanges

-----------------------------------------------------------------------------
(* The steps of a signer.                                                  *)

LEMMA NewSignerInv ==
  ASSUME IInv, NEW s \in Signers, NEW size \in RecordSizes, NewSigner(s, size)
  PROVE  IInv'
<1> USE DEF NewSigner
<1>1. BundlesInv' /\ SigningsInv' /\ ClientInv'
  BY BundlesUnchanged, SigningsUnchanged, ClientUnchanged DEF IInv
<1>2. run.used + 1 \in 0..MaxSigners
  BY BundleSignatureAssumption DEF IInv, RunInv
<1>3. Len(mem.exchanges) \in Nat
  BY MemExchanges DEF IInv
<1>4. Added' = {}
  BY DEF Added
<1>5. RunInv'
  BY <1>2, <1>3, <1>4 DEF RunInv, AreAdded
<1>6. QED
  BY <1>1, <1>5 DEF IInv

LEMMA SkipExchangeInv ==
  ASSUME IInv, SkipExchange
  PROVE  IInv'
<1> USE DEF SkipExchange
<1>1. BundlesInv' /\ SigningsInv' /\ ClientInv'
  BY BundlesUnchanged, SigningsUnchanged, ClientUnchanged DEF IInv
<1>2. run = [phase |-> "adding", used |-> run.used, signer |-> run.signer,
             size |-> run.size, next |-> run.next, hashes |-> run.hashes]
  BY DEF IInv, RunInv
<1>3. run' = [phase |-> "adding", used |-> run.used, signer |-> run.signer,
              size |-> run.size, next |-> run.next + 1, hashes |-> run.hashes]
  BY <1>2
<1>4. Len(mem.exchanges) \in Nat
  BY MemExchanges DEF IInv
<1>5. run.next \in 1..(Len(mem.exchanges) + 1)
  BY DEF IInv, RunInv
<1>6. Added' = Added
  <2>1. \A j \in 1..((run.next + 1) - 1) :
          CanSignFor(run.signer, mem.exchanges[j].url) => j \in 1..(run.next - 1)
    BY <1>5 DEF CanSignForURL
  <2>2. \A j \in 1..(run.next - 1) : j \in 1..((run.next + 1) - 1)
    BY <1>5
  <2>3. mem' = mem /\ run'.next = run.next + 1 /\ run'.signer = run.signer
    BY <1>3
  <2>4. QED
    BY <2>1, <2>2, <2>3 DEF Added
<1>7. RunInv'
  BY <1>2, <1>3, <1>4, <1>5, <1>6 DEF IInv, RunInv
<1>8. QED
  BY <1>1, <1>7 DEF IInv

LEMMA RefuseExchangeInv ==
  ASSUME IInv, RefuseExchange
  PROVE  IInv'
BY BundlesUnchanged, SigningsUnchanged, ClientUnchanged, RunEnds DEF IInv, RefuseExchange

LEMMA CodingHasUrl ==
  ASSUME NEW o, NEW e, IsCodingOf(e, o)
  PROVE  e.url = o.url /\ e.header.fields = o.header.fields
<1>1. ASSUME NEW h, NEW b, e = [url |-> o.url, header |-> [fields |-> o.header.fields, digest |-> h], body |-> b]
      PROVE  e.url = o.url /\ e.header.fields = o.header.fields
  BY <1>1
<1>2. QED
  BY <1>1 DEF IsCodingOf

(* What coding an exchange makes of it.                                    *)
LEMMA CodedExchange ==
  ASSUME NEW o, NEW e, IsCodingOf(e, o), NEW size \in RecordSizes
  PROVE  LET c == WithIntegrity(e, size)
         IN  /\ IsCodingOf(c, o) /\ c.url = e.url
             /\ c.body = c.header.digest /\ c.body.size # 0
             /\ c.body = [payload |-> c.body.payload, size |-> c.body.size]
<1> DEFINE m == [payload |-> e.body.payload, size |-> size]
<1>1. e = [url |-> o.url, header |-> [fields |-> o.header.fields, digest |-> e.header.digest],
           body |-> [payload |-> e.body.payload, size |-> e.body.size]]
  BY DEF IsCodingOf
<1>2. WithIntegrity(e, size) =
        [url |-> e.url, header |-> [e.header EXCEPT !.digest = m], body |-> m]
  BY DEF WithIntegrity
<1>3. m.payload = e.body.payload /\ m.size = size /\ m = [payload |-> m.payload, size |-> m.size]
  OBVIOUS
<1> HIDE DEF m
<1>4. WithIntegrity(e, size) =
        [url |-> o.url, header |-> [fields |-> o.header.fields, digest |-> m], body |-> m]
  <2>1. e.url = o.url /\ e.header = [fields |-> o.header.fields, digest |-> e.header.digest]
    BY <1>1
  <2>2. QED
    BY <1>2, <2>1
<1>5. size # 0 /\ e.body.payload \in {o.body.payload, Zeros}
  BY BundleSignatureAssumption DEF IsCodingOf
<1>6. QED
  BY <1>1, <1>3, <1>4, <1>5 DEF IsCodingOf

LEMMA BundleParts ==
  ASSUME NEW b, NEW v, NEW x, NEW a, NEW w,
         b = [version |-> v, exchanges |-> x, authorities |-> a, vouched |-> w]
  PROVE  b = [version |-> v, exchanges |-> b.exchanges, authorities |-> b.authorities,
              vouched |-> b.vouched]
OBVIOUS

(* One exchange of the bundle in memory is rewritten, which had no Digest  *)
(* and is so of no subset.                                                 *)
LEMMA CodingKeepsBundles ==
  ASSUME BundlesInv, UNCHANGED <<original, file, signings>>,
         NEW n \in 1..Len(mem.exchanges), HasNoDigest(mem.exchanges[n]),
         NEW size \in RecordSizes,
         mem' = [mem EXCEPT !.exchanges[n] = WithIntegrity(mem.exchanges[n], size)]
  PROVE  /\ BundlesInv'
         /\ IsSeq(mem'.exchanges) /\ Len(mem'.exchanges) = Len(mem.exchanges)
         /\ mem'.exchanges[n] = WithIntegrity(mem.exchanges[n], size)
         /\ \A j \in 1..Len(mem.exchanges) : j # n => mem'.exchanges[j] = mem.exchanges[j]
<1> DEFINE old == mem.exchanges[n]
           new == WithIntegrity(old, size)
           coded == [mem.exchanges EXCEPT ![n] = new]
<1>1. /\ mem = [version |-> original.version, exchanges |-> mem.exchanges,
                authorities |-> mem.authorities, vouched |-> mem.vouched]
      /\ IsBundle(mem)
  BY DEF BundlesInv, IsBundle
<1>2. mem' = [version |-> original.version, exchanges |-> coded,
              authorities |-> mem.authorities, vouched |-> mem.vouched]
  <2>1. mem' = [mem EXCEPT !.exchanges = coded]
    OBVIOUS
  <2> HIDE DEF coded
  <2>2. QED
    BY <1>1, <2>1
<1>3. /\ IsSeq(mem'.exchanges) /\ Len(mem'.exchanges) = Len(mem.exchanges)
      /\ mem'.exchanges[n] = new
      /\ \A j \in 1..Len(mem.exchanges) : j # n => mem'.exchanges[j] = mem.exchanges[j]
  <2>1. IsReplaced(mem.exchanges, n, new, coded)
    BY MemExchanges, ExceptIsSeq
  <2> HIDE DEF new, coded
  <2>2. mem'.exchanges = coded
    BY <1>2
  <2>3. QED
    BY ONLY <2>1, <2>2, n \in 1..Len(mem.exchanges) DEF IsReplaced
<1>4. DOMAIN mem'.exchanges = 1..Len(mem.exchanges) /\ DOMAIN mem.exchanges = 1..Len(mem.exchanges)
  BY <1>3, SeqIsFunction, MemExchanges
<1>5. IsCodingOf(old, original.exchanges[n])
  BY MemExchanges
<1>6. IsCodingOf(new, original.exchanges[n]) /\ new.url = old.url
  BY <1>5, CodedExchange
<1> HIDE DEF new
<1>7. HasExchanges(mem)'
  <2>1. \A j \in 1..Len(mem.exchanges) : IsCodingOf(mem'.exchanges[j], original.exchanges[j])
    BY <1>3, <1>6, MemExchanges
  <2>2. QED
    BY <2>1, <1>1, <1>3, <1>4 DEF HasExchanges, IsBundle
<1>8. mem'.vouched = mem.vouched /\ mem'.authorities = mem.authorities
  BY <1>2
<1>9. HasSignatures(mem)'
  BY <1>1, <1>8 DEF IsBundle, HasSignatures, MadeFor
<1>10. ~ Covers(mem, n)
  <2>1. old.header.digest.size = 0
    BY DEF HasNoDigest, NoDigest
  <2>2. QED
    BY <2>1, <1>1, <1>4 DEF IsBundle, Intact, Covers, SignedAs
<1>11. Intact(mem)'
  BY <1>1, <1>3, <1>4, <1>6, <1>8, <1>10 DEF IsBundle, Intact, Covers
<1>12. IsBundle(mem)'
  <2> HIDE DEF coded
  <2>1. mem' = [version |-> original.version, exchanges |-> mem'.exchanges,
                authorities |-> mem'.authorities, vouched |-> mem'.vouched]
    BY <1>2, BundleParts
  <2>2. QED
    BY <2>1, <1>7, <1>9, <1>11 DEF IsBundle
<1>13. Keeps(file, mem)'
  <2>1. Keeps(file, mem)
    BY DEF BundlesInv
  <2>2. CASE file = Unreadable
    <3>1. DOMAIN file.exchanges = {}
      BY <2>2 DEF Unreadable
    <3>2. QED
      BY <2>1, <1>8, <3>1 DEF Keeps
  <2>3. CASE IsBundle(file)
    <3>1. /\ DOMAIN file.exchanges = 1..Len(mem.exchanges)
          /\ \A i \in DOMAIN file.exchanges : file.exchanges[i].url = mem.exchanges[i].url
      <4>1. HasExchanges(file) /\ HasExchanges(mem)
        BY <2>3, <1>1 DEF IsBundle
      <4>2. DOMAIN file.exchanges = 1..Len(mem.exchanges)
        BY <4>1, SeqIsFunction DEF HasExchanges
      <4>3. QED
        BY <4>1, <4>2, <1>4, CodingHasUrl DEF HasExchanges
    <3>2. ToSet(file.vouched) \subseteq ToSet(mem.vouched)
      <4>1. IsSeq(file.vouched) /\ IsSeq(mem.vouched) /\ IsPrefix(file.vouched, mem.vouched)
        BY <2>1, <2>3, <1>1 DEF IsBundle, HasSignatures, Keeps
      <4>2. Len(file.vouched) <= Len(mem.vouched) /\ \A i \in 1..Len(file.vouched) : file.vouched[i] = mem.vouched[i]
        BY <4>1, PrefixesAgree
      <4>3. \A i \in 1..Len(file.vouched) : i \in 1..Len(mem.vouched)
        BY <4>1, <4>2, SeqIsFunction
      <4>4. QED
        BY <4>1, <4>2, <4>3, SeqIsFunction
    <3>3. ~ Covers(file, n)
      BY <3>1, <3>2, <1>10 DEF Covers
    <3>4. QED
      BY <2>1, <3>1, <3>3, <1>3, <1>8 DEF Keeps
  <2>4. QED
    BY <2>2, <2>3 DEF BundlesInv
<1>14. BundlesInv'
  <2>1. (file = Unreadable \/ IsBundle(file))'
    BY DEF BundlesInv, IsBundle, HasExchanges, HasSignatures
  <2>2. QED
    BY <2>1, <1>12, <1>13 DEF BundlesInv
<1>15. QED
  BY <1>3, <1>14 DEF new

LEMMA AddExchangeInv ==
  ASSUME IInv, AddExchange
  PROVE  IInv'
<1> DEFINE n == run.next
           e == WithIntegrity(mem.exchanges[n], run.size)
           again == \E h \in run.hashes : h.url = e.url
<1>1. /\ run.phase = "adding" /\ n <= Len(mem.exchanges)
      /\ CanSignFor(run.signer, e.url) /\ HasNoDigest(mem.exchanges[n])
      /\ mem' = [mem EXCEPT !.exchanges[n] = WithIntegrity(mem.exchanges[n], run.size)]
      /\ UNCHANGED <<original, file, signings, client>>
  BY DEF AddExchange, CanSignForURL
<1>2. IF again THEN GiveUp
      ELSE run' = [run EXCEPT !.next = @ + 1, !.hashes = @ \cup {ResourceIntegrity(e)}]
  BY DEF AddExchange
<1>3. /\ run = [phase |-> "adding", used |-> run.used, signer |-> run.signer,
                size |-> run.size, next |-> n, hashes |-> run.hashes]
      /\ run.signer \in Signers /\ ChainIsValid(run.signer.chain)
      /\ run.used \in 0..MaxSigners /\ run.size \in RecordSizes
      /\ n \in 1..(Len(mem.exchanges) + 1)
      /\ AreAdded(Added) /\ run.hashes = {ResourceIntegrity(f) : f \in Added}
  BY <1>1 DEF IInv, RunInv
<1>4. Len(mem.exchanges) \in Nat /\ IsCodingOf(mem.exchanges[n], original.exchanges[n])
  BY <1>1, <1>3, MemExchanges DEF IInv
<1>5. n \in 1..Len(mem.exchanges)
  BY <1>1, <1>3, <1>4
<1>6. /\ BundlesInv' /\ Len(mem'.exchanges) = Len(mem.exchanges)
      /\ mem'.exchanges[n] = e
      /\ \A j \in 1..Len(mem.exchanges) : j # n => mem'.exchanges[j] = mem.exchanges[j]
  BY <1>1, <1>3, <1>5, CodingKeepsBundles DEF IInv
<1>7. /\ e.body = e.header.digest /\ e.body.size # 0
      /\ e.body = [payload |-> e.body.payload, size |-> e.body.size]
  BY <1>3, <1>4, CodedExchange
<1>8. SigningsInv' /\ ClientInv'
  BY <1>1, SigningsUnchanged, ClientUnchanged DEF IInv
<1> HIDE DEF e
<1>9. CASE again
  BY <1>2, <1>6, <1>8, <1>9, RunEnds DEF IInv
<1>10. CASE ~ again
  <2> DEFINE hashes == run.hashes \cup {ResourceIntegrity(e)}
  <2>1. run' = [phase |-> "adding", used |-> run.used, signer |-> run.signer,
                size |-> run.size, next |-> n + 1, hashes |-> hashes]
    <3>1. run' = [run EXCEPT !.next = n + 1, !.hashes = hashes]
      BY <1>2, <1>10
    <3> HIDE DEF hashes
    <3>2. run = [phase |-> run.phase, used |-> run.used, signer |-> run.signer,
                 size |-> run.size, next |-> run.next, hashes |-> run.hashes]
          /\ run.phase = "adding"
      BY <1>3
    <3> DEFINE k == n + 1
    <3> HIDE DEF k
    <3>3. run' = [run EXCEPT !.next = k, !.hashes = hashes]
      BY <3>1 DEF k
    <3>4. run' = [phase |-> run.phase, used |-> run.used, signer |-> run.signer,
                  size |-> run.size, next |-> k, hashes |-> hashes]
      BY ONLY <3>2, <3>3
    <3>5. QED
      BY <3>2, <3>4 DEF k
  <2>2. Added' = Added \cup {e}
    <3> DEFINE I == {j \in 1..(n - 1) : CanSignFor(run.signer, mem.exchanges[j].url)}
               J == {j \in 1..((n + 1) - 1) : CanSignFor(run.signer, mem'.exchanges[j].url)}
    <3>1. J = I \cup {n}
      BY <1>1, <1>4, <1>5, <1>6
    <3>2. \A j \in I : mem'.exchanges[j] = mem.exchanges[j]
      BY <1>4, <1>5, <1>6
    <3>3. Added = {mem.exchanges[j] : j \in I}
      BY DEF Added
    <3>4. Added' = {mem'.exchanges[j] : j \in J}
      BY <2>1 DEF Added
    <3> HIDE DEF I, J
    <3>5. QED
      BY <3>1, <3>2, <3>3, <3>4, <1>6
  <2>3. AreAdded(Added \cup {e})
    <3>1. \A f \in Added : f.url # e.url
      BY <1>3, <1>10 DEF ResourceIntegrity
    <3>2. QED
      BY <3>1, <1>3, <1>7 DEF AreAdded
  <2>4. hashes = {ResourceIntegrity(f) : f \in Added \cup {e}}
    BY <1>3
  <2>5. n + 1 \in 1..(Len(mem.exchanges) + 1)
    BY <1>4, <1>5
  <2> HIDE DEF hashes
  <2>6. /\ run'.phase = "adding" /\ run'.used = run.used /\ run'.signer = run.signer
        /\ run'.size = run.size /\ run'.next = n + 1 /\ run'.hashes = hashes
    BY <2>1
  <2>7. RunInv'
    <3>1. AreAdded(Added)' /\ run'.hashes = {ResourceIntegrity(f) : f \in Added'}
      <4>1. AreAdded(Added')
        BY <2>2, <2>3
      <4>2. QED
        BY <4>1, <2>2, <2>4, <2>6 DEF AreAdded
    <3>2. QED
      BY <1>3, <1>6, <2>1, <2>5, <2>6, <3>1 DEF RunInv
  <2>8. QED
    BY <1>6, <1>8, <2>7 DEF IInv
<1>11. QED
  BY <1>9, <1>10

LEMMA PrefixesGrow ==
  ASSUME NEW s, IsSeq(s), NEW t, IsSeq(t), NEW u, IsSeq(u), IsPrefix(s, t),
         Len(t) <= Len(u), \A i \in 1..Len(t) : u[i] = t[i]
  PROVE  IsPrefix(s, u)
<1>1. Len(s) \in Nat /\ Len(t) \in Nat /\ Len(u) \in Nat
  BY SeqIsFunction
<1>2. Len(s) <= Len(t) /\ \A i \in 1..Len(s) : s[i] = t[i]
  BY PrefixesAgree
<1>3. Len(s) <= Len(u)
  BY <1>1, <1>2
<1>4. \A i \in 1..Len(s) : i \in 1..Len(t)
  BY <1>1, <1>2
<1>5. \A i \in 1..Len(s) : s[i] = u[i]
  BY <1>2, <1>4
<1>6. QED
  BY <1>3, <1>5, PrefixesAgree

LEMMA MadeForGrows ==
  ASSUME NEW b, IsSeq(b.authorities), NEW certs, IsSeq(certs),
         NEW c, c.authorities = b.authorities \o certs, NEW v, NEW s, MadeFor(v, b, s)
  PROVE  MadeFor(v, c, s)
<1> DEFINE n == Len(b.authorities)
           m == Len(certs)
           k == v.authority
<1>1. n \in Nat /\ m \in Nat
  BY SeqIsFunction
<1>2. Len(c.authorities) = n + m /\ \A i \in 1..n : c.authorities[i] = b.authorities[i]
  BY ConcatIsSeq
<1>3. /\ v = [authority |-> k, sig |-> s.sig, signed |-> s.sig.of.signed]
      /\ k \in 0..(n - 1) /\ b.authorities[k + 1] = s.signer.chain[1].cert
  BY DEF MadeFor
<1> HIDE DEF n, m, k
<1>4. k + 1 \in 1..n /\ k \in 0..(n + m - 1)
  BY <1>1, <1>3
<1>5. c.authorities[k + 1] = s.signer.chain[1].cert
  BY <1>2, <1>3, <1>4
<1>6. QED
  BY <1>2, <1>3, <1>4, <1>5 DEF MadeFor, k

LEMMA CertsOfAChain ==
  ASSUME NEW s \in Signers, ChainIsValid(s.chain)
  PROVE  LET certs == [i \in DOMAIN s.chain |-> s.chain[i].cert]
         IN  /\ IsSeq(certs) /\ Len(certs) \in Nat \ {0}
             /\ certs[1] = s.chain[1].cert
<1> DEFINE certs == [i \in DOMAIN s.chain |-> s.chain[i].cert]
<1>1. IsSeq(s.chain) /\ s.chain # <<>>
  BY BundleSignatureAssumption DEF IsSeq, ChainIsValid
<1>2. DOMAIN s.chain = 1..Len(s.chain) /\ Len(s.chain) \in Nat \ {0}
  BY <1>1, EmptyIsSeq DEF IsSeq
<1>3. certs \in [1..Len(s.chain) -> ToSet(certs)]
  BY <1>2 DEF ToSet
<1>4. certs \in Seq(ToSet(certs))
  BY <1>2, <1>3, SeqDef
<1>5. Len(certs) = Len(s.chain) /\ certs[1] = s.chain[1].cert
  BY <1>2, <1>3, <1>4
<1>6. QED
  BY <1>2, <1>4, <1>5 DEF IsSeq

(* A signer who is through with the bundle signs all exchanges that its    *)
(* certificate is for, as they are.                                        *)
LEMMA AllAreAdded ==
  ASSUME BundlesInv, RunInv, run.phase = "adding", run.next > Len(mem.exchanges)
  PROVE  /\ Added = {e \in ToSet(mem.exchanges) : CanSignFor(run.signer, e.url)}
         /\ Added = {e \in ToSet(mem.exchanges) : \E h \in run.hashes : h.url = e.url}
         /\ \A h \in run.hashes : \A i \in DOMAIN mem.exchanges :
              mem.exchanges[i].url = h.url => SignedAs(mem.exchanges[i], h)
<1>1. /\ DOMAIN mem.exchanges = 1..Len(mem.exchanges) /\ Len(mem.exchanges) \in Nat
  BY MemExchanges
<1>2. run.next - 1 = Len(mem.exchanges)
  BY <1>1 DEF RunInv
<1>3. Added = {e \in ToSet(mem.exchanges) : CanSignFor(run.signer, e.url)}
  BY <1>1, <1>2 DEF Added, ToSet
<1>4. AreAdded(Added) /\ run.hashes = {ResourceIntegrity(e) : e \in Added}
  BY DEF RunInv
<1>5. \A e : ResourceIntegrity(e).url = e.url
  BY DEF ResourceIntegrity
<1>6. \A e, f : e.url = f.url => (CanSignFor(run.signer, e.url) <=> CanSignFor(run.signer, f.url))
  BY DEF CanSignFor
<1>7. \A e \in ToSet(mem.exchanges) : \A f \in Added : e.url = f.url => e = f
  BY <1>3, <1>4, <1>6 DEF AreAdded
<1>8. Added = {e \in ToSet(mem.exchanges) : \E h \in run.hashes : h.url = e.url}
  BY <1>3, <1>4, <1>5, <1>7
<1>9. ASSUME NEW h \in run.hashes, NEW i \in DOMAIN mem.exchanges, mem.exchanges[i].url = h.url
      PROVE  SignedAs(mem.exchanges[i], h)
  <2>1. PICK e \in Added : h = ResourceIntegrity(e)
    BY <1>4
  <2>2. mem.exchanges[i] = e
    BY <1>5, <1>7, <1>9, <2>1 DEF ToSet
  <2>3. e.body = e.header.digest /\ e.body.size # 0
    BY <1>4 DEF AreAdded
  <2>4. QED
    BY <2>1, <2>2, <2>3 DEF SignedAs
<1>10. QED
  BY <1>3, <1>8, <1>9

(* More certificates, and perhaps one more subset, for the certificate     *)
(* that comes next.                                                        *)
LEMMA GrowingKeepsBundles ==
  ASSUME BundlesInv, UNCHANGED <<original, file>>, signings \subseteq signings',
         NEW certs, IsSeq(certs), NEW more,
         mem' = [version |-> original.version, exchanges |-> mem.exchanges,
                 authorities |-> mem.authorities \o certs, vouched |-> more],
         IsSeq(more), IsPrefix(mem.vouched, more),
         \A v \in ToSet(more) \ ToSet(mem.vouched) :
           /\ \E s \in signings' : MadeFor(v, mem', s)
           /\ \A h \in v.signed.subsetHashes : \A i \in DOMAIN mem.exchanges :
                mem.exchanges[i].url = h.url => SignedAs(mem.exchanges[i], h)
  PROVE  BundlesInv'
<1>1. /\ mem'.exchanges = mem.exchanges /\ mem'.vouched = more
      /\ mem'.authorities = mem.authorities \o certs
  OBVIOUS
<1>2. HasExchanges(mem) /\ HasSignatures(mem) /\ Intact(mem)
  BY DEF BundlesInv, IsBundle
<1>3. HasExchanges(mem)'
  BY <1>1, <1>2 DEF HasExchanges
<1>4. HasSignatures(mem)'
  <2>1. IsSeq(mem'.authorities) /\ IsSeq(mem'.vouched)
    BY <1>1, <1>2, ConcatIsSeq DEF HasSignatures
  <2>2. ASSUME NEW v \in ToSet(more)
        PROVE  \E s \in signings' : MadeFor(v, mem', s)
    <3>1. CASE v \in ToSet(mem.vouched)
      <4>1. PICK s \in signings : MadeFor(v, mem, s)
        BY <1>2, <3>1 DEF HasSignatures
      <4>2. MadeFor(v, mem', s)
        BY <4>1, <1>1, <1>2, MadeForGrows DEF HasSignatures
      <4>3. QED
        BY <4>1, <4>2
    <3>2. QED
      BY <3>1
  <2>3. QED
    BY <1>1, <2>1, <2>2 DEF HasSignatures, MadeFor
<1>5. Intact(mem)'
  BY <1>1, <1>2 DEF Intact
<1>6. IsBundle(mem)'
  <2>1. mem' = [version |-> original.version, exchanges |-> mem'.exchanges,
                authorities |-> mem'.authorities, vouched |-> mem'.vouched]
    BY BundleParts
  <2>2. QED
    BY <2>1, <1>3, <1>4, <1>5 DEF IsBundle
<1>7. IsBundle(file) => IsBundle(file)'
  BY DEF IsBundle, HasExchanges, HasSignatures
<1>8. Keeps(file, mem)'
  <2>1. IsSeq(file.authorities) /\ IsSeq(file.vouched)
    BY EmptyIsSeq DEF BundlesInv, IsBundle, HasSignatures, Unreadable
  <2>2. IsSeq(mem.authorities) /\ IsSeq(mem.vouched)
    BY <1>2 DEF HasSignatures
  <2>3. /\ IsPrefix(file.authorities, mem.authorities) /\ IsPrefix(file.vouched, mem.vouched)
        /\ Keeps(file, mem)
    BY DEF BundlesInv, Keeps
  <2>4. IsPrefix(file.authorities, mem.authorities \o certs)
    <3>1. /\ IsSeq(mem.authorities \o certs)
          /\ Len(mem.authorities) <= Len(mem.authorities \o certs)
          /\ \A i \in 1..Len(mem.authorities) : (mem.authorities \o certs)[i] = mem.authorities[i]
      <4>1. Len(mem.authorities) \in Nat /\ Len(certs) \in Nat
        BY <2>2, SeqIsFunction
      <4>2. /\ IsSeq(mem.authorities \o certs)
            /\ Len(mem.authorities \o certs) = Len(mem.authorities) + Len(certs)
            /\ \A i \in 1..Len(mem.authorities) : (mem.authorities \o certs)[i] = mem.authorities[i]
        BY <2>2, ConcatIsSeq
      <4>3. QED
        BY <4>1, <4>2
    <3>2. QED
      BY <2>1, <2>2, <2>3, <3>1, PrefixesGrow
  <2>5. IsPrefix(file.vouched, more)
    <3>1. Len(mem.vouched) <= Len(more) /\ \A i \in 1..Len(mem.vouched) : more[i] = mem.vouched[i]
      BY <2>2, PrefixesAgree
    <3>2. QED
      BY <2>1, <2>2, <2>3, <3>1, PrefixesGrow
  <2>6. QED
    BY <1>1, <2>3, <2>4, <2>5 DEF Keeps, Covers
<1>9. QED
  BY <1>6, <1>7, <1>8 DEF BundlesInv

LEMMA UpdateSignaturesInv ==
  ASSUME IInv, UpdateSignatures
  PROVE  IInv'
<1> DEFINE certs == [i \in DOMAIN run.signer.chain |-> run.signer.chain[i].cert]
           signed == SignedSubset(run)
           sig == [key |-> run.signer.key, of |-> SignedMessage(signed, mem.version)]
           vouched == [authority |-> AuthorityIndex(mem.authorities, certs),
                       sig |-> sig, signed |-> signed]
           covered == {e \in ToSet(mem.exchanges) : \E h \in run.hashes : h.url = e.url}
           signing == [signer |-> run.signer, sig |-> sig, covered |-> covered]
           grown == mem.authorities \o certs
           more == Append(mem.vouched, vouched)
<1>1. /\ run.phase = "adding" /\ run.next > Len(mem.exchanges)
      /\ GiveUp /\ UNCHANGED <<original, file, client>>
  BY DEF UpdateSignatures
<1>2. IF run.signer.key \in SupportedKeys
      THEN /\ mem' = [mem EXCEPT !.authorities = grown, !.vouched = more]
           /\ signings' = signings \cup {signing}
      ELSE /\ mem' = IF mem.authorities = <<>> THEN mem ELSE [mem EXCEPT !.authorities = grown]
           /\ UNCHANGED signings
  BY DEF UpdateSignatures
<1>3. /\ run.signer \in Signers /\ ChainIsValid(run.signer.chain)
      /\ AreAdded(Added) /\ run.hashes = {ResourceIntegrity(e) : e \in Added}
  BY <1>1 DEF IInv, RunInv
<1>4. /\ IsSeq(certs) /\ Len(certs) \in Nat \ {0}
      /\ certs[1] = run.signer.chain[1].cert
  BY <1>3, CertsOfAChain
<1>5. /\ mem = [version |-> original.version, exchanges |-> mem.exchanges,
                authorities |-> mem.authorities, vouched |-> mem.vouched]
      /\ mem.version = original.version
      /\ HasSignatures(mem) /\ HasExchanges(mem)
      /\ IsSeq(mem.authorities) /\ IsSeq(mem.vouched)
  BY DEF IInv, BundlesInv, IsBundle, HasSignatures
<1>6. /\ Added = {e \in ToSet(mem.exchanges) : CanSignFor(run.signer, e.url)}
      /\ Added = covered
      /\ \A h \in run.hashes : \A i \in DOMAIN mem.exchanges :
           mem.exchanges[i].url = h.url => SignedAs(mem.exchanges[i], h)
  BY <1>1, AllAreAdded DEF IInv
<1>7. RunInv' /\ signings \subseteq signings'
  BY <1>1, <1>2, RunEnds DEF IInv
<1>8. ClientInv'
  BY <1>1, <1>7, ClientUnchanged DEF IInv
<1>9. vouched.authority = Len(mem.authorities) /\ vouched.sig = signing.sig
      /\ vouched.signed = signing.sig.of.signed /\ signing.signer = run.signer
  BY DEF AuthorityIndex, SignedMessage
<1>10. vouched = [authority |-> vouched.authority, sig |-> signing.sig, signed |-> signing.sig.of.signed]
  BY <1>9
<1>11. vouched.signed.subsetHashes = run.hashes
  BY DEF SignedSubset
<1>12. ASSUME run.signer.key \in SupportedKeys
       PROVE  IsSigning(signing)
  <2>1. signing.sig = [key |-> run.signer.key,
                       of |-> SignedMessage(signing.sig.of.signed, original.version)]
    BY <1>5 DEF SignedMessage
  <2>2. signing.sig.of.signed =
          [authSha256 |-> run.signer.chain[1].cert, date |-> run.signer.date,
           expires |-> run.signer.expires, subsetHashes |-> run.hashes]
    BY DEF SignedMessage, SignedSubset
  <2>3. signing.signer = run.signer /\ signing.covered = Added
    BY <1>6
  <2>4. Urls = {e.url : e \in ToSet(mem.exchanges)}
    <3>1. /\ DOMAIN mem.exchanges = 1..Len(mem.exchanges)
          /\ \A i \in DOMAIN mem.exchanges : mem.exchanges[i].url = original.exchanges[i].url
      BY MemExchanges, CodingHasUrl DEF IInv
    <3>2. DOMAIN original.exchanges = 1..Len(mem.exchanges)
      BY <1>5, BundleSignatureAssumption DEF IInv, BundlesInv, HasExchanges
    <3>3. QED
      BY <3>1, <3>2 DEF Urls, ToSet
  <2>5. {e.url : e \in Added} = {u \in Urls : CanSignFor(run.signer, u)}
    BY <1>6, <2>4 DEF CanSignFor
  <2>6. QED
    BY <1>3, <1>12, <2>1, <2>2, <2>3, <2>5 DEF IsSigning
<1> HIDE DEF certs, signed, sig, vouched, covered, signing
<1>13. CASE run.signer.key \in SupportedKeys
  <2>1. mem' = [version |-> original.version, exchanges |-> mem.exchanges,
                authorities |-> grown, vouched |-> more]
    <3>1. mem' = [mem EXCEPT !.authorities = grown, !.vouched = more]
      BY <1>2, <1>13
    <3> HIDE DEF grown, more
    <3>2. QED
      BY ONLY <1>5, <3>1
  <2>2. signings' = signings \cup {signing}
    BY <1>2, <1>13
  <2>3. /\ IsSeq(more) /\ Len(more) = Len(mem.vouched) + 1
        /\ \A i \in 1..Len(mem.vouched) : more[i] = mem.vouched[i]
        /\ \A v : v \in ToSet(more) <=> v \in ToSet(mem.vouched) \/ v = vouched
    BY <1>5, AppendIsSeq
  <2>4. IsPrefix(mem.vouched, more)
    <3>1. Len(mem.vouched) \in Nat
      BY <1>5, SeqIsFunction
    <3> HIDE DEF more
    <3>2. QED
      BY <1>5, <2>3, <3>1, PrefixesAgree
  <2>5. MadeFor(vouched, mem', signing)
    <3>1. mem'.authorities = grown
      BY <2>1
    <3>2. /\ Len(mem.authorities) \in Nat
          /\ Len(grown) = Len(mem.authorities) + Len(certs)
          /\ grown[Len(mem.authorities) + 1] = certs[1]
      <4>1. Len(mem.authorities) \in Nat /\ 1 \in 1..Len(certs)
        BY <1>4, <1>5, SeqIsFunction
      <4>2. /\ Len(grown) = Len(mem.authorities) + Len(certs)
            /\ \A i \in 1..Len(certs) : grown[Len(mem.authorities) + i] = certs[i]
        BY <1>4, <1>5, ConcatIsSeq
      <4> HIDE DEF grown
      <4>3. QED
        BY <4>1, <4>2
    <3> HIDE DEF grown
    <3>3. vouched.authority \in 0..(Len(grown) - 1)
      BY <1>4, <1>9, <3>2
    <3>4. grown[vouched.authority + 1] = signing.signer.chain[1].cert
      BY <1>4, <1>9, <3>2
    <3>5. QED
      BY <1>10, <3>1, <3>3, <3>4 DEF MadeFor
  <2>6. BundlesInv'
    <3> HIDE DEF more
    <3>1. \A v \in ToSet(more) \ ToSet(mem.vouched) : v = vouched
      BY <2>3
    <3>2. signing \in signings'
      BY <2>2
    <3>3. QED
      BY <1>1, <1>4, <1>6, <1>7, <1>11, <2>1, <2>3, <2>4, <2>5, <3>1, <3>2,
         GrowingKeepsBundles DEF IInv
  <2>7. SigningsInv'
    <3>1. \A s : IsSigning(s) => IsSigning(s)'
      BY <1>1 DEF IsSigning, Urls
    <3>2. QED
      BY <1>12, <1>13, <2>2, <3>1 DEF IInv, SigningsInv
  <2>8. QED
    BY <1>7, <1>8, <2>6, <2>7 DEF IInv
<1>14. CASE run.signer.key \notin SupportedKeys
  <2>1. SigningsInv' /\ UNCHANGED signings
    BY <1>1, <1>2, <1>14, SigningsUnchanged DEF IInv
  <2>2. CASE mem' = mem
    BY <1>1, <1>7, <1>8, <2>1, <2>2, BundlesUnchanged DEF IInv
  <2>3. CASE mem' = [mem EXCEPT !.authorities = grown]
    <3>1. mem' = [version |-> original.version, exchanges |-> mem.exchanges,
                  authorities |-> grown, vouched |-> mem.vouched]
      <4> HIDE DEF grown
      <4>1. QED
        BY ONLY <1>5, <2>3
    <3>2. IsPrefix(mem.vouched, mem.vouched)
      BY <1>5, PrefixesAgree, SeqIsFunction
    <3>3. BundlesInv'
      BY <1>1, <1>4, <1>5, <1>7, <3>1, <3>2, GrowingKeepsBundles DEF IInv
    <3>4. QED
      BY <1>7, <1>8, <2>1, <3>3 DEF IInv
  <2>4. QED
    BY <1>2, <1>14, <2>2, <2>3
<1>15. QED
  BY <1>13, <1>14

-----------------------------------------------------------------------------
(* Writing the bundle, and reading it back.                                *)

LEMMA LostEnd ==
  ASSUME NEW o, NEW e, IsCodingOf(e, o)
  PROVE  LET c == [e EXCEPT !.body.payload = Zeros]
         IN  /\ IsCodingOf(c, o) /\ c.url = e.url
             /\ c.body.payload = Zeros
             /\ \A h : SignedAs(e, h) => SignedAs(c, h)
<1> DEFINE c == [e EXCEPT !.body.payload = Zeros]
           d == e.header.digest
           p == e.body.payload
           z == e.body.size
           b == [payload |-> Zeros, size |-> z]
<1>1. e = [url |-> o.url, header |-> [fields |-> o.header.fields, digest |-> d],
           body |-> [payload |-> p, size |-> z]]
  BY DEF IsCodingOf
<1>2. z \in {0} \cup RecordSizes
  BY DEF IsCodingOf
<1> HIDE DEF d, p, z
<1>3. e.url = o.url /\ e.header = [fields |-> o.header.fields, digest |-> d]
      /\ e.body = [payload |-> p, size |-> z]
  BY <1>1
<1>4. [e.body EXCEPT !.payload = Zeros] = b
  BY <1>3
<1>5. c = [e EXCEPT !.body = b]
  BY <1>4
<1>6. b.payload = Zeros /\ b.size = z /\ b = [payload |-> b.payload, size |-> b.size]
  OBVIOUS
<1> HIDE DEF b, c
<1>7. c = [url |-> o.url, header |-> [fields |-> o.header.fields, digest |-> d], body |-> b]
  BY <1>1, <1>5
<1>8. c.url = o.url /\ c.header = e.header /\ c.header.digest = d /\ c.body = b
  BY <1>3, <1>7
<1>9. IsCodingOf(c, o)
  BY <1>2, <1>6, <1>7, <1>8 DEF IsCodingOf
<1>10. \A h : SignedAs(e, h) => SignedAs(c, h)
  BY <1>3, <1>6, <1>8 DEF SignedAs, ResourceIntegrity
<1>11. QED
  BY <1>3, <1>6, <1>8, <1>9, <1>10 DEF c

(* A bundle that is written, however far, and can be read, keeps what the  *)
(* bundle in memory keeps.                                                 *)
LEMMA WrittenBundle ==
  ASSUME BundlesInv, NEW c \in {mem} \cup CutShort(mem), c # Unreadable
  PROVE  IsBundle(c) /\ Keeps(c, mem) /\ Keeps(file, c)
<1> DEFINE n == Len(mem.exchanges)
           last == [mem.exchanges[n] EXCEPT !.body.payload = Zeros]
           cut == [mem.exchanges EXCEPT ![n] = last]
<1>1. /\ mem = [version |-> original.version, exchanges |-> mem.exchanges,
                authorities |-> mem.authorities, vouched |-> mem.vouched]
      /\ IsBundle(mem) /\ Keeps(file, mem)
      /\ HasExchanges(mem) /\ HasSignatures(mem) /\ Intact(mem)
      /\ IsSeq(mem.authorities) /\ IsSeq(mem.vouched)
  BY DEF BundlesInv, IsBundle, HasSignatures
<1>2. CASE c = mem
  BY <1>1, <1>2, KeepsItself
<1>3. CASE c = [mem EXCEPT !.exchanges = cut]
  <2>1. /\ IsSeq(mem.exchanges) /\ n \in Nat /\ DOMAIN mem.exchanges = 1..n
        /\ \A i \in 1..n : IsCodingOf(mem.exchanges[i], original.exchanges[i])
    BY MemExchanges
  <2>2. /\ IsSeq(cut) /\ Len(cut) = n
        /\ n \in 1..n => cut[n] = last
        /\ \A j \in 1..n : j # n => cut[j] = mem.exchanges[j]
    <3> HIDE DEF last, n
    <3>1. IsReplaced(mem.exchanges, n, last, cut)
      BY <2>1, ExceptIsSeq
    <3> HIDE DEF cut
    <3>2. QED
      BY ONLY <3>1 DEF IsReplaced, n
  <2>3. DOMAIN cut = 1..n
    <3> HIDE DEF cut, n
    <3>1. QED
      BY ONLY <2>2, SeqIsFunction
  <2>4. n \in 1..n => /\ IsCodingOf(last, original.exchanges[n])
                      /\ last.url = mem.exchanges[n].url /\ last.body.payload = Zeros
                      /\ \A h : SignedAs(mem.exchanges[n], h) => SignedAs(last, h)
    BY <2>1, LostEnd
  <2> HIDE DEF last, cut
  <2>5. c = [version |-> original.version, exchanges |-> cut,
             authorities |-> mem.authorities, vouched |-> mem.vouched]
    BY ONLY <1>1, <1>3
  <2>6. /\ c.exchanges = cut /\ c.authorities = mem.authorities /\ c.vouched = mem.vouched
        /\ c = [version |-> original.version, exchanges |-> c.exchanges,
                authorities |-> c.authorities, vouched |-> c.vouched]
    BY <2>5, BundleParts
  <2>7. ASSUME NEW i \in 1..n
        PROVE  /\ IsCodingOf(cut[i], original.exchanges[i])
               /\ cut[i].url = mem.exchanges[i].url
               /\ cut[i] = mem.exchanges[i] \/ cut[i].body.payload = Zeros
               /\ \A h : SignedAs(mem.exchanges[i], h) => SignedAs(cut[i], h)
    BY <2>1, <2>2, <2>4
  <2>8. HasExchanges(c)
    BY <1>1, <2>2, <2>3, <2>6, <2>7 DEF HasExchanges
  <2>9. HasSignatures(c)
    BY <1>1, <2>6 DEF HasSignatures, MadeFor
  <2>10. Intact(c)
    BY <1>1, <2>1, <2>3, <2>6, <2>7 DEF Intact
  <2>11. Keeps(c, mem)
    <3>1. IsPrefix(mem.authorities, mem.authorities) /\ IsPrefix(mem.vouched, mem.vouched)
      BY <1>1, KeepsItself DEF Keeps
    <3>2. QED
      BY <2>3, <2>6, <2>7, <3>1 DEF Keeps
  <2>12. Keeps(file, c)
    <3>1. DOMAIN file.exchanges \subseteq 1..n
      <4>1. file = Unreadable => DOMAIN file.exchanges = {}
        BY DEF Unreadable
      <4>2. IsBundle(file) => DOMAIN file.exchanges = 1..n
        BY <1>1, SeqIsFunction DEF IsBundle, HasExchanges
      <4>3. QED
        BY <4>1, <4>2 DEF BundlesInv
    <3>2. QED
      BY <1>1, <2>6, <2>7, <3>1 DEF Keeps
  <2>13. QED
    BY <2>6, <2>8, <2>9, <2>10, <2>11, <2>12 DEF IsBundle
<1>4. QED
  BY <1>2, <1>3 DEF CutShort

LEMMA SaveInv ==
  ASSUME IInv, Save
  PROVE  IInv'
<1> USE DEF Save
<1>1. RunInv' /\ SigningsInv' /\ ClientInv'
  BY RunUnchanged, SigningsUnchanged, ClientUnchanged DEF IInv
<1>2. IsBundle(mem) /\ IsBundle(mem)' /\ original \in Originals
  BY DEF IInv, BundlesInv, IsBundle, HasExchanges, HasSignatures
<1>3. CASE file' = Unreadable
  <2>1. IsPrefix(<<>>, mem.authorities) /\ IsPrefix(<<>>, mem.vouched)
    <3>1. IsSeq(mem.authorities) /\ IsSeq(mem.vouched)
      BY <1>2 DEF IsBundle, HasSignatures
    <3>2. Len(mem.authorities) \in Nat /\ Len(mem.vouched) \in Nat
      BY <3>1, SeqIsFunction
    <3>3. QED
      BY <3>1, <3>2, EmptyIsSeq, PrefixesAgree
  <2>2. file'.authorities = <<>> /\ file'.vouched = <<>> /\ DOMAIN file'.exchanges = {}
    BY <1>3 DEF Unreadable
  <2>3. Keeps(file, mem)'
    BY <2>1, <2>2 DEF Keeps
  <2>4. QED
    BY <1>1, <1>2, <1>3, <2>3 DEF IInv, BundlesInv, Unreadable
<1>4. CASE file' # Unreadable
  <2>1. \A c \in {mem} \cup CutShort(mem) : c # Unreadable => IsBundle(c) /\ Keeps(c, mem)
    BY WrittenBundle DEF IInv
  <2>2. IsBundle(file') /\ Keeps(file', mem)
    BY <1>4, <2>1
  <2>3. IsBundle(file)'
    BY <2>2 DEF IsBundle, HasExchanges, HasSignatures, Intact, MadeFor
  <2>4. Keeps(file, mem)'
    BY <2>2 DEF Keeps, Covers
  <2>5. QED
    BY <1>1, <1>2, <2>3, <2>4 DEF IInv, BundlesInv
<1>5. QED
  BY <1>3, <1>4

LEMMA LoadInv ==
  ASSUME IInv, Load
  PROVE  IInv'
<1> USE DEF Load
<1>1. RunInv' /\ SigningsInv' /\ ClientInv'
  BY SigningsUnchanged, ClientUnchanged DEF IInv, RunInv
<1>2. IsBundle(file) /\ IsBundle(file)' /\ original \in Originals
  BY DEF IInv, BundlesInv, IsBundle, HasExchanges, HasSignatures
<1>3. IsBundle(mem)' /\ Keeps(file, mem)'
  <2>1. Keeps(file, file)
    BY <1>2, KeepsItself DEF IsBundle, HasSignatures
  <2>2. QED
    BY <1>2, <2>1 DEF Keeps, Covers, IsBundle, HasExchanges, HasSignatures, Intact, MadeFor
<1>4. QED
  BY <1>1, <1>2, <1>3 DEF IInv, BundlesInv

-----------------------------------------------------------------------------
(* The client.                                                             *)

LEMMA RemovalIsSeq ==
  ASSUME NEW s, IsSeq(s), NEW v \in DOMAIN s
  PROVE  IsSeq(RemoveAt(s, v)) /\ ToSet(RemoveAt(s, v)) \subseteq ToSet(s)
<1> DEFINE T == ToSet(s)
           p == SubSeq(s, 1, v - 1)
           q == SubSeq(s, v + 1, Len(s))
<1>1. s \in Seq(T) /\ v \in 1..Len(s) /\ Len(s) \in Nat
  BY SeqIsFunction DEF IsSeq
<1>2. p \in Seq(T) /\ q \in Seq(T)
  BY <1>1
<1>3. p \o q \in Seq(T)
  BY <1>2, ConcatProperties
<1>4. RemoveAt(s, v) \in Seq(T)
  BY <1>3 DEF RemoveAt
<1> HIDE DEF T
<1>5. \A r \in Seq(T) : IsSeq(r) /\ ToSet(r) \subseteq T
  BY SeqIsSeq, ElementOfSeq DEF ToSet
<1>6. QED
  BY <1>4, <1>5 DEF T

(* A change of one subset that leaves its signature.                       *)
LEMMA ChangedSubset ==
  ASSUME NEW s, IsSeq(s), NEW v \in DOMAIN s, NEW x, x.sig = s[v].sig
  PROVE  /\ IsSeq([s EXCEPT ![v] = x])
         /\ \A y \in ToSet([s EXCEPT ![v] = x]) : \E z \in ToSet(s) : y.sig = z.sig
<1> DEFINE t == [s EXCEPT ![v] = x]
<1>1. DOMAIN s = 1..Len(s)
  BY SeqIsFunction
<1>2. /\ IsSeq(t) /\ Len(t) = Len(s) /\ t[v] = x
      /\ \A j \in 1..Len(s) : j # v => t[j] = s[j]
  <2>1. IsReplaced(s, v, x, t)
    BY ExceptIsSeq
  <2> HIDE DEF t
  <2>2. QED
    BY <1>1, <2>1 DEF IsReplaced
<1> HIDE DEF t
<1>3. DOMAIN t = 1..Len(s)
  BY <1>2, SeqIsFunction
<1>4. \A y \in ToSet(t) : \E z \in ToSet(s) : y.sig = z.sig
  BY <1>1, <1>2, <1>3 DEF ToSet
<1>5. QED
  BY <1>2, <1>4 DEF t

LEMMA PartsOfChanged ==
  ASSUME NEW b, NEW v, NEW x, NEW a, NEW w, NEW y,
         b = [version |-> v, exchanges |-> x, authorities |-> a, vouched |-> w]
  PROVE  /\ [b EXCEPT !.version = y].vouched = w
         /\ [b EXCEPT !.exchanges = y].vouched = w
         /\ [b EXCEPT !.authorities = y].vouched = w
         /\ [b EXCEPT !.vouched = y].vouched = y
OBVIOUS

(* However the file is altered on its way, the signatures in it were made. *)
LEMMA AlteredIsSigned ==
  ASSUME IsBundle(file), NEW b \in {file} \cup Altered(file)
  PROVE  IsSigned(b)
<1> DEFINE V == DOMAIN file.vouched
           E == DOMAIN file.exchanges
<1>1. /\ IsSeq(file.vouched)
      /\ \A v \in ToSet(file.vouched) : \E s \in signings : MadeFor(v, file, s)
      /\ file = [version |-> original.version, exchanges |-> file.exchanges,
                 authorities |-> file.authorities, vouched |-> file.vouched]
  BY DEF IsBundle, HasSignatures
<1>2. \A v \in ToSet(file.vouched) : \E s \in signings :
        v = [authority |-> v.authority, sig |-> s.sig, signed |-> s.sig.of.signed]
  BY <1>1 DEF MadeFor
<1>3. \A v \in ToSet(file.vouched) : \E s \in signings : v.sig = s.sig
  BY <1>2
<1>4. ASSUME NEW i \in V, NEW y
      PROVE  /\ [file.vouched[i] EXCEPT !.authority = y].sig = file.vouched[i].sig
             /\ [file.vouched[i] EXCEPT !.signed = y].sig = file.vouched[i].sig
  BY <1>2 DEF ToSet
<1>5. CASE b.vouched = file.vouched
  BY <1>1, <1>3, <1>5 DEF IsSigned
<1>6. ASSUME NEW i \in V, NEW x, x.sig = file.vouched[i].sig,
             b.vouched = [file.vouched EXCEPT ![i] = x]
      PROVE  IsSigned(b)
  BY <1>1, <1>3, <1>6, ChangedSubset DEF IsSigned
<1>7. ASSUME NEW i \in V, b.vouched = RemoveAt(file.vouched, i)
      PROVE  IsSigned(b)
  BY <1>1, <1>3, <1>7, RemovalIsSeq DEF IsSigned
<1>8. CASE \E y : \/ b = [file EXCEPT !.version = y]
                  \/ b = [file EXCEPT !.exchanges = y]
                  \/ b = [file EXCEPT !.authorities = y]
  <2>1. b.vouched = file.vouched
    BY <1>1, <1>8, PartsOfChanged
  <2>2. QED
    BY <2>1, <1>5
<1>9. CASE \E i \in V : \E y : \/ b = [file EXCEPT !.vouched[i].authority = y]
                               \/ b = [file EXCEPT !.vouched[i].signed = y]
  <2>1. PICK i \in V : \E y : \/ b = [file EXCEPT !.vouched[i].authority = y]
                              \/ b = [file EXCEPT !.vouched[i].signed = y]
    BY <1>9
  <2>2. PICK x : /\ x.sig = file.vouched[i].sig
                 /\ b = [file EXCEPT !.vouched = [file.vouched EXCEPT ![i] = x]]
    BY <2>1, <1>4
  <2>3. b.vouched = [file.vouched EXCEPT ![i] = x]
    BY <1>1, <2>2, PartsOfChanged
  <2>4. QED
    BY <1>6, <2>2, <2>3
<1>10. CASE \E i \in V : b = [file EXCEPT !.vouched = RemoveAt(file.vouched, i)]
  <2>1. PICK i \in V : b.vouched = RemoveAt(file.vouched, i)
    BY <1>1, <1>10, PartsOfChanged
  <2>2. QED
    BY <1>7, <2>1
<1>11. QED
  <2>1. CASE b = file
    BY <1>5, <2>1
  <2>2. CASE b \in Altered(file)
    <3>1. ASSUME NEW i, NEW y, b = [file EXCEPT !.exchanges[i] = y]
          PROVE  IsSigned(b)
      BY <1>8, <3>1, Zenon
    <3>2. ASSUME NEW i, NEW y, b = [file EXCEPT !.authorities[i] = y]
          PROVE  IsSigned(b)
      BY <1>8, <3>2, Zenon
    <3>3. CASE b \in AlteredExchange(file)
      <4>1. \E i, y : b = [file EXCEPT !.exchanges[i] = y]
        BY <3>3 DEF AlteredExchange
      <4>2. QED
        BY <3>1, <4>1, Zenon
    <3>4. CASE b \in AlteredSubset(file)
      <4>1. \/ \E v \in V, a \in 0..Len(file.authorities) : b = [file EXCEPT !.vouched[v].authority = a]
            \/ \E v \in V, w \in V : b = [file EXCEPT !.vouched[v].signed = file.vouched[w].signed]
            \/ \E v \in V : b = [file EXCEPT !.vouched = RemoveAt(file.vouched, v)]
        BY <3>4 DEF AlteredSubset
      <4>2. QED
        BY <1>9, <1>10, <4>1, Zenon
    <3>5. CASE b \in AlteredRest(file)
      BY <1>8, <3>2, <3>5 DEF AlteredRest
    <3>6. QED
      BY <2>2, <3>3, <3>4, <3>5 DEF Altered
  <2>3. QED
    BY <2>1, <2>2

LEMMA ReceiveInv ==
  ASSUME IInv, NEW b \in {file} \cup (IF IsWhole(file) THEN Altered(file) ELSE {}), Receive(b)
  PROVE  IInv'
<1> USE DEF Receive
<1>1. BundlesInv' /\ RunInv' /\ SigningsInv'
  BY BundlesUnchanged, RunUnchanged, SigningsUnchanged DEF IInv
<1>2. IsBundle(file) /\ b \in {file} \cup Altered(file)
  BY DEF IInv, BundlesInv
<1>3. IsSigned(b)
  BY <1>2, AlteredIsSigned
<1>4. client'.phase = "received" /\ client'.bundle = b /\ signings' = signings
  OBVIOUS
<1>5. ClientInv'
  BY <1>3, <1>4 DEF ClientInv, IsSigned
<1>6. QED
  BY <1>1, <1>5 DEF IInv

LEMMA NewVerifierInv ==
  ASSUME IInv, NEW at \in Times, NewVerifier(at)
  PROVE  IInv'
<1> USE DEF NewVerifier
<1>1. BundlesInv' /\ RunInv' /\ SigningsInv'
  BY BundlesUnchanged, RunUnchanged, SigningsUnchanged DEF IInv
<1>2. client' = [phase |-> IF AllVerify(client.bundle, at) THEN "verifier" ELSE "refused",
                 bundle |-> client.bundle, at |-> at]
  BY DEF AllVerify
<1>3. /\ client'.bundle = client.bundle /\ client'.at = at
      /\ client'.phase = IF AllVerify(client.bundle, at) THEN "verifier" ELSE "refused"
  BY <1>2
<1>4. IsSigned(client.bundle) /\ signings' = signings
  BY DEF IInv, ClientInv
<1>5. ClientInv'
  BY <1>3, <1>4 DEF ClientInv, IsSigned, AllVerify
<1>6. QED
  BY <1>1, <1>5 DEF IInv

LEMMA VerifyExchangeInv ==
  ASSUME IInv, client.phase = "verifier",
         NEW i \in DOMAIN client.bundle.exchanges, VerifyExchange(i)
  PROVE  IInv'
<1> USE DEF VerifyExchange
<1>1. BundlesInv' /\ RunInv' /\ SigningsInv'
  BY BundlesUnchanged, RunUnchanged, SigningsUnchanged DEF IInv
<1>2. /\ client'.bundle = client.bundle /\ client'.at = client.at /\ client'.of = i
      /\ client'.phase = "answered"
      /\ client'.verdict = Verdict(client.bundle.exchanges[i], client.bundle)
  OBVIOUS
<1>3. IsSigned(client.bundle) /\ AllVerify(client.bundle, client.at) /\ signings' = signings
      /\ client.at \in Times
  BY DEF IInv, ClientInv
<1>4. ClientInv'
  <2>1. (client.verdict = Verdict(client.bundle.exchanges[client.of], client.bundle))'
    BY <1>2
  <2>2. QED
    BY <1>2, <1>3, <2>1 DEF ClientInv, IsSigned, AllVerify
<1>5. QED
  BY <1>1, <1>4 DEF IInv

LEMMA InvStep == IInv /\ [Next]_vars => IInv'
<1> SUFFICES ASSUME IInv, [Next]_vars PROVE IInv'
  OBVIOUS
<1>1. CASE UNCHANGED vars
  BY <1>1, BundlesUnchanged, RunUnchanged, SigningsUnchanged, ClientUnchanged DEF vars, IInv
<1>2. CASE Publish
  BY <1>2, NewSignerInv, SkipExchangeInv, RefuseExchangeInv, AddExchangeInv,
     UpdateSignaturesInv, SaveInv, LoadInv DEF Publish
<1>3. CASE Consume
  BY <1>3, ReceiveInv, NewVerifierInv, VerifyExchangeInv DEF Consume
<1>4. QED
  BY <1>1, <1>2, <1>3 DEF Next

(* The inductive invariant, which the theorems below rest on.              *)
THEOREM SigningInvariance == Spec => []IInv
<1>1. QED
  BY InitInv, InvStep, PTL DEF Spec

-----------------------------------------------------------------------------
(* What the invariant implies.                                             *)

LEMMA BundleType ==
  ASSUME NEW b, IsBundle(b)
  PROVE  /\ b.version = original.version
         /\ Len(b.exchanges) = Len(original.exchanges)
         /\ \A i \in DOMAIN b.exchanges :
              LET e == b.exchanges[i]
                  o == original.exchanges[i]
              IN  /\ e.url = o.url /\ e.header.fields = o.header.fields
                  /\ e.body.size \in {0} \cup RecordSizes
                  /\ e.body.payload \in {o.body.payload, Zeros}
         /\ \A v \in ToSet(b.vouched) : v.authority \in 0..(Len(b.authorities) - 1)
<1>1. b.version = original.version
  <2>1. ASSUME NEW x, NEW a, NEW w,
               b = [version |-> original.version, exchanges |-> x, authorities |-> a, vouched |-> w]
        PROVE  b.version = original.version
    BY <2>1
  <2>2. QED
    BY <2>1 DEF IsBundle
<1>2. HasExchanges(b) /\ HasSignatures(b)
  BY DEF IsBundle
<1>3. \A e, o : IsCodingOf(e, o) => /\ e.url = o.url /\ e.header.fields = o.header.fields
                                    /\ e.body.size \in {0} \cup RecordSizes
                                    /\ e.body.payload \in {o.body.payload, Zeros}
  BY CodingHasUrl DEF IsCodingOf
<1>4. \A v \in ToSet(b.vouched) : v.authority \in 0..(Len(b.authorities) - 1)
  BY <1>2 DEF HasSignatures, MadeFor
<1>5. QED
  BY <1>1, <1>2, <1>3, <1>4 DEF HasExchanges

(* The type invariant: the exchanges stay the original's but for their     *)
(* coding, however the steps of signers, writes and reads are put together.*)
THEOREM SigningTypeCorrectness == Spec => []TypeOK
<1>1. IInv => TypeOK
  <2> SUFFICES ASSUME IInv PROVE TypeOK
    OBVIOUS
  <2>1. original \in Originals /\ IsBundle(mem) /\ (file = Unreadable \/ IsBundle(file))
    BY DEF IInv, BundlesInv
  <2>2. \A b \in {file, mem} \ {Unreadable} : IsBundle(b)
    BY <2>1
  <2>3. run.phase = "adding" =>
          /\ run.next \in 1..(Len(mem.exchanges) + 1)
          /\ \A h1, h2 \in run.hashes : h1.url = h2.url => h1 = h2
    <3>1. \A e : ResourceIntegrity(e).url = e.url
      BY DEF ResourceIntegrity
    <3>2. QED
      BY <3>1 DEF IInv, RunInv, AreAdded
  <2>4. QED
    BY <2>1, <2>2, <2>3, BundleType DEF TypeOK, IInv, RunInv, ClientInv
<1>2. QED
  BY <1>1, SigningInvariance, PTL

(* A signing that succeeds covers what its certificate is for.             *)
THEOREM AllHostsAreSigned == Spec => []SignsAllOfItsHosts
<1>1. IInv => SignsAllOfItsHosts
  BY DEF IInv, SigningsInv, IsSigning, Urls, CanSignFor, SignsAllOfItsHosts
<1>2. QED
  BY <1>1, SigningInvariance, PTL

(* What is written keeps the signatures that were written before.          *)
THEOREM SignaturesAreKept == Spec => EarlierSigningsKept
<1> DEFINE Kept ==
      file' # Unreadable =>
        /\ IsPrefix(file.authorities, file'.authorities)
        /\ IsPrefix(file.vouched, file'.vouched)
        /\ \A i \in DOMAIN file.exchanges :
             (\E v \in ToSet(file.vouched) : \E h \in v.signed.subsetHashes :
                h.url = file.exchanges[i].url)
             => \/ file'.exchanges[i] = file.exchanges[i]
                \/ Zeros \in {file.exchanges[i].body.payload, file'.exchanges[i].body.payload}
<1>1. ASSUME IInv, [Next]_vars
      PROVE  [Kept]_file
  <2>1. CASE Save
    <3>1. file' # Unreadable => Keeps(file, file')
      BY <1>1, <2>1, WrittenBundle DEF IInv, Save
    <3>2. QED
      BY <3>1 DEF Keeps, Covers
  <2>2. CASE ~ Save
    BY <1>1, <2>2 DEF Next, Publish, Consume, vars, NewSigner, SkipExchange, RefuseExchange,
       AddExchange, UpdateSignatures, Load, Receive, NewVerifier, VerifyExchange
  <2>3. QED
    BY <2>1, <2>2
<1>2. QED
  BY <1>1, SigningInvariance, PTL DEF Spec, EarlierSigningsKept

-----------------------------------------------------------------------------
(* What a client concludes.                                                *)

IsOk(e, h) ==
  /\ h.headerSha256 = e.header
  /\ h.integrity = IntegrityIdentifier
  /\ e.header.digest # NoDigest
  /\ Decodes(e.body, e.header.digest)

(* The verdict is about the first subset that has a hash for the URL.      *)
LEMMA VerdictCases ==
  ASSUME NEW b, IsSeq(b.vouched), NEW e
  PROVE  \/ /\ Verdict(e, b) = [is |-> "uncovered"]
            /\ \A v \in ToSet(b.vouched) : \A h \in v.signed.subsetHashes : h.url # e.url
         \/ \E v \in ToSet(b.vouched) : \E h \in v.signed.subsetHashes :
              /\ h.url = e.url
              /\ Verdict(e, b) =
                   IF IsOk(e, h)
                   THEN [is |-> "verified", payload |-> e.body.payload,
                         authority |-> b.authorities[v.authority + 1]]
                   ELSE [is |-> "error"]
<1> DEFINE covering == {i \in DOMAIN b.vouched :
                          \E h \in b.vouched[i].signed.subsetHashes : h.url = e.url}
           v == b.vouched[Min(covering)]
           h == CHOOSE x \in v.signed.subsetHashes : x.url = e.url
<1>1. Verdict(e, b) =
        IF covering = {} THEN [is |-> "uncovered"]
        ELSE IF ~ IsOk(e, h) THEN [is |-> "error"]
        ELSE [is |-> "verified", payload |-> e.body.payload,
              authority |-> b.authorities[v.authority + 1]]
  BY DEF Verdict, IsOk
<1>2. CASE covering = {}
  BY <1>1, <1>2 DEF ToSet
<1>3. CASE covering # {}
  <2>1. covering \in SUBSET Nat
    BY SeqIsFunction
  <2>2. Min(covering) \in covering
    BY <1>3, <2>1, MinIsLeast
  <2>3. v \in ToSet(b.vouched) /\ \E x \in v.signed.subsetHashes : x.url = e.url
    BY <2>2 DEF ToSet
  <2> HIDE DEF covering, v
  <2>4. h \in v.signed.subsetHashes /\ h.url = e.url
    BY <2>3
  <2> HIDE DEF h
  <2>5. Verdict(e, b) = IF IsOk(e, h)
                        THEN [is |-> "verified", payload |-> e.body.payload,
                              authority |-> b.authorities[v.authority + 1]]
                        ELSE [is |-> "error"]
    BY <1>1, <1>3
  <2>6. QED
    BY <2>3, <2>4, <2>5
<1>4. QED
  BY <1>2, <1>3

(* The hash of an exchange tells its URL and its headers.                  *)
LEMMA HashTells ==
  ASSUME NEW c, NEW h, h = ResourceIntegrity(c)
  PROVE  h.url = c.url /\ h.headerSha256 = c.header /\ h.integrity = IntegrityIdentifier
BY DEF ResourceIntegrity

LEMMA IsASigning ==
  ASSUME SigningsInv, NEW s \in signings
  PROVE  /\ s.sig.key = s.signer.key /\ s.signer \in Signers /\ s.signer.key \in SupportedKeys
         /\ s.sig.of = SignedMessage(s.sig.of.signed, original.version)
         /\ s.sig.of.signed.authSha256 = s.signer.chain[1].cert
         /\ s.sig.of.signed.date = s.signer.date /\ s.sig.of.signed.expires = s.signer.expires
         /\ s.sig.of.signed.subsetHashes = {ResourceIntegrity(c) : c \in s.covered}
         /\ \A c \in s.covered : /\ c.body = c.header.digest /\ c.body.size # 0
                                 /\ c.body = [payload |-> c.body.payload, size |-> c.body.size]
                                 /\ CanSignFor(s.signer, c.url)
<1>1. IsSigning(s)
  BY DEF SigningsInv
<1> DEFINE g == s.sig.of.signed
<1>2. s.sig.key = s.signer.key /\ s.sig.of = SignedMessage(g, original.version)
  <2>1. ASSUME NEW x, s.sig = [key |-> s.signer.key, of |-> x]
        PROVE  s.sig.key = s.signer.key /\ s.sig.of = x
    BY <2>1
  <2>2. QED
    BY <1>1, <2>1 DEF IsSigning
<1>3. g = [authSha256 |-> s.signer.chain[1].cert, date |-> s.signer.date,
           expires |-> s.signer.expires, subsetHashes |-> {ResourceIntegrity(c) : c \in s.covered}]
  BY <1>1 DEF IsSigning
<1>4. /\ s.signer \in Signers /\ s.signer.key \in SupportedKeys /\ AreAdded(s.covered)
      /\ {c.url : c \in s.covered} = {u \in Urls : CanSignFor(s.signer, u)}
  BY <1>1 DEF IsSigning
<1>5. \A c \in s.covered : CanSignFor(s.signer, c.url)
  BY <1>4
<1>6. QED
  BY <1>2, <1>3, <1>4, <1>5 DEF AreAdded

(* Of a bundle altered in any of those ways, only what was signed for its  *)
(* URL, by a signer who has the certificate's key, passes for verified.    *)
THEOREM VerifiedIsSigned == Spec => []VerifiedMeansSigned
<1>1. IInv => VerifiedMeansSigned
  <2> SUFFICES ASSUME IInv, Answered("verified") PROVE VerifiedMeansSigned
    BY DEF VerifiedMeansSigned
  <2> DEFINE b == client.bundle
             e == b.exchanges[client.of]
             at == client.at
  <2>1. /\ IsSigned(b) /\ AllVerify(b, at)
        /\ client.verdict = Verdict(e, b) /\ client.verdict.is = "verified"
    BY DEF IInv, ClientInv, Answered
  <2>2. PICK v \in ToSet(b.vouched) : \E h \in v.signed.subsetHashes :
          /\ h.url = e.url /\ IsOk(e, h)
          /\ client.verdict = [is |-> "verified", payload |-> e.body.payload,
                               authority |-> b.authorities[v.authority + 1]]
    <3> HIDE DEF e, b
    <3>1. client.verdict # [is |-> "uncovered"] /\ client.verdict # [is |-> "error"]
      BY <2>1
    <3>2. QED
      BY <2>1, <3>1, VerdictCases DEF IsSigned
  <2>3. PICK h \in v.signed.subsetHashes :
          /\ h.url = e.url /\ IsOk(e, h)
          /\ client.verdict = [is |-> "verified", payload |-> e.body.payload,
                               authority |-> b.authorities[v.authority + 1]]
    BY <2>2
  <2> DEFINE cert == b.authorities[v.authority + 1]
  <2>4. client.verdict.payload = e.body.payload /\ client.verdict.authority = cert
    BY <2>3
  <2>5. /\ v.sig = [key |-> KeyOf[cert], of |-> SignedMessage(v.signed, b.version)]
        /\ v.signed.authSha256 = cert
        /\ v.signed.expires - v.signed.date <= SevenDays
        /\ v.signed.date <= at /\ at <= v.signed.expires
    BY <2>1 DEF AllVerify, VouchedSubsetVerifies, AuthorityMatches
  <2>6. v.sig.key = KeyOf[cert] /\ v.sig.of.signed = v.signed
    BY <2>5 DEF SignedMessage
  <2>7. PICK s \in signings : v.sig = s.sig
    BY <2>1 DEF IsSigned
  <2>8. SigningsInv
    BY DEF IInv
  <2>9. /\ s.signer.key = KeyOf[cert] /\ s.signer.chain[1].cert = cert
        /\ v.signed.date = s.signer.date /\ v.signed.expires = s.signer.expires
        /\ v.signed.subsetHashes = {ResourceIntegrity(c) : c \in s.covered}
    BY <2>5, <2>6, <2>7, <2>8, IsASigning
  <2>10. PICK c \in s.covered : h = ResourceIntegrity(c)
    BY <2>3, <2>9
  <2>11. c.url = e.url /\ c.header = e.header
    BY <2>3, <2>10, HashTells DEF IsOk
  <2>12. c.body.payload = e.body.payload
    <3>1. c.body = c.header.digest /\ e.body = e.header.digest
      BY <2>3, <2>8, IsASigning DEF IsOk, Decodes
    <3>2. QED
      BY <2>11, <3>1
  <2>13. HostOf[e.url] \in HostsOf[cert]
    BY <2>8, <2>9, <2>11, IsASigning DEF CanSignFor
  <2> HIDE DEF e, b, cert, at
  <2>14. \E x \in signings :
           /\ x.signer.chain[1].cert = cert /\ KeyOf[cert] = x.signer.key
           /\ HostOf[e.url] \in HostsOf[cert]
           /\ \E y \in x.covered : /\ y.url = e.url /\ y.header = e.header
                                   /\ y.body.payload = client.verdict.payload
           /\ at >= x.signer.date /\ at <= x.signer.expires
           /\ x.signer.expires - x.signer.date <= SevenDays
    <3>1. at >= s.signer.date /\ at <= s.signer.expires /\ s.signer.expires - s.signer.date <= SevenDays
      BY <2>5, <2>9
    <3>2. QED
      BY <2>4, <2>9, <2>11, <2>12, <2>13, <3>1
  <2>15. QED
    BY <2>4, <2>14 DEF VerifiedMeansSigned, e, b, at
<1>2. QED
  BY <1>1, SigningInvariance, PTL

(* A subset of a bundle that came as it was written verifies if the        *)
(* signing that made it holds.                                             *)
LEMMA VerifiesIfItHolds ==
  ASSUME SigningsInv, IsBundle(file), NEW v \in ToSet(file.vouched),
         NEW s \in signings, MadeBy(s, v), NEW at \in Times
  PROVE  VouchedSubsetVerifies(v, file, at) <=> SigningHolds(s, at)
<1> DEFINE cert == file.authorities[v.authority + 1]
           d == s.signer.date
           x == s.signer.expires
<1>1. HasSignatures(file) /\ file.version = original.version
  BY BundleType DEF IsBundle
<1>2. PICK t \in signings : MadeFor(v, file, t)
  BY <1>1 DEF HasSignatures
<1>3. /\ v.sig = t.sig /\ v.signed = t.sig.of.signed
      /\ v.authority \in 0..(Len(file.authorities) - 1)
      /\ cert = t.signer.chain[1].cert
  <2>1. v.sig = t.sig /\ v.signed = t.sig.of.signed
    <3>1. ASSUME NEW a, v = [authority |-> a, sig |-> t.sig, signed |-> t.sig.of.signed]
          PROVE  v.sig = t.sig /\ v.signed = t.sig.of.signed
      BY <3>1
    <3>2. QED
      BY <1>2, <3>1 DEF MadeFor
  <2>2. QED
    BY <1>2, <2>1 DEF MadeFor
<1>4. v.sig = s.sig /\ s.sig.of.signed = v.signed
  BY <1>3 DEF MadeBy
<1>5. cert = s.signer.chain[1].cert /\ v.signed.authSha256 = cert
  <2> HIDE DEF cert
  <2>1. t.sig.of.signed.authSha256 = t.signer.chain[1].cert
    BY <1>2, IsASigning
  <2>2. s.sig.of.signed.authSha256 = s.signer.chain[1].cert
    BY IsASigning
  <2>3. QED
    BY <1>3, <1>4, <2>1, <2>2
<1>6. /\ v.sig = [key |-> s.signer.key, of |-> SignedMessage(v.signed, file.version)]
      /\ s.signer.key \in SupportedKeys
      /\ v.signed.date = d /\ v.signed.expires = x
  <2>1. s.sig = [key |-> s.signer.key, of |-> SignedMessage(s.sig.of.signed, original.version)]
    BY DEF SigningsInv, IsSigning
  <2>2. v.sig = [key |-> s.signer.key, of |-> SignedMessage(v.signed, file.version)]
    BY <1>1, <1>4, <2>1
  <2>3. v.signed.date = d /\ v.signed.expires = x /\ s.signer.key \in SupportedKeys
    BY <1>4, IsASigning
  <2>4. QED
    BY <2>2, <2>3
<1>7. /\ d \in Int /\ x \in Int /\ at \in Int
      /\ Len(file.authorities) \in Nat /\ v.authority < Len(file.authorities)
  <2>1. d \in Int /\ x \in Int /\ at \in Int
    BY IsASigning, BundleSignatureAssumption
  <2>2. Len(file.authorities) \in Nat
    BY <1>1, SeqIsFunction DEF HasSignatures
  <2>3. QED
    BY <1>3, <2>1, <2>2
<1> HIDE DEF cert, d, x
<1>8. v.sig = [key |-> KeyOf[cert], of |-> SignedMessage(v.signed, file.version)]
        <=> s.signer.key = KeyOf[cert]
  <2>1. \A k, l, m : [key |-> k, of |-> m] = [key |-> l, of |-> m] => k = l
    OBVIOUS
  <2>2. QED
    BY <1>6, <2>1
<1>9. VouchedSubsetVerifies(v, file, at) <=>
        /\ s.signer.key = KeyOf[cert]
        /\ d >= 0 /\ x >= 0 /\ x - d <= SevenDays /\ d <= at /\ at <= x
  BY <1>5, <1>6, <1>7, <1>8 DEF VouchedSubsetVerifies, AuthorityMatches, cert
<1>10. SigningHolds(s, at) <=>
         /\ s.signer.key = KeyOf[cert]
         /\ 0 <= d /\ d <= at /\ at <= x /\ x - d <= SevenDays
  BY <1>5 DEF SigningHolds, d, x
<1>11. QED
  BY <1>7, <1>9, <1>10

(* A client of the bundle as it was written refuses it for a signing that  *)
(* does not hold, and for nothing else.                                    *)
THEOREM RefusalsHaveACause == Spec => []RefusedForACause
<1>1. IInv => RefusedForACause
  <2> SUFFICES ASSUME IInv, client.phase \in {"refused", "verifier"}, client.bundle = file
               PROVE  client.phase = "refused" <=>
                        \E v \in ToSet(file.vouched), s \in signings :
                          MadeBy(s, v) /\ ~ SigningHolds(s, client.at)
    BY DEF RefusedForACause
  <2>1. client.phase = "refused" <=> ~ AllVerify(file, client.at)
    BY DEF IInv, ClientInv
  <2>2. client.at \in Times /\ SigningsInv
    BY DEF IInv, ClientInv
  <2>3. CASE file = Unreadable
    <3>1. ToSet(file.vouched) = {}
      BY <2>3, EmptyIsSeq DEF Unreadable
    <3>2. QED
      BY <2>1, <3>1 DEF AllVerify
  <2>4. CASE IsBundle(file)
    <3>1. \A v \in ToSet(file.vouched) : \A s \in signings :
            MadeBy(s, v) => (VouchedSubsetVerifies(v, file, client.at) <=> SigningHolds(s, client.at))
      BY <2>2, <2>4, VerifiesIfItHolds
    <3>2. \A v \in ToSet(file.vouched) : \E s \in signings : MadeBy(s, v)
      <4>1. IsSigned(file)
        BY DEF IInv, ClientInv
      <4>2. QED
        BY <4>1 DEF IsSigned, MadeBy
    <3>3. QED
      BY <2>1, <3>1, <3>2 DEF AllVerify
  <2>5. QED
    BY <2>3, <2>4 DEF IInv, BundlesInv
<1>2. QED
  BY <1>1, SigningInvariance, PTL

(* The exchanges that the signings in the bundle covered under this URL    *)
(* are those whose hashes the bundle has for it.                           *)
LEMMA CoveredAreHashed ==
  ASSUME SigningsInv, IsBundle(file), NEW u
  PROVE  LET covering == {c \in UNION {s.covered : s \in SigningsIn(file)} : c.url = u}
         IN  /\ \A c \in covering : \E v \in ToSet(file.vouched) :
                  ResourceIntegrity(c) \in v.signed.subsetHashes
             /\ \A v \in ToSet(file.vouched) : \A h \in v.signed.subsetHashes :
                  h.url = u => \E c \in covering : h = ResourceIntegrity(c)
             /\ \A c \in covering : /\ c.body = c.header.digest /\ c.body.size # 0
                                    /\ c.body = [payload |-> c.body.payload, size |-> c.body.size]
<1>1. \A v \in ToSet(file.vouched) : \E s \in signings : MadeFor(v, file, s)
  BY DEF IsBundle, HasSignatures
<1>2. \A v, s : MadeFor(v, file, s) => v.sig = s.sig /\ v.signed = s.sig.of.signed
  <2>1. ASSUME NEW v, NEW s, NEW a, v = [authority |-> a, sig |-> s.sig, signed |-> s.sig.of.signed]
        PROVE  v.sig = s.sig /\ v.signed = s.sig.of.signed
    BY <2>1
  <2>2. QED
    BY <2>1 DEF MadeFor
<1>3. \A v \in ToSet(file.vouched) : v.signed = v.sig.of.signed /\ \E s \in signings : MadeBy(s, v)
  BY <1>1, <1>2 DEF MadeBy
<1>4. \A s \in signings : s.sig.of.signed.subsetHashes = {ResourceIntegrity(c) : c \in s.covered}
  BY IsASigning
<1>5. ASSUME NEW v \in ToSet(file.vouched), NEW s \in signings, MadeBy(s, v)
      PROVE  v.signed.subsetHashes = {ResourceIntegrity(c) : c \in s.covered}
  BY <1>3, <1>4, <1>5 DEF MadeBy
<1>6. SigningsIn(file) = {s \in signings : \E v \in ToSet(file.vouched) : MadeBy(s, v)}
  BY DEF SigningsIn
<1> DEFINE covering == {c \in UNION {s.covered : s \in SigningsIn(file)} : c.url = u}
<1>7. ASSUME NEW c \in covering
      PROVE  /\ \E v \in ToSet(file.vouched) : ResourceIntegrity(c) \in v.signed.subsetHashes
             /\ c.body = c.header.digest /\ c.body.size # 0
             /\ c.body = [payload |-> c.body.payload, size |-> c.body.size]
  <2>1. PICK s \in SigningsIn(file) : c \in s.covered
    OBVIOUS
  <2>2. s \in signings
    BY <1>6
  <2>3. PICK v \in ToSet(file.vouched) : MadeBy(s, v)
    BY <1>6
  <2>4. ResourceIntegrity(c) \in v.signed.subsetHashes
    BY <1>5, <2>1, <2>2, <2>3
  <2>5. QED
    BY <2>1, <2>2, <2>4, IsASigning
<1>8. ASSUME NEW v \in ToSet(file.vouched), NEW h \in v.signed.subsetHashes, h.url = u
      PROVE  \E c \in covering : h = ResourceIntegrity(c)
  <2>1. PICK s \in signings : MadeBy(s, v)
    BY <1>3
  <2>2. s \in SigningsIn(file)
    BY <1>6, <2>1
  <2>3. PICK c \in s.covered : h = ResourceIntegrity(c)
    BY <1>5, <2>1
  <2>4. c.url = u
    BY <1>8, <2>3, HashTells
  <2>5. QED
    BY <2>2, <2>3, <2>4
<1>9. QED
  BY <1>7, <1>8

(* Of a bundle that came as it was written, an exchange verifies if it was *)
(* signed, its records are not too large, and it has its end.              *)
THEOREM VerdictsAreRight == Spec => []VerdictsMatchHistory
<1>1. IInv => VerdictsMatchHistory
  <2> SUFFICES ASSUME IInv, client.phase = "answered", client.bundle = file
               PROVE  VerdictsMatchHistory
    BY DEF VerdictsMatchHistory
  <2> DEFINE i == client.of
             e == file.exchanges[i]
             o == original.exchanges[i]
             covering == {c \in UNION {s.covered : s \in SigningsIn(file)} : c.url = e.url}
             lostItsEnd == e.body.payload = Zeros /\ \A c \in covering : c.body.payload # Zeros
             verdict == client.verdict
  <2>1. i \in DOMAIN file.exchanges /\ verdict = Verdict(e, file) /\ SigningsInv
    BY DEF IInv, ClientInv
  <2>2. IsBundle(file)
    <3>1. DOMAIN Unreadable.exchanges = {}
      BY DEF Unreadable
    <3>2. QED
      BY <2>1, <3>1 DEF IInv, BundlesInv
  <2>3. IsSeq(file.vouched) /\ Intact(file) /\ IsCodingOf(e, o)
    BY <2>1, <2>2 DEF IsBundle, HasSignatures, HasExchanges
  <2>4. /\ e.body = [payload |-> e.body.payload, size |-> e.body.size]
        /\ e.body.payload \in {o.body.payload, Zeros}
    <3> HIDE DEF e, o
    <3>1. ASSUME NEW u, NEW h, NEW p, NEW z,
                 e = [url |-> u, header |-> h, body |-> [payload |-> p, size |-> z]]
          PROVE  e.body = [payload |-> e.body.payload, size |-> e.body.size]
      BY <3>1
    <3>2. QED
      BY <2>3, <3>1 DEF IsCodingOf
  <2>5. /\ \A c \in covering : \E v \in ToSet(file.vouched) :
             ResourceIntegrity(c) \in v.signed.subsetHashes
        /\ \A v \in ToSet(file.vouched) : \A h \in v.signed.subsetHashes :
             h.url = e.url => \E c \in covering : h = ResourceIntegrity(c)
        /\ \A c \in covering : /\ c.body = c.header.digest /\ c.body.size # 0
                               /\ c.body = [payload |-> c.body.payload, size |-> c.body.size]
    BY <2>1, <2>2, CoveredAreHashed
  <2>6. \A c \in covering : c.url = e.url
    OBVIOUS
  <2>7. \A v \in ToSet(file.vouched) : \A h \in v.signed.subsetHashes :
          h.url = e.url => SignedAs(e, h)
    BY <2>1, <2>3 DEF Intact
  <2> HIDE DEF e, o, covering
  (* The exchange as it was signed, under any of its signings. *)
  <2>8. \A c \in covering : c.header = e.header /\ c.body = e.header.digest
    <3> SUFFICES ASSUME NEW c \in covering
                 PROVE  c.header = e.header /\ c.body = e.header.digest
      OBVIOUS
    <3>1. PICK v \in ToSet(file.vouched) : ResourceIntegrity(c) \in v.signed.subsetHashes
      BY <2>5
    <3>2. SignedAs(e, ResourceIntegrity(c))
      BY <2>6, <2>7, <3>1, HashTells
    <3>3. ResourceIntegrity(c) = ResourceIntegrity(e)
      BY <3>2 DEF SignedAs
    <3>4. c.header = e.header
      BY <3>3, HashTells
    <3>5. QED
      BY <2>5, <3>4
  <2>9. ASSUME covering = {}
        PROVE  verdict = [is |-> "uncovered"]
    BY <2>1, <2>3, <2>5, <2>9, VerdictCases
  <2>10. ASSUME covering # {}
         PROVE  \E h, a :
                  /\ SignedAs(e, h)
                  /\ verdict = IF IsOk(e, h)
                               THEN [is |-> "verified", payload |-> e.body.payload, authority |-> a]
                               ELSE [is |-> "error"]
    <3>1. PICK c \in covering : TRUE
      BY <2>10
    <3>2. PICK v \in ToSet(file.vouched) : ResourceIntegrity(c) \in v.signed.subsetHashes
      BY <2>5
    <3>3. ResourceIntegrity(c).url = e.url
      BY <2>6, HashTells
    <3>4. PICK w \in ToSet(file.vouched) : \E h \in w.signed.subsetHashes :
            /\ h.url = e.url
            /\ verdict = IF IsOk(e, h)
                         THEN [is |-> "verified", payload |-> e.body.payload,
                               authority |-> file.authorities[w.authority + 1]]
                         ELSE [is |-> "error"]
      BY <2>1, <2>3, <3>2, <3>3, VerdictCases
    <3>5. QED
      BY <2>7, <3>4
  <2>11. ASSUME NEW h, SignedAs(e, h), covering # {}
         PROVE  IsOk(e, h) <=> e.body.size <= MaxMIRecordSize /\ ~ lostItsEnd
    <3>1. PICK c \in covering : TRUE
      BY <2>11
    <3>2. /\ h.headerSha256 = e.header /\ h.integrity = IntegrityIdentifier
          /\ e.header.digest.size # 0 /\ e.body.size = e.header.digest.size
          /\ e.body.payload \in {e.header.digest.payload, Zeros}
      BY <2>11, HashTells DEF SignedAs
    <3>3. e.header.digest # NoDigest
      BY <3>2 DEF NoDigest
    <3>4. e.header.digest = [payload |-> e.header.digest.payload, size |-> e.header.digest.size]
      BY <2>5, <2>8, <3>1
    <3>5. lostItsEnd <=> e.body.payload = Zeros /\ e.header.digest.payload # Zeros
      BY <2>8, <3>1
    <3>6. e.body = e.header.digest <=> ~ lostItsEnd
      <4>1. e.body = e.header.digest => e.body.payload = e.header.digest.payload
        OBVIOUS
      <4>2. e.body.payload = e.header.digest.payload => e.body = e.header.digest
        BY <2>4, <3>2, <3>4
      <4>3. QED
        BY <3>2, <3>5, <4>1, <4>2
    <3>7. QED
      BY <3>2, <3>3, <3>6 DEF IsOk, Decodes
  <2>12. /\ verdict.is = "uncovered" <=> covering = {}
         /\ verdict.is = "verified" <=>
              covering # {} /\ e.body.size <= MaxMIRecordSize /\ ~ lostItsEnd
         /\ verdict.is = "verified" => verdict.payload = e.body.payload
    <3>1. CASE covering = {}
      BY <2>9, <3>1
    <3>2. CASE covering # {}
      <4>1. PICK h, a : /\ SignedAs(e, h)
                        /\ verdict = IF IsOk(e, h)
                                     THEN [is |-> "verified", payload |-> e.body.payload, authority |-> a]
                                     ELSE [is |-> "error"]
        BY <2>10, <3>2
      <4> HIDE DEF lostItsEnd
      <4>2. IsOk(e, h) <=> e.body.size <= MaxMIRecordSize /\ ~ lostItsEnd
        BY <2>11, <3>2, <4>1
      <4>3. QED
        BY <3>2, <4>1, <4>2
    <3>3. QED
      BY <3>1, <3>2
  <2>13. ASSUME covering # {}, ~ lostItsEnd
         PROVE  e.body.payload = IF \E c \in covering : c.body.payload = Zeros
                                 THEN Zeros ELSE o.body.payload
    <3>1. \A c \in covering : \A d \in covering : c.body = d.body
      BY <2>8
    <3>2. PICK h, a : SignedAs(e, h)
      BY <2>10, <2>13
    <3>3. \A c \in covering : e.body.payload \in {c.body.payload, Zeros}
      BY <2>8, <3>2 DEF SignedAs
    <3>4. QED
      BY <2>4, <2>13, <3>1, <3>3
  <2>14. QED
    BY <2>12, <2>13 DEF VerdictsMatchHistory, e, o, covering
<1>2. QED
  BY <1>1, SigningInvariance, PTL

=============================================================================
