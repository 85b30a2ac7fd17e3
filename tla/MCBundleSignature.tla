--------------------------- MODULE MCBundleSignature ---------------------------
(* Instances of BundleSignature. *)
EXTENDS BundleSignature

Exchange(url, fields, payload) ==
  [url |-> url, header |-> [fields |-> fields, digest |-> NoDigest],
   body |-> [payload |-> payload, size |-> 0]]

MCHostOf == [a1 |-> "a.com", a2 |-> "a.com", b1 |-> "b.com"]

Plain == <<Exchange("a1", "html", "p1"), Exchange("b1", "html", "p2"),
           Exchange("a2", "css", "p3")>>

(* One URL twice, and a response that had a Digest header. *)
Twice == <<Exchange("a1", "html", "p1"), Exchange("a1", "css", "p2")>>
Digested ==
  <<Exchange("b1", "html", "p1"),
    [Exchange("a1", "css", "p2") EXCEPT !.header.digest =
       [payload |-> "p1", size |-> 4]]>>

MCOriginals ==
  {[version |-> "b1", exchanges |-> x] : x \in {Plain, Twice, Digested}}

(* certA2 is for other names and has certA's key; ca signed both. *)
MCKeyOf == [certA |-> "kA", certA2 |-> "kA", certB |-> "kB", ca |-> "kCA",
            certP |-> "p521"]
MCHostsOf == [certA |-> {"a.com"}, certA2 |-> {"b.com"}, certB |-> {"b.com"},
              ca |-> {"b.com"}, certP |-> {"b.com"}]
MCSupported == {"kA", "kB", "kCA"}

Chain(c) == <<[cert |-> c, ocsp |-> TRUE]>>
WithIssuer(c) == Append(Chain(c), [cert |-> "ca", ocsp |-> FALSE])
Signer(key, chain, date, expires) ==
  [key |-> key, chain |-> chain, date |-> date, expires |-> expires]

SignerA == Signer("kA", WithIssuer("certA"), 1, 3)
MCSigners ==
  {SignerA, Signer("kA", Chain("certA2"), 1, 2),
   Signer("kB", Chain("certB"), 2, 4),        \* good at other times
   Signer("kB", Chain("certB"), 0, 4),        \* for too long
   Signer("kB", Chain("certB"), -1, 2),       \* from before 1970
   Signer("kB", Chain("certA"), 1, 3),        \* not the certificate's key
   Signer("p521", Chain("certP"), 1, 3),      \* a curve that is not signed with
   Signer("kB", WithIssuer("certB") \o Chain("ca"), 1, 3)}  \* no valid chain

=============================================================================
