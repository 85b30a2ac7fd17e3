--------------------------- MODULE MCMiceDecoder ----------------------------
(* Small instances of MiceDecoder: five payloads of up to five octets in   *)
(* records of two, digests of two symbols, and the streams that come from  *)
(* one encoding of one of them by one change.                              *)
EXTENDS MiceDecoder, TLC

CONSTANTS a, b

MCContents == { <<>>, <<Zero>>, <<Zero, One>>, <<One, a, b>>, <<One, Zero, a, b, One>> }

Honest == {Encode(d, c) : d \in Drafts, c \in MCContents}

DigestSymbols ==
  UNION {Range(ProofChain(c)[i]) : <<c, i>> \in
           {<<c, i>> \in MCContents \X (1..3) : i <= NumRecords(c)}}

MCSymbol == {Zero, One, a, b} \union DigestSymbols

Cut(s, i, j) == SubSeq(s, 1, i - 1) \o SubSeq(s, j + 1, Len(s))

(* One change to the octets of a stream: one replaced, a run of them       *)
(* removed (at the end: a truncation), one added, the stream played twice. *)
Tampered(s) ==
  {[s EXCEPT ![i] = x] : i \in DOMAIN s, x \in {Zero, a}}
    \union {Cut(s, i, j) : i \in 1..Len(s), j \in 1..Len(s)}
    \union {Append(s, x) : x \in {Zero, One}}
    \union {s \o s}

MCInputs ==
  Honest
    \union {[h EXCEPT !.body = t] : h \in Honest, t \in UNION {Tampered(h.body) : h \in Honest}}
    \union {[h EXCEPT !.header = "full", !.size = n] : h \in Honest, n \in 0..4}
    \union {[h EXCEPT !.header = x, !.size = 0, !.body = <<>>] : h \in Honest, x \in {"cut", "none"}}
=============================================================================
