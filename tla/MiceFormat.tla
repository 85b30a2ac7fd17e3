----------------------------- MODULE MiceFormat -----------------------------
(***************************************************************************)
(* The Merkle Integrity Content Encoding of go/signedexchange/mice: what   *)
(* Encoding.Encode writes for a payload, and the chain of proofs that ties *)
(* each record to the next one.                                            *)
(*                                                                         *)
(* A byte string is a sequence of symbols.  SHA-256 is idealised: the      *)
(* digest of s is HashSize symbols, each of which names s, so two digests  *)
(* are equal only when the hashed strings are.                             *)
(***************************************************************************)
EXTENDS Integers, Sequences, SequencesExt

CONSTANTS
  Zero, One,     \* the bytes 0x00 and 0x01 that close a hashed string
  HashSize,      \* the number of symbols of a digest (32 in the code)
  RecordSize     \* the record size the encoder uses

ASSUME FormatAssumption ==
  /\ Zero # One
  /\ HashSize \in Nat \ {0}
  /\ RecordSize \in Nat \ {0}

Drafts == {"draft02", "draft03"}

(* SHA-256 as a free constructor: injective, and of a fixed size. *)
Hash(s) == [i \in 1..HashSize |-> <<s, i>>]

(* Both drafts hash one (empty) last record when the payload is empty. *)
NumRecords(content) ==
  IF content = <<>> THEN 1
  ELSE (Len(content) + RecordSize - 1) \div RecordSize

(* The payload octets that precede record i. *)
Offset(i) == (i - 1) * RecordSize

Record(content, i) ==
  SubSeq(content, Offset(i) + 1,
         IF i = NumRecords(content) THEN Len(content) ELSE Offset(i) + RecordSize)

(* The proof of the last record covers the record alone; every other one   *)
(* covers its record and the proof of the next.                            *)
ProofChain(content) ==
  LET last == NumRecords(content)
      proof[i \in 1..last] ==
        IF i = last
        THEN Hash(Record(content, i) \o <<Zero>>)
        ELSE Hash(Record(content, i) \o proof[i + 1] \o <<One>>)
  IN proof

(* The digest header that Encode returns carries the first proof. *)
TopLevelProof(content) == ProofChain(content)[1]

(* The octets of the stream: an eight-octet record size, which is absent   *)
(* from the draft-03 encoding of the empty payload, and the records, each  *)
(* but the first one preceded by its proof.                                *)
Encode(draft, content) ==
  IF draft = "draft03" /\ content = <<>>
  THEN [header |-> "none", size |-> 0, body |-> <<>>]
  ELSE [header |-> "full", size |-> RecordSize,
        body |-> FlattenSeq([i \in 1..NumRecords(content) |->
                   (IF i = 1 THEN <<>> ELSE ProofChain(content)[i])
                     \o Record(content, i)])]
=============================================================================
