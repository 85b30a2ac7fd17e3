---------------------------- MODULE MiceDecoder -----------------------------
(***************************************************************************)
(* The streaming decoder of go/signedexchange/mice (NewDecoder, Read,      *)
(* readNextRecord, validateRecord) reading a stream that the network may   *)
(* have replaced, cut or interrupted, for a caller that knows the authentic*)
(* digest of the payload and may call Read again after an error.           *)
(***************************************************************************)
EXTENDS MiceFormat

CONSTANTS
  Symbol,         \* the symbols a stream is made of
  Contents,       \* the payloads that were encoded
  Inputs,         \* the streams the decoder may be given
  MaxRecordSize,  \* NewDecoder's maxRecordSize
  MaxDst,         \* bound: the longest buffer the caller passes to Read
  MaxFaults       \* bound: how often the underlying reader may fail

InputType == [header : {"full", "cut", "none"}, size : Nat, body : Seq(Symbol)]

ASSUME DecoderAssumption ==
  /\ \A content \in Contents :
       /\ content \in Seq(Symbol)
       /\ \A i \in 1..NumRecords(content) : ProofChain(content)[i] \in Seq(Symbol)
  /\ \A input \in Inputs : input \in InputType
  /\ MaxRecordSize \in Nat
  /\ MaxDst \in Nat \ {0}
  /\ MaxFaults \in Nat

VARIABLES
  draft,       \* decoder.encoding
  content,     \* the payload whose digest the caller holds
  input,       \* the stream as it arrives
  phase,       \* "new", "open" (NewDecoder succeeded) or "failed"
  recordSize,  \* decoder.recordSize
  rest,        \* what the underlying reader has still to return
  nextProof,   \* decoder.nextProof, <<>> standing for nil
  out,         \* decoder.out
  delivered,   \* every octet Read has returned so far
  err,         \* the error of the last call
  faults       \* how often the underlying reader has failed

vars == <<draft, content, input, phase, recordSize, rest, nextProof, out,
          delivered, err, faults>>

Errors == {"nil", "EOF", "io", "badDigest", "badRecordSize", "midHash",
           "unexpectedEnd", "validation"}

Init ==
  /\ draft \in Drafts
  /\ content \in Contents
  /\ input \in Inputs
  /\ phase = "new"
  /\ recordSize = 0
  /\ rest = <<>>
  /\ nextProof = <<>>
  /\ out = <<>>
  /\ delivered = <<>>
  /\ err = "nil"
  /\ faults = 0

ValidateRecord(record, proof, isLastRecord) ==
  Hash(record \o (IF isLastRecord THEN <<Zero>> ELSE <<One>>)) = proof

-----------------------------------------------------------------------------
(* NewDecoder *)

Refuse(e) ==
  /\ phase' = "failed"
  /\ err' = e
  /\ UNCHANGED <<recordSize, rest, nextProof>>

Open(size, proof) ==
  /\ phase' = "open"
  /\ err' = "nil"
  /\ recordSize' = size
  /\ rest' = input.body
  /\ nextProof' = proof

(* parsed is FALSE when the digest header names another algorithm, is not  *)
(* base64 or has not the size of a digest.                                 *)
NewDecoder(parsed) ==
  /\ phase = "new"
  /\ \/ /\ ~parsed
        /\ Refuse("badDigest")
     \/ /\ parsed
        /\ input.header = "none"
        /\ draft # "draft02"
        /\ IF ValidateRecord(<<>>, TopLevelProof(content), TRUE)
           THEN Open(0, <<>>)
           ELSE Refuse("validation")
     \/ /\ parsed
        /\ input.header = "cut" \/ (input.header = "none" /\ draft = "draft02")
        /\ Refuse("io")
     \/ /\ parsed
        /\ input.header = "full"
        /\ IF input.size = 0 \/ input.size > MaxRecordSize
           THEN Refuse("badRecordSize")
           ELSE Open(input.size, TopLevelProof(content))
  /\ UNCHANGED <<draft, content, input, out, delivered, faults>>

-----------------------------------------------------------------------------
(* Read *)

(* Mutant of Deliver: what was handed over is not taken off decoder.out. *)
DeliverKeepingAll(o, dst) ==
  LET n == IF dst < Len(o) THEN dst ELSE Len(o)
  IN /\ delivered' = delivered \o SubSeq(o, 1, n)
     /\ out' = o
     /\ err' = "nil"

(* n octets of o go to the caller, the others stay in the decoder. *)
Deliver(o, dst) ==
  LET n == IF dst < Len(o) THEN dst ELSE Len(o)
  IN /\ delivered' = delivered \o SubSeq(o, 1, n)
     /\ out' = SubSeq(o, n + 1, Len(o))
     /\ err' = "nil"

Fail(e) ==
  /\ err' = e
  /\ UNCHANGED <<nextProof, out, delivered>>

(* io.ReadFull consumes the first n octets of rest; its buffer has room for*)
(* a record and a proof.                                                   *)
BufferSize == recordSize + HashSize
Consume(n) == rest' = SubSeq(rest, n + 1, Len(rest))

(* Mutant of LastRecord: the length test refuses a full last record. *)
LastRecordOffByOne(n, dst) ==
  LET record == SubSeq(rest, 1, n)
  IN IF n >= recordSize
     THEN Fail("midHash")
     ELSE IF ~ValidateRecord(record, nextProof, TRUE)
     THEN Fail("validation")
     ELSE /\ nextProof' = <<>>
          /\ Deliver(record, dst)

(* Mutant of LastRecord: nextProof is not cleared after the last record. *)
LastRecordKeepingProof(n, dst) ==
  LET record == SubSeq(rest, 1, n)
  IN IF n > recordSize
     THEN Fail("midHash")
     ELSE IF ~ValidateRecord(record, nextProof, TRUE)
     THEN Fail("validation")
     ELSE /\ nextProof' = nextProof
          /\ Deliver(record, dst)

(* ReadFull returned io.ErrUnexpectedEOF after n octets. *)
LastRecord(n, dst) ==
  LET record == SubSeq(rest, 1, n)
  IN IF n > recordSize
     THEN Fail("midHash")
     ELSE IF ~ValidateRecord(record, nextProof, TRUE)
     THEN Fail("validation")
     ELSE /\ nextProof' = <<>>
          /\ Deliver(record, dst)

(* Mutant of EmptyLastRecord: the end of the input is taken for the end of *)
(* the payload without a look at the proof.                                *)
EmptyLastRecordUnchecked ==
  IF draft # "draft02"
  THEN Fail("unexpectedEnd")
  ELSE /\ nextProof' = <<>>
       /\ err' = "EOF"
       /\ UNCHANGED <<out, delivered>>

(* ReadFull returned io.EOF: not one octet was left. *)
EmptyLastRecord ==
  IF draft # "draft02"
  THEN Fail("unexpectedEnd")
  ELSE IF ~ValidateRecord(<<>>, nextProof, TRUE)
  THEN Fail("validation")
  ELSE /\ nextProof' = <<>>
       /\ err' = "EOF"
       /\ UNCHANGED <<out, delivered>>

(* Mutant of FullRecord: the record is delivered before it is validated. *)
FullRecordUnchecked(dst) ==
  LET buf == SubSeq(rest, 1, BufferSize)
  IN /\ nextProof' = SubSeq(buf, recordSize + 1, BufferSize)
     /\ Deliver(SubSeq(buf, 1, recordSize), dst)

(* Mutant of FullRecord: the proof is taken one octet too early. *)
FullRecordOffByOne(dst) ==
  LET buf == SubSeq(rest, 1, BufferSize)
  IN IF ~ValidateRecord(buf, nextProof, FALSE)
     THEN Fail("validation")
     ELSE /\ nextProof' = SubSeq(buf, recordSize, BufferSize)
          /\ Deliver(SubSeq(buf, 1, recordSize), dst)

(* ReadFull filled the buffer. *)
FullRecord(dst) ==
  LET buf == SubSeq(rest, 1, BufferSize)
  IN IF ~ValidateRecord(buf, nextProof, FALSE)
     THEN Fail("validation")
     ELSE /\ nextProof' = SubSeq(buf, recordSize + 1, BufferSize)
          /\ Deliver(SubSeq(buf, 1, recordSize), dst)

ReadNextRecord(dst) ==
  \/ /\ Len(rest) >= BufferSize
     /\ FullRecord(dst)
     /\ Consume(BufferSize)
     /\ UNCHANGED faults
  \/ /\ Len(rest) \in 1..(BufferSize - 1)
     /\ LastRecord(Len(rest), dst)
     /\ Consume(Len(rest))
     /\ UNCHANGED faults
  \/ /\ rest = <<>>
     /\ EmptyLastRecord
     /\ UNCHANGED <<rest, faults>>
  \/ \* The underlying reader fails after n octets, with an error of its own
     \* or with io.ErrUnexpectedEOF, as an HTTP body that is cut short does.
     /\ faults < MaxFaults
     /\ faults' = faults + 1
     /\ \E n \in 0..(BufferSize - 1) :
          /\ n <= Len(rest)
          /\ Fail("io") \/ LastRecord(n, dst)
          /\ Consume(n)

Read(dst) ==
  /\ phase = "open"
  /\ \/ /\ out # <<>>
        /\ Deliver(out, dst)
        /\ UNCHANGED <<nextProof, rest, faults>>
     \/ /\ out = <<>>
        /\ nextProof = <<>>
        /\ err' = "EOF"
        /\ UNCHANGED <<nextProof, out, delivered, rest, faults>>
     \/ /\ out = <<>>
        /\ nextProof # <<>>
        /\ ReadNextRecord(dst)
  /\ UNCHANGED <<draft, content, input, phase, recordSize>>

Next ==
  \/ \E parsed \in BOOLEAN : NewDecoder(parsed)
  \/ \E dst \in 0..MaxDst : Read(dst)

(* ioutil.ReadAll, which the verifiers use, keeps calling Read with a      *)
(* buffer that has room until it gets an error.  The underlying reader need*)
(* not fail: fairness of all reads would oblige it to when a read that does*)
(* not fail changes nothing.                                               *)
Fairness ==
  /\ WF_vars(NewDecoder(TRUE))
  /\ WF_vars(\E dst \in 1..MaxDst : Read(dst) /\ UNCHANGED faults)

Spec == Init /\ [][Next]_vars
FairSpec == Spec /\ Fairness

-----------------------------------------------------------------------------
(* Properties *)

(* Type invariant of the decoder struct and of the caller's history. *)
TypeOK ==
  /\ draft \in Drafts
  /\ content \in Contents
  /\ input \in Inputs
  /\ phase \in {"new", "open", "failed"}
  /\ recordSize \in Nat
  /\ rest \in Seq(Symbol)
  /\ nextProof \in Seq(Symbol) /\ Len(nextProof) \in {0, HashSize}
  /\ out \in Seq(Symbol)
  /\ delivered \in Seq(Symbol)
  /\ err \in Errors
  /\ faults \in 0..MaxFaults

(* Whatever arrives, and however often the caller reads again after an     *)
(* error, the octets Read has returned and those it keeps for the next call*)
(* are the beginning of the payload whose digest the caller trusts.        *)
OnlyAuthenticOctets == IsPrefix(delivered \o out, content)

(* Read reports the end of the stream only when the caller has the whole   *)
(* payload: a truncated stream never looks complete.                       *)
EndMeansComplete == err = "EOF" => delivered = content

(* The decoder refuses no stream that the encoder wrote for this payload   *)
(* and that arrived without a fault.                                       *)
HonestInput ==
  /\ input = Encode(draft, content)
  /\ RecordSize <= MaxRecordSize
  /\ faults = 0
NoFalseAlarm == HonestInput => err \in {"nil", "EOF", "badDigest"}

(* A caller that keeps reading an honest stream gets the whole payload and *)
(* the end of the stream.                                                  *)
HonestStreamEnds ==
  (phase = "open" /\ HonestInput)
    ~> (faults > 0 \/ (err = "EOF" /\ delivered = content))

Reader == INSTANCE MiceReader WITH
  payload <- content,
  received <- delivered,
  atEnd <- err = "EOF"

(* The decoder implements the reader its callers rely on: the detailed     *)
(* steps of mice.go hand over ever longer beginnings of the payload.       *)
ImplementsReader == Reader!Spec
=============================================================================
