----------------------- MODULE SignedWebBundleProofs ------------------------
(***************************************************************************)
(* Proofs about concurrent signing calls on one SignedWebBundle, for any   *)
(* number of calls, keys, IDs and strategies.                              *)
(***************************************************************************)
EXTENDS SignedWebBundle, TLAPS

(* Entries have numbers that were given out, and no two share one. *)
Numbered(block) ==
  /\ \A s \in block.signatureStack : s.at <= pushes
  /\ \A s, t \in block.signatureStack : s.at = t.at => s = t

(* What is stored is well formed. *)
Stored ==
  /\ integrityBlock \in BlockType
  /\ pushes \in 0..MaxPushes
  /\ epoch \in 1..(MaxOverrides + 1)
  /\ Numbered(integrityBlock)

(* The bytes read back as a block of entries with their numbers, of which  *)
(* nobody knows whether they are valid, and as what was promised.          *)
Saved ==
  /\ saved \in FileType \union {NoBytes}
  /\ promised \subseteq Keys
  /\ saved # NoBytes =>
       /\ FromCbor(saved.block) \in BlockType
       /\ Numbered(FromCbor(saved.block))
       /\ \A s \in FromCbor(saved.block).signatureStack : s.epoch = 0
  /\ SavedBytesLoad

(* What the calls know is well formed, and a call that began after the last*)
(* override has encoded the ID that the block still has.                   *)
Calls ==
  /\ call \in [Callers -> CallType]
  /\ removed \in [Callers -> SUBSET Keys]
  /\ \A c \in Callers : UnderWay(c) => call[c].next \in DOMAIN call[c].strategies
  /\ \A c \in Callers : call[c].pc # "idle" =>
       /\ call[c].epoch <= epoch
       /\ call[c].epoch = epoch => call[c].ibCbor = integrityBlock.webBundleId

(* The same of the entries of the block. *)
Entries ==
  \A s \in integrityBlock.signatureStack :
    /\ s.epoch <= epoch
    /\ s.epoch = epoch => IsValid(integrityBlock, s)

(* The i-th signature of call c is in the block, as old as the call, or its*)
(* key was removed.                                                        *)
Landed(c, i) ==
  \/ call[c].strategies[i] \in removed[c]
  \/ \E s \in integrityBlock.signatureStack : /\ s.key = call[c].strategies[i]
                                              /\ s.signedId = call[c].ibCbor
                                              /\ s.epoch = call[c].epoch

Progress ==
  \A c \in Callers :
    \A i \in DOMAIN call[c].strategies :
      (call[c].pc = "resolved" \/ (UnderWay(c) /\ i < call[c].next)) => Landed(c, i)

IInv == Stored /\ Saved /\ Calls /\ Entries /\ Progress

-----------------------------------------------------------------------------

(* What getSignedWebBundleBytes makes of a block, fromBytes accepts, and it*)
(* reads the same ID and the same signatures.                              *)
LEMMA BytesReadBack ==
  ASSUME NEW block \in BlockType, CanBeSaved(block)
  PROVE  /\ SignedBytes(block) \in FileType
         /\ FromBytesAccepts(SignedBytes(block))
         /\ FromCbor(SignedBytes(block).block) \in BlockType
         /\ FromCbor(SignedBytes(block).block) =
              [webBundleId |-> block.webBundleId,
               signatureStack |-> {[s EXCEPT !.epoch = 0] : s \in block.signatureStack}]
<1> DEFINE stack == {EncodedSignature(s) : s \in block.signatureStack}
           encoded == SignedBytes(block).block
<1>1. block.webBundleId \in Ids /\ block.signatureStack \subseteq SignatureType
  BY DEF BlockType
<1>2. encoded = [wellFormed |-> TRUE, magic |-> TRUE, version |-> TRUE,
                 attributes |-> [name \in {"webBundleId"} |-> block.webBundleId],
                 signatureStack |-> stack]
  BY DEF SignedBytes, ToCbor
<1>3. ASSUME NEW s \in block.signatureStack
      PROVE  /\ EncodedSignature(s) \in EncodedSignatures(Nat)
             /\ DOMAIN EncodedSignature(s).attributes = {"publicKey"}
             /\ DecodedSignature(EncodedSignature(s)) = [s EXCEPT !.epoch = 0]
             /\ [s EXCEPT !.epoch = 0] \in SignatureType
  <2>1. s \in [at : Nat, key : Keys, signer : Keys, signedId : Ids, epoch : Nat]
    BY <1>1, <1>3 DEF SignatureType
  <2>2. [name \in {"publicKey"} |-> s.key]
          \in UNION {[names -> Keys] : names \in SUBSET {"publicKey", "unknown"}}
    <3>1. [name \in {"publicKey"} |-> s.key] \in [{"publicKey"} -> Keys]
      BY <2>1
    <3>2. {"publicKey"} \in SUBSET {"publicKey", "unknown"}
      OBVIOUS
    <3>3. QED
      BY <3>1, <3>2
  <2>3. EncodedSignature(s) \in EncodedSignatures(Nat)
    BY <2>1, <2>2 DEF EncodedSignature, EncodedSignatures
  <2>4. QED
    BY <2>1, <2>3 DEF EncodedSignature, DecodedSignature, SignatureType
<1>4. stack # {} /\ stack \subseteq EncodedSignatures(Nat)
  <2>1. PICK s \in block.signatureStack : TRUE
    BY DEF CanBeSaved
  <2>2. EncodedSignature(s) \in stack
    BY <2>1
  <2>3. ASSUME NEW e \in stack
        PROVE  e \in EncodedSignatures(Nat)
    <3>1. PICK t \in block.signatureStack : e = EncodedSignature(t)
      BY <2>3
    <3>2. QED
      BY <1>3, <3>1
  <2> HIDE DEF stack
  <2>4. QED
    BY <2>2, <2>3
<1>5. encoded \in EncodedBlocks(SUBSET EncodedSignatures(Nat))
  <2>1. [name \in {"webBundleId"} |-> block.webBundleId] \in [{"webBundleId"} -> Ids]
    BY <1>1
  <2>2. [name \in {"webBundleId"} |-> block.webBundleId]
          \in UNION {[names -> Ids] : names \in SUBSET {"webBundleId", "other"}}
    <3>1. {"webBundleId"} \in SUBSET {"webBundleId", "other"}
      OBVIOUS
    <3>2. QED
      BY <2>1, <3>1
  <2> HIDE DEF stack, encoded
  <2>3. QED
    BY <1>2, <1>4, <2>2 DEF EncodedBlocks
<1>6. SignedBytes(block) \in FileType
  BY <1>5 DEF SignedBytes, FileType, PureWebBundle
<1>7. FromBytesAccepts(SignedBytes(block))
  <2>1. SignedBytes(block).length = SignedBytes(block).stated
    BY DEF SignedBytes, PureWebBundle
  <2>2. \A e \in stack : DOMAIN e.attributes = {"publicKey"}
    BY <1>3
  <2> HIDE DEF stack, encoded
  <2>3. FromCborAccepts(encoded) /\ encoded.magic
    BY <1>2, <1>4, <2>2 DEF FromCborAccepts
  <2>4. QED
    BY <2>1, <2>3 DEF FromBytesAccepts, encoded
<1>8. {DecodedSignature(e) : e \in stack} = {[s EXCEPT !.epoch = 0] : s \in block.signatureStack}
  <2> DEFINE Reread(s) == [s EXCEPT !.epoch = 0]
  <2>1. \A s \in block.signatureStack : DecodedSignature(EncodedSignature(s)) = Reread(s)
    BY <1>3
  <2> HIDE DEF Reread
  <2>2. {DecodedSignature(e) : e \in stack} = {Reread(s) : s \in block.signatureStack}
    BY <2>1
  <2>3. QED
    BY <2>2 DEF Reread
<1>9. FromCbor(encoded) =
        [webBundleId |-> block.webBundleId,
         signatureStack |-> {[s EXCEPT !.epoch = 0] : s \in block.signatureStack}]
  <2> HIDE DEF stack, encoded
  <2>1. encoded.attributes["webBundleId"] = block.webBundleId /\ encoded.signatureStack = stack
    BY <1>2
  <2>2. QED
    BY <2>1, <1>8 DEF FromCbor
<1>10. FromCbor(encoded) \in BlockType
  BY <1>1, <1>3, <1>9 DEF BlockType
<1>11. QED
  BY <1>6, <1>7, <1>9, <1>10

(* What fromBytes reads from a file with one entry at most. *)
LEMMA ForeignFilesReadBack ==
  ASSUME NEW file \in ForeignFiles, FromBytesAccepts(file)
  PROVE  /\ FromCbor(file.block) \in BlockType
         /\ \A s \in FromCbor(file.block).signatureStack : s.at = 0 /\ s.epoch = 0
         /\ \A s, t \in FromCbor(file.block).signatureStack : s = t
<1> DEFINE encoded == file.block
           stack == encoded.signatureStack
<1>1. /\ encoded \in EncodedBlocks({{}} \union {{e} : e \in EncodedSignatures({0})})
      /\ FromCborAccepts(encoded)
  BY DEF ForeignFiles, FromBytesAccepts
<1>2. PICK names \in SUBSET {"webBundleId", "other"} : encoded.attributes \in [names -> Ids]
  BY <1>1 DEF EncodedBlocks
<1>3. encoded.attributes["webBundleId"] \in Ids
  BY <1>1, <1>2 DEF FromCborAccepts
<1>4. stack \in {{}} \union {{e} : e \in EncodedSignatures({0})}
  BY <1>1 DEF EncodedBlocks
<1>5. ASSUME NEW e \in stack
      PROVE  DecodedSignature(e) \in SignatureType
               /\ DecodedSignature(e).at = 0 /\ DecodedSignature(e).epoch = 0
  <2>1. e \in EncodedSignatures({0}) /\ DOMAIN e.attributes = {"publicKey"}
    BY <1>1, <1>4, <1>5 DEF FromCborAccepts
  <2>2. PICK names2 \in SUBSET {"publicKey", "unknown"} : e.attributes \in [names2 -> Keys]
    BY <2>1 DEF EncodedSignatures
  <2>3. e.attributes["publicKey"] \in Keys
    BY <2>1, <2>2
  <2>4. e.signature \in [at : {0}, signer : Keys, signedId : Ids]
    BY <2>1 DEF EncodedSignatures
  <2>5. QED
    BY <2>3, <2>4 DEF DecodedSignature, SignatureType
<1>6. FromCbor(encoded).webBundleId = encoded.attributes["webBundleId"]
        /\ FromCbor(encoded).signatureStack = {DecodedSignature(e) : e \in stack}
  BY DEF FromCbor
<1>7. FromCbor(encoded) \in BlockType
  BY <1>3, <1>5 DEF FromCbor, BlockType
<1>8. \A d, e \in stack : d = e
  BY <1>4
<1>9. QED
  BY <1>5, <1>6, <1>7, <1>8

LEMMA IdleCallType ==
  /\ IdleCall \in CallType /\ IdleCall.strategies = <<>> /\ IdleCall.pc = "idle"
  /\ RejectedCall \in CallType /\ RejectedCall.strategies = <<>>
  /\ RejectedCall.pc = "rejected" /\ RejectedCall.epoch = 0
<1>1. EmptyId \in Ids
  BY BlockAssumption
<1>2. RejectedCall = [pc |-> "rejected", strategies |-> <<>>, next |-> 1,
                      ibCbor |-> EmptyId, epoch |-> 0]
  BY DEF RejectedCall, IdleCall
<1>3. QED
  BY <1>1, <1>2 DEF IdleCall, CallType

LEMMA InitEstablishesIInv == Init => IInv
<1> SUFFICES ASSUME Init PROVE IInv
  OBVIOUS
<1>1. /\ integrityBlock \in BlockType
      /\ \A s \in integrityBlock.signatureStack : s.at = 0 /\ s.epoch = 0
      /\ \A s, t \in integrityBlock.signatureStack : s = t
  <2>1. CASE \E file \in ForeignFiles :
               FromBytesAccepts(file) /\ integrityBlock = FromCbor(file.block)
    BY <2>1, ForeignFilesReadBack
  <2>2. CASE \E id \in Ids : integrityBlock = [webBundleId |-> id, signatureStack |-> {}]
    BY <2>2 DEF BlockType
  <2>3. QED
    BY <2>1, <2>2 DEF Init
<1>2. /\ call = [c \in Callers |-> IdleCall]
      /\ saved = NoBytes
      /\ promised = {}
      /\ pushes = 0
      /\ epoch = 1
      /\ removed = [c \in Callers |-> {}]
      /\ MaxPushes \in Nat
      /\ MaxOverrides \in Nat
  BY SigningAssumption DEF Init
<1>3. Stored
  BY <1>1, <1>2 DEF Stored, Numbered
<1>4. Saved
  BY <1>2 DEF Saved, SavedBytesLoad
<1>5. Calls
  BY <1>2, IdleCallType DEF Calls, UnderWay
<1>6. Entries
  BY <1>1, <1>2 DEF Entries
<1>7. Progress
  BY <1>2, IdleCallType DEF Progress, UnderWay
<1>8. QED
  BY <1>3, <1>4, <1>5, <1>6, <1>7 DEF IInv

(* A step that leaves the bytes alone, and takes back no number, keeps what*)
(* is saved.                                                               *)
LEMMA SameBytes ==
  ASSUME Saved, UNCHANGED <<saved, promised>>,
         pushes \in Nat, pushes' \in Nat, pushes <= pushes'
  PROVE  Saved'
<1>1. SavedBytesLoad'
  BY DEF Saved, SavedBytesLoad
<1>2. ASSUME saved # NoBytes
      PROVE  \A s \in FromCbor(saved.block).signatureStack : s.at <= pushes'
  <2> DEFINE stack == FromCbor(saved.block).signatureStack
  <2>1. FromCbor(saved.block) \in BlockType /\ \A s \in stack : s.at <= pushes
    BY <1>2 DEF Saved, Numbered
  <2>2. \A s \in stack : s.at \in Nat
    BY <2>1 DEF BlockType, SignatureType
  <2> HIDE DEF stack
  <2>3. \A s \in stack : s.at <= pushes'
    BY <2>1, <2>2
  <2>4. QED
    BY <2>3 DEF stack
<1>3. ASSUME saved # NoBytes
      PROVE  Numbered(FromCbor(saved.block))'
  <2>1. Numbered(FromCbor(saved.block))
    BY <1>3 DEF Saved
  <2>2. \A s, t \in FromCbor(saved.block).signatureStack : s.at = t.at => s = t
    BY <2>1 DEF Numbered
  <2>3. QED
    BY <1>2, <1>3, <2>2 DEF Numbered
<1>4. QED
  BY <1>1, <1>3 DEF Saved

(* A step that leaves the block and the numbers alone keeps what is stored.*)
LEMMA SameBlock ==
  ASSUME IInv, UNCHANGED <<integrityBlock, saved, promised, pushes, epoch>>
  PROVE  Stored' /\ Saved' /\ Entries'
<1>1. pushes \in Nat
  BY SigningAssumption DEF IInv, Stored
<1>2. Saved'
  BY <1>1, SameBytes DEF IInv
<1>3. QED
  BY <1>2 DEF IInv, Stored, Numbered, Entries

LEMMA StartSigningKeepsIInv ==
  ASSUME IInv, NEW c \in Callers, NEW strategies \in StrategyLists,
         StartSigning(c, strategies)
  PROVE  IInv'
<1> USE DEF IInv
<1>1. PICK n \in Nat : strategies \in [1..n -> Keys] /\ strategies # <<>>
  BY SigningAssumption DEF Seq
<1>2. n \in Nat /\ 1 \in 1..n /\ DOMAIN strategies = 1..n /\ strategies \in Seq(Keys)
  BY <1>1, SigningAssumption
<1> DEFINE new == [pc |-> "getPublicKey", strategies |-> strategies, next |-> 1,
                   ibCbor |-> integrityBlock.webBundleId, epoch |-> epoch]
<1>3. /\ call' = [call EXCEPT ![c] = new]
      /\ removed' = [removed EXCEPT ![c] = {}]
      /\ UNCHANGED <<integrityBlock, saved, promised, pushes, epoch>>
  BY DEF StartSigning, ToStrippedCbor
<1>4. integrityBlock.webBundleId \in Ids /\ epoch \in Nat
  BY SigningAssumption DEF Stored, BlockType
<1>5. new \in CallType
  BY <1>2, <1>4 DEF CallType
<1>6. /\ call'[c] = new
      /\ \A d \in Callers \ {c} : call'[d] = call[d] /\ removed'[d] = removed[d]
  BY <1>3 DEF Calls
<1>7. Calls'
  <2>1. call' \in [Callers -> CallType] /\ removed' \in [Callers -> SUBSET Keys]
    BY <1>3, <1>5 DEF Calls
  <2>2. ASSUME NEW d \in Callers
        PROVE  /\ UnderWay(d)' => call'[d].next \in DOMAIN call'[d].strategies
               /\ call'[d].pc # "idle" =>
                    /\ call'[d].epoch <= epoch'
                    /\ call'[d].epoch = epoch' => call'[d].ibCbor = integrityBlock'.webBundleId
    <3>1. CASE d = c
      BY <3>1, <1>2, <1>3, <1>4, <1>6
    <3>2. CASE d # c
      BY <3>2, <1>3, <1>6 DEF Calls, UnderWay
    <3>3. QED
      BY <3>1, <3>2
  <2>3. QED
    BY <2>1, <2>2 DEF Calls
<1>8. Progress'
  <2> SUFFICES ASSUME NEW d \in Callers, NEW i \in DOMAIN call'[d].strategies,
                      call'[d].pc = "resolved" \/ (UnderWay(d)' /\ i < call'[d].next)
               PROVE  Landed(d, i)'
    BY DEF Progress
  <2>1. CASE d = c
    BY <2>1, <1>2, <1>6
  <2>2. CASE d # c
    BY <2>2, <1>3, <1>6 DEF Progress, Landed, UnderWay
  <2>3. QED
    BY <2>1, <2>2
<1>9. QED
  BY <1>3, <1>7, <1>8, SameBlock

LEMMA PublicKeyResolvedKeepsIInv ==
  ASSUME IInv, NEW c \in Callers, PublicKeyResolved(c)
  PROVE  IInv'
<1> USE DEF IInv
<1>1. /\ call[c].pc = "getPublicKey"
      /\ call' = [call EXCEPT ![c].pc = "sign"]
      /\ UNCHANGED <<integrityBlock, saved, promised, pushes, epoch, removed>>
  BY DEF PublicKeyResolved
<1>2. /\ call' \in [Callers -> CallType]
      /\ \A d \in Callers : /\ call'[d].strategies = call[d].strategies
                            /\ call'[d].next = call[d].next
                            /\ call'[d].ibCbor = call[d].ibCbor
                            /\ call'[d].epoch = call[d].epoch
                            /\ UnderWay(d)' <=> UnderWay(d)
                            /\ call'[d].pc = "resolved" <=> call[d].pc = "resolved"
                            /\ call'[d].pc # "idle" => call[d].pc # "idle"
  BY <1>1 DEF Calls, CallType, UnderWay
<1>3. Calls'
  BY <1>1, <1>2 DEF Calls
<1>4. Progress'
  BY <1>1, <1>2 DEF Progress, Landed
<1>5. QED
  BY <1>1, <1>3, <1>4, SameBlock

(* A call that is rejected leaves everything else as it is. *)
LEMMA RejectionKeepsIInv ==
  ASSUME IInv, NEW c \in Callers,
         call' = [call EXCEPT ![c] = RejectedCall],
         UNCHANGED <<integrityBlock, saved, promised, pushes, epoch, removed>>
  PROVE  IInv'
<1> USE DEF IInv
<1>1. /\ call' \in [Callers -> CallType]
      /\ call'[c].strategies = <<>>
      /\ call'[c].pc = "rejected"
      /\ \A d \in Callers \ {c} : call'[d] = call[d]
  BY IdleCallType DEF Calls
<1>2. Calls'
  <2>1. epoch \in Nat /\ call'[c].epoch = 0
    BY IdleCallType, SigningAssumption DEF Calls, Stored
  <2>2. epoch # 0
    BY SigningAssumption DEF Stored
  <2>3. QED
    BY <1>1, <2>1, <2>2 DEF Calls, UnderWay
<1>3. Progress'
  BY <1>1 DEF Progress, Landed, UnderWay
<1>4. QED
  BY <1>2, <1>3, SameBlock

LEMMA SignResolvedKeepsIInv ==
  ASSUME IInv, NEW c \in Callers, NEW signer \in Keys, NEW signedId \in Ids,
         SignResolved(c, signer, signedId)
  PROVE  IInv'
<1> USE DEF IInv
<1>1. CASE ~Accepts(c, signer, signedId)
  <2>1. /\ call' = [call EXCEPT ![c] = RejectedCall]
        /\ UNCHANGED <<integrityBlock, saved, promised, pushes, epoch, removed>>
    BY <1>1 DEF SignResolved
  <2>2. QED
    BY <2>1, RejectionKeepsIInv
<1>2. CASE Accepts(c, signer, signedId)
  <2> DEFINE key == call[c].strategies[call[c].next]
             new == [at |-> pushes + 1, key |-> key, signer |-> signer,
                     signedId |-> signedId, epoch |-> call[c].epoch]
             more == MoreStrategies(c)
  <2>1. /\ UnderWay(c)
        /\ call[c].pc = "sign"
        /\ pushes < MaxPushes
        /\ pushes' = pushes + 1
        /\ integrityBlock' = [integrityBlock EXCEPT
             !.signatureStack = @ \union {new}]
        /\ call' = [call EXCEPT ![c].pc = IF more THEN "getPublicKey" ELSE "resolved",
                                ![c].next = @ + 1]
        /\ UNCHANGED <<saved, promised, epoch, removed>>
    BY <1>2 DEF SignResolved, Push, AddIntegritySignature, UnderWay
  <2>2. /\ call[c] \in CallType
        /\ call[c].next \in DOMAIN call[c].strategies
        /\ call[c].strategies \in Seq(Keys)
        /\ call[c].epoch \in Nat
        /\ call[c].epoch <= epoch
        /\ call[c].epoch = epoch => call[c].ibCbor = integrityBlock.webBundleId
    BY <2>1 DEF Calls, CallType
  <2>3. key \in Keys /\ signer = key /\ signedId = call[c].ibCbor
    BY <1>2, <2>2 DEF Accepts, Verifies
  <2>4. pushes \in Nat /\ MaxPushes \in Nat /\ epoch \in Nat
    BY SigningAssumption DEF Stored
  <2>5. new \in SignatureType
    BY <2>2, <2>3, <2>4 DEF SignatureType
  <2>6. /\ integrityBlock \in BlockType
        /\ integrityBlock'.signatureStack = integrityBlock.signatureStack \union {new}
        /\ integrityBlock'.webBundleId = integrityBlock.webBundleId
        /\ integrityBlock' \in BlockType
    BY <2>1, <2>5 DEF Stored, BlockType
  <2>7. Numbered(integrityBlock) /\ integrityBlock.signatureStack \subseteq SignatureType
    BY <2>6 DEF Stored, BlockType
  <2>8. Numbered(integrityBlock)'
    <3>1. ASSUME NEW s \in integrityBlock'.signatureStack
          PROVE  s.at <= pushes'
      BY <2>1, <2>4, <2>6, <2>7 DEF Numbered, SignatureType
    <3>2. ASSUME NEW s \in integrityBlock'.signatureStack,
                 NEW t \in integrityBlock'.signatureStack, s.at = t.at
          PROVE  s = t
      BY <3>2, <2>4, <2>6, <2>7 DEF Numbered, SignatureType
    <3>3. QED
      BY <3>1, <3>2 DEF Numbered
  <2>9. Stored' /\ Saved'
    <3>1. pushes' \in 0..MaxPushes
      BY <2>1, <2>4
    <3>2. pushes <= pushes' /\ pushes' \in Nat
      BY <2>1, <2>4
    <3>3. Saved'
      BY <2>1, <2>4, <3>2, SameBytes
    <3>4. QED
      BY <2>1, <2>6, <2>8, <3>1, <3>3 DEF Stored
  <2>10. /\ call' \in [Callers -> CallType]
         /\ call'[c].pc = IF more THEN "getPublicKey" ELSE "resolved"
         /\ call'[c].next = call[c].next + 1
         /\ call'[c].strategies = call[c].strategies
         /\ call'[c].ibCbor = call[c].ibCbor
         /\ call'[c].epoch = call[c].epoch
         /\ \A d \in Callers \ {c} : call'[d] = call[d]
    <3>1. call \in [Callers -> CallType]
      BY DEF Calls
    <3>2. call' = [call EXCEPT ![c] = [call[c] EXCEPT
                     !.pc = IF more THEN "getPublicKey" ELSE "resolved",
                     !.next = call[c].next + 1]]
      BY <2>1, <3>1
    <3>3. [call[c] EXCEPT !.pc = IF more THEN "getPublicKey" ELSE "resolved",
                          !.next = call[c].next + 1] \in CallType
      <4> HIDE DEF more
      <4> DEFINE pc == IF more THEN "getPublicKey" ELSE "resolved"
      <4>1. pc \in {"getPublicKey", "resolved"} /\ call[c].next + 1 \in Nat
        BY <2>2 DEF CallType
      <4> HIDE DEF pc
      <4>2. [call[c] EXCEPT !.pc = pc, !.next = call[c].next + 1] \in CallType
        BY <2>2, <4>1 DEF CallType
      <4>3. QED
        BY <4>2 DEF pc
    <3> HIDE DEF more
    <3>4. QED
      BY <3>1, <3>2, <3>3, <2>2 DEF CallType
  <2>11. UnderWay(c)' => call'[c].next \in DOMAIN call'[c].strategies
    <3>1. UnderWay(c)' => more
      BY <2>10 DEF UnderWay
    <3>2. more => call[c].next + 1 \in DOMAIN call[c].strategies
      BY <2>2 DEF MoreStrategies
    <3>3. QED
      BY <3>1, <3>2, <2>10
  <2>12. Calls'
    <3>1. ASSUME NEW d \in Callers
          PROVE  /\ UnderWay(d)' => call'[d].next \in DOMAIN call'[d].strategies
                 /\ call'[d].pc # "idle" =>
                      /\ call'[d].epoch <= epoch'
                      /\ call'[d].epoch = epoch' =>
                           call'[d].ibCbor = integrityBlock'.webBundleId
      <4>1. CASE d = c
        BY <4>1, <2>1, <2>2, <2>6, <2>10, <2>11
      <4>2. CASE d # c
        BY <4>2, <2>1, <2>6, <2>10 DEF Calls, UnderWay
      <4>3. QED
        BY <4>1, <4>2
    <3>2. QED
      BY <2>1, <2>10, <3>1 DEF Calls
  <2>13. Entries'
    <3> SUFFICES ASSUME NEW s \in integrityBlock'.signatureStack
                 PROVE  s.epoch <= epoch' /\ (s.epoch = epoch' => IsValid(integrityBlock', s))
      BY DEF Entries
    <3>1. CASE s = new
      BY <3>1, <2>1, <2>2, <2>3, <2>6 DEF IsValid, Verifies
    <3>2. CASE s \in integrityBlock.signatureStack
      BY <3>2, <2>1, <2>6 DEF Entries, IsValid
    <3>3. QED
      BY <3>1, <3>2, <2>6
  <2>14. Progress'
    <3> SUFFICES ASSUME NEW d \in Callers, NEW i \in DOMAIN call'[d].strategies,
                        call'[d].pc = "resolved" \/ (UnderWay(d)' /\ i < call'[d].next)
                 PROVE  Landed(d, i)'
      BY DEF Progress
    <3>1. CASE d # c
      BY <3>1, <2>1, <2>6, <2>10 DEF Progress, Landed, UnderWay
    <3>2. CASE d = c /\ i = call[c].next
      <4>1. /\ new \in integrityBlock'.signatureStack
            /\ new.key = key /\ new.signedId = signedId /\ new.epoch = call[c].epoch
        BY <2>6
      <4>2. QED
        BY <3>2, <4>1, <2>3, <2>10 DEF Landed
    <3>3. CASE d = c /\ i # call[c].next
      <4>1. i \in DOMAIN call[c].strategies /\ i \in Nat /\ call[c].next \in Nat
        BY <3>3, <2>2, <2>10
      <4>2. i < call[c].next
        <5>1. CASE call'[c].pc = "resolved"
          <6>1. ~(call[c].next < Len(call[c].strategies))
            BY <5>1, <2>10 DEF MoreStrategies
          <6>2. QED
            BY <6>1, <4>1, <3>3, <2>2
        <5>2. CASE i < call'[c].next
          BY <5>2, <4>1, <3>3, <2>10
        <5>3. QED
          BY <5>1, <5>2, <3>3
      <4>3. Landed(c, i)
        BY <4>1, <4>2, <2>1 DEF Progress
      <4>4. QED
        BY <4>3, <3>3, <2>1, <2>6, <2>10 DEF Landed
    <3>4. QED
      BY <3>1, <3>2, <3>3
  <2>15. QED
    BY <2>9, <2>12, <2>13, <2>14
<1>3. QED
  BY <1>1, <1>2

LEMMA RemoveSignatureKeepsIInv ==
  ASSUME IInv, NEW key \in Keys, RemoveSignature(key)
  PROVE  IInv'
<1> USE DEF IInv
<1>1. /\ integrityBlock \in BlockType
      /\ integrityBlock' = [integrityBlock EXCEPT
           !.signatureStack = {s \in @ : s.key # key}]
      /\ removed' = [c \in Callers |-> removed[c] \union {key}]
      /\ UNCHANGED <<call, saved, promised, pushes, epoch>>
  BY DEF RemoveSignature, RemoveIntegritySignature, Stored
<1>2. /\ integrityBlock' \in BlockType
      /\ integrityBlock'.webBundleId = integrityBlock.webBundleId
      /\ integrityBlock'.signatureStack = {s \in integrityBlock.signatureStack : s.key # key}
  BY <1>1 DEF BlockType
<1>3. Stored' /\ Saved'
  <2>1. pushes \in Nat /\ pushes <= pushes'
    BY <1>1, SigningAssumption DEF Stored
  <2>2. Saved'
    BY <1>1, <2>1, SameBytes
  <2>3. QED
    BY <1>1, <1>2, <2>2 DEF Stored, Numbered
<1>4. Calls'
  BY <1>1, <1>2 DEF Calls, UnderWay
<1>5. Entries'
  BY <1>1, <1>2 DEF Entries, IsValid
<1>6. Progress'
  BY <1>1, <1>2 DEF Progress, Landed, UnderWay
<1>7. QED
  BY <1>3, <1>4, <1>5, <1>6

LEMMA OverrideBundleIdKeepsIInv ==
  ASSUME IInv, NEW id \in Ids, OverrideBundleId(id)
  PROVE  IInv'
<1> USE DEF IInv
<1>1. /\ integrityBlock \in BlockType
      /\ epoch \in Nat /\ MaxOverrides \in Nat
      /\ epoch <= MaxOverrides
      /\ integrityBlock' = [integrityBlock EXCEPT !.webBundleId = id]
      /\ epoch' = epoch + 1
      /\ UNCHANGED <<call, saved, promised, pushes, removed>>
  BY SigningAssumption DEF OverrideBundleId, SetWebBundleId, Stored
<1>2. /\ integrityBlock' \in BlockType
      /\ integrityBlock'.signatureStack = integrityBlock.signatureStack
      /\ integrityBlock.signatureStack \subseteq SignatureType
  BY <1>1 DEF BlockType
<1>3. Stored' /\ Saved'
  <2>1. pushes \in Nat /\ pushes <= pushes'
    BY <1>1, SigningAssumption DEF Stored
  <2>2. Saved'
    BY <1>1, <2>1, SameBytes
  <2>3. QED
    BY <1>1, <1>2, <2>2 DEF Stored, Numbered
<1>4. Calls'
  <2>1. \A c \in Callers : call[c].epoch \in Nat
    BY DEF Calls, CallType
  <2>2. QED
    BY <1>1, <2>1 DEF Calls, UnderWay
<1>5. Entries'
  BY <1>1, <1>2 DEF Entries, SignatureType
<1>6. Progress'
  BY <1>1, <1>2 DEF Progress, Landed, UnderWay
<1>7. QED
  BY <1>3, <1>4, <1>5, <1>6

LEMMA GetSignedWebBundleBytesKeepsIInv ==
  ASSUME IInv, GetSignedWebBundleBytes
  PROVE  IInv'
<1> USE DEF IInv
<1> DEFINE file == SignedBytes(integrityBlock)
           read == FromCbor(file.block)
<1>1. /\ CanBeSaved(integrityBlock)
      /\ saved' = file
      /\ promised' = Promised
      /\ UNCHANGED <<integrityBlock, call, pushes, epoch, removed>>
      /\ integrityBlock \in BlockType
  BY DEF GetSignedWebBundleBytes, Stored
<1>2. /\ file \in FileType
      /\ FromBytesAccepts(file)
      /\ read \in BlockType
      /\ read = [webBundleId |-> integrityBlock.webBundleId,
                 signatureStack |-> {[s EXCEPT !.epoch = 0] :
                                       s \in integrityBlock.signatureStack}]
  BY <1>1, BytesReadBack
<1> HIDE DEF file
<1>3. read.webBundleId = integrityBlock.webBundleId /\ read.webBundleId # EmptyId
  BY <1>1, <1>2 DEF CanBeSaved
<1>4. integrityBlock.signatureStack \subseteq SignatureType
  BY <1>1 DEF BlockType
<1>5. /\ \A s \in read.signatureStack :
           \E t \in integrityBlock.signatureStack : s = [t EXCEPT !.epoch = 0]
      /\ \A t \in integrityBlock.signatureStack : [t EXCEPT !.epoch = 0] \in read.signatureStack
  BY <1>2
<1>6. Numbered(read) /\ \A s \in read.signatureStack : s.epoch = 0
  BY <1>4, <1>5 DEF Numbered, SignatureType, Stored
<1>7. ASSUME NEW key \in Promised
      PROVE  \E s \in read.signatureStack : s.key = key /\ IsValid(read, s)
  <2>1. PICK c \in Callers : /\ call[c].pc = "resolved"
                             /\ call[c].epoch = epoch
                             /\ key \in Range(call[c].strategies) \ removed[c]
    BY <1>7 DEF Promised
  <2>2. PICK i \in DOMAIN call[c].strategies : call[c].strategies[i] = key
    BY <2>1 DEF Range
  <2>3. PICK t \in integrityBlock.signatureStack : t.key = key /\ t.epoch = epoch
    BY <2>1, <2>2 DEF Progress, Landed
  <2>4. IsValid(integrityBlock, t)
    BY <2>3 DEF Entries
  <2>5. /\ [t EXCEPT !.epoch = 0] \in read.signatureStack
        /\ [t EXCEPT !.epoch = 0].key = key
        /\ IsValid(read, [t EXCEPT !.epoch = 0])
    BY <1>3, <1>4, <1>5, <2>3, <2>4 DEF IsValid, Verifies, SignatureType
  <2>6. QED
    BY <2>5
<1>8. Saved'
  <2>1. saved' \in FileType \union {NoBytes} /\ promised' \subseteq Keys
    BY <1>1, <1>2 DEF Promised
  <2>2. FromCbor(saved'.block) = read
    BY <1>1
  <2>3. SavedBytesLoad'
    BY <1>1, <1>2, <1>3, <1>7, <2>2 DEF SavedBytesLoad
  <2> HIDE DEF read
  <2>4. Numbered(FromCbor(saved.block))'
    BY <1>1, <1>6, <2>2 DEF Numbered
  <2>5. FromCbor(saved'.block) \in BlockType
          /\ \A s \in FromCbor(saved'.block).signatureStack : s.epoch = 0
    BY <1>2, <1>6, <2>2
  <2>6. QED
    BY <2>1, <2>3, <2>4, <2>5 DEF Saved
<1>9. Stored'
  BY <1>1 DEF Stored, Numbered
<1>10. Calls' /\ Entries' /\ Progress'
  BY <1>1 DEF Calls, Entries, Progress, Landed, UnderWay
<1>11. QED
  BY <1>8, <1>9, <1>10

LEMMA FromBytesKeepsIInv ==
  ASSUME IInv, FromBytes
  PROVE  IInv'
<1> USE DEF IInv
<1>1. /\ integrityBlock' = FromCbor(saved.block)
      /\ FromCbor(saved.block) \in BlockType
      /\ Numbered(FromCbor(saved.block))
      /\ \A s \in FromCbor(saved.block).signatureStack : s.epoch = 0
      /\ call' = [c \in Callers |-> IdleCall]
      /\ removed' = [c \in Callers |-> {}]
      /\ UNCHANGED <<saved, promised, pushes, epoch>>
  BY DEF FromBytes, Saved
<1>2. Stored' /\ Saved'
  <2>1. pushes \in Nat /\ pushes <= pushes'
    BY <1>1, SigningAssumption DEF Stored
  <2>2. Saved'
    BY <1>1, <2>1, SameBytes
  <2>3. QED
    BY <1>1, <2>2 DEF Stored, Numbered
<1>3. Calls'
  BY <1>1, IdleCallType DEF Calls, UnderWay
<1>4. Entries'
  <2>1. epoch \in Nat /\ epoch # 0
    BY SigningAssumption DEF Stored
  <2>2. QED
    BY <1>1, <2>1 DEF Entries
<1>5. Progress'
  BY <1>1, IdleCallType DEF Progress, UnderWay
<1>6. QED
  BY <1>2, <1>3, <1>4, <1>5

LEMMA StutteringKeepsIInv ==
  ASSUME IInv, UNCHANGED vars
  PROVE  IInv'
BY SameBlock DEF IInv, Calls, Progress, Landed, UnderWay, vars

(* The inductive invariant holds in every reachable state. *)
THEOREM SigningInvariance == Spec => []IInv
<1>1. IInv /\ [Next]_vars => IInv'
  <2> SUFFICES ASSUME IInv, [Next]_vars PROVE IInv'
    OBVIOUS
  <2>1. ASSUME NEW c \in Callers, NEW strategies \in StrategyLists,
               StartSigning(c, strategies)
        PROVE  IInv'
    BY <2>1, StartSigningKeepsIInv
  <2>2. ASSUME NEW c \in Callers, PublicKeyResolved(c)
        PROVE  IInv'
    BY <2>2, PublicKeyResolvedKeepsIInv
  <2>3. ASSUME NEW c \in Callers, StrategyRejects(c)
        PROVE  IInv'
    BY <2>3, RejectionKeepsIInv DEF StrategyRejects
  <2>4. ASSUME NEW c \in Callers, NEW signer \in Keys, NEW signedId \in Ids,
               SignResolved(c, signer, signedId)
        PROVE  IInv'
    BY <2>4, SignResolvedKeepsIInv
  <2>5. ASSUME NEW key \in Keys, RemoveSignature(key)
        PROVE  IInv'
    BY <2>5, RemoveSignatureKeepsIInv
  <2>6. ASSUME NEW id \in Ids, OverrideBundleId(id)
        PROVE  IInv'
    BY <2>6, OverrideBundleIdKeepsIInv
  <2>7. CASE GetSignedWebBundleBytes
    BY <2>7, GetSignedWebBundleBytesKeepsIInv
  <2>8. CASE FromBytes
    BY <2>8, FromBytesKeepsIInv
  <2>9. CASE UNCHANGED vars
    BY <2>9, StutteringKeepsIInv
  <2>10. QED
    BY <2>1, <2>2, <2>3, <2>4, <2>5, <2>6, <2>7, <2>8, <2>9 DEF Next
<1>2. QED
  BY InitEstablishesIInv, <1>1, PTL DEF Spec

(* Every reachable state is well formed. *)
THEOREM SigningTypeCorrectness == Spec => []TypeOK
<1>1. IInv => TypeOK
  BY DEF IInv, Stored, Saved, Calls, Numbered, TypeOK
<1>2. QED
  BY SigningInvariance, <1>1, PTL

(* However signing calls interleave, fail, or answer with a foreign         *)
(* signature, a signature whose making began after the last override of the*)
(* Web Bundle ID is valid.                                                 *)
THEOREM NoInvalidSignatures == Spec => []ValidUnlessOverridden
<1>1. IInv => ValidUnlessOverridden
  BY DEF IInv, Entries, ValidUnlessOverridden
<1>2. QED
  BY SigningInvariance, <1>1, PTL

(* No concurrent signing call loses the signatures of another one. *)
THEOREM NoLostSignatures == Spec => []ResolvedMeansPresent
<1>1. IInv => ResolvedMeansPresent
  BY DEF IInv, Progress, Landed, ResolvedMeansPresent
<1>2. QED
  BY SigningInvariance, <1>1, PTL

(* Bytes that were saved in the middle of whatever calls can be read back, *)
(* with an ID and a valid signature for each call answered by then.        *)
THEOREM SavedBytesCanBeRead == Spec => []SavedBytesLoad
<1>1. IInv => SavedBytesLoad
  BY DEF IInv, Saved
<1>2. QED
  BY SigningInvariance, <1>1, PTL
=============================================================================
