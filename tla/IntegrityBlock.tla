--------------------------- MODULE IntegrityBlock ---------------------------
(***************************************************************************)
(* The integrity block of js/sign/src/core/integrity-block.ts: a Web Bundle*)
(* ID and a stack of signatures; its encoding; and the file that the block *)
(* and the bundle make up (signed-web-bundle.ts).  The stripped CBOR of a  *)
(* block, which every signature covers together with the hash of the bundle*)
(* and the signer's own attributes, is the ID.  The bundle never changes   *)
(* while it is being signed.                                               *)
(*                                                                         *)
(* The stack is the set of its entries, numbered in the order in which they*)
(* were pushed: nothing in the code looks at the order of two entries.     *)
(***************************************************************************)
EXTENDS Naturals

CONSTANTS
  Keys,    \* key pairs
  Ids,     \* Web Bundle IDs, and whatever else stands in their place
  EmptyId  \* an ID that counts as not set: the empty string

ASSUME BlockAssumption == Keys # {} /\ EmptyId \in Ids

(* An entry pushed as the at-th: it names key; it was made with the private*)
(* key of signer over the ID signedId.  epoch records (for the properties  *)
(* only) how often the ID had been overridden when its making began; it is *)
(* 0 for an entry that was read from a file, whose validity nobody checked.*)
SignatureType == [at : Nat, key : Keys, signer : Keys, signedId : Ids, epoch : Nat]
BlockType == [webBundleId : Ids, signatureStack : SUBSET SignatureType]

(* verifySignature: the data to be signed holds the attribute with the key *)
(* and the stripped CBOR.                                                  *)
Verifies(signer, signedId, key, ibCbor) == signer = key /\ signedId = ibCbor

(* What validateSignatures answers for an entry of the block. *)
IsValid(block, s) == Verifies(s.signer, s.signedId, s.key, block.webBundleId)

ToStrippedCbor(block) == block.webBundleId

SetWebBundleId(block, id) == [block EXCEPT !.webBundleId = id]

AddIntegritySignature(block, s) ==
  [block EXCEPT !.signatureStack = @ \union {s}]

(* Every entry that names the key goes, not only one of them. *)
RemoveIntegritySignature(block, key) ==
  [block EXCEPT !.signatureStack = {s \in @ : s.key # key}]

-----------------------------------------------------------------------------
(* Encoding and decoding *)

(* What the octets of an integrity block hold.  wellFormed: they are one   *)
(* item of CBOR, and each part has the type that fromCbor wants; magic and *)
(* version: those of the format.  Attributes are maps by name, of the block*)
(* to IDs and of a signature to keys; "publicKey" stands for the names of  *)
(* both supported types of keys.                                           *)
EncodedSignatures(numbers) ==
  [attributes : UNION {[names -> Keys] : names \in SUBSET {"publicKey", "unknown"}},
   signature : [at : numbers, signer : Keys, signedId : Ids]]
EncodedBlocks(stacks) ==
  [wellFormed : BOOLEAN, magic : BOOLEAN, version : BOOLEAN,
   attributes : UNION {[names -> Ids] : names \in SUBSET {"webBundleId", "other"}},
   signatureStack : stacks]

EncodedSignature(s) ==
  [attributes |-> [name \in {"publicKey"} |-> s.key],
   signature |-> [at |-> s.at, signer |-> s.signer, signedId |-> s.signedId]]

ToCbor(block) ==
  [wellFormed |-> TRUE, magic |-> TRUE, version |-> TRUE,
   attributes |-> [name \in {"webBundleId"} |-> block.webBundleId],
   signatureStack |-> {EncodedSignature(s) : s \in block.signatureStack}]

(* All checks of fromCbor: an entry has one attribute, of a known name. *)
FromCborAccepts(encoded) ==
  /\ encoded.wellFormed
  /\ encoded.magic
  /\ encoded.version
  /\ "webBundleId" \in DOMAIN encoded.attributes
  /\ encoded.signatureStack # {}
  /\ \A e \in encoded.signatureStack : DOMAIN e.attributes = {"publicKey"}

DecodedSignature(e) ==
  [at |-> e.signature.at, key |-> e.attributes["publicKey"], signer |-> e.signature.signer,
   signedId |-> e.signature.signedId, epoch |-> 0]

(* The block's other attributes are dropped. *)
FromCbor(encoded) ==
  [webBundleId |-> encoded.attributes["webBundleId"],
   signatureStack |-> {DecodedSignature(e) : e \in encoded.signatureStack}]

(* A file: an integrity block and the bundle behind it, with the length it *)
(* has and the length that its last octets state.                          *)
FileType ==
  [block : EncodedBlocks(SUBSET EncodedSignatures(Nat)), length : Nat, stated : Nat]

(* The bundle of an object states its own length: the signer compares them,*)
(* and fromBytes takes as many octets as are stated.                       *)
PureWebBundle == [length |-> 1, stated |-> 1]

(* What getSignedWebBundleBytes needs: a signature, and an ID. *)
CanBeSaved(block) == block.signatureStack # {} /\ block.webBundleId # EmptyId

SignedBytes(block) ==
  [block |-> ToCbor(block), length |-> PureWebBundle.length, stated |-> PureWebBundle.stated]

(* Mutant of FromBytesAccepts: what follows the integrity block is taken as*)
(* the bundle, however long it says it is.                                 *)
FromBytesTakesTheRest(file) == file.block.magic /\ FromCborAccepts(file.block)

(* fromBytes looks for the magic, and takes all but the stated length from *)
(* the end as the integrity block.  When that is another length than the   *)
(* bundle has, the octets are a part of the block or more than the block,  *)
(* or there are none, and no item of CBOR.                                 *)
FromBytesAccepts(file) ==
  /\ file.block.magic
  /\ file.length = file.stated
  /\ FromCborAccepts(file.block)
=============================================================================
