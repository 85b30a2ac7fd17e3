--------------------------- MODULE SignedWebBundle --------------------------
(***************************************************************************)
(* One SignedWebBundle object (js/sign/src/core/signed-web-bundle.ts) and  *)
(* the IntegrityBlockSigner calls that sign its integrity block            *)
(* (signers/integrity-block-signer.ts).  A signing call is asynchronous: it*)
(* waits for getPublicKey and for sign of each of its strategies, and other*)
(* calls on the same object, signing ones among them, run in between.      *)
(* Strategies are the caller's code: they may reject, and may answer with a*)
(* signature that was made with another key or over other data.            *)
(***************************************************************************)
EXTENDS IntegrityBlock, Sequences, Functions

CONSTANTS
  Callers,       \* the signing calls that may be under way at one time
  StrategyLists, \* what a call may be given: the keys its strategies answer with
  MaxPushes,     \* bound: signatures ever pushed
  MaxOverrides   \* bound: calls of overrideBundleId

ASSUME SigningAssumption ==
  /\ StrategyLists \subseteq Seq(Keys) \ {<<>>}
  /\ MaxPushes \in Nat
  /\ MaxOverrides \in Nat

VARIABLES
  integrityBlock,  \* the object's integrity block
  call,            \* call[c]: the signing call of c, or the last one
  saved,           \* the file of what getSignedWebBundleBytes returned last
  promised,        \* keys with a valid signature in it, as its caller may expect
  pushes,          \* how many signatures have been pushed
  epoch,           \* 1 + how often the ID has been overridden
  removed          \* removed[c]: keys removed since call c began

vars == <<integrityBlock, call, saved, promised, pushes, epoch, removed>>

NoBytes == [block |-> "none"]

(* strategies: the public keys the call's signing strategies answer with;  *)
(* next: the strategy whose turn it is; ibCbor: the stripped CBOR, encoded *)
(* once, before the first await.                                           *)
CallType ==
  [pc : {"idle", "getPublicKey", "sign", "resolved", "rejected"},
   strategies : Seq(Keys), next : Nat, ibCbor : Ids, epoch : Nat]

IdleCall ==
  [pc |-> "idle", strategies |-> <<>>, next |-> 1, ibCbor |-> EmptyId, epoch |-> 0]

(* The promise of a call that failed tells nothing but that it failed. *)
RejectedCall == [IdleCall EXCEPT !.pc = "rejected"]

UnderWay(c) == call[c].pc \in {"getPublicKey", "sign"}

(* Files that others wrote: whole and cut ones, and ones that are not what *)
(* fromCbor wants, with at most one entry, as its checks take each alone.  *)
ForeignFiles ==
  [block : EncodedBlocks({{}} \union {{e} : e \in EncodedSignatures({0})}),
   length : {1}, stated : 0..2]

(* An object read from a file, with a signature nobody has validated, or   *)
(* the new block of an IntegrityBlockSigner that was given an ID.          *)
Init ==
  /\ \/ \E file \in ForeignFiles :
          FromBytesAccepts(file) /\ integrityBlock = FromCbor(file.block)
     \/ \E id \in Ids : integrityBlock = [webBundleId |-> id, signatureStack |-> {}]
  /\ call = [c \in Callers |-> IdleCall]
  /\ saved = NoBytes
  /\ promised = {}
  /\ pushes = 0
  /\ epoch = 1
  /\ removed = [c \in Callers |-> {}]

-----------------------------------------------------------------------------
(* Signing: signAndGetIntegrityBlock, called by addSignature (with one     *)
(* strategy) and by sign.  All steps act on the one integrity block that   *)
(* the object and its signers share.                                       *)

(* Up to the first await: the stripped CBOR is encoded. *)
StartSigning(c, strategies) ==
  /\ ~UnderWay(c)
  /\ call' = [call EXCEPT ![c] =
       [pc |-> "getPublicKey", strategies |-> strategies, next |-> 1,
        ibCbor |-> ToStrippedCbor(integrityBlock), epoch |-> epoch]]
  /\ removed' = [removed EXCEPT ![c] = {}]
  /\ UNCHANGED <<integrityBlock, saved, promised, pushes, epoch>>

(* getPublicKey answers with a supported public key; the attributes are    *)
(* encoded and sign is called, with no await in between.                   *)
PublicKeyResolved(c) ==
  /\ call[c].pc = "getPublicKey"
  /\ call' = [call EXCEPT ![c].pc = "sign"]
  /\ UNCHANGED <<integrityBlock, saved, promised, pushes, epoch, removed>>

(* getPublicKey or sign rejects, or the key is not of a supported type: the*)
(* call is over, and the signatures of earlier strategies stay.            *)
StrategyRejects(c) ==
  /\ UnderWay(c)
  /\ call' = [call EXCEPT ![c] = RejectedCall]
  /\ UNCHANGED <<integrityBlock, saved, promised, pushes, epoch, removed>>

(* Mutant of Push: the signature goes to a copy of the stack that the call *)
(* took when it began, before the entries it lacks were pushed.            *)
PushToCopy(c, s) ==
  integrityBlock' = [integrityBlock EXCEPT !.signatureStack =
    {t \in @ : t.epoch = 0} \union {s}]

Push(c, s) == integrityBlock' = AddIntegritySignature(integrityBlock, s)

(* Mutant of Accepts: the answer of the strategy is not verified. *)
AcceptsAnything(c, signer, signedId) == TRUE

Accepts(c, signer, signedId) ==
  Verifies(signer, signedId, call[c].strategies[call[c].next], call[c].ibCbor)

(* Mutant of MoreStrategies: the loop goes one round too far. *)
OneStrategyTooMany(c) == call[c].next <= Len(call[c].strategies)

MoreStrategies(c) == call[c].next < Len(call[c].strategies)

(* sign answers with a signature of signer over signedId. *)
SignResolved(c, signer, signedId) ==
  /\ call[c].pc = "sign"
  /\ pushes < MaxPushes
  /\ \/ /\ ~Accepts(c, signer, signedId)
        /\ call' = [call EXCEPT ![c] = RejectedCall]
        /\ UNCHANGED <<integrityBlock, pushes>>
     \/ /\ Accepts(c, signer, signedId)
        /\ pushes' = pushes + 1
        /\ Push(c, [at |-> pushes + 1, key |-> call[c].strategies[call[c].next],
                    signer |-> signer, signedId |-> signedId, epoch |-> call[c].epoch])
        /\ call' = [call EXCEPT
             ![c].pc = IF MoreStrategies(c) THEN "getPublicKey" ELSE "resolved",
             ![c].next = @ + 1]
  /\ UNCHANGED <<saved, promised, epoch, removed>>

-----------------------------------------------------------------------------
(* The synchronous methods *)

RemoveSignature(key) ==
  /\ integrityBlock' = RemoveIntegritySignature(integrityBlock, key)
  /\ removed' = [c \in Callers |-> removed[c] \union {key}]
  /\ UNCHANGED <<call, saved, promised, pushes, epoch>>

OverrideBundleId(id) ==
  /\ epoch <= MaxOverrides
  /\ integrityBlock' = SetWebBundleId(integrityBlock, id)
  /\ epoch' = epoch + 1
  /\ UNCHANGED <<call, saved, promised, pushes, removed>>

(* What the callers of the resolved signing calls may expect in the bytes: *)
(* a valid signature of each key, unless the key was removed or the ID     *)
(* overridden since the call began.                                        *)
Promised ==
  {key \in Keys : \E c \in Callers :
     /\ call[c].pc = "resolved"
     /\ call[c].epoch = epoch
     /\ key \in Range(call[c].strategies) \ removed[c]}

(* Mutant of GetSignedWebBundleBytes: the bytes are kept and returned again.*)
GetSameBytesAgain ==
  /\ CanBeSaved(integrityBlock)
  /\ saved' = IF saved = NoBytes THEN SignedBytes(integrityBlock) ELSE saved
  /\ promised' = Promised
  /\ UNCHANGED <<integrityBlock, call, pushes, epoch, removed>>

(* Throws, and changes nothing, when there is no signature or no ID. *)
GetSignedWebBundleBytes ==
  /\ CanBeSaved(integrityBlock)
  /\ saved' = SignedBytes(integrityBlock)
  /\ promised' = Promised
  /\ UNCHANGED <<integrityBlock, call, pushes, epoch, removed>>

(* fromBytes: a new object, on which no call is under way. *)
FromBytes ==
  /\ saved # NoBytes
  /\ FromBytesAccepts(saved)
  /\ \A c \in Callers : ~UnderWay(c)
  /\ integrityBlock' = FromCbor(saved.block)
  /\ call' = [c \in Callers |-> IdleCall]
  /\ removed' = [c \in Callers |-> {}]
  /\ UNCHANGED <<saved, promised, pushes, epoch>>

Next ==
  \/ \E c \in Callers :
       \/ \E strategies \in StrategyLists : StartSigning(c, strategies)
       \/ PublicKeyResolved(c)
       \/ StrategyRejects(c)
       \/ \E signer \in Keys, signedId \in Ids : SignResolved(c, signer, signedId)
  \/ \E key \in Keys : RemoveSignature(key)
  \/ \E id \in Ids : OverrideBundleId(id)
  \/ GetSignedWebBundleBytes
  \/ FromBytes

Spec == Init /\ [][Next]_vars

-----------------------------------------------------------------------------
(* Properties *)

(* Type invariant; entries are told apart by their numbers. *)
TypeOK ==
  /\ integrityBlock \in BlockType
  /\ call \in [Callers -> CallType]
  /\ saved \in FileType \union {NoBytes}
  /\ promised \subseteq Keys
  /\ pushes \in 0..MaxPushes
  /\ epoch \in 1..(MaxOverrides + 1)
  /\ removed \in [Callers -> SUBSET Keys]
  /\ \A s \in integrityBlock.signatureStack : s.at <= pushes
  /\ \A s, t \in integrityBlock.signatureStack : s.at = t.at => s = t
  /\ \A c \in Callers : UnderWay(c) => call[c].next \in DOMAIN call[c].strategies

(* A signature that was made on this object is valid unless the Web Bundle *)
(* ID was overridden after its making began: no rejected call, concurrent  *)
(* signing call or removal ever leaves an entry in the block that          *)
(* validateSignatures would report as invalid.                             *)
ValidUnlessOverridden ==
  \A s \in integrityBlock.signatureStack :
    s.epoch = epoch => IsValid(integrityBlock, s)

(* Signatures that are made concurrently do not push each other out: when a*)
(* signing call has resolved, the block holds a signature for each of its  *)
(* strategies, unless that key was removed after the call began.           *)
ResolvedMeansPresent ==
  \A c \in Callers :
    call[c].pc = "resolved" =>
      \A i \in DOMAIN call[c].strategies :
        \/ call[c].strategies[i] \in removed[c]
        \/ \E s \in integrityBlock.signatureStack : s.key = call[c].strategies[i]
                                                    /\ s.signedId = call[c].ibCbor

(* Bytes that getSignedWebBundleBytes returned, in the middle of whatever  *)
(* calls, can be read back by fromBytes, as a bundle that has an ID and a  *)
(* valid signature for every signing call that had been answered by then,  *)
(* unless its key was removed or the ID overridden before.                 *)
SavedBytesLoad ==
  saved # NoBytes =>
    /\ FromBytesAccepts(saved)
    /\ LET block == FromCbor(saved.block)
       IN /\ block.webBundleId # EmptyId
          /\ \A key \in promised :
               \E s \in block.signatureStack : s.key = key /\ IsValid(block, s)
=============================================================================
