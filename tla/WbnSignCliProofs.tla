-------------------------- MODULE WbnSignCliProofs --------------------------
(***************************************************************************)
(* Proofs about commands of wbn-sign over files, for any number of files,  *)
(* keys and IDs, and commands with any lists of keys, which may be killed  *)
(* and may fail to write.                                                  *)
(***************************************************************************)
EXTENDS WbnSignCli, TLAPS

(* A block that a command can have made: all of its signatures are valid   *)
(* for its ID.                                                             *)
IsGood(block) ==
  /\ block \in BlockType
  /\ \A s \in block.signatureStack : IsValid(block, s) /\ s.epoch = 0

FilesInv ==
  /\ files = [p \in Paths |-> files[p]]
  /\ \A p \in Paths : Opens(files[p]) =>
       /\ files[p].bytes.length = PureWebBundle.length
       /\ IsGood(Read(files[p])) /\ Fits(Read(files[p]))

(* The files are as they were until the output is opened, and the others   *)
(* stay so.                                                                *)
BeforeInv ==
  /\ pc = "write" => files = before
  /\ pc \in {"writing", "success"} =>
       \A p \in Paths \ {command.output} : files[p] = before[p]

(* What is to be written is a signed bundle that is as asked. *)
ResultInv ==
  pc \in {"write", "writing", "success"} =>
    /\ command \in Commands
    /\ IsGood(result) /\ Fits(result) /\ CanBeSaved(result)
    /\ AsAsked(command, StackIn(command, before[command.path]), result.signatureStack)

WrittenInv == pc = "success" => files[command.output] = Swbn(SignedBytes(result))

IInv == FilesInv /\ BeforeInv /\ ResultInv /\ WrittenInv /\ FailureHarmsOnlyTheOutput

-----------------------------------------------------------------------------
(* What the operations on a block do.                                      *)

LEMMA EmptyIsGood ==
  ASSUME NEW id \in Ids
  PROVE  IsGood(EmptyBlock(id)) /\ Fits(EmptyBlock(id))
BY DEF IsGood, EmptyBlock, BlockType, Fits

(* What is written of a block, fromBytes reads as the same block.          *)
LEMMA WrittenReadsBack ==
  ASSUME NEW block, IsGood(block), CanBeSaved(block)
  PROVE  /\ Opens(Swbn(SignedBytes(block)))
         /\ Read(Swbn(SignedBytes(block))) = block
         /\ SignedBytes(block).length = PureWebBundle.length
<1> DEFINE stack == {EncodedSignature(s) : s \in block.signatureStack}
           encoded == SignedBytes(block).block
<1>1. /\ block.signatureStack \subseteq SignatureType
      /\ block = [webBundleId |-> block.webBundleId, signatureStack |-> block.signatureStack]
  BY DEF IsGood, BlockType
<1>2. encoded = [wellFormed |-> TRUE, magic |-> TRUE, version |-> TRUE,
                 attributes |-> [name \in {"webBundleId"} |-> block.webBundleId],
                 signatureStack |-> stack]
  BY DEF SignedBytes, ToCbor
<1>3. ASSUME NEW s \in block.signatureStack
      PROVE  /\ DOMAIN EncodedSignature(s).attributes = {"publicKey"}
             /\ DecodedSignature(EncodedSignature(s)) = s
  <2>1. s \in [at : Nat, key : Keys, signer : Keys, signedId : Ids, epoch : Nat]
    BY <1>1, <1>3 DEF SignatureType
  <2>2. s.epoch = 0
    BY <1>3 DEF IsGood
  <2>3. QED
    BY <2>1, <2>2 DEF EncodedSignature, DecodedSignature
<1>4. stack # {}
  <2>1. PICK s \in block.signatureStack : TRUE
    BY DEF CanBeSaved
  <2>2. EncodedSignature(s) \in stack
    BY <2>1
  <2> HIDE DEF stack
  <2>3. QED
    BY <2>2
<1>5. \A e \in stack : DOMAIN e.attributes = {"publicKey"}
  BY <1>3
<1>6. {DecodedSignature(e) : e \in stack} = block.signatureStack
  BY <1>3
<1> HIDE DEF stack, encoded
<1>7. FromCbor(encoded) = block
  <2>1. encoded.attributes["webBundleId"] = block.webBundleId /\ encoded.signatureStack = stack
    BY <1>2
  <2>2. QED
    BY <2>1, <1>1, <1>6 DEF FromCbor
<1>8. FromBytesAccepts(SignedBytes(block))
  <2>1. SignedBytes(block).length = SignedBytes(block).stated
    BY DEF SignedBytes, PureWebBundle
  <2>2. FromCborAccepts(encoded) /\ encoded.magic
    BY <1>2, <1>4, <1>5 DEF FromCborAccepts
  <2>3. QED
    BY <2>1, <2>2 DEF FromBytesAccepts, encoded
<1>9. QED
  BY <1>7, <1>8 DEF Opens, Read, Swbn, encoded, SignedBytes

(* No part of a file can be opened.                                        *)
LEMMA PartsDoNotOpen ==
  ASSUME NEW block, NEW part \in Cut(SignedBytes(block))
  PROVE  ~Opens(Swbn(part))
<1> DEFINE bytes == SignedBytes(block)
           empty == SignedBytes(NoBlock)
<1>1. /\ bytes = [block |-> bytes.block, length |-> 1, stated |-> 1]
      /\ empty = [block |-> empty.block, length |-> 1, stated |-> 1]
  BY DEF SignedBytes, PureWebBundle
<1> HIDE DEF bytes, empty
<1>2. ASSUME part = [bytes EXCEPT !.length = 0]
      PROVE  part.length # part.stated
  BY <1>1, <1>2
<1>3. ASSUME part = PartOfBlock
      PROVE  part.length # part.stated
  BY <1>1, <1>3 DEF PartOfBlock, empty
<1>4. part.length # part.stated
  BY <1>2, <1>3 DEF Cut, bytes
<1>5. QED
  BY <1>4 DEF Opens, Swbn, FromBytesAccepts

(* The numbers that entries get are new ones.                              *)
LEMMA NumbersAreNew ==
  ASSUME NEW block, IsGood(block), Fits(block)
  PROVE  /\ NextNumber(block) \in Nat
         /\ \A s \in block.signatureStack : s.at < NextNumber(block)
<1>1. \A s \in block.signatureStack : s.at \in Nat /\ s.at <= MaxEntries
  BY DEF IsGood, BlockType, SignatureType, Fits
<1>2. MaxEntries \in Nat
  BY CliAssumption
<1>3. /\ MaxEntries + 1 \in 1..(MaxEntries + 1)
      /\ \A s \in block.signatureStack : s.at < MaxEntries + 1
  BY <1>1, <1>2
<1>4. /\ NextNumber(block) \in 1..(MaxEntries + 1)
      /\ \A s \in block.signatureStack : s.at < NextNumber(block)
  BY <1>3 DEF NextNumber
<1>5. QED
  BY <1>2, <1>4

(* Signatures that are added are new, valid for the ID the block has, and  *)
(* of the keys given.                                                      *)
LEMMA AddedAreValid ==
  ASSUME NEW block, IsGood(block), Fits(block), NEW keys \in Seq(Keys)
  PROVE  LET added == AddSignatures(block, keys)
         IN /\ IsGood(added)
            /\ block.signatureStack \subseteq added.signatureStack
            /\ \A s \in added.signatureStack \ block.signatureStack : s.key \in Range(keys)
            /\ \A key \in Range(keys) :
                 \E s \in added.signatureStack \ block.signatureStack : s.key = key
<1> DEFINE new == {NewSignature(block, keys[i], i) : i \in DOMAIN keys}
           id == block.webBundleId
           number == NextNumber(block)
<1>1. block \in BlockType /\ id \in Ids
  BY DEF IsGood, BlockType
<1>2. number \in Nat /\ \A s \in block.signatureStack : s.at < number
  BY NumbersAreNew
<1>3. ASSUME NEW i \in DOMAIN keys
      PROVE  /\ NewSignature(block, keys[i], i) \in SignatureType \ block.signatureStack
             /\ NewSignature(block, keys[i], i).key = keys[i]
             /\ NewSignature(block, keys[i], i).signer = keys[i]
             /\ NewSignature(block, keys[i], i).signedId = id
             /\ NewSignature(block, keys[i], i).epoch = 0
  <2> DEFINE s == NewSignature(block, keys[i], i)
             at == number + i - 1
  <2>1. i \in Nat /\ i >= 1 /\ keys[i] \in Keys
    BY <1>3
  <2>2. s = [at |-> at, key |-> keys[i], signer |-> keys[i], signedId |-> id, epoch |-> 0]
    BY DEF NewSignature, Valid
  <2> HIDE DEF number
  <2>3. at \in Nat /\ at >= number
    BY <1>2, <2>1
  <2> HIDE DEF s, at, id
  <2>4. s \in SignatureType /\ s.at = at
    BY <1>1, <2>1, <2>2, <2>3 DEF SignatureType
  <2>5. \A t \in block.signatureStack : t.at \in Nat
    BY <1>1 DEF BlockType, SignatureType
  <2>6. s \notin block.signatureStack
    BY <1>2, <2>3, <2>4, <2>5
  <2>7. QED
    BY <2>2, <2>4, <2>6 DEF s
<1>4. /\ \A s \in new : /\ s \in SignatureType \ block.signatureStack
                        /\ s.signer = s.key /\ s.signedId = id /\ s.epoch = 0
                        /\ s.key \in Range(keys)
      /\ \A key \in Range(keys) : \E s \in new : s.key = key
  BY <1>3 DEF Range
<1> HIDE DEF new
<1>5. AddSignatures(block, keys) =
        [webBundleId |-> id, signatureStack |-> block.signatureStack \union new]
  <2>1. AddSignatures(block, keys) =
          [block EXCEPT !.signatureStack = block.signatureStack \union new]
    BY Zenon DEF AddSignatures, new
  <2>2. QED
    BY <1>1, <2>1 DEF BlockType
<1>6. IsGood(AddSignatures(block, keys))
  BY <1>1, <1>4, <1>5 DEF IsGood, BlockType, IsValid, Verifies
<1>7. QED
  BY <1>4, <1>5, <1>6

LEMMA RemoveKeepsOthers ==
  ASSUME NEW block, IsGood(block), NEW key
  PROVE  /\ IsGood(RemoveIntegritySignature(block, key))
         /\ RemoveIntegritySignature(block, key).signatureStack =
              {s \in block.signatureStack : s.key # key}
<1>1. RemoveIntegritySignature(block, key) =
        [webBundleId |-> block.webBundleId,
         signatureStack |-> {s \in block.signatureStack : s.key # key}]
  BY DEF RemoveIntegritySignature, IsGood, BlockType
<1>2. QED
  BY <1>1 DEF IsGood, IsValid, BlockType

LEMMA RemovalsKeepOthers ==
  ASSUME NEW block, IsGood(block), NEW keys
  PROVE  /\ IsGood(RemoveSignatures(block, keys))
         /\ RemoveSignatures(block, keys).signatureStack =
              {s \in block.signatureStack : s.key \notin Range(keys)}
<1> DEFINE kept == {s \in block.signatureStack :
                      \A i \in DOMAIN keys :
                        s \in RemoveIntegritySignature(block, keys[i]).signatureStack}
<1>1. RemoveSignatures(block, keys) =
        [webBundleId |-> block.webBundleId, signatureStack |-> kept]
  <2>1. RemoveSignatures(block, keys) = [block EXCEPT !.signatureStack = kept]
    BY Zenon DEF RemoveSignatures
  <2> HIDE DEF kept
  <2>2. QED
    BY <2>1 DEF IsGood, BlockType
<1>2. ASSUME NEW s \in block.signatureStack
      PROVE  s \in kept <=> s.key \notin Range(keys)
  <2>1. \A i \in DOMAIN keys :
          s \in RemoveIntegritySignature(block, keys[i]).signatureStack <=> s.key # keys[i]
    BY RemoveKeepsOthers
  <2>2. QED
    BY <2>1 DEF Range
<1>3. kept \subseteq block.signatureStack
  OBVIOUS
<1> HIDE DEF kept
<1>4. kept = {s \in block.signatureStack : s.key \notin Range(keys)}
  BY <1>2, <1>3
<1>5. QED
  BY <1>1, <1>3, <1>4 DEF IsGood, IsValid, BlockType

(* A command that succeeds makes, of the file it read, a block with valid  *)
(* signatures that is as asked.                                            *)
LEMMA OutcomeIsAsAsked ==
  ASSUME FilesInv, NEW cmd \in Commands, Readable(cmd)
  PROVE  /\ IsGood(Outcome(cmd))
         /\ AsAsked(cmd, StackIn(cmd, files[cmd.path]), Outcome(cmd).signatureStack)
<1> DEFINE block == Read(files[cmd.path])
<1>1. /\ cmd.path \in Paths
      /\ cmd.name \in {"sign", "add-signature", "remove-signature", "replace-signature"}
  BY DEF Commands, AddCommands, RemoveCommands, ReplaceCommands, SignCommands
<1>2. CASE cmd.name = "sign"
  <2>1. cmd.keys \in Seq(Keys) /\ cmd.id \in Ids
    BY <1>2, CliAssumption
    DEF Commands, AddCommands, RemoveCommands, ReplaceCommands, SignCommands
  <2> DEFINE empty == EmptyBlock(cmd.id)
             added == AddSignatures(empty, cmd.keys)
  <2>2. Outcome(cmd) = added
    BY <1>2 DEF Outcome
  <2>3. IsGood(empty) /\ Fits(empty) /\ empty.signatureStack = {}
    BY <2>1, EmptyIsGood DEF EmptyBlock
  <2> HIDE DEF empty
  <2>4. /\ IsGood(added)
        /\ \A s \in added.signatureStack \ empty.signatureStack : s.key \in Range(cmd.keys)
        /\ \A key \in Range(cmd.keys) :
             \E s \in added.signatureStack \ empty.signatureStack : s.key = key
    BY <2>1, <2>3, AddedAreValid
  <2>5. /\ StackIn(cmd, files[cmd.path]) = {} /\ Named(cmd) = Range(cmd.keys)
        /\ BringsNew(cmd) = Range(cmd.keys) /\ LeavesNone(cmd) = {}
    BY <1>2 DEF StackIn, Named, BringsNew, LeavesNone
  <2> HIDE DEF added
  <2>6. QED
    BY <2>2, <2>3, <2>4, <2>5 DEF AsAsked
<1>3. CASE cmd.name # "sign"
  <2>1. IsGood(block) /\ Fits(block)
    BY <1>1, <1>3 DEF Readable, FilesInv
  <2>2. StackIn(cmd, files[cmd.path]) = block.signatureStack
    BY <1>3 DEF StackIn
  <2>3. CASE cmd.name = "add-signature"
    <3>1. cmd.keys \in Seq(Keys)
      BY <2>3, CliAssumption
      DEF Commands, AddCommands, RemoveCommands, ReplaceCommands, SignCommands
    <3> DEFINE added == AddSignatures(block, cmd.keys)
    <3>2. Outcome(cmd) = added
      BY <2>3 DEF Outcome
    <3> HIDE DEF block
    <3>3. /\ IsGood(added)
          /\ block.signatureStack \subseteq added.signatureStack
          /\ \A s \in added.signatureStack \ block.signatureStack : s.key \in Range(cmd.keys)
          /\ \A key \in Range(cmd.keys) :
               \E s \in added.signatureStack \ block.signatureStack : s.key = key
      BY <2>1, <3>1, AddedAreValid
    <3>4. Named(cmd) = Range(cmd.keys) /\ BringsNew(cmd) = Range(cmd.keys) /\ LeavesNone(cmd) = {}
      BY <2>3 DEF Named, BringsNew, LeavesNone
    <3> HIDE DEF added
    <3>5. QED
      BY <2>2, <3>2, <3>3, <3>4 DEF AsAsked
  <2>4. CASE cmd.name = "remove-signature"
    <3>1. Outcome(cmd) = RemoveSignatures(block, cmd.keys)
      BY <2>4 DEF Outcome
    <3>2. Named(cmd) = Range(cmd.keys) /\ BringsNew(cmd) = {} /\ LeavesNone(cmd) = Range(cmd.keys)
      BY <2>4 DEF Named, BringsNew, LeavesNone
    <3> HIDE DEF block
    <3>3. QED
      BY <2>1, <2>2, <3>1, <3>2, RemovalsKeepOthers DEF AsAsked
  <2>5. CASE cmd.name = "replace-signature"
    <3> DEFINE keys == <<cmd.new>>
               added == AddSignatures(block, keys)
    <3>1. Outcome(cmd) = RemoveIntegritySignature(added, cmd.old)
      BY <2>5 DEF Outcome, ReplaceSignature
    <3>2. /\ Named(cmd) = {cmd.old, cmd.new}
          /\ BringsNew(cmd) = {cmd.new} \ {cmd.old} /\ LeavesNone(cmd) = {cmd.old}
      BY <2>5 DEF Named, BringsNew, LeavesNone
    <3>3. cmd.new \in Keys
      BY <2>5 DEF Commands, AddCommands, RemoveCommands, ReplaceCommands, SignCommands
    <3>4. keys \in Seq(Keys) /\ Range(keys) = {cmd.new}
      BY <3>3 DEF Range
    <3> HIDE DEF block, keys
    <3>5. /\ IsGood(added)
          /\ block.signatureStack \subseteq added.signatureStack
          /\ \A s \in added.signatureStack \ block.signatureStack : s.key = cmd.new
          /\ \E s \in added.signatureStack \ block.signatureStack : s.key = cmd.new
      <4>1. /\ IsGood(added)
            /\ block.signatureStack \subseteq added.signatureStack
            /\ \A s \in added.signatureStack \ block.signatureStack : s.key \in Range(keys)
            /\ \A key \in Range(keys) :
                 \E s \in added.signatureStack \ block.signatureStack : s.key = key
        BY <2>1, <3>4, AddedAreValid
      <4>2. QED
        BY <3>4, <4>1
    <3> HIDE DEF added
    <3>6. /\ IsGood(Outcome(cmd))
          /\ Outcome(cmd).signatureStack = {s \in added.signatureStack : s.key # cmd.old}
      BY <3>1, <3>5, RemoveKeepsOthers
    <3>7. QED
      BY <2>2, <3>2, <3>5, <3>6 DEF AsAsked
  <2>6. QED
    BY <1>1, <1>3, <2>3, <2>4, <2>5
<1>4. QED
  BY <1>2, <1>3

-----------------------------------------------------------------------------
(* The inductive invariant.                                                *)

LEMMA InitEstablishesIInv == Init => IInv
<1> SUFFICES ASSUME Init PROVE IInv
  OBVIOUS
<1>1. files \in [Paths -> {Absent, Unsigned}] /\ pc = "idle" /\ before = files
  BY DEF Init
<1>2. \A p \in Paths : ~Opens(files[p])
  BY <1>1 DEF Absent, Unsigned, Opens
<1>3. QED
  BY <1>1, <1>2
  DEF IInv, FilesInv, BeforeInv, ResultInv, WrittenInv, FailureHarmsOnlyTheOutput

LEMMA RunKeepsIInv ==
  ASSUME IInv, NEW cmd \in Commands, NEW keysParse \in BOOLEAN, Run(cmd, keysParse)
  PROVE  IInv'
<1>1. command' = cmd /\ before' = files /\ UNCHANGED files
  BY DEF Run
<1>2. FilesInv'
  BY <1>1 DEF IInv, FilesInv
<1>3. CASE pc' = "error"
  BY <1>1, <1>2, <1>3
  DEF IInv, BeforeInv, ResultInv, WrittenInv, FailureHarmsOnlyTheOutput
<1>4. CASE pc' # "error"
  <2>1. /\ Readable(cmd) /\ Fits(Outcome(cmd)) /\ CanBeSaved(Outcome(cmd))
        /\ pc' = "write" /\ result' = Outcome(cmd)
    BY <1>4 DEF Run
  <2>2. /\ IsGood(Outcome(cmd))
        /\ AsAsked(cmd, StackIn(cmd, files[cmd.path]), Outcome(cmd).signatureStack)
    BY <2>1, OutcomeIsAsAsked DEF IInv
  <2>3. ResultInv'
    BY <1>1, <2>1, <2>2 DEF ResultInv
  <2>4. QED
    BY <1>1, <1>2, <2>1, <2>3
    DEF IInv, BeforeInv, WrittenInv, FailureHarmsOnlyTheOutput
<1>5. QED
  BY <1>3, <1>4

LEMMA TruncateKeepsIInv ==
  ASSUME IInv, Truncate
  PROVE  IInv'
<1>1. PICK part \in Cut(SignedBytes(result)) :
        /\ pc = "write" /\ pc' = "writing" /\ UNCHANGED <<command, result, before>>
        /\ files' = [files EXCEPT ![command.output] = Swbn(part)]
  BY DEF Truncate
<1>2. ResultInv' /\ WrittenInv' /\ FailureHarmsOnlyTheOutput'
  BY <1>1 DEF IInv, ResultInv, WrittenInv, FailureHarmsOnlyTheOutput
<1>3. ~Opens(Swbn(part))
  BY PartsDoNotOpen
<1>4. FilesInv'
  BY <1>1, <1>3 DEF IInv, FilesInv
<1>5. BeforeInv'
  BY <1>1 DEF IInv, BeforeInv, FilesInv
<1>6. QED
  BY <1>2, <1>4, <1>5 DEF IInv

LEMMA WriteDoneKeepsIInv ==
  ASSUME IInv, WriteDone
  PROVE  IInv'
<1> DEFINE new == Swbn(SignedBytes(result))
<1>1. /\ pc = "writing" /\ pc' = "success" /\ UNCHANGED <<command, result, before>>
      /\ files' = [files EXCEPT ![command.output] = new]
  BY DEF WriteDone
<1>2. command \in Commands /\ IsGood(result) /\ Fits(result) /\ CanBeSaved(result)
  BY <1>1 DEF IInv, ResultInv
<1>3. command.output \in Paths
  BY <1>2 DEF Commands, AddCommands, RemoveCommands, ReplaceCommands, SignCommands
<1>4. Opens(new) /\ Read(new) = result /\ new.bytes.length = PureWebBundle.length
  BY <1>2, WrittenReadsBack DEF Swbn
<1>5. ResultInv' /\ WrittenInv' /\ FailureHarmsOnlyTheOutput'
  BY <1>1, <1>3 DEF IInv, FilesInv, ResultInv, WrittenInv, FailureHarmsOnlyTheOutput
<1> HIDE DEF new
<1>6. FilesInv'
  BY <1>1, <1>2, <1>4 DEF IInv, FilesInv
<1>7. BeforeInv'
  BY <1>1, <1>3 DEF IInv, BeforeInv, FilesInv
<1>8. QED
  BY <1>5, <1>6, <1>7 DEF IInv

LEMMA StopKeepsIInv ==
  ASSUME IInv, WriteFails \/ Interrupted
  PROVE  IInv'
<1>1. /\ pc \in {"write", "writing"} /\ pc' \in {"interrupted", "error"}
      /\ UNCHANGED <<files, command, result, before>>
  BY DEF WriteFails, Interrupted, Running
<1>2. QED
  BY <1>1
  DEF IInv, FilesInv, BeforeInv, ResultInv, WrittenInv, FailureHarmsOnlyTheOutput

LEMMA ProvideKeepsIInv ==
  ASSUME IInv, NEW path \in Paths, Provide(path)
  PROVE  IInv'
<1>1. files' = [files EXCEPT ![path] = Unsigned] /\ pc' = "idle"
  BY DEF Provide
<1>2. FilesInv'
  BY <1>1 DEF IInv, FilesInv, Unsigned, Opens
<1>3. QED
  BY <1>1, <1>2
  DEF IInv, BeforeInv, ResultInv, WrittenInv, FailureHarmsOnlyTheOutput

THEOREM CommandInvariance == Spec => []IInv
<1>1. IInv /\ [Next]_vars => IInv'
  <2> SUFFICES ASSUME IInv, [Next]_vars PROVE IInv'
    OBVIOUS
  <2>1. ASSUME NEW cmd \in Commands, NEW keysParse \in BOOLEAN, Run(cmd, keysParse)
        PROVE  IInv'
    BY <2>1, RunKeepsIInv
  <2>2. CASE Truncate
    BY <2>2, TruncateKeepsIInv
  <2>3. CASE WriteDone
    BY <2>3, WriteDoneKeepsIInv
  <2>4. CASE WriteFails \/ Interrupted
    BY <2>4, StopKeepsIInv
  <2>5. ASSUME NEW path \in Paths, Provide(path) PROVE IInv'
    BY <2>5, ProvideKeepsIInv
  <2>6. CASE UNCHANGED vars
    BY <2>6
    DEF vars, IInv, FilesInv, BeforeInv, ResultInv, WrittenInv, FailureHarmsOnlyTheOutput
  <2>7. QED
    BY <2>1, <2>2, <2>3, <2>4, <2>5, <2>6 DEF Next
<1>2. QED
  BY <1>1, InitEstablishesIInv, PTL DEF Spec

-----------------------------------------------------------------------------

(* Whatever commands made it, killed and failed ones among them, a file    *)
(* that opens as a signed bundle is whole, and its signatures are valid.   *)
THEOREM SignedFilesAreValid == Spec => []FilesStayValid
<1>1. IInv => FilesStayValid
  BY DEF IInv, FilesInv, FilesStayValid, IsGood
<1>2. QED
  BY <1>1, CommandInvariance, PTL

(* A command that failed or was killed has changed no file but its output, *)
(* and that one only when it had all that was to be written.               *)
THEOREM FailuresAreHarmless == Spec => []FailureHarmsOnlyTheOutput
<1>1. IInv => FailureHarmsOnlyTheOutput
  BY DEF IInv
<1>2. QED
  BY <1>1, CommandInvariance, PTL

(* A command that succeeds adds, removes and replaces what it was told to, *)
(* and leaves everything else as it was.                                   *)
THEOREM CommandsDoAsAsked == Spec => []SuccessIsAsAsked
<1>1. ASSUME IInv, pc = "success"
      PROVE  /\ Opens(files[command.output])
             /\ Read(files[command.output]) = result
             /\ AsAsked(command, StackIn(command, before[command.path]),
                        result.signatureStack)
             /\ \A p \in Paths \ {command.output} : files[p] = before[p]
  BY <1>1, WrittenReadsBack DEF IInv, BeforeInv, ResultInv, WrittenInv
<1>2. IInv => SuccessIsAsAsked
  BY <1>1 DEF SuccessIsAsAsked
<1>3. QED
  BY <1>2, CommandInvariance, PTL
=============================================================================
