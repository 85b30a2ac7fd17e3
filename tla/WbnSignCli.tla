----------------------------- MODULE WbnSignCli -----------------------------
(***************************************************************************)
(* The wbn-sign command line tool (js/sign/src/cli-sign.ts): one command   *)
(* after the other reads a bundle from a file, changes its integrity block *)
(* in memory, and writes the result in place or to another file.  The file *)
(* is written by fs.writeFile, which truncates it first; a command can be  *)
(* killed, and a write can fail, while the file is incomplete.             *)
(***************************************************************************)
EXTENDS IntegrityBlock, Integers, Sequences, Functions

CONSTANTS
  Paths,       \* file names
  KeyLists,    \* what sign, add-signature and remove-signature may be given
  MaxEntries   \* bound: the number of the last signature of a block

ASSUME CliAssumption ==
  /\ Paths # {}
  /\ KeyLists \subseteq Seq(Keys)
  /\ MaxEntries \in Nat

VARIABLES
  files,     \* files[p]: what a reader of the file finds
  command,   \* the command that runs, or the last one
  pc,        \* "idle", "write", "writing", "success", "error", "interrupted"
  result,    \* the integrity block the command is going to write
  before     \* the files as they were when the command started

vars == <<files, command, pc, result, before>>

Absent == [kind |-> "absent"]
Unsigned == [kind |-> "wbn"]           \* a bundle without an integrity block
Swbn(bytes) == [kind |-> "swbn", bytes |-> bytes]

EmptyBlock(id) == [webBundleId |-> id, signatureStack |-> {}]
NoBlock == EmptyBlock(EmptyId)

(* What is there of a file whose write was stopped: less than the integrity*)
(* block, or the block and a part of the bundle.  The last octets of a part*)
(* do not happen to state its length.                                      *)
PartOfBlock == [SignedBytes(NoBlock) EXCEPT !.block.wellFormed = FALSE, !.length = 0]
Cut(bytes) == {PartOfBlock, [bytes EXCEPT !.length = 0]}

(* fs.readFile and fromBytes *)
Opens(file) == file.kind = "swbn" /\ FromBytesAccepts(file.bytes)
Read(file) == FromCbor(file.bytes.block)

Valid(key, id, at) ==
  [at |-> at, key |-> key, signer |-> key, signedId |-> id, epoch |-> 0]

(* A number that no entry of the block reaches. *)
NextNumber(block) ==
  CHOOSE n \in 1..(MaxEntries + 1) : \A s \in block.signatureStack : s.at < n

(* addSignature with a NodeCryptoSigningStrategy, which signs with the key *)
(* it names; the signature is over the ID that the block has, and is the   *)
(* i-th that the command adds.                                             *)
NewSignature(block, key, i) == Valid(key, block.webBundleId, NextNumber(block) + i - 1)

AddSignatures(block, keys) ==
  [block EXCEPT !.signatureStack =
     @ \union {NewSignature(block, keys[i], i) : i \in DOMAIN keys}]

(* What no removal of one of the keys takes away. *)
RemoveSignatures(block, keys) ==
  [block EXCEPT !.signatureStack =
     {s \in @ : \A i \in DOMAIN keys :
                  s \in RemoveIntegritySignature(block, keys[i]).signatureStack}]

(* Mutant of ReplaceSignature: the old signature goes before the new one is*)
(* there.                                                                  *)
RemoveThenAdd(block, old, new) ==
  AddSignatures(RemoveIntegritySignature(block, old), <<new>>)

ReplaceSignature(block, old, new) ==
  RemoveIntegritySignature(AddSignatures(block, <<new>>), old)

AddCommands ==
  [name : {"add-signature"}, path : Paths, output : Paths, keys : KeyLists]
RemoveCommands ==
  [name : {"remove-signature"}, path : Paths, output : Paths, keys : KeyLists]
ReplaceCommands ==
  [name : {"replace-signature"}, path : Paths, output : Paths, old : Keys, new : Keys]
(* id: --web-bundle-id, or the ID that is derived from the first key, also *)
(* when the option is the empty string.                                    *)
SignCommands ==
  [name : {"sign"}, path : Paths, output : Paths, keys : KeyLists, id : Ids \ {EmptyId}]
Commands == AddCommands \union RemoveCommands \union ReplaceCommands \union SignCommands

(* The block that the command makes of the file it has read. *)
Outcome(cmd) ==
  LET block == Read(files[cmd.path])
  IN CASE cmd.name = "sign" -> AddSignatures(EmptyBlock(cmd.id), cmd.keys)
       [] cmd.name = "add-signature" -> AddSignatures(block, cmd.keys)
       [] cmd.name = "remove-signature" -> RemoveSignatures(block, cmd.keys)
       [] cmd.name = "replace-signature" -> ReplaceSignature(block, cmd.old, cmd.new)

(* sign wants a bundle without integrity block, the others want one with.  *)
Readable(cmd) ==
  IF cmd.name = "sign"
  THEN files[cmd.path] = Unsigned
  ELSE Opens(files[cmd.path])

Init ==
  /\ files \in [Paths -> {Absent, Unsigned}]
  /\ command = [name |-> "none"]
  /\ pc = "idle"
  /\ result = NoBlock
  /\ before = files

Running == pc \in {"write", "writing"}

Fits(block) == \A s \in block.signatureStack : s.at <= MaxEntries

(* Mutant of Run: the output is opened before its contents are there. *)
RunTruncatingFirst(cmd, keysParse) ==
  /\ ~Running
  /\ command' = cmd
  /\ before' = files
  /\ keysParse /\ Readable(cmd) => Fits(Outcome(cmd))
  /\ IF keysParse /\ Readable(cmd) /\ CanBeSaved(Outcome(cmd))
     THEN pc' = "write" /\ result' = Outcome(cmd)
     ELSE pc' = "error" /\ result' = NoBlock
  /\ files' = [files EXCEPT ![cmd.output] = Absent]

(* Everything up to writeFile: the file is read and parsed, the signatures *)
(* are made or removed, and getSignedWebBundleBytes is evaluated.  A key   *)
(* that cannot be read, a missing or unsuitable file, and a block without  *)
(* signatures end the command.                                             *)
Run(cmd, keysParse) ==
  /\ ~Running
  /\ command' = cmd
  /\ before' = files
  /\ keysParse /\ Readable(cmd) => Fits(Outcome(cmd))
  /\ IF keysParse /\ Readable(cmd) /\ CanBeSaved(Outcome(cmd))
     THEN pc' = "write" /\ result' = Outcome(cmd)
     ELSE pc' = "error" /\ result' = NoBlock
  /\ UNCHANGED files

Truncate ==
  /\ pc = "write"
  /\ pc' = "writing"
  /\ \E part \in Cut(SignedBytes(result)) :
       files' = [files EXCEPT ![command.output] = Swbn(part)]
  /\ UNCHANGED <<command, result, before>>

WriteDone ==
  /\ pc = "writing"
  /\ pc' = "success"
  /\ files' = [files EXCEPT ![command.output] = Swbn(SignedBytes(result))]
  /\ UNCHANGED <<command, result, before>>

(* The file cannot be opened, or, once it is open, the disk is full: either*)
(* way the promise rejects, and the command ends like any other that fails.*)
WriteFails ==
  /\ Running
  /\ pc' = "error"
  /\ UNCHANGED <<files, command, result, before>>

Interrupted ==
  /\ Running
  /\ pc' = "interrupted"
  /\ UNCHANGED <<files, command, result, before>>

(* The user puts a bundle where there is none, or a part of one. *)
Provide(path) ==
  /\ ~Running
  /\ files[path] # Unsigned /\ ~Opens(files[path])
  /\ files' = [files EXCEPT ![path] = Unsigned]
  /\ pc' = "idle"
  /\ before' = files'
  /\ command' = [name |-> "none"]
  /\ result' = NoBlock

Next ==
  \/ \E cmd \in Commands, keysParse \in BOOLEAN : Run(cmd, keysParse)
  \/ Truncate
  \/ WriteDone
  \/ WriteFails
  \/ Interrupted
  \/ \E path \in Paths : Provide(path)

Spec == Init /\ [][Next]_vars

-----------------------------------------------------------------------------
(* Properties *)

(* Whatever sequence of commands made it, killed ones and ones that failed *)
(* to write among them, a file that can be opened as a signed bundle holds *)
(* the whole bundle, and only signatures that are valid for its ID.        *)
FilesStayValid ==
  \A p \in Paths :
    Opens(files[p]) =>
      /\ files[p].bytes.length = PureWebBundle.length
      /\ \A s \in Read(files[p]).signatureStack : IsValid(Read(files[p]), s)

(* A command that failed or was killed has changed no file but its output, *)
(* and not even that one unless all that it was to hold had been made: bad *)
(* keys, unsuitable files and a block that cannot be saved cost nothing.   *)
FailureHarmsOnlyTheOutput ==
  pc \in {"error", "interrupted"} =>
    \/ files = before
    \/ /\ CanBeSaved(result)
       /\ \A p \in Paths \ {command.output} : files[p] = before[p]

(* What the names of the commands say. *)
Named(cmd) == IF cmd.name = "replace-signature" THEN {cmd.old, cmd.new} ELSE Range(cmd.keys)
BringsNew(cmd) == CASE cmd.name \in {"sign", "add-signature"} -> Range(cmd.keys)
                    [] cmd.name = "remove-signature" -> {}
                    [] cmd.name = "replace-signature" -> {cmd.new} \ {cmd.old}
LeavesNone(cmd) == CASE cmd.name \in {"sign", "add-signature"} -> {}
                     [] cmd.name = "remove-signature" -> Range(cmd.keys)
                     [] cmd.name = "replace-signature" -> {cmd.old}
StackIn(cmd, file) == IF cmd.name = "sign" THEN {} ELSE Read(file).signatureStack

AsAsked(cmd, old, stack) ==
  /\ {s \in stack : s.key \notin Named(cmd)} = {s \in old : s.key \notin Named(cmd)}
  /\ \A key \in BringsNew(cmd) : \E s \in stack \ old : s.key = key
  /\ \A s \in stack : s.key \notin LeavesNone(cmd)

(* A command that succeeds does what it says, in the order it says: add and*)
(* sign bring a new signature of each key they name, remove leaves none,   *)
(* and replace adds before it removes, so that a key that replaces itself  *)
(* is gone.  Signatures of other keys, and other files, stay as they are.  *)
SuccessIsAsAsked ==
  pc = "success" =>
    /\ Opens(files[command.output])
    /\ AsAsked(command, StackIn(command, before[command.path]),
               Read(files[command.output]).signatureStack)
    /\ \A p \in Paths \ {command.output} : files[p] = before[p]
=============================================================================
