--------------------------- MODULE GoIntegrityBlock ---------------------------
(***************************************************************************)
(* go/integrityblock and "sign-bundle integrity-block": a bundle file is   *)
(* opened, checked to have no integrity block yet, hashed, signed by one   *)
(* or more signing strategies and written, block first, to another file.   *)
(* The command is run again and again, on what earlier runs left too.      *)
(*                                                                         *)
(* A file is [blocks, torn, body, len, stated]: the signature stacks in    *)
(* front of the bundle, the octets there of a block that lacks its end, the*)
(* bundle, the octets of it that are there and the length that its last    *)
(* eight octets state.  A signature is [key, data], made with a private    *)
(* key; a public key has the name of its private key.                      *)
(***************************************************************************)
EXTENDS Integers, Sequences, FiniteSets, SequencesExt

CONSTANTS
  Paths,         \* the names of files a user may give
  FileOf,        \* the file that a name leads to
  Bundles,       \* the files that are there at first
  Strategies,    \* [priv, pub]: what Sign and GetPublicKey use
  Extras,        \* attributes that a caller adds to the public key
  MaxSignatures, \* bound: signatures of one block (the command adds one)
  MaxLength,     \* the octets of the longest bundle
  MaxRuns        \* bound: runs of the command

Files == Range(FileOf)

Empty == [blocks |-> <<>>, torn |-> 0, body |-> "nothing", len |-> 0, stated |-> 0]

(* A file that is there at first has no integrity block; only a file       *)
(* without octets is empty.                                                *)
IsUnsigned(f) ==
  /\ f = [blocks |-> <<>>, torn |-> 0, body |-> f.body, len |-> f.len, stated |-> f.stated]
  /\ f.len \in Nat /\ f.stated \in Nat
  /\ f.len = 0 => f = Empty

ASSUME GoIntegrityBlockAssumption ==
  /\ FileOf \in [Paths -> STRING]
  /\ \A f \in Bundles : IsUnsigned(f)
  /\ MaxSignatures \in Nat \ {0} /\ MaxRuns \in Nat

VARIABLES
  files,    \* what each file holds
  run,      \* the command, or the last one
  runs      \* how many there were

vars == <<files, run, runs>>

(* Octets of a file; those of a block are one and one for each signature. *)
BlockOctets(f) == UNION {{i} \X (0..Len(f.blocks[i])) : i \in DOMAIN f.blocks}

Size(f) == f.len + f.torn + Cardinality(BlockOctets(f))

(* GenerateDataToBeSigned: the hash of the file from the bundle on, the    *)
(* block as it is before the new signature, and its attributes.            *)
DataToBeSigned(hash, stack, attributes) ==
  [webBundleHash |-> hash, integrityBlock |-> stack, attributes |-> attributes]

Sha512(f) == <<f.blocks, f.torn, f.body, f.len>>

Idle == [pc |-> "idle"]

Init ==
  /\ files \in [Files -> Bundles]
  /\ run = Idle
  /\ runs = 0

Stop(outcome) == run' = [run EXCEPT !.pc = outcome]

-----------------------------------------------------------------------------
(* SignWithIntegrityBlockWithCmdFlags: names are compared, not files, and  *)
(* the output is truncated before the input is looked at.                  *)
Start(in, out, s) ==
  /\ run.pc \in {"idle", "done", "failed"}
  /\ runs < MaxRuns
  /\ runs' = runs + 1
  /\ LET r == [pc |-> "opened", in |-> FileOf[in], out |-> FileOf[out],
               before |-> files[FileOf[in]], strategy |-> s, hash |-> <<>>,
               stack |-> <<>>, blockWritten |-> FALSE]
     IN IF in = out
        THEN run' = [r EXCEPT !.pc = "failed"] /\ UNCHANGED files
        ELSE run' = r /\ files' = [files EXCEPT ![FileOf[out]] = Empty]

(* ObtainIntegrityBlock: the stated length must be the size of the file,   *)
(* and a file too short to state one cannot be sought in.                  *)
ObtainAnyLength ==   \* a slip: only a negative block length is refused
  /\ run.pc = "opened"
  /\ LET f == files[run.in]
     IN IF f = Empty \/ Size(f) - f.stated < 0
        THEN Stop("failed") ELSE Stop("obtained")
  /\ UNCHANGED <<files, runs>>

Obtain ==
  /\ run.pc = "opened"
  /\ LET f == files[run.in]
     IN IF f = Empty \/ Size(f) - f.stated # 0
        THEN Stop("failed") ELSE Stop("obtained")
  /\ UNCHANGED <<files, runs>>

ComputeWebBundleSha512 ==
  /\ run.pc = "obtained"
  /\ run' = [run EXCEPT !.pc = "hashed", !.hash = Sha512(files[run.in])]
  /\ UNCHANGED <<files, runs>>

(* SignAndAddNewSignature: the signature goes on top of the stack.  The    *)
(* outcome of VerifyEd25519Signature is not looked at.                     *)
SignatureOf(extra) ==
  LET attributes == [publicKey |-> run.strategy.pub, extra |-> extra]
  IN [attributes |-> attributes,
      signature |-> [key |-> run.strategy.priv,
                     data |-> DataToBeSigned(run.hash, run.stack, attributes)]]

AppendNewSignature(extra) ==   \* a slip: the signature goes to the bottom
  /\ run.pc \in {"hashed", "signed"}
  /\ Len(run.stack) < MaxSignatures
  /\ run' = [run EXCEPT !.pc = "signed",
                        !.stack = run.stack \o <<SignatureOf(extra)>>]
  /\ UNCHANGED <<files, runs>>

SignAndAddNewSignature(extra) ==
  /\ run.pc \in {"hashed", "signed"}
  /\ Len(run.stack) < MaxSignatures
  /\ run' = [run EXCEPT !.pc = "signed",
                        !.stack = <<SignatureOf(extra)>> \o run.stack]
  /\ UNCHANGED <<files, runs>>

(* A caller of the library may go on with another strategy. *)
NextStrategy(s) ==
  /\ run.pc = "signed"
  /\ Len(run.stack) < MaxSignatures
  /\ s # run.strategy
  /\ run' = [run EXCEPT !.strategy = s]
  /\ UNCHANGED <<files, runs>>

SignFails ==
  /\ run.pc \in {"hashed", "signed"}
  /\ Stop("failed")
  /\ UNCHANGED <<files, runs>>

(* writeOutput.  The result of the first write is not looked at: it may    *)
(* have written the block, the first n octets of it, or nothing.           *)
WriteBlock(n) ==
  /\ run.pc = "signed"
  /\ n <= Len(run.stack) + 1
  /\ LET isWhole == n = Len(run.stack) + 1
     IN /\ run' = [run EXCEPT !.pc = "writing", !.blockWritten = isWhole]
        /\ files' = IF isWhole THEN [files EXCEPT ![run.out].blocks = <<run.stack>>]
                    ELSE [files EXCEPT ![run.out].torn = n]
  /\ UNCHANGED runs

(* io.Copy, to the end or until an error.  The last octets of a part of a  *)
(* bundle are taken not to state the size of the file they end up in.      *)
CopyBundle(n) ==
  LET f == files[run.in] IN
  /\ run.pc = "writing"
  /\ n \in 0..f.len
  /\ files' = IF n = 0 THEN files
              ELSE [files EXCEPT ![run.out] =
                      [blocks |-> @.blocks \o f.blocks, torn |-> @.torn + f.torn, body |-> f.body,
                       len |-> n, stated |-> IF n = f.len THEN f.stated ELSE 0]]
  /\ Stop(IF n = f.len THEN "done" ELSE "failed")
  /\ UNCHANGED runs

Next ==
  \/ \E in, out \in Paths, s \in Strategies : Start(in, out, s)
  \/ Obtain
  \/ ComputeWebBundleSha512
  \/ \E extra \in Extras : SignAndAddNewSignature(extra)
  \/ \E s \in Strategies : NextStrategy(s)
  \/ SignFails
  \/ \E n \in 0..(MaxSignatures + 1) : WriteBlock(n)
  \/ \E n \in 0..MaxLength : CopyBundle(n)

Spec == Init /\ [][Next]_vars

-----------------------------------------------------------------------------
(* Properties.                                                             *)

(* What is hashed, and so what is signed, is a whole bundle that a user had*)
(* at first: never what an earlier run has written, with a block, a part of*)
(* one or a part of the bundle, and never a file that lost its end.        *)
OnlyBundlesAreSigned ==
  run.pc \in {"hashed", "signed", "writing", "done"} =>
    \E b \in Bundles : b.len # 0 /\ b.stated = b.len /\ run.hash = Sha512(b)

(* What a client checks of the i-th signature of a signed bundle: it covers*)
(* the rest of the file and the signatures below it, with the key it names.*)
Verifies(f, i) ==
  LET s == f.blocks[1][i]
  IN s.signature =
       [key |-> s.attributes.publicKey,
        data |-> DataToBeSigned(Sha512([f EXCEPT !.blocks = <<>>]),
                                SubSeq(f.blocks[1], i + 1, Len(f.blocks[1])),
                                s.attributes)]

(* A bundle never gets a second integrity block, however often the command *)
(* is run on its own output or on what a failed run left.                  *)
NoNestedBlocks == \A p \in Files : Len(files[p].blocks) <= 1

(* The public key of the strategy that made s goes with its private key.   *)
KeysMatch(s) == s.signature.key = s.attributes.publicKey

(* A run that succeeds, with a block that was written (writeOutput does    *)
(* not look), leaves the bundle that was the input behind signatures that  *)
(* verify, except one whose own strategy had a public key of another key   *)
(* pair (which integrityblock-signer.go finds out and ignores): those above*)
(* and below it do not suffer.  Also when the input is another run's       *)
(* output, and never when two names of one file got past the comparison of *)
(* names and the input was emptied.                                        *)
OutputVerifies ==
  (run.pc = "done" /\ run.blockWritten) =>
    LET f == files[run.out]
    IN /\ Len(f.blocks) = 1
       /\ \A i \in DOMAIN f.blocks[1] : KeysMatch(f.blocks[1][i]) => Verifies(f, i)
       /\ f.body = run.before.body
       /\ f.len = run.before.len
=============================================================================
