----------------------- MODULE GoIntegrityBlockProofs -----------------------
(***************************************************************************)
(* Proofs about runs of "sign-bundle integrity-block", for any number of   *)
(* files and runs, any names of the files, bundles, strategies and         *)
(* attributes, and blocks of any number of signatures.                     *)
(***************************************************************************)
EXTENDS GoIntegrityBlock, FiniteSetTheorems, SequenceTheorems, TLAPS

IsStack(stack) == stack \in Seq(Range(stack))

(* A file without a block, with a part of one, or with one.  There are     *)
(* always more octets with a block, or a part of one, than the file states:*)
(* this is what Obtain notices.  Other files that state a length are       *)
(* bundles that were there at first.                                       *)
IsPlain(f) == f.blocks = <<>> /\ f.torn = 0 /\ (f.len = 0 => f = Empty)
                /\ (f.stated # 0 => f \in Bundles)
IsTorn(f) == f.blocks = <<>> /\ f.torn # 0 /\ f.stated <= f.len
IsSigned(f) == f.blocks = << f.blocks[1] >> /\ IsStack(f.blocks[1])
                 /\ f.torn = 0 /\ f.stated <= f.len

IsFile(f) ==
  /\ f = [blocks |-> f.blocks, torn |-> f.torn, body |-> f.body, len |-> f.len,
          stated |-> f.stated]
  /\ f.len \in Nat /\ f.torn \in Nat /\ f.stated \in Nat
  /\ IsPlain(f) \/ IsTorn(f) \/ IsSigned(f)

FilesInv == files = [p \in Files |-> files[p]] /\ \A p \in Files : IsFile(files[p])

Active == {"opened", "obtained", "hashed", "signed", "writing", "done"}

(* The local variables of a run, from its start to its end. *)
IsRun(r) ==
  /\ r = [pc |-> r.pc, in |-> r.in, out |-> r.out, before |-> r.before,
          strategy |-> r.strategy, hash |-> r.hash, stack |-> r.stack,
          blockWritten |-> r.blockWritten]
  /\ r.in \in Files /\ r.out \in Files
  /\ IsStack(r.stack)
  /\ r.blockWritten \in BOOLEAN

(* Each signature is over the hash, the signatures below it and its        *)
(* attributes.                                                             *)
Covers(hash, stack) ==
  \A i \in DOMAIN stack :
    stack[i].signature =
      [key |-> stack[i].signature.key,
       data |-> DataToBeSigned(hash, SubSeq(stack, i + 1, Len(stack)), stack[i].attributes)]

(* What the output holds at each point. *)
OutputInv ==
  LET out == files[run.out]
  IN CASE run.pc \in {"opened", "obtained", "hashed", "signed"} -> out = Empty
       [] run.pc = "writing" ->
            IF run.blockWritten THEN out = [Empty EXCEPT !.blocks = << run.stack >>]
            ELSE out.torn \in Nat /\ out = [Empty EXCEPT !.torn = out.torn]
       [] OTHER -> TRUE

(* Once the length was found right, the input is a bundle without a block  *)
(* and not the output, and stays what it was; once it was hashed, the      *)
(* signatures cover it.                                                    *)
InputInv ==
  /\ run.pc = "opened" => files[run.in] \in {run.before, Empty}
  /\ run.pc \in {"opened", "obtained"} => run.stack = <<>>
  /\ run.pc \in {"obtained", "hashed", "signed", "writing"} =>
       /\ run.in # run.out
       /\ files[run.in] = run.before
       /\ run.before.blocks = <<>> /\ run.before.torn = 0
  /\ run.pc \in {"obtained", "hashed", "signed", "writing", "done"} =>
       /\ run.before \in Bundles
       /\ run.before.len # 0 /\ run.before.stated = run.before.len
  /\ run.pc \in {"hashed", "signed", "writing", "done"} =>
       /\ run.hash = << <<>>, 0, run.before.body, run.before.len >>
       /\ Covers(run.hash, run.stack)

ResultInv ==
  (run.pc = "done" /\ run.blockWritten) =>
    files[run.out] = [blocks |-> << run.stack >>, torn |-> 0, body |-> run.before.body,
                      len |-> run.before.len, stated |-> files[run.out].stated]

PcInv == run.pc \in Active \union {"idle", "failed"}

RunInv == run.pc \in Active => IsRun(run) /\ InputInv /\ OutputInv /\ ResultInv

IInv == FilesInv /\ PcInv /\ RunInv /\ runs \in 0..MaxRuns

-----------------------------------------------------------------------------
(* Lemmas on stacks and files.                                             *)

LEMMA AnySequenceIsStack ==
  ASSUME NEW T, NEW q \in Seq(T)
  PROVE  IsStack(q)
<1> DEFINE R == Range(q)
<1>1. q \in [1..Len(q) -> T] /\ Len(q) \in Nat
  OBVIOUS
<1>2. \A i \in 1..Len(q) : q[i] \in R
  BY <1>1 DEF Range
<1> HIDE DEF R
<1>3. q \in [1..Len(q) -> R]
  BY <1>1, <1>2
<1>4. q \in Seq(R)
  BY <1>1, <1>3, SeqDef
<1>5. QED
  BY <1>4 DEF IsStack, R

(* grown is stack with s on top. *)
HasOnTop(grown, s, stack) ==
  /\ IsStack(grown)
  /\ Len(grown) = Len(stack) + 1
  /\ grown[1] = s
  /\ \A i \in 2..Len(grown) : grown[i] = stack[i - 1]

LEMMA StackGrows ==
  ASSUME NEW stack, IsStack(stack), NEW s
  PROVE  HasOnTop(<<s>> \o stack, s, stack)
<1> DEFINE T == Range(stack) \union {s}
           grown == <<s>> \o stack
<1>1. stack \in Seq(T) /\ <<s>> \in Seq(T)
  <2>1. stack \in Seq(Range(stack))
    BY DEF IsStack
  <2>2. DOMAIN stack = 1..Len(stack) /\ Len(stack) \in Nat
    BY <2>1
  <2>3. \A i \in DOMAIN stack : stack[i] \in T
    BY DEF Range
  <2>4. stack \in Seq(T)
    BY <2>1, <2>2, <2>3, SeqDef
  <2>5. QED
    BY <2>4
<1>2. grown \in Seq(T) /\ Len(grown) = Len(stack) + 1
  BY <1>1
<1>3. grown[1] = s /\ \A i \in 2..Len(grown) : grown[i] = stack[i - 1]
  BY <1>1
<1>4. IsStack(grown)
  BY <1>2, AnySequenceIsStack
<1>5. QED
  BY <1>2, <1>3, <1>4 DEF HasOnTop

(* A new signature on top covers what is below it, and the others still do.*)
LEMMA NewSignatureCovers ==
  ASSUME NEW stack, IsStack(stack), NEW hash, NEW s,
         Covers(hash, stack),
         s.signature = [key |-> s.signature.key, data |-> DataToBeSigned(hash, stack, s.attributes)]
  PROVE  Covers(hash, <<s>> \o stack)
<1> DEFINE grown == <<s>> \o stack
           n == Len(stack)
<1>1. /\ IsStack(grown) /\ Len(grown) = n + 1 /\ grown[1] = s
      /\ \A i \in 2..(n + 1) : grown[i] = stack[i - 1]
  <2>1. HasOnTop(grown, s, stack)
    BY StackGrows
  <2> HIDE DEF grown
  <2>2. QED
    BY <2>1 DEF HasOnTop
<1>2. /\ stack \in Seq(Range(stack)) /\ grown \in Seq(Range(grown))
      /\ n \in Nat /\ DOMAIN stack = 1..n /\ DOMAIN grown = 1..(n + 1)
  BY <1>1 DEF IsStack
<1>3. \A i \in 1..(n + 1) : SubSeq(grown, i + 1, n + 1) = SubSeq(stack, i, n)
  <2> HIDE DEF n, grown
  <2> SUFFICES ASSUME NEW i \in 1..(n + 1)
               PROVE  SubSeq(grown, i + 1, n + 1) = SubSeq(stack, i, n)
    OBVIOUS
  <2>1. \A j \in 1..(n + 1 - i) : i + j \in 2..(n + 1) /\ grown[i + j] = stack[(i + j) - 1]
    BY <1>1, <1>2
  <2>2. SubSeq(grown, i + 1, n + 1) = [j \in 1..(n + 1 - i) |-> grown[i + j]]
    BY <1>2, <1>1 DEF n
  <2>3. SubSeq(stack, i, n) = [j \in 1..(n + 1 - i) |-> stack[(i + j) - 1]]
    BY <1>2 DEF n
  <2>4. QED
    BY <2>1, <2>2, <2>3
<1>4. SubSeq(stack, 1, n) = stack
  BY <1>2
<1> HIDE DEF n, grown
<1>5. \A i \in 1..(n + 1) :
        grown[i].signature =
          [key |-> grown[i].signature.key,
           data |-> DataToBeSigned(hash, SubSeq(grown, i + 1, n + 1), grown[i].attributes)]
  <2> SUFFICES ASSUME NEW i \in 1..(n + 1)
               PROVE  grown[i].signature =
                        [key |-> grown[i].signature.key,
                         data |-> DataToBeSigned(hash, SubSeq(grown, i + 1, n + 1),
                                                 grown[i].attributes)]
    OBVIOUS
  <2>1. CASE i = 1
    BY <2>1, <1>1, <1>2, <1>3, <1>4
  <2>2. CASE i # 1
    <3>1. i \in 2..(n + 1) /\ i - 1 \in DOMAIN stack /\ (i - 1) + 1 = i
      BY <2>2, <1>2
    <3>2. grown[i] = stack[i - 1]
      BY <3>1, <1>1
    <3>3. stack[i - 1].signature =
            [key |-> stack[i - 1].signature.key,
             data |-> DataToBeSigned(hash, SubSeq(stack, i, n), stack[i - 1].attributes)]
      BY <3>1 DEF Covers, n
    <3>4. QED
      BY <3>2, <3>3, <1>3
  <2>3. QED
    BY <2>1, <2>2
<1>6. QED
  BY <1>5, <1>1, <1>2 DEF Covers, grown

(* With a block in front, or a part of one, no file has the length that it *)
(* states.                                                                 *)
LEMMA BlockIsNoticed ==
  ASSUME NEW f, IsFile(f), IsSigned(f)
  PROVE  Size(f) - f.stated # 0
<1> DEFINE n == Len(f.blocks[1])
<1>1. f.blocks = << f.blocks[1] >> /\ IsStack(f.blocks[1]) /\ f.stated <= f.len
      /\ f.len \in Nat /\ f.torn = 0 /\ f.stated \in Nat
  BY DEF IsFile, IsSigned
<1>2. n \in Nat
  BY <1>1 DEF IsStack
<1>3. BlockOctets(f) = {1} \X (0..n)
  <2>1. DOMAIN f.blocks = {1}
    BY <1>1
  <2>2. QED
    BY <2>1 DEF BlockOctets
<1>4. IsFiniteSet({1}) /\ IsFiniteSet(0..n)
  <2> HIDE DEF n
  <2>1. IsFiniteSet({1})
    BY FS_Singleton
  <2>2. IsFiniteSet(0..n)
    BY <1>2, FS_Interval
  <2>3. QED
    BY <2>1, <2>2
<1>5. IsFiniteSet({1} \X (0..n)) /\ <<1, 0>> \in {1} \X (0..n)
  BY <1>2, <1>4, FS_Product
<1> HIDE DEF n
<1>6. Cardinality(BlockOctets(f)) \in Nat \ {0}
  BY <1>3, <1>5, FS_CardinalityType, FS_EmptySet
<1>7. QED
  BY <1>1, <1>6 DEF Size

LEMMA SizeWithoutBlock ==
  ASSUME NEW f, IsFile(f), f.blocks = <<>>
  PROVE  Size(f) = f.len + f.torn
<1>1. BlockOctets(f) = {}
  BY DEF BlockOctets
<1>2. Cardinality(BlockOctets(f)) = 0
  BY <1>1, FS_EmptySet
<1>3. QED
  BY <1>2 DEF Size, IsFile

(* A file that has the length it states is a bundle that was there at      *)
(* first.                                                                  *)
LEMMA RightLengthIsBundle ==
  ASSUME NEW f, IsFile(f), f # Empty, Size(f) - f.stated = 0
  PROVE  f \in Bundles /\ f.blocks = <<>> /\ f.torn = 0 /\ f.len # 0 /\ f.stated = f.len
<1>1. ~IsSigned(f)
  BY BlockIsNoticed
<1>2. f.blocks = <<>>
  BY <1>1 DEF IsFile, IsPlain, IsTorn
<1>3. Size(f) = f.len + f.torn
  BY <1>2, SizeWithoutBlock
<1>4. f.len \in Nat /\ f.torn \in Nat /\ f.stated \in Nat
  BY DEF IsFile
<1>5. ~IsTorn(f)
  BY <1>3, <1>4 DEF IsTorn
<1>6. IsPlain(f)
  BY <1>1, <1>5 DEF IsFile
<1>7. QED
  BY <1>3, <1>4, <1>6 DEF IsPlain

LEMMA EmptyIsFile == IsFile(Empty)
BY DEF IsFile, IsPlain, Empty

-----------------------------------------------------------------------------
(* The inductive invariant.                                                *)

LEMMA InitEstablishesIInv == Init => IInv
<1> SUFFICES ASSUME Init PROVE IInv
  OBVIOUS
<1>1. FilesInv
  <2>1. files \in [Files -> Bundles]
    BY DEF Init
  <2>2. \A p \in Files : IsUnsigned(files[p])
    BY <2>1, GoIntegrityBlockAssumption
  <2>3. QED
    <3>1. \A p \in Files : IsFile(files[p])
      <4> SUFFICES ASSUME NEW p \in Files PROVE IsFile(files[p])
        OBVIOUS
      <4>1. files[p] \in Bundles /\ IsUnsigned(files[p])
        BY <2>1, <2>2
      <4>2. QED
        BY <4>1 DEF IsUnsigned, IsFile, IsPlain
    <3>2. QED
      BY <3>1, <2>1 DEF FilesInv
<1>2. run.pc = "idle" /\ runs \in 0..MaxRuns
  BY GoIntegrityBlockAssumption DEF Init, Idle
<1>3. QED
  BY <1>1, <1>2 DEF IInv, PcInv, RunInv, Active

(* Start.  Names of one file get past the comparison, and then the input is*)
(* empty as well.                                                          *)
LEMMA StartKeepsIInv ==
  ASSUME IInv, NEW in \in Paths, NEW out \in Paths, NEW s \in Strategies, Start(in, out, s)
  PROVE  IInv'
<1> DEFINE r == [pc |-> "opened", in |-> FileOf[in], out |-> FileOf[out],
                 before |-> files[FileOf[in]], strategy |-> s, hash |-> <<>>,
                 stack |-> <<>>, blockWritten |-> FALSE]
<1>1. FileOf[in] \in Files /\ FileOf[out] \in Files
  BY GoIntegrityBlockAssumption DEF Files, Range
<1>2. runs' \in 0..MaxRuns
  BY GoIntegrityBlockAssumption DEF Start, IInv
<1>3. CASE in = out
  <2>1. run'.pc = "failed" /\ UNCHANGED files
    BY <1>3 DEF Start
  <2>2. QED
    BY <2>1, <1>2 DEF IInv, FilesInv, PcInv, RunInv, Active
<1>4. CASE in # out
  <2>1. run' = r /\ files' = [files EXCEPT ![FileOf[out]] = Empty]
    BY <1>4 DEF Start
  <2>2. FilesInv'
    BY <2>1, <1>1, EmptyIsFile DEF IInv, FilesInv
  <2>3. IsRun(r)
    <3>1. <<>> \in Seq({})
      OBVIOUS
    <3>2. IsStack(<<>>)
      BY <3>1, AnySequenceIsStack
    <3>3. QED
      BY <3>2, <1>1 DEF IsRun
  <2>4. files'[r.out] = Empty /\ files'[r.in] \in {r.before, Empty}
    BY <2>1, <1>1 DEF IInv, FilesInv
  <2>5. (InputInv /\ OutputInv /\ ResultInv /\ PcInv)'
    BY <2>1, <2>4 DEF InputInv, OutputInv, ResultInv, PcInv, Active
  <2>6. QED
    BY <1>2, <2>1, <2>2, <2>3, <2>5 DEF IInv, RunInv
<1>5. QED
  BY <1>3, <1>4

(* Nothing is known of a run that has failed. *)
LEMMA FailureKeepsIInv ==
  ASSUME IInv, run'.pc = "failed", UNCHANGED <<files, runs>>
  PROVE  IInv'
BY DEF IInv, FilesInv, PcInv, RunInv, Active

(* Obtain: a file with the length it states has no block, and is not the   *)
(* output, which is empty.                                                 *)
LEMMA ObtainKeepsIInv ==
  ASSUME IInv, Obtain
  PROVE  IInv'
<1> DEFINE f == files[run.in]
<1>1. IsRun(run) /\ InputInv /\ OutputInv /\ run.pc = "opened"
  BY DEF Obtain, IInv, RunInv, Active
<1>2. CASE f = Empty \/ Size(f) - f.stated # 0
  <2>1. run' = [run EXCEPT !.pc = "failed"] /\ UNCHANGED <<files, runs>>
    BY <1>2 DEF Obtain, Stop
  <2>2. run'.pc = "failed"
    BY <2>1, <1>1 DEF IsRun
  <2>3. QED
    BY <2>1, <2>2, FailureKeepsIInv
<1>3. CASE ~(f = Empty \/ Size(f) - f.stated # 0)
  <2>1. run' = [run EXCEPT !.pc = "obtained"] /\ UNCHANGED <<files, runs>>
    BY <1>3 DEF Obtain, Stop
  <2>2. /\ run' = [pc |-> "obtained", in |-> run.in, out |-> run.out, before |-> run.before,
                   strategy |-> run.strategy, hash |-> run.hash, stack |-> run.stack,
                   blockWritten |-> run.blockWritten]
        /\ IsRun(run')
    BY <2>1, <1>1 DEF IsRun
  <2>3. f # Empty /\ f \in Bundles /\ f.blocks = <<>> /\ f.torn = 0 /\ f.len # 0
        /\ f.stated = f.len
    <3>1. IsFile(f)
      BY <1>1 DEF IsRun, IInv, FilesInv
    <3>2. f # Empty /\ Size(f) - f.stated = 0
      BY <1>3
    <3> HIDE DEF f
    <3>3. QED
      BY <3>1, <3>2, RightLengthIsBundle
  <2>4. files[run.out] = Empty /\ f \in {run.before, Empty}
    BY <1>1 DEF OutputInv, InputInv
  <2>5. run.stack = <<>>
    BY <1>1 DEF InputInv
  <2>6. run.in # run.out /\ f = run.before
    BY <2>3, <2>4
  <2>7. (InputInv /\ OutputInv /\ ResultInv)'
    <3>1. InputInv'
      BY <2>1, <2>2, <2>3, <2>5, <2>6 DEF InputInv
    <3>2. OutputInv'
      BY <2>1, <2>2, <2>4 DEF OutputInv
    <3>3. ResultInv'
      BY <2>2 DEF ResultInv
    <3>4. QED
      BY <3>1, <3>2, <3>3
  <2>8. QED
    BY <2>1, <2>2, <2>7 DEF IInv, FilesInv, PcInv, RunInv, Active
<1>4. QED
  BY <1>2, <1>3

LEMMA HashKeepsIInv ==
  ASSUME IInv, ComputeWebBundleSha512
  PROVE  IInv'
<1> DEFINE f == files[run.in]
<1>1. IsRun(run) /\ InputInv /\ OutputInv /\ run.pc = "obtained"
  BY DEF ComputeWebBundleSha512, IInv, RunInv, Active
<1>2. run' = [run EXCEPT !.pc = "hashed", !.hash = Sha512(f)] /\ UNCHANGED <<files, runs>>
  BY DEF ComputeWebBundleSha512
<1>3. /\ run' = [pc |-> "hashed", in |-> run.in, out |-> run.out, before |-> run.before,
                 strategy |-> run.strategy, hash |-> Sha512(f), stack |-> run.stack,
                 blockWritten |-> run.blockWritten]
      /\ IsRun(run')
  BY <1>2, <1>1 DEF IsRun
<1>4. Sha512(f) = << <<>>, 0, run.before.body, run.before.len >>
  BY <1>1 DEF InputInv, Sha512
<1>5. run.stack = <<>>
  BY <1>1 DEF InputInv
<1>6. Covers(Sha512(f), <<>>)
  BY DEF Covers
<1>7. InputInv'
  BY <1>1, <1>2, <1>3, <1>4, <1>5, <1>6 DEF InputInv
<1>8. OutputInv' /\ ResultInv'
  BY <1>1, <1>2, <1>3 DEF OutputInv, ResultInv
<1>9. QED
  BY <1>2, <1>3, <1>7, <1>8 DEF IInv, FilesInv, PcInv, RunInv, Active

LEMMA SignKeepsIInv ==
  ASSUME IInv, NEW extra \in Extras, SignAndAddNewSignature(extra)
  PROVE  IInv'
<1> DEFINE s == SignatureOf(extra)
           stack == <<s>> \o run.stack
<1>1. IsRun(run) /\ InputInv /\ OutputInv /\ run.pc \in {"hashed", "signed"}
  BY DEF SignAndAddNewSignature, IInv, RunInv, Active
<1>2. run' = [run EXCEPT !.pc = "signed", !.stack = stack] /\ UNCHANGED <<files, runs>>
  BY DEF SignAndAddNewSignature
<1>3. IsStack(stack) /\ Covers(run.hash, stack)
  <2>1. IsStack(run.stack) /\ Covers(run.hash, run.stack)
    BY <1>1 DEF IsRun, InputInv
  <2>2. s.signature = [key |-> s.signature.key,
                       data |-> DataToBeSigned(run.hash, run.stack, s.attributes)]
    BY DEF SignatureOf
  <2> HIDE DEF s
  <2>3. QED
    BY <2>1, <2>2, StackGrows, NewSignatureCovers DEF HasOnTop
<1> HIDE DEF stack
<1>4. /\ run' = [pc |-> "signed", in |-> run.in, out |-> run.out, before |-> run.before,
                 strategy |-> run.strategy, hash |-> run.hash, stack |-> stack,
                 blockWritten |-> run.blockWritten]
      /\ IsRun(run')
  BY <1>1, <1>2, <1>3 DEF IsRun
<1>5. InputInv'
  BY <1>1, <1>2, <1>3, <1>4 DEF InputInv
<1>6. OutputInv' /\ ResultInv'
  BY <1>1, <1>2, <1>4 DEF OutputInv, ResultInv
<1>7. QED
  BY <1>2, <1>4, <1>5, <1>6 DEF IInv, FilesInv, PcInv, RunInv, Active

LEMMA NextStrategyKeepsIInv ==
  ASSUME IInv, NEW s \in Strategies, NextStrategy(s)
  PROVE  IInv'
<1>1. IsRun(run) /\ InputInv /\ OutputInv /\ run.pc = "signed"
  BY DEF NextStrategy, IInv, RunInv, Active
<1>2. run' = [run EXCEPT !.strategy = s] /\ UNCHANGED <<files, runs>>
  BY DEF NextStrategy
<1>3. /\ run' = [pc |-> run.pc, in |-> run.in, out |-> run.out, before |-> run.before,
                 strategy |-> s, hash |-> run.hash, stack |-> run.stack,
                 blockWritten |-> run.blockWritten]
      /\ IsRun(run')
  BY <1>2, <1>1 DEF IsRun
<1>4. InputInv'
  BY <1>1, <1>2, <1>3 DEF InputInv
<1>5. OutputInv' /\ ResultInv'
  BY <1>1, <1>2, <1>3 DEF OutputInv, ResultInv
<1>6. QED
  BY <1>1, <1>2, <1>3, <1>4, <1>5 DEF IInv, FilesInv, PcInv, RunInv, Active

(* WriteBlock: the output was empty, so that it has this block, or a part  *)
(* of it, and no more.                                                     *)
LEMMA WriteBlockKeepsIInv ==
  ASSUME IInv, NEW n \in 0..(MaxSignatures + 1), WriteBlock(n)
  PROVE  IInv'
<1> DEFINE isWhole == n = Len(run.stack) + 1
           withBlock == [Empty EXCEPT !.blocks = << run.stack >>]
           withPart == [Empty EXCEPT !.torn = n]
           output == IF isWhole THEN withBlock ELSE withPart
<1>1. IsRun(run) /\ InputInv /\ OutputInv /\ run.pc = "signed"
  BY DEF WriteBlock, IInv, RunInv, Active
<1>2. run' = [run EXCEPT !.pc = "writing", !.blockWritten = isWhole] /\ UNCHANGED runs
  BY DEF WriteBlock
<1>3. /\ run' = [pc |-> "writing", in |-> run.in, out |-> run.out, before |-> run.before,
                 strategy |-> run.strategy, hash |-> run.hash, stack |-> run.stack,
                 blockWritten |-> isWhole]
      /\ IsRun(run')
  BY <1>2, <1>1 DEF IsRun
<1>4. files[run.out] = Empty /\ run.in \in Files /\ run.out \in Files /\ run.in # run.out
  BY <1>1 DEF OutputInv, InputInv, IsRun
<1>5. files' = [files EXCEPT ![run.out] = output]
  BY <1>4 DEF WriteBlock
<1>6. n \in Nat
  BY GoIntegrityBlockAssumption
<1>7. IsFile(output)
  <2>1. IsFile(withBlock)
    BY <1>1 DEF IsFile, IsSigned, Empty, IsRun
  <2>2. CASE n = 0
    <3>1. withPart = Empty
      BY <2>2 DEF Empty
    <3>2. QED
      BY <3>1, <2>1, EmptyIsFile
  <2>3. CASE n # 0
    <3>1. IsFile(withPart)
      BY <2>3, <1>6 DEF IsFile, IsTorn, Empty
    <3>2. QED
      BY <3>1, <2>1
  <2>4. QED
    BY <2>2, <2>3
<1>8. IF isWhole THEN output = withBlock
      ELSE output.torn \in Nat /\ output = [Empty EXCEPT !.torn = output.torn]
  BY <1>6 DEF Empty
<1> HIDE DEF output, isWhole
<1>9. FilesInv'
  BY <1>4, <1>5, <1>7 DEF IInv, FilesInv
<1>10. files'[run.out] = output /\ files'[run.in] = files[run.in]
  BY <1>4, <1>5 DEF IInv, FilesInv
<1>11. InputInv'
  BY <1>1, <1>3, <1>10 DEF InputInv
<1>12. OutputInv'
  BY <1>3, <1>8, <1>10 DEF OutputInv
<1>13. ResultInv'
  BY <1>3 DEF ResultInv
<1>14. QED
  BY <1>2, <1>3, <1>9, <1>11, <1>12, <1>13 DEF IInv, PcInv, RunInv, Active

(* CopyBundle: what is put behind the block has no block itself, and states*)
(* no more than its own length.                                            *)
LEMMA CopyKeepsIInv ==
  ASSUME IInv, NEW n \in 0..MaxLength, CopyBundle(n)
  PROVE  IInv'
<1> DEFINE f == files[run.in]
           o == files[run.out]
           pc == IF n = f.len THEN "done" ELSE "failed"
           copied == [blocks |-> o.blocks \o f.blocks, torn |-> o.torn + f.torn,
                      body |-> f.body, len |-> n, stated |-> IF n = f.len THEN f.stated ELSE 0]
<1>1. IsRun(run) /\ InputInv /\ OutputInv /\ run.pc = "writing"
  BY DEF CopyBundle, IInv, RunInv, Active
<1>2. run' = [run EXCEPT !.pc = pc] /\ UNCHANGED runs /\ n \in 0..f.len
  BY DEF CopyBundle, Stop
<1>3. /\ run' = [pc |-> pc, in |-> run.in, out |-> run.out, before |-> run.before,
                 strategy |-> run.strategy, hash |-> run.hash, stack |-> run.stack,
                 blockWritten |-> run.blockWritten]
      /\ IsRun(run')
  BY <1>2, <1>1 DEF IsRun
<1>4. /\ run.in \in Files /\ run.out \in Files /\ run.in # run.out
      /\ f = run.before /\ f.blocks = <<>> /\ f.torn = 0 /\ f \in Bundles
      /\ f.len # 0 /\ f.stated = f.len
      /\ IsFile(f) /\ IsStack(run.stack)
  BY <1>1 DEF InputInv, IsRun, IInv, FilesInv
<1>5. IF run.blockWritten THEN o = [Empty EXCEPT !.blocks = << run.stack >>]
      ELSE o.torn \in Nat /\ o = [Empty EXCEPT !.torn = o.torn]
  BY <1>1 DEF OutputInv
<1>6. files' = IF n = 0 THEN files ELSE [files EXCEPT ![run.out] = copied]
  BY <1>4 DEF CopyBundle, IInv, FilesInv
<1>7. PICK blocks \in { <<>>, << run.stack >> }, torn \in Nat :
        /\ o = [blocks |-> blocks, torn |-> torn, body |-> "nothing", len |-> 0, stated |-> 0]
        /\ blocks # <<>> => torn = 0
        /\ run.blockWritten => blocks = << run.stack >> /\ torn = 0
  <2>1. CASE run.blockWritten
    BY <2>1, <1>5 DEF Empty
  <2>2. CASE ~run.blockWritten
    BY <2>2, <1>5 DEF Empty
  <2>3. QED
    BY <2>1, <2>2
<1>8. copied = [blocks |-> blocks, torn |-> torn, body |-> f.body, len |-> n,
                stated |-> IF n = f.len THEN f.stated ELSE 0]
  <2>1. blocks \o <<>> = blocks
    BY <1>7
  <2>2. torn + 0 = torn
    BY <1>7
  <2>3. o.blocks = blocks /\ o.torn = torn
    BY <1>7
  <2>4. QED
    BY <2>1, <2>2, <2>3, <1>4
<1>9. f.len \in Nat \ {0} /\ n \in Nat
  BY <1>2, <1>4 DEF IsFile
<1> HIDE DEF copied
<1>10. n # 0 => IsFile(copied)
  <2>1. CASE blocks = <<>> /\ torn = 0
    <3>1. CASE n = f.len
      <4>1. copied = f
        BY <3>1, <2>1, <1>4, <1>8 DEF IsFile
      <4>2. QED
        BY <4>1, <1>4
    <3>2. CASE n # f.len
      <4>1. copied.stated = 0 /\ copied.len = n
        BY <3>2, <1>8
      <4>2. n # 0 => IsPlain(copied)
        BY <4>1, <2>1, <1>8 DEF IsPlain
      <4>3. QED
        BY <4>2, <3>2, <2>1, <1>8, <1>9 DEF IsFile
    <3>3. QED
      BY <3>1, <3>2
  <2>2. CASE torn # 0
    <3>1. blocks = <<>>
      BY <2>2, <1>7
    <3>2. IsTorn(copied)
      BY <2>2, <3>1, <1>4, <1>8, <1>9 DEF IsTorn
    <3>3. QED
      BY <3>2, <1>4, <1>7, <1>8, <1>9 DEF IsFile
  <2>3. CASE blocks = << run.stack >>
    <3>1. torn = 0
      BY <2>3, <1>7
    <3>2. IsSigned(copied)
      BY <2>3, <3>1, <1>4, <1>8, <1>9 DEF IsSigned
    <3>3. QED
      BY <3>1, <3>2, <1>4, <1>8, <1>9 DEF IsFile
  <2>4. QED
    BY <2>1, <2>2, <2>3, <1>7
<1>11. FilesInv'
  BY <1>4, <1>6, <1>10 DEF IInv, FilesInv
<1>12. ResultInv' /\ OutputInv'
  <2>1. OutputInv'
    BY <1>3 DEF OutputInv
  <2>2. ASSUME pc = "done", run.blockWritten
        PROVE  files'[run.out] = [blocks |-> << run.stack >>, torn |-> 0,
                                  body |-> run.before.body, len |-> run.before.len,
                                  stated |-> files'[run.out].stated]
    <3>1. n = f.len /\ n # 0
      BY <2>2, <1>4
    <3>2. files'[run.out] = copied
      BY <3>1, <1>4, <1>6 DEF IInv, FilesInv
    <3>3. blocks = << run.stack >> /\ torn = 0
      BY <2>2, <1>7
    <3>4. QED
      BY <3>1, <3>2, <3>3, <1>4, <1>8
  <2>3. QED
    BY <2>1, <2>2, <1>3 DEF ResultInv
<1>13. InputInv'
  BY <1>1, <1>3 DEF InputInv
<1>14. QED
  BY <1>2, <1>3, <1>11, <1>12, <1>13 DEF IInv, PcInv, RunInv, Active

THEOREM IntegrityBlockInvariance == Spec => []IInv
<1>1. IInv /\ [Next]_vars => IInv'
  <2> SUFFICES ASSUME IInv, [Next]_vars PROVE IInv'
    OBVIOUS
  <2>1. ASSUME NEW in \in Paths, NEW out \in Paths, NEW s \in Strategies, Start(in, out, s)
        PROVE  IInv'
    BY <2>1, StartKeepsIInv
  <2>2. CASE Obtain
    BY <2>2, ObtainKeepsIInv
  <2>3. CASE ComputeWebBundleSha512
    BY <2>3, HashKeepsIInv
  <2>4. ASSUME NEW extra \in Extras, SignAndAddNewSignature(extra) PROVE IInv'
    BY <2>4, SignKeepsIInv
  <2>5. ASSUME NEW s \in Strategies, NextStrategy(s) PROVE IInv'
    BY <2>5, NextStrategyKeepsIInv
  <2>6. CASE SignFails
    <3>1. run'.pc = "failed" /\ UNCHANGED <<files, runs>>
      BY <2>6 DEF SignFails, Stop, IInv, RunInv, IsRun, Active
    <3>2. QED
      BY <3>1, FailureKeepsIInv
  <2>7. ASSUME NEW n \in 0..(MaxSignatures + 1), WriteBlock(n) PROVE IInv'
    BY <2>7, WriteBlockKeepsIInv
  <2>8. ASSUME NEW n \in 0..MaxLength, CopyBundle(n) PROVE IInv'
    BY <2>8, CopyKeepsIInv
  <2>9. CASE UNCHANGED vars
    BY <2>9 DEF vars, IInv, FilesInv, PcInv, RunInv, IsRun, InputInv, OutputInv, ResultInv
  <2>10. QED
    BY <2>1, <2>2, <2>3, <2>4, <2>5, <2>6, <2>7, <2>8, <2>9 DEF Next
<1>2. QED
  BY <1>1, InitEstablishesIInv, PTL DEF Spec

-----------------------------------------------------------------------------

(* What is signed is a whole bundle that was there at first, whatever     *)
(* earlier runs left.                                                      *)
THEOREM WholeBundlesAreSigned == Spec => []OnlyBundlesAreSigned
<1>1. IInv => OnlyBundlesAreSigned
  <2> SUFFICES ASSUME IInv, run.pc \in {"hashed", "signed", "writing", "done"}
               PROVE  \E b \in Bundles : b.len # 0 /\ b.stated = b.len /\ run.hash = Sha512(b)
    BY DEF OnlyBundlesAreSigned
  <2>1. InputInv
    BY DEF IInv, RunInv, Active
  <2>2. /\ run.before \in Bundles /\ run.before.len # 0 /\ run.before.stated = run.before.len
        /\ run.hash = << <<>>, 0, run.before.body, run.before.len >>
    BY <2>1 DEF InputInv
  <2>3. run.before.blocks = <<>> /\ run.before.torn = 0
    BY <2>2, GoIntegrityBlockAssumption DEF IsUnsigned
  <2>4. QED
    BY <2>2, <2>3 DEF Sha512
<1>2. QED
  BY <1>1, IntegrityBlockInvariance, PTL

(* No sequence of runs puts a block in front of a block: not on the output *)
(* of an earlier run, on what a failed run left, or through two names of   *)
(* one file.                                                               *)
THEOREM BundlesHaveOneBlock == Spec => []NoNestedBlocks
<1>1. IInv => NoNestedBlocks
  <2> SUFFICES ASSUME IInv, NEW p \in Files PROVE Len(files[p].blocks) <= 1
    BY DEF NoNestedBlocks
  <2>1. IsFile(files[p])
    BY DEF IInv, FilesInv
  <2>2. files[p].blocks = <<>> \/ \E b : files[p].blocks = << b >>
    BY <2>1 DEF IsFile, IsPlain, IsTorn, IsSigned
  <2>3. Len(<<>>) = 0 /\ \A b : Len(<< b >>) = 1
    OBVIOUS
  <2>4. Len(files[p].blocks) \in {0, 1}
    BY <2>2, <2>3, Zenon
  <2> DEFINE k == Len(files[p].blocks)
  <2> HIDE DEF k
  <2>5. k \in {0, 1} => k <= 1
    OBVIOUS
  <2>6. QED
    BY <2>4, <2>5 DEF k
<1>2. QED
  BY <1>1, IntegrityBlockInvariance, PTL

(* A run that succeeds, with a block that was written, leaves its input    *)
(* behind signatures each of which verifies, unless its own keys do not go *)
(* together.                                                               *)
THEOREM OutputsVerify == Spec => []OutputVerifies
<1>1. IInv => OutputVerifies
  <2> DEFINE o == files[run.out]
  <2> SUFFICES ASSUME IInv, run.pc = "done", run.blockWritten
               PROVE  /\ Len(o.blocks) = 1
                      /\ \A i \in DOMAIN o.blocks[1] : KeysMatch(o.blocks[1][i]) => Verifies(o, i)
                      /\ o.body = run.before.body
                      /\ o.len = run.before.len
    BY DEF OutputVerifies
  <2>1. IsRun(run) /\ InputInv /\ ResultInv
    BY DEF IInv, RunInv, Active
  <2>2. o = [blocks |-> << run.stack >>, torn |-> 0, body |-> run.before.body,
             len |-> run.before.len, stated |-> o.stated]
    BY <2>1 DEF ResultInv
  <2>3. Sha512([o EXCEPT !.blocks = <<>>]) = run.hash
    BY <2>1, <2>2 DEF InputInv, Sha512
  <2>4. Covers(run.hash, run.stack)
    BY <2>1 DEF InputInv
  <2>5. Len(o.blocks) = 1 /\ o.blocks[1] = run.stack
    BY <2>2
  <2>6. ASSUME NEW i \in DOMAIN run.stack, KeysMatch(run.stack[i])
        PROVE  Verifies(o, i)
    <3>1. run.stack[i].signature =
            [key |-> run.stack[i].attributes.publicKey,
             data |-> DataToBeSigned(run.hash, SubSeq(run.stack, i + 1, Len(run.stack)),
                                     run.stack[i].attributes)]
      BY <2>4, <2>6 DEF Covers, KeysMatch
    <3>2. QED
      BY <2>3, <2>5, <3>1 DEF Verifies
  <2>7. QED
    BY <2>2, <2>5, <2>6
<1>2. QED
  BY <1>1, IntegrityBlockInvariance, PTL

=============================================================================
