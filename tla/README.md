# Models of the Web Packaging tools

TLA+ models of the code of this repository: the Go and JavaScript libraries and
command line tools that write, read, sign and verify **signed exchanges** (one
HTTP exchange, signed) and **Web Bundles** (many exchanges in one file, signed as
a whole or not). The source is the reference for every definition; `PROJECT.json`
names, for each, the lines it stands for.

1. [The system](#1-the-system)
2. [The models](#2-the-models)
3. [Runs, bounds and fairness](#3-runs-bounds-and-fairness)
4. [Proofs](#4-proofs)
5. [What the code does otherwise than it says](#5-what-the-code-does-otherwise-than-it-says)
6. [What is only model-checked, and what is not modelled](#6-what-is-only-model-checked-and-what-is-not-modelled)
7. [Plan](#7-plan)

## 1. The system

### Components

| Component | State it keeps | Operations | Correct when |
| --- | --- | --- | --- |
| MICE coding, `go/signedexchange/mice` | decoder: record size, expected proof of the next record, octets not handed over yet | `Encode`, `NewDecoder`, `Read` | only authentic octets come out, in their order; the end is reported only after all of them; honest streams are never refused |
| Signed exchanges, `go/signedexchange` | the `Exchange` a caller builds up; the file | `NewExchange`, `MiEncodePayload`, `AddResponseHeader`, `AddSignatureHeader`, `Write`, `ReadExchange` | what is written reads back; the signed message binds everything that the reader uses |
| Verifier, `go/signedexchange/verifier.go` | none across calls; fetches a certificate chain per signature | `Verify` | accepts what a key holder signed, in its window, and nothing else; one bad signature does not spoil a good one |
| Bundle writer, `go/bundle/encoder.go` | buffer of responses, index entries per URL, count of written octets | `addExchange`, `Finalize`, `WriteTo` | offsets, lengths and the footer describe what is there; variants are indexed in row-major order; the count is right when a write fails |
| Bundle reader, `go/bundle/decoder.go` | offset of the next section, metadata read so far | `loadMetadata`, `parseIndexSection*`, `loadResponse`, `Read` | reads back what was written; unknown sections are ignored; an incomplete bundle loses only what is missing |
| Bundle signatures, `go/bundle/signature`, `sign-bundle signatures-section` | the bundle in memory, whose bodies and headers signing rewrites; hashes collected by a signer; lists of certificates and signed subsets | `NewSigner`, `AddPayloadIntegrity`, `AddExchange`, `UpdateSignatures`, `NewVerifier`, `VerifyExchange` | every signer covers all it can; later signers leave earlier signatures alone; verified means signed |
| Integrity block in Go, `go/integrityblock`, `sign-bundle integrity-block` | input and output file, signature stack | `ObtainIntegrityBlock`, `ComputeWebBundleSha512`, `SignAndAddNewSignature`, `writeOutput` | output is the input behind signatures that verify; never a block in front of a block |
| Integrity block in JS, `js/sign` | `SignedWebBundle`: block (bundle ID, signature stack) and bundle | `fromBytes`, `addSignature` and `IntegrityBlockSigner.sign` (asynchronous), `removeSignature`, `overrideBundleId`, `getSignedWebBundleBytes` | interleaved calls neither lose signatures nor store invalid ones; what is saved can be read |
| `wbn-sign` | files | `sign`, `add-signature`, `remove-signature`, `replace-signature` | files that open are whole and valid whatever the order of commands and failures; a failure costs the output at most; a success does what was asked, in its order |
| Bundle builder and decoder in JS, `js/bundle` | section list, responses, index with running offset | `addExchange`, `setPrimaryURL`, `setManifestURL`, `createBundle`; `Bundle` | what is built is read alike by the Go and the JS reader |
| CBOR codec, `go/internal/cbor` | octets written, octets left to read | `Encoder`, `Decoder` | what is written reads back, heads are of minimal length, maps are in canonical order |
| Deterministic check, `go/internal/cbor`, `js/sign/src/cbor` | none | `Deterministic`, `checkDeterministic` | accepts deterministic encodings and nothing else, and answers for any octets |
| Response headers, in `go/bundle` | none | `EncodeHeader`, `decodeCborHeaders`, `loadResponse` | what is written reads back; a name comes once |
| Certificate chains and SCT lists, `go/signedexchange/certurl`, `gen-certurl` | the chain | `NewCertChain`, `Validate`, `Write`, `ReadCertChain`, `SerializeSCTList` | what is written reads back; a chain that lacks anything is refused |
| Structured headers, `go/signedexchange/structuredheader` | text left to parse | parser, writer | what is written reads back; what is accepted can be written, and reads back as it was |
| `gen-bundle` | exchanges collected, output file | `fromHar`, `fromURLList`, `fromDir`, `main` | the bundle has what the input offers for each URL |
| Web Bundle IDs, key parsing, dump tools, command line of `js/bundle` | none, or files | pure functions, I/O | see `PROJECT.json`, "components" |

### How they interact

`gen-signedexchange` builds an `Exchange`, MICE-codes its payload, signs it,
verifies it in memory and writes it. `dump-signedexchange` reads a file and calls
`Verify`, which fetches the certificate chain of each signature and runs the MICE
decoder over the payload. `gen-bundle` calls `Bundle.WriteTo`, `BundleBuilder` does
the same in JavaScript. `sign-bundle signatures-section` reads a bundle, MICE-codes
the payloads a signer covers and writes the bundle with one more signed subset;
`dump-bundle` verifies them. `sign-bundle integrity-block` and `wbn-sign` put a
block of signatures over the hash of a whole bundle in front of it. Components
share files (rewritten in place or not), in-memory objects that calls mutate step by
step, and, in JavaScript, one object between calls that are suspended at an `await`.
All Go formats are written and read with the CBOR codec; the signature header of a
signed exchange is a structured header; chains of certificates are fetched by the
verifier as `gen-certurl` wrote them.

### What is hard

Each hazard has an entry with its line in `PROJECT.json`, "hazards". The main kinds:

* **Interleaving**: two `addSignature` calls on one object, `removeSignature` and
  `overrideBundleId` between the `await`s of a call that has encoded the block
  before (`integrity-block-signer.ts:91-121`).
* **Partial failure**: strategies that reject after others have pushed their
  signatures; certificates appended before signing fails (`signer.go:145`); bodies
  rewritten before the exchange is refused (`bundle.go:70`); writes that stop half
  way; fields checked after others have been written.
* **Crashes**: files are truncated and then written.
* **Unreliable delivery**: streams that are cut, damaged, put together from two
  files or served with another certificate chain.
* **Order**: the position of a certificate in a shared list, offsets taken before
  and after a buffer grows, the row-major order of variants, a section that is
  skipped but must be counted.
* **Time and limits**: windows of at most seven days with both ends included,
  clocks before 1970, lengths at the largest value of a field, lengths that are
  negative as an `int`.
* **Input made by anyone**: heads that are cut off or not minimal, entries of a map in
  any order, repeated or unknown, text that one side can write and the other not read.

## 2. The models

Hashes, digests and signatures are ideal: they are the data they are over, so that
equal means of equal data. In the models of protocols an encoding is what it carries, and takes a
width, an order or a size only where a property depends on it. That the encodings do
carry it is what the models of formats are about (the second table); these have the octets.

| Module | Models | Composed from |
| --- | --- | --- |
| `MiceFormat` | `Encode` and the proof chain as pure definitions over an ideal hash of fixed length | |
| `MiceDecoder` | `NewDecoder`, `Read`, `readNextRecord`, `validateRecord`; a stream changed on its way; an underlying reader that may fail, and a caller that calls `Read` again | `MiceFormat` |
| `MiceReader` | abstract specification: a reader hands over growing beginnings of the payload and ends at its end | |
| `SxgFormat` | the three versions of the file format, header coding, `EncodeBytesUint` with its width, the signed message, `Write` and `ReadExchange` | |
| `SxgVerifier` | what `Verify` decides of one signature: fields, same origin, window, chain, cacheability, payload | `SxgFormat` |
| `SignedExchange` | publisher calls in any order; deliveries; the loop of `Verify` with a fetch per turn | `SxgVerifier` |
| `Variants` | `numberOfPossibleKeys`, `indexInPossibleKeys`, `possibleKeyAt`, `entriesInPossibleKeyOrder`, on Variants headers as texts with the axes they are parsed to | |
| `BundleFormat` | bundles as sequences of cells (one for each CBOR head, byte string or payload octet) | `Variants` |
| `BundleWriter`, `BundleReader` | `WriteTo` over a failing writer; `Read`, a step per section, index entry and response | `BundleFormat` |
| `BundleRoundTrip` | writer and reader joined by the octets that got through | both |
| `BundleBuilder`, `BundleDecoder` | the JavaScript builder and decoder | `BundleFormat` |
| `BundleBuilderRead` | a bundle made by the JavaScript builder, read by both readers | the above and `BundleReader` |
| `BundleSignature` | signers one after another on one bundle in memory, failing, going on or starting over; a client of the file, intact or altered | |
| `GoIntegrityBlock` | runs of `sign-bundle integrity-block` over files | |
| `IntegrityBlock` | the block of `js/sign`: ID and stack, what is valid, `toCbor` and `fromCbor` with its checks, and the file around the block with the length that `fromBytes` takes from its end | |
| `SignedWebBundle` | one object and the asynchronous calls on it, an action for each stretch between two `await`s | `IntegrityBlock` |
| `WbnSignCli` | commands over files, with the write in two steps, writes that fail and crashes | `IntegrityBlock` |
| `MiceProofs`, `SignedExchangeProofs`, `BundleSignatureProofs`, `GoIntegrityBlockProofs`, `SignedWebBundleProofs`, `WbnSignCliProofs` | theorems about the module of that name | that module |
| `BundleProofs` | theorems about `BundleRoundTrip`, the index order of `Variants` and the heads and strings of `Cbor` | all three |
| `InductionProofs` | lemmas on induction, least numbers, lists, `FlattenSeq` and folds, which the other proofs cite | |

The formats are algorithms without state of their own, and are operators. A function
that takes something from the front of its input returns what `Results` defines: an
error, or a value and the rest of the input, with which `Then` goes on.

| Module | Models | Uses |
| --- | --- | --- |
| `Cbor` | `Encoder` and `Decoder`: heads with all 64 bits as octets, strings, UTF-8, `EncodeMap` with its order and its refusal of repeated keys | `Results` |
| `CborDeterministic` | `Deterministic` and `checkDeterministic`, one definition with the language as a constant: where Go panics and JavaScript throws, `int` and `Number` | `Cbor` |
| `ResponseHeaders` | `EncodeHeader`, `addResponse`, `decodeCborHeaders`, `loadResponse`, with canonical header names | `Cbor` |
| `CertChain` | chains and SCT lists as `gen-certurl` writes, the verifier reads and `dump-certurl` prints them | `Cbor` |
| `StructuredHeaders` | the parser and the writer, on characters | `Results` |
| `GenBundle` | the exchanges made of a HAR file, a list of URLs and a directory; header overrides; `Validate`; what becomes of the output file | `BundleFormat` |
| `MCCbor`, `MCGenBundle`, `MCFormats` | inputs of these algorithms, put together part by part, and what is asked of the algorithms | all of them |

State follows the code: a record for each struct or object (`run` for the local
variables of a command or a signer, `call[c]` for an asynchronous call), a sequence
for each slice or buffer, and a variable of history where a property speaks of the
past (`signings`, `delivered`, `removed`, `promised`, `before`). An action is what a function does
between two points where something else can happen: an `await`, a read or a write
that can fail, a return to a caller who may call something else. Some definitions
come with a variant marked "a slip" or "mutant": a plausible mistake at that place.
No specification uses them; replacing the definition by the variant breaks the
property that `PROJECT.json` names.

Choices that are not in the code:

* `MiceDecoder`: inputs are encodings with one change (a record dropped, repeated,
  moved or altered, the end cut off or extended), for a caller who has the digest.
* `SignedExchange`: deliveries are a file, a cut file, one with a changed field, two
  files with their fields mixed, and one with more signatures in its list. A chain
  fetched is any of the workload's. The reader starts when the publisher rests.
* `BundleSignature`: an altered bundle is one that differs in one place from the
  file (header, body or URL of another exchange, a moved or replaced certificate, a
  subset dropped or exchanged, the other version). A write of the file may be cut short:
  nothing can be read of it, or all but the end of the last body. In the second case
  `bundle.Read` takes zeros from beyond the end of its buffer (`decoder.go:571` slices
  up to the capacity), and the next signer signs them; `VerdictsMatchHistory` says exactly this.
* `SignedWebBundle`: strategies are the caller's code and may reject or answer with a
  signature of any key over any ID. The object is new or was read from any file that
  `fromBytes` takes: files of others have at most one entry, as `fromCbor` checks each alone.
* `IntegrityBlock`: the encoded block keeps what `fromCbor` looks at: whether it is one item of
  CBOR, magic, version, the names among its attributes, and the attributes of each entry.
  Attributes other than the ID are dropped by `fromCbor`, as in the code.
* `WbnSignCli`: one command at a time, as the tool has no lock and no claim to one. A write
  that stops leaves a part of the block, or the block and a part of the bundle; the last
  octets of a part are assumed not to state the part's own length by chance.
* `GoIntegrityBlock`: the same assumption for a copy that is cut; a block of which only a
  part was written (`torn`) is in front of whatever is copied behind it, as the result of
  that write is dropped.
* `BundleFormat`: an empty Variants header, which `encoder.go:232` takes for none, is none.
  A table of sections of 8192 octets or more, which the Go reader refuses, is one with the name
  `LongName`.

## 3. Runs, bounds and fairness

| Run | States, about | Asks |
| --- | --- | --- |
| `mice_decoder` | 41 000 | only authentic octets, no early end, no false alarm, implements `MiceReader`; an honest stream is read to its end |
| `signed_exchange` | 593 000 | accepted means signed; the genuine file is accepted; what was written reads back, for many kinds of exchanges and signers, and when two files and two chains mix |
| `formats` | 721 000 | the algorithms of the formats: indices in row-major order, deterministic checks that are exact, and round trips of CBOR, chains, SCT lists, structured headers and responses; `gen-bundle` generates what its input offers |
| `bundle_round_trip` | 265 000 | the count of octets, the round trip, truncation |
| `bundle_builder` | 168 000 | the JavaScript builder against both readers, with URLs and section names that only the Go reader refuses |
| `bundle_signature` | 504 000 | verified means signed; refusals have a cause; verdicts match what was signed; all of a signer's hosts are covered; later signers undo nothing |
| `go_integrity_block` | 11 100 | what is signed is a whole bundle that was there at first; no nested blocks; each signature of an output verifies unless its own two keys do not match |
| `signed_web_bundle` | 2 017 000 | two interleaved calls of one or two strategies: valid unless overridden, resolved means present, saved bytes load with the signatures that their caller was promised |
| `wbn_sign_cli` | 65 000 | files that open are whole and valid; a failure, also in the middle of a write, costs the output at most; a success is as asked |
| `bundle_unknown_section`, `sxg_oversize`, `repeated_header` | | one disagreement each, section 5 |

Why the bounds are enough to meet the cases:

* `MCMiceDecoder`: payloads of 0 to 5 octets in records of 2 give no record, a
  partial one, a full one and three; digests of 2 symbols fit where payload does, so
  that parts of proofs can be taken for payload; one fault suffices for a retry,
  and buffers of 1 and 2 octets for reads that leave something over.
* `MCSignedExchange`: `Field2`, `Field3` and the `Max...Length` constants scale the
  widths and limits of the format so that lengths at, below and above them occur;
  times 0 to 1 with windows that begin, end, are exactly seven days (2 units) and
  longer. A behaviour has one of three workloads, each wide in one direction:
  `Breadth` has every kind of exchange and signer, one file at a time; `Mixing` has two
  files and two signings (`maxFiles`, `maxSignings`), so that fields and chains of two
  files meet; `Caching` has headers of several values. A workload is chosen at the
  start and never changes; it bounds the inputs and takes no part in any step.
* `MCFormats` has an input of one sort in each behaviour, which grows by a part at a
  time; every input of a sort up to its bound is a state.
  Index entries: up to three responses of a URL, whose Variants headers may spell the same axes in two ways, axes with up to two values, empty and
  repeated axes, one product above the limit (`MaxNumVariantsForSingleURL`, 5 in place of 10000).
  CBOR: up to `MaxPieces` = 4 pieces of octets, enough for a map of one entry in an
  array and for a map of two, with heads of every width, minimal and not, and lengths around
  2^32, 2^63 and 2^64; `MaxCalls` = 3 calls of the encoder with numbers on both sides of every
  change of width. Chains: chains of `MaxCerts` = 2 and files whose parts come in any
  order; `MaxScts` = 3 with octets of a base of `OctetRange` = 4, where the largest list is 15 octets long.
  Structured headers: four lexemes of text, among which every class of characters, and
  structures of two to three members; numbers up to `MaxNumber` = 99. Response headers: two
  fields added by a caller, three entries made by anyone. `gen-bundle`: three entries, lines
  or files, so that the second of three responses can be the one dropped; among them a line too
  long for the scanner, a URL no request can be made of and a directory that cannot be looked into.
* `MCBundleRoundTrip`: up to three exchanges: an index entry with one, several and
  invalid sets of variants next to another URL. The writer may fail after every
  cell. Lengths stay below the size where the head of a CBOR item grows.
* `MCBundleBuilder`: five calls are enough for a failing `createBundle`, a repair and
  a second attempt, and for two exchanges of one URL.
* `MCBundleSignature`: three signers of eight kinds: two certificates with one key,
  one for another key, a chain with an issuer, windows that end at the clock's
  readings, too long, before 1970, an unsupported curve, an invalid chain. Three, so
  that a failed one can stand between two that succeed. Bundles: two hosts, one URL
  twice, one response with a Digest of its own.
* `MCSignedWebBundle`: two callers, symmetric, an ID and the empty one, and two keys; a call has one
  strategy, or two of which the second uses the key of the other call, so that a
  rejection can come after a push and pushes of two calls can meet on a key.
  `MaxPushes` bounds the signatures, `MaxOverrides` the overrides.
  `MCWbnSignCli`: two files, keys and IDs, and lists of one or two keys, the same one twice
  among them; two suffice for a list whose second entry undoes or repeats the first. Blocks
  have up to `MaxEntries` = 2 signatures: a replacement next to one that has to stay.
* `MCGoIntegrityBlock`: two runs, of which the second finds what the first left,
  three names of two files, and three strategies, one of which has the public key of another key pair.

Deadlock is checked in `signed_web_bundle` and `wbn_sign_cli`. In the others a behaviour
ends: a stream is read, a bundle written and verified, a bound on calls reached.

**Fairness.** Only `mice_decoder` assumes any, for `HonestStreamEnds`: weak fairness of
`NewDecoder` and of `Read`. This is a caller, such as `ioutil.ReadAll` in both verifiers, that keeps
reading; in the code nothing else runs between two calls. The fair reads are those
in which the underlying reader does not fail: it may fail at any time, and then the
promise is off, but fairness must not oblige it to. No other model needs fairness, as nothing in the
code retries or waits for another party without a caller who asks for it.

## 4. Proofs

`tlapm` checks all proofs. The assumptions are those on constants, named in the
modules that declare them; TLC evaluates them in the runs.

**`MiceProofs`**: for every payload, record size, stream and number of faults.
`TypeCorrectness`, `Authenticity` (`OnlyAuthenticOctets`), `NoSilentTruncation`
(`EndMeansComplete`), `NoRefusalOfHonestStreams` (`NoFalseAlarm`) and `DecoderImplementsReader`
(`ImplementsReader`: `MiceDecoder` implements
`MiceReader`). The properties are not inductive: that the next record will be
authentic follows from what `nextProof` is. The inductive invariant `IInv` says that
as long as there is an expected proof, it is that of the record of the payload where
the decoder stands, and that what was delivered and what is left in `out` are the
octets before it. That it is kept rests on lemmas on the format: the hash is
injective, two strings that end in the same flag octet are equal only if the rest
is, the records cut the payload without gap. A record that validates is therefore
the payload's record together with the next proof (`LastRecordAuthentic`,
`FullRecordAuthentic`).

`NoFalseAlarm` is the other direction and needs more, as it speaks of what is still to
come: for a stream that the encoder made, `OnTrack` says that what is unread begins at
a record, is the rest of the encoding from that record on, and that the proof expected
is the encoder's. The encoding from a record on is its octets, the next proof and the
encoding from the next record on (`EncodedTails`), so that a read of a record's size
takes exactly the record and its proof. Two facts are inductions over the number of
records: that the recursive function `ProofChain` unfolds at every
position (`ProofChainUnfolds`) and that `FlattenSeq` takes the records apart one by one
(`FlattenUnfolds` in `InductionProofs`). The first is about the existence of a chain of any length,
the second about the folds of the community modules; both come from `InductionOnSets`,
induction over the membership in a set, which is well-founded induction with the
predicate replaced by a set.

**`SignedExchangeProofs`**: for every workload (exchanges, additions to the headers, signers, chains),
any number of files, signings and fetches. `AcceptedIsSigned` (`AcceptedAsSigned`), from
`ExchangeInvariance`. Its inductive invariant has a part for each place where a signature
can be. `PublisherInv`: the exchange in memory is sound, and so is each that was
signed. `DiskInv`: a file, whole or left by a failed `Write`, has its signatures in their place, and its
header section is one that `Write` makes for its version. `ReaderInv`: the same of what a reader holds, and if it
has found that valid, then on account of one of its signatures and one of the chains it fetched. A signature is
genuine if its message is the one that a signing of the history is over (`Genuine`); an exchange is sound if its
digest header, unless it says nothing of any payload, has the digest of the payload the
exchange has now (`DigestIsOwn`): no payload takes the place of another after it was encoded. This is what ties the payload to the
signature, which does not cover it: the signature covers the digest header, and the
digest is that of the payload. The proof follows each delivery (cut, damaged, mixed, listed) and shows that no
signature comes into being on the way, then that equal
messages have equal fields (the status and headers of every version, the method and the request
headers of those that have them). It assumes that the exchanges of a workload
are unsigned and that no value of their headers or of an addition is a digest of a payload: digests are ideal, and
`MiEncodePayload` is where one is computed.

The other direction is `WrittenIsReadBack` (`ReadsBack`: a file that was written whole is read as the exchange it
was written from, of every version) and `CheckedIsAccepted` (`GenuineIsAccepted`: what passed the generator's
check is accepted from the intact file with the chain it was checked with), both from `FilesInvariance`. Its
invariant is `HeldInv` (the exchange in memory is well formed, and `checked` means that it passes `SelfCheckPasses`
now: every call that changes it takes the mark away), `EntriesInv` (each file is what `Write` made of the exchange
noted with it, which is well formed) and `ReadingInv` (the reader holds what `ReadExchange` makes of its file; while it has accepted
nothing, every signature it has looked at was rejected, with a chain that it did fetch). The format is read by
lengths, so the proof shows for each field that it ends where its length says, and for the headers that what is
encoded in canonical order is decoded to the same map (lengths are sums over finite sets of headers). It assumes
of a workload that its header maps are finite and the lengths of its URLs numbers.

**`BundleSignatureProofs`**: for every bundle, signers, windows, clock readings and alteration of the file.
`SigningTypeCorrectness`, `AllHostsAreSigned` (`SignsAllOfItsHosts`), `SignaturesAreKept`
(`EarlierSigningsKept`), `VerifiedIsSigned` (`VerifiedMeansSigned`), `RefusalsHaveACause`
(`RefusedForACause`), `VerdictsAreRight` (`VerdictsMatchHistory`), all from `SigningInvariance`.
`BundlesInv`: whatever the file and the bundle in memory have gone through, their exchanges are those of the
original with at most a digest added, each vouched subset is a signing of the history and points
to its signer's certificate, what a subset covers is as it was signed or has lost its end (`Intact`), and
memory keeps what the file has (`Keeps`): an exchange that is covered has a digest, so
that no later signer changes it. `RunInv`: the hashes of a signer under way are those of
the exchanges before `next` that it can sign, as they are in memory. `SigningsInv`: a finished signing
covers exactly the URLs of its hosts, each once, with a body coded for its digest.
`ClientInv`: however the bundle was altered, a signature that it holds was made (`IsSigned`), and what the client
has found is what the algorithm says of the bundle it received. Bundles
before any signing are assumed to have bodies that are not encoded yet (`IsPlain`); a Digest header they may have.

**`GoIntegrityBlockProofs`**: for any files, names, strategies and number of runs.
`WholeBundlesAreSigned` (`OnlyBundlesAreSigned`), `BundlesHaveOneBlock` (`NoNestedBlocks`) and `OutputsVerify`
(`OutputVerifies`), from `IntegrityBlockInvariance`. A file has no block (`IsPlain`), a part of one
(`IsTorn`) or a whole one (`IsSigned`), and with either there are more octets than the end of the bundle can state: this is what
the comparison of lengths finds out. Between reading and writing the invariant has to say
that the input is still what it was (`InputInv`: two names may lead to one file, and then the run must fail
before it has read a length), that the output is empty or has the block or its part alone (`OutputInv`),
and that each signature covers the hash of the input and the stack that was there before it (`Covers`).

**`WbnSignCliProofs`**: for any files, keys, IDs and lists of keys of any length.
`SignedFilesAreValid` (`FilesStayValid`), `FailuresAreHarmless` (`FailureHarmsOnlyTheOutput`) and
`CommandsDoAsAsked` (`SuccessIsAsAsked`), from `CommandInvariance`: a file that opens is whole and
reads as a block of valid signatures (`FilesInv`), the result of a command is a block that can be saved and is as asked
(`ResultInv`), no file but the output differs from what it was (`BeforeInv`), and what was
written is the result (`WrittenInv`). They rest on `WrittenReadsBack`: what is saved of a block passes
all the checks of `fromBytes` and reads as the same block, and a cut part of it does not pass. A list may name a key twice, or one that
has no signature, and a key may replace itself.

**`SignedWebBundleProofs`**: for any number of calls, keys and IDs and any lists of strategies.
`SigningTypeCorrectness`, `NoInvalidSignatures` (`ValidUnlessOverridden`), `NoLostSignatures`
(`ResolvedMeansPresent`), `SavedBytesCanBeRead` (`SavedBytesLoad`), from `SigningInvariance`. Its
inductive invariant has five parts: `Stored` (the block is well formed),
`Saved` (the saved bytes read back as a block with the signatures that were promised when they were made;
`BytesReadBack` is the lemma that what can be saved passes every check of `fromBytes` and `fromCbor` and loses nothing),
`Calls` (a call under way that began after the last override has encoded the ID the
block has now: the reason why the encoding before the first `await` does no harm),
`Entries` (entries of calls begun after the last override are valid) and
`Progress` (the strategies a call has got through have their signature in the block,
unless removed since the call began: `ResolvedMeansPresent` speaks of the end of a
call, and only this makes it inductive).

**`BundleProofs`**: for any set of bundles: any number of exchanges, of variants and keys, bodies of any
length, either version, signed or not, URLs and headers good or bad; for a writer that may fail after any octet. All four properties of
the run `bundle_round_trip` are theorems of `BundleRoundTrip!Spec`: `TypeCorrectness` (`TypeOK`), `CountIsExact`
(`CountIsRight`), `BundlesReadBack` (`ReadsBack`) and `TruncationIsHarmless` (`TruncationLosesOnlyTheTail`), all
from `Invariance`. The assumption is `BundlesAssumption`: exchanges, bodies, keys and
variants are sequences, and signed is Boolean.

What the readers make of a file is a matter of offsets, and the argument has three parts.

* *The writer* (`WriterInv`). `IndexInv`: every entry of the index locates, in the buffer of responses, the
  cells of its own exchange. That is true of a buffer that only grows. `StreamInv`: what is written and what is
  still to be written make up the whole bundle (`CellsOf`), and once a write has failed the stream is a beginning of it.
* *The layout*. Where the pieces, the sections, the entries of the index and the responses begin in the whole bundle are sums
  of lengths, and each is found there: `FlatPlaces` in `InductionProofs` says so of any list of lists, and the lemmas of the section
  "What a bundle has where" apply it level by level, down to the cells of an index entry. The order of the
  entries of a URL is the subject of two theorems about `Variants`, whose folds the proofs take as chains of partial results:
  `KeysInRowMajorOrder` (the index of a possible key counts the keys before it in row-major order, and two keys never
  share one: `DigitsInOrder` on each axis, by induction over the axes) and `ListedByTheirKeys`
  (`entriesInPossibleKeyOrder` lists the responses exactly if they share one Variants header to the letter and name every possible key once, in whatever order they
  came, and each is listed at the index of each of its keys: `Shared`, the slots after the claims of the first entries).
* *The reader* (`ReaderInv`). `TableInv`: the table is that of the sections. `MetaInv`: what was read of
  the metadata is what stands in the sections that have been passed. `ProgressInv` with `InIndex`: the offset is
  that of the next section, and the position within the index that of the next entry; all the entries before have been requested. `RequestsInv`: each
  request is for the place of an entry's response. `LoadInv`: a response that was loaded is the entry's, with
  zeros where the stream had ended. `OutcomeInv`: an error on a bundle that was written to its end means that the bundle was not
  readable (a URL or header that the reader does not take, or a primary URL that does not parse: `UrlParses`).

None of the properties is inductive. `ReadsBack` speaks of the end of two procedures, and only the conjunction says
of every stretch between two steps where both stand.

The codec below these cells: for every number of 64 bits, major type and string of octets,
whatever octets follow, `HeadsReadBack` (what `decodeTypedUint` reads is what
`encodeTypedUint` wrote, and exactly the rest is left) and, from it,
`ByteStringsReadBack` and `TextStringsReadBack` (a text that is not UTF-8 is refused); `HeadsAreMinimal`: no head
that the decoder reads, whoever made it, is shorter than the one the encoder
writes for the same type and number (but for the additional information of 28 to 31, which the decoder
takes for the number itself); `CutStringsAreRefused`: a string cut off anywhere is an error, never a shorter string.
The additional information in the first octet determines how
many octets follow (`FollowingIsKnown`), those of the number that were omitted are
zeros (`OmittedAreZeros`), so that padding what follows gives the number back
(`WidenedIsNumber`, `SmallNumber`). Strings are shorter than 2^24 octets, the bound
of `Int64` in the model (`LengthsAreKept`). The run `formats` evaluates the same
operators on numbers at the edges of every width, with input cut anywhere.

## 5. What the code does otherwise than it says

Three have a run that TLC finds violated by the model of the code, and a finding in
`PROJECT.json` with the line that says otherwise.

| Run | Property | The code |
| --- | --- | --- |
| `bundle_unknown_section` | `UnknownSectionsAreIgnored` | `loadMetadata` skips an unknown section without advancing the offset: every later section is read at the wrong place |
| `sxg_oversize` | `OversizeIsRefused` | lengths read are not compared with the limits that the comment demands |
| `repeated_header` | `RepeatedHeadersAreRefused` | `decodeCborHeaders` looks for a header that comes twice (`Header %q appeared twice`, `decoder.go:134`) by its lower-case name in a map that `headers.Set` fills under canonical names: it never finds one, and the second value replaces the first. `ResponsesReadBack` leaves such maps out |

Others were met while the models were written. The models do what the code does, and
the properties leave these cases out by a condition that is named here.

| Source | The code | Left out by |
| --- | --- | --- |
| `bigendianint.go:13` | `EncodeBytesUint` accepts 2^(8 size) and writes zero, so a request URL of 65536 octets is written and cannot be read | `LengthsFit` in `ReadsBack` |
| `verifier.go:196`, `360` | an exchange with two values of Cache-Control, or of the digest header, passes the generator's check in memory, which looks at the first, and may fail it from the file, where they are one | `SingleValued` in `GenuineIsAccepted` |
| `signer.go:152` | a date before 1970 leaves the signed message | dates of the instances |
| `integrityblock-signer.go:51` | the result of verifying the new signature, to ensure that the public key "corresponds to the private key used for signing" (line 50), is dropped: a signature that verifies with no key gets into the stack, is written, and other signatures cover it | `KeysMatch` in `OutputVerifies`, signature by signature |
| `sign-bundle/integrityblock.go:18` | the result of writing the block is dropped: the run succeeds with an unsigned copy, or with a part of the block in front of one | `blockWritten` in `OutputVerifies`; that later runs refuse the second is part of `OnlyBundlesAreSigned` |
| `sign-bundle/integrityblock.go:92` | `-i a.wbn -o ./a.wbn` passes the check that they differ, and empties the input; the run then fails | nothing: `OutputVerifies` is about runs that succeed |
| `cli-sign.ts:255-258` | `replace-signature` with the same key twice removes the new signature with the old one | nothing: `SuccessIsAsAsked` says so (`BringsNew`, `LeavesNone`), as the help text calls the command an `add-signature` followed by a `remove-signature` |
| `integrity-block-signer.ts:91` | an `overrideBundleId` while a call waits leaves a signature over the old ID in the block | the epochs in `ValidUnlessOverridden` |
| `integrity-block.ts:68` | a signature with more than one attribute makes `fromCbor` throw, where `explainers/integrity-signature.md:145-146` wants unknown signatures and attributes ignored | nothing: `FromCborAccepts` is the code's |
| `js/bundle/src/encoder.ts:269` | the JavaScript builder takes URLs that Go's `url.Parse` refuses ("%"), and names of sections of any length, where `decoder.go:468` refuses a table of 8192 octets or more | `GoReadable` in `GoReadsBack` |
| `cbor/decoder.go:100` | a byte string whose length is 2^63 or more is read as an empty one | `EncodedReadsBack` is about what the Encoder writes |
| `deterministic.go:98-138` | `Deterministic` panics on octets that end within an item, where `checkDeterministic` throws | nothing: `ChecksAreExact` says that JavaScript never does |
| `deterministic.go:120`, `137`, `168` | a length of 2^63 or more is negative: arrays and maps count as empty, and a string may end before it began | `NoHugeLengths` in `ChecksAreExact` |
| `decoder.go:567` | a status such as `007` is accepted, and written as `7`, which nothing reads | `status >= 100` in `ResponsesReadBack` |
| `gen-bundle/main.go:122` | the output is emptied before the exchanges are found unfit: two spellings of one URL in a list, names that clash, a manifest in b2 | nothing: `GeneratesWhatIsOffered` says when |
| `gen-bundle/main.go:112` | `-headerOverride` without a colon is indexed past its end, after the input was read | nothing: the output is left alone |

## 6. What is only model-checked, and what is not modelled

Only model-checked:

* `HonestStreamEnds`: liveness under fairness is out of the prover's reach.
* `BundleBuilderRead` (`GoReadsBack`, `JsReadsBack`): the Go reader is the one of `BundleProofs`, but the file is the
  JavaScript builder's, with sections, index and order of its own, and would need a
  layout of its own; so would the second reader.
* `MCFormats`: the algorithms on CBOR maps, response headers, chains, SCT lists and structured headers read recursively, with
  operators that the prover takes no part in (the deterministic checks, SCT lists and
  structured headers are RECURSIVE). Of CBOR the heads and the strings are proved. The order of index
  entries (`IndexedInRowMajorOrder`) is compared there with a reference definition by positions; `ListedByTheirKeys`
  states the same of all Variants values with the operators themselves. That `possibleKeyAt` is the inverse is only checked.
* `bundle_unknown_section`, `sxg_oversize`, `repeated_header`: counterexamples, which need no proof.

Not modelled, and why:

* Cryptography, X.509, OCSP and SCT contents, base32 IDs, PEM and pass phrases:
  library calls; the models take their results as inputs or as ideal.
* Text: URLs, JSON, the syntax of HTTP header files. The models start from
  what parsing gives, and have values that do not parse. Structured headers are the exception.
* OCSP requests, the fetching of URLs and the walk of a directory: I/O whose result is an input.
* Lengths of the order of 2^62 stand for all that no input is as long as (`Huge` in `Cbor`).
* Signed subsets that no signer of this repository writes (more than one hash for a
  URL, unknown keys).
* Two processes on one file: no lock and no promise in the code.
* Record size 0 (division by zero), offsets that wrap in 64 bits, `CountingWriter.ReadFrom`
  (unused): listed as hazards.
* Documents (`draft-*`, `explainers`, `*.bs`), examples and test helpers.

## 7. Plan

Done: MICE, its abstract reader and its proofs; signing in JavaScript and its
proofs, the `wbn-sign` commands; bundle writing and reading in both languages; signed
exchanges from library calls to verification; the integrity block in Go; signatures of
a bundle, with writes that are cut short; the CBOR codec and the deterministic checks,
response headers, certificate chains and SCT lists, structured headers, `gen-bundle`; proofs of
all safety properties of MICE, of signed exchanges, of the bundle writer and reader in Go, of signatures of
bundles, of the integrity block in Go and in JavaScript and of `wbn-sign`; of CBOR, heads and strings;
of the index of variants, the order.

Left, in this order:

1. Theorems, by value: for `BundleBuilderRead` the layout of a bundle that the JavaScript builder
   makes and `GoReadsBack`; array and map headers of CBOR.
2. Abstract specifications still worth stating: a verified store of exchanges that
   `BundleSignature` and `SignedExchange` both implement (publish, deliver, accept), and an
   atomic set of signatures that `SignedWebBundle` implements.
3. Code: `PrettyPrint` of exchanges and chains, key files and pass phrases of `wbn-sign`,
   Web Bundle IDs, as far as something in them can go wrong that is not text.
