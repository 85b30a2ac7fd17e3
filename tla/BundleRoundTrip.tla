-------------------------- MODULE BundleRoundTrip ---------------------------
(***************************************************************************)
(* A Bundle is written, to a writer that may fail, and what the writer has *)
(* got, a whole bundle or the first cells of one, is read.                 *)
(***************************************************************************)
EXTENDS BundleFormat

CONSTANT Bundles    \* the bundles that are written

ASSUME BundlesAssumption ==
  \A b \in Bundles :
    /\ b.signed \in BOOLEAN
    /\ b.exchanges \in Seq(Range(b.exchanges))
    /\ \A e \in Range(b.exchanges) :
         /\ e.body \in Seq(Range(e.body)) /\ e.keys \in Seq(Range(e.keys))
         /\ e.variants \in Seq(Range(e.variants))
         /\ \A vals \in Range(e.variants) : vals \in Seq(Range(vals))

VARIABLES bundle, responses, index, pieces, written, wpc,
          stream,
          rpc, table, start, current, offset, pos, left, meta, requests, exchanges

W == INSTANCE BundleWriter
R == INSTANCE BundleReader

writerVars == <<bundle, responses, index, pieces, written, wpc, stream>>
readerVars == <<rpc, table, start, current, offset, pos, left, meta, requests, exchanges>>
vars == <<writerVars, readerVars>>

Init ==
  /\ \E b \in Bundles : W!NewWriter(b)
  /\ R!NewReader

WriterIsOver == wpc \in {"done", "ioError", "panic"}

Next ==
  \/ W!Next /\ UNCHANGED readerVars
  \/ WriterIsOver /\ R!Next /\ UNCHANGED writerVars

Spec == Init /\ [][Next]_vars

-----------------------------------------------------------------------------
(* Properties *)

ReadIsOver == rpc \in {"ok", "error", "panic"}

TypeOK ==
  /\ bundle \in Bundles
  /\ wpc \in {"adding", "writing", "done", "invalid", "ioError", "panic"}
  /\ rpc \in {"header", "sections", "index", "load", "ok", "error", "panic"}
  /\ written \in Nat /\ start \in Nat /\ offset \in Nat /\ pos \in Nat /\ left \in Nat
  /\ current \in 1..(Len(table) + 1)
  /\ Len(index) <= Len(bundle.exchanges)
  /\ Len(exchanges) <= Len(requests)
  /\ \A i \in DOMAIN requests : start + R!OffsetOf("responses") <= requests[i].offset

(* The length that WriteTo reports, also with an error, and the one that   *)
(* the footer tells are the number of octets that the writer has got.      *)
CountIsRight ==
  /\ written = Len(stream)
  /\ wpc = "done" => Last(stream) = Cell("length", Len(stream))

IsSectionUrl(url) == ~IsBadUrl(url) /\ IsAbsolute(url)

(* Everything in the bundle is as the reader wants it. *)
IsReadable(b) ==
  /\ \A i \in DOMAIN b.exchanges :
       ~IsBadUrl(b.exchanges[i].url) /\ b.exchanges[i].header # "odd"
  /\ IsSectionUrl(b.manifestURL)
  /\ IF HasPrimaryURLFieldInHeader(b.version) THEN b.primaryURL # Unparsable
     ELSE IsSectionUrl(b.primaryURL)

MetaOf(b) == [version |-> b.version, primaryURL |-> b.primaryURL,
              manifestURL |-> b.manifestURL, signed |-> b.signed]
WithoutVariants(e) == [url |-> e.url, header |-> HeaderOf(e), body |-> e.body]

(* A bundle that has been written completely is read back as it was: the   *)
(* same URLs and signatures, and every exchange with its own response.  An *)
(* exchange with several variant keys is found once for each.              *)
ReadsBack ==
  (wpc = "done" /\ ReadIsOver) =>
    IF IsReadable(bundle)
    THEN /\ rpc = "ok"
         /\ meta = MetaOf(bundle)
         /\ Range(exchanges) = {WithoutVariants(e) : e \in Range(bundle.exchanges)}
    ELSE rpc = "error"

(* x is e, but for octets that are missing at the end of the stream. *)
IsTruncation(x, e) ==
  /\ x.url = e.url
  /\ x.header = HeaderOf(e)
  /\ Len(x.body) = Len(e.body)
  /\ \A i \in DOMAIN x.body : x.body[i] \in {e.body[i], "zero"}

(* Whatever octets are missing at the end: what is read are exchanges of   *)
(* the bundle, for all of its URLs and with their own URLs, and those whose*)
(* responses are there completely are as they were.                        *)
TruncationLosesOnlyTheTail ==
  rpc = "ok" =>
    /\ meta = MetaOf(bundle)
    /\ {x.url : x \in Range(exchanges)} = {e.url : e \in Range(bundle.exchanges)}
    /\ \A i \in DOMAIN exchanges :
         \E e \in Range(bundle.exchanges) :
           IF R!IsWhole(requests[i])
           THEN exchanges[i] = WithoutVariants(e)
           ELSE IsTruncation(exchanges[i], e)
=============================================================================
