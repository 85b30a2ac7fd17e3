---------------------------- MODULE BundleWriter ----------------------------
(***************************************************************************)
(* Bundle.WriteTo (go/bundle/encoder.go) to a writer that can fail at any  *)
(* time, through the CountingWriter (go/bundle/countingwriter.go).  The    *)
(* responses section is built in memory first, then the index, and then    *)
(* everything is written piece by piece.                                   *)
(***************************************************************************)
EXTENDS BundleFormat

VARIABLES
  bundle,     \* the Bundle: version, URLs, signatures and exchanges
  responses,  \* the buffer of the responsesSection
  index,      \* the entries of the indexSection
  pieces,     \* what is still to be written before the footer
  written,    \* CountingWriter.Written
  stream,     \* what the underlying writer has got
  wpc         \* "adding", "writing", "done", "invalid", "ioError", "panic"

vars == <<bundle, responses, index, pieces, written, stream, wpc>>

NewWriter(b) ==
  /\ bundle = b
  /\ responses = <<Cell("array", Len(b.exchanges))>>
  /\ index = <<>>
  /\ pieces = <<>>
  /\ written = 0
  /\ stream = <<>>
  /\ wpc = "adding"

Adding == wpc = "adding" /\ Len(index) < Len(bundle.exchanges)
Added == wpc = "adding" /\ Len(index) = Len(bundle.exchanges)
Exchange == bundle.exchanges[Len(index) + 1]

(* Mutant of Location: the array header is not in the buffer yet. *)
LocationWithoutHeader(e) == [offset |-> Len(responses) - 1, length |-> Len(ResponseCells(e))]

Location(e) == [offset |-> Len(responses), length |-> Len(ResponseCells(e))]

(* Mutant of IndexEntry: every entry has the URL of the first exchange. *)
IndexEntryOfFirst(e) ==
  [url |-> bundle.exchanges[1].url, text |-> e.text, variants |-> e.variants, keys |-> e.keys,
   offset |-> Location(e).offset, length |-> Location(e).length]

IndexEntry(e) ==
  [url |-> e.url, text |-> e.text, variants |-> e.variants, keys |-> e.keys,
   offset |-> Location(e).offset, length |-> Location(e).length]

(* addExchange: the response is appended, and its place noted. *)
AddExchange ==
  /\ Adding
  /\ IF EncodesHeader(Exchange)
     THEN /\ responses' = responses \o ResponseCells(Exchange)
          /\ index' = Append(index, IndexEntry(Exchange))
          /\ UNCHANGED wpc
     ELSE wpc' = "invalid" /\ UNCHANGED <<responses, index>>
  /\ UNCHANGED <<bundle, pieces, written, stream>>

Sections ==
  << [name |-> "index", cells |-> IndexCells(bundle.version, index)] >>
    \o (IF HasPrimaryURLFieldInHeader(bundle.version) THEN <<>>
        ELSE UrlSection("primary", bundle.primaryURL))
    \o UrlSection("manifest", bundle.manifestURL)
    \o (IF bundle.signed
        THEN << [name |-> "signatures", cells |-> <<Cell("array", 2), Cell("sigs", bundle.version)>>] >>
        ELSE <<>>)
    \o << [name |-> "responses", cells |-> responses] >>

CanWrite ==
  /\ CanFinalize(bundle.version, index)
  /\ bundle.manifestURL = NoUrl \/ SupportsManifestSection(bundle.version)

(* The index is finalized, and the sections are put together. *)
Finalize ==
  /\ Added
  /\ IF CanWrite
     THEN /\ pieces' = Pieces(bundle.version, bundle.primaryURL, Sections)
          /\ wpc' = "writing"
     ELSE wpc' = "invalid" /\ UNCHANGED pieces
  /\ UNCHANGED <<bundle, responses, index, written, stream>>

(* The next piece is the URL of the header, and there is none. *)
UrlIsNil == Head(pieces) = <<Cell("text", NoUrl)>>

(* url.String() on a nil *url.URL. *)
WritePrimaryURLPanics ==
  /\ wpc = "writing" /\ pieces # <<>> /\ UrlIsNil
  /\ wpc' = "panic"
  /\ UNCHANGED <<bundle, responses, index, pieces, written, stream>>

(* Mutant of Write: what a failing write has written is not counted. *)
WriteCountingWhole(piece, n) ==
  /\ stream' = stream \o SubSeq(piece, 1, n)
  /\ written' = IF n = Len(piece) THEN written + n ELSE written

(* CountingWriter.Write: n cells of the piece get through. *)
Write(piece, n) ==
  /\ stream' = stream \o SubSeq(piece, 1, n)
  /\ written' = written + n

WritePiece(n) ==
  /\ wpc = "writing" /\ pieces # <<>> /\ ~UrlIsNil
  /\ n <= Len(Head(pieces))
  /\ Write(Head(pieces), n)
  /\ IF n = Len(Head(pieces))
     THEN pieces' = Tail(pieces) /\ UNCHANGED wpc
     ELSE wpc' = "ioError" /\ UNCHANGED pieces
  /\ UNCHANGED <<bundle, responses, index>>

(* The length of the whole bundle, the footer included. *)
WriteFooter(n) ==
  /\ wpc = "writing" /\ pieces = <<>>
  /\ n <= FooterLength
  /\ Write(<<Cell("length", written + FooterLength)>>, n)
  /\ wpc' = IF n = FooterLength THEN "done" ELSE "ioError"
  /\ UNCHANGED <<bundle, responses, index, pieces>>

Next ==
  \/ AddExchange
  \/ Finalize
  \/ WritePrimaryURLPanics
  \/ \E n \in 0..(IF pieces = <<>> THEN FooterLength ELSE Len(Head(pieces))) :
       WritePiece(n) \/ WriteFooter(n)
=============================================================================
