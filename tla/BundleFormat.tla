---------------------------- MODULE BundleFormat ----------------------------
(***************************************************************************)
(* Web Bundles as sequences of cells.  A cell stands for the octets of one *)
(* CBOR data item head, of a byte string whose inside nobody looks at, or  *)
(* of one octet of a payload; sizes and offsets are counted in cells.  What*)
(* a cell holds is its value v, and its kind k is what a decoder finds out *)
(* about its type.                                                         *)
(***************************************************************************)
EXTENDS Variants, FiniteSets

(* An exchange: its URL; the text of its Variants header, and the axes that*)
(* it is parsed to; its Variant-Key header; its other headers and status,  *)
(* of which matters only whether two names differ in nothing but case      *)
(* ("clash"), or they are such that no reader takes them: a value that is  *)
(* not ASCII, a status that has not three digits ("odd"); and the octets of*)
(* its body.                                                               *)
NoUrl == "no URL"
NoText == "no header"

(* url.Parse fails. *)
Unparsable == "%"

(* One that url.Parse refuses, and URLs with a fragment or credentials; and*)
(* one without a scheme.                                                   *)
IsBadUrl(url) == url \in {Unparsable, "url#fragment", "user@url"}
IsAbsolute(url) == url # "path"

Versions == {"b1", "b2"}
HasPrimaryURLFieldInHeader(ver) == ver = "b1"
SupportsVariants(ver) == ver = "b1"
SupportsManifestSection(ver) == ver = "b1"

Cell(kind, value) == [k |-> kind, v |-> value]

(* A response: an array of its header map, as a byte string, and its body. *)
HeaderOf(e) == [text |-> e.text, variants |-> e.variants, keys |-> e.keys, header |-> e.header]
BodyCells(body) == <<Cell("bytes", Len(body))>> \o [i \in DOMAIN body |-> Cell("octet", body[i])]
ResponseCells(e) == <<Cell("array", 2), Cell("header", HeaderOf(e))>> \o BodyCells(e.body)

(* Response.EncodeHeader: header names are written in lower case, and the  *)
(* map encoder refuses a repeated key.                                     *)
EncodesHeader(e) == e.header # "clash"

-----------------------------------------------------------------------------
(* The index section.  es are the indexEntries of an indexSection.         *)

EntriesOf(es, url) ==
  FoldLeft(LAMBDA found, e : IF e.url = url THEN Append(found, e) ELSE found, <<>>, es)
UrlsOf(es) == {es[i].url : i \in DOMAIN es}

(* Finalize succeeds: a URL has one response, or several that its version  *)
(* and their Variants headers allow to tell apart.                         *)
CanFinalize(ver, es) ==
  \A url \in UrlsOf(es) :
    \/ Len(EntriesOf(es, url)) = 1
    \/ SupportsVariants(ver) /\ EntriesInPossibleKeyOrder(EntriesOf(es, url)).ok

LocationCells(e) == <<Cell("uint", e.offset), Cell("uint", e.length)>>

IndexEntryCells(ver, es) ==
  LET order == IF Len(es) = 1 THEN <<1>> ELSE EntriesInPossibleKeyOrder(es).entries
      variants == IF Len(es) = 1 THEN <<>> ELSE es[1].variants
      locations == FlattenSeq([i \in DOMAIN order |-> LocationCells(es[order[i]])])
  IN IF SupportsVariants(ver)
     THEN <<Cell("text", es[1].url), Cell("array", 1 + Len(locations)),
            Cell("variants", variants)>> \o locations
     ELSE <<Cell("text", es[1].url), Cell("array", 2)>> \o locations

(* The entries of the map are in the order of their keys. *)
IndexCells(ver, es) ==
  LET urls == SetToSeq(UrlsOf(es))
  IN <<Cell("map", Len(urls))>>
       \o FlattenSeq([i \in DOMAIN urls |-> IndexEntryCells(ver, EntriesOf(es, urls[i]))])

-----------------------------------------------------------------------------
(* Sections, [name, cells], and what precedes them in a bundle.            *)

UrlSection(name, url) ==
  IF url = NoUrl THEN <<>> ELSE << [name |-> name, cells |-> <<Cell("text", url)>>] >>

SectionLengths(sections) ==
  [i \in DOMAIN sections |-> [name |-> sections[i].name, length |-> Len(sections[i].cells)]]

(* The writes of WriteTo up to the footer, each with its cells. *)
Pieces(ver, primaryURL, sections) ==
  << <<Cell("magic", ver)>> >>
    \o (IF HasPrimaryURLFieldInHeader(ver) THEN << <<Cell("text", primaryURL)>> >> ELSE <<>>)
    \o << <<Cell("lengths", SectionLengths(sections))>>, <<Cell("array", Len(sections))>> >>
    \o [i \in DOMAIN sections |-> sections[i].cells]

FooterLength == 1
=============================================================================
