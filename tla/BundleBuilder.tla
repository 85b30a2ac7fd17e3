--------------------------- MODULE BundleBuilder ----------------------------
(***************************************************************************)
(* The BundleBuilder class of js/bundle/src/encoder.ts: its methods may be *)
(* called in any order, and each may throw.  Offsets in the index are kept *)
(* relative to the first response until createBundle makes them relative to*)
(* the responses section.                                                  *)
(***************************************************************************)
EXTENDS BundleFormat, TLC

CONSTANTS
  ExtraSections,  \* names of sections that are added by addSection directly
  Exchanges,      \* the arguments that addExchange is called with
  MaxCalls        \* bound: calls of methods

VARIABLES
  version,                \* formatVersion
  sections,               \* sections, each with its name
  responses,              \* the responses, each with its cells
  currentResponsesOffset,
  index,                  \* the index: URL -> offset and length
  primaryURL,             \* the primary URL of a b1 bundle
  stream,                 \* the bundle that createBundle has returned
  threw,                  \* whether the last call has thrown
  calls,                  \* the number of calls
  added,                  \* the exchanges that addExchange has taken
  made                    \* those that it had taken when stream was returned

vars == <<version, sections, responses, currentResponsesOffset, index, primaryURL,
          stream, threw, calls, added, made>>

(* validateExchangeURL takes what new URL parses, also what url.Parse of Go*)
(* does not.                                                               *)
IsRefused(url) == url \in {"url#fragment", "user@url"}

NewBuilder ==
  /\ version \in Versions
  /\ sections = <<>> /\ responses = <<>> /\ stream = <<>> /\ added = <<>> /\ made = <<>>
  /\ currentResponsesOffset = 0
  /\ index = << >>
  /\ primaryURL = NoUrl
  /\ threw = FALSE
  /\ calls = 0

Call == calls < MaxCalls /\ calls' = calls + 1

Throw == threw' = TRUE
Return == threw' = FALSE

HasSection(name) == \E i \in DOMAIN sections : sections[i].name = name

(* addSection, as long as there is no section of that name. *)
AddSection(name, cells) ==
  IF HasSection(name)
  THEN Throw /\ UNCHANGED sections
  ELSE Return /\ sections' = Append(sections, [name |-> name, cells |-> cells])

SetPrimaryURL(url) ==
  /\ Call
  /\ \/ /\ IsRefused(url)
        /\ Throw
        /\ UNCHANGED <<sections, primaryURL>>
     \/ /\ ~IsRefused(url) /\ ~HasPrimaryURLFieldInHeader(version)
        /\ AddSection("primary", <<Cell("text", url)>>)
        /\ UNCHANGED primaryURL
     \/ /\ ~IsRefused(url) /\ HasPrimaryURLFieldInHeader(version)
        /\ IF primaryURL # NoUrl
           THEN Throw /\ UNCHANGED primaryURL
           ELSE Return /\ primaryURL' = url
        /\ UNCHANGED sections
  /\ UNCHANGED <<version, responses, currentResponsesOffset, index, stream, added, made>>

SetManifestURL(url) ==
  /\ Call
  /\ IF SupportsManifestSection(version) /\ ~IsRefused(url)
     THEN AddSection("manifest", <<Cell("text", url)>>)
     ELSE Throw /\ UNCHANGED sections
  /\ UNCHANGED <<version, responses, currentResponsesOffset, index, primaryURL, stream, added, made>>

(* A section that the class itself never adds, with the name of a section. *)
AddExtraSection(name, content) ==
  /\ Call
  /\ AddSection(name, <<Cell("array", 1), Cell("text", content)>>)
  /\ UNCHANGED <<version, responses, currentResponsesOffset, index, primaryURL, stream, added, made>>

(* validateExchangeURL, the constructor of HeaderMap, and addResponse. *)
Accepts(e) ==
  /\ ~IsRefused(e.url)
  /\ e.header # "badStatus"
  /\ e.body = <<>> \/ e.header # "noType"

NextOffset(e) == currentResponsesOffset + Len(ResponseCells(e))

NewEntry(e) == [offset |-> currentResponsesOffset, length |-> Len(ResponseCells(e))]

(* Mutant of WithIndexEntry: the first response of a URL stays. *)
KeepingFirstEntry(e) == index @@ (e.url :> NewEntry(e))

(* setIndexEntry *)
WithIndexEntry(e) == (e.url :> NewEntry(e)) @@ index

(* The last response of a URL takes the place of an earlier one, which     *)
(* stays among the responses.                                              *)
AddExchange(e) ==
  /\ Call
  /\ IF Accepts(e)
     THEN /\ responses' = Append(responses, ResponseCells(e))
          /\ index' = WithIndexEntry(e)
          /\ currentResponsesOffset' = NextOffset(e)
          /\ added' = Append(added, e)
          /\ Return
     ELSE Throw /\ UNCHANGED <<responses, index, currentResponsesOffset, added>>
  /\ UNCHANGED <<version, sections, primaryURL, stream, made>>

ResponsesHeaderSize == 1

(* Mutant of FixedIndex: the header of the responses is forgotten. *)
UnfixedIndex == index

(* fixupIndex *)
FixedIndex == [url \in DOMAIN index |->
                [index[url] EXCEPT !.offset = @ + ResponsesHeaderSize]]

IndexEntries(idx) ==
  LET urls == SetToSeq(DOMAIN idx)
  IN [i \in DOMAIN urls |->
        [url |-> urls[i], text |-> NoText, variants |-> <<>>, keys |-> <<>>,
         offset |-> idx[urls[i]].offset, length |-> idx[urls[i]].length]]

(* onCreateBundle *)
PrimaryIsThere ==
  HasPrimaryURLFieldInHeader(version) => primaryURL # NoUrl /\ primaryURL \in DOMAIN index

FinalSections(idx) ==
  sections
    \o << [name |-> "index", cells |-> IndexCells(version, IndexEntries(idx))],
          [name |-> "responses",
           cells |-> <<Cell("array", Len(responses))>> \o FlattenSeq(responses)] >>

(* cborg.encode of the top level, with the length filled in. *)
TopLevel(secs) ==
  LET cells == FlattenSeq(Pieces(version, primaryURL, secs))
  IN Append(cells, Cell("length", Len(cells) + FooterLength))

(* Mutant of CreateBundle: a second call is not refused. *)
CreateBundleAgain ==
  /\ Call
  /\ IF PrimaryIsThere
     THEN /\ index' = FixedIndex
          /\ Return
          /\ sections' = IF HasSection("index") THEN sections ELSE FinalSections(FixedIndex)
          /\ stream' = TopLevel(FinalSections(FixedIndex))
          /\ made' = added
     ELSE Throw /\ UNCHANGED <<index, sections, stream, made>>
  /\ UNCHANGED <<version, responses, currentResponsesOffset, primaryURL, added>>

(* The offsets are changed in place, also when the index section is there  *)
(* already, from an earlier call, and the call throws.                     *)
CreateBundle ==
  /\ Call
  /\ \/ /\ ~PrimaryIsThere
        /\ Throw
        /\ UNCHANGED <<index, sections, stream, made>>
     \/ /\ PrimaryIsThere /\ HasSection("index")
        /\ index' = FixedIndex
        /\ Throw
        /\ UNCHANGED <<sections, stream, made>>
     \/ /\ PrimaryIsThere /\ ~HasSection("index")
        /\ index' = FixedIndex
        /\ sections' = FinalSections(FixedIndex)
        /\ stream' = TopLevel(FinalSections(FixedIndex))
        /\ made' = added
        /\ Return
  /\ UNCHANGED <<version, responses, currentResponsesOffset, primaryURL, added>>

Next ==
  \/ \E url \in {"url1", "path", "user@url", Unparsable} : SetPrimaryURL(url) \/ SetManifestURL(url)
  \/ \E name \in ExtraSections, content \in {"index", "other"} : AddExtraSection(name, content)
  \/ \E e \in Exchanges : AddExchange(e)
  \/ CreateBundle
=============================================================================
