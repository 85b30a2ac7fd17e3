------------------------- MODULE BundleBuilderRead --------------------------
(***************************************************************************)
(* A bundle made by the BundleBuilder of the js/bundle package is read by  *)
(* the Go package's bundle.Read and by the Bundle class of js/bundle.      *)
(***************************************************************************)
EXTENDS BundleFormat, TLC

CONSTANTS ExtraSections, Exchanges, MaxCalls

VARIABLES version, sections, responses, currentResponsesOffset, index, primaryURL,
          threw, calls, added, made,
          stream,
          rpc, table, start, current, offset, pos, left, meta, requests, exchanges

B == INSTANCE BundleBuilder
R == INSTANCE BundleReader
D == INSTANCE BundleDecoder

builderVars == <<version, sections, responses, currentResponsesOffset, index, primaryURL,
                 threw, calls, added, made, stream>>
readerVars == <<rpc, table, start, current, offset, pos, left, meta, requests, exchanges>>
vars == <<builderVars, readerVars>>

Init == B!NewBuilder /\ R!NewReader

(* The builder is used until the bundle is read; both readers only look at *)
(* what createBundle has returned.                                         *)
Next ==
  \/ rpc = "header" /\ B!Next /\ UNCHANGED readerVars
  \/ stream # <<>> /\ R!Next /\ UNCHANGED builderVars

Spec == Init /\ [][Next]_vars

-----------------------------------------------------------------------------
(* Properties *)

ReadIsOver == rpc \in {"ok", "error", "panic"}

(* What the last addExchange for the URL has added, as it is read. *)
LastMade(url) ==
  LET i == CHOOSE i \in DOMAIN made :
             made[i].url = url /\ \A j \in DOMAIN made : j > i => made[j].url # url
  IN [url |-> url, header |-> HeaderOf(made[i]), body |-> made[i].body]

UrlsMade == {made[i].url : i \in DOMAIN made}

(* The Go reader wants what BundleBuilder does not insist on: header values*)
(* in ASCII, URLs that url.Parse takes, absolute ones in the primary and   *)
(* manifest sections, and short names of sections.                         *)
GoReadable ==
  /\ \A i \in DOMAIN made : made[i].header # "odd" /\ made[i].url # Unparsable
  /\ \A name \in {"primary", "manifest"} \intersect D!Names(stream) :
       LET url == stream[D!StartOf(stream, name)].v
       IN url # Unparsable /\ IsAbsolute(url)
  /\ R!LongName \notin D!Names(stream)

(* bundle.Read reads each URL with the response that was added last for it,*)
(* however the calls were ordered, repeated, or mixed with failing ones.   *)
GoReadsBack ==
  ReadIsOver =>
    IF GoReadable
    THEN /\ rpc = "ok"
         /\ Range(exchanges) = {LastMade(url) : url \in UrlsMade}
         /\ Len(exchanges) = Cardinality(UrlsMade)
         /\ meta.version = version
    ELSE rpc = "error"

(* The Bundle class, which finds responses by counting, reads the same, and*)
(* the same primary URL, a field of the bundle or a section of it.  It     *)
(* refuses no bundle but one in which a section it does not know is marked *)
(* critical.                                                               *)
JsReadsBack ==
  stream # <<>> =>
    /\ D!Constructs(stream) <=> ~ /\ "critical" \in D!Names(stream)
                                  /\ Cell("text", "other") \in Range(stream)
    /\ D!UrlsIn(stream) = UrlsMade
    /\ \A url \in UrlsMade :
         D!GetResponse(stream, url) =
           [found |-> TRUE, header |-> LastMade(url).header, body |-> LastMade(url).body]
    /\ rpc = "ok" => D!DecodedPrimaryURL(stream) = meta.primaryURL

(* A builder makes one bundle: createBundle, which shifts the offsets of   *)
(* the index in place, never returns a second one with other offsets.      *)
OneBundle == [][stream # <<>> => stream' = stream]_vars

(* "The parser MUST ignore unknown keys in the section-offsets map because *)
(* new sections may be defined in future specifications." (draft-yasskin-  *)
(* dispatch-web-packaging.md): a section that bundle.Read does not know    *)
(* does not keep it from reading the others.                               *)
UnknownSectionsAreIgnored ==
  (ReadIsOver /\ GoReadable) => rpc = "ok"
=============================================================================
