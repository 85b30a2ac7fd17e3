----------------------------- MODULE MCGenBundle ------------------------------
(***************************************************************************)
(* Responses of one URL, added one by one as to an indexSection, and the   *)
(* order in which its index entry lists them; and gen-bundle on HAR files, *)
(* lists of URLs and directories.                                          *)
(***************************************************************************)
EXTENDS MCCbor, GenBundle

CONSTANTS
  MaxEntries,     \* bound: responses of the URL
  MaxGenerated    \* bound: entries, lines or files of the input

-----------------------------------------------------------------------------
(* The index entry of one URL. *)

Axes == { <<>>, << <<"en", "fr">> >>, << <<"en", "fr">>, <<"gzip", "br">> >>,
          << <<"en", "en">> >>, << <<>> >>,
          << <<"en", "fr", "ja">>, <<"gzip", "br">> >> }

KeysOf(v) ==
  CASE Len(v) = 1 -> { <<x>> : x \in {"en", "fr", "de"} }
    [] Len(v) = 2 -> { <<x, y>> : x \in {"en", "fr", "ja"}, y \in {"gzip", "br"} }
    [] OTHER -> { <<>> }

KeyLists(v) == { <<>> } \union { <<k>> : k \in KeysOf(v) } \union { <<k, l>> : k, l \in KeysOf(v) }

(* A Variants header is a spelling of its axes. *)
Spelled(spelling, v) == [text |-> <<spelling, v>>, variants |-> v]
Headers == {Spelled("usual", v) : v \in Axes} \union {Spelled("unusual", << <<"en", "fr">> >>)}

(* The first response may have another Variants header than the others,    *)
(* which then have at most one key.                                        *)
AddEntry ==
  /\ of = "responses of a URL"
  /\ Len(parts) < MaxEntries
  /\ \E h \in Headers : \E keys \in KeyLists(h.variants) :
       /\ \A e \in DOMAIN parts \ {1} : parts[e].text = h.text
       /\ (parts # <<>> /\ parts[1].text # h.text) => Len(keys) <= 1
       /\ Add("responses of a URL", [text |-> h.text, variants |-> h.variants, keys |-> keys])

-----------------------------------------------------------------------------

(* The possible keys of v, as choices of a position on each axis. *)
Positions(v) == { c \in [DOMAIN v -> 1..3] : \A i \in DOMAIN v : c[i] <= Len(v[i]) }
Precedes(c, d) == \E i \in DOMAIN c : c[i] < d[i] /\ \A j \in 1..(i - 1) : c[j] = d[j]
Rank(v, c) == Cardinality({ d \in Positions(v) : Precedes(d, c) })
KeyOf(v, c) == [i \in DOMAIN v |-> v[i][c[i]]]
Distinct(v) == \A c, d \in Positions(v) : KeyOf(v, c) = KeyOf(v, d) => c = d

(* The entries that name the key, with repetitions. *)
Naming(es, key) ==
  { <<e, p>> \in (DOMAIN es) \X (1..2) : p \in DOMAIN es[e].keys /\ es[e].keys[p] = key }

(* The entries agree on the Variants header, have keys, and name every     *)
(* possible key once, and no other key.                                    *)
CoverEveryKeyOnce(es) ==
  LET v == es[1].variants
  IN /\ v # <<>>
     /\ Cardinality(Positions(v)) \in 1..MaxNumVariantsForSingleURL
     /\ Distinct(v)
     /\ \A e \in DOMAIN es : es[e].text = es[1].text /\ es[e].keys # <<>>
     /\ \A c \in Positions(v) : Cardinality(Naming(es, KeyOf(v, c))) = 1
     /\ \A e \in DOMAIN es : \A p \in DOMAIN es[e].keys :
          \E c \in Positions(v) : es[e].keys[p] = KeyOf(v, c)

(* An index entry with variants is written exactly if the responses of the *)
(* URL cover every possible key once, in whatever order they came.  It     *)
(* lists them in the row-major order of the keys, which the reader of the  *)
(* index expects (entriesInPossibleKeyOrder).  possibleKeyAt, which names  *)
(* a missing key in the error, is the inverse of indexInPossibleKeys.      *)
IndexedInRowMajorOrder ==
  (of = "responses of a URL" /\ parts # <<>>) =>
    LET v == parts[1].variants
        order == EntriesInPossibleKeyOrder(parts)
    IN /\ order.ok <=> CoverEveryKeyOnce(parts)
       /\ order.ok =>
            \A c \in Positions(v) :
              KeyOf(v, c) \in Range(parts[order.entries[Rank(v, c) + 1]].keys)
       /\ Distinct(v) =>
            \A c \in Positions(v) :
              PossibleKeyAt(v, IndexInPossibleKeys(v, KeyOf(v, c))) = KeyOf(v, c)

-----------------------------------------------------------------------------
(* gen-bundle. The first part has the flags, the others are the input.     *)

Flags ==
  { f \in [version : Versions, primaryURL : {NoUrl, "url1", "url2"}, manifestURL : {NoUrl, "url1"},
           headerOverride : {NoUrl, "set"}, ignoreErrors : BOOLEAN] :
      f.headerOverride # NoUrl => f.manifestURL = NoUrl /\ ~f.ignoreErrors }
    \union [version : {"b1"}, primaryURL : {"url1", Unparsable}, manifestURL : {"url1", Unparsable},
            headerOverride : {"no colon"}, ignoreErrors : {TRUE}]

PlainResponse(header) ==
  [text |-> NoText, variants |-> <<>>, keys |-> <<>>, header |-> header, body |-> <<"plain">>]
VariantResponse(keys) ==
  [text |-> "en;ja", variants |-> << <<"en", "ja">> >>, keys |-> keys, header |-> "h",
   body |-> <<"variant">>]

(* The same axes with another text, and a text that does not parse. *)
OtherVariants ==
  { [VariantResponse(<< <<"ja">> >>) EXCEPT !.text = "en; ja"],
    [VariantResponse(<< <<"ja">> >>) EXCEPT !.text = ";", !.variants = <<>>] }

HarResponses ==
  { PlainResponse("h"), PlainResponse("clash"),
    VariantResponse(<< <<"en">> >>), VariantResponse(<< <<"ja">> >>) }

HarEntries ==
  [url : {"url1", "url2"}, method : {"GET"}, status : {200}, response : HarResponses]
    \union [url : {"url1"}, method : {"GET"}, status : {200}, response : OtherVariants]
    \union [url : {"url1"}, method : {"GET"}, status : {0, 1000},
            response : {PlainResponse("h"), VariantResponse(<< <<"ja">> >>)}]
    \union [url : {"url1", Unparsable}, method : {"POST"}, status : {200},
            response : {PlainResponse("h"), [PlainResponse("h") EXCEPT !.body = BadBase64]}]

(* Two spellings of one URL. *)
Lines ==
  [raw : {"1", "1 in other letters"}, url : {"url1"}, fetched : HarResponses]
    \union { [raw |-> "2", url |-> "url2", fetched |-> PlainResponse("h")],
             [raw |-> "2", url |-> "url2", fetched |-> NotFetched],
             [raw |-> "3", url |-> Unparsable, fetched |-> NotFetched],
             [raw |-> TooLong, url |-> "url2", fetched |-> PlainResponse("h")] }

Files ==
  [url : {"url1"}, kind : {"file", "directory", "directory with index.html"},
   response : {PlainResponse("h")}]
    \union [url : {"url2", Unparsable, Unrequestable},
            kind : {"file", "directory", "directory out of reach"}, response : {PlainResponse("h2")}]

AddFlags(sort) == parts = <<>> /\ \E flags \in Flags : Add(sort, flags)

AddHarEntry ==
  \/ AddFlags("HAR")
  \/ Len(parts) \in 1..MaxGenerated /\ \E e \in HarEntries : Add("HAR", e)

AddLine ==
  \/ AddFlags("URL list")
  \/ Len(parts) \in 1..MaxGenerated /\ \E line \in Lines : Add("URL list", line)

(* The files of a directory have different URLs. *)
AddFile ==
  \/ AddFlags("directory")
  \/ /\ of = "directory"
     /\ Len(parts) \in 1..MaxGenerated
     /\ \E f \in Files :
          /\ \A i \in 2..Len(parts) : parts[i].url # f.url
          /\ Add("directory", f)

-----------------------------------------------------------------------------
(* What an input has to offer for a URL, in order, and whether it can be   *)
(* read at all.                                                            *)

Offered(input, url) ==
  CASE of = "HAR" ->
         LET usable == SelectSeq(input, LAMBDA e : e.url = url /\ e.method = "GET" /\ e.status = 200)
             first == SelectSeq(usable, LAMBDA e : e.response.text # NoText)
             kept == IF usable = <<>> \/ usable[1].response.text = NoText
                     THEN SubSeq(usable, 1, Min({1, Len(usable)}))
                     ELSE first
         IN [i \in DOMAIN kept |-> kept[i].response]
    [] of = "URL list" ->
         LET first == {i \in DOMAIN input : \A j \in 1..(i - 1) : input[j].raw # input[i].raw}
             kept == SelectSeq([i \in DOMAIN input |-> [at |-> i, line |-> input[i]]],
                               LAMBDA l : l.at \in first /\ l.line.url = url)
         IN [i \in DOMAIN kept |-> kept[i].line.fetched]
    [] of = "directory" ->
         LET kept == SelectSeq(input, LAMBDA f : f.url = url /\ f.kind # "directory")
         IN [i \in DOMAIN kept |-> kept[i].response]

IsReadable(input) ==
  \A i \in DOMAIN input :
    /\ input[i].url # Unparsable
    /\ of = "HAR" => input[i].response.body # BadBase64
    /\ (of = "URL list" /\ input[i].fetched = NotFetched) =>
         \E j \in 1..(i - 1) : input[j].raw = input[i].raw
    /\ of = "URL list" => input[i].raw # TooLong
    /\ of = "directory" =>
         /\ input[i].kind # "directory out of reach"
         /\ input[i].url = Unrequestable => input[i].kind = "directory"

(* A reader of the bundle can tell the responses apart. *)
CanBeTold(version, responses) ==
  Len(responses) = 1 \/ (version = "b1" /\ CoverEveryKeyOnce(responses))

(* The output has for every URL all that the input offers for it, in its   *)
(* order and with the header that overrides the others: one response, or   *)
(* several if all of them have Variants and each possible key names one.   *)
(* It has the primary URL, unless errors are ignored.  The file that was   *)
(* there before is lost, and no bundle written, exactly if the input was   *)
(* good enough to get past Validate and has two responses that cannot be   *)
(* told apart (as two spellings of a URL in a list have), header names that*)
(* clash, or a manifest in a version without one.                          *)
GeneratesWhatIsOffered ==
  (of \in {"HAR", "URL list", "directory"} /\ parts # <<>>) =>
    LET flags == parts[1]
        input == Tail(parts)
        got == CASE of = "HAR" -> FromHar(input) [] of = "URL list" -> FromURLList(input)
                 [] of = "directory" -> FromDir(input)
        out == GenBundle(flags, got)
        offers(url) == Offered(input, url)
        urls == {url \in {"url1", "url2"} : offers(url) # <<>>}
        isWritable ==
          /\ \A url \in urls :
               /\ CanBeTold(flags.version, offers(url))
               /\ \A i \in DOMAIN offers(url) : offers(url)[i].header # "clash"
          /\ flags.manifestURL # NoUrl => flags.version = "b1"
        isAccepted ==
          /\ IsReadable(input)
          /\ Unparsable \notin {flags.primaryURL, flags.manifestURL}
          /\ flags.version = "b1" => flags.primaryURL # NoUrl
          /\ flags.headerOverride = "no colon" => urls = {}
          /\ flags.ignoreErrors \/ flags.primaryURL \in urls \union {NoUrl}
    IN /\ out.is = IF ~isAccepted THEN "left alone" ELSE IF isWritable THEN "bundle" ELSE "emptied"
       /\ out.is = "bundle" =>
            /\ UrlsOf(out.es) = urls
            /\ \A url \in urls :
                 LET es == EntriesOf(out.es, url)
                 IN /\ DOMAIN es = DOMAIN offers(url)
                    /\ \A i \in DOMAIN es :
                         /\ es[i].body = offers(url)[i].body
                         /\ es[i].keys = offers(url)[i].keys
                         /\ es[i].header = IF flags.headerOverride # NoUrl THEN flags.headerOverride
                                           ELSE offers(url)[i].header
===============================================================================
