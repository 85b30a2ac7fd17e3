------------------------------- MODULE GenBundle -------------------------------
(***************************************************************************)
(* gen-bundle (go/bundle/cmd/gen-bundle): the exchanges it makes of a HAR  *)
(* file, a list of URLs or a directory, and what it does with them.  An    *)
(* exchange is as in BundleFormat.  Where the code returns an error the    *)
(* exchanges are not ok.                                                   *)
(***************************************************************************)
EXTENDS BundleFormat

Exchanges(es) == [ok |-> TRUE, es |-> es]
NoExchanges == [ok |-> FALSE, es |-> <<>>]

BadBase64 == <<"not base64">>
NotFetched ==
  [text |-> NoText, variants |-> <<>>, keys |-> <<>>, header |-> "failed", body |-> <<>>]

Exchange(url, response) ==
  [url |-> url, text |-> response.text, variants |-> response.variants, keys |-> response.keys,
   header |-> response.header, body |-> response.body]

-----------------------------------------------------------------------------
(* fromHar.  An entry is [url, method, status, response]; nvpToHeader has  *)
(* dropped the pseudo headers and the banned ones of its response, and a   *)
(* body BadBase64 does not decode.                                         *)

IsUsable(e) == e.method = "GET" /\ e.status \in 100..999

(* Only the entry before it of the same URL that was kept is looked at. *)
HasVariants(response) == response.text # NoText
Kept(es, url) == EntriesOf(es, url)

(* Mutant of MayAdd: only this response has to have a Variants header. *)
MayAddIfVariants(es, e) == Kept(es, e.url) = <<>> \/ HasVariants(e.response)

MayAdd(es, e) ==
  \/ Kept(es, e.url) = <<>>
  \/ HasVariants(e.response) /\ HasVariants(Last(Kept(es, e.url)))

HarEntry(got, e) ==
  IF ~got.ok \/ e.url = Unparsable \/ e.response.body = BadBase64 THEN NoExchanges
  ELSE IF IsUsable(e) /\ MayAdd(got.es, e)
       THEN Exchanges(Append(got.es, Exchange(e.url, e.response)))
       ELSE got

FromHar(entries) == FoldLeft(HarEntry, Exchanges(<<>>), entries)

-----------------------------------------------------------------------------
(* fromURLList.  A line is [raw, url, fetched], its text, its URL when it  *)
(* is parsed and written again, and the response, NotFetched if there is   *)
(* none; lines that are blank or comments are left out.  The scanner stops *)
(* at a line that is too long, and scanner.Err tells so after the loop.    *)
TooLong == "longer than the buffer of the scanner"

ListEntry(got, lines, i) ==
  IF ~got.ok \/ \E j \in 1..(i - 1) : lines[j].raw = lines[i].raw THEN got
  ELSE IF lines[i].raw = TooLong THEN NoExchanges
  ELSE IF lines[i].url = Unparsable \/ lines[i].fetched = NotFetched THEN NoExchanges
  ELSE Exchanges(Append(got.es, Exchange(lines[i].url, lines[i].fetched)))

FromURLList(lines) ==
  FoldLeft(LAMBDA got, i : ListEntry(got, lines, i), Exchanges(<<>>), [i \in DOMAIN lines |-> i])

(* fromDir.  A file is [url, kind, response]: "file", "directory",         *)
(* "directory with index.html", or "directory out of reach", of which      *)
(* os.Stat cannot tell; http.ServeFile makes the response.                 *)
Unrequestable == "no URL of a request"    \* http.NewRequest fails

CannotBeServed(f) ==
  \/ f.url = Unparsable
  \/ f.kind = "directory out of reach"
  \/ f.kind # "directory" /\ f.url = Unrequestable

DirEntry(got, f) ==
  IF ~got.ok \/ CannotBeServed(f) THEN NoExchanges
  ELSE IF f.kind = "directory" THEN got
  ELSE Exchanges(Append(got.es, Exchange(f.url, f.response)))

FromDir(files) == FoldLeft(DirEntry, Exchanges(<<>>), files)

-----------------------------------------------------------------------------
(* main *)

(* Bundle.Validate *)
HasPrimary(es, primaryURL) == primaryURL = NoUrl \/ EntriesOf(es, primaryURL) # <<>>

(* -headerOverride sets one header, no Variants or Variant-Key, of every   *)
(* response; names that clash still do.  "no colon" is one without a value,*)
(* which is indexed past its end at the first response.                    *)
Overridden(es, header) ==
  IF header = NoUrl THEN es
  ELSE [i \in DOMAIN es |-> [es[i] EXCEPT !.header = IF @ = "clash" THEN @ ELSE header]]

(* WriteTo fails before it has written anything, or writes the bundle. *)
CanBeWritten(flags, es) ==
  /\ \A i \in DOMAIN es : EncodesHeader(es[i])
  /\ CanFinalize(flags.version, es)
  /\ flags.manifestURL = NoUrl \/ SupportsManifestSection(flags.version)

(* What becomes of the output file: it is left alone, emptied, or the      *)
(* bundle.  es is what became of the input.                                *)
Output(is, es) == [is |-> is, es |-> es]

GenBundle(flags, got) ==
  LET es == Overridden(got.es, flags.headerOverride)
  IN IF \/ flags.primaryURL = NoUrl /\ HasPrimaryURLFieldInHeader(flags.version)
        \/ flags.primaryURL = Unparsable \/ flags.manifestURL = Unparsable
        \/ ~got.ok
        \/ flags.headerOverride = "no colon" /\ got.es # <<>>
        \/ ~flags.ignoreErrors /\ ~HasPrimary(es, flags.primaryURL)
     THEN Output("left alone", <<>>)
     ELSE IF CanBeWritten(flags, es) THEN Output("bundle", es)
     ELSE Output("emptied", <<>>)
================================================================================
