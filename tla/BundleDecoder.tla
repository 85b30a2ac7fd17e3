---------------------------- MODULE BundleDecoder ---------------------------
(***************************************************************************)
(* The Bundle class of js/bundle/src/decoder.ts.  cborg decodes the whole  *)
(* bundle at once, so that it does not need the lengths of the sections;   *)
(* which responses an index entry means is found out by counting their     *)
(* sizes again.  Positions count from 1.                                   *)
(***************************************************************************)
EXTENDS BundleFormat

(* Where the item that begins at p ends: the index, a map of arrays; the   *)
(* responses, an array of arrays; an array of scalars; or one cell.        *)
EndOfItem(bs, p) ==
  LET Repeat(next(_), first, n) == FoldLeft(LAMBDA q, i : next(q), first, [i \in 1..n |-> i])
      afterEntry(q) == q + 2 + bs[q + 1].v
      afterResponse(q) == q + 3 + bs[q + 2].v
  IN CASE bs[p].k = "map" -> Repeat(afterEntry, p + 1, bs[p].v)
       [] bs[p].k = "array" /\ bs[p + 1].k = "array" -> Repeat(afterResponse, p + 1, bs[p].v)
       [] bs[p].k = "array" /\ bs[p + 1].k # "array" -> p + 1 + bs[p].v
       [] OTHER -> p + 1

TableAt(bs) == IF HasPrimaryURLFieldInHeader(bs[1].v) THEN 3 ELSE 2

(* Where the sections begin, in the order of the table. *)
SectionStarts(bs) ==
  FoldLeft(LAMBDA starts, so : Append(starts, EndOfItem(bs, Last(starts))),
           <<TableAt(bs) + 2>>, bs[TableAt(bs)].v)

Names(bs) == {so.name : so \in Range(bs[TableAt(bs)].v)}
StartOf(bs, name) ==
  SectionStarts(bs)[CHOOSE i \in DOMAIN bs[TableAt(bs)].v : bs[TableAt(bs)].v[i].name = name]

(* Where the responses begin. *)
ResponseStarts(bs) ==
  LET first == StartOf(bs, "responses")
  IN FoldLeft(LAMBDA starts, i : Append(starts, Last(starts) + 3 + bs[Last(starts) + 2].v),
              <<first + 1>>, [i \in 1..bs[first].v |-> i])

(* The constructor throws if a section is marked critical that it does not *)
(* know.                                                                   *)
KnownSections == {"critical", "index", "manifest", "primary", "responses", "signatures"}

Constructs(bs) ==
  "critical" \in Names(bs) =>
    LET p == StartOf(bs, "critical")
    IN \A i \in 1..bs[p].v : bs[p + i].v \in KnownSections

DecodedPrimaryURL(bs) ==
  IF HasPrimaryURLFieldInHeader(bs[1].v) THEN bs[2].v
  ELSE IF "primary" \in Names(bs) THEN bs[StartOf(bs, "primary")].v ELSE NoUrl

(* The entries of the index, at the positions of their URLs. *)
IndexPositions(bs) ==
  LET p == StartOf(bs, "index")
  IN {q \in (p + 1)..(EndOfItem(bs, p) - 1) : bs[q].k = "text"}

UrlsIn(bs) == {bs[q].v : q \in IndexPositions(bs)}

(* this.responses[offset], if there is a response at that offset. *)
ResponsesAt(bs, offset) ==
  {p \in Range(Front(ResponseStarts(bs))) : p - StartOf(bs, "responses") = offset}

(* getResponse: the only location of the entry, with no variants. *)
GetResponse(bs, url) ==
  LET q == CHOOSE q \in IndexPositions(bs) : bs[q].v = url
      offset == IF SupportsVariants(bs[1].v) THEN bs[q + 3].v ELSE bs[q + 2].v
      found == ResponsesAt(bs, offset)
      p == CHOOSE p \in found : TRUE
  IN IF found = {} THEN [found |-> FALSE]
     ELSE [found |-> TRUE, header |-> bs[p + 1].v,
           body |-> [i \in 1..bs[p + 2].v |-> bs[p + 2 + i].v]]
=============================================================================
