---------------------------- MODULE BundleReader ----------------------------
(***************************************************************************)
(* bundle.Read (go/bundle/decoder.go) of the octets in stream, which may be*)
(* only the first ones of a bundle: loadMetadata, one step for each section*)
(* and for each entry of the index, and then loadResponse for each location*)
(* that the index has.  Offsets count from 0.  Nothing looks at the footer.*)
(***************************************************************************)
EXTENDS BundleFormat

VARIABLES
  stream,    \* the octets
  rpc,       \* "header", "sections", "index", "load", "ok", "error", "panic"
  table,     \* sectionOffsets: the name and length of each section
  start,     \* sectionsStart
  current,   \* the number of the section that is next, or being read
  offset,    \* where the loop over the sections has got to
  pos,       \* where the decoder of the index has got to
  left,      \* entries of the index that are still to be decoded
  meta,      \* what is known of the bundle
  requests,  \* the locations that the index has
  exchanges  \* the exchanges that have been loaded

NoMeta == [version |-> "none", primaryURL |-> NoUrl, manifestURL |-> NoUrl, signed |-> FALSE]

NewReader ==
  /\ rpc = "header"
  /\ table = <<>> /\ requests = <<>> /\ exchanges = <<>>
  /\ start = 0 /\ current = 1 /\ offset = 0 /\ pos = 0 /\ left = 0
  /\ meta = NoMeta

(* There is a cell of that kind at offset o of the first limit cells. *)
At(o, kind, limit) == o < limit /\ stream[o + 1].k = kind
Value(o) == stream[o + 1].v

Fail == rpc' = "error"

(* FindSection *)
IsSection(name) == \E i \in DOMAIN table : table[i].name = name
LengthBefore(n) == FoldLeft(LAMBDA sum, so : sum + so.length, 0, SubSeq(table, 1, n - 1))
OffsetOf(name) == LengthBefore(CHOOSE i \in DOMAIN table : table[i].name = name)
LengthOf(name) == table[CHOOSE i \in DOMAIN table : table[i].name = name].length

(* A name so long that section-lengths has 8192 octets or more. *)
LongName == "a name of 8192 octets"

AcceptsTable(sos) ==
  /\ \A i \in DOMAIN sos : sos[i].name # LongName
  /\ \A i, j \in DOMAIN sos : sos[i].name = sos[j].name => i = j
  /\ sos # <<>>
  /\ Last(sos).name = "responses"

(* Where section-lengths is, after the magic and, in b1, the primary URL. *)
TableAt == IF HasPrimaryURLFieldInHeader(Value(0)) THEN 2 ELSE 1

HeaderIsRead ==
  LET size == Len(stream)
  IN /\ At(0, "magic", size)
     /\ HasPrimaryURLFieldInHeader(Value(0)) => At(1, "text", size) /\ Value(1) # Unparsable
     /\ At(TableAt, "lengths", size)
     /\ At(TableAt + 1, "array", size)
     /\ Value(TableAt + 1) = Len(Value(TableAt))
     /\ AcceptsTable(Value(TableAt))

ReadHeader ==
  /\ rpc = "header"
  /\ IF HeaderIsRead
     THEN /\ rpc' = "sections"
          /\ table' = Value(TableAt)
          /\ start' = TableAt + 2
          /\ offset' = TableAt + 2
          /\ meta' = [NoMeta EXCEPT
               !.version = Value(0),
               !.primaryURL = IF HasPrimaryURLFieldInHeader(Value(0)) THEN Value(1) ELSE NoUrl]
     ELSE Fail /\ UNCHANGED <<table, start, offset, meta>>
  /\ UNCHANGED <<current, pos, left, requests, exchanges>>

-----------------------------------------------------------------------------
(* The loop over the sections *)

More == rpc = "sections" /\ current <= Len(table)
Name == table[current].name
End == offset + table[current].length
InRange == offset < Len(stream) /\ End < Len(stream)

(* Nothing is read of a section that is not known, nor, here, of the       *)
(* responses; offset stays as it is.                                       *)
SkipSection ==
  /\ More
  /\ Name \notin {"index", "manifest", "primary", "signatures"}
  /\ current' = current + 1
  /\ UNCHANGED <<rpc, table, start, offset, pos, left, meta, requests, exchanges>>

ReadUrlSection ==
  /\ More
  /\ Name \in {"primary", "manifest"}
  /\ IF InRange /\ At(offset, "text", End)
               /\ ~IsBadUrl(Value(offset)) /\ IsAbsolute(Value(offset))
     THEN /\ meta' = IF Name = "primary"
                     THEN [meta EXCEPT !.primaryURL = Value(offset)]
                     ELSE [meta EXCEPT !.manifestURL = Value(offset)]
          /\ offset' = End
          /\ current' = current + 1
          /\ UNCHANGED rpc
     ELSE Fail /\ UNCHANGED <<meta, offset, current>>
  /\ UNCHANGED <<table, start, pos, left, requests, exchanges>>

(* parseSignaturesSection; both versions support signatures. *)
ReadSignatures ==
  /\ More
  /\ Name = "signatures"
  /\ IF InRange /\ At(offset, "array", End) /\ Value(offset) = 2 /\ At(offset + 1, "sigs", End)
     THEN /\ meta' = [meta EXCEPT !.signed = TRUE]
          /\ offset' = End
          /\ current' = current + 1
          /\ UNCHANGED rpc
     ELSE Fail /\ UNCHANGED <<meta, offset, current>>
  /\ UNCHANGED <<table, start, pos, left, requests, exchanges>>

StartIndex ==
  /\ More
  /\ Name = "index"
  /\ IF InRange /\ At(offset, "map", End)
     THEN rpc' = "index" /\ left' = Value(offset) /\ pos' = offset + 1
     ELSE Fail /\ UNCHANGED <<left, pos>>
  /\ UNCHANGED <<table, start, current, offset, meta, requests, exchanges>>

(* The number of locations of the index entry at pos, where the version and*)
(* its variants-value say what the size of its array must be; else 0.      *)
NumLocations ==
  IF ~SupportsVariants(meta.version)
  THEN IF Value(pos + 1) = 2 THEN 1 ELSE 0
  ELSE IF ~At(pos + 2, "variants", End) THEN 0
  ELSE LET n == IF Value(pos + 2) = <<>> THEN 1 ELSE NumberOfPossibleKeys(Value(pos + 2))
       IN IF Value(pos + 1) = 2 * n + 1 THEN n ELSE 0

FirstLocation == IF SupportsVariants(meta.version) THEN pos + 3 ELSE pos + 2

(* Mutant of IsLocation: its end is not compared with the responses section.*)
IsLocationAnywhere(o) == At(o, "uint", End) /\ At(o + 1, "uint", End)

(* Two numbers that locate something in the responses section. *)
IsLocation(o) ==
  /\ At(o, "uint", End)
  /\ At(o + 1, "uint", End)
  /\ Value(o) + Value(o + 1) <= LengthOf("responses")

(* Mutant of ToStream: relative to the start of the index section. *)
ToIndexSection(o) == OffsetOf("index") + start + o

(* makeRelativeToStream *)
ToStream(o) == OffsetOf("responses") + start + o

ReadIndexEntry ==
  /\ rpc = "index"
  /\ left > 0
  /\ IF /\ At(pos, "text", End) /\ ~IsBadUrl(Value(pos))
        /\ At(pos + 1, "array", End)
        /\ NumLocations > 0
        /\ \A j \in 0..(NumLocations - 1) : IsLocation(FirstLocation + 2 * j)
     THEN /\ requests' = requests \o
               [j \in 1..NumLocations |->
                  [url |-> Value(pos),
                   offset |-> ToStream(Value(FirstLocation + 2 * (j - 1))),
                   length |-> Value(FirstLocation + 2 * (j - 1) + 1)]]
          /\ pos' = FirstLocation + 2 * NumLocations
          /\ left' = left - 1
          /\ UNCHANGED rpc
     ELSE Fail /\ UNCHANGED <<requests, pos, left>>
  /\ UNCHANGED <<table, start, current, offset, meta, exchanges>>

EndIndex ==
  /\ rpc = "index"
  /\ left = 0
  /\ rpc' = "sections"
  /\ offset' = End
  /\ current' = current + 1
  /\ UNCHANGED <<table, start, pos, left, meta, requests, exchanges>>

EndMetadata ==
  /\ rpc = "sections"
  /\ current > Len(table)
  /\ rpc' = "load"
  /\ UNCHANGED <<table, start, current, offset, pos, left, meta, requests, exchanges>>

-----------------------------------------------------------------------------
(* The responses *)

Request == requests[Len(exchanges) + 1]
IsWhole(r) == r.offset + r.length <= Len(stream)

(* bs[Offset : Offset+Length]: past the end of bs it has what the capacity *)
(* of the buffer holds, which has been zeroed.                             *)
Slice(r) ==
  [i \in 1..r.length |-> IF r.offset + i <= Len(stream) THEN stream[r.offset + i]
                                                        ELSE Cell("zero", "zero")]

IsResponse(cells) ==
  /\ Len(cells) >= 3
  /\ cells[1].k = "array"
  /\ cells[2].k = "header" /\ cells[2].v.header # "odd"
  /\ cells[3].k = "bytes" /\ Len(cells) = 3 + cells[3].v

LoadResponse ==
  /\ rpc = "load"
  /\ Len(exchanges) < Len(requests)
  /\ LET cells == Slice(Request)
     IN IF IsResponse(cells)
        THEN /\ exchanges' = Append(exchanges,
                  [url |-> Request.url, header |-> cells[2].v,
                   body |-> [i \in 1..cells[3].v |-> cells[3 + i].v]])
             /\ UNCHANGED rpc
        ELSE Fail /\ UNCHANGED exchanges
  /\ UNCHANGED <<table, start, current, offset, pos, left, meta, requests>>

(* The slice ends, or even begins, past the capacity of the buffer. *)
SlicePanics ==
  /\ rpc = "load"
  /\ Len(exchanges) < Len(requests)
  /\ ~IsWhole(Request)
  /\ rpc' = "panic"
  /\ UNCHANGED <<table, start, current, offset, pos, left, meta, requests, exchanges>>

EndLoad ==
  /\ rpc = "load"
  /\ Len(exchanges) = Len(requests)
  /\ rpc' = "ok"
  /\ UNCHANGED <<table, start, current, offset, pos, left, meta, requests, exchanges>>

Next ==
  \/ ReadHeader
  \/ SkipSection
  \/ ReadUrlSection
  \/ ReadSignatures
  \/ StartIndex
  \/ ReadIndexEntry
  \/ EndIndex
  \/ EndMetadata
  \/ LoadResponse
  \/ SlicePanics
  \/ EndLoad
=============================================================================
