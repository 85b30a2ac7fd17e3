--------------------------- MODULE CborDeterministic ---------------------------
(***************************************************************************)
(* Whether octets are a sequence of deterministically encoded CBOR items:  *)
(* Deterministic (go/internal/cbor/deterministic.go) and checkDeterministic*)
(* (js/sign/src/cbor/deterministic.ts), which take the same steps and      *)
(* differ in their numbers and at the end of the input.  An item starts at *)
(* an offset, counted from 0.  The answer is "ok" or "error", or the Go    *)
(* code panics.  In Go a string whose length is near 2^63 or 2^64 counts   *)
(* backwards: where the next item would not start after this one, the check*)
(* has gone "astray" (it then indexes out of bounds, reads octets again, or*)
(* never ends), and the model follows it no further.                       *)
(***************************************************************************)
EXTENDS Cbor

CONSTANT Language    \* "Go" or "JavaScript"

(* The input ends within an item. *)
PastTheEnd == [is |-> IF Language = "Go" THEN "panic" ELSE "error"]

(* int(n) and int(n) * 2, or Number(n) and Number(n) * 2. *)
IntOf(n) == IF Language = "Go" THEN Int64(n) ELSE Magnitude(n)
Twice(n) == IF Language = "Go" THEN Int64(Double(n)) ELSE 2 * Magnitude(n)

Result(is) == [is |-> is]
Item(next) == [is |-> "ok", next |-> next]

At(input, offset) == input[offset + 1]

(* value >= getAdditionalInfoValueLowerLimit() *)
IsMinimal(k, n) ==
  CASE k = 0 -> TRUE
    [] k = 1 -> n[8] >= 24
    [] k = 2 -> ~Zeros(n, 7)
    [] k = 4 -> ~Zeros(n, 6)
    [] k = 8 -> ~Zeros(n, 4)

IsReserved(info) == info \in 28..31

(* getUnsignedIntegerValue: k octets after the first one. *)
UnsignedIntegerValue(input, offset, k) ==
  IF k = 0 THEN Uint(Info(At(input, offset)))
  ELSE Widen(SubSeq(input, offset + 2, offset + 1 + k))

(* unsignedIntegerDeterministic: the number, and where what follows it is. *)
UnsignedInteger(input, offset) ==
  LET k == FollowingOf(Info(At(input, offset)))
      n == UnsignedIntegerValue(input, offset, k)
  IN IF IsReserved(Info(At(input, offset))) THEN Result("error")
     ELSE IF offset + 1 + k > Len(input) THEN PastTheEnd
     ELSE IF ~IsMinimal(k, n) THEN Result("error")
     ELSE [is |-> "ok", n |-> n, next |-> offset + 1 + k]

(* uintLen + int(stringLen) is 2^63 or more, which Go takes for a negative *)
(* number.                                                                 *)
Overflows(n) ==
  Language = "Go" /\ n[1] = 127 /\ (\A i \in 2..7 : n[i] = 255) /\ n[8] >= 248

(* textOrByteStringDeterministic *)
StringEnd(input, offset, head) ==
  LET length == head.next - (offset + 1) + IntOf(head.n)
  IN IF length < 0 \/ Overflows(head.n) THEN Result("astray")
     ELSE IF length >= Len(input) - offset THEN PastTheEnd
     ELSE Item(offset + 1 + length)

RECURSIVE ItemEnd(_, _), ArrayEnd(_, _, _), MapEnd(_, _, _, _, _)

(* deterministicRec *)
ItemEnd(input, offset) ==
  LET type == MajorType(At(input, offset))
      head == UnsignedInteger(input, offset)
  IN IF type \notin {PosInt, Bytes, Text, Array, Map} THEN Result("error")
     ELSE IF head.is # "ok" THEN head
     ELSE CASE type = PosInt -> Item(head.next)
            [] type \in {Bytes, Text} -> StringEnd(input, offset, head)
            [] type = Array -> ArrayEnd(input, head.next, IntOf(head.n))
            [] type = Map -> MapEnd(input, head.next, 0, Twice(head.n), <<>>)

(* The rest of an array, with so many items left. *)
ArrayEnd(input, offset, left) ==
  IF left <= 0 THEN Item(offset)
  ELSE IF offset >= Len(input) THEN PastTheEnd
  ELSE LET item == ItemEnd(input, offset)
       IN IF item.is # "ok" THEN item ELSE ArrayEnd(input, item.next, left - 1)

(* Mutant of KeysAscend: the same key may come again. *)
KeysDoNotDescend(last, key) == ~Before(key, last)

KeysAscend(last, key) == Before(last, key)

(* The rest of a map from its item number i on; every other one is a key. *)
MapEnd(input, offset, i, items, last) ==
  IF i >= items THEN Item(offset)
  ELSE IF offset >= Len(input) THEN PastTheEnd
  ELSE LET item == ItemEnd(input, offset)
           octets == SubSeq(input, offset + 1, item.next)
       IN IF item.is # "ok" THEN item
          ELSE IF i % 2 = 1 THEN MapEnd(input, item.next, i + 1, items, last)
          ELSE IF KeysAscend(last, octets) THEN MapEnd(input, item.next, i + 1, items, octets)
          ELSE Result("error")

RECURSIVE ItemsEnd(_, _)
ItemsEnd(input, offset) ==
  IF offset >= Len(input) THEN Item(offset)
  ELSE LET item == ItemEnd(input, offset)
       IN IF item.is # "ok" THEN item ELSE ItemsEnd(input, item.next)

Deterministic(input) == ItemsEnd(input, 0).is
=============================================================================
