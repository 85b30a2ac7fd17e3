------------------------------ MODULE Variants ------------------------------
(***************************************************************************)
(* The Variants value of a version b1 index entry (go/bundle/encoder.go): a*)
(* sequence of axes, each the sequence of the values that the axis can have*)
(* (header names are dropped), and the order in which the index lists the  *)
(* responses of a URL.  A variant key has a value for each axis.           *)
(***************************************************************************)
EXTENDS Integers, Sequences, SequencesExt

CONSTANT MaxNumVariantsForSingleURL

ASSUME VariantsAssumption == MaxNumVariantsForSingleURL \in Nat \ {0}

(* 0 stands for the errors "no possible key" and "too many possible keys". *)
NumberOfPossibleKeys(v) ==
  FoldLeft(LAMBDA n, vals : IF n * Len(vals) > MaxNumVariantsForSingleURL
                            THEN 0 ELSE n * Len(vals),
           1, v)

IndexInAxis(vals, value) ==
  (CHOOSE j \in DOMAIN vals : vals[j] = value /\ \A l \in 1..(j-1) : vals[l] # value) - 1

(* One more axis: the last axis varies fastest. *)
Place(index, vals, value) == index * Len(vals) + IndexInAxis(vals, value)

IsPossibleKey(v, key) ==
  Len(key) = Len(v) /\ \A i \in DOMAIN v : \E j \in DOMAIN v[i] : v[i][j] = key[i]

(* -1 if key is not a possible key. *)
IndexInPossibleKeys(v, key) ==
  IF IsPossibleKey(v, key)
  THEN FoldLeft(LAMBDA index, i : Place(index, v[i], key[i]), 0, [i \in DOMAIN v |-> i])
  ELSE -1

(* The number of keys that agree on the axes up to i. *)
Stride(v, i) == FoldLeft(LAMBDA n, vals : n * Len(vals), 1, SubSeq(v, i + 1, Len(v)))

PossibleKeyAt(v, index) ==
  [i \in DOMAIN v |-> v[i][((index \div Stride(v, i)) % Len(v[i])) + 1]]

NoOrder == [ok |-> FALSE, entries |-> <<>>]

(* -1 marks every slot once two entries have claimed the same one, or one  *)
(* has claimed a slot that does not exist.                                 *)
Put(slots, index, e) ==
  IF index \in DOMAIN slots /\ slots[index] = 0
  THEN [slots EXCEPT ![index] = e]
  ELSE [i \in DOMAIN slots |-> -1]

(* Mutant of Listed: off by one, so that the last response comes first. *)
ListedOffByOne(slots, n) == [i \in 1..n |-> slots[i % n]]

Listed(slots, n) == [i \in 1..n |-> slots[i - 1]]

(* The e-th entry claims a slot for each of its keys. *)
Claim(v, slots, e, keys) ==
  FoldLeft(LAMBDA s, key : Put(s, IndexInPossibleKeys(v, key), e), slots, keys)

Slots(v, n, es) ==
  FoldLeft(LAMBDA slots, e : Claim(v, slots, e, es[e].keys),
           [i \in 0..(n - 1) |-> 0], [e \in DOMAIN es |-> e])

(* entriesInPossibleKeyOrder: es are the entries of a URL, each with its   *)
(* Variants header as a text and as the axes it is parsed to, and the list *)
(* of its variant keys; an empty list of axes or keys does not parse.  The *)
(* axes of the first are used, and the texts compared.  The answer lists   *)
(* numbers of entries, one for each possible key.                          *)
EntriesInPossibleKeyOrder(es) ==
  LET v == es[1].variants
      n == NumberOfPossibleKeys(v)
      slots == Slots(v, n, es)
  IN IF /\ v # <<>>
        /\ n # 0
        /\ \A e \in DOMAIN es : es[e].text = es[1].text /\ es[e].keys # <<>>
        /\ \A i \in DOMAIN slots : slots[i] > 0
     THEN [ok |-> TRUE, entries |-> Listed(slots, n)]
     ELSE NoOrder
=============================================================================
