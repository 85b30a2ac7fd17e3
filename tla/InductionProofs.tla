---------------------------- MODULE InductionProofs ----------------------------
(***************************************************************************)
(* The least element of a set of natural numbers, and induction stated for *)
(* a set, which the proofs about recursive definitions and about searches  *)
(* for the first of several cite; what follows for FlattenSeq, which joins *)
(* the sequences of a list, and for folds; and sequences whose elements are*)
(* of no particular set.                                                   *)
(***************************************************************************)
EXTENDS Integers, Sequences, SequencesExt, SequenceTheorems, WellFoundedInduction, TLAPS

(* Min finds the least of any numbers there are: Verdict's search for the  *)
(* first subset that covers an exchange, for one.                          *)
LEMMA MinIsLeast ==
  ASSUME NEW S \in SUBSET Nat, S # {}
  PROVE  Min(S) \in S /\ \A y \in S : Min(S) <= y
<1> DEFINE R == OpToRel(<, Nat)
<1>1. \A a, b \in Nat : a < b => <<a, b>> \in R
  BY DEF OpToRel
<1>2. IsWellFoundedOn(R, Nat)
  BY NatLessThanWellFounded
<1> HIDE DEF R
<1>3. PICK x \in S : \A y \in S : ~ (<<y, x>> \in R)
  BY <1>2, WFMin
<1>4. \A y \in S : x <= y
  <2> SUFFICES ASSUME NEW y \in S, y < x PROVE FALSE
    OBVIOUS
  <2>1. <<y, x>> \in R
    BY <1>1
  <2>2. QED
    BY <2>1, <1>3
<1>5. QED
  BY <1>4 DEF Min

(* What holds of 0, and of the successor of each number it holds of, holds *)
(* of all: for ProofChain, the number of records after a record.           *)
LEMMA InductionOnSets ==
  ASSUME NEW S, 0 \in S, \A n \in Nat : n \in S => n + 1 \in S
  PROVE  Nat \subseteq S
<1> DEFINE C == Nat \ S
           m == Min(C)
<1> SUFFICES ASSUME C # {} PROVE FALSE
  OBVIOUS
<1>1. m \in C /\ \A y \in C : m <= y
  BY MinIsLeast
<1> HIDE DEF m
<1>2. m \in Nat /\ m \notin S /\ m # 0
  BY <1>1
<1>3. m - 1 \in Nat /\ m - 1 \in S
  <2>1. m - 1 \in Nat
    BY <1>2
  <2>2. CASE m - 1 \notin S
    <3>1. m - 1 \in C
      BY <2>1, <2>2
    <3>2. m <= m - 1
      BY <3>1, <1>1
    <3>3. QED
      BY <3>2, <1>2
  <2>3. QED
    BY <2>1, <2>2
<1>4. (m - 1) + 1 \in S
  BY <1>3
<1>5. QED
  BY <1>4, <1>2

-----------------------------------------------------------------------------
(* FlattenSeq                                                              *)

(* FlattenSeq's recursion, up to the m-th sequence.                        *)
IsFlat(f, s, m) ==
  f = [i \in 1..m |-> IF i = 1 THEN s[i] ELSE f[i - 1] \o s[i]]

(* Joining the lists of a longer list starts with what the shorter one     *)
(* gives.                                                                  *)
LEMMA FlatGrows ==
  ASSUME NEW s, NEW m \in Nat, NEW f, IsFlat(f, s, m)
  PROVE  \E g : IsFlat(g, s, m + 1)
<1> DEFINE g == [i \in 1..(m + 1) |->
                   IF i = m + 1 THEN (IF i = 1 THEN s[i] ELSE f[i - 1] \o s[i]) ELSE f[i]]
<1>1. ASSUME NEW i \in 1..(m + 1)
      PROVE  g[i] = IF i = 1 THEN s[i] ELSE g[i - 1] \o s[i]
  <2>1. i # 1 => i - 1 \in 1..(m + 1) /\ i - 1 # m + 1
    OBVIOUS
  <2>2. i # 1 => g[i - 1] = f[i - 1]
    BY <2>1
  <2>3. CASE i = m + 1
    <3>1. g[i] = IF i = 1 THEN s[i] ELSE f[i - 1] \o s[i]
      BY <2>3
    <3> HIDE DEF g
    <3>2. QED
      BY <2>2, <3>1
  <2>4. CASE i # m + 1
    <3>1. i \in 1..m
      BY <2>4
    <3>2. g[i] = f[i] /\ f[i] = IF i = 1 THEN s[i] ELSE f[i - 1] \o s[i]
      BY <2>4, <3>1 DEF IsFlat
    <3> HIDE DEF g
    <3>3. QED
      BY <2>2, <3>2
  <2>5. QED
    BY <2>3, <2>4
<1>2. g = [i \in 1..(m + 1) |-> IF i = 1 THEN s[i] ELSE g[i - 1] \o s[i]]
  BY <1>1
<1> HIDE DEF g
<1>3. QED
  BY <1>2 DEF IsFlat

(* What the recursion defines: each beginning of the list, joined.         *)
LEMMA FlattenUnfolds ==
  ASSUME NEW S, NEW s \in Seq(Seq(S)), Len(s) # 0
  PROVE  \E f : /\ f[1] = s[1]
                /\ \A i \in 2..Len(s) : f[i] = f[i - 1] \o s[i]
                /\ \A i \in 1..Len(s) : f[i] \in Seq(S)
                /\ f[Len(s)] = FlattenSeq(s)
<1> DEFINE n == Len(s)
           M == {m \in Nat : \E f : IsFlat(f, s, m)}
           flatten == CHOOSE f : IsFlat(f, s, n)
           K == {k \in Nat : k + 1 <= n => flatten[k + 1] \in Seq(S)}
<1>1. n \in Nat /\ n >= 1 /\ \A i \in 1..n : s[i] \in Seq(S)
  BY LenProperties, ElementOfSeq
<1>2. 0 \in M
  <2>1. IsFlat([i \in 1..0 |-> <<>>], s, 0)
    BY DEF IsFlat
  <2>2. QED
    BY <2>1
<1>3. \A m \in Nat : m \in M => m + 1 \in M
  BY FlatGrows
<1>4. n \in M
  <2> HIDE DEF M
  <2>1. Nat \subseteq M
    BY <1>2, <1>3, InductionOnSets
  <2>2. QED
    BY <1>1, <2>1
<1>5. IsFlat(flatten, s, n)
  BY <1>4
<1>6. flatten[n] = FlattenSeq(s)
  <2>1. FlattenSeq(s) = flatten[n]
    BY DEF FlattenSeq, IsFlat
  <2>2. QED
    BY <2>1
<1> HIDE DEF flatten
<1>7. /\ flatten[1] = s[1]
      /\ \A i \in 2..n : flatten[i] = flatten[i - 1] \o s[i]
  <2>1. ASSUME NEW i \in 1..n
        PROVE  flatten[i] = IF i = 1 THEN s[i] ELSE flatten[i - 1] \o s[i]
    BY <1>5 DEF IsFlat
  <2>2. 1 \in 1..n /\ \A i \in 2..n : i \in 1..n /\ i # 1
    BY <1>1
  <2> HIDE DEF n
  <2>3. QED
    BY <2>1, <2>2
<1>8. 0 \in K
  BY <1>1, <1>7
<1>9. ASSUME NEW k \in Nat, k \in K
      PROVE  k + 1 \in K
  <2> SUFFICES ASSUME (k + 1) + 1 <= n PROVE flatten[(k + 1) + 1] \in Seq(S)
    OBVIOUS
  <2>1. flatten[k + 1] \in Seq(S)
    BY <1>1, <1>9
  <2> DEFINE i == (k + 1) + 1
  <2>2. i \in 2..n /\ i \in 1..n /\ i - 1 = k + 1
    BY <1>1
  <2> HIDE DEF i
  <2>3. flatten[i] = flatten[k + 1] \o s[i] /\ s[i] \in Seq(S)
    BY <1>1, <1>7, <2>2
  <2>4. flatten[i] \in Seq(S)
    BY <2>1, <2>3, ConcatProperties
  <2>5. QED
    BY <2>4 DEF i
<1>10. \A i \in 1..n : flatten[i] \in Seq(S)
  <2> SUFFICES ASSUME NEW i \in 1..n PROVE flatten[i] \in Seq(S)
    OBVIOUS
  <2> HIDE DEF K
  <2>1. Nat \subseteq K
    BY <1>8, <1>9, InductionOnSets
  <2>2. i - 1 \in Nat /\ (i - 1) + 1 = i /\ i <= n
    BY <1>1
  <2>3. QED
    BY <2>1, <2>2 DEF K
<1>11. QED
  BY <1>6, <1>7, <1>10

(* What occurs in the joined list occurs in one of the sequences, and what *)
(* occurs in one of them occurs in the joined list.                        *)
Occurs(x, s) == \E p \in DOMAIN s : s[p] = x

(* What occurs in two sequences joined occurs in one of them. *)
LEMMA OccursInJoin ==
  ASSUME NEW S, NEW a \in Seq(S), NEW b \in Seq(S), NEW x
  PROVE  Occurs(x, a \o b) <=> Occurs(x, a) \/ Occurs(x, b)
<1>1. /\ Len(a) \in Nat /\ Len(b) \in Nat
      /\ DOMAIN a = 1..Len(a) /\ DOMAIN b = 1..Len(b)
      /\ DOMAIN (a \o b) = 1..(Len(a) + Len(b))
  BY LenProperties, ConcatProperties
<1>2. /\ \A i \in 1..Len(a) : (a \o b)[i] = a[i]
      /\ \A i \in 1..Len(b) : (a \o b)[Len(a) + i] = b[i]
  <2>1. \A i \in 1..(Len(a) + Len(b)) :
          (a \o b)[i] = IF i <= Len(a) THEN a[i] ELSE b[i - Len(a)]
    BY ConcatProperties
  <2>2. \A i \in 1..Len(b) : /\ Len(a) + i \in 1..(Len(a) + Len(b))
                            /\ ~(Len(a) + i <= Len(a))
                            /\ (Len(a) + i) - Len(a) = i
    BY <1>1
  <2>3. \A i \in 1..Len(a) : i \in 1..(Len(a) + Len(b)) /\ i <= Len(a)
    BY <1>1
  <2>4. QED
    BY <2>1, <2>2, <2>3
<1>3. ASSUME Occurs(x, a) PROVE Occurs(x, a \o b)
  <2>1. PICK p \in 1..Len(a) : a[p] = x
    BY <1>1, <1>3 DEF Occurs
  <2>2. p \in 1..(Len(a) + Len(b)) /\ (a \o b)[p] = x
    BY <1>1, <1>2, <2>1
  <2>3. QED
    BY <1>1, <2>2 DEF Occurs
<1>4. ASSUME Occurs(x, b) PROVE Occurs(x, a \o b)
  <2>1. PICK p \in 1..Len(b) : b[p] = x
    BY <1>1, <1>4 DEF Occurs
  <2>2. Len(a) + p \in 1..(Len(a) + Len(b)) /\ (a \o b)[Len(a) + p] = x
    BY <1>1, <1>2, <2>1
  <2>3. QED
    BY <1>1, <2>2 DEF Occurs
<1>5. ASSUME Occurs(x, a \o b) PROVE Occurs(x, a) \/ Occurs(x, b)
  <2>1. PICK p \in 1..(Len(a) + Len(b)) : (a \o b)[p] = x
    BY <1>1, <1>5 DEF Occurs
  <2>2. CASE p <= Len(a)
    <3>1. p \in 1..Len(a) /\ a[p] = x
      BY <1>1, <1>2, <2>1, <2>2
    <3>2. QED
      BY <1>1, <3>1 DEF Occurs
  <2>3. CASE ~(p <= Len(a))
    <3> DEFINE m == p - Len(a)
    <3>1. m \in 1..Len(b) /\ p = Len(a) + m
      BY <1>1, <2>1, <2>3
    <3> HIDE DEF m
    <3>2. b[m] = x
      BY <1>2, <2>1, <3>1
    <3>3. QED
      BY <1>1, <3>1, <3>2 DEF Occurs
  <2>4. QED
    BY <2>2, <2>3
<1>6. QED
  BY <1>3, <1>4, <1>5

(* What occurs in the sequences of a list, joined, occurs in one of them. *)
LEMMA OccursInFlatten ==
  ASSUME NEW S, NEW s \in Seq(Seq(S)), NEW x
  PROVE  Occurs(x, FlattenSeq(s)) <=> \E i \in 1..Len(s) : Occurs(x, s[i])
<1>1. Len(s) \in Nat /\ \A i \in 1..Len(s) : s[i] \in Seq(S)
  BY LenProperties, ElementOfSeq
<1>2. CASE Len(s) = 0
  <2>1. FlattenSeq(s) = s
    BY <1>2 DEF FlattenSeq
  <2>2. DOMAIN s = {} /\ 1..Len(s) = {}
    BY <1>2, LenProperties
  <2>3. QED
    BY <2>1, <2>2 DEF Occurs
<1>3. CASE Len(s) # 0
  <2> DEFINE n == Len(s)
  <2>1. PICK f : /\ f[1] = s[1]
                 /\ \A i \in 2..n : f[i] = f[i - 1] \o s[i]
                 /\ \A i \in 1..n : f[i] \in Seq(S)
                 /\ f[n] = FlattenSeq(s)
    BY <1>3, FlattenUnfolds
  <2> HIDE DEF n
  <2>2. n \in Nat /\ n >= 1 /\ \A i \in 1..n : s[i] \in Seq(S)
    BY <1>1, <1>3 DEF n
  <2> DEFINE Agrees(m) == Occurs(x, f[m]) <=> \E i \in 1..m : Occurs(x, s[i])
             K == {k \in Nat : k + 1 <= n => Agrees(k + 1)}
  <2>3. 0 \in K
    <3>1. 0 + 1 = 1 /\ \A i : i \in 1..1 <=> i = 1
      OBVIOUS
    <3>2. Agrees(1)
      BY <2>1, <3>1
    <3>3. QED
      BY <3>1, <3>2
  <2>4. ASSUME NEW k \in Nat, k \in K
        PROVE  k + 1 \in K
    <3> SUFFICES ASSUME (k + 1) + 1 <= n PROVE Agrees((k + 1) + 1)
      OBVIOUS
    <3> DEFINE i == (k + 1) + 1
    <3>1. /\ i \in 2..n /\ i \in 1..n /\ k + 1 \in 1..n /\ i - 1 = k + 1
          /\ \A j : j \in 1..i <=> j \in 1..(k + 1) \/ j = i
      BY <2>2
    <3>2. Occurs(x, f[k + 1]) <=> \E j \in 1..(k + 1) : Occurs(x, s[j])
      BY <2>2, <2>4, <3>1
    <3> HIDE DEF i, Agrees, K
    <3>3. f[i] = f[k + 1] \o s[i] /\ f[k + 1] \in Seq(S) /\ s[i] \in Seq(S)
      BY <2>1, <2>2, <3>1
    <3>4. Occurs(x, f[i]) <=> Occurs(x, f[k + 1]) \/ Occurs(x, s[i])
      BY <3>3, OccursInJoin
    <3>5. (\E j \in 1..i : Occurs(x, s[j]))
            <=> (\E j \in 1..(k + 1) : Occurs(x, s[j])) \/ Occurs(x, s[i])
      BY <3>1, Zenon
    <3>6. Agrees(i)
      BY <3>2, <3>4, <3>5 DEF Agrees
    <3>7. QED
      BY <3>6 DEF i
  <2>5. n - 1 \in K
    <3> HIDE DEF K
    <3>1. Nat \subseteq K
      BY <2>3, <2>4, InductionOnSets
    <3>2. QED
      BY <2>2, <3>1
  <2>6. (n - 1) + 1 = n
    BY <2>2
  <2>7. Agrees(n)
    BY <2>5, <2>6
  <2>8. QED
    BY <2>1, <2>7 DEF n
<1>4. QED
  BY <1>2, <1>3

(* Joining a list of one sequence gives that sequence.                     *)
LEMMA FlattenOne ==
  ASSUME NEW x
  PROVE  FlattenSeq(<<x>>) = x
<1> DEFINE f == [i \in 1..1 |-> x]
           s == <<x>>
<1>1. IsFlat(f, s, 1)
  <2>1. s[1] = x /\ \A i \in 1..1 : i = 1
    OBVIOUS
  <2>2. f = [i \in 1..1 |-> IF i = 1 THEN s[i] ELSE f[i - 1] \o s[i]]
    BY <2>1
  <2>3. QED
    BY <2>2 DEF IsFlat
<1> DEFINE g == CHOOSE h : IsFlat(h, s, 1)
<1>2. IsFlat(g, s, 1)
  BY <1>1
<1>3. Len(s) = 1 /\ s[1] = x
  OBVIOUS
<1>4. FlattenSeq(s) = g[1]
  BY <1>3 DEF FlattenSeq, IsFlat
<1> HIDE DEF g, s
<1>5. g[1] = s[1]
  BY <1>2 DEF IsFlat
<1>6. QED
  BY <1>3, <1>4, <1>5 DEF s

-----------------------------------------------------------------------------
(* Sequences of anything                                                   *)

IsList(s) == s \in Seq(Range(s))
IsLists(p) == IsList(p) /\ \A i \in DOMAIN p : IsList(p[i])

(* A sequence over some set is a sequence. *)
LEMMA SeqIsList ==
  ASSUME NEW S, NEW s \in Seq(S)
  PROVE  IsList(s) /\ Len(s) \in Nat /\ DOMAIN s = 1..Len(s)
BY SeqOfRange, LenProperties DEF IsList

(* Its length is a number, and its domain starts at 1. *)
LEMMA ListLength ==
  ASSUME NEW s, IsList(s)
  PROVE  Len(s) \in Nat /\ DOMAIN s = 1..Len(s)
BY LenProperties DEF IsList

(* A function on the first n numbers is a sequence of length n. *)
LEMMA FunctionIsList ==
  ASSUME NEW n \in Nat, NEW f, DOMAIN f = 1..n, f = [i \in 1..n |-> f[i]]
  PROVE  IsList(f) /\ Len(f) = n
<1>1. f \in [1..n -> Range(f)]
  BY DEF Range
<1>2. f \in Seq(Range(f))
  BY <1>1, SeqDef
<1>3. DOMAIN f = 1..Len(f) /\ Len(f) \in Nat
  BY <1>2, LenProperties
<1>4. QED
  BY <1>2, <1>3 DEF IsList

(* Two sequences of the same length with the same elements are equal. *)
LEMMA SameList ==
  ASSUME NEW s, NEW t, IsList(s), IsList(t), Len(s) = Len(t), \A i \in 1..Len(s) : s[i] = t[i]
  PROVE  s = t
<1> DEFINE S == Range(s) \union Range(t)
<1>1. s \in Seq(S) /\ t \in Seq(S)
  BY SeqMonotonic DEF IsList
<1> HIDE DEF S
<1>2. QED
  BY <1>1, SeqEqual

(* The elements of two sequences, joined, keep their order. *)
LEMMA ListsJoined ==
  ASSUME NEW a, NEW b, IsList(a), IsList(b)
  PROVE  /\ IsList(a \o b)
         /\ Len(a \o b) = Len(a) + Len(b)
         /\ \A i \in 1..Len(a) : (a \o b)[i] = a[i]
         /\ \A i \in 1..Len(b) : (a \o b)[Len(a) + i] = b[i]
<1> DEFINE S == Range(a) \union Range(b)
<1>1. a \in Seq(S) /\ b \in Seq(S)
  BY SeqMonotonic DEF IsList
<1> HIDE DEF S
<1>2. /\ a \o b \in Seq(S)
      /\ Len(a \o b) = Len(a) + Len(b)
      /\ \A i \in 1..(Len(a) + Len(b)) : (a \o b)[i] = IF i <= Len(a) THEN a[i] ELSE b[i - Len(a)]
  BY <1>1, ConcatProperties
<1>3. Len(a) \in Nat /\ Len(b) \in Nat
  BY ListLength
<1>4. \A i \in 1..Len(a) : i \in 1..(Len(a) + Len(b)) /\ i <= Len(a)
  BY <1>3
<1>5. \A i \in 1..Len(b) : /\ Len(a) + i \in 1..(Len(a) + Len(b))
                          /\ ~(Len(a) + i <= Len(a)) /\ (Len(a) + i) - Len(a) = i
  BY <1>3
<1>6. IsList(a \o b)
  BY <1>2, SeqIsList
<1>7. QED
  BY <1>2, <1>4, <1>5, <1>6

(* It does not matter which two of three sequences are joined first. *)
LEMMA ListsJoinedTwice ==
  ASSUME NEW a, NEW b, NEW c, IsList(a), IsList(b), IsList(c)
  PROVE  (a \o b) \o c = a \o (b \o c)
<1> DEFINE S == Range(a) \union Range(b) \union Range(c)
<1>1. a \in Seq(S) /\ b \in Seq(S) /\ c \in Seq(S)
  BY SeqMonotonic DEF IsList
<1> HIDE DEF S
<1>2. QED
  BY <1>1, ConcatAssociative

(* Nothing joined to a sequence leaves it as it is. *)
LEMMA ListsJoinedToEmpty ==
  ASSUME NEW a, IsList(a)
  PROVE  a \o <<>> = a /\ <<>> \o a = a
BY ConcatEmptySeq DEF IsList

(* The sequences of up to three elements that the models write out. *)
LEMMA ShortLists ==
  /\ IsList(<<>>) /\ Len(<<>>) = 0
  /\ \A x : IsList(<<x>>) /\ Len(<<x>>) = 1 /\ <<x>>[1] = x
  /\ \A x, y : /\ IsList(<<x, y>>) /\ Len(<<x, y>>) = 2
               /\ <<x, y>>[1] = x /\ <<x, y>>[2] = y
  /\ \A x, y, z : /\ IsList(<<x, y, z>>) /\ Len(<<x, y, z>>) = 3
                  /\ <<x, y, z>>[1] = x /\ <<x, y, z>>[2] = y /\ <<x, y, z>>[3] = z
<1>1. IsList(<<>>) /\ Len(<<>>) = 0
  <2>1. <<>> \in Seq({})
    BY EmptySeq
  <2>2. QED
    BY <2>1, SeqIsList, EmptySeq
<1>2. ASSUME NEW x PROVE IsList(<<x>>) /\ Len(<<x>>) = 1 /\ <<x>>[1] = x
  <2>1. <<x>> \in Seq({x})
    OBVIOUS
  <2>2. QED
    BY <2>1, SeqIsList
<1>3. ASSUME NEW x, NEW y
      PROVE  IsList(<<x, y>>) /\ Len(<<x, y>>) = 2 /\ <<x, y>>[1] = x /\ <<x, y>>[2] = y
  <2>1. <<x, y>> \in Seq({x, y})
    OBVIOUS
  <2>2. QED
    BY <2>1, SeqIsList
<1>4. ASSUME NEW x, NEW y, NEW z
      PROVE  /\ IsList(<<x, y, z>>) /\ Len(<<x, y, z>>) = 3
             /\ <<x, y, z>>[1] = x /\ <<x, y, z>>[2] = y /\ <<x, y, z>>[3] = z
  <2>1. <<x, y, z>> \in Seq({x, y, z})
    OBVIOUS
  <2>2. QED
    BY <2>1, SeqIsList
<1>5. QED
  BY <1>1, <1>2, <1>3, <1>4

(* A sequence cut in two at m, and put together again. *)
LEMMA CutList ==
  ASSUME NEW s, IsList(s), NEW m \in 0..Len(s)
  PROVE  /\ IsList(SubSeq(s, 1, m)) /\ Len(SubSeq(s, 1, m)) = m
         /\ \A i \in 1..m : SubSeq(s, 1, m)[i] = s[i]
         /\ IsList(SubSeq(s, m + 1, Len(s))) /\ Len(SubSeq(s, m + 1, Len(s))) = Len(s) - m
         /\ SubSeq(s, 1, m) \o SubSeq(s, m + 1, Len(s)) = s
<1> DEFINE n == Len(s)
<1>1. n \in Nat /\ DOMAIN s = 1..n /\ m \in Nat /\ m <= n
  BY ListLength
<1>2. \A i \in 1..n : s[i] \in Range(s)
  BY <1>1 DEF Range
<1>3. /\ SubSeq(s, 1, m) \in Seq(Range(s)) /\ Len(SubSeq(s, 1, m)) = m
      /\ \A i \in 1..m : SubSeq(s, 1, m)[i] = s[i]
  <2>1. \A i \in 1..m : s[i] \in Range(s)
    BY <1>1, <1>2
  <2> HIDE DEF n
  <2>2. /\ SubSeq(s, 1, m) \in Seq(Range(s))
        /\ Len(SubSeq(s, 1, m)) = IF 1 <= m THEN m - 1 + 1 ELSE 0
        /\ \A i \in 1..(m - 1 + 1) : SubSeq(s, 1, m)[i] = s[1 + i - 1]
    BY <1>1, <2>1, SubSeqProperties
  <2>3. \A i \in 1..m : i \in 1..(m - 1 + 1) /\ 1 + i - 1 = i
    BY <1>1
  <2>4. QED
    BY <1>1, <2>2, <2>3
<1>4. SubSeq(s, m + 1, n) \in Seq(Range(s)) /\ Len(SubSeq(s, m + 1, n)) = n - m
  <2>1. \A i \in (m + 1)..n : s[i] \in Range(s)
    BY <1>1, <1>2
  <2> HIDE DEF n
  <2>2. /\ SubSeq(s, m + 1, n) \in Seq(Range(s))
        /\ Len(SubSeq(s, m + 1, n)) = IF m + 1 <= n THEN n - (m + 1) + 1 ELSE 0
    BY <1>1, <2>1, SubSeqProperties
  <2>3. QED
    BY <1>1, <2>2
<1>5. SubSeq(s, 1, m) \o SubSeq(s, m + 1, n) = s
  <2>1. s \in Seq(Range(s)) /\ 1 \in 1..(Len(s) + 1) /\ m \in (1 - 1)..Len(s) /\ Len(s) \in m..Len(s)
    BY <1>1 DEF IsList
  <2>2. SubSeq(s, 1, m) \o SubSeq(s, m + 1, Len(s)) = SubSeq(s, 1, Len(s))
    BY <2>1, ConcatAdjacentSubSeq
  <2>3. QED
    BY <2>1, <2>2, SubSeqFull
<1>6. QED
  BY <1>3, <1>4, <1>5, SeqIsList

(* The first element of a sequence, and the others. *)
LEMMA HeadAndTail ==
  ASSUME NEW s, IsList(s), s # <<>>
  PROVE  /\ Len(s) >= 1 /\ Head(s) = s[1] /\ IsList(Tail(s)) /\ Len(Tail(s)) = Len(s) - 1
         /\ \A i \in 1..(Len(s) - 1) : Tail(s)[i] = s[i + 1]
<1>1. s \in Seq(Range(s))
  BY DEF IsList
<1>2. Len(s) \in Nat \ {0}
  BY <1>1, EmptySeq
<1>3. Tail(s) \in Seq(Range(s)) /\ Len(Tail(s)) = Len(s) - 1
      /\ \A i \in 1..Len(Tail(s)) : Tail(s)[i] = s[i + 1]
  BY <1>1, HeadTailProperties
<1>4. Head(s) = s[1]
  BY <1>1
<1>5. IsList(Tail(s))
  BY <1>3, SeqIsList
<1>6. Len(s) >= 1
  BY <1>2
<1>7. QED
  BY <1>3, <1>4, <1>5, <1>6

(* A sequence with one more element. *)
LEMMA Appended ==
  ASSUME NEW s, IsList(s), NEW x
  PROVE  /\ IsList(Append(s, x)) /\ Len(Append(s, x)) = Len(s) + 1
         /\ \A i \in 1..Len(s) : Append(s, x)[i] = s[i]
         /\ Append(s, x)[Len(s) + 1] = x
<1> DEFINE S == Range(s) \union {x}
<1>1. s \in Seq(S) /\ x \in S
  BY SeqMonotonic DEF IsList
<1> HIDE DEF S
<1>2. /\ Append(s, x) \in Seq(S) /\ Len(Append(s, x)) = Len(s) + 1
      /\ \A i \in 1..Len(s) : Append(s, x)[i] = s[i]
      /\ Append(s, x)[Len(s) + 1] = x
  BY <1>1, AppendProperties
<1>3. IsList(Append(s, x))
  BY <1>2, SeqIsList
<1>4. QED
  BY <1>2, <1>3

-----------------------------------------------------------------------------
(* Where FlattenSeq puts things                                            *)

(* The elements of a list of sequences are of one set. *)
LEMMA ListOfLists ==
  ASSUME NEW p, IsLists(p)
  PROVE  \E S : p \in Seq(Seq(S))
<1> DEFINE S == UNION {Range(p[i]) : i \in DOMAIN p}
<1>1. Len(p) \in Nat /\ DOMAIN p = 1..Len(p) /\ p \in Seq(Range(p))
  BY ListLength DEF IsLists, IsList
<1>2. ASSUME NEW i \in DOMAIN p PROVE p[i] \in Seq(S)
  <2>1. p[i] \in Seq(Range(p[i])) /\ Range(p[i]) \subseteq S
    BY <1>2 DEF IsLists, IsList
  <2> HIDE DEF S
  <2>2. QED
    BY <2>1, SeqMonotonic
<1> HIDE DEF S
<1>3. Range(p) \subseteq Seq(S)
  BY <1>2 DEF Range
<1>4. p \in Seq(Seq(S))
  BY <1>1, <1>3, SeqMonotonic
<1>5. QED
  BY <1>4

(* There is one empty sequence. *)
LEMMA EmptyList ==
  ASSUME NEW s, IsList(s), Len(s) = 0
  PROVE  s = <<>>
<1>1. s \in Seq(Range(s))
  BY DEF IsList
<1>2. s # <<>> => Len(s) \in Nat \ {0}
  BY <1>1, EmptySeq
<1>3. QED
  BY <1>2

(* The sequences of a list, joined, are a sequence. *)
LEMMA FlattenIsList ==
  ASSUME NEW p, IsLists(p)
  PROVE  /\ IsList(FlattenSeq(p))
         /\ Len(p) = 0 => FlattenSeq(p) = <<>>
<1>1. CASE Len(p) = 0
  <2>1. p = <<>>
    BY <1>1, EmptyList DEF IsLists
  <2>2. FlattenSeq(p) = p
    BY <1>1 DEF FlattenSeq
  <2>3. QED
    BY <2>1, <2>2, ShortLists
<1>2. CASE Len(p) # 0
  <2>1. PICK S : p \in Seq(Seq(S))
    BY ListOfLists
  <2>2. PICK f : /\ \A i \in 1..Len(p) : f[i] \in Seq(S)
                 /\ f[Len(p)] = FlattenSeq(p)
    BY <1>2, <2>1, FlattenUnfolds
  <2>3. Len(p) \in 1..Len(p)
    BY <1>2, <2>1, LenProperties
  <2>4. QED
    BY <1>2, <2>2, <2>3, SeqIsList
<1>3. QED
  BY <1>1, <1>2

(* at[i] is the number of elements before the i-th list. *)
ArePlaces(at, p) ==
  /\ at \in [1..(Len(p) + 1) -> Nat]
  /\ at[1] = 0
  /\ \A i \in 1..Len(p) : at[i + 1] = at[i] + Len(p[i])

(* Where each sequence of a list is once they have been joined: after all  *)
(* that precede it.                                                        *)
LEMMA FlatPlaces ==
  ASSUME NEW p, IsLists(p)
  PROVE  \E at : /\ ArePlaces(at, p)
                 /\ Len(FlattenSeq(p)) = at[Len(p) + 1]
                 /\ \A i \in 1..Len(p) : \A j \in 1..Len(p[i]) :
                      /\ at[i] + j \in 1..Len(FlattenSeq(p))
                      /\ FlattenSeq(p)[at[i] + j] = p[i][j]
<1> DEFINE n == Len(p)
<1>1. n \in Nat /\ \A i \in 1..n : IsList(p[i]) /\ Len(p[i]) \in Nat
  BY ListLength DEF IsLists
<1>2. CASE n = 0
  <2> DEFINE at == [i \in 1..1 |-> 0]
  <2>1. FlattenSeq(p) = <<>> /\ Len(<<>>) = 0
    BY <1>2, FlattenIsList
  <2>2. /\ at \in [1..(n + 1) -> Nat] /\ at[1] = 0 /\ at[n + 1] = 0
        /\ \A i : i \notin 1..n
    BY <1>2
  <2> HIDE DEF at
  <2>3. QED
    BY <2>1, <2>2 DEF ArePlaces
<1>3. CASE n # 0
  <2>1. PICK S : p \in Seq(Seq(S))
    BY ListOfLists
  <2>2. PICK f : /\ f[1] = p[1]
                 /\ \A i \in 2..n : f[i] = f[i - 1] \o p[i]
                 /\ \A i \in 1..n : f[i] \in Seq(S)
                 /\ f[n] = FlattenSeq(p)
    BY <1>3, <2>1, FlattenUnfolds
  <2> DEFINE at == [i \in 1..(n + 1) |-> IF i = 1 THEN 0 ELSE Len(f[i - 1])]
             Holds(k) == \A i \in 1..k : \A j \in 1..Len(p[i]) :
                           at[i] + j \in 1..Len(f[k]) /\ f[k][at[i] + j] = p[i][j]
             K == {k \in Nat : k + 1 <= n => Holds(k + 1)}
  <2> HIDE DEF n
  <2>3. n >= 1 /\ n - 1 \in Nat
    BY <1>1, <1>3
  <2>4. \A i \in 1..n : IsList(f[i]) /\ Len(f[i]) \in Nat
    BY <2>2, SeqIsList
  <2>5. at \in [1..(n + 1) -> Nat] /\ at[1] = 0 /\ at[n + 1] = Len(f[n])
    <3>1. 1 \in 1..(n + 1) /\ n + 1 \in 1..(n + 1) /\ n + 1 # 1 /\ (n + 1) - 1 = n
      BY <1>1, <2>3
    <3>2. \A i \in 1..(n + 1) : i # 1 => i - 1 \in 1..n
      BY <1>1
    <3>3. QED
      BY <2>4, <3>1, <3>2
  <2>6. \A i \in 1..n : at[i + 1] = Len(f[i])
    <3>1. \A i \in 1..n : i + 1 \in 1..(n + 1) /\ i + 1 # 1 /\ (i + 1) - 1 = i
      BY <1>1
    <3>2. QED
      BY <3>1
  <2> HIDE DEF at
  <2>7. ASSUME NEW i \in 1..n
        PROVE  at[i + 1] = at[i] + Len(p[i])
    <3>1. CASE i = 1
      BY <1>1, <2>2, <2>5, <2>6, <3>1
    <3>2. CASE i # 1
      <4>1. i \in 2..n /\ i - 1 \in 1..n /\ (i - 1) + 1 = i
        BY <1>1, <3>2
      <4>2. at[i] = Len(f[i - 1]) /\ f[i] = f[i - 1] \o p[i]
        BY <2>2, <2>6, <4>1
      <4>3. Len(f[i]) = Len(f[i - 1]) + Len(p[i])
        BY <1>1, <2>4, <4>1, <4>2, ListsJoined
      <4>4. QED
        BY <2>6, <4>2, <4>3
    <3>3. QED
      BY <3>1, <3>2
  <2>8. ArePlaces(at, p)
    BY <2>5, <2>7 DEF ArePlaces, n
  <2>9. Holds(1)
    <3>1. \A i \in 1..1 : i = 1
      OBVIOUS
    <3>2. Len(f[1]) \in Nat
      BY <2>3, <2>4
    <3>3. ASSUME NEW j \in 1..Len(p[1])
          PROVE  at[1] + j \in 1..Len(f[1]) /\ f[1][at[1] + j] = p[1][j]
      <4>1. at[1] + j = j
        BY <2>2, <2>5, <3>2
      <4>2. QED
        BY <2>2, <4>1
    <3>4. QED
      BY <3>1, <3>3
  <2>10. ASSUME NEW k \in 1..n, k + 1 <= n, Holds(k)
         PROVE  Holds(k + 1)
    <3>1. k + 1 \in 2..n /\ k + 1 \in 1..n /\ (k + 1) - 1 = k
      BY <1>1, <2>10
    <3>2. f[k + 1] = f[k] \o p[k + 1] /\ IsList(f[k]) /\ IsList(p[k + 1])
      BY <1>1, <2>2, <2>4, <3>1
    <3>3. /\ Len(f[k + 1]) = Len(f[k]) + Len(p[k + 1])
          /\ \A j \in 1..Len(f[k]) : f[k + 1][j] = f[k][j]
          /\ \A j \in 1..Len(p[k + 1]) : f[k + 1][Len(f[k]) + j] = p[k + 1][j]
          /\ Len(f[k]) \in Nat /\ Len(p[k + 1]) \in Nat
      <4> DEFINE x == f[k]
                 y == p[k + 1]
                 z == f[k + 1]
      <4>1. z = x \o y /\ IsList(x) /\ IsList(y) /\ Len(x) \in Nat /\ Len(y) \in Nat
        BY <1>1, <2>4, <3>1, <3>2
      <4> HIDE DEF x, y, z
      <4>2. /\ Len(z) = Len(x) + Len(y)
            /\ \A j \in 1..Len(x) : z[j] = x[j]
            /\ \A j \in 1..Len(y) : z[Len(x) + j] = y[j]
        BY <4>1, ListsJoined
      <4>3. QED
        BY <4>1, <4>2 DEF x, y, z
    <3>4. ASSUME NEW i \in 1..(k + 1), NEW j \in 1..Len(p[i])
          PROVE  at[i] + j \in 1..Len(f[k + 1]) /\ f[k + 1][at[i] + j] = p[i][j]
      <4>1. CASE i = k + 1
        <5>1. at[i] = Len(f[k])
          BY <2>6, <4>1
        <5>2. j \in 1..Len(p[k + 1]) /\ p[i][j] = p[k + 1][j]
          BY <4>1
        <5>3. \A a, b \in Nat : \A c \in 1..b : a + c \in 1..(a + b)
          OBVIOUS
        <5>4. at[i] + j \in 1..Len(f[k + 1]) /\ f[k + 1][at[i] + j] = p[i][j]
          <6> DEFINE x == f[k + 1]
                     y == p[k + 1]
                     l == Len(f[k])
          <6>1. /\ Len(x) = l + Len(y) /\ l \in Nat /\ Len(y) \in Nat
                /\ \A c \in 1..Len(y) : x[l + c] = y[c]
                /\ j \in 1..Len(y) /\ p[i][j] = y[j] /\ at[i] = l
            BY <3>3, <5>1, <5>2
          <6> HIDE DEF x, y, l
          <6>2. l + j \in 1..Len(x) /\ x[l + j] = y[j]
            BY <5>3, <6>1
          <6>3. QED
            BY <6>1, <6>2 DEF x
        <5>5. QED
          BY <5>4
      <4>2. CASE i # k + 1
        <5>1. i \in 1..k
          BY <4>2
        <5>2. at[i] + j \in 1..Len(f[k]) /\ f[k][at[i] + j] = p[i][j]
          BY <2>10, <5>1
        <5> DEFINE m == at[i] + j
        <5> HIDE DEF m
        <5>3. m \in 1..Len(f[k]) /\ f[k][m] = p[i][j]
          BY <5>2 DEF m
        <5>4. m \in 1..Len(f[k + 1]) /\ f[k + 1][m] = p[i][j]
          <6> DEFINE x == f[k + 1]
                     y == f[k]
          <6>1. /\ Len(x) = Len(y) + Len(p[k + 1]) /\ Len(y) \in Nat /\ Len(p[k + 1]) \in Nat
                /\ \A c \in 1..Len(y) : x[c] = y[c]
                /\ m \in 1..Len(y) /\ y[m] = p[i][j]
            BY <3>3, <5>3
          <6> HIDE DEF x, y
          <6>2. m \in 1..Len(x) /\ x[m] = y[m]
            BY <6>1
          <6>3. QED
            BY <6>1, <6>2 DEF x
        <5>5. QED
          BY <5>4 DEF m
      <4>3. QED
        BY <4>1, <4>2
    <3>5. QED
      BY <3>4
  <2> HIDE DEF Holds
  <2>11. 0 \in K
    BY <2>9
  <2>12. ASSUME NEW k \in Nat, k \in K PROVE k + 1 \in K
    <3> SUFFICES ASSUME (k + 1) + 1 <= n PROVE Holds((k + 1) + 1)
      OBVIOUS
    <3>1. k + 1 \in 1..n /\ k + 1 <= n
      BY <1>1
    <3>2. Holds(k + 1)
      BY <2>12, <3>1
    <3>3. QED
      BY <2>10, <3>1, <3>2
  <2>13. Holds(n)
    <3> HIDE DEF K
    <3>1. Nat \subseteq K
      BY <2>11, <2>12, InductionOnSets
    <3>2. n - 1 \in K /\ (n - 1) + 1 = n /\ n <= n
      BY <1>1, <2>3, <3>1
    <3>3. QED
      BY <3>2 DEF K
  <2>14. /\ Len(FlattenSeq(p)) = at[n + 1]
         /\ \A i \in 1..n : \A j \in 1..Len(p[i]) :
              at[i] + j \in 1..Len(FlattenSeq(p)) /\ FlattenSeq(p)[at[i] + j] = p[i][j]
    <3>1. f[n] = FlattenSeq(p)
      BY <2>2
    <3>2. QED
      BY <2>5, <2>13, <3>1 DEF Holds
  <2> HIDE DEF at
  <2>15. QED
    BY <2>8, <2>14 DEF n
<1>4. QED
  BY <1>2, <1>3

(* The first list, and then the others. *)
LEMMA FlattenFromHead ==
  ASSUME NEW p, IsLists(p), p # <<>>
  PROVE  IsList(Head(p)) /\ IsLists(Tail(p)) /\ FlattenSeq(p) = Head(p) \o FlattenSeq(Tail(p))
<1> DEFINE n == Len(p)
           q == Tail(p)
<1>1. /\ n \in Nat /\ n >= 1 /\ Head(p) = p[1] /\ IsList(q) /\ Len(q) = n - 1
      /\ \A i \in 1..(n - 1) : q[i] = p[i + 1]
      /\ \A i \in 1..n : IsList(p[i])
  BY ListLength, HeadAndTail DEF IsLists
<1>2. IsLists(q)
  <2>1. DOMAIN q = 1..(n - 1)
    BY <1>1, ListLength
  <2>2. \A i \in 1..(n - 1) : i + 1 \in 1..n
    BY <1>1
  <2>3. \A i \in DOMAIN q : IsList(q[i])
    BY <1>1, <2>1, <2>2
  <2>4. QED
    BY <1>1, <2>3 DEF IsLists
<1>3. IsList(Head(p))
  <2>1. 1 \in 1..n
    BY <1>1
  <2>2. QED
    BY <1>1, <2>1
<1>4. PICK S : p \in Seq(Seq(S))
  BY ListOfLists
<1>5. PICK T : q \in Seq(Seq(T))
  BY <1>2, ListOfLists
<1>6. PICK f : /\ f[1] = p[1]
               /\ \A i \in 2..n : f[i] = f[i - 1] \o p[i]
               /\ f[n] = FlattenSeq(p)
  <2>1. Len(p) # 0
    BY <1>1
  <2>2. QED
    BY <1>4, <2>1, FlattenUnfolds
<1> HIDE DEF n, q
<1>7. CASE n = 1
  <2>1. FlattenSeq(q) = <<>>
    BY <1>1, <1>2, <1>7, FlattenIsList
  <2>2. FlattenSeq(p) = p[1]
    BY <1>6, <1>7
  <2>3. p[1] \o <<>> = p[1]
    BY <1>1, <1>3, ListsJoinedToEmpty
  <2>4. QED
    BY <1>1, <1>2, <1>3, <2>1, <2>2, <2>3 DEF q
<1>8. CASE n # 1
  <2>1. PICK g : /\ g[1] = q[1]
                 /\ \A i \in 2..Len(q) : g[i] = g[i - 1] \o q[i]
                 /\ \A i \in 1..Len(q) : g[i] \in Seq(T)
                 /\ g[Len(q)] = FlattenSeq(q)
    <3>1. Len(q) # 0
      BY <1>1, <1>8
    <3>2. QED
      BY <1>5, <3>1, FlattenUnfolds
  <2> DEFINE Holds(k) == f[k + 1] = p[1] \o g[k]
             K == {k \in Nat : k + 1 <= n - 1 => Holds(k + 1)}
  <2>2. 0 \in K
    <3>1. 2 \in 2..n /\ 2 - 1 = 1 /\ 1 \in 1..(n - 1) /\ 1 + 1 = 2 /\ 0 + 1 = 1
      BY <1>1, <1>8
    <3>2. f[2] = f[2 - 1] \o p[2]
      BY <1>6, <3>1
    <3>3. q[1] = p[1 + 1]
      BY <1>1, <3>1
    <3>4. f[2] = p[1] \o g[1]
      BY <1>6, <2>1, <3>1, <3>2, <3>3
    <3>5. Holds(1)
      BY <3>1, <3>4
    <3>6. QED
      BY <3>1, <3>5
  <2> HIDE DEF Holds
  <2>3. ASSUME NEW k \in Nat, k \in K PROVE k + 1 \in K
    <3> SUFFICES ASSUME (k + 1) + 1 <= n - 1 PROVE Holds((k + 1) + 1)
      OBVIOUS
    <3> DEFINE i == k + 1
    <3>1. f[i + 1] = p[1] \o g[i]
      <4>1. Holds(k + 1)
        BY <1>1, <2>3
      <4>2. QED
        BY <4>1 DEF Holds
    <3>2. /\ i \in 1..(n - 1) /\ i + 1 \in 2..(n - 1) /\ (i + 1) - 1 = i /\ i + 1 \in 1..(n - 1)
          /\ i + 2 \in 2..n /\ (i + 2) - 1 = i + 1 /\ (i + 1) + 1 = i + 2
      BY <1>1
    <3> HIDE DEF i
    <3>3. f[i + 2] = f[i + 1] \o p[i + 2]
      BY <1>6, <3>2
    <3>4. g[i + 1] = g[i] \o q[i + 1]
      BY <1>1, <2>1, <3>2
    <3>5. q[i + 1] = p[i + 2]
      BY <1>1, <3>2
    <3>6. IsList(p[1]) /\ IsList(g[i]) /\ IsList(q[i + 1])
      <4>1. g[i] \in Seq(T)
        BY <1>1, <2>1, <3>2
      <4>2. IsList(q[i + 1])
        <5>1. DOMAIN q = 1..(n - 1)
          BY <1>1, ListLength
        <5>2. QED
          BY <1>2, <3>2, <5>1 DEF IsLists
      <4>3. 1 \in 1..n
        BY <1>1
      <4>4. QED
        BY <1>1, <4>1, <4>2, <4>3, SeqIsList
    <3>7. (p[1] \o g[i]) \o q[i + 1] = p[1] \o (g[i] \o q[i + 1])
      <4> DEFINE x == g[i]
                 y == q[i + 1]
                 z == p[1]
      <4>1. IsList(x) /\ IsList(y) /\ IsList(z)
        BY <3>6
      <4> HIDE DEF x, y, z
      <4>2. (z \o x) \o y = z \o (x \o y)
        BY <4>1, ListsJoinedTwice
      <4>3. QED
        BY <4>2 DEF x, y, z
    <3>8. f[i + 2] = p[1] \o g[i + 1]
      BY <3>1, <3>3, <3>4, <3>5, <3>7
    <3>9. QED
      BY <3>2, <3>8 DEF i, Holds
  <2>4. Holds(n - 1)
    <3>1. n - 2 \in Nat /\ (n - 2) + 1 = n - 1 /\ n - 1 <= n - 1
      BY <1>1, <1>8
    <3>2. n - 2 \in K
      <4> HIDE DEF K
      <4>1. Nat \subseteq K
        BY <2>2, <2>3, InductionOnSets
      <4>2. QED
        BY <3>1, <4>1
    <3>3. QED
      BY <3>1, <3>2
  <2>5. (n - 1) + 1 = n
    BY <1>1
  <2>6. FlattenSeq(p) = p[1] \o FlattenSeq(q)
    BY <1>1, <1>6, <2>1, <2>4, <2>5 DEF Holds
  <2>7. QED
    BY <1>1, <1>2, <1>3, <2>6 DEF q
<1>9. QED
  BY <1>7, <1>8

-----------------------------------------------------------------------------
(* FoldLeft                                                                *)

(* The largest of the first k numbers is k. *)
LEMMA MaxOfFirst ==
  ASSUME NEW n \in Nat, n # 0
  PROVE  1..n # {} /\ Max(1..n) = n /\ (1..n) \ {n} = 1..(n - 1)
<1>1. n \in 1..n /\ \A y \in 1..n : n >= y
  OBVIOUS
<1>2. \A x \in 1..n : (\A y \in 1..n : x >= y) => x = n
  BY <1>1
<1>3. Max(1..n) = n
  BY <1>1, <1>2 DEF Max
<1>4. QED
  BY <1>1, <1>3

(* The largest of some numbers up to n is one of them. *)
LEMMA MaxIsIn ==
  ASSUME NEW n \in Nat, NEW s \in SUBSET (1..n), s # {}
  PROVE  Max(s) \in s
<1> DEFINE T == {n - x : x \in s}
<1>1. T \in SUBSET Nat /\ T # {}
  <2>1. PICK z \in s : TRUE
    OBVIOUS
  <2>2. n - z \in T
    OBVIOUS
  <2>3. \A x \in s : n - x \in Nat
    OBVIOUS
  <2>4. QED
    BY <2>2, <2>3
<1>2. Min(T) \in T /\ \A y \in T : Min(T) <= y
  BY <1>1, MinIsLeast
<1>3. PICK x \in s : Min(T) = n - x
  BY <1>2
<1>4. \A y \in s : n - x <= n - y
  BY <1>2, <1>3
<1>5. \A y \in s : x >= y
  BY <1>4
<1>6. QED
  BY <1>5 DEF Max

(* The recursion of a fold: g takes the value so far and the next index. *)
Folds(f, n, base, g) ==
  f = [s \in SUBSET (1..n) |->
         IF s = {} THEN base ELSE g[<<f[s \ {Max(s)}], Max(s)>>]]

(* The function that a fold over a set of numbers, largest first, defines  *)
(* exists.                                                                 *)
LEMMA FoldExists ==
  ASSUME NEW A, NEW base \in A, NEW n \in Nat, NEW g \in [A \X (1..n) -> A]
  PROVE  \E f \in [SUBSET (1..n) -> A] : Folds(f, n, base, g)
<1> DEFINE Exists(k) == \E f \in [SUBSET (1..k) -> A] : Folds(f, k, base, g)
           K == {k \in Nat : k <= n => Exists(k)}
<1>1. 0 \in K
  <2> DEFINE f == [s \in SUBSET (1..0) |-> base]
  <2>1. \A s \in SUBSET (1..0) : s = {}
    OBVIOUS
  <2>2. f \in [SUBSET (1..0) -> A]
    OBVIOUS
  <2>3. f = [s \in SUBSET (1..0) |-> IF s = {} THEN base ELSE g[<<f[s \ {Max(s)}], Max(s)>>]]
    BY <2>1
  <2>4. Folds(f, 0, base, g)
    BY <2>3 DEF Folds
  <2>5. Exists(0)
    BY <2>2, <2>4
  <2> HIDE DEF Exists
  <2>6. QED
    BY <2>5
<1> HIDE DEF Exists
<1>2. ASSUME NEW k \in Nat, k \in K PROVE k + 1 \in K
  <2> SUFFICES ASSUME k + 1 <= n PROVE Exists(k + 1)
    OBVIOUS
  <2>1. PICK f \in [SUBSET (1..k) -> A] : Folds(f, k, base, g)
    <3>1. Exists(k)
      BY <1>2
    <3>2. QED
      BY <3>1 DEF Exists
  <2> DEFINE m == k + 1
             h == [s \in SUBSET (1..m) |-> IF m \in s THEN g[<<f[s \ {m}], m>>] ELSE f[s]]
  <2>2. /\ m \in 1..n /\ m \notin 1..k
        /\ \A s \in SUBSET (1..m) : /\ m \in s => s \ {m} \in SUBSET (1..k)
                                    /\ m \notin s => s \in SUBSET (1..k)
    OBVIOUS
  <2>3. ASSUME NEW s \in SUBSET (1..m), m \in s PROVE Max(s) = m /\ s # {}
    <3>1. \A y \in s : m >= y
      OBVIOUS
    <3>2. \A x \in s : (\A y \in s : x >= y) => x = m
      BY <2>3
    <3>3. QED
      BY <2>3, <3>1, <3>2 DEF Max
  <2> HIDE DEF m
  <2>4. h \in [SUBSET (1..m) -> A]
    BY <2>2
  <2>5. \A s \in SUBSET (1..k) : s \in SUBSET (1..m) /\ h[s] = f[s]
    <3>1. SUBSET (1..k) \subseteq SUBSET (1..m)
      BY DEF m
    <3>2. QED
      BY <2>2, <3>1
  <2>6. \A s \in SUBSET (1..m) : m \in s => h[s] = g[<<f[s \ {m}], m>>]
    OBVIOUS
  <2> HIDE DEF h
  <2>7. ASSUME NEW s \in SUBSET (1..m)
        PROVE  h[s] = IF s = {} THEN base ELSE g[<<h[s \ {Max(s)}], Max(s)>>]
    <3>1. CASE m \in s
      BY <2>2, <2>3, <2>5, <2>6, <3>1
    <3>2. CASE m \notin s
      <4>1. s \in SUBSET (1..k) /\ s \ {Max(s)} \in SUBSET (1..k)
        BY <2>2, <3>2
      <4>2. f[s] = IF s = {} THEN base ELSE g[<<f[s \ {Max(s)}], Max(s)>>]
        BY <2>1, <4>1 DEF Folds
      <4>3. QED
        BY <2>5, <4>1, <4>2
    <3>3. QED
      BY <3>1, <3>2
  <2>8. h = [s \in SUBSET (1..m) |-> h[s]]
    BY <2>4
  <2>9. h = [s \in SUBSET (1..m) |->
               IF s = {} THEN base ELSE g[<<h[s \ {Max(s)}], Max(s)>>]]
    BY <2>7, <2>8
  <2>10. Folds(h, m, base, g)
    BY <2>9 DEF Folds
  <2>11. QED
    BY <2>4, <2>10 DEF m, Exists
<1>3. n \in K
  <2> HIDE DEF K
  <2>1. QED
    BY <1>1, <1>2, InductionOnSets
<1>4. Exists(n)
  BY <1>3
<1>5. QED
  BY <1>4 DEF Exists

(* The values of a fold one after the other, if f is what the fold is      *)
(* defined by.                                                             *)
Unfolds(f, A, n, base, g) ==
  /\ f[{}] = base
  /\ \A k \in 1..n : f[1..(k - 1)] \in A => f[1..k] = g[<<f[1..(k - 1)], k>>]

IsFoldChain(h, n, base, g) ==
  /\ h[0] = base
  /\ \A k \in 1..n : h[k] = g[<<h[k - 1], k>>]

HasChain(f, A, n, base, g) ==
  \E h \in [0..n -> A] : IsFoldChain(h, n, base, g) /\ h[n] = f[1..n]

(* Its values on the first k numbers follow from each other. *)
LEMMA FoldChain ==
  ASSUME NEW A, NEW base \in A, NEW n \in Nat, NEW g \in [A \X (1..n) -> A], NEW f,
         Unfolds(f, A, n, base, g)
  PROVE  HasChain(f, A, n, base, g)
<1> DEFINE InA(k) == f[1..k] \in A
           K == {k \in Nat : k <= n => InA(k)}
           h == [k \in 0..n |-> f[1..k]]
<1>1. 1..0 = {}
  OBVIOUS
<1>2. InA(0)
  BY <1>1 DEF Unfolds
<1> HIDE DEF InA
<1>3. 0 \in K
  BY <1>2
<1>4. ASSUME NEW k \in Nat, k \in K PROVE k + 1 \in K
  <2> SUFFICES ASSUME k + 1 <= n PROVE InA(k + 1)
    OBVIOUS
  <2>1. f[1..k] \in A
    BY <1>4 DEF InA
  <2>2. k + 1 \in 1..n /\ (k + 1) - 1 = k
    OBVIOUS
  <2>3. f[1..(k + 1)] = g[<<f[1..k], k + 1>>]
    <3>1. f[1..((k + 1) - 1)] \in A => f[1..(k + 1)] = g[<<f[1..((k + 1) - 1)], k + 1>>]
      BY <2>2 DEF Unfolds
    <3>2. QED
      BY <2>1, <2>2, <3>1
  <2>4. QED
    BY <2>1, <2>2, <2>3 DEF InA
<1>5. ASSUME NEW k \in 0..n PROVE f[1..k] \in A
  <2> HIDE DEF K
  <2>1. k \in K
    BY <1>3, <1>4, InductionOnSets
  <2>2. InA(k)
    BY <2>1 DEF K
  <2>3. QED
    BY <2>2 DEF InA
<1>6. h \in [0..n -> A]
  BY <1>5
<1>7. h[0] = base /\ h[n] = f[1..n]
  BY <1>1 DEF Unfolds
<1>8. ASSUME NEW k \in 1..n PROVE h[k] = g[<<h[k - 1], k>>]
  <2>1. k - 1 \in 0..n /\ k \in 0..n
    OBVIOUS
  <2>2. h[k] = f[1..k] /\ h[k - 1] = f[1..(k - 1)]
    BY <2>1
  <2> HIDE DEF h
  <2>3. QED
    BY <1>5, <2>1, <2>2 DEF Unfolds
<1> HIDE DEF h
<1>9. IsFoldChain(h, n, base, g)
  BY <1>7, <1>8 DEF IsFoldChain
<1>10. QED
  BY <1>6, <1>7, <1>9 DEF HasChain

=============================================================================
