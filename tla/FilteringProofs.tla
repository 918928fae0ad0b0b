--------------------------- MODULE FilteringProofs --------------------------
(***************************************************************************)
(* What a filtering loop keeps, for lists of any length: Rounds meets its  *)
(* recursive definition, and Only is the sublist of what is wanted.        *)
(*                                                                         *)
(* The provers cannot instantiate an induction theorem with a predicate.   *)
(* The set of the numbers that have a property can be instantiated, so     *)
(* induction is stated here about sets (UpTo), and derived from the fact   *)
(* that the naturals are well-founded.                                     *)
(***************************************************************************)
EXTENDS Filtering, SequenceTheorems, WellFoundedInduction, TLAPS

Smaller == {ss \in Nat \X Nat : ss[1] < ss[2]}

\* Every set of naturals that is not empty has a least element.
LEMMA Least ==
    ASSUME NEW T \in SUBSET Nat, T # {}
    PROVE  \E x \in T : \A y \in T : x <= y
<1>1. IsWellFoundedOn(Smaller, Nat)
  BY NatLessThanWellFounded DEF OpToRel, Smaller
<1>2. PICK x \in T : \A y \in T : <<y, x>> \notin Smaller
  BY <1>1, WFMin
<1>3. \A y \in T : ~ (y < x)
  BY <1>2 DEF Smaller
<1> QED
  BY <1>3

\* Induction: a set that holds 0 and, below n, the successor of what it holds
\* has all the numbers from 0 to n.
LEMMA UpTo ==
    ASSUME NEW n \in Nat, NEW T, 0 \in T,
           \A m \in 0 .. n : m \in T /\ m < n => m + 1 \in T
    PROVE  \A m \in 0 .. n : m \in T
<1> DEFINE Out == {m \in 0 .. n : m \notin T}
<1> SUFFICES ASSUME Out # {} PROVE FALSE
  OBVIOUS
<1>1. PICK x \in Out : \A y \in Out : x <= y
  <2>1. Out \in SUBSET Nat
    OBVIOUS
  <2> HIDE DEF Out
  <2> QED
    BY <2>1, Least
<1>2. x # 0 /\ x - 1 \in 0 .. n /\ x - 1 \notin Out /\ x - 1 < n
  BY <1>1
<1>3. x - 1 \in T
  BY <1>2
<1>4. (x - 1) + 1 \in T
  BY <1>2, <1>3
<1> QED
  BY <1>1, <1>4
-----------------------------------------------------------------------------
\* One round of the loop.
Round(s, S, k, m) ==
    IF m = 0 THEN <<>>
    ELSE IF s[m] \in S THEN Append(k[m - 1], s[m]) ELSE k[m - 1]

\* k is what the first n rounds keep.
IsRounds(s, S, k, n) == k = [m \in 0 .. n |-> Round(s, S, k, m)]

\* There are such rounds, however many.
LEMMA RoundsExist ==
    ASSUME NEW s, NEW S, NEW n \in Nat
    PROVE  \E k : IsRounds(s, S, k, n)
<1> DEFINE T == {m \in 0 .. n : \E k : IsRounds(s, S, k, m)}
<1>1. 0 \in T
  <2>1. IsRounds(s, S, [m \in 0 .. 0 |-> <<>>], 0)
    BY DEF IsRounds, Round
  <2> QED
    BY <2>1
<1>2. ASSUME NEW m \in 0 .. n, m \in T, m < n PROVE m + 1 \in T
  <2>1. PICK k : IsRounds(s, S, k, m)
    BY <1>2
  <2> DEFINE g == [i \in 0 .. m + 1 |->
                      IF i <= m THEN k[i] ELSE Round(s, S, k, m + 1)]
  <2>2. k = [i \in 0 .. m |-> Round(s, S, k, i)]
    BY <2>1 DEF IsRounds
  <2>3. ASSUME NEW i \in 0 .. m + 1 PROVE g[i] = Round(s, S, g, i)
    <3>1. i # 0 => g[i - 1] = k[i - 1]
      OBVIOUS
    <3>2. Round(s, S, k, i) = Round(s, S, g, i)
      BY <3>1 DEF Round
    <3>3. CASE i <= m
      <4>1. i \in 0 .. m
        BY <3>3
      <4>2. k[i] = Round(s, S, k, i)
        BY <2>2, <4>1
      <4> QED
        BY <3>2, <3>3, <4>2
    <3>4. CASE ~ (i <= m)
      <4>1. i = m + 1
        BY <3>4
      <4> QED
        BY <3>2, <3>4, <4>1
    <3> QED
      BY <3>3, <3>4
  <2>4. IsRounds(s, S, g, m + 1)
    <3> HIDE DEF g
    <3>1. g = [i \in 0 .. m + 1 |-> g[i]]
      BY DEF g
    <3>2. [i \in 0 .. m + 1 |-> g[i]] = [i \in 0 .. m + 1 |-> Round(s, S, g, i)]
      BY <2>3
    <3> QED
      BY <3>1, <3>2 DEF IsRounds
  <2> QED
    BY <2>4, <1>2
<1>3. \A m \in 0 .. n : m \in T
  <2> HIDE DEF T
  <2> QED
    BY <1>1, <1>2, UpTo
<1> QED
  BY <1>3

\* Rounds meets its definition.
LEMMA RoundsDef ==
    ASSUME NEW s, NEW S, Len(s) \in Nat
    PROVE  /\ Rounds(s, S)[0] = <<>>
           /\ \A m \in 1 .. Len(s) :
                 Rounds(s, S)[m] = IF s[m] \in S
                                   THEN Append(Rounds(s, S)[m - 1], s[m])
                                   ELSE Rounds(s, S)[m - 1]
<1>1. PICK k : IsRounds(s, S, k, Len(s))
  BY RoundsExist
<1>2. IsRounds(s, S, Rounds(s, S), Len(s))
  <2>1. Rounds(s, S) = CHOOSE g : IsRounds(s, S, g, Len(s))
    BY DEF Rounds, IsRounds, Round
  <2> QED
    BY <1>1, <2>1
<1> DEFINE r == Rounds(s, S)
<1>3. \A m \in 0 .. Len(s) : r[m] = Round(s, S, r, m)
  <2> HIDE DEF r
  <2> SUFFICES ASSUME NEW m \in 0 .. Len(s) PROVE r[m] = Round(s, S, r, m)
    OBVIOUS
  <2>1. r = [i \in 0 .. Len(s) |-> Round(s, S, r, i)]
    BY <1>2 DEF IsRounds, r
  <2> QED
    BY <2>1
<1> QED
  BY <1>3 DEF Round
-----------------------------------------------------------------------------
\* The elements of a sequence, and whether it has none of them twice.
Elements(s) == {s[i] : i \in 1 .. Len(s)}

NoneTwice(s) == \A i, j \in 1 .. Len(s) : s[i] = s[j] => i = j

\* What is true of k after m rounds over s.
KeptRight(s, S, A, m, k) ==
    /\ k \in Seq(A) /\ Len(k) <= m
    /\ Elements(k) = {s[i] : i \in 1 .. m} \cap S
    /\ NoneTwice(s) => NoneTwice(k)

\* One more element, which was wanted.
LEMMA KeptOneMore ==
    ASSUME NEW A, NEW s \in Seq(A), NEW S, NEW m \in 0 .. Len(s) - 1, NEW k,
           KeptRight(s, S, A, m, k), s[m + 1] \in S
    PROVE  KeptRight(s, S, A, m + 1, Append(k, s[m + 1]))
<1> DEFINE x == s[m + 1]
           l == Append(k, x)
<1>0. k \in Seq(A) /\ Len(k) \in Nat /\ Len(k) <= m /\ x \in A
  BY ElementOfSeq, LenProperties DEF KeptRight
<1>1. /\ l \in Seq(A) /\ Len(l) = Len(k) + 1
      /\ \A i \in 1 .. Len(k) : l[i] = k[i]
      /\ l[Len(k) + 1] = x
  BY <1>0, AppendProperties
<1> HIDE DEF l
<1>2. Elements(l) = Elements(k) \cup {x}
  BY <1>0, <1>1 DEF Elements
<1>3. {s[i] : i \in 1 .. m + 1} = {s[i] : i \in 1 .. m} \cup {x}
  OBVIOUS
<1>4. ASSUME NoneTwice(s) PROVE NoneTwice(l)
  <2>1. x \notin {s[i] : i \in 1 .. m}
    BY <1>4, LenProperties DEF NoneTwice
  <2>2. \A i \in 1 .. Len(k) : k[i] # x
    BY <2>1 DEF KeptRight, Elements
  <2>3. NoneTwice(k)
    BY <1>4 DEF KeptRight
  <2>4. \A i \in 1 .. Len(l) : i \in 1 .. Len(k) \/ i = Len(k) + 1
    BY <1>0, <1>1
  <2> QED
    BY <1>1, <2>2, <2>3, <2>4 DEF NoneTwice
<1> QED
  BY <1>0, <1>1, <1>2, <1>3, <1>4 DEF KeptRight, l

\* After every round the loop has kept what it should.
LEMMA RoundsRight ==
    ASSUME NEW A, NEW s \in Seq(A), NEW S
    PROVE  \A m \in 0 .. Len(s) : KeptRight(s, S, A, m, Rounds(s, S)[m])
<1> DEFINE r == Rounds(s, S)
           T == {m \in 0 .. Len(s) : KeptRight(s, S, A, m, r[m])}
<1>0. Len(s) \in Nat
  BY LenProperties
<1>1. 0 \in T
  <2>1. r[0] = <<>>
    BY <1>0, RoundsDef
  <2>2. KeptRight(s, S, A, 0, <<>>)
    BY EmptySeq DEF KeptRight, Elements, NoneTwice
  <2> QED
    BY <1>0, <2>1, <2>2
<1>2. ASSUME NEW m \in 0 .. Len(s), m \in T, m < Len(s) PROVE m + 1 \in T
  <2>1. /\ m + 1 \in 1 .. Len(s) /\ m \in 0 .. Len(s) - 1
        /\ KeptRight(s, S, A, m, r[m])
    BY <1>0, <1>2
  <2>2. r[m + 1] = IF s[m + 1] \in S THEN Append(r[m], s[m + 1]) ELSE r[m]
    BY <1>0, <2>1, RoundsDef
  <2> HIDE DEF r
  <2>3. CASE s[m + 1] \in S
    <3>1. KeptRight(s, S, A, m + 1, Append(r[m], s[m + 1]))
      BY <2>1, <2>3, KeptOneMore
    <3>2. r[m + 1] = Append(r[m], s[m + 1])
      BY <2>2, <2>3
    <3>3. m + 1 \in 0 .. Len(s)
      BY <1>0, <2>1
    <3> QED
      BY <3>1, <3>2, <3>3, Zenon
  <2>4. CASE s[m + 1] \notin S
    <3>1. {s[i] : i \in 1 .. m + 1} = {s[i] : i \in 1 .. m} \cup {s[m + 1]}
      BY <2>1
    <3>2. Len(r[m]) \in Nat
      BY <2>1, LenProperties DEF KeptRight
    <3> QED
      BY <2>1, <2>2, <2>4, <3>1, <3>2 DEF KeptRight
  <2> QED
    BY <2>1, <2>3, <2>4
<1>3. \A m \in 0 .. Len(s) : m \in T
  <2> HIDE DEF T
  <2> QED
    BY <1>0, <1>1, <1>2, UpTo
<1> QED
  BY <1>3

\* A filtering loop keeps the elements that are wanted and no others, and
\* none of them twice if the list had none twice.
THEOREM OnlyKeepsWanted ==
    ASSUME NEW A, NEW s \in Seq(A), NEW S
    PROVE  /\ Only(s, S) \in Seq(A)
           /\ Len(Only(s, S)) <= Len(s)
           /\ Elements(Only(s, S)) = Elements(s) \cap S
           /\ NoneTwice(s) => NoneTwice(Only(s, S))
<1>1. KeptRight(s, S, A, Len(s), Rounds(s, S)[Len(s)])
  BY RoundsRight, LenProperties
<1> QED
  BY <1>1 DEF Only, KeptRight, Elements
-----------------------------------------------------------------------------
\* Of any two elements of s, the earlier is related to the later.
Rises(s, R) == \A i, j \in 1 .. Len(s) : i < j => <<s[i], s[j]>> \in R

\* One more element, to which all before it are related.
LEMMA RiseOneMore ==
    ASSUME NEW A, NEW k \in Seq(A), NEW x \in A, NEW R, Rises(k, R),
           \A y \in Elements(k) : <<y, x>> \in R
    PROVE  Rises(Append(k, x), R)
<1> DEFINE l == Append(k, x)
<1>1. /\ Len(k) \in Nat /\ Len(l) = Len(k) + 1
      /\ \A i \in 1 .. Len(k) : l[i] = k[i]
      /\ l[Len(k) + 1] = x
  BY AppendProperties, LenProperties
<1> HIDE DEF l
<1> SUFFICES ASSUME NEW i \in 1 .. Len(l), NEW j \in 1 .. Len(l), i < j
             PROVE  <<l[i], l[j]>> \in R
  BY DEF Rises, l
<1>2. i \in 1 .. Len(k) /\ l[i] = k[i] /\ k[i] \in Elements(k)
  BY <1>1 DEF Elements
<1>3. CASE j \in 1 .. Len(k)
  BY <1>1, <1>2, <1>3 DEF Rises
<1>4. CASE j = Len(k) + 1
  BY <1>1, <1>2, <1>4
<1> QED
  BY <1>1, <1>3, <1>4

\* After every round, what was kept is in order.
LEMMA RoundsRise ==
    ASSUME NEW A, NEW s \in Seq(A), NEW S, NEW R, Rises(s, R)
    PROVE  \A m \in 0 .. Len(s) : Rises(Rounds(s, S)[m], R)
<1> DEFINE r == Rounds(s, S)
           T == {m \in 0 .. Len(s) : Rises(r[m], R)}
<1>0. Len(s) \in Nat
  BY LenProperties
<1>1. 0 \in T
  <2>1. r[0] = <<>>
    BY <1>0, RoundsDef
  <2>2. Rises(<<>>, R)
    BY EmptySeq DEF Rises
  <2> QED
    BY <1>0, <2>1, <2>2
<1>2. ASSUME NEW m \in 0 .. Len(s), m \in T, m < Len(s) PROVE m + 1 \in T
  <2>1. /\ m + 1 \in 1 .. Len(s) /\ m + 1 \in 0 .. Len(s)
        /\ KeptRight(s, S, A, m, r[m]) /\ Rises(r[m], R) /\ s[m + 1] \in A
    BY <1>0, <1>2, RoundsRight, ElementOfSeq
  <2>2. r[m + 1] = IF s[m + 1] \in S THEN Append(r[m], s[m + 1]) ELSE r[m]
    BY <1>0, <2>1, RoundsDef
  <2> HIDE DEF r
  <2>3. ASSUME NEW y \in Elements(r[m]) PROVE <<y, s[m + 1]>> \in R
    <3>1. PICK i \in 1 .. m : y = s[i]
      BY <2>1 DEF KeptRight
    <3> QED
      BY <1>0, <2>1, <3>1 DEF Rises
  <2>4. r[m] \in Seq(A)
    BY <2>1 DEF KeptRight
  <2>5. Rises(Append(r[m], s[m + 1]), R)
    BY <2>1, <2>3, <2>4, RiseOneMore
  <2> QED
    BY <2>1, <2>2, <2>5
<1>3. \A m \in 0 .. Len(s) : m \in T
  <2> HIDE DEF T
  <2> QED
    BY <1>0, <1>1, <1>2, UpTo
<1> QED
  BY <1>3

\* A filtering loop leaves what it keeps in the order of the list, whatever
\* the list is ordered by.
THEOREM OnlyKeepsOrder ==
    ASSUME NEW A, NEW s \in Seq(A), NEW S, NEW R, Rises(s, R)
    PROVE  Rises(Only(s, S), R)
BY RoundsRise, LenProperties DEF Only
=============================================================================
