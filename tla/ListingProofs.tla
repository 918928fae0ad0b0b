---------------------------- MODULE ListingProofs ---------------------------
(***************************************************************************)
(* What Listing promises, proved for every host file, list of sources and  *)
(* query: which credentials are listed (ScanExact), each once              *)
(* (OncePerVendor), on which page (PagesTile), by which index a card is    *)
(* fetched (IdxIsPlace), how many there are (CountsAreTotals), and whether *)
(* an address leads back to its page (SameViewAgain).                      *)
(***************************************************************************)
EXTENDS Listing, PagingProofs, PluginConfigProofs, FiniteSetTheorems

-----------------------------------------------------------------------------
(* Lists of lists                                                          *)

\* One round of FlattenSeq.
Joined(ss, f, i) == IF i = 1 THEN ss[i] ELSE f[i - 1] \o ss[i]

IsJoined(ss, f, n) == f = [i \in 1 .. n |-> Joined(ss, f, i)]

\* There are such rounds, however many.
LEMMA JoinedExist ==
    ASSUME NEW ss, NEW n \in Nat
    PROVE  \E f : IsJoined(ss, f, n)
<1> DEFINE T == {m \in 0 .. n : \E f : IsJoined(ss, f, m)}
<1>1. 0 \in T
  <2>1. IsJoined(ss, [i \in 1 .. 0 |-> <<>>], 0)
    BY DEF IsJoined, Joined
  <2> QED
    BY <2>1
<1>2. ASSUME NEW m \in 0 .. n, m \in T, m < n PROVE m + 1 \in T
  <2>1. PICK f : IsJoined(ss, f, m)
    BY <1>2
  <2> DEFINE g == [i \in 1 .. m + 1 |->
                      IF i <= m THEN f[i] ELSE Joined(ss, f, m + 1)]
  <2>2. f = [i \in 1 .. m |-> Joined(ss, f, i)]
    BY <2>1 DEF IsJoined
  <2>3. ASSUME NEW i \in 1 .. m + 1 PROVE g[i] = Joined(ss, g, i)
    <3>1. i # 1 => g[i - 1] = f[i - 1]
      OBVIOUS
    <3>2. Joined(ss, f, i) = Joined(ss, g, i)
      BY <3>1 DEF Joined
    <3>3. CASE i <= m
      <4>1. f[i] = Joined(ss, f, i)
        BY <2>2, <3>3
      <4> QED
        BY <3>2, <3>3, <4>1
    <3>4. CASE ~ (i <= m)
      <4>1. i = m + 1
        BY <3>4
      <4> QED
        BY <3>2, <3>4, <4>1
    <3> QED
      BY <3>3, <3>4
  <2>4. IsJoined(ss, g, m + 1)
    <3> HIDE DEF g
    <3>1. g = [i \in 1 .. m + 1 |-> g[i]]
      BY DEF g
    <3>2. [i \in 1 .. m + 1 |-> g[i]] = [i \in 1 .. m + 1 |-> Joined(ss, g, i)]
      BY <2>3
    <3> QED
      BY <3>1, <3>2 DEF IsJoined
  <2> QED
    BY <2>4, <1>2
<1>3. \A m \in 0 .. n : m \in T
  <2> HIDE DEF T
  <2> QED
    BY <1>1, <1>2, UpTo
<1> QED
  BY <1>3

\* FlattenSeq meets its definition.
LEMMA FlattenDef ==
    ASSUME NEW ss, Len(ss) \in Nat \ {0}
    PROVE  \E f : /\ f[1] = ss[1]
                  /\ \A i \in 2 .. Len(ss) : f[i] = f[i - 1] \o ss[i]
                  /\ FlattenSeq(ss) = f[Len(ss)]
<1>1. PICK k : IsJoined(ss, k, Len(ss))
  BY JoinedExist
<1> DEFINE f == CHOOSE g : IsJoined(ss, g, Len(ss))
<1>2. FlattenSeq(ss) = f[Len(ss)]
  BY DEF FlattenSeq, IsJoined, Joined
<1>3. IsJoined(ss, f, Len(ss))
  BY <1>1
<1> HIDE DEF f
<1>4. \A i \in 1 .. Len(ss) : f[i] = Joined(ss, f, i)
  <2> SUFFICES ASSUME NEW i \in 1 .. Len(ss) PROVE f[i] = Joined(ss, f, i)
    OBVIOUS
  <2>1. f = [j \in 1 .. Len(ss) |-> Joined(ss, f, j)]
    BY <1>3 DEF IsJoined
  <2> QED
    BY <2>1
<1>5. f[1] = ss[1]
  BY <1>4 DEF Joined
<1>6. ASSUME NEW i \in 2 .. Len(ss) PROVE f[i] = f[i - 1] \o ss[i]
  <2>1. i \in 1 .. Len(ss) /\ i # 1
    OBVIOUS
  <2> QED
    BY <1>4, <2>1 DEF Joined
<1> QED
  BY <1>2, <1>5, <1>6, Zenon

\* The places of the first m lists, and where f has what is there.
Spots(ss, m) == {spot \in (1 .. m) \X Nat : spot[2] \in 1 .. Len(ss[spot[1]])}

HeldAt(ss, m, f, w) ==
    /\ \A a \in 1 .. Len(f) : w[a] \in Spots(ss, m) /\ f[a] = ss[w[a][1]][w[a][2]]
    /\ \A a, b \in 1 .. Len(f) : w[a] = w[b] => a = b
    /\ \A spot \in Spots(ss, m) : \E a \in 1 .. Len(f) : w[a] = spot

\* One more list.
LEMMA JoinOneMore ==
    ASSUME NEW A, NEW ss \in Seq(Seq(A)), NEW m \in 1 .. Len(ss) - 1,
           NEW f \in Seq(A), NEW w, HeldAt(ss, m, f, w)
    PROVE  \E v : HeldAt(ss, m + 1, f \o ss[m + 1], v)
<1> DEFINE s == ss[m + 1]
           g == f \o s
           v == [a \in 1 .. Len(f) + Len(s) |->
                    IF a <= Len(f) THEN w[a] ELSE <<m + 1, a - Len(f)>>]
<1>1. Len(ss) \in Nat /\ m \in Nat /\ m + 1 \in 1 .. Len(ss)
  BY LenProperties
<1>2. s \in Seq(A) /\ Len(f) \in Nat /\ Len(s) \in Nat
  BY <1>1, ElementOfSeq, LenProperties
<1>3. /\ Len(g) = Len(f) + Len(s)
      /\ \A a \in 1 .. Len(f) : g[a] = f[a]
      /\ \A a \in 1 .. Len(f) + Len(s) : a > Len(f) => g[a] = s[a - Len(f)]
  BY <1>2, ConcatProperties
<1>4. /\ \A a \in 1 .. Len(f) : v[a] = w[a] /\ v[a] \in Spots(ss, m)
      /\ \A a \in 1 .. Len(f) + Len(s) :
            a > Len(f) => v[a] = <<m + 1, a - Len(f)>> /\ a - Len(f) \in 1 .. Len(s)
  <2>1. ASSUME NEW a \in 1 .. Len(f) PROVE v[a] = w[a] /\ v[a] \in Spots(ss, m)
    <3>1. v[a] = w[a]
      BY <1>2
    <3>2. w[a] \in Spots(ss, m)
      BY DEF HeldAt
    <3> QED
      BY <3>1, <3>2
  <2>2. ASSUME NEW a \in 1 .. Len(f) + Len(s), a > Len(f)
        PROVE  v[a] = <<m + 1, a - Len(f)>> /\ a - Len(f) \in 1 .. Len(s)
    <3>1. v[a] = <<m + 1, a - Len(f)>>
      BY <1>2, <2>2
    <3> HIDE DEF v
    <3>2. a - Len(f) \in 1 .. Len(s)
      BY <1>2, <2>2
    <3> QED
      BY <3>1, <3>2
  <2> QED
    BY <2>1, <2>2
<1>5. /\ Spots(ss, m) \subseteq Spots(ss, m + 1)
      /\ \A spot \in Spots(ss, m) : spot[1] # m + 1
      /\ \A spot \in Spots(ss, m + 1) :
            \/ spot \in Spots(ss, m)
            \/ spot = <<m + 1, spot[2]>> /\ spot[2] \in 1 .. Len(s)
      /\ \A j \in 1 .. Len(s) : <<m + 1, j>> \in Spots(ss, m + 1)
  <2>1. Spots(ss, m) \subseteq Spots(ss, m + 1)
    BY <1>1 DEF Spots
  <2>2. \A spot \in Spots(ss, m) : spot[1] # m + 1
    BY <1>1 DEF Spots
  <2>3. ASSUME NEW spot \in Spots(ss, m + 1)
        PROVE  \/ spot \in Spots(ss, m)
               \/ spot = <<m + 1, spot[2]>> /\ spot[2] \in 1 .. Len(s)
    <3>1. /\ spot[1] \in 1 .. m + 1 /\ spot[2] \in Nat /\ spot = <<spot[1], spot[2]>>
          /\ spot[2] \in 1 .. Len(ss[spot[1]])
      BY DEF Spots
    <3>2. CASE spot[1] = m + 1
      BY <3>1, <3>2
    <3>3. CASE spot[1] \in 1 .. m
      BY <3>1, <3>3 DEF Spots
    <3> QED
      BY <1>1, <3>1, <3>2, <3>3
  <2>4. ASSUME NEW j \in 1 .. Len(s) PROVE <<m + 1, j>> \in Spots(ss, m + 1)
    <3>1. m + 1 \in 1 .. m + 1 /\ j \in Nat
      BY <1>1, <1>2
    <3> QED
      BY <3>1 DEF Spots
  <2> QED
    BY <2>1, <2>2, <2>3, <2>4
<1> HIDE DEF g, v, s
<1>6. ASSUME NEW a \in 1 .. Len(g)
      PROVE  v[a] \in Spots(ss, m + 1) /\ g[a] = ss[v[a][1]][v[a][2]]
  <2>1. CASE a <= Len(f)
    <3>1. a \in 1 .. Len(f)
      BY <1>2, <2>1
    <3>2. f[a] = ss[w[a][1]][w[a][2]]
      BY <3>1 DEF HeldAt
    <3>3. g[a] = f[a] /\ v[a] = w[a] /\ v[a] \in Spots(ss, m + 1)
      BY <1>3, <1>4, <1>5, <3>1
    <3> QED
      BY <3>2, <3>3
  <2>2. CASE a > Len(f)
    <3>1. /\ v[a] = <<m + 1, a - Len(f)>> /\ a - Len(f) \in 1 .. Len(s)
          /\ g[a] = s[a - Len(f)]
      BY <1>3, <1>4, <2>2
    <3> QED
      BY <1>5, <3>1 DEF s
  <2> QED
    BY <1>2, <1>3, <2>1, <2>2
<1>7. ASSUME NEW a \in 1 .. Len(g), NEW b \in 1 .. Len(g), v[a] = v[b]
      PROVE  a = b
  <2>1. CASE a <= Len(f) /\ b <= Len(f)
    <3>1. a \in 1 .. Len(f) /\ b \in 1 .. Len(f)
      BY <1>2, <2>1
    <3>2. w[a] = w[b]
      BY <1>4, <1>7, <3>1
    <3> QED
      BY <3>1, <3>2 DEF HeldAt
  <2>2. CASE a > Len(f) /\ b > Len(f)
    <3>1. <<m + 1, a - Len(f)>> = <<m + 1, b - Len(f)>>
      BY <1>3, <1>4, <1>7, <2>2
    <3>2. a - Len(f) = b - Len(f)
      BY <3>1
    <3> QED
      BY <1>2, <3>2
  <2>3. ASSUME NEW c \in 1 .. Len(g), c > Len(f) PROVE v[c][1] = m + 1
    <3>1. c \in 1 .. Len(f) + Len(s)
      BY <1>3
    <3>2. v[c] = <<m + 1, c - Len(f)>>
      BY <1>4, <2>3, <3>1
    <3> QED
      BY <3>2
  <2>4. ASSUME NEW c \in 1 .. Len(g), c <= Len(f) PROVE v[c][1] # m + 1
    <3>1. c \in 1 .. Len(f)
      BY <1>2, <2>4
    <3>2. v[c] \in Spots(ss, m)
      BY <1>4, <3>1
    <3> QED
      BY <1>5, <3>2
  <2>5. a <= Len(f) <=> b <= Len(f)
    <3> DEFINE l == Len(f)
    <3>1. l \in Nat /\ a \in Int /\ b \in Int
      BY <1>2
    <3>2. ~ (a > l /\ b <= l) /\ ~ (b > l /\ a <= l)
      BY <1>7, <2>3, <2>4
    <3> HIDE DEF l
    <3>3. a <= l <=> b <= l
      BY <3>1, <3>2
    <3> QED
      BY <3>3 DEF l
  <2> QED
    BY <1>2, <1>3, <2>1, <2>2, <2>5
<1>8. ASSUME NEW spot \in Spots(ss, m + 1)
      PROVE  \E a \in 1 .. Len(g) : v[a] = spot
  <2>1. CASE spot \in Spots(ss, m)
    <3>1. PICK a \in 1 .. Len(f) : w[a] = spot
      BY <2>1 DEF HeldAt
    <3>2. v[a] = spot
      BY <1>4, <3>1
    <3>3. a \in 1 .. Len(g)
      BY <1>2, <1>3
    <3> QED
      BY <3>2, <3>3
  <2>2. CASE spot = <<m + 1, spot[2]>> /\ spot[2] \in 1 .. Len(s)
    <3>1. spot[2] + Len(f) \in 1 .. Len(g) /\ spot[2] + Len(f) > Len(f)
      BY <1>2, <1>3, <2>2
    <3>2. v[spot[2] + Len(f)] = <<m + 1, (spot[2] + Len(f)) - Len(f)>>
      BY <1>3, <1>4, <3>1
    <3>3. (spot[2] + Len(f)) - Len(f) = spot[2]
      BY <1>2, <2>2
    <3> QED
      BY <2>2, <3>1, <3>2, <3>3
  <2> QED
    BY <1>5, <2>1, <2>2
<1>9. HeldAt(ss, m + 1, g, v)
  BY <1>6, <1>7, <1>8 DEF HeldAt
<1> QED
  BY <1>9 DEF g, s

\* A flattened list of lists has each place of the lists once.
LEMMA FlattenPlaces ==
    ASSUME NEW A, NEW ss \in Seq(Seq(A))
    PROVE  /\ FlattenSeq(ss) \in Seq(A)
           /\ \E w : HeldAt(ss, Len(ss), FlattenSeq(ss), w)
<1>0. Len(ss) \in Nat /\ \A i \in 1 .. Len(ss) : ss[i] \in Seq(A)
  BY LenProperties, ElementOfSeq
<1>1. CASE Len(ss) = 0
  <2>1. ss = <<>>
    BY <1>1, EmptySeq
  <2>2. FlattenSeq(ss) = <<>> /\ Len(<<>>) = 0
    BY <1>1, <2>1 DEF FlattenSeq
  <2>3. HeldAt(ss, 0, <<>>, <<>>)
    BY <2>2 DEF HeldAt, Spots
  <2> QED
    BY <1>1, <2>2, <2>3, EmptySeq
<1>2. CASE Len(ss) # 0
  <2>1. PICK f : /\ f[1] = ss[1]
                 /\ \A i \in 2 .. Len(ss) : f[i] = f[i - 1] \o ss[i]
                 /\ FlattenSeq(ss) = f[Len(ss)]
    BY <1>0, <1>2, FlattenDef
  <2> DEFINE n == Len(ss) - 1
             T == {m \in 0 .. n : f[m + 1] \in Seq(A)
                                  /\ \E w : HeldAt(ss, m + 1, f[m + 1], w)}
  <2>2. 0 \in T
    <3> DEFINE w == [a \in 1 .. Len(ss[1]) |-> <<1, a>>]
    <3>1. ss[1] \in Seq(A) /\ Len(ss[1]) \in Nat
      BY <1>0, <1>2, LenProperties
    <3>2. HeldAt(ss, 1, ss[1], w)
      <4>1. \A a \in 1 .. Len(ss[1]) : w[a] \in Spots(ss, 1) /\ w[a] = <<1, a>>
        BY <3>1 DEF Spots
      <4>2. \A spot \in Spots(ss, 1) : spot = <<1, spot[2]>> /\ spot[2] \in 1 .. Len(ss[1])
        BY DEF Spots
      <4> HIDE DEF w
      <4> QED
        BY <4>1, <4>2 DEF HeldAt
    <3> HIDE DEF w
    <3>3. 0 + 1 = 1 /\ 0 \in 0 .. n
      BY <1>0, <1>2
    <3> QED
      BY <2>1, <3>1, <3>2, <3>3
  <2>3. ASSUME NEW m \in 0 .. n, m \in T, m < n PROVE m + 1 \in T
    <3>1. /\ m + 1 \in 1 .. Len(ss) - 1 /\ m + 2 \in 2 .. Len(ss)
          /\ (m + 2) - 1 = m + 1 /\ (m + 1) + 1 = m + 2 /\ m + 1 \in 0 .. n
      BY <1>0, <1>2, <2>3
    <3> DEFINE next == m + 2
    <3>2. /\ f[m + 2] = f[m + 1] \o ss[m + 2] /\ ss[m + 2] \in Seq(A)
      <4>1. next \in 2 .. Len(ss) /\ next \in 1 .. Len(ss) /\ next - 1 = m + 1
        BY <1>0, <3>1
      <4> HIDE DEF next
      <4>2. f[next] = f[m + 1] \o ss[next] /\ ss[next] \in Seq(A)
        BY <1>0, <2>1, <4>1
      <4> QED
        BY <4>2 DEF next
    <3>3. PICK w : HeldAt(ss, m + 1, f[m + 1], w)
      BY <2>3
    <3>4. f[m + 1] \in Seq(A)
      BY <2>3
    <3>5. PICK v : HeldAt(ss, (m + 1) + 1, f[m + 1] \o ss[(m + 1) + 1], v)
      BY <3>1, <3>3, <3>4, JoinOneMore
    <3>6. f[m + 2] \in Seq(A)
      BY <3>2, <3>4, ConcatProperties
    <3> QED
      BY <3>1, <3>2, <3>5, <3>6
  <2>4. n \in Nat
    BY <1>0, <1>2
  <2>5. \A m \in 0 .. n : m \in T
    <3> HIDE DEF T, n
    <3> QED
      BY <2>2, <2>3, <2>4, UpTo
  <2>6. n + 1 = Len(ss) /\ n \in 0 .. n
    BY <1>0, <2>4
  <2> QED
    BY <2>1, <2>5, <2>6
<1> QED
  BY <1>1, <1>2
-----------------------------------------------------------------------------
(* Sorting                                                                 *)

\* The entries have ranks, and those of different vendors differ.
Ranked(es) ==
    /\ \A i \in DOMAIN es : VendorRank[es[i].vendor] \in Int /\ TailRank[es[i].key] \in Int
    /\ \A i, j \in DOMAIN es : VendorRank[es[i].vendor] = VendorRank[es[j].vendor]
                                  => es[i].vendor = es[j].vendor

\* The order of the places: what comes no later than i when es is sorted.
Upto(es, i) == {j \in DOMAIN es : \/ EntryLess(es[j], es[i])
                                  \/ j <= i /\ ~ EntryLess(es[i], es[j])}

Sorted(es) == \A i, j \in DOMAIN es : i <= j => ~ EntryLess(es[j], es[i])

\* entryLess is a strict weak order, so that the places are linearly ordered.
LEMMA UptoOrder ==
    ASSUME NEW es, Ranked(es), DOMAIN es \subseteq Int,
           NEW i \in DOMAIN es, NEW j \in DOMAIN es
    PROVE  /\ i \in Upto(es, i)
           /\ j \in Upto(es, i) \/ i \in Upto(es, j)
           /\ j \in Upto(es, i) /\ i \in Upto(es, j) => i = j
           /\ j \in Upto(es, i) => Upto(es, j) \subseteq Upto(es, i)
<1>1. \A k \in DOMAIN es : /\ VendorRank[es[k].vendor] \in Int
                           /\ TailRank[es[k].key] \in Int
  BY DEF Ranked
<1>2. \A k, l \in DOMAIN es :
         EntryLess(es[k], es[l]) <=>
            \/ VendorRank[es[k].vendor] < VendorRank[es[l].vendor]
            \/ /\ VendorRank[es[k].vendor] = VendorRank[es[l].vendor]
               /\ TailRank[es[k].key] < TailRank[es[l].key]
  BY <1>1 DEF EntryLess, Ranked
<1>3. /\ i \in Upto(es, i)
      /\ j \in Upto(es, i) \/ i \in Upto(es, j)
      /\ j \in Upto(es, i) /\ i \in Upto(es, j) => i = j
  BY <1>1, <1>2 DEF Upto
<1>4. ASSUME j \in Upto(es, i), NEW k \in Upto(es, j) PROVE k \in Upto(es, i)
  <2>1. k \in DOMAIN es
    BY DEF Upto
  <2> QED
    BY <1>1, <1>2, <1>4, <2>1 DEF Upto
<1> QED
  BY <1>3, <1>4

\* Sorting permutes the entries.
LEMMA SortPermutes ==
    ASSUME NEW A, NEW es \in Seq(A), Ranked(es)
    PROVE  \E f \in Bijection(DOMAIN es, DOMAIN es) :
              /\ SortStable(es) = [n \in DOMAIN es |-> es[f[n]]]
              /\ \A n \in DOMAIN es : Cardinality(Upto(es, f[n])) = n
<1> DEFINE S == DOMAIN es
           place == [i \in S |-> Cardinality(Upto(es, i))]
           f == [n \in S |-> CHOOSE i \in S : Cardinality(Upto(es, i)) = n]
<1>1. Len(es) \in Nat /\ S = 1 .. Len(es) /\ S \subseteq Int
  BY LenProperties
<1>2. IsFiniteSet(S) /\ Cardinality(S) = Len(es)
  BY <1>1, FS_Interval
<1>3. ASSUME NEW i \in S
      PROVE  /\ Upto(es, i) \in SUBSET S /\ IsFiniteSet(Upto(es, i))
             /\ Cardinality(Upto(es, i)) \in 1 .. Len(es)
  <2>1. Upto(es, i) \in SUBSET S
    BY DEF Upto
  <2>2. /\ IsFiniteSet(Upto(es, i)) /\ Cardinality(Upto(es, i)) <= Len(es)
        /\ Cardinality(Upto(es, i)) \in Nat
    BY <1>2, <2>1, FS_Subset, FS_CardinalityType
  <2>3. i \in Upto(es, i)
    BY <1>1, UptoOrder
  <2>4. Cardinality(Upto(es, i)) # 0
    BY <2>2, <2>3, FS_EmptySet
  <2> QED
    BY <1>1, <2>1, <2>2, <2>4
<1>4. ASSUME NEW i \in S, NEW j \in S, Cardinality(Upto(es, i)) = Cardinality(Upto(es, j))
      PROVE  i = j
  <2>1. ASSUME NEW a \in S, NEW b \in S, a \in Upto(es, b),
               Cardinality(Upto(es, a)) = Cardinality(Upto(es, b))
        PROVE  a = b
    <3>1. Upto(es, a) \in SUBSET Upto(es, b)
      BY <1>1, <2>1, UptoOrder
    <3>2. Upto(es, a) = Upto(es, b)
      BY <1>3, <2>1, <3>1, FS_Subset
    <3> QED
      BY <1>1, <2>1, <3>2, UptoOrder
  <2>2. j \in Upto(es, i) \/ i \in Upto(es, j)
    BY <1>1, UptoOrder
  <2> QED
    BY <1>4, <2>1, <2>2
<1>5. place \in Injection(S, S)
  <2>1. place \in [S -> S]
    BY <1>1, <1>3
  <2> QED
    BY <1>4, <2>1 DEF Injection, IsInjective
<1>6. place \in Surjection(S, S)
  <2> HIDE DEF place, S
  <2> QED
    BY <1>2, <1>5, FS_Injection
<1>7. \A n \in S : \E i \in S : Cardinality(Upto(es, i)) = n
  BY <1>6 DEF Surjection
<1>8. \A n \in S : f[n] \in S /\ Cardinality(Upto(es, f[n])) = n
  BY <1>7
<1>9. SortStable(es) = [n \in DOMAIN es |-> es[f[n]]]
  BY DEF SortStable, Upto
<1>10. f \in [S -> S]
  BY <1>8
<1> HIDE DEF f
<1>11. f \in Injection(S, S)
  BY <1>8, <1>10 DEF Injection, IsInjective
<1>12. \A i \in S : \E n \in S : f[n] = i
  <2> SUFFICES ASSUME NEW i \in S PROVE \E n \in S : f[n] = i
    OBVIOUS
  <2> DEFINE n == Cardinality(Upto(es, i))
  <2>1. n \in S /\ Cardinality(Upto(es, f[n])) = n /\ f[n] \in S
    BY <1>1, <1>3, <1>8
  <2> QED
    BY <1>4, <2>1
<1>13. f \in Surjection(S, S)
  BY <1>10, <1>12 DEF Surjection
<1> QED
  BY <1>8, <1>9, <1>11, <1>13 DEF Bijection

\* ... puts them in order, and loses none.
LEMMA SortSorts ==
    ASSUME NEW A, NEW es \in Seq(A), Ranked(es)
    PROVE  /\ SortStable(es) \in Seq(A) /\ Len(SortStable(es)) = Len(es)
           /\ Ranked(SortStable(es)) /\ Sorted(SortStable(es))
           /\ ToSet(SortStable(es)) = ToSet(es)
<1> DEFINE S == DOMAIN es
           sorted == SortStable(es)
<1>1. PICK f \in Bijection(S, S) : /\ sorted = [n \in S |-> es[f[n]]]
                                   /\ \A n \in S : Cardinality(Upto(es, f[n])) = n
  BY SortPermutes
<1>2. Len(es) \in Nat /\ S = 1 .. Len(es) /\ \A i \in S : es[i] \in A
  BY LenProperties, ElementOfSeq
<1>3. /\ \A n \in S : f[n] \in S
      /\ \A i \in S : \E n \in S : f[n] = i
  BY DEF Bijection, Injection, Surjection
<1>4. /\ DOMAIN sorted = S
      /\ \A n \in S : sorted[n] = es[f[n]]
  BY <1>1
<1>5. sorted \in Seq(A) /\ Len(sorted) = Len(es)
  <2>1. sorted = [n \in DOMAIN es |-> sorted[n]]
    BY <1>1
  <2>2. \A n \in DOMAIN es : sorted[n] \in A
    BY <1>2, <1>3, <1>4
  <2> HIDE DEF sorted
  <2> QED
    BY <2>1, <2>2, OneEach
<1> HIDE DEF sorted
<1>6. ToSet(sorted) = ToSet(es)
  <2>1. ASSUME NEW x \in ToSet(sorted) PROVE x \in ToSet(es)
    <3>1. PICK n \in S : x = sorted[n]
      BY <1>4 DEF ToSet
    <3> QED
      BY <1>3, <1>4, <3>1 DEF ToSet
  <2>2. ASSUME NEW x \in ToSet(es) PROVE x \in ToSet(sorted)
    <3>1. PICK i \in S : x = es[i]
      BY DEF ToSet
    <3>2. PICK n \in S : f[n] = i
      BY <1>3
    <3>3. n \in DOMAIN sorted /\ sorted[n] = x
      BY <1>4, <3>1, <3>2
    <3> QED
      BY <3>3 DEF ToSet
  <2> QED
    BY <2>1, <2>2
<1>7. Ranked(sorted)
  <2> SUFFICES ASSUME NEW a \in S, NEW b \in S
               PROVE  /\ VendorRank[sorted[a].vendor] \in Int
                      /\ TailRank[sorted[a].key] \in Int
                      /\ VendorRank[sorted[a].vendor] = VendorRank[sorted[b].vendor]
                            => sorted[a].vendor = sorted[b].vendor
    BY <1>4 DEF Ranked
  <2> DEFINE i == f[a]
             j == f[b]
  <2>1. i \in S /\ j \in S /\ sorted[a] = es[i] /\ sorted[b] = es[j]
    BY <1>3, <1>4
  <2> HIDE DEF i, j
  <2> QED
    BY <2>1 DEF Ranked
<1>8. Sorted(sorted)
  <2> SUFFICES ASSUME NEW a \in S, NEW b \in S, a <= b,
                      EntryLess(es[f[b]], es[f[a]])
               PROVE  FALSE
    BY <1>4 DEF Sorted
  <2>1. f[a] \in S /\ f[b] \in S /\ f[b] \in Upto(es, f[a])
    BY <1>3 DEF Upto
  <2>2. Upto(es, f[b]) \in SUBSET Upto(es, f[a])
    BY <1>2, <2>1, UptoOrder
  <2>3. IsFiniteSet(S) /\ Upto(es, f[a]) \in SUBSET S
    BY <1>2, FS_Interval DEF Upto
  <2>4. IsFiniteSet(Upto(es, f[a]))
    BY <2>3, FS_Subset
  <2>5. Cardinality(Upto(es, f[b])) <= Cardinality(Upto(es, f[a]))
    BY <2>2, <2>4, FS_Subset
  <2>6. a = b
    BY <1>1, <1>2, <2>5
  <2>7. EntryLess(es[f[a]], es[f[a]]) /\ TailRank[es[f[a]].key] \in Int
    BY <2>1, <2>6 DEF Ranked
  <2> QED
    BY <2>7 DEF EntryLess
<1> QED
  BY <1>5, <1>6, <1>7, <1>8 DEF sorted

\* A list that is in order stays as it is.
LEMMA SortKeeps ==
    ASSUME NEW A, NEW es \in Seq(A), Ranked(es), Sorted(es)
    PROVE  SortStable(es) = es
<1> DEFINE S == DOMAIN es
<1>1. PICK f \in Bijection(S, S) : /\ SortStable(es) = [n \in S |-> es[f[n]]]
                                   /\ \A n \in S : Cardinality(Upto(es, f[n])) = n
  BY SortPermutes
<1>2. Len(es) \in Nat /\ S = 1 .. Len(es) /\ es = [n \in S |-> es[n]]
  BY LenProperties, SeqDef
<1>3. ASSUME NEW i \in S PROVE Cardinality(Upto(es, i)) = i
  <2>1. Upto(es, i) = 1 .. i
    BY <1>2 DEF Upto, Sorted
  <2>2. i \in Int /\ 1 <= i
    BY <1>2
  <2>3. Cardinality(1 .. i) = i
    BY <2>2, FS_Interval
  <2> QED
    BY <2>1, <2>3
<1>4. \A n \in S : f[n] \in S
  BY DEF Bijection, Injection
<1>5. \A n \in S : f[n] = n
  BY <1>1, <1>3, <1>4
<1>6. [n \in S |-> es[f[n]]] = [n \in S |-> es[n]]
  BY <1>5
<1> QED
  BY <1>1, <1>2, <1>6
-----------------------------------------------------------------------------
(* URLs                                                                    *)

IsURL(u) == \E A : u \in Seq(A)

\* As ScanExact has them.
Says(u)  == \E i \in DOMAIN u : u[i] # ""
Parts(u) == {<<i, u[i]>> : i \in {i \in DOMAIN u : \E j \in DOMAIN u : i <= j /\ u[j] # ""}}

\* What is left of a URL when it is normalised are its parts.
LEMMA NormalParts ==
    ASSUME NEW u, IsURL(u)
    PROVE  LET v == NormalizeBaseURL(u)
           IN  /\ IsURL(v) /\ NormalizeBaseURL(v) = v
               /\ Len(v) \in Nat /\ DOMAIN v = 1 .. Len(v)
               /\ Says(u) <=> v # <<>>
               /\ Parts(u) = {<<i, v[i]>> : i \in 1 .. Len(v)}
<1>1. PICK A : u \in Seq(A)
  BY DEF IsURL
<1> DEFINE v == NormalizeBaseURL(u)
           w == NormalizeBaseURL(v)
           n == Len(v)
<1>2. /\ Len(u) \in Nat /\ DOMAIN u = 1 .. Len(u)
      /\ v \in Seq(A) /\ n \in 0 .. Len(u) /\ n \in Nat /\ DOMAIN v = 1 .. n
  BY <1>1, NormalURL, LenProperties
<1>2a. /\ \A i \in 1 .. n : v[i] = u[i]
       /\ \A i \in n + 1 .. Len(u) : u[i] = ""
  BY <1>1, NormalURL
<1>3. /\ w \in Seq(A) /\ Len(w) \in 0 .. n
      /\ \A i \in 1 .. Len(w) : w[i] = v[i]
  BY <1>2, NormalURL
<1>3a. \A i \in Len(w) + 1 .. n : v[i] = ""
  BY <1>2, NormalURL
<1>4. /\ n # 0 => v[n] # ""
      /\ v # <<>> <=> n # 0
  <2>1. v # <<>> => Last(v) # ""
    BY <1>1, NormalURL
  <2> HIDE DEF v
  <2>2. v # <<>> <=> Len(v) # 0
    BY <1>2, EmptySeq
  <2> QED
    BY <2>1, <2>2 DEF Last
<1> HIDE DEF v, w, n
<1>5. w = v
  <2>1. Len(w) = n
    <3> SUFFICES ASSUME Len(w) # n PROVE FALSE
      OBVIOUS
    <3>1. n \in Len(w) + 1 .. n /\ n # 0
      BY <1>2, <1>3
    <3> QED
      BY <1>3a, <1>4, <3>1
  <2>2. Len(w) = Len(v) /\ \A i \in 1 .. Len(w) : w[i] = v[i]
    BY <1>3, <2>1 DEF n
  <2> QED
    BY <1>2, <1>3, <2>2, SeqEqual
<1>6. Says(u) <=> n # 0
  <2>1. ASSUME n # 0 PROVE Says(u)
    <3>1. n \in 1 .. Len(u) /\ n \in 1 .. n
      BY <1>2, <2>1
    <3>2. u[n] # "" /\ n \in DOMAIN u
      BY <1>2, <1>2a, <1>4, <2>1, <3>1
    <3> QED
      BY <3>2 DEF Says
  <2>2. ASSUME n = 0, Says(u) PROVE FALSE
    <3>1. PICK i \in DOMAIN u : u[i] # ""
      BY <2>2 DEF Says
    <3>2. i \in n + 1 .. Len(u)
      BY <1>2, <2>2
    <3> QED
      BY <1>2a, <3>1, <3>2
  <2> QED
    BY <2>1, <2>2
<1>7. {i \in DOMAIN u : \E j \in DOMAIN u : i <= j /\ u[j] # ""} = 1 .. n
  <2>1. ASSUME NEW i \in DOMAIN u, NEW j \in DOMAIN u, i <= j, u[j] # ""
        PROVE  i \in 1 .. n
    <3>0. i <= j
      BY <2>1
    <3>1. j \notin n + 1 .. Len(u)
      BY <1>2a, <2>1
    <3>2. i \in 1 .. Len(u) /\ j \in 1 .. Len(u)
      BY <1>2
    <3> QED
      BY <1>2, <3>0, <3>1, <3>2
  <2>2. ASSUME NEW i \in 1 .. n
        PROVE  i \in DOMAIN u /\ \E j \in DOMAIN u : i <= j /\ u[j] # ""
    <3>1. n # 0 /\ n \in 1 .. n /\ n \in 1 .. Len(u) /\ i \in 1 .. Len(u) /\ i <= n
      BY <1>2
    <3>2. u[n] # ""
      BY <1>2a, <1>4, <3>1
    <3> QED
      BY <1>2, <3>1, <3>2
  <2> QED
    BY <2>1, <2>2
<1>8. Parts(u) = {<<i, v[i]>> : i \in 1 .. n}
  <2>1. Parts(u) = {<<i, u[i]>> : i \in 1 .. n}
    BY <1>7, Zenon DEF Parts
  <2>2. {<<i, u[i]>> : i \in 1 .. n} = {<<i, v[i]>> : i \in 1 .. n}
    BY <1>2a
  <2> QED
    BY <2>1, <2>2
<1>9. IsURL(v)
  BY <1>2 DEF IsURL
<1> QED
  BY <1>2, <1>4, <1>5, <1>6, <1>8, <1>9 DEF v, w, n

\* A URL lies at or under a pattern if it has the parts of it.
LEMMA PrefixParts ==
    ASSUME NEW p, NEW v, IsURL(p), IsURL(v)
    PROVE  IsPrefix(p, v) <=> {<<i, p[i]>> : i \in 1 .. Len(p)}
                                  \subseteq {<<i, v[i]>> : i \in 1 .. Len(v)}
<1>1. PICK A, B : p \in Seq(A) /\ v \in Seq(B)
  BY DEF IsURL
<1>2. Len(p) \in Nat /\ Len(v) \in Nat
  BY <1>1, LenProperties
<1>3. /\ \A i \in 1 .. Len(p) : p[i] \in A
      /\ \A i \in 1 .. Len(v) : v[i] \in B
  BY <1>1, ElementOfSeq
<1>4. ASSUME Len(p) <= Len(v)
      PROVE  SubSeq(p, 1, Len(p)) = SubSeq(v, 1, Len(p)) <=>
                \A i \in 1 .. Len(p) : p[i] = v[i]
  <2> DEFINE a == SubSeq(p, 1, Len(p))
             b == SubSeq(v, 1, Len(p))
  <2>1. a = p
    BY <1>1, SubSeqFull
  <2>2. \A i \in 1 .. Len(p) : v[i] \in B
    BY <1>2, <1>3, <1>4
  <2>3. b \in Seq(B) /\ Len(b) = Len(p) /\ \A i \in 1 .. Len(p) : b[i] = v[i]
    BY <1>2, <2>2, SubSeqProperties
  <2> HIDE DEF a, b
  <2>4. a = b <=> \A i \in 1 .. Len(p) : p[i] = b[i]
    <3>1. ASSUME \A i \in 1 .. Len(p) : p[i] = b[i] PROVE p = b
      BY <1>1, <2>3, <3>1, SeqEqual
    <3> QED
      BY <2>1, <3>1
  <2> QED
    BY <2>3, <2>4 DEF a, b
<1> DEFINE P == {<<i, p[i]>> : i \in 1 .. Len(p)}
           V == {<<i, v[i]>> : i \in 1 .. Len(v)}
<1>5. P \subseteq V <=> \A i \in 1 .. Len(p) : i \in 1 .. Len(v) /\ p[i] = v[i]
  <2>1. ASSUME P \subseteq V, NEW i \in 1 .. Len(p)
        PROVE  i \in 1 .. Len(v) /\ p[i] = v[i]
    <3>1. <<i, p[i]>> \in V
      BY <2>1
    <3>2. PICK j \in 1 .. Len(v) : <<i, p[i]>> = <<j, v[j]>>
      BY <3>1
    <3> QED
      BY <3>2
  <2> QED
    BY <2>1
<1>6. (\A i \in 1 .. Len(p) : i \in 1 .. Len(v)) <=> Len(p) <= Len(v)
  BY <1>2
<1> HIDE DEF P, V
<1>7. IsPrefix(p, v) <=> Len(p) <= Len(v) /\ \A i \in 1 .. Len(p) : p[i] = v[i]
  BY <1>4 DEF IsPrefix
<1> QED
  BY <1>5, <1>6, <1>7 DEF P, V

\* A pattern that says something covers a URL if the URL has its parts.
LEMMA MatchParts ==
    ASSUME NEW u, IsURL(u), NEW patterns, \A i \in DOMAIN patterns : IsURL(patterns[i])
    PROVE  MatchBaseURL(u, patterns) <=>
              \E i \in DOMAIN patterns :
                 Says(patterns[i]) /\ Parts(patterns[i]) \subseteq Parts(u)
<1> SUFFICES ASSUME NEW i \in DOMAIN patterns
             PROVE  (/\ NormalizeBaseURL(patterns[i]) # <<>>
                     /\ IsPrefix(NormalizeBaseURL(patterns[i]), NormalizeBaseURL(u)))
                    <=> Says(patterns[i]) /\ Parts(patterns[i]) \subseteq Parts(u)
  BY Zenon DEF MatchBaseURL
<1> DEFINE p == NormalizeBaseURL(patterns[i])
           v == NormalizeBaseURL(u)
<1>1. /\ IsURL(p) /\ (Says(patterns[i]) <=> p # <<>>)
      /\ Parts(patterns[i]) = {<<n, p[n]>> : n \in 1 .. Len(p)}
  BY NormalParts
<1>2. IsURL(v) /\ Parts(u) = {<<n, v[n]>> : n \in 1 .. Len(v)}
  BY NormalParts
<1> HIDE DEF p, v
<1>3. IsPrefix(p, v) <=> Parts(patterns[i]) \subseteq Parts(u)
  <2>1. IsPrefix(p, v) <=> {<<n, p[n]>> : n \in 1 .. Len(p)}
                               \subseteq {<<n, v[n]>> : n \in 1 .. Len(v)}
    BY <1>1, <1>2, PrefixParts
  <2> QED
    BY <1>1, <1>2, <2>1
<1> QED
  BY <1>1, <1>3 DEF p, v

\* Of a key's own URL, its provider's and its section's, the one it is used
\* with.
FirstOf(urls) ==
    FirstURL(NormalizeBaseURL(urls[1]), FirstURL(NormalizeBaseURL(urls[2]), urls[3]))

\* It is the first that says something which has to match.
LEMMA MatchCovers ==
    ASSUME NEW src, Written(src), NEW urls, \A n \in 1 .. 3 : IsURL(urls[n])
    PROVE  MatchBaseURL(FirstOf(urls), src.patterns) <=> Covers(src, urls)
<1> DEFINE Match(n) == \E i \in DOMAIN src.patterns :
                          /\ Says(src.patterns[i])
                          /\ Parts(src.patterns[i]) \subseteq Parts(urls[n])
           first == FirstOf(urls)
<1>1. Covers(src, urls) <=>
         \E n \in 1 .. 3 : /\ Says(urls[n]) /\ \A m \in 1 .. n - 1 : ~ Says(urls[m])
                           /\ Match(n)
  BY Zenon DEF Covers, Says, Parts
<1>2. \A i \in DOMAIN src.patterns : IsURL(src.patterns[i])
  BY LenProperties, ElementOfSeq DEF Written, IsURL
<1>3. \A n \in 1 .. 3 : /\ Says(urls[n]) <=> NormalizeBaseURL(urls[n]) # <<>>
                        /\ IsURL(NormalizeBaseURL(urls[n]))
                        /\ Parts(NormalizeBaseURL(urls[n])) = Parts(urls[n])
  <2> SUFFICES ASSUME NEW n \in 1 .. 3
               PROVE  /\ Says(urls[n]) <=> NormalizeBaseURL(urls[n]) # <<>>
                      /\ IsURL(NormalizeBaseURL(urls[n]))
                      /\ Parts(NormalizeBaseURL(urls[n])) = Parts(urls[n])
    OBVIOUS
  <2> DEFINE v == NormalizeBaseURL(urls[n])
  <2>1. /\ IsURL(urls[n]) /\ IsURL(v) /\ NormalizeBaseURL(v) = v
        /\ Says(urls[n]) <=> v # <<>>
        /\ Parts(urls[n]) = {<<i, v[i]>> : i \in 1 .. Len(v)}
    BY NormalParts
  <2> HIDE DEF v
  <2>2. Parts(v) = {<<i, v[i]>> : i \in 1 .. Len(v)}
    BY <2>1, NormalParts
  <2> QED
    BY <2>1, <2>2 DEF v
<1>4. /\ \A n \in 1 .. 0 : FALSE
      /\ \A n \in 1 .. 3 : n = 1 \/ n = 2 \/ n = 3
      /\ 1 - 1 = 0 /\ 2 - 1 = 1 /\ 3 - 1 = 2
      /\ 1 .. 1 = {1} /\ 1 .. 2 = {1, 2} /\ 1 .. 3 = {1, 2, 3}
  OBVIOUS
<1>5. \A n \in 1 .. 3 : ~ Says(urls[n]) => ~ Match(n)
  <2> SUFFICES ASSUME NEW n \in 1 .. 3, ~ Says(urls[n]),
                      NEW i \in DOMAIN src.patterns, Says(src.patterns[i]),
                      Parts(src.patterns[i]) \subseteq Parts(urls[n])
               PROVE  FALSE
    BY Zenon
  <2>1. Parts(urls[n]) = {}
    BY DEF Says, Parts
  <2>2. PICK k \in DOMAIN src.patterns[i] : src.patterns[i][k] # ""
    BY DEF Says
  <2>3. k <= k
    <3>1. PICK A : src.patterns[i] \in Seq(A)
      BY <1>2 DEF IsURL
    <3>2. /\ Len(src.patterns[i]) \in Nat
          /\ DOMAIN src.patterns[i] = 1 .. Len(src.patterns[i])
      BY <3>1, LenProperties
    <3>3. k \in 1 .. Len(src.patterns[i])
      BY <3>2
    <3>4. k \in Int
      BY <3>2, <3>3
    <3> QED
      BY <3>4
  <2>4. <<k, src.patterns[i][k]>> \in Parts(src.patterns[i])
    BY <2>2, <2>3 DEF Parts
  <2> QED
    BY <2>1, <2>4
<1>6. Covers(src, urls) <=>
         \/ Says(urls[1]) /\ Match(1)
         \/ ~ Says(urls[1]) /\ Says(urls[2]) /\ Match(2)
         \/ ~ Says(urls[1]) /\ ~ Says(urls[2]) /\ Match(3)
  <2> HIDE DEF Match
  <2> QED
    BY <1>1, <1>4, <1>5
<1>7. \E n \in 1 .. 3 :
         /\ IsURL(first) /\ Parts(first) = Parts(urls[n])
         /\ \/ n = 1 /\ Says(urls[1])
            \/ n = 2 /\ ~ Says(urls[1]) /\ Says(urls[2])
            \/ n = 3 /\ ~ Says(urls[1]) /\ ~ Says(urls[2])
  <2> DEFINE Norm(n) == NormalizeBaseURL(urls[n])
  <2>1. CASE Says(urls[1])
    <3>1. first = Norm(1)
      BY <1>3, <1>4, <2>1, Zenon DEF FirstOf, FirstURL
    <3> QED
      BY <1>3, <2>1, <3>1
  <2>2. CASE ~ Says(urls[1]) /\ Says(urls[2])
    <3>1. first = Norm(2)
      BY <1>3, <1>4, <2>2, Zenon DEF FirstOf, FirstURL
    <3> QED
      BY <1>3, <2>2, <3>1
  <2>3. CASE ~ Says(urls[1]) /\ ~ Says(urls[2])
    <3>1. first = urls[3]
      BY <1>3, <1>4, <2>3, Zenon DEF FirstOf, FirstURL
    <3> QED
      BY <2>3, <3>1
  <2> QED
    BY <2>1, <2>2, <2>3
<1> HIDE DEF first
<1>8. \A n \in 1 .. 3 : IsURL(first) /\ Parts(first) = Parts(urls[n]) =>
         (MatchBaseURL(first, src.patterns) <=> Match(n))
  BY <1>2, MatchParts, Zenon
<1> HIDE DEF Match
<1> QED
  BY <1>6, <1>7, <1>8 DEF first
-----------------------------------------------------------------------------
(* Scanning                                                                *)

LEMMA SameSet ==
    ASSUME NEW A, NEW s \in Seq(A)
    PROVE  /\ ToSet(s) = Elements(s) /\ ToSet(s) \subseteq A
           /\ Len(s) \in Nat /\ DOMAIN s = 1 .. Len(s)
           /\ \A i \in DOMAIN s : s[i] \in A
  BY LenProperties, ElementOfSeq DEF ToSet, Elements

\* What is in the lists is in the flattened list.
LEMMA FlattenUnion ==
    ASSUME NEW A, NEW ss \in Seq(Seq(A))
    PROVE  ToSet(FlattenSeq(ss)) = UNION {ToSet(ss[i]) : i \in DOMAIN ss}
<1> DEFINE f == FlattenSeq(ss)
<1>1. f \in Seq(A)
  BY FlattenPlaces
<1>2. PICK w : HeldAt(ss, Len(ss), f, w)
  BY FlattenPlaces
<1> HIDE DEF f
<1>3. DOMAIN ss = 1 .. Len(ss) /\ \A i \in DOMAIN ss : ss[i] \in Seq(A)
  BY SameSet
<1>4. \A i \in DOMAIN ss : Len(ss[i]) \in Nat /\ DOMAIN ss[i] = 1 .. Len(ss[i])
  BY <1>3, SameSet
<1>5. DOMAIN f = 1 .. Len(f)
  BY <1>1, SameSet
<1>6. ASSUME NEW x \in ToSet(f) PROVE \E i \in DOMAIN ss : x \in ToSet(ss[i])
  <2>1. PICK a \in 1 .. Len(f) : x = f[a]
    BY <1>5 DEF ToSet
  <2>2. w[a] \in Spots(ss, Len(ss)) /\ f[a] = ss[w[a][1]][w[a][2]]
    BY <1>2 DEF HeldAt
  <2>3. w[a][1] \in DOMAIN ss /\ w[a][2] \in 1 .. Len(ss[w[a][1]])
    BY <1>3, <2>2 DEF Spots
  <2>4. w[a][2] \in DOMAIN ss[w[a][1]]
    BY <1>4, <2>3
  <2> QED
    BY <2>1, <2>2, <2>3, <2>4 DEF ToSet
<1>7. ASSUME NEW i \in DOMAIN ss, NEW x \in ToSet(ss[i]) PROVE x \in ToSet(f)
  <2>1. PICK j \in DOMAIN ss[i] : x = ss[i][j]
    BY DEF ToSet
  <2>2. <<i, j>> \in Spots(ss, Len(ss))
    BY <1>3, <1>4, <2>1 DEF Spots
  <2>3. PICK a \in 1 .. Len(f) : w[a] = <<i, j>>
    BY <1>2, <2>2 DEF HeldAt
  <2>4. f[a] = ss[w[a][1]][w[a][2]]
    BY <1>2 DEF HeldAt
  <2>5. a \in DOMAIN f /\ f[a] = x
    BY <1>5, <2>1, <2>3, <2>4
  <2> QED
    BY <2>5 DEF ToSet
<1> QED
  BY <1>6, <1>7 DEF f

LEMMA JoinedSet ==
    ASSUME NEW A, NEW s \in Seq(A), NEW t \in Seq(A)
    PROVE  s \o t \in Seq(A) /\ ToSet(s \o t) = ToSet(s) \cup ToSet(t)
<1> DEFINE l == s \o t
<1>1. Len(s) \in Nat /\ DOMAIN s = 1 .. Len(s) /\ Len(t) \in Nat /\ DOMAIN t = 1 .. Len(t)
  BY LenProperties
<1>2. l \in Seq(A) /\ DOMAIN l = 1 .. Len(s) + Len(t)
      /\ \A i \in 1 .. Len(s) + Len(t) : l[i] = IF i <= Len(s) THEN s[i] ELSE t[i - Len(s)]
  BY ConcatProperties, LenProperties
<1> HIDE DEF l
<1>3. ASSUME NEW i \in DOMAIN l PROVE l[i] \in ToSet(s) \cup ToSet(t)
  <2>1. CASE i <= Len(s)
    <3>1. i \in DOMAIN s /\ l[i] = s[i]
      BY <1>1, <1>2, <2>1
    <3> QED
      BY <3>1 DEF ToSet
  <2>2. CASE ~ (i <= Len(s))
    <3>1. i - Len(s) \in DOMAIN t /\ l[i] = t[i - Len(s)]
      BY <1>1, <1>2, <2>2
    <3> QED
      BY <3>1 DEF ToSet
  <2> QED
    BY <2>1, <2>2
<1>4. ASSUME NEW i \in DOMAIN s PROVE s[i] \in ToSet(l)
  <2>1. i \in DOMAIN l /\ l[i] = s[i]
    BY <1>1, <1>2
  <2> QED
    BY <2>1 DEF ToSet
<1>5. ASSUME NEW i \in DOMAIN t PROVE t[i] \in ToSet(l)
  <2> DEFINE j == i + Len(s)
  <2>1. j \in DOMAIN l /\ ~ (j <= Len(s)) /\ j - Len(s) = i
    BY <1>1, <1>2
  <2> HIDE DEF j
  <2>2. l[j] = t[i]
    BY <1>2, <2>1
  <2> QED
    BY <2>1, <2>2 DEF ToSet
<1>6. ToSet(l) = ToSet(s) \cup ToSet(t)
  BY <1>3, <1>4, <1>5 DEF ToSet
<1> QED
  BY <1>2, <1>6 DEF l

Types == ToSet(Sections) \cup {Compat}
Item  == [type : Types, key : DOMAIN TailRank, base : Seq(STRING)]

\* The item of a credential that is in use.
ItemOf(c) == [type |-> c.type, key |-> c.key, base |-> FirstOf(c.urls)]

Use(section, k, providers) ==
    [type |-> section, key |-> k.key,
     urls |-> <<k.base, providers, DefaultBase[section]>>]

LEMMA CollectRight ==
    ASSUME NEW section \in Types, NEW providers \in Seq(STRING),
           NEW keys \in Seq(Credential), NEW honored \in BOOLEAN
    PROVE  /\ Collect(section, providers, keys, honored) \in Seq(Item)
           /\ ToSet(Collect(section, providers, keys, honored)) =
                 {ItemOf(Use(section, k, providers)) :
                     k \in {k \in ToSet(keys) : k.key # NoKey
                                                /\ ~ (honored /\ k.excluded)}}
<1> DEFINE wanted == {k \in ToSet(keys) : k.key # NoKey /\ ~ (honored /\ k.excluded)}
           kept == Only(keys, wanted)
           got == Collect(section, providers, keys, honored)
           New(k) == [type |-> section, key |-> k.key,
                      base |-> EffectiveBase(section, k.base, providers)]
<1>1. ToSet(keys) \subseteq Credential /\ ToSet(keys) = Elements(keys)
  BY SameSet
<1>2. kept \in Seq(Credential) /\ Elements(kept) = Elements(keys) \cap wanted
  BY OnlyKeepsWanted
<1>3. ToSet(kept) = wanted
  <2>1. wanted \subseteq ToSet(keys)
    OBVIOUS
  <2> HIDE DEF kept, wanted
  <2>2. ToSet(kept) = Elements(kept)
    BY <1>2, SameSet
  <2> QED
    BY <1>1, <1>2, <2>1, <2>2
<1>4. ASSUME NEW k \in wanted PROVE New(k) = ItemOf(Use(section, k, providers))
  BY DEF ItemOf, Use, EffectiveBase, FirstOf
<1>5. ASSUME NEW k \in wanted PROVE New(k) \in Item
  <2>1. k.base \in Seq(STRING) /\ k.key \in DOMAIN TailRank
    BY <1>1 DEF Credential
  <2>2. DefaultBase[section] \in Seq(STRING)
    BY ListingAssumption DEF Types
  <2>3. EffectiveBase(section, k.base, providers) \in Seq(STRING)
    BY <2>1, <2>2, NormalURL DEF EffectiveBase, FirstURL
  <2> QED
    BY <2>1, <2>3 DEF Item
<1>6. got = [i \in DOMAIN kept |-> New(kept[i])]
  BY DEF Collect
<1>7. \A i \in DOMAIN kept : kept[i] \in wanted
  BY <1>3 DEF ToSet
<1> HIDE DEF got, kept, wanted, New
<1>8. DOMAIN got = DOMAIN kept /\ \A i \in DOMAIN kept : got[i] = New(kept[i])
  BY <1>6
<1>9. got \in Seq(Item)
  <2>1. got = [i \in DOMAIN kept |-> got[i]]
    BY <1>6, <1>8
  <2>2. \A i \in DOMAIN kept : got[i] \in Item
    BY <1>5, <1>7, <1>8
  <2> QED
    BY <1>2, <2>1, <2>2, OneEach
<1>10. ToSet(got) = {New(k) : k \in wanted}
  BY <1>3, <1>8 DEF ToSet
<1>11. {New(k) : k \in wanted} = {ItemOf(Use(section, k, providers)) : k \in wanted}
  BY <1>4
<1> QED
  BY <1>9, <1>10, <1>11 DEF got, wanted

\* The items are those of the credentials in use.
LEMMA ItemsRight ==
    ASSUME NEW f \in HostFiles
    PROVE  Items(f) \in Seq(Item) /\ ToSet(Items(f)) = {ItemOf(c) : c \in Live(f)}
<1> DEFINE enabled == Only(f.providers, {p \in ToSet(f.providers) : ~ p.disabled})
           as == [i \in DOMAIN Sections |->
                     Collect(Sections[i], <<>>, f.lists[Sections[i]], TRUE)]
           bs == [i \in DOMAIN enabled |->
                     Collect(Compat, enabled[i].base, enabled[i].keys, FALSE)]
           Provider == [base : Seq(STRING), disabled : BOOLEAN, keys : Seq(Credential)]
           Listed(s) == {k \in ToSet(f.lists[s]) : k.key # NoKey /\ ~ k.excluded}
           Provided(p) == {k \in ToSet(p.keys) : k.key # NoKey}
           InSections == UNION {{Use(s, k, <<>>) : k \in Listed(s)} : s \in ToSet(Sections)}
           InProviders == UNION {{Use(Compat, k, p.base) : k \in Provided(p)} :
                                 p \in {p \in ToSet(f.providers) : ~ p.disabled}}
<1>1. /\ f.lists \in [ToSet(Sections) -> Seq(Credential)]
      /\ f.providers \in Seq(Provider)
      /\ Sections \in Seq(ToSet(Sections))
  BY ListingAssumption
<1>2. as \in Seq(Seq(Item)) /\ DOMAIN as = DOMAIN Sections
      /\ \A i \in DOMAIN as :
            ToSet(as[i]) = {ItemOf(Use(Sections[i], k, <<>>)) : k \in Listed(Sections[i])}
  <2>1. \A i \in DOMAIN Sections :
           Sections[i] \in Types /\ f.lists[Sections[i]] \in Seq(Credential)
    BY <1>1 DEF ToSet, Types
  <2>2. <<>> \in Seq(STRING)
    OBVIOUS
  <2>3. ASSUME NEW i \in DOMAIN Sections
        PROVE  /\ as[i] \in Seq(Item)
               /\ ToSet(as[i]) = {ItemOf(Use(Sections[i], k, <<>>)) :
                                     k \in {k \in ToSet(f.lists[Sections[i]]) :
                                               k.key # NoKey /\ ~ (TRUE /\ k.excluded)}}
    BY <2>1, <2>2, CollectRight
  <2>4. as = [i \in DOMAIN Sections |-> as[i]]
    OBVIOUS
  <2> HIDE DEF as
  <2>5. as \in Seq(Seq(Item)) /\ DOMAIN as = DOMAIN Sections
    BY <1>1, <2>3, <2>4, OneEach
  <2> QED
    BY <2>3, <2>5
<1>3. /\ ToSet(enabled) = {p \in ToSet(f.providers) : ~ p.disabled}
      /\ enabled \in Seq(Provider)
  <2> DEFINE wanted == {p \in ToSet(f.providers) : ~ p.disabled}
  <2>1. enabled \in Seq(Provider) /\ Elements(enabled) = Elements(f.providers) \cap wanted
    BY <1>1, OnlyKeepsWanted
  <2>2. ToSet(enabled) = Elements(enabled) /\ ToSet(f.providers) = Elements(f.providers)
    BY <1>1, <2>1, SameSet
  <2>3. wanted \subseteq ToSet(f.providers)
    OBVIOUS
  <2> HIDE DEF wanted, enabled
  <2>4. ToSet(enabled) = wanted
    BY <2>1, <2>2, <2>3
  <2> QED
    BY <2>1, <2>4 DEF wanted
<1> HIDE DEF enabled
<1>4. bs \in Seq(Seq(Item)) /\ DOMAIN bs = DOMAIN enabled
      /\ \A i \in DOMAIN bs :
            ToSet(bs[i]) = {ItemOf(Use(Compat, k, enabled[i].base)) :
                               k \in Provided(enabled[i])}
  <2>1. ASSUME NEW i \in DOMAIN enabled
        PROVE  /\ enabled[i].base \in Seq(STRING) /\ enabled[i].keys \in Seq(Credential)
               /\ Compat \in Types
    <3> HIDE DEF Provider
    <3>1. enabled[i] \in Provider
      BY <1>3, SameSet
    <3> QED
      BY <3>1 DEF Types, Provider
  <2>2. ASSUME NEW i \in DOMAIN enabled
        PROVE  /\ bs[i] \in Seq(Item)
               /\ ToSet(bs[i]) = {ItemOf(Use(Compat, k, enabled[i].base)) :
                                     k \in {k \in ToSet(enabled[i].keys) :
                                               k.key # NoKey /\ ~ (FALSE /\ k.excluded)}}
    BY <2>1, CollectRight
  <2>3. bs = [i \in DOMAIN enabled |-> bs[i]]
    OBVIOUS
  <2> HIDE DEF bs, Provider
  <2>4. bs \in Seq(Seq(Item)) /\ DOMAIN bs = DOMAIN enabled
    BY <1>3, <2>2, <2>3, OneEach
  <2> QED
    BY <2>2, <2>4
<1>5. Items(f) = FlattenSeq(as) \o FlattenSeq(bs)
  BY DEF Items, enabled
<1> HIDE DEF as, bs
<1>6. /\ FlattenSeq(as) \in Seq(Item) /\ FlattenSeq(bs) \in Seq(Item)
      /\ ToSet(FlattenSeq(as)) = UNION {ToSet(as[i]) : i \in DOMAIN as}
      /\ ToSet(FlattenSeq(bs)) = UNION {ToSet(bs[i]) : i \in DOMAIN bs}
  BY <1>2, <1>4, FlattenPlaces, FlattenUnion
<1>7. /\ Items(f) \in Seq(Item)
      /\ ToSet(Items(f)) = ToSet(FlattenSeq(as)) \cup ToSet(FlattenSeq(bs))
  <2> DEFINE a == FlattenSeq(as)
             b == FlattenSeq(bs)
  <2>1. a \in Seq(Item) /\ b \in Seq(Item) /\ Items(f) = a \o b
    BY <1>5, <1>6
  <2> HIDE DEF a, b
  <2>2. Items(f) \in Seq(Item) /\ ToSet(Items(f)) = ToSet(a) \cup ToSet(b)
    BY <2>1, JoinedSet
  <2> QED
    BY <2>2 DEF a, b
<1>8. Live(f) = InSections \cup InProviders
  BY Zenon DEF Live, Use
<1> HIDE DEF Listed, Provided
<1>9. UNION {ToSet(as[i]) : i \in DOMAIN as} = {ItemOf(c) : c \in InSections}
  <2>1. ASSUME NEW i \in DOMAIN as, NEW x \in ToSet(as[i])
        PROVE  x \in {ItemOf(c) : c \in InSections}
    <3>1. PICK k \in Listed(Sections[i]) : x = ItemOf(Use(Sections[i], k, <<>>))
      BY <1>2
    <3>2. Sections[i] \in ToSet(Sections)
      BY <1>2 DEF ToSet
    <3> QED
      BY <3>1, <3>2
  <2>2. ASSUME NEW s \in ToSet(Sections), NEW k \in Listed(s)
        PROVE  \E i \in DOMAIN as : ItemOf(Use(s, k, <<>>)) \in ToSet(as[i])
    <3>1. PICK i \in DOMAIN as : s = Sections[i]
      BY <1>2 DEF ToSet
    <3> QED
      BY <1>2, <3>1
  <2>3. ASSUME NEW c \in InSections PROVE ItemOf(c) \in UNION {ToSet(as[i]) : i \in DOMAIN as}
    <3>1. PICK s \in ToSet(Sections) : \E k \in Listed(s) : c = Use(s, k, <<>>)
      OBVIOUS
    <3>2. PICK k \in Listed(s) : c = Use(s, k, <<>>)
      BY <3>1
    <3> QED
      BY <2>2, <3>2
  <2> HIDE DEF InSections
  <2> QED
    BY <2>1, <2>3
<1>10. UNION {ToSet(bs[i]) : i \in DOMAIN bs} = {ItemOf(c) : c \in InProviders}
  <2> DEFINE on == {p \in ToSet(f.providers) : ~ p.disabled}
  <2>1. ASSUME NEW i \in DOMAIN bs, NEW x \in ToSet(bs[i])
        PROVE  x \in {ItemOf(c) : c \in InProviders}
    <3>1. PICK k \in Provided(enabled[i]) : x = ItemOf(Use(Compat, k, enabled[i].base))
      BY <1>4
    <3>2. enabled[i] \in ToSet(enabled)
      BY <1>4 DEF ToSet
    <3>3. enabled[i] \in on
      BY <1>3, <3>2
    <3> QED
      BY <3>1, <3>3
  <2>2. ASSUME NEW p \in on, NEW k \in Provided(p)
        PROVE  \E i \in DOMAIN bs : ItemOf(Use(Compat, k, p.base)) \in ToSet(bs[i])
    <3>1. p \in ToSet(enabled)
      BY <1>3
    <3>2. PICK i \in DOMAIN bs : p = enabled[i]
      BY <1>4, <3>1 DEF ToSet
    <3> QED
      BY <1>4, <3>2
  <2> QED
    BY <2>1, <2>2
<1> HIDE DEF InSections, InProviders
<1> QED
  BY <1>6, <1>7, <1>8, <1>9, <1>10

\* The URLs of a credential in use are URLs.
LEMMA LiveURLs ==
    ASSUME NEW f \in HostFiles, NEW c \in Live(f)
    PROVE  \A n \in 1 .. 3 : IsURL(c.urls[n])
<1> DEFINE Provider == [base : Seq(STRING), disabled : BOOLEAN, keys : Seq(Credential)]
<1>1. /\ f.lists \in [ToSet(Sections) -> Seq(Credential)]
      /\ f.providers \in Seq(Provider)
  BY ListingAssumption
<1>2. \A s \in Types : DefaultBase[s] \in Seq(STRING)
  BY ListingAssumption DEF Types
<1>3. \A k \in Credential : k.base \in Seq(STRING)
  BY DEF Credential
<1> HIDE DEF Provider
<1>4. \A p \in ToSet(f.providers) : p \in Provider
  BY <1>1, SameSet
<1>5. \A p \in Provider : p.base \in Seq(STRING) /\ p.keys \in Seq(Credential)
  BY DEF Provider
<1>6. ASSUME NEW a, NEW b, NEW d, a \in Seq(STRING), b \in Seq(STRING), d \in Seq(STRING),
             c.urls = <<a, b, d>>
      PROVE  \A n \in 1 .. 3 : IsURL(c.urls[n])
  <2>1. IsURL(a) /\ IsURL(b) /\ IsURL(d)
    BY <1>6 DEF IsURL
  <2>2. \A n \in 1 .. 3 : n = 1 \/ n = 2 \/ n = 3
    OBVIOUS
  <2> QED
    BY <1>6, <2>1, <2>2
<1>7. CASE \E s \in ToSet(Sections) : \E k \in ToSet(f.lists[s]) :
              c.urls = <<k.base, <<>>, DefaultBase[s]>>
  <2>1. PICK s \in ToSet(Sections) : \E k \in ToSet(f.lists[s]) :
              c.urls = <<k.base, <<>>, DefaultBase[s]>>
    BY <1>7
  <2>2. PICK k \in ToSet(f.lists[s]) : c.urls = <<k.base, <<>>, DefaultBase[s]>>
    BY <2>1
  <2>3. k \in Credential
    BY <1>1, <2>2, SameSet
  <2>4. k.base \in Seq(STRING) /\ <<>> \in Seq(STRING) /\ DefaultBase[s] \in Seq(STRING)
    BY <1>2, <1>3, <2>3 DEF Types
  <2> QED
    BY <1>6, <2>2, <2>4
<1>8. CASE \E p \in ToSet(f.providers) : \E k \in ToSet(p.keys) :
              c.urls = <<k.base, p.base, DefaultBase[Compat]>>
  <2>1. PICK p \in ToSet(f.providers) : \E k \in ToSet(p.keys) :
              c.urls = <<k.base, p.base, DefaultBase[Compat]>>
    BY <1>8
  <2>2. PICK k \in ToSet(p.keys) : c.urls = <<k.base, p.base, DefaultBase[Compat]>>
    BY <2>1
  <2>3. p \in Provider
    BY <1>4
  <2>4. k \in Credential
    BY <1>5, <2>2, <2>3, SameSet
  <2>5. k.base \in Seq(STRING) /\ p.base \in Seq(STRING) /\ DefaultBase[Compat] \in Seq(STRING)
    BY <1>2, <1>3, <1>5, <2>3, <2>4 DEF Types
  <2> QED
    BY <1>6, <2>2, <2>5
<1> QED
  BY <1>7, <1>8 DEF Live

\* The items that a source matches, and the entries it makes of them.
Hits(src, items) == {x \in ToSet(items) : MatchBaseURL(x.base, src.patterns)}

Entry(src) == [vendor : {src.id}, key : DOMAIN TailRank, types : SUBSET Types]

LEMMA GroupedRight ==
    ASSUME NEW src, NEW items \in Seq(Item)
    PROVE  /\ Grouped(src, items) \in Seq(Entry(src))
           /\ \A m, n \in DOMAIN Grouped(src, items) :
                 Grouped(src, items)[m].key = Grouped(src, items)[n].key => m = n
           /\ ToSet(Grouped(src, items)) =
                 {[vendor |-> src.id, key |-> key,
                   types |-> {x.type : x \in {x \in Hits(src, items) : x.key = key}}] :
                     key \in {x.key : x \in Hits(src, items)}}
<1> DEFINE hits == {i \in DOMAIN items : MatchBaseURL(items[i].base, src.patterns)}
           wanted == {i \in hits : \A j \in hits : items[j].key = items[i].key => i <= j}
           all == [i \in DOMAIN items |-> i]
           first == Only(all, wanted)
           TypesOf(key) == {items[i].type : i \in {i \in hits : items[i].key = key}}
           New(key) == [vendor |-> src.id, key |-> key, types |-> TypesOf(key)]
           g == Grouped(src, items)
           keys == {x.key : x \in Hits(src, items)}
<1>1. /\ Len(items) \in Nat /\ DOMAIN items = 1 .. Len(items)
      /\ \A i \in DOMAIN items : items[i] \in Item
  BY SameSet
<1>2. hits \subseteq DOMAIN items /\ wanted \subseteq hits
  OBVIOUS
<1>3. /\ g = [n \in DOMAIN first |-> New(items[first[n]].key)]
  BY DEF Grouped
<1>4. /\ all \in Seq(1 .. Len(items)) /\ Elements(all) = DOMAIN items /\ NoneTwice(all)
  <2>1. all = [i \in DOMAIN items |-> all[i]] /\ DOMAIN all = DOMAIN items
        /\ \A i \in DOMAIN items : all[i] = i /\ all[i] \in 1 .. Len(items)
    BY <1>1
  <2> HIDE DEF all
  <2>2. all \in Seq(1 .. Len(items)) /\ Len(all) = Len(items)
    BY <2>1, OneEach
  <2> QED
    BY <1>1, <2>1, <2>2 DEF Elements, NoneTwice
<1>5. first \in Seq(1 .. Len(items)) /\ Elements(first) = wanted /\ NoneTwice(first)
  <2> HIDE DEF all, wanted, hits
  <2>1. /\ first \in Seq(1 .. Len(items)) /\ Elements(first) = Elements(all) \cap wanted
        /\ NoneTwice(first)
    BY <1>4, OnlyKeepsWanted
  <2> QED
    BY <1>2, <1>4, <2>1
<1>6. /\ DOMAIN first = 1 .. Len(first)
      /\ \A n \in DOMAIN first : first[n] \in wanted
      /\ \A i \in wanted : \E n \in DOMAIN first : first[n] = i
      /\ \A m, n \in DOMAIN first : first[m] = first[n] => m = n
  <2> HIDE DEF first, wanted
  <2> QED
    BY <1>5, LenProperties DEF Elements, NoneTwice
<1>7. ASSUME NEW i \in hits
      PROVE  \E j \in wanted : items[j].key = items[i].key
  <2> DEFINE same == {j \in hits : items[j].key = items[i].key}
  <2>1. same \in SUBSET Nat /\ same # {}
    BY <1>1, <1>2, <1>7
  <2>2. PICK j \in same : \A k \in same : j <= k
    <3> HIDE DEF same
    <3> QED
      BY <2>1, Least
  <2> QED
    BY <2>2
<1>8. \A i \in wanted, j \in wanted : items[i].key = items[j].key => i = j
  BY <1>1
<1>9. Hits(src, items) = {items[i] : i \in hits}
  BY DEF Hits, ToSet
<1>10. \A key : TypesOf(key) = {x.type : x \in {x \in Hits(src, items) : x.key = key}}
  BY <1>9
<1>11. keys = {items[i].key : i \in hits}
  BY <1>9
<1>12. keys = {items[i].key : i \in wanted}
  <2> HIDE DEF keys, wanted, hits
  <2> QED
    BY <1>2, <1>7, <1>11
<1>13. \A key \in keys : New(key) \in Entry(src) /\ New(key).key = key
  BY <1>1, <1>11 DEF Entry, Item
<1> HIDE DEF first, wanted, hits, New, g, keys
<1>14. /\ g = [n \in DOMAIN first |-> g[n]] /\ DOMAIN g = DOMAIN first
       /\ \A n \in DOMAIN first : g[n] = New(items[first[n]].key)
                                  /\ items[first[n]].key \in keys
  BY <1>3, <1>6, <1>12
<1>15. g \in Seq(Entry(src))
  <2>1. \A n \in DOMAIN first : g[n] \in Entry(src)
    BY <1>13, <1>14
  <2> QED
    BY <1>5, <1>14, <2>1, OneEach
<1>16. ASSUME NEW m \in DOMAIN g, NEW n \in DOMAIN g, g[m].key = g[n].key PROVE m = n
  BY <1>6, <1>8, <1>13, <1>14, <1>16
<1>17. ToSet(g) = {New(key) : key \in keys}
  BY <1>6, <1>12, <1>14 DEF ToSet
<1> DEFINE Found(key) == [vendor |-> src.id, key |-> key,
                          types |-> {x.type : x \in {x \in Hits(src, items) : x.key = key}}]
<1>18. \A key : New(key) = Found(key)
  BY <1>10 DEF New
<1>19. ToSet(g) = {Found(key) : key \in keys}
  <2> HIDE DEF Found
  <2> QED
    BY <1>17, <1>18
<1> QED
  BY <1>15, <1>16, <1>19 DEF g, keys

\* What a source finds are the keys it covers, each with the sections it is
\* used in.
Uses(f, src, key) == {c \in Live(f) : c.key = key /\ Covers(src, c.urls)}

Found(f, src) == {[vendor |-> src.id, key |-> key, types |-> {c.type : c \in Uses(f, src, key)}] :
                     key \in {c.key : c \in {c \in Live(f) : Covers(src, c.urls)}}}

LEMMA GroupedExact ==
    ASSUME NEW f \in HostFiles, NEW src, Written(src)
    PROVE  ToSet(Grouped(src, Items(f))) = Found(f, src)
<1> DEFINE hits == Hits(src, Items(f))
           covered == {c \in Live(f) : Covers(src, c.urls)}
           TypesOf(key) == {x.type : x \in {x \in hits : x.key = key}}
           UseTypes(key) == {c.type : c \in Uses(f, src, key)}
<1>1. Items(f) \in Seq(Item) /\ ToSet(Items(f)) = {ItemOf(c) : c \in Live(f)}
  BY ItemsRight
<1>2. ToSet(Grouped(src, Items(f))) =
         {[vendor |-> src.id, key |-> key, types |-> TypesOf(key)] :
             key \in {x.key : x \in hits}}
  BY <1>1, GroupedRight
<1>3. \A c \in Live(f) : MatchBaseURL(ItemOf(c).base, src.patterns) <=> Covers(src, c.urls)
  <2> SUFFICES ASSUME NEW c \in Live(f)
               PROVE  MatchBaseURL(ItemOf(c).base, src.patterns) <=> Covers(src, c.urls)
    OBVIOUS
  <2>1. ItemOf(c).base = FirstOf(c.urls)
    BY DEF ItemOf
  <2> QED
    BY <2>1, LiveURLs, MatchCovers
<1>4. hits = {ItemOf(c) : c \in covered}
  BY <1>1, <1>3 DEF Hits
<1>5. \A c : ItemOf(c).key = c.key /\ ItemOf(c).type = c.type
  BY DEF ItemOf
<1> HIDE DEF hits
<1>6. {x.key : x \in hits} = {c.key : c \in covered}
  BY <1>4, <1>5
<1>7. ASSUME NEW key PROVE TypesOf(key) = UseTypes(key)
  <2>1. Uses(f, src, key) = {c \in covered : c.key = key}
    BY DEF Uses
  <2> HIDE DEF covered
  <2> QED
    BY <1>4, <1>5, <2>1
<1> HIDE DEF TypesOf, UseTypes
<1>8. ToSet(Grouped(src, Items(f))) =
         {[vendor |-> src.id, key |-> key, types |-> UseTypes(key)] :
             key \in {c.key : c \in covered}}
  BY <1>2, <1>6, <1>7
<1> QED
  BY <1>8 DEF Found, UseTypes

\* Sources that passed validation: their ids say something, differ, and have
\* ranks.
SourcesOK(srcs) ==
    /\ \E S : srcs \in Seq(S)
    /\ \A i \in DOMAIN srcs :
          Written(srcs[i]) /\ srcs[i].id # "" /\ VendorRank[srcs[i].id] \in Int
    /\ \A i, j \in DOMAIN srcs :
          /\ srcs[i].id = srcs[j].id => i = j
          /\ VendorRank[srcs[i].id] = VendorRank[srcs[j].id] => srcs[i].id = srcs[j].id

LEMMA ValidSources ==
    ASSUME NEW srcs \in SourceLists, Validated(srcs) # Nil
    PROVE  SourcesOK(Validated(srcs).sources)
<1> DEFINE cfg == [path |-> "", ttl |-> 0, sources |-> srcs]
           valid == Validated(srcs)
           got == valid.sources
<1>1. srcs \in Seq(WrittenSource)
  BY ListingAssumption
<1>2. \A i \in DOMAIN srcs : Written(srcs[i])
  <2>1. \A src \in WrittenSource : Written(src)
    BY DEF Written, WrittenSource
  <2> QED
    BY <1>1, <2>1, SameSet
<1>3. valid = NormalizeAndValidate(cfg) /\ valid # Nil
  BY Zenon DEF Validated
<1>3a. cfg.ttl \in Int /\ cfg.sources = srcs
  OBVIOUS
<1> HIDE DEF cfg, valid
<1>4. /\ \E S : got \in Seq(S)
      /\ \A i \in DOMAIN got : Written(got[i])
      /\ \A src \in ToSet(got) : Usable(src)
      /\ \A i, j \in DOMAIN got : got[i].id = got[j].id => i = j
  <2>1. WrittenList(cfg.sources)
    BY <1>1, <1>2, <1>3a DEF WrittenList
  <2>2. cfg.ttl \in Int
    BY <1>3a
  <2>3. /\ WrittenList(valid.sources)
        /\ \A src \in ToSet(valid.sources) : Usable(src)
        /\ \A i, j \in DOMAIN valid.sources :
              valid.sources[i].id = valid.sources[j].id => i = j
    BY <1>3, <2>1, <2>2, ValidUsable, Zenon DEF Fits
  <2> QED
    BY <2>3 DEF WrittenList
<1>5. \A i \in DOMAIN got :
         /\ VendorRank[got[i].id] \in Int
         /\ \A j \in DOMAIN got : VendorRank[got[i].id] = VendorRank[got[j].id]
                                     => got[i].id = got[j].id
  <2>1. \A i \in DOMAIN got : got[i].id \in {src.id : src \in ToSet(got)}
    BY DEF ToSet
  <2> HIDE DEF got
  <2>2. LET ids == {src.id : src \in ToSet(got)}
        IN  \A id \in ids :
               /\ VendorRank[id] \in Int
               /\ \A other \in ids : VendorRank[id] = VendorRank[other] => id = other
    BY RankAssumption DEF got, valid
  <2> QED
    BY <2>1, <2>2
<1>6. \A i \in DOMAIN got : got[i].id # ""
  <2> HIDE DEF got
  <2> QED
    BY <1>4 DEF ToSet, Usable
<1> QED
  BY <1>4, <1>5, <1>6 DEF SourcesOK, valid

\* What the scan lists.
Listed(srcs) == [vendor : {srcs[i].id : i \in DOMAIN srcs}, key : DOMAIN TailRank,
                 types : SUBSET Types]

LEMMA ScanRight ==
    ASSUME NEW f \in HostFiles, NEW srcs, SourcesOK(srcs)
    PROVE  /\ ScanConfigFile(f, srcs) \in Seq(Listed(srcs))
           /\ ToSet(ScanConfigFile(f, srcs)) = UNION {Found(f, srcs[i]) : i \in DOMAIN srcs}
           /\ \A a, b \in DOMAIN ScanConfigFile(f, srcs) :
                 /\ ScanConfigFile(f, srcs)[a].vendor = ScanConfigFile(f, srcs)[b].vendor
                 /\ ScanConfigFile(f, srcs)[a].key = ScanConfigFile(f, srcs)[b].key
                 => a = b
<1> DEFINE items == Items(f)
           gs == [i \in DOMAIN srcs |-> Grouped(srcs[i], items)]
           es == ScanConfigFile(f, srcs)
<1>1. items \in Seq(Item)
  BY ItemsRight
<1>2. es = FlattenSeq(gs)
  BY DEF ScanConfigFile
<1>3. \A i \in DOMAIN srcs :
         /\ gs[i] \in Seq(Entry(srcs[i]))
         /\ \A m, n \in DOMAIN gs[i] : gs[i][m].key = gs[i][n].key => m = n
         /\ ToSet(gs[i]) = Found(f, srcs[i])
  <2> SUFFICES ASSUME NEW i \in DOMAIN srcs
               PROVE  /\ gs[i] \in Seq(Entry(srcs[i]))
                      /\ \A m, n \in DOMAIN gs[i] : gs[i][m].key = gs[i][n].key => m = n
                      /\ ToSet(gs[i]) = Found(f, srcs[i])
    OBVIOUS
  <2>1. gs[i] = Grouped(srcs[i], items) /\ Written(srcs[i])
    BY DEF SourcesOK
  <2>2. ToSet(gs[i]) = Found(f, srcs[i])
    BY <2>1, GroupedExact
  <2> HIDE DEF gs, items
  <2> QED
    BY <1>1, <2>1, <2>2, GroupedRight
<1>4. \A i \in DOMAIN srcs : Entry(srcs[i]) \subseteq Listed(srcs)
  BY DEF Entry, Listed
<1>5. PICK S : srcs \in Seq(S)
  BY DEF SourcesOK
<1>6. gs \in Seq(Seq(Listed(srcs))) /\ DOMAIN gs = DOMAIN srcs
  <2>1. ASSUME NEW i \in DOMAIN srcs PROVE gs[i] \in Seq(Listed(srcs))
    <3> DEFINE s == gs[i]
    <3>1. s \in Seq(Entry(srcs[i])) /\ Entry(srcs[i]) \subseteq Listed(srcs)
      BY <1>3, <1>4
    <3> HIDE DEF s
    <3>2. s \in Seq(Listed(srcs))
      BY <3>1, SeqMonotonic
    <3> QED
      BY <3>2 DEF s
  <2>2. gs = [i \in DOMAIN srcs |-> gs[i]]
    OBVIOUS
  <2> HIDE DEF gs
  <2> QED
    BY <1>5, <2>1, <2>2, OneEach
<1> HIDE DEF items, gs
<1>7. /\ es \in Seq(Listed(srcs))
      /\ ToSet(es) = UNION {ToSet(gs[i]) : i \in DOMAIN gs}
  BY <1>2, <1>6, FlattenPlaces, FlattenUnion
<1>8. ToSet(es) = UNION {Found(f, srcs[i]) : i \in DOMAIN srcs}
  BY <1>3, <1>6, <1>7
<1>9. PICK w : HeldAt(gs, Len(gs), es, w)
  BY <1>2, <1>6, FlattenPlaces
<1> HIDE DEF es
<1>10. ASSUME NEW a \in DOMAIN es
       PROVE  /\ a \in 1 .. Len(es)
              /\ w[a][1] \in DOMAIN srcs /\ w[a][2] \in DOMAIN gs[w[a][1]]
              /\ w[a] = <<w[a][1], w[a][2]>>
              /\ es[a] = gs[w[a][1]][w[a][2]]
              /\ es[a].vendor = srcs[w[a][1]].id
  <2>1. a \in 1 .. Len(es)
    BY <1>7, SameSet
  <2>2. w[a] \in Spots(gs, Len(gs)) /\ es[a] = gs[w[a][1]][w[a][2]]
    BY <1>9, <2>1 DEF HeldAt
  <2> DEFINE i == w[a][1]
             k == w[a][2]
  <2>3. i \in 1 .. Len(gs) /\ k \in 1 .. Len(gs[i]) /\ w[a] = <<i, k>>
    BY <2>2 DEF Spots
  <2>4. i \in DOMAIN srcs
    BY <1>6, <2>3, SameSet
  <2> HIDE DEF i, k
  <2>5. gs[i] \in Seq(Entry(srcs[i]))
    BY <1>3, <2>4
  <2>6. k \in DOMAIN gs[i] /\ gs[i][k] \in Entry(srcs[i])
    BY <2>3, <2>5, SameSet
  <2>7. gs[i][k].vendor = srcs[i].id
    BY <2>6 DEF Entry
  <2> QED
    BY <2>1, <2>2, <2>3, <2>4, <2>6, <2>7 DEF i, k
<1>11. ASSUME NEW a \in DOMAIN es, NEW b \in DOMAIN es,
              es[a].vendor = es[b].vendor, es[a].key = es[b].key
       PROVE  a = b
  <2>1. srcs[w[a][1]].id = srcs[w[b][1]].id
    BY <1>10, <1>11
  <2>2. w[a][1] = w[b][1]
    BY <1>10, <2>1 DEF SourcesOK
  <2> DEFINE i == w[a][1]
             m == w[a][2]
             n == w[b][2]
  <2>3. /\ i \in DOMAIN srcs /\ m \in DOMAIN gs[i] /\ n \in DOMAIN gs[i]
        /\ w[a] = <<i, m>> /\ w[b] = <<i, n>> /\ es[a] = gs[i][m] /\ es[b] = gs[i][n]
    BY <1>10, <2>2
  <2> HIDE DEF i, m, n
  <2>4. m = n
    BY <1>3, <1>11, <2>3
  <2> QED
    <3>1. a \in 1 .. Len(es) /\ b \in 1 .. Len(es) /\ w[a] = w[b]
      BY <1>10, <2>3, <2>4
    <3> QED
      BY <1>9, <3>1 DEF HeldAt
<1> QED
  BY <1>7, <1>8, <1>11 DEF es
-----------------------------------------------------------------------------
(* Pages                                                                   *)

\* What is listed can be sorted.
LEMMA ListedRanked ==
    ASSUME NEW srcs, SourcesOK(srcs), NEW es \in Seq(Listed(srcs))
    PROVE  Ranked(es)
<1>1. \A x \in Listed(srcs) : /\ x.key \in DOMAIN TailRank
                              /\ \E i \in DOMAIN srcs : x.vendor = srcs[i].id
  BY DEF Listed
<1>2. \A i \in DOMAIN es : es[i] \in Listed(srcs)
  BY SameSet
<1>3. \A key \in DOMAIN TailRank : TailRank[key] \in Int
  BY RankAssumption
<1>4. ASSUME NEW i \in DOMAIN es
      PROVE  VendorRank[es[i].vendor] \in Int /\ TailRank[es[i].key] \in Int
  BY <1>1, <1>2, <1>3 DEF SourcesOK
<1>5. ASSUME NEW i \in DOMAIN es, NEW j \in DOMAIN es,
             VendorRank[es[i].vendor] = VendorRank[es[j].vendor]
      PROVE  es[i].vendor = es[j].vendor
  <2>1. PICK k \in DOMAIN srcs : es[i].vendor = srcs[k].id
    BY <1>1, <1>2
  <2>2. PICK l \in DOMAIN srcs : es[j].vendor = srcs[l].id
    BY <1>1, <1>2
  <2> QED
    BY <1>5, <2>1, <2>2 DEF SourcesOK
<1> QED
  BY <1>4, <1>5 DEF Ranked

\* The list that the pages are cut from.
Whole(es, vendor) == SortStable(FilteredBy(es, vendor))

LEMMA WholeRight ==
    ASSUME NEW srcs, SourcesOK(srcs), NEW es \in Seq(Listed(srcs)), NEW vendor
    PROVE  /\ Whole(es, vendor) \in Seq(Listed(srcs))
           /\ Ranked(Whole(es, vendor)) /\ Sorted(Whole(es, vendor))
           /\ ToSet(Whole(es, vendor)) = ToSet(FilteredBy(es, vendor))
<1> DEFINE filtered == FilteredBy(es, vendor)
<1>1. filtered \in Seq(Listed(srcs))
  BY OnlyKeepsWanted DEF FilteredBy
<1> HIDE DEF filtered
<1>2. Ranked(filtered)
  BY <1>1, ListedRanked
<1> QED
  BY <1>1, <1>2, SortSorts DEF Whole, filtered

\* The window of a page lies in the list.
LEMMA WindowRight ==
    ASSUME NEW total \in Nat, NEW size \in Int, NEW page \in Int
    PROVE  LET w == PageWindow(total, NormalPageSize(size), NormalPage(page))
           IN  /\ w.start \in Nat /\ w.end \in Nat /\ w.start <= w.end /\ w.end <= total
               /\ w.page \in 1 .. PageCount(total, NormalPageSize(size))
<1> DEFINE s == NormalPageSize(size)
           p == NormalPage(page)
           w == PageWindow(total, s, p)
<1>1. s \in Nat \ {0} /\ p \in Nat \ {0}
  BY NormalQuery, PageSizeAssumption
<1> HIDE DEF s, p
<1>2. /\ w.page \in 1 .. PageCount(total, s)
      /\ 0 <= w.start /\ w.start <= w.end /\ w.end <= total
  BY <1>1, PageWindowBounds
<1>3. PageCount(total, s) \in Nat
  BY <1>1, PageCountBounds
<1>4. w.start = (w.page - 1) * s
  BY DEF PageWindow, WindowStart
<1>5. w.start \in Int
  <2> DEFINE b == w.page - 1
  <2>1. b \in Int /\ s \in Int
    BY <1>1, <1>2, <1>3
  <2> HIDE DEF b
  <2>2. b * s \in Int
    BY <2>1
  <2> QED
    BY <1>4, <2>2 DEF b
<1>6. w.end \in Int
  <2>1. w.end = IF w.start + s > total THEN total ELSE w.start + s
    BY DEF PageWindow, WindowEnd
  <2> HIDE DEF w
  <2> QED
    BY <1>1, <1>5, <2>1
<1> QED
  BY <1>2, <1>5, <1>6 DEF s, p

\* The entries of a page are in order.
LEMMA ViewRight ==
    ASSUME NEW srcs, SourcesOK(srcs), NEW es \in Seq(Listed(srcs)), NEW vendor,
           NEW size \in Int, NEW page \in Int
    PROVE  LET shownNow == SelectPageView(es, vendor, size, page).entries
           IN  /\ shownNow \in Seq(Listed(srcs))
               /\ Ranked(shownNow) /\ Sorted(shownNow)
<1> DEFINE whole == Whole(es, vendor)
           w == PageWindow(Len(whole), NormalPageSize(size), NormalPage(page))
           cut == SubSeq(whole, w.start + 1, w.end)
<1>1. SelectPageView(es, vendor, size, page).entries = cut
  BY DEF SelectPageView, Whole
<1>2. /\ whole \in Seq(Listed(srcs)) /\ Sorted(whole)
      /\ Len(whole) \in Nat /\ DOMAIN whole = 1 .. Len(whole)
      /\ \A i \in DOMAIN whole : whole[i] \in Listed(srcs)
  BY WholeRight, SameSet
<1>3. /\ w.start \in Nat /\ w.end \in Nat /\ w.start <= w.end /\ w.end <= Len(whole)
  BY <1>2, WindowRight
<1> DEFINE a == w.start
           z == w.end
<1>4. a \in Nat /\ z \in Nat /\ a <= z /\ z <= Len(whole)
  BY <1>3
<1> HIDE DEF whole, w, a, z
<1>5. /\ cut \in Seq(Listed(srcs)) /\ Len(cut) = z - a
      /\ \A i \in 1 .. z - a : cut[i] = whole[i + a]
  <2>1. \A i \in a + 1 .. z : whole[i] \in Listed(srcs)
    BY <1>2, <1>4
  <2> DEFINE c == SubSeq(whole, a + 1, z)
  <2>2. /\ c \in Seq(Listed(srcs))
        /\ Len(c) = IF a + 1 <= z THEN z - (a + 1) + 1 ELSE 0
        /\ \A i \in 1 .. z - (a + 1) + 1 : c[i] = whole[(a + 1) + i - 1]
    BY <1>4, <2>1, SubSeqProperties
  <2>3. cut = c
    BY DEF a, z
  <2> HIDE DEF c, cut
  <2>4. \A i \in 1 .. z - a : (a + 1) + i - 1 = i + a /\ i \in 1 .. z - (a + 1) + 1
    BY <1>4
  <2> QED
    BY <1>4, <2>2, <2>3, <2>4
<1> HIDE DEF cut
<1>6. DOMAIN cut = 1 .. z - a
  BY <1>5, SameSet
<1>7. Sorted(cut)
  <2> SUFFICES ASSUME NEW i \in 1 .. z - a, NEW j \in 1 .. z - a, i <= j
               PROVE  ~ EntryLess(whole[j + a], whole[i + a])
    BY <1>5, <1>6 DEF Sorted
  <2>1. i + a \in DOMAIN whole /\ j + a \in DOMAIN whole /\ i + a <= j + a
    BY <1>2, <1>4
  <2> QED
    BY <1>2, <2>1 DEF Sorted
<1>8. Ranked(cut)
  BY <1>5, ListedRanked
<1> QED
  BY <1>1, <1>5, <1>7, <1>8

\* The cards of a page, as they are numbered.
Numbered(es) == [i \in DOMAIN es |-> [idx |-> i - 1, vendor |-> es[i].vendor, key |-> es[i].key]]

\* Sorting them once more leaves them where they are.
LEMMA CardsStay ==
    ASSUME NEW A, NEW es \in Seq(A), Ranked(es), Sorted(es)
    PROVE  SortStable(Numbered(es)) = Numbered(es)
<1> DEFINE cs == Numbered(es)
           B == ToSet(cs)
<1>1. DOMAIN cs = DOMAIN es /\ cs = [i \in DOMAIN es |-> cs[i]]
      /\ \A i \in DOMAIN es : cs[i].vendor = es[i].vendor /\ cs[i].key = es[i].key
  BY DEF Numbered
<1> HIDE DEF cs
<1>2. \A i \in DOMAIN es : cs[i] \in B
  BY <1>1 DEF ToSet
<1>3. cs \in Seq(B)
  <2> HIDE DEF B
  <2> QED
    BY <1>1, <1>2, OneEach
<1>4. Ranked(cs)
  BY <1>1 DEF Ranked
<1>5. Sorted(cs)
  BY <1>1 DEF Sorted, EntryLess
<1> QED
  BY <1>3, <1>4, <1>5, SortKeeps DEF cs

\* A page begins where the one before it ends, and is full but for the last.
LEMMA PageEnds ==
    ASSUME NEW total \in Nat, NEW size \in Nat \ {0}
    PROVE  LET last == PageCount(total, size)
               W(k) == PageWindow(total, size, k)
           IN  /\ last \in Nat \ {0}
               /\ W(1).start = 0 /\ W(last).end = total
               /\ \A k \in 1 .. last :
                     W(k).start \in Nat /\ W(k).end \in W(k).start .. total
               /\ \A k \in 1 .. last - 1 :
                     W(k + 1).start = W(k).end /\ W(k).end = W(k).start + size
<1> DEFINE last == PageCount(total, size)
           W(k) == PageWindow(total, size, k)
           Start(k) == (k - 1) * size
<1>1. /\ last \in Nat \ {0} /\ (last - 1) * size <= total /\ total <= last * size
  BY PageCountBounds
<1> HIDE DEF last
<1>2. \A k \in 1 .. last : ClampPage(total, size, k) = k
  BY <1>1 DEF ClampPage, last
<1>3. \A k \in 1 .. last :
         /\ W(k).start = Start(k)
         /\ W(k).end = IF Start(k) + size > total THEN total ELSE Start(k) + size
  BY <1>2 DEF PageWindow, WindowStart, WindowEnd
<1>4. \A k \in 1 .. last : Start(k) \in Nat /\ Start(k) <= (last - 1) * size
  <2> SUFFICES ASSUME NEW k \in 1 .. last
               PROVE  Start(k) \in Nat /\ Start(k) <= (last - 1) * size
    OBVIOUS
  <2>1. k - 1 \in Nat /\ last - 1 \in Nat /\ k - 1 <= last - 1
    BY <1>1
  <2>2. (k - 1) * size <= (last - 1) * size
    BY <2>1, MulMono
  <2>3. (k - 1) * size \in Nat
    BY <2>1, SMT
  <2> QED
    BY <2>2, <2>3
<1>5. (last - 1) * size \in Int
  BY <1>1, SMT
<1>6. \A k \in 1 .. last - 1 : /\ k \in 1 .. last /\ k + 1 \in 1 .. last
                               /\ Start(k + 1) = Start(k) + size
  <2> SUFFICES ASSUME NEW k \in 1 .. last - 1
               PROVE  /\ k \in 1 .. last /\ k + 1 \in 1 .. last
                      /\ Start(k + 1) = Start(k) + size
    OBVIOUS
  <2>1. k \in 1 .. last /\ k + 1 \in 1 .. last /\ k \in Int
    BY <1>1
  <2>2. ((k + 1) - 1) * size = (k - 1) * size + size
    BY <2>1, SMT
  <2> QED
    BY <2>1, <2>2
<1>7. Start(1) = 0
  BY SMT
<1>8. last * size = Start(last) + size
  BY <1>1, SMT
<1> HIDE DEF Start, W
<1>9. W(last).end = total
  <2>1. last \in 1 .. last
    BY <1>1
  <2>2. Start(last) \in Nat /\ total <= Start(last) + size
    BY <1>1, <1>4, <1>8, <2>1
  <2> QED
    BY <1>3, <2>1, <2>2
<1>10. \A k \in 1 .. last : W(k).start \in Nat /\ W(k).end \in W(k).start .. total
  BY <1>1, <1>3, <1>4, <1>5
<1>11. \A k \in 1 .. last - 1 : W(k + 1).start = W(k).end /\ W(k).end = W(k).start + size
  <2> SUFFICES ASSUME NEW k \in 1 .. last - 1
               PROVE  W(k + 1).start = W(k).end /\ W(k).end = W(k).start + size
    OBVIOUS
  <2>1. /\ k \in 1 .. last /\ k + 1 \in 1 .. last /\ Start(k + 1) = Start(k) + size
    BY <1>6
  <2>2. Start(k) + size <= total /\ Start(k) \in Nat
    BY <1>1, <1>4, <1>5, <2>1
  <2> QED
    BY <1>3, <2>1, <2>2
<1>12. W(1).start = 0
  BY <1>1, <1>3, <1>7
<1> QED
  BY <1>1, <1>9, <1>10, <1>11, <1>12 DEF last, W

\* Put together, the pages are the whole list.
LEMMA PagesAreWhole ==
    ASSUME NEW A, NEW whole \in Seq(A), NEW size \in Nat \ {0}, NEW views,
           views = [k \in 1 .. PageCount(Len(whole), size) |-> views[k]],
           \A k \in 1 .. PageCount(Len(whole), size) :
              views[k] = SubSeq(whole, PageWindow(Len(whole), size, k).start + 1,
                                       PageWindow(Len(whole), size, k).end)
    PROVE  LET last == PageCount(Len(whole), size)
           IN  /\ FlattenSeq(views) = whole
               /\ \A k \in 1 .. last - 1 : Len(views[k]) = size
<1> DEFINE total == Len(whole)
           last == PageCount(total, size)
           Start(k) == PageWindow(total, size, k).start
           End(k) == PageWindow(total, size, k).end
           from == [k \in 1 .. last |-> Start(k)]
           to == [k \in 1 .. last |-> End(k)]
<1>1. Len(whole) \in Nat /\ \A i \in 1 .. Len(whole) : whole[i] \in A
  BY SameSet
<1>1a. /\ views = [k \in 1 .. last |-> views[k]]
       /\ \A k \in 1 .. last : views[k] = SubSeq(whole, Start(k) + 1, End(k))
  OBVIOUS
<1>1b. /\ last \in Nat \ {0}
       /\ Start(1) = 0 /\ End(last) = total
       /\ \A k \in 1 .. last : Start(k) \in Nat /\ End(k) \in Start(k) .. total
       /\ \A k \in 1 .. last - 1 : Start(k + 1) = End(k) /\ End(k) = Start(k) + size
  <2> HIDE DEF total
  <2>1. total \in Nat
    BY <1>1 DEF total
  <2> QED
    BY <2>1, PageEnds
<1> HIDE DEF last, Start, End
<1>2. /\ last \in Nat \ {0}
      /\ from[1] = 0 /\ to[last] = Len(whole)
      /\ \A k \in 1 .. last : from[k] \in Nat /\ to[k] \in from[k] .. Len(whole)
      /\ \A k \in 1 .. last - 1 : from[k + 1] = to[k] /\ to[k] = from[k] + size
  <2>3. 1 \in 1 .. last /\ last \in 1 .. last
        /\ \A k \in 1 .. last - 1 : k \in 1 .. last /\ k + 1 \in 1 .. last
    BY <1>1b
  <2>4. /\ from[1] = 0 /\ to[last] = Len(whole)
        /\ \A k \in 1 .. last : from[k] \in Nat /\ to[k] \in from[k] .. Len(whole)
    BY <1>1b, <2>3
  <2>5. \A k \in 1 .. last - 1 : from[k + 1] = to[k] /\ to[k] = from[k] + size
    BY <1>1b, <2>3
  <2> QED
    BY <1>1b, <2>4, <2>5
<1>3. /\ views = [k \in 1 .. last |-> views[k]]
      /\ \A k \in 1 .. last : views[k] = SubSeq(whole, from[k] + 1, to[k])
  BY <1>1a
<1> HIDE DEF from, to
<1>4. /\ \A k \in 1 .. last : views[k] = SubSeq(whole, from[k] + 1, to[k])
      /\ DOMAIN views = 1 .. last
  BY <1>3
<1>5. \A k \in 1 .. last : views[k] \in Seq(A) /\ Len(views[k]) = to[k] - from[k]
  <2> SUFFICES ASSUME NEW k \in 1 .. last
               PROVE  views[k] \in Seq(A) /\ Len(views[k]) = to[k] - from[k]
    OBVIOUS
  <2> DEFINE a == from[k]
             z == to[k]
             c == SubSeq(whole, a + 1, z)
  <2>1. a \in Nat /\ z \in a .. Len(whole)
    BY <1>2
  <2>2. views[k] = c
    BY <1>4
  <2> HIDE DEF a, z
  <2>3. z \in Int /\ \A i \in a + 1 .. z : whole[i] \in A
    BY <1>1, <2>1
  <2>4. c \in Seq(A) /\ Len(c) = IF a + 1 <= z THEN z - (a + 1) + 1 ELSE 0
    BY <2>1, <2>3, SubSeqProperties
  <2> HIDE DEF c
  <2>5. (IF a + 1 <= z THEN z - (a + 1) + 1 ELSE 0) = z - a
    BY <1>1, <2>1
  <2> QED
    BY <2>2, <2>4, <2>5 DEF a, z
<1>6. views \in Seq(Seq(A)) /\ Len(views) = last
  <2>1. views \in [1 .. last -> Seq(A)]
    BY <1>3, <1>4, <1>5
  <2>2. views \in Seq(Seq(A))
    <3> DEFINE B == Seq(A)
    <3>1. views \in [1 .. last -> B]
      BY <2>1
    <3> HIDE DEF B
    <3>2. views \in Seq(B)
      BY <1>2, <3>1, SeqDef
    <3> QED
      BY <3>2 DEF B
  <2> DEFINE l == Len(views)
  <2>3. l \in Nat /\ 1 .. l = 1 .. last
    BY <1>4, <2>2, LenProperties
  <2> HIDE DEF l
  <2>4. l = last
    BY <1>1b, <2>3
  <2> QED
    BY <2>2, <2>4 DEF l
<1>7. PICK f : /\ f[1] = views[1]
               /\ \A i \in 2 .. last : f[i] = f[i - 1] \o views[i]
               /\ FlattenSeq(views) = f[last]
  BY <1>2, <1>6, FlattenDef
<1> DEFINE n == last - 1
           T == {m \in 0 .. n : f[m + 1] = SubSeq(whole, 1, to[m + 1])}
<1>8. 0 \in T
  <2>1. 1 \in 1 .. last /\ 0 + 1 = 1 /\ from[1] + 1 = 1 /\ 0 \in 0 .. n
    BY <1>2
  <2> QED
    BY <1>4, <1>7, <2>1
<1>9. ASSUME NEW m \in 0 .. n, m \in T, m < n PROVE m + 1 \in T
  <2> DEFINE k == m + 1
             j == m + 2
  <2>1. /\ k \in 1 .. last - 1 /\ k \in 1 .. last /\ j \in 2 .. last /\ j \in 1 .. last
        /\ j - 1 = k /\ k + 1 = j /\ k \in 0 .. n
    BY <1>2, <1>9
  <2>2. f[k] = SubSeq(whole, 1, to[k])
    BY <1>9
  <2> HIDE DEF k, j
  <2>3. from[j] = to[k] /\ to[k] \in Nat /\ to[k] <= Len(whole)
        /\ to[j] \in to[k] .. Len(whole)
    BY <1>1, <1>2, <2>1
  <2>4. f[j] = SubSeq(whole, 1, to[k]) \o SubSeq(whole, to[k] + 1, to[j])
    BY <1>4, <1>7, <2>1, <2>2, <2>3
  <2> DEFINE a == to[k]
             z == to[j]
  <2>5. a \in 1 - 1 .. Len(whole) /\ z \in a .. Len(whole) /\ 1 \in 1 .. Len(whole) + 1
    BY <1>1, <2>3
  <2> HIDE DEF a, z
  <2>6. SubSeq(whole, 1, a) \o SubSeq(whole, a + 1, z) = SubSeq(whole, 1, z)
    BY <2>5, ConcatAdjacentSubSeq
  <2>7. f[j] = SubSeq(whole, 1, to[j])
    BY <2>4, <2>6 DEF a, z
  <2> QED
    BY <2>1, <2>7 DEF k, j
<1>10. n \in Nat /\ n \in 0 .. n /\ n + 1 = last
  BY <1>2
<1>11. \A m \in 0 .. n : m \in T
  <2> HIDE DEF T, n
  <2> QED
    BY <1>8, <1>9, <1>10, UpTo
<1>12. f[last] = SubSeq(whole, 1, to[last])
  BY <1>10, <1>11
<1>13. FlattenSeq(views) = whole
  BY <1>2, <1>7, <1>12, SubSeqFull
<1>14. ASSUME NEW k \in 1 .. last - 1 PROVE Len(views[k]) = size
  <2> DEFINE l == Len(views[k])
             a == from[k]
             z == to[k]
  <2>1. k \in 1 .. last /\ z = a + size /\ a \in Nat
    BY <1>2
  <2>2. l = z - a
    BY <1>5, <2>1
  <2> HIDE DEF l, a, z
  <2>3. l = size
    BY <2>1, <2>2
  <2> QED
    BY <2>3 DEF l
<1> QED
  BY <1>13, <1>14 DEF last
-----------------------------------------------------------------------------
(* Counting                                                                *)

\* One round of SumOf.
Summed(numbers, k, m) == IF m = 0 THEN 0 ELSE k[m - 1] + numbers[m]

IsSums(numbers, k, n) == k = [m \in 0 .. n |-> Summed(numbers, k, m)]

\* There are such rounds, however many.
LEMMA SumsExist ==
    ASSUME NEW numbers, NEW n \in Nat
    PROVE  \E k : IsSums(numbers, k, n)
<1> DEFINE T == {m \in 0 .. n : \E k : IsSums(numbers, k, m)}
<1>1. 0 \in T
  <2>1. IsSums(numbers, [m \in 0 .. 0 |-> 0], 0)
    BY DEF IsSums, Summed
  <2> QED
    BY <2>1
<1>2. ASSUME NEW m \in 0 .. n, m \in T, m < n PROVE m + 1 \in T
  <2>1. PICK k : IsSums(numbers, k, m)
    BY <1>2
  <2> DEFINE g == [i \in 0 .. m + 1 |->
                      IF i <= m THEN k[i] ELSE Summed(numbers, k, m + 1)]
  <2>2. k = [i \in 0 .. m |-> Summed(numbers, k, i)]
    BY <2>1 DEF IsSums
  <2>3. ASSUME NEW i \in 0 .. m + 1 PROVE g[i] = Summed(numbers, g, i)
    <3>1. i # 0 => g[i - 1] = k[i - 1]
      OBVIOUS
    <3>2. Summed(numbers, k, i) = Summed(numbers, g, i)
      BY <3>1 DEF Summed
    <3>3. CASE i <= m
      <4>1. k[i] = Summed(numbers, k, i)
        BY <2>2, <3>3
      <4> QED
        BY <3>2, <3>3, <4>1
    <3>4. CASE ~ (i <= m)
      <4>1. i = m + 1
        BY <3>4
      <4> QED
        BY <3>2, <3>4, <4>1
    <3> QED
      BY <3>3, <3>4
  <2>4. IsSums(numbers, g, m + 1)
    <3> HIDE DEF g
    <3>1. g = [i \in 0 .. m + 1 |-> g[i]]
      BY DEF g
    <3>2. [i \in 0 .. m + 1 |-> g[i]] = [i \in 0 .. m + 1 |-> Summed(numbers, g, i)]
      BY <2>3
    <3> QED
      BY <3>1, <3>2 DEF IsSums
  <2> QED
    BY <2>4, <1>2
<1>3. \A m \in 0 .. n : m \in T
  <2> HIDE DEF T
  <2> QED
    BY <1>1, <1>2, UpTo
<1> QED
  BY <1>3

\* SumOf meets its definition.
LEMMA SumDef ==
    ASSUME NEW numbers, Len(numbers) \in Nat
    PROVE  \E k : /\ k[0] = 0
                  /\ \A m \in 1 .. Len(numbers) : k[m] = k[m - 1] + numbers[m]
                  /\ SumOf(numbers) = k[Len(numbers)]
<1>1. PICK h : IsSums(numbers, h, Len(numbers))
  BY SumsExist
<1> DEFINE k == CHOOSE g : IsSums(numbers, g, Len(numbers))
<1>2. SumOf(numbers) = k[Len(numbers)]
  BY DEF SumOf, IsSums, Summed
<1>3. IsSums(numbers, k, Len(numbers))
  BY <1>1
<1> HIDE DEF k
<1>4. ASSUME NEW m \in 0 .. Len(numbers) PROVE k[m] = Summed(numbers, k, m)
  <2>1. k = [i \in 0 .. Len(numbers) |-> Summed(numbers, k, i)]
    BY <1>3 DEF IsSums
  <2> QED
    BY <2>1
<1>5. k[0] = 0
  BY <1>4 DEF Summed
<1>6. ASSUME NEW m \in 1 .. Len(numbers) PROVE k[m] = k[m - 1] + numbers[m]
  <2>1. m \in 0 .. Len(numbers) /\ m # 0
    OBVIOUS
  <2> QED
    BY <1>4, <2>1 DEF Summed
<1> QED
  BY <1>2, <1>5, <1>6

\* A list in which nothing is twice is as long as the set of what is in it.
LEMMA CountOnce ==
    ASSUME NEW A, NEW s \in Seq(A), NoneTwice(s)
    PROVE  IsFiniteSet(ToSet(s)) /\ Cardinality(ToSet(s)) = Len(s)
<1>1. Len(s) \in Nat /\ s \in [1 .. Len(s) -> A] /\ ToSet(s) = Elements(s)
  BY SameSet, LenProperties
<1>2. s \in Surjection(1 .. Len(s), ToSet(s))
  BY <1>1 DEF Surjection, Elements
<1>3. s \in Injection(1 .. Len(s), ToSet(s))
  BY <1>2 DEF Injection, IsInjective, Surjection, NoneTwice
<1>4. IsFiniteSet(1 .. Len(s)) /\ Cardinality(1 .. Len(s)) = Len(s)
  BY <1>1, FS_Interval
<1> QED
  BY <1>2, <1>3, <1>4, FS_Surjection

\* How many entries a tab has.
Of(X, vendor) == {e \in X : vendor \in {AllVendors, e.vendor}}

LEMMA TabSize ==
    ASSUME NEW A, NEW es \in Seq(A), NoneTwice(es), NEW vendor
    PROVE  Len(FilteredBy(es, vendor)) = Cardinality(Of(ToSet(es), vendor))
<1> DEFINE X == ToSet(es)
           S == {e \in X : vendor \in {AllVendors, e.vendor}}
           kept == Only(es, S)
<1>1. X = Elements(es)
  BY SameSet
<1> HIDE DEF X
<1>2. kept \in Seq(A) /\ Elements(kept) = Elements(es) \cap S /\ NoneTwice(kept)
  BY OnlyKeepsWanted
<1>3. Elements(kept) = S
  BY <1>1, <1>2
<1> HIDE DEF S, kept
<1>4. ToSet(kept) = S /\ Cardinality(ToSet(kept)) = Len(kept)
  BY <1>2, <1>3, SameSet, CountOnce
<1> QED
  BY <1>4 DEF FilteredBy, Of, kept, S, X

\* The sizes of the tabs of some entries, all of which have one ...
SizesOf(sizes, Y, srcs) ==
    /\ \A e \in Y : e.vendor \in {srcs[i].id : i \in DOMAIN srcs}
    /\ Len(sizes) = Len(srcs)
    /\ \A i \in DOMAIN srcs : sizes[i] = Cardinality({e \in Y : e.vendor = srcs[i].id})

\* ... add up to their number.
LEMMA SizesAddUp ==
    ASSUME NEW Y, IsFiniteSet(Y), NEW srcs, SourcesOK(srcs),
           NEW sizes, SizesOf(sizes, Y, srcs)
    PROVE  SumOf(sizes) = Cardinality(Y)
<1> DEFINE n == Len(srcs)
           One(i) == {e \in Y : e.vendor = srcs[i].id}
           Upto0(m) == {e \in Y : \E i \in 1 .. m : e.vendor = srcs[i].id}
<1>0. /\ \A e \in Y : e.vendor \in {srcs[i].id : i \in DOMAIN srcs}
      /\ Len(sizes) = n
      /\ \A i \in DOMAIN srcs : sizes[i] = Cardinality(One(i))
  BY DEF SizesOf
<1>1. n \in Nat /\ DOMAIN srcs = 1 .. n
  BY SameSet DEF SourcesOK
<1>2. PICK k : /\ k[0] = 0
               /\ \A m \in 1 .. n : k[m] = k[m - 1] + sizes[m]
               /\ SumOf(sizes) = k[n]
  BY <1>0, <1>1, SumDef
<1> DEFINE T == {m \in 0 .. n : k[m] = Cardinality(Upto0(m))}
<1>3. 0 \in T
  <2>1. Upto0(0) = {}
    OBVIOUS
  <2> HIDE DEF Upto0
  <2>2. k[0] = Cardinality(Upto0(0))
    BY <1>2, <2>1, FS_EmptySet
  <2> QED
    BY <1>1, <2>2
<1>4. ASSUME NEW m \in 0 .. n, m \in T, m < n PROVE m + 1 \in T
  <2>1. m + 1 \in 1 .. n /\ (m + 1) - 1 = m /\ m + 1 \in 0 .. n
    BY <1>1, <1>4
  <2>2. k[m + 1] = Cardinality(Upto0(m)) + Cardinality(One(m + 1))
    <3>1. k[m + 1] = k[m] + sizes[m + 1] /\ k[m] = Cardinality(Upto0(m))
      BY <1>2, <1>4, <2>1
    <3>2. sizes[m + 1] = Cardinality(One(m + 1))
      BY <1>0, <1>1, <2>1
    <3> QED
      BY <3>1, <3>2
  <2>3. Upto0(m + 1) = Upto0(m) \cup One(m + 1)
    BY <1>1, <2>1
  <2>4. Upto0(m) \cap One(m + 1) = {}
    <3>1. \A i \in 1 .. m : srcs[i].id # srcs[m + 1].id
      <4>1. \A i \in 1 .. m : i \in DOMAIN srcs /\ i # m + 1
        BY <1>1, <2>1
      <4>2. m + 1 \in DOMAIN srcs
        BY <1>1, <2>1
      <4> QED
        BY <4>1, <4>2, Zenon DEF SourcesOK
    <3> QED
      BY <3>1
  <2>5. IsFiniteSet(Upto0(m)) /\ IsFiniteSet(One(m + 1))
    BY FS_Subset
  <2> HIDE DEF Upto0, One
  <2>6. Cardinality(Upto0(m + 1)) = Cardinality(Upto0(m)) + Cardinality(One(m + 1))
    <3>1. Cardinality(Upto0(m)) \in Nat /\ Cardinality(One(m + 1)) \in Nat
      BY <2>5, FS_CardinalityType
    <3>2. Cardinality(Upto0(m) \cap One(m + 1)) = 0
      BY <2>4, FS_EmptySet
    <3>3. Cardinality(Upto0(m) \cup One(m + 1))
             = Cardinality(Upto0(m)) + Cardinality(One(m + 1))
               - Cardinality(Upto0(m) \cap One(m + 1))
      BY <2>5, FS_Union
    <3>4. Cardinality(Upto0(m) \cup One(m + 1))
             = Cardinality(Upto0(m)) + Cardinality(One(m + 1))
      BY <3>1, <3>2, <3>3
    <3> QED
      BY <2>3, <3>4, Zenon
  <2> QED
    BY <2>1, <2>2, <2>6
<1>5. \A m \in 0 .. n : m \in T
  <2> HIDE DEF T
  <2> QED
    BY <1>1, <1>3, <1>4, UpTo
<1>6. Upto0(n) = Y
  BY <1>0, <1>1
<1> QED
  BY <1>1, <1>2, <1>5, <1>6
-----------------------------------------------------------------------------
(* The runtime and what it answers                                         *)

\* The page that a query is answered with, for given entries and sources.
AnswerOf(es, srcs, q) ==
    LET wanted == Parsed(q)
    IN  [vendor |-> wanted.vendor, size |-> NormalPageSize(wanted.size),
         data |-> BuildPageData(es, srcs,
                      SelectPageView(es, wanted.vendor, wanted.size, wanted.page))]

IInv ==
    /\ hostFile \in HostFiles /\ SourcesOK(sources)
    /\ entries = ScanConfigFile(hostFile, sources) /\ Len(entries) <= MaxInt
    /\ \/ shown = NothingShown
       \/ asked \in Queries /\ shown = AnswerOf(entries, sources, asked)

LEMMA InitInv == Init => IInv
<1> SUFFICES ASSUME Init PROVE IInv
  OBVIOUS
<1>1. PICK srcs \in SourceLists : Validated(srcs) # Nil /\ sources = Validated(srcs).sources
  BY DEF Init
<1>2. SourcesOK(sources)
  BY <1>1, ValidSources, Zenon
<1>3. Len(ScanConfigFile(hostFile, sources)) <= MaxInt
  <2>1. hostFile \in HostFiles
    BY DEF Init
  <2> QED
    BY <1>1, <2>1, LengthAssumption
<1> QED
  BY <1>2, <1>3 DEF Init, IInv

LEMMA NextInv == IInv /\ [Next]_vars => IInv'
<1> SUFFICES ASSUME IInv, [Next]_vars PROVE IInv'
  OBVIOUS
<1>1. CASE Show
  <2>1. hostFile' = hostFile /\ sources' = sources /\ entries' = entries
    BY <1>1 DEF Show
  <2>2. asked' \in Queries /\ shown' = AnswerOf(entries, sources, asked')
    BY <1>1, Zenon DEF Show, Answer, AnswerOf
  <2> QED
    BY <2>1, <2>2 DEF IInv
<1>2. CASE UNCHANGED vars
  BY <1>2 DEF vars, IInv
<1> QED
  BY <1>1, <1>2 DEF Next

LEMMA AlwaysInv == Spec => []IInv
  BY InitInv, NextInv, PTL DEF Spec

\* A query's numbers are numbers.
LEMMA ParsedNumbers ==
    ASSUME NEW q
    PROVE  Parsed(q).size \in Int /\ Parsed(q).page \in Int
<1>1. \A text, def : def \in Int => IntParam(text, def) \in Int
  BY SpellingAssumption DEF IntParam
<1>2. DefaultPageSize \in Int /\ 1 \in Int
  BY PageSizeAssumption
<1> QED
  BY <1>1, <1>2, Zenon DEF Parsed

\* Whatever the host's file says and whichever sources the configuration
\* names, the list holds the keys in use with a known vendor, each with the
\* sections it is used in, and no others (scanConfigFile, matchBaseURL).
THEOREM ScanIsExact == Spec => []ScanExact
<1> DEFINE F(src) == {[vendor |-> src.id, key |-> key,
                       types |-> {c.type : c \in {c \in Live(hostFile) :
                                             c.key = key /\ Covers(src, c.urls)}}] :
                          key \in {c.key : c \in {c \in Live(hostFile) :
                                                       Covers(src, c.urls)}}}
<1>1. IInv => ScanExact
  <2> SUFFICES ASSUME IInv PROVE ScanExact
    OBVIOUS
  <2>1. \A src : Found(hostFile, src) = F(src)
    BY Zenon DEF Found, Uses
  <2>2. ScanExact <=> ToSet(entries) = UNION {F(src) : src \in ToSet(sources)}
    BY Zenon DEF ScanExact
  <2> HIDE DEF F
  <2>3. ToSet(entries) = UNION {Found(hostFile, sources[i]) : i \in DOMAIN sources}
    BY ScanRight DEF IInv
  <2>4. ToSet(sources) = {sources[i] : i \in DOMAIN sources}
    BY DEF ToSet
  <2>5. UNION {Found(hostFile, sources[i]) : i \in DOMAIN sources}
           = UNION {F(src) : src \in ToSet(sources)}
    BY <2>1, <2>4
  <2> QED
    BY <2>2, <2>3, <2>5
<1> QED
  BY <1>1, AlwaysInv, PTL

\* A key is listed once per vendor, however many sections, spellings of a URL
\* and sources use it: the cache has one place for it (scanConfigFile, byKey).
THEOREM ListedOncePerVendor == Spec => []OncePerVendor
<1>1. IInv => OncePerVendor
  <2> SUFFICES ASSUME IInv PROVE OncePerVendor
    OBVIOUS
  <2>1. /\ hostFile \in HostFiles /\ SourcesOK(sources)
        /\ entries = ScanConfigFile(hostFile, sources)
    BY DEF IInv
  <2> QED
    BY <2>1, ScanRight DEF OncePerVendor
<1> QED
  BY <1>1, AlwaysInv, PTL

\* A card is at the place its index says, on every page of every list, since
\* the second sort finds nothing to move (buildPageData, renderEntryHTML).
THEOREM IndexIsPlace == Spec => []IdxIsPlace
<1>1. IInv => IdxIsPlace
  <2> SUFFICES ASSUME IInv PROVE IdxIsPlace
    OBVIOUS
  <2>1. CASE shown = NothingShown
    BY <2>1 DEF IdxIsPlace, NothingShown
  <2>2. ASSUME NEW q \in Queries, shown = AnswerOf(entries, sources, q)
        PROVE  IdxIsPlace
    <3> DEFINE wanted == Parsed(q)
               view == SelectPageView(entries, wanted.vendor, wanted.size, wanted.page)
               es == view.entries
    <3>1. wanted.size \in Int /\ wanted.page \in Int
      BY ParsedNumbers
    <3>2. SourcesOK(sources) /\ entries \in Seq(Listed(sources))
      BY ScanRight DEF IInv
    <3>3. es \in Seq(Listed(sources)) /\ Ranked(es) /\ Sorted(es)
      BY <3>1, <3>2, ViewRight
    <3>4. shown.data.cards = SortStable(Numbered(es))
      BY <2>2, Zenon DEF AnswerOf, BuildPageData, Numbered
    <3> HIDE DEF es
    <3>5. SortStable(Numbered(es)) = Numbered(es)
      BY <3>3, CardsStay
    <3> QED
      BY <3>4, <3>5 DEF IdxIsPlace, Numbered
  <2> QED
    BY <2>1, <2>2 DEF IInv
<1> QED
  BY <1>1, AlwaysInv, PTL

\* Turning the pages of a tab shows every entry of the tab once, and no page
\* but the last is short, whatever the page size (selectPageView, pageWindow).
THEOREM PagesTileList == Spec => []PagesTile
<1>1. ASSUME IInv, NEW vendor \in Tabs, NEW size \in Sizes
      PROVE  LET View(n) == SelectPageView(entries, vendor, size, n)
                 last    == PageCount(View(1).total, NormalPageSize(size))
                 pages   == FlattenSeq([n \in 1 .. last |-> View(n).entries])
             IN  /\ ToSet(pages) = ToSet(FilteredBy(entries, vendor))
                 /\ Len(pages) = View(1).total
                 /\ \A n \in 1 .. last - 1 : Len(View(n).entries) = NormalPageSize(size)
  <2> DEFINE View(n) == SelectPageView(entries, vendor, size, n)
             s     == NormalPageSize(size)
             last  == PageCount(View(1).total, s)
             views == [n \in 1 .. last |-> View(n).entries]
             whole == Whole(entries, vendor)
             W(n)  == PageWindow(Len(whole), s, n)
  <2>1. size \in Int
    BY ParsedNumbers DEF Sizes
  <2>2. s \in Nat \ {0}
    BY <2>1, NormalQuery, PageSizeAssumption
  <2>3. SourcesOK(sources) /\ entries \in Seq(Listed(sources))
    BY <1>1, ScanRight DEF IInv
  <2>4. /\ whole \in Seq(Listed(sources))
        /\ ToSet(whole) = ToSet(FilteredBy(entries, vendor))
    BY <2>3, WholeRight
  <2>5. /\ View(1).total = Len(whole)
        /\ \A n \in Nat \ {0} : View(n).entries = SubSeq(whole, W(n).start + 1, W(n).end)
    <3>1. ASSUME NEW n \in Nat \ {0}
          PROVE  View(n).entries = SubSeq(whole, W(n).start + 1, W(n).end)
      <4>1. NormalPage(n) = n
        BY DEF NormalPage
      <4> QED
        BY <4>1, Zenon DEF SelectPageView, Whole
    <3>2. View(1).total = Len(whole)
      BY Zenon DEF SelectPageView, Whole
    <3> QED
      BY <3>1, <3>2
  <2>6. last = PageCount(Len(whole), s)
    BY <2>5
  <2> HIDE DEF View, s, whole
  <2>7. /\ views = [n \in 1 .. PageCount(Len(whole), s) |-> views[n]]
        /\ \A n \in 1 .. PageCount(Len(whole), s) :
              views[n] = SubSeq(whole, W(n).start + 1, W(n).end)
    <3> HIDE DEF W, last
    <3>1. \A n \in 1 .. last : n \in Nat \ {0}
      OBVIOUS
    <3>2. \A n \in 1 .. last : views[n] = SubSeq(whole, W(n).start + 1, W(n).end)
      BY <2>5, <3>1
    <3>3. views = [n \in 1 .. last |-> views[n]]
      OBVIOUS
    <3> QED
      BY <2>6, <3>2, <3>3
  <2> HIDE DEF views
  <2>8. /\ FlattenSeq(views) = whole
        /\ \A n \in 1 .. PageCount(Len(whole), s) - 1 : Len(views[n]) = s
    BY <2>2, <2>4, <2>7, PagesAreWhole
  <2>9. \A n \in 1 .. last - 1 : Len(View(n).entries) = s
    <3>1. \A n \in 1 .. last - 1 : n \in 1 .. last /\ Len(views[n]) = s
      <4>1. last \in Nat \ {0}
        BY <2>2, <2>4, <2>6, SameSet, PageCountBounds
      <4> HIDE DEF last
      <4> QED
        BY <2>6, <2>8, <4>1
    <3> HIDE DEF last
    <3> QED
      BY <3>1 DEF views
  <2>10. Len(FlattenSeq(views)) = View(1).total
    BY <2>5, <2>8
  <2>11. ToSet(FlattenSeq(views)) = ToSet(FilteredBy(entries, vendor))
    BY <2>4, <2>8
  <2> QED
    BY <2>9, <2>10, <2>11 DEF views, View, s
<1>2. IInv => PagesTile
  BY <1>1, Zenon DEF PagesTile
<1> QED
  BY <1>2, AlwaysInv, PTL

\* The counts on the tabs are those of all entries: those of the tabs that are
\* shown add up to the number of cards on all pages, whatever page of which
\* tab it is (buildPageData, selectPageView).
THEOREM TabsCountAll == Spec => []CountsAreTotals
<1> DEFINE tabs == shown.data.tabs
           sizes == [i \in DOMAIN tabs |->
                        IF shown.vendor \in {AllVendors, tabs[i].vendor}
                        THEN tabs[i].count ELSE 0]
<1>1. CountsAreTotals <=> SumOf(sizes) = shown.data.total
  BY Zenon DEF CountsAreTotals
<1>2. ASSUME shown = NothingShown PROVE SumOf(sizes) = shown.data.total
  <2>1. tabs = <<>> /\ shown.data.total = 0
    BY <1>2 DEF NothingShown
  <2> HIDE DEF tabs
  <2>2. Len(sizes) = 0
    BY <2>1
  <2> HIDE DEF sizes
  <2>3. SumOf(sizes) = 0
    BY <2>2, SumDef
  <2> QED
    BY <2>1, <2>3
<1>3. ASSUME IInv, NEW q \in Queries, shown = AnswerOf(entries, sources, q)
      PROVE  SumOf(sizes) = shown.data.total
  <2> DEFINE vendor == Parsed(q).vendor
             X == ToSet(entries)
             Y == Of(X, vendor)
             filtered == FilteredBy(entries, vendor)
  <2>1. SourcesOK(sources) /\ entries \in Seq(Listed(sources)) /\ NoneTwice(entries)
    <3>1. /\ SourcesOK(sources) /\ entries \in Seq(Listed(sources))
          /\ \A a, b \in DOMAIN entries : entries[a] = entries[b] => a = b
      BY <1>3, ScanRight DEF IInv
    <3> QED
      BY <3>1, LenProperties DEF NoneTwice
  <2>2. /\ shown.vendor = vendor
        /\ shown.data.total = Len(SortStable(filtered))
        /\ tabs = [i \in DOMAIN sources |->
                      [vendor |-> sources[i].id,
                       count |-> Len(FilteredBy(entries, sources[i].id))]]
    BY <1>3 DEF AnswerOf, BuildPageData, SelectPageView
  <2> HIDE DEF vendor, tabs
  <2>3. shown.data.total = Cardinality(Y)
    <3>1. filtered \in Seq(Listed(sources))
      BY <2>1, OnlyKeepsWanted DEF FilteredBy
    <3> HIDE DEF filtered
    <3>2. Len(SortStable(filtered)) = Len(filtered)
      BY <2>1, <3>1, ListedRanked, SortSorts
    <3> QED
      BY <2>1, <2>2, <3>2, TabSize DEF filtered
  <2>4. IsFiniteSet(Y)
    <3>1. IsFiniteSet(X)
      BY <2>1, CountOnce
    <3> HIDE DEF X
    <3>2. Y \in SUBSET X
      BY DEF Of
    <3> QED
      BY <3>1, <3>2, FS_Subset
  <2>5. \A e \in X : e.vendor \in {sources[i].id : i \in DOMAIN sources}
    <3>1. \A e \in Listed(sources) : e.vendor \in {sources[i].id : i \in DOMAIN sources}
      BY DEF Listed
    <3> QED
      BY <2>1, <3>1, SameSet
  <2>6. ASSUME NEW i \in DOMAIN sources
        PROVE  sizes[i] = Cardinality({e \in Y : e.vendor = sources[i].id})
    <3> DEFINE id == sources[i].id
    <3>1. sizes[i] = IF vendor \in {AllVendors, id} THEN Len(FilteredBy(entries, id)) ELSE 0
      BY <2>2
    <3>2. id # AllVendors
      BY <2>1 DEF SourcesOK, AllVendors
    <3> HIDE DEF id, sizes, X
    <3>3. CASE vendor \in {AllVendors, id}
      <4>1. {e \in Y : e.vendor = id} = Of(X, id)
        BY <3>2, <3>3 DEF Of
      <4>2. Len(FilteredBy(entries, id)) = Cardinality(Of(X, id))
        BY <2>1, TabSize DEF X
      <4> QED
        BY <3>1, <3>3, <4>1, <4>2 DEF id
    <3>4. CASE vendor \notin {AllVendors, id}
      <4>1. {e \in Y : e.vendor = id} = {}
        BY <3>4 DEF Of
      <4> QED
        BY <3>1, <3>4, <4>1, FS_EmptySet DEF id
    <3> QED
      BY <3>3, <3>4
  <2>7. Len(sizes) = Len(sources)
    <3>1. DOMAIN tabs = DOMAIN sources
      BY <2>2
    <3>2. PICK S : sources \in Seq(S)
      BY <2>1 DEF SourcesOK
    <3> DEFINE B == {sizes[i] : i \in DOMAIN sources}
    <3>3. sizes = [i \in DOMAIN sources |-> sizes[i]] /\ \A i \in DOMAIN sources : sizes[i] \in B
      BY <3>1
    <3> HIDE DEF sizes, B
    <3> QED
      BY <3>2, <3>3, OneEach
  <2> HIDE DEF sizes, X
  <2>8. \A e \in Y : e.vendor \in {sources[i].id : i \in DOMAIN sources}
    BY <2>5 DEF Of
  <2> HIDE DEF Y
  <2>9. SumOf(sizes) = Cardinality(Y)
    <3>1. SizesOf(sizes, Y, sources)
      BY <2>6, <2>7, <2>8 DEF SizesOf
    <3> QED
      BY <2>1, <2>4, <3>1, SizesAddUp
  <2> QED
    BY <2>3, <2>9
<1> HIDE DEF sizes
<1>4. IInv => CountsAreTotals
  BY <1>1, <1>2, <1>3 DEF IInv
<1> QED
  BY <1>4, AlwaysInv, PTL
-----------------------------------------------------------------------------
(* Addresses                                                               *)

LEMMA IntsRight == MaxInt \in Nat /\ MaxPageSize <= MaxInt
BY SpellingAssumption, Zenon

\* A number that was written is read again.
LEMMA NumberReadBack ==
    ASSUME NEW n \in 1 .. MaxInt, NEW def
    PROVE  FirstNonEmpty(ToString(n), "") = ToString(n) /\ IntParam(ToString(n), def) = n
<1> DEFINE text == ToString(n)
<1>1. text # "" /\ Trimmed[text] = text /\ text \in DOMAIN Atoi /\ Atoi[text] = n
  BY SpellingAssumption
<1> HIDE DEF text
<1>2. FirstNonEmpty(text, "") = text
  BY <1>1 DEF FirstNonEmpty
<1>3. n >= 1
  BY IntsRight
<1>4. IntParam(text, def) = n
  BY <1>1, <1>3, Zenon DEF IntParam
<1> QED
  BY <1>2, <1>4 DEF text

\* What the dashboard writes is read as what it meant.
LEMMA ReadBack ==
    ASSUME NEW tab,
           NEW page \in 1 .. MaxInt, NEW size \in 1 .. MaxInt
    PROVE  /\ Parsed(BuildTarget(tab, page, size))
                 = [vendor |-> Trimmed[tab], page |-> page, size |-> size]
           /\ Parsed(SyncURL(tab, page))
                 = [vendor |-> Trimmed[tab], page |-> page, size |-> DefaultPageSize]
<1>1. FirstNonEmpty(tab, "") = tab /\ FirstNonEmpty("", tab) = tab
      /\ FirstNonEmpty("", ToString(page)) = ToString(page)
  BY DEF FirstNonEmpty
<1>2. IntParam(FirstNonEmpty("", ""), DefaultPageSize) = DefaultPageSize
  BY SpellingAssumption DEF FirstNonEmpty, IntParam
<1>3. /\ IntParam(FirstNonEmpty(ToString(page), ""), 1) = page
      /\ IntParam(ToString(page), 1) = page
      /\ IntParam(FirstNonEmpty(ToString(size), ""), DefaultPageSize) = size
  BY NumberReadBack
<1>4. Parsed(BuildTarget(tab, page, size))
         = [vendor |-> Trimmed[tab], page |-> page, size |-> size]
  BY <1>1, <1>3 DEF Parsed, BuildTarget, Query
<1>5. Parsed(SyncURL(tab, page))
         = [vendor |-> Trimmed[tab], page |-> page, size |-> DefaultPageSize]
  BY <1>1, <1>2, <1>3 DEF Parsed, SyncURL, Query
<1> QED
  BY <1>4, <1>5

\* The page that was shown, asked for by its number and size, is that page.
LEMMA PageAgain ==
    ASSUME NEW total \in Nat, NEW size \in Int, NEW page \in Int
    PROVE  LET s == NormalPageSize(size)
               w == PageWindow(total, s, NormalPage(page))
           IN  /\ s \in 1 .. MaxPageSize /\ NormalPageSize(s) = s
               /\ w.page \in Nat \ {0} /\ (w.page <= total \/ w.page = 1)
               /\ PageWindow(total, s, NormalPage(w.page)) = w
<1> DEFINE s == NormalPageSize(size)
           last == PageCount(total, s)
           w == PageWindow(total, s, NormalPage(page))
<1>1. s \in 1 .. MaxPageSize /\ NormalPage(page) \in Nat \ {0}
  BY NormalQuery
<1>2. NormalPageSize(s) = s
  <2> HIDE DEF s
  <2> QED
    BY <1>1, PageSizeAssumption DEF NormalPageSize
<1> HIDE DEF s
<1>2a. s \in Nat \ {0}
  BY <1>1, PageSizeAssumption
<1>3. last \in Nat \ {0} /\ (last - 1) * s <= total
  BY <1>2a, PageCountBounds
<1>4. w.page = ClampPage(total, s, NormalPage(page))
  BY DEF PageWindow
<1> HIDE DEF w
<1>5. w.page \in 1 .. last
  BY <1>1, <1>3, <1>4 DEF ClampPage
<1>6. w.page <= total \/ w.page = 1
  <2> SUFFICES ASSUME last > 1 PROVE last <= total
    BY <1>3, <1>5
  <2>1. CASE total % s = 0
    <3>1. total \div s = last /\ total = (total \div s) * s
      BY <1>1, <2>1, DivMod DEF PageCount
    <3>2. last * 1 <= last * s
      BY <1>1, <1>3, SMT
    <3> QED
      BY <1>3, <3>1, <3>2
  <2>2. CASE total % s # 0
    <3> DEFINE whole == total \div s
               rest == total % s
    <3>1. whole \in Nat /\ rest \in 0 .. s - 1 /\ total = whole * s + rest
      BY <1>2a, DivMod
    <3>2. last = whole + 1
      BY <2>2, <3>1 DEF PageCount
    <3> HIDE DEF whole, rest, last
    <3>3. whole * 1 <= whole * s /\ whole * s \in Nat
      BY <1>2a, <3>1, SMT
    <3> QED
      BY <2>2, <3>1, <3>2, <3>3 DEF rest
  <2> QED
    BY <2>1, <2>2
<1>7. ClampPage(total, s, NormalPage(w.page)) = w.page
  BY <1>3, <1>5 DEF NormalPage, ClampPage
<1>8. PageWindow(total, s, NormalPage(w.page)) = w
  BY <1>4, <1>7 DEF PageWindow, w
<1> QED
  BY <1>1, <1>2, <1>5, <1>6, <1>8 DEF s, w

\* With the tab that the script holds, a request for the page on the screen or
\* a card of it and the address that it writes lead back to this page,
\* whatever page and size were asked for; the address does so for pages of
\* the default size.  It is so unless a document was opened in the spelling
\* of the fragments, or fragments were asked of a tab that is no more
\* (handleManagement, buildTarget, syncURL).
THEOREM AddressesLeadBack == Spec => []SameViewAgain
<1>1. ASSUME IInv, NEW q \in Queries, q = asked,
             shown = AnswerOf(entries, sources, q), OwnSpelling(asked)
      PROVE  /\ Answer(BuildTarget(CurrentTab, shown.data.page, shown.size)) = shown
             /\ shown.size = DefaultPageSize =>
                   Answer(SyncURL(CurrentTab, shown.data.page)) = shown
  <2> DEFINE wanted == Parsed(q)
             vendor == wanted.vendor
             size == NormalPageSize(wanted.size)
             total == Len(SortStable(FilteredBy(entries, vendor)))
             w == PageWindow(total, size, NormalPage(wanted.page))
             Shown(sz, pg) == [vendor |-> vendor, size |-> NormalPageSize(sz),
                               data |-> BuildPageData(entries, sources,
                                           SelectPageView(entries, vendor, sz, pg))]
  <2>1. wanted.size \in Int /\ wanted.page \in Int
    BY ParsedNumbers
  <2>1a. vendor = Trimmed[CurrentTab]
    <3>1. FirstNonEmpty(q.vendor, q.v) = CurrentTab
      BY <1>1 DEF OwnSpelling, CurrentTab, FirstNonEmpty
    <3> QED
      BY <3>1 DEF Parsed
  <2>2. total \in Nat /\ total <= MaxInt
    <3>1. /\ SourcesOK(sources) /\ entries \in Seq(Listed(sources))
          /\ Len(entries) <= MaxInt
      BY <1>1, ScanRight DEF IInv
    <3> DEFINE filtered == FilteredBy(entries, vendor)
    <3>2. filtered \in Seq(Listed(sources)) /\ Len(filtered) <= Len(entries)
      BY <3>1, OnlyKeepsWanted DEF FilteredBy
    <3> HIDE DEF filtered
    <3>3. Len(SortStable(filtered)) = Len(filtered) /\ Len(filtered) \in Nat
      BY <3>1, <3>2, ListedRanked, SortSorts, LenProperties
    <3>4. Len(entries) \in Nat
      BY <3>1, LenProperties
    <3> QED
      BY <3>1, <3>2, <3>3, <3>4, IntsRight DEF filtered
  <2>3. shown = Shown(wanted.size, wanted.page)
    BY <1>1 DEF AnswerOf
  <2>4. /\ size \in 1 .. MaxPageSize /\ NormalPageSize(size) = size
        /\ w.page \in Nat \ {0} /\ (w.page <= total \/ w.page = 1)
        /\ PageWindow(total, size, NormalPage(w.page)) = w
    <3> HIDE DEF total, wanted
    <3> QED
      BY <2>1, <2>2, PageAgain
  <2>5. size \in 1 .. MaxInt /\ w.page \in 1 .. MaxInt
    <3> HIDE DEF size, w, total
    <3> QED
      BY <2>2, <2>4, PageSizeAssumption, IntsRight
  <2>6. shown.vendor = vendor /\ shown.size = size /\ shown.data.page = w.page
    BY <2>3 DEF BuildPageData, SelectPageView
  <2>7. SelectPageView(entries, vendor, size, w.page)
           = SelectPageView(entries, vendor, wanted.size, wanted.page)
    <3>1. SelectPageView(entries, vendor, wanted.size, wanted.page)
             = [page |-> w.page, total |-> total,
                entries |-> SubSeq(SortStable(FilteredBy(entries, vendor)),
                                   w.start + 1, w.end)]
      BY DEF SelectPageView
    <3>2. SelectPageView(entries, vendor, size, w.page)
             = LET again == PageWindow(total, NormalPageSize(size), NormalPage(w.page))
               IN  [page |-> again.page, total |-> total,
                    entries |-> SubSeq(SortStable(FilteredBy(entries, vendor)),
                                       again.start + 1, again.end)]
      BY DEF SelectPageView
    <3> HIDE DEF w, size, total
    <3> QED
      BY <2>4, <3>1, <3>2
  <2>8. Shown(size, w.page) = shown
    <3> HIDE DEF w, wanted, vendor, size
    <3> QED
      BY <2>3, <2>4, <2>7 DEF size
  <2>9. ASSUME NEW r, NEW sz,
               Parsed(r) = [vendor |-> vendor, page |-> w.page, size |-> sz]
        PROVE  Answer(r) = Shown(sz, w.page)
    <3> HIDE DEF w, wanted, vendor, size
    <3> QED
      BY <2>9 DEF Answer
  <2> HIDE DEF w, wanted, vendor, size, Shown
  <2>10. Answer(BuildTarget(CurrentTab, w.page, size)) = shown
    BY <2>1a, <2>5, <2>8, <2>9, ReadBack
  <2>11. size = DefaultPageSize => Answer(SyncURL(CurrentTab, w.page)) = shown
    BY <2>1a, <2>5, <2>8, <2>9, ReadBack
  <2> QED
    BY <2>6, <2>10, <2>11
<1>2. IInv => SameViewAgain
  BY <1>1 DEF IInv, SameViewAgain
<1> QED
  BY <1>2, AlwaysInv, PTL
=============================================================================
