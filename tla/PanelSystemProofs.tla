-------------------------- MODULE PanelSystemProofs -------------------------
EXTENDS PanelSystem, FiniteSetTheorems, SequenceTheorems, TLAPS

\* What is proved of the server and of the script, for those of this system.
SP == INSTANCE PanelServerProofs WITH AnyVendor <- AllTab

DP == INSTANCE DashboardProofs WITH
        site <- Site, edits <- 0, MaxEdits <- 0,
        CardStates <- States, AskedStates <- States

\* Sizes are sizes and finite is finite, in all these modules.
LEMMA SameSize ==
    \A X : /\ S!Cardinality(X) = Cardinality(X)
           /\ SP!Cardinality(X) = Cardinality(X)
           /\ D!Cardinality(X) = Cardinality(X)
           /\ DP!Cardinality(X) = Cardinality(X)
BY DEF S!Cardinality, SP!Cardinality, D!Cardinality, DP!Cardinality, Cardinality

LEMMA SameFinite ==
    \A X : /\ S!IsFiniteSet(X) <=> IsFiniteSet(X)
           /\ SP!IsFiniteSet(X) <=> IsFiniteSet(X)
           /\ D!IsFiniteSet(X) <=> IsFiniteSet(X)
           /\ DP!IsFiniteSet(X) <=> IsFiniteSet(X)
BY DEF S!IsFiniteSet, SP!IsFiniteSet, D!IsFiniteSet, DP!IsFiniteSet, IsFiniteSet

\* What these modules assume.
LEMMA Assumptions ==
    /\ SP!EntriesAssumption /\ SP!RequestsAssumption /\ SP!ConfigsAssumption
    /\ SP!BoundsAssumption /\ SP!NoResultAssumption /\ SP!PageSizeAssumption
    /\ DP!DashboardAssumption /\ DP!PageSizeAssumption
<1>1. /\ SP!EntriesAssumption /\ SP!RequestsAssumption /\ SP!ConfigsAssumption
      /\ SP!BoundsAssumption /\ SP!NoResultAssumption
  BY ServerAssumption
     DEF S!EntriesAssumption, S!RequestsAssumption, S!ConfigsAssumption,
         S!BoundsAssumption, S!NoResultAssumption, S!IsFiniteSet, S!Result,
         S!Runtimes, S!Times, SP!EntriesAssumption, SP!RequestsAssumption,
         SP!ConfigsAssumption, SP!BoundsAssumption, SP!NoResultAssumption,
         SP!IsFiniteSet, SP!Result, SP!Runtimes, SP!Times
<1>2. DP!DashboardAssumption
  BY BrowserAssumption
     DEF D!DashboardAssumption, D!IsFiniteSet, D!IsInjective,
         DP!DashboardAssumption, DP!IsFiniteSet, DP!IsInjective
<1> QED
  BY <1>1, <1>2, PageSizeAssumption DEF SP!PageSizeAssumption, DP!PageSizeAssumption
-----------------------------------------------------------------------------
(* Lists in display order                                                  *)

\* How many entries of a set come before one.
Before(e, X) == {d \in X : DisplayRank[d] < DisplayRank[e]}

LEMMA PositionIs ==
    ASSUME NEW X, NEW e
    PROVE  S!Position(e, X) = Cardinality(Before(e, X))
BY SameSize DEF S!Position, Before

LEMMA Ranks ==
    /\ IsFiniteSet(Entries)
    /\ \A e \in Entries : DisplayRank[e] \in Nat
    /\ \A d, e \in Entries : DisplayRank[d] = DisplayRank[e] => d = e
BY ServerAssumption, SameFinite DEF S!EntriesAssumption

\* An earlier entry has a lower position.
LEMMA PositionRises ==
    ASSUME NEW X \in SUBSET Entries, NEW d \in X, NEW e \in X
    PROVE  /\ S!Position(d, X) \in 0 .. Cardinality(X) - 1
           /\ S!Position(d, X) < S!Position(e, X) <=> DisplayRank[d] < DisplayRank[e]
           /\ S!Position(d, X) = S!Position(e, X) <=> d = e
<1>0. IsFiniteSet(X) /\ Cardinality(X) \in Nat
  BY Ranks, FS_Subset, FS_CardinalityType
<1>1. \A c \in X : /\ IsFiniteSet(Before(c, X)) /\ Cardinality(Before(c, X)) \in Nat
                   /\ Cardinality(Before(c, X)) < Cardinality(X)
  <2> SUFFICES ASSUME NEW c \in X
               PROVE  /\ IsFiniteSet(Before(c, X)) /\ Cardinality(Before(c, X)) \in Nat
                      /\ Cardinality(Before(c, X)) < Cardinality(X)
    OBVIOUS
  <2>1. Before(c, X) \in SUBSET X /\ c \notin Before(c, X)
    BY Ranks DEF Before
  <2>2. Before(c, X) # X
    BY <2>1
  <2> QED
    BY <1>0, <2>1, <2>2, FS_Subset, FS_CardinalityType
<1>2. ASSUME NEW b \in X, NEW c \in X, DisplayRank[b] < DisplayRank[c]
      PROVE  Cardinality(Before(b, X)) < Cardinality(Before(c, X))
  <2>1. /\ Before(b, X) \in SUBSET Before(c, X)
        /\ b \in Before(c, X) /\ b \notin Before(b, X)
    BY <1>2, Ranks DEF Before
  <2>2. Before(b, X) # Before(c, X)
    BY <2>1
  <2>3. /\ Cardinality(Before(b, X)) <= Cardinality(Before(c, X))
        /\ Cardinality(Before(c, X)) # Cardinality(Before(b, X))
    BY <1>1, <2>1, <2>2, FS_Subset
  <2> QED
    BY <1>1, <2>3
<1>3. \/ DisplayRank[d] < DisplayRank[e] \/ DisplayRank[e] < DisplayRank[d]
      \/ d = e
  BY Ranks
<1>4. DisplayRank[d] \in Nat /\ DisplayRank[e] \in Nat
  BY Ranks
<1> QED
  BY <1>0, <1>1, <1>2, <1>3, <1>4, PositionIs

\* A list of entries in which the earlier come first.
Ordered(s) == \A i, j \in 1 .. Len(s) : i < j => DisplayRank[s[i]] < DisplayRank[s[j]]

\* There is one list of the entries of a set in order, and Sorted is it.
LEMMA SortedIsOnly ==
    ASSUME NEW X \in SUBSET Entries, NEW s \in Seq(X), Ordered(s),
           \A e \in X : \E i \in 1 .. Len(s) : s[i] = e
    PROVE  s = Sorted(X)
<1>0. /\ Len(s) \in Nat /\ s \in [1 .. Len(s) -> X]
      /\ \A i \in 1 .. Len(s) : s[i] \in X
  BY LenProperties
<1>1. \A i, j \in 1 .. Len(s) : s[i] = s[j] => i = j
  BY <1>0, Ranks DEF Ordered
<1>2. Cardinality(X) = Len(s)
  <2>1. s \in Bijection(1 .. Len(s), X)
    BY <1>0, <1>1 DEF Bijection, Injection, Surjection, IsInjective
  <2>2. ExistsBijection(1 .. Len(s), X)
    BY <2>1 DEF ExistsBijection
  <2> QED
    BY <1>0, <2>2, FS_CountingElements
<1>3. ASSUME NEW i \in 1 .. Len(s) PROVE S!Position(s[i], X) = i - 1
  <2> DEFINE f == [j \in 1 .. i - 1 |-> s[j]]
             B == Before(s[i], X)
  <2>1. \A j \in 1 .. i - 1 : f[j] \in B
    BY <1>0 DEF Ordered, Before
  <2>2. ASSUME NEW e \in B PROVE \E j \in 1 .. i - 1 : f[j] = e
    <3>1. e \in X /\ DisplayRank[e] < DisplayRank[s[i]]
      BY DEF Before
    <3>2. PICK j \in 1 .. Len(s) : s[j] = e
      BY <3>1
    <3>3. ~ (i <= j)
      <4>1. DisplayRank[e] \in Nat /\ DisplayRank[s[i]] \in Nat
        BY <1>0, <3>1, Ranks
      <4> QED
        BY <1>0, <3>1, <3>2, <4>1 DEF Ordered
    <3> QED
      BY <1>0, <3>2, <3>3
  <2>3. f \in Bijection(1 .. i - 1, B)
    <3>1. f \in [1 .. i - 1 -> B]
      BY <2>1
    <3>2. \A j, k \in 1 .. i - 1 : f[j] = f[k] => j = k
      BY <1>0, <1>1
    <3> HIDE DEF f, B
    <3> QED
      BY <2>2, <3>1, <3>2 DEF Bijection, Injection, Surjection, IsInjective
  <2>4. ExistsBijection(1 .. i - 1, B)
    BY <2>3 DEF ExistsBijection
  <2>5. i - 1 \in Nat
    BY <1>0
  <2> QED
    BY <2>4, <2>5, FS_CountingElements, PositionIs
<1>4. ASSUME NEW i \in 1 .. Len(s)
      PROVE  s[i] = CHOOSE e \in X : S!Position(e, X) = i - 1
  BY <1>0, <1>3, PositionRises
<1> QED
  BY <1>0, <1>2, <1>4 DEF Sorted

\* Sorted lists a set, each entry in the place of its position.
LEMMA SortedLists ==
    ASSUME NEW X \in SUBSET Entries
    PROVE  /\ Cardinality(X) \in Nat
           /\ Sorted(X) \in Seq(X) /\ Len(Sorted(X)) = Cardinality(X)
           /\ \A i \in 1 .. Cardinality(X) :
                 Sorted(X)[i] \in X /\ S!Position(Sorted(X)[i], X) = i - 1
           /\ \A e \in X : /\ S!Position(e, X) + 1 \in 1 .. Cardinality(X)
                           /\ Sorted(X)[S!Position(e, X) + 1] = e
           /\ Ordered(Sorted(X))
<1> DEFINE n == Cardinality(X)
           f == [e \in X |-> S!Position(e, X) + 1]
<1>0. IsFiniteSet(X) /\ n \in Nat
  BY Ranks, FS_Subset, FS_CardinalityType
<1>1. \A e \in X : S!Position(e, X) + 1 \in 1 .. n
  BY <1>0, PositionRises
<1>2. \A d, e \in X : S!Position(d, X) + 1 = S!Position(e, X) + 1 => d = e
  <2> SUFFICES ASSUME NEW d \in X, NEW e \in X,
                      S!Position(d, X) + 1 = S!Position(e, X) + 1
               PROVE  d = e
    OBVIOUS
  <2>1. S!Position(d, X) \in Int /\ S!Position(e, X) \in Int
    BY <1>0, PositionRises
  <2> QED
    BY <2>1, PositionRises
<1>3. f \in Injection(X, 1 .. n)
  BY <1>1, <1>2 DEF Injection, IsInjective
<1>4. IsFiniteSet(1 .. n) /\ Cardinality(1 .. n) = n
  BY <1>0, FS_Interval
<1>5. f \in Surjection(X, 1 .. n)
  <2> HIDE DEF f
  <2> QED
    BY <1>3, <1>4, FS_Injection
<1>6. \A i \in 1 .. n : \E e \in X : S!Position(e, X) + 1 = i
  BY <1>5 DEF Surjection
<1>7. ASSUME NEW i \in 1 .. n
      PROVE  Sorted(X)[i] \in X /\ S!Position(Sorted(X)[i], X) = i - 1
  <2>1. PICK e \in X : S!Position(e, X) + 1 = i
    BY <1>6
  <2>2. S!Position(e, X) \in Int
    BY <1>0, PositionRises
  <2>3. S!Position(e, X) = i - 1
    BY <2>1, <2>2
  <2> QED
    BY <2>3 DEF Sorted
<1>8. Sorted(X) \in [1 .. n -> X]
  BY <1>7 DEF Sorted
<1>9. Sorted(X) \in Seq(X) /\ Len(Sorted(X)) = n
  <2>1. Sorted(X) \in Seq(X)
    BY <1>0, <1>8, IsASeq
  <2> QED
    BY <1>0, <1>8, <2>1, LenProperties
<1>10. ASSUME NEW e \in X PROVE Sorted(X)[S!Position(e, X) + 1] = e
  <2>1. S!Position(e, X) \in Int
    BY <1>0, PositionRises
  <2>2. /\ Sorted(X)[S!Position(e, X) + 1] \in X
        /\ S!Position(Sorted(X)[S!Position(e, X) + 1], X) = S!Position(e, X)
    BY <1>1, <1>7, <2>1
  <2> QED
    BY <2>2, PositionRises
<1>11. Ordered(Sorted(X))
  <2> SUFFICES ASSUME NEW i \in 1 .. n, NEW j \in 1 .. n, i < j
               PROVE  DisplayRank[Sorted(X)[i]] < DisplayRank[Sorted(X)[j]]
    BY <1>9 DEF Ordered
  <2> QED
    BY <1>7, PositionRises
<1> QED
  BY <1>0, <1>1, <1>7, <1>9, <1>10, <1>11

\* The entries of a tab, in order.
LEMMA TabSorted ==
    ASSUME NEW X \in SUBSET Entries, NEW T
    PROVE  DP!Only(Sorted(X), T) = Sorted(X \cap T)
<1> DEFINE s == Sorted(X)
           k == DP!Only(s, T)
           R == {p \in X \X X : DisplayRank[p[1]] < DisplayRank[p[2]]}
<1>1. /\ s \in Seq(X) /\ Len(s) \in Nat /\ Ordered(s)
      /\ \A i \in 1 .. Len(s) : s[i] \in X
      /\ \A e \in X : \E i \in 1 .. Len(s) : s[i] = e
  BY SortedLists
<1> HIDE DEF s
<1>2. /\ k \in Seq(X)
      /\ {k[i] : i \in 1 .. Len(k)} = {s[i] : i \in 1 .. Len(s)} \cap T
  <2>1. k \in Seq(X) /\ DP!Elements(k) = DP!Elements(s) \cap T
    BY <1>1, Assumptions, DP!OnlyKeepsWanted
  <2> HIDE DEF k
  <2> QED
    BY <2>1 DEF DP!Elements
<1>3. DP!Rises(s, R)
  <2> SUFFICES ASSUME NEW i \in 1 .. Len(s), NEW j \in 1 .. Len(s), i < j
               PROVE  <<s[i], s[j]>> \in R
    BY DEF DP!Rises
  <2>1. DisplayRank[s[i]] < DisplayRank[s[j]]
    BY <1>1 DEF Ordered
  <2> QED
    BY <1>1, <2>1
<1>4. DP!Rises(k, R)
  <2> HIDE DEF R
  <2> QED
    BY <1>1, <1>3, Assumptions, DP!OnlyKeepsOrder
<1> HIDE DEF k
<1>5. Ordered(k)
  <2> SUFFICES ASSUME NEW i \in 1 .. Len(k), NEW j \in 1 .. Len(k), i < j
               PROVE  DisplayRank[k[i]] < DisplayRank[k[j]]
    BY DEF Ordered
  <2>1. <<k[i], k[j]>> \in R
    BY <1>4 DEF DP!Rises
  <2> QED
    BY <2>1
<1>6. Len(k) \in Nat /\ {k[i] : i \in 1 .. Len(k)} = X \cap T
  BY <1>1, <1>2, LenProperties
<1>7. k \in Seq(X \cap T)
  <2>1. k \in [1 .. Len(k) -> X \cap T]
    BY <1>2, <1>6, LenProperties
  <2> QED
    BY <1>6, <2>1, IsASeq
<1>8. \A e \in X \cap T : \E i \in 1 .. Len(k) : k[i] = e
  BY <1>6
<1> QED
  BY <1>5, <1>7, <1>8, SortedIsOnly DEF k, s

\* A slice of the entries in order.
LEMMA SliceSorted ==
    ASSUME NEW X \in SUBSET Entries, NEW a \in Nat, NEW b \in Nat,
           b <= Cardinality(X)
    PROVE  SubSeq(Sorted(X), a + 1, b)
             = Sorted({e \in X : a <= S!Position(e, X) /\ S!Position(e, X) < b})
<1> DEFINE s == Sorted(X)
           k == SubSeq(s, a + 1, b)
           Y == {e \in X : a <= S!Position(e, X) /\ S!Position(e, X) < b}
<1>1. /\ s \in Seq(X) /\ Len(s) = Cardinality(X) /\ Len(s) \in Nat /\ Ordered(s)
      /\ \A i \in 1 .. Len(s) : s[i] \in X /\ S!Position(s[i], X) = i - 1
      /\ \A e \in X : /\ S!Position(e, X) + 1 \in 1 .. Len(s)
                      /\ s[S!Position(e, X) + 1] = e
  BY SortedLists
<1>2. \A e \in X : S!Position(e, X) \in Int
  BY <1>1, PositionRises
<1> HIDE DEF s
<1>3. k = [i \in 1 .. (IF a + 1 <= b THEN b - a ELSE 0) |-> s[i + a]]
  BY <1>1
<1>4. /\ Len(k) \in Nat /\ Len(k) = IF a + 1 <= b THEN b - a ELSE 0
      /\ \A i \in 1 .. Len(k) : i + a \in 1 .. Len(s) /\ k[i] = s[i + a]
  BY <1>1, <1>3
<1>5. k = [i \in 1 .. Len(k) |-> s[i + a]]
  BY <1>3, <1>4
<1> HIDE DEF k
<1>6. k \in Seq(Y)
  <2>1. ASSUME NEW i \in 1 .. Len(k) PROVE k[i] \in Y
    <3>1. k[i] \in X /\ S!Position(k[i], X) = i + a - 1
      BY <1>1, <1>4
    <3>2. a <= i + a - 1 /\ i + a - 1 < b
      BY <1>4
    <3> QED
      BY <3>1, <3>2
  <2>2. k \in [1 .. Len(k) -> Y]
    BY <1>5, <2>1
  <2> QED
    BY <1>4, <2>2, IsASeq
<1>7. ASSUME NEW e \in Y PROVE \E i \in 1 .. Len(k) : k[i] = e
  <2> DEFINE p == S!Position(e, X)
  <2>1. p \in Int /\ a <= p /\ p < b /\ p + 1 \in 1 .. Len(s) /\ s[p + 1] = e
    BY <1>1, <1>2
  <2> HIDE DEF p
  <2>2. p + 1 - a \in 1 .. Len(k) /\ (p + 1 - a) + a = p + 1
    BY <1>1, <1>4, <2>1
  <2>3. k[p + 1 - a] = e
    BY <1>4, <2>1, <2>2
  <2> QED
    BY <2>2, <2>3
<1>8. Ordered(k)
  <2> SUFFICES ASSUME NEW i \in 1 .. Len(k), NEW j \in 1 .. Len(k), i < j
               PROVE  DisplayRank[k[i]] < DisplayRank[k[j]]
    BY DEF Ordered
  <2>1. /\ i + a \in 1 .. Len(s) /\ j + a \in 1 .. Len(s) /\ i + a < j + a
        /\ k[i] = s[i + a] /\ k[j] = s[j + a]
    BY <1>4
  <2> QED
    BY <1>1, <2>1 DEF Ordered
<1>9. Y \in SUBSET Entries
  OBVIOUS
<1> HIDE DEF Y
<1> QED
  BY <1>6, <1>7, <1>8, <1>9, SortedIsOnly DEF k, Y, s

\* A page that the server selects, for a list of entries, is the page of the
\* dashboard's view of it.
LEMMA PagesAgree ==
    ASSUME NEW E \in SUBSET Entries, NEW V,
           NEW tb \in DP!Tabs, NEW pg \in DP!Pages, NEW idx, NEW force,
           [scan |-> Sorted(E), vendors |-> V] \in Sites
    PROVE  LET s == [scan |-> Sorted(E), vendors |-> V]
               tabbed == {e \in E : tb \in {AllTab, VendorOf[e]}}
               view == S!PageOf(E, Target(tb, pg, idx, force))
           IN  /\ DP!Filtered[s][tb] = Sorted(tabbed)
               /\ Len(DP!Filtered[s][tb]) = Cardinality(tabbed)
               /\ view \in SUBSET Entries
               /\ DP!View[s][tb][pg] = Sorted(view)
<1> DEFINE s == [scan |-> Sorted(E), vendors |-> V]
           tabbed == {e \in E : tb \in {AllTab, VendorOf[e]}}
           n == Cardinality(tabbed)
           w == PageWindow(n, DefaultPageSize, pg)
           view == S!PageOf(E, Target(tb, pg, idx, force))
<1>1. /\ DefaultPageSize \in Nat \ {0} /\ MaxPageSize \in Nat
      /\ DefaultPageSize <= MaxPageSize
  BY PageSizeAssumption
<1>2. tabbed \in SUBSET Entries /\ n \in Nat
  BY SortedLists
<1>3. DP!Filtered[s][tb] = Sorted(tabbed) /\ Len(DP!Filtered[s][tb]) = n
  <2>1. DP!Filtered[s][tb]
          = DP!Only(Sorted(E), {e \in Entries : tb \in {AllTab, VendorOf[e]}})
    BY DEF DP!Filtered
  <2>2. E \cap {e \in Entries : tb \in {AllTab, VendorOf[e]}} = tabbed
    OBVIOUS
  <2>3. DP!Filtered[s][tb] = Sorted(tabbed)
    BY <2>1, <2>2, TabSorted
  <2> HIDE DEF tabbed
  <2> QED
    BY <1>2, <2>3, SortedLists
<1>4. pg \in Nat /\ pg >= 1
  BY DEF DP!Pages
<1>5. w.start \in Nat /\ w.end \in Nat /\ w.end <= n
  <2>1. w = DP!PageWindow(n, DefaultPageSize, pg)
    BY DEF PageWindow, ClampPage, PageCount, WindowStart, WindowEnd,
           DP!PageWindow, DP!ClampPage, DP!PageCount, DP!WindowStart, DP!WindowEnd
  <2>2. 0 <= w.start /\ w.start <= w.end /\ w.end <= n
    <3> DEFINE v == DP!PageWindow(n, DefaultPageSize, pg)
    <3>1. DP!DashboardAssumption /\ DP!PageSizeAssumption
      BY Assumptions
    <3>2. n \in Nat /\ DefaultPageSize \in Nat \ {0} /\ pg \in Nat \ {0}
      BY <1>1, <1>2, <1>4
    <3> HIDE DEF n, w
    <3>3. 0 <= v.start /\ v.start <= v.end /\ v.end <= n
      BY <3>1, <3>2, DP!PageWindowBounds
    <3> QED
      BY <2>1, <3>3, Zenon
  <2>3. w.start \in Int /\ w.end \in Int
    BY <1>1, <1>2, <1>4 DEF PageWindow, ClampPage, PageCount, WindowStart, WindowEnd
  <2> HIDE DEF w, n
  <2> QED
    BY <1>2, <2>2, <2>3
<1>6. DP!View[s][tb][pg] = SubSeq(Sorted(tabbed), w.start + 1, w.end)
  BY <1>3 DEF DP!View, PageWindow, ClampPage, PageCount, WindowStart, WindowEnd,
         DP!PageWindow, DP!ClampPage, DP!PageCount, DP!WindowStart, DP!WindowEnd
<1>7. view = {e \in tabbed : /\ w.start <= S!Position(e, tabbed)
                             /\ S!Position(e, tabbed) < w.end}
  BY <1>1, <1>4, SameSize DEF S!PageOf, Target, S!NormalPage, S!NormalPageSize,
         PageWindow, ClampPage, PageCount, WindowStart, WindowEnd,
         S!PageWindow, S!ClampPage, S!PageCount, S!WindowStart, S!WindowEnd
<1> HIDE DEF w, view
<1>8. DP!View[s][tb][pg] = Sorted(view)
  BY <1>2, <1>5, <1>6, <1>7, SliceSorted
<1> QED
  BY <1>2, <1>3, <1>7, <1>8 DEF view
-----------------------------------------------------------------------------
(* The steps of the server, and of the dashboard, are those of its module  *)

LEMMA SameSteps ==
    ASSUME NEW t
    PROVE  /\ S!Receive(t) <=> SP!Receive(t)
           /\ S!RescanHostConfig(t) <=> SP!RescanHostConfig(t)
           /\ S!StampScan(t) <=> SP!StampScan(t)
           /\ S!SelectPageView(t) <=> SP!SelectPageView(t)
           /\ S!RefreshBegin(t) <=> SP!RefreshBegin(t)
           /\ S!CheckFresh(t) <=> SP!CheckFresh(t)
           /\ S!FetchOneQuota(t) <=> SP!FetchOneQuota(t)
           /\ S!StoreQuota(t) <=> SP!StoreQuota(t)
           /\ S!BuildPageData(t) <=> SP!BuildPageData(t)
           /\ S!Respond(t) <=> SP!Respond(t)
<1> USE DEF S!Shared, SP!Shared, S!FirstStep, SP!FirstStep, S!IdleCall,
            SP!IdleCall, S!NoQuota, SP!NoQuota, S!Runtimes, SP!Runtimes,
            S!World, SP!World, S!Lock, SP!Lock, S!Unlocked, SP!Unlocked,
            S!Working, SP!Working, S!UnderWay, SP!UnderWay, S!NoScan,
            SP!NoScan, S!EndScan, SP!EndScan, S!ReadFor, SP!ReadFor,
            S!Matching, SP!Matching, S!ScanLocked, SP!ScanLocked,
            S!Position, SP!Position,
            S!PageOf, SP!PageOf, S!SinglesOut, SP!SinglesOut, S!Wanted,
            SP!Wanted, S!IsFresh, SP!IsFresh, S!NormalPage, SP!NormalPage,
            S!NormalPageSize, SP!NormalPageSize, S!PageCount, SP!PageCount,
            S!ClampPage, SP!ClampPage, S!WindowStart, SP!WindowStart,
            S!WindowEnd, SP!WindowEnd, S!PageWindow, SP!PageWindow,
            S!Answered, SP!Answered, S!Cardinality, SP!Cardinality
<1>1. S!Receive(t) <=> SP!Receive(t)
  BY DEF S!Receive, SP!Receive
<1>2. S!RescanHostConfig(t) <=> SP!RescanHostConfig(t)
  BY DEF S!RescanHostConfig, SP!RescanHostConfig
<1>3. S!SelectPageView(t) <=> SP!SelectPageView(t)
  BY DEF S!SelectPageView, SP!SelectPageView
<1>4. S!RefreshBegin(t) <=> SP!RefreshBegin(t)
  BY DEF S!RefreshBegin, SP!RefreshBegin
<1>5. S!CheckFresh(t) <=> SP!CheckFresh(t)
  BY DEF S!CheckFresh, SP!CheckFresh
<1>6. S!FetchOneQuota(t) <=> SP!FetchOneQuota(t)
  BY DEF S!FetchOneQuota, SP!FetchOneQuota
<1>7. S!StoreQuota(t) <=> SP!StoreQuota(t)
  BY DEF S!StoreQuota, SP!StoreQuota
<1>8. S!BuildPageData(t) <=> SP!BuildPageData(t)
  BY DEF S!BuildPageData, SP!BuildPageData
<1>9. S!Respond(t) <=> SP!Respond(t)
  BY DEF S!Respond, SP!Respond
<1>10. S!StampScan(t) <=> SP!StampScan(t)
  BY DEF S!StampScan, SP!StampScan
<1> QED
  BY <1>1, <1>2, <1>3, <1>4, <1>5, <1>6, <1>7, <1>8, <1>9, <1>10

LEMMA SameHost ==
    /\ S!Configure <=> SP!Configure
    /\ S!Install <=> SP!Install
    /\ S!Shutdown <=> SP!Shutdown
<1> USE DEF S!World, SP!World, S!Lock, SP!Lock, S!Unlocked, SP!Unlocked,
            S!NoScan, SP!NoScan, S!EndScan, SP!EndScan, S!ReadFor, SP!ReadFor,
            S!Matching, SP!Matching, S!ScanLocked, SP!ScanLocked, S!NoQuota,
            SP!NoQuota, S!BuildRuntime, SP!BuildRuntime
<1>1. S!Configure <=> SP!Configure
  BY DEF S!Configure, SP!Configure
<1>2. S!Install <=> SP!Install
  BY DEF S!Install, SP!Install
<1>3. S!Shutdown <=> SP!Shutdown
  BY DEF S!Shutdown, SP!Shutdown
<1> QED
  BY <1>1, <1>2, <1>3

LEMMA SamePages ==
    ASSUME NEW E, NEW req
    PROVE  S!PageOf(E, req) = SP!PageOf(E, req)
BY DEF S!PageOf, SP!PageOf, S!Position, SP!Position, S!Cardinality,
       SP!Cardinality, S!NormalPage, SP!NormalPage, S!NormalPageSize,
       SP!NormalPageSize, S!PageCount, SP!PageCount, S!ClampPage,
       SP!ClampPage, S!WindowStart, SP!WindowStart, S!WindowEnd, SP!WindowEnd,
       S!PageWindow, SP!PageWindow

LEMMA SameEvents ==
    ASSUME NEW n, NEW x
    PROVE  /\ D!Init <=> DP!Init
           /\ D!ClickRefresh <=> DP!ClickRefresh
           /\ D!LoadFail <=> DP!LoadFail
           /\ D!ClickPage(n) <=> DP!ClickPage(n)
           /\ D!ClickTab(n) <=> DP!ClickTab(n)
           /\ D!ShowPage(n) <=> DP!ShowPage(n)
           /\ D!ShowEntry(n, x) <=> DP!ShowEntry(n, x)
           /\ D!EntryFail(n) <=> DP!EntryFail(n)
<1> USE DEF D!Tabs, DP!Tabs, D!Pages, DP!Pages, D!Keys, DP!Keys, D!Card,
            DP!Card, D!NoLoad, DP!NoLoad, D!NoCard, DP!NoCard, D!Filtered,
            DP!Filtered, D!View, DP!View, D!GridsOf, DP!GridsOf, D!AnswersOf,
            DP!AnswersOf, D!CardsOf, DP!CardsOf, D!Key, DP!Key, D!Inflight,
            DP!Inflight, D!Request, DP!Request, D!Started, DP!Started, D!Pump,
            DP!Pump, D!KeysOf, DP!KeysOf, D!Lazy, DP!Lazy, D!Collect,
            DP!Collect, D!Load, DP!Load, D!NoRetries, DP!NoRetries,
            D!Cardinality, DP!Cardinality, D!Only, DP!Only, D!Rounds,
            DP!Rounds, D!PageCount, DP!PageCount, D!ClampPage, DP!ClampPage,
            D!WindowStart, DP!WindowStart, D!WindowEnd, DP!WindowEnd,
            D!PageWindow, DP!PageWindow, D!OfferedPages, DP!OfferedPages,
            D!NumberedPages, DP!NumberedPages, D!LoadPage, DP!LoadPage,
            D!Click, DP!Click, D!Swapped, DP!Swapped, D!MarkedFailed,
            DP!MarkedFailed
<1>1. D!Init <=> DP!Init
  BY DEF D!Init, DP!Init
<1>2. D!ClickRefresh <=> DP!ClickRefresh
  BY DEF D!ClickRefresh, DP!ClickRefresh
<1>3. D!LoadFail <=> DP!LoadFail
  BY DEF D!LoadFail, DP!LoadFail
<1>4. D!ClickPage(n) <=> DP!ClickPage(n)
  BY DEF D!ClickPage, DP!ClickPage
<1>5. D!ClickTab(n) <=> DP!ClickTab(n)
  BY DEF D!ClickTab, DP!ClickTab
<1>6. D!ShowPage(n) <=> DP!ShowPage(n)
  BY DEF D!ShowPage, DP!ShowPage
<1>7. D!ShowEntry(n, x) <=> DP!ShowEntry(n, x)
  BY DEF D!ShowEntry, DP!ShowEntry
<1>8. D!EntryFail(n) <=> DP!EntryFail(n)
  BY DEF D!EntryFail, DP!EntryFail
<1> QED
  BY <1>1, <1>2, <1>3, <1>4, <1>5, <1>6, <1>7, <1>8

LEMMA SameViews ==
    /\ D!Filtered = DP!Filtered /\ D!View = DP!View
    /\ D!Keys = DP!Keys /\ D!Pages = DP!Pages /\ D!Tabs = DP!Tabs
    /\ D!NoLoad = DP!NoLoad /\ D!NoCard = DP!NoCard
BY DEF D!Filtered, DP!Filtered, D!View, DP!View, D!Keys, DP!Keys, D!Pages,
       DP!Pages, D!Tabs, DP!Tabs, D!NoLoad, DP!NoLoad, D!NoCard, DP!NoCard,
       D!Cardinality, DP!Cardinality, D!Only, DP!Only, D!Rounds, DP!Rounds,
       D!PageCount, DP!PageCount, D!ClampPage, DP!ClampPage, D!WindowStart,
       DP!WindowStart, D!WindowEnd, DP!WindowEnd, D!PageWindow, DP!PageWindow

LEMMA SameInvariants ==
    /\ S!IInv <=> SP!IInv
    /\ D!IInv <=> DP!Inv
<1>1. S!IInv <=> SP!IInv
  BY DEF S!IInv, SP!IInv, S!TypeOK, SP!TypeOK, S!RuntimeInv, SP!RuntimeInv,
         S!ClockInv, SP!ClockInv, S!ScanInv, SP!ScanInv, S!LockInv,
         SP!LockInv, S!PeersInv, SP!PeersInv, S!ForcedInv, SP!ForcedInv,
         S!NewFor, SP!NewFor, S!Scan, SP!Scan, S!Unlocked, SP!Unlocked,
         S!FillInv, SP!FillInv, S!HoldInv, SP!HoldInv, S!WorkInv, SP!WorkInv,
         S!OwnResults, SP!OwnResults, S!Runtime, SP!Runtime, S!Call, SP!Call,
         S!Result, SP!Result, S!Runtimes, SP!Runtimes, S!Times, SP!Times,
         S!Working, SP!Working, S!Answered, SP!Answered, S!Matching,
         SP!Matching, S!PageOf, SP!PageOf, S!Position, SP!Position,
         S!Cardinality, SP!Cardinality, S!NormalPage, SP!NormalPage,
         S!NormalPageSize, SP!NormalPageSize, S!PageCount, SP!PageCount,
         S!ClampPage, SP!ClampPage, S!WindowStart, SP!WindowStart,
         S!WindowEnd, SP!WindowEnd, S!PageWindow, SP!PageWindow, S!Wanted,
         SP!Wanted, S!SinglesOut, SP!SinglesOut, S!Settled, SP!Settled,
         S!Scanned, SP!Scanned, S!Viewed, SP!Viewed, S!Refreshing,
         SP!Refreshing, S!NoQuota, SP!NoQuota
<1>2. D!IInv <=> DP!IInv
  BY DEF D!IInv, DP!IInv, D!TypeOK, DP!TypeOK, D!NothingTwice,
         DP!NothingTwice, D!WorkConserving, DP!WorkConserving, D!Cards,
         DP!Cards, D!Grids, DP!Grids, D!Loads, DP!Loads, D!LazyRequests,
         DP!LazyRequests, D!NoLoad, DP!NoLoad, D!Keys, DP!Keys, D!Pages,
         DP!Pages, D!Tabs, DP!Tabs, D!PageCount, DP!PageCount, D!Cardinality,
         DP!Cardinality, D!IsFiniteSet, DP!IsFiniteSet, D!Inflight,
         DP!Inflight
<1>3. DP!IInv <=> DP!Inv
  BY DP!InvIsIInv, Assumptions
<1> QED
  BY <1>1, <1>2, <1>3
-----------------------------------------------------------------------------
(* What a step of the server's leaves                                      *)

\* IInv, in terms of the two modules whose lemmas are used.
Inv == SP!IInv /\ DP!Inv /\ ListedInv /\ ServingInv /\ FromInv

LEMMA InvIsIInv == Inv <=> IInv
BY SameInvariants DEF Inv, IInv

\* One thread has moved; the world and what is listed stay, and a scan that
\* begins reads what is listed.
Calm(t) ==
    /\ SP!OnlyMoved(t) /\ SP!Kept
    /\ \A r \in 1 .. built : /\ rts'[r].entries = rts[r].entries
                             /\ rts'[r].vendors = rts[r].vendors
    /\ \/ UNCHANGED <<scan, rts>>
       \/ scan'.rt = 0
       \/ /\ scan'.rt \in 1 .. built
          /\ scan'.entries = S!Matching(file, rts[scan'.rt].vendors)

LEMMA BaseHolds ==
    ASSUME SP!IInv
    PROVE  /\ SP!Base
           /\ built \in 0 .. MaxRuntimes /\ MaxRuntimes \in Nat
           /\ active \in 0 .. MaxRuntimes /\ active <= built
           /\ rts \in [SP!Runtimes -> SP!Runtime] /\ SP!Runtimes = 1 .. MaxRuntimes
           /\ call \in [Threads -> SP!Call] /\ file \in Files
           /\ \A t \in Threads :
                 call[t].pc \in S!Working \cup {"page"} => call[t].rt \in 1 .. built
<1>1. SP!TypeOK /\ SP!RuntimeInv /\ SP!LockInv
  BY DEF SP!IInv
<1>2. MaxRuntimes \in Nat
  BY Assumptions DEF SP!BoundsAssumption
<1>3. \A t \in Threads : call[t].rt \in 0 .. MaxRuntimes
  BY <1>1 DEF SP!TypeOK, SP!Call
<1> QED
  BY <1>1, <1>2, <1>3
     DEF SP!TypeOK, SP!RuntimeInv, SP!Runtimes, SP!Base, S!Working, SP!Working

LEMMA ListedStays ==
    ASSUME SP!IInv, ListedInv, NEW t \in Threads, Calm(t)
    PROVE  ListedInv' /\ Site' = Site
<1>1. built \in 1 .. built /\ UNCHANGED <<built, file>>
  BY BaseHolds DEF ListedInv, Calm, SP!Kept
<1>2. Site' = Site
  <2>1. rts'[built].entries = rts[built].entries /\ rts'[built].vendors = rts[built].vendors
    BY <1>1 DEF Calm
  <2>2. Sorted(rts[built].entries)' = Sorted(rts[built].entries)
    BY <1>1, <2>1 DEF Sorted, S!Position
  <2> QED
    BY <1>1, <2>1, <2>2 DEF Site
<1>3. ListedInv'
  <2> DEFINE M(V) == S!Matching(file, V)
  <2>1. PICK cfg \in Configs :
           /\ \A r \in 1 .. built : /\ rts[r].vendors = cfg.vendors
                                    /\ rts[r].entries = M(cfg.vendors)
           /\ scan.rt # 0 => /\ rts[scan.rt].vendors = cfg.vendors
                             /\ scan.entries = M(cfg.vendors)
    BY DEF ListedInv
  <2>2. \A V : M(V)' = M(V)
    BY <1>1 DEF S!Matching
  <2> HIDE DEF M
  <2>3. \A r \in 1 .. built : /\ rts'[r].vendors = cfg.vendors
                              /\ rts'[r].entries = M(cfg.vendors)
    BY <2>1 DEF Calm
  <2>4. scan'.rt # 0 => /\ rts'[scan'.rt].vendors = cfg.vendors
                        /\ scan'.entries = M(cfg.vendors)
    BY <2>1, <2>3 DEF Calm, M
  <2> QED
    BY <1>1, <2>2, <2>3, <2>4 DEF ListedInv, M
<1> QED
  BY <1>2, <1>3

\* A request is taken up.
LEMMA ReceiveCalm ==
    ASSUME SP!IInv, NEW t \in Threads, S!Receive(t)
    PROVE  /\ Calm(t) /\ SP!Next
           /\ call'[t].pc \in {"unavailable", "notfound", "rescan"}
<1>1. SP!Receive(t)
  BY SameSteps
<1>2. /\ SP!OnlyMoved(t) /\ SP!Kept /\ SP!LockKept /\ rts' = rts
      /\ call'[t].pc \in {"unavailable", "notfound", "rescan"}
  BY <1>1, BaseHolds, Assumptions, SP!ReceiveStep
<1> QED
  BY <1>1, <1>2 DEF Calm, SP!LockKept, SP!Next

\* A response leaves.
LEMMA RespondCalm ==
    ASSUME SP!IInv, NEW t \in Threads, S!Respond(t)
    PROVE  Calm(t) /\ SP!Next /\ call'[t].pc = "idle"
<1>1. SP!Respond(t)
  BY SameSteps
<1>2. /\ SP!OnlyMoved(t) /\ SP!Kept /\ SP!LockKept /\ rts' = rts
      /\ call'[t].pc = "idle"
  BY <1>1, BaseHolds, Assumptions, SP!RespondStep
<1> QED
  BY <1>1, <1>2 DEF Calm, SP!LockKept, SP!Next, SP!Handle

\* Work on a request.
Working(t) ==
    \/ S!RescanHostConfig(t) \/ S!StampScan(t) \/ S!SelectPageView(t)
    \/ S!RefreshBegin(t) \/ S!CheckFresh(t)
    \/ S!FetchOneQuota(t) \/ S!StoreQuota(t)
    \/ S!BuildPageData(t)

LEMMA WorkCalm ==
    ASSUME SP!IInv, ListedInv, NEW t \in Threads, Working(t)
    PROVE  /\ Calm(t) /\ SP!Next
           /\ call[t].pc \in S!Working /\ call'[t].pc \notin {"idle", "unavailable"}
           /\ call'[t].req = call[t].req /\ call'[t].rt = call[t].rt
           /\ call[t].pc = "select" =>
                 /\ call'[t].view = S!PageOf(rts[call[t].rt].entries, call[t].req)
                 /\ call'[t].pc # "page"
           /\ call[t].pc # "select" =>
                 /\ S!Viewed(call'[t]) => S!Viewed(call[t])
                 /\ S!Viewed(call'[t]) => call'[t].view = call[t].view
<1> DEFINE r == call[t].rt
           Same == SP!OnlyMoved(t) /\ SP!Kept /\ SP!SameRequest(call[t], call'[t])
           Lists == \A q \in 1 .. built : /\ rts'[q].entries = rts[q].entries
                                          /\ rts'[q].vendors = rts[q].vendors
<1> USE DEF S!Viewed, S!Scanned, S!Working
<1>0. SP!Base
  BY BaseHolds
<1>1. CASE S!RescanHostConfig(t)
  <2>1. SP!RescanHostConfig(t)
    BY <1>1, SameSteps
  <2>2. /\ Same /\ call[t].pc = "rescan" /\ rts' = rts
        /\ call'[t].pc \in {"stamp", "select"}
        /\ call'[t].pc = "stamp" =>
              scan'.rt = r /\ scan'.entries = SP!Matching(file, rts[r].vendors)
        /\ call'[t].pc = "select" => scan' = scan
    BY <2>1, <1>0, Assumptions, SP!RescanStep
  <2>3. r \in 1 .. built
    BY <2>2, BaseHolds
  <2>4. \/ UNCHANGED <<scan, rts>>
        \/ scan'.rt \in 1 .. built /\ scan'.entries = S!Matching(file, rts[scan'.rt].vendors)
    BY <2>2, <2>3 DEF S!Matching, SP!Matching
  <2> QED
    BY <2>1, <2>2, <2>4 DEF Calm, SP!Next, SP!Handle, SP!SameRequest
<1>8. CASE S!StampScan(t)
  <2>1. SP!StampScan(t)
    BY <1>8, SameSteps
  <2>2. Same /\ call[t].pc = "stamp" /\ call'[t].pc = "select"
    BY <2>1, <1>0, Assumptions, SP!StampStep
  <2>3. /\ SP!EndScan /\ scan.rt # 0 /\ scan.rt = r /\ r \in 1 .. built
    BY <2>1, <2>2, <1>0, Assumptions, BaseHolds, SP!StampRuntimes
  <2>4. /\ \A s \in SP!Runtimes \ {r} : rts'[s] = rts[s]
        /\ rts'[r].vendors = rts[r].vendors
        /\ rts'[r].entries = scan.entries
        /\ scan'.rt = 0
    BY <2>3, <1>0, Assumptions, SP!EndScanRuntimes
  <2>5. rts'[r].entries = rts[r].entries
    BY <2>3, <2>4 DEF ListedInv
  <2>6. 1 .. built \subseteq SP!Runtimes
    BY BaseHolds
  <2>7. Lists
    BY <2>3, <2>4, <2>5, <2>6
  <2> QED
    BY <2>1, <2>2, <2>4, <2>7 DEF Calm, SP!Next, SP!Handle, SP!SameRequest
<1>2. CASE S!SelectPageView(t)
  <2>1. SP!SelectPageView(t)
    BY <1>2, SameSteps
  <2>2. /\ Same /\ call[t].pc = "select" /\ call'[t].pc \in {"refresh", "build"}
        /\ SP!LockKept /\ rts' = rts /\ call'[t].view = SP!PageOf(rts[r].entries, call'[t].req)
    BY <2>1, <1>0, Assumptions, SP!SelectStep
  <2> QED
    BY <2>1, <2>2, SamePages DEF Calm, SP!LockKept, SP!Next, SP!Handle, SP!SameRequest
<1>3. CASE S!RefreshBegin(t)
  <2>1. SP!RefreshBegin(t)
    BY <1>3, SameSteps
  <2>2. /\ Same /\ call[t].pc = "refresh" /\ call'[t].pc = "check"
        /\ SP!LockKept /\ rts' = rts /\ call'[t].view = call[t].view
    BY <2>1, <1>0, Assumptions, SP!RefreshStep
  <2> QED
    BY <2>1, <2>2 DEF Calm, SP!LockKept, SP!Next, SP!Handle, SP!SameRequest
<1>4. CASE S!CheckFresh(t)
  <2>1. SP!CheckFresh(t)
    BY <1>4, SameSteps
  <2>2. /\ Same /\ call[t].pc = "check" /\ call'[t].pc = "fetch"
        /\ SP!LockKept /\ rts' = rts /\ call'[t].view = call[t].view
    BY <2>1, <1>0, Assumptions, SP!CheckStep
  <2> QED
    BY <2>1, <2>2 DEF Calm, SP!LockKept, SP!Next, SP!Handle, SP!SameRequest
<1>5. CASE S!FetchOneQuota(t)
  <2>1. SP!FetchOneQuota(t)
    BY <1>5, SameSteps
  <2>2. /\ Same /\ call[t].pc = "fetch" /\ call'[t].pc = "store"
        /\ SP!LockKept /\ rts' = rts /\ call'[t].view = call[t].view
    BY <2>1, <1>0, Assumptions, SP!FetchStep
  <2> QED
    BY <2>1, <2>2 DEF Calm, SP!LockKept, SP!Next, SP!Handle, SP!SameRequest
<1>6. CASE S!StoreQuota(t)
  <2>1. SP!StoreQuota(t)
    BY <1>6, SameSteps
  <2>2. /\ Same /\ SP!LockKept /\ call[t].pc = "store" /\ call'[t].pc = "fetch"
        /\ call'[t].view = call[t].view
    BY <2>1, <1>0, Assumptions, SP!StoreStep
  <2>3. /\ \A s \in SP!Runtimes \ {r} : rts'[s] = rts[s]
        /\ rts'[r].vendors = rts[r].vendors
        /\ rts'[r].entries = rts[r].entries
    BY <2>1, <1>0, Assumptions, SP!StoreRuntimes
  <2>4. 1 .. built \subseteq SP!Runtimes
    BY BaseHolds
  <2>5. Lists
    BY <2>3, <2>4
  <2>6. scan'.rt = 0
    BY <1>6, <2>2 DEF S!StoreQuota, S!Unlocked, SP!LockKept
  <2> QED
    BY <2>1, <2>2, <2>5, <2>6 DEF Calm, SP!LockKept, SP!Next, SP!Handle, SP!SameRequest
<1>7. CASE S!BuildPageData(t)
  <2>1. SP!BuildPageData(t)
    BY <1>7, SameSteps
  <2>2. /\ Same /\ call[t].pc \in {"build", "fetch"} /\ call'[t].pc = "page"
        /\ SP!LockKept /\ rts' = rts /\ call'[t].view = call[t].view
    BY <2>1, <1>0, Assumptions, SP!BuildStep
  <2> QED
    BY <2>1, <2>2 DEF Calm, SP!LockKept, SP!Next, SP!Handle, SP!SameRequest
<1> QED
  BY <1>1, <1>2, <1>3, <1>4, <1>5, <1>6, <1>7, <1>8 DEF Working
-----------------------------------------------------------------------------
(* What the browser and the server know of each other                      *)

\* The types that the steps below ask for.
LEMMA BrowserTypes ==
    ASSUME DP!Inv
    PROVE  /\ Site \in Sites /\ tab \in DP!Tabs /\ page \in DP!Pages
           /\ load = DP!NoLoad \/ load \in DP!Loads
           /\ load.busy => load.page \in DP!Pages /\ load.force \in BOOLEAN
           /\ \A r \in net : /\ r.key \in DP!Keys /\ r.key.idx \in Nat
                             /\ r.page \in DP!Pages /\ r.tab \in DP!Tabs
           /\ \A q, r \in net : q.key = r.key => q = r
<1>1. load = DP!NoLoad \/ load \in DP!Loads
  BY DEF DP!Inv, DP!Screen
<1>2. load.busy => load.page \in DP!Pages /\ load.force \in BOOLEAN
  <2>1. CASE load = DP!NoLoad
    BY <2>1 DEF DP!NoLoad
  <2>2. CASE load \in DP!Loads
    BY <2>2 DEF DP!Loads
  <2> QED
    BY <1>1, <2>1, <2>2
<1>3. net \subseteq DP!LazyRequests /\ \A q, r \in net : q.key = r.key => q = r
  BY DEF DP!Inv, DP!LoaderOK, DP!Sound
<1>4. \A r \in net : /\ r.key \in DP!Keys /\ r.key.idx \in Nat
                    /\ r.page \in DP!Pages /\ r.tab \in DP!Tabs
  BY <1>3, PageSizeAssumption DEF DP!LazyRequests, DP!Keys
<1> QED
  BY <1>1, <1>2, <1>3, <1>4 DEF DP!Inv, DP!Screen

\* Every runtime lists what the dashboard asked.
LEMMA OneSite ==
    ASSUME ListedInv, NEW r \in 1 .. built, built \in Nat
    PROVE  rts[r].entries = rts[built].entries /\ rts[r].vendors = rts[built].vendors
BY DEF ListedInv

\* A thread's page is right as long as nothing of its own changes, and the
\* runtimes keep their lists.
LEMMA PageKept ==
    ASSUME SP!IInv, NEW u \in Threads, HasPage(u), Site' = Site,
           call'[u] = call[u], serving'[u] = serving[u],
           \A r \in 1 .. built : rts'[r].entries = rts[r].entries
    PROVE  HasPage(u)'
<1> SUFFICES ASSUME Awaited(u)', S!Viewed(call[u])
             PROVE  HasPage(u)'
  BY DEF HasPage, S!Viewed, S!Scanned
<1>1. call[u].rt \in 1 .. built
  BY BaseHolds DEF S!Viewed, S!Scanned, S!Working
<1>2. Awaited(u)
  BY DEF Awaited
<1>3. (D!Filtered)' = D!Filtered
  BY DEF D!Filtered, D!Only, D!Rounds, D!Tabs
<1> QED
  BY <1>1, <1>2, <1>3 DEF HasPage

\* A step in which the browser does nothing is a stutter of the dashboard.
LEMMA BrowserIdle ==
    ASSUME UNCHANGED browser, Site' = Site
    PROVE  UNCHANGED DP!vars /\ (FromInv => FromInv')
BY DEF browser, DP!vars, FromInv

\* What the server answers is what the dashboard takes for granted: a page,
\* with the cards of the dashboard's view.
AnswersView(t, tb, pg) ==
    LET view == DP!View[Site][tb][pg]
    IN  /\ Len(view) \in Nat /\ DOMAIN view = 1 .. Len(view)
        /\ PageAnswer(t) \in DP!AnswersOf(Site, tb, pg)
        /\ DOMAIN PageAnswer(t).cards = DOMAIN view
        /\ \A i \in DOMAIN view : \E st \in States :
              PageAnswer(t).cards[i] = DP!Card(view[i], st)

LEMMA PageAnswers ==
    ASSUME Inv, NEW t \in Threads, Awaited(t), call[t].pc = "page",
           NEW tb \in DP!Tabs, NEW pg \in DP!Pages, NEW idx, NEW force,
           call[t].req = Target(tb, pg, idx, force)
    PROVE  AnswersView(t, tb, pg)
<1> DEFINE r      == call[t].rt
           E      == rts[r].entries
           V      == rts[r].vendors
           view   == DP!View[Site][tb][pg]
           states == [i \in DOMAIN view |->
                        StateOf(call[t].cards[view[i]], rts[r].ttl, serving[t].at)]
           cards  == [i \in DOMAIN view |-> DP!Card(view[i], states[i])]
<1>1. SP!IInv /\ DP!Inv /\ ListedInv /\ HasPage(t)
  BY DEF Inv, ServingInv
<1>2. r \in 1 .. built /\ built \in Nat /\ E \in SUBSET Entries
  <2>1. r \in 1 .. built /\ built \in 0 .. MaxRuntimes /\ MaxRuntimes \in Nat
    BY <1>1, BaseHolds
  <2>2. r \in SP!Runtimes /\ rts \in [SP!Runtimes -> SP!Runtime]
    BY <1>1, <2>1, BaseHolds
  <2>3. rts[r] \in SP!Runtime
    BY <2>2
  <2> QED
    BY <2>1, <2>3 DEF SP!Runtime
<1>3. Site = [scan |-> Sorted(E), vendors |-> V] /\ Site \in Sites
  BY <1>1, <1>2, OneSite, BrowserTypes DEF Site
<1>4. /\ call[t].view = S!PageOf(E, Target(tb, pg, idx, force))
      /\ serving[t].total = Len(DP!Filtered[Site][tb])
      /\ serving[t].page = PageWindow(Len(DP!Filtered[Site][tb]), DefaultPageSize, pg).page
  BY <1>1, SameViews DEF HasPage, Target, S!Viewed, S!Scanned
<1>5. view = Sorted(call[t].view)
  <2> HIDE DEF E, V
  <2>1. [scan |-> Sorted(E), vendors |-> V] \in Sites
    BY <1>3
  <2>2. LET s == [scan |-> Sorted(E), vendors |-> V]
            tabbed == {e \in E : tb \in {AllTab, VendorOf[e]}}
            shown == S!PageOf(E, Target(tb, pg, idx, force))
        IN  /\ DP!Filtered[s][tb] = Sorted(tabbed)
            /\ Len(DP!Filtered[s][tb]) = Cardinality(tabbed)
            /\ shown \in SUBSET Entries
            /\ DP!View[s][tb][pg] = Sorted(shown)
    <3> E \in SUBSET Entries
      BY <1>2
    <3> QED
      BY <2>1, PagesAgree
  <2> QED
    BY <1>3, <1>4, <2>2
<1>6. Len(view) \in Nat /\ DOMAIN view = 1 .. Len(view)
  BY <1>3, Assumptions, DP!ViewType, LenProperties
<1>7. \A i \in DOMAIN view : states[i] \in States
  BY DEF StateOf, States
<1>8. PageAnswer(t).cards = cards
  BY <1>5 DEF PageAnswer, CardOf, D!Card, DP!Card
<1>9. cards \in DP!GridsOf(Site, tb, pg)
  <2>1. states \in [DOMAIN view -> States]
    BY <1>7
  <2> HIDE DEF states
  <2> QED
    BY <2>1 DEF DP!GridsOf
<1>10. PageAnswer(t) \in DP!AnswersOf(Site, tb, pg)
  <2>1. PageAnswer(t) = [tabs |-> Site.vendors,
                         page |-> DP!ClampPage(Len(DP!Filtered[Site][tb]),
                                               DefaultPageSize, pg),
                         total |-> Len(DP!Filtered[Site][tb]), cards |-> cards]
    BY <1>3, <1>4, <1>8
       DEF PageAnswer, PageWindow, ClampPage, PageCount, DP!ClampPage, DP!PageCount
  <2> QED
    BY <1>9, <2>1 DEF DP!AnswersOf
<1> QED
  BY <1>6, <1>7, <1>8, <1>10 DEF AnswersView

LEMMA LoadAnswered ==
    ASSUME Inv, NEW t \in Threads, serving[t].kind = "load", call[t].pc = "page"
    PROVE  /\ load.busy /\ load.from = {Site}
           /\ PageAnswer(t) \in DP!AnswersOf(Site, tab, load.page)
           /\ \A i \in DOMAIN PageAnswer(t).cards :
                 PageAnswer(t).cards[i].state \in States
<1>1. /\ load.busy /\ load.from = {Site}
      /\ call[t].req = Target(tab, load.page, -1, load.force)
  BY DEF Inv, ServingInv, HasRequest, FromInv
<1>2. tab \in DP!Tabs /\ load.page \in DP!Pages
  BY <1>1, BrowserTypes DEF Inv
<1>3. AnswersView(t, tab, load.page)
  BY <1>1, <1>2, PageAnswers DEF Awaited
<1>4. PageAnswer(t) \in DP!AnswersOf(Site, tab, load.page)
  BY <1>3 DEF AnswersView
<1>5. ASSUME NEW i \in DOMAIN PageAnswer(t).cards
      PROVE  PageAnswer(t).cards[i].state \in States
  <2>1. PICK st \in States :
           PageAnswer(t).cards[i] = DP!Card(DP!View[Site][tab][load.page][i], st)
    BY <1>3 DEF AnswersView
  <2> QED
    BY <2>1 DEF DP!Card
<1> QED
  BY <1>1, <1>4, <1>5

LEMMA EntryAnswered ==
    ASSUME Inv, NEW t \in Threads, serving[t].kind = "entry", call[t].pc = "page",
           NEW r \in net, r.key = serving[t].key
    PROVE  /\ r.from = {Site}
           /\ EntryAnswer(t) \in DP!CardsOf(Site, r.tab, r.page, r.key.idx)
<1> DEFINE view == DP!View[Site][r.tab][r.page]
           idx  == r.key.idx
<1>1. PICK q \in net : /\ q.key = serving[t].key
                       /\ call[t].req = Target(q.tab, q.page, q.key.idx, FALSE)
  BY DEF Inv, ServingInv, HasRequest
<1>2. /\ q = r /\ r.tab \in DP!Tabs /\ r.page \in DP!Pages /\ idx \in Nat
  BY <1>1, BrowserTypes DEF Inv
<1>3. call[t].req = Target(r.tab, r.page, idx, FALSE) /\ call[t].req.idx = idx
  BY <1>1, <1>2 DEF Target
<1>4. AnswersView(t, r.tab, r.page)
  BY <1>2, <1>3, PageAnswers DEF Awaited
<1>5. /\ Len(view) \in Nat /\ DOMAIN view = 1 .. Len(view)
      /\ DOMAIN PageAnswer(t).cards = DOMAIN view
      /\ \A i \in DOMAIN view : \E st \in States :
            PageAnswer(t).cards[i] = DP!Card(view[i], st)
  BY <1>4 DEF AnswersView
<1>6. Len(PageAnswer(t).cards) = Len(view)
  BY <1>5
<1> HIDE DEF view
<1>7. CASE idx < Len(view)
  <2>1. idx + 1 \in DOMAIN view
    BY <1>2, <1>5, <1>7
  <2>2. EntryAnswer(t) = PageAnswer(t).cards[idx + 1]
    BY <1>2, <1>3, <1>6, <1>7 DEF EntryAnswer, Target
  <2> QED
    BY <1>7, <1>5, <2>1, <2>2 DEF DP!CardsOf, view, Inv, FromInv
<1>8. CASE ~ (idx < Len(view))
  <2>1. EntryAnswer(t) = DP!NoCard
    BY <1>2, <1>3, <1>6, <1>8, SameViews DEF EntryAnswer
  <2> QED
    BY <1>8, <2>1 DEF DP!CardsOf, view, Inv, FromInv
<1> QED
  BY <1>7, <1>8
-----------------------------------------------------------------------------
(* A step of the system, for the server and for the dashboard              *)

\* What every step does: it is a step of the server's or leaves it alone, and
\* one of the dashboard's or leaves it alone, and the two still agree.
Agree == ListedInv /\ ServingInv /\ FromInv

Goes == /\ [SP!Next]_SP!vars /\ [DP!Next]_DP!vars
        /\ Agree'

\* What happens to one thread leaves the others theirs.
LEMMA OthersKept ==
    ASSUME Inv, NEW t \in Threads, Calm(t), NEW u \in Threads, u # t,
           serving'[u] = serving[u]
    PROVE  call'[u] = call[u] /\ HasPage(u)'
<1>1. SP!IInv /\ ListedInv /\ HasPage(u)
  BY DEF Inv, ServingInv
<1>2. call'[u] = call[u] /\ Site' = Site
  BY <1>1, ListedStays DEF Calm, SP!OnlyMoved
<1> QED
  BY <1>1, <1>2, PageKept DEF Calm

\* One request of a kind and key is worked on at a time.
LEMMA OnlyOne ==
    ASSUME Inv, NEW t \in Threads, NEW u \in Threads, Awaited(t),
           serving[u].kind = serving[t].kind, serving[u].key = serving[t].key
    PROVE  u = t
BY DEF Inv, ServingInv, IsAlone

LEMMA OneLoader ==
    ASSUME Inv, NEW t \in Threads, NEW u \in Threads,
           serving[t].kind = "load", serving[u].kind = "load"
    PROVE  u = t
<1>1. serving[u].key = NoKey /\ serving[t].key = NoKey
  BY DEF Inv, ServingInv, HasRequest
<1> QED
  BY <1>1, OnlyOne DEF Awaited

\* A thread is free, or works for somebody.
LEMMA ClientTypes ==
    /\ Nobody \in Clients /\ Loader \in Clients /\ Gone \in Clients
    /\ \A k \in DP!Keys : ForKey(k) \in Clients
    /\ Nobody.kind = "nobody" /\ Gone.kind = "gone"
    /\ Loader.kind = "load" /\ Loader.key = NoKey
    /\ \A k : ForKey(k).kind = "entry" /\ ForKey(k).key = k
BY SameViews DEF Clients, Nobody, Loader, Gone, ForKey, Client

\* The loader starts requests, for the list there is, and takes none back.
LEMMA PumpNet ==
    ASSUME NEW keys, NEW requests, NEW pg, NEW tb,
           NEW p, p = D!Pump(keys, requests, pg, tb)
    PROVE  requests \subseteq p.net /\ \A r \in p.net : r \in requests \/ r.from = {Site}
BY DEF D!Pump, D!Started, D!Request

LEMMA ArriveLoadGoes ==
    ASSUME Inv, NEW t \in Threads, ArriveLoad(t)
    PROVE  Goes
<1>0. /\ load.busy /\ ~ IsServed("load", NoKey) /\ S!Receive(t)
      /\ call'[t].req = Target(tab, load.page, -1, load.force)
      /\ serving' = [serving EXCEPT ![t] = Loader] /\ UNCHANGED browser
  BY DEF ArriveLoad
<1>1. Calm(t) /\ SP!Next /\ call'[t].pc \in {"unavailable", "notfound", "rescan"}
  BY <1>0, ReceiveCalm DEF Inv
<1>2. ListedInv' /\ Site' = Site
  BY <1>1, ListedStays DEF Inv
<1>3. UNCHANGED DP!vars /\ FromInv'
  BY <1>0, <1>2, BrowserIdle DEF Inv
<1>4. /\ serving \in [Threads -> Clients] /\ serving'[t] = Loader
      /\ \A u \in Threads \ {t} : serving'[u] = serving[u]
      /\ serving' \in [Threads -> Clients]
  BY <1>0, ClientTypes DEF Inv, ServingInv
<1>5. \A u \in Threads \ {t} : call'[u] = call[u] /\ HasPage(u)'
  BY <1>1, <1>4, OthersKept
<1>6. HasPage(t)'
  BY <1>1 DEF HasPage, S!Viewed, S!Scanned
<1>7. \A u \in Threads : HasRequest(u)'
  <2>1. HasRequest(t)'
    BY <1>0, <1>4, ClientTypes DEF HasRequest, browser
  <2>2. ASSUME NEW u \in Threads \ {t} PROVE HasRequest(u)'
    <3>1. HasRequest(u) /\ call'[u] = call[u] /\ serving'[u] = serving[u]
      BY <1>4, <1>5 DEF Inv, ServingInv
    <3> QED
      BY <1>0, <3>1 DEF HasRequest, browser
  <2> QED
    BY <2>1, <2>2
<1>8. \A u \in Threads : serving[u].kind # "load"
  BY <1>0 DEF IsServed, Inv, ServingInv, HasRequest
<1>9. \A u \in Threads : IsAlone(u)'
  BY <1>4, <1>8, ClientTypes DEF IsAlone, Awaited, Inv, ServingInv
<1> QED
  BY <1>1, <1>2, <1>3, <1>4, <1>5, <1>6, <1>7, <1>9 DEF Goes, Agree, ServingInv

LEMMA ArriveEntryGoes ==
    ASSUME Inv, NEW t \in Threads, ArriveEntry(t)
    PROVE  Goes
<1>0. PICK r \in net :
         /\ ~ IsServed("entry", r.key) /\ S!Receive(t)
         /\ call'[t].req = Target(r.tab, r.page, r.key.idx, FALSE)
         /\ serving' = [serving EXCEPT ![t] = ForKey(r.key)] /\ UNCHANGED browser
  BY DEF ArriveEntry
<1>1. Calm(t) /\ SP!Next /\ call'[t].pc \in {"unavailable", "notfound", "rescan"}
  BY <1>0, ReceiveCalm DEF Inv
<1>2. ListedInv' /\ Site' = Site
  BY <1>1, ListedStays DEF Inv
<1>3. UNCHANGED DP!vars /\ FromInv'
  BY <1>0, <1>2, BrowserIdle DEF Inv
<1>4. /\ serving \in [Threads -> Clients] /\ serving'[t] = ForKey(r.key)
      /\ \A u \in Threads \ {t} : serving'[u] = serving[u]
      /\ serving' \in [Threads -> Clients]
  BY <1>0, ClientTypes, BrowserTypes DEF Inv, ServingInv
<1>5. \A u \in Threads \ {t} : call'[u] = call[u] /\ HasPage(u)'
  BY <1>1, <1>4, OthersKept
<1>6. HasPage(t)'
  BY <1>1 DEF HasPage, S!Viewed, S!Scanned
<1>7. \A u \in Threads : HasRequest(u)'
  <2>1. HasRequest(t)'
    BY <1>0, <1>4, ClientTypes DEF HasRequest, browser
  <2>2. ASSUME NEW u \in Threads \ {t} PROVE HasRequest(u)'
    <3>1. HasRequest(u) /\ call'[u] = call[u] /\ serving'[u] = serving[u]
      BY <1>4, <1>5 DEF Inv, ServingInv
    <3> QED
      BY <1>0, <3>1 DEF HasRequest, browser
  <2> QED
    BY <2>1, <2>2
<1>8. \A u \in Threads : ~ (serving[u].kind = "entry" /\ serving[u].key = r.key)
  BY <1>0 DEF IsServed
<1>9. \A u \in Threads : IsAlone(u)'
  BY <1>4, <1>8, ClientTypes DEF IsAlone, Awaited, Inv, ServingInv
<1> QED
  BY <1>1, <1>2, <1>3, <1>4, <1>5, <1>6, <1>7, <1>9 DEF Goes, Agree, ServingInv

LEMMA WorkGoes ==
    ASSUME Inv, NEW t \in Threads, Work(t)
    PROVE  Goes
<1> DEFINE c == call[t]
           listed == Len(D!Filtered[Site][c.req.vendor])
           shown  == PageWindow(listed, DefaultPageSize, c.req.page).page
<1>0. Working(t) /\ UNCHANGED browser
  BY DEF Work, Working
<1>1. /\ Calm(t) /\ SP!Next
      /\ c.pc \in S!Working
      /\ call'[t].req = c.req /\ call'[t].rt = c.rt
      /\ c.pc = "select" => /\ call'[t].view = S!PageOf(rts[c.rt].entries, c.req)
                            /\ call'[t].pc # "page"
      /\ c.pc # "select" => /\ S!Viewed(call'[t]) => S!Viewed(c)
                            /\ S!Viewed(call'[t]) => call'[t].view = c.view
  BY <1>0, WorkCalm DEF Inv
<1>2. ListedInv' /\ Site' = Site
  BY <1>1, ListedStays DEF Inv
<1>3. UNCHANGED DP!vars /\ FromInv'
  BY <1>0, <1>2, BrowserIdle DEF Inv
<1>4. /\ serving \in [Threads -> Clients] /\ serving[t] \in Clients
      /\ \A u \in Threads : HasRequest(u) /\ IsAlone(u) /\ HasPage(u)
  BY DEF Inv, ServingInv
<1>5. listed \in Nat /\ shown \in Int
  <2>1. c.req.vendor \in DP!Tabs /\ c.req.page \in Int
    <3>1. c \in SP!Call
      BY BaseHolds DEF Inv
    <3>2. c.req \in Requests
      BY <3>1 DEF SP!Call
    <3> QED
      BY <3>2, Assumptions DEF SP!RequestsAssumption, DP!Tabs
  <2>2. Site \in Sites
    BY BrowserTypes DEF Inv
  <2>3. listed \in Nat
    BY <2>1, <2>2, SameViews, Assumptions, DP!FilteredType
  <2> HIDE DEF listed
  <2> QED
    BY <2>1, <2>3, PageSizeAssumption DEF PageWindow, ClampPage, PageCount
<1>6. now \in Int
  BY BaseHolds DEF Inv, SP!Base, SP!TypeOK, SP!Times
<1>7. /\ serving' \in [Threads -> Clients]
      /\ \A u \in Threads \ {t} : serving'[u] = serving[u]
      /\ serving'[t].kind = serving[t].kind /\ serving'[t].key = serving[t].key
      /\ IF c.pc = "select" THEN serving'[t].total = listed /\ serving'[t].page = shown
         ELSE /\ serving'[t].total = serving[t].total
              /\ serving'[t].page = serving[t].page
  <2>1. CASE c.pc = "select"
    <3>0. call[t].pc = "select" /\ call'[t].pc # "page"
      BY <1>1, <2>1
    <3>1. serving' = [serving EXCEPT ![t].total = listed, ![t].page = shown]
      BY <3>0, Zenon DEF Work
    <3> HIDE DEF listed, shown
    <3> QED
      BY <1>4, <1>5, <2>1, <3>1 DEF Clients
  <2>2. CASE c.pc # "select" /\ call'[t].pc = "page"
    <3>1. serving' = [serving EXCEPT ![t].at = now]
      BY <2>2 DEF Work
    <3> QED
      BY <1>4, <1>6, <2>2, <3>1 DEF Clients
  <2>3. CASE c.pc # "select" /\ call'[t].pc # "page"
    <3>1. serving' = serving
      BY <2>3 DEF Work
    <3> QED
      BY <1>4, <2>3, <3>1
  <2> QED
    BY <2>1, <2>2, <2>3
<1>8. \A u \in Threads \ {t} : call'[u] = call[u] /\ HasPage(u)'
  BY <1>1, <1>7, OthersKept
<1>9. HasPage(t)'
  <2> SUFFICES ASSUME Awaited(t)', S!Viewed(call[t])'
               PROVE  HasPage(t)'
    BY DEF HasPage
  <2>1. c.rt \in 1 .. built /\ rts'[c.rt].entries = rts[c.rt].entries
    BY <1>1, BaseHolds DEF Calm, Inv
  <2>2. Awaited(t) /\ (D!Filtered)' = D!Filtered
    BY <1>7 DEF Awaited, D!Filtered, D!Only, D!Rounds, D!Tabs
  <2>3. /\ call'[t].view = S!PageOf(rts[c.rt].entries, c.req)
        /\ serving'[t].total = listed /\ serving'[t].page = shown
    BY <1>1, <1>4, <1>7, <2>2 DEF HasPage
  <2> QED
    BY <1>1, <1>2, <2>1, <2>2, <2>3 DEF HasPage
<1>10. \A u \in Threads : HasRequest(u)'
  <2>1. ASSUME NEW u \in Threads PROVE HasRequest(u)'
    <3>1. /\ HasRequest(u) /\ call'[u].req = call[u].req
          /\ serving'[u].kind = serving[u].kind /\ serving'[u].key = serving[u].key
      BY <1>1, <1>4, <1>7, <1>8
    <3> QED
      BY <1>0, <3>1 DEF HasRequest, browser
  <2> QED
    BY <2>1
<1>11. \A u \in Threads : IsAlone(u)'
  <2>1. \A u \in Threads : serving'[u].kind = serving[u].kind /\ serving'[u].key = serving[u].key
    BY <1>7
  <2> QED
    BY <1>4, <2>1 DEF IsAlone, Awaited
<1> QED
  BY <1>1, <1>2, <1>3, <1>7, <1>8, <1>9, <1>10, <1>11 DEF Goes, Agree, ServingInv

\* Another thread's request is still asked for, if it was not the one that
\* was answered, and no page is loaded in between.
LEMMA FreedGoes ==
    ASSUME Inv, NEW t \in Threads, S!Respond(t), Free(t), FromInv',
           [DP!Next]_DP!vars,
           \A u \in Threads \ {t} : HasRequest(u)'
    PROVE  Goes
<1>1. Calm(t) /\ SP!Next /\ call'[t].pc = "idle"
  BY RespondCalm DEF Inv
<1>2. ListedInv'
  BY <1>1, ListedStays DEF Inv
<1>3. /\ serving \in [Threads -> Clients] /\ serving'[t] = Nobody
      /\ \A u \in Threads \ {t} : serving'[u] = serving[u]
      /\ serving' \in [Threads -> Clients]
  BY ClientTypes DEF Inv, ServingInv, Free
<1>4. \A u \in Threads \ {t} : HasPage(u)'
  BY <1>1, <1>3, OthersKept
<1>5. HasRequest(t)' /\ HasPage(t)'
  BY <1>3, ClientTypes DEF HasRequest, HasPage, Awaited
<1>6. \A u \in Threads : IsAlone(u)'
  BY <1>3, ClientTypes DEF IsAlone, Awaited, Inv, ServingInv
<1> QED
  BY <1>1, <1>2, <1>3, <1>4, <1>5, <1>6 DEF Goes, Agree, ServingInv

\* ... which holds when the load, or the request that ends, was its own.
LEMMA StillAsked ==
    ASSUME Inv, NEW t \in Threads, NEW u \in Threads, u # t, Calm(t), Free(t),
           \/ serving[t].kind = "load" /\ net \subseteq net'
           \/ /\ serving[t].kind = "entry" /\ UNCHANGED <<load, tab>>
              /\ \A q \in net : q.key # serving[t].key => q \in net'
           \/ UNCHANGED browser
    PROVE  HasRequest(u)'
<1>1. /\ HasRequest(u) /\ call'[u] = call[u] /\ serving'[u] = serving[u]
  BY DEF Inv, ServingInv, Calm, SP!OnlyMoved, Free
<1>2. CASE serving[t].kind = "load" /\ net \subseteq net'
  <2>1. serving[u].kind # "load"
    BY <1>2, OneLoader
  <2> QED
    BY <1>1, <1>2, <2>1 DEF HasRequest
<1>3. CASE /\ serving[t].kind = "entry" /\ UNCHANGED <<load, tab>>
           /\ \A q \in net : q.key # serving[t].key => q \in net'
  <2>1. ASSUME serving[u].kind = "entry" PROVE serving[u].key # serving[t].key
    BY <1>3, <2>1, OnlyOne DEF Awaited
  <2> QED
    BY <1>1, <1>3, <2>1 DEF HasRequest
<1>4. CASE UNCHANGED browser
  BY <1>1, <1>4 DEF HasRequest, browser
<1> QED
  BY <1>2, <1>3, <1>4

LEMMA AnswerLoadGoes ==
    ASSUME Inv, NEW t \in Threads, AnswerLoad(t)
    PROVE  Goes
<1> DEFINE answer == PageAnswer(t)
           tb     == IF tab \in answer.tabs THEN tab ELSE AllTab
           pumped == D!Pump(D!Collect(answer.cards, net, answer.page, tb), net,
                            answer.page, tb)
<1>0. /\ serving[t].kind = "load" /\ call[t].pc = "page"
      /\ S!Respond(t) /\ Free(t) /\ D!ShowPage(answer)
  BY DEF AnswerLoad
<1>1. Calm(t)
  BY <1>0, RespondCalm DEF Inv
<1>2. Site' = Site
  BY <1>1, ListedStays DEF Inv
<1>3. load' = D!NoLoad /\ net' = pumped.net
  BY <1>0 DEF D!ShowPage, D!Load
<1>4. net \subseteq net' /\ \A r \in net' : r \in net \/ r.from = {Site}
  <2> HIDE DEF tb, answer
  <2> QED
    BY <1>3, PumpNet
<1>5. FromInv'
  BY <1>2, <1>3, <1>4 DEF FromInv, Inv, D!NoLoad
<1>6. DP!Next
  <2>1. /\ load.busy /\ load.from = {Site}
        /\ answer \in DP!AnswersOf(Site, tab, load.page)
        /\ \A i \in DOMAIN answer.cards : answer.cards[i].state \in States
    BY <1>0, LoadAnswered
  <2>2. DP!ShowPage(answer)
    BY <1>0, SameEvents
  <2> HIDE DEF answer
  <2>3. DP!LoadOK
    BY <2>1, <2>2 DEF DP!LoadOK
  <2> QED
    BY <2>3 DEF DP!Next
<1>7. \A u \in Threads \ {t} : HasRequest(u)'
  BY <1>0, <1>1, <1>4, StillAsked
<1> QED
  BY <1>0, <1>5, <1>6, <1>7, FreedGoes

\* When the lazy request r has ended, all others are still under way.
LEMMA OthersInNet ==
    ASSUME Inv, NEW r \in net, Site' = Site, load' = load,
           NEW keys, net' = D!Pump(keys, net \ {r}, page, tab).net
    PROVE  /\ \A q \in net : q.key # r.key => q \in net'
           /\ FromInv'
<1>1. /\ net \ {r} \subseteq net'
      /\ \A q \in net' : q \in net \ {r} \/ q.from = {Site}
  BY PumpNet
<1> QED
  BY <1>1 DEF FromInv, Inv

LEMMA AnswerEntryGoes ==
    ASSUME Inv, NEW t \in Threads, AnswerEntry(t)
    PROVE  Goes
<1>0. /\ serving[t].kind = "entry" /\ call[t].pc = "page"
      /\ S!Respond(t) /\ Free(t)
  BY DEF AnswerEntry
<1>1. PICK r \in net : r.key = serving[t].key /\ D!ShowEntry(r, EntryAnswer(t))
  BY DEF AnswerEntry
<1>2. Calm(t)
  BY <1>0, RespondCalm DEF Inv
<1>3. Site' = Site
  BY <1>2, ListedStays DEF Inv
<1>4. /\ UNCHANGED <<load, tab>>
      /\ net' = D!Pump(queue, net \ {r}, page, tab).net
  BY <1>1 DEF D!ShowEntry, D!Load
<1>5. FromInv' /\ \A q \in net : q.key # r.key => q \in net'
  BY <1>3, <1>4, OthersInNet
<1>6. DP!Next
  <2>1. /\ r.from = {Site}
        /\ EntryAnswer(t) \in DP!CardsOf(Site, r.tab, r.page, r.key.idx)
    BY <1>0, <1>1, EntryAnswered
  <2>2. DP!ShowEntry(r, EntryAnswer(t))
    BY <1>1, SameEvents
  <2>3. DP!EntryOK(r)
    BY <2>1, <2>2 DEF DP!EntryOK
  <2> QED
    BY <2>3 DEF DP!Next
<1>7. \A u \in Threads \ {t} : HasRequest(u)'
  BY <1>0, <1>1, <1>2, <1>4, <1>5, StillAsked
<1> QED
  BY <1>0, <1>5, <1>6, <1>7, FreedGoes

LEMMA UnavailableGoes ==
    ASSUME Inv, NEW t \in Threads, Unavailable(t)
    PROVE  Goes
<1>0. S!Respond(t) /\ Free(t)
  BY DEF Unavailable
<1>1. Calm(t)
  BY <1>0, RespondCalm DEF Inv
<1>2. Site' = Site
  BY <1>1, ListedStays DEF Inv
<1>3. CASE serving[t].kind = "load" /\ D!LoadFail
  <2>1. load' = D!NoLoad /\ net' = net
    BY <1>3 DEF D!LoadFail
  <2>2. FromInv'
    BY <1>2, <2>1 DEF FromInv, Inv, D!NoLoad
  <2>3. DP!Next
    BY <1>3, SameEvents DEF DP!Next
  <2>4. \A u \in Threads \ {t} : HasRequest(u)'
    BY <1>0, <1>1, <1>3, <2>1, StillAsked
  <2> QED
    BY <1>0, <2>2, <2>3, <2>4, FreedGoes
<1>4. ASSUME serving[t].kind = "entry",
             NEW r \in net, r.key = serving[t].key, D!EntryFail(r)
      PROVE  Goes
  <2>1. \E keys : net' = D!Pump(keys, net \ {r}, page, tab).net
    BY <1>4 DEF D!EntryFail, D!Load
  <2>2. UNCHANGED <<load, tab>>
    BY <1>4 DEF D!EntryFail
  <2>3. FromInv' /\ \A q \in net : q.key # r.key => q \in net'
    BY <1>2, <2>1, <2>2, OthersInNet
  <2>4. DP!Next
    BY <1>4, SameEvents DEF DP!Next
  <2>5. \A u \in Threads \ {t} : HasRequest(u)'
    BY <1>0, <1>1, <1>4, <2>2, <2>3, StillAsked
  <2> QED
    BY <1>0, <2>3, <2>4, <2>5, FreedGoes
<1> QED
  BY <1>3, <1>4 DEF Unavailable

LEMMA AnswerGoneGoes ==
    ASSUME Inv, NEW t \in Threads, AnswerGone(t)
    PROVE  Goes
<1>0. S!Respond(t) /\ Free(t) /\ UNCHANGED browser
  BY DEF AnswerGone
<1>1. Calm(t)
  BY <1>0, RespondCalm DEF Inv
<1>2. Site' = Site
  BY <1>1, ListedStays DEF Inv
<1>3. UNCHANGED DP!vars /\ FromInv'
  BY <1>0, <1>2, BrowserIdle DEF Inv
<1>4. \A u \in Threads \ {t} : HasRequest(u)'
  BY <1>0, <1>1, StillAsked
<1> QED
  BY <1>0, <1>3, <1>4, FreedGoes

\* While the server does nothing it lists what it lists.
LEMMA ServerIdle ==
    ASSUME Inv, UNCHANGED server
    PROVE  /\ UNCHANGED SP!vars /\ ListedInv' /\ Site' = Site
           /\ \A u \in Threads : serving'[u] = serving[u] => HasPage(u)'
<1>1. UNCHANGED SP!vars /\ UNCHANGED <<file, scan, built, rts, call>>
  BY DEF server, SP!vars
<1>2. Site' = Site
  BY <1>1 DEF Site, Sorted, S!Position
<1>3. ListedInv'
  BY <1>1 DEF Inv, ListedInv, S!Matching
<1>4. ASSUME NEW u \in Threads, serving'[u] = serving[u] PROVE HasPage(u)'
  BY <1>1, <1>2, <1>4, PageKept DEF Inv, ServingInv
<1> QED
  BY <1>1, <1>2, <1>3, <1>4

LEMMA GiveUpGoes ==
    ASSUME Inv, GiveUp
    PROVE  Goes
<1>0. UNCHANGED server
  BY DEF GiveUp
<1>1. PICK r \in net :
         /\ D!EntryFail(r)
         /\ serving' = [t \in Threads |-> IF serving[t] # Nobody
                                             /\ serving[t].kind = "entry"
                                             /\ serving[t].key = r.key
                                          THEN Gone ELSE serving[t]]
  BY DEF GiveUp
<1>2. /\ UNCHANGED SP!vars /\ ListedInv' /\ Site' = Site
      /\ \A u \in Threads : serving'[u] = serving[u] => HasPage(u)'
  BY <1>0, ServerIdle
<1>3. \E keys : net' = D!Pump(keys, net \ {r}, page, tab).net
  BY <1>1 DEF D!EntryFail, D!Load
<1>4. UNCHANGED <<load, tab>>
  BY <1>1 DEF D!EntryFail
<1>5. FromInv' /\ \A q \in net : q.key # r.key => q \in net'
  BY <1>2, <1>3, <1>4, OthersInNet
<1>6. DP!Next
  BY <1>1, SameEvents DEF DP!Next
<1>7. /\ serving \in [Threads -> Clients] /\ serving' \in [Threads -> Clients]
      /\ \A u \in Threads : \/ serving'[u] = Gone
                            \/ /\ serving'[u] = serving[u]
                               /\ ~ (serving[u].kind = "entry" /\ serving[u].key = r.key)
  BY <1>1, ClientTypes DEF Inv, ServingInv
<1>8. call' = call
  BY <1>0 DEF server
<1>9. ASSUME NEW u \in Threads PROVE HasRequest(u)' /\ IsAlone(u)' /\ HasPage(u)'
  <2>1. CASE serving'[u] = Gone
    BY <2>1, ClientTypes DEF HasRequest, IsAlone, HasPage, Awaited
  <2>2. CASE /\ serving'[u] = serving[u]
             /\ ~ (serving[u].kind = "entry" /\ serving[u].key = r.key)
    <3>1. HasRequest(u) /\ IsAlone(u)
      BY DEF Inv, ServingInv
    <3>2. HasRequest(u)'
      BY <1>4, <1>5, <1>8, <2>2, <3>1 DEF HasRequest
    <3>3. IsAlone(u)'
      BY <1>7, <2>2, <3>1, ClientTypes DEF IsAlone, Awaited
    <3> QED
      BY <1>2, <2>2, <3>2, <3>3
  <2> QED
    BY <1>7, <2>1, <2>2
<1> QED
  BY <1>2, <1>5, <1>6, <1>7, <1>9 DEF Goes, Agree, ServingInv

LEMMA UserGoes ==
    ASSUME Inv, User
    PROVE  Goes
<1>0. UNCHANGED server /\ serving' = serving
  BY DEF User
<1>1. /\ UNCHANGED SP!vars /\ ListedInv' /\ Site' = Site
      /\ \A u \in Threads : HasPage(u)'
  BY <1>0, ServerIdle
<1>2. /\ ~ load.busy /\ net' = net
      /\ load'.busy /\ load'.from = {Site}
  BY DEF User, D!ClickRefresh, D!ClickPage, D!ClickTab, D!LoadPage
<1>3. FromInv'
  BY <1>1, <1>2 DEF FromInv, Inv
<1>4. DP!Next
  <2>1. CASE D!ClickRefresh
    BY <2>1, SameEvents DEF DP!Next
  <2>2. ASSUME NEW n \in D!Pages, D!ClickPage(n) PROVE DP!Next
    BY <2>2, SameEvents, SameViews DEF DP!Next
  <2>3. ASSUME NEW id \in D!Tabs, D!ClickTab(id) PROVE DP!Next
    BY <2>3, SameEvents, SameViews DEF DP!Next
  <2> QED
    BY <2>1, <2>2, <2>3 DEF User
<1>5. call' = call
  BY <1>0 DEF server
<1>6. ASSUME NEW u \in Threads PROVE HasRequest(u)' /\ IsAlone(u)'
  <2>1. HasRequest(u) /\ IsAlone(u) /\ serving[u].kind # "load"
    BY <1>2 DEF Inv, ServingInv, HasRequest
  <2>2. HasRequest(u)'
    BY <1>0, <1>2, <1>5, <2>1 DEF HasRequest
  <2> QED
    BY <1>0, <2>1, <2>2 DEF IsAlone, Awaited
<1> QED
  BY <1>0, <1>1, <1>3, <1>4, <1>6 DEF Goes, Agree, ServingInv, Inv

\* What the host's step leaves, for the server and for what it lists.
LEMMA HostCalm ==
    ASSUME OneSetup, Inv, S!Configure \/ S!Install \/ S!Shutdown
    PROVE  /\ SP!Next /\ call' = call
           /\ ListedInv' /\ Site' = Site
           /\ \A r \in 1 .. built : rts'[r].entries = rts[r].entries
<1> DEFINE M(V) == S!Matching(file, V)
           Listed(V, r) == rts[r].vendors = V /\ rts[r].entries = M(V)
           Scanning(V) == scan.rt # 0 => /\ rts[scan.rt].vendors = V
                                         /\ scan.entries = M(V)
<1>1. /\ built >= 1 /\ built \in 0 .. MaxRuntimes /\ MaxRuntimes \in Nat
      /\ SP!Runtimes = 1 .. MaxRuntimes /\ SP!Base
  BY BaseHolds DEF Inv, ListedInv
<1>2. PICK cfg \in Configs : /\ \A r \in 1 .. built : Listed(cfg.vendors, r)
                             /\ Scanning(cfg.vendors)
  BY DEF Inv, ListedInv
<1> DEFINE V == cfg.vendors
<1>3. /\ SP!Next /\ call' = call /\ file' = file /\ built' \in Nat
      /\ built' >= 1
      /\ \A r \in 1 .. built : rts'[r].entries = rts[r].entries
      /\ \A r \in 1 .. built' : rts'[r].vendors = V /\ rts'[r].entries = M(V)
      /\ scan'.rt # 0 => rts'[scan'.rt].vendors = V /\ scan'.entries = M(V)
  <2>1. CASE S!Configure
    <3> DEFINE n == built + 1
    <3>1. SP!Configure
      BY <2>1, SameHost
    <3>2. /\ UNCHANGED <<file, call, built>> /\ n \in SP!Runtimes
          /\ \A s \in SP!Runtimes \ {n} : rts'[s] = rts[s]
          /\ \E d \in Configs : rts'[n].vendors = d.vendors
          /\ scan'.rt = n /\ scan'.entries = SP!Matching(file, rts'[n].vendors)
      BY <1>1, <3>1, Assumptions, SP!ConfigureRuntimes
    <3>3. rts'[n].vendors = V
      BY <3>2 DEF OneSetup
    <3>4. scan'.entries = M(V)
      BY <3>2, <3>3 DEF S!Matching, SP!Matching
    <3>5. \A r \in 1 .. built : rts'[r] = rts[r]
      BY <1>1, <3>2
    <3> HIDE DEF M
    <3> QED
      BY <1>1, <1>2, <3>1, <3>2, <3>3, <3>4, <3>5 DEF SP!Next
  <2>2. CASE S!Install
    <3> DEFINE n == built + 1
    <3>1. SP!Install
      BY <2>2, SameHost
    <3>2. /\ UNCHANGED <<file, call>> /\ built' = n /\ n \in SP!Runtimes
          /\ SP!EndScan /\ scan.rt = n /\ scan.rt # 0
      BY <1>1, <3>1, Assumptions, SP!InstallRuntimes
    <3>3. /\ \A s \in SP!Runtimes \ {n} : rts'[s] = rts[s]
          /\ rts'[n].vendors = rts[n].vendors
          /\ rts'[n].entries = scan.entries
          /\ scan'.rt = 0
      BY <1>1, <3>2, Assumptions, SP!EndScanRuntimes
    <3>4. rts'[n].vendors = V /\ rts'[n].entries = M(V)
      BY <1>2, <3>2, <3>3
    <3>5. \A r \in 1 .. built : rts'[r] = rts[r]
      BY <1>1, <3>2, <3>3
    <3>6. \A r \in 1 .. n : r \in 1 .. built \/ r = n
      BY <1>1
    <3> HIDE DEF M
    <3> QED
      BY <1>1, <1>2, <3>1, <3>2, <3>3, <3>4, <3>5, <3>6 DEF SP!Next
  <2>3. CASE S!Shutdown
    <3>1. SP!Shutdown
      BY <2>3, SameHost
    <3>2. UNCHANGED <<file, call, rts, built, scan>>
      BY <2>3 DEF S!Shutdown, S!World, S!Lock
    <3> HIDE DEF M
    <3> QED
      BY <1>1, <1>2, <3>1, <3>2 DEF SP!Next
  <2> QED
    BY <2>1, <2>2, <2>3
<1>4. ListedInv'
  <2>1. M(V)' = M(V)
    BY <1>3 DEF S!Matching
  <2>2. cfg \in Configs /\ \A r \in 1 .. built' : Listed(V, r)'
    BY <1>3, <2>1
  <2>3. Scanning(V)'
    BY <1>3, <2>1
  <2> QED
    BY <1>3, <2>2, <2>3 DEF ListedInv
<1>5. Site' = Site
  <2>1. built \in 1 .. built /\ built' \in 1 .. built'
    BY <1>1, <1>3
  <2>2. /\ rts'[built'].entries = rts[built].entries
        /\ rts'[built'].vendors = rts[built].vendors
    BY <1>2, <1>3, <2>1
  <2> QED
    BY <2>2 DEF Site, Sorted, S!Position
<1> QED
  BY <1>3, <1>4, <1>5

\* A reconfigure begins, or comes to its end, or the plugin is unloaded.
LEMMA HostGoes ==
    ASSUME OneSetup, Inv, Host \/ Reconfigured
    PROVE  Goes
<1>0. /\ UNCHANGED browser /\ serving' = serving
      /\ S!Configure \/ S!Install \/ S!Shutdown
  BY DEF Host, Reconfigured
<1>3. /\ SP!Next /\ call' = call /\ ListedInv' /\ Site' = Site
      /\ \A r \in 1 .. built : rts'[r].entries = rts[r].entries
  BY <1>0, HostCalm
<1>6. UNCHANGED DP!vars /\ FromInv'
  BY <1>0, <1>3, BrowserIdle DEF Inv
<1>7. ASSUME NEW u \in Threads PROVE HasRequest(u)' /\ IsAlone(u)' /\ HasPage(u)'
  <2>1. SP!IInv /\ HasRequest(u) /\ IsAlone(u) /\ HasPage(u)
    BY DEF Inv, ServingInv
  <2>2. HasPage(u)'
    BY <1>0, <1>3, <2>1, PageKept
  <2>3. HasRequest(u)' /\ IsAlone(u)'
    BY <1>0, <1>3, <2>1 DEF HasRequest, IsAlone, Awaited, browser
  <2> QED
    BY <2>2, <2>3
<1> QED
  BY <1>0, <1>3, <1>6, <1>7 DEF Goes, Agree, ServingInv, Inv

\* Every step goes for both.
LEMMA NextGoes ==
    ASSUME OneSetup, Inv, [Next]_vars
    PROVE  Goes
<1>1. ASSUME NEW t \in Threads, Arrive(t) PROVE Goes
  BY <1>1, ArriveLoadGoes, ArriveEntryGoes DEF Arrive
<1>2. ASSUME NEW t \in Threads, Serve(t) PROVE Goes
  BY <1>2, WorkGoes, AnswerLoadGoes, AnswerEntryGoes, UnavailableGoes,
     AnswerGoneGoes DEF Serve
<1>3. CASE UNCHANGED vars
  <2>1. /\ UNCHANGED server /\ UNCHANGED browser /\ serving' = serving
        /\ call' = call
    BY <1>3 DEF vars, server
  <2>2. /\ UNCHANGED SP!vars /\ ListedInv' /\ Site' = Site
        /\ \A u \in Threads : HasPage(u)'
    BY <2>1, ServerIdle
  <2>3. UNCHANGED DP!vars /\ FromInv'
    BY <2>1, <2>2, BrowserIdle DEF Inv
  <2>4. ASSUME NEW u \in Threads PROVE HasRequest(u)' /\ IsAlone(u)'
    <3>1. HasRequest(u) /\ IsAlone(u)
      BY DEF Inv, ServingInv
    <3> QED
      BY <2>1, <3>1 DEF HasRequest, IsAlone, Awaited, browser
  <2> QED
    BY <2>1, <2>2, <2>3, <2>4 DEF Goes, Agree, ServingInv, Inv
<1> QED
  BY <1>1, <1>2, <1>3, GiveUpGoes, UserGoes, HostGoes DEF Next, Progress, Event

LEMMA NextInv == OneSetup /\ Inv /\ [Next]_vars => Inv'
<1> SUFFICES ASSUME OneSetup, Inv, [Next]_vars PROVE Inv'
  OBVIOUS
<1>1. [SP!Next]_SP!vars /\ [DP!Next]_DP!vars /\ Agree'
  BY NextGoes DEF Goes
<1>2. (SP!IInv)'
  BY <1>1, Assumptions, SP!NextInv DEF Inv
<1>3. (DP!Inv)'
  BY <1>1, Assumptions, DP!NextInv DEF Inv
<1> QED
  BY <1>1, <1>2, <1>3 DEF Inv, Agree
-----------------------------------------------------------------------------
(* The panel is opened                                                     *)

LEMMA InitServer == Init => SP!IInv /\ ListedInv
<1> SUFFICES ASSUME Init PROVE SP!IInv /\ ListedInv
  OBVIOUS
<1>1. /\ now = OpenedAt /\ edited = 0 /\ overtaken = 0 /\ scan = SP!NoScan
      /\ file \in Files /\ active = 1 /\ built = 1
      /\ call = [t \in Threads |-> SP!IdleCall]
  BY DEF Init, S!NoScan, SP!NoScan, S!IdleCall, SP!IdleCall, S!NoQuota, SP!NoQuota
<1>2. PICK cfg \in Configs :
         rts = [r \in 1 .. MaxRuntimes |->
                  IF r = 1
                  THEN [ttl |-> cfg.ttl, vendors |-> cfg.vendors,
                        entries |-> S!Matching(file, cfg.vendors),
                        configError |-> ~ file.readable, lastScan |-> OpenedAt,
                        quota |-> [e \in Entries |->
                           IF e \in DOMAIN CachedAt
                           THEN [key |-> e, gen |-> 1, fetchedAt |-> CachedAt[e]]
                           ELSE NoResult]]
                  ELSE [ttl |-> 0, vendors |-> {}, entries |-> {},
                        configError |-> FALSE, lastScan |-> 0,
                        quota |-> S!NoQuota]]
  BY DEF Init
<1>3. /\ MaxRuntimes \in Nat /\ MaxRuntimes >= 1 /\ MaxTime \in Nat
      /\ OpenedAt \in 1 .. MaxTime
      /\ \A e \in DOMAIN CachedAt : CachedAt[e] \in 1 .. MaxTime
      /\ cfg.ttl \in Nat /\ cfg.vendors \in SUBSET Vendors
      /\ file.readable \in BOOLEAN /\ file.lists \in SUBSET Entries
      /\ SP!Runtimes = 1 .. MaxRuntimes /\ SP!Times = 1 .. MaxTime
  BY <1>1, Assumptions, OpeningAssumption
     DEF SP!BoundsAssumption, SP!ConfigsAssumption, SP!Runtimes, SP!Times, S!Times
<1>4. /\ 1 \in SP!Runtimes
      /\ rts[1].vendors = cfg.vendors /\ rts[1].lastScan = OpenedAt
      /\ rts[1].entries = SP!Matching(file, cfg.vendors)
      /\ rts[1].entries = S!Matching(file, cfg.vendors)
  <2>1. 1 \in 1 .. MaxRuntimes /\ 1 \in SP!Runtimes
    BY <1>3
  <2>2. /\ rts[1].vendors = cfg.vendors /\ rts[1].lastScan = OpenedAt
        /\ rts[1].entries = S!Matching(file, cfg.vendors)
    BY <1>2, <2>1
  <2> QED
    BY <2>1, <2>2 DEF S!Matching, SP!Matching
<1>5. \A r \in SP!Runtimes, e \in Entries :
         rts[r].quota[e] # NoResult =>
            /\ r = 1 /\ e \in DOMAIN CachedAt
            /\ rts[r].quota[e] = [key |-> e, gen |-> 1, fetchedAt |-> CachedAt[e]]
  BY <1>2, <1>3 DEF S!NoQuota
<1>6. rts \in [SP!Runtimes -> SP!Runtime]
  <2> SUFFICES ASSUME NEW r \in SP!Runtimes PROVE rts[r] \in SP!Runtime
    BY <1>2, <1>3
  <2>1. rts[r].quota \in [Entries -> SP!Result \cup {NoResult}]
    <3>1. ASSUME NEW e \in Entries PROVE rts[r].quota[e] \in SP!Result \cup {NoResult}
      <4>1. CASE rts[r].quota[e] = NoResult
        BY <4>1
      <4>2. CASE rts[r].quota[e] # NoResult
        <5>1. /\ rts[r].quota[e] = [key |-> e, gen |-> 1, fetchedAt |-> CachedAt[e]]
              /\ e \in DOMAIN CachedAt
          BY <1>5, <4>2
        <5>2. CachedAt[e] \in SP!Times /\ 1 \in SP!Runtimes
          BY <1>3, <1>4, <5>1
        <5> QED
          BY <5>1, <5>2 DEF SP!Result
      <4> QED
        BY <4>1, <4>2
    <3>2. rts[r].quota = [e \in Entries |-> rts[r].quota[e]]
      BY <1>2, <1>3 DEF S!NoQuota
    <3> QED
      BY <3>1, <3>2
  <2>2. S!Matching(file, cfg.vendors) \in SUBSET Entries
    BY <1>3 DEF S!Matching
  <2>3. CASE r = 1
    <3> DEFINE q == rts[r].quota
    <3>1. rts[r] = [ttl |-> cfg.ttl, vendors |-> cfg.vendors,
                    entries |-> S!Matching(file, cfg.vendors),
                    configError |-> ~ file.readable, lastScan |-> OpenedAt,
                    quota |-> q]
      BY <1>2, <1>3, <2>3
    <3>2. q \in [Entries -> SP!Result \cup {NoResult}]
      BY <2>1
    <3> HIDE DEF q
    <3> QED
      BY <1>3, <2>2, <3>1, <3>2 DEF SP!Runtime
  <2>4. CASE r # 1
    <3> DEFINE q == rts[r].quota
    <3>1. rts[r] = [ttl |-> 0, vendors |-> {}, entries |-> {},
                    configError |-> FALSE, lastScan |-> 0, quota |-> q]
      BY <1>2, <1>3, <2>4
    <3>2. q \in [Entries -> SP!Result \cup {NoResult}]
      BY <2>1
    <3> HIDE DEF q
    <3> QED
      BY <1>3, <3>1, <3>2 DEF SP!Runtime
  <2> QED
    BY <2>3, <2>4
<1>7. /\ SP!IdleCall \in SP!Call /\ SP!IdleCall.pc = "idle" /\ SP!IdleCall.since = 0
      /\ SP!IdleCall.cards = SP!NoQuota
  BY Assumptions, SP!IdleCallType DEF SP!IdleCall
<1>8. /\ call \in [Threads -> SP!Call]
      /\ \A t \in Threads : call[t].pc = "idle" /\ call[t].since = 0 /\ call[t].cards = SP!NoQuota
  BY <1>1, <1>7
<1>9. SP!TypeOK /\ SP!RuntimeInv
  <2>1. scan \in SP!Scan
    BY <1>1, <1>3 DEF SP!NoScan, SP!Scan
  <2>2. \A r \in SP!Runtimes : r > 1 => rts[r].quota = SP!NoQuota
    BY <1>2, <1>3 DEF S!NoQuota, SP!NoQuota
  <2> QED
    BY <1>1, <1>3, <1>6, <1>8, <2>1, <2>2
       DEF SP!TypeOK, SP!RuntimeInv, SP!Working
<1>15. SP!LockInv /\ SP!PeersInv /\ SP!ForcedInv
  BY <1>1, <1>8 DEF SP!NoScan, SP!LockInv, SP!PeersInv, SP!ForcedInv, SP!Working,
                    SP!Viewed, SP!Scanned
<1>10. SP!ClockInv
  <2>1. \A r \in SP!Runtimes : rts[r].lastScan \in {0, OpenedAt}
    BY <1>2, <1>3
  <2> QED
    BY <1>1, <1>3, <1>8, <2>1 DEF SP!ClockInv
<1>11. SP!ScanInv
  <2>1. \A r \in 1 .. built : r = 1
    BY <1>1
  <2> QED
    BY <1>4, <1>8, <2>1 DEF SP!ScanInv, SP!Scanned
<1>12. SP!FillInv /\ SP!HoldInv /\ SP!WorkInv
  BY <1>8 DEF SP!FillInv, SP!HoldInv, SP!WorkInv, SP!Viewed, SP!Scanned, SP!Refreshing
<1>13. SP!OwnResults
  <2>1. \A e \in Entries : SP!NoQuota[e] = NoResult
    BY DEF SP!NoQuota
  <2>2. \A t \in Threads, e \in Entries : call[t].cards[e] = NoResult
    BY <1>8, <2>1
  <2>3. \A r \in SP!Runtimes, e \in Entries :
           rts[r].quota[e] # NoResult =>
              rts[r].quota[e].key = e /\ rts[r].quota[e].gen = r
    <3> SUFFICES ASSUME NEW r \in SP!Runtimes, NEW e \in Entries,
                        rts[r].quota[e] # NoResult
                 PROVE  rts[r].quota[e].key = e /\ rts[r].quota[e].gen = r
      OBVIOUS
    <3>1. r = 1 /\ rts[r].quota[e] = [key |-> e, gen |-> 1, fetchedAt |-> CachedAt[e]]
      BY <1>5
    <3> QED
      BY <3>1
  <2> QED
    BY <2>2, <2>3 DEF SP!OwnResults
<1>14. ListedInv
  <2>1. scan.rt = 0 /\ \A r \in 1 .. built : r = 1
    BY <1>1 DEF SP!NoScan
  <2> QED
    BY <1>1, <1>4, <2>1 DEF ListedInv
<1> QED
  BY <1>9, <1>10, <1>11, <1>12, <1>13, <1>14, <1>15 DEF SP!IInv

LEMMA InitInv == Init => Inv
<1> SUFFICES ASSUME Init PROVE Inv
  OBVIOUS
<1>1. SP!IInv /\ ListedInv
  BY InitServer
<1>2. DP!Inv
  <2>1. DP!Init
    BY SameEvents DEF Init
  <2> QED
    BY <2>1, Assumptions, DP!InitInv
<1>3. ServingInv
  <2>1. serving = [t \in Threads |-> Nobody]
    BY DEF Init
  <2> QED
    BY <2>1, ClientTypes DEF ServingInv, HasRequest, IsAlone, HasPage, Awaited
<1>4. FromInv
  <2>1. \E keys : net = D!Pump(keys, {}, 1, AllTab).net
    BY DEF Init, D!Init
  <2>2. \A r \in net : r.from = {Site}
    BY <2>1, PumpNet
  <2>3. ~ load.busy
    BY DEF Init, D!Init, D!NoLoad
  <2> QED
    BY <2>2, <2>3 DEF FromInv
<1> QED
  BY <1>1, <1>2, <1>3, <1>4 DEF Inv

LEMMA AlwaysInv ==
    ASSUME OneSetup PROVE Spec => []Inv
<1>1. Inv /\ [Next]_vars => Inv'
  BY NextInv
<1> QED
  BY <1>1, InitInv, PTL DEF Spec
-----------------------------------------------------------------------------
(* The theorems                                                            *)

\* The dashboard's steps, by the name that the property gives them.
LEMMA SameLoader ==
    ASSUME NEW keys, NEW requests, NEW s, NEW tb, NEW pg
    PROVE  /\ D!AnswersOf(s, tb, pg) = DP!AnswersOf(s, tb, pg)
           /\ D!Collect(keys, requests, pg, tb) = DP!Collect(keys, requests, pg, tb)
           /\ D!Pump(keys, requests, pg, tb) = DP!Pump(keys, requests, pg, tb)
<1>1. D!AnswersOf(s, tb, pg) = DP!AnswersOf(s, tb, pg)
  BY SameViews DEF D!AnswersOf, DP!AnswersOf, D!GridsOf, DP!GridsOf, D!Card,
     DP!Card, D!PageCount, DP!PageCount, D!ClampPage, DP!ClampPage
<1>2. D!Collect(keys, requests, pg, tb) = DP!Collect(keys, requests, pg, tb)
  BY DEF D!Collect, DP!Collect, D!Lazy, DP!Lazy, D!KeysOf, DP!KeysOf, D!Key,
     DP!Key, D!Only, DP!Only, D!Rounds, DP!Rounds, D!Inflight, DP!Inflight
<1>3. D!Pump(keys, requests, pg, tb) = DP!Pump(keys, requests, pg, tb)
  BY DEF D!Pump, DP!Pump, D!Started, DP!Started, D!Request, DP!Request,
     D!Inflight, DP!Inflight, D!Cardinality, DP!Cardinality
<1> QED
  BY <1>1, <1>2, <1>3

LEMMA SameDashboard == [DP!Next]_DP!vars => [D!Next]_D!vars
<1> SUFFICES ASSUME [DP!Next]_DP!vars PROVE [D!Next]_D!vars
  OBVIOUS
<1>1. CASE DP!LoadOK
  <2>1. PICK s \in load.from : \E answer \in DP!AnswersOf(s, tab, load.page) :
           /\ load.force =>
                 \A i \in DOMAIN answer.cards : answer.cards[i].state \in States
           /\ DP!ShowPage(answer)
    BY <1>1 DEF DP!LoadOK
  <2>2. PICK answer \in DP!AnswersOf(s, tab, load.page) :
           /\ load.force =>
                 \A i \in DOMAIN answer.cards : answer.cards[i].state \in States
           /\ DP!ShowPage(answer)
    BY <2>1
  <2>3. answer \in D!AnswersOf(s, tab, load.page) /\ D!ShowPage(answer)
    BY <2>2, SameLoader, SameEvents
  <2>4. D!LoadOK
    BY <1>1, <2>2, <2>3 DEF D!LoadOK, DP!LoadOK
  <2> QED
    BY <2>4 DEF D!Next
<1>2. ASSUME NEW r \in net, DP!EntryOK(r) PROVE D!Next
  <2>1. D!EntryOK(r)
    BY <1>2, SameEvents, SameViews
       DEF D!EntryOK, DP!EntryOK, D!CardsOf, DP!CardsOf, D!Card, DP!Card
  <2> QED
    BY <2>1 DEF D!Next
<1>3. CASE DP!Reload
  <2>1. PICK answer \in DP!AnswersOf(Site, url.tab, url.page) :
           /\ tabs' = answer.tabs
           /\ page' = answer.page
           /\ total' = answer.total
           /\ grid' = answer.cards
           /\ DP!Load(DP!Pump(DP!Collect(answer.cards, {}, answer.page, url.tab),
                              {}, answer.page, url.tab))
    BY <1>3 DEF DP!Reload
  <2>2. answer \in D!AnswersOf(Site, url.tab, url.page)
    BY <2>1, SameLoader
  <2>3. D!Load(D!Pump(D!Collect(answer.cards, {}, answer.page, url.tab), {},
                      answer.page, url.tab))
    BY <2>1, SameLoader DEF D!Load, DP!Load
  <2>4. /\ D!Click("reload") /\ tab' = url.tab /\ load' = D!NoLoad
        /\ retry' = D!NoRetries /\ UNCHANGED <<Site, url, 0>>
    BY <1>3, SameViews DEF DP!Reload, D!Click, DP!Click, D!NoRetries, DP!NoRetries
  <2>5. D!Reload
    BY <2>1, <2>2, <2>3, <2>4 DEF D!Reload
  <2> QED
    BY <2>5 DEF D!Next
<1>4. CASE DP!EditSite
  <2>1. D!EditSite
    BY <1>4 DEF D!EditSite, DP!EditSite
  <2> QED
    BY <2>1 DEF D!Next
<1>5. CASE UNCHANGED DP!vars
  BY <1>5 DEF D!vars, DP!vars
<1>6. CASE DP!ClickRefresh \/ DP!LoadFail
  BY <1>6, SameEvents DEF D!Next
<1>7. ASSUME NEW id \in DP!Tabs, DP!ClickTab(id) PROVE D!Next
  BY <1>7, SameEvents, SameViews DEF D!Next
<1>8. ASSUME NEW n \in DP!Pages, DP!ClickPage(n) PROVE D!Next
  BY <1>8, SameEvents, SameViews DEF D!Next
<1>9. ASSUME NEW r \in net, DP!EntryFail(r) PROVE D!Next
  BY <1>9, SameEvents DEF D!Next
<1> QED
  BY <1>1, <1>2, <1>3, <1>4, <1>5, <1>6, <1>7, <1>8, <1>9 DEF DP!Next

\* The server answers as the dashboard's model takes for granted, whatever is
\* interleaved: every behaviour of the two together is one of the dashboard's
\* (handleManagement, dashboardJS).
THEOREM DashboardImplemented ==
    ASSUME OneSetup PROVE Spec => ImplementsDashboard
<1>1. Init => D!Init
  BY DEF Init
<1>2. Inv /\ [Next]_vars => [D!Next]_D!vars
  BY NextGoes, SameDashboard DEF Goes
<1> QED
  BY <1>1, <1>2, AlwaysInv, PTL DEF Spec, ImplementsDashboard, D!Spec
-----------------------------------------------------------------------------
(* While the plugin is left alone                                          *)

\* Nobody is told that there is no runtime.
Attended == Undisturbed => \A t \in Threads : call[t].pc # "unavailable"

LEMMA CalmAttended ==
    ASSUME Attended, NEW t \in Threads, Calm(t),
           Undisturbed => call'[t].pc # "unavailable"
    PROVE  Attended' /\ (Undisturbed' <=> Undisturbed)
BY DEF Attended, Undisturbed, Calm, SP!OnlyMoved, SP!Kept

LEMMA ReceiveAttended ==
    ASSUME Inv, NEW t \in Threads, S!Receive(t), Undisturbed
    PROVE  call'[t].pc # "unavailable"
<1>1. active = 1 /\ call \in [Threads -> SP!Call]
  BY BaseHolds DEF Undisturbed, Inv
<1>2. PICK req \in Requests :
         call' = [call EXCEPT ![t] =
                    [S!IdleCall EXCEPT !.pc = S!FirstStep(req), !.rt = active,
                                       !.req = req, !.since = now,
                                       !.beside = S!UnderWay]]
  BY DEF S!Receive
<1>3. call'[t].pc = S!FirstStep(req)
  BY <1>1, <1>2 DEF S!IdleCall
<1>4. S!FirstStep(req) \in {"notfound", "rescan"}
  BY <1>1 DEF S!FirstStep
<1> QED
  BY <1>3, <1>4

LEMMA NextAttended ==
    ASSUME Inv, Attended, [Next]_vars
    PROVE  Attended' /\ (Undisturbed' => Undisturbed)
<1>1. ASSUME NEW t \in Threads, Arrive(t) PROVE Attended' /\ (Undisturbed' => Undisturbed)
  <2>1. S!Receive(t)
    BY <1>1 DEF Arrive, ArriveLoad, ArriveEntry
  <2> QED
    BY <2>1, ReceiveCalm, ReceiveAttended, CalmAttended DEF Inv
<1>2. ASSUME NEW t \in Threads, Work(t) PROVE Attended' /\ (Undisturbed' => Undisturbed)
  <2>1. Working(t)
    BY <1>2 DEF Work, Working
  <2> QED
    BY <2>1, WorkCalm, CalmAttended DEF Inv
<1>3. ASSUME NEW t \in Threads, Serve(t), ~ Work(t)
      PROVE  Attended' /\ (Undisturbed' => Undisturbed)
  <2>1. S!Respond(t)
    BY <1>3 DEF Serve, AnswerLoad, AnswerEntry, Unavailable, AnswerGone
  <2> QED
    BY <2>1, RespondCalm, CalmAttended DEF Inv
<1>4. CASE UNCHANGED server
  BY <1>4 DEF server, Attended, Undisturbed
<1>5. CASE Host \/ Reconfigured
  <2>1. CASE S!Configure
    BY <2>1 DEF S!Configure, Attended, Undisturbed
  <2>2. CASE S!Shutdown
    BY <2>2 DEF S!Shutdown, Attended, Undisturbed
  <2>3. CASE S!Install
    <3>1. built >= 1 /\ built' = built + 1 /\ built \in Nat
      BY <2>3, BaseHolds DEF S!Install, Inv, ListedInv
    <3> QED
      BY <3>1 DEF Attended, Undisturbed
  <2> QED
    BY <1>5, <2>1, <2>2, <2>3 DEF Host, Reconfigured
<1> QED
  BY <1>1, <1>2, <1>3, <1>4, <1>5 DEF Next, Progress, Event, GiveUp, User, vars

LEMMA InitAttended == Init => Attended
BY DEF Init, Attended, S!IdleCall

\* A card that the request asked to be looked up has a quota.
LEMMA WantedFilled ==
    ASSUME Inv, Undisturbed, NEW t \in Threads, call[t].pc = "page",
           NEW e \in S!Wanted(call[t].req, call[t].view)
    PROVE  CardOf(t, e).state # "missing"
<1>1. call[t].rt \in 1 .. built /\ built = 1 /\ active = 1
  BY BaseHolds DEF Inv, Undisturbed
<1>2. active = call[t].rt
  BY <1>1
<1>3. call[t].cards[e] # NoResult
  <2>1. S!FillInv
    BY SameInvariants DEF Inv, S!IInv
  <2> QED
    BY <1>2, <2>1 DEF S!FillInv, S!Viewed, S!Scanned
<1> QED
  BY <1>3 DEF CardOf, D!Card, StateOf

LEMMA LoadFilled ==
    ASSUME Inv, Undisturbed, NEW t \in Threads,
           serving[t].kind = "load", call[t].pc = "page", load.force
    PROVE  \A i \in DOMAIN PageAnswer(t).cards :
              PageAnswer(t).cards[i].state # "missing"
<1> DEFINE view == call[t].view
<1>1. call[t].req = Target(tab, load.page, -1, load.force)
  BY DEF Inv, ServingInv, HasRequest
<1>2. S!Wanted(call[t].req, view) = view
  <2>1. ~ S!SinglesOut(call[t].req, view)
    BY <1>1 DEF S!SinglesOut, Target
  <2>2. call[t].req.force
    BY <1>1 DEF Target
  <2> QED
    BY <2>1, <2>2 DEF S!Wanted
<1>3. view \in SUBSET Entries
  <2>1. call[t] \in SP!Call
    BY BaseHolds DEF Inv
  <2> QED
    BY <2>1 DEF SP!Call
<1>4. PageAnswer(t).cards = [i \in DOMAIN Sorted(view) |-> CardOf(t, Sorted(view)[i])]
  BY DEF PageAnswer
<1>5. \A i \in DOMAIN Sorted(view) : Sorted(view)[i] \in view
  BY <1>3, SortedLists
<1> QED
  BY <1>2, <1>4, <1>5, WantedFilled

LEMMA EntryFilled ==
    ASSUME Inv, Undisturbed, NEW t \in Threads,
           serving[t].kind = "entry", call[t].pc = "page"
    PROVE  EntryAnswer(t).state # "missing"
<1> DEFINE view == call[t].view
           idx  == call[t].req.idx
<1>1. idx \in Nat
  <2>1. PICK r \in net : call[t].req = Target(r.tab, r.page, r.key.idx, FALSE)
    BY DEF Inv, ServingInv, HasRequest
  <2>2. r.key.idx \in Nat
    BY BrowserTypes DEF Inv
  <2> QED
    BY <2>1, <2>2 DEF Target
<1>2. view \in SUBSET Entries
  <2>1. call[t] \in SP!Call
    BY BaseHolds DEF Inv
  <2> QED
    BY <2>1 DEF SP!Call
<1>3. PageAnswer(t).cards = [i \in DOMAIN Sorted(view) |-> CardOf(t, Sorted(view)[i])]
  BY DEF PageAnswer
<1>4. /\ Cardinality(view) \in Nat /\ DOMAIN Sorted(view) = 1 .. Cardinality(view)
      /\ Len(PageAnswer(t).cards) = Cardinality(view)
  BY <1>2, <1>3, SortedLists
<1>5. CASE idx < Cardinality(view)
  <2> DEFINE e == Sorted(view)[idx + 1]
  <2>1. idx + 1 \in 1 .. Cardinality(view)
    BY <1>1, <1>4, <1>5
  <2>2. e \in view /\ S!Position(e, view) = idx
    BY <1>1, <1>2, <2>1, SortedLists
  <2>3. e \in S!Wanted(call[t].req, view)
    BY <1>1, <1>5, <2>2, SameSize DEF S!Wanted, S!SinglesOut
  <2>4. EntryAnswer(t) = CardOf(t, e)
    BY <1>1, <1>3, <1>4, <1>5, <2>1 DEF EntryAnswer
  <2> QED
    BY <2>3, <2>4, WantedFilled
<1>6. CASE ~ (idx < Cardinality(view))
  BY <1>4, <1>6 DEF EntryAnswer, D!NoCard
<1> QED
  BY <1>5, <1>6

\* A forced page load ends with a quota on every card, although lazy requests
\* for the same cards are worked on beside it (refreshQuota, renderFragments).
LEMMA RefreshStep ==
    ASSUME Inv, Attended, [Next]_vars,
           load.busy, load.force, ~ load'.busy, Undisturbed
    PROVE  \A i \in DOMAIN grid' : grid'[i].state # "missing"
<1>1. CASE UNCHANGED browser
  BY <1>1 DEF browser
<1>2. ASSUME NEW t \in Threads, AnswerLoad(t)
      PROVE  \A i \in DOMAIN grid' : grid'[i].state # "missing"
  <2>1. serving[t].kind = "load" /\ call[t].pc = "page" /\ grid' = PageAnswer(t).cards
    BY <1>2 DEF AnswerLoad, D!ShowPage
  <2> QED
    BY <2>1, LoadFilled
<1>3. ASSUME NEW t \in Threads, AnswerEntry(t) PROVE FALSE
  BY <1>3 DEF AnswerEntry, D!ShowEntry
<1>4. ASSUME NEW t \in Threads, Unavailable(t) PROVE FALSE
  BY <1>4 DEF Unavailable, Attended
<1>5. ASSUME GiveUp PROVE FALSE
  BY <1>5 DEF GiveUp, D!EntryFail
<1>6. ASSUME User PROVE FALSE
  BY <1>6 DEF User, D!ClickRefresh, D!ClickPage, D!ClickTab
<1> QED
  BY <1>1, <1>2, <1>3, <1>4, <1>5, <1>6
     DEF Next, Progress, Event, Reconfigured, vars, Arrive, ArriveLoad, ArriveEntry,
         Serve, Work, AnswerGone, Host

\* The refresh button brings every card a quota, as long as the plugin is left
\* alone (RefreshFills; refreshQuota, renderFragments).
THEOREM RefreshBringsQuotas ==
    ASSUME OneSetup PROVE Spec => RefreshFills
<1>1. Init => Attended
  BY InitAttended
<1>2. Inv /\ Attended /\ [Next]_vars => Attended'
  BY NextAttended
<1>3. Inv /\ Attended /\ [Next]_vars =>
         [load.busy /\ load.force /\ ~ load'.busy /\ Undisturbed =>
             \A i \in DOMAIN grid' : grid'[i].state # "missing"]_vars
  BY RefreshStep
<1> QED
  BY <1>1, <1>2, <1>3, AlwaysInv, PTL DEF Spec, RefreshFills
-----------------------------------------------------------------------------
(* What the user of a steady panel sees                                    *)

LEMMA SameScreen ==
    /\ D!NoOrphanSkeleton <=> DP!NoOrphanSkeleton
    /\ D!SlotIdentity <=> DP!SlotIdentity
    /\ DP!Steady <=> "tab" \notin Controls /\ "entry" \notin Faults
<1>1. D!NoOrphanSkeleton <=> DP!NoOrphanSkeleton
  BY DEF D!NoOrphanSkeleton, DP!NoOrphanSkeleton, D!Pending, DP!Pending, D!KeyAt,
     DP!KeyAt, D!Key, DP!Key, D!Inflight, DP!Inflight, D!ToSet, DP!ToSet
<1>2. D!SlotIdentity <=> DP!SlotIdentity
  BY SameViews DEF D!SlotIdentity, DP!SlotIdentity
<1> QED
  BY <1>1, <1>2 DEF DP!Steady

\* The dashboard's invariant of one view holds here as well.
LEMMA NextSteady ==
    ASSUME OneSetup, DP!Steady, Inv, DP!SInv, [Next]_vars
    PROVE  DP!SInv' /\ DP!Inv' /\ DP!OneView'
<1>1. [DP!Next]_DP!vars
  BY NextGoes DEF Goes
<1>2. DP!SInv'
  BY <1>1, Assumptions, DP!NextView
<1> QED
  BY <1>2 DEF DP!SInv

LEMMA InitSteady == Init => DP!SInv /\ DP!NoOrphanSkeleton
<1>1. Init => DP!Init
  BY SameEvents DEF Init
<1> QED
  BY <1>1, Assumptions, DP!InitView

LEMMA AlwaysSteady ==
    ASSUME OneSetup, DP!Steady PROVE Spec => []DP!SInv
<1>1. Inv /\ DP!SInv /\ [Next]_vars => DP!SInv'
  BY NextSteady
<1> QED
  BY <1>1, InitSteady, AlwaysInv, PTL DEF Spec

\* Of a user who pages and refreshes, and whose lazy requests are not given up,
\* each card stands where the server's list has it, whatever strays and whatever
\* a reconfigure does in between (swapEntry).
THEOREM CardsInTheirPlaces ==
    ASSUME OneSetup, "tab" \notin Controls, "entry" \notin Faults
    PROVE  Spec => []D!SlotIdentity
<1>0. DP!Steady
  BY SameScreen
<1>1. DP!SInv => D!SlotIdentity
  BY SameScreen DEF DP!SInv, DP!OneView, DP!Shows, DP!SlotIdentity
<1>2. Spec => []DP!SInv
  BY <1>0, AlwaysSteady
<1> QED
  BY <1>1, <1>2, PTL
-----------------------------------------------------------------------------
(***************************************************************************)
(* Whatever the user does, and although lazy requests are given up and     *)
(* worked on twice, no card is forgotten while the plugin is left alone    *)
(* and no lazy request has gone astray.                                    *)
(***************************************************************************)
\* What the loader then can rely on: a request is for its own card, the tab is
\* one of the server's, and the screen has as many cards as the view.
Steered ==
    /\ \A r \in net : ~ Astray(r)
    /\ tabs = Site.vendors /\ tab \in tabs \cup {AllTab}
    /\ ~ load.busy => DOMAIN grid = DOMAIN DP!View[Site][tab][page]
    /\ DP!NoOrphanSkeleton

Cared == Undisturbed /\ ~ strayed => Steered

\* The step leaves the screen right; that no request of it goes astray is what
\* Noted looks at.
OnScreen ==
    /\ tabs' = Site'.vendors /\ tab' \in tabs' \cup {AllTab}
    /\ ~ load'.busy => DOMAIN grid' = DOMAIN DP!View[Site'][tab'][page']
    /\ DP!NoOrphanSkeleton'

LEMMA QuietScreen ==
    ASSUME Steered, UNCHANGED browser, Site' = Site
    PROVE  OnScreen
BY DEF Steered, OnScreen, browser, DP!NoOrphanSkeleton, DP!Pending, DP!KeyAt

\* What waits or is under way still does after a lazy request has ended, but
\* for that request itself.
LEMMA PendingKept ==
    ASSUME Inv, Inv', NEW r \in net,
           NEW keys, DP!Sound(keys, net \ {r}),
           DP!Elements(queue) \subseteq DP!Elements(keys),
           DP!Load(DP!Pump(keys, net \ {r}, page, tab)),
           NEW k, k \in DP!Inflight(net) \cup DP!ToSet(queue),
           k # r.key \/ k \in DP!Elements(keys)
    PROVE  k \in DP!Inflight(net') \cup DP!ToSet(queue')
<1> DEFINE p == DP!Pump(keys, net \ {r}, page, tab)
<1>1. Site \in Sites /\ page \in DP!Pages /\ tab \in DP!Tabs
  BY BrowserTypes DEF Inv
<1>2. /\ net \ {r} \subseteq p.net
      /\ DP!Elements(keys) \subseteq DP!Inflight(p.net) \cup DP!Elements(p.queue)
  BY <1>1, Assumptions, DP!PumpSound
<1>3. queue' = p.queue /\ net' = p.net
  BY DEF DP!Load
<1> HIDE DEF p
<1>4. /\ DP!Elements(queue) = DP!ToSet(queue)
      /\ DP!Elements(queue') = DP!ToSet(queue')
  <2>1. queue \in Seq(DP!Keys) /\ queue' \in Seq(DP!Keys)
    BY DEF Inv, DP!Inv, DP!LoaderOK, DP!Sound, DP!Keys, DP!Pages, DP!Tabs
  <2> QED
    BY <2>1, Assumptions, DP!QueueElements
<1>5. CASE k \in DP!Elements(keys)
  BY <1>2, <1>3, <1>4, <1>5
<1>6. CASE k \notin DP!Elements(keys)
  <2>1. k \in DP!Inflight(net) /\ k # r.key
    BY <1>4, <1>6
  <2> QED
    BY <1>2, <1>3, <2>1 DEF DP!Inflight
<1> QED
  BY <1>5, <1>6

\* A page comes: each of its cards without a quota is seen to.
LEMMA LoadSteered ==
    ASSUME Inv, Inv', Steered, NEW t \in Threads, AnswerLoad(t), Site' = Site
    PROVE  OnScreen
<1> DEFINE answer == PageAnswer(t)
           keys   == DP!Collect(answer.cards, net, answer.page, tab)
           p      == DP!Pump(keys, net, answer.page, tab)
           view   == DP!View[Site][tab][load.page]
<1>1. serving[t].kind = "load" /\ call[t].pc = "page" /\ D!ShowPage(answer)
  BY DEF AnswerLoad
<1>2. /\ load.busy /\ answer \in DP!AnswersOf(Site, tab, load.page)
      /\ DP!ShowPage(answer)
  BY <1>1, LoadAnswered, SameEvents
<1> HIDE DEF answer
<1>3. /\ Site \in Sites /\ tab \in DP!Tabs /\ load.page \in DP!Pages
  BY <1>2, BrowserTypes DEF Inv
<1>4. /\ answer.cards \in DP!Grids /\ answer.page \in DP!Pages
      /\ answer.page = DP!ClampPage(Len(DP!Filtered[Site][tab]), DefaultPageSize, load.page)
      /\ DP!Shows(answer.cards, view)
  BY <1>2, <1>3, Assumptions, DP!AnswersType
<1>5. DP!View[Site][tab][answer.page] = view
  BY <1>3, <1>4, Assumptions, DP!ViewClamped
<1>6. answer.tabs = tabs
  BY <1>2 DEF Steered, DP!AnswersOf
<1>7. (IF tab \in answer.tabs THEN tab ELSE AllTab) = tab
  BY <1>6 DEF Steered
<1>8. /\ tabs' = tabs /\ tab' = tab /\ page' = answer.page
      /\ grid' = answer.cards /\ load' = DP!NoLoad
      /\ queue' = p.queue /\ net' = p.net
  BY <1>2, <1>6, <1>7 DEF DP!ShowPage, DP!Load
<1>9. /\ DP!Sound(keys, net)
      /\ DP!Elements(keys) = DP!Lazy(answer.cards, answer.page, tab) \ DP!Inflight(net)
  <2>1. DP!Sound(<<>>, net)
    BY Assumptions, DP!Emptied DEF Inv, DP!Inv, DP!LoaderOK
  <2> QED
    BY <1>3, <1>4, <2>1, Assumptions, DP!CollectSound
<1> HIDE DEF keys
<1>10. /\ net \subseteq p.net
       /\ DP!Elements(keys) \subseteq DP!Inflight(p.net) \cup DP!Elements(p.queue)
  BY <1>3, <1>4, <1>9, Assumptions, DP!PumpSound
<1> HIDE DEF p
<1>11. ASSUME NEW i \in DOMAIN grid', grid'[i].state = "missing"
       PROVE  DP!Key(i - 1, page', tab') \in DP!Inflight(net') \cup DP!ToSet(queue')
  <2>1. DP!Key(i - 1, answer.page, tab) \in DP!Lazy(answer.cards, answer.page, tab)
    BY <1>8, <1>11 DEF DP!Lazy, DP!KeysOf
  <2>2. DP!Inflight(net) \subseteq DP!Inflight(p.net)
    BY <1>10 DEF DP!Inflight
  <2>3. DP!Elements(queue') = DP!ToSet(queue')
    <3>1. queue' \in Seq(DP!Keys)
      BY DEF Inv, DP!Inv, DP!LoaderOK, DP!Sound, DP!Keys, DP!Pages, DP!Tabs
    <3> QED
      BY <3>1, Assumptions, DP!QueueElements
  <2> QED
    BY <1>8, <1>9, <1>10, <2>1, <2>2, <2>3
<1>12. DP!NoOrphanSkeleton'
  BY <1>11 DEF DP!NoOrphanSkeleton, DP!Pending, DP!KeyAt
<1>13. DOMAIN grid' = DOMAIN DP!View[Site'][tab'][page']
  BY <1>4, <1>5, <1>8 DEF DP!Shows
<1>14. tabs' = Site'.vendors /\ tab' \in tabs' \cup {AllTab}
  BY <1>8 DEF Steered
<1> QED
  BY <1>12, <1>13, <1>14 DEF OnScreen

\* A card comes: it fills its place.
LEMMA EntrySteered ==
    ASSUME Inv, Inv', Undisturbed, Steered, NEW t \in Threads, AnswerEntry(t),
           Site' = Site
    PROVE  OnScreen
<1> DEFINE card == EntryAnswer(t)
<1>1. serving[t].kind = "entry" /\ call[t].pc = "page"
  BY DEF AnswerEntry
<1>2. PICK r \in net : r.key = serving[t].key /\ D!ShowEntry(r, card)
  BY DEF AnswerEntry
<1> DEFINE at  == r.key.idx + 1
           hit == r.key = DP!Key(r.key.idx, page, tab) /\ at \in DOMAIN grid
<1>3. /\ card \in DP!CardsOf(Site, r.tab, r.page, r.key.idx)
      /\ card.state # "missing"
      /\ DP!ShowEntry(r, card)
  BY <1>1, <1>2, EntryAnswered, EntryFilled, SameEvents
<1> HIDE DEF card
<1>4. /\ Site \in Sites /\ tab \in DP!Tabs /\ page \in DP!Pages
      /\ r.key \in DP!Keys /\ r.key.idx \in Nat
      /\ DP!Sound(queue, net)
  BY BrowserTypes DEF Inv, DP!Inv, DP!LoaderOK
<1>5. /\ grid' = DP!Swapped(r.key, card)
      /\ UNCHANGED <<tabs, tab, page, load>>
      /\ DP!Load(DP!Pump(queue, net \ {r}, page, tab))
  BY <1>3 DEF DP!ShowEntry
<1>6. DP!Sound(queue, net \ {r})
  BY <1>4, Assumptions, DP!Freed
<1>7. ~ Astray(r)
  BY DEF Steered
<1>8. ASSUME ~ load.busy PROVE hit => card # DP!NoCard
  <2> SUFFICES ASSUME hit PROVE card # DP!NoCard
    OBVIOUS
  <2> DEFINE view == DP!View[Site][tab][page]
  <2>1. r.tab = tab /\ r.page = page
    BY <1>7 DEF Astray, DP!Key
  <2>2. at \in DOMAIN view
    BY <1>8 DEF Steered
  <2>3. DOMAIN view = 1 .. Len(view) /\ Len(view) \in Nat
    BY <1>4, Assumptions, DP!ViewType, LenProperties
  <2>4. r.key.idx < Len(view)
    BY <1>4, <2>2, <2>3
  <2> HIDE DEF view
  <2>5. PICK st \in States : card = DP!Card(view[at], st)
    BY <1>3, <2>1, <2>4 DEF DP!CardsOf, view
  <2> QED
    BY <2>5 DEF DP!Card, DP!NoCard, States
<1>9. ASSUME ~ load.busy
      PROVE  /\ DOMAIN grid' = DOMAIN grid
             /\ hit => grid' = [grid EXCEPT ![at] = card]
             /\ ~ hit => grid' = grid
  BY <1>5, <1>8, <1>9 DEF DP!Swapped
<1>10. ASSUME ~ load.busy, NEW i \in DOMAIN grid', grid'[i].state = "missing"
       PROVE  DP!Key(i - 1, page, tab) \in DP!Inflight(net') \cup DP!ToSet(queue')
  <2> DEFINE k == DP!Key(i - 1, page, tab)
  <2>1. i \in DOMAIN grid /\ i \in Int
    <3>1. grid \in Seq(DP!Cards)
      BY DEF Inv, DP!Inv, DP!Screen, DP!Grids
    <3> QED
      BY <1>9, <1>10, <3>1, LenProperties
  <2>2. ~ (hit /\ i = at) /\ grid[i].state = "missing"
    BY <1>3, <1>9, <1>10, <2>1
  <2>3. k # r.key
    <3> SUFFICES ASSUME k = r.key PROVE FALSE
      OBVIOUS
    <3>1. r.key.idx = i - 1
      BY DEF DP!Key
    <3> QED
      BY <1>4, <2>1, <2>2, <3>1
  <2>4. k \in DP!Inflight(net) \cup DP!ToSet(queue)
    BY <1>10, <2>1, <2>2 DEF Steered, DP!NoOrphanSkeleton, DP!Pending, DP!KeyAt
  <2> HIDE DEF k
  <2> QED
    BY <1>5, <1>6, <2>3, <2>4, PendingKept DEF k
<1>11. DP!NoOrphanSkeleton'
  BY <1>5, <1>10 DEF DP!NoOrphanSkeleton, DP!Pending, DP!KeyAt
<1> QED
  BY <1>5, <1>9, <1>11 DEF OnScreen, Steered

\* A lazy request is given up: it waits again, or its card shows the failure.
LEMMA GiveUpSteered ==
    ASSUME Inv, Inv', Steered, GiveUp, Site' = Site
    PROVE  OnScreen
<1>1. PICK r \in net : DP!EntryFail(r)
  BY SameEvents DEF GiveUp
<1> DEFINE again == retry[r.key] + 1 <= MaxRetries
           keys  == IF again THEN Append(queue, r.key) ELSE queue
<1>2. /\ r.key.idx \in Nat /\ DP!Sound(queue, net) /\ queue \in Seq(DP!Keys)
      /\ r.key \in DP!Keys
  BY BrowserTypes DEF Inv, DP!Inv, DP!LoaderOK, DP!Sound
<1>3. /\ grid' = IF again THEN grid ELSE DP!MarkedFailed(r.key.idx)
      /\ UNCHANGED <<tabs, tab, page, load>>
      /\ DP!Load(DP!Pump(keys, net \ {r}, page, tab))
  BY <1>1 DEF DP!EntryFail
<1>4. DP!Sound(keys, net \ {r})
  BY <1>2, Assumptions, DP!Freed
<1>5. /\ DP!Elements(queue) \subseteq DP!Elements(keys)
      /\ again => r.key \in DP!Elements(keys)
  <2>1. /\ Len(queue) \in Nat /\ Len(Append(queue, r.key)) = Len(queue) + 1
        /\ \A i \in 1 .. Len(queue) : Append(queue, r.key)[i] = queue[i]
        /\ Append(queue, r.key)[Len(queue) + 1] = r.key
    BY <1>2, AppendProperties, LenProperties
  <2>2. /\ \A i \in 1 .. Len(queue) : i \in 1 .. Len(Append(queue, r.key))
        /\ Len(queue) + 1 \in 1 .. Len(Append(queue, r.key))
    BY <2>1
  <2> QED
    BY <2>1, <2>2 DEF DP!Elements
<1> HIDE DEF keys
<1>6. DOMAIN grid' = DOMAIN grid
  BY <1>3 DEF DP!MarkedFailed
<1>7. ASSUME ~ load.busy, NEW i \in DOMAIN grid', grid'[i].state = "missing"
      PROVE  DP!Key(i - 1, page, tab) \in DP!Inflight(net') \cup DP!ToSet(queue')
  <2> DEFINE k == DP!Key(i - 1, page, tab)
  <2>1. i \in DOMAIN grid /\ i \in Int
    <3>1. grid \in Seq(DP!Cards)
      BY DEF Inv, DP!Inv, DP!Screen, DP!Grids
    <3> QED
      BY <1>6, <1>7, <3>1, LenProperties
  <2>2. grid[i].state = "missing" /\ (~ again => i # r.key.idx + 1)
    <3>1. CASE again
      BY <1>3, <1>7, <3>1
    <3>2. CASE ~ again
      <4>1. grid' = DP!MarkedFailed(r.key.idx)
        BY <1>3, <3>2
      <4> QED
        BY <1>7, <2>1, <4>1 DEF DP!MarkedFailed
    <3> QED
      BY <3>1, <3>2
  <2>3. k # r.key \/ k \in DP!Elements(keys)
    <3>1. k = r.key => r.key.idx = i - 1
      BY DEF DP!Key
    <3> QED
      BY <1>2, <1>5, <2>1, <2>2, <3>1
  <2>4. k \in DP!Inflight(net) \cup DP!ToSet(queue)
    BY <1>7, <2>1, <2>2 DEF Steered, DP!NoOrphanSkeleton, DP!Pending, DP!KeyAt
  <2> HIDE DEF k
  <2> QED
    BY <1>3, <1>4, <1>5, <2>3, <2>4, PendingKept DEF k
<1>8. DP!NoOrphanSkeleton'
  BY <1>3, <1>7 DEF DP!NoOrphanSkeleton, DP!Pending, DP!KeyAt
<1> QED
  BY <1>3, <1>6, <1>8 DEF OnScreen, Steered

\* A click: the tab is one that was offered, and a page load is under way.
LEMMA UserSteered ==
    ASSUME Steered, User, Site' = Site
    PROVE  OnScreen
<1>1. load'.busy /\ tabs' = tabs /\ tab' \in tabs \cup {AllTab}
  BY DEF User, D!ClickRefresh, D!ClickPage, D!ClickTab, D!LoadPage, Steered
<1> QED
  BY <1>1 DEF OnScreen, Steered, DP!NoOrphanSkeleton

\* While nobody disturbs it, and none goes astray, no step leaves a card to
\* shimmer.
LEMMA CaredStep ==
    ASSUME OneSetup, Inv, Attended, Cared, [Next]_vars
    PROVE  Cared'
<1> SUFFICES ASSUME Undisturbed', ~ strayed'
             PROVE  Steered'
  BY DEF Cared
<1>1. Inv' /\ Undisturbed
  BY NextInv, NextAttended
<1>2. CASE UNCHANGED vars
  <2>1. UNCHANGED server /\ UNCHANGED browser /\ strayed' = strayed
    BY <1>2 DEF vars
  <2>2. Site' = Site /\ Steered
    BY <1>1, <2>1, ServerIdle DEF Cared
  <2>3. OnScreen /\ net' = net
    BY <2>1, <2>2, QuietScreen DEF browser
  <2> QED
    BY <2>2, <2>3 DEF OnScreen, Steered, Astray
<1>3. CASE Next
  <2>1. Noted
    BY <1>3 DEF Next, Progress, Event
  <2>2. Steered /\ \A r \in net' : ~ Astray(r)
    BY <1>1, <2>1 DEF Noted, Cared
  <2>3. ASSUME NEW t \in Threads, Arrive(t) \/ Serve(t) PROVE OnScreen
    <3>1. CASE Arrive(t)
      <4>1. S!Receive(t) /\ UNCHANGED browser
        BY <3>1 DEF Arrive, ArriveLoad, ArriveEntry
      <4>2. Site' = Site
        BY <4>1, ReceiveCalm, ListedStays DEF Inv
      <4> QED
        BY <2>2, <4>1, <4>2, QuietScreen
    <3>2. CASE Work(t)
      <4>1. Working(t) /\ UNCHANGED browser
        BY <3>2 DEF Work, Working
      <4>2. Site' = Site
        BY <4>1, WorkCalm, ListedStays DEF Inv
      <4> QED
        BY <2>2, <4>1, <4>2, QuietScreen
    <3>3. CASE Serve(t) /\ ~ Work(t)
      <4>1. S!Respond(t)
        BY <3>3 DEF Serve, AnswerLoad, AnswerEntry, Unavailable, AnswerGone
      <4>2. Site' = Site
        BY <4>1, RespondCalm, ListedStays DEF Inv
      <4>3. ~ Unavailable(t)
        BY <1>1 DEF Unavailable, Attended
      <4>4. AnswerGone(t) => UNCHANGED browser
        BY DEF AnswerGone
      <4> QED
        BY <1>1, <2>2, <3>3, <4>2, <4>3, <4>4, LoadSteered, EntrySteered, QuietScreen
           DEF Serve
    <3> QED
      BY <2>3, <3>1, <3>2, <3>3
  <2>4. ASSUME Host \/ Reconfigured PROVE OnScreen
    <3>1. UNCHANGED browser /\ Site' = Site
      BY <2>4, HostCalm DEF Host, Reconfigured
    <3> QED
      BY <2>2, <3>1, QuietScreen
  <2>5. ASSUME GiveUp \/ User PROVE OnScreen
    <3>1. Site' = Site
      BY <2>5, ServerIdle DEF GiveUp, User
    <3> QED
      BY <1>1, <2>2, <2>5, <3>1, GiveUpSteered, UserSteered
  <2>6. OnScreen
    BY <1>3, <2>3, <2>4, <2>5 DEF Next, Progress, Event
  <2> QED
    BY <2>2, <2>6 DEF OnScreen, Steered, Astray
<1> QED
  BY <1>2, <1>3

\* The first page is collected under its own name.
LEMMA InitCared == Init => Cared
<1> SUFFICES ASSUME Init PROVE Steered
  BY DEF Cared
<1>1. DP!SInv /\ DP!NoOrphanSkeleton
  BY InitSteady
<1>2. /\ tabs = Site.vendors /\ tab = AllTab
  BY DEF Init, D!Init
<1>3. \A r \in net : r.page = r.key.page /\ r.tab = r.key.tab
  BY <1>1 DEF DP!SInv, DP!OneView
<1>4. ~ load.busy => DOMAIN grid = DOMAIN DP!View[Site][tab][page]
  BY <1>1 DEF DP!SInv, DP!OneView, DP!Shows
<1> QED
  BY <1>1, <1>2, <1>3, <1>4 DEF Steered, Astray

\* No card is forgotten, whatever is clicked and however often lazy requests
\* are given up and repeated, while the plugin is left alone and none of them
\* has gone out for another view than its card's: requests that race for one
\* card bring it a quota all the same (NoOrphanWhileUndisturbed; storeQuota,
\* buildPageData, swapEntry, fetchEntry).
THEOREM NoCardForgotten ==
    ASSUME OneSetup
    PROVE  Spec => []NoOrphanWhileUndisturbed
<1>1. Init => Attended /\ Cared
  BY InitAttended, InitCared
<1>2. Inv /\ Attended /\ Cared /\ [Next]_vars => Attended' /\ Cared'
  BY NextAttended, CaredStep
<1>3. Cared => NoOrphanWhileUndisturbed
  BY SameScreen DEF Cared, Steered, NoOrphanWhileUndisturbed
<1> QED
  BY <1>1, <1>2, <1>3, AlwaysInv, PTL DEF Spec
=============================================================================
