---------------------------- MODULE PagingProofs ----------------------------
(***************************************************************************)
(* What the paging arithmetic guarantees for every list length, page size  *)
(* and page number: the slice expression filtered[start:end] of            *)
(* selectPageView never panics, and the pages cover the list without       *)
(* overlap.                                                                *)
(***************************************************************************)
EXTENDS Paging, TLAPS

\* Multiplication by a natural number is monotone.
LEMMA MulMono ==
    ASSUME NEW a \in Int, NEW b \in Int, NEW c \in Nat, a <= b
    PROVE  a * c <= b * c
BY SMT

\* Division with remainder, as the provers need it to be told.
LEMMA DivMod ==
    ASSUME NEW n \in Nat, NEW d \in Nat \ {0}
    PROVE  /\ n \div d \in Nat
           /\ n % d \in 0 .. d - 1
           /\ n = (n \div d) * d + (n % d)
BY SMT

\* Whatever a query asks for, the page number and page size it stands for
\* are in range (normalizePageQuery).
THEOREM NormalQuery ==
    ASSUME NEW page \in Int, NEW size \in Int
    PROVE  /\ NormalPage(page) \in Nat \ {0}
           /\ NormalPageSize(size) \in 1 .. MaxPageSize
BY PageSizeAssumption DEF NormalPage, NormalPageSize

\* The last page starts inside the list, and its window reaches the end.
LEMMA PageCountBounds ==
    ASSUME NEW total \in Nat, NEW size \in Nat \ {0}
    PROVE  /\ PageCount(total, size) \in Nat \ {0}
           /\ (PageCount(total, size) - 1) * size <= total
           /\ total <= PageCount(total, size) * size
<1> DEFINE q == total \div size
           r == total % size
<1>1. /\ q \in Nat
      /\ r \in 0 .. size - 1
      /\ total = q * size + r
  BY DivMod
<1>2. /\ q * size \in Nat
      /\ (q + 1) * size = q * size + size
      /\ (q - 1) * size = q * size - size
  BY <1>1, SMT
<1>3. CASE r # 0
  <2>1. PageCount(total, size) = q + 1
    BY <1>1, <1>3 DEF PageCount
  <2> QED
    BY <2>1, <1>1, <1>2
<1>4. CASE r = 0 /\ q # 0
  <2>1. PageCount(total, size) = q
    BY <1>1, <1>4 DEF PageCount
  <2> QED
    BY <2>1, <1>1, <1>2, <1>4
<1>5. CASE r = 0 /\ q = 0
  <2>1. PageCount(total, size) = 1 /\ total = 0
    BY <1>1, <1>5 DEF PageCount
  <2> QED
    BY <2>1
<1> QED
  BY <1>3, <1>4, <1>5

\* The slice of a page lies inside the list and holds at most one page:
\* selectPageView can slice with it (pageWindow).
THEOREM PageWindowBounds ==
    ASSUME NEW total \in Nat, NEW size \in Nat \ {0}, NEW page \in Nat \ {0}
    PROVE  LET w == PageWindow(total, size, page)
           IN  /\ w.page \in 1 .. PageCount(total, size)
               /\ 0 <= w.start /\ w.start <= w.end /\ w.end <= total
               /\ w.end - w.start <= size
<1> DEFINE last == PageCount(total, size)
           p == ClampPage(total, size, page)
           start == WindowStart(size, p)
<1>1. /\ last \in Nat \ {0}
      /\ (last - 1) * size <= total
  BY PageCountBounds
<1>2. p \in 1 .. last
  BY <1>1 DEF ClampPage
<1>3. start \in Nat
  <2>1. p - 1 \in Nat
    BY <1>1, <1>2
  <2> QED
    BY <2>1, SMT DEF WindowStart
<1>4. start <= total
  <2>1. start <= (last - 1) * size
    BY <1>1, <1>2, MulMono DEF WindowStart
  <2>2. (last - 1) * size \in Int
    BY <1>1, SMT
  <2> QED
    BY <1>1, <1>3, <2>1, <2>2
<1>5. /\ WindowEnd(total, size, p) \in start .. total
      /\ WindowEnd(total, size, p) - start <= size
  BY <1>3, <1>4 DEF WindowEnd
<1> QED
  BY <1>2, <1>3, <1>5 DEF PageWindow

\* Every position of the list is shown by some page ...
THEOREM PagesCover ==
    ASSUME NEW total \in Nat, NEW size \in Nat \ {0},
           NEW i \in 0 .. total - 1
    PROVE  \E page \in 1 .. PageCount(total, size) :
              LET w == PageWindow(total, size, page)
              IN  w.start <= i /\ i < w.end
<1> DEFINE q == i \div size
           page == q + 1
           last == PageCount(total, size)
<1>. i \in Nat
  OBVIOUS
<1>1. /\ q \in Nat
      /\ i % size \in 0 .. size - 1
      /\ i = q * size + (i % size)
  BY DivMod
<1>2. last \in Nat \ {0} /\ total <= last * size
  BY PageCountBounds
<1>3. page <= last
  <2> SUFFICES ASSUME ~ (page <= last) PROVE FALSE
    OBVIOUS
  <2>1. last * size <= q * size
    BY <1>1, <1>2, MulMono
  <2>2. q * size \in Int /\ last * size \in Int
    BY <1>1, <1>2, SMT
  <2> QED
    BY <1>1, <1>2, <2>1, <2>2
<1>4. page \in 1 .. last
  BY <1>1, <1>2, <1>3
<1>5. ClampPage(total, size, page) = page
  BY <1>1, <1>2, <1>3 DEF ClampPage
<1>6. WindowStart(size, page) = q * size /\ q * size \in Int
  BY <1>1, SMT DEF WindowStart
<1>7. WindowStart(size, page) <= i /\ i < WindowEnd(total, size, page)
  BY <1>1, <1>6 DEF WindowEnd
<1> QED
  BY <1>4, <1>5, <1>7 DEF PageWindow

\* ... and by one page only.
THEOREM PagesDisjoint ==
    ASSUME NEW total \in Nat, NEW size \in Nat \ {0},
           NEW a \in 1 .. PageCount(total, size),
           NEW b \in 1 .. PageCount(total, size),
           a < b
    PROVE  PageWindow(total, size, a).end <= PageWindow(total, size, b).start
<1>1. PageCount(total, size) \in Nat \ {0}
  BY PageCountBounds
<1>2. ClampPage(total, size, a) = a /\ ClampPage(total, size, b) = b
  BY <1>1 DEF ClampPage
<1>3. a * size <= (b - 1) * size
  BY <1>1, MulMono
<1>4. a * size = (a - 1) * size + size
  BY SMT
<1>5. /\ a * size \in Int
      /\ (a - 1) * size \in Int
      /\ (b - 1) * size \in Int
  BY <1>1, SMT
<1>6. WindowEnd(total, size, a) <= a * size
  BY <1>4, <1>5 DEF WindowEnd, WindowStart
<1>7. WindowEnd(total, size, a) \in Int
  BY <1>5 DEF WindowEnd, WindowStart
<1> QED
  BY <1>2, <1>3, <1>5, <1>6, <1>7 DEF PageWindow, WindowStart

\* The pager leads from every page to the first, to the last and to both
\* neighbours, so step by step to every page there is, and never to one that
\* does not exist (renderPager).
THEOREM PagerOffers ==
    ASSUME NEW total \in Nat, NEW size \in Nat \ {0},
           NEW page \in 1 .. PageCount(total, size)
    PROVE  LET offered == OfferedPages(total, size, page)
               last    == PageCount(total, size)
           IN  /\ offered \subseteq (1 .. last) \ {page}
               /\ {1, last, page - 1, page + 1} \cap (1 .. last)
                     \subseteq offered \cup {page}
<1> DEFINE last == PageCount(total, size)
           numbered == NumberedPages(last, page)
<1>1. last \in Nat \ {0}
  BY PageCountBounds
<1>2. numbered \subseteq 1 .. last /\ 1 \in numbered /\ last \in numbered
  <2>1. CASE last <= 7
    BY <1>1, <2>1 DEF NumberedPages
  <2>2. CASE last > 7
    BY <1>1, <2>2 DEF NumberedPages
  <2> QED
    BY <1>1, <2>1, <2>2
<1>3. CASE last = 1
  BY <1>3 DEF OfferedPages
<1>4. CASE last # 1
  <2>1. OfferedPages(total, size, page) =
           (numbered \ {page})
           \cup {n \in {page - 1} : page > 1}
           \cup {n \in {page + 1} : page < last}
    BY <1>4 DEF OfferedPages
  <2> QED
    BY <1>1, <1>2, <1>4, <2>1
<1> QED
  BY <1>3, <1>4
=============================================================================
