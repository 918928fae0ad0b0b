--------------------------- MODULE DashboardProofs --------------------------
(***************************************************************************)
(* What is proved of the dashboard's script, for any number of vendors,    *)
(* keys and pages, any limit of concurrent requests, any number of         *)
(* retries, and whatever the user, the network and the host do.            *)
(*                                                                         *)
(* First the lists: what a page of the server's list holds.  Then the lazy *)
(* loader's two operators, Pump and Collect.  Then every step preserves    *)
(* the invariant IInv.                                                     *)
(***************************************************************************)
EXTENDS Dashboard, PagingProofs, FilteringProofs, FiniteSetTheorems

\* A list without repetitions is not longer than there are things to list.
LEMMA DistinctFit ==
    ASSUME NEW S, IsFiniteSet(S), NEW s \in Seq(S), NoneTwice(s)
    PROVE  /\ Cardinality(S) \in Nat
           /\ Len(s) \in 0 .. Cardinality(S)
<1>1. Len(s) \in Nat /\ s \in [1 .. Len(s) -> S]
  BY LenProperties
<1>2. s \in Injection(1 .. Len(s), S)
  BY <1>1 DEF Injection, IsInjective, NoneTwice
<1>3. Cardinality(1 .. Len(s)) <= Cardinality(S)
  BY <1>2, FS_Injection
<1>4. Cardinality(1 .. Len(s)) = Len(s)
  BY <1>1, FS_Interval
<1>5. Cardinality(S) \in Nat
  BY FS_CardinalityType
<1> QED
  BY <1>1, <1>3, <1>4, <1>5

\* What the server may list.
LEMMA SiteType ==
    ASSUME NEW s \in Sites
    PROVE  /\ s.scan \in Seq(Entries) /\ s.vendors \subseteq Vendors
           /\ NoneTwice(s.scan)
           /\ Cardinality(Entries) \in Nat
           /\ Len(s.scan) \in 0 .. Cardinality(Entries)
<1>1. s.scan \in Seq(Entries) /\ s.vendors \subseteq Vendors /\ IsInjective(s.scan)
  BY DashboardAssumption
<1>2. NoneTwice(s.scan)
  <2>1. DOMAIN s.scan = 1 .. Len(s.scan)
    BY <1>1, LenProperties
  <2> QED
    BY <1>1, <2>1 DEF IsInjective, NoneTwice
<1> QED
  BY <1>1, <1>2, DistinctFit, DashboardAssumption

LEMMA FilteredType ==
    ASSUME NEW s \in Sites, NEW tb \in Tabs
    PROVE  /\ Filtered[s][tb] \in Seq(Entries)
           /\ Len(Filtered[s][tb]) \in 0 .. Cardinality(Entries)
<1> DEFINE W == {e \in Entries : tb \in {AllTab, VendorOf[e]}}
<1>1. Filtered[s][tb] = Only(s.scan, W)
  BY DEF Filtered
<1> HIDE DEF W
<1>2. /\ s.scan \in Seq(Entries) /\ NoneTwice(s.scan)
  BY SiteType
<1>3. Only(s.scan, W) \in Seq(Entries) /\ NoneTwice(Only(s.scan, W))
  BY <1>2, OnlyKeepsWanted
<1> QED
  BY <1>1, <1>3, DistinctFit, DashboardAssumption

\* There is a first page, and a page that is asked for is not before the one
\* that is served.
LEMMA ClampedPage ==
    ASSUME NEW n \in Nat, NEW pg \in Pages
    PROVE  /\ pg \in Nat \ {0}
           /\ ClampPage(n, DefaultPageSize, pg) \in Pages
           /\ ClampPage(n, DefaultPageSize, ClampPage(n, DefaultPageSize, pg)) =
                 ClampPage(n, DefaultPageSize, pg)
<1>1. PageCount(n, DefaultPageSize) \in Nat \ {0}
  BY PageCountBounds, PageSizeAssumption
<1>2. PageCount(Cardinality(Entries), DefaultPageSize) \in Nat \ {0}
  BY PageCountBounds, PageSizeAssumption, FS_CardinalityType, DashboardAssumption
<1> QED
  BY <1>1, <1>2 DEF ClampPage, Pages

LEMMA FirstPage == 1 \in Pages
<1>1. PageCount(Cardinality(Entries), DefaultPageSize) \in Nat \ {0}
  BY PageCountBounds, PageSizeAssumption, FS_CardinalityType, DashboardAssumption
<1> QED
  BY <1>1 DEF Pages

\* A page shows entries, and not more than it has room for.
LEMMA ViewType ==
    ASSUME NEW s \in Sites, NEW tb \in Tabs, NEW pg \in Pages
    PROVE  /\ View[s][tb][pg] \in Seq(Entries)
           /\ Len(View[s][tb][pg]) \in 0 .. DefaultPageSize
<1> DEFINE all == Filtered[s][tb]
           w   == PageWindow(Len(all), DefaultPageSize, pg)
<1>1. all \in Seq(Entries) /\ Len(all) \in Nat
  BY FilteredType, LenProperties
<1>2. pg \in Nat \ {0} /\ DefaultPageSize \in Nat \ {0}
  BY FirstPage, ClampedPage, PageSizeAssumption DEF Pages
<1>3. View[s][tb][pg] = SubSeq(all, w.start + 1, w.end)
  BY DEF View
<1>4. /\ 0 <= w.start /\ w.start <= w.end /\ w.end <= Len(all)
      /\ w.end - w.start <= DefaultPageSize
  BY <1>1, <1>2, PageWindowBounds
<1>5. w.start \in Int /\ w.end \in Int
  <2>1. w.page \in 1 .. PageCount(Len(all), DefaultPageSize)
    BY <1>1, <1>2, PageWindowBounds
  <2>2. w.page \in Int
    BY <2>1
  <2>3. w.start = WindowStart(DefaultPageSize, w.page)
        /\ w.end = WindowEnd(Len(all), DefaultPageSize, w.page)
    BY DEF PageWindow
  <2> HIDE DEF w
  <2>4. WindowStart(DefaultPageSize, w.page) \in Int
    BY <1>2, <2>2 DEF WindowStart
  <2> QED
    BY <1>1, <1>2, <2>3, <2>4 DEF WindowEnd
<1> HIDE DEF w
<1>6. \A i \in w.start + 1 .. w.end : all[i] \in Entries
  <2>1. \A i \in w.start + 1 .. w.end : i \in 1 .. Len(all)
    BY <1>1, <1>4, <1>5
  <2> QED
    BY <1>1, <2>1, ElementOfSeq
<1>7. /\ SubSeq(all, w.start + 1, w.end) \in Seq(Entries)
      /\ Len(SubSeq(all, w.start + 1, w.end)) =
            IF w.start + 1 <= w.end THEN w.end - (w.start + 1) + 1 ELSE 0
  BY <1>5, <1>6, SubSeqProperties
<1> QED
  BY <1>2, <1>3, <1>4, <1>5, <1>7

\* The page that is served in place of one past the end shows the same.
LEMMA ViewClamped ==
    ASSUME NEW s \in Sites, NEW tb \in Tabs, NEW pg \in Pages
    PROVE  LET p == ClampPage(Len(Filtered[s][tb]), DefaultPageSize, pg)
           IN  View[s][tb][p] = View[s][tb][pg]
<1> DEFINE n == Len(Filtered[s][tb])
           p == ClampPage(n, DefaultPageSize, pg)
<1>1. p \in Pages /\ ClampPage(n, DefaultPageSize, p) = p
  BY FilteredType, ClampedPage, SMTT(30)
<1>2. PageWindow(n, DefaultPageSize, p) = PageWindow(n, DefaultPageSize, pg)
  BY <1>1 DEF PageWindow
<1> QED
  BY <1>1, <1>2 DEF View
-----------------------------------------------------------------------------
(* The lazy loader                                                         *)

\* Nothing is waiting or under way twice, and no more is under way than may.
Sound(keys, requests) ==
    /\ keys \in Seq(Keys) /\ NoneTwice(keys)
    /\ requests \subseteq LazyRequests /\ IsFiniteSet(requests)
    /\ Cardinality(requests) <= EntryConcurrency
    /\ \A q, r \in requests : q.key = r.key => q = r
    /\ \A i \in 1 .. Len(keys) : keys[i] \notin Inflight(requests)

\* Started, if none of the keys is under way: all of them.
LEMMA StartedAll ==
    ASSUME NEW keys, NEW requests, Sound(keys, requests), NEW pg, NEW tb,
           NEW n \in 0 .. Len(keys)
    PROVE  Started(n, keys, requests, pg, tb) =
              requests \cup {Request(keys[i], pg, tb) : i \in 1 .. n}
<1>1. {keys[i] : i \in 1 .. n} \ Inflight(requests) = {keys[i] : i \in 1 .. n}
  <2>1. /\ \A i \in 1 .. Len(keys) : keys[i] \notin Inflight(requests)
        /\ Len(keys) \in Nat
    BY LenProperties DEF Sound
  <2> QED
    BY <2>1
<1>2. Started(n, keys, requests, pg, tb) =
         requests \cup {Request(k, pg, tb) : k \in {keys[i] : i \in 1 .. n}}
  BY <1>1 DEF Started
<1> QED
  BY <1>2

LEMMA StartedNone ==
    ASSUME NEW keys, NEW requests, NEW pg, NEW tb
    PROVE  Started(0, keys, requests, pg, tb) = requests
<1>1. {keys[i] : i \in 1 .. 0} \ Inflight(requests) = {}
  OBVIOUS
<1> QED
  BY <1>1 DEF Started

LEMMA StartedNext ==
    ASSUME NEW keys, NEW requests, Sound(keys, requests), NEW pg, NEW tb,
           NEW n \in 0 .. Len(keys) - 1
    PROVE  Started(n + 1, keys, requests, pg, tb) =
              Started(n, keys, requests, pg, tb) \cup {Request(keys[n + 1], pg, tb)}
<1>1. n \in 0 .. Len(keys) /\ n + 1 \in 0 .. Len(keys)
  BY LenProperties DEF Sound
<1>2. {Request(keys[i], pg, tb) : i \in 1 .. n + 1} =
         {Request(keys[i], pg, tb) : i \in 1 .. n} \cup {Request(keys[n + 1], pg, tb)}
  BY <1>1
<1>3. Started(n, keys, requests, pg, tb) =
         requests \cup {Request(keys[i], pg, tb) : i \in 1 .. n}
  BY <1>1, StartedAll
<1>4. Started(n + 1, keys, requests, pg, tb) =
         requests \cup {Request(keys[i], pg, tb) : i \in 1 .. n + 1}
  BY <1>1, StartedAll
<1> QED
  BY <1>2, <1>3, <1>4

\* Pumping stops at the limit and not before, unless the queue is empty.
LEMMA PumpStops ==
    ASSUME NEW keys, NEW requests, Sound(keys, requests), NEW pg, NEW tb
    PROVE  \E n \in 0 .. Len(keys) :
              LET started == Started(n, keys, requests, pg, tb)
              IN  /\ Pump(keys, requests, pg, tb) =
                        [queue |-> SubSeq(keys, n + 1, Len(keys)), net |-> started]
                  /\ IsFiniteSet(started)
                  /\ Cardinality(started) <= EntryConcurrency
                  /\ n # Len(keys) => Cardinality(started) = EntryConcurrency
<1> DEFINE St(n) == Started(n, keys, requests, pg, tb)
           Stop(n) == n = Len(keys) \/ Cardinality(St(n)) >= EntryConcurrency
           Least0(n) == Stop(n) /\ \A m \in 0 .. n - 1 : ~ Stop(m)
<1>0. /\ Len(keys) \in Nat /\ EntryConcurrency \in Nat
      /\ IsFiniteSet(requests) /\ Cardinality(requests) <= EntryConcurrency
      /\ \A i \in 1 .. Len(keys) : keys[i] \notin Inflight(requests)
  BY LenProperties, DashboardAssumption DEF Sound
<1>1. /\ St(0) = requests
      /\ \A n \in 0 .. Len(keys) - 1 : St(n + 1) = St(n) \cup {Request(keys[n + 1], pg, tb)}
  <2>1. St(0) = requests
    BY StartedNone
  <2>2. ASSUME NEW n \in 0 .. Len(keys) - 1
        PROVE  St(n + 1) = St(n) \cup {Request(keys[n + 1], pg, tb)}
    BY StartedNext
  <2> QED
    BY <2>1, <2>2
<1> HIDE DEF St
<1>2. \E n \in 0 .. Len(keys) : Least0(n)
  <2> DEFINE T == {n \in 0 .. Len(keys) : Stop(n)}
  <2>1. Len(keys) \in T /\ T \in SUBSET Nat
    BY <1>0
  <2> HIDE DEF T
  <2>2. PICK n \in T : \A m \in T : n <= m
    BY <2>1, Least
  <2> USE DEF T
  <2>3. n \in 0 .. Len(keys) /\ Stop(n)
    BY <2>2
  <2>4. ASSUME NEW m \in 0 .. n - 1 PROVE ~ Stop(m)
    BY <1>0, <2>2, <2>3, <2>4
  <2> QED
    BY <2>3, <2>4
<1> DEFINE taken == CHOOSE n \in 0 .. Len(keys) : Least0(n)
<1>3. taken \in 0 .. Len(keys) /\ Least0(taken)
  BY <1>2
<1>4. Pump(keys, requests, pg, tb) =
         [queue |-> SubSeq(keys, taken + 1, Len(keys)), net |-> St(taken)]
  BY DEF Pump, St
<1> DEFINE Fits(n) == /\ IsFiniteSet(St(n))
                      /\ (\A m \in 0 .. n - 1 : ~ Stop(m)) =>
                            Cardinality(St(n)) <= EntryConcurrency
<1>5. \A n \in 0 .. Len(keys) : Fits(n)
  <2> DEFINE T == {n \in 0 .. Len(keys) : Fits(n)}
  <2>1. 0 \in T
    BY <1>0, <1>1
  <2>2. ASSUME NEW n \in 0 .. Len(keys), n \in T, n < Len(keys) PROVE n + 1 \in T
    <3>1. /\ IsFiniteSet(St(n)) /\ n \in 0 .. Len(keys) - 1
          /\ n + 1 \in 0 .. Len(keys)
      BY <1>0, <2>2
    <3>2. /\ IsFiniteSet(St(n + 1))
          /\ Cardinality(St(n + 1)) <= Cardinality(St(n)) + 1
      <4>1. St(n + 1) = St(n) \cup {Request(keys[n + 1], pg, tb)}
        BY <1>1, <3>1
      <4>2. /\ IsFiniteSet(St(n + 1))
            /\ Cardinality(St(n + 1)) = IF Request(keys[n + 1], pg, tb) \in St(n)
                                        THEN Cardinality(St(n))
                                        ELSE Cardinality(St(n)) + 1
        BY <3>1, <4>1, FS_AddElement
      <4>3. Cardinality(St(n)) \in Nat
        BY <3>1, FS_CardinalityType
      <4> QED
        BY <4>2, <4>3
    <3>3. ASSUME \A m \in 0 .. (n + 1) - 1 : ~ Stop(m)
          PROVE  Cardinality(St(n + 1)) <= EntryConcurrency
      <4>1. Cardinality(St(n)) \in Nat /\ Cardinality(St(n + 1)) \in Nat
        BY <3>1, <3>2, FS_CardinalityType
      <4>2. n \in 0 .. (n + 1) - 1
        BY <1>0
      <4>3. ~ (Cardinality(St(n)) >= EntryConcurrency)
        BY <3>3, <4>2
      <4> QED
        BY <1>0, <3>2, <4>1, <4>3
    <3> QED
      BY <3>1, <3>2, <3>3
  <2>3. \A n \in 0 .. Len(keys) : n \in T
    <3> HIDE DEF T
    <3> QED
      BY <1>0, <2>1, <2>2, UpTo
  <2> QED
    BY <2>3
<1>6. /\ IsFiniteSet(St(taken))
      /\ Cardinality(St(taken)) <= EntryConcurrency
      /\ Cardinality(St(taken)) \in Nat
  BY <1>3, <1>5, FS_CardinalityType
<1>7. taken # Len(keys) => Cardinality(St(taken)) = EntryConcurrency
  BY <1>0, <1>3, <1>6
<1> HIDE DEF taken
<1> QED
  BY <1>3, <1>4, <1>6, <1>7 DEF St

\* What Pump makes of a queue and the requests under way.
LEMMA PumpSound ==
    ASSUME NEW keys, NEW requests, Sound(keys, requests), NEW pg, NEW tb,
           site \in Sites, pg \in Pages, tb \in Tabs
    PROVE  LET p == Pump(keys, requests, pg, tb)
           IN  /\ Sound(p.queue, p.net)
               /\ p.queue # <<>> => Cardinality(p.net) = EntryConcurrency
               /\ Elements(p.queue) \subseteq Elements(keys)
               /\ requests \subseteq p.net
               /\ p.net \subseteq requests \cup {Request(k, pg, tb) : k \in Elements(keys)}
               /\ Elements(keys) \subseteq Inflight(p.net) \cup Elements(p.queue)
<1> DEFINE p == Pump(keys, requests, pg, tb)
           rest(n) == SubSeq(keys, n + 1, Len(keys))
           started(n) == Started(n, keys, requests, pg, tb)
<1>1. PICK n \in 0 .. Len(keys) :
         /\ p = [queue |-> rest(n), net |-> started(n)]
         /\ IsFiniteSet(started(n))
         /\ Cardinality(started(n)) <= EntryConcurrency
         /\ n # Len(keys) => Cardinality(started(n)) = EntryConcurrency
  BY PumpStops
<1>2. p.queue = rest(n) /\ p.net = started(n)
  BY <1>1
<1>3. started(n) = requests \cup {Request(keys[i], pg, tb) : i \in 1 .. n}
  BY StartedAll
<1>4. /\ Len(keys) \in Nat
      /\ \A i \in 1 .. Len(keys) : keys[i] \in Keys /\ keys[i] \notin Inflight(requests)
  BY LenProperties, ElementOfSeq DEF Sound
<1>5. /\ rest(n) \in Seq(Keys) /\ Len(rest(n)) = Len(keys) - n
      /\ \A i \in 1 .. Len(keys) - n : rest(n)[i] = keys[n + i]
  <2>1. \A i \in n + 1 .. Len(keys) : keys[i] \in Keys
    BY <1>4
  <2>2. n + 1 \in Int /\ Len(keys) \in Int
    BY <1>4
  <2>3. /\ rest(n) \in Seq(Keys)
        /\ Len(rest(n)) = IF n + 1 <= Len(keys) THEN Len(keys) - (n + 1) + 1 ELSE 0
        /\ \A i \in 1 .. Len(keys) - (n + 1) + 1 : rest(n)[i] = keys[(n + 1) + i - 1]
    BY <2>1, <2>2, SubSeqProperties
  <2> HIDE DEF rest
  <2> QED
    BY <1>4, <2>3, SMTT(30)
<1> HIDE DEF p, rest, started
<1>6. p.net \subseteq LazyRequests
  <2>1. ASSUME NEW i \in 1 .. n PROVE Request(keys[i], pg, tb) \in LazyRequests
    BY <1>4 DEF Request, LazyRequests
  <2> QED
    BY <1>2, <1>3, <2>1 DEF Sound
<1>7. \A q, r \in p.net : q.key = r.key => q = r
  <2> SUFFICES ASSUME NEW q \in p.net, NEW r \in p.net, q.key = r.key
               PROVE  q = r
    OBVIOUS
  <2>1. ASSUME NEW i \in 1 .. n, NEW x \in requests
        PROVE  x.key # Request(keys[i], pg, tb).key
    BY <1>4 DEF Request, Inflight
  <2>2. ASSUME NEW i \in 1 .. n, NEW j \in 1 .. n,
               Request(keys[i], pg, tb).key = Request(keys[j], pg, tb).key
        PROVE  Request(keys[i], pg, tb) = Request(keys[j], pg, tb)
    BY <2>2 DEF Request
  <2> QED
    BY <1>2, <1>3, <2>1, <2>2 DEF Sound
<1>8. Inflight(p.net) = Inflight(requests) \cup {keys[i] : i \in 1 .. n}
  <2>1. \A i \in 1 .. n : Request(keys[i], pg, tb).key = keys[i]
    BY DEF Request
  <2> QED
    BY <1>2, <1>3, <2>1 DEF Inflight
<1>9. NoneTwice(p.queue) /\ \A i \in 1 .. Len(p.queue) : p.queue[i] \notin Inflight(p.net)
  <2>1. \A i \in 1 .. Len(keys) - n : n + i \in 1 .. Len(keys)
    BY <1>4
  <2>2. \A i, j \in 1 .. Len(keys) : keys[i] = keys[j] => i = j
    BY DEF Sound, NoneTwice
  <2>3. NoneTwice(p.queue)
    BY <1>2, <1>4, <1>5, <2>1, <2>2 DEF NoneTwice
  <2>4. ASSUME NEW i \in 1 .. Len(p.queue) PROVE p.queue[i] \notin Inflight(p.net)
    <3>1. i \in 1 .. Len(keys) - n /\ p.queue[i] = keys[n + i]
      BY <1>2, <1>5
    <3>2. \A j \in 1 .. n : keys[j] # keys[n + i]
      BY <1>4, <2>1, <2>2, <3>1
    <3> QED
      BY <1>4, <1>8, <2>1, <3>1, <3>2
  <2> QED
    BY <2>3, <2>4
<1>10. p.queue # <<>> => Cardinality(p.net) = EntryConcurrency
  <2>1. CASE n # Len(keys)
    BY <1>1, <1>2, <2>1 DEF started
  <2>2. CASE n = Len(keys)
    <3>1. Len(p.queue) = 0
      BY <1>2, <1>4, <1>5, <2>2
    <3> QED
      BY <1>2, <1>5, <3>1, EmptySeq
  <2> QED
    BY <2>1, <2>2
<1>11. Elements(p.queue) \subseteq Elements(keys)
  BY <1>2, <1>4, <1>5 DEF Elements
<1>12. p.net \subseteq requests \cup {Request(k, pg, tb) : k \in Elements(keys)}
  BY <1>2, <1>3, <1>4 DEF Elements
<1>13. Elements(keys) \subseteq Inflight(p.net) \cup Elements(p.queue)
  <2> SUFFICES ASSUME NEW i \in 1 .. Len(keys)
               PROVE  keys[i] \in Inflight(p.net) \cup Elements(p.queue)
    BY DEF Elements
  <2>1. CASE i <= n
    BY <1>8, <2>1
  <2>2. CASE i > n
    <3>1. i - n \in 1 .. Len(keys) - n /\ n + (i - n) = i
      BY <1>4, <2>2
    <3>2. p.queue[i - n] = keys[i] /\ i - n \in 1 .. Len(p.queue)
      BY <1>2, <1>5, <3>1
    <3> QED
      BY <3>2 DEF Elements
  <2> QED
    BY <1>4, <2>1, <2>2
<1>14. Sound(p.queue, p.net)
  BY <1>1, <1>2, <1>5, <1>6, <1>7, <1>9 DEF Sound, started
<1> QED
  BY <1>2, <1>3, <1>10, <1>11, <1>12, <1>13, <1>14 DEF p

\* What is collected can be pumped: the cards that need it and are not under
\* way, each once.
LEMMA CollectSound ==
    ASSUME NEW cards \in Grids, NEW requests, Sound(<<>>, requests),
           NEW pg \in Pages, NEW tb \in Tabs
    PROVE  LET keys == Collect(cards, requests, pg, tb)
           IN  /\ Sound(keys, requests)
               /\ Elements(keys) = Lazy(cards, pg, tb) \ Inflight(requests)
               /\ \A k \in Elements(keys) : k.page = pg /\ k.tab = tb
<1> DEFINE all  == KeysOf(cards, pg, tb)
           want == Lazy(cards, pg, tb) \ Inflight(requests)
           keys == Only(all, want)
<1>1. /\ Len(cards) \in 0 .. DefaultPageSize /\ DefaultPageSize \in Nat
      /\ DOMAIN cards = 1 .. Len(cards)
  BY LenProperties, PageSizeAssumption DEF Grids
<1>2. /\ all \in Seq(Keys) /\ Len(all) = Len(cards)
      /\ \A i \in 1 .. Len(cards) : all[i] = Key(i - 1, pg, tb)
  <2>1. all = [i \in 1 .. Len(cards) |-> Key(i - 1, pg, tb)]
    BY <1>1 DEF KeysOf
  <2>2. \A i \in 1 .. Len(cards) : Key(i - 1, pg, tb) \in Keys
    BY <1>1 DEF Key, Keys
  <2> HIDE DEF all
  <2> QED
    BY <1>1, <2>1, <2>2
<1>3. NoneTwice(all)
  <2>1. ASSUME NEW i \in 1 .. Len(cards), NEW j \in 1 .. Len(cards),
               Key(i - 1, pg, tb) = Key(j - 1, pg, tb)
        PROVE  i = j
    <3>1. i - 1 = j - 1
      BY <2>1 DEF Key
    <3> QED
      BY <1>1, <3>1
  <2> QED
    BY <1>2, <2>1 DEF NoneTwice
<1>4. want \subseteq Elements(all)
  BY <1>1, <1>2 DEF Lazy, Elements
<1>5. \A k \in want : k.page = pg /\ k.tab = tb
  <2>1. \A i \in 1 .. Len(cards) : all[i].page = pg /\ all[i].tab = tb
    <3>1. \A i \in 1 .. Len(cards) :
             Key(i - 1, pg, tb).page = pg /\ Key(i - 1, pg, tb).tab = tb
      BY DEF Key
    <3> HIDE DEF all
    <3> QED
      BY <1>2, <3>1
  <2>2. want \subseteq {all[i] : i \in 1 .. Len(cards)}
    BY <1>1 DEF Lazy
  <2> HIDE DEF all, want
  <2> QED
    BY <2>1, <2>2
<1> HIDE DEF all, want
<1>6. /\ keys \in Seq(Keys) /\ NoneTwice(keys)
      /\ Elements(keys) = want
  <2>1. all \in Seq(Keys)
    BY <1>2
  <2>2. keys \in Seq(Keys)
    BY <2>1, OnlyKeepsWanted
  <2>3. Elements(keys) = Elements(all) \cap want
    BY <2>1, OnlyKeepsWanted
  <2>4. NoneTwice(all) => NoneTwice(keys)
    BY <2>1, OnlyKeepsWanted
  <2> HIDE DEF keys
  <2> QED
    BY <1>3, <1>4, <2>2, <2>3, <2>4
<1>7. \A i \in 1 .. Len(keys) : keys[i] \notin Inflight(requests)
  <2>1. \A i \in 1 .. Len(keys) : keys[i] \in Elements(keys)
    BY DEF Elements
  <2> QED
    BY <1>6, <2>1 DEF want
<1>8. Sound(keys, requests)
  BY <1>6, <1>7 DEF Sound
<1>9. keys = Collect(cards, requests, pg, tb)
  BY DEF Collect, all, want
<1> QED
  BY <1>5, <1>6, <1>8, <1>9 DEF want
-----------------------------------------------------------------------------
(* Answers                                                                 *)

LEMMA GridsOfType ==
    ASSUME NEW s \in Sites, NEW tb \in Tabs, NEW pg \in Pages,
           NEW g \in GridsOf(s, tb, pg)
    PROVE  /\ g \in Grids
           /\ Shows(g, View[s][tb][pg])
<1> DEFINE view == View[s][tb][pg]
<1>1. /\ view \in Seq(Entries) /\ Len(view) \in 0 .. DefaultPageSize
      /\ DOMAIN view = 1 .. Len(view)
  BY ViewType, LenProperties
<1>2. PICK states \in [DOMAIN view -> CardStates] :
         g = [i \in DOMAIN view |-> Card(view[i], states[i])]
  BY DEF GridsOf
<1> HIDE DEF view
<1>3. ASSUME NEW i \in 1 .. Len(view)
      PROVE  Card(view[i], states[i]) \in Cards
  <2>1. view[i] \in Entries
    BY <1>1, ElementOfSeq
  <2>2. states[i] \in {"fresh", "stale", "missing"}
    BY <1>1, <1>2, DashboardAssumption
  <2> QED
    BY <2>1, <2>2 DEF Card, Cards
<1>4. g \in Seq(Cards) /\ Len(g) = Len(view)
  <2>1. g = [i \in 1 .. Len(view) |-> Card(view[i], states[i])]
    BY <1>1, <1>2
  <2> QED
    BY <1>1, <1>3, <2>1
<1>5. Shows(g, view)
  BY <1>2 DEF Shows, Card
<1> QED
  BY <1>1, <1>4, <1>5 DEF Grids, view

LEMMA AnswersType ==
    ASSUME NEW s \in Sites, NEW tb \in Tabs, NEW pg \in Pages,
           NEW answer \in AnswersOf(s, tb, pg)
    PROVE  /\ answer.tabs \subseteq Vendors
           /\ answer.page \in Pages
           /\ answer.total \in 0 .. Cardinality(Entries)
           /\ answer.cards \in Grids
           /\ answer.page = ClampPage(Len(Filtered[s][tb]), DefaultPageSize, pg)
           /\ Shows(answer.cards, View[s][tb][pg])
<1> DEFINE n == Len(Filtered[s][tb])
<1>1. PICK cards \in GridsOf(s, tb, pg) :
         answer = [tabs  |-> s.vendors, page |-> ClampPage(n, DefaultPageSize, pg),
                   total |-> n, cards |-> cards]
  BY DEF AnswersOf
<1>2. n \in 0 .. Cardinality(Entries) /\ n \in Nat
  BY FilteredType, LenProperties
<1>3. ClampPage(n, DefaultPageSize, pg) \in Pages
  BY <1>2, ClampedPage
<1>4. cards \in Grids /\ Shows(cards, View[s][tb][pg])
  BY GridsOfType
<1>5. s.vendors \subseteq Vendors
  BY SiteType
<1> HIDE DEF n
<1>6. /\ answer.tabs = s.vendors /\ answer.page = ClampPage(n, DefaultPageSize, pg)
      /\ answer.total = n /\ answer.cards = cards
  BY <1>1
<1> QED
  BY <1>2, <1>3, <1>4, <1>5, <1>6 DEF n

LEMMA CardsType ==
    ASSUME NEW s \in Sites, NEW tb \in Tabs, NEW pg \in Pages,
           NEW idx \in 0 .. DefaultPageSize - 1,
           NEW card \in CardsOf(s, tb, pg, idx)
    PROVE  /\ card # NoCard => card \in Cards
           /\ idx + 1 \in DOMAIN View[s][tb][pg] =>
                 card.entry = View[s][tb][pg][idx + 1] /\ card.state \in AskedStates
<1> DEFINE view == View[s][tb][pg]
<1>1. /\ view \in Seq(Entries) /\ Len(view) \in Nat
      /\ DOMAIN view = 1 .. Len(view)
  BY ViewType, LenProperties
<1>2. CASE idx < Len(view)
  <2>1. PICK st \in AskedStates : card = Card(view[idx + 1], st)
    BY <1>2 DEF CardsOf
  <2>2. view[idx + 1] \in Entries
    BY <1>1, <1>2, ElementOfSeq
  <2>3. st \in {"fresh", "stale", "missing"}
    BY DashboardAssumption
  <2> QED
    BY <2>1, <2>2, <2>3 DEF Card, Cards
<1>3. CASE ~ (idx < Len(view))
  BY <1>1, <1>3 DEF CardsOf
<1> QED
  BY <1>2, <1>3
-----------------------------------------------------------------------------
(* The invariant                                                           *)

\* IInv, sorted by what the steps change: the loader, and all the rest.
LoaderOK(keys, requests) ==
    /\ Sound(keys, requests)
    /\ keys # <<>> => Cardinality(requests) = EntryConcurrency

Screen ==
    /\ site \in Sites
    /\ tabs \subseteq Vendors
    /\ tab \in Tabs /\ page \in Pages
    /\ total \in 0 .. Cardinality(Entries)
    /\ grid \in Grids
    /\ load \in {NoLoad} \cup Loads
    /\ retry \in [Keys -> 0 .. MaxRetries]
    /\ url \in [tab : Tabs, page : Pages]
    /\ clicks \in 0 .. MaxClicks /\ edits \in 0 .. MaxEdits

Inv == Screen /\ LoaderOK(queue, net)

LEMMA InvIsIInv == Inv <=> IInv
<1>1. ASSUME queue \in Seq(Keys)
      PROVE  DOMAIN queue = 1 .. Len(queue)
  BY <1>1, LenProperties
<1> QED
  BY <1>1 DEF Inv, Screen, LoaderOK, Sound, NoneTwice, IInv, TypeOK,
              NothingTwice, WorkConserving

\* A key whose request has ended can wait again.
LEMMA Freed ==
    ASSUME Sound(queue, net), NEW r \in net
    PROVE  /\ Sound(queue, net \ {r})
           /\ Sound(Append(queue, r.key), net \ {r})
<1> DEFINE less == net \ {r}
           more == Append(queue, r.key)
<1>1. /\ queue \in Seq(Keys) /\ NoneTwice(queue) /\ Len(queue) \in Nat
      /\ IsFiniteSet(net) /\ Cardinality(net) <= EntryConcurrency
      /\ r.key \in Keys /\ EntryConcurrency \in Nat
      /\ \A i \in 1 .. Len(queue) : queue[i] \notin Inflight(net)
  BY LenProperties, DashboardAssumption DEF Sound, LazyRequests
<1>2. /\ IsFiniteSet(less) /\ Cardinality(less) <= EntryConcurrency
  <2>1. IsFiniteSet(less) /\ Cardinality(less) <= Cardinality(net)
    BY <1>1, FS_Subset
  <2>2. Cardinality(less) \in Nat /\ Cardinality(net) \in Nat
    BY <1>1, <2>1, FS_CardinalityType
  <2> QED
    BY <1>1, <2>1, <2>2
<1>3. /\ Inflight(less) \subseteq Inflight(net)
      /\ r.key \notin Inflight(less) /\ r.key \in Inflight(net)
  BY DEF Inflight, Sound
<1>4. less \subseteq LazyRequests /\ \A q, s \in less : q.key = s.key => q = s
  BY DEF Sound
<1>5. /\ more \in Seq(Keys) /\ Len(more) = Len(queue) + 1
      /\ \A i \in 1 .. Len(queue) : more[i] = queue[i]
      /\ more[Len(queue) + 1] = r.key
  BY <1>1, AppendProperties
<1> HIDE DEF less, more
<1>6. Sound(queue, less)
  BY <1>1, <1>2, <1>3, <1>4 DEF Sound
<1>7. \A i \in 1 .. Len(more) : i \in 1 .. Len(queue) \/ i = Len(queue) + 1
  BY <1>1, <1>5
<1>8. NoneTwice(more)
  <2>1. \A i \in 1 .. Len(queue) : queue[i] # r.key
    BY <1>1, <1>3
  <2> QED
    BY <1>1, <1>5, <1>7, <2>1 DEF NoneTwice
<1>9. \A i \in 1 .. Len(more) : more[i] \notin Inflight(less)
  BY <1>1, <1>3, <1>5, <1>7
<1>10. Sound(more, less)
  BY <1>2, <1>4, <1>5, <1>8, <1>9 DEF Sound
<1> QED
  BY <1>6, <1>10 DEF less, more

\* Pumping leaves the loader as it should be.
LEMMA PumpOK ==
    ASSUME NEW keys, NEW requests, Sound(keys, requests), NEW pg, NEW tb,
           site \in Sites, pg \in Pages, tb \in Tabs
    PROVE  LoaderOK(Pump(keys, requests, pg, tb).queue,
                    Pump(keys, requests, pg, tb).net)
BY PumpSound DEF LoaderOK

\* So does collecting the cards of a new page and pumping.
LEMMA CollectOK ==
    ASSUME NEW cards \in Grids, NEW requests, Sound(<<>>, requests),
           NEW pg \in Pages, NEW tb \in Tabs, site \in Sites
    PROVE  LoaderOK(Pump(Collect(cards, requests, pg, tb), requests, pg, tb).queue,
                    Pump(Collect(cards, requests, pg, tb), requests, pg, tb).net)
<1>1. Sound(Collect(cards, requests, pg, tb), requests)
  BY CollectSound
<1> QED
  BY <1>1, PumpOK

\* Nothing to be done and nothing under way is fine, and so is what is under
\* way with nothing to be done.
LEMMA Emptied == /\ Sound(<<>>, {})
                 /\ Sound(queue, net) => Sound(<<>>, net)
<1>1. <<>> \in Seq(Keys) /\ Len(<<>>) = 0
  BY EmptySeq
<1>2. NoneTwice(<<>>)
  BY <1>1 DEF NoneTwice
<1>3. IsFiniteSet({}) /\ Cardinality({}) = 0
  BY FS_EmptySet
<1> QED
  BY <1>1, <1>2, <1>3, DashboardAssumption DEF Sound

\* A card replaced by another, or marked as failed, leaves a grid.
LEMMA GridChanged ==
    ASSUME grid \in Grids
    PROVE  /\ \A k \in Keys : \A card :
                 (card # NoCard => card \in Cards) => Swapped(k, card) \in Grids
           /\ \A idx \in 0 .. DefaultPageSize - 1 : MarkedFailed(idx) \in Grids
<1>1. /\ grid \in Seq(Cards) /\ Len(grid) <= DefaultPageSize
      /\ DOMAIN grid = 1 .. Len(grid)
  BY LenProperties DEF Grids
<1>2. ASSUME NEW i \in DOMAIN grid, NEW card \in Cards
      PROVE  [grid EXCEPT ![i] = card] \in Grids
  <2>1. i \in 1 .. Len(grid)
    BY <1>1
  <2>2. /\ [grid EXCEPT ![i] = card] \in Seq(Cards)
        /\ Len([grid EXCEPT ![i] = card]) = Len(grid)
    BY <1>1, <2>1, ExceptSeq
  <2> QED
    BY <1>1, <2>2 DEF Grids
<1>3. ASSUME NEW k \in Keys, NEW card, card # NoCard => card \in Cards
      PROVE  Swapped(k, card) \in Grids
  BY <1>2, <1>3 DEF Swapped
<1>4. ASSUME NEW idx \in 0 .. DefaultPageSize - 1
      PROVE  MarkedFailed(idx) \in Grids
  <2>1. CASE idx + 1 \in DOMAIN grid /\ grid[idx + 1].state = "missing"
    <3> DEFINE card == [grid[idx + 1] EXCEPT !.state = "err"]
    <3>1. grid[idx + 1] \in Cards
      BY <1>1, <2>1, ElementOfSeq
    <3>2. card \in Cards
      BY <3>1 DEF Cards
    <3>3. MarkedFailed(idx) = [grid EXCEPT ![idx + 1] = card]
      BY <2>1 DEF MarkedFailed
    <3> HIDE DEF card
    <3> QED
      BY <1>2, <2>1, <3>2, <3>3
  <2>2. CASE ~ (idx + 1 \in DOMAIN grid /\ grid[idx + 1].state = "missing")
    BY <2>2 DEF MarkedFailed
  <2> QED
    BY <2>1, <2>2
<1> QED
  BY <1>3, <1>4

LEMMA InitInv == Init => Inv
<1> SUFFICES ASSUME Init PROVE Inv
  OBVIOUS
<1>1. /\ site \in Sites /\ AllTab \in Tabs /\ 1 \in Pages
      /\ MaxRetries \in Nat /\ MaxClicks \in Nat /\ MaxEdits \in Nat
  BY FirstPage, DashboardAssumption DEF Init, Tabs
<1>2. grid \in Grids
  BY <1>1, GridsOfType DEF Init
<1>3. LoaderOK(queue, net)
  BY <1>1, <1>2, CollectOK, Emptied DEF Init
<1>4. /\ tabs \subseteq Vendors
      /\ total \in 0 .. Cardinality(Entries)
  BY <1>1, SiteType DEF Init
<1>5. retry \in [Keys -> 0 .. MaxRetries]
  BY <1>1 DEF Init, NoRetries
<1> QED
  BY <1>1, <1>2, <1>3, <1>4, <1>5 DEF Init, Inv, Screen

LEMMA ClickType ==
    ASSUME Inv, NEW c, Click(c)
    PROVE  clicks' \in 0 .. MaxClicks
BY DashboardAssumption DEF Inv, Screen, Click

\* A click on a tab, on the pager or on the refresh button.
LEMMA LoadPageInv ==
    ASSUME Inv, NEW tb \in Tabs, NEW pg \in Pages, NEW force \in BOOLEAN,
           LoadPage(tb, pg, force), tab' \in Tabs, clicks' \in 0 .. MaxClicks
    PROVE  Inv'
<1>1. grid' \in Grids
  <2>1. <<>> \in Seq(Cards) /\ Len(<<>>) = 0
    BY EmptySeq
  <2> QED
    BY <2>1, PageSizeAssumption DEF LoadPage, Grids
<1>2. load' \in Loads
  BY DEF LoadPage, Loads, Inv, Screen
<1> QED
  BY <1>1, <1>2 DEF LoadPage, Inv, Screen

\* The answer to a page load is shown.
LEMMA ShowPageInv ==
    ASSUME Inv, NEW s \in Sites, NEW pg \in Pages,
           NEW answer \in AnswersOf(s, tab, pg), ShowPage(answer)
    PROVE  Inv'
<1> DEFINE tb == IF tab \in answer.tabs THEN tab ELSE AllTab
<1>1. /\ answer.tabs \subseteq Vendors /\ answer.page \in Pages
      /\ answer.total \in 0 .. Cardinality(Entries) /\ answer.cards \in Grids
  BY AnswersType DEF Inv, Screen
<1>2. tb \in Tabs
  BY DEF Inv, Screen, Tabs
<1>3. Sound(<<>>, net) /\ site \in Sites
  BY Emptied DEF Inv, Screen, LoaderOK
<1>4. LoaderOK(queue', net')
  BY <1>1, <1>2, <1>3, CollectOK DEF ShowPage, Load
<1>5. Screen'
  BY <1>1, <1>2 DEF ShowPage, Inv, Screen
<1> QED
  BY <1>4, <1>5 DEF Inv

\* The card of a lazy request is shown.
LEMMA ShowEntryInv ==
    ASSUME Inv, NEW r \in net, NEW card, card # NoCard => card \in Cards,
           ShowEntry(r, card)
    PROVE  Inv'
<1>1. /\ r.key \in Keys /\ site \in Sites /\ page \in Pages /\ tab \in Tabs
      /\ grid \in Grids /\ Sound(queue, net)
  BY DEF Inv, Screen, LoaderOK, Sound, LazyRequests
<1>2. grid' \in Grids
  BY <1>1, GridChanged DEF ShowEntry
<1>3. Sound(queue, net \ {r})
  BY <1>1, Freed
<1>4. LoaderOK(queue', net')
  BY <1>1, <1>3, PumpOK DEF ShowEntry, Load
<1>5. retry' \in [Keys -> 0 .. MaxRetries]
  <2>1. 0 \in 0 .. MaxRetries /\ retry \in [Keys -> 0 .. MaxRetries]
    BY DashboardAssumption DEF Inv, Screen
  <2>2. retry' = [retry EXCEPT ![r.key] = 0]
    BY DEF ShowEntry
  <2> QED
    BY <2>1, <2>2
<1> QED
  BY <1>2, <1>4, <1>5 DEF ShowEntry, Inv, Screen

LEMMA EntryOKInv ==
    ASSUME Inv, NEW r \in net, EntryOK(r)
    PROVE  Inv'
<1>1. /\ r.key.idx \in 0 .. DefaultPageSize - 1 /\ r.page \in Pages
      /\ r.tab \in Tabs /\ r.from \subseteq Sites
  BY DEF Inv, LoaderOK, Sound, LazyRequests, Keys
<1>2. PICK s \in r.from : \E card \in CardsOf(s, r.tab, r.page, r.key.idx) :
                             ShowEntry(r, card)
  BY DEF EntryOK
<1>3. PICK card \in CardsOf(s, r.tab, r.page, r.key.idx) : ShowEntry(r, card)
  BY <1>2
<1>4. card # NoCard => card \in Cards
  BY <1>1, CardsType
<1> QED
  BY <1>3, <1>4, ShowEntryInv

\* A lazy request fails.
LEMMA EntryFailInv ==
    ASSUME Inv, NEW r \in net, EntryFail(r)
    PROVE  Inv'
<1> DEFINE again == retry[r.key] + 1 <= MaxRetries
<1>1. /\ r.key \in Keys /\ r.key.idx \in 0 .. DefaultPageSize - 1
      /\ site \in Sites /\ page \in Pages /\ tab \in Tabs
      /\ grid \in Grids /\ Sound(queue, net)
  BY DEF Inv, Screen, LoaderOK, Sound, LazyRequests, Keys
<1>2. grid' \in Grids
  BY <1>1, GridChanged DEF EntryFail
<1>3. Sound(queue, net \ {r}) /\ Sound(Append(queue, r.key), net \ {r})
  BY <1>1, Freed
<1>4. LoaderOK(queue', net')
  <2>1. CASE again
    <3>1. Load(Pump(Append(queue, r.key), net \ {r}, page, tab))
      BY <2>1 DEF EntryFail
    <3> QED
      BY <1>1, <1>3, <3>1, PumpOK DEF Load
  <2>2. CASE ~ again
    <3>1. Load(Pump(queue, net \ {r}, page, tab))
      BY <2>2 DEF EntryFail
    <3> QED
      BY <1>1, <1>3, <3>1, PumpOK DEF Load
  <2> QED
    BY <2>1, <2>2
<1>5. retry' \in [Keys -> 0 .. MaxRetries]
  <2>1. retry \in [Keys -> 0 .. MaxRetries] /\ retry[r.key] \in 0 .. MaxRetries
    BY <1>1 DEF Inv, Screen
  <2>2. retry' = [retry EXCEPT ![r.key] = IF again THEN retry[r.key] + 1 ELSE 0]
    BY DEF EntryFail
  <2>3. (IF again THEN retry[r.key] + 1 ELSE 0) \in 0 .. MaxRetries
    BY <2>1, DashboardAssumption
  <2> HIDE DEF again
  <2> QED
    BY <2>1, <2>2, <2>3
<1> QED
  BY <1>2, <1>4, <1>5 DEF EntryFail, Inv, Screen

\* A page load fails: what was there is put back.
LEMMA LoadFailInv ==
    ASSUME Inv, LoadFail
    PROVE  Inv'
<1>1. load \in Loads
  BY DEF Inv, Screen, LoadFail, NoLoad
<1>2. /\ load.backup.tabs \subseteq Vendors /\ load.backup.grid \in Grids
      /\ load.backup.tab \in Tabs /\ load.backup.page \in Pages
  BY <1>1 DEF Loads
<1> QED
  BY <1>2 DEF LoadFail, Inv, Screen

\* The document is loaded again.
LEMMA ReloadInv ==
    ASSUME Inv, Reload
    PROVE  Inv'
<1>1. /\ site \in Sites /\ url.tab \in Tabs /\ url.page \in Pages
  BY DEF Inv, Screen
<1>2. PICK answer \in AnswersOf(site, url.tab, url.page) :
         /\ tabs' = answer.tabs /\ page' = answer.page
         /\ total' = answer.total /\ grid' = answer.cards
         /\ Load(Pump(Collect(answer.cards, {}, answer.page, url.tab), {},
                      answer.page, url.tab))
  BY DEF Reload
<1>3. /\ answer.tabs \subseteq Vendors /\ answer.page \in Pages
      /\ answer.total \in 0 .. Cardinality(Entries) /\ answer.cards \in Grids
  BY <1>1, AnswersType
<1>4. LoaderOK(queue', net')
  BY <1>1, <1>2, <1>3, CollectOK, Emptied DEF Load
<1>5. retry' \in [Keys -> 0 .. MaxRetries] /\ clicks' \in 0 .. MaxClicks
  BY ClickType, DashboardAssumption DEF Reload, NoRetries
<1> QED
  BY <1>1, <1>2, <1>3, <1>4, <1>5 DEF Reload, Inv, Screen

\* What the server lists changes while requests are under way: there are as
\* many requests as before, for the same keys.
LEMMA EditSiteInv ==
    ASSUME Inv, EditSite
    PROVE  Inv'
<1>1. PICK s \in Sites \ {site} :
         /\ site' = s
         /\ net' = {[r EXCEPT !.from = @ \cup {s}] : r \in net}
         /\ load' = IF load.busy THEN [load EXCEPT !.from = @ \cup {s}] ELSE load
  BY DEF EditSite
<1>2. /\ Sound(queue, net) /\ IsFiniteSet(net) /\ net \subseteq LazyRequests
      /\ \A q, r \in net : q.key = r.key => q = r
  BY DEF Inv, LoaderOK, Sound
<1> DEFINE told == [r \in net |-> [r EXCEPT !.from = @ \cup {s}]]
<1>3. \A r \in net : told[r] \in LazyRequests /\ told[r].key = r.key
  BY <1>2 DEF LazyRequests
<1>4. net' = {told[r] : r \in net}
  BY <1>1
<1> HIDE DEF told
<1>5. IsFiniteSet(net') /\ Cardinality(net') = Cardinality(net)
  <2>1. told \in [net -> net']
    BY <1>4 DEF told
  <2>2. told \in Bijection(net, net')
    BY <1>2, <1>3, <1>4, <2>1 DEF Bijection, Injection, Surjection, IsInjective
  <2>3. ExistsBijection(net, net')
    BY <2>2 DEF ExistsBijection
  <2> QED
    BY <1>2, <2>3, FS_Bijection
<1>6. Inflight(net') = Inflight(net)
  BY <1>3, <1>4 DEF Inflight
<1>7. LoaderOK(queue', net')
  <2>1. net' \subseteq LazyRequests /\ \A q, r \in net' : q.key = r.key => q = r
    BY <1>2, <1>3, <1>4
  <2>2. queue' = queue
    BY DEF EditSite
  <2> QED
    BY <1>2, <1>5, <1>6, <2>1, <2>2 DEF Inv, LoaderOK, Sound
<1>8. load' \in {NoLoad} \cup Loads
  <2>1. CASE load.busy
    BY <1>1, <2>1 DEF Inv, Screen, Loads, NoLoad
  <2>2. CASE ~ load.busy
    BY <1>1, <2>2 DEF Inv, Screen
  <2> QED
    BY <2>1, <2>2
<1>9. edits' \in 0 .. MaxEdits
  BY DashboardAssumption DEF EditSite, Inv, Screen
<1> QED
  BY <1>1, <1>7, <1>8, <1>9 DEF EditSite, Inv, Screen

LEMMA NextInv == Inv /\ [Next]_vars => Inv'
<1> SUFFICES ASSUME Inv, [Next]_vars PROVE Inv'
  OBVIOUS
<1>1. ASSUME NEW id \in Tabs, ClickTab(id) PROVE Inv'
  <2>1. clicks' \in 0 .. MaxClicks /\ 1 \in Pages /\ tab' \in Tabs
    BY <1>1, ClickType, FirstPage DEF ClickTab
  <2> QED
    BY <1>1, <2>1, LoadPageInv DEF ClickTab
<1>2. ASSUME NEW n \in Pages, ClickPage(n) PROVE Inv'
  <2>1. clicks' \in 0 .. MaxClicks /\ tab \in Tabs /\ tab' \in Tabs
    BY <1>2, ClickType DEF ClickPage, Inv, Screen
  <2> QED
    BY <1>2, <2>1, LoadPageInv DEF ClickPage
<1>3. CASE ClickRefresh
  <2>1. /\ clicks' \in 0 .. MaxClicks
        /\ tab \in Tabs /\ tab' \in Tabs /\ page \in Pages
    BY <1>3, ClickType DEF ClickRefresh, Inv, Screen
  <2> QED
    BY <1>3, <2>1, LoadPageInv DEF ClickRefresh
<1>4. CASE Reload
  BY <1>4, ReloadInv
<1>5. CASE LoadOK
  <2>1. load \in Loads
    BY <1>5 DEF Inv, Screen, LoadOK, NoLoad
  <2>2. load.page \in Pages /\ load.from \subseteq Sites
    BY <2>1 DEF Loads
  <2>3. PICK s \in load.from : \E answer \in AnswersOf(s, tab, load.page) :
                                  ShowPage(answer)
    BY <1>5 DEF LoadOK
  <2>4. PICK answer \in AnswersOf(s, tab, load.page) : ShowPage(answer)
    BY <2>3
  <2> QED
    BY <2>2, <2>4, ShowPageInv
<1>6. CASE LoadFail
  BY <1>6, LoadFailInv
<1>7. ASSUME NEW r \in net, EntryOK(r) PROVE Inv'
  BY <1>7, EntryOKInv
<1>8. ASSUME NEW r \in net, EntryFail(r) PROVE Inv'
  BY <1>8, EntryFailInv
<1>9. CASE EditSite
  BY <1>9, EditSiteInv
<1>10. CASE UNCHANGED vars
  BY <1>10 DEF vars, Inv, Screen
<1> QED
  BY <1>1, <1>2, <1>3, <1>4, <1>5, <1>6, <1>7, <1>8, <1>9, <1>10 DEF Next

LEMMA AlwaysInv == Spec => []Inv
BY InitInv, NextInv, PTL DEF Spec

\* Every variable of the script keeps its type (dashboardJS).
THEOREM TypesHold == Spec => []TypeOK
<1>1. Inv => TypeOK
  BY InvIsIInv DEF IInv
<1> QED
  BY <1>1, AlwaysInv, PTL

\* No card is fetched twice at the same time, however pages are switched while
\* requests are out, and whatever fails (collectLazyEntries, pumpEntryLoaders,
\* fetchEntry).
THEOREM NothingFetchedTwice == Spec => []NothingTwice
<1>1. Inv => NothingTwice
  BY InvIsIInv DEF IInv
<1> QED
  BY <1>1, AlwaysInv, PTL

\* The loader keeps to its limit and never waits while there is room, so no
\* timer is needed to wake it up (pumpEntryLoaders).
THEOREM LoaderWorks == Spec => []WorkConserving
<1>1. Inv => WorkConserving
  BY InvIsIInv DEF IInv
<1> QED
  BY <1>1, AlwaysInv, PTL
-----------------------------------------------------------------------------
(***************************************************************************)
(* What the user sees in a steady dashboard (Steady): he pages, refreshes  *)
(* and reloads, with any number of lazy requests under way, answered in    *)
(* any order, and page loads that fail.  Each card is the one its place is *)
(* for, and a reload shows the same page.  If the page loads succeed too   *)
(* (Undisturbed), no card shimmers with nobody about to fill it.           *)
(*                                                                         *)
(* With tab clicks, failed lazy requests or changes of the server's list   *)
(* this does not hold: the runs that expect a violation show how.          *)
(***************************************************************************)
\* A request asks for the page and the tab in its key, of the list s.
Told(r, s) == r.from = {s} /\ r.page = r.key.page /\ r.tab = r.key.tab

\* A key is of the view (pg, tb).
Of(k, pg, tb) == k.page = pg /\ k.tab = tb

SInv == Inv /\ OneView

\* What a step keeps.
Kept == OneView' /\ (Undisturbed /\ NoOrphanSkeleton => NoOrphanSkeleton')

\* Pumping keys of a view leaves keys of the view, and loses none.
LEMMA PumpKeeps ==
    ASSUME NEW keys, NEW requests, Sound(keys, requests), NEW pg, NEW tb,
           site \in Sites, pg \in Pages, tb \in Tabs,
           \A k \in Elements(keys) : Of(k, pg, tb),
           \A r \in requests : Told(r, site)
    PROVE  LET p == Pump(keys, requests, pg, tb)
           IN  /\ \A r \in p.net : Told(r, site)
               /\ \A k \in Elements(p.queue) : Of(k, pg, tb)
               /\ Elements(keys) \cup Inflight(requests)
                     \subseteq Inflight(p.net) \cup Elements(p.queue)
<1> DEFINE p == Pump(keys, requests, pg, tb)
<1>1. /\ Elements(p.queue) \subseteq Elements(keys)
      /\ requests \subseteq p.net
      /\ p.net \subseteq requests \cup {Request(k, pg, tb) : k \in Elements(keys)}
      /\ Elements(keys) \subseteq Inflight(p.net) \cup Elements(p.queue)
  BY PumpSound
<1> HIDE DEF p
<1>2. ASSUME NEW k \in Elements(keys) PROVE Told(Request(k, pg, tb), site)
  BY <1>2 DEF Told, Of, Request
<1>3. \A r \in p.net : Told(r, site)
  BY <1>1, <1>2
<1>4. Inflight(requests) \subseteq Inflight(p.net)
  BY <1>1 DEF Inflight
<1> QED
  BY <1>1, <1>3, <1>4 DEF p

\* The loader takes care of every card of a new page that has no quota.
LEMMA CollectKeeps ==
    ASSUME NEW cards \in Grids, NEW requests, Sound(<<>>, requests),
           NEW pg \in Pages, NEW tb \in Tabs, site \in Sites,
           \A r \in requests : Told(r, site)
    PROVE  LET p == Pump(Collect(cards, requests, pg, tb), requests, pg, tb)
           IN  /\ \A r \in p.net : Told(r, site)
               /\ \A k \in Elements(p.queue) : Of(k, pg, tb)
               /\ \A i \in DOMAIN cards : cards[i].state = "missing" =>
                     Key(i - 1, pg, tb) \in Inflight(p.net) \cup Elements(p.queue)
<1> DEFINE keys == Collect(cards, requests, pg, tb)
           p    == Pump(keys, requests, pg, tb)
<1>1. /\ Sound(keys, requests)
      /\ Elements(keys) = Lazy(cards, pg, tb) \ Inflight(requests)
      /\ \A k \in Elements(keys) : Of(k, pg, tb)
  BY CollectSound DEF Of
<1> HIDE DEF keys
<1>2. /\ \A r \in p.net : Told(r, site)
      /\ \A k \in Elements(p.queue) : Of(k, pg, tb)
      /\ Elements(keys) \cup Inflight(requests)
            \subseteq Inflight(p.net) \cup Elements(p.queue)
  BY <1>1, PumpKeeps
<1>3. ASSUME NEW i \in DOMAIN cards, cards[i].state = "missing"
      PROVE  Key(i - 1, pg, tb) \in Lazy(cards, pg, tb)
  BY <1>3 DEF Lazy, KeysOf
<1> HIDE DEF p
<1>4. \A i \in DOMAIN cards : cards[i].state = "missing" =>
         Key(i - 1, pg, tb) \in Inflight(p.net) \cup Elements(p.queue)
  BY <1>1, <1>2, <1>3
<1> QED
  BY <1>2, <1>4 DEF p, keys

\* The elements of a queue, by its domain.
LEMMA QueueElements ==
    ASSUME NEW q \in Seq(Keys)
    PROVE  /\ Elements(q) = ToSet(q)
           /\ \A i \in DOMAIN q : q[i] \in Elements(q)
BY LenProperties DEF Elements, ToSet

\* A page that has come, with the loader's answer to it, is one view.
LEMMA OneViewComes ==
    ASSUME NEW pg \in Pages, NEW answer \in AnswersOf(site, AllTab, pg),
           NEW requests, Sound(<<>>, requests), \A r \in requests : Told(r, site),
           site \in Sites, Inv', UNCHANGED site, load' = NoLoad, tab' = AllTab,
           page' = answer.page, grid' = answer.cards,
           url' = [tab |-> tab', page |-> page'],
           Load(Pump(Collect(answer.cards, requests, answer.page, AllTab),
                     requests, answer.page, AllTab))
    PROVE  OneView' /\ NoOrphanSkeleton'
<1>1. AllTab \in Tabs
  BY DEF Tabs
<1>2. /\ answer.page \in Pages /\ answer.cards \in Grids
      /\ answer.page = ClampPage(Len(Filtered[site][AllTab]), DefaultPageSize, pg)
      /\ Shows(answer.cards, View[site][AllTab][pg])
  BY <1>1, AnswersType
<1>3. /\ \A r \in net' : Told(r, site)
      /\ \A k \in Elements(queue') : Of(k, page', tab')
      /\ \A i \in DOMAIN grid' : grid'[i].state = "missing" =>
            Key(i - 1, page', tab') \in Inflight(net') \cup Elements(queue')
  BY <1>1, <1>2, CollectKeeps DEF Load
<1>4. /\ Elements(queue') = ToSet(queue')
      /\ \A i \in DOMAIN queue' : queue'[i] \in Elements(queue')
  <2>1. queue' \in Seq(Keys)
    BY DEF Inv, LoaderOK, Sound
  <2> QED
    BY <2>1, QueueElements
<1>5. NoOrphanSkeleton'
  BY <1>3, <1>4 DEF NoOrphanSkeleton, Pending, KeyAt
<1>6. page' = ClampPage(Len(Filtered[site][AllTab]), DefaultPageSize, page')
  BY <1>1, <1>2, FilteredType, ClampedPage
<1>7. Shows(grid', View[site][AllTab][page'])
  BY <1>1, <1>2, ViewClamped
<1>8. OneView'
  BY <1>3, <1>4, <1>6, <1>7 DEF OneView, Told, Of, NoLoad
<1> QED
  BY <1>5, <1>8

LEMMA InitView == Init => SInv /\ NoOrphanSkeleton
<1> SUFFICES ASSUME Init PROVE SInv /\ NoOrphanSkeleton
  OBVIOUS
<1>1. /\ Inv /\ site \in Sites /\ AllTab \in Tabs /\ 1 \in Pages
      /\ tab = AllTab /\ page = 1 /\ load = NoLoad
      /\ url = [tab |-> AllTab, page |-> 1]
  BY InitInv, FirstPage DEF Init, Inv, Screen, Tabs
<1>2. grid \in Grids /\ Shows(grid, View[site][AllTab][1])
  BY <1>1, GridsOfType DEF Init
<1>3. /\ \A r \in net : Told(r, site)
      /\ \A k \in Elements(queue) : Of(k, page, tab)
      /\ \A i \in DOMAIN grid : grid[i].state = "missing" =>
            Key(i - 1, page, tab) \in Inflight(net) \cup Elements(queue)
  <2>1. LET p == Pump(Collect(grid, {}, 1, AllTab), {}, 1, AllTab)
        IN  queue = p.queue /\ net = p.net
    BY DEF Init
  <2> QED
    BY <1>1, <1>2, <2>1, CollectKeeps, Emptied
<1>4. /\ Elements(queue) = ToSet(queue)
      /\ \A i \in DOMAIN queue : queue[i] \in Elements(queue)
  BY <1>1, QueueElements DEF Inv, LoaderOK, Sound
<1>5. NoOrphanSkeleton
  BY <1>3, <1>4 DEF NoOrphanSkeleton, Pending, KeyAt
<1>6. page = ClampPage(Len(Filtered[site][tab]), DefaultPageSize, page)
  <2>1. Len(Filtered[site][AllTab]) \in Nat
    BY <1>1, FilteredType
  <2>2. PageCount(Len(Filtered[site][AllTab]), DefaultPageSize) \in Nat \ {0}
    BY <2>1, PageCountBounds, PageSizeAssumption
  <2> QED
    BY <1>1, <2>2 DEF ClampPage
<1>7. OneView
  BY <1>1, <1>2, <1>3, <1>4, <1>6 DEF OneView, Told, Of, NoLoad
<1> QED
  BY <1>1, <1>5, <1>7 DEF SInv

\* A click that begins a page load, and how that ends.
LEMMA LoadPageView ==
    ASSUME SInv, ~ load.busy,
           NEW pg, NEW force, LoadPage(tab, pg, force), UNCHANGED tab
    PROVE  OneView' /\ NoOrphanSkeleton'
<1>1. /\ load'.busy /\ load'.from = {site} /\ grid' = <<>>
      /\ load'.backup.tab = tab /\ load'.backup.page = page
      /\ load'.backup.grid = grid
      /\ UNCHANGED <<site, tab, page, url, net, queue>>
  BY DEF LoadPage
<1>2. OneView'
  BY <1>1 DEF SInv, OneView
<1>3. NoOrphanSkeleton'
  BY <1>1 DEF NoOrphanSkeleton
<1> QED
  BY <1>2, <1>3

LEMMA LoadFailView ==
    ASSUME SInv, LoadFail
    PROVE  Kept
<1>1. /\ load.busy /\ load' = NoLoad
      /\ tab' = load.backup.tab /\ page' = load.backup.page
      /\ grid' = load.backup.grid
      /\ UNCHANGED <<site, url, net, queue>>
  BY DEF LoadFail
<1>2. OneView'
  BY <1>1 DEF SInv, OneView, NoLoad
<1>3. ~ Undisturbed
  BY DEF LoadFail, Undisturbed
<1> QED
  BY <1>2, <1>3 DEF Kept

LEMMA LoadOKView ==
    ASSUME SInv, Inv', LoadOK
    PROVE  OneView' /\ NoOrphanSkeleton'
<1>1. /\ load.busy /\ load.from = {site} /\ tab = AllTab /\ load.page \in Pages
      /\ site \in Sites /\ Sound(<<>>, net) /\ \A r \in net : Told(r, site)
  <2>1. load.busy /\ load \in Loads
    BY DEF LoadOK, SInv, Inv, Screen, NoLoad
  <2>2. Sound(<<>>, net)
    BY Emptied DEF SInv, Inv, LoaderOK
  <2> QED
    BY <2>1, <2>2 DEF SInv, Inv, Screen, OneView, Told, Loads
<1>2. PICK answer \in AnswersOf(site, AllTab, load.page) : ShowPage(answer)
  BY <1>1 DEF LoadOK
<1>3. /\ load' = NoLoad /\ tab' = AllTab /\ UNCHANGED site
      /\ page' = answer.page /\ grid' = answer.cards
      /\ url' = [tab |-> tab', page |-> page']
      /\ Load(Pump(Collect(answer.cards, net, answer.page, AllTab), net,
                   answer.page, AllTab))
  BY <1>1, <1>2 DEF ShowPage
<1> QED
  BY <1>1, <1>3, OneViewComes

LEMMA ReloadView ==
    ASSUME SInv, Inv', Reload
    PROVE  Kept
<1>1. /\ url = [tab |-> AllTab, page |-> page] /\ page \in Pages /\ site \in Sites
      /\ page = ClampPage(Len(Filtered[site][AllTab]), DefaultPageSize, page)
      /\ Sound(<<>>, {})
  BY Emptied DEF SInv, Inv, Screen, OneView
<1>2. PICK answer \in AnswersOf(site, AllTab, page) :
         /\ page' = answer.page /\ grid' = answer.cards
         /\ Load(Pump(Collect(answer.cards, {}, answer.page, AllTab), {},
                      answer.page, AllTab))
  BY <1>1 DEF Reload
<1>3. answer.page = page
  BY <1>1, AnswersType DEF Tabs
<1>4. /\ load' = NoLoad /\ tab' = AllTab /\ UNCHANGED site
      /\ url' = [tab |-> tab', page |-> page']
  BY <1>1, <1>2, <1>3 DEF Reload
<1> QED
  BY <1>1, <1>2, <1>4, OneViewComes DEF Kept

\* The card of a lazy request lands in its place, or nowhere; only one that
\* came without a quota can leave a gap.
LEMMA ShowEntryView ==
    ASSUME SInv, Inv', NEW r \in net,
           NEW card \in CardsOf(site, r.tab, r.page, r.key.idx),
           ShowEntry(r, card)
    PROVE  /\ OneView'
           /\ card.state # "missing" /\ NoOrphanSkeleton => NoOrphanSkeleton'
<1> DEFINE view == View[site][tab][page]
<1>1. /\ site \in Sites /\ tab \in Tabs /\ page \in Pages
      /\ grid \in Grids /\ DOMAIN grid = 1 .. Len(grid)
      /\ Sound(queue, net) /\ queue \in Seq(Keys)
      /\ r \in LazyRequests /\ Told(r, site)
      /\ \A q \in net : Told(q, site)
  BY LenProperties DEF SInv, Inv, Screen, LoaderOK, Sound, OneView, Told, Grids
<1>2. /\ r.key \in Keys /\ r.key.idx \in 0 .. DefaultPageSize - 1
      /\ r.page \in Pages /\ r.tab \in Tabs
  BY <1>1 DEF LazyRequests, Keys
<1>4. r.key = Key(r.key.idx, page, tab) => r.page = page /\ r.tab = tab
  BY <1>1 DEF Told, Key
<1>5. /\ r.key.idx + 1 \in DOMAIN View[site][r.tab][r.page] =>
            /\ card.entry = View[site][r.tab][r.page][r.key.idx + 1]
            /\ card # NoCard
  <2>1. "none" \notin AskedStates
    BY DashboardAssumption
  <2> QED
    BY <1>1, <1>2, <2>1, CardsType DEF NoCard
<1>6. UNCHANGED <<site, tab, page, url, load>> /\ grid' = Swapped(r.key, card)
  BY DEF ShowEntry
<1>7. /\ \A q \in net' : Told(q, site)
      /\ \A k \in Elements(queue') : Of(k, page, tab)
      /\ Elements(queue) \cup Inflight(net \ {r})
            \subseteq Inflight(net') \cup Elements(queue')
  <2>1. Sound(queue, net \ {r})
    BY <1>1, Freed
  <2>2. \A k \in Elements(queue) : Of(k, page, tab)
    BY <1>1, QueueElements DEF SInv, OneView, Of, ToSet
  <2>3. \A q \in net \ {r} : Told(q, site)
    BY <1>1
  <2> QED
    BY <1>1, <2>1, <2>2, <2>3, PumpKeeps DEF ShowEntry, Load
<1>8. /\ Elements(queue) = ToSet(queue)
      /\ Elements(queue') = ToSet(queue')
      /\ \A i \in DOMAIN queue' : queue'[i] \in Elements(queue')
  <2>1. queue' \in Seq(Keys)
    BY DEF Inv, LoaderOK, Sound
  <2> QED
    BY <1>1, <2>1, QueueElements
<1>9. CASE load.busy
  <2>1. grid = <<>> /\ grid' = grid
    BY <1>6, <1>9, EmptySeq DEF SInv, OneView, Swapped
  <2>2. OneView'
    BY <1>6, <1>7, <1>8, <1>9, <2>1 DEF SInv, OneView, Told, Of
  <2>3. NoOrphanSkeleton'
    BY <1>6, <1>9 DEF NoOrphanSkeleton
  <2> QED
    BY <2>2, <2>3
<1>10. CASE ~ load.busy
  <2>1. Shows(grid, view)
    BY <1>10 DEF SInv, OneView
  <2> DEFINE at == r.key.idx + 1
             hit == r.key = Key(r.key.idx, page, tab) /\ at \in DOMAIN grid
  <2>2. hit => /\ grid' = [grid EXCEPT ![at] = card]
               /\ card.entry = view[at]
    BY <1>4, <1>5, <1>6, <2>1 DEF Swapped, Shows
  <2>3. ~ hit => grid' = grid
    BY <1>6 DEF Swapped
  <2> HIDE DEF view
  <2>4. Shows(grid', view)
    <3>1. CASE hit
      BY <2>1, <2>2, <3>1 DEF Shows
    <3>2. CASE ~ hit
      BY <2>1, <2>3, <3>2
    <3> QED
      BY <3>1, <3>2
  <2>5. OneView'
    BY <1>6, <1>7, <1>8, <1>10, <2>4 DEF SInv, OneView, Told, Of, view
  <2>6. ASSUME card.state # "missing", NoOrphanSkeleton,
               NEW i \in DOMAIN grid', grid'[i].state = "missing"
        PROVE  Key(i - 1, page, tab) \in Inflight(net') \cup Elements(queue')
    <3>1. i \in DOMAIN grid /\ i \in Int
      BY <1>1, <2>2, <2>3
    <3>2. ~ (hit /\ i = at)
      BY <2>2, <2>6, <3>1
    <3>3. grid[i].state = "missing"
      <4>1. CASE hit
        BY <2>2, <2>6, <3>1, <3>2, <4>1
      <4>2. CASE ~ hit
        BY <2>3, <2>6, <4>2
      <4> QED
        BY <4>1, <4>2
    <3>4. Key(i - 1, page, tab) # r.key
      <4> SUFFICES ASSUME Key(i - 1, page, tab) = r.key PROVE FALSE
        OBVIOUS
      <4>1. r.key.idx = i - 1
        BY DEF Key
      <4> QED
        BY <3>1, <3>2, <4>1
    <3>5. Key(i - 1, page, tab) \in Inflight(net) \cup Elements(queue)
      BY <1>8, <1>10, <2>6, <3>1, <3>3 DEF NoOrphanSkeleton, Pending, KeyAt
    <3>6. Key(i - 1, page, tab) \in Inflight(net \ {r}) \cup Elements(queue)
      BY <3>4, <3>5 DEF Inflight
    <3> QED
      BY <1>7, <3>6
  <2>7. card.state # "missing" /\ NoOrphanSkeleton => NoOrphanSkeleton'
    BY <1>6, <1>8, <2>6 DEF NoOrphanSkeleton, Pending, KeyAt
  <2> QED
    BY <2>5, <2>7
<1> QED
  BY <1>9, <1>10

LEMMA EntryOKView ==
    ASSUME SInv, Inv', NEW r \in net, EntryOK(r)
    PROVE  Kept
<1>1. /\ site \in Sites /\ r.from = {site}
      /\ r.page \in Pages /\ r.tab \in Tabs /\ r.key.idx \in 0 .. DefaultPageSize - 1
  <2>1. r \in LazyRequests
    BY DEF SInv, Inv, LoaderOK, Sound
  <2> QED
    BY <2>1 DEF SInv, Inv, Screen, OneView, LazyRequests, Keys
<1>2. PICK card \in CardsOf(site, r.tab, r.page, r.key.idx) : ShowEntry(r, card)
  BY <1>1 DEF EntryOK
<1>3. Undisturbed => card.state # "missing"
  <2>1. card = NoCard \/ card.state \in AskedStates
    BY DEF CardsOf, Card
  <2> QED
    BY <2>1 DEF NoCard, Undisturbed
<1> QED
  BY <1>2, <1>3, ShowEntryView DEF Kept

LEMMA NextView == Steady /\ SInv /\ [Next]_vars => SInv' /\ Kept
<1> SUFFICES ASSUME Steady, SInv, [Next]_vars PROVE SInv' /\ Kept
  OBVIOUS
<1>1. Inv'
  BY NextInv DEF SInv
<1> SUFFICES Kept
  BY <1>1 DEF SInv, Kept
<1>2. ASSUME NEW id \in Tabs, ClickTab(id) PROVE Kept
  BY <1>2 DEF ClickTab, Click, Steady
<1>3. ASSUME NEW n \in Pages, ClickPage(n) PROVE Kept
  BY <1>3, LoadPageView DEF ClickPage, Kept
<1>4. CASE ClickRefresh
  BY <1>4, LoadPageView DEF ClickRefresh, Kept
<1>5. CASE Reload
  BY <1>1, <1>5, ReloadView
<1>6. CASE LoadOK
  BY <1>1, <1>6, LoadOKView DEF Kept
<1>7. CASE LoadFail
  BY <1>7, LoadFailView
<1>8. ASSUME NEW r \in net, EntryOK(r) PROVE Kept
  BY <1>1, <1>8, EntryOKView
<1>9. ASSUME NEW r \in net, EntryFail(r) PROVE Kept
  BY <1>9 DEF EntryFail, Steady
<1>10. CASE EditSite
  BY <1>10 DEF EditSite, Steady, SInv, Inv, Screen
<1>11. CASE UNCHANGED vars
  BY <1>11 DEF vars, SInv, OneView, NoOrphanSkeleton, Pending, KeyAt, Kept
<1> QED
  BY <1>1, <1>2, <1>3, <1>4, <1>5, <1>6, <1>7, <1>8, <1>9, <1>10, <1>11 DEF Next

LEMMA AlwaysOneView ==
    ASSUME Steady PROVE Spec => []SInv
<1>1. Init => SInv
  BY InitView
<1>2. SInv /\ [Next]_vars => SInv'
  BY NextView
<1> QED
  BY <1>1, <1>2, PTL DEF Spec

\* An answer never lands on another card: the card in a place is the one that
\* the view on the screen has there (swapEntry).
THEOREM CardsInTheirPlaces ==
    ASSUME Steady PROVE Spec => []SlotIdentity
<1>1. SInv => SlotIdentity
  BY DEF SInv, OneView, Shows, SlotIdentity
<1> QED
  BY <1>1, AlwaysOneView, PTL

\* No card shimmers with nobody about to fill it (collectLazyEntries,
\* pumpEntryLoaders, fetchEntry).
THEOREM EveryMissingCardPending ==
    ASSUME Undisturbed PROVE Spec => []NoOrphanSkeleton
<1>1. Steady
  BY DEF Undisturbed
<1>2. Init => SInv /\ NoOrphanSkeleton
  BY InitView
<1>3. SInv /\ NoOrphanSkeleton /\ [Next]_vars => (SInv /\ NoOrphanSkeleton)'
  BY <1>1, NextView DEF Kept
<1> QED
  BY <1>2, <1>3, PTL DEF Spec

\* A reload shows the page the user is looking at (syncURL).
THEOREM ReloadShowsSame ==
    ASSUME Steady PROVE Spec => []ReloadSameView
<1>1. SInv => ReloadSameView
  BY DEF SInv, OneView, ReloadSameView
<1> QED
  BY <1>1, AlwaysOneView, PTL
=============================================================================
