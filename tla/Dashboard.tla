------------------------------ MODULE Dashboard -----------------------------
(***************************************************************************)
(* The dashboard's script (dashboardJS in dashboard.go), as it runs in one *)
(* browser tab.                                                            *)
(*                                                                         *)
(* Two kinds of requests are under way at the same time.  A page load (tab *)
(* click, pager click, refresh button) is exclusive: "busy" shuts the      *)
(* other controls, the grid shows placeholders, and when the answer comes  *)
(* the grid is replaced; when it fails, what was there is put back.  The   *)
(* lazy loader meanwhile fetches the cards that came without a quota, one  *)
(* request per card, at most EntryConcurrency at once, each identified by  *)
(* a key made of the card's index, the page and the tab.  Answers come in  *)
(* any order, whatever the user does meanwhile.                            *)
(*                                                                         *)
(* One action is one run of an event handler or promise callback: the      *)
(* browser runs each to its end.  The server is known by its answers: the  *)
(* cards of the page asked for, each in a state of its own.  An answer may *)
(* be computed at any moment between its request and its arrival.          *)
(***************************************************************************)
EXTENDS Paging, Filtering, FiniteSets, SequencesExt

CONSTANTS Entries,           \* the (vendor, key) pairs that may be listed
          Vendors,           \* vendor ids, the tabs besides "all"
          VendorOf,          \* the vendor of an entry
          AllTab,            \* the tab of all vendors (the empty string)
          Sites,             \* what the server may have to list
          EntryConcurrency,  \* lazy requests under way at most (6)
          MaxRetries,        \* how often a failed lazy request is repeated (2)
          CardStates,        \* states of the cards of a loaded page
          AskedStates        \* states of the cards a request asked to look up:
                             \* one fetched lazily, all of a forced page

CONSTANTS Controls,          \* what the user uses: "tab", "page", "refresh", "reload"
          Faults,            \* which requests may fail: "load", "entry"
          MaxClicks,         \* bound: how often the user does something
          MaxEdits           \* bound: how often the server's list changes

ASSUME DashboardAssumption ==
    /\ IsFiniteSet(Entries)
    /\ VendorOf \in [Entries -> Vendors]
    /\ AllTab \notin Vendors
    /\ Sites \subseteq [scan : Seq(Entries), vendors : SUBSET Vendors]
    /\ \A s \in Sites : IsInjective(s.scan)
    /\ EntryConcurrency \in Nat \ {0}
    /\ MaxRetries \in Nat
    /\ CardStates \subseteq {"fresh", "stale", "missing"}
    /\ AskedStates \subseteq {"fresh", "stale", "missing"}
    /\ MaxClicks \in Nat /\ MaxEdits \in Nat

VARIABLES site,      \* the server: its sorted entries and its vendors
          tabs,      \* the vendor tabs on the screen
          tab,       \* currentTab
          page,      \* the page number
          total,     \* how many entries the tab has, for the pager
          grid,      \* the cards on the screen; <<>> stands for placeholders
          load,      \* the page load under way ("busy"), or NoLoad
          queue,     \* entryQueue
          net,       \* the lazy requests under way (entryInflight)
          retry,     \* entryRetry
          url,       \* the v= and p= of the address bar
          clicks,    \* what the user did so far
          edits      \* how often the server's list changed

vars == <<site, tabs, tab, page, total, grid, load, queue, net, retry, url,
          clicks, edits>>

Tabs  == Vendors \cup {AllTab}
Pages == 1 .. PageCount(Cardinality(Entries), DefaultPageSize)
Keys  == [idx : 0 .. DefaultPageSize - 1, page : Pages, tab : Tabs]

Card(e, state) == [entry |-> e, state |-> state]

NoLoad == [busy |-> FALSE]
NoCard == [entry |-> "none", state |-> "none"]
-----------------------------------------------------------------------------
(* The server                                                              *)

\* The entries of a tab, in display order.
Filtered ==
    [s \in Sites |-> [tb \in Tabs |->
        Only(s.scan, {e \in Entries : tb \in {AllTab, VendorOf[e]}})]]

\* The ones on one of its pages.
View ==
    [s \in Sites |-> [tb \in Tabs |-> [pg \in Pages |->
        LET all    == Filtered[s][tb]
            window == PageWindow(Len(all), DefaultPageSize, pg)
        IN  SubSeq(all, window.start + 1, window.end)]]]

\* The grids a page may be served with: every card has some quota or none.
GridsOf(s, tb, pg) ==
    LET view == View[s][tb][pg]
    IN  {[i \in DOMAIN view |-> Card(view[i], states[i])] :
            states \in [DOMAIN view -> CardStates]}

\* The answers to a page load.
AnswersOf(s, tb, pg) ==
    LET n == Len(Filtered[s][tb])
    IN  {[tabs  |-> s.vendors, page |-> ClampPage(n, DefaultPageSize, pg),
          total |-> n, cards |-> cards] : cards \in GridsOf(s, tb, pg)}

\* The answers to a lazy request: the card at the index, if there is one.
CardsOf(s, tb, pg, idx) ==
    LET view == View[s][tb][pg]
    IN  IF idx < Len(view) THEN {Card(view[idx + 1], st) : st \in AskedStates}
        ELSE {NoCard}
-----------------------------------------------------------------------------
(* The lazy loader                                                         *)

Key(idx, pg, tb) == [idx |-> idx, page |-> pg, tab |-> tb]

Inflight(requests) == {r.key : r \in requests}

\* A lazy request asks for the index in its key, but on the page and the tab
\* that are current when it is sent; "from" are the lists the server has had
\* since then.
Request(k, pg, tb) == [key |-> k, page |-> pg, tab |-> tb, from |-> {site}]

\* The requests under way after the first n keys were taken off the queue; a
\* key that is under way already is dropped.
Started(n, keys, requests, pg, tb) ==
    requests \cup {Request(k, pg, tb) :
                     k \in {keys[i] : i \in 1 .. n} \ Inflight(requests)}

\* pumpEntryLoaders: take keys off the queue until it is empty or the limit
\* is reached.
Pump(keys, requests, pg, tb) ==
    LET Stop(n) == \/ n = Len(keys)
                   \/ Cardinality(Started(n, keys, requests, pg, tb)) >= EntryConcurrency
        taken == CHOOSE n \in 0 .. Len(keys) :
                    Stop(n) /\ \A m \in 0 .. n - 1 : ~ Stop(m)
    IN  [queue |-> SubSeq(keys, taken + 1, Len(keys)),
         net   |-> Started(taken, keys, requests, pg, tb)]

\* The keys of the cards on the screen.
KeysOf(cards, pg, tb) == [i \in DOMAIN cards |-> Key(i - 1, pg, tb)]

\* The keys of the cards that have no fresh quota and have not failed.
Lazy(cards, pg, tb) ==
    {KeysOf(cards, pg, tb)[i] :
        i \in {j \in DOMAIN cards : cards[j].state \notin {"fresh", "err"}}}

\* Slip: cards under way are collected again.
CollectAgain(cards, requests, pg, tb) ==
    Only(KeysOf(cards, pg, tb), Lazy(cards, pg, tb))

\* Slip: a card under way is told by its index alone.
CollectByIndex(cards, requests, pg, tb) ==
    Only(KeysOf(cards, pg, tb),
         {k \in Lazy(cards, pg, tb) : k.idx \notin {q.idx : q \in Inflight(requests)}})

\* collectLazyEntries: of those, the ones that are not under way.
Collect(cards, requests, pg, tb) ==
    Only(KeysOf(cards, pg, tb), Lazy(cards, pg, tb) \ Inflight(requests))

\* Both set the loader's state to what pumping leaves.
Load(pumped) == queue' = pumped.queue /\ net' = pumped.net
-----------------------------------------------------------------------------
NoRetries == [k \in Keys |-> 0]

Init ==
    /\ site \in Sites
    /\ tabs = site.vendors
    /\ tab = AllTab /\ page = 1
    /\ total = Len(site.scan)
    /\ grid \in GridsOf(site, AllTab, 1)
    /\ load = NoLoad
    /\ url = [tab |-> AllTab, page |-> 1]
    /\ LET pumped == Pump(Collect(grid, {}, 1, AllTab), {}, 1, AllTab)
       IN  queue = pumped.queue /\ net = pumped.net
    /\ retry = NoRetries
    /\ clicks = 0
    /\ edits = 0

Click(control) == /\ control \in Controls
                  /\ clicks < MaxClicks
                  /\ clicks' = clicks + 1

\* loadPage: keep what is on the screen, then show placeholders.
LoadPage(tb, pg, force) ==
    /\ load' = [busy |-> TRUE, page |-> pg, force |-> force, from |-> {site},
                backup |-> [tabs |-> tabs, grid |-> grid, tab |-> tb,
                            page |-> page]]
    /\ grid' = <<>>
    /\ UNCHANGED <<site, tabs, page, total, queue, net, retry, url, edits>>

\* onTab: the tab is set before the load begins.
ClickTab(id) ==
    /\ Click("tab")
    /\ ~ load.busy
    /\ id \in (tabs \cup {AllTab}) \ {tab}
    /\ tab' = id
    /\ LoadPage(id, 1, FALSE)

ClickPage(n) ==
    /\ Click("page")
    /\ ~ load.busy
    /\ n \in OfferedPages(total, DefaultPageSize, page)
    /\ LoadPage(tab, n, FALSE)
    /\ UNCHANGED tab

ClickRefresh ==
    /\ Click("refresh")
    /\ ~ load.busy
    /\ LoadPage(tab, page, TRUE)
    /\ UNCHANGED tab

\* Slip: the address bar is set to the page before.
ShowPageNoSync(answer) ==
    LET tb == IF tab \in answer.tabs THEN tab ELSE AllTab
    IN  /\ tabs' = answer.tabs
        /\ tab' = tb
        /\ page' = answer.page
        /\ total' = answer.total
        /\ grid' = answer.cards
        /\ url' = [tab |-> tb, page |-> page]
        /\ Load(Pump(Collect(answer.cards, net, answer.page, tb), net,
                     answer.page, tb))
        /\ load' = NoLoad
        /\ UNCHANGED <<site, retry, clicks, edits>>

\* renderFragments, syncURL, finish.  A tab that is gone becomes "all", with
\* the cards that were asked for.
ShowPage(answer) ==
    LET tb == IF tab \in answer.tabs THEN tab ELSE AllTab
    IN  /\ tabs' = answer.tabs
        /\ tab' = tb
        /\ page' = answer.page
        /\ total' = answer.total
        /\ grid' = answer.cards
        /\ url' = [tab |-> tb, page |-> answer.page]
        /\ Load(Pump(Collect(answer.cards, net, answer.page, tb), net,
                     answer.page, tb))
        /\ load' = NoLoad
        /\ UNCHANGED <<site, retry, clicks, edits>>

\* The page arrives.
LoadOK ==
    /\ load.busy
    /\ \E s \in load.from : \E answer \in AnswersOf(s, tab, load.page) :
          /\ load.force =>
                \A i \in DOMAIN answer.cards : answer.cards[i].state \in AskedStates
          /\ ShowPage(answer)

\* Slip: finish is not called when the load fails.
LoadFailBusy ==
    /\ load.busy
    /\ "load" \in Faults
    /\ tabs' = load.backup.tabs
    /\ tab' = load.backup.tab
    /\ page' = load.backup.page
    /\ grid' = load.backup.grid
    /\ load' = [load EXCEPT !.from = {}]
    /\ UNCHANGED <<site, total, queue, net, retry, url, clicks, edits>>

\* The load fails or is aborted after 120 seconds: restore.
LoadFail ==
    /\ load.busy
    /\ "load" \in Faults
    /\ tabs' = load.backup.tabs
    /\ tab' = load.backup.tab
    /\ page' = load.backup.page
    /\ grid' = load.backup.grid
    /\ load' = NoLoad
    /\ UNCHANGED <<site, total, queue, net, retry, url, clicks, edits>>

\* Slip: the key is not compared with the view.
SwappedAnyView(k, card) ==
    IF card # NoCard /\ k.idx + 1 \in DOMAIN grid
    THEN [grid EXCEPT ![k.idx + 1] = card]
    ELSE grid

\* swapEntry: replace the card at the index, if the view is the key's and
\* the card is there.
Swapped(k, card) ==
    IF /\ card # NoCard
       /\ k = Key(k.idx, page, tab)
       /\ k.idx + 1 \in DOMAIN grid
    THEN [grid EXCEPT ![k.idx + 1] = card]
    ELSE grid

\* markEntryFailed: the card at the index shows the failure, if it had no
\* quota.
MarkedFailed(idx) ==
    IF idx + 1 \in DOMAIN grid /\ grid[idx + 1].state = "missing"
    THEN [grid EXCEPT ![idx + 1].state = "err"]
    ELSE grid

\* Slip: the next card is not started when one has come.
ShowEntryNoPump(r, card) ==
    /\ grid' = Swapped(r.key, card)
    /\ retry' = [retry EXCEPT ![r.key] = 0]
    /\ net' = net \ {r}
    /\ UNCHANGED <<site, tabs, tab, page, total, load, queue, url, clicks, edits>>

\* The card replaces its place holder, and the next one is fetched.
ShowEntry(r, card) ==
    /\ grid' = Swapped(r.key, card)
    /\ retry' = [retry EXCEPT ![r.key] = 0]
    /\ Load(Pump(queue, net \ {r}, page, tab))
    /\ UNCHANGED <<site, tabs, tab, page, total, load, url, clicks, edits>>

\* A lazy request is answered.
EntryOK(r) ==
    \E s \in r.from : \E card \in CardsOf(s, r.tab, r.page, r.key.idx) :
        ShowEntry(r, card)

\* Slip: retries are counted, and never end.
EntryFailForever(r) ==
    /\ "entry" \in Faults
    /\ retry' = [retry EXCEPT ![r.key] = IF @ < MaxRetries THEN @ + 1 ELSE @]
    /\ Load(Pump(Append(queue, r.key), net \ {r}, page, tab))
    /\ UNCHANGED <<site, tabs, tab, page, total, grid, load, url, clicks, edits>>

\* Slip: the retry is counted after it is compared.
EntryFailLate(r) ==
    LET again == retry[r.key] <= MaxRetries
    IN  /\ "entry" \in Faults
        /\ retry' = [retry EXCEPT ![r.key] = IF again THEN @ + 1 ELSE 0]
        /\ grid' = IF again THEN grid ELSE MarkedFailed(r.key.idx)
        /\ Load(Pump(IF again THEN Append(queue, r.key) ELSE queue,
                     net \ {r}, page, tab))
        /\ UNCHANGED <<site, tabs, tab, page, total, load, url, clicks, edits>>

\* Slip: when the retries are used up, the card is left as it is.
EntryFailSilent(r) ==
    LET again == retry[r.key] + 1 <= MaxRetries
    IN  /\ "entry" \in Faults
        /\ retry' = [retry EXCEPT ![r.key] = IF again THEN @ + 1 ELSE 0]
        /\ Load(Pump(IF again THEN Append(queue, r.key) ELSE queue,
                     net \ {r}, page, tab))
        /\ UNCHANGED <<site, tabs, tab, page, total, grid, load, url, clicks, edits>>

\* A lazy request fails or is aborted after 30 seconds: repeat it a few
\* times, then show the failure.  (The code also pumps 1.2 seconds later;
\* WorkConserving says why that finds nothing to do.)
EntryFail(r) ==
    LET again == retry[r.key] + 1 <= MaxRetries
    IN  /\ "entry" \in Faults
        /\ retry' = [retry EXCEPT ![r.key] = IF again THEN @ + 1 ELSE 0]
        /\ grid' = IF again THEN grid ELSE MarkedFailed(r.key.idx)
        /\ Load(Pump(IF again THEN Append(queue, r.key) ELSE queue,
                     net \ {r}, page, tab))
        /\ UNCHANGED <<site, tabs, tab, page, total, load, url, clicks, edits>>

\* The user reloads the document: the server renders the page of the address
\* bar, and the script starts anew (without asking whether the tab exists).
Reload ==
    /\ Click("reload")
    /\ \E answer \in AnswersOf(site, url.tab, url.page) :
          /\ tabs' = answer.tabs
          /\ page' = answer.page
          /\ total' = answer.total
          /\ grid' = answer.cards
          /\ Load(Pump(Collect(answer.cards, {}, answer.page, url.tab), {},
                       answer.page, url.tab))
    /\ tab' = url.tab
    /\ load' = NoLoad
    /\ retry' = NoRetries
    /\ UNCHANGED <<site, url, edits>>

\* The host's config changes, and with it what the server lists.
EditSite ==
    /\ edits < MaxEdits
    /\ edits' = edits + 1
    /\ \E s \in Sites \ {site} :
          /\ site' = s
          /\ net' = {[r EXCEPT !.from = @ \cup {s}] : r \in net}
          /\ load' = IF load.busy THEN [load EXCEPT !.from = @ \cup {s}] ELSE load
    /\ UNCHANGED <<tabs, tab, page, total, grid, queue, retry, url, clicks>>

Next ==
    \/ \E id \in Tabs : ClickTab(id)
    \/ \E n \in Pages : ClickPage(n)
    \/ ClickRefresh \/ Reload
    \/ LoadOK \/ LoadFail
    \/ \E r \in net : EntryOK(r) \/ EntryFail(r)
    \/ EditSite

Spec == Init /\ [][Next]_vars

\* Every request ends: it is answered, fails, or its AbortController aborts
\* it after 120 (page) or 30 (card) seconds.  For the lazy requests it is
\* enough that while some are under way, one of them ends.
FairSpec ==
    /\ Spec
    /\ WF_vars(LoadOK \/ LoadFail)
    /\ WF_vars(\E r \in net : EntryOK(r) \/ EntryFail(r))
-----------------------------------------------------------------------------
(* Properties                                                              *)

Cards == [entry : Entries, state : {"fresh", "stale", "missing", "err"}]
Grids == {g \in Seq(Cards) : Len(g) <= DefaultPageSize}

Loads == [busy : {TRUE}, page : Pages, force : BOOLEAN, from : SUBSET Sites,
          backup : [tabs : SUBSET Vendors, grid : Grids, tab : Tabs, page : Pages]]

LazyRequests == [key : Keys, page : Pages, tab : Tabs, from : SUBSET Sites]

\* Every variable has its type.
TypeOK ==
    /\ site \in Sites
    /\ tabs \subseteq Vendors
    /\ tab \in Tabs /\ page \in Pages
    /\ total \in 0 .. Cardinality(Entries)
    /\ grid \in Grids
    /\ load \in {NoLoad} \cup Loads
    /\ queue \in Seq(Keys)
    /\ net \subseteq LazyRequests
    /\ retry \in [Keys -> 0 .. MaxRetries]
    /\ url \in [tab : Tabs, page : Pages]
    /\ clicks \in 0 .. MaxClicks /\ edits \in 0 .. MaxEdits

\* A key is under way once, and is not waiting as well: no card is fetched
\* twice at the same time, however pages are switched while requests are out
\* (collectLazyEntries, pumpEntryLoaders, fetchEntry).
NothingTwice ==
    /\ \A q, r \in net : q.key = r.key => q = r
    /\ \A i, j \in DOMAIN queue : queue[i] = queue[j] => i = j
    /\ \A i \in DOMAIN queue : queue[i] \notin Inflight(net)

\* The loader keeps to its limit, and never waits while there is room: what
\* is queued is waiting for one of EntryConcurrency requests to end
\* (pumpEntryLoaders and everyone who has to call it).
WorkConserving ==
    /\ Cardinality(net) <= EntryConcurrency
    /\ queue # <<>> => Cardinality(net) = EntryConcurrency

KeyAt(i) == Key(i - 1, page, tab)

Pending(i) == KeyAt(i) \in Inflight(net) \cup ToSet(queue)

\* The card at an index is the one the current view has there: an answer
\* never lands on another card ("the key carries page/tab so that an old
\* answer does not land on another card once the view was switched").
SlotIdentity ==
    ~ load.busy =>
        LET view == View[site][tab][page]
        IN  \A i \in DOMAIN grid : i \in DOMAIN view /\ grid[i].entry = view[i]

\* No card shimmers with nobody about to fill it: a card without a quota is
\* waiting, under way, or marked as failed (collectLazyEntries,
\* fetchEntry: "mark the card failed instead of shimmering forever").
NoOrphanSkeleton ==
    ~ load.busy =>
        \A i \in DOMAIN grid : grid[i].state = "missing" => Pending(i)

\* A reload shows the view the user is looking at (syncURL).
ReloadSameView == ~ load.busy => url = [tab |-> tab, page |-> page]

\* A failed load puts back what was on the screen before, the tab as well
\* ("the previous content was restored").
RestoreRestoresTab ==
    [][load.busy /\ ~ load'.busy /\ grid' = load.backup.grid =>
          \A i \in DOMAIN grid' : tab' \in {AllTab, VendorOf[grid'[i].entry]}]_vars

\* A card is shown as failed only when a request of its own has failed.
FailedOnlyByOwn ==
    [][\A i \in DOMAIN grid \cap DOMAIN grid' :
          grid[i].state = "missing" /\ grid'[i].state = "err" =>
             KeyAt(i) \in Inflight(net)]_vars

\* The controls come back: no load keeps the dashboard busy for ever.
BusyEnds == load.busy ~> ~ load.busy

\* Once the user is done, the loader comes to rest: retries end.
ComesToRest == <>[](net = {} /\ queue = <<>>)

\* Once the user is done, every card ends up with a quota or a failure.
EventuallySettled ==
    <>[](~ load.busy /\ \A i \in DOMAIN grid : grid[i].state # "missing")
-----------------------------------------------------------------------------
(* What the properties rest on: invariants that every step preserves       *)

IInv == TypeOK /\ IsFiniteSet(net) /\ NothingTwice /\ WorkConserving

\* The user pages, refreshes and reloads; no tab is clicked, no lazy request
\* fails and the server's list stays as it is.
Steady == "tab" \notin Controls /\ "entry" \notin Faults /\ MaxEdits = 0

\* Nothing disturbs him at all: the page loads succeed as well, and a quota
\* that was asked for is there (PanelServer!AnswerFilled).
Undisturbed == Steady /\ Faults = {} /\ "missing" \notin AskedStates

\* The cards of a grid are those of a view, in their places.
Shows(g, view) == /\ DOMAIN g = DOMAIN view
                  /\ \A i \in DOMAIN g : g[i].entry = view[i]

\* In a steady dashboard, what is on the screen or kept to be put back, in the
\* address bar, on the queue and under way speaks of one and the same view.
OneView ==
    /\ tab = AllTab /\ url = [tab |-> tab, page |-> page]
    /\ page = ClampPage(Len(Filtered[site][tab]), DefaultPageSize, page)
    /\ IF load.busy
       THEN /\ grid = <<>> /\ load.from = {site}
            /\ load.backup.tab = tab /\ load.backup.page = page
            /\ Shows(load.backup.grid, View[site][tab][page])
       ELSE Shows(grid, View[site][tab][page])
    /\ \A r \in net : r.from = {site} /\ r.page = r.key.page /\ r.tab = r.key.tab
    /\ \A i \in DOMAIN queue : queue[i].page = page /\ queue[i].tab = tab
=============================================================================
