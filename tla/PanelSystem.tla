----------------------------- MODULE PanelSystem ----------------------------
(***************************************************************************)
(* The panel as a whole: one browser tab with the dashboard's script       *)
(* (Dashboard) and the plugin that answers it (PanelServer), joined by     *)
(* HTTP.                                                                   *)
(*                                                                         *)
(* What Dashboard takes for granted about answers is here computed by the  *)
(* server's threads, one critical section after the other, while the       *)
(* dashboard goes on.  What PanelServer leaves to its clients is here      *)
(* asked by the dashboard: a page, a forced page, one card of a page.      *)
(* A request that the dashboard gives up after 30 seconds goes on in the   *)
(* server, next to the one that repeats it.                                *)
(*                                                                         *)
(* The panel has been opened, with some quotas cached.  The host's file is *)
(* left alone, and the clock stands still; the host may hand the same      *)
(* configuration over once more, or unload the plugin, in the middle of    *)
(* anything.                                                               *)
(***************************************************************************)
EXTENDS Paging, FiniteSets, Sequences, SequencesExt

CONSTANTS Entries, Vendors, VendorOf, DisplayRank, AllTab,
          Threads, Requests, Configs, Files, ScanTTL, NoResult,
          MaxRuntimes, MaxTime,
          OpenedAt,     \* the second in which the panel is opened
          CachedAt,     \* when the quotas that are cached then were fetched
          Sites, EntryConcurrency, MaxRetries, Controls, Faults, MaxClicks,
          MaxEvents     \* bound: what user and host may do, and time-outs

VARIABLES now, file, edited, overtaken, scan, active, built, rts,
          call,      \* PanelServer, up to here
          tabs, tab, page, total, grid, load, queue, net, retry, url,
          clicks,    \* Dashboard, up to here
          serving,   \* whom a thread of the server is working for
          strayed,   \* history: has a lazy request gone out for another page
                     \* or tab than its card's?
          events     \* what user and host did and how often time ran out

server  == <<now, file, edited, overtaken, scan, active, built, rts, call>>
browser == <<tabs, tab, page, total, grid, load, queue, net, retry, url, clicks>>
vars    == <<server, browser, serving, strayed, events>>

S == INSTANCE PanelServer WITH AnyVendor <- AllTab

\* The entries of a runtime, in display order.
Sorted(entries) ==
    [i \in 1 .. Cardinality(entries) |->
        CHOOSE e \in entries : S!Position(e, entries) = i - 1]

\* What the server lists, as the dashboard sees it.
Site == [scan |-> Sorted(rts[built].entries), vendors |-> rts[built].vendors]

States == {"fresh", "stale", "missing"}

D == INSTANCE Dashboard WITH
        site <- Site, edits <- 0, MaxEdits <- 0,
        CardStates <- States, AskedStates <- States

ASSUME ServerAssumption ==
    /\ S!EntriesAssumption /\ S!RequestsAssumption /\ S!ConfigsAssumption
    /\ S!BoundsAssumption /\ S!NoResultAssumption

ASSUME BrowserAssumption == D!DashboardAssumption

ASSUME OpeningAssumption ==
    /\ MaxRuntimes >= 1
    /\ MaxEvents \in Nat
    /\ OpenedAt \in S!Times
    /\ \A e \in DOMAIN CachedAt : CachedAt[e] \in S!Times
-----------------------------------------------------------------------------
(* Requests and answers                                                    *)

NoKey == [idx |-> 0, page |-> 0, tab |-> AllTab]

\* Nobody; the page load; the lazy request for a key; a client that gave up.
Client(kind, key) == [kind |-> kind, key |-> key, page |-> 0, total |-> 0, at |-> 0]
Nobody   == Client("nobody", NoKey)
Loader   == Client("load", NoKey)
Gone     == Client("gone", NoKey)
ForKey(k) == Client("entry", k)

IsServed(kind, key) ==
    \E t \in Threads : serving[t].kind = kind /\ serving[t].key = key

\* Slip: the refresh parameter is left out.
TargetUnforced(tb, pg, idx, force) ==
    [path |-> "status", vendor |-> tb, page |-> pg, size |-> DefaultPageSize,
     idx |-> idx, force |-> FALSE]

\* buildTarget: the page size is the dashboard's own.
Target(tb, pg, idx, force) ==
    [path |-> "status", vendor |-> tb, page |-> pg, size |-> DefaultPageSize,
     idx |-> idx, force |-> force]

\* buildPageData and renderEntry: the state of a card.
StateOf(quota, ttl, at) == CASE quota = NoResult -> "missing"
                             [] quota # NoResult ->
                                  IF at - quota.fetchedAt <= ttl THEN "fresh" ELSE "stale"

CardOf(t, e) ==
    D!Card(e, StateOf(call[t].cards[e], rts[call[t].rt].ttl, serving[t].at))

\* buildPageFragments: what a response tells the dashboard.
PageAnswer(t) ==
    LET view == Sorted(call[t].view)
    IN  [tabs |-> rts[call[t].rt].vendors, page |-> serving[t].page,
         total |-> serving[t].total,
         cards |-> [i \in DOMAIN view |-> CardOf(t, view[i])]]

\* Slip: the card of the answer is counted from 1.
EntryAnswerNext(t) ==
    LET cards == PageAnswer(t).cards
        idx   == call[t].req.idx
    IN  IF idx >= 1 /\ idx <= Len(cards) THEN cards[idx] ELSE D!NoCard

\* renderEntryHTML: the card at the index asked for, if there is one.
EntryAnswer(t) ==
    LET cards == PageAnswer(t).cards
        idx   == call[t].req.idx
    IN  IF idx >= 0 /\ idx < Len(cards) THEN cards[idx + 1] ELSE D!NoCard
-----------------------------------------------------------------------------
Init ==
    /\ now = OpenedAt /\ edited = 0 /\ overtaken = 0
    /\ scan = S!NoScan
    /\ file \in Files
    /\ active = 1 /\ built = 1
    /\ \E cfg \in Configs :
          rts = [r \in 1 .. MaxRuntimes |->
                    IF r = 1
                    THEN [ttl |-> cfg.ttl, vendors |-> cfg.vendors,
                          entries |-> S!Matching(file, cfg.vendors),
                          configError |-> ~ file.readable, lastScan |-> OpenedAt,
                          quota |-> [e \in Entries |->
                             IF e \in DOMAIN CachedAt
                             THEN [key |-> e, gen |-> 1, fetchedAt |-> CachedAt[e]]
                             ELSE NoResult]]
                    ELSE [ttl |-> 0, vendors |-> {}, entries |-> {},
                          configError |-> FALSE, lastScan |-> 0,
                          quota |-> S!NoQuota]]
    /\ call = [t \in Threads |-> S!IdleCall]
    /\ serving = [t \in Threads |-> Nobody]
    /\ strayed = FALSE
    /\ events = 0
    /\ D!Init
    /\ \A i \in DOMAIN grid :
          grid[i].state = StateOf(rts[1].quota[grid[i].entry], rts[1].ttl, now)

\* A request reaches a thread of the server.
ArriveLoad(t) ==
    /\ load.busy /\ ~ IsServed("load", NoKey)
    /\ S!Receive(t)
    /\ call'[t].req = Target(tab, load.page, -1, load.force)
    /\ serving' = [serving EXCEPT ![t] = Loader]
    /\ UNCHANGED browser

ArriveEntry(t) ==
    \E r \in net :
        /\ ~ IsServed("entry", r.key)
        /\ S!Receive(t)
        /\ call'[t].req = Target(r.tab, r.page, r.key.idx, FALSE)
        /\ serving' = [serving EXCEPT ![t] = ForKey(r.key)]
        /\ UNCHANGED browser

\* The server works on a request.  What the page is called and how many
\* entries the tab has is decided where the page is selected, how old the
\* quotas are where it is built.
Work(t) ==
    /\ \/ S!RescanHostConfig(t) \/ S!StampScan(t)
       \/ S!SelectPageView(t) \/ S!RefreshBegin(t) \/ S!CheckFresh(t)
       \/ S!FetchOneQuota(t) \/ S!StoreQuota(t)
       \/ S!BuildPageData(t)
    /\ serving' =
         CASE call[t].pc = "select" ->
                LET listed == Len(D!Filtered[Site][call[t].req.vendor])
                IN  [serving EXCEPT
                        ![t].total = listed,
                        ![t].page = PageWindow(listed, DefaultPageSize,
                                               call[t].req.page).page]
           [] call'[t].pc = "page" -> [serving EXCEPT ![t].at = now]
           [] OTHER -> serving
    /\ UNCHANGED browser

Free(t) == serving' = [serving EXCEPT ![t] = Nobody]

\* A response arrives.
AnswerLoad(t) ==
    /\ serving[t].kind = "load" /\ call[t].pc = "page"
    /\ S!Respond(t) /\ Free(t)
    /\ D!ShowPage(PageAnswer(t))

AnswerEntry(t) ==
    /\ serving[t].kind = "entry" /\ call[t].pc = "page"
    /\ S!Respond(t) /\ Free(t)
    /\ \E r \in net : r.key = serving[t].key /\ D!ShowEntry(r, EntryAnswer(t))

\* There is no runtime any more: status 503, which is a failure to either.
Unavailable(t) ==
    /\ call[t].pc = "unavailable"
    /\ S!Respond(t) /\ Free(t)
    /\ \/ serving[t].kind = "load" /\ D!LoadFail
       \/ /\ serving[t].kind = "entry"
          /\ \E r \in net : r.key = serving[t].key /\ D!EntryFail(r)

\* Nobody waits for the response any more.
AnswerGone(t) ==
    /\ serving[t].kind = "gone"
    /\ S!Respond(t) /\ Free(t)
    /\ UNCHANGED browser

\* 30 seconds are over: the lazy request is given up, the thread goes on.
GiveUp ==
    /\ UNCHANGED server
    /\ \E r \in net :
          /\ D!EntryFail(r)
          /\ serving' = [t \in Threads |-> IF serving[t] # Nobody
                                              /\ serving[t].kind = "entry"
                                              /\ serving[t].key = r.key
                                           THEN Gone ELSE serving[t]]

User == /\ UNCHANGED <<server, serving>>
        /\ \/ D!ClickRefresh
           \/ \E n \in D!Pages : D!ClickPage(n)
           \/ \E id \in D!Tabs : D!ClickTab(id)

\* Nobody has reconfigured or unloaded the plugin since the panel was opened.
Undisturbed == built = 1 /\ active = 1

\* The host reconfigures or unloads the plugin (bound: one of them, once).
Host == /\ Undisturbed
        /\ S!Configure \/ S!Shutdown
        /\ UNCHANGED <<browser, serving>>

\* A reconfigure comes to its end.
Reconfigured == S!Install /\ UNCHANGED <<browser, serving>>

Arrive(t) == ArriveLoad(t) \/ ArriveEntry(t)

Serve(t) ==
    \/ Work(t)
    \/ AnswerLoad(t) \/ AnswerEntry(t) \/ Unavailable(t) \/ AnswerGone(t)

\* A lazy request asks for its card under another page or tab than the card's:
\* entryTarget takes what the user looks at when the request goes out, the key
\* what they looked at when the card was queued.
Astray(r) == r.page # r.key.page \/ r.tab # r.key.tab

Noted == strayed' = (strayed \/ \E r \in net' : Astray(r))

\* What goes on by itself.
Progress == /\ Reconfigured \/ \E t \in Threads : Arrive(t) \/ Serve(t)
            /\ Noted
            /\ UNCHANGED events

\* What may happen to it, or not.
Event == /\ events < MaxEvents
         /\ GiveUp \/ User \/ Host
         /\ Noted
         /\ events' = events + 1

Next == Progress \/ Event

Spec == Init /\ [][Next]_vars

\* While requests are on their way or worked on, one of them gets ahead: Go
\* schedules every goroutine, rtMu lets no waiter starve, and host.http.do
\* returns.  (Of what the user and the host do, nothing is taken for granted.)
FairSpec == Spec /\ WF_vars(Progress)
-----------------------------------------------------------------------------
(* Properties                                                              *)

\* The server answers as the dashboard's model takes for granted: an index
\* addresses the card it was given to, a page is the page that was asked for,
\* with the total that belongs to it, whatever other requests, a reconfigure
\* or the clock do in between (handleManagement and dashboardJS).
ImplementsDashboard == D!Spec

\* No card shimmers with nobody about to fill it, while the plugin is left
\* alone and no lazy request has gone astray: the server never sends a card
\* back empty that the loader asked for (storeQuota, buildPageData, swapEntry).
\* It does after a reconfigure, since storeQuota then drops what was fetched,
\* and nobody asks again; and a stray request may get an answer without the
\* card, and meanwhile keeps the loader from asking again (dashboardJS).
NoOrphanWhileUndisturbed == Undisturbed /\ ~ strayed => D!NoOrphanSkeleton

\* The refresh button brings every card a quota, although lazy requests for
\* the same cards are worked on beside it (refreshQuota, renderFragments).
RefreshFills ==
    [][load.busy /\ load.force /\ ~ load'.busy /\ Undisturbed =>
          \A i \in DOMAIN grid' : grid'[i].state # "missing"]_vars

\* Every request of the dashboard ends and every card comes to show a quota
\* or a failure, while the plugin is left alone and no lazy request has gone
\* astray; busy ends whatever happens.
EventuallySettled ==
    <>[](/\ ~ load.busy
         /\ Undisturbed /\ ~ strayed =>
               \A i \in DOMAIN grid : grid[i].state # "missing")
-----------------------------------------------------------------------------
(* What the properties rest on: an invariant that every step preserves     *)

\* The host has configurations for the same vendors only.
OneSetup == \A c, d \in Configs : c.vendors = d.vendors

\* Every runtime lists what the file lists for these vendors, and so does the
\* scan that is under way.
ListedInv ==
    /\ built >= 1
    /\ \E cfg \in Configs :
          /\ \A r \in 1 .. built :
                /\ rts[r].vendors = cfg.vendors
                /\ rts[r].entries = S!Matching(file, cfg.vendors)
          /\ scan.rt # 0 =>
                /\ rts[scan.rt].vendors = cfg.vendors
                /\ scan.entries = S!Matching(file, cfg.vendors)

Clients == [kind : {"nobody", "load", "entry", "gone"},
            key : D!Keys \cup {NoKey}, page : Int, total : Nat, at : Int]

\* Somebody in the browser waits for the answer.
Awaited(t) == serving[t].kind \in {"load", "entry"}

\* A thread that works for the page load or a lazy request has the request
\* that was made ...
HasRequest(t) ==
    /\ serving[t].kind = "load" =>
          /\ load.busy /\ serving[t].key = NoKey
          /\ call[t].req = Target(tab, load.page, -1, load.force)
    /\ serving[t].kind = "entry" =>
          \E r \in net :
             /\ r.key = serving[t].key
             /\ call[t].req = Target(r.tab, r.page, r.key.idx, FALSE)

\* ... it is the only one that does ...
IsAlone(t) ==
    Awaited(t) =>
        \A u \in Threads : serving[u].kind = serving[t].kind
                           /\ serving[u].key = serving[t].key => u = t

\* ... and once it has selected a page, it is the one that was asked for.
HasPage(t) ==
    Awaited(t) /\ S!Viewed(call[t]) =>
        LET req    == call[t].req
            listed == Len(D!Filtered[Site][req.vendor])
        IN  /\ call[t].view = S!PageOf(rts[call[t].rt].entries, req)
            /\ serving[t].total = listed
            /\ serving[t].page = PageWindow(listed, DefaultPageSize, req.page).page

ServingInv ==
    /\ serving \in [Threads -> Clients]
    /\ \A t \in Threads : HasRequest(t) /\ IsAlone(t) /\ HasPage(t)

\* The server's list stays the one that the dashboard asked.
FromInv ==
    /\ load.busy => load.from = {Site}
    /\ \A r \in net : r.from = {Site}

IInv == S!IInv /\ D!IInv /\ ListedInv /\ ServingInv /\ FromInv
=============================================================================
