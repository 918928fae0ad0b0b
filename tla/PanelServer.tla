----------------------------- MODULE PanelServer ----------------------------
(***************************************************************************)
(* The plugin's shared state and the calls that work on it.                *)
(*                                                                         *)
(* Every management request (GET .../status) runs handleManagement in a    *)
(* thread of the host.  It picks the active runtime up once, without       *)
(* holding on to the lock, and then takes rtMu for one short step after    *)
(* another: rescan the host's config file, select the page, look at the    *)
(* cache, store each fetched quota, build the page.  Between two steps     *)
(* anything may happen: other requests, a reconfigure that replaces the    *)
(* runtime, an unload, an edit of the file, the passing of time.  One      *)
(* action below is one critical section (or one call of the host), so a    *)
(* behaviour of this module is an interleaving the lock permits.  Only a   *)
(* scan is two actions: it reads the file first and the clock afterwards,  *)
(* and rtMu, which it holds meanwhile, stops neither an editor nor time.   *)
(*                                                                         *)
(* A runtime is named by the position at which configure built it; 0       *)
(* stands for the nil pointer.  Retired runtimes stay, because requests    *)
(* that picked them up go on using them.                                   *)
(***************************************************************************)
EXTENDS Paging, FiniteSets

CONSTANTS Threads,      \* host threads that may call the plugin at once
          Entries,      \* the (vendor, key) pairs the host config may list
          Vendors,      \* vendor ids
          VendorOf,     \* the vendor of an entry
          DisplayRank,  \* the display order of entries (entryLess, stable)
          AnyVendor,    \* the empty vendor filter
          Requests,     \* the requests a client may send
          Configs,      \* the plugin configurations the host may hand over
          Files,        \* the contents the host's config file may have
          ScanTTL,      \* seconds for which a scan of the file is reused
          NoResult      \* "nothing cached"

CONSTANTS MaxRuntimes,  \* bound: how often the plugin is configured
          MaxTime       \* bound: the last second of the clock

ASSUME EntriesAssumption ==
    /\ IsFiniteSet(Entries)
    /\ VendorOf \in [Entries -> Vendors]
    /\ DisplayRank \in [Entries -> Nat]
    /\ \A d, e \in Entries : DisplayRank[d] = DisplayRank[e] => d = e
    /\ AnyVendor \notin Vendors

ASSUME RequestsAssumption ==
    /\ Requests # {}
    /\ Requests \subseteq [path : {"status", "other"},
                           vendor : Vendors \cup {AnyVendor},
                           page : Int, size : Int,
                           idx : Int, force : BOOLEAN]

ASSUME ConfigsAssumption ==
    /\ Configs \subseteq [ttl : Nat, vendors : SUBSET Vendors]
    /\ Files # {}
    /\ Files \subseteq [readable : BOOLEAN, lists : SUBSET Entries]

ASSUME BoundsAssumption ==
    /\ ScanTTL \in Nat \ {0}
    /\ MaxRuntimes \in Nat
    /\ MaxTime \in Nat \ {0}

VARIABLES now,       \* the wall clock, in unix seconds
          file,      \* the host's config file
          edited,    \* history: when the file was last edited
          overtaken, \* history: when a scan last ended that an edit had overtaken
          scan,      \* the scan that is under way, with rtMu held over it
          active,    \* the active runtime, 0 for none
          built,     \* how many runtimes were built
          rts,       \* the runtimes
          call       \* what every thread is doing

vars == <<now, file, edited, overtaken, scan, active, built, rts, call>>

Runtimes == 1 .. MaxRuntimes
Times    == 1 .. MaxTime

\* A fetched quota: the entry and the runtime it was fetched for, and when
\* the fetch began.  Whether the vendor answered or failed makes no
\* difference to what follows: an error is a result and is cached like one.
Result == [key : Entries, gen : Runtimes, fetchedAt : Times]

ASSUME NoResultAssumption == NoResult \notin Result

NoQuota == [e \in Entries |-> NoResult]

Runtime == [ttl : Nat, vendors : SUBSET Vendors,
            entries : SUBSET Entries, configError : BOOLEAN,
            lastScan : 0 .. MaxTime,
            quota : [Entries -> Result \cup {NoResult}]]

\* What a scan has read: for which runtime, which entries, and whether it
\* failed.  NoScan: nobody holds rtMu from one step to the next.
Scan   == [rt : 0 .. MaxRuntimes, entries : SUBSET Entries, failed : BOOLEAN]
NoScan == [rt |-> 0, entries |-> {}, failed |-> FALSE]

Working  == {"rescan", "stamp", "select", "refresh", "check", "fetch", "store",
             "build"}
Answered == {"page", "unavailable", "notfound"}

Call == [pc : {"idle"} \cup Working \cup Answered,
         rt : 0 .. MaxRuntimes,
         req : Requests,
         since : 0 .. MaxTime,
         beside : SUBSET (0 .. MaxTime),  \* history: see Receive
         view : SUBSET Entries,
         todo : SUBSET Entries,
         clock : 0 .. MaxTime,
         cur : Result \cup {NoResult},
         cards : [Entries -> Result \cup {NoResult}]]

IdleCall == [pc |-> "idle", rt |-> 0, req |-> CHOOSE r \in Requests : TRUE,
             since |-> 0, beside |-> {}, view |-> {}, todo |-> {}, clock |-> 0,
             cur |-> NoResult, cards |-> NoQuota]
-----------------------------------------------------------------------------
(* Operators                                                               *)

\* The entries of the file's providers that a runtime's sources match.
Matching(f, vendors) ==
    IF f.readable THEN {e \in f.lists : VendorOf[e] \in vendors} ELSE {}

\* The file as scanConfigFile reads it for runtime r.
ReadFor(r, vendors) == [rt |-> r, entries |-> Matching(file, vendors),
                        failed |-> ~ file.readable]

\* Slip: the scan is dated with the second until which it may be reused.
ScanLockedAhead(r) ==
    [r EXCEPT !.entries     = scan.entries,
              !.configError = scan.failed,
              !.lastScan    = IF scan.failed THEN r.lastScan ELSE now + ScanTTL]

\* The end of scanLocked: what was read takes effect, and is dated with the
\* clock as it is by now.  A failed scan empties the list and leaves lastScan
\* alone.
ScanLocked(r) ==
    [r EXCEPT !.entries     = scan.entries,
              !.configError = scan.failed,
              !.lastScan    = IF scan.failed THEN r.lastScan ELSE now]

\* Slip: a new runtime inherits the cache of the one it replaces.
BuildRuntimeCarryOver(cfg) ==
    [ttl |-> cfg.ttl, vendors |-> cfg.vendors, entries |-> {},
     configError |-> FALSE, lastScan |-> 0,
     quota |-> IF active = 0 THEN NoQuota ELSE rts[active].quota]

\* The runtime that configure builds, before its first scan.
BuildRuntime(cfg) ==
    [ttl |-> cfg.ttl, vendors |-> cfg.vendors, entries |-> {},
     configError |-> FALSE, lastScan |-> 0, quota |-> NoQuota]

\* The place of an entry in the display order of a set of entries, from 0.
Position(e, S) == Cardinality({d \in S : DisplayRank[d] < DisplayRank[e]})

\* The page of the filtered and sorted entries that a request asks for.
PageOf(S, req) ==
    LET filtered == {e \in S : req.vendor \in {AnyVendor, VendorOf[e]}}
        w == PageWindow(Cardinality(filtered), NormalPageSize(req.size),
                        NormalPage(req.page))
    IN  {e \in filtered : /\ w.start <= Position(e, filtered)
                          /\ Position(e, filtered) < w.end}

\* Does the request single out one card of the page (?entry-idx=N)?
SinglesOut(req, view) == req.idx >= 0 /\ req.idx < Cardinality(view)

\* The cards of the page whose quotas a request wants to be looked up.
Wanted(req, view) ==
    CASE SinglesOut(req, view) -> {e \in view : Position(e, view) = req.idx}
      [] OTHER                 -> IF req.force THEN view ELSE {}

\* Slip: nothing cached, with its time of zero, passes for recent.
IsFreshWhenAbsent(r, e, clock) ==
    r.quota[e] # NoResult => clock - r.quota[e].fetchedAt <= r.ttl

\* The freshness test of refreshQuota, at the clock reading of the refresh.
IsFresh(r, e, clock) ==
    /\ r.quota[e] # NoResult
    /\ clock - r.quota[e].fetchedAt <= r.ttl
-----------------------------------------------------------------------------
Init ==
    /\ now = 1
    /\ file \in Files
    /\ edited = 0
    /\ overtaken = 0
    /\ scan = NoScan
    /\ active = 0
    /\ built = 0
    /\ rts = [r \in Runtimes |-> [ttl |-> 0, vendors |-> {}, entries |-> {},
                                  configError |-> FALSE, lastScan |-> 0,
                                  quota |-> NoQuota]]
    /\ call = [t \in Threads |-> IdleCall]

World  == <<now, file, edited>>
Lock   == <<scan, overtaken>>
Shared == <<World, Lock, active, built>>

\* rtMu is not held over a scan: whoever takes it for one step may do so.
Unlocked == scan.rt = 0

\* Without a runtime the answer is 503, for an unknown path it is 404.
FirstStep(req) == CASE active = 0          -> "unavailable"
                    [] req.path # "status" -> "notfound"
                    [] OTHER               -> "rescan"

\* The earlier seconds at which requests came in that are still worked at.
UnderWay == {call[u].since : u \in {v \in Threads : call[v].pc \in Working}}
               \ {now}

\* A request arrives; the thread picks up the runtime that is active now.
\* For the history, it notes which requests it found under way.
Receive(t) ==
    /\ call[t].pc = "idle" /\ Unlocked
    /\ \E req \in Requests :
          call' = [call EXCEPT ![t] =
              [IdleCall EXCEPT !.pc = FirstStep(req), !.rt = active,
                               !.req = req, !.since = now,
                               !.beside = UnderWay]]
    /\ UNCHANGED <<Shared, rts>>

\* Slip: a scan is reused for one second too long.
RescanHostConfigLate(t) ==
    LET r   == call[t].rt
        due == \/ call[t].req.force
               \/ rts[r].lastScan = 0
               \/ now - rts[r].lastScan > ScanTTL
    IN  /\ call[t].pc = "rescan" /\ Unlocked
        /\ scan' = IF due THEN ReadFor(r, rts[r].vendors) ELSE scan
        /\ call' = [call EXCEPT ![t] =
               [@ EXCEPT !.pc = IF due THEN "stamp" ELSE "select"]]
        /\ UNCHANGED <<World, overtaken, active, built, rts>>

\* Rescan the host's config when forced, never scanned, or stale: read the
\* file, and keep the lock.  The runtime may have been retired meanwhile: it
\* is rescanned all the same.
RescanHostConfig(t) ==
    LET r   == call[t].rt
        due == \/ call[t].req.force
               \/ rts[r].lastScan = 0
               \/ now - rts[r].lastScan >= ScanTTL
    IN  /\ call[t].pc = "rescan" /\ Unlocked
        /\ scan' = IF due THEN ReadFor(r, rts[r].vendors) ELSE scan
        /\ call' = [call EXCEPT ![t] =
               [@ EXCEPT !.pc = IF due THEN "stamp" ELSE "select"]]
        /\ UNCHANGED <<World, overtaken, active, built, rts>>

\* A scan ends, and the lock is let go.  For the history, was the file edited
\* after it had been read?
EndScan ==
    /\ rts' = [rts EXCEPT ![scan.rt] = ScanLocked(@)]
    /\ scan' = NoScan
    /\ overtaken' = IF scan.entries = Matching(file, rts[scan.rt].vendors)
                    THEN overtaken ELSE now

\* The second half of the rescan of a request.
StampScan(t) ==
    /\ call[t].pc = "stamp"
    /\ EndScan
    /\ call' = [call EXCEPT ![t] = [@ EXCEPT !.pc = "select"]]
    /\ UNCHANGED <<World, active, built>>

\* Take the snapshot of the page, and decide what has to be looked up: one
\* card, the whole page, or nothing.
SelectPageView(t) ==
    LET req  == call[t].req
        view == PageOf(rts[call[t].rt].entries, req)
    IN  /\ call[t].pc = "select" /\ Unlocked
        /\ call' = [call EXCEPT ![t] =
               [@ EXCEPT !.view = view,
                         !.todo = Wanted(req, view),
                         !.pc   = IF SinglesOut(req, view) \/ req.force
                                  THEN "refresh" ELSE "build"]]
        /\ UNCHANGED <<Shared, rts>>

\* Slip: the refresh takes every entry of the runtime, whatever it is handed.
RefreshBeginAll(t) ==
    /\ call[t].pc = "refresh" /\ (call[t].view = {} => Unlocked)
    /\ call' = [call EXCEPT ![t] =
           [@ EXCEPT !.todo  = rts[call[t].rt].entries,
                     !.clock = now,
                     !.pc    = "check"]]
    /\ UNCHANGED <<Shared, rts>>

\* refreshQuota reads the clock once.  Handed a nil slice, which is what the
\* copy of an empty page is, it takes every entry of the runtime instead,
\* for which it needs the lock.
RefreshBegin(t) ==
    /\ call[t].pc = "refresh" /\ (call[t].view = {} => Unlocked)
    /\ call' = [call EXCEPT ![t] =
           [@ EXCEPT !.todo  = IF call[t].view = {}
                               THEN rts[call[t].rt].entries
                               ELSE call[t].todo,
                     !.clock = now,
                     !.pc    = "check"]]
    /\ UNCHANGED <<Shared, rts>>

\* Slip: a forced refresh is content with a fresh quota as well.
CheckFreshUnforced(t) ==
    LET r == rts[call[t].rt]
    IN  /\ call[t].pc = "check" /\ Unlocked
        /\ call' = [call EXCEPT ![t] =
               [@ EXCEPT !.todo = {e \in call[t].todo :
                                     ~ IsFresh(r, e, call[t].clock)},
                         !.pc   = "fetch"]]
        /\ UNCHANGED <<Shared, rts>>

\* Keep what is to be fetched.  One step although the code locks once per
\* entry: a forced refresh keeps all whatever it reads, and one that is not
\* forced looks at a single card.
CheckFresh(t) ==
    LET r == rts[call[t].rt]
    IN  /\ call[t].pc = "check" /\ Unlocked
        /\ call' = [call EXCEPT ![t] =
               [@ EXCEPT !.todo = {e \in call[t].todo :
                                     \/ call[t].req.force
                                     \/ ~ IsFresh(r, e, call[t].clock)},
                         !.pc   = "fetch"]]
        /\ UNCHANGED <<Shared, rts>>

\* Ask the vendor for one quota, through the host; the result carries the
\* time at which the fetch began.  The order of the entries is left open.
FetchOneQuota(t) ==
    /\ call[t].pc = "fetch"
    /\ \E e \in call[t].todo :
          call' = [call EXCEPT ![t] =
              [@ EXCEPT !.cur = [key |-> e, gen |-> call[t].rt, fetchedAt |-> now],
                        !.pc  = "store"]]
    /\ UNCHANGED <<Shared, rts>>

\* Slip: the answer goes to the runtime that is active when it arrives.
StoreQuotaActive(t) ==
    LET cur == call[t].cur
    IN  /\ call[t].pc = "store" /\ Unlocked
        /\ rts' = IF active # 0
                  THEN [rts EXCEPT ![active].quota[cur.key] = cur]
                  ELSE rts
        /\ call' = [call EXCEPT ![t] =
               [@ EXCEPT !.todo = call[t].todo \ {cur.key},
                         !.cur  = NoResult,
                         !.pc   = "fetch"]]
        /\ UNCHANGED Shared

\* Slip: the answer is cached whether the runtime was retired or not.
StoreQuotaUnchecked(t) ==
    LET cur == call[t].cur
    IN  /\ call[t].pc = "store" /\ Unlocked
        /\ rts' = [rts EXCEPT ![call[t].rt].quota[cur.key] = cur]
        /\ call' = [call EXCEPT ![t] =
               [@ EXCEPT !.todo = call[t].todo \ {cur.key},
                         !.cur  = NoResult,
                         !.pc   = "fetch"]]
        /\ UNCHANGED Shared

\* Slip: an answer that cannot be cached is fetched again.
StoreQuotaInsist(t) ==
    LET r   == call[t].rt
        cur == call[t].cur
    IN  /\ call[t].pc = "store" /\ Unlocked
        /\ rts' = IF active = r
                  THEN [rts EXCEPT ![r].quota[cur.key] = cur]
                  ELSE rts
        /\ call' = [call EXCEPT ![t] =
               [@ EXCEPT !.todo = IF active = r THEN call[t].todo \ {cur.key}
                                  ELSE call[t].todo,
                         !.cur  = NoResult,
                         !.pc   = "fetch"]]
        /\ UNCHANGED Shared

\* The vendor's answer is cached, unless the runtime was retired meanwhile.
StoreQuota(t) ==
    LET r   == call[t].rt
        cur == call[t].cur
    IN  /\ call[t].pc = "store" /\ Unlocked
        /\ rts' = IF active = r
                  THEN [rts EXCEPT ![r].quota[cur.key] = cur]
                  ELSE rts
        /\ call' = [call EXCEPT ![t] =
               [@ EXCEPT !.todo = call[t].todo \ {cur.key},
                         !.cur  = NoResult,
                         !.pc   = "fetch"]]
        /\ UNCHANGED Shared

\* Read the results of the page's cards, out of the cache.
BuildPageData(t) ==
    /\ \/ call[t].pc = "build"
       \/ call[t].pc = "fetch" /\ call[t].todo = {}
    /\ Unlocked
    /\ call' = [call EXCEPT ![t] =
           [@ EXCEPT !.cards = [e \in Entries |-> IF e \in call[t].view
                                                  THEN rts[call[t].rt].quota[e]
                                                  ELSE NoResult],
                     !.pc    = "page"]]
    /\ UNCHANGED <<Shared, rts>>

\* The response leaves the plugin.
Respond(t) ==
    /\ call[t].pc \in Answered
    /\ call' = [call EXCEPT ![t] = IdleCall]
    /\ UNCHANGED <<Shared, rts>>

\* plugin.register and plugin.reconfigure: under the lock, a runtime is built
\* and the file is read for it ...  (A configuration that does not decode or
\* validate changes nothing.)
Configure ==
    /\ built < MaxRuntimes /\ Unlocked
    /\ \E cfg \in Configs :
          /\ rts' = [rts EXCEPT ![built + 1] = BuildRuntime(cfg)]
          /\ scan' = ReadFor(built + 1, cfg.vendors)
    /\ UNCHANGED <<World, overtaken, active, built, call>>

\* ... and when its scan has ended, the runtime replaces the active one.
Install ==
    /\ scan.rt = built + 1
    /\ EndScan
    /\ built' = built + 1
    /\ active' = built + 1
    /\ UNCHANGED <<World, call>>

\* The host unloads the plugin.
Shutdown ==
    /\ active # 0 /\ Unlocked
    /\ active' = 0
    /\ UNCHANGED <<World, Lock, built, rts, call>>

\* The operator edits, breaks or repairs the host's config file.
EditFile ==
    /\ \E f \in Files \ {file} : file' = f
    /\ edited' = now
    /\ UNCHANGED <<now, Lock, active, built, rts, call>>

Tick ==
    /\ now < MaxTime
    /\ now' = now + 1
    /\ UNCHANGED <<file, edited, Lock, active, built, rts, call>>

Handle(t) ==
    \/ RescanHostConfig(t) \/ StampScan(t) \/ SelectPageView(t)
    \/ RefreshBegin(t) \/ CheckFresh(t) \/ FetchOneQuota(t) \/ StoreQuota(t)
    \/ BuildPageData(t) \/ Respond(t)

Next ==
    \/ \E t \in Threads : Receive(t) \/ Handle(t)
    \/ Configure \/ Install \/ Shutdown \/ EditFile \/ Tick

Spec == Init /\ [][Next]_vars

\* A thread that has taken a request up goes on with it: Go schedules every
\* goroutine, rtMu lets no waiter starve however often others take it (hence
\* the strong fairness), and host.http.do returns.  A configure that has begun
\* comes to its end.
FairSpec == Spec /\ WF_vars(Install) /\ \A t \in Threads : SF_vars(Handle(t))
-----------------------------------------------------------------------------
(* Properties                                                              *)

\* Every variable has its type.
TypeOK ==
    /\ now \in Times
    /\ file \in Files
    /\ edited \in 0 .. MaxTime
    /\ overtaken \in 0 .. MaxTime
    /\ scan \in Scan
    /\ built \in 0 .. MaxRuntimes
    /\ active \in 0 .. MaxRuntimes
    /\ rts \in [Runtimes -> Runtime]
    /\ call \in [Threads -> Call]

\* A result stands under the entry it was fetched for and in the runtime it
\* was fetched by, and a response shows no other: not a neighbour's quota,
\* nor one of the configuration before the last (storeQuota, buildPageData).
OwnResults ==
    /\ \A r \in Runtimes, e \in Entries :
          rts[r].quota[e] # NoResult =>
             rts[r].quota[e].key = e /\ rts[r].quota[e].gen = r
    /\ \A t \in Threads, e \in Entries :
          call[t].cards[e] # NoResult =>
             /\ call[t].cards[e].key = e
             /\ call[t].cards[e].gen = call[t].rt
             /\ e \in call[t].view

\* The file was last edited long enough before the request arrived: in an
\* earlier second for a forced request, ScanTTL seconds for any other.  A scan
\* that an edit overtook counts from its end, for its result is dated then.
Settled(c) == IF c.req.force THEN edited < c.since
              ELSE edited + ScanTTL <= c.since /\ overtaken + ScanTTL <= c.since

\* A page shows the entries the file lists, in their places, if the file had
\* been left alone long enough: neither a failed scan, nor a scan of another
\* request, nor a reconfigure lets an older list survive longer, and an edit
\* between the reading of the file and that of the clock delays what is shown
\* by no more than the scan's own length (rescanHostConfig, scanLocked,
\* selectPageView).
FollowsFile ==
    \A t \in Threads :
        call[t].pc = "page" /\ Settled(call[t]) =>
            call[t].view = PageOf(Matching(file, rts[call[t].rt].vendors),
                                  call[t].req)

\* A response has a result, be it an error, for every card the request asked
\* to be looked up: the dashboard's lazy loader never gets a skeleton back.
\* Only a reconfigure or an unload during the request is an excuse
\* (refreshQuota, storeQuota, buildPageData).
AnswerFilled ==
    \A t \in Threads :
        call[t].pc = "page" /\ active = call[t].rt =>
            \A e \in Wanted(call[t].req, call[t].view) :
                call[t].cards[e] # NoResult

Refreshing(c) == c.pc \in {"check", "fetch", "store"}

\* A request that shows some card fetches nothing but cards it shows, and if
\* it singles one out, nothing but that one (handleManagement, refreshQuota).
ScopedWork ==
    \A t \in Threads :
        Refreshing(call[t]) /\ call[t].view # {} =>
            /\ call[t].todo \subseteq call[t].view
            /\ SinglesOut(call[t].req, call[t].view) =>
                  Cardinality(call[t].todo) <= 1

\* "Callers pass the current page so the work stays bounded by the page
\* size" (refreshQuota), for every request.
PageScoped ==
    \A t \in Threads :
        Refreshing(call[t]) => call[t].todo \subseteq call[t].view

\* No older than the request itself, or than one that was under way when it
\* came in.
NewFor(c, result) ==
    /\ result # NoResult
    /\ \/ result.fetchedAt >= c.since
       \/ \E s \in c.beside : result.fetchedAt >= s

\* A forced refresh of the page answers with quotas fetched for it or later
\* (README: ?refresh=1 forces a refresh of the current page).  storeQuota does
\* not look at the age of what it replaces, so a request that came in earlier
\* and is slower may put its own quota in their place; but then its quota is
\* what is shown, never one that was in the cache before either of them.
ForcedShowsNew ==
    \A t \in Threads :
        call[t].pc = "page" /\ active = call[t].rt /\ call[t].req.force =>
            \A e \in Wanted(call[t].req, call[t].view) :
                NewFor(call[t], call[t].cards[e])

\* The cache of a runtime that was replaced or unloaded never changes again,
\* however many requests are still working for it (storeQuota).
RetiredKept ==
    \A r \in Runtimes :
        r # active /\ r # active' => rts'[r].quota = rts[r].quota

RetiredFrozen == [][RetiredKept]_vars

\* Every request is answered: no loop of the refresh goes on for ever, and no
\* step waits for another (handleManagement).
EveryCallAnswered ==
    \A t \in Threads : call[t].pc \in Working ~> call[t].pc = "idle"

\* The cache of the active runtime is the board of QuotaBoard: results are
\* published one card at a time and only for the generation on display.
Board == INSTANCE QuotaBoard WITH
            Generations  <- Runtimes,
            NoGeneration <- 0,
            generation   <- active,
            spent        <- 1 .. built,
            board        <- IF active = 0 THEN NoQuota ELSE rts[active].quota

ImplementsBoard == Board!Spec
-----------------------------------------------------------------------------
(* What the properties rest on: an invariant that every step preserves     *)

Scanned(c) == c.pc \in {"select", "refresh", "check", "fetch", "store",
                        "build", "page"}
Viewed(c)  == Scanned(c) /\ c.pc # "select"

\* A request works for a runtime that was built; those yet to be built have
\* nothing cached.
RuntimeInv ==
    /\ active <= built
    /\ \A t \in Threads : call[t].pc \in Working \cup {"page"} =>
                             call[t].rt # 0 /\ call[t].rt <= built
    /\ \A r \in Runtimes : r > built => rts[r].quota = NoQuota

\* A scan belongs to the one request that holds the lock, or to the runtime
\* that is being built.
LockInv ==
    /\ scan.rt <= built + 1
    /\ \A t \in Threads : call[t].pc = "stamp" => scan.rt = call[t].rt
    /\ \A t, u \in Threads :
          call[t].pc = "stamp" /\ call[u].pc = "stamp" => t = u

\* Nothing is dated ahead of the clock.
ClockInv ==
    /\ edited <= now /\ overtaken <= now
    /\ \A r \in Runtimes : rts[r].lastScan <= now
    /\ \A t \in Threads : call[t].since <= now

\* An entry list is what the file says, or its scan is older than the last
\* edit or was overtaken by it; and a request that scanned the settled file
\* sees the former, whatever is being scanned meanwhile.
ScanInv ==
    /\ \A r \in 1 .. built :
          \/ rts[r].entries = Matching(file, rts[r].vendors)
          \/ rts[r].lastScan <= edited
          \/ rts[r].lastScan <= overtaken
    /\ \A t \in Threads :
          (Scanned(call[t]) \/ call[t].pc = "stamp") /\ Settled(call[t]) =>
             /\ ~ Unlocked =>
                   scan.entries = Matching(file, rts[scan.rt].vendors)
             /\ Scanned(call[t]) =>
                   LET listed == Matching(file, rts[call[t].rt].vendors)
                   IN  /\ rts[call[t].rt].entries = listed
                       /\ Viewed(call[t]) =>
                             call[t].view = PageOf(listed, call[t].req)

\* A wanted card has a result or is still to be fetched.
FillInv ==
    \A t \in Threads :
        /\ call[t].pc = "build" => Wanted(call[t].req, call[t].view) = {}
        /\ Viewed(call[t]) /\ active = call[t].rt =>
             \A e \in Wanted(call[t].req, call[t].view) :
                IF call[t].pc = "page" THEN call[t].cards[e] # NoResult
                ELSE \/ rts[call[t].rt].quota[e] # NoResult
                     \/ e \in call[t].todo

\* What a thread is about to store was fetched for its runtime and is on its
\* list; and it holds no results before it has read them for the page.
HoldInv ==
    \A t \in Threads :
        /\ call[t].pc = "store" => /\ call[t].cur \in Result
                                   /\ call[t].cur.gen = call[t].rt
                                   /\ call[t].cur.key \in call[t].todo
        /\ call[t].pc # "page" => call[t].cards = NoQuota

\* What a refresh has on its list was wanted; on an empty page alone it may be
\* more.
WorkInv ==
    \A t \in Threads :
        LET wanted == Wanted(call[t].req, call[t].view)
        IN  /\ call[t].pc = "refresh" => call[t].todo = wanted
            /\ Refreshing(call[t]) /\ call[t].view # {} =>
                  call[t].todo \subseteq wanted

\* A request that is worked at came in no earlier than any other request, or
\* was under way when the other one came in.
PeersInv ==
    \A t, u \in Threads :
        call[u].pc \in Working => \/ call[u].since >= call[t].since
                                  \/ call[u].since \in call[t].beside

\* Of a forced request, a wanted card has a result that is new for it, or is
\* still to be fetched; and no request stores what is older than itself.
ForcedInv ==
    \A t \in Threads :
        LET c == call[t]
        IN  /\ c.pc = "store" => c.cur.fetchedAt >= c.since
            /\ Viewed(c) /\ active = c.rt /\ c.req.force =>
                  \A e \in Wanted(c.req, c.view) :
                     IF c.pc = "page" THEN NewFor(c, c.cards[e])
                     ELSE e \in c.todo \/ NewFor(c, rts[c.rt].quota[e])

IInv == /\ TypeOK /\ RuntimeInv /\ LockInv /\ ClockInv
        /\ ScanInv /\ FillInv /\ HoldInv /\ WorkInv /\ OwnResults
        /\ PeersInv /\ ForcedInv
=============================================================================
