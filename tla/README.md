# A TLA+ model of cpa-quota-panel

cpa-quota-panel is a plugin, in Go, of the CLIProxyAPI host. It reads the host's
`config.yaml`, finds the API keys of known vendors in it, asks each vendor through the
host's HTTP client how much quota is left, caches the answers and serves a dashboard. The
dashboard's script fills cards one by one and turns pages in place.

This directory holds modules that model it, TLC configurations that check them, and proofs
for TLAPS.

## The system

| component | source | state | operations |
|---|---|---|---|
| lifecycle and runtime | `config.go`, `main.go` | `active`, one `runtime` per configuration | `configure`, `buildRuntime`, `resetRuntime` (unload), `loadedRuntime` |
| management handler | `management.go` | locals of a request | `handleManagement`, `intParam`, `rescanHostConfig` |
| host config scanner | `scanner.go` | `runtime.entries`, `lastScan`, `configError` | `scanConfigFile`, `scanLocked` |
| quota cache and refresh | `quota.go` | `runtime.quota` | `refreshQuota`, `fetchOneQuota`, `storeQuota` |
| page selection and data | `dashboard.go` 16-43, 151-294 | none | `normalizePageQuery`, `pageWindow`, `selectPageView`, `buildPageData` |
| dashboard script | `dashboard.go` 856-1242 | `currentTab`, `page`, `busy`, the grid, `entryQueue`, `entryInflight`, `entryRetry`, the address bar | tab, pager, refresh, `loadPage`, `restore`, the lazy loader |
| response parsers | `quota.go` 153-803 | none | one parser per vendor, the second lookup of Command Code |
| plugin config validation | `config.go` 78-202 | none | `normalizeAndValidate`, `defaultSources` |
| C ABI bridge | `main.go` | `stored_host`, buffers of the C heap | `cliproxy_plugin_init`, `cliproxyPluginCall`, `cliproxyPluginFree`, `callHostBridge` |
| HTML, CSS, icons | `dashboard.go` 296-855 | none | rendering |
| demos, scripts | `demos/`, `scripts/` | none | not part of the program |

**How they interact.** The host calls the plugin from any of its threads. A management
request takes a pointer to the active runtime and lets go of the lock; from there it enters
`rtMu` for one short section after another (rescan, select, look at the cache, store, build)
and is outside it for the vendors' HTTP calls, which may take seconds. `configure` and the
unload replace `active` at any time. The runtimes they replace live on in the requests that
hold them. In the browser, the script runs one handler at a time, but page loads (one at a
time, guarded by `busy`) and lazy requests (up to six) overlap freely, and each lazy request
is again a management request on the server.

**What is hard about it.** Results that arrive for a runtime that is gone; two fetches of one
card stored in the wrong order; a page selected from one list and built after a rescan; a
scan that failed between two that did not; a page without cards, where an empty slice is
`nil`; answers that arrive after the user has left the tab, or left it and come back; retries
of cards of another page; loads that fail while cards arrive; queues that nobody pumps;
requests that the browser has given up and the server still works on; callbacks of the host
that fail halfway, with memory in flight. The
list with lines and properties is under `hazards` in `PROJECT.json`.

**What makes each part correct.** Cache: a result only ever stands under its own key and in
its own generation, and every request is answered with what it asked for. Scanner: the list
is exactly the keys in use with a known vendor, and no older list survives an edit beyond
the reuse time. Pages: they tile the list, and an index means the same card to both sides.
Script: a card is what its place says, none shimmers for ever, the loader neither repeats
nor idles. Border: what is refused changes nothing, what fails leaves no memory behind, and
only what succeeded is shown. Together: the server answers what the script assumes.

## The modules

| module | models | composed with |
|---|---|---|
| `Paging` | page arithmetic: `normalizePageQuery`, `pageWindow`, and the pages `renderPager` offers | extended by `PanelServer`, `Listing`, `Dashboard`, `PanelSystem` |
| `Filtering` | the loops that go through a list once and keep some of it | extended by `PluginConfig`, `QuotaFetch`, `Dashboard` |
| `PanelServer` | runtimes, requests, lock sections, reconfigure, unload, file edits, clock | instance of `QuotaBoard` |
| `QuotaBoard` | what the quota cache promises, abstractly | implemented by `PanelServer` |
| `PluginConfig` | the plugin's own configuration: validation, normalising, default sources | extended by `Listing`, `Plugin` |
| `Listing` | scanning and merging; filter, stable sort, pages, indexes, tab counts | |
| `QuotaFetch` | one lookup of one card's quota: all vendors' answers, Command Code's second request, and what the card shows | instance in `Plugin`; inside `FetchOneQuota` of `PanelServer` |
| `Plugin` | the C border: calls of the host, callbacks to the host, memory, a lookup step by step | instance of `QuotaFetch` |
| `Dashboard` | the script in one browser tab, with the server as the source of answers | |
| `PanelSystem` | dashboard and server joined by HTTP | instances of `Dashboard` and `PanelServer`; implements `Dashboard` |
| `PagingProofs`, `FilteringProofs` | theorems about `Paging` and `Filtering` | extended by the proofs below |
| `PanelServerProofs` | theorems about `PanelServer` | |
| `DashboardProofs` | theorems about `Dashboard`: the loader's rules for every use; which card is where, and which is waiting, in a steady one | |
| `PluginConfigProofs` | lemmas about validation and normalising | extended by the next two |
| `ListingProofs` | theorems about `Listing`, with lemmas about flattening and stable sorting | extends `PagingProofs` too |
| `PluginProofs` | theorems about `Plugin`, with `QuotaFetch` | |
| `PanelSystemProofs` | theorems about `PanelSystem` | instances of `PanelServerProofs` and `DashboardProofs` |
| `MCPanelServer`, `MCListing`, `MCDashboard`, `MCPlugin`, `MCPanelSystem` | small instances | |

Operators that begin with "Slip" in their comment are variants of the operator after them, as
a plausible mistake in that code would leave it. Nothing uses them; they are there to check
that the properties notice.

### PanelServer

`now`, `file` and `edited` are the world: the clock in seconds, the host's config file and
when it was last edited (a history variable). `active`, `built` and `rts` are the pointer
`active` and all runtimes ever built, named by number, 0 for `nil`. `scan` is what a scan has
read that is not over yet; while there is one, `rtMu` is held (`Unlocked` is false), and no
other section can begin. `call[t]` is the request a thread is in the midst of; its `pc` names
the next step:

    Receive           loadedRuntime and the parsed query; 503 without a runtime, 404 for another path
    RescanHostConfig  rescanHostConfig; if a scan is due, the file is read, and the lock kept
    StampScan         the end of scanLocked: the list is replaced and dated, the lock let go
    SelectPageView    selectPageView, and the decision what to refresh
    RefreshBegin      refreshQuota reads the clock; a nil slice becomes all entries
    CheckFresh        the freshness checks
    FetchOneQuota     host.http.do (an error is a result and is cached like one)
    StoreQuota        storeQuota, with its test that the runtime is still active
    BuildPageData     buildPageData
    Respond           the response leaves

Each is one section under `rtMu`, or one call outside it, except a scan, which is two steps:
`scanLocked` reads the file first (`scanner.go:192`) and the clock last (`scanner.go:205`),
and the lock keeps neither an editor nor time from going on in between. `CheckFresh` stands for one section
per entry: a forced refresh takes all entries whatever it reads, and a request that is not
forced looks at one card. The entries of a refresh are fetched in any order; the code takes
them as listed, so the model has more behaviours. `DisplayRank` puts entries in one fixed
order without ties; ties and stability are the business of `Listing`. `Configure` and
`Install` are the two halves of a register or reconfigure that succeeds, around the scan of
the new runtime; one that fails to decode or validate changes nothing.

Two more history variables serve the properties. `overtaken` is when a scan last ended whose
file had been edited since it was read: such a list is dated later than what it says, so
`FollowsFile` counts the reuse time from there. `beside`, in the record of a request, has the
arrival times of the requests that it found under way: `ForcedShowsNew` allows their results.

Assumed: `nowFn` does not go back, and `cache-ttl-seconds` is any natural number (validation
makes it at least 1). An edit of the host's config file is one step, and so is its reading.

### QuotaBoard

One board of results per configuration generation. `Begin` starts an empty one, `End` takes
it down, `Publish` fills or renews one card with a result of that entry and generation. The
refinement mapping in `PanelServer` takes the active runtime for the generation and its cache
for the board. It says in one formula what reconfigure and late results may not do.

### Filtering

`Only(s, S)` is the sublist of `s` with the elements in `S`, by rounds, as the loops in the
code do it: the entries of a tab, the keys to be collected, the patterns that are not blank,
the windows a card shows. It is `SelectSeq(s, LAMBDA x : x \in S)` (`MCDashboard` checks that
it is), but a recursive function and not an operator with a parameter, so that the prover
has a definition to work with.

### PluginConfig

`NormalizeAndValidate` makes of a configuration as it was written the one to run with, or
`Nil`, which stands for any of its errors. `Trimmed` is what `strings.TrimSpace` leaves of a
text. The order matters in two places: an id is trimmed before it is compared with the others
(`Distinct`), and patterns are counted before those that normalise to nothing are dropped
(`Complete`), so that a source with blank patterns only is accepted and matches no entry.
`Listing` starts from what comes out.

### Listing

`hostFile` and `sources` are inputs, the sources validated; `entries` is what
`scanConfigFile` makes of them, and `Show` answers one query (`asked`) with a page (`shown`). URLs are sequences
of parts, so that "prefix at a slash" is a prefix of sequences and a trailing slash is an
empty last part. A query is a record of its parameters as texts; `Parsed` reads them in both
spellings, and `BuildTarget` and `SyncURL` write the two that the script writes, so that
`SameViewAgain` can compare what comes back. What they write is the tab of the *script*
(`CurrentTab`), not the one the server filtered by: in a new document the script takes it from
`v=` as it stands there, and from nothing else (`dashboard.go:872`); with fragments
(`partial`) it is the tab that was asked with, as long as the panel has such a tab. The
two are the same for a query in its own spelling (`OwnSpelling`): a document without
`vendor=`, fragments without `v=` and of a tab that there is. `SpellingAssumption` is what `strconv` and
`TrimSpace` do with the texts of numbers, up to the largest int (`MaxInt`; 6 in the run), and
`LengthAssumption` that no list is longer than that. `Live` and `Covers` say without the loops which
keys should be listed; `ScanExact` compares. `yaml.v3` is external: a file is the records it
decodes to. Names are compared by rank: `RankAssumption` says that two vendor ids of a
validated configuration have different ranks, as different strings compare one way or the
other; keys may well have the same rank, since `entryLess` compares their tails only. A
credential of `hostFile` has its key trimmed.

### QuotaFetch

`kind` and `path` are the card's source, `step` the request to be made next, `out` the
result (`quotaData`), `body` the first answer, kept for the properties. `Begin` starts a
lookup, `FirstAnswer` takes the answer to the first request to the parser of its kind,
`SecondAnswer` that to the second one, which only Command Code needs. How the answers come
is the business of `Plugin`, whose actions these are parts of. An answer is what its `JSON`
decodes to; money is in cents and percentages are rounded down. Amounts are floats, and
`flexFloat` takes the texts "NaN" and "Inf" for amounts too, so `Floats` has these three
beside the numbers; `Below`, `NotAbove`, `Minus` and `Share` compare and compute with them as
Go does, and the guards stand in the negative form of the code (`~ NotAbove(cap, 0)` lets NaN
pass, as `Cap.Value <= 0` does). The loops of the parsers,
which write windows row by row into a map, are `Write`: of the rows with the same key the
last one stays. `BySoonest` puts every row at the place that it has among the others; rows
that are reset at the same time stay in order, as `sort.Slice` leaves lists this short. `CardBody` lists the parts
of the card that `renderEntry` makes of a result. Left out: stamps, wording and classes of
errors, the two keys (the admin key, if there is one, goes with both requests), the spelling
of plan names. `PanelServer` has the whole lookup as one step, since nothing else can see it
halfway.

### Plugin

One call of the host is followed from its begin to its end. `HostCalls` is
`cliproxyPluginCall` for every method: register and reconfigure with every configuration
(`Configure`), calls answered out of hand, and a request that needs a lookup
(`StartLookup`). For a lookup the plugin calls the host in turn: `CallHost` takes memory for
the method and the request and gets a code and, perhaps, a buffer; `Return` frees, decides
with `Succeeded` and `BodyOf` what came back, and lets `QuotaFetch` go on. `held` is what
lies on the C heap and has still to be freed by someone. The host may give a table without
the function to call or to free, or none (the smoke test in `scripts/` does that), and may
unload the plugin in the midst of a callback. Of many calls at a time this module has one:
they share nothing but `active`, which is the subject of `PanelServer`.

### PanelSystem

The variables of `Dashboard` and of `PanelServer`, and `serving`, which says for whom a
thread works. `ArriveLoad` and `ArriveEntry` turn a request of the script into one of the
server, with the parameters `buildTarget` and `entryTarget` give it; `Work` is a step of the
server; `AnswerLoad` and `AnswerEntry` hand the cards over that the server built. `GiveUp` is
the script's timer: the client is gone, the thread works on, and the key may be asked for
again by a second thread. `Unavailable` is status 503 after an unload. `serving` also keeps
what a response says beside its cards: the number and the total of the page, decided where
the page is selected, and the second in which it was built, which tells fresh cards from stale
ones. `Dashboard` is instantiated with the list of the newest runtime as its server
(`Site`), and with it `ImplementsDashboard` says that the composition is one of the
behaviours `Dashboard` allows: what is shown of the script under the assumptions of that
module is true of the script with this server. `Reconfigured` is the end of a reconfigure.
`strayed` is a history variable: has a lazy request gone out for another page or tab than the
one in its key (`Astray`)? `events` counts what user, host and timers did, against the bound
`MaxEvents`; the rest is `Progress`, which goes on by itself. The last section of the module says what
this rests on, in an invariant: see "Composition" below. `ServerAssumption` and
`BrowserAssumption` are the assumptions of the two parts; `OpeningAssumption` says that there
is a runtime when the panel is opened, and that nothing in its cache has a time out of range.

### Dashboard

One action is one event handler or promise callback. `load` is the page load under way with
the backup that `loadPage` took, `grid` the cards (empty while placeholders are shown), `net`
the lazy requests under way, each with its key (index, page, tab) and the page and tab that
were current when it was sent, which is what it asks the server for. `from` records the lists
the server had since a request was sent; the answer is computed from any one of them. The
server's lists and pages are tabulated once (`Filtered`, `View`), as they depend on constants
only. `Pump` says at once what the loop of `pumpEntryLoaders` ends with: the first `Started`
keys of the queue are under way, the others wait. The server's answers have the cards of the
page asked for in any mixture of states; a forced load has a quota for every card, which is
`AnswerFilled` of `PanelServer`. Left out: statistics, texts, the configuration-error line, and
the pump 1.2 seconds after a failed card, which finds nothing to do (`WorkConserving`), since
the failure handler pumps at once.

## The runs

| run | asks | bounds |
|---|---|---|
| `MCPanelServerFile` | does a page follow the file, is a refresh complete, new, and no more than asked; is every request answered? | 1 thread, 2 entries of 2 vendors, 3 file contents (one unreadable), page size 2, clock from 1 to 2, scans reused for 1 s, 2 runtimes, unload; requests: fill the second card or open a page that has none, refresh a page of one card, refresh a tab that may be empty and page past the end, unknown path |
| `MCPanelServerRace` | can results cross entries or generations; how old may a refreshed card be; does the cache implement the board? | 2 threads (symmetric), 2 entries, 2 runtimes, clock to 2; a lazy request and a refresh |
| `MCListing` | what is listed, once; are pages and indexes right; do addresses lead back? | up to 3 credentials in 3 sections, all forms of URL, exclusion, disabling; 2 lists of sources, one overlapping and with blank patterns; all tabs, pages and unknown vendors, page sizes default, 1 and more than the maximum, documents and fragments, with blanks, no numbers, both spellings at once, and in the other one's spelling; one page is shown, as none depends on those before |
| `MCPlugin` | does a card say what the vendor said, whatever the callback brings; do refusals change nothing; is memory freed? | 3 configurations that are accepted and 5 that are not; 3 hosts; 7 kinds; up to 3 of 8 forms of Zhipu and 4 of Cline rows; Command Code amounts absent, negative, 0, below, at, a cent and more above the allowance, NaN and infinite; 2 known plans and an unknown one; all forms of buffers and codes |
| `MCPanelSystem` | does the server answer as the script assumes; does every card settle, with everything in motion? | 2 threads, 2 entries of 2 vendors, one cached; refresh and tabs, 2 clicks; lazy requests time out, loads fail after an unload; one reconfigure or unload; 3 of these events together; limit 1, 1 retry |
| `MCDashboardLoader` | does the loader keep its rules, and rest? | 3 entries on 2 pages, all controls, both faults, 2 clicks, 1 edit of the list, limit 1, 1 retry |
| `MCDashboardPager` | do cards land where they belong? | paging, refresh and reload, no faults, 4 clicks, limit 2 |

The bounds are the least at which the cases meet: a page before and one after needs three
entries at page size two; a race needs two threads at one card; a retired runtime at work
needs two configurations; an expired scan needs a clock that passes the reuse time; a limit
is reached with one or two cards; coming back to a tab needs two clicks, and losing a card
there and back also needs a request given up in between, which makes three events. `DefaultPageSize`
and `MaxPageSize` are constants, 20 and 100 in the code; `EntryConcurrency` is 6 and
`MaxRetries` 2. The bounds of the model itself are `MaxRuntimes`, `MaxTime`, `MaxClicks`,
`MaxEdits` and `MaxEvents`; in `PanelSystem`, `Host` acts once and the clock stands still (ageing is the
subject of `PanelServer`'s runs). Two threads are enough there for a request that was given
up next to the one that repeats it, and for a refresh next to a lazy request. The runs of
`Dashboard` and `PanelSystem` stop when the clicks are used up and nothing is under way, so
deadlock is not checked there; nor is it in `Listing`, which stops when a page is shown.

**Fairness.** `PanelServer`: each thread that has taken up a request goes on with it (strong
fairness of its steps, none for new requests, reconfigures or the clock), and a reconfigure
that has begun ends (weak fairness of `Install`). Strong, because others hold the lock over
their scans again and again: Go schedules every
goroutine, `RWMutex` does not starve waiters, and `host.http.do` is assumed to return.
`Dashboard`: a page load ends, and while lazy requests are under way one of them ends. Every
request has an `AbortController` that ends it after 120 or 30 seconds. `PanelSystem`: while
requests are on their way or worked on, one of them gets ahead; that an answer comes is then
no longer an assumption but follows from the server's steps. `Plugin` states none. Users and
hosts are not fair.

## What the checks found

Five runs check something the repository says of itself and fail.

1. `MCDashboardSlot`: an answer does land on another card. `fetchEntry` asks for the index in
   the key, on the page and tab that are current *when it is sent* (`dashboard.go:1117`). A
   card still queued when another tab is clicked is fetched from that tab; if the user goes
   back, the key matches again and the wrong card replaces the right one. The comment at 1083
   says that the key prevents this. It happens without tabs as well, when a card of one page
   is tried again while another page is shown.
2. `MCDashboardFailed`: `markEntryFailed` gets an index without page or tab
   (`dashboard.go:1193`), and marks the card with that index on whatever page is shown.
3. `MCDashboardOrphan`: `restore` (`dashboard.go:1001`) puts skeletons back and does not
   collect them again; those whose answers came during the load shimmer for ever.
4. `MCDashboardRestore`: `onTab` changes the tab before `loadPage` backs it up
   (`dashboard.go:1202`), so a failed load shows the old cards, hidden, under the new tab.
5. `MCPanelServerScope`: the copy of an empty page is a `nil` slice, which `refreshQuota`
   takes for "all entries" (`quota.go:820`): refreshing an empty tab queries every key.

Because of these, `SlotIdentity` and `NoOrphanSkeleton` are checked to hold only where
nothing of the kind happens (`Pager`: no tabs, no faults; in `PanelSystem` lazy requests
fail, but a load only fails when the plugin is unloaded: loads that time out are the subject
of `Dashboard`). A forced refresh may show a quota that
was fetched before it was asked for: `storeQuota` does not compare times, so a request that
was already under way may store its older result last. `ForcedShowsNew` says that this is the
worst: never one from before that request. And the README says that expired cards are first shown as skeletons, where the code shows the old
data.

The composition adds a case that neither part has by itself. When the plugin is reconfigured
while a lazy request is under way, `storeQuota` drops the result, the page is built without
it, and the card goes back to the script empty; as the request succeeded, nobody asks again.
`NoOrphanWhileUndisturbed` and `RefreshFills` are therefore claimed for a plugin that is
left alone, and `EventuallySettled` claims only the end of `busy` for one that is not.

Stray requests (finding 1) lose cards too, not only mix them up. Click from all vendors to one
of them, let a lazy request of the first view be given up, so that it is sent again, under the
new tab; click back. `collectLazyEntries` skips the card, since its key is under way; the
answer has no card at that index of the short tab, which counts as success; and the card
shimmers for ever. It takes two clicks and a time-out, and is in the run: `strayed` records
that it has begun, and both properties except such histories and no others.

A bar may show NaN percent, when a vendor sends "NaN" as an amount, since a negative guard
(`quota.go:669`, `:700`) does not stop it: `TypeOK` of `Plugin` says that it takes such an
amount, and `MonthlyNotInvented` claims the sum for numbers only. A document opened with
`?vendor=`, which no part of the script writes, is filtered by the server but not by what the
script asks for and writes into the address bar; the same goes for a tab that the panel
no longer has. A card stays
empty, too, when the host's list becomes shorter than the page on the screen (`NoCard` in
`Dashboard`). A panel opened with `page-size=` shows pages of another size after a reload,
as `syncURL` does not write the size. And the description of `quota-sources` (`main.go:171`)
names five default vendors and six kinds; there are six and seven.

## What is proved

For all values of the constants, with the assumptions the modules state (finite entries,
positive page sizes and reuse time, requests, files, configurations and answers of the right
shape), 40 results; the ones named in this section are listed under `theorems` in
`PROJECT.json`.

**Paging and filtering.** `NormalQuery`, `PageWindowBounds` (the slice `filtered[start:end]`
never panics and is no longer than a page), `PagesCover`, `PagesDisjoint`, and `PagerOffers`
(the pager's buttons lead to existing pages, and from every page to its neighbours, the first
and the last; TLC's instances have too few pages for the pager to leave any out).
`OnlyKeepsWanted`: a filtering loop keeps what is wanted, nothing else, and nothing twice, for
lists of any length; `OnlyKeepsOrder`: and in order. That is an induction. The library's induction theorems take a predicate,
which the provers cannot instantiate; but they can instantiate a set, so `FilteringProofs`
derives induction about sets of numbers (`UpTo`) from the well-foundedness of the naturals.

**Server.** `TypeCorrect`, `ResultsAreOwn`, `PagesFollowFile`, `AnswersAreFilled`,
`WorkIsScoped`, `RetiredCachesFrozen`, and `BoardImplemented` (`Spec => Board!Spec`). The
argument is one inductive invariant, `IInv` of `PanelServer`. None of the properties is
inductive by itself. `OwnResults` needs to know what a thread holds between fetching and
storing (`HoldInv`). `FollowsFile` needs that every list is what the file says or older than
the last edit, that nothing is dated ahead of the clock, and that a request that scanned the
settled file keeps seeing it (`ScanInv`, `ClockInv`); "older" has two meanings, read before the edit and dated before it,
or read before and dated after it, when the scan was overtaken. The lock over a scan belongs
to one request or to the runtime being built (`LockInv`). `AnswerFilled` needs that at every step
a wanted card has a result or a place on the list of what to fetch (`FillInv`); `ScopedWork`
needs the converse, that this list holds wanted cards only (`WorkInv`). All need that
threads work for runtimes that exist (`RuntimeInv`). Each action has a lemma that says what it
leaves in the thread's record and in the runtimes; the preservation proofs cite these and
have one step per action.

`ForcedIsNew` is about any number of requests at once. `ForcedInv` says of each step of a
forced refresh that a card has a result that is new for it, or is still to be fetched, and of
every request that what it stores is no older than itself. Why the stores of others do not
break this is `PeersInv`: a request that is still worked at came in no earlier than this one,
or was under way when this one came in. The exception for those is the code's and not the
proof's: "never older than the request itself" fails with two threads (see above).

**Script.** `TypesHold`, `NothingFetchedTwice` and `LoaderWorks` hold for every use of the
dashboard: all controls, all faults, all edits of the list. They are proved together, from
`IInv` of `Dashboard`. That a limit is kept and that nothing waits while there is room are two
sides of one fact about `Pump`, stated as lemmas: how many keys it starts, that these come
from the queue, and that the queue is empty or the limit reached when it stops. That
`Collect`, whose keys come out of a filter, puts none on the queue twice is `OnlyKeepsWanted`.

`CardsInTheirPlaces` and `ReloadShowsSame` assume `Steady`: no tab is clicked, no lazy request
fails, the list stays as it is. `EveryMissingCardPending` assumes `Undisturbed`, which adds
that page loads succeed and that what was asked for is there (`AnswerFilled` of the server).
The code needs these assumptions. Drop any of the three of `Steady`, and TLC finds a card in
the wrong place; drop success of page loads, and it finds a card that nobody will fill. The
runs that expect a violation show tabs and page loads. The invariant is `OneView`:
grid, or backup of a load under way, address bar, queue and requests under way all speak of
the view of the same page. It has to speak of the backup, since a failed load puts it back,
and of the page that requests are sent for beside the one in their key, since `swapEntry`
looks at one and the server at the other.

**Border.** `MemoryIsFreed`, `RuntimeIsSound`, `ErrorsLeaveRuntime`, `NothingElseIsShown`,
`MonthlyIsReal`, `SecondRequestOnlyAdds`, `PluginTypes`, `EveryCardSpeaks` and
`ZhipuRowsInPlace`, for all hosts, configurations, amounts (NaN and the infinite ones among
them) and
catalogs, where TLC has a handful of each. `FloatOrder` and `ShareBounds` are what the two
about windows need of floats: what is not at most 0 is above 0 or NaN, and the share of it
that is used is at least 0 or NaN. `NothingLeaks` becomes inductive with the fact that
nothing is allocated before the plugin is loaded, since loading fixes whether buffers can be
freed (`Memory`). `RuntimeSound` follows from validation alone (`ValidSound`), default sources
included, without any assumption on texts. For Command Code, `Lookup` says that while the
second request is made the card is the result of the first answer at hand, and that an answer
is one to the question asked. `FirstResult` and `SecondResult` then say what the parsers make
of any answers: the first one has no monthly window, the second one adds it with a known
allowance, or nothing. `NilAssumption` states that a record or a map is not `nil`.

`Cards` says of the lookup that its result has its type, that its card speaks, and that a
Zhipu result comes from the answer at hand. It needs the other invariants: a lookup is one of
a kind that has a parser because the runtime is sound, and the second answer starts from the
result of the first. `PayloadAnswered` goes through the kinds: every answer becomes windows
or parts that a card shows, an error, or the empty card that the vendor asked for.
`ZhipuRowsInPlace` is about any number of rows, where TLC has three: that the places of the
sort are a permutation (`AheadOrdered`, `PlacesTaken`: a row has fewer rows ahead of it than
every later one), that the soonest row and the soonest of the others come first and second
(`SoonestFirst`), and that the rows go to the places that are left (`FreePlaces`,
`FilledIn`), next to those that were named (`NamedByUnit`).

**Listing.** `ScanIsExact`, `ListedOncePerVendor`, `IndexIsPlace`, `PagesTileList`,
`TabsCountAll` and `AddressesLeadBack`, for
all host files, lists of sources, queries and page sizes. The steps of this module are few;
its invariant only says that the list is what `ScanConfigFile` makes of the file, from sources
that validation let pass, and that the page shown is the answer to some query. The weight is
in the lemmas about the operators. `FlattenSeq` (of the community modules, by rounds) puts
every element of every list in one place of the result (`FlattenPlaces`) and concatenates
adjacent pieces of a list to the list (`PagesAreWhole`). `SortStable` is a permutation that
sorts (`SortPermutes`, `SortSorts`) and leaves alone what is sorted (`SortKeeps`), from a
count of what comes before an element (`UptoOrder`); for this the order need not tell apart
any two keys of a vendor. `MatchParts` says of a normalised prefix what `Covers` says of the
URLs as written. `ListedOncePerVendor` needs of validation that ids are distinct *after* they
were trimmed (`ValidUsable`), and `TabsCountAll` that none of them is blank then: a blank id
would be a tab that counts everything. It compares sums with sizes of sets: no entry is in a
list twice, so that a tab counts as many as there are (`CountOnce`, `TabSize`), and the tabs
share the entries out among them (`SizesAddUp`, an induction over the tabs).
`AddressesLeadBack` needs that what was read once is read the same again: a number that was
written, a tab without its blanks, a page number after it was clamped (`ReadBack`,
`PageAgain`), and that for a query in its own spelling the script's tab is one that the server
reads as its own.

The proof of `ScanIsExact` found an error of an earlier version of the model: the choice of
the base URL was a `CASE` whose guards overlap, and `CASE` does not try them in order. TLC
does, so its runs had not noticed. `FirstURL` now says it without.

**Composition.** `DashboardImplemented` (`Spec => ImplementsDashboard`): for any number of
threads, entries and clicks, dashboard and server together are one of the behaviours that the
dashboard's module allows. `IInv` of `PanelSystem` is the invariants of the two parts and what
ties them together. `ServingInv` says of each thread that somebody waits for that it has the
request which was made, is the only one to work on it, and once it has selected a page, has
the page that was asked for: its cards, its number, its total. `ListedInv` says that all
runtimes list the same, so that `PagesAgree` can show the server's page of a runtime to be the
dashboard's page of a list (`PageOf` and `Position` count entries, `View` cuts a sequence;
that the sort and the filter commute is `OnlyKeepsOrder`). `FromInv` says that this list is the
only one the dashboard has seen. That the parts keep their own invariants is not proved again:
the lemmas of `PanelServerProofs` and `DashboardProofs` hold in the instances, and each action
of the composition is one of theirs, or leaves their variables alone. The lemmas whose names
end in `Goes` say so for the dashboard, one for each action: a step, or a stutter.

All of this assumes `OneSetup`, as the run does: the configurations of the host name the same
vendors (and may differ in everything else, so a reconfigure still starts a new runtime with
an empty cache). Otherwise the list changes under the dashboard. `Dashboard` has that as its
`edits`, and the mapping would have to count them.

`RefreshBringsQuotas` (`RefreshFills`) uses `AnswerFilled` of the server: while the plugin is
left alone the runtime of every request is the active one (`Attended`), so a forced answer has
a quota for every card of its page. So has the answer to a lazy request, for its one card.
`NoCardForgotten` (`NoOrphanWhileUndisturbed`) is about every use: any clicks, tabs, refreshes
and time-outs, while the plugin is left alone and no request has gone astray. Its invariant
(`Cared`) adds what the loader then can rely on: a request on its way is for its own card, the
tab is one of the server's, and the screen has as many cards as the view, so that no answer
comes without a card. Page loads may
fail here, since none fails before the plugin is unloaded. `CardsInTheirPlaces` assumes
that no tab is clicked and no lazy request is given up, for the reasons that `Steady` has; it
holds across reconfigures and unloads.

**Only model-checked.** Out of the prover's
reach are the liveness properties (`EveryCallAnswered`, `BusyEnds`, `ComesToRest`,
`EventuallySettled`), the agreement of `Only` with `SelectSeq`, and the properties that the
code does not have.

## What is not modelled

- Of the parsers, how numbers (but for "NaN" and "Inf"), stamps and names are spelt, and the texts of errors
  (`classifyQuotaError` only words them). `quotaFor` has no caller.
- Of the configuration, `auth`, which nothing reads, and `admin-key`, which only says with
  which key a vendor is asked.
- Of the border, a C heap that is exhausted, and hosts that break their own contract by
  calling after they unloaded the library.
- HTML, styles, icons and texts (except which parts and which state a card has), the
  statistics, the countdown, demos, scripts.
- The clock going back; cards' tab counts and page total taken from two snapshots (harmless);
  duplicate fetches of one card by concurrent requests (allowed by the model).

## Plan

All components of the program are modelled, by themselves and composed, and have their
proofs. Left: `DashboardImplemented` without `OneSetup`. `Site` would count the reconfigures
that change the list as `edits`, and `FromInv` become "the lists since the request was sent".
