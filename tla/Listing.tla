------------------------------- MODULE Listing ------------------------------
(***************************************************************************)
(* What the panel lists, in which order and on which page: scanConfigFile  *)
(* (scanner.go) takes the credentials out of the host's config file and    *)
(* merges them to one entry per vendor and key; selectPageView and         *)
(* buildPageData (dashboard.go) filter, sort and cut the entries to the    *)
(* cards of a page, each with the index by which it is fetched later.      *)
(* handleManagement (management.go) reads from a query what is to be       *)
(* shown; the dashboard writes such queries in two spellings, with the tab *)
(* that its script holds, which is not always the one the server read.     *)
(*                                                                         *)
(* URLs are as in PluginConfig, where the quota sources come from.         *)
(* Sorting by name is sorting by a rank; two keys with the same tail have  *)
(* the same rank.                                                          *)
(***************************************************************************)
EXTENDS Paging, PluginConfig

CONSTANTS Sections,      \* the *-api-key lists of the file, as scanned in turn
          Compat,        \* the openai-compatibility section
          DefaultBase,   \* the base URL of a section's entries that name none
          NoKey,         \* a blank API key
          HostFiles,     \* what the host's config file may say
          SourceLists,   \* the quota sources the plugin may be handed over
          VendorRank,    \* the order of vendor ids
          TailRank,      \* the order of the tails of keys
          Atoi,          \* texts that are numbers, and the numbers
          MaxInt,        \* the largest number that has a text
          Queries        \* what a browser may ask for

Credential == [key : {NoKey} \cup DOMAIN TailRank, base : Seq(STRING), excluded : BOOLEAN]

\* The plugin's configuration, for a list of sources.
Validated(srcs) == NormalizeAndValidate([path |-> "", ttl |-> 0, sources |-> srcs])

ASSUME ListingAssumption ==
    /\ Sections \in Seq(ToSet(Sections)) /\ Compat \notin ToSet(Sections)
    /\ HostFiles \subseteq
          [lists     : [ToSet(Sections) -> Seq(Credential)],
           providers : Seq([base : Seq(STRING), disabled : BOOLEAN,
                            keys : Seq(Credential)])]
    /\ \A s \in ToSet(Sections) \cup {Compat} : DefaultBase[s] \in Seq(STRING)
    /\ SourceLists \subseteq Seq(WrittenSource)

ASSUME RankAssumption ==
    /\ \A key \in DOMAIN TailRank : TailRank[key] \in Int
    /\ \A srcs \in SourceLists : Validated(srcs) # Nil =>
          LET ids == {src.id : src \in ToSet(Validated(srcs).sources)}
          IN  \A id \in ids :
                 /\ VendorRank[id] \in Int
                 /\ \A other \in ids : VendorRank[id] = VendorRank[other] => id = other

\* Nothing is not a number; what is written as a number is read as that number.
ASSUME SpellingAssumption ==
    /\ "" \notin DOMAIN Atoi /\ Trimmed[""] = ""
    /\ \A text \in DOMAIN Atoi : Atoi[text] \in Int
    /\ MaxInt \in Nat /\ MaxPageSize <= MaxInt
    /\ \A n \in 1 .. MaxInt :
          LET text == ToString(n)
          IN  /\ text # "" /\ Trimmed[text] = text
              /\ text \in DOMAIN Atoi /\ Atoi[text] = n
    /\ Queries \subseteq [partial : BOOLEAN,
                          vendor : DOMAIN Trimmed, v : DOMAIN Trimmed,
                          page : DOMAIN Trimmed, p : DOMAIN Trimmed,
                          page_size : DOMAIN Trimmed, pageSize : DOMAIN Trimmed]

AllVendors == ""    \* the empty vendor filter

VARIABLES hostFile,   \* the host's config file
          sources,    \* the sources of the runtime
          entries,    \* the entries of the runtime, as scanned
          asked,      \* what was asked for last
          shown       \* the page that was built for it

vars == <<hostFile, sources, entries, asked, shown>>
-----------------------------------------------------------------------------
(* Base URLs                                                               *)

\* Some pattern is the URL, or a prefix of it that ends at a "/".
MatchBaseURL(u, patterns) ==
    \E i \in DOMAIN patterns :
        LET p == NormalizeBaseURL(patterns[i])
        IN  p # <<>> /\ IsPrefix(p, NormalizeBaseURL(u))
-----------------------------------------------------------------------------
(* Scanning                                                                *)

FirstURL(u, v) == IF u # <<>> THEN u ELSE v

\* Slip: the provider's URL goes before the key's own.
EffectiveBaseProvider(section, own, providers) ==
    FirstURL(NormalizeBaseURL(providers),
             FirstURL(NormalizeBaseURL(own), DefaultBase[section]))

\* A key's own URL, or its provider's, or that of its section.
EffectiveBase(section, own, providers) ==
    FirstURL(NormalizeBaseURL(own),
             FirstURL(NormalizeBaseURL(providers), DefaultBase[section]))

\* The credentials of a list that are not blank; a key that the host excludes
\* from all models is left out where the host honours that.
Collect(section, providers, keys, honored) ==
    LET kept == Only(keys, {k \in ToSet(keys) : /\ k.key # NoKey
                                                /\ ~ (honored /\ k.excluded)})
    IN  [i \in DOMAIN kept |->
            [type |-> section, key |-> kept[i].key,
             base |-> EffectiveBase(section, kept[i].base, providers)]]

Items(f) ==
    LET enabled == Only(f.providers, {p \in ToSet(f.providers) : ~ p.disabled})
    IN  FlattenSeq([i \in DOMAIN Sections |->
                       Collect(Sections[i], <<>>, f.lists[Sections[i]], TRUE)])
        \o FlattenSeq([i \in DOMAIN enabled |->
                       Collect(Compat, enabled[i].base, enabled[i].keys, FALSE)])

\* Slip: an entry is told apart by its sections as well.
GroupedBySection(src, items) ==
    LET hits  == {i \in DOMAIN items : MatchBaseURL(items[i].base, src.patterns)}
        first == Only([i \in DOMAIN items |-> i],
                      {i \in hits : \A j \in hits :
                          /\ items[j].key = items[i].key
                          /\ items[j].type = items[i].type
                          => i <= j})
    IN  [n \in DOMAIN first |-> [vendor |-> src.id, key |-> items[first[n]].key,
                                 types |-> {items[first[n]].type}]]

\* One entry per key that a source matches, in the order in which they come.
Grouped(src, items) ==
    LET hits  == {i \in DOMAIN items : MatchBaseURL(items[i].base, src.patterns)}
        first == Only([i \in DOMAIN items |-> i],
                      {i \in hits : \A j \in hits : items[j].key = items[i].key => i <= j})
        Types(key) == {items[i].type : i \in {i \in hits : items[i].key = key}}
    IN  [n \in DOMAIN first |-> [vendor |-> src.id, key |-> items[first[n]].key,
                                 types |-> Types(items[first[n]].key)]]

ScanConfigFile(f, srcs) ==
    FlattenSeq([i \in DOMAIN srcs |-> Grouped(srcs[i], Items(f))])

\* No list is longer than an int can tell.
ASSUME LengthAssumption ==
    \A f \in HostFiles, srcs \in SourceLists :
        Validated(srcs) # Nil =>
            Len(ScanConfigFile(f, Validated(srcs).sources)) <= MaxInt
-----------------------------------------------------------------------------
(* Pages                                                                   *)

EntryLess(a, b) ==
    IF a.vendor = b.vendor THEN TailRank[a.key] < TailRank[b.key]
    ELSE VendorRank[a.vendor] < VendorRank[b.vendor]

\* A stable sort: an entry comes after all that are less, and after those
\* before it that are not greater.
SortStable(es) ==
    LET Place(i) == Cardinality({j \in DOMAIN es :
                        \/ EntryLess(es[j], es[i])
                        \/ j <= i /\ ~ EntryLess(es[i], es[j])})
    IN  [n \in DOMAIN es |-> es[CHOOSE i \in DOMAIN es : Place(i) = n]]

FilteredBy(es, vendor) ==
    Only(es, {e \in ToSet(es) : vendor \in {AllVendors, e.vendor}})

\* Slip: the page is cut out before the entries are sorted.
SelectPageViewUnsorted(es, vendor, size, page) ==
    LET filtered == FilteredBy(es, vendor)
        w == PageWindow(Len(filtered), NormalPageSize(size), NormalPage(page))
    IN  [page |-> w.page, total |-> Len(filtered),
         entries |-> SubSeq(filtered, w.start + 1, w.end)]

\* Slip: the page starts one entry late, as if positions counted from 1.
SelectPageViewShifted(es, vendor, size, page) ==
    LET sorted == SortStable(FilteredBy(es, vendor))
        w == PageWindow(Len(sorted), NormalPageSize(size), NormalPage(page))
    IN  [page |-> w.page, total |-> Len(sorted),
         entries |-> SubSeq(sorted, w.start + 2, w.end)]

SelectPageView(es, vendor, size, page) ==
    LET sorted == SortStable(FilteredBy(es, vendor))
        w == PageWindow(Len(sorted), NormalPageSize(size), NormalPage(page))
    IN  [page |-> w.page, total |-> Len(sorted),
         entries |-> SubSeq(sorted, w.start + 1, w.end)]

\* Slip: the tabs count the entries of the page.
BuildPageDataOfView(es, srcs, view) ==
    [page  |-> view.page, total |-> view.total,
     tabs  |-> [i \in DOMAIN srcs |->
                   [vendor |-> srcs[i].id,
                    count |-> Len(FilteredBy(view.entries, srcs[i].id))]],
     cards |-> SortStable([i \in DOMAIN view.entries |->
                   [idx |-> i - 1, vendor |-> view.entries[i].vendor,
                    key |-> view.entries[i].key]])]

\* The cards carry the index they had before they are sorted once more; the
\* tabs count the entries of the runtime.
BuildPageData(es, srcs, view) ==
    [page  |-> view.page, total |-> view.total,
     tabs  |-> [i \in DOMAIN srcs |->
                   [vendor |-> srcs[i].id,
                    count |-> Len(FilteredBy(es, srcs[i].id))]],
     cards |-> SortStable([i \in DOMAIN view.entries |->
                   [idx |-> i - 1, vendor |-> view.entries[i].vendor,
                    key |-> view.entries[i].key]])]
-----------------------------------------------------------------------------
(* Queries                                                                 *)

\* The query of a document; what is left out of it is "".
Query(vendor, v, page, p, dashed, camel) ==
    [partial |-> FALSE, vendor |-> vendor, v |-> v, page |-> page, p |-> p,
     page_size |-> dashed, pageSize |-> camel]

FirstNonEmpty(a, b) == IF a # "" THEN a ELSE b

IntParam(text, def) ==
    LET n == Trimmed[text]
    IN  IF n \in DOMAIN Atoi /\ Atoi[n] >= 1 THEN Atoi[n] ELSE def

\* Slip: only the spelling of the fragments is read.
ParsedFragments(q) ==
    [vendor |-> Trimmed[q.vendor],
     page   |-> IntParam(q.page, 1),
     size   |-> IntParam(FirstNonEmpty(q.page_size, q.pageSize), DefaultPageSize)]

\* Both spellings are read, that of the fragments first.
Parsed(q) ==
    [vendor |-> Trimmed[FirstNonEmpty(q.vendor, q.v)],
     page   |-> IntParam(FirstNonEmpty(q.page, q.p), 1),
     size   |-> IntParam(FirstNonEmpty(q.page_size, q.pageSize), DefaultPageSize)]

\* The page sizes that may be asked for.
Sizes == {Parsed(q).size : q \in Queries}

\* buildTarget, as the script asks for a page, and for a card of it: with the
\* tab that it holds, and for fragments of the document.
BuildTarget(tab, page, size) ==
    [Query(tab, "", ToString(page), "", ToString(size), "") EXCEPT !.partial = TRUE]

\* syncURL, as the script writes the address bar, from the tab that it holds.
SyncURL(tab, page) == Query("", tab, "", ToString(page), "", "")
-----------------------------------------------------------------------------
\* The page that a query is answered with.
Answer(q) ==
    LET wanted == Parsed(q)
    IN  [vendor |-> wanted.vendor, size |-> NormalPageSize(wanted.size),
         data |-> BuildPageData(entries, sources,
                      SelectPageView(entries, wanted.vendor, wanted.size, wanted.page))]

NothingAsked == Query("", "", "", "", "", "")
NothingShown == [vendor |-> AllVendors, size |-> 1, data |->
                    [page |-> 1, total |-> 0, tabs |-> <<>>, cards |-> <<>>]]

\* A runtime was built, and has scanned the file.
Init ==
    /\ hostFile \in HostFiles
    /\ \E srcs \in SourceLists :
          Validated(srcs) # Nil /\ sources = Validated(srcs).sources
    /\ entries = ScanConfigFile(hostFile, sources)
    /\ asked = NothingAsked /\ shown = NothingShown

Tabs == {AllVendors} \cup {sources[i].id : i \in DOMAIN sources}

\* The tab that the script holds when the answer is on the screen: in a new
\* document what v= says and nothing else; with fragments the tab it asked
\* with, unless the panel has that tab no more.
CurrentTab ==
    IF ~ asked.partial THEN asked.v
    ELSE IF asked.vendor \in Tabs THEN asked.vendor ELSE AllVendors

\* A page is asked for (bound: one, since no page depends on those before).
Show == /\ shown = NothingShown
        /\ \E q \in Queries : asked' = q /\ shown' = Answer(q)
        /\ UNCHANGED <<hostFile, sources, entries>>

Next == Show

Spec == Init /\ [][Next]_vars
-----------------------------------------------------------------------------
(* Properties                                                              *)

\* Said without the loops: the credentials that the host routes requests to.
Live(f) ==
    (UNION {{[type |-> s, key |-> k.key, urls |-> <<k.base, <<>>, DefaultBase[s]>>] :
               k \in {k \in ToSet(f.lists[s]) : k.key # NoKey /\ ~ k.excluded}} :
            s \in ToSet(Sections)})
    \cup
    (UNION {{[type |-> Compat, key |-> k.key, urls |-> <<k.base, p.base, DefaultBase[Compat]>>] :
               k \in {k \in ToSet(p.keys) : k.key # NoKey}} :
            p \in {p \in ToSet(f.providers) : ~ p.disabled}})

\* The first URL of the three that says something lies at or under a pattern.
Covers(src, urls) ==
    LET Says(u) == \E i \in DOMAIN u : u[i] # ""
        Parts(u) == {<<i, u[i]>> : i \in {i \in DOMAIN u :
                        \E j \in DOMAIN u : i <= j /\ u[j] # ""}}
    IN  \E n \in 1 .. 3 :
           /\ Says(urls[n]) /\ \A m \in 1 .. n - 1 : ~ Says(urls[m])
           /\ \E i \in DOMAIN src.patterns :
                 /\ Says(src.patterns[i])
                 /\ Parts(src.patterns[i]) \subseteq Parts(urls[n])

\* The list holds the keys in use with a known vendor and no others, each
\* with the sections it is used in: no key that the host had switched off,
\* none of a look-alike host, none lost to a slash, and none caught by a
\* source whose patterns are all blank, which normalizeAndValidate lets pass
\* (scanConfigFile, matchBaseURL).
ScanExact ==
    LET Uses(src, key) == {c \in Live(hostFile) : c.key = key /\ Covers(src, c.urls)}
    IN  ToSet(entries) =
            UNION {{[vendor |-> src.id, key |-> key,
                     types |-> {c.type : c \in Uses(src, key)}] :
                        key \in {c.key : c \in {c \in Live(hostFile) :
                                                     Covers(src, c.urls)}}} :
                   src \in ToSet(sources)}

\* A key is listed once per vendor, however many sections use it: the cache
\* has one place for it (scanConfigFile, byKey).
OncePerVendor ==
    \A i, j \in DOMAIN entries :
        /\ entries[i].vendor = entries[j].vendor
        /\ entries[i].key = entries[j].key
        => i = j

\* A card is at the place its index says, although the cards are sorted after
\* they were numbered: the lazy request for an index gets the card that is
\* there (buildPageData, renderEntryHTML).
IdxIsPlace ==
    \A i \in DOMAIN shown.data.cards : shown.data.cards[i].idx = i - 1

\* Each way of asking in its own spelling: fragments, of a tab that the panel
\* has, and documents, of any tab.
OwnSpelling(q) ==
    IF q.partial THEN q.v = "" /\ q.vendor \in Tabs ELSE q.vendor = ""

\* With the tab that the script holds, the query for the page on the screen
\* or for a card of it, and the address that it writes, are answered with
\* that page: a reload and a lazy request number the cards as the grid does
\* (handleManagement: "accept both spellings so a page reload renders the
\* same filtered view").  The page and the size may be asked for in any way.
\* An address does not name the size; only the default one survives a reload.
SameViewAgain ==
    shown # NothingShown /\ OwnSpelling(asked) =>
        /\ Answer(BuildTarget(CurrentTab, shown.data.page, shown.size)) = shown
        /\ shown.size = DefaultPageSize =>
              Answer(SyncURL(CurrentTab, shown.data.page)) = shown

\* Turning the pages of a tab shows every entry of the tab once, and no page
\* but the last is short (selectPageView, pageWindow).
PagesTile ==
    \A vendor \in Tabs, size \in Sizes :
        LET View(n) == SelectPageView(entries, vendor, size, n)
            last    == PageCount(View(1).total, NormalPageSize(size))
            pages   == FlattenSeq([n \in 1 .. last |-> View(n).entries])
        IN  /\ ToSet(pages) = ToSet(FilteredBy(entries, vendor))
            /\ Len(pages) = View(1).total
            /\ \A n \in 1 .. last - 1 : Len(View(n).entries) = NormalPageSize(size)

\* The sum of a list of numbers.
SumOf(numbers) ==
    LET sum[n \in 0 .. Len(numbers)] ==
            IF n = 0 THEN 0 ELSE sum[n - 1] + numbers[n]
    IN  sum[Len(numbers)]

\* The counts on the tabs are those of all entries, whatever is shown: a tab's
\* own is its number of cards on all pages, and together they are the number
\* of cards of all vendors (buildPageData).
CountsAreTotals ==
    LET tabs == shown.data.tabs
    IN  SumOf([i \in DOMAIN tabs |->
                  IF shown.vendor \in {AllVendors, tabs[i].vendor}
                  THEN tabs[i].count ELSE 0]) = shown.data.total
=============================================================================
