---------------------------- MODULE MCPanelServer ---------------------------
(* Instances of PanelServer for model checking. *)
EXTENDS PanelServer, TLC

CONSTANTS t1, t2,        \* threads
          a1, a2, b1,    \* entries: two keys of one vendor, one of another
          A, B           \* vendors

MCEntries  == {a1, a2, b1}
TwoEntries == {a1, b1}
MCVendors  == {A, B}
MCVendorOf == (a1 :> A) @@ (a2 :> A) @@ (b1 :> B)
TwoVendorOf == (a1 :> A) @@ (b1 :> B)
TwoRank    == (a1 :> 1) @@ (b1 :> 3)
MCRank     == (a1 :> 1) @@ (a2 :> 2) @@ (b1 :> 3)

Ask(vendor, page, idx, force) ==
    [path |-> "status", vendor |-> vendor, page |-> page, size |-> 0,
     idx |-> idx, force |-> force]

\* Open a page, fill one card lazily, refresh a page, refresh one card, a
\* filter that may match nothing, a page past the end, an unknown path.
MCRequests ==
    {Ask(AnyVendor, 1, -1, FALSE), Ask(AnyVendor, 1, 0, FALSE),
     Ask(AnyVendor, 2, -1, TRUE),  Ask(A, 1, 1, FALSE),
     Ask(B, 9, -1, TRUE),
     [Ask(AnyVendor, 1, -1, TRUE) EXCEPT !.path = "other"]}

ThreadSymmetry == Permutations({t1, t2})

\* Two requests that race for the same card.
RaceRequests == {Ask(AnyVendor, 1, 0, FALSE), Ask(AnyVendor, 1, -1, TRUE)}

\* Fill the second card, or open the page if there is no such card; refresh a
\* page of one card, refresh a tab whose vendor may be gone, an unknown path.
FileRequests ==
    {Ask(AnyVendor, 1, 1, FALSE),
     [Ask(AnyVendor, 2, -1, TRUE) EXCEPT !.size = 1],
     Ask(B, 9, -1, TRUE),
     [Ask(AnyVendor, 1, -1, TRUE) EXCEPT !.path = "other"]}

OneConfig == {[ttl |-> 1, vendors |-> {A, B}]}

File(lists) == [readable |-> TRUE, lists |-> lists]
Broken      == [readable |-> FALSE, lists |-> {}]

MCFiles  == {File(MCEntries), File({a2}), Broken}

TwoFiles == {File(TwoEntries), File({a1}), Broken}

OneFile  == {File(TwoEntries)}
=============================================================================
