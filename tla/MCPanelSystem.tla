---------------------------- MODULE MCPanelSystem ---------------------------
(* Instances of PanelSystem for model checking. *)
EXTENDS PanelSystem, TLC

CONSTANTS t1, t2,        \* threads
          a1, b1,        \* entries, one of each vendor
          A, B           \* vendors

MCEntries  == {a1, b1}
MCVendors  == {A, B}
MCVendorOf == (a1 :> A) @@ (b1 :> B)
MCRank     == (a1 :> 1) @@ (b1 :> 2)

\* One card is fresh, the other has to be fetched.
MCCachedAt == (a1 :> 1)

MCSites    == {[scan |-> <<a1, b1>>, vendors |-> MCVendors]}
MCFiles    == {[readable |-> TRUE, lists |-> MCEntries]}
MCConfigs  == {[ttl |-> 0, vendors |-> MCVendors]}

\* Everything the dashboard may ask for: a page, a forced page, a card.
MCRequests == {r \in [path : {"status"}, vendor : MCVendors \cup {AllTab},
                      page : {1}, size : {DefaultPageSize},
                      idx : -1 .. 1, force : BOOLEAN] :
                 r.force => r.idx = -1}
=============================================================================
