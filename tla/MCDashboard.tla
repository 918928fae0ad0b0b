----------------------------- MODULE MCDashboard ----------------------------
(* Instances of Dashboard for model checking. *)
EXTENDS Dashboard, TLC

CONSTANTS a1, b1, b2,    \* entries: one key of a vendor, two of another
          A, B           \* vendors

MCEntries  == {a1, b1, b2}
MCVendors  == {A, B}
MCVendorOf == (a1 :> A) @@ (b1 :> B) @@ (b2 :> B)

\* Two pages of all entries, one page of each vendor.
Full   == [scan |-> <<a1, b1, b2>>, vendors |-> {A, B}]
\* The plugin was reconfigured without a vendor.
NoB    == [scan |-> <<a1>>, vendors |-> {A}]

\* A filtering loop is SelectSeq.
ASSUME OnlyIsSelectSeq ==
       \A s \in UNION {[1 .. n -> MCEntries] : n \in 0 .. 4} :
          \A S \in SUBSET MCEntries :
             Only(s, S) = SelectSeq(s, LAMBDA x : x \in S)

OneSite  == {Full}
MCSites  == {Full, NoB}
=============================================================================
