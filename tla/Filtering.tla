------------------------------ MODULE Filtering -----------------------------
(***************************************************************************)
(* The loops of the panel that go through a list once and keep some of it: *)
(* the entries of one vendor, the cards without a fresh quota, the patterns*)
(* that are not blank.                                                     *)
(*                                                                         *)
(* Only(s, S) is SelectSeq(s, LAMBDA x : x \in S), written as a recursive  *)
(* function, because the prover has no definition of SelectSeq; that the   *)
(* two agree is checked by MCDashboard.                                    *)
(***************************************************************************)
EXTENDS Integers, Sequences

\* What the loop has kept after each of its rounds, from none to all.
Rounds(s, S) ==
    LET kept[n \in 0 .. Len(s)] ==
            IF n = 0 THEN <<>>
            ELSE IF s[n] \in S THEN Append(kept[n - 1], s[n]) ELSE kept[n - 1]
    IN  kept

\* The elements of s that are in S, in the order in which they come.
Only(s, S) == Rounds(s, S)[Len(s)]
=============================================================================
