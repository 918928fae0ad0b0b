----------------------------- MODULE QuotaBoard -----------------------------
(***************************************************************************)
(* What the panel promises about its quota results, apart from how they    *)
(* come about: there is one board of results per configuration generation. *)
(* A new configuration starts an empty board, unloading the plugin takes   *)
(* it down, and in between single cards are filled or renewed with results *)
(* fetched for that very entry under that very generation.  A result that  *)
(* arrives for a generation that is over leaves no trace.                  *)
(***************************************************************************)
EXTENDS Integers

CONSTANTS Entries,        \* the (vendor, key) pairs that may have a quota
          Generations,    \* names of the configuration generations
          NoGeneration,   \* "not configured"
          Times,          \* the instants at which a fetch may start
          NoResult        \* "nothing cached"

VARIABLES generation,     \* the generation on display, or NoGeneration
          spent,          \* the generations that were ever on display
          board           \* the result shown for every entry

vars == <<generation, spent, board>>

Result == [key : Entries, gen : Generations, fetchedAt : Times]

Empty == [e \in Entries |-> NoResult]

Init == /\ generation = NoGeneration
        /\ spent = {}
        /\ board = Empty

\* The plugin is (re)configured: a generation never seen before begins.
Begin == \E g \in Generations \ spent :
            /\ generation' = g
            /\ spent' = spent \cup {g}
            /\ board' = Empty

\* The plugin is unloaded.
End == /\ generation' = NoGeneration
       /\ board' = Empty
       /\ UNCHANGED spent

\* One card is filled or renewed with a result of its own.
Publish(e) == \E at \in Times :
                /\ generation # NoGeneration
                /\ board' = [board EXCEPT ![e] =
                       [key |-> e, gen |-> generation, fetchedAt |-> at]]
                /\ UNCHANGED <<generation, spent>>

Next == Begin \/ End \/ \E e \in Entries : Publish(e)

Spec == Init /\ [][Next]_vars
=============================================================================
