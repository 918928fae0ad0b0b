------------------------------ MODULE MCListing -----------------------------
(* Instances of Listing for model checking. *)
EXTENDS Listing, TLC

CONSTANTS k1, k2         \* API keys

V == "v"    \* vendors
W == "w"
X == "x"

Codex  == "codex"
Claude == "claude"

MCSections == <<Codex, Claude>>
MCDefault  == [s \in {Codex, Claude, Compat} |->
                  IF s = Claude THEN <<"anthropic">> ELSE <<>>]

MCAtoi == ("-1" :> -1) @@ ("0" :> 0) @@ ("1" :> 1) @@ ("2" :> 2) @@ ("3" :> 3)
          @@ ("4" :> 4) @@ ("5" :> 5) @@ ("6" :> 6)

MCTrimmed == (" " :> "") @@ (" v" :> V) @@ (" 2" :> "2")
             @@ [t \in DOMAIN MCAtoi \cup {"", V, W, X, "balance"} |-> t]

MCVendorRank == (V :> 2) @@ (W :> 1) @@ (X :> 0)
\* The tails of all keys are the same.
MCTailRank   == [k \in {k1, k2} |-> 1]

Matching(id, patterns) == Source(id, "", patterns, <<"q">>, "balance")

\* Two sources, one inside the other; a source that covers the default, and
\* one that covers nothing at all.
MCSources == {<<Matching(V, <<<<"h", "">>>>),
                Matching(W, <<<<"x">>, <<>>, <<"h", "p">>>>)>>,
              <<Matching(V, <<<<"anthropic">>, <<"h", "p">>>>),
                Matching(X, <<<<"">>>>)>>}

\* No URL, a host, with a slash, a path below, and a path that only looks so.
Bases == {<<>>, <<"h", "">>, <<"h", "p">>, <<"h", "pp">>}

Key(key, base, excluded) == [key |-> key, base |-> base, excluded |-> excluded]

Keys == {Key(k1, b, FALSE) : b \in Bases}
        \cup {Key(k1, <<"h", "p">>, TRUE), Key(NoKey, <<"h", "p">>, FALSE),
              Key(k2, <<"h">>, FALSE), Key(k2, <<>>, FALSE), Key(k2, <<>>, TRUE)}

AtMostOne(S) == {<<>>} \cup {<<s>> : s \in S}

CompatKeys == {k \in Keys : k.base # <<"h", "pp">>}

Providers == {[base |-> b, disabled |-> d, keys |-> ks] :
                 b \in {<<"h", "p", "">>, <<>>}, d \in BOOLEAN,
                 ks \in AtMostOne(CompatKeys)}

HostFile(codex, claude, providers) ==
    [lists |-> [s \in {Codex, Claude} |-> IF s = Codex THEN codex ELSE claude],
     providers |-> providers]

\* As the dashboard asks, as its addresses do, and documents spelt by hand:
\* blanks, no numbers, numbers out of range, both spellings at once, and the
\* spelling of the fragments.
MCQueries ==
    {BuildTarget(v, p, n) : v \in {"", V, W, X}, p \in 1 .. 3, n \in {1, 2}}
    \cup {SyncURL(v, p) : v \in {"", V}, p \in 1 .. 2}
    \cup {Query(V, "", "1", "", "", ""), Query("", W, "6", "", "3", "")}
    \cup {Query(" v", W, "-1", "2", "", "5"), Query("", " v", "0", "", "0", "1"),
          Query(" ", V, "", "x", "x", "1"), Query("", "", " 2", "1", "", "1")}

\* A key here, a key there, a provider.
MCFiles == {HostFile(a, b, p) : a \in AtMostOne(Keys), b \in AtMostOne(Keys),
                                  p \in AtMostOne(Providers)}
=============================================================================
