------------------------------ MODULE MCPlugin ------------------------------
(* Instances of Plugin for model checking. *)
EXTENDS Plugin, TLC

Row(type, unit, percent, resetsAt) ==
    [type |-> type, unit |-> unit, percent |-> percent, resetsAt |-> resetsAt]

AtMostThree(S) == UNION {[1 .. n -> S] : n \in 0 .. 3}

\* Rows that name a window, rows that do not, a monthly one, an unknown one.
ZhipuRows == {Row("TOKENS_LIMIT", 3, 10, 5), Row("CREDIT_LIMIT", 6, 20, 6),
              Row("TOKENS_LIMIT", 0, 30, 4), Row("CREDIT_LIMIT", 9, 40, 7),
              Row("TOKENS_LIMIT", 0, 50, 0), Row("TIME_LIMIT", 0, 60, 0),
              Row("TIME_LIMIT", 0, 0, 0),    Row("OTHER_LIMIT", 3, 70, 1)}

ClineRows == {Row(t, 0, 10, 0) : t \in {"five_hour", "weekly", "monthly", "daily"}}

ClineData == {Nil} \cup AtMostThree(ClineRows)

Amounts == {Q!NoAmount, Q!Amount(-5), Q!Amount(0), Q!Amount(8)}

Limit(used, cap) == [used |-> used, cap |-> cap, resetsAt |-> 1]

\* Nothing, a window with and without a limit, and one used up and more.
FiveHour == {Nil, Limit(Q!Amount(7), Q!Amount(5)), Limit(Q!Amount(7), Q!NoAmount)}
Weekly   == {Nil, Limit(Q!NoAmount, Q!Amount(5)), Limit(Q!Amount(-1), Q!Amount(0))}

Limits == {Nil} \cup {[rolling |-> f, weekly |-> w] : f \in FiveHour, w \in {Limit(Q!NoAmount, Q!Amount(5))}}
          \cup {[rolling |-> Nil, weekly |-> w] : w \in Weekly}

\* Left over: less than an allowance, all of it, a cent more, two cents more.
Left == Amounts \cup {Q!Amount(10), Q!Amount(11), Q!Amount(12), Q!Amount(40)}

Credits == {[monthly |-> m, purchased |-> p, free |-> Q!NoAmount, granted |-> g,
             limits |-> l] :
               m \in Left, p \in {Q!NoAmount, Q!Amount(3)}, g \in Amounts,
               l \in {Nil, [rolling |-> Limit(Q!Amount(1), Q!Amount(4)), weekly |-> Nil]}}

\* Amounts that are no numbers: of a limit, of what is used of it, of what is
\* left and of an allowance.
NoNumbers == {Q!Amount(NaN), Q!Amount(PosInf), Q!Amount(NegInf)}

OddLimits == {[rolling |-> Limit(u, c), weekly |-> Nil] :
                 u \in NoNumbers \cup {Q!Amount(7)}, c \in NoNumbers \cup {Q!Amount(5)}}

OddCredits == {[monthly |-> m, purchased |-> Q!NoAmount, free |-> Q!NoAmount,
                granted |-> g, limits |-> Nil] :
                  m \in NoNumbers \cup Left, g \in NoNumbers \cup Amounts}

OddBodies == {[credits |-> c, limits |-> Nil] : c \in OddCredits}
             \cup {[credits |-> Nil, limits |-> l] : l \in OddLimits}

MCBodies ==
    ("percent-windows"  :> {[w \in Q!WindowKeys |-> [percent |-> 10, resetsAt |-> 1]]}) @@
    ("balance"          :> {<<>>, <<5>>}) @@
    ("coding-plan"      :> {<<>>, <<1, 2>>}) @@
    ("grants"           :> {<<>>, <<1>>}) @@
    ("zhipu-plan"       :> {[code |-> c, rows |-> rs] :
                               c \in {0, 200, 401}, rs \in AtMostThree(ZhipuRows)}) @@
    ("cline-plan"       :> {[success |-> s, rows |-> rs] :
                               s \in BOOLEAN, rs \in ClineData}) @@
    ("commandcode-plan" :> {[credits |-> c, limits |-> l] :
                               c \in {Nil} \cup Credits, l \in Limits} \cup OddBodies)

MCCatalog == ("go" :> 10) @@ ("pro" :> 30)

MCPlanBodies ==
    {[success |-> s, data |-> d] : s \in BOOLEAN,
        d \in {Nil} \cup {[planId |-> id, resetsAt |-> 9] : id \in {"", "go", "pro", "new"}}}

-----------------------------------------------------------------------------
Raw(ttl, sources) == [path |-> "", ttl |-> ttl, sources |-> sources]

Good(id, url, kindOf) ==
    Source(id, " ", <<<<"h", "">>, <<"">>>>, url, kindOf)

\* The defaults; a source of the kind they lack; Command Code elsewhere.
Accepted == {Raw(0, <<>>),
             Raw(60, <<Good(" v", <<"h", "grants">>, "grants")>>),
             Raw(-1, <<Good("v", <<"h", "usage">>, "commandcode-plan"),
                       Good("w", <<"h", "billing", "credits", "">>,
                            "commandcode-plan")>>)}

\* Without an id, a pattern or a URL, of no kind, twice the same.
Refusable == {Raw(0, <<Good(" ", <<"h">>, "grants")>>),
              Raw(0, <<Source("v", "", <<>>, <<"h">>, "grants")>>),
              Raw(0, <<Good("v", <<>>, "grants")>>),
              Raw(0, <<Good("v", <<"h">>, "")>>),
              Raw(0, <<Good("v", <<"h">>, "grants"), Good(" v", <<"h">>, "grants")>>)}

MCConfigs == Accepted \cup Refusable

Texts == UNION {{s.id, s.name, s.kind} :
                   s \in ToSet(DefaultSources) \cup
                         UNION {ToSet(c.sources) : c \in MCConfigs}}
         \cup Kinds \cup {"", "v"}

MCTrimmed == [t \in Texts |-> CASE t = " "  -> ""
                              [] t = " v" -> "v"
                              [] OTHER    -> t]

MCHosts == {Nil, [calls |-> TRUE, frees |-> TRUE], [calls |-> FALSE, frees |-> TRUE]}
=============================================================================
