------------------------------ MODULE QuotaFetch ----------------------------
(***************************************************************************)
(* One lookup of one entry's quota: fetchOneQuota in quota.go, and the     *)
(* body of the card that shows its result (renderEntry in dashboard.go).   *)
(*                                                                         *)
(* Every vendor answers in a shape of its own; most result in up to three  *)
(* windows, "rolling" (5 hours), "weekly" and "monthly".  Command Code is  *)
(* asked twice: its first answer has no monthly window, the second names   *)
(* the subscription, from which the window is computed.  Either request    *)
(* may fail in any way.                                                    *)
(*                                                                         *)
(* A body is what it decodes to, or Malformed.  Money is in cents, where   *)
(* it is a number at all: amounts are floats, and may be NaN or infinite.  *)
(* Names, stamps and texts of errors are left out or opaque.               *)
(*                                                                         *)
(* This module has the steps of a lookup, Plugin has them together with    *)
(* the calls of the host that bring the answers, and PanelServer has the   *)
(* whole lookup as its step FetchOneQuota.                                 *)
(***************************************************************************)
EXTENDS Integers, SequencesExt, Filtering

CONSTANTS Nil,          \* nil: nothing of the kind
          Malformed,    \* a body that does not decode
          NaN, PosInf, NegInf,    \* the floats that are no numbers
          Catalog       \* commandCodePlans: the allowances of known plans

VARIABLES kind,     \* the kind of the entry's source
          path,     \* the path of its quota-url, part by part
          step,     \* "credits", "plan", "done": the request to be made
          body,     \* history: the first answer, Nil if there was none
          out       \* the result so far

vars == <<kind, path, step, body, out>>

WindowKeys == {"rolling", "weekly", "monthly"}

Floats == {NaN, PosInf, NegInf} \cup Int

Window == [percent : Floats, resetsAt : Int, used : Floats, cap : Floats]

NoWindows == <<>>

\* The zero quotaData.
Blank == [err |-> FALSE, windows |-> Nil, credits |-> Nil, balance |-> Nil,
          grants |-> <<>>, models |-> <<>>]

Failed == [Blank EXCEPT !.err = TRUE]

\* A function with another value at one place.
With(f, key, value) ==
    [k \in DOMAIN f \cup {key} |-> IF k = key THEN value ELSE f[k]]
-----------------------------------------------------------------------------
(* Vendors that report windows by their share in use                       *)

PercentWindow(row) ==
    [percent |-> row.percent, resetsAt |-> row.resetsAt, used |-> 0, cap |-> 0]

NoKey == ""

\* The rows that have a key write the window of that key, one after another.
Write(windows, rows, keys) ==
    [k \in DOMAIN windows \cup (ToSet(keys) \ {NoKey}) |->
        IF k \in ToSet(keys)
        THEN PercentWindow(rows[Max({i \in DOMAIN keys : keys[i] = k})])
        ELSE windows[k]]

Tokens(b) == Only(b.rows, {r \in ToSet(b.rows) : r.type \in {"TOKENS_LIMIT", "CREDIT_LIMIT"}})

\* The unit names a window: 3 the 5-hour one, 6 the weekly one.
NamedBy == [u \in {3, 6} |-> IF u = 3 THEN "rolling" ELSE "weekly"]

Unnamed(b) == Only(Tokens(b), {r \in ToSet(b.rows) : r.unit \notin DOMAIN NamedBy})

\* Slip: rows stay as they come.
AsTheyCome(rows) == rows

\* sort.Slice by the time of reset.
BySoonest(rows) ==
    LET Place(i) == Cardinality({j \in DOMAIN rows :
                        \/ rows[j].resetsAt < rows[i].resetsAt
                        \/ j <= i /\ rows[j].resetsAt = rows[i].resetsAt})
    IN  [n \in DOMAIN rows |-> rows[CHOOSE i \in DOMAIN rows : Place(i) = n]]

\* Rows without a unit, soonest reset first, take the places that are left.
FillIn(windows, rows) ==
    LET free == Only(<<"rolling", "weekly">>, {"rolling", "weekly"} \ DOMAIN windows)
    IN  Write(windows, BySoonest(rows),
              [i \in DOMAIN rows |-> IF i \in DOMAIN free THEN free[i] ELSE NoKey])

\* parseZhipuPlan: a failure may come as a body code.
ParseZhipuPlan(b) ==
    LET tokens  == Tokens(b)
        monthly == Write(NoWindows, b.rows,
                      [i \in DOMAIN b.rows |->
                          IF b.rows[i].type = "TIME_LIMIT" /\ b.rows[i].percent > 0
                          THEN "monthly" ELSE NoKey])
        named   == Write(monthly, tokens,
                      [i \in DOMAIN tokens |->
                          IF tokens[i].unit \in DOMAIN NamedBy
                          THEN NamedBy[tokens[i].unit] ELSE NoKey])
    IN  CASE b.code \notin {0, 200} -> Failed
          [] b.code \in {0, 200} /\ tokens = <<>> ->
                [Failed EXCEPT !.windows = monthly]
          [] b.code \in {0, 200} /\ tokens # <<>> ->
                [Blank EXCEPT !.windows = FillIn(named, Unnamed(b))]

ClineWindowKeys == [five_hour |-> "rolling", weekly |-> "weekly",
                    monthly |-> "monthly"]

ClineWindows(rows) ==
    Write(NoWindows, rows,
          [i \in DOMAIN rows |-> IF rows[i].type \in DOMAIN ClineWindowKeys
                                 THEN ClineWindowKeys[rows[i].type] ELSE NoKey])

\* Slip: there may be windows, but none.
WindowsAnyway(windows) == windows

\* An empty map of windows is not assigned.
WindowsIfAny(windows) == IF DOMAIN windows = {} THEN Nil ELSE windows

\* parseClinePlan: without a subscription, or without a window that is known,
\* the card stays empty.
ParseClinePlan(b) ==
    CASE ~ b.success -> Failed
      [] b.success /\ b.rows = Nil -> Blank
      [] b.success /\ b.rows # Nil ->
            [Blank EXCEPT !.windows = WindowsIfAny(ClineWindows(b.rows))]
-----------------------------------------------------------------------------
(* Command Code, which reports money                                       *)

\* flexFloat: a number, or a string that ParseFloat takes for one, which
\* "NaN" and "Inf" are as well; or nothing.  Any other string spoils the
\* whole body (Malformed).
Amount(n) == [set |-> TRUE, value |-> n]
NoAmount  == [set |-> FALSE, value |-> 0]

Number(x) == x \notin {NaN, PosInf, NegInf}

\* x < y and x <= y, as floats compare: NaN with nothing.
Below(x, y) ==
    /\ NaN \notin {x, y} /\ x # y
    /\ x = NegInf \/ y = PosInf \/ (Number(x) /\ Number(y) /\ x < y)

NotAbove(x, y) == Below(x, y) \/ (x = y /\ x # NaN)

\* x - y, as floats subtract.
Minus(x, y) ==
    IF Number(x) /\ Number(y) THEN x - y
    ELSE IF x = y \/ NaN \in {x, y} THEN NaN
    ELSE IF Number(y) THEN x
    ELSE IF y = PosInf THEN NegInf ELSE PosInf

\* Of a limit that is not at most 0, the share in percent that is used.
Share(used, cap) ==
    IF Number(used) /\ Number(cap) THEN (used * 100) \div cap
    ELSE IF used = cap \/ NaN \in {used, cap} THEN NaN
    ELSE IF cap = PosInf THEN 0 ELSE PosInf

AtMost(x, limit)  == IF Below(limit, x) THEN limit ELSE x
AtLeast(x, limit) == IF Below(x, limit) THEN limit ELSE x

\* What is used, if it is said and more than nothing.
Used(w) == IF w.used.set /\ Below(0, w.used.value) THEN w.used.value ELSE 0

\* Slip: more may be used than there is.
WindowPercentUncapped(w) ==
    [percent |-> Share(Used(w), w.cap.value),
     resetsAt |-> w.resetsAt, used |-> Used(w), cap |-> w.cap.value]

\* commandCodeWindowPercent, for a window with a limit.
WindowPercent(w) ==
    [percent |-> AtMost(Share(Used(w), w.cap.value), 100),
     resetsAt |-> w.resetsAt, used |-> Used(w), cap |-> w.cap.value]

\* A window with a limit of nothing, or less, is no window.
Limited(limits) ==
    {k \in {"rolling", "weekly"} :
        /\ limits # Nil /\ limits[k] # Nil
        /\ limits[k].cap.set /\ ~ NotAbove(limits[k].cap.value, 0)}

\* parseCommandCodePlan: limits at the root of the body, or among the credits
\* when there are none at the root.
ParseCommandCodePlan(b) ==
    LET limits  == IF b.limits = Nil /\ b.credits # Nil THEN b.credits.limits ELSE b.limits
        windows == [k \in Limited(limits) |-> WindowPercent(limits[k])]
        c       == b.credits
        credits == IF c # Nil /\ (c.monthly.set \/ c.purchased.set \/ c.free.set)
                   THEN [monthly |-> c.monthly.value, purchased |-> c.purchased.value,
                         free |-> c.free.value, granted |-> c.granted.value,
                         plan |-> Nil]
                   ELSE Nil
    IN  IF DOMAIN windows = {} /\ credits = Nil THEN Failed
        ELSE [Blank EXCEPT !.windows = WindowsIfAny(windows),
                           !.credits = credits]

\* commandCodePlanURL: the path of the second request, if the first went to
\* .../billing/credits.  Slashes at the end are empty parts.
PlanPath(p) ==
    LET parts  == {i \in DOMAIN p : p[i] # ""}
        trim   == SubSeq(p, 1, IF parts = {} THEN 0 ELSE Max(parts))
        suffix == <<"billing", "credits">>
    IN  IF IsSuffix(suffix, trim)
        THEN SubSeq(trim, 1, Len(trim) - 2) \o <<"billing", "subscriptions">>
        ELSE Nil

\* parseCommandCodeSubscription and what comes before it: the subscription,
\* or Nil when anything is wrong.
Subscription(b) ==
    IF b = Malformed \/ b = Nil THEN Nil
    ELSE IF ~ b.success \/ b.data = Nil THEN Nil
    ELSE IF b.data.planId = "" THEN Nil ELSE b.data

\* The allowance of the month: as reported, or else as the catalog has it.
Grant(credits, sub) ==
    IF NotAbove(credits.granted, 0) /\ sub.planId \in DOMAIN Catalog THEN Catalog[sub.planId]
    ELSE credits.granted

MonthlyWindow(credits, grant, resetsAt) ==
    LET used == AtLeast(Minus(grant, credits.monthly), 0)
    IN  [percent |-> AtMost(Share(used, grant), 100),
         resetsAt |-> resetsAt, used |-> used, cap |-> grant]

\* Slip: what is left is not compared with the allowance.
PlausibleUnlessNone(credits, grant) == ~ NotAbove(grant, 0)

\* Not so that no allowance is known or more than it, by over a cent, is left.
Plausible(credits, grant) ==
    LET limit == IF Number(grant) THEN grant + 1 ELSE grant
    IN  ~ (NotAbove(grant, 0) \/ Below(limit, credits.monthly))

\* applyCommandCodeSubscription: add the monthly window.
ApplySubscription(o, sub) ==
    IF o.credits = Nil THEN o
    ELSE LET grant == Grant(o.credits, sub)
             known == sub.planId \in DOMAIN Catalog
             ws    == IF o.windows = Nil THEN NoWindows ELSE o.windows
         IN  IF ~ Plausible(o.credits, grant) THEN o
             ELSE [o EXCEPT
                    !.credits.plan = IF known THEN sub.planId ELSE @,
                    !.credits.granted = grant,
                    !.windows = With(ws, "monthly",
                                     MonthlyWindow(o.credits, grant, sub.resetsAt))]
-----------------------------------------------------------------------------
(* The lookup                                                              *)

\* parseQuotaPayload.
ParseQuotaPayload(k, b) ==
    CASE b = Malformed -> Failed
      [] b # Malformed /\ k = "percent-windows" ->
            [Blank EXCEPT !.windows = [w \in WindowKeys |-> PercentWindow(b[w])]]
      [] b # Malformed /\ k = "balance" ->
            [Blank EXCEPT !.balance = IF b = <<>> THEN 0 ELSE Head(b)]
      [] b # Malformed /\ k = "coding-plan" ->
            IF b = <<>> THEN Failed ELSE [Blank EXCEPT !.models = b]
      [] b # Malformed /\ k = "grants" -> [Blank EXCEPT !.grants = b]
      [] b # Malformed /\ k = "zhipu-plan" -> ParseZhipuPlan(b)
      [] b # Malformed /\ k = "cline-plan" -> ParseClinePlan(b)
      [] b # Malformed /\ k = "commandcode-plan" -> ParseCommandCodePlan(b)

\* A lookup begins, for an entry of a source of kind k.
Begin(k, p) ==
    /\ kind' = k
    /\ path' = p
    /\ step' = "credits"
    /\ body' = Nil
    /\ out' = Blank

\* fetchOneQuota: the first answer is in, or Nil: the host's HTTP client
\* failed, its answer is empty or does not decode, the status is not 200.
FirstAnswer(b) ==
    /\ step = "credits"
    /\ body' = b
    /\ out' = IF b = Nil THEN Failed ELSE ParseQuotaPayload(kind, b)
    /\ step' = IF kind = "commandcode-plan" /\ ~ out'.err /\ PlanPath(path) # Nil
               THEN "plan" ELSE "done"
    /\ UNCHANGED <<kind, path>>

\* Slip: the failure of the second request is the failure of the lookup.
SecondAnswerStrict(b) ==
    /\ step = "plan"
    /\ out' = IF Subscription(b) = Nil THEN [out EXCEPT !.err = TRUE]
              ELSE ApplySubscription(out, Subscription(b))
    /\ step' = "done"
    /\ UNCHANGED <<kind, path, body>>

\* fetchCommandCodeSubscription: the second answer, if the first went well.
SecondAnswer(b) ==
    /\ step = "plan"
    /\ out' = IF Subscription(b) = Nil THEN out
              ELSE ApplySubscription(out, Subscription(b))
    /\ step' = "done"
    /\ UNCHANGED <<kind, path, body>>

-----------------------------------------------------------------------------
(* The card                                                                *)

\* renderEntry: the parts of the body of a card with result o, in order.
CardBody(o) ==
    LET windows == IF o.windows = Nil THEN <<>>
                   ELSE Only(<<"rolling", "weekly", "monthly">>, DOMAIN o.windows)
        credits == IF o.credits = Nil THEN <<>> ELSE <<"credits">>
    IN  CASE o.err -> <<"error">>
          [] ~ o.err /\ (o.windows # Nil \/ o.credits # Nil) -> windows \o credits
          [] ~ o.err /\ o.windows = Nil /\ o.credits = Nil ->
                IF o.balance # Nil THEN <<"balance">>
                ELSE IF o.grants # <<>> THEN [i \in DOMAIN o.grants |-> "grant"]
                ELSE IF o.models # <<>> THEN [i \in DOMAIN o.models |-> "model"]
                ELSE <<"empty">>
-----------------------------------------------------------------------------
(* Properties                                                              *)

\* Every variable has its type; the bars that are computed here, and not by
\* the vendor, are between 0 and 100 percent, however much was used, unless
\* what is used or its limit is no number; then they may be NaN, but nothing
\* else (commandCodeWindowPercent, applyCommandCodeSubscription).
TypeOK ==
    /\ step \in {"credits", "plan", "done"}
    /\ out.err \in BOOLEAN
    /\ out.windows # Nil =>
          /\ DOMAIN out.windows \subseteq WindowKeys
          /\ \A k \in DOMAIN out.windows :
                /\ out.windows[k] \in Window
                /\ kind = "commandcode-plan" =>
                      \/ out.windows[k].percent \in 0 .. 100
                      \/ /\ out.windows[k].percent = NaN
                         /\ ~ (Number(out.windows[k].used) /\ Number(out.windows[k].cap))
    /\ step = "plan" => kind = "commandcode-plan" /\ ~ out.err

\* Every card says something when its lookup is over, and "no data" only
\* when the vendor said that there is none: no subscription or no window
\* that is known (Cline), no grants.  What failed says so, even when the
\* failure came with status 200 (renderEntry and the parsers).
CardSpeaks ==
    step = "done" =>
        /\ CardBody(out) # <<>>
        /\ (CardBody(out) = <<"empty">>) <=>
              /\ body # Nil /\ body # Malformed
              /\ \/ kind = "grants" /\ body = <<>>
                 \/ /\ kind = "cline-plan" /\ body.success
                    /\ body.rows = Nil \/ (\A i \in DOMAIN body.rows :
                           body.rows[i].type \notin DOMAIN ClineWindowKeys)

\* The rows of a Zhipu answer that name window u, and those that name none.
RowsOf(u) == {r \in ToSet(Tokens(body)) : r.unit = u}
Soonest(rows) == CHOOSE r \in rows : \A q \in rows : r.resetsAt <= q.resetsAt

\* The unit names the window; of the other rows the one reset soonest is the
\* 5-hour window and the next the weekly one, where there is no named one:
\* in whatever order the rows come, if they are reset at different times
\* (comment of parseZhipuPlan).
ZhipuWindowsRight ==
    /\ kind = "zhipu-plan" /\ step = "done" /\ ~ out.err
    /\ IsInjective([i \in DOMAIN Unnamed(body) |-> Unnamed(body)[i].resetsAt])
    =>
        LET others == ToSet(Unnamed(body))
            first  == IF RowsOf(3) = {} THEN others ELSE {}
            rest   == IF first = {} THEN others ELSE others \ {Soonest(others)}
            Is(key, named, left) ==
                IF named # {} THEN \E r \in named : out.windows[key] = PercentWindow(r)
                ELSE IF left # {} THEN out.windows[key] = PercentWindow(Soonest(left))
                ELSE key \notin DOMAIN out.windows
        IN  /\ Is("rolling", RowsOf(3), first)
            /\ Is("weekly", RowsOf(6), rest)

\* The monthly window of Command Code is no invention: its limit is the
\* allowance that was reported, or that of a plan in the catalog where none
\* was reported; and what is used and what is left add up to it, to the cent,
\* if they are numbers ("a renamed plan cannot produce a fabricated
\* percentage").  An allowance reported as NaN is taken for one.
MonthlyNotInvented ==
    kind = "commandcode-plan" /\ out.windows # Nil /\ "monthly" \in DOMAIN out.windows =>
        LET w == out.windows["monthly"]
        IN  /\ IF NotAbove(body.credits.granted.value, 0)
               THEN \E id \in DOMAIN Catalog : w.cap = Catalog[id]
               ELSE w.cap = body.credits.granted.value
            /\ Number(w.cap) /\ Number(out.credits.monthly) =>
                  /\ w.used >= 0
                  /\ w.used + out.credits.monthly - w.cap \in {0, 1}

\* The second lookup only adds: whatever becomes of it, the card keeps the
\* windows and what is left, and does not turn into an error (fetchOneQuota:
\* "a failure here leaves the card with its 5-hour/weekly data").
OnlyAdds ==
    step = "plan" =>
        /\ ToSet(CardBody(out)) \subseteq ToSet(CardBody(out'))
        /\ out.windows # Nil =>
              \A k \in DOMAIN out.windows : out'.windows[k] = out.windows[k]
        /\ out.credits # Nil =>
              /\ out'.credits.monthly = out.credits.monthly
              /\ out'.credits.purchased = out.credits.purchased
              /\ out'.credits.free = out.credits.free
=============================================================================
