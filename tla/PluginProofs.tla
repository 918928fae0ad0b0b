----------------------------- MODULE PluginProofs ---------------------------
(***************************************************************************)
(* What Plugin promises, proved for all configurations, hosts and answers: *)
(* memory at the border (Memory), configurations that pass validation      *)
(* (RuntimeSound), the two requests for Command Code (Lookup), and for     *)
(* every kind of vendor what becomes of its answers (Cards).               *)
(***************************************************************************)
EXTENDS Plugin, PluginConfigProofs, FiniteSetTheorems

USE DEF Idle, Busy
-----------------------------------------------------------------------------
(* Memory                                                                  *)

Calls == [pc : {"idle", "lookup", "away", "reply"}, wants : BOOLEAN,
          rc : {0, 1}, ok : BOOLEAN]

\* Before the plugin is loaded nothing is allocated: the host's table, which
\* says whether buffers can be freed, does not change afterwards.
Memory ==
    /\ call \in Calls
    /\ ~ loaded => call = Idle /\ held = {}
    /\ NothingLeaks

LEMMA ReplyMemory ==
    ASSUME Memory, call = Idle \/ call = Busy, loaded, UNCHANGED <<loaded, stored>>,
           NEW wants \in BOOLEAN, NEW rc \in {0, 1}, NEW ok \in BOOLEAN,
           Reply(wants, rc, ok)
    PROVE  Memory'
  BY DEF Memory, NothingLeaks, CanFree, Reply, Calls

LEMMA HostCallsMemory ==
    ASSUME Memory, HostCalls
    PROVE  Memory'
<1>1. CASE StartLookup
  BY <1>1 DEF Memory, NothingLeaks, CanFree, Calls, HostCalls, StartLookup
<1>2. CASE \E wants \in BOOLEAN, rc \in {0, 1}, ok \in BOOLEAN : Reply(wants, rc, ok)
  BY <1>2, ReplyMemory DEF HostCalls
<1>3. ASSUME NEW wants \in BOOLEAN, NEW raw, Configure(raw, wants)
      PROVE  \E rc \in {0, 1}, ok \in BOOLEAN : Reply(wants, rc, ok)
  <2> DEFINE cfg == IF raw = Malformed THEN Nil ELSE NormalizeAndValidate(raw)
  <2>1. Reply(wants, IF cfg = Nil THEN 1 ELSE 0, cfg # Nil)
    BY <1>3 DEF Configure
  <2> QED
    BY <2>1
<1> QED
  BY <1>1, <1>2, <1>3 DEF HostCalls, OtherCall, AnswerAtOnce

LEMMA MemoryStep ==
    ASSUME Memory, [Next]_vars
    PROVE  Memory'
<1>1. CASE PluginInit
  BY <1>1 DEF Memory, NothingLeaks, CanFree, Calls, PluginInit
<1>2. CASE HostCalls
  BY <1>2, HostCallsMemory
<1>3. CASE EndLookup
  BY <1>3, ReplyMemory DEF EndLookup, Memory
<1>4. CASE FreeReply
  BY <1>4 DEF Memory, NothingLeaks, CanFree, Calls, FreeReply
<1>5. CASE Shutdown
  BY <1>5 DEF Memory, NothingLeaks, CanFree, Calls, Shutdown
<1>6. CASE CallHost
  BY <1>6 DEF Memory, NothingLeaks, CanFree, Calls, CallHost
<1>7. CASE Return
  <2>1. /\ call.pc = "away" /\ call' = Busy
        /\ held' = held \ (IF CanFree THEN {"method", "payload", "buffer"}
                           ELSE {"method", "payload"})
        /\ loaded' = loaded /\ CanFree' = CanFree
    BY <1>7 DEF Return, CanFree
  <2>2. /\ held' \cap {"method", "payload"} = {}
        /\ "buffer" \in held' => ~ CanFree
        /\ "reply" \in held' => "reply" \in held
    BY <2>1
  <2>3. loaded /\ "reply" \notin held
    BY <2>1 DEF Memory, NothingLeaks
  <2>4. Busy \in Calls /\ Busy.pc = "lookup"
    BY DEF Calls
  <2> QED
    BY <2>1, <2>2, <2>3, <2>4, Zenon DEF Memory, NothingLeaks
<1>8. CASE UNCHANGED vars
  BY <1>8 DEF Memory, NothingLeaks, CanFree, Calls, vars
<1> QED
  BY <1>1, <1>2, <1>3, <1>4, <1>5, <1>6, <1>7, <1>8 DEF Next

\* Whatever the host's callbacks bring and in whatever order the host calls,
\* reconfigures and unloads, no memory of a callback outlives it, unless the
\* host gave nothing to free it with (callHostBridge, writeResponse).
THEOREM MemoryIsFreed == Spec => []NothingLeaks
<1>1. Init => Memory
  BY DEF Init, Memory, Calls, NothingLeaks
<1>2. Memory /\ [Next]_vars => Memory'
  BY MemoryStep
<1>3. Memory => NothingLeaks
  BY DEF Memory
<1> QED
  BY <1>1, <1>2, <1>3, PTL DEF Spec
-----------------------------------------------------------------------------
(* What a step may not do                                                  *)

\* A call that reports an error has left the runtime alone, and nothing but
\* a successful call or unloading replaces it (configure, cliproxyPluginCall).
THEOREM ErrorsLeaveRuntime == Spec => ErrorsChangeNothing
<1> DEFINE Right == active' # active =>
                      \/ call = Idle /\ call'.pc = "reply" /\ call'.rc = 0 /\ call'.ok
                      \/ call' = call /\ active' = Nil
<1>1. ASSUME Next PROVE Right
  <2>1. CASE HostCalls
    <3>1. ASSUME NEW wants, NEW raw, Configure(raw, wants) PROVE Right
      <4> DEFINE cfg == IF raw = Malformed THEN Nil ELSE NormalizeAndValidate(raw)
      <4>1. /\ active' = IF cfg = Nil THEN active ELSE cfg
            /\ call' = [pc |-> "reply", wants |-> wants,
                        rc |-> IF cfg = Nil THEN 1 ELSE 0, ok |-> cfg # Nil]
        BY <3>1 DEF Configure, Reply
      <4> QED
        BY <2>1, <4>1 DEF HostCalls
    <3> QED
      BY <2>1, <3>1 DEF HostCalls, OtherCall, AnswerAtOnce, StartLookup
  <2> QED
    BY <1>1, <2>1 DEF Next, PluginInit, EndLookup, FreeReply, Shutdown, CallHost, Return
<1>2. [Next]_vars => [Right]_vars
  BY <1>1
<1> QED
  BY <1>2, PTL DEF Spec, ErrorsChangeNothing

\* A card shows nothing but what came with success in the status, in the
\* envelope and in the code of the callback (callHostBridge, hostHTTPDo).
THEOREM NothingElseIsShown == Spec => OnlySuccessIsShown
<1> DEFINE Right == call.pc = "away" /\ out' # out /\ ~ out'.err =>
                      /\ answer.code = 0
                      /\ answer.buffer.ok /\ answer.buffer.result.status = 200
<1>1. ASSUME Next PROVE Right
  <2>1. CASE Return
    <3>1. BodyOf(answer) # Nil =>
            answer.code = 0 /\ answer.buffer.ok /\ answer.buffer.result.status = 200
      BY DEF BodyOf, Succeeded
    <3>2. ASSUME Q!FirstAnswer(Nil) PROVE out'.err
      BY <3>2 DEF Q!FirstAnswer, Q!Failed, Q!Blank
    <3>3. ASSUME Q!SecondAnswer(Nil) PROVE out' = out
      BY <3>3 DEF Q!SecondAnswer, Q!Subscription
    <3> QED
      BY <2>1, <3>1, <3>2, <3>3 DEF Return
  <2>2. CASE HostCalls \/ EndLookup
    <3>1. call = Idle \/ call = Busy
      BY <2>2 DEF HostCalls, EndLookup
    <3> QED
      BY <3>1
  <2>3. CASE PluginInit \/ FreeReply \/ Shutdown \/ CallHost
    BY <2>3 DEF PluginInit, FreeReply, Shutdown, CallHost, lookup
  <2> QED
    BY <1>1, <2>1, <2>2, <2>3 DEF Next
<1>2. [Next]_vars => [Right]_vars
  BY <1>1
<1> QED
  BY <1>2, PTL DEF Spec, OnlySuccessIsShown
-----------------------------------------------------------------------------
(* Configurations                                                          *)

\* A configuration that passes validation is one the rest can work with.
LEMMA ValidSound ==
    ASSUME NEW cfg, cfg.ttl \in Int,
           WrittenList(cfg.sources),
           active' = NormalizeAndValidate(cfg), active' # Nil
    PROVE  RuntimeSound'
<1>1. /\ active'.ttl > 0 /\ active'.path # "" /\ active'.sources # <<>>
      /\ \A i, j \in DOMAIN active'.sources :
            active'.sources[i].id = active'.sources[j].id => i = j
      /\ \A src \in ToSet(active'.sources) : Usable(src)
  BY ValidUsable, Zenon DEF Fits
<1> QED
  BY <1>1, BodiesAssumption DEF RuntimeSound, Usable, Kinds, Parsers

LEMMA RuntimeStep ==
    ASSUME RuntimeSound, [Next]_vars
    PROVE  RuntimeSound'
<1>1. ASSUME NEW wants, NEW raw \in RawConfigs \cup {Malformed}, Configure(raw, wants)
      PROVE  RuntimeSound'
  <2>1. CASE active' = active
    BY <2>1 DEF RuntimeSound
  <2>2. CASE active' # active
    <3>1. raw # Malformed /\ active' = NormalizeAndValidate(raw) /\ active' # Nil
      BY <1>1, <2>2 DEF Configure
    <3>2. raw.ttl \in Int /\ raw.sources \in Seq(WrittenSource)
      BY <1>1, <3>1, ConfigsAssumption
    <3>3. \A src \in WrittenSource : Written(src)
      BY DEF Written, WrittenSource
    <3>4. \A i \in DOMAIN raw.sources : raw.sources[i] \in WrittenSource
      BY <3>2, LenProperties, ElementOfSeq
    <3>5. WrittenList(raw.sources)
      BY <3>2, <3>3, <3>4 DEF WrittenList
    <3> QED
      BY <3>1, <3>2, <3>5, ValidSound
  <2> QED
    BY <2>1, <2>2
<1>2. CASE active' = active \/ active' = Nil
  BY <1>2 DEF RuntimeSound
<1>3. CASE HostCalls
  BY <1>1, <1>2, <1>3 DEF HostCalls, OtherCall, AnswerAtOnce, StartLookup
<1> QED
  BY <1>2, <1>3 DEF Next, PluginInit, EndLookup, FreeReply, Shutdown, CallHost, Return, vars

\* Whatever the host hands over, the plugin runs with nothing, or with
\* sources that have places of their own, a parser, and patterns that can
\* match (normalizeAndValidate).
THEOREM RuntimeIsSound == Spec => []RuntimeSound
<1>1. Init => RuntimeSound
  BY DEF Init, RuntimeSound
<1>2. RuntimeSound /\ [Next]_vars => RuntimeSound'
  BY RuntimeStep
<1> QED
  BY <1>1, <1>2, PTL DEF Spec
-----------------------------------------------------------------------------
(* Rows that write windows                                                 *)

\* QuotaFetch's names for what is filtered, collected and counted.
LEMMA SameNames ==
    /\ \A s, S : Q!Only(s, S) = Only(s, S)
    /\ \A s : Q!ToSet(s) = ToSet(s)
    /\ \A S : Q!Cardinality(S) = Cardinality(S)
<1>1. \A s, S : Q!Only(s, S) = Only(s, S)
  BY DEF Only, Rounds, Q!Only, Q!Rounds
<1>2. \A s : Q!ToSet(s) = ToSet(s)
  BY DEF Q!ToSet, ToSet
<1>3. \A S : Q!Cardinality(S) = Cardinality(S)
  BY DEF Q!Cardinality, Cardinality
<1> QED
  BY <1>1, <1>2, <1>3

\* What is left of two places.
LEMMA OnlyOfTwo ==
    ASSUME NEW a, NEW b, NEW S
    PROVE  Only(<<a, b>>, S) =
              IF a \in S THEN IF b \in S THEN <<a, b>> ELSE <<a>>
              ELSE IF b \in S THEN <<b>> ELSE <<>>
<1> DEFINE s == <<a, b>>
           r == Rounds(s, S)
<1>1. Len(s) = 2 /\ s[1] = a /\ s[2] = b
  OBVIOUS
<1> HIDE DEF s
<1>2. /\ r[0] = <<>>
      /\ r[1] = IF a \in S THEN Append(r[0], a) ELSE r[0]
      /\ r[2] = IF b \in S THEN Append(r[1], b) ELSE r[1]
  <2>1. \A m \in 1 .. 2 : r[m] = IF s[m] \in S THEN Append(r[m - 1], s[m]) ELSE r[m - 1]
    BY <1>1, RoundsDef
  <2> QED
    BY <1>1, <2>1, RoundsDef
<1>3. Only(s, S) = r[2]
  BY <1>1 DEF Only
<1> HIDE DEF r
<1>4. /\ \A x : Append(<<>>, x) = <<x>>
      /\ Append(<<a>>, b) = <<a, b>>
  <2>1. \A x : Append(<<>>, x) = <<x>>
    OBVIOUS
  <2>2. Append(<<a>>, b) = <<a, b>>
    <3> DEFINE A == {a, b}
               t == Append(<<a>>, b)
               u == <<a, b>>
    <3>1. <<a>> \in Seq(A) /\ Len(<<a>>) = 1 /\ <<a>>[1] = a
      OBVIOUS
    <3>2. u \in Seq(A) /\ Len(u) = 2 /\ u[1] = a /\ u[2] = b
      OBVIOUS
    <3>3. t \in Seq(A) /\ Len(t) = 2 /\ t[1] = a /\ t[2] = b
      BY <3>1, AppendProperties
    <3> HIDE DEF A, t, u
    <3>4. t = u
      BY <3>2, <3>3, SeqEqual
    <3> QED
      BY <3>4 DEF t, u
  <2> QED
    BY <2>1, <2>2
<1> QED
  BY <1>2, <1>3, <1>4 DEF s

\* The last of some places.
LEMMA LastOne ==
    ASSUME NEW n \in Nat, NEW T \in SUBSET (1 .. n), T # {}
    PROVE  Q!Max(T) \in T
<1> DEFINE U == {m \in 0 .. n : n - m \in T}
<1>1. U \in SUBSET Nat
  OBVIOUS
<1>2. U # {}
  <2>1. PICK x \in T : TRUE
    OBVIOUS
  <2>2. n - x \in U
    BY <2>1
  <2> QED
    BY <2>2
<1>3. PICK m \in U : \A l \in U : m <= l
  <2> HIDE DEF U
  <2> QED
    BY <1>1, <1>2, Least
<1>4. n - m \in T /\ \A y \in T : n - m >= y
  <2>1. ASSUME NEW y \in T PROVE n - m >= y
    <3>1. n - y \in U
      OBVIOUS
    <3> QED
      BY <1>3, <3>1
  <2> QED
    BY <1>3, <2>1
<1> QED
  BY <1>4 DEF Q!Max

\* A row, and its window.
LEMMA RowsTyped ==
    ASSUME NEW rows \in Seq(LimitRow), NEW i \in DOMAIN rows
    PROVE  /\ rows[i] \in LimitRow
           /\ rows[i].unit \in Int /\ rows[i].resetsAt \in Int
           /\ Q!PercentWindow(rows[i]) \in Q!Window
<1>1. rows[i] \in LimitRow
  BY ElementOfSeq, LenProperties
<1> DEFINE r == rows[i]
<1> HIDE DEF r
<1>2. ASSUME r \in LimitRow
      PROVE  /\ r.unit \in Int /\ r.resetsAt \in Int
             /\ Q!PercentWindow(r) \in Q!Window
  BY <1>2 DEF LimitRow, Q!PercentWindow, Q!Window, Q!Floats
<1> QED
  BY <1>1, <1>2 DEF r

\* The window W[k] is that of a row with this key.
FromRow(W, rows, keys, k) ==
    \E i \in DOMAIN rows : keys[i] = k /\ W[k] = Q!PercentWindow(rows[i])

\* Every window that is written is the window of a row with its key.
LEMMA WrittenBy ==
    ASSUME NEW rows \in Seq(LimitRow), NEW keys, NEW windows, NEW k,
           DOMAIN keys = DOMAIN rows, k \in ToSet(keys), k # Q!NoKey
    PROVE  FromRow(Q!Write(windows, rows, keys), rows, keys, k)
<1> DEFINE T == {i \in DOMAIN keys : keys[i] = k}
<1>1. Len(rows) \in Nat /\ DOMAIN rows = 1 .. Len(rows)
  BY LenProperties
<1>2. T \in SUBSET (1 .. Len(rows)) /\ T # {}
  BY <1>1 DEF ToSet
<1>3. Q!Max(T) \in T
  <2> HIDE DEF T
  <2> QED
    BY <1>1, <1>2, LastOne
<1>4. Q!Write(windows, rows, keys)[k] = Q!PercentWindow(rows[Q!Max(T)])
  BY SameNames DEF Q!Write, Q!NoKey
<1> QED
  BY <1>3, <1>4 DEF FromRow

\* W has the windows that were there, and those that the keys name.
WriteRight(W, windows, K, keys) ==
    /\ K \cup (ToSet(keys) \ {""}) \in SUBSET Q!WindowKeys
    /\ W \in [K \cup (ToSet(keys) \ {""}) -> Q!Window]
    /\ \A k \in K \ ToSet(keys) : W[k] = windows[k]

\* Rows write windows, next to those that are there.
LEMMA WriteTyped ==
    ASSUME NEW rows \in Seq(LimitRow), NEW keys, NEW K \in SUBSET Q!WindowKeys,
           NEW windows \in [K -> Q!Window], DOMAIN keys = DOMAIN rows,
           ToSet(keys) \subseteq {""} \cup Q!WindowKeys
    PROVE  WriteRight(Q!Write(windows, rows, keys), windows, K, keys)
<1> DEFINE L == K \cup (ToSet(keys) \ {""})
           W == Q!Write(windows, rows, keys)
<1>1. L \in SUBSET Q!WindowKeys /\ "" \notin Q!WindowKeys
  BY DEF Q!WindowKeys
<1>2. DOMAIN W = L /\ W = [k \in L |-> W[k]]
  BY SameNames DEF Q!Write, Q!NoKey
<1>3. \A k \in K \ ToSet(keys) : W[k] = windows[k]
  BY SameNames DEF Q!Write, Q!NoKey
<1> HIDE DEF W
<1>4. ASSUME NEW k \in L PROVE W[k] \in Q!Window
  <2>1. CASE k \in ToSet(keys)
    <3>1. k # Q!NoKey
      BY <1>1 DEF Q!NoKey
    <3>2. FromRow(W, rows, keys, k)
      BY <2>1, <3>1, WrittenBy DEF W
    <3>3. PICK i \in DOMAIN rows : W[k] = Q!PercentWindow(rows[i])
      BY <3>2 DEF FromRow
    <3>4. Q!PercentWindow(rows[i]) \in Q!Window
      BY RowsTyped
    <3> QED
      BY <3>3, <3>4
  <2>2. CASE k \notin ToSet(keys)
    BY <1>3, <2>2
  <2> QED
    BY <2>1, <2>2
<1>5. W \in [L -> Q!Window]
  BY <1>2, <1>4
<1> QED
  BY <1>1, <1>3, <1>5 DEF W, WriteRight
-----------------------------------------------------------------------------
(* Rows in the order of their resets                                       *)

\* The rows before row i in that order, and i itself.
Ahead(rows, i) ==
    {j \in DOMAIN rows : \/ rows[j].resetsAt < rows[i].resetsAt
                         \/ j <= i /\ rows[j].resetsAt = rows[i].resetsAt}

Place(rows, i) == Cardinality(Ahead(rows, i))

\* Of two rows the one that is ahead has the smaller place.
LEMMA AheadOrdered ==
    ASSUME NEW rows \in Seq(LimitRow), NEW i \in DOMAIN rows
    PROVE  /\ Place(rows, i) \in DOMAIN rows
           /\ \A j \in DOMAIN rows : i # j =>
                 \/ j \in Ahead(rows, i) /\ Place(rows, j) < Place(rows, i)
                 \/ i \in Ahead(rows, j) /\ Place(rows, i) < Place(rows, j)
<1> DEFINE n == Len(rows)
<1>1. n \in Nat /\ DOMAIN rows = 1 .. n
  BY LenProperties
<1>2. \A j \in DOMAIN rows : rows[j].resetsAt \in Int
  BY RowsTyped
<1> HIDE DEF n
<1>3. IsFiniteSet(1 .. n) /\ Cardinality(1 .. n) = n
  BY <1>1, FS_Interval
<1>4. ASSUME NEW j \in DOMAIN rows
      PROVE  /\ IsFiniteSet(Ahead(rows, j)) /\ j \in Ahead(rows, j)
             /\ Place(rows, j) \in 1 .. n
  <2>1. Ahead(rows, j) \in SUBSET (1 .. n) /\ j \in Ahead(rows, j)
    BY <1>1, <1>2 DEF Ahead
  <2>2. IsFiniteSet(Ahead(rows, j)) /\ Place(rows, j) <= n
    BY <1>3, <2>1, FS_Subset DEF Place
  <2>3. Place(rows, j) \in Nat /\ Place(rows, j) # 0
    BY <2>1, <2>2, FS_CardinalityType, FS_EmptySet DEF Place
  <2> QED
    BY <1>1, <2>1, <2>2, <2>3
<1>5. ASSUME NEW j \in DOMAIN rows, NEW k \in DOMAIN rows, j # k, j \in Ahead(rows, k)
      PROVE  Place(rows, j) < Place(rows, k)
  <2>1. Ahead(rows, j) \in SUBSET (Ahead(rows, k) \ {k})
    BY <1>1, <1>2, <1>5 DEF Ahead
  <2>2. /\ IsFiniteSet(Ahead(rows, k) \ {k})
        /\ Cardinality(Ahead(rows, k) \ {k}) = Place(rows, k) - 1
    BY <1>4, FS_RemoveElement DEF Place
  <2>3. Place(rows, j) <= Place(rows, k) - 1
    BY <2>1, <2>2, FS_Subset DEF Place
  <2> QED
    BY <1>1, <1>4, <2>3
<1>6. ASSUME NEW j \in DOMAIN rows, i # j
      PROVE  j \in Ahead(rows, i) \/ i \in Ahead(rows, j)
  BY <1>1, <1>2, <1>6 DEF Ahead
<1> QED
  BY <1>1, <1>4, <1>5, <1>6

\* Every place is taken by a row.
LEMMA PlacesTaken ==
    ASSUME NEW rows \in Seq(LimitRow), NEW n \in DOMAIN rows
    PROVE  \E i \in DOMAIN rows : Place(rows, i) = n
<1> DEFINE D == DOMAIN rows
           f == [i \in D |-> Place(rows, i)]
<1>1. IsFiniteSet(D)
  BY LenProperties, FS_Interval
<1>2. f \in [D -> D] /\ \A i, j \in D : f[i] = f[j] => i = j
  <2>1. \A i \in D : Place(rows, i) \in D
    BY AheadOrdered
  <2>2. ASSUME NEW i \in D, NEW j \in D, i # j PROVE Place(rows, i) # Place(rows, j)
    <3>1. Place(rows, i) \in Nat /\ Place(rows, j) \in Nat
      BY <2>1, LenProperties
    <3> QED
      BY <2>2, <3>1, AheadOrdered
  <2> QED
    BY <2>1, <2>2
<1> HIDE DEF f
<1>3. f \in Injection(D, D)
  BY <1>2 DEF Injection, IsInjective
<1>4. f \in Surjection(D, D)
  <2> HIDE DEF D
  <2> QED
    BY <1>1, <1>3, FS_Injection
<1>5. PICK i \in D : f[i] = n
  BY <1>4 DEF Surjection
<1> QED
  BY <1>5 DEF f

\* The sorted rows have at every place the row whose place it is.
LEMMA SortedByPlace ==
    ASSUME NEW rows \in Seq(LimitRow)
    PROVE  /\ Q!BySoonest(rows) \in Seq(LimitRow)
           /\ DOMAIN Q!BySoonest(rows) = DOMAIN rows
           /\ \A n \in DOMAIN rows : \E i \in DOMAIN rows :
                 Place(rows, i) = n /\ Q!BySoonest(rows)[n] = rows[i]
<1> DEFINE s == Q!BySoonest(rows)
<1>1. s = [n \in DOMAIN rows |-> rows[CHOOSE i \in DOMAIN rows : Place(rows, i) = n]]
  BY DEF Q!BySoonest, Place, Ahead, Q!Cardinality, Cardinality
<1> HIDE DEF s
<1>2. DOMAIN s = DOMAIN rows /\ s = [n \in DOMAIN rows |-> s[n]]
  BY <1>1
<1>3. ASSUME NEW n \in DOMAIN rows
      PROVE  \E i \in DOMAIN rows : Place(rows, i) = n /\ s[n] = rows[i]
  <2> DEFINE i == CHOOSE j \in DOMAIN rows : Place(rows, j) = n
  <2>1. i \in DOMAIN rows /\ Place(rows, i) = n
    BY PlacesTaken
  <2>2. s[n] = rows[i]
    BY <1>1
  <2> QED
    BY <2>1, <2>2
<1>4. s \in Seq(LimitRow)
  <2>1. \A n \in DOMAIN rows : s[n] \in LimitRow
    BY <1>3, RowsTyped
  <2>2. Len(rows) \in Nat /\ DOMAIN rows = 1 .. Len(rows)
    BY LenProperties
  <2> QED
    BY <1>2, <2>1, <2>2, SeqDef
<1> QED
  BY <1>2, <1>3, <1>4 DEF s

\* The soonest of some rows.
LEMMA SoonestIs ==
    ASSUME NEW R, NEW r \in R, \A q \in R : q.resetsAt \in Int,
           \A q \in R : q # r => r.resetsAt < q.resetsAt
    PROVE  Q!Soonest(R) = r
<1>1. \A q \in R : r.resetsAt <= q.resetsAt
  OBVIOUS
<1>2. ASSUME NEW q \in R, \A p \in R : q.resetsAt <= p.resetsAt PROVE q = r
  BY <1>2
<1> QED
  BY <1>1, <1>2 DEF Q!Soonest

\* No two rows are reset at the same time.
Apart(rows) ==
    \A i, j \in DOMAIN rows : rows[i].resetsAt = rows[j].resetsAt => i = j

\* The soonest row comes first, and the soonest of the others second.
LEMMA SoonestFirst ==
    ASSUME NEW rows \in Seq(LimitRow), Apart(rows)
    PROVE  LET R == ToSet(rows)
               s == Q!BySoonest(rows)
           IN  /\ 1 \in DOMAIN rows => s[1] = Q!Soonest(R) /\ R # {}
               /\ 2 \in DOMAIN rows => /\ s[2] = Q!Soonest(R \ {Q!Soonest(R)})
                                       /\ R \ {Q!Soonest(R)} # {}
               /\ 1 \notin DOMAIN rows => R = {}
               /\ 2 \notin DOMAIN rows => R = {} \/ R \ {Q!Soonest(R)} = {}
<1> DEFINE n == Len(rows)
           R == ToSet(rows)
           s == Q!BySoonest(rows)
<1>1. n \in Nat /\ DOMAIN rows = 1 .. n
  BY LenProperties
<1>2. \A j \in DOMAIN rows : rows[j].resetsAt \in Int
  BY RowsTyped
<1>3. \A q \in R : q.resetsAt \in Int
  BY <1>2 DEF ToSet
<1> HIDE DEF n, R, s
<1>4. ASSUME NEW i \in DOMAIN rows, NEW j \in DOMAIN rows, i # j,
             Place(rows, i) < Place(rows, j)
      PROVE  rows[i].resetsAt < rows[j].resetsAt
  <2>1. Place(rows, i) \in Nat /\ Place(rows, j) \in Nat
    BY <1>1, AheadOrdered
  <2>2. i \in Ahead(rows, j)
    BY <1>4, <2>1, AheadOrdered
  <2>3. rows[i].resetsAt # rows[j].resetsAt
    BY <1>4 DEF Apart
  <2> QED
    BY <1>2, <2>2, <2>3 DEF Ahead
<1>5. ASSUME NEW i \in DOMAIN rows, NEW j \in DOMAIN rows, i # j
      PROVE  /\ Place(rows, i) \in 1 .. n /\ Place(rows, j) \in 1 .. n
             /\ Place(rows, i) # Place(rows, j)
  BY <1>1, <1>5, AheadOrdered
<1>6. CASE 1 \in DOMAIN rows
  <2>1. PICK i \in DOMAIN rows : Place(rows, i) = 1 /\ s[1] = rows[i]
    BY <1>6, SortedByPlace DEF s
  <2>2. ASSUME NEW j \in DOMAIN rows, j # i
        PROVE  Place(rows, j) > 1 /\ rows[i].resetsAt < rows[j].resetsAt
    <3>1. Place(rows, j) > 1
      BY <1>1, <1>5, <2>1, <2>2
    <3> QED
      BY <1>4, <2>1, <2>2, <3>1
  <2>3. Q!Soonest(R) = rows[i] /\ rows[i] \in R
    <3>1. rows[i] \in R
      BY DEF R, ToSet
    <3>2. \A q \in R : q # rows[i] => rows[i].resetsAt < q.resetsAt
      BY <2>2 DEF R, ToSet
    <3> QED
      BY <1>3, <3>1, <3>2, SoonestIs
  <2>4. CASE 2 \in DOMAIN rows
    <3>1. PICK k \in DOMAIN rows : Place(rows, k) = 2 /\ s[2] = rows[k]
      BY <2>4, SortedByPlace DEF s
    <3>2. k # i /\ rows[k] # rows[i]
      BY <2>1, <3>1, <2>2, <1>2
    <3>3. ASSUME NEW j \in DOMAIN rows, j # i, j # k
          PROVE  rows[k].resetsAt < rows[j].resetsAt
      <4>1. Place(rows, j) > 2
        BY <1>1, <1>5, <2>2, <3>1, <3>3
      <4> QED
        BY <1>4, <3>1, <3>3, <4>1
    <3>4. rows[k] \in R \ {rows[i]}
      BY <3>2 DEF R, ToSet
    <3>5. \A q \in R \ {rows[i]} : q # rows[k] => rows[k].resetsAt < q.resetsAt
      BY <3>3 DEF R, ToSet
    <3>6. Q!Soonest(R \ {rows[i]}) = rows[k]
      <4> DEFINE T == R \ {rows[i]}
      <4>1. \A q \in T : q.resetsAt \in Int
        BY <1>3
      <4> HIDE DEF T
      <4> QED
        BY <3>4, <3>5, <4>1, SoonestIs DEF T
    <3> QED
      BY <1>6, <2>1, <2>3, <2>4, <3>1, <3>4, <3>6 DEF R, s
  <2>5. CASE 2 \notin DOMAIN rows
    <3>1. \A j \in DOMAIN rows : j = i
      BY <1>1, <2>5
    <3>2. R \ {rows[i]} = {}
      BY <3>1 DEF R, ToSet
    <3> QED
      BY <1>6, <2>1, <2>3, <2>5, <3>2 DEF R, s
  <2> QED
    BY <2>4, <2>5
<1>7. CASE 1 \notin DOMAIN rows
  <2>1. DOMAIN rows = {}
    BY <1>1, <1>7
  <2>2. R = {}
    BY <2>1 DEF R, ToSet
  <2> QED
    BY <1>7, <2>1, <2>2 DEF R
<1> QED
  BY <1>6, <1>7
-----------------------------------------------------------------------------
(* The places that are left                                                *)

\* A window that one place at most writes.
PlacedAt(W, rows, k, p) ==
    IF p \in DOMAIN rows THEN k \in DOMAIN W /\ W[k] = Q!PercentWindow(rows[p])
    ELSE k \notin DOMAIN W

LEMMA OnePlace ==
    ASSUME NEW rows \in Seq(LimitRow), NEW keys, NEW windows, NEW k, NEW p,
           DOMAIN keys = DOMAIN rows, k # Q!NoKey, k \notin DOMAIN windows,
           \A i \in DOMAIN rows : keys[i] = k <=> i = p
    PROVE  PlacedAt(Q!Write(windows, rows, keys), rows, k, p)
<1> DEFINE W == Q!Write(windows, rows, keys)
<1>1. DOMAIN W = DOMAIN windows \cup (ToSet(keys) \ {Q!NoKey})
  BY SameNames DEF Q!Write
<1> HIDE DEF W
<1>2. CASE p \in DOMAIN rows
  <2>1. k \in ToSet(keys)
    BY <1>2 DEF ToSet
  <2>2. FromRow(Q!Write(windows, rows, keys), rows, keys, k)
    BY <2>1, WrittenBy
  <2>3. W[k] = Q!PercentWindow(rows[p])
    BY <2>2 DEF FromRow, W
  <2> QED
    BY <1>1, <1>2, <2>1, <2>3 DEF PlacedAt, W
<1>3. CASE p \notin DOMAIN rows
  <2>1. k \notin ToSet(keys)
    BY <1>3 DEF ToSet
  <2> QED
    BY <1>1, <1>3, <2>1 DEF PlacedAt, W
<1> QED
  BY <1>2, <1>3

\* Where the windows go that are not in K.
WeeklyPlace(K) == IF "rolling" \in K THEN 1 ELSE 2

FreeRight(free, K) ==
    /\ \A i \in DOMAIN free : free[i] \in {"rolling", "weekly"} \ K
    /\ "rolling" \notin K =>
          \A i \in Nat \ {0} : i \in DOMAIN free /\ free[i] = "rolling" <=> i = 1
    /\ "weekly" \notin K =>
          \A i \in Nat \ {0} :
             i \in DOMAIN free /\ free[i] = "weekly" <=> i = WeeklyPlace(K)

LEMMA FreePlaces ==
    ASSUME NEW K
    PROVE  FreeRight(Only(<<"rolling", "weekly">>, {"rolling", "weekly"} \ K), K)
<1> DEFINE S == {"rolling", "weekly"} \ K
           free == Only(<<"rolling", "weekly">>, S)
<1>1. free = IF "rolling" \in S THEN IF "weekly" \in S THEN <<"rolling", "weekly">> ELSE <<"rolling">>
             ELSE IF "weekly" \in S THEN <<"weekly">> ELSE <<>>
  BY OnlyOfTwo
<1> SUFFICES FreeRight(free, K)
  OBVIOUS
<1> HIDE DEF free
<1>2. CASE "rolling" \notin K /\ "weekly" \notin K
  BY <1>1, <1>2 DEF WeeklyPlace, FreeRight
<1>3. CASE "rolling" \notin K /\ "weekly" \in K
  BY <1>1, <1>3 DEF WeeklyPlace, FreeRight
<1>4. CASE "rolling" \in K /\ "weekly" \notin K
  BY <1>1, <1>4 DEF WeeklyPlace, FreeRight
<1>5. CASE "rolling" \in K /\ "weekly" \in K
  BY <1>1, <1>5 DEF WeeklyPlace, FreeRight
<1> QED
  BY <1>2, <1>3, <1>4, <1>5

\* The rows fill the places that are left, and touch no other window.
FilledRight(W, windows, K, rows) ==
    /\ W \in [DOMAIN W -> Q!Window] /\ K \subseteq DOMAIN W
    /\ DOMAIN W \in SUBSET Q!WindowKeys
    /\ \A k \in K : W[k] = windows[k]
    /\ "rolling" \notin K => PlacedAt(W, Q!BySoonest(rows), "rolling", 1)
    /\ "weekly" \notin K => PlacedAt(W, Q!BySoonest(rows), "weekly", WeeklyPlace(K))

LEMMA FilledIn ==
    ASSUME NEW rows \in Seq(LimitRow), NEW K \in SUBSET Q!WindowKeys,
           NEW windows \in [K -> Q!Window]
    PROVE  FilledRight(Q!FillIn(windows, rows), windows, K, rows)
<1> DEFINE free == Only(<<"rolling", "weekly">>, {"rolling", "weekly"} \ K)
           keys == [i \in DOMAIN rows |-> IF i \in DOMAIN free THEN free[i] ELSE Q!NoKey]
           s == Q!BySoonest(rows)
           W == Q!Write(windows, s, keys)
<1>1. Q!FillIn(windows, rows) = W
  BY SameNames DEF Q!FillIn
<1>2. s \in Seq(LimitRow) /\ DOMAIN s = DOMAIN rows
  BY SortedByPlace
<1>3. DOMAIN s \subseteq Nat \ {0}
  BY <1>2, LenProperties
<1> HIDE DEF s
<1>4. FreeRight(free, K)
  BY FreePlaces
<1> HIDE DEF free
<1>5. /\ DOMAIN keys = DOMAIN s
      /\ \A i \in DOMAIN s : keys[i] = IF i \in DOMAIN free THEN free[i] ELSE Q!NoKey
  BY <1>2
<1> HIDE DEF keys
<1>6. /\ ToSet(keys) \subseteq {""} \cup Q!WindowKeys
      /\ K \cap ToSet(keys) = {}
  <2>1. ASSUME NEW i \in DOMAIN keys
        PROVE  keys[i] = Q!NoKey \/ keys[i] \in {"rolling", "weekly"} \ K
    BY <1>4, <1>5 DEF FreeRight
  <2>2. {"rolling", "weekly"} \subseteq Q!WindowKeys /\ "" \notin Q!WindowKeys
    BY DEF Q!WindowKeys
  <2> QED
    BY <2>1, <2>2 DEF ToSet, Q!NoKey
<1>7. WriteRight(W, windows, K, keys)
  BY <1>2, <1>5, <1>6, WriteTyped
<1>8. /\ W \in [DOMAIN W -> Q!Window] /\ K \subseteq DOMAIN W
      /\ DOMAIN W \in SUBSET Q!WindowKeys
      /\ \A k \in K : W[k] = windows[k]
  <2> HIDE DEF W
  <2> QED
    BY <1>6, <1>7 DEF WriteRight
<1>9. "rolling" # Q!NoKey /\ "weekly" # Q!NoKey /\ DOMAIN windows = K
  BY DEF Q!NoKey
<1>10. ASSUME "rolling" \notin K PROVE PlacedAt(W, s, "rolling", 1)
  <2>1. \A i \in DOMAIN s : keys[i] = "rolling" <=> i = 1
    BY <1>3, <1>4, <1>5, <1>9, <1>10 DEF FreeRight
  <2> QED
    BY <1>2, <1>5, <1>9, <1>10, <2>1, OnePlace
<1>11. ASSUME "weekly" \notin K PROVE PlacedAt(W, s, "weekly", WeeklyPlace(K))
  <2>1. \A i \in DOMAIN s : keys[i] = "weekly" <=> i = WeeklyPlace(K)
    BY <1>3, <1>4, <1>5, <1>9, <1>11 DEF FreeRight
  <2> QED
    BY <1>2, <1>5, <1>9, <1>11, <2>1, OnePlace
<1> HIDE DEF W
<1> QED
  BY <1>1, <1>8, <1>10, <1>11 DEF FilledRight, s
-----------------------------------------------------------------------------
(* Zhipu's answers                                                         *)

ZhipuBody == [code : Int, rows : Seq(LimitRow)]

LEMMA TokensTyped ==
    ASSUME NEW b \in ZhipuBody
    PROVE  /\ b.rows \in Seq(LimitRow)
           /\ Q!Tokens(b) \in Seq(LimitRow)
           /\ Q!Unnamed(b) \in Seq(LimitRow)
           /\ ToSet(Q!Unnamed(b)) = {r \in ToSet(Q!Tokens(b)) : r.unit \notin {3, 6}}
<1> DEFINE S == {r \in ToSet(b.rows) : r.type \in {"TOKENS_LIMIT", "CREDIT_LIMIT"}}
           T == {r \in ToSet(b.rows) : r.unit \notin {3, 6}}
           tokens == Q!Tokens(b)
<1>1. b.rows \in Seq(LimitRow)
  BY DEF ZhipuBody
<1>2. tokens = Only(b.rows, S)
  BY SameNames DEF Q!Tokens
<1>3. Q!Unnamed(b) = Only(tokens, T)
  <2>1. DOMAIN Q!NamedBy = {3, 6}
    BY DEF Q!NamedBy
  <2> QED
    BY <2>1, SameNames DEF Q!Unnamed
<1> HIDE DEF S, tokens
<1>4. tokens \in Seq(LimitRow) /\ Elements(tokens) = Elements(b.rows) \cap S
  BY <1>1, <1>2, OnlyKeepsWanted
<1>5. /\ Only(tokens, T) \in Seq(LimitRow)
      /\ Elements(Only(tokens, T)) = Elements(tokens) \cap T
  <2> HIDE DEF T
  <2> QED
    BY <1>4, OnlyKeepsWanted
<1>6. ASSUME NEW q \in Seq(LimitRow) PROVE ToSet(q) = Elements(q)
  BY LenProperties DEF ToSet, Elements
<1>7. ToSet(tokens) \subseteq ToSet(b.rows)
  BY <1>1, <1>4, <1>6
<1>8. ToSet(Only(tokens, T)) = ToSet(tokens) \cap T
  <2> HIDE DEF T
  <2> QED
    BY <1>4, <1>5, <1>6
<1>9. ToSet(tokens) \cap T = {r \in ToSet(tokens) : r.unit \notin {3, 6}}
  BY <1>7
<1> QED
  BY <1>1, <1>3, <1>4, <1>5, <1>8, <1>9 DEF tokens

\* The steps of parseZhipuPlan.
MonthlyKeys(b) == [i \in DOMAIN b.rows |->
                     IF b.rows[i].type = "TIME_LIMIT" /\ b.rows[i].percent > 0
                     THEN "monthly" ELSE Q!NoKey]
Monthly(b)     == Q!Write(Q!NoWindows, b.rows, MonthlyKeys(b))
NamedKeys(b)   == [i \in DOMAIN Q!Tokens(b) |->
                     IF Q!Tokens(b)[i].unit \in DOMAIN Q!NamedBy
                     THEN Q!NamedBy[Q!Tokens(b)[i].unit] ELSE Q!NoKey]
Named(b)       == Q!Write(Monthly(b), Q!Tokens(b), NamedKeys(b))

LEMMA ZhipuSteps ==
    ASSUME NEW b
    PROVE  Q!ParseZhipuPlan(b) =
              IF b.code \notin {0, 200} THEN Q!Failed
              ELSE IF Q!Tokens(b) = <<>> THEN [Q!Failed EXCEPT !.windows = Monthly(b)]
              ELSE [Q!Blank EXCEPT !.windows = Q!FillIn(Named(b), Q!Unnamed(b))]
  BY DEF Q!ParseZhipuPlan, Monthly, Named, MonthlyKeys, NamedKeys

LEMMA MonthlyTyped ==
    ASSUME NEW b \in ZhipuBody
    PROVE  \E K \in SUBSET {"monthly"} : Monthly(b) \in [K -> Q!Window]
<1> DEFINE keys == MonthlyKeys(b)
<1>1. b.rows \in Seq(LimitRow)
  BY TokensTyped
<1>2. DOMAIN keys = DOMAIN b.rows /\ ToSet(keys) \subseteq {"", "monthly"}
  BY DEF MonthlyKeys, ToSet, Q!NoKey
<1> HIDE DEF keys
<1>3. {"", "monthly"} \subseteq {""} \cup Q!WindowKeys /\ {} \in SUBSET Q!WindowKeys
  BY DEF Q!WindowKeys
<1>4. Q!NoWindows \in [{} -> Q!Window]
  BY DEF Q!NoWindows
<1>5. WriteRight(Monthly(b), Q!NoWindows, {}, keys)
  BY <1>1, <1>2, <1>3, <1>4, WriteTyped DEF Monthly, keys
<1>6. {} \cup (ToSet(keys) \ {""}) \in SUBSET {"monthly"}
  BY <1>2
<1> QED
  BY <1>5, <1>6 DEF WriteRight

\* The windows that are named, and those of the months, have the keys K.
NamedRight(b, K) ==
    /\ Named(b) \in [K -> Q!Window]
    /\ K \in SUBSET Q!WindowKeys
    /\ \A u \in {3, 6} :
          LET rows == {r \in ToSet(Q!Tokens(b)) : r.unit = u}
          IN  /\ Q!NamedBy[u] \in K <=> rows # {}
              /\ rows # {} => \E r \in rows :
                                 Named(b)[Q!NamedBy[u]] = Q!PercentWindow(r)

LEMMA NamedByUnit ==
    ASSUME NEW b \in ZhipuBody
    PROVE  \E K : NamedRight(b, K)
<1> DEFINE keys == NamedKeys(b)
           tokens == Q!Tokens(b)
           units == {3, 6}
<1>1. tokens \in Seq(LimitRow)
  BY TokensTyped
<1>2. PICK L \in SUBSET {"monthly"} : Monthly(b) \in [L -> Q!Window]
  BY MonthlyTyped
<1>3. /\ DOMAIN Q!NamedBy = units
      /\ Q!NamedBy[3] = "rolling" /\ Q!NamedBy[6] = "weekly"
  BY DEF Q!NamedBy
<1>4. /\ \A u \in units : Q!NamedBy[u] \in Q!WindowKeys \ {"", "monthly"}
      /\ \A u, v \in units : Q!NamedBy[u] = Q!NamedBy[v] => u = v
  BY <1>3 DEF Q!WindowKeys
<1>5. /\ DOMAIN keys = DOMAIN tokens
      /\ \A i \in DOMAIN tokens :
            keys[i] = IF tokens[i].unit \in units THEN Q!NamedBy[tokens[i].unit] ELSE ""
  BY <1>3 DEF NamedKeys, Q!NoKey
<1> HIDE DEF keys, tokens, units
<1>6. ToSet(keys) \subseteq {""} \cup Q!WindowKeys
  BY <1>4, <1>5, ZenonT(30) DEF ToSet
<1>7. L \in SUBSET Q!WindowKeys
  BY DEF Q!WindowKeys
<1>8. WriteRight(Named(b), Monthly(b), L, keys)
  BY <1>1, <1>2, <1>5, <1>6, <1>7, WriteTyped DEF Named, keys, tokens
<1> DEFINE K == L \cup (ToSet(keys) \ {""})
<1>9. ASSUME NEW u \in units
      PROVE  LET rows == {r \in ToSet(tokens) : r.unit = u}
             IN  /\ Q!NamedBy[u] \in K <=> rows # {}
                 /\ rows # {} => \E r \in rows :
                                    Named(b)[Q!NamedBy[u]] = Q!PercentWindow(r)
  <2> DEFINE rows == {r \in ToSet(tokens) : r.unit = u}
             key  == Q!NamedBy[u]
  <2>1. key # "" /\ key \notin L /\ key # Q!NoKey
    BY <1>4 DEF Q!NoKey
  <2>2. \A i \in DOMAIN tokens : keys[i] = key <=> tokens[i].unit = u
    BY <1>4, <1>5
  <2> HIDE DEF key
  <2>3. key \in ToSet(keys) <=> rows # {}
    BY <1>5, <2>2, ZenonT(30) DEF ToSet
  <2>4. ASSUME rows # {}
        PROVE  \E r \in rows : Named(b)[key] = Q!PercentWindow(r)
    <3>1. key \in ToSet(keys)
      BY <2>3, <2>4
    <3>2. FromRow(Named(b), tokens, keys, key)
      BY <1>1, <1>5, <2>1, <3>1, WrittenBy DEF Named, keys, tokens
    <3>3. PICK i \in DOMAIN tokens :
             keys[i] = key /\ Named(b)[key] = Q!PercentWindow(tokens[i])
      BY <3>2 DEF FromRow
    <3>4. tokens[i] \in rows
      BY <2>2, <3>3 DEF ToSet
    <3> QED
      BY <3>3, <3>4
  <2>5. key \in K <=> rows # {}
    BY <2>1, <2>3
  <2> QED
    BY <2>4, <2>5 DEF key
<1>10. NamedRight(b, K)
  BY <1>8, <1>9 DEF NamedRight, WriteRight, tokens, units
<1> QED
  BY <1>10

\* A result that is no error, with windows W and credits C.
Result(W, C) == [err |-> FALSE, windows |-> W, credits |-> C, balance |-> Nil,
                 grants |-> <<>>, models |-> <<>>]

\* An answer with rows that are limits has windows; any other is a failure.
LEMMA ZhipuResult ==
    ASSUME NEW b \in ZhipuBody, ~ Q!ParseZhipuPlan(b).err
    PROVE  \E K, W : /\ NamedRight(b, K)
                     /\ FilledRight(W, Named(b), K, Q!Unnamed(b))
                     /\ DOMAIN W # {}
                     /\ Q!ParseZhipuPlan(b) = Result(W, Nil)
<1> DEFINE rows == Q!Unnamed(b)
           tokens == Q!Tokens(b)
           W == Q!FillIn(Named(b), rows)
<1>1. PICK K : NamedRight(b, K)
  BY NamedByUnit
<1>2. FilledRight(W, Named(b), K, rows)
  <2>1. /\ rows \in Seq(LimitRow) /\ K \in SUBSET Q!WindowKeys
        /\ Named(b) \in [K -> Q!Window]
    BY <1>1, TokensTyped DEF NamedRight
  <2> HIDE DEF rows
  <2> QED
    BY <2>1, FilledIn
<1>3. tokens # <<>> /\ Q!ParseZhipuPlan(b) = [Q!Blank EXCEPT !.windows = W]
  BY ZhipuSteps DEF Q!Failed, Q!Blank
<1>4. Q!ParseZhipuPlan(b) = Result(W, Nil)
  BY <1>3 DEF Q!Blank, Result
<1> HIDE DEF W
<1>5. DOMAIN W # {}
  <2>1. CASE K # {}
    BY <1>2, <2>1 DEF FilledRight
  <2>2. CASE K = {}
    <3>1. \A r \in ToSet(tokens) : r.unit \notin {3, 6}
      BY <1>1, <2>2 DEF NamedRight
    <3>2. ToSet(rows) = {r \in ToSet(tokens) : r.unit \notin {3, 6}}
      BY TokensTyped
    <3>3. tokens \in Seq(LimitRow) /\ rows \in Seq(LimitRow)
      BY TokensTyped
    <3> HIDE DEF tokens, rows
    <3>4. DOMAIN tokens # {}
      <4>1. tokens # <<>>
        BY <1>3
      <4>2. Len(tokens) \in Nat \ {0} /\ DOMAIN tokens = 1 .. Len(tokens)
        BY <3>3, <4>1, EmptySeq, LenProperties
      <4> QED
        BY <4>2
    <3>5. DOMAIN rows # {}
      <4>1. ToSet(tokens) # {}
        BY <3>4 DEF ToSet
      <4>2. ToSet(rows) # {}
        BY <3>1, <3>2, <4>1
      <4> QED
        BY <4>2 DEF ToSet
    <3>6. 1 \in DOMAIN rows /\ DOMAIN Q!BySoonest(rows) = DOMAIN rows
      BY <3>3, <3>5, LenProperties, SortedByPlace
    <3>7. "rolling" \in DOMAIN W
      BY <1>2, <2>2, <3>6 DEF FilledRight, PlacedAt
    <3> QED
      BY <3>7
  <2> QED
    BY <2>1, <2>2
<1> QED
  BY <1>1, <1>2, <1>4, <1>5

\* Zhipu's rows get the windows that they name, or are left.
LEMMA ZhipuRight ==
    ASSUME body \in ZhipuBody, out = Q!ParseZhipuPlan(body), ~ out.err,
           Apart(Q!Unnamed(body))
    PROVE  Q!ZhipuWindowsRight
<1> DEFINE rows == Q!Unnamed(body)
           R    == ToSet(rows)
           s    == Q!BySoonest(rows)
           N    == Named(body)
           five == Q!RowsOf(3)
           week == Q!RowsOf(6)
           first == IF five = {} THEN R ELSE {}
           rest  == IF first = {} THEN R ELSE R \ {Q!Soonest(R)}
<1>1. PICK K, W : /\ NamedRight(body, K)
                  /\ FilledRight(W, N, K, rows)
                  /\ out = Result(W, Nil)
  BY ZhipuResult
<1>2. out.windows = W
  BY <1>1 DEF Result
<1>3. rows \in Seq(LimitRow)
  BY TokensTyped
<1>4. DOMAIN s = DOMAIN rows
  BY <1>3, SortedByPlace
<1>5. five = {r \in ToSet(Q!Tokens(body)) : r.unit = 3}
  BY SameNames DEF Q!RowsOf
<1>6. week = {r \in ToSet(Q!Tokens(body)) : r.unit = 6}
  BY SameNames DEF Q!RowsOf
<1> HIDE DEF five, week
<1>7. /\ "rolling" \in K <=> five # {}
      /\ five # {} => \E r \in five : N["rolling"] = Q!PercentWindow(r)
  <2>1. Q!NamedBy[3] = "rolling"
    BY DEF Q!NamedBy
  <2> QED
    BY <1>1, <1>5, <2>1 DEF NamedRight
<1>8. /\ "weekly" \in K <=> week # {}
      /\ week # {} => \E r \in week : N["weekly"] = Q!PercentWindow(r)
  <2>1. Q!NamedBy[6] = "weekly"
    BY DEF Q!NamedBy
  <2> QED
    BY <1>1, <1>6, <2>1 DEF NamedRight
<1>9. /\ 1 \in DOMAIN rows => s[1] = Q!Soonest(R) /\ R # {}
      /\ 2 \in DOMAIN rows => /\ s[2] = Q!Soonest(R \ {Q!Soonest(R)})
                              /\ R \ {Q!Soonest(R)} # {}
      /\ 1 \notin DOMAIN rows => R = {}
      /\ 2 \notin DOMAIN rows => R = {} \/ R \ {Q!Soonest(R)} = {}
  BY <1>3, SoonestFirst
<1>10. 2 \in DOMAIN rows => 1 \in DOMAIN rows
  BY <1>3, LenProperties
<1>11. /\ \A k \in K : W[k] = N[k]
       /\ "rolling" \notin K => PlacedAt(W, s, "rolling", 1)
       /\ "weekly" \notin K => PlacedAt(W, s, "weekly", WeeklyPlace(K))
  BY <1>1 DEF FilledRight
<1> HIDE DEF rows, R, s, N
<1>12. IF five # {} THEN \E r \in five : W["rolling"] = Q!PercentWindow(r)
       ELSE IF first # {} THEN W["rolling"] = Q!PercentWindow(Q!Soonest(first))
       ELSE "rolling" \notin DOMAIN W
  BY <1>4, <1>7, <1>9, <1>11 DEF PlacedAt
<1>13. IF week # {} THEN \E r \in week : W["weekly"] = Q!PercentWindow(r)
       ELSE IF rest # {} THEN W["weekly"] = Q!PercentWindow(Q!Soonest(rest))
       ELSE "weekly" \notin DOMAIN W
  <2>1. CASE week # {}
    BY <1>8, <1>11, <2>1
  <2>2. CASE week = {} /\ five # {}
    <3>1. PlacedAt(W, s, "weekly", 1)
      BY <1>7, <1>8, <1>11, <2>2 DEF WeeklyPlace
    <3> QED
      BY <1>4, <1>9, <2>2, <3>1 DEF PlacedAt
  <2>3. CASE week = {} /\ five = {}
    <3>1. PlacedAt(W, s, "weekly", 2)
      BY <1>7, <1>8, <1>11, <2>3 DEF WeeklyPlace
    <3> QED
      BY <1>4, <1>9, <1>10, <2>3, <3>1 DEF PlacedAt
  <2> QED
    BY <2>1, <2>2, <2>3
<1> QED
  BY <1>2, <1>12, <1>13, SameNames
  DEF Q!ZhipuWindowsRight, rows, R, five, week
-----------------------------------------------------------------------------
(* The two requests for Command Code                                       *)

Plan   == "commandcode-plan"
Funds  == [monthly : Q!Floats, purchased : Q!Floats, free : Q!Floats,
           granted : Q!Floats, plan : Optional(DOMAIN Catalog)]

\* A share of numbers is between 0 and 100 percent; others may be none.
Drawn(percent, used, cap) ==
    \/ percent \in 0 .. 100
    \/ percent = NaN /\ ~ (Q!Number(used) /\ Q!Number(cap))

Bar == {w \in Q!Window : Drawn(w.percent, w.used, w.cap)}

\* The windows of the first answer.
Early(W) == \/ W = Nil
            \/ \E K \in SUBSET {"rolling", "weekly"} : K # {} /\ W \in [K -> Bar]

\* How floats compare with numbers.
LEMMA FloatOrder ==
    ASSUME NEW x \in Q!Floats, NEW n \in Int
    PROVE  /\ Q!Number(x) <=> x \in Int
           /\ Q!Number(n) /\ n \in Q!Floats
           /\ Q!Below(x, n) <=> x = NegInf \/ (x \in Int /\ x < n)
           /\ Q!Below(n, x) <=> x = PosInf \/ (x \in Int /\ n < x)
           /\ Q!NotAbove(x, n) <=> x = NegInf \/ (x \in Int /\ x <= n)
<1>1. (Q!Number(x) <=> x \in Int) /\ Q!Number(n) /\ n \in Q!Floats
  BY FloatsAssumption DEF Q!Number, Q!Floats
<1>2. /\ Q!Below(x, n) <=> x = NegInf \/ (x \in Int /\ x < n)
      /\ Q!Below(n, x) <=> x = PosInf \/ (x \in Int /\ n < x)
  BY <1>1, FloatsAssumption DEF Q!Below, Q!Floats
<1>3. Q!NotAbove(x, n) <=> x = NegInf \/ (x \in Int /\ x <= n)
  BY <1>1, <1>2, FloatsAssumption DEF Q!NotAbove
<1> QED
  BY <1>1, <1>2, <1>3

\* A share of what there is, in percent.
LEMMA ShareBounds ==
    ASSUME NEW used \in Q!Floats, NEW cap \in Q!Floats,
           ~ Q!Below(used, 0), ~ Q!NotAbove(cap, 0)
    PROVE  Drawn(Q!AtMost(Q!Share(used, cap), 100), used, cap)
<1>1. CASE Q!Number(used) /\ Q!Number(cap)
  <2> DEFINE share == (used * 100) \div cap
  <2>1. used \in Nat /\ cap \in Nat \ {0}
    BY <1>1, FloatOrder
  <2>2. share \in Nat
    <3> DEFINE n == used * 100
    <3>1. n \in Nat
      BY <2>1
    <3> HIDE DEF n
    <3>2. n \div cap \in Nat
      BY <2>1, <3>1
    <3> QED
      BY <3>2 DEF n
  <2>3. Q!Share(used, cap) = share
    BY <1>1 DEF Q!Share
  <2> HIDE DEF share
  <2>4. share \in Q!Floats
    BY <2>2 DEF Q!Floats
  <2>5. Q!AtMost(share, 100) \in 0 .. 100
    BY <2>2, <2>4, FloatOrder, FloatsAssumption DEF Q!AtMost
  <2> QED
    BY <2>3, <2>5 DEF Drawn
<1>2. CASE ~ (Q!Number(used) /\ Q!Number(cap))
  <2>1. Q!Share(used, cap) \in {NaN, 0, PosInf}
    BY <1>2 DEF Q!Share
  <2>2. /\ Q!AtMost(NaN, 100) = NaN /\ Q!AtMost(0, 100) = 0
        /\ Q!AtMost(PosInf, 100) = 100
    <3>1. NaN \in Q!Floats /\ PosInf \in Q!Floats /\ 0 \in Q!Floats
      BY DEF Q!Floats
    <3> QED
      BY <3>1, FloatOrder, FloatsAssumption DEF Q!AtMost
  <2>3. Q!AtMost(Q!Share(used, cap), 100) \in {NaN, 0, 100}
    BY <2>1, <2>2
  <2> QED
    BY <1>2, <2>3 DEF Drawn
<1> QED
  BY <1>1, <1>2

\* Bars are windows, and a map of them is there.
LEMMA BarsThere ==
    /\ Bar \subseteq Q!Window
    /\ \A K \in SUBSET Q!WindowKeys : \A W : W \in [K -> Bar] => W \in [K -> Q!Window] /\ W # Nil
<1>1. Bar \subseteq Q!Window
  BY DEF Bar, Q!Window
<1>2. ASSUME NEW K \in SUBSET Q!WindowKeys, NEW W \in [K -> Bar]
      PROVE  W \in [K -> Q!Window] /\ W # Nil
  <2>1. W \in [K -> Q!Window]
    BY <1>1
  <2> QED
    BY <2>1, NilAssumption
<1> QED
  BY <1>1, <1>2

\* A window with a limit is complete.
LEMMA PercentTyped ==
    ASSUME NEW w \in [used : Money, cap : Money, resetsAt : Int],
           ~ Q!NotAbove(w.cap.value, 0)
    PROVE  Q!WindowPercent(w) \in Bar
<1> DEFINE used == Q!Used(w)
           cap == w.cap.value
           share == Q!Share(used, cap)
<1>1. cap \in Q!Floats /\ w.used.value \in Q!Floats /\ w.resetsAt \in Int
  BY DEF Money, Q!Floats
<1>2. used \in Q!Floats /\ ~ Q!Below(used, 0)
  <2>1. 0 \in Q!Floats
    BY DEF Q!Floats
  <2> QED
    BY <1>1, <2>1, FloatOrder, FloatsAssumption DEF Q!Used
<1> HIDE DEF used
<1>3. ~ Q!NotAbove(cap, 0)
  OBVIOUS
<1> HIDE DEF cap
<1>4. Drawn(Q!AtMost(share, 100), used, cap)
  BY <1>1, <1>2, <1>3, ShareBounds
<1> HIDE DEF share
<1>5. Q!WindowPercent(w) = [percent |-> Q!AtMost(share, 100), resetsAt |-> w.resetsAt,
                            used |-> used, cap |-> cap]
  BY DEF Q!WindowPercent, used, share, cap
<1>6. Q!AtMost(share, 100) \in Q!Floats
  BY <1>4 DEF Drawn, Q!Floats
<1> QED
  BY <1>1, <1>2, <1>4, <1>5, <1>6 DEF Bar, Q!Window

\* A first answer that is no failure has windows or credits, or both; and no
\* monthly window.
LEMMA FirstResult ==
    ASSUME NEW b \in Bodies[Plan], ~ Q!ParseCommandCodePlan(b).err
    PROVE  \E W, C : /\ Q!ParseCommandCodePlan(b) = Result(W, C)
                     /\ Early(W) /\ (W # Nil \/ C # Nil)
                     /\ C # Nil => C \in Funds /\ C.granted = b.credits.granted.value
<1> DEFINE limits == IF b.limits = Nil /\ b.credits # Nil THEN b.credits.limits ELSE b.limits
           windows == [k \in Q!Limited(limits) |-> Q!WindowPercent(limits[k])]
           c == b.credits
           credits == IF c # Nil /\ (c.monthly.set \/ c.purchased.set \/ c.free.set)
                      THEN [monthly |-> c.monthly.value, purchased |-> c.purchased.value,
                            free |-> c.free.value, granted |-> c.granted.value,
                            plan |-> Nil]
                      ELSE Nil
<1>1. /\ b.limits \in Optional(Limitations)
      /\ c # Nil => c \in [monthly : Money, purchased : Money, free : Money,
                           granted : Money, limits : Optional(Limitations)]
  BY CommandCodeAssumption DEF Plan, Optional
<1>2. credits # Nil => credits \in Funds /\ credits.granted = c.granted.value
  BY <1>1 DEF Funds, Money, Optional, Q!Floats
<1>3. limits \in Optional(Limitations)
  BY <1>1
<1> HIDE DEF limits
<1>4. ASSUME NEW k \in Q!Limited(limits)
      PROVE  k \in {"rolling", "weekly"} /\ Q!WindowPercent(limits[k]) \in Bar
  <2>1. /\ k \in {"rolling", "weekly"} /\ limits # Nil
        /\ limits[k] # Nil /\ ~ Q!NotAbove(limits[k].cap.value, 0)
    BY <1>4 DEF Q!Limited
  <2>2. limits[k] \in [used : Money, cap : Money, resetsAt : Int]
    BY <1>3, <2>1 DEF Limitations, Optional
  <2> QED
    BY <2>1, <2>2, PercentTyped
<1>5. Q!Limited(limits) \in SUBSET {"rolling", "weekly"}
      /\ windows \in [Q!Limited(limits) -> Bar]
  BY <1>4
<1>6. Q!ParseCommandCodePlan(b) =
        IF DOMAIN windows = {} /\ credits = Nil THEN Q!Failed
        ELSE [Q!Blank EXCEPT !.windows = Q!WindowsIfAny(windows), !.credits = credits]
  BY DEF Q!ParseCommandCodePlan, limits
<1> HIDE DEF windows, credits
<1>7. ~ (DOMAIN windows = {} /\ credits = Nil)
  BY <1>6 DEF Q!Failed, Q!Blank
<1>8. Q!ParseCommandCodePlan(b) = Result(Q!WindowsIfAny(windows), credits)
  BY <1>6, <1>7 DEF Q!Blank, Result
<1>9. Early(Q!WindowsIfAny(windows))
  BY <1>5 DEF Early, Q!WindowsIfAny
<1>10. windows # Nil
  BY <1>5, BarsThere DEF Q!WindowKeys
<1>11. Q!WindowsIfAny(windows) # Nil \/ credits # Nil
  BY <1>7, <1>10 DEF Q!WindowsIfAny
<1> QED
  BY <1>2, <1>8, <1>9, <1>11

\* What the second answer makes of the first result: nothing, or the monthly
\* window is added, with an allowance that was reported or is in the catalog.
Added(W, C, C2, w) ==
    /\ C2 = [C EXCEPT !.plan = C2.plan, !.granted = w.cap]
    /\ C2 \in Funds /\ w \in Bar
    /\ IF Q!NotAbove(C.granted, 0) THEN \E id \in DOMAIN Catalog : w.cap = Catalog[id]
       ELSE w.cap = C.granted
    /\ Q!Number(w.cap) /\ Q!Number(C.monthly) =>
          /\ w.used >= 0
          /\ w.used + C.monthly - w.cap \in {0, 1}

LEMMA SecondResult ==
    ASSUME NEW W, NEW C, C # Nil => C \in Funds,
           NEW sub, sub.resetsAt \in Int, NEW o, o = Q!ApplySubscription(Result(W, C), sub)
    PROVE  \/ o = Result(W, C)
           \/ C # Nil /\ \E C2, w : /\ Added(W, C, C2, w)
                                   /\ o = Result(Q!With(IF W = Nil THEN <<>> ELSE W,
                                                        "monthly", w), C2)
<1> DEFINE first == Result(W, C)
           grant == Q!Grant(C, sub)
           w == Q!MonthlyWindow(C, grant, sub.resetsAt)
           plan == IF sub.planId \in DOMAIN Catalog THEN sub.planId ELSE C.plan
           C2 == [C EXCEPT !.plan = plan, !.granted = grant]
           W2 == Q!With(IF W = Nil THEN <<>> ELSE W, "monthly", w)
<1>1. first.credits = C /\ first.windows = W
  BY DEF Result
<1>2. CASE C = Nil \/ ~ Q!Plausible(C, grant)
  BY <1>1, <1>2 DEF Q!ApplySubscription
<1>3. CASE C # Nil /\ Q!Plausible(C, grant)
  <2>1. /\ C \in Funds /\ C.monthly \in Q!Floats /\ C.granted \in Q!Floats
        /\ C.plan \in Optional(DOMAIN Catalog)
    BY <1>3 DEF Funds
  <2>2. /\ grant \in Q!Floats
        /\ IF Q!NotAbove(C.granted, 0)
           THEN \/ grant = C.granted
                \/ \E id \in DOMAIN Catalog : grant = Catalog[id]
           ELSE grant = C.granted
    BY <2>1, BodiesAssumption DEF Q!Grant, Q!Floats
  <2> HIDE DEF grant
  <2>3. ~ Q!NotAbove(grant, 0)
    BY <1>3 DEF Q!Plausible
  <2> DEFINE rest == Q!Minus(grant, C.monthly)
             used == Q!AtLeast(rest, 0)
             share == Q!Share(used, grant)
  <2>4. rest \in Q!Floats
    BY <2>1, <2>2, FloatOrder DEF Q!Minus, Q!Floats
  <2>4a. Q!Number(grant) /\ Q!Number(C.monthly) =>
            /\ grant \in Int /\ C.monthly \in Int
            /\ rest = grant - C.monthly /\ C.monthly <= grant + 1
    <3> SUFFICES ASSUME Q!Number(grant), Q!Number(C.monthly)
                 PROVE  /\ grant \in Int /\ C.monthly \in Int
                        /\ rest = grant - C.monthly /\ C.monthly <= grant + 1
      OBVIOUS
    <3>1. grant \in Int /\ C.monthly \in Int
      BY <2>1, <2>2, FloatOrder
    <3>2. rest = grant - C.monthly
      BY DEF Q!Minus
    <3>3. ~ Q!Below(grant + 1, C.monthly)
      BY <1>3 DEF Q!Plausible
    <3>4. C.monthly <= grant + 1
      BY <2>1, <3>1, <3>3, FloatOrder
    <3> QED
      BY <3>1, <3>2, <3>4
  <2> HIDE DEF rest
  <2>4b. /\ used \in Q!Floats /\ ~ Q!Below(used, 0)
         /\ rest \in Int => used \in Int /\ used >= 0 /\ used >= rest
         /\ rest \in Int => used = rest \/ (used = 0 /\ rest < 0)
    <3>1. 0 \in Q!Floats
      BY DEF Q!Floats
    <3> QED
      BY <2>4, <3>1, FloatOrder, FloatsAssumption DEF Q!AtLeast
  <2> HIDE DEF used
  <2>4c. Drawn(Q!AtMost(share, 100), used, grant)
    BY <2>2, <2>3, <2>4b, ShareBounds
  <2> HIDE DEF share
  <2>4d. /\ w = [percent |-> Q!AtMost(share, 100), resetsAt |-> sub.resetsAt,
                 used |-> used, cap |-> grant]
         /\ Q!AtMost(share, 100) \in Q!Floats
    BY <2>4c DEF Q!MonthlyWindow, Drawn, Q!Floats, rest, used, share
  <2>4e. w.cap = grant /\ w.used = used /\ w \in Bar
    BY <2>2, <2>4b, <2>4c, <2>4d DEF Bar, Q!Window
  <2> HIDE DEF w
  <2>5. Q!Number(w.cap) /\ Q!Number(C.monthly) =>
           w.used >= 0 /\ w.used + C.monthly - w.cap \in {0, 1}
    BY <2>4a, <2>4b, <2>4e
  <2>6. plan \in Optional(DOMAIN Catalog)
    BY <2>1 DEF Optional
  <2> HIDE DEF plan
  <2>7. C2 \in Funds /\ C2.plan = plan /\ C2.granted = grant
    BY <2>1, <2>2, <2>6 DEF Funds
  <2>8. IF Q!NotAbove(C.granted, 0) THEN \E id \in DOMAIN Catalog : w.cap = Catalog[id]
        ELSE w.cap = C.granted
    BY <2>2, <2>3, <2>4e
  <2>9. Added(W, C, C2, w)
    BY <2>4e, <2>5, <2>7, <2>8 DEF Added
  <2>10. o = [first EXCEPT
               !.credits.plan = IF sub.planId \in DOMAIN Catalog THEN sub.planId ELSE @,
               !.credits.granted = grant,
               !.windows = W2]
    BY <1>1, <1>3, Zenon DEF Q!ApplySubscription, Q!NoWindows, grant, w
  <2> HIDE DEF W2
  <2>11. o = Result(W2, C2)
    BY <2>1, <2>10 DEF Result, Funds, plan
  <2> QED
    BY <1>3, <2>9, <2>11 DEF W2
<1> QED
  BY <1>2, <1>3

\* Putting one list behind another.
LEMMA BothLists ==
    ASSUME NEW A, NEW s \in Seq(A), NEW t \in Seq(A)
    PROVE  ToSet(s \o t) = ToSet(s) \cup ToSet(t)
<1>1. /\ Len(s) \in Nat /\ DOMAIN s = 1 .. Len(s)
      /\ Len(t) \in Nat /\ DOMAIN t = 1 .. Len(t)
  BY LenProperties
<1>2. /\ DOMAIN (s \o t) = 1 .. Len(s) + Len(t)
      /\ \A i \in 1 .. Len(s) + Len(t) :
            (s \o t)[i] = IF i <= Len(s) THEN s[i] ELSE t[i - Len(s)]
  BY <1>1, ConcatProperties, LenProperties
<1> DEFINE st == s \o t
<1> HIDE DEF st
<1>3. ASSUME NEW x \in ToSet(st) PROVE x \in ToSet(s) \cup ToSet(t)
  BY <1>1, <1>2, <1>3 DEF ToSet, st
<1>4. ASSUME NEW i \in DOMAIN s PROVE s[i] \in ToSet(st)
  BY <1>1, <1>2 DEF ToSet, st
<1>5. ASSUME NEW i \in DOMAIN t PROVE t[i] \in ToSet(st)
  <2>1. i + Len(s) \in 1 .. Len(s) + Len(t) /\ ~ (i + Len(s) <= Len(s))
    BY <1>1
  <2>2. st[i + Len(s)] = t[i]
    BY <1>1, <1>2, <2>1 DEF st
  <2> QED
    BY <1>2, <2>1, <2>2 DEF ToSet, st
<1> QED
  BY <1>3, <1>4, <1>5 DEF ToSet, st

\* A card with windows or credits shows both, and nothing else.
LEMMA ShownParts ==
    ASSUME NEW W, NEW C, W # Nil \/ C # Nil
    PROVE  ToSet(Q!CardBody(Result(W, C))) =
              (IF W = Nil THEN {} ELSE Q!WindowKeys \cap DOMAIN W)
              \cup (IF C = Nil THEN {} ELSE {"credits"})
<1> DEFINE all == <<"rolling", "weekly", "monthly">>
           A == Q!WindowKeys \cup {"credits"}
           windows == IF W = Nil THEN <<>> ELSE Q!Only(all, DOMAIN W)
           credits == IF C = Nil THEN <<>> ELSE <<"credits">>
<1>1. all \in Seq(A) /\ Elements(all) = Q!WindowKeys
  BY DEF Q!WindowKeys, Elements
<1>2. credits \in Seq(A) /\ ToSet(credits) = IF C = Nil THEN {} ELSE {"credits"}
  <2>1. <<"credits">> \in Seq(A) /\ ToSet(<<"credits">>) = {"credits"}
    BY DEF ToSet
  <2>2. <<>> \in Seq(A) /\ ToSet(<<>>) = {}
    BY DEF ToSet
  <2> HIDE DEF A
  <2> QED
    BY <2>1, <2>2
<1> HIDE DEF all, A, credits
<1>3. /\ Only(all, DOMAIN W) \in Seq(A)
      /\ Elements(Only(all, DOMAIN W)) = Q!WindowKeys \cap DOMAIN W
  BY <1>1, OnlyKeepsWanted
<1>4. Only(all, DOMAIN W) = Q!Only(all, DOMAIN W)
  BY DEF Only, Rounds, Q!Only, Q!Rounds
<1>5. /\ windows \in Seq(A)
      /\ ToSet(windows) = IF W = Nil THEN {} ELSE Q!WindowKeys \cap DOMAIN W
  BY <1>3, <1>4, LenProperties, EmptySeq DEF ToSet, Elements
<1> HIDE DEF windows
<1>6. Q!CardBody(Result(W, C)) = windows \o credits
  BY DEF Q!CardBody, Result, windows, credits, all
<1> QED
  BY <1>2, <1>5, <1>6, BothLists

-----------------------------------------------------------------------------
(* What the answers become, and what the cards say                         *)

\* Windows that are there, of their types; Command Code's are bars.
Windows(S) == UNION {[K -> S] : K \in SUBSET Q!WindowKeys}

\* The vendor said that there is nothing to show.
NothingThere(k, b) ==
    \/ k = "grants" /\ b = <<>>
    \/ /\ k = "cline-plan" /\ b.success
       /\ b.rows = Nil \/ (\A i \in DOMAIN b.rows :
              b.rows[i].type \notin DOMAIN Q!ClineWindowKeys)

\* o is a result with windows that have their types, and its card says
\* something: "no data" if and only if the vendor said so.
Answered(k, b, o) ==
    /\ o.err \in BOOLEAN
    /\ o.windows = Nil \/ o.windows \in Windows(IF k = Plan THEN Bar ELSE Q!Window)
    /\ Q!CardBody(o) # <<>>
    /\ Q!CardBody(o) = <<"empty">> <=> NothingThere(k, b)

\* A card with windows or credits has parts.
LEMMA FullCard ==
    ASSUME NEW W, NEW C, W # Nil \/ C # Nil,
           W # Nil => Q!WindowKeys \cap DOMAIN W # {}
    PROVE  Q!CardBody(Result(W, C)) \notin {<<>>, <<"empty">>}
<1> DEFINE card == Q!CardBody(Result(W, C))
<1>1. /\ ToSet(card) # {}
      /\ "empty" \notin ToSet(card)
  BY ShownParts DEF Q!WindowKeys
<1> HIDE DEF card
<1>2. ToSet(<<>>) = {} /\ ToSet(<<"empty">>) = {"empty"}
  BY DEF ToSet
<1> QED
  BY <1>1, <1>2 DEF card

\* A failure is shown.
LEMMA ErrorCard ==
    ASSUME NEW o, o.err = TRUE
    PROVE  Q!CardBody(o) = <<"error">> /\ Q!CardBody(o) \notin {<<>>, <<"empty">>}
  BY DEF Q!CardBody

\* What fails without windows, for whatever vendor.
LEMMA FailureAnswered ==
    ASSUME NEW k, NEW b, ~ NothingThere(k, b)
    PROVE  Answered(k, b, Q!Failed)
<1>1. Q!Failed.err = TRUE /\ Q!Failed.windows = Nil
  BY DEF Q!Failed, Q!Blank
<1> QED
  BY <1>1, ErrorCard DEF Answered

\* Windows or credits, for whatever vendor.
LEMMA WindowsAnswered ==
    ASSUME NEW k, NEW b, ~ NothingThere(k, b), NEW W, NEW C, W # Nil \/ C # Nil,
           W # Nil => /\ W \in Windows(IF k = Plan THEN Bar ELSE Q!Window)
                      /\ DOMAIN W # {}
    PROVE  Answered(k, b, Result(W, C))
<1>1. Result(W, C).err = FALSE /\ Result(W, C).windows = W
  BY DEF Result
<1>2. W # Nil => Q!WindowKeys \cap DOMAIN W # {}
  BY DEF Windows
<1> QED
  BY <1>1, <1>2, FullCard DEF Answered

\* A list that is not empty, as a card with a part for each of its elements.
LEMMA PartsOfList ==
    ASSUME NEW s, NEW part \in {"grant", "model"}, s \in Seq(ToSet(s)), s # <<>>
    PROVE  [i \in DOMAIN s |-> part] \notin {<<>>, <<"empty">>}
<1>1. 1 \in DOMAIN s
  BY EmptySeq, LenProperties
<1> DEFINE t == [i \in DOMAIN s |-> part]
<1>2. 1 \in DOMAIN t /\ t[1] = part
  BY <1>1
<1> HIDE DEF t
<1>3. 1 \notin DOMAIN <<>> /\ <<"empty">>[1] = "empty"
  OBVIOUS
<1> QED
  BY <1>2, <1>3 DEF t

LEMMA ZhipuAnswered ==
    ASSUME NEW b \in Bodies["zhipu-plan"], NEW o, o = Q!ParseZhipuPlan(b)
    PROVE  Answered("zhipu-plan", b, o)
<1>1. b \in ZhipuBody /\ ~ NothingThere("zhipu-plan", b) /\ Plan # "zhipu-plan"
  BY VendorsAssumption DEF ZhipuBody, NothingThere, Plan
<1>2. CASE ~ o.err
  <2>1. PICK K, W : /\ FilledRight(W, Named(b), K, Q!Unnamed(b))
                    /\ DOMAIN W # {} /\ o = Result(W, Nil)
    BY <1>1, <1>2, ZhipuResult
  <2>2. W \in Windows(Q!Window)
    BY <2>1 DEF FilledRight, Windows
  <2>3. W # Nil
    BY <2>2, NilAssumption DEF Windows
  <2> QED
    BY <1>1, <2>1, <2>2, <2>3, WindowsAnswered
<1>3. CASE o.err
  <2>1. CASE b.code \notin {0, 200}
    BY <1>1, <2>1, ZhipuSteps, FailureAnswered
  <2>2. CASE b.code \in {0, 200}
    <3>1. Q!Tokens(b) = <<>>
      BY <1>3, <2>2, ZhipuSteps DEF Q!Blank
    <3>2. o = [Q!Failed EXCEPT !.windows = Monthly(b)]
      BY <2>2, <3>1, ZhipuSteps
    <3>3. o.err = TRUE /\ o.windows = Monthly(b)
      BY <3>2 DEF Q!Failed, Q!Blank
    <3>4. Monthly(b) \in Windows(Q!Window)
      <4>1. PICK K \in SUBSET {"monthly"} : Monthly(b) \in [K -> Q!Window]
        BY <1>1, MonthlyTyped
      <4>2. K \in SUBSET Q!WindowKeys
        BY DEF Q!WindowKeys
      <4> QED
        BY <4>1, <4>2 DEF Windows
    <3> QED
      BY <1>1, <3>3, <3>4, ErrorCard DEF Answered
  <2> QED
    BY <2>1, <2>2
<1> QED
  BY <1>2, <1>3

LEMMA ClineAnswered ==
    ASSUME NEW b \in Bodies["cline-plan"], NEW o, o = Q!ParseClinePlan(b)
    PROVE  Answered("cline-plan", b, o)
<1> DEFINE keys == [i \in DOMAIN b.rows |->
                      IF b.rows[i].type \in DOMAIN Q!ClineWindowKeys
                      THEN Q!ClineWindowKeys[b.rows[i].type] ELSE Q!NoKey]
           W == Q!Write(Q!NoWindows, b.rows, keys)
           known == \E i \in DOMAIN b.rows : b.rows[i].type \in DOMAIN Q!ClineWindowKeys
<1>1. /\ b.success \in BOOLEAN
      /\ b.rows \in Optional(Seq(LimitRow))
      /\ Plan # "cline-plan"
  BY VendorsAssumption DEF Plan
<1>2. NothingThere("cline-plan", b) <=> b.success /\ (b.rows = Nil \/ ~ known)
  BY DEF NothingThere
<1>3. o = IF ~ b.success THEN Q!Failed
          ELSE IF b.rows = Nil THEN Q!Blank
          ELSE [Q!Blank EXCEPT !.windows = Q!WindowsIfAny(W)]
  BY <1>1 DEF Q!ParseClinePlan, Q!ClineWindows
<1>4. /\ Q!Blank.err = FALSE /\ Q!Blank.windows = Nil
      /\ Q!CardBody(Q!Blank) = <<"empty">> /\ <<"empty">> # <<>>
  BY DEF Q!Blank, Q!CardBody
<1>5. CASE ~ b.success
  BY <1>2, <1>3, <1>5, FailureAnswered
<1>6. CASE b.success /\ b.rows = Nil
  BY <1>2, <1>3, <1>4, <1>6 DEF Answered
<1>7. CASE b.success /\ b.rows # Nil
  <2>1. b.rows \in Seq(LimitRow)
    BY <1>1, <1>7 DEF Optional
  <2>2. /\ DOMAIN keys = DOMAIN b.rows
        /\ \A i \in DOMAIN keys :
              /\ keys[i] \in {""} \cup Q!WindowKeys
              /\ keys[i] # "" <=> b.rows[i].type \in DOMAIN Q!ClineWindowKeys
    <3>1. \A t \in DOMAIN Q!ClineWindowKeys :
             Q!ClineWindowKeys[t] \in Q!WindowKeys /\ Q!ClineWindowKeys[t] # ""
      <4> DEFINE names == Q!ClineWindowKeys
      <4>1. /\ DOMAIN names = {"five_hour", "weekly", "monthly"}
            /\ names["five_hour"] = "rolling" /\ names["weekly"] = "weekly"
            /\ names["monthly"] = "monthly"
        BY DEF Q!ClineWindowKeys
      <4> HIDE DEF names
      <4> QED
        BY <4>1 DEF Q!WindowKeys, names
    <3> QED
      BY <3>1 DEF Q!NoKey
  <2> HIDE DEF keys
  <2>3. ToSet(keys) \subseteq {""} \cup Q!WindowKeys
    BY <2>2 DEF ToSet
  <2>4. WriteRight(W, Q!NoWindows, {}, keys)
    <3>1. {} \in SUBSET Q!WindowKeys /\ Q!NoWindows \in [{} -> Q!Window]
      BY DEF Q!NoWindows
    <3> QED
      BY <2>1, <2>2, <2>3, <3>1, WriteTyped
  <2> HIDE DEF W
  <2>5. /\ W \in Windows(Q!Window) /\ W # Nil
        /\ DOMAIN W = ToSet(keys) \ {""}
    BY <2>4, NilAssumption DEF WriteRight, Windows
  <2>6. DOMAIN W = {} <=> ~ known
    <3>1. ASSUME NEW i \in DOMAIN b.rows, b.rows[i].type \in DOMAIN Q!ClineWindowKeys
          PROVE  DOMAIN W # {}
      <4>1. keys[i] # "" /\ keys[i] \in ToSet(keys)
        BY <2>2, <3>1 DEF ToSet
      <4> QED
        BY <2>5, <4>1
    <3>2. ASSUME NEW k \in DOMAIN W
          PROVE  \E i \in DOMAIN b.rows : b.rows[i].type \in DOMAIN Q!ClineWindowKeys
      <4>1. k # "" /\ k \in ToSet(keys)
        BY <2>5, <3>2
      <4>2. PICK i \in DOMAIN keys : keys[i] = k
        BY <4>1 DEF ToSet
      <4> QED
        BY <2>2, <4>1, <4>2
    <3> QED
      BY <3>1, <3>2
  <2>7. o = [Q!Blank EXCEPT !.windows = Q!WindowsIfAny(W)]
    BY <1>3, <1>7
  <2> HIDE DEF known
  <2>8. CASE known
    <3>1. o = Result(W, Nil)
      BY <2>6, <2>7, <2>8 DEF Q!WindowsIfAny, Q!Blank, Result
    <3>2. ~ NothingThere("cline-plan", b) /\ W # Nil /\ DOMAIN W # {}
      BY <1>2, <1>7, <2>5, <2>6, <2>8
    <3>3. W \in Windows(IF "cline-plan" = Plan THEN Bar ELSE Q!Window)
      BY <1>1, <2>5
    <3> QED
      BY <3>1, <3>2, <3>3, WindowsAnswered
  <2>9. CASE ~ known
    <3>1. o = Q!Blank
      BY <2>6, <2>7, <2>9 DEF Q!WindowsIfAny, Q!Blank
    <3> QED
      BY <1>2, <1>4, <1>7, <2>9, <3>1 DEF Answered
  <2> QED
    BY <2>8, <2>9
<1> QED
  BY <1>1, <1>5, <1>6, <1>7

\* Command Code's first answer.
LEMMA PlanAnswered ==
    ASSUME NEW b \in Bodies[Plan], NEW o, o = Q!ParseCommandCodePlan(b)
    PROVE  Answered(Plan, b, o)
<1>1. ~ NothingThere(Plan, b)
  BY DEF NothingThere, Plan
<1>2. CASE o.err
  <2>1. o = Q!Failed
    BY <1>2 DEF Q!ParseCommandCodePlan, Q!Blank
  <2> QED
    BY <1>1, <2>1, FailureAnswered
<1>3. CASE ~ o.err
  <2>1. PICK W, C : o = Result(W, C) /\ Early(W) /\ (W # Nil \/ C # Nil)
    BY <1>3, FirstResult
  <2>2. W # Nil => W \in Windows(Bar) /\ DOMAIN W # {}
    <3>1. {"rolling", "weekly"} \subseteq Q!WindowKeys
      BY DEF Q!WindowKeys
    <3> QED
      BY <2>1, <3>1 DEF Early, Windows
  <2> QED
    BY <1>1, <2>1, <2>2, WindowsAnswered
<1> QED
  BY <1>2, <1>3

\* parseQuotaPayload, for every kind of vendor.
LEMMA PayloadAnswered ==
    ASSUME NEW k \in DOMAIN Bodies, NEW b \in {Malformed} \cup Bodies[k],
           NEW o, o = Q!ParseQuotaPayload(k, b)
    PROVE  IF b = Malformed THEN o = Q!Failed ELSE Answered(k, b, o)
<1>1. CASE b = Malformed
  BY <1>1 DEF Q!ParseQuotaPayload
<1> SUFFICES ASSUME b # Malformed PROVE Answered(k, b, o)
  BY <1>1
<1>2. b \in Bodies[k]
  OBVIOUS
<1>3. k \in {"percent-windows", "balance", "coding-plan", "grants",
             "zhipu-plan", "cline-plan", "commandcode-plan"}
  BY BodiesAssumption DEF Parsers
<1>4. CASE k = "percent-windows"
  <2> DEFINE W == [w \in Q!WindowKeys |-> Q!PercentWindow(b[w])]
  <2>1. o = Result(W, Nil)
    BY <1>4 DEF Q!ParseQuotaPayload, Q!Blank, Result
  <2>2. b \in [Q!WindowKeys -> [percent : Int, resetsAt : Int]]
    BY <1>2, <1>4, PercentWindowsAssumption
  <2>3. \A row \in [percent : Int, resetsAt : Int] : Q!PercentWindow(row) \in Q!Window
    BY DEF Q!PercentWindow, Q!Window, Q!Floats
  <2>4. W \in [Q!WindowKeys -> Q!Window] /\ DOMAIN W = Q!WindowKeys
    BY <2>2, <2>3
  <2> HIDE DEF W
  <2>5. W \in Windows(Q!Window) /\ W # Nil /\ DOMAIN W # {}
    BY <2>4, NilAssumption DEF Windows, Q!WindowKeys
  <2>6. ~ NothingThere(k, b) /\ k # Plan
    BY <1>4 DEF NothingThere, Plan
  <2> QED
    BY <2>1, <2>5, <2>6, WindowsAnswered
<1>5. CASE k = "balance"
  <2> DEFINE v == IF b = <<>> THEN 0 ELSE Head(b)
  <2>1. v # Nil
    <3>1. b \in Seq(ToSet(b))
      BY <1>2, <1>5, VendorsAssumption
    <3>2. b # <<>> => Head(b) \in ToSet(b)
      BY <3>1, HeadTailProperties
    <3> QED
      BY <1>2, <1>5, <3>2, NilAssumption
  <2>2. o = [Q!Blank EXCEPT !.balance = v]
    BY <1>5 DEF Q!ParseQuotaPayload
  <2> HIDE DEF v
  <2>3. /\ o.err = FALSE /\ o.windows = Nil
        /\ Q!CardBody(o) = <<"balance">>
    BY <2>1, <2>2 DEF Q!Blank, Q!CardBody
  <2>4. ~ NothingThere(k, b) /\ <<"balance">> \notin {<<>>, <<"empty">>}
    BY <1>5 DEF NothingThere
  <2> QED
    BY <2>3, <2>4 DEF Answered
<1>6. CASE k = "coding-plan"
  <2>1. ~ NothingThere(k, b)
    BY <1>6 DEF NothingThere
  <2>2. CASE b = <<>>
    BY <1>6, <2>1, <2>2, FailureAnswered DEF Q!ParseQuotaPayload
  <2>3. CASE b # <<>>
    <3>1. o = [Q!Blank EXCEPT !.models = b]
      BY <1>6, <2>3 DEF Q!ParseQuotaPayload
    <3>2. /\ o.err = FALSE /\ o.windows = Nil
          /\ Q!CardBody(o) = [i \in DOMAIN b |-> "model"]
      BY <2>3, <3>1 DEF Q!Blank, Q!CardBody
    <3>3. [i \in DOMAIN b |-> "model"] \notin {<<>>, <<"empty">>}
      BY <1>2, <1>6, <2>3, VendorsAssumption, PartsOfList
    <3> QED
      BY <2>1, <3>2, <3>3 DEF Answered
  <2> QED
    BY <2>2, <2>3
<1>7. CASE k = "grants"
  <2>1. NothingThere(k, b) <=> b = <<>>
    BY <1>7 DEF NothingThere
  <2>2. o = [Q!Blank EXCEPT !.grants = b]
    BY <1>7 DEF Q!ParseQuotaPayload
  <2>3. o.err = FALSE /\ o.windows = Nil
    BY <2>2 DEF Q!Blank
  <2>4. CASE b = <<>>
    <3>1. Q!CardBody(o) = <<"empty">>
      BY <2>2, <2>4 DEF Q!Blank, Q!CardBody
    <3>2. <<"empty">> # <<>>
      OBVIOUS
    <3> QED
      BY <2>1, <2>3, <2>4, <3>1, <3>2 DEF Answered
  <2>5. CASE b # <<>>
    <3>1. Q!CardBody(o) = [i \in DOMAIN b |-> "grant"]
      BY <2>2, <2>5 DEF Q!Blank, Q!CardBody
    <3>2. [i \in DOMAIN b |-> "grant"] \notin {<<>>, <<"empty">>}
      BY <1>2, <1>7, <2>5, VendorsAssumption, PartsOfList
    <3> QED
      BY <2>1, <2>3, <2>5, <3>1, <3>2 DEF Answered
  <2> QED
    BY <2>4, <2>5
<1>8. CASE k = "zhipu-plan"
  BY <1>2, <1>8, ZhipuAnswered DEF Q!ParseQuotaPayload
<1>9. CASE k = "cline-plan"
  BY <1>2, <1>9, ClineAnswered DEF Q!ParseQuotaPayload
<1>10. CASE k = "commandcode-plan"
  BY <1>2, <1>10, PlanAnswered DEF Q!ParseQuotaPayload, Plan
<1> QED
  BY <1>3, <1>4, <1>5, <1>6, <1>7, <1>8, <1>9, <1>10
-----------------------------------------------------------------------------
(* The lookup of Command Code, step by step                                *)

\* What was asked for is answered, if at all, by what it may be answered by;
\* the second question is put with the result of the first answer at hand.
Lookup ==
    /\ call.pc = "away" => BodyOf(answer) \in {Nil, Malformed} \cup Asked
    /\ step = "plan" =>
          /\ kind = Plan /\ body \in Bodies[Plan]
          /\ out = Q!ParseCommandCodePlan(body) /\ ~ out.err
    /\ MonthlyNotInvented

\* A body comes out of the callback only if the vendor can have sent it.
LEMMA BodyAnswered ==
    ASSUME NEW bodies, NEW a \in Answers(bodies)
    PROVE  BodyOf(a) \in {Nil, Malformed} \cup bodies
<1>1. CASE ~ Succeeded(a)
  BY <1>1 DEF BodyOf
<1>2. CASE Succeeded(a)
  <2>1. a.buffer \in {Envelope(TRUE, r) : r \in Results(bodies)}
    BY <1>2 DEF Succeeded, Answers, Buffers, Envelope
  <2>2. a.buffer.result \in Results(bodies)
    BY <2>1 DEF Envelope
  <2> QED
    BY <1>2, <2>2 DEF BodyOf, Results
<1> QED
  BY <1>1, <1>2

LEMMA FirstLookup ==
    ASSUME Lookup, call.pc = "away", call'.pc # "away", Q!FirstAnswer(BodyOf(answer))
    PROVE  Lookup'
<1> DEFINE b == BodyOf(answer)
<1>1. /\ step = "credits" /\ body' = b /\ kind' = kind
      /\ out' = IF b = Nil THEN Q!Failed ELSE Q!ParseQuotaPayload(kind, b)
      /\ step' = "plan" => kind = Plan /\ ~ out'.err
  BY DEF Q!FirstAnswer, Plan
<1>2. b \in {Nil, Malformed} \cup Bodies[kind]
  BY <1>1 DEF Lookup, Asked
<1> HIDE DEF b
<1>3. Q!Failed.err /\ Q!Failed.windows = Nil
  BY DEF Q!Failed, Q!Blank
<1>4. CASE kind # Plan
  BY <1>1, <1>4 DEF Lookup, MonthlyNotInvented, Q!MonthlyNotInvented, Plan
<1>5. CASE out' = Q!Failed
  BY <1>1, <1>3, <1>5 DEF Lookup, MonthlyNotInvented, Q!MonthlyNotInvented
<1>6. CASE kind = Plan /\ out' # Q!Failed
  <2>1. b \in Bodies[Plan] /\ b # Malformed /\ out' = Q!ParseCommandCodePlan(b)
    BY <1>1, <1>2, <1>6 DEF Q!ParseQuotaPayload, Plan
  <2>2. out'.windows # Nil => "monthly" \notin DOMAIN out'.windows
    <3>1. CASE out'.err
      BY <1>3, <1>6, <2>1, <3>1 DEF Q!ParseCommandCodePlan, Q!Failed, Q!Blank
    <3>2. CASE ~ out'.err
      <4>1. PICK W, C : out' = Result(W, C) /\ Early(W)
        BY <2>1, <3>2, FirstResult
      <4> QED
        BY <4>1 DEF Result, Early
    <3> QED
      BY <3>1, <3>2
  <2> QED
    BY <1>1, <1>6, <2>1, <2>2 DEF Lookup, MonthlyNotInvented, Q!MonthlyNotInvented
<1> QED
  BY <1>4, <1>5, <1>6

\* The second answer, which may be none, leaves a card whose monthly window
\* is real, and which shows at least what it showed.
LEMMA SecondLookup ==
    ASSUME Lookup, call.pc = "away", call'.pc # "away", Q!SecondAnswer(BodyOf(answer))
    PROVE  Lookup' /\ Q!OnlyAdds /\ Answered(Plan, body', out')
<1> DEFINE b == BodyOf(answer)
           sub == Q!Subscription(b)
<1>1. /\ step = "plan" /\ step' = "done" /\ body' = body /\ kind' = kind
      /\ out' = IF sub = Nil THEN out ELSE Q!ApplySubscription(out, sub)
  BY DEF Q!SecondAnswer
<1>2. /\ kind = Plan /\ body \in Bodies[Plan]
      /\ out = Q!ParseCommandCodePlan(body) /\ ~ out.err
      /\ b \in {Nil, Malformed} \cup PlanBodies
      /\ MonthlyNotInvented
  BY <1>1 DEF Lookup, Asked
<1>3. sub # Nil => sub.resetsAt \in Int
  BY <1>2, CommandCodeAssumption DEF Q!Subscription
<1>4. PICK W, C : /\ out = Result(W, C) /\ Early(W) /\ (W # Nil \/ C # Nil)
                  /\ C # Nil => C \in Funds /\ C.granted = body.credits.granted.value
  BY <1>2, FirstResult
<1> HIDE DEF b, sub
<1>5. CASE out' = out
  <2>1. Lookup' /\ Q!OnlyAdds
    BY <1>1, <1>2, <1>4, <1>5
    DEF Lookup, MonthlyNotInvented, Q!MonthlyNotInvented, Q!OnlyAdds
  <2>2. Answered(Plan, body, out)
    BY <1>2, PlanAnswered
  <2> QED
    BY <1>1, <1>5, <2>1, <2>2
<1>6. CASE out' # out
  <2>1. C # Nil /\ C \in Funds /\ C.granted = body.credits.granted.value
    BY <1>1, <1>3, <1>4, <1>6, SecondResult
  <2>2. PICK C2, w : /\ Added(W, C, C2, w)
                     /\ out' = Result(Q!With(IF W = Nil THEN <<>> ELSE W, "monthly", w), C2)
    BY <1>1, <1>3, <1>4, <1>6, SecondResult
  <2> DEFINE W2 == Q!With(IF W = Nil THEN <<>> ELSE W, "monthly", w)
  <2>3. /\ C2 \in Funds /\ C2.monthly = C.monthly
        /\ C2.purchased = C.purchased /\ C2.free = C.free
    BY <2>1, <2>2 DEF Added, Funds
  <2>4. /\ W2["monthly"] = w /\ "monthly" \in DOMAIN W2
        /\ W # Nil => \A k \in DOMAIN W : k \in DOMAIN W2 /\ W2[k] = W[k]
    BY <1>4 DEF Q!With, Early
  <2>5. W2 \in Windows(Bar)
    <3>1. w \in Bar
      BY <2>2 DEF Added
    <3>2. CASE W = Nil
      <4>1. W2 \in [{"monthly"} -> Bar]
        BY <3>1, <3>2 DEF Q!With
      <4> QED
        BY <4>1 DEF Q!WindowKeys, Windows
    <3>3. CASE W # Nil
      <4>1. PICK K \in SUBSET {"rolling", "weekly"} : W \in [K -> Bar]
        BY <1>4, <3>3 DEF Early
      <4>2. W2 \in [K \cup {"monthly"} -> Bar]
        BY <3>1, <3>3, <4>1 DEF Q!With
      <4>3. K \cup {"monthly"} \in SUBSET Q!WindowKeys
        BY DEF Q!WindowKeys
      <4> QED
        BY <4>2, <4>3 DEF Windows
    <3> QED
      BY <3>2, <3>3
  <2> HIDE DEF W2
  <2>6. W2 # Nil /\ C2 # Nil
    BY <2>3, <2>5, BarsThere, NilAssumption DEF Funds, Windows
  <2>7. out'.windows = W2 /\ out'.credits = C2 /\ out.windows = W /\ out.credits = C
    BY <1>4, <2>2 DEF Result, W2
  <2>8. ToSet(Q!CardBody(out)) \subseteq ToSet(Q!CardBody(out'))
    <3>1. W # Nil => DOMAIN W \subseteq DOMAIN W2
      BY <2>4
    <3>2. out' = Result(W2, C2)
      BY <2>2 DEF W2
    <3> QED
      BY <1>4, <2>1, <2>6, <3>1, <3>2, ShownParts
  <2>9. Q!OnlyAdds
    BY <2>3, <2>4, <2>7, <2>8 DEF Q!OnlyAdds, ToSet, Q!ToSet
  <2>10. Q!MonthlyNotInvented'
    <3>1. /\ IF Q!NotAbove(C.granted, 0)
             THEN \E id \in DOMAIN Catalog : w.cap = Catalog[id]
             ELSE w.cap = C.granted
          /\ Q!Number(w.cap) /\ Q!Number(C.monthly) =>
                /\ w.used >= 0
                /\ w.used + C.monthly - w.cap \in {0, 1}
      BY <2>2 DEF Added
    <3>2. /\ out'.windows["monthly"] = w /\ out'.credits.monthly = C.monthly
          /\ body'.credits.granted.value = C.granted
      BY <1>1, <2>1, <2>3, <2>4, <2>7
    <3> QED
      BY <3>1, <3>2 DEF Q!MonthlyNotInvented
  <2>11. Answered(Plan, body', out')
    <3>1. ~ NothingThere(Plan, body')
      BY DEF NothingThere, Plan
    <3>2. out' = Result(W2, C2) /\ DOMAIN W2 # {}
      BY <2>2, <2>4 DEF W2
    <3> QED
      BY <2>5, <2>6, <3>1, <3>2, WindowsAnswered
  <2> QED
    BY <1>1, <2>9, <2>10, <2>11 DEF Lookup, MonthlyNotInvented
<1> QED
  BY <1>5, <1>6

\* A lookup that begins, or ends and is forgotten.
LEMMA NoMonthlyYet ==
    ASSUME out' = Q!Blank \/ out' = Q!Failed, step' # "plan", call'.pc # "away"
    PROVE  Lookup'
<1>1. out'.windows = Nil
  BY DEF Q!Blank, Q!Failed
<1> QED
  BY <1>1 DEF Lookup, MonthlyNotInvented, Q!MonthlyNotInvented

\* Nothing but the call and the answer of the callback change.
LEMMA LookupKept ==
    ASSUME Lookup, UNCHANGED lookup,
           call'.pc = "away" => BodyOf(answer') \in {Nil, Malformed} \cup Asked
    PROVE  Lookup'
<1>1. /\ kind' = kind /\ step' = step /\ body' = body /\ out' = out
      /\ Asked' = Asked
  BY DEF lookup, Asked
<1> QED
  BY <1>1 DEF Lookup, MonthlyNotInvented, Q!MonthlyNotInvented, Q!ParseCommandCodePlan

LEMMA LookupStep ==
    ASSUME Lookup, [Next]_vars
    PROVE  Lookup'
<1>1. CASE HostCalls
  <2>1. CASE StartLookup
    BY <2>1, NoMonthlyYet DEF StartLookup, Q!Begin
  <2>2. CASE UNCHANGED lookup /\ \E wants, rc, ok : Reply(wants, rc, ok)
    BY <2>2, LookupKept DEF Reply
  <2>3. ASSUME NEW wants, NEW raw, Configure(raw, wants)
        PROVE  UNCHANGED lookup /\ \E rc, ok : Reply(wants, rc, ok)
    BY <2>3 DEF Configure
  <2> QED
    BY <1>1, <2>1, <2>2, <2>3 DEF HostCalls, OtherCall, AnswerAtOnce
<1>2. CASE EndLookup
  BY <1>2, NoMonthlyYet DEF EndLookup, Reply
<1>3. CASE CallHost
  <2>1. answer' \in Answers(Asked) \/ answer' = [code |-> 1, buffer |-> Nil]
    BY <1>3 DEF CallHost
  <2>2. BodyOf([code |-> 1, buffer |-> Nil]) = Nil
    BY DEF BodyOf, Succeeded
  <2>3. BodyOf(answer') \in {Nil, Malformed} \cup Asked
    BY <2>1, <2>2, BodyAnswered
  <2> QED
    BY <1>3, <2>3, LookupKept DEF CallHost
<1>4. CASE Return
  <2>1. call.pc = "away" /\ call'.pc # "away"
    BY <1>4 DEF Return
  <2> QED
    BY <1>4, <2>1, FirstLookup, SecondLookup DEF Return
<1>5. CASE FreeReply
  BY <1>5, LookupKept DEF FreeReply
<1>6. CASE PluginInit \/ Shutdown \/ UNCHANGED vars
  <2>1. UNCHANGED lookup /\ call' = call /\ answer' = answer
    BY <1>6 DEF PluginInit, Shutdown, vars
  <2> QED
    BY <2>1, LookupKept DEF Lookup
<1> QED
  BY <1>1, <1>2, <1>3, <1>4, <1>5, <1>6 DEF Next

LEMMA LookupAlways == Spec => []Lookup
<1>1. Init => Lookup
  BY DEF Init, Lookup, MonthlyNotInvented, Q!MonthlyNotInvented, Q!Failed, Q!Blank
<1>2. Lookup /\ [Next]_vars => Lookup'
  BY LookupStep
<1> QED
  BY <1>1, <1>2, PTL DEF Spec

\* Whatever Command Code answers to either request, NaN and infinities among
\* the amounts, a monthly window has an allowance that was reported or, where
\* none was, is in the catalog; and if it and what is left are numbers, what
\* is used makes them up (flexFloat, applyCommandCodeSubscription).
THEOREM MonthlyIsReal == Spec => []MonthlyNotInvented
<1>1. Lookup => MonthlyNotInvented
  BY DEF Lookup
<1> QED
  BY <1>1, LookupAlways, PTL

\* The second request can fail in every way the callback can: the card keeps
\* what the first request brought (fetchOneQuota).
THEOREM SecondRequestOnlyAdds == Spec => SecondOnlyAdds
<1> DEFINE Right == call.pc = "away" => Q!OnlyAdds
<1>1. ASSUME Lookup, Next PROVE Right
  <2>1. CASE Return
    <3>1. call'.pc # "away"
      BY <2>1 DEF Return
    <3>2. Q!FirstAnswer(BodyOf(answer)) => step # "plan"
      BY DEF Q!FirstAnswer
    <3> QED
      BY <1>1, <2>1, <3>1, <3>2, SecondLookup DEF Return, Q!OnlyAdds
  <2>2. CASE HostCalls \/ EndLookup
    <3>1. call = Idle \/ call = Busy
      BY <2>2 DEF HostCalls, EndLookup
    <3> QED
      BY <3>1
  <2>3. CASE PluginInit \/ FreeReply \/ Shutdown \/ CallHost
    <3>1. out' = out
      BY <2>3 DEF PluginInit, FreeReply, Shutdown, CallHost, lookup
    <3> QED
      BY <3>1 DEF Q!OnlyAdds
  <2> QED
    BY <1>1, <2>1, <2>2, <2>3 DEF Next
<1>2. Lookup /\ [Next]_vars => [Right]_vars
  BY <1>1
<1> QED
  BY <1>2, LookupAlways, PTL DEF Spec, SecondOnlyAdds
-----------------------------------------------------------------------------
(* Types and cards                                                         *)

\* What holds of a lookup: its result has its type, it was answered by what
\* the vendor sends, and its card says so.
Cards ==
    /\ TypeOK
    /\ CardSpeaks
    /\ kind = "zhipu-plan" /\ step = "done" /\ ~ out.err =>
          body \in Bodies["zhipu-plan"] /\ out = Q!ParseZhipuPlan(body)

Inv == Memory /\ RuntimeSound /\ Lookup /\ Cards

\* The types of the plugin itself; those of the lookup are QuotaFetch's.
BorderTyped ==
    /\ stored \in Hosts \cup {Nil}
    /\ call.pc \in {"idle", "lookup", "away", "reply"}
    /\ held \subseteq {"method", "payload", "buffer", "reply"}

LEMMA BorderStep ==
    ASSUME Memory, BorderTyped, [Next]_vars
    PROVE  BorderTyped'
<1>1. call'.pc \in {"idle", "lookup", "away", "reply"}
  BY MemoryStep DEF Memory, Calls
<1>2. stored' \in Hosts \cup {Nil}
  BY DEF BorderTyped, Next, vars, PluginInit, HostCalls, EndLookup, FreeReply,
         Shutdown, CallHost, Return
<1>3. held' \subseteq {"method", "payload", "buffer", "reply"}
  BY DEF BorderTyped, Next, vars, PluginInit, HostCalls, EndLookup, FreeReply,
         Shutdown, CallHost, Return, Configure, OtherCall, AnswerAtOnce,
         StartLookup, Reply
<1> QED
  BY <1>1, <1>2, <1>3 DEF BorderTyped

\* The result of an answer has its type, and its card speaks.
LEMMA AnsweredTyped ==
    ASSUME BorderTyped', kind' \in Parsers, step' \in {"plan", "done"},
           step' = "plan" => kind' = Plan /\ ~ out'.err,
           \/ out' = Q!Failed /\ body' \in {Nil, Malformed}
           \/ /\ Answered(kind', body', out')
              /\ NothingThere(kind', body') => body' \notin {Nil, Malformed}
    PROVE  TypeOK' /\ CardSpeaks'
<1>1. CASE out' = Q!Failed /\ body' \in {Nil, Malformed}
  <2>1. out'.err = TRUE /\ out'.windows = Nil
    BY <1>1 DEF Q!Failed, Q!Blank
  <2>2. Q!CardBody(out') \notin {<<>>, <<"empty">>}
    BY <2>1, ErrorCard
  <2>3. Q!TypeOK'
    BY <2>1 DEF Q!TypeOK, Plan
  <2>4. Q!CardSpeaks'
    BY <1>1, <2>2 DEF Q!CardSpeaks
  <2> QED
    BY <2>3, <2>4 DEF TypeOK, CardSpeaks, BorderTyped
<1>2. CASE /\ Answered(kind', body', out')
           /\ NothingThere(kind', body') => body' \notin {Nil, Malformed}
  <2>1. ASSUME out'.windows # Nil, NEW k \in DOMAIN out'.windows
        PROVE  /\ DOMAIN out'.windows \subseteq Q!WindowKeys
               /\ out'.windows[k] \in Q!Window
               /\ kind' = Plan => Drawn(out'.windows[k].percent, out'.windows[k].used,
                                        out'.windows[k].cap)
    <3>1. out'.windows \in Windows(IF kind' = Plan THEN Bar ELSE Q!Window)
      BY <1>2, <2>1 DEF Answered
    <3>2. /\ DOMAIN out'.windows \subseteq Q!WindowKeys
          /\ out'.windows[k] \in IF kind' = Plan THEN Bar ELSE Q!Window
      BY <2>1, <3>1 DEF Windows
    <3>3. \A w \in Bar : w \in Q!Window /\ Drawn(w.percent, w.used, w.cap)
      BY BarsThere DEF Bar
    <3> QED
      BY <3>2, <3>3
  <2>2. out'.windows # Nil => DOMAIN out'.windows \subseteq Q!WindowKeys
    BY <1>2 DEF Answered, Windows
  <2>3. Q!TypeOK'
    BY <1>2, <2>1, <2>2 DEF Q!TypeOK, Answered, Plan, Drawn
  <2>4. Q!CardSpeaks'
    BY <1>2 DEF Q!CardSpeaks, Answered, NothingThere
  <2> QED
    BY <2>3, <2>4 DEF TypeOK, CardSpeaks, BorderTyped
<1> QED
  BY <1>1, <1>2

\* A lookup that begins, or ends and is forgotten.
LEMMA NoCardYet ==
    ASSUME BorderTyped', kind' \in Parsers,
           \/ out' = Q!Blank /\ step' = "credits"
           \/ out' = Q!Failed /\ step' = "done" /\ body' = Nil /\ kind' = "grants"
    PROVE  Cards'
<1>1. CASE out' = Q!Blank /\ step' = "credits"
  <2>1. out'.err = FALSE /\ out'.windows = Nil
    BY <1>1 DEF Q!Blank
  <2>2. Q!TypeOK' /\ Q!CardSpeaks'
    BY <1>1, <2>1 DEF Q!TypeOK, Q!CardSpeaks
  <2> QED
    BY <1>1, <2>2 DEF Cards, TypeOK, CardSpeaks, BorderTyped
<1>2. CASE out' = Q!Failed /\ step' = "done" /\ body' = Nil /\ kind' = "grants"
  <2>1. TypeOK' /\ CardSpeaks'
    BY <1>2, AnsweredTyped
  <2> QED
    BY <1>2, <2>1 DEF Cards
<1> QED
  BY <1>1, <1>2

LEMMA CardsKept ==
    ASSUME Cards, BorderTyped', UNCHANGED lookup
    PROVE  Cards'
<1>1. kind' = kind /\ path' = path /\ step' = step /\ body' = body /\ out' = out
  BY DEF lookup
<1>2. Q!TypeOK' /\ Q!CardSpeaks'
  BY <1>1 DEF Cards, TypeOK, CardSpeaks, Q!TypeOK, Q!CardSpeaks
<1> QED
  BY <1>1, <1>2 DEF Cards, TypeOK, CardSpeaks, BorderTyped

\* The answers.
LEMMA CardsAnswered ==
    ASSUME Lookup, Cards, BorderTyped', Return
    PROVE  Cards'
<1> DEFINE b == BodyOf(answer)
<1>1. kind \in Parsers /\ kind \in DOMAIN Bodies /\ call.pc = "away" /\ call'.pc # "away"
  BY BodiesAssumption DEF Cards, TypeOK, Return
<1>2. CASE Q!FirstAnswer(b)
  <2>1. /\ step = "credits" /\ body' = b /\ kind' = kind
        /\ out' = IF b = Nil THEN Q!Failed ELSE Q!ParseQuotaPayload(kind, b)
        /\ step' \in {"plan", "done"}
        /\ step' = "plan" => kind = Plan /\ ~ out'.err
    BY <1>2 DEF Q!FirstAnswer, Plan
  <2>2. b \in {Nil, Malformed} \cup Bodies[kind]
    BY <1>1, <2>1 DEF Lookup, Asked
  <2> HIDE DEF b
  <2>3. b # Nil => IF b = Malformed THEN out' = Q!Failed ELSE Answered(kind, b, out')
    BY <1>1, <2>1, <2>2, PayloadAnswered
  <2>4. TypeOK' /\ CardSpeaks'
    BY <1>1, <2>1, <2>3, AnsweredTyped
  <2>5. ASSUME kind' = "zhipu-plan", ~ out'.err
        PROVE  body' \in Bodies["zhipu-plan"] /\ out' = Q!ParseZhipuPlan(body')
    <3>1. out' # Q!Failed
      BY <2>5 DEF Q!Failed, Q!Blank
    <3>2. b # Nil /\ b # Malformed
      BY <2>1, <2>3, <3>1
    <3>3. Q!ParseQuotaPayload(kind, b) = Q!ParseZhipuPlan(b)
      BY <2>1, <2>5, <3>2 DEF Q!ParseQuotaPayload
    <3> QED
      BY <2>1, <2>2, <2>5, <3>2, <3>3
  <2>6. Q!ParseZhipuPlan(body)' = Q!ParseZhipuPlan(body')
    OBVIOUS
  <2> QED
    BY <2>4, <2>5, <2>6 DEF Cards
<1>3. CASE Q!SecondAnswer(b)
  <2>1. /\ step = "plan" /\ step' = "done" /\ kind' = kind /\ body' = body
    BY <1>3 DEF Q!SecondAnswer
  <2>2. kind = Plan /\ Plan # "zhipu-plan" /\ body \in Bodies[Plan] /\ ~ out.err
        /\ out = Q!ParseCommandCodePlan(body)
    BY <2>1 DEF Lookup, Plan
  <2>3. Answered(Plan, body', out') /\ ~ NothingThere(Plan, body')
    BY <1>1, <1>3, SecondLookup DEF NothingThere, Plan
  <2>4. TypeOK' /\ CardSpeaks'
    BY <1>1, <2>1, <2>2, <2>3, AnsweredTyped
  <2> QED
    BY <2>1, <2>2, <2>4 DEF Cards
<1> QED
  BY <1>2, <1>3 DEF Return

LEMMA InvStep ==
    ASSUME Inv, [Next]_vars
    PROVE  Inv'
<1>1. Memory' /\ RuntimeSound' /\ Lookup'
  BY MemoryStep, RuntimeStep, LookupStep DEF Inv
<1>2. BorderTyped'
  BY BorderStep DEF Inv, Cards, TypeOK, BorderTyped
<1>3. CASE HostCalls
  <2>1. CASE StartLookup
    <3>1. active # Nil /\ \E src \in ToSet(active.sources) : Q!Begin(src.kind, Tail(src.url))
      BY <2>1 DEF StartLookup
    <3>2. kind' \in Parsers /\ out' = Q!Blank /\ step' = "credits"
      BY <3>1 DEF Inv, RuntimeSound, Q!Begin
    <3> QED
      BY <1>1, <1>2, <3>2, NoCardYet DEF Inv
  <2>2. CASE UNCHANGED lookup
    BY <1>1, <1>2, <2>2, CardsKept DEF Inv
  <2> QED
    BY <1>3, <2>1, <2>2 DEF HostCalls, Configure, OtherCall, AnswerAtOnce
<1>4. CASE EndLookup
  <2>1. /\ kind' = "grants" /\ step' = "done" /\ body' = Nil /\ out' = Q!Failed
        /\ "grants" \in Parsers
    BY <1>4 DEF EndLookup, Parsers
  <2> QED
    BY <1>1, <1>2, <2>1, NoCardYet DEF Inv
<1>5. CASE Return
  BY <1>1, <1>2, <1>5, CardsAnswered DEF Inv
<1>6. CASE PluginInit \/ FreeReply \/ Shutdown \/ CallHost \/ UNCHANGED vars
  <2>1. UNCHANGED lookup
    BY <1>6 DEF PluginInit, FreeReply, Shutdown, CallHost, vars
  <2> QED
    BY <1>1, <1>2, <2>1, CardsKept DEF Inv
<1> QED
  BY <1>3, <1>4, <1>5, <1>6 DEF Next

LEMMA InvAlways == Spec => []Inv
<1>1. Init => Inv
  <2>1. ASSUME Init PROVE Cards
    <3>1. /\ kind = "grants" /\ step = "done" /\ body = Nil /\ out = Q!Failed
          /\ stored = Nil /\ held = {} /\ call.pc = "idle"
          /\ "grants" \in Parsers
      BY <2>1 DEF Init, Parsers
    <3>2. out.err = TRUE /\ out.windows = Nil
      BY <3>1 DEF Q!Failed, Q!Blank
    <3>3. Q!CardBody(out) \notin {<<>>, <<"empty">>}
      BY <3>2, ErrorCard
    <3> QED
      BY <3>1, <3>2, <3>3 DEF Cards, TypeOK, CardSpeaks, Q!TypeOK, Q!CardSpeaks
  <2>2. Init => Memory /\ RuntimeSound /\ Lookup
    BY DEF Init, Memory, Calls, NothingLeaks, RuntimeSound, Lookup,
           MonthlyNotInvented, Q!MonthlyNotInvented, Q!Failed, Q!Blank
  <2> QED
    BY <2>1, <2>2 DEF Inv
<1>2. Inv /\ [Next]_vars => Inv'
  BY InvStep
<1> QED
  BY <1>1, <1>2, PTL DEF Spec

\* The host's table, the call, the memory at the border and the result of the
\* lookup have their types; Command Code's bars, which the plugin computes,
\* are between 0 and 100 percent whatever was used, and NaN at worst if the
\* vendor sent amounts that are no numbers (flexFloat,
\* commandCodeWindowPercent, applyCommandCodeSubscription).
THEOREM PluginTypes == Spec => []TypeOK
<1>1. Inv => TypeOK
  BY DEF Inv, Cards
<1> QED
  BY <1>1, InvAlways, PTL

\* Whatever the vendors of every kind answer, and the host makes of it, every
\* card says something, and "no data" if and only if the vendor said that
\* there is none (parseQuotaPayload, the parsers, renderEntry).
THEOREM EveryCardSpeaks == Spec => []CardSpeaks
<1>1. Inv => CardSpeaks
  BY DEF Inv, Cards
<1> QED
  BY <1>1, InvAlways, PTL

\* Zhipu's rows get the windows that they name; of the others the soonest is
\* the 5-hour window and the next the weekly one, if they are left: for any
\* number of rows in any order (parseZhipuPlan).
THEOREM ZhipuRowsInPlace == Spec => []ZhipuWindowsRight
<1>1. Inv => ZhipuWindowsRight
  <2> SUFFICES ASSUME Inv, kind = "zhipu-plan", step = "done", ~ out.err,
                      Q!IsInjective([i \in DOMAIN Q!Unnamed(body) |->
                                        Q!Unnamed(body)[i].resetsAt])
               PROVE  Q!ZhipuWindowsRight
    BY DEF ZhipuWindowsRight, Q!ZhipuWindowsRight
  <2>1. body \in Bodies["zhipu-plan"] /\ out = Q!ParseZhipuPlan(body)
    BY DEF Inv, Cards
  <2>2. body \in ZhipuBody
    BY <2>1, VendorsAssumption DEF ZhipuBody
  <2>3. Apart(Q!Unnamed(body))
    BY DEF Apart, Q!IsInjective
  <2> QED
    BY <2>1, <2>2, <2>3, ZhipuRight
<1> QED
  BY <1>1, InvAlways, PTL
=============================================================================
