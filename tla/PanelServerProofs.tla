-------------------------- MODULE PanelServerProofs -------------------------
(***************************************************************************)
(* Proofs about PanelServer, for any number of threads, entries, requests, *)
(* configurations and runtimes.                                            *)
(*                                                                         *)
(* First, what every step leaves in the record of the thread that takes it *)
(* and in the runtimes: one lemma per action.  Everything after cites these*)
(* lemmas and expands few definitions of actions.  Then, conjunct by       *)
(* conjunct, that the steps preserve the invariant IInv; and what follows: *)
(* the safety properties, and that the caches implement QuotaBoard.        *)
(***************************************************************************)
EXTENDS PanelServer, FiniteSetTheorems, TLAPS

\* Selecting a page never leaves the list it selects from.
LEMMA PageOfSubset ==
    ASSUME NEW S, NEW req
    PROVE  PageOf(S, req) \subseteq S
BY DEF PageOf

\* The cards a request wants are cards of the page it selected.
LEMMA WantedSubset ==
    ASSUME NEW req, NEW view
    PROVE  Wanted(req, view) \subseteq view
BY DEF Wanted

\* The entries that sources match are entries, and are in the file.
LEMMA MatchingSubset ==
    ASSUME NEW f \in Files, NEW vendors
    PROVE  Matching(f, vendors) \in SUBSET Entries
BY ConfigsAssumption DEF Matching

\* What is read of the file has the shape of a scan.
LEMMA ReadForType ==
    ASSUME NEW r \in Runtimes, NEW vendors, file \in Files
    PROVE  /\ ReadFor(r, vendors) \in Scan
           /\ ReadFor(r, vendors).rt = r
           /\ ReadFor(r, vendors).entries = Matching(file, vendors)
<1>1. Matching(file, vendors) \in SUBSET Entries /\ (~ file.readable) \in BOOLEAN
  BY MatchingSubset
<1>2. r \in 0 .. MaxRuntimes
  BY BoundsAssumption DEF Runtimes
<1> QED
  BY <1>1, <1>2 DEF ReadFor, Scan

\* What the end of a scan changes of a runtime, and what it leaves.
LEMMA ScanLockedFields ==
    ASSUME NEW r \in Runtime, scan \in Scan, now \in Times
    PROVE  /\ ScanLocked(r) \in Runtime
           /\ ScanLocked(r).entries = scan.entries
           /\ ScanLocked(r).lastScan \in {now, r.lastScan}
           /\ ScanLocked(r).vendors = r.vendors
           /\ ScanLocked(r).quota = r.quota
<1>1. scan.entries \in SUBSET Entries /\ scan.failed \in BOOLEAN
  BY DEF Scan
<1> DEFINE n == IF scan.failed THEN r.lastScan ELSE now
           w == [r EXCEPT !.entries = scan.entries, !.configError = scan.failed,
                          !.lastScan = n]
<1>2. n \in 0 .. MaxTime /\ n \in {now, r.lastScan}
  BY DEF Runtime, Times
<1>3. ScanLocked(r) = w
  BY DEF ScanLocked
<1> HIDE DEF n
<1>4. /\ w \in Runtime
      /\ w.entries = scan.entries /\ w.lastScan = n
      /\ w.vendors = r.vendors /\ w.quota = r.quota
  BY <1>1, <1>2 DEF Runtime
<1> HIDE DEF w
<1> QED
  BY <1>2, <1>3, <1>4

\* The empty cache is a cache.
LEMMA NoQuotaType == NoQuota \in [Entries -> Result \cup {NoResult}]
BY DEF NoQuota

\* What a runtime that configure builds holds, before its first scan.
LEMMA BuildRuntimeFields ==
    ASSUME NEW cfg \in Configs
    PROVE  LET r == BuildRuntime(cfg)
           IN  /\ r \in Runtime
               /\ r.vendors = cfg.vendors
               /\ r.lastScan = 0
               /\ r.quota = NoQuota
BY NoQuotaType, ConfigsAssumption, BoundsAssumption DEF BuildRuntime, Runtime

\* The record of an idle thread has the shape of a call.
LEMMA IdleCallType == IdleCall \in Call
<1>1. (CHOOSE r \in Requests : TRUE) \in Requests
  BY RequestsAssumption
<1> QED
  BY <1>1, NoQuotaType, BoundsAssumption DEF IdleCall, Call

-----------------------------------------------------------------------------
(* What a step leaves in the record of the thread that takes it            *)

\* Replacing the record of one thread by a call leaves calls, and leaves the
\* other threads where they were.
LEMMA CallUpdate ==
    ASSUME NEW f \in [Threads -> Call], NEW t \in Threads, NEW c \in Call,
           NEW g, g = [f EXCEPT ![t] = c]
    PROVE  /\ g \in [Threads -> Call]
           /\ g[t] = c
           /\ \A u \in Threads \ {t} : g[u] = f[u]
OBVIOUS

\* Only thread t moved, and its record is still one.
OnlyMoved(t) == /\ call' \in [Threads -> Call]
                /\ \A u \in Threads \ {t} : call'[u] = call[u]

Kept == UNCHANGED <<now, file, edited, active, built>>

LockKept == UNCHANGED <<scan, overtaken>>

SameRequest(c, d) == /\ d.rt = c.rt /\ d.req = c.req
                     /\ d.since = c.since /\ d.beside = c.beside

\* The runtimes that requests hold on to exist, and the lock has one holder.
Base == TypeOK /\ RuntimeInv /\ LockInv

\* A thread in the midst of a request works for a runtime that exists.
LEMMA WorkingRuntime ==
    ASSUME Base, NEW t \in Threads, call[t].pc \in Working
    PROVE  /\ call[t] \in Call
           /\ call[t].rt \in Runtimes
           /\ call[t].rt <= built
           /\ rts[call[t].rt] \in Runtime
BY DEF Base, TypeOK, RuntimeInv, Runtimes, Call

\* Taking a request up: the record is fresh but for the request, the runtime
\* that is active, and the time (loadedRuntime).
LEMMA ReceiveStep ==
    ASSUME Base, NEW t \in Threads, Receive(t)
    PROVE  /\ OnlyMoved(t)
           /\ Kept /\ LockKept /\ rts' = rts /\ call[t].pc = "idle"
           /\ call'[t].pc \in {"unavailable", "notfound", "rescan"}
           /\ call'[t].pc = "rescan" => active # 0
           /\ call'[t].rt = active
           /\ call'[t].since = now
           /\ call'[t].beside = UnderWay
           /\ call'[t].cards = NoQuota
<1>0. Kept /\ LockKept /\ rts' = rts /\ call[t].pc = "idle"
  BY DEF Receive, Shared, World, Lock, Kept, LockKept
<1> PICK req \in Requests :
      call' = [call EXCEPT ![t] =
            [IdleCall EXCEPT !.pc = FirstStep(req), !.rt = active,
                             !.req = req, !.since = now,
                             !.beside = UnderWay]]
  BY DEF Receive
<1> DEFINE c == [IdleCall EXCEPT !.pc = FirstStep(req), !.rt = active,
                                 !.req = req, !.since = now,
                                 !.beside = UnderWay]
<1>1. /\ FirstStep(req) \in {"unavailable", "notfound", "rescan"}
      /\ FirstStep(req) = "rescan" => active # 0
  BY DEF FirstStep
<1>2. /\ FirstStep(req) \in Working \cup Answered
      /\ active \in 0 .. MaxRuntimes
      /\ now \in 0 .. MaxTime
      /\ UnderWay \in SUBSET (0 .. MaxTime)
  <2>1. \A u \in Threads : call[u].since \in 0 .. MaxTime
    BY DEF Base, TypeOK, Call
  <2> QED
    BY <1>1, <2>1 DEF Base, TypeOK, Times, Working, Answered, UnderWay
<1>3. /\ c \in Call
      /\ c.pc = FirstStep(req) /\ c.rt = active /\ c.since = now
      /\ c.beside = UnderWay
      /\ c.cards = IdleCall.cards
  BY <1>2, IdleCallType DEF Call, Working, Answered
<1>4. IdleCall.cards = NoQuota
  BY DEF IdleCall
<1>5. call \in [Threads -> Call] /\ call' = [call EXCEPT ![t] = c]
  BY DEF Base, TypeOK
<1> HIDE DEF c
<1> QED
  BY <1>0, <1>1, <1>3, <1>4, <1>5, CallUpdate DEF OnlyMoved

\* A thread at another step of its request, and nothing else.
LEMMA PcUpdate ==
    ASSUME Base, NEW t \in Threads, NEW pc \in Working,
           call' = [call EXCEPT ![t] = [@ EXCEPT !.pc = pc]]
    PROVE  /\ OnlyMoved(t)
           /\ SameRequest(call[t], call'[t])
           /\ call'[t].pc = pc
           /\ call'[t].cards = call[t].cards
<1>1. call[t] \in Call /\ call \in [Threads -> Call]
  BY DEF Base, TypeOK
<1> DEFINE c == [call[t] EXCEPT !.pc = pc]
<1>2. call' = [call EXCEPT ![t] = c]
  OBVIOUS
<1>3. /\ c \in Call /\ SameRequest(call[t], c)
      /\ c.pc = pc /\ c.cards = call[t].cards
  BY <1>1 DEF SameRequest, Call
<1> HIDE DEF c
<1> QED
  BY <1>1, <1>2, <1>3, CallUpdate DEF OnlyMoved

\* A rescan that is due reads the file and keeps the lock; one that is not
\* takes the thread on to selecting the page.
LEMMA RescanStep ==
    ASSUME Base, NEW t \in Threads, RescanHostConfig(t)
    PROVE  LET r == call[t].rt
           IN  /\ OnlyMoved(t)
               /\ Kept /\ rts' = rts /\ overtaken' = overtaken
               /\ call[t].pc = "rescan" /\ Unlocked
               /\ SameRequest(call[t], call'[t])
               /\ call'[t].pc \in {"stamp", "select"}
               /\ call'[t].cards = call[t].cards
               /\ call'[t].pc = "stamp" =>
                     /\ scan' \in Scan /\ scan'.rt = r
                     /\ scan'.entries = Matching(file, rts[r].vendors)
               /\ call'[t].pc = "select" =>
                     /\ scan' = scan
                     /\ ~ call[t].req.force
                     /\ now - rts[r].lastScan < ScanTTL
<1> DEFINE r   == call[t].rt
           due == \/ call[t].req.force
                  \/ rts[r].lastScan = 0
                  \/ now - rts[r].lastScan >= ScanTTL
           pc  == IF due THEN "stamp" ELSE "select"
<1>0. /\ Kept /\ rts' = rts /\ overtaken' = overtaken
      /\ call[t].pc = "rescan" /\ Unlocked
  BY DEF RescanHostConfig, World, Kept
<1>1. /\ r \in Runtimes /\ rts[r] \in Runtime
      /\ file \in Files /\ now \in Times
  BY <1>0, WorkingRuntime DEF Working, Base, TypeOK
<1>2. /\ scan' = IF due THEN ReadFor(r, rts[r].vendors) ELSE scan
      /\ call' = [call EXCEPT ![t] = [@ EXCEPT !.pc = pc]]
  BY DEF RescanHostConfig
<1>3. /\ pc \in {"stamp", "select"} /\ pc \in Working
      /\ pc = "stamp" => due
      /\ pc = "select" => ~ due
  BY DEF Working
<1>4. ~ due => ~ call[t].req.force /\ now - rts[r].lastScan < ScanTTL
  BY <1>1, BoundsAssumption DEF Runtime, Times
<1>5. due => /\ scan' \in Scan /\ scan'.rt = r
             /\ scan'.entries = Matching(file, rts[r].vendors)
  BY <1>1, <1>2, ReadForType
<1>6. ~ due => scan' = scan
  BY <1>2
<1> HIDE DEF pc, due
<1> QED
  BY <1>0, <1>2, <1>3, <1>4, <1>5, <1>6, PcUpdate

\* The end of a request's scan takes the thread on to selecting the page; the
\* scan was its own.
LEMMA StampStep ==
    ASSUME Base, NEW t \in Threads, StampScan(t)
    PROVE  /\ OnlyMoved(t)
           /\ Kept /\ EndScan /\ call[t].pc = "stamp"
           /\ scan.rt = call[t].rt
           /\ SameRequest(call[t], call'[t])
           /\ call'[t].pc = "select"
           /\ call'[t].cards = call[t].cards
<1>1. /\ Kept /\ EndScan /\ call[t].pc = "stamp"
      /\ call' = [call EXCEPT ![t] = [@ EXCEPT !.pc = "select"]]
  BY DEF StampScan, World, Kept
<1>2. scan.rt = call[t].rt
  BY <1>1 DEF Base, LockInv
<1>3. "select" \in Working
  BY DEF Working
<1> QED
  BY <1>1, <1>2, <1>3, PcUpdate

\* Selecting: the view is the page of the runtime's list, and what is wanted
\* is to be looked up.
LEMMA SelectStep ==
    ASSUME Base, NEW t \in Threads, SelectPageView(t)
    PROVE  LET d == call'[t]
           IN  /\ OnlyMoved(t)
               /\ Kept /\ LockKept /\ rts' = rts /\ call[t].pc = "select"
               /\ SameRequest(call[t], d)
               /\ d.view = PageOf(rts[call[t].rt].entries, d.req)
               /\ d.todo = Wanted(d.req, d.view)
               /\ d.pc \in {"refresh", "build"}
               /\ d.pc = "build" => d.todo = {}
               /\ d.cards = call[t].cards
<1>0. Kept /\ LockKept /\ rts' = rts /\ call[t].pc = "select"
  BY DEF SelectPageView, Shared, World, Lock, Kept, LockKept
<1> DEFINE req  == call[t].req
           view == PageOf(rts[call[t].rt].entries, req)
           todo == Wanted(req, view)
           pc   == IF SinglesOut(req, view) \/ req.force
                   THEN "refresh" ELSE "build"
           c    == [call[t] EXCEPT !.view = view, !.todo = todo, !.pc = pc]
<1>1. call \in [Threads -> Call] /\ call[t] \in Call
  BY DEF Base, TypeOK
<1>2. call' = [call EXCEPT ![t] = c]
  BY DEF SelectPageView
<1>3. view \in SUBSET Entries
  <2>1. rts[call[t].rt] \in Runtime
    BY WorkingRuntime DEF SelectPageView, Working
  <2> QED
    BY <2>1, PageOfSubset DEF Runtime
<1>4. todo \in SUBSET Entries
  BY <1>3, WantedSubset
<1>5. pc \in {"refresh", "build"} /\ (pc = "build" => todo = {})
  BY DEF Wanted
<1>6. pc \in Working
  BY <1>5 DEF Working
<1> HIDE DEF req, view, todo, pc
<1>7. /\ c \in Call /\ SameRequest(call[t], c)
      /\ c.view = view /\ c.todo = todo /\ c.pc = pc
      /\ c.cards = call[t].cards
  BY <1>1, <1>3, <1>4, <1>6 DEF SameRequest, Call
<1> HIDE DEF c
<1>8. OnlyMoved(t) /\ call'[t] = c
  BY <1>1, <1>2, <1>7, CallUpdate DEF OnlyMoved
<1> QED
  BY <1>0, <1>5, <1>7, <1>8 DEF SameRequest, req, view, todo

\* A refresh starts from what was wanted, unless the page is empty.
LEMMA RefreshStep ==
    ASSUME Base, NEW t \in Threads, RefreshBegin(t)
    PROVE  LET d == call'[t]
           IN  /\ OnlyMoved(t)
               /\ Kept /\ LockKept /\ rts' = rts /\ call[t].pc = "refresh"
               /\ SameRequest(call[t], d)
               /\ d.view = call[t].view
               /\ d.view # {} => d.todo = call[t].todo
               /\ d.pc = "check"
               /\ d.cards = call[t].cards
<1>0. Kept /\ LockKept /\ rts' = rts /\ call[t].pc = "refresh"
  BY DEF RefreshBegin, Shared, World, Lock, Kept, LockKept
<1> DEFINE todo == IF call[t].view = {} THEN rts[call[t].rt].entries
                   ELSE call[t].todo
           c    == [call[t] EXCEPT !.todo = todo, !.clock = now, !.pc = "check"]
<1>1. /\ call \in [Threads -> Call] /\ call[t] \in Call
      /\ now \in 0 .. MaxTime
  BY DEF Base, TypeOK, Times
<1>2. call' = [call EXCEPT ![t] = c]
  BY DEF RefreshBegin
<1>3. todo \in SUBSET Entries
  <2>1. rts[call[t].rt] \in Runtime
    BY WorkingRuntime DEF RefreshBegin, Working
  <2> QED
    BY <1>1, <2>1 DEF Runtime, Call
<1>4. call[t].view # {} => todo = call[t].todo
  OBVIOUS
<1> HIDE DEF todo
<1>5. /\ c \in Call /\ SameRequest(call[t], c)
      /\ c.view = call[t].view /\ c.todo = todo /\ c.pc = "check"
      /\ c.cards = call[t].cards
  BY <1>1, <1>3 DEF SameRequest, Call, Working
<1> HIDE DEF c
<1> QED
  BY <1>0, <1>1, <1>2, <1>4, <1>5, CallUpdate DEF OnlyMoved

\* The freshness check drops only entries that have a result in the cache.
LEMMA CheckStep ==
    ASSUME Base, NEW t \in Threads, CheckFresh(t)
    PROVE  LET d == call'[t]
           IN  /\ OnlyMoved(t)
               /\ Kept /\ LockKept /\ rts' = rts /\ call[t].pc = "check"
               /\ SameRequest(call[t], d)
               /\ d.view = call[t].view
               /\ d.todo \subseteq call[t].todo
               /\ \A e \in call[t].todo \ d.todo :
                     rts[call[t].rt].quota[e] # NoResult
               /\ call[t].req.force => d.todo = call[t].todo
               /\ d.pc = "fetch"
               /\ d.cards = call[t].cards
<1>0. Kept /\ LockKept /\ rts' = rts /\ call[t].pc = "check"
  BY DEF CheckFresh, Shared, World, Lock, Kept, LockKept
<1> DEFINE todo == {e \in call[t].todo :
                      \/ call[t].req.force
                      \/ ~ IsFresh(rts[call[t].rt], e, call[t].clock)}
           c    == [call[t] EXCEPT !.todo = todo, !.pc = "fetch"]
<1>1. call \in [Threads -> Call] /\ call[t] \in Call
  BY DEF Base, TypeOK
<1>2. call' = [call EXCEPT ![t] = c]
  BY DEF CheckFresh
<1>3. todo \in SUBSET Entries
  BY <1>1 DEF Call
<1>4. /\ todo \subseteq call[t].todo
      /\ \A e \in call[t].todo \ todo : rts[call[t].rt].quota[e] # NoResult
      /\ call[t].req.force => todo = call[t].todo
  BY DEF IsFresh
<1> HIDE DEF todo
<1>5. /\ c \in Call /\ SameRequest(call[t], c)
      /\ c.view = call[t].view /\ c.todo = todo /\ c.pc = "fetch"
      /\ c.cards = call[t].cards
  BY <1>1, <1>3 DEF SameRequest, Call, Working
<1> HIDE DEF c
<1> QED
  BY <1>0, <1>1, <1>2, <1>4, <1>5, CallUpdate DEF OnlyMoved

\* A fetch yields a result of the runtime, for an entry of the list.
LEMMA FetchStep ==
    ASSUME Base, NEW t \in Threads, FetchOneQuota(t)
    PROVE  LET d == call'[t]
           IN  /\ OnlyMoved(t)
               /\ Kept /\ LockKept /\ rts' = rts /\ call[t].pc = "fetch"
               /\ SameRequest(call[t], d)
               /\ d.view = call[t].view
               /\ d.todo = call[t].todo
               /\ d.pc = "store"
               /\ d.cur \in Result
               /\ d.cur.gen = d.rt
               /\ d.cur.key \in d.todo
               /\ d.cur.fetchedAt = now
               /\ d.cards = call[t].cards
<1>0. Kept /\ LockKept /\ rts' = rts /\ call[t].pc = "fetch"
  BY DEF FetchOneQuota, Shared, World, Lock, Kept, LockKept
<1> PICK e \in call[t].todo :
      call' = [call EXCEPT ![t] =
         [@ EXCEPT !.cur = [key |-> e, gen |-> call[t].rt, fetchedAt |-> now],
                   !.pc  = "store"]]
  BY DEF FetchOneQuota
<1> DEFINE x == [key |-> e, gen |-> call[t].rt, fetchedAt |-> now]
           c == [call[t] EXCEPT !.cur = x, !.pc = "store"]
<1>1. /\ call \in [Threads -> Call] /\ call[t] \in Call
      /\ now \in Times
  BY DEF Base, TypeOK
<1>2. call' = [call EXCEPT ![t] = c]
  OBVIOUS
<1>3. x \in Result /\ x.gen = call[t].rt /\ x.key = e /\ x.fetchedAt = now
  <2>1. call[t].rt \in Runtimes
    BY WorkingRuntime DEF FetchOneQuota, Working
  <2>2. e \in Entries
    BY <1>1 DEF Call
  <2> QED
    BY <1>1, <2>1, <2>2 DEF Result
<1> HIDE DEF x
<1>4. /\ c \in Call /\ SameRequest(call[t], c)
      /\ c.view = call[t].view /\ c.todo = call[t].todo /\ c.pc = "store"
      /\ c.cur = x /\ c.cards = call[t].cards
  BY <1>1, <1>3 DEF SameRequest, Call, Working
<1> HIDE DEF c
<1>5. OnlyMoved(t) /\ call'[t] = c
  BY <1>1, <1>2, <1>4, CallUpdate DEF OnlyMoved
<1>6. e \in call[t].todo
  OBVIOUS
<1> QED
  BY ONLY <1>0, <1>3, <1>4, <1>5, <1>6 DEF SameRequest

\* A store takes the stored entry off the list and goes back for the next.
LEMMA StoreStep ==
    ASSUME Base, NEW t \in Threads, StoreQuota(t)
    PROVE  LET d == call'[t]
           IN  /\ OnlyMoved(t)
               /\ Kept /\ LockKept /\ call[t].pc = "store"
               /\ SameRequest(call[t], d)
               /\ d.view = call[t].view
               /\ d.todo = call[t].todo \ {call[t].cur.key}
               /\ d.pc = "fetch"
               /\ d.cards = call[t].cards
<1>0. Kept /\ LockKept /\ call[t].pc = "store"
  BY DEF StoreQuota, Shared, World, Lock, Kept, LockKept
<1> DEFINE todo == call[t].todo \ {call[t].cur.key}
           c == [call[t] EXCEPT !.todo = todo, !.cur = NoResult, !.pc = "fetch"]
<1>1. call \in [Threads -> Call] /\ call[t] \in Call
  BY DEF Base, TypeOK
<1>2. call' = [call EXCEPT ![t] = c]
  BY DEF StoreQuota
<1>3. todo \in SUBSET Entries
  BY <1>1 DEF Call
<1> HIDE DEF todo
<1>4. /\ c \in Call /\ SameRequest(call[t], c)
      /\ c.view = call[t].view /\ c.todo = todo /\ c.pc = "fetch"
      /\ c.cards = call[t].cards
  BY <1>1, <1>3 DEF SameRequest, Call, Working
<1> HIDE DEF c
<1> QED
  BY <1>0, <1>1, <1>2, <1>4, CallUpdate DEF OnlyMoved, todo

\* Building the page copies the results of the view out of the cache.
LEMMA BuildStep ==
    ASSUME Base, NEW t \in Threads, BuildPageData(t)
    PROVE  LET d == call'[t]
           IN  /\ OnlyMoved(t)
               /\ Kept /\ LockKept /\ rts' = rts
               /\ \/ call[t].pc = "build"
                  \/ call[t].pc = "fetch" /\ call[t].todo = {}
               /\ SameRequest(call[t], d)
               /\ d.view = call[t].view
               /\ d.pc = "page"
               /\ d.cards \in [Entries -> Result \cup {NoResult}]
               /\ \A e \in Entries :
                     d.cards[e] = IF e \in d.view
                                  THEN rts[call[t].rt].quota[e] ELSE NoResult
<1>0. /\ Kept /\ LockKept /\ rts' = rts
      /\ \/ call[t].pc = "build"
         \/ call[t].pc = "fetch" /\ call[t].todo = {}
  BY DEF BuildPageData, Shared, World, Lock, Kept, LockKept
<1> DEFINE x == [e \in Entries |-> IF e \in call[t].view
                                   THEN rts[call[t].rt].quota[e] ELSE NoResult]
           c == [call[t] EXCEPT !.cards = x, !.pc = "page"]
<1>1. call \in [Threads -> Call] /\ call[t] \in Call
  BY DEF Base, TypeOK
<1>2. call' = [call EXCEPT ![t] = c]
  BY DEF BuildPageData
<1>3. x \in [Entries -> Result \cup {NoResult}]
  <2>1. rts[call[t].rt] \in Runtime
    BY WorkingRuntime DEF BuildPageData, Working
  <2>2. rts[call[t].rt].quota \in [Entries -> Result \cup {NoResult}]
    BY <2>1 DEF Runtime
  <2> QED
    BY <2>2
<1>4. \A e \in Entries : x[e] = IF e \in call[t].view
                                THEN rts[call[t].rt].quota[e] ELSE NoResult
  OBVIOUS
<1> HIDE DEF x
<1>5. /\ c \in Call /\ SameRequest(call[t], c)
      /\ c.view = call[t].view /\ c.pc = "page" /\ c.cards = x
  BY <1>1, <1>3 DEF SameRequest, Call, Answered
<1> HIDE DEF c
<1> QED
  BY <1>0, <1>1, <1>2, <1>3, <1>4, <1>5, CallUpdate DEF OnlyMoved

\* A response leaves the thread idle.
LEMMA RespondStep ==
    ASSUME Base, NEW t \in Threads, Respond(t)
    PROVE  /\ OnlyMoved(t)
           /\ Kept /\ LockKept /\ rts' = rts
           /\ call'[t].pc = "idle"
           /\ call'[t].since = 0
           /\ call'[t].cards = NoQuota
<1>0. Kept /\ LockKept /\ rts' = rts
  BY DEF Respond, Shared, World, Lock, Kept, LockKept
<1>1. call \in [Threads -> Call] /\ call' = [call EXCEPT ![t] = IdleCall]
  BY DEF Base, TypeOK, Respond
<1>2. /\ IdleCall.pc = "idle" /\ IdleCall.since = 0
      /\ IdleCall.cards = NoQuota
  BY DEF IdleCall
<1> QED
  BY <1>0, <1>1, <1>2, IdleCallType, CallUpdate DEF OnlyMoved
-----------------------------------------------------------------------------
(* What a step leaves in the runtimes                                      *)

\* The end of a scan changes the list of the runtime it was for, and leaves
\* the other runtimes, and every cache, alone.
LEMMA EndScanRuntimes ==
    ASSUME Base, EndScan, scan.rt # 0
    PROVE  LET r == scan.rt
           IN  /\ r \in Runtimes
               /\ rts' \in [Runtimes -> Runtime]
               /\ \A s \in Runtimes \ {r} : rts'[s] = rts[s]
               /\ \A s \in Runtimes : /\ rts'[s].quota = rts[s].quota
                                      /\ rts'[s].vendors = rts[s].vendors
               /\ rts'[r].entries = scan.entries
               /\ rts'[r].lastScan \in {now, rts[r].lastScan}
               /\ scan' = NoScan /\ scan' \in Scan /\ scan'.rt = 0
               /\ overtaken' \in {overtaken, now}
               /\ \/ scan.entries = Matching(file, rts[r].vendors)
                  \/ overtaken' = now
<1> DEFINE r == scan.rt
<1>1. /\ r \in Runtimes /\ rts[r] \in Runtime
      /\ rts \in [Runtimes -> Runtime]
      /\ scan \in Scan /\ now \in Times
  BY BoundsAssumption DEF Base, TypeOK, Scan, Runtimes
<1>2. /\ rts' = [rts EXCEPT ![r] = ScanLocked(rts[r])]
      /\ scan' = NoScan
      /\ overtaken' = IF scan.entries = Matching(file, rts[r].vendors)
                      THEN overtaken ELSE now
  BY DEF EndScan
<1>3. /\ rts' \in [Runtimes -> Runtime]
      /\ rts'[r] = ScanLocked(rts[r])
      /\ \A s \in Runtimes \ {r} : rts'[s] = rts[s]
  BY <1>1, <1>2, ScanLockedFields
<1>4. NoScan \in Scan /\ NoScan.rt = 0
  BY BoundsAssumption DEF NoScan, Scan
<1> HIDE DEF r
<1>5. /\ rts'[r].entries = scan.entries
      /\ rts'[r].lastScan \in {now, rts[r].lastScan}
      /\ rts'[r].vendors = rts[r].vendors
      /\ rts'[r].quota = rts[r].quota
  BY <1>1, <1>3, ScanLockedFields
<1>6. \A s \in Runtimes : /\ rts'[s].quota = rts[s].quota
                          /\ rts'[s].vendors = rts[s].vendors
  BY <1>3, <1>5
<1> QED
  BY <1>1, <1>2, <1>3, <1>4, <1>5, <1>6 DEF r

\* The scan of a request is for a runtime that was built.
LEMMA StampRuntimes ==
    ASSUME Base, NEW t \in Threads, StampScan(t)
    PROVE  /\ EndScan /\ scan.rt # 0 /\ scan.rt <= built
           /\ scan.rt = call[t].rt
<1>1. call[t].rt \in Runtimes /\ call[t].rt <= built
  BY StampStep, WorkingRuntime DEF Working
<1> QED
  BY <1>1, StampStep DEF Runtimes

\* A store touches one slot of the cache of the active runtime, if any.
LEMMA StoreRuntimes ==
    ASSUME Base, NEW t \in Threads, StoreQuota(t)
    PROVE  LET r == call[t].rt
               x == call[t].cur
           IN  /\ rts' \in [Runtimes -> Runtime]
               /\ \A s \in Runtimes \ {r} : rts'[s] = rts[s]
               /\ rts'[r].entries = rts[r].entries
               /\ rts'[r].vendors = rts[r].vendors
               /\ rts'[r].lastScan = rts[r].lastScan
               /\ active # r => rts' = rts
               /\ active = r =>
                     rts'[r].quota = [rts[r].quota EXCEPT ![x.key] = x]
<1> DEFINE r == call[t].rt
           x == call[t].cur
           q == [rts[r].quota EXCEPT ![x.key] = x]
<1>1. /\ r \in Runtimes /\ rts[r] \in Runtime
      /\ rts \in [Runtimes -> Runtime]
  BY WorkingRuntime DEF StoreQuota, Working, Base, TypeOK
<1>2. x \in Result \cup {NoResult}
  BY DEF Base, TypeOK, Call
<1>3. q \in [Entries -> Result \cup {NoResult}]
  <2>1. rts[r].quota \in [Entries -> Result \cup {NoResult}]
    BY <1>1 DEF Runtime
  <2> QED
    BY <2>1, <1>2
<1>4. CASE active = r
  <2> DEFINE w == [rts[r] EXCEPT !.quota = q]
  <2>1. rts' = [rts EXCEPT ![r] = w]
    BY <1>4 DEF StoreQuota
  <2> HIDE DEF q
  <2>2. /\ w \in Runtime
        /\ w.entries = rts[r].entries /\ w.vendors = rts[r].vendors
        /\ w.lastScan = rts[r].lastScan /\ w.quota = q
    BY <1>1, <1>3 DEF Runtime
  <2> HIDE DEF w
  <2>3. /\ rts' \in [Runtimes -> Runtime]
        /\ rts'[r] = w
        /\ \A s \in Runtimes \ {r} : rts'[s] = rts[s]
    BY <1>1, <2>1, <2>2
  <2> QED
    BY <1>4, <2>2, <2>3 DEF q
<1>5. CASE active # r
  <2>1. rts' = rts
    BY <1>5 DEF StoreQuota
  <2> QED
    BY <1>1, <1>5, <2>1
<1> QED
  BY <1>4, <1>5

\* A reconfigure prepares a runtime with an empty cache, and reads the file.
LEMMA ConfigureRuntimes ==
    ASSUME Base, Configure
    PROVE  LET n == built + 1
           IN  /\ UNCHANGED <<now, file, edited, overtaken, active, built, call>>
               /\ Unlocked
               /\ n \in Runtimes
               /\ rts' \in [Runtimes -> Runtime]
               /\ \A s \in Runtimes \ {n} : rts'[s] = rts[s]
               /\ \E cfg \in Configs : rts'[n].vendors = cfg.vendors
               /\ rts'[n].lastScan = 0
               /\ rts'[n].quota = NoQuota
               /\ scan' \in Scan /\ scan'.rt = n
               /\ scan'.entries = Matching(file, rts'[n].vendors)
<1> PICK cfg \in Configs :
      /\ rts' = [rts EXCEPT ![built + 1] = BuildRuntime(cfg)]
      /\ scan' = ReadFor(built + 1, cfg.vendors)
  BY DEF Configure
<1>1. /\ built + 1 \in Runtimes
      /\ rts \in [Runtimes -> Runtime]
      /\ file \in Files
  BY BoundsAssumption DEF Base, TypeOK, Configure, Runtimes
<1>2. /\ rts' \in [Runtimes -> Runtime]
      /\ rts'[built + 1] = BuildRuntime(cfg)
      /\ \A s \in Runtimes \ {built + 1} : rts'[s] = rts[s]
  BY <1>1, BuildRuntimeFields
<1>3. /\ UNCHANGED <<now, file, edited, overtaken, active, built, call>>
      /\ Unlocked
  BY DEF Configure, World
<1> QED
  BY <1>1, <1>2, <1>3, BuildRuntimeFields, ReadForType

\* When its scan has ended the runtime is the active one, and nothing is in
\* its cache yet.
LEMMA InstallRuntimes ==
    ASSUME Base, Install
    PROVE  /\ UNCHANGED <<now, file, edited, call>>
           /\ EndScan /\ scan.rt = built + 1 /\ scan.rt # 0
           /\ built + 1 \in Runtimes
           /\ built' = built + 1 /\ active' = built + 1
           /\ rts'[built + 1].quota = NoQuota
<1>1. /\ UNCHANGED <<now, file, edited, call>>
      /\ EndScan /\ scan.rt = built + 1
      /\ built' = built + 1 /\ active' = built + 1
  BY DEF Install, World
<1>2. built \in Nat
  BY DEF Base, TypeOK
<1>3. scan.rt \in Runtimes /\ rts'[scan.rt].quota = rts[scan.rt].quota
  BY <1>1, <1>2, EndScanRuntimes
<1>4. rts[built + 1].quota = NoQuota
  BY <1>1, <1>2, <1>3 DEF Base, RuntimeInv
<1> QED
  BY <1>1, <1>2, <1>3, <1>4
-----------------------------------------------------------------------------
(* Type correctness                                                        *)

\* The initial state is well typed, and no runtime is in use.
LEMMA InitBase == Init => Base
<1> SUFFICES ASSUME Init PROVE Base
  OBVIOUS
<1>1. now \in Times /\ edited \in 0 .. MaxTime
  BY BoundsAssumption DEF Init, Times
<1>2. built \in 0 .. MaxRuntimes /\ active \in 0 .. MaxRuntimes
  BY BoundsAssumption DEF Init
<1>3. rts \in [Runtimes -> Runtime]
  BY NoQuotaType, BoundsAssumption DEF Init, Runtime
<1>4. call \in [Threads -> Call]
  BY IdleCallType DEF Init
<1>5. RuntimeInv
  BY DEF Init, RuntimeInv, IdleCall, Working
<1>6. /\ overtaken \in 0 .. MaxTime /\ scan \in Scan
      /\ scan.rt = 0 /\ built = 0
  BY BoundsAssumption DEF Init, NoScan, Scan
<1>7. LockInv
  BY <1>6 DEF Init, LockInv, IdleCall
<1> QED
  BY <1>1, <1>2, <1>3, <1>4, <1>5, <1>6, <1>7 DEF TypeOK, Init, Base

\* A step that leaves the lock alone, and takes no thread to the middle of a
\* scan, keeps the lock's holder.
LEMMA LockKeeps ==
    ASSUME Base, NEW t \in Threads, OnlyMoved(t), LockKept, built' = built,
           call'[t].pc # "stamp"
    PROVE  LockInv'
BY DEF Base, LockInv, OnlyMoved, LockKept

\* Every step keeps the types and works for runtimes that were built.
LEMMA NextBase == Base /\ [Next]_vars => Base'
<1> SUFFICES ASSUME Base, [Next]_vars PROVE Base'
  OBVIOUS
<1>0. /\ TypeOK /\ RuntimeInv /\ LockInv
      /\ now \in Times /\ built \in 0 .. MaxRuntimes /\ active \in 0 .. MaxRuntimes
      /\ overtaken \in 0 .. MaxTime /\ scan \in Scan
  BY DEF Base, TypeOK
<1>1. ASSUME NEW t \in Threads, Receive(t) PROVE Base'
  <2>1. TypeOK'
    BY <1>0, <1>1, ReceiveStep DEF TypeOK, Kept, LockKept, OnlyMoved
  <2>2. RuntimeInv'
    BY <1>0, <1>1, ReceiveStep DEF RuntimeInv, Kept, OnlyMoved, Working
  <2>3. LockInv'
    BY <1>1, ReceiveStep, LockKeeps DEF Kept
  <2> QED
    BY <2>1, <2>2, <2>3 DEF Base
<1>2. ASSUME NEW t \in Threads, RescanHostConfig(t) PROVE Base'
  <2>1. TypeOK'
    BY <1>0, <1>2, RescanStep DEF TypeOK, Kept, OnlyMoved
  <2>2. RuntimeInv'
    BY <1>0, <1>2, RescanStep
    DEF RuntimeInv, Kept, OnlyMoved, SameRequest, Working
  <2>3. LockInv'
    <3>1. /\ call[t].rt \in Int /\ call[t].rt <= built /\ built' = built
          /\ scan.rt = 0 /\ scan.rt <= built + 1
      BY <1>0, <1>2, RescanStep, WorkingRuntime
      DEF Working, Runtimes, Kept, Unlocked, LockInv
    <3>2. /\ scan' = scan \/ scan'.rt = call[t].rt
          /\ call'[t].pc = "stamp" => scan'.rt = call'[t].rt
          /\ OnlyMoved(t)
      BY <1>2, RescanStep DEF SameRequest
    <3>3. \A u \in Threads \ {t} : call'[u] = call[u] /\ call[u].pc # "stamp"
      BY <1>0, <1>2, <3>1, RescanStep DEF LockInv, RuntimeInv, Working, OnlyMoved
    <3> QED
      BY <1>0, <3>1, <3>2, <3>3 DEF LockInv
  <2> QED
    BY <2>1, <2>2, <2>3 DEF Base
<1>3. ASSUME NEW t \in Threads, StampScan(t) PROVE Base'
  <2>0. /\ EndScan /\ scan.rt # 0
        /\ Kept /\ OnlyMoved(t) /\ SameRequest(call[t], call'[t])
        /\ call[t].pc = "stamp" /\ call'[t].pc = "select"
    BY <1>3, StampStep, StampRuntimes
  <2>1. TypeOK'
    BY <1>0, <2>0, EndScanRuntimes DEF TypeOK, Kept, OnlyMoved, Times
  <2>2. RuntimeInv'
    BY <1>0, <2>0, EndScanRuntimes
    DEF RuntimeInv, Kept, OnlyMoved, SameRequest, Working
  <2>3. LockInv'
    <3>1. scan'.rt = 0 /\ built' = built
      BY <2>0, EndScanRuntimes DEF Kept
    <3>2. \A u \in Threads : call'[u].pc # "stamp"
      BY <1>0, <2>0 DEF LockInv, OnlyMoved
    <3> QED
      BY <1>0, <3>1, <3>2 DEF LockInv
  <2> QED
    BY <2>1, <2>2, <2>3 DEF Base
<1>4. ASSUME NEW t \in Threads, SelectPageView(t) PROVE Base'
  <2>1. TypeOK'
    BY <1>0, <1>4, SelectStep DEF TypeOK, Kept, LockKept, OnlyMoved
  <2>2. RuntimeInv'
    BY <1>0, <1>4, SelectStep DEF RuntimeInv, Kept, OnlyMoved, SameRequest, Working
  <2>3. LockInv'
    BY <1>4, SelectStep, LockKeeps DEF Kept
  <2> QED
    BY <2>1, <2>2, <2>3 DEF Base
<1>5. ASSUME NEW t \in Threads, RefreshBegin(t) PROVE Base'
  <2>1. TypeOK'
    BY <1>0, <1>5, RefreshStep DEF TypeOK, Kept, LockKept, OnlyMoved
  <2>2. RuntimeInv'
    BY <1>0, <1>5, RefreshStep DEF RuntimeInv, Kept, OnlyMoved, SameRequest, Working
  <2>3. LockInv'
    BY <1>5, RefreshStep, LockKeeps DEF Kept
  <2> QED
    BY <2>1, <2>2, <2>3 DEF Base
<1>6. ASSUME NEW t \in Threads, CheckFresh(t) PROVE Base'
  <2>1. TypeOK'
    BY <1>0, <1>6, CheckStep DEF TypeOK, Kept, LockKept, OnlyMoved
  <2>2. RuntimeInv'
    BY <1>0, <1>6, CheckStep DEF RuntimeInv, Kept, OnlyMoved, SameRequest, Working
  <2>3. LockInv'
    BY <1>6, CheckStep, LockKeeps DEF Kept
  <2> QED
    BY <2>1, <2>2, <2>3 DEF Base
<1>7. ASSUME NEW t \in Threads, FetchOneQuota(t) PROVE Base'
  <2>1. TypeOK'
    BY <1>0, <1>7, FetchStep DEF TypeOK, Kept, LockKept, OnlyMoved
  <2>2. RuntimeInv'
    BY <1>0, <1>7, FetchStep DEF RuntimeInv, Kept, OnlyMoved, SameRequest, Working
  <2>3. LockInv'
    BY <1>7, FetchStep, LockKeeps DEF Kept
  <2> QED
    BY <2>1, <2>2, <2>3 DEF Base
<1>8. ASSUME NEW t \in Threads, StoreQuota(t) PROVE Base'
  <2>1. TypeOK'
    BY <1>0, <1>8, StoreStep, StoreRuntimes DEF TypeOK, Kept, LockKept, OnlyMoved
  <2>2. RuntimeInv'
    <3>1. call[t].rt <= built /\ call[t].rt \in Int /\ built \in Int
      <4>1. call[t].pc = "store" /\ "store" \in Working
        BY <1>8, StoreStep DEF Working
      <4>2. call[t].rt \in Runtimes /\ call[t].rt <= built
        BY <4>1, WorkingRuntime
      <4> QED
        BY <1>0, <4>2 DEF Runtimes
    <3>2. \A r \in Runtimes : r > built => rts'[r] = rts[r]
      <4>1. \A r \in Runtimes : r > built => r # call[t].rt
        BY <3>1 DEF Runtimes
      <4> QED
        BY <1>8, <4>1, StoreRuntimes
    <3> QED
      BY <1>0, <1>8, <3>2, StoreStep
      DEF RuntimeInv, Kept, OnlyMoved, SameRequest, Working
  <2>3. LockInv'
    BY <1>8, StoreStep, LockKeeps DEF Kept
  <2> QED
    BY <2>1, <2>2, <2>3 DEF Base
<1>9. ASSUME NEW t \in Threads, BuildPageData(t) PROVE Base'
  <2>1. TypeOK'
    BY <1>0, <1>9, BuildStep DEF TypeOK, Kept, LockKept, OnlyMoved
  <2>2. RuntimeInv'
    BY <1>0, <1>9, BuildStep DEF RuntimeInv, Kept, OnlyMoved, SameRequest, Working
  <2>3. LockInv'
    BY <1>9, BuildStep, LockKeeps DEF Kept
  <2> QED
    BY <2>1, <2>2, <2>3 DEF Base
<1>10. ASSUME NEW t \in Threads, Respond(t) PROVE Base'
  <2>1. TypeOK'
    BY <1>0, <1>10, RespondStep DEF TypeOK, Kept, LockKept, OnlyMoved
  <2>2. RuntimeInv'
    BY <1>0, <1>10, RespondStep DEF RuntimeInv, Kept, OnlyMoved, Working
  <2>3. LockInv'
    BY <1>10, RespondStep, LockKeeps DEF Kept
  <2> QED
    BY <2>1, <2>2, <2>3 DEF Base
<1>11. ASSUME Configure PROVE Base'
  <2>1. TypeOK'
    BY <1>0, <1>11, ConfigureRuntimes DEF TypeOK
  <2>2. RuntimeInv'
    BY <1>0, <1>11, ConfigureRuntimes DEF RuntimeInv
  <2>3. LockInv'
    <3>1. /\ scan.rt = 0 /\ scan'.rt = built + 1
          /\ built' = built /\ call' = call
      BY <1>11, ConfigureRuntimes DEF Unlocked
    <3>2. \A t \in Threads : call[t].pc # "stamp"
      BY <1>0, <3>1 DEF LockInv, RuntimeInv, Working
    <3> QED
      BY <1>0, <3>1, <3>2 DEF LockInv
  <2> QED
    BY <2>1, <2>2, <2>3 DEF Base
<1>12. ASSUME Install PROVE Base'
  <2>0. /\ UNCHANGED <<now, file, edited, call>>
        /\ scan.rt = built + 1 /\ scan.rt # 0 /\ EndScan
        /\ built + 1 \in Runtimes /\ built' = built + 1 /\ active' = built + 1
    BY <1>12, InstallRuntimes
  <2>1. TypeOK'
    BY <1>0, <2>0, EndScanRuntimes, BoundsAssumption DEF TypeOK, Times, Runtimes
  <2>2. \A t \in Threads : call[t].rt \in Int
    BY <1>0 DEF TypeOK, Call
  <2>3. RuntimeInv'
    <3>1. \A r \in Runtimes : rts'[r].quota = rts[r].quota
      BY <2>0, EndScanRuntimes
    <3> QED
      BY <1>0, <2>0, <2>2, <3>1 DEF RuntimeInv, Runtimes
  <2>4. LockInv'
    <3>1. \A t \in Threads : call[t].pc # "stamp"
      BY <1>0, <2>0, <2>2 DEF LockInv, RuntimeInv, Working
    <3>2. scan'.rt = 0
      BY <2>0, EndScanRuntimes
    <3> QED
      BY <1>0, <2>0, <3>1, <3>2 DEF LockInv
  <2> QED
    BY <2>1, <2>3, <2>4 DEF Base
<1>13. ASSUME Shutdown PROVE Base'
  BY <1>0, <1>13, BoundsAssumption
  DEF Base, TypeOK, RuntimeInv, LockInv, Shutdown, World, Lock
<1>14. ASSUME EditFile PROVE Base'
  BY <1>0, <1>14 DEF Base, TypeOK, RuntimeInv, LockInv, EditFile, Lock, Times
<1>15. ASSUME Tick PROVE Base'
  BY <1>0, <1>15, BoundsAssumption
  DEF Base, TypeOK, RuntimeInv, LockInv, Tick, Lock, Times
<1>16. ASSUME UNCHANGED vars PROVE Base'
  BY <1>0, <1>16 DEF Base, TypeOK, RuntimeInv, LockInv, vars
<1> QED
  BY <1>1, <1>2, <1>3, <1>4, <1>5, <1>6, <1>7, <1>8, <1>9, <1>10, <1>11,
     <1>12, <1>13, <1>14, <1>15, <1>16 DEF Next, Handle

\* Types, and runtimes in use, are right in every reachable state.
LEMMA SpecBase == Spec => []Base
BY InitBase, NextBase, PTL DEF Spec

\* Every reachable state is well typed, whatever the numbers of threads,
\* entries, configurations and runtimes.
THEOREM TypeCorrect == Spec => []TypeOK
BY SpecBase, PTL DEF Base
-----------------------------------------------------------------------------
(* Safety                                                                  *)

\* No step dates anything ahead of the clock.
LEMMA NextClock == Base /\ ClockInv /\ [Next]_vars => ClockInv'
<1> SUFFICES ASSUME Base, ClockInv, [Next]_vars PROVE ClockInv'
  OBVIOUS
<1>0. /\ now \in Int /\ edited \in Int /\ overtaken \in Int
      /\ \A r \in Runtimes : rts[r].lastScan \in Int
      /\ \A t \in Threads : call[t].since \in Int
      /\ now >= 0
  BY DEF Base, TypeOK, Runtime, Call, Times
<1> USE DEF ClockInv
\* A scan dates the list, and its being overtaken, with the clock.
<1>1. ASSUME EndScan, scan.rt # 0
      PROVE  /\ overtaken' \in {overtaken, now}
             /\ \A r \in Runtimes : rts'[r].lastScan \in {now, rts[r].lastScan}
  BY <1>1, EndScanRuntimes
<1>2. ASSUME NEW t \in Threads, RescanHostConfig(t) PROVE ClockInv'
  BY <1>0, <1>2, RescanStep DEF Kept, OnlyMoved, SameRequest
<1>3. ASSUME NEW t \in Threads, StampScan(t) PROVE ClockInv'
  <2>1. EndScan /\ scan.rt # 0
    BY <1>3, StampRuntimes
  <2> QED
    BY <1>0, <1>1, <1>3, <2>1, StampStep DEF Kept, OnlyMoved, SameRequest
<1>4. ASSUME NEW t \in Threads, Receive(t) PROVE ClockInv'
  BY <1>0, <1>4, ReceiveStep DEF Kept, LockKept, OnlyMoved
<1>5. ASSUME NEW t \in Threads, SelectPageView(t) PROVE ClockInv'
  BY <1>0, <1>5, SelectStep DEF Kept, LockKept, OnlyMoved, SameRequest
<1>6. ASSUME NEW t \in Threads, RefreshBegin(t) PROVE ClockInv'
  BY <1>0, <1>6, RefreshStep DEF Kept, LockKept, OnlyMoved, SameRequest
<1>7. ASSUME NEW t \in Threads, CheckFresh(t) PROVE ClockInv'
  BY <1>0, <1>7, CheckStep DEF Kept, LockKept, OnlyMoved, SameRequest
<1>8. ASSUME NEW t \in Threads, FetchOneQuota(t) PROVE ClockInv'
  BY <1>0, <1>8, FetchStep DEF Kept, LockKept, OnlyMoved, SameRequest
<1>9. ASSUME NEW t \in Threads, StoreQuota(t) PROVE ClockInv'
  <2>1. \A r \in Runtimes : rts'[r].lastScan = rts[r].lastScan
    BY <1>9, StoreRuntimes
  <2> QED
    BY <1>0, <1>9, <2>1, StoreStep DEF Kept, LockKept, OnlyMoved, SameRequest
<1>10. ASSUME NEW t \in Threads, BuildPageData(t) PROVE ClockInv'
  BY <1>0, <1>10, BuildStep DEF Kept, LockKept, OnlyMoved, SameRequest
<1>11. ASSUME NEW t \in Threads, Respond(t) PROVE ClockInv'
  BY <1>0, <1>11, RespondStep DEF Kept, LockKept, OnlyMoved
<1>12. ASSUME Configure PROVE ClockInv'
  <2>1. /\ UNCHANGED <<now, edited, overtaken, call>>
        /\ \A r \in Runtimes : rts'[r].lastScan \in {0, rts[r].lastScan}
    BY <1>12, ConfigureRuntimes
  <2> QED
    BY <1>0, <2>1
<1>13. ASSUME Install PROVE ClockInv'
  <2>1. EndScan /\ scan.rt # 0 /\ UNCHANGED <<now, edited, call>>
    BY <1>13, InstallRuntimes
  <2> QED
    BY <1>0, <1>1, <2>1
<1>14. ASSUME Shutdown PROVE ClockInv'
  BY <1>14 DEF Shutdown, World, Lock
<1>15. ASSUME EditFile PROVE ClockInv'
  BY <1>0, <1>15 DEF EditFile, Lock
<1>16. ASSUME Tick PROVE ClockInv'
  BY <1>0, <1>16 DEF Tick, Lock
<1>17. ASSUME UNCHANGED vars PROVE ClockInv'
  BY <1>17 DEF vars
<1> QED
  BY <1>2, <1>3, <1>4, <1>5, <1>6, <1>7, <1>8, <1>9, <1>10, <1>11,
     <1>12, <1>13, <1>14, <1>15, <1>16, <1>17 DEF Next, Handle

\* What a thread holds between fetching and storing stays a result of its own.
LEMMA NextHold == Base /\ HoldInv /\ [Next]_vars => HoldInv'
<1> SUFFICES ASSUME Base, HoldInv, [Next]_vars PROVE HoldInv'
  OBVIOUS
<1> USE DEF HoldInv
<1>1. ASSUME NEW t \in Threads, Receive(t) PROVE HoldInv'
  BY <1>1, ReceiveStep DEF OnlyMoved
<1>2. ASSUME NEW t \in Threads, RescanHostConfig(t) PROVE HoldInv'
  BY <1>2, RescanStep DEF OnlyMoved
<1>3. ASSUME NEW t \in Threads, SelectPageView(t) PROVE HoldInv'
  BY <1>3, SelectStep DEF OnlyMoved
<1>4. ASSUME NEW t \in Threads, RefreshBegin(t) PROVE HoldInv'
  BY <1>4, RefreshStep DEF OnlyMoved
<1>5. ASSUME NEW t \in Threads, CheckFresh(t) PROVE HoldInv'
  BY <1>5, CheckStep DEF OnlyMoved
<1>6. ASSUME NEW t \in Threads, FetchOneQuota(t) PROVE HoldInv'
  BY <1>6, FetchStep DEF OnlyMoved
<1>7. ASSUME NEW t \in Threads, StoreQuota(t) PROVE HoldInv'
  BY <1>7, StoreStep DEF OnlyMoved
<1>8. ASSUME NEW t \in Threads, BuildPageData(t) PROVE HoldInv'
  BY <1>8, BuildStep DEF OnlyMoved
<1>9. ASSUME NEW t \in Threads, Respond(t) PROVE HoldInv'
  BY <1>9, RespondStep DEF OnlyMoved
<1>10. ASSUME NEW t \in Threads, StampScan(t) PROVE HoldInv'
  BY <1>10, StampStep DEF OnlyMoved
<1>11. ASSUME UNCHANGED call PROVE HoldInv'
  BY <1>11
<1> QED
  BY <1>1, <1>2, <1>3, <1>4, <1>5, <1>6, <1>7, <1>8, <1>9, <1>10, <1>11
  DEF Next, Handle, Configure, Install, Shutdown, EditFile, Tick, vars

\* The two halves of OwnResults: the caches, and the responses.
CachesOwn ==
    \A r \in Runtimes, e \in Entries :
        rts[r].quota[e] # NoResult =>
           rts[r].quota[e].key = e /\ rts[r].quota[e].gen = r

CardsOwn(t) ==
    \A e \in Entries :
        call[t].cards[e] # NoResult => /\ call[t].cards[e].key = e
                                       /\ call[t].cards[e].gen = call[t].rt
                                       /\ e \in call[t].view

\* OwnResults is one condition on the caches and one on every thread.
LEMMA OwnResultsSplit == OwnResults <=> CachesOwn /\ \A t \in Threads : CardsOwn(t)
BY DEF OwnResults, CachesOwn, CardsOwn

\* No step puts a result under another entry or into another runtime.
LEMMA NextCaches == Base /\ HoldInv /\ CachesOwn /\ [Next]_vars => CachesOwn'
<1> SUFFICES ASSUME Base, HoldInv, CachesOwn, [Next]_vars PROVE CachesOwn'
  OBVIOUS
<1>1. ASSUME (\E t \in Threads : StampScan(t)) \/ Install PROVE CachesOwn'
  <2>1. EndScan /\ scan.rt # 0
    BY <1>1, StampRuntimes, InstallRuntimes
  <2>2. \A r \in Runtimes : rts'[r].quota = rts[r].quota
    BY <2>1, EndScanRuntimes
  <2> QED
    BY <2>2 DEF CachesOwn
<1>2. ASSUME NEW t \in Threads, StoreQuota(t) PROVE CachesOwn'
  <2> DEFINE r == call[t].rt
             x == call[t].cur
  <2>1. x \in Result /\ x.gen = r /\ r \in Runtimes
    BY <1>2, StoreStep, WorkingRuntime DEF HoldInv, Working
  <2>2. rts[r].quota \in [Entries -> Result \cup {NoResult}]
    BY <2>1 DEF Base, TypeOK, Runtime
  <2>3. /\ \A s \in Runtimes \ {r} : rts'[s] = rts[s]
        /\ active # r => rts' = rts
        /\ active = r => rts'[r].quota = [rts[r].quota EXCEPT ![x.key] = x]
    BY <1>2, StoreRuntimes
  <2> HIDE DEF r, x
  <2>4. CASE active = r
    BY <2>1, <2>2, <2>3, <2>4 DEF CachesOwn
  <2> QED
    BY <2>3, <2>4 DEF CachesOwn
<1>3. ASSUME Configure PROVE CachesOwn'
  <2>1. \A r \in Runtimes : rts'[r].quota \in {rts[r].quota, NoQuota}
    BY <1>3, ConfigureRuntimes
  <2> QED
    BY <2>1 DEF CachesOwn, NoQuota
<1>4. ASSUME rts' = rts PROVE CachesOwn'
  BY <1>4 DEF CachesOwn
<1> QED
  BY <1>1, <1>2, <1>3, <1>4
  DEF Next, Handle, Shutdown, EditFile, Tick, vars, Receive,
      RescanHostConfig, SelectPageView, RefreshBegin,
      CheckFresh, FetchOneQuota, BuildPageData, Respond

\* No step shows a result of another entry or of another runtime.
LEMMA NextOwn == Base /\ HoldInv /\ HoldInv' /\ OwnResults /\ [Next]_vars => OwnResults'
<1> SUFFICES ASSUME Base, HoldInv, HoldInv', OwnResults, [Next]_vars
             PROVE  OwnResults'
  OBVIOUS
<1>1. CachesOwn /\ CachesOwn' /\ \A t \in Threads : CardsOwn(t)
  BY OwnResultsSplit, NextCaches
<1>2. ASSUME NEW t \in Threads, call'[t].pc # "page" PROVE CardsOwn(t)'
  BY <1>2 DEF HoldInv, CardsOwn, NoQuota
<1>3. ASSUME NEW t \in Threads, call'[t] = call[t] PROVE CardsOwn(t)'
  BY <1>1, <1>3 DEF CardsOwn
<1>4. ASSUME NEW t \in Threads, BuildPageData(t) PROVE CardsOwn(t)'
  <2>1. call[t].rt \in Runtimes
    BY <1>4, BuildStep, WorkingRuntime DEF Working
  <2> QED
    BY <1>1, <1>4, <2>1, BuildStep DEF CardsOwn, CachesOwn, SameRequest
<1>5. ASSUME NEW t \in Threads, Receive(t) \/ Handle(t)
      PROVE  \/ BuildPageData(t)
             \/ call'[t].pc # "page"
  BY <1>5, ReceiveStep, RescanStep, StampStep, SelectStep, RefreshStep,
     CheckStep, FetchStep, StoreStep, RespondStep DEF Handle
<1>6. ASSUME NEW t \in Threads, Receive(t) \/ Handle(t), NEW u \in Threads \ {t}
      PROVE  call'[u] = call[u]
  BY <1>6, ReceiveStep, RescanStep, StampStep, SelectStep, RefreshStep,
     CheckStep, FetchStep, StoreStep, BuildStep, RespondStep DEF Handle, OnlyMoved
<1>7. \A t \in Threads : CardsOwn(t)'
  <2>1. CASE \E t \in Threads : Receive(t) \/ Handle(t)
    BY <2>1, <1>2, <1>3, <1>4, <1>5, <1>6
  <2>2. CASE call' = call
    BY <2>2, <1>3
  <2> QED
    BY <2>1, <2>2 DEF Next, Configure, Install, Shutdown, EditFile, Tick, vars
<1>8. OwnResults' <=> CachesOwn' /\ \A t \in Threads : CardsOwn(t)'
  BY DEF OwnResults, CachesOwn, CardsOwn
<1> QED
  BY <1>1, <1>7, <1>8

\* The parts of ScanInv: the lists, what requests saw of them, and what the
\* scan under way has read.
ListsInv ==
    \A r \in 1 .. built :
        \/ rts[r].entries = Matching(file, rts[r].vendors)
        \/ rts[r].lastScan <= edited
        \/ rts[r].lastScan <= overtaken

Listed(t) == Matching(file, rts[call[t].rt].vendors)

SeenInv(t) ==
    Scanned(call[t]) /\ Settled(call[t]) =>
        /\ rts[call[t].rt].entries = Listed(t)
        /\ Viewed(call[t]) => call[t].view = PageOf(Listed(t), call[t].req)

ReadInv(t) ==
    (Scanned(call[t]) \/ call[t].pc = "stamp") /\ Settled(call[t]) /\ ~ Unlocked =>
        scan.entries = Matching(file, rts[scan.rt].vendors)

\* ScanInv is one condition on the lists and two on every thread.
LEMMA ScanInvSplit ==
    ScanInv <=> ListsInv /\ \A t \in Threads : SeenInv(t) /\ ReadInv(t)
BY DEF ScanInv, ListsInv, SeenInv, ReadInv, Listed

\* A list stays what the file says, or its scan is older than the last edit,
\* or was overtaken by it.
LEMMA NextLists == Base /\ ClockInv /\ ListsInv /\ [Next]_vars => ListsInv'
<1> SUFFICES ASSUME Base, ClockInv, ListsInv, [Next]_vars PROVE ListsInv'
  OBVIOUS
<1>0. /\ built \in 0 .. MaxRuntimes /\ 1 .. built \subseteq Runtimes
      /\ edited \in Int /\ now \in Int /\ overtaken \in Int
      /\ edited <= now /\ overtaken <= now
      /\ \A r \in Runtimes : rts[r].lastScan \in Int /\ rts[r].lastScan <= now
  BY BoundsAssumption DEF Base, TypeOK, Runtimes, Runtime, Times, ClockInv
\* A scan that ends: the list is what the file says by now, or it was
\* overtaken just now.
<1>1. ASSUME EndScan, scan.rt # 0, UNCHANGED <<file, edited>>,
             NEW r \in Runtimes, r = scan.rt \/ r \in 1 .. built
      PROVE  \/ rts'[r].entries = Matching(file', rts'[r].vendors)
             \/ rts'[r].lastScan <= edited'
             \/ rts'[r].lastScan <= overtaken'
  <2>1. /\ overtaken' \in {overtaken, now}
        /\ rts'[r].vendors = rts[r].vendors
    BY <1>1, EndScanRuntimes
  <2>2. CASE r = scan.rt
    <3>1. /\ rts'[r].entries = scan.entries
          /\ rts'[r].lastScan \in {now, rts[r].lastScan}
          /\ \/ scan.entries = Matching(file, rts[r].vendors)
             \/ overtaken' = now
      BY <1>1, <2>2, EndScanRuntimes
    <3> QED
      BY <1>0, <1>1, <2>1, <3>1
  <2>3. CASE r # scan.rt
    <3>1. rts'[r] = rts[r]
      BY <1>1, <2>3, EndScanRuntimes
    <3> QED
      BY <1>0, <1>1, <2>1, <2>3, <3>1 DEF ListsInv
  <2> QED
    BY <2>2, <2>3
<1>2. ASSUME NEW t \in Threads, StampScan(t) PROVE ListsInv'
  <2>1. EndScan /\ scan.rt # 0 /\ Kept
    BY <1>2, StampStep, StampRuntimes
  <2> QED
    BY <1>0, <1>1, <2>1 DEF ListsInv, Kept
<1>3. ASSUME NEW t \in Threads, StoreQuota(t) PROVE ListsInv'
  <2>1. Kept /\ LockKept
    BY <1>3, StoreStep
  <2>2. \A r \in Runtimes : /\ rts'[r].vendors = rts[r].vendors
                            /\ rts'[r].entries = rts[r].entries
                            /\ rts'[r].lastScan = rts[r].lastScan
    BY <1>3, StoreRuntimes
  <2> QED
    BY <1>0, <2>1, <2>2 DEF ListsInv, Kept, LockKept
<1>4. ASSUME Configure PROVE ListsInv'
  <2>1. /\ UNCHANGED <<file, edited, overtaken, built>>
        /\ \A r \in Runtimes \ {built + 1} : rts'[r] = rts[r]
    BY <1>4, ConfigureRuntimes
  <2>2. \A r \in 1 .. built : r \in Runtimes \ {built + 1}
    BY <1>0
  <2> QED
    BY <2>1, <2>2 DEF ListsInv
<1>5. ASSUME Install PROVE ListsInv'
  <2>1. /\ UNCHANGED <<file, edited>> /\ built' = built + 1
        /\ EndScan /\ scan.rt = built + 1 /\ scan.rt # 0
        /\ built + 1 \in Runtimes
    BY <1>5, InstallRuntimes
  <2>2. \A r \in 1 .. built' : r \in 1 .. built \/ r = scan.rt
    BY <1>0, <2>1
  <2>3. \A r \in 1 .. built' : r \in Runtimes
    BY <1>0, <2>1, <2>2
  <2> QED
    BY <1>1, <2>1, <2>2, <2>3 DEF ListsInv
<1>6. ASSUME EditFile PROVE ListsInv'
  <2>1. edited' = now /\ rts' = rts /\ built' = built
    BY <1>6 DEF EditFile
  <2> QED
    BY <1>0, <2>1 DEF ListsInv
<1>7. ASSUME UNCHANGED <<rts, file, edited, overtaken, built>> PROVE ListsInv'
  BY <1>7 DEF ListsInv
<1> QED
  BY <1>2, <1>3, <1>4, <1>5, <1>6, <1>7
  DEF Next, Handle, Shutdown, Tick, vars, Shared, World, Lock, Receive,
      RescanHostConfig, SelectPageView, RefreshBegin, CheckFresh,
      FetchOneQuota, BuildPageData, Respond

\* A request that finds the file settled after a step that edits nothing found
\* it settled before.
LEMMA SettledBefore ==
    ASSUME Base, ClockInv, NEW t \in Threads, SameRequest(call[t], call'[t]),
           edited' = edited, overtaken' \in {overtaken, now}, Settled(call[t])'
    PROVE  Settled(call[t])
<1>1. /\ call[t].since \in Int /\ overtaken \in Int /\ now \in Int
      /\ ScanTTL \in Int /\ overtaken <= now
  BY BoundsAssumption DEF Base, TypeOK, Call, Times, ClockInv
<1> QED
  BY <1>1 DEF Settled, SameRequest

\* A step of another thread or of the environment keeps what a request saw,
\* if it keeps the request, the file and the lists that the file determines.
LEMMA SeenKept ==
    ASSUME Base, ClockInv, NEW t \in Threads, SeenInv(t),
           call'[t] = call[t], UNCHANGED <<file, edited>>,
           overtaken' \in {overtaken, now},
           Scanned(call[t]) /\ Settled(call[t]) =>
              LET r == call[t].rt
              IN  /\ rts'[r].vendors = rts[r].vendors
                  /\ \/ rts'[r].entries = rts[r].entries
                     \/ rts'[r].entries = Matching(file, rts[r].vendors)
    PROVE  SeenInv(t)'
<1>1. Settled(call[t])' => Settled(call[t])
  BY SettledBefore DEF SameRequest
<1> QED
  BY <1>1 DEF SeenInv, Listed, Scanned, Viewed

\* A request that found the file settled keeps seeing what the file says.
LEMMA NextSeen ==
    ASSUME Base, ClockInv, ListsInv,
           \A t \in Threads : SeenInv(t) /\ ReadInv(t), [Next]_vars
    PROVE  \A t \in Threads : SeenInv(t)'
<1>0. /\ edited \in Int /\ now \in Int /\ ScanTTL \in Int /\ ScanTTL > 0
      /\ overtaken \in Int
      /\ \A r \in Runtimes : rts[r].lastScan \in Int
      /\ \A t \in Threads : call[t].since \in Int
      /\ \A r \in 1 .. built : r \in Runtimes
      /\ built \in Int
  BY BoundsAssumption DEF Base, TypeOK, Runtimes, Runtime, Times, Call
\* A request that works for a runtime works for one that was built.
<1>1. ASSUME NEW t \in Threads, Scanned(call[t])
      PROVE  call[t].rt \in 1 .. built /\ call[t].rt \in Runtimes
  BY <1>0, <1>1 DEF Base, RuntimeInv, TypeOK, Call, Scanned, Working
\* Reading the file changes no list; if it was not due, the list is recent.
<1>2. ASSUME NEW u \in Threads, RescanHostConfig(u), NEW t \in Threads
      PROVE  SeenInv(t)'
  <2> DEFINE r == call[u].rt
  <2>1. /\ r \in 1 .. built /\ r \in Runtimes
        /\ Kept /\ OnlyMoved(u) /\ SameRequest(call[u], call'[u])
        /\ rts' = rts /\ overtaken' = overtaken
        /\ call'[u].pc \in {"stamp", "select"}
        /\ call'[u].pc = "select" => /\ ~ call[u].req.force
                                     /\ now - rts[r].lastScan < ScanTTL
    BY <1>0, <1>2, RescanStep, WorkingRuntime DEF Working, Runtimes
  <2>2. CASE t = u
    <3>1. SUFFICES ASSUME call'[u].pc = "select", Settled(call[u])
                   PROVE  rts[r].entries = Matching(file, rts[r].vendors)
      BY <2>1, <2>2
      DEF SeenInv, Listed, Settled, Scanned, Viewed, Kept, SameRequest
    <3>2. /\ edited + ScanTTL <= call[u].since /\ call[u].since <= now
          /\ overtaken + ScanTTL <= call[u].since
      BY <2>1, <3>1 DEF Settled, ClockInv
    <3>3. ~ (rts[r].lastScan <= edited) /\ ~ (rts[r].lastScan <= overtaken)
      BY <1>0, <2>1, <3>1, <3>2
    <3> QED
      BY <2>1, <3>3 DEF ListsInv
  <2>3. CASE t # u
    BY <2>1, <2>3, SeenKept DEF OnlyMoved, Kept
  <2> QED
    BY <2>2, <2>3
\* The end of a scan: to whom the file was settled, it is what was read.
<1>3. ASSUME EndScan, scan.rt # 0, UNCHANGED <<file, edited>>,
             NEW t \in Threads, call'[t] = call[t]
      PROVE  SeenInv(t)'
  <2>1. /\ overtaken' \in {overtaken, now}
        /\ \A q \in Runtimes \ {scan.rt} : rts'[q] = rts[q]
        /\ \A q \in Runtimes : rts'[q].vendors = rts[q].vendors
        /\ rts'[scan.rt].entries = scan.entries
    BY <1>3, EndScanRuntimes
  <2>2. Scanned(call[t]) /\ Settled(call[t]) =>
           scan.entries = Matching(file, rts[scan.rt].vendors)
    BY <1>3 DEF ReadInv, Unlocked
  <2>3. SeenInv(t)
    OBVIOUS
  <2> QED
    BY <1>1, <1>3, <2>1, <2>2, <2>3, SeenKept
<1>4. ASSUME NEW u \in Threads, StampScan(u), NEW t \in Threads
      PROVE  SeenInv(t)'
  <2>1. /\ EndScan /\ scan.rt # 0 /\ scan.rt = call[u].rt
        /\ Kept /\ OnlyMoved(u) /\ SameRequest(call[u], call'[u])
        /\ call[u].pc = "stamp" /\ call'[u].pc = "select"
    BY <1>4, StampStep, StampRuntimes
  <2>2. CASE t = u
    <3>1. SUFFICES ASSUME Settled(call[u])'
                   PROVE  rts'[scan.rt].entries =
                             Matching(file, rts'[scan.rt].vendors)
      BY <2>1, <2>2 DEF SeenInv, Listed, Viewed, Kept, SameRequest
    <3>2. /\ overtaken' \in {overtaken, now} /\ scan.rt \in Runtimes
          /\ rts'[scan.rt].vendors = rts[scan.rt].vendors
          /\ rts'[scan.rt].entries = scan.entries
      BY <2>1, EndScanRuntimes
    <3>3. Settled(call[u])
      BY <2>1, <3>1, <3>2, SettledBefore DEF Kept
    <3> QED
      BY <2>1, <3>2, <3>3 DEF ReadInv, Unlocked
  <2>3. CASE t # u
    BY <1>3, <2>1, <2>3 DEF OnlyMoved, Kept
  <2> QED
    BY <2>2, <2>3
<1>5. ASSUME NEW u \in Threads, SelectPageView(u), NEW t \in Threads
      PROVE  SeenInv(t)'
  <2>1. /\ Kept /\ LockKept /\ OnlyMoved(u) /\ SameRequest(call[u], call'[u])
        /\ rts' = rts /\ call[u].pc = "select"
        /\ call'[u].view = PageOf(rts[call[u].rt].entries, call'[u].req)
    BY <1>5, SelectStep
  <2>2. CASE t = u
    BY <2>1, <2>2
    DEF SeenInv, Listed, Settled, Scanned, Kept, LockKept, SameRequest
  <2>3. CASE t # u
    BY <2>1, <2>3, SeenKept DEF OnlyMoved, Kept, LockKept
  <2> QED
    BY <2>2, <2>3
\* The later steps of a request keep its view and the lists.
<1>6. ASSUME NEW u \in Threads,
             \/ RefreshBegin(u) \/ CheckFresh(u) \/ FetchOneQuota(u)
             \/ StoreQuota(u) \/ BuildPageData(u),
             NEW t \in Threads
      PROVE  SeenInv(t)'
  <2>1. /\ Kept /\ LockKept /\ OnlyMoved(u) /\ SameRequest(call[u], call'[u])
        /\ call'[u].view = call[u].view
        /\ Viewed(call[u]) /\ Scanned(call[u])
    BY <1>6, RefreshStep, CheckStep, FetchStep, StoreStep, BuildStep
    DEF Viewed, Scanned
  <2>2. \A s \in Runtimes : /\ rts'[s].vendors = rts[s].vendors
                            /\ rts'[s].entries = rts[s].entries
    <3>1. CASE StoreQuota(u)
      BY <3>1, StoreRuntimes
    <3>2. CASE rts' = rts
      BY <3>2
    <3> QED
      BY <1>6, <3>1, <3>2, RefreshStep, CheckStep, FetchStep, BuildStep
  <2>3. CASE t = u
    <3>1. call[u].rt \in Runtimes
      BY <1>1, <2>1
    <3> QED
      BY <2>1, <2>2, <2>3, <3>1
      DEF SeenInv, Listed, Settled, Kept, LockKept, SameRequest
  <2>4. CASE t # u
    <3>1. /\ call'[t] = call[t] /\ UNCHANGED <<file, edited>>
          /\ overtaken' = overtaken
      BY <2>1, <2>4 DEF OnlyMoved, Kept, LockKept
    <3> QED
      BY <1>1, <2>2, <3>1, SeenKept
  <2> QED
    BY <2>3, <2>4
<1>7. ASSUME NEW u \in Threads, Receive(u) \/ Respond(u), NEW t \in Threads
      PROVE  SeenInv(t)'
  <2>1. /\ Kept /\ LockKept /\ OnlyMoved(u) /\ rts' = rts
        /\ ~ Scanned(call'[u])
    BY <1>7, ReceiveStep, RespondStep DEF Scanned
  <2>2. CASE t = u
    BY <2>1, <2>2 DEF SeenInv, Scanned
  <2>3. CASE t # u
    BY <2>1, <2>3, SeenKept DEF OnlyMoved, Kept, LockKept
  <2> QED
    BY <2>2, <2>3
<1>8. ASSUME Configure, NEW t \in Threads PROVE SeenInv(t)'
  <2>1. /\ UNCHANGED <<file, edited, overtaken, call>>
        /\ \A r \in Runtimes \ {built + 1} : rts'[r] = rts[r]
    BY <1>8, ConfigureRuntimes
  <2>2. Scanned(call[t]) => rts'[call[t].rt] = rts[call[t].rt]
    <3>1. Scanned(call[t]) => call[t].rt # built + 1
      BY <1>0, <1>1
    <3> QED
      BY <1>1, <2>1, <3>1
  <2> QED
    BY <2>1, <2>2, SeenKept
<1>9. ASSUME Install, NEW t \in Threads PROVE SeenInv(t)'
  <2>1. EndScan /\ scan.rt # 0 /\ UNCHANGED <<file, edited, call>>
    BY <1>9, InstallRuntimes
  <2> QED
    BY <1>3, <2>1
\* After an edit no request under way finds the file settled.
<1>10. ASSUME EditFile, NEW t \in Threads PROVE SeenInv(t)'
  <2>1. edited' = now /\ call' = call
    BY <1>10 DEF EditFile
  <2>2. ~ Settled(call[t])'
    BY <1>0, <2>1 DEF Settled, ClockInv
  <2> QED
    BY <2>2 DEF SeenInv
<1>11. ASSUME UNCHANGED <<rts, call, file, edited, overtaken>>, NEW t \in Threads
       PROVE  SeenInv(t)'
  BY <1>11, SeenKept
<1> QED
  BY <1>2, <1>4, <1>5, <1>6, <1>7, <1>8, <1>9, <1>10, <1>11
  DEF Next, Handle, Shutdown, Tick, vars, World, Lock

\* What the scan under way has read is what the file says, for a request that
\* found the file settled.
LEMMA NextRead ==
    ASSUME Base, ClockInv, \A t \in Threads : ReadInv(t), [Next]_vars
    PROVE  \A t \in Threads : ReadInv(t)'
<1>0. /\ edited \in Int /\ now \in Int /\ ScanTTL \in Int /\ ScanTTL > 0
      /\ overtaken \in Int
      /\ \A t \in Threads : call[t].since \in Int
      /\ scan.rt = 0 \/ scan.rt \in Runtimes
  BY BoundsAssumption DEF Base, TypeOK, Times, Call, Scan, Runtimes
<1>1. ASSUME NEW u \in Threads, RescanHostConfig(u), NEW t \in Threads
      PROVE  ReadInv(t)'
  <2>1. /\ Kept /\ rts' = rts /\ Unlocked
        /\ call'[u].pc \in {"stamp", "select"}
        /\ call'[u].pc = "stamp" =>
              scan'.entries = Matching(file, rts[scan'.rt].vendors)
        /\ call'[u].pc = "select" => scan' = scan
    BY <1>1, RescanStep
  <2> QED
    BY <2>1 DEF ReadInv, Unlocked, Kept
<1>2. ASSUME NEW u \in Threads, StampScan(u), NEW t \in Threads PROVE ReadInv(t)'
  <2>1. scan'.rt = 0
    BY <1>2, StampRuntimes, EndScanRuntimes
  <2> QED
    BY <2>1 DEF ReadInv, Unlocked
\* The other steps of a request are not its first, or end it.
<1>3. ASSUME NEW u \in Threads, Kept, LockKept, OnlyMoved(u),
             \A r \in Runtimes : rts'[r].vendors = rts[r].vendors,
             \/ ~ Scanned(call'[u]) /\ call'[u].pc # "stamp"
             \/ Scanned(call[u]) /\ SameRequest(call[u], call'[u]),
             NEW t \in Threads
      PROVE  ReadInv(t)'
  <2>1. /\ UNCHANGED <<file, edited, overtaken, scan>>
        /\ ~ Unlocked => rts'[scan.rt].vendors = rts[scan.rt].vendors
    BY <1>0, <1>3 DEF Kept, LockKept, Unlocked
  <2>2. CASE t = u
    BY <1>3, <2>1, <2>2 DEF ReadInv, Unlocked, Settled, SameRequest
  <2>3. CASE t # u
    <3>1. call'[t] = call[t] /\ ReadInv(t)
      BY <1>3, <2>3 DEF OnlyMoved
    <3> QED
      BY <2>1, <3>1 DEF ReadInv, Unlocked, Settled, Scanned
  <2> QED
    BY <2>2, <2>3
<1>4. ASSUME NEW u \in Threads, Receive(u) \/ Respond(u), NEW t \in Threads
      PROVE  ReadInv(t)'
  <2>1. /\ Kept /\ LockKept /\ OnlyMoved(u) /\ rts' = rts
        /\ ~ Scanned(call'[u]) /\ call'[u].pc # "stamp"
    BY <1>4, ReceiveStep, RespondStep DEF Scanned
  <2> QED
    BY <1>3, <2>1
<1>5. ASSUME NEW u \in Threads,
             \/ SelectPageView(u) \/ RefreshBegin(u) \/ CheckFresh(u)
             \/ FetchOneQuota(u) \/ BuildPageData(u),
             NEW t \in Threads
      PROVE  ReadInv(t)'
  <2>1. /\ Kept /\ LockKept /\ OnlyMoved(u) /\ rts' = rts
        /\ Scanned(call[u]) /\ SameRequest(call[u], call'[u])
    BY <1>5, SelectStep, RefreshStep, CheckStep, FetchStep, BuildStep DEF Scanned
  <2> QED
    BY <1>3, <2>1
<1>6. ASSUME NEW u \in Threads, StoreQuota(u), NEW t \in Threads PROVE ReadInv(t)'
  <2>1. /\ Kept /\ LockKept /\ OnlyMoved(u)
        /\ Scanned(call[u]) /\ SameRequest(call[u], call'[u])
    BY <1>6, StoreStep DEF Scanned
  <2>2. \A r \in Runtimes : rts'[r].vendors = rts[r].vendors
    BY <1>6, StoreRuntimes
  <2> QED
    BY <1>3, <2>1, <2>2
<1>7. ASSUME Configure, NEW t \in Threads PROVE ReadInv(t)'
  <2>1. /\ scan'.rt = built + 1 /\ file' = file
        /\ scan'.entries = Matching(file, rts'[built + 1].vendors)
    BY <1>7, ConfigureRuntimes
  <2> QED
    BY <2>1 DEF ReadInv
<1>8. ASSUME Install, NEW t \in Threads PROVE ReadInv(t)'
  <2>1. scan'.rt = 0
    BY <1>8, InstallRuntimes, EndScanRuntimes
  <2> QED
    BY <2>1 DEF ReadInv, Unlocked
<1>9. ASSUME EditFile, NEW t \in Threads PROVE ReadInv(t)'
  <2>1. edited' = now /\ call' = call
    BY <1>9 DEF EditFile
  <2>2. ~ Settled(call[t])'
    BY <1>0, <2>1 DEF Settled, ClockInv
  <2> QED
    BY <2>2 DEF ReadInv
<1>10. ASSUME UNCHANGED <<rts, call, scan, file, edited, overtaken>>,
              NEW t \in Threads
       PROVE  ReadInv(t)'
  <2>1. ReadInv(t)
    OBVIOUS
  <2> QED
    BY <1>10, <2>1 DEF ReadInv, Unlocked, Settled, Scanned
<1> QED
  BY <1>1, <1>2, <1>4, <1>5, <1>6, <1>7, <1>8, <1>9, <1>10
  DEF Next, Handle, Shutdown, Tick, vars, World, Lock

\* What FillInv says of one request.
FillOf(t) ==
    /\ call[t].pc = "build" => Wanted(call[t].req, call[t].view) = {}
    /\ Viewed(call[t]) /\ active = call[t].rt =>
         \A e \in Wanted(call[t].req, call[t].view) :
            IF call[t].pc = "page" THEN call[t].cards[e] # NoResult
            ELSE \/ rts[call[t].rt].quota[e] # NoResult
                 \/ e \in call[t].todo

\* A step that keeps a request, and forgets no result, keeps FillOf.
LEMMA FillKept ==
    ASSUME NEW t \in Threads, FillOf(t), call'[t] = call[t],
           active' = call[t].rt => active = call[t].rt,
           Viewed(call[t]) =>
              \A e \in Entries :
                 rts[call[t].rt].quota[e] # NoResult =>
                    rts'[call[t].rt].quota[e] # NoResult,
           Wanted(call[t].req, call[t].view) \subseteq Entries
    PROVE  FillOf(t)'
BY DEF FillOf, Viewed, Scanned

\* A wanted card keeps its result, or its place on the list, at every step.
LEMMA NextFill ==
    ASSUME Base, HoldInv, \A t \in Threads : FillOf(t), [Next]_vars
    PROVE  \A t \in Threads : FillOf(t)'
<1>0. /\ \A t \in Threads : /\ call[t] \in Call
                            /\ Wanted(call[t].req, call[t].view) \subseteq call[t].view
                            /\ call[t].view \subseteq Entries
      /\ built \in Int /\ active \in Int
  BY WantedSubset DEF Base, TypeOK, Call
<1>1. ASSUME NEW t \in Threads, Viewed(call[t])
      PROVE  /\ call[t].rt \in Runtimes /\ call[t].rt \in Int
             /\ call[t].rt # 0 /\ call[t].rt <= built
  BY <1>0, <1>1 DEF Base, RuntimeInv, Call, Viewed, Scanned, Working, Runtimes
\* Steps that leave the caches and the active runtime alone.
<1>2. ASSUME NEW u \in Threads, OnlyMoved(u), active' = active,
             \A r \in Runtimes : rts'[r].quota = rts[r].quota,
             NEW t \in Threads, t # u
      PROVE  FillOf(t)'
  <2>1. call'[t] = call[t]
    BY <1>2 DEF OnlyMoved
  <2>2. Viewed(call[t]) => rts'[call[t].rt].quota = rts[call[t].rt].quota
    BY <1>1, <1>2
  <2>3. Wanted(call[t].req, call[t].view) \subseteq Entries
    BY <1>0
  <2> QED
    BY <1>2, <2>1, <2>2, <2>3, FillKept
<1>3. ASSUME NEW u \in Threads, ~ Viewed(call'[u]) PROVE FillOf(u)'
  BY <1>3 DEF FillOf, Viewed, Scanned
<1>4. ASSUME NEW u \in Threads,
             Receive(u) \/ RescanHostConfig(u) \/ StampScan(u) \/ Respond(u),
             NEW t \in Threads
      PROVE  FillOf(t)'
  <2>1. OnlyMoved(u) /\ Kept /\ ~ Viewed(call'[u])
    BY <1>4, ReceiveStep, RescanStep, StampStep, RespondStep DEF Viewed, Scanned
  <2>2. \A r \in Runtimes : rts'[r].quota = rts[r].quota
    BY <1>4, ReceiveStep, RescanStep, StampRuntimes, EndScanRuntimes, RespondStep
  <2> QED
    BY <1>2, <1>3, <2>1, <2>2 DEF Kept
<1>5. ASSUME NEW u \in Threads, SelectPageView(u), NEW t \in Threads
      PROVE  FillOf(t)'
  <2>1. /\ OnlyMoved(u) /\ Kept /\ rts' = rts
        /\ call'[u].todo = Wanted(call'[u].req, call'[u].view)
        /\ call'[u].pc \in {"refresh", "build"}
        /\ call'[u].pc = "build" => call'[u].todo = {}
    BY <1>5, SelectStep
  <2>2. FillOf(u)'
    BY <2>1 DEF FillOf
  <2> QED
    BY <1>2, <2>1, <2>2 DEF Kept
<1>6. ASSUME NEW u \in Threads, RefreshBegin(u), NEW t \in Threads
      PROVE  FillOf(t)'
  <2>1. /\ OnlyMoved(u) /\ Kept /\ rts' = rts
        /\ call[u].pc = "refresh" /\ call'[u].pc = "check"
        /\ SameRequest(call[u], call'[u])
        /\ call'[u].view = call[u].view
        /\ call'[u].view # {} => call'[u].todo = call[u].todo
    BY <1>6, RefreshStep
  <2>2. FillOf(u)'
    <3>1. \A e \in Wanted(call[u].req, call[u].view) : call[u].view # {}
      BY <1>0
    <3>2. FillOf(u)
      OBVIOUS
    <3> QED
      BY <2>1, <3>1, <3>2 DEF FillOf, Viewed, Scanned, Kept, SameRequest
  <2> QED
    BY <1>2, <2>1, <2>2 DEF Kept
<1>7. ASSUME NEW u \in Threads, CheckFresh(u), NEW t \in Threads
      PROVE  FillOf(t)'
  <2>1. /\ OnlyMoved(u) /\ Kept /\ rts' = rts
        /\ call[u].pc = "check" /\ call'[u].pc = "fetch"
        /\ SameRequest(call[u], call'[u])
        /\ call'[u].view = call[u].view
        /\ \A e \in call[u].todo \ call'[u].todo :
              rts[call[u].rt].quota[e] # NoResult
    BY <1>7, CheckStep
  <2>2. FillOf(u)'
    <3>1. FillOf(u)
      OBVIOUS
    <3> QED
      BY <2>1, <3>1 DEF FillOf, Viewed, Scanned, Kept, SameRequest
  <2> QED
    BY <1>2, <2>1, <2>2 DEF Kept
<1>8. ASSUME NEW u \in Threads, FetchOneQuota(u), NEW t \in Threads
      PROVE  FillOf(t)'
  <2>1. /\ OnlyMoved(u) /\ Kept /\ rts' = rts
        /\ call[u].pc = "fetch" /\ call'[u].pc = "store"
        /\ SameRequest(call[u], call'[u])
        /\ call'[u].view = call[u].view
        /\ call'[u].todo = call[u].todo
    BY <1>8, FetchStep
  <2>2. FillOf(u)'
    <3>1. FillOf(u)
      OBVIOUS
    <3> QED
      BY <2>1, <3>1 DEF FillOf, Viewed, Scanned, Kept, SameRequest
  <2> QED
    BY <1>2, <2>1, <2>2 DEF Kept
<1>9. ASSUME NEW u \in Threads, StoreQuota(u), NEW t \in Threads
      PROVE  FillOf(t)'
  <2> DEFINE r == call[u].rt
             x == call[u].cur
  <2>1. /\ OnlyMoved(u) /\ Kept
        /\ call[u].pc = "store" /\ call'[u].pc = "fetch"
        /\ SameRequest(call[u], call'[u])
        /\ call'[u].view = call[u].view
        /\ call'[u].todo = call[u].todo \ {x.key}
        /\ r \in Runtimes
    BY <1>9, StoreStep, WorkingRuntime DEF Working
  <2>2. x \in Result /\ x # NoResult /\ x.key \in Entries
    BY <2>1, NoResultAssumption DEF HoldInv, Result
  <2>3. /\ \A s \in Runtimes \ {r} : rts'[s] = rts[s]
        /\ active # r => rts' = rts
        /\ active = r => rts'[r].quota = [rts[r].quota EXCEPT ![x.key] = x]
    BY <1>9, StoreRuntimes
  <2>4. rts[r].quota \in [Entries -> Result \cup {NoResult}]
    BY <2>1 DEF Base, TypeOK, Runtime
  <2> HIDE DEF r, x
  <2>5. /\ \A s \in Runtimes, e \in Entries :
             rts[s].quota[e] # NoResult => rts'[s].quota[e] # NoResult
        /\ active = r => rts'[r].quota[x.key] # NoResult
    BY <2>2, <2>3, <2>4
  <2>6. CASE t = u
    <3>1. FillOf(u)
      OBVIOUS
    <3>2. call[u].rt = r /\ call[u].cur = x
      BY DEF r, x
    <3>3. \A e \in Wanted(call[u].req, call[u].view) : e \in Entries
      BY <1>0
    <3> QED
      BY <2>1, <2>2, <2>5, <2>6, <3>1, <3>2, <3>3
      DEF FillOf, Viewed, Scanned, Kept, SameRequest
  <2>7. CASE t # u
    <3>1. call'[t] = call[t] /\ active' = active
      BY <2>1, <2>7 DEF OnlyMoved, Kept
    <3>2. Wanted(call[t].req, call[t].view) \subseteq Entries
      BY <1>0
    <3> QED
      BY <1>1, <2>5, <3>1, <3>2, FillKept
  <2> QED
    BY <2>6, <2>7
<1>10. ASSUME NEW u \in Threads, BuildPageData(u), NEW t \in Threads
       PROVE  FillOf(t)'
  <2>1. /\ OnlyMoved(u) /\ Kept /\ rts' = rts
        /\ \/ call[u].pc = "build"
           \/ call[u].pc = "fetch" /\ call[u].todo = {}
        /\ call'[u].pc = "page"
        /\ SameRequest(call[u], call'[u])
        /\ call'[u].view = call[u].view
        /\ \A e \in Entries : e \in call'[u].view =>
              call'[u].cards[e] = rts[call[u].rt].quota[e]
    BY <1>10, BuildStep
  <2>2. FillOf(u)'
    <3>1. FillOf(u)
      OBVIOUS
    <3>2. \A e \in Wanted(call[u].req, call[u].view) :
             e \in call[u].view /\ e \in Entries
      BY <1>0
    <3> QED
      BY <2>1, <3>1, <3>2 DEF FillOf, Viewed, Scanned, Kept, SameRequest
  <2> QED
    BY <1>2, <2>1, <2>2 DEF Kept
<1>11. ASSUME Configure, NEW t \in Threads PROVE FillOf(t)'
  <2>1. /\ call' = call /\ active' = active
        /\ \A r \in Runtimes \ {built + 1} : rts'[r] = rts[r]
    BY <1>11, ConfigureRuntimes
  <2>2. Viewed(call[t]) => call[t].rt # built + 1
    BY <1>0, <1>1
  <2>3. Viewed(call[t]) => rts'[call[t].rt] = rts[call[t].rt]
    BY <1>1, <2>1, <2>2
  <2>4. FillOf(t)
    OBVIOUS
  <2> QED
    BY <2>1, <2>3, <2>4 DEF FillOf, Viewed, Scanned
<1>14. ASSUME Install, NEW t \in Threads PROVE FillOf(t)'
  <2>1. call' = call /\ active' = built + 1
    BY <1>14, InstallRuntimes
  <2>2. Viewed(call[t]) => call[t].rt # built + 1
    BY <1>0, <1>1
  <2>3. FillOf(t)
    OBVIOUS
  <2> QED
    BY <2>1, <2>2, <2>3 DEF FillOf, Viewed, Scanned
<1>12. ASSUME Shutdown, NEW t \in Threads PROVE FillOf(t)'
  <2>1. call' = call /\ active' = 0
    BY <1>12 DEF Shutdown
  <2> QED
    BY <1>1, <2>1 DEF FillOf, Viewed, Scanned
<1>13. ASSUME UNCHANGED <<rts, call, active>>, NEW t \in Threads PROVE FillOf(t)'
  BY <1>13 DEF FillOf
<1> QED
  BY <1>4, <1>5, <1>6, <1>7, <1>8, <1>9, <1>10, <1>11, <1>12, <1>13, <1>14
  DEF Next, Handle, EditFile, Tick, vars

\* What WorkInv says of one request.
WorkOf(t) ==
    LET wanted == Wanted(call[t].req, call[t].view)
    IN  /\ call[t].pc = "refresh" => call[t].todo = wanted
        /\ Refreshing(call[t]) /\ call[t].view # {} => call[t].todo \subseteq wanted

\* No step of a refresh adds to what the request wanted.
LEMMA NextWork ==
    ASSUME Base, \A t \in Threads : WorkOf(t), [Next]_vars
    PROVE  \A t \in Threads : WorkOf(t)'
<1> USE DEF WorkOf, Refreshing
<1>1. ASSUME NEW u \in Threads, OnlyMoved(u), NEW t \in Threads, t # u
      PROVE  WorkOf(t)'
  <2>1. call'[t] = call[t] /\ WorkOf(t)
    BY <1>1 DEF OnlyMoved
  <2> QED
    BY <2>1
<1>2. ASSUME NEW u \in Threads,
             Receive(u) \/ RescanHostConfig(u) \/ StampScan(u) \/ Respond(u),
             NEW t \in Threads
      PROVE  WorkOf(t)'
  <2>1. OnlyMoved(u)
    BY <1>2, ReceiveStep, RescanStep, StampStep, RespondStep
  <2>2. call'[u].pc \notin {"refresh", "check", "fetch", "store"}
    BY <1>2, ReceiveStep, RescanStep, StampStep, RespondStep
  <2> QED
    BY <1>1, <2>1, <2>2
<1>3. ASSUME NEW u \in Threads, SelectPageView(u), NEW t \in Threads
      PROVE  WorkOf(t)'
  <2>1. /\ OnlyMoved(u)
        /\ call'[u].todo = Wanted(call'[u].req, call'[u].view)
        /\ call'[u].pc \in {"refresh", "build"}
    BY <1>3, SelectStep
  <2>2. WorkOf(u)'
    BY <2>1
  <2> QED
    BY <1>1, <2>1, <2>2
<1>4. ASSUME NEW u \in Threads, RefreshBegin(u), NEW t \in Threads
      PROVE  WorkOf(t)'
  <2>1. /\ OnlyMoved(u) /\ SameRequest(call[u], call'[u])
        /\ call[u].pc = "refresh" /\ call'[u].pc = "check"
        /\ call'[u].view = call[u].view
        /\ call'[u].view # {} => call'[u].todo = call[u].todo
    BY <1>4, RefreshStep
  <2>2. WorkOf(u)'
    BY <2>1 DEF SameRequest
  <2> QED
    BY <1>1, <2>1, <2>2
<1>5. ASSUME NEW u \in Threads,
             CheckFresh(u) \/ FetchOneQuota(u) \/ StoreQuota(u),
             NEW t \in Threads
      PROVE  WorkOf(t)'
  <2>1. /\ OnlyMoved(u) /\ SameRequest(call[u], call'[u])
        /\ call[u].pc \in {"check", "fetch", "store"}
        /\ call'[u].pc \in {"fetch", "store"}
        /\ call'[u].view = call[u].view
        /\ call'[u].todo \subseteq call[u].todo
    BY <1>5, CheckStep, FetchStep, StoreStep
  <2>2. WorkOf(u)'
    BY <2>1 DEF SameRequest
  <2> QED
    BY <1>1, <2>1, <2>2
<1>6. ASSUME NEW u \in Threads, BuildPageData(u), NEW t \in Threads
      PROVE  WorkOf(t)'
  <2>1. OnlyMoved(u) /\ call'[u].pc = "page"
    BY <1>6, BuildStep
  <2> QED
    BY <1>1, <2>1
<1>7. ASSUME UNCHANGED call, NEW t \in Threads PROVE WorkOf(t)'
  BY <1>7
<1>8. Configure \/ Install => UNCHANGED call
  BY ConfigureRuntimes, InstallRuntimes
<1> QED
  BY <1>2, <1>3, <1>4, <1>5, <1>6, <1>7, <1>8
  DEF Next, Handle, Shutdown, EditFile, Tick, vars

\* What PeersInv says of two requests.
PeersOf(t, u) ==
    call[u].pc \in Working => \/ call[u].since >= call[t].since
                              \/ call[u].since \in call[t].beside

\* Whoever comes in later came in no earlier; whoever comes in notes who is
\* there.
LEMMA NextPeers ==
    ASSUME Base, ClockInv, \A t, u \in Threads : PeersOf(t, u), [Next]_vars
    PROVE  \A t, u \in Threads : PeersOf(t, u)'
<1>0. /\ \A t \in Threads : /\ call[t].since \in Int
                            /\ call[t].since >= 0 /\ call[t].since <= now
      /\ now \in Int
  BY DEF Base, TypeOK, Times, Call, ClockInv
<1> USE DEF PeersOf
<1>1. ASSUME NEW m \in Threads, OnlyMoved(m), SameRequest(call[m], call'[m]),
             call'[m].pc \in Working => call[m].pc \in Working,
             NEW t \in Threads, NEW u \in Threads
      PROVE  PeersOf(t, u)'
  <2>1. \A v \in Threads : /\ call'[v].since = call[v].since
                           /\ call'[v].beside = call[v].beside
                           /\ call'[v].pc \in Working => call[v].pc \in Working
    BY <1>1 DEF OnlyMoved, SameRequest
  <2> QED
    BY <2>1
<1>2. ASSUME NEW m \in Threads,
             \/ RescanHostConfig(m) \/ StampScan(m) \/ SelectPageView(m)
             \/ RefreshBegin(m) \/ CheckFresh(m) \/ FetchOneQuota(m)
             \/ StoreQuota(m) \/ BuildPageData(m),
             NEW t \in Threads, NEW u \in Threads
      PROVE  PeersOf(t, u)'
  <2>1. /\ OnlyMoved(m) /\ SameRequest(call[m], call'[m])
        /\ call[m].pc \in Working
    BY <1>2, RescanStep, StampStep, SelectStep, RefreshStep, CheckStep,
       FetchStep, StoreStep, BuildStep DEF Working
  <2> QED
    BY <1>1, <2>1
<1>3. ASSUME NEW m \in Threads, Receive(m), NEW t \in Threads, NEW u \in Threads
      PROVE  PeersOf(t, u)'
  <2>1. /\ OnlyMoved(m)
        /\ call'[m].since = now /\ call'[m].beside = UnderWay
    BY <1>3, ReceiveStep
  <2>2. CASE u = m
    BY <1>0, <2>1, <2>2 DEF OnlyMoved
  <2>3. CASE u # m /\ t # m
    BY <2>1, <2>3 DEF OnlyMoved
  <2>4. CASE u # m /\ t = m
    BY <1>0, <2>1, <2>4 DEF OnlyMoved, UnderWay
  <2> QED
    BY <2>2, <2>3, <2>4
<1>4. ASSUME NEW m \in Threads, Respond(m), NEW t \in Threads, NEW u \in Threads
      PROVE  PeersOf(t, u)'
  <2>1. OnlyMoved(m) /\ call'[m].since = 0 /\ call'[m].pc = "idle"
    BY <1>4, RespondStep
  <2>2. "idle" \notin Working
    BY DEF Working
  <2> QED
    BY <1>0, <2>1, <2>2 DEF OnlyMoved
<1>5. ASSUME UNCHANGED call, NEW t \in Threads, NEW u \in Threads
      PROVE  PeersOf(t, u)'
  BY <1>5
<1> QED
  BY <1>2, <1>3, <1>4, <1>5
  DEF Next, Handle, Configure, Install, Shutdown, EditFile, Tick, vars

\* What ForcedInv says of one request.
ForcedOf(t) ==
    LET c == call[t]
    IN  /\ c.pc = "store" => c.cur.fetchedAt >= c.since
        /\ Viewed(c) /\ active = c.rt /\ c.req.force =>
              \A e \in Wanted(c.req, c.view) :
                 IF c.pc = "page" THEN NewFor(c, c.cards[e])
                 ELSE e \in c.todo \/ NewFor(c, rts[c.rt].quota[e])

\* What a request is about to store is new for every request.
LEMMA StoredIsNew ==
    ASSUME Base, HoldInv, NEW t \in Threads, NEW u \in Threads,
           PeersOf(t, u), ForcedOf(u), call[u].pc = "store"
    PROVE  NewFor(call[t], call[u].cur)
<1>1. /\ call[u].cur \in Result /\ call[u].cur # NoResult
      /\ call[u].cur.fetchedAt >= call[u].since
      /\ call[u].pc \in Working
  BY NoResultAssumption DEF HoldInv, ForcedOf, Working
<1>2. /\ call[t].since \in Int /\ call[u].since \in Int
      /\ call[u].cur.fetchedAt \in Int
  BY <1>1 DEF Base, TypeOK, Call, Result, Times
<1> QED
  BY <1>1, <1>2 DEF PeersOf, NewFor

\* What a forced request wants is fetched anew, and whoever replaces it puts
\* something new in its place.
LEMMA NextForced ==
    ASSUME Base, ClockInv, HoldInv, \A t, u \in Threads : PeersOf(t, u),
           \A t \in Threads : FillOf(t) /\ ForcedOf(t), [Next]_vars
    PROVE  \A t \in Threads : ForcedOf(t)'
<1>0. /\ \A t \in Threads : /\ call[t] \in Call
                            /\ Wanted(call[t].req, call[t].view) \subseteq call[t].view
                            /\ call[t].view \subseteq Entries
      /\ built \in Int /\ active \in Int
  BY WantedSubset DEF Base, TypeOK, Call
<1>1. ASSUME NEW t \in Threads, Viewed(call[t])
      PROVE  /\ call[t].rt \in Runtimes /\ call[t].rt \in Int
             /\ call[t].rt # 0 /\ call[t].rt <= built
  BY <1>0, <1>1 DEF Base, RuntimeInv, Call, Viewed, Scanned, Working, Runtimes
\* Steps of others that leave the caches and the active runtime alone.
<1>2. ASSUME NEW t \in Threads, call'[t] = call[t], active' = active,
             Viewed(call[t]) => rts'[call[t].rt].quota = rts[call[t].rt].quota
      PROVE  ForcedOf(t)'
  <2>1. ForcedOf(t)
    OBVIOUS
  <2> QED
    BY <1>2, <2>1 DEF ForcedOf, NewFor, Viewed, Scanned
<1>3. ASSUME NEW u \in Threads, OnlyMoved(u), Kept,
             \A r \in Runtimes : rts'[r].quota = rts[r].quota,
             NEW t \in Threads, t # u
      PROVE  ForcedOf(t)'
  <2>1. call'[t] = call[t] /\ active' = active
    BY <1>3 DEF OnlyMoved, Kept
  <2> QED
    BY <1>1, <1>2, <1>3, <2>1
<1>4. ASSUME NEW u \in Threads,
             Receive(u) \/ RescanHostConfig(u) \/ StampScan(u) \/ Respond(u),
             NEW t \in Threads
      PROVE  ForcedOf(t)'
  <2>1. /\ OnlyMoved(u) /\ Kept
        /\ ~ Viewed(call'[u]) /\ call'[u].pc # "store"
    BY <1>4, ReceiveStep, RescanStep, StampStep, RespondStep DEF Viewed, Scanned
  <2>2. \A r \in Runtimes : rts'[r].quota = rts[r].quota
    BY <1>4, ReceiveStep, RescanStep, StampRuntimes, EndScanRuntimes, RespondStep
  <2>3. ForcedOf(u)'
    BY <2>1 DEF ForcedOf
  <2> QED
    BY <1>3, <2>1, <2>2, <2>3
<1>5. ASSUME NEW u \in Threads, SelectPageView(u), NEW t \in Threads
      PROVE  ForcedOf(t)'
  <2>1. /\ OnlyMoved(u) /\ Kept /\ rts' = rts
        /\ call'[u].todo = Wanted(call'[u].req, call'[u].view)
        /\ call'[u].pc \in {"refresh", "build"}
    BY <1>5, SelectStep
  <2>2. ForcedOf(u)'
    BY <2>1 DEF ForcedOf
  <2> QED
    BY <1>3, <2>1, <2>2
<1>6. ASSUME NEW u \in Threads, RefreshBegin(u), NEW t \in Threads
      PROVE  ForcedOf(t)'
  <2>1. /\ OnlyMoved(u) /\ Kept /\ rts' = rts
        /\ call[u].pc = "refresh" /\ call'[u].pc = "check"
        /\ SameRequest(call[u], call'[u])
        /\ call'[u].view = call[u].view
        /\ call'[u].view # {} => call'[u].todo = call[u].todo
    BY <1>6, RefreshStep
  <2>2. \A e \in Wanted(call[u].req, call[u].view) : call[u].view # {}
    BY <1>0
  <2>3. ForcedOf(u)
    OBVIOUS
  <2>4. ForcedOf(u)'
    BY <2>1, <2>2, <2>3 DEF ForcedOf, NewFor, Viewed, Scanned, Kept, SameRequest
  <2> QED
    BY <1>3, <2>1, <2>4
<1>7. ASSUME NEW u \in Threads, CheckFresh(u), NEW t \in Threads
      PROVE  ForcedOf(t)'
  <2>1. /\ OnlyMoved(u) /\ Kept /\ rts' = rts
        /\ call[u].pc = "check" /\ call'[u].pc = "fetch"
        /\ SameRequest(call[u], call'[u])
        /\ call'[u].view = call[u].view
        /\ call[u].req.force => call'[u].todo = call[u].todo
    BY <1>7, CheckStep
  <2>2. ForcedOf(u)
    OBVIOUS
  <2>3. ForcedOf(u)'
    BY <2>1, <2>2 DEF ForcedOf, NewFor, Viewed, Scanned, Kept, SameRequest
  <2> QED
    BY <1>3, <2>1, <2>3
<1>8. ASSUME NEW u \in Threads, FetchOneQuota(u), NEW t \in Threads
      PROVE  ForcedOf(t)'
  <2>1. /\ OnlyMoved(u) /\ Kept /\ rts' = rts
        /\ call[u].pc = "fetch" /\ call'[u].pc = "store"
        /\ SameRequest(call[u], call'[u])
        /\ call'[u].view = call[u].view
        /\ call'[u].todo = call[u].todo
        /\ call'[u].cur.fetchedAt = now
    BY <1>8, FetchStep
  <2>2. ForcedOf(u)
    OBVIOUS
  <2>3. call'[u].cur.fetchedAt >= call'[u].since
    BY <2>1 DEF ClockInv, SameRequest
  <2>4. ForcedOf(u)'
    BY <2>1, <2>2, <2>3 DEF ForcedOf, NewFor, Viewed, Scanned, Kept, SameRequest
  <2> QED
    BY <1>3, <2>1, <2>4
<1>9. ASSUME NEW u \in Threads, StoreQuota(u), NEW t \in Threads
      PROVE  ForcedOf(t)'
  <2> DEFINE r == call[u].rt
             x == call[u].cur
  <2>1. /\ OnlyMoved(u) /\ Kept
        /\ call[u].pc = "store" /\ call'[u].pc = "fetch"
        /\ SameRequest(call[u], call'[u])
        /\ call'[u].view = call[u].view
        /\ call'[u].todo = call[u].todo \ {x.key}
        /\ r \in Runtimes
    BY <1>9, StoreStep, WorkingRuntime DEF Working
  <2>2. /\ active = r => rts'[r].quota = [rts[r].quota EXCEPT ![x.key] = x]
        /\ active # r => rts' = rts
    BY <1>9, StoreRuntimes
  <2>3. rts[r].quota \in [Entries -> Result \cup {NoResult}]
    BY <2>1 DEF Base, TypeOK, Runtime
  <2>4. ForcedOf(t) /\ call[u].rt = r /\ NewFor(call[t], x)
    BY <2>1, StoredIsNew
  <2>5. \A e \in Wanted(call[t].req, call[t].view) : e \in Entries
    BY <1>0
  <2>6. active = r =>
          \A e \in Entries : rts'[r].quota[e] = IF e = x.key THEN x
                                                ELSE rts[r].quota[e]
    BY <2>2, <2>3
  <2> HIDE DEF r, x
  <2>7. CASE t = u
    <3>1. /\ call'[t].pc = "fetch" /\ call'[t].view = call[t].view
          /\ call'[t].todo = call[t].todo \ {x.key}
          /\ SameRequest(call[t], call'[t])
          /\ call[t].rt = r /\ call[t].pc = "store" /\ active' = active
      BY <2>1, <2>4, <2>7 DEF Kept
    <3>2. \A result : NewFor(call[t], result) <=> NewFor(call'[t], result)
      BY <3>1 DEF NewFor, SameRequest
    <3>3. ASSUME active = r, call[t].req.force,
                 NEW e \in Wanted(call[t].req, call[t].view)
          PROVE  e \in call'[t].todo \/ NewFor(call'[t], rts'[r].quota[e])
      <4>1. e \in call[t].todo \/ NewFor(call[t], rts[r].quota[e])
        BY <2>4, <3>1, <3>3 DEF ForcedOf, Viewed, Scanned
      <4>2. CASE e = x.key
        BY <2>4, <2>5, <2>6, <3>2, <3>3, <4>2
      <4>3. CASE e # x.key
        BY <2>5, <2>6, <3>1, <3>2, <3>3, <4>1, <4>3
      <4> QED
        BY <4>2, <4>3
    <3>4. call'[t].rt = r /\ call'[t].req = call[t].req
      BY <3>1 DEF SameRequest
    <3> QED
      BY <3>1, <3>3, <3>4 DEF ForcedOf
  <2>8. CASE t # u /\ active = r
    <3>1. call'[t] = call[t] /\ active' = active
      BY <2>1, <2>8 DEF OnlyMoved, Kept
    <3> QED
      BY <2>4, <2>5, <2>6, <2>8, <3>1 DEF ForcedOf, NewFor, Viewed, Scanned
  <2>9. CASE t # u /\ active # r
    BY <1>3, <2>1, <2>2, <2>9
  <2> QED
    BY <2>7, <2>8, <2>9
<1>10. ASSUME NEW u \in Threads, BuildPageData(u), NEW t \in Threads
       PROVE  ForcedOf(t)'
  <2>1. /\ OnlyMoved(u) /\ Kept /\ rts' = rts
        /\ \/ call[u].pc = "build"
           \/ call[u].pc = "fetch" /\ call[u].todo = {}
        /\ call'[u].pc = "page"
        /\ SameRequest(call[u], call'[u])
        /\ call'[u].view = call[u].view
        /\ \A e \in Entries : e \in call'[u].view =>
              call'[u].cards[e] = rts[call[u].rt].quota[e]
    BY <1>10, BuildStep
  <2>2. ForcedOf(u) /\ FillOf(u)
    OBVIOUS
  <2>3. \A e \in Wanted(call[u].req, call[u].view) :
           e \in call[u].view /\ e \in Entries
    BY <1>0
  <2>4. ForcedOf(u)'
    BY <2>1, <2>2, <2>3
    DEF ForcedOf, FillOf, NewFor, Viewed, Scanned, Kept, SameRequest
  <2> QED
    BY <1>3, <2>1, <2>4
<1>11. ASSUME Configure, NEW t \in Threads PROVE ForcedOf(t)'
  <2>1. /\ call' = call /\ active' = active
        /\ \A r \in Runtimes \ {built + 1} : rts'[r] = rts[r]
    BY <1>11, ConfigureRuntimes
  <2>2. Viewed(call[t]) => rts'[call[t].rt] = rts[call[t].rt]
    BY <1>0, <1>1, <2>1
  <2> QED
    BY <1>2, <2>1, <2>2
<1>12. ASSUME Install, NEW t \in Threads PROVE ForcedOf(t)'
  <2>1. call' = call /\ active' = built + 1
    BY <1>12, InstallRuntimes
  <2>2. Viewed(call[t]) => call[t].rt # built + 1
    BY <1>0, <1>1
  <2>3. ForcedOf(t)
    OBVIOUS
  <2> QED
    BY <2>1, <2>2, <2>3 DEF ForcedOf, Viewed, Scanned
<1>13. ASSUME Shutdown, NEW t \in Threads PROVE ForcedOf(t)'
  <2>1. call' = call /\ active' = 0
    BY <1>13 DEF Shutdown
  <2>2. ForcedOf(t)
    OBVIOUS
  <2> QED
    BY <1>1, <2>1, <2>2 DEF ForcedOf, Viewed, Scanned
<1>14. ASSUME UNCHANGED <<rts, call, active>>, NEW t \in Threads PROVE ForcedOf(t)'
  BY <1>2, <1>14
<1> QED
  BY <1>4, <1>5, <1>6, <1>7, <1>8, <1>9, <1>10, <1>11, <1>12, <1>13, <1>14
  DEF Next, Handle, EditFile, Tick, vars

\* The inductive invariant holds initially.
LEMMA InitInv == Init => IInv
<1> SUFFICES ASSUME Init PROVE IInv
  OBVIOUS
<1>1. TypeOK /\ RuntimeInv /\ LockInv
  BY InitBase DEF Base
<1>2. /\ now = 1 /\ edited = 0 /\ overtaken = 0 /\ built = 0
      /\ \A r \in Runtimes : rts[r].lastScan = 0 /\ rts[r].quota = NoQuota
      /\ \A t \in Threads : /\ call[t].pc = "idle" /\ call[t].since = 0
                            /\ call[t].cards = NoQuota
  BY DEF Init, IdleCall
<1>3. ClockInv
  BY <1>2 DEF ClockInv
<1>4. ScanInv
  BY <1>2 DEF ScanInv, Scanned
<1>5. FillInv
  BY <1>2 DEF FillInv, Viewed, Scanned
<1>6. HoldInv
  BY <1>2 DEF HoldInv
<1>7. WorkInv
  BY <1>2 DEF WorkInv, Refreshing
<1>8. OwnResults
  BY <1>2 DEF OwnResults, NoQuota
<1>9. PeersInv /\ ForcedInv
  BY <1>2 DEF PeersInv, ForcedInv, Viewed, Scanned, Working
<1> QED
  BY <1>1, <1>3, <1>4, <1>5, <1>6, <1>7, <1>8, <1>9 DEF IInv

\* The inductive invariant is kept by every step: one conjunct at a time.
LEMMA NextInv == IInv /\ [Next]_vars => IInv'
<1> SUFFICES ASSUME IInv, [Next]_vars PROVE IInv'
  OBVIOUS
<1>1. /\ Base /\ ClockInv /\ ScanInv /\ FillInv /\ HoldInv /\ WorkInv
      /\ OwnResults /\ PeersInv /\ ForcedInv
  BY DEF IInv, Base
<1>2. Base' /\ ClockInv' /\ HoldInv'
  BY <1>1, NextBase, NextClock, NextHold
<1>3. OwnResults'
  BY <1>1, <1>2, NextOwn
<1>4. ScanInv'
  <2>1. ListsInv /\ \A t \in Threads : SeenInv(t) /\ ReadInv(t)
    BY <1>1, ScanInvSplit
  <2>2. ListsInv' /\ \A t \in Threads : SeenInv(t)' /\ ReadInv(t)'
    BY <1>1, <2>1, NextLists, NextSeen, NextRead
  <2> QED
    BY <2>2 DEF ScanInv, ListsInv, SeenInv, ReadInv, Listed
<1>5. FillInv'
  <2>1. \A t \in Threads : FillOf(t)
    BY <1>1 DEF FillInv, FillOf
  <2>2. \A t \in Threads : FillOf(t)'
    BY <1>1, <2>1, NextFill
  <2> QED
    BY <2>2 DEF FillInv, FillOf
<1>6. WorkInv'
  <2>1. \A t \in Threads : WorkOf(t)
    BY <1>1 DEF WorkInv, WorkOf
  <2>2. \A t \in Threads : WorkOf(t)'
    BY <1>1, <2>1, NextWork
  <2> QED
    BY <2>2 DEF WorkInv, WorkOf
<1>7. PeersInv'
  <2>1. \A t, u \in Threads : PeersOf(t, u)
    BY <1>1 DEF PeersInv, PeersOf
  <2>2. \A t, u \in Threads : PeersOf(t, u)'
    BY <1>1, <2>1, NextPeers
  <2> QED
    BY <2>2 DEF PeersInv, PeersOf
<1>8. ForcedInv'
  <2>1. /\ \A t, u \in Threads : PeersOf(t, u)
        /\ \A t \in Threads : FillOf(t) /\ ForcedOf(t)
    BY <1>1 DEF PeersInv, PeersOf, FillInv, FillOf, ForcedInv, ForcedOf
  <2>2. \A t \in Threads : ForcedOf(t)'
    BY <1>1, <2>1, NextForced
  <2> QED
    BY <2>2 DEF ForcedInv, ForcedOf
<1> QED
  BY <1>2, <1>3, <1>4, <1>5, <1>6, <1>7, <1>8 DEF IInv, Base

\* The inductive invariant holds in every reachable state.
LEMMA SpecInv == Spec => []IInv
BY InitInv, NextInv, PTL DEF Spec

\* No result ever stands under another entry or outlives its configuration,
\* in a cache or in a response.
THEOREM ResultsAreOwn == Spec => []OwnResults
<1>1. IInv => OwnResults
  BY DEF IInv
<1> QED
  BY <1>1, SpecInv, PTL

\* A page shows the host's config file as it is, once the file has been left
\* alone for the time a scan may be reused (or since before a forced request),
\* although a scan reads the file some time before it is dated; only a scan
\* that an edit overtook is reused for longer, from its end.
THEOREM PagesFollowFile == Spec => []FollowsFile
<1>1. IInv => FollowsFile
  BY DEF IInv, FollowsFile, ScanInv, Viewed, Scanned
<1> QED
  BY <1>1, SpecInv, PTL

\* A request that asked for results gets one for every card it asked for,
\* unless its configuration ended meanwhile.
THEOREM AnswersAreFilled == Spec => []AnswerFilled
<1>1. IInv => AnswerFilled
  BY DEF IInv, AnswerFilled, FillInv, Viewed, Scanned
<1> QED
  BY <1>1, SpecInv, PTL

\* Two cards of a page have different places on it.
LEMMA PositionInjective ==
    ASSUME NEW S \in SUBSET Entries, NEW d \in S, NEW e \in S,
           Position(d, S) = Position(e, S)
    PROVE  d = e
<1> DEFINE Before(c) == {b \in S : DisplayRank[b] < DisplayRank[c]}
<1>0. /\ \A b \in S : DisplayRank[b] \in Nat
      /\ DisplayRank[d] = DisplayRank[e] => d = e
      /\ IsFiniteSet(S)
  BY EntriesAssumption, FS_Subset
<1>1. \A c \in S : IsFiniteSet(Before(c)) /\ Cardinality(Before(c)) \in Nat
  BY <1>0, FS_Subset, FS_CardinalityType
<1>2. ASSUME NEW b \in S, NEW c \in S, DisplayRank[b] < DisplayRank[c]
      PROVE  Cardinality(Before(b)) # Cardinality(Before(c))
  <2>1. Before(b) \subseteq Before(c) /\ b \in Before(c) /\ b \notin Before(b)
    BY <1>0, <1>2
  <2> QED
    BY <1>1, <2>1, FS_Subset
<1>3. Cardinality(Before(d)) = Cardinality(Before(e))
  BY DEF Position
<1> HIDE DEF Before
<1> QED
  BY <1>0, <1>2, <1>3

\* A request that singles a card out wants at most that one.
LEMMA SingledOutIsOne ==
    ASSUME NEW req, NEW view \in SUBSET Entries, SinglesOut(req, view),
           NEW S \in SUBSET Wanted(req, view)
    PROVE  Cardinality(S) <= 1
<1>1. \A d, e \in S : d = e
  BY PositionInjective DEF Wanted
<1>2. S = {} \/ \E e : S = {e}
  BY <1>1
<1>3. CASE S = {}
  BY <1>3, FS_EmptySet
<1>4. CASE \E e : S = {e}
  <2>1. Cardinality(S) = 1
    BY <1>4, FS_Singleton
  <2> QED
    BY <2>1
<1> QED
  BY <1>2, <1>3, <1>4

\* A request that shows some card fetches nothing but cards it shows, and
\* only the one it singles out, however many requests are under way.
THEOREM WorkIsScoped == Spec => []ScopedWork
<1>1. IInv => ScopedWork
  <2> SUFFICES ASSUME IInv, NEW t \in Threads,
                      Refreshing(call[t]), call[t].view # {}
               PROVE  /\ call[t].todo \subseteq call[t].view
                      /\ SinglesOut(call[t].req, call[t].view) =>
                            Cardinality(call[t].todo) <= 1
    BY DEF ScopedWork
  <2>1. call[t].todo \subseteq Wanted(call[t].req, call[t].view)
    BY DEF IInv, WorkInv
  <2>2. call[t].view \in SUBSET Entries
    BY DEF IInv, TypeOK, Call
  <2> QED
    BY <2>1, <2>2, WantedSubset, SingledOutIsOne
<1> QED
  BY <1>1, SpecInv, PTL

\* A forced refresh answers with quotas that were fetched for it or later, or
\* by a request that was under way when it came in, however many requests race
\* for the same cards: never with one that was cached before all of them.
THEOREM ForcedIsNew == Spec => []ForcedShowsNew
<1>1. IInv => ForcedShowsNew
  BY DEF IInv, ForcedInv, ForcedShowsNew, Viewed, Scanned
<1> QED
  BY <1>1, SpecInv, PTL

\* No step changes the cache of a runtime that is not active before and after.
LEMMA StepRetired == Base /\ [Next]_vars => [RetiredKept]_vars
<1> SUFFICES ASSUME Base, Next PROVE RetiredKept
  OBVIOUS
<1>1. ASSUME (\E t \in Threads : StampScan(t)) \/ Install PROVE RetiredKept
  BY <1>1, StampRuntimes, InstallRuntimes, EndScanRuntimes DEF RetiredKept
<1>2. ASSUME NEW t \in Threads, StoreQuota(t) PROVE RetiredKept
  BY <1>2, StoreRuntimes DEF RetiredKept
<1>3. ASSUME Configure PROVE RetiredKept
  <2>1. built \in Nat /\ built + 1 > built
    BY DEF Base, TypeOK
  <2>2. built + 1 \in Runtimes => rts[built + 1].quota = NoQuota
    BY <2>1 DEF Base, RuntimeInv
  <2> QED
    BY <1>3, <2>2, ConfigureRuntimes DEF RetiredKept
<1>4. ASSUME rts' = rts PROVE RetiredKept
  BY <1>4 DEF RetiredKept
<1> QED
  BY <1>1, <1>2, <1>3, <1>4
  DEF Next, Handle, Shutdown, EditFile, Tick, Receive, RescanHostConfig,
      SelectPageView, RefreshBegin, CheckFresh, FetchOneQuota, BuildPageData, Respond

\* The cache of a configuration that is over never changes again.
THEOREM RetiredCachesFrozen == Spec => RetiredFrozen
BY SpecBase, StepRetired, PTL DEF Spec, RetiredFrozen
-----------------------------------------------------------------------------
(* Refinement                                                              *)

\* The initial states are initial states of the board.
LEMMA BoardInit == Init => Board!Init
BY DEF Init, Board!Init, Board!Empty, NoQuota

\* Every step is a step of the board, or leaves the board as it is.
LEMMA BoardStep == Base /\ HoldInv /\ [Next]_vars => [Board!Next]_Board!vars
<1> SUFFICES ASSUME Base, HoldInv, [Next]_vars PROVE [Board!Next]_Board!vars
  OBVIOUS
<1> DEFINE board == IF active = 0 THEN NoQuota ELSE rts[active].quota
<1>0. /\ built \in Nat /\ active \in 0 .. MaxRuntimes
      /\ active # 0 => active \in Runtimes /\ active <= built
  BY DEF Base, TypeOK, RuntimeInv, Runtimes
\* Steps that leave the board alone.
<1>1. ASSUME UNCHANGED <<active, built>>,
             \A r \in Runtimes : rts'[r].quota = rts[r].quota
      PROVE  UNCHANGED Board!vars
  BY <1>0, <1>1 DEF Board!vars
<1>2. ASSUME NEW t \in Threads, StampScan(t) PROVE UNCHANGED Board!vars
  <2>1. \A r \in Runtimes : rts'[r].quota = rts[r].quota
    BY <1>2, StampRuntimes, EndScanRuntimes
  <2> QED
    BY <1>1, <1>2, <2>1, StampStep DEF Kept
<1>3. ASSUME NEW t \in Threads, StoreQuota(t) PROVE [Board!Next]_Board!vars
  <2> DEFINE r == call[t].rt
             x == call[t].cur
  <2>1. /\ Kept /\ x \in Result /\ x.gen = r /\ r \in Runtimes /\ r # 0
    BY <1>3, StoreStep, WorkingRuntime DEF HoldInv, Working, Runtimes
  <2>2. /\ active # r => rts' = rts
        /\ active = r => rts'[r].quota = [rts[r].quota EXCEPT ![x.key] = x]
    BY <1>3, StoreRuntimes
  <2> HIDE DEF r, x
  <2>3. CASE active # r
    BY <1>1, <2>1, <2>2, <2>3 DEF Kept
  <2>4. CASE active = r
    <3>1. /\ x.key \in Entries /\ x.fetchedAt \in Times
          /\ x = [key |-> x.key, gen |-> r, fetchedAt |-> x.fetchedAt]
      BY <2>1 DEF Result
    <3>2. Board!Publish(x.key)
      BY <2>1, <2>2, <2>4, <3>1 DEF Board!Publish, Kept
    <3> QED
      BY <3>1, <3>2 DEF Board!Next
  <2> QED
    BY <2>3, <2>4
<1>4. ASSUME Install PROVE Board!Next
  <2>1. /\ built + 1 \in Runtimes /\ built' = built + 1 /\ active' = built + 1
        /\ rts'[built + 1].quota = NoQuota
    BY <1>4, InstallRuntimes
  <2>2. /\ built + 1 \in Runtimes \ (1 .. built)
        /\ 1 .. built' = (1 .. built) \cup {built + 1}
        /\ built + 1 # 0
    BY <1>0, <2>1
  <2>3. Board!Begin
    BY <2>1, <2>2 DEF Board!Begin, Board!Empty, NoQuota
  <2> QED
    BY <2>3 DEF Board!Next
\* A runtime in preparation is not on display yet.
<1>7. ASSUME Configure PROVE UNCHANGED Board!vars
  <2>1. /\ UNCHANGED <<active, built>>
        /\ \A r \in Runtimes \ {built + 1} : rts'[r] = rts[r]
    BY <1>7, ConfigureRuntimes
  <2>2. active # built + 1
    BY <1>0 DEF Base, RuntimeInv
  <2> QED
    BY <1>0, <2>1, <2>2 DEF Board!vars
<1>5. ASSUME Shutdown PROVE Board!Next
  <2>1. active' = 0 /\ built' = built
    BY <1>5 DEF Shutdown
  <2>2. Board!End
    BY <2>1 DEF Board!End, Board!Empty, NoQuota
  <2> QED
    BY <2>2 DEF Board!Next
<1>6. ASSUME UNCHANGED <<rts, active, built>> PROVE UNCHANGED Board!vars
  BY <1>6 DEF Board!vars
<1> QED
  BY <1>2, <1>3, <1>4, <1>5, <1>6, <1>7
  DEF Next, Handle, EditFile, Tick, vars, Shared, World, Lock, Receive,
      RescanHostConfig, SelectPageView, RefreshBegin, CheckFresh,
      FetchOneQuota, BuildPageData, Respond

\* The server implements the board: what it caches for the configuration on
\* display changes only by publishing a fresh result of that configuration,
\* one card at a time, and starts empty.
THEOREM BoardImplemented == Spec => ImplementsBoard
<1>1. IInv => Base /\ HoldInv
  BY DEF IInv, Base
<1> QED
  BY <1>1, SpecInv, BoardInit, BoardStep, PTL
  DEF Spec, ImplementsBoard, Board!Spec
=============================================================================
