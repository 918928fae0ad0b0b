-------------------------------- MODULE Plugin -------------------------------
(***************************************************************************)
(* The plugin as the host sees it through its C interface (main.go), and   *)
(* the host as the plugin sees it.                                         *)
(*                                                                         *)
(* The host loads the plugin with a table of its own functions, calls it   *)
(* with a method and a request, and gives every reply back to be freed.    *)
(* To look a quota up the plugin calls the host in turn (callHostBridge):  *)
(* whatever that brings - no buffer, an empty one, garbage, a refusal, a   *)
(* code that contradicts its envelope - QuotaFetch goes on with a body or  *)
(* with none.                                                              *)
(*                                                                         *)
(* One call is followed from its begin to its end, with the memory that    *)
(* crosses the border; the host may unload the plugin meanwhile.           *)
(* PanelServer has the calls side by side, without the border.             *)
(***************************************************************************)
EXTENDS PluginConfig

CONSTANTS Malformed,    \* what does not decode
          Empty,        \* a buffer of no bytes
          NaN, PosInf, NegInf,    \* the floats that are no numbers
          Hosts,        \* the tables the host may load the plugin with, or Nil
          RawConfigs,   \* the configurations the host may hand over
          Bodies,       \* what the vendors of each kind may answer
          PlanBodies,   \* what Command Code may answer to the second request
          Catalog       \* as in QuotaFetch

\* The kinds of sources whose answers have a parser in parseQuotaPayload.
Parsers == {"percent-windows", "balance", "coding-plan", "grants", "zhipu-plan",
            "cline-plan", "commandcode-plan"}

ASSUME BodiesAssumption ==
    /\ DOMAIN Bodies = Parsers
    /\ \A id \in DOMAIN Catalog : Catalog[id] \in Nat \ {0}

ASSUME HostsAssumption == Hosts \subseteq {Nil} \cup [calls : BOOLEAN, frees : BOOLEAN]

\* PluginConfig as it is decoded.
ASSUME ConfigsAssumption ==
    RawConfigs \subseteq [path : STRING, ttl : Int, sources : Seq(WrittenSource)]

ASSUME FloatsAssumption ==
    /\ NaN \notin {PosInf, NegInf} \cup Int
    /\ PosInf \notin {NegInf} \cup Int /\ NegInf \notin Int

\* Command Code's first answer as it is decoded: flexFloat amounts, and limits.
Optional(S) == {Nil} \cup S
Money       == [set : BOOLEAN, value : {NaN, PosInf, NegInf} \cup Int]
Limitations == LET limit == [used : Money, cap : Money, resetsAt : Int]
               IN  [rolling : Optional(limit), weekly : Optional(limit)]

ASSUME CommandCodeAssumption ==
    /\ Bodies["commandcode-plan"] \subseteq
          [limits : Optional(Limitations),
           credits : Optional([monthly : Money, purchased : Money, free : Money,
                               granted : Money, limits : Optional(Limitations)])]
    /\ \A b \in PlanBodies : b.data # Nil => b.data.resetsAt \in Int

\* The other answers as they are decoded; what nobody looks at is opaque.
LimitRow == [type : STRING, unit : Int, percent : Int, resetsAt : Int]

ASSUME VendorsAssumption ==
    /\ \A k \in {"balance", "coding-plan", "grants"} :
          \A b \in Bodies[k] : b \in Seq(ToSet(b))
    /\ Bodies["zhipu-plan"] \subseteq [code : Int, rows : Seq(LimitRow)]
    /\ Bodies["cline-plan"] \subseteq [success : BOOLEAN, rows : Optional(Seq(LimitRow))]

VARIABLES loaded,     \* was the plugin initialised?
          stored,     \* stored_host
          active,     \* the configuration of the active runtime, Nil for none
          call,       \* the call under way
          answer,     \* what the host's callback answered
          held,       \* memory of the C heap that someone has still to free
          kind, path, step, body, out   \* the lookup (QuotaFetch)

Q == INSTANCE QuotaFetch

ASSUME PercentWindowsAssumption ==
    Bodies["percent-windows"] \subseteq
        [Q!WindowKeys -> [percent : Int, resetsAt : Int]]

\* What is there is not nil.
ASSUME NilAssumption ==
    /\ \A K \in SUBSET Q!WindowKeys : Nil \notin [K -> Q!Window]
    /\ \A b \in Bodies["balance"] : Nil \notin {0} \cup ToSet(b)
    /\ Nil \notin [monthly : Q!Floats, purchased : Q!Floats, free : Q!Floats,
                   granted : Q!Floats, plan : Optional(DOMAIN Catalog)]

lookup == <<kind, path, step, body, out>>
vars   == <<loaded, stored, active, call, answer, held, lookup>>

Idle == [pc |-> "idle", wants |-> FALSE, rc |-> 0, ok |-> FALSE]
Busy == [Idle EXCEPT !.pc = "lookup"]

NoAnswer == [code |-> 0, buffer |-> Nil]

Init ==
    /\ loaded = FALSE /\ stored = Nil /\ active = Nil
    /\ call = Idle /\ answer = NoAnswer /\ held = {}
    /\ kind = "grants" /\ path = <<>> /\ step = "done"
    /\ body = Nil /\ out = Q!Failed

\* cliproxy_plugin_init: without a table to fill in, nothing is done.
PluginInit ==
    /\ ~ loaded
    /\ loaded' = TRUE
    /\ stored' \in Hosts
    /\ UNCHANGED <<active, call, answer, held, lookup>>
-----------------------------------------------------------------------------
(* Calls of the host                                                       *)

\* cliproxyPluginCall is done: the code, and whether the envelope says "ok".
\* writeResponse puts it in memory of its own, if the host wants a reply.
Reply(wants, rc, ok) ==
    /\ call' = [pc |-> "reply", wants |-> wants, rc |-> rc, ok |-> ok]
    /\ held' = held \cup IF wants THEN {"reply"} ELSE {}

\* Slip: the runtime is replaced before the configuration is looked at.
ConfigureFirst(raw, wants) ==
    LET cfg == IF raw = Malformed THEN Nil ELSE NormalizeAndValidate(raw)
    IN  /\ active' = cfg
        /\ Reply(wants, IF cfg = Nil THEN 1 ELSE 0, cfg # Nil)
        /\ UNCHANGED <<answer, lookup>>

\* plugin.register and plugin.reconfigure.
Configure(raw, wants) ==
    LET cfg == IF raw = Malformed THEN Nil ELSE NormalizeAndValidate(raw)
    IN  /\ active' = IF cfg = Nil THEN active ELSE cfg
        /\ Reply(wants, IF cfg = Nil THEN 1 ELSE 0, cfg # Nil)
        /\ UNCHANGED <<answer, lookup>>

\* No method; management.register; a method that is not known.
OtherCall(wants) ==
    /\ \/ Reply(wants, 1, FALSE) \/ Reply(wants, 0, TRUE) \/ Reply(wants, 0, FALSE)
    /\ UNCHANGED <<active, answer, lookup>>

\* management.handle that is answered out of hand: it does not decode, there
\* is no runtime (503), the path is another one (404), or no quota is needed.
AnswerAtOnce(wants) ==
    /\ \/ Reply(wants, 0, FALSE) \/ Reply(wants, 0, TRUE)
    /\ UNCHANGED <<active, answer, lookup>>

\* management.handle for which one entry of a source has to be looked up.
StartLookup ==
    /\ active # Nil
    /\ \E src \in ToSet(active.sources) : Q!Begin(src.kind, Tail(src.url))
    /\ call' = Busy
    /\ UNCHANGED <<active, answer, held>>

\* The host calls.
HostCalls ==
    /\ loaded /\ call = Idle
    /\ \/ \E wants \in BOOLEAN :
             \/ \E raw \in RawConfigs \cup {Malformed} : Configure(raw, wants)
             \/ OtherCall(wants) \/ AnswerAtOnce(wants)
       \/ StartLookup
    /\ UNCHANGED <<loaded, stored>>

\* The lookup is over; its card is in the reply, be it with an error.
EndLookup ==
    /\ call = Busy /\ step = "done"
    /\ \E wants \in BOOLEAN : Reply(wants, 0, TRUE)
    /\ answer' = NoAnswer
    /\ kind' = "grants" /\ path' = <<>> /\ step' = "done"
    /\ body' = Nil /\ out' = Q!Failed
    /\ UNCHANGED <<loaded, stored, active>>

\* The host has read the reply, and cliproxyPluginFree frees it.
FreeReply ==
    /\ call.pc = "reply"
    /\ call' = Idle
    /\ held' = held \ {"reply"}
    /\ UNCHANGED <<loaded, stored, active, answer, lookup>>

\* cliproxyPluginShutdown, at any time; the host's table is kept.
Shutdown ==
    /\ active # Nil
    /\ active' = Nil
    /\ UNCHANGED <<loaded, stored, call, answer, held, lookup>>
-----------------------------------------------------------------------------
(* Calls of the plugin: callHostBridge                                     *)

\* host.http.do: what comes back from the host, with the vendor's answer in
\* it or with anything else.
Envelope(ok, result) == [ok |-> ok, result |-> result]

Results(bodies) ==
    {Nil, Malformed}
    \cup {[status |-> s, body |-> Malformed] : s \in {200, 500}}
    \cup {[status |-> 200, body |-> b] : b \in bodies}

Buffers(bodies) ==
    {Nil, Empty, Malformed, Envelope(FALSE, Nil)}
    \cup {Envelope(TRUE, r) : r \in Results(bodies)}

\* The code contradicts the envelope as well (with one body, which will do).
Answers(bodies) ==
    [code : {0}, buffer : Buffers(bodies)]
    \cup [code : {1}, buffer : Buffers({CHOOSE b \in bodies : TRUE})]

Asked == IF step = "plan" THEN PlanBodies ELSE Bodies[kind]

\* The name of the method and the request are copied to the C heap.  Without
\* a host, or one that takes no calls, there is a code and nothing else.
CallHost ==
    /\ call = Busy /\ step # "done"
    /\ call' = [call EXCEPT !.pc = "away"]
    /\ answer' \in IF stored # Nil /\ stored.calls THEN Answers(Asked)
                   ELSE {[code |-> 1, buffer |-> Nil]}
    /\ held' = held \cup {"method", "payload"}
                    \cup IF answer'.buffer = Nil THEN {} ELSE {"buffer"}
    /\ UNCHANGED <<loaded, stored, active, lookup>>

\* Slip: the code is not looked at when there is an envelope.
SucceededAnyCode(a) ==
    /\ a.buffer \notin {Nil, Empty, Malformed}
    /\ a.buffer.ok

\* An envelope that decodes and says ok, and a code that does not object.
Succeeded(a) ==
    /\ a.buffer \notin {Nil, Empty, Malformed}
    /\ a.buffer.ok
    /\ a.code = 0

\* What the lookup goes on with: a body with status 200, or Nil.
BodyOf(a) ==
    IF ~ Succeeded(a) THEN Nil
    ELSE IF a.buffer.result \in {Nil, Malformed} THEN Nil
    ELSE IF a.buffer.result.status # 200 THEN Nil
    ELSE a.buffer.result.body

CanFree == stored # Nil /\ stored.frees

\* Slip: what cannot be used is not freed.
ReturnEarly ==
    /\ call.pc = "away"
    /\ call' = Busy
    /\ held' = held \ (IF CanFree /\ Succeeded(answer) THEN {"method", "payload", "buffer"}
                       ELSE {"method", "payload"})
    /\ Q!FirstAnswer(BodyOf(answer)) \/ Q!SecondAnswer(BodyOf(answer))
    /\ UNCHANGED <<loaded, stored, active, answer>>

\* The buffer is copied and freed, if the host can, before it is decoded; the
\* method and the request are freed on every way out.
Return ==
    /\ call.pc = "away"
    /\ call' = Busy
    /\ held' = held \ (IF CanFree THEN {"method", "payload", "buffer"}
                       ELSE {"method", "payload"})
    /\ Q!FirstAnswer(BodyOf(answer)) \/ Q!SecondAnswer(BodyOf(answer))
    /\ UNCHANGED <<loaded, stored, active, answer>>

Next ==
    \/ PluginInit \/ HostCalls \/ EndLookup \/ FreeReply \/ Shutdown
    \/ CallHost \/ Return

Spec == Init /\ [][Next]_vars
-----------------------------------------------------------------------------
(* Properties                                                              *)

\* Every variable has its type; percentages of numbers are percentages.
TypeOK ==
    /\ stored \in Hosts \cup {Nil}
    /\ call.pc \in {"idle", "lookup", "away", "reply"}
    /\ held \subseteq {"method", "payload", "buffer", "reply"}
    /\ kind \in Parsers
    /\ Q!TypeOK

\* Every card says something when its lookup is over, and "no data" only when
\* the vendor said so (QuotaFetch): whatever the host's callback did.
CardSpeaks == Q!CardSpeaks

\* Zhipu's rows get the windows that they name, or are left (QuotaFetch).
ZhipuWindowsRight == Q!ZhipuWindowsRight

\* Command Code's monthly window is no invention (QuotaFetch).
MonthlyNotInvented == Q!MonthlyNotInvented

\* The second lookup only adds to the card (QuotaFetch), whatever the host's
\* second callback did.
SecondOnlyAdds == [][call.pc = "away" => Q!OnlyAdds]_vars

\* What validation lets pass, the rest can work with: there are sources, each
\* with a place of its own in the tabs and in the cache, whose answers have a
\* parser, and with patterns that can match (normalizeAndValidate,
\* parseQuotaPayload, matchBaseURL).
RuntimeSound ==
    active # Nil =>
        /\ active.ttl > 0 /\ active.path # "" /\ active.sources # <<>>
        /\ \A i, j \in DOMAIN active.sources :
              active.sources[i].id = active.sources[j].id => i = j
        /\ \A src \in ToSet(active.sources) :
              /\ src.kind \in Parsers
              /\ "" \notin {src.id, src.name}
              /\ \A u \in ToSet(src.patterns) : u # <<>> /\ Last(u) # ""

\* The host knows what it runs: the runtime changes in a call that is
\* answered with success or when the plugin is unloaded, and a call that
\* reports an error leaves it alone (configure, cliproxyPluginCall).
ErrorsChangeNothing ==
    [][active' # active =>
          \/ call = Idle /\ call'.pc = "reply" /\ call'.rc = 0 /\ call'.ok
          \/ call' = call /\ active' = Nil]_vars

\* No memory of a callback outlives it, on any way out of it, except buffers
\* of a host that gave no function to free them with; and the memory of a
\* reply is the host's to free (callHostBridge, writeResponse).
NothingLeaks ==
    /\ call.pc # "away" =>
          /\ held \cap {"method", "payload"} = {}
          /\ "buffer" \in held => ~ CanFree
    /\ "reply" \in held <=> call.pc = "reply" /\ call.wants

\* What a card shows comes from a vendor's answer that the host passed on
\* without any reservation: status, envelope and code all say success.
OnlySuccessIsShown ==
    [][call.pc = "away" /\ out' # out /\ ~ out'.err =>
          /\ answer.code = 0
          /\ answer.buffer.ok /\ answer.buffer.result.status = 200]_vars
=============================================================================
