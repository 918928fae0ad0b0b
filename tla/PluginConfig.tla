----------------------------- MODULE PluginConfig ----------------------------
(***************************************************************************)
(* The plugin's own configuration (config.go): what normalizeAndValidate   *)
(* makes of what the host hands over, and what it refuses.                 *)
(*                                                                         *)
(* A URL is the sequence of its "/"-separated parts, without the blanks    *)
(* around it; "" is the empty part behind a trailing slash, <<>> no URL.   *)
(* Of other texts, Trimmed is what strings.TrimSpace leaves.  The field    *)
(* "auth" is left out: nothing in the plugin reads it.  So is "admin-key", *)
(* which only says with which key the vendor is asked.                     *)
(***************************************************************************)
EXTENDS Integers, FiniteSets, Sequences, SequencesExt, Filtering

CONSTANTS Nil,       \* nil: nothing of the kind
          Trimmed    \* texts without the blanks around them

ASSUME TrimAssumption == \A t \in DOMAIN Trimmed : Trimmed[Trimmed[t]] = Trimmed[t]

Kinds == {"percent-windows", "balance", "grants", "coding-plan", "zhipu-plan",
          "cline-plan", "commandcode-plan"}

Source(id, name, patterns, url, kind) ==
    [id |-> id, name |-> name, patterns |-> patterns, url |-> url, kind |-> kind]

\* A source as it is decoded.
WrittenSource == [id : STRING, name : STRING, patterns : Seq(Seq(STRING)),
                  url : Seq(STRING), kind : STRING]

\* Without the empty parts at the end.
NormalizeBaseURL(u) ==
    SubSeq(u, 1, Max({i \in DOMAIN u : u[i] # ""} \cup {0}))

DefaultSources == <<
    Source("opencode", "OpenCode Go",
           <<<<"opencode.ai", "zen", "go", "v1">>>>,
           <<"opencode.ai", "zen", "go", "v1", "usage">>, "percent-windows"),
    Source("deepseek", "Deepseek API",
           <<<<"api.deepseek.com">>, <<"api.deepseek.com", "anthropic">>>>,
           <<"api.deepseek.com", "user", "balance">>, "balance"),
    Source("minimax", "MiniMax",
           <<<<"www.minimaxi.com">>, <<"api.minimaxi.com", "v1">>>>,
           <<"www.minimaxi.com", "v1", "api", "openplatform", "coding_plan",
             "remains">>, "coding-plan"),
    Source("zhipu", "Zhipu CodingPlan",
           <<<<"open.bigmodel.cn", "api", "anthropic">>,
             <<"open.bigmodel.cn", "api", "coding", "paas", "v4">>,
             <<"open.bigmodel.cn", "api", "v1">>>>,
           <<"open.bigmodel.cn", "api", "monitor", "usage", "quota", "limit">>,
           "zhipu-plan"),
    Source("cline", "Cline Pass",
           <<<<"api.cline.bot">>>>,
           <<"api.cline.bot", "api", "v1", "users", "me", "plan", "usage-limits">>,
           "cline-plan"),
    Source("commandcode", "Command Code",
           <<<<"api.commandcode.ai">>>>,
           <<"api.commandcode.ai", "alpha", "billing", "credits">>,
           "commandcode-plan")>>

DefaultPath == "/CLIProxyAPI/config.yaml"
DefaultTTL  == 300

\* What is required of a source, before it is normalised: an empty list of
\* patterns is refused, one of nothing but blank patterns is not.
Complete(src) ==
    /\ Trimmed[src.id] # ""
    /\ src.patterns # <<>>
    /\ src.url # <<>>
    /\ Trimmed[src.kind] \in Kinds

NormalSource(src) ==
    LET id    == Trimmed[src.id]
        name  == Trimmed[src.name]
        norms == [i \in DOMAIN src.patterns |-> NormalizeBaseURL(src.patterns[i])]
    IN  Source(id, IF name = "" THEN id ELSE name,
               Only(norms, ToSet(norms) \ {<<>>}), src.url, Trimmed[src.kind])

\* Slip: ids are compared before they are trimmed.
DistinctAsWritten(srcs) == IsInjective([i \in DOMAIN srcs |-> srcs[i].id])

\* No id is duplicated.
Distinct(srcs) == IsInjective([i \in DOMAIN srcs |-> Trimmed[srcs[i].id]])

\* normalizeAndValidate: the configuration to run with, or Nil if there is
\* an error.
NormalizeAndValidate(cfg) ==
    LET path == Trimmed[cfg.path]
        srcs == IF cfg.sources = <<>> THEN DefaultSources ELSE cfg.sources
    IN  IF Distinct(srcs) /\ \A i \in DOMAIN srcs : Complete(srcs[i])
        THEN [path    |-> IF path = "" THEN DefaultPath ELSE path,
              ttl     |-> IF cfg.ttl <= 0 THEN DefaultTTL ELSE cfg.ttl,
              sources |-> [i \in DOMAIN srcs |-> NormalSource(srcs[i])]]
        ELSE Nil
=============================================================================
