-------------------------- MODULE PluginConfigProofs -------------------------
(***************************************************************************)
(* What normalizeAndValidate makes of a configuration, for all of them:    *)
(* sources that the rest of the plugin can work with.                      *)
(***************************************************************************)
EXTENDS PluginConfig, FilteringProofs

(* URLs                                                                    *)

\* Of a set of indices and 0, Max is the largest.
LEMMA LargestIndex ==
    ASSUME NEW n \in Nat, NEW T \in SUBSET (1 .. n)
    PROVE  /\ Max(T \cup {0}) \in T \cup {0}
           /\ \A j \in T \cup {0} : Max(T \cup {0}) >= j
<1> DEFINE gaps == {n - i : i \in T \cup {0}}
<1>1. gaps \in SUBSET Nat /\ gaps # {}
  OBVIOUS
<1>2. PICK g \in gaps : \A h \in gaps : g <= h
  BY <1>1, Least
<1>3. PICK i \in T \cup {0} : g = n - i
  BY <1>2
<1>4. ASSUME NEW j \in T \cup {0} PROVE i >= j
  <2>1. n - j \in gaps
    OBVIOUS
  <2>2. n - i <= n - j
    BY <1>2, <1>3, <2>1
  <2>3. i \in Nat /\ j \in Nat
    OBVIOUS
  <2> QED
    BY <2>2, <2>3
<1> QED
  BY <1>4 DEF Max

\* What is left of a URL is its beginning; the rest is empty.  Nothing is
\* left, or the last part is not empty.
LEMMA NormalURL ==
    ASSUME NEW A, NEW u \in Seq(A)
    PROVE  /\ NormalizeBaseURL(u) \in Seq(A)
           /\ NormalizeBaseURL(u) # <<>> => Last(NormalizeBaseURL(u)) # ""
           /\ Len(NormalizeBaseURL(u)) \in 0 .. Len(u)
           /\ \A i \in 1 .. Len(NormalizeBaseURL(u)) : NormalizeBaseURL(u)[i] = u[i]
           /\ \A i \in Len(NormalizeBaseURL(u)) + 1 .. Len(u) : u[i] = ""
<1> DEFINE parts == {i \in DOMAIN u : u[i] # ""}
           m == Max(parts \cup {0})
           v == NormalizeBaseURL(u)
<1>1. /\ Len(u) \in Nat /\ DOMAIN u = 1 .. Len(u)
      /\ \A i \in 1 .. Len(u) : u[i] \in A
  BY LenProperties, ElementOfSeq
<1>2. parts \in SUBSET (1 .. Len(u))
  BY <1>1
<1>3. v = SubSeq(u, 1, m)
  BY DEF NormalizeBaseURL
<1>4. m \in parts \cup {0}
  BY <1>1, <1>2, LargestIndex, Zenon
<1>5. m \in parts => u[m] # ""
  BY Zenon
<1> HIDE DEF m, v, parts
<1>6. m \in 0 .. Len(u)
  BY <1>1, <1>2, <1>4
<1>7. \A i \in 1 .. m : u[i] \in A
  BY <1>1, <1>6
<1>8. v \in Seq(A) /\ Len(v) = m /\ \A i \in 1 .. m : v[i] = u[i]
  BY <1>3, <1>6, <1>7, SubSeqProperties
<1>9. v # <<>> => m # 0
  BY <1>8, EmptySeq
<1>10. v # <<>> => Last(v) # ""
  <2> SUFFICES ASSUME v # <<>> PROVE v[m] # ""
    BY <1>8 DEF Last
  <2>1. m # 0 /\ m \in 1 .. m
    BY <1>6, <1>9
  <2> QED
    BY <1>4, <1>5, <1>8, <2>1
<1>11. ASSUME NEW i \in m + 1 .. Len(u) PROVE u[i] = ""
  <2>1. \A j \in parts \cup {0} : m >= j
    BY <1>1, <1>2, LargestIndex DEF m
  <2>2. i \in 1 .. Len(u) /\ ~ (m >= i)
    BY <1>1, <1>6
  <2>3. i \notin parts
    BY <2>1, <2>2
  <2> QED
    BY <1>1, <2>2, <2>3 DEF parts
<1> QED
  BY <1>6, <1>8, <1>10, <1>11 DEF v

\* A list with one value for each element of a list.
LEMMA OneEach ==
    ASSUME NEW A, NEW s \in Seq(A), NEW B, NEW f, f = [i \in DOMAIN s |-> f[i]],
           \A i \in DOMAIN s : f[i] \in B
    PROVE  f \in Seq(B) /\ Len(f) = Len(s) /\ DOMAIN f = DOMAIN s
<1>1. Len(s) \in Nat /\ DOMAIN s = 1 .. Len(s)
  BY LenProperties
<1>2. f \in [1 .. Len(s) -> B]
  BY <1>1
<1>3. f \in Seq(B)
  BY <1>1, <1>2, SeqDef
<1>4. Len(f) \in Nat /\ DOMAIN f = 1 .. Len(f)
  BY <1>3, LenProperties
<1> QED
  BY <1>1, <1>2, <1>3, <1>4

\* The patterns of a source are a list of lists.
Written(src) == \E A : src.patterns \in Seq(Seq(A))

\* What a source is good for once it is normalised.
Usable(src) ==
    /\ src.kind \in Kinds
    /\ "" \notin {src.id, src.name}
    /\ \A u \in ToSet(src.patterns) : u # <<>> /\ Last(u) # ""

\* A source that is complete is usable once it is normalised.
LEMMA NormalUsable ==
    ASSUME NEW src, Written(src), Complete(src)
    PROVE  /\ NormalSource(src).id = Trimmed[src.id]
           /\ Usable(NormalSource(src)) /\ Written(NormalSource(src))
<1> DEFINE norms == [i \in DOMAIN src.patterns |-> NormalizeBaseURL(src.patterns[i])]
           wanted == ToSet(norms) \ {<<>>}
           left == Only(norms, wanted)
<1>1. PICK A : src.patterns \in Seq(Seq(A))
  BY DEF Written
<1> DEFINE pats == src.patterns
           Url == Seq(A)
<1> HIDE DEF Url
<1>2. \A i \in DOMAIN pats :
         /\ NormalizeBaseURL(pats[i]) \in Url
         /\ NormalizeBaseURL(pats[i]) # <<>> => Last(NormalizeBaseURL(pats[i])) # ""
  <2> SUFFICES ASSUME NEW i \in DOMAIN pats
               PROVE  /\ NormalizeBaseURL(pats[i]) \in Url
                      /\ NormalizeBaseURL(pats[i]) # <<>> =>
                             Last(NormalizeBaseURL(pats[i])) # ""
    OBVIOUS
  <2>1. pats[i] \in Url
    BY <1>1, ElementOfSeq, LenProperties, Zenon DEF Url
  <2> QED
    BY <2>1, NormalURL, Zenon DEF Url
<1>3. norms \in Seq(Url) /\ Len(norms) \in Nat /\ DOMAIN norms = DOMAIN pats
      /\ \A i \in DOMAIN norms : norms[i] = NormalizeBaseURL(pats[i])
  <2>1. norms = [i \in DOMAIN pats |-> norms[i]]
    OBVIOUS
  <2>2. \A i \in DOMAIN pats : norms[i] \in Url
    BY <1>2
  <2>3. pats \in Seq(Url)
    BY <1>1 DEF Url
  <2> HIDE DEF norms, pats
  <2>4. norms \in Seq(Url) /\ DOMAIN norms = DOMAIN pats
    BY <2>1, <2>2, <2>3, OneEach
  <2> USE DEF norms, pats
  <2> QED
    BY <2>4, LenProperties
<1> HIDE DEF norms
<1>4. \A u \in ToSet(norms) : u # <<>> => Last(u) # ""
  BY <1>2, <1>3 DEF ToSet
<1>5. left \in Seq(Url) /\ Elements(left) = Elements(norms) \cap wanted
  BY <1>3, OnlyKeepsWanted
<1>6. ToSet(left) = Elements(left)
  BY <1>5, LenProperties DEF ToSet, Elements
<1>7. \A u \in ToSet(left) : u # <<>> /\ Last(u) # ""
  BY <1>4, <1>5, <1>6
<1>8. NormalSource(src) =
        Source(Trimmed[src.id],
               IF Trimmed[src.name] = "" THEN Trimmed[src.id] ELSE Trimmed[src.name],
               left, src.url, Trimmed[src.kind])
  BY DEF NormalSource, norms
<1> HIDE DEF left
<1> DEFINE id == Trimmed[src.id]
           name == IF Trimmed[src.name] = "" THEN id ELSE Trimmed[src.name]
<1>9. id # "" /\ name # "" /\ Trimmed[src.kind] \in Kinds
  BY DEF Complete
<1> HIDE DEF id, name
<1>10. NormalSource(src) = [id |-> id, name |-> name, patterns |-> left,
                            url |-> src.url, kind |-> Trimmed[src.kind]]
  BY <1>8 DEF Source, id, name
<1>11. /\ NormalSource(src).id = id /\ NormalSource(src).name = name
       /\ NormalSource(src).patterns = left
       /\ NormalSource(src).kind = Trimmed[src.kind]
  BY <1>10
<1>12. Usable(NormalSource(src))
  BY <1>7, <1>9, <1>11, Zenon DEF Usable
<1>13. Written(NormalSource(src))
  BY <1>5, <1>11, Zenon DEF Written, Url
<1> QED
  BY <1>11, <1>12, <1>13 DEF id

\* The defaults are written like that.
LEMMA DefaultsWritten ==
    /\ \E S : DefaultSources \in Seq(S)
    /\ DefaultSources # <<>>
    /\ \A i \in DOMAIN DefaultSources : Written(DefaultSources[i])
<1> DEFINE T == {"opencode.ai", "zen", "go", "v1", "api.deepseek.com", "anthropic",
                 "www.minimaxi.com", "api.minimaxi.com", "open.bigmodel.cn", "api",
                 "coding", "paas", "v4", "api.cline.bot", "api.commandcode.ai"}
<1>1. /\ <<"opencode.ai", "zen", "go", "v1">> \in Seq(T)
      /\ <<"api.deepseek.com">> \in Seq(T)
      /\ <<"api.deepseek.com", "anthropic">> \in Seq(T)
      /\ <<"www.minimaxi.com">> \in Seq(T)
      /\ <<"api.minimaxi.com", "v1">> \in Seq(T)
      /\ <<"open.bigmodel.cn", "api", "anthropic">> \in Seq(T)
      /\ <<"open.bigmodel.cn", "api", "coding", "paas", "v4">> \in Seq(T)
      /\ <<"open.bigmodel.cn", "api", "v1">> \in Seq(T)
      /\ <<"api.cline.bot">> \in Seq(T)
      /\ <<"api.commandcode.ai">> \in Seq(T)
  OBVIOUS
<1>2. \A a, b, c \in Seq(T) :
         <<a>> \in Seq(Seq(T)) /\ <<a, b>> \in Seq(Seq(T)) /\ <<a, b, c>> \in Seq(Seq(T))
  <2> DEFINE U == Seq(T)
  <2> HIDE DEF U
  <2>1. \A a, b, c \in U : <<a>> \in Seq(U) /\ <<a, b>> \in Seq(U) /\ <<a, b, c>> \in Seq(U)
    OBVIOUS
  <2> QED
    BY <2>1 DEF U
<1> HIDE DEF T
<1>3. /\ DefaultSources[1].patterns \in Seq(Seq(T))
      /\ DefaultSources[2].patterns \in Seq(Seq(T))
      /\ DefaultSources[3].patterns \in Seq(Seq(T))
      /\ DefaultSources[4].patterns \in Seq(Seq(T))
      /\ DefaultSources[5].patterns \in Seq(Seq(T))
      /\ DefaultSources[6].patterns \in Seq(Seq(T))
  <2>1. DefaultSources[1].patterns \in Seq(Seq(T))
    BY <1>1, <1>2 DEF DefaultSources, Source
  <2>2. DefaultSources[2].patterns \in Seq(Seq(T))
    BY <1>1, <1>2 DEF DefaultSources, Source
  <2>3. DefaultSources[3].patterns \in Seq(Seq(T))
    BY <1>1, <1>2 DEF DefaultSources, Source
  <2>4. DefaultSources[4].patterns \in Seq(Seq(T))
    BY <1>1, <1>2 DEF DefaultSources, Source
  <2>5. DefaultSources[5].patterns \in Seq(Seq(T))
    BY <1>1, <1>2 DEF DefaultSources, Source
  <2>6. DefaultSources[6].patterns \in Seq(Seq(T))
    BY <1>1, <1>2 DEF DefaultSources, Source
  <2> QED
    BY <2>1, <2>2, <2>3, <2>4, <2>5, <2>6
<1>4. \A a, b, c, d, e, f : /\ <<a, b, c, d, e, f>> \in Seq({a, b, c, d, e, f})
                            /\ DOMAIN <<a, b, c, d, e, f>> = 1 .. 6
                            /\ <<a, b, c, d, e, f>> # <<>>
  <2> TAKE a, b, c, d, e, f
  <2>1. DOMAIN <<a, b, c, d, e, f>> = 1 .. 6 /\ <<a, b, c, d, e, f>> # <<>>
    OBVIOUS
  <2>2. <<a, b, c, d, e, f>> \in Seq({a, b, c, d, e, f})
    <3> DEFINE U == {a, b, c, d, e, f}
    <3>1. a \in U /\ b \in U /\ c \in U /\ d \in U /\ e \in U /\ f \in U
      OBVIOUS
    <3> HIDE DEF U
    <3>2. <<a, b, c, d, e, f>> \in Seq(U)
      BY <3>1
    <3> QED
      BY <3>2 DEF U
  <2> QED
    BY <2>1, <2>2
<1>5. /\ DOMAIN DefaultSources = 1 .. 6 /\ DefaultSources # <<>>
      /\ \E S : DefaultSources \in Seq(S)
  BY <1>4, ZenonT(60) DEF DefaultSources
<1>6. /\ Written(DefaultSources[1]) /\ Written(DefaultSources[2])
      /\ Written(DefaultSources[3]) /\ Written(DefaultSources[4])
      /\ Written(DefaultSources[5]) /\ Written(DefaultSources[6])
  BY <1>3, Zenon DEF Written
<1>7. \A i \in 1 .. 6 : Written(DefaultSources[i])
  BY <1>6
<1> QED
  BY <1>5, <1>7

\* A list of sources.
WrittenList(srcs) ==
    /\ \E S : srcs \in Seq(S)
    /\ \A i \in DOMAIN srcs : Written(srcs[i])

\* A configuration that the rest can work with.
Fits(cfg) ==
    /\ cfg.ttl > 0 /\ cfg.path # "" /\ cfg.sources # <<>>
    /\ WrittenList(cfg.sources)
    /\ \A i, j \in DOMAIN cfg.sources : cfg.sources[i].id = cfg.sources[j].id => i = j
    /\ \A src \in ToSet(cfg.sources) : Usable(src)

\* A configuration that passes validation is one.
LEMMA ValidUsable ==
    ASSUME NEW cfg, cfg.ttl \in Int, WrittenList(cfg.sources),
           NormalizeAndValidate(cfg) # Nil
    PROVE  Fits(NormalizeAndValidate(cfg))
<1> DEFINE valid == NormalizeAndValidate(cfg)
           srcs == IF cfg.sources = <<>> THEN DefaultSources ELSE cfg.sources
           normal == [i \in DOMAIN srcs |-> NormalSource(srcs[i])]
           where == Trimmed[cfg.path]
<1>1. /\ \E S : srcs \in Seq(S)
      /\ srcs # <<>> /\ \A i \in DOMAIN srcs : Written(srcs[i])
  BY DefaultsWritten, Zenon DEF WrittenList
<1>2. /\ Distinct(srcs) /\ \A i \in DOMAIN srcs : Complete(srcs[i])
      /\ valid.ttl = IF cfg.ttl <= 0 THEN DefaultTTL ELSE cfg.ttl
      /\ valid.path = IF where = "" THEN DefaultPath ELSE where
      /\ valid.sources = normal
  BY DEF NormalizeAndValidate
<1> HIDE DEF valid, srcs, where
<1>3. valid.ttl > 0
  <2>1. valid.ttl = IF cfg.ttl <= 0 THEN DefaultTTL ELSE cfg.ttl
    BY <1>2
  <2> QED
    BY <2>1 DEF DefaultTTL
<1>4. valid.path # ""
  BY <1>2 DEF DefaultPath
<1>5. Len(srcs) \in Nat /\ DOMAIN srcs = 1 .. Len(srcs) /\ Len(srcs) # 0
  BY <1>1, LenProperties, EmptySeq
<1>6. \A i \in DOMAIN srcs :
         /\ NormalSource(srcs[i]).id = Trimmed[srcs[i].id]
         /\ Usable(NormalSource(srcs[i])) /\ Written(NormalSource(srcs[i]))
  BY <1>1, <1>2, NormalUsable
<1>7. /\ normal = [i \in DOMAIN srcs |-> normal[i]]
      /\ DOMAIN normal = DOMAIN srcs
      /\ \A i \in DOMAIN srcs : normal[i] = NormalSource(srcs[i])
  OBVIOUS
<1> HIDE DEF normal
<1>8. normal # <<>>
  <2>1. 1 \in DOMAIN normal
    BY <1>5, <1>7
  <2> QED
    BY <2>1
<1>9. ASSUME NEW i \in DOMAIN srcs, NEW j \in DOMAIN srcs, normal[i].id = normal[j].id
      PROVE  i = j
  <2> DEFINE ids == [k \in DOMAIN srcs |-> Trimmed[srcs[k].id]]
  <2>1. ids[i] = ids[j]
    BY <1>6, <1>7, <1>9
  <2>2. DOMAIN ids = DOMAIN srcs
    OBVIOUS
  <2>3. \A a, b \in DOMAIN ids : ids[a] = ids[b] => a = b
    BY <1>2 DEF Distinct, IsInjective
  <2> HIDE DEF ids
  <2> QED
    BY <2>1, <2>2, <2>3
<1>10. \A src \in ToSet(normal) : Usable(src)
  BY <1>6, <1>7 DEF ToSet
<1>11. \E S : normal \in Seq(S)
  <2>1. normal \in [1 .. Len(srcs) -> ToSet(normal)]
    BY <1>5, <1>7 DEF ToSet
  <2> QED
    BY <1>5, <2>1, SeqDef
<1>12. /\ \A i \in DOMAIN normal : Written(normal[i])
       /\ \A i, j \in DOMAIN normal : normal[i].id = normal[j].id => i = j
  BY <1>6, <1>7, <1>9
<1> QED
  BY <1>2, <1>3, <1>4, <1>8, <1>10, <1>11, <1>12, Zenon DEF WrittenList, Fits, valid
=============================================================================
