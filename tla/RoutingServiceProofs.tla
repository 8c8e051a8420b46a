------------------------ MODULE RoutingServiceProofs ------------------------
(***************************************************************************)
(* Proofs about RoutingService, for any environment the service is started *)
(* in and any request.                                                     *)
(***************************************************************************)
EXTENDS RoutingService, TLAPS, Extrema, IntervalsProofs

(***************************************************************************)
(* Config.  The entry of a host that counts is one that was kept, so all   *)
(* of its end heights are valid.                                           *)
(***************************************************************************)
LEMMA RawShards ==
  ASSUME NEW e \in Envs
  PROVE  /\ Len(e.shards) \in Nat /\ DOMAIN e.shards = 1 .. Len(e.shards)
         /\ \A i \in DOMAIN e.shards :
              /\ Len(e.shards[i].shards) \in Nat
              /\ DOMAIN e.shards[i].shards = 1 .. Len(e.shards[i].shards)
              /\ \A k \in DOMAIN e.shards[i].shards : e.shards[i].shards[k].end \in Int
<1> DEFINE P == [end : Int, url : STRING, ok : BOOLEAN]
           E == [host : STRING, ok : BOOLEAN, shards : Seq(P)]
<1>1. e.shards \in Seq(E)
  BY RoutingAssumption, Zenon
<1>2. Len(e.shards) \in Nat /\ DOMAIN e.shards = 1 .. Len(e.shards)
  <2> HIDE DEF E
  <2> QED  BY <1>1
<1>3. ASSUME NEW i \in DOMAIN e.shards PROVE e.shards[i] \in E
  <2> HIDE DEF E
  <2> QED  BY <1>1, <1>2, <1>3
<1>4. ASSUME NEW i \in DOMAIN e.shards
      PROVE  /\ Len(e.shards[i].shards) \in Nat
             /\ DOMAIN e.shards[i].shards = 1 .. Len(e.shards[i].shards)
             /\ \A k \in DOMAIN e.shards[i].shards : e.shards[i].shards[k].end \in Int
  <2>1. e.shards[i].shards \in Seq(P)
    BY <1>3
  <2>2. ASSUME NEW k \in DOMAIN e.shards[i].shards PROVE e.shards[i].shards[k].end \in Int
    <3>1. e.shards[i].shards[k] \in P
      <4> HIDE DEF P
      <4> QED  BY <2>1, <2>2
    <3> QED  BY <3>1
  <2> HIDE DEF P
  <2> QED  BY <2>1, <2>2
<1> QED  BY <1>2, <1>4, Zenon

(***************************************************************************)
(* The greatest index of a bounded set has none of the set after it.       *)
(***************************************************************************)
LEMMA MaxIsLast ==
  ASSUME NEW T \in SUBSET Nat, T # {}, NEW b \in Nat, \A j \in T : j <= b
  PROVE  Max(T) \in T /\ \A j \in T : ~(j > Max(T))
<1>1. PICK k \in T : \A j \in T : j <= k
  BY GreatestExists, Zenon
<1>2. k \in T /\ \A j \in T : k >= j
  BY <1>1
<1> DEFINE m == Max(T)
<1>3. m \in T /\ \A j \in T : m >= j
  BY <1>2, Zenon DEF Max
<1> HIDE DEF m
<1>4. ASSUME NEW j \in T PROVE ~(j > m)
  <2>1. m \in Nat /\ j \in Nat /\ m >= j
    BY <1>3
  <2> QED  BY <2>1
<1> QED  BY <1>3, <1>4 DEF m

(***************************************************************************)
(* The end heights of a valid list are positive (config.go:259), and the   *)
(* list has them in order, because each is above the one before it         *)
(* (config.go:265, config.go:271).                                         *)
(***************************************************************************)
LEMMA ValidShardsAscend ==
  ASSUME NEW shards, NEW n \in Nat, DOMAIN shards = 1 .. n,
         \A k \in 1 .. n : shards[k].end \in Int, ValidShards(shards)
  PROVE  /\ {shards[k].end : k \in DOMAIN shards} \subseteq Nat \ {0}
         /\ Sortable({shards[k].end : k \in DOMAIN shards})
<1> DEFINE s == [k \in 1 .. n |-> shards[k].end]
           S == {shards[k].end : k \in DOMAIN shards}
<1>1. \A k \in 1 .. n : s[k] = shards[k].end /\ s[k] \in Int /\ s[k] > 0
  BY DEF ValidShards
<1>2. s \in [1 .. n -> Int]
  OBVIOUS
<1>3. S = {s[k] : k \in 1 .. n}
  OBVIOUS
<1>4. \A b \in 1 .. n : b > 1 => s[b - 1] < s[b]
  <2> SUFFICES ASSUME NEW b \in 1 .. n, b > 1 PROVE s[b - 1] < s[b]
    OBVIOUS
  <2>1. b - 1 \in 1 .. n /\ b - 1 \in 1 .. b - 1
    OBVIOUS
  <2>2. shards[b - 1].end # shards[b].end /\ shards[b].end >= shards[b - 1].end
    BY <2>1, Zenon DEF ValidShards
  <2>3. s[b - 1] # s[b] /\ s[b] >= s[b - 1]
    BY <1>1, <2>1, <2>2, Zenon
  <2> HIDE DEF s
  <2> QED  BY <1>1, <2>1, <2>3
<1> HIDE DEF s
<1>5. Ascending(s)
  BY Zenon, <1>2, <1>4, NeighboursAscend
<1>6. Sortable(S)
  <2> HIDE DEF S
  <2> QED  BY <1>2, <1>3, <1>5, ListIsSorted
<1>7. S \subseteq Nat \ {0}
  BY <1>1
<1> QED  BY <1>6, <1>7, Zenon

(***************************************************************************)
(* So are those of the shards that the parser keeps.                       *)
(***************************************************************************)
LEMMA EndsArePositive ==
  ASSUME NEW e \in Envs,
         NEW h \in DOMAIN ParseRawShardRoutingBackendHostURLMap(e.shards).map
  PROVE  /\ DOMAIN ParseRawShardRoutingBackendHostURLMap(e.shards).map[h] \subseteq Nat \ {0}
         /\ Sortable(DOMAIN ParseRawShardRoutingBackendHostURLMap(e.shards).map[h])
<1> DEFINE raw == e.shards
           wrong == {i \in DOMAIN raw : ~raw[i].ok \/ ~ValidShards(raw[i].shards)}
           kept == {i \in DOMAIN raw : \A j \in 1 .. i : j \notin wrong}
           T == {i \in kept : raw[i].host = h}
           m == Max(T)
<1>1. Len(raw) \in Nat /\ DOMAIN raw = 1 .. Len(raw)
  BY RawShards
<1>2. T \in SUBSET Nat /\ \A i \in T : i <= Len(raw)
  BY SMTT(60), <1>1
<1>3. T # {}
  BY Zenon DEF ParseRawShardRoutingBackendHostURLMap
<1>4. m \in T
  <2> HIDE DEF T, raw
  <2> QED  BY <1>1, <1>2, <1>3, MaxIsLast, Zenon
<1>5. m \in DOMAIN raw /\ m \notin wrong
  <2>1. m \in kept
    BY Zenon, <1>4
  <2> HIDE DEF m, wrong
  <2> QED  BY <1>1, <2>1
<1>6. ValidShards(raw[m].shards)
  BY Zenon, <1>5
<1> DEFINE S == {raw[m].shards[k].end : k \in DOMAIN raw[m].shards}
<1>7. S \subseteq Nat \ {0} /\ Sortable(S)
  <2>1. /\ Len(raw[m].shards) \in Nat /\ DOMAIN raw[m].shards = 1 .. Len(raw[m].shards)
        /\ \A k \in DOMAIN raw[m].shards : raw[m].shards[k].end \in Int
    BY ZenonT(60), <1>5, RawShards
  <2> DEFINE shards == raw[m].shards
             n == Len(shards)
  <2>2. n \in Nat /\ DOMAIN shards = 1 .. n /\ \A k \in 1 .. n : shards[k].end \in Int
    BY <2>1, Zenon
  <2>3. ValidShards(shards)
    BY <1>6, Zenon
  <2>4. S = {shards[k].end : k \in DOMAIN shards}
    BY Zenon
  <2> HIDE DEF shards, n, S
  <2> QED  BY <2>2, <2>3, <2>4, ValidShardsAscend, ZenonT(60)
<1>8. DOMAIN ParseRawShardRoutingBackendHostURLMap(raw).map[h] = S
  BY Zenon DEF ParseRawShardRoutingBackendHostURLMap
<1> HIDE DEF m, S
<1> QED  BY <1>7, <1>8, Zenon

(***************************************************************************)
(* In a host map without an error no entry was skipped: each host has the  *)
(* url of its last entry.                                                  *)
(***************************************************************************)
LEMMA LastEntryWins ==
  ASSUME NEW raw, Len(raw) \in Nat, DOMAIN raw = 1 .. Len(raw),
         ~ParseRawProxyBackendHostURLMap(raw).err,
         NEW h \in DOMAIN ParseRawProxyBackendHostURLMap(raw).map
  PROVE  \E i \in DOMAIN raw :
           IsLastOf(raw, i, h) /\ raw[i].url = ParseRawProxyBackendHostURLMap(raw).map[h]
<1> DEFINE good == {i \in DOMAIN raw : raw[i].ok}
           T == {i \in good : raw[i].host = h}
           m == Max(T)
<1>1. good = DOMAIN raw
  BY Zenon DEF ParseRawProxyBackendHostURLMap
<1>2. T \in SUBSET Nat /\ \A i \in T : i <= Len(raw)
  OBVIOUS
<1>3. T # {}
  BY DEF ParseRawProxyBackendHostURLMap
<1>4. m \in T /\ \A j \in T : ~(j > m)
  <2> HIDE DEF T
  <2> QED  BY <1>2, <1>3, MaxIsLast, Zenon
<1>5. ParseRawProxyBackendHostURLMap(raw).map[h] = raw[m].url
  BY DEF ParseRawProxyBackendHostURLMap
<1>6. m \in DOMAIN raw /\ IsLastOf(raw, m, h)
  <2> HIDE DEF m
  <2> QED  BY <1>1, <1>4, Zenon DEF IsLastOf
<1> HIDE DEF m
<1> QED  BY <1>5, <1>6, Zenon

(***************************************************************************)
(* The same for a shard map, and each end height has the url given to it.  *)
(***************************************************************************)
LEMMA LastShardsWin ==
  ASSUME NEW e \in Envs, ~ParseRawShardRoutingBackendHostURLMap(e.shards).err,
         NEW h \in DOMAIN ParseRawShardRoutingBackendHostURLMap(e.shards).map,
         NEW end \in DOMAIN ParseRawShardRoutingBackendHostURLMap(e.shards).map[h]
  PROVE  \E i \in DOMAIN e.shards : \E k \in DOMAIN e.shards[i].shards :
           /\ IsLastOf(e.shards, i, h)
           /\ e.shards[i].shards[k].end = end
           /\ e.shards[i].shards[k].url =
                ParseRawShardRoutingBackendHostURLMap(e.shards).map[h][end]
<1> DEFINE raw == e.shards
           wrong == {i \in DOMAIN raw : ~raw[i].ok \/ ~ValidShards(raw[i].shards)}
           kept == {i \in DOMAIN raw : \A j \in 1 .. i : j \notin wrong}
           T == {i \in kept : raw[i].host = h}
           m == Max(T)
           shards == raw[m].shards
           c == CHOOSE k \in DOMAIN shards : shards[k].end = end
<1>1. Len(raw) \in Nat /\ DOMAIN raw = 1 .. Len(raw)
  BY RawShards
<1>2. wrong = {}
  BY Zenon DEF ParseRawShardRoutingBackendHostURLMap
<1>3. kept = DOMAIN raw
  <2> HIDE DEF wrong
  <2> QED  BY <1>2
<1>4. T \in SUBSET Nat /\ \A i \in T : i <= Len(raw)
  BY <1>1
<1>5. T # {}
  BY Zenon DEF ParseRawShardRoutingBackendHostURLMap
<1>6. m \in T /\ \A j \in T : ~(j > m)
  <2> HIDE DEF T, raw
  <2> QED  BY <1>1, <1>4, <1>5, MaxIsLast, Zenon
<1>7. m \in DOMAIN raw /\ IsLastOf(raw, m, h)
  <2> HIDE DEF m, kept
  <2> QED  BY <1>3, <1>6, ZenonT(60) DEF IsLastOf
<1>8. /\ end \in {shards[k].end : k \in DOMAIN shards}
      /\ ParseRawShardRoutingBackendHostURLMap(e.shards).map[h][end] = shards[c].url
  BY Zenon DEF ParseRawShardRoutingBackendHostURLMap
<1>9. c \in DOMAIN shards /\ shards[c].end = end
  <2> HIDE DEF shards
  <2> QED  BY <1>8, Zenon
<1> HIDE DEF m, c
<1> QED  BY <1>7, <1>8, <1>9, Zenon

-----------------------------------------------------------------------------
(***************************************************************************)
(* Decode.  The methods with a block number, the codes of the tags and the *)
(* params.                                                                 *)
(***************************************************************************)
LEMMA BlockNumberMethods ==
  ASSUME NEW m
  PROVE  /\ MethodHasBlockNumberParam(m) <=> m \in DOMAIN MethodNameToBlockNumberParamIndex
         /\ MethodHasBlockNumberParam(m) =>
              /\ ~MethodRequiresNoHistory(m)
              /\ MethodNameToBlockNumberParamIndex[m] \in Nat
              /\ m # "eth_getUncleByBlockNumberAndIndex" =>
                   BlockPosition[m] = MethodNameToBlockNumberParamIndex[m]
<1>1. DOMAIN MethodNameToBlockNumberParamIndex = CacheableByBlockNumberMethods
  BY DEF MethodNameToBlockNumberParamIndex, CacheableByBlockNumberMethods
<1>2. m \in CacheableByBlockNumberMethods => MethodNameToBlockNumberParamIndex[m] \in Nat
  BY DEF MethodNameToBlockNumberParamIndex, CacheableByBlockNumberMethods
<1>3. m \in CacheableByBlockNumberMethods => m \notin NoHistoryMethods
  BY DEF CacheableByBlockNumberMethods, NoHistoryMethods
<1>4. /\ m \in CacheableByBlockNumberMethods
      /\ m # "eth_getUncleByBlockNumberAndIndex"
      => BlockPosition[m] = MethodNameToBlockNumberParamIndex[m]
  BY <1>1, Zenon DEF BlockPosition
<1> QED  BY <1>1, <1>2, <1>3, <1>4, Zenon DEF MethodHasBlockNumberParam, MethodRequiresNoHistory

(***************************************************************************)
(* The codes of the tags are not block numbers, and earliest has one of    *)
(* its own (evm_rpc.go:217).                                               *)
(***************************************************************************)
LEMMA TagCodes ==
  ASSUME NEW t \in DOMAIN BlockTagToNumberCodec
  PROVE  /\ BlockTagToNumberCodec[t] \in Int /\ BlockTagToNumberCodec[t] < 1
         /\ BlockTagToNumberCodec[t] = -3 <=> t = "earliest"
BY DEF BlockTagToNumberCodec

(***************************************************************************)
(* The numbers from -6 to -1 are all codes of tags.                        *)
(***************************************************************************)
LEMMA NumbersOfTags ==
  ASSUME NEW k \in -6 .. -1
  PROVE  \E t \in DOMAIN BlockTagToNumberCodec : k = BlockTagToNumberCodec[t]
<1>1. /\ {"latest", "pending", "earliest", "finalized", "safe", "empty"}
           \subseteq DOMAIN BlockTagToNumberCodec
      /\ BlockTagToNumberCodec["latest"] = -1 /\ BlockTagToNumberCodec["pending"] = -2
      /\ BlockTagToNumberCodec["earliest"] = -3 /\ BlockTagToNumberCodec["finalized"] = -4
      /\ BlockTagToNumberCodec["safe"] = -5 /\ BlockTagToNumberCodec["empty"] = -6
  BY DEF BlockTagToNumberCodec
<1>2. k \in {-1, -2, -3, -4, -5, -6}
  OBVIOUS
<1> QED  BY <1>1, <1>2

(***************************************************************************)
(* The codes that pruning clusters serve (shard.go:86).                    *)
(***************************************************************************)
LEMMA CodesOfTip == blockTagEncodingsRoutedToLatest = {-1, -2, -4, -5, -6}
BY DEF blockTagEncodingsRoutedToLatest, BlockTagToNumberCodec

(***************************************************************************)
(* What the assumption on requests says of one parameter.                  *)
(***************************************************************************)
LEMMA ParamTypes ==
  ASSUME NEW r \in Requests, NEW i \in Nat, 1 <= i, i <= Len(r.params)
  PROVE  /\ r.params[i].kind \in {"null", "object", "word", "tag", "number"}
         /\ r.params[i].num \in Int
         /\ r.params[i].kind = "tag" => r.params[i].tag \in DOMAIN BlockTagToNumberCodec
<1>1. r.params \in Seq(Params)
  BY RoutingAssumption, Zenon
<1>2. r.params[i] \in Params /\ i \in DOMAIN r.params
  BY <1>1
<1>3. r.params[i].kind = "tag" => r.params[i].tag # ""
  BY <1>2, RoutingAssumption, Zenon
<1> QED  BY <1>2, <1>3, Zenon DEF Params

(***************************************************************************)
(* A parameter is parsed to an integer or to an error.                     *)
(***************************************************************************)
LEMMA BlockNumberIsInt ==
  ASSUME NEW p, p.kind \in {"null", "object", "word", "tag", "number"}, p.num \in Int,
         p.kind = "tag" => p.tag \in DOMAIN BlockTagToNumberCodec
  PROVE  BlockNumberOf(p).num \in Int
<1>1. CASE p.kind = "null"
  BY <1>1 DEF BlockNumberOf, BlockTagToNumberCodec, Value
<1>2. CASE p.kind = "tag"
  <2>1. BlockNumberOf(p).num = BlockTagToNumberCodec[p.tag]
    BY <1>2 DEF BlockNumberOf, Value
  <2> QED  BY <1>2, <2>1, TagCodes
<1>3. CASE p.kind = "number"
  BY <1>3 DEF BlockNumberOf, blockParamToInt64, Value, Error
<1>4. CASE p.kind \in {"object", "word"}
  BY <1>4 DEF BlockNumberOf, Error
<1> QED  BY <1>1, <1>2, <1>3, <1>4

(***************************************************************************)
(* What ParseBlockNumberFromParams finds in a request says what the        *)
(* request needs: an error never hides a height, nor the tip of a method   *)
(* with a block number; and a number is the height, the code of            *)
(* "earliest", the code of a tag that means the tip, or no height at all.  *)
(***************************************************************************)
ErrorNeed(r) == Need(r) = Tip => MethodRequiresNoHistory(r.method)

NumberMeans(need, num) ==
  \/ need = Tip /\ num < 1 /\ num # -3
  \/ need = Height(1) /\ num = -3
  \/ need = Height(num) /\ num >= 1
  \/ need = Index /\ num < 1 /\ num \notin -6 .. -1

NumberNeed(r, num) == NumberMeans(Need(r), num)

(***************************************************************************)
(* One parameter: the number it is parsed to still tells what it asks for, *)
(* unless it is the code of a tag, and a parse error comes from a          *)
(* parameter that names no height.                                         *)
(***************************************************************************)
LEMMA NeedOfNumber ==
  ASSUME NEW p, p.kind \in {"null", "object", "word", "tag", "number"}, p.num \in Int,
         p.kind = "tag" => p.tag \in DOMAIN BlockTagToNumberCodec,
         p.kind = "number" =>
           \A t \in DOMAIN BlockTagToNumberCodec : p.num # BlockTagToNumberCodec[t]
  PROVE  \/ BlockNumberOf(p).res = "error" /\ NeedOfParam(p) = Index
         \/ BlockNumberOf(p).res = "value" /\ NumberMeans(NeedOfParam(p), BlockNumberOf(p).num)
<1>1. CASE p.kind = "null"
  <2>1. BlockNumberOf(p) = Value(-6) /\ NeedOfParam(p) = Tip
    BY <1>1 DEF BlockNumberOf, NeedOfParam, BlockTagToNumberCodec
  <2> QED  BY <2>1 DEF Value, NumberMeans
<1>2. CASE p.kind = "tag"
  <2>1. BlockNumberOf(p) = Value(BlockTagToNumberCodec[p.tag])
    BY <1>2 DEF BlockNumberOf
  <2>2. NeedOfParam(p) = IF p.tag = "earliest" THEN Height(1) ELSE Tip
    BY <1>2 DEF NeedOfParam
  <2>3. BlockNumberOf(p).res = "value" /\ BlockNumberOf(p).num = BlockTagToNumberCodec[p.tag]
    BY <2>1 DEF Value
  <2> QED  BY <1>2, <2>2, <2>3, TagCodes DEF NumberMeans
<1>3. CASE p.kind = "number"
  <2>1. BlockNumberOf(p) =
          IF p.num \in -MaxInt64 - 1 .. MaxInt64 THEN Value(p.num) ELSE Error
    BY <1>3 DEF BlockNumberOf, blockParamToInt64
  <2>2. NeedOfParam(p) = IF p.num \in 1 .. MaxInt64 THEN Height(p.num) ELSE Index
    BY <1>3 DEF NeedOfParam
  <2>3. p.num \notin -6 .. -1
    BY <1>3, NumbersOfTags
  <2>4. CASE p.num \in -MaxInt64 - 1 .. MaxInt64
    <3>1. BlockNumberOf(p).res = "value" /\ BlockNumberOf(p).num = p.num
      BY <2>1, <2>4 DEF Value
    <3>2. p.num \in 1 .. MaxInt64 <=> p.num >= 1
      BY <2>4, Int64Assumption
    <3> QED  BY <2>2, <2>3, <3>1, <3>2 DEF NumberMeans
  <2>5. CASE p.num \notin -MaxInt64 - 1 .. MaxInt64
    <3>1. BlockNumberOf(p).res = "error"
      BY <2>1, <2>5 DEF Error
    <3>2. p.num \notin 1 .. MaxInt64
      BY <2>5, Int64Assumption
    <3> QED  BY <2>2, <3>1, <3>2
  <2> QED  BY <2>4, <2>5
<1>4. CASE p.kind \in {"object", "word"}
  BY <1>4 DEF BlockNumberOf, NeedOfParam, Error
<1> QED  BY <1>1, <1>2, <1>3, <1>4

(***************************************************************************)
(* A whole request: the same, with the parameter taken at the position of  *)
(* the code's table.                                                       *)
(***************************************************************************)
LEMMA ParsedNeed ==
  ASSUME NEW r \in Requests, r.decoded, ~Uncle(r), ~LooksLikeATag(r),
         ParseBlockNumberFromParams(r.method, r.params).res # "panic"
  PROVE  \/ /\ ParseBlockNumberFromParams(r.method, r.params).res = "error"
            /\ Need(r) \in {Tip, Index} /\ ErrorNeed(r)
         \/ /\ ParseBlockNumberFromParams(r.method, r.params).res = "value"
            /\ ParseBlockNumberFromParams(r.method, r.params).num \in Int
            /\ NumberNeed(r, ParseBlockNumberFromParams(r.method, r.params).num)
<1> DEFINE i == MethodNameToBlockNumberParamIndex[r.method] + 1
           parsed == ParseBlockNumberFromParams(r.method, r.params)
<1>1. CASE MethodHasBlockNumberParam(r.method)
  <2>1. /\ r.method \in DOMAIN MethodNameToBlockNumberParamIndex
        /\ ~MethodRequiresNoHistory(r.method) /\ i \in Nat /\ 1 <= i
        /\ BlockPosition[r.method] = MethodNameToBlockNumberParamIndex[r.method]
    BY <1>1, BlockNumberMethods DEF Uncle
  <2>2. Len(r.params) \in Nat
    <3>1. r.params \in Seq(Params)
      BY RoutingAssumption, Zenon
    <3> QED  BY <3>1
  <2>3. parsed = IF i > Len(r.params) THEN Panic ELSE BlockNumberOf(r.params[i])
    BY <2>1, Zenon DEF ParseBlockNumberFromParams
  <2>4. Need(r) = IF Len(r.params) < i THEN Tip ELSE NeedOfParam(r.params[i])
    BY <1>1, <2>1, Zenon DEF Need
  <2> HIDE DEF i
  <2>5. i <= Len(r.params) /\ parsed = BlockNumberOf(r.params[i])
    <3>0. Panic.res = "panic"
      BY DEF Panic
    <3>1. ~(i > Len(r.params))
      BY <2>3, <3>0, Zenon
    <3> QED  BY <2>1, <2>2, <2>3, <3>1
  <2>6. Need(r) = NeedOfParam(r.params[i])
    BY <2>1, <2>2, <2>4, <2>5
  <2>7. Tip # Index
    BY DEF Tip, Index
  <2> DEFINE p == r.params[i]
  <2>8. /\ p.kind \in {"null", "object", "word", "tag", "number"} /\ p.num \in Int
        /\ p.kind = "tag" => p.tag \in DOMAIN BlockTagToNumberCodec
    BY <2>1, <2>5, ParamTypes, Zenon
  <2>9. p.kind = "number" =>
          \A t \in DOMAIN BlockTagToNumberCodec : p.num # BlockTagToNumberCodec[t]
    BY <1>1, <2>5, Zenon DEF LooksLikeATag, i
  <2> HIDE DEF parsed, p
  <2>10. BlockNumberOf(p).num \in Int
    BY <2>8, BlockNumberIsInt
  <2>11. \/ BlockNumberOf(p).res = "error" /\ NeedOfParam(p) = Index
         \/ BlockNumberOf(p).res = "value" /\ NumberMeans(NeedOfParam(p), BlockNumberOf(p).num)
    BY <2>8, <2>9, NeedOfNumber
  <2>12. parsed = BlockNumberOf(p) /\ Need(r) = NeedOfParam(p)
    BY <2>5, <2>6 DEF p
  <2> QED  BY <2>7, <2>10, <2>11, <2>12 DEF ErrorNeed, NumberNeed, parsed
<1>2. CASE ~MethodHasBlockNumberParam(r.method)
  <2>1. parsed = Error
    BY <1>2, BlockNumberMethods, Zenon DEF ParseBlockNumberFromParams
  <2>2. Need(r) = IF MethodRequiresNoHistory(r.method) THEN Tip ELSE Index
    BY <1>2, Zenon DEF Need
  <2>3. Tip # Index
    BY DEF Tip, Index
  <2> QED  BY <2>1, <2>2, <2>3 DEF Error, ErrorNeed
<1> QED  BY <1>1, <1>2

-----------------------------------------------------------------------------
(***************************************************************************)
(* Routing.  The default backend of a host, ...                            *)
(***************************************************************************)
LEMMA HostRoute ==
  ASSUME NEW name \in Backends, NEW m, NEW r
  PROVE  /\ r.host \in DOMAIN m => /\ HostProxies(name, m, r).res = "found"
                                   /\ HostProxies(name, m, r).backend = name
                                   /\ HostProxies(name, m, r).url = m[r.host]
         /\ r.host \notin DOMAIN m => HostProxies(name, m, r) = NotFound
BY DEF HostProxies, Route

(***************************************************************************)
(* The fields of the routes without a proxy.                               *)
(***************************************************************************)
LEMMA RouteFields ==
  /\ "DEFAULT" \in Backends /\ "PRUNING" \in Backends /\ "SHARD" \in Backends
  /\ NotFound.res = "notfound" /\ NotFound.backend = "DEFAULT"
  /\ RoutePanic.res = "panic" /\ RoutePanic.backend = "DEFAULT"
BY DEF Backends, NotFound, RoutePanic

Base(cfg, r) ==
  IF cfg.EnableHeightBasedRouting
  THEN PruningOrDefaultProxies(cfg, r)
  ELSE HostProxies("DEFAULT", cfg.ProxyBackendHostURLMapParsed, r)

(***************************************************************************)
(* ... the pruning backend, which gets requests for the tip only, ...      *)
(***************************************************************************)
PruningNeed(r) ==
  /\ r.decoded
  /\ \/ MethodRequiresNoHistory(r.method)
     \/ /\ ParseBlockNumberFromParams(r.method, r.params).res = "value"
        /\ ParseBlockNumberFromParams(r.method, r.params).num \in {-1, -2, -4, -5, -6}

(***************************************************************************)
(* What the proxies below the shards return: nothing, a panic, or the      *)
(* host's url in the default or in the pruning map, with what made it so.  *)
(***************************************************************************)
LEMMA BaseRoute ==
  ASSUME NEW cfg, NEW r \in Requests
  PROVE  \/ Base(cfg, r) = RoutePanic
         \/ /\ Base(cfg, r).res = "found" /\ Base(cfg, r).backend = "DEFAULT"
            /\ r.host \in DOMAIN cfg.ProxyBackendHostURLMapParsed
            /\ Base(cfg, r).url = cfg.ProxyBackendHostURLMapParsed[r.host]
         \/ /\ Base(cfg, r) = NotFound
            /\ r.host \notin DOMAIN cfg.ProxyBackendHostURLMapParsed
         \/ /\ Base(cfg, r).res = "found" /\ Base(cfg, r).backend = "PRUNING"
            /\ r.host \in DOMAIN cfg.ProxyPruningBackendHostURLMap
            /\ Base(cfg, r).url = cfg.ProxyPruningBackendHostURLMap[r.host]
            /\ PruningNeed(r)
<1> DEFINE default == HostProxies("DEFAULT", cfg.ProxyBackendHostURLMapParsed, r)
           pruning == HostProxies("PRUNING", cfg.ProxyPruningBackendHostURLMap, r)
           height == ParseBlockNumberFromParams(r.method, r.params)
<1>1. \/ /\ default.res = "found" /\ default.backend = "DEFAULT"
         /\ r.host \in DOMAIN cfg.ProxyBackendHostURLMapParsed
         /\ default.url = cfg.ProxyBackendHostURLMapParsed[r.host]
      \/ default = NotFound /\ r.host \notin DOMAIN cfg.ProxyBackendHostURLMapParsed
  BY HostRoute, RouteFields
<1>2. \/ pruning.res = "notfound"
      \/ /\ pruning.res = "found" /\ pruning.backend = "PRUNING"
         /\ r.host \in DOMAIN cfg.ProxyPruningBackendHostURLMap
         /\ pruning.url = cfg.ProxyPruningBackendHostURLMap[r.host]
  BY HostRoute, RouteFields
<1>3. \/ Base(cfg, r) = RoutePanic
      \/ Base(cfg, r) = default
      \/ /\ Base(cfg, r) = pruning /\ pruning.res # "notfound" /\ r.decoded
         /\ \/ MethodRequiresNoHistory(r.method)
            \/ height.res = "value" /\ shouldRouteToPruning(height.num)
  BY Zenon DEF Base, PruningOrDefaultProxies
<1>4. shouldRouteToPruning(height.num) => height.num \in {-1, -2, -4, -5, -6}
  BY CodesOfTip, Zenon DEF shouldRouteToPruning
<1> HIDE DEF default, pruning, height
<1>5. CASE Base(cfg, r) = default
  BY <1>1, <1>5, Zenon
<1>6. CASE /\ Base(cfg, r) = pruning /\ pruning.res # "notfound" /\ r.decoded
           /\ \/ MethodRequiresNoHistory(r.method)
              \/ height.res = "value" /\ shouldRouteToPruning(height.num)
  BY <1>2, <1>4, <1>6, Zenon DEF PruningNeed, height
<1> QED  BY <1>3, <1>5, <1>6, Zenon

(***************************************************************************)
(* ... and the shards, which take over from the default backend where they *)
(* hold the height.                                                        *)
(***************************************************************************)
LEMMA ShardRoute ==
  ASSUME NEW cfg, NEW r, NEW beyond
  PROVE  LET parsed == ParseBlockNumberFromParams(r.method, r.params)
             height == ShardHeight(parsed.num)
             lookup == Lookup(DOMAIN cfg.ProxyShardBackendHostURLMap[r.host], height)
             rt == ShardProxies(cfg, beyond, r)
         IN \/ /\ rt = beyond
               /\ \/ r.host \notin DOMAIN cfg.ProxyShardBackendHostURLMap
                  \/ beyond.res # "found" \/ beyond.backend # "DEFAULT" \/ ~r.decoded
                  \/ parsed.res # "panic" /\ (parsed.res = "error" \/ height < 1 \/ ~lookup.found)
            \/ /\ rt = RoutePanic /\ beyond.res = "found"
            \/ /\ r.host \in DOMAIN cfg.ProxyShardBackendHostURLMap
               /\ beyond.res = "found" /\ beyond.backend = "DEFAULT" /\ r.decoded
               /\ parsed.res \notin {"panic", "error"} /\ ~(height < 1) /\ lookup.found
               /\ rt.res = "found" /\ rt.backend = "SHARD" /\ rt.end = lookup.end
               /\ rt.url = cfg.ProxyShardBackendHostURLMap[r.host][lookup.end]
<1> DEFINE parsed == ParseBlockNumberFromParams(r.method, r.params)
           height == ShardHeight(parsed.num)
           shards == cfg.ProxyShardBackendHostURLMap[r.host]
           lookup == Lookup(DOMAIN shards, height)
<1>1. ShardProxies(cfg, beyond, r) =
        IF r.host \notin DOMAIN cfg.ProxyShardBackendHostURLMap \/ beyond.res # "found"
             \/ beyond.backend # "DEFAULT" \/ ~r.decoded
        THEN beyond
        ELSE IF parsed.res = "panic" THEN RoutePanic
        ELSE IF parsed.res = "error" \/ height < 1 \/ ~lookup.found THEN beyond
        ELSE Route("SHARD", shards[lookup.end], lookup.end)
  BY Zenon DEF ShardProxies
<1> DEFINE sharded == Route("SHARD", shards[lookup.end], lookup.end)
<1>2. /\ sharded.res = "found" /\ sharded.backend = "SHARD" /\ sharded.end = lookup.end
      /\ sharded.url = shards[lookup.end]
  BY DEF Route
<1> HIDE DEF parsed, height, lookup, sharded
<1>3. \/ /\ ShardProxies(cfg, beyond, r) = beyond
         /\ \/ r.host \notin DOMAIN cfg.ProxyShardBackendHostURLMap
            \/ beyond.res # "found" \/ beyond.backend # "DEFAULT" \/ ~r.decoded
            \/ parsed.res # "panic" /\ (parsed.res = "error" \/ height < 1 \/ ~lookup.found)
      \/ /\ ShardProxies(cfg, beyond, r) = RoutePanic /\ beyond.res = "found"
      \/ /\ r.host \in DOMAIN cfg.ProxyShardBackendHostURLMap
         /\ beyond.res = "found" /\ beyond.backend = "DEFAULT" /\ r.decoded
         /\ parsed.res \notin {"panic", "error"} /\ ~(height < 1) /\ lookup.found
         /\ ShardProxies(cfg, beyond, r) = sharded
  BY <1>1, Zenon DEF sharded
<1> QED  BY <1>2, <1>3, Zenon DEF parsed, height, lookup

-----------------------------------------------------------------------------
(***************************************************************************)
(* The inductive invariant: a service that runs has validated what it      *)
(* read, and the route is the one of the request.                          *)
(***************************************************************************)
IInv ==
  /\ env \in Envs
  /\ phase \in {"booting", "running", "exited"}
  /\ phase = "running" => Validate(env, config)
  /\ \/ req = NoRequest /\ route = NotFound
     \/ phase = "running" /\ req \in Requests /\ route = ProxyForRequest(config, req)

(***************************************************************************)
(* The invariant holds before the service starts.                          *)
(***************************************************************************)
LEMMA InitEstablishes == Init => IInv
BY Zenon DEF Init, IInv

(***************************************************************************)
(* The start establishes a valid configuration, and a request is routed by *)
(* it.                                                                     *)
(***************************************************************************)
LEMMA StepPreserves == IInv /\ [Next]_vars => IInv'
<1> SUFFICES ASSUME IInv, [Next]_vars PROVE IInv'
  OBVIOUS
<1>1. CASE Boot
  <2>1. env' = env /\ req' = req /\ route' = route /\ config' = config
    BY <1>1, Zenon DEF Boot, config
  <2>2. req = NoRequest /\ route = NotFound
    BY <1>1, Zenon DEF Boot, IInv
  <2>3. /\ phase' \in {"booting", "running", "exited"}
        /\ phase' = "running" => Validate(env, config)
    BY <1>1 DEF Boot
  <2> QED  BY <2>1, <2>2, <2>3, Zenon DEF IInv
<1>2. CASE ServeRequest
  <2>1. env' = env /\ phase' = phase /\ config' = config
    BY <1>2, Zenon DEF ServeRequest, config
  <2>2. phase = "running" /\ req' \in Requests /\ route' = ProxyForRequest(config, req')
    BY <1>2, Zenon DEF ServeRequest
  <2> QED  BY <2>1, <2>2, Zenon DEF IInv
<1>3. CASE UNCHANGED vars
  <2>1. env' = env /\ phase' = phase /\ req' = req /\ route' = route /\ config' = config
    BY <1>3, Zenon DEF vars, config
  <2> QED  BY <2>1, Zenon DEF IInv
<1> QED  BY <1>1, <1>2, <1>3, Zenon DEF Next, Terminated

(***************************************************************************)
(* So the invariant holds always.                                          *)
(***************************************************************************)
LEMMA Inductive == Spec => []IInv
BY InitEstablishes, StepPreserves, PTL DEF Spec

-----------------------------------------------------------------------------
(***************************************************************************)
(* What the invariant says of a request that was routed.                   *)
(***************************************************************************)
LEMMA ShardsArePositive ==
  ASSUME IInv
  PROVE  \A h \in DOMAIN config.ProxyShardBackendHostURLMap :
           /\ DOMAIN config.ProxyShardBackendHostURLMap[h] \subseteq Nat \ {0}
           /\ Sortable(DOMAIN config.ProxyShardBackendHostURLMap[h])
<1>1. config.ProxyShardBackendHostURLMap = ParseRawShardRoutingBackendHostURLMap(env.shards).map
  BY DEF config, ReadConfig
<1>2. env \in Envs
  BY DEF IInv
<1> QED  BY <1>1, <1>2, EndsArePositive, Zenon

(***************************************************************************)
(* A routed request, with the proxies of NewProxies spelled out            *)
(* (proxy.go:38).                                                          *)
(***************************************************************************)
LEMMA Proxied ==
  ASSUME IInv, req # NoRequest
  PROVE  /\ req \in Requests
         /\ route = IF config.EnableShardedRouting
                    THEN ShardProxies(config, Base(config, req), req)
                    ELSE Base(config, req)
<1>1. req \in Requests /\ route = ProxyForRequest(config, req)
  BY Zenon DEF IInv
<1> QED  BY <1>1, Zenon DEF ProxyForRequest, Base

(***************************************************************************)
(* Every configuration and request has one of the defined outcomes.        *)
(***************************************************************************)
LEMMA RouteTypes ==
  ASSUME NEW cfg, NEW r \in Requests
  PROVE  /\ ProxyForRequest(cfg, r).res \in {"found", "notfound", "panic"}
         /\ ProxyForRequest(cfg, r).backend \in Backends
<1>1. /\ Base(cfg, r).res \in {"found", "notfound", "panic"}
      /\ Base(cfg, r).backend \in Backends
  BY BaseRoute, RouteFields
<1>2. /\ ShardProxies(cfg, Base(cfg, r), r).res \in {"found", "notfound", "panic"}
      /\ ShardProxies(cfg, Base(cfg, r), r).backend \in Backends
  <2>1. \/ ShardProxies(cfg, Base(cfg, r), r) \in {Base(cfg, r), RoutePanic}
        \/ /\ ShardProxies(cfg, Base(cfg, r), r).res = "found"
           /\ ShardProxies(cfg, Base(cfg, r), r).backend = "SHARD"
    BY ShardRoute
  <2> QED  BY ZenonT(60), <1>1, <2>1, RouteFields
<1>3. ProxyForRequest(cfg, r) =
        IF cfg.EnableShardedRouting THEN ShardProxies(cfg, Base(cfg, r), r) ELSE Base(cfg, r)
  BY Zenon DEF ProxyForRequest, Base
<1> QED  BY <1>1, <1>2, <1>3, Zenon

(***************************************************************************)
(* The routes and the shards' end heights are well formed, in every state  *)
(* of a service started in any environment (proxy.go, shard.go).           *)
(***************************************************************************)
THEOREM TypeCorrect == Spec => []TypeOK
<1>1. ASSUME IInv PROVE TypeOK
  <2>1. route.res \in {"found", "notfound", "panic"} /\ route.backend \in Backends
    <3>1. CASE route = NotFound
      BY <3>1, RouteFields, Zenon
    <3>2. CASE req \in Requests /\ route = ProxyForRequest(config, req)
      BY <3>2, RouteTypes, Zenon
    <3> QED  BY <1>1, <3>1, <3>2, Zenon DEF IInv
  <2> QED  BY <1>1, <2>1, ShardsArePositive, Zenon DEF IInv, TypeOK
<1> QED  BY <1>1, Inductive, PTL

(***************************************************************************)
(* The ends that the clusters are defined by are natural numbers, and the  *)
(* lookup has them in order.                                               *)
(***************************************************************************)
LEMMA ShardEndsTypes ==
  ASSUME IInv, NEW h
  PROVE  /\ ShardEnds(h) \in SUBSET Nat
         /\ h \in DOMAIN config.ProxyShardBackendHostURLMap =>
              /\ ShardEnds(h) = DOMAIN config.ProxyShardBackendHostURLMap[h]
              /\ Sortable(ShardEnds(h))
<1>1. CASE h \in DOMAIN config.ProxyShardBackendHostURLMap
  <2>1. ShardEnds(h) = DOMAIN config.ProxyShardBackendHostURLMap[h]
    BY <1>1, Zenon DEF ShardEnds
  <2>2. ShardEnds(h) \subseteq Nat \ {0} /\ Sortable(ShardEnds(h))
    BY <1>1, <2>1, ShardsArePositive, Zenon
  <2> QED  BY <2>1, <2>2
<1>2. CASE h \notin DOMAIN config.ProxyShardBackendHostURLMap
  <2>1. ShardEnds(h) = {}
    BY <1>2, Zenon DEF ShardEnds
  <2> QED  BY <1>2, <2>1
<1> QED  BY <1>1, <1>2

(***************************************************************************)
(* The fields of the kinds of need.                                        *)
(***************************************************************************)
LEMMA NeedKinds ==
  /\ Tip.kind = "tip" /\ Index.kind = "index"
  /\ \A k : Height(k).kind = "height" /\ Height(k).height = k
BY DEF Tip, Index, Height

(***************************************************************************)
(* What each cluster holds, by the kind of need.                           *)
(***************************************************************************)
LEMMA HoldsByKind ==
  ASSUME NEW r, NEW rt, NEW need
  PROVE  /\ need.kind = "tip" /\ rt.backend \in {"DEFAULT", "PRUNING"} => Holds(r, rt, need)
         /\ need.kind = "index" /\ rt.backend = "DEFAULT" => Holds(r, rt, need)
         /\ /\ need.kind = "height"
            /\ \/ /\ rt.backend = "DEFAULT"
                  /\ env.PROXY_SHARDED_ROUTING_ENABLED =>
                       \A e \in ShardEnds(r.host) : e < need.height
               \/ rt.backend = "SHARD" /\ InShard(r.host, rt.end, need.height)
            => Holds(r, rt, need)
BY Zenon DEF Holds

(***************************************************************************)
(* The pruning backend gets only what the tip of the chain answers.        *)
(***************************************************************************)
LEMMA PruningHolds ==
  ASSUME IInv, NEW r \in Requests, PruningNeed(r), r.decoded, ~Uncle(r), ~LooksLikeATag(r),
         NEW rt, rt.backend = "PRUNING"
  PROVE  Holds(r, rt, Need(r))
<1> DEFINE parsed == ParseBlockNumberFromParams(r.method, r.params)
<1>1. CASE MethodRequiresNoHistory(r.method)
  <2>1. Need(r) = Tip
    BY <1>1, ZenonT(60) DEF Need
  <2> QED  BY <2>1, NeedKinds, HoldsByKind
<1>2. CASE parsed.res = "value" /\ parsed.num \in {-1, -2, -4, -5, -6}
  <2>1. parsed.num \in Int /\ NumberNeed(r, parsed.num)
    BY <1>2, ParsedNeed
  <2> HIDE DEF parsed
  <2>2. Need(r) = Tip
    BY <1>2, <2>1 DEF NumberNeed, NumberMeans
  <2> QED  BY <2>2, NeedKinds, HoldsByKind
<1> QED  BY <1>1, <1>2, Zenon DEF PruningNeed

(***************************************************************************)
(* The default backend holds whatever does not name a height, and a height *)
(* that is above the host's shards or, without sharding, any height.       *)
(***************************************************************************)
DefaultHas(host, k) ==
  env.PROXY_SHARDED_ROUTING_ENABLED => \A e \in ShardEnds(host) : e < k

LEMMA DefaultHolds ==
  ASSUME NEW r, NEW rt, rt.backend = "DEFAULT",
         \/ Need(r) \in {Tip, Index}
         \/ \E k : Need(r) = Height(k) /\ DefaultHas(r.host, k)
  PROVE  Holds(r, rt, Need(r))
<1>1. CASE Need(r) \in {Tip, Index}
  BY <1>1, NeedKinds, HoldsByKind
<1>2. CASE \E k : Need(r) = Height(k) /\ DefaultHas(r.host, k)
  <2>1. PICK k : Need(r) = Height(k) /\ DefaultHas(r.host, k)
    BY <1>2
  <2> QED  BY <2>1, NeedKinds, HoldsByKind DEF DefaultHas
<1> QED  BY <1>1, <1>2

(***************************************************************************)
(* A number that ShardProxies looks up is the height the request needs.    *)
(***************************************************************************)
LEMMA LookedUpHeight ==
  ASSUME NEW r, NEW num \in Int, NumberNeed(r, num)
  PROVE  /\ ShardHeight(num) \in Int
         /\ ShardHeight(num) < 1 => Need(r) \in {Tip, Index}
         /\ ~(ShardHeight(num) < 1) =>
              ShardHeight(num) \in Nat /\ Need(r) = Height(ShardHeight(num))
<1>1. ShardHeight(num) = IF num = -3 THEN 1 ELSE num
  BY DEF ShardHeight, BlockTagToNumberCodec
<1> QED  BY <1>1 DEF NumberNeed, NumberMeans

(***************************************************************************)
(* The base routes and the shards between them, case by case.              *)
(***************************************************************************)
LEMMA RoutedHolds ==
  ASSUME IInv, req # NoRequest, route.res = "found", ~Uncle(req), ~LooksLikeATag(req),
         env.PROXY_SHARDED_ROUTING_ENABLED => env.PROXY_HEIGHT_BASED_ROUTING_ENABLED
  PROVE  Holds(req, route, Need(req))
<1> DEFINE base == Base(config, req)
           parsed == ParseBlockNumberFromParams(req.method, req.params)
           height == ShardHeight(parsed.num)
           lookup == Lookup(DOMAIN config.ProxyShardBackendHostURLMap[req.host], height)
<1>1. /\ req \in Requests
      /\ route = IF config.EnableShardedRouting THEN ShardProxies(config, base, req) ELSE base
  BY Proxied, Zenon
<1>2. /\ ShardEnds(req.host) \in SUBSET Nat
      /\ req.host \in DOMAIN config.ProxyShardBackendHostURLMap =>
           /\ ShardEnds(req.host) = DOMAIN config.ProxyShardBackendHostURLMap[req.host]
           /\ Sortable(ShardEnds(req.host))
  BY ShardEndsTypes, Zenon
<1>3. req.decoded /\ parsed.res = "error" => Need(req) \in {Tip, Index}
  BY <1>1, ParsedNeed
<1>4. /\ req.decoded /\ parsed.res \notin {"panic", "error"} => parsed.res = "value"
      /\ req.decoded /\ parsed.res = "value" =>
           parsed.num \in Int /\ NumberNeed(req, parsed.num)
  BY <1>1, ParsedNeed
<1>5. ~req.decoded => Need(req) \in {Tip, Index}
  BY Zenon DEF Need
<1>6. CASE route = base /\ base.backend = "PRUNING"
  <2>1. PruningNeed(req)
    BY <1>1, <1>6, BaseRoute, RouteFields
  <2>2. req.decoded
    BY <2>1 DEF PruningNeed
  <2> QED  BY ZenonT(60), <1>1, <1>6, <2>1, <2>2, PruningHolds
<1>7. CASE /\ route = base /\ base.backend = "DEFAULT"
           /\ \/ ~config.EnableShardedRouting
              \/ req.host \notin DOMAIN config.ProxyShardBackendHostURLMap
  <2>1. \A k : DefaultHas(req.host, k)
    <3>1. CASE ~config.EnableShardedRouting
      BY <3>1 DEF config, ReadConfig, DefaultHas
    <3>2. CASE req.host \notin DOMAIN config.ProxyShardBackendHostURLMap
      BY <3>2, ZenonT(60) DEF ShardEnds, DefaultHas
    <3> QED  BY <1>7, <3>1, <3>2
  <2>2. Need(req) \in {Tip, Index} \/ \E k : Need(req) = Height(k)
    BY Zenon DEF Need, NeedOfParam
  <2> QED  BY <1>7, <2>1, <2>2, DefaultHolds
<1>8. CASE /\ route = base /\ base.backend = "DEFAULT" /\ config.EnableShardedRouting
           /\ req.host \in DOMAIN config.ProxyShardBackendHostURLMap /\ req.decoded
           /\ parsed.res # "panic"
           /\ parsed.res = "error" \/ height < 1 \/ ~lookup.found
  <2>1. /\ ShardEnds(req.host) = DOMAIN config.ProxyShardBackendHostURLMap[req.host]
        /\ Sortable(ShardEnds(req.host))
    BY ZenonT(60), <1>2, <1>8
  <2>2. CASE parsed.res = "error"
    BY Zenon, <1>3, <1>8, <2>2, DefaultHolds
  <2>3. CASE parsed.res # "error"
    <3>1. parsed.num \in Int /\ NumberNeed(req, parsed.num)
      BY Zenon, <1>4, <1>8, <2>3
    <3> HIDE DEF parsed
    <3>2. CASE height < 1
      <4>1. Need(req) \in {Tip, Index}
        BY Zenon, <3>1, <3>2, LookedUpHeight
      <4> QED  BY <1>8, <4>1, DefaultHolds
    <3>3. CASE ~(height < 1)
      <4>1. height \in Nat /\ Need(req) = Height(height)
        BY Zenon, <3>1, <3>3, LookedUpHeight
      <4>2. ~lookup.found
        BY <1>8, <2>3, <3>3
      <4> HIDE DEF height
      <4>3. \A e \in ShardEnds(req.host) : e < height
        BY ZenonT(60), <1>2, <2>1, <4>1, <4>2, LookupIsLeast
      <4> QED  BY <1>8, <4>1, <4>3, DefaultHolds, Zenon DEF DefaultHas
    <3> QED  BY ZenonT(60), <3>2, <3>3
  <2> QED  BY <2>2, <2>3
<1>9. CASE /\ config.EnableShardedRouting
           /\ req.host \in DOMAIN config.ProxyShardBackendHostURLMap /\ req.decoded
           /\ parsed.res \notin {"panic", "error"} /\ ~(height < 1) /\ lookup.found
           /\ route.backend = "SHARD" /\ route.end = lookup.end
  <2>1. /\ ShardEnds(req.host) = DOMAIN config.ProxyShardBackendHostURLMap[req.host]
        /\ Sortable(ShardEnds(req.host))
    BY ZenonT(60), <1>2, <1>9
  <2>2. parsed.num \in Int /\ NumberNeed(req, parsed.num)
    BY Zenon, <1>4, <1>9
  <2> HIDE DEF parsed
  <2>3. height \in Nat /\ Need(req) = Height(height)
    BY <1>9, <2>2, LookedUpHeight
  <2> HIDE DEF height
  <2>4. InShard(req.host, route.end, height)
    <3> DEFINE S == ShardEnds(req.host)
    <3>1. S \in SUBSET Nat /\ Sortable(S) /\ lookup = Lookup(S, height)
      BY <1>2, <2>1, Zenon
    <3> HIDE DEF S, lookup
    <3>2. /\ lookup.end \in S /\ height <= lookup.end
          /\ \A d \in S : d < lookup.end => d < height
      BY ZenonT(60), <1>9, <2>3, <3>1, LookupIsLeast
    <3> QED  BY <1>9, <3>2, ZenonT(60) DEF InShard, S
  <2> QED  BY SMTT(60), <1>9, <2>3, <2>4, NeedKinds, HoldsByKind
<1>10. base.backend \in {"DEFAULT", "PRUNING"}
  BY Zenon, <1>1, BaseRoute, RouteFields
<1>11. CASE route = base /\ ~req.decoded /\ base.backend = "DEFAULT"
  BY Zenon, <1>5, <1>11, DefaultHolds
<1>12. CASE ~config.EnableShardedRouting
  BY Zenon, <1>1, <1>6, <1>7, <1>10, <1>12
<1>13. CASE config.EnableShardedRouting
  <2>1. route = ShardProxies(config, base, req)
    BY ZenonT(60), <1>1, <1>13
  <2>2. \/ /\ route = base
           /\ \/ req.host \notin DOMAIN config.ProxyShardBackendHostURLMap
              \/ base.res # "found" \/ base.backend # "DEFAULT" \/ ~req.decoded
              \/ /\ parsed.res # "panic"
                 /\ parsed.res = "error" \/ height < 1 \/ ~lookup.found
        \/ route = RoutePanic
        \/ /\ req.host \in DOMAIN config.ProxyShardBackendHostURLMap /\ req.decoded
           /\ parsed.res \notin {"panic", "error"} /\ ~(height < 1) /\ lookup.found
           /\ route.backend = "SHARD" /\ route.end = lookup.end
    BY <2>1, ShardRoute
  <2>3. route # RoutePanic
    BY ZenonT(60), RouteFields
  <2> HIDE DEF base, parsed, height, lookup
  <2>4. CASE route = base
    <3>1. base.res = "found"
      BY <2>4, Zenon
    <3> QED  BY SMTT(60), <1>6, <1>7, <1>8, <1>10, <1>11, <1>13, <2>2, <2>3, <2>4, <3>1
  <2> QED  BY ZenonT(60), <1>9, <1>13, <2>2, <2>3, <2>4
<1> QED  BY <1>12, <1>13

(***************************************************************************)
(* For every tag, height, method and environment, but sharding without     *)
(* height-based routing: a request reaches a backend that holds what it    *)
(* needs (shard.go).                                                       *)
(***************************************************************************)
THEOREM HoldersAreReached == Spec => []RoutedToHolder
<1>1. IInv => RoutedToHolder
  BY RoutedHolds, ZenonT(60) DEF RoutedToHolder, SwitchesAreIndependent, Routed
<1> QED  BY <1>1, Inductive, PTL

(***************************************************************************)
(* For every environment that passes Validate, shards of any number and    *)
(* any height: the lookup returns the shard that holds the height, and     *)
(* nothing only beyond the last one (intervalmap.go:33).  Lookup has the   *)
(* ends in order because the parser accepts no other list.                 *)
(***************************************************************************)
THEOREM LookupCorrect == Spec => []LookupIsCorrect
<1>1. ASSUME IInv, NEW h \in DOMAIN config.ProxyShardBackendHostURLMap, NEW k \in 1 .. MaxInt64
      PROVE  LET lookup == Lookup(ShardEnds(h), k)
             IN IF \A e \in ShardEnds(h) : e < k
                THEN lookup = NoInterval
                ELSE lookup.found /\ InShard(h, lookup.end, k)
  <2> DEFINE S == ShardEnds(h)
             lookup == Lookup(S, k)
  <2>1. S \in SUBSET Nat /\ Sortable(S)
    BY <1>1, ShardEndsTypes, Zenon
  <2>2. k \in Nat
    BY Int64Assumption
  <2> HIDE DEF S
  <2>3. /\ lookup.found \in BOOLEAN
        /\ ~lookup.found => lookup = NoInterval /\ \A e \in S : e < k
        /\ lookup.found => /\ lookup.end \in S /\ k <= lookup.end
                           /\ \A d \in S : d < lookup.end => d < k
    BY ZenonT(60), <2>1, <2>2, LookupIsLeast
  <2> HIDE DEF lookup
  <2>4. CASE \A e \in S : e < k
    <3>1. ~lookup.found
      <4>1. lookup.found => lookup.end \in S /\ k <= lookup.end /\ lookup.end < k
        BY <2>3, <2>4, Zenon
      <4>2. lookup.end \in S => lookup.end \in Nat
        BY Zenon, <2>1
      <4> QED  BY <2>2, <4>1, <4>2
    <3> QED  BY <2>3, <2>4, <3>1, Zenon DEF S, lookup
  <2>5. CASE ~ \A e \in S : e < k
    <3>1. lookup.found
      BY <2>3, <2>5, Zenon
    <3>2. InShard(h, lookup.end, k)
      BY <2>3, <3>1, Zenon DEF InShard, S
    <3> QED  BY <2>5, <3>1, <3>2, Zenon DEF S, lookup
  <2> QED  BY Zenon, <2>4, <2>5
<1>2. IInv => LookupIsCorrect
  BY <1>1, Zenon DEF LookupIsCorrect
<1> QED  BY <1>2, Inductive, PTL

(***************************************************************************)
(* For every environment that passes Validate: the hosts that get no       *)
(* backend are those without a default one (proxy.go:71, validate.go:138). *)
(***************************************************************************)
THEOREM OnlyUnknownHostsAreRefused == Spec => []UnknownHostsOnlyAreRefused
<1>1. ASSUME IInv, Routed, route.res # "panic"
      PROVE  route.res = "notfound" <=> req.host \notin DOMAIN config.ProxyBackendHostURLMapParsed
  <2> DEFINE base == Base(config, req)
             known == req.host \in DOMAIN config.ProxyBackendHostURLMapParsed
  <2>1. /\ req \in Requests
        /\ route = IF config.EnableShardedRouting THEN ShardProxies(config, base, req) ELSE base
    BY <1>1, Proxied, Zenon DEF Routed
  <2>2. DOMAIN config.ProxyPruningBackendHostURLMap \subseteq
          DOMAIN config.ProxyBackendHostURLMapParsed
    BY <1>1, Zenon DEF IInv, Routed, Validate, validateDefaultHostMapContainsHosts
  <2>3. \/ base.res = "panic"
        \/ base.res = "found" /\ known
        \/ base.res = "notfound" /\ ~known
    BY ZenonT(60), <2>1, <2>2, BaseRoute, RouteFields
  <2>4. \/ ShardProxies(config, base, req) \in {base, RoutePanic}
        \/ base.res = "found" /\ ShardProxies(config, base, req).res = "found"
    BY ShardRoute
  <2> HIDE DEF base, known
  <2> QED  BY <1>1, <2>1, <2>3, <2>4, RouteFields DEF known
<1>2. IInv => UnknownHostsOnlyAreRefused
  BY <1>1, Zenon DEF UnknownHostsOnlyAreRefused
<1> QED  BY <1>2, Inductive, PTL

(***************************************************************************)
(* What ShardProxies finds is the end of one of the host's shards.         *)
(***************************************************************************)
LEMMA NumberParsed ==
  ASSUME NEW r \in Requests
  PROVE  ParseBlockNumberFromParams(r.method, r.params).num \in Int
<1> DEFINE i == MethodNameToBlockNumberParamIndex[r.method] + 1
<1>1. CASE r.method \in DOMAIN MethodNameToBlockNumberParamIndex
  <2>1. i \in Nat /\ 1 <= i
    BY <1>1, BlockNumberMethods
  <2>2. Len(r.params) \in Nat
    <3>1. r.params \in Seq(Params)
      BY RoutingAssumption, Zenon
    <3> QED  BY <3>1
  <2>3. ParseBlockNumberFromParams(r.method, r.params) =
          IF i > Len(r.params) THEN Panic ELSE BlockNumberOf(r.params[i])
    BY <1>1, Zenon DEF ParseBlockNumberFromParams
  <2> HIDE DEF i
  <2>4. CASE i > Len(r.params)
    BY <2>3, <2>4 DEF Panic
  <2>5. CASE ~(i > Len(r.params))
    <3>1. i <= Len(r.params)
      BY SMTT(60), <2>1, <2>2, <2>5
    <3>2. BlockNumberOf(r.params[i]).num \in Int
      BY SMTT(60), <2>1, <3>1, ParamTypes, BlockNumberIsInt
    <3> QED  BY <2>3, <2>5, <3>2
  <2> QED  BY <2>4, <2>5
<1>2. CASE r.method \notin DOMAIN MethodNameToBlockNumberParamIndex
  BY <1>2 DEF ParseBlockNumberFromParams, Error
<1> QED  BY <1>1, <1>2

(***************************************************************************)
(* The end that a lookup returns is that of a shard of the host.           *)
(***************************************************************************)
LEMMA ShardLookup ==
  ASSUME IInv, NEW r \in Requests, NEW h \in DOMAIN config.ProxyShardBackendHostURLMap
  PROVE  LET height == ShardHeight(ParseBlockNumberFromParams(r.method, r.params).num)
             lookup == Lookup(DOMAIN config.ProxyShardBackendHostURLMap[h], height)
         IN ~(height < 1) /\ lookup.found =>
              lookup.end \in DOMAIN config.ProxyShardBackendHostURLMap[h]
<1> DEFINE num == ParseBlockNumberFromParams(r.method, r.params).num
           height == ShardHeight(num)
           S == DOMAIN config.ProxyShardBackendHostURLMap[h]
<1>1. num \in Int
  BY NumberParsed
<1>2. height \in Int
  BY <1>1 DEF ShardHeight
<1>3. S \in SUBSET Nat /\ Sortable(S)
  <2>1. S \subseteq Nat \ {0} /\ Sortable(S)
    BY ShardsArePositive, Zenon
  <2> HIDE DEF S
  <2> QED  BY <2>1
<1> HIDE DEF height, S
<1>4. ~(height < 1) => height \in Nat
  BY <1>2
<1>5. ~(height < 1) /\ Lookup(S, height).found => Lookup(S, height).end \in S
  BY Zenon, <1>3, <1>4, LookupIsLeast
<1> QED  BY <1>5, Zenon DEF height, S

(***************************************************************************)
(* The host maps of a service that runs are those of its environment.      *)
(***************************************************************************)
LEMMA RawHosts ==
  ASSUME NEW e \in Envs
  PROVE  /\ Len(e.default) \in Nat /\ DOMAIN e.default = 1 .. Len(e.default)
         /\ Len(e.pruning) \in Nat /\ DOMAIN e.pruning = 1 .. Len(e.pruning)
<1> DEFINE E == [host : STRING, url : STRING, ok : BOOLEAN]
<1>1. e.default \in Seq(E) /\ e.pruning \in Seq(E)
  BY RoutingAssumption, Zenon
<1> HIDE DEF E
<1> QED  BY <1>1

(***************************************************************************)
(* The default url of a host is that of its last entry.                    *)
(***************************************************************************)
LEMMA DefaultIsConfigured ==
  ASSUME IInv, phase = "running", NEW h \in DOMAIN config.ProxyBackendHostURLMapParsed
  PROVE  \E i \in DOMAIN env.default :
           /\ IsLastOf(env.default, i, h)
           /\ env.default[i].url = config.ProxyBackendHostURLMapParsed[h]
<1>1. config.ProxyBackendHostURLMapParsed = ParseRawProxyBackendHostURLMap(env.default).map
  BY DEF config, ReadConfig
<1>2. ~ParseRawProxyBackendHostURLMap(env.default).err
  BY Zenon DEF IInv, Validate, validateHostURLMap
<1>3. Len(env.default) \in Nat /\ DOMAIN env.default = 1 .. Len(env.default)
  BY RawHosts, Zenon DEF IInv
<1>4. h \in DOMAIN ParseRawProxyBackendHostURLMap(env.default).map
  BY <1>1, Zenon
<1>5. \E i \in DOMAIN env.default :
        /\ IsLastOf(env.default, i, h)
        /\ env.default[i].url = ParseRawProxyBackendHostURLMap(env.default).map[h]
  BY ZenonT(60), <1>2, <1>3, <1>4, LastEntryWins
<1> QED  BY Zenon, <1>1, <1>5

(***************************************************************************)
(* The same for the pruning map, which may be empty (validate.go:43).      *)
(***************************************************************************)
LEMMA PruningIsConfigured ==
  ASSUME IInv, phase = "running", NEW h \in DOMAIN config.ProxyPruningBackendHostURLMap
  PROVE  \E i \in DOMAIN env.pruning :
           /\ IsLastOf(env.pruning, i, h)
           /\ env.pruning[i].url = config.ProxyPruningBackendHostURLMap[h]
<1> DEFINE parsed == ParseRawProxyBackendHostURLMap(env.pruning)
<1>1. config.ProxyPruningBackendHostURLMap = parsed.map
  BY DEF config, ReadConfig
<1>2. ~parsed.err \/ parsed.empty
  BY Zenon DEF IInv, Validate, validateHostURLMap
<1>3. Len(env.pruning) \in Nat /\ DOMAIN env.pruning = 1 .. Len(env.pruning)
  BY RawHosts, ZenonT(60) DEF IInv
<1>4. ~parsed.empty
  <2>1. parsed.empty => env.pruning = <<>>
    BY ZenonT(60) DEF ParseRawProxyBackendHostURLMap
  <2>2. DOMAIN parsed.map =
          {env.pruning[i].host : i \in {i \in DOMAIN env.pruning : env.pruning[i].ok}}
    BY DEF ParseRawProxyBackendHostURLMap
  <2>3. DOMAIN env.pruning # {}
    BY <1>1, <2>2
  <2> HIDE DEF parsed
  <2> QED  BY <2>1, <2>3
<1>5. h \in DOMAIN parsed.map
  BY <1>1, Zenon
<1>6. \E i \in DOMAIN env.pruning :
        IsLastOf(env.pruning, i, h) /\ env.pruning[i].url = parsed.map[h]
  BY ZenonT(60), <1>2, <1>3, <1>4, <1>5, LastEntryWins
<1> QED  BY ZenonT(60), <1>1, <1>6

(***************************************************************************)
(* The url of a shard is one of the host's last entry, for the same end.   *)
(***************************************************************************)
LEMMA ShardIsConfigured ==
  ASSUME IInv, phase = "running", NEW h \in DOMAIN config.ProxyShardBackendHostURLMap,
         NEW end \in DOMAIN config.ProxyShardBackendHostURLMap[h]
  PROVE  \E i \in DOMAIN env.shards : \E k \in DOMAIN env.shards[i].shards :
           /\ IsLastOf(env.shards, i, h)
           /\ env.shards[i].shards[k].end = end
           /\ env.shards[i].shards[k].url = config.ProxyShardBackendHostURLMap[h][end]
<1>1. config.ProxyShardBackendHostURLMap = ParseRawShardRoutingBackendHostURLMap(env.shards).map
  BY DEF config, ReadConfig
<1>2. ~ParseRawShardRoutingBackendHostURLMap(env.shards).err /\ env \in Envs
  BY Zenon DEF IInv, Validate
<1> DEFINE map == ParseRawShardRoutingBackendHostURLMap(env.shards).map
<1>3. h \in DOMAIN map /\ end \in DOMAIN map[h]
  BY ZenonT(60), <1>1
<1>4. \E i \in DOMAIN env.shards : \E k \in DOMAIN env.shards[i].shards :
        /\ IsLastOf(env.shards, i, h)
        /\ env.shards[i].shards[k].end = end
        /\ env.shards[i].shards[k].url = map[h][end]
  BY SMTT(60), <1>2, <1>3, LastShardsWin
<1> QED  BY ZenonT(60), <1>1, <1>4

(***************************************************************************)
(* For every environment: a request is sent only to the url that the last  *)
(* entry of its host names, and of the shards to the one that ends where   *)
(* the route says (config.go:195, config.go:234, shard.go:171).            *)
(***************************************************************************)
THEOREM RoutesAreConfigured == Spec => []RouteIsConfigured
<1>1. ASSUME IInv, Routed, route.res = "found" PROVE RouteIsConfigured
  <2> DEFINE base == Base(config, req)
             parsed == ParseBlockNumberFromParams(req.method, req.params)
             height == ShardHeight(parsed.num)
             shards == config.ProxyShardBackendHostURLMap[req.host]
             lookup == Lookup(DOMAIN shards, height)
  <2>1. /\ phase = "running" /\ req \in Requests
        /\ route = IF config.EnableShardedRouting THEN ShardProxies(config, base, req) ELSE base
    BY <1>1, Proxied, Zenon DEF Routed
  <2>2. CASE route = base /\ base.backend = "DEFAULT"
    <3>1. /\ req.host \in DOMAIN config.ProxyBackendHostURLMapParsed
          /\ route.url = config.ProxyBackendHostURLMapParsed[req.host]
      BY Zenon, <1>1, <2>1, <2>2, BaseRoute, RouteFields
    <3> QED  BY <1>1, <2>1, <2>2, <3>1, DefaultIsConfigured, ZenonT(60) DEF RouteIsConfigured
  <2>3. CASE route = base /\ base.backend = "PRUNING"
    <3>1. /\ req.host \in DOMAIN config.ProxyPruningBackendHostURLMap
          /\ route.url = config.ProxyPruningBackendHostURLMap[req.host]
      BY SMTT(60), <1>1, <2>1, <2>3, BaseRoute, RouteFields
    <3> QED  BY <1>1, <2>1, <2>3, <3>1, PruningIsConfigured, ZenonT(60) DEF RouteIsConfigured
  <2>4. CASE /\ req.host \in DOMAIN config.ProxyShardBackendHostURLMap /\ req.decoded
             /\ parsed.res \notin {"panic", "error"} /\ ~(height < 1) /\ lookup.found
             /\ route.backend = "SHARD" /\ route.end = lookup.end
             /\ route.url = shards[lookup.end]
    <3>1. lookup.end \in DOMAIN shards
      BY ZenonT(60), <1>1, <2>1, <2>4, ShardLookup
    <3>2. \E i \in DOMAIN env.shards : \E k \in DOMAIN env.shards[i].shards :
            /\ IsLastOf(env.shards, i, req.host)
            /\ env.shards[i].shards[k].end = lookup.end
            /\ env.shards[i].shards[k].url = shards[lookup.end]
      <4> HIDE DEF lookup
      <4> QED  BY ZenonT(60), <1>1, <2>1, <2>4, <3>1, ShardIsConfigured
    <3> HIDE DEF shards, lookup
    <3> QED  BY <2>4, <3>2, ZenonT(60) DEF RouteIsConfigured
  <2>5. base.backend \in {"DEFAULT", "PRUNING"}
    BY <2>1, BaseRoute, RouteFields
  <2>6. \/ route \in {base, RoutePanic}
        \/ /\ req.host \in DOMAIN config.ProxyShardBackendHostURLMap /\ req.decoded
           /\ parsed.res \notin {"panic", "error"} /\ ~(height < 1) /\ lookup.found
           /\ route.backend = "SHARD" /\ route.end = lookup.end
           /\ route.url = shards[lookup.end]
    <3>1. CASE config.EnableShardedRouting
      BY <2>1, <3>1, ShardRoute
    <3>2. CASE ~config.EnableShardedRouting
      BY <2>1, <3>2, Zenon
    <3> QED  BY ZenonT(60), <3>1, <3>2
  <2>7. route # RoutePanic
    BY <1>1, RouteFields, Zenon
  <2> HIDE DEF base, parsed, height, shards, lookup
  <2> QED  BY ZenonT(60), <2>2, <2>3, <2>4, <2>5, <2>6, <2>7
<1>2. IInv => RouteIsConfigured
  BY <1>1, Zenon DEF RouteIsConfigured
<1> QED  BY <1>2, Inductive, PTL
=============================================================================
