------------------------ MODULE RequestPipelineProofs -----------------------
(***************************************************************************)
(* Proofs about RequestPipeline, for any handlers, calls, backends and     *)
(* routing, and a chain of any length.                                     *)
(***************************************************************************)
EXTENDS RequestPipeline, TLAPS, Extrema

LEMMA Heights == MaxHeight \in Nat /\ MaxHeight >= 1
<1>1. MaxHeight \in Nat \ {0}
  BY Zenon, PipelineAssumption
<1> QED  BY <1>1

(***************************************************************************)
(* What a response that is stored says of its call.  It is a result, since *)
(* errors, empty results and pending transactions are not cacheable, ...   *)
(***************************************************************************)
LEMMA StoredIsData ==
  ASSUME NEW c \in Calls, NEW h \in 1 .. MaxHeight, NEW r \in Truth(c, h),
         CacheableResponse(c.method, r)
  PROVE  r.kind = "data"
BY DEF Truth, AtBlock, Result, CacheableResponse, IsResponseCacheable, IsResultEmpty,
       IsFinal, IsIncludedInBlock

LEMMA ParamsAreSequences == \A c \in Calls : c.params \in Seq(Params)
BY Zenon, PipelineAssumption

LEMMA ParamTypes ==
  ASSUME NEW c \in Calls, NEW i \in Nat, 1 <= i, i <= Len(c.params)
  PROVE  /\ c.params[i].kind \in {"null", "object", "word", "tag", "number"}
         /\ c.params[i].num \in Int
         /\ c.params[i].kind = "tag" => c.params[i].tag \in DOMAIN BlockTagToNumberCodec
         /\ c.params[i].kind = "word" => c.params[i].num >= 0
<1>1. c.params \in Seq(Params)
  BY ParamsAreSequences
<1>2. c.params[i] \in Params /\ i \in DOMAIN c.params
  BY <1>1
<1>3. /\ c.params[i].kind = "tag" => c.params[i].tag # ""
      /\ c.params[i].kind = "word" => c.params[i].num >= 0
  BY Zenon, <1>2, PipelineAssumption
<1> QED  BY <1>2, <1>3, Zenon DEF Params

(***************************************************************************)
(* ... the block it names has a positive number or is the first one, ...   *)
(***************************************************************************)
LEMMA CacheableBlock ==
  ASSUME NEW c \in Calls, MethodHasBlockNumberParam(c.method), IsCacheable(c) = "yes"
  PROVE  \/ BlockParam(c).kind = "number" /\ BlockParam(c).num \in Int
         \/ BlockParam(c).kind = "tag" /\ BlockParam(c).tag = "earliest"
<1> DEFINE i == MethodNameToBlockNumberParamIndex[c.method] + 1
           parsed == ParseBlockNumberFromParams(c.method, c.params)
<1>1. parsed.res = "value" /\ (parsed.num > 0 \/ parsed.num = -3)
  BY DEF IsCacheable, BlockTagToNumberCodec
<1>2. c.method \in DOMAIN MethodNameToBlockNumberParamIndex /\ i \in Nat /\ 1 <= i
  BY DEF MethodHasBlockNumberParam, CacheableByBlockNumberMethods,
         MethodNameToBlockNumberParamIndex
<1>3. i <= Len(c.params) /\ parsed = BlockNumberOf(c.params[i])
  <2>1. Len(c.params) \in Nat
    BY ParamsAreSequences
  <2>2. parsed = IF i > Len(c.params) THEN Panic ELSE BlockNumberOf(c.params[i])
    BY <1>2 DEF ParseBlockNumberFromParams
  <2> QED  BY <1>1, <1>2, <2>1, <2>2 DEF Panic
<1>4. BlockParam(c) = c.params[i]
  BY <1>3 DEF BlockParam
<1>5. /\ c.params[i].kind \in {"null", "object", "word", "tag", "number"}
      /\ c.params[i].num \in Int
      /\ c.params[i].kind = "tag" => c.params[i].tag \in DOMAIN BlockTagToNumberCodec
  BY <1>2, <1>3, ParamTypes
<1> HIDE DEF i, parsed
<1>6. CASE c.params[i].kind = "tag"
  <2>1. parsed.num = BlockTagToNumberCodec[c.params[i].tag]
    BY <1>3, <1>6 DEF BlockNumberOf, Value
  <2> QED  BY <2>1, <1>1, <1>4, <1>5, <1>6 DEF BlockTagToNumberCodec
<1>7. CASE c.params[i].kind = "number"
  BY <1>4, <1>5, <1>7
<1>8. CASE c.params[i].kind = "null"
  BY <1>1, <1>3, <1>8, SMTT(60) DEF BlockNumberOf, Value, BlockTagToNumberCodec
<1>9. CASE c.params[i].kind \in {"object", "word"}
  BY <1>1, <1>3, <1>9 DEF BlockNumberOf, Error
<1> QED  BY <1>5, <1>6, <1>7, <1>8, <1>9

LEMMA HashTypes ==
  ASSUME NEW c \in Calls, HashParam(c).kind = "word"
  PROVE  HashParam(c).num \in Nat
<1>1. c.params \in Seq(Params)
  BY ParamsAreSequences
<1>2. c.params # <<>> /\ HashParam(c) = c.params[1]
  BY Zenon DEF HashParam, Null, Param
<1>3. 1 <= Len(c.params)
  BY <1>1, <1>2
<1> QED  BY <1>2, <1>3, ParamTypes

(***************************************************************************)
(* ... and no later height of the chain says anything else.                *)
(***************************************************************************)
LEMMA StoredIsStable ==
  ASSUME NEW c \in Calls, IsCacheable(c) = "yes",
         NEW h \in 1 .. MaxHeight, NEW r \in Truth(c, h), CacheableResponse(c.method, r)
  PROVE  /\ r.kind = "data" /\ r.v \in 0 .. MaxHeight
         /\ \A g \in h .. MaxHeight : Truth(c, g) = {r}
<1>0. MaxHeight \in Nat
  BY Zenon, PipelineAssumption
<1>1. r.kind = "data"
  BY StoredIsData
<1>2. ASSUME NEW k \in Nat, r \in AtBlock(k, h)
      PROVE  r.v \in 0 .. MaxHeight /\ \A g \in h .. MaxHeight : AtBlock(k, g) = {r}
  <2>1. k <= h /\ r = Result("data", k)
    BY <1>1, <1>2 DEF AtBlock, Result
  <2> QED  BY <2>1, <1>0 DEF AtBlock, Result
<1>3. CASE MethodHasBlockNumberParam(c.method)
  <2>1. CASE BlockParam(c).kind = "number" /\ BlockParam(c).num \in Int
    <3>1. ASSUME NEW g \in Int
          PROVE  Truth(c, g) = IF BlockParam(c).num < 1 THEN {Result("error", 0)}
                               ELSE AtBlock(BlockParam(c).num, g)
      BY <1>3, <2>1 DEF Truth
    <3>2. BlockParam(c).num >= 1
      BY <1>1, <2>1, <3>1, <1>0 DEF Result
    <3> QED  BY <1>0, <1>1, <1>2, <2>1, <3>1, <3>2
  <2>2. CASE BlockParam(c).kind = "tag" /\ BlockParam(c).tag = "earliest"
    <3>1. ASSUME NEW g \in Int PROVE Truth(c, g) = AtBlock(1, g)
      BY <1>3, <2>2 DEF Truth
    <3> QED  BY <1>0, <1>1, <1>2, <3>1
  <2> QED  BY <1>3, <2>1, <2>2, CacheableBlock
<1>4. CASE ~MethodHasBlockNumberParam(c.method) /\ IsMethodStatic(c.method)
  <2>1. \A g : Truth(c, g) = {Result("data", 0)}
    BY <1>4 DEF Truth
  <2> QED  BY <1>0, <1>1, <2>1 DEF Result
<1>5. CASE ~MethodHasBlockNumberParam(c.method) /\ ~IsMethodStatic(c.method)
  <2>1. MethodHasBlockHashParam(c.method) \/ MethodHasTxHashParam(c.method)
    BY <1>5 DEF IsCacheable
  <2>2. HashParam(c).kind = "word"
    BY <1>1, <1>5, <2>1 DEF Truth, Result
  <2>3. HashParam(c).num \in Nat
    BY <2>2, HashTypes
  <2>4. CASE MethodHasBlockHashParam(c.method)
    <3>1. \A g : Truth(c, g) = AtBlock(HashParam(c).num, g)
      BY <1>5, <2>2, <2>4 DEF Truth
    <3> QED  BY <1>0, <1>1, <1>2, <2>3, <3>1
  <2>5. CASE ~MethodHasBlockHashParam(c.method)
    <3>1. ASSUME NEW g \in Int, HashParam(c).num <= g
          PROVE  Truth(c, g) = {Result("data", HashParam(c).num)}
      BY <1>5, <2>1, <2>2, <2>5, <3>1 DEF Truth
    <3>2. HashParam(c).num <= h
      BY <1>1, <1>5, <2>1, <2>2, <2>3, <2>5 DEF Truth, Result
    <3>3. r = Result("data", HashParam(c).num)
      BY <3>1, <3>2, <1>0
    <3> QED  BY <1>0, <1>1, <2>3, <3>1, <3>2, <3>3 DEF Result
  <2> QED  BY <2>4, <2>5
<1> QED  BY <1>3, <1>4, <1>5

(***************************************************************************)
(* Calls with one key are one call to the chain.                           *)
(***************************************************************************)
LEMMA SameKeySameTruth ==
  ASSUME NEW c \in Calls, NEW d \in Calls, GetQueryKey(c) = GetQueryKey(d), NEW h
  PROVE  Truth(c, h) = Truth(d, h)
<1>1. c.method = d.method /\ c.params = d.params
  BY DEF GetQueryKey
<1>2. BlockParam(c) = BlockParam(d) /\ HashParam(c) = HashParam(d)
  BY <1>1 DEF BlockParam, HashParam
<1> QED  BY <1>1, <1>2 DEF Truth

-----------------------------------------------------------------------------
(***************************************************************************)
(* Tip is the height of the backend that knows most.                       *)
(***************************************************************************)
LEMMA HighestExists ==
  ASSUME NEW v \in [URLs -> 1 .. MaxHeight]
  PROVE  \E h \in {v[u] : u \in URLs} : \A u \in URLs : v[u] <= h
<1> DEFINE T == {v[u] : u \in URLs}
<1>1. MaxHeight \in Nat
  BY Heights
<1>2. T \in SUBSET Nat /\ T # {} /\ \A h \in T : h <= MaxHeight
  BY <1>1, BackendAssumption
<1>3. \E h \in T : \A g \in T : g <= h
  <2> HIDE DEF T
  <2> QED  BY <1>1, <1>2, GreatestExists, Zenon
<1> QED  BY <1>3, Zenon

LEMMA TipIsHighest ==
  ASSUME view \in [URLs -> 1 .. MaxHeight], view' \in [URLs -> 1 .. MaxHeight]
  PROVE  /\ (\E u \in URLs : Tip = view[u]) /\ \A u \in URLs : view[u] <= Tip
         /\ (\E u \in URLs : Tip' = view'[u]) /\ \A u \in URLs : view'[u] <= Tip'
<1>1. \E h \in {view[u] : u \in URLs} : \A u \in URLs : view[u] <= h
  BY HighestExists
<1>2. \E h \in {view'[u] : u \in URLs} : \A u \in URLs : view'[u] <= h
  BY HighestExists
<1> QED  BY Zenon, <1>1, <1>2 DEF Tip

(***************************************************************************)
(* Chains only grow, so what is settled stays settled.                     *)
(***************************************************************************)
LEMMA ViewsGrow ==
  ASSUME view \in [URLs -> 1 .. MaxHeight], [Next]_vars
  PROVE  /\ view' \in [URLs -> 1 .. MaxHeight]
         /\ \A u \in URLs : view[u] <= view'[u]
<1>0. MaxHeight \in Nat
  BY Zenon, PipelineAssumption
<1>1. CASE UNCHANGED view
  BY <1>0, <1>1
<1>2. ASSUME NEW u \in URLs, Advance(u)
      PROVE  /\ view' \in [URLs -> 1 .. MaxHeight]
             /\ \A w \in URLs : view[w] <= view'[w]
  BY <1>0, <1>2 DEF Advance
<1>3. ASSUME NEW p \in Handlers, Receive(p) \/ BlockHashResolved(p) \/ SaveMetric(p)
      PROVE  UNCHANGED view
  BY Zenon, <1>3 DEF Receive, BlockHashResolved, SpawnSave, SaveMetric
<1>4. ASSUME NEW p \in Handlers, Serve(p)
      PROVE  UNCHANGED view
  BY Zenon, <1>4
     DEF Serve, IsCachedMiddleware, IsCachedPanics, RefuseHost, ProxyPanics, ServeFromCache,
         Forward, BackendAnswers, BackendBreaks, CachingMiddleware, SkipMetric,
         LookupBlockHash, FinalizerPanics, FinalizeMetric, SpawnSave, Abort
<1>5. ASSUME NEW k \in Keys, Evict(k) PROVE UNCHANGED view
  BY Zenon, <1>5 DEF Evict
<1>6. UNCHANGED vars => UNCHANGED view
  BY DEF vars
<1> QED  BY <1>1, <1>2, <1>3, <1>4, <1>5, <1>6 DEF Next

LEMMA TipGrows ==
  ASSUME view \in [URLs -> 1 .. MaxHeight], [Next]_vars
  PROVE  Tip \in 1 .. MaxHeight /\ Tip' \in 1 .. MaxHeight /\ Tip <= Tip'
<1>0. MaxHeight \in Nat
  BY Zenon, PipelineAssumption
<1>1. /\ view' \in [URLs -> 1 .. MaxHeight]
      /\ \A u \in URLs : view[u] <= view'[u]
  BY ViewsGrow
<1>2. PICK w \in URLs : Tip = view[w]
  BY <1>1, TipIsHighest
<1>3. (\E u \in URLs : Tip' = view'[u]) /\ \A u \in URLs : view'[u] <= Tip'
  BY <1>1, TipIsHighest
<1>4. view[w] <= view'[w] /\ view'[w] <= Tip' /\ Tip' \in 1 .. MaxHeight
  BY <1>1, <1>3
<1> HIDE DEF Tip
<1> QED  BY <1>0, <1>1, <1>2, <1>4

LEMMA SettledStays ==
  ASSUME view \in [URLs -> 1 .. MaxHeight], [Next]_vars, NEW c, NEW res, Settled(c, res)
  PROVE  \A h \in Tip' .. MaxHeight : Truth(c, h) = {res}
<1>1. Tip \in 1 .. MaxHeight /\ Tip' \in 1 .. MaxHeight /\ Tip <= Tip' /\ MaxHeight \in Nat
  BY Zenon, TipGrows, PipelineAssumption
<1>2. \A h \in Tip .. MaxHeight : Truth(c, h) = {res}
  BY DEF Settled
<1>3. \A h \in Tip' .. MaxHeight : h \in Tip .. MaxHeight
  <2> HIDE DEF Tip
  <2> QED  BY <1>1
<1> QED  BY <1>2, <1>3

-----------------------------------------------------------------------------
(* Types *)

Results == [kind : ResultKinds, v : Int]
Origins == {"", "backend"} \cup {AllowOrigin[c.host] : c \in Calls}
Answers == [status : {0, 200, 502}, cache : {"none", "HIT", "MISS"}, res : Results,
            origin : Origins]
Metrics == [save : {"none", "running", "saved", "failed"}, cacheHit : BOOLEAN,
            backend : Backends, batch : BOOLEAN, ip : {"", "forwarded", "remote"}]
Routes == {r \in {NotFound} \cup {ProxyForRequest(RoutingConfig, c) : c \in Calls} :
             r.res # "panic"}
Labels == {"idle", "received", "looked", "forwarded", "proxied", "stored", "resolving",
           "done", "aborted"}

Types ==
  /\ config \in Switches
  /\ view \in [URLs -> 1 .. MaxHeight]
  /\ cache \in [Keys -> Entries]
  /\ pc \in [Handlers -> Labels]
  /\ call \in [Handlers -> Calls \cup {NoCall}]
  /\ hit \in [Handlers -> Entries]
  /\ route \in [Handlers -> Routes]
  /\ body \in [Handlers -> Results]
  /\ answer \in [Handlers -> Answers]
  /\ metric \in [Handlers -> Metrics]

LEMMA HostProxiesTypes ==
  ASSUME NEW name \in Backends, NEW m, NEW c
  PROVE  /\ HostProxies(name, m, c).res \in {"found", "notfound"}
         /\ HostProxies(name, m, c).backend \in Backends
BY DEF HostProxies, Route, NotFound, Backends

LEMMA RouteTypes ==
  ASSUME NEW c \in Calls
  PROVE  /\ ProxyForRequest(RoutingConfig, c).res \in {"found", "notfound", "panic"}
         /\ ProxyForRequest(RoutingConfig, c).backend \in Backends
<1> DEFINE base == IF RoutingConfig.EnableHeightBasedRouting
                   THEN PruningOrDefaultProxies(RoutingConfig, c)
                   ELSE HostProxies("DEFAULT", RoutingConfig.ProxyBackendHostURLMapParsed, c)
<1>1. base.res \in {"found", "notfound", "panic"} /\ base.backend \in Backends
  BY HostProxiesTypes DEF PruningOrDefaultProxies, RoutePanic, Backends
<1> HIDE DEF base
<1>2. /\ ShardProxies(RoutingConfig, base, c).res \in {"found", "notfound", "panic"}
      /\ ShardProxies(RoutingConfig, base, c).backend \in Backends
  BY <1>1 DEF ShardProxies, RoutePanic, Route, Backends
<1>3. ProxyForRequest(RoutingConfig, c) =
        IF RoutingConfig.EnableShardedRouting THEN ShardProxies(RoutingConfig, base, c) ELSE base
  BY DEF ProxyForRequest, base
<1> QED  BY SMTT(60), <1>1, <1>2, <1>3

LEMMA TruthTypes ==
  ASSUME NEW c \in Calls, NEW h \in 1 .. MaxHeight
  PROVE  Truth(c, h) \subseteq Results
<1>0. h \in Nat
  BY Heights
<1>1. ASSUME NEW k \in Int PROVE AtBlock(k, h) \subseteq Results
  BY DEF AtBlock, Results, Result, ResultKinds
<1>2. BlockParam(c).kind = "number" /\ MethodHasBlockNumberParam(c.method) =>
        BlockParam(c).num \in Int
  <2> DEFINE i == MethodNameToBlockNumberParamIndex[c.method] + 1
  <2>1. MethodHasBlockNumberParam(c.method) => i \in Nat /\ 1 <= i
    BY DEF MethodHasBlockNumberParam, CacheableByBlockNumberMethods,
           MethodNameToBlockNumberParamIndex
  <2>2. BlockParam(c).num = 0 \/ (i <= Len(c.params) /\ BlockParam(c) = c.params[i])
    BY Zenon DEF BlockParam, Null, Param
  <2> HIDE DEF i
  <2> QED  BY <2>1, <2>2, ParamTypes
<1>3. HashParam(c).kind = "word" => HashParam(c).num \in Nat
  BY HashTypes
<1> QED  BY <1>0, <1>1, <1>2, <1>3 DEF Truth, Results, Result, ResultKinds

LEMMA InitTypes == Init => Types
<1> SUFFICES ASSUME Init PROVE Types
  OBVIOUS
<1>1. MaxHeight \in Nat /\ MaxHeight >= 1
  BY Heights
<1>2. Miss \in Entries /\ NoBody \in Results
  BY <1>1 DEF Miss, Result, Entries, ResultKinds, NoBody, Results
<1>5. NotFound \in Routes
  BY Zenon DEF NotFound, Routes
<1>3. NoAnswer \in Answers
  BY <1>2 DEF NoAnswer, Answer, Answers, Origins
<1>4. NoMetric \in Metrics
  BY DEF NoMetric, Metrics, Backends
<1> QED  BY <1>1, <1>2, <1>3, <1>4, <1>5 DEF Init, Types, Labels

LEMMA TypesSuffice == Types => TypeOK
<1> SUFFICES ASSUME Types PROVE TypeOK
  OBVIOUS
<1>1. ASSUME NEW p \in Handlers
      PROVE  route[p].res \in {"found", "notfound"} /\ route[p].backend \in Backends
  <2>1. route[p] \in Routes
    BY DEF Types
  <2>2. \/ route[p] = NotFound
        \/ \E c \in Calls : route[p] = ProxyForRequest(RoutingConfig, c) /\ route[p].res # "panic"
    BY <2>1 DEF Routes
  <2>3. NotFound.res = "notfound" /\ NotFound.backend \in Backends
    BY DEF NotFound, Backends
  <2> HIDE DEF NotFound
  <2> QED  BY <2>2, <2>3, RouteTypes
<1>2. ASSUME NEW p \in Handlers
      PROVE  /\ body[p].kind \in ResultKinds /\ answer[p].res.kind \in ResultKinds
             /\ answer[p].status \in {0, 200, 502}
             /\ answer[p].cache \in {"none", "HIT", "MISS"}
             /\ metric[p].save \in {"none", "running", "saved", "failed"}
  <2>1. body[p] \in Results /\ answer[p] \in Answers /\ metric[p] \in Metrics
    BY DEF Types
  <2> QED  BY <2>1, ZenonT(60) DEF Results, Answers, Metrics
<1> QED  BY <1>1, <1>2 DEF Types, TypeOK, Labels

-----------------------------------------------------------------------------
(* Where a handler is, and what it knows there *)

(***************************************************************************)
(* A handler has a call from Receive on.  It has a cached response between *)
(* the lookup and its return, if the cache is on.  It has answered from    *)
(* the proxy middleware on, from the cache if there was a hit, and a       *)
(* metric only when it is done.                                            *)
(***************************************************************************)
Control(p) ==
  /\ pc[p] # "idle" => call[p] \in Calls
  /\ pc[p] \in {"idle", "received", "forwarded", "done", "aborted"} => ~hit[p].present
  /\ hit[p].present => config.CacheEnabled
  /\ pc[p] = "forwarded" => route[p].url \in URLs
  /\ pc[p] \in {"idle", "received", "looked", "forwarded"} => answer[p] = NoAnswer
  /\ pc[p] \in {"proxied", "stored", "resolving"} =>
       answer[p].cache = IF hit[p].present THEN "HIT" ELSE "MISS"
  /\ pc[p] \in {"proxied", "stored", "resolving", "done"} => answer[p].status # 0
  /\ pc[p] = "resolving" => CollectsMetric(p)

(***************************************************************************)
(* What it may store, and what it has found or answered, is settled.       *)
(***************************************************************************)
Storable(p) ==
  /\ body[p].kind = "data" /\ body[p].v \in 0 .. MaxHeight
  /\ answer[p].origin \in {"", "backend"}
  /\ Settled(call[p], body[p])

Coherent(p) ==
  /\ hit[p].present => Settled(call[p], hit[p].res)
  /\ pc[p] = "proxied" /\ StoresResponse(p) => Storable(p)
  /\ answer[p].cache = "HIT" => Settled(call[p], answer[p].res)

AllowsBrowser(p) ==
  answer[p].cache = "HIT" /\ AllowOrigin[call[p].host] # "" => answer[p].origin # ""

Recorded(p) ==
  /\ metric[p].save # "none" => pc[p] = "done"
  /\ pc[p] = "done" =>
       (metric[p].save # "none" <=>
          config.MetricCollectionEnabled /\ call[p].decoded /\ answer[p].cache # "none")
  /\ metric[p].save # "none" =>
       /\ metric[p].cacheHit <=> answer[p].cache = "HIT"
       /\ metric[p].batch = call[p].batch
       /\ call[p].forwarded <= 1 => (metric[p].ip = "forwarded" <=> call[p].forwarded = 1)

HandlerInv(p) == Control(p) /\ Coherent(p) /\ AllowsBrowser(p) /\ Recorded(p)

Inv == Types /\ CacheHoldsSettledAnswers /\ \A p \in Handlers : HandlerInv(p)

Same(p) ==
  /\ pc'[p] = pc[p] /\ call'[p] = call[p] /\ hit'[p] = hit[p] /\ route'[p] = route[p]
  /\ body'[p] = body[p] /\ answer'[p] = answer[p] /\ metric'[p] = metric[p]

(***************************************************************************)
(* What another handler, a chain or Redis does leaves a handler right.     *)
(***************************************************************************)
LEMMA SameHandlerInv ==
  ASSUME Types, NEW p \in Handlers, HandlerInv(p), Same(p), config' = config, [Next]_vars
  PROVE  HandlerInv(p)'
<1>0. view \in [URLs -> 1 .. MaxHeight]
  BY DEF Types
<1>1. Control(p)'
  BY Zenon DEF HandlerInv, Control, Same, CollectsMetric
<1>2. Coherent(p)'
  <2>1. hit'[p].present => Settled(call[p], hit[p].res)'
    <3> SUFFICES ASSUME hit[p].present
                 PROVE  \A h \in Tip' .. MaxHeight : Truth(call'[p], h) = {hit'[p].res}
      BY DEF Same, Settled
    <3>1. Settled(call[p], hit[p].res)
      BY DEF HandlerInv, Coherent
    <3> QED  BY <1>0, <3>1, SettledStays DEF Same
  <2>2. answer'[p].cache = "HIT" => Settled(call[p], answer[p].res)'
    <3> SUFFICES ASSUME answer[p].cache = "HIT"
                 PROVE  \A h \in Tip' .. MaxHeight : Truth(call'[p], h) = {answer'[p].res}
      BY DEF Same, Settled
    <3>1. Settled(call[p], answer[p].res)
      BY DEF HandlerInv, Coherent
    <3> QED  BY <1>0, <3>1, SettledStays DEF Same
  <2>3. pc'[p] = "proxied" /\ StoresResponse(p)' => Storable(p)'
    <3> SUFFICES ASSUME pc[p] = "proxied", StoresResponse(p) PROVE Storable(p)'
      BY DEF Same, StoresResponse
    <3>1. Storable(p)
      BY DEF HandlerInv, Coherent
    <3>2. Settled(call[p], body[p])'
      <4>1. \A h \in Tip' .. MaxHeight : Truth(call[p], h) = {body[p]}
        BY Zenon, <1>0, <3>1, SettledStays DEF Storable
      <4> QED  BY <4>1 DEF Same, Settled
    <3> QED  BY <3>1, <3>2, ZenonT(60) DEF Storable, Same
  <2> QED  BY <2>1, <2>2, <2>3 DEF Coherent
<1>3. AllowsBrowser(p)' /\ Recorded(p)'
  BY ZenonT(60) DEF HandlerInv, AllowsBrowser, Recorded, Same
<1> QED  BY <1>1, <1>2, <1>3 DEF HandlerInv

LEMMA CacheStays ==
  ASSUME Types, CacheHoldsSettledAnswers, cache' = cache, [Next]_vars
  PROVE  CacheHoldsSettledAnswers'
<1> SUFFICES ASSUME NEW c \in Calls, c.decoded, cache[GetQueryKey(c)].present
             PROVE  \A h \in Tip' .. MaxHeight : Truth(c, h) = {cache[GetQueryKey(c)].res}
  BY DEF CacheHoldsSettledAnswers, Settled
<1>1. Settled(c, cache[GetQueryKey(c)].res) /\ view \in [URLs -> 1 .. MaxHeight]
  BY DEF CacheHoldsSettledAnswers, Types
<1> QED  BY <1>1, SettledStays

-----------------------------------------------------------------------------
(* The steps of a handler *)

LEMMA Constants ==
  Miss \in Entries /\ ~Miss.present /\ NoBody \in Results /\ NotFound \in Routes
  /\ NoAnswer \in Answers /\ NoAnswer.cache = "none" /\ NoAnswer.status = 0
  /\ NoMetric \in Metrics /\ NoMetric.save = "none"
<1>1. Miss \in Entries /\ ~Miss.present /\ NoBody \in Results
  BY Heights DEF Miss, Result, Entries, ResultKinds, NoBody, Results
<1>2. NotFound \in Routes
  BY Zenon DEF NotFound, Routes
<1>3. NoAnswer \in Answers /\ NoAnswer.cache = "none" /\ NoAnswer.status = 0
  BY <1>1 DEF NoAnswer, Answer, Answers, Origins
<1>4. NoMetric \in Metrics /\ NoMetric.save = "none"
  BY DEF NoMetric, Metrics, Backends
<1> QED  BY <1>1, <1>2, <1>3, <1>4

LEMMA EntryTypes ==
  ASSUME NEW e \in Entries
  PROVE  e.res \in Results /\ e.origin \in {"", "backend"}
<1>1. /\ e.res \in [kind : ResultKinds \ {"error", "garbage"}, v : 0 .. MaxHeight]
      /\ e.origin \in {"", "backend"}
  BY Zenon DEF Entries
<1>2. ASSUME NEW r \in [kind : ResultKinds \ {"error", "garbage"}, v : 0 .. MaxHeight]
      PROVE  r \in Results
  <2>1. r.kind \in ResultKinds /\ r.v \in Int /\ r = [kind |-> r.kind, v |-> r.v]
    BY Heights
  <2> QED  BY <2>1 DEF Results
<1> QED  BY Zenon, <1>1, <1>2

LEMMA TipStays ==
  ASSUME view' = view, NEW c, NEW r, Settled(c, r)
  PROVE  \A h \in Tip' .. MaxHeight : Truth(c, h) = {r}
BY DEF Settled, Tip

LEMMA ReceiveStep ==
  ASSUME Inv, NEW p \in Handlers, Receive(p)
  PROVE  Types' /\ HandlerInv(p)'
<1>1. Types'
  BY Constants DEF Inv, Types, Receive, Labels
<1>2. /\ pc'[p] = "received" /\ call'[p] \in Calls /\ ~hit'[p].present
      /\ answer'[p] = NoAnswer /\ metric'[p].save = "none"
  BY Constants, Zenon DEF Inv, Types, Receive, HandlerInv, Control
<1> QED  BY <1>1, <1>2, Constants
         DEF HandlerInv, Control, Coherent, AllowsBrowser, Recorded

LEMMA AbortStep ==
  ASSUME Inv, NEW p \in Handlers, Abort(p), pc[p] \notin {"idle", "done"}
  PROVE  Types' /\ HandlerInv(p)'
<1>1. Types'
  BY Constants, ZenonT(60) DEF Inv, Types, Abort, Labels
<1>2. /\ pc'[p] = "aborted" /\ call'[p] = call[p] /\ call[p] \in Calls /\ ~hit'[p].present
      /\ answer'[p] = answer[p] /\ metric'[p].save = "none"
  BY Constants DEF Inv, Types, Abort, HandlerInv, Control, Recorded
<1>3. answer[p].cache = "HIT" => Settled(call[p], answer[p].res)'
  <2> SUFFICES ASSUME answer[p].cache = "HIT"
               PROVE  \A h \in Tip' .. MaxHeight : Truth(call'[p], h) = {answer'[p].res}
    BY DEF Settled
  <2>1. Settled(call[p], answer[p].res) /\ view' = view
    BY DEF Inv, HandlerInv, Coherent, Abort
  <2> QED  BY <1>2, <2>1, TipStays
<1>4. AllowsBrowser(p)'
  BY Zenon, <1>2 DEF Inv, HandlerInv, AllowsBrowser
<1> QED  BY <1>1, <1>2, <1>3, <1>4 DEF HandlerInv, Control, Coherent, Recorded

LEMMA LookupStep ==
  ASSUME Inv, NEW p \in Handlers, IsCachedMiddleware(p)
  PROVE  Types' /\ HandlerInv(p)'
<1> DEFINE key == GetQueryKey(call[p])
<1>0. /\ pc[p] = "received" /\ call[p] \in Calls /\ answer[p] = NoAnswer
      /\ metric[p].save = "none" /\ ~hit[p].present
  BY DEF Inv, HandlerInv, Control, Recorded, IsCachedMiddleware
<1>1. key \in Keys /\ cache[key] \in Entries
  BY <1>0 DEF Keys, Inv, Types
<1>2. PICK e \in Entries :
        /\ hit' = [hit EXCEPT ![p] = e]
        /\ e = Miss \/ (config.CacheEnabled /\ call[p].decoded /\ e = cache[key])
  BY Zenon, <1>1, Constants DEF IsCachedMiddleware, GetCachedQueryResponse
<1>3. Types'
  BY Zenon, <1>2 DEF Inv, Types, IsCachedMiddleware, Labels
<1>4. /\ pc'[p] = "looked" /\ call'[p] = call[p] /\ hit'[p] = e /\ config' = config
      /\ answer'[p] = NoAnswer /\ metric'[p].save = "none"
  BY <1>0, <1>2, Zenon DEF Inv, Types, IsCachedMiddleware
<1>5. e.present => config.CacheEnabled /\ Settled(call[p], e.res)
  BY <1>0, <1>2, Constants DEF Inv, CacheHoldsSettledAnswers
<1>6. hit'[p].present => Settled(call[p], hit[p].res)'
  <2> SUFFICES ASSUME e.present
               PROVE  \A h \in Tip' .. MaxHeight : Truth(call'[p], h) = {hit'[p].res}
    BY <1>4 DEF Settled
  <2>1. view' = view
    BY Zenon DEF IsCachedMiddleware
  <2> QED  BY SMTT(60), <1>4, <1>5, <2>1, TipStays
<1> HIDE DEF key
<1> QED  BY ZenonT(60), <1>0, <1>3, <1>4, <1>5, <1>6, Constants
         DEF HandlerInv, Control, Coherent, AllowsBrowser, Recorded

LEMMA RefuseStep ==
  ASSUME Inv, NEW p \in Handlers, RefuseHost(p)
  PROVE  Types' /\ HandlerInv(p)'
<1> DEFINE a == Answer(502, "none", Result("garbage", 0), "")
<1>0. /\ pc[p] = "looked" /\ call[p] \in Calls /\ metric[p].save = "none"
  BY Zenon DEF Inv, HandlerInv, Control, Recorded, RefuseHost
<1>1. a \in Answers /\ a.cache = "none" /\ a.status # 0
  BY DEF Answer, Result, Answers, Results, ResultKinds, Origins
<1>2. /\ answer' = [answer EXCEPT ![p] = a]
      /\ pc' = [pc EXCEPT ![p] = "done"]
      /\ hit' = [hit EXCEPT ![p] = Miss]
      /\ UNCHANGED <<config, view, cache, call, route, body, metric>>
  BY Zenon DEF RefuseHost
<1> HIDE DEF a
<1>3. Types'
  BY <1>1, <1>2, Constants DEF Inv, Types, Labels
<1>4. /\ pc'[p] = "done" /\ call'[p] = call[p] /\ ~hit'[p].present
      /\ answer'[p] = a /\ metric'[p].save = "none"
  BY <1>0, <1>2, Constants DEF Inv, Types
<1> QED  BY Zenon, <1>0, <1>1, <1>3, <1>4 DEF HandlerInv, Control, Coherent, AllowsBrowser, Recorded

LEMMA FoundRoute ==
  ASSUME NEW c \in Calls, ProxyForRequest(RoutingConfig, c).res = "found"
  PROVE  /\ ProxyForRequest(RoutingConfig, c) \in Routes
         /\ ProxyForRequest(RoutingConfig, c).url \in URLs
BY BackendAssumption DEF Routes

LEMMA HitStep ==
  ASSUME Inv, NEW p \in Handlers, ServeFromCache(p)
  PROVE  Types' /\ HandlerInv(p)'
<1> DEFINE o == IF hit[p].origin # "" THEN hit[p].origin ELSE AllowOrigin[call[p].host]
           a == Answer(200, "HIT", hit[p].res, o)
<1>0. /\ pc[p] = "looked" /\ call[p] \in Calls /\ metric[p].save = "none"
      /\ hit[p].present /\ hit[p] \in Entries /\ config.CacheEnabled
  BY ZenonT(60) DEF Inv, HandlerInv, Control, Recorded, ServeFromCache, Types
<1>1. hit[p].res \in Results /\ hit[p].origin \in {"", "backend"}
  BY Zenon, <1>0, EntryTypes
<1>2. o \in Origins /\ (AllowOrigin[call[p].host] # "" => o # "")
  BY <1>0, <1>1, Zenon DEF Origins
<1> HIDE DEF o
<1>3. a \in Answers /\ a.cache = "HIT" /\ a.status = 200 /\ a.res = hit[p].res /\ a.origin = o
  BY <1>1, <1>2, ZenonT(60) DEF Answer, Answers
<1>4. ProxyForRequest(RoutingConfig, call[p]) \in Routes
  BY <1>0, FoundRoute, Zenon DEF ServeFromCache
<1>5. /\ answer' = [answer EXCEPT ![p] = a]
      /\ route' = [route EXCEPT ![p] = ProxyForRequest(RoutingConfig, call[p])]
      /\ pc' = [pc EXCEPT ![p] = "proxied"]
      /\ UNCHANGED <<config, view, cache, call, hit, body, metric>>
  BY ZenonT(60) DEF ServeFromCache, o
<1> HIDE DEF a
<1>6. Types'
  BY <1>3, <1>4, <1>5 DEF Inv, Types, Labels
<1>7. pc'[p] = "proxied" /\ answer'[p] = a
  BY <1>5 DEF Inv, Types
<1>8. Settled(call[p], hit[p].res)' /\ Settled(call[p], answer[p].res)'
  <2>1. Settled(call[p], hit[p].res)
    BY Zenon, <1>0 DEF Inv, HandlerInv, Coherent
  <2>2. \A h \in Tip' .. MaxHeight : Truth(call[p], h) = {hit[p].res}
    BY ZenonT(60), <1>5, <2>1, TipStays
  <2>3. call'[p] = call[p] /\ hit'[p].res = hit[p].res /\ answer'[p].res = hit[p].res
    BY <1>3, <1>5, <1>7
  <2>4. \A h \in Tip' .. MaxHeight : Truth(call'[p], h) = {hit'[p].res}
    BY <2>2, <2>3
  <2>5. \A h \in Tip' .. MaxHeight : Truth(call'[p], h) = {answer'[p].res}
    BY ZenonT(60), <2>2, <2>3
  <2> QED  BY Zenon, <2>4, <2>5 DEF Settled
<1>9. Control(p)'
  BY SMTT(30), <1>0, <1>3, <1>5, <1>7 DEF Control
<1>10. Coherent(p)'
  BY Zenon, <1>0, <1>5, <1>8 DEF Coherent, StoresResponse
<1>11. AllowsBrowser(p)' /\ Recorded(p)'
  BY Zenon, <1>0, <1>2, <1>3, <1>5, <1>7 DEF AllowsBrowser, Recorded
<1> QED  BY Zenon, <1>6, <1>9, <1>10, <1>11 DEF HandlerInv

LEMMA ForwardStep ==
  ASSUME Inv, NEW p \in Handlers, Forward(p)
  PROVE  Types' /\ HandlerInv(p)'
<1> DEFINE r == ProxyForRequest(RoutingConfig, call[p])
<1>0. /\ call[p] \in Calls /\ metric[p].save = "none" /\ answer[p] = NoAnswer
      /\ ~hit[p].present
  BY ZenonT(60) DEF Inv, HandlerInv, Control, Recorded, Forward
<1>1. r \in Routes /\ r.url \in URLs
  BY <1>0, FoundRoute DEF Forward
<1>2. /\ route' = [route EXCEPT ![p] = r]
      /\ pc' = [pc EXCEPT ![p] = "forwarded"]
      /\ UNCHANGED <<config, view, cache, call, hit, body, answer, metric>>
  BY DEF Forward
<1> HIDE DEF r
<1>3. Types'
  BY <1>1, <1>2 DEF Inv, Types, Labels
<1>4. pc'[p] = "forwarded" /\ route'[p] = r
  BY <1>2 DEF Inv, Types
<1> QED  BY Zenon, <1>0, <1>1, <1>2, <1>3, <1>4, Constants
         DEF HandlerInv, Control, Coherent, AllowsBrowser, Recorded

(***************************************************************************)
(* The backend answers from its own height, which Tip does not fall short  *)
(* of: what it says of a cacheable call, if it may be stored, is settled.  *)
(***************************************************************************)
LEMMA BackendStep ==
  ASSUME Inv, NEW p \in Handlers, BackendAnswers(p), [Next]_vars
  PROVE  Types' /\ HandlerInv(p)'
<1>0. /\ call[p] \in Calls /\ metric[p].save = "none" /\ ~hit[p].present
      /\ route[p].url \in URLs
  BY ZenonT(60) DEF Inv, HandlerInv, Control, Recorded, BackendAnswers
<1> DEFINE h == view[route[p].url]
<1>1. view \in [URLs -> 1 .. MaxHeight] /\ h \in 1 .. MaxHeight
  BY <1>0 DEF Inv, Types
<1>2. PICK r \in BackendResponses(route[p].url, call[p]) :
        /\ body' = [body EXCEPT ![p] = r.res]
        /\ answer' = [answer EXCEPT ![p] =
                        Answer(r.status, "MISS", r.res,
                               IF call[p].browser /\ r.status = 200 THEN "backend" ELSE "")]
  BY Zenon DEF BackendAnswers
<1>3. /\ r.status \in {200, 502}
      /\ r.res \in Truth(call[p], h) \cup {Result("error", 0), Result("garbage", 0)}
  BY SMTT(60) DEF BackendResponses
<1> HIDE DEF h
<1> DEFINE o == IF call[p].browser /\ r.status = 200 THEN "backend" ELSE ""
           a == Answer(r.status, "MISS", r.res, o)
<1>4. r.res \in Results
  BY <1>0, <1>1, <1>3, TruthTypes, SMTT(60) DEF Results, Result, ResultKinds
<1>5. a \in Answers /\ a.cache = "MISS" /\ a.status # 0 /\ a.origin \in {"", "backend"}
  BY <1>3, <1>4, SMTT(60) DEF Answer, Answers, Origins
<1>6. /\ body' = [body EXCEPT ![p] = r.res] /\ answer' = [answer EXCEPT ![p] = a]
      /\ pc' = [pc EXCEPT ![p] = "proxied"]
      /\ UNCHANGED <<config, view, cache, call, hit, route, metric>>
  BY <1>2, Zenon DEF BackendAnswers
<1> HIDE DEF a
<1>7. Types'
  BY <1>4, <1>5, <1>6, Zenon DEF Inv, Types, Labels
<1>8. pc'[p] = "proxied" /\ body'[p] = r.res /\ answer'[p] = a
  BY Zenon, <1>6 DEF Inv, Types
<1>9. ASSUME StoresResponse(p)' PROVE Storable(p)'
  <2>1. IsCacheable(call[p]) = "yes" /\ CacheableResponse(call[p].method, r.res)
    BY <1>6, <1>8, <1>9, ZenonT(60) DEF StoresResponse
  <2>2. r.res \in Truth(call[p], h)
    BY <1>3, <2>1 DEF CacheableResponse, Result, IsResponseCacheable
  <2>3. /\ r.res.kind = "data" /\ r.res.v \in 0 .. MaxHeight
        /\ \A g \in h .. MaxHeight : Truth(call[p], g) = {r.res}
    BY Zenon, <1>0, <1>1, <2>1, <2>2, StoredIsStable
  <2>4. h <= Tip' /\ Tip' \in 1 .. MaxHeight
    <3>1. view' = view
      BY <1>6
    <3>2. h <= Tip
      BY <1>0, <1>1, <3>1, TipIsHighest, Zenon DEF h
    <3>3. Tip' = Tip
      BY <3>1 DEF Tip
    <3>4. Tip' \in 1 .. MaxHeight
      BY ZenonT(60), <1>1, TipGrows
    <3> QED  BY <3>2, <3>3, <3>4
  <2>5. \A g \in Tip' .. MaxHeight : Truth(call'[p], g) = {body'[p]}
    <3>1. ASSUME NEW g \in Tip' .. MaxHeight PROVE g \in h .. MaxHeight
      <4> HIDE DEF Tip
      <4> QED  BY SMTT(30), <1>1, <2>4, <3>1, Heights
    <3> QED  BY <1>6, <1>8, <2>3, <3>1
  <2> QED  BY Zenon, <1>5, <1>8, <2>3, <2>5 DEF Storable, Settled
<1>10. Control(p)'
  BY Zenon, <1>0, <1>5, <1>6, <1>8 DEF Control
<1>11. Coherent(p)'
  BY <1>0, <1>5, <1>6, <1>8, <1>9, ZenonT(60) DEF Coherent
<1>12. AllowsBrowser(p)' /\ Recorded(p)'
  BY <1>0, <1>5, <1>6, <1>8, Zenon DEF AllowsBrowser, Recorded
<1> QED  BY Zenon, <1>7, <1>10, <1>11, <1>12 DEF HandlerInv

(***************************************************************************)
(* A step that leaves the call, the cached response, the answer and the    *)
(* metric alone, after the proxy middleware.                               *)
(***************************************************************************)
LEMMA OnwardStep ==
  ASSUME Inv, NEW p \in Handlers, pc[p] \in {"proxied", "stored"},
         pc'[p] \in {"stored", "resolving"}, pc'[p] = "resolving" => CollectsMetric(p),
         UNCHANGED <<config, view, call, hit, route, answer, metric>>
  PROVE  HandlerInv(p)'
<1>0. /\ call[p] \in Calls /\ metric[p].save = "none" /\ answer[p].status # 0
      /\ answer[p].cache = IF hit[p].present THEN "HIT" ELSE "MISS"
      /\ hit[p].present => config.CacheEnabled
  BY DEF Inv, HandlerInv, Control, Recorded
<1>1. Control(p)'
  BY <1>0, Zenon DEF Control, CollectsMetric
<1>2. Coherent(p)'
  <2>1. ASSUME hit'[p].present PROVE Settled(call[p], hit[p].res)'
    <3>1. Settled(call[p], hit[p].res)
      BY <2>1, ZenonT(60) DEF Inv, HandlerInv, Coherent
    <3>2. \A h \in Tip' .. MaxHeight : Truth(call'[p], h) = {hit'[p].res}
      BY <3>1, TipStays
    <3> QED  BY Zenon, <3>2 DEF Settled
  <2>2. ASSUME answer'[p].cache = "HIT" PROVE Settled(call[p], answer[p].res)'
    <3>1. Settled(call[p], answer[p].res)
      BY <2>2 DEF Inv, HandlerInv, Coherent
    <3>2. \A h \in Tip' .. MaxHeight : Truth(call'[p], h) = {answer'[p].res}
      BY Zenon, <3>1, TipStays
    <3> QED  BY <3>2, Zenon DEF Settled
  <2> QED  BY <2>1, <2>2 DEF Coherent
<1>3. AllowsBrowser(p)' /\ Recorded(p)'
  BY <1>0, Zenon DEF Inv, HandlerInv, AllowsBrowser, Recorded
<1> QED  BY <1>1, <1>2, <1>3, ZenonT(60) DEF HandlerInv

LEMMA LookupHashStep ==
  ASSUME Inv, NEW p \in Handlers, LookupBlockHash(p)
  PROVE  Types' /\ HandlerInv(p)'
<1>1. Types'
  BY DEF Inv, Types, LookupBlockHash, Labels
<1>2. pc[p] = "stored" /\ pc'[p] = "resolving" /\ CollectsMetric(p)
  BY DEF Inv, Types, LookupBlockHash
<1>3. UNCHANGED <<config, view, call, hit, route, answer, metric>>
  BY DEF LookupBlockHash
<1> QED  BY <1>1, <1>2, <1>3, OnwardStep

(***************************************************************************)
(* The middleware stores what is settled, under a key that only calls with *)
(* the same truth have.                                                    *)
(***************************************************************************)
LEMMA StoreStep ==
  ASSUME Inv, NEW p \in Handlers, CachingMiddleware(p), [Next]_vars
  PROVE  Types' /\ HandlerInv(p)' /\ CacheHoldsSettledAnswers'
<1> DEFINE key == GetQueryKey(call[p])
           e == CacheEntry(body[p], answer[p].origin)
<1>0. pc[p] = "proxied" /\ call[p] \in Calls /\ key \in Keys
  BY Zenon DEF Inv, HandlerInv, Control, CachingMiddleware, Keys
<1>1. /\ pc' = [pc EXCEPT ![p] = "stored"] /\ body' = [body EXCEPT ![p] = NoBody]
      /\ UNCHANGED <<config, view, call, hit, route, answer, metric>>
  BY DEF CachingMiddleware
<1>2. \/ cache' = cache
      \/ StoresResponse(p) /\ cache' = [cache EXCEPT ![key] = e]
  BY DEF CachingMiddleware
<1>3. ASSUME StoresResponse(p)
      PROVE  Storable(p) /\ e \in Entries /\ e.res = body[p]
  <2>1. Storable(p)
    BY <1>0, <1>3 DEF Inv, HandlerInv, Coherent
  <2>2. body[p] \in [kind : ResultKinds \ {"error", "garbage"}, v : 0 .. MaxHeight]
    <3>1. body[p] \in Results
      BY DEF Inv, Types
    <3>2. body[p] = [kind |-> body[p].kind, v |-> body[p].v]
      BY <3>1, ZenonT(60) DEF Results
    <3>3. body[p].kind = "data" /\ body[p].v \in 0 .. MaxHeight
      BY <2>1, Zenon DEF Storable
    <3> QED  BY <3>2, <3>3 DEF ResultKinds
  <2>3. e \in Entries /\ e.res = body[p]
    BY <2>1, <2>2, ZenonT(60) DEF Storable, CacheEntry, Entries
  <2> QED  BY ZenonT(60), <2>1, <2>3
<1> HIDE DEF e, key
<1>4. Types'
  BY <1>0, <1>1, <1>2, <1>3, Constants DEF Inv, Types, Labels
<1>5. HandlerInv(p)'
  <2>1. pc'[p] = "stored"
    BY <1>1 DEF Inv, Types
  <2> QED  BY <1>0, <1>1, <2>1, OnwardStep
<1>6. CacheHoldsSettledAnswers'
  <2>1. CASE cache' = cache
    BY <2>1, CacheStays DEF Inv
  <2>2. CASE StoresResponse(p) /\ cache' = [cache EXCEPT ![key] = e]
    <3> SUFFICES ASSUME NEW c \in Calls, c.decoded, cache'[GetQueryKey(c)].present
                 PROVE  \A h \in Tip' .. MaxHeight : Truth(c, h) = {cache'[GetQueryKey(c)].res}
      BY DEF CacheHoldsSettledAnswers, Settled
    <3>0. GetQueryKey(c) \in Keys
      BY DEF Keys
    <3>1. CASE GetQueryKey(c) = key
      <4>1. cache'[GetQueryKey(c)] = e
        BY Zenon, <2>2, <3>0, <3>1 DEF Inv, Types
      <4>2. \A h \in Tip' .. MaxHeight : Truth(call[p], h) = {body[p]}
        BY Zenon, <1>1, <1>3, <2>2, TipStays DEF Storable
      <4>3. \A h : Truth(c, h) = Truth(call[p], h)
        BY <1>0, <3>1, SameKeySameTruth, ZenonT(60) DEF key
      <4> QED  BY <1>3, <2>2, <4>1, <4>2, <4>3
    <3>2. CASE GetQueryKey(c) # key
      <4>1. cache'[GetQueryKey(c)] = cache[GetQueryKey(c)]
        BY <2>2, <3>0, <3>2, Zenon DEF Inv, Types
      <4>2. Settled(c, cache[GetQueryKey(c)].res)
        BY <4>1 DEF Inv, CacheHoldsSettledAnswers
      <4> QED  BY <1>1, <4>1, <4>2, TipStays
    <3> QED  BY <3>1, <3>2
  <2> QED  BY <1>2, <2>1, <2>2
<1> QED  BY Zenon, <1>4, <1>5, <1>6

LEMMA EvictStep ==
  ASSUME Inv, NEW k \in Keys, Evict(k)
  PROVE  Types' /\ CacheHoldsSettledAnswers'
<1>1. Types'
  BY Constants DEF Inv, Types, Evict, locals
<1>2. CacheHoldsSettledAnswers'
  <2> SUFFICES ASSUME NEW c \in Calls, c.decoded, cache'[GetQueryKey(c)].present
               PROVE  \A h \in Tip' .. MaxHeight : Truth(c, h) = {cache'[GetQueryKey(c)].res}
    BY DEF CacheHoldsSettledAnswers, Settled
  <2>0. GetQueryKey(c) \in Keys
    BY DEF Keys
  <2>1. cache'[GetQueryKey(c)] = cache[GetQueryKey(c)] /\ view' = view
    BY <2>0, Constants DEF Inv, Types, Evict
  <2>2. Settled(c, cache[GetQueryKey(c)].res)
    BY <2>1 DEF Inv, CacheHoldsSettledAnswers
  <2> QED  BY <2>1, <2>2, TipStays
<1> QED  BY <1>1, <1>2

(***************************************************************************)
(* A handler that returns has recorded what it answered, ...               *)
(***************************************************************************)
LEMMA ReturnStep ==
  ASSUME Inv, NEW p \in Handlers, pc[p] \in {"stored", "resolving"}, Return(p),
         UNCHANGED <<config, view, cache, call, body, answer>>,
         \/ ~CollectsMetric(p) /\ metric' = metric
         \/ CollectsMetric(p) /\ metric' = [metric EXCEPT ![p] = NewMetric(p)]
  PROVE  Types' /\ HandlerInv(p)'
<1>0. /\ call[p] \in Calls /\ metric[p].save = "none" /\ answer[p].status # 0
      /\ answer[p].cache = IF hit[p].present THEN "HIT" ELSE "MISS"
  BY Zenon DEF Inv, HandlerInv, Control, Recorded
<1>1. /\ NewMetric(p) \in Metrics /\ NewMetric(p).save = "running"
      /\ NewMetric(p).cacheHit = hit[p].present /\ NewMetric(p).batch = call[p].batch
      /\ NewMetric(p).ip = "forwarded" <=> call[p].forwarded = 1
  <2>1. route[p].backend \in Backends
    BY SMTT(30), TypesSuffice DEF Inv, TypeOK
  <2>2. hit[p].present \in BOOLEAN
    <3>1. hit[p] \in Entries
      BY SMTT(60) DEF Inv, Types
    <3> QED  BY <3>1, Zenon DEF Entries
  <2>3. call[p].batch \in BOOLEAN
    BY Zenon, <1>0, PipelineAssumption
  <2> QED  BY <2>1, <2>2, <2>3, ZenonT(60) DEF NewMetric, Metrics, RequestIP
<1> HIDE DEF NewMetric
<1>2. Types'
  <2>1. metric' \in [Handlers -> Metrics]
    BY Zenon, <1>1 DEF Inv, Types
  <2> QED  BY Zenon, <2>1, Constants DEF Inv, Types, Return, Labels
<1>3. /\ pc'[p] = "done" /\ call'[p] = call[p] /\ ~hit'[p].present /\ answer'[p] = answer[p]
      /\ CollectsMetric(p) => metric'[p] = NewMetric(p)
      /\ ~CollectsMetric(p) => metric'[p] = metric[p]
  BY Zenon, Constants DEF Inv, Types, Return
<1>4. Control(p)'
  BY Zenon, <1>0, <1>3 DEF Control
<1>5. Coherent(p)'
  <2>1. ASSUME answer'[p].cache = "HIT" PROVE Settled(call[p], answer[p].res)'
    <3>1. Settled(call[p], answer[p].res)
      BY Zenon, <1>3, <2>1 DEF Inv, HandlerInv, Coherent
    <3>2. \A h \in Tip' .. MaxHeight : Truth(call'[p], h) = {answer'[p].res}
      BY Zenon, <3>1, TipStays
    <3> QED  BY Zenon, <3>2 DEF Settled
  <2> QED  BY Zenon, <1>3, <2>1 DEF Coherent
<1>6. AllowsBrowser(p)'
  BY <1>3, ZenonT(60) DEF Inv, HandlerInv, AllowsBrowser
<1>7. Recorded(p)'
  BY <1>0, <1>1, <1>3 DEF Recorded, CollectsMetric
<1> QED  BY Zenon, <1>2, <1>4, <1>5, <1>6, <1>7 DEF HandlerInv

(***************************************************************************)
(* ... and the goroutine that saves the metric leaves it at that.          *)
(***************************************************************************)
LEMMA SaveStep ==
  ASSUME Inv, NEW p \in Handlers, SaveMetric(p)
  PROVE  Types' /\ HandlerInv(p)'
<1>1. PICK s \in {"saved", "failed"} : metric' = [metric EXCEPT ![p].save = s]
  BY Zenon DEF SaveMetric
<1>2. metric \in [Handlers -> Metrics] /\ metric[p] \in Metrics
  BY DEF Inv, Types
<1>3. [metric[p] EXCEPT !.save = s] \in Metrics
  BY <1>2, Zenon DEF Metrics
<1>4. /\ metric' \in [Handlers -> Metrics]
      /\ metric'[p] = [metric[p] EXCEPT !.save = s]
  BY <1>1, <1>2, <1>3
<1>5. UNCHANGED <<config, view, cache, pc, call, hit, route, body, answer>>
  BY DEF SaveMetric
<1>6. Types'
  BY <1>4, <1>5 DEF Inv, Types
<1>7. /\ metric'[p].save # "none" /\ metric[p].save # "none"
      /\ metric'[p].cacheHit = metric[p].cacheHit /\ metric'[p].batch = metric[p].batch
      /\ metric'[p].ip = metric[p].ip
  <2>1. metric[p].save = "running"
    BY ZenonT(60) DEF SaveMetric
  <2> QED  BY <1>2, <1>4, <2>1, Zenon DEF Metrics
<1>8. Recorded(p)'
  BY <1>5, <1>7 DEF Inv, HandlerInv, Recorded
<1>9. Control(p)' /\ AllowsBrowser(p)'
  BY Zenon, <1>5 DEF Inv, HandlerInv, Control, AllowsBrowser, CollectsMetric
<1>10. Coherent(p)'
  <2>0. pc[p] = "done" /\ ~hit[p].present
    BY Zenon, <1>7 DEF Inv, HandlerInv, Control, Recorded
  <2>1. ASSUME answer'[p].cache = "HIT" PROVE Settled(call[p], answer[p].res)'
    <3>1. Settled(call[p], answer[p].res)
      BY <1>5, <2>1, ZenonT(60) DEF Inv, HandlerInv, Coherent
    <3>2. \A h \in Tip' .. MaxHeight : Truth(call'[p], h) = {answer'[p].res}
      BY <1>5, <3>1, TipStays
    <3> QED  BY Zenon, <3>2 DEF Settled
  <2> QED  BY Zenon, <1>5, <2>0, <2>1 DEF Coherent
<1> QED  BY <1>6, <1>8, <1>9, <1>10 DEF HandlerInv

-----------------------------------------------------------------------------
(* The inductive invariant *)

HandlerStep(p) == Receive(p) \/ Serve(p) \/ BlockHashResolved(p) \/ SaveMetric(p)

LEMMA StepsAreRight ==
  ASSUME Inv, NEW p \in Handlers, HandlerStep(p), [Next]_vars
  PROVE  Types' /\ HandlerInv(p)'
<1>1. CASE Receive(p)
  BY <1>1, ReceiveStep
<1>2. CASE IsCachedMiddleware(p)
  BY Zenon, <1>2, LookupStep
<1>3. CASE IsCachedPanics(p) \/ ProxyPanics(p) \/ BackendBreaks(p) \/ FinalizerPanics(p)
  BY <1>3, AbortStep, ZenonT(60) DEF IsCachedPanics, ProxyPanics, BackendBreaks, FinalizerPanics
<1>4. CASE RefuseHost(p)
  BY <1>4, RefuseStep
<1>5. CASE ServeFromCache(p)
  BY <1>5, HitStep
<1>6. CASE Forward(p)
  BY <1>6, ForwardStep
<1>7. CASE BackendAnswers(p)
  BY <1>7, BackendStep
<1>8. CASE CachingMiddleware(p)
  BY <1>8, StoreStep
<1>9. CASE LookupBlockHash(p)
  BY <1>9, LookupHashStep
<1>10. CASE SkipMetric(p)
  BY Zenon, <1>10, ReturnStep DEF SkipMetric
<1>11. CASE FinalizeMetric(p)
  BY Zenon, <1>11, ReturnStep DEF FinalizeMetric, SpawnSave
<1>12. CASE BlockHashResolved(p)
  <2>1. pc[p] = "resolving" /\ CollectsMetric(p)
    BY <1>12 DEF BlockHashResolved, Inv, HandlerInv, Control
  <2> QED  BY <1>12, <2>1, ReturnStep, ZenonT(60) DEF BlockHashResolved, SpawnSave
<1>13. CASE SaveMetric(p)
  BY <1>13, SaveStep
<1> QED  BY ZenonT(60), <1>1, <1>2, <1>3, <1>4, <1>5, <1>6, <1>7, <1>8, <1>9, <1>10, <1>11, <1>12,
   <1>13
         DEF HandlerStep, Serve

LEMMA OthersWait ==
  ASSUME Types, NEW p \in Handlers, HandlerStep(p), NEW q \in Handlers, q # p
  PROVE  Same(q)
<1> USE DEF Types, Same
<1>1. CASE Receive(p)
  BY Zenon, <1>1 DEF Receive
<1>2. CASE IsCachedMiddleware(p)
  BY Zenon, <1>2 DEF IsCachedMiddleware
<1>3. CASE IsCachedPanics(p) \/ ProxyPanics(p) \/ BackendBreaks(p) \/ FinalizerPanics(p)
  BY <1>3, Zenon DEF IsCachedPanics, ProxyPanics, BackendBreaks, FinalizerPanics, Abort
<1>4. CASE RefuseHost(p)
  BY <1>4, ZenonT(60) DEF RefuseHost
<1>5. CASE ServeFromCache(p) \/ Forward(p)
  BY <1>5, ZenonT(60) DEF ServeFromCache, Forward
<1>6. CASE BackendAnswers(p)
  <2>1. PICK r \in BackendResponses(route[p].url, call[p]) :
          /\ body' = [body EXCEPT ![p] = r.res]
          /\ answer' = [answer EXCEPT ![p] =
                          Answer(r.status, "MISS", r.res,
                                 IF call[p].browser /\ r.status = 200 THEN "backend" ELSE "")]
    BY <1>6, Zenon DEF BackendAnswers
  <2> DEFINE a == Answer(r.status, "MISS", r.res,
                         IF call[p].browser /\ r.status = 200 THEN "backend" ELSE "")
  <2>2. body' = [body EXCEPT ![p] = r.res] /\ answer' = [answer EXCEPT ![p] = a]
    BY Zenon, <2>1
  <2> HIDE DEF a
  <2>3. /\ pc' = [pc EXCEPT ![p] = "proxied"]
        /\ UNCHANGED <<call, hit, route, metric>>
    BY <1>6, Zenon DEF BackendAnswers
  <2> QED  BY <2>2, <2>3
<1>7. CASE CachingMiddleware(p) \/ LookupBlockHash(p)
  BY <1>7, ZenonT(60) DEF CachingMiddleware, LookupBlockHash
<1>8. CASE SkipMetric(p) \/ FinalizeMetric(p) \/ BlockHashResolved(p)
  BY <1>8 DEF SkipMetric, FinalizeMetric, BlockHashResolved, SpawnSave, Return
<1>9. CASE SaveMetric(p)
  BY <1>9, ZenonT(60) DEF SaveMetric
<1> QED  BY <1>1, <1>2, <1>3, <1>4, <1>5, <1>6, <1>7, <1>8, <1>9, ZenonT(60) DEF HandlerStep, Serve

LEMMA StepFrame ==
  ASSUME NEW p \in Handlers, HandlerStep(p)
  PROVE  config' = config /\ (cache' = cache \/ CachingMiddleware(p))
BY ZenonT(60) DEF HandlerStep, Serve, Receive, IsCachedMiddleware, IsCachedPanics, RefuseHost,
   ProxyPanics,
       ServeFromCache, Forward, BackendAnswers, BackendBreaks, CachingMiddleware, SkipMetric,
       LookupBlockHash, FinalizerPanics, FinalizeMetric, BlockHashResolved, SaveMetric,
       SpawnSave, Abort

LEMMA InvInit == Init => Inv
<1> SUFFICES ASSUME Init PROVE Inv
  OBVIOUS
<1>1. Types
  BY InitTypes
<1>2. CacheHoldsSettledAnswers
  <2>1. ASSUME NEW c \in Calls PROVE ~cache[GetQueryKey(c)].present
    <3>1. GetQueryKey(c) \in Keys
      BY Zenon DEF Keys
    <3> QED  BY <3>1, Constants DEF Init
  <2> QED  BY <2>1 DEF CacheHoldsSettledAnswers
<1>3. ASSUME NEW p \in Handlers PROVE HandlerInv(p)
  <2>1. /\ pc[p] = "idle" /\ ~hit[p].present /\ answer[p] = NoAnswer
        /\ metric[p].save = "none"
    BY Constants DEF Init
  <2> QED  BY Zenon, <2>1, Constants DEF HandlerInv, Control, Coherent, AllowsBrowser, Recorded
<1> QED  BY <1>1, <1>2, <1>3 DEF Inv

LEMMA InvStep == Inv /\ [Next]_vars => Inv'
<1> SUFFICES ASSUME Inv, [Next]_vars PROVE Inv'
  OBVIOUS
<1>1. Types /\ CacheHoldsSettledAnswers /\ \A p \in Handlers : HandlerInv(p)
  BY DEF Inv
<1>2. ASSUME NEW p \in Handlers, HandlerStep(p) PROVE Inv'
  <2>1. Types' /\ HandlerInv(p)'
    BY <1>2, StepsAreRight
  <2>2. config' = config /\ (cache' = cache \/ CachingMiddleware(p))
    BY <1>2, StepFrame
  <2>3. ASSUME NEW q \in Handlers, q # p PROVE HandlerInv(q)'
    <3>1. Same(q)
      BY <1>1, <1>2, <2>3, OthersWait
    <3> QED  BY <1>1, <2>2, <3>1, SameHandlerInv
  <2>4. CacheHoldsSettledAnswers'
    BY <1>1, <2>2, CacheStays, StoreStep
  <2>5. \A q \in Handlers : HandlerInv(q)'
    BY <2>1, <2>3
  <2> QED  BY <2>1, <2>4, <2>5, SMTT(60) DEF Inv
<1>3. ASSUME UNCHANGED locals, config' = config, Types', CacheHoldsSettledAnswers'
      PROVE  Inv'
  <2>1. ASSUME NEW q \in Handlers PROVE HandlerInv(q)'
    <3>1. Same(q)
      BY <1>3 DEF Same, locals
    <3> QED  BY ZenonT(60), <1>1, <1>3, <3>1, SameHandlerInv
  <2> QED  BY <1>3, <2>1 DEF Inv
<1>4. ASSUME NEW u \in URLs, Advance(u) PROVE Inv'
  <2>1. UNCHANGED <<config, cache, locals>>
    BY <1>4 DEF Advance
  <2>2. CacheHoldsSettledAnswers'
    BY ZenonT(60), <1>1, <2>1, CacheStays
  <2>3. Types'
    <3>1. view' \in [URLs -> 1 .. MaxHeight]
      BY <1>1, ViewsGrow DEF Types
    <3> QED  BY <1>1, <2>1, <3>1, Zenon DEF Types, locals
  <2> QED  BY <1>3, <2>1, <2>2, <2>3
<1>5. ASSUME NEW k \in Keys, Evict(k) PROVE Inv'
  <2>1. UNCHANGED <<config, locals>>
    BY <1>5 DEF Evict
  <2> QED  BY <1>3, <1>5, <2>1, EvictStep
<1>6. CASE UNCHANGED vars
  <2>1. UNCHANGED <<config, view, cache, locals>>
    BY <1>6 DEF vars
  <2>2. CacheHoldsSettledAnswers'
    BY ZenonT(60), <1>1, <2>1, CacheStays
  <2>3. Types'
    BY <1>1, <2>1 DEF Types, locals
  <2> QED  BY <1>3, <2>1, <2>2, <2>3
<1> QED  BY <1>2, <1>4, <1>5, <1>6, SMTT(60) DEF Next, HandlerStep

LEMMA InvAlways == Spec => []Inv
BY InvInit, InvStep, PTL DEF Spec
-----------------------------------------------------------------------------
(***************************************************************************)
(* The variables keep their types: in particular no entry of the cache is  *)
(* an error or a body that is not JSON, whatever the backends answer.      *)
(***************************************************************************)
THEOREM TypeCorrect == Spec => []TypeOK
<1>1. Inv => TypeOK
  BY TypesSuffice DEF Inv
<1> QED  BY <1>1, InvAlways, PTL

(***************************************************************************)
(* Any number of handlers, any calls and backends at any heights: what the *)
(* cache holds is what the chain says now and at every later height.       *)
(***************************************************************************)
THEOREM CacheIsSettled == Spec => []CacheHoldsSettledAnswers
<1>1. Inv => CacheHoldsSettledAnswers
  BY Zenon DEF Inv
<1> QED  BY <1>1, InvAlways, PTL

(***************************************************************************)
(* An answer given from the cache is settled for the request that gets it, *)
(* whatever became of the entry since the lookup.                          *)
(***************************************************************************)
THEOREM HitsAreSettled == Spec => []HitIsSettled
<1>1. Inv => HitIsSettled
  BY Zenon DEF Inv, HandlerInv, Coherent, HitIsSettled
<1> QED  BY <1>1, InvAlways, PTL

(***************************************************************************)
(* An answer from the cache carries an allowed origin when the host of the *)
(* request has one configured.                                             *)
(***************************************************************************)
THEOREM HitsAllowBrowsers == Spec => []HitAllowsBrowsers
<1>1. Inv => HitAllowsBrowsers
  BY Zenon DEF Inv, HandlerInv, AllowsBrowser, HitAllowsBrowsers
<1> QED  BY <1>1, InvAlways, PTL

(***************************************************************************)
(* The finalizer records exactly the decoded requests that a cache or a    *)
(* backend answered, with the flags of the answer the client got.          *)
(***************************************************************************)
THEOREM MetricsAreRight == Spec => []MetricsMatchAnswers
<1>1. Inv => MetricsMatchAnswers
  BY Zenon DEF Inv, HandlerInv, Recorded, MetricsMatchAnswers
<1> QED  BY <1>1, InvAlways, PTL
=============================================================================
