--------------------------- MODULE RequestPipeline --------------------------
(***************************************************************************)
(* The single request middleware sequence of the service: decode, is       *)
(* cached, proxy, caching and finalizer, run by concurrent handlers that   *)
(* share one Redis cache, against backends that follow a growing chain.    *)
(*                                                                         *)
(* The backends, Redis and the EVM query service are external; a backend   *)
(* knows the chain up to its own height, which lags or leads the others.   *)
(***************************************************************************)
EXTENDS Routing, ServiceCache, FiniteSets

CONSTANTS
  Handlers,     \* goroutines of the HTTP server
  Calls,        \* the requests clients make
  RoutingConfig,            \* what the proxies are built from
  Switches,     \* the settings of CacheEnabled and MetricCollectionEnabled
  AllowOrigin,  \* GetAccessControlAllowOriginValue of each host
  URLs,         \* the backends
  MaxHeight     \* bound on the chain

(***************************************************************************)
(* Besides what Routing needs, a call says whether it is part of a batch,  *)
(* whether a browser makes it (backends then set Access-Control-Allow-     *)
(* Origin), and how many values of the load balancer's X-Forwarded-For it  *)
(* has.                                                                    *)
(***************************************************************************)
ASSUME PipelineAssumption ==
  /\ MaxHeight \in Nat \ {0}
  /\ Switches \subseteq [CacheEnabled : BOOLEAN, MetricCollectionEnabled : BOOLEAN]
  /\ \A c \in Calls :
       /\ c.params \in Seq(Params)
       /\ \A k \in DOMAIN c.params :
            /\ c.params[k].kind = "tag" => c.params[k].tag # ""
            /\ c.params[k].kind = "word" => c.params[k].num >= 0
       /\ c.forwarded \in Nat
       /\ c.decoded \in BOOLEAN /\ c.batch \in BOOLEAN /\ c.browser \in BOOLEAN

(***************************************************************************)
(* The proxies lead to the backends.                                       *)
(***************************************************************************)
ASSUME BackendAssumption ==
  /\ URLs # {}
  /\ \A c \in Calls :
       LET r == ProxyForRequest(RoutingConfig, c) IN r.res = "found" => r.url \in URLs

VARIABLES
  config,  \* the switches of this service
  view,    \* the height of the chain each backend knows
  cache,   \* the entry of each key in Redis
  pc,      \* control state of each handler
  call,    \* the request it serves
  hit,     \* the cached response in the context
  route,   \* what ProxyForRequest returned
  body,    \* what bodySaverResponseWriter saved
  answer,  \* what the handler wrote to the client
  metric   \* the metric of the request and the state of its save

locals == <<pc, call, hit, route, body, answer, metric>>
vars == <<config, view, cache, locals>>

Keys == {GetQueryKey(c) : c \in Calls}

Miss == [res |-> Result("empty", 0), origin |-> "", present |-> FALSE]
CacheEntry(res, origin) == [res |-> res, origin |-> origin, present |-> TRUE]
NoBody == Result("garbage", 0)
NoCall == [host |-> "", decoded |-> FALSE, method |-> "", params |-> <<>>, batch |-> FALSE,
           browser |-> FALSE, forwarded |-> 0]
Answer(status, cached, res, origin) ==
  [status |-> status, cache |-> cached, res |-> res, origin |-> origin]
NoAnswer == Answer(0, "none", NoBody, "")
NoMetric ==
  [save |-> "none", cacheHit |-> FALSE, backend |-> "DEFAULT", batch |-> FALSE, ip |-> ""]

Tip == CHOOSE h \in {view[u] : u \in URLs} : \A u \in URLs : view[u] <= h

Init ==
  /\ config \in Switches
  /\ view = [u \in URLs |-> 1]
  /\ cache = [k \in Keys |-> Miss]
  /\ pc = [p \in Handlers |-> "idle"]
  /\ call = [p \in Handlers |-> NoCall]
  /\ hit = [p \in Handlers |-> Miss]
  /\ route = [p \in Handlers |-> NotFound]
  /\ body = [p \in Handlers |-> NoBody]
  /\ answer = [p \in Handlers |-> NoAnswer]
  /\ metric = [p \in Handlers |-> NoMetric]
-----------------------------------------------------------------------------
(***************************************************************************)
(* What the chain has to say about a call at height h.  Block k, and the   *)
(* transaction k that it includes, exist from height k on.                 *)
(***************************************************************************)
BlockParam(c) ==
  LET i == MethodNameToBlockNumberParamIndex[c.method] + 1
  IN IF i <= Len(c.params) THEN c.params[i] ELSE Null
HashParam(c) == IF c.params = <<>> THEN Null ELSE c.params[1]

AtBlock(k, h) == IF k <= h THEN {Result("data", k)} ELSE {Result("empty", 0), Result("error", 0)}

Truth(c, h) ==
  IF MethodHasBlockNumberParam(c.method)
  THEN LET p == BlockParam(c)
       IN CASE p.kind = "number" -> IF p.num < 1 THEN {Result("error", 0)} ELSE AtBlock(p.num, h)
            [] p.kind = "tag" -> IF p.tag = "earliest" THEN AtBlock(1, h) ELSE {Result("data", h)}
            [] p.kind = "null" -> {Result("data", h)}
            [] OTHER -> {Result("error", 0)}
  ELSE IF IsMethodStatic(c.method) THEN {Result("data", 0)}
  ELSE IF ~MethodHasBlockHashParam(c.method) /\ ~MethodHasTxHashParam(c.method)
       THEN {Result("data", h)}
  ELSE IF HashParam(c).kind # "word" THEN {Result("error", 0)}
  ELSE IF MethodHasBlockHashParam(c.method) THEN AtBlock(HashParam(c).num, h)
  ELSE IF HashParam(c).num <= h THEN {Result("data", HashParam(c).num)}
  ELSE IF c.method = "eth_getTransactionByHash"
       THEN {Result("empty", 0), Result("pending", HashParam(c).num)}
       ELSE {Result("empty", 0)}

(***************************************************************************)
(* A backend may also fail: with a JSON-RPC error, or with a body that is  *)
(* not JSON.  When it cannot be reached the reverse proxy answers 502 with *)
(* an empty body.                                                          *)
(***************************************************************************)
BackendResponses(u, c) ==
  [status : {200}, res : Truth(c, view[u]) \cup {Result("error", 0), Result("garbage", 0)}]
  \cup [status : {502}, res : {Result("garbage", 0)}]

Advance(u) ==
  /\ view[u] < MaxHeight
  /\ view' = [view EXCEPT ![u] = @ + 1]
  /\ UNCHANGED <<config, cache, locals>>

(***************************************************************************)
(* An entry expires, is evicted or is deleted by an operator.              *)
(***************************************************************************)
Evict(k) ==
  /\ cache[k].present
  /\ cache' = [cache EXCEPT ![k] = Miss]
  /\ UNCHANGED <<config, view, locals>>
-----------------------------------------------------------------------------
(***************************************************************************)
(* A handler starts on a request; the decode middleware has put it in the  *)
(* context when it could be decoded.  A handler that served a request may  *)
(* serve the next one once the metric of the last has been saved: the      *)
(* number of saves in flight is bounded by the number of handlers.         *)
(***************************************************************************)
Receive(p) ==
  /\ pc[p] \in {"idle", "done", "aborted"}
  /\ metric[p].save # "running"
  /\ \E c \in Calls : call' = [call EXCEPT ![p] = c]
  /\ pc' = [pc EXCEPT ![p] = "received"]
  /\ answer' = [answer EXCEPT ![p] = NoAnswer]
  /\ metric' = [metric EXCEPT ![p] = NoMetric]
  /\ UNCHANGED <<config, view, cache, hit, route, body>>

(***************************************************************************)
(* The handler panics: the HTTP server drops the connection.               *)
(***************************************************************************)
Abort(p) ==
  /\ pc' = [pc EXCEPT ![p] = "aborted"]
  /\ hit' = [hit EXCEPT ![p] = Miss]
  /\ route' = [route EXCEPT ![p] = NotFound]
  /\ body' = [body EXCEPT ![p] = NoBody]
  /\ UNCHANGED <<config, view, cache, call, answer, metric>>

\* Mutant of GetCachedQueryResponse: the params are left out of the key.
GetCachedQueryResponseOfMethod(c) ==
  {Miss} \cup (IF IsCacheable(c) = "yes"
               THEN {cache[k] : k \in {q \in Keys : q.method = c.method}} ELSE {})

(***************************************************************************)
(* Redis may have the entry, not have it, or fail; a failure is a miss.    *)
(***************************************************************************)
GetCachedQueryResponse(c) ==
  {Miss} \cup (IF IsCacheable(c) = "yes" THEN {cache[GetQueryKey(c)]} ELSE {})

IsCachedMiddleware(p) ==
  /\ pc[p] = "received"
  /\ ~(config.CacheEnabled /\ call[p].decoded /\ IsCacheable(call[p]) = "panic")
  /\ pc' = [pc EXCEPT ![p] = "looked"]
  /\ hit' \in {[hit EXCEPT ![p] = e] :
               e \in IF config.CacheEnabled /\ call[p].decoded
                     THEN GetCachedQueryResponse(call[p]) ELSE {Miss}}
  /\ UNCHANGED <<config, view, cache, call, route, body, answer, metric>>

IsCachedPanics(p) ==
  /\ pc[p] = "received"
  /\ config.CacheEnabled /\ call[p].decoded /\ IsCacheable(call[p]) = "panic"
  /\ Abort(p)

(***************************************************************************)
(* The proxy middleware: no proxy for the host, ...                        *)
(***************************************************************************)
RefuseHost(p) ==
  /\ pc[p] = "looked"
  /\ ProxyForRequest(RoutingConfig, call[p]).res = "notfound"
  /\ answer' = [answer EXCEPT ![p] = Answer(502, "none", Result("garbage", 0), "")]
  /\ pc' = [pc EXCEPT ![p] = "done"]
  /\ hit' = [hit EXCEPT ![p] = Miss]
  /\ UNCHANGED <<config, view, cache, call, route, body, metric>>

ProxyPanics(p) ==
  /\ pc[p] = "looked"
  /\ ProxyForRequest(RoutingConfig, call[p]).res = "panic"
  /\ Abort(p)

\* Mutant of ServeFromCache: the configured origin is not added.
ServeFromCacheBareHeaders(p) ==
  /\ pc[p] = "looked"
  /\ config.CacheEnabled /\ hit[p].present
  /\ ProxyForRequest(RoutingConfig, call[p]).res = "found"
  /\ route' = [route EXCEPT ![p] = ProxyForRequest(RoutingConfig, call[p])]
  /\ answer' = [answer EXCEPT ![p] = Answer(200, "HIT", hit[p].res, hit[p].origin)]
  /\ pc' = [pc EXCEPT ![p] = "proxied"]
  /\ UNCHANGED <<config, view, cache, call, hit, body, metric>>

(***************************************************************************)
(* ... a response from the cache, with the cached headers and, if they     *)
(* lack it, the configured Access-Control-Allow-Origin, ...                *)
(***************************************************************************)
ServeFromCache(p) ==
  /\ pc[p] = "looked"
  /\ config.CacheEnabled /\ hit[p].present
  /\ ProxyForRequest(RoutingConfig, call[p]).res = "found"
  /\ route' = [route EXCEPT ![p] = ProxyForRequest(RoutingConfig, call[p])]
  /\ answer' = [answer EXCEPT ![p] =
                  Answer(200, "HIT", hit[p].res,
                         IF hit[p].origin # "" THEN hit[p].origin ELSE AllowOrigin[call[p].host])]
  /\ pc' = [pc EXCEPT ![p] = "proxied"]
  /\ UNCHANGED <<config, view, cache, call, hit, body, metric>>

(***************************************************************************)
(* ... or a request to the backend, ...                                    *)
(***************************************************************************)
Forward(p) ==
  /\ pc[p] = "looked"
  /\ ~(config.CacheEnabled /\ hit[p].present)
  /\ ProxyForRequest(RoutingConfig, call[p]).res = "found"
  /\ route' = [route EXCEPT ![p] = ProxyForRequest(RoutingConfig, call[p])]
  /\ pc' = [pc EXCEPT ![p] = "forwarded"]
  /\ UNCHANGED <<config, view, cache, call, hit, body, answer, metric>>

(***************************************************************************)
(* ... whose response is copied to the client and saved, ...               *)
(***************************************************************************)
BackendAnswers(p) ==
  /\ pc[p] = "forwarded"
  /\ \E r \in BackendResponses(route[p].url, call[p]) :
       /\ body' = [body EXCEPT ![p] = r.res]
       /\ answer' = [answer EXCEPT ![p] =
                       Answer(r.status, "MISS", r.res,
                              IF call[p].browser /\ r.status = 200 THEN "backend" ELSE "")]
  /\ pc' = [pc EXCEPT ![p] = "proxied"]
  /\ UNCHANGED <<config, view, cache, call, hit, route, metric>>

\* Mutant of BackendBreaks: the request is sent again, without a limit.
BackendBreaksRetries(p) ==
  /\ pc[p] = "forwarded"
  /\ pc' = [pc EXCEPT ![p] = "looked"]
  /\ UNCHANGED <<config, view, cache, call, hit, route, body, answer, metric>>

(***************************************************************************)
(* ... unless the copy breaks off, which panics with ErrAbortHandler.      *)
(***************************************************************************)
BackendBreaks(p) ==
  /\ pc[p] = "forwarded"
  /\ Abort(p)
-----------------------------------------------------------------------------
(***************************************************************************)
(* CachingMiddleware, with CacheQueryResponse.  Redis may fail to store.   *)
(* The entry keeps the whitelisted headers of the response.                *)
(***************************************************************************)
StoresResponse(p) ==
  /\ config.CacheEnabled /\ call[p].decoded
  /\ ~hit[p].present
  /\ IsCacheable(call[p]) = "yes"
  /\ CacheableResponse(call[p].method, body[p])

CachingMiddleware(p) ==
  /\ pc[p] = "proxied"
  /\ cache' \in {cache} \cup
       (IF StoresResponse(p)
        THEN {[cache EXCEPT ![GetQueryKey(call[p])] = CacheEntry(body[p], answer[p].origin)]}
        ELSE {})
  /\ pc' = [pc EXCEPT ![p] = "stored"]
  /\ body' = [body EXCEPT ![p] = NoBody]
  /\ UNCHANGED <<config, view, call, hit, route, answer, metric>>

(***************************************************************************)
(* The address the proxy middleware left in the context for the metric.    *)
(***************************************************************************)
RequestIP(c) == IF c.forwarded = 1 THEN "forwarded" ELSE "remote"

\* Mutant of NewMetric: the cache is asked again after the response was stored.
NewMetricFromCacheNow(p) ==
  [save |-> "running", cacheHit |-> cache[GetQueryKey(call[p])].present,
   backend |-> route[p].backend, batch |-> call[p].batch, ip |-> RequestIP(call[p])]

NewMetric(p) ==
  [save |-> "running", cacheHit |-> hit[p].present, backend |-> route[p].backend,
   batch |-> call[p].batch, ip |-> RequestIP(call[p])]

Return(p) ==
  /\ pc' = [pc EXCEPT ![p] = "done"]
  /\ hit' = [hit EXCEPT ![p] = Miss]
  /\ route' = [route EXCEPT ![p] = NotFound]

CollectsMetric(p) == config.MetricCollectionEnabled /\ call[p].decoded

(***************************************************************************)
(* The finalizer: nothing to record, ...                                   *)
(***************************************************************************)
SkipMetric(p) ==
  /\ pc[p] = "stored"
  /\ ~CollectsMetric(p)
  /\ Return(p)
  /\ UNCHANGED <<config, view, cache, call, body, answer, metric>>

(***************************************************************************)
(* ... the block number needs the EVM query service, ...                   *)
(***************************************************************************)
HasBlockHash(c) ==
  /\ MethodHasBlockHashParam(c.method)
  /\ c.params # <<>> /\ c.params[1].kind \notin {"null", "object"}

LookupBlockHash(p) ==
  /\ pc[p] = "stored"
  /\ CollectsMetric(p)
  /\ HasBlockHash(call[p])
  /\ pc' = [pc EXCEPT ![p] = "resolving"]
  /\ UNCHANGED <<config, view, cache, call, hit, route, body, answer, metric>>

(***************************************************************************)
(* ... the params are too short, which panics, ...                         *)
(***************************************************************************)
ParamsTooShort(c) ==
  \/ /\ MethodHasBlockNumberParam(c.method)
     /\ ParseBlockNumberFromParams(c.method, c.params).res = "panic"
  \/ MethodHasBlockHashParam(c.method) /\ c.params = <<>>

FinalizerPanics(p) ==
  /\ pc[p] = "stored"
  /\ CollectsMetric(p)
  /\ ParamsTooShort(call[p])
  /\ Abort(p)

(***************************************************************************)
(* ... or the metric is complete and a goroutine saves it.  An error of    *)
(* the EVM query service leaves the block number out.                      *)
(***************************************************************************)
SpawnSave(p) ==
  /\ metric' = [metric EXCEPT ![p] = NewMetric(p)]
  /\ Return(p)
  /\ UNCHANGED <<config, view, cache, call, body, answer>>

FinalizeMetric(p) ==
  /\ pc[p] = "stored"
  /\ CollectsMetric(p)
  /\ ~HasBlockHash(call[p])
  /\ ~ParamsTooShort(call[p])
  /\ SpawnSave(p)

BlockHashResolved(p) ==
  /\ pc[p] = "resolving"
  /\ SpawnSave(p)

SaveMetric(p) ==
  /\ metric[p].save = "running"
  /\ \E s \in {"saved", "failed"} : metric' = [metric EXCEPT ![p].save = s]
  /\ UNCHANGED <<config, view, cache, pc, call, hit, route, body, answer>>
-----------------------------------------------------------------------------
(***************************************************************************)
(* The steps of a handler that serves a request; the last one waits for    *)
(* the EVM query service.                                                  *)
(***************************************************************************)
Serve(p) ==
  \/ IsCachedMiddleware(p) \/ IsCachedPanics(p)
  \/ RefuseHost(p) \/ ProxyPanics(p) \/ ServeFromCache(p) \/ Forward(p)
  \/ BackendAnswers(p) \/ BackendBreaks(p)
  \/ CachingMiddleware(p)
  \/ SkipMetric(p) \/ LookupBlockHash(p) \/ FinalizerPanics(p) \/ FinalizeMetric(p)

Next ==
  \/ \E p \in Handlers : Receive(p) \/ Serve(p) \/ BlockHashResolved(p) \/ SaveMetric(p)
  \/ \E u \in URLs : Advance(u)
  \/ \E k \in Keys : Evict(k)

(***************************************************************************)
(* A handler runs on; the backends, Redis, the EVM query service and the   *)
(* database answer or their connections break.  Nobody promises requests,  *)
(* blocks or the eviction of entries.                                      *)
(***************************************************************************)
Spec ==
  /\ Init /\ [][Next]_vars
  /\ \A p \in Handlers :
       WF_vars(Serve(p)) /\ WF_vars(BlockHashResolved(p)) /\ WF_vars(SaveMetric(p))
-----------------------------------------------------------------------------
Entries == [res : [kind : ResultKinds \ {"error", "garbage"}, v : 0 .. MaxHeight],
            origin : {"", "backend"}, present : BOOLEAN]

(***************************************************************************)
(* The types of the variables; no entry of the cache is an error or is not *)
(* a JSON-RPC response.                                                    *)
(***************************************************************************)
TypeOK ==
  /\ config \in Switches
  /\ view \in [URLs -> 1 .. MaxHeight]
  /\ cache \in [Keys -> Entries]
  /\ pc \in [Handlers -> {"idle", "received", "looked", "forwarded", "proxied", "stored",
                         "resolving", "done", "aborted"}]
  /\ call \in [Handlers -> Calls \cup {NoCall}]
  /\ hit \in [Handlers -> Entries]
  /\ \A p \in Handlers :
       /\ route[p].res \in {"found", "notfound"} /\ route[p].backend \in Backends
       /\ body[p].kind \in ResultKinds /\ answer[p].res.kind \in ResultKinds
       /\ answer[p].status \in {0, 200, 502} /\ answer[p].cache \in {"none", "HIT", "MISS"}
       /\ metric[p].save \in {"none", "running", "saved", "failed"}

(***************************************************************************)
(* A result is settled for a call when the chain says nothing else about   *)
(* it, now and at every later height.                                      *)
(***************************************************************************)
Settled(c, res) == \A h \in Tip .. MaxHeight : Truth(c, h) = {res}

(***************************************************************************)
(* The cache holds settled answers only: whichever backend answered, at    *)
(* whatever height it lagged, and whatever happened until the response was *)
(* stored, an entry is what the chain says now and will always say         *)
(* (cache.go:214, response.go:89 and 101).                                 *)
(***************************************************************************)
CacheHoldsSettledAnswers ==
  \A c \in Calls : c.decoded /\ cache[GetQueryKey(c)].present =>
                    Settled(c, cache[GetQueryKey(c)].res)

(***************************************************************************)
(* An answer from the cache is the settled answer to the very request it   *)
(* is given to, also when the entry has been evicted or replaced since it  *)
(* was read, and when another host's request stored it.                    *)
(***************************************************************************)
HitIsSettled ==
  \A p \in Handlers : answer[p].cache = "HIT" => Settled(call[p], answer[p].res)

(***************************************************************************)
(* A browser is allowed to read an answer from the cache of a host that    *)
(* has an allowed origin configured, even if the request that stored it    *)
(* did not come from a browser (middleware.go:275).                        *)
(***************************************************************************)
HitAllowsBrowsers ==
  \A p \in Handlers :
    answer[p].cache = "HIT" /\ AllowOrigin[call[p].host] # "" => answer[p].origin # ""

(***************************************************************************)
(* Every request that was decoded and answered by a cache or a backend is  *)
(* recorded, with the cache and batch flags of the answer the client got,  *)
(* and nothing else is (middleware.go:384).  The address is the one the    *)
(* load balancer forwarded; with several values it is not.                 *)
(***************************************************************************)
MetricsMatchAnswers ==
  \A p \in Handlers :
    /\ pc[p] = "done" =>
         (metric[p].save # "none" <=>
            config.MetricCollectionEnabled /\ call[p].decoded /\ answer[p].cache # "none")
    /\ metric[p].save # "none" =>
         /\ metric[p].cacheHit <=> answer[p].cache = "HIT"
         /\ metric[p].batch = call[p].batch
         /\ call[p].forwarded <= 1 => (metric[p].ip = "forwarded" <=> call[p].forwarded = 1)

(***************************************************************************)
(* A handler finishes with every request, whatever Redis and the backends  *)
(* do.                                                                     *)
(***************************************************************************)
RequestIsFinished ==
  \A p \in Handlers : pc[p] = "received" ~> pc[p] \in {"done", "aborted"}
=============================================================================
