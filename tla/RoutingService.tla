--------------------------- MODULE RoutingService ---------------------------
(***************************************************************************)
(* The service reads and validates its configuration (main.go) and then    *)
(* routes requests.  The properties compare each route with the data the   *)
(* backends hold, as architecture/PROXY_ROUTING.md lays it out.            *)
(***************************************************************************)
EXTENDS Config, Routing

CONSTANTS
  Envs,      \* the environments the service is started in
  Requests   \* the requests clients make

(***************************************************************************)
(* The form of the raw maps (see Config) and of the requests.              *)
(***************************************************************************)
ASSUME RoutingAssumption ==
  /\ \A e \in Envs :
       /\ e.PROXY_HEIGHT_BASED_ROUTING_ENABLED \in BOOLEAN
       /\ e.PROXY_SHARDED_ROUTING_ENABLED \in BOOLEAN
       /\ e.default \in Seq([host : STRING, url : STRING, ok : BOOLEAN])
       /\ e.pruning \in Seq([host : STRING, url : STRING, ok : BOOLEAN])
       /\ e.shards \in Seq([host : STRING, ok : BOOLEAN,
                           shards : Seq([end : Int, url : STRING, ok : BOOLEAN])])
  /\ \A r \in Requests :
       /\ r.decoded \in BOOLEAN /\ r.params \in Seq(Params)
       /\ \A i \in DOMAIN r.params : r.params[i].kind = "tag" => r.params[i].tag # ""

VARIABLES
  env,    \* the environment variables
  phase,  \* "booting", "running" or "exited"
  req,    \* the last request
  route   \* where it was routed

vars == <<env, phase, req, route>>

NoRequest == [host |-> "", decoded |-> FALSE, method |-> "", params |-> <<>>]

config == ReadConfig(env)

Init ==
  /\ env \in Envs
  /\ phase = "booting"
  /\ req = NoRequest
  /\ route = NotFound

(***************************************************************************)
(* init() of package main panics when the configuration is not valid.      *)
(***************************************************************************)
Boot ==
  /\ phase = "booting"
  /\ phase' = IF Validate(env, config) THEN "running" ELSE "exited"
  /\ UNCHANGED <<env, req, route>>

(***************************************************************************)
(* Routing keeps no state from one request to the next: one is enough.     *)
(***************************************************************************)
ServeRequest ==
  /\ phase = "running"
  /\ req = NoRequest
  /\ req' \in Requests
  /\ route' = ProxyForRequest(config, req')
  /\ UNCHANGED <<env, phase>>

Terminated ==
  /\ phase = "exited" \/ req # NoRequest
  /\ UNCHANGED vars

Next == Boot \/ ServeRequest \/ Terminated

Spec == Init /\ [][Next]_vars
-----------------------------------------------------------------------------
(***************************************************************************)
(* What a request needs of its backend: the tip of the chain, the state at *)
(* one height, or the complete index (for hashes, and for what names no    *)
(* height from 1 to MaxInt64).                                             *)
(***************************************************************************)
Tip == [kind |-> "tip", height |-> 0]
Height(k) == [kind |-> "height", height |-> k]
Index == [kind |-> "index", height |-> 0]

\* Where Ethereum's API has the block number: one entry of the code's table differs.
BlockPosition ==
  [MethodNameToBlockNumberParamIndex EXCEPT !["eth_getUncleByBlockNumberAndIndex"] = 0]

NeedOfParam(p) ==
  CASE p.kind = "null" -> Tip
    [] p.kind = "tag"  -> IF p.tag = "earliest" THEN Height(1) ELSE Tip
    [] p.kind = "number" -> IF p.num \in 1 .. MaxInt64 THEN Height(p.num) ELSE Index
    [] OTHER -> Index

Need(r) ==
  IF ~r.decoded THEN Index
  ELSE IF MethodRequiresNoHistory(r.method) THEN Tip
  ELSE IF ~MethodHasBlockNumberParam(r.method) THEN Index
  ELSE LET i == BlockPosition[r.method] + 1
       IN IF Len(r.params) < i THEN Tip ELSE NeedOfParam(r.params[i])

(***************************************************************************)
(* The end heights of a host's shards, and the heights that one of them    *)
(* holds.                                                                  *)
(***************************************************************************)
ShardEnds(host) ==
  IF host \in DOMAIN config.ProxyShardBackendHostURLMap
  THEN DOMAIN config.ProxyShardBackendHostURLMap[host]
  ELSE {}

InShard(host, end, k) ==
  /\ end \in ShardEnds(host)
  /\ k <= end
  /\ \A e \in ShardEnds(host) : e < end => e < k

(***************************************************************************)
(* The pruning cluster holds the tip; the default cluster the tip and the  *)
(* index, and of the heights all, or what no shard holds when the operator *)
(* has turned sharding on; a shard the heights after the previous shard up *)
(* to its end.                                                             *)
(***************************************************************************)
Holds(r, rt, need) ==
  CASE need.kind = "tip"    -> rt.backend \in {"DEFAULT", "PRUNING"}
    [] need.kind = "index"  -> rt.backend = "DEFAULT"
    [] need.kind = "height" ->
       \/ /\ rt.backend = "DEFAULT"
          /\ env.PROXY_SHARDED_ROUTING_ENABLED =>
               \A e \in ShardEnds(r.host) : e < need.height
       \/ rt.backend = "SHARD" /\ InShard(r.host, rt.end, need.height)

(***************************************************************************)
(* Two kinds of request that the code takes for others: the one method     *)
(* whose block is not where decode/evm_rpc.go:204 looks for it, and a      *)
(* negative number that is the code of a tag (evm_rpc.go:340): -1 is       *)
(* routed as "latest", -3 as "earliest".                                   *)
(***************************************************************************)
Uncle(r) == r.method = "eth_getUncleByBlockNumberAndIndex"

LooksLikeATag(r) ==
  /\ MethodHasBlockNumberParam(r.method)
  /\ LET i == MethodNameToBlockNumberParamIndex[r.method] + 1
     IN /\ i <= Len(r.params)
        /\ r.params[i].kind = "number"
        /\ \E t \in DOMAIN BlockTagToNumberCodec : r.params[i].num = BlockTagToNumberCodec[t]

Routed == phase = "running" /\ req # NoRequest

(***************************************************************************)
(* The routes are well formed, and a configuration that passes Validate    *)
(* has shards with positive end heights.                                   *)
(***************************************************************************)
TypeOK ==
  /\ env \in Envs
  /\ phase \in {"booting", "running", "exited"}
  /\ req \in Requests \cup {NoRequest}
  /\ route.res \in {"found", "notfound", "panic"} /\ route.backend \in Backends
  /\ phase = "running" =>
       \A h \in DOMAIN config.ProxyShardBackendHostURLMap :
         DOMAIN config.ProxyShardBackendHostURLMap[h] \subseteq Nat \ {0}

(***************************************************************************)
(* PROXY_ROUTING.md:141 and 150: "sharded routing can be configured        *)
(* without pruning vs default cluster routing", by                         *)
(* PROXY_SHARDED_ROUTING_ENABLED, the "flag to toggle this functionality". *)
(* So a request reaches a backend that holds what it needs under every     *)
(* setting of the two switches.  The code reads the switch of the pruning  *)
(* cluster in its place (config.go:358).                                   *)
(***************************************************************************)
SwitchesAreIndependent ==
  Routed /\ route.res = "found" /\ ~Uncle(req) /\ ~LooksLikeATag(req) =>
    Holds(req, route, Need(req))

(***************************************************************************)
(* A request reaches a backend that holds what it needs, for every tag,    *)
(* height, method and setting of the switches but sharding without         *)
(* height-based routing (shard.go, with the data of each cluster from      *)
(* PROXY_ROUTING.md lines 111 to 238).                                     *)
(***************************************************************************)
RoutedToHolder ==
  (env.PROXY_SHARDED_ROUTING_ENABLED => env.PROXY_HEIGHT_BASED_ROUTING_ENABLED) =>
    SwitchesAreIndependent

(***************************************************************************)
(* In a service that started, the lookup of a height returns the end of    *)
(* the shard that holds it, and nothing exactly for the heights beyond the *)
(* last shard: on, between and beyond the ends, for one or many shards     *)
(* (intervalmap.go:33).                                                    *)
(***************************************************************************)
LookupIsCorrect ==
  phase = "running" =>
    \A h \in DOMAIN config.ProxyShardBackendHostURLMap : \A k \in 1 .. MaxInt64 :
      LET lookup == Lookup(ShardEnds(h), k)
      IN IF \A e \in ShardEnds(h) : e < k
         THEN lookup = NoInterval
         ELSE lookup.found /\ InShard(h, lookup.end, k)

(***************************************************************************)
(* A service that started answers 502 exactly for the hosts that are not   *)
(* in the default host map: no pruning or shard map without a fallback     *)
(* gives a host a backend (proxy.go:71, validate.go:138).                  *)
(***************************************************************************)
UnknownHostsOnlyAreRefused ==
  Routed /\ route.res # "panic" =>
    (route.res = "notfound" <=> req.host \notin DOMAIN config.ProxyBackendHostURLMapParsed)

(***************************************************************************)
(* The last entry of a raw map that names the host: it overrides those     *)
(* before it.                                                              *)
(***************************************************************************)
IsLastOf(raw, i, host) ==
  raw[i].host = host /\ \A j \in DOMAIN raw : j > i => raw[j].host # host

(***************************************************************************)
(* A service that started sends a request only where its environment says: *)
(* to the url of the host's last entry in the map of the backend's kind,   *)
(* and of the shards in that entry to the one that ends at the height it   *)
(* records as the shard's (config.go:195, config.go:234, shard.go:171).    *)
(* What is malformed, and would have been skipped, stops the start.        *)
(***************************************************************************)
RouteIsConfigured ==
  Routed /\ route.res = "found" =>
    \/ /\ route.backend = "DEFAULT"
       /\ \E i \in DOMAIN env.default :
            IsLastOf(env.default, i, req.host) /\ env.default[i].url = route.url
    \/ /\ route.backend = "PRUNING"
       /\ \E i \in DOMAIN env.pruning :
            IsLastOf(env.pruning, i, req.host) /\ env.pruning[i].url = route.url
    \/ /\ route.backend = "SHARD"
       /\ \E i \in DOMAIN env.shards : \E k \in DOMAIN env.shards[i].shards :
            /\ IsLastOf(env.shards, i, req.host)
            /\ env.shards[i].shards[k].end = route.end
            /\ env.shards[i].shards[k].url = route.url
=============================================================================
