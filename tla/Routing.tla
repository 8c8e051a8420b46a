------------------------------ MODULE Routing -------------------------------
(***************************************************************************)
(* service/proxy.go and service/shard.go: the backend a request is routed  *)
(* to.  A request is [host, decoded, method, params]; decoded says whether *)
(* the decode middleware left it in the context.                           *)
(***************************************************************************)
EXTENDS Decode, Intervals

Backends == {"DEFAULT", "PRUNING", "SHARD"}

(***************************************************************************)
(* What ProxyForRequest returns: the metadata and whether a proxy was      *)
(* found, or a panic.                                                      *)
(***************************************************************************)
Route(name, url, end) == [res |-> "found", backend |-> name, url |-> url, end |-> end]
NotFound == [res |-> "notfound", backend |-> "DEFAULT", url |-> "", end |-> 0]
RoutePanic == [res |-> "panic", backend |-> "DEFAULT", url |-> "", end |-> 0]

HostProxies(name, hostURLMap, r) ==
  IF r.host \in DOMAIN hostURLMap THEN Route(name, hostURLMap[r.host], 0) ELSE NotFound

(***************************************************************************)
(* The codes of the tags that mean the tip of the chain.                   *)
(***************************************************************************)
blockTagEncodingsRoutedToLatest ==
  {BlockTagToNumberCodec[t] : t \in {"latest", "finalized", "pending", "safe", "empty"}}

shouldRouteToPruning(encodedHeight) == encodedHeight \in blockTagEncodingsRoutedToLatest

(***************************************************************************)
(* A host without a pruning backend, or a request that was not decoded,    *)
(* goes to the default backend before anything is parsed.                  *)
(***************************************************************************)
PruningOrDefaultProxies(cfg, r) ==
  LET default == HostProxies("DEFAULT", cfg.ProxyBackendHostURLMapParsed, r)
      pruning == HostProxies("PRUNING", cfg.ProxyPruningBackendHostURLMap, r)
      height == ParseBlockNumberFromParams(r.method, r.params)
      parses == ~MethodRequiresNoHistory(r.method) /\ MethodHasBlockNumberParam(r.method)
  IN IF pruning.res = "notfound" \/ ~r.decoded THEN default
     ELSE IF parses /\ height.res = "panic" THEN RoutePanic
     ELSE IF \/ MethodRequiresNoHistory(r.method)
             \/ parses /\ height.res = "value" /\ shouldRouteToPruning(height.num)
          THEN pruning
          ELSE default

\* Mutant of ShardHeight: "earliest" is left encoded.
ShardHeightEncoded(num) == num

(***************************************************************************)
(* Shards take over from the default backend only.  "earliest" is block 1; *)
(* any other code of a tag, and block 0, stay with the default backend.    *)
(***************************************************************************)
ShardHeight(num) == IF num = BlockTagToNumberCodec["earliest"] THEN 1 ELSE num

ShardProxies(cfg, beyond, r) ==
  IF r.host \notin DOMAIN cfg.ProxyShardBackendHostURLMap \/ beyond.res # "found"
       \/ beyond.backend # "DEFAULT" \/ ~r.decoded
  THEN beyond
  ELSE LET shards == cfg.ProxyShardBackendHostURLMap[r.host]
           parsed == ParseBlockNumberFromParams(r.method, r.params)
           height == ShardHeight(parsed.num)
           lookup == Lookup(DOMAIN shards, height)
       IN IF parsed.res = "panic" THEN RoutePanic
          ELSE IF parsed.res = "error" \/ height < 1 \/ ~lookup.found THEN beyond
          ELSE Route("SHARD", shards[lookup.end], lookup.end)

(***************************************************************************)
(* NewProxies: the routing the configuration asks for.                     *)
(***************************************************************************)
ProxyForRequest(cfg, r) ==
  LET base == IF cfg.EnableHeightBasedRouting
              THEN PruningOrDefaultProxies(cfg, r)
              ELSE HostProxies("DEFAULT", cfg.ProxyBackendHostURLMapParsed, r)
  IN IF cfg.EnableShardedRouting THEN ShardProxies(cfg, base, r) ELSE base
=============================================================================
