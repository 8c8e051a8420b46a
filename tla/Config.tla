------------------------------- MODULE Config -------------------------------
(***************************************************************************)
(* config/: what the service reads from its environment and what it        *)
(* refuses to start with, as far as routing depends on it.                 *)
(*                                                                         *)
(* A raw host map is a sequence of entries [host, url, ok], where ok says  *)
(* whether the entry has the form host>url with a url that parses.  A raw  *)
(* shard map is a sequence of host entries [host, ok, shards], where ok    *)
(* says whether the entry has the form host>height|url|height|url... and   *)
(* shards is the sequence of its [end, url, ok] pairs.                     *)
(***************************************************************************)
EXTENDS Integers, Sequences, FiniteSetsExt

\* Mutant of ParseRawProxyBackendHostURLMap: the first entry of a host wins.
FirstEntryWins(raw) ==
  LET good == {i \in DOMAIN raw : raw[i].ok}
      hosts == {raw[i].host : i \in good}
      entryOf(h) == raw[Min({i \in good : raw[i].host = h})]
  IN [map |-> [h \in hosts |-> entryOf(h).url],
      empty |-> raw = <<>>,
      err |-> raw = <<>> \/ good # DOMAIN raw]

(***************************************************************************)
(* Entries that do not parse are skipped; the last entry of a host wins.   *)
(***************************************************************************)
ParseRawProxyBackendHostURLMap(raw) ==
  LET good == {i \in DOMAIN raw : raw[i].ok}
      hosts == {raw[i].host : i \in good}
      entryOf(h) == raw[Max({i \in good : raw[i].host = h})]
  IN [map |-> [h \in hosts |-> entryOf(h).url],
      empty |-> raw = <<>>,
      err |-> raw = <<>> \/ good # DOMAIN raw]

\* Mutant of ValidShards: end height 0 is accepted.
ValidShardsFromZero(shards) ==
  \A i \in DOMAIN shards :
    /\ shards[i].ok
    /\ \A j \in 1 .. i - 1 : shards[j].end # shards[i].end
    /\ i > 1 => shards[i].end >= shards[i - 1].end

(***************************************************************************)
(* The shards of one host: positive, distinct and ordered end heights.     *)
(***************************************************************************)
ValidShards(shards) ==
  \A i \in DOMAIN shards :
    /\ shards[i].ok
    /\ shards[i].end > 0
    /\ \A j \in 1 .. i - 1 : shards[j].end # shards[i].end
    /\ i > 1 => shards[i].end >= shards[i - 1].end

(***************************************************************************)
(* Parsing stops at the first entry that is wrong and keeps the ones       *)
(* before it.                                                              *)
(***************************************************************************)
ParseRawShardRoutingBackendHostURLMap(raw) ==
  LET wrong == {i \in DOMAIN raw : ~raw[i].ok \/ ~ValidShards(raw[i].shards)}
      kept == {i \in DOMAIN raw : \A j \in 1 .. i : j \notin wrong}
      hosts == {raw[i].host : i \in kept}
      shardsOf(h) == raw[Max({i \in kept : raw[i].host = h})].shards
      ends(h) == {shardsOf(h)[k].end : k \in DOMAIN shardsOf(h)}
      urlOf(h, e) == shardsOf(h)[CHOOSE k \in DOMAIN shardsOf(h) : shardsOf(h)[k].end = e].url
  IN [map |-> [h \in hosts |-> [e \in ends(h) |-> urlOf(h, e)]],
      err |-> wrong # {}]

(***************************************************************************)
(* Both switches of the routing come from the same environment variable;   *)
(* PROXY_SHARDED_ROUTING_ENABLED is not read.                              *)
(***************************************************************************)
ReadConfig(env) ==
  [EnableHeightBasedRouting |-> env.PROXY_HEIGHT_BASED_ROUTING_ENABLED,
   EnableShardedRouting |-> env.PROXY_HEIGHT_BASED_ROUTING_ENABLED,
   ProxyBackendHostURLMapParsed |-> ParseRawProxyBackendHostURLMap(env.default).map,
   ProxyPruningBackendHostURLMap |-> ParseRawProxyBackendHostURLMap(env.pruning).map,
   ProxyShardBackendHostURLMap |-> ParseRawShardRoutingBackendHostURLMap(env.shards).map]

(***************************************************************************)
(* The empty map is allowed for the pruning hosts.                         *)
(***************************************************************************)
validateHostURLMap(raw, allowEmpty) ==
  LET parsed == ParseRawProxyBackendHostURLMap(raw)
  IN ~parsed.err \/ (allowEmpty /\ parsed.empty)

\* Mutant of validateDefaultHostMapContainsHosts: the fallback is not checked.
NoFallbackChecked(default, hosts) == TRUE

validateDefaultHostMapContainsHosts(default, hosts) == DOMAIN hosts \subseteq DOMAIN default

Validate(env, cfg) ==
  /\ validateHostURLMap(env.default, FALSE)
  /\ validateHostURLMap(env.pruning, TRUE)
  /\ ~ParseRawShardRoutingBackendHostURLMap(env.shards).err
  /\ validateDefaultHostMapContainsHosts(cfg.ProxyBackendHostURLMapParsed,
                                         cfg.ProxyPruningBackendHostURLMap)
=============================================================================
