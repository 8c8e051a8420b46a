-------------------------- MODULE MCRoutingService --------------------------
(***************************************************************************)
(* Environments and requests for TLC.  Host a has every kind of backend,   *)
(* host b only a default one, host c none; some maps name host a twice.    *)
(* Shards end at 2 and 4, or at 1, 3 and 8, block numbers cross the ends,  *)
(* the int64 range (8) and the codes of the tags.                          *)
(***************************************************************************)
EXTENDS RoutingService

Entry(host, url) == [host |-> host, url |-> url, ok |-> TRUE]
Malformed == [host |-> "a", url |-> "", ok |-> FALSE]
Shard(end, url) == [end |-> end, url |-> url, ok |-> TRUE]
HostShards(host, shards) == [host |-> host, ok |-> TRUE, shards |-> shards]

DefaultMaps ==
  {<<Entry("a", "archive"), Entry("b", "archive"), Entry("a", "active")>>,
   <<Entry("b", "archive")>>,
   <<Entry("a", "archive"), Malformed>>, <<>>}
PruningMaps == {<<>>, <<Entry("a", "pruning")>>, <<Entry("a", "pruning"), Entry("c", "pruning")>>}
ShardMaps ==
  {<<>>,
   <<HostShards("a", <<Shard(2, "shard2"), Shard(4, "shard4")>>)>>,
   <<HostShards("a", <<Shard(1, "shard1"), Shard(3, "shard3"), Shard(8, "shard8")>>)>>,
   <<HostShards("a", <<Shard(3, "shard3")>>), HostShards("c", <<Shard(3, "shard3")>>),
     HostShards("a", <<Shard(4, "shard4")>>)>>,
   <<HostShards("a", <<Shard(4, "shard4"), Shard(2, "shard2")>>)>>,
   <<HostShards("a", <<Shard(0, "shard0")>>)>>}

MCEnvs ==
  [PROXY_HEIGHT_BASED_ROUTING_ENABLED : BOOLEAN,
   PROXY_SHARDED_ROUTING_ENABLED : BOOLEAN,
   default : DefaultMaps, pruning : PruningMaps, shards : ShardMaps]

BlockParams ==
  {Null, Object, Word} \cup {Tag(t) : t \in DOMAIN BlockTagToNumberCodec \ {"empty"}}
  \cup {Number(k) : k \in {-3, -1, 0, 1, 2, 3, 4, 5, 8, 9}}

Request(host, method, params) ==
  [host |-> host, decoded |-> TRUE, method |-> method, params |-> params]

Hosts == {"a", "b", "c"}
WithoutBlockNumber ==
  {Request(h, m, <<Word>>) : h \in Hosts,
     m \in {"eth_chainId", "eth_getBlockByHash", "eth_getTransactionByHash", "eth_getLogs"}}
Undecoded == {[NoRequest EXCEPT !.host = h] : h \in Hosts}
BlockFirst ==
  {Request(h, m, <<p>>) : h \in Hosts, p \in BlockParams,
     m \in {"eth_getBlockByNumber", "eth_getUncleCountByBlockNumber"}}
BlockSecond ==
  {Request(h, m, <<Word, p>>) : h \in Hosts, p \in BlockParams, m \in {"eth_getBalance", "eth_call"}}
BlockThird == {Request(h, "eth_getStorageAt", <<Word, Word, p>>) : h \in Hosts, p \in BlockParams}
MissingBlock == {Request("a", "eth_getBalance", <<Word>>), Request("a", "eth_getBlockByNumber", <<>>)}
Uncles ==
  {Request("a", "eth_getUncleByBlockNumberAndIndex", <<p, Number(k)>>) :
     p \in {Number(3), Tag("latest")}, k \in 0 .. 1}

MCRequests ==
  WithoutBlockNumber \cup Undecoded \cup BlockFirst \cup BlockSecond \cup BlockThird
  \cup MissingBlock \cup Uncles
=============================================================================
