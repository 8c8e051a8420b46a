-------------------------- MODULE MCRequestPipeline -------------------------
(***************************************************************************)
(* Calls and backends for TLC.  Host a has an active and a pruning         *)
(* backend, host b the active backend only.  Block 2, its hash and its     *)
(* transaction do not exist yet when a behaviour starts.                   *)
(***************************************************************************)
EXTENDS PipelineRefinement, TLC

CONSTANTS h1, h2

MCHandlers == {h1, h2}
Symmetry == Permutations(MCHandlers)

MCRoutingConfig ==
  [EnableHeightBasedRouting |-> TRUE, EnableShardedRouting |-> FALSE,
   ProxyBackendHostURLMapParsed |-> [a |-> "active", b |-> "active"],
   ProxyPruningBackendHostURLMap |-> [a |-> "pruning"],
   ProxyShardBackendHostURLMap |-> <<>>]
MCAllowOrigin == [a |-> "config", b |-> "config", c |-> "config"]
MCURLs == {"active", "pruning"}

Hash(k) == Param("word", "", k)
Call(host, method, params) ==
  [NoCall EXCEPT !.host = host, !.decoded = TRUE, !.method = method, !.params = params]

Block1 == Call("a", "eth_getBlockByNumber", <<Number(1)>>)
Block2 == [Call("b", "eth_getBlockByNumber", <<Number(2)>>) EXCEPT !.browser = TRUE, !.batch = TRUE]
Latest == Call("a", "eth_getBlockByNumber", <<Tag("latest")>>)
ByHash == [Call("a", "eth_getBlockByHash", <<Hash(2)>>) EXCEPT !.forwarded = 2]
Tx == Call("a", "eth_getTransactionByHash", <<Hash(2)>>)
TxFromBrowser ==
  [Call("b", "eth_getTransactionByHash", <<Hash(2)>>) EXCEPT !.browser = TRUE, !.forwarded = 1]
NoBlock == Call("a", "eth_getBalance", <<Word>>)
NoHash == Call("a", "eth_getBlockByHash", <<>>)
UnknownHost == Call("c", "eth_blockNumber", <<>>)
Undecoded == [NoCall EXCEPT !.host = "a"]

CacheCalls == {Block1, Block2, Latest, Tx, TxFromBrowser, Undecoded}
GatewayCalls == {Block2, ByHash, NoBlock, NoHash, UnknownHost}

OnAndOff == [CacheEnabled : BOOLEAN, MetricCollectionEnabled : BOOLEAN]
BothOrNeither == {s \in OnAndOff : s.CacheEnabled = s.MetricCollectionEnabled}
=============================================================================
