------------------------------- MODULE Decode -------------------------------
(***************************************************************************)
(* decode/evm_rpc.go: the groups of EVM methods and the block number of a  *)
(* request.  Requests are decoded: a method name and a sequence of params. *)
(***************************************************************************)
EXTENDS Integers, Sequences

CONSTANT MaxInt64  \* the largest int64; the block tags' codes must fit

ASSUME Int64Assumption == MaxInt64 \in Nat /\ MaxInt64 > 5

CacheableByBlockNumberMethods ==
  {"eth_getBalance", "eth_getStorageAt", "eth_getTransactionCount",
   "eth_getBlockTransactionCountByNumber", "eth_getUncleCountByBlockNumber", "eth_getCode",
   "eth_getBlockByNumber", "eth_getTransactionByBlockNumberAndIndex",
   "eth_getUncleByBlockNumberAndIndex", "eth_call"}

CacheableByBlockHashMethods ==
  {"eth_getBlockTransactionCountByHash", "eth_getUncleCountByBlockHash", "eth_getBlockByHash",
   "eth_getUncleByBlockHashAndIndex", "eth_getTransactionByBlockHashAndIndex"}

StaticMethods == {"eth_chainId", "net_version"}

CacheableByTxHashMethods == {"eth_getTransactionReceipt", "eth_getTransactionByHash"}

NoHistoryMethods ==
  {"web3_clientVersion", "web3_sha3", "net_version", "net_listening", "net_peerCount",
   "eth_protocolVersion", "eth_syncing", "eth_coinbase", "eth_chainId", "eth_mining",
   "eth_hashrate", "eth_gasPrice", "eth_accounts", "eth_blockNumber", "eth_sign",
   "eth_signTransaction", "eth_sendTransaction", "eth_sendRawTransaction"}

MethodHasBlockNumberParam(method) == method \in CacheableByBlockNumberMethods
MethodHasBlockHashParam(method) == method \in CacheableByBlockHashMethods
IsMethodStatic(method) == method \in StaticMethods
MethodHasTxHashParam(method) == method \in CacheableByTxHashMethods
MethodRequiresNoHistory(method) == method \in NoHistoryMethods

(***************************************************************************)
(* Positions count from 0, as in the code.                                 *)
(***************************************************************************)
MethodNameToBlockNumberParamIndex ==
  [eth_getBalance |-> 1, eth_getStorageAt |-> 2, eth_getTransactionCount |-> 1,
   eth_getBlockTransactionCountByNumber |-> 0, eth_getUncleCountByBlockNumber |-> 0,
   eth_getCode |-> 1, eth_getBlockByNumber |-> 0,
   eth_getTransactionByBlockNumberAndIndex |-> 0,
   eth_getUncleByBlockNumberAndIndex |-> 1, eth_call |-> 1]

BlockTagToNumberCodec ==
  [latest |-> -1, pending |-> -2, earliest |-> -3, finalized |-> -4, safe |-> -5, empty |-> -6]

-----------------------------------------------------------------------------
(***************************************************************************)
(* A param is null, a JSON value that is not a string, a block tag, a      *)
(* string that reads as an integer, or any other string (an address, ...). *)
(***************************************************************************)
Param(kind, tag, num) == [kind |-> kind, tag |-> tag, num |-> num]
Null == Param("null", "", 0)
Object == Param("object", "", 0)
Word == Param("word", "", 0)
Tag(t) == Param("tag", t, 0)
Number(k) == Param("number", "", k)

Params == [kind : {"null", "object", "word", "tag", "number"},
           tag : {""} \cup DOMAIN BlockTagToNumberCodec, num : Int]

(***************************************************************************)
(* A block number, an error, or the panic of an index out of range.        *)
(***************************************************************************)
Value(k) == [res |-> "value", num |-> k]
Error == [res |-> "error", num |-> 0]
Panic == [res |-> "panic", num |-> 0]

blockParamToInt64(k) ==
  IF k \in -MaxInt64 - 1 .. MaxInt64 THEN Value(k) ELSE Error

BlockNumberOf(param) ==
  CASE param.kind = "null"   -> Value(BlockTagToNumberCodec["empty"])
    [] param.kind = "tag"    -> Value(BlockTagToNumberCodec[param.tag])
    [] param.kind = "number" -> blockParamToInt64(param.num)
    [] OTHER                 -> Error

ParseBlockNumberFromParams(method, params) ==
  IF method \notin DOMAIN MethodNameToBlockNumberParamIndex THEN Error
  ELSE LET i == MethodNameToBlockNumberParamIndex[method] + 1
       IN IF i > Len(params) THEN Panic ELSE BlockNumberOf(params[i])
=============================================================================
