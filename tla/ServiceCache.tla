---------------------------- MODULE ServiceCache ----------------------------
(***************************************************************************)
(* service/cachemdw: which requests and which responses the service keeps  *)
(* in its cache, and under which key.                                      *)
(*                                                                         *)
(* The body of a response is [kind, v]: a JSON-RPC result ("data"), the    *)
(* transaction object of a pending transaction ("pending"), an empty       *)
(* result ("empty": null, "", "0x", "0x0", [], false), a JSON-RPC error    *)
(* ("error"), or bytes that are not a JSON-RPC response ("garbage").  v    *)
(* tells the results of one request apart.                                 *)
(***************************************************************************)
EXTENDS Decode

Result(kind, v) == [kind |-> kind, v |-> v]
ResultKinds == {"data", "pending", "empty", "error", "garbage"}

(***************************************************************************)
(* IsCacheable of a request: "yes", "no", or the panic of the parser.      *)
(***************************************************************************)
IsCacheable(req) ==
  IF MethodHasBlockNumberParam(req.method)
  THEN LET parsed == ParseBlockNumberFromParams(req.method, req.params)
       IN IF parsed.res = "panic" THEN "panic"
          ELSE IF parsed.res = "value"
                  /\ (parsed.num > 0 \/ parsed.num = BlockTagToNumberCodec["earliest"])
               THEN "yes" ELSE "no"
  ELSE IF \/ MethodHasBlockHashParam(req.method)
          \/ IsMethodStatic(req.method)
          \/ MethodHasTxHashParam(req.method)
       THEN "yes" ELSE "no"

(***************************************************************************)
(* The key is a hash of the method and the params; hashes do not collide.  *)
(***************************************************************************)
GetQueryKey(req) == [method |-> req.method, params |-> req.params]

IsResultEmpty(body) == body.kind = "empty"

\* Mutant of IsResponseCacheable: empty results are kept.
IsResponseCacheableEvenEmpty(body) == body.kind # "error"

IsResponseCacheable(body) == body.kind # "error" /\ ~IsResultEmpty(body)

IsIncludedInBlock(body) == body.kind # "pending"

\* Mutant of IsFinal: a transaction is final as soon as it is known.
IsFinalOnceKnown(method, body) == TRUE

IsFinal(method, body) == method = "eth_getTransactionByHash" => IsIncludedInBlock(body)

\* Mutant of CacheableResponse: errors are kept.
CacheableResponseOrError(method, body) ==
  body.kind # "garbage" /\ ~IsResultEmpty(body) /\ IsFinal(method, body)

(***************************************************************************)
(* The checks of CacheQueryResponse on the response.                       *)
(***************************************************************************)
CacheableResponse(method, body) ==
  body.kind # "garbage" /\ IsResponseCacheable(body) /\ IsFinal(method, body)
=============================================================================
