------------------------- MODULE PipelineRefinement -------------------------
(***************************************************************************)
(* The middleware sequence implements Gateway: the cache, the routing and  *)
(* the metrics are invisible to clients.                                   *)
(***************************************************************************)
EXTENDS RequestPipeline

(***************************************************************************)
(* What a client can see of a handler.                                     *)
(***************************************************************************)
Visible(p) ==
  CASE pc[p] = "idle" -> "idle"
    [] pc[p] = "aborted" -> "dropped"
    [] pc[p] \notin {"idle", "aborted"} ->
         IF answer[p].status = 0 THEN "waiting" ELSE "answered"

stateBar == [p \in Handlers |-> Visible(p)]
replyBar == [p \in Handlers |-> answer[p].res]

G == INSTANCE Gateway WITH
       Clients <- Handlers, Backends <- URLs, Says <- Truth,
       Failures <- {Result("garbage", 0), Result("error", 0)},
       Nothing <- NoBody,
       state <- stateBar, asked <- call, reply <- replyBar

(***************************************************************************)
(* An answer from the cache is one that some backend would give at that    *)
(* moment: clients cannot tell the service from one that forwards every    *)
(* call.  Every call is answered or dropped.                               *)
(***************************************************************************)
ImplementsGateway == G!Spec
=============================================================================
