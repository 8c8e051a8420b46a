---------------------- MODULE PipelineRefinementProofs ----------------------
(***************************************************************************)
(* The request pipeline takes only steps that Gateway permits, for any     *)
(* handlers, calls, backends and routing, and a chain of any length.       *)
(***************************************************************************)
EXTENDS RequestPipelineProofs, PipelineRefinement

LEMMA NoAnswerFields == NoAnswer.status = 0 /\ NoAnswer.res = NoBody
BY DEF NoAnswer, Answer

(***************************************************************************)
(* What clients see changes for one handler at a time.                     *)
(***************************************************************************)
LEMMA SeenStep ==
  ASSUME Types, NEW p \in Handlers, HandlerStep(p)
  PROVE  /\ stateBar' = [stateBar EXCEPT ![p] = Visible(p)']
         /\ replyBar' = [replyBar EXCEPT ![p] = answer'[p].res]
<1>1. ASSUME NEW q \in Handlers, q # p
      PROVE  Visible(q)' = Visible(q) /\ answer'[q].res = answer[q].res
  <2>1. Same(q)
    BY <1>1, OthersWait
  <2> QED  BY <2>1 DEF Same, Visible
<1>2. stateBar' = [stateBar EXCEPT ![p] = Visible(p)']
  BY <1>1, Zenon DEF stateBar
<1>3. replyBar' = [replyBar EXCEPT ![p] = answer'[p].res]
  BY <1>1, Zenon DEF replyBar
<1> QED  BY <1>2, <1>3

LEMMA HiddenStep ==
  ASSUME Types, NEW p \in Handlers, HandlerStep(p), UNCHANGED <<view, call>>,
         Visible(p)' = Visible(p), answer' = answer
  PROVE  UNCHANGED G!vars
<1>1. stateBar' = stateBar
  BY SeenStep, Zenon DEF stateBar
<1>2. replyBar' = replyBar
  BY DEF replyBar
<1> QED  BY <1>1, <1>2 DEF G!vars

(***************************************************************************)
(* A handler that has not answered yet and now has implements Answer.      *)
(***************************************************************************)
LEMMA AnswerStep ==
  ASSUME Types, NEW p \in Handlers, HandlerStep(p), UNCHANGED <<view, call>>,
         pc[p] \in {"looked", "forwarded"}, answer[p] = NoAnswer,
         pc'[p] \in {"proxied", "done"}, answer'[p].status # 0,
         \/ answer'[p].res \in {Result("garbage", 0), Result("error", 0)}
         \/ \E u \in URLs : answer'[p].res \in Truth(call[p], view[u])
  PROVE  G!Answer(p)
<1>1. Visible(p) = "waiting"
  BY Constants DEF Visible
<1>2. Visible(p)' = "answered"
  BY DEF Visible
<1>3. stateBar[p] = "waiting"
  BY <1>1 DEF stateBar
<1>4. /\ stateBar' = [stateBar EXCEPT ![p] = "answered"]
      /\ replyBar' = [replyBar EXCEPT ![p] = answer'[p].res]
  BY <1>2, SeenStep
<1>5. answer'[p].res \in {Result("garbage", 0), Result("error", 0)}
                         \cup UNION {Truth(call[p], view[u]) : u \in URLs}
  OBVIOUS
<1> QED  BY <1>3, <1>4, <1>5, Zenon DEF G!Answer

LEMMA AskStep ==
  ASSUME Inv, NEW p \in Handlers, Receive(p)
  PROVE  G!Ask(p)
<1>0. Types /\ HandlerStep(p) /\ Control(p)
  BY Zenon DEF Inv, HandlerInv, HandlerStep
<1>1. stateBar[p] # "waiting"
  <2>1. pc[p] \in {"idle", "done", "aborted"} /\ (pc[p] = "done" => answer[p].status # 0)
    BY <1>0 DEF Receive, Control
  <2>2. Visible(p) # "waiting"
    BY <2>1 DEF Visible
  <2> QED  BY <2>2 DEF stateBar
<1>2. pc'[p] = "received" /\ answer'[p] = NoAnswer
  BY <1>0 DEF Receive, Types
<1>3. Visible(p)' = "waiting" /\ answer'[p].res = NoBody
  <2>1. answer'[p].status = 0 /\ answer'[p].res = NoBody
    BY Zenon, <1>2, NoAnswerFields
  <2> QED  BY <1>2, <2>1 DEF Visible
<1>4. /\ stateBar' = [stateBar EXCEPT ![p] = "waiting"]
      /\ replyBar' = [replyBar EXCEPT ![p] = NoBody]
  BY <1>0, <1>3, SeenStep
<1>5. (\E c \in Calls : call' = [call EXCEPT ![p] = c]) /\ UNCHANGED view
  BY Zenon DEF Receive
<1> QED  BY <1>1, <1>4, <1>5, Zenon DEF G!Ask

LEMMA DropStep ==
  ASSUME Inv, NEW p \in Handlers, HandlerStep(p), Abort(p), pc[p] \notin {"idle", "aborted"}
  PROVE  G!Drop(p)
<1>1. Visible(p) \in {"waiting", "answered"}
  BY DEF Visible
<1>2. pc'[p] = "aborted" /\ answer' = answer /\ UNCHANGED <<view, call>>
  BY DEF Abort, Inv, Types
<1>3. Visible(p)' = "dropped"
  BY <1>2 DEF Visible
<1>4. stateBar' = [stateBar EXCEPT ![p] = "dropped"]
  BY <1>3, SeenStep DEF Inv
<1>5. replyBar' = replyBar /\ stateBar[p] \in {"waiting", "answered"}
  BY <1>1, <1>2 DEF replyBar, stateBar
<1> QED  BY <1>2, <1>4, <1>5 DEF G!Drop

LEMMA RefuseImplements ==
  ASSUME Inv, NEW p \in Handlers, RefuseHost(p)
  PROVE  G!Answer(p)
<1> DEFINE a == Answer(502, "none", Result("garbage", 0), "")
<1>0. Types /\ HandlerStep(p) /\ answer[p] = NoAnswer /\ pc[p] = "looked"
  BY Zenon DEF Inv, HandlerInv, Control, HandlerStep, Serve, RefuseHost
<1>1. pc'[p] = "done" /\ UNCHANGED <<view, call>> /\ answer'[p] = a
  BY <1>0, ZenonT(60) DEF RefuseHost, Types
<1>a. a.status # 0 /\ a.res = Result("garbage", 0)
  BY DEF Answer
<1> HIDE DEF a
<1>2. answer'[p].status # 0 /\ answer'[p].res = Result("garbage", 0)
  BY <1>1, <1>a
<1> QED  BY <1>0, <1>1, <1>2, AnswerStep

(***************************************************************************)
(* A hit is what the backend that knows most would say now.                *)
(***************************************************************************)
LEMMA HitImplements ==
  ASSUME Inv, NEW p \in Handlers, ServeFromCache(p), [Next]_vars
  PROVE  G!Answer(p)
<1> DEFINE a == Answer(200, "HIT", hit[p].res,
                       IF hit[p].origin # "" THEN hit[p].origin ELSE AllowOrigin[call[p].host])
<1>0. /\ Types /\ HandlerStep(p) /\ answer[p] = NoAnswer /\ pc[p] = "looked"
      /\ Settled(call[p], hit[p].res)
  BY Zenon DEF Inv, HandlerInv, Control, Coherent, HandlerStep, Serve, ServeFromCache
<1>1. pc'[p] = "proxied" /\ UNCHANGED <<view, call>> /\ answer'[p] = a
  BY <1>0, ZenonT(60) DEF ServeFromCache, Types
<1>a. a.status # 0 /\ a.res = hit[p].res
  BY DEF Answer
<1> HIDE DEF a
<1>2. answer'[p].status # 0 /\ answer'[p].res = hit[p].res
  BY <1>1, <1>a
<1>3. \E u \in URLs : hit[p].res \in Truth(call[p], view[u])
  <2>1. view \in [URLs -> 1 .. MaxHeight] /\ view' \in [URLs -> 1 .. MaxHeight]
    BY <1>0, <1>1 DEF Types
  <2>2. PICK u \in URLs : Tip = view[u]
    BY <2>1, TipIsHighest
  <2>3. Tip \in Tip .. MaxHeight
    <3>1. Tip \in 1 .. MaxHeight
      BY <2>1, TipGrows
    <3> HIDE DEF Tip
    <3> QED  BY <3>1, Heights
  <2> QED  BY <1>0, <2>2, <2>3 DEF Settled
<1> QED  BY <1>0, <1>1, <1>2, <1>3, AnswerStep

LEMMA MissImplements ==
  ASSUME Inv, NEW p \in Handlers, BackendAnswers(p)
  PROVE  G!Answer(p)
<1>0. /\ Types /\ HandlerStep(p) /\ answer[p] = NoAnswer /\ pc[p] = "forwarded"
      /\ route[p].url \in URLs
  BY Zenon DEF Inv, HandlerInv, Control, HandlerStep, Serve, BackendAnswers
<1>1. PICK r \in BackendResponses(route[p].url, call[p]) :
        answer' = [answer EXCEPT ![p] =
                     Answer(r.status, "MISS", r.res,
                            IF call[p].browser /\ r.status = 200 THEN "backend" ELSE "")]
  BY Zenon DEF BackendAnswers
<1>2. /\ r.status # 0
      /\ \/ r.res \in {Result("garbage", 0), Result("error", 0)}
         \/ r.res \in Truth(call[p], view[route[p].url])
  BY DEF BackendResponses
<1>3. answer'[p].status # 0 /\ answer'[p].res = r.res
  BY <1>0, <1>1, <1>2, Zenon DEF Answer, Types
<1>4. pc'[p] = "proxied" /\ UNCHANGED <<view, call>>
  BY <1>0, ZenonT(60) DEF BackendAnswers, Types
<1> QED  BY <1>0, <1>2, <1>3, <1>4, AnswerStep

(***************************************************************************)
(* The other steps of a handler show nothing.                              *)
(***************************************************************************)
LEMMA HiddenSteps ==
  ASSUME Inv, NEW p \in Handlers,
         \/ IsCachedMiddleware(p) \/ Forward(p) \/ CachingMiddleware(p) \/ LookupBlockHash(p)
         \/ SkipMetric(p) \/ FinalizeMetric(p) \/ BlockHashResolved(p) \/ SaveMetric(p)
  PROVE  UNCHANGED G!vars
<1>0. Types /\ HandlerStep(p)
  BY Zenon DEF Inv, HandlerStep, Serve
<1>1. UNCHANGED <<view, call, answer>>
  BY Zenon DEF IsCachedMiddleware, Forward, CachingMiddleware, LookupBlockHash, SkipMetric,
               FinalizeMetric, BlockHashResolved, SaveMetric, SpawnSave
<1>2. /\ pc[p] = pc'[p] \/ pc[p] \notin {"idle", "aborted"}
      /\ pc[p] = pc'[p] \/ pc'[p] \notin {"idle", "aborted"}
  <2>1. CASE IsCachedMiddleware(p) \/ Forward(p)
    BY <1>0, <2>1, Zenon DEF IsCachedMiddleware, Forward, Types
  <2>2. CASE CachingMiddleware(p) \/ LookupBlockHash(p)
    BY <1>0, <2>2, ZenonT(60) DEF CachingMiddleware, LookupBlockHash, Types
  <2>3. CASE SkipMetric(p) \/ FinalizeMetric(p) \/ BlockHashResolved(p)
    BY <1>0, <2>3 DEF SkipMetric, FinalizeMetric, BlockHashResolved, SpawnSave, Return, Types
  <2>4. CASE SaveMetric(p)
    BY <2>4 DEF SaveMetric
  <2> QED  BY <2>1, <2>2, <2>3, <2>4
<1>3. Visible(p)' = Visible(p)
  BY <1>1, <1>2 DEF Visible
<1> QED  BY <1>0, <1>1, <1>3, HiddenStep

LEMMA StepImplements == Inv /\ [Next]_vars => [G!Next]_(G!vars)
<1> SUFFICES ASSUME Inv, [Next]_vars PROVE [G!Next]_(G!vars)
  OBVIOUS
<1>1. ASSUME NEW p \in Handlers, HandlerStep(p)
      PROVE  G!Ask(p) \/ G!Answer(p) \/ G!Drop(p) \/ UNCHANGED G!vars
  <2>1. CASE Receive(p)
    BY <2>1, AskStep
  <2>2. CASE RefuseHost(p)
    BY <2>2, RefuseImplements
  <2>3. CASE ServeFromCache(p)
    BY <2>3, HitImplements
  <2>4. CASE BackendAnswers(p)
    BY <2>4, MissImplements
  <2>5. CASE IsCachedPanics(p) \/ ProxyPanics(p) \/ BackendBreaks(p) \/ FinalizerPanics(p)
    <3>1. Abort(p) /\ pc[p] \notin {"idle", "aborted"}
      BY <2>5 DEF IsCachedPanics, ProxyPanics, BackendBreaks, FinalizerPanics
    <3> QED  BY <1>1, <3>1, DropStep
  <2>6. CASE \/ IsCachedMiddleware(p) \/ Forward(p) \/ CachingMiddleware(p)
             \/ LookupBlockHash(p) \/ SkipMetric(p) \/ FinalizeMetric(p)
             \/ BlockHashResolved(p) \/ SaveMetric(p)
    BY <2>6, HiddenSteps
  <2> QED  BY <1>1, <2>1, <2>2, <2>3, <2>4, <2>5, <2>6, ZenonT(60) DEF HandlerStep, Serve
<1>2. ASSUME UNCHANGED locals PROVE UNCHANGED <<stateBar, call, replyBar>>
  BY <1>2 DEF locals, stateBar, replyBar, Visible
<1>3. ASSUME NEW u \in URLs, Advance(u) PROVE G!Advance(u)
  BY <1>2, <1>3 DEF Advance, G!Advance
<1>4. ASSUME NEW k \in Keys, Evict(k) PROVE UNCHANGED G!vars
  BY <1>2, <1>4 DEF Evict, G!vars
<1>5. CASE UNCHANGED vars
  BY <1>2, <1>5 DEF vars, G!vars
<1> QED  BY <1>1, <1>3, <1>4, <1>5 DEF Next, G!Next, HandlerStep

(***************************************************************************)
(* The safety part of ImplementsGateway: clients cannot tell the service   *)
(* from one that has no cache and asks a backend for every call.           *)
(***************************************************************************)
THEOREM GatewaySafety == Spec => G!Safety
<1>1. Init => G!Init
  <2> SUFFICES ASSUME Init PROVE G!Init
    OBVIOUS
  <2>1. ASSUME NEW p \in Handlers PROVE Visible(p) = "idle" /\ answer[p].res = NoBody
    <3>1. pc[p] = "idle" /\ answer[p] = NoAnswer
      BY DEF Init
    <3> QED  BY <3>1, NoAnswerFields DEF Visible
  <2>2. /\ stateBar = [p \in Handlers |-> "idle"]
        /\ replyBar = [p \in Handlers |-> NoBody]
    BY <2>1 DEF stateBar, replyBar
  <2> QED  BY <2>2 DEF Init, G!Init
<1> QED  BY <1>1, StepImplements, InvAlways, PTL DEF Spec, G!Safety
=============================================================================
