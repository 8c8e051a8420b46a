--------------------------- MODULE BatchProcessor ---------------------------
(***************************************************************************)
(* One batch request: the batch processing middleware (batchmdw.go) and    *)
(* the BatchProcessor it creates (batch_processor.go).  The serving        *)
(* goroutine starts one goroutine per sub-request, waits on a WaitGroup    *)
(* and combines what the sub-requests left under bp.mu into one answer.    *)
(*                                                                         *)
(* The handler of a sub-request (the single request middleware sequence)   *)
(* is seen from here only through the fakeResponseWriter: it answers with  *)
(* a status, a body and a cache header, and it may panic before or after   *)
(* it has answered.                                                        *)
(***************************************************************************)
EXTENDS Integers, Sequences, FiniteSets

CONSTANTS
  BatchSizes,        \* the lengths of the batches clients send
  MaximumBatchSize,  \* BatchMiddlewareConfig.MaximumBatchSize
  ErrorStatuses      \* the statuses other than 200 a sub-request may get

StatusOK == 200
StatusRequestEntityTooLarge == 413

ASSUME BatchAssumption ==
  /\ BatchSizes \subseteq Nat \ {0}
  /\ MaximumBatchSize \in Nat
  /\ ErrorStatuses \subseteq Nat \ {0, StatusOK}

VARIABLES
  size,       \* length of the decoded batch
  n,          \* len(bp.requests), once the sub-requests are built
  main,       \* control state of the serving goroutine
  next,       \* the loop variable of RequestAndServe
  pc,         \* control state of the goroutine of each sub-request
  frw,        \* what the handler wrote to each goroutine's response writer
  wg,         \* the counter of the WaitGroup
  mu,         \* the index of the goroutine inside bp.mu, or 0
  hitsRead,   \* the value of bp.cacheHits each goroutine read inside bp.mu
  responses,  \* bp.responses
  header,     \* the index whose headers bp.header holds, or 0 for nil
  cacheHits,  \* bp.cacheHits
  status,     \* bp.status
  answer      \* what the client of the batch receives

goVars == <<pc, frw, wg, mu, hitsRead, responses, header, cacheHits, status>>
vars == <<size, n, main, next, goVars, answer>>

Idx == 1 .. MaximumBatchSize
Statuses == {StatusOK} \cup ErrorStatuses

(***************************************************************************)
(* The body a sub-request leaves in its buffer: a JSON value, nothing at   *)
(* all (which marshals as null), or bytes that are not JSON.               *)
(***************************************************************************)
BodyKinds == {"json", "empty", "invalid"}
Written == [status : Statuses, hit : BOOLEAN, kind : BodyKinds]
Unwritten == [status |-> StatusOK, hit |-> FALSE, kind |-> "empty"]
Body == [of : Idx, kind : BodyKinds]
Nil == [of |-> 0, kind |-> "nil"]

CacheHeader == {"HIT", "MISS", "PARTIAL"}
Bare(kind, s) == [kind |-> kind, status |-> s, cache |-> "none", from |-> 0, body |-> <<>>]
NoAnswer == Bare("none", 0)
Answers ==
  [kind : {"none", "aborted", "toolarge", "error", "unmarshalable", "array"},
   status : {0, StatusRequestEntityTooLarge} \cup Statuses,
   cache : {"none"} \cup CacheHeader,
   from : 0 .. MaximumBatchSize,
   body : Seq(Body)]

-----------------------------------------------------------------------------
Init ==
  /\ size \in BatchSizes
  /\ n = 0
  /\ main = "received"
  /\ next = 1
  /\ pc = [i \in Idx |-> "unborn"]
  /\ frw = [i \in Idx |-> Unwritten]
  /\ wg = 0
  /\ mu = 0
  /\ hitsRead = [i \in Idx |-> 0]
  /\ responses = [i \in Idx |-> Nil]
  /\ header = 0
  /\ cacheHits = 0
  /\ status = StatusOK
  /\ answer = NoAnswer

(***************************************************************************)
(* The middleware refuses a batch that is too large.                       *)
(***************************************************************************)
RejectTooLarge ==
  /\ main = "received"
  /\ size > MaximumBatchSize
  /\ main' = "done"
  /\ answer' = Bare("toolarge", StatusRequestEntityTooLarge)
  /\ UNCHANGED <<size, n, next, goVars>>

(***************************************************************************)
(* Build the sub-requests and the BatchProcessor.  Marshalling an element  *)
(* that was just unmarshalled succeeds, and NewRequestWithContext gets the *)
(* method and the URL of the batch: either every sub-request is built or   *)
(* all of them are skipped.                                                *)
(***************************************************************************)
NewBatchProcessor ==
  /\ main = "received"
  /\ size <= MaximumBatchSize
  /\ n' \in {0, size}
  /\ main' = "spawning"
  /\ UNCHANGED <<size, next, goVars, answer>>

(***************************************************************************)
(* wg.Add(1) and the go statement for one sub-request.                     *)
(***************************************************************************)
Spawn ==
  /\ main = "spawning"
  /\ next <= n
  /\ wg' = wg + 1
  /\ pc' = [pc EXCEPT ![next] = "handling"]
  /\ next' = next + 1
  /\ UNCHANGED <<size, n, main, frw, mu, hitsRead, responses, header, cacheHits, status, answer>>

\* Mutant of Wait: the call of wg.Wait() is forgotten.
WaitForgotten ==
  /\ main = "spawning"
  /\ next > n
  /\ main' = "serving"
  /\ UNCHANGED <<size, n, next, goVars, answer>>

(***************************************************************************)
(* wg.Wait() returns.                                                      *)
(***************************************************************************)
Wait ==
  /\ main = "spawning"
  /\ next > n
  /\ wg = 0
  /\ main' = "serving"
  /\ UNCHANGED <<size, n, next, goVars, answer>>
-----------------------------------------------------------------------------
(***************************************************************************)
(* setErrStatus, called by the fakeResponseWriter for a status other than  *)
(* 200.  It takes bp.mu, so it waits for a goroutine inside applyHeaders.  *)
(***************************************************************************)
setErrStatus(s) ==
  /\ mu = 0
  /\ status' = s

\* Mutant of HandlerAnswers: WriteHeader reports every status, 200 included.
HandlerAnswersResetsStatus(i) ==
  /\ pc[i] = "handling"
  /\ \E w \in Written :
       /\ w.hit => w.status = StatusOK /\ w.kind = "json"
       /\ frw' = [frw EXCEPT ![i] = w]
       /\ setErrStatus(w.status)
  /\ pc' = [pc EXCEPT ![i] = "answered"]
  /\ UNCHANGED <<size, n, main, next, wg, mu, hitsRead, responses, header, cacheHits, answer>>

(***************************************************************************)
(* The handler of sub-request i answers.  An answer from the cache is      *)
(* valid JSON with status 200; any other comes from the backend, or is the *)
(* 502 for a host without a proxy.                                         *)
(***************************************************************************)
HandlerAnswers(i) ==
  /\ pc[i] = "handling"
  /\ \E w \in Written :
       /\ w.hit => w.status = StatusOK /\ w.kind = "json"
       /\ frw' = [frw EXCEPT ![i] = w]
       /\ IF w.status = StatusOK THEN UNCHANGED status ELSE setErrStatus(w.status)
  /\ pc' = [pc EXCEPT ![i] = "answered"]
  /\ UNCHANGED <<size, n, main, next, wg, mu, hitsRead, responses, header, cacheHits, answer>>

\* Mutant of HandlerPanics: the deferred function recovers and the goroutine
\* reaches its own wg.Done() as well.
HandlerPanicsDoneTwice(i) ==
  /\ pc[i] \in {"handling", "answered"}
  /\ pc' = [pc EXCEPT ![i] = "applied"]
  /\ wg' = wg - 1
  /\ UNCHANGED <<size, n, main, next, frw, mu, hitsRead, responses, header, cacheHits, status, answer>>

\* Mutant of HandlerPanics: the deferred function does not call wg.Done().
HandlerPanicsNotDone(i) ==
  /\ pc[i] \in {"handling", "answered"}
  /\ pc' = [pc EXCEPT ![i] = "panicked"]
  /\ UNCHANGED <<size, n, main, next, frw, wg, mu, hitsRead, responses, header, cacheHits, status, answer>>

(***************************************************************************)
(* The handler of sub-request i panics, before or after it has answered;   *)
(* the deferred function recovers and calls wg.Done().                     *)
(***************************************************************************)
HandlerPanics(i) ==
  /\ pc[i] \in {"handling", "answered"}
  /\ pc' = [pc EXCEPT ![i] = "panicked"]
  /\ wg' = wg - 1
  /\ UNCHANGED <<size, n, main, next, frw, mu, hitsRead, responses, header, cacheHits, status, answer>>

\* Mutant of setResponse: responses are appended as they arrive.
setResponseAppends(i) ==
  LET slot == Cardinality({j \in Idx : responses[j] # Nil}) + 1
  IN /\ pc[i] = "answered"
     /\ mu = 0
     /\ responses' = [responses EXCEPT ![slot] = [of |-> i, kind |-> frw[i].kind]]
     /\ pc' = [pc EXCEPT ![i] = "responded"]
     /\ UNCHANGED <<size, n, main, next, frw, wg, mu, hitsRead, header, cacheHits, status, answer>>

(***************************************************************************)
(* The handler of sub-request i has returned: setResponse.                 *)
(***************************************************************************)
setResponse(i) ==
  /\ pc[i] = "answered"
  /\ mu = 0
  /\ responses' = [responses EXCEPT ![i] = [of |-> i, kind |-> frw[i].kind]]
  /\ pc' = [pc EXCEPT ![i] = "responded"]
  /\ UNCHANGED <<size, n, main, next, frw, wg, mu, hitsRead, header, cacheHits, status, answer>>

\* Mutant of applyHeadersLock: bp.mu is not taken.
applyHeadersUnlocked(i) ==
  /\ pc[i] = "responded"
  /\ mu' = i
  /\ header' = IF header = 0 THEN i ELSE header
  /\ hitsRead' = [hitsRead EXCEPT ![i] = cacheHits]
  /\ pc' = [pc EXCEPT ![i] = "applying"]
  /\ UNCHANGED <<size, n, main, next, frw, wg, responses, cacheHits, status, answer>>

(***************************************************************************)
(* applyHeaders up to and including the read of cacheHits += 1: the first  *)
(* goroutine to get here gives the batch its headers.                      *)
(***************************************************************************)
applyHeadersLock(i) ==
  /\ pc[i] = "responded"
  /\ mu = 0
  /\ mu' = i
  /\ header' = IF header = 0 THEN i ELSE header
  /\ hitsRead' = [hitsRead EXCEPT ![i] = cacheHits]
  /\ pc' = [pc EXCEPT ![i] = "applying"]
  /\ UNCHANGED <<size, n, main, next, frw, wg, responses, cacheHits, status, answer>>

(***************************************************************************)
(* applyHeaders from the write of cacheHits += 1 to the unlock.            *)
(***************************************************************************)
applyHeadersUnlock(i) ==
  /\ pc[i] = "applying"
  /\ mu' = 0
  /\ cacheHits' = IF frw[i].hit THEN hitsRead[i] + 1 ELSE cacheHits
  /\ pc' = [pc EXCEPT ![i] = "applied"]
  /\ UNCHANGED <<size, n, main, next, frw, wg, hitsRead, responses, header, status, answer>>

(***************************************************************************)
(* wg.Done() at the end of the goroutine of sub-request i.                 *)
(***************************************************************************)
Done(i) ==
  /\ pc[i] = "applied"
  /\ wg' = wg - 1
  /\ pc' = [pc EXCEPT ![i] = "finished"]
  /\ UNCHANGED <<size, n, main, next, frw, mu, hitsRead, responses, header, cacheHits, status, answer>>

Goroutine(i) ==
  \/ HandlerAnswers(i)
  \/ HandlerPanics(i)
  \/ setResponse(i)
  \/ applyHeadersLock(i)
  \/ applyHeadersUnlock(i)
  \/ Done(i)
-----------------------------------------------------------------------------

\* Mutant of cacheHitValue: one hit makes the batch a HIT.
cacheHitValueAnyHit(totalNum, hits) ==
  IF hits = 0 \/ totalNum = 0 THEN "MISS" ELSE "HIT"

(***************************************************************************)
(* The cache header of the combined response.                              *)
(***************************************************************************)
cacheHitValue(totalNum, hits) ==
  IF hits = 0 \/ totalNum = 0 THEN "MISS"
  ELSE IF hits = totalNum THEN "HIT"
  ELSE "PARTIAL"

Reply(kind, s, body) ==
  [kind |-> kind, status |-> s, cache |-> cacheHitValue(n, cacheHits),
   from |-> header, body |-> body]

(***************************************************************************)
(* After wg.Wait() the serving goroutine is alone.  It answers with        *)
(*  - the error status, if some sub-request set one;                       *)
(*  - nothing, if a response is nil: r.Bytes() panics and the HTTP server  *)
(*    drops the connection;                                                *)
(*  - an empty 200, if json.Marshal fails: RequestAndServe returns the     *)
(*    error, which the middleware ignores;                                 *)
(*  - the array of the responses in the order of the requests.             *)
(***************************************************************************)
ServeError ==
  /\ status # StatusOK
  /\ answer' = Reply("error", status, <<>>)

ServePanic ==
  /\ status = StatusOK
  /\ \E i \in 1 .. n : responses[i] = Nil
  /\ answer' = Bare("aborted", 0)

ServeUnmarshalable ==
  /\ status = StatusOK
  /\ \A i \in 1 .. n : responses[i] # Nil
  /\ \E i \in 1 .. n : responses[i].kind = "invalid"
  /\ answer' = Reply("unmarshalable", StatusOK, <<>>)

ServeArray ==
  /\ status = StatusOK
  /\ \A i \in 1 .. n : responses[i] # Nil /\ responses[i].kind # "invalid"
  /\ answer' = Reply("array", StatusOK, [i \in 1 .. n |-> responses[i]])

Serve ==
  /\ main = "serving"
  /\ main' = "done"
  /\ ServeError \/ ServePanic \/ ServeUnmarshalable \/ ServeArray
  /\ UNCHANGED <<size, n, next, goVars>>

RequestAndServe == Spawn \/ Wait \/ Serve

(***************************************************************************)
(* The batch is over; the stuttering step keeps TLC's deadlock check on    *)
(* every other state.                                                      *)
(***************************************************************************)
Terminated ==
  /\ main = "done"
  /\ UNCHANGED vars

Next ==
  \/ RejectTooLarge
  \/ NewBatchProcessor
  \/ RequestAndServe
  \/ \E i \in Idx : Goroutine(i)
  \/ Terminated

(***************************************************************************)
(* The Go scheduler runs every runnable goroutine; a handler returns or    *)
(* panics because a backend answers or its connection breaks.              *)
(***************************************************************************)
Fairness ==
  /\ WF_vars(RejectTooLarge \/ NewBatchProcessor \/ RequestAndServe)
  /\ \A i \in Idx : WF_vars(Goroutine(i))

Spec == Init /\ [][Next]_vars /\ Fairness
-----------------------------------------------------------------------------
Running == {"handling", "answered", "responded", "applying", "applied"}
AppliedHeaders == {"applied", "finished"}

(***************************************************************************)
(* The types of the variables; in particular the WaitGroup's counter never *)
(* becomes negative, which would panic in wg.Done().                       *)
(***************************************************************************)
TypeOK ==
  /\ size \in Nat
  /\ n \in 0 .. MaximumBatchSize
  /\ main \in {"received", "spawning", "serving", "done"}
  /\ next \in 1 .. MaximumBatchSize + 1
  /\ pc \in [Idx -> Running \cup {"unborn", "finished", "panicked"}]
  /\ frw \in [Idx -> Written]
  /\ wg \in Nat
  /\ mu \in 0 .. MaximumBatchSize
  /\ hitsRead \in [Idx -> Nat]
  /\ responses \in [Idx -> Body \cup {Nil}]
  /\ header \in 0 .. MaximumBatchSize
  /\ cacheHits \in Nat
  /\ status \in Statuses
  /\ answer \in Answers

(***************************************************************************)
(* wg.Wait() is a barrier: once the serving goroutine reads bp.responses,  *)
(* bp.header, bp.cacheHits and bp.status (after line 70, without bp.mu),   *)
(* no goroutine of the batch runs and none will be started.                *)
(***************************************************************************)
WaitIsABarrier ==
  main \in {"serving", "done"} =>
    \A i \in Idx : pc[i] \in {"unborn", "finished", "panicked"} /\ (i <= n <=> pc[i] # "unborn")

(***************************************************************************)
(* No cache hit is lost or counted twice: the cache header of an array is  *)
(* HIT when every sub-request was answered from the cache, MISS when none  *)
(* was, PARTIAL otherwise (doc.go lines 12 to 15).                         *)
(***************************************************************************)
CacheHeaderIsTruthful ==
  answer.kind = "array" /\ n > 0 =>
    LET hits == {i \in 1 .. n : frw[i].hit}
    IN /\ answer.cache = "HIT" <=> hits = 1 .. n
       /\ answer.cache = "MISS" <=> hits = {}
       /\ answer.cache \in CacheHeader

(***************************************************************************)
(* An array holds, at the position of each sub-request, the body that the  *)
(* handler wrote for that sub-request, whatever the order the goroutines   *)
(* finished in (the e2e batch tests pair responses with requests by        *)
(* position).                                                              *)
(***************************************************************************)
ArrayFollowsRequests ==
  answer.kind = "array" =>
    /\ Len(answer.body) = n
    /\ \A i \in 1 .. n : answer.body[i] = [of |-> i, kind |-> frw[i].kind]

(***************************************************************************)
(* The batch has an error status exactly when a sub-request got one, and   *)
(* then it is a status some sub-request got: no interleaving lets a later  *)
(* success hide an earlier error.                                          *)
(***************************************************************************)
ErrorStatusIsSomeones ==
  main = "done" /\ size <= MaximumBatchSize =>
    LET errors == {frw[i].status : i \in 1 .. n} \ {StatusOK}
    IN /\ answer.kind = "error" <=> errors # {}
       /\ answer.kind = "error" => answer.status \in errors

(***************************************************************************)
(* Whatever the sub-requests do, panics included, the serving goroutine    *)
(* does not wait forever.                                                  *)
(***************************************************************************)
BatchIsServed == <>(main = "done")

(***************************************************************************)
(* What the comment at batch_processor.go:49-50 says: the panic of a       *)
(* sub-request is logged and discarded.  It is not: the nil response it    *)
(* leaves behind makes the serving goroutine panic.                        *)
(***************************************************************************)
PanicsAreDiscarded == answer.kind # "aborted"
=============================================================================
