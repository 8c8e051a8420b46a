------------------------ MODULE BatchProcessorProofs ------------------------
(***************************************************************************)
(* Proofs about BatchProcessor for batches of any size, any maximum size   *)
(* and any set of error statuses.                                          *)
(***************************************************************************)
EXTENDS BatchRefinement, FiniteSetTheorems, TLAPS

(***************************************************************************)
(* The inductive invariant.  ControlInv relates the spawning loop to the   *)
(* control states of the goroutines, CountInv says what the WaitGroup      *)
(* counts, MutexInv that at most one goroutine is inside applyHeaders,     *)
(* HitsInv that its read of bp.cacheHits is not stale and what the counter *)
(* counts, DataInv what the slots written under bp.mu hold.                *)
(***************************************************************************)
ControlInv ==
  /\ main = "received" => n = 0 /\ next = 1
  /\ next \in 1 .. n + 1
  /\ \A i \in Idx : pc[i] = "unborn" <=> i >= next
  /\ main \in {"serving", "done"} => wg = 0 /\ next = n + 1

RunningSet == {i \in Idx : pc[i] \in Running}
HitSet == {i \in Idx : pc[i] \in AppliedHeaders /\ frw[i].hit}

CountInv == wg = Cardinality(RunningSet)

MutexInv == \A i \in Idx : pc[i] = "applying" <=> mu = i

HitsInv ==
  /\ \A i \in Idx : pc[i] = "applying" => hitsRead[i] = cacheHits
  /\ cacheHits = Cardinality(HitSet)

HasHeader == {"applying"} \cup AppliedHeaders
Returned == {"responded"} \cup HasHeader

DataInv ==
  /\ \A i \in Idx : responses[i] = IF pc[i] \in Returned THEN [of |-> i, kind |-> frw[i].kind] ELSE Nil
  /\ \A i \in Idx : pc[i] \in {"unborn", "handling"} => frw[i] = Unwritten
  /\ header = 0 => \A i \in Idx : pc[i] \notin HasHeader
  /\ header # 0 => pc[header] \in HasHeader
  /\ status # StatusOK => \E i \in Idx : frw[i].status = status
  /\ status = StatusOK => \A i \in Idx : frw[i].status = StatusOK

AnswerInv ==
  /\ main # "done" => answer = NoAnswer
  /\ CacheHeaderIsTruthful
  /\ ArrayFollowsRequests
  /\ ErrorStatusIsSomeones

Inv == TypeOK /\ ControlInv /\ CountInv /\ MutexInv /\ HitsInv /\ DataInv

-----------------------------------------------------------------------------
(***************************************************************************)
(* The indices of the sub-requests of a batch are positive and finitely    *)
(* many, and 0, which stands for nil and for a free mutex, is not one.     *)
(***************************************************************************)
LEMMA IdxFacts ==
  /\ 0 \notin Idx
  /\ \A i \in Idx : i \in Nat
  /\ \A S \in SUBSET Idx : IsFiniteSet(S) /\ Cardinality(S) \in Nat
  /\ \A S \in SUBSET Idx : Cardinality(S) = 0 <=> S = {}
<1>1. IsFiniteSet(Idx)
  BY BatchAssumption, FS_Interval DEF Idx
<1>2. \A S \in SUBSET Idx : IsFiniteSet(S) /\ Cardinality(S) \in Nat
  BY <1>1, FS_Subset, FS_CardinalityType
<1>3. \A S \in SUBSET Idx : Cardinality(S) = 0 <=> S = {}
  BY <1>2, FS_EmptySet
<1>4. 0 \notin Idx /\ \A i \in Idx : i \in Nat
  BY BatchAssumption DEF Idx
<1>5. QED
  BY <1>2, <1>3, <1>4

(***************************************************************************)
(* Init establishes the invariant.                                         *)
(***************************************************************************)
LEMMA InitInv == Init => Inv /\ AnswerInv
<1> SUFFICES ASSUME Init PROVE Inv /\ AnswerInv
  OBVIOUS
<1>1. TypeOK
  BY BatchAssumption DEF Init, TypeOK, Idx, Running, Written, Unwritten, Statuses, StatusOK,
     BodyKinds,
     Answers, NoAnswer, Bare, Body
<1>2. ControlInv
  BY BatchAssumption DEF Init, ControlInv, Idx
<1>3. RunningSet = {} /\ HitSet = {}
  BY DEF Init, RunningSet, HitSet, Running, AppliedHeaders
<1>4. CountInv /\ MutexInv /\ HitsInv
  BY <1>3, FS_EmptySet, IdxFacts DEF Init, CountInv, MutexInv, HitsInv
<1>5. DataInv
  BY DEF Init, DataInv, Unwritten, StatusOK, Returned, HasHeader, AppliedHeaders
<1>6. AnswerInv
  BY DEF Init, AnswerInv, CacheHeaderIsTruthful, ArrayFollowsRequests, ErrorStatusIsSomeones,
     NoAnswer, Bare
<1>7. QED
  BY <1>1, <1>2, <1>4, <1>5, <1>6 DEF Inv

(***************************************************************************)
(* A running goroutine is counted by the WaitGroup.                        *)
(***************************************************************************)
LEMMA RunningIsCounted ==
  ASSUME Inv, NEW i \in Idx, pc[i] \in Running
  PROVE  wg - 1 \in Nat
<1>1. RunningSet \in SUBSET Idx /\ RunningSet # {}
  BY DEF RunningSet
<1>2. Cardinality(RunningSet) \in Nat /\ Cardinality(RunningSet) # 0
  BY <1>1, IdxFacts
<1>3. QED
  BY <1>2 DEF Inv, CountInv

(***************************************************************************)
(* What the serving goroutine answers has the type of an answer.           *)
(***************************************************************************)
LEMMA ServeType == Inv /\ Serve => answer' \in Answers
<1> SUFFICES ASSUME Inv, Serve PROVE answer' \in Answers
  OBVIOUS
<1>1. cacheHitValue(n, cacheHits) \in CacheHeader
  BY DEF cacheHitValue, CacheHeader
<1>2. ASSUME NEW k \in {"error", "unmarshalable", "array"}, NEW s \in Statuses, NEW b \in Seq(Body)
      PROVE  Reply(k, s, b) \in Answers
  BY <1>1, <1>2 DEF Reply, Answers, Inv, TypeOK
<1>3. <<>> \in Seq(Body)
  OBVIOUS
<1>4. CASE ServeError
  BY <1>2, <1>3, <1>4, Zenon DEF ServeError, Inv, TypeOK
<1>5. CASE ServePanic
  BY <1>3, <1>5, BatchAssumption DEF ServePanic, Bare, Answers
<1>6. CASE ServeUnmarshalable
  BY <1>2, <1>3, <1>6, Zenon DEF ServeUnmarshalable, Statuses
<1>7. CASE ServeArray
  <2>1. \A i \in 1 .. n : responses[i] \in Body
    BY <1>7, BatchAssumption DEF ServeArray, Inv, TypeOK, Idx
  <2>2. [i \in 1 .. n |-> responses[i]] \in Seq(Body)
    BY <2>1, SMTT(60) DEF Inv, TypeOK
  <2>3. QED
    BY <1>2, <1>7, <2>2 DEF ServeArray, Statuses
<1>8. QED
  BY <1>4, <1>5, <1>6, <1>7 DEF Serve

(***************************************************************************)
(* Every step preserves the types.                                         *)
(***************************************************************************)
LEMMA TypeStep == Inv /\ [Next]_vars => TypeOK'
<1> SUFFICES ASSUME Inv, [Next]_vars PROVE TypeOK'
  OBVIOUS
<1> USE BatchAssumption DEF Inv, TypeOK, Idx
<1>1. CASE RejectTooLarge
  <2>1. <<>> \in Seq(Body)
    OBVIOUS
  <2>2. answer' \in Answers
    BY <1>1, <2>1 DEF RejectTooLarge, Answers, Bare
  <2>3. QED
    BY <1>1, <2>2 DEF RejectTooLarge, goVars
<1>2. CASE NewBatchProcessor
  BY <1>2 DEF NewBatchProcessor, goVars
<1>3. CASE Spawn
  BY <1>3 DEF Spawn, Running
<1>4. CASE Wait
  BY <1>4 DEF Wait, goVars
<1>5. CASE Serve
  BY <1>5, ServeType DEF Serve, goVars
<1>6. ASSUME NEW i \in Idx, HandlerAnswers(i) PROVE TypeOK'
  BY <1>6 DEF HandlerAnswers, setErrStatus, Written, Running
<1>7. ASSUME NEW i \in Idx, HandlerPanics(i) PROVE TypeOK'
  BY <1>7, RunningIsCounted, SMTT(60) DEF HandlerPanics, Running
<1>8. ASSUME NEW i \in Idx, setResponse(i) PROVE TypeOK'
  BY <1>8, Zenon DEF setResponse, Body, Written, Running
<1>9. ASSUME NEW i \in Idx, applyHeadersLock(i) PROVE TypeOK'
  BY <1>9 DEF applyHeadersLock, Running
<1>10. ASSUME NEW i \in Idx, applyHeadersUnlock(i) PROVE TypeOK'
  BY <1>10 DEF applyHeadersUnlock, Running
<1>11. ASSUME NEW i \in Idx, Done(i) PROVE TypeOK'
  BY <1>11, RunningIsCounted DEF Done, Running
<1>12. CASE UNCHANGED vars
  BY <1>12, Zenon DEF vars, goVars
<1>13. QED
  BY ZenonT(60), <1>1, <1>2, <1>3, <1>4, <1>5, <1>6, <1>7, <1>8, <1>9, <1>10, <1>11, <1>12
  DEF Next, RequestAndServe, Goroutine, Terminated

(***************************************************************************)
(* Every step keeps the spawning loop and the goroutines in agreement.     *)
(***************************************************************************)
LEMMA ControlStep == Inv /\ [Next]_vars => ControlInv'
<1> SUFFICES ASSUME Inv, [Next]_vars PROVE ControlInv'
  OBVIOUS
<1> USE BatchAssumption DEF Inv, TypeOK, ControlInv, Idx
<1>1. CASE RejectTooLarge
  <2>1. n = 0 /\ next = 1 /\ UNCHANGED <<n, next, pc, wg>> /\ main' = "done"
    BY <1>1 DEF RejectTooLarge, goVars
  <2>2. RunningSet = {}
    BY <2>1 DEF RunningSet, Running
  <2>3. wg = 0
    BY <2>2, FS_EmptySet DEF CountInv
  <2>4. QED
    BY <2>1, <2>3
<1>2. CASE NewBatchProcessor
  <2>1. next = 1 /\ next' = 1 /\ pc' = pc /\ main' = "spawning" /\ n' \in Nat
    BY <1>2 DEF NewBatchProcessor, goVars
  <2>2. next' \in 1 .. n' + 1
    <3>1. \A m \in Nat : 1 \in 1 .. m + 1
      OBVIOUS
    <3>2. QED
      BY Zenon, <2>1, <3>1
  <2>3. \A i \in Idx : pc'[i] = "unborn" <=> i >= next'
    BY <2>1
  <2>4. QED
    BY Zenon, <2>1, <2>2, <2>3
<1>3. CASE Spawn
  BY <1>3 DEF Spawn
<1>4. CASE Wait
  BY <1>4 DEF Wait, goVars
<1>5. CASE Serve
  BY <1>5 DEF Serve, goVars
<1>6. ASSUME NEW i \in Idx, Goroutine(i) PROVE ControlInv'
  <2>1. pc[i] \in Running /\ main = "spawning"
    <3>1. pc[i] \in Running
      BY <1>6 DEF Goroutine, HandlerAnswers, HandlerPanics, setResponse, applyHeadersLock,
                  applyHeadersUnlock, Done, Running
    <3>2. wg # 0
      BY <3>1, RunningIsCounted
    <3>3. main # "received"
      BY <3>1, SMTT(60) DEF Running
    <3>4. QED
      BY ZenonT(60), <3>1, <3>2, <3>3
  <2>2. UNCHANGED <<n, main, next>>
    BY <1>6, Zenon DEF Goroutine, HandlerAnswers, HandlerPanics, setResponse, applyHeadersLock,
                applyHeadersUnlock, Done
  <2>3. \A j \in Idx : pc'[j] = "unborn" <=> pc[j] = "unborn"
    BY <1>6, ZenonT(60) DEF Goroutine, HandlerAnswers, HandlerPanics, setResponse, applyHeadersLock,
                applyHeadersUnlock, Done
  <2>4. QED
    BY <2>1, <2>2, <2>3
<1>7. CASE UNCHANGED vars
  BY <1>7 DEF vars, goVars
<1>8. QED
  BY <1>1, <1>2, <1>3, <1>4, <1>5, <1>6, <1>7, SMTT(60) DEF Next, RequestAndServe, Terminated

(***************************************************************************)
(* The WaitGroup counts the running goroutines: Add(1) precedes the go     *)
(* statement, and a goroutine calls Done() once, at its end or in the      *)
(* deferred function.                                                      *)
(***************************************************************************)
LEMMA CountStep == Inv /\ [Next]_vars => CountInv'
<1> SUFFICES ASSUME Inv, [Next]_vars PROVE CountInv'
  OBVIOUS
<1> USE DEF CountInv
<1>0. IsFiniteSet(RunningSet) /\ Cardinality(RunningSet) \in Nat
  BY IdxFacts DEF RunningSet
<1>1. CASE UNCHANGED <<pc, wg>>
  BY <1>1 DEF Inv, RunningSet
<1>2. CASE Spawn
  <2>1. next \in Idx /\ pc[next] \notin Running
    BY <1>2, BatchAssumption DEF Spawn, Inv, TypeOK, ControlInv, Idx, Running
  <2>2. RunningSet' = RunningSet \cup {next}
    BY <1>2, <2>1 DEF Spawn, RunningSet, Running, Inv, TypeOK
  <2>3. next \notin RunningSet
    BY <2>1, Zenon DEF RunningSet
  <2>4. QED
    BY <1>0, <1>2, <2>2, <2>3, FS_AddElement DEF Spawn, Inv
<1>3. ASSUME NEW i \in Idx, HandlerPanics(i) \/ Done(i) PROVE CountInv'
  <2>1. RunningSet' = RunningSet \ {i} /\ i \in RunningSet
    BY <1>3 DEF HandlerPanics, Done, RunningSet, Running, Inv, TypeOK
  <2>2. QED
    BY <1>0, <1>3, <2>1, FS_RemoveElement, Zenon DEF HandlerPanics, Done, Inv
<1>4. ASSUME NEW i \in Idx,
             HandlerAnswers(i) \/ setResponse(i) \/ applyHeadersLock(i) \/ applyHeadersUnlock(i)
      PROVE  CountInv'
  <2>1. RunningSet' = RunningSet
    BY <1>4, Zenon DEF HandlerAnswers, setResponse, applyHeadersLock, applyHeadersUnlock,
       RunningSet,
                Running, Inv, TypeOK
  <2>2. QED
    BY <1>4, <2>1, Zenon DEF HandlerAnswers, setResponse, applyHeadersLock, applyHeadersUnlock, Inv
<1>5. QED
  BY <1>1, <1>2, <1>3, <1>4
  DEF Next, RejectTooLarge, NewBatchProcessor, RequestAndServe, Wait, Serve, Goroutine,
      Terminated, vars, goVars

(***************************************************************************)
(* At most one goroutine is between the lock and the unlock of             *)
(* applyHeaders.                                                           *)
(***************************************************************************)
LEMMA MutexStep == Inv /\ [Next]_vars => MutexInv'
<1> SUFFICES ASSUME Inv, [Next]_vars PROVE MutexInv'
  OBVIOUS
<1> USE IdxFacts DEF Inv, TypeOK, MutexInv
<1>1. CASE UNCHANGED <<pc, mu>>
  BY <1>1
<1>2. CASE Spawn
  BY <1>2, SMTT(60) DEF Spawn, ControlInv, Idx
<1>3. ASSUME NEW i \in Idx, Goroutine(i) PROVE MutexInv'
  BY <1>3 DEF Goroutine, HandlerAnswers, HandlerPanics, setResponse, applyHeadersLock,
              applyHeadersUnlock, Done
<1>4. QED
  BY Zenon, <1>1, <1>2, <1>3
  DEF Next, RejectTooLarge, NewBatchProcessor, RequestAndServe, Wait, Serve, Terminated, vars, goVars

(***************************************************************************)
(* bp.cacheHits counts the hits applied so far: the mutex keeps the value  *)
(* a goroutine has read current until it writes it back.                   *)
(***************************************************************************)
LEMMA HitsStep == Inv /\ [Next]_vars => HitsInv'
<1> SUFFICES ASSUME Inv, [Next]_vars PROVE HitsInv'
  OBVIOUS
<1>0. HitSet \in SUBSET Idx /\ IsFiniteSet(HitSet) /\ Cardinality(HitSet) \in Nat
  BY IdxFacts, Zenon DEF HitSet
<1>1. CASE UNCHANGED <<pc, frw, hitsRead, cacheHits>>
  BY <1>1 DEF Inv, HitsInv, HitSet
<1>2. CASE Spawn
  <2>1. next \in Idx /\ pc[next] = "unborn"
    BY <1>2, BatchAssumption DEF Spawn, Inv, TypeOK, ControlInv, Idx
  <2>2. HitSet' = HitSet
    BY <1>2, <2>1 DEF Spawn, HitSet, AppliedHeaders, Inv, TypeOK
  <2>3. QED
    BY <1>2, <2>1, <2>2 DEF Spawn, Inv, TypeOK, HitsInv
<1>3. ASSUME NEW i \in Idx, HandlerAnswers(i) \/ HandlerPanics(i) \/ setResponse(i) \/ Done(i)
      PROVE  HitsInv'
  <2>1. HitSet' = HitSet
    BY <1>3, Zenon DEF HandlerAnswers, HandlerPanics, setResponse, Done, HitSet, AppliedHeaders,
       Inv, TypeOK
  <2>2. UNCHANGED <<cacheHits, hitsRead>> /\ \A j \in Idx : pc'[j] = "applying" => pc[j] = "applying"
    BY <1>3 DEF HandlerAnswers, HandlerPanics, setResponse, Done, Inv, TypeOK
  <2>3. QED
    BY <2>1, <2>2, Zenon DEF Inv, HitsInv
<1>4. ASSUME NEW i \in Idx, applyHeadersLock(i) PROVE HitsInv'
  <2>1. HitSet' = HitSet
    BY <1>4 DEF applyHeadersLock, HitSet, AppliedHeaders, Inv, TypeOK
  <2>2. \A j \in Idx : pc'[j] = "applying" => j = i
    BY <1>4, IdxFacts DEF applyHeadersLock, Inv, TypeOK, MutexInv
  <2>3. cacheHits' = cacheHits /\ hitsRead'[i] = cacheHits
    BY <1>4 DEF applyHeadersLock, Inv, TypeOK
  <2>4. QED
    BY <2>1, <2>2, <2>3 DEF Inv, HitsInv
<1>5. ASSUME NEW i \in Idx, applyHeadersUnlock(i) PROVE HitsInv'
  <2>1. \A j \in Idx : pc'[j] # "applying"
    BY <1>5, IdxFacts, ZenonT(60) DEF applyHeadersUnlock, Inv, TypeOK, MutexInv
  <2>2. hitsRead[i] = cacheHits /\ i \notin HitSet
    BY <1>5 DEF applyHeadersUnlock, Inv, HitsInv, HitSet, AppliedHeaders
  <2>3. CASE frw[i].hit
    <3>1. HitSet' = HitSet \cup {i}
      BY <1>5, <2>3 DEF applyHeadersUnlock, HitSet, AppliedHeaders, Inv, TypeOK
    <3>2. Cardinality(HitSet') = Cardinality(HitSet) + 1
      BY Zenon, <1>0, <2>2, <3>1, FS_AddElement
    <3>3. QED
      BY <1>5, <2>1, <2>2, <2>3, <3>2, Zenon DEF applyHeadersUnlock, Inv, HitsInv
  <2>4. CASE ~ frw[i].hit
    <3>1. HitSet' = HitSet
      BY <1>5, <2>4, Zenon DEF applyHeadersUnlock, HitSet, AppliedHeaders, Inv, TypeOK
    <3>2. QED
      BY <1>5, <2>1, <2>4, <3>1 DEF applyHeadersUnlock, Inv, HitsInv
  <2>5. QED
    BY <2>3, <2>4
<1>6. QED
  BY <1>1, <1>2, <1>3, <1>4, <1>5
  DEF Next, RejectTooLarge, NewBatchProcessor, RequestAndServe, Wait, Serve, Goroutine,
      Terminated, vars, goVars

(***************************************************************************)
(* The slots written under bp.mu hold what the handlers wrote.             *)
(***************************************************************************)
LEMMA DataStep == Inv /\ [Next]_vars => DataInv'
<1> SUFFICES ASSUME Inv, [Next]_vars PROVE DataInv'
  OBVIOUS
<1> USE IdxFacts DEF Inv, TypeOK, DataInv, Returned, HasHeader, AppliedHeaders
<1>1. CASE UNCHANGED <<pc, frw, responses, header, status>>
  BY Zenon, <1>1
<1>2. CASE Spawn
  <2>1. next \in Idx /\ pc[next] = "unborn"
    BY <1>2, BatchAssumption, SMTT(60) DEF Spawn, ControlInv, Idx
  <2>2. QED
    BY <1>2, <2>1, SMTT(60) DEF Spawn
<1>3. ASSUME NEW i \in Idx, HandlerAnswers(i) PROVE DataInv'
  <2>1. PICK w \in Written : /\ frw' = [frw EXCEPT ![i] = w]
                             /\ IF w.status = StatusOK THEN UNCHANGED status ELSE status' = w.status
    BY <1>3, ZenonT(60) DEF HandlerAnswers, setErrStatus
  <2>2. pc[i] = "handling" /\ pc' = [pc EXCEPT ![i] = "answered"] /\ UNCHANGED <<responses, header>>
    BY <1>3 DEF HandlerAnswers
  <2>3. frw[i].status = StatusOK
    BY <2>2, SMTT(60) DEF Unwritten
  <2>4. /\ status' # StatusOK => \E j \in Idx : frw'[j].status = status'
        /\ status' = StatusOK => \A j \in Idx : frw'[j].status = StatusOK
    BY SMTT(60), <2>1, <2>3
  <2>5. QED
    BY SMTT(60), <2>1, <2>2, <2>4
<1>4. ASSUME NEW i \in Idx, HandlerPanics(i) PROVE DataInv'
  BY <1>4, SMTT(60) DEF HandlerPanics
<1>5. ASSUME NEW i \in Idx, setResponse(i) PROVE DataInv'
  BY <1>5, SMTT(60) DEF setResponse
<1>6. ASSUME NEW i \in Idx, applyHeadersLock(i) PROVE DataInv'
  BY <1>6, SMTT(60) DEF applyHeadersLock
<1>7. ASSUME NEW i \in Idx, applyHeadersUnlock(i) PROVE DataInv'
  BY <1>7, SMTT(60) DEF applyHeadersUnlock
<1>8. ASSUME NEW i \in Idx, Done(i) PROVE DataInv'
  BY <1>8 DEF Done
<1>9. QED
  BY ZenonT(60), <1>1, <1>2, <1>3, <1>4, <1>5, <1>6, <1>7, <1>8
  DEF Next, RejectTooLarge, NewBatchProcessor, RequestAndServe, Wait, Serve, Goroutine,
      Terminated, vars, goVars

(***************************************************************************)
(* Every step preserves the invariant.                                     *)
(***************************************************************************)
LEMMA InvStep == Inv /\ [Next]_vars => Inv'
BY TypeStep, ControlStep, CountStep, MutexStep, HitsStep, DataStep DEF Inv

(***************************************************************************)
(* Once wg.Wait() has returned, every sub-request has ended.               *)
(***************************************************************************)
LEMMA Barrier == Inv => WaitIsABarrier
<1> SUFFICES ASSUME Inv, main \in {"serving", "done"}
             PROVE  \A i \in Idx : /\ pc[i] \in {"unborn", "finished", "panicked"}
                                   /\ i <= n <=> pc[i] # "unborn"
  BY DEF WaitIsABarrier
<1>1. RunningSet = {}
  <2>1. wg = 0 /\ RunningSet \in SUBSET Idx
    BY DEF Inv, ControlInv, RunningSet
  <2>2. QED
    BY <2>1, IdxFacts, Zenon DEF Inv, CountInv
<1>2. \A i \in Idx : pc[i] \in {"unborn", "finished", "panicked"}
  BY <1>1 DEF RunningSet, Inv, TypeOK
<1>3. \A i \in Idx : i <= n <=> pc[i] # "unborn"
  BY BatchAssumption DEF Inv, TypeOK, ControlInv, Idx
<1>4. QED
  BY <1>2, <1>3

(***************************************************************************)
(* When the serving goroutine answers, the hits it has counted are those   *)
(* of the sub-requests that returned.                                      *)
(***************************************************************************)
LEMMA CountedHits ==
  ASSUME Inv, main = "serving"
  PROVE  /\ HitSet = {i \in 1 .. n : pc[i] = "finished" /\ frw[i].hit}
         /\ 1 .. n \subseteq Idx
         /\ cacheHits = 0 <=> HitSet = {}
         /\ cacheHits = n <=> HitSet = 1 .. n
<1>1. 1 .. n \subseteq Idx /\ n \in Nat
  BY BatchAssumption DEF Inv, TypeOK, Idx
<1>2. HitSet = {i \in 1 .. n : pc[i] = "finished" /\ frw[i].hit}
  BY <1>1, Barrier, BatchAssumption DEF WaitIsABarrier, HitSet, AppliedHeaders, Idx
<1>3. cacheHits = 0 <=> HitSet = {}
  BY IdxFacts DEF Inv, HitsInv, HitSet
<1>4. IsFiniteSet(1 .. n) /\ Cardinality(1 .. n) = n
  BY <1>1, FS_Interval
<1>5. HitSet \in SUBSET (1 .. n)
  BY <1>2
<1>6. cacheHits = n <=> HitSet = 1 .. n
  BY <1>4, <1>5, FS_Subset, Zenon DEF Inv, HitsInv
<1>7. QED
  BY <1>1, <1>2, <1>3, <1>6

(***************************************************************************)
(* After Wait a response is nil exactly for a sub-request that panicked.   *)
(***************************************************************************)
LEMMA ResponsesAfterWait ==
  ASSUME Inv, main = "serving", NEW i \in 1 .. n
  PROVE  /\ i \in Idx
         /\ responses[i] = Nil <=> pc[i] = "panicked"
         /\ responses[i] # Nil => pc[i] = "finished" /\ responses[i] = [of |-> i, kind |-> frw[i].kind]
<1>1. i \in Idx
  BY BatchAssumption DEF Inv, TypeOK, Idx
<1>2. pc[i] \in {"finished", "panicked"}
  BY <1>1, Barrier DEF WaitIsABarrier
<1>3. [of |-> i, kind |-> frw[i].kind] # Nil
  BY <1>1, IdxFacts, SMTT(60) DEF Nil
<1>4. QED
  BY <1>1, <1>2, <1>3 DEF Inv, DataInv, Returned, HasHeader, AppliedHeaders

(***************************************************************************)
(* No status was written for an index outside the batch.                   *)
(***************************************************************************)
LEMMA NoStatusOutsideBatch ==
  ASSUME Inv, main = "serving"
  PROVE  \A i \in Idx : i \notin 1 .. n => frw[i].status = StatusOK
<1> SUFFICES ASSUME NEW i \in Idx, i \notin 1 .. n PROVE frw[i].status = StatusOK
  OBVIOUS
<1>1. ~ (i <= n)
  BY BatchAssumption DEF Inv, TypeOK, Idx
<1>2. pc[i] = "unborn"
  BY <1>1, Barrier DEF WaitIsABarrier
<1>3. QED
  BY <1>2 DEF Inv, DataInv, Unwritten

(***************************************************************************)
(* The answer of the batch is right when it is given, and nothing it is    *)
(* about changes afterwards.                                               *)
(***************************************************************************)
LEMMA AnswerStep == Inv /\ AnswerInv /\ [Next]_vars => AnswerInv'
<1> SUFFICES ASSUME Inv, AnswerInv, [Next]_vars PROVE AnswerInv'
  OBVIOUS
<1>1. CASE Serve
  <2>0. main = "serving" /\ main' = "done" /\ UNCHANGED <<size, n, pc, frw>>
    BY <1>1 DEF Serve, goVars
  <2>1. CacheHeaderIsTruthful'
    <3> SUFFICES ASSUME answer'.kind = "array", n > 0
                 PROVE  LET hits == {i \in 1 .. n : frw[i].hit}
                        IN /\ answer'.cache = "HIT" <=> hits = 1 .. n
                           /\ answer'.cache = "MISS" <=> hits = {}
                           /\ answer'.cache \in CacheHeader
      BY <2>0, SMTT(60) DEF CacheHeaderIsTruthful
    <3>1. ServeArray
      BY <1>1 DEF Serve, ServeError, ServePanic, ServeUnmarshalable, Reply, Bare
    <3>2. {i \in 1 .. n : frw[i].hit} = HitSet
      BY <2>0, <3>1, ResponsesAfterWait, CountedHits, ZenonT(60) DEF ServeArray
    <3>3. answer'.cache = cacheHitValue(n, cacheHits)
      BY <3>1 DEF ServeArray, Reply
    <3>4. /\ answer'.cache = "HIT" <=> cacheHits = n
          /\ answer'.cache = "MISS" <=> cacheHits = 0
          /\ answer'.cache \in CacheHeader
      BY <3>3, BatchAssumption DEF cacheHitValue, CacheHeader, Inv, TypeOK
    <3>5. (cacheHits = 0 <=> HitSet = {}) /\ (cacheHits = n <=> HitSet = 1 .. n)
      BY SMTT(60), <2>0, CountedHits
    <3>6. QED
      BY Zenon, <3>2, <3>4, <3>5
  <2>2. ArrayFollowsRequests'
    <3> SUFFICES ASSUME answer'.kind = "array"
                 PROVE  /\ Len(answer'.body) = n
                        /\ \A i \in 1 .. n : answer'.body[i] = [of |-> i, kind |-> frw[i].kind]
      BY <2>0, ZenonT(60) DEF ArrayFollowsRequests
    <3>1. ServeArray
      BY <1>1, SMTT(60) DEF Serve, ServeError, ServePanic, ServeUnmarshalable, Reply, Bare
    <3>2. answer'.body = [i \in 1 .. n |-> responses[i]]
      BY <3>1 DEF ServeArray, Reply
    <3>3. n \in Nat
      BY BatchAssumption DEF Inv, TypeOK
    <3>4. Len(answer'.body) = n
      BY <3>2, <3>3
    <3>5. \A i \in 1 .. n : answer'.body[i] = responses[i]
      BY Zenon, <3>2
    <3>6. \A i \in 1 .. n : responses[i] = [of |-> i, kind |-> frw[i].kind]
      BY <2>0, <3>1, ResponsesAfterWait, Zenon DEF ServeArray
    <3>7. QED
      BY <3>4, <3>5, <3>6
  <2>3. ErrorStatusIsSomeones'
    <3> DEFINE errors == {frw[i].status : i \in 1 .. n} \ {StatusOK}
    <3>1. answer'.kind = "error" <=> status # StatusOK
      BY <1>1, SMTT(60) DEF Serve, ServeError, ServePanic, ServeUnmarshalable, ServeArray, Reply,
         Bare
    <3>2. answer'.kind = "error" => answer'.status = status
      BY <1>1, <3>1 DEF Serve, ServeError, ServePanic, ServeUnmarshalable, ServeArray, Reply
    <3>3. \A i \in Idx : i \notin 1 .. n => frw[i].status = StatusOK
      BY Zenon, <2>0, NoStatusOutsideBatch
    <3>4. status # StatusOK => status \in errors
      BY <3>3, Zenon DEF Inv, DataInv
    <3>5. status = StatusOK => errors = {}
      BY <2>0, CountedHits, ZenonT(60) DEF Inv, DataInv
    <3>6. QED
      BY <2>0, <3>1, <3>2, <3>4, <3>5, ZenonT(60) DEF ErrorStatusIsSomeones
  <2>4. QED
    BY <2>0, <2>1, <2>2, <2>3 DEF AnswerInv
<1>2. CASE RejectTooLarge
  BY <1>2, BatchAssumption, SMTT(60) DEF RejectTooLarge, AnswerInv, CacheHeaderIsTruthful,
     ArrayFollowsRequests,
     ErrorStatusIsSomeones, Bare, Inv, TypeOK
<1>3. CASE main' # "done" /\ UNCHANGED answer /\ main # "done"
  BY <1>3, SMTT(60) DEF AnswerInv, CacheHeaderIsTruthful, ArrayFollowsRequests,
     ErrorStatusIsSomeones, NoAnswer, Bare
<1>4. CASE UNCHANGED vars
  BY <1>4, ZenonT(60) DEF vars, goVars, AnswerInv, CacheHeaderIsTruthful, ArrayFollowsRequests,
     ErrorStatusIsSomeones
<1>5. ASSUME NEW i \in Idx, Goroutine(i) PROVE main # "done" /\ UNCHANGED <<main, answer>>
  <2>1. pc[i] \in Running /\ UNCHANGED <<main, answer>>
    BY <1>5 DEF Goroutine, HandlerAnswers, HandlerPanics, setResponse, applyHeadersLock,
                applyHeadersUnlock, Done, Running
  <2>2. QED
    BY <2>1, Barrier DEF WaitIsABarrier, Running
<1>6. QED
  BY <1>1, <1>2, <1>3, <1>4, <1>5
  DEF Next, NewBatchProcessor, RequestAndServe, Spawn, Wait, Terminated
-----------------------------------------------------------------------------
(***************************************************************************)
(* The inductive invariant, and what it says of the answer, hold in every  *)
(* reachable state of every batch (batch_processor.go:43).                 *)
(***************************************************************************)
THEOREM InvariantHolds == Spec => [](Inv /\ AnswerInv)
<1>1. Inv /\ AnswerInv /\ [Next]_vars => (Inv /\ AnswerInv)'
  BY InvStep, AnswerStep
<1>2. QED
  BY InitInv, <1>1, PTL DEF Spec

(***************************************************************************)
(* Type correctness; with it, wg.Done() never makes the WaitGroup's        *)
(* counter negative.                                                       *)
(***************************************************************************)
THEOREM TypeCorrect == Spec => []TypeOK
<1>1. Inv => TypeOK
  BY DEF Inv
<1>2. QED
  BY InvariantHolds, <1>1, PTL

(***************************************************************************)
(* The serving goroutine reads the fields of the BatchProcessor without    *)
(* bp.mu only when no goroutine of the batch is left.                      *)
(***************************************************************************)
THEOREM WaitBarrier == Spec => []WaitIsABarrier
BY InvariantHolds, Barrier, PTL

(***************************************************************************)
(* The cache header of a batch counts every hit.                           *)
(***************************************************************************)
THEOREM HitsAreCounted == Spec => []CacheHeaderIsTruthful
<1>1. AnswerInv => CacheHeaderIsTruthful
  BY DEF AnswerInv
<1> QED  BY InvariantHolds, <1>1, PTL

(***************************************************************************)
(* Its array is in the order of the requests, whatever order the           *)
(* goroutines finished in.                                                 *)
(***************************************************************************)
THEOREM ArrayInOrder == Spec => []ArrayFollowsRequests
<1>1. AnswerInv => ArrayFollowsRequests
  BY DEF AnswerInv
<1> QED  BY InvariantHolds, <1>1, PTL

(***************************************************************************)
(* Its error status comes from a sub-request, and no success hides it.     *)
(***************************************************************************)
THEOREM ErrorsAreReported == Spec => []ErrorStatusIsSomeones
<1>1. AnswerInv => ErrorStatusIsSomeones
  BY DEF AnswerInv
<1> QED  BY InvariantHolds, <1>1, PTL

-----------------------------------------------------------------------------
(***************************************************************************)
(* A goroutine that takes a step belongs to a sub-request that has not     *)
(* ended, of a batch that has not been answered.                           *)
(***************************************************************************)
LEMMA GoroutineContext ==
  ASSUME Inv, NEW i \in Idx, pc[i] \in Running
  PROVE  main = "spawning" /\ i <= n /\ endedBar[i] = "no" /\ phaseBar = "handling"
<1>1. main \notin {"serving", "done"}
  BY Barrier, Zenon DEF WaitIsABarrier, Running
<1>2. pc[i] # "unborn" /\ i < next
  BY BatchAssumption DEF Running, Inv, ControlInv, TypeOK, Idx
<1>3. main = "spawning" /\ i <= n
  BY <1>1, <1>2, BatchAssumption, SMTT(60) DEF Inv, ControlInv, TypeOK, Idx
<1>4. QED
  BY <1>3 DEF endedBar, phaseBar, Running

(***************************************************************************)
(* The answer of the serving goroutine is one the service permits.         *)
(***************************************************************************)
LEMMA ServeImplementsRespond == Inv /\ Serve => Service!Respond
<1> SUFFICES ASSUME Inv, Serve PROVE Service!Respond
  OBVIOUS
<1>0. main = "serving" /\ main' = "done" /\ UNCHANGED <<size, n, pc, frw>>
  BY DEF Serve, goVars
<1>1. phaseBar = "handling" /\ phaseBar' = "done" /\ endedBar' = endedBar
  BY <1>0, ZenonT(60) DEF phaseBar, endedBar
<1>2. \A i \in 1 .. n : i \in Idx /\ pc[i] \in {"finished", "panicked"}
  BY <1>0, Barrier, CountedHits, BatchAssumption DEF WaitIsABarrier, Idx, Inv, TypeOK
<1>3. \A i \in 1 .. n : endedBar[i] # "no" /\ (endedBar[i] = "returned" <=> pc[i] = "finished")
  BY <1>2 DEF endedBar
<1>4. Service!Survivors = {i \in 1 .. n : pc[i] = "finished"}
  BY <1>3 DEF Service!Survivors
<1>5. Service!Hits = HitSet
  BY <1>0, <1>4, CountedHits DEF Service!Hits
<1>6. cacheHitValue(n, cacheHits) = Service!CacheStatus
  BY <1>0, <1>5, CountedHits, BatchAssumption, SMTT(60) DEF cacheHitValue, Service!CacheStatus,
     Inv, TypeOK
<1>7. header \in IF Service!Survivors = {} THEN {0} ELSE Service!Survivors
  <2>1. \A i \in Idx : pc[i] = "finished" => i \in 1 .. n
    BY <1>0, Barrier, BatchAssumption, SMTT(60) DEF WaitIsABarrier, Idx, Inv, TypeOK
  <2>2. \A i \in Idx : pc[i] \in HasHeader <=> i \in Service!Survivors
    BY <1>0, <1>2, <1>4, <2>1, Barrier, ZenonT(60) DEF WaitIsABarrier, HasHeader, AppliedHeaders
  <2>3. header # 0 => header \in Idx
    BY BatchAssumption, SMTT(60) DEF Inv, TypeOK, Idx
  <2>4. QED
    BY <1>2, <1>4, <2>2, <2>3, Zenon DEF Inv, DataInv
<1>8. ASSUME NEW k, NEW s, NEW b PROVE Reply(k, s, b) = Service!Answer(k, s, header, b)
  BY <1>6, ZenonT(60) DEF Reply, Service!Answer
<1>9. /\ status # StatusOK => status \in Service!Errors
      /\ status = StatusOK => Service!Errors = {}
  <2>1. \A i \in Idx : i \notin 1 .. n => frw[i].status = StatusOK
    BY <1>0, NoStatusOutsideBatch
  <2>2. QED
    BY <1>2, <2>1 DEF Inv, DataInv, Service!Errors, StatusOK
<1>10. answer' \in Service!Permitted(header)
  <2>1. CASE ServeError
    BY <1>8, <1>9, <2>1, Zenon DEF ServeError, Service!Permitted
  <2>2. CASE ServePanic
    <3>1. Service!Survivors # 1 .. n
      BY <1>0, <1>4, <2>2, ResponsesAfterWait, ZenonT(60) DEF ServePanic
    <3>2. QED
      BY <1>9, <2>2, <3>1, Zenon DEF ServePanic, Service!Permitted, Bare, Service!Bare
  <2>3. CASE ServeUnmarshalable
    <3>1. Service!Survivors = 1 .. n
      BY <1>0, <1>4, <2>3, ResponsesAfterWait, ZenonT(60) DEF ServeUnmarshalable
    <3>2. \E i \in 1 .. n : frw[i].kind = "invalid"
      <4>1. PICK i \in 1 .. n : responses[i].kind = "invalid" /\ responses[i] # Nil
        BY <2>3 DEF ServeUnmarshalable
      <4>2. responses[i] = [of |-> i, kind |-> frw[i].kind]
        BY <1>0, <4>1, ResponsesAfterWait
      <4>3. responses[i].kind = frw[i].kind
        BY SMTT(60), <4>2
      <4>4. QED
        BY <4>1, <4>3
    <3>3. QED
      BY <1>8, <1>9, <2>3, <3>1, <3>2 DEF ServeUnmarshalable, Service!Permitted, StatusOK
  <2>4. CASE ServeArray
    <3>1. Service!Survivors = 1 .. n
      BY <1>0, <1>4, <2>4, ResponsesAfterWait, ZenonT(60) DEF ServeArray
    <3>2. \A i \in 1 .. n : responses[i] = [of |-> i, kind |-> frw[i].kind] /\ frw[i].kind # "invalid"
      BY <1>0, <2>4, ResponsesAfterWait DEF ServeArray
    <3>3. [i \in 1 .. n |-> responses[i]] = [i \in 1 .. n |-> [of |-> i, kind |-> frw[i].kind]]
      BY Zenon, <3>2
    <3>4. QED
      BY <1>8, <1>9, <2>4, <3>1, <3>2, <3>3, ZenonT(60) DEF ServeArray, Service!Permitted, StatusOK
  <2>5. QED
    BY <2>1, <2>2, <2>3, <2>4, Zenon DEF Serve
<1>11. QED
  BY <1>0, <1>1, <1>3, <1>7, <1>10 DEF Service!Respond

(***************************************************************************)
(* Every step of the batch processor is a step of the service or leaves    *)
(* the service's variables alone.                                          *)
(***************************************************************************)
LEMMA StepImplementsService == Inv /\ [Next]_vars => [Service!Next]_(Service!vars)
<1> SUFFICES ASSUME Inv, [Next]_vars PROVE Service!Next \/ UNCHANGED Service!vars
  OBVIOUS
<1> USE DEF Service!vars
<1>1. CASE RejectTooLarge
  <2>1. Service!Reject
    BY <1>1 DEF RejectTooLarge, Service!Reject, phaseBar, endedBar, goVars, Bare, Service!Bare,
       StatusRequestEntityTooLarge
  <2>2. QED
    BY <2>1, Zenon DEF Service!Next
<1>2. CASE NewBatchProcessor
  <2>1. Service!Accept
    BY <1>2 DEF NewBatchProcessor, Service!Accept, phaseBar, endedBar, goVars
  <2>2. QED
    BY <2>1 DEF Service!Next
<1>3. CASE Spawn
  <2>1. next \in Idx /\ pc[next] = "unborn"
    BY <1>3, BatchAssumption DEF Spawn, Inv, TypeOK, ControlInv, Idx
  <2>2. endedBar' = endedBar /\ phaseBar' = phaseBar
    BY <1>3, <2>1 DEF Spawn, endedBar, phaseBar, Inv, TypeOK
  <2>3. QED
    BY <1>3, <2>2, ZenonT(60) DEF Spawn
<1>4. CASE Wait
  BY <1>4 DEF Wait, goVars, endedBar, phaseBar
<1>5. CASE Serve
  BY <1>5, ServeImplementsRespond DEF Service!Next
<1>6. ASSUME NEW i \in Idx, HandlerAnswers(i) PROVE Service!Next
  <2>1. endedBar' = endedBar /\ phaseBar' = phaseBar
    BY <1>6, Zenon DEF HandlerAnswers, endedBar, phaseBar, Inv, TypeOK
  <2>2. Service!Write(i)
    BY ZenonT(60), <1>6, <2>1, GoroutineContext
    DEF HandlerAnswers, Service!Write, Running, Written, Service!Outcomes, Statuses, StatusOK,
       BodyKinds
  <2>3. QED
    BY <2>2, Zenon DEF Service!Next, Service!Idx, Idx
<1>7. ASSUME NEW i \in Idx, HandlerPanics(i) \/ Done(i) PROVE Service!Next
  <2>1. pc[i] \in Running /\ phaseBar' = phaseBar /\ UNCHANGED <<size, n, frw, answer>>
    BY <1>7 DEF HandlerPanics, Done, Running, phaseBar
  <2>2. \E e \in {"returned", "panicked"} : endedBar' = [endedBar EXCEPT ![i] = e]
    BY <1>7, ZenonT(60) DEF HandlerPanics, Done, endedBar, Inv, TypeOK
  <2>3. Service!End(i)
    BY <2>1, <2>2, GoroutineContext, ZenonT(60) DEF Service!End
  <2>4. QED
    BY <2>3 DEF Service!Next, Service!Idx, Idx
<1>8. ASSUME NEW i \in Idx, setResponse(i) \/ applyHeadersLock(i) \/ applyHeadersUnlock(i)
      PROVE  UNCHANGED Service!vars
  <2>1. endedBar' = endedBar /\ phaseBar' = phaseBar
    BY <1>8, Zenon DEF setResponse, applyHeadersLock, applyHeadersUnlock, endedBar, phaseBar, Inv,
       TypeOK
  <2>2. QED
    BY <1>8, <2>1 DEF setResponse, applyHeadersLock, applyHeadersUnlock
<1>9. CASE UNCHANGED vars
  BY <1>9 DEF vars, goVars, endedBar, phaseBar
<1>10. QED
  BY SMTT(60), <1>1, <1>2, <1>3, <1>4, <1>5, <1>6, <1>7, <1>8, <1>9
  DEF Next, RequestAndServe, Goroutine, Terminated

(***************************************************************************)
(* The batch processor implements the abstract batch service.              *)
(***************************************************************************)
THEOREM Refinement == Spec => ImplementsBatchService
<1>1. Init => Service!Init
  BY DEF Init, Service!Init, phaseBar, endedBar, Idx, Service!Idx, Unwritten, Service!NoOutcome,
     NoAnswer, Bare, Service!Bare, StatusOK
<1>2. QED
  BY <1>1, StepImplementsService, InvariantHolds, PTL DEF Spec, Service!Spec, ImplementsBatchService
=============================================================================
