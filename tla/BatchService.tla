---------------------------- MODULE BatchService ----------------------------
(***************************************************************************)
(* What the batch processing middleware promises the client of a batch,    *)
(* without goroutines, mutex or WaitGroup: every sub-request is handled    *)
(* independently, and one answer, given when all of them have ended, is    *)
(* determined by how they ended.                                           *)
(***************************************************************************)
EXTENDS Integers, Sequences, FiniteSets

CONSTANTS
  BatchSizes, MaximumBatchSize, ErrorStatuses

VARIABLES
  size,    \* length of the batch
  n,       \* number of sub-requests
  phase,   \* "received", "handling" or "done"
  ended,   \* how each sub-request ended: "no", "returned" or "panicked"
  wrote,   \* the status, the cache status and the body each one was given
  answer   \* the answer to the batch

vars == <<size, n, phase, ended, wrote, answer>>

Idx == 1 .. MaximumBatchSize
Outcomes == [status : {200} \cup ErrorStatuses, hit : BOOLEAN, kind : {"json", "empty", "invalid"}]
NoOutcome == [status |-> 200, hit |-> FALSE, kind |-> "empty"]
Bare(kind, s) == [kind |-> kind, status |-> s, cache |-> "none", from |-> 0, body |-> <<>>]

Init ==
  /\ size \in BatchSizes
  /\ n = 0
  /\ phase = "received"
  /\ ended = [i \in Idx |-> "no"]
  /\ wrote = [i \in Idx |-> NoOutcome]
  /\ answer = Bare("none", 0)

Accept ==
  /\ phase = "received"
  /\ size <= MaximumBatchSize
  /\ n' \in {0, size}
  /\ phase' = "handling"
  /\ UNCHANGED <<size, ended, wrote, answer>>

Reject ==
  /\ phase = "received"
  /\ size > MaximumBatchSize
  /\ phase' = "done"
  /\ answer' = Bare("toolarge", 413)
  /\ UNCHANGED <<size, n, ended, wrote>>

Write(i) ==
  /\ phase = "handling"
  /\ i <= n
  /\ ended[i] = "no"
  /\ \E o \in Outcomes : wrote' = [wrote EXCEPT ![i] = o]
  /\ UNCHANGED <<size, n, phase, ended, answer>>

End(i) ==
  /\ phase = "handling"
  /\ i <= n
  /\ ended[i] = "no"
  /\ \E e \in {"returned", "panicked"} : ended' = [ended EXCEPT ![i] = e]
  /\ UNCHANGED <<size, n, phase, wrote, answer>>
-----------------------------------------------------------------------------
Errors == {wrote[i].status : i \in 1 .. n} \ {200}
Survivors == {i \in 1 .. n : ended[i] = "returned"}
Hits == {i \in Survivors : wrote[i].hit}

CacheStatus ==
  CASE Hits = {} -> "MISS"
    [] Hits = 1 .. n /\ n > 0 -> "HIT"
    [] OTHER -> "PARTIAL"

Answer(kind, s, from, body) ==
  [kind |-> kind, status |-> s, cache |-> CacheStatus, from |-> from, body |-> body]

(***************************************************************************)
(* An error of any sub-request is the answer; else a panic of any of them  *)
(* leaves the batch without an answer; else the bodies are combined, in    *)
(* the order of the sub-requests, unless one of them is not JSON.  The     *)
(* headers are those of one sub-request that returned, if there is one.    *)
(***************************************************************************)
Permitted(from) ==
  IF Errors # {} THEN {Answer("error", s, from, <<>>) : s \in Errors}
  ELSE IF Survivors # 1 .. n THEN {Bare("aborted", 0)}
  ELSE IF \E i \in 1 .. n : wrote[i].kind = "invalid"
    THEN {Answer("unmarshalable", 200, from, <<>>)}
  ELSE {Answer("array", 200, from, [i \in 1 .. n |-> [of |-> i, kind |-> wrote[i].kind]])}

Respond ==
  /\ phase = "handling"
  /\ \A i \in 1 .. n : ended[i] # "no"
  /\ \E from \in IF Survivors = {} THEN {0} ELSE Survivors : answer' \in Permitted(from)
  /\ phase' = "done"
  /\ UNCHANGED <<size, n, ended, wrote>>

Next ==
  \/ Accept
  \/ Reject
  \/ \E i \in Idx : Write(i) \/ End(i)
  \/ Respond

Spec == Init /\ [][Next]_vars
=============================================================================
