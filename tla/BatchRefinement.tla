-------------------------- MODULE BatchRefinement ---------------------------
(***************************************************************************)
(* The goroutines of BatchProcessor implement BatchService: a sub-request  *)
(* has ended when its goroutine has called wg.Done().                      *)
(***************************************************************************)
EXTENDS BatchProcessor

phaseBar == IF main \in {"spawning", "serving"} THEN "handling" ELSE main

endedBar ==
  [i \in Idx |-> IF pc[i] = "finished" THEN "returned"
                 ELSE IF pc[i] = "panicked" THEN "panicked"
                 ELSE "no"]

Service == INSTANCE BatchService WITH phase <- phaseBar, ended <- endedBar, wrote <- frw

(***************************************************************************)
(* Every behaviour of the batch processor is one of the abstract service:  *)
(* the WaitGroup, the mutex, the error status, the hit counter and the     *)
(* response slots add no answer the service does not permit.               *)
(***************************************************************************)
ImplementsBatchService == Service!Spec
=============================================================================
