------------------------------- MODULE Gateway ------------------------------
(***************************************************************************)
(* What the service promises its clients, without a cache, a routing or a  *)
(* metric in sight: every call is answered with something one of the       *)
(* backends would say at that moment, or it fails, or its connection is    *)
(* dropped.                                                                *)
(***************************************************************************)
EXTENDS Naturals

CONSTANTS
  Clients, Calls, Backends,
  NoCall,      \* the call of a client that has not asked yet
  MaxHeight,   \* bound on the chain
  Says(_, _),  \* what the chain says about a call at a height
  Failures,    \* results that are no answer
  Nothing      \* the result before there is one

VARIABLES
  view,   \* the height of the chain each backend knows
  state,  \* what has become of the call of each client
  asked,  \* its call
  reply   \* the result in its answer

vars == <<view, state, asked, reply>>

Init ==
  /\ view = [u \in Backends |-> 1]
  /\ state = [p \in Clients |-> "idle"]
  /\ asked = [p \in Clients |-> NoCall]
  /\ reply = [p \in Clients |-> Nothing]

Advance(u) ==
  /\ view[u] < MaxHeight
  /\ view' = [view EXCEPT ![u] = @ + 1]
  /\ UNCHANGED <<state, asked, reply>>

Ask(p) ==
  /\ state[p] # "waiting"
  /\ \E c \in Calls : asked' = [asked EXCEPT ![p] = c]
  /\ state' = [state EXCEPT ![p] = "waiting"]
  /\ reply' = [reply EXCEPT ![p] = Nothing]
  /\ UNCHANGED view

Answer(p) ==
  /\ state[p] = "waiting"
  /\ \E r \in Failures \cup UNION {Says(asked[p], view[u]) : u \in Backends} :
       reply' = [reply EXCEPT ![p] = r]
  /\ state' = [state EXCEPT ![p] = "answered"]
  /\ UNCHANGED <<view, asked>>

(***************************************************************************)
(* A connection may break even after the answer has been written.          *)
(***************************************************************************)
Drop(p) ==
  /\ state[p] \in {"waiting", "answered"}
  /\ state' = [state EXCEPT ![p] = "dropped"]
  /\ UNCHANGED <<view, asked, reply>>

Next ==
  \/ \E u \in Backends : Advance(u)
  \/ \E p \in Clients : Ask(p) \/ Answer(p) \/ Drop(p)

Safety == Init /\ [][Next]_vars

(***************************************************************************)
(* No call waits forever.                                                  *)
(***************************************************************************)
Spec ==
  /\ Safety
  /\ \A p \in Clients : WF_vars(state[p] = "waiting" /\ (Answer(p) \/ Drop(p)))
=============================================================================
