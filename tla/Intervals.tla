------------------------------ MODULE Intervals -----------------------------
(***************************************************************************)
(* config/intervalmap.go: the interval of end heights that holds a number. *)
(* A map of intervals is given by its end heights, the keys of             *)
(* UrlByEndHeight.                                                         *)
(***************************************************************************)
EXTENDS Integers, Sequences, FiniteSets

(***************************************************************************)
(* What sort.Slice can return for the keys of a map, which are distinct.   *)
(***************************************************************************)
Ascending(s) == \A a, b \in DOMAIN s : a < b => s[a] < s[b]
Sorted(S) ==
  {s \in [1 .. Cardinality(S) -> S] : Ascending(s) /\ \A e \in S : \E a \in DOMAIN s : s[a] = e}

(***************************************************************************)
(* The endpoints of the map, in order.                                     *)
(***************************************************************************)
NewIntervalURLMap(ends) == CHOOSE s \in Sorted(ends) : TRUE

(***************************************************************************)
(* sort.Search by its contract: the least index below n, counted from 0,   *)
(* at which the predicate holds, n if there is none.  hits are the indices *)
(* at which it holds.                                                      *)
(***************************************************************************)
Search(n, hits) == CHOOSE i \in hits \cup {n} : \A k \in hits : i <= k

NoInterval == [found |-> FALSE, end |-> 0]

\* Mutant of Lookup: the end of an interval is not part of it.
LookupExclusive(ends, num) ==
  LET endpoints == NewIntervalURLMap(ends)
      n == Len(endpoints)
      i == Search(n, {k \in 0 .. n - 1 : endpoints[k + 1] > num})
  IN IF i < n /\ num <= endpoints[i + 1]
     THEN [found |-> TRUE, end |-> endpoints[i + 1]]
     ELSE NoInterval

Lookup(ends, num) ==
  LET endpoints == NewIntervalURLMap(ends)
      n == Len(endpoints)
      i == Search(n, {k \in 0 .. n - 1 : endpoints[k + 1] >= num})
  IN IF i < n /\ num <= endpoints[i + 1]
     THEN [found |-> TRUE, end |-> endpoints[i + 1]]
     ELSE NoInterval
=============================================================================
