--------------------------- MODULE IntervalsProofs ---------------------------
(***************************************************************************)
(* Proofs about Intervals: what Lookup returns for the end heights of a    *)
(* list in ascending order, of any length.                                 *)
(***************************************************************************)
EXTENDS Intervals, TLAPS, Extrema, FiniteSetTheorems

(***************************************************************************)
(* The keys of a map can be put in order.                                  *)
(***************************************************************************)
Sortable(S) == Cardinality(S) \in Nat /\ NewIntervalURLMap(S) \in Sorted(S)

(***************************************************************************)
(* The order of a list follows from that of its neighbours: there is no    *)
(* first position that is not above all of those before it.                *)
(***************************************************************************)
LEMMA NeighboursAscend ==
  ASSUME NEW n \in Nat, NEW s \in [1 .. n -> Int],
         \A b \in 1 .. n : b > 1 => s[b - 1] < s[b]
  PROVE  Ascending(s)
<1> DEFINE Bad == {b \in 1 .. n : \E a \in 1 .. n : a < b /\ ~(s[a] < s[b])}
<1>1. CASE Bad = {}
  <2>1. ASSUME NEW a \in 1 .. n, NEW b \in 1 .. n, a < b PROVE s[a] < s[b]
    BY Zenon, <1>1, <2>1
  <2> QED  BY <2>1 DEF Ascending
<1>2. CASE Bad # {}
  <2>1. Bad \in SUBSET Nat
    OBVIOUS
  <2>2. PICK b \in Bad : \A c \in Bad : b <= c
    <3> HIDE DEF Bad
    <3> QED  BY <1>2, <2>1, LeastExists, Zenon
  <2>3. PICK a \in 1 .. n : a < b /\ ~(s[a] < s[b])
    BY <2>2
  <2>4. b \in 1 .. n /\ b - 1 \in 1 .. n /\ s[b - 1] < s[b]
    BY <2>2, <2>3
  <2>5. b - 1 \notin Bad
    <3> HIDE DEF Bad
    <3> QED  BY <2>1, <2>2
  <2>6. a < b - 1 => s[a] < s[b - 1]
    BY <2>3, <2>4, <2>5
  <2>7. s[a] \in Int /\ s[b] \in Int /\ s[b - 1] \in Int
    BY <2>3, <2>4
  <2>8. a = b - 1 \/ a < b - 1
    BY <2>3, <2>4
  <2>9. CASE a = b - 1
    BY <2>3, <2>4, <2>9, Zenon
  <2>10. CASE a < b - 1
    <3> DEFINE x == s[a]  y == s[b - 1]  z == s[b]
    <3>1. x < y /\ y < z /\ ~(x < z)
      BY <2>3, <2>4, <2>6, <2>10, Zenon
    <3>2. x \in Int /\ y \in Int /\ z \in Int
      BY <2>7, Zenon
    <3> HIDE DEF x, y, z
    <3> QED  BY <3>1, <3>2
  <2> QED  BY <2>8, <2>9, <2>10, Zenon
<1> QED  BY <1>1, <1>2

(***************************************************************************)
(* A list in ascending order is the sorted form of the set of its          *)
(* elements (intervalmap.go:24).                                           *)
(***************************************************************************)
LEMMA ListIsSorted ==
  ASSUME NEW n \in Nat, NEW s \in [1 .. n -> Int], Ascending(s),
         NEW S, S = {s[k] : k \in 1 .. n}
  PROVE  Sortable(S)
<1>1. s \in [1 .. n -> S] /\ \A e \in S : \E a \in 1 .. n : s[a] = e
  OBVIOUS
<1>2. \A a, b \in 1 .. n : s[a] = s[b] => a = b
  <2> SUFFICES ASSUME NEW a \in 1 .. n, NEW b \in 1 .. n, s[a] = s[b] PROVE a = b
    OBVIOUS
  <2>1. s[a] \in Int /\ (a < b => s[a] < s[b]) /\ (b < a => s[b] < s[a])
    BY DEF Ascending
  <2> QED  BY <2>1
<1>3. s \in Bijection(1 .. n, S)
  <2>1. s \in Injection(1 .. n, S)
    BY <1>1, <1>2, Zenon DEF Injection, IsInjective
  <2>2. s \in Surjection(1 .. n, S)
    BY <1>1 DEF Surjection
  <2> QED  BY <2>1, <2>2 DEF Bijection
<1>4. Cardinality(S) = n
  <2>1. ExistsBijection(1 .. n, S)
    BY <1>3, Zenon DEF ExistsBijection
  <2> QED  BY <2>1, FS_CountingElements, Zenon
<1>5. s \in Sorted(S)
  BY <1>1, <1>4, Zenon DEF Sorted
<1> QED  BY <1>4, <1>5, Zenon DEF Sortable, NewIntervalURLMap

(***************************************************************************)
(* sort.Search returns the first index at which the predicate holds.       *)
(***************************************************************************)
LEMMA SearchFindsFirst ==
  ASSUME NEW n \in Nat, NEW hits \in SUBSET (0 .. n - 1)
  PROVE  /\ Search(n, hits) \in hits \cup {n}
         /\ \A k \in hits : Search(n, hits) <= k
<1>1. \E i \in hits \cup {n} : \A k \in hits : i <= k
  <2>1. CASE hits = {}
    BY <2>1
  <2>2. CASE hits # {}
    <3>1. hits \in SUBSET Nat
      OBVIOUS
    <3> QED  BY <2>2, <3>1, LeastExists, Zenon
  <2> QED  BY <2>1, <2>2
<1> QED  BY <1>1, Zenon DEF Search

(***************************************************************************)
(* Lookup returns the first end height that is not below num, and nothing  *)
(* only if all of them are (intervalmap.go:33).                            *)
(***************************************************************************)
LEMMA LookupIsLeast ==
  ASSUME NEW S \in SUBSET Nat, Sortable(S), NEW num \in Nat
  PROVE  /\ Lookup(S, num).found \in BOOLEAN
         /\ ~Lookup(S, num).found =>
              Lookup(S, num) = NoInterval /\ \A e \in S : e < num
         /\ Lookup(S, num).found =>
              /\ Lookup(S, num).end \in S
              /\ num <= Lookup(S, num).end
              /\ \A d \in S : d < Lookup(S, num).end => d < num
<1> DEFINE s == NewIntervalURLMap(S)
           n == Len(s)
           hits == {k \in 0 .. n - 1 : s[k + 1] >= num}
           i == Search(n, hits)
<1>1. /\ n \in Nat /\ s \in [1 .. n -> S] /\ Ascending(s)
      /\ \A e \in S : \E a \in 1 .. n : s[a] = e
  <2>1. s \in Sorted(S) /\ Cardinality(S) \in Nat
    BY Zenon DEF Sortable
  <2> HIDE DEF s
  <2>2. s \in [1 .. Cardinality(S) -> S] /\ Ascending(s)
        /\ \A e \in S : \E a \in DOMAIN s : s[a] = e
    BY <2>1, Zenon DEF Sorted
  <2>3. Len(s) = Cardinality(S)
    BY <2>1, <2>2
  <2> QED  BY <2>1, <2>2, <2>3
<1>2. Lookup(S, num) =
        IF i < n /\ num <= s[i + 1] THEN [found |-> TRUE, end |-> s[i + 1]] ELSE NoInterval
  BY DEF Lookup
<1> HIDE DEF s, n
<1>3. i \in hits \cup {n} /\ \A k \in hits : i <= k
  <2>1. hits \in SUBSET (0 .. n - 1)
    OBVIOUS
  <2> HIDE DEF hits
  <2> QED  BY <1>1, <2>1, SearchFindsFirst, Zenon
<1> HIDE DEF i
<1>4. CASE i \in hits
  <2>1. i \in 0 .. n - 1 /\ i + 1 \in 1 .. n /\ s[i + 1] >= num
    BY <1>1, <1>4
  <2>2. s[i + 1] \in S /\ s[i + 1] \in Nat
    BY Zenon, <1>1, <2>1
  <2>3. Lookup(S, num) = [found |-> TRUE, end |-> s[i + 1]]
    BY <1>1, <1>2, <2>1, <2>2
  <2>4. ASSUME NEW d \in S, d < s[i + 1] PROVE d < num
    <3>1. PICK a \in 1 .. n : s[a] = d
      BY <1>1
    <3>2. a < i + 1
      <4>1. ~(i + 1 < a) /\ a # i + 1
        <5>1. i + 1 < a => s[i + 1] < s[a]
          BY <1>1, <2>1 DEF Ascending
        <5> QED  BY <2>2, <2>4, <3>1, <5>1
      <4> QED  BY <2>1, <4>1
    <3>3. a - 1 \in 0 .. n - 1 /\ a - 1 \notin hits
      <4>1. a - 1 \in 0 .. n - 1 /\ ~(i <= a - 1)
        BY <1>1, <2>1, <3>2
      <4> QED  BY <1>3, <4>1, Zenon
    <3>4. ~(d >= num)
      <4>1. (a - 1) + 1 = a
        BY <3>2
      <4> QED  BY <3>1, <3>3, <4>1, Zenon
    <3>5. d \in Nat
      OBVIOUS
    <3> QED  BY <3>4, <3>5
  <2> QED  BY <2>1, <2>2, <2>3, <2>4
<1>5. CASE i \notin hits
  <2>1. i = n
    BY <1>3, <1>5
  <2>2. Lookup(S, num) = NoInterval
    BY <1>1, <1>2, <2>1
  <2>3. hits = {}
    BY <1>1, <1>3, <2>1
  <2>4. ASSUME NEW e \in S PROVE e < num
    <3>1. PICK a \in 1 .. n : s[a] = e
      BY <1>1
    <3>2. a - 1 \in 0 .. n - 1 /\ s[(a - 1) + 1] = e
      BY <1>1, <3>1
    <3> QED  BY <2>3, <3>2
  <2> QED  BY <2>2, <2>4 DEF NoInterval
<1> QED  BY <1>4, <1>5
=============================================================================
