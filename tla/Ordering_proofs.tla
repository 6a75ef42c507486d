--------------------------- MODULE Ordering_proofs ---------------------------
(***************************************************************************)
(* Proofs about module Ordering, for any finite set: what is sorted has    *)
(* every element once, in order.  With them, what the other proofs need of *)
(* numbers: the least of a set, induction and recursion along 0..n.        *)
(***************************************************************************)
EXTENDS Ordering, Integers, Sequences, FunctionTheorems, FiniteSetTheorems,
        NaturalsInduction, WellFoundedInduction, TLAPS

(* The least number of a set, for proofs by a minimal counterexample.      *)
LEMMA LeastNumber ==
    ASSUME NEW T \in SUBSET Nat, T # {}
    PROVE  \E n \in T : \A m \in T : n <= m
<1> DEFINE Smaller == {p \in Nat \X Nat : p[1] < p[2]}
<1>1. PICK n \in T : \A m \in T : <<m, n>> \notin Smaller
  <2>1. IsWellFoundedOn(Smaller, Nat)
    BY NatLessThanWellFounded DEF OpToRel
  <2> HIDE DEF Smaller
  <2>2. QED
    BY <2>1, WFMin, Zenon
<1>2. ASSUME NEW m \in T PROVE n <= m
  <2>1. ~(m < n)
    BY <1>1
  <2>2. QED
    BY <2>1
<1>3. QED
  BY <1>2

(* Induction along 0..n, for the set P of the numbers with a property.     *)
LEMMA Upward ==
    ASSUME NEW n \in Nat, NEW P, 0 \in P, \A k \in 1..n : k - 1 \in P => k \in P
    PROVE  \A k \in 0..n : k \in P
<1> DEFINE Bad == {k \in 0..n : k \notin P}
<1>1. SUFFICES ASSUME Bad # {} PROVE FALSE
  OBVIOUS
<1>2. PICK k \in Bad : \A m \in Bad : k <= m
  <2>1. Bad \in SUBSET Nat
    OBVIOUS
  <2> HIDE DEF Bad
  <2>2. QED
    BY <1>1, <2>1, LeastNumber
<1>3. k \in 1..n /\ k - 1 \in 0..n /\ k - 1 < k
  BY <1>2
<1>4. k - 1 \in P
  BY <1>2, <1>3
<1>5. QED
  BY <1>2, <1>3, <1>4

(* f is defined by recursion along 0..n.                                   *)
Recursive(f, n, base, next) == f = [k \in 0..n |-> IF k = 0 THEN base ELSE next[<<k, f[k - 1]>>]]

(* A function that is defined by recursion along 0..n is there: what       *)
(* follows from its value at k - 1 is given by next.                       *)
LEMMA Recursion ==
    ASSUME NEW S, NEW base \in S, NEW n \in Nat, NEW next \in [(1..n) \X S -> S]
    PROVE  \E f \in [0..n -> S] : Recursive(f, n, base, next)
<1> DEFINE Sol(f, m) == \A k \in 0..m : f[k] = IF k = 0 THEN base ELSE next[<<k, f[k - 1]>>]
           P == {m \in 0..n : \E f \in [0..m -> S] : Sol(f, m)}
<1>1. 0 \in P
  <2> DEFINE f == [k \in 0..0 |-> base]
  <2>1. f \in [0..0 -> S] /\ Sol(f, 0)
    OBVIOUS
  <2>2. 0 \in 0..n
    OBVIOUS
  <2>3. \E g \in [0..0 -> S] : Sol(g, 0)
    <3> HIDE DEF f, Sol
    <3>1. QED
      BY <2>1
  <2>4. QED
    BY <2>2, <2>3
<1>2. ASSUME NEW m \in 1..n, m - 1 \in P PROVE m \in P
  <2>1. PICK f \in [0..(m - 1) -> S] : Sol(f, m - 1)
    BY <1>2
  <2>2. m \in Nat /\ m - 1 \in 0..(m - 1) /\ m \in 0..n
    OBVIOUS
  <2>3. PICK x \in S : x = next[<<m, f[m - 1]>>]
    BY <2>2
  <2> DEFINE g == [k \in 0..m |-> IF k = m THEN x ELSE f[k]]
  <2>4. g \in [0..m -> S]
    BY <2>2
  <2>5. ASSUME NEW k \in 0..m PROVE g[k] = IF k = 0 THEN base ELSE next[<<k, g[k - 1]>>]
    <3>1. CASE k = m
      <4>1. g[m] = x /\ g[m - 1] = f[m - 1] /\ m # 0
        BY <2>2
      <4>2. QED
        BY <2>3, <3>1, <4>1
    <3>2. CASE k # m
      <4>1. k \in 0..(m - 1) /\ g[k] = f[k]
        BY <2>2, <3>2
      <4>2. k # 0 => k - 1 \in 0..m /\ k - 1 # m /\ g[k - 1] = f[k - 1]
        BY <2>2, <4>1
      <4>3. f[k] = IF k = 0 THEN base ELSE next[<<k, f[k - 1]>>]
        BY <2>1, <4>1
      <4>4. QED
        BY <4>1, <4>2, <4>3
    <3>3. QED
      BY <3>1, <3>2
  <2>6. QED
    BY <2>2, <2>4, <2>5
<1>3. n \in P
  <2> HIDE DEF P
  <2>1. \A k \in 0..n : k \in P
    BY <1>1, <1>2, Upward
  <2>2. QED
    BY <2>1
<1>4. PICK f \in [0..n -> S] : Sol(f, n)
  BY <1>3
<1>5. QED
  BY <1>4 DEF Recursive

(* before is a strict total order of S.                                    *)
Orders(before, S) ==
    /\ \A x \in S : <<x, x>> \notin before
    /\ \A x, y \in S : x # y => <<x, y>> \in before \/ <<y, x>> \in before
    /\ \A x, y, z \in S : <<x, y>> \in before /\ <<y, z>> \in before => <<x, z>> \in before

(* s lists the elements of S, each of them once, and one that comes before *)
(* another is before it in the order.                                      *)
Lists(s, S, before) ==
    /\ s \in Seq(S) /\ Len(s) = Cardinality(S)
    /\ \A x \in S : \E k \in DOMAIN s : s[k] = x
    /\ \A i, j \in DOMAIN s : i < j => <<s[i], s[j]>> \in before
    /\ \A i, j \in DOMAIN s : s[i] = s[j] => i = j

(* Whose places are compared: the elements before a later one contain      *)
(* those before an earlier one, and that one.                              *)
LEMMA PlaceGrows ==
    ASSUME NEW S, IsFiniteSet(S), NEW before, Orders(before, S),
           NEW x \in S, NEW y \in S, <<x, y>> \in before
    PROVE  Place(x, S, before) < Place(y, S, before)
<1> DEFINE Below(z) == {w \in S : <<w, z>> \in before}
<1>1. Below(x) \in SUBSET Below(y) /\ Below(x) # Below(y) /\ Below(y) \in SUBSET S
  BY DEF Orders
<1>2. IsFiniteSet(Below(y))
  BY <1>1, FS_Subset
<1>3. Cardinality(Below(x)) <= Cardinality(Below(y)) /\ Cardinality(Below(x)) # Cardinality(Below(y))
  BY <1>1, <1>2, FS_Subset
<1>4. Cardinality(Below(x)) \in Nat /\ Cardinality(Below(y)) \in Nat
  BY <1>1, <1>2, FS_Subset, FS_CardinalityType
<1>5. QED
  BY <1>3, <1>4 DEF Place

LEMMA PlaceInRange ==
    ASSUME NEW S, IsFiniteSet(S), NEW before, Orders(before, S), NEW x \in S
    PROVE  Cardinality(S) \in Nat /\ Place(x, S, before) \in 0..(Cardinality(S) - 1)
<1> DEFINE Below == {w \in S : <<w, x>> \in before}
<1>1. Below \in SUBSET S /\ Below # S
  BY DEF Orders
<1>2. /\ Cardinality(Below) <= Cardinality(S) /\ Cardinality(Below) # Cardinality(S)
      /\ Cardinality(Below) \in Nat /\ Cardinality(S) \in Nat
  BY <1>1, FS_Subset, FS_CardinalityType
<1>3. QED
  BY <1>2 DEF Place

(* Every place is somebody's, and one element's only.                      *)
LEMMA PlaceTaken ==
    ASSUME NEW S, IsFiniteSet(S), NEW before, Orders(before, S)
    PROVE  /\ \A x, y \in S : Place(x, S, before) = Place(y, S, before) => x = y
           /\ \A k \in 1..Cardinality(S) : \E x \in S : Place(x, S, before) = k - 1
<1> DEFINE n == Cardinality(S)
           f == [x \in S |-> Place(x, S, before)]
<1>1. \A x \in S : f[x] \in 0..(n - 1)
  BY PlaceInRange
<1>2. ASSUME NEW x \in S, NEW y \in S, f[x] = f[y] PROVE x = y
  <2>1. ~(f[x] < f[y]) /\ ~(f[y] < f[x])
    BY <1>1, <1>2
  <2>2. QED
    BY <2>1, PlaceGrows DEF Orders
<1>3. n \in Nat
  BY FS_CardinalityType
<1>4. IsFiniteSet(0..(n - 1)) /\ Cardinality(0..(n - 1)) = n
  <2>1. 0 \in Int /\ n - 1 \in Int
    BY <1>3
  <2>2. /\ IsFiniteSet(0..(n - 1))
        /\ Cardinality(0..(n - 1)) = IF 0 > n - 1 THEN 0 ELSE (n - 1) - 0 + 1
    BY <2>1, FS_Interval
  <2>3. QED
    BY <1>3, <2>2
<1>5. f \in Injection(S, 0..(n - 1))
  BY <1>1, <1>2 DEF Injection, IsInjective
<1>6. f \in Surjection(S, 0..(n - 1))
  BY <1>4, <1>5, FS_Injection
<1>7. ASSUME NEW k \in 1..n PROVE \E x \in S : f[x] = k - 1
  <2>1. k - 1 \in 0..(n - 1)
    BY <1>3
  <2>2. QED
    BY <1>6, <2>1 DEF Surjection
<1>8. QED
  BY <1>2, <1>7

(* InOrder lists what it sorts: sort.Sort of store.Runs and sort.Slice of  *)
(* handleAPISeries lose nothing, repeat nothing and keep the order.        *)
THEOREM Sorted ==
    ASSUME NEW S, IsFiniteSet(S), NEW before, Orders(before, S)
    PROVE  Lists(InOrder(S, before), S, before)
<1> DEFINE s == InOrder(S, before)
           n == Cardinality(S)
<1>1. n \in Nat
  BY FS_CardinalityType
<1>2. ASSUME NEW k \in 1..n PROVE s[k] \in S /\ Place(s[k], S, before) = k - 1
  BY PlaceTaken DEF InOrder
<1>3. DOMAIN s = 1..n
  BY DEF InOrder
<1>4. s \in [1..n -> S]
  BY <1>2 DEF InOrder
<1>5. s \in Seq(S) /\ Len(s) = n
  BY <1>1, <1>4, <1>3
<1>6. ASSUME NEW x \in S PROVE \E k \in DOMAIN s : s[k] = x
  <2>1. Place(x, S, before) + 1 \in 1..n /\ Place(x, S, before) = (Place(x, S, before) + 1) - 1
    BY <1>1, PlaceInRange
  <2>2. QED
    BY <1>2, <1>3, <2>1, PlaceTaken
<1>7. ASSUME NEW i \in DOMAIN s, NEW j \in DOMAIN s, i < j PROVE <<s[i], s[j]>> \in before
  <2>1. s[i] \in S /\ s[j] \in S /\ Place(s[i], S, before) < Place(s[j], S, before)
    <3>1. i - 1 < j - 1 /\ i \in Nat /\ j \in Nat
      BY <1>1, <1>3, <1>7
    <3>2. QED
      BY <1>2, <1>3, <3>1
  <2>2. ~(Place(s[j], S, before) < Place(s[i], S, before)) /\ s[i] # s[j]
    BY <2>1, PlaceInRange
  <2>3. QED
    BY <2>1, <2>2, PlaceGrows DEF Orders
<1>8. ASSUME NEW i \in DOMAIN s, NEW j \in DOMAIN s, s[i] = s[j] PROVE i = j
  BY <1>1, <1>2, <1>3, <1>8
<1> HIDE DEF s, n
<1>9. QED
  BY <1>1, <1>5, <1>6, <1>7, <1>8 DEF s, n, Lists
==============================================================================
