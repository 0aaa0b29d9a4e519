----------------------------- MODULE Recursion -----------------------------
(***************************************************************************)
(* Induction over the naturals, stated with sets in the place of           *)
(* predicates, and the existence of functions that are defined             *)
(* recursively on an interval.                                             *)
(***************************************************************************)
EXTENDS Naturals, FiniteSetTheorems, WellFoundedInduction, TLAPS

\* Strict inclusion of the intervals 0..n is well founded, so < is.
LEMMA Least ==
  ASSUME NEW T, T \subseteq Nat, T # {}
  PROVE  \E x \in T : \A y \in T : x <= y
  <1> DEFINE Intervals == {0..n : n \in T}
             Below == StrictSubsetOrdering(Nat)
             Finite == FiniteSubsetsOf(Nat)
  <1>1. IsWellFoundedOn(Below, Finite)
    BY FS_StrictSubsetOrderingWellFounded
  <1>2. Intervals \subseteq Finite /\ Intervals # {}
    <2>1. \A n \in Nat : IsFiniteSet(0..n) /\ 0..n \subseteq Nat
      BY FS_Interval
    <2> QED BY <2>1 DEF FiniteSubsetsOf
  <1>3. \E s \in Intervals : \A t \in Intervals : ~(<<t, s>> \in Below)
    <2> HIDE DEF Below, Finite, Intervals
    <2> QED BY <1>1, <1>2, WFMin, Zenon
  <1>4. PICK n \in T : \A m \in T : ~(<<0..m, 0..n>> \in Below)
    BY <1>3
  <1>5. ASSUME NEW m \in T, m < n PROVE FALSE
    <2>1. 0..m \subseteq 0..n /\ n \notin 0..m /\ n \in 0..n
      BY <1>5
    <2>2. 0..m \in SUBSET Nat /\ 0..n \in SUBSET Nat
      BY <1>5
    <2>3. <<0..m, 0..n>> \in Below
      BY <2>1, <2>2 DEF StrictSubsetOrdering
    <2> QED BY <2>3, <1>4
  <1> QED BY <1>5

\* From 0 up to n.
LEMMA Upwards ==
  ASSUME NEW n \in Nat, NEW T, 0 \in T, \A i \in 1..n : i - 1 \in T => i \in T
  PROVE  \A i \in 0..n : i \in T
  <1> SUFFICES ASSUME NEW i \in 0..n, i \notin T PROVE FALSE
    OBVIOUS
  <1> DEFINE Out == {j \in 0..n : j \notin T}
  <1>1. PICK x \in Out : \A y \in Out : x <= y
    <2>1. Out \subseteq Nat /\ Out # {}
      OBVIOUS
    <2> QED BY ONLY <2>1, Least
  <1>2. x \in 1..n /\ x - 1 \in 0..n /\ ~(x <= x - 1)
    OBVIOUS
  <1> QED BY <1>1, <1>2

\* From n + 1 down to 1, where each is reached from those above it.
LEMMA Downwards ==
  ASSUME NEW n \in Nat, NEW T, n + 1 \in T,
         \A i \in 1..n : (\A j \in (i + 1)..(n + 1) : j \in T) => i \in T
  PROVE  \A i \in 1..(n + 1) : i \in T
  <1> SUFFICES ASSUME NEW i \in 1..(n + 1), i \notin T PROVE FALSE
    OBVIOUS
  <1> DEFINE Out == {j \in 0..n : n + 1 - j \notin T}
  <1>1. PICK x \in Out : \A y \in Out : x <= y
    <2>1. n + 1 - i \in Out
      OBVIOUS
    <2>2. Out \subseteq Nat
      OBVIOUS
    <2> HIDE DEF Out
    <2> QED BY <2>1, <2>2, Least
  <1>2. n + 1 - x \in 1..n
    BY <1>1
  <1>3. ASSUME NEW j \in (n + 1 - x + 1)..(n + 1) PROVE j \in T
    <2>1. n + 1 - j \in 0..n /\ ~(x <= n + 1 - j) /\ n + 1 - (n + 1 - j) = j
      BY <1>1, <1>2, <1>3
    <2> QED BY <1>1, <2>1
  <1> QED BY <1>1, <1>2, <1>3

\* A function given by its value at 0 and each next one from the last.
Iterated(n, V, base, op, f) ==
    /\ f \in [0..n -> V]
    /\ f[0] = base /\ \A i \in 1..n : f[i] = op[<<f[i - 1], i>>]

LEMMA Iterates ==
  ASSUME NEW n \in Nat, NEW V, NEW base \in V, NEW op \in [V \X (1..n) -> V]
  PROVE  \E f : Iterated(n, V, base, op, f)
  <1> DEFINE Good(f, m) == f[0] = base /\ \A i \in 1..m : f[i] = op[<<f[i - 1], i>>]
             T == {m \in 0..n : \E f \in [0..m -> V] : Good(f, m)}
  <1>1. 0 \in T
    <2> DEFINE f == [i \in 0..0 |-> base]
    <2>1. f \in [0..0 -> V] /\ Good(f, 0)
      OBVIOUS
    <2> HIDE DEF f
    <2>2. \E h \in [0..0 -> V] : Good(h, 0)
      BY <2>1, Zenon
    <2> QED BY <2>2
  <1>2. ASSUME NEW m \in 1..n, m - 1 \in T PROVE m \in T
    <2>1. PICK g \in [0..(m - 1) -> V] : Good(g, m - 1)
      BY <1>2
    <2> DEFINE f == [i \in 0..m |-> IF i = m THEN op[<<g[m - 1], m>>] ELSE g[i]]
    <2>2. \A i \in 0..(m - 1) : f[i] = g[i]
      OBVIOUS
    <2>3. f[m] = op[<<g[m - 1], m>>] /\ g[m - 1] \in V
      OBVIOUS
    <2>4. f \in [0..m -> V]
      BY <2>3
    <2> HIDE DEF f
    <2>5. \A i \in 1..m : f[i] = op[<<f[i - 1], i>>]
      <3> SUFFICES ASSUME NEW i \in 1..m PROVE f[i] = op[<<f[i - 1], i>>]
        OBVIOUS
      <3>1. CASE i = m
        BY <2>2, <2>3, <3>1
      <3>2. CASE i # m
        BY <2>1, <2>2, <3>2
      <3> QED BY <3>1, <3>2
    <2>6. f[0] = base
      BY <2>1, <2>2
    <2> QED BY <2>4, <2>5, <2>6
  <1>3. n \in T
    <2> HIDE DEF T
    <2>1. \A i \in 0..n : i \in T
      BY <1>1, <1>2, Upwards
    <2> QED BY <2>1
  <1>4. PICK f \in [0..n -> V] : Good(f, n)
    BY <1>3
  <1>5. Iterated(n, V, base, op, f)
    BY <1>4 DEF Iterated
  <1> QED BY <1>5

\* A function given by its value at n + 1 and each other one from those above:
\* op gives the value at i and depends on the values above i alone.
LooksAhead(n, V, op) ==
    /\ op \in [(1..n) \X [1..(n + 1) -> V] -> V]
    /\ \A i \in 1..n : \A f, g \in [1..(n + 1) -> V] :
          (\A j \in (i + 1)..(n + 1) : f[j] = g[j]) => op[<<i, f>>] = op[<<i, g>>]

GivenBy(n, V, base, op, f) ==
    /\ f \in [1..(n + 1) -> V]
    /\ f[n + 1] = base /\ \A i \in 1..n : f[i] = op[<<i, f>>]

LEMMA Backwards ==
  ASSUME NEW n \in Nat, NEW V, NEW base \in V, NEW op, LooksAhead(n, V, op)
  PROVE  \E f : GivenBy(n, V, base, op, f)
  <1> DEFINE Good(f, m) == f[n + 1] = base /\ \A i \in 1..n : m <= i => f[i] = op[<<i, f>>]
             T == {m \in 1..(n + 1) : \E f \in [1..(n + 1) -> V] : Good(f, m)}
  <1>0. op \in [(1..n) \X [1..(n + 1) -> V] -> V]
    BY DEF LooksAhead
  <1>1. n + 1 \in T
    <2> DEFINE f == [i \in 1..(n + 1) |-> base]
    <2>1. f \in [1..(n + 1) -> V] /\ Good(f, n + 1)
      OBVIOUS
    <2> QED BY <2>1
  <1>2. ASSUME NEW m \in 1..n, m + 1 \in T PROVE m \in T
    <2>1. PICK g \in [1..(n + 1) -> V] : Good(g, m + 1)
      BY <1>2
    <2> DEFINE f == [g EXCEPT ![m] = op[<<m, g>>]]
    <2>2. f \in [1..(n + 1) -> V] /\ f[m] = op[<<m, g>>] /\ \A i \in 1..(n + 1) : i # m => f[i] = g[i]
      BY <1>0
    <2> HIDE DEF f
    <2>3. \A i \in 1..n : m <= i => op[<<i, f>>] = op[<<i, g>>]
      <3> SUFFICES ASSUME NEW i \in 1..n, m <= i PROVE op[<<i, f>>] = op[<<i, g>>]
        OBVIOUS
      <3>1. \A j \in (i + 1)..(n + 1) : f[j] = g[j]
        BY <2>2
      <3> QED BY <2>2, <3>1 DEF LooksAhead
    <2>4. \A i \in 1..n : m <= i => f[i] = op[<<i, f>>]
      <3> SUFFICES ASSUME NEW i \in 1..n, m <= i PROVE f[i] = op[<<i, f>>]
        OBVIOUS
      <3>1. CASE i = m
        BY <2>2, <2>3, <3>1
      <3>2. CASE i # m
        <4>1. m + 1 <= i /\ f[i] = g[i]
          BY <2>2, <3>2
        <4>2. g[i] = op[<<i, g>>]
          BY <2>1, <4>1
        <4> QED BY <2>3, <4>1, <4>2
      <3> QED BY <3>1, <3>2
    <2>5. f[n + 1] = base
      BY <2>1, <2>2
    <2>6. \E h \in [1..(n + 1) -> V] : Good(h, m)
      BY <2>2, <2>4, <2>5, Zenon
    <2>7. m \in 1..(n + 1)
      OBVIOUS
    <2> QED BY <2>6, <2>7, Zenon
  <1>3. 1 \in T
    <2> HIDE DEF T
    <2>1. \A i \in 1..n : (\A j \in (i + 1)..(n + 1) : j \in T) => i \in T
      BY <1>2
    <2> QED BY <1>1, <2>1, Downwards
  <1>4. PICK f \in [1..(n + 1) -> V] : Good(f, 1)
    BY <1>3
  <1>5. f[n + 1] = base /\ \A i \in 1..n : f[i] = op[<<i, f>>]
    <2>1. \A i \in 1..n : 1 <= i
      OBVIOUS
    <2> QED BY <1>4, <2>1, Zenon
  <1>6. GivenBy(n, V, base, op, f)
    BY <1>5 DEF GivenBy
  <1> QED BY <1>6
=============================================================================
