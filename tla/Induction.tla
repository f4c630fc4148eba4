------------------------------ MODULE Induction ------------------------------
(***************************************************************************)
(* Induction over the natural numbers, said of sets.  The proof system's   *)
(* own induction theorems take an operator, which none of its provers can  *)
(* instantiate; a set they can, so the principle is derived here from the  *)
(* well-foundedness of the strict inclusion of finite sets.                *)
(***************************************************************************)
EXTENDS Integers, FiniteSetTheorems, WellFoundedInduction, TLAPS

\* Every set of numbers that is not empty has a least element.
LEMMA LeastElement ==
  ASSUME NEW T, T \subseteq Nat, T # {}
  PROVE  \E n \in T : \A m \in T : n <= m
<1> DEFINE Below(n) == 0 .. n - 1
           Belows   == {Below(n) : n \in T}
<1>1. Belows \subseteq FiniteSubsetsOf(Nat) /\ Belows # {}
  <2>1. ASSUME NEW n \in T
        PROVE  IsFiniteSet(Below(n)) /\ Below(n) \in SUBSET Nat
    BY FS_Interval
  <2>2. \A n \in T : Below(n) \in FiniteSubsetsOf(Nat)
    BY <2>1 DEF FiniteSubsetsOf
  <2> QED
    BY <2>2
<1>2. PICK b \in Belows : \A c \in Belows : <<c, b>> \notin StrictSubsetOrdering(Nat)
  BY <1>1, WFMin, FS_StrictSubsetOrderingWellFounded
<1>3. PICK n \in T : b = Below(n)
  OBVIOUS
<1>4. ASSUME NEW m \in T, m < n
      PROVE  FALSE
  <2>1. Below(m) \subseteq b /\ Below(m) \subseteq Nat /\ b \subseteq Nat /\ m \in b /\ m \notin Below(m)
    BY <1>3, <1>4
  <2> QED
    BY <1>2, <2>1 DEF StrictSubsetOrdering
<1> QED
  BY <1>4

\* A set of numbers in an interval has a greatest one.
LEMMA GreatestElement ==
  ASSUME NEW a \in Nat, NEW b \in Int, NEW S, S \subseteq a .. b, S # {}
  PROVE  \E i \in S : \A j \in S : j <= i
<1> DEFINE T == {b - i : i \in S}
<1>1. T \subseteq Nat /\ T # {}
  OBVIOUS
<1>2. PICK t \in T : \A m \in T : t <= m
  <2> HIDE DEF T
  <2> QED BY <1>1, LeastElement
<1>3. PICK i \in S : t = b - i
  BY <1>2
<1>4. \A j \in S : b - j \in T
  OBVIOUS
<1>5. \A j \in S : j \in Int
  OBVIOUS
<1> HIDE DEF T
<1>6. \A j \in S : j <= i
  BY <1>2, <1>3, <1>4, <1>5
<1> QED BY <1>6

\* A set with 0 in it, and with every number up to n whose predecessor is in
\* it, holds all of 0 .. n.
LEMMA UpToInduction ==
  ASSUME NEW n \in Nat, NEW S, 0 \in S, \A k \in 1 .. n : k - 1 \in S => k \in S
  PROVE  0 .. n \subseteq S
<1> DEFINE T == (0 .. n) \ S
<1>1. SUFFICES ASSUME T # {} PROVE FALSE
  OBVIOUS
<1>2. PICK k \in T : \A m \in T : k <= m
  <2>1. T \subseteq Nat
    OBVIOUS
  <2> HIDE DEF T
  <2> QED BY <1>1, <2>1, LeastElement
<1>3. k \in 1 .. n /\ k - 1 \in 0 .. n /\ k - 1 \notin T
  BY <1>2
<1> QED
  BY <1>2, <1>3

\* The same of all the numbers.
LEMMA SetInduction ==
  ASSUME NEW S, 0 \in S, \A n \in Nat : n \in S => n + 1 \in S
  PROVE  Nat \subseteq S
<1> SUFFICES ASSUME NEW n \in Nat PROVE n \in S
  OBVIOUS
<1>1. \A k \in 1 .. n : k - 1 \in S => k \in S
  OBVIOUS
<1>2. 0 .. n \subseteq S
  BY <1>1, UpToInduction
<1> QED
  BY <1>2

\* A recursive function on 0 .. n exists: one that starts at a and makes its
\* k-th value of the one before by F[k].
LEMMA RecursionExists ==
  ASSUME NEW X, NEW a \in X, NEW n \in Nat, NEW F \in [1 .. n -> [X -> X]]
  PROVE  \E g \in [0 .. n -> X] : g[0] = a /\ \A k \in 1 .. n : g[k] = F[k][g[k - 1]]
<1> DEFINE S == {m \in 0 .. n :
                   \E g \in [0 .. m -> X] : g[0] = a /\ \A k \in 1 .. m : g[k] = F[k][g[k - 1]]}
<1>1. 0 \in S
  <2> DEFINE g == [k \in 0 .. 0 |-> a]
  <2>1. g \in [0 .. 0 -> X] /\ g[0] = a /\ \A k \in 1 .. 0 : g[k] = F[k][g[k - 1]]
    OBVIOUS
  <2> HIDE DEF g
  <2> QED
    BY <2>1
<1>2. ASSUME NEW m \in 1 .. n, m - 1 \in S
      PROVE  m \in S
  <2>1. PICK g \in [0 .. m - 1 -> X] : g[0] = a /\ \A k \in 1 .. m - 1 : g[k] = F[k][g[k - 1]]
    BY <1>2
  <2> DEFINE h == [k \in 0 .. m |-> IF k < m THEN g[k] ELSE F[m][g[m - 1]]]
  <2>2. h \in [0 .. m -> X] /\ h[0] = a
    BY <2>1
  <2>3. ASSUME NEW k \in 1 .. m
        PROVE  h[k] = F[k][h[k - 1]]
    <3>1. CASE k < m
      BY <2>1, <3>1
    <3>2. CASE k = m
      BY <3>2
    <3> QED BY <3>1, <3>2
  <2> HIDE DEF h
  <2>4. \E f \in [0 .. m -> X] : f[0] = a /\ \A k \in 1 .. m : f[k] = F[k][f[k - 1]]
    BY <2>2, <2>3, Zenon
  <2>5. m \in 0 .. n
    OBVIOUS
  <2> QED
    BY <2>4, <2>5, Zenon
<1>3. 0 .. n \subseteq S
  <2> HIDE DEF S
  <2> QED BY <1>1, <1>2, UpToInduction
<1> QED
  BY <1>3

\* The same with its conclusion closed, which the provers apply more readily.
IsRun(g, X, a, n, F) == g \in [0 .. n -> X] /\ g[0] = a /\ \A k \in 1 .. n : g[k] = F[k][g[k - 1]]

\* A run of n steps from a exists.
LEMMA RunExists ==
  ASSUME NEW X, NEW a \in X, NEW n \in Nat, NEW F \in [1 .. n -> [X -> X]]
  PROVE  \E g : IsRun(g, X, a, n, F)
BY RecursionExists DEF IsRun

\* Every number up to n is in a set that has each one above which it has all.
LEMMA DownInduction ==
  ASSUME NEW n \in Nat, NEW S, \A k \in 0 .. n : (\A l \in k + 1 .. n : l \in S) => k \in S
  PROVE  0 .. n \subseteq S
<1> DEFINE T == (0 .. n) \ S
<1>1. SUFFICES ASSUME T # {} PROVE FALSE
  OBVIOUS
<1>2. PICK k \in T : \A m \in T : m <= k
  <2>1. T \subseteq 0 .. n /\ 0 \in Nat /\ n \in Int
    OBVIOUS
  <2> HIDE DEF T
  <2> QED BY <1>1, <2>1, GreatestElement
<1>3. k \in 0 .. n /\ \A l \in k + 1 .. n : l \in S
  BY <1>2
<1> QED BY <1>2, <1>3

\* A recursive function on 0 .. n exists whose values are made of the ones
\* further on: E[j][g] looks at no g[l] but those of l > j.
LooksAhead(E, V, n) ==
  /\ E \in [0 .. n -> [[0 .. n -> V] -> V]]
  /\ \A j \in 0 .. n : \A f, g \in [0 .. n -> V] :
       (\A l \in j + 1 .. n : f[l] = g[l]) => E[j][f] = E[j][g]

IsDown(g, E, V, n) == g \in [0 .. n -> V] /\ \A j \in 0 .. n : g[j] = E[j][g]

\* A recursive function whose values look ahead only exists.
LEMMA DownExists ==
  ASSUME NEW V, NEW v \in V, NEW n \in Nat, NEW E, LooksAhead(E, V, n)
  PROVE  \E g : IsDown(g, E, V, n)
<1> DEFINE Above(m) == n + 1 - m .. n
           S == {m \in 0 .. n + 1 : \E g \in [0 .. n -> V] : \A j \in Above(m) : g[j] = E[j][g]}
<1> USE DEF LooksAhead
<1>1. 0 \in S
  <2> DEFINE g == [j \in 0 .. n |-> v]
  <2>1. g \in [0 .. n -> V] /\ 0 \in 0 .. n + 1 /\ \A j \in Above(0) : g[j] = E[j][g]
    OBVIOUS
  <2> HIDE DEF g, Above
  <2> QED BY <2>1
<1>2. ASSUME NEW m \in 1 .. n + 1, m - 1 \in S
      PROVE  m \in S
  <2>1. PICK g \in [0 .. n -> V] : \A j \in Above(m - 1) : g[j] = E[j][g]
    BY <1>2
  <2> DEFINE i == n + 1 - m
             h == [j \in 0 .. n |-> IF j = i THEN E[i][g] ELSE g[j]]
  <2>2. i \in 0 .. n /\ h \in [0 .. n -> V] /\ h[i] = E[i][g]
    OBVIOUS
  <2>3. ASSUME NEW j \in Above(m)
        PROVE  h[j] = E[j][h]
    <3>1. j \in 0 .. n /\ \A l \in j + 1 .. n : l \in 0 .. n /\ l # i /\ h[l] = g[l]
      OBVIOUS
    <3>2. E[j][h] = E[j][g]
      <4> HIDE DEF h
      <4> QED BY <2>2, <3>1
    <3>3. j # i => j \in Above(m - 1) /\ h[j] = g[j]
      OBVIOUS
    <3> HIDE DEF h, Above
    <3> QED BY <2>1, <2>2, <3>1, <3>2, <3>3
  <2> HIDE DEF h
  <2> QED BY <2>2, <2>3
<1>3. 0 .. n + 1 \subseteq S
  <2>1. n + 1 \in Nat
    OBVIOUS
  <2> HIDE DEF S
  <2> QED BY <1>1, <1>2, <2>1, UpToInduction
<1>4. n + 1 \in S
  <2> HIDE DEF S
  <2> QED BY <1>3
<1>5. PICK g \in [0 .. n -> V] : \A j \in Above(n + 1) : g[j] = E[j][g]
  BY <1>4
<1>6. \A j \in 0 .. n : j \in Above(n + 1)
  OBVIOUS
<1> QED BY <1>5, <1>6 DEF IsDown
=============================================================================
