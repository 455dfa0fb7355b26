-------------------------------- MODULE Sums --------------------------------
(***************************************************************************)
(* Induction over a set of numbers, and what it gives of the sums that the *)
(* specifications take: over the first places of a sequence, and over a    *)
(* set.                                                                    *)
(***************************************************************************)
EXTENDS Integers, FiniteSets, FiniteSetTheorems, WellFoundedInduction, TLAPS

-----------------------------------------------------------------------------
(* Induction *)

\* Every set of natural numbers that is not empty has a least element.
LEMMA Least ==
  ASSUME NEW T \in SUBSET Nat, T # {}
  PROVE  \E x \in T : \A y \in T : x <= y
<1> DEFINE R == OpToRel(<, Nat)
<1>1. IsWellFoundedOn(R, Nat)
  BY NatLessThanWellFounded
<1>2. \A x, y \in Nat : y < x => <<y, x>> \in R
  BY DEF OpToRel
<1> HIDE DEF R
<1>3. T \subseteq Nat
  OBVIOUS
<1>4. PICK x \in T : \A y \in T : ~(<<y, x>> \in R)
  BY <1>1, <1>3, WFMin
<1>5. ASSUME NEW y \in T PROVE x <= y
  <2>1. x \in Nat /\ y \in Nat
    BY <1>3
  <2>2. ~(y < x)
    BY <1>2, <1>4, <2>1
  <2>3. QED BY <2>1, <2>2
<1>6. QED BY <1>5

\* What holds of 0 and passes from each number to the next one holds up to n.
LEMMA UpTo ==
  ASSUME NEW n \in Nat, NEW S, 0 \in S, \A k \in 1 .. n : k - 1 \in S => k \in S
  PROVE  0 .. n \subseteq S
<1> DEFINE Rest == {k \in 0 .. n : k \notin S}
<1> SUFFICES ASSUME Rest # {} PROVE FALSE
  OBVIOUS
<1>0. Rest \in SUBSET Nat
  OBVIOUS
<1> HIDE DEF Rest
<1>1. PICK m \in Rest : \A k \in Rest : m <= k
  BY <1>0, Least
<1> USE DEF Rest
<1>2. m \in 1 .. n /\ m - 1 \in 0 .. n /\ m - 1 \notin Rest
  BY <1>1
<1>3. QED BY <1>2

-----------------------------------------------------------------------------
(* Sums over the places of a sequence *)

IsSum(f, v, n) == f = [k \in 0 .. n |-> IF k = 0 THEN 0 ELSE f[k - 1] + v[k]]

\* Every sequence of numbers has its sums.
LEMMA SumExists ==
  ASSUME NEW n \in Nat, NEW v \in [1 .. n -> Nat]
  PROVE  \E f \in [0 .. n -> Nat] : IsSum(f, v, n)
<1> DEFINE S == {m \in 0 .. n : \E f \in [0 .. m -> Nat] : IsSum(f, v, m)}
<1>1. 0 \in S
  <2> DEFINE f == [k \in 0 .. 0 |-> 0]
  <2>1. f \in [0 .. 0 -> Nat] /\ IsSum(f, v, 0)
    BY DEF IsSum
  <2>2. QED BY <2>1
<1>2. ASSUME NEW m \in 1 .. n, m - 1 \in S PROVE m \in S
  <2>1. PICK f \in [0 .. (m - 1) -> Nat] : IsSum(f, v, m - 1)
    BY <1>2
  <2> DEFINE g == [k \in 0 .. m |-> IF k = m THEN f[m - 1] + v[m] ELSE f[k]]
  <2>2. v[m] \in Nat /\ f[m - 1] \in Nat
    OBVIOUS
  <2>3. g \in [0 .. m -> Nat]
    BY <2>2
  <2>4. ASSUME NEW k \in 0 .. m
        PROVE  g[k] = IF k = 0 THEN 0 ELSE g[k - 1] + v[k]
    <3>1. CASE k = m
      BY <2>2, <3>1
    <3>2. CASE k # m
      <4>1. k \in 0 .. (m - 1) /\ g[k] = f[k]
        BY <3>2
      <4>2. f[k] = IF k = 0 THEN 0 ELSE f[k - 1] + v[k]
        BY <2>1, <4>1 DEF IsSum
      <4>3. k # 0 => g[k - 1] = f[k - 1]
        BY <3>2
      <4>4. QED BY <4>1, <4>2, <4>3
    <3>3. QED BY <3>1, <3>2
  <2>5. IsSum(g, v, m)
    BY <2>4 DEF IsSum
  <2> HIDE DEF g
  <2>6. QED BY <2>3, <2>5
<1>3. 0 .. n \subseteq S
  <2> HIDE DEF S
  <2>1. QED BY <1>1, <1>2, UpTo
<1>4. n \in S
  <2> HIDE DEF S
  <2>1. QED BY <1>3
<1>5. QED BY <1>4

\* Its values are natural numbers.
LEMMA SumTypes ==
  ASSUME NEW n \in Nat, NEW v \in [1 .. n -> Nat], NEW f, IsSum(f, v, n)
  PROVE  f \in [0 .. n -> Nat]
<1> DEFINE S == {k \in 0 .. n : f[k] \in Nat}
<1>1. /\ \A k \in 0 .. n : f[k] = IF k = 0 THEN 0 ELSE f[k - 1] + v[k]
      /\ f = [k \in 0 .. n |-> f[k]]
  BY DEF IsSum
<1>2. 0 \in S
  BY <1>1
<1>3. ASSUME NEW k \in 1 .. n, k - 1 \in S PROVE k \in S
  <2>1. k # 0 /\ k \in 0 .. n /\ k \in 1 .. n /\ k - 1 \in 0 .. n
    OBVIOUS
  <2>2. f[k] = f[k - 1] + v[k] /\ v[k] \in Nat
    BY <1>1, <2>1
  <2>3. QED BY <1>3, <2>1, <2>2
<1>4. 0 .. n \subseteq S
  <2> HIDE DEF S
  <2>1. QED BY <1>2, <1>3, UpTo
<1>5. QED BY <1>1, <1>4

\* A longer sequence that begins the same way has the same sums so far.
LEMMA SumExtends ==
  ASSUME NEW n \in Nat, NEW m \in 0 .. n, NEW v, NEW w, \A k \in 1 .. m : w[k] = v[k],
         NEW f, IsSum(f, v, m), NEW g, IsSum(g, w, n)
  PROVE  g[m] = f[m]
<1> DEFINE S == {k \in 0 .. m : g[k] = f[k]}
<1>1. /\ \A k \in 0 .. m : f[k] = IF k = 0 THEN 0 ELSE f[k - 1] + v[k]
      /\ \A k \in 0 .. n : g[k] = IF k = 0 THEN 0 ELSE g[k - 1] + w[k]
  BY DEF IsSum
<1>2. 0 \in S
  BY <1>1
<1>3. \A k \in 1 .. m : k - 1 \in S => k \in S
  BY <1>1
<1>4. 0 .. m \subseteq S
  <2> HIDE DEF S
  <2>1. m \in Nat
    OBVIOUS
  <2>2. QED BY <1>2, <1>3, <2>1, UpTo
<1>5. m \in 0 .. m
  OBVIOUS
<1>6. QED BY <1>4, <1>5

\* One more place adds its value.
LEMMA NextSum ==
  ASSUME NEW n \in Nat, NEW v, NEW w, \A k \in 1 .. n : w[k] = v[k],
         NEW f, IsSum(f, v, n), NEW g, IsSum(g, w, n + 1)
  PROVE  g[n + 1] = f[n] + w[n + 1]
<1>1. PICK m \in Nat : m = n + 1
  OBVIOUS
<1>2. g[n] = f[n]
  <2>1. n \in 0 .. m /\ IsSum(g, w, m)
    BY <1>1
  <2>2. QED BY <2>1, SumExtends
<1>3. n + 1 \in 0 .. n + 1 /\ n + 1 # 0 /\ n + 1 - 1 = n
  OBVIOUS
<1>4. g[n + 1] = g[n] + w[n + 1]
  BY <1>3 DEF IsSum
<1>5. QED BY <1>2, <1>4

\* The sums never fall.
LEMMA SumGrows ==
  ASSUME NEW n \in Nat, NEW v \in [1 .. n -> Nat], NEW f, IsSum(f, v, n)
  PROVE  \A j, k \in 0 .. n : j <= k => f[j] <= f[k]
<1> DEFINE S == {k \in 0 .. n : \A j \in 0 .. k : f[j] <= f[k]}
<1>1. f \in [0 .. n -> Nat] /\ \A k \in 1 .. n : f[k] = f[k - 1] + v[k]
  <2>1. f \in [0 .. n -> Nat]
    BY SumTypes
  <2>2. \A k \in 0 .. n : f[k] = IF k = 0 THEN 0 ELSE f[k - 1] + v[k]
    BY DEF IsSum
  <2>3. QED BY <2>1, <2>2
<1>2. 0 \in S
  BY <1>1
<1>3. ASSUME NEW k \in 1 .. n, k - 1 \in S PROVE k \in S
  <2>1. f[k - 1] <= f[k] /\ f[k - 1] \in Nat /\ f[k] \in Nat
    BY <1>1
  <2>2. ASSUME NEW j \in 0 .. k PROVE f[j] <= f[k]
    <3>1. f[j] \in Nat
      BY <1>1
    <3>2. j = k \/ j \in 0 .. (k - 1)
      OBVIOUS
    <3>3. QED BY <1>3, <2>1, <3>1, <3>2
  <2>3. QED BY <2>2
<1>4. 0 .. n \subseteq S
  <2> HIDE DEF S
  <2>1. QED BY <1>2, <1>3, UpTo
<1>5. QED BY <1>4

-----------------------------------------------------------------------------
(* Sums over a set, which the community modules take in any order *)

First(s) == CHOOSE x \in s : TRUE

IsSetSum(f, v, S) ==
  f = [s \in SUBSET S |-> IF s = {} THEN 0 ELSE v[First(s)] + f[s \ {First(s)}]]

\* A set without its first element is smaller by one.
LEMMA WithoutFirst ==
  ASSUME NEW S, IsFiniteSet(S), NEW s \in SUBSET S
  PROVE  /\ Cardinality(S) \in Nat /\ Cardinality(s) \in Nat
         /\ Cardinality(s) <= Cardinality(S)
         /\ Cardinality(s) <= 0 => s = {}
         /\ s # {} => /\ First(s) \in s
                      /\ s \ {First(s)} \in SUBSET S
                      /\ Cardinality(s \ {First(s)}) = Cardinality(s) - 1
<1>1. IsFiniteSet(s) /\ Cardinality(s) <= Cardinality(S) /\ Cardinality(s) \in Nat
  BY FS_Subset, FS_CardinalityType
<1>2. Cardinality(S) \in Nat
  BY FS_CardinalityType
<1>3. s # {} => First(s) \in s
  BY DEF First
<1>4. Cardinality(s) <= 0 => s = {}
  BY <1>1, FS_EmptySet
<1>5. s # {} => Cardinality(s \ {First(s)}) = Cardinality(s) - 1
  BY <1>1, <1>3, FS_RemoveElement
<1>6. QED BY <1>1, <1>2, <1>3, <1>4, <1>5

\* What holds of the empty set, and passes to each set from what is left of it without
\* its first element, holds of all sets.
LEMMA UpToSet ==
  ASSUME NEW S, IsFiniteSet(S), NEW P, {} \in P,
         \A s \in SUBSET S : s # {} /\ s \ {First(s)} \in P => s \in P
  PROVE  SUBSET S \subseteq P
<1> DEFINE Sizes == {k \in 0 .. Cardinality(S) :
                      \A s \in SUBSET S : Cardinality(s) <= k => s \in P}
<1>1. Cardinality(S) \in Nat
  BY FS_CardinalityType
<1>2. 0 \in Sizes
  <2>1. ASSUME NEW s \in SUBSET S, Cardinality(s) <= 0 PROVE s \in P
    <3>1. s = {}
      BY <2>1, WithoutFirst
    <3>2. QED BY <3>1
  <2>2. QED BY <1>1, <2>1
<1>3. ASSUME NEW k \in 1 .. Cardinality(S), k - 1 \in Sizes PROVE k \in Sizes
  <2>1. ASSUME NEW s \in SUBSET S, Cardinality(s) <= k, s # {} PROVE s \in P
    <3>1. /\ s \ {First(s)} \in SUBSET S /\ Cardinality(s) \in Nat
          /\ Cardinality(s \ {First(s)}) = Cardinality(s) - 1
      BY <2>1, WithoutFirst
    <3>2. Cardinality(s \ {First(s)}) <= k - 1
      BY <1>1, <2>1, <3>1
    <3>3. s \ {First(s)} \in P
      BY <1>3, <3>1, <3>2
    <3>4. QED BY <2>1, <3>3
  <2>2. QED BY <2>1
<1>4. Cardinality(S) \in Sizes
  <2>1. 0 .. Cardinality(S) \subseteq Sizes
    <3> HIDE DEF Sizes
    <3>1. QED BY <1>1, <1>2, <1>3, UpTo
  <2> HIDE DEF Sizes
  <2>2. QED BY <1>1, <2>1
<1>5. ASSUME NEW s \in SUBSET S PROVE s \in P
  <2>1. Cardinality(s) <= Cardinality(S)
    BY WithoutFirst
  <2>2. QED BY <1>4, <2>1
<1>6. QED BY <1>5

\* Every finite set of numbers has its sums.
LEMMA SetSumExists ==
  ASSUME NEW S, IsFiniteSet(S), NEW v \in [S -> Nat]
  PROVE  \E f : IsSetSum(f, v, S)
<1> DEFINE Small(k) == {s \in SUBSET S : Cardinality(s) <= k}
           After(f, s) == IF s = {} THEN 0 ELSE v[First(s)] + f[s \ {First(s)}]
           K == {k \in 0 .. Cardinality(S) :
                   \E f \in [Small(k) -> Nat] : \A s \in Small(k) : f[s] = After(f, s)}
<1>1. Cardinality(S) \in Nat
  BY FS_CardinalityType
<1>2. 0 \in K
  <2> DEFINE f == [s \in Small(0) |-> 0]
  <2>1. ASSUME NEW s \in SUBSET S, Cardinality(s) <= 0 PROVE s = {}
    BY <2>1, WithoutFirst
  <2>2. f \in [Small(0) -> Nat] /\ \A s \in Small(0) : f[s] = After(f, s)
    BY <2>1
  <2>3. 0 \in 0 .. Cardinality(S)
    BY <1>1
  <2> HIDE DEF f, After, Small
  <2>4. QED BY <2>2, <2>3
<1>3. ASSUME NEW k \in 1 .. Cardinality(S), k - 1 \in K PROVE k \in K
  <2>1. PICK f \in [Small(k - 1) -> Nat] : \A s \in Small(k - 1) : f[s] = After(f, s)
    BY <1>3
  <2> DEFINE g == [s \in Small(k) |-> After(f, s)]
  <2>2. ASSUME NEW s \in SUBSET S, Cardinality(s) <= k, s # {}
        PROVE  v[First(s)] \in Nat /\ s \ {First(s)} \in Small(k - 1)
    <3>1. /\ First(s) \in s /\ s \ {First(s)} \in SUBSET S /\ Cardinality(s) \in Nat
          /\ Cardinality(s \ {First(s)}) = Cardinality(s) - 1
      BY <2>2, WithoutFirst
    <3>2. Cardinality(s \ {First(s)}) <= k - 1
      BY <1>1, <2>2, <3>1
    <3>3. QED BY <3>1, <3>2
  <2>3. \A s \in Small(k) : After(f, s) \in Nat
    BY <2>2
  <2>4. g \in [Small(k) -> Nat]
    BY <2>3
  <2>5. ASSUME NEW s \in Small(k - 1) PROVE s \in Small(k) /\ g[s] = f[s]
    <3>1. s \in SUBSET S /\ Cardinality(s) <= k - 1
      OBVIOUS
    <3>2. s \in Small(k)
      <4>1. Cardinality(s) \in Nat
        BY <3>1, WithoutFirst
      <4>2. QED BY <1>1, <3>1, <4>1
    <3> HIDE DEF Small, After
    <3>3. QED BY <2>1, <3>2
  <2>6. ASSUME NEW s \in Small(k) PROVE g[s] = After(g, s)
    <3>1. s # {} => g[s \ {First(s)}] = f[s \ {First(s)}]
      <4> SUFFICES ASSUME s # {} PROVE g[s \ {First(s)}] = f[s \ {First(s)}]
        OBVIOUS
      <4>1. s \ {First(s)} \in Small(k - 1)
        BY <2>2
      <4> HIDE DEF g, Small
      <4>2. QED BY <2>5, <4>1
    <3>2. g[s] = After(f, s)
      OBVIOUS
    <3> HIDE DEF g
    <3>3. QED BY <3>1, <3>2
  <2> HIDE DEF g, After, Small
  <2>7. QED BY <2>4, <2>6
<1>4. Cardinality(S) \in K
  <2>1. 0 .. Cardinality(S) \subseteq K
    <3> HIDE DEF K
    <3>1. QED BY <1>1, <1>2, <1>3, UpTo
  <2> HIDE DEF K
  <2>2. QED BY <1>1, <2>1
<1>5. Small(Cardinality(S)) = SUBSET S
  <2>1. \A s \in SUBSET S : Cardinality(s) <= Cardinality(S)
    BY WithoutFirst
  <2>2. QED BY <2>1
<1>6. \E f \in [SUBSET S -> Nat] : \A s \in SUBSET S : f[s] = After(f, s)
  BY <1>4, <1>5
<1>7. PICK f \in [SUBSET S -> Nat] : \A s \in SUBSET S : f[s] = After(f, s)
  BY <1>6
<1>8. IsSetSum(f, v, S)
  BY <1>7 DEF IsSetSum
<1>9. QED BY <1>8

\* A sum is at least the number of those that add one or more, and at most c for each of
\* those that add anything.
LEMMA SetSumBounds ==
  ASSUME NEW S, IsFiniteSet(S), NEW v \in [S -> Nat], NEW f, IsSetSum(f, v, S),
         NEW A \in SUBSET S, NEW c \in Nat
  PROVE  /\ f[S] \in Nat /\ Cardinality(A) \in Nat
         /\ (\A x \in A : v[x] >= 1) => f[S] >= Cardinality(A)
         /\ (\A x \in S : v[x] <= IF x \in A THEN c ELSE 0) => f[S] <= c * Cardinality(A)
<1> DEFINE P == {s \in SUBSET S :
                   /\ f[s] \in Nat
                   /\ (\A x \in A : v[x] >= 1) => f[s] >= Cardinality(A \cap s)
                   /\ (\A x \in S : v[x] <= IF x \in A THEN c ELSE 0)
                        => f[s] <= c * Cardinality(A \cap s)}
<1>1. \A s \in SUBSET S : f[s] = IF s = {} THEN 0 ELSE v[First(s)] + f[s \ {First(s)}]
  BY DEF IsSetSum
<1>2. \A s \in SUBSET S : IsFiniteSet(A \cap s) /\ Cardinality(A \cap s) \in Nat
  BY FS_Subset, FS_CardinalityType
<1>3. {} \in P
  <2>1. A \cap {} = {} /\ Cardinality({}) = 0
    BY FS_EmptySet
  <2>2. f[{}] = 0
    BY <1>1
  <2>3. c * 0 = 0
    OBVIOUS
  <2>4. QED BY <2>1, <2>2, <2>3
<1>4. ASSUME NEW s \in SUBSET S, s # {}, s \ {First(s)} \in P PROVE s \in P
  <2> DEFINE x == First(s)
             r == s \ {x}
             n == Cardinality(A \cap r)
  <2>1. x \in s /\ x \in S /\ f[s] = v[x] + f[r] /\ v[x] \in Nat /\ f[r] \in Nat
    BY <1>1, <1>4 DEF First
  <2>2. n \in Nat /\ IsFiniteSet(A \cap r)
    BY <1>2
  <2>3. Cardinality(A \cap s) = IF x \in A THEN n + 1 ELSE n
    <3>1. CASE x \in A
      <4>1. A \cap s = (A \cap r) \cup {x} /\ x \notin A \cap r
        BY <2>1, <3>1
      <4> HIDE DEF x, r
      <4>2. QED BY <2>2, <3>1, <4>1, FS_AddElement
    <3>2. CASE x \notin A
      <4>1. A \cap s = A \cap r
        BY <3>2
      <4>2. QED BY <3>2, <4>1
    <3>3. QED BY <3>1, <3>2
  <2>4. /\ (\A y \in A : v[y] >= 1) => f[r] >= n
        /\ (\A y \in S : v[y] <= IF y \in A THEN c ELSE 0) => f[r] <= c * n
    BY <1>4
  <2>5. c * (n + 1) = c * n + c /\ c * n \in Nat
    BY <2>2
  <2> HIDE DEF x, r, n
  <2>6. (\A y \in A : v[y] >= 1) => f[s] >= Cardinality(A \cap s)
    BY <2>1, <2>2, <2>3, <2>4
  <2>7. (\A y \in S : v[y] <= IF y \in A THEN c ELSE 0) => f[s] <= c * Cardinality(A \cap s)
    BY <2>1, <2>2, <2>3, <2>4, <2>5
  <2>8. QED BY <2>1, <2>6, <2>7
<1>5. S \in P
  <2>1. SUBSET S \subseteq P
    <3> HIDE DEF P
    <3>1. QED BY <1>3, <1>4, UpToSet
  <2> HIDE DEF P
  <2>2. QED BY <2>1
<1>6. A \cap S = A
  OBVIOUS
<1>7. QED BY <1>2, <1>5, <1>6

=============================================================================
