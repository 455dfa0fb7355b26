-------------------------- MODULE ChatTurnsProofs ---------------------------
(* Theorems about the turns of the chat.  They hold for any number of turns,    *)
(* workers, threads, questions, prompt versions and packs of evidence, and for  *)
(* any changes around them.                                                     *)
EXTENDS ChatTurns, FiniteSetTheorems, SequenceTheorems, TLAPS

-----------------------------------------------------------------------------
(* The k-th of a set of positions *)

Rank(P, i) == Cardinality({j \in P : j <= i})

LEMMA RankGrows ==
  ASSUME NEW P \in SUBSET Nat, IsFiniteSet(P), NEW i \in P
  PROVE  /\ Rank(P, i) \in 1..Cardinality(P)
         /\ \A j \in P : i < j => Rank(P, i) < Rank(P, j)
<1> DEFINE Upto(n) == {j \in P : j <= n}
<1>1. Cardinality(P) \in Nat
  BY FS_CardinalityType
<1>2. ASSUME NEW n \in P
      PROVE  /\ IsFiniteSet(Upto(n)) /\ Cardinality(Upto(n)) \in Nat
             /\ Cardinality(Upto(n)) <= Cardinality(P) /\ Cardinality(Upto(n)) # 0
  <2>1. Upto(n) \in SUBSET P /\ n \in Upto(n)
    OBVIOUS
  <2> HIDE DEF Upto
  <2>2. IsFiniteSet(Upto(n)) /\ Cardinality(Upto(n)) <= Cardinality(P)
    BY <2>1, FS_Subset
  <2> QED
    BY <2>1, <2>2, FS_CardinalityType, FS_EmptySet
<1>3. ASSUME NEW j \in P, i < j
      PROVE  Cardinality(Upto(i)) < Cardinality(Upto(j))
  <2>0. i \in Nat /\ j \in Nat /\ \A n \in P : n \in Nat
    OBVIOUS
  <2>1. \A n \in Upto(i) : n \in Upto(j)
    BY <1>3, <2>0
  <2>2. Upto(i) \in SUBSET Upto(j) /\ Upto(i) # Upto(j)
    <3>1. j \in Upto(j) /\ j \notin Upto(i)
      BY <1>3, <2>0
    <3> QED
      BY <2>1, <3>1
  <2> HIDE DEF Upto
  <2>3. Cardinality(Upto(i)) <= Cardinality(Upto(j))
        /\ Cardinality(Upto(i)) # Cardinality(Upto(j))
    BY <1>2, <2>2, FS_Subset
  <2> QED
    BY <1>2, <2>3
<1> HIDE DEF Upto
<1>4. \A n \in P : Rank(P, n) = Cardinality(Upto(n))
  BY DEF Rank, Upto
<1> QED
  BY <1>1, <1>2, <1>3, <1>4

\* The k-th position is one of them, and no two have the same number.
LEMMA NthIs ==
  ASSUME NEW P \in SUBSET Nat, IsFiniteSet(P)
  PROVE  /\ Cardinality(P) \in Nat
         /\ \A k \in 1..Cardinality(P) : Nth(P, k) \in P /\ Rank(P, Nth(P, k)) = k
         /\ \A i \in P : Rank(P, i) \in 1..Cardinality(P) /\ Nth(P, Rank(P, i)) = i
<1> DEFINE c == Cardinality(P)
           rank == [i \in P |-> Rank(P, i)]
<1>1. c \in Nat /\ IsFiniteSet(1..c) /\ Cardinality(1..c) = c
  BY FS_CardinalityType, FS_Interval
<1>2. \A i, j \in P : Rank(P, i) = Rank(P, j) => i = j
  <2> SUFFICES ASSUME NEW i \in P, NEW j \in P, i < j \/ j < i PROVE Rank(P, i) # Rank(P, j)
    OBVIOUS
  <2>1. Rank(P, i) \in Nat /\ Rank(P, j) \in Nat
    BY <1>1, RankGrows
  <2> QED
    BY <2>1, RankGrows
<1>3. rank \in Injection(P, 1..c)
  BY <1>2, RankGrows DEF Injection, IsInjective
<1>4. rank \in Surjection(P, 1..c)
  BY <1>1, <1>3, FS_Injection
<1>5. \A k \in 1..c : \E i \in P : Rank(P, i) = k
  BY <1>4 DEF Surjection
<1>6. ASSUME NEW k \in 1..c PROVE Nth(P, k) \in P /\ Rank(P, Nth(P, k)) = k
  BY <1>5 DEF Nth, Rank
<1>7. ASSUME NEW i \in P PROVE Rank(P, i) \in 1..c /\ Nth(P, Rank(P, i)) = i
  BY <1>2, <1>6, RankGrows
<1> QED
  BY <1>1, <1>6, <1>7

\* Positions matched in order by a one-to-one function have the same numbers.
LEMMA NthAlong ==
  ASSUME NEW P \in SUBSET Nat, IsFiniteSet(P), NEW Q \in SUBSET Nat, NEW f \in Surjection(P, Q),
         \A i, j \in P : i < j => f[i] < f[j]
  PROVE  /\ Cardinality(Q) = Cardinality(P)
         /\ \A k \in 1..Cardinality(P) : Nth(Q, k) = f[Nth(P, k)]
<1>0. f \in [P -> Q] /\ \A j \in Q : \E i \in P : f[i] = j
  BY DEF Surjection
<1>1. \A i, j \in P : f[i] <= f[j] <=> i <= j
  <2> SUFFICES ASSUME NEW i \in P, NEW j \in P PROVE f[i] <= f[j] <=> i <= j
    OBVIOUS
  <2>1. i \in Nat /\ j \in Nat /\ f[i] \in Nat /\ f[j] \in Nat
    <3>1. f[i] \in Q /\ f[j] \in Q
      BY <1>0
    <3> QED
      BY <3>1
  <2>2. (i < j => f[i] < f[j]) /\ (j < i => f[j] < f[i]) /\ (i = j => f[i] = f[j])
    OBVIOUS
  <2> QED
    BY <2>1, <2>2
<1>2. \A i, j \in P : f[i] = f[j] => i = j
  <2> SUFFICES ASSUME NEW i \in P, NEW j \in P, f[i] = f[j] PROVE i = j
    OBVIOUS
  <2>1. f[i] \in Q /\ f[j] \in Q
    BY <1>0
  <2>2. i \in Nat /\ j \in Nat /\ f[i] \in Nat /\ f[j] \in Nat
    BY <2>1
  <2>3. f[i] <= f[j] /\ f[j] <= f[i]
    BY <2>2
  <2> QED
    BY <1>1, <2>2, <2>3
<1>3. ExistsBijection(P, Q)
  BY <1>0, <1>2 DEF ExistsBijection, Bijection, Injection, IsInjective, Surjection
<1>4. IsFiniteSet(Q) /\ Cardinality(Q) = Cardinality(P)
  BY <1>3, FS_Bijection
<1>5. ASSUME NEW i \in P PROVE Rank(Q, f[i]) = Rank(P, i)
  <2> DEFINE S == {j \in P : j <= i}
             T == {j \in Q : j <= f[i]}
             g == [j \in S |-> f[j]]
  <2>1. IsFiniteSet(S)
    BY FS_Subset
  <2>2. g \in [S -> T]
    BY <1>0, <1>1
  <2>3. \A j, k \in S : g[j] = g[k] => j = k
    BY <1>2
  <2>4. \A k \in T : \E j \in S : g[j] = k
    BY <1>0, <1>1
  <2>5. ExistsBijection(S, T)
    <3> HIDE DEF g, S, T
    <3> QED
      BY <2>2, <2>3, <2>4 DEF ExistsBijection, Bijection, Injection, IsInjective, Surjection
  <2>6. Cardinality(T) = Cardinality(S)
    BY <2>1, <2>5, FS_Bijection
  <2> QED
    BY <2>6 DEF Rank
<1>6. ASSUME NEW k \in 1..Cardinality(P) PROVE Nth(Q, k) = f[Nth(P, k)]
  <2>1. Nth(P, k) \in P /\ Rank(P, Nth(P, k)) = k
    BY NthIs
  <2>2. f[Nth(P, k)] \in Q /\ Rank(Q, f[Nth(P, k)]) = k
    BY <1>0, <1>5, <2>1
  <2>3. Nth(Q, Rank(Q, f[Nth(P, k)])) = f[Nth(P, k)]
    BY <1>4, <2>2, NthIs
  <2> QED
    BY <2>2, <2>3
<1> QED
  BY <1>4, <1>6

-----------------------------------------------------------------------------
(* The order of the rows *)

Elems(s)          == {s[i] : i \in 1..Len(s)}
Once(s)           == \A i, j \in 1..Len(s) : s[i] = s[j] => i = j
Precedes(s, a, b) == \E i, j \in 1..Len(s) : i < j /\ s[i] = a /\ s[j] = b

LEMMA OneWay ==
  ASSUME NEW R, NEW s \in Seq(R), Once(s), NEW a, NEW b, Precedes(s, a, b)
  PROVE  ~Precedes(s, b, a) /\ a \in Elems(s) /\ b \in Elems(s) /\ a # b
<1>1. PICK i \in 1..Len(s), j \in 1..Len(s) : i < j /\ s[i] = a /\ s[j] = b
  BY DEF Precedes
<1>2. Len(s) \in Nat
  OBVIOUS
<1>3. a \in Elems(s) /\ b \in Elems(s)
  BY <1>1 DEF Elems
<1>4. a # b
  BY <1>1, <1>2 DEF Once
<1>5. ASSUME NEW k \in 1..Len(s), NEW l \in 1..Len(s), k < l, s[k] = b, s[l] = a PROVE FALSE
  <2>1. k = j /\ l = i
    BY <1>1, <1>5 DEF Once
  <2> QED
    BY <1>1, <1>2, <1>5, <2>1
<1> QED
  BY <1>3, <1>4, <1>5 DEF Precedes

\* The order of the rows of s is the order they have in a longer sequence.
LEMMA Embeds ==
  ASSUME NEW R, NEW s \in Seq(R), NEW big \in Seq(R), Once(big),
         NEW m \in [1..Len(s) -> 1..Len(big)],
         \A i \in 1..Len(s) : big[m[i]] = s[i],
         \A i, j \in 1..Len(s) : i < j => m[i] < m[j]
  PROVE  /\ Once(s)
         /\ \A a, b \in Elems(s) : Precedes(s, a, b) <=> Precedes(big, a, b)
<1>0. Len(s) \in Nat /\ Len(big) \in Nat
  OBVIOUS
<1>1. \A i, j \in 1..Len(s) : m[i] = m[j] => i = j
  <2> SUFFICES ASSUME NEW i \in 1..Len(s), NEW j \in 1..Len(s), m[i] = m[j] PROVE i = j
    OBVIOUS
  <2>1. i \in Nat /\ j \in Nat /\ m[i] \in 1..Len(big) /\ m[j] \in 1..Len(big)
    BY <1>0
  <2>2. m[i] \in Nat /\ m[j] \in Nat
    BY <1>0, <2>1
  <2>3. ~(i < j) /\ ~(j < i)
    BY <2>2
  <2> QED
    BY <2>1, <2>3
<1>2. Once(s)
  BY <1>1 DEF Once
<1>3. ASSUME NEW a \in Elems(s), NEW b \in Elems(s), Precedes(s, a, b) PROVE Precedes(big, a, b)
  BY <1>3 DEF Precedes
<1>4. ASSUME NEW a \in Elems(s), NEW b \in Elems(s), Precedes(big, a, b) PROVE Precedes(s, a, b)
  <2>1. PICK i \in 1..Len(big), j \in 1..Len(big) : i < j /\ big[i] = a /\ big[j] = b
    BY <1>4 DEF Precedes
  <2>2. PICK k \in 1..Len(s), l \in 1..Len(s) : s[k] = a /\ s[l] = b
    BY DEF Elems
  <2>3. m[k] \in 1..Len(big) /\ m[l] \in 1..Len(big)
    OBVIOUS
  <2>4. m[k] = i /\ m[l] = j
    BY <2>1, <2>2, <2>3 DEF Once
  <2>5. i \in Nat /\ j \in Nat /\ k \in Nat /\ l \in Nat
    BY <1>0
  <2>6. ~(l < k) /\ l # k
    BY <2>1, <2>4, <2>5
  <2>7. k < l
    BY <2>5, <2>6
  <2> QED
    BY <2>2, <2>7 DEF Precedes
<1> QED
  BY <1>2, <1>3, <1>4

\* The rows after one more was put at the end or just before the last.
Put(s, row, late) == IF late THEN Append(s, row) ELSE Append(Front(s), row) \o <<Last(s)>>

LEMMA PutIs ==
  ASSUME NEW R, NEW s \in Seq(R), Once(s), NEW row \in R, row \notin Elems(s),
         NEW late \in BOOLEAN, late \/ s # <<>>, NEW s2, s2 = Put(s, row, late)
  PROVE  /\ s2 \in Seq(R) /\ Once(s2)
         /\ Elems(s2) = Elems(s) \cup {row}
         /\ \A a, b \in Elems(s) : Precedes(s2, a, b) <=> Precedes(s, a, b)
         /\ \A a \in Elems(s) : (~late /\ a = s[Len(s)]) \/ Precedes(s2, a, row)
<1>n. PICK n \in Nat : n = Len(s)
  OBVIOUS
<1> DEFINE m == [i \in 1..n |-> IF late \/ i < n THEN i ELSE n + 1]
           p == IF late THEN n + 1 ELSE n
<1>0. n = Len(s) /\ (late \/ n > 0) /\ DOMAIN s = 1..n /\ \A i \in 1..n : s[i] \in R
  BY <1>n, EmptySeq
<1>1. /\ s2 \in Seq(R) /\ Len(s2) = n + 1 /\ s2[p] = row
      /\ \A i \in 1..n : s2[m[i]] = s[i]
  <2>1. CASE late
    BY <1>0, <2>1 DEF Put
  <2>2. CASE ~late
    <3> DEFINE f == Front(s)
               g == Append(f, row)
               one == <<Last(s)>>
    <3>1. n > 0
      BY <1>0, <2>2
    <3>2. f \in Seq(R) /\ Len(f) = n - 1 /\ \A i \in 1..(n - 1) : f[i] = s[i]
      BY <1>0, <3>1 DEF Front
    <3>3. Last(s) = s[n] /\ s[n] \in R
      BY <1>0, <3>1 DEF Last
    <3>4. one \in Seq(R) /\ Len(one) = 1 /\ one[1] = s[n]
      BY <3>3
    <3> HIDE DEF f, one
    <3>5. g \in Seq(R) /\ Len(g) = n /\ g[n] = row /\ \A i \in 1..(n - 1) : g[i] = s[i]
      <4>1. g \in Seq(R) /\ Len(g) = (n - 1) + 1
        BY <3>1, <3>2
      <4>2. g[(n - 1) + 1] = row /\ \A i \in 1..(n - 1) : g[i] = f[i]
        BY <3>1, <3>2
      <4> HIDE DEF g
      <4> QED
        BY <3>1, <3>2, <4>1, <4>2
    <3> HIDE DEF g
    <3>6. s2 = g \o one
      BY <2>2 DEF Put, f, g, one
    <3>7. s2 \in Seq(R) /\ Len(s2) = n + 1
      <4>1. g \o one \in Seq(R) /\ Len(g \o one) = Len(g) + Len(one)
        BY <3>4, <3>5, ConcatProperties
      <4> QED
        BY <3>4, <3>5, <3>6, <4>1
    <3>8. (\A i \in 1..n : s2[i] = g[i]) /\ s2[n + 1] = s[n]
      <4>1. \A i \in 1..(Len(g) + Len(one)) :
              (g \o one)[i] = IF i <= Len(g) THEN g[i] ELSE one[i - Len(g)]
        BY <3>4, <3>5, ConcatProperties
      <4>2. \A i \in 1..(n + 1) : (g \o one)[i] = IF i <= n THEN g[i] ELSE one[i - n]
        BY <3>4, <3>5, <4>1
      <4>3. ASSUME NEW i \in 1..n PROVE (g \o one)[i] = g[i]
        <5>1. i \in 1..(n + 1) /\ i <= n
          OBVIOUS
        <5> QED
          BY <4>2, <5>1
      <4>4. (n + 1) - n = 1 /\ n + 1 \in 1..(n + 1) /\ ~(n + 1 <= n)
        OBVIOUS
      <4>5. (g \o one)[n + 1] = one[1]
        BY <4>2, <4>4
      <4> QED
        BY <3>4, <3>6, <4>3, <4>5
    <3>9. s2[n] = row
      BY <1>0, <3>1, <3>5, <3>8
    <3>10. ASSUME NEW i \in 1..n PROVE s2[m[i]] = s[i]
      <4>1. CASE i < n
        BY <1>0, <3>5, <3>8, <4>1
      <4>2. CASE ~(i < n)
        <5>1. i = n
          BY <4>2
        <5>2. m[i] = n + 1
          BY <2>2, <4>2
        <5> QED
          BY <3>8, <5>1, <5>2
      <4> QED
        BY <4>1, <4>2
    <3> QED
      BY <2>2, <3>7, <3>9, <3>10
  <2> QED
    BY <2>1, <2>2
<1>2. /\ m \in [1..n -> 1..Len(s2)] /\ p \in 1..Len(s2)
      /\ \A i, j \in 1..n : i < j => m[i] < m[j]
      /\ \A k \in 1..Len(s2) : k = p \/ \E i \in 1..n : m[i] = k
  <2>1. m \in [1..n -> 1..(n + 1)] /\ p \in 1..(n + 1)
    BY <1>0
  <2>2. \A i, j \in 1..n : i < j => m[i] < m[j]
    BY <1>0
  <2>3. ASSUME NEW k \in 1..(n + 1), k # p PROVE \E i \in 1..n : m[i] = k
    <3>1. CASE k = n + 1
      <4>1. ~late /\ n \in 1..n /\ m[n] = k
        BY <1>0, <2>3, <3>1
      <4> QED
        BY <4>1
    <3>2. CASE k # n + 1
      <4>1. k \in 1..n
        BY <3>2
      <4>2. late \/ k < n
        BY <2>3, <4>1
      <4>3. m[k] = k
        BY <4>1, <4>2
      <4> QED
        BY <4>1, <4>3
    <3> QED
      BY <3>1, <3>2
  <2> QED
    BY <1>1, <2>1, <2>2, <2>3
<1>3. \A i \in 1..n : late \/ i < n => m[i] < p
  BY <1>0
<1> HIDE DEF m, p
<1>5. Once(s2)
  <2> SUFFICES ASSUME NEW k \in 1..Len(s2), NEW l \in 1..Len(s2), s2[k] = s2[l] PROVE k = l
    BY DEF Once
  <2>0. \A i \in 1..n : s2[m[i]] # row
    BY <1>0, <1>1 DEF Elems
  <2>4. \A i \in 1..Len(s2) : s2[i] = row <=> i = p
    BY <1>1, <1>2, <2>0
  <2>1. CASE k = p
    BY <2>1, <2>4
  <2>2. CASE l = p
    BY <2>2, <2>4
  <2>3. CASE k # p /\ l # p
    <3>1. PICK i \in 1..n, j \in 1..n : m[i] = k /\ m[j] = l
      BY <1>2, <2>3
    <3>2. s[i] = s[j]
      BY <1>1, <3>1
    <3>3. i = j
      BY <1>0, <3>2 DEF Once
    <3> QED
      BY <3>1, <3>3
  <2> QED
    BY <2>1, <2>2, <2>3
<1>6. \A a, b \in Elems(s) : Precedes(s2, a, b) <=> Precedes(s, a, b)
  BY <1>0, <1>1, <1>2, <1>5, Embeds
<1>7. Elems(s2) = Elems(s) \cup {row}
  <2>1. ASSUME NEW k \in 1..Len(s2) PROVE s2[k] \in Elems(s) \cup {row}
    <3>1. CASE k = p
      BY <1>1, <3>1
    <3>2. CASE k # p
      <4>1. PICK i \in 1..n : m[i] = k
        BY <1>2, <3>2
      <4>2. s2[k] = s[i]
        BY <1>1, <4>1
      <4> QED
        BY <1>0, <4>2 DEF Elems
    <3> QED
      BY <3>1, <3>2
  <2>2. ASSUME NEW i \in 1..n PROVE s[i] \in Elems(s2)
    BY <1>1, <1>2 DEF Elems
  <2>3. row \in Elems(s2)
    BY <1>1, <1>2 DEF Elems
  <2>4. Elems(s2) \subseteq Elems(s) \cup {row}
    BY <2>1 DEF Elems
  <2>5. Elems(s) \subseteq Elems(s2)
    BY <1>0, <2>2 DEF Elems
  <2> QED
    BY <2>3, <2>4, <2>5
<1>8. ASSUME NEW a \in Elems(s), ~(~late /\ a = s[Len(s)]) PROVE Precedes(s2, a, row)
  <2>1. PICK i \in 1..n : s[i] = a
    BY <1>0 DEF Elems
  <2>2. late \/ i < n
    <3>1. CASE late
      BY <3>1
    <3>2. CASE ~late
      <4>1. i # n
        BY <1>0, <1>8, <2>1, <3>2
      <4> QED
        BY <4>1
    <3> QED
      BY <3>1, <3>2
  <2>3. m[i] < p /\ s2[m[i]] = a /\ m[i] \in 1..Len(s2)
    BY <1>1, <1>2, <1>3, <2>1, <2>2
  <2> QED
    BY <1>1, <1>2, <2>3 DEF Precedes
<1> QED
  BY <1>1, <1>5, <1>6, <1>7, <1>8

\* The rows at some positions, in their order.
Pick(s, P) == [k \in 1..Cardinality(P) |-> s[Nth(P, k)]]

LEMMA PickIs ==
  ASSUME NEW R, NEW s \in Seq(R), Once(s), NEW P \in SUBSET (1..Len(s)), NEW s2, s2 = Pick(s, P)
  PROVE  /\ s2 \in Seq(R) /\ Once(s2)
         /\ Elems(s2) = {s[i] : i \in P}
         /\ \A a, b \in Elems(s2) : Precedes(s2, a, b) <=> Precedes(s, a, b)
<1> DEFINE c == Cardinality(P)
           m == [k \in 1..c |-> Nth(P, k)]
<1>1. P \in SUBSET Nat /\ IsFiniteSet(P) /\ Len(s) \in Nat /\ \A i \in 1..Len(s) : s[i] \in R
  <2>1. IsFiniteSet(1..Len(s))
    BY FS_Interval
  <2>2. IsFiniteSet(P)
    BY <2>1, FS_Subset
  <2> QED
    BY <2>2
<1>2. /\ c \in Nat /\ \A k \in 1..c : Nth(P, k) \in P /\ Rank(P, Nth(P, k)) = k
      /\ \A i \in P : Rank(P, i) \in 1..c /\ Nth(P, Rank(P, i)) = i
  BY <1>1, NthIs
<1>3. m \in [1..c -> 1..Len(s)] /\ \A k \in 1..c : m[k] \in P /\ m[k] = Nth(P, k)
  BY <1>2
<1>4. \A k, l \in 1..c : k < l => m[k] < m[l]
  <2> SUFFICES ASSUME NEW k \in 1..c, NEW l \in 1..c, k < l PROVE Nth(P, k) < Nth(P, l)
    BY <1>3
  <2>1. Nth(P, k) \in P /\ Nth(P, l) \in P
    BY <1>2
  <2>2. Nth(P, k) \in Nat /\ Nth(P, l) \in Nat
    BY <1>1, <2>1
  <2>3. k \in Nat /\ l \in Nat /\ Rank(P, Nth(P, k)) = k /\ Rank(P, Nth(P, l)) = l
    BY <1>2
  <2>4. Nth(P, k) # Nth(P, l)
    BY <2>3
  <2>5. ~(Nth(P, l) < Nth(P, k))
    <3> SUFFICES ASSUME Nth(P, l) < Nth(P, k) PROVE FALSE
      OBVIOUS
    <3>1. Rank(P, Nth(P, l)) < Rank(P, Nth(P, k))
      BY <1>1, <2>1, RankGrows
    <3> QED
      BY <2>3, <3>1
  <2> QED
    BY <2>2, <2>4, <2>5
<1>5. s2 \in Seq(R) /\ Len(s2) = c /\ \A k \in 1..c : s2[k] = s[Nth(P, k)]
  <2>1. \A k \in 1..c : s[Nth(P, k)] \in R
    BY <1>1, <1>2
  <2>2. s2 = [k \in 1..c |-> s[Nth(P, k)]]
    BY DEF Pick
  <2> HIDE DEF c
  <2>3. s2 \in [1..c -> R]
    BY <2>1, <2>2
  <2>4. s2 \in Seq(R) /\ Len(s2) = c
    BY <1>2, <2>3
  <2> QED
    BY <2>2, <2>4
<1> HIDE DEF m, c
<1>6. Once(s2) /\ \A a, b \in Elems(s2) : Precedes(s2, a, b) <=> Precedes(s, a, b)
  <2>1. m \in [1..Len(s2) -> 1..Len(s)] /\ \A i \in 1..Len(s2) : s[m[i]] = s2[i]
    BY <1>3, <1>5
  <2>2. \A i, j \in 1..Len(s2) : i < j => m[i] < m[j]
    BY <1>4, <1>5
  <2> QED
    BY <1>5, <2>1, <2>2, Embeds
<1>7. ASSUME NEW k \in 1..Len(s2) PROVE s2[k] \in {s[i] : i \in P}
  BY <1>2, <1>5
<1>8. ASSUME NEW i \in P PROVE s[i] \in Elems(s2)
  <2>1. s2[Rank(P, i)] = s[i] /\ Rank(P, i) \in 1..Len(s2)
    BY <1>2, <1>5
  <2> QED
    BY <2>1 DEF Elems
<1>9. Elems(s2) = {s[i] : i \in P}
  BY <1>7, <1>8 DEF Elems
<1> QED
  BY <1>5, <1>6, <1>9

-----------------------------------------------------------------------------
(* What the steps do to a turn *)

Pcs == {"idle", "retrieve", "decide", "send", "generate", "count"} \cup Writing \cup Ended

Rows == [turn : Turns, role : {"user", "assistant"}]

\* One turn changes, the others stay.
Changed(t) == turn' \in [Turns -> TurnState] /\ \A u \in Turns \ {t} : turn'[u] = turn[u]

LEMMA BecomesIs ==
  ASSUME turn \in [Turns -> TurnState], NEW t \in Turns, NEW row \in TurnState, Becomes(t, row)
  PROVE  Changed(t) /\ turn'[t] = row
BY DEF Becomes, Changed

\* The request a turn answers and what it read when it began.
SameRequest(r, n) ==
  /\ n.kind = r.kind /\ n.thread = r.thread /\ n.question = r.question
  /\ n.threshold = r.threshold /\ n.prompt = r.prompt

SameReply(r, n) == n.text = r.text /\ n.evidence = r.evidence /\ n.tokens = r.tokens

SameHistory(r, n) == n.window = r.window /\ n.history = r.history /\ n.answered = r.answered

LEMMA PcTo ==
  ASSUME NEW r \in TurnState, NEW pc \in Pcs, NEW n, n = [r EXCEPT !.pc = pc]
  PROVE  /\ n \in TurnState /\ n.pc = pc /\ n.worker = r.worker /\ n.opens = r.opens
         /\ SameRequest(r, n) /\ SameReply(r, n) /\ SameHistory(r, n)
BY DEF TurnState, Pcs, SameRequest, SameReply, SameHistory

LEMMA EmptyHistory == <<>> \in Seq([asked : Turns, replied : Turns])
OBVIOUS

LEMMA LeftIs ==
  ASSUME TypeOK, NEW t \in Turns, NEW pc \in Pcs
  PROVE  LET n == Left(t, pc) IN
         /\ n \in TurnState /\ n.pc = pc /\ n.answered = {} /\ n.worker = Unset
         /\ SameRequest(turn[t], n) /\ SameReply(turn[t], n)
<1>1. turn[t] \in TurnState
  BY DEF TypeOK
<1> DEFINE n == Left(t, pc)
<1>2. n \in TurnState
  BY <1>1, EmptyHistory DEF Left, TurnState, Pcs
<1>3. n.pc = pc /\ n.answered = {} /\ n.worker = Unset
  BY <1>1 DEF Left, TurnState
<1>4. SameRequest(turn[t], n)
  BY <1>1 DEF Left, TurnState, SameRequest
<1>5. SameReply(turn[t], n)
  BY <1>1 DEF Left, TurnState, SameReply
<1> QED
  BY <1>2, <1>3, <1>4, <1>5

LEMMA CountedIs ==
  ASSUME TypeOK, NEW t \in Turns, NEW rate \in BOOLEAN
  PROVE  LET n == [Done(t) EXCEPT !.rate = rate] IN
         /\ n \in TurnState /\ n.pc = "done" /\ n.answered = {} /\ n.rate = rate
         /\ n.worker = Unset
         /\ SameRequest(turn[t], n) /\ SameReply(turn[t], n)
<1> DEFINE d == Done(t)
<1>1. d = Left(t, "done") /\ "done" \in Pcs
  BY DEF Done, Pcs, Ended
<1>2. d \in TurnState /\ d.pc = "done" /\ d.answered = {} /\ d.worker = Unset
      /\ SameRequest(turn[t], d) /\ SameReply(turn[t], d)
  BY <1>1, LeftIs
<1> HIDE DEF d
<1>3. LET n == [d EXCEPT !.rate = rate] IN
      /\ n \in TurnState /\ n.pc = "done" /\ n.answered = {} /\ n.rate = rate
      /\ n.worker = Unset
      /\ SameRequest(turn[t], n) /\ SameReply(turn[t], n)
  BY <1>2 DEF TurnState, SameRequest, SameReply
<1> QED
  BY <1>3 DEF d

LEMMA LostIs ==
  ASSUME NEW pc \in Pcs
  PROVE  LET n == Lost(pc) IN
         /\ n \in TurnState /\ n.pc = pc /\ n.answered = {} /\ n.worker = Unset
         /\ n.kind = "ask" /\ n.thread = Unset /\ n.text = Unset
BY EmptyHistory DEF Lost, Idle, TurnState, Pcs, Kinds, Texts

LEMMA OrderTyped ==
  ASSUME TypeOK
  PROVE  /\ order \in Seq(Rows) /\ Len(order) \in Nat /\ IsFiniteSet(1..Len(order))
         /\ \A i \in 1..Len(order) : order[i] \in Rows /\ order[i].turn \in Turns
<1>1. order \in Seq(Rows)
  BY DEF TypeOK, Rows
<1>2. Len(order) \in Nat /\ \A i \in 1..Len(order) : order[i] \in Rows
  BY <1>1
<1>3. IsFiniteSet(1..Len(order))
  BY <1>2, FS_Interval
<1> QED
  BY <1>1, <1>2, <1>3 DEF Rows

LEMMA PairsTyped ==
  ASSUME TypeOK, NEW th
  PROVE  LET R == Replies(Messages(th)) IN
         /\ R \in SUBSET (1..Len(order)) /\ IsFiniteSet(R) /\ Cardinality(R) \in Nat
         /\ Pairs(th) \in Seq([asked : Turns, replied : Turns])
         /\ Len(Pairs(th)) = Cardinality(R)
<1> DEFINE M == Messages(th)
           R == Replies(M)
           c == Cardinality(R)
           Asker(i) == CHOOSE j \in Pending(M, i) : TRUE
           Pair(i) == [asked |-> order[Asker(i)].turn, replied |-> order[i].turn]
<1>1. M \in SUBSET (1..Len(order)) /\ R \in SUBSET (1..Len(order)) /\ R \in SUBSET Nat
  BY OrderTyped DEF Messages, Replies
<1>2. IsFiniteSet(R) /\ c \in Nat
  <2> HIDE DEF R
  <2>1. IsFiniteSet(R)
    BY <1>1, OrderTyped, FS_Subset
  <2> QED
    BY <2>1, FS_CardinalityType
<1>3. \A k \in 1..c : Nth(R, k) \in R
  <2> HIDE DEF R
  <2> QED
    BY <1>1, <1>2, NthIs
<1>4. ASSUME NEW i \in R PROVE Pair(i) \in [asked : Turns, replied : Turns]
  <2>1. Pending(M, i) # {} /\ i \in M
    BY DEF Replies
  <2>2. Asker(i) \in Pending(M, i)
    BY <2>1
  <2>3. Asker(i) \in 1..Len(order) /\ i \in 1..Len(order)
    BY <1>1, <2>1, <2>2 DEF Pending
  <2> QED
    BY <2>3, OrderTyped
<1>5. Pairs(th) = [k \in 1..c |-> Pair(Nth(R, k))]
  BY DEF Pairs
<1> HIDE DEF R, c, Pair
<1>6. Pairs(th) \in [1..c -> [asked : Turns, replied : Turns]]
  BY <1>3, <1>4, <1>5
<1>7. Pairs(th) \in Seq([asked : Turns, replied : Turns]) /\ Len(Pairs(th)) = c
  <2> DEFINE s == Pairs(th)
             T == [asked : Turns, replied : Turns]
  <2>1. s \in [1..c -> T]
    BY <1>6
  <2> HIDE DEF s, T
  <2>2. s \in Seq(T) /\ Len(s) = c
    BY <1>2, <2>1
  <2> QED
    BY <2>2 DEF s, T
<1> QED
  BY <1>1, <1>2, <1>7 DEF R, M, c

LEMMA LastOfIs ==
  ASSUME NEW S, NEW s \in Seq(S), NEW n \in Nat
  PROVE  /\ LastOf(s, n) \in Seq(S) /\ LastOf(s, 0) = <<>>
         /\ Len(LastOf(s, n)) # n => LastOf(s, n) = s
<1>1. Len(s) \in Nat
  OBVIOUS
<1> DEFINE Goal == LastOf(s, n) \in Seq(S) /\ (Len(LastOf(s, n)) # n => LastOf(s, n) = s)
<1>2. ASSUME n < Len(s) PROVE Goal
  <2>1. LastOf(s, n) = SubSeq(s, Len(s) - n + 1, Len(s))
    BY <1>2 DEF LastOf
  <2>2. Len(s) - n + 1 \in 1..Len(s) + 1
    BY <1>1, <1>2
  <2>3. LastOf(s, n) \in Seq(S) /\ Len(LastOf(s, n)) = Len(s) - (Len(s) - n + 1) + 1
    BY <1>1, <2>1, <2>2, SubSeqProperties
  <2>4. Len(LastOf(s, n)) = n
    BY <1>1, <2>3
  <2> QED
    BY <2>3, <2>4
<1>3. ASSUME ~(n < Len(s)) PROVE Goal
  BY <1>3 DEF LastOf
<1>4. LastOf(s, 0) = <<>>
  <2>1. CASE Len(s) = 0
    <3>1. s = <<>>
      BY <2>1, EmptySeq
    <3> QED
      BY <2>1, <3>1 DEF LastOf
  <2>2. CASE Len(s) # 0
    <3>1. LastOf(s, 0) = SubSeq(s, Len(s) + 1, Len(s))
      BY <1>1, <2>2 DEF LastOf
    <3>2. Len(s) + 1 \in 1..Len(s) + 1
      BY <1>1
    <3>3. LastOf(s, 0) \in Seq(S) /\ Len(LastOf(s, 0)) = Len(s) - (Len(s) + 1) + 1
      BY <1>1, <3>1, <3>2, SubSeqProperties
    <3> QED
      BY <1>1, <3>3, EmptySeq
  <2> QED
    BY <2>1, <2>2
<1> QED
  BY <1>2, <1>3, <1>4

LEMMA HistoryTyped ==
  ASSUME TypeOK, NEW th, NEW n \in Nat
  PROVE  LoadRecentTurns(th, n) \in Seq([asked : Turns, replied : Turns])
<1>1. LastOf(Pairs(th), n) \in Seq([asked : Turns, replied : Turns])
  BY PairsTyped, LastOfIs
<1> QED
  BY <1>1, EmptyHistory DEF LoadRecentTurns

LEMMA BeginDoes ==
  ASSUME TypeOK, NEW t \in Turns, NEW k \in Kinds, NEW w \in Workers \cup {Unset},
         NEW th \in Threads \cup {Unset}, NEW q \in Questions, Begin(t, k, w, th, q)
  PROVE  /\ turn[t].pc = "idle" /\ Changed(t) /\ UNCHANGED <<outer, rows, cache, usage>>
         /\ turn'[t].pc = "retrieve" /\ turn'[t].kind = k /\ turn'[t].thread = th
         /\ turn'[t].text = Unset /\ turn'[t].window = settings.window
         /\ turn'[t].question \in Questions /\ turn'[t].prompt \in Prompts
         /\ turn'[t].history = IF k = "call" THEN <<>> ELSE LoadRecentTurns(th, settings.window)
         /\ turn'[t].answered = {u \in Turns : turn[u].pc = "done" /\ turn[u].thread = th
                                               /\ turn[u].kind # "call"}
<1> DEFINE answered == {u \in Turns : turn[u].pc = "done" /\ turn[u].thread = th
                                      /\ turn[u].kind # "call"}
           history == IF k = "call" THEN <<>> ELSE LoadRecentTurns(th, settings.window)
           n == [Idle EXCEPT !.pc = "retrieve", !.kind = k, !.worker = w, !.thread = th,
                   !.question = q, !.threshold = settings.threshold, !.prompt = prompt,
                   !.window = settings.window, !.history = history, !.answered = answered]
<1>1. settings.threshold \in Nat /\ settings.window \in Nat /\ prompt \in Prompts
  BY ChatAssumption DEF TypeOK
<1>2. history \in Seq([asked : Turns, replied : Turns]) /\ answered \in SUBSET Turns
  BY <1>1, EmptyHistory, HistoryTyped
<1>3. Becomes(t, n) /\ turn[t].pc = "idle" /\ UNCHANGED <<outer, rows, cache, usage>>
  BY DEF Begin
<1> HIDE DEF answered, history
<1> DEFINE one == [Idle EXCEPT !.pc = "retrieve", !.kind = k, !.worker = w, !.thread = th]
           two == [one EXCEPT !.question = q, !.threshold = settings.threshold, !.prompt = prompt]
<1>8. one \in TurnState /\ one.pc = "retrieve" /\ one.kind = k /\ one.thread = th
      /\ one.text = Unset
  <2>1. Idle \in TurnState
    BY EmptyHistory DEF Idle, TurnState, Kinds, Texts
  <2>2. Idle.text = Unset
    BY DEF Idle
  <2> DEFINE half == [Idle EXCEPT !.pc = "retrieve", !.kind = k]
  <2>3. half \in TurnState
    BY <2>1 DEF TurnState
  <2>4. half.pc = "retrieve" /\ half.kind = k /\ half.text = Unset
    BY <2>2 DEF Idle
  <2>5. one = [half EXCEPT !.worker = w, !.thread = th]
    OBVIOUS
  <2> HIDE DEF half, one
  <2>6. one \in TurnState
    BY <2>3, <2>5 DEF TurnState
  <2> QED
    BY <2>3, <2>4, <2>5, <2>6 DEF TurnState
<1>9. two \in TurnState /\ two.pc = "retrieve" /\ two.kind = k /\ two.thread = th
      /\ two.text = Unset /\ two.question = q /\ two.prompt = prompt
  <2> HIDE DEF one
  <2> DEFINE half == [one EXCEPT !.question = q, !.threshold = settings.threshold]
  <2>1. half \in TurnState
    <3>1. one \in TurnState /\ settings.threshold \in Nat /\ q \in Questions
      BY <1>1, <1>8
    <3> QED
      BY <3>1 DEF TurnState
  <2>2. two = [half EXCEPT !.prompt = prompt]
    OBVIOUS
  <2>3. half.pc = "retrieve" /\ half.kind = k /\ half.thread = th /\ half.text = Unset
        /\ half.question = q
    BY <1>8 DEF TurnState
  <2> HIDE DEF half, two
  <2>4. two \in TurnState
    BY <1>1, <2>1, <2>2 DEF TurnState
  <2> QED
    BY <2>1, <2>2, <2>3, <2>4 DEF TurnState
<1>4. n = [two EXCEPT !.window = settings.window, !.history = history, !.answered = answered]
  OBVIOUS
<1> HIDE DEF n, two
<1>5. n \in TurnState
  BY <1>1, <1>2, <1>4, <1>9 DEF TurnState
<1>6. Changed(t) /\ turn'[t] = n
  BY <1>3, <1>5, BecomesIs DEF TypeOK
<1>7. /\ n.pc = "retrieve" /\ n.kind = k /\ n.thread = th /\ n.text = Unset
      /\ n.question = q /\ n.prompt = prompt
      /\ n.window = settings.window /\ n.history = history /\ n.answered = answered
  BY <1>4, <1>9 DEF TurnState
<1> QED
  BY <1>1, <1>3, <1>6, <1>7 DEF history, answered

LEMMA PcsAre ==
  Pcs = {"idle", "retrieve", "decide", "send", "generate", "count", "lookup", "insert", "user",
         "assistant", "commit", "done", "failed", "gone"}
BY DEF Pcs, Writing, Ended

\* A turn enters the part between answer and commit when its worker's loop is free.
Alone(t) == turn'[t].pc \in Writing => Free(t) /\ turn'[t].worker = turn[t].worker

Begins(t) ==
  /\ turn[t].pc = "idle" /\ Changed(t) /\ turn'[t].pc = "retrieve"
  /\ turn'[t].text = Unset
  /\ turn'[t].question \in Questions /\ turn'[t].prompt \in Prompts
  /\ IF turn'[t].kind = "call" THEN turn'[t].thread = Unset ELSE turn'[t].thread \in Threads
  /\ turn'[t].window \in Nat
  /\ turn'[t].history = IF turn'[t].kind = "call" THEN <<>>
                        ELSE LoadRecentTurns(turn'[t].thread, settings.window)
  /\ turn'[t].window = settings.window
  /\ turn'[t].answered = {u \in Turns : turn[u].pc = "done" /\ turn[u].thread = turn'[t].thread
                                         /\ turn[u].kind # "call"}
  /\ UNCHANGED <<outer, rows, cache, usage>>

Looks(t) ==
  /\ turn[t].pc \in {"retrieve", "decide"} /\ Changed(t)
  /\ turn'[t].pc \in {"decide", "generate"} /\ turn'[t].text = turn[t].text
  /\ turn'[t].pc = "generate" => Enough(t, turn'[t].evidence)
  /\ SameRequest(turn[t], turn'[t]) /\ SameHistory(turn[t], turn'[t])
  /\ UNCHANGED <<outer, rows, cache, usage>>

Gets(t, e, text, tokens) ==
  /\ Changed(t) /\ Alone(t)
  /\ IF turn[t].kind = "call" THEN turn'[t].pc = "done" ELSE turn'[t].pc \in {"send", "lookup"}
  /\ turn'[t].evidence = e /\ turn'[t].text = text /\ turn'[t].tokens = tokens
  /\ SameRequest(turn[t], turn'[t]) /\ SameHistory(turn[t], turn'[t])
  /\ UNCHANGED <<outer, rows, usage>>

Declines(t) ==
  /\ turn[t].pc = "decide" /\ UNCHANGED cache
  /\ \E e \in Packs \cup {NoEvidence} : Gets(t, e, Declined, FALSE)

Hits(t) ==
  /\ turn[t].pc = "decide" /\ UNCHANGED cache
  /\ \E e \in Packs \cup {NoEvidence} :
       LET key == Key(turn[t].question, turn[t].prompt, e) IN
       Enough(t, e) /\ key \in DOMAIN cache /\ Gets(t, e, cache[key], FALSE)

Generates(t) ==
  /\ turn[t].pc = "generate"
  /\ \E text \in Texts, tokens \in BOOLEAN :
       /\ Gets(t, turn[t].evidence, text, tokens) /\ Generate(t, text, tokens)

GetsReply(t) == Declines(t) \/ Hits(t) \/ Generates(t)

Moves(t) ==
  /\ turn[t].pc \in {"send", "lookup", "insert"} /\ Changed(t) /\ Alone(t)
  /\ turn'[t].pc \in {"lookup", "insert", "user"}
  /\ SameRequest(turn[t], turn'[t]) /\ SameReply(turn[t], turn'[t])
  /\ SameHistory(turn[t], turn'[t])
  /\ UNCHANGED <<outer, rows, cache, usage>>

Drops(t) ==
  /\ turn[t].pc \in {"retrieve", "decide", "send", "generate", "insert"} /\ Changed(t)
  /\ turn'[t].pc \in {"failed", "gone"} /\ turn'[t].answered = {}
  /\ turn'[t].kind = "ask" /\ turn'[t].thread = Unset /\ turn'[t].text = Unset
  /\ UNCHANGED <<outer, rows, cache, usage>>

Stamps(t, role, late) ==
  /\ turn[t].pc = (IF role = "user" THEN "user" ELSE "assistant") /\ Changed(t) /\ Alone(t)
  /\ turn'[t].pc = IF role = "user" THEN "assistant" ELSE "commit"
  /\ SameRequest(turn[t], turn'[t]) /\ SameReply(turn[t], turn'[t])
  /\ SameHistory(turn[t], turn'[t])
  /\ order' = Put(order, Row(t, role), late) /\ (late \/ role = "assistant" \/ order # <<>>)
  /\ raced' = IF \/ \E u \in Peers(t) : turn[u].pc = "assistant"
                 \/ ~late /\ turn[Last(order).turn].thread = turn[t].thread
              THEN raced \cup {turn[t].thread} ELSE raced
  /\ UNCHANGED <<outer, threads, stored, cache, usage>>

Commits(t) ==
  /\ turn[t].pc = "commit" /\ Changed(t)
  /\ turn'[t].pc = IF turn[t].kind = "ask" THEN "count" ELSE "done"
  /\ SameRequest(turn[t], turn'[t]) /\ SameReply(turn[t], turn'[t])
  /\ SameHistory(turn[t], turn'[t]) \/ turn'[t].answered = {}
  /\ threads' = threads \cup {turn[t].thread} /\ stored' = stored \cup {t}
  /\ UNCHANGED <<outer, order, raced, cache, usage>>

Counts(t) ==
  /\ turn[t].pc = "count" /\ Changed(t) /\ turn'[t].pc = "done" /\ turn'[t].answered = {}
  /\ SameRequest(turn[t], turn'[t]) /\ SameReply(turn[t], turn'[t])
  /\ turn'[t].rate = (turn[t].worker \in rated)
  /\ usage' = IF turn[t].tokens THEN Accumulate(t) ELSE usage
  /\ UNCHANGED <<outer, rows, cache>>

TurnStep(t) ==
  \/ Begins(t) \/ Looks(t) \/ GetsReply(t) \/ Moves(t) \/ Drops(t)
  \/ \E role \in {"user", "assistant"}, late \in BOOLEAN : Stamps(t, role, late)
  \/ Commits(t) \/ Counts(t)

-----------------------------------------------------------------------------
(* What holds at every stage of a turn *)

\* A turn that began has a question, and asks the LLM with evidence that is enough.
Asked(t) ==
  /\ turn[t].pc \notin {"idle", "failed", "gone"} =>
       turn[t].question \in Questions /\ turn[t].prompt \in Prompts
  /\ turn[t].pc = "generate" => Enough(t, turn[t].evidence)
  /\ turn[t].pc \in {"idle", "retrieve", "decide", "generate"} => turn[t].text = Unset

\* Where a turn stands, and which of its rows are in the table.
Stage(t) ==
  /\ turn[t].kind = "call" => turn[t].pc \in {"retrieve", "decide", "generate", "done"}
  /\ turn[t].kind # "call" /\ turn[t].pc \notin {"idle", "failed", "gone"} =>
       turn[t].thread \in Threads
  /\ t \in stored => turn[t].pc \in {"count", "done", "gone"} /\ turn[t].thread \in Threads
                     /\ turn[t].kind # "call"
  /\ turn[t].pc = "count" => t \in stored /\ turn[t].kind = "ask"
  /\ turn[t].pc = "done" /\ turn[t].kind # "call" => t \in stored

RowsIn(t) ==
  /\ Row(t, "user") \in Elems(order) <=> turn[t].pc \in {"assistant", "commit"} \/ t \in stored
  /\ Row(t, "assistant") \in Elems(order) <=> turn[t].pc = "commit" \/ t \in stored

Base ==
  /\ TypeOK
  /\ Once(order)
  /\ \A t \in Turns : Asked(t) /\ Stage(t) /\ RowsIn(t)

LEMMA FailsDoes ==
  ASSUME TypeOK, NEW t \in Turns, NEW pc \in {"failed", "gone"}, Becomes(t, Lost(pc)),
         turn[t].pc \in {"retrieve", "decide", "send", "generate", "insert"},
         UNCHANGED <<outer, rows, cache, usage>>
  PROVE  Drops(t)
<1> DEFINE n == Lost(pc)
<1>1. pc \in Pcs
  BY PcsAre
<1>2. /\ n \in TurnState /\ n.pc = pc /\ n.answered = {} /\ n.kind = "ask"
      /\ n.thread = Unset /\ n.text = Unset
  BY <1>1, LostIs
<1> HIDE DEF n
<1>3. Changed(t) /\ turn'[t] = n
  BY <1>2, BecomesIs DEF TypeOK, n
<1> QED
  BY <1>2, <1>3 DEF Drops

LEMMA LooksDoes ==
  ASSUME TypeOK, NEW t \in Turns, Asked(t), NEW e \in Packs \cup {NoEvidence},
         Retrieve(t) \/ CacheMiss(t, e)
  PROVE  Looks(t)
<1>0. turn[t] \in TurnState /\ turn \in [Turns -> TurnState]
  BY DEF TypeOK
<1>1. ASSUME NEW f \in Packs \cup {NoEvidence}, NEW pc \in {"decide", "generate"},
             Becomes(t, [turn[t] EXCEPT !.pc = pc, !.evidence = f]),
             turn[t].pc \in {"retrieve", "decide"}, pc = "generate" => Enough(t, f),
             UNCHANGED <<outer, rows, cache, usage>>
      PROVE  Looks(t)
  <2> DEFINE n == [turn[t] EXCEPT !.pc = pc, !.evidence = f]
  <2>1. pc \in Pcs
    BY PcsAre
  <2>2. /\ n \in TurnState /\ n.pc = pc /\ n.evidence = f /\ n.text = turn[t].text
        /\ SameRequest(turn[t], n) /\ SameHistory(turn[t], n)
    <3>1. n \in TurnState
      BY <1>0, <2>1 DEF TurnState, Pcs
    <3>2. n.pc = pc /\ n.evidence = f /\ n.text = turn[t].text
      BY <1>0 DEF TurnState
    <3>3. SameRequest(turn[t], n) /\ SameHistory(turn[t], n)
      BY <1>0 DEF TurnState, SameRequest, SameHistory
    <3> QED
      BY <3>1, <3>2, <3>3
  <2> HIDE DEF n
  <2>3. Changed(t) /\ turn'[t] = n
    BY <1>0, <1>1, <2>2, BecomesIs DEF n
  <2> QED
    BY <1>1, <2>2, <2>3 DEF Looks
<1>2. CASE Retrieve(t)
  <2>1. turn[t].pc = "retrieve" /\ UNCHANGED <<outer, rows, cache, usage>>
        /\ Becomes(t, [turn[t] EXCEPT !.pc = "decide", !.evidence = corpus[turn[t].question]])
    BY <1>2 DEF Retrieve, At
  <2>2. corpus[turn[t].question] \in Packs \cup {NoEvidence}
    BY <2>1 DEF TypeOK, Asked
  <2> QED
    BY <1>1, <2>1, <2>2
<1>3. CASE CacheMiss(t, e)
  BY <1>1, <1>3 DEF CacheMiss, At
<1> QED
  BY <1>2, <1>3

\* A reply arrives at pc; a call returns it.
LEMMA AnsweredDoes ==
  ASSUME TypeOK, NEW t \in Turns, NEW pc \in {"send", "lookup"}, NEW e \in Packs \cup {NoEvidence},
         NEW text \in Texts, NEW tokens \in BOOLEAN, Answered(t, pc, e, text, tokens), Free(t),
         UNCHANGED <<outer, rows, usage>>
  PROVE  Gets(t, e, text, tokens)
<1> DEFINE to == IF turn[t].kind = "call" THEN "done" ELSE pc
           n == [turn[t] EXCEPT !.pc = to, !.evidence = e, !.text = text, !.tokens = tokens]
<1>0. turn[t] \in TurnState /\ turn \in [Turns -> TurnState] /\ to \in Pcs
  BY PcsAre DEF TypeOK
<1>1. Becomes(t, n)
  BY DEF Answered
<1> HIDE DEF to
<1>2. /\ n \in TurnState /\ n.pc = to /\ n.evidence = e /\ n.text = text /\ n.tokens = tokens
      /\ n.worker = turn[t].worker /\ SameRequest(turn[t], n) /\ SameHistory(turn[t], n)
  <2>1. n \in TurnState
    <3> DEFINE one == [turn[t] EXCEPT !.pc = to, !.evidence = e]
    <3>1. one \in TurnState
      <4> DEFINE half == [turn[t] EXCEPT !.pc = to]
      <4>1. half \in TurnState
        BY <1>0 DEF TurnState, Pcs
      <4>2. one = [half EXCEPT !.evidence = e]
        OBVIOUS
      <4> HIDE DEF half, one
      <4> QED
        BY <4>1, <4>2 DEF TurnState
    <3>2. n = [one EXCEPT !.text = text, !.tokens = tokens]
      OBVIOUS
    <3> HIDE DEF one, n
    <3> QED
      BY <3>1, <3>2 DEF TurnState
  <2>2. n.pc = to /\ n.evidence = e /\ n.text = text /\ n.worker = turn[t].worker
    BY <1>0 DEF TurnState
  <2>3. n.tokens = tokens
    BY <1>0 DEF TurnState
  <2>4. SameRequest(turn[t], n) /\ SameHistory(turn[t], n)
    BY <1>0 DEF TurnState, SameRequest, SameHistory
  <2> QED
    BY <2>1, <2>2, <2>3, <2>4
<1> HIDE DEF n
<1>3. Changed(t) /\ turn'[t] = n
  BY <1>0, <1>1, <1>2, BecomesIs
<1>4. IF turn[t].kind = "call" THEN to = "done" ELSE to \in {"send", "lookup"}
  BY DEF to
<1> QED
  BY <1>2, <1>3, <1>4 DEF Gets, Alone

LEMMA EarlyDoes ==
  ASSUME TypeOK, NEW t \in Turns, NEW e \in Packs \cup {NoEvidence}, NEW text \in Texts,
         Early(t, e, text), Free(t), UNCHANGED <<outer, rows, usage>>
  PROVE  Gets(t, e, text, FALSE)
<1> DEFINE pc == IF turn[t].kind = "stream" THEN "send" ELSE "lookup"
<1>1. pc \in {"send", "lookup"}
  OBVIOUS
<1>2. Answered(t, pc, e, text, FALSE)
  BY DEF Early
<1> HIDE DEF pc
<1> QED
  BY <1>1, <1>2, AnsweredDoes

LEMMA RepliesDo ==
  ASSUME TypeOK, NEW t \in Turns, NEW e \in Packs \cup {NoEvidence},
         NEW text \in Texts, NEW tokens \in BOOLEAN,
         Decline(t, e) \/ CacheHit(t, e) \/ Generate(t, text, tokens)
  PROVE  GetsReply(t)
<1>1. CASE Decline(t, e)
  <2>1. turn[t].pc = "decide" /\ Free(t) /\ Early(t, e, Declined)
        /\ UNCHANGED <<outer, rows, cache, usage>>
    BY <1>1 DEF Decline, At
  <2>2. Gets(t, e, Declined, FALSE)
    BY <2>1, EarlyDoes DEF Texts
  <2> QED
    BY <2>1, <2>2 DEF GetsReply, Declines
<1>2. CASE CacheHit(t, e)
  <2> DEFINE key == Key(turn[t].question, turn[t].prompt, e)
  <2>1. turn[t].pc = "decide" /\ Free(t) /\ Early(t, e, cache[key]) /\ key \in DOMAIN cache
        /\ Enough(t, e) /\ UNCHANGED <<outer, rows, cache, usage>>
    BY <1>2 DEF CacheHit, At
  <2>2. cache[key] \in Texts
    BY <2>1 DEF Texts, TypeOK
  <2> HIDE DEF key
  <2>3. Gets(t, e, cache[key], FALSE)
    BY <2>1, <2>2, EarlyDoes
  <2> QED
    BY <2>1, <2>3 DEF GetsReply, Hits, key
<1>3. CASE Generate(t, text, tokens)
  <2>1. turn[t].pc = "generate" /\ Free(t) /\ UNCHANGED <<outer, rows, usage>>
        /\ Answered(t, "lookup", turn[t].evidence, text, tokens)
    BY <1>3 DEF Generate, At
  <2>2. turn[t].evidence \in Packs \cup {NoEvidence}
    BY DEF TypeOK, TurnState
  <2>3. Gets(t, turn[t].evidence, text, tokens)
    BY <2>1, <2>2, AnsweredDoes
  <2> QED
    BY <1>3, <2>1, <2>3 DEF GetsReply, Generates
<1> QED
  BY <1>1, <1>2, <1>3

\* A turn goes to pc, the rest as it is.
LEMMA GoesDoes ==
  ASSUME TypeOK, NEW t \in Turns, NEW pc \in Pcs, Goes(t, pc), Free(t)
  PROVE  /\ Changed(t) /\ Alone(t) /\ turn'[t].pc = pc
         /\ SameRequest(turn[t], turn'[t]) /\ SameReply(turn[t], turn'[t])
         /\ SameHistory(turn[t], turn'[t])
<1> DEFINE n == [turn[t] EXCEPT !.pc = pc]
<1>0. turn[t] \in TurnState /\ turn \in [Turns -> TurnState]
  BY DEF TypeOK
<1>1. /\ n \in TurnState /\ n.pc = pc /\ n.worker = turn[t].worker
      /\ SameRequest(turn[t], n) /\ SameReply(turn[t], n) /\ SameHistory(turn[t], n)
  BY <1>0, PcTo
<1>2. Becomes(t, n)
  BY DEF Goes
<1> HIDE DEF n
<1>3. Changed(t) /\ turn'[t] = n
  BY <1>0, <1>1, <1>2, BecomesIs
<1> QED
  BY <1>1, <1>3 DEF Alone

LEMMA MovesDo ==
  ASSUME TypeOK, NEW t \in Turns, Send(t) \/ Lookup(t) \/ InsertSession(t)
  PROVE  Moves(t)
<1>0. turn[t] \in TurnState /\ turn \in [Turns -> TurnState]
  BY DEF TypeOK
<1>1. CASE Send(t)
  <2>1. turn[t].pc = "send" /\ Free(t) /\ Goes(t, "lookup") /\ "lookup" \in Pcs
        /\ UNCHANGED <<outer, rows, cache, usage>>
    BY <1>1, PcsAre DEF Send, At
  <2> QED
    BY <2>1, GoesDoes DEF Moves
<1>2. CASE InsertSession(t)
  <2>1. turn[t].pc = "insert" /\ Free(t) /\ Goes(t, "user") /\ "user" \in Pcs
        /\ UNCHANGED <<outer, rows, cache, usage>>
    BY <1>2, PcsAre DEF InsertSession, At
  <2> QED
    BY <2>1, GoesDoes DEF Moves
<1>3. CASE Lookup(t)
  <2> DEFINE opens == turn[t].thread \notin threads
             pc == IF turn[t].thread \in threads THEN "user" ELSE "insert"
             n == [turn[t] EXCEPT !.opens = opens, !.pc = pc]
  <2>1. turn[t].pc = "lookup" /\ Free(t) /\ Becomes(t, n) /\ UNCHANGED <<outer, rows, cache, usage>>
    BY <1>3 DEF Lookup, At
  <2>2. opens \in BOOLEAN /\ pc \in Pcs /\ pc \in {"insert", "user"}
    BY PcsAre
  <2> HIDE DEF opens, pc
  <2>3. /\ n \in TurnState /\ n.pc = pc /\ n.worker = turn[t].worker
        /\ SameRequest(turn[t], n) /\ SameReply(turn[t], n) /\ SameHistory(turn[t], n)
    <3>1. n \in TurnState
      BY <1>0, <2>2 DEF TurnState, Pcs
    <3>2. n.pc = pc /\ n.worker = turn[t].worker
      BY <1>0 DEF TurnState
    <3>3. SameRequest(turn[t], n) /\ SameReply(turn[t], n) /\ SameHistory(turn[t], n)
      BY <1>0 DEF TurnState, SameRequest, SameHistory, SameReply
    <3> QED
      BY <3>1, <3>2, <3>3
  <2> HIDE DEF n
  <2>4. Changed(t) /\ turn'[t] = n
    BY <1>0, <2>1, <2>3, BecomesIs
  <2> QED
    BY <2>1, <2>2, <2>3, <2>4 DEF Moves, Alone
<1> QED
  BY <1>1, <1>2, <1>3

LEMMA StampsDo ==
  ASSUME TypeOK, NEW t \in Turns, NEW late \in BOOLEAN,
         StampUser(t, late) \/ StampAssistant(t, late)
  PROVE  \E role \in {"user", "assistant"} : Stamps(t, role, late)
<1>1. CASE StampUser(t, late)
  <2>1. turn[t].pc = "user" /\ Free(t) /\ Goes(t, "assistant") /\ "assistant" \in Pcs
        /\ Stamp(t, Row(t, "user"), late) /\ (late \/ order # <<>>)
        /\ UNCHANGED <<outer, threads, stored, cache, usage>>
    BY <1>1, PcsAre DEF StampUser, At
  <2>2. Stamps(t, "user", late)
    BY <2>1, GoesDoes DEF Stamps, Stamp, Put
  <2> QED
    BY <2>2
<1>2. CASE StampAssistant(t, late)
  <2>1. turn[t].pc = "assistant" /\ Free(t) /\ Goes(t, "commit") /\ "commit" \in Pcs
        /\ Stamp(t, Row(t, "assistant"), late)
        /\ UNCHANGED <<outer, threads, stored, cache, usage>>
    BY <1>2, PcsAre DEF StampAssistant, At
  <2>2. Stamps(t, "assistant", late)
    BY <2>1, GoesDoes DEF Stamps, Stamp, Put
  <2> QED
    BY <2>2
<1> QED
  BY <1>1, <1>2

LEMMA CommitDoes ==
  ASSUME TypeOK, NEW t \in Turns, Commit(t)
  PROVE  Commits(t)
<1>0. turn[t] \in TurnState /\ turn \in [Turns -> TurnState]
  BY DEF TypeOK
<1>1. /\ turn[t].pc = "commit" /\ threads' = threads \cup {turn[t].thread}
      /\ stored' = stored \cup {t} /\ UNCHANGED <<outer, order, raced, cache, usage>>
      /\ Becomes(t, IF turn[t].kind = "ask" THEN [turn[t] EXCEPT !.pc = "count"] ELSE Done(t))
  BY DEF Commit, At
<1>2. CASE turn[t].kind = "ask"
  <2> DEFINE n == [turn[t] EXCEPT !.pc = "count"]
  <2>1. n \in TurnState /\ n.pc = "count"
        /\ SameRequest(turn[t], n) /\ SameReply(turn[t], n) /\ SameHistory(turn[t], n)
    BY <1>0, PcTo, PcsAre
  <2>2. Becomes(t, n)
    BY <1>1, <1>2
  <2> HIDE DEF n
  <2>3. Changed(t) /\ turn'[t] = n
    BY <1>0, <2>1, <2>2, BecomesIs
  <2> QED
    BY <1>1, <1>2, <2>1, <2>3 DEF Commits
<1>3. CASE turn[t].kind # "ask"
  <2> DEFINE n == Done(t)
  <2>1. n \in TurnState /\ n.pc = "done" /\ n.answered = {}
        /\ SameRequest(turn[t], n) /\ SameReply(turn[t], n)
    BY LeftIs, PcsAre DEF Done
  <2>2. Becomes(t, n)
    BY <1>1, <1>3
  <2> HIDE DEF n
  <2>3. Changed(t) /\ turn'[t] = n
    BY <1>0, <2>1, <2>2, BecomesIs
  <2> QED
    BY <1>1, <1>3, <2>1, <2>3 DEF Commits
<1> QED
  BY <1>2, <1>3

LEMMA CountDoes ==
  ASSUME TypeOK, NEW t \in Turns, Count(t)
  PROVE  Counts(t)
<1> DEFINE rate == turn[t].worker \in rated
           n == [Done(t) EXCEPT !.rate = rate]
<1>0. turn \in [Turns -> TurnState] /\ rate \in BOOLEAN
  BY DEF TypeOK
<1>1. /\ turn[t].pc = "count" /\ Becomes(t, n) /\ UNCHANGED <<outer, rows, cache>>
      /\ usage' = IF turn[t].tokens THEN Accumulate(t) ELSE usage
  BY DEF Count, At
<1>2. n \in TurnState /\ n.pc = "done" /\ n.answered = {} /\ n.rate = rate
      /\ SameRequest(turn[t], n) /\ SameReply(turn[t], n)
  <2> HIDE DEF rate
  <2> QED
    BY <1>0, CountedIs
<1> HIDE DEF n
<1>3. Changed(t) /\ turn'[t] = n
  BY <1>0, <1>1, <1>2, BecomesIs
<1> QED
  BY <1>1, <1>2, <1>3 DEF Counts

LEMMA BeginsDoes ==
  ASSUME TypeOK, NEW t \in Turns, NEW k \in Kinds, NEW w \in Workers \cup {Unset},
         NEW th \in Threads \cup {Unset}, NEW q \in Questions, Begin(t, k, w, th, q),
         IF k = "call" THEN th = Unset ELSE th \in Threads
  PROVE  Begins(t)
<1>1. settings.window \in Nat
  BY ChatAssumption DEF TypeOK
<1>2. /\ turn[t].pc = "idle" /\ Changed(t) /\ UNCHANGED <<outer, rows, cache, usage>>
      /\ turn'[t].pc = "retrieve" /\ turn'[t].kind = k /\ turn'[t].thread = th
      /\ turn'[t].text = Unset /\ turn'[t].window = settings.window
      /\ turn'[t].question \in Questions /\ turn'[t].prompt \in Prompts
  BY BeginDoes
<1>3. turn'[t].history = IF turn'[t].kind = "call" THEN <<>>
                         ELSE LoadRecentTurns(turn'[t].thread, settings.window)
  <2>1. turn'[t].history = IF k = "call" THEN <<>> ELSE LoadRecentTurns(th, settings.window)
    BY BeginDoes
  <2> QED
    BY <1>2, <2>1
<1>4. turn'[t].answered = {u \in Turns : turn[u].pc = "done" /\ turn[u].thread = turn'[t].thread
                                          /\ turn[u].kind # "call"}
  <2>1. turn'[t].answered = {u \in Turns : turn[u].pc = "done" /\ turn[u].thread = th
                                            /\ turn[u].kind # "call"}
    BY BeginDoes
  <2> QED
    BY <1>2, <2>1
<1>5. /\ IF turn'[t].kind = "call" THEN turn'[t].thread = Unset ELSE turn'[t].thread \in Threads
      /\ turn'[t].window \in Nat
  BY <1>1, <1>2
<1> QED
  BY <1>2, <1>3, <1>4, <1>5 DEF Begins

LEMMA ServerDoes ==
  ASSUME Base, NEW t \in Turns, Server(t)
  PROVE  TurnStep(t)
<1>0. TypeOK /\ Asked(t)
  BY DEF Base
<1>1. CASE Retrieve(t)
  BY <1>0, <1>1, LooksDoes DEF TurnStep
<1>2. CASE RetrieveFails(t) \/ GenerateFails(t) \/ InsertConflict(t)
  <2>1. /\ turn[t].pc \in {"retrieve", "decide", "send", "generate", "insert"}
        /\ Becomes(t, Lost("failed")) /\ UNCHANGED <<outer, rows, cache, usage>>
    BY <1>2 DEF RetrieveFails, GenerateFails, InsertConflict, At, Fails
  <2> QED
    BY <1>0, <2>1, FailsDoes DEF TurnStep
<1>3. CASE Decide(t)
  <2>1. PICK e \in Packs \cup {NoEvidence} :
          Decline(t, e) \/ CacheHit(t, e) \/ CacheMiss(t, e) \/ CacheGetFails(t, e)
    BY <1>3 DEF Decide
  <2>2. CASE Decline(t, e) \/ CacheHit(t, e)
    <3>1. Declined \in Texts /\ TRUE \in BOOLEAN
      BY DEF Texts
    <3> QED
      BY <1>0, <2>2, <3>1, RepliesDo DEF TurnStep
  <2>3. CASE CacheMiss(t, e)
    BY <1>0, <2>3, LooksDoes DEF TurnStep
  <2>4. CASE CacheGetFails(t, e)
    <3>1. /\ turn[t].pc \in {"retrieve", "decide", "send", "generate", "insert"}
          /\ Becomes(t, Lost("failed")) /\ UNCHANGED <<outer, rows, cache, usage>>
      BY <2>4 DEF CacheGetFails, At, Fails
    <3> QED
      BY <1>0, <3>1, FailsDoes DEF TurnStep
  <2> QED
    BY <2>1, <2>2, <2>3, <2>4
<1>4. CASE \E text \in Texts, tokens \in BOOLEAN : Generate(t, text, tokens)
  BY <1>0, <1>4, RepliesDo DEF TurnStep
<1>5. CASE Send(t) \/ Lookup(t) \/ InsertSession(t)
  BY <1>0, <1>5, MovesDo DEF TurnStep
<1>6. CASE \E late \in BOOLEAN : StampUser(t, late) \/ StampAssistant(t, late)
  BY <1>0, <1>6, StampsDo DEF TurnStep
<1>7. CASE Commit(t)
  BY <1>0, <1>7, CommitDoes DEF TurnStep
<1>8. CASE Count(t)
  BY <1>0, <1>8, CountDoes DEF TurnStep
<1> QED
  BY <1>1, <1>2, <1>3, <1>4, <1>5, <1>6, <1>7, <1>8 DEF Server, Reply, Store

LEMMA ClientDoes ==
  ASSUME Base, NEW t \in Turns, Client(t)
  PROVE  TurnStep(t)
<1>0. TypeOK
  BY DEF Base
<1>1. CASE Disconnect(t)
  <2>1. /\ turn[t].pc \in {"retrieve", "decide", "send", "generate", "insert"}
        /\ Becomes(t, Lost("gone")) /\ UNCHANGED <<outer, rows, cache, usage>>
    BY <1>1 DEF Disconnect, At
  <2> QED
    BY <1>0, <2>1, FailsDoes DEF TurnStep
<1>2. ASSUME NEW s \in Sends[t],
             \/ s.kind # "call" /\ \E w \in Workers, th \in Threads : Begin(t, s.kind, w, th, s.question)
             \/ s.kind = "call" /\ Begin(t, s.kind, Unset, Unset, s.question)
      PROVE  TurnStep(t)
  <2>1. s \in [kind : Kinds, question : Questions]
    BY ChatAssumption
  <2>2. s.kind \in Kinds /\ s.question \in Questions
    BY <2>1
  <2>3. CASE s.kind # "call"
    BY <1>0, <1>2, <2>2, <2>3, BeginsDoes DEF TurnStep
  <2>4. CASE s.kind = "call"
    BY <1>0, <1>2, <2>2, <2>4, BeginsDoes DEF TurnStep
  <2> QED
    BY <2>3, <2>4
<1> QED
  BY <1>1, <1>2 DEF Client

-----------------------------------------------------------------------------
(* What the other steps do *)

Crashes(w) ==
  /\ turn' \in [Turns -> TurnState]
  /\ \A t \in Turns : ~Hit(t, w) => turn'[t] = turn[t]
  /\ \A t \in Turns : Hit(t, w) =>
       /\ turn'[t].pc = "gone" /\ turn'[t].answered = {}
       /\ IF t \in stored THEN SameRequest(turn[t], turn'[t]) /\ SameReply(turn[t], turn'[t])
          ELSE turn'[t].kind = "ask" /\ turn'[t].thread = Unset /\ turn'[t].text = Unset
  /\ order' = Pick(order, Kept(w))
  /\ rated' \subseteq Workers /\ changes' \in 0..Changes
  /\ UNCHANGED <<corpus, prompt, settings, cacheUp, threads, stored, raced, cache, usage>>

LEMMA CrashDoes ==
  ASSUME TypeOK, NEW w \in Workers, Crash(w)
  PROVE  Crashes(w)
<1> DEFINE Row1(t) == IF ~Hit(t, w) THEN turn[t]
                      ELSE IF t \in stored THEN Left(t, "gone") ELSE Lost("gone")
<1>0. turn \in [Turns -> TurnState] /\ "gone" \in Pcs
  BY PcsAre DEF TypeOK
<1>1. turn' = [t \in Turns |-> Row1(t)]
  BY DEF Crash
<1>2. ASSUME NEW t \in Turns
      PROVE  /\ Row1(t) \in TurnState
             /\ ~Hit(t, w) => Row1(t) = turn[t]
             /\ Hit(t, w) =>
                  /\ Row1(t).pc = "gone" /\ Row1(t).answered = {}
                  /\ IF t \in stored THEN SameRequest(turn[t], Row1(t)) /\ SameReply(turn[t], Row1(t))
                     ELSE Row1(t).kind = "ask" /\ Row1(t).thread = Unset /\ Row1(t).text = Unset
  <2>1. CASE ~Hit(t, w)
    BY <1>0, <2>1
  <2>2. CASE Hit(t, w) /\ t \in stored
    <3>1. Row1(t) = Left(t, "gone")
      BY <2>2
    <3> HIDE DEF Row1
    <3> QED
      BY <1>0, <2>2, <3>1, LeftIs
  <2>3. CASE Hit(t, w) /\ t \notin stored
    <3>1. Row1(t) = Lost("gone")
      BY <2>3
    <3> HIDE DEF Row1
    <3> QED
      BY <1>0, <2>3, <3>1, LostIs
  <2> QED
    BY <2>1, <2>2, <2>3
<1> HIDE DEF Row1
<1>3. turn' \in [Turns -> TurnState] /\ \A t \in Turns : turn'[t] = Row1(t)
  BY <1>1, <1>2
<1>4. order' = Pick(order, Kept(w))
      /\ UNCHANGED <<corpus, prompt, settings, cacheUp, threads, stored, raced, cache, usage>>
  BY DEF Crash, Pick
<1>5. rated' \subseteq Workers /\ changes' \in 0..Changes
  <2>1. rated' \in {rated, rated \cup {w}} /\ changes < Changes /\ changes' = changes + 1
    BY DEF Crash
  <2>2. rated \subseteq Workers /\ changes \in 0..Changes /\ Changes \in Nat
    BY ChatAssumption DEF TypeOK
  <2> QED
    BY <2>1, <2>2
<1> QED
  BY <1>2, <1>3, <1>4, <1>5 DEF Crashes

\* What is around the turns changes.
Surrounds ==
  /\ UNCHANGED <<turn, rows, usage, rated>>
  /\ corpus' \in [Questions -> Packs \cup {NoEvidence}]
  /\ prompt' \in Prompts /\ settings' \in Settings /\ cacheUp' \in BOOLEAN
  /\ changes' \in 0..Changes
  /\ DOMAIN cache' \subseteq DOMAIN cache
  /\ \A k \in DOMAIN cache' : cache'[k] = cache[k]

LEMMA SurroundingsDo ==
  ASSUME TypeOK, Surroundings
  PROVE  Surrounds \/ \E w \in Workers : Crash(w)
<1>0. /\ corpus \in [Questions -> Packs \cup {NoEvidence}]
      /\ prompt \in Prompts /\ settings \in Settings /\ cacheUp \in BOOLEAN
      /\ changes \in 0..Changes /\ Changes \in Nat
  BY ChatAssumption DEF TypeOK
<1> DEFINE Bounded == changes' \in 0..Changes /\ UNCHANGED <<turn, rows, usage, rated>>
<1>1. ASSUME NEW p \in Prompts, Promote(p) PROVE Surrounds
  <2>1. Bounded /\ prompt' = p /\ UNCHANGED <<corpus, settings, cacheUp, cache>>
    BY <1>0, <1>1 DEF Promote, Around
  <2> QED
    BY <1>0, <2>1 DEF Surrounds
<1>2. ASSUME NEW q \in Questions, NEW e \in Packs \cup {NoEvidence}, Reindex(q, e) PROVE Surrounds
  <2>1. Bounded /\ corpus' = [corpus EXCEPT ![q] = e] /\ UNCHANGED <<prompt, settings, cacheUp, cache>>
    BY <1>0, <1>2 DEF Reindex, Around
  <2> QED
    BY <1>0, <2>1 DEF Surrounds
<1>3. ASSUME NEW s \in Settings, UpdateSettings(s) PROVE Surrounds
  <2>1. Bounded /\ settings' = s /\ UNCHANGED <<corpus, prompt, cacheUp, cache>>
    BY <1>0, <1>3 DEF UpdateSettings, Around
  <2> QED
    BY <1>0, <2>1 DEF Surrounds
<1>4. ASSUME RedisChanges PROVE Surrounds
  <2>1. Bounded /\ cacheUp' = ~cacheUp /\ UNCHANGED <<corpus, prompt, settings, cache>>
    BY <1>0, <1>4 DEF RedisChanges, Around
  <2>2. cacheUp' \in BOOLEAN
    BY <2>1
  <2> QED
    BY <1>0, <2>1, <2>2 DEF Surrounds
<1>5. ASSUME NEW k \in DOMAIN cache, Expire(k) PROVE Surrounds
  <2>1. Bounded /\ cache' = [j \in DOMAIN cache \ {k} |-> cache[j]]
        /\ UNCHANGED <<corpus, prompt, settings, cacheUp>>
    BY <1>0, <1>5 DEF Expire, Around
  <2> QED
    BY <1>0, <2>1 DEF Surrounds
<1> QED
  BY <1>1, <1>2, <1>3, <1>4, <1>5 DEF Surroundings

-----------------------------------------------------------------------------
(* The types and the stages hold *)

LEMMA StampsRows ==
  ASSUME Base, NEW t \in Turns, NEW role \in {"user", "assistant"}, NEW late \in BOOLEAN,
         Stamps(t, role, late)
  PROVE  /\ order' \in Seq(Rows) /\ Once(order')
         /\ Row(t, role) \notin Elems(order)
         /\ Elems(order') = Elems(order) \cup {Row(t, role)}
         /\ \A a, b \in Elems(order) : Precedes(order', a, b) <=> Precedes(order, a, b)
         /\ \A a \in Elems(order) : (~late /\ a = order[Len(order)]) \/ Precedes(order', a, Row(t, role))
         /\ t \notin stored /\ turn[t].kind # "call" /\ turn[t].thread \in Threads
         /\ ~late => order # <<>>
<1> DEFINE row == Row(t, role)
<1>1. t \notin stored /\ turn[t].kind # "call" /\ turn[t].thread \in Threads
  BY DEF Base, Stage, Stamps
<1>2. row \in Rows /\ row \notin Elems(order)
  BY <1>1 DEF Base, RowsIn, Stamps, Row, Rows
<1>3. late \/ order # <<>>
  <2>1. CASE role = "user"
    BY <2>1 DEF Stamps
  <2>2. CASE role # "user"
    <3>1. Row(t, "user") \in Elems(order)
      BY <2>2 DEF Base, RowsIn, Stamps
    <3> QED
      BY <3>1 DEF Elems
  <2> QED
    BY <2>1, <2>2
<1>4. order \in Seq(Rows) /\ Once(order) /\ order' = Put(order, row, late)
  BY OrderTyped DEF Base, Stamps
<1> HIDE DEF row
<1>5. /\ order' \in Seq(Rows) /\ Once(order')
      /\ Elems(order') = Elems(order) \cup {row}
      /\ \A a, b \in Elems(order) : Precedes(order', a, b) <=> Precedes(order, a, b)
      /\ \A a \in Elems(order) : (~late /\ a = order[Len(order)]) \/ Precedes(order', a, row)
  BY <1>2, <1>3, <1>4, PutIs
<1> QED
  BY <1>1, <1>2, <1>3, <1>5 DEF row

\* What a step of one turn leaves of the others.
Local(t) ==
  /\ turn' \in [Turns -> TurnState]
  /\ stored' \in SUBSET Turns /\ stored \subseteq stored'
  /\ \A u \in Turns \ {t} :
       /\ turn'[u] = turn[u] /\ (u \in stored' <=> u \in stored)
       /\ \A role \in {"user", "assistant"} :
            Row(u, role) \in Elems(order') <=> Row(u, role) \in Elems(order)

LEMMA StepIsLocal ==
  ASSUME Base, NEW t \in Turns, TurnStep(t)
  PROVE  Local(t) /\ order' \in Seq(Rows) /\ Once(order')
<1>0. stored \in SUBSET Turns /\ Once(order) /\ order \in Seq(Rows)
  BY OrderTyped DEF Base, TypeOK
<1>1. CASE UNCHANGED rows /\ Changed(t)
  BY <1>0, <1>1 DEF Local, Changed, rows
<1>2. CASE \E role \in {"user", "assistant"}, late \in BOOLEAN : Stamps(t, role, late)
  <2>1. PICK role \in {"user", "assistant"}, late \in BOOLEAN : Stamps(t, role, late)
    BY <1>2
  <2>2. order' \in Seq(Rows) /\ Once(order') /\ Elems(order') = Elems(order) \cup {Row(t, role)}
    BY <2>1, StampsRows
  <2>3. Changed(t) /\ stored' = stored
    BY <2>1 DEF Stamps
  <2>4. \A u \in Turns \ {t} : \A r \in {"user", "assistant"} : Row(u, r) # Row(t, role)
    BY DEF Row
  <2> QED
    BY <1>0, <2>2, <2>3, <2>4 DEF Local, Changed
<1>3. CASE Commits(t)
  BY <1>0, <1>3 DEF Commits, Local, Changed
<1>4. (UNCHANGED rows /\ Changed(t)) \/ Commits(t)
      \/ \E role \in {"user", "assistant"}, late \in BOOLEAN : Stamps(t, role, late)
  BY DEF TurnStep, Begins, Looks, GetsReply, Declines, Hits, Generates, Gets, Moves, Drops, Counts
<1> QED
  BY <1>1, <1>2, <1>3, <1>4

LEMMA OthersStay ==
  ASSUME Base, NEW t \in Turns, Local(t), NEW u \in Turns \ {t}
  PROVE  Asked(u)' /\ Stage(u)' /\ RowsIn(u)'
<1>1. turn'[u] = turn[u] /\ (u \in stored' <=> u \in stored)
      /\ \A role \in {"user", "assistant"} :
           Row(u, role) \in Elems(order') <=> Row(u, role) \in Elems(order)
  BY DEF Local
<1>2. Asked(u) /\ Stage(u) /\ RowsIn(u)
  BY DEF Base
<1>3. Row(u, "user")' = Row(u, "user") /\ Row(u, "assistant")' = Row(u, "assistant")
  BY DEF Row
<1>4. Asked(u)'
  BY <1>1, <1>2 DEF Asked, Enough
<1>5. Stage(u)'
  BY <1>1, <1>2 DEF Stage
<1>6. RowsIn(u)'
  BY <1>1, <1>2, <1>3 DEF RowsIn, Elems
<1> QED
  BY <1>4, <1>5, <1>6

\* The turn that moves.
LEMMA ItAdvances ==
  ASSUME Base, NEW t \in Turns, TurnStep(t)
  PROVE  Asked(t)' /\ Stage(t)' /\ RowsIn(t)'
<1>0. /\ TypeOK /\ Asked(t) /\ Stage(t) /\ RowsIn(t)
      /\ Row(t, "user")' = Row(t, "user") /\ Row(t, "assistant")' = Row(t, "assistant")
  BY DEF Base, Row
<1>1. CASE Begins(t)
  <2>1. UNCHANGED rows /\ turn[t].pc = "idle" /\ turn'[t].pc = "retrieve" /\ turn'[t].text = Unset
    BY <1>1 DEF Begins
  <2>2. turn'[t].kind # "call" => turn'[t].thread \in Threads
    BY <1>1 DEF Begins
  <2>3. Stage(t)'
    BY <1>0, <2>1, <2>2 DEF Stage, rows
  <2>4. RowsIn(t)'
    BY <1>0, <2>1 DEF Stage, RowsIn, rows
  <2>5. Asked(t)'
    BY <1>1, <2>1 DEF Begins, Asked
  <2> QED
    BY <2>3, <2>4, <2>5
<1>2. CASE Looks(t)
  <2>1. /\ UNCHANGED rows /\ turn[t].pc \in {"retrieve", "decide"}
        /\ turn'[t].pc \in {"decide", "generate"} /\ turn'[t].text = turn[t].text
        /\ turn'[t].pc = "generate" => Enough(t, turn'[t].evidence)
        /\ SameRequest(turn[t], turn'[t])
    BY <1>2 DEF Looks
  <2>2. Asked(t)'
    BY <1>0, <2>1 DEF Asked, Enough, SameRequest
  <2>3. Stage(t)'
    BY <1>0, <2>1 DEF Stage, rows, SameRequest
  <2>4. RowsIn(t)'
    BY <1>0, <2>1 DEF RowsIn, rows
  <2> QED
    BY <2>2, <2>3, <2>4
<1>3. CASE GetsReply(t)
  <2>1. /\ UNCHANGED rows /\ turn[t].pc \in {"decide", "generate"}
        /\ IF turn[t].kind = "call" THEN turn'[t].pc = "done" ELSE turn'[t].pc \in {"send", "lookup"}
        /\ SameRequest(turn[t], turn'[t])
    BY <1>3 DEF GetsReply, Declines, Hits, Generates, Gets
  <2>2. Asked(t)'
    BY <1>0, <2>1 DEF Asked, SameRequest
  <2>3. Stage(t)'
    BY <1>0, <2>1 DEF Stage, rows, SameRequest
  <2>4. RowsIn(t)'
    BY <1>0, <2>1 DEF RowsIn, rows
  <2> QED
    BY <2>2, <2>3, <2>4
<1>4. CASE Moves(t)
  <2>1. /\ UNCHANGED rows /\ turn[t].pc \in {"send", "lookup", "insert"}
        /\ turn'[t].pc \in {"lookup", "insert", "user"}
        /\ SameRequest(turn[t], turn'[t])
    BY <1>4 DEF Moves
  <2>2. Asked(t)'
    BY <1>0, <2>1 DEF Asked, SameRequest
  <2>3. Stage(t)'
    BY <1>0, <2>1 DEF Stage, rows, SameRequest
  <2>4. RowsIn(t)'
    BY <1>0, <2>1 DEF RowsIn, rows
  <2> QED
    BY <2>2, <2>3, <2>4
<1>5. CASE Drops(t)
  <2>1. /\ UNCHANGED rows /\ turn[t].pc \in {"retrieve", "decide", "send", "generate", "insert"}
        /\ turn'[t].pc \in {"failed", "gone"} /\ turn'[t].kind = "ask" /\ turn'[t].text = Unset
    BY <1>5 DEF Drops
  <2>2. Asked(t)'
    BY <2>1 DEF Asked
  <2>3. Stage(t)'
    BY <1>0, <2>1 DEF Stage, rows
  <2>4. RowsIn(t)'
    BY <1>0, <2>1 DEF RowsIn, rows
  <2> QED
    BY <2>2, <2>3, <2>4
<1>6. ASSUME NEW role \in {"user", "assistant"}, NEW late \in BOOLEAN, Stamps(t, role, late)
      PROVE  Asked(t)' /\ Stage(t)' /\ RowsIn(t)'
  <2>1. /\ turn[t].pc = (IF role = "user" THEN "user" ELSE "assistant")
        /\ turn'[t].pc = (IF role = "user" THEN "assistant" ELSE "commit")
        /\ SameRequest(turn[t], turn'[t]) /\ stored' = stored
    BY <1>6 DEF Stamps
  <2>2. Elems(order') = Elems(order) \cup {Row(t, role)}
    BY <1>6, StampsRows
  <2>3. Row(t, "user") # Row(t, "assistant")
    BY DEF Row
  <2>4. Asked(t)'
    BY <1>0, <2>1 DEF Asked, SameRequest
  <2>5. Stage(t)'
    BY <1>0, <2>1 DEF Stage, SameRequest
  <2>6. RowsIn(t)'
    <3>1. Elems(order)' = Elems(order')
      BY DEF Elems
    <3> QED
      BY <1>0, <2>1, <2>2, <2>3, <3>1 DEF RowsIn
  <2> QED
    BY <2>4, <2>5, <2>6
<1>7. CASE Commits(t)
  <2>1. /\ turn[t].pc = "commit" /\ turn'[t].pc = (IF turn[t].kind = "ask" THEN "count" ELSE "done")
        /\ SameRequest(turn[t], turn'[t]) /\ stored' = stored \cup {t} /\ order' = order
    BY <1>7 DEF Commits
  <2>2. Asked(t)'
    BY <1>0, <2>1 DEF Asked, SameRequest
  <2>3. Stage(t)'
    BY <1>0, <2>1 DEF Stage, SameRequest
  <2>4. RowsIn(t)'
    BY <1>0, <2>1 DEF RowsIn
  <2> QED
    BY <2>2, <2>3, <2>4
<1>8. CASE Counts(t)
  <2>1. /\ turn[t].pc = "count" /\ turn'[t].pc = "done" /\ UNCHANGED rows
        /\ SameRequest(turn[t], turn'[t])
    BY <1>8 DEF Counts
  <2>2. Asked(t)'
    BY <1>0, <2>1 DEF Asked, SameRequest
  <2>3. Stage(t)'
    BY <1>0, <2>1 DEF Stage, rows, SameRequest
  <2>4. RowsIn(t)'
    BY <1>0, <2>1 DEF RowsIn, rows
  <2> QED
    BY <2>2, <2>3, <2>4
<1> QED
  BY <1>1, <1>2, <1>3, <1>4, <1>5, <1>6, <1>7, <1>8 DEF TurnStep

\* The parts of the type: the turns, the rows, the rest, and one writer to a worker.
RowTypes ==
  /\ order \in Seq([turn : Turns, role : {"user", "assistant"}])
  /\ threads \subseteq Threads /\ stored \subseteq Turns /\ raced \subseteq Threads

OuterTypes ==
  /\ corpus \in [Questions -> Packs \cup {NoEvidence}]
  /\ prompt \in Prompts /\ settings \in Settings
  /\ cacheUp \in BOOLEAN
  /\ rated \subseteq Workers /\ changes \in 0..Changes

CacheTypes ==
  /\ DOMAIN cache \subseteq Questions \X Prompts \X Packs
  /\ \A k \in DOMAIN cache : cache[k] \in Answers

UsageTypes == usage \in [requests : Nat, cost : Nat \cup {Unset}]

Exclusive ==
  \A t, u \in Turns :
    t # u /\ {turn[t].pc, turn[u].pc} \subseteq Writing => turn[t].worker # turn[u].worker

LEMMA TypeParts ==
  TypeOK <=> /\ turn \in [Turns -> TurnState] /\ RowTypes /\ OuterTypes /\ CacheTypes
             /\ UsageTypes /\ Exclusive
BY DEF TypeOK, RowTypes, OuterTypes, CacheTypes, UsageTypes, Exclusive

LEMMA TypePartsNext ==
  TypeOK' <=> /\ turn' \in [Turns -> TurnState] /\ RowTypes' /\ OuterTypes' /\ CacheTypes'
              /\ UsageTypes' /\ Exclusive'
BY DEF TypeOK, RowTypes, OuterTypes, CacheTypes, UsageTypes, Exclusive

LEMMA AloneExcludes ==
  ASSUME TypeOK, NEW t \in Turns, Changed(t), Alone(t)
  PROVE  Exclusive'
<1>0. Exclusive /\ \A u \in Turns \ {t} : turn'[u] = turn[u]
  BY TypeParts DEF Changed
<1>1. ASSUME NEW u \in Turns \ {t}, turn'[t].pc \in Writing, turn[u].pc \in Writing
      PROVE  turn'[t].worker # turn[u].worker
  <2>1. Free(t) /\ turn'[t].worker = turn[t].worker
    BY <1>1 DEF Alone
  <2>2. CASE turn[t].pc \in Writing
    BY <1>0, <1>1, <2>1, <2>2 DEF Exclusive
  <2>3. CASE Available(turn[t].worker)
    BY <1>1, <2>1, <2>3 DEF Available
  <2> QED
    BY <2>1, <2>2, <2>3 DEF Free
<1>2. ASSUME NEW u \in Turns, NEW v \in Turns, u # v, turn'[u].pc \in Writing, turn'[v].pc \in Writing
      PROVE  turn'[u].worker # turn'[v].worker
  <2>1. CASE u = t
    BY <1>0, <1>1, <1>2, <2>1
  <2>2. CASE v = t
    BY <1>0, <1>1, <1>2, <2>2
  <2>3. CASE u # t /\ v # t
    BY <1>0, <1>2, <2>3 DEF Exclusive
  <2> QED
    BY <2>1, <2>2, <2>3
<1> QED
  BY <1>2 DEF Exclusive

LEMMA StepIsAlone ==
  ASSUME Base, NEW t \in Turns, TurnStep(t)
  PROVE  Changed(t) /\ Alone(t)
<1>1. CASE Begins(t) \/ Looks(t) \/ Drops(t) \/ Commits(t) \/ Counts(t)
  <2>1. Changed(t) /\ turn'[t].pc \in {"retrieve", "decide", "generate", "failed", "gone", "count", "done"}
    BY <1>1 DEF Begins, Looks, Drops, Commits, Counts
  <2> QED
    BY <2>1 DEF Alone, Writing
<1>2. CASE GetsReply(t) \/ Moves(t) \/ \E role \in {"user", "assistant"}, late \in BOOLEAN : Stamps(t, role, late)
  BY <1>2 DEF GetsReply, Declines, Hits, Generates, Gets, Moves, Stamps
<1> QED
  BY <1>1, <1>2 DEF TurnStep

LEMMA StepKeepsTypes ==
  ASSUME Base, NEW t \in Turns, TurnStep(t)
  PROVE  TypeOK'
<1>0. TypeOK /\ RowTypes /\ OuterTypes /\ CacheTypes /\ UsageTypes
  BY TypeParts DEF Base
<1>1. turn' \in [Turns -> TurnState] /\ Exclusive'
  BY <1>0, StepIsAlone, AloneExcludes DEF Changed
<1>2. order' \in Seq([turn : Turns, role : {"user", "assistant"}])
  BY StepIsLocal DEF Rows
<1>3. OuterTypes'
  <2>1. UNCHANGED outer
    BY DEF TurnStep, Begins, Looks, GetsReply, Declines, Hits, Generates, Gets, Moves, Drops,
           Stamps, Commits, Counts
  <2> QED
    BY <1>0, <2>1 DEF OuterTypes, outer
<1>4. RowTypes'
  <2>1. CASE Commits(t)
    <3>1. turn[t].thread \in Threads
      BY <2>1 DEF Commits, Base, Stage
    <3>2. threads' = threads \cup {turn[t].thread} /\ stored' = stored \cup {t} /\ raced' = raced
      BY <2>1 DEF Commits
    <3> QED
      BY <1>0, <1>2, <3>1, <3>2 DEF RowTypes
  <2>2. ASSUME NEW role \in {"user", "assistant"}, NEW late \in BOOLEAN, Stamps(t, role, late)
        PROVE  RowTypes'
    <3>1. turn[t].thread \in Threads
      BY <2>2, StampsRows
    <3>2. UNCHANGED <<threads, stored>> /\ raced' \in {raced, raced \cup {turn[t].thread}}
      BY <2>2 DEF Stamps
    <3> QED
      BY <1>0, <1>2, <3>1, <3>2 DEF RowTypes
  <2>3. CASE UNCHANGED rows
    BY <1>0, <2>3 DEF RowTypes, rows
  <2> QED
    BY <2>1, <2>2, <2>3 DEF TurnStep, Begins, Looks, GetsReply, Declines, Hits, Generates, Gets,
           Moves, Drops, Counts
<1>5. CacheTypes'
  <2>1. CASE Generates(t)
    <3> DEFINE key == Key(turn[t].question, turn[t].prompt, turn[t].evidence)
    <3>1. PICK text \in Texts, tokens \in BOOLEAN : Generate(t, text, tokens)
      BY <2>1 DEF Generates
    <3>2. /\ turn[t].pc = "generate"
          /\ text \in {Empty, Answer(turn[t].question, turn[t].prompt, turn[t].evidence)}
          /\ Keeps(t, text) => text # Empty
          /\ cache' = IF Keeps(t, text)
                      THEN [k \in DOMAIN cache \cup {key} |-> IF k = key THEN text ELSE cache[k]]
                      ELSE cache
      BY <3>1 DEF Generate, At, Keeps
    <3>3. turn[t].question \in Questions /\ turn[t].prompt \in Prompts /\ turn[t].evidence \in Packs
      <4>1. turn[t].evidence \in Packs \cup {NoEvidence}
        BY <1>0 DEF TypeOK, TurnState
      <4> QED
        BY <3>2, <4>1 DEF Base, Asked, Enough
    <3>4. key \in Questions \X Prompts \X Packs
      BY <3>3 DEF Key
    <3>5. Keeps(t, text) => text \in Answers
      BY <3>2, <3>3 DEF Answer, Answers
    <3> HIDE DEF key
    <3>6. CASE Keeps(t, text)
      <4>1. cache' = [k \in DOMAIN cache \cup {key} |-> IF k = key THEN text ELSE cache[k]]
        BY <3>2, <3>6
      <4>2. DOMAIN cache' = DOMAIN cache \cup {key}
        BY <4>1
      <4>3. \A k \in DOMAIN cache' : cache'[k] \in Answers
        BY <1>0, <3>5, <3>6, <4>1 DEF CacheTypes
      <4> QED
        BY <1>0, <3>4, <4>2, <4>3 DEF CacheTypes
    <3>7. CASE ~Keeps(t, text)
      BY <1>0, <3>2, <3>7 DEF CacheTypes
    <3> QED
      BY <3>6, <3>7
  <2>2. CASE UNCHANGED cache
    BY <1>0, <2>2 DEF CacheTypes
  <2> QED
    BY <2>1, <2>2 DEF TurnStep, Begins, Looks, GetsReply, Declines, Hits, Moves, Drops, Stamps,
           Commits, Counts
<1>6. UsageTypes'
  <2>1. CASE UNCHANGED usage
    BY <1>0, <2>1 DEF UsageTypes
  <2>2. CASE usage' = Accumulate(t)
    <3>1. usage.requests \in Nat /\ usage.cost \in Nat \cup {Unset}
      BY <1>0 DEF UsageTypes
    <3>2. AddCost(usage.cost, usage.requests, turn[t].worker \in rated) \in Nat \cup {Unset}
      BY <3>1 DEF AddCost
    <3> QED
      BY <2>2, <3>1, <3>2 DEF UsageTypes, Accumulate
  <2> QED
    BY <2>1, <2>2 DEF TurnStep, Begins, Looks, GetsReply, Declines, Hits, Generates, Gets, Moves,
           Drops, Stamps, Commits, Counts
<1> QED
  BY <1>1, <1>3, <1>4, <1>5, <1>6, TypePartsNext

LEMMA StepKeepsBase ==
  ASSUME Base, NEW t \in Turns, TurnStep(t)
  PROVE  Base'
<1>1. Local(t) /\ Once(order') /\ TypeOK'
  BY StepIsLocal, StepKeepsTypes
<1>2. ASSUME NEW u \in Turns PROVE Asked(u)' /\ Stage(u)' /\ RowsIn(u)'
  <2>1. CASE u = t
    BY <2>1, ItAdvances
  <2>2. CASE u # t
    BY <1>1, <2>2, OthersStay
  <2> QED
    BY <2>1, <2>2
<1>3. Once(order)'
  BY <1>1 DEF Once
<1> QED
  BY <1>1, <1>2, <1>3 DEF Base

\* The rows that outlive a worker.
LEMMA CrashRows ==
  ASSUME Base, NEW w \in Workers, Crashes(w)
  PROVE  /\ order' \in Seq(Rows) /\ Once(order')
         /\ Elems(order') \subseteq Elems(order)
         /\ \A t \in Turns : \A role \in {"user", "assistant"} :
              Row(t, role) \in Elems(order') <=>
                Row(t, role) \in Elems(order) /\ (t \in stored \/ ~Hit(t, w))
         /\ \A a, b \in Elems(order') : Precedes(order', a, b) <=> Precedes(order, a, b)
<1> DEFINE P == Kept(w)
<1>0. order \in Seq(Rows) /\ Once(order) /\ order' = Pick(order, P) /\ P \in SUBSET (1..Len(order))
  BY OrderTyped DEF Base, Crashes, Kept
<1>1. /\ order' \in Seq(Rows) /\ Once(order') /\ Elems(order') = {order[i] : i \in P}
      /\ \A a, b \in Elems(order') : Precedes(order', a, b) <=> Precedes(order, a, b)
  <2> HIDE DEF P
  <2> QED
    BY <1>0, PickIs
<1>2. Elems(order') \subseteq Elems(order)
  BY <1>0, <1>1 DEF Elems
<1>3. ASSUME NEW t \in Turns, NEW role \in {"user", "assistant"}
      PROVE  Row(t, role) \in Elems(order') <=>
               Row(t, role) \in Elems(order) /\ (t \in stored \/ ~Hit(t, w))
  <2>1. \A i \in 1..Len(order) : order[i] = Row(t, role) => order[i].turn = t
    BY DEF Row
  <2>2. P = {i \in 1..Len(order) : order[i].turn \in stored \/ ~Hit(order[i].turn, w)}
    BY DEF Kept
  <2> HIDE DEF P
  <2>3. ASSUME Row(t, role) \in Elems(order') PROVE t \in stored \/ ~Hit(t, w)
    <3>1. PICK i \in P : order[i] = Row(t, role)
      BY <1>1, <2>3
    <3> QED
      BY <2>1, <2>2, <3>1
  <2>4. ASSUME Row(t, role) \in Elems(order), t \in stored \/ ~Hit(t, w)
        PROVE  Row(t, role) \in Elems(order')
    <3>1. PICK i \in 1..Len(order) : order[i] = Row(t, role)
      BY <2>4 DEF Elems
    <3>2. i \in P
      BY <2>1, <2>2, <2>4, <3>1
    <3> QED
      BY <1>1, <3>1, <3>2
  <2> QED
    BY <1>2, <2>3, <2>4
<1> QED
  BY <1>1, <1>2, <1>3

LEMMA CrashKeepsBase ==
  ASSUME Base, NEW w \in Workers, Crashes(w)
  PROVE  Base'
<1>0. TypeOK /\ RowTypes /\ OuterTypes /\ CacheTypes /\ UsageTypes /\ Exclusive
  BY TypeParts DEF Base
<1>1. order' \in Seq(Rows) /\ Once(order') /\ turn' \in [Turns -> TurnState]
  BY CrashRows DEF Crashes
<1>2. RowTypes' /\ OuterTypes' /\ CacheTypes' /\ UsageTypes'
  BY <1>0, <1>1 DEF Crashes, RowTypes, OuterTypes, CacheTypes, UsageTypes, Rows
<1>3. Exclusive'
  <2>1. \A t \in Turns : turn'[t].pc \in Writing => turn'[t] = turn[t]
    BY DEF Crashes, Writing
  <2> QED
    BY <1>0, <2>1 DEF Exclusive
<1>4. ASSUME NEW t \in Turns PROVE Asked(t)' /\ Stage(t)' /\ RowsIn(t)'
  <2>0. /\ Asked(t) /\ Stage(t) /\ RowsIn(t) /\ stored' = stored
        /\ Row(t, "user")' = Row(t, "user") /\ Row(t, "assistant")' = Row(t, "assistant")
        /\ \A role \in {"user", "assistant"} :
             Row(t, role) \in Elems(order)' <=>
               Row(t, role) \in Elems(order) /\ (t \in stored \/ ~Hit(t, w))
    BY CrashRows DEF Base, Row, Crashes, Elems
  <2>1. CASE ~Hit(t, w)
    <3>1. turn'[t] = turn[t]
      BY <2>1 DEF Crashes
    <3>2. Asked(t)'
      BY <2>0, <3>1 DEF Asked, Enough
    <3>3. Stage(t)'
      BY <2>0, <3>1 DEF Stage
    <3>4. RowsIn(t)'
      BY <2>0, <2>1, <3>1 DEF RowsIn
    <3> QED
      BY <3>2, <3>3, <3>4
  <2>2. CASE Hit(t, w)
    <3>1. /\ turn'[t].pc = "gone"
          /\ t \in stored => SameRequest(turn[t], turn'[t])
          /\ t \notin stored => turn'[t].kind = "ask"
      BY <2>2 DEF Crashes
    <3>2. Asked(t)'
      BY <3>1 DEF Asked
    <3>3. Stage(t)'
      BY <2>0, <3>1 DEF Stage, SameRequest
    <3>4. RowsIn(t)'
      BY <2>0, <2>2, <3>1 DEF RowsIn
    <3> QED
      BY <3>2, <3>3, <3>4
  <2> QED
    BY <2>1, <2>2
<1>5. TypeOK'
  BY <1>1, <1>2, <1>3, TypePartsNext
<1>6. Once(order)'
  BY <1>1 DEF Once
<1> QED
  BY <1>4, <1>5, <1>6 DEF Base

LEMMA SurroundsKeepsBase ==
  ASSUME Base, Surrounds
  PROVE  Base'
<1>0. TypeOK /\ RowTypes /\ OuterTypes /\ CacheTypes /\ UsageTypes /\ Exclusive
  BY TypeParts DEF Base
<1>1. UNCHANGED <<turn, threads, order, stored, raced, usage, rated>>
  BY DEF Surrounds, rows
<1>2. RowTypes' /\ UsageTypes' /\ Exclusive' /\ turn' \in [Turns -> TurnState]
  BY <1>0, <1>1 DEF RowTypes, UsageTypes, Exclusive, TypeOK
<1>3. OuterTypes' /\ CacheTypes'
  BY <1>0, <1>1 DEF Surrounds, OuterTypes, CacheTypes
<1>4. \A t \in Turns : Asked(t)' /\ Stage(t)' /\ RowsIn(t)'
  BY <1>1 DEF Base, Asked, Enough, Stage, RowsIn, Row, Elems
<1>5. TypeOK'
  BY <1>2, <1>3, TypePartsNext
<1>6. Once(order)'
  BY <1>1 DEF Base, Once
<1> QED
  BY <1>4, <1>5, <1>6 DEF Base

LEMMA NextIs ==
  ASSUME Base, [Next]_vars
  PROVE  \/ \E t \in Turns : TurnStep(t)
         \/ \E w \in Workers : Crashes(w)
         \/ Surrounds
<1>0. TypeOK
  BY DEF Base
<1>1. CASE \E t \in Turns : Server(t) \/ Client(t)
  BY <1>1, ServerDoes, ClientDoes
<1>2. CASE Surroundings
  BY <1>0, <1>2, SurroundingsDo, CrashDoes
<1>3. CASE UNCHANGED vars
  BY <1>0, <1>3 DEF vars, outer, rows, Surrounds, TypeOK
<1> QED
  BY <1>1, <1>2, <1>3 DEF Next

LEMMA NextKeepsBase ==
  ASSUME Base, [Next]_vars
  PROVE  Base'
BY NextIs, StepKeepsBase, CrashKeepsBase, SurroundsKeepsBase

LEMMA InitBase ==
  ASSUME Init
  PROVE  Base
<1>1. turn = [t \in Turns |-> Idle] /\ order = <<>> /\ stored = {} /\ threads = {} /\ raced = {}
      /\ cache = <<>> /\ cacheUp = TRUE /\ usage = [requests |-> 0, cost |-> Unset]
      /\ rated = {} /\ changes = 0
  BY DEF Init
<1>2. Idle \in TurnState /\ Idle.pc = "idle" /\ Idle.kind = "ask" /\ Idle.text = Unset
  BY EmptyHistory DEF Idle, TurnState, Kinds, Texts
<1> HIDE DEF Idle
<1>3. turn \in [Turns -> TurnState]
  BY <1>1, <1>2
<1>4. RowTypes /\ UsageTypes
  BY <1>1 DEF RowTypes, UsageTypes
<1>5. OuterTypes
  <2>1. corpus = Installed.corpus /\ prompt = Installed.prompt /\ settings = Installed.settings
    BY DEF Init
  <2>2. Installed \in [corpus : [Questions -> Packs], prompt : Prompts, settings : Settings]
        /\ Changes \in Nat
    BY ChatAssumption
  <2>3. corpus \in [Questions -> Packs] /\ prompt \in Prompts /\ settings \in Settings
    BY <2>1, <2>2
  <2>4. corpus \in [Questions -> Packs \cup {NoEvidence}]
    BY <2>3
  <2> QED
    BY <1>1, <2>2, <2>3, <2>4 DEF OuterTypes
<1>6. CacheTypes
  BY <1>1 DEF CacheTypes
<1>7. Exclusive
  BY <1>1, <1>2 DEF Exclusive, Writing
<1>8. TypeOK
  BY <1>3, <1>4, <1>5, <1>6, <1>7, TypeParts
<1>9. Elems(order) = {} /\ Once(order)
  BY <1>1 DEF Elems, Once
<1>10. ASSUME NEW t \in Turns PROVE Asked(t) /\ Stage(t) /\ RowsIn(t)
  <2>1. turn[t] = Idle
    BY <1>1
  <2> QED
    BY <1>1, <1>2, <1>9, <2>1 DEF Asked, Stage, RowsIn
<1> QED
  BY <1>8, <1>9, <1>10 DEF Base

LEMMA BaseHolds == Spec => []Base
<1>1. Init => Base
  BY InitBase
<1>2. Base /\ [Next]_vars => Base'
  BY NextKeepsBase
<1> QED
  BY <1>1, <1>2, PTL DEF Spec

\* Every variable keeps its type, and two turns of one worker are never both between
\* their answer and their commit: a route does not give up its event loop there.
THEOREM ChatTypes == Spec => []TypeOK
<1>1. Base => TypeOK
  BY DEF Base
<1> QED
  BY <1>1, BaseHolds, PTL

-----------------------------------------------------------------------------
(* Answers *)

FitsTurn(t) ==
  turn[t].text \in Answers =>
    /\ turn[t].text = Answer(turn[t].question, turn[t].prompt, turn[t].evidence)
    /\ Score[turn[t].evidence] >= turn[t].threshold

\* An entry is what the LLM said to the question, the prompt version and the evidence of
\* its key.
CacheIsTrue ==
  \A q \in Questions, p \in Prompts, e \in Packs :
    Key(q, p, e) \in DOMAIN cache => cache[Key(q, p, e)] = Answer(q, p, e)

AnswersInv == Base /\ CacheIsTrue /\ AnswerFitsTurn

LEMMA NoAnswer == {Declined, Empty, Unset} \cap Answers = {}
BY ChatAssumption DEF Answers

LEMMA StepKeepsAnswers ==
  ASSUME AnswersInv, NEW t \in Turns, TurnStep(t)
  PROVE  CacheIsTrue' /\ AnswerFitsTurn'
<1>0. /\ Base /\ TypeOK /\ CacheIsTrue /\ Asked(t) /\ Changed(t)
      /\ turn[t].evidence \in Packs \cup {NoEvidence}
      /\ \A u \in Turns : FitsTurn(u)
  <2>1. turn[t] \in TurnState
    BY DEF AnswersInv, Base, TypeOK
  <2> QED
    BY <2>1, StepIsAlone DEF AnswersInv, Base, AnswerFitsTurn, FitsTurn, TurnState
<1>1. CASE Begins(t) \/ Looks(t) \/ Drops(t)
  <2>1. turn'[t].text = Unset /\ cache' = cache
    BY <1>0, <1>1 DEF Begins, Looks, Drops, Asked
  <2>2. FitsTurn(t)'
    BY <2>1, NoAnswer DEF FitsTurn, Answers
  <2>3. CacheIsTrue'
    BY <1>0, <2>1 DEF CacheIsTrue, Key, Answer
  <2> QED
    BY <1>0, <2>2, <2>3 DEF AnswerFitsTurn, FitsTurn, Changed
<1>2. CASE Declines(t)
  <2>1. turn'[t].text = Declined /\ cache' = cache
    BY <1>2 DEF Declines, Gets
  <2>2. FitsTurn(t)'
    BY <2>1, NoAnswer DEF FitsTurn, Answers
  <2>3. CacheIsTrue'
    BY <1>0, <2>1 DEF CacheIsTrue, Key, Answer
  <2> QED
    BY <1>0, <2>2, <2>3 DEF AnswerFitsTurn, FitsTurn, Changed
<1>3. CASE Hits(t)
  <2> DEFINE q == turn[t].question
             p == turn[t].prompt
  <2>1. PICK e \in Packs \cup {NoEvidence} :
          Enough(t, e) /\ Key(q, p, e) \in DOMAIN cache /\ Gets(t, e, cache[Key(q, p, e)], FALSE)
    BY <1>3 DEF Hits
  <2>2. turn[t].pc = "decide" /\ cache' = cache
    BY <1>3 DEF Hits
  <2>3. q \in Questions /\ p \in Prompts /\ e \in Packs /\ Score[e] >= turn[t].threshold
    BY <1>0, <2>1, <2>2 DEF Asked, Enough
  <2>4. cache[Key(q, p, e)] = Answer(q, p, e)
    BY <1>0, <2>1, <2>3 DEF CacheIsTrue
  <2>5. turn'[t].text = Answer(q, p, e) /\ turn'[t].evidence = e /\ SameRequest(turn[t], turn'[t])
    BY <2>1, <2>4 DEF Gets
  <2>6. FitsTurn(t)'
    BY <2>3, <2>5 DEF FitsTurn, SameRequest, Answer
  <2>7. CacheIsTrue'
    BY <1>0, <2>2 DEF CacheIsTrue, Key, Answer
  <2> QED
    BY <1>0, <2>6, <2>7 DEF AnswerFitsTurn, FitsTurn, Changed
<1>4. CASE Generates(t)
  <2> DEFINE q == turn[t].question
             p == turn[t].prompt
             e == turn[t].evidence
  <2>1. PICK text \in Texts, tokens \in BOOLEAN : Gets(t, e, text, tokens) /\ Generate(t, text, tokens)
    BY <1>4 DEF Generates
  <2>2. /\ turn[t].pc = "generate" /\ text \in {Empty, Answer(q, p, e)}
        /\ Keeps(t, text) => text # Empty
        /\ cache' = IF Keeps(t, text)
                    THEN [k \in DOMAIN cache \cup {Key(q, p, e)} |->
                            IF k = Key(q, p, e) THEN text ELSE cache[k]]
                    ELSE cache
    BY <2>1 DEF Generate, At, Keeps
  <2>3. q \in Questions /\ p \in Prompts /\ e \in Packs /\ Score[e] >= turn[t].threshold
    BY <1>0, <2>2 DEF Asked, Enough
  <2>4. turn'[t].text = text /\ turn'[t].evidence = e /\ SameRequest(turn[t], turn'[t])
    BY <2>1 DEF Gets
  <2>5. FitsTurn(t)'
    BY <2>2, <2>3, <2>4, NoAnswer DEF FitsTurn, SameRequest, Answer, Answers
  <2>6. CacheIsTrue'
    <3>1. CASE Keeps(t, text)
      <4>1. text = Answer(q, p, e)
            /\ cache' = [k \in DOMAIN cache \cup {Key(q, p, e)} |->
                           IF k = Key(q, p, e) THEN text ELSE cache[k]]
        BY <2>2, <3>1
      <4> SUFFICES ASSUME NEW r \in Questions, NEW s \in Prompts, NEW f \in Packs,
                          Key(r, s, f) \in DOMAIN cache'
                   PROVE  cache'[Key(r, s, f)] = Answer(r, s, f)
        BY DEF CacheIsTrue, Key, Answer
      <4>2. CASE Key(r, s, f) = Key(q, p, e)
        <5>1. r = q /\ s = p /\ f = e
          BY <4>2 DEF Key
        <5> HIDE DEF q, p, e
        <5> QED
          BY <4>1, <4>2, <5>1
      <4>3. CASE Key(r, s, f) # Key(q, p, e)
        <5>1. Key(r, s, f) \in DOMAIN cache /\ cache'[Key(r, s, f)] = cache[Key(r, s, f)]
          BY <4>1, <4>3
        <5> QED
          BY <1>0, <5>1 DEF CacheIsTrue
      <4> QED
        BY <4>2, <4>3
    <3>2. CASE ~Keeps(t, text)
      BY <1>0, <2>2, <3>2 DEF CacheIsTrue, Key, Answer
    <3> QED
      BY <3>1, <3>2
  <2> QED
    BY <1>0, <2>5, <2>6 DEF AnswerFitsTurn, FitsTurn, Changed
<1>5. ASSUME SameRequest(turn[t], turn'[t]), SameReply(turn[t], turn'[t]), UNCHANGED cache
      PROVE  CacheIsTrue' /\ AnswerFitsTurn'
  <2>1. FitsTurn(t)'
    BY <1>0, <1>5 DEF FitsTurn, SameRequest, SameReply, Answer, Answers
  <2>2. CacheIsTrue'
    BY <1>0, <1>5 DEF CacheIsTrue, Key, Answer
  <2> QED
    BY <1>0, <2>1, <2>2 DEF AnswerFitsTurn, FitsTurn, Changed
<1>6. \/ Begins(t) \/ Looks(t) \/ Drops(t) \/ Declines(t) \/ Hits(t) \/ Generates(t)
      \/ SameRequest(turn[t], turn'[t]) /\ SameReply(turn[t], turn'[t]) /\ UNCHANGED cache
  BY DEF TurnStep, GetsReply, Moves, Stamps, Commits, Counts
<1> QED
  BY <1>1, <1>2, <1>3, <1>4, <1>5, <1>6

LEMMA NextKeepsAnswers ==
  ASSUME AnswersInv, [Next]_vars
  PROVE  AnswersInv'
<1>0. Base /\ Base' /\ CacheIsTrue /\ \A u \in Turns : FitsTurn(u)
  BY NextKeepsBase DEF AnswersInv, AnswerFitsTurn, FitsTurn
<1>1. ASSUME NEW w \in Workers, Crashes(w) PROVE CacheIsTrue' /\ AnswerFitsTurn'
  <2>1. CacheIsTrue'
    BY <1>0, <1>1 DEF Crashes, CacheIsTrue, Key, Answer
  <2>2. ASSUME NEW t \in Turns PROVE FitsTurn(t)'
    <3>1. CASE ~Hit(t, w)
      BY <1>0, <1>1, <3>1 DEF Crashes, FitsTurn
    <3>2. CASE Hit(t, w) /\ t \in stored
      <4>1. SameRequest(turn[t], turn'[t]) /\ SameReply(turn[t], turn'[t])
        BY <1>1, <3>2 DEF Crashes
      <4> QED
        BY <1>0, <4>1 DEF FitsTurn, SameRequest, SameReply, Answer, Answers
    <3>3. CASE Hit(t, w) /\ t \notin stored
      <4>1. turn'[t].text = Unset
        BY <1>1, <3>3 DEF Crashes
      <4> QED
        BY <4>1, NoAnswer DEF FitsTurn, Answers
    <3> QED
      BY <3>1, <3>2, <3>3
  <2> QED
    BY <2>1, <2>2 DEF AnswerFitsTurn, FitsTurn
<1>2. ASSUME Surrounds PROVE CacheIsTrue' /\ AnswerFitsTurn'
  <2>1. CacheIsTrue'
    BY <1>0, <1>2 DEF Surrounds, CacheIsTrue, Key, Answer
  <2>2. turn' = turn
    BY <1>2 DEF Surrounds
  <2>3. AnswerFitsTurn'
    BY <2>2 DEF AnswersInv, AnswerFitsTurn
  <2> QED
    BY <2>1, <2>3
<1> QED
  BY <1>0, <1>1, <1>2, NextIs, StepKeepsAnswers DEF AnswersInv

\* A reply that is not the declining one was generated for the question of the turn, by the
\* prompt version it selected, over the evidence it cites, and that evidence reaches the
\* threshold it began with; through the shared cache too.
THEOREM AnswersFit == Spec => []AnswerFitsTurn
<1>1. Init => AnswersInv
  <2> SUFFICES ASSUME Init PROVE AnswersInv
    OBVIOUS
  <2>1. Base /\ cache = <<>> /\ \A t \in Turns : turn[t].text = Unset
    BY InitBase DEF Init, Idle
  <2>2. CacheIsTrue
    BY <2>1 DEF CacheIsTrue
  <2>3. AnswerFitsTurn
    BY <2>1, NoAnswer DEF AnswerFitsTurn
  <2> QED
    BY <2>1, <2>2, <2>3 DEF AnswersInv
<1>2. AnswersInv /\ [Next]_vars => AnswersInv'
  BY NextKeepsAnswers
<1>3. AnswersInv => AnswerFitsTurn
  BY DEF AnswersInv
<1> QED
  BY <1>1, <1>2, <1>3, PTL DEF Spec

-----------------------------------------------------------------------------
(* Messages *)

LEMMA BaseStores ==
  ASSUME Base
  PROVE  DoneIsStored
<1>1. ASSUME NEW t \in Turns, turn[t].pc = "done" /\ turn[t].kind # "call" PROVE t \in stored
  BY <1>1 DEF Base, Stage
<1>2. ASSUME NEW t \in Turns, turn[t].pc = "failed" PROVE t \notin stored
  BY <1>2 DEF Base, Stage
<1>3. ASSUME NEW t \in stored, NEW role \in {"user", "assistant"}
      PROVE  Cardinality({i \in 1..Len(order) : order[i] = Row(t, role)}) = 1
  <2>1. Row(t, role) \in Elems(order)
    BY <1>3 DEF Base, TypeOK, RowsIn
  <2>2. PICK i \in 1..Len(order) : order[i] = Row(t, role)
    BY <2>1 DEF Elems
  <2>3. {j \in 1..Len(order) : order[j] = Row(t, role)} = {i}
    BY <2>2 DEF Base, Once
  <2> QED
    BY <2>3, FS_Singleton
<1> QED
  BY <1>1, <1>2, <1>3 DEF DoneIsStored

\* A client that is told its turn is done has its question and its answer in the table,
\* each once; a turn that failed has neither, whatever other turns and processes did.
THEOREM MessagesAreStored == Spec => []DoneIsStored
BY BaseHolds, BaseStores, PTL

-----------------------------------------------------------------------------
(* Usage *)

Rates == {t \in Counted : turn[t].rate}

UsageInv == Base /\ UsageIsExact

LEMMA CountedTyped ==
  ASSUME Base
  PROVE  /\ Counted \in SUBSET Turns /\ IsFiniteSet(Counted) /\ Cardinality(Counted) \in Nat
         /\ Rates \in SUBSET Counted /\ IsFiniteSet(Rates) /\ Cardinality(Rates) \in Nat
         /\ usage.requests \in Nat /\ usage.cost \in Nat \cup {Unset} /\ Unset \notin Nat
<1>1. Counted \in SUBSET Turns /\ Rates \in SUBSET Counted
  BY DEF Counted, Rates
<1>2. IsFiniteSet(Counted)
  BY <1>1, ChatAssumption, FS_Subset
<1>3. IsFiniteSet(Rates)
  BY <1>1, <1>2, FS_Subset
<1>4. usage.requests \in Nat /\ usage.cost \in Nat \cup {Unset} /\ Unset \notin Nat
  BY ChatAssumption DEF Base, TypeOK
<1> QED
  BY <1>1, <1>2, <1>3, <1>4, FS_CardinalityType

LEMMA UsageStays ==
  ASSUME UsageInv, usage' = usage, Counted' = Counted, Rates' = Rates
  PROVE  UsageIsExact'
BY DEF UsageInv, UsageIsExact, Rates

\* Only the middleware makes a turn of /ask one that is counted.
LEMMA CountedStays ==
  ASSUME Base, NEW t \in Turns, TurnStep(t), ~Counts(t)
  PROVE  Counted' = Counted /\ Rates' = Rates /\ usage' = usage
<1>1. usage' = usage /\ Changed(t)
  BY StepIsAlone DEF TurnStep, Begins, Looks, GetsReply, Declines, Hits, Generates, Gets, Moves, Drops,
         Stamps, Commits
<1>2. turn[t].pc # "done" /\ (turn'[t].pc = "done" => turn'[t].kind # "ask")
  BY DEF TurnStep, Begins, Looks, GetsReply, Declines, Hits, Generates, Gets, Moves, Drops,
         Stamps, Commits, SameRequest
<1>3. t \notin Counted /\ t \notin Counted'
  BY <1>2 DEF Counted
<1>4. \A u \in Turns \ {t} : turn'[u] = turn[u]
  BY <1>1 DEF Changed
<1>5. Counted' = Counted
  BY <1>3, <1>4 DEF Counted
<1>6. Rates' = Rates
  BY <1>3, <1>4, <1>5 DEF Rates, Counted
<1> QED
  BY <1>1, <1>5, <1>6

LEMMA CountsExactly ==
  ASSUME UsageInv, NEW t \in Turns, Counts(t)
  PROVE  UsageIsExact'
<1> DEFINE known == turn[t].worker \in rated
<1>0. /\ turn[t].pc = "count" /\ turn'[t].pc = "done" /\ turn'[t].rate = known
      /\ turn'[t].kind = turn[t].kind /\ turn'[t].tokens = turn[t].tokens
      /\ \A u \in Turns \ {t} : turn'[u] = turn[u]
      /\ usage' = IF turn[t].tokens THEN Accumulate(t) ELSE usage
      /\ t \notin Counted
  BY DEF Counts, Changed, SameRequest, SameReply, Counted
<1>1. turn[t].kind = "ask"
  BY <1>0 DEF UsageInv, Base, Stage
<1>2. /\ IsFiniteSet(Counted) /\ IsFiniteSet(Rates) /\ Rates \in SUBSET Counted
      /\ Cardinality(Counted) \in Nat /\ Cardinality(Rates) \in Nat
      /\ usage.requests = Cardinality(Counted)
      /\ usage.cost # Unset => usage.cost = Cardinality(Rates)
      /\ usage.cost \in Nat \cup {Unset} /\ Unset \notin Nat
  BY CountedTyped DEF UsageInv, UsageIsExact, Rates
<1>3. CASE ~turn[t].tokens
  <2>1. t \notin Counted' /\ usage' = usage
    BY <1>0, <1>3 DEF Counted
  <2>2. Counted' = Counted
    BY <1>0, <2>1 DEF Counted
  <2>3. Rates' = Rates
    BY <1>0, <2>2 DEF Rates, Counted
  <2> QED
    BY <2>1, <2>2, <2>3, UsageStays
<1>4. CASE turn[t].tokens
  <2>1. /\ usage'.requests = usage.requests + 1
        /\ usage'.cost = AddCost(usage.cost, usage.requests, known)
    BY <1>0, <1>4 DEF Accumulate
  <2>2. Counted' = Counted \cup {t}
    BY <1>0, <1>1, <1>4 DEF Counted
  <2>3. Cardinality(Counted') = Cardinality(Counted) + 1
    BY <1>0, <1>2, <2>2, FS_AddElement
  <2>4. usage'.requests = Cardinality(Counted')
    BY <1>2, <2>1, <2>3
  <2>5. Rates' = IF known THEN Rates \cup {t} ELSE Rates
    <3>1. \A u \in Counted : turn'[u] = turn[u]
      BY <1>0 DEF Counted
    <3>2. CASE known
      BY <1>0, <2>2, <3>1, <3>2 DEF Rates
    <3>3. CASE ~known
      BY <1>0, <2>2, <3>1, <3>3 DEF Rates
    <3> QED
      BY <3>2, <3>3
  <2>6. Cardinality(Rates') = IF known THEN Cardinality(Rates) + 1 ELSE Cardinality(Rates)
    <3>1. t \notin Rates
      BY <1>0, <1>2
    <3> QED
      BY <1>2, <2>5, <3>1, FS_AddElement
  <2> HIDE DEF known
  <2>7. ASSUME usage'.cost # Unset PROVE usage'.cost = Cardinality(Rates')
    <3>1. CASE usage.requests = 0
      <4>1. Counted = {}
        BY <1>2, <3>1, FS_EmptySet
      <4>2. Rates = {} /\ Cardinality(Rates) = 0
        BY <1>2, <4>1, FS_EmptySet
      <4>3. known /\ usage'.cost = 1
        BY <2>1, <2>7, <3>1 DEF AddCost
      <4> QED
        BY <2>6, <4>2, <4>3
    <3>2. CASE usage.requests # 0 /\ known /\ usage.cost # Unset
      BY <1>2, <2>1, <2>6, <3>2 DEF AddCost
    <3>3. CASE usage.requests # 0 /\ ~(known /\ usage.cost # Unset)
      <4>1. usage'.cost = usage.cost
        BY <2>1, <3>3 DEF AddCost
      <4>2. ~known
        BY <2>7, <3>3, <4>1
      <4> QED
        BY <1>2, <2>6, <2>7, <4>1, <4>2
    <3> QED
      BY <3>1, <3>2, <3>3
  <2> QED
    BY <2>4, <2>7 DEF UsageIsExact, Rates
<1> QED
  BY <1>3, <1>4

LEMMA NextKeepsUsage ==
  ASSUME UsageInv, [Next]_vars
  PROVE  UsageInv'
<1>0. Base /\ Base'
  BY NextKeepsBase DEF UsageInv
<1>1. ASSUME NEW t \in Turns, TurnStep(t) PROVE UsageIsExact'
  BY <1>0, <1>1, CountsExactly, CountedStays, UsageStays
<1>2. ASSUME NEW w \in Workers, Crashes(w) PROVE UsageIsExact'
  <2>1. usage' = usage
    BY <1>2 DEF Crashes
  <2>2. \A t \in Turns : turn[t].pc = "done" => turn'[t] = turn[t]
    BY <1>2 DEF Crashes, Hit, Ended
  <2>3. \A t \in Turns : turn'[t].pc = "done" => turn'[t] = turn[t]
    BY <1>2 DEF Crashes
  <2>4. Counted' = Counted
    BY <2>2, <2>3 DEF Counted
  <2>5. Rates' = Rates
    BY <2>2, <2>4 DEF Rates, Counted
  <2> QED
    BY <2>1, <2>4, <2>5, UsageStays
<1>3. ASSUME Surrounds PROVE UsageIsExact'
  <2>1. turn' = turn /\ usage' = usage
    BY <1>3 DEF Surrounds
  <2>2. Counted' = Counted /\ Rates' = Rates
    BY <2>1 DEF Counted, Rates
  <2> QED
    BY <2>1, <2>2, UsageStays
<1> QED
  BY <1>0, <1>1, <1>2, <1>3, NextIs DEF UsageInv

\* The daily row counts every turn of /ask that spent tokens once, and no other; a cost in
\* it is the cost of the turns whose price was known.
THEOREM UsageCounts == Spec => []UsageIsExact
<1>1. Init => UsageInv
  <2> SUFFICES ASSUME Init PROVE UsageInv
    OBVIOUS
  <2>1. Base /\ usage = [requests |-> 0, cost |-> Unset] /\ \A t \in Turns : turn[t].pc = "idle"
    BY InitBase DEF Init, Idle
  <2>2. Counted = {}
    BY <2>1 DEF Counted
  <2>3. UsageIsExact
    BY <2>1, <2>2, FS_EmptySet DEF UsageIsExact
  <2> QED
    BY <2>1, <2>3 DEF UsageInv
<1>2. UsageInv /\ [Next]_vars => UsageInv'
  BY NextKeepsUsage
<1>3. UsageInv => UsageIsExact
  BY DEF UsageInv
<1> QED
  BY <1>1, <1>2, <1>3, PTL DEF Spec

-----------------------------------------------------------------------------
(* The order of a thread's rows *)

\* In a thread that never raced the rows of a turn are next to each other, the question
\* first, and nothing follows a question whose answer is not yet written.
Orderly(t) ==
  turn[t].thread \notin raced =>
    /\ Row(t, "assistant") \in Elems(order) =>
         /\ Precedes(order, Row(t, "user"), Row(t, "assistant"))
         /\ \A c \in Elems(order) :
              turn[c.turn].thread = turn[t].thread =>
                ~(Precedes(order, Row(t, "user"), c) /\ Precedes(order, c, Row(t, "assistant")))
    /\ turn[t].pc = "assistant" =>
         \A c \in Elems(order) :
           turn[c.turn].thread = turn[t].thread => ~Precedes(order, Row(t, "user"), c)

OrderInv == Base /\ \A t \in Turns : Orderly(t)

LEMMA RowIs ==
  ASSUME Base, NEW c \in Elems(order)
  PROVE  c.turn \in Turns /\ c.role \in {"user", "assistant"} /\ c = Row(c.turn, c.role)
<1>1. c \in [turn : Turns, role : {"user", "assistant"}]
  BY OrderTyped DEF Base, Elems, Rows
<1> QED
  BY <1>1 DEF Row

\* A row keeps its thread.
LEMMA ThreadStays ==
  ASSUME Base, NEW t \in Turns, TurnStep(t), NEW c \in Elems(order)
  PROVE  turn'[c.turn].thread = turn[c.turn].thread
<1>0. c.turn \in Turns /\ c.role \in {"user", "assistant"} /\ c = Row(c.turn, c.role)
  BY RowIs
<1>1. CASE c.turn = t
  <2>1. turn[t].pc \in {"assistant", "commit", "count", "done", "gone"}
    BY <1>0, <1>1 DEF Base, RowsIn, Stage
  <2>2. SameRequest(turn[t], turn'[t])
    BY <2>1 DEF TurnStep, Begins, Looks, GetsReply, Declines, Hits, Generates, Gets, Moves, Drops,
           Stamps, Commits, Counts
  <2> QED
    BY <1>1, <2>2 DEF SameRequest
<1>2. CASE c.turn # t
  BY <1>0, <1>2, StepIsLocal DEF Local
<1> QED
  BY <1>1, <1>2

LEMMA StampKeepsOrder ==
  ASSUME OrderInv, NEW t \in Turns, NEW role \in {"user", "assistant"}, NEW late \in BOOLEAN,
         Stamps(t, role, late), NEW u \in Turns
  PROVE  Orderly(u)'
<1> DEFINE row == Row(t, role)
           th == turn[t].thread
           old == Elems(order)
           asked == Row(u, "user")
           replied == Row(u, "assistant")
<1>0. Base /\ Base' /\ TurnStep(t) /\ Orderly(u) /\ Orderly(t) /\ RowsIn(u) /\ RowsIn(u)' /\ RowsIn(t)
  BY StepKeepsBase DEF OrderInv, TurnStep, Base
<1>1. /\ order' \in Seq(Rows) /\ Once(order') /\ row \notin old
      /\ Elems(order') = old \cup {row}
      /\ \A a, b \in old : Precedes(order', a, b) <=> Precedes(order, a, b)
      /\ \A a \in old : (~late /\ a = order[Len(order)]) \/ Precedes(order', a, row)
  BY <1>0, StampsRows
<1>2. /\ turn'[t].thread = th /\ \A c \in old : turn'[c.turn].thread = turn[c.turn].thread
      /\ turn'[u].thread = turn[u].thread
  <2>1. turn'[t].thread = th
    BY DEF Stamps, SameRequest
  <2>2. turn'[u].thread = turn[u].thread
    BY <2>1 DEF Stamps, Changed
  <2> QED
    BY <1>0, <2>1, <2>2, ThreadStays
<1>3. row.turn = t /\ (Row(u, "user"))' = asked /\ (Row(u, "assistant"))' = replied
  BY DEF Row
<1> SUFFICES ASSUME turn[u].thread \notin raced'
    PROVE  /\ replied \in Elems(order') =>
                /\ Precedes(order', asked, replied)
                /\ \A c \in Elems(order') :
                     turn'[c.turn].thread = turn[u].thread =>
                       ~(Precedes(order', asked, c) /\ Precedes(order', c, replied))
           /\ turn'[u].pc = "assistant" =>
                \A c \in Elems(order') :
                  turn'[c.turn].thread = turn[u].thread => ~Precedes(order', asked, c)
  BY <1>2, <1>3 DEF Orderly, Elems, Precedes
<1>4. raced \subseteq raced' /\ turn[u].thread \notin raced
  BY DEF Stamps
<1>5. ASSUME NEW a \in old, turn[a.turn].thread = th, th = turn[u].thread
      PROVE  Precedes(order', a, row) /\ ~Precedes(order', row, a)
  <2>1. ~(~late /\ a = order[Len(order)])
    <3> SUFFICES ASSUME ~late, a = order[Len(order)] PROVE FALSE
      OBVIOUS
    <3>1. Last(order) = a
      BY DEF Last
    <3> QED
      BY <1>5, <3>1 DEF Stamps
  <2>2. Precedes(order', a, row)
    BY <1>1, <2>1
  <2> QED
    BY <1>1, <2>2, OneWay
<1>6. ~Precedes(order', row, row)
  BY <1>1, OneWay
<1>7. CASE u # t
  <2>1. turn'[u] = turn[u] /\ (replied \in Elems(order') <=> replied \in old)
        /\ (asked \in Elems(order') <=> asked \in old)
    BY <1>7, <1>0, StepIsLocal DEF Local
  <2>2. ASSUME replied \in Elems(order')
        PROVE  Precedes(order', asked, replied)
               /\ \A c \in Elems(order') :
                    turn'[c.turn].thread = turn[u].thread =>
                      ~(Precedes(order', asked, c) /\ Precedes(order', c, replied))
    <3>1. replied \in old /\ asked \in old
      BY <1>0, <2>1, <2>2 DEF RowsIn
    <3>2. /\ Precedes(order, asked, replied)
          /\ \A c \in old : turn[c.turn].thread = turn[u].thread =>
               ~(Precedes(order, asked, c) /\ Precedes(order, c, replied))
      BY <1>0, <1>4, <3>1 DEF Orderly
    <3>3. Precedes(order', asked, replied)
      BY <1>1, <3>1, <3>2
    <3>4. \A c \in old : turn'[c.turn].thread = turn[u].thread =>
            ~(Precedes(order', asked, c) /\ Precedes(order', c, replied))
      BY <1>1, <1>2, <3>1, <3>2
    <3>5. th = turn[u].thread => ~Precedes(order', row, replied)
      <4>1. replied.turn = u
        BY DEF Row
      <4> QED
        BY <1>5, <3>1, <4>1
    <3> QED
      BY <1>1, <1>2, <1>3, <3>3, <3>4, <3>5
  <2>3. ASSUME turn'[u].pc = "assistant"
        PROVE  \A c \in Elems(order') :
                 turn'[c.turn].thread = turn[u].thread => ~Precedes(order', asked, c)
    <3>1. turn[u].pc = "assistant" /\ asked \in old
      BY <1>0, <2>1, <2>3 DEF RowsIn
    <3>2. turn[u].thread # th
      BY <1>7, <3>1 DEF Stamps, Peers
    <3>3. \A c \in old : turn[c.turn].thread = turn[u].thread => ~Precedes(order, asked, c)
      BY <1>0, <1>4, <3>1 DEF Orderly
    <3> QED
      BY <1>1, <1>2, <1>3, <3>1, <3>2, <3>3
  <2> QED
    BY <2>2, <2>3
<1>8. CASE u = t /\ role = "user"
  <2>1. row = asked /\ replied \notin Elems(order')
    <3>1. t \notin stored /\ turn'[t].pc = "assistant" /\ stored' = stored
      BY <1>0, <1>8, StampsRows DEF Stamps
    <3>2. Elems(order)' = Elems(order')
      BY DEF Elems
    <3> QED
      BY <1>0, <1>3, <1>8, <3>1, <3>2 DEF RowsIn
  <2>2. \A c \in Elems(order') : turn'[c.turn].thread = turn[u].thread => ~Precedes(order', asked, c)
    BY <1>1, <1>2, <1>5, <1>6, <1>8, <2>1
  <2> QED
    BY <2>1, <2>2
<1>9. CASE u = t /\ role = "assistant"
  <2>1. row = replied /\ turn[t].pc = "assistant" /\ turn'[t].pc = "commit" /\ asked \in old
    BY <1>0, <1>9 DEF Stamps, RowsIn
  <2>2. Precedes(order', asked, replied)
    <3>1. asked.turn = t
      BY <1>9 DEF Row
    <3> QED
      BY <1>5, <1>9, <2>1, <3>1
  <2>3. \A c \in old : turn[c.turn].thread = turn[u].thread => ~Precedes(order, asked, c)
    BY <1>0, <1>4, <1>9, <2>1 DEF Orderly
  <2>4. ASSUME NEW c \in Elems(order'), turn'[c.turn].thread = turn[u].thread
        PROVE  ~(Precedes(order', asked, c) /\ Precedes(order', c, replied))
    <3>1. CASE c = row
      BY <1>6, <2>1, <3>1
    <3>2. CASE c \in old
      BY <1>1, <1>2, <2>1, <2>3, <2>4, <3>2
    <3> QED
      BY <1>1, <3>1, <3>2
  <2> QED
    BY <1>9, <2>1, <2>2, <2>4
<1> QED
  BY <1>7, <1>8, <1>9

\* A step that writes no row.
LEMMA QuietKeepsOrder ==
  ASSUME OrderInv, NEW t \in Turns, TurnStep(t), order' = order, raced' = raced,
         turn'[t].pc # "assistant", NEW u \in Turns
  PROVE  Orderly(u)'
<1>0. Base /\ Orderly(u) /\ Row(u, "user")' = Row(u, "user")
      /\ Row(u, "assistant")' = Row(u, "assistant")
  BY DEF OrderInv, Row
<1>1. \A c \in Elems(order) : turn'[c.turn].thread = turn[c.turn].thread
  BY <1>0, ThreadStays
<1>2. Row(u, "assistant") \in Elems(order) => turn'[u].thread = turn[u].thread
  <2>1. Row(u, "assistant").turn = u
    BY DEF Row
  <2> QED
    BY <1>1, <2>1
<1>3. turn'[u].pc = "assistant" => turn'[u] = turn[u]
  BY <1>0, StepIsLocal DEF Local
<1>4. ASSUME turn'[u].thread \notin raced, Row(u, "assistant") \in Elems(order)
      PROVE  /\ Precedes(order, Row(u, "user"), Row(u, "assistant"))
             /\ \A c \in Elems(order) :
                  turn'[c.turn].thread = turn'[u].thread =>
                    ~(Precedes(order, Row(u, "user"), c) /\ Precedes(order, c, Row(u, "assistant")))
  BY <1>0, <1>1, <1>2, <1>4 DEF Orderly
<1>5. ASSUME turn'[u].thread \notin raced, turn'[u].pc = "assistant"
      PROVE  \A c \in Elems(order) :
               turn'[c.turn].thread = turn'[u].thread => ~Precedes(order, Row(u, "user"), c)
  BY <1>0, <1>1, <1>3, <1>5 DEF Orderly
<1>6. Elems(order)' = Elems(order) /\ \A a, b \in {Row(u, "user"), Row(u, "assistant")} \cup Elems(order) :
        Precedes(order, a, b)' <=> Precedes(order, a, b)
  BY DEF Elems, Precedes
<1> QED
  BY <1>0, <1>4, <1>5, <1>6 DEF Orderly

LEMMA CrashKeepsOrder ==
  ASSUME OrderInv, NEW w \in Workers, Crashes(w), NEW u \in Turns
  PROVE  Orderly(u)'
<1> DEFINE asked == Row(u, "user")
           replied == Row(u, "assistant")
<1>0. Base /\ Orderly(u) /\ RowsIn(u) /\ raced' = raced /\ asked' = asked /\ replied' = replied
  BY DEF OrderInv, Row, Crashes, Base
<1>1. /\ Elems(order') \subseteq Elems(order)
      /\ \A v \in Turns : \A role \in {"user", "assistant"} :
           Row(v, role) \in Elems(order') <=>
             Row(v, role) \in Elems(order) /\ (v \in stored \/ ~Hit(v, w))
      /\ \A a, b \in Elems(order') : Precedes(order', a, b) <=> Precedes(order, a, b)
  BY <1>0, CrashRows
<1>2. ASSUME NEW v \in Turns, v \in stored \/ ~Hit(v, w) PROVE turn'[v].thread = turn[v].thread
  BY <1>2 DEF Crashes, SameRequest
<1>3. ASSUME NEW c \in Elems(order') PROVE turn'[c.turn].thread = turn[c.turn].thread
  <2>1. c \in Elems(order)
    BY <1>1
  <2>2. c.turn \in Turns /\ c.role \in {"user", "assistant"} /\ c = Row(c.turn, c.role)
    BY <1>0, <2>1, RowIs
  <2>3. c.turn \in stored \/ ~Hit(c.turn, w)
    BY <1>1, <2>2
  <2> QED
    BY <1>2, <2>2, <2>3
<1>4. ASSUME turn'[u].thread \notin raced, replied \in Elems(order')
      PROVE  /\ Precedes(order', asked, replied)
             /\ \A c \in Elems(order') :
                  turn'[c.turn].thread = turn'[u].thread =>
                    ~(Precedes(order', asked, c) /\ Precedes(order', c, replied))
  <2>1. replied \in Elems(order) /\ asked \in Elems(order) /\ (u \in stored \/ ~Hit(u, w))
    BY <1>0, <1>1, <1>4 DEF RowsIn
  <2>2. asked \in Elems(order') /\ turn'[u].thread = turn[u].thread
    BY <1>1, <1>2, <2>1
  <2>3. /\ Precedes(order, asked, replied)
        /\ \A c \in Elems(order) : turn[c.turn].thread = turn[u].thread =>
             ~(Precedes(order, asked, c) /\ Precedes(order, c, replied))
    BY <1>0, <1>4, <2>1, <2>2 DEF Orderly
  <2> QED
    BY <1>1, <1>3, <1>4, <2>2, <2>3
<1>5. ASSUME turn'[u].thread \notin raced, turn'[u].pc = "assistant"
      PROVE  \A c \in Elems(order') :
               turn'[c.turn].thread = turn'[u].thread => ~Precedes(order', asked, c)
  <2>1. ~Hit(u, w) /\ turn'[u] = turn[u]
    BY <1>5 DEF Crashes
  <2>2. asked \in Elems(order')
    BY <1>0, <1>1, <1>5, <2>1 DEF RowsIn
  <2>3. \A c \in Elems(order) : turn[c.turn].thread = turn[u].thread => ~Precedes(order, asked, c)
    BY <1>0, <1>5, <2>1 DEF Orderly
  <2> QED
    BY <1>1, <1>3, <2>1, <2>2, <2>3
<1> QED
  BY <1>0, <1>4, <1>5 DEF Orderly, Elems, Precedes

LEMMA NextKeepsOrder ==
  ASSUME OrderInv, [Next]_vars
  PROVE  OrderInv'
<1>0. Base /\ Base'
  BY NextKeepsBase DEF OrderInv
<1>1. ASSUME NEW t \in Turns, TurnStep(t), NEW u \in Turns PROVE Orderly(u)'
  <2>1. CASE \E role \in {"user", "assistant"}, late \in BOOLEAN : Stamps(t, role, late)
    BY <2>1, StampKeepsOrder
  <2>2. CASE order' = order /\ raced' = raced /\ turn'[t].pc # "assistant"
    BY <1>1, <2>2, QuietKeepsOrder
  <2>3. \/ \E role \in {"user", "assistant"}, late \in BOOLEAN : Stamps(t, role, late)
        \/ order' = order /\ raced' = raced /\ turn'[t].pc # "assistant"
    <3>1. CASE Begins(t) \/ Looks(t) \/ Moves(t) \/ Drops(t) \/ Commits(t) \/ Counts(t)
      BY <3>1 DEF Begins, Looks, Moves, Drops, Commits, Counts, rows
    <3>2. CASE GetsReply(t)
      BY <3>2 DEF GetsReply, Declines, Hits, Generates, Gets, rows
    <3> QED
      BY <1>1, <3>1, <3>2 DEF TurnStep
  <2> QED
    BY <2>1, <2>2, <2>3
<1>2. ASSUME NEW w \in Workers, Crashes(w), NEW u \in Turns PROVE Orderly(u)'
  BY <1>2, CrashKeepsOrder
<1>3. ASSUME Surrounds, NEW u \in Turns PROVE Orderly(u)'
  <2>1. turn' = turn /\ order' = order /\ raced' = raced
    BY <1>3 DEF Surrounds, rows
  <2>2. Orderly(u)
    BY DEF OrderInv
  <2>3. Orderly(u)' <=> Orderly(u)
    BY <2>1 DEF Orderly, Elems, Precedes, Row
  <2> QED
    BY <2>2, <2>3
<1> QED
  BY <1>0, <1>1, <1>2, <1>3, NextIs DEF OrderInv

-----------------------------------------------------------------------------
(* The history *)

\* A row before another has the smaller position.
LEMMA Positions ==
  ASSUME Base, NEW i \in 1..Len(order), NEW j \in 1..Len(order)
  PROVE  Precedes(order, order[i], order[j]) <=> i < j
<1>1. ASSUME i < j PROVE Precedes(order, order[i], order[j])
  BY <1>1 DEF Precedes
<1>2. ASSUME Precedes(order, order[i], order[j]) PROVE i < j
  <2>1. PICK k \in 1..Len(order), l \in 1..Len(order) :
          k < l /\ order[k] = order[i] /\ order[l] = order[j]
    BY <1>2 DEF Precedes
  <2>2. k = i /\ l = j
    BY <2>1 DEF Base, Once
  <2> QED
    BY <2>1, <2>2
<1> QED
  BY <1>1, <1>2

\* In a thread that never raced and has no blank question, the question of a reply is the
\* message before it.
LEMMA PendingIs ==
  ASSUME OrderInv, NEW th \in Threads \ (raced \cup Blank), NEW i \in Messages(th),
         order[i].role = "assistant"
  PROVE  \E j \in 1..Len(order) :
           /\ Pending(Messages(th), i) = {j} /\ j < i
           /\ order[j] = Row(order[i].turn, "user")
           /\ j \in Exchanges(th)
<1> DEFINE M == Messages(th)
           t == order[i].turn
<1>0. /\ Base /\ i \in 1..Len(order) /\ t \in Turns /\ t \in stored /\ turn[t].thread = th
      /\ HasContent(order[i]) /\ RowsIn(t) /\ Orderly(t) /\ order[i] = Row(t, "assistant")
      /\ M \in SUBSET Nat
  <2>1. i \in 1..Len(order) /\ t \in stored /\ turn[t].thread = th /\ HasContent(order[i])
    BY DEF Messages
  <2>2. Base /\ order[i] \in Elems(order)
    BY <2>1 DEF OrderInv, Elems
  <2>3. t \in Turns /\ order[i] = Row(t, "assistant")
    BY <2>2, RowIs
  <2> QED
    BY <2>1, <2>2, <2>3 DEF OrderInv, Base, Messages
<1>1. PICK j \in 1..Len(order) : order[j] = Row(t, "user")
  BY <1>0 DEF RowsIn, Elems
<1>2. /\ order[j].turn = t /\ order[j].role = "user"
      /\ turn[t].question # Empty /\ turn[t].text # Empty
  <2>1. order[j].turn = t /\ order[j].role = "user"
    BY <1>1 DEF Row
  <2>2. turn[t].question # Empty
    BY <1>0 DEF Blank
  <2>3. turn[t].text # Empty
    BY <1>0 DEF HasContent, Content
  <2> QED
    BY <2>1, <2>2, <2>3
<1>3. j \in M
  BY <1>0, <1>1, <1>2 DEF Messages, HasContent, Content
<1>4. /\ Precedes(order, order[j], order[i])
      /\ \A c \in Elems(order) : turn[c.turn].thread = th =>
           ~(Precedes(order, order[j], c) /\ Precedes(order, c, order[i]))
  <2>1. order[i] \in Elems(order)
    BY <1>0 DEF Elems
  <2> QED
    BY <1>0, <1>1, <2>1 DEF Orderly
<1>5. j < i
  BY <1>0, <1>4, Positions
<1>6. ASSUME NEW k \in M, k < i PROVE k <= j
  <2>1. k \in 1..Len(order) /\ turn[order[k].turn].thread = th /\ order[k] \in Elems(order)
    BY DEF Messages, Elems
  <2>2. ~(j < k)
    BY <1>0, <1>4, <1>6, <2>1, Positions
  <2> QED
    BY <2>1, <2>2
<1>7. j \in Pending(M, i)
  BY <1>2, <1>3, <1>5, <1>6 DEF Pending
<1>8. ASSUME NEW k \in Pending(M, i) PROVE k = j
  <2>1. k \in M /\ k < i /\ \A l \in M : l < i => l <= k
    BY DEF Pending
  <2>2. k <= j /\ j <= k
    BY <1>3, <1>5, <1>6, <2>1
  <2>3. k \in Nat /\ j \in Nat
    BY <1>0, <1>3, <2>1
  <2> QED
    BY <2>2, <2>3
<1>9. Pending(M, i) = {j}
  BY <1>7, <1>8
<1>10. j \in Exchanges(th)
  BY <1>0, <1>1, <1>2 DEF Exchanges, Replied
<1> QED
  BY <1>1, <1>5, <1>9, <1>10

LEMMA PairsAre ==
  ASSUME OrderInv, NEW th \in Threads \ (raced \cup Blank)
  PROVE  /\ Pairs(th) = Conversation(th)
         /\ Exchanges(th) \in SUBSET Nat /\ IsFiniteSet(Exchanges(th))
         /\ Len(Pairs(th)) = Cardinality(Exchanges(th))
<1> DEFINE M == Messages(th)
           P == Replies(M)
           Q == Exchanges(th)
           Asker(i) == CHOOSE j \in Pending(M, i) : TRUE
           f == [i \in P |-> Asker(i)]
<1>0. /\ Base /\ TypeOK /\ P \in SUBSET (1..Len(order)) /\ IsFiniteSet(P)
      /\ Len(Pairs(th)) = Cardinality(P) /\ Len(order) \in Nat
      /\ Q \in SUBSET (1..Len(order)) /\ IsFiniteSet(Q)
  <2>1. Base /\ TypeOK /\ Q \in SUBSET (1..Len(order))
    BY DEF OrderInv, Base, Exchanges
  <2>2. IsFiniteSet(1..Len(order)) /\ Len(order) \in Nat
    BY <2>1, OrderTyped
  <2> HIDE DEF Q
  <2>3. IsFiniteSet(Q)
    BY <2>1, <2>2, FS_Subset
  <2> QED
    BY <2>1, <2>2, <2>3, PairsTyped
<1>1. ASSUME NEW i \in P
      PROVE  /\ i \in M /\ order[i].role = "assistant"
             /\ f[i] \in Q /\ f[i] < i /\ order[f[i]].turn = order[i].turn
             /\ f[i] = Asker(i) /\ order[f[i]] = Row(order[i].turn, "user")
             /\ \A k \in M : k < i => k <= f[i]
  <2>1. i \in M /\ order[i].role = "assistant"
    BY DEF Replies
  <2>2. PICK j \in 1..Len(order) :
          /\ Pending(M, i) = {j} /\ j < i /\ order[j] = Row(order[i].turn, "user") /\ j \in Q
    BY <2>1, PendingIs
  <2>3. Asker(i) = j
    BY <2>2
  <2>4. f[i] = j
    BY <2>3
  <2>5. order[j].turn = order[i].turn
    BY <2>2 DEF Row
  <2>6. \A k \in M : k < i => k <= j
    BY <2>2 DEF Pending
  <2> QED
    BY <2>1, <2>2, <2>3, <2>4, <2>5, <2>6
<1>2. \A j \in Q : \E i \in P : f[i] = j
  <2> SUFFICES ASSUME NEW j \in Q PROVE \E i \in P : f[i] = j
    OBVIOUS
  <2> DEFINE t == order[j].turn
  <2>1. j \in 1..Len(order) /\ t \in stored /\ turn[t].thread = th /\ order[j].role = "user"
        /\ turn[t].text # Empty
    BY DEF Exchanges, Replied
  <2>2. order[j] \in Elems(order) /\ order[j] = Row(t, "user") /\ t \in Turns
    <3>1. order[j] \in Elems(order)
      BY <2>1 DEF Elems
    <3> QED
      BY <1>0, <2>1, <3>1, RowIs
  <2>3. PICK i \in 1..Len(order) : order[i] = Row(t, "assistant")
    BY <1>0, <2>1, <2>2 DEF Base, RowsIn, Elems
  <2>4. order[i].turn = t /\ order[i].role = "assistant"
    BY <2>3 DEF Row
  <2>5. i \in M
    BY <2>1, <2>4 DEF Messages, HasContent, Content
  <2>6. i \in P
    <3>1. PICK k \in 1..Len(order) : Pending(M, i) = {k}
      BY <2>4, <2>5, PendingIs
    <3> QED
      BY <2>4, <2>5, <3>1 DEF Replies
  <2>7. order[f[i]] = order[j] /\ f[i] \in 1..Len(order)
    BY <1>0, <1>1, <2>2, <2>4, <2>6
  <2>8. f[i] = j
    BY <1>0, <2>1, <2>7 DEF Base, Once
  <2> QED
    BY <2>6, <2>8
<1>3. f \in Surjection(P, Q)
  <2>1. f \in [P -> Q]
    BY <1>1
  <2> HIDE DEF f
  <2> QED
    BY <1>2, <2>1 DEF Surjection
<1>4. ASSUME NEW i \in P, NEW k \in P, i < k PROVE f[i] < f[k]
  <2>1. f[i] < i /\ i <= f[k] /\ f[i] \in Q /\ f[k] \in Q
    BY <1>1, <1>4
  <2>2. i \in Nat /\ f[i] \in Nat /\ f[k] \in Nat
    BY <1>0, <2>1
  <2> QED
    BY <2>1, <2>2
<1>5. P \in SUBSET Nat /\ Q \in SUBSET Nat
  BY <1>0
<1>6. /\ Pairs(th) = [n \in 1..Cardinality(P) |->
           [asked |-> order[Asker(Nth(P, n))].turn, replied |-> order[Nth(P, n)].turn]]
      /\ Conversation(th) = [n \in 1..Cardinality(Q) |->
           [asked |-> order[Nth(Q, n)].turn, replied |-> order[Nth(Q, n)].turn]]
  BY DEF Pairs, Conversation
<1> HIDE DEF f, P, Q, Asker
<1>7. /\ Cardinality(Q) = Cardinality(P)
      /\ \A k \in 1..Cardinality(P) : Nth(Q, k) = f[Nth(P, k)]
  BY <1>0, <1>3, <1>4, <1>5, NthAlong
<1>8. \A k \in 1..Cardinality(P) : Nth(P, k) \in P
  BY <1>0, <1>5, NthIs
<1>9. \A k \in 1..Cardinality(P) :
        [asked |-> order[Asker(Nth(P, k))].turn, replied |-> order[Nth(P, k)].turn]
          = [asked |-> order[Nth(Q, k)].turn, replied |-> order[Nth(Q, k)].turn]
  BY <1>1, <1>7, <1>8
<1>10. Pairs(th) = Conversation(th)
  BY <1>6, <1>7, <1>9
<1> QED
  BY <1>0, <1>5, <1>7, <1>10 DEF P, Q

LEMMA OrderGivesHistory ==
  ASSUME OrderInv
  PROVE  HistoryIsFaithful
<1> SUFFICES ASSUME NEW th \in Threads \ (raced \cup Blank), NEW s \in Settings
             PROVE  LoadRecentTurns(th, s.window) = LastOf(Conversation(th), s.window)
  BY DEF HistoryIsFaithful
<1>1. s.window \in Nat
  BY ChatAssumption
<1>2. Pairs(th) = Conversation(th) /\ Pairs(th) \in Seq([asked : Turns, replied : Turns])
  BY PairsAre, PairsTyped DEF OrderInv, Base
<1>3. LastOf(Pairs(th), 0) = <<>>
  BY <1>2, LastOfIs
<1> QED
  BY <1>1, <1>2, <1>3 DEF LoadRecentTurns

\* What a turn was told, and that those it counts as answered are over.
Follows(t) ==
  turn[t].thread \notin raced \cup Blank /\ turn[t].window # Len(turn[t].history) =>
    \A u \in turn[t].answered : Replied(u) =>
      \E i \in 1..Len(turn[t].history) :
        turn[t].history[i].asked = u /\ turn[t].history[i].replied = u

Over(t) == \A u \in turn[t].answered : u \in Turns /\ turn[u].pc = "done"

HistoryInv == OrderInv /\ \A t \in Turns : Follows(t) /\ Over(t)

\* What a step leaves of turn t and of the threads.
Remembers(t) ==
  \/ turn'[t].answered = {}
  \/ turn'[t].thread = turn[t].thread /\ SameHistory(turn[t], turn'[t])

Onward ==
  /\ raced \subseteq raced' /\ Blank \subseteq Blank'
  /\ \A u \in Turns : turn[u].pc = "done" => turn'[u] = turn[u]

LEMMA BlankGrows ==
  ASSUME Base, stored \subseteq stored',
         \A u \in stored : turn'[u].thread = turn[u].thread /\ turn'[u].question = turn[u].question
  PROVE  Blank \subseteq Blank'
<1> SUFFICES ASSUME NEW u \in stored, turn[u].question = Empty PROVE turn[u].thread \in Blank'
  BY DEF Blank
<1>1. u \in stored' /\ turn'[u].question = Empty /\ turn'[u].thread = turn[u].thread
  OBVIOUS
<1> QED
  BY <1>1 DEF Blank

LEMMA StepGoesOnward ==
  ASSUME Base, NEW t \in Turns, TurnStep(t)
  PROVE  Onward
<1>0. Changed(t) /\ Local(t) /\ Stage(t) /\ stored \subseteq Turns
  BY StepIsAlone, StepIsLocal DEF Base, TypeOK
<1>1. raced \subseteq raced'
  BY DEF TurnStep, Begins, Looks, GetsReply, Declines, Hits, Generates, Gets, Moves, Drops,
         Stamps, Commits, Counts, rows
<1>2. turn[t].pc # "done"
  BY DEF TurnStep, Begins, Looks, GetsReply, Declines, Hits, Generates, Gets, Moves, Drops,
         Stamps, Commits, Counts
<1>3. t \in stored => SameRequest(turn[t], turn'[t])
  <2>1. t \in stored => turn[t].pc \in {"count", "done", "gone"}
    BY <1>0 DEF Stage
  <2> QED
    BY <2>1 DEF TurnStep, Begins, Looks, GetsReply, Declines, Hits, Generates, Gets, Moves, Drops,
           Stamps, Commits, Counts
<1>4. \A u \in stored : turn'[u].thread = turn[u].thread /\ turn'[u].question = turn[u].question
  <2> SUFFICES ASSUME NEW u \in stored
               PROVE  turn'[u].thread = turn[u].thread /\ turn'[u].question = turn[u].question
    OBVIOUS
  <2>1. CASE u = t
    BY <1>3, <2>1 DEF SameRequest
  <2>2. CASE u # t
    BY <1>0, <2>2 DEF Changed
  <2> QED
    BY <2>1, <2>2
<1>5. Blank \subseteq Blank'
  BY <1>0, <1>4, BlankGrows DEF Local
<1> QED
  BY <1>0, <1>1, <1>2, <1>5 DEF Onward, Changed

\* What was told stays told.
LEMMA RemembersFollows ==
  ASSUME HistoryInv, Onward, NEW t \in Turns, Remembers(t)
  PROVE  Follows(t)' /\ Over(t)'
<1>0. Follows(t) /\ Over(t)
  BY DEF HistoryInv
<1>1. CASE turn'[t].answered = {}
  BY <1>1 DEF Follows, Over
<1>2. CASE turn'[t].thread = turn[t].thread /\ SameHistory(turn[t], turn'[t])
  <2>1. \A u \in turn[t].answered : turn'[u] = turn[u] /\ u \in Turns
    BY <1>0 DEF Over, Onward
  <2>2. Over(t)'
    BY <1>0, <1>2, <2>1 DEF Over, SameHistory
  <2>3. turn'[t].thread \notin raced' \cup Blank' => turn[t].thread \notin raced \cup Blank
    BY <1>2 DEF Onward
  <2>4. \A u \in turn[t].answered : Replied(u)' <=> Replied(u)
    BY <2>1 DEF Replied
  <2>5. turn'[t].window = turn[t].window /\ turn'[t].history = turn[t].history
        /\ turn'[t].answered = turn[t].answered
    BY <1>2 DEF SameHistory
  <2>6. Follows(t)'
    BY <1>0, <2>3, <2>4, <2>5 DEF Follows, Replied
  <2> QED
    BY <2>2, <2>6
<1> QED
  BY <1>1, <1>2 DEF Remembers

\* A turn that begins is told of every exchange its window has room for.
LEMMA BeginsFollows ==
  ASSUME HistoryInv, NEW t \in Turns, Begins(t)
  PROVE  Follows(t)' /\ Over(t)'
<1> DEFINE th == turn'[t].thread
           told == turn'[t].history
           answered == turn'[t].answered
           w == settings.window
<1>0. /\ Base /\ OrderInv /\ TypeOK /\ w \in Nat /\ turn'[t].window = w /\ turn[t].pc = "idle"
      /\ answered = {u \in Turns : turn[u].pc = "done" /\ turn[u].thread = th /\ turn[u].kind # "call"}
      /\ Changed(t) /\ raced' = raced /\ stored' = stored
  <2>1. Base /\ OrderInv /\ TypeOK /\ settings \in Settings
    BY DEF HistoryInv, OrderInv, Base, TypeOK
  <2>2. w \in Nat
    BY <2>1, ChatAssumption
  <2> QED
    BY <2>1, <2>2 DEF Begins, rows
<1>1. Onward
  BY <1>0, StepGoesOnward DEF TurnStep
<1>2. ASSUME NEW u \in answered
      PROVE  /\ u \in Turns /\ turn[u].pc = "done" /\ turn'[u] = turn[u] /\ u \in stored
             /\ turn[u].thread = th /\ th \in Threads /\ Row(u, "user") \in Elems(order)
  <2>1. u \in Turns /\ turn[u].pc = "done" /\ turn[u].thread = th /\ turn[u].kind # "call"
    BY <1>0
  <2>2. Stage(u) /\ RowsIn(u)
    BY <1>0, <2>1 DEF Base
  <2>3. u \in stored /\ turn[u].thread \in Threads
    BY <2>1, <2>2 DEF Stage
  <2>4. Row(u, "user") \in Elems(order)
    BY <2>2, <2>3 DEF RowsIn
  <2>5. turn'[u] = turn[u]
    BY <1>1, <2>1 DEF Onward
  <2> QED
    BY <2>1, <2>3, <2>4, <2>5
<1>3. Over(t)'
  BY <1>2 DEF Over
<1>4. ASSUME th \notin raced' \cup Blank', w # Len(told), NEW u \in answered, turn'[u].text # Empty
      PROVE  \E i \in 1..Len(told) : told[i].asked = u /\ told[i].replied = u
  <2> DEFINE Q == Exchanges(th)
  <2>1. th \in Threads \ (raced \cup Blank)
    BY <1>1, <1>2, <1>4 DEF Onward
  <2>2. turn'[t].kind # "call" /\ told = LoadRecentTurns(th, w)
    <3>1. turn'[t].kind # "call"
      BY <2>1, ChatAssumption DEF Begins
    <3> QED
      BY <1>0, <3>1 DEF Begins
  <2>3. /\ Pairs(th) = Conversation(th) /\ Q \in SUBSET Nat /\ IsFiniteSet(Q)
        /\ Len(Pairs(th)) = Cardinality(Q)
    BY <1>0, <2>1, PairsAre
  <2>4. Pairs(th) \in Seq([asked : Turns, replied : Turns])
    BY <1>0, PairsTyped
  <2>5. told = Pairs(th)
    <3>1. w # 0
      <4>1. w = 0 => told = <<>>
        BY <2>2 DEF LoadRecentTurns
      <4> QED
        BY <1>4, <4>1
    <3>2. told = LastOf(Pairs(th), w)
      BY <2>2, <3>1 DEF LoadRecentTurns
    <3>3. Len(LastOf(Pairs(th), w)) # w
      BY <1>4, <3>2
    <3> HIDE DEF told, w, th
    <3>4. LastOf(Pairs(th), w) = Pairs(th)
      BY <1>0, <2>4, <3>3, LastOfIs
    <3> QED
      BY <3>2, <3>4
  <2>6. PICK i \in 1..Len(order) : order[i] = Row(u, "user")
    BY <1>2 DEF Elems
  <2>7. i \in Q
    <3>1. order[i].turn = u /\ order[i].role = "user"
      BY <2>6 DEF Row
    <3>2. Replied(u)
      BY <1>2, <1>4 DEF Replied
    <3> QED
      BY <1>2, <3>1, <3>2 DEF Exchanges
  <2>8. Conversation(th) = [n \in 1..Cardinality(Q) |->
          [asked |-> order[Nth(Q, n)].turn, replied |-> order[Nth(Q, n)].turn]]
    BY DEF Conversation
  <2> HIDE DEF Q
  <2>9. Rank(Q, i) \in 1..Cardinality(Q) /\ Nth(Q, Rank(Q, i)) = i
    BY <2>3, <2>7, NthIs
  <2>10. order[i].turn = u
    BY <2>6 DEF Row
  <2>11. told[Rank(Q, i)] = [asked |-> u, replied |-> u] /\ Rank(Q, i) \in 1..Len(told)
    <3> DEFINE n == Rank(Q, i)
               c == Conversation(th)
    <3>1. n \in 1..Cardinality(Q) /\ Nth(Q, n) = i
      BY <2>9
    <3> HIDE DEF n, c
    <3>2. c[n] = [asked |-> order[Nth(Q, n)].turn, replied |-> order[Nth(Q, n)].turn]
      BY <2>8, <3>1 DEF c
    <3>3. told = c /\ Len(told) = Cardinality(Q)
      BY <2>3, <2>5 DEF c
    <3>4. told[n] = [asked |-> u, replied |-> u]
      BY <2>10, <3>1, <3>2, <3>3
    <3> QED
      BY <3>1, <3>3, <3>4 DEF n
  <2> QED
    BY <2>11
<1>5. Follows(t)'
  BY <1>0, <1>4 DEF Follows, Replied
<1> QED
  BY <1>3, <1>5

LEMMA NextKeepsHistory ==
  ASSUME HistoryInv, [Next]_vars
  PROVE  HistoryInv'
<1>0. OrderInv /\ Base /\ OrderInv'
  BY NextKeepsOrder DEF HistoryInv, OrderInv
<1>1. ASSUME NEW t \in Turns, TurnStep(t), NEW u \in Turns PROVE Follows(u)' /\ Over(u)'
  <2>1. Onward /\ Changed(t)
    BY <1>0, <1>1, StepGoesOnward, StepIsAlone
  <2>2. CASE u # t
    <3>1. Remembers(u)
      BY <2>1, <2>2 DEF Changed, Remembers, SameHistory
    <3> QED
      BY <2>1, <3>1, RemembersFollows
  <2>3. CASE u = t /\ Begins(t)
    BY <2>3, BeginsFollows
  <2>4. CASE u = t /\ ~Begins(t)
    <3>1. Remembers(t)
      <4>1. CASE Looks(t) \/ Moves(t)
        BY <4>1 DEF Looks, Moves, Remembers, SameRequest
      <4>2. CASE GetsReply(t)
        BY <4>2 DEF GetsReply, Declines, Hits, Generates, Gets, Remembers, SameRequest
      <4>3. CASE Drops(t) \/ Counts(t)
        BY <4>3 DEF Drops, Counts, Remembers
      <4>4. CASE Commits(t)
        BY <4>4 DEF Commits, Remembers, SameRequest
      <4>5. CASE \E role \in {"user", "assistant"}, late \in BOOLEAN : Stamps(t, role, late)
        BY <4>5 DEF Stamps, Remembers, SameRequest
      <4> QED
        BY <1>1, <2>4, <4>1, <4>2, <4>3, <4>4, <4>5 DEF TurnStep
    <3> QED
      BY <2>1, <2>4, <3>1, RemembersFollows
  <2> QED
    BY <2>2, <2>3, <2>4
<1>2. ASSUME NEW w \in Workers, Crashes(w), NEW u \in Turns PROVE Follows(u)' /\ Over(u)'
  <2>1. \A v \in stored : turn'[v].thread = turn[v].thread /\ turn'[v].question = turn[v].question
    <3>1. stored \subseteq Turns
      BY <1>0 DEF Base, TypeOK
    <3> QED
      BY <1>2, <3>1 DEF Crashes, SameRequest
  <2>2. Blank \subseteq Blank'
    BY <1>0, <1>2, <2>1, BlankGrows DEF Crashes
  <2>3. Onward
    BY <1>2, <2>2 DEF Onward, Crashes, Hit, Ended
  <2>4. Remembers(u)
    BY <1>2 DEF Crashes, Remembers, SameHistory
  <2> QED
    BY <2>3, <2>4, RemembersFollows
<1>3. ASSUME Surrounds, NEW u \in Turns PROVE Follows(u)' /\ Over(u)'
  <2>1. turn' = turn /\ raced' = raced /\ stored' = stored
    BY <1>3 DEF Surrounds, rows
  <2>2. Blank' = Blank
    BY <2>1 DEF Blank
  <2>3. Onward /\ Remembers(u)
    BY <2>1, <2>2 DEF Onward, Remembers, SameHistory
  <2> QED
    BY <2>3, RemembersFollows
<1> QED
  BY <1>0, <1>1, <1>2, <1>3, NextIs DEF HistoryInv

\* The history a turn is given is what happened in its thread: the last exchanges that have
\* a reply, each with its own, oldest first; and the exchanges a client had answered before
\* it asked again are among them when the window has room.  In every thread whose rows were
\* written in order, one turn after the other, and without a blank question.
THEOREM HistoryHolds == Spec => []HistoryIsTrue
<1>1. Init => HistoryInv
  <2> SUFFICES ASSUME Init PROVE HistoryInv
    OBVIOUS
  <2>1. Base /\ turn = [t \in Turns |-> Idle] /\ order = <<>>
    BY InitBase DEF Init
  <2>2. \A t \in Turns : turn[t].answered = {} /\ turn[t].pc = "idle"
    BY <2>1 DEF Idle
  <2>3. Elems(order) = {}
    BY <2>1 DEF Elems
  <2>4. \A t \in Turns : Orderly(t)
    BY <2>2, <2>3 DEF Orderly
  <2>5. \A t \in Turns : Follows(t) /\ Over(t)
    BY <2>2 DEF Follows, Over
  <2> QED
    BY <2>1, <2>4, <2>5 DEF HistoryInv, OrderInv
<1>2. HistoryInv /\ [Next]_vars => HistoryInv'
  BY NextKeepsHistory
<1>3. HistoryInv => HistoryIsTrue
  <2> SUFFICES ASSUME HistoryInv PROVE HistoryIsTrue
    OBVIOUS
  <2>1. HistoryIsFaithful
    BY OrderGivesHistory DEF HistoryInv
  <2>2. FollowUpSeesAnswer
    BY DEF HistoryInv, Follows, FollowUpSeesAnswer
  <2> QED
    BY <2>1, <2>2 DEF HistoryIsTrue
<1> QED
  BY <1>1, <1>2, <1>3, PTL DEF Spec

=============================================================================
