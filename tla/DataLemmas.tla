------------------------------ MODULE DataLemmas ------------------------------
(***************************************************************************)
(* Induction over the naturals in the form of a fact about sets, which     *)
(* needs no predicate as a parameter, and from it the equations of         *)
(* FoldLeft.  A folded operator enters as the function that it computes,   *)
(* so that the lemmas can be cited for any operator.  Then what Ascending  *)
(* and Pick return.                                                        *)
(***************************************************************************)
EXTENDS Positions, SequencesExt, FiniteSetTheorems, WellFoundedInduction, TLAPS

LEMMA NatHasMinimum ==
    ASSUME NEW U \in SUBSET Nat, U # {}
    PROVE  \E x \in U : \A y \in U : x <= y
<1> DEFINE R == OpToRel(<, Nat)
<1>1. IsWellFoundedOn(R, Nat)
  BY NatLessThanWellFounded
<1>2. \A x, y \in Nat : x < y => <<x, y>> \in R
  BY Zenon DEF OpToRel
<1> HIDE DEF R
<1>3. PICK x \in U : \A y \in U : ~(<<y, x>> \in R)
  BY <1>1, WFMin
<1>4. \A y \in U : ~(y < x)
  BY <1>2, <1>3
<1> QED BY <1>4

\* A set of naturals that has 0 and every successor has them all.
LEMMA NatsBySuccession ==
    ASSUME NEW T, 0 \in T, \A n \in Nat : n \in T => n + 1 \in T
    PROVE  Nat \subseteq T
<1> DEFINE U == Nat \ T
<1>1. ASSUME U # {} PROVE FALSE
  <2>1. PICK x \in U : \A y \in U : x <= y
    BY <1>1, NatHasMinimum
  <2>2. x \in Nat /\ x # 0 /\ x - 1 \in Nat
    BY <2>1
  <2>3. x - 1 \in U
    BY <2>2, <2>1
  <2> QED BY <2>1, <2>2, <2>3
<1> QED BY <1>1

\* A set of positions that has 0 and every successor up to n has them all.
LEMMA PositionsBySuccession ==
    ASSUME NEW n \in Nat, NEW T, 0 \in T, \A k \in 0..(n - 1) : k \in T => k + 1 \in T
    PROVE  0..n \subseteq T
<1> DEFINE U == {k \in Nat : k <= n => k \in T}
<1>1. 0 \in U /\ \A k \in Nat : k \in U => k + 1 \in U
  OBVIOUS
<1> HIDE DEF U
<1>2. Nat \subseteq U
  BY <1>1, NatsBySuccession
<1> USE DEF U
<1> QED BY <1>2

LEMMA MaxIsGreatest ==
    ASSUME NEW n \in Nat, NEW s \in SUBSET (1..n), s # {}
    PROVE  Max(s) \in s /\ \A y \in s : y <= Max(s)
<1> DEFINE U == {m \in Nat : \A y \in s : y <= m}
<1>1. U # {} /\ U \in SUBSET Nat
  <2>1. n \in U
    OBVIOUS
  <2> QED BY <2>1
<1>2. PICK x \in U : \A y \in U : x <= y
  <2> HIDE DEF U
  <2> QED BY <1>1, NatHasMinimum
<1>3. x \in s
  <2> SUFFICES ASSUME x \notin s PROVE FALSE
    OBVIOUS
  <2>1. PICK z \in s : TRUE
    OBVIOUS
  <2>2. x \in Nat /\ x # 0 /\ x - 1 \in Nat
    BY <2>1
  <2>3. \A y \in s : y <= x - 1
    BY <1>2, <2>2
  <2> QED BY <1>2, <2>2, <2>3
<1>4. \E y \in s : \A z \in s : y >= z
  <2>1. \A z \in s : x >= z
    BY <1>2
  <2> QED BY <1>3, <2>1
<1>5. Max(s) \in s /\ \A z \in s : Max(s) >= z
  BY <1>4, Zenon DEF Max
<1> QED BY <1>5
LEMMA MaxOfInterval ==
    ASSUME NEW n \in Nat, NEW k \in 1..n
    PROVE  1..k # {} /\ Max(1..k) = k /\ (1..k) \ {k} = 1..(k - 1)
<1>1. 1..k \in SUBSET (1..n) /\ 1..k # {} /\ k \in 1..k
  OBVIOUS
<1>2. Max(1..k) \in 1..k /\ \A y \in 1..k : y <= Max(1..k)
  BY <1>1, MaxIsGreatest
<1>3. Max(1..k) = k
  BY <1>1, <1>2
<1> QED BY <1>1, <1>3
-----------------------------------------------------------------------------
\* The function that a fold over n positions chooses exists.
Iterates(it, n, base, step) ==
    it = [s \in SUBSET (1..n) |->
            IF s = {} THEN base ELSE step[Max(s)][it[s \ {Max(s)}]]]

LEMMA IterationExists ==
    ASSUME NEW n \in Nat, NEW S, NEW base \in S, NEW step \in [1..n -> [S -> S]]
    PROVE  \E it \in [SUBSET (1..n) -> S] : Iterates(it, n, base, step)
<1> DEFINE T == {k \in 0..n : \E it \in [SUBSET (1..k) -> S] : Iterates(it, k, base, step)}
<1>1. 0 \in T
  <2> DEFINE it == [s \in SUBSET (1..0) |-> base]
  <2>1. \A s \in SUBSET (1..0) : s = {}
    OBVIOUS
  <2>2. Iterates(it, 0, base, step)
    BY <2>1 DEF Iterates
  <2>3. it \in [SUBSET (1..0) -> S]
    OBVIOUS
  <2> QED BY <2>2, <2>3
<1>2. ASSUME NEW k \in 0..(n - 1), k \in T PROVE k + 1 \in T
  <2>1. PICK it \in [SUBSET (1..k) -> S] : Iterates(it, k, base, step)
    BY <1>2
  <2> DEFINE m == k + 1
             new == [s \in SUBSET (1..m) |->
                        IF m \in s THEN step[m][it[s \ {m}]] ELSE it[s]]
  <2>2. m \in 1..n /\ 1..m = (1..k) \cup {m} /\ m \notin 1..k /\ m \in Nat
    OBVIOUS
  <2>3. \A s \in SUBSET (1..m) : s \ {m} \in SUBSET (1..k)
    BY <2>2
  <2>4. new \in [SUBSET (1..m) -> S]
    <3>1. step[m] \in [S -> S]
      BY <2>2
    <3>2. ASSUME NEW s \in SUBSET (1..m)
          PROVE  (IF m \in s THEN step[m][it[s \ {m}]] ELSE it[s]) \in S
      <4>1. CASE m \in s
        <5>1. it[s \ {m}] \in S
          BY <2>1, <2>3
        <5> QED BY <5>1, <4>1, <3>1
      <4>2. CASE m \notin s
        <5>1. s \in SUBSET (1..k)
          BY <4>2, <2>2
        <5> QED BY <5>1, <4>2, <2>1
      <4> QED BY <4>1, <4>2
    <3> QED BY <3>2
  <2>5. ASSUME NEW s \in SUBSET (1..m)
        PROVE  new[s] = IF s = {} THEN base ELSE step[Max(s)][new[s \ {Max(s)}]]
    <3>1. CASE s = {}
      <4>1. it[s] = base
        BY <2>1, <3>1 DEF Iterates
      <4> QED BY <3>1, <4>1
    <3>2. CASE s # {} /\ m \in s
      <4>1. Max(s) = m
        <5>1. Max(s) \in s /\ \A y \in s : y <= Max(s)
          BY <3>2, <2>2, MaxIsGreatest
        <5>2. Max(s) \in 1..m /\ m <= Max(s)
          BY <5>1, <3>2
        <5> QED BY <5>2
      <4>2. new[s \ {m}] = it[s \ {m}]
        BY <2>3
      <4> QED BY <3>2, <4>1, <4>2
    <3>3. CASE s # {} /\ m \notin s
      <4>1. s \in SUBSET (1..k)
        BY <3>3, <2>2
      <4>2. Max(s) \in s
        <5>1. k \in Nat
          OBVIOUS
        <5> QED BY <3>3, <4>1, <5>1, MaxIsGreatest
      <4>3. it[s] = step[Max(s)][it[s \ {Max(s)}]]
        BY <2>1, <3>3, <4>1 DEF Iterates
      <4>4. s \ {Max(s)} \in SUBSET (1..m) /\ m \notin s \ {Max(s)}
        BY <3>3
      <4>5. new[s \ {Max(s)}] = it[s \ {Max(s)}]
        BY <4>4
      <4> QED BY <3>3, <4>3, <4>5
    <3> QED BY <3>1, <3>2, <3>3
  <2> HIDE DEF new
  <2>6. new = [s \in SUBSET (1..m) |->
                  IF s = {} THEN base ELSE step[Max(s)][new[s \ {Max(s)}]]]
    <3>1. new = [s \in SUBSET (1..m) |-> new[s]]
      BY <2>4
    <3> QED BY <2>5, <3>1, Zenon
  <2>7. Iterates(new, m, base, step)
    BY <2>6 DEF Iterates
  <2>8. m \in 0..n
    BY <2>2
  <2> QED BY <2>4, <2>7, <2>8
<1> HIDE DEF T
<1>3. 0..n \subseteq T
  BY <1>1, <1>2, PositionsBySuccession
<1>4. n \in T
  BY <1>3
<1> USE DEF T
<1> QED BY <1>4

\* Two functions that compute the same from the same on the rest.
StepsAgree(n, it, it2) ==
    /\ it[{}] = it2[{}]
    /\ \A s \in SUBSET (1..n) :
          s # {} /\ it[s \ {Max(s)}] = it2[s \ {Max(s)}] => it[s] = it2[s]

LEMMA IterationsAgree ==
    ASSUME NEW n \in Nat, NEW it, NEW it2, StepsAgree(n, it, it2)
    PROVE  \A s \in SUBSET (1..n) : it[s] = it2[s]
<1> DEFINE T == {k \in 0..n : \A s \in SUBSET (1..k) : it[s] = it2[s]}
<1>1. 0 \in T
  <2>1. \A s \in SUBSET (1..0) : s = {}
    OBVIOUS
  <2>2. \A s \in SUBSET (1..0) : it[s] = it2[s]
    BY <2>1 DEF StepsAgree
  <2>3. 0 \in 0..n
    OBVIOUS
  <2> QED BY <2>2, <2>3
<1>2. ASSUME NEW k \in 0..(n - 1), k \in T PROVE k + 1 \in T
  <2>1. k + 1 \in 0..n
    OBVIOUS
  <2>2. ASSUME NEW s \in SUBSET (1..(k + 1)) PROVE it[s] = it2[s]
    <3>1. CASE s = {}
      BY <3>1 DEF StepsAgree
    <3>2. CASE s # {}
      <4>1. Max(s) \in s /\ \A y \in s : y <= Max(s)
        <5>1. k + 1 \in Nat
          OBVIOUS
        <5> QED BY <3>2, <5>1, MaxIsGreatest
      <4>2. s \ {Max(s)} \in SUBSET (1..k)
        <5> SUFFICES ASSUME NEW y \in s, y # Max(s) PROVE y \in 1..k
          OBVIOUS
        <5>1. y \in 1..(k + 1) /\ Max(s) \in 1..(k + 1) /\ y <= Max(s)
          BY <4>1
        <5> QED BY <5>1
      <4>3. it[s \ {Max(s)}] = it2[s \ {Max(s)}]
        BY <1>2, <4>2
      <4>4. s \in SUBSET (1..n)
        OBVIOUS
      <4> QED BY <3>2, <4>3, <4>4 DEF StepsAgree
    <3> QED BY <3>1, <3>2
  <2> QED BY <2>1, <2>2
<1> HIDE DEF T
<1>3. 0..n \subseteq T
  BY <1>1, <1>2, PositionsBySuccession
<1>4. n \in T
  BY <1>3
<1> USE DEF T
<1> QED BY <1>4

-----------------------------------------------------------------------------
(* Ascending.                                                              *)

LEMMA IntervalCount == \A n \in Nat : IsFiniteSet(1..n) /\ Cardinality(1..n) = n
<1> TAKE n \in Nat
<1>1. 1 \in Int /\ n \in Int
  OBVIOUS
<1>2. IsFiniteSet(1..n) /\ Cardinality(1..n) = IF 1 > n THEN 0 ELSE n - 1 + 1
  BY <1>1, FS_Interval
<1> QED BY <1>2

LEMMA RangeIsFinite ==
    ASSUME NEW S, NEW t \in Seq(S)
    PROVE  IsFiniteSet(Range(t)) /\ Range(t) \in SUBSET S /\ (t # <<>> => Range(t) # {})
<1>1. DOMAIN t = 1..Len(t) /\ Len(t) \in Nat /\ \A k \in 1..Len(t) : t[k] \in S
  OBVIOUS
<1>2. Range(t) = {t[k] : k \in DOMAIN t}
  BY DEF Range
<1>3. t \in Surjection(1..Len(t), Range(t))
  <2>1. t \in [1..Len(t) -> Range(t)]
    BY <1>1, <1>2
  <2> QED BY <1>1, <1>2, <2>1 DEF Surjection
<1>4. IsFiniteSet(Range(t))
  BY <1>1, <1>3, IntervalCount, FS_Surjection
<1>5. t # <<>> => 1 \in 1..Len(t)
  BY <1>1
<1> QED BY <1>1, <1>2, <1>4, <1>5

Rank(P, i) == Cardinality({j \in P : j <= i})

\* Ranks count up.
LEMMA RankBounds ==
    ASSUME NEW P \in SUBSET Int, IsFiniteSet(P), NEW i \in P
    PROVE  Rank(P, i) \in 1..Cardinality(P)
<1> DEFINE below == {j \in P : j <= i}
<1>1. Cardinality(P) \in Nat
  BY FS_CardinalityType
<1>2. IsFiniteSet(below) /\ Cardinality(below) <= Cardinality(P)
  BY FS_Subset
<1>3. Cardinality(below) \in Nat /\ Cardinality(below) # 0
  <2>1. i \in below
    OBVIOUS
  <2> HIDE DEF below
  <2> QED BY <1>2, <2>1, FS_CardinalityType, FS_EmptySet
<1> QED BY <1>1, <1>2, <1>3 DEF Rank

LEMMA RankIncreases ==
    ASSUME NEW P \in SUBSET Int, IsFiniteSet(P), NEW i \in P, NEW k \in P, i < k
    PROVE  Rank(P, i) < Rank(P, k)
<1> DEFINE a == {j \in P : j <= i}
           b == {j \in P : j <= k}
<1>1. a \in SUBSET b /\ a # b
  <2>1. k \in b /\ k \notin a
    OBVIOUS
  <2>2. \A j \in a : j \in b
    OBVIOUS
  <2> HIDE DEF a, b
  <2> QED BY <2>1, <2>2
<1>2. IsFiniteSet(b)
  BY FS_Subset
<1> HIDE DEF a, b
<1>3. IsFiniteSet(a) /\ Cardinality(a) <= Cardinality(b) /\ Cardinality(a) # Cardinality(b)
  BY <1>1, <1>2, FS_Subset
<1>4. Cardinality(a) \in Nat /\ Cardinality(b) \in Nat
  BY <1>2, <1>3, FS_CardinalityType
<1>5. Cardinality(a) < Cardinality(b)
  BY <1>3, <1>4
<1> QED BY <1>5 DEF Rank, a, b

LEMMA RankInjective ==
    ASSUME NEW P \in SUBSET Int, IsFiniteSet(P), NEW i \in P, NEW k \in P, Rank(P, i) = Rank(P, k)
    PROVE  i = k
<1>1. Rank(P, i) \in Nat /\ Rank(P, k) \in Nat
  <2>1. Cardinality(P) \in Nat
    BY FS_CardinalityType
  <2> QED BY <2>1, RankBounds
<1>2. ~(i < k) /\ ~(k < i)
  BY <1>1, RankIncreases
<1> QED BY <1>2

LEMMA RankExists ==
    ASSUME NEW P \in SUBSET Int, IsFiniteSet(P), NEW k \in 1..Cardinality(P)
    PROVE  \E i \in P : Rank(P, i) = k
<1> DEFINE n == Cardinality(P)
           r == [i \in P |-> Rank(P, i)]
<1>1. n \in Nat
  BY FS_CardinalityType
<1>2. IsFiniteSet(1..n) /\ Cardinality(1..n) = n
  BY <1>1, IntervalCount
<1>3. r \in Injection(P, 1..n)
  <2>1. r \in [P -> 1..n]
    BY RankBounds
  <2>2. \A i, j \in P : r[i] = r[j] => i = j
    BY RankInjective
  <2> HIDE DEF r
  <2> QED BY <2>1, <2>2 DEF Injection, IsInjective
<1> HIDE DEF r, n
<1>4. r \in Surjection(P, 1..n)
  <2>1. Cardinality(P) = Cardinality(1..n)
    BY <1>2 DEF n
  <2> QED BY <1>2, <1>3, <2>1, FS_Injection
<1>5. \E i \in P : r[i] = k
  BY <1>4 DEF Surjection, n
<1> QED BY <1>5 DEF r

\* The k-th number is there, and it is the one of rank k.
LEMMA AscendingIs ==
    ASSUME NEW P \in SUBSET Int, IsFiniteSet(P)
    PROVE  /\ Cardinality(P) \in Nat /\ DOMAIN Ascending(P) = 1..Cardinality(P)
           /\ \A k \in 1..Cardinality(P) : Ascending(P)[k] \in P /\ Rank(P, Ascending(P)[k]) = k
           /\ \A i \in P : Rank(P, i) \in 1..Cardinality(P) /\ Ascending(P)[Rank(P, i)] = i
<1>1. Cardinality(P) \in Nat /\ DOMAIN Ascending(P) = 1..Cardinality(P)
  BY FS_CardinalityType DEF Ascending
<1>2. ASSUME NEW k \in 1..Cardinality(P)
      PROVE  Ascending(P)[k] \in P /\ Rank(P, Ascending(P)[k]) = k
  <2>1. Ascending(P)[k] = CHOOSE i \in P : Rank(P, i) = k
    BY DEF Ascending, Rank
  <2>2. \E i \in P : Rank(P, i) = k
    BY RankExists
  <2> QED BY <2>1, <2>2, Zenon
<1>3. ASSUME NEW i \in P
      PROVE  Rank(P, i) \in 1..Cardinality(P) /\ Ascending(P)[Rank(P, i)] = i
  <2>1. Rank(P, i) \in 1..Cardinality(P)
    BY RankBounds
  <2>2. Ascending(P)[Rank(P, i)] \in P /\ Rank(P, Ascending(P)[Rank(P, i)]) = Rank(P, i)
    BY <1>2, <2>1
  <2> DEFINE j == Ascending(P)[Rank(P, i)]
  <2>3. j \in P /\ Rank(P, j) = Rank(P, i)
    BY <2>2
  <2> HIDE DEF j
  <2>4. j = i
    BY <2>3, RankInjective
  <2> QED BY <2>1, <2>4 DEF j
<1> QED BY <1>1, <1>2, <1>3

LEMMA AscendingIsFunction ==
    \A P : Ascending(P) = [k \in 1..Cardinality(P) |-> Ascending(P)[k]]
BY DEF Ascending

\* A set that is counted off in order.
LEMMA AscendingUnique ==
    ASSUME NEW P \in SUBSET Int, IsFiniteSet(P), NEW n \in Nat, Cardinality(P) = n,
           NEW a, DOMAIN a = 1..n, a = [k \in 1..n |-> a[k]],
           \A k \in 1..n : a[k] \in P /\ Rank(P, a[k]) = k
    PROVE  Ascending(P) = a
<1>1. /\ DOMAIN Ascending(P) = 1..n
      /\ \A k \in 1..n : Ascending(P)[k] \in P /\ Rank(P, Ascending(P)[k]) = k
  BY AscendingIs
<1>2. \A k \in 1..n : Ascending(P)[k] = a[k]
  BY <1>1, RankInjective
<1>3. Ascending(P) = [k \in 1..Cardinality(P) |-> Ascending(P)[k]]
  BY AscendingIsFunction, Zenon
<1> QED BY <1>2, <1>3

LEMMA AscendingNone == Ascending({}) = <<>>
<1>1. IsFiniteSet({}) /\ Cardinality({}) = 0
  BY FS_EmptySet
<1>2. Ascending({}) = [k \in 1..0 |-> CHOOSE i \in {} : Cardinality({j \in {} : j <= i}) = k]
  BY <1>1 DEF Ascending
<1> QED BY <1>2

LEMMA AscendingInterval ==
    ASSUME NEW n \in Nat
    PROVE  Ascending(1..n) = [k \in 1..n |-> k]
<1>1. 1..n \in SUBSET Int /\ IsFiniteSet(1..n) /\ Cardinality(1..n) = n
  BY IntervalCount
<1>2. ASSUME NEW k \in 1..n PROVE Rank(1..n, k) = k
  <2>1. {j \in 1..n : j <= k} = 1..k /\ k \in Nat
    OBVIOUS
  <2> QED BY <2>1, IntervalCount DEF Rank
<1> DEFINE a == [k \in 1..n |-> k]
<1>3. /\ DOMAIN a = 1..n /\ a = [k \in 1..n |-> a[k]]
      /\ \A k \in 1..n : a[k] \in 1..n /\ Rank(1..n, a[k]) = k
  BY <1>2
<1> HIDE DEF a
<1>4. Ascending(1..n) = a
  BY <1>1, <1>3, AscendingUnique
<1> QED BY <1>4 DEF a

\* A new greatest number comes last.
LEMMA AscendingAppend ==
    ASSUME NEW P \in SUBSET Int, IsFiniteSet(P), NEW m \in Int, \A i \in P : i < m
    PROVE  /\ Ascending(P) \in Seq(P)
           /\ Ascending(P \cup {m}) = Append(Ascending(P), m)
<1> DEFINE n == Cardinality(P)
           Q == P \cup {m}
           old == Ascending(P)
           new == Append(old, m)
<1>1. /\ n \in Nat /\ DOMAIN old = 1..n
      /\ \A k \in 1..n : old[k] \in P /\ Rank(P, old[k]) = k
  BY AscendingIs
<1>2. old \in Seq(P)
  <2>1. old = [k \in 1..n |-> old[k]]
    BY DEF Ascending
  <2> HIDE DEF old, n
  <2> QED BY <1>1, <2>1
<1>3. Q \in SUBSET Int /\ IsFiniteSet(Q) /\ Cardinality(Q) = n + 1
  <2>1. m \notin P
    OBVIOUS
  <2> QED BY <2>1, FS_AddElement
<1>4. \A i \in P : Rank(Q, i) = Rank(P, i)
  <2> SUFFICES ASSUME NEW i \in P PROVE Rank(Q, i) = Rank(P, i)
    OBVIOUS
  <2>1. {j \in Q : j <= i} = {j \in P : j <= i}
    OBVIOUS
  <2> QED BY <2>1 DEF Rank
<1>5. Rank(Q, m) = n + 1
  <2>1. {j \in Q : j <= m} = Q
    <3>1. \A j \in Q : j <= m
      OBVIOUS
    <3> QED BY <3>1
  <2> QED BY <1>3, <2>1 DEF Rank
<1> HIDE DEF old, n, Q
<1>6. /\ DOMAIN new = 1..(n + 1) /\ new = [k \in 1..(n + 1) |-> new[k]]
      /\ new[n + 1] = m /\ \A k \in 1..n : new[k] = old[k]
  <2>1. Len(old) = n
    BY <1>1, <1>2
  <2>2. new \in Seq(P \cup {m}) /\ Len(new) = n + 1
    BY <1>1, <1>2, <2>1
  <2>3. new[n + 1] = m /\ \A k \in 1..n : new[k] = old[k]
    BY <1>1, <1>2, <2>1
  <2> HIDE DEF new
  <2>4. DOMAIN new = 1..(n + 1) /\ new = [k \in 1..(n + 1) |-> new[k]]
    BY <2>2
  <2> QED BY <2>3, <2>4
<1>7. ASSUME NEW k \in 1..(n + 1) PROVE new[k] \in Q /\ Rank(Q, new[k]) = k
  <2>1. CASE k \in 1..n
    BY <1>1, <1>4, <1>6, <2>1 DEF Q
  <2>2. CASE k = n + 1
    BY <1>5, <1>6, <2>2 DEF Q
  <2> QED BY <1>1, <2>1, <2>2
<1> HIDE DEF new
<1>8. n + 1 \in Nat
  BY <1>1
<1>9. Ascending(Q) = new
  BY <1>3, <1>6, <1>7, <1>8, AscendingUnique
<1> QED BY <1>2, <1>9 DEF old, new, Q

-----------------------------------------------------------------------------
(* Pick.                                                                   *)

\* A sequence of what another has at certain positions.
TakenFrom(p, s, P) ==
    /\ DOMAIN p = 1..Cardinality(P)
    /\ \A k \in DOMAIN p : Ascending(P)[k] \in P /\ p[k] = s[Ascending(P)[k]]
    /\ \A i \in P : \E k \in DOMAIN p : p[k] = s[i]

LEMMA PickTakes ==
    ASSUME NEW P \in SUBSET Int, IsFiniteSet(P), NEW s
    PROVE  TakenFrom(Pick(s, P), s, P)
<1> DEFINE n == Cardinality(P)
           a == Ascending(P)
           p == Pick(s, P)
<1>1. /\ n \in Nat /\ DOMAIN a = 1..n
      /\ \A k \in 1..n : a[k] \in P
      /\ \A i \in P : Rank(P, i) \in 1..n /\ a[Rank(P, i)] = i
  BY AscendingIs
<1>2. p = [k \in DOMAIN a |-> s[a[k]]]
  BY DEF Pick
<1> HIDE DEF n, a, p
<1>3. DOMAIN p = 1..n /\ \A k \in 1..n : p[k] = s[a[k]]
  BY <1>1, <1>2
<1>4. \A i \in P : \E k \in 1..n : p[k] = s[i]
  BY <1>1, <1>3
<1>5. TakenFrom(p, s, P)
  BY <1>1, <1>3, <1>4 DEF TakenFrom, n, a
<1> QED BY <1>5 DEF p

LEMMA PickIs ==
    ASSUME NEW P \in SUBSET Int, IsFiniteSet(P), NEW S, NEW s, \A i \in P : s[i] \in S
    PROVE  Pick(s, P) \in Seq(S) /\ Len(Pick(s, P)) = Cardinality(P)
<1> DEFINE n == Cardinality(P)
           a == Ascending(P)
           p == Pick(s, P)
<1>1. n \in Nat /\ DOMAIN p = 1..n /\ \A k \in 1..n : a[k] \in P /\ p[k] = s[a[k]]
  BY PickTakes, FS_CardinalityType DEF TakenFrom
<1>2. DOMAIN p = 1..n /\ p = [k \in DOMAIN a |-> s[a[k]]]
  BY <1>1 DEF Pick
<1> HIDE DEF n, a, p
<1>3. p = [k \in 1..n |-> s[a[k]]] /\ \A k \in 1..n : s[a[k]] \in S
  BY <1>1, <1>2
<1>4. p \in Seq(S) /\ Len(p) = n
  BY <1>1, <1>3
<1> QED BY <1>4 DEF n, a, p

LEMMA PickNone == \A s : Pick(s, {}) = <<>>
<1> TAKE s
<1>1. Pick(s, {}) = [k \in DOMAIN <<>> |-> s[Ascending({})[k]]]
  BY AscendingNone DEF Pick
<1> QED BY <1>1

LEMMA PickKept ==
    ASSUME NEW P \in SUBSET Int, IsFiniteSet(P), NEW s, NEW s2, \A i \in P : s2[i] = s[i]
    PROVE  Pick(s2, P) = Pick(s, P)
<1>1. \A k \in DOMAIN Ascending(P) : Ascending(P)[k] \in P
  BY AscendingIs
<1> QED BY <1>1 DEF Pick

LEMMA PickAppend ==
    ASSUME NEW P \in SUBSET Int, IsFiniteSet(P), NEW m \in Int, \A i \in P : i < m,
           NEW S, NEW s, \A i \in P \cup {m} : s[i] \in S
    PROVE  Pick(s, P \cup {m}) = Append(Pick(s, P), s[m])
<1> DEFINE a == Ascending(P)
           b == Ascending(P \cup {m})
           p == Pick(s, P)
           q == Pick(s, P \cup {m})
           n == Len(a)
<1>1. a \in Seq(P) /\ b = Append(a, m)
  BY AscendingAppend
<1>2. p = [k \in DOMAIN a |-> s[a[k]]] /\ q = [k \in DOMAIN b |-> s[b[k]]]
  BY DEF Pick
<1> HIDE DEF a, b, p, q
<1>3. /\ n \in Nat /\ DOMAIN a = 1..n /\ DOMAIN b = 1..(n + 1) /\ b[n + 1] = m
      /\ \A k \in 1..n : b[k] = a[k] /\ a[k] \in P
  BY <1>1
<1>4. p \in Seq(S) /\ Len(p) = n /\ \A k \in 1..n : p[k] = s[a[k]]
  <2>1. p = [k \in 1..n |-> s[a[k]]] /\ \A k \in 1..n : s[a[k]] \in S
    BY <1>2, <1>3
  <2> HIDE DEF n
  <2> QED BY <1>3, <2>1
<1>5. /\ DOMAIN q = 1..(n + 1) /\ q[n + 1] = s[m]
      /\ \A k \in 1..n : q[k] = p[k]
  BY <1>2, <1>3, <1>4
<1>6. q \in Seq(S) /\ Len(q) = n + 1
  <2>1. q = [k \in 1..(n + 1) |-> s[b[k]]]
    BY <1>2, <1>3
  <2>2. \A k \in 1..(n + 1) : k \in 1..n \/ k = n + 1
    BY <1>3
  <2>3. \A k \in 1..(n + 1) : s[b[k]] \in S
    BY <1>3, <2>2
  <2> HIDE DEF n
  <2> QED BY <1>3, <2>1, <2>3
<1>7. q = Append(p, s[m])
  BY <1>3, <1>4, <1>5, <1>6
<1> QED BY <1>7 DEF p, q

-----------------------------------------------------------------------------
(* Sequences with a part cut off, an element less or one more.             *)

LEMMA PrefixGrows ==
    ASSUME NEW S, NEW s \in Seq(S), NEW k \in 1..Len(s)
    PROVE  /\ SubSeq(s, 1, k - 1) \in Seq(S)
           /\ SubSeq(s, 1, k) = Append(SubSeq(s, 1, k - 1), s[k])
<1>1. /\ Len(s) \in Nat /\ DOMAIN s = 1..Len(s) /\ k \in Nat /\ k - 1 \in Nat
      /\ \A i \in 1..Len(s) : s[i] \in S
  OBVIOUS
<1>2. /\ SubSeq(s, 1, k - 1) = [i \in 1..(k - 1) |-> s[i]]
      /\ SubSeq(s, 1, k) = [i \in 1..k |-> s[i]]
  BY <1>1
<1>3. SubSeq(s, 1, k - 1) \in Seq(S) /\ Len(SubSeq(s, 1, k - 1)) = k - 1
  <2>1. \A i \in 1..(k - 1) : s[i] \in S
    BY <1>1
  <2> QED BY <1>1, <1>2, <2>1
<1> DEFINE b == Append(SubSeq(s, 1, k - 1), s[k])
<1>4. /\ b \in Seq(S) /\ Len(b) = k /\ b[k] = s[k]
      /\ \A i \in 1..(k - 1) : b[i] = SubSeq(s, 1, k - 1)[i]
  BY <1>1, <1>3
<1> HIDE DEF b
<1>5. b = [i \in 1..k |-> b[i]]
  BY <1>1, <1>4
<1>6. \A i \in 1..k : b[i] = s[i]
  <2>1. \A i \in 1..k : i \in 1..(k - 1) \/ i = k
    BY <1>1
  <2> QED BY <1>2, <1>4, <2>1
<1>7. b = [i \in 1..k |-> s[i]]
  BY <1>5, <1>6
<1> QED BY <1>2, <1>3, <1>7 DEF b

LEMMA SamePrefix ==
    ASSUME NEW S, NEW a \in Seq(S), NEW b \in Seq(S), NEW n \in Nat, n <= Len(a), n <= Len(b),
           \A k \in 1..n : a[k] = b[k]
    PROVE  SubSeq(a, 1, n) = SubSeq(b, 1, n)
<1>1. SubSeq(a, 1, n) = [k \in 1..n |-> a[k]] /\ SubSeq(b, 1, n) = [k \in 1..n |-> b[k]]
  OBVIOUS
<1> QED BY <1>1

\* A function on the first n numbers.
IsCounted(g, n, S) == g = [k \in 1..n |-> g[k]] /\ \A k \in 1..n : g[k] \in S

LEMMA CountedIsSeq ==
    ASSUME NEW S, NEW n \in Nat, NEW g, IsCounted(g, n, S)
    PROVE  g \in Seq(S) /\ Len(g) = n
<1>1. g = [k \in 1..n |-> g[k]] /\ \A k \in 1..n : g[k] \in S
  BY DEF IsCounted
<1> QED BY <1>1

LEMMA LeastIs ==
    ASSUME NEW S \in SUBSET Nat, S # {}
    PROVE  Min(S) \in S /\ \A y \in S : Min(S) <= y
<1>1. \E x \in S : \A y \in S : x <= y
  BY NatHasMinimum
<1> QED BY <1>1 DEF Min

LEMMA RemoveAtIs ==
    ASSUME NEW S, NEW s \in Seq(S), NEW i \in 1..Len(s)
    PROVE  /\ RemoveAt(s, i) \in Seq(S) /\ Len(RemoveAt(s, i)) = Len(s) - 1
           /\ \A k \in 1..(Len(s) - 1) : RemoveAt(s, i)[k] = IF k < i THEN s[k] ELSE s[k + 1]
<1> DEFINE front == SubSeq(s, 1, i - 1)
           back  == SubSeq(s, i + 1, Len(s))
<1>1. Len(s) \in Nat /\ i \in Nat /\ i <= Len(s) /\ 1 <= i
  OBVIOUS
<1>2. front \in Seq(S) /\ Len(front) = i - 1 /\ \A k \in 1..(i - 1) : front[k] = s[k]
  BY <1>1
<1>3. back \in Seq(S) /\ Len(back) = Len(s) - i /\ \A k \in 1..(Len(s) - i) : back[k] = s[i + k]
  BY <1>1
<1> HIDE DEF front, back
<1>4. /\ front \o back \in Seq(S) /\ Len(front \o back) = Len(s) - 1
      /\ \A k \in 1..(Len(s) - 1) : (front \o back)[k] = IF k < i THEN front[k] ELSE back[k - (i - 1)]
  <2>1. Len(front) + Len(back) = Len(s) - 1
    BY <1>1, <1>2, <1>3
  <2>2. /\ front \o back \in Seq(S) /\ Len(front \o back) = Len(front) + Len(back)
        /\ \A k \in 1..(Len(front) + Len(back)) :
              (front \o back)[k] = IF k <= Len(front) THEN front[k] ELSE back[k - Len(front)]
    <3>1. front \in Seq(S) /\ back \in Seq(S)
      BY <1>2, <1>3
    <3> QED BY <3>1
  <2>3. \A k \in 1..(Len(s) - 1) : k < i <=> k <= i - 1
    BY <1>1
  <2> QED BY <1>2, <2>1, <2>2, <2>3
<1>5. \A k \in 1..(Len(s) - 1) : k \in Nat /\ (k < i => k \in 1..(i - 1))
        /\ (~(k < i) => k - (i - 1) \in 1..(Len(s) - i) /\ i + (k - (i - 1)) = k + 1)
  BY <1>1
<1>6. RemoveAt(s, i) = front \o back
  BY DEF RemoveAt, front, back
<1>7. ASSUME NEW k \in 1..(Len(s) - 1) PROVE (front \o back)[k] = IF k < i THEN s[k] ELSE s[k + 1]
  <2>1. CASE k < i
    BY <1>2, <1>4, <1>5, <2>1
  <2>2. CASE ~(k < i)
    BY <1>3, <1>4, <1>5, <2>2
  <2> QED BY <2>1, <2>2
<1> QED BY <1>4, <1>6, <1>7

\* w is s with e as its i-th.
IsWith(w, s, i, e) ==
    /\ Len(w) = Len(s) + 1 /\ w[i] = e
    /\ \A k \in 1..(i - 1) : w[k] = s[k]
    /\ \A k \in i..Len(s) : w[k + 1] = s[k]

LEMMA InsertAtIs ==
    ASSUME NEW S, NEW s \in Seq(S), NEW i \in 1..(Len(s) + 1), NEW e \in S
    PROVE  InsertAt(s, i, e) \in Seq(S) /\ IsWith(InsertAt(s, i, e), s, i, e)
<1> DEFINE front == SubSeq(s, 1, i - 1)
           back  == SubSeq(s, i, Len(s))
           begun == front \o <<e>>
<1>1. Len(s) \in Nat /\ i \in Nat /\ i <= Len(s) + 1 /\ 1 <= i
  OBVIOUS
<1>2. front \in Seq(S) /\ Len(front) = i - 1 /\ \A k \in 1..(i - 1) : front[k] = s[k]
  BY <1>1
<1>3. back \in Seq(S) /\ Len(back) = (Len(s) - i) + 1 /\ \A k \in 1..((Len(s) - i) + 1) : back[k] = s[(i + k) - 1]
  BY <1>1
<1> HIDE DEF front, back
<1>4. <<e>> \in Seq(S) /\ Len(<<e>>) = 1 /\ <<e>>[1] = e
  OBVIOUS
<1>5. begun \in Seq(S) /\ Len(begun) = i /\ begun[i] = e /\ \A k \in 1..(i - 1) : begun[k] = s[k]
  BY <1>1, <1>2, <1>4
<1> HIDE DEF begun
<1>6. /\ begun \o back \in Seq(S) /\ Len(begun \o back) = Len(s) + 1
      /\ \A k \in 1..(Len(s) + 1) : (begun \o back)[k] = IF k <= i THEN begun[k] ELSE back[k - i]
  BY <1>1, <1>3, <1>5
<1>7. \A k \in i..Len(s) : k + 1 \in 1..(Len(s) + 1) /\ ~(k + 1 <= i) /\ (k + 1) - i \in 1..((Len(s) - i) + 1)
                           /\ (i + ((k + 1) - i)) - 1 = k
  BY <1>1
<1>8. InsertAt(s, i, e) = begun \o back
  BY DEF InsertAt, front, back, begun
<1>9. i \in 1..(Len(s) + 1) /\ \A k \in 1..(i - 1) : k \in 1..(Len(s) + 1) /\ k <= i
  BY <1>1
<1>10. IsWith(begun \o back, s, i, e)
  BY <1>1, <1>3, <1>5, <1>6, <1>7, <1>9 DEF IsWith
<1> QED BY <1>6, <1>8, <1>10
=============================================================================
