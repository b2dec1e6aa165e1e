--------------------------- MODULE OrderingProofs ---------------------------
(***************************************************************************)
(* Putting a finite set in order loses nothing and repeats nothing, and    *)
(* recursive functions on numbers and sequences have values.               *)
(***************************************************************************)
EXTENDS Ordering, SequencesExt, WellFoundedInduction, SequenceTheorems, FiniteSetTheorems, TLAPS

(***************************************************************************)
(* A set of numbers that is not empty has a least one: of the intervals    *)
(* from 0 to its numbers, one has none of the others inside.               *)
(***************************************************************************)
LEMMA LeastNumber ==
    ASSUME NEW S \in SUBSET Nat, S # {}
    PROVE  \E n \in S : \A m \in S : n <= m
<1> DEFINE Ranges == {0..n : n \in S}
           R == StrictSubsetOrdering(Nat)
<1>1. Ranges \subseteq FiniteSubsetsOf(Nat) /\ Ranges # {}
  <2>1. \A n \in S : 0..n \in SUBSET Nat /\ IsFiniteSet(0..n)
    BY FS_Interval
  <2> QED BY <2>1 DEF FiniteSubsetsOf
<1>2. IsWellFoundedOn(R, FiniteSubsetsOf(Nat))
  BY FS_StrictSubsetOrderingWellFounded
<1>3. PICK I \in Ranges : \A J \in Ranges : <<J, I>> \notin R
  BY <1>1, <1>2, WFMin
<1>4. PICK n \in S : I = 0..n
  BY <1>3
<1>5. ASSUME NEW m \in S, m < n
      PROVE  FALSE
  <2>1. 0..m \in SUBSET Nat /\ 0..n \in SUBSET Nat /\ 0..m \subseteq 0..n /\ 0..m # 0..n
    BY <1>5
  <2>2. <<0..m, 0..n>> \in R
    BY <2>1 DEF StrictSubsetOrdering
  <2> QED BY <1>3, <1>4, <2>2
<1>6. \A m \in S : n <= m
  BY <1>5
<1> QED BY <1>6

(***************************************************************************)
(* The least of some numbers is one of them.                               *)
(***************************************************************************)
LEMMA MinIs ==
    ASSUME NEW S \in SUBSET Nat, S # {}
    PROVE  Min(S) \in S /\ \A n \in S : Min(S) <= n
BY LeastNumber DEF Min

(***************************************************************************)
(* A strict order of all elements of I.                                    *)
(***************************************************************************)
StrictOrder(R, I) ==
    /\ \A i \in I : <<i, i>> \notin R
    /\ \A i, j \in I : i # j => <<i, j>> \in R \/ <<j, i>> \in R
    /\ \A h, i, j \in I : <<h, i>> \in R /\ <<i, j>> \in R => <<h, j>> \in R

Smaller(I, R, i) == {j \in I : <<j, i>> \in R}

(***************************************************************************)
(* Of two elements the smaller one has fewer below it.                     *)
(***************************************************************************)
LEMMA FewerBelow ==
    ASSUME NEW I, IsFiniteSet(I), NEW R, StrictOrder(R, I),
           NEW i \in I, NEW j \in I, <<i, j>> \in R
    PROVE  /\ Cardinality(Smaller(I, R, i)) \in Nat /\ Cardinality(Smaller(I, R, j)) \in Nat
           /\ Cardinality(Smaller(I, R, i)) < Cardinality(Smaller(I, R, j))
<1>1. /\ Smaller(I, R, i) \in SUBSET Smaller(I, R, j)
      /\ i \in Smaller(I, R, j) /\ i \notin Smaller(I, R, i)
      /\ Smaller(I, R, j) \in SUBSET I
  BY DEF StrictOrder, Smaller
<1>2. IsFiniteSet(Smaller(I, R, j))
  BY <1>1, FS_Subset
<1>3. /\ IsFiniteSet(Smaller(I, R, i))
      /\ Cardinality(Smaller(I, R, i)) <= Cardinality(Smaller(I, R, j))
      /\ Cardinality(Smaller(I, R, i)) # Cardinality(Smaller(I, R, j))
  BY <1>1, <1>2, FS_Subset
<1>4. Cardinality(Smaller(I, R, i)) \in Nat /\ Cardinality(Smaller(I, R, j)) \in Nat
  BY <1>2, <1>3, FS_CardinalityType
<1> QED BY <1>3, <1>4

(***************************************************************************)
(* InOrder lists each element of a finite set once, smaller ones first.    *)
(***************************************************************************)
LEMMA InOrderLists ==
    ASSUME NEW I, IsFiniteSet(I), NEW R, StrictOrder(R, I)
    PROVE  /\ Cardinality(I) \in Nat
           /\ InOrder(I, R) \in [1..Cardinality(I) -> I]
           /\ \A i \in I : \E n \in 1..Cardinality(I) : InOrder(I, R)[n] = i
           /\ \A m, n \in 1..Cardinality(I) :
                 InOrder(I, R)[m] = InOrder(I, R)[n] => m = n
           /\ \A m, n \in 1..Cardinality(I) :
                 m < n => <<InOrder(I, R)[m], InOrder(I, R)[n]>> \in R
<1> DEFINE N == Cardinality(I)
           C(i) == Cardinality(Smaller(I, R, i))
           rank == [i \in I |-> C(i) + 1]
           o == InOrder(I, R)
<1>1. N \in Nat
  BY FS_CardinalityType
<1>2. ASSUME NEW i \in I
      PROVE  C(i) \in Nat /\ C(i) < N
  <2>1. Smaller(I, R, i) \in SUBSET I /\ i \notin Smaller(I, R, i)
    BY DEF Smaller, StrictOrder
  <2>2. /\ IsFiniteSet(Smaller(I, R, i)) /\ Cardinality(Smaller(I, R, i)) <= N
        /\ Cardinality(Smaller(I, R, i)) # N
    BY <2>1, FS_Subset
  <2>3. Cardinality(Smaller(I, R, i)) \in Nat
    BY <2>2, FS_CardinalityType
  <2> QED BY <1>1, <2>2, <2>3
<1>3. ASSUME NEW i \in I, NEW j \in I, C(i) = C(j)
      PROVE  i = j
  <2>1. <<i, j>> \notin R
    BY <1>3, FewerBelow
  <2>2. <<j, i>> \notin R
    BY <1>3, FewerBelow
  <2> QED BY <2>1, <2>2 DEF StrictOrder
<1>4. rank \in Injection(I, 1..N)
  <2>1. \A i \in I : rank[i] \in 1..N
    BY <1>1, <1>2
  <2>2. \A i, j \in I : rank[i] = rank[j] => i = j
    BY <1>2, <1>3
  <2> HIDE DEF C
  <2> QED BY <2>1, <2>2 DEF Injection, IsInjective
<1>5. rank \in Surjection(I, 1..N)
  <2>1. IsFiniteSet(1..N) /\ Cardinality(1..N) = N
    BY <1>1, FS_Interval
  <2> HIDE DEF rank
  <2> QED BY <1>4, <2>1, FS_Injection
<1>6. ASSUME NEW n \in 1..N
      PROVE  o[n] \in I /\ C(o[n]) = n - 1
  <2>1. \E i \in I : rank[i] = n
    BY <1>5 DEF Surjection
  <2>2. PICK i \in I : C(i) = n - 1
    BY <1>1, <1>2, <2>1
  <2>3. o[n] = CHOOSE j \in I : C(j) = n - 1
    BY DEF InOrder, Smaller
  <2> HIDE DEF C, o
  <2> QED BY <2>2, <2>3
<1> HIDE DEF o, C
<1>7. o \in [1..N -> I]
  <2> DEFINE g(n) == CHOOSE i \in I : Cardinality({j \in I : <<j, i>> \in R}) = n - 1
  <2>1. o = [n \in 1..N |-> g(n)]
    BY DEF o, InOrder
  <2> HIDE DEF g
  <2>2. \A n \in 1..N : o[n] \in I
    BY <1>6
  <2> QED BY <2>1, <2>2
<1>8. ASSUME NEW i \in I
      PROVE  \E n \in 1..N : o[n] = i
  <2>1. C(i) + 1 \in 1..N
    BY <1>1, <1>2
  <2>2. C(o[C(i) + 1]) = C(i) /\ o[C(i) + 1] \in I
    BY <1>2, <1>6, <2>1
  <2> QED BY <1>3, <2>1, <2>2
<1>9. ASSUME NEW m \in 1..N, NEW n \in 1..N, o[m] = o[n]
      PROVE  m = n
  BY <1>1, <1>6, <1>9
<1>10. ASSUME NEW m \in 1..N, NEW n \in 1..N, m < n
       PROVE  <<o[m], o[n]>> \in R
  <2>1. o[m] \in I /\ o[n] \in I /\ C(o[m]) < C(o[n])
    BY <1>1, <1>6, <1>10
  <2>2. o[m] # o[n]
    BY <1>6, <2>1
  <2>3. ASSUME <<o[n], o[m]>> \in R
        PROVE  FALSE
    <3>1. C(o[n]) < C(o[m])
      BY <2>1, <2>3, FewerBelow DEF C
    <3> QED BY <1>1, <1>6, <2>1, <3>1
  <2> QED BY <2>1, <2>2, <2>3 DEF StrictOrder
<1> QED BY <1>1, <1>7, <1>8, <1>9, <1>10 DEF o

Elements(s, I) == {s[i] : i \in I}

(***************************************************************************)
(* What is picked from a sequence at a finite set of places is a sequence  *)
(* of the elements at these places, each taken once.                       *)
(***************************************************************************)
LEMMA PickTakesAll ==
    ASSUME NEW S, NEW s \in Seq(S), NEW I \in SUBSET DOMAIN s,
           NEW R, StrictOrder(R, I)
    PROVE  /\ Pick(s, InOrder(I, R)) \in Seq(S)
           /\ Len(Pick(s, InOrder(I, R))) = Cardinality(I)
           /\ Elements(Pick(s, InOrder(I, R)), DOMAIN Pick(s, InOrder(I, R)))
                 = Elements(s, I)
           /\ (\A i, j \in I : s[i] = s[j] => i = j) =>
                 \A m, n \in 1..Len(Pick(s, InOrder(I, R))) :
                    Pick(s, InOrder(I, R))[m] = Pick(s, InOrder(I, R))[n] => m = n
<1> DEFINE o == InOrder(I, R)
           p == Pick(s, o)
           N == Cardinality(I)
<1>1. /\ Len(s) \in Nat /\ DOMAIN s = 1..Len(s)
      /\ \A i \in DOMAIN s : s[i] \in S
  BY LenProperties, ElementOfSeq
<1>2. IsFiniteSet(I)
  <2>1. IsFiniteSet(1..Len(s))
    BY <1>1, FS_Interval
  <2> QED BY <1>1, <2>1, FS_Subset
<1>3. /\ N \in Nat /\ o \in [1..N -> I]
      /\ \A i \in I : \E n \in 1..N : o[n] = i
      /\ \A m, n \in 1..N : o[m] = o[n] => m = n
  BY <1>2, InOrderLists
<1> HIDE DEF o, N
<1>4. p = [n \in 1..N |-> s[o[n]]]
  BY <1>3 DEF Pick
<1>5. \A n \in 1..N : p[n] = s[o[n]] /\ o[n] \in I /\ p[n] \in S
  BY <1>1, <1>3, <1>4
<1>6. p \in Seq(S) /\ Len(p) = N
  <2>1. p \in [1..N -> S]
    BY <1>4, <1>5
  <2>2. p \in Seq(S)
    BY <1>3, <2>1, SeqDef
  <2>3. Len(p) \in Nat /\ DOMAIN p = 1..Len(p)
    BY <2>2, LenProperties
  <2>4. DOMAIN p = 1..N
    BY <1>4
  <2> HIDE DEF p
  <2> DEFINE M == Len(p)
  <2>5. M \in Nat /\ 1..N = 1..M
    BY <2>3, <2>4
  <2> HIDE DEF M
  <2>6. N \in 0..N /\ M \in 0..M /\ (N > 0 => N \in 1..M) /\ (M > 0 => M \in 1..N)
    BY <1>3, <2>5
  <2>7. M = N
    BY <1>3, <2>5, <2>6
  <2> QED BY <2>2, <2>7 DEF M
<1> HIDE DEF p
<1>7. \A i \in I : \E n \in 1..N : p[n] = s[i]
  BY <1>3, <1>5
<1>8. \A n \in 1..N : \E i \in I : p[n] = s[i]
  BY <1>5
<1>9. ASSUME \A i, j \in I : s[i] = s[j] => i = j, NEW m \in 1..N, NEW n \in 1..N, p[m] = p[n]
      PROVE  m = n
  BY <1>3, <1>5, <1>9
<1>10. Elements(p, DOMAIN p) = Elements(s, I)
  <2>1. DOMAIN p = 1..N
    BY <1>6, LenProperties
  <2> QED BY <1>7, <1>8, <2>1 DEF Elements
<1> QED BY <1>6, <1>9, <1>10 DEF p, o, N

(***************************************************************************)
(* The numbers are in order.                                               *)
(***************************************************************************)
LEMMA LessIsStrictOrder ==
    ASSUME NEW I \in SUBSET Nat
    PROVE  StrictOrder(Less(I), I)
BY DEF StrictOrder, Less

(***************************************************************************)
(* The n-th element has n - 1 elements below it.                           *)
(***************************************************************************)
LEMMA InOrderRank ==
    ASSUME NEW I, IsFiniteSet(I), NEW R, StrictOrder(R, I), NEW n \in 1..Cardinality(I)
    PROVE  Cardinality(Smaller(I, R, InOrder(I, R)[n])) = n - 1
<1> DEFINE N == Cardinality(I)
           o == InOrder(I, R)
           below == Smaller(I, R, o[n])
           f == [m \in 1..(n - 1) |-> o[m]]
<1>1. /\ N \in Nat /\ o \in [1..N -> I]
      /\ \A i \in I : \E m \in 1..N : o[m] = i
      /\ \A l, m \in 1..N : o[l] = o[m] => l = m
      /\ \A l, m \in 1..N : l < m => <<o[l], o[m]>> \in R
  BY InOrderLists
<1>2. n \in 1..N /\ 1..(n - 1) \subseteq 1..N /\ o[n] \in I
  BY <1>1
<1> HIDE DEF o, N
<1>3. ASSUME NEW m \in 1..(n - 1)
      PROVE  o[m] \in below
  BY <1>1, <1>2 DEF Smaller
<1>4. ASSUME NEW i \in below
      PROVE  \E m \in 1..(n - 1) : o[m] = i
  <2>1. i \in I /\ <<i, o[n]>> \in R
    BY DEF Smaller
  <2>2. PICK m \in 1..N : o[m] = i
    BY <1>1, <2>1
  <2>3. m # n /\ <<o[n], o[m]>> \notin R
    BY <1>2, <2>1, <2>2 DEF StrictOrder
  <2>4. ~ n < m
    BY <1>1, <1>2, <2>3
  <2>5. m \in 1..(n - 1)
    BY <1>1, <1>2, <2>3, <2>4
  <2> QED BY <2>2, <2>5
<1>5. f \in Surjection(1..(n - 1), below) /\ f \in Injection(1..(n - 1), below)
  <2> HIDE DEF below
  <2>1. f \in [1..(n - 1) -> below]
    BY <1>3
  <2>2. \A l, m \in 1..(n - 1) : f[l] = f[m] => l = m
    BY <1>1, <1>2
  <2>3. \A i \in below : \E m \in 1..(n - 1) : f[m] = i
    BY <1>4
  <2> HIDE DEF f
  <2> QED BY <2>1, <2>2, <2>3 DEF Surjection, Injection, IsInjective
<1>6. IsFiniteSet(1..(n - 1)) /\ Cardinality(1..(n - 1)) = n - 1
  <2>1. n \in Nat /\ 1 <= n
    BY <1>1, <1>2
  <2>2. /\ IsFiniteSet(1..(n - 1))
        /\ Cardinality(1..(n - 1)) = IF 1 > n - 1 THEN 0 ELSE (n - 1) - 1 + 1
    BY <2>1, FS_Interval
  <2> QED BY <2>1, <2>2
<1> HIDE DEF f, below
<1>7. Cardinality(below) = Cardinality(1..(n - 1))
  BY <1>5, <1>6, FS_Surjection
<1> QED BY <1>6, <1>7 DEF below, o

(***************************************************************************)
(* A number with m - 1 smaller ones is the m-th.                           *)
(***************************************************************************)
LEMMA NumberAt ==
    ASSUME NEW I \in SUBSET Nat, IsFiniteSet(I), NEW i \in I, NEW m \in Nat,
           Cardinality({j \in I : j < i}) = m - 1
    PROVE  m \in 1..Cardinality(I) /\ InOrder(I, Less(I))[m] = i
<1>1. StrictOrder(Less(I), I)
  BY LessIsStrictOrder
<1>2. PICK n \in 1..Cardinality(I) : InOrder(I, Less(I))[n] = i
  BY <1>1, InOrderLists
<1>3. Smaller(I, Less(I), i) = {j \in I : j < i}
  BY DEF Smaller, Less
<1>4. n - 1 = m - 1
  BY <1>1, <1>2, <1>3, InOrderRank
<1>5. Cardinality(I) \in Nat
  BY FS_CardinalityType
<1> QED BY <1>2, <1>4, <1>5

LEMMA NumbersBelow ==
    ASSUME NEW I \in SUBSET Nat, IsFiniteSet(I), NEW m \in 1..Cardinality(I)
    PROVE  /\ InOrder(I, Less(I))[m] \in I
           /\ Cardinality({j \in I : j < InOrder(I, Less(I))[m]}) = m - 1
<1>1. StrictOrder(Less(I), I)
  BY LessIsStrictOrder
<1> DEFINE i == InOrder(I, Less(I))[m]
<1>2. i \in I
  BY <1>1, InOrderLists
<1> HIDE DEF i
<1>3. Smaller(I, Less(I), i) = {j \in I : j < i}
  BY <1>2 DEF Smaller, Less
<1> QED BY <1>1, <1>2, <1>3, InOrderRank DEF i

LEMMA ShiftedNumbers ==
    ASSUME NEW S \in SUBSET Nat, IsFiniteSet(S), NEW n \in Nat
    PROVE  /\ IsFiniteSet({n + k : k \in S})
           /\ Cardinality({n + k : k \in S}) = Cardinality(S)
<1> DEFINE T == {n + k : k \in S}
           f == [k \in S |-> n + k]
<1>1. f \in Surjection(S, T) /\ f \in Injection(S, T)
  <2>1. f \in [S -> T] /\ \A t \in T : \E k \in S : f[k] = t
    OBVIOUS
  <2>2. \A j, k \in S : f[j] = f[k] => j = k
    OBVIOUS
  <2> HIDE DEF f, T
  <2> QED BY <2>1, <2>2 DEF Surjection, Injection, IsInjective
<1> HIDE DEF f, T
<1>2. IsFiniteSet(T) /\ Cardinality(T) = Cardinality(S)
  BY <1>1, FS_Surjection
<1> QED BY <1>2 DEF T

(***************************************************************************)
(* Numbers J up to n, followed by numbers K that are counted from n on.    *)
(***************************************************************************)
Continued(I, J, n, K) ==
    /\ n \in Nat /\ J \in SUBSET (0..n) /\ K \in SUBSET (Nat \ {0}) /\ IsFiniteSet(K)
    /\ I = J \union {n + k : k \in K}

LEMMA OrderJoined ==
    ASSUME NEW I, NEW J, NEW n, NEW K, Continued(I, J, n, K)
    PROVE  /\ Cardinality(J) \in Nat /\ Cardinality(K) \in Nat
           /\ Cardinality(I) = Cardinality(J) + Cardinality(K)
           /\ \A m \in 1..Cardinality(J) : InOrder(I, Less(I))[m] = InOrder(J, Less(J))[m]
           /\ \A m \in 1..Cardinality(K) :
                 InOrder(I, Less(I))[Cardinality(J) + m] = n + InOrder(K, Less(K))[m]
<1>0. /\ n \in Nat /\ J \in SUBSET (0..n) /\ K \in SUBSET (Nat \ {0}) /\ IsFiniteSet(K)
      /\ I = J \union {n + k : k \in K}
  BY DEF Continued
<1> USE <1>0
<1>1. J \in SUBSET Nat /\ K \in SUBSET Nat /\ I \in SUBSET Nat
  <2>1. \A k \in K : n + k \in Nat
    OBVIOUS
  <2>2. \A j \in J : j \in Nat
    OBVIOUS
  <2> QED BY <2>1, <2>2
<1>2. IsFiniteSet(J)
  <2>1. IsFiniteSet(0..n)
    BY FS_Interval
  <2> QED BY <2>1, FS_Subset
<1>3. Cardinality(J) \in Nat /\ Cardinality(K) \in Nat
  BY <1>2, FS_CardinalityType
<1>4. ASSUME NEW S \in SUBSET K
      PROVE  /\ IsFiniteSet(J \union {n + k : k \in S})
             /\ Cardinality(J \union {n + k : k \in S}) = Cardinality(J) + Cardinality(S)
             /\ Cardinality(S) \in Nat
  <2> DEFINE T == {n + k : k \in S}
  <2>1. IsFiniteSet(S) /\ S \in SUBSET Nat
    BY <1>1, FS_Subset
  <2>2. IsFiniteSet(T) /\ Cardinality(T) = Cardinality(S) /\ Cardinality(S) \in Nat
    BY <2>1, ShiftedNumbers, FS_CardinalityType
  <2>3. J \intersect T = {}
    <3> SUFFICES ASSUME NEW k \in S, n + k \in J PROVE FALSE
      OBVIOUS
    <3>1. k \in Nat /\ k # 0 /\ n + k \in 0..n
      OBVIOUS
    <3> QED BY <3>1
  <2> HIDE DEF T
  <2>4. /\ IsFiniteSet(J \union T)
        /\ Cardinality(J \union T) = Cardinality(J) + Cardinality(T) - Cardinality(J \intersect T)
    BY <1>2, <2>2, FS_Union
  <2>5. Cardinality(J \intersect T) = 0
    BY <2>3, FS_EmptySet
  <2> QED BY <1>3, <2>2, <2>4, <2>5 DEF T
<1>5. IsFiniteSet(I) /\ Cardinality(I) = Cardinality(J) + Cardinality(K)
  BY <1>4
<1>6. ASSUME NEW m \in 1..Cardinality(J)
      PROVE  InOrder(I, Less(I))[m] = InOrder(J, Less(J))[m]
  <2> DEFINE i == InOrder(J, Less(J))[m]
  <2>1. i \in J /\ Cardinality({j \in J : j < i}) = m - 1
    BY <1>1, <1>2, NumbersBelow
  <2> HIDE DEF i
  <2>2. {j \in I : j < i} = {j \in J : j < i}
    <3>1. i \in 0..n
      BY <2>1
    <3>2. \A k \in K : ~ n + k < i
      BY <3>1
    <3> QED BY <3>2
  <2>3. i \in I /\ m \in Nat
    BY <1>3, <2>1
  <2>4. InOrder(I, Less(I))[m] = i
    BY <1>1, <1>5, <2>1, <2>2, <2>3, NumberAt
  <2> QED BY <2>4 DEF i
<1>7. ASSUME NEW m \in 1..Cardinality(K)
      PROVE  InOrder(I, Less(I))[Cardinality(J) + m] = n + InOrder(K, Less(K))[m]
  <2> DEFINE i == InOrder(K, Less(K))[m]
             S == {k \in K : k < i}
  <2>1. i \in K /\ Cardinality(S) = m - 1
    BY <1>1, NumbersBelow
  <2> HIDE DEF i
  <2>2. {j \in I : j < n + i} = J \union {n + k : k \in S}
    <3>1. i \in Nat \ {0} /\ \A j \in J : j \in 0..n
      BY <2>1
    <3>2. ASSUME NEW j \in J
          PROVE  j < n + i
      <4>1. j \in 0..n /\ i \in Nat /\ i # 0
        BY <3>1
      <4> QED BY <4>1
    <3>3. \A k \in K : n + k < n + i <=> k < i
      BY <1>1, <3>1
    <3> QED BY <3>2, <3>3
  <2>3. Cardinality(J \union {n + k : k \in S}) = Cardinality(J) + Cardinality(S)
    BY <1>4
  <2> DEFINE c == Cardinality(J) + m
  <2>4. c \in Nat /\ Cardinality({j \in I : j < n + i}) = c - 1
    <3>1. m \in Nat
      BY <1>3
    <3> HIDE DEF S
    <3>2. Cardinality({j \in I : j < n + i}) = Cardinality(J) + (m - 1)
      BY <2>1, <2>2, <2>3
    <3> QED BY <1>3, <3>1, <3>2
  <2>5. n + i \in I
    BY <2>1
  <2> HIDE DEF c
  <2>6. InOrder(I, Less(I))[c] = n + i
    BY <1>1, <1>5, <2>4, <2>5, NumberAt
  <2> QED BY <2>6 DEF i, c
<1> QED BY <1>1, <1>2, <1>3, <1>5, <1>6, <1>7

----------------------------------------------------------------------------
(* Recursive functions. *)

(***************************************************************************)
(* What is done n times, one step after the other, leads somewhere.        *)
(***************************************************************************)
IsPath(f, n, S, a, step) ==
    /\ f \in [0..n -> S]
    /\ f[0] = a
    /\ \A k \in 1..n : f[k] = step[<<f[k - 1], k>>]

LEMMA Iterates ==
    ASSUME NEW n \in Nat, NEW S, NEW a \in S, NEW step \in [S \X (1..n) -> S]
    PROVE  \E f : IsPath(f, n, S, a, step)
<1> DEFINE Reaches(m) == \E f \in [0..m -> S] :
                f[0] = a /\ \A k \in 1..m : f[k] = step[<<f[k - 1], k>>]
           Stuck == {m \in 0..n : ~Reaches(m)}
<1>1. Reaches(0)
  <2> DEFINE f == [k \in 0..0 |-> a]
  <2>1. f \in [0..0 -> S] /\ f[0] = a
    OBVIOUS
  <2>2. \A k \in 1..0 : f[k] = step[<<f[k - 1], k>>]
    OBVIOUS
  <2> HIDE DEF f
  <2> QED BY <2>1, <2>2
<1>2. ASSUME NEW m \in 1..n, Reaches(m - 1)
      PROVE  Reaches(m)
  <2>1. PICK f \in [0..(m - 1) -> S] :
          f[0] = a /\ \A k \in 1..(m - 1) : f[k] = step[<<f[k - 1], k>>]
    BY <1>2
  <2> DEFINE last == step[<<f[m - 1], m>>]
             g == [k \in 0..m |-> IF k = m THEN last ELSE f[k]]
  <2>2. last \in S
    <3>1. m - 1 \in 0..(m - 1)
      OBVIOUS
    <3> QED BY <2>1, <3>1
  <2>3. g \in [0..m -> S] /\ g[0] = a
    BY <2>1, <2>2
  <2>4. ASSUME NEW k \in 1..m
        PROVE  g[k] = step[<<g[k - 1], k>>]
    <3>1. k - 1 \in 0..m /\ k - 1 # m /\ k \in 0..m
      OBVIOUS
    <3>2. CASE k = m
      BY <3>1, <3>2
    <3>3. CASE k # m
      <4>1. k \in 1..(m - 1)
        BY <3>3
      <4> QED BY <2>1, <3>1, <4>1
    <3> QED BY <3>2, <3>3
  <2> QED BY <2>3, <2>4
<1> HIDE DEF Reaches
<1>3. Stuck = {}
  <2> SUFFICES ASSUME Stuck # {} PROVE FALSE
    OBVIOUS
  <2>1. Stuck \subseteq Nat
    OBVIOUS
  <2>2. PICK m \in Stuck : \A j \in Stuck : m <= j
    BY <2>1, LeastNumber
  <2>3. m \in 1..n
    BY <1>1, <2>2
  <2>4. m - 1 \in 0..n /\ m - 1 \notin Stuck
    BY <2>2, <2>3
  <2> QED BY <1>2, <2>2, <2>3, <2>4
<1>4. n \in 0..n
  OBVIOUS
<1>5. Reaches(n)
  BY <1>3, <1>4
<1> QED BY <1>5 DEF Reaches, IsPath

(***************************************************************************)
(* Joining sequences over X gives a sequence over X.                       *)
(***************************************************************************)
LEMMA FlattenType ==
    ASSUME NEW X, NEW s \in Seq(Seq(X))
    PROVE  FlattenSeq(s) \in Seq(X)
<1> DEFINE n == Len(s)
           IsJoin(f) == f = [i \in 1..n |-> IF i = 1 THEN s[i] ELSE f[i - 1] \o s[i]]
<1>1. n \in Nat /\ \A i \in 1..n : s[i] \in Seq(X)
  OBVIOUS
<1>2. CASE n = 0
  <2>1. FlattenSeq(s) = s /\ s = <<>>
    BY <1>2 DEF FlattenSeq
  <2> QED BY <2>1
<1>3. CASE n # 0
  <2> DEFINE step == [p \in Seq(X) \X (1..n) |-> p[1] \o s[p[2]]]
  <2>1. step \in [Seq(X) \X (1..n) -> Seq(X)]
    BY <1>1
  <2> HIDE DEF n
  <2>2. PICK g \in [0..n -> Seq(X)] :
            g[0] = <<>> /\ \A k \in 1..n : g[k] = step[<<g[k - 1], k>>]
    <3>1. <<>> \in Seq(X)
      OBVIOUS
    <3> DEFINE T == Seq(X)
               e == <<>>
    <3>2. step \in [T \X (1..n) -> T] /\ e \in T
      BY <2>1, <3>1
    <3> HIDE DEF step, T, e
    <3>3. PICK g : IsPath(g, n, T, e, step)
      BY <1>1, <3>2, Iterates
    <3>4. g \in [0..n -> T] /\ g[0] = e /\ \A k \in 1..n : g[k] = step[<<g[k - 1], k>>]
      BY <3>3 DEF IsPath
    <3> QED BY <3>4 DEF T, e
  <2>3. ASSUME NEW k \in 1..n
        PROVE  g[k] \in Seq(X) /\ g[k - 1] \in Seq(X) /\ g[k] = g[k - 1] \o s[k]
    <3>1. k \in 0..n /\ k - 1 \in 0..n
      BY <1>1
    <3>2. g[k] \in Seq(X) /\ g[k - 1] \in Seq(X)
      BY <2>2, <3>1
    <3> QED BY <2>2, <3>2
  <2>4. g[1] = s[1]
    <3>1. 1 \in 1..n
      BY <1>1, <1>3
    <3>2. g[1] = g[1 - 1] \o s[1] /\ s[1] \in Seq(X)
      BY <1>1, <2>3, <3>1
    <3>3. 1 - 1 = 0
      OBVIOUS
    <3>4. g[1 - 1] = <<>>
      BY <2>2, <3>3
    <3> QED BY <3>2, <3>4
  <2> DEFINE h == [i \in 1..n |-> g[i]]
  <2>5. IsJoin(h)
    <3>1. ASSUME NEW i \in 1..n
          PROVE  h[i] = IF i = 1 THEN s[i] ELSE h[i - 1] \o s[i]
      <4>1. CASE i = 1
        BY <2>4, <4>1
      <4>2. CASE i # 1
        <5>1. i - 1 \in 1..n
          BY <1>1, <4>2
        <5> QED BY <2>3, <4>2, <5>1
      <4> QED BY <4>1, <4>2
    <3> QED BY <3>1
  <2> DEFINE f == CHOOSE f : IsJoin(f)
  <2>6. IsJoin(f)
    BY <2>5
  <2>7. FlattenSeq(s) = f[n]
    BY <1>3 DEF FlattenSeq, n
  <2> HIDE DEF f
  <2>8. \A i \in 1..n : f[i] = IF i = 1 THEN s[i] ELSE f[i - 1] \o s[i]
    BY <2>6
  <2> DEFINE Others == {i \in 1..n : f[i] # g[i]}
  <2>9. Others = {}
    <3> SUFFICES ASSUME Others # {} PROVE FALSE
      OBVIOUS
    <3>1. Others \subseteq Nat
      OBVIOUS
    <3>2. PICK i \in Others : \A j \in Others : i <= j
      BY <3>1, LeastNumber
    <3>3. i \in 1..n /\ i # 1
      BY <2>4, <2>8, <3>2
    <3>4. i - 1 \in 1..n /\ i - 1 \notin Others
      BY <1>1, <3>2, <3>3
    <3>5. f[i - 1] = g[i - 1]
      BY <3>4
    <3> QED BY <2>3, <2>8, <3>2, <3>3, <3>5
  <2>10. n \in 1..n
    BY <1>1, <1>3
  <2> QED BY <2>3, <2>7, <2>9, <2>10
<1> QED BY <1>2, <1>3

----------------------------------------------------------------------------
(* Folds. *)

(***************************************************************************)
(* The places from a on are good if a is, and each one that follows a good *)
(* one.                                                                    *)
(***************************************************************************)
LEMMA Climbs ==
    ASSUME NEW a \in Nat, NEW n \in Nat, NEW Good, a \in Good,
           \A k \in (a + 1)..n : k - 1 \in Good => k \in Good
    PROVE  \A k \in a..n : k \in Good
<1> DEFINE Others == {k \in a..n : k \notin Good}
<1> SUFFICES ASSUME Others # {} PROVE FALSE
  OBVIOUS
<1>1. Others \subseteq Nat
  OBVIOUS
<1>2. PICK k \in Others : \A j \in Others : k <= j
  BY <1>1, LeastNumber
<1>3. k \in (a + 1)..n
  BY <1>2
<1>4. k - 1 \in a..n /\ k - 1 \notin Others
  BY <1>2, <1>3
<1> QED BY <1>2, <1>3, <1>4

(***************************************************************************)
(* The greatest of some of the first n numbers is one of them.             *)
(***************************************************************************)
LEMMA MaxIs ==
    ASSUME NEW n \in Nat, NEW S \in SUBSET (1..n), S # {}
    PROVE  Max(S) \in S /\ \A m \in S : m <= Max(S)
<1> DEFINE Bounds == {b \in 1..n : \A m \in S : m <= b}
<1>0. \A m \in S : m \in 1..n
  OBVIOUS
<1>1. n \in Bounds
  <2>1. PICK m \in S : TRUE
    OBVIOUS
  <2> QED BY <1>0, <2>1
<1>2. PICK b \in Bounds : \A c \in Bounds : b <= c
  <2>1. Bounds \subseteq Nat
    OBVIOUS
  <2> HIDE DEF Bounds
  <2> QED BY <1>1, <2>1, LeastNumber
<1>3. b \in S
  <2> SUFFICES ASSUME b \notin S PROVE FALSE
    OBVIOUS
  <2>1. \A m \in S : m <= b - 1 /\ 1 <= m
    BY <1>2
  <2>2. b - 1 \in Bounds
    <3>1. PICK m \in S : TRUE
      OBVIOUS
    <3>2. b - 1 \in 1..n
      BY <1>2, <2>1, <3>1
    <3> QED BY <2>1, <3>2
  <2> QED BY <1>2, <2>2
<1>4. \A m \in S : b >= m
  BY <1>2
<1>5. Max(S) \in S /\ \A m \in S : Max(S) >= m
  BY <1>3, <1>4 DEF Max
<1> QED BY <1>5

LEMMA IntervalMax ==
    ASSUME NEW n \in Nat, NEW k \in 1..n
    PROVE  /\ 1..k \in SUBSET (1..n) /\ 1..k # {}
           /\ Max(1..k) = k /\ (1..k) \ {Max(1..k)} = 1..(k - 1)
<1>1. 1..k \in SUBSET (1..n) /\ 1..k # {} /\ k \in 1..k
  OBVIOUS
<1>2. Max(1..k) \in 1..k /\ k <= Max(1..k)
  BY <1>1, MaxIs
<1>3. Max(1..k) = k
  BY <1>2
<1> QED BY <1>1, <1>3

(***************************************************************************)
(* There is a function that takes the elements of every set of places one   *)
(* by one.                                                                 *)
(***************************************************************************)
IsFold(g, n, a, step) ==
    g = [t \in SUBSET (1..n) |-> IF t = {} THEN a ELSE step[<<g[t \ {Max(t)}], Max(t)>>]]

LEMMA FoldExists ==
    ASSUME NEW n \in Nat, NEW S, NEW a \in S, NEW step \in [S \X (1..n) -> S]
    PROVE  \E g \in [SUBSET (1..n) -> S] : IsFold(g, n, a, step)
<1> DEFINE Skip(t) == [p \in S \X (1..n) |-> IF p[2] \in t THEN step[p] ELSE p[1]]
           Path(t) == CHOOSE f : IsPath(f, n, S, a, Skip(t))
           g == [t \in SUBSET (1..n) |-> Path(t)[n]]
<1>1. ASSUME NEW t
      PROVE  /\ Path(t) \in [0..n -> S] /\ Path(t)[0] = a
             /\ \A k \in 1..n : Path(t)[k] = IF k \in t THEN step[<<Path(t)[k - 1], k>>]
                                            ELSE Path(t)[k - 1]
  <2>1. Skip(t) \in [S \X (1..n) -> S]
    OBVIOUS
  <2>2. IsPath(Path(t), n, S, a, Skip(t))
    <3> HIDE DEF Skip
    <3>1. \E f : IsPath(f, n, S, a, Skip(t))
      BY <2>1, Iterates
    <3> QED BY <3>1
  <2> HIDE DEF Path
  <2>3. Path(t) \in [0..n -> S] /\ Path(t)[0] = a
    BY <2>2 DEF IsPath
  <2>4. ASSUME NEW k \in 1..n
        PROVE  Path(t)[k] = IF k \in t THEN step[<<Path(t)[k - 1], k>>] ELSE Path(t)[k - 1]
    <3>1. k - 1 \in 0..n
      OBVIOUS
    <3>2. Path(t)[k - 1] \in S
      BY <2>3, <3>1
    <3>3. Path(t)[k] = Skip(t)[<<Path(t)[k - 1], k>>]
      BY <2>2 DEF IsPath
    <3> QED BY <3>2, <3>3
  <2> QED BY <2>3, <2>4
<1> HIDE DEF Path
<1>2. ASSUME NEW t, NEW u, NEW m \in 0..n, \A k \in 1..m : k \in t <=> k \in u
      PROVE  Path(t)[m] = Path(u)[m]
  <2> DEFINE Good == {k \in 0..m : Path(t)[k] = Path(u)[k]}
  <2>1. 0 \in Good
    BY <1>1
  <2>2. ASSUME NEW k \in (0 + 1)..m, k - 1 \in Good PROVE k \in Good
    <3>1. k \in 1..n /\ k \in 1..m /\ k \in 0..m
      OBVIOUS
    <3>2. Path(t)[k - 1] = Path(u)[k - 1]
      BY <2>2
    <3>3. Path(t)[k] = Path(u)[k]
      <4>1. CASE k \in t
        <5>1. k \in u
          BY <1>2, <3>1, <4>1
        <5>2. Path(t)[k] = step[<<Path(t)[k - 1], k>>] /\ Path(u)[k] = step[<<Path(u)[k - 1], k>>]
          BY <1>1, <3>1, <4>1, <5>1
        <5> QED BY <3>2, <5>2
      <4>2. CASE k \notin t
        BY <1>1, <1>2, <3>1, <3>2, <4>2
      <4> QED BY <4>1, <4>2
    <3> QED BY <3>1, <3>3
  <2> HIDE DEF Good
  <2>3. m \in 0..m /\ 0 \in Nat /\ m \in Nat
    OBVIOUS
  <2>4. m \in Good
    BY <2>1, <2>2, <2>3, Climbs
  <2> QED BY <2>4 DEF Good
<1>3. ASSUME NEW t, NEW m \in 0..n, \A k \in t : k <= m
      PROVE  Path(t)[n] = Path(t)[m]
  <2> DEFINE Good == {k \in m..n : Path(t)[k] = Path(t)[m]}
  <2>1. m \in Good
    OBVIOUS
  <2>2. ASSUME NEW k \in (m + 1)..n, k - 1 \in Good PROVE k \in Good
    <3>1. k \in 1..n /\ k \notin t /\ k \in m..n
      BY <1>3
    <3>2. Path(t)[k] = Path(t)[k - 1]
      BY <1>1, <3>1
    <3> QED BY <2>2, <3>1, <3>2
  <2> HIDE DEF Good
  <2>3. n \in m..n /\ m \in Nat
    OBVIOUS
  <2>4. n \in Good
    BY <2>1, <2>2, <2>3, Climbs
  <2> QED BY <2>4 DEF Good
<1>4. g \in [SUBSET (1..n) -> S]
  <2>1. n \in 0..n
    OBVIOUS
  <2> QED BY <1>1, <2>1
<1>5. ASSUME NEW t \in SUBSET (1..n)
      PROVE  g[t] = IF t = {} THEN a ELSE step[<<g[t \ {Max(t)}], Max(t)>>]
  <2>1. CASE t = {}
    <3>1. Path(t)[n] = Path(t)[0]
      BY <1>3, <2>1
    <3> QED BY <1>1, <2>1, <3>1
  <2>2. CASE t # {}
    <3> DEFINE x == Max(t)
               u == t \ {x}
    <3>1. x \in t /\ \A m \in t : m <= x
      BY <2>2, MaxIs
    <3> HIDE DEF x
    <3>2. x \in 1..n /\ x - 1 \in 0..n /\ x \in 0..n
      BY <3>1
    <3>3. Path(t)[n] = step[<<Path(t)[x - 1], x>>]
      BY <1>1, <1>3, <3>1, <3>2
    <3>4. Path(t)[x - 1] = Path(u)[x - 1]
      <4>1. \A k \in 1..(x - 1) : k \in t <=> k \in u
        BY <3>2
      <4> HIDE DEF u
      <4> QED BY <1>2, <3>2, <4>1
    <3>5. Path(u)[n] = Path(u)[x - 1]
      <4>1. \A k \in u : k <= x - 1
        BY <3>1, <3>2
      <4> HIDE DEF u
      <4> QED BY <1>3, <3>2, <4>1
    <3>6. g[t] = step[<<g[u], x>>]
      BY <3>3, <3>4, <3>5
    <3> QED BY <2>2, <3>6 DEF x
  <2> QED BY <2>1, <2>2
<1>6. IsFold(g, n, a, step)
  <2> HIDE DEF Path
  <2>1. g = [t \in SUBSET (1..n) |-> g[t]]
    OBVIOUS
  <2> HIDE DEF g
  <2> QED BY <1>5, <2>1 DEF IsFold
<1> HIDE DEF g
<1> QED BY <1>4, <1>6

(***************************************************************************)
(* Such a function takes one element after the other.                      *)
(***************************************************************************)
LEMMA FoldIsPath ==
    ASSUME NEW n \in Nat, NEW S, NEW a \in S, NEW step \in [S \X (1..n) -> S], NEW g,
           g[{}] = a,
           \A t \in SUBSET (1..n) :
              t # {} /\ g[t \ {Max(t)}] \in S => g[t] = step[<<g[t \ {Max(t)}], Max(t)>>]
    PROVE  IsPath([k \in 0..n |-> g[1..k]], n, S, a, step)
<1> DEFINE f == [k \in 0..n |-> g[1..k]]
           Good == {k \in 0..n : f[k] \in S}
<1>1. f[0] = a
  <2>1. 1..0 = {}
    OBVIOUS
  <2> QED BY <2>1
<1>2. ASSUME NEW k \in 1..n, f[k - 1] \in S
      PROVE  f[k] = step[<<f[k - 1], k>>] /\ f[k] \in S
  <2>1. /\ 1..k \in SUBSET (1..n) /\ 1..k # {} /\ Max(1..k) = k
        /\ (1..k) \ {Max(1..k)} = 1..(k - 1)
    BY IntervalMax
  <2>2. f[k - 1] = g[1..(k - 1)] /\ f[k] = g[1..k]
    OBVIOUS
  <2> HIDE DEF f
  <2>3. g[1..k] = step[<<g[1..(k - 1)], k>>]
    <3>1. g[(1..k) \ {Max(1..k)}] \in S
      BY <1>2, <2>1, <2>2
    <3> QED BY <2>1, <3>1
  <2> QED BY <1>2, <2>2, <2>3
<1>3. \A k \in 0..n : f[k] \in S
  <2>1. 0 \in Good
    BY <1>1
  <2>2. ASSUME NEW k \in (0 + 1)..n, k - 1 \in Good PROVE k \in Good
    <3>1. k \in 1..n /\ k \in 0..n
      OBVIOUS
    <3> HIDE DEF f
    <3>2. f[k - 1] \in S
      BY <2>2
    <3> QED BY <1>2, <3>1, <3>2
  <2> HIDE DEF Good
  <2>3. \A k \in 0..n : k \in Good
    BY <2>1, <2>2, Climbs
  <2> HIDE DEF f
  <2> QED BY <2>3 DEF Good
<1>4. f \in [0..n -> S]
  BY <1>3
<1>5. \A k \in 1..n : f[k] = step[<<f[k - 1], k>>]
  <2>1. \A k \in 1..n : k - 1 \in 0..n
    OBVIOUS
  <2> HIDE DEF f
  <2> QED BY <1>2, <1>3, <2>1
<1> HIDE DEF f
<1>6. IsPath(f, n, S, a, step)
  BY <1>1, <1>4, <1>5 DEF IsPath
<1> QED BY <1>6 DEF f

(***************************************************************************)
(* A definition by recursion has a value for every argument if it takes    *)
(* only values for arguments of less measure, and the measures are bounded. *)
(***************************************************************************)
Measured(D, mu, top) == mu \in [D -> Nat] /\ top \in Nat /\ \A d \in D : mu[d] < top
Grounded(G, D, S, mu) ==
    /\ G \in [D \X [D -> S] -> S]
    /\ \A d \in D : \A f, g \in [D -> S] :
          (\A e \in D : mu[e] < mu[d] => f[e] = g[e]) => G[<<d, f>>] = G[<<d, g>>]
Solves(f, G, D, S) == f \in [D -> S] /\ \A d \in D : f[d] = G[<<d, f>>]

LEMMA Recursion ==
    ASSUME NEW D, NEW S, NEW s0 \in S, NEW mu, NEW top, Measured(D, mu, top),
           NEW G, Grounded(G, D, S, mu)
    PROVE  \E f : Solves(f, G, D, S)
<1> USE DEF Measured
<1>0. G \in [D \X [D -> S] -> S]
  BY DEF Grounded
<1> DEFINE Found(m, f) == \A d \in D : mu[d] < m => f[d] = G[<<d, f>>]
           Good == {m \in 0..top : \E f \in [D -> S] : Found(m, f)}
<1>1. 0 \in Good
  <2>1. [d \in D |-> s0] \in [D -> S]
    OBVIOUS
  <2>2. \A d \in D : ~(mu[d] < 0)
    OBVIOUS
  <2>3. 0 \in 0..top
    OBVIOUS
  <2> QED BY <2>1, <2>2, <2>3
<1>2. ASSUME NEW m \in (0 + 1)..top, m - 1 \in Good
      PROVE  m \in Good
  <2>1. PICK f \in [D -> S] : Found(m - 1, f)
    BY <1>2
  <2> DEFINE g == [d \in D |-> IF mu[d] < m THEN G[<<d, f>>] ELSE f[d]]
  <2>2. \A d \in D : G[<<d, f>>] \in S
    BY <1>0
  <2>3. g \in [D -> S] /\ \A d \in D : g[d] = IF mu[d] < m THEN G[<<d, f>>] ELSE f[d]
    BY <2>2
  <2> HIDE DEF g
  <2>4. ASSUME NEW d \in D, mu[d] < m
        PROVE  g[d] = G[<<d, g>>]
    <3>1. ASSUME NEW e \in D, mu[e] < mu[d]
          PROVE  f[e] = g[e]
      <4>1. mu[e] \in Nat /\ mu[d] \in Nat
        OBVIOUS
      <4>2. mu[e] < m - 1 /\ mu[e] < m
        BY <2>4, <3>1, <4>1
      <4> QED BY <2>1, <2>3, <4>2
    <3>2. G[<<d, f>>] = G[<<d, g>>]
      BY <2>3, <3>1 DEF Grounded
    <3> QED BY <2>3, <2>4, <3>2
  <2>5. Found(m, g)
    BY <2>4
  <2>6. m \in 0..top
    OBVIOUS
  <2> QED BY <2>3, <2>5, <2>6
<1> HIDE DEF Found
<1>3. \A k \in 0..top : k \in Good
  <2> HIDE DEF Good
  <2> QED BY <1>1, <1>2, Climbs
<1>4. PICK f \in [D -> S] : Found(top, f)
  <2>1. top \in 0..top
    OBVIOUS
  <2> QED BY <1>3, <2>1
<1> QED BY <1>4 DEF Found, Solves

(***************************************************************************)
(* What holds of an argument when it holds of all those of less measure    *)
(* holds of all.                                                           *)
(***************************************************************************)
LEMMA ByMeasure ==
    ASSUME NEW D, NEW mu \in [D -> Nat], NEW Good,
           \A d \in D : (\A e \in D : mu[e] < mu[d] => e \in Good) => d \in Good
    PROVE  \A d \in D : d \in Good
<1> DEFINE Bad == {mu[d] : d \in D \ Good}
<1> SUFFICES ASSUME Bad # {} PROVE FALSE
  OBVIOUS
<1>1. Bad \subseteq Nat
  OBVIOUS
<1>2. PICK m \in Bad : \A k \in Bad : m <= k
  BY <1>1, LeastNumber
<1>3. PICK d \in D \ Good : m = mu[d]
  BY <1>2
<1>4. ASSUME NEW e \in D, mu[e] < mu[d]
      PROVE  e \in Good
  <2> SUFFICES ASSUME e \notin Good PROVE FALSE
    OBVIOUS
  <2>1. mu[e] \in Bad /\ mu[e] \in Nat /\ mu[d] \in Nat
    OBVIOUS
  <2> QED BY <1>2, <1>3, <1>4, <2>1
<1> QED BY <1>3, <1>4

=============================================================================
