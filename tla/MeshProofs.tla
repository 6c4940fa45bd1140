------------------------------ MODULE MeshProofs ------------------------------
(***************************************************************************)
(* What holds of the half-edge mesh for any points, faces and transforms,  *)
(* and meshes of any size: its types; that rings are the classes of the    *)
(* vertices in one place; that the half edges of a polygon are one closed  *)
(* loop; and that pairs are mutual and none is missing.                    *)
(*                                                                         *)
(* The operations are folds. For each of their steps a lemma says what it  *)
(* changes, field by field, and for each fold one says that what all its   *)
(* steps keep holds at its end. The invariants speak of neighbours and of  *)
(* sets closed under them, never of a walk: a walk around a ring or a      *)
(* polygon meets all of it because no part of it is closed.                *)
(***************************************************************************)
EXTENDS Mesh, SequenceTheorems, FiniteSetTheorems, WellFoundedInduction, TLAPS

-----------------------------------------------------------------------------
(* Numbers *)

(* What the well-founded order of the numbers calls earlier is smaller. *)
LEMMA Earlier ==
  ASSUME NEW x \in Nat, NEW y \in Nat, ~(<<y, x>> \in OpToRel(<, Nat))
  PROVE  ~(y < x)
BY DEF OpToRel

(* Induction up to a number, for sets in place of predicates. *)
LEMMA UpTo ==
  ASSUME NEW n \in Nat, NEW S, 0 \in S, \A k \in 0..n : k < n /\ k \in S => k + 1 \in S
  PROVE  0..n \subseteq S
<1> DEFINE Out == 0..n \ S
<1>1. SUFFICES ASSUME Out # {} PROVE FALSE
  OBVIOUS
<1>2. PICK x \in Out : \A y \in Out : ~(<<y, x>> \in OpToRel(<, Nat))
  <2>1. Out \subseteq Nat
    OBVIOUS
  <2> HIDE DEF Out
  <2> QED
    BY <1>1, <2>1, NatLessThanWellFounded, WFMin
<1>3. \A y \in Out : ~(y < x)
  <2>1. Out \subseteq Nat
    OBVIOUS
  <2> HIDE DEF Out
  <2> QED
    BY <1>2, <2>1, Earlier
<1>4. x \in Nat /\ x # 0 /\ x <= n
  OBVIOUS
<1>5. x - 1 \in 0..n /\ x - 1 < x /\ x = (x - 1) + 1 /\ x - 1 < n
  BY <1>4
<1>6. x - 1 \in S
  BY <1>3, <1>5
<1> QED
  BY <1>2, <1>5, <1>6

(* The least and the greatest of a set of numbers. *)
LEMMA MinIsLeast ==
  ASSUME NEW S, S \subseteq Nat, S # {}
  PROVE  Min(S) \in S /\ \A y \in S : Min(S) <= y
<1>1. PICK x \in S : \A y \in S : ~(<<y, x>> \in OpToRel(<, Nat))
  BY NatLessThanWellFounded, WFMin
<1>2. \A y \in S : x <= y
  <2>1. \A y \in S : ~(y < x)
    BY <1>1, Earlier
  <2> QED
    BY <2>1
<1> QED
  BY <1>2 DEF Min

(* A non-empty set of numbers up to n has its greatest. *)
LEMMA MaxIsGreatest ==
  ASSUME NEW n \in Nat, NEW S, S \subseteq 1..n, S # {}
  PROVE  Max(S) \in S /\ \A y \in S : y <= Max(S)
<1> DEFINE T == {n - y : y \in S}
<1>1. T \subseteq Nat /\ T # {}
  <2>1. \A y \in S : y \in 1..n /\ n - y \in Nat
    OBVIOUS
  <2> QED
    BY <2>1
<1>2. PICK x \in S : n - x = Min(T)
  BY <1>1, MinIsLeast
<1>3. \A y \in S : x >= y
  <2> TAKE y \in S
  <2>1. n - x <= n - y
    <3>1. n - y \in T
      OBVIOUS
    <3> HIDE DEF T
    <3> QED
      BY <1>1, <1>2, <3>1, MinIsLeast
  <2> QED
    BY <2>1
<1> QED
  BY <1>3 DEF Max

(* The greatest of the first k numbers is k. *)
LEMMA MaxOfInterval ==
  ASSUME NEW n \in Nat, NEW k \in 1..n
  PROVE  Max(1..k) = k
<1>1. Max(1..k) \in 1..k /\ \A y \in 1..k : y <= Max(1..k)
  BY MaxIsGreatest
<1> QED
  BY <1>1

(* As many places as numbers, and no number twice: each has its place. *)
LEMMA Pigeons ==
  ASSUME NEW n \in Nat, NEW N \in Nat, NEW s \in [1..n -> 1..N],
         \A i, j \in 1..n : s[i] = s[j] => i = j
  PROVE  /\ n <= N
         /\ n = N => \A y \in 1..N : \E i \in 1..n : s[i] = y
<1>1. s \in Injection(1..n, 1..N)
  BY DEF Injection, IsInjective
<1>2. /\ IsFiniteSet(1..N)
      /\ Cardinality(1..n) = n /\ Cardinality(1..N) = N
  BY FS_Interval
<1>3. n <= N /\ (n = N => s \in Surjection(1..n, 1..N))
  BY <1>1, <1>2, FS_Injection
<1> QED
  BY <1>3 DEF Surjection

(* A sequence of n different numbers up to n has every one of them. *)
LEMMA AllTaken ==
  ASSUME NEW n \in Nat, NEW s \in [1..n -> 1..n],
         \A i, j \in 1..n : s[i] = s[j] => i = j
  PROVE  \A y \in 1..n : \E i \in 1..n : s[i] = y
BY Pigeons

-----------------------------------------------------------------------------
(* Folds *)

(* There is the function that a fold over the places 1..n is defined by. *)
Iterates(n, D, b, G) ==
  \E it \in [SUBSET (1..n) -> D] :
    \A s \in SUBSET (1..n) :
      it[s] = IF s = {} THEN b ELSE G[<<Max(s), it[s \ {Max(s)}]>>]

(* There is, if its steps stay in D. *)
LEMMA FoldIterates ==
  ASSUME NEW n \in Nat, NEW D, NEW b \in D, NEW G \in [(1..n) \X D -> D]
  PROVE  Iterates(n, D, b, G)
<1> DEFINE Good(k, it) ==
             /\ it \in [SUBSET (1..k) -> D]
             /\ \A s \in SUBSET (1..k) :
                  it[s] = IF s = {} THEN b ELSE G[<<Max(s), it[s \ {Max(s)}]>>]
           S == {k \in 0..n : \E it : Good(k, it)}
<1>1. 0 \in S
  <2> DEFINE g == [s \in SUBSET (1..0) |-> b]
  <2>1. \A s \in SUBSET (1..0) : s = {} /\ g[s] = b
    OBVIOUS
  <2>2. g \in [SUBSET (1..0) -> D]
    OBVIOUS
  <2> HIDE DEF g
  <2>3. Good(0, g)
    BY <2>1, <2>2
  <2> HIDE DEF Good
  <2> QED
    BY <2>3
<1>2. ASSUME NEW k \in 0..n, k < n, k \in S PROVE k + 1 \in S
  <2>1. PICK it : Good(k, it)
    BY <1>2
  <2> DEFINE next == [s \in SUBSET (1..k+1) |->
                       IF k + 1 \in s THEN G[<<k + 1, it[s \ {k + 1}]>>] ELSE it[s]]
  <2>2. \A s \in SUBSET (1..k+1) : k + 1 \in s => s \ {k + 1} \in SUBSET (1..k)
    OBVIOUS
  <2>3. \A s \in SUBSET (1..k+1) : k + 1 \notin s => s \in SUBSET (1..k)
    OBVIOUS
  <2>4. k + 1 \in 1..n
    BY <1>2
  <2>5. next \in [SUBSET (1..k+1) -> D]
    <3> SUFFICES ASSUME NEW s \in SUBSET (1..k+1) PROVE next[s] \in D
      OBVIOUS
    <3> QED
      BY <2>1, <2>2, <2>3, <2>4
  <2>6. ASSUME NEW s \in SUBSET (1..k+1)
        PROVE  next[s] = IF s = {} THEN b ELSE G[<<Max(s), next[s \ {Max(s)}]>>]
    <3>1. CASE k + 1 \in s
      <4>1. Max(s) = k + 1
        <5>1. Max(s) \in s /\ \A y \in s : y <= Max(s)
          <6>1. k + 1 \in Nat /\ s \subseteq 1..k+1 /\ s # {}
            BY <3>1
          <6> QED
            BY <6>1, MaxIsGreatest
        <5>2. Max(s) \in 1..k+1 /\ k + 1 <= Max(s)
          BY <3>1, <5>1
        <5> QED
          BY <5>2
      <4>2. s \ {k + 1} \in SUBSET (1..k+1) /\ k + 1 \notin s \ {k + 1}
        OBVIOUS
      <4>3. next[s \ {k + 1}] = it[s \ {k + 1}]
        BY <4>2
      <4> QED
        BY <3>1, <4>1, <4>3
    <3>2. CASE k + 1 \notin s
      <4>1. s \in SUBSET (1..k)
        BY <3>2
      <4>2. next[s] = it[s]
        BY <3>2
      <4>3. CASE s = {}
        BY <2>1, <4>1, <4>2, <4>3
      <4>4. CASE s # {}
        <5>1. it[s] = G[<<Max(s), it[s \ {Max(s)}]>>]
          BY <2>1, <4>1, <4>4
        <5>2. s \ {Max(s)} \in SUBSET (1..k+1) /\ k + 1 \notin s \ {Max(s)}
          BY <3>2
        <5>3. next[s \ {Max(s)}] = it[s \ {Max(s)}]
          BY <5>2
        <5> QED
          BY <4>2, <4>4, <5>1, <5>3
      <4> QED
        BY <4>3, <4>4
    <3> QED
      BY <3>1, <3>2
  <2>7. Good(k + 1, next)
    <3> HIDE DEF next
    <3> QED
      BY <2>5, <2>6
  <2>8. k + 1 \in 0..n
    BY <1>2
  <2> HIDE DEF Good, next
  <2> QED
    BY <2>7, <2>8
<1>3. 0..n \subseteq S
  <2> HIDE DEF S
  <2> QED
    BY <1>1, <1>2, UpTo
<1>4. n \in S
  <2>1. n \in 0..n
    OBVIOUS
  <2> HIDE DEF S
  <2> QED
    BY <1>3, <2>1
<1> QED
  BY <1>4 DEF Iterates

-----------------------------------------------------------------------------
(* Numbers in ascending order *)

(* A smaller one has fewer before it. *)
LEMMA RankFacts ==
  ASSUME NEW n \in Nat, NEW S \in SUBSET (1..n), NEW i \in S
  PROVE  /\ IsFiniteSet(S) /\ Cardinality(S) \in 0..n
         /\ Cardinality({j \in S : j <= i}) \in 1..Cardinality(S)
         /\ \A h \in S : h < i =>
              Cardinality({j \in S : j <= h}) < Cardinality({j \in S : j <= i})
<1> DEFINE Upto(h) == {j \in S : j <= h}
<1>1. \A j \in S : j \in Nat
  OBVIOUS
<1>2. IsFiniteSet(1..n) /\ Cardinality(1..n) = n
  BY FS_Interval
<1>3. IsFiniteSet(S) /\ Cardinality(S) <= n
  BY <1>2, FS_Subset
<1>4. \A T \in SUBSET S : IsFiniteSet(T) /\ Cardinality(T) \in Nat /\ Cardinality(T) <= Cardinality(S)
  BY <1>3, FS_Subset, FS_CardinalityType
<1>5. Cardinality(S) \in 0..n
  BY <1>3, FS_CardinalityType
<1>6. Upto(i) \in SUBSET S /\ i \in Upto(i)
  OBVIOUS
<1>7. Cardinality(Upto(i)) # 0
  BY <1>4, <1>6, FS_EmptySet
<1>8. ASSUME NEW h \in S, h < i PROVE Cardinality(Upto(h)) < Cardinality(Upto(i))
  <2>1. Upto(h) \in SUBSET Upto(i)
    <3>1. \A j \in S : j <= h => j <= i
      BY <1>1, <1>8
    <3> QED
      BY <3>1
  <2>2. i \notin Upto(h)
    BY <1>8
  <2>3. Upto(h) \in SUBSET S
    OBVIOUS
  <2>4. Upto(h) # Upto(i)
    BY <1>6, <2>2
  <2>5. IsFiniteSet(Upto(i)) /\ Cardinality(Upto(i)) \in Nat /\ Cardinality(Upto(h)) \in Nat
    BY <1>4, <1>6, <2>3
  <2> HIDE DEF Upto
  <2>6. Cardinality(Upto(h)) <= Cardinality(Upto(i))
    BY <2>1, <2>5, FS_Subset
  <2>7. Cardinality(Upto(h)) # Cardinality(Upto(i))
    BY <2>1, <2>4, <2>5, FS_Subset
  <2> QED
    BY <2>5, <2>6, <2>7
<1>9. Cardinality(Upto(i)) \in 1..Cardinality(S)
  <2> HIDE DEF Upto
  <2> QED
    BY <1>4, <1>5, <1>6, <1>7
<1> QED
  BY <1>3, <1>5, <1>8, <1>9

(* Ascending gives each number of the set once, the smaller ones first. *)
LEMMA AscendingFacts ==
  ASSUME NEW n \in Nat, NEW S \in SUBSET (1..n)
  PROVE  LET A == Ascending(S)
             c == Cardinality(S)
         IN  /\ c \in 0..n
             /\ A \in [1..c -> S]
             /\ \A j, k \in 1..c : j < k => A[j] < A[k]
             /\ \A i \in S : \E k \in 1..c : A[k] = i
             /\ \A k \in 1..c : Cardinality({j \in S : j <= A[k]}) = k
<1> DEFINE c == Cardinality(S)
           Rank(i) == Cardinality({j \in S : j <= i})
           r == [i \in S |-> Rank(i)]
           A == Ascending(S)
<1>1. IsFiniteSet(1..n) /\ Cardinality(1..n) = n
  BY FS_Interval
<1>2. IsFiniteSet(S) /\ c \in 0..n
  <2>1. IsFiniteSet(S) /\ c <= n
    BY <1>1, FS_Subset
  <2>2. c \in Nat
    BY <2>1, FS_CardinalityType
  <2> HIDE DEF c
  <2> QED
    BY <2>1, <2>2
<1>3. \A i \in S : Rank(i) \in 1..c
  BY RankFacts
<1>4. \A h, i \in S : h < i => Rank(h) < Rank(i)
  BY RankFacts
<1> HIDE DEF Rank, c
<1>5. \A h, i \in S : Rank(h) = Rank(i) => h = i
  BY <1>2, <1>3, <1>4
<1>6. r \in Injection(S, 1..c)
  BY <1>3, <1>5 DEF Injection, IsInjective
<1>7. IsFiniteSet(1..c) /\ Cardinality(1..c) = c
  BY <1>2, FS_Interval
<1>8. r \in Surjection(S, 1..c)
  <2>1. Cardinality(S) = Cardinality(1..c)
    BY <1>7 DEF c
  <2> HIDE DEF r
  <2> QED
    BY <1>6, <1>7, <2>1, FS_Injection
<1>9. \A k \in 1..c : \E i \in S : Rank(i) = k
  BY <1>8 DEF Surjection
<1>10. A = [k \in 1..c |-> CHOOSE i \in S : Rank(i) = k]
  BY DEF Ascending, Rank, c
<1>11. \A k \in 1..c : A[k] \in S /\ Rank(A[k]) = k
  BY <1>9, <1>10
<1>12. A \in [1..c -> S]
  BY <1>10, <1>11
<1> HIDE DEF A, r
<1>13. \A j, k \in 1..c : j < k => A[j] < A[k]
  <2> SUFFICES ASSUME NEW j \in 1..c, NEW k \in 1..c, j < k PROVE A[j] < A[k]
    OBVIOUS
  <2>1. /\ A[j] \in S /\ A[k] \in S /\ Rank(A[j]) = j /\ Rank(A[k]) = k
        /\ A[j] \in Nat /\ A[k] \in Nat /\ j \in Nat /\ k \in Nat
    <3>1. \A i \in S : i \in Nat
      OBVIOUS
    <3>2. A[j] \in S /\ A[k] \in S /\ Rank(A[j]) = j /\ Rank(A[k]) = k
      BY <1>11
    <3>3. A[j] \in Nat /\ A[k] \in Nat
      BY <3>1, <3>2
    <3>4. c \in Nat
      BY <1>2
    <3>5. j \in Nat /\ k \in Nat
      BY <3>4
    <3> QED
      BY <3>2, <3>3, <3>5
  <2>2. ~(A[k] < A[j]) /\ A[k] # A[j]
    BY <1>2, <1>4, <2>1
  <2> QED
    BY <2>1, <2>2
<1>14. ASSUME NEW i \in S PROVE \E k \in 1..c : A[k] = i
  BY <1>3, <1>5, <1>11
<1> QED
  BY <1>2, <1>11, <1>12, <1>13, <1>14 DEF Rank, c, A

-----------------------------------------------------------------------------
(* Sequences *)

(* Each gives the function itself. *)
LEMMA EachIs ==
  ASSUME NEW n \in Nat, NEW T, NEW f \in [1..n -> T]
  PROVE  SubSeq(f, 1, n) = f /\ f \in Seq(T) /\ Len(f) = n /\ DOMAIN f = 1..n
<1>1. f \in Seq(T)
  BY SeqDef
<1>2. DOMAIN f = 1..n /\ Len(f) = n
  BY <1>1, LenProperties
<1>3. SubSeq(f, 1, n) \in Seq(T) /\ Len(SubSeq(f, 1, n)) = n /\ \A i \in 1..n : SubSeq(f, 1, n)[i] = f[i]
  BY <1>1, <1>2, SubSeqProperties
<1>4. SubSeq(f, 1, n) = [i \in 1..n |-> SubSeq(f, 1, n)[i]]
  BY <1>3, LenProperties
<1> QED
  BY <1>1, <1>2, <1>3, <1>4

(* What is in a flattened sequence of sequences is in one of them, and what is *)
(* in one of them is in it.                                                    *)
LEMMA FlattenFacts ==
  ASSUME NEW T, NEW s \in Seq(Seq(T))
  PROVE  /\ FlattenSeq(s) \in Seq(T)
         /\ \A k \in 1..Len(s) : \A j \in 1..Len(s[k]) :
              \E i \in 1..Len(FlattenSeq(s)) : FlattenSeq(s)[i] = s[k][j]
         /\ \A i \in 1..Len(FlattenSeq(s)) : \E k \in 1..Len(s) :
              \E j \in 1..Len(s[k]) : FlattenSeq(s)[i] = s[k][j]
<1> DEFINE n == Len(s)
           Flat(f) == f = [i \in 1..n |-> IF i = 1 THEN s[i] ELSE f[i-1] \o s[i]]
           Gather == [p \in (1..n) \X Seq(T) |-> IF p[1] = 1 THEN s[p[1]] ELSE p[2] \o s[p[1]]]
<1>1. n \in Nat /\ \A k \in 1..n : s[k] \in Seq(T)
  BY LenProperties
<1>2. \A t, u \in Seq(T) : t \o u \in Seq(T)
  BY ConcatProperties
<1>3. Gather \in [(1..n) \X Seq(T) -> Seq(T)]
  BY <1>1, <1>2
<1>4. \A k \in 1..n : \A t \in Seq(T) :
        Gather[<<k, t>>] = IF k = 1 THEN s[k] ELSE t \o s[k]
  OBVIOUS
<1>5. <<>> \in Seq(T)
  OBVIOUS
<1> HIDE DEF n, Gather
<1>6. PICK it \in [SUBSET (1..n) -> Seq(T)] :
        \A S \in SUBSET (1..n) :
          it[S] = IF S = {} THEN <<>> ELSE Gather[<<Max(S), it[S \ {Max(S)}]>>]
  <2> DEFINE D == Seq(T)
             b == <<>>
  <2>1. n \in Nat /\ b \in D /\ Gather \in [(1..n) \X D -> D]
    BY <1>1, <1>3, <1>5
  <2> HIDE DEF D, b
  <2>2. \E it \in [SUBSET (1..n) -> D] :
          \A S \in SUBSET (1..n) :
            it[S] = IF S = {} THEN b ELSE Gather[<<Max(S), it[S \ {Max(S)}]>>]
    <3>1. Iterates(n, D, b, Gather)
      BY <2>1, FoldIterates
    <3> QED
      BY <3>1, Zenon DEF Iterates
  <2> QED
    BY <2>2 DEF D, b
<1>7. Flat([i \in 1..n |-> it[1..i]])
  <2> DEFINE f == [i \in 1..n |-> it[1..i]]
  <2> SUFFICES ASSUME NEW i \in 1..n
               PROVE  f[i] = IF i = 1 THEN s[i] ELSE f[i-1] \o s[i]
    OBVIOUS
  <2>1. /\ 1..i \in SUBSET (1..n) /\ 1..i # {} /\ i \in Nat /\ (1..i) \ {i} = 1..i-1
        /\ 1..i-1 \in SUBSET (1..n)
    BY <1>1
  <2>2. Max(1..i) = i
    BY <1>1, MaxOfInterval
  <2>3. it[1..i] = Gather[<<i, it[1..i-1]>>]
    BY <1>6, <2>1, <2>2
  <2>4. it[1..i] = IF i = 1 THEN s[i] ELSE it[1..i-1] \o s[i]
    BY <1>4, <1>6, <2>1, <2>3
  <2>5. i # 1 => i - 1 \in 1..n
    BY <1>1
  <2> QED
    BY <2>4, <2>5
<1> DEFINE f == CHOOSE g : Flat(g)
<1>8. Flat(f)
  <2> HIDE DEF Flat
  <2> QED
    BY <1>7
<1>9. FlattenSeq(s) = IF n = 0 THEN s ELSE f[n]
  BY DEF FlattenSeq, n
<1> HIDE DEF f
<1>10. /\ n # 0 => f[1] = s[1]
       /\ \A k \in 1..n : k # 1 => f[k] = f[k-1] \o s[k]
  <2>1. \A k \in 1..n : f[k] = IF k = 1 THEN s[k] ELSE f[k-1] \o s[k]
    BY <1>8, Zenon
  <2>2. n # 0 => 1 \in 1..n
    BY <1>1
  <2> QED
    BY <2>1, <2>2, Zenon
<1> DEFINE Gathered(k) ==
             /\ f[k] \in Seq(T)
             /\ \A i \in 1..k : \A j \in 1..Len(s[i]) :
                  \E x \in 1..Len(f[k]) : f[k][x] = s[i][j]
             /\ \A x \in 1..Len(f[k]) : \E i \in 1..k : \E j \in 1..Len(s[i]) :
                  f[k][x] = s[i][j]
           S == {k \in 0..n : k # 0 => Gathered(k)}
<1>11. 0..n \subseteq S
  <2>1. 0 \in S
    BY <1>1
  <2>2. ASSUME NEW k \in 0..n, k < n, k \in S PROVE k + 1 \in S
    <3>1. k + 1 \in 1..n /\ k \in Nat /\ k + 1 \in 0..n
      BY <1>1, <2>2
    <3>2. CASE k = 0
      <4>1. f[1] = s[1] /\ 1 \in 1..n
        BY <1>1, <1>10, <3>1, <3>2
      <4>2. 1..1 = {1} /\ s[1] \in Seq(T)
        BY <1>1, <4>1
      <4>3. Gathered(1)
        BY <4>1, <4>2, Zenon
      <4>4. k + 1 = 1
        BY <3>2
      <4> HIDE DEF Gathered
      <4> QED
        BY <3>1, <4>3, <4>4
    <3>3. CASE k # 0
      <4>1. Gathered(k) /\ k \in 1..n
        <5> HIDE DEF Gathered
        <5>1. k \in 1..n
          BY <1>1, <2>2, <3>3
        <5>2. Gathered(k)
          BY <2>2, <3>3
        <5> QED
          BY <5>1, <5>2
      <4>2. f[k+1] = f[k] \o s[k+1]
        <5>1. k + 1 # 1 /\ (k + 1) - 1 = k
          BY <3>1, <3>3
        <5> QED
          BY <1>10, <3>1, <5>1
      <4>3. s[k+1] \in Seq(T) /\ f[k] \in Seq(T)
        BY <1>1, <3>1, <4>1
      <4> DEFINE a == Len(f[k])
                 b == Len(s[k+1])
      <4>4. /\ f[k+1] \in Seq(T) /\ Len(f[k+1]) = a + b
            /\ \A x \in 1..a + b :
                 f[k+1][x] = IF x <= a THEN f[k][x] ELSE s[k+1][x - a]
        <5>1. /\ f[k] \o s[k+1] \in Seq(T)
              /\ Len(f[k] \o s[k+1]) = Len(f[k]) + Len(s[k+1])
              /\ \A x \in 1..Len(f[k]) + Len(s[k+1]) :
                   (f[k] \o s[k+1])[x] = IF x <= Len(f[k]) THEN f[k][x] ELSE s[k+1][x - Len(f[k])]
          BY <4>3, ConcatProperties, Zenon
        <5> QED
          BY <4>2, <5>1, Zenon
      <4>5. a \in Nat /\ b \in Nat
        BY <4>3, LenProperties
      <4>6. /\ \A i \in 1..k : \A j \in 1..Len(s[i]) : \E x \in 1..a : f[k][x] = s[i][j]
            /\ \A x \in 1..a : \E i \in 1..k : \E j \in 1..Len(s[i]) : f[k][x] = s[i][j]
        BY <4>1
      <4>7. \A i : i \in 1..k+1 <=> i \in 1..k \/ i = k + 1
        BY <3>1
      <4> HIDE DEF a
      <4>8. ASSUME NEW i \in 1..k+1, NEW j \in 1..Len(s[i])
            PROVE  \E x \in 1..a + b : f[k+1][x] = s[i][j]
        <5>1. CASE i = k + 1
          <6>1. j \in 1..b
            BY <5>1
          <6> HIDE DEF b
          <6>2. a + j \in 1..a + b /\ ~(a + j <= a) /\ (a + j) - a = j
            BY <4>5, <6>1
          <6>3. f[k+1][a + j] = s[k+1][j]
            BY <4>4, <6>2
          <6> QED
            BY <5>1, <6>2, <6>3
        <5>2. CASE i # k + 1
          <6>1. i \in 1..k
            BY <4>7, <5>2
          <6>2. PICK x \in 1..a : f[k][x] = s[i][j]
            BY <4>6, <6>1
          <6> HIDE DEF b
          <6>3. x \in 1..a + b /\ x <= a
            BY <4>5
          <6> QED
            BY <4>4, <6>2, <6>3
        <5> QED
          BY <5>1, <5>2
      <4>9. ASSUME NEW x \in 1..a + b
            PROVE  \E i \in 1..k+1 : \E j \in 1..Len(s[i]) : f[k+1][x] = s[i][j]
        <5>1. CASE x <= a
          <6> HIDE DEF b
          <6>1. x \in 1..a
            BY <4>5, <5>1
          <6>2. PICK i \in 1..k : \E j \in 1..Len(s[i]) : f[k][x] = s[i][j]
            BY <4>6, <6>1
          <6>3. i \in 1..k+1
            BY <4>7
          <6> QED
            BY <4>4, <5>1, <6>2, <6>3
        <5>2. CASE ~(x <= a)
          <6>1. x - a \in 1..b
            <7> HIDE DEF b
            <7> QED
              BY <4>5, <5>2
          <6>2. f[k+1][x] = s[k+1][x - a] /\ k + 1 \in 1..k+1
            BY <4>4, <4>7, <5>2
          <6> QED
            BY <6>1, <6>2
        <5> QED
          BY <5>1, <5>2
      <4>10. Gathered(k + 1)
        BY <4>4, <4>8, <4>9
      <4> HIDE DEF Gathered
      <4> QED
        BY <3>1, <4>10
    <3> QED
      BY <3>2, <3>3
  <2> HIDE DEF S
  <2> QED
    BY <1>1, <2>1, <2>2, UpTo
<1>12. CASE n = 0
  <2>1. FlattenSeq(s) = <<>> /\ s = <<>>
    BY <1>9, <1>12, EmptySeq DEF n
  <2> QED
    BY <1>12, <2>1 DEF n
<1>13. CASE n # 0
  <2>1. Gathered(n) /\ FlattenSeq(s) = f[n]
    <3>1. n \in 0..n
      BY <1>1
    <3> QED
      BY <1>9, <1>11, <1>13, <3>1
  <2> QED
    BY <2>1 DEF n
<1> QED
  BY <1>12, <1>13

(* The values r = f[n] a fold goes through from b: f[0], f[1], ... *)
Chain(n, D, b, G, r) ==
  \E f \in [0..n -> D] :
    f[0] = b /\ (\A k \in 1..n : f[k] = G[<<k, f[k-1]>>]) /\ f[n] = r

(* The first k places, and the places before the last of them. *)
LEMMA FirstPlaces ==
  ASSUME NEW n \in Nat, NEW k \in 1..n
  PROVE  1..k \in SUBSET (1..n) /\ 1..k # {} /\ (1..k) \ {k} = 1..k-1
<1>1. 1..k \in SUBSET (1..n) /\ 1..k # {}
  OBVIOUS
<1>2. \A i : i \in (1..k) \ {k} <=> i \in 1..k-1
  OBVIOUS
<1> QED
  BY <1>1, <1>2

(* A fold over a sequence passes from each place to the next by its step. *)
LEMMA FoldChain ==
  ASSUME NEW n \in Nat, NEW D, NEW b \in D, NEW G \in [(1..n) \X D -> D], NEW it,
         it[{}] = b,
         \A k \in 1..n : it[1..k-1] \in D => it[1..k] = G[<<k, it[1..k-1]>>]
  PROVE  Chain(n, D, b, G, it[1..n])
<1> DEFINE f == [k \in 0..n |-> it[1..k]]
           S == {k \in 0..n : it[1..k] \in D}
<1>1. 1..0 = {}
  OBVIOUS
<1>2. 0 \in S
  BY <1>1
<1>3. ASSUME NEW k \in 0..n, k < n, k \in S PROVE k + 1 \in S
  <2>1. k + 1 \in 1..n /\ (k + 1) - 1 = k /\ k + 1 \in 0..n
    BY <1>3
  <2>2. it[1..k+1] = G[<<k + 1, it[1..k]>>]
    BY <1>3, <2>1
  <2> QED
    BY <1>3, <2>1, <2>2
<1>4. 0..n \subseteq S
  <2> HIDE DEF S
  <2> QED
    BY <1>2, <1>3, UpTo
<1>5. f \in [0..n -> D]
  BY <1>4
<1>6. f[0] = b
  BY <1>1
<1>7. \A k \in 1..n : f[k] = G[<<k, f[k-1]>>]
  <2> SUFFICES ASSUME NEW k \in 1..n PROVE f[k] = G[<<k, f[k-1]>>]
    OBVIOUS
  <2>1. k \in 0..n /\ k - 1 \in 0..n
    OBVIOUS
  <2> QED
    BY <1>4, <2>1
<1>8. f[n] = it[1..n]
  OBVIOUS
<1> HIDE DEF f
<1> QED
  BY <1>5, <1>6, <1>7, <1>8 DEF Chain

(* What holds at the start of a fold and is kept by every step holds at its
   end. *)
LEMMA ChainStays ==
  ASSUME NEW n \in Nat, NEW D, NEW b, NEW G, NEW r, Chain(n, D, b, G, r), NEW R,
         <<0, b>> \in R,
         \A k \in 1..n : \A s \in D : <<k-1, s>> \in R => <<k, G[<<k, s>>]>> \in R
  PROVE  <<n, r>> \in R
<1>1. PICK f \in [0..n -> D] :
        f[0] = b /\ (\A k \in 1..n : f[k] = G[<<k, f[k-1]>>]) /\ f[n] = r
  BY Zenon DEF Chain
<1> DEFINE S == {k \in 0..n : <<k, f[k]>> \in R}
<1>2. 0 \in S
  BY <1>1
<1>3. ASSUME NEW k \in 0..n, k < n, k \in S PROVE k + 1 \in S
  <2>1. k + 1 \in 1..n /\ (k + 1) - 1 = k /\ k + 1 \in 0..n
    BY <1>3
  <2>2. f[k+1] = G[<<k + 1, f[k]>>] /\ f[k] \in D /\ <<k, f[k]>> \in R
    BY <1>1, <1>3, <2>1
  <2>3. <<k + 1, G[<<k + 1, f[k]>>]>> \in R
    BY <2>1, <2>2
  <2> QED
    BY <2>1, <2>2, <2>3
<1>4. 0..n \subseteq S
  <2> HIDE DEF S
  <2> QED
    BY <1>2, <1>3, UpTo
<1>5. n \in S
  BY <1>4
<1> QED
  BY <1>1, <1>5

(* The vertices are linked one after the other: R holds of what there is after each step. *)
AllLinked(m, order, b, q) == FoldLeft(LAMBDA reps, k : Linked(m, order, reps, k), b, q)

(* R relates places and rings: it holds of the start, and Linked keeps it. *)
LinkedKeep(m, order, n, q, D, b, R) ==
  /\ n \in Nat /\ DOMAIN q = 1..n /\ b \in D /\ <<0, b>> \in R
  /\ \A k \in 1..n : \A r \in D :
       /\ Linked(m, order, r, q[k]) \in D
       /\ <<k-1, r>> \in R => <<k, Linked(m, order, r, q[k])>> \in R

(* What Linked keeps at every place holds of the whole pass of
   createPointReps. *)
LEMMA LinkedRuns ==
  ASSUME NEW m, NEW order, NEW n, NEW q, NEW D, NEW b, NEW R, LinkedKeep(m, order, n, q, D, b, R)
  PROVE  <<n, AllLinked(m, order, b, q)>> \in R
<1> DEFINE G == [p \in (1..n) \X D |-> Linked(m, order, p[2], q[p[1]])]
           Step(it, s) == IF s = {} THEN b ELSE Linked(m, order, it[s \ {Max(s)}], q[Max(s)])
           Eq(it) == it = [s \in SUBSET (1..n) |-> Step(it, s)]
           chosen == CHOOSE it : Eq(it)
<1>1. n \in Nat /\ DOMAIN q = 1..n /\ b \in D /\ <<0, b>> \in R
  BY DEF LinkedKeep
<1>2. G \in [(1..n) \X D -> D]
  BY DEF LinkedKeep
<1>3. \A k \in 1..n : \A r \in D : G[<<k, r>>] = Linked(m, order, r, q[k])
  OBVIOUS
<1> HIDE DEF G
<1>4. PICK it \in [SUBSET (1..n) -> D] :
        \A s \in SUBSET (1..n) :
          it[s] = IF s = {} THEN b ELSE G[<<Max(s), it[s \ {Max(s)}]>>]
  <2>1. Iterates(n, D, b, G)
    BY <1>1, <1>2, FoldIterates
  <2> QED
    BY <2>1, Zenon DEF Iterates
<1>5. Eq(it)
  <2>1. ASSUME NEW s \in SUBSET (1..n) PROVE it[s] = Step(it, s)
    <3>1. s # {} => Max(s) \in 1..n /\ s \ {Max(s)} \in SUBSET (1..n)
      BY <1>1, MaxIsGreatest
    <3> QED
      BY <1>3, <1>4, <3>1
  <2> HIDE DEF Step
  <2> QED
    BY <2>1
<1>6. Eq(chosen)
  <2> HIDE DEF Eq
  <2> QED
    BY <1>5
<1>7. AllLinked(m, order, b, q) = chosen[1..n]
  BY <1>1, Zenon DEF AllLinked, FoldLeft, MapThenFoldSet
<1> HIDE DEF chosen
<1>8. \A s \in SUBSET (1..n) : chosen[s] = Step(chosen, s)
  <2> HIDE DEF Step
  <2> QED
    BY <1>6
<1>9. chosen[{}] = b
  BY <1>8
<1>10. ASSUME NEW k \in 1..n, chosen[1..k-1] \in D
       PROVE  chosen[1..k] = G[<<k, chosen[1..k-1]>>]
  <2>1. 1..k \in SUBSET (1..n) /\ 1..k # {} /\ (1..k) \ {k} = 1..k-1
    BY <1>1, FirstPlaces
  <2>2. Max(1..k) = k
    BY <1>1, MaxOfInterval
  <2>3. chosen[1..k] = Linked(m, order, chosen[1..k-1], q[k])
    BY <1>8, <2>1, <2>2
  <2> QED
    BY <1>3, <1>10, <2>3
<1>11. Chain(n, D, b, G, chosen[1..n])
  BY <1>1, <1>2, <1>9, <1>10, FoldChain
<1>12. \A k \in 1..n : \A s \in D : <<k-1, s>> \in R => <<k, G[<<k, s>>]>> \in R
  BY <1>3 DEF LinkedKeep
<1>13. <<n, chosen[1..n]>> \in R
  BY <1>1, <1>11, <1>12, ChainStays
<1> QED
  BY <1>7, <1>13

(* The vertices are welded one after the other: R holds of what there is after each step. *)
AllWelded(b, q) == FoldLeft(WeldedTo, b, q)

(* R holds of the start, and merging at each place keeps it. *)
WeldedKeep(n, q, D, b, R) ==
  /\ n \in Nat /\ DOMAIN q = 1..n /\ b \in D /\ <<0, b>> \in R
  /\ \A k \in 1..n : \A r \in D :
       /\ WeldedTo(r, q[k]) \in D
       /\ <<k-1, r>> \in R => <<k, WeldedTo(r, q[k])>> \in R

(* What WeldedTo keeps at every place holds of the whole pass over the
   vertices. *)
LEMMA WeldedToRuns ==
  ASSUME NEW n, NEW q, NEW D, NEW b, NEW R, WeldedKeep(n, q, D, b, R)
  PROVE  <<n, AllWelded(b, q)>> \in R
<1> DEFINE G == [p \in (1..n) \X D |-> WeldedTo(p[2], q[p[1]])]
           Step(it, s) == IF s = {} THEN b ELSE WeldedTo(it[s \ {Max(s)}], q[Max(s)])
           Eq(it) == it = [s \in SUBSET (1..n) |-> Step(it, s)]
           chosen == CHOOSE it : Eq(it)
<1>1. n \in Nat /\ DOMAIN q = 1..n /\ b \in D /\ <<0, b>> \in R
  BY DEF WeldedKeep
<1>2. G \in [(1..n) \X D -> D]
  BY DEF WeldedKeep
<1>3. \A k \in 1..n : \A r \in D : G[<<k, r>>] = WeldedTo(r, q[k])
  OBVIOUS
<1> HIDE DEF G
<1>4. PICK it \in [SUBSET (1..n) -> D] :
        \A s \in SUBSET (1..n) :
          it[s] = IF s = {} THEN b ELSE G[<<Max(s), it[s \ {Max(s)}]>>]
  <2>1. Iterates(n, D, b, G)
    BY <1>1, <1>2, FoldIterates
  <2> QED
    BY <2>1, Zenon DEF Iterates
<1>5. Eq(it)
  <2>1. ASSUME NEW s \in SUBSET (1..n) PROVE it[s] = Step(it, s)
    <3>1. s # {} => Max(s) \in 1..n /\ s \ {Max(s)} \in SUBSET (1..n)
      BY <1>1, MaxIsGreatest
    <3> QED
      BY <1>3, <1>4, <3>1
  <2> HIDE DEF Step
  <2> QED
    BY <2>1
<1>6. Eq(chosen)
  <2> HIDE DEF Eq
  <2> QED
    BY <1>5
<1>7. AllWelded(b, q) = chosen[1..n]
  BY <1>1, Zenon DEF AllWelded, FoldLeft, MapThenFoldSet
<1> HIDE DEF chosen
<1>8. \A s \in SUBSET (1..n) : chosen[s] = Step(chosen, s)
  <2> HIDE DEF Step
  <2> QED
    BY <1>6
<1>9. chosen[{}] = b
  BY <1>8
<1>10. ASSUME NEW k \in 1..n, chosen[1..k-1] \in D
       PROVE  chosen[1..k] = G[<<k, chosen[1..k-1]>>]
  <2>1. 1..k \in SUBSET (1..n) /\ 1..k # {} /\ (1..k) \ {k} = 1..k-1
    BY <1>1, FirstPlaces
  <2>2. Max(1..k) = k
    BY <1>1, MaxOfInterval
  <2>3. chosen[1..k] = WeldedTo(chosen[1..k-1], q[k])
    BY <1>8, <2>1, <2>2
  <2> QED
    BY <1>3, <1>10, <2>3
<1>11. Chain(n, D, b, G, chosen[1..n])
  BY <1>1, <1>2, <1>9, <1>10, FoldChain
<1>12. \A k \in 1..n : \A s \in D : <<k-1, s>> \in R => <<k, G[<<k, s>>]>> \in R
  BY <1>3 DEF WeldedKeep
<1>13. <<n, chosen[1..n]>> \in R
  BY <1>1, <1>11, <1>12, ChainStays
<1> QED
  BY <1>7, <1>13

(* The half edges are paired one after the other: R holds of what there is after each step. *)
AllPaired(b, q) == FoldLeft(Paired, b, q)

(* R holds of the start, and pairing at each place keeps it. *)
PairedKeep(n, q, D, b, R) ==
  /\ n \in Nat /\ DOMAIN q = 1..n /\ b \in D /\ <<0, b>> \in R
  /\ \A k \in 1..n : \A r \in D :
       /\ Paired(r, q[k]) \in D
       /\ <<k-1, r>> \in R => <<k, Paired(r, q[k])>> \in R

(* What Paired keeps at every place holds of the whole pass of
   connectPairs. *)
LEMMA PairedRuns ==
  ASSUME NEW n, NEW q, NEW D, NEW b, NEW R, PairedKeep(n, q, D, b, R)
  PROVE  <<n, AllPaired(b, q)>> \in R
<1> DEFINE G == [p \in (1..n) \X D |-> Paired(p[2], q[p[1]])]
           Step(it, s) == IF s = {} THEN b ELSE Paired(it[s \ {Max(s)}], q[Max(s)])
           Eq(it) == it = [s \in SUBSET (1..n) |-> Step(it, s)]
           chosen == CHOOSE it : Eq(it)
<1>1. n \in Nat /\ DOMAIN q = 1..n /\ b \in D /\ <<0, b>> \in R
  BY DEF PairedKeep
<1>2. G \in [(1..n) \X D -> D]
  BY DEF PairedKeep
<1>3. \A k \in 1..n : \A r \in D : G[<<k, r>>] = Paired(r, q[k])
  OBVIOUS
<1> HIDE DEF G
<1>4. PICK it \in [SUBSET (1..n) -> D] :
        \A s \in SUBSET (1..n) :
          it[s] = IF s = {} THEN b ELSE G[<<Max(s), it[s \ {Max(s)}]>>]
  <2>1. Iterates(n, D, b, G)
    BY <1>1, <1>2, FoldIterates
  <2> QED
    BY <2>1, Zenon DEF Iterates
<1>5. Eq(it)
  <2>1. ASSUME NEW s \in SUBSET (1..n) PROVE it[s] = Step(it, s)
    <3>1. s # {} => Max(s) \in 1..n /\ s \ {Max(s)} \in SUBSET (1..n)
      BY <1>1, MaxIsGreatest
    <3> QED
      BY <1>3, <1>4, <3>1
  <2> HIDE DEF Step
  <2> QED
    BY <2>1
<1>6. Eq(chosen)
  <2> HIDE DEF Eq
  <2> QED
    BY <1>5
<1>7. AllPaired(b, q) = chosen[1..n]
  BY <1>1, Zenon DEF AllPaired, FoldLeft, MapThenFoldSet
<1> HIDE DEF chosen
<1>8. \A s \in SUBSET (1..n) : chosen[s] = Step(chosen, s)
  <2> HIDE DEF Step
  <2> QED
    BY <1>6
<1>9. chosen[{}] = b
  BY <1>8
<1>10. ASSUME NEW k \in 1..n, chosen[1..k-1] \in D
       PROVE  chosen[1..k] = G[<<k, chosen[1..k-1]>>]
  <2>1. 1..k \in SUBSET (1..n) /\ 1..k # {} /\ (1..k) \ {k} = 1..k-1
    BY <1>1, FirstPlaces
  <2>2. Max(1..k) = k
    BY <1>1, MaxOfInterval
  <2>3. chosen[1..k] = Paired(chosen[1..k-1], q[k])
    BY <1>8, <2>1, <2>2
  <2> QED
    BY <1>3, <1>10, <2>3
<1>11. Chain(n, D, b, G, chosen[1..n])
  BY <1>1, <1>2, <1>9, <1>10, FoldChain
<1>12. \A k \in 1..n : \A s \in D : <<k-1, s>> \in R => <<k, G[<<k, s>>]>> \in R
  BY <1>3 DEF PairedKeep
<1>13. <<n, chosen[1..n]>> \in R
  BY <1>1, <1>11, <1>12, ChainStays
<1> QED
  BY <1>7, <1>13

(* The faces are added one after the other: R holds of what there is after each step. *)
AllFaces(b, q) == FoldLeft(WithFace, b, q)

(* R holds of the start, and adding the face of each place keeps it. *)
FacesKeep(n, q, D, b, R) ==
  /\ n \in Nat /\ DOMAIN q = 1..n /\ b \in D /\ <<0, b>> \in R
  /\ \A k \in 1..n : \A r \in D :
       /\ WithFace(r, q[k]) \in D
       /\ <<k-1, r>> \in R => <<k, WithFace(r, q[k])>> \in R

(* What WithFace keeps at every place holds of the whole pass of
   cleanAndRepack. *)
LEMMA WithFaceRuns ==
  ASSUME NEW n, NEW q, NEW D, NEW b, NEW R, FacesKeep(n, q, D, b, R)
  PROVE  <<n, AllFaces(b, q)>> \in R
<1> DEFINE G == [p \in (1..n) \X D |-> WithFace(p[2], q[p[1]])]
           Step(it, s) == IF s = {} THEN b ELSE WithFace(it[s \ {Max(s)}], q[Max(s)])
           Eq(it) == it = [s \in SUBSET (1..n) |-> Step(it, s)]
           chosen == CHOOSE it : Eq(it)
<1>1. n \in Nat /\ DOMAIN q = 1..n /\ b \in D /\ <<0, b>> \in R
  BY DEF FacesKeep
<1>2. G \in [(1..n) \X D -> D]
  BY DEF FacesKeep
<1>3. \A k \in 1..n : \A r \in D : G[<<k, r>>] = WithFace(r, q[k])
  OBVIOUS
<1> HIDE DEF G
<1>4. PICK it \in [SUBSET (1..n) -> D] :
        \A s \in SUBSET (1..n) :
          it[s] = IF s = {} THEN b ELSE G[<<Max(s), it[s \ {Max(s)}]>>]
  <2>1. Iterates(n, D, b, G)
    BY <1>1, <1>2, FoldIterates
  <2> QED
    BY <2>1, Zenon DEF Iterates
<1>5. Eq(it)
  <2>1. ASSUME NEW s \in SUBSET (1..n) PROVE it[s] = Step(it, s)
    <3>1. s # {} => Max(s) \in 1..n /\ s \ {Max(s)} \in SUBSET (1..n)
      BY <1>1, MaxIsGreatest
    <3> QED
      BY <1>3, <1>4, <3>1
  <2> HIDE DEF Step
  <2> QED
    BY <2>1
<1>6. Eq(chosen)
  <2> HIDE DEF Eq
  <2> QED
    BY <1>5
<1>7. AllFaces(b, q) = chosen[1..n]
  BY <1>1, Zenon DEF AllFaces, FoldLeft, MapThenFoldSet
<1> HIDE DEF chosen
<1>8. \A s \in SUBSET (1..n) : chosen[s] = Step(chosen, s)
  <2> HIDE DEF Step
  <2> QED
    BY <1>6
<1>9. chosen[{}] = b
  BY <1>8
<1>10. ASSUME NEW k \in 1..n, chosen[1..k-1] \in D
       PROVE  chosen[1..k] = G[<<k, chosen[1..k-1]>>]
  <2>1. 1..k \in SUBSET (1..n) /\ 1..k # {} /\ (1..k) \ {k} = 1..k-1
    BY <1>1, FirstPlaces
  <2>2. Max(1..k) = k
    BY <1>1, MaxOfInterval
  <2>3. chosen[1..k] = WithFace(chosen[1..k-1], q[k])
    BY <1>8, <2>1, <2>2
  <2> QED
    BY <1>3, <1>10, <2>3
<1>11. Chain(n, D, b, G, chosen[1..n])
  BY <1>1, <1>2, <1>9, <1>10, FoldChain
<1>12. \A k \in 1..n : \A s \in D : <<k-1, s>> \in R => <<k, G[<<k, s>>]>> \in R
  BY <1>3 DEF FacesKeep
<1>13. <<n, chosen[1..n]>> \in R
  BY <1>1, <1>11, <1>12, ChainStays
<1> QED
  BY <1>7, <1>13

(* The polygons are fanned one after the other: R holds of what there is after each step. *)
AllFanned(b, q) == FoldLeft(FannedAt, b, q)

(* R holds of the start, and fanning each place keeps it. *)
FannedKeep(n, q, D, b, R) ==
  /\ n \in Nat /\ DOMAIN q = 1..n /\ b \in D /\ <<0, b>> \in R
  /\ \A k \in 1..n : \A r \in D :
       /\ FannedAt(r, q[k]) \in D
       /\ <<k-1, r>> \in R => <<k, FannedAt(r, q[k])>> \in R

(* What FannedAt keeps at every place holds of the whole pass over the
   polygons. *)
LEMMA FannedAtRuns ==
  ASSUME NEW n, NEW q, NEW D, NEW b, NEW R, FannedKeep(n, q, D, b, R)
  PROVE  <<n, AllFanned(b, q)>> \in R
<1> DEFINE G == [p \in (1..n) \X D |-> FannedAt(p[2], q[p[1]])]
           Step(it, s) == IF s = {} THEN b ELSE FannedAt(it[s \ {Max(s)}], q[Max(s)])
           Eq(it) == it = [s \in SUBSET (1..n) |-> Step(it, s)]
           chosen == CHOOSE it : Eq(it)
<1>1. n \in Nat /\ DOMAIN q = 1..n /\ b \in D /\ <<0, b>> \in R
  BY DEF FannedKeep
<1>2. G \in [(1..n) \X D -> D]
  BY DEF FannedKeep
<1>3. \A k \in 1..n : \A r \in D : G[<<k, r>>] = FannedAt(r, q[k])
  OBVIOUS
<1> HIDE DEF G
<1>4. PICK it \in [SUBSET (1..n) -> D] :
        \A s \in SUBSET (1..n) :
          it[s] = IF s = {} THEN b ELSE G[<<Max(s), it[s \ {Max(s)}]>>]
  <2>1. Iterates(n, D, b, G)
    BY <1>1, <1>2, FoldIterates
  <2> QED
    BY <2>1, Zenon DEF Iterates
<1>5. Eq(it)
  <2>1. ASSUME NEW s \in SUBSET (1..n) PROVE it[s] = Step(it, s)
    <3>1. s # {} => Max(s) \in 1..n /\ s \ {Max(s)} \in SUBSET (1..n)
      BY <1>1, MaxIsGreatest
    <3> QED
      BY <1>3, <1>4, <3>1
  <2> HIDE DEF Step
  <2> QED
    BY <2>1
<1>6. Eq(chosen)
  <2> HIDE DEF Eq
  <2> QED
    BY <1>5
<1>7. AllFanned(b, q) = chosen[1..n]
  BY <1>1, Zenon DEF AllFanned, FoldLeft, MapThenFoldSet
<1> HIDE DEF chosen
<1>8. \A s \in SUBSET (1..n) : chosen[s] = Step(chosen, s)
  <2> HIDE DEF Step
  <2> QED
    BY <1>6
<1>9. chosen[{}] = b
  BY <1>8
<1>10. ASSUME NEW k \in 1..n, chosen[1..k-1] \in D
       PROVE  chosen[1..k] = G[<<k, chosen[1..k-1]>>]
  <2>1. 1..k \in SUBSET (1..n) /\ 1..k # {} /\ (1..k) \ {k} = 1..k-1
    BY <1>1, FirstPlaces
  <2>2. Max(1..k) = k
    BY <1>1, MaxOfInterval
  <2>3. chosen[1..k] = FannedAt(chosen[1..k-1], q[k])
    BY <1>8, <2>1, <2>2
  <2> QED
    BY <1>3, <1>10, <2>3
<1>11. Chain(n, D, b, G, chosen[1..n])
  BY <1>1, <1>2, <1>9, <1>10, FoldChain
<1>12. \A k \in 1..n : \A s \in D : <<k-1, s>> \in R => <<k, G[<<k, s>>]>> \in R
  BY <1>3 DEF FannedKeep
<1>13. <<n, chosen[1..n]>> \in R
  BY <1>1, <1>11, <1>12, ChainStays
<1> QED
  BY <1>7, <1>13

(* The half edges are removed one after the other: R holds of what there is after each step. *)
AllWithout(b, q) == FoldLeft(WithoutHalfEdge, b, q)

(* R holds of the start, and removing the half edge of each place keeps it. *)
WithoutKeep(n, q, D, b, R) ==
  /\ n \in Nat /\ DOMAIN q = 1..n /\ b \in D /\ <<0, b>> \in R
  /\ \A k \in 1..n : \A r \in D :
       /\ WithoutHalfEdge(r, q[k]) \in D
       /\ <<k-1, r>> \in R => <<k, WithoutHalfEdge(r, q[k])>> \in R

(* What WithoutHalfEdge keeps at every place holds of the whole removed
   loop. *)
LEMMA WithoutHalfEdgeRuns ==
  ASSUME NEW n, NEW q, NEW D, NEW b, NEW R, WithoutKeep(n, q, D, b, R)
  PROVE  <<n, AllWithout(b, q)>> \in R
<1> DEFINE G == [p \in (1..n) \X D |-> WithoutHalfEdge(p[2], q[p[1]])]
           Step(it, s) == IF s = {} THEN b ELSE WithoutHalfEdge(it[s \ {Max(s)}], q[Max(s)])
           Eq(it) == it = [s \in SUBSET (1..n) |-> Step(it, s)]
           chosen == CHOOSE it : Eq(it)
<1>1. n \in Nat /\ DOMAIN q = 1..n /\ b \in D /\ <<0, b>> \in R
  BY DEF WithoutKeep
<1>2. G \in [(1..n) \X D -> D]
  BY DEF WithoutKeep
<1>3. \A k \in 1..n : \A r \in D : G[<<k, r>>] = WithoutHalfEdge(r, q[k])
  OBVIOUS
<1> HIDE DEF G
<1>4. PICK it \in [SUBSET (1..n) -> D] :
        \A s \in SUBSET (1..n) :
          it[s] = IF s = {} THEN b ELSE G[<<Max(s), it[s \ {Max(s)}]>>]
  <2>1. Iterates(n, D, b, G)
    BY <1>1, <1>2, FoldIterates
  <2> QED
    BY <2>1, Zenon DEF Iterates
<1>5. Eq(it)
  <2>1. ASSUME NEW s \in SUBSET (1..n) PROVE it[s] = Step(it, s)
    <3>1. s # {} => Max(s) \in 1..n /\ s \ {Max(s)} \in SUBSET (1..n)
      BY <1>1, MaxIsGreatest
    <3> QED
      BY <1>3, <1>4, <3>1
  <2> HIDE DEF Step
  <2> QED
    BY <2>1
<1>6. Eq(chosen)
  <2> HIDE DEF Eq
  <2> QED
    BY <1>5
<1>7. AllWithout(b, q) = chosen[1..n]
  BY <1>1, Zenon DEF AllWithout, FoldLeft, MapThenFoldSet
<1> HIDE DEF chosen
<1>8. \A s \in SUBSET (1..n) : chosen[s] = Step(chosen, s)
  <2> HIDE DEF Step
  <2> QED
    BY <1>6
<1>9. chosen[{}] = b
  BY <1>8
<1>10. ASSUME NEW k \in 1..n, chosen[1..k-1] \in D
       PROVE  chosen[1..k] = G[<<k, chosen[1..k-1]>>]
  <2>1. 1..k \in SUBSET (1..n) /\ 1..k # {} /\ (1..k) \ {k} = 1..k-1
    BY <1>1, FirstPlaces
  <2>2. Max(1..k) = k
    BY <1>1, MaxOfInterval
  <2>3. chosen[1..k] = WithoutHalfEdge(chosen[1..k-1], q[k])
    BY <1>8, <2>1, <2>2
  <2> QED
    BY <1>3, <1>10, <2>3
<1>11. Chain(n, D, b, G, chosen[1..n])
  BY <1>1, <1>2, <1>9, <1>10, FoldChain
<1>12. \A k \in 1..n : \A s \in D : <<k-1, s>> \in R => <<k, G[<<k, s>>]>> \in R
  BY <1>3 DEF WithoutKeep
<1>13. <<n, chosen[1..n]>> \in R
  BY <1>1, <1>11, <1>12, ChainStays
<1> QED
  BY <1>7, <1>13

-----------------------------------------------------------------------------
(* Walks *)

(* From a along g, N steps. *)
WalkFrom(N, a, g) == CHOOSE at : at = [k \in 0..N |-> IF k = 0 THEN a ELSE g[at[k-1]]]

(* at is the walk from a that follows g for N steps. *)
IsWalk(N, D, a, g, at) ==
  at \in [0..N -> D] /\ at[0] = a /\ \A k \in 1..N : at[k] = g[at[k-1]]

(* The recursive function that walks is a walk. *)
LEMMA WalkFacts ==
  ASSUME NEW N \in Nat, NEW D, NEW a \in D, NEW g \in [D -> D]
  PROVE  IsWalk(N, D, a, g, WalkFrom(N, a, g))
<1> DEFINE G == [p \in (1..N) \X D |-> g[p[2]]]
           Eq(at) == at = [k \in 0..N |-> IF k = 0 THEN a ELSE g[at[k-1]]]
           at == WalkFrom(N, a, g)
<1>1. G \in [(1..N) \X D -> D]
  OBVIOUS
<1>2. \A k \in 1..N : \A x \in D : G[<<k, x>>] = g[x]
  OBVIOUS
<1> HIDE DEF G
<1>3. PICK it \in [SUBSET (1..N) -> D] :
        \A s \in SUBSET (1..N) :
          it[s] = IF s = {} THEN a ELSE G[<<Max(s), it[s \ {Max(s)}]>>]
  <2>1. Iterates(N, D, a, G)
    BY <1>1, FoldIterates
  <2> QED
    BY <2>1, Zenon DEF Iterates
<1>4. Eq([k \in 0..N |-> it[1..k]])
  <2> DEFINE w == [k \in 0..N |-> it[1..k]]
  <2> SUFFICES ASSUME NEW k \in 0..N PROVE w[k] = IF k = 0 THEN a ELSE g[w[k-1]]
    OBVIOUS
  <2>1. CASE k = 0
    <3>1. 1..0 = {}
      OBVIOUS
    <3> QED
      BY <1>3, <2>1, <3>1
  <2>2. CASE k # 0
    <3>1. k \in 1..N /\ k - 1 \in 0..N
      BY <2>2
    <3>2. 1..k \in SUBSET (1..N) /\ 1..k # {} /\ (1..k) \ {k} = 1..k-1
      BY <3>1, FirstPlaces
    <3>3. Max(1..k) = k
      BY <3>1, MaxOfInterval
    <3>4. it[1..k] = G[<<k, it[1..k-1]>>]
      BY <1>3, <3>2, <3>3
    <3>5. 1..k-1 \in SUBSET (1..N)
      BY <3>1
    <3>6. it[1..k-1] \in D
      BY <3>5
    <3> QED
      BY <1>2, <2>2, <3>1, <3>4, <3>6
  <2> QED
    BY <2>1, <2>2
<1>5. Eq(at)
  <2> HIDE DEF Eq
  <2>1. at = CHOOSE w : Eq(w)
    BY DEF WalkFrom, Eq
  <2> QED
    BY <1>4, <2>1
<1> HIDE DEF at
<1>6. at[0] = a /\ \A k \in 1..N : at[k] = g[at[k-1]]
  <2>1. \A k \in 0..N : at[k] = IF k = 0 THEN a ELSE g[at[k-1]]
    BY <1>5, Zenon
  <2> QED
    BY <2>1
<1> DEFINE S == {k \in 0..N : at[k] \in D}
<1>7. 0..N \subseteq S
  <2>1. 0 \in S
    BY <1>6
  <2>2. ASSUME NEW k \in 0..N, k < N, k \in S PROVE k + 1 \in S
    <3>1. k + 1 \in 1..N /\ (k + 1) - 1 = k /\ k + 1 \in 0..N
      BY <2>2
    <3>2. at[k+1] = g[at[k]]
      BY <1>6, <3>1
    <3> QED
      BY <2>2, <3>1, <3>2
  <2> HIDE DEF S
  <2> QED
    BY <2>1, <2>2, UpTo
<1>8. at \in [0..N -> D]
  <2>1. at = [k \in 0..N |-> at[k]]
    BY <1>5, Zenon
  <2>2. \A k \in 0..N : at[k] \in D
    BY <1>7
  <2> QED
    BY <2>1, <2>2
<1> QED
  BY <1>6, <1>8 DEF at, IsWalk

-----------------------------------------------------------------------------
(* Meshes of v vertices, h half edges and p polygons *)

(* The vertices of a mesh with h half edges. *)
VertexOf(h) == [position : Positions, live : BOOLEAN, halfEdges : SUBSET (1..h)]

(* The half edges of a mesh with v vertices, h half edges and p polygons. *)
HalfEdgeOf(v, h, p) ==
  [start : 0..v, end : 0..v, polygon : 0..p, pair : 0..h, prev : 0..h, next : 0..h,
   live : BOOLEAN]
(* The polygons of a mesh with h half edges. *)
PolygonOf(h) == [any : 0..h, live : BOOLEAN]

(* The meshes with v vertices, h half edges and p polygons. *)
Meshes(v, h, p) ==
  [vertices : [1..v -> VertexOf(h)], ring : [1..v -> 0..v],
   halfEdges : [1..h -> HalfEdgeOf(v, h, p)], polygons : [1..p -> PolygonOf(h)]]

(* The domains and lengths of a mesh's four containers. *)
LEMMA Sizes ==
  ASSUME NEW v \in Nat, NEW h \in Nat, NEW p \in Nat, NEW m \in Meshes(v, h, p)
  PROVE  /\ DOMAIN m.vertices = 1..v /\ Len(m.vertices) = v
         /\ DOMAIN m.halfEdges = 1..h /\ Len(m.halfEdges) = h
         /\ DOMAIN m.polygons = 1..p /\ Len(m.polygons) = p
         /\ DOMAIN m.ring = 1..v
<1>1. /\ m.vertices \in [1..v -> VertexOf(h)] /\ m.ring \in [1..v -> 0..v]
      /\ m.halfEdges \in [1..h -> HalfEdgeOf(v, h, p)] /\ m.polygons \in [1..p -> PolygonOf(h)]
  BY DEF Meshes
<1>2. /\ Len(m.vertices) = v /\ Len(m.halfEdges) = h /\ Len(m.polygons) = p
  BY <1>1, EachIs
<1> QED
  BY <1>1, <1>2

(* Every field of a mesh's vertices, half edges and polygons lies in its
   range. *)
LEMMA Fields ==
  ASSUME NEW v \in Nat, NEW h \in Nat, NEW p \in Nat, NEW m \in Meshes(v, h, p)
  PROVE  /\ m.vertices \in [1..v -> VertexOf(h)] /\ m.ring \in [1..v -> 0..v]
         /\ m.halfEdges \in [1..h -> HalfEdgeOf(v, h, p)] /\ m.polygons \in [1..p -> PolygonOf(h)]
         /\ \A w \in 1..v : /\ m.vertices[w] \in VertexOf(h) /\ m.vertices[w].live \in BOOLEAN
                            /\ m.vertices[w].halfEdges \subseteq 1..h
                            /\ m.vertices[w].position \in Positions
                            /\ m.ring[w] \in 0..v
         /\ \A g \in 1..h : /\ m.halfEdges[g] \in HalfEdgeOf(v, h, p)
                            /\ m.halfEdges[g].start \in 0..v /\ m.halfEdges[g].end \in 0..v
                            /\ m.halfEdges[g].polygon \in 0..p /\ m.halfEdges[g].pair \in 0..h
                            /\ m.halfEdges[g].prev \in 0..h /\ m.halfEdges[g].next \in 0..h
                            /\ m.halfEdges[g].live \in BOOLEAN
         /\ \A q \in 1..p : /\ m.polygons[q] \in PolygonOf(h)
                            /\ m.polygons[q].any \in 0..h /\ m.polygons[q].live \in BOOLEAN
<1>1. /\ m.vertices \in [1..v -> VertexOf(h)] /\ m.ring \in [1..v -> 0..v]
      /\ m.halfEdges \in [1..h -> HalfEdgeOf(v, h, p)] /\ m.polygons \in [1..p -> PolygonOf(h)]
  BY DEF Meshes
<1>2. \A w \in 1..v : m.vertices[w] \in VertexOf(h) /\ m.ring[w] \in 0..v
  BY <1>1
<1>3. \A g \in 1..h : m.halfEdges[g] \in HalfEdgeOf(v, h, p)
  BY <1>1
<1>4. \A q \in 1..p : m.polygons[q] \in PolygonOf(h)
  BY <1>1
<1>5. \A x \in VertexOf(h) : x.live \in BOOLEAN /\ x.halfEdges \subseteq 1..h /\ x.position \in Positions
  BY DEF VertexOf
<1>6. \A x \in HalfEdgeOf(v, h, p) :
         /\ x.start \in 0..v /\ x.end \in 0..v /\ x.polygon \in 0..p /\ x.pair \in 0..h
         /\ x.prev \in 0..h /\ x.next \in 0..h /\ x.live \in BOOLEAN
  BY DEF HalfEdgeOf
<1>7. \A x \in PolygonOf(h) : x.any \in 0..h /\ x.live \in BOOLEAN
  BY DEF PolygonOf
<1> QED
  BY <1>1, <1>2, <1>3, <1>4, <1>5, <1>6, <1>7

(* The vertices that are not deleted. *)
LiveVertices(m) == {v \in DOMAIN m.vertices : m.vertices[v].live}

(* The half edges that are not deleted. *)
LiveEdges(m) == {h \in DOMAIN m.halfEdges : m.halfEdges[h].live}

(* The live vertices and half edges are indices of the containers. *)
LEMMA LiveAre ==
  ASSUME NEW v \in Nat, NEW h \in Nat, NEW p \in Nat, NEW m \in Meshes(v, h, p)
  PROVE  /\ LiveVertices(m) \subseteq 1..v /\ LiveEdges(m) \subseteq 1..h
         /\ \A u \in 1..v : u \in LiveVertices(m) <=> m.vertices[u].live
         /\ \A x \in 1..h : x \in LiveEdges(m) <=> m.halfEdges[x].live
BY Sizes DEF LiveVertices, LiveEdges

(* One vertex's fields lie in their ranges. *)
LEMMA VertexFields ==
  ASSUME NEW v \in Nat, NEW h \in Nat, NEW p \in Nat, NEW m \in Meshes(v, h, p), NEW u \in 1..v
  PROVE  /\ m.vertices[u] \in VertexOf(h) /\ m.vertices[u].live \in BOOLEAN
         /\ m.vertices[u].halfEdges \subseteq 1..h /\ m.vertices[u].position \in Positions
         /\ m.ring[u] \in 0..v
BY Fields

(* One half edge's fields lie in their ranges. *)
LEMMA EdgeFields ==
  ASSUME NEW v \in Nat, NEW h \in Nat, NEW p \in Nat, NEW m \in Meshes(v, h, p), NEW x \in 1..h
  PROVE  /\ m.halfEdges[x] \in HalfEdgeOf(v, h, p) /\ m.halfEdges[x].live \in BOOLEAN
         /\ m.halfEdges[x].start \in 0..v /\ m.halfEdges[x].end \in 0..v
         /\ m.halfEdges[x].polygon \in 0..p /\ m.halfEdges[x].pair \in 0..h
         /\ m.halfEdges[x].prev \in 0..h /\ m.halfEdges[x].next \in 0..h
BY Fields

(* One polygon's fields lie in their ranges. *)
LEMMA PolygonFields ==
  ASSUME NEW v \in Nat, NEW h \in Nat, NEW p \in Nat, NEW m \in Meshes(v, h, p), NEW q \in 1..p
  PROVE  /\ m.polygons[q] \in PolygonOf(h) /\ m.polygons[q].any \in 0..h
         /\ m.polygons[q].live \in BOOLEAN
<1>1. m.polygons[q] \in PolygonOf(h)
  BY DEF Meshes
<1> QED
  BY <1>1 DEF PolygonOf

-----------------------------------------------------------------------------
(* Loops *)

(* What Loop gives: live half edges from any on, each the next of the one before, *)
(* the first one once, and no further only where the next is the first or dead.   *)
IsLoop(h, m, q, n, loop) ==
  /\ loop \in [1..n -> LiveEdges(m)]
  /\ loop \in Seq(1..h) /\ Len(loop) = n
  /\ n = 0 => m.polygons[q].any \notin LiveEdges(m)
  /\ n > 0 => loop[1] = m.polygons[q].any
  /\ \A k \in 1..n-1 : loop[k + 1] = m.halfEdges[loop[k]].next
  /\ \A k \in 2..n : loop[k] # loop[1]
  /\ n > 0 /\ n < h => \/ m.halfEdges[loop[n]].next = loop[1]
                       \/ m.halfEdges[loop[n]].next \notin LiveEdges(m)

(* visitLoop's walk visits at most every half edge, each
   after the one before. *)
LEMMA LoopFacts ==
  ASSUME NEW v \in Nat, NEW h \in Nat, NEW p \in Nat, NEW m \in Meshes(v, h, p), NEW q \in 1..p
  PROVE  \E n \in 0..h : IsLoop(h, m, q, n, Loop(m, q))
<1> DEFINE N == Len(m.halfEdges)
           after == [g \in 0..N |-> IF Live(m.halfEdges, g) THEN m.halfEdges[g].next ELSE Invalid]
           any == m.polygons[q].any
           at == WalkFrom(N, any, after)
           Stops(k) == ~Live(m.halfEdges, at[k]) \/ (k > 0 /\ at[k] = at[0])
           stops == {k \in DOMAIN at : Stops(k)} \cup {N}
           n == Min(stops)
<1>1. /\ DOMAIN m.halfEdges = 1..h /\ N = h
      /\ any \in 0..h /\ \A g \in 1..h : m.halfEdges[g].next \in 0..h
      /\ LiveEdges(m) \subseteq 1..h
  BY Sizes, Fields DEF LiveEdges
<1>2. \A g : Live(m.halfEdges, g) <=> g \in LiveEdges(m)
  BY <1>1 DEF Live, LiveEdges
<1>3. Loop(m, q) = [k \in 1..n |-> at[k-1]]
  BY Zenon DEF Loop, WalkFrom, Index
<1> HIDE DEF N
<1>4. after \in [0..h -> 0..h]
  BY <1>1, <1>2 DEF Invalid
<1>5. \A g \in LiveEdges(m) : after[g] = m.halfEdges[g].next
  BY <1>1, <1>2
<1> HIDE DEF after
<1>6. at \in [0..h -> 0..h] /\ at[0] = any /\ \A k \in 1..h : at[k] = after[at[k-1]]
  <2> DEFINE D == 0..h
  <2>1. h \in Nat /\ any \in D /\ after \in [D -> D]
    BY <1>1, <1>4
  <2> HIDE DEF D, any
  <2>2. IsWalk(h, D, any, after, WalkFrom(h, any, after))
    BY <2>1, WalkFacts
  <2> QED
    BY <1>1, <2>2 DEF IsWalk, D
<1> HIDE DEF at
<1>7. DOMAIN at = 0..h
  BY <1>6
<1>8. n \in 0..h /\ n \in stops /\ \A k \in 0..n-1 : k \notin stops
  <2>1. stops \subseteq 0..h /\ N \in stops
    <3>1. stops \subseteq 0..h
      <4> HIDE DEF Stops
      <4> QED
        BY <1>1, <1>7
    <3> QED
      BY <3>1
  <2> HIDE DEF stops
  <2>2. n \in stops /\ \A k \in stops : n <= k
    <3>1. stops \subseteq Nat /\ stops # {}
      BY <2>1
    <3> QED
      BY <3>1, MinIsLeast
  <2> HIDE DEF n
  <2> QED
    BY <2>1, <2>2
<1> HIDE DEF n
<1>9. \A k \in 0..n-1 : at[k] \in LiveEdges(m) /\ (k > 0 => at[k] # at[0])
  BY <1>2, <1>7, <1>8
<1>10. n < h => at[n] \notin LiveEdges(m) \/ (n > 0 /\ at[n] = at[0])
  BY <1>1, <1>2, <1>8
<1> HIDE DEF stops, any
<1>11. \A k \in 1..n : k \in Int /\ k - 1 \in 0..n-1
  BY <1>8
<1>12. Loop(m, q) \in [1..n -> LiveEdges(m)]
  BY <1>3, <1>9, <1>11
<1>13. Loop(m, q) \in [1..n -> 1..h]
  BY <1>1, <1>12
<1>14. Loop(m, q) \in Seq(1..h) /\ Len(Loop(m, q)) = n
  BY <1>8, <1>13, EachIs
<1>15. n = 0 => any \notin LiveEdges(m)
  <2>1. CASE h = 0
    BY <1>1, <2>1
  <2> QED
    BY <1>6, <1>8, <1>10, <2>1
<1>16. n > 0 => Loop(m, q)[1] = any
  BY <1>3, <1>6, <1>8
<1>17. \A k \in 1..n : Loop(m, q)[k] = at[k-1] /\ at[k] = m.halfEdges[Loop(m, q)[k]].next
  <2> TAKE k \in 1..n
  <2>1. k \in 1..h /\ k - 1 \in 0..n-1
    BY <1>8, <1>11
  <2>2. Loop(m, q)[k] = at[k-1]
    BY <1>3
  <2>3. at[k] = after[at[k-1]] /\ at[k-1] \in LiveEdges(m)
    BY <1>6, <1>9, <2>1
  <2> QED
    BY <1>5, <2>2, <2>3
<1>18. \A k \in 1..n-1 : Loop(m, q)[k + 1] = m.halfEdges[Loop(m, q)[k]].next
  <2> TAKE k \in 1..n-1
  <2>1. k \in 1..n /\ k + 1 \in 1..n /\ (k + 1) - 1 = k
    BY <1>8
  <2> QED
    BY <1>17, <2>1
<1>19. \A k \in 2..n : Loop(m, q)[k] # Loop(m, q)[1]
  <2> TAKE k \in 2..n
  <2>1. k \in 1..n /\ k - 1 \in 0..n-1 /\ k - 1 > 0 /\ 1 \in 1..n /\ 1 - 1 = 0
    BY <1>8
  <2> QED
    BY <1>9, <1>17, <2>1
<1>20. n > 0 /\ n < h => \/ m.halfEdges[Loop(m, q)[n]].next = Loop(m, q)[1]
                        \/ m.halfEdges[Loop(m, q)[n]].next \notin LiveEdges(m)
  <2> SUFFICES ASSUME n > 0, n < h
               PROVE  \/ m.halfEdges[Loop(m, q)[n]].next = Loop(m, q)[1]
                      \/ m.halfEdges[Loop(m, q)[n]].next \notin LiveEdges(m)
    OBVIOUS
  <2>1. n \in 1..n /\ 1 \in 1..n /\ 1 - 1 = 0
    BY <1>8
  <2> QED
    BY <1>10, <1>17, <2>1
<1> QED
  BY <1>8, <1>12, <1>14, <1>15, <1>16, <1>18, <1>19, <1>20 DEF any, IsLoop

(* The next place around, by the remainder. *)
LEMMA Cyclic ==
  ASSUME NEW n \in Nat, NEW k \in 1..n
  PROVE  (k % n) + 1 = IF k = n THEN 1 ELSE k + 1
<1>1. CASE k = n
  <2>1. n % n = 0
    OBVIOUS
  <2> QED
    BY <1>1, <2>1
<1>2. CASE k # n
  <2>1. k % n = k
    BY <1>2
  <2> QED
    BY <1>2, <2>1
<1> QED
  BY <1>1, <1>2

(* The half edges follow one another, no two to the same. *)
NextOK(m) ==
  \A g \in LiveEdges(m) :
    /\ m.halfEdges[g].next \in LiveEdges(m)
    /\ \A f \in LiveEdges(m) : m.halfEdges[f].next = m.halfEdges[g].next => f = g

(* Then a loop closes, and has no half edge twice. *)
IsClosed(h, m, q, loop) ==
  /\ Len(loop) \in 0..h
  /\ loop \in [1..Len(loop) -> LiveEdges(m)]
  /\ Len(loop) > 0 => loop[1] = m.polygons[q].any
  /\ Len(loop) = 0 <=> m.polygons[q].any \notin LiveEdges(m)
  /\ \A i, j \in 1..Len(loop) : loop[i] = loop[j] => i = j
  /\ \A k \in 1..Len(loop) :
       m.halfEdges[loop[k]].next = loop[IF k = Len(loop) THEN 1 ELSE k + 1]

(* Where next is one to one within a polygon, the walk around it ends where
   it began. *)
LEMMA LoopCloses ==
  ASSUME NEW v \in Nat, NEW h \in Nat, NEW p \in Nat, NEW m \in Meshes(v, h, p), NEW q \in 1..p,
         NextOK(m)
  PROVE  IsClosed(h, m, q, Loop(m, q))
<1> DEFINE loop == Loop(m, q)
           any == m.polygons[q].any
           next(g) == m.halfEdges[g].next
<1>1. PICK n \in 0..h :
        /\ loop \in [1..n -> LiveEdges(m)]
        /\ loop \in Seq(1..h) /\ Len(loop) = n
        /\ n = 0 => any \notin LiveEdges(m)
        /\ n > 0 => loop[1] = any
        /\ \A k \in 1..n-1 : loop[k + 1] = next(loop[k])
        /\ \A k \in 2..n : loop[k] # loop[1]
        /\ n > 0 /\ n < h => next(loop[n]) = loop[1] \/ next(loop[n]) \notin LiveEdges(m)
  <2>1. PICK n \in 0..h : IsLoop(h, m, q, n, Loop(m, q))
    BY LoopFacts
  <2> QED
    BY <2>1, Zenon DEF IsLoop
<1>2. \A f, g \in LiveEdges(m) : next(g) \in LiveEdges(m) /\ (next(f) = next(g) => f = g)
  BY DEF NextOK
<1>3. \A k \in 1..n : loop[k] \in LiveEdges(m)
  BY <1>1
<1>4. LiveEdges(m) \subseteq 1..h
  BY Sizes DEF LiveEdges
<1> HIDE DEF loop, next, any
<1>5. ASSUME NEW j \in 1..n, NEW i \in 1..n, i < j, loop[i] = loop[j] PROVE FALSE
  <2> DEFINE Twice == {x \in 1..n : \E y \in 1..n : x < y /\ loop[x] = loop[y]}
  <2>1. Twice \subseteq Nat /\ i \in Twice
    BY <1>5
  <2> DEFINE a == Min(Twice)
  <2>2. a \in Twice /\ \A x \in Twice : a <= x
    <3> HIDE DEF Twice
    <3> QED
      BY <2>1, MinIsLeast
  <2> HIDE DEF a
  <2>3. PICK b \in 1..n : a < b /\ loop[a] = loop[b]
    BY <2>2
  <2>4. a \in 1..n /\ a # 1
    <3>1. a = 1 => b \in 2..n
      BY <2>3
    <3> QED
      BY <1>1, <2>2, <2>3, <3>1
  <2>5. /\ a - 1 \in 1..n-1 /\ b - 1 \in 1..n-1 /\ a - 1 < b - 1
        /\ a - 1 \in 1..n /\ b - 1 \in 1..n /\ (a - 1) + 1 = a /\ (b - 1) + 1 = b
    BY <2>3, <2>4
  <2>6. loop[a] = next(loop[a-1]) /\ loop[b] = next(loop[b-1])
    BY <1>1, <2>5
  <2>7. loop[a-1] = loop[b-1]
    BY <1>2, <1>3, <2>3, <2>5, <2>6
  <2>8. a - 1 \in Twice
    BY <2>5, <2>7
  <2> QED
    BY <2>2, <2>4, <2>5, <2>8
<1>6. \A i, j \in 1..n : loop[i] = loop[j] => i = j
  <2> SUFFICES ASSUME NEW i \in 1..n, NEW j \in 1..n, loop[i] = loop[j], i # j PROVE FALSE
    OBVIOUS
  <2>1. i < j \/ j < i
    OBVIOUS
  <2> QED
    BY <1>5, <2>1
<1>7. n > 0 => next(loop[n]) = loop[1]
  <2> SUFFICES ASSUME n > 0, next(loop[n]) # loop[1] PROVE FALSE
    OBVIOUS
  <2>1. n \in 1..n
    BY <1>1
  <2>2. next(loop[n]) \in LiveEdges(m)
    BY <1>2, <1>3, <2>1
  <2>3. n = h
    BY <1>1, <2>2
  <2>4. loop \in [1..n -> 1..h]
    BY <1>1, <1>4
  <2>5. \A y \in 1..h : \E i \in 1..n : loop[i] = y
    <3>1. n \in Nat
      OBVIOUS
    <3>2. loop \in [1..n -> 1..n]
      BY <2>3, <2>4
    <3>3. \A y \in 1..n : \E i \in 1..n : loop[i] = y
      BY <1>6, <3>1, <3>2, AllTaken, Zenon
    <3> QED
      BY <2>3, <3>3
  <2>6. PICK i \in 1..n : loop[i] = next(loop[n])
    BY <1>4, <2>2, <2>5
  <2>7. i # 1 /\ i - 1 \in 1..n-1 /\ (i - 1) + 1 = i /\ i - 1 \in 1..n /\ i - 1 # n
    BY <2>6
  <2>8. loop[i] = next(loop[i-1])
    BY <1>1, <2>7
  <2>9. loop[i-1] = loop[n]
    BY <1>2, <1>3, <2>1, <2>6, <2>7, <2>8
  <2> QED
    BY <1>6, <2>1, <2>7, <2>9
<1>8. \A k \in 1..n : next(loop[k]) = loop[IF k = n THEN 1 ELSE k + 1]
  <2> TAKE k \in 1..n
  <2>1. k # n => k \in 1..n-1
    OBVIOUS
  <2>2. k = n => n > 0
    OBVIOUS
  <2> QED
    BY <1>1, <1>7, <2>1, <2>2
<1>9. n = 0 <=> any \notin LiveEdges(m)
  <2>1. n # 0 => 1 \in 1..n /\ n > 0
    OBVIOUS
  <2> QED
    BY <1>1, <1>3, <2>1
<1> QED
  BY <1>1, <1>6, <1>8, <1>9 DEF loop, next, any, IsClosed

-----------------------------------------------------------------------------
(* Polygons as loops *)

(* The half edges that are not deleted form loops, one for each polygon that has  *)
(* any: the next one is of the same polygon and starts where this one ends, prev  *)
(* leads back unless it is stale, and a set that has with a half edge its next    *)
(* one has all of the polygon.                                                    *)
LinksOK(m, stale) ==
  \A g \in LiveEdges(m) :
    LET e == m.halfEdges[g]
        f == m.halfEdges[e.next]
    IN  f.polygon = e.polygon /\ f.start = e.end /\ (stale \/ f.prev = g)

(* A live half edge belongs to a polygon that has one, and a polygon's half
   edge is its own. *)
OwnersOK(m) ==
  /\ \A g \in LiveEdges(m) :
       /\ m.halfEdges[g].polygon \in DOMAIN m.polygons
       /\ m.polygons[m.halfEdges[g].polygon].any # Invalid
  /\ \A p \in DOMAIN m.polygons : m.polygons[p].any # Invalid =>
       /\ m.polygons[p].live /\ m.polygons[p].any \in LiveEdges(m)
       /\ m.halfEdges[m.polygons[p].any].polygon = p

(* A polygon's live half edges are one cycle: no part of them is closed
   under next. *)
CyclesOK(m) ==
  \A O \in SUBSET LiveEdges(m) :
    (\A g \in O : m.halfEdges[g].next \in O) =>
       \A g \in O, f \in LiveEdges(m) :
         m.halfEdges[f].polygon = m.halfEdges[g].polygon => f \in O

(* What makes the loops of a mesh well formed; stale when prev may not be
   up to date. *)
LoopsOK(m, stale) == NextOK(m) /\ LinksOK(m, stale) /\ OwnersOK(m) /\ CyclesOK(m)

(* So the loop of a polygon has just its half edges. *)
HasItsOwn(m, q, loop) ==
  /\ \A k \in 1..Len(loop) : m.halfEdges[loop[k]].polygon = q
  /\ \A g \in LiveEdges(m) : m.halfEdges[g].polygon = q =>
       \E k \in 1..Len(loop) : loop[k] = g

(* In a well-formed mesh the walk around a polygon visits all of its half
   edges. *)
LEMMA LoopHasAll ==
  ASSUME NEW v \in Nat, NEW h \in Nat, NEW p \in Nat, NEW m \in Meshes(v, h, p), NEW q \in 1..p,
         NEW stale, LoopsOK(m, stale)
  PROVE  HasItsOwn(m, q, Loop(m, q))
<1> DEFINE loop == Loop(m, q)
           n == Len(loop)
           next(g) == m.halfEdges[g].next
           of(g) == m.halfEdges[g].polygon
<1>1. NextOK(m) /\ LinksOK(m, stale) /\ OwnersOK(m) /\ CyclesOK(m)
  BY DEF LoopsOK
<1>2. /\ n \in 0..h
      /\ loop \in [1..n -> LiveEdges(m)]
      /\ n > 0 => loop[1] = m.polygons[q].any
      /\ n = 0 <=> m.polygons[q].any \notin LiveEdges(m)
      /\ \A k \in 1..n : next(loop[k]) = loop[IF k = n THEN 1 ELSE k + 1]
  <2>1. IsClosed(h, m, q, Loop(m, q))
    BY <1>1, LoopCloses
  <2> QED
    BY <2>1, Zenon DEF IsClosed
<1>3. \A g \in LiveEdges(m) : of(next(g)) = of(g)
  BY <1>1 DEF LinksOK
<1> HIDE DEF loop, n
<1>4. n > 0 => of(loop[1]) = q
  <2>1. q \in DOMAIN m.polygons /\ 0 \notin LiveEdges(m)
    BY Sizes DEF LiveEdges
  <2>2. n > 0 => m.polygons[q].any # Invalid
    BY <1>2, <2>1 DEF Invalid
  <2> QED
    BY <1>1, <1>2, <2>1, <2>2 DEF OwnersOK
<1>5. \A k \in 1..n : loop[k] \in LiveEdges(m)
  BY <1>2
<1> HIDE DEF next, of
<1> DEFINE S == {k \in 0..n : k # 0 => of(loop[k]) = q}
<1>6. 0..n \subseteq S
  <2>1. 0 \in S
    BY <1>2
  <2>2. ASSUME NEW k \in 0..n, k < n, k \in S PROVE k + 1 \in S
    <3>1. CASE k = 0
      <4>1. k + 1 = 1 /\ n > 0 /\ k + 1 \in 0..n
        BY <1>2, <2>2, <3>1
      <4> QED
        BY <1>4, <4>1
    <3>2. CASE k # 0
      <4>1. k \in 1..n /\ k # n /\ k + 1 \in 0..n
        BY <1>2, <2>2, <3>2
      <4>2. loop[k + 1] = next(loop[k])
        BY <1>2, <4>1
      <4>3. of(loop[k + 1]) = q
        BY <1>3, <1>5, <2>2, <3>2, <4>1, <4>2
      <4> QED
        BY <4>1, <4>3
    <3> QED
      BY <3>1, <3>2
  <2>3. n \in Nat
    BY <1>2
  <2> HIDE DEF S
  <2> QED
    BY <2>1, <2>2, <2>3, UpTo
<1>7. ASSUME NEW k \in 1..n PROVE of(loop[k]) = q
  <2>1. k \in 0..n /\ k # 0
    BY <1>2
  <2> QED
    BY <1>6, <2>1
<1>8. ASSUME NEW g \in LiveEdges(m), of(g) = q
      PROVE  \E k \in 1..n : loop[k] = g
  <2> DEFINE O == {loop[k] : k \in 1..n}
  <2>1. O \in SUBSET LiveEdges(m)
    BY <1>5
  <2>2. \A f \in O : next(f) \in O
    <3> SUFFICES ASSUME NEW k \in 1..n PROVE next(loop[k]) \in O
      OBVIOUS
    <3>1. (IF k = n THEN 1 ELSE k + 1) \in 1..n
      BY <1>2
    <3> QED
      BY <1>2, <3>1
  <2>3. q \in DOMAIN m.polygons /\ m.polygons[q].any # Invalid
    BY <1>1, <1>8 DEF OwnersOK, of
  <2>4. n > 0
    <3>1. m.polygons[q].any \in LiveEdges(m)
      BY <1>1, <2>3 DEF OwnersOK
    <3> QED
      BY <1>2, <3>1
  <2>5. 1 \in 1..n
    BY <1>2, <2>4
  <2>6. loop[1] \in O /\ of(loop[1]) = of(g)
    BY <1>4, <1>8, <2>4, <2>5
  <2> HIDE DEF O
  <2>7. \A x \in O, f \in LiveEdges(m) : of(f) = of(x) => f \in O
    BY <1>1, <2>1, <2>2 DEF CyclesOK, next, of
  <2>8. g \in O
    BY <2>6, <2>7
  <2> QED
    BY <2>8 DEF O
<1> QED
  BY <1>7, <1>8 DEF loop, n, of, HasItsOwn

-----------------------------------------------------------------------------
(* What the operations on a mesh make of each element *)

(* The ring of w is walked over vertices, until it leads to w or nowhere. *)
IsRingWalk(v, m, w, at) ==
  /\ at \in [0..v -> 0..v] /\ at[0] = m.ring[w]
  /\ \A k \in 1..v : at[k] = IF at[k-1] \in {w, 0} THEN at[k-1] ELSE m.ring[at[k-1]]

(* getSimilarVertexIndices is what the walk along the ring meets, without its
   start. *)
LEMMA SimilarAre ==
  ASSUME NEW v \in Nat, NEW h \in Nat, NEW p \in Nat, NEW m \in Meshes(v, h, p), NEW w \in 1..v
  PROVE  /\ \E at : IsRingWalk(v, m, w, at) /\ Similar(m, w) = {at[k] : k \in 0..v} \ {w, 0}
         /\ Similar(m, w) \subseteq 1..v
<1> DEFINE N == Len(m.vertices)
           after == [u \in 0..N |-> IF u \in {w, 0} THEN u ELSE m.ring[u]]
           at == WalkFrom(N, m.ring[w], after)
<1>1. N = v
  BY Sizes
<1>2. m.ring[w] \in 0..v /\ \A u \in 1..v : m.ring[u] \in 0..v
  BY Fields
<1>3. after \in [0..N -> 0..N]
  BY <1>1, <1>2
<1>4. Similar(m, w) = Range(at) \ {w, 0}
  BY Zenon DEF Similar, WalkFrom, Index, Invalid
<1>5. \A u \in 0..N : after[u] = IF u \in {w, 0} THEN u ELSE m.ring[u]
  OBVIOUS
<1> HIDE DEF after
<1>6. IsWalk(N, 0..N, m.ring[w], after, at)
  <2> HIDE DEF N
  <2> QED
    BY <1>1, <1>2, <1>3, WalkFacts
<1> HIDE DEF at, N
<1>7. IsRingWalk(v, m, w, at)
  <2>1. at \in [0..v -> 0..v] /\ at[0] = m.ring[w]
    BY <1>1, <1>6 DEF IsWalk
  <2>2. ASSUME NEW k \in 1..v
        PROVE  at[k] = IF at[k-1] \in {w, 0} THEN at[k-1] ELSE m.ring[at[k-1]]
    <3>1. k - 1 \in 0..v
      OBVIOUS
    <3>2. at[k-1] \in 0..N
      BY <1>1, <2>1, <3>1
    <3>3. at[k] = after[at[k-1]]
      BY <1>1, <1>6 DEF IsWalk
    <3> QED
      BY <1>5, <3>2, <3>3
  <2> QED
    BY <2>1, <2>2 DEF IsRingWalk
<1>8. DOMAIN at = 0..v /\ \A k \in 0..v : at[k] \in 0..v
  BY <1>7 DEF IsRingWalk
<1>9. Range(at) = {at[k] : k \in 0..v}
  BY <1>8 DEF Range
<1>10. Similar(m, w) \subseteq 1..v
  BY <1>4, <1>8, <1>9
<1> QED
  BY <1>4, <1>7, <1>9, <1>10

(* Where an end goes that was at u, of a half edge x, when gone are welded to w. *)
MovedTo(m, gone, w, x, u) == IF u \in gone /\ x \in m.vertices[u].halfEdges THEN w ELSE u

(* r is m with the vertices gone merged into w. *)
IsWelded(v, h, m, w, gone, r) ==
  /\ \A x \in 1..h :
       r.halfEdges[x] = [m.halfEdges[x] EXCEPT
                           !.start = MovedTo(m, gone, w, x, @), !.end = MovedTo(m, gone, w, x, @)]
  /\ \A u \in 1..v :
       /\ r.vertices[u] = [m.vertices[u] EXCEPT !.live = @ /\ u \notin gone]
       /\ r.ring[u] = IF u = w THEN w ELSE IF u \in gone THEN Invalid ELSE m.ring[u]
  /\ r.polygons = m.polygons

(* WeldedTo merges the similar vertices and changes nothing else. *)
LEMMA WeldedToIs ==
  ASSUME NEW v \in Nat, NEW h \in Nat, NEW p \in Nat, NEW m \in Meshes(v, h, p), NEW w \in 1..v,
         m.vertices[w].live
  PROVE  /\ WeldedTo(m, w) \in Meshes(v, h, p)
         /\ IsWelded(v, h, m, w, Similar(m, w), WeldedTo(m, w))
<1> DEFINE gone == Similar(m, w)
           To(x, u) == MovedTo(m, gone, w, x, u)
           halves == [x \in 1..h |-> [m.halfEdges[x] EXCEPT !.start = To(x, @), !.end = To(x, @)]]
           verts == [u \in 1..v |-> [m.vertices[u] EXCEPT !.live = @ /\ u \notin gone]]
           rings == [u \in 1..v |-> IF u = w THEN w ELSE IF u \in gone THEN Invalid ELSE m.ring[u]]
<1>1. /\ DOMAIN m.vertices = 1..v /\ Len(m.vertices) = v
      /\ DOMAIN m.halfEdges = 1..h /\ Len(m.halfEdges) = h
      /\ DOMAIN m.ring = 1..v /\ m.ring \in [1..v -> 0..v]
      /\ Len(m.ring) = v
  <2>1. m.ring \in [1..v -> 0..v]
    BY Fields
  <2>2. Len(m.ring) = v
    BY <2>1, EachIs
  <2> QED
    BY <2>1, <2>2, Sizes
<1>2. gone \subseteq 1..v
  BY SimilarAre
<1>3. halves \in [1..h -> HalfEdgeOf(v, h, p)]
  <2> SUFFICES ASSUME NEW x \in 1..h
               PROVE  [m.halfEdges[x] EXCEPT !.start = To(x, @), !.end = To(x, @)]
                         \in HalfEdgeOf(v, h, p)
    OBVIOUS
  <2>1. m.halfEdges[x] \in HalfEdgeOf(v, h, p)
    BY Fields
  <2>2. \A u \in 0..v : To(x, u) \in 0..v
    BY DEF MovedTo
  <2> QED
    BY <2>1, <2>2 DEF HalfEdgeOf
<1>4. verts \in [1..v -> VertexOf(h)]
  <2> SUFFICES ASSUME NEW u \in 1..v
               PROVE  [m.vertices[u] EXCEPT !.live = @ /\ u \notin gone] \in VertexOf(h)
    OBVIOUS
  <2>1. m.vertices[u] \in VertexOf(h)
    BY Fields
  <2> QED
    BY <2>1 DEF VertexOf
<1>5. rings \in [1..v -> 0..v]
  BY <1>1 DEF Invalid
<1>6. Live(m.vertices, w)
  BY <1>1 DEF Live
<1>7. WeldedTo(m, w) = [m EXCEPT !.halfEdges = SubSeq(halves, 1, h),
                                 !.vertices = SubSeq(verts, 1, v), !.ring = SubSeq(rings, 1, v)]
  BY <1>1, <1>6, Zenon DEF WeldedTo, Each, MovedTo
<1>8. /\ SubSeq(halves, 1, h) = halves /\ SubSeq(verts, 1, v) = verts
      /\ SubSeq(rings, 1, v) = rings
  <2> HIDE DEF halves, verts, rings
  <2> QED
    BY <1>3, <1>4, <1>5, EachIs
<1>9. WeldedTo(m, w) = [m EXCEPT !.halfEdges = halves, !.vertices = verts, !.ring = rings]
  BY <1>7, <1>8
<1>10. IsWelded(v, h, m, w, gone, [m EXCEPT !.halfEdges = halves, !.vertices = verts, !.ring = rings])
  BY DEF IsWelded, Meshes
<1> HIDE DEF halves, verts, rings
<1>11. [m EXCEPT !.halfEdges = halves, !.vertices = verts, !.ring = rings] \in Meshes(v, h, p)
  BY <1>3, <1>4, <1>5 DEF Meshes
<1> QED
  BY <1>9, <1>10, <1>11

-----------------------------------------------------------------------------
(* No half edge has a pair. *)
IsUnpaired(h, m, r) ==
  /\ \A x \in 1..h : r.halfEdges[x] = [m.halfEdges[x] EXCEPT !.pair = 0]
  /\ r.vertices = m.vertices /\ r.ring = m.ring /\ r.polygons = m.polygons

(* Unpaired clears every pair and changes nothing else. *)
LEMMA UnpairedIs ==
  ASSUME NEW v \in Nat, NEW h \in Nat, NEW p \in Nat, NEW m \in Meshes(v, h, p)
  PROVE  Unpaired(m) \in Meshes(v, h, p) /\ IsUnpaired(h, m, Unpaired(m))
<1> DEFINE halves == [x \in 1..h |-> [m.halfEdges[x] EXCEPT !.pair = 0]]
<1>1. DOMAIN m.halfEdges = 1..h /\ Len(m.halfEdges) = h
  BY Sizes
<1>2. halves \in [1..h -> HalfEdgeOf(v, h, p)]
  <2> SUFFICES ASSUME NEW x \in 1..h
               PROVE  [m.halfEdges[x] EXCEPT !.pair = 0] \in HalfEdgeOf(v, h, p)
    OBVIOUS
  <2>1. m.halfEdges[x] \in HalfEdgeOf(v, h, p)
    BY Fields
  <2> QED
    BY <2>1 DEF HalfEdgeOf
<1>3. Unpaired(m) = [m EXCEPT !.halfEdges = SubSeq(halves, 1, h)]
  BY <1>1, Zenon DEF Unpaired, Each, Invalid
<1>4. SubSeq(halves, 1, h) = halves
  <2> HIDE DEF halves
  <2> QED
    BY <1>2, EachIs
<1>5. IsUnpaired(h, m, [m EXCEPT !.halfEdges = halves])
  BY DEF IsUnpaired, Meshes
<1> HIDE DEF halves
<1>6. [m EXCEPT !.halfEdges = halves] \in Meshes(v, h, p)
  BY <1>2 DEF Meshes
<1> QED
  BY <1>3, <1>4, <1>5, <1>6

(* A half edge that has no pair yet is paired with one of its lower end's list    *)
(* that has none either and the same ends; if there is one.                       *)
Matches(m, x) ==
  {g \in m.vertices[Min(Ends(m.halfEdges[x]))].halfEdges \ {x} :
     m.halfEdges[g].pair = 0 /\ Ends(m.halfEdges[g]) = Ends(m.halfEdges[x])}

(* r is m with x and g paired. *)
IsPaired(h, m, x, g, r) ==
  /\ \A y \in 1..h :
       r.halfEdges[y] = [m.halfEdges[y] EXCEPT
                           !.pair = IF y = g THEN x ELSE IF y = x THEN g ELSE @]
  /\ r.vertices = m.vertices /\ r.ring = m.ring /\ r.polygons = m.polygons

(* Paired leaves the mesh as it is, or pairs x with one of its matches. *)
LEMMA PairedIs ==
  ASSUME NEW v \in Nat, NEW h \in Nat, NEW p \in Nat, NEW m \in Meshes(v, h, p), NEW x \in 1..h
  PROVE  /\ Paired(m, x) \in Meshes(v, h, p)
         /\ \/ /\ Paired(m, x) = m
               /\ \/ 0 \in Ends(m.halfEdges[x]) \/ m.halfEdges[x].pair # 0
                  \/ Matches(m, x) = {}
            \/ /\ 0 \notin Ends(m.halfEdges[x]) /\ m.halfEdges[x].pair = 0
               /\ \E g \in Matches(m, x) : g \in 1..h /\ IsPaired(h, m, x, g, Paired(m, x))
<1> DEFINE e == m.halfEdges[x]
           like == Matches(m, x)
           g == Min(like)
           stays == 0 \in Ends(e) \/ e.pair # 0 \/ like = {}
           r == [m EXCEPT !.halfEdges[x].pair = g, !.halfEdges[g].pair = x]
<1>1. Paired(m, x) = IF stays THEN m ELSE r
  BY Zenon DEF Paired, Matches, Invalid
<1>2. CASE stays
  BY <1>1, <1>2
<1>3. CASE ~stays
  <2>1. Ends(e) \subseteq 1..v /\ Ends(e) # {}
    <3>1. e.start \in 0..v /\ e.end \in 0..v
      BY Fields
    <3> QED
      BY <1>3, <3>1 DEF Ends
  <2>2. Min(Ends(e)) \in 1..v
    <3>1. Ends(e) \subseteq Nat
      BY <2>1
    <3>2. Min(Ends(e)) \in Ends(e)
      BY <2>1, <3>1, MinIsLeast
    <3> QED
      BY <2>1, <3>2
  <2>3. like \subseteq 1..h
    <3>1. m.vertices[Min(Ends(e))].halfEdges \subseteq 1..h
      BY <2>2, VertexFields
    <3> QED
      BY <3>1, Zenon DEF Matches
  <2>4. g \in like
    <3> HIDE DEF like
    <3>1. like \subseteq Nat /\ like # {}
      BY <1>3, <2>3
    <3> QED
      BY <3>1, MinIsLeast
  <2>5. g \in 1..h /\ g # x
    BY <2>3, <2>4 DEF Matches
  <2> HIDE DEF g, like
  <2>6. m.halfEdges \in [1..h -> HalfEdgeOf(v, h, p)]
    BY Fields
  <2> DEFINE To(y, f) == [f EXCEPT !.pair = IF y = g THEN x ELSE IF y = x THEN g ELSE @]
             to == [y \in 1..h |-> To(y, m.halfEdges[y])]
  <2>7. r.halfEdges = to
    <3> DEFINE H == HalfEdgeOf(v, h, p)
               s == m.halfEdges
               once == [s EXCEPT ![x].pair = g]
    <3>1. r.halfEdges = [s EXCEPT ![x].pair = g, ![g].pair = x]
      BY DEF Meshes
    <3>2. \A y \in 1..h : once[y] = IF y = x THEN [s[y] EXCEPT !.pair = g] ELSE s[y]
      BY <2>6
    <3>3. [s EXCEPT ![x].pair = g, ![g].pair = x] = [once EXCEPT ![g].pair = x]
      OBVIOUS
    <3>4. DOMAIN once = 1..h
      BY <2>6
    <3> HIDE DEF once
    <3>5. [once EXCEPT ![g].pair = x] =
            [y \in 1..h |-> IF y = g THEN [once[y] EXCEPT !.pair = x] ELSE once[y]]
      BY <3>4
    <3>6. ASSUME NEW y \in 1..h
          PROVE  (IF y = g THEN [once[y] EXCEPT !.pair = x] ELSE once[y]) = To(y, s[y])
      <4>1. s[y] \in H
        BY <2>6
      <4>2. [s[y] EXCEPT !.pair = s[y].pair] = s[y]
        BY <4>1 DEF HalfEdgeOf
      <4> QED
        BY <2>5, <3>2, <4>1, <4>2 DEF HalfEdgeOf
    <3> HIDE DEF To, s
    <3>7. [y \in 1..h |-> IF y = g THEN [once[y] EXCEPT !.pair = x] ELSE once[y]] = to
      BY <3>6 DEF s
    <3> HIDE DEF to, r
    <3> QED
      BY <3>1, <3>3, <3>5, <3>7
  <2>8. r.halfEdges \in [1..h -> HalfEdgeOf(v, h, p)]
    <3>1. ASSUME NEW y \in 1..h PROVE To(y, m.halfEdges[y]) \in HalfEdgeOf(v, h, p)
      <4>1. m.halfEdges[y] \in HalfEdgeOf(v, h, p)
        BY <2>6
      <4> QED
        BY <2>5, <4>1 DEF HalfEdgeOf
    <3> HIDE DEF To, r
    <3> QED
      BY <2>7, <3>1
  <2>9. r \in Meshes(v, h, p)
    BY <2>8 DEF Meshes
  <2>10. IsPaired(h, m, x, g, r)
    <3>1. r.vertices = m.vertices /\ r.ring = m.ring /\ r.polygons = m.polygons
      BY DEF Meshes
    <3>2. \A y \in 1..h : r.halfEdges[y] = To(y, m.halfEdges[y])
      BY <2>7
    <3> QED
      BY <3>1, <3>2 DEF IsPaired
  <2>11. Paired(m, x) = r
    BY <1>1, <1>3
  <2> HIDE DEF r
  <2> QED
    BY <1>3, <2>4, <2>5, <2>9, <2>10, <2>11 DEF like
<1> QED
  BY <1>2, <1>3

(* The loops of the polygons that are not deleted, one after the other. *)
Visited(m) ==
  FlattenSeq([p \in DOMAIN m.polygons |-> IF m.polygons[p].live THEN Loop(m, p) ELSE <<>>])

(* connectPairs visits live half edges only, and all those of every
   live polygon. *)
LEMMA VisitedAre ==
  ASSUME NEW v \in Nat, NEW h \in Nat, NEW p \in Nat, NEW m \in Meshes(v, h, p)
  PROVE  /\ Visited(m) \in Seq(1..h)
         /\ \A i \in 1..Len(Visited(m)) : Visited(m)[i] \in LiveEdges(m)
         /\ \A q \in 1..p : m.polygons[q].live =>
              \A k \in 1..Len(Loop(m, q)) :
                \E i \in 1..Len(Visited(m)) : Visited(m)[i] = Loop(m, q)[k]
<1> DEFINE T == LiveEdges(m)
           s == [q \in DOMAIN m.polygons |-> IF m.polygons[q].live THEN Loop(m, q) ELSE <<>>]
<1>1. DOMAIN m.polygons = 1..p
  BY Sizes
<1>2. \A q \in 1..p : s[q] \in Seq(T)
  <2> TAKE q \in 1..p
  <2>1. PICK n \in 0..h : IsLoop(h, m, q, n, Loop(m, q))
    BY LoopFacts
  <2>2. Loop(m, q) \in [1..n -> T]
    BY <2>1 DEF IsLoop
  <2>3. Loop(m, q) \in Seq(T)
    BY <2>2, EachIs
  <2> QED
    BY <1>1, <2>3
<1>3. Visited(m) = FlattenSeq(s)
  BY Zenon DEF Visited
<1>4. \A q \in 1..p : m.polygons[q].live => s[q] = Loop(m, q)
  BY <1>1
<1>5. DOMAIN s = 1..p
  BY <1>1
<1> HIDE DEF s
<1>6. s \in [1..p -> Seq(T)]
  <2>1. s = [q \in 1..p |-> s[q]]
    BY <1>1, Zenon DEF s
  <2> QED
    BY <1>2, <2>1
<1>7. s \in Seq(Seq(T)) /\ Len(s) = p
  BY <1>6, EachIs
<1> HIDE DEF T
<1>8. /\ FlattenSeq(s) \in Seq(T)
      /\ \A k \in 1..Len(s) : \A j \in 1..Len(s[k]) :
           \E i \in 1..Len(FlattenSeq(s)) : FlattenSeq(s)[i] = s[k][j]
  BY <1>7, FlattenFacts
<1>9. T \subseteq 1..h
  BY Sizes DEF T, LiveEdges
<1>10. Visited(m) \in Seq(1..h)
  <2>1. FlattenSeq(s) \in [1..Len(FlattenSeq(s)) -> 1..h] /\ Len(FlattenSeq(s)) \in Nat
    BY <1>8, <1>9, LenProperties
  <2> QED
    BY <1>3, <2>1, EachIs
<1>11. \A i \in 1..Len(Visited(m)) : Visited(m)[i] \in T
  BY <1>3, <1>8
<1>12. \A q \in 1..p : m.polygons[q].live =>
         \A k \in 1..Len(Loop(m, q)) :
           \E i \in 1..Len(Visited(m)) : Visited(m)[i] = Loop(m, q)[k]
  <2> SUFFICES ASSUME NEW q \in 1..p, m.polygons[q].live, NEW k \in 1..Len(Loop(m, q))
               PROVE  \E i \in 1..Len(FlattenSeq(s)) : FlattenSeq(s)[i] = Loop(m, q)[k]
    BY <1>3
  <2>1. s[q] = Loop(m, q) /\ q \in 1..Len(s)
    BY <1>4, <1>7
  <2> QED
    BY <1>8, <2>1, Zenon
<1> QED
  BY <1>10, <1>11, <1>12 DEF T

(* Connected pairs the visited ones, one after the other. *)
LEMMA ConnectedIs ==
  ASSUME NEW v \in Nat, NEW h \in Nat, NEW p \in Nat, NEW m \in Meshes(v, h, p)
  PROVE  /\ Connected(m) = AllPaired(Unpaired(m), Visited(m))
         /\ Len(Visited(m)) \in Nat /\ DOMAIN Visited(m) = 1..Len(Visited(m))
         /\ \A k \in 1..Len(Visited(m)) : Visited(m)[k] \in 1..h /\ Visited(m)[k] \in LiveEdges(m)
         /\ Connected(m) \in Meshes(v, h, p)
<1> DEFINE q == Visited(m)
           n == Len(q)
           D == Meshes(v, h, p)
           R == (0..n) \X D
           b == Unpaired(m)
<1>1. q \in Seq(1..h) /\ \A k \in 1..n : q[k] \in LiveEdges(m)
  BY VisitedAre
<1>2. n \in Nat /\ DOMAIN q = 1..n /\ \A k \in 1..n : q[k] \in 1..h
  BY <1>1, LenProperties
<1>3. b \in D
  BY UnpairedIs
<1>4. \A r \in D : \A k \in 1..n : Paired(r, q[k]) \in D
  BY <1>2, PairedIs
<1>5. Connected(m) = AllPaired(b, q)
  BY Zenon DEF Connected, Visited, AllPaired
<1> HIDE DEF q, n, D, b
<1>6. PairedKeep(n, q, D, b, R)
  BY <1>2, <1>3, <1>4 DEF PairedKeep
<1>7. <<n, AllPaired(b, q)>> \in R
  BY <1>6, PairedRuns
<1> QED
  BY <1>1, <1>2, <1>5, <1>7 DEF q, n, D, b

(* The parts of a concatenation. *)
IsJoin(a, b, T, s, t) ==
  /\ s \o t \in [1..a+b -> T]
  /\ \A k \in 1..a : (s \o t)[k] = s[k]
  /\ \A k \in 1..b : (s \o t)[a+k] = t[k]

(* A concatenation has the first sequence and then the second. *)
LEMMA JoinIs ==
  ASSUME NEW a \in Nat, NEW b \in Nat, NEW T, NEW s \in [1..a -> T], NEW t \in [1..b -> T]
  PROVE  IsJoin(a, b, T, s, t)
<1>1. s \in Seq(T) /\ t \in Seq(T) /\ Len(s) = a /\ Len(t) = b
  BY EachIs
<1>2. s \o t \in Seq(T) /\ Len(s \o t) = a + b
  BY <1>1, ConcatProperties
<1>3. \A k \in 1..a+b : (s \o t)[k] = IF k <= a THEN s[k] ELSE t[k - a]
  BY <1>1, ConcatProperties
<1>4. s \o t \in [1..a+b -> T]
  BY <1>2, LenProperties
<1>5. \A k \in 1..a : (s \o t)[k] = s[k]
  BY <1>3
<1>6. \A k \in 1..b : (s \o t)[a+k] = t[k]
  <2> TAKE k \in 1..b
  <2>1. a + k \in 1..a+b /\ ~(a + k <= a) /\ (a + k) - a = k
    OBVIOUS
  <2> QED
    BY <1>3, <2>1
<1> QED
  BY <1>4, <1>5, <1>6 DEF IsJoin

(* The parts of a sequence with one more element. *)
IsAppend(a, T, s, e) ==
  /\ Append(s, e) \in [1..a+1 -> T]
  /\ \A k \in 1..a : Append(s, e)[k] = s[k]
  /\ Append(s, e)[a+1] = e

(* Appending keeps what there was and adds one element. *)
LEMMA AppendIs ==
  ASSUME NEW a \in Nat, NEW T, NEW s \in [1..a -> T], NEW e \in T
  PROVE  IsAppend(a, T, s, e)
<1>1. s \in Seq(T) /\ Len(s) = a
  BY EachIs
<1>2. Append(s, e) \in Seq(T) /\ Len(Append(s, e)) = a + 1
  BY <1>1, AppendProperties
<1>3. \A k \in 1..a : Append(s, e)[k] = s[k]
  BY <1>1, AppendProperties
<1>4. Append(s, e)[a+1] = e
  BY <1>1, AppendProperties
<1> QED
  BY <1>2, <1>3, <1>4, LenProperties DEF IsAppend

(* Remainders of numbers less than n, and of those a turn further. *)
LEMMA Modulo ==
  ASSUME NEW n \in Nat, NEW k \in 0..n-1
  PROVE  k % n = k /\ (k + n) % n = k
OBVIOUS

(* The place after k of n in a circle. *)
After(n, k) == IF k = n THEN 1 ELSE k + 1

(* The place before k, around n places. *)
Before(n, k) == IF k = 1 THEN n ELSE k - 1

(* A polygon added around the corners of face, n of them. *)
NewEdge(h, p, face, n, k) ==
  [start |-> face[k], end |-> face[After(n, k)], polygon |-> p + 1, pair |-> 0,
   prev |-> h + Before(n, k), next |-> h + After(n, k), live |-> TRUE]

(* addPolygon's half edges that touch vertex u. *)
NewAt(h, face, n, u) == {h + k : k \in {k \in 1..n : u \in {face[k], face[After(n, k)]}}}

(* r is m with a polygon of the n vertices of face. *)
IsWithPolygon(v, h, p, m, face, n, r) ==
  /\ \A x \in 1..h : r.halfEdges[x] = m.halfEdges[x]
  /\ \A k \in 1..n : r.halfEdges[h + k] = NewEdge(h, p, face, n, k)
  /\ \A u \in 1..v :
       r.vertices[u] = [m.vertices[u] EXCEPT !.halfEdges = @ \cup NewAt(h, face, n, u)]
  /\ r.ring = m.ring
  /\ \A q \in 1..p : r.polygons[q] = m.polygons[q]
  /\ r.polygons[p+1] = [any |-> IF n = 0 THEN 0 ELSE h + 1, live |-> TRUE]

(* addPolygon appends its half edges and its polygon, and notes them at its
   vertices. *)
LEMMA WithPolygonIs ==
  ASSUME NEW v \in Nat, NEW h \in Nat, NEW p \in Nat, NEW m \in Meshes(v, h, p),
         NEW n \in Nat, NEW face \in [1..n -> 1..v], \A k \in 1..n : m.vertices[face[k]].live
  PROVE  /\ WithPolygon(m, face) \in Meshes(v, h + n, p + 1)
         /\ IsWithPolygon(v, h, p, m, face, n, WithPolygon(m, face))
<1> DEFINE N == Len(face)
           first == Len(m.halfEdges) + 1
           Corner(k) == face[((k - 1) % N) + 1]
           refused == {k \in 1..N : ~Live(m.vertices, Corner(k)) \/ ~Live(m.vertices, Corner(k+1))}
           last == Min({j - 1 : j \in refused} \cup {N})
           Edge(k) == [start |-> Corner(k), end |-> Corner(k + 1),
                       polygon |-> Len(m.polygons) + 1, pair |-> Invalid,
                       prev |-> first + ((k + N - 2) % N), next |-> first + (k % N),
                       live |-> TRUE]
           added == [k \in 1..last |-> Edge(k)]
           Noted(u) == {first + k - 1 : k \in NotedAt(m, added, u)}
           notes == [u \in DOMAIN m.vertices |->
                       [m.vertices[u] EXCEPT !.halfEdges = @ \cup Noted(u)]]
           made == [any |-> IF N = 0 THEN Invalid ELSE first, live |-> TRUE]
<1>1. WithPolygon(m, face) =
        [m EXCEPT !.polygons = Append(m.polygons, made), !.halfEdges = m.halfEdges \o added,
                  !.vertices = SubSeq(notes, 1, Len(m.vertices))]
  BY Zenon DEF WithPolygon, Each
<1>2. /\ DOMAIN m.vertices = 1..v /\ Len(m.vertices) = v
      /\ Len(m.halfEdges) = h /\ Len(m.polygons) = p /\ N = n
  BY Sizes, EachIs
<1>3. \A k \in 1..n : /\ Corner(k) = face[k] /\ Corner(k+1) = face[After(n, k)]
                      /\ first + ((k + N - 2) % N) = h + Before(n, k)
                      /\ first + (k % N) = h + After(n, k)
  <2> SUFFICES ASSUME NEW k \in 1..n
               PROVE  /\ Corner(k) = face[k] /\ Corner(k+1) = face[After(n, k)]
                      /\ first + ((k + N - 2) % N) = h + Before(n, k)
                      /\ first + (k % N) = h + After(n, k)
    OBVIOUS
  <2>1. (k - 1) % n = k - 1
    <3>1. k - 1 \in 0..n-1
      OBVIOUS
    <3> QED
      BY <3>1, Modulo
  <2>2. (k % n) + 1 = After(n, k)
    BY Cyclic DEF After
  <2>3. (k + n - 2) % n = Before(n, k) - 1
    <3>1. CASE k = 1
      <4>1. k + n - 2 = n - 1 /\ n - 1 \in 0..n-1
        BY <3>1
      <4>2. (n - 1) % n = n - 1
        BY <4>1, Modulo
      <4> QED
        BY <3>1, <4>1, <4>2 DEF Before
    <3>2. CASE k # 1
      <4>1. k + n - 2 = (k - 2) + n /\ k - 2 \in 0..n-1
        BY <3>2
      <4>2. ((k - 2) + n) % n = k - 2
        BY <4>1, Modulo
      <4> QED
        BY <3>2, <4>1, <4>2 DEF Before
    <3> QED
      BY <3>1, <3>2
  <2>4. (k - 1) + 1 = k /\ (k + 1) - 1 = k
    OBVIOUS
  <2>5. Corner(k) = face[k] /\ Corner(k+1) = face[After(n, k)]
    BY <1>2, <2>1, <2>2, <2>4
  <2>6. After(n, k) \in 1..n /\ Before(n, k) \in 1..n
    BY DEF After, Before
  <2>7. first + ((k + n - 2) % n) = h + Before(n, k) /\ first + (k % n) = h + After(n, k)
    <3>1. k % n = After(n, k) - 1
      <4>1. k % n \in Int
        OBVIOUS
      <4> QED
        BY <2>2, <2>6, <4>1
    <3> QED
      BY <1>2, <2>3, <2>6, <3>1
  <2> QED
    BY <1>2, <2>5, <2>7
<1>4. \A k \in 1..n : After(n, k) \in 1..n /\ Before(n, k) \in 1..n
  BY DEF After, Before
<1> HIDE DEF Corner, first, N
<1>5. refused = {}
  <2>1. ASSUME NEW k \in 1..n PROVE Live(m.vertices, face[k])
    BY <1>2 DEF Live
  <2> QED
    BY <1>2, <1>3, <1>4, <2>1
<1>6. last = n
  <2>1. {j - 1 : j \in refused} \cup {N} = {n}
    BY <1>2, <1>5
  <2> HIDE DEF refused
  <2>2. last = Min({n})
    BY <2>1
  <2> QED
    BY <2>2, MinIsLeast
<1> HIDE DEF last
<1>7. \A k \in 1..n : Edge(k) = NewEdge(h, p, face, n, k)
  BY <1>2, <1>3 DEF NewEdge, Invalid
<1> HIDE DEF Edge
<1>8. added = [k \in 1..n |-> NewEdge(h, p, face, n, k)]
  BY <1>6, <1>7
<1> HIDE DEF added
<1>9. \A k \in 1..n : NewEdge(h, p, face, n, k) \in HalfEdgeOf(v, h + n, p + 1)
  <2> SUFFICES ASSUME NEW k \in 1..n
               PROVE  NewEdge(h, p, face, n, k) \in HalfEdgeOf(v, h + n, p + 1)
    OBVIOUS
  <2>1. After(n, k) \in 1..n /\ Before(n, k) \in 1..n
    BY <1>4
  <2>2. face[k] \in 0..v /\ face[After(n, k)] \in 0..v
    BY <2>1
  <2>3. h + Before(n, k) \in 0..h+n /\ h + After(n, k) \in 0..h+n /\ p + 1 \in 0..p+1 /\ 0 \in 0..h+n
    BY <2>1
  <2> QED
    BY <2>2, <2>3 DEF NewEdge, HalfEdgeOf
<1>10. \A u : Noted(u) = NewAt(h, face, n, u)
  <2> TAKE u
  <2>1. NotedAt(m, added, u) = {k \in 1..n : u \in {face[k], face[After(n, k)]}}
    <3>1. DOMAIN added = 1..n
      BY <1>8
    <3>2. \A k \in 1..n : added[k].start = face[k] /\ added[k].end = face[After(n, k)]
      BY <1>8 DEF NewEdge
    <3> QED
      BY <3>1, <3>2 DEF NotedAt
  <2>2. \A k \in 1..n : first + k - 1 = h + k
    BY <1>2 DEF first
  <2>3. \A y : y \in Noted(u) <=> y \in NewAt(h, face, n, u)
    <3> DEFINE K == {k \in 1..n : u \in {face[k], face[After(n, k)]}}
    <3>1. Noted(u) = {first + k - 1 : k \in K}
      BY <2>1
    <3>2. NewAt(h, face, n, u) = {h + k : k \in K}
      BY DEF NewAt
    <3>3. \A k \in K : first + k - 1 = h + k
      BY <2>2
    <3> HIDE DEF K, Noted
    <3> QED
      BY <3>1, <3>2, <3>3
  <2> HIDE DEF Noted
  <2> QED
    BY <2>3
<1> HIDE DEF Noted
<1>11. \A u \in 1..v : NewAt(h, face, n, u) \subseteq 1..h+n
  BY DEF NewAt
<1>12. /\ m.vertices \in [1..v -> VertexOf(h)] /\ m.ring \in [1..v -> 0..v]
       /\ m.halfEdges \in [1..h -> HalfEdgeOf(v, h + n, p + 1)]
       /\ m.polygons \in [1..p -> PolygonOf(h + n)]
  <2>1. /\ m.vertices \in [1..v -> VertexOf(h)] /\ m.ring \in [1..v -> 0..v]
        /\ m.halfEdges \in [1..h -> HalfEdgeOf(v, h, p)] /\ m.polygons \in [1..p -> PolygonOf(h)]
    BY Fields
  <2>2. 0..h \subseteq 0..h+n /\ 0..p \subseteq 0..p+1
    OBVIOUS
  <2>3. HalfEdgeOf(v, h, p) \subseteq HalfEdgeOf(v, h + n, p + 1)
    BY <2>2 DEF HalfEdgeOf
  <2>4. PolygonOf(h) \subseteq PolygonOf(h + n)
    BY <2>2 DEF PolygonOf
  <2> QED
    BY <2>1, <2>3, <2>4
<1>13. notes = [u \in 1..v |-> [m.vertices[u] EXCEPT !.halfEdges = @ \cup NewAt(h, face, n, u)]]
  BY <1>2, <1>10, Zenon
<1> HIDE DEF notes
<1>14. notes \in [1..v -> VertexOf(h + n)]
  <2>1. ASSUME NEW u \in 1..v
        PROVE  [m.vertices[u] EXCEPT !.halfEdges = @ \cup NewAt(h, face, n, u)] \in VertexOf(h + n)
    <3>1. m.vertices[u] \in VertexOf(h) /\ NewAt(h, face, n, u) \subseteq 1..h+n
      BY <1>11, <1>12
    <3> QED
      BY <3>1 DEF VertexOf
  <2> QED
    BY <1>13, <2>1, Zenon
<1>15. SubSeq(notes, 1, Len(m.vertices)) = notes
  BY <1>2, <1>14, EachIs
<1>16. /\ m.halfEdges \o added \in [1..h+n -> HalfEdgeOf(v, h + n, p + 1)]
       /\ \A x \in 1..h : (m.halfEdges \o added)[x] = m.halfEdges[x]
       /\ \A k \in 1..n : (m.halfEdges \o added)[h + k] = NewEdge(h, p, face, n, k)
  <2>1. added \in [1..n -> HalfEdgeOf(v, h + n, p + 1)]
    BY <1>8, <1>9
  <2>2. \A k \in 1..n : added[k] = NewEdge(h, p, face, n, k)
    BY <1>8
  <2> DEFINE T == HalfEdgeOf(v, h + n, p + 1)
  <2>3. m.halfEdges \in [1..h -> T] /\ added \in [1..n -> T]
    BY <1>12, <2>1
  <2> HIDE DEF T
  <2>4. IsJoin(h, n, T, m.halfEdges, added)
    BY <2>3, JoinIs
  <2> QED
    BY <2>2, <2>4 DEF IsJoin, T
<1>17. made = [any |-> IF n = 0 THEN 0 ELSE h + 1, live |-> TRUE]
  BY <1>2 DEF first, Invalid
<1> HIDE DEF made
<1>18. /\ Append(m.polygons, made) \in [1..p+1 -> PolygonOf(h + n)]
       /\ \A q \in 1..p : Append(m.polygons, made)[q] = m.polygons[q]
       /\ Append(m.polygons, made)[p+1] = made
  <2>1. made \in PolygonOf(h + n)
    BY <1>17 DEF PolygonOf
  <2> DEFINE T == PolygonOf(h + n)
  <2>2. m.polygons \in [1..p -> T] /\ made \in T
    BY <1>12, <2>1
  <2> HIDE DEF T
  <2>3. IsAppend(p, T, m.polygons, made)
    BY <2>2, AppendIs
  <2> QED
    BY <2>3 DEF IsAppend, T
<1> DEFINE r == [m EXCEPT !.polygons = Append(m.polygons, made), !.halfEdges = m.halfEdges \o added,
                          !.vertices = notes]
<1>19. WithPolygon(m, face) = r
  BY <1>1, <1>15
<1>20. /\ r.polygons = Append(m.polygons, made) /\ r.halfEdges = m.halfEdges \o added
       /\ r.vertices = notes /\ r.ring = m.ring
  BY DEF Meshes
<1>21. r \in Meshes(v, h + n, p + 1)
  BY <1>12, <1>14, <1>16, <1>18 DEF Meshes
<1> HIDE DEF r
<1>22. IsWithPolygon(v, h, p, m, face, n, r)
  <2>1. \A u \in 1..v :
          r.vertices[u] = [m.vertices[u] EXCEPT !.halfEdges = @ \cup NewAt(h, face, n, u)]
    BY <1>13, <1>20, Zenon
  <2>2. /\ \A x \in 1..h : r.halfEdges[x] = m.halfEdges[x]
        /\ \A k \in 1..n : r.halfEdges[h + k] = NewEdge(h, p, face, n, k)
    BY <1>16, <1>20, Zenon
  <2>3. /\ \A q \in 1..p : r.polygons[q] = m.polygons[q]
        /\ r.polygons[p+1] = [any |-> IF n = 0 THEN 0 ELSE h + 1, live |-> TRUE]
    BY <1>17, <1>18, <1>20, Zenon
  <2> QED
    BY <1>20, <2>1, <2>2, <2>3, Zenon DEF IsWithPolygon
<1> QED
  BY <1>19, <1>21, <1>22

(* The corners of a polygon are vertices that are not deleted. *)
LEMMA CornersAre ==
  ASSUME NEW v \in Nat, NEW h \in Nat, NEW p \in Nat, NEW m \in Meshes(v, h, p), NEW q \in 1..p
  PROVE  \E c \in Nat : Corners(m, q) \in [1..c -> LiveVertices(m)]
<1> DEFINE loop == Loop(m, q)
           starts == Starts(m, q)
           K == {k \in DOMAIN starts : Live(m.vertices, starts[k])}
           valid == Ascending(K)
           start == [k \in DOMAIN loop |-> m.halfEdges[loop[k]].start]
<1>1. PICK n \in 0..h : loop \in [1..n -> LiveEdges(m)] /\ Len(loop) = n
  <2>1. PICK n \in 0..h : IsLoop(h, m, q, n, Loop(m, q))
    BY LoopFacts
  <2> QED
    BY <2>1 DEF IsLoop
<1>2. DOMAIN loop = 1..n
  BY <1>1
<1>3. start \in [1..n -> 0..v]
  <2>1. \A g \in LiveEdges(m) : m.halfEdges[g].start \in 0..v
    BY Sizes, Fields DEF LiveEdges
  <2> QED
    BY <1>1, <1>2, <2>1
<1>4. starts = SubSeq(start, 1, Len(loop))
  BY Zenon DEF Starts, Each
<1> HIDE DEF loop, start
<1>5. starts = start
  BY <1>1, <1>3, <1>4, EachIs
<1> HIDE DEF starts
<1>6. K \in SUBSET (1..n)
  BY <1>3, <1>5
<1>7. \A k \in K : starts[k] \in LiveVertices(m)
  BY Sizes DEF Live, LiveVertices
<1> HIDE DEF K
<1>8. Cardinality(K) \in Nat /\ valid \in [1..Cardinality(K) -> K]
  BY <1>6, AscendingFacts
<1>9. Corners(m, q) = [j \in DOMAIN valid |-> starts[valid[j]]]
  BY Zenon DEF Corners, starts, K
<1> HIDE DEF valid
<1>10. Corners(m, q) \in [1..Cardinality(K) -> LiveVertices(m)]
  BY <1>7, <1>8, <1>9
<1> QED
  BY <1>8, <1>10

-----------------------------------------------------------------------------
(* Where the vertices go that are not deleted *)

(* newToOld: the live vertices in ascending order. *)
OldOf(m) == Ascending({u \in DOMAIN m.vertices : Live(m.vertices, u)})

(* The vertices that cleanAndRepack keeps, before any face is added. *)
Moved(m) ==
  [vertices |-> [k \in DOMAIN OldOf(m) |-> [m.vertices[OldOf(m)[k]] EXCEPT !.halfEdges = {}]],
   ring |-> [k \in DOMAIN OldOf(m) |-> NewIndex(OldOf(m), m.ring[OldOf(m)[k]])],
   halfEdges |-> <<>>, polygons |-> <<>>]

(* A is a list of the c vertices, in ascending order. *)
IsList(m, c, A) ==
  /\ c \in Nat /\ A \in [1..c -> LiveVertices(m)]
  /\ \A j, k \in 1..c : j < k => A[j] < A[k]
  /\ \A u \in LiveVertices(m) : \E k \in 1..c : A[k] = u
  /\ \A u \in Nat : NewIndex(A, u) \in 0..c
  /\ \A k \in 1..c : NewIndex(A, A[k]) = k

(* newToOld lists the live vertices, each once and in ascending order. *)
LEMMA OldOfIs ==
  ASSUME NEW v \in Nat, NEW h \in Nat, NEW p \in Nat, NEW m \in Meshes(v, h, p)
  PROVE  \E c \in 0..v : IsList(m, c, OldOf(m))
<1> DEFINE L == LiveVertices(m)
           c == Cardinality(L)
           A == OldOf(m)
<1>1. {u \in DOMAIN m.vertices : Live(m.vertices, u)} = L
  BY Sizes DEF Live, LiveVertices
<1>2. L \in SUBSET (1..v)
  BY Sizes DEF LiveVertices
<1>3. A = Ascending(L)
  BY <1>1, Zenon DEF OldOf
<1> HIDE DEF L, A
<1>4. /\ c \in 0..v /\ A \in [1..c -> L]
      /\ \A j, k \in 1..c : j < k => A[j] < A[k]
      /\ \A i \in L : \E k \in 1..c : A[k] = i
  BY <1>2, <1>3, AscendingFacts
<1> HIDE DEF c
<1>5. IsFiniteSet(1..c) /\ Cardinality(1..c) = c
  BY <1>4, FS_Interval
<1>6. \A k \in 1..c : A[k] \in Nat
  <2>1. \A u \in L : u \in Nat
    BY <1>2
  <2> QED
    BY <1>4, <2>1
<1>7. ASSUME NEW u \in Nat PROVE NewIndex(A, u) \in 0..c
  <2> DEFINE S == {k \in DOMAIN A : A[k] <= u}
  <2>1. S \subseteq 1..c
    BY <1>4
  <2> HIDE DEF S
  <2>2. IsFiniteSet(S) /\ Cardinality(S) <= c
    BY <1>5, <2>1, FS_Subset
  <2>3. Cardinality(S) \in Nat
    BY <2>2, FS_CardinalityType
  <2>4. NewIndex(A, u) = Cardinality(S)
    BY Zenon DEF NewIndex, S
  <2> QED
    BY <1>4, <2>2, <2>3, <2>4
<1>8. ASSUME NEW k \in 1..c PROVE NewIndex(A, A[k]) = k
  <2> DEFINE S == {j \in DOMAIN A : A[j] <= A[k]}
  <2>1. \A j \in 1..c : A[j] <= A[k] <=> j <= k
    <3> TAKE j \in 1..c
    <3>1. j < k \/ j = k \/ k < j
      BY <1>4
    <3>2. A[j] \in Nat /\ A[k] \in Nat /\ j \in Nat /\ k \in Nat
      BY <1>4, <1>6
    <3>3. (j < k => A[j] < A[k]) /\ (k < j => A[k] < A[j])
      BY <1>4
    <3> QED
      BY <3>1, <3>2, <3>3
  <2>2. S = 1..k
    <3>1. \A j : j \in S <=> j \in 1..k
      BY <1>4, <2>1
    <3> HIDE DEF S
    <3> QED
      BY <3>1
  <2>3. Cardinality(1..k) = k
    <3>1. k \in Nat
      BY <1>4
    <3> QED
      BY <3>1, FS_Interval
  <2>4. NewIndex(A, A[k]) = Cardinality(S)
    BY Zenon DEF NewIndex
  <2> QED
    BY <2>2, <2>3, <2>4
<1>9. IsList(m, c, A)
  <2>1. c \in Nat
    BY <1>4
  <2> QED
    BY <1>4, <1>7, <1>8, <2>1, Zenon DEF IsList, L
<1> QED
  BY <1>4, <1>9 DEF A

(* So there is a mesh of just them, all alone. *)
IsMoved(m, c, A, r) ==
  /\ \A k \in 1..c : /\ r.vertices[k] = [m.vertices[A[k]] EXCEPT !.halfEdges = {}]
                     /\ r.ring[k] = NewIndex(A, m.ring[A[k]])

(* The kept vertices are a mesh without half edges, as IsMoved says. *)
LEMMA MovedIs ==
  ASSUME NEW v \in Nat, NEW h \in Nat, NEW p \in Nat, NEW m \in Meshes(v, h, p),
         NEW c \in 0..v, IsList(m, c, OldOf(m))
  PROVE  Moved(m) \in Meshes(c, 0, 0) /\ IsMoved(m, c, OldOf(m), Moved(m))
<1> DEFINE A == OldOf(m)
<1>1. /\ A \in [1..c -> LiveVertices(m)] /\ DOMAIN A = 1..c
      /\ \A u \in Nat : NewIndex(A, u) \in 0..c
  BY DEF IsList
<1> HIDE DEF A
<1>2. \A k \in 1..c : A[k] \in 1..v
  BY <1>1, LiveAre
<1>3. \A k \in 1..c : [m.vertices[A[k]] EXCEPT !.halfEdges = {}] \in VertexOf(0)
  <2> TAKE k \in 1..c
  <2>1. m.vertices[A[k]] \in VertexOf(h)
    BY <1>2, Fields
  <2> QED
    BY <2>1 DEF VertexOf
<1>4. \A k \in 1..c : NewIndex(A, m.ring[A[k]]) \in 0..c
  <2> TAKE k \in 1..c
  <2>1. m.ring[A[k]] \in 0..v
    BY <1>2, VertexFields
  <2>2. m.ring[A[k]] \in Nat
    BY <2>1
  <2> QED
    BY <1>1, <2>2
<1>5. \A T : <<>> \in [1..0 -> T]
  OBVIOUS
<1> DEFINE verts == [k \in DOMAIN A |-> [m.vertices[A[k]] EXCEPT !.halfEdges = {}]]
           rings == [k \in DOMAIN A |-> NewIndex(A, m.ring[A[k]])]
<1>6. verts \in [1..c -> VertexOf(0)] /\ rings \in [1..c -> 0..c]
  BY <1>1, <1>3, <1>4
<1>7. \A k \in 1..c : /\ verts[k] = [m.vertices[A[k]] EXCEPT !.halfEdges = {}]
                      /\ rings[k] = NewIndex(A, m.ring[A[k]])
  BY <1>1
<1>8. Moved(m) = [vertices |-> verts, ring |-> rings, halfEdges |-> <<>>, polygons |-> <<>>]
  BY Zenon DEF Moved, A
<1> HIDE DEF verts, rings
<1>9. Moved(m) \in Meshes(c, 0, 0)
  BY <1>5, <1>6, <1>8 DEF Meshes
<1>10. Moved(m).vertices = verts /\ Moved(m).ring = rings
  BY <1>8
<1> QED
  BY <1>7, <1>9, <1>10 DEF IsMoved, A

-----------------------------------------------------------------------------
(* Polygons are made again *)

(* None of the c vertices of r was deleted. *)
AllLive(c, r) == \A u \in 1..c : r.vertices[u].live

(* K holds of what repacking begins with and with each polygon made. *)
FacesKept(m, c, K) ==
  /\ Moved(m) \in K
  /\ \A a \in Nat, b \in Nat, n \in Nat \ {0} : \A r \in Meshes(c, a, b), face \in [1..n -> 1..c] :
       r \in K /\ AllLive(c, r) => WithPolygon(r, face) \in K

(* Nothing of the mesh was deleted: cleanAndRepack returns at once. *)
HasAll(m) ==
  /\ \A u \in DOMAIN m.vertices : m.vertices[u].live
  /\ \A q \in DOMAIN m.polygons : m.polygons[q].live

(* What holds of the kept vertices and every added face keeps, holds after
   cleanAndRepack. *)
LEMMA RepackedKeeps ==
  ASSUME NEW v \in Nat, NEW h \in Nat, NEW p \in Nat, NEW m \in Meshes(v, h, p), ~HasAll(m),
         NEW c \in 0..v, IsList(m, c, OldOf(m)), NEW K, FacesKept(m, c, K)
  PROVE  Repacked(m) \in K /\ \E a, b \in Nat : Repacked(m) \in Meshes(c, a, b) /\ AllLive(c, Repacked(m))
<1> DEFINE A == OldOf(m)
           Face(q) == Each(Corners(m, q), LAMBDA k, u : NewIndex(A, u))
           faces == [q \in DOMAIN m.polygons |-> Face(q)]
           D == {r \in K : \E a, b \in Nat : r \in Meshes(c, a, b) /\ AllLive(c, r)}
           R == (0..p) \X D
<1>1. Repacked(m) = AllFaces(Moved(m), faces)
  BY Zenon DEF Repacked, HasAll, AllFaces, Moved, OldOf
<1>2. DOMAIN m.polygons = 1..p
  BY Sizes
<1>3. Moved(m) \in Meshes(c, 0, 0) /\ IsMoved(m, c, A, Moved(m))
  BY MovedIs
<1>4. /\ A \in [1..c -> LiveVertices(m)] /\ c \in Nat
      /\ \A u \in LiveVertices(m) : \E k \in 1..c : A[k] = u
      /\ \A k \in 1..c : NewIndex(A, A[k]) = k
  BY DEF IsList
<1> HIDE DEF A
<1>5. AllLive(c, Moved(m))
  <2> SUFFICES ASSUME NEW k \in 1..c PROVE Moved(m).vertices[k].live
    BY DEF AllLive
  <2>1. A[k] \in 1..v /\ m.vertices[A[k]].live
    BY <1>4, Sizes DEF LiveVertices
  <2>2. m.vertices[A[k]] \in VertexOf(h)
    BY <2>1, Fields
  <2> QED
    BY <1>3, <2>1, <2>2 DEF IsMoved, VertexOf
<1>6. Moved(m) \in D
  <2>1. 0 \in Nat
    OBVIOUS
  <2> QED
    BY <1>3, <1>5, <2>1 DEF FacesKept
<1>7. \A q \in 1..p : \E n \in Nat : Face(q) \in [1..n -> 1..c]
  <2> TAKE q \in 1..p
  <2>1. PICK n \in Nat : Corners(m, q) \in [1..n -> LiveVertices(m)]
    BY CornersAre
  <2> DEFINE new == [k \in DOMAIN Corners(m, q) |-> NewIndex(A, Corners(m, q)[k])]
  <2>2. Face(q) = SubSeq(new, 1, Len(Corners(m, q)))
    BY Zenon DEF Each
  <2>3. new \in [1..n -> 1..c]
    BY <1>4, <2>1
  <2> HIDE DEF new
  <2>4. Len(Corners(m, q)) = n
    BY <2>1, EachIs
  <2>5. Face(q) = new
    BY <2>2, <2>3, <2>4, EachIs
  <2> QED
    BY <2>3, <2>5
<1>8. DOMAIN faces = 1..p /\ \A q \in 1..p : \E n \in Nat : faces[q] \in [1..n -> 1..c]
  BY <1>2, <1>7
<1> HIDE DEF faces
<1>9. ASSUME NEW k \in 1..p, NEW r \in D PROVE WithFace(r, faces[k]) \in D
  <2>1. PICK n \in Nat : faces[k] \in [1..n -> 1..c]
    BY <1>8
  <2>2. PICK a \in Nat, b \in Nat : r \in Meshes(c, a, b) /\ AllLive(c, r)
    OBVIOUS
  <2>3. CASE faces[k] = <<>>
    BY <2>3 DEF WithFace
  <2>4. CASE faces[k] # <<>>
    <3>1. n # 0
      BY <2>1, <2>4
    <3>2. WithFace(r, faces[k]) = WithPolygon(r, faces[k])
      BY <2>4 DEF WithFace
    <3>3. WithPolygon(r, faces[k]) \in K
      BY <2>1, <2>2, <3>1 DEF FacesKept
    <3>4. /\ WithPolygon(r, faces[k]) \in Meshes(c, a + n, b + 1)
          /\ IsWithPolygon(c, a, b, r, faces[k], n, WithPolygon(r, faces[k]))
      <4>1. \A j \in 1..n : r.vertices[faces[k][j]].live
        BY <2>1, <2>2 DEF AllLive
      <4> QED
        BY <1>4, <2>1, <2>2, <4>1, WithPolygonIs
    <3>5. AllLive(c, WithPolygon(r, faces[k]))
      <4> SUFFICES ASSUME NEW u \in 1..c PROVE WithPolygon(r, faces[k]).vertices[u].live
        BY DEF AllLive
      <4>1. WithPolygon(r, faces[k]).vertices[u] =
              [r.vertices[u] EXCEPT !.halfEdges = @ \cup NewAt(a, faces[k], n, u)]
        BY <3>4 DEF IsWithPolygon
      <4>2. r.vertices[u] \in VertexOf(a) /\ r.vertices[u].live
        <5>1. r.vertices[u] \in VertexOf(a)
          BY <1>4, <2>2, VertexFields, Zenon
        <5> QED
          BY <2>2, <5>1, Zenon DEF AllLive
      <4> QED
        BY <4>1, <4>2 DEF VertexOf
    <3>6. a + n \in Nat /\ b + 1 \in Nat
      OBVIOUS
    <3> QED
      BY <3>2, <3>3, <3>4, <3>5, <3>6
  <2> QED
    BY <2>3, <2>4
<1> HIDE DEF D
<1>10. FacesKeep(p, faces, D, Moved(m), R)
  BY <1>6, <1>8, <1>9 DEF FacesKeep
<1>11. <<p, AllFaces(Moved(m), faces)>> \in R
  BY <1>10, WithFaceRuns
<1>12. Repacked(m) \in D
  BY <1>1, <1>11
<1> QED
  BY <1>12 DEF D

(* A half edge x removed: the ones before and after it are each other's.         *)
EndLeft(m, x) ==
  IF m.halfEdges[x].prev = x THEN m.halfEdges[x].start ELSE m.halfEdges[x].end
(* The start of x when HalfEdges::remove has linked x's neighbours to each
   other. *)
StartLeft(m, x) == IF m.halfEdges[x].next = x THEN EndLeft(m, x) ELSE m.halfEdges[x].start

(* Half edge y after the removal of x. *)
EdgeLeft(m, x, y) ==
  LET e == m.halfEdges[x]
  IN IF y = x
     THEN [m.halfEdges[y] EXCEPT !.prev = 0, !.next = 0, !.pair = 0, !.polygon = 0, !.live = FALSE,
                                 !.start = StartLeft(m, x), !.end = EndLeft(m, x)]
     ELSE [m.halfEdges[y] EXCEPT !.end = IF y = e.prev THEN e.start ELSE @,
                                 !.start = IF y = e.next THEN e.end ELSE @,
                                 !.next = IF y = e.prev THEN e.next ELSE @,
                                 !.prev = IF y = e.next THEN e.prev ELSE @,
                                 !.pair = IF y = e.pair THEN 0 ELSE @]

(* Vertex u after the removal of x. *)
VertexLeft(m, x, u) ==
  IF m.vertices[u].live /\ u \in {StartLeft(m, x), EndLeft(m, x)}
  THEN [m.vertices[u] EXCEPT !.halfEdges = @ \ {x}] ELSE m.vertices[u]

(* Polygon q after the removal of x. *)
PolygonLeft(m, x, q) ==
  LET e == m.halfEdges[x]
  IN IF q # e.polygon THEN m.polygons[q]
     ELSE [any |-> IF e.next \in {0, x} THEN 0 ELSE e.next,
           live |-> m.polygons[q].live /\ ~(e.next \in {0, x})]

(* r is m without half edge x. *)
IsWithout(v, h, p, m, x, r) ==
  /\ \A y \in 1..h : r.halfEdges[y] = EdgeLeft(m, x, y)
  /\ \A u \in 1..v : r.vertices[u] = VertexLeft(m, x, u)
  /\ \A q \in 1..p : r.polygons[q] = PolygonLeft(m, x, q)
  /\ r.ring = m.ring

(* WithoutHalfEdge changes exactly what the three operators above say. *)
LEMMA WithoutIs ==
  ASSUME NEW v \in Nat, NEW h \in Nat, NEW p \in Nat, NEW m \in Meshes(v, h, p), NEW x \in 1..h,
         m.halfEdges[x].live
  PROVE  /\ WithoutHalfEdge(m, x) \in Meshes(v, h, p)
         /\ IsWithout(v, h, p, m, x, WithoutHalfEdge(m, x))
<1> DEFINE halves == [y \in DOMAIN m.halfEdges |-> EdgeLeft(m, x, y)]
           verts == [u \in DOMAIN m.vertices |-> VertexLeft(m, x, u)]
           polys == [q \in DOMAIN m.polygons |-> PolygonLeft(m, x, q)]
<1>1. /\ DOMAIN m.vertices = 1..v /\ Len(m.vertices) = v
      /\ DOMAIN m.halfEdges = 1..h /\ Len(m.halfEdges) = h
      /\ DOMAIN m.polygons = 1..p /\ Len(m.polygons) = p
  BY Sizes
<1>2. Live(m.halfEdges, x)
  BY <1>1 DEF Live
<1>3. WithoutHalfEdge(m, x) =
        [m EXCEPT !.polygons = SubSeq(polys, 1, Len(m.polygons)),
                  !.halfEdges = SubSeq(halves, 1, Len(m.halfEdges)),
                  !.vertices = SubSeq(verts, 1, Len(m.vertices))]
  BY <1>2, Zenon DEF WithoutHalfEdge, Each, PolygonLeft, EdgeLeft, VertexLeft, StartLeft, EndLeft,
     Invalid
<1>4. /\ m.halfEdges[x].start \in 0..v /\ m.halfEdges[x].end \in 0..v
      /\ m.halfEdges[x].prev \in 0..h /\ m.halfEdges[x].next \in 0..h
  BY EdgeFields
<1>5. StartLeft(m, x) \in 0..v /\ EndLeft(m, x) \in 0..v
  BY <1>4 DEF StartLeft, EndLeft
<1>6. ASSUME NEW y \in 1..h PROVE EdgeLeft(m, x, y) \in HalfEdgeOf(v, h, p)
  <2>1. m.halfEdges[y] \in HalfEdgeOf(v, h, p)
    BY EdgeFields
  <2>2. 0 \in 0..h /\ 0 \in 0..p
    OBVIOUS
  <2>3. CASE y = x
    BY <1>5, <2>1, <2>2, <2>3 DEF HalfEdgeOf, EdgeLeft
  <2>4. CASE y # x
    BY <1>4, <2>1, <2>2, <2>4 DEF HalfEdgeOf, EdgeLeft
  <2> QED
    BY <2>3, <2>4
<1>7. ASSUME NEW u \in 1..v PROVE VertexLeft(m, x, u) \in VertexOf(h)
  <2>1. m.vertices[u] \in VertexOf(h)
    BY VertexFields
  <2> QED
    BY <2>1 DEF VertexOf, VertexLeft
<1>8. ASSUME NEW q \in 1..p PROVE PolygonLeft(m, x, q) \in PolygonOf(h)
  <2>1. m.polygons[q] \in PolygonOf(h) /\ m.polygons[q].live \in BOOLEAN
    BY PolygonFields
  <2> QED
    BY <1>4, <2>1 DEF PolygonOf, PolygonLeft
<1>9. halves \in [1..h -> HalfEdgeOf(v, h, p)]
  BY <1>1, <1>6
<1>10. verts \in [1..v -> VertexOf(h)]
  BY <1>1, <1>7
<1>11. polys \in [1..p -> PolygonOf(h)]
  BY <1>1, <1>8
<1>12. /\ \A y \in 1..h : halves[y] = EdgeLeft(m, x, y)
       /\ \A u \in 1..v : verts[u] = VertexLeft(m, x, u)
       /\ \A q \in 1..p : polys[q] = PolygonLeft(m, x, q)
  BY <1>1
<1> HIDE DEF halves, verts, polys
<1>13. /\ SubSeq(polys, 1, Len(m.polygons)) = polys
       /\ SubSeq(halves, 1, Len(m.halfEdges)) = halves
       /\ SubSeq(verts, 1, Len(m.vertices)) = verts
  BY <1>1, <1>9, <1>10, <1>11, EachIs
<1> DEFINE r == [m EXCEPT !.polygons = polys, !.halfEdges = halves, !.vertices = verts]
<1>14. r \in Meshes(v, h, p)
  BY <1>9, <1>10, <1>11 DEF Meshes
<1>15. r.polygons = polys /\ r.halfEdges = halves /\ r.vertices = verts /\ r.ring = m.ring
  BY DEF Meshes
<1>16. WithoutHalfEdge(m, x) = r
  BY <1>3, <1>13
<1> HIDE DEF r
<1>17. IsWithout(v, h, p, m, x, r)
  BY <1>12, <1>15 DEF IsWithout
<1> QED
  BY <1>14, <1>16, <1>17

(* One that is deleted stays as it is. *)
LEMMA WithoutDead ==
  ASSUME NEW v \in Nat, NEW h \in Nat, NEW p \in Nat, NEW m \in Meshes(v, h, p), NEW x \in 1..h,
         ~m.halfEdges[x].live
  PROVE  WithoutHalfEdge(m, x) = m
BY Zenon DEF WithoutHalfEdge, Live

-----------------------------------------------------------------------------
(* Point reps *)

(* The point reps of v vertices. *)
Reps(v) == [1..v -> 0..v]

(* The vertices before k in order that v is like. *)
LikeBefore(m, order, k) ==
  {j \in 1..k-1 : /\ m.vertices[order[j]].live
                  /\ m.vertices[order[j]].position = m.vertices[order[k]].position}

(* r is reps with the k-th vertex of the order linked into the ring of an
   earlier one like it. *)
IsLinked(m, order, k, reps, r) ==
  \/ /\ r = reps
     /\ ~m.vertices[order[k]].live \/ LikeBefore(m, order, k) = {}
  \/ /\ m.vertices[order[k]].live
     /\ \E j \in LikeBefore(m, order, k) :
          r = [reps EXCEPT ![order[j]] = order[k], ![order[k]] = reps[order[j]]]

(* Linked leaves the rings, or links the k-th vertex into one of them. *)
LEMMA LinkedIs ==
  ASSUME NEW v \in Nat, NEW h \in Nat, NEW p \in Nat, NEW m \in Meshes(v, h, p),
         NEW order \in [1..v -> 1..v], NEW reps \in Reps(v), NEW k \in 1..v
  PROVE  Linked(m, order, reps, k) \in Reps(v) /\ IsLinked(m, order, k, reps, Linked(m, order, reps, k))
<1> DEFINE Like(j) == /\ Live(m.vertices, order[j])
                      /\ m.vertices[order[j]].position = m.vertices[order[k]].position
           like == {j \in 1..k-1 : Like(j)}
           back == order[Max(like)]
           stays == ~Live(m.vertices, order[k]) \/ like = {}
<1>1. Linked(m, order, reps, k) =
        IF stays THEN reps ELSE [reps EXCEPT ![back] = order[k], ![order[k]] = reps[back]]
  BY Zenon DEF Linked
<1>2. \A j \in 1..v : Live(m.vertices, order[j]) <=> m.vertices[order[j]].live
  BY Sizes DEF Live
<1>3. like = LikeBefore(m, order, k)
  <2>1. \A j \in 1..k-1 : Like(j) <=>
          /\ m.vertices[order[j]].live
          /\ m.vertices[order[j]].position = m.vertices[order[k]].position
    BY <1>2
  <2> HIDE DEF Like
  <2> QED
    BY <2>1 DEF LikeBefore
<1>4. stays <=> ~m.vertices[order[k]].live \/ LikeBefore(m, order, k) = {}
  BY <1>2, <1>3
<1> HIDE DEF Like, stays
<1>5. CASE stays
  BY <1>1, <1>4, <1>5 DEF IsLinked
<1>6. CASE ~stays
  <2>1. like \subseteq 1..v
    OBVIOUS
  <2> HIDE DEF like
  <2>2. like # {}
    BY <1>4, <1>3, <1>6
  <2>3. Max(like) \in like
    BY <2>1, <2>2, MaxIsGreatest
  <2>4. back \in 1..v
    BY <2>1, <2>3
  <2> DEFINE r == [reps EXCEPT ![back] = order[k], ![order[k]] = reps[back]]
  <2>5. Linked(m, order, reps, k) = r
    BY <1>1, <1>6
  <2>6. IsLinked(m, order, k, reps, r)
    BY <1>3, <1>4, <1>6, <2>3, Zenon DEF IsLinked
  <2>7. r \in Reps(v)
    <3> HIDE DEF back
    <3>1. reps[back] \in 0..v
      BY <2>4 DEF Reps
    <3>2. order[k] \in 1..v
      OBVIOUS
    <3>3. order[k] \in 0..v
      BY <3>2
    <3> QED
      BY <3>1, <3>3 DEF Reps
  <2> QED
    BY <2>5, <2>6, <2>7
<1> QED
  BY <1>5, <1>6

(* The point reps made, and what the number of vertices linked and they are in. *)
RingMade(v, m, order, old, R) ==
  \E reps \in Reps(v) :
    <<v, reps>> \in R /\ WithPointReps(m, order, old) = [m EXCEPT !.ring = reps]

(* Each vertex first on its own. *)
Selves(v, m, old) ==
  [u \in 1..v |-> IF m.vertices[u].live /\ old[u] # 0 THEN u ELSE old[u]]

(* R relates places and point reps: it holds of the start, and Linked keeps it. *)
RingKept(v, m, order, old, R) ==
  /\ <<0, Selves(v, m, old)>> \in R
  /\ \A k \in 1..v : \A reps \in Reps(v) :
       <<k-1, reps>> \in R => <<k, Linked(m, order, reps, k)>> \in R

(* What every link keeps, holds of the rings that createPointReps makes. *)
LEMMA WithPointRepsIs ==
  ASSUME NEW v \in Nat, NEW h \in Nat, NEW p \in Nat, NEW m \in Meshes(v, h, p),
         NEW order \in [1..v -> 1..v], NEW old \in Reps(v), NEW R, RingKept(v, m, order, old, R)
  PROVE  RingMade(v, m, order, old, R)
<1>1. DOMAIN m.vertices = 1..v /\ Len(m.vertices) = v
  BY Sizes
<1> DEFINE q == [k \in DOMAIN m.vertices |-> k]
           b == [u \in DOMAIN m.vertices |->
                   IF Live(m.vertices, u) /\ old[u] # Invalid THEN u ELSE old[u]]
           D == Reps(v)
           S == {x \in (0..v) \X D : x \in R}
<1>2. WithPointReps(m, order, old) = [m EXCEPT !.ring = AllLinked(m, order, b, q)]
  BY Zenon DEF WithPointReps, AllLinked
<1>3. b = Selves(v, m, old)
  <2>1. ASSUME NEW u \in 1..v PROVE Live(m.vertices, u) <=> m.vertices[u].live
    <3>1. u \in 1..Len(m.vertices)
      BY <1>1
    <3> QED
      BY <3>1, Zenon DEF Live
  <2>2. \A u \in 1..v : (IF Live(m.vertices, u) /\ old[u] # Invalid THEN u ELSE old[u]) =
                          IF m.vertices[u].live /\ old[u] # 0 THEN u ELSE old[u]
    BY <2>1, Zenon DEF Invalid
  <2>3. b = [u \in 1..v |-> IF Live(m.vertices, u) /\ old[u] # Invalid THEN u ELSE old[u]]
    BY <1>1, Zenon
  <2> HIDE DEF b
  <2> QED
    BY <2>2, <2>3, Zenon DEF Selves
<1>4. b \in D
  BY <1>3 DEF Selves, Reps
<1> HIDE DEF b
<1>5. DOMAIN q = 1..v /\ \A k \in 1..v : q[k] = k
  BY <1>1
<1> HIDE DEF q, D
<1>6. ASSUME NEW k \in 1..v, NEW reps \in D PROVE Linked(m, order, reps, q[k]) \in D
  BY <1>5, LinkedIs DEF D
<1>7. LinkedKeep(m, order, v, q, D, b, S)
  <2>1. ASSUME NEW k \in 1..v, NEW reps \in D, <<k-1, reps>> \in S
        PROVE  <<k, Linked(m, order, reps, q[k])>> \in S
    <3>1. k \in 0..v /\ Linked(m, order, reps, q[k]) \in D
      BY <1>6
    <3>2. <<k, Linked(m, order, reps, q[k])>> \in R
      BY <1>5, <2>1 DEF D, RingKept
    <3> QED
      BY <3>1, <3>2
  <2>2. <<0, b>> \in S
    BY <1>3, <1>4 DEF RingKept
  <2> HIDE DEF S
  <2> QED
    BY <1>4, <1>5, <1>6, <2>1, <2>2 DEF LinkedKeep
<1>8. <<v, AllLinked(m, order, b, q)>> \in S
  BY <1>7, LinkedRuns
<1> QED
  BY <1>2, <1>8 DEF D, RingMade

(* The triangles a polygon of the n half edges s becomes, the added ones from h + 1 on: *)
(* the k-th half edge of triangle t.                                                   *)
Tri(h, n, s, t, k) ==
  IF k = 1 THEN (IF t = 0 THEN s[1] ELSE h + 2*t)
  ELSE IF k = 2 THEN s[t + 2]
  ELSE (IF t = n - 3 THEN s[n] ELSE h + 2*t + 1)

(* The polygon of triangle t. *)
Poly(p, q, t) == IF t = 0 THEN q ELSE p + t

(* The diagonals. *)
Tip(m, s, j) == m.halfEdges[s[((j - 1) \div 2) + 2]].end

(* The j-th half edge that triangulating q adds, before it is put in its
   triangle. *)
Diagonal(m, p, q, s, j) ==
  LET centre == m.halfEdges[s[1]].start
  IN [start |-> IF j % 2 = 1 THEN Tip(m, s, j) ELSE centre,
      end |-> IF j % 2 = 1 THEN centre ELSE Tip(m, s, j),
      polygon |-> Poly(p, q, j \div 2), pair |-> 0, prev |-> 0, next |-> 0, live |-> TRUE]

(* A half edge e with index x in its triangle. *)
InTriangle(h, n, s, t, x) == \E k \in 1..3 : Tri(h, n, s, t, k) = x

(* Half edge e at x once it has been linked into its triangle of the fan. *)
Turn(h, p, q, n, s, x, e) ==
  IF \A t \in 0..n-3 : ~InTriangle(h, n, s, t, x) THEN e
  ELSE LET t == CHOOSE t \in 0..n-3 : InTriangle(h, n, s, t, x)
           k == CHOOSE k \in 1..3 : Tri(h, n, s, t, k) = x
       IN [e EXCEPT !.polygon = Poly(p, q, t), !.next = Tri(h, n, s, t, (k % 3) + 1)]

(* The added half edges that touch vertex u. *)
DiagonalsAt(m, h, p, q, n, s, u) ==
  {h + j : j \in {j \in 1..2*(n - 3) :
                    u \in {Diagonal(m, p, q, s, j).start, Diagonal(m, p, q, s, j).end}}}

(* r is m with polygon q, of n sides s, cut into a fan of n - 2 triangles. *)
IsFanned(v, h, p, m, q, n, s, r) ==
  /\ \A x \in 1..h : r.halfEdges[x] = Turn(h, p, q, n, s, x, m.halfEdges[x])
  /\ \A j \in 1..2*(n - 3) :
       r.halfEdges[h + j] = Turn(h, p, q, n, s, h + j, Diagonal(m, p, q, s, j))
  /\ \A u \in 1..v :
       r.vertices[u] = [m.vertices[u] EXCEPT !.halfEdges = @ \cup DiagonalsAt(m, h, p, q, n, s, u)]
  /\ r.ring = m.ring
  /\ \A x \in 1..p :
       r.polygons[x] = IF x = q THEN [m.polygons[q] EXCEPT !.any = Tri(h, n, s, 0, 1)]
                       ELSE m.polygons[x]
  /\ \A t \in 1..n-3 : r.polygons[p + t] = [any |-> Tri(h, n, s, t, 1), live |-> TRUE]

(* The elements of a triple. *)
LEMMA TripleIs ==
  ASSUME NEW a, NEW b, NEW c
  PROVE  /\ <<a, b, c>>[1] = a /\ <<a, b, c>>[2] = b /\ <<a, b, c>>[3] = c
         /\ Range(<<a, b, c>>) = {<<a, b, c>>[k] : k \in 1..3}
<1>1. DOMAIN <<a, b, c>> = 1..3
  OBVIOUS
<1> QED
  BY <1>1 DEF Range

(* FannedAt cuts a polygon with more than three sides into a fan. *)
LEMMA FannedAtIs ==
  ASSUME NEW v \in Nat, NEW h \in Nat, NEW p \in Nat, NEW m \in Meshes(v, h, p), NEW q \in 1..p,
         NEW n, n = Len(Loop(m, q)), n > 3
  PROVE  /\ n \in 0..h
         /\ FannedAt(m, q) \in Meshes(v, h + 2*(n - 3), p + (n - 3))
         /\ IsFanned(v, h, p, m, q, n, Loop(m, q), FannedAt(m, q))
<1> DEFINE s == Loop(m, q)
           N == Len(s)
           old == Len(m.halfEdges)
           Polygon(t) == IF t = 0 THEN q ELSE Len(m.polygons) + t
           centre == m.halfEdges[s[1]].start
           added == [j \in 1..2*(N - 3) |->
                      LET t == j \div 2
                          tip == m.halfEdges[s[((j - 1) \div 2) + 2]].end
                      IN [start |-> IF j % 2 = 1 THEN tip ELSE centre,
                          end |-> IF j % 2 = 1 THEN centre ELSE tip,
                          polygon |-> Polygon(t), pair |-> Invalid,
                          prev |-> Invalid, next |-> Invalid, live |-> TRUE]]
           Triangle(t) == <<IF t = 0 THEN s[1] ELSE old + 2*t, s[t + 2],
                            IF t = N - 3 THEN s[N] ELSE old + 2*t + 1>>
           TriangleOf(x) == CHOOSE t \in 0..N-3 : x \in Range(Triangle(t))
           Turned(x, e) ==
             IF \A t \in 0..N-3 : x \notin Range(Triangle(t)) THEN e
             ELSE LET t == TriangleOf(x)
                      k == CHOOSE k \in 1..3 : Triangle(t)[k] = x
                  IN [e EXCEPT !.polygon = Polygon(t), !.next = Triangle(t)[(k % 3) + 1]]
           kept == [x \in DOMAIN m.halfEdges |-> Turned(x, m.halfEdges[x])]
           more == [j \in DOMAIN added |-> Turned(old + j, added[j])]
           first == [m.polygons EXCEPT ![q].any = Triangle(0)[1]]
           others == [t \in 1..N-3 |-> [any |-> Triangle(t)[1], live |-> TRUE]]
           Noted(u) == {old + x : x \in NotedAt(m, added, u)}
           notes == [u \in DOMAIN m.vertices |->
                       [m.vertices[u] EXCEPT !.halfEdges = @ \cup Noted(u)]]
<1>1. ~(N <= 3)
  <2>1. PICK k \in 0..h : IsLoop(h, m, q, k, s)
    BY LoopFacts
  <2>2. N = k
    BY <2>1 DEF IsLoop
  <2> HIDE DEF N
  <2> QED
    BY <2>2 DEF N
<1>2. FannedAt(m, q) =
        [m EXCEPT !.halfEdges = SubSeq(kept, 1, old) \o more, !.polygons = first \o others,
                  !.vertices = SubSeq(notes, 1, Len(m.vertices))]
  BY <1>1, Zenon DEF FannedAt, Each
<1>3. /\ DOMAIN m.vertices = 1..v /\ Len(m.vertices) = v
      /\ DOMAIN m.halfEdges = 1..h /\ old = h
      /\ DOMAIN m.polygons = 1..p /\ Len(m.polygons) = p
  BY Sizes
<1> HIDE DEF old
<1>4. s \in [1..n -> LiveEdges(m)] /\ n \in 0..h
  <2>1. PICK k \in 0..h : IsLoop(h, m, q, k, s)
    BY LoopFacts
  <2> HIDE DEF s
  <2> QED
    BY <2>1 DEF IsLoop, s
<1>5. N = n
  OBVIOUS
<1> HIDE DEF s, N
<1>6. s \in [1..n -> 1..h] /\ n \in Nat /\ n - 3 \in Nat
  BY <1>4, LiveAre
<1> DEFINE h2 == h + 2*(n - 3)
           p2 == p + (n - 3)
<1>7. \A t \in 0..n-3 : \A k \in 1..3 : Triangle(t)[k] = Tri(h, n, s, t, k)
  <2> TAKE t \in 0..n-3
  <2>1. /\ Triangle(t)[1] = IF t = 0 THEN s[1] ELSE h + 2*t
        /\ Triangle(t)[2] = s[t + 2]
        /\ Triangle(t)[3] = IF t = n - 3 THEN s[n] ELSE h + 2*t + 1
    BY <1>3, <1>5, TripleIs
  <2> HIDE DEF Triangle
  <2> TAKE k \in 1..3
  <2>2. k = 1 \/ k = 2 \/ k = 3
    OBVIOUS
  <2> QED
    BY <2>1, <2>2 DEF Tri
<1>8. \A t \in 0..n-3 : \A x : x \in Range(Triangle(t)) <=> InTriangle(h, n, s, t, x)
  <2> TAKE t \in 0..n-3
  <2>1. Range(Triangle(t)) = {Triangle(t)[k] : k \in 1..3}
    BY TripleIs
  <2> HIDE DEF Triangle
  <2> QED
    BY <1>7, <2>1 DEF InTriangle
<1>9. \A t : Polygon(t) = Poly(p, q, t)
  BY <1>3 DEF Poly
<1> HIDE DEF Polygon
<1>10. \A x, e : Turned(x, e) = Turn(h, p, q, n, s, x, e)
  <2> HIDE DEF Triangle
  <2> TAKE x, e
  <2>1. CASE \A t \in 0..n-3 : ~InTriangle(h, n, s, t, x)
    BY <1>5, <1>8, <2>1 DEF Turn
  <2>2. CASE ~\A t \in 0..n-3 : ~InTriangle(h, n, s, t, x)
    <3> DEFINE t == TriangleOf(x)
               u == CHOOSE u \in 0..n-3 : InTriangle(h, n, s, u, x)
    <3>1. t = u
      BY <1>5, <1>8
    <3>2. u \in 0..n-3 /\ InTriangle(h, n, s, u, x)
      BY <2>2
    <3> HIDE DEF t, u
    <3> DEFINE k == CHOOSE k \in 1..3 : Triangle(u)[k] = x
               j == CHOOSE j \in 1..3 : Tri(h, n, s, u, j) = x
    <3>3. k = j
      BY <1>7, <3>2
    <3>4. j \in 1..3
      BY <3>2 DEF InTriangle
    <3>5. Turned(x, e) = [e EXCEPT !.polygon = Polygon(u), !.next = Triangle(u)[(k % 3) + 1]]
      BY <1>5, <1>8, <2>2, <3>1 DEF t
    <3>6. Turn(h, p, q, n, s, x, e) =
            [e EXCEPT !.polygon = Poly(p, q, u), !.next = Tri(h, n, s, u, (j % 3) + 1)]
      BY <2>2 DEF Turn, u
    <3> HIDE DEF k, j
    <3>7. (j % 3) + 1 \in 1..3
      BY <3>4
    <3>8. Triangle(u)[(k % 3) + 1] = Tri(h, n, s, u, (j % 3) + 1)
      BY <1>7, <3>2, <3>3, <3>7
    <3> QED
      BY <1>9, <3>5, <3>6, <3>8
  <2> QED
    BY <2>1, <2>2
<1> HIDE DEF Turned
<1>11. \A j \in 1..2*(n-3) : added[j] = Diagonal(m, p, q, s, j)
  BY <1>5, <1>9, Zenon DEF Diagonal, Tip, Invalid
<1>12. DOMAIN added = 1..2*(n-3)
  BY <1>5
<1> HIDE DEF added
<1>13. \A t \in 0..n-3 : \A k \in 1..3 : Tri(h, n, s, t, k) \in 1..h2
  <2> SUFFICES ASSUME NEW t \in 0..n-3, NEW k \in 1..3 PROVE Tri(h, n, s, t, k) \in 1..h2
    OBVIOUS
  <2>1. s[1] \in 1..h /\ s[t + 2] \in 1..h /\ s[n] \in 1..h
    <3>1. 1 \in 1..n /\ t + 2 \in 1..n /\ n \in 1..n
      BY <1>6
    <3> QED
      BY <1>6, <3>1
  <2>2. 1..h \subseteq 1..h2
    BY <1>6
  <2>3. t # 0 => h + 2*t \in 1..h2
    BY <1>6
  <2>4. t # n - 3 => h + 2*t + 1 \in 1..h2
    BY <1>6
  <2> HIDE DEF h2
  <2> QED
    BY <2>1, <2>2, <2>3, <2>4 DEF Tri
<1>14. \A t \in 0..n-3 : Poly(p, q, t) \in 1..p2
  BY <1>6 DEF Poly
<1>15. \A x : \A e \in HalfEdgeOf(v, h2, p2) : Turn(h, p, q, n, s, x, e) \in HalfEdgeOf(v, h2, p2)
  <2> HIDE DEF h2, p2
  <2> TAKE x
  <2> TAKE e \in HalfEdgeOf(v, h2, p2)
  <2>1. CASE \A t \in 0..n-3 : ~InTriangle(h, n, s, t, x)
    BY <2>1 DEF Turn
  <2>2. CASE ~\A t \in 0..n-3 : ~InTriangle(h, n, s, t, x)
    <3> DEFINE u == CHOOSE u \in 0..n-3 : InTriangle(h, n, s, u, x)
               j == CHOOSE j \in 1..3 : Tri(h, n, s, u, j) = x
    <3>1. u \in 0..n-3 /\ InTriangle(h, n, s, u, x)
      BY <2>2
    <3>2. Turn(h, p, q, n, s, x, e) =
            [e EXCEPT !.polygon = Poly(p, q, u), !.next = Tri(h, n, s, u, (j % 3) + 1)]
      BY <2>2 DEF Turn
    <3> HIDE DEF u
    <3>3. j \in 1..3
      BY <3>1 DEF InTriangle
    <3> HIDE DEF j
    <3>4. (j % 3) + 1 \in 1..3
      BY <3>3
    <3>5. Poly(p, q, u) \in 0..p2 /\ Tri(h, n, s, u, (j % 3) + 1) \in 0..h2
      <4>1. Poly(p, q, u) \in 1..p2 /\ Tri(h, n, s, u, (j % 3) + 1) \in 1..h2
        BY <1>13, <1>14, <3>1, <3>4
      <4> QED
        BY <4>1
    <3> QED
      BY <3>2, <3>5 DEF HalfEdgeOf
  <2> QED
    BY <2>1, <2>2
<1>16. ASSUME NEW j \in 1..2*(n-3) PROVE Diagonal(m, p, q, s, j) \in HalfEdgeOf(v, h2, p2)
  <2>1. j \div 2 \in 0..n-3 /\ ((j - 1) \div 2) + 2 \in 1..n /\ 1 \in 1..n
    <3>1. n - 3 \in Nat /\ j \in Nat
      BY <1>6
    <3> QED
      BY <3>1
  <2>2. Tip(m, s, j) \in 0..v /\ m.halfEdges[s[1]].start \in 0..v
    <3>1. s[((j - 1) \div 2) + 2] \in 1..h /\ s[1] \in 1..h
      BY <1>6, <2>1
    <3> QED
      BY <3>1, EdgeFields DEF Tip
  <2>3. Poly(p, q, j \div 2) \in 0..p2
    <3>1. Poly(p, q, j \div 2) \in 1..p2
      BY <1>14, <2>1
    <3> QED
      BY <3>1
  <2>4. 0 \in 0..h2
    BY <1>6
  <2> HIDE DEF h2, p2
  <2> QED
    BY <2>2, <2>3, <2>4 DEF Diagonal, HalfEdgeOf
<1> DEFINE H == HalfEdgeOf(v, h2, p2)
<1>17. /\ m.vertices \in [1..v -> VertexOf(h)] /\ m.ring \in [1..v -> 0..v]
       /\ m.halfEdges \in [1..h -> H] /\ m.polygons \in [1..p -> PolygonOf(h2)]
  <2>1. /\ m.vertices \in [1..v -> VertexOf(h)] /\ m.ring \in [1..v -> 0..v]
        /\ m.halfEdges \in [1..h -> HalfEdgeOf(v, h, p)] /\ m.polygons \in [1..p -> PolygonOf(h)]
    BY Fields
  <2>2. 0..h \subseteq 0..h2 /\ 0..p \subseteq 0..p2
    BY <1>6
  <2> HIDE DEF h2, p2
  <2>3. HalfEdgeOf(v, h, p) \subseteq HalfEdgeOf(v, h2, p2)
    BY <2>2 DEF HalfEdgeOf
  <2>4. PolygonOf(h) \subseteq PolygonOf(h2)
    BY <2>2 DEF PolygonOf
  <2> QED
    BY <2>1, <2>3, <2>4
<1>18. /\ kept \in [1..h -> H]
       /\ \A x \in 1..h : kept[x] = Turn(h, p, q, n, s, x, m.halfEdges[x])
  <2> HIDE DEF h2, p2
  <2>1. \A x \in 1..h : kept[x] = Turn(h, p, q, n, s, x, m.halfEdges[x])
    BY <1>3, <1>10
  <2>2. \A x \in 1..h : m.halfEdges[x] \in H
    BY <1>17
  <2>3. DOMAIN kept = 1..h /\ kept = [x \in DOMAIN kept |-> kept[x]]
    BY <1>3
  <2> HIDE DEF kept, H
  <2>4. \A x \in 1..h : kept[x] \in H
    BY <1>15, <2>1, <2>2 DEF H
  <2> QED
    BY <2>1, <2>3, <2>4
<1>19. /\ more \in [1..2*(n-3) -> H]
       /\ \A j \in 1..2*(n-3) : more[j] = Turn(h, p, q, n, s, h + j, Diagonal(m, p, q, s, j))
  <2> HIDE DEF h2, p2
  <2>1. \A j \in 1..2*(n-3) : more[j] = Turn(h, p, q, n, s, h + j, Diagonal(m, p, q, s, j))
    BY <1>3, <1>10, <1>11, <1>12
  <2>2. DOMAIN more = 1..2*(n-3) /\ more = [j \in DOMAIN more |-> more[j]]
    BY <1>12
  <2> HIDE DEF more, H
  <2>3. \A j \in 1..2*(n-3) : more[j] \in H
    BY <1>15, <1>16, <2>1 DEF H
  <2> QED
    BY <2>1, <2>2, <2>3
<1> HIDE DEF kept, more
<1>20. SubSeq(kept, 1, old) = kept
  <2> HIDE DEF H
  <2> QED
    BY <1>3, <1>18, EachIs
<1>21. IsJoin(h, 2*(n-3), H, kept, more)
  <2> HIDE DEF H
  <2> DEFINE b == 2*(n-3)
  <2>1. b \in Nat
    BY <1>6
  <2>2. more \in [1..b -> H]
    BY <1>19
  <2> HIDE DEF b
  <2>3. IsJoin(h, b, H, kept, more)
    BY <1>18, <2>1, <2>2, JoinIs
  <2> QED
    BY <2>3 DEF b
<1>22. /\ first \in [1..p -> PolygonOf(h2)]
       /\ \A x \in 1..p : first[x] = IF x = q THEN [m.polygons[q] EXCEPT !.any = Tri(h, n, s, 0, 1)]
                                      ELSE m.polygons[x]
  <2>1. Triangle(0)[1] = Tri(h, n, s, 0, 1) /\ Tri(h, n, s, 0, 1) \in 1..h2
    <3>1. 0 \in 0..n-3 /\ 1 \in 1..3
      BY <1>6
    <3> HIDE DEF Triangle, h2
    <3> QED
      BY <1>7, <1>13, <3>1
  <2>2. Tri(h, n, s, 0, 1) \in 0..h2
    BY <2>1
  <2> HIDE DEF Triangle, h2
  <2>3. m.polygons[q] \in PolygonOf(h2)
    BY <1>17
  <2>4. [m.polygons[q] EXCEPT !.any = Tri(h, n, s, 0, 1)] \in PolygonOf(h2)
    BY <2>2, <2>3 DEF PolygonOf
  <2> QED
    BY <1>17, <2>1, <2>4
<1>23. /\ others \in [1..n-3 -> PolygonOf(h2)]
       /\ \A t \in 1..n-3 : others[t] = [any |-> Tri(h, n, s, t, 1), live |-> TRUE]
  <2>1. \A t \in 1..n-3 : Triangle(t)[1] = Tri(h, n, s, t, 1) /\ Tri(h, n, s, t, 1) \in 0..h2
    <3> TAKE t \in 1..n-3
    <3>1. t \in 0..n-3 /\ 1 \in 1..3
      BY <1>6
    <3> HIDE DEF Triangle, h2
    <3>2. Triangle(t)[1] = Tri(h, n, s, t, 1) /\ Tri(h, n, s, t, 1) \in 1..h2
      BY <1>7, <1>13, <3>1
    <3>3. 1..h2 \subseteq 0..h2
      OBVIOUS
    <3> QED
      BY <3>2, <3>3
  <2> HIDE DEF Triangle, h2
  <2>2. \A t \in 1..n-3 : others[t] = [any |-> Tri(h, n, s, t, 1), live |-> TRUE]
    BY <1>5, <2>1
  <2>3. \A t \in 1..n-3 : [any |-> Tri(h, n, s, t, 1), live |-> TRUE] \in PolygonOf(h2)
    BY <2>1 DEF PolygonOf
  <2>4. DOMAIN others = 1..n-3 /\ others = [t \in DOMAIN others |-> others[t]]
    BY <1>5
  <2> HIDE DEF others
  <2> QED
    BY <2>2, <2>3, <2>4
<1> HIDE DEF first, others
<1>24. IsJoin(p, n - 3, PolygonOf(h2), first, others)
  <2> HIDE DEF h2
  <2> QED
    BY <1>6, <1>22, <1>23, JoinIs
<1>25. ASSUME NEW u PROVE Noted(u) = DiagonalsAt(m, h, p, q, n, s, u)
  <2> DEFINE K == {j \in 1..2*(n - 3) :
                     u \in {Diagonal(m, p, q, s, j).start, Diagonal(m, p, q, s, j).end}}
  <2>1. NotedAt(m, added, u) = K
    BY <1>11, <1>12 DEF NotedAt
  <2>2. Noted(u) = {h + j : j \in K}
    BY <1>3, <2>1
  <2> QED
    BY <2>2 DEF DiagonalsAt
<1> HIDE DEF Noted
<1>26. notes = [u \in 1..v |->
                  [m.vertices[u] EXCEPT !.halfEdges = @ \cup DiagonalsAt(m, h, p, q, n, s, u)]]
  BY <1>3, <1>25
<1>27. notes \in [1..v -> VertexOf(h2)]
  <2>1. ASSUME NEW u \in 1..v
        PROVE  [m.vertices[u] EXCEPT !.halfEdges = @ \cup DiagonalsAt(m, h, p, q, n, s, u)]
                  \in VertexOf(h2)
    <3>1. m.vertices[u] \in VertexOf(h)
      BY VertexFields
    <3>2. DiagonalsAt(m, h, p, q, n, s, u) \subseteq 1..h2
      BY <1>6 DEF DiagonalsAt
    <3>3. 1..h \subseteq 1..h2
      BY <1>6
    <3> HIDE DEF h2
    <3> QED
      BY <3>1, <3>2, <3>3 DEF VertexOf
  <2> HIDE DEF h2, notes
  <2> QED
    BY <1>26, <2>1, Zenon
<1>28. SubSeq(notes, 1, Len(m.vertices)) = notes
  <2> HIDE DEF notes
  <2> QED
    BY <1>3, <1>27, EachIs
<1> HIDE DEF notes
<1> DEFINE r == [m EXCEPT !.halfEdges = kept \o more, !.polygons = first \o others, !.vertices = notes]
<1>29. FannedAt(m, q) = r
  BY <1>2, <1>20, <1>28
<1>30. /\ r.vertices = notes /\ r.ring = m.ring /\ r.halfEdges = kept \o more
       /\ r.polygons = first \o others
  BY DEF Meshes
<1>31. r \in Meshes(v, h2, p2)
  <2>1. /\ kept \o more \in [1..h2 -> HalfEdgeOf(v, h2, p2)]
        /\ first \o others \in [1..p2 -> PolygonOf(h2)]
    BY <1>21, <1>24 DEF IsJoin
  <2> HIDE DEF h2, p2
  <2> QED
    BY <1>17, <1>27, <2>1 DEF Meshes
<1> HIDE DEF r
<1>32. IsFanned(v, h, p, m, q, n, s, r)
  <2>1. /\ \A x \in 1..h : r.halfEdges[x] = Turn(h, p, q, n, s, x, m.halfEdges[x])
        /\ \A j \in 1..2*(n - 3) :
             r.halfEdges[h + j] = Turn(h, p, q, n, s, h + j, Diagonal(m, p, q, s, j))
    <3> HIDE DEF H
    <3> QED
      BY <1>18, <1>19, <1>21, <1>30 DEF IsJoin
  <2>2. /\ \A x \in 1..p :
             r.polygons[x] = IF x = q THEN [m.polygons[q] EXCEPT !.any = Tri(h, n, s, 0, 1)]
                             ELSE m.polygons[x]
        /\ \A t \in 1..n-3 : r.polygons[p + t] = [any |-> Tri(h, n, s, t, 1), live |-> TRUE]
    <3> HIDE DEF h2
    <3> QED
      BY <1>22, <1>23, <1>24, <1>30 DEF IsJoin
  <2>3. \A u \in 1..v :
          r.vertices[u] = [m.vertices[u] EXCEPT !.halfEdges = @ \cup DiagonalsAt(m, h, p, q, n, s, u)]
    BY <1>26, <1>30
  <2> QED
    BY <1>30, <2>1, <2>2, <2>3, Zenon DEF IsFanned
<1> QED
  BY <1>4, <1>29, <1>31, <1>32 DEF s

-----------------------------------------------------------------------------
(* What holds at each step of a fold over a mesh holds at its end *)

(* K is kept when any live vertex is welded. *)
WeldKept(v, h, p, K) ==
  \A r \in Meshes(v, h, p) : \A w \in 1..v :
    r \in K /\ r.vertices[w].live => WeldedTo(r, w) \in K

(* What every merge keeps, holds of the mesh when all the vertices have
   been visited. *)
LEMMA WeldedKeeps ==
  ASSUME NEW v \in Nat, NEW h \in Nat, NEW p \in Nat, NEW m \in Meshes(v, h, p),
         NEW K, m \in K, WeldKept(v, h, p, K)
  PROVE  Welded(m) \in K /\ Welded(m) \in Meshes(v, h, p)
<1> DEFINE q == [w \in DOMAIN m.vertices |-> w]
           D == Meshes(v, h, p)
           R == (0..v) \X (K \cap D)
<1>1. Welded(m) = AllWelded(m, q)
  BY Zenon DEF Welded, AllWelded
<1>2. DOMAIN q = 1..v /\ \A k \in 1..v : q[k] = k
  BY Sizes
<1> HIDE DEF q, D
<1>3. ASSUME NEW k \in 1..v, NEW r \in D
      PROVE  WeldedTo(r, q[k]) \in D /\ (r \in K => WeldedTo(r, q[k]) \in K)
  <2>1. q[k] \in 1..v
    BY <1>2
  <2>2. CASE r.vertices[q[k]].live
    BY <2>1, <2>2, WeldedToIs DEF D, WeldKept
  <2>3. CASE ~r.vertices[q[k]].live
    <3>1. WeldedTo(r, q[k]) = r
      BY <2>3, Zenon DEF WeldedTo, Live
    <3> QED
      BY <3>1
  <2> QED
    BY <2>2, <2>3
<1>4. WeldedKeep(v, q, D, m, R)
  <2>1. m \in D
    BY DEF D
  <2> QED
    BY <1>2, <1>3, <2>1 DEF WeldedKeep
<1>5. <<v, AllWelded(m, q)>> \in R
  BY <1>4, WeldedToRuns
<1> QED
  BY <1>1, <1>5 DEF D

(* K is kept when any polygon is cut into a fan. *)
FanKept(v, K) ==
  \A a \in Nat, b \in Nat : \A r \in Meshes(v, a, b) : \A q \in 1..b :
    r \in K /\ Len(Loop(r, q)) > 3 => FannedAt(r, q) \in K

(* triangulate's pass over the polygons. *)
Fanned(m) == FoldLeft(FannedAt, m, [q \in DOMAIN m.polygons |-> q])

(* What every cut keeps, holds of the triangulated mesh. *)
LEMMA FannedKeeps ==
  ASSUME NEW v \in Nat, NEW h \in Nat, NEW p \in Nat, NEW m \in Meshes(v, h, p),
         NEW K, m \in K, FanKept(v, K)
  PROVE  Fanned(m) \in K /\ \E a, b \in Nat : Fanned(m) \in Meshes(v, a, b)
<1> DEFINE s == [q \in DOMAIN m.polygons |-> q]
           D == {r \in K : \E a, b \in Nat : p <= b /\ r \in Meshes(v, a, b)}
           R == (0..p) \X D
<1>1. Fanned(m) = AllFanned(m, s)
  BY Zenon DEF Fanned, AllFanned
<1>2. DOMAIN s = 1..p /\ \A k \in 1..p : s[k] = k
  BY Sizes
<1> HIDE DEF s
<1>3. m \in D
  <2>1. p <= p
    OBVIOUS
  <2> QED
    BY <2>1
<1>4. ASSUME NEW k \in 1..p, NEW r \in D PROVE FannedAt(r, s[k]) \in D
  <2>1. PICK a \in Nat, b \in Nat : p <= b /\ r \in Meshes(v, a, b)
    OBVIOUS
  <2>2. s[k] \in 1..b
    BY <1>2, <2>1
  <2> DEFINE x == s[k]
             n == Len(Loop(r, x))
  <2> HIDE DEF x
  <2>3. CASE ~(n <= 3)
    <3>1. n \in 0..a /\ n > 3
      <4>1. PICK i \in 0..a : IsLoop(a, r, x, i, Loop(r, x))
        BY <2>1, <2>2, LoopFacts DEF x
      <4>2. n = i
        BY <4>1 DEF IsLoop
      <4> HIDE DEF n
      <4> QED
        BY <2>3, <4>2
    <3>2. FannedAt(r, x) \in Meshes(v, a + 2*(n - 3), b + (n - 3))
      BY <2>1, <2>2, <3>1, FannedAtIs DEF x
    <3>3. FannedAt(r, x) \in K
      BY <2>1, <2>2, <3>1 DEF x, FanKept
    <3> HIDE DEF n
    <3>4. a + 2*(n - 3) \in Nat /\ b + (n - 3) \in Nat /\ p <= b + (n - 3)
      BY <2>1, <3>1
    <3> QED
      BY <3>2, <3>3, <3>4 DEF x
  <2>4. CASE n <= 3
    <3>1. FannedAt(r, x) = r
      BY <2>4, Zenon DEF FannedAt
    <3> QED
      BY <3>1 DEF x
  <2> QED
    BY <2>3, <2>4
<1> HIDE DEF D
<1>5. FannedKeep(p, s, D, m, R)
  BY <1>2, <1>3, <1>4 DEF FannedKeep
<1>6. <<p, AllFanned(m, s)>> \in R
  BY <1>5, FannedAtRuns
<1> QED
  BY <1>1, <1>6 DEF D

(* The loop of p removed: R holds after each of its half edges. *)
Removed(m, q) == FoldLeft(WithoutHalfEdge, m, Loop(m, q))

(* R is kept when the half edges around q are removed one after the other. *)
LoopKept(v, h, p, m, q, R) ==
  /\ <<0, m>> \in R
  /\ \A k \in 1..Len(Loop(m, q)) : \A r \in Meshes(v, h, p) :
       <<k-1, r>> \in R => <<k, WithoutHalfEdge(r, Loop(m, q)[k])>> \in R

(* What every removal keeps, holds when the polygon's half edges are gone. *)
LEMMA RemovedKeeps ==
  ASSUME NEW v \in Nat, NEW h \in Nat, NEW p \in Nat, NEW m \in Meshes(v, h, p), NEW q \in 1..p,
         NEW R, LoopKept(v, h, p, m, q, R)
  PROVE  <<Len(Loop(m, q)), Removed(m, q)>> \in R /\ Removed(m, q) \in Meshes(v, h, p)
<1> DEFINE s == Loop(m, q)
           n == Len(s)
           D == Meshes(v, h, p)
           S == {x \in (0..n) \X D : x \in R}
<1>1. Removed(m, q) = AllWithout(m, s)
  BY Zenon DEF Removed, AllWithout
<1>2. n \in Nat /\ DOMAIN s = 1..n /\ \A k \in 1..n : s[k] \in 1..h
  <2>1. PICK i \in 0..h : IsLoop(h, m, q, i, s)
    BY LoopFacts
  <2> HIDE DEF s
  <2>2. s \in Seq(1..h)
    BY <2>1 DEF IsLoop
  <2> QED
    BY <2>2, LenProperties
<1>3. <<0, m>> \in R /\ \A k \in 1..n : \A r \in D :
        <<k-1, r>> \in R => <<k, WithoutHalfEdge(r, s[k])>> \in R
  BY DEF LoopKept
<1> HIDE DEF s, n, D
<1>4. ASSUME NEW k \in 1..n, NEW r \in D PROVE WithoutHalfEdge(r, s[k]) \in D
  <2>1. CASE r.halfEdges[s[k]].live
    BY <1>2, <2>1, WithoutIs DEF D
  <2>2. CASE ~r.halfEdges[s[k]].live
    BY <1>2, <2>2, WithoutDead DEF D
  <2> QED
    BY <2>1, <2>2
<1>5. WithoutKeep(n, s, D, m, S)
  <2>1. m \in D /\ <<0, m>> \in S
    BY <1>2, <1>3 DEF D
  <2>2. ASSUME NEW k \in 1..n, NEW r \in D, <<k-1, r>> \in S
        PROVE  <<k, WithoutHalfEdge(r, s[k])>> \in S
    <3>1. k \in 0..n
      OBVIOUS
    <3> QED
      BY <1>3, <1>4, <2>2, <3>1
  <2> HIDE DEF S
  <2> QED
    BY <1>2, <1>4, <2>1, <2>2 DEF WithoutKeep
<1>6. <<n, AllWithout(m, s)>> \in S
  BY <1>5, WithoutHalfEdgeRuns
<1> QED
  BY <1>1, <1>6 DEF D, n, s

(* A vertex added. *)
WithVertex(m, pos) ==
  [m EXCEPT !.vertices = Append(@, [position |-> pos, live |-> TRUE, halfEdges |-> {}]),
            !.ring = Append(@, Len(m.vertices) + 1)]

(* r is m with one vertex more, a ring of its own. *)
IsWithVertex(v, m, pos, r) ==
  /\ \A u \in 1..v : r.vertices[u] = m.vertices[u] /\ r.ring[u] = m.ring[u]
  /\ r.vertices[v + 1] = [position |-> pos, live |-> TRUE, halfEdges |-> {}]
  /\ r.ring[v + 1] = v + 1
  /\ r.halfEdges = m.halfEdges /\ r.polygons = m.polygons

(* WithVertex appends one vertex. *)
LEMMA WithVertexIs ==
  ASSUME NEW v \in Nat, NEW h \in Nat, NEW p \in Nat, NEW m \in Meshes(v, h, p),
         NEW pos \in Positions
  PROVE  /\ WithVertex(m, pos) \in Meshes(v + 1, h, p)
         /\ IsWithVertex(v, m, pos, WithVertex(m, pos))
<1> DEFINE r == WithVertex(m, pos)
           T == VertexOf(h)
           e == [position |-> pos, live |-> TRUE, halfEdges |-> {}]
           verts == Append(m.vertices, e)
           rings == Append(m.ring, v + 1)
           U == 0..v+1
<1>1. /\ m.vertices \in [1..v -> T] /\ m.ring \in [1..v -> 0..v]
      /\ m.halfEdges \in [1..h -> HalfEdgeOf(v, h, p)] /\ m.polygons \in [1..p -> PolygonOf(h)]
  BY Fields
<1>2. m.ring \in [1..v -> U] /\ v + 1 \in U
  BY <1>1
<1>3. e \in T
  BY DEF VertexOf
<1> HIDE DEF T, e, U
<1>4. IsAppend(v, T, m.vertices, e) /\ IsAppend(v, U, m.ring, v + 1)
  BY <1>1, <1>2, <1>3, AppendIs
<1>5. r = [m EXCEPT !.vertices = verts, !.ring = rings]
  <2>1. Len(m.vertices) = v
    BY Sizes
  <2> QED
    BY <2>1, Zenon DEF WithVertex, e
<1>6. m.halfEdges \in [1..h -> HalfEdgeOf(v + 1, h, p)]
  <2>1. 0..v \subseteq 0..v+1
    OBVIOUS
  <2>2. HalfEdgeOf(v, h, p) \subseteq HalfEdgeOf(v + 1, h, p)
    BY <2>1 DEF HalfEdgeOf
  <2> QED
    BY <1>1, <2>2
<1>7. verts \in [1..v+1 -> VertexOf(h)] /\ rings \in [1..v+1 -> 0..v+1]
  BY <1>4 DEF IsAppend, T, U
<1>8. /\ \A u \in 1..v : verts[u] = m.vertices[u] /\ rings[u] = m.ring[u]
      /\ verts[v + 1] = e /\ rings[v + 1] = v + 1
  BY <1>4 DEF IsAppend
<1> HIDE DEF verts, rings, r
<1>9. r \in Meshes(v + 1, h, p)
  BY <1>1, <1>5, <1>6, <1>7 DEF Meshes
<1>10. /\ r.vertices = verts /\ r.ring = rings /\ r.halfEdges = m.halfEdges
       /\ r.polygons = m.polygons
  BY <1>5 DEF Meshes
<1> QED
  BY <1>8, <1>9, <1>10 DEF r, e, IsWithVertex

(* The vertices moved. *)
Transformed(m, to) ==
  [m EXCEPT !.vertices = Each(@, LAMBDA u, e : [e EXCEPT !.position = to[@]])]

(* r is m with its positions mapped. *)
IsTransformed(v, m, to, r) ==
  /\ \A u \in 1..v : r.vertices[u] = [m.vertices[u] EXCEPT !.position = to[@]]
  /\ r.ring = m.ring /\ r.halfEdges = m.halfEdges /\ r.polygons = m.polygons

(* Transformed changes positions only. *)
LEMMA TransformedIs ==
  ASSUME NEW v \in Nat, NEW h \in Nat, NEW p \in Nat, NEW m \in Meshes(v, h, p),
         NEW to \in [Positions -> Positions]
  PROVE  Transformed(m, to) \in Meshes(v, h, p) /\ IsTransformed(v, m, to, Transformed(m, to))
<1> DEFINE r == Transformed(m, to)
           verts == [u \in DOMAIN m.vertices |-> [m.vertices[u] EXCEPT !.position = to[@]]]
<1>1. DOMAIN m.vertices = 1..v /\ Len(m.vertices) = v
  BY Sizes
<1>2. r = [m EXCEPT !.vertices = SubSeq(verts, 1, Len(m.vertices))]
  BY Zenon DEF Transformed, Each
<1>3. ASSUME NEW u \in 1..v
      PROVE  [m.vertices[u] EXCEPT !.position = to[@]] \in VertexOf(h)
  <2>1. m.vertices[u] \in VertexOf(h)
    BY VertexFields
  <2> QED
    BY <2>1 DEF VertexOf
<1>4. verts \in [1..v -> VertexOf(h)]
  BY <1>1, <1>3
<1>5. \A u \in 1..v : verts[u] = [m.vertices[u] EXCEPT !.position = to[@]]
  BY <1>1
<1> HIDE DEF verts, r
<1>6. r = [m EXCEPT !.vertices = verts]
  BY <1>1, <1>2, <1>4, EachIs
<1>7. r \in Meshes(v, h, p)
  BY <1>4, <1>6 DEF Meshes
<1>8. /\ r.vertices = verts /\ r.ring = m.ring /\ r.halfEdges = m.halfEdges
      /\ r.polygons = m.polygons
  BY <1>6 DEF Meshes
<1> QED
  BY <1>5, <1>7, <1>8 DEF r, IsTransformed

(* A polygon marked as deleted. *)
Emptied(m, q) == [m EXCEPT !.polygons[q] = [any |-> Invalid, live |-> FALSE]]

(* r is m without polygon q. *)
IsEmptied(m, q, r) ==
  /\ r.polygons = [m.polygons EXCEPT ![q] = [any |-> 0, live |-> FALSE]]
  /\ r.vertices = m.vertices /\ r.ring = m.ring /\ r.halfEdges = m.halfEdges

(* Emptied deletes the polygon and changes nothing else. *)
LEMMA EmptiedIs ==
  ASSUME NEW v \in Nat, NEW h \in Nat, NEW p \in Nat, NEW m \in Meshes(v, h, p), NEW q \in 1..p
  PROVE  Emptied(m, q) \in Meshes(v, h, p) /\ IsEmptied(m, q, Emptied(m, q))
<1> DEFINE polys == [m.polygons EXCEPT ![q] = [any |-> 0, live |-> FALSE]]
<1>1. polys \in [1..p -> PolygonOf(h)]
  <2>1. m.polygons \in [1..p -> PolygonOf(h)]
    BY Fields
  <2>2. [any |-> 0, live |-> FALSE] \in PolygonOf(h)
    BY DEF PolygonOf
  <2> QED
    BY <2>1, <2>2
<1>2. Emptied(m, q) = [m EXCEPT !.polygons = polys]
  BY DEF Emptied, Invalid
<1> HIDE DEF polys
<1>3. [m EXCEPT !.polygons = polys] \in Meshes(v, h, p)
  BY <1>1 DEF Meshes
<1>4. /\ [m EXCEPT !.polygons = polys].polygons = polys
      /\ [m EXCEPT !.polygons = polys].vertices = m.vertices
      /\ [m EXCEPT !.polygons = polys].ring = m.ring
      /\ [m EXCEPT !.polygons = polys].halfEdges = m.halfEdges
  BY DEF Meshes
<1> QED
  BY <1>2, <1>3, <1>4 DEF polys, IsEmptied

-----------------------------------------------------------------------------
(* Orders of the vertices *)

(* Every vertex has its place in an order, one each. *)
IsOrder(v, order) ==
  /\ order \in [1..v -> 1..v]
  /\ \A i, j \in 1..v : order[i] = order[j] => i = j
  /\ \A u \in 1..v : \E i \in 1..v : order[i] = u

(* An order that std::sort may leave has every vertex once, equal positions
   together. *)
LEMMA OrdersAre ==
  ASSUME NEW v \in Nat, NEW h \in Nat, NEW p \in Nat, NEW m \in Meshes(v, h, p),
         NEW order \in SortOrders(m)
  PROVE  IsOrder(v, order)
<1>1. order \in Bijection(1..v, 1..v)
  BY Sizes DEF SortOrders
<1> QED
  BY <1>1 DEF Bijection, Injection, Surjection, IsInjective, IsOrder

(* The rings createPointReps starts from are in their ranges. *)
LEMMA OldPointRepsAre ==
  ASSUME NEW v \in Nat, NEW h \in Nat, NEW p \in Nat, NEW m \in Meshes(v, h, p),
         NEW kept \in BOOLEAN, NEW old \in OldPointReps(m, kept)
  PROVE  old \in Reps(v)
<1>1. m.ring \in [1..v -> 0..v] /\ DOMAIN m.vertices = 1..v
  BY Fields, Sizes
<1>2. CASE kept
  BY <1>1, <1>2 DEF OldPointReps, Reps
<1>3. CASE ~kept
  <2>1. old \in [1..v -> {0, 1}]
    BY <1>1, <1>3 DEF OldPointReps, Invalid
  <2>2. \A u \in 1..v : {0, 1} \subseteq 0..v
    OBVIOUS
  <2> QED
    BY <2>1, <2>2 DEF Reps
<1> QED
  BY <1>2, <1>3

(* What the vertices are before they are linked. *)
LEMMA SelvesAre ==
  ASSUME NEW v \in Nat, NEW m, NEW old \in Reps(v)
  PROVE  Selves(v, m, old) \in Reps(v)
BY DEF Selves, Reps

(* createPointReps replaces the rings and nothing else. *)
LEMMA PointRepsAre ==
  ASSUME NEW v \in Nat, NEW h \in Nat, NEW p \in Nat, NEW m \in Meshes(v, h, p),
         NEW kept \in BOOLEAN, NEW r \in PointRepsOf(m, kept)
  PROVE  \E reps \in Reps(v) : r = [m EXCEPT !.ring = reps]
<1>1. PICK order \in SortOrders(m), old \in OldPointReps(m, kept) : r = WithPointReps(m, order, old)
  BY DEF PointRepsOf
<1>2. order \in [1..v -> 1..v] /\ old \in Reps(v)
  <2>1. IsOrder(v, order)
    BY OrdersAre
  <2> QED
    BY <2>1, OldPointRepsAre DEF IsOrder
<1> DEFINE D == Reps(v)
           R == (0..v) \X D
<1>3. Selves(v, m, old) \in D
  BY <1>2, SelvesAre
<1>4. \A k \in 1..v : \A reps \in D : Linked(m, order, reps, k) \in D
  BY <1>2, LinkedIs
<1> HIDE DEF D
<1>5. <<0, Selves(v, m, old)>> \in R
  BY <1>3
<1>6. \A k \in 1..v : \A reps \in D :
        <<k-1, reps>> \in R => <<k, Linked(m, order, reps, k)>> \in R
  BY <1>4
<1> HIDE DEF R
<1>7. \A k \in 1..v : \A reps \in Reps(v) :
        <<k-1, reps>> \in R => <<k, Linked(m, order, reps, k)>> \in R
  BY <1>6 DEF D
<1>8. RingMade(v, m, order, old, R)
  BY <1>2, <1>5, <1>7, WithPointRepsIs DEF RingKept
<1> QED
  BY <1>1, <1>8 DEF RingMade

(* A mesh whose rings are replaced is a mesh. *)
LEMMA WithRing ==
  ASSUME NEW v \in Nat, NEW h \in Nat, NEW p \in Nat, NEW m \in Meshes(v, h, p), NEW reps \in Reps(v)
  PROVE  LET r == [m EXCEPT !.ring = reps]
         IN  /\ r \in Meshes(v, h, p)
             /\ r.vertices = m.vertices /\ r.ring = reps
             /\ r.halfEdges = m.halfEdges /\ r.polygons = m.polygons
BY DEF Meshes, Reps

-----------------------------------------------------------------------------
(* The type of the mesh *)

(* A mesh of any size. *)
IsMesh(m) == \E v, h, p \in Nat : m \in Meshes(v, h, p)

(* The type invariant with the sizes of the containers, the inductive one. *)
TypeInv ==
  /\ IsMesh(mesh)
  /\ edits \subseteq Edit
  /\ {keepsPointReps, hasPointReps, fanned, torn} \subseteq BOOLEAN
  /\ edited \in 0..MaxEdits

(* What is a mesh by its sizes has the type Mesh names. *)
LEMMA TypeGives == TypeInv => MeshTypeOK
<1> SUFFICES ASSUME TypeInv PROVE MeshTypeOK
  OBVIOUS
<1>1. PICK v \in Nat, h \in Nat, p \in Nat : mesh \in Meshes(v, h, p)
  BY DEF TypeInv, IsMesh
<1>2. /\ mesh.vertices \in [1..v -> VertexOf(h)] /\ mesh.ring \in [1..v -> 0..v]
      /\ mesh.halfEdges \in [1..h -> HalfEdgeOf(v, h, p)]
      /\ mesh.polygons \in [1..p -> PolygonOf(h)]
  BY <1>1, Fields
<1>3. /\ Len(mesh.vertices) = v /\ Len(mesh.halfEdges) = h /\ Len(mesh.polygons) = p
  BY <1>1, Sizes
<1>4. /\ mesh.vertices \in Seq(VertexOf(h)) /\ mesh.halfEdges \in Seq(HalfEdgeOf(v, h, p))
      /\ mesh.polygons \in Seq(PolygonOf(h))
  BY <1>2, EachIs
<1>5. vertices \in Seq([position : Positions, live : BOOLEAN,
                        halfEdges : SUBSET (1..Len(halfEdges))])
  BY <1>3, <1>4, Zenon DEF vertices, halfEdges, VertexOf
<1>6. ring \in [1..Len(vertices) -> Index(vertices)]
  BY <1>2, <1>3 DEF ring, vertices, Index
<1>7. /\ Index(vertices) = 0..v /\ Index(halfEdges) = 0..h /\ Index(polygons) = 0..p
  BY <1>3 DEF Index, vertices, halfEdges, polygons
<1>8. halfEdges \in Seq([start : Index(vertices), end : Index(vertices),
                         polygon : Index(polygons), pair : Index(halfEdges),
                         prev : Index(halfEdges), next : Index(halfEdges),
                         live : BOOLEAN])
  <2>1. HalfEdgeOf(v, h, p) =
          [start : Index(vertices), end : Index(vertices), polygon : Index(polygons),
           pair : Index(halfEdges), prev : Index(halfEdges), next : Index(halfEdges),
           live : BOOLEAN]
    BY <1>7, Zenon DEF HalfEdgeOf
  <2> QED
    BY <1>4, <2>1 DEF halfEdges
<1>9. polygons \in Seq([any : Index(halfEdges), live : BOOLEAN])
  BY <1>4, <1>7, Zenon DEF polygons, PolygonOf
<1> QED
  BY <1>5, <1>6, <1>8, <1>9 DEF TypeInv, MeshTypeOK

-----------------------------------------------------------------------------
(* What the operations leave is a mesh *)

(* A mesh whose rings are others is a mesh of the same sizes. *)
LEMMA PointRepsKeep ==
  ASSUME NEW v \in Nat, NEW h \in Nat, NEW p \in Nat, NEW m \in Meshes(v, h, p),
         NEW kept \in BOOLEAN, NEW r \in PointRepsOf(m, kept)
  PROVE  r \in Meshes(v, h, p)
<1>1. PICK reps \in Reps(v) : r = [m EXCEPT !.ring = reps]
  BY PointRepsAre
<1> QED
  BY <1>1, WithRing

(* Merging keeps the sizes of the containers. *)
LEMMA WeldedIsMesh ==
  ASSUME NEW v \in Nat, NEW h \in Nat, NEW p \in Nat, NEW m \in Meshes(v, h, p)
  PROVE  Welded(m) \in Meshes(v, h, p)
<1> DEFINE K == Meshes(v, h, p)
<1>1. WeldKept(v, h, p, K)
  BY WeldedToIs DEF WeldKept
<1> QED
  BY <1>1, WeldedKeeps

(* The meshes of v vertices. *)
MeshesOf(v) == UNION {Meshes(v, x[1], x[2]) : x \in Nat \X Nat}

(* The meshes with v vertices, whatever their other sizes. *)
LEMMA MeshesOfAre ==
  ASSUME NEW v, NEW r
  PROVE  r \in MeshesOf(v) <=> \E a, b \in Nat : r \in Meshes(v, a, b)
<1>1. ASSUME NEW a \in Nat, NEW b \in Nat, r \in Meshes(v, a, b) PROVE r \in MeshesOf(v)
  <2>1. <<a, b>> \in Nat \X Nat /\ r \in Meshes(v, <<a, b>>[1], <<a, b>>[2])
    BY <1>1
  <2> QED
    BY <2>1, Zenon DEF MeshesOf
<1>2. ASSUME r \in MeshesOf(v) PROVE \E a, b \in Nat : r \in Meshes(v, a, b)
  BY <1>2 DEF MeshesOf
<1> QED
  BY <1>1, <1>2

(* Repacking a mesh gives a mesh. *)
LEMMA RepackedIsMesh ==
  ASSUME NEW m, IsMesh(m)
  PROVE  IsMesh(Repacked(m))
<1>1. PICK v \in Nat, h \in Nat, p \in Nat : m \in Meshes(v, h, p)
  BY DEF IsMesh
<1>2. CASE HasAll(m)
  <2>1. Repacked(m) = m
    BY <1>2 DEF Repacked, HasAll
  <2> QED
    BY <2>1
<1>3. CASE ~HasAll(m)
  <2>1. PICK c \in 0..v : IsList(m, c, OldOf(m))
    BY <1>1, OldOfIs
  <2> DEFINE U == MeshesOf(c)
  <2>2. FacesKept(m, c, U)
    <3>1. ASSUME NEW a \in Nat, NEW b \in Nat, NEW n \in Nat \ {0}, NEW r \in Meshes(c, a, b),
                 NEW face \in [1..n -> 1..c], AllLive(c, r)
          PROVE  WithPolygon(r, face) \in U
      <4>1. c \in Nat /\ n \in Nat
        BY <1>1
      <4>2. WithPolygon(r, face) \in Meshes(c, a + n, b + 1)
        <5>1. \A k \in 1..n : r.vertices[face[k]].live
          BY <3>1 DEF AllLive
        <5> QED
          BY <4>1, <5>1, WithPolygonIs
      <4>3. a + n \in Nat /\ b + 1 \in Nat
        BY <4>1
      <4> QED
        BY <4>2, <4>3, MeshesOfAre, Zenon
    <3> HIDE DEF U
    <3>2. Moved(m) \in U
      <4>1. Moved(m) \in Meshes(c, 0, 0)
        BY <1>1, <2>1, MovedIs
      <4> QED
        BY <4>1, MeshesOfAre, Zenon DEF U
    <3> QED
      BY <3>1, <3>2 DEF FacesKept
  <2> HIDE DEF U
  <2>3. \E a, b \in Nat : Repacked(m) \in Meshes(c, a, b)
    BY <1>1, <1>3, <2>1, <2>2, RepackedKeeps
  <2> QED
    BY <2>3 DEF IsMesh
<1> QED
  BY <1>2, <1>3

(* Pairing gives a mesh. *)
LEMMA ConnectedIsMesh ==
  ASSUME NEW m, IsMesh(m)
  PROVE  IsMesh(Connected(m))
BY ConnectedIs DEF IsMesh

(* Triangulating gives a mesh. *)
LEMMA FannedIsMesh ==
  ASSUME NEW m, IsMesh(m)
  PROVE  IsMesh(Fanned(m))
<1>1. PICK v \in Nat, h \in Nat, p \in Nat : m \in Meshes(v, h, p)
  BY DEF IsMesh
<1> DEFINE U == MeshesOf(v)
<1>2. FanKept(v, U)
  <2>1. ASSUME NEW a \in Nat, NEW b \in Nat, NEW r \in Meshes(v, a, b), NEW q \in 1..b,
               Len(Loop(r, q)) > 3
        PROVE  FannedAt(r, q) \in U
    <3> DEFINE n == Len(Loop(r, q))
    <3>1. PICK i \in 0..a : IsLoop(a, r, q, i, Loop(r, q))
      BY LoopFacts
    <3>2. n = i
      BY <3>1 DEF IsLoop
    <3>3. n \in 0..a /\ n > 3
      BY <2>1, <3>2
    <3>4. FannedAt(r, q) \in Meshes(v, a + 2*(n - 3), b + (n - 3))
      BY <3>3, FannedAtIs
    <3> HIDE DEF n
    <3>5. a + 2*(n - 3) \in Nat /\ b + (n - 3) \in Nat
      BY <3>3
    <3> QED
      BY <3>4, <3>5, MeshesOfAre, Zenon
  <2> HIDE DEF U
  <2> QED
    BY <2>1 DEF FanKept
<1> HIDE DEF U
<1>3. m \in U
  BY <1>1, MeshesOfAre, Zenon DEF U
<1>4. \E a, b \in Nat : Fanned(m) \in Meshes(v, a, b)
  BY <1>1, <1>2, <1>3, FannedKeeps
<1> QED
  BY <1>4 DEF IsMesh

(* Removing a polygon's half edges gives a mesh. *)
LEMMA RemovedIsMesh ==
  ASSUME NEW v \in Nat, NEW h \in Nat, NEW p \in Nat, NEW m \in Meshes(v, h, p), NEW q \in 1..p
  PROVE  Removed(m, q) \in Meshes(v, h, p)
<1> DEFINE s == Loop(m, q)
           n == Len(s)
           D == Meshes(v, h, p)
           R == (0..n) \X D
<1>1. n \in Nat /\ \A k \in 1..n : s[k] \in 1..h
  <2>1. PICK i \in 0..h : IsLoop(h, m, q, i, s)
    BY LoopFacts
  <2> HIDE DEF s
  <2>2. s \in Seq(1..h)
    BY <2>1 DEF IsLoop
  <2> QED
    BY <2>2, LenProperties
<1> HIDE DEF s, n
<1>2. ASSUME NEW k \in 1..n, NEW r \in D PROVE WithoutHalfEdge(r, s[k]) \in D
  <2>1. CASE r.halfEdges[s[k]].live
    BY <1>1, <2>1, WithoutIs
  <2>2. CASE ~r.halfEdges[s[k]].live
    BY <1>1, <2>2, WithoutDead
  <2> QED
    BY <2>1, <2>2
<1>3. m \in D
  OBVIOUS
<1> HIDE DEF D
<1>4. /\ <<0, m>> \in R
      /\ \A k \in 1..n : \A r \in D : <<k-1, r>> \in R => <<k, WithoutHalfEdge(r, s[k])>> \in R
  BY <1>1, <1>2, <1>3
<1> HIDE DEF R
<1>5. LoopKept(v, h, p, m, q, R)
  BY <1>4, Zenon DEF LoopKept, D, n, s
<1> QED
  BY <1>5, RemovedKeeps

(* A step of Mesh as the changes of the mesh it makes. *)
LEMMA UpdatesAre ==
  ASSUME NEW u \in Updates, {keepsPointReps, hasPointReps, fanned} \subseteq BOOLEAN
  PROVE  /\ u.pointReps \in BOOLEAN /\ u.fanned \in BOOLEAN
         /\ \/ ~Maintains /\ u.mesh = mesh /\ u.fanned = fanned
            \/ /\ Maintains /\ keepsPointReps /\ u.fanned = (fanned /\ ~HasDeleted)
               /\ \E kept \in BOOLEAN : \E m \in PointRepsOf(mesh, kept) :
                    kept = (hasPointReps /\ ~DropsPointReps) /\ u.mesh = Connected(Repacked(m))
            \/ /\ Maintains /\ ~keepsPointReps /\ u.fanned = fanned
               /\ u.mesh = Connected(mesh)
<1> DEFINE kept == hasPointReps /\ ~DropsPointReps
<1>1. kept \in BOOLEAN /\ (fanned /\ ~HasDeleted) \in BOOLEAN
  BY Zenon
<1>2. CASE ~Maintains
  <2>1. u = [mesh |-> mesh, pointReps |-> hasPointReps, fanned |-> fanned]
    BY <1>2, Zenon DEF Updates
  <2> QED
    BY <1>2, <2>1
<1>3. CASE Maintains /\ keepsPointReps
  <2>1. PICK m \in PointRepsOf(mesh, kept) :
          u = [mesh |-> Connected(Repacked(m)), pointReps |-> TRUE,
               fanned |-> fanned /\ ~HasDeleted]
    BY <1>3, Zenon DEF Updates
  <2> HIDE DEF kept
  <2>2. /\ u.mesh = Connected(Repacked(m)) /\ u.pointReps = TRUE
        /\ u.fanned = (fanned /\ ~HasDeleted)
    BY <2>1
  <2> QED
    BY <1>1, <1>3, <2>2, Zenon DEF kept
<1>4. CASE Maintains /\ ~keepsPointReps
  <2>1. u = [mesh |-> Connected(mesh), pointReps |-> kept, fanned |-> fanned]
    BY <1>4, Zenon DEF Updates
  <2> HIDE DEF kept
  <2> QED
    BY <1>1, <1>4, <2>1
<1> QED
  BY <1>2, <1>3, <1>4

(* What updateFromEdits leaves is a mesh. *)
LEMMA UpdateIsMesh ==
  ASSUME NEW u \in Updates, {keepsPointReps, hasPointReps, fanned} \subseteq BOOLEAN, IsMesh(mesh)
  PROVE  IsMesh(u.mesh)
<1>1. ASSUME NEW kept \in BOOLEAN, NEW m \in PointRepsOf(mesh, kept) PROVE IsMesh(m)
  BY PointRepsKeep DEF IsMesh
<1> QED
  BY <1>1, UpdatesAre, RepackedIsMesh, ConnectedIsMesh

(* addVertex keeps the types. *)
LEMMA AddVertexTyped == TypeInv /\ AddVertex => TypeInv'
<1> SUFFICES ASSUME TypeInv, AddVertex PROVE TypeInv'
  OBVIOUS
<1>1. PICK v \in Nat, h \in Nat, p \in Nat : mesh \in Meshes(v, h, p)
  BY DEF TypeInv, IsMesh
<1>2. PICK pos \in Positions : mesh' = WithVertex(mesh, pos)
  BY Zenon DEF AddVertex, WithVertex, vertices
<1>3. mesh' \in Meshes(v + 1, h, p)
  BY <1>1, <1>2, WithVertexIs
<1>4. v + 1 \in Nat
  OBVIOUS
<1> QED
  BY <1>3, <1>4 DEF TypeInv, IsMesh, AddVertex

(* The corners a caller makes a polygon of. *)
LEMMA FaceIs ==
  ASSUME NEW v \in Nat, NEW h \in Nat, NEW p \in Nat, NEW m \in Meshes(v, h, p),
         NEW face \in Faces, \A k \in DOMAIN face : Live(m.vertices, face[k])
  PROVE  \E n \in Nat : /\ face \in [1..n -> 1..v]
                        /\ \A k \in 1..n : m.vertices[face[k]].live
<1>1. face \in Seq(1..MaxVertices)
  BY MeshAssumption
<1>2. Len(face) \in Nat /\ face \in [1..Len(face) -> 1..MaxVertices] /\ DOMAIN face = 1..Len(face)
  BY <1>1, LenProperties
<1>3. Len(m.vertices) = v
  BY Sizes
<1>4. \A k \in 1..Len(face) : face[k] \in 1..v /\ m.vertices[face[k]].live
  BY <1>2, <1>3 DEF Live
<1>5. face = [k \in 1..Len(face) |-> face[k]]
  BY <1>2
<1> QED
  BY <1>2, <1>4, <1>5

(* addPolygon keeps the types. *)
LEMMA AddPolygonTyped == TypeInv /\ AddPolygon => TypeInv'
<1> SUFFICES ASSUME TypeInv, AddPolygon PROVE TypeInv'
  OBVIOUS
<1>1. PICK v \in Nat, h \in Nat, p \in Nat : mesh \in Meshes(v, h, p)
  BY DEF TypeInv, IsMesh
<1>2. PICK face \in Faces : /\ \A k \in DOMAIN face : Live(mesh.vertices, face[k])
                            /\ mesh' = WithPolygon(mesh, face)
  BY DEF AddPolygon, vertices
<1>3. PICK n \in Nat : /\ face \in [1..n -> 1..v]
                       /\ \A k \in 1..n : mesh.vertices[face[k]].live
  BY <1>1, <1>2, FaceIs
<1>4. mesh' \in Meshes(v, h + n, p + 1)
  BY <1>1, <1>2, <1>3, WithPolygonIs
<1>5. h + n \in Nat /\ p + 1 \in Nat
  OBVIOUS
<1> QED
  BY <1>4, <1>5 DEF TypeInv, IsMesh, AddPolygon

(* Merging similar vertices keeps the types. *)
LEMMA WeldTyped == TypeInv /\ Weld => TypeInv'
<1> SUFFICES ASSUME TypeInv, Weld PROVE TypeInv'
  OBVIOUS
<1>1. PICK v \in Nat, h \in Nat, p \in Nat : mesh \in Meshes(v, h, p)
  BY DEF TypeInv, IsMesh
<1>2. PICK m : /\ m \in IF hasPointReps THEN {mesh} ELSE PointRepsOf(mesh, FALSE)
               /\ mesh' = Welded(m)
  BY DEF Weld
<1>3. m \in Meshes(v, h, p)
  BY <1>1, <1>2, PointRepsKeep
<1>4. IsMesh(mesh')
  BY <1>2, <1>3, WeldedIsMesh DEF IsMesh
<1>5. torn' \in BOOLEAN /\ edits' \subseteq Edit /\ hasPointReps' = TRUE
  BY DEF Weld, TypeInv, Edit
<1> QED
  BY <1>4, <1>5 DEF TypeInv, Weld

(* updateFromEdits keeps the types. *)
LEMMA UpdateTyped == TypeInv /\ Update => TypeInv'
<1> SUFFICES ASSUME TypeInv, Update PROVE TypeInv'
  OBVIOUS
<1>1. PICK u \in Updates : mesh' = u.mesh /\ hasPointReps' = u.pointReps /\ fanned' = u.fanned
  BY DEF Update
<1>2. u.pointReps \in BOOLEAN /\ u.fanned \in BOOLEAN /\ IsMesh(u.mesh)
  BY UpdatesAre, UpdateIsMesh DEF TypeInv
<1> QED
  BY <1>1, <1>2 DEF TypeInv, Update

(* triangulate keeps the types. *)
LEMMA TriangulateTyped == TypeInv /\ Triangulate => TypeInv'
<1> SUFFICES ASSUME TypeInv, Triangulate PROVE TypeInv'
  OBVIOUS
<1>1. PICK u \in Updates : /\ mesh' = Fanned(u.mesh) /\ hasPointReps' = u.pointReps
                           /\ fanned' = (u.fanned \/ mesh' # u.mesh)
  BY Zenon DEF Triangulate, Fanned
<1>2. u.pointReps \in BOOLEAN /\ u.fanned \in BOOLEAN /\ IsMesh(u.mesh)
  BY UpdatesAre, UpdateIsMesh DEF TypeInv
<1>3. IsMesh(mesh') /\ fanned' \in BOOLEAN
  BY <1>1, <1>2, FannedIsMesh
<1> QED
  BY <1>1, <1>2, <1>3 DEF TypeInv, Triangulate

(* transform keeps the types. *)
LEMMA TransformTyped == TypeInv /\ Transform => TypeInv'
<1> SUFFICES ASSUME TypeInv, Transform PROVE TypeInv'
  OBVIOUS
<1>1. PICK v \in Nat, h \in Nat, p \in Nat : mesh \in Meshes(v, h, p)
  BY DEF TypeInv, IsMesh
<1>2. PICK to \in Transforms : mesh' = Transformed(mesh, to)
  BY Zenon DEF Transform, Transformed
<1>3. to \in [Positions -> Positions]
  BY MeshAssumption
<1>4. mesh' \in Meshes(v, h, p)
  BY <1>1, <1>2, <1>3, TransformedIs
<1>5. edited' \in 0..MaxEdits /\ edits' \subseteq Edit
  <2>1. MaxEdits \in Nat /\ edited < MaxEdits /\ edited' = edited + 1 /\ edited \in 0..MaxEdits
    BY MeshAssumption DEF Transform, TypeInv
  <2>2. edited' \in 0..MaxEdits
    BY <2>1
  <2>3. edits' \subseteq Edit
    BY DEF Transform, TypeInv, Edit
  <2> QED
    BY <2>2, <2>3
<1> QED
  BY <1>4, <1>5 DEF TypeInv, IsMesh, Transform

(* updateEditState keeps the types. *)
LEMMA UpdateEditStateTyped == TypeInv /\ UpdateEditState => TypeInv'
<1> SUFFICES ASSUME TypeInv, UpdateEditState PROVE TypeInv'
  OBVIOUS
<1>1. edited' \in 0..MaxEdits /\ edits' \subseteq Edit
  BY MeshAssumption DEF UpdateEditState, TypeInv
<1> QED
  BY <1>1 DEF TypeInv, UpdateEditState, IsMesh

(* Removing a polygon keeps the types. *)
LEMMA RemovePolygonTyped == TypeInv /\ RemovePolygon => TypeInv'
<1> SUFFICES ASSUME TypeInv, RemovePolygon PROVE TypeInv'
  OBVIOUS
<1>1. PICK v \in Nat, h \in Nat, p \in Nat : mesh \in Meshes(v, h, p)
  BY DEF TypeInv, IsMesh
<1>2. PICK q \in DOMAIN mesh.polygons : mesh' = Emptied(Removed(mesh, q), q)
  BY Zenon DEF RemovePolygon, polygons, Removed, Emptied
<1>3. q \in 1..p
  BY <1>1, Sizes
<1>4. mesh' \in Meshes(v, h, p)
  BY <1>1, <1>2, <1>3, RemovedIsMesh, EmptiedIs
<1>5. edited' \in 0..MaxEdits /\ torn' \in BOOLEAN
  BY MeshAssumption DEF RemovePolygon, TypeInv
<1> QED
  BY <1>4, <1>5 DEF TypeInv, IsMesh, RemovePolygon

(* The empty mesh has its type. *)
LEMMA InitTyped == Init => TypeInv
<1> SUFFICES ASSUME Init PROVE TypeInv
  OBVIOUS
<1>1. mesh \in Meshes(0, 0, 0)
  BY DEF Init, Meshes
<1>2. IsMesh(mesh)
  BY <1>1 DEF IsMesh
<1>3. edited = 0 /\ 0 \in 0..MaxEdits
  BY MeshAssumption DEF Init
<1> QED
  BY <1>2, <1>3 DEF Init, TypeInv

(* Every step keeps the types. *)
LEMMA NextTyped == TypeInv /\ [Next]_vars => TypeInv'
<1> SUFFICES ASSUME TypeInv, [Next]_vars PROVE TypeInv'
  OBVIOUS
<1>1. CASE UNCHANGED vars
  BY <1>1 DEF vars, TypeInv, IsMesh
<1> QED
  BY <1>1, AddVertexTyped, AddPolygonTyped, WeldTyped, UpdateTyped, TriangulateTyped,
     TransformTyped, UpdateEditStateTyped, RemovePolygonTyped DEF Next

(* The inductive type invariant holds. *)
LEMMA Typed == Spec => []TypeInv
BY InitTyped, NextTyped, PTL DEF Spec

(* The containers of a mesh refer to each other within their sizes,
   whatever operations were called and in whatever order: no index is ever
   out of range. *)
THEOREM MeshTypes == Spec => []MeshTypeOK
BY Typed, TypeGives, PTL

-----------------------------------------------------------------------------
(* What holds between the elements of a mesh *)

(* A vertex's ring leads to one of its place, and no two to the same. *)
RingOK(m) ==
  \A u \in LiveVertices(m) :
    /\ m.ring[u] \in LiveVertices(m)
    /\ m.vertices[m.ring[u]].position = m.vertices[u].position
    /\ \A w \in LiveVertices(m) : m.ring[w] = m.ring[u] => w = u

(* Half edges are between vertices, which have them in their lists until vertices *)
(* are welded; what a list has besides was deleted or is elsewhere by now.        *)
NotedOK(m) ==
  /\ \A x \in LiveEdges(m) : Ends(m.halfEdges[x]) \subseteq LiveVertices(m)
  /\ LiveVertices(m) = DOMAIN m.vertices =>
       \A x \in LiveEdges(m) : \A u \in Ends(m.halfEdges[x]) : x \in m.vertices[u].halfEdges
  /\ \A u \in LiveVertices(m) : \A g \in m.vertices[u].halfEdges :
       g \in LiveEdges(m) \/ u \notin Ends(m.halfEdges[g])

(* LoopsOK is about half edges and polygons only. *)
LEMMA LoopsOnly ==
  ASSUME NEW m, NEW r, NEW stale, r.halfEdges = m.halfEdges, r.polygons = m.polygons,
         LoopsOK(m, stale)
  PROVE  LoopsOK(r, stale)
<1>1. LiveEdges(r) = LiveEdges(m)
  BY DEF LiveEdges
<1>2. NextOK(r)
  BY <1>1, Zenon DEF NextOK, LoopsOK
<1>3. LinksOK(r, stale)
  BY <1>1, Zenon DEF LinksOK, LoopsOK
<1>4. OwnersOK(r)
  BY <1>1, Zenon DEF OwnersOK, LoopsOK
<1>5. CyclesOK(r)
  BY <1>1, Zenon DEF CyclesOK, LoopsOK
<1> QED
  BY <1>2, <1>3, <1>4, <1>5 DEF LoopsOK

(* The prevs may be called stale where they are not. *)
LEMMA LoopsStale ==
  ASSUME NEW m, LoopsOK(m, FALSE), NEW stale
  PROVE  LoopsOK(m, stale)
BY DEF LoopsOK, LinksOK

(* RingOK is about which vertices there are, and where. *)
LEMMA RingsOnly ==
  ASSUME NEW v \in Nat, NEW h \in Nat, NEW p \in Nat, NEW m \in Meshes(v, h, p),
         NEW hh \in Nat, NEW pp \in Nat, NEW r \in Meshes(v, hh, pp),
         \A u \in 1..v : /\ r.vertices[u].live = m.vertices[u].live
                         /\ r.vertices[u].position = m.vertices[u].position
                         /\ r.ring[u] = m.ring[u],
         RingOK(m)
  PROVE  RingOK(r) /\ LiveVertices(r) = LiveVertices(m)
<1>1. DOMAIN m.vertices = 1..v /\ DOMAIN r.vertices = 1..v
  BY Sizes
<1>2. LiveVertices(r) = LiveVertices(m)
  BY <1>1 DEF LiveVertices
<1>3. LiveVertices(m) \subseteq 1..v
  BY <1>1 DEF LiveVertices
<1> QED
  BY <1>2, <1>3 DEF RingOK

(* At place k of the loop of polygon q a half edge of q is followed by the next one. *)
LoopAt(m, q, stale, k) ==
  LET loop == Loop(m, q)
      e == m.halfEdges[loop[k]]
      f == m.halfEdges[loop[(k % Len(loop)) + 1]]
  IN  /\ e.live /\ e.polygon = q
      /\ e.next = loop[(k % Len(loop)) + 1] /\ e.end = f.start
      /\ stale \/ f.prev = loop[k]

(* The half edges of a loop follow each other around. *)
LEMMA LoopsGive ==
  ASSUME NEW v \in Nat, NEW h \in Nat, NEW p \in Nat, NEW m \in Meshes(v, h, p), NEW q \in 1..p,
         NEW stale, LoopsOK(m, stale), NEW k \in DOMAIN Loop(m, q)
  PROVE  LoopAt(m, q, stale, k)
<1> DEFINE loop == Loop(m, q)
           n == Len(loop)
           after == (k % n) + 1
<1>1. IsClosed(h, m, q, loop)
  BY LoopCloses DEF LoopsOK
<1>2. \A i \in 1..n : m.halfEdges[loop[i]].polygon = q
  <2>1. HasItsOwn(m, q, loop)
    BY LoopHasAll
  <2> QED
    BY <2>1, Zenon DEF HasItsOwn
<1> HIDE DEF loop
<1>3. /\ n \in Nat /\ DOMAIN loop = 1..n
      /\ \A i \in 1..n : loop[i] \in LiveEdges(m)
      /\ \A i \in 1..n : m.halfEdges[loop[i]].next = loop[IF i = n THEN 1 ELSE i + 1]
  <2>1. /\ n \in 0..h /\ loop \in [1..n -> LiveEdges(m)]
        /\ \A i \in 1..n : m.halfEdges[loop[i]].next = loop[IF i = n THEN 1 ELSE i + 1]
    BY <1>1, Zenon DEF IsClosed
  <2> HIDE DEF n
  <2>2. n \in Nat
    BY <2>1
  <2> QED
    BY <2>1, <2>2
<1> HIDE DEF n
<1>4. k \in 1..n
  BY <1>3 DEF loop
<1>5. after = IF k = n THEN 1 ELSE k + 1
  BY <1>3, <1>4, Cyclic
<1> HIDE DEF after
<1>6. loop[k] \in LiveEdges(m) /\ m.halfEdges[loop[k]].next = loop[after]
  BY <1>3, <1>4, <1>5
<1>7. /\ m.halfEdges[loop[after]].start = m.halfEdges[loop[k]].end
      /\ stale \/ m.halfEdges[loop[after]].prev = loop[k]
  <2>1. LinksOK(m, stale)
    BY DEF LoopsOK
  <2> QED
    BY <1>6, <2>1, Zenon DEF LinksOK
<1>8. m.halfEdges[loop[k]].live /\ m.halfEdges[loop[k]].polygon = q
  BY <1>2, <1>4, <1>6 DEF LiveEdges
<1> QED
  BY <1>6, <1>7, <1>8 DEF LoopAt, after, loop, n

-----------------------------------------------------------------------------
(* A vertex added *)

(* A new vertex keeps the rings, the loops and the lists. *)
LEMMA WithVertexOK ==
  ASSUME NEW v \in Nat, NEW h \in Nat, NEW p \in Nat, NEW m \in Meshes(v, h, p),
         NEW pos \in Positions, NEW stale
  PROVE  LET r == WithVertex(m, pos)
         IN  /\ RingOK(m) => RingOK(r)
             /\ LoopsOK(m, stale) => LoopsOK(r, stale)
             /\ NotedOK(m) => NotedOK(r)
<1> DEFINE r == WithVertex(m, pos)
<1>1. r \in Meshes(v + 1, h, p) /\ IsWithVertex(v, m, pos, r)
  BY WithVertexIs
<1> HIDE DEF r
<1>2. v + 1 \in Nat /\ 1..v+1 = (1..v) \cup {v + 1} /\ v + 1 \notin 1..v
  OBVIOUS
<1>3. DOMAIN m.vertices = 1..v /\ DOMAIN r.vertices = 1..v+1
  BY <1>1, <1>2, Sizes
<1>4. /\ \A u \in 1..v : r.vertices[u] = m.vertices[u] /\ r.ring[u] = m.ring[u]
      /\ r.vertices[v + 1] = [position |-> pos, live |-> TRUE, halfEdges |-> {}]
      /\ r.ring[v + 1] = v + 1
      /\ r.halfEdges = m.halfEdges /\ r.polygons = m.polygons
  BY <1>1 DEF IsWithVertex
<1>5. r.vertices[v + 1].live /\ r.vertices[v + 1].halfEdges = {}
  BY <1>4
<1>6. LiveVertices(r) = LiveVertices(m) \cup {v + 1} /\ LiveVertices(m) \subseteq 1..v
  BY <1>2, <1>3, <1>4, <1>5 DEF LiveVertices
<1>7. LiveEdges(r) = LiveEdges(m)
  BY <1>4 DEF LiveEdges
<1>8. RingOK(m) => RingOK(r)
  BY <1>2, <1>4, <1>6 DEF RingOK
<1>9. LoopsOK(m, stale) => LoopsOK(r, stale)
  BY <1>4, LoopsOnly
<1>10. ASSUME NotedOK(m) PROVE NotedOK(r)
  <2>1. \A x \in LiveEdges(r) : Ends(r.halfEdges[x]) \subseteq LiveVertices(r)
    BY <1>4, <1>6, <1>7, <1>10 DEF NotedOK
  <2>2. ASSUME LiveVertices(r) = DOMAIN r.vertices,
               NEW x \in LiveEdges(r), NEW u \in Ends(r.halfEdges[x])
        PROVE  x \in r.vertices[u].halfEdges
    <3>1. LiveVertices(m) = DOMAIN m.vertices
      BY <1>2, <1>3, <1>6, <2>2
    <3>2. x \in LiveEdges(m) /\ u \in Ends(m.halfEdges[x])
      BY <1>4, <1>7
    <3>3. u \in LiveVertices(m) /\ x \in m.vertices[u].halfEdges
      BY <1>10, <3>1, <3>2 DEF NotedOK
    <3> QED
      BY <1>4, <1>6, <3>3
  <2>3. ASSUME NEW u \in LiveVertices(r), NEW g \in r.vertices[u].halfEdges
        PROVE  g \in LiveEdges(r) \/ u \notin Ends(r.halfEdges[g])
    <3>1. u \in LiveVertices(m) /\ r.vertices[u] = m.vertices[u]
      BY <1>4, <1>5, <1>6
    <3> QED
      BY <1>4, <1>7, <1>10, <2>3, <3>1 DEF NotedOK
  <2> QED
    BY <2>1, <2>2, <2>3 DEF NotedOK
<1> QED
  BY <1>8, <1>9, <1>10 DEF r

(* Going on from a place in a circle, every place is reached. *)
LEMMA AroundAll ==
  ASSUME NEW n \in Nat, NEW k \in 1..n, NEW S, k \in S,
         \A j \in 1..n : j \in S => After(n, j) \in S
  PROVE  1..n \subseteq S
<1> DEFINE T == {i \in 0..n-k : k + i \in S}
           U == {i \in 0..n-1 : i + 1 \in S}
<1>1. n \in S
  <2>1. n - k \in Nat
    OBVIOUS
  <2>2. 0 \in T
    BY <2>1
  <2>3. \A i \in 0..n-k : i < n - k /\ i \in T => i + 1 \in T
    <3> SUFFICES ASSUME NEW i \in 0..n-k, i < n - k, k + i \in S PROVE k + (i + 1) \in S
      BY DEF T
    <3>1. k + i \in 1..n /\ k + i # n /\ (k + i) + 1 = k + (i + 1)
      OBVIOUS
    <3>2. After(n, k + i) = (k + i) + 1
      BY <3>1 DEF After
    <3> QED
      BY <3>1, <3>2
  <2> HIDE DEF T
  <2>4. 0..n-k \subseteq T
    BY <2>1, <2>2, <2>3, UpTo
  <2>5. n - k \in 0..n-k /\ k + (n - k) = n
    BY <2>1
  <2> QED
    BY <2>4, <2>5 DEF T
<1>2. 1 \in S
  BY <1>1 DEF After
<1>3. n - 1 \in Nat
  OBVIOUS
<1>4. 0 \in U
  BY <1>2, <1>3
<1>5. \A i \in 0..n-1 : i < n - 1 /\ i \in U => i + 1 \in U
  <2> SUFFICES ASSUME NEW i \in 0..n-1, i < n - 1, i + 1 \in S PROVE (i + 1) + 1 \in S
    BY DEF U
  <2>1. i + 1 \in 1..n /\ i + 1 # n
    OBVIOUS
  <2> QED
    BY <2>1 DEF After
<1> HIDE DEF U
<1>6. 0..n-1 \subseteq U
  BY <1>3, <1>4, <1>5, UpTo
<1>7. ASSUME NEW j \in 1..n PROVE j \in S
  <2>1. j - 1 \in 0..n-1 /\ (j - 1) + 1 = j
    OBVIOUS
  <2> QED
    BY <1>6, <2>1 DEF U
<1> QED
  BY <1>7

(* Before and After undo each other. *)
LEMMA Circle ==
  ASSUME NEW n \in Nat, NEW k \in 1..n
  PROVE  /\ After(n, k) \in 1..n /\ Before(n, k) \in 1..n
         /\ Before(n, After(n, k)) = k /\ After(n, Before(n, k)) = k
         /\ \A j \in 1..n : After(n, j) = After(n, k) => j = k
BY DEF After, Before

-----------------------------------------------------------------------------
(* A polygon added *)

(* A vertex whose list is another. *)
LEMMA ListChanged ==
  ASSUME NEW h, NEW x \in VertexOf(h), NEW list
  PROVE  LET y == [x EXCEPT !.halfEdges = list]
         IN  y.live = x.live /\ y.position = x.position /\ y.halfEdges = list
BY DEF VertexOf

(* A new polygon is a loop of its own, and the others stay as they are. *)
LEMMA WithPolygonLoops ==
  ASSUME NEW v \in Nat, NEW h \in Nat, NEW p \in Nat, NEW m \in Meshes(v, h, p),
         NEW n \in Nat, NEW face \in [1..n -> 1..v],
         NEW r \in Meshes(v, h + n, p + 1), IsWithPolygon(v, h, p, m, face, n, r),
         NEW stale \in BOOLEAN, LoopsOK(m, stale)
  PROVE  LoopsOK(r, stale)
<1>1. /\ NextOK(m) /\ LinksOK(m, stale) /\ OwnersOK(m) /\ CyclesOK(m)
  BY DEF LoopsOK
<1>2. /\ h + n \in Nat /\ p + 1 \in Nat
      /\ \A x \in 1..h+n : x \in 1..h \/ \E k \in 1..n : x = h + k
      /\ \A k \in 1..n : h + k \in 1..h+n /\ h + k \notin 1..h
      /\ 1..h \subseteq 1..h+n
  <2>1. ASSUME NEW x \in 1..h+n, x \notin 1..h PROVE \E k \in 1..n : x = h + k
    <3>1. x - h \in 1..n /\ x = h + (x - h)
      BY <2>1
    <3> QED
      BY <3>1
  <2> QED
    BY <2>1
<1>3. /\ \A x \in 1..h : r.halfEdges[x] = m.halfEdges[x]
      /\ \A k \in 1..n : r.halfEdges[h + k] = NewEdge(h, p, face, n, k)
      /\ \A q \in 1..p : r.polygons[q] = m.polygons[q]
      /\ r.polygons[p+1] = [any |-> IF n = 0 THEN 0 ELSE h + 1, live |-> TRUE]
  BY DEF IsWithPolygon
<1>4. \A k \in 1..n :
        /\ r.halfEdges[h + k].live /\ r.halfEdges[h + k].polygon = p + 1
        /\ r.halfEdges[h + k].next = h + After(n, k)
        /\ r.halfEdges[h + k].prev = h + Before(n, k)
        /\ r.halfEdges[h + k].start = face[k] /\ r.halfEdges[h + k].end = face[After(n, k)]
  <2> TAKE k \in 1..n
  <2>1. r.halfEdges[h + k] = NewEdge(h, p, face, n, k)
    BY <1>3
  <2> QED
    BY <2>1 DEF NewEdge
<1>5. /\ LiveEdges(m) \subseteq 1..h /\ LiveEdges(r) \subseteq 1..h+n
      /\ \A x \in 1..h : x \in LiveEdges(m) <=> m.halfEdges[x].live
      /\ \A x \in 1..h+n : x \in LiveEdges(r) <=> r.halfEdges[x].live
  BY <1>2, LiveAre
<1>6. /\ \A x \in 1..h : x \in LiveEdges(r) <=> x \in LiveEdges(m)
      /\ \A k \in 1..n : h + k \in LiveEdges(r)
      /\ \A x \in LiveEdges(r) : x \in LiveEdges(m) \/ \E k \in 1..n : x = h + k
  <2>1. \A x \in 1..h : x \in LiveEdges(r) <=> x \in LiveEdges(m)
    BY <1>2, <1>3, <1>5
  <2>2. \A k \in 1..n : h + k \in LiveEdges(r)
    BY <1>2, <1>4, <1>5
  <2> QED
    BY <1>2, <1>5, <2>1, <2>2
<1>7. \A k \in 1..n : After(n, k) \in 1..n
  BY Circle
<1>8. \A k, j \in 1..n : After(n, j) = After(n, k) => j = k
  BY Circle
<1>9. \A k \in 1..n : Before(n, After(n, k)) = k
  BY Circle
<1>10. DOMAIN m.polygons = 1..p /\ DOMAIN r.polygons = 1..p+1
  BY <1>2, Sizes
<1>11. NextOK(r)
  <2>1. ASSUME NEW g \in LiveEdges(r) PROVE r.halfEdges[g].next \in LiveEdges(r)
    <3>1. CASE g \in LiveEdges(m)
      BY <1>1, <1>3, <1>5, <1>6, <3>1 DEF NextOK
    <3>2. ASSUME NEW k \in 1..n, g = h + k PROVE r.halfEdges[g].next \in LiveEdges(r)
      <4>1. r.halfEdges[g].next = h + After(n, k)
        BY <1>4, <3>2
      <4>2. h + After(n, k) \in LiveEdges(r)
        BY <1>6, <1>7
      <4> QED
        BY <4>1, <4>2
    <3> QED
      BY <1>6, <3>1, <3>2
  <2>2. ASSUME NEW g \in LiveEdges(r), NEW f \in LiveEdges(r),
               r.halfEdges[f].next = r.halfEdges[g].next
        PROVE  f = g
    <3>1. CASE g \in LiveEdges(m) /\ f \in LiveEdges(m)
      BY <1>1, <1>3, <1>5, <2>2, <3>1 DEF NextOK
    <3>2. \A x \in LiveEdges(m) : r.halfEdges[x].next \in 1..h
      BY <1>1, <1>3, <1>5 DEF NextOK
    <3>3. ASSUME NEW k \in 1..n PROVE r.halfEdges[h + k].next \notin 1..h
      <4>1. r.halfEdges[h + k].next = h + After(n, k)
        BY <1>4
      <4>2. h + After(n, k) \notin 1..h
        BY <1>2, <1>7
      <4> QED
        BY <4>1, <4>2
    <3>4. ASSUME NEW k \in 1..n, NEW j \in 1..n, g = h + k, f = h + j PROVE f = g
      <4>1. h + After(n, j) = h + After(n, k)
        BY <1>4, <2>2, <3>4
      <4>2. After(n, j) \in 1..n /\ After(n, k) \in 1..n
        BY <1>7, Zenon
      <4>3. After(n, j) = After(n, k)
        BY <4>1, <4>2
      <4> QED
        BY <1>8, <3>4, <4>3
    <3> QED
      BY <1>6, <2>2, <3>1, <3>2, <3>3, <3>4
  <2> QED
    BY <2>1, <2>2 DEF NextOK
<1>12. LinksOK(r, stale)
  <2> SUFFICES ASSUME NEW g \in LiveEdges(r)
               PROVE  LET e == r.halfEdges[g]
                          f == r.halfEdges[e.next]
                      IN  f.polygon = e.polygon /\ f.start = e.end /\ (stale \/ f.prev = g)
    BY DEF LinksOK
  <2>1. CASE g \in LiveEdges(m)
    <3>1. /\ m.halfEdges[g].next \in LiveEdges(m)
          /\ r.halfEdges[g] = m.halfEdges[g]
          /\ r.halfEdges[m.halfEdges[g].next] = m.halfEdges[m.halfEdges[g].next]
      BY <1>1, <1>3, <1>5, <2>1 DEF NextOK
    <3> QED
      BY <1>1, <2>1, <3>1, Zenon DEF LinksOK
  <2>2. ASSUME NEW k \in 1..n, g = h + k
        PROVE  LET e == r.halfEdges[g]
                   f == r.halfEdges[e.next]
               IN  f.polygon = e.polygon /\ f.start = e.end /\ (stale \/ f.prev = g)
    <3> DEFINE j == After(n, k)
    <3>1. j \in 1..n /\ Before(n, j) = k
      BY <1>7, <1>9
    <3>2. /\ r.halfEdges[g].polygon = p + 1 /\ r.halfEdges[g].next = h + j
          /\ r.halfEdges[g].end = face[j]
      BY <1>4, <2>2
    <3> HIDE DEF j
    <3>3. /\ r.halfEdges[h + j].polygon = p + 1 /\ r.halfEdges[h + j].start = face[j]
          /\ r.halfEdges[h + j].prev = g
      <4>1. r.halfEdges[h + j].prev = h + Before(n, j)
        BY <1>4, <3>1
      <4>2. r.halfEdges[h + j].polygon = p + 1 /\ r.halfEdges[h + j].start = face[j]
        BY <1>4, <3>1
      <4> QED
        BY <2>2, <3>1, <4>1, <4>2
    <3> QED
      BY <3>2, <3>3
  <2> QED
    BY <1>6, <2>1, <2>2
<1>13. OwnersOK(r)
  <2>1. ASSUME NEW g \in LiveEdges(r)
        PROVE  /\ r.halfEdges[g].polygon \in DOMAIN r.polygons
               /\ r.polygons[r.halfEdges[g].polygon].any # Invalid
    <3>1. CASE g \in LiveEdges(m)
      <4> DEFINE o == m.halfEdges[g].polygon
      <4>1. o \in 1..p /\ m.polygons[o].any # Invalid
        BY <1>1, <1>10, <3>1, Zenon DEF OwnersOK
      <4>2. r.halfEdges[g] = m.halfEdges[g]
        BY <1>3, <1>5, <3>1
      <4> HIDE DEF o
      <4>3. o \in 1..p+1 /\ r.polygons[o] = m.polygons[o]
        BY <1>3, <4>1
      <4> QED
        BY <1>10, <4>1, <4>2, <4>3 DEF o
    <3>2. ASSUME NEW k \in 1..n, g = h + k
          PROVE  /\ r.halfEdges[g].polygon \in DOMAIN r.polygons
                 /\ r.polygons[r.halfEdges[g].polygon].any # Invalid
      BY <1>3, <1>4, <1>10, <3>2 DEF Invalid
    <3> QED
      BY <1>6, <3>1, <3>2
  <2>2. ASSUME NEW q \in DOMAIN r.polygons, r.polygons[q].any # Invalid
        PROVE  /\ r.polygons[q].live /\ r.polygons[q].any \in LiveEdges(r)
               /\ r.halfEdges[r.polygons[q].any].polygon = q
    <3>1. CASE q \in 1..p
      <4> DEFINE any == m.polygons[q].any
      <4>1. r.polygons[q] = m.polygons[q]
        BY <1>3, <3>1
      <4>2. m.polygons[q].live /\ any \in LiveEdges(m) /\ m.halfEdges[any].polygon = q
        BY <1>1, <1>10, <2>2, <3>1, <4>1, Zenon DEF OwnersOK
      <4> HIDE DEF any
      <4>3. any \in LiveEdges(r) /\ r.halfEdges[any] = m.halfEdges[any]
        BY <1>3, <1>5, <1>6, <4>2
      <4> QED
        BY <4>1, <4>2, <4>3 DEF any
    <3>2. CASE q = p + 1
      <4>1. n # 0
        BY <1>3, <2>2, <3>2 DEF Invalid
      <4>2. 1 \in 1..n
        BY <4>1
      <4> QED
        BY <1>3, <1>4, <1>6, <3>2, <4>1, <4>2
    <3> QED
      BY <1>10, <3>1, <3>2
  <2> QED
    BY <2>1, <2>2 DEF OwnersOK
<1>14. CyclesOK(r)
  <2> SUFFICES ASSUME NEW O \in SUBSET LiveEdges(r), \A g \in O : r.halfEdges[g].next \in O,
                      NEW g \in O, NEW f \in LiveEdges(r),
                      r.halfEdges[f].polygon = r.halfEdges[g].polygon
               PROVE  f \in O
    BY DEF CyclesOK
  <2>1. \A x \in LiveEdges(m) : r.halfEdges[x].polygon \in 1..p
    BY <1>1, <1>3, <1>5, <1>10 DEF OwnersOK
  <2>2. \A k \in 1..n : r.halfEdges[h + k].polygon \notin 1..p
    BY <1>4
  <2>3. CASE g \in LiveEdges(m)
    <3>1. f \in LiveEdges(m)
      BY <1>6, <2>1, <2>2, <2>3
    <3> DEFINE Q == O \cap LiveEdges(m)
    <3>2. Q \in SUBSET LiveEdges(m) /\ g \in Q
      BY <2>3
    <3>3. \A x \in Q : m.halfEdges[x].next \in Q
      BY <1>1, <1>3, <1>5 DEF NextOK
    <3>4. m.halfEdges[f].polygon = m.halfEdges[g].polygon
      BY <1>3, <1>5, <2>3, <3>1
    <3> HIDE DEF Q
    <3>5. f \in Q
      BY <1>1, <3>1, <3>2, <3>3, <3>4, Zenon DEF CyclesOK
    <3> QED
      BY <3>5 DEF Q
  <2>4. ASSUME NEW k \in 1..n, g = h + k PROVE f \in O
    <3>1. PICK j \in 1..n : f = h + j
      BY <1>6, <2>1, <2>2, <2>4
    <3> DEFINE S == {i \in 1..n : h + i \in O}
    <3>2. k \in S
      BY <2>4
    <3>3. \A i \in 1..n : i \in S => After(n, i) \in S
      BY <1>4, <1>7
    <3> HIDE DEF S
    <3>4. 1..n \subseteq S
      BY <3>2, <3>3, AroundAll
    <3> QED
      BY <3>1, <3>4 DEF S
  <2> QED
    BY <1>6, <2>3, <2>4
<1> QED
  BY <1>11, <1>12, <1>13, <1>14 DEF LoopsOK

(* addPolygon notes its half edges at their vertices. *)
LEMMA WithPolygonNoted ==
  ASSUME NEW v \in Nat, NEW h \in Nat, NEW p \in Nat, NEW m \in Meshes(v, h, p),
         NEW n \in Nat, NEW face \in [1..n -> 1..v], \A k \in 1..n : m.vertices[face[k]].live,
         NEW r \in Meshes(v, h + n, p + 1), IsWithPolygon(v, h, p, m, face, n, r),
         NotedOK(m)
  PROVE  NotedOK(r)
<1>1. /\ h + n \in Nat /\ p + 1 \in Nat
      /\ \A x \in 1..h+n : x \in 1..h \/ \E k \in 1..n : x = h + k
      /\ \A k \in 1..n : h + k \in 1..h+n /\ h + k \notin 1..h
      /\ 1..h \subseteq 1..h+n
  <2>1. ASSUME NEW x \in 1..h+n, x \notin 1..h PROVE \E k \in 1..n : x = h + k
    <3>1. x - h \in 1..n /\ x = h + (x - h)
      BY <2>1
    <3> QED
      BY <3>1
  <2> QED
    BY <2>1
<1>2. /\ \A x \in 1..h : r.halfEdges[x] = m.halfEdges[x]
      /\ \A k \in 1..n : r.halfEdges[h + k] = NewEdge(h, p, face, n, k)
      /\ \A u \in 1..v :
           r.vertices[u] = [m.vertices[u] EXCEPT !.halfEdges = @ \cup NewAt(h, face, n, u)]
  BY DEF IsWithPolygon
<1>3. /\ \A k \in 1..n :
           /\ r.halfEdges[h + k].live
           /\ Ends(r.halfEdges[h + k]) = {face[k], face[After(n, k)]}
      /\ \A u \in 1..v :
           /\ r.vertices[u].live = m.vertices[u].live
           /\ r.vertices[u].halfEdges = m.vertices[u].halfEdges \cup NewAt(h, face, n, u)
  <2>1. ASSUME NEW k \in 1..n
        PROVE  /\ r.halfEdges[h + k].live
               /\ Ends(r.halfEdges[h + k]) = {face[k], face[After(n, k)]}
    <3>1. r.halfEdges[h + k] = NewEdge(h, p, face, n, k)
      BY <1>2
    <3> QED
      BY <3>1 DEF NewEdge, Ends
  <2>2. ASSUME NEW u \in 1..v
        PROVE  /\ r.vertices[u].live = m.vertices[u].live
               /\ r.vertices[u].halfEdges = m.vertices[u].halfEdges \cup NewAt(h, face, n, u)
    <3>1. r.vertices[u] = [m.vertices[u] EXCEPT !.halfEdges = @ \cup NewAt(h, face, n, u)]
      BY <1>2, Zenon
    <3> QED
      BY <3>1, ListChanged, VertexFields
  <2> QED
    BY <2>1, <2>2
<1>4. /\ LiveEdges(m) \subseteq 1..h /\ LiveEdges(r) \subseteq 1..h+n
      /\ \A x \in 1..h : x \in LiveEdges(m) <=> m.halfEdges[x].live
      /\ \A x \in 1..h+n : x \in LiveEdges(r) <=> r.halfEdges[x].live
      /\ LiveVertices(m) \subseteq 1..v /\ LiveVertices(r) \subseteq 1..v
      /\ \A u \in 1..v : u \in LiveVertices(m) <=> m.vertices[u].live
      /\ \A u \in 1..v : u \in LiveVertices(r) <=> r.vertices[u].live
  BY <1>1, LiveAre
<1>5. /\ \A x \in 1..h : x \in LiveEdges(r) <=> x \in LiveEdges(m)
      /\ \A k \in 1..n : h + k \in LiveEdges(r)
      /\ \A x \in LiveEdges(r) : x \in LiveEdges(m) \/ \E k \in 1..n : x = h + k
      /\ LiveVertices(r) = LiveVertices(m)
  BY <1>1, <1>2, <1>3, <1>4
<1>6. \A k \in 1..n : After(n, k) \in 1..n
  BY Circle
<1>7. \A u \in 1..v : /\ m.vertices[u].halfEdges \subseteq 1..h
                      /\ \A k \in 1..n : h + k \in NewAt(h, face, n, u)
                           <=> u \in {face[k], face[After(n, k)]}
                      /\ \A g \in NewAt(h, face, n, u) : \E k \in 1..n : g = h + k
  <2>1. ASSUME NEW u \in 1..v, NEW k \in 1..n, h + k \in NewAt(h, face, n, u)
        PROVE  u \in {face[k], face[After(n, k)]}
    <3>1. PICK j \in 1..n : h + k = h + j /\ u \in {face[j], face[After(n, j)]}
      BY <2>1 DEF NewAt
    <3>2. j = k
      BY <3>1
    <3> QED
      BY <3>1, <3>2
  <2> QED
    <3> TAKE u \in 1..v
    <3>1. m.vertices[u].halfEdges \subseteq 1..h
      BY VertexFields
    <3>2. \A k \in 1..n : u \in {face[k], face[After(n, k)]} => h + k \in NewAt(h, face, n, u)
      BY Zenon DEF NewAt
    <3>3. \A g \in NewAt(h, face, n, u) : \E k \in 1..n : g = h + k
      BY Zenon DEF NewAt
    <3> QED
      BY <2>1, <3>1, <3>2, <3>3
<1>8. DOMAIN m.vertices = 1..v /\ DOMAIN r.vertices = 1..v
  BY <1>1, Sizes
<1>9. \A x \in LiveEdges(r) : Ends(r.halfEdges[x]) \subseteq LiveVertices(r)
  <2>1. \A x \in LiveEdges(m) : Ends(r.halfEdges[x]) \subseteq LiveVertices(r)
    BY <1>2, <1>4, <1>5 DEF NotedOK
  <2>2. \A k \in 1..n : Ends(r.halfEdges[h + k]) \subseteq LiveVertices(r)
    <3> TAKE k \in 1..n
    <3> DEFINE j == After(n, k)
    <3>1. j \in 1..n
      BY <1>6, Zenon
    <3>2. Ends(r.halfEdges[h + k]) = {face[k], face[j]}
      BY <1>3
    <3> HIDE DEF j
    <3> QED
      BY <1>4, <1>5, <3>1, <3>2
  <2> QED
    BY <1>5, <2>1, <2>2
<1>10. ASSUME LiveVertices(r) = DOMAIN r.vertices,
              NEW x \in LiveEdges(r), NEW u \in Ends(r.halfEdges[x])
       PROVE  x \in r.vertices[u].halfEdges
  <2>1. u \in 1..v
    BY <1>4, <1>9, <1>10
  <2>2. CASE x \in LiveEdges(m)
    <3>1. r.halfEdges[x] = m.halfEdges[x] /\ LiveVertices(m) = DOMAIN m.vertices
      BY <1>2, <1>4, <1>5, <1>8, <1>10, <2>2
    <3>2. x \in m.vertices[u].halfEdges
      BY <1>10, <2>2, <3>1 DEF NotedOK
    <3> QED
      BY <1>3, <2>1, <3>2
  <2>3. ASSUME NEW k \in 1..n, x = h + k PROVE x \in r.vertices[u].halfEdges
    <3>1. u \in {face[k], face[After(n, k)]}
      BY <1>3, <1>10, <2>3
    <3> QED
      BY <1>3, <1>7, <2>1, <2>3, <3>1
  <2> QED
    BY <1>5, <2>2, <2>3
<1>11. ASSUME NEW u \in LiveVertices(r), NEW g \in r.vertices[u].halfEdges
       PROVE  g \in LiveEdges(r) \/ u \notin Ends(r.halfEdges[g])
  <2>1. u \in 1..v /\ u \in LiveVertices(m)
    BY <1>4, <1>5
  <2>2. CASE g \in m.vertices[u].halfEdges
    <3>1. g \in 1..h
      BY <1>7, <2>1, <2>2
    <3> QED
      BY <1>2, <1>5, <2>1, <2>2, <3>1 DEF NotedOK
  <2>3. CASE g \in NewAt(h, face, n, u)
    <3>1. PICK k \in 1..n : g = h + k
      BY <1>7, <2>1, <2>3, Zenon
    <3> QED
      BY <1>5, <3>1, Zenon
  <2> QED
    BY <1>3, <1>11, <2>1, <2>2, <2>3
<1> QED
  BY <1>9, <1>10, <1>11 DEF NotedOK

(* addPolygon keeps the rings, the loops and the notes. *)
LEMMA WithPolygonOK ==
  ASSUME NEW v \in Nat, NEW h \in Nat, NEW p \in Nat, NEW m \in Meshes(v, h, p),
         NEW n \in Nat, NEW face \in [1..n -> 1..v], \A k \in 1..n : m.vertices[face[k]].live,
         NEW stale \in BOOLEAN
  PROVE  LET r == WithPolygon(m, face)
         IN  /\ RingOK(m) => RingOK(r)
             /\ LoopsOK(m, stale) => LoopsOK(r, stale)
             /\ NotedOK(m) => NotedOK(r)
<1> DEFINE r == WithPolygon(m, face)
<1>1. r \in Meshes(v, h + n, p + 1) /\ IsWithPolygon(v, h, p, m, face, n, r)
  BY WithPolygonIs
<1> HIDE DEF r
<1>2. LoopsOK(m, stale) => LoopsOK(r, stale)
  BY <1>1, WithPolygonLoops
<1>3. NotedOK(m) => NotedOK(r)
  BY <1>1, WithPolygonNoted
<1>4. h + n \in Nat /\ p + 1 \in Nat
  OBVIOUS
<1>5. \A u \in 1..v : /\ r.vertices[u].live = m.vertices[u].live
                      /\ r.vertices[u].position = m.vertices[u].position
                      /\ r.ring[u] = m.ring[u]
  <2> TAKE u \in 1..v
  <2>1. r.vertices[u] = [m.vertices[u] EXCEPT !.halfEdges = @ \cup NewAt(h, face, n, u)]
    BY <1>1, Zenon DEF IsWithPolygon
  <2>2. r.ring[u] = m.ring[u]
    BY <1>1, Zenon DEF IsWithPolygon
  <2> QED
    BY <2>1, <2>2, ListChanged, VertexFields
<1>6. RingOK(m) => RingOK(r)
  BY <1>1, <1>4, <1>5, RingsOnly
<1> QED
  BY <1>2, <1>3, <1>6 DEF r

-----------------------------------------------------------------------------
(* Vertices of a ring *)

(* The vertices of w's ring, w among them. *)
RingOf(m, w) == Similar(m, w) \cup {w}

(* They are closed under the ring, forth and back, and no less would be. *)
RingFacts(m, w) ==
  /\ RingOf(m, w) \subseteq LiveVertices(m) /\ w \notin Similar(m, w)
  /\ \A u \in RingOf(m, w) : m.vertices[u].position = m.vertices[w].position
  /\ \A u \in RingOf(m, w) : m.ring[u] \in RingOf(m, w)
  /\ \A u \in LiveVertices(m) : m.ring[u] \in RingOf(m, w) => u \in RingOf(m, w)
  /\ \A u \in Similar(m, w) : m.ring[u] # u
  /\ \A O \in SUBSET LiveVertices(m) :
       w \in O /\ (\A u \in O : m.ring[u] \in O) => RingOf(m, w) \subseteq O

(* A ring is a cycle of live vertices in one place. *)
LEMMA RingIs ==
  ASSUME NEW v \in Nat, NEW h \in Nat, NEW p \in Nat, NEW m \in Meshes(v, h, p),
         RingOK(m), NEW w \in LiveVertices(m)
  PROVE  RingFacts(m, w)
<1> DEFINE L == LiveVertices(m)
           next(u) == m.ring[u]
           place(u) == m.vertices[u].position
           C == RingOf(m, w)
<1>1. L \subseteq 1..v /\ w \in 1..v /\ 0 \notin L
  BY LiveAre
<1>2. PICK at : IsRingWalk(v, m, w, at) /\ Similar(m, w) = {at[k] : k \in 0..v} \ {w, 0}
  BY <1>1, SimilarAre
<1>3. /\ at[0] = next(w)
      /\ \A k \in 1..v : at[k] = IF at[k-1] \in {w, 0} THEN at[k-1] ELSE next(at[k-1])
  BY <1>2 DEF IsRingWalk
<1>4. /\ \A u \in L : next(u) \in L /\ place(next(u)) = place(u)
      /\ \A u, x \in L : next(x) = next(u) => x = u
  BY DEF RingOK
<1> HIDE DEF next, place, L
<1>5. w \in L
  BY DEF L
<1>6. ASSUME NEW O \in SUBSET L, w \in O, \A u \in O : next(u) \in O
      PROVE  \A k \in 0..v : at[k] \in O
  <2> DEFINE S == {k \in 0..v : at[k] \in O}
  <2>1. 0 \in S
    BY <1>3, <1>6
  <2>2. ASSUME NEW k \in 0..v, k < v, k \in S PROVE k + 1 \in S
    <3>1. k + 1 \in 1..v /\ (k + 1) - 1 = k /\ k + 1 \in 0..v
      BY <2>2
    <3>2. at[k + 1] = IF at[k] \in {w, 0} THEN at[k] ELSE next(at[k])
      BY <1>3, <3>1
    <3> QED
      BY <1>6, <2>2, <3>1, <3>2
  <2> HIDE DEF S
  <2>3. 0..v \subseteq S
    BY <2>1, <2>2, UpTo
  <2> QED
    BY <2>3 DEF S
<1>7. \A k \in 0..v : at[k] \in L /\ place(at[k]) = place(w)
  <2> DEFINE O == {u \in L : place(u) = place(w)}
  <2>1. O \in SUBSET L /\ w \in O /\ \A u \in O : next(u) \in O
    BY <1>4, <1>5
  <2> HIDE DEF O
  <2>2. \A k \in 0..v : at[k] \in O
    BY <1>6, <2>1
  <2> QED
    BY <2>2 DEF O
<1>8. \A k \in 1..v : at[k] = IF at[k-1] = w THEN w ELSE next(at[k-1])
  <2> TAKE k \in 1..v
  <2>1. k - 1 \in 0..v
    OBVIOUS
  <2>2. at[k-1] # 0
    BY <1>1, <1>7, <2>1
  <2> QED
    BY <1>3, <2>2
<1>9. C = {at[k] : k \in 0..v} \cup {w} /\ w \notin Similar(m, w)
  <2>1. \A k \in 0..v : at[k] # 0
    BY <1>1, <1>7
  <2> QED
    BY <1>2, <2>1, Zenon DEF RingOf
<1> HIDE DEF C
<1>10. \E k \in 0..v : at[k] = w
  <2> SUFFICES ASSUME \A k \in 0..v : at[k] # w PROVE FALSE
    OBVIOUS
  <2>1. \A k \in 1..v : at[k] = next(at[k-1])
    <3> TAKE k \in 1..v
    <3>1. k - 1 \in 0..v
      OBVIOUS
    <3> QED
      BY <1>8, <3>1
  <2>2. ASSUME NEW i \in 0..v, NEW j \in 0..v, i < j, at[i] = at[j] PROVE FALSE
    <3> DEFINE Twice == {x \in 0..v : \E y \in 0..v : x < y /\ at[x] = at[y]}
    <3>1. Twice \subseteq Nat /\ i \in Twice
      BY <2>2
    <3> DEFINE a == Min(Twice)
    <3>2. a \in Twice /\ \A x \in Twice : a <= x
      <4> HIDE DEF Twice
      <4> QED
        BY <3>1, MinIsLeast
    <3> HIDE DEF a
    <3>3. PICK b \in 0..v : a < b /\ at[a] = at[b]
      BY <3>2
    <3>4. a \in 0..v /\ b \in 1..v /\ b - 1 \in 0..v
      BY <3>2, <3>3
    <3>5. at[b] = next(at[b-1]) /\ at[b-1] \in L
      BY <1>7, <2>1, <3>4
    <3>6. CASE a = 0
      BY <1>3, <1>4, <1>5, <3>3, <3>4, <3>5, <3>6
    <3>7. CASE a # 0
      <4>1. a \in 1..v /\ a - 1 \in 0..v /\ a - 1 < b - 1 /\ ~(a <= a - 1)
        BY <3>3, <3>4, <3>7
      <4>2. at[a] = next(at[a-1]) /\ at[a-1] \in L
        BY <1>7, <2>1, <4>1
      <4>3. at[a-1] = at[b-1]
        BY <1>4, <3>3, <3>5, <4>2
      <4>4. a - 1 \in Twice
        BY <3>4, <4>1, <4>3
      <4> QED
        BY <3>2, <4>1, <4>4
    <3> QED
      BY <3>6, <3>7
  <2> DEFINE s == [k \in 1..v |-> at[k-1]]
  <2>3. s \in [1..v -> 1..v]
    <3> SUFFICES ASSUME NEW k \in 1..v PROVE at[k-1] \in 1..v
      OBVIOUS
    <3>1. k - 1 \in 0..v
      OBVIOUS
    <3> QED
      BY <1>1, <1>7, <3>1
  <2>4. ASSUME NEW i \in 1..v, NEW j \in 1..v, s[i] = s[j] PROVE i = j
    <3>1. /\ i - 1 \in 0..v /\ j - 1 \in 0..v
          /\ i = j \/ i - 1 < j - 1 \/ j - 1 < i - 1
      OBVIOUS
    <3>2. at[i-1] = at[j-1]
      BY <2>4
    <3> QED
      BY <2>2, <3>1, <3>2
  <2>5. \A k \in 1..v : s[k] = at[k-1] /\ k - 1 \in 0..v
    OBVIOUS
  <2> HIDE DEF s
  <2>6. \E k \in 1..v : s[k] = w
    <3>1. \A i, j \in 1..v : s[i] = s[j] => i = j
      BY <2>4
    <3>2. \A y \in 1..v : \E k \in 1..v : s[k] = y
      BY <2>3, <3>1, AllTaken
    <3> QED
      BY <1>1, <3>2
  <2> QED
    BY <2>5, <2>6
<1>11. at[v] = w
  <2>1. PICK k \in 0..v : at[k] = w
    BY <1>10
  <2> DEFINE T == {i \in 0..v-k : at[k + i] = w}
  <2>2. v - k \in Nat /\ k + 0 = k /\ k + (v - k) = v
    OBVIOUS
  <2>3. 0 \in T
    BY <2>1, <2>2
  <2>4. ASSUME NEW i \in 0..v-k, i < v - k, i \in T PROVE i + 1 \in T
    <3>1. k + (i + 1) \in 1..v /\ (k + (i + 1)) - 1 = k + i /\ i + 1 \in 0..v-k
      BY <2>4
    <3>2. at[k + (i + 1)] = w
      BY <1>8, <2>4, <3>1
    <3> QED
      BY <3>1, <3>2
  <2> HIDE DEF T
  <2>5. 0..v-k \subseteq T
    BY <2>2, <2>3, <2>4, UpTo
  <2>6. v - k \in 0..v-k
    BY <2>2
  <2> QED
    BY <2>2, <2>5, <2>6 DEF T
<1>12. C \subseteq L /\ \A u \in C : place(u) = place(w)
  BY <1>5, <1>7, <1>9
<1>13. \A u \in C : next(u) \in C
  <2> SUFFICES ASSUME NEW u \in C PROVE next(u) \in C
    OBVIOUS
  <2>1. CASE u = w
    <3>1. 0 \in 0..v
      OBVIOUS
    <3> QED
      BY <1>3, <1>9, <2>1, <3>1
  <2>2. CASE u # w
    <3>1. PICK k \in 0..v : u = at[k]
      BY <1>9, <2>2
    <3>2. k # v
      BY <1>11, <2>2, <3>1
    <3>3. k + 1 \in 1..v /\ (k + 1) - 1 = k /\ k + 1 \in 0..v
      BY <3>2
    <3>4. at[k + 1] = next(u)
      BY <1>8, <2>2, <3>1, <3>3
    <3> QED
      BY <1>9, <3>3, <3>4
  <2> QED
    BY <2>1, <2>2
<1>14. ASSUME NEW u \in L, next(u) \in C PROVE u \in C
  <2> DEFINE g == [x \in C |-> next(x)]
  <2>1. g \in Injection(C, C)
    <3>1. g \in [C -> C]
      BY <1>13
    <3>2. \A a, b \in C : g[a] = g[b] => a = b
      BY <1>4, <1>12
    <3> HIDE DEF g
    <3> QED
      BY <3>1, <3>2 DEF Injection, IsInjective
  <2>2. IsFiniteSet(C)
    <3>1. IsFiniteSet(1..v)
      BY FS_Interval
    <3> QED
      BY <1>1, <1>12, <3>1, FS_Subset
  <2>3. g \in Surjection(C, C)
    <3> HIDE DEF g
    <3> QED
      BY <2>1, <2>2, FS_Injection
  <2>4. PICK x \in C : g[x] = next(u)
    <3> HIDE DEF g
    <3> QED
      BY <1>14, <2>3 DEF Surjection
  <2>5. next(x) = next(u)
    BY <2>4
  <2> QED
    BY <1>4, <1>12, <1>14, <2>5
<1>15. ASSUME NEW O \in SUBSET L, w \in O, \A u \in O : next(u) \in O PROVE C \subseteq O
  BY <1>6, <1>9, <1>15
<1>16. \A u \in Similar(m, w) : next(u) # u
  <2> SUFFICES ASSUME NEW u \in Similar(m, w), next(u) = u PROVE FALSE
    OBVIOUS
  <2>1. u \in C /\ u # w
    BY <1>9 DEF C, RingOf
  <2> DEFINE O == L \ {u}
  <2>2. O \in SUBSET L /\ w \in O
    BY <1>5, <2>1
  <2>3. \A x \in O : next(x) \in O
    BY <1>4, <1>12, <2>1
  <2> HIDE DEF O
  <2>4. C \subseteq O
    BY <1>15, <2>2, <2>3
  <2> QED
    BY <2>1, <2>4 DEF O
<1> QED
  BY <1>9, <1>12, <1>13, <1>14, <1>15, <1>16, Zenon DEF RingFacts, C, L, next, place

(* Loops stay where no half edge goes on elsewhere. *)
LEMMA LoopsAlike ==
  ASSUME NEW v \in Nat, NEW h \in Nat, NEW p \in Nat, NEW m \in Meshes(v, h, p),
         NEW r \in Meshes(v, h, p), NEW stale \in BOOLEAN,
         \A x \in 1..h : /\ r.halfEdges[x].live = m.halfEdges[x].live
                         /\ r.halfEdges[x].next = m.halfEdges[x].next
                         /\ r.halfEdges[x].prev = m.halfEdges[x].prev
                         /\ r.halfEdges[x].polygon = m.halfEdges[x].polygon,
         r.polygons = m.polygons,
         \A x \in LiveEdges(m) :
           r.halfEdges[m.halfEdges[x].next].start = r.halfEdges[x].end,
         LoopsOK(m, stale)
  PROVE  LoopsOK(r, stale) /\ LiveEdges(r) = LiveEdges(m)
<1>1. /\ NextOK(m) /\ LinksOK(m, stale) /\ OwnersOK(m) /\ CyclesOK(m)
  BY DEF LoopsOK
<1>2. LiveEdges(r) = LiveEdges(m) /\ LiveEdges(m) \subseteq 1..h
  BY Sizes DEF LiveEdges
<1>3. \A x \in LiveEdges(m) : /\ r.halfEdges[x].next = m.halfEdges[x].next
                              /\ r.halfEdges[x].prev = m.halfEdges[x].prev
                              /\ r.halfEdges[x].polygon = m.halfEdges[x].polygon
  BY <1>2
<1>4. NextOK(r)
  BY <1>1, <1>2, <1>3 DEF NextOK
<1>5. LinksOK(r, stale)
  <2> SUFFICES ASSUME NEW g \in LiveEdges(m)
               PROVE  /\ r.halfEdges[r.halfEdges[g].next].polygon = r.halfEdges[g].polygon
                      /\ r.halfEdges[r.halfEdges[g].next].start = r.halfEdges[g].end
                      /\ stale \/ r.halfEdges[r.halfEdges[g].next].prev = g
    BY <1>2, Zenon DEF LinksOK
  <2> DEFINE f == m.halfEdges[g].next
  <2>1. f \in LiveEdges(m) /\ r.halfEdges[g].next = f
    BY <1>1, <1>3 DEF NextOK
  <2>2. /\ m.halfEdges[f].polygon = m.halfEdges[g].polygon
        /\ stale \/ m.halfEdges[f].prev = g
    BY <1>1, Zenon DEF LinksOK
  <2>3. r.halfEdges[f].start = r.halfEdges[g].end
    OBVIOUS
  <2> HIDE DEF f
  <2> QED
    BY <1>3, <2>1, <2>2, <2>3
<1>6. OwnersOK(r)
  <2>1. ASSUME NEW g \in LiveEdges(r)
        PROVE  /\ r.halfEdges[g].polygon \in DOMAIN r.polygons
               /\ r.polygons[r.halfEdges[g].polygon].any # Invalid
    <3>1. r.halfEdges[g].polygon = m.halfEdges[g].polygon /\ g \in LiveEdges(m)
      BY <1>2, <1>3
    <3> QED
      BY <1>1, <3>1, Zenon DEF OwnersOK
  <2>2. ASSUME NEW q \in DOMAIN r.polygons, r.polygons[q].any # Invalid
        PROVE  /\ r.polygons[q].live /\ r.polygons[q].any \in LiveEdges(r)
               /\ r.halfEdges[r.polygons[q].any].polygon = q
    <3>1. /\ m.polygons[q].live /\ m.polygons[q].any \in LiveEdges(m)
          /\ m.halfEdges[m.polygons[q].any].polygon = q
      BY <1>1, <2>2, Zenon DEF OwnersOK
    <3> QED
      BY <1>2, <1>3, <3>1
  <2> QED
    BY <2>1, <2>2, Zenon DEF OwnersOK
<1>7. CyclesOK(r)
  <2> SUFFICES ASSUME NEW O \in SUBSET LiveEdges(m), \A g \in O : r.halfEdges[g].next \in O,
                      NEW g \in O, NEW f \in LiveEdges(m),
                      r.halfEdges[f].polygon = r.halfEdges[g].polygon
               PROVE  f \in O
    BY <1>2, Zenon DEF CyclesOK
  <2>1. \A x \in O : m.halfEdges[x].next \in O
    BY <1>3
  <2>2. m.halfEdges[f].polygon = m.halfEdges[g].polygon
    BY <1>3
  <2> QED
    BY <1>1, <2>1, <2>2, Zenon DEF CyclesOK
<1> QED
  BY <1>2, <1>4, <1>5, <1>6, <1>7 DEF LoopsOK

-----------------------------------------------------------------------------
(* Welding *)

(* A vertex to be welded still has in its list what starts or ends at it. *)
ListedOK(m) ==
  \A u \in LiveVertices(m) : m.ring[u] # u =>
    \A x \in LiveEdges(m) : u \in Ends(m.halfEdges[x]) => x \in m.vertices[u].halfEdges

(* The fields of a mesh in which the vertices gone were merged into w. *)
WeldedFields(v, h, m, w, gone, r) ==
  /\ LiveVertices(r) = LiveVertices(m) \ gone
  /\ \A u \in 1..v : /\ r.vertices[u].position = m.vertices[u].position
                     /\ r.vertices[u].halfEdges = m.vertices[u].halfEdges
                     /\ r.ring[u] = IF u = w THEN w ELSE IF u \in gone THEN 0 ELSE m.ring[u]
  /\ \A x \in 1..h :
       /\ r.halfEdges[x].live = m.halfEdges[x].live
       /\ r.halfEdges[x].next = m.halfEdges[x].next
       /\ r.halfEdges[x].prev = m.halfEdges[x].prev
       /\ r.halfEdges[x].polygon = m.halfEdges[x].polygon
       /\ r.halfEdges[x].start = MovedTo(m, gone, w, x, m.halfEdges[x].start)
       /\ r.halfEdges[x].end = MovedTo(m, gone, w, x, m.halfEdges[x].end)

(* The elements and their fields when a vertex was welded. *)
LEMMA WeldedLive ==
  ASSUME NEW v \in Nat, NEW h \in Nat, NEW p \in Nat, NEW m \in Meshes(v, h, p),
         NEW w \in 1..v, NEW gone, gone \subseteq 1..v,
         NEW r \in Meshes(v, h, p), IsWelded(v, h, m, w, gone, r)
  PROVE  WeldedFields(v, h, m, w, gone, r)
<1>1. ASSUME NEW u \in 1..v
      PROVE  /\ r.vertices[u].live = (m.vertices[u].live /\ u \notin gone)
             /\ r.vertices[u].position = m.vertices[u].position
             /\ r.vertices[u].halfEdges = m.vertices[u].halfEdges
             /\ r.ring[u] = IF u = w THEN w ELSE IF u \in gone THEN 0 ELSE m.ring[u]
  <2>1. r.vertices[u] = [m.vertices[u] EXCEPT !.live = @ /\ u \notin gone]
    BY Zenon DEF IsWelded
  <2>2. r.ring[u] = IF u = w THEN w ELSE IF u \in gone THEN 0 ELSE m.ring[u]
    BY DEF IsWelded, Invalid
  <2>3. m.vertices[u] \in VertexOf(h)
    BY VertexFields
  <2> DEFINE live == m.vertices[u].live /\ u \notin gone
  <2>4. r.vertices[u] = [m.vertices[u] EXCEPT !.live = live]
    BY <2>1
  <2> HIDE DEF live
  <2>5. /\ r.vertices[u].live = live
        /\ r.vertices[u].position = m.vertices[u].position
        /\ r.vertices[u].halfEdges = m.vertices[u].halfEdges
    BY <2>3, <2>4 DEF VertexOf
  <2> QED
    BY <2>2, <2>5 DEF live
<1>2. ASSUME NEW x \in 1..h
      PROVE  /\ r.halfEdges[x].live = m.halfEdges[x].live
             /\ r.halfEdges[x].next = m.halfEdges[x].next
             /\ r.halfEdges[x].prev = m.halfEdges[x].prev
             /\ r.halfEdges[x].polygon = m.halfEdges[x].polygon
             /\ r.halfEdges[x].start = MovedTo(m, gone, w, x, m.halfEdges[x].start)
             /\ r.halfEdges[x].end = MovedTo(m, gone, w, x, m.halfEdges[x].end)
  <2>1. m.halfEdges[x] \in HalfEdgeOf(v, h, p)
    BY EdgeFields
  <2> DEFINE a == MovedTo(m, gone, w, x, m.halfEdges[x].start)
             b == MovedTo(m, gone, w, x, m.halfEdges[x].end)
  <2>2. r.halfEdges[x] = [m.halfEdges[x] EXCEPT !.start = a, !.end = b]
    <3>1. r.halfEdges[x] = [m.halfEdges[x] EXCEPT
                              !.start = MovedTo(m, gone, w, x, @), !.end = MovedTo(m, gone, w, x, @)]
      BY Zenon DEF IsWelded
    <3>2. m.halfEdges[x] = [m.halfEdges[x] EXCEPT !.pair = @]
      BY <2>1 DEF HalfEdgeOf
    <3> HIDE DEF a, b
    <3> QED
      BY <2>1, <3>1 DEF a, b, HalfEdgeOf
  <2> HIDE DEF a, b
  <2>3. /\ r.halfEdges[x].live = m.halfEdges[x].live
        /\ r.halfEdges[x].next = m.halfEdges[x].next
        /\ r.halfEdges[x].prev = m.halfEdges[x].prev
        /\ r.halfEdges[x].polygon = m.halfEdges[x].polygon
        /\ r.halfEdges[x].start = a /\ r.halfEdges[x].end = b
    BY <2>1, <2>2 DEF HalfEdgeOf
  <2> QED
    BY <2>3 DEF a, b
<1>3. LiveVertices(r) = LiveVertices(m) \ gone
  <2>1. DOMAIN m.vertices = 1..v /\ DOMAIN r.vertices = 1..v
    BY Sizes
  <2> QED
    BY <1>1, <2>1 DEF LiveVertices
<1> QED
  BY <1>1, <1>2, <1>3 DEF WeldedFields

(* Merging a vertex's whole ring keeps the rings: the one that is left is a
   ring of one. *)
LEMMA WeldedRing ==
  ASSUME NEW v \in Nat, NEW h \in Nat, NEW p \in Nat, NEW m \in Meshes(v, h, p),
         RingOK(m), NEW w \in LiveVertices(m)
  PROVE  RingOK(WeldedTo(m, w))
<1> DEFINE r == WeldedTo(m, w)
           gone == Similar(m, w)
           L == LiveVertices(m)
<1>1. w \in 1..v /\ m.vertices[w].live /\ L \subseteq 1..v
  BY LiveAre
<1>2. r \in Meshes(v, h, p) /\ IsWelded(v, h, m, w, gone, r) /\ gone \subseteq 1..v
  BY <1>1, WeldedToIs, SimilarAre
<1> HIDE DEF r
<1>3. /\ w \notin gone
      /\ \A u \in L : m.ring[u] \in gone \cup {w} => u \in gone \cup {w}
  BY RingIs DEF RingFacts, RingOf
<1>4. /\ \A u \in L : m.ring[u] \in L /\ m.vertices[m.ring[u]].position = m.vertices[u].position
      /\ \A u, x \in L : m.ring[x] = m.ring[u] => x = u
  BY DEF RingOK
<1> HIDE DEF gone, L
<1>5. /\ LiveVertices(r) = L \ gone
      /\ \A u \in 1..v : /\ r.vertices[u].position = m.vertices[u].position
                         /\ r.ring[u] = IF u = w THEN w ELSE IF u \in gone THEN 0 ELSE m.ring[u]
  <2>1. WeldedFields(v, h, m, w, gone, r)
    BY <1>1, <1>2, WeldedLive
  <2> QED
    BY <2>1, Zenon DEF WeldedFields, L
<1>6. w \in L /\ w \in LiveVertices(r) /\ LiveVertices(r) \subseteq 1..v
  BY <1>1, <1>3, <1>5 DEF L
<1>7. \A u \in LiveVertices(r) : u # w => /\ r.ring[u] = m.ring[u] /\ u \in L
                                          /\ m.ring[u] \in L \ gone /\ m.ring[u] # w
  BY <1>3, <1>4, <1>5, <1>6
<1>8. r.ring[w] = w
  BY <1>1, <1>5
<1>9. ASSUME NEW u \in LiveVertices(r)
      PROVE  /\ r.ring[u] \in LiveVertices(r)
             /\ r.vertices[r.ring[u]].position = r.vertices[u].position
             /\ \A x \in LiveVertices(r) : r.ring[x] = r.ring[u] => x = u
  <2>1. CASE u = w
    BY <1>6, <1>7, <1>8, <2>1
  <2>2. CASE u # w
    <3>1. /\ r.ring[u] = m.ring[u] /\ u \in L /\ m.ring[u] \in L \ gone /\ m.ring[u] # w
      BY <1>7, <2>2
    <3>2. r.vertices[m.ring[u]].position = r.vertices[u].position
      <4>1. m.ring[u] \in 1..v /\ u \in 1..v
        BY <1>5, <1>6, <3>1
      <4> QED
        BY <1>4, <1>5, <3>1, <4>1
    <3>3. \A x \in LiveVertices(r) : r.ring[x] = m.ring[u] => x = u
      BY <1>4, <1>7, <1>8, <3>1
    <3> QED
      BY <1>5, <3>1, <3>2, <3>3
  <2> QED
    BY <2>1, <2>2
<1> QED
  BY <1>9 DEF RingOK, r

(* Merging keeps the loops and the notes: what touched a merged vertex
   touches its representative. *)
LEMMA WeldedOK ==
  ASSUME NEW v \in Nat, NEW h \in Nat, NEW p \in Nat, NEW m \in Meshes(v, h, p),
         NEW stale \in BOOLEAN, RingOK(m), LoopsOK(m, stale), NotedOK(m), ListedOK(m),
         NEW w \in LiveVertices(m)
  PROVE  LET r == WeldedTo(m, w)
         IN  LoopsOK(r, stale) /\ NotedOK(r) /\ ListedOK(r)
<1> DEFINE r == WeldedTo(m, w)
           gone == Similar(m, w)
           L == LiveVertices(m)
           E == LiveEdges(m)
           To(u) == IF u \in gone THEN w ELSE u
<1>1. w \in 1..v /\ m.vertices[w].live /\ L \subseteq 1..v /\ E \subseteq 1..h /\ w \in L
  BY LiveAre
<1>2. r \in Meshes(v, h, p) /\ IsWelded(v, h, m, w, gone, r) /\ gone \subseteq 1..v
  BY <1>1, WeldedToIs, SimilarAre
<1> HIDE DEF r
<1>3. /\ w \notin gone /\ gone \subseteq L
      /\ \A u \in gone : m.ring[u] # u
  BY RingIs DEF RingFacts, RingOf
<1> HIDE DEF gone, L, E
<1>4. /\ LiveVertices(r) = L \ gone
      /\ \A u \in 1..v : /\ r.vertices[u].halfEdges = m.vertices[u].halfEdges
                         /\ r.ring[u] = IF u = w THEN w ELSE IF u \in gone THEN 0 ELSE m.ring[u]
      /\ \A x \in 1..h :
           /\ r.halfEdges[x].live = m.halfEdges[x].live
           /\ r.halfEdges[x].next = m.halfEdges[x].next
           /\ r.halfEdges[x].prev = m.halfEdges[x].prev
           /\ r.halfEdges[x].polygon = m.halfEdges[x].polygon
           /\ r.halfEdges[x].start = MovedTo(m, gone, w, x, m.halfEdges[x].start)
           /\ r.halfEdges[x].end = MovedTo(m, gone, w, x, m.halfEdges[x].end)
  <2>1. WeldedFields(v, h, m, w, gone, r)
    BY <1>1, <1>2, WeldedLive
  <2> QED
    BY <2>1, Zenon DEF WeldedFields, L
<1>5. \A x \in E : /\ r.halfEdges[x].start = To(m.halfEdges[x].start)
                   /\ r.halfEdges[x].end = To(m.halfEdges[x].end)
  <2> TAKE x \in E
  <2>1. \A u \in {m.halfEdges[x].start, m.halfEdges[x].end} : MovedTo(m, gone, w, x, u) = To(u)
    BY <1>3 DEF MovedTo, ListedOK, L, E, Ends
  <2> QED
    BY <1>1, <1>4, <2>1
<1>6. /\ \A x \in E : m.halfEdges[x].next \in E
      /\ \A x \in E : m.halfEdges[m.halfEdges[x].next].start = m.halfEdges[x].end
  BY Zenon DEF LoopsOK, NextOK, LinksOK, E
<1>7. \A x \in E : r.halfEdges[m.halfEdges[x].next].start = r.halfEdges[x].end
  BY <1>5, <1>6
<1>8. LoopsOK(r, stale) /\ LiveEdges(r) = E
  <2>1. r.polygons = m.polygons
    BY <1>2 DEF IsWelded
  <2> QED
    BY <1>2, <1>4, <1>7, <2>1, LoopsAlike DEF E
<1>9. \A x \in E : Ends(m.halfEdges[x]) \subseteq L
  BY DEF NotedOK, E, L
<1>10. \A x \in E : /\ r.halfEdges[x].start \in L \ gone /\ r.halfEdges[x].end \in L \ gone
  <2> TAKE x \in E
  <2>1. m.halfEdges[x].start \in L /\ m.halfEdges[x].end \in L
    BY <1>9 DEF Ends
  <2> QED
    BY <1>1, <1>3, <1>5, <2>1
<1>11. ASSUME NEW g \in 1..h, g \notin E
       PROVE  /\ r.halfEdges[g].start = m.halfEdges[g].start
              /\ r.halfEdges[g].end = m.halfEdges[g].end
  <2>1. \A u \in Ends(m.halfEdges[g]) : MovedTo(m, gone, w, g, u) = u
    BY <1>3, <1>11 DEF MovedTo, NotedOK, E, L
  <2> QED
    BY <1>4, <1>11, <2>1 DEF Ends
<1>12. NotedOK(r)
  <2>1. \A x \in LiveEdges(r) : Ends(r.halfEdges[x]) \subseteq LiveVertices(r)
    BY <1>4, <1>8, <1>10 DEF Ends
  <2>2. ASSUME LiveVertices(r) = DOMAIN r.vertices,
               NEW x \in LiveEdges(r), NEW u \in Ends(r.halfEdges[x])
        PROVE  x \in r.vertices[u].halfEdges
    <3>1. DOMAIN r.vertices = 1..v /\ DOMAIN m.vertices = 1..v
      BY <1>2, Sizes
    <3>2. gone = {} /\ L = 1..v
      BY <1>1, <1>2, <1>4, <2>2, <3>1
    <3>3. x \in E /\ Ends(r.halfEdges[x]) = Ends(m.halfEdges[x])
      BY <1>5, <1>8, <3>2 DEF Ends
    <3>4. u \in Ends(m.halfEdges[x]) /\ u \in 1..v
      BY <1>1, <1>9, <2>2, <3>3
    <3>5. x \in m.vertices[u].halfEdges
      BY <3>1, <3>2, <3>3, <3>4 DEF NotedOK, E, L
    <3> QED
      BY <1>4, <3>4, <3>5
  <2>3. ASSUME NEW u \in LiveVertices(r), NEW g \in r.vertices[u].halfEdges
        PROVE  g \in LiveEdges(r) \/ u \notin Ends(r.halfEdges[g])
    <3>1. u \in L /\ u \in 1..v
      BY <1>1, <1>4
    <3>2. g \in m.vertices[u].halfEdges
      BY <1>4, <3>1
    <3>3. m.vertices[u].halfEdges \subseteq 1..h
      BY <3>1, VertexFields
    <3>4. g \in 1..h
      BY <3>2, <3>3
    <3>5. g \in E \/ u \notin Ends(m.halfEdges[g])
      BY <3>1, <3>2 DEF NotedOK, E, L
    <3> QED
      BY <1>8, <1>11, <3>4, <3>5 DEF Ends
  <2> QED
    BY <2>1, <2>2, <2>3 DEF NotedOK
<1>13. ListedOK(r)
  <2> SUFFICES ASSUME NEW u \in LiveVertices(r), r.ring[u] # u,
                      NEW x \in LiveEdges(r), u \in Ends(r.halfEdges[x])
               PROVE  x \in r.vertices[u].halfEdges
    BY DEF ListedOK
  <2>1. u \in L /\ u \in 1..v /\ u \notin gone /\ x \in E
    BY <1>1, <1>4, <1>8
  <2>2. u # w /\ m.ring[u] # u
    BY <1>4, <2>1
  <2>3. u \in Ends(m.halfEdges[x])
    BY <1>5, <2>1, <2>2 DEF Ends
  <2>4. x \in m.vertices[u].halfEdges
    BY <2>1, <2>2, <2>3 DEF ListedOK, L, E
  <2> QED
    BY <1>4, <2>1, <2>4
<1> QED
  BY <1>8, <1>12, <1>13 DEF r

-----------------------------------------------------------------------------
(* Rings of vertices that are at one place *)

(* A set of vertices that the ring does not lead out of has with one the others at *)
(* its place.                                                                      *)
ClassesOK(m) ==
  \A O \in SUBSET LiveVertices(m) :
    (\A u \in O : m.ring[u] \in O) =>
      \A u \in O, w \in LiveVertices(m) :
        m.vertices[w].position = m.vertices[u].position => w \in O

(* The same of point reps when the first k vertices in order are linked. *)
RepsOK(v, m, order, k, reps) ==
  /\ \A u \in LiveVertices(m) :
       /\ reps[u] \in LiveVertices(m)
       /\ m.vertices[reps[u]].position = m.vertices[u].position
  /\ \A u, w \in LiveVertices(m) : reps[w] = reps[u] => w = u
  /\ \A j \in 1..v : k < j /\ order[j] \in LiveVertices(m) => reps[order[j]] = order[j]

(* Of the first k vertices in order, those in one place are in one ring. *)
RepsJoin(v, m, order, k, reps) ==
  \A O \in SUBSET LiveVertices(m) :
    (\A u \in O : reps[u] \in O) =>
      \A i, j \in 1..k :
        /\ order[i] \in O /\ order[j] \in LiveVertices(m)
        /\ m.vertices[order[j]].position = m.vertices[order[i]].position
        => order[j] \in O

(* Linking the k-th vertex keeps rings in one place, and joins it to those
   like it. *)
LEMMA LinkedJoins ==
  ASSUME NEW v \in Nat, NEW h \in Nat, NEW p \in Nat, NEW m \in Meshes(v, h, p),
         NEW order, IsOrder(v, order),
         NEW k \in 1..v, NEW reps \in Reps(v), NEW r \in Reps(v), IsLinked(m, order, k, reps, r),
         RepsOK(v, m, order, k - 1, reps), RepsJoin(v, m, order, k - 1, reps)
  PROVE  RepsOK(v, m, order, k, r) /\ RepsJoin(v, m, order, k, r)
<1> DEFINE L == LiveVertices(m)
           place(u) == m.vertices[u].position
           x == order[k]
<1>1. order \in [1..v -> 1..v]
  BY DEF IsOrder
<1>2. \A i, j \in 1..v : order[i] = order[j] => i = j
  BY DEF IsOrder
<1>3. /\ L \subseteq 1..v /\ x \in 1..v
      /\ \A u \in 1..v : u \in L <=> m.vertices[u].live
  BY <1>1, LiveAre
<1>4. /\ \A u \in L : reps[u] \in L /\ place(reps[u]) = place(u)
      /\ \A u, w \in L : reps[w] = reps[u] => w = u
      /\ \A j \in 1..v : k - 1 < j /\ order[j] \in L => reps[order[j]] = order[j]
  BY DEF RepsOK
<1>5. /\ \A j \in 1..v : k < j => k - 1 < j
      /\ \A i \in 1..k : i \in 1..v /\ (i # k => i \in 1..k-1)
      /\ \A i \in 1..k-1 : i \in 1..v /\ i # k /\ ~(k - 1 < i)
      /\ \A i \in 1..v : i \notin 1..k-1 => k - 1 < i
      /\ k - 1 < k
  OBVIOUS
<1>6. ASSUME NEW O \in SUBSET L, \A u \in O : reps[u] \in O,
             NEW i \in 1..k-1, NEW j \in 1..k-1, order[i] \in O, order[j] \in L,
             place(order[j]) = place(order[i])
      PROVE  order[j] \in O
  BY <1>6 DEF RepsJoin
<1>7. LikeBefore(m, order, k) =
        {j \in 1..k-1 : m.vertices[order[j]].live /\ place(order[j]) = place(x)}
  BY DEF LikeBefore
<1> HIDE DEF L, place
<1>8. \A j \in 1..k-1 : order[j] \in 1..v
  BY <1>1, <1>5
<1>9. \A j \in LikeBefore(m, order, k) :
        /\ j \in 1..k-1 /\ order[j] \in L /\ place(order[j]) = place(x)
  BY <1>3, <1>7, <1>8
<1>10. \A j \in 1..k-1 : order[j] \in L /\ place(order[j]) = place(x)
                           => j \in LikeBefore(m, order, k)
  BY <1>3, <1>7, <1>8
<1> HIDE DEF x
<1>11. CASE r = reps /\ (~m.vertices[x].live \/ LikeBefore(m, order, k) = {})
  <2>1. RepsOK(v, m, order, k, r)
    BY <1>4, <1>5, <1>11 DEF RepsOK, L, place
  <2>2. ASSUME NEW O \in SUBSET L, \A u \in O : reps[u] \in O,
               NEW i \in 1..k, NEW j \in 1..k, order[i] \in O, order[j] \in L,
               place(order[j]) = place(order[i])
        PROVE  order[j] \in O
    <3>1. CASE ~m.vertices[x].live
      <4>1. x \notin L
        BY <1>3, <3>1
      <4>2. i # k /\ j # k
        BY <2>2, <4>1 DEF x
      <4> QED
        BY <1>5, <1>6, <2>2, <4>2
    <3>2. CASE LikeBefore(m, order, k) = {}
      <4>1. CASE i # k /\ j # k
        BY <1>5, <1>6, <2>2, <4>1
      <4>2. CASE i = k /\ j = k
        BY <2>2, <4>2
      <4>3. CASE i = k /\ j # k
        BY <1>5, <1>10, <2>2, <3>2, <4>3 DEF x
      <4>4. CASE i # k /\ j = k
        BY <1>5, <1>10, <2>2, <3>2, <4>4 DEF x
      <4> QED
        BY <4>1, <4>2, <4>3, <4>4
    <3> QED
      BY <1>11, <3>1, <3>2
  <2>3. RepsJoin(v, m, order, k, r)
    BY <1>11, <2>2, Zenon DEF RepsJoin, L, place
  <2> QED
    BY <2>1, <2>3
<1>12. ASSUME m.vertices[x].live, NEW n \in LikeBefore(m, order, k),
              r = [reps EXCEPT ![order[n]] = order[k], ![order[k]] = reps[order[n]]]
       PROVE  RepsOK(v, m, order, k, r) /\ RepsJoin(v, m, order, k, r)
  <2> DEFINE b == order[n]
  <2>1. /\ n \in 1..k-1 /\ b \in L /\ place(b) = place(x)
    BY <1>9
  <2>2. n \in 1..v /\ n # k /\ b \in 1..v
    BY <1>1, <1>5, <2>1
  <2>3. b # x /\ x \in L
    BY <1>2, <1>3, <1>12, <2>2 DEF x
  <2>4. r = [reps EXCEPT ![b] = x, ![x] = reps[b]]
    BY <1>12 DEF x
  <2> HIDE DEF b
  <2>5. /\ r[b] = x /\ r[x] = reps[b]
        /\ \A u \in 1..v : u # b /\ u # x => r[u] = reps[u]
    BY <1>3, <2>2, <2>3, <2>4 DEF Reps
  <2>6. reps[x] = x
    BY <1>4, <1>5, <2>3 DEF x
  <2>7. \A u \in L : reps[u] = x => u = x
    BY <1>4, <2>3, <2>6
  <2>8. \A u \in L : u # b /\ u # x => r[u] = reps[u]
    BY <1>3, <2>5
  <2>9. \A u \in L : r[u] \in L /\ place(r[u]) = place(u)
    BY <1>4, <2>1, <2>3, <2>5, <2>8
  <2>10. \A u, w \in L : r[w] = r[u] => w = u
    BY <1>4, <2>1, <2>3, <2>5, <2>7, <2>8
  <2>11. ASSUME NEW j \in 1..v, k < j, order[j] \in L PROVE r[order[j]] = order[j]
    <3>1. j # k /\ j # n
      BY <1>5, <2>1, <2>11
    <3>2. order[j] # x /\ order[j] # b
      BY <1>2, <2>2, <3>1 DEF x, b
    <3>3. reps[order[j]] = order[j]
      BY <1>4, <1>5, <2>11
    <3> QED
      BY <2>8, <2>11, <3>2, <3>3
  <2>12. RepsOK(v, m, order, k, r)
    BY <2>9, <2>10, <2>11 DEF RepsOK, L, place
  <2>13. ASSUME NEW O \in SUBSET L, \A u \in O : r[u] \in O,
                NEW i \in 1..k, NEW j \in 1..k, order[i] \in O, order[j] \in L,
                place(order[j]) = place(order[i])
         PROVE  order[j] \in O
    <3> DEFINE Q == O \ {x}
    <3>1. Q \in SUBSET L
      OBVIOUS
    <3>2. \A u \in Q : reps[u] \in Q
      <4> SUFFICES ASSUME NEW u \in O, u # x PROVE reps[u] \in O /\ reps[u] # x
        OBVIOUS
      <4>1. reps[u] # x
        BY <2>7
      <4>2. CASE u = b
        BY <2>5, <2>13, <4>1, <4>2
      <4>3. CASE u # b
        BY <2>8, <2>13, <4>1, <4>3
      <4> QED
        BY <4>2, <4>3
    <3>3. b \in Q => x \in O
      BY <2>5, <2>13
    <3>4. ASSUME x \in O PROVE b \in Q
      <4>1. reps[b] \in L /\ place(reps[b]) = place(b) /\ reps[b] # x
        BY <1>4, <2>1, <2>3, <2>7
      <4>2. reps[b] \in O
        BY <2>5, <2>13, <3>4
      <4>3. b \in Q \/ (reps[b] \in Q /\ place(reps[b]) = place(b) /\ reps[b] \in L /\ reps[b] # b)
        BY <4>1, <4>2
      <4>4. CASE b \in Q
        BY <4>4
      <4>5. CASE reps[b] \in Q /\ place(reps[b]) = place(b) /\ reps[b] \in L /\ reps[b] # b
        <5>1. reps[b] \in 1..v
          BY <1>3, <4>5
        <5>2. PICK i2 \in 1..v : order[i2] = reps[b]
          BY <5>1 DEF IsOrder
        <5>3. i2 \in 1..k-1
          <6> SUFFICES ASSUME k - 1 < i2 PROVE FALSE
            BY <1>5
          <6>1. reps[reps[b]] = reps[b]
            BY <1>4, <4>5, <5>2
          <6> QED
            BY <1>4, <2>1, <4>5, <6>1
        <5> HIDE DEF Q
        <5>4. order[i2] \in Q /\ order[n] \in L /\ place(order[n]) = place(order[i2])
          BY <2>1, <4>5, <5>2 DEF b
        <5>5. order[n] \in Q
          BY <1>6, <2>1, <3>1, <3>2, <5>3, <5>4
        <5> QED
          BY <5>5 DEF b
      <4> QED
        BY <4>3, <4>4, <4>5
    <3>5. \A a \in 1..k : a # k => order[a] # x
      BY <1>2, <1>5 DEF x
    <3> HIDE DEF Q
    <3>6. \A a, c \in 1..k-1 : order[a] \in Q /\ order[c] \in L /\ place(order[c]) = place(order[a])
                                 => order[c] \in Q
      BY <1>6, <3>1, <3>2
    <3>7. CASE i # k /\ j # k
      <4>1. i \in 1..k-1 /\ j \in 1..k-1 /\ order[i] \in Q
        BY <1>5, <2>13, <3>5, <3>7 DEF Q
      <4> QED
        BY <2>13, <3>6, <4>1 DEF Q
    <3>8. CASE i = k /\ j = k
      BY <2>13, <3>8
    <3>9. CASE i = k /\ j # k
      <4>1. j \in 1..k-1 /\ order[n] \in Q /\ place(order[j]) = place(order[n])
        BY <1>5, <2>1, <2>13, <3>4, <3>9 DEF x, b
      <4> QED
        BY <2>1, <2>13, <3>6, <4>1 DEF Q
    <3>10. CASE i # k /\ j = k
      <4>1. i \in 1..k-1 /\ order[i] \in Q /\ place(order[n]) = place(order[i]) /\ order[n] \in L
        BY <1>5, <2>1, <2>13, <3>5, <3>10 DEF x, b, Q
      <4>2. order[n] \in Q
        BY <2>1, <3>6, <4>1
      <4> QED
        BY <3>3, <3>10, <4>2 DEF x, b
    <3> QED
      BY <3>7, <3>8, <3>9, <3>10
  <2>14. RepsJoin(v, m, order, k, r)
    BY <2>13, Zenon DEF RepsJoin, L, place
  <2> QED
    BY <2>12, <2>14
<1> QED
  BY <1>11, <1>12 DEF IsLinked, x

(* Two meshes that differ in the rings at most. *)
ButRings(m, r) ==
  r.vertices = m.vertices /\ r.halfEdges = m.halfEdges /\ r.polygons = m.polygons

(* Point reps from nothing are rings of a place each. *)
LEMMA PointRepsOK ==
  ASSUME MaybeDeleted = FALSE,
         NEW v \in Nat, NEW h \in Nat, NEW p \in Nat, NEW m \in Meshes(v, h, p),
         NEW kept \in BOOLEAN, kept => RingOK(m), NEW r \in PointRepsOf(m, kept)
  PROVE  /\ r \in Meshes(v, h, p) /\ RingOK(r) /\ ClassesOK(r)
         /\ ButRings(m, r)
<1>1. PICK order \in SortOrders(m), old \in OldPointReps(m, kept) : r = WithPointReps(m, order, old)
  BY DEF PointRepsOf
<1>2. IsOrder(v, order) /\ order \in [1..v -> 1..v] /\ old \in Reps(v)
  <2>1. IsOrder(v, order)
    BY OrdersAre
  <2> QED
    BY <2>1, OldPointRepsAre DEF IsOrder
<1> DEFINE L == LiveVertices(m)
           good(k, reps) == RepsOK(v, m, order, k, reps) /\ RepsJoin(v, m, order, k, reps)
           R == {x \in (0..v) \X Reps(v) : good(x[1], x[2])}
<1>3. L \subseteq 1..v /\ \A u \in 1..v : u \in L <=> m.vertices[u].live
  BY LiveAre
<1>4. \A u \in L : old[u] # 0
  <2>1. CASE kept
    <3>1. old = m.ring
      BY <2>1 DEF OldPointReps
    <3>2. \A u \in L : m.ring[u] \in L
      BY <2>1 DEF RingOK
    <3> QED
      BY <1>3, <3>1, <3>2
  <2>2. CASE ~kept
    <3>1. DOMAIN m.vertices = 1..v
      BY Sizes
    <3>2. old \in [1..v -> {1}]
      BY <2>2, <3>1 DEF OldPointReps
    <3> QED
      BY <1>3, <3>2
  <2> QED
    BY <2>1, <2>2
<1> DEFINE selves == Selves(v, m, old)
<1>5. selves \in Reps(v)
  BY <1>2, SelvesAre
<1>6. \A u \in L : selves[u] = u
  BY <1>3, <1>4 DEF Selves
<1> HIDE DEF selves
<1>7. good(0, selves)
  <2>1. RepsOK(v, m, order, 0, selves)
    BY <1>6 DEF RepsOK
  <2>2. RepsJoin(v, m, order, 0, selves)
    BY DEF RepsJoin
  <2> QED
    BY <2>1, <2>2
<1>8. ASSUME NEW k \in 1..v, NEW reps \in Reps(v), good(k - 1, reps)
      PROVE  Linked(m, order, reps, k) \in Reps(v) /\ good(k, Linked(m, order, reps, k))
  <2>1. /\ Linked(m, order, reps, k) \in Reps(v)
        /\ IsLinked(m, order, k, reps, Linked(m, order, reps, k))
    BY <1>2, LinkedIs
  <2> QED
    BY <1>2, <1>8, <2>1, LinkedJoins
<1> HIDE DEF good
<1>9. <<0, selves>> \in R
  BY <1>5, <1>7
<1>10. \A k \in 1..v : \A reps \in Reps(v) :
         <<k-1, reps>> \in R => <<k, Linked(m, order, reps, k)>> \in R
  <2> TAKE k \in 1..v
  <2> TAKE reps \in Reps(v)
  <2> HAVE <<k-1, reps>> \in R
  <2>1. good(k - 1, reps)
    OBVIOUS
  <2>2. k \in 0..v
    OBVIOUS
  <2> QED
    BY <1>8, <2>1, <2>2
<1> HIDE DEF R
<1>11. RingMade(v, m, order, old, R)
  BY <1>2, <1>9, <1>10, WithPointRepsIs DEF RingKept, selves
<1>12. PICK reps \in Reps(v) : <<v, reps>> \in R /\ r = [m EXCEPT !.ring = reps]
  BY <1>1, <1>11 DEF RingMade
<1>13. RepsOK(v, m, order, v, reps) /\ RepsJoin(v, m, order, v, reps)
  BY <1>12 DEF R, good
<1>14. /\ r \in Meshes(v, h, p) /\ r.ring = reps
       /\ r.vertices = m.vertices /\ r.halfEdges = m.halfEdges /\ r.polygons = m.polygons
  BY <1>12, WithRing
<1>15. LiveVertices(r) = L
  BY <1>14 DEF LiveVertices
<1>16. RingOK(r)
  BY <1>13, <1>14, <1>15 DEF RepsOK, RingOK
<1>17. ClassesOK(r)
  <2> SUFFICES ASSUME NEW O \in SUBSET L, \A u \in O : reps[u] \in O,
                      NEW u \in O, NEW w \in L,
                      m.vertices[w].position = m.vertices[u].position
               PROVE  w \in O
    BY <1>14, <1>15 DEF ClassesOK
  <2>1. u \in 1..v /\ w \in 1..v
    BY <1>3
  <2>2. PICK i \in 1..v, j \in 1..v : order[i] = u /\ order[j] = w
    BY <1>2, <2>1 DEF IsOrder
  <2> QED
    BY <1>13, <2>2, Zenon DEF RepsJoin
<1> QED
  BY <1>14, <1>16, <1>17, Zenon DEF ButRings

-----------------------------------------------------------------------------
(* Welding *)

(* The rings are rings after every vertex was welded. *)
LEMMA WeldedRings ==
  ASSUME NEW v \in Nat, NEW h \in Nat, NEW p \in Nat, NEW m \in Meshes(v, h, p), RingOK(m)
  PROVE  RingOK(Welded(m))
<1> DEFINE K == {r \in Meshes(v, h, p) : RingOK(r)}
<1>1. m \in K
  OBVIOUS
<1>2. ASSUME NEW r \in Meshes(v, h, p), NEW w \in 1..v, r \in K, r.vertices[w].live
      PROVE  WeldedTo(r, w) \in K
  <2>1. w \in LiveVertices(r)
    BY <1>2, LiveAre
  <2>2. RingOK(WeldedTo(r, w))
    BY <1>2, <2>1, WeldedRing
  <2>3. WeldedTo(r, w) \in Meshes(v, h, p)
    BY <1>2, WeldedToIs
  <2> QED BY <2>2, <2>3
<1>3. WeldKept(v, h, p, K)
  <2> HIDE DEF K
  <2> QED BY <1>2, Zenon DEF WeldKept
<1>4. Welded(m) \in K
  <2> HIDE DEF K
  <2> QED BY <1>1, <1>3, WeldedKeeps
<1> QED BY <1>4

(* So are the loops, and the lists have what they must, when no vertex was       *)
(* deleted before.                                                                *)
LEMMA WeldedLoops ==
  ASSUME NEW v \in Nat, NEW h \in Nat, NEW p \in Nat, NEW m \in Meshes(v, h, p),
         NEW stale \in BOOLEAN, RingOK(m), LoopsOK(m, stale), NotedOK(m),
         LiveVertices(m) = DOMAIN m.vertices
  PROVE  LoopsOK(Welded(m), stale) /\ NotedOK(Welded(m))
<1> DEFINE K == {r \in Meshes(v, h, p) :
                   RingOK(r) /\ LoopsOK(r, stale) /\ NotedOK(r) /\ ListedOK(r)}
<1>1. ListedOK(m)
  <2> SUFFICES ASSUME NEW u \in LiveVertices(m), NEW x \in LiveEdges(m), u \in Ends(m.halfEdges[x])
               PROVE  x \in m.vertices[u].halfEdges
    BY Zenon DEF ListedOK
  <2>1. \A y \in LiveEdges(m) : \A w \in Ends(m.halfEdges[y]) : y \in m.vertices[w].halfEdges
    BY Zenon DEF NotedOK
  <2> QED BY <2>1, Zenon
<1>2. m \in K
  BY <1>1
<1>3. ASSUME NEW r \in Meshes(v, h, p), NEW w \in 1..v, r \in K, r.vertices[w].live
      PROVE  WeldedTo(r, w) \in K
  <2>1. w \in LiveVertices(r)
    BY <1>3, LiveAre
  <2>2. RingOK(r) /\ LoopsOK(r, stale) /\ NotedOK(r) /\ ListedOK(r)
    BY <1>3
  <2>3. RingOK(WeldedTo(r, w))
    BY <2>2, <2>1, WeldedRing
  <2>4. LoopsOK(WeldedTo(r, w), stale) /\ NotedOK(WeldedTo(r, w)) /\ ListedOK(WeldedTo(r, w))
    BY <2>2, <2>1, WeldedOK
  <2>5. WeldedTo(r, w) \in Meshes(v, h, p)
    BY <1>3, WeldedToIs
  <2> QED BY <2>3, <2>4, <2>5
<1>4. WeldKept(v, h, p, K)
  <2> HIDE DEF K
  <2> QED BY <1>3, Zenon DEF WeldKept
<1>5. Welded(m) \in K
  <2> HIDE DEF K
  <2> QED BY <1>2, <1>4, WeldedKeeps
<1> QED BY <1>5

-----------------------------------------------------------------------------
(* Transforming *)

(* Moving the vertices moves all of a place to one place. *)
LEMMA TransformedOK ==
  ASSUME NEW v \in Nat, NEW h \in Nat, NEW p \in Nat, NEW m \in Meshes(v, h, p),
         NEW to \in [Positions -> Positions], NEW stale
  PROVE  LET r == Transformed(m, to)
         IN  /\ RingOK(m) => RingOK(r)
             /\ LoopsOK(m, stale) => LoopsOK(r, stale)
             /\ NotedOK(m) => NotedOK(r)
<1> DEFINE r == Transformed(m, to)
<1>1. r \in Meshes(v, h, p) /\ IsTransformed(v, m, to, r)
  BY TransformedIs, Zenon
<1> HIDE DEF r
<1>2. \A u \in 1..v : r.vertices[u] = [m.vertices[u] EXCEPT !.position = to[@]]
  BY <1>1, Zenon DEF IsTransformed
<1>3. r.ring = m.ring /\ r.halfEdges = m.halfEdges /\ r.polygons = m.polygons
  BY <1>1, Zenon DEF IsTransformed
<1>4. ASSUME NEW u \in 1..v
      PROVE  /\ r.vertices[u].position = to[m.vertices[u].position]
             /\ r.vertices[u].live = m.vertices[u].live
             /\ r.vertices[u].halfEdges = m.vertices[u].halfEdges
  <2>1. m.vertices[u] \in VertexOf(h)
    BY VertexFields
  <2>2. r.vertices[u] = [m.vertices[u] EXCEPT !.position = to[@]]
    BY <1>2
  <2> QED BY <2>1, <2>2 DEF VertexOf
<1>5. LiveVertices(r) = LiveVertices(m) /\ LiveEdges(r) = LiveEdges(m)
  <2>1. DOMAIN r.vertices = 1..v /\ DOMAIN m.vertices = 1..v
    BY <1>1, Sizes
  <2> QED BY <2>1, <1>3, <1>4, Zenon DEF LiveVertices, LiveEdges
<1>6. RingOK(m) => RingOK(r)
  <2> SUFFICES ASSUME RingOK(m), NEW u \in LiveVertices(r)
               PROVE  /\ r.ring[u] \in LiveVertices(r)
                      /\ r.vertices[r.ring[u]].position = r.vertices[u].position
                      /\ \A w \in LiveVertices(r) : r.ring[w] = r.ring[u] => w = u
    BY Zenon DEF RingOK
  <2>1. /\ m.ring[u] \in LiveVertices(m)
        /\ m.vertices[m.ring[u]].position = m.vertices[u].position
        /\ \A w \in LiveVertices(m) : m.ring[w] = m.ring[u] => w = u
    BY <1>5, Zenon DEF RingOK
  <2>2. LiveVertices(m) \subseteq 1..v
    BY LiveAre
  <2> QED BY <2>1, <2>2, <1>3, <1>4, <1>5
<1>7. LoopsOK(m, stale) => LoopsOK(r, stale)
  BY <1>3, LoopsOnly
<1>8. NotedOK(m) => NotedOK(r)
  <2>1. LiveVertices(m) \subseteq 1..v /\ DOMAIN r.vertices = DOMAIN m.vertices
    BY LiveAre, <1>1, Sizes
  <2>2. \A u \in LiveVertices(m) : r.vertices[u].halfEdges = m.vertices[u].halfEdges
    BY <2>1, <1>4
  <2> SUFFICES ASSUME NotedOK(m) PROVE NotedOK(r)
    OBVIOUS
  <2>3. /\ \A x \in LiveEdges(m) : Ends(m.halfEdges[x]) \subseteq LiveVertices(m)
        /\ LiveVertices(m) = DOMAIN m.vertices =>
             \A x \in LiveEdges(m) : \A u \in Ends(m.halfEdges[x]) : x \in m.vertices[u].halfEdges
        /\ \A u \in LiveVertices(m) : \A g \in m.vertices[u].halfEdges :
             g \in LiveEdges(m) \/ u \notin Ends(m.halfEdges[g])
    BY Zenon DEF NotedOK
  <2>4. \A x \in LiveEdges(r) : Ends(r.halfEdges[x]) \subseteq LiveVertices(r)
    BY <2>3, <1>3, <1>5
  <2>5. ASSUME LiveVertices(r) = DOMAIN r.vertices,
               NEW x \in LiveEdges(r), NEW u \in Ends(r.halfEdges[x])
        PROVE  x \in r.vertices[u].halfEdges
    <3>1. u \in LiveVertices(m) /\ u \in Ends(m.halfEdges[x]) /\ x \in LiveEdges(m)
      BY <2>4, <2>5, <1>3, <1>5
    <3>2. x \in m.vertices[u].halfEdges
      BY <2>3, <2>5, <2>1, <1>5, <3>1
    <3> QED BY <3>1, <3>2, <2>2
  <2>6. \A u \in LiveVertices(r) : \A g \in r.vertices[u].halfEdges :
             g \in LiveEdges(r) \/ u \notin Ends(r.halfEdges[g])
    BY <2>3, <2>2, <1>3, <1>5
  <2> QED BY <2>4, <2>5, <2>6, Zenon DEF NotedOK
<1> QED BY <1>6, <1>7, <1>8 DEF r

-----------------------------------------------------------------------------
(* Connecting *)

(* The half edges visited are paired one after the other: R holds after each. *)
PairsKept(v, h, p, m, R) ==
  /\ <<0, Unpaired(m)>> \in R
  /\ \A k \in 1..Len(Visited(m)) : \A r \in Meshes(v, h, p) :
       <<k-1, r>> \in R => <<k, Paired(r, Visited(m)[k])>> \in R

(* So R holds when all are connected. *)
LEMMA ConnectedKeeps ==
  ASSUME NEW v \in Nat, NEW h \in Nat, NEW p \in Nat, NEW m \in Meshes(v, h, p),
         NEW R, PairsKept(v, h, p, m, R)
  PROVE  <<Len(Visited(m)), Connected(m)>> \in R
<1> DEFINE n == Len(Visited(m))
           q == Visited(m)
           D == Meshes(v, h, p)
           b == Unpaired(m)
<1>1. /\ Connected(m) = AllPaired(b, q)
      /\ n \in Nat /\ DOMAIN q = 1..n
      /\ \A k \in 1..n : q[k] \in 1..h
  BY ConnectedIs, Zenon
<1>2. b \in D
  BY UnpairedIs, Zenon
<1>3. ASSUME NEW k \in 1..n, NEW r \in D PROVE Paired(r, q[k]) \in D
  <2>1. q[k] \in 1..h
    BY <1>1
  <2> QED BY <2>1, PairedIs, Zenon
<1>4. \A k \in 1..n : \A r \in D : <<k-1, r>> \in R => <<k, Paired(r, q[k])>> \in R
  BY Zenon DEF PairsKept
<1>5. <<0, b>> \in R
  BY Zenon DEF PairsKept
<1> HIDE DEF n, q, D, b
<1>6. PairedKeep(n, q, D, b, R)
  BY <1>1, <1>2, <1>3, <1>4, <1>5, Zenon DEF PairedKeep
<1>7. <<n, AllPaired(b, q)>> \in R
  BY <1>6, PairedRuns, Zenon
<1> QED BY <1>1, <1>7, Zenon DEF n

(* Two meshes that differ in the pairs at most. *)
ButPairs(h, m, r) ==
  /\ r.vertices = m.vertices /\ r.ring = m.ring /\ r.polygons = m.polygons
  /\ \A x \in 1..h :
       /\ r.halfEdges[x].live = m.halfEdges[x].live
       /\ r.halfEdges[x].start = m.halfEdges[x].start
       /\ r.halfEdges[x].end = m.halfEdges[x].end
       /\ r.halfEdges[x].polygon = m.halfEdges[x].polygon
       /\ r.halfEdges[x].next = m.halfEdges[x].next
       /\ r.halfEdges[x].prev = m.halfEdges[x].prev

(* A half edge whose pair is another. *)
LEMMA PairChanged ==
  ASSUME NEW v, NEW h, NEW p, NEW e \in HalfEdgeOf(v, h, p), NEW x
  PROVE  LET f == [e EXCEPT !.pair = x]
         IN  /\ f.live = e.live /\ f.start = e.start /\ f.end = e.end /\ f.pair = x
             /\ f.polygon = e.polygon /\ f.next = e.next /\ f.prev = e.prev
BY DEF HalfEdgeOf

(* Unpairing and pairing change the pairs only. *)
LEMMA UnpairedButPairs ==
  ASSUME NEW v \in Nat, NEW h \in Nat, NEW p \in Nat, NEW m \in Meshes(v, h, p)
  PROVE  /\ ButPairs(h, m, Unpaired(m))
         /\ \A x \in 1..h : Unpaired(m).halfEdges[x].pair = 0
<1> DEFINE r == Unpaired(m)
<1>1. IsUnpaired(h, m, r)
  BY UnpairedIs, Zenon
<1> HIDE DEF r
<1>2. \A x \in 1..h : r.halfEdges[x] = [m.halfEdges[x] EXCEPT !.pair = 0]
  BY <1>1, Zenon DEF IsUnpaired
<1>3. ASSUME NEW x \in 1..h
      PROVE  /\ r.halfEdges[x].live = m.halfEdges[x].live
             /\ r.halfEdges[x].start = m.halfEdges[x].start
             /\ r.halfEdges[x].end = m.halfEdges[x].end
             /\ r.halfEdges[x].polygon = m.halfEdges[x].polygon
             /\ r.halfEdges[x].next = m.halfEdges[x].next
             /\ r.halfEdges[x].prev = m.halfEdges[x].prev
             /\ r.halfEdges[x].pair = 0
  <2>1. m.halfEdges[x] \in HalfEdgeOf(v, h, p)
    BY EdgeFields
  <2>2. r.halfEdges[x] = [m.halfEdges[x] EXCEPT !.pair = 0]
    BY <1>2
  <2> QED BY <2>1, <2>2, PairChanged
<1>4. r.vertices = m.vertices /\ r.ring = m.ring /\ r.polygons = m.polygons
  BY <1>1, Zenon DEF IsUnpaired
<1>5. ButPairs(h, m, r)
  BY <1>3, <1>4, Zenon DEF ButPairs
<1> QED BY <1>3, <1>5 DEF r

(* Pairing changes the pairs of two half edges and nothing else. *)
LEMMA PairedButPairs ==
  ASSUME NEW v \in Nat, NEW h \in Nat, NEW p \in Nat, NEW m \in Meshes(v, h, p), NEW x \in 1..h,
         NEW g \in 1..h, NEW r \in Meshes(v, h, p), IsPaired(h, m, x, g, r)
  PROVE  /\ ButPairs(h, m, r)
         /\ \A y \in 1..h : r.halfEdges[y].pair =
              IF y = g THEN x ELSE IF y = x THEN g ELSE m.halfEdges[y].pair
<1>1. \A y \in 1..h :
       r.halfEdges[y] = [m.halfEdges[y] EXCEPT
                           !.pair = IF y = g THEN x ELSE IF y = x THEN g ELSE @]
  BY Zenon DEF IsPaired
<1>2. ASSUME NEW y \in 1..h
      PROVE  /\ r.halfEdges[y].live = m.halfEdges[y].live
             /\ r.halfEdges[y].start = m.halfEdges[y].start
             /\ r.halfEdges[y].end = m.halfEdges[y].end
             /\ r.halfEdges[y].polygon = m.halfEdges[y].polygon
             /\ r.halfEdges[y].next = m.halfEdges[y].next
             /\ r.halfEdges[y].prev = m.halfEdges[y].prev
             /\ r.halfEdges[y].pair = IF y = g THEN x ELSE IF y = x THEN g ELSE m.halfEdges[y].pair
  <2>1. m.halfEdges[y] \in HalfEdgeOf(v, h, p)
    BY EdgeFields
  <2>2. r.halfEdges[y] = [m.halfEdges[y] EXCEPT
              !.pair = IF y = g THEN x ELSE IF y = x THEN g ELSE m.halfEdges[y].pair]
    BY <1>1
  <2> QED BY <2>1, <2>2, PairChanged
<1>3. r.vertices = m.vertices /\ r.ring = m.ring /\ r.polygons = m.polygons
  BY Zenon DEF IsPaired
<1>4. ButPairs(h, m, r)
  BY <1>2, <1>3, Zenon DEF ButPairs
<1> QED BY <1>2, <1>4

(* Two meshes that differ from a third in their pairs only differ in their
   pairs only. *)
LEMMA ButPairsTwice ==
  ASSUME NEW h, NEW m, NEW r, NEW s, ButPairs(h, m, r), ButPairs(h, r, s)
  PROVE  ButPairs(h, m, s)
BY DEF ButPairs

(* Connecting changes the pairs only. *)
LEMMA ConnectedButPairs ==
  ASSUME NEW v \in Nat, NEW h \in Nat, NEW p \in Nat, NEW m \in Meshes(v, h, p)
  PROVE  ButPairs(h, m, Connected(m))
<1> DEFINE n == Len(Visited(m))
           K == {r \in Meshes(v, h, p) : ButPairs(h, m, r)}
           R == (0..n) \X K
<1>1. n \in Nat /\ \A k \in 1..n : Visited(m)[k] \in 1..h
  BY ConnectedIs, Zenon
<1>2. Unpaired(m) \in K
  BY UnpairedIs, UnpairedButPairs
<1>3. ASSUME NEW r \in K, NEW x \in 1..h PROVE Paired(r, x) \in K
  <2>1. r \in Meshes(v, h, p) /\ ButPairs(h, m, r)
    OBVIOUS
  <2>2. /\ Paired(r, x) \in Meshes(v, h, p)
        /\ \/ Paired(r, x) = r
           \/ \E g \in 1..h : IsPaired(h, r, x, g, Paired(r, x))
    BY <2>1, PairedIs, Zenon
  <2>3. CASE Paired(r, x) = r
    BY <2>3
  <2>4. CASE \E g \in 1..h : IsPaired(h, r, x, g, Paired(r, x))
    <3>1. PICK g \in 1..h : IsPaired(h, r, x, g, Paired(r, x))
      BY <2>4
    <3>2. ButPairs(h, r, Paired(r, x))
      BY <3>1, <2>1, <2>2, PairedButPairs, Zenon
    <3>3. ButPairs(h, m, Paired(r, x))
      BY <3>2, <2>1, ButPairsTwice, Zenon
    <3> QED BY <3>3, <2>2
  <2> QED BY <2>2, <2>3, <2>4
<1> HIDE DEF K
<1>4. <<0, Unpaired(m)>> \in R
  BY <1>1, <1>2
<1>5. ASSUME NEW k \in 1..n, NEW r \in Meshes(v, h, p), <<k-1, r>> \in R
      PROVE  <<k, Paired(r, Visited(m)[k])>> \in R
  <2>1. r \in K /\ Visited(m)[k] \in 1..h
    BY <1>1, <1>5
  <2>2. Paired(r, Visited(m)[k]) \in K /\ k \in 0..n
    BY <2>1, <1>3, <1>1
  <2> QED BY <2>2
<1>6. PairsKept(v, h, p, m, R)
  BY <1>4, <1>5, Zenon DEF PairsKept, n
<1>7. <<n, Connected(m)>> \in R
  <2> HIDE DEF R
  <2> QED BY <1>6, ConnectedKeeps, Zenon DEF n
<1>8. Connected(m) \in K
  BY <1>7
<1> QED BY <1>8 DEF K

(* Which leaves all but the pairs as it was. *)
LEMMA ButPairsOK ==
  ASSUME NEW v \in Nat, NEW h \in Nat, NEW p \in Nat, NEW m \in Meshes(v, h, p),
         NEW r \in Meshes(v, h, p), ButPairs(h, m, r), NEW stale \in BOOLEAN
  PROVE  /\ LiveVertices(r) = LiveVertices(m) /\ LiveEdges(r) = LiveEdges(m)
         /\ RingOK(m) => RingOK(r)
         /\ LoopsOK(m, stale) => LoopsOK(r, stale)
         /\ NotedOK(m) => NotedOK(r)
<1>1. /\ r.vertices = m.vertices /\ r.ring = m.ring /\ r.polygons = m.polygons
      /\ \A x \in 1..h :
           /\ r.halfEdges[x].live = m.halfEdges[x].live
           /\ r.halfEdges[x].start = m.halfEdges[x].start
           /\ r.halfEdges[x].end = m.halfEdges[x].end
           /\ r.halfEdges[x].polygon = m.halfEdges[x].polygon
           /\ r.halfEdges[x].next = m.halfEdges[x].next
           /\ r.halfEdges[x].prev = m.halfEdges[x].prev
  BY Zenon DEF ButPairs
<1>2. DOMAIN r.halfEdges = 1..h /\ DOMAIN m.halfEdges = 1..h
  BY Sizes
<1>3. LiveVertices(r) = LiveVertices(m)
  BY <1>1, Zenon DEF LiveVertices
<1>4. LiveEdges(r) = LiveEdges(m)
  BY <1>1, <1>2, Zenon DEF LiveEdges
<1>5. RingOK(m) => RingOK(r)
  BY <1>1, <1>3 DEF RingOK
<1>6. ASSUME LoopsOK(m, stale) PROVE LoopsOK(r, stale)
  <2>1. ASSUME NEW x \in LiveEdges(m)
        PROVE  r.halfEdges[m.halfEdges[x].next].start = r.halfEdges[x].end
    <3>1. /\ m.halfEdges[x].next \in LiveEdges(m)
      BY <1>6, Zenon DEF LoopsOK, NextOK
    <3>2. m.halfEdges[m.halfEdges[x].next].start = m.halfEdges[x].end
      BY <1>6, Zenon DEF LoopsOK, LinksOK
    <3>3. x \in 1..h /\ m.halfEdges[x].next \in 1..h
      BY <3>1, LiveAre
    <3> QED BY <3>2, <3>3, <1>1
  <2> QED BY <1>1, <1>6, <2>1, LoopsAlike
<1>7. NotedOK(m) => NotedOK(r)
  <2>1. ASSUME NEW x \in 1..h PROVE Ends(r.halfEdges[x]) = Ends(m.halfEdges[x])
    BY <1>1 DEF Ends
  <2> SUFFICES ASSUME NotedOK(m) PROVE NotedOK(r)
    OBVIOUS
  <2>2. /\ \A x \in LiveEdges(m) : Ends(m.halfEdges[x]) \subseteq LiveVertices(m)
        /\ LiveVertices(m) = DOMAIN m.vertices =>
             \A x \in LiveEdges(m) : \A u \in Ends(m.halfEdges[x]) : x \in m.vertices[u].halfEdges
        /\ \A u \in LiveVertices(m) : \A g \in m.vertices[u].halfEdges :
             g \in LiveEdges(m) \/ u \notin Ends(m.halfEdges[g])
    BY Zenon DEF NotedOK
  <2>3. LiveEdges(m) \subseteq 1..h /\ \A u \in LiveVertices(m) : m.vertices[u].halfEdges \subseteq 1..h
    BY LiveAre, VertexFields
  <2>4. \A x \in LiveEdges(r) : Ends(r.halfEdges[x]) \subseteq LiveVertices(r)
    BY <2>1, <2>2, <2>3, <1>3, <1>4
  <2>5. LiveVertices(r) = DOMAIN r.vertices =>
             \A x \in LiveEdges(r) : \A u \in Ends(r.halfEdges[x]) : x \in r.vertices[u].halfEdges
    BY <2>1, <2>2, <2>3, <1>1, <1>3, <1>4
  <2>6. \A u \in LiveVertices(r) : \A g \in r.vertices[u].halfEdges :
             g \in LiveEdges(r) \/ u \notin Ends(r.halfEdges[g])
    BY <2>1, <2>2, <2>3, <1>1, <1>3, <1>4
  <2> QED BY <2>4, <2>5, <2>6, Zenon DEF NotedOK
<1> QED BY <1>3, <1>4, <1>5, <1>6, <1>7

-----------------------------------------------------------------------------
(* Repacking *)

(* ClassesOK is about which vertices there are, and where. *)
LEMMA ClassesOnly ==
  ASSUME NEW v \in Nat, NEW h \in Nat, NEW p \in Nat, NEW m \in Meshes(v, h, p),
         NEW hh \in Nat, NEW pp \in Nat, NEW r \in Meshes(v, hh, pp),
         \A u \in 1..v : /\ r.vertices[u].live = m.vertices[u].live
                         /\ r.vertices[u].position = m.vertices[u].position
                         /\ r.ring[u] = m.ring[u],
         ClassesOK(m)
  PROVE  ClassesOK(r)
<1>1. LiveVertices(r) = LiveVertices(m)
  <2>1. DOMAIN r.vertices = 1..v /\ DOMAIN m.vertices = 1..v
    BY Sizes
  <2> QED BY <2>1, Zenon DEF LiveVertices
<1>2. LiveVertices(m) \subseteq 1..v
  BY LiveAre
<1> SUFFICES ASSUME NEW O \in SUBSET LiveVertices(r), \A u \in O : r.ring[u] \in O,
                    NEW u \in O, NEW w \in LiveVertices(r),
                    r.vertices[w].position = r.vertices[u].position
             PROVE  w \in O
  BY Zenon DEF ClassesOK
<1>3. O \in SUBSET LiveVertices(m) /\ w \in LiveVertices(m)
  BY <1>1
<1>4. \A y \in O : m.ring[y] \in O
  BY <1>2, <1>3
<1>5. m.vertices[w].position = m.vertices[u].position
  BY <1>2, <1>3
<1> QED BY <1>3, <1>4, <1>5, Zenon DEF ClassesOK

(* What the vertices are that moved together. *)
MovedAre(m, c, A, r) ==
  \A k \in 1..c :
    /\ A[k] \in LiveVertices(m)
    /\ r.vertices[k].live = TRUE
    /\ r.vertices[k].position = m.vertices[A[k]].position
    /\ r.vertices[k].halfEdges = {}
    /\ r.ring[k] = NewIndex(A, m.ring[A[k]])

(* The fields of the kept vertices, at their new indices. *)
LEMMA MovedFields ==
  ASSUME NEW v \in Nat, NEW h \in Nat, NEW p \in Nat, NEW m \in Meshes(v, h, p),
         NEW c \in 0..v, NEW A, IsList(m, c, A), NEW r \in Meshes(c, 0, 0), IsMoved(m, c, A, r)
  PROVE  MovedAre(m, c, A, r)
<1> SUFFICES ASSUME NEW k \in 1..c
             PROVE  /\ A[k] \in LiveVertices(m)
                    /\ r.vertices[k].live = TRUE
                    /\ r.vertices[k].position = m.vertices[A[k]].position
                    /\ r.vertices[k].halfEdges = {}
                    /\ r.ring[k] = NewIndex(A, m.ring[A[k]])
  BY Zenon DEF MovedAre
<1>1. A \in [1..c -> LiveVertices(m)]
  BY Zenon DEF IsList
<1>2. A[k] \in LiveVertices(m) /\ A[k] \in 1..v /\ m.vertices[A[k]].live
  <2>1. A[k] \in LiveVertices(m)
    BY <1>1
  <2> QED BY <2>1, LiveAre
<1>3. /\ r.vertices[k] = [m.vertices[A[k]] EXCEPT !.halfEdges = {}]
      /\ r.ring[k] = NewIndex(A, m.ring[A[k]])
  BY Zenon DEF IsMoved
<1>4. m.vertices[A[k]] \in VertexOf(h) /\ m.vertices[A[k]].live = TRUE
  BY <1>2, VertexFields
<1>5. r.vertices[k].live = TRUE /\ r.vertices[k].position = m.vertices[A[k]].position
      /\ r.vertices[k].halfEdges = {}
  BY <1>3, <1>4 DEF VertexOf
<1> QED BY <1>2, <1>3, <1>5

(* Their rings are those there were. *)
LEMMA MovedRing ==
  ASSUME NEW v \in Nat, NEW h \in Nat, NEW p \in Nat, NEW m \in Meshes(v, h, p), RingOK(m),
         NEW c \in 0..v, NEW A, IsList(m, c, A), NEW r \in Meshes(c, 0, 0), IsMoved(m, c, A, r)
  PROVE  /\ LiveVertices(r) = 1..c
         /\ \A k \in 1..c : r.ring[k] \in 1..c /\ A[r.ring[k]] = m.ring[A[k]]
         /\ RingOK(r)
         /\ ClassesOK(m) => ClassesOK(r)
<1>1. MovedAre(m, c, A, r)
  BY MovedFields
<1>2. \A k \in 1..c :
           /\ A[k] \in LiveVertices(m)
           /\ r.vertices[k].live = TRUE
           /\ r.vertices[k].position = m.vertices[A[k]].position
           /\ r.vertices[k].halfEdges = {}
           /\ r.ring[k] = NewIndex(A, m.ring[A[k]])
  BY <1>1, Zenon DEF MovedAre
<1>3. LiveVertices(r) = 1..c
  <2>1. DOMAIN r.vertices = 1..c
    BY Sizes
  <2>2. \A k \in 1..c : r.vertices[k].live
    BY <1>2
  <2> QED BY <2>1, <2>2 DEF LiveVertices
<1>4. /\ \A u \in LiveVertices(m) : \E k \in 1..c : A[k] = u
      /\ \A k \in 1..c : NewIndex(A, A[k]) = k
  BY Zenon DEF IsList
<1>5. ASSUME NEW k \in 1..c
      PROVE  /\ r.ring[k] \in 1..c /\ A[r.ring[k]] = m.ring[A[k]]
             /\ m.vertices[m.ring[A[k]]].position = m.vertices[A[k]].position
  <2>1. A[k] \in LiveVertices(m)
    BY <1>2
  <2>2. m.ring[A[k]] \in LiveVertices(m) /\ m.vertices[m.ring[A[k]]].position = m.vertices[A[k]].position
    BY <2>1, Zenon DEF RingOK
  <2>3. PICK j \in 1..c : A[j] = m.ring[A[k]]
    BY <2>2, <1>4, Zenon
  <2>4. NewIndex(A, A[j]) = j
    BY <1>4
  <2>5. r.ring[k] = j
    BY <2>3, <2>4, <1>2
  <2> QED BY <2>2, <2>3, <2>5
<1>6. ASSUME NEW j \in 1..c, NEW k \in 1..c, A[j] = A[k] PROVE j = k
  BY <1>4, <1>6
<1>7. RingOK(r)
  <2> SUFFICES ASSUME NEW u \in LiveVertices(r)
               PROVE  /\ r.ring[u] \in LiveVertices(r)
                      /\ r.vertices[r.ring[u]].position = r.vertices[u].position
                      /\ \A w \in LiveVertices(r) : r.ring[w] = r.ring[u] => w = u
    BY Zenon DEF RingOK
  <2>1. u \in 1..c
    BY <1>3
  <2>2. r.ring[u] \in LiveVertices(r)
    BY <1>3, <1>5, <2>1
  <2>3. r.vertices[r.ring[u]].position = r.vertices[u].position
    BY <1>2, <1>5, <2>1
  <2>4. ASSUME NEW w \in 1..c, r.ring[w] = r.ring[u] PROVE w = u
    <3>1. m.ring[A[w]] = m.ring[A[u]]
      BY <1>5, <2>1, <2>4
    <3>2. A[w] \in LiveVertices(m) /\ A[u] \in LiveVertices(m)
      BY <1>2, <2>1
    <3>3. A[w] = A[u]
      BY <3>1, <3>2, Zenon DEF RingOK
    <3> QED BY <3>3, <1>6, <2>1
  <2> QED BY <1>3, <2>2, <2>3, <2>4
<1>8. ASSUME ClassesOK(m) PROVE ClassesOK(r)
  <2> SUFFICES ASSUME NEW O \in SUBSET LiveVertices(r), \A u \in O : r.ring[u] \in O,
                      NEW u \in O, NEW w \in LiveVertices(r),
                      r.vertices[w].position = r.vertices[u].position
               PROVE  w \in O
    BY Zenon DEF ClassesOK
  <2> DEFINE Q == {A[k] : k \in O}
  <2>1. O \subseteq 1..c /\ u \in 1..c /\ w \in 1..c
    BY <1>3
  <2>2. Q \in SUBSET LiveVertices(m) /\ A[u] \in Q /\ A[w] \in LiveVertices(m)
    BY <2>1, <1>2
  <2>3. \A y \in Q : m.ring[y] \in Q
    BY <2>1, <1>5
  <2>4. m.vertices[A[w]].position = m.vertices[A[u]].position
    BY <2>1, <1>2
  <2>5. A[w] \in Q
    <3> HIDE DEF Q
    <3> QED BY <2>2, <2>3, <2>4, <1>8, Zenon DEF ClassesOK
  <2> QED BY <2>5, <2>1, <1>6
<1> QED BY <1>3, <1>5, <1>7, <1>8

(* There are no half edges and no polygons yet. *)
LEMMA MovedEmpty ==
  ASSUME NEW c \in Nat, NEW r \in Meshes(c, 0, 0), \A k \in 1..c : r.vertices[k].halfEdges = {}
  PROVE  LoopsOK(r, FALSE) /\ NotedOK(r)
<1>1. /\ DOMAIN r.halfEdges = 1..0 /\ DOMAIN r.polygons = 1..0 /\ DOMAIN r.vertices = 1..c
  BY Sizes
<1>2. LiveEdges(r) = {} /\ DOMAIN r.polygons = {} /\ LiveVertices(r) \subseteq 1..c
  BY <1>1 DEF LiveEdges, LiveVertices
<1>3. NextOK(r) /\ LinksOK(r, FALSE) /\ OwnersOK(r) /\ CyclesOK(r)
  BY <1>2 DEF NextOK, LinksOK, OwnersOK, CyclesOK
<1>4. NotedOK(r)
  BY <1>2 DEF NotedOK
<1> QED BY <1>3, <1>4 DEF LoopsOK

(* A mesh made again of what is not deleted. *)
LEMMA RepackedOK ==
  ASSUME NEW v \in Nat, NEW h \in Nat, NEW p \in Nat, NEW m \in Meshes(v, h, p), ~HasAll(m),
         RingOK(m)
  PROVE  LET r == Repacked(m)
         IN  /\ RingOK(r) /\ LoopsOK(r, FALSE) /\ NotedOK(r)
             /\ ClassesOK(m) => ClassesOK(r)
             /\ LiveVertices(r) = DOMAIN r.vertices
<1>1. PICK c \in 0..v : IsList(m, c, OldOf(m))
  BY OldOfIs
<1> DEFINE r == Moved(m)
           Good(s) == /\ RingOK(s) /\ LoopsOK(s, FALSE) /\ NotedOK(s)
                      /\ ClassesOK(m) => ClassesOK(s)
           K == {s \in MeshesOf(c) : Good(s)}
<1>2. c \in Nat
  OBVIOUS
<1>3. r \in Meshes(c, 0, 0) /\ IsMoved(m, c, OldOf(m), r)
  BY <1>1, MovedIs, Zenon
<1> HIDE DEF r
<1>4. RingOK(r) /\ (ClassesOK(m) => ClassesOK(r))
  BY <1>1, <1>3, MovedRing
<1>5. LoopsOK(r, FALSE) /\ NotedOK(r)
  <2>1. MovedAre(m, c, OldOf(m), r)
    BY <1>1, <1>3, MovedFields
  <2>2. \A k \in 1..c : r.vertices[k].halfEdges = {}
    BY <2>1 DEF MovedAre
  <2> QED BY <2>2, <1>2, <1>3, MovedEmpty
<1>6. r \in K
  <2>1. r \in MeshesOf(c)
    <3>1. 0 \in Nat
      OBVIOUS
    <3> QED BY <3>1, <1>3, MeshesOfAre, Zenon
  <2> QED BY <2>1, <1>4, <1>5
<1>7. ASSUME NEW a \in Nat, NEW b \in Nat, NEW n \in Nat \ {0}, NEW s \in Meshes(c, a, b),
             NEW face \in [1..n -> 1..c], s \in K, AllLive(c, s)
      PROVE  WithPolygon(s, face) \in K
  <2> DEFINE t == WithPolygon(s, face)
  <2>1. Good(s)
    BY <1>7
  <2>2. \A k \in 1..n : s.vertices[face[k]].live
    BY <1>7 DEF AllLive
  <2>3. n \in Nat /\ a + n \in Nat /\ b + 1 \in Nat
    OBVIOUS
  <2>4. t \in Meshes(c, a + n, b + 1) /\ IsWithPolygon(c, a, b, s, face, n, t)
    BY <1>2, <2>2, <2>3, WithPolygonIs, Zenon
  <2>5. RingOK(t) /\ LoopsOK(t, FALSE) /\ NotedOK(t)
    BY <1>2, <2>1, <2>2, <2>3, WithPolygonOK, Zenon
  <2> HIDE DEF t
  <2>6. \A u \in 1..c : t.vertices[u] = [s.vertices[u] EXCEPT !.halfEdges = @ \cup NewAt(a, face, n, u)]
    BY <2>4, Zenon DEF IsWithPolygon
  <2>7. ASSUME NEW u \in 1..c
        PROVE  /\ t.vertices[u].live = s.vertices[u].live
               /\ t.vertices[u].position = s.vertices[u].position
               /\ t.ring[u] = s.ring[u]
    <3>1. s.vertices[u] \in VertexOf(a)
      BY <1>2, VertexFields
    <3>2. t.ring = s.ring
      BY <2>4, Zenon DEF IsWithPolygon
    <3>3. t.vertices[u] = [s.vertices[u] EXCEPT !.halfEdges =
                             s.vertices[u].halfEdges \cup NewAt(a, face, n, u)]
      BY <2>6
    <3> QED BY <3>1, <3>2, <3>3, ListChanged
  <2>8. ASSUME ClassesOK(m) PROVE ClassesOK(t)
    <3>1. ClassesOK(s)
      BY <2>1, <2>8
    <3> QED BY <1>2, <2>3, <2>4, <2>7, <3>1, ClassesOnly
  <2>9. t \in MeshesOf(c)
    BY <2>3, <2>4, MeshesOfAre, Zenon
  <2> QED BY <2>5, <2>8, <2>9 DEF t
<1>8. FacesKept(m, c, K)
  <2> HIDE DEF K
  <2> QED BY <1>6, <1>7, Zenon DEF FacesKept, r
<1>9. Repacked(m) \in K /\ \E a, b \in Nat : Repacked(m) \in Meshes(c, a, b) /\ AllLive(c, Repacked(m))
  <2> HIDE DEF K
  <2> QED BY <1>1, <1>8, RepackedKeeps, Zenon
<1>10. LiveVertices(Repacked(m)) = DOMAIN Repacked(m).vertices
  <2>1. PICK a \in Nat, b \in Nat : Repacked(m) \in Meshes(c, a, b) /\ AllLive(c, Repacked(m))
    BY <1>9
  <2>2. DOMAIN Repacked(m).vertices = 1..c
    BY <1>2, <2>1, Sizes
  <2>3. \A u \in 1..c : Repacked(m).vertices[u].live
    BY <2>1, Zenon DEF AllLive
  <2> QED BY <2>2, <2>3, Zenon DEF LiveVertices
<1>11. Good(Repacked(m))
  BY <1>9
<1> QED BY <1>10, <1>11

-----------------------------------------------------------------------------
(* Rings through the operations *)

(* Triangulating changes no ring. *)
LEMMA FannedRings ==
  ASSUME NEW v \in Nat, NEW h \in Nat, NEW p \in Nat, NEW m \in Meshes(v, h, p), RingOK(m)
  PROVE  RingOK(Fanned(m))
<1> DEFINE K == {r \in MeshesOf(v) : RingOK(r)}
<1>1. m \in K
  BY MeshesOfAre
<1>2. ASSUME NEW a \in Nat, NEW b \in Nat, NEW r \in Meshes(v, a, b), NEW q \in 1..b,
             r \in K, Len(Loop(r, q)) > 3
      PROVE  FannedAt(r, q) \in K
  <2> DEFINE n == Len(Loop(r, q))
             s == FannedAt(r, q)
  <2>1. /\ n \in 0..a /\ s \in Meshes(v, a + 2*(n - 3), b + (n - 3))
        /\ IsFanned(v, a, b, r, q, n, Loop(r, q), s)
    BY <1>2, FannedAtIs
  <2>2. n > 3
    BY <1>2
  <2> HIDE DEF n, s
  <2>3. a + 2*(n - 3) \in Nat /\ b + (n - 3) \in Nat
    BY <2>1, <2>2
  <2>4. /\ \A u \in 1..v :
             s.vertices[u] = [r.vertices[u] EXCEPT
                                !.halfEdges = @ \cup DiagonalsAt(r, a, b, q, n, Loop(r, q), u)]
        /\ s.ring = r.ring
    BY <2>1, Zenon DEF IsFanned
  <2>5. ASSUME NEW u \in 1..v
        PROVE  /\ s.vertices[u].live = r.vertices[u].live
               /\ s.vertices[u].position = r.vertices[u].position
               /\ s.ring[u] = r.ring[u]
    <3>1. s.vertices[u] = [r.vertices[u] EXCEPT !.halfEdges =
                 r.vertices[u].halfEdges \cup DiagonalsAt(r, a, b, q, n, Loop(r, q), u)]
      BY <2>4
    <3>2. r.vertices[u] \in VertexOf(a)
      BY VertexFields
    <3> QED BY <2>4, <3>1, <3>2, ListChanged
  <2>6. RingOK(r)
    BY <1>2
  <2>7. RingOK(s)
    BY <2>1, <2>3, <2>5, <2>6, RingsOnly
  <2>8. s \in MeshesOf(v)
    BY <2>1, <2>3, MeshesOfAre, Zenon
  <2> QED BY <2>7, <2>8 DEF s
<1>3. FanKept(v, K)
  <2> HIDE DEF K
  <2> QED BY <1>2, Zenon DEF FanKept
<1>4. Fanned(m) \in K
  <2> HIDE DEF K
  <2> QED BY <1>1, <1>3, FannedKeeps, Zenon
<1> QED BY <1>4

(* A vertex stays where it is when a half edge goes, with a shorter list. *)
IsShortened(m, x, u, r) ==
  /\ r.vertices[u].live = m.vertices[u].live
  /\ r.vertices[u].position = m.vertices[u].position
  /\ r.vertices[u].halfEdges =
       IF m.vertices[u].live /\ u \in {StartLeft(m, x), EndLeft(m, x)}
       THEN m.vertices[u].halfEdges \ {x} ELSE m.vertices[u].halfEdges

(* Removing a half edge takes it from the notes of its vertices, no more. *)
LEMMA WithoutVertices ==
  ASSUME NEW v \in Nat, NEW h \in Nat, NEW p \in Nat, NEW m \in Meshes(v, h, p), NEW x \in 1..h,
         NEW r \in Meshes(v, h, p), IsWithout(v, h, p, m, x, r), NEW u \in 1..v
  PROVE  IsShortened(m, x, u, r)
<1>1. r.vertices[u] = VertexLeft(m, x, u)
  BY Zenon DEF IsWithout
<1>2. m.vertices[u] \in VertexOf(h)
  BY VertexFields
<1>3. CASE m.vertices[u].live /\ u \in {StartLeft(m, x), EndLeft(m, x)}
  <2>1. r.vertices[u] = [m.vertices[u] EXCEPT !.halfEdges = m.vertices[u].halfEdges \ {x}]
    BY <1>1, <1>3 DEF VertexLeft
  <2>2. /\ r.vertices[u].live = m.vertices[u].live
        /\ r.vertices[u].position = m.vertices[u].position
        /\ r.vertices[u].halfEdges = m.vertices[u].halfEdges \ {x}
    BY <2>1, <1>2, ListChanged
  <2> QED BY <2>2, <1>3, Zenon DEF IsShortened
<1>4. CASE ~(m.vertices[u].live /\ u \in {StartLeft(m, x), EndLeft(m, x)})
  <2>1. r.vertices[u] = m.vertices[u]
    BY <1>1, <1>4, Zenon DEF VertexLeft
  <2> QED BY <2>1, <1>4, Zenon DEF IsShortened
<1> QED BY <1>3, <1>4

(* Removing a polygon changes no ring. *)
LEMMA RemovedRings ==
  ASSUME NEW v \in Nat, NEW h \in Nat, NEW p \in Nat, NEW m \in Meshes(v, h, p), NEW q \in 1..p,
         RingOK(m)
  PROVE  RingOK(Emptied(Removed(m, q), q))
<1> DEFINE K == {r \in Meshes(v, h, p) : RingOK(r)}
           n == Len(Loop(m, q))
           R == (0..n) \X K
<1>1. PICK N \in 0..h : IsLoop(h, m, q, N, Loop(m, q))
  BY LoopFacts
<1>2. n \in Nat /\ \A k \in 1..n : Loop(m, q)[k] \in 1..h
  <2>1. Loop(m, q) \in [1..N -> LiveEdges(m)] /\ n = N
    BY <1>1, Zenon DEF IsLoop
  <2>2. LiveEdges(m) \subseteq 1..h
    BY LiveAre
  <2> HIDE DEF n
  <2> QED BY <2>1, <2>2
<1>3. ASSUME NEW r \in K, NEW x \in 1..h PROVE WithoutHalfEdge(r, x) \in K
  <2> DEFINE s == WithoutHalfEdge(r, x)
  <2>1. r \in Meshes(v, h, p) /\ RingOK(r)
    OBVIOUS
  <2>2. CASE r.halfEdges[x].live
    <3>1. s \in Meshes(v, h, p) /\ IsWithout(v, h, p, r, x, s)
      BY <2>1, <2>2, WithoutIs, Zenon
    <3> HIDE DEF s
    <3>2. s.ring = r.ring
      BY <3>1, Zenon DEF IsWithout
    <3>3. \A u \in 1..v : IsShortened(r, x, u, s)
      BY <3>1, <2>1, WithoutVertices
    <3>4. \A u \in 1..v : /\ s.vertices[u].live = r.vertices[u].live
                          /\ s.vertices[u].position = r.vertices[u].position
                          /\ s.ring[u] = r.ring[u]
      BY <3>2, <3>3, Zenon DEF IsShortened
    <3>5. RingOK(s)
      BY <2>1, <3>1, <3>4, RingsOnly
    <3> QED BY <3>1, <3>5 DEF s
  <2>3. CASE ~r.halfEdges[x].live
    BY <2>1, <2>3, WithoutDead
  <2> QED BY <2>2, <2>3
<1> HIDE DEF K
<1>4. ASSUME NEW k \in 1..n, NEW r \in Meshes(v, h, p), <<k-1, r>> \in R
      PROVE  <<k, WithoutHalfEdge(r, Loop(m, q)[k])>> \in R
  <2>1. r \in K /\ Loop(m, q)[k] \in 1..h /\ k \in 0..n
    BY <1>2, <1>4
  <2> QED BY <2>1, <1>3
<1>5. <<0, m>> \in R
  BY <1>2 DEF K
<1>6. LoopKept(v, h, p, m, q, R)
  <2> HIDE DEF R
  <2> QED BY <1>4, <1>5, Zenon DEF LoopKept, n
<1>7. <<n, Removed(m, q)>> \in R
  <2> HIDE DEF R
  <2> QED BY <1>6, RemovedKeeps, Zenon
<1>8. Removed(m, q) \in Meshes(v, h, p) /\ RingOK(Removed(m, q))
  BY <1>7 DEF K
<1> DEFINE r == Removed(m, q)
<1>9. r \in Meshes(v, h, p) /\ RingOK(r)
  BY <1>8
<1> HIDE DEF r
<1>10. /\ Emptied(r, q) \in Meshes(v, h, p)
       /\ Emptied(r, q).vertices = r.vertices /\ Emptied(r, q).ring = r.ring
  <2>1. r \in Meshes(v, h, p)
    BY <1>9
  <2>2. Emptied(r, q) \in Meshes(v, h, p) /\ IsEmptied(r, q, Emptied(r, q))
    BY <2>1, EmptiedIs, Zenon
  <2> QED BY <2>2, Zenon DEF IsEmptied
<1>11. RingOK(Emptied(r, q))
  BY <1>9, <1>10, RingsOnly
<1> QED BY <1>11 DEF r

-----------------------------------------------------------------------------
(* Rings after an update *)

(* A mesh is repacked if and only if something was deleted. *)
LEMMA HasAllIs == HasAll(mesh) <=> ~HasDeleted
<1>1. HasDeleted <=> \/ \E k \in DOMAIN mesh.vertices : ~mesh.vertices[k].live
                     \/ \E k \in DOMAIN mesh.polygons : ~mesh.polygons[k].live
  BY Zenon DEF HasDeleted, vertices, polygons
<1> QED BY <1>1, Zenon DEF HasAll

(* Where nothing was deleted, cleanAndRepack leaves the mesh. *)
LEMMA RepackedAll ==
  ASSUME NEW m, HasAll(m)
  PROVE  Repacked(m) = m
BY Zenon DEF HasAll, Repacked

(* Pairing changes pairs only, so it keeps the rings, the loops and the
   notes. *)
LEMMA ConnectedOK ==
  ASSUME NEW v \in Nat, NEW h \in Nat, NEW p \in Nat, NEW m \in Meshes(v, h, p), NEW stale \in BOOLEAN
  PROVE  LET r == Connected(m)
         IN  /\ r \in Meshes(v, h, p) /\ r.vertices = m.vertices
             /\ LiveVertices(r) = LiveVertices(m)
             /\ RingOK(m) => RingOK(r)
             /\ ClassesOK(m) => ClassesOK(r)
             /\ LoopsOK(m, stale) => LoopsOK(r, stale)
             /\ NotedOK(m) => NotedOK(r)
<1> DEFINE r == Connected(m)
<1>1. r \in Meshes(v, h, p) /\ ButPairs(h, m, r)
  BY ConnectedIs, ConnectedButPairs, Zenon
<1> HIDE DEF r
<1>2. r.vertices = m.vertices /\ r.ring = m.ring
  BY <1>1, Zenon DEF ButPairs
<1>3. ClassesOK(m) => ClassesOK(r)
  BY <1>1, <1>2, ClassesOnly
<1>4. /\ LiveVertices(r) = LiveVertices(m)
      /\ RingOK(m) => RingOK(r)
      /\ LoopsOK(m, stale) => LoopsOK(r, stale)
      /\ NotedOK(m) => NotedOK(r)
  BY <1>1, ButPairsOK
<1> QED BY <1>1, <1>2, <1>3, <1>4 DEF r

(* What an update leaves has rings, and where they are kept they are the classes  *)
(* of the vertices by their positions.                                            *)
LEMMA UpdateRings ==
  ASSUME MaybeDeleted = FALSE, TypeInv, RingOK(mesh), NEW u \in Updates
  PROVE  /\ IsMesh(u.mesh) /\ RingOK(u.mesh)
         /\ Maintains /\ keepsPointReps =>
              ClassesOK(u.mesh) /\ LiveVertices(u.mesh) = DOMAIN u.mesh.vertices
<1>1. PICK v \in Nat, h \in Nat, p \in Nat : mesh \in Meshes(v, h, p)
  BY Zenon DEF TypeInv, IsMesh
<1>2. {keepsPointReps, hasPointReps, fanned} \subseteq BOOLEAN /\ IsMesh(mesh)
  BY DEF TypeInv
<1>3. IsMesh(u.mesh)
  BY <1>2, UpdateIsMesh
<1>4. CASE ~Maintains /\ u.mesh = mesh
  BY <1>3, <1>4
<1>5. ASSUME keepsPointReps, NEW kept \in BOOLEAN, NEW m \in PointRepsOf(mesh, kept),
             u.mesh = Connected(Repacked(m))
      PROVE  RingOK(u.mesh) /\ ClassesOK(u.mesh) /\ LiveVertices(u.mesh) = DOMAIN u.mesh.vertices
  <2>1. m \in Meshes(v, h, p) /\ RingOK(m) /\ ClassesOK(m)
    BY <1>1, <1>5, PointRepsOK, Zenon
  <2> DEFINE r == Repacked(m)
  <2>2. IsMesh(r) /\ RingOK(r) /\ ClassesOK(r) /\ LiveVertices(r) = DOMAIN r.vertices
    <3>1. CASE HasAll(m)
      <4>1. r = m
        BY <3>1, RepackedAll
      <4>2. LiveVertices(m) = DOMAIN m.vertices
        BY <3>1, Zenon DEF HasAll, LiveVertices
      <4> QED BY <2>1, <4>1, <4>2, Zenon DEF IsMesh
    <3>2. CASE ~HasAll(m)
      <4>1. IsMesh(m)
        BY <2>1, Zenon DEF IsMesh
      <4>2. IsMesh(r)
        BY <4>1, RepackedIsMesh
      <4> QED BY <2>1, <3>2, <4>2, RepackedOK, Zenon
    <3> QED BY <3>1, <3>2
  <2> HIDE DEF r
  <2>3. PICK a \in Nat, b \in Nat, c \in Nat : r \in Meshes(a, b, c)
    BY <2>2, Zenon DEF IsMesh
  <2>4. u.mesh = Connected(r)
    BY <1>5 DEF r
  <2>5. /\ Connected(r).vertices = r.vertices /\ LiveVertices(Connected(r)) = LiveVertices(r)
        /\ RingOK(Connected(r)) /\ ClassesOK(Connected(r))
    BY <2>2, <2>3, ConnectedOK
  <2> QED BY <2>2, <2>4, <2>5
<1>6. CASE ~keepsPointReps /\ u.mesh = Connected(mesh)
  <2>1. RingOK(Connected(mesh))
    BY <1>1, ConnectedOK
  <2> QED BY <2>1, <1>3, <1>6
<1> QED BY <1>2, <1>3, <1>4, <1>5, <1>6, UpdatesAre

-----------------------------------------------------------------------------
(* Rings of the reachable meshes *)

(* Rings always lead around one place, and after an update around all of it. *)
RingInv ==
  /\ TypeInv /\ RingOK(mesh)
  /\ op = "rebuild" /\ keepsPointReps =>
       ClassesOK(mesh) /\ LiveVertices(mesh) = DOMAIN mesh.vertices

(* A ring has just the vertices at its place. *)
LEMMA RingInvGives == RingInv => RingsAreClasses
<1> SUFFICES ASSUME RingInv, op = "rebuild", keepsPointReps, NEW u \in DOMAIN mesh.vertices
             PROVE  /\ mesh.vertices[u].live
                    /\ {u} \cup Similar(mesh, u) =
                         {w \in DOMAIN mesh.vertices :
                            mesh.vertices[w].position = mesh.vertices[u].position}
  BY Zenon DEF RingsAreClasses, vertices
<1>1. PICK v \in Nat, h \in Nat, p \in Nat : mesh \in Meshes(v, h, p)
  BY Zenon DEF RingInv, TypeInv, IsMesh
<1>2. RingOK(mesh) /\ ClassesOK(mesh) /\ LiveVertices(mesh) = DOMAIN mesh.vertices
  BY Zenon DEF RingInv
<1>3. u \in LiveVertices(mesh)
  BY <1>2
<1>4. RingFacts(mesh, u)
  BY <1>1, <1>2, <1>3, RingIs
<1>5. /\ RingOf(mesh, u) \subseteq LiveVertices(mesh)
      /\ \A w \in RingOf(mesh, u) : mesh.vertices[w].position = mesh.vertices[u].position
      /\ \A w \in RingOf(mesh, u) : mesh.ring[w] \in RingOf(mesh, u)
  BY <1>4, Zenon DEF RingFacts
<1>6. RingOf(mesh, u) = {u} \cup Similar(mesh, u) /\ u \in RingOf(mesh, u)
  BY DEF RingOf
<1>7. \A w \in LiveVertices(mesh) :
        mesh.vertices[w].position = mesh.vertices[u].position => w \in RingOf(mesh, u)
  <2> DEFINE O == RingOf(mesh, u)
  <2>1. O \in SUBSET LiveVertices(mesh) /\ (\A w \in O : mesh.ring[w] \in O) /\ u \in O
    BY <1>5, <1>6
  <2> HIDE DEF O
  <2>2. \A w \in LiveVertices(mesh) :
          mesh.vertices[w].position = mesh.vertices[u].position => w \in O
    BY <2>1, <1>2, Zenon DEF ClassesOK
  <2> QED BY <2>2 DEF O
<1>8. mesh.vertices[u].live
  BY <1>3, Zenon DEF LiveVertices
<1>9. {u} \cup Similar(mesh, u) =
        {w \in DOMAIN mesh.vertices : mesh.vertices[w].position = mesh.vertices[u].position}
  <2> HIDE DEF RingInv
  <2> QED BY <1>2, <1>5, <1>6, <1>7
<1> QED BY <1>8, <1>9

(* The empty mesh has no ring to break. *)
LEMMA InitRings == Init => RingInv
<1> SUFFICES ASSUME Init PROVE RingInv
  OBVIOUS
<1>1. TypeInv
  BY InitTyped
<1>2. LiveVertices(mesh) = {} /\ op # "rebuild"
  BY DEF Init, LiveVertices
<1> QED BY <1>1, <1>2 DEF RingInv, RingOK

(* addVertex keeps the rings. *)
LEMMA AddVertexRings == RingInv /\ AddVertex => RingInv'
<1> SUFFICES ASSUME RingInv, AddVertex PROVE RingInv'
  OBVIOUS
<1>1. PICK v \in Nat, h \in Nat, p \in Nat : mesh \in Meshes(v, h, p)
  BY Zenon DEF RingInv, TypeInv, IsMesh
<1>2. PICK pos \in Positions : mesh' = WithVertex(mesh, pos)
  BY Zenon DEF AddVertex, WithVertex, vertices
<1>3. RingOK(mesh')
  BY <1>1, <1>2, WithVertexOK DEF RingInv
<1>4. TypeInv'
  BY AddVertexTyped DEF RingInv
<1>5. op' # "rebuild"
  BY DEF AddVertex
<1> QED BY <1>3, <1>4, <1>5, Zenon DEF RingInv

(* addPolygon keeps the rings. *)
LEMMA AddPolygonRings == RingInv /\ AddPolygon => RingInv'
<1> SUFFICES ASSUME RingInv, AddPolygon PROVE RingInv'
  OBVIOUS
<1>1. PICK v \in Nat, h \in Nat, p \in Nat : mesh \in Meshes(v, h, p)
  BY Zenon DEF RingInv, TypeInv, IsMesh
<1>2. PICK face \in Faces : /\ \A k \in DOMAIN face : Live(mesh.vertices, face[k])
                            /\ mesh' = WithPolygon(mesh, face)
  BY DEF AddPolygon, vertices
<1>3. PICK n \in Nat : /\ face \in [1..n -> 1..v]
                       /\ \A k \in 1..n : mesh.vertices[face[k]].live
  BY <1>1, <1>2, FaceIs
<1>4. RingOK(WithPolygon(mesh, face))
  <2>1. FALSE \in BOOLEAN /\ RingOK(mesh)
    BY DEF RingInv
  <2> QED BY <2>1, <1>1, <1>3, WithPolygonOK, Zenon
<1>5. TypeInv'
  BY AddPolygonTyped DEF RingInv
<1>6. op' # "rebuild"
  BY DEF AddPolygon
<1>7. RingOK(mesh')
  BY <1>2, <1>4
<1> QED BY <1>7, <1>5, <1>6, Zenon DEF RingInv

(* Merging similar vertices keeps the rings. *)
LEMMA WeldRings ==
  ASSUME MaybeDeleted = FALSE
  PROVE  RingInv /\ Weld => RingInv'
<1> SUFFICES ASSUME RingInv, Weld PROVE RingInv'
  OBVIOUS
<1>1. PICK v \in Nat, h \in Nat, p \in Nat : mesh \in Meshes(v, h, p)
  BY Zenon DEF RingInv, TypeInv, IsMesh
<1>2. PICK m : /\ m \in IF hasPointReps THEN {mesh} ELSE PointRepsOf(mesh, FALSE)
               /\ mesh' = Welded(m)
  BY DEF Weld
<1>3. m \in Meshes(v, h, p) /\ RingOK(m)
  <2>1. CASE m = mesh
    BY <1>1, <2>1 DEF RingInv
  <2>2. CASE m \in PointRepsOf(mesh, FALSE)
    <3>1. FALSE \in BOOLEAN /\ (FALSE => RingOK(mesh))
      OBVIOUS
    <3> QED BY <3>1, <1>1, <2>2, PointRepsOK, Zenon
  <2> QED BY <1>2, <2>1, <2>2
<1>4. RingOK(Welded(m))
  BY <1>3, WeldedRings, Zenon
<1>5. TypeInv'
  BY WeldTyped DEF RingInv
<1>6. op' # "rebuild"
  BY DEF Weld
<1>7. RingOK(mesh')
  BY <1>2, <1>4
<1> QED BY <1>7, <1>5, <1>6, Zenon DEF RingInv

(* updateFromEdits keeps the rings. *)
LEMMA UpdateKeepsRings ==
  ASSUME MaybeDeleted = FALSE
  PROVE  RingInv /\ Update => RingInv'
<1> SUFFICES ASSUME RingInv, Update PROVE RingInv'
  OBVIOUS
<1>1. PICK u \in Updates : mesh' = u.mesh
  BY DEF Update
<1>2. TypeInv /\ RingOK(mesh)
  BY Zenon DEF RingInv
<1>3. /\ RingOK(u.mesh)
      /\ Maintains /\ keepsPointReps =>
           ClassesOK(u.mesh) /\ LiveVertices(u.mesh) = DOMAIN u.mesh.vertices
  BY <1>2, UpdateRings, Zenon
<1>4. TypeInv'
  BY <1>2, UpdateTyped
<1>5. (op' = "rebuild" => Maintains) /\ keepsPointReps' = keepsPointReps
  BY DEF Update
<1>6. RingOK(mesh')
  BY <1>1, <1>3
<1>7. ASSUME op' = "rebuild", keepsPointReps'
      PROVE  ClassesOK(mesh') /\ LiveVertices(mesh') = DOMAIN mesh'.vertices
  BY <1>1, <1>3, <1>5, <1>7
<1> QED BY <1>4, <1>6, <1>7, Zenon DEF RingInv

(* triangulate keeps the rings. *)
LEMMA TriangulateRings ==
  ASSUME MaybeDeleted = FALSE
  PROVE  RingInv /\ Triangulate => RingInv'
<1> SUFFICES ASSUME RingInv, Triangulate PROVE RingInv'
  OBVIOUS
<1>1. PICK u \in Updates : mesh' = Fanned(u.mesh)
  BY Zenon DEF Triangulate, Fanned
<1>2. TypeInv /\ RingOK(mesh)
  BY Zenon DEF RingInv
<1>3. IsMesh(u.mesh) /\ RingOK(u.mesh)
  BY <1>2, UpdateRings, Zenon
<1>4. PICK v \in Nat, h \in Nat, p \in Nat : u.mesh \in Meshes(v, h, p)
  BY <1>3, Zenon DEF IsMesh
<1>5. TypeInv'
  BY <1>2, TriangulateTyped
<1>6. op' # "rebuild"
  BY DEF Triangulate
<1>7. RingOK(Fanned(u.mesh))
  BY <1>3, <1>4, FannedRings
<1>8. RingOK(mesh')
  BY <1>1, <1>7
<1> QED BY <1>8, <1>5, <1>6, Zenon DEF RingInv

(* transform keeps the rings. *)
LEMMA TransformRings == RingInv /\ Transform => RingInv'
<1> SUFFICES ASSUME RingInv, Transform PROVE RingInv'
  OBVIOUS
<1>1. PICK v \in Nat, h \in Nat, p \in Nat : mesh \in Meshes(v, h, p)
  BY Zenon DEF RingInv, TypeInv, IsMesh
<1>2. PICK to \in Transforms : mesh' = Transformed(mesh, to)
  BY Zenon DEF Transform, Transformed
<1>3. to \in [Positions -> Positions] /\ RingOK(mesh)
  BY MeshAssumption DEF RingInv
<1>4. RingOK(Transformed(mesh, to))
  BY <1>1, <1>3, TransformedOK, Zenon
<1>5. TypeInv'
  BY TransformTyped DEF RingInv
<1>6. op' # "rebuild"
  BY DEF Transform
<1>7. RingOK(mesh')
  BY <1>2, <1>4
<1> QED BY <1>7, <1>5, <1>6, Zenon DEF RingInv

(* updateEditState keeps the rings. *)
LEMMA UpdateEditStateRings == RingInv /\ UpdateEditState => RingInv'
<1> SUFFICES ASSUME RingInv, UpdateEditState PROVE RingInv'
  OBVIOUS
<1>1. TypeInv' /\ op' # "rebuild" /\ mesh' = mesh
  BY UpdateEditStateTyped DEF RingInv, UpdateEditState
<1>2. RingOK(mesh')
  BY <1>1 DEF RingInv
<1> QED BY <1>1, <1>2, Zenon DEF RingInv

(* Removing a polygon keeps the rings. *)
LEMMA RemovePolygonRings == RingInv /\ RemovePolygon => RingInv'
<1> SUFFICES ASSUME RingInv, RemovePolygon PROVE RingInv'
  OBVIOUS
<1>1. PICK v \in Nat, h \in Nat, p \in Nat : mesh \in Meshes(v, h, p)
  BY Zenon DEF RingInv, TypeInv, IsMesh
<1>2. PICK q \in DOMAIN mesh.polygons : mesh' = Emptied(Removed(mesh, q), q)
  BY Zenon DEF RemovePolygon, polygons, Removed, Emptied
<1>3. q \in 1..p /\ RingOK(mesh)
  BY <1>1, Sizes DEF RingInv
<1>4. RingOK(Emptied(Removed(mesh, q), q))
  BY <1>1, <1>3, RemovedRings, Zenon
<1>5. TypeInv'
  BY RemovePolygonTyped DEF RingInv
<1>6. op' # "rebuild"
  BY DEF RemovePolygon
<1>7. RingOK(mesh')
  BY <1>2, <1>4
<1> QED BY <1>7, <1>5, <1>6, Zenon DEF RingInv

(* Every step keeps the rings. *)
LEMMA NextRings ==
  ASSUME MaybeDeleted = FALSE
  PROVE  RingInv /\ [Next]_vars => RingInv'
<1> SUFFICES ASSUME RingInv, [Next]_vars PROVE RingInv'
  OBVIOUS
<1>1. CASE UNCHANGED vars
  <2>1. TypeInv'
    BY <1>1, NextTyped DEF RingInv
  <2>2. mesh' = mesh /\ op' = op /\ keepsPointReps' = keepsPointReps
    BY <1>1 DEF vars
  <2> QED BY <2>1, <2>2 DEF RingInv
<1> QED
  BY <1>1, AddVertexRings, AddPolygonRings, WeldRings, UpdateKeepsRings, TriangulateRings,
     TransformRings, UpdateEditStateRings, RemovePolygonRings DEF Next

(* RingInv is an invariant. *)
LEMMA Rings ==
  ASSUME MaybeDeleted = FALSE
  PROVE  Spec => []RingInv
<1>1. Init => RingInv
  BY InitRings
<1>2. RingInv /\ [Next]_vars => RingInv'
  BY NextRings
<1> QED BY <1>1, <1>2, PTL DEF Spec

(* Where the memory of new point reps does not happen to read as a
   deletion, the rings that createPointReps links and
   removeAllSimilarPositions and cleanAndRepack renew are, after an update,
   the classes of vertices in one place, and no deleted vertex is left. *)
THEOREM RingsHold ==
  ASSUME MaybeDeleted = FALSE
  PROVE  Spec => []RingsAreClasses
<1>1. Spec => []RingInv
  BY Rings
<1>2. RingInv => RingsAreClasses
  BY RingInvGives
<1> QED BY <1>1, <1>2, PTL

-----------------------------------------------------------------------------
(* Loops through the operations *)

(* NotedOK is about vertices and half edges only. *)
LEMMA NotedOnly ==
  ASSUME NEW m, NEW r, r.vertices = m.vertices, r.halfEdges = m.halfEdges, NotedOK(m)
  PROVE  NotedOK(r)
<1>1. LiveVertices(r) = LiveVertices(m) /\ LiveEdges(r) = LiveEdges(m)
  BY Zenon DEF LiveVertices, LiveEdges
<1>2. /\ \A x \in LiveEdges(m) : Ends(m.halfEdges[x]) \subseteq LiveVertices(m)
      /\ LiveVertices(m) = DOMAIN m.vertices =>
           \A x \in LiveEdges(m) : \A u \in Ends(m.halfEdges[x]) : x \in m.vertices[u].halfEdges
      /\ \A u \in LiveVertices(m) : \A g \in m.vertices[u].halfEdges :
           g \in LiveEdges(m) \/ u \notin Ends(m.halfEdges[g])
  BY Zenon DEF NotedOK
<1>3. /\ \A x \in LiveEdges(r) : Ends(r.halfEdges[x]) \subseteq LiveVertices(r)
      /\ LiveVertices(r) = DOMAIN r.vertices =>
           \A x \in LiveEdges(r) : \A u \in Ends(r.halfEdges[x]) : x \in r.vertices[u].halfEdges
      /\ \A u \in LiveVertices(r) : \A g \in r.vertices[u].halfEdges :
           g \in LiveEdges(r) \/ u \notin Ends(r.halfEdges[g])
  BY <1>1, <1>2
<1> QED BY <1>3, Zenon DEF NotedOK

(* What an update leaves has loops, and they go back where they did or are new. *)
LEMMA UpdateLoops ==
  ASSUME MaybeDeleted = FALSE, TypeInv, RingOK(mesh), LoopsOK(mesh, fanned), NotedOK(mesh),
         NEW u \in Updates
  PROVE  LoopsOK(u.mesh, u.fanned) /\ NotedOK(u.mesh) /\ u.fanned \in BOOLEAN
<1>1. PICK v \in Nat, h \in Nat, p \in Nat : mesh \in Meshes(v, h, p)
  BY Zenon DEF TypeInv, IsMesh
<1>2. {keepsPointReps, hasPointReps, fanned} \subseteq BOOLEAN /\ IsMesh(mesh)
  BY DEF TypeInv
<1>3. u.fanned \in BOOLEAN /\ fanned \in BOOLEAN
  BY <1>2, UpdatesAre
<1>4. CASE ~Maintains /\ u.mesh = mesh /\ u.fanned = fanned
  BY <1>3, <1>4
<1>5. ASSUME keepsPointReps, NEW kept \in BOOLEAN, NEW m \in PointRepsOf(mesh, kept),
             u.mesh = Connected(Repacked(m)), u.fanned = (fanned /\ ~HasDeleted)
      PROVE  LoopsOK(u.mesh, u.fanned) /\ NotedOK(u.mesh)
  <2>1. m \in Meshes(v, h, p) /\ RingOK(m) /\ ButRings(mesh, m)
    BY <1>1, <1>5, PointRepsOK, Zenon
  <2>2. /\ m \in Meshes(v, h, p) /\ RingOK(m)
        /\ m.vertices = mesh.vertices /\ m.halfEdges = mesh.halfEdges
        /\ m.polygons = mesh.polygons
    BY <2>1, Zenon DEF ButRings
  <2>3. LoopsOK(m, fanned) /\ NotedOK(m)
    BY <2>2, LoopsOnly, NotedOnly
  <2>4. HasAll(m) <=> ~HasDeleted
    <3>1. HasAll(m) <=> HasAll(mesh)
      BY <2>2, Zenon DEF HasAll
    <3> QED BY <3>1, HasAllIs
  <2> DEFINE r == Repacked(m)
  <2>5. IsMesh(r) /\ LoopsOK(r, u.fanned) /\ NotedOK(r)
    <3>1. CASE HasAll(m)
      <4>1. r = m
        BY <3>1, RepackedAll
      <4>2. u.fanned = fanned
        BY <1>3, <1>5, <2>4, <3>1
      <4> QED BY <2>2, <2>3, <4>1, <4>2, Zenon DEF IsMesh
    <3>2. CASE ~HasAll(m)
      <4>1. IsMesh(m)
        BY <2>2, Zenon DEF IsMesh
      <4>2. IsMesh(r)
        BY <4>1, RepackedIsMesh
      <4>3. u.fanned = FALSE
        BY <1>3, <1>5, <2>4, <3>2
      <4>4. LoopsOK(r, FALSE) /\ NotedOK(r)
        BY <2>2, <3>2, RepackedOK, Zenon
      <4> HIDE DEF r
      <4> QED BY <4>2, <4>3, <4>4
    <3> QED BY <3>1, <3>2
  <2> HIDE DEF r
  <2>6. PICK a \in Nat, b \in Nat, c \in Nat : r \in Meshes(a, b, c)
    BY <2>5, Zenon DEF IsMesh
  <2>7. u.mesh = Connected(r)
    BY <1>5 DEF r
  <2>8. LoopsOK(Connected(r), u.fanned) /\ NotedOK(Connected(r))
    BY <1>3, <2>5, <2>6, ConnectedOK
  <2> QED BY <2>7, <2>8
<1>6. CASE u.mesh = Connected(mesh) /\ u.fanned = fanned
  <2>1. LoopsOK(Connected(mesh), fanned) /\ NotedOK(Connected(mesh))
    BY <1>1, <1>3, ConnectedOK
  <2>2. LoopsOK(u.mesh, fanned) /\ NotedOK(u.mesh)
    BY <2>1, <1>6, Zenon
  <2>3. LoopsOK(u.mesh, u.fanned)
    BY <2>2, <1>6, Zenon
  <2> QED BY <2>2, <2>3, <1>3
<1>7. LoopsOK(u.mesh, u.fanned) /\ NotedOK(u.mesh)
  BY <1>2, <1>4, <1>5, <1>6, UpdatesAre
<1> QED BY <1>3, <1>7

-----------------------------------------------------------------------------
(* Loops of the reachable meshes *)

(* Loops are closed and lists are right until something is torn. *)
LoopInv ==
  RingInv /\ (~torn => LoopsOK(mesh, fanned) /\ NotedOK(mesh))

(* The invariant is strong enough. *)
LEMMA LoopInvGives == LoopInv => LoopsClose
<1> SUFFICES ASSUME LoopInv, ~torn, NEW q \in DOMAIN mesh.polygons,
                    NEW k \in DOMAIN Loop(mesh, q)
             PROVE  LoopAt(mesh, q, fanned, k)
  BY Zenon DEF LoopsClose, LoopAt, polygons, halfEdges
<1>1. PICK v \in Nat, h \in Nat, p \in Nat : mesh \in Meshes(v, h, p)
  BY Zenon DEF LoopInv, RingInv, TypeInv, IsMesh
<1>2. q \in 1..p
  BY <1>1, Sizes
<1>3. LoopsOK(mesh, fanned)
  BY DEF LoopInv
<1> QED BY <1>1, <1>2, <1>3, LoopsGive

(* The empty mesh has no loop to break. *)
LEMMA InitLoops == Init => LoopInv
<1> SUFFICES ASSUME Init PROVE LoopInv
  OBVIOUS
<1>1. RingInv
  BY InitRings
<1>2. mesh \in Meshes(0, 0, 0)
  BY DEF Init, Meshes
<1>3. fanned = FALSE /\ \A k \in 1..0 : mesh.vertices[k].halfEdges = {}
  BY DEF Init
<1>4. LoopsOK(mesh, FALSE) /\ NotedOK(mesh)
  BY <1>2, <1>3, MovedEmpty
<1> QED BY <1>1, <1>3, <1>4 DEF LoopInv

(* addVertex keeps the loops. *)
LEMMA AddVertexLoops == LoopInv /\ AddVertex => LoopInv'
<1> SUFFICES ASSUME LoopInv, AddVertex PROVE LoopInv'
  OBVIOUS
<1>1. PICK v \in Nat, h \in Nat, p \in Nat : mesh \in Meshes(v, h, p)
  BY Zenon DEF LoopInv, RingInv, TypeInv, IsMesh
<1>2. PICK pos \in Positions : mesh' = WithVertex(mesh, pos)
  BY Zenon DEF AddVertex, WithVertex, vertices
<1>3. RingInv'
  BY AddVertexRings DEF LoopInv
<1>4. torn' = torn /\ fanned' = fanned
  BY DEF AddVertex
<1>5. ASSUME ~torn PROVE LoopsOK(mesh', fanned) /\ NotedOK(mesh')
  <2>1. LoopsOK(mesh, fanned) /\ NotedOK(mesh)
    BY <1>5 DEF LoopInv
  <2> QED BY <1>1, <1>2, <2>1, WithVertexOK
<1> QED BY <1>3, <1>4, <1>5, Zenon DEF LoopInv

(* addPolygon keeps the loops. *)
LEMMA AddPolygonLoops == LoopInv /\ AddPolygon => LoopInv'
<1> SUFFICES ASSUME LoopInv, AddPolygon PROVE LoopInv'
  OBVIOUS
<1>1. PICK v \in Nat, h \in Nat, p \in Nat : mesh \in Meshes(v, h, p)
  BY Zenon DEF LoopInv, RingInv, TypeInv, IsMesh
<1>2. PICK face \in Faces : /\ \A k \in DOMAIN face : Live(mesh.vertices, face[k])
                            /\ mesh' = WithPolygon(mesh, face)
  BY DEF AddPolygon, vertices
<1>3. PICK n \in Nat : /\ face \in [1..n -> 1..v]
                       /\ \A k \in 1..n : mesh.vertices[face[k]].live
  BY <1>1, <1>2, FaceIs
<1>4. RingInv'
  BY AddPolygonRings DEF LoopInv
<1>5. torn' = torn /\ fanned' = fanned /\ fanned \in BOOLEAN
  BY DEF AddPolygon, LoopInv, RingInv, TypeInv
<1>6. ASSUME ~torn PROVE LoopsOK(mesh', fanned) /\ NotedOK(mesh')
  <2>1. LoopsOK(mesh, fanned) /\ NotedOK(mesh)
    BY <1>6 DEF LoopInv
  <2>2. LoopsOK(WithPolygon(mesh, face), fanned) /\ NotedOK(WithPolygon(mesh, face))
    BY <1>1, <1>3, <1>5, <2>1, WithPolygonOK, Zenon
  <2> QED BY <1>2, <2>2
<1> QED BY <1>4, <1>5, <1>6, Zenon DEF LoopInv

(* Merging similar vertices keeps the loops. *)
LEMMA WeldLoops ==
  ASSUME MaybeDeleted = FALSE
  PROVE  LoopInv /\ Weld => LoopInv'
<1> SUFFICES ASSUME LoopInv, Weld PROVE LoopInv'
  OBVIOUS
<1>1. PICK v \in Nat, h \in Nat, p \in Nat : mesh \in Meshes(v, h, p)
  BY Zenon DEF LoopInv, RingInv, TypeInv, IsMesh
<1>2. PICK m : /\ m \in IF hasPointReps THEN {mesh} ELSE PointRepsOf(mesh, FALSE)
               /\ mesh' = Welded(m)
  BY DEF Weld
<1>3. /\ m \in Meshes(v, h, p) /\ RingOK(m)
      /\ m.vertices = mesh.vertices /\ m.halfEdges = mesh.halfEdges
      /\ m.polygons = mesh.polygons
  <2>1. CASE m = mesh
    <3>1. RingOK(mesh)
      BY Zenon DEF LoopInv, RingInv
    <3> QED BY <1>1, <2>1, <3>1
  <2>2. CASE m \in PointRepsOf(mesh, FALSE)
    <3>1. FALSE \in BOOLEAN /\ (FALSE => RingOK(mesh))
      OBVIOUS
    <3>2. m \in Meshes(v, h, p) /\ RingOK(m) /\ ButRings(mesh, m)
      BY <3>1, <1>1, <2>2, PointRepsOK, Zenon
    <3> QED BY <3>2, Zenon DEF ButRings
  <2> QED BY <1>2, <2>1, <2>2
<1>4. RingInv'
  BY WeldRings DEF LoopInv
<1>5. /\ torn' = (torn \/ \E u \in DOMAIN mesh.vertices : ~mesh.vertices[u].live)
      /\ fanned' = fanned /\ fanned \in BOOLEAN
  BY DEF Weld, LoopInv, RingInv, TypeInv, vertices
<1>6. ASSUME ~torn' PROVE LoopsOK(mesh', fanned) /\ NotedOK(mesh')
  <2>1. LoopsOK(mesh, fanned) /\ NotedOK(mesh)
    BY <1>5, <1>6 DEF LoopInv
  <2>2. LoopsOK(m, fanned) /\ NotedOK(m)
    BY <1>3, <2>1, LoopsOnly, NotedOnly
  <2>3. LiveVertices(m) = DOMAIN m.vertices
    BY <1>3, <1>5, <1>6, Zenon DEF LiveVertices
  <2>4. LoopsOK(Welded(m), fanned) /\ NotedOK(Welded(m))
    BY <1>3, <1>5, <2>2, <2>3, WeldedLoops, Zenon
  <2> QED BY <1>2, <2>4
<1> QED BY <1>4, <1>5, <1>6, Zenon DEF LoopInv

(* updateFromEdits keeps the loops. *)
LEMMA UpdateKeepsLoops ==
  ASSUME MaybeDeleted = FALSE
  PROVE  LoopInv /\ Update => LoopInv'
<1> SUFFICES ASSUME LoopInv, Update PROVE LoopInv'
  OBVIOUS
<1>1. PICK u \in Updates : mesh' = u.mesh /\ fanned' = u.fanned
  BY DEF Update
<1>2. TypeInv /\ RingOK(mesh)
  BY Zenon DEF LoopInv, RingInv
<1>3. RingInv'
  BY UpdateKeepsRings DEF LoopInv
<1>4. torn' = torn
  BY DEF Update
<1>5. ASSUME ~torn PROVE LoopsOK(mesh', fanned') /\ NotedOK(mesh')
  <2>1. LoopsOK(mesh, fanned) /\ NotedOK(mesh)
    BY <1>5 DEF LoopInv
  <2>2. LoopsOK(u.mesh, u.fanned) /\ NotedOK(u.mesh)
    BY <1>2, <2>1, UpdateLoops, Zenon
  <2> QED BY <1>1, <2>2
<1> QED BY <1>3, <1>4, <1>5, Zenon DEF LoopInv

(* transform keeps the loops. *)
LEMMA TransformLoops == LoopInv /\ Transform => LoopInv'
<1> SUFFICES ASSUME LoopInv, Transform PROVE LoopInv'
  OBVIOUS
<1>1. PICK v \in Nat, h \in Nat, p \in Nat : mesh \in Meshes(v, h, p)
  BY Zenon DEF LoopInv, RingInv, TypeInv, IsMesh
<1>2. PICK to \in Transforms : mesh' = Transformed(mesh, to)
  BY Zenon DEF Transform, Transformed
<1>3. to \in [Positions -> Positions]
  BY MeshAssumption
<1>4. RingInv'
  BY TransformRings DEF LoopInv
<1>5. torn' = torn /\ fanned' = fanned
  BY DEF Transform
<1>6. ASSUME ~torn PROVE LoopsOK(mesh', fanned) /\ NotedOK(mesh')
  <2>1. LoopsOK(mesh, fanned) /\ NotedOK(mesh)
    BY <1>6 DEF LoopInv
  <2>2. LoopsOK(Transformed(mesh, to), fanned) /\ NotedOK(Transformed(mesh, to))
    BY <1>1, <1>3, <2>1, TransformedOK, Zenon
  <2> QED BY <1>2, <2>2
<1> QED BY <1>4, <1>5, <1>6, Zenon DEF LoopInv

(* updateEditState keeps the loops. *)
LEMMA UpdateEditStateLoops == LoopInv /\ UpdateEditState => LoopInv'
<1> SUFFICES ASSUME LoopInv, UpdateEditState PROVE LoopInv'
  OBVIOUS
<1>1. RingInv'
  BY UpdateEditStateRings DEF LoopInv
<1>2. mesh' = mesh /\ torn' = torn /\ fanned' = fanned
  BY DEF UpdateEditState
<1> QED BY <1>1, <1>2 DEF LoopInv

-----------------------------------------------------------------------------
(* The triangles of a polygon *)

(* The n sides and the 2*(n - 3) diagonals numbered: that of the k-th half edge of *)
(* triangle t, and the half edge of a number.                                      *)
Place(n, t, k) ==
  IF k = 1 THEN (IF t = 0 THEN 1 ELSE n + 2*t)
  ELSE IF k = 2 THEN t + 2
  ELSE (IF t = n - 3 THEN n ELSE n + 2*t + 1)

(* Of the sides and the diagonals of a fan, the i-th. *)
AtPlace(h, n, s, i) == IF i <= n THEN s[i] ELSE h + (i - n)

(* Every number is that of one half edge of one triangle. *)
LEMMA PlaceIs ==
  ASSUME NEW n \in Nat, n > 3, NEW t \in 0..n-3, NEW k \in 1..3
  PROVE  Place(n, t, k) \in 1..n + 2*(n - 3)
<1>1. k = 1 \/ k = 2 \/ k = 3
  OBVIOUS
<1> QED BY <1>1 DEF Place

(* The corners of the triangles are at different places. *)
LEMMA PlaceOnce ==
  ASSUME NEW n \in Nat, n > 3, NEW t \in 0..n-3, NEW k \in 1..3,
         NEW u \in 0..n-3, NEW j \in 1..3, Place(n, u, j) = Place(n, t, k)
  PROVE  u = t /\ j = k
<1>1. k = 1 \/ k = 2 \/ k = 3
  OBVIOUS
<1>2. j = 1 \/ j = 2 \/ j = 3
  OBVIOUS
<1>3. CASE k = 1
  BY <1>2, <1>3 DEF Place
<1>4. CASE k = 2
  BY <1>2, <1>4 DEF Place
<1>5. CASE k = 3
  BY <1>2, <1>5 DEF Place
<1> QED BY <1>1, <1>3, <1>4, <1>5

(* Every place is that of a corner of a triangle. *)
LEMMA PlaceOf ==
  ASSUME NEW n \in Nat, n > 3, NEW i \in 1..n + 2*(n - 3)
  PROVE  \E t \in 0..n-3 : \E k \in 1..3 : Place(n, t, k) = i
<1>1. CASE i = 1
  BY <1>1 DEF Place
<1>2. CASE i \in 2..n-1
  <2>1. i - 2 \in 0..n-3 /\ Place(n, i - 2, 2) = i
    BY <1>2 DEF Place
  <2> QED BY <2>1
<1>3. CASE i = n
  <2>1. n - 3 \in 0..n-3 /\ Place(n, n - 3, 3) = i
    BY <1>3 DEF Place
  <2> QED BY <2>1
<1>4. CASE i > n
  <2> DEFINE t == (i - n) \div 2
  <2>1. i - n = 2*t \/ i - n = 2*t + 1
    OBVIOUS
  <2>2. t \in Int
    OBVIOUS
  <2> HIDE DEF t
  <2>3. CASE i - n = 2*t
    <3>1. t \in 0..n-3 /\ t # 0 /\ Place(n, t, 1) = i
      BY <1>4, <2>2, <2>3 DEF Place
    <3> QED BY <3>1
  <2>4. CASE i - n = 2*t + 1
    <3>1. t \in 0..n-3 /\ t # n - 3 /\ Place(n, t, 3) = i
      BY <1>4, <2>2, <2>4 DEF Place
    <3> QED BY <3>1
  <2> QED BY <2>1, <2>3, <2>4
<1> QED BY <1>1, <1>2, <1>3, <1>4

(* The half edges of a triangle, by their places. *)
LEMMA TriAt ==
  ASSUME NEW h \in Nat, NEW n \in Nat, n > 3, NEW s, NEW t \in 0..n-3, NEW k \in 1..3
  PROVE  Tri(h, n, s, t, k) = AtPlace(h, n, s, Place(n, t, k))
<1>1. k = 1 \/ k = 2 \/ k = 3
  OBVIOUS
<1>2. CASE k = 1 /\ t = 0
  BY <1>2 DEF Tri, AtPlace, Place
<1>3. CASE k = 1 /\ t # 0
  <2>1. Place(n, t, k) = n + 2*t /\ ~(n + 2*t <= n) /\ (n + 2*t) - n = 2*t
    BY <1>3 DEF Place
  <2> QED BY <2>1, <1>3 DEF Tri, AtPlace
<1>4. CASE k = 2
  <2>1. Place(n, t, k) = t + 2 /\ t + 2 <= n
    BY <1>4 DEF Place
  <2> QED BY <2>1, <1>4 DEF Tri, AtPlace
<1>5. CASE k = 3 /\ t = n - 3
  <2>1. Place(n, t, k) = n /\ n <= n
    BY <1>5 DEF Place
  <2> QED BY <2>1, <1>5 DEF Tri, AtPlace
<1>6. CASE k = 3 /\ t # n - 3
  <2>1. Place(n, t, k) = n + 2*t + 1 /\ ~(n + 2*t + 1 <= n) /\ h + ((n + 2*t + 1) - n) = h + 2*t + 1
    BY <1>6 DEF Place
  <2> QED BY <2>1, <1>6 DEF Tri, AtPlace
<1> QED BY <1>1, <1>2, <1>3, <1>4, <1>5, <1>6

(* Sides of a polygon, each once. *)
AreSides(h, n, s) ==
  /\ n \in Nat /\ n > 3 /\ s \in [1..n -> 1..h]
  /\ \A i, j \in 1..n : s[i] = s[j] => i = j

(* Different places hold different half edges. *)
LEMMA PlacesDiffer ==
  ASSUME NEW h \in Nat, NEW n, NEW s, AreSides(h, n, s),
         NEW i \in 1..n + 2*(n - 3), NEW j \in 1..n + 2*(n - 3),
         AtPlace(h, n, s, i) = AtPlace(h, n, s, j)
  PROVE  i = j
<1>1. n \in Nat /\ n > 3 /\ s \in [1..n -> 1..h]
  BY DEF AreSides
<1>2. ASSUME NEW a \in 1..n PROVE s[a] \in 1..h
  BY <1>1
<1>3. CASE i <= n /\ j <= n
  <2>1. i \in 1..n /\ j \in 1..n
    BY <1>1, <1>3
  <2>2. s[i] = s[j]
    BY <1>3 DEF AtPlace
  <2> QED BY <2>1, <2>2, Zenon DEF AreSides
<1>4. CASE i <= n /\ ~(j <= n)
  <2>1. i \in 1..n /\ s[i] = h + (j - n) /\ j \in Int
    BY <1>1, <1>4 DEF AtPlace
  <2>2. s[i] \in 1..h
    BY <2>1, <1>2
  <2> QED BY <1>1, <1>4, <2>1, <2>2
<1>5. CASE ~(i <= n) /\ j <= n
  <2>1. j \in 1..n /\ s[j] = h + (i - n) /\ i \in Int
    BY <1>1, <1>5 DEF AtPlace
  <2>2. s[j] \in 1..h
    BY <2>1, <1>2
  <2> QED BY <1>1, <1>5, <2>1, <2>2
<1>6. CASE ~(i <= n) /\ ~(j <= n)
  BY <1>1, <1>6 DEF AtPlace
<1> QED BY <1>3, <1>4, <1>5, <1>6

(* Each half edge of a triangle is a side or a diagonal, and in no other triangle. *)
TriIs(h, n, s, t, k) ==
  LET x == Tri(h, n, s, t, k)
  IN  /\ x \in 1..h + 2*(n - 3)
      /\ x <= h => \E i \in 1..n : s[i] = x
      /\ \A u \in 0..n-3 : \A j \in 1..3 : Tri(h, n, s, u, j) = x => u = t /\ j = k

(* A half edge of a triangle belongs to that triangle alone. *)
LEMMA TriFacts ==
  ASSUME NEW h \in Nat, NEW n, NEW s, AreSides(h, n, s), NEW t \in 0..n-3, NEW k \in 1..3
  PROVE  TriIs(h, n, s, t, k)
<1>1. n \in Nat /\ n > 3 /\ s \in [1..n -> 1..h]
  BY DEF AreSides
<1> DEFINE x == Tri(h, n, s, t, k)
           i == Place(n, t, k)
<1>2. x = AtPlace(h, n, s, i) /\ i \in 1..n + 2*(n - 3)
  <2>1. x = AtPlace(h, n, s, i)
    BY <1>1, TriAt
  <2>2. i \in 1..n + 2*(n - 3)
    BY <1>1, PlaceIs
  <2> QED BY <2>1, <2>2
<1> HIDE DEF x, i
<1>3. x \in 1..h + 2*(n - 3) /\ (x <= h => i \in 1..n /\ s[i] = x)
  <2>1. CASE i <= n
    <3>1. i \in 1..n /\ s[i] \in 1..h /\ x = s[i]
      BY <1>1, <1>2, <2>1 DEF AtPlace
    <3> QED BY <3>1, <1>1
  <2>2. CASE ~(i <= n)
    <3>1. x = h + (i - n)
      BY <1>1, <1>2, <2>2 DEF AtPlace
    <3> QED BY <3>1, <1>1, <1>2, <2>2
  <2> QED BY <2>1, <2>2
<1>4. ASSUME NEW u \in 0..n-3, NEW j \in 1..3, Tri(h, n, s, u, j) = x PROVE u = t /\ j = k
  <2>1. /\ Tri(h, n, s, u, j) = AtPlace(h, n, s, Place(n, u, j))
        /\ Place(n, u, j) \in 1..n + 2*(n - 3)
    <3>1. Tri(h, n, s, u, j) = AtPlace(h, n, s, Place(n, u, j))
      BY <1>1, TriAt
    <3>2. Place(n, u, j) \in 1..n + 2*(n - 3)
      BY <1>1, PlaceIs
    <3> QED BY <3>1, <3>2
  <2>2. AtPlace(h, n, s, Place(n, u, j)) = AtPlace(h, n, s, i)
    BY <1>2, <1>4, <2>1
  <2>3. Place(n, u, j) = i
    BY <1>2, <2>1, <2>2, PlacesDiffer
  <2> QED BY <1>1, <2>3, PlaceOnce DEF i
<1> QED BY <1>3, <1>4, Zenon DEF TriIs, x

(* Every side and every diagonal is in one of the triangles. *)
HaveTriangles(h, n, s) ==
  /\ \A i \in 1..n : \E t \in 0..n-3 : \E k \in 1..3 : Tri(h, n, s, t, k) = s[i]
  /\ \A j \in 1..2*(n - 3) : \E t \in 0..n-3 : \E k \in 1..3 : Tri(h, n, s, t, k) = h + j

(* The triangles of a fan use every side and every diagonal. *)
LEMMA TriOf ==
  ASSUME NEW h \in Nat, NEW n, NEW s, AreSides(h, n, s)
  PROVE  HaveTriangles(h, n, s)
<1>1. n \in Nat /\ n > 3
  BY DEF AreSides
<1>2. ASSUME NEW i \in 1..n
      PROVE  \E t \in 0..n-3 : \E k \in 1..3 : Tri(h, n, s, t, k) = s[i]
  <2>1. i \in 1..n + 2*(n - 3) /\ i <= n
    BY <1>1
  <2>2. PICK t \in 0..n-3, k \in 1..3 : Place(n, t, k) = i
    BY <1>1, <2>1, PlaceOf
  <2>3. Tri(h, n, s, t, k) = AtPlace(h, n, s, i)
    BY <1>1, <2>2, TriAt
  <2>4. AtPlace(h, n, s, i) = s[i]
    BY <2>1 DEF AtPlace
  <2> QED BY <2>3, <2>4
<1>3. ASSUME NEW j \in 1..2*(n - 3)
      PROVE  \E t \in 0..n-3 : \E k \in 1..3 : Tri(h, n, s, t, k) = h + j
  <2>1. n + j \in 1..n + 2*(n - 3) /\ ~(n + j <= n) /\ (n + j) - n = j
    BY <1>1
  <2>2. PICK t \in 0..n-3, k \in 1..3 : Place(n, t, k) = n + j
    BY <1>1, <2>1, PlaceOf
  <2>3. Tri(h, n, s, t, k) = AtPlace(h, n, s, n + j)
    BY <1>1, <2>2, TriAt
  <2>4. AtPlace(h, n, s, n + j) = h + j
    BY <2>1 DEF AtPlace
  <2> QED BY <2>3, <2>4
<1> QED BY <1>2, <1>3, Zenon DEF HaveTriangles

-----------------------------------------------------------------------------
(* The half edges of a triangle go around it: f is the k-th of triangle t. *)
IsTurned(h, p, q, n, s, t, k, e, f) ==
  f = [e EXCEPT !.polygon = Poly(p, q, t), !.next = Tri(h, n, s, t, (k % 3) + 1)]

(* A half edge of a triangle is linked to the next of its triangle. *)
LEMMA TurnIs ==
  ASSUME NEW h \in Nat, NEW n, NEW s, AreSides(h, n, s), NEW t \in 0..n-3, NEW k \in 1..3,
         NEW p, NEW q, NEW e
  PROVE  IsTurned(h, p, q, n, s, t, k, e, Turn(h, p, q, n, s, Tri(h, n, s, t, k), e))
<1> DEFINE x == Tri(h, n, s, t, k)
           u == CHOOSE u \in 0..n-3 : InTriangle(h, n, s, u, x)
<1>1. TriIs(h, n, s, t, k)
  BY TriFacts
<1>2. \A w \in 0..n-3 : \A j \in 1..3 : Tri(h, n, s, w, j) = x => w = t /\ j = k
  BY <1>1, Zenon DEF TriIs
<1>3. InTriangle(h, n, s, t, x)
  BY DEF InTriangle
<1> HIDE DEF x
<1>4. u \in 0..n-3 /\ InTriangle(h, n, s, u, x)
  BY <1>3, Zenon
<1> HIDE DEF u
<1>5. u = t
  BY <1>2, <1>4, Zenon DEF InTriangle
<1> DEFINE c == CHOOSE j \in 1..3 : Tri(h, n, s, u, j) = x
<1>6. c \in 1..3 /\ Tri(h, n, s, u, c) = x
  BY <1>5, <1>3, Zenon DEF InTriangle
<1> HIDE DEF c
<1>7. c = k
  BY <1>2, <1>4, <1>6
<1>8. Turn(h, p, q, n, s, x, e) =
        [e EXCEPT !.polygon = Poly(p, q, u), !.next = Tri(h, n, s, u, (c % 3) + 1)]
  BY <1>3, Zenon DEF Turn, u, c
<1> QED BY <1>5, <1>7, <1>8, Zenon DEF x, IsTurned

(* A half edge that is no side of the polygon stays as it is. *)
LEMMA TurnNot ==
  ASSUME NEW h \in Nat, NEW n, NEW s, AreSides(h, n, s), NEW x \in 1..h,
         \A i \in 1..n : s[i] # x, NEW p, NEW q, NEW e
  PROVE  Turn(h, p, q, n, s, x, e) = e
<1>1. ASSUME NEW t \in 0..n-3, InTriangle(h, n, s, t, x) PROVE FALSE
  <2>1. PICK k \in 1..3 : Tri(h, n, s, t, k) = x
    BY <1>1, Zenon DEF InTriangle
  <2>2. TriIs(h, n, s, t, k)
    BY TriFacts
  <2>3. x <= h => \E i \in 1..n : s[i] = x
    BY <2>1, <2>2, Zenon DEF TriIs
  <2> QED BY <2>3
<1> QED BY <1>1, Zenon DEF Turn

-----------------------------------------------------------------------------
(* What triangulating makes of the half edges *)

(* Turning changes the polygon and the next only. *)
LEMMA TurnFields ==
  ASSUME NEW h, NEW p, NEW q, NEW n, NEW s, NEW x, NEW a, NEW b, NEW c, NEW e \in HalfEdgeOf(a, b, c)
  PROVE  LET f == Turn(h, p, q, n, s, x, e)
         IN  f.live = e.live /\ f.start = e.start /\ f.end = e.end
<1> DEFINE f == Turn(h, p, q, n, s, x, e)
<1>1. f = e \/ \E y, z : f = [e EXCEPT !.polygon = y, !.next = z]
  BY Zenon DEF Turn
<1> HIDE DEF f
<1>2. ASSUME f = e
      PROVE  f.live = e.live /\ f.start = e.start /\ f.end = e.end
  BY <1>2
<1>3. ASSUME NEW y, NEW z, f = [e EXCEPT !.polygon = y, !.next = z]
      PROVE  f.live = e.live /\ f.start = e.start /\ f.end = e.end
  BY <1>3 DEF HalfEdgeOf
<1>4. f.live = e.live /\ f.start = e.start /\ f.end = e.end
  BY <1>1, <1>2, <1>3
<1> QED BY <1>4 DEF f

(* An old half edge keeps its ends, and all if it is not of the polygon. *)
FanOld(h, m, n, s, r) ==
  \A x \in 1..h :
    /\ r.halfEdges[x].live = m.halfEdges[x].live
    /\ r.halfEdges[x].start = m.halfEdges[x].start
    /\ r.halfEdges[x].end = m.halfEdges[x].end
    /\ (\A i \in 1..n : s[i] # x) => r.halfEdges[x] = m.halfEdges[x]

(* Triangulating changes only polygon and next of the half edges there
   were. *)
LEMMA FanOldIs ==
  ASSUME NEW v \in Nat, NEW h \in Nat, NEW p \in Nat, NEW m \in Meshes(v, h, p), NEW q,
         NEW n, NEW s, AreSides(h, n, s), NEW r, IsFanned(v, h, p, m, q, n, s, r)
  PROVE  FanOld(h, m, n, s, r)
<1> SUFFICES ASSUME NEW x \in 1..h
             PROVE  /\ r.halfEdges[x].live = m.halfEdges[x].live
                    /\ r.halfEdges[x].start = m.halfEdges[x].start
                    /\ r.halfEdges[x].end = m.halfEdges[x].end
                    /\ (\A i \in 1..n : s[i] # x) => r.halfEdges[x] = m.halfEdges[x]
  BY Zenon DEF FanOld
<1>1. r.halfEdges[x] = Turn(h, p, q, n, s, x, m.halfEdges[x])
  BY Zenon DEF IsFanned
<1>2. m.halfEdges[x] \in HalfEdgeOf(v, h, p)
  BY EdgeFields
<1>3. /\ r.halfEdges[x].live = m.halfEdges[x].live
      /\ r.halfEdges[x].start = m.halfEdges[x].start
      /\ r.halfEdges[x].end = m.halfEdges[x].end
  BY <1>1, <1>2, TurnFields
<1>4. (\A i \in 1..n : s[i] # x) => r.halfEdges[x] = m.halfEdges[x]
  BY <1>1, TurnNot
<1> QED BY <1>3, <1>4

(* A new one is a diagonal. *)
FanNew(h, p, m, q, n, s, r) ==
  \A j \in 1..2*(n - 3) :
    /\ r.halfEdges[h + j].live = TRUE
    /\ r.halfEdges[h + j].start = Diagonal(m, p, q, s, j).start
    /\ r.halfEdges[h + j].end = Diagonal(m, p, q, s, j).end

(* The half edges it adds are the diagonals. *)
LEMMA FanNewIs ==
  ASSUME NEW v \in Nat, NEW h \in Nat, NEW p \in Nat, NEW m \in Meshes(v, h, p), NEW q,
         NEW n, NEW s, AreSides(h, n, s), NEW r, IsFanned(v, h, p, m, q, n, s, r)
  PROVE  FanNew(h, p, m, q, n, s, r)
<1> SUFFICES ASSUME NEW j \in 1..2*(n - 3)
             PROVE  /\ r.halfEdges[h + j].live = TRUE
                    /\ r.halfEdges[h + j].start = Diagonal(m, p, q, s, j).start
                    /\ r.halfEdges[h + j].end = Diagonal(m, p, q, s, j).end
  BY Zenon DEF FanNew
<1> DEFINE e == Diagonal(m, p, q, s, j)
<1>1. r.halfEdges[h + j] = Turn(h, p, q, n, s, h + j, e)
  BY Zenon DEF IsFanned
<1>2. n \in Nat /\ n > 3
  BY DEF AreSides
<1>3. PICK t \in 0..n-3, k \in 1..3 : Tri(h, n, s, t, k) = h + j
  <2>1. HaveTriangles(h, n, s)
    BY TriOf
  <2> QED BY <2>1, Zenon DEF HaveTriangles
<1>4. r.halfEdges[h + j] = [e EXCEPT !.polygon = Poly(p, q, t), !.next = Tri(h, n, s, t, (k % 3) + 1)]
  <2> HIDE DEF e
  <2>1. IsTurned(h, p, q, n, s, t, k, e, Turn(h, p, q, n, s, Tri(h, n, s, t, k), e))
    BY TurnIs, Zenon
  <2> QED BY <2>1, <1>1, <1>3, Zenon DEF IsTurned
<1> QED BY <1>4 DEF Diagonal

(* The half edges of a triangle follow each other around. *)
FanTri(h, p, q, n, s, r) ==
  \A t \in 0..n-3 : \A k \in 1..3 :
    LET x == Tri(h, n, s, t, k)
    IN  /\ r.halfEdges[x].polygon = Poly(p, q, t)
        /\ r.halfEdges[x].next = Tri(h, n, s, t, (k % 3) + 1)

(* The half edges of each triangle point at the next one and at their
   polygon. *)
LEMMA FanTriIs ==
  ASSUME NEW v \in Nat, NEW h \in Nat, NEW p \in Nat, NEW m \in Meshes(v, h, p), NEW q,
         NEW n, NEW s, AreSides(h, n, s), NEW r, IsFanned(v, h, p, m, q, n, s, r)
  PROVE  FanTri(h, p, q, n, s, r)
<1> SUFFICES ASSUME NEW t \in 0..n-3, NEW k \in 1..3
             PROVE  /\ r.halfEdges[Tri(h, n, s, t, k)].polygon = Poly(p, q, t)
                    /\ r.halfEdges[Tri(h, n, s, t, k)].next = Tri(h, n, s, t, (k % 3) + 1)
  BY Zenon DEF FanTri
<1> DEFINE x == Tri(h, n, s, t, k)
<1>1. TriIs(h, n, s, t, k)
  BY TriFacts
<1>2. x \in 1..h + 2*(n - 3)
  BY <1>1, Zenon DEF TriIs
<1>3. n \in Nat /\ n > 3
  BY DEF AreSides
<1>4. CASE x <= h
  <2> DEFINE e == m.halfEdges[x]
  <2>1. x \in 1..h
    BY <1>2, <1>4
  <2>2. e \in HalfEdgeOf(v, h, p)
    BY <2>1, EdgeFields
  <2>3. r.halfEdges[x] = Turn(h, p, q, n, s, x, e)
    BY <2>1, Zenon DEF IsFanned
  <2> HIDE DEF e
  <2>4. IsTurned(h, p, q, n, s, t, k, e, Turn(h, p, q, n, s, x, e))
    BY TurnIs, Zenon
  <2>5. r.halfEdges[x] = [e EXCEPT !.polygon = Poly(p, q, t), !.next = Tri(h, n, s, t, (k % 3) + 1)]
    BY <2>3, <2>4, Zenon DEF IsTurned
  <2> HIDE DEF x
  <2>6. r.halfEdges[x].polygon = Poly(p, q, t) /\ r.halfEdges[x].next = Tri(h, n, s, t, (k % 3) + 1)
    BY <2>2, <2>5 DEF HalfEdgeOf
  <2> QED BY <2>6 DEF x
<1>5. CASE ~(x <= h)
  <2> DEFINE j == x - h
  <2>1. j \in 1..2*(n - 3) /\ h + j = x
    BY <1>2, <1>3, <1>5
  <2> HIDE DEF j
  <2> DEFINE e == Diagonal(m, p, q, s, j)
  <2>2. r.halfEdges[h + j] = Turn(h, p, q, n, s, h + j, e)
    BY <2>1, Zenon DEF IsFanned
  <2>3. r.halfEdges[x] = Turn(h, p, q, n, s, x, e)
    BY <2>1, <2>2
  <2> HIDE DEF e
  <2>4. IsTurned(h, p, q, n, s, t, k, e, Turn(h, p, q, n, s, x, e))
    BY TurnIs, Zenon
  <2>5. r.halfEdges[x] = [e EXCEPT !.polygon = Poly(p, q, t), !.next = Tri(h, n, s, t, (k % 3) + 1)]
    BY <2>3, <2>4, Zenon DEF IsTurned
  <2> HIDE DEF x
  <2>6. r.halfEdges[x].polygon = Poly(p, q, t) /\ r.halfEdges[x].next = Tri(h, n, s, t, (k % 3) + 1)
    BY <2>5 DEF e, Diagonal
  <2> QED BY <2>6 DEF x
<1> QED BY <1>4, <1>5

-----------------------------------------------------------------------------
(* The points of a triangle: the first corner, and two that follow each other. *)
FanPoint(m, s, t, k) ==
  m.halfEdges[s[IF k = 1 THEN 1 ELSE IF k = 2 THEN t + 2 ELSE t + 3]].start

(* The sides of a polygon lead from corner to corner. *)
Around(m, n, s) ==
  /\ \A i \in 1..n-1 : m.halfEdges[s[i]].end = m.halfEdges[s[i + 1]].start
  /\ m.halfEdges[s[n]].end = m.halfEdges[s[1]].start

(* The two diagonals of a triangle run between the first side's start and
   the next corners. *)
LEMMA DiagonalIs ==
  ASSUME NEW m, NEW p, NEW q, NEW n, NEW h \in Nat, NEW s, AreSides(h, n, s), Around(m, n, s),
         NEW t \in 0..n-3
  PROVE  /\ t # 0 => /\ Diagonal(m, p, q, s, 2*t).start = m.halfEdges[s[1]].start
                     /\ Diagonal(m, p, q, s, 2*t).end = m.halfEdges[s[t + 2]].start
         /\ t # n - 3 => /\ Diagonal(m, p, q, s, 2*t + 1).start = m.halfEdges[s[t + 3]].start
                         /\ Diagonal(m, p, q, s, 2*t + 1).end = m.halfEdges[s[1]].start
<1>1. n \in Nat /\ n > 3
  BY DEF AreSides
<1>2. t \in Nat
  BY <1>1
<1>3. ASSUME t # 0
      PROVE  /\ Diagonal(m, p, q, s, 2*t).start = m.halfEdges[s[1]].start
             /\ Diagonal(m, p, q, s, 2*t).end = m.halfEdges[s[t + 2]].start
  <2>1. (2*t) % 2 = 0 /\ ((2*t - 1) \div 2) + 2 = t + 1
    BY <1>2, <1>3
  <2>2. t + 1 \in 1..n-1 /\ (t + 1) + 1 = t + 2
    BY <1>1
  <2>3. m.halfEdges[s[t + 1]].end = m.halfEdges[s[t + 2]].start
    BY <2>2, Zenon DEF Around
  <2>4. Tip(m, s, 2*t) = m.halfEdges[s[t + 2]].start
    BY <2>1, <2>3 DEF Tip
  <2>5. ~((2*t) % 2 = 1)
    BY <2>1
  <2> QED BY <2>4, <2>5 DEF Diagonal
<1>4. ASSUME t # n - 3
      PROVE  /\ Diagonal(m, p, q, s, 2*t + 1).start = m.halfEdges[s[t + 3]].start
             /\ Diagonal(m, p, q, s, 2*t + 1).end = m.halfEdges[s[1]].start
  <2>1. (2*t + 1) % 2 = 1 /\ (((2*t + 1) - 1) \div 2) + 2 = t + 2
    BY <1>2
  <2>2. t + 2 \in 1..n-1 /\ (t + 2) + 1 = t + 3
    BY <1>1, <1>4
  <2>3. m.halfEdges[s[t + 2]].end = m.halfEdges[s[t + 3]].start
    BY <2>2, Zenon DEF Around
  <2>4. Tip(m, s, 2*t + 1) = m.halfEdges[s[t + 3]].start
    BY <2>1, <2>3 DEF Tip
  <2> QED BY <2>1, <2>4 DEF Diagonal
<1> QED BY <1>3, <1>4

(* Each half edge of a triangle leads from one of its points to the next. *)
FanSide(h, m, n, s, r, t, k) ==
  /\ r.halfEdges[Tri(h, n, s, t, k)].start = FanPoint(m, s, t, k)
  /\ r.halfEdges[Tri(h, n, s, t, k)].end = FanPoint(m, s, t, (k % 3) + 1)

(* Each half edge of a triangle starts at the corner where the one before
   it ends. *)
LEMMA FanPoints ==
  ASSUME NEW m, NEW p, NEW q, NEW n, NEW h \in Nat, NEW s, AreSides(h, n, s), Around(m, n, s),
         NEW r, FanOld(h, m, n, s, r), FanNew(h, p, m, q, n, s, r),
         NEW t \in 0..n-3, NEW k \in 1..3
  PROVE  FanSide(h, m, n, s, r, t, k)
<1> DEFINE x == Tri(h, n, s, t, k)
           IsHere == /\ r.halfEdges[x].start = FanPoint(m, s, t, k)
                     /\ r.halfEdges[x].end = FanPoint(m, s, t, (k % 3) + 1)
<1>1. n \in Nat /\ n > 3 /\ s \in [1..n -> 1..h]
  BY DEF AreSides
<1>2. ASSUME NEW i \in 1..n
      PROVE  /\ r.halfEdges[s[i]].start = m.halfEdges[s[i]].start
             /\ r.halfEdges[s[i]].end = m.halfEdges[s[i]].end
  <2>1. s[i] \in 1..h
    BY <1>1
  <2> QED BY <2>1, Zenon DEF FanOld
<1>3. ASSUME NEW j \in 1..2*(n - 3)
      PROVE  /\ r.halfEdges[h + j].start = Diagonal(m, p, q, s, j).start
             /\ r.halfEdges[h + j].end = Diagonal(m, p, q, s, j).end
  BY Zenon DEF FanNew
<1>4. k = 1 \/ k = 2 \/ k = 3
  OBVIOUS
<1>5. /\ t # 0 => /\ Diagonal(m, p, q, s, 2*t).start = m.halfEdges[s[1]].start
                  /\ Diagonal(m, p, q, s, 2*t).end = m.halfEdges[s[t + 2]].start
      /\ t # n - 3 => /\ Diagonal(m, p, q, s, 2*t + 1).start = m.halfEdges[s[t + 3]].start
                      /\ Diagonal(m, p, q, s, 2*t + 1).end = m.halfEdges[s[1]].start
  BY DiagonalIs
<1>6. /\ \A i \in 1..n-1 : m.halfEdges[s[i]].end = m.halfEdges[s[i + 1]].start
      /\ m.halfEdges[s[n]].end = m.halfEdges[s[1]].start
  BY Zenon DEF Around
<1>7. ASSUME k = 1 /\ t = 0
      PROVE  IsHere
  <2>1. x = s[1] /\ FanPoint(m, s, t, k) = m.halfEdges[s[1]].start
        /\ FanPoint(m, s, t, (k % 3) + 1) = m.halfEdges[s[2]].start
    BY <1>7 DEF Tri, FanPoint
  <2>2. 1 \in 1..n /\ 1 \in 1..n-1 /\ 1 + 1 = 2
    BY <1>1
  <2>3. m.halfEdges[s[1]].end = m.halfEdges[s[2]].start
    BY <2>2, <1>6
  <2> QED BY <2>1, <2>2, <2>3, <1>2
<1>8. ASSUME k = 1 /\ t # 0
      PROVE  IsHere
  <2>1. x = h + 2*t /\ FanPoint(m, s, t, k) = m.halfEdges[s[1]].start
        /\ FanPoint(m, s, t, (k % 3) + 1) = m.halfEdges[s[t + 2]].start
    BY <1>8 DEF Tri, FanPoint
  <2>2. 2*t \in 1..2*(n - 3)
    BY <1>1, <1>8
  <2>3. r.halfEdges[x].start = Diagonal(m, p, q, s, 2*t).start
        /\ r.halfEdges[x].end = Diagonal(m, p, q, s, 2*t).end
    BY <2>1, <2>2, <1>3
  <2> QED BY <2>1, <2>3, <1>5, <1>8
<1>9. ASSUME k = 2
      PROVE  IsHere
  <2>1. x = s[t + 2] /\ FanPoint(m, s, t, k) = m.halfEdges[s[t + 2]].start
        /\ FanPoint(m, s, t, (k % 3) + 1) = m.halfEdges[s[t + 3]].start
    BY <1>9 DEF Tri, FanPoint
  <2>2. t + 2 \in 1..n /\ t + 2 \in 1..n-1 /\ (t + 2) + 1 = t + 3
    BY <1>1
  <2>3. m.halfEdges[s[t + 2]].end = m.halfEdges[s[t + 3]].start
    BY <2>2, <1>6
  <2> QED BY <2>1, <2>2, <2>3, <1>2
<1>10. ASSUME k = 3 /\ t = n - 3
      PROVE  IsHere
  <2>1. x = s[n] /\ FanPoint(m, s, t, k) = m.halfEdges[s[t + 3]].start
        /\ FanPoint(m, s, t, (k % 3) + 1) = m.halfEdges[s[1]].start
    BY <1>10 DEF Tri, FanPoint
  <2>2. n \in 1..n /\ t + 3 = n
    BY <1>1, <1>10
  <2> QED BY <2>1, <2>2, <1>2, <1>6
<1>11. ASSUME k = 3 /\ t # n - 3
      PROVE  IsHere
  <2>1. x = h + (2*t + 1) /\ FanPoint(m, s, t, k) = m.halfEdges[s[t + 3]].start
        /\ FanPoint(m, s, t, (k % 3) + 1) = m.halfEdges[s[1]].start
    BY <1>11 DEF Tri, FanPoint
  <2>2. 2*t + 1 \in 1..2*(n - 3)
    BY <1>1, <1>11
  <2>3. r.halfEdges[x].start = Diagonal(m, p, q, s, 2*t + 1).start
        /\ r.halfEdges[x].end = Diagonal(m, p, q, s, 2*t + 1).end
    BY <2>1, <2>2, <1>3
  <2> QED BY <2>1, <2>3, <1>5, <1>11
<1>12. /\ r.halfEdges[Tri(h, n, s, t, k)].start = FanPoint(m, s, t, k)
       /\ r.halfEdges[Tri(h, n, s, t, k)].end = FanPoint(m, s, t, (k % 3) + 1)
  BY <1>4, <1>7, <1>8, <1>9, <1>10, <1>11
<1> QED BY <1>12, Zenon DEF FanSide

-----------------------------------------------------------------------------
(* Loops of triangles *)

(* The half edges that are not deleted and not of polygon q. *)
Outside(m, q) == {x \in LiveEdges(m) : m.halfEdges[x].polygon # q}

(* The sides of a polygon are its half edges, once around. *)
LEMMA FanSides ==
  ASSUME NEW v \in Nat, NEW h \in Nat, NEW p \in Nat, NEW m \in Meshes(v, h, p), NEW q \in 1..p,
         NEW stale, LoopsOK(m, stale), NEW n, n = Len(Loop(m, q)), n > 3, NEW s, s = Loop(m, q)
  PROVE  /\ AreSides(h, n, s) /\ Around(m, n, s)
         /\ \A i \in 1..n : s[i] \in LiveEdges(m) /\ m.halfEdges[s[i]].polygon = q
         /\ \A x \in LiveEdges(m) : m.halfEdges[x].polygon = q => \E i \in 1..n : s[i] = x
         /\ \A x \in LiveEdges(m) : m.halfEdges[m.halfEdges[x].next].polygon = m.halfEdges[x].polygon
<1>1. NextOK(m) /\ LinksOK(m, stale)
  BY Zenon DEF LoopsOK
<1>2. IsClosed(h, m, q, s)
  BY <1>1, LoopCloses
<1>3. /\ n \in 0..h /\ s \in [1..n -> LiveEdges(m)]
      /\ \A i, j \in 1..n : s[i] = s[j] => i = j
      /\ \A i \in 1..n : m.halfEdges[s[i]].next = s[IF i = n THEN 1 ELSE i + 1]
  BY <1>2, Zenon DEF IsClosed
<1>4. /\ \A i \in 1..n : m.halfEdges[s[i]].polygon = q
      /\ \A x \in LiveEdges(m) : m.halfEdges[x].polygon = q => \E i \in 1..n : s[i] = x
  <2>1. HasItsOwn(m, q, s)
    BY LoopHasAll
  <2> QED BY <2>1, Zenon DEF HasItsOwn
<1>5. LiveEdges(m) \subseteq 1..h
  BY LiveAre
<1>6. n \in Nat /\ s \in [1..n -> 1..h]
  BY <1>3, <1>5
<1>7. AreSides(h, n, s)
  BY <1>3, <1>6, Zenon DEF AreSides
<1>8. \A x \in LiveEdges(m) :
        /\ m.halfEdges[m.halfEdges[x].next].polygon = m.halfEdges[x].polygon
        /\ m.halfEdges[m.halfEdges[x].next].start = m.halfEdges[x].end
  BY <1>1, Zenon DEF LinksOK
<1>9. \A i \in 1..n : s[i] \in LiveEdges(m)
  BY <1>3
<1>10. Around(m, n, s)
  <2>1. ASSUME NEW i \in 1..n-1 PROVE m.halfEdges[s[i]].end = m.halfEdges[s[i + 1]].start
    <3>1. i \in 1..n /\ i # n
      BY <1>6
    <3>2. m.halfEdges[s[i]].next = s[i + 1]
      BY <3>1, <1>3
    <3> QED BY <3>1, <3>2, <1>8, <1>9
  <2>2. m.halfEdges[s[n]].end = m.halfEdges[s[1]].start
    <3>1. n \in 1..n
      BY <1>6
    <3>2. m.halfEdges[s[n]].next = s[1]
      BY <3>1, <1>3
    <3> QED BY <3>1, <3>2, <1>8, <1>9
  <2> QED BY <2>1, <2>2, Zenon DEF Around
<1> QED BY <1>4, <1>7, <1>8, <1>9, <1>10

(* Which half edges there are then, and how they go on. *)
FanLive(h, p, m, q, n, s, r) ==
  /\ \A x \in LiveEdges(r) :
       x \in Outside(m, q) \/ \E t \in 0..n-3 : \E k \in 1..3 : x = Tri(h, n, s, t, k)
  /\ \A x \in Outside(m, q) : x \in LiveEdges(r) /\ r.halfEdges[x] = m.halfEdges[x]
  /\ \A t \in 0..n-3 : \A k \in 1..3 :
       Tri(h, n, s, t, k) \in LiveEdges(r) /\ Tri(h, n, s, t, k) \notin Outside(m, q)

(* The live half edges are those of the other polygons and those of the
   triangles. *)
LEMMA FanLiveIs ==
  ASSUME NEW v \in Nat, NEW h \in Nat, NEW p \in Nat, NEW m \in Meshes(v, h, p), NEW q,
         NEW n, NEW s, AreSides(h, n, s),
         \A i \in 1..n : s[i] \in LiveEdges(m) /\ m.halfEdges[s[i]].polygon = q,
         \A x \in LiveEdges(m) : m.halfEdges[x].polygon = q => \E i \in 1..n : s[i] = x,
         NEW r, DOMAIN r.halfEdges = 1..h + 2*(n - 3),
         FanOld(h, m, n, s, r), FanNew(h, p, m, q, n, s, r)
  PROVE  FanLive(h, p, m, q, n, s, r)
<1>1. n \in Nat /\ n > 3
  BY DEF AreSides
<1>2. \A x \in 1..h :
        /\ r.halfEdges[x].live = m.halfEdges[x].live
        /\ (\A i \in 1..n : s[i] # x) => r.halfEdges[x] = m.halfEdges[x]
  BY Zenon DEF FanOld
<1>3. \A j \in 1..2*(n - 3) : r.halfEdges[h + j].live = TRUE
  BY Zenon DEF FanNew
<1>4. LiveEdges(m) \subseteq 1..h /\ \A x \in 1..h : x \in LiveEdges(m) <=> m.halfEdges[x].live
  BY LiveAre
<1>5. \A x : x \in LiveEdges(r) <=> x \in 1..h + 2*(n - 3) /\ r.halfEdges[x].live
  BY Zenon DEF LiveEdges
<1>6. HaveTriangles(h, n, s)
  BY TriOf
<1>7. ASSUME NEW x \in LiveEdges(r)
      PROVE  x \in Outside(m, q) \/ \E t \in 0..n-3 : \E k \in 1..3 : x = Tri(h, n, s, t, k)
  <2>1. x \in 1..h + 2*(n - 3)
    BY <1>5
  <2>2. CASE x <= h
    <3>1. x \in LiveEdges(m)
      <4>1. x \in 1..h
        BY <2>1, <2>2, <1>1
      <4> QED BY <4>1, <1>2, <1>4, <1>5
    <3>2. CASE m.halfEdges[x].polygon = q
      <4>1. PICK i \in 1..n : s[i] = x
        BY <3>1, <3>2
      <4>2. \E t \in 0..n-3 : \E k \in 1..3 : Tri(h, n, s, t, k) = s[i]
        BY <1>6, Zenon DEF HaveTriangles
      <4> QED BY <4>1, <4>2, Zenon
    <3>3. CASE m.halfEdges[x].polygon # q
      BY <3>1, <3>3 DEF Outside
    <3> QED BY <3>2, <3>3
  <2>3. CASE ~(x <= h)
    <3>1. x - h \in 1..2*(n - 3) /\ h + (x - h) = x
      BY <1>1, <2>1, <2>3
    <3>2. \E t \in 0..n-3 : \E k \in 1..3 : Tri(h, n, s, t, k) = h + (x - h)
      BY <1>6, <3>1, Zenon DEF HaveTriangles
    <3> QED BY <3>1, <3>2, Zenon
  <2> QED BY <2>2, <2>3
<1>8. ASSUME NEW x \in Outside(m, q) PROVE x \in LiveEdges(r) /\ r.halfEdges[x] = m.halfEdges[x]
  <2>1. x \in LiveEdges(m) /\ m.halfEdges[x].polygon # q
    BY DEF Outside
  <2>2. x \in 1..h /\ m.halfEdges[x].live
    BY <2>1, <1>4
  <2>3. \A i \in 1..n : s[i] # x
    BY <2>1
  <2>4. x \in 1..h + 2*(n - 3)
    BY <2>2, <1>1
  <2> QED BY <2>2, <2>3, <2>4, <1>2, <1>5
<1>9. ASSUME NEW t \in 0..n-3, NEW k \in 1..3
      PROVE  Tri(h, n, s, t, k) \in LiveEdges(r) /\ Tri(h, n, s, t, k) \notin Outside(m, q)
  <2> DEFINE x == Tri(h, n, s, t, k)
  <2>1. TriIs(h, n, s, t, k)
    BY TriFacts
  <2>2. x \in 1..h + 2*(n - 3) /\ (x <= h => \E i \in 1..n : s[i] = x)
    BY <2>1, Zenon DEF TriIs
  <2> HIDE DEF x
  <2>3. CASE x <= h
    <3>1. PICK i \in 1..n : s[i] = x
      BY <2>2, <2>3
    <3>2. x \in LiveEdges(m) /\ m.halfEdges[x].polygon = q
      BY <3>1
    <3>3. x \in LiveEdges(r)
      BY <3>2, <2>2, <1>2, <1>4, <1>5
    <3> QED BY <3>2, <3>3 DEF Outside, x
  <2>4. CASE ~(x <= h)
    <3>1. x - h \in 1..2*(n - 3) /\ h + (x - h) = x
      BY <1>1, <2>2, <2>4
    <3>2. r.halfEdges[x].live = TRUE
      BY <3>1, <1>3
    <3>3. x \in LiveEdges(r)
      BY <3>2, <2>2, <1>5
    <3>4. x \notin LiveEdges(m)
      BY <1>4, <2>2, <2>4
    <3> QED BY <3>3, <3>4 DEF Outside, x
  <2> QED BY <2>3, <2>4
<1> QED BY <1>7, <1>8, <1>9, Zenon DEF FanLive

(* The polygons there are. *)
FanPolys(h, p, m, q, n, s, r) ==
  /\ DOMAIN r.polygons = 1..p + (n - 3)
  /\ \A x \in 1..p : x # q => r.polygons[x] = m.polygons[x]
  /\ \A t \in 0..n-3 : /\ Poly(p, q, t) \in 1..p + (n - 3)
                       /\ r.polygons[Poly(p, q, t)].any = Tri(h, n, s, t, 1)
                       /\ r.polygons[Poly(p, q, t)].live = TRUE
                       /\ \A x \in 1..p : x # q => Poly(p, q, t) # x
                       /\ \A u \in 0..n-3 : Poly(p, q, u) = Poly(p, q, t) => u = t

(* The polygons are those there were, the cut one the first triangle, and
   one for each other triangle. *)
LEMMA FanPolysAre ==
  ASSUME NEW v \in Nat, NEW h \in Nat, NEW p \in Nat, NEW m \in Meshes(v, h, p), NEW q \in 1..p,
         m.polygons[q].live, NEW n \in Nat, n > 3, NEW s, NEW r,
         IsFanned(v, h, p, m, q, n, s, r), DOMAIN r.polygons = 1..p + (n - 3)
  PROVE  FanPolys(h, p, m, q, n, s, r)
<1>1. /\ \A x \in 1..p :
           r.polygons[x] = IF x = q THEN [m.polygons[q] EXCEPT !.any = Tri(h, n, s, 0, 1)]
                           ELSE m.polygons[x]
      /\ \A t \in 1..n-3 : r.polygons[p + t] = [any |-> Tri(h, n, s, t, 1), live |-> TRUE]
  BY Zenon DEF IsFanned
<1>2. \A x \in 1..p : x # q => r.polygons[x] = m.polygons[x]
  BY <1>1
<1>3. ASSUME NEW t \in 0..n-3
      PROVE  /\ Poly(p, q, t) \in 1..p + (n - 3)
             /\ r.polygons[Poly(p, q, t)].any = Tri(h, n, s, t, 1)
             /\ r.polygons[Poly(p, q, t)].live = TRUE
  <2>1. CASE t = 0
    <3>1. m.polygons[q] \in PolygonOf(h) /\ m.polygons[q].live = TRUE
      BY PolygonFields
    <3>2. r.polygons[q] = [m.polygons[q] EXCEPT !.any = Tri(h, n, s, 0, 1)]
      BY <1>1
    <3>3. r.polygons[q].any = Tri(h, n, s, 0, 1) /\ r.polygons[q].live = TRUE
      BY <3>1, <3>2 DEF PolygonOf
    <3>4. q \in 1..p + (n - 3) /\ Poly(p, q, t) = q
      BY <2>1 DEF Poly
    <3> QED BY <3>3, <3>4, <2>1
  <2>2. CASE t # 0
    <3>1. t \in 1..n-3 /\ p + t \in 1..p + (n - 3) /\ Poly(p, q, t) = p + t
      BY <2>2 DEF Poly
    <3>2. r.polygons[p + t] = [any |-> Tri(h, n, s, t, 1), live |-> TRUE]
      BY <1>1, <3>1
    <3> QED BY <3>1, <3>2
  <2> QED BY <2>1, <2>2
<1>4. ASSUME NEW t \in 0..n-3
      PROVE  /\ \A x \in 1..p : x # q => Poly(p, q, t) # x
             /\ \A u \in 0..n-3 : Poly(p, q, u) = Poly(p, q, t) => u = t
  BY DEF Poly
<1> QED BY <1>2, <1>3, <1>4, Zenon DEF FanPolys

(* The half edges elsewhere stay among themselves. *)
OutsideGoesOn(p, m, q) ==
  \A x \in Outside(m, q) :
    /\ x \in LiveEdges(m) /\ m.halfEdges[x].next \in Outside(m, q)
    /\ m.halfEdges[x].polygon \in 1..p /\ m.halfEdges[x].polygon # q

(* Each half edge of a triangle leads from a point of it to the next. *)
FanCorners(h, m, n, s, r) ==
  \A t \in 0..n-3 : \A k \in 1..3 : FanSide(h, m, n, s, r, t, k)

(* No half edge is in two triangles, or twice in one. *)
TrisDiffer(h, n, s) ==
  \A t, u \in 0..n-3 : \A k, j \in 1..3 :
    Tri(h, n, s, u, j) = Tri(h, n, s, t, k) => u = t /\ j = k

(* What is known of a polygon of more than three sides made a fan. *)
FanFacts(v, h, p, m, q, n, s, r) ==
  /\ IsFanned(v, h, p, m, q, n, s, r) /\ \A i \in 1..n : s[i] \in LiveEdges(m)
  /\ AreSides(h, n, s) /\ Around(m, n, s)
  /\ FanOld(h, m, n, s, r) /\ FanNew(h, p, m, q, n, s, r)
  /\ FanTri(h, p, q, n, s, r) /\ FanLive(h, p, m, q, n, s, r) /\ FanPolys(h, p, m, q, n, s, r)
  /\ FanCorners(h, m, n, s, r) /\ OutsideGoesOn(p, m, q) /\ TrisDiffer(h, n, s)

(* All of the above, of a polygon in a well-formed mesh. *)
LEMMA FanFactsAre ==
  ASSUME NEW v \in Nat, NEW h \in Nat, NEW p \in Nat, NEW m \in Meshes(v, h, p), NEW q \in 1..p,
         NEW stale, LoopsOK(m, stale), NEW n, n = Len(Loop(m, q)), n > 3, NEW s, s = Loop(m, q),
         NEW r, r = FannedAt(m, q)
  PROVE  /\ r \in Meshes(v, h + 2*(n - 3), p + (n - 3))
         /\ FanFacts(v, h, p, m, q, n, s, r)
<1>1. /\ n \in 0..h /\ r \in Meshes(v, h + 2*(n - 3), p + (n - 3))
      /\ IsFanned(v, h, p, m, q, n, s, r)
  BY FannedAtIs
<1>2. /\ AreSides(h, n, s) /\ Around(m, n, s)
      /\ \A i \in 1..n : s[i] \in LiveEdges(m) /\ m.halfEdges[s[i]].polygon = q
      /\ \A x \in LiveEdges(m) : m.halfEdges[x].polygon = q => \E i \in 1..n : s[i] = x
      /\ \A x \in LiveEdges(m) : m.halfEdges[m.halfEdges[x].next].polygon = m.halfEdges[x].polygon
  BY FanSides
<1>3. n \in Nat /\ n > 3 /\ h + 2*(n - 3) \in Nat /\ p + (n - 3) \in Nat
  BY <1>1
<1>4. DOMAIN r.halfEdges = 1..h + 2*(n - 3) /\ DOMAIN r.polygons = 1..p + (n - 3)
  BY <1>1, <1>3, Sizes
<1>5. FanOld(h, m, n, s, r)
  BY <1>1, <1>2, FanOldIs
<1>6. FanNew(h, p, m, q, n, s, r)
  BY <1>1, <1>2, FanNewIs
<1>7. FanTri(h, p, q, n, s, r)
  BY <1>1, <1>2, FanTriIs
<1>8. FanLive(h, p, m, q, n, s, r)
  <2>1. \A i \in 1..n : s[i] \in LiveEdges(m) /\ m.halfEdges[s[i]].polygon = q
    BY <1>2
  <2>2. \A x \in LiveEdges(m) : m.halfEdges[x].polygon = q => \E i \in 1..n : s[i] = x
    BY <1>2
  <2> QED BY <2>1, <2>2, <1>2, <1>4, <1>5, <1>6, FanLiveIs, Zenon
<1>9. NextOK(m) /\ OwnersOK(m)
  BY Zenon DEF LoopsOK
<1>10. m.polygons[q].live
  <2>1. 1 \in 1..n
    BY <1>3
  <2>2. s[1] \in LiveEdges(m) /\ m.halfEdges[s[1]].polygon = q
    BY <1>2, <2>1
  <2>3. q \in DOMAIN m.polygons
    BY Sizes
  <2> QED BY <1>9, <2>2, <2>3 DEF OwnersOK
<1>11. FanPolys(h, p, m, q, n, s, r)
  BY <1>1, <1>3, <1>4, <1>10, FanPolysAre
<1>12. FanCorners(h, m, n, s, r)
  <2>1. ASSUME NEW t \in 0..n-3, NEW k \in 1..3
        PROVE  FanSide(h, m, n, s, r, t, k)
    BY <1>2, <1>5, <1>6, FanPoints
  <2> QED BY <2>1, Zenon DEF FanCorners
<1>13. OutsideGoesOn(p, m, q)
  <2>1. ASSUME NEW x \in Outside(m, q)
        PROVE  /\ x \in LiveEdges(m) /\ m.halfEdges[x].next \in Outside(m, q)
               /\ m.halfEdges[x].polygon \in 1..p /\ m.halfEdges[x].polygon # q
    <3>1. x \in LiveEdges(m) /\ m.halfEdges[x].polygon # q
      BY DEF Outside
    <3>2. m.halfEdges[x].next \in LiveEdges(m)
      BY <3>1, <1>9, Zenon DEF NextOK
    <3>3. m.halfEdges[m.halfEdges[x].next].polygon = m.halfEdges[x].polygon
      BY <3>1, <1>2, Zenon
    <3>4. m.halfEdges[x].polygon \in DOMAIN m.polygons
      BY <3>1, <1>9, Zenon DEF OwnersOK
    <3>5. DOMAIN m.polygons = 1..p
      BY Sizes
    <3> QED BY <3>1, <3>2, <3>3, <3>4, <3>5 DEF Outside
  <2> QED BY <2>1, Zenon DEF OutsideGoesOn
<1>14. TrisDiffer(h, n, s)
  <2>1. ASSUME NEW t \in 0..n-3, NEW u \in 0..n-3, NEW k \in 1..3, NEW j \in 1..3,
               Tri(h, n, s, u, j) = Tri(h, n, s, t, k)
        PROVE  u = t /\ j = k
    <3>1. TriIs(h, n, s, t, k)
      BY <1>2, TriFacts
    <3> QED BY <2>1, <3>1, Zenon DEF TriIs
  <2> QED BY <2>1, Zenon DEF TrisDiffer
<1> QED BY <1>1, <1>2, <1>5, <1>6, <1>7, <1>8, <1>11, <1>12, <1>13, <1>14, Zenon DEF FanFacts

-----------------------------------------------------------------------------
(* The loops of what triangulating leaves: those there were, and the triangles *)

(* In a triangulated mesh no two half edges have the same next one. *)
LEMMA FanNext ==
  ASSUME NEW v, NEW h, NEW p, NEW m, NEW q, NEW n, NEW s, NEW r,
         NextOK(m), FanFacts(v, h, p, m, q, n, s, r)
  PROVE  NextOK(r)
<1> DEFINE T(t, k) == Tri(h, n, s, t, k)
<1>1. /\ \A x \in LiveEdges(r) :
           x \in Outside(m, q) \/ \E t \in 0..n-3 : \E k \in 1..3 : x = T(t, k)
      /\ \A x \in Outside(m, q) : x \in LiveEdges(r) /\ r.halfEdges[x] = m.halfEdges[x]
      /\ \A t \in 0..n-3 : \A k \in 1..3 : T(t, k) \in LiveEdges(r) /\ T(t, k) \notin Outside(m, q)
  BY Zenon DEF FanFacts, FanLive
<1>2. \A x \in Outside(m, q) : x \in LiveEdges(m) /\ m.halfEdges[x].next \in Outside(m, q)
  BY Zenon DEF FanFacts, OutsideGoesOn
<1>3. \A t \in 0..n-3 : \A k \in 1..3 : r.halfEdges[T(t, k)].next = T(t, (k % 3) + 1)
  BY Zenon DEF FanFacts, FanTri
<1>4. \A t, u \in 0..n-3 : \A k, j \in 1..3 : T(u, j) = T(t, k) => u = t /\ j = k
  BY Zenon DEF FanFacts, TrisDiffer
<1>5. \A k \in 1..3 : (k % 3) + 1 \in 1..3
  OBVIOUS
<1>6. \A k, j \in 1..3 : (k % 3) + 1 = (j % 3) + 1 => k = j
  OBVIOUS
<1> HIDE DEF T
<1>7. ASSUME NEW g \in LiveEdges(r)
      PROVE  /\ r.halfEdges[g].next \in LiveEdges(r)
             /\ \A f \in LiveEdges(r) : r.halfEdges[f].next = r.halfEdges[g].next => f = g
  <2>1. CASE g \in Outside(m, q)
    <3>1. r.halfEdges[g].next = m.halfEdges[g].next
      BY <1>1, <2>1
    <3>2. r.halfEdges[g].next \in Outside(m, q)
      BY <1>2, <2>1, <3>1
    <3>3. ASSUME NEW f \in LiveEdges(r), r.halfEdges[f].next = r.halfEdges[g].next PROVE f = g
      <4>1. f \in Outside(m, q)
        <5>1. SUFFICES ASSUME f \notin Outside(m, q) PROVE FALSE
          OBVIOUS
        <5>2. PICK t \in 0..n-3, k \in 1..3 : f = T(t, k)
          BY <1>1, <5>1
        <5>3. r.halfEdges[f].next = T(t, (k % 3) + 1)
          BY <1>3, <5>2
        <5>4. T(t, (k % 3) + 1) \notin Outside(m, q)
          BY <1>1, <1>5
        <5> QED BY <3>2, <3>3, <5>3, <5>4
      <4>2. f \in LiveEdges(m) /\ g \in LiveEdges(m) /\ m.halfEdges[f].next = m.halfEdges[g].next
        BY <1>1, <1>2, <2>1, <3>1, <3>3, <4>1
      <4> QED BY <4>2, Zenon DEF NextOK
    <3> QED BY <1>1, <3>2, <3>3
  <2>2. CASE g \notin Outside(m, q)
    <3>1. PICK t \in 0..n-3, k \in 1..3 : g = T(t, k)
      BY <1>1, <2>2
    <3>2. r.halfEdges[g].next = T(t, (k % 3) + 1)
      BY <1>3, <3>1
    <3>3. T(t, (k % 3) + 1) \in LiveEdges(r) /\ T(t, (k % 3) + 1) \notin Outside(m, q)
      BY <1>1, <1>5
    <3>4. ASSUME NEW f \in LiveEdges(r), r.halfEdges[f].next = r.halfEdges[g].next PROVE f = g
      <4>1. f \notin Outside(m, q)
        <5>1. ASSUME f \in Outside(m, q) PROVE FALSE
          <6>1. r.halfEdges[f].next \in Outside(m, q)
            BY <5>1, <1>1, <1>2
          <6> QED BY <6>1, <3>2, <3>3, <3>4
        <5> QED BY <5>1
      <4>2. PICK u \in 0..n-3, j \in 1..3 : f = T(u, j)
        BY <1>1, <4>1
      <4>3. T(u, (j % 3) + 1) = T(t, (k % 3) + 1)
        BY <1>3, <3>2, <3>4, <4>2
      <4>4. PICK b \in 1..3, a \in 1..3 : b = (j % 3) + 1 /\ a = (k % 3) + 1
        BY <1>5
      <4>5. T(u, b) = T(t, a)
        BY <4>3, <4>4
      <4>6. u = t /\ b = a
        BY <1>4, <4>5, Zenon
      <4> QED BY <1>6, <3>1, <4>2, <4>4, <4>6
    <3> QED BY <3>2, <3>3, <3>4
  <2> QED BY <2>1, <2>2
<1> QED BY <1>7, Zenon DEF NextOK

(* In a triangulated mesh next still leads from end to start. *)
LEMMA FanLinks ==
  ASSUME NEW v, NEW h, NEW p, NEW m, NEW q, NEW n, NEW s, NEW r, NEW stale,
         LinksOK(m, stale), FanFacts(v, h, p, m, q, n, s, r)
  PROVE  LinksOK(r, TRUE)
<1> DEFINE T(t, k) == Tri(h, n, s, t, k)
<1>1. /\ \A x \in LiveEdges(r) :
           x \in Outside(m, q) \/ \E t \in 0..n-3 : \E k \in 1..3 : x = T(t, k)
      /\ \A x \in Outside(m, q) : x \in LiveEdges(r) /\ r.halfEdges[x] = m.halfEdges[x]
  BY Zenon DEF FanFacts, FanLive
<1>2. \A x \in Outside(m, q) : x \in LiveEdges(m) /\ m.halfEdges[x].next \in Outside(m, q)
  BY Zenon DEF FanFacts, OutsideGoesOn
<1>3. \A t \in 0..n-3 : \A k \in 1..3 :
        r.halfEdges[T(t, k)].next = T(t, (k % 3) + 1) /\ r.halfEdges[T(t, k)].polygon = Poly(p, q, t)
  BY Zenon DEF FanFacts, FanTri
<1>4. \A t \in 0..n-3 : \A k \in 1..3 :
        /\ r.halfEdges[T(t, k)].start = FanPoint(m, s, t, k)
        /\ r.halfEdges[T(t, k)].end = FanPoint(m, s, t, (k % 3) + 1)
  BY Zenon DEF FanFacts, FanCorners, FanSide
<1>5. \A k \in 1..3 : (k % 3) + 1 \in 1..3
  OBVIOUS
<1>6. \A x \in LiveEdges(m) :
        /\ m.halfEdges[m.halfEdges[x].next].polygon = m.halfEdges[x].polygon
        /\ m.halfEdges[m.halfEdges[x].next].start = m.halfEdges[x].end
  BY Zenon DEF LinksOK
<1> HIDE DEF T
<1>7. ASSUME NEW g \in LiveEdges(r)
      PROVE  /\ r.halfEdges[r.halfEdges[g].next].polygon = r.halfEdges[g].polygon
             /\ r.halfEdges[r.halfEdges[g].next].start = r.halfEdges[g].end
  <2>1. CASE g \in Outside(m, q)
    <3>1. r.halfEdges[g] = m.halfEdges[g]
      BY <1>1, <2>1
    <3>2. g \in LiveEdges(m) /\ m.halfEdges[g].next \in Outside(m, q)
      BY <1>2, <2>1
    <3>3. r.halfEdges[m.halfEdges[g].next] = m.halfEdges[m.halfEdges[g].next]
      BY <1>1, <3>2
    <3> QED BY <1>6, <3>1, <3>2, <3>3
  <2>2. CASE g \notin Outside(m, q)
    <3>1. PICK t \in 0..n-3, k \in 1..3 : g = T(t, k)
      BY <1>1, <2>2
    <3> DEFINE j == (k % 3) + 1
    <3>2. j \in 1..3
      BY <1>5
    <3>3. /\ r.halfEdges[g].next = T(t, j) /\ r.halfEdges[g].polygon = Poly(p, q, t)
          /\ r.halfEdges[g].end = FanPoint(m, s, t, j)
      BY <1>3, <1>4, <3>1
    <3> HIDE DEF j
    <3>4. r.halfEdges[T(t, j)].polygon = Poly(p, q, t) /\ r.halfEdges[T(t, j)].start = FanPoint(m, s, t, j)
      BY <1>3, <1>4, <3>2
    <3> QED BY <3>3, <3>4
  <2> QED BY <2>1, <2>2
<1> QED BY <1>7, Zenon DEF LinksOK

(* In a triangulated mesh half edges and polygons still own each other. *)
LEMMA FanOwners ==
  ASSUME NEW v \in Nat, NEW h \in Nat, NEW p \in Nat, NEW m \in Meshes(v, h, p), NEW q \in 1..p,
         NEW n \in Nat, n > 3, NEW s, NEW r,
         OwnersOK(m), FanFacts(v, h, p, m, q, n, s, r)
  PROVE  OwnersOK(r)
<1> DEFINE T(t, k) == Tri(h, n, s, t, k)
<1>1. /\ \A x \in LiveEdges(r) :
           x \in Outside(m, q) \/ \E t \in 0..n-3 : \E k \in 1..3 : x = T(t, k)
      /\ \A x \in Outside(m, q) : x \in LiveEdges(r) /\ r.halfEdges[x] = m.halfEdges[x]
      /\ \A t \in 0..n-3 : \A k \in 1..3 : T(t, k) \in LiveEdges(r)
  BY Zenon DEF FanFacts, FanLive
<1>2. \A x \in Outside(m, q) : /\ x \in LiveEdges(m)
                               /\ m.halfEdges[x].polygon \in 1..p /\ m.halfEdges[x].polygon # q
  BY Zenon DEF FanFacts, OutsideGoesOn
<1>3. \A t \in 0..n-3 : \A k \in 1..3 : r.halfEdges[T(t, k)].polygon = Poly(p, q, t)
  BY Zenon DEF FanFacts, FanTri
<1>4. /\ DOMAIN r.polygons = 1..p + (n - 3)
      /\ \A x \in 1..p : x # q => r.polygons[x] = m.polygons[x]
      /\ \A t \in 0..n-3 : /\ Poly(p, q, t) \in 1..p + (n - 3)
                           /\ r.polygons[Poly(p, q, t)].any = T(t, 1)
                           /\ r.polygons[Poly(p, q, t)].live = TRUE
  BY Zenon DEF FanFacts, FanPolys
<1>5. ASSUME NEW t \in 0..n-3, NEW k \in 1..3 PROVE T(t, k) # Invalid
  <2>1. TriIs(h, n, s, t, k)
    <3>1. AreSides(h, n, s)
      BY Zenon DEF FanFacts
    <3> QED BY <3>1, TriFacts
  <2>2. T(t, k) \in 1..h + 2*(n - 3)
    BY <2>1, Zenon DEF TriIs
  <2> HIDE DEF T
  <2> QED BY <2>2 DEF Invalid
<1>6. DOMAIN m.polygons = 1..p
  BY Sizes
<1>7. 1 \in 1..3
  OBVIOUS
<1> HIDE DEF T
<1>8. ASSUME NEW g \in LiveEdges(r)
      PROVE  /\ r.halfEdges[g].polygon \in DOMAIN r.polygons
             /\ r.polygons[r.halfEdges[g].polygon].any # Invalid
  <2>1. CASE g \in Outside(m, q)
    <3> DEFINE d == m.halfEdges[g].polygon
    <3>1. r.halfEdges[g].polygon = d /\ g \in LiveEdges(m) /\ d \in 1..p /\ d # q
      BY <1>1, <1>2, <2>1
    <3>2. m.polygons[d].any # Invalid
      BY <3>1, Zenon DEF OwnersOK
    <3> HIDE DEF d
    <3>3. r.polygons[d].any # Invalid
      BY <1>4, <3>1, <3>2
    <3>4. d \in 1..p + (n - 3)
      BY <3>1
    <3> QED BY <3>1, <3>3, <3>4, <1>4
  <2>2. CASE g \notin Outside(m, q)
    <3>1. PICK t \in 0..n-3, k \in 1..3 : g = T(t, k)
      BY <1>1, <2>2
    <3>2. r.halfEdges[g].polygon = Poly(p, q, t) /\ r.polygons[Poly(p, q, t)].any = T(t, 1)
      BY <1>3, <1>4, <3>1
    <3> QED BY <1>4, <1>5, <1>7, <3>2
  <2> QED BY <2>1, <2>2
<1>9. ASSUME NEW d \in DOMAIN r.polygons, r.polygons[d].any # Invalid
      PROVE  /\ r.polygons[d].live /\ r.polygons[d].any \in LiveEdges(r)
             /\ r.halfEdges[r.polygons[d].any].polygon = d
  <2>1. CASE d \in 1..p /\ d # q
    <3>1. r.polygons[d] = m.polygons[d]
      BY <1>4, <2>1
    <3>2. /\ m.polygons[d].live /\ m.polygons[d].any \in LiveEdges(m)
          /\ m.halfEdges[m.polygons[d].any].polygon = d
      BY <1>6, <1>9, <2>1, <3>1, Zenon DEF OwnersOK
    <3>3. m.polygons[d].any \in Outside(m, q)
      BY <2>1, <3>2 DEF Outside
    <3> QED BY <1>1, <3>1, <3>2, <3>3
  <2>2. CASE ~(d \in 1..p /\ d # q)
    <3>1. d \in 1..p + (n - 3)
      BY <1>4
    <3>2. \E t \in 0..n-3 : d = Poly(p, q, t)
      <4>1. CASE d = q
        <5>1. 0 \in 0..n-3 /\ Poly(p, q, 0) = q
          BY DEF Poly
        <5> QED BY <4>1, <5>1
      <4>2. CASE d # q
        <5>1. d - p \in 0..n-3 /\ d - p # 0 /\ p + (d - p) = d
          BY <2>2, <3>1, <4>2
        <5>2. Poly(p, q, d - p) = d
          BY <5>1 DEF Poly
        <5> QED BY <5>1, <5>2
      <4> QED BY <4>1, <4>2
    <3>3. PICK t \in 0..n-3 : d = Poly(p, q, t)
      BY <3>2
    <3>4. r.polygons[d].any = T(t, 1) /\ r.polygons[d].live = TRUE
      BY <1>4, <3>3
    <3>5. T(t, 1) \in LiveEdges(r) /\ r.halfEdges[T(t, 1)].polygon = d
      BY <1>1, <1>3, <1>7, <3>3
    <3> QED BY <3>4, <3>5
  <2> QED BY <2>1, <2>2
<1> QED BY <1>8, <1>9, Zenon DEF OwnersOK

(* In a triangulated mesh every polygon's half edges are still one cycle. *)
LEMMA FanCycles ==
  ASSUME NEW v, NEW h, NEW p, NEW m, NEW q, NEW n, NEW s, NEW r,
         CyclesOK(m), FanFacts(v, h, p, m, q, n, s, r)
  PROVE  CyclesOK(r)
<1> DEFINE T(t, k) == Tri(h, n, s, t, k)
<1>1. /\ \A x \in LiveEdges(r) :
           x \in Outside(m, q) \/ \E t \in 0..n-3 : \E k \in 1..3 : x = T(t, k)
      /\ \A x \in Outside(m, q) : x \in LiveEdges(r) /\ r.halfEdges[x] = m.halfEdges[x]
  BY Zenon DEF FanFacts, FanLive
<1>2. \A x \in Outside(m, q) :
        /\ x \in LiveEdges(m) /\ m.halfEdges[x].next \in Outside(m, q)
        /\ m.halfEdges[x].polygon \in 1..p /\ m.halfEdges[x].polygon # q
  BY Zenon DEF FanFacts, OutsideGoesOn
<1>3. \A t \in 0..n-3 : \A k \in 1..3 :
        r.halfEdges[T(t, k)].next = T(t, (k % 3) + 1) /\ r.halfEdges[T(t, k)].polygon = Poly(p, q, t)
  BY Zenon DEF FanFacts, FanTri
<1>4. \A t \in 0..n-3 : /\ \A x \in 1..p : x # q => Poly(p, q, t) # x
                        /\ \A u \in 0..n-3 : Poly(p, q, u) = Poly(p, q, t) => u = t
  BY Zenon DEF FanFacts, FanPolys
<1> HIDE DEF T
<1>5. ASSUME NEW O \in SUBSET LiveEdges(r), \A g \in O : r.halfEdges[g].next \in O,
             NEW g \in O, NEW f \in LiveEdges(r), r.halfEdges[f].polygon = r.halfEdges[g].polygon
      PROVE  f \in O
  <2>1. g \in LiveEdges(r)
    OBVIOUS
  <2>2. CASE g \in Outside(m, q)
    <3>1. r.halfEdges[g] = m.halfEdges[g] /\ m.halfEdges[g].polygon \in 1..p /\ m.halfEdges[g].polygon # q
      BY <1>1, <1>2, <2>2
    <3>2. f \in Outside(m, q)
      <4>1. SUFFICES ASSUME f \notin Outside(m, q) PROVE FALSE
        OBVIOUS
      <4>2. PICK t \in 0..n-3, k \in 1..3 : f = T(t, k)
        BY <1>1, <4>1
      <4>3. r.halfEdges[f].polygon = Poly(p, q, t)
        BY <1>3, <4>2
      <4>4. Poly(p, q, t) # m.halfEdges[g].polygon
        BY <1>4, <3>1
      <4> QED BY <1>5, <3>1, <4>3, <4>4
    <3>3. f \in LiveEdges(m) /\ m.halfEdges[f].polygon = m.halfEdges[g].polygon
      BY <1>1, <1>2, <1>5, <3>1, <3>2
    <3> DEFINE Q == O \cap Outside(m, q)
    <3>4. Q \in SUBSET LiveEdges(m) /\ g \in Q
      BY <1>2, <2>2
    <3>5. ASSUME NEW x \in Q PROVE m.halfEdges[x].next \in Q
      <4>1. x \in O /\ x \in Outside(m, q)
        OBVIOUS
      <4>2. r.halfEdges[x] = m.halfEdges[x] /\ m.halfEdges[x].next \in Outside(m, q)
        BY <1>1, <1>2, <4>1
      <4>3. r.halfEdges[x].next \in O
        BY <1>5, <4>1
      <4> QED BY <4>2, <4>3
    <3> HIDE DEF Q
    <3>6. f \in Q
      BY <3>3, <3>4, <3>5, Zenon DEF CyclesOK
    <3> QED BY <3>6 DEF Q
  <2>3. CASE g \notin Outside(m, q)
    <3>1. PICK t \in 0..n-3, k \in 1..3 : g = T(t, k)
      BY <1>1, <2>1, <2>3
    <3>2. r.halfEdges[f].polygon = Poly(p, q, t)
      BY <1>3, <1>5, <3>1
    <3>3. f \notin Outside(m, q)
      <4>1. ASSUME f \in Outside(m, q) PROVE FALSE
        <5>1. r.halfEdges[f] = m.halfEdges[f] /\ m.halfEdges[f].polygon \in 1..p /\ m.halfEdges[f].polygon # q
          BY <1>1, <1>2, <4>1
        <5> QED BY <1>4, <3>2, <5>1
      <4> QED BY <4>1
    <3>4. PICK u \in 0..n-3, j \in 1..3 : f = T(u, j)
      BY <1>1, <3>3
    <3>5. u = t
      BY <1>3, <1>4, <3>2, <3>4
    <3>6. ASSUME NEW i \in 1..3, T(t, i) \in O PROVE T(t, (i % 3) + 1) \in O
      BY <1>3, <1>5, <3>6
    <3>7. 1 \in 1..3 /\ 2 \in 1..3 /\ 3 \in 1..3 /\ (1 % 3) + 1 = 2 /\ (2 % 3) + 1 = 3 /\ (3 % 3) + 1 = 1
      OBVIOUS
    <3>8. (T(t, 1) \in O => T(t, 2) \in O) /\ (T(t, 2) \in O => T(t, 3) \in O) /\ (T(t, 3) \in O => T(t, 1) \in O)
      BY <3>6, <3>7
    <3>9. (k = 1 \/ k = 2 \/ k = 3) /\ (j = 1 \/ j = 2 \/ j = 3)
      OBVIOUS
    <3> QED BY <3>1, <3>4, <3>5, <3>8, <3>9
  <2> QED BY <2>2, <2>3
<1> QED BY <1>5, Zenon DEF CyclesOK

(* The ends of the diagonals are corners. *)
LEMMA DiagonalEnds ==
  ASSUME NEW v, NEW h \in Nat, NEW p, NEW m, NEW q, NEW n, NEW s, NEW r,
         FanFacts(v, h, p, m, q, n, s, r), NEW j \in 1..2*(n - 3),
         NEW L, \A i \in 1..n : m.halfEdges[s[i]].start \in L
  PROVE  r.halfEdges[h + j].start \in L /\ r.halfEdges[h + j].end \in L
<1>1. AreSides(h, n, s) /\ FanCorners(h, m, n, s, r)
  BY Zenon DEF FanFacts
<1>2. n \in Nat /\ n > 3
  BY <1>1 DEF AreSides
<1>3. ASSUME NEW t \in 0..n-3, NEW k \in 1..3 PROVE FanPoint(m, s, t, k) \in L
  <2>1. PICK i \in 1..n : i = IF k = 1 THEN 1 ELSE IF k = 2 THEN t + 2 ELSE t + 3
    BY <1>2
  <2>2. FanPoint(m, s, t, k) = m.halfEdges[s[i]].start
    BY <2>1 DEF FanPoint
  <2> QED BY <2>2
<1>4. \E t \in 0..n-3 : \E k \in 1..3 : Tri(h, n, s, t, k) = h + j
  <2>1. HaveTriangles(h, n, s)
    BY <1>1, TriOf
  <2> QED BY <2>1, Zenon DEF HaveTriangles
<1>5. PICK t \in 0..n-3, k \in 1..3 : Tri(h, n, s, t, k) = h + j
  BY <1>4, Zenon
<1>6. /\ r.halfEdges[h + j].start = FanPoint(m, s, t, k)
      /\ r.halfEdges[h + j].end = FanPoint(m, s, t, (k % 3) + 1)
  <2>1. FanSide(h, m, n, s, r, t, k)
    BY <1>1, Zenon DEF FanCorners
  <2> QED BY <2>1, <1>5, Zenon DEF FanSide
<1>7. PICK i \in 1..3 : i = (k % 3) + 1
  OBVIOUS
<1>8. FanPoint(m, s, t, k) \in L /\ FanPoint(m, s, t, i) \in L
  BY <1>3
<1> QED BY <1>6, <1>7, <1>8

(* Triangulating notes each diagonal at both of its ends. *)
LEMMA FanNoted ==
  ASSUME NEW v \in Nat, NEW h \in Nat, NEW p \in Nat, NEW m \in Meshes(v, h, p), NEW q \in 1..p,
         NEW n, NEW s, NEW r, r \in Meshes(v, h + 2*(n - 3), p + (n - 3)),
         FanFacts(v, h, p, m, q, n, s, r), NotedOK(m)
  PROVE  NotedOK(r)
<1> DEFINE hh == h + 2*(n - 3)
           pp == p + (n - 3)
<1>1. n \in Nat /\ n > 3
  <2>1. AreSides(h, n, s)
    BY Zenon DEF FanFacts
  <2> QED BY <2>1 DEF AreSides
<1>2. hh \in Nat /\ pp \in Nat /\ r \in Meshes(v, hh, pp)
  BY <1>1
<1>3. \A u \in 1..v :
        r.vertices[u] = [m.vertices[u] EXCEPT !.halfEdges = @ \cup DiagonalsAt(m, h, p, q, n, s, u)]
  BY Zenon DEF IsFanned, FanFacts
<1>4. FanOld(h, m, n, s, r) /\ FanNew(h, p, m, q, n, s, r)
  BY Zenon DEF FanFacts
<1>5. ASSUME NEW u \in 1..v
      PROVE  /\ r.vertices[u].live = m.vertices[u].live
             /\ r.vertices[u].halfEdges = m.vertices[u].halfEdges \cup DiagonalsAt(m, h, p, q, n, s, u)
  <2>1. m.vertices[u] \in VertexOf(h)
    BY VertexFields
  <2> QED BY <1>3, <2>1 DEF VertexOf
<1>6. /\ LiveVertices(m) \subseteq 1..v /\ LiveEdges(m) \subseteq 1..h
      /\ \A u \in 1..v : u \in LiveVertices(m) <=> m.vertices[u].live
      /\ \A x \in 1..h : x \in LiveEdges(m) <=> m.halfEdges[x].live
  BY LiveAre
<1>7. /\ LiveVertices(r) \subseteq 1..v /\ LiveEdges(r) \subseteq 1..hh
      /\ \A u \in 1..v : u \in LiveVertices(r) <=> r.vertices[u].live
      /\ \A x \in 1..hh : x \in LiveEdges(r) <=> r.halfEdges[x].live
  <2> HIDE DEF hh, pp
  <2> QED BY <1>2, LiveAre
<1>8. LiveVertices(r) = LiveVertices(m)
  BY <1>5, <1>6, <1>7
<1>9. \A x \in 1..h : /\ x \in LiveEdges(r) <=> x \in LiveEdges(m)
                      /\ Ends(r.halfEdges[x]) = Ends(m.halfEdges[x])
  <2>1. \A x \in 1..h : x \in 1..hh
    BY <1>1
  <2>2. \A x \in 1..h : /\ r.halfEdges[x].live = m.halfEdges[x].live
                        /\ r.halfEdges[x].start = m.halfEdges[x].start
                        /\ r.halfEdges[x].end = m.halfEdges[x].end
    BY <1>4, Zenon DEF FanOld
  <2> HIDE DEF hh
  <2> QED BY <1>6, <1>7, <2>1, <2>2 DEF Ends
<1>10. ASSUME NEW x \in 1..hh, ~(x <= h)
       PROVE  /\ x - h \in 1..2*(n - 3) /\ h + (x - h) = x
              /\ x \in LiveEdges(r)
              /\ \A u : u \in Ends(r.halfEdges[x]) => x \in DiagonalsAt(m, h, p, q, n, s, u)
  <2>1. x - h \in 1..2*(n - 3) /\ h + (x - h) = x
    BY <1>1, <1>10
  <2>2. PICK j \in 1..2*(n - 3) : j = x - h /\ x = h + j
    BY <2>1
  <2>3. /\ r.halfEdges[h + j].live = TRUE
        /\ r.halfEdges[h + j].start = Diagonal(m, p, q, s, j).start
        /\ r.halfEdges[h + j].end = Diagonal(m, p, q, s, j).end
    BY <1>4, Zenon DEF FanNew
  <2>4. x \in LiveEdges(r)
    BY <1>7, <2>2, <2>3
  <2>5. ASSUME NEW u, u \in Ends(r.halfEdges[x]) PROVE x \in DiagonalsAt(m, h, p, q, n, s, u)
    <3>1. u \in {Diagonal(m, p, q, s, j).start, Diagonal(m, p, q, s, j).end}
      BY <2>2, <2>3, <2>5 DEF Ends
    <3> QED BY <2>2, <3>1, Zenon DEF DiagonalsAt
  <2> QED BY <2>1, <2>4, <2>5
<1>11. /\ \A x \in LiveEdges(m) : Ends(m.halfEdges[x]) \subseteq LiveVertices(m)
       /\ LiveVertices(m) = DOMAIN m.vertices =>
            \A x \in LiveEdges(m) : \A u \in Ends(m.halfEdges[x]) : x \in m.vertices[u].halfEdges
       /\ \A u \in LiveVertices(m) : \A g \in m.vertices[u].halfEdges :
            g \in LiveEdges(m) \/ u \notin Ends(m.halfEdges[g])
  BY Zenon DEF NotedOK
<1>12. DOMAIN r.vertices = DOMAIN m.vertices
  <2> HIDE DEF hh, pp
  <2> QED BY <1>2, Sizes
<1>13. ASSUME NEW x \in LiveEdges(r) PROVE Ends(r.halfEdges[x]) \subseteq LiveVertices(r)
  <2>1. x \in 1..hh
    BY <1>7
  <2>2. CASE x <= h
    <3>1. x \in 1..h
      BY <2>1, <2>2
    <3> QED BY <3>1, <1>8, <1>9, <1>11
  <2>3. CASE ~(x <= h)
    <3>1. PICK j \in 1..2*(n - 3) : x = h + j
      BY <1>10, <2>1, <2>3
    <3> DEFINE L == LiveVertices(m)
    <3>2. \A i \in 1..n : m.halfEdges[s[i]].start \in L
      <4>1. \A i \in 1..n : s[i] \in LiveEdges(m)
        BY Zenon DEF FanFacts
      <4> QED BY <4>1, <1>11 DEF Ends
    <3> HIDE DEF L
    <3>3. r.halfEdges[h + j].start \in L /\ r.halfEdges[h + j].end \in L
      BY <3>2, DiagonalEnds, Zenon
    <3> QED BY <3>1, <3>3, <1>8 DEF L, Ends
  <2> QED BY <2>2, <2>3
<1>14. ASSUME LiveVertices(r) = DOMAIN r.vertices, NEW x \in LiveEdges(r), NEW u \in Ends(r.halfEdges[x])
       PROVE  x \in r.vertices[u].halfEdges
  <2>1. x \in 1..hh
    BY <1>7
  <2>2. u \in LiveVertices(r) /\ u \in 1..v
    BY <1>7, <1>13, <1>14
  <2>3. r.vertices[u].halfEdges = m.vertices[u].halfEdges \cup DiagonalsAt(m, h, p, q, n, s, u)
    BY <1>5, <2>2
  <2>4. CASE x <= h
    <3>1. x \in 1..h
      BY <2>1, <2>4
    <3>2. x \in LiveEdges(m) /\ u \in Ends(m.halfEdges[x])
      BY <3>1, <1>9, <1>14
    <3>3. x \in m.vertices[u].halfEdges
      BY <3>2, <1>8, <1>11, <1>12, <1>14
    <3> QED BY <2>3, <3>3
  <2>5. CASE ~(x <= h)
    <3>1. x \in DiagonalsAt(m, h, p, q, n, s, u)
      BY <1>10, <1>14, <2>1, <2>5
    <3> QED BY <2>3, <3>1
  <2> QED BY <2>4, <2>5
<1>15. ASSUME NEW u \in LiveVertices(r), NEW g \in r.vertices[u].halfEdges
       PROVE  g \in LiveEdges(r) \/ u \notin Ends(r.halfEdges[g])
  <2>1. u \in 1..v /\ u \in LiveVertices(m)
    BY <1>7, <1>8
  <2>2. g \in m.vertices[u].halfEdges \/ g \in DiagonalsAt(m, h, p, q, n, s, u)
    BY <1>5, <1>15, <2>1
  <2>3. CASE g \in m.vertices[u].halfEdges
    <3>1. g \in 1..h
      BY <2>1, <2>3, VertexFields
    <3> QED BY <3>1, <2>1, <2>3, <1>9, <1>11
  <2>4. CASE g \in DiagonalsAt(m, h, p, q, n, s, u)
    <3>1. PICK j \in 1..2*(n - 3) : g = h + j
      BY <2>4, Zenon DEF DiagonalsAt
    <3>2. g \in 1..hh /\ ~(g <= h)
      BY <1>1, <3>1
    <3> QED BY <3>2, <1>10
  <2> QED BY <2>2, <2>3, <2>4
<1> QED BY <1>13, <1>14, <1>15, Zenon DEF NotedOK

(* One polygon made a fan. *)
LEMMA FannedAtOK ==
  ASSUME NEW v \in Nat, NEW h \in Nat, NEW p \in Nat, NEW m \in Meshes(v, h, p), NEW q \in 1..p,
         NEW stale, LoopsOK(m, stale), NotedOK(m), Len(Loop(m, q)) > 3
  PROVE  LoopsOK(FannedAt(m, q), TRUE) /\ NotedOK(FannedAt(m, q))
<1> DEFINE s == Loop(m, q)
           n == Len(s)
           r == FannedAt(m, q)
<1>1. s = Loop(m, q) /\ n = Len(Loop(m, q)) /\ n > 3 /\ r = FannedAt(m, q)
  OBVIOUS
<1> HIDE DEF s, n, r
<1>2. n \in 0..h
  BY <1>1, FannedAtIs
<1>3. n \in Nat /\ n > 3
  BY <1>1, <1>2
<1>4. /\ r \in Meshes(v, h + 2*(n - 3), p + (n - 3))
      /\ FanFacts(v, h, p, m, q, n, s, r)
  BY <1>1, FanFactsAre
<1>5. NextOK(m) /\ LinksOK(m, stale) /\ OwnersOK(m) /\ CyclesOK(m)
  BY Zenon DEF LoopsOK
<1>6. NextOK(r)
  BY <1>4, <1>5, FanNext
<1>7. LinksOK(r, TRUE)
  BY <1>4, <1>5, FanLinks
<1>8. OwnersOK(r)
  BY <1>3, <1>4, <1>5, FanOwners
<1>9. CyclesOK(r)
  BY <1>4, <1>5, FanCycles
<1>10. NotedOK(r)
  BY <1>4, FanNoted
<1> QED BY <1>6, <1>7, <1>8, <1>9, <1>10, Zenon DEF LoopsOK, r

(* All of them. *)
HaveLoops(v) == {r \in MeshesOf(v) : NotedOK(r) /\ LoopsOK(r, TRUE)}

(* Triangulating keeps the loops and the notes, though prev is stale
   afterwards. *)
LEMMA FannedOK ==
  ASSUME NEW v \in Nat, NEW h \in Nat, NEW p \in Nat, NEW m \in Meshes(v, h, p),
         LoopsOK(m, TRUE), NotedOK(m)
  PROVE  NotedOK(Fanned(m)) /\ LoopsOK(Fanned(m), TRUE)
<1>1. m \in MeshesOf(v)
  BY MeshesOfAre, Zenon
<1>2. m \in HaveLoops(v)
  BY <1>1, Zenon DEF HaveLoops
<1>3. FanKept(v, HaveLoops(v))
  <2>1. ASSUME NEW a \in Nat, NEW b \in Nat, NEW r \in Meshes(v, a, b), NEW q \in 1..b,
               r \in HaveLoops(v), Len(Loop(r, q)) > 3
        PROVE  FannedAt(r, q) \in HaveLoops(v)
    <3>1. NotedOK(r) /\ LoopsOK(r, TRUE)
      BY <2>1, Zenon DEF HaveLoops
    <3>2. LoopsOK(FannedAt(r, q), TRUE) /\ NotedOK(FannedAt(r, q))
      BY <2>1, <3>1, FannedAtOK
    <3> DEFINE n == Len(Loop(r, q))
    <3>3. n \in 0..a /\ n > 3 /\ FannedAt(r, q) \in Meshes(v, a + 2*(n - 3), b + (n - 3))
      BY <2>1, FannedAtIs
    <3> HIDE DEF n
    <3>4. a + 2*(n - 3) \in Nat /\ b + (n - 3) \in Nat
      BY <3>3
    <3>5. FannedAt(r, q) \in MeshesOf(v)
      BY <3>3, <3>4, MeshesOfAre, Zenon
    <3> QED BY <3>2, <3>5, Zenon DEF HaveLoops
  <2> QED BY <2>1, Zenon DEF FanKept
<1>4. Fanned(m) \in HaveLoops(v)
  BY <1>2, <1>3, FannedKeeps
<1> QED BY <1>4, Zenon DEF HaveLoops

(* triangulate keeps the loops. *)
LEMMA TriangulateLoops ==
  ASSUME MaybeDeleted = FALSE
  PROVE  LoopInv /\ Triangulate => LoopInv'
<1> SUFFICES ASSUME LoopInv, Triangulate PROVE LoopInv'
  OBVIOUS
<1>1. PICK u \in Updates : mesh' = Fanned(u.mesh) /\ fanned' = (u.fanned \/ mesh' # u.mesh)
  BY Zenon DEF Triangulate, Fanned
<1>2. TypeInv /\ RingOK(mesh)
  BY Zenon DEF LoopInv, RingInv
<1>3. RingInv'
  BY TriangulateRings DEF LoopInv
<1>4. torn' = torn
  BY DEF Triangulate
<1>5. ASSUME ~torn PROVE LoopsOK(mesh', fanned') /\ NotedOK(mesh')
  <2>1. LoopsOK(mesh, fanned) /\ NotedOK(mesh)
    BY <1>5 DEF LoopInv
  <2>2. LoopsOK(u.mesh, u.fanned) /\ NotedOK(u.mesh) /\ u.fanned \in BOOLEAN
    BY <1>2, <2>1, UpdateLoops, Zenon
  <2>3. IsMesh(u.mesh)
    BY <1>2, <2>1, UpdateRings, Zenon
  <2>4. PICK v \in Nat, h \in Nat, p \in Nat : u.mesh \in Meshes(v, h, p)
    BY <2>3, Zenon DEF IsMesh
  <2>5. CASE mesh' = u.mesh
    <3>1. fanned' = u.fanned
      BY <1>1, <2>2, <2>5
    <3> QED BY <2>2, <2>5, <3>1
  <2>6. CASE mesh' # u.mesh
    <3>1. fanned' = TRUE
      BY <1>1, <2>6
    <3>2. LoopsOK(u.mesh, TRUE)
      <4>1. u.fanned = TRUE \/ u.fanned = FALSE
        BY <2>2
      <4> QED BY <4>1, <2>2, LoopsStale
    <3>3. NotedOK(Fanned(u.mesh)) /\ LoopsOK(Fanned(u.mesh), TRUE)
      BY <2>2, <2>4, <3>2, FannedOK
    <3> QED BY <1>1, <3>1, <3>3
  <2> QED BY <2>5, <2>6
<1> QED BY <1>3, <1>4, <1>5, Zenon DEF LoopInv

-----------------------------------------------------------------------------
(* Half edges removed *)

(* All but the pair. *)
SameEdge(e, f) ==
  /\ e.live = f.live /\ e.start = f.start /\ e.end = f.end
  /\ e.polygon = f.polygon /\ e.prev = f.prev /\ e.next = f.next

(* What of b is outside the half edges P, and the polygon q, is as it was. *)
Elsewhere(h, b, P, m) == \A y \in 1..h : y \notin P => SameEdge(m.halfEdges[y], b.halfEdges[y])

(* The polygons but q are those of b. *)
Others(p, b, q, m) == \A d \in 1..p : d # q => m.polygons[d] = b.polygons[d]

(* The half edges of P left are of q, and follow one another back and forth. *)
Chained(P, q, m) ==
  \A y \in P : m.halfEdges[y].live =>
    /\ m.halfEdges[y].polygon = q
    /\ m.halfEdges[y].next \in P /\ m.halfEdges[y].prev \in P
    /\ m.halfEdges[m.halfEdges[y].next].live /\ m.halfEdges[m.halfEdges[y].prev].live
    /\ m.halfEdges[m.halfEdges[y].next].prev = y /\ m.halfEdges[m.halfEdges[y].prev].next = y

(* A vertex's list has lost only half edges of P, and has none deleted that ends there. *)
Listed(v, b, P, m) ==
  \A u \in 1..v :
    /\ m.vertices[u].live = b.vertices[u].live
    /\ m.vertices[u].halfEdges \subseteq b.vertices[u].halfEdges
    /\ b.vertices[u].halfEdges \ P \subseteq m.vertices[u].halfEdges
    /\ b.vertices[u].live => \A g \in P \cap m.vertices[u].halfEdges :
                               m.halfEdges[g].live \/ u \notin Ends(m.halfEdges[g])

(* What removing a half edge x leaves of one, y. *)
IsEdgeLeft(m, x, y, f) ==
  LET e == m.halfEdges[x]
  IN  /\ f.live = IF y = x THEN FALSE ELSE m.halfEdges[y].live
      /\ y = x => f.start = StartLeft(m, x) /\ f.end = EndLeft(m, x)
      /\ y # x => /\ f.polygon = m.halfEdges[y].polygon
                  /\ f.end = IF y = e.prev THEN e.start ELSE m.halfEdges[y].end
                  /\ f.start = IF y = e.next THEN e.end ELSE m.halfEdges[y].start
                  /\ f.next = IF y = e.prev THEN e.next ELSE m.halfEdges[y].next
                  /\ f.prev = IF y = e.next THEN e.prev ELSE m.halfEdges[y].prev

(* The fields of a half edge after a removal. *)
LEMMA EdgeLeftIs ==
  ASSUME NEW v \in Nat, NEW h \in Nat, NEW p \in Nat, NEW m \in Meshes(v, h, p),
         NEW x, NEW y \in 1..h
  PROVE  IsEdgeLeft(m, x, y, EdgeLeft(m, x, y))
<1>1. m.halfEdges[y] \in HalfEdgeOf(v, h, p)
  BY EdgeFields
<1>2. CASE y = x
  <2>1. EdgeLeft(m, x, y) =
          [m.halfEdges[y] EXCEPT !.prev = 0, !.next = 0, !.pair = 0, !.polygon = 0, !.live = FALSE,
                                 !.start = StartLeft(m, x), !.end = EndLeft(m, x)]
    BY <1>2, Zenon DEF EdgeLeft
  <2> DEFINE f == EdgeLeft(m, x, y)
  <2>2. f.live = FALSE /\ f.start = StartLeft(m, x) /\ f.end = EndLeft(m, x)
    BY <1>1, <2>1 DEF HalfEdgeOf
  <2> HIDE DEF f
  <2> QED BY <1>2, <2>2 DEF IsEdgeLeft, f
<1>3. CASE y # x
  <2> DEFINE e == m.halfEdges[x]
             d == m.halfEdges[y]
             f == EdgeLeft(m, x, y)
  <2>1. f = [d EXCEPT !.end = IF y = e.prev THEN e.start ELSE d.end,
                      !.start = IF y = e.next THEN e.end ELSE d.start,
                      !.next = IF y = e.prev THEN e.next ELSE d.next,
                      !.prev = IF y = e.next THEN e.prev ELSE d.prev,
                      !.pair = IF y = e.pair THEN 0 ELSE d.pair]
    BY <1>1, <1>3 DEF EdgeLeft, HalfEdgeOf
  <2>2. d \in HalfEdgeOf(v, h, p)
    BY <1>1
  <2> HIDE DEF d, e, f
  <2>3. /\ f.live = d.live /\ f.polygon = d.polygon
        /\ f.end = IF y = e.prev THEN e.start ELSE d.end
        /\ f.start = IF y = e.next THEN e.end ELSE d.start
        /\ f.next = IF y = e.prev THEN e.next ELSE d.next
        /\ f.prev = IF y = e.next THEN e.prev ELSE d.prev
    BY <2>1, <2>2 DEF HalfEdgeOf
  <2> QED BY <1>3, <2>3 DEF IsEdgeLeft, f, d, e
<1> QED BY <1>2, <1>3

-----------------------------------------------------------------------------
(* One of a chain removed *)

(* Removing a half edge of P leaves the half edges outside it. *)
LEMMA WithoutElsewhere ==
  ASSUME NEW h, NEW m, NEW r, NEW b, NEW P, NEW q, NEW x \in P, m.halfEdges[x].live,
         \A y \in 1..h : IsEdgeLeft(m, x, y, r.halfEdges[y]),
         Chained(P, q, m), Elsewhere(h, b, P, m)
  PROVE  Elsewhere(h, b, P, r)
<1> DEFINE e == m.halfEdges[x]
<1>1. e.next \in P /\ e.prev \in P
  BY Zenon DEF Chained
<1>2. ASSUME NEW y \in 1..h, y \notin P PROVE SameEdge(r.halfEdges[y], b.halfEdges[y])
  <2>1. y # x /\ y # e.prev /\ y # e.next
    BY <1>1, <1>2
  <2>2. IsEdgeLeft(m, x, y, r.halfEdges[y])
    OBVIOUS
  <2>3. SameEdge(m.halfEdges[y], b.halfEdges[y])
    BY <1>2, Zenon DEF Elsewhere
  <2> DEFINE f == r.halfEdges[y]
             d == m.halfEdges[y]
             c == b.halfEdges[y]
  <2>4. /\ f.live = d.live /\ f.polygon = d.polygon /\ f.end = d.end /\ f.start = d.start
        /\ f.next = d.next /\ f.prev = d.prev
    BY <2>1, <2>2 DEF IsEdgeLeft
  <2>5. /\ d.live = c.live /\ d.start = c.start /\ d.end = c.end
        /\ d.polygon = c.polygon /\ d.prev = c.prev /\ d.next = c.next
    BY <2>3 DEF SameEdge
  <2> HIDE DEF f, d, c
  <2> QED BY <2>4, <2>5 DEF SameEdge, f, d, c
<1> QED BY <1>2, Zenon DEF Elsewhere

(* Removing a half edge of a chain leaves a shorter chain. *)
LEMMA WithoutChained ==
  ASSUME NEW h, NEW m, NEW r, NEW P, P \subseteq 1..h, NEW q, NEW x \in P, m.halfEdges[x].live,
         \A y \in 1..h : IsEdgeLeft(m, x, y, r.halfEdges[y]),
         Chained(P, q, m)
  PROVE  Chained(P, q, r)
<1> DEFINE live(y) == m.halfEdges[y].live
           next(y) == m.halfEdges[y].next
           prev(y) == m.halfEdges[y].prev
           of(y) == m.halfEdges[y].polygon
           liver(y) == r.halfEdges[y].live
           nextr(y) == r.halfEdges[y].next
           prevr(y) == r.halfEdges[y].prev
           ofr(y) == r.halfEdges[y].polygon
<1>1. \A y \in P : live(y) => /\ of(y) = q /\ next(y) \in P /\ prev(y) \in P
                              /\ live(next(y)) /\ live(prev(y))
                              /\ prev(next(y)) = y /\ next(prev(y)) = y
  BY Zenon DEF Chained
<1>2. \A y \in P : /\ liver(y) = IF y = x THEN FALSE ELSE live(y)
                   /\ y # x => /\ ofr(y) = of(y)
                               /\ nextr(y) = IF y = prev(x) THEN next(x) ELSE next(y)
                               /\ prevr(y) = IF y = next(x) THEN prev(x) ELSE prev(y)
  BY DEF IsEdgeLeft
<1>3. live(x)
  OBVIOUS
<1> SUFFICES ASSUME NEW y \in P, liver(y)
             PROVE  /\ ofr(y) = q /\ nextr(y) \in P /\ prevr(y) \in P
                    /\ liver(nextr(y)) /\ liver(prevr(y))
                    /\ prevr(nextr(y)) = y /\ nextr(prevr(y)) = y
  BY Zenon DEF Chained
<1> HIDE DEF live, next, prev, of, liver, nextr, prevr, ofr
<1>4. y # x /\ live(y)
  BY <1>2
<1>5. ofr(y) = q
  BY <1>1, <1>2, <1>4
<1>6. nextr(y) \in P /\ liver(nextr(y)) /\ prevr(nextr(y)) = y
  <2>1. CASE y = prev(x)
    <3>1. nextr(y) = next(x) /\ next(x) \in P /\ live(next(x)) /\ prev(next(x)) = x
      BY <1>1, <1>2, <1>3, <1>4, <2>1
    <3>2. next(x) # x
      BY <3>1, <1>4, <2>1
    <3> QED BY <1>2, <2>1, <3>1, <3>2
  <2>2. CASE y # prev(x)
    <3>1. nextr(y) = next(y) /\ next(y) \in P /\ live(next(y)) /\ prev(next(y)) = y
      BY <1>1, <1>2, <1>4, <2>2
    <3>2. next(y) # x /\ next(y) # next(x)
      BY <3>1, <1>1, <1>3, <1>4, <2>2
    <3> QED BY <1>2, <3>1, <3>2
  <2> QED BY <2>1, <2>2
<1>7. prevr(y) \in P /\ liver(prevr(y)) /\ nextr(prevr(y)) = y
  <2>1. CASE y = next(x)
    <3>1. prevr(y) = prev(x) /\ prev(x) \in P /\ live(prev(x)) /\ next(prev(x)) = x
      BY <1>1, <1>2, <1>3, <1>4, <2>1
    <3>2. prev(x) # x
      BY <3>1, <1>4, <2>1
    <3> QED BY <1>2, <2>1, <3>1, <3>2
  <2>2. CASE y # next(x)
    <3>1. prevr(y) = prev(y) /\ prev(y) \in P /\ live(prev(y)) /\ next(prev(y)) = y
      BY <1>1, <1>2, <1>4, <2>2
    <3>2. prev(y) # x /\ prev(y) # prev(x)
      BY <3>1, <1>1, <1>3, <1>4, <2>2
    <3> QED BY <1>2, <3>1, <3>2
  <2> QED BY <2>1, <2>2
<1> QED BY <1>5, <1>6, <1>7

(* Removing a half edge keeps the notes of the vertices, which lose only
   what was removed. *)
LEMMA WithoutListed ==
  ASSUME NEW v, NEW h, NEW m, NEW r, NEW b, NEW P, P \subseteq 1..h, NEW q, NEW x \in P,
         m.halfEdges[x].live,
         \A y \in 1..h : IsEdgeLeft(m, x, y, r.halfEdges[y]),
         \A u \in 1..v : IsShortened(m, x, u, r),
         Chained(P, q, m), Listed(v, b, P, m)
  PROVE  Listed(v, b, P, r)
<1> DEFINE e == m.halfEdges[x]
<1>1. /\ e.next \in P /\ e.prev \in P
      /\ m.halfEdges[e.next].live /\ m.halfEdges[e.prev].live
  BY Zenon DEF Chained
<1> SUFFICES ASSUME NEW u \in 1..v
             PROVE  /\ r.vertices[u].live = b.vertices[u].live
                    /\ r.vertices[u].halfEdges \subseteq b.vertices[u].halfEdges
                    /\ b.vertices[u].halfEdges \ P \subseteq r.vertices[u].halfEdges
                    /\ b.vertices[u].live => \A g \in P \cap r.vertices[u].halfEdges :
                                               r.halfEdges[g].live \/ u \notin Ends(r.halfEdges[g])
  BY Zenon DEF Listed
<1> DEFINE L == r.vertices[u].halfEdges
           M == m.vertices[u].halfEdges
           B == b.vertices[u].halfEdges
<1>2. /\ m.vertices[u].live = b.vertices[u].live /\ M \subseteq B /\ B \ P \subseteq M
      /\ b.vertices[u].live => \A g \in P \cap M : m.halfEdges[g].live \/ u \notin Ends(m.halfEdges[g])
  BY Zenon DEF Listed
<1>3. /\ r.vertices[u].live = m.vertices[u].live
      /\ L = IF m.vertices[u].live /\ u \in {StartLeft(m, x), EndLeft(m, x)} THEN M \ {x} ELSE M
  BY Zenon DEF IsShortened
<1> HIDE DEF L, M, B
<1>4. L \subseteq B /\ B \ P \subseteq L /\ L \subseteq M
  BY <1>2, <1>3
<1>5. ASSUME b.vertices[u].live, NEW g \in P \cap L
      PROVE  r.halfEdges[g].live \/ u \notin Ends(r.halfEdges[g])
  <2>1. g \in 1..h /\ g \in P /\ g \in L /\ g \in M
    BY <1>4
  <2>2. IsEdgeLeft(m, x, g, r.halfEdges[g])
    BY <2>1
  <2>3. CASE g = x
    <3>1. r.halfEdges[g].start = StartLeft(m, x) /\ r.halfEdges[g].end = EndLeft(m, x)
      BY <2>2, <2>3 DEF IsEdgeLeft
    <3>2. u \notin {StartLeft(m, x), EndLeft(m, x)}
      BY <1>2, <1>3, <1>5, <2>1, <2>3
    <3> QED BY <3>1, <3>2 DEF Ends
  <2>4. CASE g # x /\ m.halfEdges[g].live
    BY <2>2, <2>4 DEF IsEdgeLeft
  <2>5. CASE g # x /\ ~m.halfEdges[g].live
    <3>1. g # e.next /\ g # e.prev
      BY <1>1, <2>5
    <3>2. r.halfEdges[g].start = m.halfEdges[g].start /\ r.halfEdges[g].end = m.halfEdges[g].end
      BY <2>2, <2>5, <3>1 DEF IsEdgeLeft
    <3>3. u \notin Ends(m.halfEdges[g])
      BY <1>2, <1>5, <2>1, <2>5
    <3> QED BY <3>2, <3>3 DEF Ends
  <2> QED BY <2>3, <2>4, <2>5
<1> QED BY <1>2, <1>3, <1>4, <1>5, Zenon DEF L, B

(* Removing a half edge of q leaves the other polygons. *)
LEMMA WithoutOthers ==
  ASSUME NEW p, NEW m, NEW r, NEW b, NEW P, NEW q, NEW x \in P, m.halfEdges[x].live,
         \A d \in 1..p : r.polygons[d] = PolygonLeft(m, x, d),
         Chained(P, q, m), Others(p, b, q, m)
  PROVE  Others(p, b, q, r)
<1>1. m.halfEdges[x].polygon = q
  BY Zenon DEF Chained
<1>2. ASSUME NEW d \in 1..p, d # q PROVE r.polygons[d] = b.polygons[d]
  <2>1. PolygonLeft(m, x, d) = m.polygons[d]
    BY <1>1, <1>2 DEF PolygonLeft
  <2>2. m.polygons[d] = b.polygons[d]
    BY <1>2, Zenon DEF Others
  <2> QED BY <2>1, <2>2
<1> QED BY <1>2, Zenon DEF Others

(* All of it, with the first k half edges of the loop L gone. *)
Thinned(v, h, p, b, q, P, L, k, m) ==
  /\ Elsewhere(h, b, P, m) /\ Others(p, b, q, m) /\ Chained(P, q, m) /\ Listed(v, b, P, m)
  /\ \A i \in 1..k : ~m.halfEdges[L[i]].live

(* One removal more of the loop leaves the polygon thinner by one half
   edge. *)
LEMMA WithoutThinned ==
  ASSUME NEW v \in Nat, NEW h \in Nat, NEW p \in Nat, NEW m \in Meshes(v, h, p), NEW b, NEW q,
         NEW P, P \subseteq 1..h, NEW n \in Nat, NEW L \in [1..n -> P], NEW k \in 1..n,
         Thinned(v, h, p, b, q, P, L, k - 1, m)
  PROVE  Thinned(v, h, p, b, q, P, L, k, WithoutHalfEdge(m, L[k]))
<1> DEFINE x == L[k]
           r == WithoutHalfEdge(m, x)
<1>1. x \in P /\ x \in 1..h
  OBVIOUS
<1>2. /\ Elsewhere(h, b, P, m) /\ Others(p, b, q, m) /\ Chained(P, q, m) /\ Listed(v, b, P, m)
      /\ \A i \in 1..k-1 : ~m.halfEdges[L[i]].live
  BY Zenon DEF Thinned
<1>3. CASE ~m.halfEdges[x].live
  <2>1. r = m
    BY <1>1, <1>3, WithoutDead
  <2>2. \A i \in 1..k : ~m.halfEdges[L[i]].live
    <3>1. \A i \in 1..k : i \in 1..k-1 \/ i = k
      OBVIOUS
    <3> QED BY <1>2, <1>3, <3>1
  <2> HIDE DEF r, x
  <2>3. Thinned(v, h, p, b, q, P, L, k, m)
    BY <1>2, <2>2, Zenon DEF Thinned
  <2> QED BY <2>1, <2>3 DEF r, x
<1>4. CASE m.halfEdges[x].live
  <2>1. r \in Meshes(v, h, p) /\ IsWithout(v, h, p, m, x, r)
    BY <1>1, <1>4, WithoutIs
  <2> HIDE DEF r, x
  <2>2. /\ \A y \in 1..h : r.halfEdges[y] = EdgeLeft(m, x, y)
        /\ \A d \in 1..p : r.polygons[d] = PolygonLeft(m, x, d)
    BY <2>1, Zenon DEF IsWithout
  <2>3. \A y \in 1..h : IsEdgeLeft(m, x, y, r.halfEdges[y])
    <3>1. \A y \in 1..h : IsEdgeLeft(m, x, y, EdgeLeft(m, x, y))
      BY EdgeLeftIs
    <3> QED BY <2>2, <3>1
  <2>4. \A u \in 1..v : IsShortened(m, x, u, r)
    BY <1>1, <2>1, WithoutVertices
  <2>5. Elsewhere(h, b, P, r)
    BY <1>1, <1>2, <1>4, <2>3, WithoutElsewhere
  <2>6. Others(p, b, q, r)
    BY <1>1, <1>2, <1>4, <2>2, WithoutOthers
  <2>7. Chained(P, q, r)
    BY <1>1, <1>2, <1>4, <2>3, WithoutChained
  <2>8. Listed(v, b, P, r)
    BY <1>1, <1>2, <1>4, <2>3, <2>4, WithoutListed
  <2>9. ASSUME NEW i \in 1..k PROVE ~r.halfEdges[L[i]].live
    <3>1. i \in 1..n
      OBVIOUS
    <3>2. L[i] \in P /\ L[i] \in 1..h
      BY <3>1
    <3>3. IsEdgeLeft(m, x, L[i], r.halfEdges[L[i]])
      BY <2>3, <3>2
    <3>4. r.halfEdges[L[i]].live = IF L[i] = x THEN FALSE ELSE m.halfEdges[L[i]].live
      BY <3>3, Zenon DEF IsEdgeLeft
    <3>5. i \in 1..k-1 \/ i = k
      OBVIOUS
    <3>6. L[i] = x \/ ~m.halfEdges[L[i]].live
      BY <1>2, <3>5 DEF x
    <3> QED BY <3>4, <3>6
  <2> HIDE DEF r
  <2>10. Thinned(v, h, p, b, q, P, L, k, r)
    BY <2>5, <2>6, <2>7, <2>8, <2>9, Zenon DEF Thinned
  <2> QED BY <2>10 DEF r, x
<1> QED BY <1>3, <1>4

-----------------------------------------------------------------------------
(* A polygon removed *)

(* The half edges of a polygon. *)
Inside(m, q) == {x \in LiveEdges(m) : m.halfEdges[x].polygon = q}

(* Before the first removal nothing of the polygon is missing. *)
LEMMA ThinnedFirst ==
  ASSUME NEW v \in Nat, NEW h \in Nat, NEW p \in Nat, NEW m \in Meshes(v, h, p), NEW q \in 1..p,
         LoopsOK(m, FALSE), NotedOK(m)
  PROVE  Thinned(v, h, p, m, q, Inside(m, q), Loop(m, q), 0, m)
<1> DEFINE P == Inside(m, q)
           L == Loop(m, q)
           n == Len(L)
<1>1. NextOK(m) /\ LinksOK(m, FALSE)
  BY Zenon DEF LoopsOK
<1>2. IsClosed(h, m, q, L)
  BY <1>1, LoopCloses
<1>3. HasItsOwn(m, q, L)
  BY LoopHasAll
<1> HIDE DEF L
<1>4. /\ n \in 0..h /\ L \in [1..n -> LiveEdges(m)]
      /\ \A i \in 1..n : m.halfEdges[L[i]].next = L[IF i = n THEN 1 ELSE i + 1]
  BY <1>2, Zenon DEF IsClosed
<1>5. /\ \A i \in 1..n : m.halfEdges[L[i]].polygon = q
      /\ \A x \in LiveEdges(m) : m.halfEdges[x].polygon = q => \E i \in 1..n : L[i] = x
  BY <1>3, Zenon DEF HasItsOwn
<1>6. \A x : x \in P <=> x \in LiveEdges(m) /\ m.halfEdges[x].polygon = q
  BY DEF Inside
<1>7. \A x \in LiveEdges(m) : /\ m.halfEdges[m.halfEdges[x].next].polygon = m.halfEdges[x].polygon
                              /\ m.halfEdges[m.halfEdges[x].next].prev = x
  BY <1>1, Zenon DEF LinksOK
<1>8. \A x \in LiveEdges(m) : m.halfEdges[x].next \in LiveEdges(m)
  BY <1>1, Zenon DEF NextOK
<1>9. LiveEdges(m) \subseteq 1..h /\ \A x \in 1..h : x \in LiveEdges(m) <=> m.halfEdges[x].live
  BY LiveAre
<1> HIDE DEF P, n
<1>10. Chained(P, q, m)
  <2>1. ASSUME NEW y \in P
        PROVE  /\ m.halfEdges[y].polygon = q
               /\ m.halfEdges[y].next \in P /\ m.halfEdges[m.halfEdges[y].next].live
               /\ m.halfEdges[m.halfEdges[y].next].prev = y
    <3>1. y \in LiveEdges(m) /\ m.halfEdges[y].polygon = q
      BY <1>6
    <3>2. m.halfEdges[y].next \in LiveEdges(m) /\ m.halfEdges[m.halfEdges[y].next].polygon = q
      BY <3>1, <1>7, <1>8
    <3> QED BY <3>1, <3>2, <1>6, <1>7, <1>9
  <2>2. ASSUME NEW y \in P PROVE \E z \in P : m.halfEdges[z].next = y
    <3>1. PICK i \in 1..n : L[i] = y
      BY <1>5, <1>6
    <3>2. PICK j \in 1..n : i = IF j = n THEN 1 ELSE j + 1
      <4>1. CASE i = 1
        BY <4>1, <1>4
      <4>2. CASE i # 1
        <5>1. i - 1 \in 1..n /\ i = IF i - 1 = n THEN 1 ELSE (i - 1) + 1
          BY <4>2, <1>4
        <5> QED BY <5>1
      <4> QED BY <4>1, <4>2
    <3>3. L[j] \in P /\ m.halfEdges[L[j]].next = y
      BY <1>4, <1>5, <1>6, <3>1, <3>2
    <3> QED BY <3>3
  <2>3. ASSUME NEW y \in P
        PROVE  /\ m.halfEdges[y].prev \in P /\ m.halfEdges[m.halfEdges[y].prev].live
               /\ m.halfEdges[m.halfEdges[y].prev].next = y
    <3>1. PICK z \in P : m.halfEdges[z].next = y
      BY <2>2
    <3>2. m.halfEdges[y].prev = z
      BY <2>1, <3>1
    <3> QED BY <3>1, <3>2, <1>6, <1>9
  <2> QED BY <2>1, <2>3, Zenon DEF Chained
<1>11. Elsewhere(h, m, P, m)
  BY DEF Elsewhere, SameEdge
<1>12. Others(p, m, q, m)
  BY DEF Others
<1>13. Listed(v, m, P, m)
  <2>1. ASSUME NEW u \in 1..v, m.vertices[u].live, NEW g \in P \cap m.vertices[u].halfEdges
        PROVE  m.halfEdges[g].live
    BY <1>6, <1>9
  <2> QED BY <2>1, Zenon DEF Listed
<1>14. \A i \in 1..0 : ~m.halfEdges[L[i]].live
  OBVIOUS
<1> QED BY <1>10, <1>11, <1>12, <1>13, <1>14, Zenon DEF Thinned, P, L

(* What is left of b is m: all but the polygon q. *)
IsWithoutPolygon(v, h, p, b, q, m) ==
  /\ LiveEdges(m) = Outside(b, q)
  /\ Elsewhere(h, b, Inside(b, q), m) /\ Others(p, b, q, m) /\ Listed(v, b, Inside(b, q), m)

(* After the last one every half edge of the polygon is dead and all else
   is as it was. *)
LEMMA RemovedIs ==
  ASSUME NEW v \in Nat, NEW h \in Nat, NEW p \in Nat, NEW m \in Meshes(v, h, p), NEW q \in 1..p,
         LoopsOK(m, FALSE), NotedOK(m)
  PROVE  /\ Removed(m, q) \in Meshes(v, h, p)
         /\ IsWithoutPolygon(v, h, p, m, q, Removed(m, q))
<1> DEFINE P == Inside(m, q)
           L == Loop(m, q)
           n == Len(L)
           R == {x \in (0..n) \X Meshes(v, h, p) : Thinned(v, h, p, m, q, P, L, x[1], x[2])}
           r == Removed(m, q)
<1>1. Thinned(v, h, p, m, q, P, L, 0, m)
  BY ThinnedFirst
<1>2. LiveEdges(m) \subseteq 1..h /\ \A x \in 1..h : x \in LiveEdges(m) <=> m.halfEdges[x].live
  BY LiveAre
<1>3. IsClosed(h, m, q, L) /\ HasItsOwn(m, q, L)
  <2>1. NextOK(m)
    BY Zenon DEF LoopsOK
  <2> QED BY <2>1, LoopCloses, LoopHasAll
<1>4. P \subseteq 1..h
  BY <1>2 DEF Inside
<1>5. n \in Nat /\ L \in [1..n -> P]
  <2>1. n \in 0..h /\ L \in [1..n -> LiveEdges(m)]
    BY <1>3, Zenon DEF IsClosed
  <2>2. \A i \in 1..n : m.halfEdges[L[i]].polygon = q
    BY <1>3, Zenon DEF HasItsOwn
  <2> HIDE DEF L, n
  <2>3. \A i \in 1..n : L[i] \in P
    BY <2>1, <2>2 DEF Inside
  <2>4. L = [i \in 1..n |-> L[i]]
    BY <2>1
  <2> HIDE DEF P
  <2> QED BY <2>1, <2>3, <2>4
<1> HIDE DEF P
<1>6. LoopKept(v, h, p, m, q, R)
  <2>1. <<0, m>> \in R
    <3>1. 0 \in 0..n
      BY <1>5
    <3> QED BY <1>1, <3>1
  <2>2. ASSUME NEW k \in 1..n, NEW a \in Meshes(v, h, p), <<k-1, a>> \in R
        PROVE  <<k, WithoutHalfEdge(a, L[k])>> \in R
    <3>1. Thinned(v, h, p, m, q, P, L, k - 1, a)
      BY <2>2
    <3> HIDE DEF L, n
    <3>2. Thinned(v, h, p, m, q, P, L, k, WithoutHalfEdge(a, L[k]))
      BY <1>4, <1>5, <3>1, WithoutThinned
    <3>3. WithoutHalfEdge(a, L[k]) \in Meshes(v, h, p)
      <4>1. L[k] \in 1..h
        BY <1>4, <1>5
      <4> QED BY <4>1, WithoutIs, WithoutDead
    <3>4. k \in 0..n
      BY <1>5
    <3> QED BY <3>2, <3>3, <3>4
  <2> HIDE DEF R
  <2> QED BY <2>1, <2>2, Zenon DEF LoopKept
<1>7. <<n, r>> \in R /\ r \in Meshes(v, h, p)
  <2> HIDE DEF R
  <2> QED BY <1>6, RemovedKeeps
<1>8. Thinned(v, h, p, m, q, P, L, n, r)
  <2> HIDE DEF r, L, n
  <2> QED BY <1>7
<1>9. /\ Elsewhere(h, m, P, r) /\ Others(p, m, q, r) /\ Listed(v, m, P, r)
      /\ \A i \in 1..n : ~r.halfEdges[L[i]].live
  BY <1>8, Zenon DEF Thinned
<1>10. LiveEdges(r) \subseteq 1..h /\ \A x \in 1..h : x \in LiveEdges(r) <=> r.halfEdges[x].live
  BY <1>7, LiveAre
<1>11. \A x \in P : \E i \in 1..n : L[i] = x
  <2>1. \A x \in LiveEdges(m) : m.halfEdges[x].polygon = q => \E i \in 1..n : L[i] = x
    BY <1>3, Zenon DEF HasItsOwn
  <2> HIDE DEF L, n
  <2> QED BY <2>1 DEF P, Inside
<1> HIDE DEF r, L, n, R
<1>12. ASSUME NEW x \in 1..h PROVE x \in LiveEdges(r) <=> x \in Outside(m, q)
  <2>1. CASE x \in P
    <3>1. ~r.halfEdges[x].live
      BY <1>9, <1>11, <2>1
    <3>2. x \notin Outside(m, q)
      BY <2>1 DEF P, Inside, Outside
    <3> QED BY <3>1, <3>2, <1>10
  <2>2. CASE x \notin P
    <3>1. r.halfEdges[x].live = m.halfEdges[x].live
      BY <1>9, <2>2, Zenon DEF Elsewhere, SameEdge
    <3>2. x \in Outside(m, q) <=> x \in LiveEdges(m)
      BY <2>2 DEF P, Inside, Outside
    <3> QED BY <3>1, <3>2, <1>2, <1>10
  <2> QED BY <2>1, <2>2
<1>13. Outside(m, q) \subseteq 1..h
  BY <1>2 DEF Outside
<1>14. LiveEdges(r) = Outside(m, q)
  BY <1>10, <1>12, <1>13
<1> QED BY <1>7, <1>9, <1>14, Zenon DEF IsWithoutPolygon, P, r

(* A mesh without one of its polygons is well formed. *)
LEMMA RemovedOK ==
  ASSUME NEW v \in Nat, NEW h \in Nat, NEW p \in Nat, NEW b \in Meshes(v, h, p), NEW q \in 1..p,
         LoopsOK(b, FALSE), NotedOK(b)
  PROVE  LoopsOK(Emptied(Removed(b, q), q), FALSE) /\ NotedOK(Emptied(Removed(b, q), q))
<1> DEFINE m == Removed(b, q)
           r == Emptied(m, q)
<1>1. m \in Meshes(v, h, p) /\ IsWithoutPolygon(v, h, p, b, q, m)
  BY RemovedIs
<1> HIDE DEF m
<1>2. r \in Meshes(v, h, p) /\ IsEmptied(m, q, r)
  BY <1>1, EmptiedIs
<1> HIDE DEF r
<1>3. /\ LiveEdges(m) = Outside(b, q)
      /\ Elsewhere(h, b, Inside(b, q), m) /\ Others(p, b, q, m) /\ Listed(v, b, Inside(b, q), m)
  BY <1>1, Zenon DEF IsWithoutPolygon
<1>4. /\ LiveEdges(b) \subseteq 1..h /\ LiveVertices(b) \subseteq 1..v
      /\ \A u \in 1..v : u \in LiveVertices(b) <=> b.vertices[u].live
  BY LiveAre
<1>5. /\ \A u \in 1..v : r.vertices[u] = m.vertices[u]
      /\ \A x \in 1..h : r.halfEdges[x] = m.halfEdges[x]
      /\ \A d \in 1..p : d # q => r.polygons[d] = m.polygons[d]
      /\ r.polygons[q].any = 0
  <2>1. /\ r.polygons = [m.polygons EXCEPT ![q] = [any |-> 0, live |-> FALSE]]
        /\ r.vertices = m.vertices /\ r.halfEdges = m.halfEdges
    BY <1>2, Zenon DEF IsEmptied
  <2>2. m.polygons \in [1..p -> PolygonOf(h)]
    BY <1>1, Fields
  <2>3. /\ \A d \in 1..p : d # q => r.polygons[d] = m.polygons[d]
        /\ r.polygons[q] = [any |-> 0, live |-> FALSE]
    BY <2>1, <2>2
  <2> QED BY <2>1, <2>3
<1>6. /\ LiveEdges(r) \subseteq 1..h /\ LiveVertices(r) \subseteq 1..v
      /\ \A u \in 1..v : u \in LiveVertices(r) <=> r.vertices[u].live
      /\ \A x \in 1..h : x \in LiveEdges(r) <=> r.halfEdges[x].live
  BY <1>2, LiveAre
<1>7. LiveEdges(m) \subseteq 1..h /\ \A x \in 1..h : x \in LiveEdges(m) <=> m.halfEdges[x].live
  BY <1>1, LiveAre
<1> DEFINE K == Outside(b, q)
<1>8. LiveEdges(r) = K
  BY <1>3, <1>5, <1>6, <1>7
<1>9. \A x \in K : x \in LiveEdges(b) /\ x \in 1..h /\ b.halfEdges[x].polygon # q
  BY <1>4 DEF Outside
<1>10. \A x \in LiveEdges(b) : b.halfEdges[x].polygon # q => x \in K
  BY DEF Outside
<1> HIDE DEF K
<1>11. ASSUME NEW x \in 1..h, x \notin Inside(b, q)
       PROVE  /\ r.halfEdges[x].live = b.halfEdges[x].live
              /\ r.halfEdges[x].start = b.halfEdges[x].start /\ r.halfEdges[x].end = b.halfEdges[x].end
              /\ r.halfEdges[x].polygon = b.halfEdges[x].polygon
              /\ r.halfEdges[x].prev = b.halfEdges[x].prev /\ r.halfEdges[x].next = b.halfEdges[x].next
  <2>1. SameEdge(m.halfEdges[x], b.halfEdges[x])
    BY <1>3, <1>11, Zenon DEF Elsewhere
  <2>2. SameEdge(r.halfEdges[x], b.halfEdges[x])
    BY <1>5, <2>1
  <2> QED BY <2>2, Zenon DEF SameEdge
<1>12. \A x \in K : x \notin Inside(b, q)
  BY <1>9 DEF Inside
<1>13. \A x \in K :
         /\ r.halfEdges[x].start = b.halfEdges[x].start /\ r.halfEdges[x].end = b.halfEdges[x].end
         /\ r.halfEdges[x].polygon = b.halfEdges[x].polygon
         /\ r.halfEdges[x].prev = b.halfEdges[x].prev /\ r.halfEdges[x].next = b.halfEdges[x].next
  BY <1>9, <1>11, <1>12
<1>14. NextOK(b) /\ LinksOK(b, FALSE) /\ OwnersOK(b) /\ CyclesOK(b)
  BY Zenon DEF LoopsOK
<1>15. \A x \in LiveEdges(b) :
         LET f == b.halfEdges[b.halfEdges[x].next]
         IN  f.polygon = b.halfEdges[x].polygon /\ f.start = b.halfEdges[x].end /\ f.prev = x
  BY <1>14, Zenon DEF LinksOK
<1>16. ASSUME NEW x \in K PROVE b.halfEdges[x].next \in K
  <2>1. x \in LiveEdges(b) /\ b.halfEdges[x].polygon # q
    BY <1>9
  <2>2. b.halfEdges[x].next \in LiveEdges(b)
    BY <1>14, <2>1, Zenon DEF NextOK
  <2>3. b.halfEdges[b.halfEdges[x].next].polygon = b.halfEdges[x].polygon
    BY <1>15, <2>1
  <2> QED BY <2>1, <2>2, <2>3, <1>10
<1>17. NextOK(r)
  <2>1. ASSUME NEW g \in K
        PROVE  /\ r.halfEdges[g].next \in K
               /\ \A f \in K : r.halfEdges[f].next = r.halfEdges[g].next => f = g
    <3>1. ASSUME NEW f \in K, r.halfEdges[f].next = r.halfEdges[g].next PROVE f = g
      <4>1. f \in LiveEdges(b) /\ g \in LiveEdges(b) /\ b.halfEdges[f].next = b.halfEdges[g].next
        BY <1>9, <1>13, <3>1
      <4> QED BY <1>14, <4>1, Zenon DEF NextOK
    <3> QED BY <1>13, <1>16, <3>1
  <2> QED BY <1>8, <2>1, Zenon DEF NextOK
<1>18. LinksOK(r, FALSE)
  <2>1. ASSUME NEW g \in K
        PROVE  /\ r.halfEdges[r.halfEdges[g].next].polygon = r.halfEdges[g].polygon
               /\ r.halfEdges[r.halfEdges[g].next].start = r.halfEdges[g].end
               /\ r.halfEdges[r.halfEdges[g].next].prev = g
    BY <1>9, <1>13, <1>15, <1>16
  <2> QED BY <1>8, <2>1, Zenon DEF LinksOK
<1>19. DOMAIN r.polygons = 1..p /\ DOMAIN b.polygons = 1..p
  BY <1>2, Sizes
<1>20. \A d \in 1..p : d # q => r.polygons[d] = b.polygons[d]
  BY <1>3, <1>5, Zenon DEF Others
<1>21. OwnersOK(r)
  <2>1. ASSUME NEW g \in LiveEdges(r)
        PROVE  /\ r.halfEdges[g].polygon \in DOMAIN r.polygons
               /\ r.polygons[r.halfEdges[g].polygon].any # Invalid
    <3>1. g \in LiveEdges(b) /\ b.halfEdges[g].polygon # q /\ r.halfEdges[g].polygon = b.halfEdges[g].polygon
      BY <1>8, <1>9, <1>13
    <3>2. b.halfEdges[g].polygon \in DOMAIN b.polygons /\ b.polygons[b.halfEdges[g].polygon].any # Invalid
      BY <1>14, <3>1, Zenon DEF OwnersOK
    <3> QED BY <1>19, <1>20, <3>1, <3>2
  <2>2. ASSUME NEW d \in DOMAIN r.polygons, r.polygons[d].any # Invalid
        PROVE  /\ r.polygons[d].live /\ r.polygons[d].any \in LiveEdges(r)
               /\ r.halfEdges[r.polygons[d].any].polygon = d
    <3>1. d \in 1..p /\ d # q
      BY <1>5, <1>19, <2>2 DEF Invalid
    <3>2. r.polygons[d] = b.polygons[d]
      BY <1>20, <3>1
    <3>3. /\ b.polygons[d].live /\ b.polygons[d].any \in LiveEdges(b)
          /\ b.halfEdges[b.polygons[d].any].polygon = d
      BY <1>14, <1>19, <2>2, <3>1, <3>2, Zenon DEF OwnersOK
    <3>4. b.polygons[d].any \in K
      BY <1>10, <3>1, <3>3
    <3> QED BY <1>8, <1>13, <3>2, <3>3, <3>4
  <2> QED BY <2>1, <2>2, Zenon DEF OwnersOK
<1>22. CyclesOK(r)
  <2>1. ASSUME NEW O \in SUBSET LiveEdges(r), \A g \in O : r.halfEdges[g].next \in O,
               NEW g \in O, NEW f \in LiveEdges(r), r.halfEdges[f].polygon = r.halfEdges[g].polygon
        PROVE  f \in O
    <3>1. O \in SUBSET LiveEdges(b) /\ O \subseteq K
      BY <1>8, <1>9
    <3>2. \A x \in O : b.halfEdges[x].next \in O
      BY <1>13, <2>1, <3>1
    <3>3. f \in LiveEdges(b) /\ b.halfEdges[f].polygon = b.halfEdges[g].polygon
      BY <1>8, <1>9, <1>13, <2>1, <3>1
    <3> QED BY <1>14, <3>1, <3>2, <3>3, Zenon DEF CyclesOK
  <2> QED BY <2>1, Zenon DEF CyclesOK
<1>23. ASSUME NEW u \in 1..v
       PROVE  /\ r.vertices[u].live = b.vertices[u].live
              /\ r.vertices[u].halfEdges \subseteq b.vertices[u].halfEdges
              /\ b.vertices[u].halfEdges \ Inside(b, q) \subseteq r.vertices[u].halfEdges
              /\ b.vertices[u].live => \A g \in Inside(b, q) \cap r.vertices[u].halfEdges :
                                         r.halfEdges[g].live \/ u \notin Ends(r.halfEdges[g])
  <2>1. /\ m.vertices[u].live = b.vertices[u].live
        /\ m.vertices[u].halfEdges \subseteq b.vertices[u].halfEdges
        /\ b.vertices[u].halfEdges \ Inside(b, q) \subseteq m.vertices[u].halfEdges
        /\ b.vertices[u].live => \A g \in Inside(b, q) \cap m.vertices[u].halfEdges :
                                   m.halfEdges[g].live \/ u \notin Ends(m.halfEdges[g])
    BY <1>3, Zenon DEF Listed
  <2>2. \A g \in Inside(b, q) : r.halfEdges[g] = m.halfEdges[g]
    BY <1>4, <1>5 DEF Inside
  <2>3. r.vertices[u] = m.vertices[u]
    BY <1>5
  <2> QED BY <2>1, <2>2, <2>3
<1>24. /\ \A x \in LiveEdges(b) : Ends(b.halfEdges[x]) \subseteq LiveVertices(b)
       /\ LiveVertices(b) = DOMAIN b.vertices =>
            \A x \in LiveEdges(b) : \A u \in Ends(b.halfEdges[x]) : x \in b.vertices[u].halfEdges
       /\ \A u \in LiveVertices(b) : \A g \in b.vertices[u].halfEdges :
            g \in LiveEdges(b) \/ u \notin Ends(b.halfEdges[g])
  BY Zenon DEF NotedOK
<1>25. LiveVertices(r) = LiveVertices(b) /\ DOMAIN r.vertices = DOMAIN b.vertices
  <2>1. DOMAIN r.vertices = DOMAIN b.vertices
    BY <1>2, Sizes
  <2> QED BY <2>1, <1>4, <1>6, <1>23
<1>26. \A x \in K : Ends(r.halfEdges[x]) = Ends(b.halfEdges[x])
  BY <1>13 DEF Ends
<1>27. \A x \in LiveEdges(r) : Ends(r.halfEdges[x]) \subseteq LiveVertices(r)
  BY <1>8, <1>9, <1>24, <1>25, <1>26
<1>28. ASSUME LiveVertices(r) = DOMAIN r.vertices, NEW x \in LiveEdges(r), NEW u \in Ends(r.halfEdges[x])
       PROVE  x \in r.vertices[u].halfEdges
  <2>1. x \in LiveEdges(b) /\ x \notin Inside(b, q) /\ u \in Ends(b.halfEdges[x])
    BY <1>8, <1>9, <1>12, <1>26, <1>28
  <2>2. x \in b.vertices[u].halfEdges
    BY <1>24, <1>25, <1>28, <2>1
  <2>3. u \in 1..v
    BY <1>6, <1>27, <1>28
  <2> QED BY <1>23, <2>1, <2>2, <2>3
<1>29. ASSUME NEW u \in LiveVertices(r), NEW g \in r.vertices[u].halfEdges
       PROVE  g \in LiveEdges(r) \/ u \notin Ends(r.halfEdges[g])
  <2>1. u \in 1..v /\ u \in LiveVertices(b) /\ b.vertices[u].live
    BY <1>4, <1>6, <1>25
  <2>2. g \in b.vertices[u].halfEdges
    BY <1>23, <2>1
  <2>3. g \in 1..h
    BY <2>1, <2>2, VertexFields
  <2>4. CASE g \in Inside(b, q)
    BY <1>6, <1>23, <2>1, <2>3, <2>4
  <2>5. CASE g \notin Inside(b, q)
    <3>1. /\ r.halfEdges[g].live = b.halfEdges[g].live
          /\ Ends(r.halfEdges[g]) = Ends(b.halfEdges[g])
      BY <1>11, <2>3, <2>5 DEF Ends
    <3>2. g \in LiveEdges(b) \/ u \notin Ends(b.halfEdges[g])
      BY <1>24, <2>1, <2>2
    <3>3. g \in LiveEdges(b) => g \in K
      BY <1>10, <2>5 DEF Inside
    <3> QED BY <1>8, <3>1, <3>2, <3>3
  <2> QED BY <2>4, <2>5
<1>30. NotedOK(r)
  BY <1>27, <1>28, <1>29, Zenon DEF NotedOK
<1>31. LoopsOK(r, FALSE)
  BY <1>17, <1>18, <1>21, <1>22, Zenon DEF LoopsOK
<1> QED BY <1>30, <1>31 DEF r, m

(* Removing a polygon keeps the loops. *)
LEMMA RemovePolygonLoops == LoopInv /\ RemovePolygon => LoopInv'
<1> SUFFICES ASSUME LoopInv, RemovePolygon PROVE LoopInv'
  OBVIOUS
<1>1. RingInv /\ RingInv'
  BY RemovePolygonRings DEF LoopInv
<1>2. PICK v \in Nat, h \in Nat, p \in Nat : mesh \in Meshes(v, h, p)
  BY <1>1, Zenon DEF RingInv, TypeInv, IsMesh
<1>3. PICK q \in DOMAIN mesh.polygons : mesh' = Emptied(Removed(mesh, q), q)
  BY Zenon DEF RemovePolygon, polygons, Removed, Emptied
<1>4. q \in 1..p
  BY <1>2, <1>3, Sizes
<1>5. torn' = (torn \/ fanned) /\ fanned' = fanned
  BY DEF RemovePolygon
<1>6. ASSUME ~torn' PROVE LoopsOK(mesh', fanned') /\ NotedOK(mesh')
  <2>1. ~torn /\ ~fanned
    BY <1>5, <1>6
  <2>2. fanned = FALSE
    <3>1. fanned \in BOOLEAN
      BY <1>1 DEF RingInv, TypeInv
    <3> QED BY <2>1, <3>1
  <2>3. LoopsOK(mesh, FALSE) /\ NotedOK(mesh)
    BY <2>1, <2>2 DEF LoopInv
  <2> QED BY <1>2, <1>3, <1>4, <1>5, <2>2, <2>3, RemovedOK
<1> QED BY <1>1, <1>6, Zenon DEF LoopInv

(* Every step keeps the loops. *)
LEMMA NextLoops ==
  ASSUME MaybeDeleted = FALSE
  PROVE  LoopInv /\ [Next]_vars => LoopInv'
<1> SUFFICES ASSUME LoopInv, [Next]_vars PROVE LoopInv'
  OBVIOUS
<1>1. CASE UNCHANGED vars
  <2>1. RingInv'
    BY <1>1, NextRings DEF LoopInv
  <2>2. mesh' = mesh /\ fanned' = fanned /\ torn' = torn
    BY <1>1 DEF vars
  <2> QED BY <2>1, <2>2 DEF LoopInv
<1> QED
  BY <1>1, AddVertexLoops, AddPolygonLoops, WeldLoops, UpdateKeepsLoops, TriangulateLoops,
     TransformLoops, UpdateEditStateLoops, RemovePolygonLoops DEF Next

(* LoopInv is an invariant. *)
LEMMA Loops ==
  ASSUME MaybeDeleted = FALSE
  PROVE  Spec => []LoopInv
<1>1. Init => LoopInv
  BY InitLoops
<1>2. LoopInv /\ [Next]_vars => LoopInv'
  BY NextLoops
<1> QED BY <1>1, <1>2, PTL DEF Spec

(* Where the memory of new point reps does not happen to read as a
   deletion, the half edges of every polygon are one closed loop from
   corner to corner, whatever was added, welded, repacked, triangulated and
   removed before, and in whatever order. *)
THEOREM LoopsHold ==
  ASSUME MaybeDeleted = FALSE
  PROVE  Spec => []LoopsClose
<1>1. Spec => []LoopInv
  BY Loops
<1>2. LoopInv => LoopsClose
  BY LoopInvGives
<1> QED BY <1>1, <1>2, PTL

-----------------------------------------------------------------------------
(* Pairs *)

(* What pairs there are in r are mutual, and along one edge of m. *)
PairsMutual(h, m, r) ==
  \A x \in 1..h : r.halfEdges[x].pair # 0 =>
    /\ x \in LiveEdges(m) /\ r.halfEdges[x].pair \in LiveEdges(m) \ {x}
    /\ r.halfEdges[r.halfEdges[x].pair].pair = x
    /\ Ends(m.halfEdges[r.halfEdges[x].pair]) = Ends(m.halfEdges[x])

(* No half edge could be the pair of x. *)
NoneLeft(m, r, x) ==
  r.halfEdges[x].pair = 0 =>
    \A g \in LiveEdges(m) \ {x} :
      Ends(m.halfEdges[g]) = Ends(m.halfEdges[x]) => r.halfEdges[g].pair # 0

(* All that holds with the first k half edges of L paired. *)
PairedSoFar(h, m, L, k, r) ==
  /\ ButPairs(h, m, r) /\ PairsMutual(h, m, r)
  /\ LiveVertices(m) = DOMAIN m.vertices => \A i \in 1..k : NoneLeft(m, r, L[i])

(* Where pairing finds another half edge, it is one that is not deleted. *)
LEMMA MatchesAre ==
  ASSUME NEW v \in Nat, NEW h \in Nat, NEW p \in Nat, NEW m \in Meshes(v, h, p), NotedOK(m),
         NEW r \in Meshes(v, h, p), ButPairs(h, m, r), NEW x \in LiveEdges(m)
  PROVE  /\ 0 \notin Ends(r.halfEdges[x])
         /\ \A g \in Matches(r, x) :
              /\ g \in LiveEdges(m) \ {x} /\ r.halfEdges[g].pair = 0
              /\ Ends(m.halfEdges[g]) = Ends(m.halfEdges[x])
         /\ LiveVertices(m) = DOMAIN m.vertices =>
              \A g \in LiveEdges(m) \ {x} :
                Ends(m.halfEdges[g]) = Ends(m.halfEdges[x]) /\ r.halfEdges[g].pair = 0 =>
                  g \in Matches(r, x)
<1>1. /\ LiveVertices(m) \subseteq 1..v /\ LiveEdges(m) \subseteq 1..h
  BY LiveAre
<1>2. /\ r.vertices = m.vertices
      /\ \A y \in 1..h : /\ r.halfEdges[y].start = m.halfEdges[y].start
                         /\ r.halfEdges[y].end = m.halfEdges[y].end
  BY Zenon DEF ButPairs
<1>3. \A y \in 1..h : Ends(r.halfEdges[y]) = Ends(m.halfEdges[y])
  BY <1>2 DEF Ends
<1>4. /\ \A y \in LiveEdges(m) : Ends(m.halfEdges[y]) \subseteq LiveVertices(m)
      /\ LiveVertices(m) = DOMAIN m.vertices =>
           \A y \in LiveEdges(m) : \A u \in Ends(m.halfEdges[y]) : y \in m.vertices[u].halfEdges
      /\ \A u \in LiveVertices(m) : \A g \in m.vertices[u].halfEdges :
           g \in LiveEdges(m) \/ u \notin Ends(m.halfEdges[g])
  BY Zenon DEF NotedOK
<1> DEFINE w == Min(Ends(m.halfEdges[x]))
<1>5. Ends(m.halfEdges[x]) \subseteq 1..v /\ Ends(m.halfEdges[x]) # {}
  BY <1>1, <1>4 DEF Ends
<1>6. w \in Ends(m.halfEdges[x])
  <2>1. Ends(m.halfEdges[x]) \subseteq Nat
    BY <1>5
  <2> HIDE DEF w
  <2> QED BY <1>5, <2>1, MinIsLeast DEF w
<1> HIDE DEF w
<1>7. w \in LiveVertices(m) /\ w \in 1..v
  BY <1>1, <1>4, <1>6
<1>8. \A g : g \in Matches(r, x) <=> /\ g \in m.vertices[w].halfEdges \ {x} /\ r.halfEdges[g].pair = 0
                                     /\ Ends(r.halfEdges[g]) = Ends(m.halfEdges[x])
  BY <1>1, <1>2, <1>3 DEF Matches, w
<1>9. 0 \notin Ends(r.halfEdges[x])
  BY <1>1, <1>3, <1>5
<1>10. ASSUME NEW g \in Matches(r, x)
       PROVE  /\ g \in LiveEdges(m) \ {x} /\ r.halfEdges[g].pair = 0
              /\ Ends(m.halfEdges[g]) = Ends(m.halfEdges[x])
  <2>1. /\ g \in m.vertices[w].halfEdges /\ g # x /\ r.halfEdges[g].pair = 0
        /\ Ends(r.halfEdges[g]) = Ends(m.halfEdges[x])
    BY <1>8
  <2>2. g \in 1..h
    BY <1>7, <2>1, VertexFields
  <2>3. Ends(m.halfEdges[g]) = Ends(m.halfEdges[x])
    BY <1>3, <2>1, <2>2
  <2> QED BY <1>4, <1>6, <1>7, <2>1, <2>3
<1>11. ASSUME LiveVertices(m) = DOMAIN m.vertices, NEW g \in LiveEdges(m) \ {x},
              Ends(m.halfEdges[g]) = Ends(m.halfEdges[x]), r.halfEdges[g].pair = 0
       PROVE  g \in Matches(r, x)
  <2>1. g \in m.vertices[w].halfEdges
    BY <1>4, <1>6, <1>11
  <2>2. Ends(r.halfEdges[g]) = Ends(m.halfEdges[x])
    BY <1>1, <1>3, <1>11
  <2> QED BY <1>8, <1>11, <2>1, <2>2
<1> QED BY <1>9, <1>10, <1>11

(* One half edge more paired: pairs stay mutual, and nothing that is left
   matches what was visited. *)
LEMMA PairedOnce ==
  ASSUME NEW v \in Nat, NEW h \in Nat, NEW p \in Nat, NEW m \in Meshes(v, h, p), NotedOK(m),
         NEW r \in Meshes(v, h, p), NEW n \in Nat, NEW L \in [1..n -> LiveEdges(m)], NEW k \in 1..n,
         PairedSoFar(h, m, L, k - 1, r)
  PROVE  PairedSoFar(h, m, L, k, Paired(r, L[k]))
<1> DEFINE x == L[k]
           s == Paired(r, x)
           all == LiveVertices(m) = DOMAIN m.vertices
           same(g, y) == Ends(m.halfEdges[g]) = Ends(m.halfEdges[y])
           pair(y) == r.halfEdges[y].pair
           new(y) == s.halfEdges[y].pair
<1>1. /\ ButPairs(h, m, r) /\ PairsMutual(h, m, r)
      /\ all => \A i \in 1..k-1 : NoneLeft(m, r, L[i])
  BY Zenon DEF PairedSoFar
<1>2. LiveEdges(m) \subseteq 1..h
  BY LiveAre
<1>3. x \in LiveEdges(m) /\ x \in 1..h
  BY <1>2
<1>4. \A i \in 1..k : i \in 1..k-1 \/ i = k
  OBVIOUS
<1>5. \A i \in 1..k : L[i] \in LiveEdges(m)
  OBVIOUS
<1> HIDE DEF x, all
<1>6. /\ 0 \notin Ends(r.halfEdges[x])
      /\ \A g \in Matches(r, x) : g \in LiveEdges(m) \ {x} /\ pair(g) = 0 /\ same(g, x)
      /\ all => \A g \in LiveEdges(m) \ {x} : same(g, x) /\ pair(g) = 0 => g \in Matches(r, x)
  BY <1>1, <1>3, MatchesAre DEF all
<1>7. /\ s \in Meshes(v, h, p)
      /\ \/ s = r /\ (pair(x) # 0 \/ Matches(r, x) = {})
         \/ pair(x) = 0 /\ \E g \in Matches(r, x) : IsPaired(h, r, x, g, s)
  BY <1>3, <1>6, PairedIs
<1>8. CASE s = r /\ (pair(x) # 0 \/ Matches(r, x) = {})
  <2>1. ASSUME all, NEW i \in 1..k PROVE NoneLeft(m, r, L[i])
    <3>1. CASE i = k
      <4>1. L[i] = x
        BY <3>1 DEF x
      <4>2. NoneLeft(m, r, x)
        BY <1>6, <1>8, <2>1 DEF NoneLeft
      <4> QED BY <4>1, <4>2
    <3> QED BY <1>1, <1>4, <2>1, <3>1
  <2>2. PairedSoFar(h, m, L, k, r)
    BY <1>1, <2>1, Zenon DEF PairedSoFar, all
  <2> QED BY <1>8, <2>2 DEF x
<1>9. CASE pair(x) = 0 /\ \E g \in Matches(r, x) : IsPaired(h, r, x, g, s)
  <2>1. PICK g \in Matches(r, x) : IsPaired(h, r, x, g, s)
    BY <1>9
  <2>2. g \in LiveEdges(m) /\ g # x /\ g \in 1..h /\ pair(g) = 0 /\ same(g, x)
    BY <1>2, <1>6
  <2> HIDE DEF s, same
  <2>3. /\ ButPairs(h, r, s)
        /\ \A y \in 1..h : s.halfEdges[y].pair = IF y = g THEN x ELSE IF y = x THEN g ELSE r.halfEdges[y].pair
    BY <1>3, <1>7, <2>1, <2>2, PairedButPairs
  <2>4. ButPairs(h, m, s)
    BY <1>1, <2>3, ButPairsTwice
  <2>5. \A y \in 1..h : new(y) = IF y = g THEN x ELSE IF y = x THEN g ELSE pair(y)
    BY <2>3
  <2>6. \A y \in 1..h : pair(y) # 0 => /\ y \in LiveEdges(m) /\ pair(y) \in LiveEdges(m) \ {y}
                                       /\ pair(pair(y)) = y /\ same(pair(y), y)
    BY <1>1, Zenon DEF PairsMutual, same
  <2>7. 0 \notin 1..h
    OBVIOUS
  <2> HIDE DEF pair, new
  <2>8. ASSUME NEW y \in 1..h, new(y) # 0
        PROVE  /\ y \in LiveEdges(m) /\ new(y) \in LiveEdges(m) \ {y}
               /\ new(new(y)) = y /\ same(new(y), y)
    <3>1. CASE y = g
      BY <1>3, <2>2, <2>5, <3>1 DEF same
    <3>2. CASE y = x
      BY <1>3, <2>2, <2>5, <3>2 DEF same
    <3>3. CASE y # g /\ y # x
      <4>1. new(y) = pair(y)
        BY <2>5, <3>3
      <4>2. /\ y \in LiveEdges(m) /\ pair(y) \in LiveEdges(m) \ {y}
            /\ pair(pair(y)) = y /\ same(pair(y), y)
        BY <2>6, <2>8, <4>1
      <4>3. pair(y) # g /\ pair(y) # x
        BY <1>9, <2>2, <2>7, <4>2
      <4>4. new(pair(y)) = y
        BY <1>2, <2>5, <4>2, <4>3
      <4> QED BY <4>1, <4>2, <4>4
    <3> QED BY <3>1, <3>2, <3>3
  <2>9. PairsMutual(h, m, s)
    BY <2>8, Zenon DEF PairsMutual, new, same
  <2>10. \A y \in 1..h : pair(y) # 0 => new(y) # 0
    BY <1>3, <2>2, <2>5, <2>7
  <2>11. new(x) # 0
    BY <1>3, <2>2, <2>5, <2>7
  <2>12. ASSUME all, NEW i \in 1..k PROVE NoneLeft(m, s, L[i])
    <3>1. CASE i = k
      <4>1. L[i] = x
        BY <3>1 DEF x
      <4>2. NoneLeft(m, s, x)
        BY <2>11 DEF NoneLeft, new
      <4> QED BY <4>1, <4>2
    <3>2. CASE i # k
      <4>1. NoneLeft(m, r, L[i]) /\ L[i] \in 1..h
        BY <1>1, <1>2, <1>4, <1>5, <2>12, <3>2
      <4>2. pair(L[i]) = 0 => \A y \in LiveEdges(m) \ {L[i]} : same(y, L[i]) => pair(y) # 0
        BY <4>1, Zenon DEF NoneLeft, pair, same
      <4>3. new(L[i]) = 0 => \A y \in LiveEdges(m) \ {L[i]} : same(y, L[i]) => new(y) # 0
        BY <1>2, <2>10, <4>1, <4>2
      <4> QED BY <4>3, Zenon DEF NoneLeft, new, same
    <3> QED BY <3>1, <3>2
  <2>13. PairedSoFar(h, m, L, k, s)
    BY <2>4, <2>9, <2>12, Zenon DEF PairedSoFar, all
  <2> QED BY <2>13 DEF s, x
<1> QED BY <1>7, <1>8, <1>9

(* Every half edge that is not deleted is visited. *)
LEMMA AllVisited ==
  ASSUME NEW v \in Nat, NEW h \in Nat, NEW p \in Nat, NEW m \in Meshes(v, h, p),
         NEW stale, LoopsOK(m, stale), NEW x \in LiveEdges(m)
  PROVE  \E i \in 1..Len(Visited(m)) : Visited(m)[i] = x
<1> DEFINE q == m.halfEdges[x].polygon
<1>1. q \in DOMAIN m.polygons /\ m.polygons[q].live
  <2>1. OwnersOK(m)
    BY Zenon DEF LoopsOK
  <2>2. q \in DOMAIN m.polygons /\ m.polygons[q].any # Invalid
    BY <2>1, Zenon DEF OwnersOK
  <2>3. m.polygons[q].live
    BY <2>1, <2>2, Zenon DEF OwnersOK
  <2> QED BY <2>2, <2>3
<1>2. q \in 1..p /\ m.halfEdges[x].polygon = q
  BY <1>1, Sizes
<1> HIDE DEF q
<1>3. HasItsOwn(m, q, Loop(m, q))
  BY <1>2, LoopHasAll
<1>4. PICK k \in 1..Len(Loop(m, q)) : Loop(m, q)[k] = x
  BY <1>2, <1>3, Zenon DEF HasItsOwn
<1>5. \A d \in 1..p : m.polygons[d].live =>
        \A j \in 1..Len(Loop(m, d)) :
          \E i \in 1..Len(Visited(m)) : Visited(m)[i] = Loop(m, d)[j]
  BY VisitedAre
<1>6. \E i \in 1..Len(Visited(m)) : Visited(m)[i] = Loop(m, q)[k]
  BY <1>1, <1>2, <1>5, Zenon
<1> QED BY <1>4, <1>6

(* The pairs after connecting. *)
PairsOK(m) ==
  \A x \in LiveEdges(m) : m.halfEdges[x].pair # 0 =>
    /\ m.halfEdges[x].pair # x /\ m.halfEdges[m.halfEdges[x].pair].live
    /\ m.halfEdges[m.halfEdges[x].pair].pair = x
    /\ Ends(m.halfEdges[m.halfEdges[x].pair]) = Ends(m.halfEdges[x])

(* No two half edges that are left without a pair have the same ends. *)
NoMorePairs(m) ==
  \A x, g \in LiveEdges(m) :
    x # g /\ m.halfEdges[x].pair = 0 /\ m.halfEdges[g].pair = 0 =>
      Ends(m.halfEdges[g]) # Ends(m.halfEdges[x])

(* After connectPairs pairs are mutual and have the same ends; where
   no vertex was deleted, no two that could be paired are left. *)
LEMMA ConnectedPairs ==
  ASSUME NEW v \in Nat, NEW h \in Nat, NEW p \in Nat, NEW m \in Meshes(v, h, p),
         NEW stale, LoopsOK(m, stale), NotedOK(m)
  PROVE  /\ PairsOK(Connected(m))
         /\ LiveVertices(m) = DOMAIN m.vertices => NoMorePairs(Connected(m))
<1> DEFINE L == Visited(m)
           n == Len(L)
           D == Meshes(v, h, p)
           R == {x \in (0..n) \X D : PairedSoFar(h, m, L, x[1], x[2])}
           r == Connected(m)
<1>1. n \in Nat /\ r \in D
  BY ConnectedIs, Zenon
<1>2. L \in [1..n -> LiveEdges(m)]
  <2>1. L \in Seq(1..h) /\ \A i \in 1..n : L[i] \in LiveEdges(m)
    BY VisitedAre
  <2> HIDE DEF L
  <2>2. L = [i \in 1..n |-> L[i]]
    BY <2>1
  <2> HIDE DEF n
  <2> QED BY <2>1, <2>2
<1>3. Unpaired(m) \in D /\ ButPairs(h, m, Unpaired(m)) /\ \A x \in 1..h : Unpaired(m).halfEdges[x].pair = 0
  BY UnpairedIs, UnpairedButPairs
<1>4. PairsKept(v, h, p, m, R)
  <2>1. <<0, Unpaired(m)>> \in R
    <3>1. PairsMutual(h, m, Unpaired(m))
      BY <1>3, Zenon DEF PairsMutual
    <3>2. \A i \in 1..0 : NoneLeft(m, Unpaired(m), L[i])
      OBVIOUS
    <3>3. PairedSoFar(h, m, L, 0, Unpaired(m))
      BY <1>3, <3>1, <3>2, Zenon DEF PairedSoFar
    <3>4. 0 \in 0..n
      BY <1>1
    <3> HIDE DEF L, n, D
    <3> QED BY <1>3, <3>3, <3>4
  <2>2. ASSUME NEW k \in 1..n, NEW a \in D, <<k-1, a>> \in R
        PROVE  <<k, Paired(a, L[k])>> \in R
    <3>1. PairedSoFar(h, m, L, k - 1, a)
      BY <2>2
    <3> HIDE DEF L, n
    <3>2. PairedSoFar(h, m, L, k, Paired(a, L[k]))
      BY <1>1, <1>2, <3>1, PairedOnce
    <3>3. Paired(a, L[k]) \in D
      <4>1. L[k] \in 1..h
        BY <1>2, LiveAre
      <4> QED BY <4>1, PairedIs
    <3>4. k \in 0..n
      BY <1>1
    <3> HIDE DEF D
    <3> QED BY <3>2, <3>3, <3>4
  <2> HIDE DEF R
  <2> QED BY <2>1, <2>2, Zenon DEF PairsKept
<1>5. <<n, r>> \in R
  <2> HIDE DEF R
  <2> QED BY <1>4, ConnectedKeeps
<1> HIDE DEF L, n, r
<1>6. PairedSoFar(h, m, L, n, r)
  BY <1>5
<1> HIDE DEF R
<1>7. /\ ButPairs(h, m, r) /\ PairsMutual(h, m, r)
      /\ LiveVertices(m) = DOMAIN m.vertices => \A i \in 1..n : NoneLeft(m, r, L[i])
  BY <1>6, Zenon DEF PairedSoFar
<1>8. LiveEdges(m) \subseteq 1..h /\ \A x \in 1..h : x \in LiveEdges(m) <=> m.halfEdges[x].live
  BY LiveAre
<1>9. \A x \in 1..h : /\ r.halfEdges[x].live = m.halfEdges[x].live
                      /\ Ends(r.halfEdges[x]) = Ends(m.halfEdges[x])
  <2>1. \A x \in 1..h : /\ r.halfEdges[x].live = m.halfEdges[x].live
                        /\ r.halfEdges[x].start = m.halfEdges[x].start
                        /\ r.halfEdges[x].end = m.halfEdges[x].end
    BY <1>7, Zenon DEF ButPairs
  <2> QED BY <2>1 DEF Ends
<1>10. LiveEdges(r) = LiveEdges(m)
  <2>1. LiveEdges(r) \subseteq 1..h /\ \A x \in 1..h : x \in LiveEdges(r) <=> r.halfEdges[x].live
    BY <1>1, LiveAre
  <2> QED BY <2>1, <1>8, <1>9
<1>11. PairsOK(r)
  <2>1. ASSUME NEW x \in LiveEdges(r), r.halfEdges[x].pair # 0
        PROVE  /\ r.halfEdges[x].pair # x /\ r.halfEdges[r.halfEdges[x].pair].live
               /\ r.halfEdges[r.halfEdges[x].pair].pair = x
               /\ Ends(r.halfEdges[r.halfEdges[x].pair]) = Ends(r.halfEdges[x])
    <3>1. x \in 1..h
      BY <1>8, <1>10
    <3>2. /\ r.halfEdges[x].pair \in LiveEdges(m) \ {x}
          /\ r.halfEdges[r.halfEdges[x].pair].pair = x
          /\ Ends(m.halfEdges[r.halfEdges[x].pair]) = Ends(m.halfEdges[x])
      BY <1>7, <2>1, <3>1, Zenon DEF PairsMutual
    <3> QED BY <1>8, <1>9, <3>1, <3>2
  <2> QED BY <2>1, Zenon DEF PairsOK
<1>12. ASSUME LiveVertices(m) = DOMAIN m.vertices PROVE NoMorePairs(r)
  <2>1. ASSUME NEW x \in LiveEdges(r), NEW g \in LiveEdges(r), x # g,
               r.halfEdges[x].pair = 0, r.halfEdges[g].pair = 0
        PROVE  Ends(r.halfEdges[g]) # Ends(r.halfEdges[x])
    <3>1. PICK i \in 1..n : L[i] = x
      <4>1. x \in LiveEdges(m)
        BY <1>10
      <4>2. \E i \in 1..n : L[i] = x
        BY <4>1, AllVisited DEF L, n
      <4> QED BY <4>2
    <3>2. NoneLeft(m, r, x)
      BY <1>7, <1>12, <3>1
    <3>3. g \in LiveEdges(m) \ {x} /\ g \in 1..h /\ x \in 1..h
      BY <1>8, <1>10, <2>1
    <3>4. Ends(m.halfEdges[g]) # Ends(m.halfEdges[x])
      BY <2>1, <3>2, <3>3, Zenon DEF NoneLeft
    <3> QED BY <1>9, <3>3, <3>4
  <2> QED BY <2>1, Zenon DEF NoMorePairs
<1> QED BY <1>11, <1>12 DEF r

(* What an update leaves is paired, if it derives the pairs. *)
LEMMA UpdatePairs ==
  ASSUME MaybeDeleted = FALSE, TypeInv, RingOK(mesh), LoopsOK(mesh, fanned), NotedOK(mesh),
         NEW u \in Updates, Maintains
  PROVE  PairsOK(u.mesh) /\ (keepsPointReps => NoMorePairs(u.mesh))
<1>1. PICK v \in Nat, h \in Nat, p \in Nat : mesh \in Meshes(v, h, p)
  BY Zenon DEF TypeInv, IsMesh
<1>2. {keepsPointReps, hasPointReps, fanned} \subseteq BOOLEAN /\ IsMesh(mesh)
  BY DEF TypeInv
<1>3. ASSUME keepsPointReps, NEW kept \in BOOLEAN, NEW m \in PointRepsOf(mesh, kept),
             u.mesh = Connected(Repacked(m))
      PROVE  PairsOK(u.mesh) /\ NoMorePairs(u.mesh)
  <2>1. m \in Meshes(v, h, p) /\ RingOK(m) /\ ButRings(mesh, m)
    BY <1>1, <1>3, PointRepsOK, Zenon
  <2>2. /\ m.vertices = mesh.vertices /\ m.halfEdges = mesh.halfEdges
        /\ m.polygons = mesh.polygons
    BY <2>1, Zenon DEF ButRings
  <2>3. LoopsOK(m, fanned) /\ NotedOK(m)
    BY <2>2, LoopsOnly, NotedOnly
  <2> DEFINE r == Repacked(m)
  <2>4. /\ IsMesh(r) /\ (LoopsOK(r, fanned) \/ LoopsOK(r, FALSE)) /\ NotedOK(r)
        /\ LiveVertices(r) = DOMAIN r.vertices
    <3>1. CASE HasAll(m)
      <4>1. r = m
        BY <3>1, RepackedAll
      <4>2. LiveVertices(m) = DOMAIN m.vertices
        BY <3>1, Zenon DEF HasAll, LiveVertices
      <4> QED BY <2>1, <2>3, <4>1, <4>2, Zenon DEF IsMesh
    <3>2. CASE ~HasAll(m)
      <4>1. IsMesh(m)
        BY <2>1, Zenon DEF IsMesh
      <4>2. IsMesh(r)
        BY <4>1, RepackedIsMesh
      <4>3. LoopsOK(r, FALSE) /\ NotedOK(r) /\ LiveVertices(r) = DOMAIN r.vertices
        BY <2>1, <3>2, RepackedOK, Zenon
      <4> HIDE DEF r
      <4> QED BY <4>2, <4>3
    <3> QED BY <3>1, <3>2
  <2> HIDE DEF r
  <2>5. PICK a \in Nat, b \in Nat, c \in Nat : r \in Meshes(a, b, c)
    BY <2>4, Zenon DEF IsMesh
  <2>6. u.mesh = Connected(r)
    BY <1>3 DEF r
  <2>7. PairsOK(Connected(r)) /\ NoMorePairs(Connected(r))
    BY <2>4, <2>5, ConnectedPairs
  <2> QED BY <2>6, <2>7
<1>4. CASE ~keepsPointReps /\ u.mesh = Connected(mesh)
  <2>1. PairsOK(Connected(mesh))
    BY <1>1, ConnectedPairs
  <2> QED BY <2>1, <1>4
<1> QED BY <1>2, <1>3, <1>4, UpdatesAre

-----------------------------------------------------------------------------
(* Pairs of the reachable meshes *)

(* Pairs are right and complete after an update. *)
PairInv ==
  /\ LoopInv
  /\ op = "rebuild" /\ ~torn =>
       PairsOK(mesh) /\ (keepsPointReps => NoMorePairs(mesh))

(* The invariant is strong enough. *)
LEMMA PairInvGives == PairInv => PairsMatch
<1> SUFFICES ASSUME PairInv, op = "rebuild", ~torn, NEW x \in DOMAIN mesh.halfEdges,
                    mesh.halfEdges[x].live
             PROVE  LET e == mesh.halfEdges[x]
                    IN /\ e.pair # Invalid =>
                            /\ e.pair # x /\ mesh.halfEdges[e.pair].live
                            /\ mesh.halfEdges[e.pair].pair = x
                            /\ Ends(mesh.halfEdges[e.pair]) = Ends(e)
                       /\ e.pair = Invalid /\ keepsPointReps =>
                            \A g \in DOMAIN mesh.halfEdges \ {x} :
                              ~(/\ mesh.halfEdges[g].live /\ mesh.halfEdges[g].pair = Invalid
                                /\ Ends(mesh.halfEdges[g]) = Ends(e))
  BY Zenon DEF PairsMatch, halfEdges
<1>1. PairsOK(mesh) /\ (keepsPointReps => NoMorePairs(mesh))
  BY DEF PairInv
<1>2. x \in LiveEdges(mesh)
  BY DEF LiveEdges
<1>3. mesh.halfEdges[x].pair # 0 =>
        /\ mesh.halfEdges[x].pair # x /\ mesh.halfEdges[mesh.halfEdges[x].pair].live
        /\ mesh.halfEdges[mesh.halfEdges[x].pair].pair = x
        /\ Ends(mesh.halfEdges[mesh.halfEdges[x].pair]) = Ends(mesh.halfEdges[x])
  BY <1>1, <1>2, Zenon DEF PairsOK
<1>4. ASSUME keepsPointReps, mesh.halfEdges[x].pair = 0,
             NEW g \in DOMAIN mesh.halfEdges \ {x}, mesh.halfEdges[g].live, mesh.halfEdges[g].pair = 0
      PROVE  Ends(mesh.halfEdges[g]) # Ends(mesh.halfEdges[x])
  <2>1. g \in LiveEdges(mesh) /\ x # g
    BY <1>4 DEF LiveEdges
  <2>2. NoMorePairs(mesh)
    BY <1>1, <1>4
  <2> QED BY <1>2, <1>4, <2>1, <2>2, Zenon DEF NoMorePairs
<1> QED BY <1>3, <1>4 DEF Invalid

(* updateFromEdits pairs last, so what it leaves is paired. *)
LEMMA UpdateKeepsPairs ==
  ASSUME MaybeDeleted = FALSE
  PROVE  PairInv /\ Update => PairInv'
<1> SUFFICES ASSUME PairInv, Update PROVE PairInv'
  OBVIOUS
<1>1. PICK u \in Updates : mesh' = u.mesh
  BY DEF Update
<1>2. /\ torn' = torn /\ keepsPointReps' = keepsPointReps
      /\ op' = IF Maintains THEN "rebuild" ELSE "update"
  BY DEF Update
<1>3. LoopInv /\ LoopInv'
  BY UpdateKeepsLoops DEF PairInv
<1>4. TypeInv /\ RingOK(mesh)
  BY <1>3, Zenon DEF LoopInv, RingInv
<1>5. ASSUME op' = "rebuild", ~torn'
      PROVE  PairsOK(mesh') /\ (keepsPointReps' => NoMorePairs(mesh'))
  <2>1. Maintains
    BY <1>2, <1>5
  <2>2. LoopsOK(mesh, fanned) /\ NotedOK(mesh)
    BY <1>2, <1>3, <1>5 DEF LoopInv
  <2>3. PairsOK(u.mesh) /\ (keepsPointReps => NoMorePairs(u.mesh))
    BY <1>4, <2>1, <2>2, UpdatePairs
  <2> QED BY <1>1, <1>2, <2>3
<1> QED BY <1>3, <1>5, Zenon DEF PairInv

(* Every step keeps the pairs, or leaves a mesh whose pairs are not up to
   date. *)
LEMMA NextPairs ==
  ASSUME MaybeDeleted = FALSE
  PROVE  PairInv /\ [Next]_vars => PairInv'
<1> SUFFICES ASSUME PairInv, [Next]_vars PROVE PairInv'
  OBVIOUS
<1>1. LoopInv'
  BY NextLoops DEF PairInv
<1>2. CASE UNCHANGED vars
  <2>1. mesh' = mesh /\ op' = op /\ torn' = torn /\ keepsPointReps' = keepsPointReps
    BY <1>2 DEF vars
  <2> QED BY <1>1, <2>1 DEF PairInv
<1>3. CASE Update
  BY <1>3, UpdateKeepsPairs
<1>4. CASE \/ AddVertex \/ AddPolygon \/ Weld \/ Triangulate \/ Transform \/ UpdateEditState
           \/ RemovePolygon
  <2>1. op' # "rebuild"
    BY <1>4 DEF AddVertex, AddPolygon, Weld, Triangulate, Transform, UpdateEditState, RemovePolygon
  <2> QED BY <1>1, <2>1 DEF PairInv
<1> QED BY <1>2, <1>3, <1>4 DEF Next

(* PairInv is an invariant. *)
LEMMA Pairs ==
  ASSUME MaybeDeleted = FALSE
  PROVE  Spec => []PairInv
<1>1. Init => PairInv
  <2>1. Init => LoopInv
    BY InitLoops
  <2>2. Init => op = "new"
    BY DEF Init
  <2> QED BY <2>1, <2>2 DEF PairInv
<1>2. PairInv /\ [Next]_vars => PairInv'
  BY NextPairs
<1> QED BY <1>1, <1>2, PTL DEF Spec

(* Where the memory of new point reps does not happen to read as a
   deletion, what updateFromEdits leaves is paired: pairs are mutual and
   along one edge, and where the mesh keeps point reps no two half edges
   are left that could be a pair. *)
THEOREM PairsHold ==
  ASSUME MaybeDeleted = FALSE
  PROVE  Spec => []PairsMatch
<1>1. Spec => []PairInv
  BY Pairs
<1>2. PairInv => PairsMatch
  BY PairInvGives
<1> QED BY <1>1, <1>2, PTL

=============================================================================
