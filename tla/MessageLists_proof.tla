-------------------------- MODULE MessageLists_proof --------------------------
(***************************************************************************)
(* What filtering and sorting a list do to it, for any list: the lemmas the   *)
(* proofs about the chat pages share.                                        *)
(***************************************************************************)
EXTENDS MessageLists, FiniteSetTheorems, TLAPS

-----------------------------------------------------------------------------
(* Lists in the order of their elements.                                     *)

\* How many elements of S are before m in the order R.
Rank(S, R, m) == Cardinality({n \in S : <<n, m>> \in R})

\* R is a strict total order of S.
Orders(R, S) ==
  /\ \A x \in S : <<x, x>> \notin R
  /\ \A x, y, z \in S : <<x, y>> \in R /\ <<y, z>> \in R => <<x, z>> \in R
  /\ \A x, y \in S : x # y => <<x, y>> \in R \/ <<y, x>> \in R

\* In a finite set with a strict total order the elements' ranks are 0, 1, ...
LEMMA RanksFill ==
  ASSUME NEW S, IsFiniteSet(S), NEW R, Orders(R, S)
  PROVE  /\ \A m \in S : Rank(S, R, m) \in 0..(Cardinality(S) - 1)
         /\ \A m, n \in S : <<m, n>> \in R => Rank(S, R, m) < Rank(S, R, n)
         /\ \A m, n \in S : Rank(S, R, m) = Rank(S, R, n) => m = n
         /\ \A k \in 0..(Cardinality(S) - 1) : \E m \in S : Rank(S, R, m) = k
<1> DEFINE below(m) == {n \in S : <<n, m>> \in R}
           rank(m) == Rank(S, R, m)
           C == Cardinality(S)
<1>0. C \in Nat
  BY FS_CardinalityType
<1>1. \A m \in S : IsFiniteSet(below(m)) /\ rank(m) \in 0..(C - 1)
  <2> TAKE m \in S
  <2>1. below(m) \subseteq S /\ below(m) # S
    BY DEF Orders
  <2>2. /\ IsFiniteSet(below(m)) /\ Cardinality(below(m)) \in Nat
        /\ Cardinality(below(m)) <= C /\ Cardinality(below(m)) # C
    BY <2>1, FS_Subset, FS_CardinalityType
  <2>3. rank(m) = Cardinality(below(m))
    BY DEF Rank
  <2> QED
    BY <1>0, <2>2, <2>3
<1>2. \A m, n \in S : <<m, n>> \in R => rank(m) < rank(n)
  <2> SUFFICES ASSUME NEW m \in S, NEW n \in S, <<m, n>> \in R
               PROVE  rank(m) < rank(n)
    OBVIOUS
  <2>1. below(m) \subseteq below(n) /\ below(m) # below(n)
    BY DEF Orders
  <2>2. Cardinality(below(m)) <= Cardinality(below(n)) /\ Cardinality(below(m)) # Cardinality(below(n))
    BY <1>1, <2>1, FS_Subset
  <2>3. rank(m) <= rank(n) /\ rank(m) # rank(n)
    BY <2>2 DEF Rank
  <2> HIDE DEF rank, C, below
  <2>4. rank(m) \in Nat /\ rank(n) \in Nat
    BY <1>0, <1>1
  <2> QED
    BY <2>3, <2>4
<1> HIDE DEF rank, below, C
<1>3. \A m, n \in S : rank(m) = rank(n) => m = n
  <2> SUFFICES ASSUME NEW m \in S, NEW n \in S, m # n PROVE rank(m) # rank(n)
    OBVIOUS
  <2>1. rank(m) \in Nat /\ rank(n) \in Nat
    BY <1>0, <1>1
  <2>2. rank(m) < rank(n) \/ rank(n) < rank(m)
    BY <1>2 DEF Orders
  <2> QED
    BY <2>1, <2>2
<1> USE DEF C
<1> DEFINE f == [m \in S |-> rank(m)]
           Ranks == {rank(m) : m \in S}
<1>4. f \in Injection(S, Ranks)
  BY <1>3 DEF Injection, IsInjective
<1>5. f \in Surjection(S, Ranks)
  BY DEF Surjection
<1> HIDE DEF f
<1>6. IsFiniteSet(Ranks) /\ Cardinality(Ranks) = C
  <2>1. IsFiniteSet(Ranks) /\ Cardinality(Ranks) <= C
    BY <1>5, FS_Surjection
  <2>2. C <= Cardinality(Ranks)
    BY <1>4, <2>1, FS_Injection
  <2>3. Cardinality(Ranks) \in Nat
    BY <2>1, FS_CardinalityType
  <2> HIDE DEF Ranks
  <2> QED
    BY <1>0, <2>1, <2>2, <2>3
<1>7. Ranks = 0..(C - 1)
  <2>1. IsFiniteSet(0..(C - 1)) /\ Cardinality(0..(C - 1)) = C
    <3>1. 0 \in Int /\ C - 1 \in Int
      BY <1>0
    <3> HIDE DEF C
    <3>2. IsFiniteSet(0..(C - 1)) /\ Cardinality(0..(C - 1)) = IF 0 > C - 1 THEN 0 ELSE C - 1 - 0 + 1
      BY <3>1, FS_Interval
    <3> QED
      BY <1>0, <3>2
  <2>2. Ranks \subseteq 0..(C - 1)
    BY <1>1
  <2> HIDE DEF Ranks, C
  <2> QED
    BY <1>6, <2>1, <2>2, FS_Subset
<1> QED
  BY <1>1, <1>2, <1>3, <1>7 DEF rank

\* A finite set of numbers has a least one.
LEMMA Least ==
  ASSUME NEW S, S \subseteq Nat, IsFiniteSet(S), S # {}
  PROVE  \E m \in S : \A n \in S : m <= n
<1> DEFINE R == {p \in S \X S : p[1] < p[2]}
<1>1. \A i, j \in S : <<i, j>> \in R <=> i < j
  OBVIOUS
<1>2. Orders(R, S)
  BY <1>1 DEF Orders
<1>3. Cardinality(S) \in Nat /\ Cardinality(S) # 0
  BY FS_CardinalityType, FS_EmptySet
<1> HIDE DEF R
<1>4. PICK m \in S : Rank(S, R, m) = 0
  <2>1. 0 \in 0..(Cardinality(S) - 1)
    BY <1>3
  <2>2. /\ \A m \in S : Rank(S, R, m) \in 0..(Cardinality(S) - 1)
        /\ \A m, n \in S : <<m, n>> \in R => Rank(S, R, m) < Rank(S, R, n)
        /\ \A m, n \in S : Rank(S, R, m) = Rank(S, R, n) => m = n
        /\ \A k \in 0..(Cardinality(S) - 1) : \E m \in S : Rank(S, R, m) = k
    <3>1. IsFiniteSet(S)
      OBVIOUS
    <3> QED
      BY ONLY <1>2, <3>1, RanksFill
  <2> QED
    BY <2>1, <2>2
<1>5. ASSUME NEW n \in S, n < m PROVE FALSE
  <2>1. IsFiniteSet({x \in S : <<x, m>> \in R})
    BY FS_Subset
  <2>2. {x \in S : <<x, m>> \in R} = {}
    BY <1>4, <2>1, FS_EmptySet DEF Rank
  <2> QED
    BY <1>1, <1>5, <2>2
<1> QED
  BY <1>5

\* A set with 0 and the successor of each of its numbers up to N.
LEMMA Upwards ==
  ASSUME NEW N \in Nat, NEW T, 0 \in T, \A i \in 0..(N - 1) : i \in T => i + 1 \in T
  PROVE  \A i \in 0..N : i \in T
<1> DEFINE S == {i \in 0..N : i \notin T}
<1> SUFFICES ASSUME S # {} PROVE FALSE
  OBVIOUS
<1>1. IsFiniteSet(S) /\ S \subseteq Nat
  <2>1. IsFiniteSet(0..N)
    BY FS_Interval
  <2> QED
    BY <2>1, FS_Subset
<1>2. PICK m \in S : \A n \in S : m <= n
  <2> HIDE DEF S
  <2> QED
    BY <1>1, Least
<1>3. m # 0 /\ m - 1 \in 0..(N - 1) /\ m - 1 \notin S
  BY <1>2
<1> QED
  BY <1>2, <1>3

\* A list and the set of its elements.
LEMMA Lists ==
  ASSUME NEW M, NEW q \in Seq(M)
  PROVE  /\ IsFiniteSet(ToSet(q)) /\ ToSet(q) \subseteq M
         /\ q = <<>> <=> ToSet(q) = {}
         /\ \A m \in ToSet(q) : \E i \in 1..Len(q) : q[i] = m
         /\ \A i \in 1..Len(q) : q[i] \in ToSet(q)
<1>1. q \in [1..Len(q) -> M] /\ Len(q) \in Nat
  OBVIOUS
<1>2. q \in Surjection(1..Len(q), ToSet(q))
  BY <1>1 DEF Surjection, ToSet
<1>3. IsFiniteSet(1..Len(q))
  BY <1>1, FS_Interval
<1>4. IsFiniteSet(ToSet(q))
  BY <1>2, <1>3, FS_Surjection
<1> QED
  BY <1>1, <1>4 DEF ToSet

\* Filtering keeps the elements that are in S, and the order of their places.
LEMMA FilterPlaces ==
  ASSUME NEW M, NEW q \in Seq(M), NEW S
  PROVE  /\ Filter(q, S) \in Seq(M)
         /\ ToSet(Filter(q, S)) = ToSet(q) \cap S
         /\ \E at \in [1..Len(Filter(q, S)) -> 1..Len(q)] :
              /\ \A k \in 1..Len(Filter(q, S)) : Filter(q, S)[k] = q[at[k]] /\ q[at[k]] \in S
              /\ \A i, j \in 1..Len(Filter(q, S)) : i < j => at[i] < at[j]
<1> DEFINE kept == {i \in 1..Len(q) : q[i] \in S}
           R == {p \in kept \X kept : p[1] < p[2]}
           rank(i) == Rank(kept, R, i)
           C == Cardinality(kept)
           at == [k \in 1..C |-> CHOOSE i \in kept : Cardinality({j \in kept : j < i}) = k - 1]
           f == Filter(q, S)
<1>0. C \in Nat /\ IsFiniteSet(kept) /\ \A i \in kept : i \in 1..Len(q) /\ i \in Nat
  <2>1. IsFiniteSet(1..Len(q))
    BY FS_Interval
  <2> QED
    BY <2>1, FS_Subset, FS_CardinalityType
<1>1. \A i, j \in kept : <<i, j>> \in R <=> i < j
  OBVIOUS
<1>2. \A i \in kept : rank(i) = Cardinality({j \in kept : j < i})
  <2> TAKE i \in kept
  <2>1. {j \in kept : <<j, i>> \in R} = {j \in kept : j < i}
    BY <1>1
  <2> QED
    BY <2>1 DEF Rank
<1> HIDE DEF R
<1>3. /\ \A i, j \in kept : i < j => rank(i) < rank(j)
      /\ \A i, j \in kept : rank(i) = rank(j) => i = j
      /\ \A k \in 0..(C - 1) : \E i \in kept : rank(i) = k
      /\ \A i \in kept : rank(i) \in 0..(C - 1)
  <2>1. Orders(R, kept)
    <3> HIDE DEF kept
    <3> QED
      BY <1>0, <1>1 DEF Orders
  <2> HIDE DEF kept
  <2> QED
    <3> HIDE DEF rank
    <3>1. /\ \A m \in kept : rank(m) \in 0..(C - 1)
          /\ \A m, n \in kept : <<m, n>> \in R => rank(m) < rank(n)
          /\ \A m, n \in kept : rank(m) = rank(n) => m = n
          /\ \A k \in 0..(C - 1) : \E m \in kept : rank(m) = k
      BY <1>0, <2>1, RanksFill DEF rank
    <3> QED
      BY <1>1, <3>1
<1>4. f = [k \in 1..C |-> q[at[k]]]
  BY DEF Filter
<1> HIDE DEF rank
<1>5. \A k \in 1..C : at[k] \in kept /\ rank(at[k]) = k - 1
  <2> TAKE k \in 1..C
  <2> HIDE DEF kept, C
  <2>1. k - 1 \in 0..(C - 1)
    BY <1>0
  <2>2. PICK i \in kept : rank(i) = k - 1
    BY <1>3, <2>1
  <2>3. Cardinality({j \in kept : j < i}) = k - 1
    BY <1>2, <2>2
  <2>4. at[k] = CHOOSE x \in kept : Cardinality({j \in kept : j < x}) = k - 1
    OBVIOUS
  <2>5. at[k] \in kept /\ Cardinality({j \in kept : j < at[k]}) = k - 1
    BY <2>3, <2>4
  <2> QED
    BY <1>2, <2>5
<1> HIDE DEF at, C
<1>6. f \in Seq(M) /\ Len(f) = C
  <2>1. f \in [1..C -> M]
    BY <1>0, <1>4, <1>5
  <2> HIDE DEF f
  <2> QED
    BY <1>0, <2>1
<1>7. ToSet(f) = ToSet(q) \cap S
  <2>1. ASSUME NEW m \in ToSet(f) PROVE m \in ToSet(q) \cap S
    <3>1. PICK k \in 1..C : m = f[k]
      BY <1>4, <2>1 DEF ToSet
    <3>2. m = q[at[k]] /\ at[k] \in kept
      BY <1>4, <1>5, <3>1
    <3> QED
      BY <3>2 DEF ToSet
  <2>2. ASSUME NEW m \in ToSet(q), m \in S PROVE m \in ToSet(f)
    <3>1. PICK i \in 1..Len(q) : m = q[i]
      BY DEF ToSet
    <3>2. i \in kept
      BY <2>2, <3>1
    <3> HIDE DEF kept
    <3>3. rank(i) + 1 \in 1..C /\ rank(i) \in Nat
      BY <1>0, <1>3, <3>2
    <3>4. at[rank(i) + 1] \in kept /\ rank(at[rank(i) + 1]) = rank(i)
      BY <1>5, <3>3
    <3>5. at[rank(i) + 1] = i
      BY <1>3, <3>2, <3>4
    <3>6. f[rank(i) + 1] = m
      BY <1>4, <3>1, <3>3, <3>5
    <3> QED
      BY <1>4, <3>3, <3>6 DEF ToSet
  <2> QED
    BY <2>1, <2>2
<1>8. at \in [1..Len(f) -> 1..Len(q)]
  BY <1>0, <1>5, <1>6 DEF at
<1>9. ASSUME NEW i \in 1..C, NEW j \in 1..C, i < j PROVE at[i] < at[j]
  <2>1. at[i] \in kept /\ at[j] \in kept /\ rank(at[i]) < rank(at[j])
    BY <1>0, <1>5, <1>9
  <2> HIDE DEF kept
  <2>2. at[i] \in Nat /\ at[j] \in Nat /\ rank(at[i]) \in Nat /\ rank(at[j]) \in Nat
    BY <1>0, <1>3, <2>1
  <2> QED
    BY <1>3, <2>1, <2>2
<1>10. \A k \in 1..C : f[k] = q[at[k]] /\ q[at[k]] \in S
  BY <1>4, <1>5
<1> HIDE DEF f
<1>11. /\ \A k \in 1..Len(f) : f[k] = q[at[k]] /\ q[at[k]] \in S
       /\ \A i, j \in 1..Len(f) : i < j => at[i] < at[j]
  BY <1>6, <1>9, <1>10
<1>12. \E a \in [1..Len(f) -> 1..Len(q)] :
         /\ \A k \in 1..Len(f) : f[k] = q[a[k]] /\ q[a[k]] \in S
         /\ \A i, j \in 1..Len(f) : i < j => a[i] < a[j]
  BY <1>8, <1>11
<1> QED
  BY <1>6, <1>7, <1>12 DEF f

\* Sorting keeps every element, each in a place of its own, the lower numbers first.
LEMMA SortPlaces ==
  ASSUME NEW M, NEW q \in Seq(M), NEW number \in [1..Len(q) -> Nat]
  PROVE  /\ SortedBy(q, number) \in Seq(M)
         /\ Len(SortedBy(q, number)) = Len(q)
         /\ ToSet(SortedBy(q, number)) = ToSet(q)
         /\ \E at \in [1..Len(q) -> 1..Len(q)] :
              /\ \A k \in 1..Len(q) : SortedBy(q, number)[k] = q[at[k]]
              /\ \A i, j \in 1..Len(q) : i < j =>
                   at[i] # at[j] /\ number[at[i]] <= number[at[j]]
<1> DEFINE N == 1..Len(q)
           R == {p \in N \X N : number[p[1]] < number[p[2]] \/ (number[p[1]] = number[p[2]] /\ p[1] < p[2])}
           rank(i) == Rank(N, R, i)
           at == [k \in N |-> CHOOSE i \in N :
                    Cardinality({j \in N : number[j] < number[i] \/ (number[j] = number[i] /\ j < i)}) = k - 1]
           f == SortedBy(q, number)
<1>0. Len(q) \in Nat /\ IsFiniteSet(N) /\ Cardinality(N) = Len(q)
  <2>1. Len(q) \in Nat
    OBVIOUS
  <2>2. IsFiniteSet(N) /\ Cardinality(N) = IF 1 > Len(q) THEN 0 ELSE Len(q) - 1 + 1
    BY <2>1, FS_Interval
  <2> QED
    BY <2>1, <2>2
<1>1. \A i, j \in N : <<i, j>> \in R <=> number[i] < number[j] \/ (number[i] = number[j] /\ i < j)
  OBVIOUS
<1>2. \A i \in N : rank(i) = Cardinality({j \in N : number[j] < number[i] \/ (number[j] = number[i] /\ j < i)})
  <2> TAKE i \in N
  <2>1. {j \in N : <<j, i>> \in R} = {j \in N : number[j] < number[i] \/ (number[j] = number[i] /\ j < i)}
    BY <1>1
  <2> QED
    BY <2>1 DEF Rank
<1> HIDE DEF R
<1>3. Orders(R, N)
  <2>1. \A i \in N : i \in Nat /\ number[i] \in Nat
    OBVIOUS
  <2> HIDE DEF N
  <2> QED
    BY <1>1, <2>1 DEF Orders
<1>4. /\ \A i \in N : rank(i) \in 0..(Len(q) - 1)
      /\ \A i, j \in N : <<i, j>> \in R => rank(i) < rank(j)
      /\ \A i, j \in N : rank(i) = rank(j) => i = j
      /\ \A k \in 0..(Len(q) - 1) : \E i \in N : rank(i) = k
  <2> HIDE DEF N, rank
  <2>1. /\ \A i \in N : rank(i) \in 0..(Cardinality(N) - 1)
        /\ \A i, j \in N : <<i, j>> \in R => rank(i) < rank(j)
        /\ \A i, j \in N : rank(i) = rank(j) => i = j
        /\ \A k \in 0..(Cardinality(N) - 1) : \E i \in N : rank(i) = k
    BY <1>0, <1>3, RanksFill DEF rank
  <2> QED
    BY <1>0, <2>1
<1>5. f = [k \in N |-> q[at[k]]]
  BY DEF SortedBy
<1> HIDE DEF rank
<1>6. \A k \in N : at[k] \in N /\ rank(at[k]) = k - 1
  <2> TAKE k \in N
  <2>1. k - 1 \in 0..(Len(q) - 1)
    BY <1>0
  <2> HIDE DEF N
  <2>2. PICK i \in N : rank(i) = k - 1
    BY <1>4, <2>1
  <2> DEFINE before(i_1) == {j \in N : number[j] < number[i_1] \/ (number[j] = number[i_1] /\ j < i_1)}
  <2>3. Cardinality(before(i)) = k - 1
    BY <1>2, <2>2
  <2>4. at[k] = CHOOSE x \in N : Cardinality(before(x)) = k - 1
    OBVIOUS
  <2>5. \A x \in N : rank(x) = Cardinality(before(x))
    BY <1>2
  <2> HIDE DEF at, before
  <2>6. at[k] \in N /\ Cardinality(before(at[k])) = k - 1
    BY <2>3, <2>4
  <2> QED
    BY <2>5, <2>6
<1>7. at \in [1..Len(q) -> 1..Len(q)]
  BY <1>6
<1> HIDE DEF at
<1>8. f \in Seq(M) /\ Len(f) = Len(q)
  <2>1. f \in [1..Len(q) -> M]
    BY <1>5, <1>6
  <2> HIDE DEF f
  <2> QED
    BY <1>0, <2>1
<1>9. ToSet(f) = ToSet(q)
  <2>1. ASSUME NEW m \in ToSet(f) PROVE m \in ToSet(q)
    <3>1. PICK k \in N : m = f[k]
      BY <1>5, <2>1 DEF ToSet
    <3> QED
      BY <1>5, <1>6, <3>1 DEF ToSet
  <2>2. ASSUME NEW m \in ToSet(q) PROVE m \in ToSet(f)
    <3>1. PICK i \in N : m = q[i]
      BY DEF ToSet
    <3>2. rank(i) + 1 \in N /\ rank(i) \in Nat
      BY <1>0, <1>4, <3>1
    <3> HIDE DEF N
    <3>3. at[rank(i) + 1] \in N /\ rank(at[rank(i) + 1]) = rank(i)
      BY <1>6, <3>2
    <3>4. at[rank(i) + 1] = i
      BY <1>4, <3>1, <3>3
    <3>5. f[rank(i) + 1] = m
      BY <1>5, <3>1, <3>2, <3>4
    <3> QED
      BY <1>5, <3>2, <3>5 DEF ToSet
  <2> QED
    BY <2>1, <2>2
<1>10. ASSUME NEW i \in N, NEW j \in N, i < j PROVE at[i] # at[j] /\ number[at[i]] <= number[at[j]]
  <2>1. at[i] \in N /\ at[j] \in N /\ rank(at[i]) = i - 1 /\ rank(at[j]) = j - 1
    BY <1>6
  <2>2. rank(at[i]) < rank(at[j]) /\ rank(at[i]) \in Nat /\ rank(at[j]) \in Nat
    BY <1>0, <1>4, <1>10, <2>1
  <2>3. <<at[j], at[i]>> \notin R
    <3> HIDE DEF N
    <3> QED
      BY <1>4, <2>1, <2>2
  <2>4. number[at[i]] \in Nat /\ number[at[j]] \in Nat
    BY <2>1
  <2> QED
    BY <1>1, <2>1, <2>2, <2>3, <2>4
<1> HIDE DEF f
<1>11. \E a \in [1..Len(q) -> 1..Len(q)] :
         /\ \A k \in 1..Len(q) : f[k] = q[a[k]]
         /\ \A i, j \in 1..Len(q) : i < j => a[i] # a[j] /\ number[a[i]] <= number[a[j]]
  BY <1>5, <1>7, <1>10
<1> QED
  BY <1>8, <1>9, <1>11 DEF f

\* One list behind another.
LEMMA Concatenated ==
  ASSUME NEW M, NEW p \in Seq(M), NEW q \in Seq(M)
  PROVE  /\ p \o q \in Seq(M)
         /\ Len(p) \in Nat /\ Len(q) \in Nat /\ Len(p \o q) = Len(p) + Len(q)
         /\ \A i \in 1..Len(p) : (p \o q)[i] = p[i]
         /\ \A i \in 1..Len(q) : (p \o q)[Len(p) + i] = q[i]
         /\ \A i \in 1..Len(p \o q) : i \in 1..Len(p) \/ i - Len(p) \in 1..Len(q)
         /\ ToSet(p \o q) = ToSet(p) \cup ToSet(q)
<1>1. /\ p \o q \in Seq(M)
      /\ Len(p) \in Nat /\ Len(q) \in Nat /\ Len(p \o q) = Len(p) + Len(q)
      /\ \A i \in 1..Len(p) : (p \o q)[i] = p[i]
      /\ \A i \in 1..Len(q) : (p \o q)[Len(p) + i] = q[i]
  OBVIOUS
<1>2. \A i \in 1..Len(p \o q) : i \in 1..Len(p) \/ i - Len(p) \in 1..Len(q)
  BY <1>1
<1>3. /\ ToSet(p) = {p[i] : i \in 1..Len(p)} /\ ToSet(q) = {q[i] : i \in 1..Len(q)}
      /\ ToSet(p \o q) = {(p \o q)[i] : i \in 1..Len(p \o q)}
  BY <1>1 DEF ToSet
<1> DEFINE r == p \o q
<1> HIDE DEF r
<1>4. ASSUME NEW i \in 1..Len(r) PROVE r[i] \in ToSet(p) \cup ToSet(q)
  <2>1. CASE i \in 1..Len(p)
    BY <1>1, <1>3, <2>1 DEF r
  <2>2. CASE i - Len(p) \in 1..Len(q)
    <3> DEFINE j == i - Len(p)
    <3>1. Len(p) + j = i /\ j \in 1..Len(q)
      BY <1>1, <2>2
    <3> HIDE DEF j
    <3>2. r[i] = q[j]
      BY <1>1, <3>1 DEF r
    <3> QED
      BY <1>3, <3>1, <3>2
  <2> QED
    BY <1>2, <2>1, <2>2 DEF r
<1>5. ASSUME NEW i \in 1..Len(p) PROVE p[i] \in ToSet(r)
  <2>1. i \in 1..Len(r) /\ r[i] = p[i]
    BY <1>1 DEF r
  <2> QED
    BY <1>3, <2>1 DEF r
<1>6. ASSUME NEW i \in 1..Len(q) PROVE q[i] \in ToSet(r)
  <2>1. Len(p) + i \in 1..Len(r) /\ r[Len(p) + i] = q[i]
    BY <1>1 DEF r
  <2> QED
    BY <1>3, <2>1 DEF r
<1>7. ToSet(r) = ToSet(p) \cup ToSet(q)
  BY <1>3, <1>4, <1>5, <1>6 DEF r
<1> QED
  BY <1>1, <1>2, <1>7 DEF r

=============================================================================
