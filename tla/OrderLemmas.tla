----------------------------- MODULE OrderLemmas -----------------------------
(***************************************************************************)
(* Facts about orders on finite sets that the proofs of the pipeline and   *)
(* of disclosure control rest on: least elements, and sorting.  An order   *)
(* is a set of pairs.  Induction is by the least counterexample.           *)
(***************************************************************************)
EXTENDS Integers, FiniteSetTheorems, FunctionTheorems, TLAPS

StrictlyOrders(R, S) ==
  /\ \A x \in S : <<x, x>> \notin R
  /\ \A x, y, z \in S : <<x, y>> \in R /\ <<y, z>> \in R => <<x, z>> \in R
  /\ \A x, y \in S : x # y => <<x, y>> \in R \/ <<y, x>> \in R

Below(R, S, x) == {y \in S : <<y, x>> \in R}

Sorted(R, S, f) == f \in [1..Cardinality(S) -> S] /\ \A i, j \in 1..Cardinality(S) : i < j => <<f[i], f[j]>> \in R

\* Every nonempty set of naturals has a least element.
LEMMA LeastNatural ==
  ASSUME NEW T \in SUBSET Nat, T # {}
  PROVE  \E m \in T : \A n \in T : m <= n
<1>1. PICK m \in T : \A n \in T : ~(<<n, m>> \in OpToRel(<, Nat))
  BY NatLessThanWellFounded, WFMin
<1>2. ASSUME NEW n \in T PROVE m <= n
  <2>1. <<n, m>> \notin OpToRel(<, Nat)
    BY <1>1
  <2>2. ~(n < m)
    BY <2>1 DEF OpToRel
  <2> QED BY <2>2
<1> QED BY <1>2

\* Fewer elements of a finite ordered set lie below an element than below a greater one.
LEMMA BelowGrows ==
  ASSUME NEW S, IsFiniteSet(S), NEW R, StrictlyOrders(R, S), NEW x \in S
  PROVE  /\ IsFiniteSet(Below(R, S, x)) /\ Cardinality(Below(R, S, x)) \in 0..(Cardinality(S) - 1)
         /\ \A y \in S : <<x, y>> \in R => Cardinality(Below(R, S, x)) < Cardinality(Below(R, S, y))
<1>1. \A z \in S : /\ IsFiniteSet(Below(R, S, z)) /\ Cardinality(Below(R, S, z)) \in Nat
                   /\ Cardinality(Below(R, S, z)) < Cardinality(S)
  <2> TAKE z \in S
  <2>1. Below(R, S, z) \in SUBSET (S \ {z})
    BY DEF Below, StrictlyOrders
  <2>2. IsFiniteSet(S \ {z}) /\ Cardinality(S \ {z}) = Cardinality(S) - 1
    BY FS_RemoveElement
  <2>3. IsFiniteSet(Below(R, S, z)) /\ Cardinality(Below(R, S, z)) <= Cardinality(S \ {z})
    BY <2>1, <2>2, FS_Subset
  <2> QED BY <2>2, <2>3, FS_CardinalityType
<1>2. ASSUME NEW y \in S, <<x, y>> \in R
      PROVE  Cardinality(Below(R, S, x)) < Cardinality(Below(R, S, y))
  <2>1. Below(R, S, x) \in SUBSET Below(R, S, y) /\ x \in Below(R, S, y) \ Below(R, S, x)
    BY <1>2 DEF Below, StrictlyOrders
  <2>2. /\ Cardinality(Below(R, S, x)) <= Cardinality(Below(R, S, y))
        /\ Cardinality(Below(R, S, x)) # Cardinality(Below(R, S, y))
    BY <1>1, <2>1, FS_Subset
  <2> QED BY <1>1, <2>2
<1>3. Cardinality(S) \in Nat
  BY FS_CardinalityType
<1> QED BY <1>1, <1>2, <1>3

\* A finite ordered set can be sorted.
LEMMA SortedExists ==
  ASSUME NEW S, IsFiniteSet(S), NEW R, StrictlyOrders(R, S)
  PROVE  \E f : Sorted(R, S, f)
<1> DEFINE n == Cardinality(S)
           place == [x \in S |-> Cardinality(Below(R, S, x)) + 1]
<1>1. n \in Nat
  BY FS_CardinalityType
<1>2. \A x \in S : Cardinality(Below(R, S, x)) \in 0..(n - 1)
  BY BelowGrows
<1>3. \A x, y \in S : <<x, y>> \in R => place[x] < place[y]
  BY BelowGrows, <1>1, <1>2
<1>4. place \in [S -> 1..n]
  BY <1>1, <1>2
<1> HIDE DEF place
<1>5. \A x, y \in S : place[x] = place[y] => x = y
  <2> SUFFICES ASSUME NEW x \in S, NEW y \in S, place[x] = place[y], x # y PROVE FALSE
    OBVIOUS
  <2>1. place[x] \in Int /\ place[y] \in Int
    BY <1>1, <1>4
  <2>2. ~(place[x] < place[y]) /\ ~(place[y] < place[x])
    BY <2>1
  <2>3. <<x, y>> \in R \/ <<y, x>> \in R
    BY DEF StrictlyOrders
  <2> QED BY <1>3, <2>2, <2>3
<1>6. place \in Injection(S, 1..n)
  BY <1>4, <1>5, Fun_IsInj
<1>7. IsFiniteSet(1..n) /\ Cardinality(1..n) = n
  BY <1>1, FS_Interval
<1>8. place \in Surjection(S, 1..n)
  BY <1>6, <1>7, FS_Injection
<1>9. \A i \in 1..n : \E x \in S : place[x] = i
  BY <1>8 DEF Surjection
<1> DEFINE f == [i \in 1..n |-> CHOOSE x \in S : place[x] = i]
<1>10. f \in [1..n -> S] /\ \A i \in 1..n : place[f[i]] = i
  BY <1>9
<1> HIDE DEF f
<1>11. ASSUME NEW i \in 1..n, NEW j \in 1..n, i < j PROVE <<f[i], f[j]>> \in R
  <2>1. f[i] \in S /\ f[j] \in S /\ place[f[i]] = i /\ place[f[j]] = j
    BY <1>10
  <2>2. f[i] # f[j] /\ ~(<<f[j], f[i]>> \in R)
    BY <1>3, <1>11, <2>1
  <2> QED BY <2>1, <2>2 DEF StrictlyOrders
<1> QED BY <1>10, <1>11 DEF Sorted

\* In a sorted sequence every element stands once, after those below it.
LEMMA SortedPlaces ==
  ASSUME NEW S, IsFiniteSet(S), NEW R, StrictlyOrders(R, S), NEW f, Sorted(R, S, f)
  PROVE  /\ \A x \in S : \E i \in 1..Cardinality(S) : f[i] = x
         /\ \A i \in 1..Cardinality(S) : Cardinality(Below(R, S, f[i])) = i - 1
         /\ \A i, j \in 1..Cardinality(S) : <<f[i], f[j]>> \in R <=> i < j
<1> DEFINE n == Cardinality(S)
<1>1. n \in Nat /\ IsFiniteSet(1..n) /\ Cardinality(1..n) = n
  BY FS_CardinalityType, FS_Interval
<1>2. f \in [1..n -> S] /\ \A i, j \in 1..n : i < j => <<f[i], f[j]>> \in R
  BY DEF Sorted
<1>3. \A i, j \in 1..n : <<f[i], f[j]>> \in R <=> i < j
  <2> TAKE i, j \in 1..n
  <2>1. CASE i < j
    BY <1>2, <2>1
  <2>2. CASE i = j
    BY <1>2, <2>2 DEF StrictlyOrders
  <2>3. CASE j < i
    BY <1>2, <2>3 DEF StrictlyOrders
  <2> QED BY <1>1, <2>1, <2>2, <2>3
<1>4. \A i, j \in 1..n : f[i] = f[j] => i = j
  <2> SUFFICES ASSUME NEW i \in 1..n, NEW j \in 1..n, f[i] = f[j], i # j PROVE FALSE
    OBVIOUS
  <2>1. <<f[i], f[i]>> \in R
    BY <1>1, <1>2
  <2> QED BY <1>2, <2>1 DEF StrictlyOrders
<1>5. f \in Injection(1..n, S)
  BY <1>2, <1>4, Fun_IsInj
<1>6. f \in Surjection(1..n, S)
  BY <1>1, <1>5, FS_Injection
<1>7. \A x \in S : \E i \in 1..n : f[i] = x
  BY <1>6 DEF Surjection
<1>8. ASSUME NEW i \in 1..n PROVE Cardinality(Below(R, S, f[i])) = i - 1
  <2> DEFINE first == [j \in 1..(i - 1) |-> f[j]]
  <2>1. 1..(i - 1) \subseteq 1..n
    BY <1>1
  <2>2. \A j \in 1..(i - 1) : f[j] \in Below(R, S, f[i])
    BY <1>1, <1>2, <1>3, <2>1 DEF Below
  <2>3. first \in [1..(i - 1) -> Below(R, S, f[i])]
    BY <2>2
  <2>4. \A j, k \in 1..(i - 1) : first[j] = first[k] => j = k
    BY <1>4, <2>1
  <2>5. \A x \in Below(R, S, f[i]) : \E j \in 1..(i - 1) : first[j] = x
    <3> TAKE x \in Below(R, S, f[i])
    <3>1. PICK j \in 1..n : f[j] = x
      BY <1>7 DEF Below
    <3>2. j < i
      BY <1>3, <3>1 DEF Below
    <3>3. j \in 1..(i - 1)
      BY <1>1, <3>2
    <3> QED BY <3>1, <3>3
  <2>6. first \in Bijection(1..(i - 1), Below(R, S, f[i]))
    BY <2>3, <2>4, <2>5, Fun_IsBij
  <2>7. ExistsBijection(1..(i - 1), Below(R, S, f[i]))
    BY <2>6 DEF ExistsBijection
  <2>8. i - 1 \in Nat
    BY <1>1
  <2> QED BY <2>7, <2>8, FS_CountingElements
<1> QED BY <1>3, <1>7, <1>8

\* A finite nonempty ordered set has a last element.
LEMMA LastExists ==
  ASSUME NEW S, IsFiniteSet(S), S # {}, NEW R, StrictlyOrders(R, S)
  PROVE  \E x \in S : \A y \in S : y = x \/ <<y, x>> \in R
<1> DEFINE n == Cardinality(S)
<1>1. PICK f : Sorted(R, S, f)
  BY SortedExists
<1>2. /\ \A x \in S : \E i \in 1..n : f[i] = x
      /\ \A i, j \in 1..n : <<f[i], f[j]>> \in R <=> i < j
  BY <1>1, SortedPlaces
<1>3. n \in Nat /\ n # 0
  BY FS_CardinalityType, FS_EmptySet
<1>4. f[n] \in S /\ n \in 1..n /\ \A i \in 1..n : i = n \/ i < n
  BY <1>1, <1>3 DEF Sorted
<1>5. \A y \in S : y = f[n] \/ <<y, f[n]>> \in R
  BY <1>2, <1>4
<1> QED BY <1>4, <1>5

\* A finite nonempty set of integers has a greatest and a least element.
LEMMA GreatestInteger ==
  ASSUME NEW S \in SUBSET Int, IsFiniteSet(S), S # {}
  PROVE  \E x \in S : \A y \in S : y <= x
<1> DEFINE R == {p \in S \X S : p[1] < p[2]}
<1>1. \A x, y \in S : <<x, y>> \in R <=> x < y
  OBVIOUS
<1> HIDE DEF R
<1>2. StrictlyOrders(R, S)
  BY <1>1 DEF StrictlyOrders
<1>3. \E x \in S : \A y \in S : y = x \/ <<y, x>> \in R
  BY <1>2, LastExists, Zenon
<1>4. PICK x \in S : \A y \in S : y = x \/ <<y, x>> \in R
  BY <1>3, Zenon
<1>5. ASSUME NEW y \in S PROVE y <= x
  <2>1. y = x \/ <<y, x>> \in R
    BY <1>4, Zenon
  <2>2. x \in Int /\ y \in Int
    OBVIOUS
  <2> QED BY <1>1, <2>1, <2>2
<1> QED BY <1>5

LEMMA LeastInteger ==
  ASSUME NEW S \in SUBSET Int, IsFiniteSet(S), S # {}
  PROVE  \E x \in S : \A y \in S : x <= y
<1> DEFINE R == {p \in S \X S : p[1] > p[2]}
<1>1. \A x, y \in S : <<x, y>> \in R <=> x > y
  OBVIOUS
<1> HIDE DEF R
<1>2. StrictlyOrders(R, S)
  BY <1>1 DEF StrictlyOrders
<1>3. \E x \in S : \A y \in S : y = x \/ <<y, x>> \in R
  BY <1>2, LastExists, Zenon
<1>4. PICK x \in S : \A y \in S : y = x \/ <<y, x>> \in R
  BY <1>3, Zenon
<1>5. ASSUME NEW y \in S PROVE x <= y
  <2>1. y = x \/ <<y, x>> \in R
    BY <1>4, Zenon
  <2>2. x \in Int /\ y \in Int
    OBVIOUS
  <2> QED BY <1>1, <2>1, <2>2
<1> QED BY <1>5

\* Of two measures, the second to break the ties of the first, some element has the least.
LEMMA LeastByTwo ==
  ASSUME NEW C, C # {}, NEW f \in [C -> Nat], NEW g \in [C -> Nat]
  PROVE  \E a \in C : \A b \in C : f[a] < f[b] \/ (f[a] = f[b] /\ g[a] <= g[b])
<1> DEFINE F == {f[x] : x \in C}
<1>1. PICK m \in F : \A n \in F : m <= n
  <2>1. F \in SUBSET Nat /\ F # {}
    OBVIOUS
  <2> HIDE DEF F
  <2> QED BY <2>1, LeastNatural, Zenon
<1> DEFINE G == {g[x] : x \in {y \in C : f[y] = m}}
<1>2. PICK k \in G : \A n \in G : k <= n
  <2>1. G \in SUBSET Nat /\ G # {}
    BY <1>1
  <2> HIDE DEF G
  <2> QED BY <2>1, LeastNatural, Zenon
<1>3. PICK a \in C : f[a] = m /\ g[a] = k
  BY <1>2
<1>4. ASSUME NEW b \in C PROVE f[a] < f[b] \/ (f[a] = f[b] /\ g[a] <= g[b])
  <2>1. f[a] <= f[b] /\ f[a] \in Nat /\ f[b] \in Nat
    BY <1>1, <1>3
  <2>2. f[a] = f[b] => g[a] <= g[b]
    BY <1>2, <1>3
  <2> QED BY <2>1, <2>2
<1> QED BY <1>4

\* The values of a function on a finite set are finitely many.
LEMMA ImageIsFinite ==
  ASSUME NEW S, IsFiniteSet(S), NEW f
  PROVE  IsFiniteSet({f[x] : x \in S})
<1> DEFINE T == {f[x] : x \in S}
           g == [x \in S |-> f[x]]
<1>1. g \in [S -> T] /\ \A y \in T : \E x \in S : g[x] = y
  OBVIOUS
<1>2. g \in Surjection(S, T)
  BY <1>1 DEF Surjection
<1> HIDE DEF g, T
<1>3. IsFiniteSet(T)
  BY <1>2, FS_Surjection
<1> QED BY <1>3 DEF T
=============================================================================
