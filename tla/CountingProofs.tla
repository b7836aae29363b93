--------------------------- MODULE CountingProofs ---------------------------
(***************************************************************************)
(* Lemmas about sums and filtered sequences, for amounts that are natural  *)
(* numbers and finite sets of any size.                                    *)
(*                                                                         *)
(* A sum is a fold, defined by recursion, and what a recursion computes    *)
(* takes an induction.  The induction here is the least member of a finite *)
(* set of numbers (LeastNumber), itself the one of rank one, and the       *)
(* existence and the value of the fold come from counting: the sum is the  *)
(* number of the units the amounts consist of (FoldCounts).  What holds of *)
(* sums then follows from what holds of finite sets.                       *)
(***************************************************************************)
EXTENDS Counting, FunctionTheorems, FiniteSetTheorems, TLAPS

\* Each unit of what S holds, named by its owner and its number.
Units(amount, S) == UNION {{x} \X (1..amount[x]) : x \in S}

Count(amount, S) == Cardinality(Units(amount, S))

-----------------------------------------------------------------------------
(***************************************************************************)
(* Ranks.                                                                  *)
(***************************************************************************)
\* Later indices have larger ranks, from one to the number of indices.
LEMMA RankOrder ==
  ASSUME NEW n \in Nat, NEW I \in SUBSET (1..n)
  PROVE  /\ IsFiniteSet(I) /\ Cardinality(I) \in Nat
         /\ \A i \in I : Rank(I, i) \in 1..Cardinality(I)
         /\ \A i, j \in I : i < j => Rank(I, i) < Rank(I, j)
<1>0. IsFiniteSet(1..n)
  BY FS_Interval
<1>1. IsFiniteSet(I) /\ Cardinality(I) \in Nat
  BY <1>0, FS_Subset, FS_CardinalityType
<1>2. ASSUME NEW i \in I
      PROVE  /\ IsFiniteSet(I \cap (1..i)) /\ Rank(I, i) \in Nat
             /\ Rank(I, i) <= Cardinality(I)
             /\ Rank(I, i) # 0
  <2>1. I \cap (1..i) \in SUBSET I /\ i \in I \cap (1..i)
    OBVIOUS
  <2>2. IsFiniteSet(I \cap (1..i)) /\ Cardinality(I \cap (1..i)) <= Cardinality(I)
    BY <1>1, <2>1, FS_Subset
  <2> QED BY <2>1, <2>2, FS_CardinalityType, FS_EmptySet DEF Rank
<1>3. ASSUME NEW i \in I, NEW j \in I, i < j
      PROVE  Rank(I, i) < Rank(I, j)
  <2>0. i \in Nat /\ j \in Nat /\ i < j /\ j >= 1
    BY <1>3
  <2>1. I \cap (1..i) \in SUBSET (I \cap (1..j))
    BY <2>0
  <2>2. j \in I \cap (1..j) /\ j \notin I \cap (1..i)
    BY <2>0
  <2>3. Rank(I, i) <= Rank(I, j) /\ Rank(I, i) # Rank(I, j)
    BY <1>2, <2>1, <2>2, FS_Subset DEF Rank
  <2>4. Rank(I, i) \in Nat /\ Rank(I, j) \in Nat
    BY <1>2
  <2> QED BY <2>3, <2>4
<1>4. \A i \in I : Rank(I, i) \in 1..Cardinality(I)
  <2> SUFFICES ASSUME NEW i \in I PROVE Rank(I, i) \in 1..Cardinality(I)
    OBVIOUS
  <2>1. Rank(I, i) \in Nat /\ Rank(I, i) <= Cardinality(I) /\ Rank(I, i) # 0
    BY <1>2
  <2> QED BY <1>1, <2>1
<1> QED BY <1>1, <1>3, <1>4

\* Every rank is taken, by one index.
LEMMA RankOnto ==
  ASSUME NEW n \in Nat, NEW I \in SUBSET (1..n)
  PROVE  /\ \A k \in 1..Cardinality(I) : \E i \in I : Rank(I, i) = k
         /\ \A i, j \in I : Rank(I, i) = Rank(I, j) => i = j
<1> DEFINE m == Cardinality(I)
           place == [i \in I |-> Rank(I, i)]
<1>1. /\ IsFiniteSet(I) /\ m \in Nat
      /\ \A i \in I : Rank(I, i) \in 1..m
      /\ \A i, j \in I : i < j => Rank(I, i) < Rank(I, j)
  BY RankOrder
<1> HIDE DEF m
<1>2. \A i, j \in I : Rank(I, i) = Rank(I, j) => i = j
  <2> SUFFICES ASSUME NEW i \in I, NEW j \in I, Rank(I, i) = Rank(I, j)
               PROVE  i = j
    OBVIOUS
  <2>1. i \in Nat /\ j \in Nat /\ Rank(I, i) \in Nat /\ Rank(I, j) \in Nat
    BY <1>1
  <2>2. ~(i < j) /\ ~(j < i)
    BY <1>1, <2>1
  <2> QED BY <2>1, <2>2
<1>3. place \in Injection(I, 1..m)
  BY <1>1, <1>2 DEF Injection, IsInjective
<1>4. IsFiniteSet(1..m) /\ Cardinality(1..m) = m
  BY <1>1, FS_Interval
<1>5. place \in Surjection(I, 1..m)
  BY <1>3, <1>4, FS_Injection DEF m
<1>6. \A k \in 1..m : \E i \in I : place[i] = k
  BY <1>5 DEF Surjection
<1> QED BY <1>2, <1>6 DEF m

\* A set of positive numbers up to n has a least member.
LEMMA LeastNumber ==
  ASSUME NEW n \in Nat, NEW I \in SUBSET (1..n), I # {}
  PROVE  \E i \in I : \A j \in I : i <= j
<1>1. /\ IsFiniteSet(I) /\ Cardinality(I) \in Nat
      /\ \A i \in I : Rank(I, i) \in 1..Cardinality(I)
      /\ \A i, j \in I : i < j => Rank(I, i) < Rank(I, j)
  BY RankOrder
<1>2. Cardinality(I) # 0
  BY <1>1, FS_EmptySet
<1>3. 1 \in 1..Cardinality(I)
  BY <1>1, <1>2
<1>4. PICK i \in I : Rank(I, i) = 1
  BY <1>3, RankOnto
<1>5. ASSUME NEW j \in I PROVE i <= j
  <2>1. i \in Nat /\ j \in Nat /\ Rank(I, j) >= 1 /\ Rank(I, j) \in Nat
    BY <1>1
  <2>2. ~(j < i)
    BY <1>1, <1>4, <2>1
  <2> QED BY <2>1, <2>2
<1> QED BY <1>5

\* Every nonempty set of natural numbers has a minimum.
LEMMA MinIsLeast ==
  ASSUME NEW S \in SUBSET Nat, S # {}
  PROVE  Min(S) \in S /\ \A x \in S : Min(S) <= x
<1>1. PICK top \in S : TRUE
  OBVIOUS
<1> DEFINE I == {i \in 1..(top + 1) : i - 1 \in S}
<1>2. top + 1 \in I /\ I \in SUBSET (1..(top + 1)) /\ top + 1 \in Nat
  BY <1>1
<1> HIDE DEF I
<1>3. PICK i \in I : \A j \in I : i <= j
  BY <1>2, LeastNumber
<1>4. i \in Nat /\ i <= top + 1 /\ i - 1 \in S /\ top \in Nat
  BY <1>1, <1>2, <1>3 DEF I
<1>5. ASSUME NEW x \in S PROVE i - 1 <= x
  <2>1. CASE x > top
    BY <1>4, <2>1
  <2>2. CASE x <= top
    <3>1. x + 1 \in I
      BY <1>4, <2>2 DEF I
    <3> QED BY <1>3, <1>4, <3>1
  <2> QED BY <1>4, <2>1, <2>2
<1>6. \E x \in S : \A y \in S : x <= y
  BY <1>4, <1>5
<1> QED BY <1>6 DEF Min

LEMMA MinOfFour ==
  ASSUME NEW a \in Nat, NEW b \in Nat, NEW c \in Nat, NEW d \in Nat
  PROVE  /\ Min({a, b, c, d}) \in Nat
         /\ \A x \in {a, b, c, d} : Min({a, b, c, d}) <= x
<1> DEFINE S == {a, b, c, d}
<1>1. S \in SUBSET Nat /\ S # {}
  OBVIOUS
<1> HIDE DEF S
<1>2. Min(S) \in S /\ \A x \in S : Min(S) <= x
  BY <1>1, MinIsLeast
<1> QED BY <1>1, <1>2 DEF S

LEMMA MinOfSix ==
  ASSUME NEW a \in Nat, NEW b \in Nat, NEW c \in Nat,
         NEW d \in Nat, NEW e \in Nat, NEW f \in Nat
  PROVE  /\ Min({a, b, c, d, e, f}) \in Nat
         /\ \A x \in {a, b, c, d, e, f} : Min({a, b, c, d, e, f}) <= x
<1> DEFINE S == {a, b, c, d, e, f}
<1>1. S \in SUBSET Nat /\ S # {}
  OBVIOUS
<1> HIDE DEF S
<1>2. Min(S) \in S /\ \A x \in S : Min(S) <= x
  BY <1>1, MinIsLeast
<1> QED BY <1>1, <1>2 DEF S

-----------------------------------------------------------------------------
(***************************************************************************)
(* Sums.                                                                   *)
(***************************************************************************)
\* A unit belongs to the owner it names.
LEMMA UnitOf ==
  ASSUME NEW amount, NEW S, NEW u
  PROVE  u \in Units(amount, S) <=>
           \E x \in S : \E k \in 1..amount[x] : u = <<x, k>>
BY DEF Units

\* One owner's units are as many as its amount.
LEMMA OwnUnits ==
  ASSUME NEW amount, NEW x, amount[x] \in Nat
  PROVE  /\ IsFiniteSet({x} \X (1..amount[x]))
         /\ Cardinality({x} \X (1..amount[x])) = amount[x]
<1> DEFINE owner == {x}
           numbers == 1..amount[x]
<1>1. IsFiniteSet(owner) /\ Cardinality(owner) = 1
  BY FS_Singleton
<1>2. IsFiniteSet(numbers) /\ Cardinality(numbers) = amount[x]
  BY FS_Interval
<1> HIDE DEF owner, numbers
<1>3. /\ IsFiniteSet(owner \X numbers)
      /\ Cardinality(owner \X numbers) = Cardinality(owner) * Cardinality(numbers)
  BY <1>1, <1>2, FS_Product
<1> QED BY <1>1, <1>2, <1>3 DEF owner, numbers

\* Finitely many amounts have finitely many units.
LEMMA UnitsFinite ==
  ASSUME NEW S, IsFiniteSet(S), NEW amount, \A x \in S : amount[x] \in Nat
  PROVE  IsFiniteSet(Units(amount, S))
<1> DEFINE Own == {{x} \X (1..amount[x]) : x \in S}
           f == [x \in S |-> {x} \X (1..amount[x])]
<1>1. f \in Surjection(S, Own)
  BY DEF Surjection
<1>2. IsFiniteSet(Own)
  BY <1>1, FS_Surjection
<1>3. \A T \in Own : IsFiniteSet(T)
  BY OwnUnits
<1> HIDE DEF Own
<1>4. IsFiniteSet(UNION Own)
  BY <1>2, <1>3, FS_UNION
<1> QED BY <1>4 DEF Own, Units

\* Units are counted by owner.
LEMMA CountSingle ==
  ASSUME NEW amount, NEW x, amount[x] \in Nat
  PROVE  Count(amount, {x}) = amount[x]
<1>1. Units(amount, {x}) = {x} \X (1..amount[x])
  BY DEF Units
<1> QED BY <1>1, OwnUnits DEF Count

LEMMA CountUnion ==
  ASSUME NEW S, IsFiniteSet(S), NEW T, IsFiniteSet(T), S \cap T = {},
         NEW amount, \A x \in S \cup T : amount[x] \in Nat
  PROVE  Count(amount, S \cup T) = Count(amount, S) + Count(amount, T)
<1> DEFINE A == Units(amount, S)
           B == Units(amount, T)
<1>1. IsFiniteSet(A) /\ IsFiniteSet(B)
  BY UnitsFinite
<1>2. A \cap B = {}
  BY UnitOf
<1>3. Units(amount, S \cup T) = A \cup B
  BY DEF Units
<1> HIDE DEF A, B
<1>4. Cardinality(A \cup B) = Cardinality(A) + Cardinality(B) - Cardinality(A \cap B)
  BY <1>1, FS_Union
<1>5. Cardinality(A \cap B) = 0
  BY <1>2, FS_EmptySet
<1>6. Cardinality(A) \in Nat /\ Cardinality(B) \in Nat
  BY <1>1, FS_CardinalityType
<1>7. Cardinality(A \cup B) = Cardinality(A) + Cardinality(B)
  BY <1>4, <1>5, <1>6
<1> QED BY <1>3, <1>7 DEF Count, A, B

\* The recursion that the fold solves.
Recurs(f, amount, S) ==
  f = [T \in SUBSET S |->
         IF T = {} THEN 0
         ELSE amount[CHOOSE x \in T : TRUE] + f[T \ {CHOOSE x \in T : TRUE}]]

LEMMA FoldRecurs ==
  ASSUME NEW amount, NEW S
  PROVE  Total(amount, S) = (CHOOSE f : Recurs(f, amount, S))[S]
BY DEF Total, MapThenSumSet, MapThenFoldSet, Recurs

\* The counts solve it.
LEMMA CountRecurs ==
  ASSUME NEW S, IsFiniteSet(S), NEW amount, \A x \in S : amount[x] \in Nat
  PROVE  Recurs([T \in SUBSET S |-> Count(amount, T)], amount, S)
<1> DEFINE g == [T \in SUBSET S |-> Count(amount, T)]
           next(T) == CHOOSE x \in T : TRUE
<1>1. g[{}] = 0
  <2>1. Units(amount, {}) = {}
    BY DEF Units
  <2> QED BY <2>1, FS_EmptySet DEF Count
<1>2. ASSUME NEW T \in SUBSET S, T # {}
      PROVE  g[T] = amount[next(T)] + g[T \ {next(T)}]
  <2>1. PICK x : x = next(T)
    OBVIOUS
  <2>2. x \in T
    BY <1>2, <2>1
  <2> HIDE DEF next
  <2>3. IsFiniteSet({x}) /\ IsFiniteSet(T \ {x})
    BY FS_Singleton, FS_Subset
  <2>4. {x} \cap (T \ {x}) = {} /\ T = {x} \cup (T \ {x})
        /\ \A y \in {x} \cup (T \ {x}) : amount[y] \in Nat
    BY <2>2
  <2>5. Count(amount, {x} \cup (T \ {x})) = Count(amount, {x}) + Count(amount, T \ {x})
    BY <2>3, <2>4, CountUnion
  <2>6. Count(amount, {x}) = amount[x]
    BY <2>2, CountSingle
  <2> QED BY <2>1, <2>4, <2>5, <2>6
<1> QED BY <1>1, <1>2 DEF Recurs

\* Added up one owner after the other or counted unit by unit, the sum is the
\* same.
LEMMA FoldCounts ==
  ASSUME NEW S, IsFiniteSet(S), NEW amount, \A x \in S : amount[x] \in Nat
  PROVE  Total(amount, S) = Count(amount, S)
<1> DEFINE f == CHOOSE h : Recurs(h, amount, S)
           wrong == {T \in SUBSET S : f[T] # Count(amount, T)}
           sizes == {Cardinality(T) + 1 : T \in wrong}
           next(T) == CHOOSE x \in T : TRUE
           g == [T \in SUBSET S |-> Count(amount, T)]
<1>1. Recurs(f, amount, S) /\ Recurs(g, amount, S)
  BY CountRecurs
<1> HIDE DEF f
<1>2. \A T \in SUBSET S : IsFiniteSet(T) /\ Cardinality(T) \in 0..Cardinality(S)
  BY FS_Subset, FS_CardinalityType
<1>3. Cardinality(S) + 1 \in Nat /\ sizes \in SUBSET (1..(Cardinality(S) + 1))
  BY <1>2, FS_CardinalityType
<1>4. ASSUME wrong # {} PROVE FALSE
  <2>1. PICK n \in sizes : \A k \in sizes : n <= k
    <3>1. sizes # {}
      BY <1>4
    <3> HIDE DEF sizes
    <3> QED BY <1>3, <3>1, LeastNumber
  <2>2. PICK T \in wrong : n = Cardinality(T) + 1
    OBVIOUS
  <2>3. T # {}
    <3>1. {} \in SUBSET S
      OBVIOUS
    <3>2. f[{}] = 0 /\ g[{}] = 0
      BY <1>1, <3>1 DEF Recurs
    <3> QED BY <3>1, <3>2
  <2>4. PICK x : x = next(T)
    OBVIOUS
  <2>5. x \in T
    BY <2>3, <2>4
  <2>6. /\ f[T] = amount[x] + f[T \ {x}]
        /\ g[T] = amount[x] + g[T \ {x}]
    <3>1. ASSUME NEW h, Recurs(h, amount, S)
          PROVE  h[T] = amount[x] + h[T \ {x}]
      <4>1. T \in SUBSET S
        OBVIOUS
      <4>2. h[T] = amount[next(T)] + h[T \ {next(T)}]
        BY <2>3, <3>1, <4>1 DEF Recurs
      <4> QED BY <2>4, <4>2
    <3> HIDE DEF g
    <3> QED BY <1>1, <3>1
  <2>7. Cardinality(T \ {x}) = Cardinality(T) - 1 /\ Cardinality(T) \in Nat
    BY <1>2, <2>5, FS_RemoveElement
  <2>8. T \ {x} \notin wrong
    BY <2>1, <2>2, <2>7
  <2>9. f[T \ {x}] = g[T \ {x}]
    BY <2>8
  <2> QED BY <2>6, <2>9
<1>5. f[S] = Count(amount, S)
  BY <1>4
<1> QED BY <1>5, FoldRecurs DEF f

\* A sum of natural numbers is a natural number.
LEMMA TotalType ==
  ASSUME NEW S, IsFiniteSet(S), NEW amount, \A x \in S : amount[x] \in Nat
  PROVE  Total(amount, S) \in Nat
BY FoldCounts, UnitsFinite, FS_CardinalityType DEF Count

\* Nobody's sum is zero.
LEMMA TotalEmpty ==
  ASSUME NEW amount
  PROVE  Total(amount, {}) = 0
<1>1. Units(amount, {}) = {}
  BY DEF Units
<1> QED BY <1>1, FoldCounts, FS_EmptySet DEF Count

\* The sum over one owner is its amount.
LEMMA TotalSingle ==
  ASSUME NEW amount, NEW x, amount[x] \in Nat
  PROVE  Total(amount, {x}) = amount[x]
<1>1. IsFiniteSet({x}) /\ \A y \in {x} : amount[y] \in Nat
  BY FS_Singleton
<1>2. Total(amount, {x}) = Count(amount, {x})
  BY <1>1, FoldCounts
<1>3. Count(amount, {x}) = amount[x]
  BY CountSingle
<1> QED BY <1>2, <1>3

\* Only the amounts of the owners count.
LEMMA TotalSame ==
  ASSUME NEW S, NEW a, NEW b, \A x \in S : a[x] = b[x]
  PROVE  Total(a, S) = Total(b, S)
<1>1. ASSUME NEW f
      PROVE  Recurs(f, a, S) <=> Recurs(f, b, S)
  <2>1. \A T \in SUBSET S : T # {} => a[CHOOSE x \in T : TRUE] = b[CHOOSE x \in T : TRUE]
    OBVIOUS
  <2> QED BY <2>1 DEF Recurs
<1>2. (CHOOSE f : Recurs(f, a, S)) = (CHOOSE f : Recurs(f, b, S))
  BY <1>1
<1> QED BY <1>2, FoldRecurs

\* Smaller amounts of fewer owners sum up to less.
LEMMA TotalMonotone ==
  ASSUME NEW S, NEW T, IsFiniteSet(T), S \subseteq T,
         NEW a, NEW b, \A x \in T : b[x] \in Nat,
         \A x \in S : a[x] \in Nat /\ a[x] <= b[x]
  PROVE  Total(a, S) <= Total(b, T)
<1>1. ASSUME NEW u \in Units(a, S)
      PROVE  u \in Units(b, T)
  <2>1. PICK x \in S : \E k \in 1..a[x] : u = <<x, k>>
    BY UnitOf
  <2>2. PICK k \in 1..a[x] : u = <<x, k>>
    BY <2>1
  <2>3. x \in T /\ k \in 1..b[x]
    BY <2>2
  <2> QED BY <2>2, <2>3, UnitOf
<1>2. Units(a, S) \in SUBSET Units(b, T)
  BY <1>1
<1>3. IsFiniteSet(Units(b, T))
  BY UnitsFinite
<1>4. Total(a, S) = Count(a, S) /\ Total(b, T) = Count(b, T)
  BY FoldCounts, FS_Subset
<1> QED BY <1>2, <1>3, <1>4, FS_Subset DEF Count

\* The sums of two groups add up when nobody belongs to both.
LEMMA TotalUnion ==
  ASSUME NEW S, IsFiniteSet(S), NEW T, IsFiniteSet(T), S \cap T = {},
         NEW amount, \A x \in S \cup T : amount[x] \in Nat
  PROVE  Total(amount, S \cup T) = Total(amount, S) + Total(amount, T)
<1>1. IsFiniteSet(S \cup T)
  BY FS_Union
<1>2. /\ Total(amount, S) = Count(amount, S) /\ Total(amount, T) = Count(amount, T)
      /\ Total(amount, S \cup T) = Count(amount, S \cup T)
  BY <1>1, FoldCounts
<1> QED BY <1>2, CountUnion

\* A sum splits along any part of its owners.
LEMMA TotalSplit ==
  ASSUME NEW S, IsFiniteSet(S), NEW T \in SUBSET S,
         NEW amount, \A x \in S : amount[x] \in Nat
  PROVE  /\ Total(amount, S) = Total(amount, T) + Total(amount, S \ T)
         /\ Total(amount, T) \in Nat /\ Total(amount, S \ T) \in Nat
         /\ Total(amount, S) \in Nat
<1>1. IsFiniteSet(T) /\ IsFiniteSet(S \ T)
  BY FS_Subset, FS_Difference
<1>2. S = T \cup (S \ T) /\ T \cap (S \ T) = {}
  OBVIOUS
<1> QED BY <1>1, <1>2, TotalUnion, TotalType

\* One more owner adds its amount.
LEMMA TotalAdds ==
  ASSUME NEW S, IsFiniteSet(S), NEW x, x \notin S, NEW a, NEW b,
         \A y \in S : a[y] \in Nat /\ b[y] = a[y], b[x] \in Nat
  PROVE  /\ Total(b, S \cup {x}) = Total(a, S) + b[x]
         /\ Total(a, S) \in Nat
<1>1. IsFiniteSet({x}) /\ S \cap {x} = {} /\ \A y \in S \cup {x} : b[y] \in Nat
  BY FS_Singleton
<1>2. Total(b, S \cup {x}) = Total(b, S) + Total(b, {x})
  BY <1>1, TotalUnion
<1>3. Total(b, S) = Total(a, S) /\ Total(a, S) \in Nat
  BY TotalSame, TotalType
<1> QED BY <1>2, <1>3, TotalSingle

\* Many amounts of at most n sum up to at most n each.
LEMMA TotalBound ==
  ASSUME NEW S, IsFiniteSet(S), NEW n \in Nat,
         NEW amount, \A x \in S : amount[x] \in 0..n
  PROVE  Total(amount, S) <= n * Cardinality(S)
<1>1. IsFiniteSet(1..n) /\ Cardinality(1..n) = n
  BY FS_Interval
<1>2. IsFiniteSet(S \X (1..n)) /\ Cardinality(S \X (1..n)) = Cardinality(S) * n
  BY <1>1, FS_Product
<1>3. ASSUME NEW u \in Units(amount, S) PROVE u \in S \X (1..n)
  <2>1. PICK x \in S : \E k \in 1..amount[x] : u = <<x, k>>
    BY UnitOf
  <2>2. PICK k \in 1..amount[x] : u = <<x, k>>
    BY <2>1
  <2>3. k \in 1..n
    BY <2>2
  <2> QED BY <2>2, <2>3
<1>4. Units(amount, S) \in SUBSET (S \X (1..n))
  BY <1>3
<1>5. Cardinality(Units(amount, S)) <= Cardinality(S) * n
  BY <1>2, <1>4, FS_Subset
<1>6. Cardinality(S) \in Nat
  BY FS_CardinalityType
<1>7. Cardinality(S) * n = n * Cardinality(S)
  BY <1>6
<1> QED BY <1>5, <1>7, FoldCounts DEF Count

\* Every place of a filtered sequence holds a kept entry, and every kept entry
\* has its place.
LEMMA FilteredEntries ==
  ASSUME NEW n \in Nat, NEW I \in SUBSET (1..n), NEW seq,
         NEW kept, kept = AtIndices(seq, I)
  PROVE  /\ \A k \in DOMAIN kept : \E i \in I : kept[k] = seq[i]
         /\ \A i \in I : \E k \in DOMAIN kept : kept[k] = seq[i]
<1> DEFINE m == Cardinality(I)
           pick(k) == CHOOSE i \in I : Rank(I, i) = k
<1>1. m \in Nat /\ \A i \in I : Rank(I, i) \in 1..m
  BY RankOrder
<1>2. \A i, j \in I : Rank(I, i) = Rank(I, j) => i = j
  BY RankOnto
<1>3. \A k \in 1..m : \E i \in I : Rank(I, i) = k
  BY RankOnto
<1> HIDE DEF m
<1>4. \A k \in 1..m : pick(k) \in I /\ Rank(I, pick(k)) = k
  BY <1>3
<1>5. \A i \in I : pick(Rank(I, i)) = i
  BY <1>1, <1>2, <1>4
<1>6. kept = [k \in 1..m |-> seq[pick(k)]]
  BY DEF AtIndices, m
<1> HIDE DEF pick
<1> QED BY <1>1, <1>4, <1>5, <1>6
=============================================================================
