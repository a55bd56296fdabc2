-------------------------- MODULE AggregateProofs --------------------------
(***************************************************************************)
(* Theorems about Aggregate, for every batch of call records: what its     *)
(* commands add to the counters, to the boards and to the totals.          *)
(*                                                                         *)
(* The sums of the model are folds.  The first part shows what a fold      *)
(* computes: induction over a number or a finite set is stated with a set  *)
(* instead of a predicate, and a sum is the size of a heap, which has as   *)
(* many elements for each summand as that is worth.                        *)
(***************************************************************************)
EXTENDS Aggregate, FiniteSetTheorems, WellFoundedInduction, TLAPS

-----------------------------------------------------------------------------
(* Induction. *)

LEMMA Smallest ==
    ASSUME NEW S, S \subseteq Nat, S # {}
    PROVE  \E n \in S : \A m \in S : n <= m
<1>1. PICK n \in S : \A m \in S : ~ (<<m, n>> \in OpToRel(<, Nat))
  BY NatLessThanWellFounded, WFMin
<1>2. \A m \in S : ~ (m < n)
  <2> TAKE m \in S
  <2>1. n \in Nat /\ m \in Nat
    OBVIOUS
  <2>2. <<m, n>> \in OpToRel(<, Nat) <=> m < n
    BY <2>1, Zenon DEF OpToRel
  <2> QED
    BY <1>1, <2>2, Zenon
<1> QED
  BY <1>2

LEMMA NumberInduction ==
    ASSUME NEW S, 0 \in S, \A n \in Nat : n \in S => n + 1 \in S
    PROVE  Nat \subseteq S
<1>1. SUFFICES ASSUME Nat \ S # {} PROVE FALSE
  OBVIOUS
<1>2. PICK n \in Nat \ S : \A m \in Nat \ S : n <= m
  BY <1>1, Smallest
<1>3. n # 0 /\ n - 1 \in Nat /\ (n - 1) + 1 = n
  BY <1>2
<1>4. n - 1 \in S
  BY <1>2, <1>3
<1> QED
  BY <1>2, <1>3, <1>4

(* A property of the empty set that a set has when it has it without any    *)
(* one of its elements is one of all finite sets: C is the set of the sets  *)
(* that have it.                                                            *)
LEMMA SizeInduction ==
    ASSUME NEW S, IsFiniteSet(S), NEW C, {} \in C,
           \A T \in SUBSET S : T # {} /\ (\A x \in T : T \ {x} \in C) => T \in C
    PROVE  S \in C
<1> DEFINE sizes == {n \in Nat : \A T \in SUBSET S : Cardinality(T) = n => T \in C}
<1>1. \A T \in SUBSET S : IsFiniteSet(T) /\ Cardinality(T) \in Nat
  BY FS_Subset, FS_CardinalityType
<1>2. 0 \in sizes
  BY <1>1, FS_EmptySet
<1>3. ASSUME NEW n \in Nat, n \in sizes PROVE n + 1 \in sizes
  <2> SUFFICES ASSUME NEW T \in SUBSET S, Cardinality(T) = n + 1 PROVE T \in C
    OBVIOUS
  <2>1. T # {}
    BY <1>1, FS_EmptySet
  <2>2. ASSUME NEW x \in T PROVE T \ {x} \in C
    <3>1. Cardinality(T \ {x}) = Cardinality(T) - 1
      BY <1>1, FS_RemoveElement
    <3>2. Cardinality(T \ {x}) = n
      BY <3>1
    <3> QED
      BY <1>3, <3>2
  <2> QED
    BY <2>1, <2>2
<1>4. Cardinality(S) \in sizes
  <2> HIDE DEF sizes
  <2>1. Nat \subseteq sizes
    BY <1>2, <1>3, NumberInduction
  <2> QED
    BY <1>1, <2>1
<1> QED
  BY <1>4

(* The same, one element added at a time.                                   *)
LEMMA SetInduction ==
    ASSUME NEW S, IsFiniteSet(S), NEW C, {} \in C,
           \A T \in SUBSET S : \A x \in S \ T : T \in C => T \cup {x} \in C
    PROVE  S \in C
<1>1. ASSUME NEW T \in SUBSET S, T # {}, \A x \in T : T \ {x} \in C PROVE T \in C
  <2>1. PICK x \in T : T \ {x} \in C
    BY <1>1
  <2>2. T \ {x} \in SUBSET S /\ x \in S \ (T \ {x}) /\ (T \ {x}) \cup {x} = T
    OBVIOUS
  <2> QED
    BY <2>1, <2>2
<1> QED
  BY <1>1, SizeInduction

-----------------------------------------------------------------------------
(* Sums. *)

Heap(w, S) == {p \in S \X Nat : 1 <= p[2] /\ p[2] <= w[p[1]]}

SumOf(w, S) == Cardinality(Heap(w, S))

Naturals(w, S) == IsFiniteSet(S) /\ \A x \in S : w[x] \in Nat

LEMMA HeapOfNone == \A w : Heap(w, {}) = {}
BY DEF Heap

LEMMA HeapOfMore ==
    ASSUME NEW w, NEW T, NEW x, x \notin T, w[x] \in Nat
    PROVE  /\ Heap(w, T \cup {x}) = Heap(w, T) \cup Heap(w, {x})
           /\ Heap(w, T) \cap Heap(w, {x}) = {}
           /\ IsFiniteSet(Heap(w, {x})) /\ Cardinality(Heap(w, {x})) = w[x]
<1>1. Heap(w, T \cup {x}) = Heap(w, T) \cup Heap(w, {x})
  BY DEF Heap
<1>2. Heap(w, T) \cap Heap(w, {x}) = {}
  BY DEF Heap
<1>3. Heap(w, {x}) = {x} \X (1 .. w[x])
  BY DEF Heap
<1>4. PICK n \in Nat : n = w[x]
  OBVIOUS
<1>5. IsFiniteSet(1 .. n) /\ Cardinality(1 .. n) = n
  <2>1. 1 \in Int /\ n \in Int
    OBVIOUS
  <2>2. /\ IsFiniteSet(1 .. n)
        /\ Cardinality(1 .. n) = IF 1 > n THEN 0 ELSE n - 1 + 1
    BY <2>1, FS_Interval
  <2> QED
    BY <2>2
<1>6. IsFiniteSet({x}) /\ Cardinality({x}) = 1
  BY FS_Singleton
<1>7. /\ IsFiniteSet({x} \X (1 .. n))
      /\ Cardinality({x} \X (1 .. n)) = Cardinality({x}) * Cardinality(1 .. n)
  BY <1>5, <1>6, FS_Product
<1>8. Cardinality({x} \X (1 .. n)) = n
  BY <1>5, <1>6, <1>7
<1>9. Heap(w, {x}) = {x} \X (1 .. n)
  BY <1>3, <1>4
<1>10. IsFiniteSet(Heap(w, {x})) /\ Cardinality(Heap(w, {x})) = w[x]
  BY <1>4, <1>7, <1>8, <1>9
<1> QED
  BY <1>1, <1>2, <1>10

LEMMA HeapIsFinite ==
    ASSUME NEW w, NEW S, Naturals(w, S)
    PROVE  IsFiniteSet(Heap(w, S)) /\ SumOf(w, S) \in Nat
<1> DEFINE C == {T \in SUBSET S : IsFiniteSet(Heap(w, T))}
<1>1. {} \in C
  BY HeapOfNone, FS_EmptySet
<1>2. ASSUME NEW T \in SUBSET S, NEW x \in S \ T, T \in C PROVE T \cup {x} \in C
  <2>1. w[x] \in Nat
    BY DEF Naturals
  <2>2. /\ Heap(w, T \cup {x}) = Heap(w, T) \cup Heap(w, {x})
        /\ IsFiniteSet(Heap(w, T)) /\ IsFiniteSet(Heap(w, {x}))
    BY <1>2, <2>1, HeapOfMore
  <2>3. IsFiniteSet(Heap(w, T) \cup Heap(w, {x}))
    BY <2>2, FS_Union
  <2> QED
    BY <2>2, <2>3
<1>3. S \in C
  <2> HIDE DEF C
  <2> QED
    BY <1>1, <1>2, SetInduction DEF Naturals
<1>4. IsFiniteSet(Heap(w, S))
  BY <1>3
<1> QED
  BY <1>4, FS_CardinalityType DEF SumOf

LEMMA SumOfNone == \A w : SumOf(w, {}) = 0
BY HeapOfNone, FS_EmptySet DEF SumOf

LEMMA SumOfMore ==
    ASSUME NEW w, NEW T, NEW x, x \notin T, Naturals(w, T), w[x] \in Nat
    PROVE  SumOf(w, T \cup {x}) = SumOf(w, T) + w[x]
<1>1. IsFiniteSet(Heap(w, T)) /\ Cardinality(Heap(w, T)) \in Nat
  BY HeapIsFinite DEF SumOf
<1>2. /\ Heap(w, T \cup {x}) = Heap(w, T) \cup Heap(w, {x})
      /\ Heap(w, T) \cap Heap(w, {x}) = {}
      /\ IsFiniteSet(Heap(w, {x})) /\ Cardinality(Heap(w, {x})) = w[x]
  BY HeapOfMore
<1>3. Cardinality(Heap(w, T) \cup Heap(w, {x})) =
          Cardinality(Heap(w, T)) + Cardinality(Heap(w, {x})) - Cardinality(Heap(w, T) \cap Heap(w, {x}))
  BY <1>1, <1>2, FS_Union
<1>4. Cardinality(Heap(w, T) \cap Heap(w, {x})) = 0
  BY <1>2, FS_EmptySet
<1>5. Cardinality(Heap(w, T \cup {x})) = Cardinality(Heap(w, T)) + w[x]
  <2>1. PICK a \in Nat, b \in Nat : a = Cardinality(Heap(w, T)) /\ b = w[x]
    BY <1>1
  <2>2. Cardinality(Heap(w, T) \cup Heap(w, {x})) = a + b - 0
    BY <1>2, <1>3, <1>4, <2>1
  <2>3. a + b - 0 = a + b
    OBVIOUS
  <2> QED
    BY <1>2, <2>1, <2>2, <2>3, Zenon
<1> QED
  BY <1>5 DEF SumOf

LEMMA SumOfSame ==
    ASSUME NEW v, NEW w, NEW S, \A x \in S : v[x] = w[x]
    PROVE  SumOf(v, S) = SumOf(w, S)
<1>1. Heap(v, S) = Heap(w, S)
  BY DEF Heap
<1> QED
  BY <1>1 DEF SumOf

LEMMA SumOfNothing ==
    ASSUME NEW w, NEW S, \A x \in S : w[x] = 0
    PROVE  SumOf(w, S) = 0
<1>1. Heap(w, S) = {}
  BY DEF Heap
<1> QED
  BY <1>1, FS_EmptySet DEF SumOf

LEMMA SumOfLess ==
    ASSUME NEW v, NEW w, NEW S, Naturals(w, S), \A x \in S : v[x] \in Nat /\ v[x] <= w[x]
    PROVE  SumOf(v, S) <= SumOf(w, S)
<1>1. Heap(v, S) \in SUBSET Heap(w, S)
  <2> SUFFICES ASSUME NEW p \in Heap(v, S) PROVE p \in Heap(w, S)
    OBVIOUS
  <2>1. p \in S \X Nat /\ 1 <= p[2] /\ p[2] <= v[p[1]]
    BY DEF Heap
  <2>2. v[p[1]] \in Nat /\ w[p[1]] \in Nat /\ v[p[1]] <= w[p[1]] /\ p[2] \in Nat
    BY <2>1 DEF Naturals
  <2> QED
    BY <2>1, <2>2 DEF Heap
<1>2. IsFiniteSet(Heap(w, S))
  BY HeapIsFinite
<1> QED
  BY <1>1, <1>2, FS_Subset DEF SumOf

LEMMA SumOfOne ==
    ASSUME NEW w, NEW x, w[x] \in Nat
    PROVE  SumOf(w, {x}) = w[x]
<1>1. Cardinality(Heap(w, {x})) = w[x]
  BY HeapOfMore
<1> QED
  BY <1>1 DEF SumOf

LEMMA SumOfUnion ==
    ASSUME NEW w, NEW S, NEW T, Naturals(w, S), Naturals(w, T), S \cap T = {}
    PROVE  /\ Naturals(w, S \cup T)
           /\ SumOf(w, S \cup T) = SumOf(w, S) + SumOf(w, T)
<1>1. Naturals(w, S \cup T)
  BY FS_Union DEF Naturals
<1>2. /\ Heap(w, S \cup T) = Heap(w, S) \cup Heap(w, T)
      /\ Heap(w, S) \cap Heap(w, T) = {}
  BY DEF Heap
<1>3. /\ IsFiniteSet(Heap(w, S)) /\ SumOf(w, S) \in Nat
      /\ IsFiniteSet(Heap(w, T)) /\ SumOf(w, T) \in Nat
  BY HeapIsFinite
<1>4. Cardinality(Heap(w, S) \cup Heap(w, T)) =
          Cardinality(Heap(w, S)) + Cardinality(Heap(w, T)) - Cardinality(Heap(w, S) \cap Heap(w, T))
  BY <1>3, FS_Union
<1>5. PICK a \in Nat, b \in Nat : a = SumOf(w, S) /\ b = SumOf(w, T)
  BY <1>3
<1>6. Cardinality(Heap(w, S) \cap Heap(w, T)) = 0
  BY <1>2, FS_EmptySet
<1>7. SumOf(w, S \cup T) = a + b - 0
  BY <1>2, <1>4, <1>5, <1>6, Zenon DEF SumOf
<1>8. a + b - 0 = a + b
  OBVIOUS
<1> QED
  BY <1>1, <1>5, <1>7, <1>8, Zenon

LEMMA SumOfPlus ==
    ASSUME NEW u, NEW v, NEW w, NEW S, Naturals(v, S), Naturals(w, S),
           \A x \in S : u[x] = v[x] + w[x]
    PROVE  /\ Naturals(u, S)
           /\ SumOf(u, S) = SumOf(v, S) + SumOf(w, S)
<1> DEFINE C == {T \in SUBSET S : SumOf(u, T) = SumOf(v, T) + SumOf(w, T)}
<1>1. {} \in C
  BY SumOfNone
<1>2. ASSUME NEW T \in SUBSET S, NEW x \in S \ T, T \in C PROVE T \cup {x} \in C
  <2>1. \A U \in SUBSET S : Naturals(v, U) /\ Naturals(w, U) /\ Naturals(u, U)
    BY FS_Subset DEF Naturals
  <2>2. v[x] \in Nat /\ w[x] \in Nat /\ u[x] = v[x] + w[x]
    BY DEF Naturals
  <2>3. /\ SumOf(u, T \cup {x}) = SumOf(u, T) + u[x]
        /\ SumOf(v, T \cup {x}) = SumOf(v, T) + v[x]
        /\ SumOf(w, T \cup {x}) = SumOf(w, T) + w[x]
    <3>1. Naturals(u, T) /\ Naturals(v, T) /\ Naturals(w, T) /\ u[x] \in Nat /\ x \notin T
      BY <2>1, <2>2
    <3>2. SumOf(u, T \cup {x}) = SumOf(u, T) + u[x]
      BY <3>1, SumOfMore
    <3>3. SumOf(v, T \cup {x}) = SumOf(v, T) + v[x]
      BY <2>2, <3>1, SumOfMore
    <3>4. SumOf(w, T \cup {x}) = SumOf(w, T) + w[x]
      BY <2>2, <3>1, SumOfMore
    <3> QED
      BY <3>2, <3>3, <3>4
  <2>4. SumOf(v, T) \in Nat /\ SumOf(w, T) \in Nat
    BY <2>1, HeapIsFinite
  <2>5. SumOf(u, T) = SumOf(v, T) + SumOf(w, T)
    BY <1>2
  <2>6. SumOf(u, T \cup {x}) = SumOf(v, T \cup {x}) + SumOf(w, T \cup {x})
    BY <2>2, <2>3, <2>4, <2>5
  <2> QED
    BY <2>6
<1>3. S \in C
  <2> HIDE DEF C
  <2> QED
    BY <1>1, <1>2, SetInduction DEF Naturals
<1> QED
  BY <1>3 DEF Naturals

(* Both parts of a sequence are sums over numbers of their own.             *)
LEMMA SumOfShifted ==
    ASSUME NEW v, NEW w, NEW n \in Nat, NEW m \in Nat, Naturals(w, 1 .. m),
           \A i \in 1 .. m : w[i] = v[i + n]
    PROVE  SumOf(v, n + 1 .. n + m) = SumOf(w, 1 .. m)
<1>1. ASSUME NEW k \in Nat, k <= m
      PROVE  Naturals(w, 1 .. k) /\ Naturals(v, n + 1 .. n + k)
  <2>1. 1 .. k \subseteq 1 .. m
    BY <1>1
  <2>2. n + 1 \in Int /\ n + k \in Int
    OBVIOUS
  <2>3. IsFiniteSet(n + 1 .. n + k)
    BY <2>2, FS_Interval
  <2>4. ASSUME NEW j \in n + 1 .. n + k PROVE v[j] \in Nat
    <3>1. PICK i \in 1 .. m : j = i + n
      BY <1>1
    <3> QED
      BY <3>1 DEF Naturals
  <2> QED
    BY <2>1, <2>3, <2>4, FS_Subset DEF Naturals
<1> DEFINE L == {k \in Nat : k <= m => SumOf(v, n + 1 .. n + k) = SumOf(w, 1 .. k)}
<1>2. 0 \in L
  <2>1. n + 1 .. n + 0 = {} /\ 1 .. 0 = {}
    OBVIOUS
  <2> QED
    BY <2>1, SumOfNone
<1>3. ASSUME NEW k \in Nat, k \in L PROVE k + 1 \in L
  <2> SUFFICES ASSUME k + 1 <= m
               PROVE  SumOf(v, n + 1 .. n + (k + 1)) = SumOf(w, 1 .. k + 1)
    OBVIOUS
  <2>1. PICK x \in Nat, y \in Nat : x = k + 1 /\ y = x + n
    OBVIOUS
  <2>2. PICK S, T : S = 1 .. k /\ T = n + 1 .. n + k
    OBVIOUS
  <2>3. /\ n + 1 .. n + (k + 1) = T \cup {y} /\ y \notin T
        /\ 1 .. k + 1 = S \cup {x} /\ x \notin S
        /\ x \in 1 .. m /\ k <= m
    BY <2>1, <2>2
  <2>4. w[x] \in Nat /\ v[y] = w[x]
    BY <2>1, <2>3 DEF Naturals
  <2>5. Naturals(w, S) /\ Naturals(v, T)
    BY <1>1, <2>2, <2>3
  <2>6. SumOf(w, S \cup {x}) = SumOf(w, S) + w[x]
    BY <2>3, <2>4, <2>5, SumOfMore
  <2>7. SumOf(v, T \cup {y}) = SumOf(v, T) + v[y]
    BY <2>3, <2>4, <2>5, SumOfMore
  <2>8. SumOf(v, T) = SumOf(w, S)
    BY <1>3, <2>2, <2>3
  <2> QED
    BY <2>3, <2>4, <2>6, <2>7, <2>8
<1>4. m \in L
  <2> HIDE DEF L
  <2> QED
    BY <1>2, <1>3, NumberInduction
<1> QED
  BY <1>4

LEMMA SumOfTwo ==
    ASSUME NEW w, NEW x, NEW y, x # y, w[x] \in Nat, w[y] \in Nat
    PROVE  SumOf(w, {x, y}) = w[x] + w[y]
<1>1. SumOf(w, {x}) = w[x]
  BY SumOfOne
<1>2. Naturals(w, {x})
  BY FS_Singleton DEF Naturals
<1>3. SumOf(w, {x} \cup {y}) = SumOf(w, {x}) + w[y]
  BY <1>2, SumOfMore
<1>4. {x} \cup {y} = {x, y}
  OBVIOUS
<1> QED
  BY <1>1, <1>3, <1>4

LEMMA SumOfNext ==
    ASSUME NEW w, NEW T, NEW x, NEW n \in Nat,
           Naturals(w, T), SumOf(w, T) = n, x \notin T, w[x] \in Nat
    PROVE  Naturals(w, T \cup {x}) /\ SumOf(w, T \cup {x}) = n + w[x]
<1>1. Naturals(w, T \cup {x})
  BY FS_AddElement DEF Naturals
<1> QED
  BY <1>1, SumOfMore

(* A part of a sum is less than the whole, and the whole if the rest is 0.  *)
LEMMA SumOfPart ==
    ASSUME NEW w, NEW S, Naturals(w, S), NEW T \in SUBSET S, \A x \in S \ T : w[x] = 0
    PROVE  SumOf(w, T) = SumOf(w, S)
<1>1. Naturals(w, T) /\ Naturals(w, S \ T)
  BY FS_Subset DEF Naturals
<1>2. SumOf(w, S \ T) = 0
  BY SumOfNothing
<1>3. SumOf(w, T \cup (S \ T)) = SumOf(w, T) + SumOf(w, S \ T)
  BY <1>1, SumOfUnion
<1>4. SumOf(w, T) \in Nat
  BY <1>1, HeapIsFinite
<1>5. T \cup (S \ T) = S
  OBVIOUS
<1>6. SumOf(w, S) = SumOf(w, T) + 0
  BY <1>2, <1>3, <1>5
<1> QED
  BY <1>4, <1>6

(* SumOver, by which the model adds up a delta as the += of delta.hpp do,   *)
(* is the sum of the numbers, in whatever order they are taken.             *)
THEOREM FoldIsSum ==
    ASSUME NEW w, NEW S, Naturals(w, S)
    PROVE  SumOver(w, S) = SumOf(w, S)
<1> DEFINE Iter(g) == [s \in SUBSET S |-> IF s = {} THEN 0
                          ELSE LET x == CHOOSE x \in s : TRUE IN w[x] + g[s \ {x}]]
           sums == [s \in SUBSET S |-> SumOf(w, s)]
           iter == CHOOSE g : g = Iter(g)
<1>1. ASSUME NEW s \in SUBSET S, s # {}, NEW x, x = CHOOSE y \in s : TRUE
      PROVE  /\ x \in s /\ w[x] \in Nat
             /\ SumOf(w, s \ {x}) \in Nat
             /\ SumOf(w, s) = w[x] + SumOf(w, s \ {x})
  <2>1. x \in s
    BY <1>1
  <2>2. w[x] \in Nat /\ Naturals(w, s \ {x})
    BY <2>1, FS_Subset DEF Naturals
  <2>3. SumOf(w, (s \ {x}) \cup {x}) = SumOf(w, s \ {x}) + w[x]
    BY <2>2, SumOfMore
  <2>4. (s \ {x}) \cup {x} = s
    BY <2>1
  <2>5. SumOf(w, s \ {x}) \in Nat
    BY <2>2, HeapIsFinite
  <2>6. SumOf(w, s) = SumOf(w, s \ {x}) + w[x]
    BY <2>3, <2>4, Zenon
  <2> QED
    BY <2>1, <2>2, <2>5, <2>6
<1>2. sums = Iter(sums)
  <2>1. ASSUME NEW s \in SUBSET S
        PROVE  sums[s] = IF s = {} THEN 0
                         ELSE LET x == CHOOSE x \in s : TRUE IN w[x] + sums[s \ {x}]
    <3>1. CASE s = {}
      BY <3>1, SumOfNone
    <3>2. CASE s # {}
      <4>1. PICK x : x = CHOOSE y \in s : TRUE
        OBVIOUS
      <4>2. SumOf(w, s) = w[x] + SumOf(w, s \ {x})
        BY <1>1, <3>2, <4>1
      <4>3. s \ {x} \in SUBSET S
        OBVIOUS
      <4> QED
        BY <3>2, <4>1, <4>2, <4>3
    <3> QED
      BY <3>1, <3>2
  <2> QED
    BY <2>1
<1>3. iter = Iter(iter)
  <2> HIDE DEF sums, Iter
  <2> QED
    BY <1>2
<1>4. ASSUME NEW s \in SUBSET S
      PROVE  iter[s] = IF s = {} THEN 0
                       ELSE LET x == CHOOSE x \in s : TRUE IN w[x] + iter[s \ {x}]
  <2> HIDE DEF iter
  <2> QED
    BY <1>3
<1> HIDE DEF iter
<1> DEFINE C == {s \in SUBSET S : iter[s] = SumOf(w, s)}
<1>5. {} \in C
  BY <1>4, SumOfNone
<1>6. ASSUME NEW s \in SUBSET S, s # {}, \A x \in s : s \ {x} \in C PROVE s \in C
  <2>1. PICK x : x = CHOOSE y \in s : TRUE
    OBVIOUS
  <2>2. x \in s /\ SumOf(w, s) = w[x] + SumOf(w, s \ {x})
    BY <1>1, <1>6, <2>1
  <2>3. iter[s \ {x}] = SumOf(w, s \ {x})
    BY <1>6, <2>2
  <2>4. iter[s] = w[x] + iter[s \ {x}]
    BY <1>4, <1>6, <2>1
  <2> QED
    BY <2>2, <2>3, <2>4
<1>7. S \in C
  <2> HIDE DEF C
  <2> QED
    BY <1>5, <1>6, SizeInduction DEF Naturals
<1>8. SumOver(w, S) = iter[S]
  BY DEF SumOver, MapThenSumSet, MapThenFoldSet, iter
<1> QED
  BY <1>7, <1>8

-----------------------------------------------------------------------------
(* What a sequence of commands adds to a set of cells, and what cells hold. *)

Additions(X) == [cell : X, by : Nat]

Counted(adds, C) == [i \in DOMAIN adds |-> IF adds[i].cell \in C THEN adds[i].by ELSE 0]

AddedTo(adds, C) == SumOf(Counted(adds, C), DOMAIN adds)

Holds(cells, X) ==
    /\ IsFiniteSet(DOMAIN cells) /\ DOMAIN cells \subseteq X
    /\ cells \in [DOMAIN cells -> Nat]

HeldIn(cells, C) == SumOf(cells, {c \in DOMAIN cells : c \in C})

LEMMA CountsAreNaturals ==
    ASSUME NEW X, NEW adds \in Seq(Additions(X)), NEW C
    PROVE  Naturals(Counted(adds, C), DOMAIN adds) /\ AddedTo(adds, C) \in Nat
<1>1. PICK n \in Nat : DOMAIN adds = 1 .. n
  OBVIOUS
<1>2. IsFiniteSet(1 .. n)
  <2>1. 1 \in Int /\ n \in Int
    OBVIOUS
  <2> QED
    BY <2>1, FS_Interval
<1>3. ASSUME NEW i \in DOMAIN adds PROVE Counted(adds, C)[i] \in Nat
  <2>1. adds[i] \in Additions(X)
    OBVIOUS
  <2>2. adds[i].by \in Nat
    BY <2>1 DEF Additions
  <2> QED
    BY <2>2 DEF Counted
<1>4. Naturals(Counted(adds, C), DOMAIN adds)
  BY <1>1, <1>2, <1>3 DEF Naturals
<1> QED
  BY <1>4, HeapIsFinite DEF AddedTo

LEMMA NothingAdded == \A C : AddedTo(<<>>, C) = 0
BY SumOfNone DEF AddedTo

LEMMA OneAdded ==
    ASSUME NEW x, x.by \in Nat, NEW C
    PROVE  AddedTo(<<x>>, C) = IF x.cell \in C THEN x.by ELSE 0
<1>1. DOMAIN <<x>> = {1}
  OBVIOUS
<1>2. Counted(<<x>>, C)[1] = IF x.cell \in C THEN x.by ELSE 0
  BY DEF Counted
<1>3. SumOf(Counted(<<x>>, C), {1}) = Counted(<<x>>, C)[1]
  <2>1. Counted(<<x>>, C)[1] \in Nat
    BY <1>2
  <2> QED
    BY <2>1, SumOfOne
<1> QED
  BY <1>1, <1>2, <1>3 DEF AddedTo

LEMMA BothAdded ==
    ASSUME NEW X, NEW s \in Seq(Additions(X)), NEW t \in Seq(Additions(X)), NEW C
    PROVE  /\ s \o t \in Seq(Additions(X))
           /\ AddedTo(s \o t, C) = AddedTo(s, C) + AddedTo(t, C)
<1> DEFINE u == s \o t
<1>1. PICK n \in Nat, m \in Nat : n = Len(s) /\ m = Len(t)
  OBVIOUS
<1>2. u \in Seq(Additions(X)) /\ Len(u) = n + m
  BY <1>1
<1>3. /\ DOMAIN s = 1 .. n /\ DOMAIN t = 1 .. m
      /\ DOMAIN u = (1 .. n) \cup (n + 1 .. n + m)
      /\ (1 .. n) \cap (n + 1 .. n + m) = {}
  BY <1>1, <1>2
<1>4. /\ \A i \in 1 .. n : Counted(u, C)[i] = Counted(s, C)[i]
      /\ \A i \in 1 .. m : Counted(u, C)[i + n] = Counted(t, C)[i]
  BY <1>1, <1>3 DEF Counted
<1>5. /\ Naturals(Counted(u, C), 1 .. n)
      /\ Naturals(Counted(u, C), n + 1 .. n + m)
  <2>1. Naturals(Counted(u, C), DOMAIN u)
    BY <1>2, CountsAreNaturals
  <2>2. 1 .. n \subseteq DOMAIN u /\ n + 1 .. n + m \subseteq DOMAIN u
    BY <1>3
  <2> QED
    BY <2>1, <2>2, FS_Subset DEF Naturals
<1>6. SumOf(Counted(u, C), 1 .. n) = AddedTo(s, C)
  BY <1>3, <1>4, SumOfSame DEF AddedTo
<1>7. SumOf(Counted(u, C), n + 1 .. n + m) = AddedTo(t, C)
  <2>1. PICK v, w : v = Counted(u, C) /\ w = Counted(t, C)
    OBVIOUS
  <2>2. \A i \in 1 .. m : w[i] = v[i + n]
    BY <1>4, <2>1
  <2>3. Naturals(w, 1 .. m)
    BY <1>3, <2>1, CountsAreNaturals
  <2>4. SumOf(v, n + 1 .. n + m) = SumOf(w, 1 .. m)
    BY <2>2, <2>3, SumOfShifted
  <2> QED
    BY <1>3, <2>1, <2>4 DEF AddedTo
<1>8. SumOf(Counted(u, C), (1 .. n) \cup (n + 1 .. n + m)) =
          SumOf(Counted(u, C), 1 .. n) + SumOf(Counted(u, C), n + 1 .. n + m)
  BY <1>3, <1>5, SumOfUnion
<1>9. AddedTo(u, C) = AddedTo(s, C) + AddedTo(t, C)
  BY <1>3, <1>6, <1>7, <1>8, Zenon DEF AddedTo
<1> QED
  BY <1>2, <1>9

(* The sums by cell hold what was added to each.                            *)
LEMMA SummedByCell ==
    ASSUME NEW X, NEW adds \in Seq(Additions(X))
    PROVE  /\ Holds(Summed(adds), X)
           /\ DOMAIN Summed(adds) = {adds[i].cell : i \in DOMAIN adds}
           /\ \A c \in DOMAIN Summed(adds) : Summed(adds)[c] = AddedTo(adds, {c})
<1> DEFINE D == {adds[i].cell : i \in DOMAIN adds}
<1>1. \A i \in DOMAIN adds : adds[i].cell \in X /\ adds[i].by \in Nat
  <2> TAKE i \in DOMAIN adds
  <2>1. adds[i] \in Additions(X)
    OBVIOUS
  <2> QED
    BY <2>1 DEF Additions
<1>2. D = {x.cell : x \in ToSet(adds)}
  BY DEF ToSet
<1>3. IsFiniteSet(D)
  <2>1. PICK n \in Nat : DOMAIN adds = 1 .. n
    OBVIOUS
  <2>2. IsFiniteSet(DOMAIN adds)
    <3>1. 1 \in Int /\ n \in Int
      OBVIOUS
    <3> QED
      BY <2>1, <3>1, FS_Interval
  <2>3. [i \in DOMAIN adds |-> adds[i].cell] \in Surjection(DOMAIN adds, D)
    BY DEF Surjection
  <2> QED
    BY <2>2, <2>3, FS_Surjection
<1>4. ASSUME NEW c
      PROVE  SumOver([i \in DOMAIN adds |-> IF adds[i].cell = c THEN adds[i].by ELSE 0], DOMAIN adds)
                 = AddedTo(adds, {c})
  <2>1. [i \in DOMAIN adds |-> IF adds[i].cell = c THEN adds[i].by ELSE 0] = Counted(adds, {c})
    BY DEF Counted
  <2>2. Naturals(Counted(adds, {c}), DOMAIN adds)
    BY CountsAreNaturals
  <2>3. SumOver(Counted(adds, {c}), DOMAIN adds) = SumOf(Counted(adds, {c}), DOMAIN adds)
    BY <2>2, FoldIsSum
  <2> QED
    BY <2>1, <2>3 DEF AddedTo
<1>5. Summed(adds) = [c \in D |-> AddedTo(adds, {c})]
  BY <1>2, <1>4 DEF Summed
<1>6. \A c : AddedTo(adds, {c}) \in Nat
  BY CountsAreNaturals
<1> HIDE DEF D
<1>7. DOMAIN Summed(adds) = D /\ \A c \in D : Summed(adds)[c] = AddedTo(adds, {c})
  BY <1>5
<1>8. Summed(adds) \in [D -> Nat]
  BY <1>5, <1>6
<1>9. D \subseteq X
  BY <1>1 DEF D
<1> QED
  BY <1>3, <1>7, <1>8, <1>9 DEF Holds, D

Countable(adds) == IsFiniteSet(DOMAIN adds) /\ \A i \in DOMAIN adds : adds[i].by \in Nat

LEMMA SequencesCount ==
    ASSUME NEW X, NEW adds \in Seq(Additions(X))
    PROVE  Countable(adds)
<1>1. IsFiniteSet(DOMAIN adds)
  BY CountsAreNaturals DEF Naturals
<1>2. ASSUME NEW i \in DOMAIN adds PROVE adds[i].by \in Nat
  <2>1. adds[i] \in Additions(X)
    OBVIOUS
  <2> QED
    BY <2>1 DEF Additions
<1> QED
  BY <1>1, <1>2 DEF Countable

LEMMA CountableSums ==
    ASSUME NEW adds, Countable(adds), NEW C
    PROVE  Naturals(Counted(adds, C), DOMAIN adds) /\ AddedTo(adds, C) \in Nat
<1>1. Naturals(Counted(adds, C), DOMAIN adds)
  BY DEF Countable, Naturals, Counted
<1> QED
  BY <1>1, HeapIsFinite DEF AddedTo

(* Sums over sets of cells that share none. *)
LEMMA AddedApart ==
    ASSUME NEW adds, Countable(adds), NEW C, NEW D, C \cap D = {}
    PROVE  AddedTo(adds, C \cup D) = AddedTo(adds, C) + AddedTo(adds, D)
<1>1. PICK u, v, w : /\ u = Counted(adds, C \cup D)
                     /\ v = Counted(adds, C) /\ w = Counted(adds, D)
  OBVIOUS
<1>2. Naturals(v, DOMAIN adds) /\ Naturals(w, DOMAIN adds)
  BY <1>1, CountableSums
<1>3. ASSUME NEW i \in DOMAIN adds PROVE u[i] = v[i] + w[i]
  BY <1>1 DEF Countable, Counted
<1>4. SumOf(u, DOMAIN adds) = SumOf(v, DOMAIN adds) + SumOf(w, DOMAIN adds)
  BY <1>2, <1>3, SumOfPlus
<1> QED
  BY <1>1, <1>4 DEF AddedTo

LEMMA AddedByCell ==
    ASSUME NEW adds, Countable(adds), NEW E, IsFiniteSet(E), NEW w,
           \A c \in E : w[c] = AddedTo(adds, {c})
    PROVE  SumOf(w, E) = AddedTo(adds, E)
<1> DEFINE C == {T \in SUBSET E : SumOf(w, T) = AddedTo(adds, T)}
<1>1. {} \in C
  <2>1. AddedTo(adds, {}) = 0
    BY SumOfNothing DEF AddedTo, Counted
  <2> QED
    BY <2>1, SumOfNone
<1>2. ASSUME NEW T \in SUBSET E, NEW c \in E \ T, T \in C PROVE T \cup {c} \in C
  <2>1. AddedTo(adds, T \cup {c}) = AddedTo(adds, T) + AddedTo(adds, {c})
    BY AddedApart
  <2>2. Naturals(w, T) /\ w[c] = AddedTo(adds, {c}) /\ w[c] \in Nat
    <3>1. IsFiniteSet(T)
      BY FS_Subset
    <3>2. ASSUME NEW d \in E PROVE w[d] = AddedTo(adds, {d}) /\ w[d] \in Nat
      BY CountableSums
    <3> QED
      BY <3>1, <3>2 DEF Naturals
  <2>3. SumOf(w, T \cup {c}) = SumOf(w, T) + w[c]
    BY <2>2, SumOfMore
  <2> QED
    BY <1>2, <2>1, <2>2, <2>3
<1>3. E \in C
  <2> HIDE DEF C
  <2> QED
    BY <1>1, <1>2, SetInduction
<1> QED
  BY <1>3

LEMMA HeldIsAdded ==
    ASSUME NEW X, NEW adds \in Seq(Additions(X)), NEW C
    PROVE  HeldIn(Summed(adds), C) = AddedTo(adds, C)
<1> DEFINE E == {c \in DOMAIN Summed(adds) : c \in C}
<1>1. /\ DOMAIN Summed(adds) = {adds[i].cell : i \in DOMAIN adds}
      /\ IsFiniteSet(E)
      /\ \A c \in E : Summed(adds)[c] = AddedTo(adds, {c})
  BY SummedByCell, FS_Subset DEF Holds
<1>2. HeldIn(Summed(adds), C) = AddedTo(adds, E)
  <2> HIDE DEF E
  <2>1. SumOf(Summed(adds), E) = AddedTo(adds, E)
    BY <1>1, SequencesCount, AddedByCell
  <2> QED
    BY <2>1 DEF HeldIn, E
<1>3. \A i \in DOMAIN adds : Counted(adds, E)[i] = Counted(adds, C)[i]
  BY <1>1 DEF Counted
<1>4. AddedTo(adds, E) = AddedTo(adds, C)
  BY <1>3, SumOfSame DEF AddedTo
<1> QED
  BY <1>2, <1>4

LEMMA AtIsHeld ==
    ASSUME NEW X, NEW cells, Holds(cells, X), NEW c
    PROVE  At(cells, c) \in Nat /\ At(cells, c) = HeldIn(cells, {c})
<1>1. CASE c \in DOMAIN cells
  <2>1. cells[c] \in Nat /\ {d \in DOMAIN cells : d \in {c}} = {c}
    BY <1>1 DEF Holds
  <2> QED
    BY <1>1, <2>1, SumOfOne DEF At, HeldIn
<1>2. CASE c \notin DOMAIN cells
  <2>1. {d \in DOMAIN cells : d \in {c}} = {}
    BY <1>2
  <2> QED
    BY <1>2, <2>1, SumOfNone DEF At, HeldIn
<1> QED
  BY <1>1, <1>2

-----------------------------------------------------------------------------
(* A batch record by record: FlattenSeq joins what each record adds. *)

(* g joins them one after the other.                                        *)
Joins(g, ss, n, X) ==
    /\ g[1] = ss[1]
    /\ \A i \in 1 .. n : g[i] \in Seq(X)
    /\ \A i, j \in 1 .. n : j = i + 1 => g[j] = g[i] \o ss[j]

LEMMA FlatByParts ==
    ASSUME NEW X, NEW n \in Nat \ {0}, NEW ss \in [1 .. n -> Seq(X)]
    PROVE  \E g : Joins(g, ss, n, X) /\ FlattenSeq(ss) = g[n]
<1> DEFINE Iter(g) == [i \in 1 .. n |-> IF i = 1 THEN ss[i] ELSE g[i - 1] \o ss[i]]
           L == {k \in Nat : \E g \in [1 .. n -> Seq(X)] :
                    \A i \in 1 .. n : i <= k => g[i] = IF i = 1 THEN ss[i] ELSE g[i - 1] \o ss[i]}
           iter == CHOOSE g : g = Iter(g)
<1>1. 0 \in L
  BY DEF L
<1>2. ASSUME NEW k \in Nat, k \in L PROVE k + 1 \in L
  <2>1. PICK g \in [1 .. n -> Seq(X)] :
            \A i \in 1 .. n : i <= k => g[i] = IF i = 1 THEN ss[i] ELSE g[i - 1] \o ss[i]
    BY <1>2
  <2> DEFINE h == [i \in 1 .. n |-> IF i = k + 1
                                    THEN IF i = 1 THEN ss[i] ELSE g[i - 1] \o ss[i]
                                    ELSE g[i]]
  <2>2. h \in [1 .. n -> Seq(X)]
    <3> SUFFICES ASSUME NEW i \in 1 .. n, i = k + 1, i # 1 PROVE g[i - 1] \o ss[i] \in Seq(X)
      OBVIOUS
    <3>1. i - 1 \in 1 .. n
      OBVIOUS
    <3> QED
      BY <3>1
  <2>3. ASSUME NEW i \in 1 .. n, i <= k + 1
        PROVE  h[i] = IF i = 1 THEN ss[i] ELSE h[i - 1] \o ss[i]
    <3>1. i # 1 => i - 1 \in 1 .. n /\ i - 1 # k + 1 /\ h[i - 1] = g[i - 1]
      BY <2>3
    <3>2. CASE i = k + 1
      BY <3>1, <3>2
    <3>3. CASE i # k + 1
      <4>1. i <= k
        BY <2>3, <3>3
      <4> QED
        BY <2>1, <3>1, <3>3, <4>1
    <3> QED
      BY <3>2, <3>3
  <2> HIDE DEF h
  <2>4. \E f \in [1 .. n -> Seq(X)] :
            \A i \in 1 .. n : i <= k + 1 => f[i] = IF i = 1 THEN ss[i] ELSE f[i - 1] \o ss[i]
    BY <2>2, <2>3
  <2>5. k + 1 \in Nat
    OBVIOUS
  <2> QED
    BY <2>4, <2>5, Zenon
<1>3. n \in L
  <2> HIDE DEF L
  <2> QED
    BY <1>1, <1>2, NumberInduction
<1>4. \E g : g = Iter(g)
  <2>1. PICK g \in [1 .. n -> Seq(X)] :
            \A i \in 1 .. n : g[i] = IF i = 1 THEN ss[i] ELSE g[i - 1] \o ss[i]
    BY <1>3
  <2>2. g = Iter(g)
    BY <2>1
  <2> QED
    BY <2>2
<1>5. iter = Iter(iter)
  <2> HIDE DEF Iter
  <2> QED
    BY <1>4
<1>6. ASSUME NEW i \in 1 .. n PROVE iter[i] = IF i = 1 THEN ss[i] ELSE iter[i - 1] \o ss[i]
  <2> HIDE DEF iter
  <2> QED
    BY <1>5
<1>7. FlattenSeq(ss) = iter[n]
  <2>1. Len(ss) = n
    OBVIOUS
  <2> QED
    BY <2>1 DEF FlattenSeq, iter
<1> HIDE DEF iter, L
<1> DEFINE M == {k \in Nat : k + 1 \in 1 .. n => iter[k + 1] \in Seq(X)}
<1>8. 0 \in M
  BY <1>6
<1>9. ASSUME NEW k \in Nat, k \in M PROVE k + 1 \in M
  <2> SUFFICES ASSUME k + 1 + 1 \in 1 .. n PROVE iter[k + 1 + 1] \in Seq(X)
    OBVIOUS
  <2>1. PICK i \in 1 .. n, j \in 1 .. n : i = k + 1 /\ j = i + 1
    OBVIOUS
  <2>2. iter[i] \in Seq(X) /\ j # 1 /\ j - 1 = i
    BY <1>9, <2>1
  <2>3. iter[j] = iter[i] \o ss[j]
    BY <1>6, <2>2
  <2> QED
    BY <2>1, <2>2, <2>3
<1>10. Nat \subseteq M
  <2> HIDE DEF M
  <2> QED
    BY <1>8, <1>9, NumberInduction
<1>11. \A i \in 1 .. n : iter[i] \in Seq(X)
  <2> TAKE i \in 1 .. n
  <2>1. PICK k \in Nat : i = k + 1
    <3>1. i - 1 \in Nat /\ i = (i - 1) + 1
      OBVIOUS
    <3> QED
      BY <3>1
  <2> QED
    BY <1>10, <2>1
<1>12. ASSUME NEW i \in 1 .. n, NEW j \in 1 .. n, j = i + 1 PROVE iter[j] = iter[i] \o ss[j]
  <2>1. j # 1 /\ j - 1 = i
    BY <1>12
  <2> QED
    BY <1>6, <2>1
<1>13. iter[1] = ss[1]
  BY <1>6
<1> QED
  BY <1>7, <1>11, <1>12, <1>13 DEF Joins

LEMMA SumOfNumbers ==
    ASSUME NEW w, NEW k \in Nat, Naturals(w, 1 .. k), NEW j, j = k + 1, w[j] \in Nat
    PROVE  SumOf(w, 1 .. j) = SumOf(w, 1 .. k) + w[j]
<1>1. 1 .. j = (1 .. k) \cup {j} /\ j \notin 1 .. k
  OBVIOUS
<1>2. SumOf(w, (1 .. k) \cup {j}) = SumOf(w, 1 .. k) + w[j]
  BY <1>1, SumOfMore
<1> QED
  BY <1>1, <1>2

LEMMA FlatAdds ==
    ASSUME NEW X, NEW ss \in Seq(Seq(Additions(X))), NEW C, NEW w,
           \A i \in DOMAIN ss : w[i] = AddedTo(ss[i], C)
    PROVE  /\ FlattenSeq(ss) \in Seq(Additions(X))
           /\ Naturals(w, DOMAIN ss)
           /\ AddedTo(FlattenSeq(ss), C) = SumOf(w, DOMAIN ss)
<1>1. PICK n \in Nat : n = Len(ss) /\ DOMAIN ss = 1 .. n
  OBVIOUS
<1>2. \A k \in Nat : IsFiniteSet(1 .. k)
  <2> TAKE k \in Nat
  <2>1. 1 \in Int /\ k \in Int
    OBVIOUS
  <2> QED
    BY <2>1, FS_Interval
<1>3. \A i \in 1 .. n : ss[i] \in Seq(Additions(X))
  BY <1>1
<1>4. \A i \in 1 .. n : w[i] = AddedTo(ss[i], C) /\ w[i] \in Nat
  BY <1>1, <1>3, CountsAreNaturals
<1>5. Naturals(w, DOMAIN ss)
  BY <1>1, <1>2, <1>4 DEF Naturals
<1>6. CASE n = 0
  <2>1. ss = <<>> /\ 1 .. n = {}
    BY <1>1, <1>6
  <2>2. FlattenSeq(ss) = ss
    BY <1>1, <1>6 DEF FlattenSeq
  <2>3. AddedTo(ss, C) = 0 /\ SumOf(w, DOMAIN ss) = 0
    BY <1>1, <2>1, NothingAdded, SumOfNone
  <2>4. ss \in Seq(Additions(X))
    BY <2>1
  <2> QED
    BY <1>5, <2>2, <2>3, <2>4
<1>7. CASE n # 0
  <2>1. n \in Nat \ {0} /\ ss \in [1 .. n -> Seq(Additions(X))]
    BY <1>1, <1>7
  <2>8. PICK g : Joins(g, ss, n, Additions(X)) /\ FlattenSeq(ss) = g[n]
    BY <2>1, FlatByParts
  <2>2. /\ FlattenSeq(ss) = g[n]
        /\ g[1] = ss[1]
        /\ \A i \in 1 .. n : g[i] \in Seq(Additions(X))
        /\ \A i, j \in 1 .. n : j = i + 1 => g[j] = g[i] \o ss[j]
    BY <2>8 DEF Joins
  <2> DEFINE M == {k \in Nat : k + 1 \in 1 .. n => AddedTo(g[k + 1], C) = SumOf(w, 1 .. k + 1)}
  <2>3. 0 \in M
    <3>1. 1 \in 1 .. n /\ 1 .. 1 = {1}
      BY <1>7
    <3>2. SumOf(w, {1}) = w[1]
      BY <1>4, <3>1, SumOfOne
    <3>3. AddedTo(g[1], C) = SumOf(w, 1 .. 1)
      BY <1>4, <2>2, <3>1, <3>2
    <3> QED
      BY <3>3
  <2>4. ASSUME NEW k \in Nat, k \in M PROVE k + 1 \in M
    <3> SUFFICES ASSUME k + 1 + 1 \in 1 .. n
                 PROVE  AddedTo(g[k + 1 + 1], C) = SumOf(w, 1 .. k + 1 + 1)
      OBVIOUS
    <3>1. PICK i \in 1 .. n, j \in 1 .. n : i = k + 1 /\ j = i + 1
      OBVIOUS
    <3>2. AddedTo(g[i], C) = SumOf(w, 1 .. i)
      BY <2>4, <3>1
    <3>3. g[j] = g[i] \o ss[j] /\ g[i] \in Seq(Additions(X))
      BY <2>2, <3>1
    <3>4. AddedTo(g[i] \o ss[j], C) = AddedTo(g[i], C) + AddedTo(ss[j], C)
      BY <1>3, <3>3, BothAdded
    <3>5. SumOf(w, 1 .. j) = SumOf(w, 1 .. i) + w[j]
      <4>1. i \in Nat /\ 1 .. i \subseteq DOMAIN ss
        BY <1>1, <3>1
      <4>2. Naturals(w, 1 .. i)
        BY <1>2, <1>4, <4>1, <1>1 DEF Naturals
      <4> QED
        BY <1>4, <3>1, <4>1, <4>2, SumOfNumbers
    <3>6. w[j] = AddedTo(ss[j], C)
      BY <1>4
    <3>7. AddedTo(g[j], C) = SumOf(w, 1 .. j)
      BY <3>2, <3>3, <3>4, <3>5, <3>6, Zenon
    <3> QED
      BY <3>1, <3>7
  <2>5. Nat \subseteq M
    <3> HIDE DEF M
    <3> QED
      BY <2>3, <2>4, NumberInduction
  <2>6. AddedTo(g[n], C) = SumOf(w, 1 .. n)
    <3>1. PICK k \in Nat : n = k + 1
      <4>1. n - 1 \in Nat /\ n = (n - 1) + 1
        BY <1>7
      <4> QED
        BY <4>1
    <3> QED
      BY <2>5, <3>1
  <2>7. FlattenSeq(ss) \in Seq(Additions(X))
    BY <2>1, <2>2
  <2> QED
    BY <1>1, <1>5, <2>2, <2>6, <2>7
<1> QED
  BY <1>6, <1>7

-----------------------------------------------------------------------------
(* The commands of the writers: one for each cell that is not zero. *)

RealAdditions(X) == [cell : X, by : Nat \ {0}]

NonZero(cells) == {c \in DOMAIN cells : cells[c] # 0}

(* g puts the cells of each set in an order, one behind the others.         *)
Orders(g, cells) ==
    /\ g[{}] = <<>>
    /\ \A T \in SUBSET NonZero(cells) :
           T # {} => \E c \in T : g[T] = Append(g[T \ {c}], Plus(c, cells[c]))

LEMMA OrderByParts ==
    ASSUME NEW X, NEW cells, Holds(cells, X)
    PROVE  \E g : Orders(g, cells) /\ InAnyOrder(cells) = g[NonZero(cells)]
<1> DEFINE A == RealAdditions(X)
           N == NonZero(cells)
           Step(g, T) == IF T = {} THEN <<>>
                         ELSE LET c == CHOOSE c \in T : TRUE
                              IN  Append(g[T \ {c}], Plus(c, cells[c]))
           L == {k \in Nat : \E g \in [SUBSET N -> Seq(A)] :
                    \A T \in SUBSET N : Cardinality(T) <= k => g[T] = Step(g, T)}
           Iter(g) == [T \in SUBSET N |-> Step(g, T)]
           iter == CHOOSE g : g = Iter(g)
<1>1. \A T \in SUBSET N : IsFiniteSet(T) /\ Cardinality(T) \in Nat
  <2>1. IsFiniteSet(N)
    BY FS_Subset DEF NonZero, Holds
  <2> QED
    BY <2>1, FS_Subset, FS_CardinalityType
<1>2. ASSUME NEW c \in N PROVE Plus(c, cells[c]) \in A
  BY DEF NonZero, Holds, Plus, RealAdditions
<1>3. ASSUME NEW g \in [SUBSET N -> Seq(A)], NEW T \in SUBSET N PROVE Step(g, T) \in Seq(A)
  <2>1. CASE T = {}
    BY <2>1
  <2>2. CASE T # {}
    <3>1. PICK c : c = CHOOSE d \in T : TRUE
      OBVIOUS
    <3>2. c \in T /\ T \ {c} \in SUBSET N
      BY <2>2, <3>1
    <3>3. g[T \ {c}] \in Seq(A) /\ Plus(c, cells[c]) \in A
      BY <1>2, <3>2
    <3>4. Append(g[T \ {c}], Plus(c, cells[c])) \in Seq(A)
      BY <3>3
    <3> QED
      BY <2>2, <3>1, <3>4
  <2> QED
    BY <2>1, <2>2
<1>4. 0 \in L
  <2> DEFINE g == [T \in SUBSET N |-> <<>>]
  <2>1. g \in [SUBSET N -> Seq(A)]
    OBVIOUS
  <2>2. ASSUME NEW T \in SUBSET N, Cardinality(T) <= 0 PROVE g[T] = Step(g, T)
    <3>1. T = {}
      BY <1>1, <2>2, FS_EmptySet
    <3> QED
      BY <3>1
  <2> HIDE DEF g, Step
  <2>3. \E f \in [SUBSET N -> Seq(A)] : \A T \in SUBSET N : Cardinality(T) <= 0 => f[T] = Step(f, T)
    BY <2>1, <2>2
  <2> QED
    BY <2>3
<1>5. ASSUME NEW k \in Nat, k \in L PROVE k + 1 \in L
  <2>1. PICK g \in [SUBSET N -> Seq(A)] :
            \A T \in SUBSET N : Cardinality(T) <= k => g[T] = Step(g, T)
    BY <1>5
  <2> DEFINE h == [T \in SUBSET N |-> IF Cardinality(T) = k + 1 THEN Step(g, T) ELSE g[T]]
  <2>2. h \in [SUBSET N -> Seq(A)]
    <3> HIDE DEF Step
    <3> QED
      BY <1>3
  <2>3. ASSUME NEW T \in SUBSET N, Cardinality(T) <= k + 1 PROVE h[T] = Step(h, T)
    <3>1. ASSUME T # {}, NEW c \in T PROVE h[T \ {c}] = g[T \ {c}]
      <4>1. PICK n \in Nat : n = Cardinality(T)
        BY <1>1
      <4>2. Cardinality(T \ {c}) = n - 1
        BY <1>1, <4>1, FS_RemoveElement
      <4>3. n - 1 # k + 1
        BY <2>3, <4>1
      <4> QED
        BY <4>2, <4>3
    <3>2. Step(h, T) = Step(g, T)
      <4>1. CASE T = {}
        BY <4>1
      <4>2. CASE T # {}
        <5>1. PICK c : c = CHOOSE d \in T : TRUE
          OBVIOUS
        <5>2. c \in T
          BY <4>2, <5>1
        <5> HIDE DEF h
        <5>3. h[T \ {c}] = g[T \ {c}]
          BY <3>1, <4>2, <5>2
        <5> QED
          BY <4>2, <5>1, <5>3
      <4> QED
        BY <4>1, <4>2
    <3>3. h[T] = Step(g, T)
      <4> HIDE DEF Step
      <4>1. CASE Cardinality(T) = k + 1
        BY <4>1
      <4>2. CASE Cardinality(T) # k + 1
        <5>1. Cardinality(T) <= k
          BY <1>1, <2>3, <4>2
        <5> QED
          BY <2>1, <4>2, <5>1
      <4> QED
        BY <4>1, <4>2
    <3> QED
      BY <3>2, <3>3, Zenon
  <2> HIDE DEF h, Step
  <2>4. \E f \in [SUBSET N -> Seq(A)] :
            \A T \in SUBSET N : Cardinality(T) <= k + 1 => f[T] = Step(f, T)
    BY <2>2, <2>3
  <2>5. k + 1 \in Nat
    OBVIOUS
  <2> QED
    BY <2>4, <2>5, Zenon
<1>6. Cardinality(N) \in L
  <2> HIDE DEF L
  <2>1. Nat \subseteq L
    BY <1>4, <1>5, NumberInduction
  <2> QED
    BY <1>1, <2>1
<1>7. \E g : g = Iter(g)
  <2> HIDE DEF Step, N
  <2>1. PICK g \in [SUBSET N -> Seq(A)] :
            \A T \in SUBSET N : Cardinality(T) <= Cardinality(N) => g[T] = Step(g, T)
    BY <1>6
  <2>2. \A T \in SUBSET N : Cardinality(T) <= Cardinality(N)
    BY <1>1, FS_Subset
  <2>3. g = Iter(g)
    BY <2>1, <2>2
  <2> QED
    BY <2>3
<1>8. iter = Iter(iter)
  <2> HIDE DEF Iter
  <2> QED
    BY <1>7
<1>9. \A T \in SUBSET N : iter[T] = Step(iter, T)
  <2> HIDE DEF iter, Step
  <2> QED
    BY <1>8
<1>10. InAnyOrder(cells) = iter[N]
  BY DEF InAnyOrder, FoldSet, MapThenFoldSet, NonZero, iter
<1> HIDE DEF iter
<1>11. Orders(iter, cells)
  <2>1. iter[{}] = <<>>
    BY <1>9
  <2>2. ASSUME NEW T \in SUBSET N, T # {}
        PROVE  \E c \in T : iter[T] = Append(iter[T \ {c}], Plus(c, cells[c]))
    <3>1. PICK c : c = CHOOSE d \in T : TRUE
      OBVIOUS
    <3>2. c \in T
      BY <2>2, <3>1
    <3>3. iter[T] = Append(iter[T \ {c}], Plus(c, cells[c]))
      BY <1>9, <2>2, <3>1
    <3> QED
      BY <3>2, <3>3
  <2> QED
    BY <2>1, <2>2 DEF Orders
<1> QED
  BY <1>10, <1>11

LEMMA RealAreAdditions ==
    ASSUME NEW X, NEW s \in Seq(RealAdditions(X))
    PROVE  s \in Seq(Additions(X))
<1>1. RealAdditions(X) \subseteq Additions(X)
  BY DEF RealAdditions, Additions
<1> QED
  BY <1>1

LEMMA AppendAdds ==
    ASSUME NEW X, NEW s \in Seq(RealAdditions(X)), NEW x \in RealAdditions(X), NEW C
    PROVE  /\ Append(s, x) \in Seq(RealAdditions(X))
           /\ AddedTo(Append(s, x), C) = AddedTo(s, C) + (IF x.cell \in C THEN x.by ELSE 0)
<1>1. Append(s, x) = s \o <<x>> /\ <<x>> \in Seq(RealAdditions(X))
  OBVIOUS
<1>2. AddedTo(s \o <<x>>, C) = AddedTo(s, C) + AddedTo(<<x>>, C)
  <2>1. PICK t : t = <<x>> /\ t \in Seq(RealAdditions(X))
    BY <1>1
  <2>2. s \in Seq(Additions(X)) /\ t \in Seq(Additions(X))
    BY <2>1, RealAreAdditions
  <2>3. AddedTo(s \o t, C) = AddedTo(s, C) + AddedTo(t, C)
    BY <2>2, BothAdded
  <2> QED
    BY <2>1, <2>3
<1>3. x.by \in Nat
  BY DEF RealAdditions
<1>4. AddedTo(<<x>>, C) = IF x.cell \in C THEN x.by ELSE 0
  BY <1>3, OneAdded
<1> QED
  BY <1>1, <1>2, <1>4

LEMMA InAnyOrderAdds ==
    ASSUME NEW X, NEW cells, Holds(cells, X), NEW C
    PROVE  /\ InAnyOrder(cells) \in Seq(RealAdditions(X))
           /\ AddedTo(InAnyOrder(cells), C) = HeldIn(cells, C)
<1>1. PICK g : Orders(g, cells) /\ InAnyOrder(cells) = g[NonZero(cells)]
  BY OrderByParts
<1> DEFINE N == NonZero(cells)
           M == {T \in SUBSET N : /\ g[T] \in Seq(RealAdditions(X))
                                  /\ AddedTo(g[T], C) = SumOf(cells, T \cap C)}
<1>2. IsFiniteSet(N)
  BY FS_Subset DEF NonZero, Holds
<1>3. {} \in M
  <2>1. g[{}] = <<>> /\ {} \cap C = {}
    BY <1>1 DEF Orders
  <2>2. g[{}] \in Seq(RealAdditions(X))
    BY <2>1
  <2>3. AddedTo(g[{}], C) = 0 /\ SumOf(cells, {} \cap C) = 0
    BY <2>1, NothingAdded, SumOfNone
  <2> QED
    BY <2>2, <2>3
<1>4. ASSUME NEW T \in SUBSET N, T # {}, \A c \in T : T \ {c} \in M PROVE T \in M
  <2>1. PICK c \in T : g[T] = Append(g[T \ {c}], Plus(c, cells[c]))
    BY <1>1, <1>4 DEF Orders
  <2>2. /\ g[T \ {c}] \in Seq(RealAdditions(X))
        /\ AddedTo(g[T \ {c}], C) = SumOf(cells, (T \ {c}) \cap C)
    BY <1>4
  <2>3. c \in DOMAIN cells /\ c \in X /\ cells[c] \in Nat \ {0}
    BY DEF NonZero, Holds
  <2>4. Plus(c, cells[c]) \in RealAdditions(X) /\ Plus(c, cells[c]).cell = c /\ Plus(c, cells[c]).by = cells[c]
    BY <2>3 DEF Plus, RealAdditions
  <2>5. /\ g[T] \in Seq(RealAdditions(X))
        /\ AddedTo(g[T], C) = AddedTo(g[T \ {c}], C) + (IF c \in C THEN cells[c] ELSE 0)
    <3>1. PICK x \in RealAdditions(X), s \in Seq(RealAdditions(X)) :
              x = Plus(c, cells[c]) /\ s = g[T \ {c}]
      BY <2>2, <2>4
    <3>2. /\ Append(s, x) \in Seq(RealAdditions(X))
          /\ AddedTo(Append(s, x), C) = AddedTo(s, C) + (IF x.cell \in C THEN x.by ELSE 0)
      BY AppendAdds
    <3> QED
      BY <2>1, <2>4, <3>1, <3>2
  <2>6. SumOf(cells, T \cap C) = SumOf(cells, (T \ {c}) \cap C) + (IF c \in C THEN cells[c] ELSE 0)
    <3>1. Naturals(cells, (T \ {c}) \cap C)
      <4>1. IsFiniteSet((T \ {c}) \cap C)
        BY <1>2, FS_Subset
      <4> QED
        BY <4>1 DEF Naturals, NonZero, Holds
    <3>2. CASE c \in C
      <4>1. T \cap C = ((T \ {c}) \cap C) \cup {c} /\ c \notin (T \ {c}) \cap C
        BY <3>2
      <4>2. SumOf(cells, ((T \ {c}) \cap C) \cup {c}) = SumOf(cells, (T \ {c}) \cap C) + cells[c]
        BY <2>3, <3>1, <4>1, SumOfMore
      <4> QED
        BY <3>2, <4>1, <4>2
    <3>3. CASE c \notin C
      <4>1. T \cap C = (T \ {c}) \cap C
        BY <3>3
      <4>2. SumOf(cells, (T \ {c}) \cap C) \in Nat
        BY <3>1, HeapIsFinite
      <4> QED
        BY <3>3, <4>1, <4>2
    <3> QED
      BY <3>2, <3>3
  <2> QED
    BY <2>2, <2>5, <2>6
<1>5. N \in M
  <2> HIDE DEF M, N
  <2> QED
    BY <1>2, <1>3, <1>4, SizeInduction
<1>6. SumOf(cells, N \cap C) = HeldIn(cells, C)
  <2> DEFINE S == {c \in DOMAIN cells : c \in C}
  <2>1. Naturals(cells, S)
    BY FS_Subset DEF Naturals, Holds
  <2>2. N \cap C \in SUBSET S /\ \A c \in S \ (N \cap C) : cells[c] = 0
    BY DEF NonZero
  <2> HIDE DEF N
  <2>3. SumOf(cells, N \cap C) = SumOf(cells, S)
    BY <2>1, <2>2, SumOfPart
  <2> QED
    BY <2>3 DEF HeldIn
<1> QED
  BY <1>1, <1>5, <1>6

-----------------------------------------------------------------------------
(* What one record adds.  Names are the numbers of subscribers and          *)
(* operators that occur.                                                    *)

Meters == {"voice_out", "voice_in", "sms_out", "sms_in", "data_rx", "data_tx",
           "noans", "busy", "failed"}

FoldCells(Names) ==
    ({"sub", "op"} \X Names \X Meters \X {0}) \cup ({"link"} \X Names \X {"dur", "sms", "cnt"} \X Names)
TotalCells ==
    {"total"} \X {0} \X
    {"records", "moc_cnt", "mtc_cnt", "sms_mo_cnt", "sms_mt_cnt", "data_cnt", "noans_cnt",
     "busy_cnt", "failed_cnt", "moc_dur", "mtc_dur", "data_dur", "data_rx", "data_tx"} \X {0}
TopCells(Names) == {"top"} \X {0} \X BoardNames \X Names

Known(r, Names) ==
    /\ r \in CallRecord
    /\ r.subscriberMSISDN \in Names /\ r.secondPartyMSISDN \in Names /\ Operator(r) \in Names

Share(c, n, C) == IF c \in C THEN n ELSE 0

TrafficTypes == {"MOC", "MTC", "SMS_MO", "SMS_MT"}

Meter(r) ==
    CASE r.usageType = "MOC"    -> "voice_out" [] r.usageType = "MTC"    -> "voice_in"
      [] r.usageType = "SMS_MO" -> "sms_out"   [] r.usageType = "SMS_MT" -> "sms_in"
      [] r.usageType = "U"      -> "noans"     [] r.usageType = "B"      -> "busy"
      [] r.usageType = "X"      -> "failed"    [] r.usageType = "D"      -> "data_rx"

Units(r) == IF r.usageType \in {"MOC", "MTC"} THEN r.duration
            ELSE IF r.usageType = "D" THEN r.bytesReceived ELSE 1

SubSeqOf(r) ==
    IF r.usageType = "D"
    THEN <<Plus(Sub(r.subscriberMSISDN, Meter(r)), Units(r)),
           Plus(Sub(r.subscriberMSISDN, "data_tx"), r.bytesTransmitted)>>
    ELSE <<Plus(Sub(r.subscriberMSISDN, Meter(r)), Units(r))>>

OpSeqOf(r) ==
    IF Operator(r) = 0 \/ r.usageType \notin TrafficTypes THEN <<>>
    ELSE <<Plus(Op(Operator(r), Meter(r)), Units(r))>>

LEMMA RecordParts ==
    ASSUME NEW r \in CallRecord, r.subscriberMSISDN # 0
    PROVE  FoldRecord(r) = SubSeqOf(r) \o OpSeqOf(r) \o LinkOf(r)
<1> DEFINE m == r.subscriberMSISDN
           o == Operator(r)
           tr == Traffic(r)
           all == Traffic(r) \o Other(r)
<1>1. r.usageType \in UsageTypes
  BY DEF CallRecord
<1>2. [i \in DOMAIN all |-> LET t == all[i] IN Plus(Sub(m, t[1]), t[2])] = SubSeqOf(r)
  <2>1. CASE r.usageType = "D"
    <3>1. all = <<<<"data_rx", r.bytesReceived>>, <<"data_tx", r.bytesTransmitted>>>>
      BY <2>1 DEF Traffic, Other
    <3> HIDE DEF all
    <3>2. SubSeqOf(r) = <<Plus(Sub(m, "data_rx"), r.bytesReceived), Plus(Sub(m, "data_tx"), r.bytesTransmitted)>>
      BY <2>1 DEF SubSeqOf, Meter, Units
    <3> QED
      BY <3>1, <3>2
  <2>2. CASE r.usageType # "D"
    <3>1. all = <<<<Meter(r), Units(r)>>>>
      <4>1. CASE r.usageType \in TrafficTypes
        <5>1. Traffic(r) = <<<<Meter(r), Units(r)>>>>
          BY <4>1 DEF Traffic, Meter, Units, TrafficTypes
        <5>2. Other(r) = <<>>
          BY <4>1 DEF Other, TrafficTypes
        <5> QED
          BY <5>1, <5>2
      <4>2. CASE r.usageType \in {"U", "B", "X"}
        <5>1. Traffic(r) = <<>>
          BY <4>2 DEF Traffic
        <5>2. Other(r) = <<<<Meter(r), Units(r)>>>>
          BY <4>2 DEF Other, Meter, Units
        <5> QED
          BY <5>1, <5>2
      <4> QED
        BY <1>1, <2>2, <4>1, <4>2 DEF TrafficTypes, UsageTypes
    <3> HIDE DEF all
    <3>2. SubSeqOf(r) = <<Plus(Sub(m, Meter(r)), Units(r))>>
      BY <2>2 DEF SubSeqOf
    <3> QED
      BY <3>1, <3>2
  <2> QED
    BY <2>1, <2>2
<1>3. (IF o = 0 THEN <<>> ELSE [i \in DOMAIN tr |-> Plus(Op(o, tr[i][1]), tr[i][2])]) = OpSeqOf(r)
  <2>1. CASE r.usageType \in TrafficTypes
    <3>1. tr = <<<<Meter(r), Units(r)>>>>
      BY <2>1 DEF Traffic, Meter, Units, TrafficTypes
    <3> HIDE DEF tr
    <3>2. [i \in DOMAIN tr |-> Plus(Op(o, tr[i][1]), tr[i][2])] = <<Plus(Op(o, Meter(r)), Units(r))>>
      BY <3>1
    <3> QED
      BY <2>1, <3>2 DEF OpSeqOf
  <2>2. CASE r.usageType \notin TrafficTypes
    <3>1. tr = <<>>
      BY <2>2 DEF Traffic, TrafficTypes
    <3> HIDE DEF tr
    <3>2. [i \in DOMAIN tr |-> Plus(Op(o, tr[i][1]), tr[i][2])] = <<>>
      BY <3>1
    <3> QED
      BY <2>2, <3>2 DEF OpSeqOf
  <2> QED
    BY <2>1, <2>2
<1>4. FoldRecord(r) = [i \in DOMAIN all |-> LET t == all[i] IN Plus(Sub(m, t[1]), t[2])]
                      \o (IF o = 0 THEN <<>> ELSE [i \in DOMAIN tr |-> Plus(Op(o, tr[i][1]), tr[i][2])])
                      \o LinkOf(r)
  BY DEF FoldRecord
<1> QED
  BY <1>2, <1>3, <1>4, Zenon

LEMMA PlusAdds ==
    ASSUME NEW X, NEW c \in X, NEW n \in Nat, NEW C
    PROVE  /\ <<Plus(c, n)>> \in Seq(Additions(X))
           /\ AddedTo(<<Plus(c, n)>>, C) = Share(c, n, C)
<1>1. PICK x : x = Plus(c, n)
  OBVIOUS
<1>2. x.cell = c /\ x.by = n /\ x \in Additions(X)
  BY <1>1 DEF Plus, Additions
<1>3. AddedTo(<<x>>, C) = IF x.cell \in C THEN x.by ELSE 0
  BY <1>2, OneAdded
<1>4. <<x>> \in Seq(Additions(X))
  BY <1>2
<1> QED
  BY <1>1, <1>2, <1>3, <1>4 DEF Share

LEMMA TwoPlusAdd ==
    ASSUME NEW X, NEW c \in X, NEW n \in Nat, NEW d \in X, NEW k \in Nat, NEW C
    PROVE  /\ <<Plus(c, n), Plus(d, k)>> \in Seq(Additions(X))
           /\ AddedTo(<<Plus(c, n), Plus(d, k)>>, C) = Share(c, n, C) + Share(d, k, C)
<1>1. PICK x, y : x = Plus(c, n) /\ y = Plus(d, k)
  OBVIOUS
<1>2. /\ x.cell = c /\ x.by = n /\ x \in Additions(X)
      /\ y.cell = d /\ y.by = k /\ y \in Additions(X)
  BY <1>1 DEF Plus, Additions
<1>3. PICK w : w = Counted(<<x, y>>, C)
  OBVIOUS
<1>4. w[1] = Share(c, n, C) /\ w[2] = Share(d, k, C)
  BY <1>2, <1>3 DEF Counted, Share
<1>5. w[1] \in Nat /\ w[2] \in Nat
  BY <1>4 DEF Share
<1>6. DOMAIN <<x, y>> = {1, 2}
  OBVIOUS
<1>7. SumOf(w, {1, 2}) = w[1] + w[2]
  <2>1. PICK i, j : i = 1 /\ j = 2 /\ i # j
    OBVIOUS
  <2>2. SumOf(w, {i, j}) = w[i] + w[j]
    BY <1>5, <2>1, SumOfTwo
  <2> QED
    BY <2>1, <2>2
<1>8. AddedTo(<<x, y>>, C) = Share(c, n, C) + Share(d, k, C)
  BY <1>3, <1>4, <1>6, <1>7, Zenon DEF AddedTo
<1>9. <<x, y>> \in Seq(Additions(X))
  BY <1>2
<1> QED
  BY <1>1, <1>8, <1>9

LEMMA ThreePlusAdd ==
    ASSUME NEW X, NEW c \in X, NEW n \in Nat, NEW d \in X, NEW k \in Nat,
           NEW e \in X, NEW l \in Nat, NEW C
    PROVE  /\ <<Plus(c, n), Plus(d, k), Plus(e, l)>> \in Seq(Additions(X))
           /\ AddedTo(<<Plus(c, n), Plus(d, k), Plus(e, l)>>, C)
                  = Share(c, n, C) + Share(d, k, C) + Share(e, l, C)
<1>1. PICK x, y, z : x = Plus(c, n) /\ y = Plus(d, k) /\ z = Plus(e, l)
  OBVIOUS
<1>2. /\ x.cell = c /\ x.by = n /\ x \in Additions(X)
      /\ y.cell = d /\ y.by = k /\ y \in Additions(X)
      /\ z.cell = e /\ z.by = l /\ z \in Additions(X)
  BY <1>1 DEF Plus, Additions
<1>3. PICK w : w = Counted(<<x, y, z>>, C)
  OBVIOUS
<1>4. w[1] = Share(c, n, C) /\ w[2] = Share(d, k, C) /\ w[3] = Share(e, l, C)
  BY <1>2, <1>3 DEF Counted, Share
<1>5. w[1] \in Nat /\ w[2] \in Nat /\ w[3] \in Nat
  BY <1>4 DEF Share
<1>6. DOMAIN <<x, y, z>> = {1, 2, 3}
  OBVIOUS
<1>7. SumOf(w, {1, 2, 3}) = w[1] + w[2] + w[3]
  <2>1. SumOf(w, {1, 2}) = w[1] + w[2]
    <3>1. PICK i, j : i = 1 /\ j = 2 /\ i # j
      OBVIOUS
    <3>2. SumOf(w, {i, j}) = w[i] + w[j]
      BY <1>5, <3>1, SumOfTwo
    <3> QED
      BY <3>1, <3>2
  <2>5. PICK T, i : T = {1, 2} /\ i = 3
    OBVIOUS
  <2>2. T = {1, 2} /\ i = 3 /\ i \notin T /\ T \cup {i} = {1, 2, 3}
    BY <2>5
  <2>3. Naturals(w, T)
    <3>1. IsFiniteSet({1} \cup {2})
      BY FS_Singleton, FS_AddElement
    <3>2. {1} \cup {2} = T
      BY <2>2
    <3> QED
      BY <1>5, <2>2, <3>1, <3>2 DEF Naturals
  <2>4. SumOf(w, T \cup {i}) = SumOf(w, T) + w[i]
    BY <1>5, <2>2, <2>3, SumOfMore
  <2> QED
    BY <2>1, <2>2, <2>4
<1>8. AddedTo(<<x, y, z>>, C) = Share(c, n, C) + Share(d, k, C) + Share(e, l, C)
  BY <1>3, <1>4, <1>6, <1>7, Zenon DEF AddedTo
<1>9. <<x, y, z>> \in Seq(Additions(X))
  BY <1>2
<1> QED
  BY <1>1, <1>8, <1>9

LEMMA MeterAndUnits ==
    ASSUME NEW r \in CallRecord
    PROVE  Meter(r) \in Meters /\ Units(r) \in Nat
<1>1. r.usageType \in UsageTypes /\ r.bytesReceived \in Nat /\ r.duration \in Nat
  BY DEF CallRecord
<1>2. Units(r) \in Nat
  BY <1>1 DEF Units
<1>3. Meter(r) \in {"voice_out", "voice_in", "sms_out", "sms_in", "noans", "busy", "failed", "data_rx"}
  <2>1. CASE r.usageType \in TrafficTypes
    BY <2>1 DEF Meter, TrafficTypes
  <2>2. CASE r.usageType \in {"U", "B", "X", "D"}
    BY <2>2 DEF Meter
  <2> QED
    BY <1>1, <2>1, <2>2 DEF UsageTypes, TrafficTypes
<1> QED
  BY <1>2, <1>3 DEF Meters

LEMMA SubAdds ==
    ASSUME NEW Names, NEW r, Known(r, Names), NEW C
    PROVE  /\ SubSeqOf(r) \in Seq(Additions(FoldCells(Names)))
           /\ AddedTo(SubSeqOf(r), C) =
                  IF r.usageType = "D"
                  THEN Share(Sub(r.subscriberMSISDN, "data_rx"), r.bytesReceived, C)
                       + Share(Sub(r.subscriberMSISDN, "data_tx"), r.bytesTransmitted, C)
                  ELSE Share(Sub(r.subscriberMSISDN, Meter(r)), Units(r), C)
<1>1. /\ r.subscriberMSISDN \in Names /\ r.usageType \in UsageTypes
      /\ r.bytesReceived \in Nat /\ r.bytesTransmitted \in Nat /\ r.duration \in Nat
  BY DEF Known, CallRecord
<1>2. Meter(r) \in Meters /\ Units(r) \in Nat
  BY MeterAndUnits DEF Known
<1>3. ASSUME NEW f \in Meters PROVE Sub(r.subscriberMSISDN, f) \in FoldCells(Names)
  BY <1>1 DEF Sub, FoldCells
<1>4. CASE r.usageType = "D"
  <2>1. SubSeqOf(r) = <<Plus(Sub(r.subscriberMSISDN, "data_rx"), r.bytesReceived),
                        Plus(Sub(r.subscriberMSISDN, "data_tx"), r.bytesTransmitted)>>
    BY <1>4 DEF SubSeqOf, Meter, Units
  <2>2. /\ Sub(r.subscriberMSISDN, "data_rx") \in FoldCells(Names)
        /\ Sub(r.subscriberMSISDN, "data_tx") \in FoldCells(Names)
    BY <1>1 DEF Sub, FoldCells, Meters
  <2>3. PICK c, d, n, k : /\ c = Sub(r.subscriberMSISDN, "data_rx") /\ n = r.bytesReceived
                          /\ d = Sub(r.subscriberMSISDN, "data_tx") /\ k = r.bytesTransmitted
    OBVIOUS
  <2>4. c \in FoldCells(Names) /\ d \in FoldCells(Names) /\ n \in Nat /\ k \in Nat
    BY <1>1, <2>2, <2>3
  <2>5. /\ <<Plus(c, n), Plus(d, k)>> \in Seq(Additions(FoldCells(Names)))
        /\ AddedTo(<<Plus(c, n), Plus(d, k)>>, C) = Share(c, n, C) + Share(d, k, C)
    BY <2>4, TwoPlusAdd
  <2> QED
    BY <1>4, <2>1, <2>3, <2>5
<1>5. CASE r.usageType # "D"
  <2>1. SubSeqOf(r) = <<Plus(Sub(r.subscriberMSISDN, Meter(r)), Units(r))>>
    BY <1>5 DEF SubSeqOf
  <2>2. Sub(r.subscriberMSISDN, Meter(r)) \in FoldCells(Names)
    BY <1>2, <1>3
  <2> QED
    BY <1>2, <1>5, <2>1, <2>2, PlusAdds
<1> QED
  BY <1>4, <1>5

LEMMA OpAdds ==
    ASSUME NEW Names, NEW r, Known(r, Names), NEW C
    PROVE  /\ OpSeqOf(r) \in Seq(Additions(FoldCells(Names)))
           /\ AddedTo(OpSeqOf(r), C) =
                  IF Operator(r) = 0 \/ r.usageType \notin TrafficTypes THEN 0
                  ELSE Share(Op(Operator(r), Meter(r)), Units(r), C)
<1>1. Operator(r) \in Names /\ r.usageType \in UsageTypes /\ r.duration \in Nat /\ r.bytesReceived \in Nat
  BY DEF Known, CallRecord
<1>2. Meter(r) \in Meters /\ Units(r) \in Nat
  BY MeterAndUnits DEF Known
<1>3. Op(Operator(r), Meter(r)) \in FoldCells(Names)
  BY <1>1, <1>2 DEF Op, FoldCells
<1>4. CASE Operator(r) = 0 \/ r.usageType \notin TrafficTypes
  <2>1. OpSeqOf(r) = <<>>
    BY <1>4 DEF OpSeqOf
  <2>2. AddedTo(<<>>, C) = 0
    BY NothingAdded
  <2> QED
    BY <1>4, <2>1, <2>2
<1>5. CASE ~ (Operator(r) = 0 \/ r.usageType \notin TrafficTypes)
  <2>1. OpSeqOf(r) = <<Plus(Op(Operator(r), Meter(r)), Units(r))>>
    BY <1>5 DEF OpSeqOf
  <2> QED
    BY <1>2, <1>3, <1>5, <2>1, PlusAdds
<1> QED
  BY <1>4, <1>5

LinkShare(a, b, dur, sms, cnt, C) ==
    Share(Link(a, b, "dur"), dur, C) + Share(Link(a, b, "sms"), sms, C) + Share(Link(a, b, "cnt"), cnt, C)

LEMMA LinkAdds ==
    ASSUME NEW Names, NEW a \in Names, NEW b \in Names,
           NEW dur \in Nat, NEW sms \in Nat, NEW cnt \in Nat, NEW C
    PROVE  /\ AddLink(a, b, dur, sms, cnt) \in Seq(Additions(FoldCells(Names)))
           /\ AddedTo(AddLink(a, b, dur, sms, cnt), C) =
                  IF b = 0 THEN 0
                  ELSE LinkShare(a, b, dur, sms, cnt, C) + LinkShare(b, a, dur, sms, cnt, C)
<1>1. ASSUME NEW x \in Names, NEW y \in Names
      PROVE  /\ OneWay(x, y, dur, sms, cnt) \in Seq(Additions(FoldCells(Names)))
             /\ AddedTo(OneWay(x, y, dur, sms, cnt), C) = LinkShare(x, y, dur, sms, cnt, C)
  <2>1. PICK c, d, e : c = Link(x, y, "dur") /\ d = Link(x, y, "sms") /\ e = Link(x, y, "cnt")
    OBVIOUS
  <2>2. c \in FoldCells(Names) /\ d \in FoldCells(Names) /\ e \in FoldCells(Names)
    BY <2>1 DEF Link, FoldCells
  <2>3. OneWay(x, y, dur, sms, cnt) = <<Plus(c, dur), Plus(d, sms), Plus(e, cnt)>>
    BY <2>1 DEF OneWay
  <2> QED
    BY <2>1, <2>2, <2>3, ThreePlusAdd DEF LinkShare
<1>2. CASE b = 0
  <2>1. AddLink(a, b, dur, sms, cnt) = <<>>
    BY <1>2 DEF AddLink
  <2>2. AddedTo(<<>>, C) = 0 /\ <<>> \in Seq(Additions(FoldCells(Names)))
    BY NothingAdded
  <2> QED
    BY <1>2, <2>1, <2>2
<1>3. CASE b # 0
  <2>1. PICK s, t : s = OneWay(a, b, dur, sms, cnt) /\ t = OneWay(b, a, dur, sms, cnt)
    OBVIOUS
  <2>2. AddLink(a, b, dur, sms, cnt) = s \o t
    BY <1>3, <2>1 DEF AddLink
  <2>3. /\ s \in Seq(Additions(FoldCells(Names))) /\ AddedTo(s, C) = LinkShare(a, b, dur, sms, cnt, C)
        /\ t \in Seq(Additions(FoldCells(Names))) /\ AddedTo(t, C) = LinkShare(b, a, dur, sms, cnt, C)
    BY <1>1, <2>1
  <2>4. s \o t \in Seq(Additions(FoldCells(Names))) /\ AddedTo(s \o t, C) = AddedTo(s, C) + AddedTo(t, C)
    BY <2>3, BothAdded
  <2> QED
    BY <1>3, <2>2, <2>3, <2>4
<1> QED
  BY <1>2, <1>3

LEMMA LinkOfAdds ==
    ASSUME NEW Names, NEW r, Known(r, Names), NEW C
    PROVE  /\ LinkOf(r) \in Seq(Additions(FoldCells(Names)))
           /\ AddedTo(LinkOf(r), C) =
                  IF r.secondPartyMSISDN = 0 \/ r.usageType \notin TrafficTypes THEN 0
                  ELSE IF r.usageType \in {"MOC", "MTC"}
                  THEN LinkShare(r.subscriberMSISDN, r.secondPartyMSISDN, r.duration, 0, 1, C)
                       + LinkShare(r.secondPartyMSISDN, r.subscriberMSISDN, r.duration, 0, 1, C)
                  ELSE LinkShare(r.subscriberMSISDN, r.secondPartyMSISDN, 0, 1, 0, C)
                       + LinkShare(r.secondPartyMSISDN, r.subscriberMSISDN, 0, 1, 0, C)
<1>1. PICK a \in Names, b \in Names, n \in Nat :
          a = r.subscriberMSISDN /\ b = r.secondPartyMSISDN /\ n = r.duration
  BY DEF Known, CallRecord
<1>2. CASE r.usageType \notin TrafficTypes
  <2>1. LinkOf(r) = <<>>
    BY <1>2 DEF LinkOf, TrafficTypes
  <2>2. AddedTo(<<>>, C) = 0 /\ <<>> \in Seq(Additions(FoldCells(Names)))
    BY NothingAdded
  <2> QED
    BY <1>2, <2>1, <2>2
<1>3. CASE r.usageType \in {"MOC", "MTC"}
  <2>1. LinkOf(r) = AddLink(a, b, n, 0, 1)
    BY <1>1, <1>3 DEF LinkOf
  <2>2. /\ AddLink(a, b, n, 0, 1) \in Seq(Additions(FoldCells(Names)))
        /\ AddedTo(AddLink(a, b, n, 0, 1), C) =
               IF b = 0 THEN 0 ELSE LinkShare(a, b, n, 0, 1, C) + LinkShare(b, a, n, 0, 1, C)
    BY LinkAdds
  <2>3. r.usageType \in TrafficTypes
    BY <1>3 DEF TrafficTypes
  <2> QED
    BY <1>1, <1>3, <2>1, <2>2, <2>3
<1>4. CASE r.usageType \in {"SMS_MO", "SMS_MT"}
  <2>1. LinkOf(r) = AddLink(a, b, 0, 1, 0)
    BY <1>1, <1>4 DEF LinkOf
  <2>2. /\ AddLink(a, b, 0, 1, 0) \in Seq(Additions(FoldCells(Names)))
        /\ AddedTo(AddLink(a, b, 0, 1, 0), C) =
               IF b = 0 THEN 0 ELSE LinkShare(a, b, 0, 1, 0, C) + LinkShare(b, a, 0, 1, 0, C)
    BY LinkAdds
  <2>3. r.usageType \in TrafficTypes /\ r.usageType \notin {"MOC", "MTC"}
    BY <1>4 DEF TrafficTypes
  <2> QED
    BY <1>1, <1>4, <2>1, <2>2, <2>3
<1> QED
  BY <1>2, <1>3, <1>4 DEF TrafficTypes

LEMMA RecordAdds ==
    ASSUME NEW Names, NEW r, Known(r, Names), NEW C
    PROVE  /\ FoldRecord(r) \in Seq(Additions(FoldCells(Names)))
           /\ AddedTo(FoldRecord(r), C) =
                  IF r.subscriberMSISDN = 0 THEN 0
                  ELSE AddedTo(SubSeqOf(r), C) + AddedTo(OpSeqOf(r), C) + AddedTo(LinkOf(r), C)
<1>1. CASE r.subscriberMSISDN = 0
  <2>1. FoldRecord(r) = <<>>
    BY <1>1 DEF FoldRecord
  <2>2. AddedTo(<<>>, C) = 0 /\ <<>> \in Seq(Additions(FoldCells(Names)))
    BY NothingAdded
  <2> QED
    BY <1>1, <2>1, <2>2
<1>2. CASE r.subscriberMSISDN # 0
  <2>1. PICK s, t, u : s = SubSeqOf(r) /\ t = OpSeqOf(r) /\ u = LinkOf(r)
    OBVIOUS
  <2>2. /\ s \in Seq(Additions(FoldCells(Names))) /\ t \in Seq(Additions(FoldCells(Names)))
        /\ u \in Seq(Additions(FoldCells(Names)))
    BY <2>1, SubAdds, OpAdds, LinkOfAdds
  <2>3. PICK v : v = s \o t
    OBVIOUS
  <2>4. v \in Seq(Additions(FoldCells(Names))) /\ AddedTo(v, C) = AddedTo(s, C) + AddedTo(t, C)
    BY <2>2, <2>3, BothAdded
  <2>5. /\ v \o u \in Seq(Additions(FoldCells(Names)))
        /\ AddedTo(v \o u, C) = AddedTo(v, C) + AddedTo(u, C)
    BY <2>2, <2>4, BothAdded
  <2>6. FoldRecord(r) = v \o u
    BY <1>2, <2>1, <2>3, RecordParts, Zenon DEF Known
  <2> QED
    BY <1>2, <2>1, <2>4, <2>5, <2>6
<1> QED
  BY <1>1, <1>2

CountPart(r, C) == Share(Total("records"), 1, C) + Share(Total(CountOf(r.usageType)), 1, C)

LEMMA TotalsAdd ==
    ASSUME NEW Names, NEW r, Known(r, Names), NEW C
    PROVE  /\ TotalsRecord(r) \in Seq(Additions(TotalCells))
           /\ AddedTo(TotalsRecord(r), C) = CountPart(r, C) +
                  IF r.usageType = "MOC" THEN Share(Total("moc_dur"), r.duration, C)
                  ELSE IF r.usageType = "MTC" THEN Share(Total("mtc_dur"), r.duration, C)
                  ELSE IF r.usageType = "D"
                  THEN Share(Total("data_dur"), r.duration, C)
                       + Share(Total("data_rx"), r.bytesReceived, C)
                       + Share(Total("data_tx"), r.bytesTransmitted, C)
                  ELSE 0
<1>1. /\ r.usageType \in UsageTypes
      /\ r.bytesReceived \in Nat /\ r.bytesTransmitted \in Nat /\ r.duration \in Nat
  BY DEF Known, CallRecord
<1>2. CountOf(r.usageType) \in {"moc_cnt", "mtc_cnt", "sms_mo_cnt", "sms_mt_cnt", "data_cnt",
                                "noans_cnt", "busy_cnt", "failed_cnt"}
  BY <1>1 DEF CountOf, UsageTypes
<1>3. PICK s, c, d : /\ s = <<Plus(c, 1), Plus(d, 1)>>
                     /\ c = Total("records") /\ d = Total(CountOf(r.usageType))
  OBVIOUS
<1>4. /\ s \in Seq(Additions(TotalCells))
      /\ AddedTo(s, C) = CountPart(r, C)
  <2>1. c \in TotalCells /\ d \in TotalCells
    BY <1>2, <1>3 DEF Total, TotalCells
  <2> QED
    BY <1>3, <2>1, TwoPlusAdd DEF CountPart
<1>5. CASE r.usageType = "D"
  <2>1. PICK e, f, g, n, k, l, t : /\ e = Total("data_dur") /\ n = r.duration
                                   /\ f = Total("data_rx") /\ k = r.bytesReceived
                                   /\ g = Total("data_tx") /\ l = r.bytesTransmitted
                                   /\ t = <<Plus(e, n), Plus(f, k), Plus(g, l)>>
    OBVIOUS
  <2>2. /\ e \in TotalCells /\ f \in TotalCells /\ g \in TotalCells
        /\ n \in Nat /\ k \in Nat /\ l \in Nat
    BY <1>1, <2>1 DEF Total, TotalCells
  <2>3. /\ t \in Seq(Additions(TotalCells))
        /\ AddedTo(t, C) = Share(e, n, C) + Share(f, k, C) + Share(g, l, C)
    <3>1. /\ <<Plus(e, n), Plus(f, k), Plus(g, l)>> \in Seq(Additions(TotalCells))
          /\ AddedTo(<<Plus(e, n), Plus(f, k), Plus(g, l)>>, C)
                 = Share(e, n, C) + Share(f, k, C) + Share(g, l, C)
      BY <2>2, ThreePlusAdd
    <3> QED
      BY <2>1, <3>1
  <2>4. TotalsRecord(r) = s \o t
    BY <1>3, <1>5, <2>1 DEF TotalsRecord
  <2>5. s \o t \in Seq(Additions(TotalCells)) /\ AddedTo(s \o t, C) = AddedTo(s, C) + AddedTo(t, C)
    BY <1>4, <2>3, BothAdded
  <2> QED
    BY <1>4, <1>5, <2>1, <2>3, <2>4, <2>5
<1>6. ASSUME NEW f \in {"moc_dur", "mtc_dur"}, TotalsRecord(r) = s \o <<Plus(Total(f), r.duration)>>
      PROVE  /\ TotalsRecord(r) \in Seq(Additions(TotalCells))
             /\ AddedTo(TotalsRecord(r), C) = CountPart(r, C) + Share(Total(f), r.duration, C)
  <2>1. PICK t, e : e = Total(f) /\ t = <<Plus(e, r.duration)>>
    OBVIOUS
  <2>2. e \in TotalCells
    BY <2>1 DEF Total, TotalCells
  <2>3. t \in Seq(Additions(TotalCells)) /\ AddedTo(t, C) = Share(e, r.duration, C)
    BY <1>1, <2>1, <2>2, PlusAdds
  <2>4. s \o t \in Seq(Additions(TotalCells)) /\ AddedTo(s \o t, C) = AddedTo(s, C) + AddedTo(t, C)
    BY <1>4, <2>3, BothAdded
  <2> QED
    BY <1>4, <1>6, <2>1, <2>3, <2>4
<1>7. CASE r.usageType = "MOC"
  <2>1. TotalsRecord(r) = s \o <<Plus(Total("moc_dur"), r.duration)>>
    BY <1>3, <1>7 DEF TotalsRecord
  <2> QED
    BY <1>6, <1>7, <2>1
<1>8. CASE r.usageType = "MTC"
  <2>1. TotalsRecord(r) = s \o <<Plus(Total("mtc_dur"), r.duration)>>
    BY <1>3, <1>8 DEF TotalsRecord
  <2> QED
    BY <1>6, <1>8, <2>1
<1>9. CASE r.usageType \notin {"MOC", "MTC", "D"}
  <2>1. TotalsRecord(r) = s \o <<>>
    BY <1>3, <1>9 DEF TotalsRecord
  <2>2. s \o <<>> = s
    BY <1>4
  <2>3. CountPart(r, C) \in Nat
    BY DEF CountPart, Share
  <2> QED
    BY <1>4, <1>9, <2>1, <2>2, <2>3
<1> QED
  BY <1>5, <1>7, <1>8, <1>9

-----------------------------------------------------------------------------
(* What one record adds to a field, over all subscribers, operators, links. *)

Cells(Names) == FoldCells(Names) \cup TotalCells \cup TopCells(Names)

Of(Names, kind, field) == {c \in Cells(Names) : c[1] = kind /\ c[3] = field}

Weights == {"dur", "sms", "cnt"}

LEMMA ShareOfSub ==
    ASSUME NEW Names, NEW m \in Names, NEW f \in Meters, NEW n, NEW kind, NEW field
    PROVE  Share(Sub(m, f), n, Of(Names, kind, field)) = IF kind = "sub" /\ field = f THEN n ELSE 0
<1>1. Sub(m, f) \in FoldCells(Names)
  BY DEF FoldCells, Sub
<1>2. Sub(m, f)[1] = "sub" /\ Sub(m, f)[3] = f
  BY DEF Sub
<1> QED
  BY <1>1, <1>2 DEF Share, Of, Cells

LEMMA ShareOfOp ==
    ASSUME NEW Names, NEW m \in Names, NEW f \in Meters, NEW n, NEW kind, NEW field
    PROVE  Share(Op(m, f), n, Of(Names, kind, field)) = IF kind = "op" /\ field = f THEN n ELSE 0
<1>1. Op(m, f) \in FoldCells(Names)
  BY DEF FoldCells, Op
<1>2. Op(m, f)[1] = "op" /\ Op(m, f)[3] = f
  BY DEF Op
<1> QED
  BY <1>1, <1>2 DEF Share, Of, Cells

LEMMA ShareOfLink ==
    ASSUME NEW Names, NEW a \in Names, NEW b \in Names, NEW f \in Weights, NEW n, NEW kind, NEW field
    PROVE  Share(Link(a, b, f), n, Of(Names, kind, field)) = IF kind = "link" /\ field = f THEN n ELSE 0
<1>1. Link(a, b, f) \in FoldCells(Names)
  BY DEF FoldCells, Link, Weights
<1>2. Link(a, b, f)[1] = "link" /\ Link(a, b, f)[3] = f
  BY DEF Link
<1> QED
  BY <1>1, <1>2 DEF Share, Of, Cells

LEMMA ShareOfTotal ==
    ASSUME NEW f, NEW n, NEW field
    PROVE  Share(Total(f), n, {Total(field)}) = IF field = f THEN n ELSE 0
BY DEF Share, Total

SubUnits(r, f) ==
    IF r.usageType = "D"
    THEN IF f = "data_rx" THEN r.bytesReceived ELSE IF f = "data_tx" THEN r.bytesTransmitted ELSE 0
    ELSE IF Meter(r) = f THEN Units(r) ELSE 0

LinkUnits(r, f) ==
    IF r.usageType \in {"MOC", "MTC"}
    THEN IF f = "dur" THEN r.duration ELSE IF f = "cnt" THEN 1 ELSE 0
    ELSE IF f = "sms" THEN 1 ELSE 0

TotalUnits(r, f) ==
    IF f = "records" \/ f = CountOf(r.usageType) THEN 1
    ELSE IF r.usageType = "MOC" /\ f = "moc_dur" THEN r.duration
    ELSE IF r.usageType = "MTC" /\ f = "mtc_dur" THEN r.duration
    ELSE IF r.usageType = "D" /\ f = "data_dur" THEN r.duration
    ELSE IF r.usageType = "D" /\ f = "data_rx" THEN r.bytesReceived
    ELSE IF r.usageType = "D" /\ f = "data_tx" THEN r.bytesTransmitted
    ELSE 0

LEMMA SubPart ==
    ASSUME NEW Names, NEW r, Known(r, Names), NEW kind, NEW f
    PROVE  AddedTo(SubSeqOf(r), Of(Names, kind, f)) = IF kind = "sub" THEN SubUnits(r, f) ELSE 0
<1>1. r.subscriberMSISDN \in Names /\ r \in CallRecord
  BY DEF Known
<1>2. /\ Units(r) \in Nat /\ r.bytesReceived \in Nat /\ r.bytesTransmitted \in Nat
      /\ Meter(r) \in Meters /\ "data_rx" \in Meters /\ "data_tx" \in Meters
  BY <1>1, MeterAndUnits DEF CallRecord, Meters
<1>3. PICK m, C : m = r.subscriberMSISDN /\ C = Of(Names, kind, f)
  OBVIOUS
<1>4. AddedTo(SubSeqOf(r), C) =
          IF r.usageType = "D"
          THEN Share(Sub(m, "data_rx"), r.bytesReceived, C) + Share(Sub(m, "data_tx"), r.bytesTransmitted, C)
          ELSE Share(Sub(m, Meter(r)), Units(r), C)
  BY <1>3, SubAdds
<1>5. /\ Share(Sub(m, "data_rx"), r.bytesReceived, C) =
             IF kind = "sub" /\ f = "data_rx" THEN r.bytesReceived ELSE 0
      /\ Share(Sub(m, "data_tx"), r.bytesTransmitted, C) =
             IF kind = "sub" /\ f = "data_tx" THEN r.bytesTransmitted ELSE 0
      /\ Share(Sub(m, Meter(r)), Units(r), C) = IF kind = "sub" /\ f = Meter(r) THEN Units(r) ELSE 0
  BY <1>1, <1>2, <1>3, ShareOfSub
<1> QED
  BY <1>2, <1>3, <1>4, <1>5 DEF SubUnits

LEMMA OpPart ==
    ASSUME NEW Names, NEW r, Known(r, Names), NEW kind, NEW f
    PROVE  AddedTo(OpSeqOf(r), Of(Names, kind, f)) =
               IF kind = "op" /\ Operator(r) # 0 /\ r.usageType \in TrafficTypes
               THEN SubUnits(r, f) ELSE 0
<1>1. Operator(r) \in Names /\ r \in CallRecord
  BY DEF Known
<1>2. Units(r) \in Nat /\ Meter(r) \in Meters
  BY <1>1, MeterAndUnits
<1>3. PICK C : C = Of(Names, kind, f)
  OBVIOUS
<1>4. AddedTo(OpSeqOf(r), C) =
          IF Operator(r) = 0 \/ r.usageType \notin TrafficTypes THEN 0
          ELSE Share(Op(Operator(r), Meter(r)), Units(r), C)
  BY <1>3, OpAdds
<1>5. Share(Op(Operator(r), Meter(r)), Units(r), C) = IF kind = "op" /\ f = Meter(r) THEN Units(r) ELSE 0
  BY <1>1, <1>2, <1>3, ShareOfOp
<1>6. r.usageType \in TrafficTypes => SubUnits(r, f) = IF f = Meter(r) THEN Units(r) ELSE 0
  BY DEF SubUnits, TrafficTypes
<1> QED
  BY <1>2, <1>3, <1>4, <1>5, <1>6

LEMMA LinkPart ==
    ASSUME NEW Names, NEW r, Known(r, Names), NEW kind, NEW f
    PROVE  AddedTo(LinkOf(r), Of(Names, kind, f)) =
               IF kind = "link" /\ r.secondPartyMSISDN # 0 /\ r.usageType \in TrafficTypes
               THEN 2 * LinkUnits(r, f) ELSE 0
<1>1. /\ r.subscriberMSISDN \in Names /\ r.secondPartyMSISDN \in Names
      /\ r.duration \in Nat /\ r.usageType \in UsageTypes
  BY DEF Known, CallRecord
<1>2. PICK C, a, b, n : C = Of(Names, kind, f) /\ a = r.subscriberMSISDN /\ b = r.secondPartyMSISDN
                        /\ n = r.duration
  OBVIOUS
<1>3. AddedTo(LinkOf(r), C) =
          IF b = 0 \/ r.usageType \notin TrafficTypes THEN 0
          ELSE IF r.usageType \in {"MOC", "MTC"}
          THEN LinkShare(a, b, n, 0, 1, C) + LinkShare(b, a, n, 0, 1, C)
          ELSE LinkShare(a, b, 0, 1, 0, C) + LinkShare(b, a, 0, 1, 0, C)
  BY <1>2, LinkOfAdds
<1>4. ASSUME NEW x \in Names, NEW y \in Names, NEW i \in Nat, NEW j \in Nat, NEW k \in Nat
      PROVE  LinkShare(x, y, i, j, k, C) =
                 IF kind # "link" THEN 0
                 ELSE IF f = "dur" THEN i ELSE IF f = "sms" THEN j ELSE IF f = "cnt" THEN k ELSE 0
  <2>1. /\ Share(Link(x, y, "dur"), i, C) = IF kind = "link" /\ f = "dur" THEN i ELSE 0
        /\ Share(Link(x, y, "sms"), j, C) = IF kind = "link" /\ f = "sms" THEN j ELSE 0
        /\ Share(Link(x, y, "cnt"), k, C) = IF kind = "link" /\ f = "cnt" THEN k ELSE 0
    BY <1>2, ShareOfLink DEF Weights
  <2> QED
    BY <2>1 DEF LinkShare
<1>5. PICK call, text : /\ call = (IF kind # "link" THEN 0
                                   ELSE IF f = "dur" THEN n ELSE IF f = "sms" THEN 0 ELSE IF f = "cnt" THEN 1 ELSE 0)
                        /\ text = (IF kind # "link" THEN 0
                                   ELSE IF f = "dur" THEN 0 ELSE IF f = "sms" THEN 1 ELSE IF f = "cnt" THEN 0 ELSE 0)
  OBVIOUS
<1>6. /\ LinkShare(a, b, n, 0, 1, C) = call /\ LinkShare(b, a, n, 0, 1, C) = call
      /\ LinkShare(a, b, 0, 1, 0, C) = text /\ LinkShare(b, a, 0, 1, 0, C) = text
  <2>1. a \in Names /\ b \in Names /\ n \in Nat /\ 0 \in Nat /\ 1 \in Nat
    BY <1>1, <1>2
  <2> QED
    BY <1>4, <1>5, <2>1
<1>7. call \in Nat /\ text \in Nat
  BY <1>1, <1>2, <1>5
<1>8. call + call = 2 * call /\ text + text = 2 * text
  BY <1>7
<1>9. r.usageType \in TrafficTypes /\ kind = "link" =>
          LinkUnits(r, f) = IF r.usageType \in {"MOC", "MTC"} THEN call ELSE text
  BY <1>2, <1>5 DEF LinkUnits, TrafficTypes
<1>10. kind # "link" => call = 0 /\ text = 0
  BY <1>5
<1> QED
  BY <1>2, <1>3, <1>6, <1>8, <1>9, <1>10

(* What a record adds to the field of all subscribers, of all operators, of *)
(* all links.                                                               *)
LEMMA FieldOfRecord ==
    ASSUME NEW Names, NEW r, Known(r, Names), NEW f
    PROVE  /\ AddedTo(FoldRecord(r), Of(Names, "sub", f)) =
                  IF r.subscriberMSISDN = 0 THEN 0 ELSE SubUnits(r, f)
           /\ AddedTo(FoldRecord(r), Of(Names, "op", f)) =
                  IF r.subscriberMSISDN # 0 /\ Operator(r) # 0 /\ r.usageType \in TrafficTypes
                  THEN SubUnits(r, f) ELSE 0
           /\ AddedTo(FoldRecord(r), Of(Names, "link", f)) =
                  IF r.subscriberMSISDN # 0 /\ r.secondPartyMSISDN # 0 /\ r.usageType \in TrafficTypes
                  THEN 2 * LinkUnits(r, f) ELSE 0
<1>1. SubUnits(r, f) \in Nat /\ 2 * LinkUnits(r, f) \in Nat
  BY MeterAndUnits DEF SubUnits, LinkUnits, Known, CallRecord
<1>2. ASSUME NEW kind
      PROVE  AddedTo(FoldRecord(r), Of(Names, kind, f)) =
                 IF r.subscriberMSISDN = 0 THEN 0
                 ELSE (IF kind = "sub" THEN SubUnits(r, f) ELSE 0)
                      + (IF kind = "op" /\ Operator(r) # 0 /\ r.usageType \in TrafficTypes
                         THEN SubUnits(r, f) ELSE 0)
                      + (IF kind = "link" /\ r.secondPartyMSISDN # 0 /\ r.usageType \in TrafficTypes
                         THEN 2 * LinkUnits(r, f) ELSE 0)
  BY RecordAdds, SubPart, OpPart, LinkPart
<1>3. PICK k : k = "sub"
  OBVIOUS
<1>4. PICK l : l = "op"
  OBVIOUS
<1>5. PICK n : n = "link"
  OBVIOUS
<1>6. /\ AddedTo(FoldRecord(r), Of(Names, k, f)) =
             IF r.subscriberMSISDN = 0 THEN 0 ELSE SubUnits(r, f)
      /\ AddedTo(FoldRecord(r), Of(Names, l, f)) =
             IF r.subscriberMSISDN # 0 /\ Operator(r) # 0 /\ r.usageType \in TrafficTypes
             THEN SubUnits(r, f) ELSE 0
      /\ AddedTo(FoldRecord(r), Of(Names, n, f)) =
             IF r.subscriberMSISDN # 0 /\ r.secondPartyMSISDN # 0 /\ r.usageType \in TrafficTypes
             THEN 2 * LinkUnits(r, f) ELSE 0
  BY <1>1, <1>2, <1>3, <1>4, <1>5
<1> QED
  BY <1>3, <1>4, <1>5, <1>6

LEMMA TotalOfRecord ==
    ASSUME NEW Names, NEW r, Known(r, Names), NEW f
    PROVE  AddedTo(TotalsRecord(r), {Total(f)}) = TotalUnits(r, f)
<1>1. /\ r.duration \in Nat /\ r.usageType \in UsageTypes
      /\ r.bytesReceived \in Nat /\ r.bytesTransmitted \in Nat
  BY DEF Known, CallRecord
<1>2. PICK C : C = {Total(f)}
  OBVIOUS
<1>3. AddedTo(TotalsRecord(r), C) = CountPart(r, C) +
          IF r.usageType = "MOC" THEN Share(Total("moc_dur"), r.duration, C)
          ELSE IF r.usageType = "MTC" THEN Share(Total("mtc_dur"), r.duration, C)
          ELSE IF r.usageType = "D"
          THEN Share(Total("data_dur"), r.duration, C)
               + Share(Total("data_rx"), r.bytesReceived, C)
               + Share(Total("data_tx"), r.bytesTransmitted, C)
          ELSE 0
  BY TotalsAdd
<1>4. ASSUME NEW g, NEW n PROVE Share(Total(g), n, C) = IF f = g THEN n ELSE 0
  BY <1>2, ShareOfTotal
<1>5. CountPart(r, C) = IF f = "records" \/ f = CountOf(r.usageType) THEN 1 ELSE 0
  <2>1. CountOf(r.usageType) # "records"
    BY <1>1 DEF CountOf, UsageTypes
  <2> QED
    BY <1>4, <2>1 DEF CountPart
<1>6. AddedTo(TotalsRecord(r), C) =
          (IF f = "records" \/ f = CountOf(r.usageType) THEN 1 ELSE 0) +
          IF r.usageType = "MOC" THEN IF f = "moc_dur" THEN r.duration ELSE 0
          ELSE IF r.usageType = "MTC" THEN IF f = "mtc_dur" THEN r.duration ELSE 0
          ELSE IF r.usageType = "D"
          THEN (IF f = "data_dur" THEN r.duration ELSE 0)
               + (IF f = "data_rx" THEN r.bytesReceived ELSE 0)
               + (IF f = "data_tx" THEN r.bytesTransmitted ELSE 0)
          ELSE 0
  BY <1>3, <1>4, <1>5
<1>7. CountOf(r.usageType) \notin {"moc_dur", "mtc_dur", "data_dur", "data_rx", "data_tx"}
  BY <1>1 DEF CountOf, UsageTypes
<1> QED
  BY <1>1, <1>2, <1>6, <1>7 DEF TotalUnits

(* The fields of a subscriber, and the total that covers each.              *)
Covered == {<<"voice_out", "moc_dur">>, <<"voice_in", "mtc_dur">>,
            <<"sms_out", "sms_mo_cnt">>, <<"sms_in", "sms_mt_cnt">>,
            <<"data_rx", "data_rx">>, <<"data_tx", "data_tx">>,
            <<"noans", "noans_cnt">>, <<"busy", "busy_cnt">>,
            <<"failed", "failed_cnt">>}

Counts == {"moc_cnt", "mtc_cnt", "sms_mo_cnt", "sms_mt_cnt", "data_cnt",
           "noans_cnt", "busy_cnt", "failed_cnt"}

LEMMA UnitsAreNatural ==
    ASSUME NEW Names, NEW r, Known(r, Names), NEW f
    PROVE  SubUnits(r, f) \in Nat /\ LinkUnits(r, f) \in Nat /\ TotalUnits(r, f) \in Nat
BY MeterAndUnits DEF SubUnits, LinkUnits, TotalUnits, Known, CallRecord

LEMMA UnitsAreCovered ==
    ASSUME NEW r \in CallRecord, NEW f, NEW t, <<f, t>> \in Covered
    PROVE  SubUnits(r, f) <= TotalUnits(r, t)
<1>1. /\ r.duration \in Nat /\ r.usageType \in UsageTypes
      /\ r.bytesReceived \in Nat /\ r.bytesTransmitted \in Nat
  BY DEF CallRecord
<1>2. SubUnits(r, f) \in Nat /\ TotalUnits(r, t) \in Nat
  BY <1>1, MeterAndUnits DEF SubUnits, TotalUnits
<1>3. CASE r.usageType = "D"
  BY <1>1, <1>2, <1>3 DEF SubUnits, TotalUnits, Covered, CountOf
<1>4. CASE r.usageType = "MOC"
  BY <1>1, <1>2, <1>4 DEF SubUnits, TotalUnits, Covered, CountOf, Meter, Units
<1>5. CASE r.usageType = "MTC"
  BY <1>1, <1>2, <1>5 DEF SubUnits, TotalUnits, Covered, CountOf, Meter, Units
<1>6. CASE r.usageType \notin {"D", "MOC", "MTC"}
  BY <1>1, <1>2, <1>6 DEF SubUnits, TotalUnits, Covered, CountOf, Meter, Units, UsageTypes
<1> QED
  BY <1>3, <1>4, <1>5, <1>6

(* No field of the operators exceeds the subscribers', and no field of the  *)
(* subscribers its total.                                                   *)
LEMMA RecordIsCovered ==
    ASSUME NEW Names, NEW r, Known(r, Names), NEW f, NEW t, <<f, t>> \in Covered
    PROVE  /\ AddedTo(FoldRecord(r), Of(Names, "op", f)) <= AddedTo(FoldRecord(r), Of(Names, "sub", f))
           /\ AddedTo(FoldRecord(r), Of(Names, "sub", f)) <= AddedTo(TotalsRecord(r), {Total(t)})
<1>1. SubUnits(r, f) <= TotalUnits(r, t)
  BY UnitsAreCovered DEF Known
<1>2. SubUnits(r, f) \in Nat /\ TotalUnits(r, t) \in Nat
  BY UnitsAreNatural
<1> QED
  BY <1>1, <1>2, FieldOfRecord, TotalOfRecord

CountCells == {Total(t) : t \in Counts}

(* Every record is of one type.                                             *)
LEMMA RecordIsCounted ==
    ASSUME NEW Names, NEW r, Known(r, Names)
    PROVE  AddedTo(TotalsRecord(r), CountCells) = AddedTo(TotalsRecord(r), {Total("records")})
<1>1. /\ r.duration \in Nat /\ r.usageType \in UsageTypes
      /\ r.bytesReceived \in Nat /\ r.bytesTransmitted \in Nat
  BY DEF Known, CallRecord
<1>2. CountOf(r.usageType) \in Counts
  BY <1>1 DEF UsageTypes, CountOf, Counts
<1>3. ASSUME NEW f, NEW n PROVE Share(Total(f), n, CountCells) = IF f \in Counts THEN n ELSE 0
  BY DEF Share, Total, CountCells
<1>4. CountPart(r, CountCells) = 1
  BY <1>2, <1>3 DEF CountPart, Counts
<1>5. AddedTo(TotalsRecord(r), CountCells) = 1
  <2>1. PICK C : C = CountCells
    OBVIOUS
  <2>2. AddedTo(TotalsRecord(r), C) = CountPart(r, C) +
            IF r.usageType = "MOC" THEN Share(Total("moc_dur"), r.duration, C)
            ELSE IF r.usageType = "MTC" THEN Share(Total("mtc_dur"), r.duration, C)
            ELSE IF r.usageType = "D"
            THEN Share(Total("data_dur"), r.duration, C)
                 + Share(Total("data_rx"), r.bytesReceived, C)
                 + Share(Total("data_tx"), r.bytesTransmitted, C)
            ELSE 0
    BY TotalsAdd
  <2>3. /\ Share(Total("moc_dur"), r.duration, C) = 0 /\ Share(Total("mtc_dur"), r.duration, C) = 0
        /\ Share(Total("data_dur"), r.duration, C) = 0
        /\ Share(Total("data_rx"), r.bytesReceived, C) = 0
        /\ Share(Total("data_tx"), r.bytesTransmitted, C) = 0
    BY <1>3, <2>1 DEF Counts
  <2> QED
    BY <1>4, <2>1, <2>2, <2>3
<1>6. AddedTo(TotalsRecord(r), {Total("records")}) = 1
  BY TotalOfRecord DEF TotalUnits
<1> QED
  BY <1>5, <1>6

(* Each call with two parties is in two links, one from either end.         *)
LEMMA RecordLinksTwice ==
    ASSUME NEW Names, NEW r, Known(r, Names)
    PROVE  /\ AddedTo(FoldRecord(r), Of(Names, "link", "cnt"))
                  <= 2 * (AddedTo(TotalsRecord(r), {Total("moc_cnt")}) + AddedTo(TotalsRecord(r), {Total("mtc_cnt")}))
           /\ AddedTo(FoldRecord(r), Of(Names, "link", "sms"))
                  <= 2 * (AddedTo(TotalsRecord(r), {Total("sms_mo_cnt")})
                          + AddedTo(TotalsRecord(r), {Total("sms_mt_cnt")}))
           /\ AddedTo(FoldRecord(r), Of(Names, "link", "dur"))
                  <= 2 * (AddedTo(FoldRecord(r), Of(Names, "sub", "voice_out"))
                          + AddedTo(FoldRecord(r), Of(Names, "sub", "voice_in")))
<1>1. r.duration \in Nat /\ r.usageType \in UsageTypes
  BY DEF Known, CallRecord
<1>2. AddedTo(FoldRecord(r), Of(Names, "link", "cnt")) =
          IF r.subscriberMSISDN # 0 /\ r.secondPartyMSISDN # 0 /\ r.usageType \in {"MOC", "MTC"} THEN 2 ELSE 0
  BY FieldOfRecord DEF LinkUnits, TrafficTypes
<1>3. AddedTo(FoldRecord(r), Of(Names, "link", "sms")) =
          IF r.subscriberMSISDN # 0 /\ r.secondPartyMSISDN # 0 /\ r.usageType \in {"SMS_MO", "SMS_MT"} THEN 2 ELSE 0
  BY FieldOfRecord DEF LinkUnits, TrafficTypes
<1>4. AddedTo(FoldRecord(r), Of(Names, "link", "dur")) =
          IF r.subscriberMSISDN # 0 /\ r.secondPartyMSISDN # 0 /\ r.usageType \in {"MOC", "MTC"}
          THEN 2 * r.duration ELSE 0
  BY <1>1, FieldOfRecord DEF LinkUnits, TrafficTypes
<1>5. /\ AddedTo(FoldRecord(r), Of(Names, "sub", "voice_out")) =
             IF r.subscriberMSISDN # 0 /\ r.usageType = "MOC" THEN r.duration ELSE 0
      /\ AddedTo(FoldRecord(r), Of(Names, "sub", "voice_in")) =
             IF r.subscriberMSISDN # 0 /\ r.usageType = "MTC" THEN r.duration ELSE 0
  BY <1>1, FieldOfRecord DEF SubUnits, Meter, Units, UsageTypes
<1>6. /\ AddedTo(TotalsRecord(r), {Total("moc_cnt")}) = IF r.usageType = "MOC" THEN 1 ELSE 0
      /\ AddedTo(TotalsRecord(r), {Total("mtc_cnt")}) = IF r.usageType = "MTC" THEN 1 ELSE 0
      /\ AddedTo(TotalsRecord(r), {Total("sms_mo_cnt")}) = IF r.usageType = "SMS_MO" THEN 1 ELSE 0
      /\ AddedTo(TotalsRecord(r), {Total("sms_mt_cnt")}) = IF r.usageType = "SMS_MT" THEN 1 ELSE 0
  BY <1>1, TotalOfRecord DEF TotalUnits, CountOf, UsageTypes
<1> QED
  BY <1>1, <1>2, <1>3, <1>4, <1>5, <1>6

(* A link from one end weighs what it does from the other.                  *)
LEMMA RecordMirrors ==
    ASSUME NEW Names, NEW r, Known(r, Names), NEW a, NEW b, NEW f
    PROVE  AddedTo(FoldRecord(r), {Link(a, b, f)}) = AddedTo(FoldRecord(r), {Link(b, a, f)})
<1>1. r.duration \in Nat /\ r \in CallRecord
  BY DEF Known, CallRecord
<1>2. ASSUME NEW x, NEW y, NEW n, NEW g
      PROVE  /\ Share(Sub(x, g), n, {Link(a, b, f)}) = 0 /\ Share(Sub(x, g), n, {Link(b, a, f)}) = 0
             /\ Share(Op(x, g), n, {Link(a, b, f)}) = 0 /\ Share(Op(x, g), n, {Link(b, a, f)}) = 0
             /\ Share(Link(x, y, g), n, {Link(a, b, f)}) = Share(Link(y, x, g), n, {Link(b, a, f)})
  BY DEF Share, Sub, Op, Link
<1>3. ASSUME NEW x, NEW y, NEW i \in Nat, NEW j \in Nat, NEW k \in Nat
      PROVE  /\ LinkShare(x, y, i, j, k, {Link(a, b, f)}) = LinkShare(y, x, i, j, k, {Link(b, a, f)})
             /\ LinkShare(x, y, i, j, k, {Link(a, b, f)}) \in Nat
  <2>1. LinkShare(x, y, i, j, k, {Link(a, b, f)}) = LinkShare(y, x, i, j, k, {Link(b, a, f)})
    BY <1>2 DEF LinkShare
  <2>2. LinkShare(x, y, i, j, k, {Link(a, b, f)}) \in Nat
    BY DEF LinkShare, Share
  <2> QED
    BY <2>1, <2>2
<1>4. ASSUME NEW C, C \in {{Link(a, b, f)}, {Link(b, a, f)}}
      PROVE  AddedTo(SubSeqOf(r), C) = 0 /\ AddedTo(OpSeqOf(r), C) = 0
  <2>1. ASSUME NEW x, NEW n, NEW g PROVE Share(Sub(x, g), n, C) = 0 /\ Share(Op(x, g), n, C) = 0
    BY <1>2, <1>4
  <2>2. AddedTo(SubSeqOf(r), C) = 0
    <3>1. AddedTo(SubSeqOf(r), C) =
              IF r.usageType = "D"
              THEN Share(Sub(r.subscriberMSISDN, "data_rx"), r.bytesReceived, C)
                   + Share(Sub(r.subscriberMSISDN, "data_tx"), r.bytesTransmitted, C)
              ELSE Share(Sub(r.subscriberMSISDN, Meter(r)), Units(r), C)
      BY SubAdds
    <3> QED
      BY <2>1, <3>1
  <2>3. AddedTo(OpSeqOf(r), C) = 0
    <3>1. AddedTo(OpSeqOf(r), C) =
              IF Operator(r) = 0 \/ r.usageType \notin TrafficTypes THEN 0
              ELSE Share(Op(Operator(r), Meter(r)), Units(r), C)
      BY OpAdds
    <3> QED
      BY <2>1, <3>1
  <2> QED
    BY <2>2, <2>3
<1>6. AddedTo(LinkOf(r), {Link(a, b, f)}) = AddedTo(LinkOf(r), {Link(b, a, f)})
  <2>1. PICK C, D, s, t, n : /\ C = {Link(a, b, f)} /\ D = {Link(b, a, f)} /\ n = r.duration
                             /\ s = r.subscriberMSISDN /\ t = r.secondPartyMSISDN
    OBVIOUS
  <2>2. ASSUME NEW i \in Nat, NEW j \in Nat, NEW k \in Nat
        PROVE  LinkShare(s, t, i, j, k, C) + LinkShare(t, s, i, j, k, C)
                   = LinkShare(s, t, i, j, k, D) + LinkShare(t, s, i, j, k, D)
    <3>1. LinkShare(s, t, i, j, k, C) = LinkShare(t, s, i, j, k, D) /\ LinkShare(s, t, i, j, k, C) \in Nat
      BY <1>3, <2>1
    <3>2. LinkShare(t, s, i, j, k, C) = LinkShare(s, t, i, j, k, D) /\ LinkShare(t, s, i, j, k, C) \in Nat
      BY <1>3, <2>1
    <3> QED
      BY <3>1, <3>2
  <2>3. ASSUME NEW E
        PROVE  AddedTo(LinkOf(r), E) =
                   IF t = 0 \/ r.usageType \notin TrafficTypes THEN 0
                   ELSE IF r.usageType \in {"MOC", "MTC"}
                   THEN LinkShare(s, t, n, 0, 1, E) + LinkShare(t, s, n, 0, 1, E)
                   ELSE LinkShare(s, t, 0, 1, 0, E) + LinkShare(t, s, 0, 1, 0, E)
    BY <2>1, LinkOfAdds
  <2>4. n \in Nat /\ 0 \in Nat /\ 1 \in Nat
    BY <1>1, <2>1
  <2>5. /\ LinkShare(s, t, n, 0, 1, C) + LinkShare(t, s, n, 0, 1, C)
               = LinkShare(s, t, n, 0, 1, D) + LinkShare(t, s, n, 0, 1, D)
        /\ LinkShare(s, t, 0, 1, 0, C) + LinkShare(t, s, 0, 1, 0, C)
               = LinkShare(s, t, 0, 1, 0, D) + LinkShare(t, s, 0, 1, 0, D)
    BY <2>2, <2>4
  <2>6. AddedTo(LinkOf(r), C) = AddedTo(LinkOf(r), D)
    BY <2>3, <2>5
  <2> QED
    BY <2>1, <2>6
<1>7. /\ AddedTo(SubSeqOf(r), {Link(a, b, f)}) = 0 /\ AddedTo(OpSeqOf(r), {Link(a, b, f)}) = 0
      /\ AddedTo(SubSeqOf(r), {Link(b, a, f)}) = 0 /\ AddedTo(OpSeqOf(r), {Link(b, a, f)}) = 0
  BY <1>4
<1> QED
  BY <1>6, <1>7, RecordAdds

-----------------------------------------------------------------------------
(* What a batch adds: the sums of fold() and of the totals.                 *)

KnownBatch(batch, Names) == batch \in Seq(CallRecord) /\ \A i \in DOMAIN batch : Known(batch[i], Names)

LEMMA FoldHolds ==
    ASSUME NEW Names, NEW batch, KnownBatch(batch, Names)
    PROVE  Holds(Fold(batch), FoldCells(Names))
<1>1. PICK ss : ss = [i \in DOMAIN batch |-> FoldRecord(batch[i])]
  OBVIOUS
<1>2. ss \in Seq(Seq(Additions(FoldCells(Names))))
  <2>1. \A i \in DOMAIN batch : FoldRecord(batch[i]) \in Seq(Additions(FoldCells(Names)))
    BY RecordAdds DEF KnownBatch
  <2>2. batch \in Seq(CallRecord)
    BY DEF KnownBatch
  <2> QED
    BY <1>1, <2>1, <2>2
<1>3. FlattenSeq(ss) \in Seq(Additions(FoldCells(Names)))
  <2>1. PICK C, w : C = {} /\ w = [i \in DOMAIN ss |-> AddedTo(ss[i], C)]
    OBVIOUS
  <2>2. \A i \in DOMAIN ss : w[i] = AddedTo(ss[i], C)
    BY <2>1
  <2> QED
    BY <1>2, <2>2, FlatAdds
<1> QED
  BY <1>1, <1>3, SummedByCell DEF Fold

LEMMA FoldSums ==
    ASSUME NEW Names, NEW batch, KnownBatch(batch, Names), NEW C,
           NEW w, \A i \in DOMAIN batch : w[i] = AddedTo(FoldRecord(batch[i]), C)
    PROVE  Naturals(w, DOMAIN batch) /\ HeldIn(Fold(batch), C) = SumOf(w, DOMAIN batch)
<1>1. PICK ss : ss = [i \in DOMAIN batch |-> FoldRecord(batch[i])]
  OBVIOUS
<1>2. ss \in Seq(Seq(Additions(FoldCells(Names))))
  <2>1. \A i \in DOMAIN batch : FoldRecord(batch[i]) \in Seq(Additions(FoldCells(Names)))
    BY RecordAdds DEF KnownBatch
  <2>2. batch \in Seq(CallRecord)
    BY DEF KnownBatch
  <2> QED
    BY <1>1, <2>1, <2>2
<1>3. DOMAIN ss = DOMAIN batch /\ \A i \in DOMAIN ss : w[i] = AddedTo(ss[i], C)
  BY <1>1
<1>4. /\ FlattenSeq(ss) \in Seq(Additions(FoldCells(Names)))
      /\ Naturals(w, DOMAIN ss)
      /\ AddedTo(FlattenSeq(ss), C) = SumOf(w, DOMAIN ss)
  BY <1>2, <1>3, FlatAdds
<1>5. HeldIn(Summed(FlattenSeq(ss)), C) = AddedTo(FlattenSeq(ss), C)
  BY <1>4, HeldIsAdded
<1> QED
  BY <1>1, <1>3, <1>4, <1>5 DEF Fold

LEMMA TotalsHold ==
    ASSUME NEW Names, NEW batch, KnownBatch(batch, Names)
    PROVE  Holds(TotalsOf(batch), TotalCells)
<1>1. PICK ss : ss = [i \in DOMAIN batch |-> TotalsRecord(batch[i])]
  OBVIOUS
<1>2. ss \in Seq(Seq(Additions(TotalCells)))
  <2>1. \A i \in DOMAIN batch : TotalsRecord(batch[i]) \in Seq(Additions(TotalCells))
    BY TotalsAdd DEF KnownBatch
  <2>2. batch \in Seq(CallRecord)
    BY DEF KnownBatch
  <2> QED
    BY <1>1, <2>1, <2>2
<1>3. FlattenSeq(ss) \in Seq(Additions(TotalCells))
  <2>1. PICK C, w : C = {} /\ w = [i \in DOMAIN ss |-> AddedTo(ss[i], C)]
    OBVIOUS
  <2>2. \A i \in DOMAIN ss : w[i] = AddedTo(ss[i], C)
    BY <2>1
  <2> QED
    BY <1>2, <2>2, FlatAdds
<1> QED
  BY <1>1, <1>3, SummedByCell DEF TotalsOf

LEMMA TotalsSum ==
    ASSUME NEW Names, NEW batch, KnownBatch(batch, Names), NEW C,
           NEW w, \A i \in DOMAIN batch : w[i] = AddedTo(TotalsRecord(batch[i]), C)
    PROVE  Naturals(w, DOMAIN batch) /\ HeldIn(TotalsOf(batch), C) = SumOf(w, DOMAIN batch)
<1>1. PICK ss : ss = [i \in DOMAIN batch |-> TotalsRecord(batch[i])]
  OBVIOUS
<1>2. ss \in Seq(Seq(Additions(TotalCells)))
  <2>1. \A i \in DOMAIN batch : TotalsRecord(batch[i]) \in Seq(Additions(TotalCells))
    BY TotalsAdd DEF KnownBatch
  <2>2. batch \in Seq(CallRecord)
    BY DEF KnownBatch
  <2> QED
    BY <1>1, <2>1, <2>2
<1>3. DOMAIN ss = DOMAIN batch /\ \A i \in DOMAIN ss : w[i] = AddedTo(ss[i], C)
  BY <1>1
<1>4. /\ FlattenSeq(ss) \in Seq(Additions(TotalCells))
      /\ Naturals(w, DOMAIN ss)
      /\ AddedTo(FlattenSeq(ss), C) = SumOf(w, DOMAIN ss)
  BY <1>2, <1>3, FlatAdds
<1>5. HeldIn(Summed(FlattenSeq(ss)), C) = AddedTo(FlattenSeq(ss), C)
  BY <1>4, HeldIsAdded
<1> QED
  BY <1>1, <1>3, <1>4, <1>5 DEF TotalsOf

(* Twice a sum, and twice two of them, added up element by element.         *)
LEMMA SumOfTwice ==
    ASSUME NEW v, NEW x, NEW y, NEW S, Naturals(v, S), Naturals(x, S), Naturals(y, S),
           \A i \in S : v[i] <= 2 * (x[i] + y[i])
    PROVE  SumOf(v, S) <= 2 * (SumOf(x, S) + SumOf(y, S))
<1>1. PICK u, w : u = [i \in S |-> x[i] + y[i]] /\ w = [i \in S |-> u[i] + u[i]]
  OBVIOUS
<1>2. Naturals(u, S) /\ SumOf(u, S) = SumOf(x, S) + SumOf(y, S)
  <2>1. \A i \in S : u[i] = x[i] + y[i]
    BY <1>1
  <2> QED
    BY <2>1, SumOfPlus
<1>3. Naturals(w, S) /\ SumOf(w, S) = SumOf(u, S) + SumOf(u, S)
  <2>1. \A i \in S : w[i] = u[i] + u[i]
    BY <1>1
  <2> QED
    BY <1>2, <2>1, SumOfPlus
<1>4. SumOf(v, S) <= SumOf(w, S)
  <2>1. ASSUME NEW i \in S PROVE v[i] \in Nat /\ v[i] <= w[i]
    <3>1. v[i] \in Nat /\ x[i] \in Nat /\ y[i] \in Nat
      BY DEF Naturals
    <3>2. w[i] = (x[i] + y[i]) + (x[i] + y[i])
      BY <1>1
    <3>3. v[i] <= 2 * (x[i] + y[i])
      OBVIOUS
    <3> QED
      BY <3>1, <3>2, <3>3
  <2>2. \A i \in S : v[i] \in Nat /\ v[i] <= w[i]
    BY <2>1
  <2> QED
    BY <1>3, <2>2, SumOfLess
<1>5. SumOf(v, S) \in Nat /\ SumOf(u, S) \in Nat /\ SumOf(w, S) \in Nat
  BY <1>2, <1>3, HeapIsFinite
<1>6. SumOf(u, S) + SumOf(u, S) = 2 * SumOf(u, S)
  BY <1>5
<1> QED
  BY <1>2, <1>3, <1>4, <1>6, Zenon

(* What cells hold, in sets of cells that share none.                       *)
LEMMA HeldIsNatural ==
    ASSUME NEW X, NEW cells, Holds(cells, X), NEW C
    PROVE  Naturals(cells, {c \in DOMAIN cells : c \in C}) /\ HeldIn(cells, C) \in Nat
<1>1. IsFiniteSet({c \in DOMAIN cells : c \in C})
  BY FS_Subset DEF Holds
<1>2. Naturals(cells, {c \in DOMAIN cells : c \in C})
  BY <1>1 DEF Naturals, Holds
<1> QED
  BY <1>2, HeapIsFinite DEF HeldIn

LEMMA HeldApart ==
    ASSUME NEW X, NEW cells, Holds(cells, X), NEW C, NEW D, C \cap D = {}
    PROVE  HeldIn(cells, C \cup D) = HeldIn(cells, C) + HeldIn(cells, D)
<1>1. PICK S, T : S = {c \in DOMAIN cells : c \in C} /\ T = {c \in DOMAIN cells : c \in D}
  OBVIOUS
<1>2. Naturals(cells, S) /\ Naturals(cells, T)
  BY <1>1, HeldIsNatural
<1>3. S \cap T = {}
  BY <1>1
<1>4. SumOf(cells, S \cup T) = SumOf(cells, S) + SumOf(cells, T)
  BY <1>2, <1>3, SumOfUnion
<1>5. {c \in DOMAIN cells : c \in C \cup D} = S \cup T
  BY <1>1
<1> QED
  BY <1>1, <1>4, <1>5 DEF HeldIn

LEMMA HeldInNone ==
    ASSUME NEW cells, NEW C, C \cap DOMAIN cells = {}
    PROVE  HeldIn(cells, C) = 0
<1>1. {c \in DOMAIN cells : c \in C} = {}
  OBVIOUS
<1> QED
  BY <1>1, SumOfNone DEF HeldIn

Apart(g, T) == \A e, f \in T : g[e] = g[f] => e = f

(* The sum of the cells g names.                                            *)
LEMMA HeldByName ==
    ASSUME NEW X, NEW cells, Holds(cells, X), NEW T, IsFiniteSet(T), NEW g, Apart(g, T),
           NEW w, \A f \in T : w[f] = At(cells, g[f])
    PROVE  Naturals(w, T) /\ SumOf(w, T) = HeldIn(cells, {g[f] : f \in T})
<1>1. ASSUME NEW f \in T PROVE w[f] \in Nat /\ w[f] = HeldIn(cells, {g[f]})
  <2>1. PICK c : c = g[f]
    OBVIOUS
  <2>2. At(cells, c) \in Nat /\ At(cells, c) = HeldIn(cells, {c})
    BY AtIsHeld
  <2> QED
    BY <2>1, <2>2
<1>2. PICK C : C = {S \in SUBSET T : SumOf(w, S) = HeldIn(cells, {g[f] : f \in S})}
  OBVIOUS
<1>3. {} \in C
  <2>1. HeldIn(cells, {}) = 0
    BY HeldInNone
  <2>2. {g[f] : f \in {}} = {}
    OBVIOUS
  <2> QED
    BY <1>2, <2>1, <2>2, SumOfNone
<1>4. ASSUME NEW S \in SUBSET T, NEW x \in T \ S, S \in C PROVE S \cup {x} \in C
  <2>1. PICK G : G = {g[f] : f \in S}
    OBVIOUS
  <2>2. SumOf(w, S) = HeldIn(cells, G)
    BY <1>2, <1>4, <2>1
  <2>3. Naturals(w, S)
    BY <1>1, FS_Subset DEF Naturals
  <2>4. SumOf(w, S \cup {x}) = SumOf(w, S) + w[x]
    BY <1>1, <2>3, SumOfMore
  <2>5. G \cap {g[x]} = {}
    BY <2>1 DEF Apart
  <2>6. HeldIn(cells, G \cup {g[x]}) = HeldIn(cells, G) + HeldIn(cells, {g[x]})
    BY <2>5, HeldApart
  <2>7. {g[f] : f \in S \cup {x}} = G \cup {g[x]}
    BY <2>1
  <2>8. SumOf(w, S \cup {x}) = HeldIn(cells, {g[f] : f \in S \cup {x}})
    BY <1>1, <2>2, <2>4, <2>6, <2>7
  <2>9. S \cup {x} \in SUBSET T
    OBVIOUS
  <2> QED
    BY <1>2, <2>8, <2>9
<1>5. T \in C
  <2>1. \A S \in SUBSET T : \A x \in T \ S : S \in C => S \cup {x} \in C
    BY <1>4
  <2> QED
    BY <1>3, <2>1, SetInduction
<1>6. Naturals(w, T)
  BY <1>1 DEF Naturals
<1> QED
  BY <1>2, <1>5, <1>6

(* The switches of Aggregator::fold and Totals::add cover each other: what  *)
(* a batch adds to the operators' counters of a kind is at most what it     *)
(* adds to the subscribers', and that at most what it adds to the totals.   *)
THEOREM BatchIsCovered ==
    ASSUME NEW Names, NEW batch, KnownBatch(batch, Names), NEW f, NEW t, <<f, t>> \in Covered
    PROVE  /\ HeldIn(Fold(batch), Of(Names, "op", f)) <= HeldIn(Fold(batch), Of(Names, "sub", f))
           /\ HeldIn(Fold(batch), Of(Names, "sub", f)) <= HeldIn(TotalsOf(batch), {Total(t)})
<1>1. PICK C, D, E : C = Of(Names, "op", f) /\ D = Of(Names, "sub", f) /\ E = {Total(t)}
  OBVIOUS
<1>2. PICK u, v, w : /\ u = [i \in DOMAIN batch |-> AddedTo(FoldRecord(batch[i]), C)]
                     /\ v = [i \in DOMAIN batch |-> AddedTo(FoldRecord(batch[i]), D)]
                     /\ w = [i \in DOMAIN batch |-> AddedTo(TotalsRecord(batch[i]), E)]
  OBVIOUS
<1>3. Naturals(u, DOMAIN batch) /\ HeldIn(Fold(batch), C) = SumOf(u, DOMAIN batch)
  BY <1>2, FoldSums
<1>4. Naturals(v, DOMAIN batch) /\ HeldIn(Fold(batch), D) = SumOf(v, DOMAIN batch)
  BY <1>2, FoldSums
<1>5. Naturals(w, DOMAIN batch) /\ HeldIn(TotalsOf(batch), E) = SumOf(w, DOMAIN batch)
  BY <1>2, TotalsSum
<1>6. ASSUME NEW i \in DOMAIN batch PROVE u[i] \in Nat /\ v[i] \in Nat /\ u[i] <= v[i] /\ v[i] <= w[i]
  <2>1. Known(batch[i], Names)
    BY DEF KnownBatch
  <2>2. /\ AddedTo(FoldRecord(batch[i]), Of(Names, "op", f)) <= AddedTo(FoldRecord(batch[i]), Of(Names, "sub", f))
        /\ AddedTo(FoldRecord(batch[i]), Of(Names, "sub", f)) <= AddedTo(TotalsRecord(batch[i]), {Total(t)})
    BY <2>1, RecordIsCovered
  <2>3. u[i] \in Nat /\ v[i] \in Nat
    BY <1>3, <1>4 DEF Naturals
  <2> QED
    BY <1>1, <1>2, <2>2, <2>3
<1>7. SumOf(u, DOMAIN batch) <= SumOf(v, DOMAIN batch)
  <2>1. \A i \in DOMAIN batch : u[i] \in Nat /\ u[i] <= v[i]
    BY <1>6
  <2> QED
    BY <1>4, <2>1, SumOfLess
<1>8. SumOf(v, DOMAIN batch) <= SumOf(w, DOMAIN batch)
  <2>1. \A i \in DOMAIN batch : v[i] \in Nat /\ v[i] <= w[i]
    BY <1>6
  <2> QED
    BY <1>5, <2>1, SumOfLess
<1> QED
  BY <1>1, <1>3, <1>4, <1>5, <1>7, <1>8

(* Totals::add counts each record under exactly one type.                   *)
THEOREM BatchIsCounted ==
    ASSUME NEW Names, NEW batch, KnownBatch(batch, Names)
    PROVE  HeldIn(TotalsOf(batch), CountCells) = HeldIn(TotalsOf(batch), {Total("records")})
<1>1. PICK C, D : C = CountCells /\ D = {Total("records")}
  OBVIOUS
<1>2. PICK w : w = [i \in DOMAIN batch |-> AddedTo(TotalsRecord(batch[i]), C)]
  OBVIOUS
<1>3. HeldIn(TotalsOf(batch), C) = SumOf(w, DOMAIN batch)
  BY <1>2, TotalsSum
<1>4. \A i \in DOMAIN batch : w[i] = AddedTo(TotalsRecord(batch[i]), D)
  <2>1. ASSUME NEW i \in DOMAIN batch PROVE w[i] = AddedTo(TotalsRecord(batch[i]), D)
    <3>1. Known(batch[i], Names)
      BY DEF KnownBatch
    <3> QED
      BY <1>1, <1>2, <3>1, RecordIsCounted
  <2> QED
    BY <2>1
<1>5. HeldIn(TotalsOf(batch), D) = SumOf(w, DOMAIN batch)
  BY <1>4, TotalsSum
<1> QED
  BY <1>1, <1>3, <1>5

(* Aggregator::addLink adds to a pair's link under both of its names alike. *)
THEOREM BatchMirrors ==
    ASSUME NEW Names, NEW batch, KnownBatch(batch, Names), NEW a, NEW b, NEW f
    PROVE  HeldIn(Fold(batch), {Link(a, b, f)}) = HeldIn(Fold(batch), {Link(b, a, f)})
<1>1. PICK C, D : C = {Link(a, b, f)} /\ D = {Link(b, a, f)}
  OBVIOUS
<1>2. PICK w : w = [i \in DOMAIN batch |-> AddedTo(FoldRecord(batch[i]), C)]
  OBVIOUS
<1>3. HeldIn(Fold(batch), C) = SumOf(w, DOMAIN batch)
  BY <1>2, FoldSums
<1>4. \A i \in DOMAIN batch : w[i] = AddedTo(FoldRecord(batch[i]), D)
  <2>1. ASSUME NEW i \in DOMAIN batch PROVE w[i] = AddedTo(FoldRecord(batch[i]), D)
    <3>1. Known(batch[i], Names)
      BY DEF KnownBatch
    <3> QED
      BY <1>1, <1>2, <3>1, RecordMirrors
  <2> QED
    BY <2>1
<1>5. HeldIn(Fold(batch), D) = SumOf(w, DOMAIN batch)
  BY <1>4, FoldSums
<1> QED
  BY <1>1, <1>3, <1>5

(* Twice two totals, or two fields of the subscribers, cover a field of the *)
(* links.                                                                   *)
Doubles(v, x, y, S) == \A i \in S : v[i] <= 2 * (x[i] + y[i])

LEMMA DoublesAddUp ==
    ASSUME NEW v, NEW x, NEW y, NEW S, Naturals(v, S), Naturals(x, S), Naturals(y, S), Doubles(v, x, y, S)
    PROVE  SumOf(v, S) <= 2 * (SumOf(x, S) + SumOf(y, S))
BY SumOfTwice DEF Doubles

(* A call or message adds to two links at most (Aggregator::addLink), those *)
(* of a subscriber who calls itself, added twice to one key, included.      *)
THEOREM BatchLinksTwice ==
    ASSUME NEW Names, NEW batch, KnownBatch(batch, Names)
    PROVE  /\ HeldIn(Fold(batch), Of(Names, "link", "cnt"))
                  <= 2 * (HeldIn(TotalsOf(batch), {Total("moc_cnt")}) + HeldIn(TotalsOf(batch), {Total("mtc_cnt")}))
           /\ HeldIn(Fold(batch), Of(Names, "link", "sms"))
                  <= 2 * (HeldIn(TotalsOf(batch), {Total("sms_mo_cnt")})
                          + HeldIn(TotalsOf(batch), {Total("sms_mt_cnt")}))
           /\ HeldIn(Fold(batch), Of(Names, "link", "dur"))
                  <= 2 * (HeldIn(Fold(batch), Of(Names, "sub", "voice_out"))
                          + HeldIn(Fold(batch), Of(Names, "sub", "voice_in")))
<1> DEFINE S == DOMAIN batch
           inFold(C) == [i \in S |-> AddedTo(FoldRecord(batch[i]), C)]
           inTotals(C) == [i \in S |-> AddedTo(TotalsRecord(batch[i]), C)]
<1>1. ASSUME NEW C PROVE Naturals(inFold(C), S) /\ HeldIn(Fold(batch), C) = SumOf(inFold(C), S)
  <2>1. PICK w : w = inFold(C)
    OBVIOUS
  <2>2. \A i \in DOMAIN batch : w[i] = AddedTo(FoldRecord(batch[i]), C)
    BY <2>1
  <2>3. Naturals(w, DOMAIN batch) /\ HeldIn(Fold(batch), C) = SumOf(w, DOMAIN batch)
    BY <2>2, FoldSums
  <2> QED
    BY <2>1, <2>3
<1>2. ASSUME NEW C PROVE Naturals(inTotals(C), S) /\ HeldIn(TotalsOf(batch), C) = SumOf(inTotals(C), S)
  <2>1. PICK w : w = inTotals(C)
    OBVIOUS
  <2>2. \A i \in DOMAIN batch : w[i] = AddedTo(TotalsRecord(batch[i]), C)
    BY <2>1
  <2>3. Naturals(w, DOMAIN batch) /\ HeldIn(TotalsOf(batch), C) = SumOf(w, DOMAIN batch)
    BY <2>2, TotalsSum
  <2> QED
    BY <2>1, <2>3
<1>3. \A i \in S : Known(batch[i], Names)
  BY DEF KnownBatch
<1>4. /\ Doubles(inFold(Of(Names, "link", "cnt")), inTotals({Total("moc_cnt")}), inTotals({Total("mtc_cnt")}), S)
      /\ Doubles(inFold(Of(Names, "link", "sms")), inTotals({Total("sms_mo_cnt")}),
                 inTotals({Total("sms_mt_cnt")}), S)
      /\ Doubles(inFold(Of(Names, "link", "dur")), inFold(Of(Names, "sub", "voice_out")),
                 inFold(Of(Names, "sub", "voice_in")), S)
  BY <1>3, RecordLinksTwice DEF Doubles
<1> HIDE DEF S, inFold, inTotals
<1>5. SumOf(inFold(Of(Names, "link", "cnt")), S)
          <= 2 * (SumOf(inTotals({Total("moc_cnt")}), S) + SumOf(inTotals({Total("mtc_cnt")}), S))
  BY <1>1, <1>2, <1>4, DoublesAddUp
<1>6. SumOf(inFold(Of(Names, "link", "sms")), S)
          <= 2 * (SumOf(inTotals({Total("sms_mo_cnt")}), S) + SumOf(inTotals({Total("sms_mt_cnt")}), S))
  BY <1>1, <1>2, <1>4, DoublesAddUp
<1>7. SumOf(inFold(Of(Names, "link", "dur")), S)
          <= 2 * (SumOf(inFold(Of(Names, "sub", "voice_out")), S) + SumOf(inFold(Of(Names, "sub", "voice_in")), S))
  BY <1>1, <1>2, <1>4, DoublesAddUp
<1> QED
  BY <1>1, <1>2, <1>5, <1>6, <1>7

-----------------------------------------------------------------------------
(* The boards of a batch. *)

Kind(board) == IF board \in SubBoards THEN "sub" ELSE "op"

Field(board, m, f) == <<Kind(board), m, f, 0>>

(* What a member of a board is ranked by.                                   *)
Ranked(board, m) == {Field(board, m, f) : f \in RanksBy(board)}

LEMMA ImageIsFinite ==
    ASSUME NEW S, IsFiniteSet(S), NEW g
    PROVE  IsFiniteSet({g[x] : x \in S})
<1>1. PICK T, h : T = {g[x] : x \in S} /\ h = [x \in S |-> g[x]]
  OBVIOUS
<1>2. h \in Surjection(S, T)
  BY <1>1 DEF Surjection
<1>3. IsFiniteSet(T)
  BY <1>2, FS_Surjection
<1> QED
  BY <1>1, <1>3

LEMMA MembersAreKnown ==
    ASSUME NEW Names, NEW delta, Holds(delta, FoldCells(Names)), NEW kind, kind \in {"sub", "op"}
    PROVE  Members(delta, kind) \subseteq Names /\ IsFiniteSet(Members(delta, kind))
<1>1. PICK S, g : S = {d \in DOMAIN delta : d[1] = kind} /\ g = [c \in S |-> c[2]]
  OBVIOUS
<1>2. IsFiniteSet(S)
  BY <1>1, FS_Subset DEF Holds
<1>3. IsFiniteSet({g[c] : c \in S})
  BY <1>2, ImageIsFinite
<1>4. Members(delta, kind) = {g[c] : c \in S}
  BY <1>1 DEF Members
<1>5. ASSUME NEW c \in S PROVE c[2] \in Names
  <2>1. c \in FoldCells(Names)
    BY <1>1 DEF Holds
  <2> QED
    BY <2>1 DEF FoldCells
<1> QED
  BY <1>1, <1>3, <1>4, <1>5

Scores(delta) == (SubBoards \X Members(delta, "sub")) \cup (OpBoards \X Members(delta, "op"))

BoardDomain(delta) == {Score(s[1], s[2]) : s \in Scores(delta)}

LEMMA BoardDomainIsFinite ==
    ASSUME NEW Names, NEW delta, Holds(delta, FoldCells(Names))
    PROVE  IsFiniteSet(BoardDomain(delta)) /\ BoardDomain(delta) \subseteq TopCells(Names)
<1>1. /\ Members(delta, "sub") \subseteq Names /\ IsFiniteSet(Members(delta, "sub"))
      /\ Members(delta, "op") \subseteq Names /\ IsFiniteSet(Members(delta, "op"))
  BY MembersAreKnown
<1>2. IsFiniteSet(SubBoards) /\ IsFiniteSet(OpBoards)
  <2>1. ASSUME NEW a, NEW b, NEW c, NEW d PROVE IsFiniteSet({a, b, c, d})
    <3>1. IsFiniteSet({a})
      BY FS_Singleton
    <3>2. IsFiniteSet({a} \cup {b})
      BY <3>1, FS_AddElement
    <3>3. IsFiniteSet(({a} \cup {b}) \cup {c})
      BY <3>2, FS_AddElement
    <3>4. IsFiniteSet((({a} \cup {b}) \cup {c}) \cup {d})
      BY <3>3, FS_AddElement
    <3>5. {a, b, c, d} = (({a} \cup {b}) \cup {c}) \cup {d}
      OBVIOUS
    <3> QED
      BY <3>4, <3>5
  <2>2. IsFiniteSet({"voice", "sms", "data", "fail"})
    BY <2>1
  <2>3. IsFiniteSet({"op-voice", "op-voice", "op-sms", "op-sms"})
    BY <2>1
  <2>4. {"op-voice", "op-voice", "op-sms", "op-sms"} = {"op-voice", "op-sms"}
    OBVIOUS
  <2> QED
    BY <2>2, <2>3, <2>4 DEF SubBoards, OpBoards
<1>3. IsFiniteSet(SubBoards \X Members(delta, "sub")) /\ IsFiniteSet(OpBoards \X Members(delta, "op"))
  BY <1>1, <1>2, FS_Product
<1>4. IsFiniteSet(Scores(delta))
  BY <1>3, FS_Union DEF Scores
<1>5. PICK g : g = [s \in Scores(delta) |-> Score(s[1], s[2])]
  OBVIOUS
<1>6. BoardDomain(delta) = {g[s] : s \in Scores(delta)}
  BY <1>5 DEF BoardDomain
<1>7. IsFiniteSet(BoardDomain(delta))
  BY <1>4, <1>6, ImageIsFinite
<1>8. ASSUME NEW s \in Scores(delta) PROVE Score(s[1], s[2]) \in TopCells(Names)
  BY <1>1 DEF Scores, Score, TopCells, BoardNames
<1> QED
  BY <1>7, <1>8 DEF BoardDomain

LEMMA RanksAreFinite ==
    ASSUME NEW board \in BoardNames
    PROVE  IsFiniteSet(RanksBy(board)) /\ RanksBy(board) \subseteq Meters
<1>1. ASSUME NEW a, NEW b, NEW c PROVE IsFiniteSet({a, b, c})
  <2>1. IsFiniteSet({a})
    BY FS_Singleton
  <2>2. IsFiniteSet({a} \cup {b})
    BY <2>1, FS_AddElement
  <2>3. IsFiniteSet(({a} \cup {b}) \cup {c})
    BY <2>2, FS_AddElement
  <2>4. {a, b, c} = ({a} \cup {b}) \cup {c}
    OBVIOUS
  <2> QED
    BY <2>3, <2>4
<1>2. ASSUME NEW a, NEW b PROVE IsFiniteSet({a, b})
  <2>1. {a, b} = {a, b, b}
    OBVIOUS
  <2> QED
    BY <1>1, <2>1
<1>3. \/ RanksBy(board) = {"voice_out", "voice_in"} \/ RanksBy(board) = {"sms_out", "sms_in"}
      \/ RanksBy(board) = {"data_rx", "data_tx"} \/ RanksBy(board) = {"noans", "busy", "failed"}
  BY DEF RanksBy, BoardNames, SubBoards, OpBoards
<1>4. IsFiniteSet(RanksBy(board))
  <2>1. /\ IsFiniteSet({"voice_out", "voice_in"}) /\ IsFiniteSet({"sms_out", "sms_in"})
        /\ IsFiniteSet({"data_rx", "data_tx"}) /\ IsFiniteSet({"noans", "busy", "failed"})
    BY <1>1, <1>2
  <2> QED
    BY <1>3, <2>1
<1> QED
  BY <1>3, <1>4 DEF Meters

(* A sum over the fields of a board.                                        *)
LEMMA RankedSum ==
    ASSUME NEW X, NEW cells, Holds(cells, X), NEW board \in BoardNames, NEW m,
           NEW w, \A f \in RanksBy(board) : w[f] = At(cells, Field(board, m, f))
    PROVE  Naturals(w, RanksBy(board)) /\ SumOf(w, RanksBy(board)) = HeldIn(cells, Ranked(board, m))
<1>1. PICK g, T : g = [f \in RanksBy(board) |-> Field(board, m, f)] /\ T = RanksBy(board)
  OBVIOUS
<1>2. Apart(g, T)
  BY <1>1 DEF Apart, Field
<1>3. IsFiniteSet(T)
  BY <1>1, RanksAreFinite
<1>4. \A f \in T : w[f] = At(cells, g[f])
  BY <1>1
<1>5. Naturals(w, T) /\ SumOf(w, T) = HeldIn(cells, {g[f] : f \in T})
  BY <1>2, <1>3, <1>4, HeldByName
<1>6. {g[f] : f \in T} = Ranked(board, m)
  BY <1>1 DEF Ranked
<1> QED
  BY <1>1, <1>5, <1>6

(* A score is the sum of what its board ranks by, and whoever is on no      *)
(* board has nothing it could be ranked by.                                 *)
LEMMA BoardsHold ==
    ASSUME NEW Names, NEW delta, Holds(delta, FoldCells(Names))
    PROVE  /\ Holds(Boards(delta), TopCells(Names))
           /\ \A board \in BoardNames : \A m :
                  HeldIn(Boards(delta), {Score(board, m)}) = HeldIn(delta, Ranked(board, m))
<1>1. PICK D : D = BoardDomain(delta)
  OBVIOUS
<1>2. IsFiniteSet(D) /\ D \subseteq TopCells(Names)
  BY <1>1, BoardDomainIsFinite
<1> DEFINE weights(c) == [f \in RanksBy(c[3]) |-> At(delta, Field(c[3], c[4], f))]
<1>3. Boards(delta) = [c \in D |-> SumOver(weights(c), RanksBy(c[3]))]
  BY <1>1 DEF Boards, BoardDomain, Scores, Field, Kind
<1>4. ASSUME NEW board \in BoardNames, NEW m
      PROVE  SumOver(weights(Score(board, m)), RanksBy(board)) = HeldIn(delta, Ranked(board, m))
  <2>1. PICK w : w = weights(Score(board, m))
    OBVIOUS
  <2>2. w = [f \in RanksBy(board) |-> At(delta, Field(board, m, f))]
    BY <2>1 DEF Score
  <2>3. \A f \in RanksBy(board) : w[f] = At(delta, Field(board, m, f))
    BY <2>2
  <2>4. Naturals(w, RanksBy(board)) /\ SumOf(w, RanksBy(board)) = HeldIn(delta, Ranked(board, m))
    BY <2>3, RankedSum
  <2>5. SumOver(w, RanksBy(board)) = SumOf(w, RanksBy(board))
    BY <2>4, FoldIsSum
  <2> QED
    BY <2>1, <2>4, <2>5
<1>5. ASSUME NEW c \in D
      PROVE  /\ c[3] \in BoardNames /\ c = Score(c[3], c[4])
             /\ Boards(delta)[c] = HeldIn(delta, Ranked(c[3], c[4]))
  <2>1. c[3] \in BoardNames /\ c = Score(c[3], c[4])
    BY <1>2 DEF TopCells, Score
  <2>2. PICK b, m : b = c[3] /\ m = c[4]
    OBVIOUS
  <2>3. SumOver(weights(Score(b, m)), RanksBy(b)) = HeldIn(delta, Ranked(b, m))
    BY <1>4, <2>1, <2>2
  <2>4. Boards(delta)[c] = SumOver(weights(c), RanksBy(c[3]))
    BY <1>3
  <2>5. c = Score(b, m)
    BY <2>1, <2>2
  <2>6. Boards(delta)[c] = SumOver(weights(Score(b, m)), RanksBy(b))
    BY <2>2, <2>4, <2>5
  <2> QED
    BY <2>1, <2>2, <2>3, <2>6
<1> HIDE DEF weights
<1>6. DOMAIN Boards(delta) = D
  BY <1>3
<1>7. ASSUME NEW c \in D PROVE Boards(delta)[c] \in Nat
  <2>1. ASSUME NEW C PROVE HeldIn(delta, C) \in Nat
    BY HeldIsNatural
  <2>2. Boards(delta)[c] = HeldIn(delta, Ranked(c[3], c[4]))
    BY <1>5
  <2> QED
    BY <2>1, <2>2
<1>8. Holds(Boards(delta), TopCells(Names))
  <2>1. PICK B : B = Boards(delta) /\ B = [c \in D |-> SumOver(weights(c), RanksBy(c[3]))]
    BY <1>3
  <2>2. B \in [D -> Nat]
    BY <1>7, <2>1
  <2> QED
    BY <1>2, <1>6, <2>1, <2>2 DEF Holds
<1>9. ASSUME NEW board \in BoardNames, NEW m
      PROVE  HeldIn(Boards(delta), {Score(board, m)}) = HeldIn(delta, Ranked(board, m))
  <2>1. PICK c : c = Score(board, m)
    OBVIOUS
  <2>2. c[3] = board /\ c[4] = m
    BY <2>1 DEF Score
  <2>3. At(Boards(delta), c) = HeldIn(Boards(delta), {c})
    BY <1>8, AtIsHeld
  <2>4. CASE c \in D
    BY <1>5, <1>6, <2>1, <2>2, <2>3, <2>4 DEF At
  <2>5. CASE c \notin D
    <3>1. At(Boards(delta), c) = 0
      BY <1>6, <2>5 DEF At
    <3>2. ASSUME NEW f \in RanksBy(board) PROVE Field(board, m, f) \notin DOMAIN delta
      <4>1. SUFFICES ASSUME Field(board, m, f) \in DOMAIN delta PROVE FALSE
        OBVIOUS
      <4>2. m \in Members(delta, Kind(board))
        BY <4>1 DEF Members, Field
      <4>3. <<board, m>> \in Scores(delta)
        BY <4>2 DEF Scores, Kind, BoardNames
      <4>4. <<board, m>>[1] = board /\ <<board, m>>[2] = m
        OBVIOUS
      <4>5. c \in BoardDomain(delta)
        BY <2>1, <4>3, <4>4 DEF BoardDomain
      <4> QED
        BY <1>1, <2>5, <4>5
    <3>3. Ranked(board, m) \cap DOMAIN delta = {}
      BY <3>2 DEF Ranked
    <3>4. HeldIn(delta, Ranked(board, m)) = 0
      BY <3>3, HeldInNone
    <3> QED
      BY <2>1, <2>3, <3>1, <3>4
  <2> QED
    BY <2>4, <2>5
<1> QED
  BY <1>8, <1>9

-----------------------------------------------------------------------------
(* The commands of a batch, and what is left of them behind the first ones. *)

LEMMA HoldsMore ==
    ASSUME NEW X, NEW Y, X \subseteq Y, NEW cells, Holds(cells, X)
    PROVE  Holds(cells, Y)
BY DEF Holds

(* The commands of the totals, of the boards and of the counters.           *)
Parts(batch, Names, t, b, f) ==
    /\ Commands(batch) = (t \o b) \o f
    /\ t \in Seq(RealAdditions(Cells(Names)))
    /\ b \in Seq(RealAdditions(Cells(Names)))
    /\ f \in Seq(RealAdditions(Cells(Names)))
    /\ \A C : AddedTo(t, C) = HeldIn(TotalsOf(batch), C)
    /\ \A C : AddedTo(b, C) = HeldIn(Boards(Fold(batch)), C)
    /\ \A C : AddedTo(f, C) = HeldIn(Fold(batch), C)

LEMMA CommandsAreParts ==
    ASSUME NEW Names, NEW batch, KnownBatch(batch, Names)
    PROVE  \E t, b, f : Parts(batch, Names, t, b, f)
<1>1. PICK X, totals, boards, sums : /\ X = Cells(Names) /\ totals = TotalsOf(batch)
                                     /\ boards = Boards(Fold(batch)) /\ sums = Fold(batch)
  OBVIOUS
<1>2. Holds(totals, X)
  <2>1. TotalCells \subseteq X
    BY <1>1 DEF Cells
  <2> QED
    BY <1>1, <2>1, TotalsHold, HoldsMore
<1>3. Holds(sums, X) /\ Holds(boards, X)
  <2>1. FoldCells(Names) \subseteq X /\ TopCells(Names) \subseteq X
    BY <1>1 DEF Cells
  <2>2. Holds(sums, FoldCells(Names))
    BY <1>1, FoldHolds
  <2>3. Holds(boards, TopCells(Names))
    BY <1>1, <2>2, BoardsHold
  <2> QED
    BY <2>1, <2>2, <2>3, HoldsMore
<1>4. ASSUME NEW cells, Holds(cells, X)
      PROVE  InAnyOrder(cells) \in Seq(RealAdditions(X)) /\ \A C : AddedTo(InAnyOrder(cells), C) = HeldIn(cells, C)
  BY <1>4, InAnyOrderAdds
<1>5. PICK t, b, f : t = InAnyOrder(totals) /\ b = InAnyOrder(boards) /\ f = InAnyOrder(sums)
  OBVIOUS
<1>6. Commands(batch) = (t \o b) \o f
  BY <1>1, <1>5, Zenon DEF Commands
<1>7. /\ t \in Seq(RealAdditions(X)) /\ b \in Seq(RealAdditions(X)) /\ f \in Seq(RealAdditions(X))
      /\ \A C : AddedTo(t, C) = HeldIn(totals, C)
      /\ \A C : AddedTo(b, C) = HeldIn(boards, C)
      /\ \A C : AddedTo(f, C) = HeldIn(sums, C)
  BY <1>2, <1>3, <1>4, <1>5
<1>8. Parts(batch, Names, t, b, f)
  BY <1>1, <1>6, <1>7, Zenon DEF Parts
<1> QED
  BY <1>8

Behind(s, from) == SubSeq(s, from, Len(s))

LEMMA BehindIsLess ==
    ASSUME NEW X, NEW s \in Seq(RealAdditions(X)), NEW from \in 1 .. Len(s), NEW C
    PROVE  /\ Behind(s, from) \in Seq(RealAdditions(X))
           /\ AddedTo(Behind(s, from), C) <= AddedTo(s, C)
<1>1. PICK front, rest : front = SubSeq(s, 1, from - 1) /\ rest = Behind(s, from)
  OBVIOUS
<1>2. front \in Seq(RealAdditions(X)) /\ rest \in Seq(RealAdditions(X)) /\ s = front \o rest
  BY <1>1 DEF Behind
<1>3. front \in Seq(Additions(X)) /\ rest \in Seq(Additions(X))
  BY <1>2, RealAreAdditions
<1>4. AddedTo(front \o rest, C) = AddedTo(front, C) + AddedTo(rest, C)
  BY <1>3, BothAdded
<1>5. PICK n, k, l : n = AddedTo(s, C) /\ k = AddedTo(front, C) /\ l = AddedTo(rest, C)
  OBVIOUS
<1>6. k \in Nat /\ l \in Nat
  BY <1>3, <1>5, CountsAreNaturals
<1>7. n = k + l
  BY <1>2, <1>4, <1>5, Zenon
<1>8. l <= n
  BY <1>6, <1>7
<1> QED
  BY <1>1, <1>2, <1>5, <1>8, Zenon

LEMMA BehindOfBoth ==
    ASSUME NEW X, NEW s \in Seq(X), NEW t \in Seq(X), NEW from \in 1 .. Len(s \o t)
    PROVE  \/ from \in 1 .. Len(s) /\ Behind(s \o t, from) = Behind(s, from) \o t
           \/ from - Len(s) \in 1 .. Len(t) /\ Behind(s \o t, from) = Behind(t, from - Len(s))
<1>1. Len(s \o t) = Len(s) + Len(t) /\ Len(s) \in Nat /\ Len(t) \in Nat
  OBVIOUS
<1>2. CASE from <= Len(s)
  <2>1. from \in 1 .. Len(s)
    BY <1>1, <1>2
  <2>2. SubSeq(s \o t, from, Len(s) + Len(t)) = SubSeq(s, from, Len(s)) \o t
    BY <1>1, <2>1
  <2> QED
    BY <1>1, <2>1, <2>2 DEF Behind
<1>3. CASE from > Len(s)
  <2>1. PICK k : k = from - Len(s)
    OBVIOUS
  <2>2. k \in 1 .. Len(t) /\ from = Len(s) + k
    BY <1>1, <1>3, <2>1
  <2>3. SubSeq(s \o t, Len(s) + k, Len(s) + Len(t)) = SubSeq(t, k, Len(t))
    BY <1>1, <2>2
  <2> QED
    BY <1>1, <2>1, <2>2, <2>3 DEF Behind
<1> QED
  BY <1>1, <1>2, <1>3

(* AggregateSink::consume queues the boards in front of the counters, and   *)
(* RankWriter ranks by all that a score is the sum of: from whatever        *)
(* command on a batch lands, no score outgrows the counters it sums.        *)
THEOREM BehindKeepsBoards ==
    ASSUME NEW Names, NEW batch, KnownBatch(batch, Names), NEW from \in 1 .. Len(Commands(batch)),
           NEW board \in BoardNames, NEW m
    PROVE  AddedTo(Behind(Commands(batch), from), {Score(board, m)})
               <= AddedTo(Behind(Commands(batch), from), Ranked(board, m))
<1>1. PICK X, C, D : X = Cells(Names) /\ C = {Score(board, m)} /\ D = Ranked(board, m)
  OBVIOUS
<1>2. PICK t, b, f : Parts(batch, Names, t, b, f)
  BY CommandsAreParts
<1>3. /\ Commands(batch) = (t \o b) \o f
      /\ t \in Seq(RealAdditions(X)) /\ b \in Seq(RealAdditions(X)) /\ f \in Seq(RealAdditions(X))
  BY <1>1, <1>2 DEF Parts
<1>4. /\ \A E : AddedTo(t, E) = HeldIn(TotalsOf(batch), E)
      /\ \A E : AddedTo(b, E) = HeldIn(Boards(Fold(batch)), E)
      /\ \A E : AddedTo(f, E) = HeldIn(Fold(batch), E)
  BY <1>2, Zenon DEF Parts
<1>5. Holds(Fold(batch), FoldCells(Names)) /\ Holds(TotalsOf(batch), TotalCells)
  BY FoldHolds, TotalsHold
<1>6. /\ Holds(Boards(Fold(batch)), TopCells(Names))
      /\ HeldIn(Boards(Fold(batch)), C) = HeldIn(Fold(batch), D)
  BY <1>1, <1>5, BoardsHold
<1>7. AddedTo(b, C) = AddedTo(f, D)
  BY <1>3, <1>4, <1>6
<1>8. AddedTo(t, C) = 0 /\ AddedTo(f, C) = 0
  <2>1. C \cap DOMAIN TotalsOf(batch) = {} /\ C \cap DOMAIN Fold(batch) = {}
    BY <1>1, <1>5 DEF Holds, TotalCells, FoldCells, Score
  <2> QED
    BY <1>3, <1>4, <2>1, HeldInNone
<1>9. ASSUME NEW s \in Seq(RealAdditions(X)), NEW E PROVE AddedTo(s, E) \in Nat
  <2>1. s \in Seq(Additions(X))
    BY RealAreAdditions
  <2> QED
    BY <2>1, CountsAreNaturals
<1>10. ASSUME NEW s \in Seq(RealAdditions(X)), NEW r \in Seq(RealAdditions(X)), NEW E
      PROVE  s \o r \in Seq(RealAdditions(X)) /\ AddedTo(s \o r, E) = AddedTo(s, E) + AddedTo(r, E)
  <2>1. s \in Seq(Additions(X)) /\ r \in Seq(Additions(X))
    BY RealAreAdditions
  <2>2. AddedTo(s \o r, E) = AddedTo(s, E) + AddedTo(r, E)
    BY <2>1, BothAdded
  <2> QED
    BY <2>2
<1>11. PICK s : s = t \o b
  OBVIOUS
<1>12. s \in Seq(RealAdditions(X)) /\ from \in 1 .. Len(s \o f) /\ Commands(batch) = s \o f
  BY <1>3, <1>4, <1>10, <1>11
<1>13. PICK rest : rest = Behind(s \o f, from)
  OBVIOUS
<1>14. CASE from \in 1 .. Len(s) /\ rest = Behind(s, from) \o f
  <2>1. PICK q : q = Behind(s, from)
    OBVIOUS
  <2>2. q \in Seq(RealAdditions(X)) /\ AddedTo(q, C) <= AddedTo(s, C)
    BY <1>12, <1>14, <2>1, BehindIsLess
  <2>3. AddedTo(s, C) = AddedTo(b, C)
    BY <1>3, <1>4, <1>8, <1>9, <1>10, <1>11
  <2>4. AddedTo(rest, C) = AddedTo(q, C) /\ AddedTo(rest, D) = AddedTo(q, D) + AddedTo(f, D)
    BY <1>3, <1>4, <1>8, <1>9, <1>10, <1>14, <2>1, <2>2
  <2>5. AddedTo(q, C) \in Nat /\ AddedTo(q, D) \in Nat /\ AddedTo(f, D) \in Nat
    BY <1>3, <1>4, <1>9, <2>2
  <2> QED
    BY <1>1, <1>7, <1>12, <1>13, <2>2, <2>3, <2>4, <2>5
<1>15. CASE from - Len(s) \in 1 .. Len(f) /\ rest = Behind(f, from - Len(s))
  <2>1. PICK k : k = from - Len(s)
    OBVIOUS
  <2>2. rest \in Seq(RealAdditions(X)) /\ AddedTo(rest, C) <= AddedTo(f, C)
    BY <1>3, <1>4, <1>15, <2>1, BehindIsLess
  <2>3. AddedTo(rest, C) \in Nat /\ AddedTo(rest, D) \in Nat
    BY <1>9, <2>2
  <2> QED
    BY <1>1, <1>8, <1>12, <1>13, <2>2, <2>3
<1> QED
  BY <1>3, <1>4, <1>12, <1>13, <1>14, <1>15, BehindOfBoth

(* What real additions make holds no zeros.                                 *)
LEMMA NoZeros ==
    ASSUME NEW X, NEW adds \in Seq(RealAdditions(X))
    PROVE  NonZero(Summed(adds)) = DOMAIN Summed(adds)
<1>1. adds \in Seq(Additions(X))
  BY RealAreAdditions
<1>2. /\ DOMAIN Summed(adds) = {adds[i].cell : i \in DOMAIN adds}
      /\ \A c \in DOMAIN Summed(adds) : Summed(adds)[c] = AddedTo(adds, {c})
  BY <1>1, SummedByCell
<1>3. ASSUME NEW c \in DOMAIN Summed(adds) PROVE Summed(adds)[c] # 0
  <2>1. PICK i \in DOMAIN adds : c = adds[i].cell
    BY <1>2
  <2>2. PICK w, S, T : w = Counted(adds, {c}) /\ S = DOMAIN adds \ {i} /\ T = DOMAIN adds
    OBVIOUS
  <2>3. adds[i].by \in Nat \ {0}
    <3>1. adds[i] \in RealAdditions(X)
      OBVIOUS
    <3> QED
      BY <3>1 DEF RealAdditions
  <2>4. w[i] = adds[i].by
    BY <2>1, <2>2 DEF Counted
  <2>5. Naturals(w, T)
    BY <1>1, <2>2, CountsAreNaturals
  <2>6. Naturals(w, S)
    BY <2>2, <2>5, FS_Subset DEF Naturals
  <2>7. SumOf(w, S \cup {i}) = SumOf(w, S) + w[i]
    BY <2>2, <2>3, <2>4, <2>6, SumOfMore
  <2>8. S \cup {i} = T
    BY <2>2
  <2>9. SumOf(w, S) \in Nat
    BY <2>6, HeapIsFinite
  <2>10. SumOf(w, T) # 0
    <3>1. PICK n, k, l : n = SumOf(w, T) /\ k = SumOf(w, S) /\ l = w[i]
      OBVIOUS
    <3>2. n = k + l /\ k \in Nat /\ l \in Nat \ {0}
      BY <2>3, <2>4, <2>7, <2>8, <2>9, <3>1, Zenon
    <3>3. n # 0
      BY <3>2
    <3> QED
      BY <3>1, <3>3
  <2> QED
    BY <1>2, <2>2, <2>10 DEF AddedTo
<1> QED
  BY <1>3 DEF NonZero
=============================================================================
