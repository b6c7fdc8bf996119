----------------------------- MODULE FiniteSums -----------------------------
(***************************************************************************)
(* Sums of a function over a finite set (SumFunctionOnSet of the community *)
(* modules) and sizes of sets, for the proofs about budgets and counts:    *)
(* what a sum is when an index is added, removed or changes its value, and *)
(* that a part weighs no more than the whole.                              *)
(*                                                                         *)
(* The fold of the community modules is the CHOICE of a recursive function, *)
(* so the first lemmas show that there is one, and only one, by induction   *)
(* (AllNaturals: the least number that a set lacks cannot exist).          *)
(***************************************************************************)
EXTENDS Integers, FiniteSets, FiniteSetTheorems, TLAPS, WellFoundedInduction, Functions

(* The order of the natural numbers, as a relation. *)
Less == {p \in Nat \X Nat : p[1] < p[2]}

(* No set of numbers goes down forever. *)
LEMMA LessWellFounded == IsWellFoundedOn(Less, Nat)
<1>1. IsWellFoundedOn(OpToRel(<, Nat), Nat)
  BY NatLessThanWellFounded
<1>2. OpToRel(<, Nat) = Less
  BY DEF OpToRel, Less
<1> QED BY <1>1, <1>2

(* A set of numbers has a least one. *)
LEMMA Least ==
  ASSUME NEW T, T \subseteq Nat, T # {}
  PROVE \E x \in T : \A y \in T : x <= y
<1>1. PICK x \in T : \A y \in T : ~ (<<y, x>> \in Less)
  BY LessWellFounded, WFMin
<1>2. \A y \in T : x <= y
  <2> TAKE y \in T
  <2>1. <<y, x>> \in Nat \X Nat BY <1>1
  <2>2. ~ (y < x) BY <1>1, <2>1 DEF Less
  <2> QED BY <2>2
<1> QED BY <1>1, <1>2

(* Induction, of sets: what holds 0 and is closed under + 1 is all of Nat. *)
LEMMA AllNaturals == ASSUME NEW S, S \subseteq Nat, 0 \in S, \A n \in S : n + 1 \in S PROVE S = Nat
<1> DEFINE T == Nat \ S
<1>1. CASE T = {} BY <1>1
<1>2. CASE T # {}
  <2>1. PICK x \in T : \A y \in T : x <= y BY <1>2, Least
  <2>2. x # 0 /\ x - 1 \in Nat /\ x - 1 \notin T BY <2>1
  <2>3. x - 1 \in S BY <2>2
  <2>4. (x - 1) + 1 \in S BY <2>3
  <2> QED BY <2>1, <2>4
<1> QED BY <1>1, <1>2

(* The fold: the element it takes, what it adds, and its equation. *)
Some(s) == CHOOSE x \in s : TRUE
StepOf(f, g, s) == IF s = {} THEN 0 ELSE f[Some(s)] + g[s \ {Some(s)}]
Adds(f, S, g) == g = [s \in SUBSET S |-> StepOf(f, g, s)]

(* The definition of the community modules: the g of Adds, chosen. *)
LEMMA SumUnfolds ==
  ASSUME NEW f, NEW S
  PROVE SumFunctionOnSet(f, S) = (CHOOSE g : Adds(f, S, g))[S]
  BY DEF SumFunctionOnSet, FoldFunctionOnSet, MapThenFoldSet, Adds, StepOf, Some

(* A function that satisfies the equation on the subsets up to a size. *)
Small(S, n) == {s \in SUBSET S : Cardinality(s) <= n}
AddsUpTo(f, S, g, n) == \A s \in Small(S, n) : g[s] = StepOf(f, g, s)

(* The element that a set gives first, and what is left. *)
LEMMA SomeOf ==
  ASSUME NEW S, IsFiniteSet(S), NEW s \in SUBSET S, s # {}
  PROVE /\ Some(s) \in s /\ s \ {Some(s)} \in SUBSET S
        /\ Cardinality(s) \in Nat
        /\ Cardinality(s \ {Some(s)}) = Cardinality(s) - 1
        /\ IsFiniteSet(s \ {Some(s)})
<1>1. Some(s) \in s
  BY DEF Some
<1>2. IsFiniteSet(s)
  BY FS_Subset
<1> QED BY <1>1, <1>2, FS_RemoveElement, FS_CardinalityType

(* There is such a g: by induction on the size of the subsets it is right  *)
(* for.                                                                    *)
LEMMA SumExists ==
  ASSUME NEW S, IsFiniteSet(S), NEW f, \A x \in S : f[x] \in Int
  PROVE  \E g \in [SUBSET S -> Int] : Adds(f, S, g)
<1> DEFINE Reached == {n \in Nat : \E g \in [SUBSET S -> Int] : AddsUpTo(f, S, g, n)}
<1>0. \A s \in SUBSET S : IsFiniteSet(s) /\ Cardinality(s) \in Nat
  BY FS_Subset, FS_CardinalityType
<1>1. 0 \in Reached
  <2> DEFINE g == [s \in SUBSET S |-> 0]
  <2>1. \A s \in Small(S, 0) : s = {}
    BY <1>0, FS_EmptySet DEF Small
  <2>2. AddsUpTo(f, S, g, 0)
    BY <2>1 DEF AddsUpTo, StepOf, Small
  <2>3. g \in [SUBSET S -> Int]
    OBVIOUS
  <2> QED BY <2>2, <2>3
<1>2. ASSUME NEW n \in Reached PROVE n + 1 \in Reached
  <2>1. PICK g \in [SUBSET S -> Int] : AddsUpTo(f, S, g, n)
    BY <1>2
  <2> DEFINE h == [s \in SUBSET S |-> IF s \in Small(S, n) THEN g[s] ELSE StepOf(f, g, s)]
  <2>2. ASSUME NEW s \in SUBSET S PROVE StepOf(f, g, s) \in Int
    <3>1. CASE s = {}
      BY <3>1 DEF StepOf
    <3>2. CASE s # {}
      <4>1. Some(s) \in S /\ s \ {Some(s)} \in SUBSET S
        BY <3>2, SomeOf
      <4>2. f[Some(s)] \in Int /\ g[s \ {Some(s)}] \in Int
        BY <4>1
      <4> QED BY <4>2, <3>2 DEF StepOf
    <3> QED BY <3>1, <3>2
  <2>3. h \in [SUBSET S -> Int]
    BY <2>2
  <2>4. ASSUME NEW s \in Small(S, n + 1) PROVE h[s] = StepOf(f, h, s)
    <3>1. s \in SUBSET S
      BY DEF Small
    <3>2. s # {} => s \ {Some(s)} \in Small(S, n)
      <4> HAVE s # {}
      <4>1. Cardinality(s) <= n + 1 /\ n \in Nat
        BY DEF Small
      <4>2. Cardinality(s \ {Some(s)}) = Cardinality(s) - 1 /\ Cardinality(s) \in Nat
            /\ s \ {Some(s)} \in SUBSET S
        BY <3>1, SomeOf
      <4>3. Cardinality(s \ {Some(s)}) <= n
        BY <4>1, <4>2
      <4> QED BY <4>2, <4>3 DEF Small
    <3>3. StepOf(f, g, s) = StepOf(f, h, s)
      <4>1. s # {} => g[s \ {Some(s)}] = h[s \ {Some(s)}]
        BY <3>2 DEF Small
      <4> HIDE DEF h
      <4> QED BY <4>1 DEF StepOf
    <3>4. h[s] = StepOf(f, g, s)
      BY <3>1, <2>1 DEF AddsUpTo
    <3> QED BY <3>3, <3>4
  <2>5. AddsUpTo(f, S, h, n + 1)
    BY <2>4 DEF AddsUpTo
  <2> HIDE DEF h
  <2>6. n + 1 \in Nat
    OBVIOUS
  <2>7. \E k \in [SUBSET S -> Int] : AddsUpTo(f, S, k, n + 1)
    BY <2>3, <2>5
  <2> QED BY <2>6, <2>7
<1>3. Reached = Nat
  BY <1>1, <1>2, AllNaturals
<1>4. PICK n \in Nat : n = Cardinality(S)
  BY FS_CardinalityType
<1>5. PICK g \in [SUBSET S -> Int] : AddsUpTo(f, S, g, n)
  BY <1>3
<1>6. \A s \in SUBSET S : s \in Small(S, n)
  BY <1>4, FS_Subset DEF Small
<1>7. \A s \in SUBSET S : g[s] = StepOf(f, g, s)
  BY <1>5, <1>6 DEF AddsUpTo
<1>8. g = [s \in SUBSET S |-> StepOf(f, g, s)]
  BY <1>7
<1> QED BY <1>8 DEF Adds

(* ... and it is the only one. *)
LEMMA SumUnique ==
  ASSUME NEW S, IsFiniteSet(S), NEW f, NEW g, Adds(f, S, g), NEW h, Adds(f, S, h)
  PROVE  g = h
<1> DEFINE Same == {n \in Nat : \A s \in Small(S, n) : g[s] = h[s]}
<1>0. /\ \A s \in SUBSET S : g[s] = StepOf(f, g, s)
      /\ \A s \in SUBSET S : h[s] = StepOf(f, h, s)
  BY DEF Adds
<1>1. 0 \in Same
  <2>1. \A s \in Small(S, 0) : s = {}
    BY FS_Subset, FS_EmptySet, FS_CardinalityType DEF Small
  <2> QED BY <2>1, <1>0 DEF StepOf
<1>2. ASSUME NEW n \in Same PROVE n + 1 \in Same
  <2>1. ASSUME NEW s \in Small(S, n + 1) PROVE g[s] = h[s]
    <3>1. s \in SUBSET S /\ Cardinality(s) <= n + 1 /\ n \in Nat
      BY DEF Small
    <3>2. s # {} => g[s \ {Some(s)}] = h[s \ {Some(s)}]
      <4> HAVE s # {}
      <4>1. Cardinality(s \ {Some(s)}) = Cardinality(s) - 1 /\ Cardinality(s) \in Nat
            /\ s \ {Some(s)} \in SUBSET S
        BY <3>1, SomeOf
      <4>2. s \ {Some(s)} \in Small(S, n)
        BY <4>1, <3>1 DEF Small
      <4> QED BY <4>2
    <3>3. StepOf(f, g, s) = StepOf(f, h, s)
      BY <3>2 DEF StepOf
    <3> QED BY <3>1, <3>3, <1>0
  <2> QED BY <2>1
<1>3. Same = Nat
  BY <1>1, <1>2, AllNaturals
<1>4. ASSUME NEW s \in SUBSET S PROVE g[s] = h[s]
  <2>1. Cardinality(s) \in Nat
    BY FS_Subset, FS_CardinalityType
  <2>2. s \in Small(S, Cardinality(s))
    BY <2>1 DEF Small
  <2> QED BY <2>1, <2>2, <1>3
<1>5. g = [s \in SUBSET S |-> StepOf(f, g, s)] /\ h = [s \in SUBSET S |-> StepOf(f, h, s)]
  BY DEF Adds
<1>6. g = [s \in SUBSET S |-> g[s]] /\ h = [s \in SUBSET S |-> h[s]]
  BY <1>5, <1>0
<1> QED BY <1>4, <1>6

(* A function that adds up over the subsets of S gives the sum of each. *)
LEMMA SumOfSubset ==
  ASSUME NEW S, IsFiniteSet(S), NEW f, \A x \in S : f[x] \in Int,
         NEW g, Adds(f, S, g), NEW T \in SUBSET S
  PROVE  SumFunctionOnSet(f, T) = g[T]
<1> DEFINE h == [s \in SUBSET T |-> g[s]]
<1>1. IsFiniteSet(T) /\ \A x \in T : f[x] \in Int
  BY FS_Subset
<1>2. Adds(f, T, h)
  <2>1. ASSUME NEW s \in SUBSET T PROVE h[s] = StepOf(f, h, s)
    <3>1. s \in SUBSET S
      OBVIOUS
    <3>2. g[s] = StepOf(f, g, s)
      BY <3>1 DEF Adds
    <3> QED BY <3>2 DEF StepOf
  <2>2. h = [s \in SUBSET T |-> h[s]]
    OBVIOUS
  <2> HIDE DEF h
  <2> QED BY <2>1, <2>2 DEF Adds
<1>3. (CHOOSE k : Adds(f, T, k)) = h
  <2> HIDE DEF h
  <2>1. Adds(f, T, CHOOSE k : Adds(f, T, k))
    BY <1>2
  <2> DEFINE c == CHOOSE k : Adds(f, T, k)
  <2> HIDE DEF c
  <2>2. Adds(f, T, c)
    BY <2>1 DEF c
  <2>3. c = h
    BY <2>2, <1>1, <1>2, SumUnique
  <2> QED BY <2>3 DEF c
<1>4. SumFunctionOnSet(f, T) = h[T]
  BY <1>3, SumUnfolds
<1> QED BY <1>4

(* What a sum is: nothing, or some element and the sum of the others.      *)
LEMMA SumSome ==
  ASSUME NEW S, IsFiniteSet(S), NEW f, \A x \in S : f[x] \in Int
  PROVE  /\ SumFunctionOnSet(f, S) \in Int
         /\ SumFunctionOnSet(f, S) =
              IF S = {} THEN 0
              ELSE f[Some(S)] + SumFunctionOnSet(f, S \ {Some(S)})
<1>1. PICK g \in [SUBSET S -> Int] : Adds(f, S, g)
  BY SumExists
<1>2. \A T \in SUBSET S : SumFunctionOnSet(f, T) = g[T]
  BY <1>1, SumOfSubset
<1>3. g[S] = StepOf(f, g, S)
  BY <1>1 DEF Adds
<1>4. S \ {Some(S)} \in SUBSET S
  OBVIOUS
<1> QED BY <1>2, <1>3, <1>4 DEF StepOf

(* The sum of nothing. *)
LEMMA SumEmpty ==
  ASSUME NEW f
  PROVE  SumFunctionOnSet(f, {}) = 0
<1>1. IsFiniteSet({}) /\ \A x \in {} : f[x] \in Int
  BY FS_EmptySet
<1> DEFINE s == {}
<1>2. IsFiniteSet(s) /\ (\A x \in s : f[x] \in Int) /\ s = {}
  BY <1>1
<1> HIDE DEF s
<1>3. SumFunctionOnSet(f, s) = 0
  BY <1>2, SumSome
<1> QED BY <1>2, <1>3

(* The sum takes its elements in any order. *)
LEMMA SumRemove ==
  ASSUME NEW S, IsFiniteSet(S), NEW f, \A x \in S : f[x] \in Int, NEW x \in S
  PROVE  SumFunctionOnSet(f, S) = f[x] + SumFunctionOnSet(f, S \ {x})
<1> DEFINE Splits(s) == \A y \in s : SumFunctionOnSet(f, s) = f[y] + SumFunctionOnSet(f, s \ {y})
           Done == {n \in Nat : \A s \in Small(S, n) : Splits(s)}
<1>1. 0 \in Done
  <2>1. \A s \in Small(S, 0) : s = {}
    BY FS_Subset, FS_EmptySet, FS_CardinalityType DEF Small
  <2> QED BY <2>1
<1>2. ASSUME NEW n \in Done PROVE n + 1 \in Done
  <2>1. ASSUME NEW s \in Small(S, n + 1), NEW y \in s
        PROVE  SumFunctionOnSet(f, s) = f[y] + SumFunctionOnSet(f, s \ {y})
    <3> DEFINE a == Some(s)
    <3>1. s \in SUBSET S /\ Cardinality(s) <= n + 1 /\ n \in Nat /\ s # {}
      BY <2>1 DEF Small
    <3>2. IsFiniteSet(s) /\ \A z \in s : f[z] \in Int
      BY <3>1, FS_Subset
    <3>3. a \in s /\ Cardinality(s) \in Nat
          /\ Cardinality(s \ {a}) = Cardinality(s) - 1
          /\ Cardinality(s \ {y}) = Cardinality(s) - 1
      BY <3>1, <3>2, SomeOf, FS_RemoveElement
    <3>4. SumFunctionOnSet(f, s) = f[a] + SumFunctionOnSet(f, s \ {a})
      BY <3>1, <3>2, SumSome
    <3> HIDE DEF a
    <3>5. CASE a = y
      BY <3>5, <3>4
    <3>6. CASE a # y
      <4> DEFINE r == s \ {a, y}
      <4>1. s \ {a} \in Small(S, n) /\ s \ {y} \in Small(S, n)
        BY <3>1, <3>3 DEF Small
      <4>2. y \in s \ {a} /\ a \in s \ {y}
        BY <3>3, <3>6
      <4>3. (s \ {a}) \ {y} = r /\ (s \ {y}) \ {a} = r
        OBVIOUS
      <4>4. Splits(s \ {a}) /\ Splits(s \ {y})
        BY <4>1
      <4> HIDE DEF r
      <4>5. SumFunctionOnSet(f, s \ {a}) = f[y] + SumFunctionOnSet(f, r)
        BY <4>2, <4>3, <4>4
      <4>6. SumFunctionOnSet(f, s \ {y}) = f[a] + SumFunctionOnSet(f, r)
        BY <4>2, <4>3, <4>4
      <4>7. f[a] \in Int /\ f[y] \in Int
        BY <3>2, <3>3
      <4>8. SumFunctionOnSet(f, r) \in Int
        <5>1. IsFiniteSet(r) /\ \A z \in r : f[z] \in Int
          BY <3>2, FS_Subset DEF r
        <5> QED BY <5>1, SumSome
      <4> QED BY <3>4, <4>5, <4>6, <4>7, <4>8
    <3> QED BY <3>5, <3>6
  <2> QED BY <2>1
<1>3. Done = Nat
  BY <1>1, <1>2, AllNaturals
<1>4. Cardinality(S) \in Nat /\ S \in SUBSET S
  BY FS_CardinalityType
<1>5. S \in Small(S, Cardinality(S))
  BY <1>4 DEF Small
<1>6. Splits(S)
  BY <1>3, <1>4, <1>5
<1> QED BY <1>6

(* One index more. *)
LEMMA SumInsert ==
  ASSUME NEW S, IsFiniteSet(S), NEW f, \A y \in S : f[y] \in Int,
         NEW x, x \notin S, f[x] \in Int
  PROVE  SumFunctionOnSet(f, S \cup {x}) = f[x] + SumFunctionOnSet(f, S)
<1> DEFINE T == S \cup {x}
<1>1. IsFiniteSet(T) /\ (\A y \in T : f[y] \in Int) /\ x \in T /\ T \ {x} = S
  BY FS_AddElement
<1> HIDE DEF T
<1>2. SumFunctionOnSet(f, T) = f[x] + SumFunctionOnSet(f, T \ {x})
  BY <1>1, SumRemove
<1> QED BY <1>1, <1>2 DEF T

(* A sum reads its function on the indices only. *)
LEMMA SumAgree ==
  ASSUME NEW S, NEW f, NEW g, \A x \in S : f[x] = g[x]
  PROVE  SumFunctionOnSet(f, S) = SumFunctionOnSet(g, S)
<1>1. \A h, s : s \in SUBSET S => StepOf(f, h, s) = StepOf(g, h, s)
  BY DEF StepOf, Some
<1>2. \A h : Adds(f, S, h) <=> Adds(g, S, h)
  BY <1>1 DEF Adds
<1>3. (CHOOSE h : Adds(f, S, h)) = (CHOOSE h : Adds(g, S, h))
  BY <1>2
<1> QED BY <1>3, SumUnfolds

(* One index of another value changes the sum by the difference. *)
LEMMA SumChange ==
  ASSUME NEW S, IsFiniteSet(S), NEW f, NEW g, NEW x \in S,
         \A y \in S : f[y] \in Int /\ g[y] \in Int,
         \A y \in S \ {x} : f[y] = g[y]
  PROVE  SumFunctionOnSet(g, S) = SumFunctionOnSet(f, S) - f[x] + g[x]
<1> DEFINE T == S \ {x}
<1>1. IsFiniteSet(T) /\ \A y \in T : f[y] = g[y] /\ f[y] \in Int
  BY FS_Subset
<1>2. SumFunctionOnSet(f, T) = SumFunctionOnSet(g, T)
  BY <1>1, SumAgree
<1>3. SumFunctionOnSet(f, S) = f[x] + SumFunctionOnSet(f, T)
  BY SumRemove
<1>4. SumFunctionOnSet(g, S) = g[x] + SumFunctionOnSet(g, T)
  BY SumRemove
<1>5. SumFunctionOnSet(f, T) \in Int /\ f[x] \in Int /\ g[x] \in Int
  BY <1>1, SumSome
<1> HIDE DEF T
<1> QED BY <1>2, <1>3, <1>4, <1>5

(* The sum of natural numbers over a part is at most the sum of the whole. *)
LEMMA SumOfPart ==
  ASSUME NEW S, IsFiniteSet(S), NEW f, \A y \in S : f[y] \in Nat, NEW T \in SUBSET S
  PROVE  /\ SumFunctionOnSet(f, T) \in Nat
         /\ SumFunctionOnSet(f, T) <= SumFunctionOnSet(f, S)
<1> DEFINE Done == {n \in Nat : \A s \in Small(S, n) : \A t \in SUBSET s :
                      /\ SumFunctionOnSet(f, t) \in Nat
                      /\ SumFunctionOnSet(f, t) <= SumFunctionOnSet(f, s)}
<1>1. 0 \in Done
  <2>1. \A s \in Small(S, 0) : s = {}
    BY FS_Subset, FS_EmptySet, FS_CardinalityType DEF Small
  <2>2. \A s \in Small(S, 0) : \A t \in SUBSET s : s = {} /\ t = {}
    BY <2>1
  <2>3. SumFunctionOnSet(f, {}) \in Nat /\ SumFunctionOnSet(f, {}) <= SumFunctionOnSet(f, {})
    BY SumEmpty
  <2>4. ASSUME NEW s \in Small(S, 0), NEW t \in SUBSET s
        PROVE  /\ SumFunctionOnSet(f, t) \in Nat
               /\ SumFunctionOnSet(f, t) <= SumFunctionOnSet(f, s)
    <3>1. s = {} /\ t = {}
      BY <2>2
    <3> QED BY <3>1, <2>3
  <2> QED BY <2>4
<1>2. ASSUME NEW n \in Done PROVE n + 1 \in Done
  <2>1. ASSUME NEW s \in Small(S, n + 1), NEW t \in SUBSET s
        PROVE  /\ SumFunctionOnSet(f, t) \in Nat
               /\ SumFunctionOnSet(f, t) <= SumFunctionOnSet(f, s)
    <3>1. s \in SUBSET S /\ Cardinality(s) <= n + 1 /\ n \in Nat
      BY DEF Small
    <3>2. IsFiniteSet(s) /\ (\A z \in s : f[z] \in Nat) /\ (\A z \in s : f[z] \in Int)
      BY <3>1, FS_Subset
    <3>3. CASE s = {}
      <4>1. t = {}
        BY <3>3
      <4> QED BY <4>1, <3>3, SumEmpty
    <3>4. CASE s # {}
      <4>1. PICK x \in s : x \in t \/ t = {}
        BY <3>4
      <4>2. SumFunctionOnSet(f, s) = f[x] + SumFunctionOnSet(f, s \ {x})
        BY <3>2, SumRemove
      <4>3. s \ {x} \in Small(S, n)
        <5>1. Cardinality(s) \in Nat /\ Cardinality(s \ {x}) = Cardinality(s) - 1
          BY <3>2, FS_RemoveElement, FS_CardinalityType
        <5> QED BY <5>1, <3>1 DEF Small
      <4>4. \A r \in SUBSET (s \ {x}) :
               /\ SumFunctionOnSet(f, r) \in Nat
               /\ SumFunctionOnSet(f, r) <= SumFunctionOnSet(f, s \ {x})
        BY <4>3
      <4>5. SumFunctionOnSet(f, s \ {x}) \in Nat /\ f[x] \in Nat
        BY <4>4, <3>2
      <4>6. CASE t = {}
        BY <4>6, <4>2, <4>5, SumEmpty
      <4>7. CASE x \in t
        <5>1. t \ {x} \in SUBSET (s \ {x})
          OBVIOUS
        <5>2. IsFiniteSet(t) /\ \A z \in t : f[z] \in Int
          BY <3>2, FS_Subset
        <5>3. SumFunctionOnSet(f, t) = f[x] + SumFunctionOnSet(f, t \ {x})
          BY <5>2, <4>7, SumRemove
        <5>4. /\ SumFunctionOnSet(f, t \ {x}) \in Nat
              /\ SumFunctionOnSet(f, t \ {x}) <= SumFunctionOnSet(f, s \ {x})
          BY <5>1, <4>4
        <5> QED BY <5>3, <5>4, <4>2, <4>5
      <4> QED BY <4>1, <4>6, <4>7
    <3> QED BY <3>3, <3>4
  <2> QED BY <2>1
<1>3. Done = Nat
  BY <1>1, <1>2, AllNaturals
<1>4. Cardinality(S) \in Nat /\ S \in SUBSET S
  BY FS_CardinalityType
<1>5. S \in Small(S, Cardinality(S))
  BY <1>4 DEF Small
<1> QED BY <1>3, <1>4, <1>5


(* The image of a finite set. *)
LEMMA ImageFinite ==
  ASSUME NEW S, IsFiniteSet(S), NEW f
  PROVE  IsFiniteSet({f[x] : x \in S})
<1> DEFINE T == {f[x] : x \in S}
           g == [x \in S |-> f[x]]
<1>1. g \in Surjection(S, T)
  BY DEF Surjection
<1> QED BY <1>1, FS_Surjection

(* A part of a set with one element more, and of a set with one less. *)
LEMMA SumOfMore ==
  ASSUME NEW S, IsFiniteSet(S), NEW x, NEW f, \A y \in S \cup {x} : f[y] \in Nat,
         NEW T \in SUBSET (S \cup {x})
  PROVE  /\ SumFunctionOnSet(f, T) \in Nat
         /\ SumFunctionOnSet(f, T) <= SumFunctionOnSet(f, S) + f[x]
<1>1. IsFiniteSet(S \cup {x}) /\ S \in SUBSET S /\ \A y \in S : f[y] \in Int
  BY FS_AddElement
<1>2. /\ SumFunctionOnSet(f, T) \in Nat
      /\ SumFunctionOnSet(f, T) <= SumFunctionOnSet(f, S \cup {x})
  BY <1>1, SumOfPart
<1>3. SumFunctionOnSet(f, S) \in Nat /\ f[x] \in Nat
  BY <1>1, SumOfPart
<1>4. CASE x \in S
  <2>1. S \cup {x} = S
    BY <1>4
  <2>2. SumFunctionOnSet(f, T) <= SumFunctionOnSet(f, S)
    BY <1>2, <2>1, Zenon
  <2>3. SumFunctionOnSet(f, S) <= SumFunctionOnSet(f, S) + f[x]
    BY <1>3
  <2> QED BY <1>2, <1>3, <2>2, <2>3
<1>5. CASE x \notin S
  <2>1. SumFunctionOnSet(f, S \cup {x}) = f[x] + SumFunctionOnSet(f, S)
    BY <1>1, <1>3, <1>5, SumInsert
  <2> QED BY <1>2, <1>3, <2>1
<1> QED BY <1>4, <1>5

(* One index less. *)
LEMMA SumOfRest ==
  ASSUME NEW S, IsFiniteSet(S), NEW x \in S, NEW f, \A y \in S : f[y] \in Nat,
         NEW T \in SUBSET (S \ {x})
  PROVE  /\ SumFunctionOnSet(f, T) \in Nat
         /\ SumFunctionOnSet(f, T) + f[x] <= SumFunctionOnSet(f, S)
<1>1. IsFiniteSet(S \ {x}) /\ \A y \in S : f[y] \in Int
  BY FS_RemoveElement
<1>2. \A y \in S \ {x} : f[y] \in Nat
  OBVIOUS
<1>3. /\ SumFunctionOnSet(f, T) \in Nat
      /\ SumFunctionOnSet(f, T) <= SumFunctionOnSet(f, S \ {x})
  BY <1>1, <1>2, SumOfPart
<1>4. SumFunctionOnSet(f, S \ {x}) \in Nat
  <2>1. S \ {x} \in SUBSET (S \ {x})
    OBVIOUS
  <2> QED BY <1>1, <1>2, <2>1, SumOfPart
<1>5. SumFunctionOnSet(f, S) = f[x] + SumFunctionOnSet(f, S \ {x})
  BY <1>1, SumRemove
<1> QED BY <1>3, <1>4, <1>5

(* The same for the sizes of sets. *)
LEMMA SizeOfMore ==
  ASSUME NEW S, IsFiniteSet(S), NEW x, NEW T \in SUBSET (S \cup {x})
  PROVE  /\ IsFiniteSet(T) /\ Cardinality(T) \in Nat
         /\ Cardinality(T) <= Cardinality(S) + 1
<1>0. /\ IsFiniteSet(S \cup {x})
      /\ Cardinality(S \cup {x}) = IF x \in S THEN Cardinality(S) ELSE Cardinality(S) + 1
  BY FS_AddElement
<1>1. /\ IsFiniteSet(S \cup {x}) /\ Cardinality(S) \in Nat
      /\ Cardinality(S \cup {x}) <= Cardinality(S) + 1
  <2>1. Cardinality(S) \in Nat
    BY FS_CardinalityType
  <2> QED BY <1>0, <2>1
<1>2. IsFiniteSet(T) /\ Cardinality(T) <= Cardinality(S \cup {x})
  BY <1>1, FS_Subset
<1>3. Cardinality(T) \in Nat /\ Cardinality(S \cup {x}) \in Nat
  BY <1>1, <1>2, FS_CardinalityType
<1> QED BY <1>1, <1>2, <1>3

(* One element less. *)
LEMMA SizeOfRest ==
  ASSUME NEW S, IsFiniteSet(S), NEW x \in S, NEW T \in SUBSET (S \ {x})
  PROVE  /\ IsFiniteSet(T) /\ Cardinality(T) \in Nat
         /\ Cardinality(T) + 1 <= Cardinality(S)
<1>1. /\ IsFiniteSet(S \ {x}) /\ Cardinality(S) \in Nat
      /\ Cardinality(S \ {x}) = Cardinality(S) - 1
  BY FS_RemoveElement, FS_CardinalityType
<1>2. IsFiniteSet(T) /\ Cardinality(T) <= Cardinality(S \ {x})
  BY <1>1, FS_Subset
<1>3. Cardinality(T) \in Nat /\ Cardinality(S \ {x}) \in Nat
  BY <1>1, <1>2, FS_CardinalityType
<1> QED BY <1>1, <1>2, <1>3

(* A part is no larger. *)
LEMMA SizeOfPart ==
  ASSUME NEW S, IsFiniteSet(S), NEW T \in SUBSET S
  PROVE  /\ IsFiniteSet(T) /\ Cardinality(T) \in Nat /\ Cardinality(S) \in Nat
         /\ Cardinality(T) <= Cardinality(S)
<1>1. IsFiniteSet(T) /\ Cardinality(T) <= Cardinality(S)
  BY FS_Subset
<1> QED BY <1>1, FS_CardinalityType

(* A sum is the same over other names of its indices. *)
LEMMA SumMoved ==
  ASSUME NEW S, IsFiniteSet(S), NEW f, \A x \in S : f[x] \in Int,
         NEW p, \A x, y \in S : p[x] = p[y] => x = y,
         NEW g, \A x \in S : g[p[x]] = f[x]
  PROVE  SumFunctionOnSet(f, S) = SumFunctionOnSet(g, {p[x] : x \in S})
<1> DEFINE To(s) == {p[x] : x \in s}
           Same(s) == SumFunctionOnSet(f, s) = SumFunctionOnSet(g, To(s))
           Done == {n \in Nat : \A s \in SUBSET S : Cardinality(s) = n => Same(s)}
<1>0. \A s \in SUBSET S : IsFiniteSet(s) /\ Cardinality(s) \in Nat
  BY FS_Subset, FS_CardinalityType
<1>1. 0 \in Done
  <2>1. ASSUME NEW s \in SUBSET S, Cardinality(s) = 0 PROVE Same(s)
    <3>1. s = {} /\ To(s) = {}
      BY <1>0, <2>1, FS_EmptySet
    <3> QED BY <3>1, SumEmpty
  <2> HIDE DEF Same
  <2> QED BY <2>1
<1>2. ASSUME NEW n \in Done PROVE n + 1 \in Done
  <2>1. ASSUME NEW s \in SUBSET S, Cardinality(s) = n + 1 PROVE Same(s)
    <3>0. IsFiniteSet(s) /\ n \in Nat
      BY <1>0
    <3>1. s # {}
      BY <2>1, <3>0, FS_EmptySet
    <3>2. PICK x \in s : TRUE
      BY <3>1
    <3>3. s \ {x} \in SUBSET S /\ Cardinality(s \ {x}) = n
      <4>1. s \ {x} \in SUBSET S
        OBVIOUS
      <4>2. Cardinality(s \ {x}) = Cardinality(s) - 1
        BY <3>0, FS_RemoveElement
      <4>3. (n + 1) - 1 = n
        BY <3>0
      <4> QED BY <2>1, <4>1, <4>2, <4>3
    <3>4. Same(s \ {x})
      BY <1>2, <3>3
    <3>5. SumFunctionOnSet(f, s) = f[x] + SumFunctionOnSet(f, s \ {x})
      BY <3>0, SumRemove
    <3>6. IsFiniteSet(To(s)) /\ p[x] \in To(s) /\ \A y \in To(s) : g[y] \in Int
      BY <3>0, ImageFinite
    <3>7. SumFunctionOnSet(g, To(s)) = g[p[x]] + SumFunctionOnSet(g, To(s) \ {p[x]})
      <4> HIDE DEF To
      <4> QED BY <3>6, SumRemove
    <3>8. To(s) \ {p[x]} = To(s \ {x})
      OBVIOUS
    <3>9. g[p[x]] = f[x]
      OBVIOUS
    <3> QED BY <3>4, <3>5, <3>7, <3>8, <3>9
  <2> HIDE DEF Same
  <2> QED BY <2>1
<1>3. Done = Nat
  <2> HIDE DEF Done
  <2>1. Done \subseteq Nat
    BY DEF Done
  <2> QED BY <1>1, <1>2, <2>1, AllNaturals
<1>4. Cardinality(S) \in Done
  BY <1>0, <1>3
<1> QED BY <1>4
=============================================================================
