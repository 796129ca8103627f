------------------------------ MODULE Induction ------------------------------
(***************************************************************************)
(* Induction on numbers and on finite sets, and sums over finite sets: what *)
(* the proofs about functions that recurse and about sums rest on. A set    *)
(* stands for the formula that induction is about.                          *)
(***************************************************************************)
EXTENDS Integers, FiniteSets, Functions, FiniteSetTheorems, WellFoundedInduction, TLAPS

\* A set of natural numbers has a least one.
LEMMA LeastNumber ==
  ASSUME NEW S \in SUBSET Nat, S # {}
  PROVE  \E n \in S : \A m \in S : n <= m
<1> DEFINE Less == {ss \in Nat \X Nat : ss[1] < ss[2]}
<1>1. IsWellFoundedOn(Less, Nat)
  BY NatLessThanWellFounded DEF OpToRel
<1>2. PICK n \in S : \A m \in S : <<m, n>> \notin Less
  <2> HIDE DEF Less
  <2> QED BY <1>1, WFMin
<1>3. ASSUME NEW m \in S, m < n PROVE FALSE
  <2>1. m \in Nat /\ n \in Nat
    OBVIOUS
  <2>2. <<m, n>> \in Less
    BY <1>3, <2>1
  <2> QED BY <1>2, <2>2
<1> QED BY <1>3

\* Induction on numbers.
LEMMA NumberInduction ==
  ASSUME NEW S \in SUBSET Nat, 0 \in S, \A n \in S : n + 1 \in S
  PROVE  S = Nat
<1> SUFFICES ASSUME Nat \ S # {} PROVE FALSE
  OBVIOUS
<1>1. PICK n \in Nat \ S : \A m \in Nat \ S : n <= m
  BY LeastNumber
<1>2. n # 0 /\ n - 1 \in Nat /\ n - 1 \in S
  BY <1>1
<1> QED BY <1>1, <1>2

\* Induction on the subsets of a finite set, from those with one element less.
LEMMA SizeInduction ==
  ASSUME NEW S, IsFiniteSet(S), NEW F \in SUBSET (SUBSET S),
         \A T \in SUBSET S : (\A x \in T : T \ {x} \in F) => T \in F
  PROVE  F = SUBSET S
<1> DEFINE Sizes == { n \in Nat : \E T \in (SUBSET S) \ F : Cardinality(T) = n }
<1>1. \A T \in SUBSET S : IsFiniteSet(T) /\ Cardinality(T) \in Nat
  BY FS_Subset, FS_CardinalityType
<1>2. SUFFICES ASSUME Sizes # {} PROVE FALSE
  BY <1>1
<1>3. PICK n \in Sizes : \A m \in Sizes : n <= m
  <2> HIDE DEF Sizes
  <2>1. Sizes \in SUBSET Nat
    BY DEF Sizes
  <2> QED BY <1>2, <2>1, LeastNumber
<1>4. PICK T \in (SUBSET S) \ F : Cardinality(T) = n
  OBVIOUS
<1>5. PICK x \in T : T \ {x} \notin F
  BY <1>4
<1>6. Cardinality(T \ {x}) = n - 1 /\ n - 1 \in Nat
  BY <1>1, <1>4, <1>5, FS_RemoveElement
<1>7. n - 1 \in Sizes
  BY <1>5, <1>6
<1> QED BY <1>3, <1>6, <1>7

\* Induction on a finite set, by adding its elements.
LEMMA SetInduction ==
  ASSUME NEW S, IsFiniteSet(S), NEW F \in SUBSET (SUBSET S), {} \in F,
         \A T \in F : \A x \in S \ T : T \cup {x} \in F
  PROVE  F = SUBSET S
<1>1. ASSUME NEW T \in SUBSET S, \A x \in T : T \ {x} \in F PROVE T \in F
  <2>1. CASE T = {}
    BY <2>1
  <2>2. ASSUME NEW x \in T PROVE T \in F
    BY <1>1, <2>2, (T \ {x}) \cup {x} = T
  <2> QED BY <2>1, <2>2
<1> QED BY <1>1, SizeInduction

-----------------------------------------------------------------------------
(***************************************************************************)
(* Sums of a function over a finite set. The library defines them with a    *)
(* recursive function on the subsets, which takes out one element at a time. *)
(***************************************************************************)
Chosen(s) == CHOOSE x \in s : TRUE
IsSum(g, f, S) ==
  g = [s \in SUBSET S |-> IF s = {} THEN 0 ELSE f[Chosen(s)] + g[s \ {Chosen(s)}]]

LEMMA SumIsChosen ==
  ASSUME NEW f, NEW S
  PROVE  SumFunctionOnSet(f, S) = (CHOOSE g : IsSum(g, f, S))[S]
BY DEF SumFunctionOnSet, FoldFunctionOnSet, MapThenFoldSet, IsSum, Chosen

LEMMA ChosenIn == \A s : s # {} => Chosen(s) \in s
BY DEF Chosen

\* There is such a function.
LEMMA SumExists ==
  ASSUME NEW f, NEW S, IsFiniteSet(S)
  PROVE  \E g : IsSum(g, f, S)
<1> DEFINE Small(n) == { s \in SUBSET S : Cardinality(s) <= n }
           Value(g, s) == IF s = {} THEN 0 ELSE f[Chosen(s)] + g[s \ {Chosen(s)}]
           Sizes == { n \in Nat : \E g : g = [s \in Small(n) |-> Value(g, s)] }
<1>1. \A s \in SUBSET S : /\ IsFiniteSet(s) /\ Cardinality(s) \in Nat
                          /\ Cardinality(s) <= Cardinality(S)
                          /\ \A x \in s : Cardinality(s \ {x}) = Cardinality(s) - 1
  BY FS_Subset, FS_CardinalityType, FS_RemoveElement
<1>2. 0 \in Sizes
  <2>1. \A s \in Small(0) : s = {}
    BY <1>1, FS_EmptySet
  <2>2. [s \in Small(0) |-> 0] = [s \in Small(0) |-> Value([t \in Small(0) |-> 0], s)]
    BY <2>1
  <2> QED BY <2>2
<1>3. ASSUME NEW n \in Sizes PROVE n + 1 \in Sizes
  <2>1. n \in Nat
    OBVIOUS
  <2>2. PICK g : g = [s \in Small(n) |-> Value(g, s)]
    OBVIOUS
  <2> DEFINE h == [s \in Small(n + 1) |-> Value(g, s)]
  <2>3. ASSUME NEW s \in Small(n + 1) PROVE Value(g, s) = Value(h, s)
    <3>1. CASE s = {}
      BY <3>1
    <3>2. CASE s # {}
      <4> DEFINE r == s \ {Chosen(s)}
      <4>1. r \in Small(n)
        BY <1>1, <2>1, <3>2, ChosenIn
      <4>2. r \in Small(n + 1)
        BY <1>1, <2>1, <4>1
      <4>3. g[r] = Value(g, r)
        <5> HIDE DEF Value, Small, r
        <5> QED BY <2>2, <4>1
      <4>4. h[r] = Value(g, r)
        <5> HIDE DEF Value, Small, r
        <5> QED BY <4>2
      <4> QED BY <3>2, <4>3, <4>4
    <3> QED BY <3>1, <3>2
  <2>4. h = [s \in Small(n + 1) |-> Value(h, s)]
    <3> HIDE DEF Value, Small
    <3> QED BY <2>3
  <2>5. \E k : k = [s \in Small(n + 1) |-> Value(k, s)]
    <3> HIDE DEF Value, Small, h
    <3> QED BY <2>4
  <2>6. n + 1 \in Nat
    BY <2>1
  <2> QED
    <3> HIDE DEF Value, Small, h
    <3> QED BY <2>5, <2>6
<1>4. Sizes = Nat
  <2> HIDE DEF Sizes
  <2>1. Sizes \in SUBSET Nat
    BY DEF Sizes
  <2> QED BY <1>2, <1>3, <2>1, NumberInduction
<1>5. Cardinality(S) \in Nat /\ Small(Cardinality(S)) = SUBSET S
  BY <1>1
<1>6. PICK g : g = [s \in Small(Cardinality(S)) |-> Value(g, s)]
  BY <1>4, <1>5
<1> QED BY <1>5, <1>6 DEF IsSum

\* It has the same values whatever set it was defined for.
LEMMA SumUnique ==
  ASSUME NEW f, NEW S, IsFiniteSet(S), NEW T \in SUBSET S, NEW g, NEW h,
         IsSum(g, f, S), IsSum(h, f, T)
  PROVE  g[T] = h[T]
<1> DEFINE F == { U \in SUBSET T : g[U] = h[U] }
<1>1. IsFiniteSet(T)
  BY FS_Subset
<1>2. ASSUME NEW U \in SUBSET T, \A x \in U : U \ {x} \in F PROVE U \in F
  <2>1. U = {} \/ g[U \ {Chosen(U)}] = h[U \ {Chosen(U)}]
    BY <1>2, ChosenIn
  <2>2. U \in SUBSET S
    OBVIOUS
  <2>3. g[U] = IF U = {} THEN 0 ELSE f[Chosen(U)] + g[U \ {Chosen(U)}]
    BY <2>2 DEF IsSum
  <2>4. h[U] = IF U = {} THEN 0 ELSE f[Chosen(U)] + h[U \ {Chosen(U)}]
    BY DEF IsSum
  <2> QED BY <2>1, <2>3, <2>4
<1>3. F = SUBSET T
  <2> HIDE DEF F
  <2>1. F \in SUBSET (SUBSET T)
    BY DEF F
  <2> QED BY <1>1, <1>2, <2>1, SizeInduction
<1> QED BY <1>3

\* The sum over a set takes out one element.
LEMMA SumUnfolds ==
  ASSUME NEW f, NEW S, IsFiniteSet(S)
  PROVE  SumFunctionOnSet(f, S) =
           IF S = {} THEN 0
           ELSE f[Chosen(S)] + SumFunctionOnSet(f, S \ {Chosen(S)})
<1> DEFINE g == CHOOSE h : IsSum(h, f, S)
           R == S \ {Chosen(S)}
           k == CHOOSE h : IsSum(h, f, R)
<1>1. IsSum(g, f, S)
  BY SumExists
<1>2. IsFiniteSet(R) /\ R \in SUBSET S
  BY FS_Subset
<1>3. IsSum(k, f, R)
  BY <1>2, SumExists
<1>4. g[R] = k[R]
  <2> HIDE DEF g, k, R
  <2> QED BY <1>1, <1>2, <1>3, SumUnique
<1>5. SumFunctionOnSet(f, S) = g[S] /\ SumFunctionOnSet(f, R) = k[R]
  BY SumIsChosen
<1>6. g[S] = IF S = {} THEN 0 ELSE f[Chosen(S)] + g[R]
  <2> HIDE DEF g
  <2> QED BY <1>1 DEF IsSum
<1> QED BY <1>4, <1>5, <1>6

\* The sum over the empty set.
LEMMA SumEmpty == \A f : SumFunctionOnSet(f, {}) = 0
BY SumUnfolds, FS_EmptySet

\* The sum of integers is an integer.
LEMMA SumType ==
  ASSUME NEW f, NEW S, IsFiniteSet(S), \A x \in S : f[x] \in Int
  PROVE  SumFunctionOnSet(f, S) \in Int
<1> DEFINE F == { T \in SUBSET S : SumFunctionOnSet(f, T) \in Int }
<1>1. ASSUME NEW T \in SUBSET S, \A x \in T : T \ {x} \in F PROVE T \in F
  <2>1. IsFiniteSet(T)
    BY FS_Subset
  <2>2. CASE T = {}
    BY <2>2, SumEmpty
  <2>3. CASE T # {}
    <3>1. Chosen(T) \in T
      BY <2>3, ChosenIn
    <3>2. /\ f[Chosen(T)] \in Int
          /\ SumFunctionOnSet(f, T \ {Chosen(T)}) \in Int
      BY <1>1, <3>1
    <3> QED BY <2>1, <2>3, <3>2, SumUnfolds
  <2> QED BY <2>2, <2>3
<1>2. F = SUBSET S
  <2> HIDE DEF F
  <2>1. F \in SUBSET (SUBSET S)
    BY DEF F
  <2> QED BY <1>1, <2>1, SizeInduction
<1> QED BY <1>2

\* It takes out any element.
LEMMA SumElement ==
  ASSUME NEW f, NEW S, IsFiniteSet(S), \A x \in S : f[x] \in Int
  PROVE  \A x \in S : SumFunctionOnSet(f, S) = f[x] + SumFunctionOnSet(f, S \ {x})
<1> DEFINE Sum(T) == SumFunctionOnSet(f, T)
           F == { T \in SUBSET S : \A x \in T : Sum(T) = f[x] + Sum(T \ {x}) }
<1>1. \A T \in SUBSET S : IsFiniteSet(T) /\ Sum(T) \in Int
  BY FS_Subset, SumType
<1>2. ASSUME NEW T \in SUBSET S, \A x \in T : T \ {x} \in F PROVE T \in F
  <2> DEFINE c == Chosen(T)
  <2>1. ASSUME NEW x \in T PROVE Sum(T) = f[x] + Sum(T \ {x})
    <3>1. c \in T /\ Sum(T) = f[c] + Sum(T \ {c})
      BY <1>1, ChosenIn, SumUnfolds
    <3>2. CASE x # c
      <4>1. T \ {c} \in F /\ T \ {x} \in F
        BY <1>2, <3>1
      <4>2. Sum(T \ {c}) = f[x] + Sum((T \ {c}) \ {x})
        BY <3>2, <4>1
      <4>3. Sum(T \ {x}) = f[c] + Sum((T \ {x}) \ {c})
        BY <3>1, <3>2, <4>1
      <4>4. (T \ {c}) \ {x} = (T \ {x}) \ {c}
        OBVIOUS
      <4>5. PICK n \in Int : n = Sum((T \ {x}) \ {c})
        BY <1>1
      <4>6. f[x] \in Int /\ f[c] \in Int
        BY <3>1
      <4>7. Sum(T) = f[c] + (f[x] + n) /\ Sum(T \ {x}) = f[c] + n
        BY <3>1, <4>2, <4>3, <4>4, <4>5
      <4>8. f[c] + (f[x] + n) = f[x] + (f[c] + n)
        BY <4>6
      <4> QED BY <4>7, <4>8
    <3> QED BY <3>1, <3>2
  <2> QED BY <2>1
<1>3. F = SUBSET S
  <2> HIDE DEF F
  <2>1. F \in SUBSET (SUBSET S)
    BY DEF F
  <2> QED BY <1>2, <2>1, SizeInduction
<1> QED BY <1>3

\* It adds one.
LEMMA SumAdd ==
  ASSUME NEW f, NEW S, IsFiniteSet(S), NEW x, x \notin S,
         \A y \in S \cup {x} : f[y] \in Int
  PROVE  SumFunctionOnSet(f, S \cup {x}) = f[x] + SumFunctionOnSet(f, S)
<1>1. IsFiniteSet(S \cup {x}) /\ (S \cup {x}) \ {x} = S
  BY FS_AddElement
<1> QED BY <1>1, SumElement

\* It only depends on the values on the set.
LEMMA SumSame ==
  ASSUME NEW f, NEW g, NEW S, IsFiniteSet(S), \A x \in S : f[x] = g[x]
  PROVE  SumFunctionOnSet(f, S) = SumFunctionOnSet(g, S)
<1> DEFINE F == { T \in SUBSET S : SumFunctionOnSet(f, T) = SumFunctionOnSet(g, T) }
<1>1. ASSUME NEW T \in SUBSET S, \A x \in T : T \ {x} \in F PROVE T \in F
  <2>1. IsFiniteSet(T)
    BY FS_Subset
  <2>2. CASE T = {}
    BY <2>2, SumEmpty
  <2>3. CASE T # {}
    <3>1. Chosen(T) \in T
      BY <2>3, ChosenIn
    <3>2. SumFunctionOnSet(f, T \ {Chosen(T)}) = SumFunctionOnSet(g, T \ {Chosen(T)})
      BY <1>1, <3>1
    <3> QED BY <2>1, <2>3, <3>1, <3>2, SumUnfolds
  <2> QED BY <2>2, <2>3
<1>2. F = SUBSET S
  <2> HIDE DEF F
  <2>1. F \in SUBSET (SUBSET S)
    BY DEF F
  <2> QED BY <1>1, <2>1, SizeInduction
<1> QED BY <1>2

\* Sums of natural numbers are natural numbers.
LEMMA SumNat ==
  ASSUME NEW f, NEW S, IsFiniteSet(S), \A x \in S : f[x] \in Nat
  PROVE  SumFunctionOnSet(f, S) \in Nat
<1> DEFINE F == { T \in SUBSET S : SumFunctionOnSet(f, T) \in Nat }
<1>1. {} \in F
  BY SumEmpty
<1>2. ASSUME NEW T \in F, NEW x \in S \ T PROVE T \cup {x} \in F
  <2>1. IsFiniteSet(T)
    BY FS_Subset
  <2>2. f[x] \in Nat /\ SumFunctionOnSet(f, T) \in Nat
    OBVIOUS
  <2>3. \A y \in T \cup {x} : f[y] \in Int
    OBVIOUS
  <2>4. SumFunctionOnSet(f, T \cup {x}) = f[x] + SumFunctionOnSet(f, T)
    BY <2>1, <2>3, SumAdd
  <2> QED BY <2>2, <2>4
<1>3. F = SUBSET S
  <2> HIDE DEF F
  <2>1. F \in SUBSET (SUBSET S)
    BY DEF F
  <2> QED BY <1>1, <1>2, <2>1, SetInduction
<1> QED BY <1>3

\* Taking a part out takes its sum out.
LEMMA SumWithout ==
  ASSUME NEW f, NEW S, IsFiniteSet(S), \A x \in S : f[x] \in Int, NEW G \in SUBSET S
  PROVE  SumFunctionOnSet(f, S \ G) = SumFunctionOnSet(f, S) - SumFunctionOnSet(f, G)
<1> DEFINE Sum(T) == SumFunctionOnSet(f, T)
           F == { T \in SUBSET G : Sum(S \ T) = Sum(S) - Sum(T) }
<1>1. \A T \in SUBSET S : IsFiniteSet(T) /\ Sum(T) \in Int
  BY FS_Subset, SumType
<1>2. {} \in F
  <2>1. Sum({}) = 0 /\ S \ {} = S
    BY SumEmpty
  <2> QED BY <1>1, <2>1
<1>3. ASSUME NEW T \in F, NEW x \in G \ T PROVE T \cup {x} \in F
  <2>1. Sum(T \cup {x}) = f[x] + Sum(T)
    BY <1>1, SumAdd
  <2>2. Sum(S \ T) = f[x] + Sum((S \ T) \ {x})
    BY <1>1, SumElement
  <2>3. (S \ T) \ {x} = S \ (T \cup {x})
    OBVIOUS
  <2>4. PICK a \in Int, b \in Int, c \in Int, d \in Int :
          a = Sum(S) /\ b = Sum(T) /\ c = Sum(S \ (T \cup {x})) /\ d = f[x]
    BY <1>1
  <2>5. d + c = a - b /\ Sum(T \cup {x}) = d + b
    BY <2>1, <2>2, <2>3, <2>4
  <2>6. c = a - (d + b)
    BY <2>5
  <2> QED BY <2>4, <2>5, <2>6
<1>4. F = SUBSET G
  <2> HIDE DEF F
  <2>1. F \in SUBSET (SUBSET G) /\ IsFiniteSet(G)
    BY <1>1 DEF F
  <2> QED BY <1>2, <1>3, <2>1, SetInduction
<1> QED BY <1>4

\* A sum may be taken over the images of what it is over.
LEMMA SumImage ==
  ASSUME NEW f, NEW g, NEW m, NEW S, IsFiniteSet(S),
         \A x, y \in S : m[x] = m[y] => x = y,
         \A x \in S : f[x] = g[m[x]] /\ f[x] \in Int
  PROVE  LET T == { m[x] : x \in S }
         IN  IsFiniteSet(T) /\ SumFunctionOnSet(f, S) = SumFunctionOnSet(g, T)
<1> DEFINE Image(U) == { m[x] : x \in U }
           F == { U \in SUBSET S : /\ IsFiniteSet(Image(U))
                                   /\ SumFunctionOnSet(f, U) = SumFunctionOnSet(g, Image(U)) }
<1>1. {} \in F
  <2>1. Image({}) = {}
    OBVIOUS
  <2> QED BY <2>1, FS_EmptySet, SumEmpty
<1>2. ASSUME NEW U \in F, NEW x \in S \ U PROVE U \cup {x} \in F
  <2>1. IsFiniteSet(U) /\ \A y \in U \cup {x} : f[y] \in Int
    BY FS_Subset
  <2>2. SumFunctionOnSet(f, U \cup {x}) = f[x] + SumFunctionOnSet(f, U)
    BY <2>1, SumAdd
  <2>3. Image(U \cup {x}) = Image(U) \cup {m[x]} /\ m[x] \notin Image(U)
    OBVIOUS
  <2>4. IsFiniteSet(Image(U)) /\ \A z \in Image(U) \cup {m[x]} : g[z] \in Int
    OBVIOUS
  <2>5. IsFiniteSet(Image(U) \cup {m[x]})
    BY <2>4, FS_AddElement
  <2>6. SumFunctionOnSet(g, Image(U) \cup {m[x]}) = g[m[x]] + SumFunctionOnSet(g, Image(U))
    <3> HIDE DEF Image
    <3> QED BY <2>3, <2>4, SumAdd
  <2>7. SumFunctionOnSet(f, U) = SumFunctionOnSet(g, Image(U)) /\ f[x] = g[m[x]]
    OBVIOUS
  <2> HIDE DEF Image
  <2> QED BY <2>2, <2>3, <2>5, <2>6, <2>7
<1>3. F = SUBSET S
  <2> HIDE DEF F
  <2>1. F \in SUBSET (SUBSET S)
    BY DEF F
  <2> QED BY <1>1, <1>2, <2>1, SetInduction
<1> QED BY <1>3
=============================================================================
