----------------------------- MODULE SharedLemmas -----------------------------
(***************************************************************************)
(* Lemmas that the proofs about several components share: least and        *)
(* greatest integers, the smallest of several finite sets, and sums.       *)
(*                                                                         *)
(* The balances of the models are SumFunctionOnSet of the community        *)
(* modules, a fold whose recursive function is chosen by its equation.     *)
(* The lemmas show that such a function exists and what it yields.  Where  *)
(* an induction is needed, the argument is by a smallest counterexample,   *)
(* a member of a set, so that no theorem about operators is used.          *)
(***************************************************************************)
EXTENDS Integers, Functions, FiniteSetTheorems, TLAPS

(* A set of naturals has a least one, a bounded set of integers a          *)
(* greatest one.                                                           *)
LEMMA LeastExists ==
    ASSUME NEW T \in SUBSET Nat, T # {}
    PROVE  \E x \in T : \A y \in T : x <= y
  <1> DEFINE R == OpToRel(<, Nat)
  <1>1. IsWellFoundedOn(R, Nat)
    BY NatLessThanWellFounded
  <1>2. \A x, y \in Nat : <<y, x>> \in R <=> y < x
    BY DEF OpToRel
  <1> HIDE DEF R
  <1>3. PICK x \in T : \A y \in T : <<y, x>> \notin R
    BY <1>1, WFMin
  <1>4. \A y \in T : x <= y
    <2>1. TAKE y \in T
    <2>2. x \in Nat /\ y \in Nat
      OBVIOUS
    <2>3. ~(y < x)
      BY <1>2, <1>3, <2>2
    <2>4. QED
      BY <2>2, <2>3
  <1>5. QED
    BY <1>4

LEMMA MostExists ==
    ASSUME NEW T \in SUBSET Int, T # {}, NEW b \in Int, \A x \in T : x <= b
    PROVE  \E x \in T : \A y \in T : y <= x
  <1> DEFINE U == {n \in Nat : b - n \in T}
  <1>1. PICK t \in T : TRUE
    OBVIOUS
  <1>2. b - t \in Nat /\ b - (b - t) = t
    OBVIOUS
  <1>3. U # {} /\ U \in SUBSET Nat
    BY <1>2
  <1>4. PICK n \in U : \A m \in U : n <= m
    BY <1>3, LeastExists
  <1>5. \A y \in T : b - y \in U
    <2>1. TAKE y \in T
    <2>2. y \in Int /\ y <= b
      OBVIOUS
    <2>3. b - y \in Nat /\ b - (b - y) = y
      BY <2>2
    <2>4. QED
      BY <2>3
  <1>6. \A y \in T : y <= b - n
    <2>1. TAKE y \in T
    <2>2. n <= b - y
      BY <1>4, <1>5
    <2>3. QED
      BY <2>2
  <1>7. QED
    BY <1>6

(* Integer division by a positive number keeps the order.                  *)
LEMMA DivGrows ==
    ASSUME NEW a \in Int, NEW b \in Int, NEW c \in Nat \ {0}, a <= b
    PROVE  a \div c <= b \div c
  OBVIOUS

(* Of sets of subsets of a finite set, one has no smaller one below it.    *)
LEMMA SmallestOf ==
    ASSUME NEW S, IsFiniteSet(S), NEW B \in SUBSET (SUBSET S), B # {}
    PROVE  \E s \in B : /\ IsFiniteSet(s) /\ s \in SUBSET S
                        /\ \A x \in s : s \ {x} \notin B
  <1> DEFINE Sizes == {Cardinality(s) : s \in B}
  <1>1. \A s \in B : s \in SUBSET S /\ IsFiniteSet(s) /\ Cardinality(s) \in Nat
    BY FS_Subset, FS_CardinalityType
  <1>2. Sizes \in SUBSET Nat /\ Sizes # {}
    BY <1>1
  <1>3. PICK n \in Sizes : \A m \in Sizes : n <= m
    BY <1>2, LeastExists
  <1>4. PICK s \in B : n = Cardinality(s)
    OBVIOUS
  <1>5. ASSUME NEW x \in s PROVE s \ {x} \notin B
    <2>1. SUFFICES ASSUME s \ {x} \in B PROVE FALSE
      OBVIOUS
    <2>2. Cardinality(s \ {x}) \in Sizes
      BY <2>1
    <2>3. n <= Cardinality(s \ {x})
      BY <1>3, <2>2
    <2>4. Cardinality(s \ {x}) = Cardinality(s) - 1 /\ Cardinality(s) \in Nat
      BY <1>1, FS_RemoveElement
    <2>5. QED
      BY <1>4, <2>3, <2>4
  <1>6. QED
    BY <1>1, <1>5

-----------------------------------------------------------------------------
(* The fold behind SumFunctionOnSet.                                       *)

OneOf(s) == CHOOSE x \in s : TRUE

(* The equation of the fold on a set of sets.                              *)
FoldsOver(f, g, Ss) ==
    g = [s \in Ss |-> IF s = {} THEN 0 ELSE f[OneOf(s)] + g[s \ {OneOf(s)}]]

LEMMA AnyIsIn ==
    ASSUME NEW S, S # {}
    PROVE  OneOf(S) \in S
  BY DEF OneOf

LEMMA SumUnfolds ==
    ASSUME NEW f, NEW S
    PROVE  SumFunctionOnSet(f, S) = (CHOOSE g : FoldsOver(f, g, SUBSET S))[S]
  BY DEF SumFunctionOnSet, FoldFunctionOnSet, MapThenFoldSet, FoldsOver, OneOf

UpTo(S, n) == {s \in SUBSET S : Cardinality(s) <= n}

(* A function that satisfies the equation exists, by the sizes of sets.    *)
LEMMA FoldExists ==
    ASSUME NEW f, NEW S, IsFiniteSet(S)
    PROVE  \E g : FoldsOver(f, g, SUBSET S)
  <1> DEFINE Has(n) == \E g : FoldsOver(f, g, UpTo(S, n))
             Bad == {n \in Nat : ~Has(n)}
  <1>1. \A s \in SUBSET S : IsFiniteSet(s) /\ Cardinality(s) \in Nat
    BY FS_Subset, FS_CardinalityType
  <1>2. Has(0)
    <2> DEFINE g == [s \in UpTo(S, 0) |-> 0]
    <2>1. \A s \in UpTo(S, 0) : s = {}
      BY <1>1, FS_EmptySet DEF UpTo
    <2>2. g = [s \in UpTo(S, 0) |-> IF s = {} THEN 0 ELSE f[OneOf(s)] + g[s \ {OneOf(s)}]]
      BY <2>1
    <2>3. QED
      BY <2>2 DEF FoldsOver
  <1>3. ASSUME NEW n \in Nat, Has(n) PROVE Has(n + 1)
    <2>1. PICK g : FoldsOver(f, g, UpTo(S, n))
      BY <1>3
    <2> DEFINE h == [s \in UpTo(S, n + 1) |->
                       IF s = {} THEN 0 ELSE f[OneOf(s)] + g[s \ {OneOf(s)}]]
    <2>2. \A s \in UpTo(S, n) : s \in UpTo(S, n + 1)
      BY <1>1 DEF UpTo
    <2>3. \A s \in UpTo(S, n) : h[s] = g[s]
      BY <2>1, <2>2 DEF FoldsOver
    <2>4. ASSUME NEW s \in UpTo(S, n + 1), s # {} PROVE s \ {OneOf(s)} \in UpTo(S, n)
      <3>1. OneOf(s) \in s
        BY <2>4, AnyIsIn
      <3>2. /\ s \in SUBSET S /\ IsFiniteSet(s)
            /\ Cardinality(s) \in Nat /\ Cardinality(s) <= n + 1
        BY <1>1 DEF UpTo
      <3>3. Cardinality(s \ {OneOf(s)}) = Cardinality(s) - 1
        BY <3>1, <3>2, FS_RemoveElement
      <3>4. QED
        BY <3>2, <3>3 DEF UpTo
    <2>5. \A s \in UpTo(S, n + 1) : s # {} => h[s \ {OneOf(s)}] = g[s \ {OneOf(s)}]
      BY <2>3, <2>4
    <2>6. h = [s \in UpTo(S, n + 1) |-> IF s = {} THEN 0 ELSE f[OneOf(s)] + h[s \ {OneOf(s)}]]
      BY <2>5
    <2> HIDE DEF h
    <2>7. QED
      BY <2>6 DEF FoldsOver
  <1> HIDE DEF Has
  <1>4. Bad = {}
    <2>1. SUFFICES ASSUME Bad # {} PROVE FALSE
      OBVIOUS
    <2>2. Bad \in SUBSET Nat
      OBVIOUS
    <2>3. PICK n \in Bad : \A m \in Bad : n <= m
      BY <2>1, <2>2, LeastExists
    <2>4. n # 0 /\ n \in Nat
      BY <1>2
    <2>5. n - 1 \in Nat /\ ~(n <= n - 1) /\ (n - 1) + 1 = n
      BY <2>4
    <2>6. Has(n - 1)
      BY <2>3, <2>5
    <2>7. Has((n - 1) + 1)
      BY <1>3, <2>5, <2>6
    <2>8. QED
      BY <2>5, <2>7
  <1>5. Has(Cardinality(S))
    BY <1>1, <1>4
  <1>6. UpTo(S, Cardinality(S)) = SUBSET S
    BY FS_Subset DEF UpTo
  <1>7. QED
    BY <1>5, <1>6 DEF Has

FoldsSubsets(f, g, S) == FoldsOver(f, g, SUBSET S)

(* Two folds agree wherever both are defined.                              *)
LEMMA FoldsAgree ==
    ASSUME NEW f, NEW S, IsFiniteSet(S), NEW T \in SUBSET S,
           NEW g, FoldsSubsets(f, g, S), NEW h, FoldsSubsets(f, h, T)
    PROVE  g[T] = h[T]
  <1> DEFINE Bad == {s \in SUBSET T : g[s] # h[s]}
  <1>1. SUFFICES ASSUME Bad # {} PROVE FALSE
    <2>1. T \in SUBSET T
      OBVIOUS
    <2>2. QED
      BY <2>1
  <1>2. Bad \in SUBSET (SUBSET S)
    OBVIOUS
  <1>3. PICK s \in Bad : \A x \in s : s \ {x} \notin Bad
    <2> HIDE DEF Bad
    <2>1. QED
      BY <1>1, <1>2, SmallestOf
  <1>4. s \in SUBSET S /\ s \in SUBSET T /\ g[s] # h[s]
    OBVIOUS
  <1>5. g[s] = IF s = {} THEN 0 ELSE f[OneOf(s)] + g[s \ {OneOf(s)}]
    BY <1>4 DEF FoldsSubsets, FoldsOver
  <1>6. h[s] = IF s = {} THEN 0 ELSE f[OneOf(s)] + h[s \ {OneOf(s)}]
    BY <1>4 DEF FoldsSubsets, FoldsOver
  <1>7. s # {} /\ g[s \ {OneOf(s)}] # h[s \ {OneOf(s)}]
    BY <1>4, <1>5, <1>6
  <1>8. OneOf(s) \in s /\ s \ {OneOf(s)} \in SUBSET T
    BY <1>4, <1>7, AnyIsIn
  <1>9. s \ {OneOf(s)} \in Bad
    BY <1>7, <1>8
  <1>10. QED
    BY <1>3, <1>8, <1>9

(* What the sum is, element by element.                                    *)
LEMMA SumOfNone ==
    ASSUME NEW f
    PROVE  SumFunctionOnSet(f, {}) = 0
  <1> DEFINE g == CHOOSE g : FoldsOver(f, g, SUBSET {})
  <1>1. FoldsOver(f, g, SUBSET {})
    BY FoldExists, FS_EmptySet
  <1>2. {} \in SUBSET {}
    OBVIOUS
  <1> HIDE DEF g
  <1>3. g[{}] = 0
    BY <1>1, <1>2 DEF FoldsOver
  <1>4. QED
    BY <1>3, SumUnfolds DEF g

LEMMA SumStep ==
    ASSUME NEW f, NEW S, IsFiniteSet(S), S # {}
    PROVE  SumFunctionOnSet(f, S) = f[OneOf(S)] + SumFunctionOnSet(f, S \ {OneOf(S)})
  <1> DEFINE T == S \ {OneOf(S)}
             g == CHOOSE g : FoldsOver(f, g, SUBSET S)
             h == CHOOSE h : FoldsOver(f, h, SUBSET T)
  <1>1. IsFiniteSet(T) /\ T \in SUBSET S /\ S \in SUBSET S /\ T \in SUBSET T
    BY FS_Subset
  <1>2. FoldsOver(f, g, SUBSET S) /\ FoldsOver(f, h, SUBSET T)
    BY <1>1, FoldExists
  <1>3. SumFunctionOnSet(f, S) = g[S] /\ SumFunctionOnSet(f, T) = h[T]
    BY SumUnfolds
  <1> HIDE DEF g, h, T
  <1>4. g[T] = h[T]
    <2>1. FoldsSubsets(f, g, S) /\ FoldsSubsets(f, h, T)
      BY <1>2 DEF FoldsSubsets
    <2>2. QED
      BY <1>1, <2>1, FoldsAgree
  <1>5. g[S] = f[OneOf(S)] + g[T]
    BY <1>1, <1>2 DEF FoldsOver, T
  <1>6. QED
    BY <1>3, <1>4, <1>5 DEF T

(* Sums of integers are integers, of naturals naturals; functions that     *)
(* agree on a set have the same sum there, and greater terms give no       *)
(* smaller one.                                                            *)
LEMMA SumIsInt ==
    ASSUME NEW f, NEW S, IsFiniteSet(S), \A x \in S : f[x] \in Int
    PROVE  SumFunctionOnSet(f, S) \in Int
  <1> DEFINE Bad == {s \in SUBSET S : SumFunctionOnSet(f, s) \notin Int}
  <1>1. SUFFICES ASSUME Bad # {} PROVE FALSE
    <2>1. S \in SUBSET S
      OBVIOUS
    <2>2. QED
      BY <2>1
  <1>2. Bad \in SUBSET (SUBSET S)
    OBVIOUS
  <1>3. PICK s \in Bad : IsFiniteSet(s) /\ \A x \in s : s \ {x} \notin Bad
    <2> HIDE DEF Bad
    <2>1. QED
      BY <1>1, <1>2, SmallestOf
  <1>4. s \in SUBSET S /\ s # {}
    BY SumOfNone
  <1>5. OneOf(s) \in s /\ SumFunctionOnSet(f, s) = f[OneOf(s)] + SumFunctionOnSet(f, s \ {OneOf(s)})
    BY <1>3, <1>4, AnyIsIn, SumStep
  <1>6. SumFunctionOnSet(f, s \ {OneOf(s)}) \in Int
    BY <1>3, <1>4, <1>5
  <1>7. QED
    BY <1>4, <1>5, <1>6

LEMMA SumIsNat ==
    ASSUME NEW f, NEW S, IsFiniteSet(S), \A x \in S : f[x] \in Nat
    PROVE  SumFunctionOnSet(f, S) \in Nat
  <1> DEFINE Bad == {s \in SUBSET S : SumFunctionOnSet(f, s) \notin Nat}
  <1>1. SUFFICES ASSUME Bad # {} PROVE FALSE
    <2>1. S \in SUBSET S
      OBVIOUS
    <2>2. QED
      BY <2>1
  <1>2. Bad \in SUBSET (SUBSET S)
    OBVIOUS
  <1>3. PICK s \in Bad : IsFiniteSet(s) /\ \A x \in s : s \ {x} \notin Bad
    <2> HIDE DEF Bad
    <2>1. QED
      BY <1>1, <1>2, SmallestOf
  <1>4. s \in SUBSET S /\ s # {}
    BY SumOfNone
  <1>5. OneOf(s) \in s /\ SumFunctionOnSet(f, s) = f[OneOf(s)] + SumFunctionOnSet(f, s \ {OneOf(s)})
    BY <1>3, <1>4, AnyIsIn, SumStep
  <1>6. SumFunctionOnSet(f, s \ {OneOf(s)}) \in Nat
    BY <1>3, <1>4, <1>5
  <1>7. QED
    BY <1>4, <1>5, <1>6

LEMMA SumsAgree ==
    ASSUME NEW f, NEW g, NEW S, IsFiniteSet(S), \A x \in S : f[x] = g[x]
    PROVE  SumFunctionOnSet(f, S) = SumFunctionOnSet(g, S)
  <1> DEFINE Bad == {s \in SUBSET S : SumFunctionOnSet(f, s) # SumFunctionOnSet(g, s)}
  <1>1. SUFFICES ASSUME Bad # {} PROVE FALSE
    <2>1. S \in SUBSET S
      OBVIOUS
    <2>2. QED
      BY <2>1
  <1>2. Bad \in SUBSET (SUBSET S)
    OBVIOUS
  <1>3. PICK s \in Bad : IsFiniteSet(s) /\ \A x \in s : s \ {x} \notin Bad
    <2> HIDE DEF Bad
    <2>1. QED
      BY <1>1, <1>2, SmallestOf
  <1>4. s \in SUBSET S /\ s # {}
    BY SumOfNone
  <1>5. /\ OneOf(s) \in s
        /\ SumFunctionOnSet(f, s) = f[OneOf(s)] + SumFunctionOnSet(f, s \ {OneOf(s)})
        /\ SumFunctionOnSet(g, s) = g[OneOf(s)] + SumFunctionOnSet(g, s \ {OneOf(s)})
    BY <1>3, <1>4, AnyIsIn, SumStep
  <1>6. SumFunctionOnSet(f, s \ {OneOf(s)}) = SumFunctionOnSet(g, s \ {OneOf(s)})
    BY <1>3, <1>4, <1>5
  <1>7. QED
    BY <1>4, <1>5, <1>6

LEMMA SumsCompare ==
    ASSUME NEW f, NEW g, NEW S, IsFiniteSet(S),
           \A x \in S : f[x] \in Int /\ g[x] \in Int /\ f[x] <= g[x]
    PROVE  SumFunctionOnSet(f, S) <= SumFunctionOnSet(g, S)
  <1> DEFINE Bad == {s \in SUBSET S : ~(SumFunctionOnSet(f, s) <= SumFunctionOnSet(g, s))}
  <1>1. SUFFICES ASSUME Bad # {} PROVE FALSE
    <2>1. S \in SUBSET S
      OBVIOUS
    <2>2. QED
      BY <2>1
  <1>2. Bad \in SUBSET (SUBSET S)
    OBVIOUS
  <1>3. PICK s \in Bad : IsFiniteSet(s) /\ \A x \in s : s \ {x} \notin Bad
    <2> HIDE DEF Bad
    <2>1. QED
      BY <1>1, <1>2, SmallestOf
  <1>4. s \in SUBSET S /\ s # {}
    BY SumOfNone
  <1> DEFINE t == s \ {OneOf(s)}
  <1>5. /\ OneOf(s) \in s
        /\ SumFunctionOnSet(f, s) = f[OneOf(s)] + SumFunctionOnSet(f, t)
        /\ SumFunctionOnSet(g, s) = g[OneOf(s)] + SumFunctionOnSet(g, t)
    BY <1>3, <1>4, AnyIsIn, SumStep
  <1>6. SumFunctionOnSet(f, t) <= SumFunctionOnSet(g, t)
    BY <1>3, <1>4, <1>5
  <1>7. t \in SUBSET S /\ IsFiniteSet(t)
    BY <1>4, FS_Subset
  <1> HIDE DEF t
  <1>8. SumFunctionOnSet(f, t) \in Int /\ SumFunctionOnSet(g, t) \in Int
    BY <1>7, SumIsInt
  <1>9. QED
    BY <1>4, <1>5, <1>6, <1>8

(* Any element may be taken out first.                                     *)
LEMMA SumWithout ==
    ASSUME NEW f, NEW S, IsFiniteSet(S), \A x \in S : f[x] \in Int, NEW x \in S
    PROVE  SumFunctionOnSet(f, S) = f[x] + SumFunctionOnSet(f, S \ {x})
  <1> DEFINE Splits(s) ==
        \A y \in s : SumFunctionOnSet(f, s) = f[y] + SumFunctionOnSet(f, s \ {y})
             Bad == {s \in SUBSET S : ~Splits(s)}
  <1>1. SUFFICES ASSUME Bad # {} PROVE FALSE
    <2>1. S \in SUBSET S
      OBVIOUS
    <2>2. QED
      BY <2>1
  <1>2. Bad \in SUBSET (SUBSET S)
    OBVIOUS
  <1>3. PICK s \in Bad : IsFiniteSet(s) /\ \A z \in s : s \ {z} \notin Bad
    <2> HIDE DEF Bad
    <2>1. QED
      BY <1>1, <1>2, SmallestOf
  <1>4. PICK y \in s : SumFunctionOnSet(f, s) # f[y] + SumFunctionOnSet(f, s \ {y})
    OBVIOUS
  <1> DEFINE a == OneOf(s)
  <1>5. a \in s /\ SumFunctionOnSet(f, s) = f[a] + SumFunctionOnSet(f, s \ {a})
    BY <1>3, <1>4, AnyIsIn, SumStep
  <1> HIDE DEF a
  <1>6. a # y /\ s \in SUBSET S
    BY <1>4, <1>5
  <1>7. Splits(s \ {a}) /\ Splits(s \ {y})
    BY <1>3, <1>5, <1>6
  <1>8. y \in s \ {a} /\ a \in s \ {y} /\ (s \ {a}) \ {y} = (s \ {y}) \ {a}
    BY <1>5, <1>6
  <1> DEFINE rest == (s \ {a}) \ {y}
  <1>9. /\ SumFunctionOnSet(f, s \ {a}) = f[y] + SumFunctionOnSet(f, rest)
        /\ SumFunctionOnSet(f, s \ {y}) = f[a] + SumFunctionOnSet(f, rest)
    BY <1>7, <1>8
  <1>10. SumFunctionOnSet(f, rest) \in Int
    <2>1. rest \in SUBSET S
      BY <1>6
    <2>2. IsFiniteSet(rest) /\ \A z \in rest : f[z] \in Int
      BY <2>1, FS_Subset
    <2> HIDE DEF rest
    <2>3. QED
      BY <2>2, SumIsInt
  <1>11. f[y] \in Int /\ f[a] \in Int
    BY <1>5, <1>6
  <1> HIDE DEF rest
  <1>12. QED
    BY <1>4, <1>5, <1>9, <1>10, <1>11

(* One more element; one term changed; some of the elements.               *)
LEMMA SumWith ==
    ASSUME NEW f, NEW S, IsFiniteSet(S), NEW x, x \notin S,
           \A y \in S \cup {x} : f[y] \in Int
    PROVE  SumFunctionOnSet(f, S \cup {x}) = SumFunctionOnSet(f, S) + f[x]
  <1> DEFINE T == S \cup {x}
  <1>1. IsFiniteSet(T) /\ x \in T /\ T \ {x} = S
    BY FS_AddElement
  <1>2. \A y \in T : f[y] \in Int
    OBVIOUS
  <1> HIDE DEF T
  <1>3. SumFunctionOnSet(f, T) = f[x] + SumFunctionOnSet(f, T \ {x})
    BY <1>1, <1>2, SumWithout
  <1>4. SumFunctionOnSet(f, S) \in Int /\ f[x] \in Int
    BY <1>1, <1>2, SumIsInt
  <1>5. SumFunctionOnSet(f, T) = SumFunctionOnSet(f, S) + f[x]
    <2>1. T \ {x} = S
      BY <1>1
    <2>2. SumFunctionOnSet(f, T) = f[x] + SumFunctionOnSet(f, S)
      BY <1>3, <2>1, Zenon
    <2>3. QED
      BY <1>4, <2>2
  <1>6. QED
    BY <1>5 DEF T

LEMMA SumChanged ==
    ASSUME NEW f, NEW g, NEW S, IsFiniteSet(S), NEW x \in S,
           \A y \in S : f[y] \in Int /\ g[y] \in Int,
           \A y \in S \ {x} : g[y] = f[y]
    PROVE  SumFunctionOnSet(g, S) = SumFunctionOnSet(f, S) - f[x] + g[x]
  <1> DEFINE T == S \ {x}
  <1>1. IsFiniteSet(T) /\ \A y \in T : f[y] \in Int /\ f[y] = g[y]
    BY FS_RemoveElement
  <1>2. /\ SumFunctionOnSet(f, S) = f[x] + SumFunctionOnSet(f, T)
        /\ SumFunctionOnSet(g, S) = g[x] + SumFunctionOnSet(g, T)
    BY SumWithout
  <1> HIDE DEF T
  <1>3. SumFunctionOnSet(f, T) = SumFunctionOnSet(g, T) /\ SumFunctionOnSet(f, T) \in Int
    BY <1>1, SumsAgree, SumIsInt
  <1>4. QED
    BY <1>2, <1>3

LEMMA SumOfSome ==
    ASSUME NEW f, NEW S, IsFiniteSet(S), \A x \in S : f[x] \in Nat, NEW T \in SUBSET S
    PROVE  SumFunctionOnSet(f, T) <= SumFunctionOnSet(f, S)
  <1> DEFINE Bad == {s \in SUBSET S :
                       T \subseteq s /\ ~(SumFunctionOnSet(f, T) <= SumFunctionOnSet(f, s))}
  <1>1. SUFFICES ASSUME Bad # {} PROVE FALSE
    <2>1. S \in SUBSET S
      OBVIOUS
    <2>2. QED
      BY <2>1
  <1>2. Bad \in SUBSET (SUBSET S)
    OBVIOUS
  <1>3. PICK s \in Bad : IsFiniteSet(s) /\ \A x \in s : s \ {x} \notin Bad
    <2> HIDE DEF Bad
    <2>1. QED
      BY <1>1, <1>2, SmallestOf
  <1>4. T \subseteq s /\ s \in SUBSET S /\ ~(SumFunctionOnSet(f, T) <= SumFunctionOnSet(f, s))
    OBVIOUS
  <1>5. SumFunctionOnSet(f, T) \in Nat
    BY FS_Subset, SumIsNat
  <1>6. T # s
    BY <1>4, <1>5
  <1>7. PICK x \in s : x \notin T
    BY <1>4, <1>6
  <1> DEFINE t == s \ {x}
  <1>8. t \in SUBSET S /\ T \subseteq t /\ t \notin Bad
    BY <1>3, <1>4, <1>7
  <1>9. SumFunctionOnSet(f, T) <= SumFunctionOnSet(f, t)
    BY <1>8
  <1>10. SumFunctionOnSet(f, s) = f[x] + SumFunctionOnSet(f, t) /\ f[x] \in Nat
    BY <1>3, <1>4, SumWithout
  <1> HIDE DEF t
  <1>11. SumFunctionOnSet(f, t) \in Nat
    BY <1>8, FS_Subset, SumIsNat
  <1>12. QED
    BY <1>4, <1>5, <1>9, <1>10, <1>11
-----------------------------------------------------------------------------
(* A sum of zeros.                                                         *)
LEMMA SumOfZeros ==
    ASSUME NEW f, NEW S, IsFiniteSet(S), \A x \in S : f[x] = 0
    PROVE  SumFunctionOnSet(f, S) = 0
  <1> DEFINE Bad == {s \in SUBSET S : SumFunctionOnSet(f, s) # 0}
  <1>1. SUFFICES ASSUME Bad # {} PROVE FALSE
    <2>1. S \in SUBSET S
      OBVIOUS
    <2>2. QED
      BY <2>1
  <1>2. Bad \in SUBSET (SUBSET S)
    OBVIOUS
  <1>3. PICK s \in Bad : IsFiniteSet(s) /\ \A x \in s : s \ {x} \notin Bad
    BY <1>1, <1>2, SmallestOf
  <1>4. CASE s = {}
    BY <1>4, SumOfNone
  <1>5. CASE s # {}
    <2>1. OneOf(s) \in s
      BY <1>5, AnyIsIn
    <2>2. SumFunctionOnSet(f, s \ {OneOf(s)}) = 0
      BY <1>3, <2>1
    <2>3. f[OneOf(s)] = 0
      BY <2>1
    <2>4. SumFunctionOnSet(f, s) = 0
      BY <1>3, <1>5, <2>2, <2>3, SumStep
    <2>5. QED
      BY <2>4
  <1>6. QED
    BY <1>4, <1>5
-----------------------------------------------------------------------------
(* Of the members of a finite set, one has the greatest value.             *)
LEMMA GreatestExists ==
    ASSUME NEW S, IsFiniteSet(S), S # {}, NEW f, \A x \in S : f[x] \in Int
    PROVE  \E x \in S : \A y \in S : f[y] <= f[x]
  <1> DEFINE Has(s) == \E x \in s : \A y \in s : f[y] <= f[x]
             Bad == {s \in SUBSET S : s # {} /\ ~Has(s)}
  <1>1. SUFFICES ASSUME Bad # {} PROVE FALSE
    <2>1. S \in SUBSET S
      OBVIOUS
    <2>2. QED
      BY <2>1
  <1>2. Bad \in SUBSET (SUBSET S)
    OBVIOUS
  <1>3. PICK s \in Bad : IsFiniteSet(s) /\ \A x \in s : s \ {x} \notin Bad
    <2> HIDE DEF Bad
    <2>1. QED
      BY <1>1, <1>2, SmallestOf
  <1>4. PICK x \in s : s \ {x} = {} \/ Has(s \ {x})
    BY <1>3
  <1>5. CASE s \ {x} = {}
    <2>1. \A y \in s : f[y] <= f[x]
      BY <1>5
    <2>2. QED
      BY <1>3, <2>1
  <1>6. CASE Has(s \ {x})
    <2>1. PICK m \in s \ {x} : \A y \in s \ {x} : f[y] <= f[m]
      BY <1>6
    <2>2. f[x] \in Int /\ f[m] \in Int /\ \A y \in s : f[y] \in Int
      OBVIOUS
    <2>3. CASE f[x] <= f[m]
      <3>1. \A y \in s : f[y] <= f[m]
        BY <2>1, <2>3
      <3>2. QED
        BY <1>3, <3>1
    <2>4. CASE ~(f[x] <= f[m])
      <3>1. \A y \in s : f[y] <= f[x]
        BY <2>1, <2>2, <2>4
      <3>2. QED
        BY <1>3, <3>1
    <2>5. QED
      BY <2>3, <2>4
  <1>7. QED
    BY <1>4, <1>5, <1>6
=============================================================================
