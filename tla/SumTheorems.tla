----------------------------- MODULE SumTheorems -----------------------------
(***************************************************************************)
(* Sums over finite sets: what SumFunctionOnSet of the community modules    *)
(* returns, for AlertProofs and DriftProofs.                                *)
(*                                                                          *)
(* A fold is a recursive function, so it is defined by CHOOSE: its equation *)
(* holds once a function that satisfies it is shown to exist.  Induction is *)
(* stated with sets in place of predicates: a set of numbers (of subsets)   *)
(* that is closed under successor (adding an element) has them all.         *)
(***************************************************************************)
EXTENDS Integers, FiniteSets, FiniteSetsExt, FiniteSetTheorems, TLAPS

-----------------------------------------------------------------------------
(* Induction *)

(* A set of naturals that is not empty has a least element. *)
LEMMA LeastNatural ==
  ASSUME NEW T \in SUBSET Nat, T # {}
  PROVE  \E n \in T : \A m \in T : n <= m
<1> DEFINE R == {ss \in Nat \X Nat : ss[1] < ss[2]}
<1>1. IsWellFoundedOn(R, Nat)
  BY NatLessThanWellFounded DEF OpToRel
<1>2. \E x \in T : \A y \in T : <<y, x>> \notin R
  <2> HIDE DEF R
  <2>. QED BY <1>1, WFMin
<1>3. PICK n \in T : \A m \in T : <<m, n>> \notin R
  BY <1>2
<1>4. \A m \in T : n <= m
  <2> SUFFICES ASSUME NEW m \in T, ~(n <= m) PROVE FALSE
    OBVIOUS
  <2>1. <<m, n>> \in Nat \X Nat /\ m < n
    OBVIOUS
  <2>. QED BY <1>3, <2>1
<1>. QED BY <1>4

(* A set of naturals that has 0 and the successor of each of its elements has all. *)
LEMMA NaturalsBySuccessor ==
  ASSUME NEW D \in SUBSET Nat, 0 \in D, \A n \in D : n + 1 \in D
  PROVE  D = Nat
<1> SUFFICES ASSUME Nat \ D # {} PROVE FALSE
  OBVIOUS
<1>1. PICK n \in Nat \ D : \A m \in Nat \ D : n <= m
  BY LeastNatural
<1>2. n # 0 /\ n - 1 \in Nat
  BY <1>1
<1>3. n - 1 \in D
  BY <1>1, <1>2
<1>4. (n - 1) + 1 \in D
  BY <1>3
<1>. QED BY <1>1, <1>4

(* A set of subsets of S that has the empty set, and any of its elements with one more
   element of S, has S. *)
LEMMA SubsetsByElement ==
  ASSUME NEW S, IsFiniteSet(S), NEW F \in SUBSET SUBSET S, {} \in F,
         \A T \in F : \A x \in S \ T : T \cup {x} \in F
  PROVE  S \in F
<1> DEFINE D == {n \in Nat : \A T \in SUBSET S : Cardinality(T) = n => T \in F}
<1>1. \A T \in SUBSET S : IsFiniteSet(T) /\ Cardinality(T) \in Nat
  BY FS_Subset, FS_CardinalityType
<1>2. 0 \in D
  BY <1>1, FS_EmptySet
<1>3. ASSUME NEW n \in D PROVE n + 1 \in D
  <2> SUFFICES ASSUME NEW T \in SUBSET S, Cardinality(T) = n + 1 PROVE T \in F
    OBVIOUS
  <2>1. T # {}
    <3>1. n + 1 # 0
      OBVIOUS
    <3> HIDE DEF D
    <3>. QED BY <3>1, FS_EmptySet
  <2>2. PICK x \in T : TRUE
    BY <2>1
  <2>3. Cardinality(T \ {x}) = n
    <3>1. Cardinality(T \ {x}) = Cardinality(T) - 1
      BY <1>1, FS_RemoveElement
    <3>. QED BY <3>1
  <2>4. T \ {x} \in F
    BY <2>3
  <2>5. (T \ {x}) \cup {x} = T
    OBVIOUS
  <2>6. (T \ {x}) \cup {x} \in F
    BY <2>4
  <2>. QED BY <2>5, <2>6
<1>4. D = Nat
  <2> HIDE DEF D
  <2>1. D \in SUBSET Nat
    BY DEF D
  <2>. QED BY <1>2, <1>3, <2>1, NaturalsBySuccessor
<1>5. Cardinality(S) \in D
  BY <1>1, <1>4
<1>. QED BY <1>5

-----------------------------------------------------------------------------
(* Folds *)

\* The element a fold takes first.
First(s) == CHOOSE x \in s : TRUE

(* A fold takes elements of the set. *)
LEMMA FirstIn == \A s : s # {} => First(s) \in s
  BY DEF First

\* g folds the step h, with values in V, over the subsets of S.
Folds(g, h, base, S, V) ==
  /\ g \in [SUBSET S -> V]
  /\ \A s \in SUBSET S :
       g[s] = IF s = {} THEN base ELSE h[<<First(s), g[s \ {First(s)}]>>]

(* Whatever is folded, there is such a function. *)
LEMMA FoldExists ==
  ASSUME NEW S, IsFiniteSet(S), NEW V, NEW base \in V, NEW h \in [S \X V -> V]
  PROVE  \E g : Folds(g, h, base, S, V)
<1> DEFINE Small(n) == {s \in SUBSET S : Cardinality(s) <= n}
           Eq(g, s) == g[s] = IF s = {} THEN base ELSE h[<<First(s), g[s \ {First(s)}]>>]
           D == {n \in Nat : \E g \in [Small(n) -> V] : \A s \in Small(n) : Eq(g, s)}
<1>1. \A s \in SUBSET S : IsFiniteSet(s) /\ Cardinality(s) \in Nat
  BY FS_Subset, FS_CardinalityType
<1>2. ASSUME NEW n \in Nat, NEW s \in Small(n + 1), s # {}
      PROVE  s \ {First(s)} \in Small(n) /\ First(s) \in S
  <2>1. First(s) \in s
    BY <1>2, FirstIn
  <2>2. Cardinality(s \ {First(s)}) = Cardinality(s) - 1
    BY <1>1, <2>1, FS_RemoveElement
  <2>. QED BY <1>1, <2>1, <2>2
<1>3. 0 \in D
  <2> DEFINE g == [s \in Small(0) |-> base]
  <2>1. \A s \in Small(0) : s = {}
    BY <1>1, FS_EmptySet
  <2>2. g \in [Small(0) -> V] /\ \A s \in Small(0) : Eq(g, s)
    BY <2>1
  <2>. QED BY <2>2
<1>4. ASSUME NEW n \in D PROVE n + 1 \in D
  <2>1. PICK g \in [Small(n) -> V] : \A s \in Small(n) : Eq(g, s)
    OBVIOUS
  <2> DEFINE k == [s \in Small(n + 1) |->
                     IF s = {} THEN base ELSE h[<<First(s), g[s \ {First(s)}]>>]]
  <2>2. Small(n) \subseteq Small(n + 1)
    BY <1>1
  <2>3. k \in [Small(n + 1) -> V]
    <3> SUFFICES ASSUME NEW s \in Small(n + 1), s # {}
                 PROVE  h[<<First(s), g[s \ {First(s)}]>>] \in V
      OBVIOUS
    <3>1. <<First(s), g[s \ {First(s)}]>> \in S \X V
      BY <1>2, <2>1
    <3>. QED BY <3>1
  <2>4. \A s \in Small(n) : k[s] = g[s]
    BY <2>1, <2>2
  <2>5. \A s \in Small(n + 1) : Eq(k, s)
    <3> SUFFICES ASSUME NEW s \in Small(n + 1), s # {} PROVE Eq(k, s)
      OBVIOUS
    <3>1. k[s \ {First(s)}] = g[s \ {First(s)}]
      BY <1>2, <2>4
    <3>. QED BY <3>1
  <2>6. \E f \in [Small(n + 1) -> V] : \A s \in Small(n + 1) : Eq(f, s)
    <3>. HIDE DEF k, Small, Eq
    <3>. QED BY <2>3, <2>5
  <2>7. n + 1 \in Nat
    OBVIOUS
  <2>. HIDE DEF Small, Eq
  <2>. QED BY <2>6, <2>7
<1>5. D = Nat
  <2> HIDE DEF D
  <2>1. D \in SUBSET Nat
    BY DEF D
  <2>. QED BY <1>3, <1>4, <2>1, NaturalsBySuccessor
<1>6. PICK n \in Nat : n = Cardinality(S)
  BY <1>1
<1>7. Small(n) = SUBSET S
  BY <1>1, <1>6, FS_Subset
<1>8. PICK g \in [SUBSET S -> V] : \A s \in SUBSET S : Eq(g, s)
  BY <1>5, <1>7
<1>9. Folds(g, h, base, S, V)
  BY <1>8 DEF Folds
<1>. QED BY <1>9

-----------------------------------------------------------------------------
(* Sums *)

\* w gives an integer weight to the elements of S.
Weights(w, S) == \A x \in S : w[x] \in Int

\* g[T] adds up the weights of T, for the subsets T of S.
AddsUp(g, w, S) ==
  \A s \in SUBSET S : g[s] = IF s = {} THEN 0 ELSE w[First(s)] + g[s \ {First(s)}]
IsSum(g, w, S) == g \in [SUBSET S -> Int] /\ AddsUp(g, w, S)

(* There is a function that adds up all subsets of a finite set ... *)
LEMMA SumExists ==
  ASSUME NEW S, IsFiniteSet(S), NEW w, Weights(w, S)
  PROVE  \E g : IsSum(g, w, S)
<1> DEFINE h == [xn \in S \X Int |-> w[xn[1]] + xn[2]]
<1>1. h \in [S \X Int -> Int]
  BY DEF Weights
<1>2. PICK g : Folds(g, h, 0, S, Int)
  <2>1. 0 \in Int
    OBVIOUS
  <2> HIDE DEF h
  <2>. QED BY <1>1, <2>1, FoldExists
<1>3. \A s \in SUBSET S : g[s] = IF s = {} THEN 0 ELSE w[First(s)] + g[s \ {First(s)}]
  <2> SUFFICES ASSUME NEW s \in SUBSET S
               PROVE  g[s] = IF s = {} THEN 0 ELSE w[First(s)] + g[s \ {First(s)}]
    OBVIOUS
  <2>1. g[s] = IF s = {} THEN 0 ELSE h[<<First(s), g[s \ {First(s)}]>>]
    <3> HIDE DEF h
    <3>. QED BY <1>2 DEF Folds
  <2>2. CASE s # {}
    <3>1. First(s) \in S /\ g[s \ {First(s)}] \in Int
      BY <1>2, <2>2, FirstIn DEF Folds
    <3>2. h[<<First(s), g[s \ {First(s)}]>>] = w[First(s)] + g[s \ {First(s)}]
      BY <3>1
    <3>. QED BY <2>1, <2>2, <3>2
  <2>. QED BY <2>1, <2>2
<1>4. IsSum(g, w, S)
  BY <1>2, <1>3 DEF IsSum, AddsUp, Folds
<1>. QED BY <1>4

(* ... and on a part of the set no other ... *)
LEMMA SumUnique ==
  ASSUME NEW S, IsFiniteSet(S), NEW T \in SUBSET S, NEW w, NEW f, NEW g,
         AddsUp(f, w, S), AddsUp(g, w, T)
  PROVE  f[T] = g[T]
<1> DEFINE D == {n \in Nat : \A s \in SUBSET T : Cardinality(s) = n => f[s] = g[s]}
<1>1. \A s \in SUBSET T : IsFiniteSet(s) /\ Cardinality(s) \in Nat
  BY FS_Subset, FS_CardinalityType
<1>2. /\ \A s \in SUBSET T : s # {} => f[s] = w[First(s)] + f[s \ {First(s)}]
      /\ \A s \in SUBSET T : s # {} => g[s] = w[First(s)] + g[s \ {First(s)}]
      /\ f[{}] = g[{}]
  BY DEF AddsUp
<1>3. 0 \in D
  BY <1>1, <1>2, FS_EmptySet
<1>4. ASSUME NEW n \in D PROVE n + 1 \in D
  <2> SUFFICES ASSUME NEW s \in SUBSET T, Cardinality(s) = n + 1 PROVE f[s] = g[s]
    OBVIOUS
  <2>1. s # {} /\ First(s) \in s
    <3>1. n + 1 # 0
      OBVIOUS
    <3> HIDE DEF D
    <3>. QED BY <3>1, FS_EmptySet, FirstIn
  <2>2. Cardinality(s \ {First(s)}) = Cardinality(s) - 1
    BY <1>1, <2>1, FS_RemoveElement
  <2>3. f[s \ {First(s)}] = g[s \ {First(s)}]
    BY <2>2
  <2>. QED BY <1>2, <2>1, <2>3
<1>5. D = Nat
  <2> HIDE DEF D
  <2>1. D \in SUBSET Nat
    BY DEF D
  <2>. QED BY <1>3, <1>4, <2>1, NaturalsBySuccessor
<1>6. Cardinality(T) \in D
  BY <1>1, <1>5
<1>. QED BY <1>6

(* The recursive function of the fold is one of these. *)
LEMMA SumOnSet ==
  ASSUME NEW S, IsFiniteSet(S), NEW w, Weights(w, S)
  PROVE  \E g : AddsUp(g, w, S) /\ SumFunctionOnSet(w, S) = g[S]
<1> DEFINE Body(g) == [s \in SUBSET S |->
                         IF s = {} THEN 0 ELSE w[First(s)] + g[s \ {First(s)}]]
           sum == CHOOSE g : g = Body(g)
<1>1. PICK f : IsSum(f, w, S)
  BY SumExists
<1>2. f = Body(f)
  BY <1>1 DEF IsSum, AddsUp
<1>3. sum = Body(sum)
  <2> HIDE DEF Body
  <2>. QED BY <1>2
<1>4. SumFunctionOnSet(w, S) = sum[S]
  BY DEF SumFunctionOnSet, FoldFunctionOnSet, MapThenFoldSet, First
<1>5. \A g : g = Body(g) => \A T \in SUBSET S :
         g[T] = IF T = {} THEN 0 ELSE w[First(T)] + g[T \ {First(T)}]
  OBVIOUS
<1> HIDE DEF sum, Body
<1>6. AddsUp(sum, w, S)
  BY <1>3, <1>5 DEF AddsUp
<1>. QED BY <1>4, <1>6

\* One function that has the sum of every part of S.
SumsOfParts(g, w, S) ==
  /\ IsSum(g, w, S)
  /\ \A T \in SUBSET S : SumFunctionOnSet(w, T) = g[T]

(* ... so there is one that gives the sum of every part. *)
LEMMA SumOfParts ==
  ASSUME NEW S, IsFiniteSet(S), NEW w, Weights(w, S)
  PROVE  \E g : SumsOfParts(g, w, S)
<1>1. PICK g : IsSum(g, w, S)
  BY SumExists
<1>2. ASSUME NEW T \in SUBSET S PROVE SumFunctionOnSet(w, T) = g[T]
  <2>1. IsFiniteSet(T) /\ Weights(w, T)
    BY FS_Subset DEF Weights
  <2>2. PICK f : AddsUp(f, w, T) /\ SumFunctionOnSet(w, T) = f[T]
    BY <2>1, SumOnSet
  <2>3. AddsUp(g, w, S)
    BY <1>1 DEF IsSum
  <2>4. g[T] = f[T]
    BY <2>2, <2>3, SumUnique
  <2>. QED BY <2>2, <2>4
<1>. QED BY <1>1, <1>2 DEF SumsOfParts

(* Nothing adds up to zero. *)
THEOREM SumEmpty == ASSUME NEW w PROVE SumFunctionOnSet(w, {}) = 0
<1>1. IsFiniteSet({}) /\ Weights(w, {})
  BY FS_EmptySet DEF Weights
<1>2. PICK g : SumsOfParts(g, w, {})
  BY <1>1, SumOfParts
<1>. QED BY <1>2 DEF SumsOfParts, IsSum, AddsUp

(* Integers add up to an integer. *)
THEOREM SumType ==
  ASSUME NEW S, IsFiniteSet(S), NEW w, Weights(w, S)
  PROVE  SumFunctionOnSet(w, S) \in Int
<1>1. PICK g : SumsOfParts(g, w, S)
  BY SumOfParts
<1>. QED BY <1>1 DEF SumsOfParts, IsSum

(* A sum does not depend on the order in which it is taken: whichever element is taken
   out, what is left adds up to the rest. *)
THEOREM SumRemove ==
  ASSUME NEW S, IsFiniteSet(S), NEW w, Weights(w, S), NEW x \in S
  PROVE  SumFunctionOnSet(w, S) = w[x] + SumFunctionOnSet(w, S \ {x})
<1>1. PICK g : SumsOfParts(g, w, S)
  BY SumOfParts
<1> DEFINE Free(s) == \A y \in s : g[s] = w[y] + g[s \ {y}]
           D == {n \in Nat : \A s \in SUBSET S : Cardinality(s) = n => Free(s)}
<1>2. \A s \in SUBSET S : /\ IsFiniteSet(s) /\ Cardinality(s) \in Nat
                          /\ g[s] \in Int
                          /\ \A y \in s : w[y] \in Int
  BY <1>1, FS_Subset, FS_CardinalityType DEF Weights, SumsOfParts, IsSum
<1>3. \A s \in SUBSET S : s # {} => g[s] = w[First(s)] + g[s \ {First(s)}]
  BY <1>1 DEF SumsOfParts, IsSum, AddsUp
<1>4. 0 \in D
  BY <1>2, FS_EmptySet
<1>5. ASSUME NEW n \in D PROVE n + 1 \in D
  <2> HIDE DEF Free
  <2> SUFFICES ASSUME NEW s \in SUBSET S, Cardinality(s) = n + 1 PROVE Free(s)
    OBVIOUS
  <2> USE DEF Free
  <2> SUFFICES ASSUME NEW y \in s PROVE g[s] = w[y] + g[s \ {y}]
    OBVIOUS
  <2> DEFINE z == First(s)
  <2>1. z \in s
    BY FirstIn
  <2>2. g[s] = w[z] + g[s \ {z}]
    BY <1>3
  <2> HIDE DEF z
  <2>3. CASE y # z
    <3>1. Cardinality(s \ {y}) = n /\ Cardinality(s \ {z}) = n
      <4>1. Cardinality(s \ {y}) = Cardinality(s) - 1 /\ Cardinality(s \ {z}) = Cardinality(s) - 1
        BY <1>2, <2>1, FS_RemoveElement
      <4>. QED BY <4>1
    <3>2. Free(s \ {y}) /\ Free(s \ {z})
      BY <3>1
    <3>3. g[s \ {y}] = w[z] + g[(s \ {y}) \ {z}] /\ g[s \ {z}] = w[y] + g[(s \ {z}) \ {y}]
      BY <2>1, <2>3, <3>2
    <3>4. (s \ {y}) \ {z} = (s \ {z}) \ {y}
      OBVIOUS
    <3>5. w[y] \in Int /\ w[z] \in Int /\ g[(s \ {z}) \ {y}] \in Int
      BY <1>2, <2>1
    <3> DEFINE rest == g[(s \ {z}) \ {y}]
    <3>6. g[s] = w[z] + (w[y] + rest) /\ g[s \ {y}] = w[z] + rest
      BY <2>2, <3>3, <3>4
    <3>7. rest \in Int
      BY <3>5
    <3> HIDE DEF rest, D
    <3>. QED BY <3>5, <3>6, <3>7
  <2>. QED BY <2>2, <2>3
<1>6. D = Nat
  <2>1. D \in SUBSET Nat
    OBVIOUS
  <2> HIDE DEF D
  <2>. QED BY <1>4, <1>5, <2>1, NaturalsBySuccessor
<1>7. Cardinality(S) \in D
  BY <1>2, <1>6
<1>8. Free(S)
  BY <1>7
<1>. QED BY <1>1, <1>8 DEF SumsOfParts

(* An element more adds its weight. *)
THEOREM SumAdd ==
  ASSUME NEW S, IsFiniteSet(S), NEW w, NEW x, x \notin S, Weights(w, S \cup {x})
  PROVE  SumFunctionOnSet(w, S \cup {x}) = w[x] + SumFunctionOnSet(w, S)
<1>1. IsFiniteSet(S \cup {x}) /\ (S \cup {x}) \ {x} = S
  BY FS_AddElement
<1>. QED BY <1>1, SumRemove

-----------------------------------------------------------------------------
(* Comparing sums *)

(* Lighter elements, a smaller sum; and with the same weights the same sum. *)
THEOREM SumCompare ==
  ASSUME NEW S, IsFiniteSet(S), NEW v, NEW w, Weights(v, S), Weights(w, S),
         \A x \in S : v[x] <= w[x]
  PROVE  SumFunctionOnSet(v, S) <= SumFunctionOnSet(w, S)
<1> DEFINE F == {T \in SUBSET S : SumFunctionOnSet(v, T) <= SumFunctionOnSet(w, T)}
<1>1. {} \in F
  BY SumEmpty
<1>2. ASSUME NEW T \in F, NEW x \in S \ T PROVE T \cup {x} \in F
  <2>1. IsFiniteSet(T) /\ Weights(v, T) /\ Weights(w, T)
        /\ Weights(v, T \cup {x}) /\ Weights(w, T \cup {x}) /\ x \notin T
    BY FS_Subset DEF Weights
  <2>2. /\ SumFunctionOnSet(v, T \cup {x}) = v[x] + SumFunctionOnSet(v, T)
        /\ SumFunctionOnSet(w, T \cup {x}) = w[x] + SumFunctionOnSet(w, T)
    BY <2>1, SumAdd
  <2>3. SumFunctionOnSet(v, T) \in Int /\ SumFunctionOnSet(w, T) \in Int
    BY <2>1, SumType
  <2>4. v[x] \in Int /\ w[x] \in Int /\ v[x] <= w[x]
    BY DEF Weights
  <2>. QED BY <2>2, <2>3, <2>4
<1>3. F \in SUBSET SUBSET S
  OBVIOUS
<1>4. S \in F
  <2> HIDE DEF F
  <2>. QED BY <1>1, <1>2, <1>3, SubsetsByElement
<1>. QED BY <1>4

(* The same weights add up to the same. *)
THEOREM SumEqual ==
  ASSUME NEW S, IsFiniteSet(S), NEW v, NEW w, Weights(v, S), Weights(w, S),
         \A x \in S : v[x] = w[x]
  PROVE  SumFunctionOnSet(v, S) = SumFunctionOnSet(w, S)
<1>1. \A x \in S : v[x] <= w[x] /\ w[x] <= v[x]
  BY DEF Weights
<1>2. /\ SumFunctionOnSet(v, S) <= SumFunctionOnSet(w, S)
      /\ SumFunctionOnSet(w, S) <= SumFunctionOnSet(v, S)
  BY <1>1, SumCompare
<1>. QED BY <1>2, SumType

(* The weights of the elements that are left out do not count if they are zero; so a
   sum of zeros is zero. *)
THEOREM SumZero ==
  ASSUME NEW S, IsFiniteSet(S), NEW w, \A x \in S : w[x] = 0
  PROVE  SumFunctionOnSet(w, S) = 0
<1> DEFINE F == {T \in SUBSET S : SumFunctionOnSet(w, T) = 0}
<1>1. {} \in F
  BY SumEmpty
<1>2. ASSUME NEW T \in F, NEW x \in S \ T PROVE T \cup {x} \in F
  <2>1. IsFiniteSet(T) /\ Weights(w, T \cup {x}) /\ x \notin T
    BY FS_Subset DEF Weights
  <2>2. SumFunctionOnSet(w, T \cup {x}) = w[x] + SumFunctionOnSet(w, T)
    BY <2>1, SumAdd
  <2>. QED BY <2>2
<1>3. F \in SUBSET SUBSET S
  OBVIOUS
<1>4. S \in F
  <2> HIDE DEF F
  <2>. QED BY <1>1, <1>2, <1>3, SubsetsByElement
<1>. QED BY <1>4

(* Elements with counterparts of their own that are no lighter, among elements with
   natural weights, add up to no more. *)
THEOREM SumInjection ==
  ASSUME NEW S, NEW T, IsFiniteSet(S), IsFiniteSet(T), NEW v, NEW w,
         Weights(v, S), \A y \in T : w[y] \in Nat,
         NEW f \in Injection(S, T), \A x \in S : v[x] <= w[f[x]]
  PROVE  SumFunctionOnSet(v, S) <= SumFunctionOnSet(w, T)
<1>1. /\ f \in [S -> T]
      /\ \A x, y \in S : f[x] = f[y] => x = y
  BY DEF Injection, IsInjective
<1> DEFINE Image(U) == {f[x] : x \in U}
           F == {U \in SUBSET S :
                   \A V \in SUBSET T :
                      Image(U) \subseteq V =>
                        SumFunctionOnSet(v, U) <= SumFunctionOnSet(w, V)}
<1>2. \A V \in SUBSET T : /\ IsFiniteSet(V) /\ Weights(w, V)
                          /\ SumFunctionOnSet(w, V) \in Int
  <2>1. \A V \in SUBSET T : IsFiniteSet(V) /\ Weights(w, V)
    BY FS_Subset DEF Weights
  <2>. QED BY <2>1, SumType
<1>3. {} \in F
  <2> SUFFICES ASSUME NEW V \in SUBSET T PROVE 0 <= SumFunctionOnSet(w, V)
    BY SumEmpty
  <2> DEFINE zero == [y \in V |-> 0]
  <2>1. Weights(zero, V) /\ \A y \in V : zero[y] <= w[y]
    BY DEF Weights
  <2>2. SumFunctionOnSet(zero, V) = 0
    BY <1>2, SumZero
  <2>3. SumFunctionOnSet(zero, V) <= SumFunctionOnSet(w, V)
    <3> HIDE DEF zero
    <3>. QED BY <1>2, <2>1, SumCompare
  <2>. QED BY <2>2, <2>3
<1>4. ASSUME NEW U \in F, NEW x \in S \ U PROVE U \cup {x} \in F
  <2> SUFFICES ASSUME NEW V \in SUBSET T, Image(U \cup {x}) \subseteq V
               PROVE  SumFunctionOnSet(v, U \cup {x}) <= SumFunctionOnSet(w, V)
    OBVIOUS
  <2>1. f[x] \in V /\ Image(U) \subseteq V \ {f[x]}
    BY <1>1
  <2>2. SumFunctionOnSet(v, U) <= SumFunctionOnSet(w, V \ {f[x]})
    BY <2>1
  <2>3. /\ IsFiniteSet(U) /\ Weights(v, U) /\ Weights(v, U \cup {x}) /\ x \notin U
    BY FS_Subset DEF Weights
  <2>4. SumFunctionOnSet(v, U \cup {x}) = v[x] + SumFunctionOnSet(v, U)
    BY <2>3, SumAdd
  <2>5. SumFunctionOnSet(w, V) = w[f[x]] + SumFunctionOnSet(w, V \ {f[x]})
    BY <1>2, <2>1, SumRemove
  <2>6. SumFunctionOnSet(v, U) \in Int /\ SumFunctionOnSet(w, V \ {f[x]}) \in Int
    BY <1>2, <2>3, SumType
  <2>7. v[x] \in Int /\ w[f[x]] \in Int /\ v[x] <= w[f[x]]
    BY <1>1 DEF Weights
  <2>. QED BY <2>2, <2>4, <2>5, <2>6, <2>7
<1>5. F \in SUBSET SUBSET S
  OBVIOUS
<1>6. S \in F
  <2> HIDE DEF F
  <2>. QED BY <1>3, <1>4, <1>5, SubsetsByElement
<1>7. Image(S) \subseteq T
  BY <1>1
<1>. QED BY <1>6, <1>7

(* A part adds up to no more than the whole, if weights are naturals. *)
COROLLARY SumOfSubset ==
  ASSUME NEW T, IsFiniteSet(T), NEW S \in SUBSET T, NEW w, \A y \in T : w[y] \in Nat
  PROVE  0 <= SumFunctionOnSet(w, S) /\ SumFunctionOnSet(w, S) <= SumFunctionOnSet(w, T)
<1>1. IsFiniteSet(S) /\ Weights(w, S) /\ (\A y \in S : w[y] \in Nat)
  BY FS_Subset DEF Weights
<1> DEFINE id == [x \in S |-> x]
           none == [x \in {} |-> x]
<1>2. id \in Injection(S, T) /\ \A x \in S : w[x] <= w[id[x]]
  BY DEF Injection, IsInjective
<1>3. none \in Injection({}, S)
  BY DEF Injection, IsInjective
<1>4. IsFiniteSet({}) /\ Weights(w, {}) /\ SumFunctionOnSet(w, {}) = 0
  BY FS_EmptySet, SumEmpty DEF Weights
<1> HIDE DEF id, none
<1>5. SumFunctionOnSet(w, S) <= SumFunctionOnSet(w, T)
  BY <1>1, <1>2, SumInjection
<1>6. SumFunctionOnSet(w, {}) <= SumFunctionOnSet(w, S)
  BY <1>1, <1>3, <1>4, SumInjection
<1>. QED BY <1>4, <1>5, <1>6

-----------------------------------------------------------------------------
(* Rearranging sums *)

(* The sum of sums. *)
THEOREM SumPlus ==
  ASSUME NEW S, IsFiniteSet(S), NEW u, NEW v, NEW w, Weights(v, S), Weights(w, S),
         \A x \in S : u[x] = v[x] + w[x]
  PROVE  SumFunctionOnSet(u, S) = SumFunctionOnSet(v, S) + SumFunctionOnSet(w, S)
<1> DEFINE F == {T \in SUBSET S : SumFunctionOnSet(u, T) =
                                    SumFunctionOnSet(v, T) + SumFunctionOnSet(w, T)}
<1>1. {} \in F
  BY SumEmpty
<1>2. ASSUME NEW T \in F, NEW x \in S \ T PROVE T \cup {x} \in F
  <2>1. /\ IsFiniteSet(T) /\ x \notin T
        /\ Weights(u, T) /\ Weights(v, T) /\ Weights(w, T)
        /\ Weights(u, T \cup {x}) /\ Weights(v, T \cup {x}) /\ Weights(w, T \cup {x})
    BY FS_Subset DEF Weights
  <2>2. /\ SumFunctionOnSet(u, T \cup {x}) = u[x] + SumFunctionOnSet(u, T)
        /\ SumFunctionOnSet(v, T \cup {x}) = v[x] + SumFunctionOnSet(v, T)
        /\ SumFunctionOnSet(w, T \cup {x}) = w[x] + SumFunctionOnSet(w, T)
    BY <2>1, SumAdd
  <2>3. SumFunctionOnSet(v, T) \in Int /\ SumFunctionOnSet(w, T) \in Int
    BY <2>1, SumType
  <2>4. v[x] \in Int /\ w[x] \in Int /\ u[x] = v[x] + w[x]
    BY DEF Weights
  <2>. QED BY <2>2, <2>3, <2>4
<1>3. F \in SUBSET SUBSET S
  OBVIOUS
<1>4. S \in F
  <2> HIDE DEF F
  <2>. QED BY <1>1, <1>2, <1>3, SubsetsByElement
<1>. QED BY <1>4

(* A common factor. *)
THEOREM SumScale ==
  ASSUME NEW S, IsFiniteSet(S), NEW c \in Int, NEW v, NEW w, Weights(w, S),
         \A x \in S : v[x] = c * w[x]
  PROVE  SumFunctionOnSet(v, S) = c * SumFunctionOnSet(w, S)
<1> DEFINE F == {T \in SUBSET S : SumFunctionOnSet(v, T) = c * SumFunctionOnSet(w, T)}
<1>1. {} \in F
  BY SumEmpty
<1>2. ASSUME NEW T \in F, NEW x \in S \ T PROVE T \cup {x} \in F
  <2>1. /\ IsFiniteSet(T) /\ x \notin T
        /\ Weights(v, T) /\ Weights(w, T) /\ Weights(v, T \cup {x}) /\ Weights(w, T \cup {x})
    BY FS_Subset DEF Weights
  <2>2. /\ SumFunctionOnSet(v, T \cup {x}) = v[x] + SumFunctionOnSet(v, T)
        /\ SumFunctionOnSet(w, T \cup {x}) = w[x] + SumFunctionOnSet(w, T)
    BY <2>1, SumAdd
  <2>3. SumFunctionOnSet(w, T) \in Int /\ w[x] \in Int /\ v[x] = c * w[x]
    BY <2>1, SumType DEF Weights
  <2>4. c * (w[x] + SumFunctionOnSet(w, T)) = c * w[x] + c * SumFunctionOnSet(w, T)
    BY <2>3
  <2>. QED BY <2>2, <2>3, <2>4
<1>3. F \in SUBSET SUBSET S
  OBVIOUS
<1>4. S \in F
  <2> HIDE DEF F
  <2>. QED BY <1>1, <1>2, <1>3, SubsetsByElement
<1>. QED BY <1>4

(* A sum over the elements of one set is that over their counterparts in another. *)
THEOREM SumBijection ==
  ASSUME NEW S, NEW T, IsFiniteSet(S), IsFiniteSet(T), NEW v, NEW w, Weights(w, T),
         NEW f \in Bijection(S, T), \A x \in S : v[x] = w[f[x]]
  PROVE  SumFunctionOnSet(v, S) = SumFunctionOnSet(w, T)
<1>1. /\ f \in [S -> T]
      /\ \A x, y \in S : f[x] = f[y] => x = y
      /\ \A y \in T : \E x \in S : f[x] = y
  BY DEF Bijection, Injection, Surjection, IsInjective
<1> DEFINE Image(U) == {f[x] : x \in U}
           F == {U \in SUBSET S : SumFunctionOnSet(v, U) = SumFunctionOnSet(w, Image(U))}
<1>2. {} \in F
  BY SumEmpty
<1>3. ASSUME NEW U \in F, NEW x \in S \ U PROVE U \cup {x} \in F
  <2>1. /\ f[x] \notin Image(U) /\ Image(U \cup {x}) = Image(U) \cup {f[x]}
        /\ Image(U) \in SUBSET T /\ f[x] \in T
    BY <1>1
  <2> HIDE DEF Image
  <2>2. /\ IsFiniteSet(U) /\ Weights(v, U \cup {x}) /\ x \notin U
        /\ IsFiniteSet(Image(U)) /\ Weights(w, Image(U) \cup {f[x]})
    BY <1>1, <2>1, FS_Subset DEF Weights
  <2>3. /\ SumFunctionOnSet(v, U \cup {x}) = v[x] + SumFunctionOnSet(v, U)
        /\ SumFunctionOnSet(w, Image(U) \cup {f[x]}) = w[f[x]] + SumFunctionOnSet(w, Image(U))
    BY <2>1, <2>2, SumAdd
  <2>. QED BY <2>1, <2>3
<1>4. F \in SUBSET SUBSET S
  OBVIOUS
<1>5. S \in F
  <2> HIDE DEF F
  <2>. QED BY <1>2, <1>3, <1>4, SubsetsByElement
<1>6. Image(S) = T
  BY <1>1
<1>. QED BY <1>5, <1>6

(* Ones count. *)
THEOREM SumOnes ==
  ASSUME NEW S, IsFiniteSet(S), NEW w, \A x \in S : w[x] \in {0, 1}
  PROVE  SumFunctionOnSet(w, S) = Cardinality({x \in S : w[x] = 1})
<1> DEFINE Ones(T) == {x \in T : w[x] = 1}
           F == {T \in SUBSET S : SumFunctionOnSet(w, T) = Cardinality(Ones(T))}
<1>1. {} \in F
  BY SumEmpty, FS_EmptySet
<1>2. ASSUME NEW T \in F, NEW x \in S \ T PROVE T \cup {x} \in F
  <2>1. /\ IsFiniteSet(T) /\ x \notin T /\ Weights(w, T \cup {x})
        /\ IsFiniteSet(Ones(T)) /\ x \notin Ones(T) /\ Cardinality(Ones(T)) \in Nat
    BY FS_Subset, FS_CardinalityType DEF Weights
  <2>2. SumFunctionOnSet(w, T \cup {x}) = w[x] + SumFunctionOnSet(w, T)
    BY <2>1, SumAdd
  <2>3. CASE w[x] = 1
    <3>1. Ones(T \cup {x}) = Ones(T) \cup {x}
      BY <2>3
    <3>2. Cardinality(Ones(T) \cup {x}) = Cardinality(Ones(T)) + 1
      <4> HIDE DEF Ones
      <4>. QED BY <2>1, FS_AddElement
    <3>3. SumFunctionOnSet(w, T \cup {x}) = Cardinality(Ones(T \cup {x}))
      <4>1. SumFunctionOnSet(w, T) = Cardinality(Ones(T))
        OBVIOUS
      <4> HIDE DEF Ones, F
      <4>2. SumFunctionOnSet(w, T \cup {x}) = 1 + Cardinality(Ones(T))
        BY <2>2, <2>3, <4>1
      <4>. QED BY <2>1, <3>1, <3>2, <4>2
    <3>. QED BY <3>3
  <2>4. CASE w[x] = 0
    <3>1. Ones(T \cup {x}) = Ones(T)
      BY <2>4
    <3>2. SumFunctionOnSet(w, T) = Cardinality(Ones(T))
      OBVIOUS
    <3>3. SumFunctionOnSet(w, T \cup {x}) = Cardinality(Ones(T \cup {x}))
      <4> HIDE DEF Ones
      <4>. QED BY <2>1, <2>2, <2>4, <3>1, <3>2
    <3>. QED BY <3>3
  <2>. QED BY <2>3, <2>4
<1>3. F \in SUBSET SUBSET S
  OBVIOUS
<1>4. S \in F
  <2> HIDE DEF F
  <2>. QED BY <1>1, <1>2, <1>3, SubsetsByElement
<1>. QED BY <1>4
=============================================================================
