--------------------------------- MODULE Sums ---------------------------------
(***************************************************************************)
(* Facts about sums over a finite set of rows, for the proofs about books  *)
(* that must add up: MapThenSumSet of FiniteSetsExt, which is a recursive  *)
(* function on subsets.  Induction is by a minimal counterexample, as      *)
(* strict inclusion of finite sets is well founded.                        *)
(***************************************************************************)
EXTENDS Integers, FiniteSets, FiniteSetsExt, Functions,
        FiniteSetTheorems, WellFoundedInduction, TLAPS

\* The sum of f over S.
SumOf(f, S) == MapThenSumSet(LAMBDA x : f[x], S)

\* The element that the sum over s takes first.
FirstOf(s) == CHOOSE x \in s : TRUE
\* The sum over s, where g has the sums over smaller sets.
PartialSum(f, g, s) == IF s = {} THEN 0 ELSE f[FirstOf(s)] + g[s \ {FirstOf(s)}]
\* g is the function that MapThenFoldSet defines on the subsets of S.
AreSums(f, g, S) == g = [s \in SUBSET S |-> PartialSum(f, g, s)]
\* The one it chooses.
SumsOver(f, S) == CHOOSE g : AreSums(f, g, S)

\* MapThenSumSet is the value of that function at S.
LEMMA Unfold == ASSUME NEW f, NEW S PROVE SumOf(f, S) = SumsOver(f, S)[S]
BY DEF SumOf, MapThenSumSet, MapThenFoldSet, SumsOver, AreSums, PartialSum, FirstOf

\* A set of subsets of a finite set has a minimal member.
LEMMA MinimalSubset ==
  ASSUME NEW S, IsFiniteSet(S), NEW B \in SUBSET SUBSET S, B # {}
  PROVE \E T \in B : \A U \in SUBSET T : U \in B => U = T
<1>1. B \subseteq FiniteSubsetsOf(S)
  BY FS_Subset DEF FiniteSubsetsOf
<1>2. PICK T \in B : \A U \in B : ~(<<U, T>> \in StrictSubsetOrdering(S))
  BY <1>1, FS_StrictSubsetOrderingWellFounded, WFMin
<1>3. \A U \in SUBSET T : U \in B => U = T
  BY <1>2 DEF StrictSubsetOrdering
<1> QED BY <1>3

\* The first element of a set is one of it.
LEMMA FirstIsIn == ASSUME NEW s, s # {} PROVE FirstOf(s) \in s
BY DEF FirstOf

\* The sums over the subsets of T are the same, whatever set T is part of.
LEMMA OneSum ==
  ASSUME NEW S, IsFiniteSet(S), NEW T \in SUBSET S, NEW f, NEW g, NEW h,
         AreSums(f, g, S), AreSums(f, h, T)
  PROVE  \A U \in SUBSET T : g[U] = h[U]
<1> DEFINE B == {U \in SUBSET T : g[U] # h[U]}
<1> SUFFICES ASSUME B # {} PROVE FALSE
  OBVIOUS
<1>1. IsFiniteSet(T)
  BY FS_Subset
<1>2. PICK U \in B : \A V \in SUBSET U : V \in B => V = U
  <2> HIDE DEF B
  <2>1. B \in SUBSET SUBSET T BY DEF B
  <2> QED BY <2>1, <1>1, MinimalSubset
<1>3. /\ U \in SUBSET T /\ U \in SUBSET S /\ g[U] # h[U]
      /\ g[U] = PartialSum(f, g, U) /\ h[U] = PartialSum(f, h, U)
  BY DEF AreSums
<1>4. U # {} BY <1>3 DEF PartialSum
<1>5. FirstOf(U) \in U BY <1>4, FirstIsIn
<1>6. g[U \ {FirstOf(U)}] = h[U \ {FirstOf(U)}] BY <1>2, <1>5
<1> QED BY <1>3, <1>6 DEF PartialSum

\* On the subsets of a finite set the recursion defines a function.
LEMMA SumsExist ==
  ASSUME NEW S, IsFiniteSet(S), NEW f
  PROVE  \E g : AreSums(f, g, S)
<1> DEFINE B == {T \in SUBSET S : ~ \E g : AreSums(f, g, T)}
<1>1. CASE B = {}
  BY <1>1
<1>2. CASE B # {}
  <2>1. PICK T \in B : \A U \in SUBSET T : U \in B => U = T
    <3> HIDE DEF B
    <3>1. B \in SUBSET SUBSET S BY DEF B
    <3> QED BY <3>1, <1>2, MinimalSubset
  <2> DEFINE h(U) == SumsOver(f, U)[U]
             g == [s \in SUBSET T |-> IF s = {} THEN 0 ELSE f[FirstOf(s)] + h(s \ {FirstOf(s)})]
  <2>2. \A U \in SUBSET T : U # T => AreSums(f, SumsOver(f, U), U)
    BY <2>1 DEF SumsOver
  <2>3. ASSUME NEW U \in SUBSET T, U # T PROVE g[U] = h(U)
    <3>1. AreSums(f, SumsOver(f, U), U) BY <2>2, <2>3
    <3>2. h(U) = PartialSum(f, SumsOver(f, U), U) BY <3>1 DEF AreSums
    <3>3. CASE U = {}  BY <3>2, <3>3 DEF PartialSum
    <3>4. CASE U # {}
      <4> DEFINE V == U \ {FirstOf(U)}
      <4>1. V \in SUBSET U /\ V # T BY <3>4, FirstIsIn, <2>3
      <4>2. AreSums(f, SumsOver(f, V), V) BY <2>2, <4>1, <2>3
      <4>3. IsFiniteSet(U) BY FS_Subset
      <4>4. SumsOver(f, U)[V] = SumsOver(f, V)[V]
        <5> HIDE DEF V
        <5> QED BY <4>1, <4>2, <4>3, <3>1, OneSum
      <4> QED BY <4>4, <3>2, <3>4 DEF PartialSum
    <3> QED BY <3>3, <3>4
  <2>4. ASSUME NEW s \in SUBSET T PROVE g[s] = PartialSum(f, g, s)
    <3>1. CASE s = {} BY <3>1 DEF PartialSum
    <3>2. CASE s # {}
      <4>1. FirstOf(s) \in s BY <3>2, FirstIsIn
      <4>2. s \ {FirstOf(s)} \in SUBSET T /\ s \ {FirstOf(s)} # T BY <4>1, <2>4
      <4>3. g[s \ {FirstOf(s)}] = h(s \ {FirstOf(s)})
        <5> HIDE DEF g, h
        <5> QED BY <4>2, <2>3
      <4> QED BY <4>3, <3>2 DEF PartialSum
    <3> QED BY <3>1, <3>2
  <2>5. g = [s \in SUBSET T |-> PartialSum(f, g, s)]
    <3>1. g = [s \in SUBSET T |-> g[s]] OBVIOUS
    <3> HIDE DEF g
    <3>2. [s \in SUBSET T |-> g[s]] = [s \in SUBSET T |-> PartialSum(f, g, s)] BY <2>4
    <3> QED BY <3>1, <3>2
  <2>6. AreSums(f, g, T) BY <2>5 DEF AreSums
  <2> HIDE DEF g
  <2> QED BY <2>6, <2>1
<1> QED BY <1>1, <1>2

\* The recursion holds of the sum.
LEMMA SumUnfolds ==
  ASSUME NEW S, IsFiniteSet(S), NEW f
  PROVE  /\ SumOf(f, {}) = 0
         /\ S # {} => SumOf(f, S) = f[FirstOf(S)] + SumOf(f, S \ {FirstOf(S)})
<1>1. \A T \in SUBSET S : AreSums(f, SumsOver(f, T), T)
  BY SumsExist, FS_Subset DEF SumsOver
<1>2. \A T \in SUBSET S : SumOf(f, T) = SumsOver(f, T)[T]
  BY Unfold
<1>3. SumOf(f, {}) = 0
  BY <1>1, <1>2 DEF AreSums, PartialSum
<1>4. ASSUME S # {} PROVE SumOf(f, S) = f[FirstOf(S)] + SumOf(f, S \ {FirstOf(S)})
  <2> DEFINE T == S \ {FirstOf(S)}
  <2>1. T \in SUBSET S OBVIOUS
  <2>2. AreSums(f, SumsOver(f, S), S) /\ AreSums(f, SumsOver(f, T), T) BY <1>1, <2>1
  <2>3. SumsOver(f, S)[T] = SumsOver(f, T)[T]
    <3> HIDE DEF T
    <3> QED BY <2>1, <2>2, OneSum
  <2>4. SumsOver(f, S)[S] = f[FirstOf(S)] + SumsOver(f, S)[T]
    BY <2>2, <1>4 DEF AreSums, PartialSum
  <2> QED BY <2>3, <2>4, <1>2, <2>1
<1> QED BY <1>3, <1>4

\* A sum of integers is an integer.
LEMMA SumType ==
  ASSUME NEW S, IsFiniteSet(S), NEW f \in [S -> Int]
  PROVE  \A T \in SUBSET S : SumOf(f, T) \in Int
<1> DEFINE B == {T \in SUBSET S : SumOf(f, T) \notin Int}
<1> SUFFICES ASSUME B # {} PROVE FALSE OBVIOUS
<1>1. PICK T \in B : \A U \in SUBSET T : U \in B => U = T
    <3> HIDE DEF B
    <3>1. B \in SUBSET SUBSET S BY DEF B
    <3> QED BY <3>1, MinimalSubset
<1>2. IsFiniteSet(T) BY FS_Subset
<1>3. T # {}
  <2>1. SumOf(f, T) \notin Int BY <1>1
  <2>2. SumOf(f, {}) = 0 BY SumUnfolds
  <2> HIDE DEF B
  <2> QED BY <2>1, <2>2
<1>4. FirstOf(T) \in T BY <1>3, FirstIsIn
<1>5. SumOf(f, T \ {FirstOf(T)}) \in Int BY <1>4, <1>1
<1>6. SumOf(f, T) = f[FirstOf(T)] + SumOf(f, T \ {FirstOf(T)}) BY <1>2, <1>3, SumUnfolds
<1>7. f[FirstOf(T)] \in Int BY <1>4
<1> QED BY <1>5, <1>6, <1>7

\* Any element may be added first: the order does not matter.
LEMMA SumTakesOut ==
  ASSUME NEW S, IsFiniteSet(S), NEW f \in [S -> Int]
  PROVE  \A T \in SUBSET S : \A x \in T : SumOf(f, T) = f[x] + SumOf(f, T \ {x})
<1> DEFINE B == {T \in SUBSET S : ~ \A x \in T : SumOf(f, T) = f[x] + SumOf(f, T \ {x})}
<1> SUFFICES ASSUME B # {} PROVE FALSE OBVIOUS
<1>1. PICK T \in B : \A U \in SUBSET T : U \in B => U = T
    <3> HIDE DEF B
    <3>1. B \in SUBSET SUBSET S BY DEF B
    <3> QED BY <3>1, MinimalSubset
<1>2. PICK x \in T : SumOf(f, T) # f[x] + SumOf(f, T \ {x}) OBVIOUS
<1>3. IsFiniteSet(T) /\ IsFiniteSet(T \ {x}) /\ IsFiniteSet(T \ {FirstOf(T)}) BY FS_Subset
<1> DEFINE p == FirstOf(T)
<1>4. p \in T BY <1>2, FirstIsIn
<1>5. SumOf(f, T) = f[p] + SumOf(f, T \ {p}) BY <1>2, <1>3, SumUnfolds
<1>6. p # x BY <1>5, <1>2
<1> HIDE DEF p
<1>7. SumOf(f, T \ {p}) = f[x] + SumOf(f, (T \ {p}) \ {x})
  BY <1>1, <1>4, <1>6
<1>8. SumOf(f, T \ {x}) = f[p] + SumOf(f, (T \ {x}) \ {p})
  BY <1>1, <1>4, <1>6
<1>9. (T \ {p}) \ {x} = (T \ {x}) \ {p} OBVIOUS
<1>10. SumOf(f, (T \ {x}) \ {p}) \in Int /\ f[p] \in Int /\ f[x] \in Int
  BY SumType, <1>4
<1>11. SumOf(f, T) = f[p] + (f[x] + SumOf(f, (T \ {x}) \ {p}))
  BY <1>5, <1>7, <1>9
<1>12. SumOf(f, T) = f[x] + (f[p] + SumOf(f, (T \ {x}) \ {p}))
  <2> DEFINE z == SumOf(f, (T \ {x}) \ {p})
  <2>1. z \in Int BY <1>10
  <2> HIDE DEF z
  <2> QED BY <1>11, <1>10, <2>1
<1> QED BY <1>12, <1>8, <1>2

\* The sum depends on the values at the elements only.
LEMMA SumSame ==
  ASSUME NEW S, IsFiniteSet(S), NEW f, NEW g, \A x \in S : f[x] = g[x]
  PROVE  SumOf(f, S) = SumOf(g, S)
<1>1. \A h, s : s \in SUBSET S => PartialSum(f, h, s) = PartialSum(g, h, s)
  BY FirstIsIn DEF PartialSum
<1>2. \A h : [s \in SUBSET S |-> PartialSum(f, h, s)] = [s \in SUBSET S |-> PartialSum(g, h, s)]
  BY <1>1
<1>3. AreSums(f, SumsOver(f, S), S) /\ AreSums(g, SumsOver(g, S), S)
  BY SumsExist DEF SumsOver
<1>4. AreSums(g, SumsOver(f, S), S)
  BY <1>3, <1>2 DEF AreSums
<1>5. SumsOver(f, S)[S] = SumsOver(g, S)[S]
  BY <1>3, <1>4, OneSum
<1> QED BY <1>5, Unfold

\* When one value changes, the sum changes with it.
LEMMA SumChanges ==
  ASSUME NEW S, IsFiniteSet(S), NEW f \in [S -> Int], NEW g \in [S -> Int], NEW x \in S,
         \A y \in S \ {x} : f[y] = g[y]
  PROVE  SumOf(g, S) = SumOf(f, S) - f[x] + g[x]
<1> DEFINE T == S \ {x}
<1>1. IsFiniteSet(T) /\ T \in SUBSET S /\ S \in SUBSET S BY FS_Subset
<1>2. SumOf(f, S) = f[x] + SumOf(f, T) /\ SumOf(g, S) = g[x] + SumOf(g, T)
  BY SumTakesOut, <1>1
<1>3. SumOf(f, T) \in Int BY SumType, <1>1
<1>4. SumOf(f, T) = SumOf(g, T)
  BY <1>1, SumSame
<1>5. f[x] \in Int /\ g[x] \in Int OBVIOUS
<1> HIDE DEF T
<1> QED BY <1>2, <1>3, <1>4, <1>5

\* Sums over disjoint sets add up.
LEMMA SumOfUnion ==
  ASSUME NEW S, IsFiniteSet(S), NEW f \in [S -> Int],
         NEW U \in SUBSET S, NEW V \in SUBSET S, U \cap V = {}
  PROVE  SumOf(f, U \cup V) = SumOf(f, U) + SumOf(f, V)
<1> DEFINE B == {W \in SUBSET U : SumOf(f, W \cup V) # SumOf(f, W) + SumOf(f, V)}
<1>1. IsFiniteSet(U) BY FS_Subset
<1>2. ASSUME B # {} PROVE FALSE
  <2>1. PICK W \in B : \A X \in SUBSET W : X \in B => X = W
    <3> HIDE DEF B
    <3>1. B \in SUBSET SUBSET U BY DEF B
    <3> QED BY <3>1, <1>1, <1>2, MinimalSubset
  <2>2. SumOf(f, V) \in Int BY SumType
  <2>3. W # {}
    <3>1. SumOf(f, W \cup V) # SumOf(f, W) + SumOf(f, V) BY <2>1
    <3> SUFFICES ASSUME W = {} PROVE FALSE OBVIOUS
    <3>2. W \cup V = V /\ SumOf(f, W) = 0 BY SumUnfolds
    <3> QED BY <3>1, <3>2, <2>2
  <2>4. PICK x \in W : TRUE BY <2>3
  <2> DEFINE X == W \ {x}
  <2>5. SumOf(f, X \cup V) = SumOf(f, X) + SumOf(f, V) BY <2>1
  <2>6. SumOf(f, W) = f[x] + SumOf(f, X) /\ SumOf(f, X) \in Int
    BY SumTakesOut, SumType
  <2>7. SumOf(f, W \cup V) = f[x] + SumOf(f, (W \cup V) \ {x})
    BY SumTakesOut
  <2>8. (W \cup V) \ {x} = X \cup V OBVIOUS
  <2>9. f[x] \in Int /\ SumOf(f, W \cup V) # SumOf(f, W) + SumOf(f, V) BY <2>1
  <2> HIDE DEF X, B
  <2>10. SumOf(f, W \cup V) = f[x] + (SumOf(f, X) + SumOf(f, V))
    BY <2>5, <2>7, <2>8
  <2>11. f[x] + (SumOf(f, X) + SumOf(f, V)) = (f[x] + SumOf(f, X)) + SumOf(f, V)
    BY <2>2, <2>6, <2>9
  <2> QED BY <2>6, <2>9, <2>10, <2>11
<1> QED BY <1>2

\* Zeros add nothing.
LEMMA SumOfZeros ==
  ASSUME NEW S, IsFiniteSet(S), NEW f \in [S -> Int], NEW U \in SUBSET S,
         \A x \in U : f[x] = 0
  PROVE  SumOf(f, U) = 0
<1> DEFINE B == {W \in SUBSET U : SumOf(f, W) # 0}
<1>1. IsFiniteSet(U) BY FS_Subset
<1>2. ASSUME B # {} PROVE FALSE
  <2>1. PICK W \in B : \A X \in SUBSET W : X \in B => X = W
    <3> HIDE DEF B
    <3>1. B \in SUBSET SUBSET U BY DEF B
    <3> QED BY <3>1, <1>1, <1>2, MinimalSubset
  <2>2. SumOf(f, {}) = 0 BY SumUnfolds
  <2>3. W # {}
    <3>1. SumOf(f, W) # 0 BY <2>1
    <3> HIDE DEF B
    <3> QED BY <2>2, <3>1
  <2>7. PICK x \in W : TRUE BY <2>3
  <2>4. SumOf(f, W) = f[x] + SumOf(f, W \ {x}) BY SumTakesOut
  <2>5. SumOf(f, W \ {x}) = 0 BY <2>1
  <2>6. f[x] = 0 /\ SumOf(f, W) # 0 BY <2>1
  <2> QED BY <2>4, <2>5, <2>6
<1> QED BY <1>2

\* A sum may be taken over the other side of a bijection.
LEMMA SumOfImage ==
  ASSUME NEW F, IsFiniteSet(F), NEW T, IsFiniteSet(T), NEW o \in Bijection(F, T),
         NEW f \in [T -> Int]
  PROVE  SumOf([k \in F |-> f[o[k]]], F) = SumOf(f, T)
<1> DEFINE g == [k \in F |-> f[o[k]]]
           Of(W) == {o[k] : k \in W}
           B == {W \in SUBSET F : SumOf(g, W) # SumOf(f, Of(W))}
<1>1. /\ o \in [F -> T]
      /\ \A j, k \in F : o[j] = o[k] => j = k
      /\ T = {o[k] : k \in F}
  BY DEF Bijection, Injection, Surjection, IsInjective
<1>2. g \in [F -> Int] BY <1>1
<1>3. ASSUME B # {} PROVE FALSE
  <2>1. PICK W \in B : \A X \in SUBSET W : X \in B => X = W
    <3> HIDE DEF B
    <3>1. B \in SUBSET SUBSET F BY DEF B
    <3> QED BY <3>1, <1>3, MinimalSubset
  <2>2. W \in SUBSET F /\ SumOf(g, W) # SumOf(f, Of(W)) BY <2>1
  <2>3. \A X \in SUBSET W : X # W => SumOf(g, X) = SumOf(f, Of(X)) BY <2>1
  <2> HIDE DEF B, g
  <2>4. W # {}
    <3>1. SumOf(g, {}) = 0 /\ SumOf(f, {}) = 0 BY SumUnfolds
    <3>2. Of({}) = {} OBVIOUS
    <3> HIDE DEF Of
    <3> QED BY <3>1, <3>2, <2>2
  <2>5. PICK x \in W : TRUE BY <2>4
  <2> DEFINE X == W \ {x}
  <2>6. SumOf(g, W) = g[x] + SumOf(g, X) BY SumTakesOut, <1>2, <2>2
  <2>7. Of(W) \in SUBSET T /\ o[x] \in Of(W) BY <1>1, <2>2
  <2>8. SumOf(f, Of(W)) = f[o[x]] + SumOf(f, Of(W) \ {o[x]}) BY SumTakesOut, <2>7
  <2>9. Of(W) \ {o[x]} = Of(X) BY <1>1, <2>2
  <2>10. SumOf(g, X) = SumOf(f, Of(X)) BY <2>3
  <2>11. g[x] = f[o[x]] BY <2>2 DEF g
  <2> HIDE DEF X, Of
  <2> QED BY <2>2, <2>6, <2>8, <2>9, <2>10, <2>11
<1>4. SumOf(g, F) = SumOf(f, Of(F)) BY <1>3
<1>5. Of(F) = T BY <1>1
<1> HIDE DEF Of
<1> QED BY <1>4, <1>5

\* A sum over a part is one over the whole, of zeros outside the part.
LEMMA SumOfPart ==
  ASSUME NEW S, IsFiniteSet(S), NEW U \in SUBSET S, NEW f \in [S -> Int], NEW g \in [S -> Int],
         \A x \in U : g[x] = f[x], \A x \in S \ U : g[x] = 0
  PROVE  SumOf(f, U) = SumOf(g, S)
<1>1. IsFiniteSet(U) /\ S \ U \in SUBSET S /\ U \cup (S \ U) = S /\ U \cap (S \ U) = {}
  BY FS_Subset
<1>2. SumOf(g, U \cup (S \ U)) = SumOf(g, U) + SumOf(g, S \ U) BY <1>1, SumOfUnion
<1>3. SumOf(g, S \ U) = 0 BY <1>1, SumOfZeros
<1>4. SumOf(f, U) = SumOf(g, U)
  <2>1. \A x \in U : f[x] = g[x] OBVIOUS
  <2> QED BY <2>1, <1>1, SumSame
<1>5. SumOf(g, U) \in Int BY SumType
<1>6. SumOf(g, S) = SumOf(g, U) + SumOf(g, S \ U)
  <2>1. U \cup (S \ U) = S OBVIOUS
  <2> QED BY ONLY <2>1, <1>2
<1>7. SumOf(g, S) = SumOf(g, U)
  <2> QED BY ONLY <1>3, <1>5, <1>6
<1> QED BY <1>4, <1>7

(* A function that is 0 on a part sums to what is left without it.          *)
LEMMA SumWithout ==
  ASSUME NEW S, IsFiniteSet(S), NEW U \in SUBSET S, NEW f \in [S -> Int], NEW g \in [S -> Int],
         \A x \in U : g[x] = 0, \A x \in S \ U : g[x] = f[x]
  PROVE  SumOf(g, S) = SumOf(f, S) - SumOf(f, U)
<1> DEFINE V == S \ U
<1>1. V \in SUBSET S /\ U \cup V = S /\ U \cap V = {} /\ S \ V = U OBVIOUS
<1>2. (\A x \in V : g[x] = f[x]) /\ (\A x \in S \ V : g[x] = 0) OBVIOUS
<1> HIDE DEF V
<1>3. SumOf(f, V) = SumOf(g, S) BY <1>1, <1>2, SumOfPart
<1>4. SumOf(f, U \cup V) = SumOf(f, U) + SumOf(f, V) BY <1>1, SumOfUnion
<1>5. SumOf(f, U) \in Int /\ SumOf(f, V) \in Int BY <1>1, SumType
<1>6. SumOf(f, S) = SumOf(f, U) + SumOf(f, V)
  <2>1. U \cup V = S BY <1>1
  <2> QED BY ONLY <1>4, <2>1
<1> QED BY ONLY <1>3, <1>5, <1>6
===============================================================================
