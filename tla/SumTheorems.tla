---------------------------- MODULE SumTheorems ----------------------------
(***************************************************************************)
(* Sums of finitely many integers, SumFunctionOnSet(f, S) of the community *)
(* module Functions, which takes the elements of S in an order of its own. *)
(* The library states induction over finite sets for operators only; the   *)
(* proofs here use instead that a non-empty set of finite sets has a       *)
(* minimal element, which is a fact about sets.                            *)
(***************************************************************************)
EXTENDS Integers, FiniteSets, Functions, FiniteSetTheorems, WellFoundedInduction, TLAPS

Some(S) == CHOOSE x \in S : TRUE

\* The equation that the recursive function of a sum is defined by.
Solves(h, f, S) ==
    h = [T \in SUBSET S |-> IF T = {} THEN 0 ELSE f[Some(T)] + h[T \ {Some(T)}]]
Solution(f, S) == CHOOSE h : Solves(h, f, S)

LEMMA SumIsSolution ==
    ASSUME NEW f, NEW S
    PROVE  SumFunctionOnSet(f, S) = Solution(f, S)[S]
BY DEF SumFunctionOnSet, FoldFunctionOnSet, MapThenFoldSet, Solution, Solves, Some

\* Among finite sets, one without a proper subset in the collection.
LEMMA SmallestSet ==
    ASSUME NEW S, IsFiniteSet(S), NEW C, C \subseteq SUBSET S, C # {}
    PROVE  \E T \in C : \A U \in C : U \subseteq T => U = T
<1>1. IsWellFoundedOn(StrictSubsetOrdering(S), SUBSET S)
  BY FS_StrictSubsetOrderingWellFounded, FS_FiniteSubsetsOfFinite
<1>2. \E T \in C : \A U \in C : <<U, T>> \notin StrictSubsetOrdering(S)
  BY <1>1, WFMin
<1> QED BY <1>2 DEF StrictSubsetOrdering

LEMMA SomeIn == ASSUME NEW T, T # {} PROVE Some(T) \in T
BY DEF Some

LEMMA SolutionIsUnique ==
    ASSUME NEW S, IsFiniteSet(S), NEW f, NEW g, NEW h,
           Solves(g, f, S), Solves(h, f, S)
    PROVE  g = h
<1> DEFINE C == {T \in SUBSET S : g[T] # h[T]}
<1>1. ASSUME C # {} PROVE FALSE
  <2>1. PICK T \in C : \A U \in C : U \subseteq T => U = T
    <3>1. C \subseteq SUBSET S OBVIOUS
    <3> HIDE DEF C
    <3> QED BY <1>1, <3>1, SmallestSet
  <2>2. T # {} BY <2>1 DEF Solves
  <2>3. Some(T) \in T BY <2>2, SomeIn
  <2>4. T \ {Some(T)} \in SUBSET S /\ T \ {Some(T)} # T BY <2>1, <2>3
  <2>5. g[T \ {Some(T)}] = h[T \ {Some(T)}] BY <2>1, <2>4
  <2> QED BY <2>1, <2>2, <2>5 DEF Solves
<1>2. \A T \in SUBSET S : g[T] = h[T] BY <1>1
<1>3. DOMAIN g = SUBSET S /\ DOMAIN h = SUBSET S BY DEF Solves
<1> QED BY <1>2, <1>3 DEF Solves

LEMMA SolutionRestricts ==
    ASSUME NEW S, NEW f, NEW h, Solves(h, f, S), NEW T \in SUBSET S
    PROVE  Solves([U \in SUBSET T |-> h[U]], f, T)
<1> DEFINE g == [U \in SUBSET T |-> h[U]]
<1>1. \A U \in SUBSET T :
          g[U] = IF U = {} THEN 0 ELSE f[Some(U)] + g[U \ {Some(U)}]
  <2> TAKE U \in SUBSET T
  <2>1. U \in SUBSET S /\ U \ {Some(U)} \in SUBSET T OBVIOUS
  <2> QED BY <2>1 DEF Solves
<1> QED BY <1>1 DEF Solves

LEMMA SolutionExists ==
    ASSUME NEW S, IsFiniteSet(S), NEW f
    PROVE  Solves(Solution(f, S), f, S)
<1> DEFINE C == {T \in SUBSET S : ~ \E h : Solves(h, f, T)}
<1>1. ASSUME C # {} PROVE FALSE
  <2>1. PICK T \in C : \A U \in C : U \subseteq T => U = T
    <3>1. C \subseteq SUBSET S OBVIOUS
    <3> HIDE DEF C
    <3> QED BY <1>1, <3>1, SmallestSet
  <2> DEFINE Before(U) == U \in SUBSET T /\ U # T
             below(U) == Solution(f, U)[U]
             g == [U \in SUBSET T |->
                      IF U # T THEN below(U)
                      ELSE IF T = {} THEN 0 ELSE f[Some(T)] + below(T \ {Some(T)})]
  <2>2. ASSUME NEW U \in SUBSET T, U # T
        PROVE  Solves(Solution(f, U), f, U) /\ IsFiniteSet(U)
    <3>1. U \in SUBSET S BY <2>1
    <3>2. \E h : Solves(h, f, U) BY <2>1, <2>2, <3>1
    <3> QED BY <3>1, <3>2, FS_Subset DEF Solution
  <2>3. ASSUME NEW U \in SUBSET T, U # T, NEW V \in SUBSET U
        PROVE  Solution(f, U)[V] = below(V)
    <3>1. Solves(Solution(f, U), f, U) BY <2>2, <2>3
    <3>2. V \in SUBSET T /\ V # T BY <2>3
    <3>3. Solves(Solution(f, V), f, V) /\ IsFiniteSet(V) BY <2>2, <3>2
    <3>4. Solves([W \in SUBSET V |-> Solution(f, U)[W]], f, V)
      BY <3>1, SolutionRestricts
    <3>5. Solution(f, V) = [W \in SUBSET V |-> Solution(f, U)[W]]
      BY <3>3, <3>4, SolutionIsUnique
    <3> QED BY <3>5
  <2>4. \A U \in SUBSET T :
            g[U] = IF U = {} THEN 0 ELSE f[Some(U)] + g[U \ {Some(U)}]
    <3> TAKE U \in SUBSET T
    <3>1. CASE U = {}
      <4>1. CASE T = {} BY <3>1, <4>1
      <4>2. CASE T # {}
        <5>1. Solution(f, U)[U] = 0 BY <3>1, <4>2, <2>2 DEF Solves
        <5> QED BY <3>1, <4>2, <5>1
      <4> QED BY <4>1, <4>2
    <3>2. CASE U # {}
      <4>1. Some(U) \in U BY <3>2, SomeIn
      <4>2. U \ {Some(U)} \in SUBSET T /\ U \ {Some(U)} # T BY <4>1
      <4>3. g[U \ {Some(U)}] = below(U \ {Some(U)}) BY <4>2
      <4>4. CASE U = T BY <3>2, <4>3, <4>4
      <4>5. CASE U # T
        <5>1. below(U) = f[Some(U)] + Solution(f, U)[U \ {Some(U)}]
          BY <3>2, <4>5, <2>2 DEF Solves
        <5>2. Solution(f, U)[U \ {Some(U)}] = below(U \ {Some(U)}) BY <2>3, <4>5
        <5> QED BY <3>2, <4>3, <4>5, <5>1, <5>2
      <4> QED BY <4>4, <4>5
    <3> QED BY <3>1, <3>2
  <2>5. Solves(g, f, T)
    <3>1. g = [U \in SUBSET T |-> g[U]] OBVIOUS
    <3> HIDE DEF g
    <3> QED BY <2>4, <3>1 DEF Solves
  <2> QED BY <2>1, <2>5
<1>2. \E h : Solves(h, f, S) BY <1>1
<1> QED BY <1>2 DEF Solution

-----------------------------------------------------------------------------
(***************************************************************************)
(* What sums are used for.                                                 *)
(***************************************************************************)
LEMMA SumOfNone == ASSUME NEW f PROVE SumFunctionOnSet(f, {}) = 0
<1>1. Solves(Solution(f, {}), f, {}) BY SolutionExists, FS_EmptySet
<1> QED BY <1>1, SumIsSolution DEF Solves

LEMMA SumUnfolds ==
    ASSUME NEW S, IsFiniteSet(S), NEW f, S # {}
    PROVE  SumFunctionOnSet(f, S) =
               f[Some(S)] + SumFunctionOnSet(f, S \ {Some(S)})
<1> DEFINE T == S \ {Some(S)}
<1>1. IsFiniteSet(T) /\ T \in SUBSET S BY FS_Subset
<1>2. Solves(Solution(f, S), f, S) /\ Solves(Solution(f, T), f, T)
  BY <1>1, SolutionExists
<1>3. Solves([U \in SUBSET T |-> Solution(f, S)[U]], f, T)
  <2> HIDE DEF T
  <2> QED BY <1>1, <1>2, SolutionRestricts
<1>4. Solution(f, T) = [U \in SUBSET T |-> Solution(f, S)[U]]
  BY <1>1, <1>2, <1>3, SolutionIsUnique
<1>5. Solution(f, T)[T] = Solution(f, S)[T] BY <1>4
<1>6. Solution(f, S)[S] = f[Some(S)] + Solution(f, S)[T] BY <1>2 DEF Solves
<1> QED BY <1>5, <1>6, SumIsSolution

\* FS_Image for a function instead of an operator.
LEMMA ImageIsFinite ==
    ASSUME NEW S, IsFiniteSet(S), NEW f PROVE IsFiniteSet({f[x] : x \in S})
<1> DEFINE g == [x \in S |-> f[x]]
<1>1. g \in Surjection(S, {f[x] : x \in S}) BY DEF Surjection
<1> QED BY <1>1, FS_Surjection

\* Sums of integers are integers.
LEMMA SumIsInt ==
    ASSUME NEW S, IsFiniteSet(S), NEW f, \A x \in S : f[x] \in Int
    PROVE  SumFunctionOnSet(f, S) \in Int
<1> DEFINE C == {T \in SUBSET S : SumFunctionOnSet(f, T) \notin Int}
<1>1. ASSUME C # {} PROVE FALSE
  <2>1. PICK T \in C : \A U \in C : U \subseteq T => U = T
    <3>1. C \subseteq SUBSET S OBVIOUS
    <3> HIDE DEF C
    <3> QED BY <1>1, <3>1, SmallestSet
  <2>2. T # {} BY <2>1, SumOfNone
  <2>3. Some(T) \in T BY <2>2, SomeIn
  <2>4. SumFunctionOnSet(f, T \ {Some(T)}) \in Int BY <2>1, <2>3
  <2>5. IsFiniteSet(T) BY <2>1, FS_Subset
  <2>6. SumFunctionOnSet(f, T) =
            f[Some(T)] + SumFunctionOnSet(f, T \ {Some(T)})
    BY <2>2, <2>5, SumUnfolds
  <2> QED BY <2>1, <2>3, <2>4, <2>6
<1> QED BY <1>1

\* Any element may be taken out first: the order of the sum is no matter.
LEMMA SumTakesOut ==
    ASSUME NEW S, IsFiniteSet(S), NEW f, \A x \in S : f[x] \in Int, NEW x \in S
    PROVE  SumFunctionOnSet(f, S) = f[x] + SumFunctionOnSet(f, S \ {x})
<1> DEFINE C == {T \in SUBSET S : \E y \in T :
                    SumFunctionOnSet(f, T) # f[y] + SumFunctionOnSet(f, T \ {y})}
<1>1. ASSUME C # {} PROVE FALSE
  <2>1. PICK T \in C : \A U \in C : U \subseteq T => U = T
    <3>1. C \subseteq SUBSET S OBVIOUS
    <3> HIDE DEF C
    <3> QED BY <1>1, <3>1, SmallestSet
  <2>2. PICK y \in T : SumFunctionOnSet(f, T) # f[y] + SumFunctionOnSet(f, T \ {y})
    BY <2>1
  <2> DEFINE z == Some(T)
             sum(U) == SumFunctionOnSet(f, U)
  <2>3. z \in T /\ y \in T BY <2>2, SomeIn
  <2>4. \A U \in SUBSET T : IsFiniteSet(U) /\ U \in SUBSET S BY <2>1, FS_Subset
  <2>5. sum(T) = f[z] + sum(T \ {z}) BY <2>3, <2>4, SumUnfolds
  <2>6. y # z BY <2>2, <2>5
  <2>7. T \ {z} # T /\ T \ {y} # T /\ T \ {z} \in SUBSET T /\ T \ {y} \in SUBSET T
    BY <2>3
  <2>8. sum(T \ {z}) = f[y] + sum((T \ {z}) \ {y})
    <3>1. T \ {z} \notin C BY <2>1, <2>7
    <3>2. y \in T \ {z} BY <2>3, <2>6
    <3> QED BY <2>4, <2>7, <3>1, <3>2
  <2>9. sum(T \ {y}) = f[z] + sum((T \ {y}) \ {z})
    <3>1. T \ {y} \notin C BY <2>1, <2>7
    <3>2. z \in T \ {y} BY <2>3, <2>6
    <3> QED BY <2>4, <2>7, <3>1, <3>2
  <2>10. (T \ {z}) \ {y} = (T \ {y}) \ {z} OBVIOUS
  <2>11. sum((T \ {y}) \ {z}) \in Int
    <3>1. (T \ {y}) \ {z} \in SUBSET T OBVIOUS
    <3>2. IsFiniteSet((T \ {y}) \ {z}) /\ (T \ {y}) \ {z} \in SUBSET S BY <2>4, <3>1
    <3> QED BY <3>2, SumIsInt
  <2>12. f[y] \in Int /\ f[z] \in Int BY <2>3, <2>1
  <2>13. sum(T) = f[y] + sum(T \ {y})
    <3> HIDE DEF z, sum, C
    <3>1. sum((T \ {z}) \ {y}) = sum((T \ {y}) \ {z}) BY <2>10, Zenon
    <3>2. /\ sum(T) = f[z] + (f[y] + sum((T \ {y}) \ {z}))
          /\ f[y] + sum(T \ {y}) = f[y] + (f[z] + sum((T \ {y}) \ {z}))
      BY <2>5, <2>8, <2>9, <3>1, Zenon
    <3> QED BY <2>11, <2>12, <3>2
  <2> QED BY <2>2, <2>13
<1> QED BY <1>1

LEMMA SumAdds ==
    ASSUME NEW S, IsFiniteSet(S), NEW f, NEW x, x \notin S,
           \A y \in S \cup {x} : f[y] \in Int
    PROVE  /\ SumFunctionOnSet(f, S \cup {x}) = f[x] + SumFunctionOnSet(f, S)
           /\ IsFiniteSet(S \cup {x})
<1>1. IsFiniteSet(S \cup {x}) BY FS_AddElement
<1>2. (S \cup {x}) \ {x} = S OBVIOUS
<1>3. SumFunctionOnSet(f, S \cup {x})
          = f[x] + SumFunctionOnSet(f, (S \cup {x}) \ {x})
  <2>1. x \in S \cup {x} OBVIOUS
  <2> QED BY <1>1, <2>1, SumTakesOut
<1> QED BY <1>1, <1>2, <1>3

\* Only the values on the set matter.
LEMMA SumAgrees ==
    ASSUME NEW S, IsFiniteSet(S), NEW f, NEW g, \A x \in S : f[x] = g[x]
    PROVE  SumFunctionOnSet(f, S) = SumFunctionOnSet(g, S)
<1> DEFINE C == {T \in SUBSET S : SumFunctionOnSet(f, T) # SumFunctionOnSet(g, T)}
<1>1. ASSUME C # {} PROVE FALSE
  <2>1. PICK T \in C : \A U \in C : U \subseteq T => U = T
    <3>1. C \subseteq SUBSET S OBVIOUS
    <3> HIDE DEF C
    <3> QED BY <1>1, <3>1, SmallestSet
  <2>2. T # {} BY <2>1, SumOfNone
  <2>3. Some(T) \in T BY <2>2, SomeIn
  <2>4. SumFunctionOnSet(f, T \ {Some(T)}) = SumFunctionOnSet(g, T \ {Some(T)})
    BY <2>1, <2>3
  <2>5. IsFiniteSet(T) BY <2>1, FS_Subset
  <2>6. /\ SumFunctionOnSet(f, T) =
               f[Some(T)] + SumFunctionOnSet(f, T \ {Some(T)})
        /\ SumFunctionOnSet(g, T) =
               g[Some(T)] + SumFunctionOnSet(g, T \ {Some(T)})
    BY <2>2, <2>5, SumUnfolds
  <2> QED BY <2>1, <2>3, <2>4, <2>6
<1> QED BY <1>1

\* A part of a sum of natural numbers is no more than all of it.
LEMMA SumGrows ==
    ASSUME NEW S, IsFiniteSet(S), NEW f, \A x \in S : f[x] \in Nat,
           NEW T \in SUBSET S
    PROVE  /\ SumFunctionOnSet(f, T) \in Nat /\ SumFunctionOnSet(f, S) \in Nat
           /\ SumFunctionOnSet(f, T) <= SumFunctionOnSet(f, S)
<1> DEFINE sum(U) == SumFunctionOnSet(f, U)
           D == {V \in SUBSET S : \E U \in SUBSET V :
                    ~ (sum(U) \in Nat /\ sum(V) \in Nat /\ sum(U) <= sum(V))}
<1>1. ASSUME D # {} PROVE FALSE
  <2>1. PICK V \in D : \A W \in D : W \subseteq V => W = V
    <3>1. D \subseteq SUBSET S OBVIOUS
    <3> HIDE DEF D
    <3> QED BY <1>1, <3>1, SmallestSet
  <2>2. IsFiniteSet(V) BY <2>1, FS_Subset
  <2>3. ASSUME NEW U \in SUBSET V
        PROVE  sum(U) \in Nat /\ sum(V) \in Nat /\ sum(U) <= sum(V)
    <3>1. CASE V = {}
      <4>1. U = {} BY <3>1
      <4> QED BY <3>1, <4>1, SumOfNone
    <3>2. CASE U = V /\ V # {}
      <4>1. PICK x \in V : TRUE BY <3>2
      <4>2. sum(V) = f[x] + sum(V \ {x}) BY <2>1, <2>2, SumTakesOut
      <4>3. V \ {x} \in SUBSET S /\ V \ {x} # V BY <2>1
      <4>4. sum(V \ {x}) \in Nat BY <2>1, <4>3
      <4>5. f[x] \in Nat BY <2>1
      <4> HIDE DEF sum
      <4> QED BY <3>2, <4>2, <4>4, <4>5
    <3>3. CASE U # V
      <4>1. PICK x \in V : x \notin U BY <3>3
      <4>2. sum(V) = f[x] + sum(V \ {x}) BY <2>1, <2>2, SumTakesOut
      <4>3. V \ {x} \in SUBSET S /\ V \ {x} # V /\ U \in SUBSET (V \ {x}) BY <2>1, <4>1
      <4>4. /\ sum(V \ {x}) \in Nat /\ sum(U) \in Nat
            /\ sum(U) <= sum(V \ {x})
        BY <2>1, <4>3
      <4>5. f[x] \in Nat BY <2>1
      <4> HIDE DEF sum
      <4> QED BY <4>2, <4>4, <4>5
    <3> QED BY <3>1, <3>2, <3>3
  <2> QED BY <2>1, <2>3
<1> QED BY <1>1

\* ... and neither is one of its terms.
LEMMA SumCovers ==
    ASSUME NEW S, IsFiniteSet(S), NEW f, \A x \in S : f[x] \in Nat, NEW x \in S
    PROVE  f[x] <= SumFunctionOnSet(f, S)
<1>1. SumFunctionOnSet(f, S) = f[x] + SumFunctionOnSet(f, S \ {x})
  BY SumTakesOut
<1>2. SumFunctionOnSet(f, S \ {x}) \in Nat BY SumGrows
<1> QED BY <1>1, <1>2

\* Terms that are not positive sum up to no more than nothing.
LEMMA SumIsNotPositive ==
    ASSUME NEW S, IsFiniteSet(S), NEW f, \A x \in S : f[x] \in Int /\ f[x] <= 0
    PROVE  SumFunctionOnSet(f, S) <= 0
<1> DEFINE C == {T \in SUBSET S : ~ (SumFunctionOnSet(f, T) <= 0)}
<1>1. ASSUME C # {} PROVE FALSE
  <2>1. PICK T \in C : \A U \in C : U \subseteq T => U = T
    <3>1. C \subseteq SUBSET S OBVIOUS
    <3> HIDE DEF C
    <3> QED BY <1>1, <3>1, SmallestSet
  <2>2. T # {}
    <3>1. ~ (SumFunctionOnSet(f, T) <= 0) BY <2>1
    <3>2. SumFunctionOnSet(f, {}) <= 0 BY SumOfNone
    <3> QED BY <3>1, <3>2
  <2>3. Some(T) \in T BY <2>2, SomeIn
  <2>4. SumFunctionOnSet(f, T \ {Some(T)}) <= 0 BY <2>1, <2>3
  <2>5. IsFiniteSet(T) /\ IsFiniteSet(T \ {Some(T)}) BY <2>1, FS_Subset
  <2>6. SumFunctionOnSet(f, T) =
            f[Some(T)] + SumFunctionOnSet(f, T \ {Some(T)})
    BY <2>2, <2>5, SumUnfolds
  <2>7. SumFunctionOnSet(f, T \ {Some(T)}) \in Int BY <2>1, <2>5, SumIsInt
  <2> QED BY <2>1, <2>3, <2>4, <2>6, <2>7
<1> QED BY <1>1
=============================================================================
