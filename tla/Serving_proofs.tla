--------------------------- MODULE Serving_proofs ---------------------------
(***************************************************************************)
(* Proofs about Serving and Statistics, for any keys, weights, limits,     *)
(* rules, requests and length of a day.  IInv is the inductive invariant:  *)
(* a key's place in the round robin is what its turns entitle it to, less  *)
(* what it had; the counters of a key are the sums over its logs; and what *)
(* a limited key has used fits below its limit together with what the      *)
(* requests that hold it may still use.                                    *)
(*                                                                         *)
(* The sums and orders of any finite set come first.  Facts about all      *)
(* finite sets are proved by a minimal counterexample: a smallest set that *)
(* fails, and the set without one of its elements, which does not.         *)
(***************************************************************************)
EXTENDS Serving, FiniteSetTheorems, SequenceTheorems, TLAPS

-----------------------------------------------------------------------------
(* Sums over finite sets.                                                  *)

\* An element of a set.
Pick(s) == CHOOSE x \in s : TRUE

\* The recursion the sum is defined by.
Unfolds(g, f, S) ==
    g = [s \in SUBSET S |-> IF s = {} THEN 0 ELSE f[Pick(s)] + g[s \ {Pick(s)}]]

\* The sum of f over S, as the library defines it.
LEMMA SumIs ==
  ASSUME NEW f, NEW S
  PROVE  SumFunctionOnSet(f, S) = (CHOOSE g : Unfolds(g, f, S))[S]
BY DEF SumFunctionOnSet, FoldFunctionOnSet, MapThenFoldSet, Unfolds, Pick

\* Pick takes an element.
LEMMA PickIn == \A s : s # {} => Pick(s) \in s
BY DEF Pick

\* A set of finite sets that is not empty has a member none of whose proper
\* subsets is in it.
LEMMA MinimalSet ==
  ASSUME NEW S, IsFiniteSet(S), NEW bad \in SUBSET (SUBSET S), bad # {}
  PROVE  \E T \in bad : \A U \in SUBSET T : U # T => U \notin bad
<1>1. bad \subseteq FiniteSubsetsOf(S)
  BY FS_Subset DEF FiniteSubsetsOf
<1>2. PICK T \in bad : \A U \in bad : <<U, T>> \notin StrictSubsetOrdering(S)
  BY <1>1, FS_StrictSubsetOrderingWellFounded, WFMin
<1>3. ASSUME NEW U \in SUBSET T, U # T, U \in bad PROVE FALSE
  <2>1. T \in SUBSET S /\ U \in SUBSET S
    OBVIOUS
  <2>2. <<U, T>> \in StrictSubsetOrdering(S)
    BY <1>3, <2>1 DEF StrictSubsetOrdering
  <2> QED  BY <1>2, <1>3, <2>2
<1> QED  BY <1>3

\* The recursion unfolds at every subset.
LEMMA UnfoldOnce ==
  ASSUME NEW f, NEW g, NEW S, Unfolds(g, f, S), NEW s \in SUBSET S
  PROVE  g[s] = IF s = {} THEN 0 ELSE f[Pick(s)] + g[s \ {Pick(s)}]
<1> DEFINE h == [u \in SUBSET S |-> IF u = {} THEN 0 ELSE f[Pick(u)] + g[u \ {Pick(u)}]]
<1>1. h[s] = IF s = {} THEN 0 ELSE f[Pick(s)] + g[s \ {Pick(s)}]
  OBVIOUS
<1>2. g = h
  BY DEF Unfolds
<1> HIDE DEF h
<1> QED  BY <1>1, <1>2

\* There is one function at most that unfolds.
LEMMA UnfoldUnique ==
  ASSUME NEW f, NEW S, IsFiniteSet(S), NEW T \in SUBSET S, NEW g, NEW h,
         Unfolds(g, f, S), Unfolds(h, f, T)
  PROVE  \A s \in SUBSET T : g[s] = h[s]
<1>0. /\ \A s \in SUBSET S : g[s] = IF s = {} THEN 0 ELSE f[Pick(s)] + g[s \ {Pick(s)}]
      /\ \A s \in SUBSET T : h[s] = IF s = {} THEN 0 ELSE f[Pick(s)] + h[s \ {Pick(s)}]
  BY UnfoldOnce
<1> DEFINE bad == {s \in SUBSET T : g[s] # h[s]}
<1> SUFFICES ASSUME bad # {} PROVE FALSE
  OBVIOUS
<1>1. IsFiniteSet(T) /\ bad \in SUBSET (SUBSET T)
  BY FS_Subset
<1>2. PICK s \in bad : \A u \in SUBSET s : u # s => u \notin bad
  <2> HIDE DEF bad
  <2> QED  BY <1>1, MinimalSet
<1>3. s \in SUBSET T /\ s \in SUBSET S /\ g[s] # h[s]
  OBVIOUS
<1>4. s # {}
  BY <1>3, UnfoldOnce
<1> DEFINE u == s \ {Pick(s)}
<1>5. u \in SUBSET s /\ u # s /\ u \in SUBSET T
  BY <1>3, <1>4, PickIn
<1>6. g[u] = h[u]
  BY <1>2, <1>5
<1> HIDE DEF bad
<1>7. g[s] = f[Pick(s)] + g[u]
  BY <1>0, <1>3, <1>4
<1>8. h[s] = f[Pick(s)] + h[u]
  BY <1>0, <1>3, <1>4
<1> QED  BY <1>3, <1>6, <1>7, <1>8

\* And there is one, for a finite set.
LEMMA UnfoldExists ==
  ASSUME NEW f, NEW S, IsFiniteSet(S)
  PROVE  \E g : Unfolds(g, f, S)
<1> DEFINE bad == {T \in SUBSET S : ~ \E g : Unfolds(g, f, T)}
<1> SUFFICES ASSUME bad # {} PROVE FALSE
  OBVIOUS
<1>1. PICK T \in bad : \A U \in SUBSET T : U # T => U \notin bad
  <2>1. bad \in SUBSET (SUBSET S)
    OBVIOUS
  <2> HIDE DEF bad
  <2> QED  BY <2>1, MinimalSet
<1>2. IsFiniteSet(T) /\ T \in SUBSET S
  BY FS_Subset
<1> DEFINE H(u) == CHOOSE g : Unfolds(g, f, u)
           Rest(s) == s \ {Pick(s)}
           g == [s \in SUBSET T |-> IF s = {} THEN 0 ELSE f[Pick(s)] + H(Rest(s))[Rest(s)]]
<1>3. ASSUME NEW u \in SUBSET T, u # T PROVE Unfolds(H(u), f, u)
  <2>1. \E k : Unfolds(k, f, u)
    BY <1>1, <1>2, <1>3
  <2> QED  BY <2>1
<1>4. \A s \in SUBSET T : s # {} => Rest(s) \in SUBSET T /\ Rest(s) # T /\ Rest(s) \subseteq s
  BY PickIn
<1>5. ASSUME NEW u \in SUBSET T, u # T PROVE g[u] = H(u)[u]
  <2>1. Unfolds(H(u), f, u)
    BY <1>3, <1>5
  <2> HIDE DEF H
  <2>2. CASE u = {}
    BY <2>1, <2>2, UnfoldOnce, u \in SUBSET u
  <2>3. CASE u # {}
    <3>1. Rest(u) \in SUBSET T /\ Rest(u) # T /\ Rest(u) \in SUBSET u
      BY <1>4, <2>3
    <3>2. Unfolds(H(Rest(u)), f, Rest(u))
      BY <1>3, <3>1
    <3>3. IsFiniteSet(u)
      BY <1>2, FS_Subset
    <3>4. H(u)[Rest(u)] = H(Rest(u))[Rest(u)]
      BY <2>1, <3>1, <3>2, <3>3, UnfoldUnique, Rest(u) \in SUBSET Rest(u)
    <3>5. H(u)[u] = f[Pick(u)] + H(u)[Rest(u)]
      BY <2>1, <2>3, UnfoldOnce, u \in SUBSET u
    <3> QED  BY <2>3, <3>4, <3>5
  <2> QED  BY <2>2, <2>3
<1>6. g = [s \in SUBSET T |-> IF s = {} THEN 0 ELSE f[Pick(s)] + g[s \ {Pick(s)}]]
  <2>1. \A s \in SUBSET T : s # {} => g[Rest(s)] = H(Rest(s))[Rest(s)]
    BY <1>4, <1>5
  <2>2. ASSUME NEW s \in SUBSET T
        PROVE  g[s] = IF s = {} THEN 0 ELSE f[Pick(s)] + g[s \ {Pick(s)}]
    <3>1. g[s] = IF s = {} THEN 0 ELSE f[Pick(s)] + H(Rest(s))[Rest(s)]
      OBVIOUS
    <3> HIDE DEF g, H
    <3> QED  BY <2>1, <3>1
  <2>3. g = [s \in SUBSET T |-> g[s]]
    OBVIOUS
  <2> HIDE DEF g, H
  <2> QED  BY <2>2, <2>3
<1>7. Unfolds(g, f, T)
  BY <1>6 DEF Unfolds
<1> QED  BY <1>1, <1>7

\* So the sum takes one element after the other.
LEMMA SumUnfolds ==
  ASSUME NEW f, NEW S, IsFiniteSet(S)
  PROVE  /\ S = {} => SumFunctionOnSet(f, S) = 0
         /\ S # {} => SumFunctionOnSet(f, S) =
                        f[Pick(S)] + SumFunctionOnSet(f, S \ {Pick(S)})
<1> DEFINE H(u) == CHOOSE g : Unfolds(g, f, u)
<1>1. ASSUME NEW u, IsFiniteSet(u) PROVE Unfolds(H(u), f, u) /\ SumFunctionOnSet(f, u) = H(u)[u]
  BY <1>1, UnfoldExists, SumIs
<1> HIDE DEF H
<1>2. CASE S = {}
  BY <1>1, <1>2, UnfoldOnce, S \in SUBSET S
<1>3. CASE S # {}
  <2> DEFINE u == S \ {Pick(S)}
  <2>1. u \in SUBSET S /\ IsFiniteSet(u)
    BY FS_Subset
  <2>a. Unfolds(H(S), f, S) /\ Unfolds(H(u), f, u) /\ u \in SUBSET u
    BY <1>1, <2>1
  <2>2. H(S)[u] = H(u)[u]
    <3> HIDE DEF u
    <3>1. \A s \in SUBSET u : H(S)[s] = H(u)[s]
      BY <2>a, <2>1, UnfoldUnique
    <3> QED  BY <2>a, <3>1
  <2>3. H(S)[S] = f[Pick(S)] + H(S)[u]
    BY <1>1, <1>3, UnfoldOnce, S \in SUBSET S
  <2> QED  BY <1>1, <1>3, <2>1, <2>2, <2>3
<1> QED  BY <1>2, <1>3

\* The sum of nothing.
LEMMA SumOfNone == \A f : SumFunctionOnSet(f, {}) = 0
BY SumUnfolds, FS_EmptySet

\* The sum of integers is an integer.
LEMMA SumType ==
  ASSUME NEW f, NEW S, IsFiniteSet(S), \A x \in S : f[x] \in Int
  PROVE  SumFunctionOnSet(f, S) \in Int
<1> DEFINE bad == {T \in SUBSET S : SumFunctionOnSet(f, T) \notin Int}
<1> SUFFICES ASSUME bad # {} PROVE FALSE
  OBVIOUS
<1>1. PICK T \in bad : \A U \in SUBSET T : U # T => U \notin bad
  <2>1. bad \in SUBSET (SUBSET S)
    OBVIOUS
  <2> HIDE DEF bad
  <2> QED  BY <2>1, MinimalSet
<1>2. T \in SUBSET S /\ IsFiniteSet(T) /\ SumFunctionOnSet(f, T) \notin Int
  BY FS_Subset
<1>3. T # {}
  <2>1. T = {} => SumFunctionOnSet(f, T) = 0
    BY <1>2, SumUnfolds
  <2> QED  BY <1>2, <2>1
<1> DEFINE U == T \ {Pick(T)}
<1>4. Pick(T) \in T /\ U \in SUBSET T /\ U # T
  BY <1>3, PickIn
<1>5. SumFunctionOnSet(f, U) \in Int /\ f[Pick(T)] \in Int
  BY <1>1, <1>2, <1>4
<1>6. SumFunctionOnSet(f, T) = f[Pick(T)] + SumFunctionOnSet(f, U)
  BY <1>2, <1>3, SumUnfolds
<1> QED  BY <1>2, <1>5, <1>6

\* The sum does not depend on the element that is taken first.
LEMMA SumTakesAny ==
  ASSUME NEW f, NEW S, IsFiniteSet(S), \A x \in S : f[x] \in Int, NEW y \in S
  PROVE  SumFunctionOnSet(f, S) = f[y] + SumFunctionOnSet(f, S \ {y})
<1> DEFINE Odd(T) == \E z \in T : SumFunctionOnSet(f, T) # f[z] + SumFunctionOnSet(f, T \ {z})
           bad == {T \in SUBSET S : Odd(T)}
<1> SUFFICES ASSUME bad # {} PROVE FALSE
  OBVIOUS
<1>1. PICK T \in bad : \A U \in SUBSET T : U # T => U \notin bad
  <2>1. bad \in SUBSET (SUBSET S)
    OBVIOUS
  <2> HIDE DEF bad
  <2> QED  BY <2>1, MinimalSet
<1>2. T \in SUBSET S /\ IsFiniteSet(T)
  BY FS_Subset
<1>3. PICK z \in T : SumFunctionOnSet(f, T) # f[z] + SumFunctionOnSet(f, T \ {z})
  OBVIOUS
<1> DEFINE x == Pick(T)
           U == T \ {x}
           V == T \ {z}
           W == T \ {x, z}
<1>4. x \in T /\ SumFunctionOnSet(f, T) = f[x] + SumFunctionOnSet(f, U)
  BY <1>2, PickIn, SumUnfolds
<1>5. x # z
  BY <1>3, <1>4
<1> HIDE DEF x
<1>6. /\ U \in SUBSET T /\ U # T /\ V \in SUBSET T /\ V # T
      /\ z \in U /\ x \in V /\ U \ {z} = W /\ V \ {x} = W
      /\ U \in SUBSET S /\ V \in SUBSET S
  BY <1>2, <1>4, <1>5
<1>7. ~Odd(U) /\ ~Odd(V)
  BY <1>1, <1>6
<1>8. SumFunctionOnSet(f, U) = f[z] + SumFunctionOnSet(f, W)
  BY <1>6, <1>7
<1>9. SumFunctionOnSet(f, V) = f[x] + SumFunctionOnSet(f, W)
  BY <1>6, <1>7
<1>10. IsFiniteSet(W)
  BY <1>2, FS_Subset, W \in SUBSET T
<1>11. SumFunctionOnSet(f, W) \in Int /\ f[x] \in Int /\ f[z] \in Int
  BY <1>2, <1>4, <1>10, SumType
<1> QED  BY <1>3, <1>4, <1>8, <1>9, <1>11

\* The sum depends on the values at the elements only.
LEMMA SumOfSame ==
  ASSUME NEW f, NEW g, NEW S, IsFiniteSet(S), \A x \in S : f[x] = g[x]
  PROVE  SumFunctionOnSet(f, S) = SumFunctionOnSet(g, S)
<1> DEFINE bad == {T \in SUBSET S : SumFunctionOnSet(f, T) # SumFunctionOnSet(g, T)}
<1> SUFFICES ASSUME bad # {} PROVE FALSE
  OBVIOUS
<1>1. PICK T \in bad : \A U \in SUBSET T : U # T => U \notin bad
  <2>1. bad \in SUBSET (SUBSET S)
    OBVIOUS
  <2> HIDE DEF bad
  <2> QED  BY <2>1, MinimalSet
<1>2. T \in SUBSET S /\ IsFiniteSet(T)
  BY FS_Subset
<1>3. T # {}
  BY <1>2, SumUnfolds
<1> DEFINE U == T \ {Pick(T)}
<1>4. Pick(T) \in T /\ U \in SUBSET T /\ U # T
  BY <1>3, PickIn
<1>5. SumFunctionOnSet(f, U) = SumFunctionOnSet(g, U) /\ f[Pick(T)] = g[Pick(T)]
  BY <1>1, <1>2, <1>4
<1> QED  BY <1>2, <1>3, <1>5, SumUnfolds

\* One element more, and one value changed.
LEMMA SumAddsOne ==
  ASSUME NEW f, NEW S, IsFiniteSet(S), NEW y, y \notin S,
         \A x \in S \cup {y} : f[x] \in Int
  PROVE  SumFunctionOnSet(f, S \cup {y}) = f[y] + SumFunctionOnSet(f, S)
<1>1. IsFiniteSet(S \cup {y}) /\ (S \cup {y}) \ {y} = S
  BY FS_AddElement
<1> QED  BY <1>1, SumTakesAny

\* One term more or less.
LEMMA SumUpdated ==
  ASSUME NEW f, NEW g, NEW S, IsFiniteSet(S), NEW y \in S, NEW d \in Int,
         \A x \in S : f[x] \in Int, g[y] = f[y] + d,
         \A x \in S \ {y} : g[x] = f[x]
  PROVE  SumFunctionOnSet(g, S) = SumFunctionOnSet(f, S) + d
<1>1. IsFiniteSet(S \ {y}) /\ \A x \in S : g[x] \in Int
  BY FS_Subset
<1>2. SumFunctionOnSet(f, S \ {y}) \in Int
  BY <1>1, SumType
<1>3. SumFunctionOnSet(g, S \ {y}) = SumFunctionOnSet(f, S \ {y})
  BY <1>1, SumOfSame
<1>4. SumFunctionOnSet(f, S) = f[y] + SumFunctionOnSet(f, S \ {y})
  BY SumTakesAny
<1>5. SumFunctionOnSet(g, S) = g[y] + SumFunctionOnSet(g, S \ {y})
  BY <1>1, SumTakesAny
<1> QED  BY <1>2, <1>3, <1>4, <1>5

\* The sum of the sums.
LEMMA SumOfBoth ==
  ASSUME NEW f, NEW g, NEW h, NEW S, IsFiniteSet(S),
         \A x \in S : f[x] \in Int /\ g[x] \in Int /\ h[x] = f[x] + g[x]
  PROVE  SumFunctionOnSet(h, S) = SumFunctionOnSet(f, S) + SumFunctionOnSet(g, S)
<1> DEFINE Same(T) == SumFunctionOnSet(h, T)
                        = SumFunctionOnSet(f, T) + SumFunctionOnSet(g, T)
           bad == {T \in SUBSET S : ~Same(T)}
<1> SUFFICES ASSUME bad # {} PROVE FALSE
  <2>1. S \in SUBSET S
    OBVIOUS
  <2> QED  BY <2>1
<1>1. PICK T \in bad : \A U \in SUBSET T : U # T => U \notin bad
  <2>1. bad \in SUBSET (SUBSET S)
    OBVIOUS
  <2> HIDE DEF bad
  <2> QED  BY <2>1, MinimalSet
<1>2. T \in SUBSET S /\ IsFiniteSet(T) /\ ~Same(T)
  BY FS_Subset
<1>3. T # {}
  <2>1. ~Same(T)
    BY <1>2
  <2>2. T = {} => Same(T)
    BY SumOfNone
  <2> QED  BY <2>1, <2>2
<1> DEFINE U == T \ {Pick(T)}
<1>4. Pick(T) \in T /\ U \in SUBSET T /\ U # T /\ IsFiniteSet(U)
  BY <1>2, <1>3, PickIn, FS_Subset
<1>5. Same(U)
  BY <1>1, <1>2, <1>4
<1>6. \A x \in U : f[x] \in Int /\ g[x] \in Int
  BY <1>2
<1>7. SumFunctionOnSet(f, U) \in Int /\ SumFunctionOnSet(g, U) \in Int
  BY <1>4, <1>6, SumType
<1>8. /\ SumFunctionOnSet(f, T) = f[Pick(T)] + SumFunctionOnSet(f, U)
      /\ SumFunctionOnSet(g, T) = g[Pick(T)] + SumFunctionOnSet(g, U)
      /\ SumFunctionOnSet(h, T) = h[Pick(T)] + SumFunctionOnSet(h, U)
  BY <1>2, <1>3, SumUnfolds
<1>9. f[Pick(T)] \in Int /\ g[Pick(T)] \in Int /\ h[Pick(T)] = f[Pick(T)] + g[Pick(T)]
  BY <1>2, <1>4
<1> HIDE DEF U
<1> QED  BY <1>2, <1>5, <1>7, <1>8, <1>9

\* Larger terms have a larger sum.
LEMMA SumMonotone ==
  ASSUME NEW f, NEW g, NEW S, IsFiniteSet(S),
         \A x \in S : f[x] \in Int /\ g[x] \in Int /\ f[x] <= g[x]
  PROVE  SumFunctionOnSet(f, S) <= SumFunctionOnSet(g, S)
<1> DEFINE Same(T) == SumFunctionOnSet(f, T) <= SumFunctionOnSet(g, T)
           bad == {T \in SUBSET S : ~Same(T)}
<1> SUFFICES ASSUME bad # {} PROVE FALSE
  <2>1. S \in SUBSET S
    OBVIOUS
  <2> QED  BY <2>1
<1>1. PICK T \in bad : \A U \in SUBSET T : U # T => U \notin bad
  <2>1. bad \in SUBSET (SUBSET S)
    OBVIOUS
  <2> HIDE DEF bad
  <2> QED  BY <2>1, MinimalSet
<1>2. T \in SUBSET S /\ IsFiniteSet(T) /\ ~Same(T)
  BY FS_Subset
<1>3. T # {}
  <2>1. ~Same(T)
    BY <1>2
  <2>2. T = {} => Same(T)
    BY SumOfNone
  <2> QED  BY <2>1, <2>2
<1> DEFINE U == T \ {Pick(T)}
<1>4. Pick(T) \in T /\ U \in SUBSET T /\ U # T /\ IsFiniteSet(U)
  BY <1>2, <1>3, PickIn, FS_Subset
<1>5. Same(U)
  BY <1>1, <1>2, <1>4
<1>6. \A x \in U : f[x] \in Int /\ g[x] \in Int
  BY <1>2
<1>7. SumFunctionOnSet(f, U) \in Int /\ SumFunctionOnSet(g, U) \in Int
  BY <1>4, <1>6, SumType
<1>8. /\ SumFunctionOnSet(f, T) = f[Pick(T)] + SumFunctionOnSet(f, U)
      /\ SumFunctionOnSet(g, T) = g[Pick(T)] + SumFunctionOnSet(g, U)
  BY <1>2, <1>3, SumUnfolds
<1>9. f[Pick(T)] \in Int /\ g[Pick(T)] \in Int /\ f[Pick(T)] <= g[Pick(T)]
  BY <1>2, <1>4
<1> HIDE DEF U
<1> QED  BY <1>2, <1>5, <1>7, <1>8, <1>9

\* The sum of a constant.
LEMMA SumOfConstant ==
  ASSUME NEW f, NEW S, IsFiniteSet(S), NEW c \in Int, \A x \in S : f[x] = c
  PROVE  SumFunctionOnSet(f, S) = c * Cardinality(S)
<1> DEFINE Same(T) == SumFunctionOnSet(f, T) = c * Cardinality(T)
           bad == {T \in SUBSET S : ~Same(T)}
<1> SUFFICES ASSUME bad # {} PROVE FALSE
  <2>1. S \in SUBSET S
    OBVIOUS
  <2> QED  BY <2>1
<1>1. PICK T \in bad : \A U \in SUBSET T : U # T => U \notin bad
  <2>1. bad \in SUBSET (SUBSET S)
    OBVIOUS
  <2> HIDE DEF bad
  <2> QED  BY <2>1, MinimalSet
<1>2. T \in SUBSET S /\ IsFiniteSet(T) /\ ~Same(T)
  BY FS_Subset
<1>3. T # {}
  <2>1. ~Same(T)
    BY <1>2
  <2>2. T = {} => Same(T)
    BY SumOfNone, FS_EmptySet
  <2> QED  BY <2>1, <2>2
<1> DEFINE U == T \ {Pick(T)}
<1>4. Pick(T) \in T /\ U \in SUBSET T /\ U # T
  BY <1>3, PickIn
<1>5. Same(U) /\ f[Pick(T)] = c
  BY <1>1, <1>2, <1>4
<1>6. /\ Cardinality(U) = Cardinality(T) - 1
      /\ Cardinality(T) \in Nat /\ Cardinality(U) \in Nat
  BY <1>2, <1>4, FS_RemoveElement, FS_CardinalityType
<1>7. SumFunctionOnSet(f, T) = f[Pick(T)] + SumFunctionOnSet(f, U)
  BY <1>2, <1>3, SumUnfolds
<1>8. c * (Cardinality(T) - 1) = c * Cardinality(T) - c
  BY <1>6
<1> HIDE DEF U
<1> QED  BY <1>2, <1>5, <1>6, <1>7, <1>8

\* A sum is at least its least term as often as there are terms.
LEMMA SumAtLeast ==
  ASSUME NEW f, NEW S, IsFiniteSet(S), NEW c \in Int,
         \A x \in S : f[x] \in Int /\ f[x] >= c
  PROVE  SumFunctionOnSet(f, S) >= c * Cardinality(S)
<1> DEFINE g == [x \in S |-> c]
<1>1. SumFunctionOnSet(g, S) = c * Cardinality(S)
  BY SumOfConstant
<1>2. SumFunctionOnSet(g, S) <= SumFunctionOnSet(f, S)
  BY SumMonotone
<1>3. SumFunctionOnSet(f, S) \in Int /\ SumFunctionOnSet(g, S) \in Int
  BY SumType
<1> HIDE DEF g
<1> QED  BY <1>1, <1>2, <1>3

\* The sum of natural numbers is a natural number.
LEMMA SumNat ==
  ASSUME NEW f, NEW S, IsFiniteSet(S), \A x \in S : f[x] \in Nat
  PROVE  SumFunctionOnSet(f, S) \in Nat
<1>1. SumFunctionOnSet(f, S) >= 0 * Cardinality(S)
  BY SumAtLeast
<1>2. SumFunctionOnSet(f, S) \in Int /\ Cardinality(S) \in Nat
  BY SumType, FS_CardinalityType
<1> QED  BY <1>1, <1>2

\* A sum above zero has a summand above zero.
LEMMA SumPositive ==
  ASSUME NEW f, NEW S, IsFiniteSet(S), \A x \in S : f[x] \in Int,
         SumFunctionOnSet(f, S) > 0
  PROVE  \E x \in S : f[x] > 0
<1> DEFINE g == [x \in S |-> 0]
<1> SUFFICES ASSUME \A x \in S : f[x] <= 0 PROVE FALSE
  OBVIOUS
<1>1. SumFunctionOnSet(g, S) = 0 * Cardinality(S)
  BY SumOfConstant
<1>2. SumFunctionOnSet(f, S) <= SumFunctionOnSet(g, S)
  BY SumMonotone
<1>3. SumFunctionOnSet(f, S) \in Int /\ SumFunctionOnSet(g, S) \in Int /\ Cardinality(S) \in Nat
  BY SumType, FS_CardinalityType
<1> HIDE DEF g
<1> QED  BY <1>1, <1>2, <1>3

\* The sum of the parts.
PartOf(S, h, b) == {x \in S : h[x] = b}

\* What each part amounts to, summed over the parts, is the sum of the whole.
LEMMA SumOfParts ==
  ASSUME NEW f, NEW h, NEW g, NEW S, IsFiniteSet(S), NEW B, IsFiniteSet(B),
         \A x \in S : f[x] \in Int /\ h[x] \in B,
         \A b \in B : g[b] = SumFunctionOnSet(f, PartOf(S, h, b))
  PROVE  SumFunctionOnSet(g, B) = SumFunctionOnSet(f, S)
<1> DEFINE Parts(T) == [b \in B |-> SumFunctionOnSet(f, PartOf(T, h, b))]
           Same(T) == SumFunctionOnSet(Parts(T), B) = SumFunctionOnSet(f, T)
           bad == {T \in SUBSET S : ~Same(T)}
<1>a. SumFunctionOnSet(g, B) = SumFunctionOnSet(Parts(S), B)
  <2>1. \A b \in B : g[b] = Parts(S)[b]
    OBVIOUS
  <2> HIDE DEF Parts
  <2> QED  BY <2>1, SumOfSame
<1> SUFFICES ASSUME bad # {} PROVE FALSE
  <2>1. S \in SUBSET S
    OBVIOUS
  <2> HIDE DEF Parts
  <2> QED  BY <2>1, <1>a
<1>1. PICK T \in bad : \A U \in SUBSET T : U # T => U \notin bad
  <2>1. bad \in SUBSET (SUBSET S)
    OBVIOUS
  <2> HIDE DEF bad
  <2> QED  BY <2>1, MinimalSet
<1>2. T \in SUBSET S /\ IsFiniteSet(T) /\ ~Same(T)
  BY FS_Subset
<1>b. ASSUME NEW U \in SUBSET S, NEW b \in B
      PROVE  /\ IsFiniteSet(PartOf(U, h, b))
             /\ Parts(U)[b] = SumFunctionOnSet(f, PartOf(U, h, b))
             /\ Parts(U)[b] \in Int
  <2>1. PartOf(U, h, b) \in SUBSET S
    BY DEF PartOf
  <2>2. IsFiniteSet(PartOf(U, h, b)) /\ \A x \in PartOf(U, h, b) : f[x] \in Int
    BY <2>1, FS_Subset
  <2> QED  BY <2>2, SumType
<1>3. T # {}
  <2> SUFFICES ASSUME T = {} PROVE FALSE
    OBVIOUS
  <2>1. \A b \in B : Parts(T)[b] = 0
    <3> TAKE b \in B
    <3>1. PartOf(T, h, b) = {}
      BY DEF PartOf
    <3> QED  BY <3>1, <1>b, SumUnfolds, FS_EmptySet
  <2> HIDE DEF Parts
  <2>2. SumFunctionOnSet(Parts(T), B) = 0 * Cardinality(B)
    BY <2>1, SumOfConstant
  <2>3. SumFunctionOnSet(f, T) = 0 /\ Cardinality(B) \in Nat
    BY <1>2, SumUnfolds, FS_CardinalityType
  <2> QED  BY <1>2, <2>2, <2>3
<1>4. PICK y \in T : TRUE
  BY <1>3
<1> DEFINE U == T \ {y}
<1>5. /\ U \in SUBSET T /\ U # T /\ IsFiniteSet(U) /\ U \in SUBSET S
      /\ f[y] \in Int /\ h[y] \in B /\ Same(U)
  <2>1. U \in SUBSET T /\ U # T /\ U \in SUBSET S /\ f[y] \in Int /\ h[y] \in B
    BY <1>2
  <2>2. Same(U)
    BY <2>1, <1>1
  <2> QED  BY <2>1, <2>2, <1>2, FS_Subset
<1>6. SumFunctionOnSet(f, T) = f[y] + SumFunctionOnSet(f, U)
  BY <1>2, SumTakesAny
<1>7. Parts(T)[h[y]] = Parts(U)[h[y]] + f[y]
  <2> DEFINE P == PartOf(T, h, h[y])
  <2>1. IsFiniteSet(P) /\ Parts(T)[h[y]] = SumFunctionOnSet(f, P)
    BY <1>b, <1>2, <1>5
  <2>2. P \ {y} = PartOf(U, h, h[y]) /\ y \in P /\ \A x \in P : f[x] \in Int
    BY <1>2 DEF PartOf
  <2>3. Parts(U)[h[y]] = SumFunctionOnSet(f, P \ {y})
    BY <1>b, <1>5, <2>2
  <2>4. Parts(U)[h[y]] \in Int
    BY <1>b, <1>5
  <2> HIDE DEF P, Parts
  <2>5. SumFunctionOnSet(f, P) = f[y] + SumFunctionOnSet(f, P \ {y})
    BY <2>1, <2>2, SumTakesAny
  <2> QED  BY <2>1, <2>3, <2>4, <2>5, <1>5
<1>8. \A b \in B \ {h[y]} : Parts(T)[b] = Parts(U)[b]
  <2> TAKE b \in B \ {h[y]}
  <2>1. PartOf(T, h, b) = PartOf(U, h, b)
    BY DEF PartOf
  <2> QED  BY <2>1, <1>b, <1>2, <1>5
<1>9. \A b \in B : Parts(U)[b] \in Int
  BY <1>b, <1>5
<1> HIDE DEF Parts, U
<1>10. SumFunctionOnSet(Parts(T), B) = SumFunctionOnSet(Parts(U), B) + f[y]
  <2> DEFINE p == Parts(U)
             q == Parts(T)
             b == h[y]
             d == f[y]
  <2>1. /\ b \in B /\ d \in Int /\ q[b] = p[b] + d
        /\ \A x \in B : p[x] \in Int
        /\ \A x \in B \ {b} : q[x] = p[x]
    BY <1>5, <1>7, <1>8, <1>9
  <2> HIDE DEF p, q, b, d
  <2>2. SumFunctionOnSet(q, B) = SumFunctionOnSet(p, B) + d
    BY <2>1, SumUpdated
  <2> QED  BY <2>2 DEF p, q, d
<1>11. SumFunctionOnSet(f, U) \in Int
  BY <1>2, <1>5, SumType
<1> QED  BY <1>2, <1>5, <1>6, <1>10, <1>11

-----------------------------------------------------------------------------
(* Largest elements and orders.                                            *)

\* A function over a finite set that is not empty is largest somewhere.
LEMMA LargestValue ==
  ASSUME NEW S, IsFiniteSet(S), S # {}, NEW f, \A x \in S : f[x] \in Int
  PROVE  \E m \in S : \A x \in S : f[x] <= f[m]
<1> DEFINE Above(x) == {y \in S : f[y] > f[x]}
           all == {Above(x) : x \in S}
<1>1. PICK T \in all : \A U \in SUBSET T : U # T => U \notin all
  <2>1. all \in SUBSET (SUBSET S) /\ all # {}
    OBVIOUS
  <2> HIDE DEF all
  <2> QED  BY <2>1, MinimalSet
<1>2. PICK m \in S : T = Above(m)
  BY <1>1
<1>3. ASSUME NEW x \in S, ~(f[x] <= f[m]) PROVE FALSE
  <2>1. f[x] \in Int /\ f[m] \in Int /\ f[x] > f[m]
    BY <1>3
  <2>2. \A y \in S : f[y] > f[x] => f[y] > f[m]
    BY <2>1
  <2>3. Above(x) \in SUBSET T /\ x \in T /\ x \notin Above(x) /\ Above(x) \in all
    BY <1>2, <2>1, <2>2
  <2> HIDE DEF Above, all
  <2> QED  BY <1>1, <2>3
<1> QED  BY <1>3

\* A finite set of integers has a largest element.
LEMMA MaxIn ==
  ASSUME NEW S \in SUBSET Int, IsFiniteSet(S), S # {}
  PROVE  Max(S) \in S /\ \A y \in S : y <= Max(S)
<1> DEFINE f == [x \in S |-> x]
<1>1. \E m \in S : \A x \in S : f[x] <= f[m]
  <2>1. \A x \in S : f[x] \in Int
    OBVIOUS
  <2> HIDE DEF f
  <2> QED  BY <2>1, LargestValue
<1>2. \E m \in S : \A x \in S : m >= x
  BY <1>1
<1>3. Max(S) \in S /\ \A x \in S : Max(S) >= x
  BY <1>2 DEF Max
<1> QED  BY <1>3

\* And a smallest one.
LEMMA MinIn ==
  ASSUME NEW S \in SUBSET Int, IsFiniteSet(S), S # {}
  PROVE  Min(S) \in S /\ \A y \in S : Min(S) <= y
<1> DEFINE f == [x \in S |-> 0 - x]
<1>1. \E m \in S : \A x \in S : f[x] <= f[m]
  <2>1. \A x \in S : f[x] \in Int
    OBVIOUS
  <2> HIDE DEF f
  <2> QED  BY <2>1, LargestValue
<1>2. \E m \in S : \A x \in S : m <= x
  BY <1>1
<1> QED  BY <1>2 DEF Min

\* A strict order R of S, given as a set of pairs, in which any two elements
\* compare.
Orders(R, S) ==
    /\ \A x \in S : <<x, x>> \notin R
    /\ \A x, y \in S : x # y => <<x, y>> \in R \/ <<y, x>> \in R
    /\ \A x, y, z \in S : <<x, y>> \in R /\ <<y, z>> \in R => <<x, z>> \in R

\* A finite set has a first element in every order.
LEMMA FirstOf ==
  ASSUME NEW S, IsFiniteSet(S), S # {}, NEW R, Orders(R, S)
  PROVE  \E m \in S : \A x \in S \ {m} : <<m, x>> \in R
<1> DEFINE Before(x) == {y \in S : <<y, x>> \in R}
           all == {Before(x) : x \in S}
<1>1. PICK T \in all : \A U \in SUBSET T : U # T => U \notin all
  <2>1. all \in SUBSET (SUBSET S) /\ all # {}
    OBVIOUS
  <2> HIDE DEF all
  <2> QED  BY <2>1, MinimalSet
<1>2. PICK m \in S : T = Before(m)
  BY <1>1
<1>3. ASSUME NEW x \in S \ {m}, <<m, x>> \notin R PROVE FALSE
  <2>1. <<x, m>> \in R
    BY <1>3 DEF Orders
  <2>2. Before(x) \in SUBSET T /\ x \in T /\ x \notin Before(x) /\ Before(x) \in all
    BY <1>2, <2>1 DEF Orders
  <2> HIDE DEF Before, all
  <2> QED  BY <1>1, <2>2
<1> QED  BY <1>3

InOrder(s, S, R) ==
    /\ s \in [1 .. Cardinality(S) -> S]
    /\ \A i, j \in 1 .. Cardinality(S) : i < j => <<s[i], s[j]>> \in R

\* A finite set can be put in every order.
LEMMA SortedExists ==
  ASSUME NEW S, IsFiniteSet(S), NEW R, Orders(R, S)
  PROVE  \E s : InOrder(s, S, R)
<1> DEFINE bad == {T \in SUBSET S : ~ \E s : InOrder(s, T, R)}
<1> SUFFICES ASSUME bad # {} PROVE FALSE
  <2>1. S \in SUBSET S
    OBVIOUS
  <2> QED  BY <2>1
<1>1. PICK T \in bad : \A U \in SUBSET T : U # T => U \notin bad
  <2>1. bad \in SUBSET (SUBSET S)
    OBVIOUS
  <2> HIDE DEF bad
  <2> QED  BY <2>1, MinimalSet
<1>2. T \in SUBSET S /\ IsFiniteSet(T) /\ ~ \E s : InOrder(s, T, R)
  BY FS_Subset
<1>3. T # {}
  <2> SUFFICES ASSUME T = {} PROVE FALSE
    OBVIOUS
  <2> DEFINE s == [i \in 1 .. 0 |-> i]
  <2>1. Cardinality(T) = 0 /\ s \in [1 .. 0 -> T]
    BY FS_EmptySet
  <2>2. InOrder(s, T, R)
    BY <2>1 DEF InOrder
  <2> QED  BY <2>2, <1>2
<1>4. PICK m \in T : \A x \in T \ {m} : <<m, x>> \in R
  <2>1. Orders(R, T)
    BY <1>2 DEF Orders
  <2> QED  BY <1>2, <1>3, <2>1, FirstOf
<1> DEFINE U == T \ {m}
           n == Cardinality(T)
<1>5. U \in SUBSET T /\ U # T /\ Cardinality(U) = n - 1 /\ n \in Nat /\ n - 1 \in Nat
  <2>1. Cardinality(U) = n - 1 /\ n \in Nat
    BY <1>2, FS_RemoveElement, FS_CardinalityType
  <2>2. Cardinality(U) \in Nat
    BY <1>2, FS_Subset, FS_CardinalityType
  <2> QED  BY <2>1, <2>2
<1>6. PICK u : InOrder(u, U, R)
  BY <1>1, <1>2, <1>5
<1> DEFINE s == [i \in 1 .. n |-> IF i = 1 THEN m ELSE u[i - 1]]
<1>7. u \in [1 .. n - 1 -> U] /\ \A i, j \in 1 .. n - 1 : i < j => <<u[i], u[j]>> \in R
  BY <1>5, <1>6 DEF InOrder
<1> HIDE DEF n
<1>8. s \in [1 .. n -> T]
  <2>1. ASSUME NEW i \in 1 .. n, i # 1 PROVE i - 1 \in 1 .. n - 1 /\ u[i - 1] \in T
    BY <1>5, <1>7, <2>1
  <2> QED  BY <2>1
<1>9. ASSUME NEW i \in 1 .. n, NEW j \in 1 .. n, i < j PROVE <<s[i], s[j]>> \in R
  <2>1. j # 1 /\ j - 1 \in 1 .. n - 1 /\ s[j] = u[j - 1] /\ u[j - 1] \in U
    BY <1>5, <1>7, <1>9
  <2>2. CASE i = 1
    BY <1>4, <2>1, <2>2
  <2>3. CASE i # 1
    BY <1>5, <1>7, <1>9, <2>1, <2>3, i - 1 \in 1 .. n - 1
  <2> QED  BY <2>2, <2>3
<1>10. InOrder(s, T, R)
  BY <1>8, <1>9 DEF InOrder, n
<1> QED  BY <1>2, <1>10

-----------------------------------------------------------------------------
(* The order of the candidates.                                            *)

\* A sequence that lists a set without repetition.
Lists(s, S) ==
    /\ s \in Seq(S)
    /\ Len(s) = Cardinality(S)
    /\ IsInjective(s)

\* A set that is put in order is listed, each element once.
LEMMA SortedLists ==
  ASSUME NEW S, IsFiniteSet(S), NEW R, Orders(R, S), NEW s, InOrder(s, S, R)
  PROVE  Lists(s, S)
<1> DEFINE n == Cardinality(S)
<1>1. n \in Nat
  BY FS_CardinalityType
<1>2. s \in [1 .. n -> S] /\ \A i, j \in 1 .. n : i < j => <<s[i], s[j]>> \in R
  BY DEF InOrder
<1> HIDE DEF n
<1>3. s \in Seq(S) /\ Len(s) = n /\ DOMAIN s = 1 .. n
  BY <1>1, <1>2
<1>4. ASSUME NEW i \in 1 .. n, NEW j \in 1 .. n, s[i] = s[j], i # j PROVE FALSE
  <2>1. s[i] \in S /\ s[j] \in S
    BY <1>2
  <2>2. i < j \/ j < i
    BY <1>1, <1>4
  <2> QED  BY <1>2, <1>4, <2>1, <2>2 DEF Orders
<1> QED  BY <1>3, <1>4 DEF Lists, IsInjective, n

\* The keys behind the chosen one are listed.
LEMMA SortedByWeight ==
  ASSUME NEW S \in SUBSET Keys
  PROVE  Lists(Sorted(S, Heavier), S)
<1> DEFINE R == {p \in S \X S : Heavier(p[1], p[2])}
<1>1. IsFiniteSet(S) /\ \A k \in S : k \in Nat /\ Weight[k] \in Nat
  BY ServingAssumption, FS_Subset
<1>2. \A x, y \in S : <<x, y>> \in R <=> Heavier(x, y)
  OBVIOUS
<1> HIDE DEF R
<1>3. Orders(R, S)
  BY <1>1, <1>2 DEF Orders, Heavier
<1>4. \E s : InOrder(s, S, R)
  BY <1>1, <1>3, SortedExists
<1>5. \E s \in [1 .. Cardinality(S) -> S] :
        \A i, j \in 1 .. Cardinality(S) : i < j => Heavier(s[i], s[j])
  BY <1>2, <1>4 DEF InOrder
<1>6. InOrder(Sorted(S, Heavier), S, R)
  BY <1>2, <1>5 DEF InOrder, Sorted
<1> QED  BY <1>1, <1>3, <1>6, SortedLists

\* A place is a number.
LEMMA PlaceType == \A k : Place(k) \in Nat
<1> TAKE k
<1> DEFINE at == {i \in DOMAIN TargetOrder : TargetOrder[i] = k}
<1>1. TargetOrder \in Seq(Keys) /\ Len(TargetOrder) \in Nat
  BY ServingAssumption
<1>2. at \in SUBSET Nat /\ at \subseteq 1 .. Len(TargetOrder)
  BY <1>1
<1>3. IsFiniteSet(at)
  BY <1>1, <1>2, FS_Interval, FS_Subset
<1> HIDE DEF at
<1>4. at # {} => Max(at) \in at
  BY <1>2, <1>3, MaxIn
<1> QED  BY <1>1, <1>2, <1>4 DEF Place, at

\* The keys of a sequential rule are listed.
LEMMA SortedByPlace ==
  ASSUME NEW S \in SUBSET Keys
  PROVE  Lists(Sorted(S, Sooner), S)
<1> DEFINE R == {p \in S \X S : Sooner(p[1], p[2])}
<1>1. IsFiniteSet(S) /\ \A k \in S : k \in Nat /\ Place(k) \in Nat
  BY ServingAssumption, FS_Subset, PlaceType
<1>2. \A x, y \in S : <<x, y>> \in R <=> Sooner(x, y)
  OBVIOUS
<1> HIDE DEF R
<1>3. Orders(R, S)
  BY <1>1, <1>2 DEF Orders, Sooner
<1>4. \E s : InOrder(s, S, R)
  BY <1>1, <1>3, SortedExists
<1>5. \E s \in [1 .. Cardinality(S) -> S] :
        \A i, j \in 1 .. Cardinality(S) : i < j => Sooner(s[i], s[j])
  BY <1>2, <1>4 DEF InOrder
<1>6. InOrder(Sorted(S, Sooner), S, R)
  BY <1>2, <1>5 DEF InOrder, Sorted
<1> QED  BY <1>1, <1>3, <1>6, SortedLists

\* To go around an order keeps its elements.
LEMMA RotationLists ==
  ASSUME NEW S, NEW s, Lists(s, S), NEW k
  PROVE  Lists(RotatedTo(s, k), S)
<1> DEFINE at == {i \in DOMAIN s : s[i] = k}
           i == CHOOSE j \in at : TRUE
           n == Len(s)
           t == RotatedTo(s, k)
<1>1. CASE at = {}
  BY <1>1 DEF RotatedTo
<1>2. CASE at # {}
  <2>1. s \in Seq(S) /\ n \in Nat /\ DOMAIN s = 1 .. n /\ i \in 1 .. n
    BY <1>2 DEF Lists
  <2> DEFINE u == SubSeq(s, i, n)
             v == SubSeq(s, 1, i - 1)
  <2>2. t = u \o v
    BY <1>2 DEF RotatedTo
  <2> HIDE DEF i, n, t
  <2>3. /\ u \in Seq(S) /\ Len(u) = n - i + 1
        /\ \A j \in 1 .. n - i + 1 : u[j] = s[j + i - 1]
    BY <2>1
  <2>4. /\ v \in Seq(S) /\ Len(v) = i - 1
        /\ \A j \in 1 .. i - 1 : v[j] = s[j]
    BY <2>1
  <2> HIDE DEF u, v
  <2>5. t \in Seq(S) /\ Len(t) = n /\ DOMAIN t = 1 .. n
    <3>1. t \in Seq(S) /\ Len(t) = Len(u) + Len(v)
      BY <2>2, <2>3, <2>4, ConcatProperties
    <3>2. (n - i + 1) + (i - 1) = n
      BY <2>1
    <3> QED  BY <2>3, <2>4, <3>1, <3>2
  <2> DEFINE At(j) == IF j <= n - i + 1 THEN j + i - 1 ELSE j - (n - i + 1)
  <2>6. ASSUME NEW j \in 1 .. n PROVE At(j) \in 1 .. n /\ t[j] = s[At(j)]
    <3>1. CASE j <= n - i + 1
      BY <2>1, <2>2, <2>3, <2>4, <3>1
    <3>2. CASE ~(j <= n - i + 1)
      BY <2>1, <2>2, <2>3, <2>4, <3>2
    <3> QED  BY <3>1, <3>2
  <2>7. \A j, m \in 1 .. n : At(j) = At(m) => j = m
    BY <2>1
  <2> HIDE DEF At
  <2>8. IsInjective(t)
    BY <2>1, <2>5, <2>6, <2>7 DEF IsInjective, Lists
  <2> QED  BY <2>5, <2>8 DEF Lists, n, t
<1> QED  BY <1>1, <1>2

\* The chosen key and the list of the others list them all.
LEMMA FirstAndRest ==
  ASSUME NEW S, IsFiniteSet(S), NEW x \in S, NEW s, Lists(s, S \ {x})
  PROVE  Lists(<<x>> \o s, S)
<1>1. s \in Seq(S \ {x}) /\ Len(s) \in Nat /\ DOMAIN s = 1 .. Len(s)
  BY DEF Lists
<1> DEFINE t == <<x>> \o s
<1>2. /\ t \in Seq(S) /\ Len(t) = Len(s) + 1 /\ DOMAIN t = 1 .. Len(s) + 1
      /\ t[1] = x /\ \A i \in 1 .. Len(s) : t[i + 1] = s[i]
  BY <1>1
<1>3. Len(s) = Cardinality(S) - 1 /\ Cardinality(S) \in Nat
  BY FS_RemoveElement, FS_CardinalityType DEF Lists
<1>4. \A i \in 1 .. Len(s) : s[i] # x
  BY <1>1
<1> HIDE DEF t
<1>5. ASSUME NEW i \in DOMAIN t, NEW j \in DOMAIN t, t[i] = t[j], i < j PROVE FALSE
  <2>1. j - 1 \in 1 .. Len(s) /\ t[j] = s[j - 1]
    BY <1>1, <1>2, <1>5
  <2>2. i # 1
    BY <1>2, <1>4, <1>5, <2>1
  <2>3. i - 1 \in 1 .. Len(s) /\ t[i] = s[i - 1]
    BY <1>1, <1>2, <2>2
  <2>4. i - 1 = j - 1
    BY <1>1, <1>5, <2>1, <2>3 DEF Lists, IsInjective
  <2> QED  BY <1>2, <1>5, <2>4
<1>6. IsInjective(t)
  BY <1>1, <1>2, <1>5 DEF IsInjective
<1> QED  BY <1>2, <1>3, <1>6 DEF Lists, t

-----------------------------------------------------------------------------
(* The pools of the weighted round robin.                                  *)

Pool == [rule : Rules \ Sequential, keys : (SUBSET Keys) \ {{}},
         current : UNION {[c -> Int] : c \in SUBSET Keys},
         picked : UNION {[c -> Nat] : c \in SUBSET Keys}]

Turns(pool) == SumFunctionOnSet(pool.picked, pool.keys)

\* The points of a pool cancel out; no key owes a whole turn; and the points
\* of a key are what is due to it by its weight less what it got.
Balanced(pool) ==
    /\ pool.current \in [pool.keys -> Int] /\ pool.picked \in [pool.keys -> Nat]
    /\ SumFunctionOnSet(pool.current, pool.keys) = 0
    /\ \A k \in pool.keys :
        /\ pool.current[k] > 0 - TotalWeight(pool.keys)
        /\ pool.current[k] = Turns(pool) * Weight[k]
                                - TotalWeight(pool.keys) * pool.picked[k]

\* What the current values and the picks of a pool are.
LEMMA PoolTypes ==
  ASSUME NEW pool \in Pool, Balanced(pool)
  PROVE  /\ pool.keys \subseteq Keys /\ pool.keys # {} /\ IsFiniteSet(pool.keys)
         /\ \A k \in pool.keys : Weight[k] \in Nat /\ Weight[k] > 0 /\ k \in Nat
         /\ TotalWeight(pool.keys) \in Nat /\ TotalWeight(pool.keys) > 0
         /\ Turns(pool) \in Nat
         /\ \A k \in pool.keys : pool.current[k] \in Int /\ pool.picked[k] \in Nat
<1> DEFINE c == pool.keys
<1>1. c \subseteq Keys /\ c # {}
  BY DEF Pool
<1>2. IsFiniteSet(c) /\ \A k \in c : Weight[k] \in Nat /\ Weight[k] > 0 /\ k \in Nat
  <2>1. IsFiniteSet(c)
    BY <1>1, ServingAssumption, FS_Subset
  <2> HIDE DEF c
  <2>2. \A k \in Keys : Weight[k] \in Nat /\ Weight[k] > 0 /\ k \in Nat
    BY ServingAssumption
  <2> QED  BY <1>1, <2>1, <2>2
<1>3. \A k \in c : pool.current[k] \in Int /\ pool.picked[k] \in Nat
  BY DEF Balanced
<1>4. TotalWeight(c) \in Nat /\ Turns(pool) \in Nat
  BY <1>2, <1>3, SumNat DEF TotalWeight, Turns
<1>5. TotalWeight(c) > 0
  <2>1. PICK k \in c : TRUE
    BY <1>1
  <2>2. IsFiniteSet(c \ {k}) /\ \A j \in c : Weight[j] \in Int
    BY <1>2, FS_Subset
  <2>3. SumFunctionOnSet(Weight, c \ {k}) \in Nat
    BY <1>2, <2>2, SumNat
  <2>4. TotalWeight(c) = Weight[k] + SumFunctionOnSet(Weight, c \ {k})
    BY <1>2, <2>2, SumTakesAny DEF TotalWeight
  <2> QED  BY <1>2, <2>3, <2>4
<1> QED  BY <1>1, <1>2, <1>3, <1>4, <1>5

\* The gains add up to the weight of the pool.
LEMMA GainsAddUp ==
  ASSUME NEW pool \in Pool, Balanced(pool)
  PROVE  /\ Gained(pool) \in [pool.keys -> Int]
         /\ SumFunctionOnSet(Gained(pool), pool.keys) = TotalWeight(pool.keys)
<1>1. \A k \in pool.keys : pool.current[k] \in Int /\ Weight[k] \in Int /\ IsFiniteSet(pool.keys)
  BY PoolTypes
<1>2. Gained(pool) \in [pool.keys -> Int]
  BY <1>1 DEF Gained
<1>3. \A k \in pool.keys : Gained(pool)[k] = pool.current[k] + Weight[k]
  BY DEF Gained
<1>4. SumFunctionOnSet(Gained(pool), pool.keys)
        = SumFunctionOnSet(pool.current, pool.keys) + SumFunctionOnSet(Weight, pool.keys)
  BY <1>1, <1>3, PoolTypes, SumOfBoth
<1> QED  BY <1>2, <1>4, PoolTypes DEF Balanced, TotalWeight

\* The chosen key is one of the pool, and it is ahead.
LEMMA SelectedIsAhead ==
  ASSUME NEW pool \in Pool, Balanced(pool)
  PROVE  Selected(pool) \in pool.keys /\ Gained(pool)[Selected(pool)] > 0
<1> DEFINE c == pool.keys
           gain == Gained(pool)
           ahead == {k \in c : \A j \in c : gain[j] <= gain[k]}
<1>1. /\ IsFiniteSet(c) /\ c # {} /\ \A k \in c : gain[k] \in Int
      /\ SumFunctionOnSet(gain, c) > 0
  BY PoolTypes, GainsAddUp
<1> HIDE DEF gain
<1>2. PICK m \in c : gain[m] > 0
  BY <1>1, SumPositive
<1>3. ahead # {}
  BY <1>1, LargestValue
<1>4. ahead \in SUBSET Int /\ IsFiniteSet(ahead)
  BY <1>1, PoolTypes, FS_Subset
<1>5. Min(ahead) \in ahead
  BY <1>3, <1>4, MinIn
<1>6. Selected(pool) = Min(ahead)
  BY DEF Selected, gain
<1>7. Selected(pool) \in c /\ gain[m] <= gain[Selected(pool)]
  BY <1>5, <1>6
<1> QED  BY <1>1, <1>2, <1>7 DEF gain

\* A turn of the round robin keeps a pool balanced.
LEMMA TurnedBalanced ==
  ASSUME NEW pool \in Pool, Balanced(pool)
  PROVE  /\ Turned(pool) \in Pool /\ Balanced(Turned(pool))
         /\ Turned(pool).rule = pool.rule /\ Turned(pool).keys = pool.keys
<1> DEFINE c == pool.keys
           w == TotalWeight(c)
           s == Selected(pool)
           gain == Gained(pool)
           current == [gain EXCEPT ![s] = @ - w]
           picked == [pool.picked EXCEPT ![s] = @ + 1]
           next == Turned(pool)
<1>1. /\ c \subseteq Keys /\ c # {} /\ IsFiniteSet(c)
      /\ \A k \in c : Weight[k] \in Nat /\ Weight[k] > 0
      /\ w \in Nat /\ w > 0 /\ Turns(pool) \in Nat
      /\ \A k \in c : pool.current[k] \in Int /\ pool.picked[k] \in Nat
      /\ s \in c /\ gain[s] > 0 /\ gain \in [c -> Int]
      /\ SumFunctionOnSet(gain, c) = w
      /\ \A k \in c : gain[k] = pool.current[k] + Weight[k]
  BY PoolTypes, GainsAddUp, SelectedIsAhead DEF Gained
<1>2. /\ pool.picked \in [c -> Nat] /\ pool.current \in [c -> Int]
      /\ \A k \in c : /\ pool.current[k] > 0 - w
                      /\ pool.current[k] = Turns(pool) * Weight[k] - w * pool.picked[k]
  BY DEF Balanced
<1>3. /\ next = [rule |-> pool.rule, keys |-> c, current |-> current, picked |-> Picked(pool)]
      /\ pool.rule \in Rules \ Sequential
  <2>1. /\ pool = [rule |-> pool.rule, keys |-> pool.keys,
                   current |-> pool.current, picked |-> pool.picked]
        /\ pool.rule \in Rules \ Sequential
    BY DEF Pool
  <2>2. next = [pool EXCEPT !.current = current, !.picked = Picked(pool)]
    BY DEF Turned
  <2> HIDE DEF current, next, c
  <2> QED  BY <2>1, <2>2 DEF c
<1> HIDE DEF w, s, gain, next
<1>4. /\ current \in [c -> Int] /\ current[s] = gain[s] - w
      /\ \A k \in c \ {s} : current[k] = gain[k]
  BY <1>1
<1>5. /\ picked \in [c -> Nat] /\ picked[s] = pool.picked[s] + 1
      /\ \A k \in c \ {s} : picked[k] = pool.picked[k]
  BY <1>1, <1>2
<1> HIDE DEF current, picked
<1>6. SumFunctionOnSet(current, c) = 0
  <2>1. current[s] = gain[s] + (0 - w) /\ 0 - w \in Int /\ \A k \in c : gain[k] \in Int
    BY <1>1, <1>4
  <2>2. SumFunctionOnSet(current, c) = SumFunctionOnSet(gain, c) + (0 - w)
    BY <1>1, <1>4, <2>1, SumUpdated
  <2> QED  BY <1>1, <2>2
<1>7. \A k \in c : current[k] > 0 - w
  BY <1>1, <1>2, <1>4
<1> DEFINE turns == SumFunctionOnSet(picked, c)
<1>8. turns = Turns(pool) + 1
  <2>1. \A k \in c : pool.picked[k] \in Int
    BY <1>1
  <2> QED  BY <1>1, <1>5, <2>1, SumUpdated DEF Turns
<1> HIDE DEF turns
<1>9. \A k \in c : current[k] = turns * Weight[k] - w * picked[k]
  <2> TAKE k \in c
  <2>1. /\ pool.current[k] \in Int /\ Weight[k] \in Int /\ pool.picked[k] \in Int
        /\ w \in Int /\ Turns(pool) \in Int
    BY <1>1
  <2>2. turns * Weight[k] = Turns(pool) * Weight[k] + Weight[k]
    BY <1>8, <2>1
  <2>3. w * (pool.picked[k] + 1) = w * pool.picked[k] + w
    BY <2>1
  <2>4. pool.current[k] = Turns(pool) * Weight[k] - w * pool.picked[k]
    BY <1>2
  <2>5. gain[k] = pool.current[k] + Weight[k]
    BY <1>1
  <2>6. Turns(pool) * Weight[k] \in Int /\ w * pool.picked[k] \in Int
    BY <2>1
  <2>7. CASE k = s
    BY <1>4, <1>5, <2>1, <2>2, <2>3, <2>4, <2>5, <2>6, <2>7
  <2>8. CASE k # s
    BY <1>4, <1>5, <2>1, <2>2, <2>4, <2>5, <2>6, <2>8
  <2> QED  BY <2>7, <2>8
<1>10. CASE Picked(pool) = picked
  <2>1. next \in Pool /\ next.picked = picked /\ next.current = current /\ next.keys = c
        /\ next.rule = pool.rule
    BY <1>1, <1>3, <1>4, <1>5, <1>10 DEF Pool
  <2>2. Turns(next) = turns
    BY <2>1 DEF Turns, turns
  <2> QED  BY <1>4, <1>5, <1>6, <1>7, <1>9, <2>1, <2>2 DEF Balanced, w, next
<1>11. CASE Picked(pool) # picked
  <2> DEFINE zeros == [k \in c |-> 0]
  <2>1. Picked(pool) = zeros /\ picked = Restrict(Weight, c)
    BY <1>11 DEF Picked, picked, s
  <2>2. \A k \in c : picked[k] = Weight[k]
    BY <2>1 DEF Restrict
  <2>3. turns = w
    BY <1>1, <2>2, SumOfSame DEF turns, w, TotalWeight
  <2>4. \A k \in c : current[k] = 0
    <3> TAKE k \in c
    <3>1. w * Weight[k] - w * Weight[k] = 0
      BY <1>1
    <3> QED  BY <1>9, <2>2, <2>3, <3>1
  <2>5. zeros \in [c -> Nat] /\ \A k \in c : zeros[k] = 0
    OBVIOUS
  <2> HIDE DEF zeros
  <2>6. next \in Pool /\ next.picked = zeros /\ next.current = current /\ next.keys = c
        /\ next.rule = pool.rule
    BY <1>1, <1>3, <1>4, <2>1, <2>5 DEF Pool
  <2>7. Turns(next) = 0
    <3>1. SumFunctionOnSet(zeros, c) = 0 * Cardinality(c)
      BY <1>1, <2>5, SumOfConstant
    <3>2. Cardinality(c) \in Nat
      BY <1>1, FS_CardinalityType
    <3> QED  BY <2>6, <3>1, <3>2 DEF Turns
  <2>8. \A k \in c : current[k] = 0 * Weight[k] - w * zeros[k]
    <3>1. \A k \in c : 0 * Weight[k] - w * 0 = 0
      BY <1>1
    <3> QED  BY <2>4, <2>5, <3>1
  <2> QED  BY <1>4, <1>6, <1>7, <2>5, <2>6, <2>7, <2>8 DEF Balanced, w, next
<1> QED  BY <1>10, <1>11

\* The weight of a pool is a number above zero.
LEMMA WeightsPositive ==
  ASSUME NEW c \in SUBSET Keys
  PROVE  IsFiniteSet(c) /\ \A k \in c : Weight[k] \in Nat /\ Weight[k] > 0
<1>1. IsFiniteSet(c)
  BY ServingAssumption, FS_Subset
<1>2. \A k \in c : Weight[k] \in Nat /\ Weight[k] > 0
  BY ServingAssumption
<1> QED  BY <1>1, <1>2

\* A pool the round robin meets for the first time.
LEMMA NewBalanced ==
  ASSUME NEW rule \in Rules \ Sequential, NEW c \in SUBSET Keys, c # {}
  PROVE  LET zeros == [k \in c |-> 0]
             pool == [rule |-> rule, keys |-> c, current |-> zeros, picked |-> zeros]
         IN  pool \in Pool /\ Balanced(pool)
<1>1. IsFiniteSet(c) /\ \A k \in c : Weight[k] \in Nat /\ Weight[k] > 0
  BY WeightsPositive
<1> DEFINE zeros == [k \in c |-> 0]
           pool == [rule |-> rule, keys |-> c, current |-> zeros, picked |-> zeros]
           w == TotalWeight(c)
<1>2. zeros \in [c -> Nat] /\ zeros \in [c -> Int] /\ \A k \in c : zeros[k] = 0
  OBVIOUS
<1> HIDE DEF zeros
<1>3. pool \in Pool /\ pool.keys = c /\ pool.current = zeros /\ pool.picked = zeros
  BY <1>2 DEF Pool
<1>4. SumFunctionOnSet(zeros, c) = 0
  <2>1. SumFunctionOnSet(zeros, c) = 0 * Cardinality(c)
    BY <1>1, <1>2, SumOfConstant
  <2> QED  BY <1>1, <2>1, FS_CardinalityType
<1>5. w \in Nat /\ w > 0
  <2>1. SumFunctionOnSet(Weight, c) >= 1 * Cardinality(c)
    <3>1. \A k \in c : Weight[k] \in Int /\ Weight[k] >= 1
      BY <1>1
    <3> QED  BY <1>1, <3>1, SumAtLeast
  <2>2. Cardinality(c) \in Nat /\ Cardinality(c) # 0
    BY <1>1, FS_CardinalityType, FS_EmptySet
  <2>3. SumFunctionOnSet(Weight, c) \in Nat
    BY <1>1, SumNat
  <2> QED  BY <2>1, <2>2, <2>3 DEF TotalWeight
<1> HIDE DEF w, pool
<1>6. Turns(pool) = 0
  BY <1>3, <1>4 DEF Turns
<1>7. \A k \in c : zeros[k] > 0 - w /\ zeros[k] = 0 * Weight[k] - w * zeros[k]
  <2>1. \A k \in c : 0 * Weight[k] - w * 0 = 0 /\ 0 > 0 - w
    BY <1>1, <1>5
  <2> QED  BY <1>2, <2>1
<1> QED  BY <1>2, <1>3, <1>4, <1>6, <1>7 DEF Balanced, w, pool, zeros

\* The remembered pools are balanced, and of different candidates.
PoolsOK(s) ==
    /\ s \in Seq(Pool)
    /\ Len(s) <= MaxPools
    /\ \A i \in 1 .. Len(s) : Balanced(s[i])
    /\ \A i, j \in 1 .. Len(s) :
        i # j => s[i].rule # s[j].rule \/ s[i].keys # s[j].keys

\* The state of a pool that is looked up is balanced, known or not.
LEMMA PoolStateBalanced ==
  ASSUME PoolsOK(pools), NEW rule \in Rules \ Sequential,
         NEW c \in SUBSET Keys, c # {}
  PROVE  /\ PoolState(rule, c) \in Pool /\ Balanced(PoolState(rule, c))
         /\ PoolState(rule, c).rule = rule /\ PoolState(rule, c).keys = c
<1> DEFINE zeros == [k \in c |-> 0]
           pool == [rule |-> rule, keys |-> c, current |-> zeros, picked |-> zeros]
           known == PoolIndex(rule, c)
           i == CHOOSE j \in known : TRUE
<1>1. CASE known = {}
  <2>1. pool \in Pool /\ Balanced(pool) /\ pool.rule = rule /\ pool.keys = c
    BY NewBalanced
  <2>2. PoolState(rule, c) = pool
    BY <1>1 DEF PoolState
  <2> HIDE DEF pool
  <2> QED  BY <2>1, <2>2
<1>2. CASE known # {}
  <2>1. i \in known
    BY <1>2
  <2>2. PoolState(rule, c) = pools[i]
    BY <1>2 DEF PoolState
  <2> HIDE DEF i, known
  <2>3. i \in 1 .. Len(pools) /\ pools[i].rule = rule /\ pools[i].keys = c
    BY <2>1 DEF known, PoolIndex, PoolsOK
  <2> QED  BY <2>2, <2>3 DEF PoolsOK
<1> QED  BY <1>1, <1>2

\* A pool taken out of the sequence.
LEMMA RemovedPool ==
  ASSUME PoolsOK(pools), NEW i \in 1 .. Len(pools)
  PROVE  LET others == RemoveAt(pools, i) IN
         /\ PoolsOK(others) /\ Len(others) = Len(pools) - 1
         /\ \A j \in 1 .. Len(others) :
                \E m \in 1 .. Len(pools) \ {i} : others[j] = pools[m]
<1> DEFINE n == Len(pools)
           u == SubSeq(pools, 1, i - 1)
           v == SubSeq(pools, i + 1, n)
           others == RemoveAt(pools, i)
           At(j) == IF j < i THEN j ELSE j + 1
<1>1. pools \in Seq(Pool) /\ n \in Nat /\ i \in 1 .. n /\ n <= MaxPools /\ MaxPools \in Nat
  BY ServingAssumption DEF PoolsOK
<1>2. /\ u \in Seq(Pool) /\ Len(u) = i - 1
      /\ \A j \in 1 .. i - 1 : u[j] = pools[j]
  BY <1>1
<1>3. /\ v \in Seq(Pool) /\ Len(v) = n - i
      /\ \A j \in 1 .. n - i : v[j] = pools[j + i]
  <2>1. i + 1 \in 1 .. n + 1
    BY <1>1
  <2> QED  BY <1>1, <2>1, SubSeqProperties
<1>4. others = u \o v
  BY DEF RemoveAt
<1> HIDE DEF u, v, n, others
<1>5. others \in Seq(Pool) /\ Len(others) = n - 1
  <2>1. others \in Seq(Pool) /\ Len(others) = Len(u) + Len(v)
    BY <1>2, <1>3, <1>4, ConcatProperties
  <2> QED  BY <1>1, <1>2, <1>3, <2>1
<1>6. ASSUME NEW j \in 1 .. n - 1
      PROVE  At(j) \in 1 .. n /\ At(j) # i /\ others[j] = pools[At(j)]
  <2>1. CASE j < i
    BY <1>1, <1>2, <1>3, <1>4, <2>1, ConcatProperties
  <2>2. CASE ~(j < i)
    <3>1. j - (i - 1) \in 1 .. n - i /\ j - (i - 1) + i = j + 1
      BY <1>1, <2>2
    <3>2. others[j] = v[j - (i - 1)]
      BY <1>1, <1>2, <1>3, <1>4, <2>2, <3>1, ConcatProperties
    <3> QED  BY <1>1, <1>3, <2>2, <3>1, <3>2
  <2> QED  BY <2>1, <2>2
<1>7. \A j, m \in 1 .. n - 1 : j # m => At(j) # At(m)
  BY <1>1
<1> HIDE DEF At
<1>8. PoolsOK(others)
  <2>1. n - 1 <= MaxPools
    BY <1>1
  <2>2. \A j \in 1 .. n - 1 : Balanced(others[j])
    BY <1>6 DEF PoolsOK, n
  <2>3. \A j, m \in 1 .. n - 1 : j # m =>
            others[j].rule # others[m].rule \/ others[j].keys # others[m].keys
    <3> SUFFICES ASSUME NEW j \in 1 .. n - 1, NEW m \in 1 .. n - 1, j # m
                 PROVE  others[j].rule # others[m].rule \/ others[j].keys # others[m].keys
      OBVIOUS
    <3>1. At(j) \in 1 .. n /\ At(m) \in 1 .. n /\ At(j) # At(m)
      BY <1>6, <1>7
    <3> QED  BY <1>6, <3>1 DEF PoolsOK, n
  <2> QED  BY <1>5, <2>1, <2>2, <2>3 DEF PoolsOK
<1> QED  BY <1>5, <1>6, <1>8 DEF n, others

\* Pools stay in order when the least recent one is forgotten.
LEMMA TailOK ==
  ASSUME NEW s \in Seq(Pool), Len(s) = MaxPools + 1,
         \A i \in 1 .. Len(s) : Balanced(s[i]),
         \A i, j \in 1 .. Len(s) :
            i # j => s[i].rule # s[j].rule \/ s[i].keys # s[j].keys
  PROVE  PoolsOK(Tail(s))
<1>1. /\ Tail(s) \in Seq(Pool) /\ Len(Tail(s)) = MaxPools
      /\ \A i \in 1 .. MaxPools : Tail(s)[i] = s[i + 1]
      /\ MaxPools \in Nat
  BY ServingAssumption, HeadTailProperties
<1>2. \A i \in 1 .. MaxPools : i + 1 \in 1 .. Len(s)
  BY <1>1
<1> QED  BY <1>1, <1>2 DEF PoolsOK

\* Pools stay in order when one is remembered.
LEMMA RememberedOK ==
  ASSUME PoolsOK(pools), NEW pool \in Pool, Balanced(pool)
  PROVE  PoolsOK(Remembered(pool))
<1> DEFINE known == PoolIndex(pool.rule, pool.keys)
           i == CHOOSE j \in known : TRUE
           others == IF known = {} THEN pools ELSE RemoveAt(pools, i)
           all == Append(others, pool)
<1>1. /\ PoolsOK(others)
      /\ \A j \in 1 .. Len(others) :
            others[j].rule # pool.rule \/ others[j].keys # pool.keys
  <2>1. DOMAIN pools = 1 .. Len(pools)
    BY DEF PoolsOK
  <2>2. CASE known = {}
    BY <2>1, <2>2 DEF PoolIndex
  <2>3. CASE known # {}
    <3>1. i \in known /\ others = RemoveAt(pools, i)
      BY <2>3
    <3> HIDE DEF i, others
    <3>2. i \in 1 .. Len(pools) /\ pools[i].rule = pool.rule /\ pools[i].keys = pool.keys
      BY <2>1, <3>1 DEF PoolIndex
    <3>3. PoolsOK(others)
      BY <3>1, <3>2, RemovedPool
    <3>4. \A j \in 1 .. Len(others) :
            \E m \in 1 .. Len(pools) \ {i} : others[j] = pools[m]
      BY <3>1, <3>2, RemovedPool
    <3>5. \A m \in 1 .. Len(pools) \ {i} :
            pools[m].rule # pool.rule \/ pools[m].keys # pool.keys
      BY <3>2 DEF PoolsOK
    <3> QED  BY <3>3, <3>4, <3>5
  <2> QED  BY <2>2, <2>3
<1>2. Remembered(pool) = IF Len(all) > MaxPools THEN Tail(all) ELSE all
  BY DEF Remembered
<1> HIDE DEF others
<1>3. /\ others \in Seq(Pool) /\ Len(others) \in Nat /\ Len(others) <= MaxPools
      /\ MaxPools \in Nat
  BY <1>1, ServingAssumption DEF PoolsOK
<1>4. /\ all \in Seq(Pool) /\ Len(all) = Len(others) + 1
      /\ \A j \in 1 .. Len(others) : all[j] = others[j]
      /\ all[Len(others) + 1] = pool
  BY <1>3, AppendProperties
<1> HIDE DEF all
<1>5. \A j \in 1 .. Len(all) : j \in 1 .. Len(others) \/ j = Len(others) + 1
  BY <1>3, <1>4
<1>6. /\ \A j \in 1 .. Len(all) : Balanced(all[j])
      /\ \A j, m \in 1 .. Len(all) :
            j # m => all[j].rule # all[m].rule \/ all[j].keys # all[m].keys
  <2>1. \A j \in 1 .. Len(others) : all[j] = others[j] /\ Balanced(others[j])
    BY <1>1, <1>4 DEF PoolsOK
  <2>2. \A j \in 1 .. Len(all) : Balanced(all[j])
    BY <1>4, <1>5, <2>1
  <2>3. ASSUME NEW j \in 1 .. Len(all), NEW m \in 1 .. Len(all), j # m
        PROVE  all[j].rule # all[m].rule \/ all[j].keys # all[m].keys
    <3>1. CASE j = Len(others) + 1
      <4>1. m \in 1 .. Len(others)
        BY <1>5, <2>3, <3>1
      <4> QED  BY <1>1, <1>4, <3>1, <4>1
    <3>2. CASE m = Len(others) + 1
      <4>1. j \in 1 .. Len(others)
        BY <1>5, <2>3, <3>2
      <4> QED  BY <1>1, <1>4, <3>2, <4>1
    <3>3. CASE j \in 1 .. Len(others) /\ m \in 1 .. Len(others)
      BY <1>1, <1>4, <2>3, <3>3 DEF PoolsOK
    <3> QED  BY <1>5, <3>1, <3>2, <3>3
  <2> QED  BY <2>2, <2>3
<1>7. CASE Len(all) > MaxPools
  <2>1. Len(all) = MaxPools + 1
    BY <1>3, <1>4, <1>7
  <2> QED  BY <1>2, <1>4, <1>6, <1>7, <2>1, TailOK
<1>8. CASE ~(Len(all) > MaxPools)
  <2>1. Len(all) <= MaxPools
    BY <1>3, <1>4, <1>8
  <2> QED  BY <1>2, <1>4, <1>6, <1>8, <2>1 DEF PoolsOK
<1> QED  BY <1>7, <1>8

\* Pools stay in order when a choice is made.
LEMMA PoolsAfterOK ==
  ASSUME PoolsOK(pools), NEW rule \in Rules, NEW c \in SUBSET Keys, c # {}
  PROVE  PoolsOK(PoolsAfter(rule, c))
<1>1. CASE rule \in Sequential
  BY <1>1 DEF PoolsAfter
<1>2. CASE rule \notin Sequential
  <2>1. PoolState(rule, c) \in Pool /\ Balanced(PoolState(rule, c))
    BY <1>2, PoolStateBalanced
  <2>2. Turned(PoolState(rule, c)) \in Pool /\ Balanced(Turned(PoolState(rule, c)))
    BY <2>1, TurnedBalanced
  <2> QED  BY <1>2, <2>2, RememberedOK DEF PoolsAfter
<1> QED  BY <1>1, <1>2

\* A choice lists the candidates, each of them once.
LEMMA OrderLists ==
  ASSUME PoolsOK(pools), NEW rule \in Rules, NEW c \in SUBSET Keys, c # {}
  PROVE  Lists(OrderCandidates(rule, c), c)
<1>1. CASE rule \in Sequential
  <2>1. Lists(Sorted(c, Sooner), c)
    BY SortedByPlace
  <2> QED  BY <1>1, <2>1, RotationLists DEF OrderCandidates, SequentialOrder
<1>2. CASE rule \notin Sequential
  <2> DEFINE pool == PoolState(rule, c)
             s == Selected(pool)
  <2>1. pool \in Pool /\ Balanced(pool) /\ pool.keys = c
    BY <1>2, PoolStateBalanced
  <2>2. s \in c /\ IsFiniteSet(c)
    BY <2>1, SelectedIsAhead, WeightsPositive
  <2>3. Lists(Sorted(c \ {s}, Heavier), c \ {s})
    BY SortedByWeight
  <2>4. Lists(<<s>> \o Sorted(c \ {s}, Heavier), c)
    BY <2>2, <2>3, FirstAndRest
  <2> QED  BY <1>2, <2>1, <2>4 DEF OrderCandidates, WeightedOrder
<1> QED  BY <1>1, <1>2

-----------------------------------------------------------------------------
(* The inductive invariant.                                                *)

\* A request, and what is known of it at a time.
IsFunction(reqs, S) == reqs = [r \in S |-> reqs[r]]

Counts(day) == [used : Nat, date : 0 .. day, total : Nat]

RowsOK(rows, day) ==
    /\ DOMAIN rows \subseteq Keys /\ IsFunction(rows, DOMAIN rows)
    /\ \A k \in DOMAIN rows : rows[k] \in Counts(day)

RequestOK(req, now) ==
    /\ req.phase \in {"new", "reading", "choosing", "open", "served", "stamped",
                       "logged", "gone"}
    /\ req.phase = "reading" => RowsOK(req.rows, Day(now))
    /\ req.phase = "choosing" => req.keys \in (SUBSET Keys) \ {{}}
    /\ req.phase = "open" =>
        /\ req \in [phase : {"open"}, rule : Rules, order : Seq(Keys)]
        /\ req.order # <<>> /\ IsInjective(req.order)
    /\ req.phase \in {"served", "stamped", "logged"} =>
        req.key \in Keys /\ req.tokens \in TokenCounts /\ req.rule \in Rules
    /\ req.phase \in {"stamped", "logged"} => req.day \in 0 .. Day(now)
    /\ req.phase = "logged" => req.at \in 0 .. now

RequestsOK(reqs, now) ==
    /\ IsFunction(reqs, Requests)
    /\ \A r \in Requests : RequestOK(reqs[r], now)

\* What a page has read is of a day before the one it writes.
SweepOK(page, day) ==
    /\ page.day \in 0 .. day /\ RowsOK(page.rows, day)
    /\ \A k \in DOMAIN page.rows : page.rows[k].date < page.day

Shape ==
    /\ clock \in 0 .. MaxClock
    /\ RowsOK(row, Today)
    /\ active \in [Sequential -> Keys \cup {None}]
    /\ RequestsOK(request, clock)
    /\ sweep # None => SweepOK(sweep, Today)
    /\ peak \in [Limited -> 0 .. Cardinality(Requests)]
    /\ unsettled \subseteq Keys

\* The parts of the properties, over the values they speak about.
LogsOf(reqs, k) == {r \in Requests : reqs[r].phase = "logged" /\ reqs[r].key = k}
LogsOn(reqs, k, day) == {r \in LogsOf(reqs, k) : reqs[r].day = day}
TokensOf(reqs, ids) == SumFunctionOnSet([r \in ids |-> reqs[r].tokens], ids)

CountsOf(rows, reqs, day, late, k) ==
    /\ rows[k].total = TokensOf(reqs, LogsOf(reqs, k))
    /\ k \notin late
        => UsedOn(rows[k], day) = TokensOf(reqs, LogsOn(reqs, k, day))

AddUp(rows, reqs, day, late) ==
    \A k \in DOMAIN rows : CountsOf(rows, reqs, day, late, k)

MostTokens == Max(TokenCounts)
Slack(k, most) == IF most = 0 THEN 0 ELSE DailyLimit[k] - 1

\* A limited key that was ever held has a limit that lets a request in, and
\* what it has used fits below it together with what may still come.
Held(reqs, day, most) ==
    \A k \in Limited :
        /\ HeldBy(reqs, k, day) <= most[k]
        /\ most[k] # 0 => DailyLimit[k] >= 1

Fits(rows, reqs, day, late, most) ==
    \A k \in Limited \cap DOMAIN rows :
        k \notin late
        => UsedOn(rows[k], day) + MostTokens * HeldBy(reqs, k, day)
            <= MostTokens * most[k] + Slack(k, most[k])

IInv ==
    /\ Shape
    /\ PoolsOK(pools)
    /\ AddUp(row, request, Today, unsettled)
    /\ Held(request, Today, peak)
    /\ Fits(row, request, Today, unsettled, peak)

-----------------------------------------------------------------------------
(* Days, tokens and holders.                                               *)

\* Days do not go back, and a day begins within itself.
LEMMA Days ==
  /\ \A t \in Nat : Day(t) \in Nat /\ Day(t) <= Day(t + 1)
  /\ \A day \in Nat : Day(day * DayLength) = day
<1>1. DayLength \in Nat \ {0}
  BY ServingAssumption
<1>2. \A t \in Nat : t \div DayLength \in Nat
  BY <1>1
<1>3. \A t \in Nat : t \div DayLength <= (t + 1) \div DayLength
  BY <1>1
<1>4. \A day \in Nat : (day * DayLength) \div DayLength = day
  BY <1>1
<1> QED  BY <1>2, <1>3, <1>4 DEF Day

\* No request uses more than the most a request may use.
LEMMA MostTokensIs ==
  MostTokens \in Nat /\ \A n \in TokenCounts : n \in Nat /\ n <= MostTokens
<1>1. TokenCounts \in SUBSET Int /\ IsFiniteSet(TokenCounts) /\ TokenCounts # {}
  BY ServingAssumption
<1>2. Max(TokenCounts) \in TokenCounts /\ \A n \in TokenCounts : n <= Max(TokenCounts)
  BY <1>1, MaxIn
<1> QED  BY <1>2, ServingAssumption DEF MostTokens

\* The tokens of a set of logs depend on those logs only.
LEMMA TokensKept ==
  ASSUME NEW old, NEW reqs, NEW ids, \A r \in ids : reqs[r] = old[r]
  PROVE  TokensOf(reqs, ids) = TokensOf(old, ids)
<1>1. [r \in ids |-> reqs[r].tokens] = [r \in ids |-> old[r].tokens]
  OBVIOUS
<1> QED  BY <1>1 DEF TokensOf

\* The logs of a key stay as they are.
SameLogs(old, reqs, k) ==
    \A r \in Requests :
        \/ reqs[r] = old[r]
        \/ /\ ~(old[r].phase = "logged" /\ old[r].key = k)
           /\ ~(reqs[r].phase = "logged" /\ reqs[r].key = k)

\* So do the sums over them.
LEMMA LogsKept ==
  ASSUME NEW old, NEW reqs, NEW k, SameLogs(old, reqs, k)
  PROVE  /\ TokensOf(reqs, LogsOf(reqs, k)) = TokensOf(old, LogsOf(old, k))
         /\ \A day : TokensOf(reqs, LogsOn(reqs, k, day))
                        = TokensOf(old, LogsOn(old, k, day))
<1>1. LogsOf(reqs, k) = LogsOf(old, k) /\ \A r \in LogsOf(old, k) : reqs[r] = old[r]
  BY DEF LogsOf, SameLogs
<1>2. \A day : /\ LogsOn(reqs, k, day) = LogsOn(old, k, day)
               /\ \A r \in LogsOn(old, k, day) : reqs[r] = old[r]
  BY <1>1 DEF LogsOn
<1> QED  BY <1>1, <1>2, TokensKept

\* One log more.
LEMMA TokensOfOneMore ==
  ASSUME NEW old, NEW reqs, NEW ids \in SUBSET Requests, NEW r \in Requests \ ids,
         \A i \in ids : reqs[i] = old[i],
         \A i \in ids \cup {r} : reqs[i].tokens \in Nat
  PROVE  TokensOf(reqs, ids \cup {r}) = TokensOf(old, ids) + reqs[r].tokens
<1> DEFINE f == [i \in ids \cup {r} |-> reqs[i].tokens]
           g == [i \in ids |-> reqs[i].tokens]
<1>1. IsFiniteSet(ids)
  BY ServingAssumption, FS_Subset
<1>2. /\ \A i \in ids \cup {r} : f[i] \in Int
      /\ \A i \in ids : f[i] = g[i] /\ g[i] \in Int
      /\ f[r] = reqs[r].tokens
  OBVIOUS
<1>3. TokensOf(reqs, ids \cup {r}) = SumFunctionOnSet(f, ids \cup {r})
  BY DEF TokensOf
<1>4. TokensOf(old, ids) = SumFunctionOnSet(g, ids)
  <2>1. g = [i \in ids |-> old[i].tokens]
    OBVIOUS
  <2> HIDE DEF g
  <2> QED  BY <2>1 DEF TokensOf
<1> HIDE DEF f, g
<1>5. SumFunctionOnSet(f, ids \cup {r}) = f[r] + SumFunctionOnSet(f, ids)
  BY <1>1, <1>2, SumAddsOne
<1>6. SumFunctionOnSet(f, ids) = SumFunctionOnSet(g, ids)
  BY <1>1, <1>2, SumOfSame
<1>7. SumFunctionOnSet(g, ids) \in Int /\ f[r] \in Int
  BY <1>1, <1>2, SumType
<1> QED  BY <1>2, <1>3, <1>4, <1>5, <1>6, <1>7

\* The counters add up as before when totals, counters of the day and logs stay.
LEMMA AddUpKept ==
  ASSUME NEW old, NEW rows, NEW before, NEW reqs, NEW day, NEW was, NEW late,
         AddUp(old, before, day, was),
         \A k \in DOMAIN rows :
            /\ k \in DOMAIN old /\ rows[k].total = old[k].total
            /\ k \notin late => /\ k \notin was
                                /\ UsedOn(rows[k], day) = UsedOn(old[k], day)
            /\ SameLogs(before, reqs, k)
  PROVE  AddUp(rows, reqs, day, late)
<1> SUFFICES ASSUME NEW k \in DOMAIN rows PROVE CountsOf(rows, reqs, day, late, k)
  BY DEF AddUp
<1>1. CountsOf(old, before, day, was, k)
  BY DEF AddUp
<1>2. /\ TokensOf(reqs, LogsOf(reqs, k)) = TokensOf(before, LogsOf(before, k))
      /\ TokensOf(reqs, LogsOn(reqs, k, day)) = TokensOf(before, LogsOn(before, k, day))
  BY LogsKept
<1> QED  BY <1>1, <1>2 DEF CountsOf

\* How many requests hold a key.
LEMMA HeldByType ==
  \A reqs, k, day : /\ HeldBy(reqs, k, day) \in Nat
                    /\ HeldBy(reqs, k, day) <= Cardinality(Requests)
<1> TAKE reqs, k, day
<1>1. {r \in Requests : Holds(reqs[r], k, day)} \in SUBSET Requests /\ IsFiniteSet(Requests)
  BY ServingAssumption
<1> HIDE DEF Holds
<1> QED  BY <1>1, FS_Subset, FS_CardinalityType DEF HeldBy

\* Fewer holders.
LEMMA HeldByFewer ==
  ASSUME NEW old, NEW reqs, NEW k, NEW day, NEW today,
         \A r \in Requests : Holds(reqs[r], k, day) => Holds(old[r], k, today)
  PROVE  HeldBy(reqs, k, day) <= HeldBy(old, k, today)
<1> DEFINE S == {r \in Requests : Holds(reqs[r], k, day)}
           T == {r \in Requests : Holds(old[r], k, today)}
<1>1. S \in SUBSET T /\ IsFiniteSet(T)
  <2>1. IsFiniteSet(Requests) /\ T \in SUBSET Requests
    BY ServingAssumption
  <2> QED  BY <2>1, FS_Subset
<1> HIDE DEF Holds
<1> QED  BY <1>1, FS_Subset DEF HeldBy

\* A holder less.
LEMMA HeldByOneLess ==
  ASSUME NEW old, NEW reqs, NEW k, NEW day, NEW q \in Requests,
         \A r \in Requests \ {q} : reqs[r] = old[r],
         Holds(old[q], k, day), ~Holds(reqs[q], k, day)
  PROVE  HeldBy(reqs, k, day) = HeldBy(old, k, day) - 1
<1> DEFINE S == {r \in Requests : Holds(reqs[r], k, day)}
           T == {r \in Requests : Holds(old[r], k, day)}
<1>1. S = T \ {q} /\ q \in T
  OBVIOUS
<1>2. IsFiniteSet(T)
  <2>1. IsFiniteSet(Requests) /\ T \in SUBSET Requests
    BY ServingAssumption
  <2> QED  BY <2>1, FS_Subset
<1> HIDE DEF S, T
<1>3. Cardinality(S) = Cardinality(T) - 1
  BY <1>1, <1>2, FS_RemoveElement
<1> QED  BY <1>3 DEF HeldBy, S, T

\* What was used on a day is a number.
LEMMA UsedType ==
  ASSUME NEW day \in Nat, NEW counts \in Counts(day), NEW today
  PROVE  UsedOn(counts, today) \in Nat
BY DEF Counts, UsedOn

\* Less use and fewer holders fit as well.
LEMMA FitsKept ==
  ASSUME NEW old, NEW rows, NEW before, NEW reqs, NEW day, NEW today,
         NEW was, NEW late, NEW most \in [Limited -> Nat],
         Held(before, day, most), Fits(old, before, day, was, most),
         \A k \in Limited : HeldBy(reqs, k, today) <= HeldBy(before, k, day),
         \A k \in DOMAIN rows : k \notin late =>
            /\ k \in DOMAIN old /\ k \notin was
            /\ UsedOn(old[k], day) \in Nat /\ UsedOn(rows[k], today) \in Nat
            /\ UsedOn(rows[k], today) <= UsedOn(old[k], day)
  PROVE  Held(reqs, today, most) /\ Fits(rows, reqs, today, late, most)
<1>1. \A k \in Limited : /\ most[k] \in Nat /\ DailyLimit[k] \in Int
                         /\ HeldBy(reqs, k, today) \in Nat /\ HeldBy(before, k, day) \in Nat
  BY HeldByType, ServingAssumption DEF Limited
<1>2. Held(reqs, today, most)
  BY <1>1 DEF Held
<1>3. ASSUME NEW k \in Limited \cap DOMAIN rows, k \notin late
      PROVE  UsedOn(rows[k], today) + MostTokens * HeldBy(reqs, k, today)
                <= MostTokens * most[k] + Slack(k, most[k])
  <2> DEFINE a == HeldBy(reqs, k, today)
             b == HeldBy(before, k, day)
             c == MostTokens * most[k] + Slack(k, most[k])
             u == UsedOn(rows[k], today)
             v == UsedOn(old[k], day)
  <2>1. a \in Nat /\ b \in Nat /\ a <= b /\ MostTokens \in Nat
    BY <1>1, MostTokensIs
  <2>2. MostTokens * a <= MostTokens * b /\ MostTokens * a \in Nat /\ MostTokens * b \in Nat
    BY <2>1
  <2>3. u \in Nat /\ v \in Nat /\ u <= v
    BY <1>3
  <2>4. v + MostTokens * b <= c
    BY <1>3 DEF Fits
  <2>5. c \in Int
    BY <1>1, <2>1 DEF Slack
  <2> HIDE DEF a, b, c, u, v
  <2>6. u + MostTokens * a <= c
    BY <2>2, <2>3, <2>4, <2>5
  <2> QED  BY <2>6 DEF a, c, u
<1> QED  BY <1>2, <1>3 DEF Fits

-----------------------------------------------------------------------------
(* The initial states.                                                     *)

\* The larger of two numbers.
LEMMA MaxOfTwo ==
  ASSUME NEW a \in Nat, NEW b \in Nat
  PROVE  Max({a, b}) \in {a, b} /\ a <= Max({a, b}) /\ b <= Max({a, b})
<1>1. {a, b} \in SUBSET Int /\ IsFiniteSet({a, b}) /\ {a, b} # {}
  <2>1. {a, b} = {a} \cup {b} /\ IsFiniteSet({a})
    BY FS_Singleton
  <2> QED  BY <2>1, FS_AddElement
<1> QED  BY <1>1, MaxIn

\* The initial states satisfy the invariant.
LEMMA InitOK == Init => IInv
<1> SUFFICES ASSUME Init PROVE IInv
  OBVIOUS
<1>0. DayLength \in Nat \ {0} /\ MaxClock \in Nat /\ MaxPools \in Nat
  BY ServingAssumption
<1>1. Today = 0
  BY <1>0 DEF Init, Today, Day
<1>2. DOMAIN row = Keys /\ \A k \in Keys : row[k] = [used |-> 0, date |-> 0, total |-> 0]
  BY DEF Init
<1>3. \A r \in Requests : request[r] = [phase |-> "new"]
  BY DEF Init
<1>4. \A k : HeldBy(request, k, Today) = 0
  <2> TAKE k
  <2>1. {r \in Requests : Holds(request[r], k, Today)} = {}
    BY <1>3 DEF Holds
  <2> QED  BY <2>1, FS_EmptySet DEF HeldBy
<1>5. Shape
  <2>1. RowsOK(row, Today)
    BY <1>1, <1>2, <1>0 DEF RowsOK, Counts, Init, IsFunction
  <2>2. RequestsOK(request, clock)
    BY <1>3 DEF RequestsOK, RequestOK, Init, IsFunction
  <2>3. peak \in [Limited -> 0 .. Cardinality(Requests)]
    BY ServingAssumption, FS_CardinalityType DEF Init
  <2>4. clock \in 0 .. MaxClock /\ active \in [Sequential -> Keys \cup {None}]
    BY <1>0 DEF Init
  <2> QED  BY <2>1, <2>2, <2>3, <2>4 DEF Shape, Init
<1>6. PoolsOK(pools)
  BY <1>0 DEF PoolsOK, Init
<1>7. AddUp(row, request, Today, unsettled)
  <2> SUFFICES ASSUME NEW k \in Keys PROVE CountsOf(row, request, Today, unsettled, k)
    BY <1>2 DEF AddUp
  <2>1. LogsOf(request, k) = {} /\ LogsOn(request, k, Today) = {}
    BY <1>3 DEF LogsOf, LogsOn
  <2>2. TokensOf(request, {}) = 0
    BY SumOfNone DEF TokensOf
  <2> QED  BY <1>2, <2>1, <2>2 DEF CountsOf, UsedOn
<1>8. Held(request, Today, peak)
  BY <1>4 DEF Held, Init
<1>9. Fits(row, request, Today, unsettled, peak)
  <2> SUFFICES ASSUME NEW k \in Limited \cap Keys
               PROVE  UsedOn(row[k], Today) + MostTokens * HeldBy(request, k, Today)
                        <= MostTokens * peak[k] + Slack(k, peak[k])
    BY <1>2 DEF Fits
  <2>1. UsedOn(row[k], Today) = 0 /\ HeldBy(request, k, Today) = 0 /\ peak[k] = 0 /\ Slack(k, peak[k]) = 0
    BY <1>2, <1>4 DEF UsedOn, Init, Slack
  <2>2. MostTokens * 0 = 0
    BY MostTokensIs
  <2> QED  BY <2>1, <2>2
<1> QED  BY <1>5, <1>6, <1>7, <1>8, <1>9 DEF IInv

-----------------------------------------------------------------------------
(* The steps.                                                              *)

\* Facts of every state.
LEMMA Typed ==
  ASSUME IInv
  PROVE  /\ clock \in Nat /\ clock <= MaxClock /\ Today \in Nat /\ Today = Day(clock)
         /\ DOMAIN row \subseteq Keys /\ IsFunction(row, DOMAIN row)
         /\ \A k \in DOMAIN row : row[k] \in Counts(Today)
         /\ IsFunction(request, Requests)
         /\ \A r \in Requests : RequestOK(request[r], clock)
         /\ peak \in [Limited -> Nat]
         /\ \A k \in DOMAIN row : UsedOn(row[k], Today) \in Nat
<1>1. clock \in Nat /\ clock <= MaxClock /\ Today = Day(clock)
  BY ServingAssumption DEF IInv, Shape, Today
<1>2. Today \in Nat
  BY <1>1, Days
<1>3. \A k \in DOMAIN row : row[k] \in Counts(Today)
  BY DEF IInv, Shape, RowsOK
<1>4. \A k \in DOMAIN row : UsedOn(row[k], Today) \in Nat
  BY <1>2, <1>3, UsedType
<1>5. peak \in [Limited -> Nat]
  BY ServingAssumption, FS_CardinalityType DEF IInv, Shape
<1> QED  BY <1>1, <1>2, <1>3, <1>4, <1>5 DEF IInv, Shape, RowsOK, RequestsOK

\* A step that leaves the counters alone, touches no log, and lets no
\* request hold a key it did not hold.
LEMMA QuietStep ==
  ASSUME IInv, UNCHANGED <<clock, row, peak, unsettled>>,
         \A r \in Requests :
            \/ request'[r] = request[r]
            \/ request[r].phase # "logged" /\ request'[r].phase # "logged",
         \A k \in Keys, r \in Requests : Holds(request'[r], k, Today) => Holds(request[r], k, Today),
         RequestsOK(request', clock), active' \in [Sequential -> Keys \cup {None}],
         sweep' # None => SweepOK(sweep', Today), PoolsOK(pools')
  PROVE  IInv'
<1>1. Today' = Today
  BY DEF Today
<1>2. Shape'
  BY <1>1 DEF IInv, Shape
<1>3. AddUp(row, request, Today, unsettled)
  BY DEF IInv
<1>4. AddUp(row, request', Today, unsettled)
  <2>1. \A k \in DOMAIN row : SameLogs(request, request', k)
    BY DEF SameLogs
  <2> QED  BY <1>3, <2>1, AddUpKept
<1>5. Held(request', Today, peak) /\ Fits(row, request', Today, unsettled, peak)
  <2>1. Limited \subseteq Keys
    BY DEF Limited
  <2>2. \A k \in Limited : HeldBy(request', k, Today) <= HeldBy(request, k, Today)
    BY <2>1, HeldByFewer
  <2>3. Held(request, Today, peak) /\ Fits(row, request, Today, unsettled, peak)
    BY DEF IInv
  <2>4. \A k \in DOMAIN row : UsedOn(row[k], Today) \in Nat /\ UsedOn(row[k], Today) <= UsedOn(row[k], Today)
    BY Typed
  <2> QED  BY <2>2, <2>3, <2>4, Typed, FitsKept
<1> QED  BY <1>1, <1>2, <1>4, <1>5 DEF IInv

\* The first key of an order and what is left after it.
LEMMA RestOfOrder ==
  ASSUME NEW s \in Seq(Keys), s # <<>>
  PROVE  /\ Head(s) \in Keys /\ Head(s) \in ToSet(s)
         /\ ToSet(Tail(s)) \subseteq ToSet(s) /\ Tail(s) \in Seq(Keys)
         /\ Len(s) > 1 => Tail(s) # <<>>
         /\ IsInjective(s) => IsInjective(Tail(s))
<1>1. /\ Head(s) = s[1] /\ s[1] \in Keys /\ Tail(s) \in Seq(Keys) /\ Len(s) \in Nat
      /\ Len(s) >= 1 /\ DOMAIN s = 1 .. Len(s) /\ Len(Tail(s)) = Len(s) - 1
      /\ DOMAIN Tail(s) = 1 .. Len(s) - 1
      /\ \A i \in 1 .. Len(s) - 1 : Tail(s)[i] = s[i + 1]
  BY HeadTailProperties
<1>2. \A i \in 1 .. Len(s) - 1 : i + 1 \in 1 .. Len(s)
  BY <1>1
<1>3. Head(s) \in ToSet(s) /\ ToSet(Tail(s)) \subseteq ToSet(s)
  BY <1>1, <1>2 DEF ToSet
<1>4. IsInjective(s) => IsInjective(Tail(s))
  BY <1>1, <1>2 DEF IsInjective
<1>5. Len(s) > 1 => Tail(s) # <<>>
  BY <1>1
<1> QED  BY <1>1, <1>3, <1>4, <1>5

\* What the invariant says of a sweep, a pool and an active key.
LEMMA Others ==
  ASSUME IInv
  PROVE  /\ active \in [Sequential -> Keys \cup {None}]
         /\ sweep # None => SweepOK(sweep, Today)
         /\ PoolsOK(pools) /\ RequestsOK(request, clock)
BY DEF IInv, Shape

\* The request alone changes, and it holds no key it did not hold.
LEMMA QuietRequest ==
  ASSUME IInv, NEW r \in Requests, NEW req, request' = [request EXCEPT ![r] = req],
         RequestOK(req, clock), request[r].phase # "logged", req.phase # "logged",
         \A k \in Keys : Holds(req, k, Today) => Holds(request[r], k, Today),
         active' \in [Sequential -> Keys \cup {None}],
         UNCHANGED <<clock, row, pools, sweep, peak, unsettled>>
  PROVE  IInv'
<1>0. IsFunction(request, Requests) /\ RequestsOK(request, clock)
  BY Others DEF RequestsOK
<1>a. /\ IsFunction(request', Requests) /\ request'[r] = req
      /\ \A i \in Requests \ {r} : request'[i] = request[i]
  <2>1. request' = [i \in Requests |-> IF i = r THEN req ELSE request[i]]
    BY <1>0 DEF IsFunction
  <2>2. request'[r] = req /\ \A i \in Requests \ {r} : request'[i] = request[i]
    BY <2>1
  <2>3. request' = [i \in Requests |-> request'[i]]
    BY <2>1
  <2> QED  BY <2>2, <2>3 DEF IsFunction
<1>1. /\ request'[r] = req /\ \A i \in Requests \ {r} : request'[i] = request[i]
      /\ RequestsOK(request', clock)
  BY <1>0, <1>a DEF RequestsOK
<1>2. \A i \in Requests :
        \/ request'[i] = request[i]
        \/ request[i].phase # "logged" /\ request'[i].phase # "logged"
  BY <1>1
<1>3. \A k \in Keys, i \in Requests : Holds(request'[i], k, Today) => Holds(request[i], k, Today)
  BY <1>1
<1> QED  BY <1>1, <1>2, <1>3, Others, QuietStep

\* The next key is one the request held already.
LEMMA FailStep ==
  ASSUME IInv, NEW r \in Requests, Fail(r)
  PROVE  IInv'
<1> DEFINE old == request[r]
           open == [old EXCEPT !.order = Tail(@)]
           req == IF Len(old.order) > 1 THEN open ELSE [phase |-> "gone"]
<1>0. /\ old.phase = "open"
      /\ UNCHANGED <<clock, row, pools, active, sweep, peak, unsettled>>
  BY DEF Fail
<1>1. request' = [request EXCEPT ![r] = req]
  BY DEF Fail
<1>2. /\ old \in [phase : {"open"}, rule : Rules, order : Seq(Keys)]
      /\ old.order # <<>> /\ IsInjective(old.order) /\ old.order \in Seq(Keys)
  BY <1>0, Typed DEF RequestOK
<1>3. /\ Tail(old.order) \in Seq(Keys) /\ IsInjective(Tail(old.order))
      /\ Len(old.order) > 1 => Tail(old.order) # <<>>
      /\ ToSet(Tail(old.order)) \subseteq ToSet(old.order)
  BY <1>2, RestOfOrder
<1>4. /\ open \in [phase : {"open"}, rule : Rules, order : Seq(Keys)]
      /\ open.order = Tail(old.order) /\ open.phase = "open"
  BY <1>2, <1>3
<1> HIDE DEF old, open
<1>5. RequestOK(req, clock) /\ req.phase # "logged"
  <2>1. CASE Len(old.order) > 1
    BY <1>3, <1>4, <2>1 DEF RequestOK
  <2>2. CASE ~(Len(old.order) > 1)
    BY <2>2 DEF RequestOK
  <2> QED  BY <2>1, <2>2
<1>6. \A k \in Keys : Holds(req, k, Today) => Holds(old, k, Today)
  BY <1>0, <1>3, <1>4 DEF Holds
<1> HIDE DEF req
<1> QED  BY <1>0, <1>1, <1>5, <1>6, Others, QuietRequest DEF old

\* The key that answered is one the request held.
LEMMA ServeStep ==
  ASSUME IInv, NEW r \in Requests, Serve(r)
  PROVE  IInv'
<1> DEFINE old == request[r]
           k == Head(old.order)
<1>1. /\ old.phase = "open"
      /\ UNCHANGED <<clock, row, pools, sweep, peak, unsettled>>
  BY DEF Serve
<1>2. PICK n \in TokenCounts, complete \in BOOLEAN :
        /\ request' = [request EXCEPT ![r] =
                [phase |-> "served", rule |-> old.rule, key |-> k, tokens |-> n]]
        /\ active' = IF complete /\ old.rule \in Sequential
                     THEN [active EXCEPT ![old.rule] = k] ELSE active
  BY DEF Serve
<1> DEFINE req == [phase |-> "served", rule |-> old.rule, key |-> k, tokens |-> n]
<1>3. /\ old.rule \in Rules /\ old.order \in Seq(Keys) /\ old.order # <<>>
  BY <1>1, Typed DEF RequestOK
<1>4. k \in Keys /\ k \in ToSet(old.order)
  BY <1>3, RestOfOrder
<1> HIDE DEF old, k
<1>5. RequestOK(req, clock) /\ req.phase = "served"
  BY <1>3, <1>4 DEF RequestOK
<1>6. \A j \in Keys : Holds(req, j, Today) => Holds(old, j, Today)
  BY <1>1, <1>4 DEF Holds
<1>7. active' \in [Sequential -> Keys \cup {None}]
  BY <1>2, <1>4, Others
<1>8. request' = [request EXCEPT ![r] = req] /\ request[r].phase # "logged"
  BY <1>1, <1>2 DEF old
<1> HIDE DEF req
<1> QED  BY <1>1, <1>5, <1>6, <1>7, <1>8, QuietRequest DEF old

\* The date is that of today.
LEMMA StampStep ==
  ASSUME IInv, NEW r \in Requests, Stamp(r)
  PROVE  IInv'
<1> DEFINE old == request[r]
           req == [phase |-> "stamped", rule |-> old.rule, key |-> old.key,
                   tokens |-> old.tokens, day |-> Today]
<1>1. /\ old.phase = "served" /\ request' = [request EXCEPT ![r] = req]
      /\ UNCHANGED <<clock, row, pools, active, sweep, peak, unsettled>>
  BY DEF Stamp
<1>2. old.rule \in Rules /\ old.key \in Keys /\ old.tokens \in TokenCounts
  BY <1>1, Typed DEF RequestOK
<1> HIDE DEF old
<1>3. RequestOK(req, clock) /\ req.phase # "logged"
  BY <1>2, Typed DEF RequestOK
<1>4. \A k \in Keys : Holds(req, k, Today) => Holds(old, k, Today)
  BY <1>1 DEF Holds
<1> HIDE DEF req
<1> QED  BY <1>1, <1>3, <1>4, Others, QuietRequest DEF old

\* A log that is lost is held by no key.
LEMMA LoseLogStep ==
  ASSUME IInv, NEW r \in Requests, LoseLog(r)
  PROVE  IInv'
<1> DEFINE req == [phase |-> "gone"]
<1>1. RequestOK(req, clock) /\ req.phase # "logged" /\ \A k \in Keys : ~Holds(req, k, Today)
  BY DEF RequestOK, Holds
<1>2. /\ request[r].phase = "stamped" /\ request' = [request EXCEPT ![r] = req]
      /\ UNCHANGED <<clock, row, pools, active, sweep, peak, unsettled>>
  BY DEF LoseLog
<1> HIDE DEF req
<1> QED  BY <1>1, <1>2, Others, QuietRequest

\* The requests stay.
LEMMA SameRequests ==
  ASSUME IInv, UNCHANGED <<clock, row, request, peak, unsettled>>,
         active' \in [Sequential -> Keys \cup {None}],
         sweep' # None => SweepOK(sweep', Today), PoolsOK(pools')
  PROVE  IInv'
<1>1. RequestsOK(request', clock)
  BY Others
<1> QED  BY <1>1, QuietStep

\* A look at the order turns the round robin and changes nothing else.
LEMMA PeekStep ==
  ASSUME IInv, NEW rule \in Rules, Peek(rule)
  PROVE  IInv'
<1>1. PICK c \in SUBSET Keys : c # {} /\ pools' = PoolsAfter(rule, c)
  BY DEF Peek
<1>2. PoolsOK(pools')
  BY <1>1, Others, PoolsAfterOK
<1> QED  BY <1>2, Others, SameRequests DEF Peek

\* The active key is forgotten.
LEMMA ExpiryStep ==
  ASSUME IInv, NEW rule \in Sequential, ActiveExpires(rule)
  PROVE  IInv'
<1>1. active' \in [Sequential -> Keys \cup {None}]
  BY Others DEF ActiveExpires
<1> QED  BY <1>1, Others, SameRequests DEF ActiveExpires

\* A page reads the counters of days before.
LEMMA SweepReadsStep ==
  ASSUME IInv, SweepReads
  PROVE  IInv'
<1> DEFINE old == {k \in DOMAIN row : row[k].date # Today}
           page == [day |-> Today, rows |-> Restrict(row, old)]
<1>1. sweep' = page
  BY DEF SweepReads
<1>2. /\ page.day = Today /\ DOMAIN page.rows = old
      /\ page.rows = [k \in old |-> row[k]] /\ \A k \in old : page.rows[k] = row[k]
  BY DEF Restrict
<1>3. /\ old \subseteq Keys /\ Today \in Nat
      /\ \A k \in old : row[k] \in Counts(Today) /\ row[k].date \in 0 .. Today
                        /\ row[k].date < Today
  BY Typed DEF Counts
<1> HIDE DEF page, old
<1>4. SweepOK(page, Today)
  <2>1. IsFunction(page.rows, DOMAIN page.rows)
    BY <1>2 DEF IsFunction
  <2> QED  BY <1>2, <1>3, <2>1 DEF SweepOK, RowsOK
<1> QED  BY <1>1, <1>4, Others, SameRequests DEF SweepReads

\* A page gives up.
LEMMA SweepFailsStep ==
  ASSUME IInv, SweepFails
  PROVE  IInv'
BY Others, SameRequests DEF SweepFails

\* A restart loses requests and pools, no log and no counter.
LEMMA RestartStep ==
  ASSUME IInv, Restart
  PROVE  IInv'
<1>1. /\ request' = [r \in Requests |->
            IF request[r].phase \notin {"new", "logged"} THEN [phase |-> "gone"]
            ELSE request[r]]
      /\ pools' = <<>> /\ sweep' = None
      /\ UNCHANGED <<clock, row, active, peak, unsettled>>
  BY DEF Restart
<1>2. RequestOK([phase |-> "gone"], clock) /\ \A k \in Keys : ~Holds([phase |-> "gone"], k, Today)
  BY DEF RequestOK, Holds
<1>3. \A r \in Requests : request'[r] = request[r] \/
            (request'[r] = [phase |-> "gone"] /\ request[r].phase # "logged")
  BY <1>1
<1>4. RequestsOK(request', clock)
  <2>1. IsFunction(request', Requests)
    BY <1>1 DEF IsFunction
  <2>2. \A r \in Requests : RequestOK(request'[r], clock)
    BY <1>2, <1>3, Typed
  <2> QED  BY <2>1, <2>2 DEF RequestsOK
<1>5. PoolsOK(pools')
  BY <1>1, ServingAssumption DEF PoolsOK
<1>6. \A r \in Requests :
        \/ request'[r] = request[r]
        \/ request[r].phase # "logged" /\ request'[r].phase # "logged"
  BY <1>3
<1>7. \A k \in Keys, r \in Requests : Holds(request'[r], k, Today) => Holds(request[r], k, Today)
  BY <1>2, <1>3
<1> QED  BY <1>1, <1>4, <1>5, <1>6, <1>7, Others, QuietStep

\* More requests may use more.
LEMMA MoreTokens ==
  ASSUME NEW a \in Nat, NEW b \in Nat, a <= b
  PROVE  /\ MostTokens * a \in Nat /\ MostTokens * b \in Nat
         /\ MostTokens * a <= MostTokens * b
BY MostTokensIs

\* A key that is held by a number of requests is held by one of them.
LEMMA HeldBySome ==
  ASSUME NEW reqs, NEW k, NEW day, HeldBy(reqs, k, day) # 0
  PROVE  \E r \in Requests : Holds(reqs[r], k, day)
<1> DEFINE S == {r \in Requests : Holds(reqs[r], k, day)}
<1>1. CASE S # {}
  BY <1>1
<1>2. CASE S = {}
  BY <1>2, FS_EmptySet DEF HeldBy
<1> QED  BY <1>1, <1>2

\* The limit of a held key lets somebody in: it did, or it does on the day that
\* a request that has read the counters is asked about.
LEMMA HolderHasLimit ==
  ASSUME IInv, NEW k \in Limited, NEW r \in Requests, NEW day, Holds(request[r], k, day)
  PROVE  DailyLimit[k] >= 1
<1>1. /\ DailyLimit[k] \in Int /\ DailyLimit[k] # NoLimit
      /\ HeldBy(request, k, Today) <= peak[k] /\ (peak[k] # 0 => DailyLimit[k] >= 1)
      /\ peak[k] \in Nat /\ HeldBy(request, k, Today) \in Nat
  BY HeldByType, Typed, ServingAssumption DEF IInv, Held, Limited
<1>2. CASE request[r].phase = "reading"
  <2>1. request[r].rows[k] \in Counts(Day(clock)) /\ Day(clock) \in Nat
    BY <1>2, Typed DEF Holds, RequestOK, RowsOK
  <2>2. UsedOn(request[r].rows[k], day) \in Nat
    BY <2>1, UsedType
  <2>3. UsedOn(request[r].rows[k], day) < DailyLimit[k]
    BY <1>1, <1>2 DEF Holds, PassesKeyLimits
  <2> QED  BY <1>1, <2>2, <2>3
<1>3. CASE request[r].phase # "reading"
  <2>1. Holds(request[r], k, Today)
    BY <1>3 DEF Holds
  <2>2. HeldBy(request, k, Today) # 0
    <3> DEFINE S == {i \in Requests : Holds(request[i], k, Today)}
    <3>1. IsFiniteSet(S) /\ S # {}
      BY <2>1, ServingAssumption, FS_Subset
    <3> HIDE DEF S
    <3>2. Cardinality(S) # 0
      BY <3>1, FS_EmptySet
    <3> QED  BY <3>2 DEF HeldBy, S
  <2> QED  BY <1>1, <2>2
<1> QED  BY <1>2, <1>3

\* The peak is the one there was or what the requests hold now.
LEMMA PeakGrows ==
  ASSUME IInv, NEW reqs, NEW day, peak' = PeakOf(reqs, day)
  PROVE  /\ peak' \in [Limited -> 0 .. Cardinality(Requests)]
         /\ \A k \in Limited :
                /\ peak'[k] = peak[k] \/ peak'[k] = HeldBy(reqs, k, day)
                /\ peak'[k] \in Nat /\ peak[k] <= peak'[k] /\ HeldBy(reqs, k, day) <= peak'[k]
<1>1. \A k \in Limited :
        /\ peak[k] \in Nat /\ peak[k] <= Cardinality(Requests)
        /\ HeldBy(reqs, k, day) \in Nat /\ HeldBy(reqs, k, day) <= Cardinality(Requests)
  BY HeldByType, ServingAssumption, FS_CardinalityType DEF IInv, Shape
<1>2. \A k \in Limited : peak'[k] = Max({peak[k], HeldBy(reqs, k, day)})
  BY DEF PeakOf
<1>3. \A k \in Limited :
        /\ peak'[k] = peak[k] \/ peak'[k] = HeldBy(reqs, k, day)
        /\ peak'[k] \in Nat /\ peak[k] <= peak'[k] /\ HeldBy(reqs, k, day) <= peak'[k]
  <2> TAKE k \in Limited
  <2>1. peak'[k] = Max({peak[k], HeldBy(reqs, k, day)})
    BY <1>2
  <2>2. peak[k] \in Nat /\ HeldBy(reqs, k, day) \in Nat
    BY <1>1
  <2> QED  BY <2>1, <2>2, MaxOfTwo
<1>4. \A k \in Limited : peak'[k] \in 0 .. Cardinality(Requests)
  BY <1>1, <1>3, ServingAssumption, FS_CardinalityType
<1> QED  BY <1>3, <1>4 DEF PeakOf

\* The limits let in by the counters as they are when they are read.
LEMMA ReadKeysStep ==
  ASSUME IInv, NEW r \in Requests, ReadKeys(r)
  PROVE  IInv'
<1> DEFINE req == [phase |-> "reading", rows |-> row]
<1>2. /\ request[r].phase = "new" /\ request' = [request EXCEPT ![r] = req]
      /\ peak' = PeakOf(request', Today)
      /\ UNCHANGED <<clock, row, pools, active, sweep, unsettled>>
  BY DEF ReadKeys
<1> DEFINE Free(k) == k \in DOMAIN row /\ PassesKeyLimits(k, row[k], Today)
<1>7. RequestOK(req, clock) /\ \A k : Holds(req, k, Today) <=> Free(k)
  BY Typed DEF RequestOK, Holds, RowsOK
<1>8. req.phase = "reading"
  OBVIOUS
<1> HIDE DEF req, Free
<1>9. /\ request'[r] = req /\ \A i \in Requests \ {r} : request'[i] = request[i]
      /\ IsFunction(request', Requests)
  <2>1. request' = [i \in Requests |-> IF i = r THEN req ELSE request[i]]
    BY <1>2, Typed DEF IsFunction
  <2>2. request'[r] = req /\ \A i \in Requests \ {r} : request'[i] = request[i]
    BY <2>1
  <2>3. request' = [i \in Requests |-> request'[i]]
    BY <2>1
  <2> QED  BY <2>2, <2>3 DEF IsFunction
<1>10. RequestsOK(request', clock)
  BY <1>7, <1>9, Typed DEF RequestsOK
<1>11. \A k \in Limited :
        /\ peak[k] \in Nat /\ HeldBy(request', k, Today) \in Nat
        /\ HeldBy(request, k, Today) \in Nat /\ HeldBy(request, k, Today) <= peak[k]
        /\ peak[k] # 0 => DailyLimit[k] >= 1
        /\ DailyLimit[k] \in Int /\ DailyLimit[k] # NoLimit
  BY HeldByType, Typed, ServingAssumption DEF IInv, Held, Limited
<1>12. /\ peak' \in [Limited -> 0 .. Cardinality(Requests)]
       /\ \A k \in Limited :
            /\ peak'[k] = peak[k] \/ peak'[k] = HeldBy(request', k, Today)
            /\ peak'[k] \in Nat /\ peak[k] <= peak'[k]
            /\ HeldBy(request', k, Today) <= peak'[k]
  BY <1>2, PeakGrows
<1>14. \A k \in Limited :
        IF Free(k) THEN HeldBy(request, k, Today) = HeldBy(request', k, Today) - 1
        ELSE HeldBy(request', k, Today) <= HeldBy(request, k, Today)
  <2> TAKE k \in Limited
  <2>1. ~Holds(request[r], k, Today)
    BY <1>2 DEF Holds
  <2>2. CASE Free(k)
    <3>1. Holds(request'[r], k, Today)
      BY <1>7, <1>9, <2>2
    <3>2. \A i \in Requests \ {r} : request[i] = request'[i]
      BY <1>9
    <3> QED  BY <2>1, <2>2, <3>1, <3>2, HeldByOneLess
  <2>3. CASE ~Free(k)
    <3>1. \A i \in Requests : Holds(request'[i], k, Today) => Holds(request[i], k, Today)
      BY <1>7, <1>9, <2>3
    <3> QED  BY <2>3, <3>1, HeldByFewer
  <2> QED  BY <2>2, <2>3
<1>15. \A k \in Limited : Free(k) =>
        UsedOn(row[k], Today) \in Nat /\ UsedOn(row[k], Today) < DailyLimit[k]
  BY <1>11, Typed DEF PassesKeyLimits, Free
<1>16. Held(request', Today, peak')
  <2> SUFFICES ASSUME NEW k \in Limited
               PROVE  /\ HeldBy(request', k, Today) <= peak'[k]
                      /\ peak'[k] # 0 => DailyLimit[k] >= 1
    BY DEF Held
  <2>1. CASE Free(k)
    BY <1>11, <1>12, <1>15, <2>1
  <2>2. CASE ~Free(k)
    BY <1>11, <1>12, <1>14, <2>2
  <2> QED  BY <2>1, <2>2
<1>17. Fits(row, request', Today, unsettled, peak')
  <2> SUFFICES ASSUME NEW k \in Limited \cap DOMAIN row, k \notin unsettled
               PROVE  UsedOn(row[k], Today) + MostTokens * HeldBy(request', k, Today)
                        <= MostTokens * peak'[k] + Slack(k, peak'[k])
    BY DEF Fits
  <2> DEFINE u == UsedOn(row[k], Today)
             a == HeldBy(request', k, Today)
             b == HeldBy(request, k, Today)
             p == peak[k]
             q == peak'[k]
  <2>1. /\ u \in Nat /\ a \in Nat /\ b \in Nat /\ p \in Nat /\ q \in Nat
        /\ a <= q /\ p <= q /\ b <= p /\ (q = p \/ q = a) /\ DailyLimit[k] \in Int
    BY <1>11, <1>12, Typed
  <2>2. MostTokens * a <= MostTokens * q /\ MostTokens * a \in Nat /\ MostTokens * q \in Nat
    BY <2>1, MoreTokens
  <2>3. CASE Free(k)
    <3>1. u < DailyLimit[k] /\ b = a - 1
      BY <1>14, <1>15, <2>3
    <3>2. q # 0
      BY <2>1, <3>1
    <3>3. Slack(k, q) = DailyLimit[k] - 1
      BY <3>2 DEF Slack
    <3> HIDE DEF u, a, b, p, q
    <3>4. u + MostTokens * a <= MostTokens * q + Slack(k, q)
      BY <2>1, <2>2, <3>1, <3>3
    <3> QED  BY <3>4 DEF u, a, q
  <2>4. CASE ~Free(k)
    <3>1. a <= b
      BY <1>14, <2>4
    <3>2. q = p
      BY <2>1, <3>1
    <3>3. MostTokens * a <= MostTokens * b /\ MostTokens * b \in Nat
      BY <2>1, <3>1, MoreTokens
    <3>4. u + MostTokens * b <= MostTokens * p + Slack(k, p)
      BY DEF IInv, Fits
    <3>5. Slack(k, p) \in Int
      BY <2>1 DEF Slack
    <3> HIDE DEF u, a, b, p, q
    <3>6. u + MostTokens * a <= MostTokens * q + Slack(k, q)
      BY <2>1, <2>2, <3>2, <3>3, <3>4, <3>5
    <3> QED  BY <3>6 DEF u, a, q
  <2> QED  BY <2>3, <2>4
<1>18. AddUp(row, request', Today, unsettled)
  <2>1. \A k \in DOMAIN row : SameLogs(request, request', k)
    BY <1>2, <1>8, <1>9 DEF SameLogs
  <2>2. AddUp(row, request, Today, unsettled)
    BY DEF IInv
  <2> QED  BY <2>1, <2>2, AddUpKept
<1>19. Today' = Today
  BY <1>2 DEF Today
<1>20. Shape'
  BY <1>2, <1>10, <1>12, <1>19 DEF IInv, Shape
<1> QED  BY <1>2, <1>16, <1>17, <1>18, <1>19, <1>20 DEF IInv

\* The candidates are keys that the counters which were read let in.
LEMMA FilterStep ==
  ASSUME IInv, NEW r \in Requests, FilterCandidates(r)
  PROVE  IInv'
<1> DEFINE rows == request[r].rows
           Let(out) == {k \in DOMAIN rows \ out : PassesKeyLimits(k, rows[k], Today)}
<1>1. /\ request[r].phase = "reading"
      /\ UNCHANGED <<clock, row, pools, active, sweep, peak, unsettled>>
  BY DEF FilterCandidates
<1>2. PICK out \in Outages :
        /\ Let(out) # {}
        /\ request' = [request EXCEPT ![r] = [phase |-> "choosing", keys |-> Let(out)]]
  BY DEF FilterCandidates
<1> DEFINE req == [phase |-> "choosing", keys |-> Let(out)]
<1>3. DOMAIN rows \subseteq Keys
  BY <1>1, Typed DEF RequestOK, RowsOK
<1>4. RequestOK(req, clock) /\ req.phase # "logged"
  BY <1>2, <1>3 DEF RequestOK
<1>5. \A k \in Keys : Holds(req, k, Today) => Holds(request[r], k, Today)
  BY <1>1 DEF Holds
<1>6. request' = [request EXCEPT ![r] = req]
  BY <1>2
<1> HIDE DEF req
<1> QED  BY <1>1, <1>4, <1>5, <1>6, Others, QuietRequest

\* The order is one of the candidates.
LEMMA ChooseStep ==
  ASSUME IInv, NEW r \in Requests, Choose(r)
  PROVE  IInv'
<1> DEFINE c == request[r].keys
<1>1. PICK rule \in Rules :
        /\ request' = [request EXCEPT ![r] =
                [phase |-> "open", rule |-> rule, order |-> OrderCandidates(rule, c)]]
        /\ pools' = PoolsAfter(rule, c)
  BY DEF Choose
<1>2. /\ request[r].phase = "choosing"
      /\ UNCHANGED <<clock, row, active, sweep, peak, unsettled>>
  BY DEF Choose
<1>3. c \in SUBSET Keys /\ c # {}
  BY <1>2, Typed DEF RequestOK
<1> DEFINE order == OrderCandidates(rule, c)
           req == [phase |-> "open", rule |-> rule, order |-> order]
<1>4. PoolsOK(pools')
  BY <1>1, <1>3, Others, PoolsAfterOK
<1>5. Lists(order, c) /\ IsFiniteSet(c)
  BY <1>3, Others, OrderLists, WeightsPositive
<1> HIDE DEF order
<1>6. order \in Seq(Keys) /\ order # <<>> /\ IsInjective(order) /\ ToSet(order) \subseteq c
  <2>1. order \in Seq(c) /\ Len(order) = Cardinality(c) /\ IsInjective(order)
    BY <1>5 DEF Lists
  <2>2. Cardinality(c) # 0
    BY <1>3, <1>5, FS_EmptySet
  <2>3. order # <<>>
    BY <2>1, <2>2
  <2> QED  BY <1>3, <2>1, <2>3 DEF ToSet
<1>7. RequestOK(req, clock) /\ req.phase # "logged"
  BY <1>6 DEF RequestOK
<1>8. \A k \in Keys : Holds(req, k, Today) => Holds(request[r], k, Today)
  BY <1>2, <1>6 DEF Holds
<1>9. request' = [request EXCEPT ![r] = req]
  BY <1>1 DEF order
<1> HIDE DEF req, c
<1>10. /\ request'[r] = req /\ \A i \in Requests \ {r} : request'[i] = request[i]
       /\ IsFunction(request', Requests)
  <2>1. request' = [i \in Requests |-> IF i = r THEN req ELSE request[i]]
    BY <1>9, Typed DEF IsFunction
  <2>2. request'[r] = req /\ \A i \in Requests \ {r} : request'[i] = request[i]
    BY <2>1
  <2>3. request' = [i \in Requests |-> request'[i]]
    BY <2>1
  <2> QED  BY <2>2, <2>3 DEF IsFunction
<1>11. RequestsOK(request', clock)
  BY <1>7, <1>10, Typed DEF RequestsOK
<1>12. \A i \in Requests :
        \/ request'[i] = request[i]
        \/ request[i].phase # "logged" /\ request'[i].phase # "logged"
  BY <1>2, <1>7, <1>10
<1>13. \A k \in Keys, i \in Requests :
        Holds(request'[i], k, Today) => Holds(request[i], k, Today)
  BY <1>8, <1>10
<1> QED  BY <1>2, <1>4, <1>11, <1>12, <1>13, Others, QuietStep

\* A request without candidates holds nothing.
LEMMA FindNoneStep ==
  ASSUME IInv, NEW r \in Requests, FindNone(r)
  PROVE  IInv'
<1> DEFINE req == [phase |-> "gone"]
<1>1. /\ RequestOK(req, clock) /\ req.phase # "logged"
      /\ \A k \in Keys : ~Holds(req, k, Today)
  BY DEF RequestOK, Holds
<1>2. /\ request[r].phase # "logged" /\ request' = [request EXCEPT ![r] = req]
      /\ UNCHANGED <<clock, row, pools, active, sweep, peak, unsettled>>
  BY DEF FindNone
<1> HIDE DEF req
<1> QED  BY <1>1, <1>2, Others, QuietRequest

\* What one log does to the counters of its key.
LEMMA AddedCounts ==
  ASSUME NEW today \in Nat, NEW counts \in Counts(today), NEW n \in Nat,
         NEW day \in 0 .. today
  PROVE  /\ Added(counts, n, day) \in Counts(today)
         /\ Added(counts, n, day).total = counts.total + n
         /\ counts.date <= day =>
                UsedOn(Added(counts, n, day), today)
                    = UsedOn(counts, today) + (IF day = today THEN n ELSE 0)
<1>1. counts.used \in Nat /\ counts.total \in Nat /\ counts.date \in 0 .. today
  BY DEF Counts
<1> DEFINE a == Added(counts, n, day)
<1>2. /\ a.used = IF counts.date = day THEN counts.used + n ELSE n
      /\ a.date = day /\ a.total = counts.total + n
  BY DEF Added
<1>3. a \in Counts(today)
  BY <1>1 DEF Added, Counts
<1> HIDE DEF a
<1>4. ASSUME counts.date <= day
      PROVE  UsedOn(a, today) = UsedOn(counts, today) + (IF day = today THEN n ELSE 0)
  <2>1. CASE day = today
    BY <1>1, <1>2, <2>1 DEF UsedOn
  <2>2. CASE day # today
    <3>1. counts.date # today
      BY <1>1, <1>4, <2>2
    <3> QED  BY <1>2, <2>2, <3>1 DEF UsedOn
  <2> QED  BY <2>1, <2>2
<1> QED  BY <1>2, <1>3, <1>4 DEF a

\* A log gives up its hold on the key for what it adds to the counter.
LEMMA WriteLogStep ==
  ASSUME IInv, NEW r \in Requests, WriteLog(r)
  PROVE  IInv'
<1> DEFINE old == request[r]
           k == old.key
           n == old.tokens
           day == old.day
           req == [phase |-> "logged", rule |-> old.rule, key |-> k,
                   tokens |-> n, day |-> day, at |-> clock]
<1>1. /\ old.phase = "stamped" /\ k \in DOMAIN row
      /\ request' = [request EXCEPT ![r] = req]
      /\ row' = [row EXCEPT ![k] = Added(row[k], n, day)]
      /\ unsettled' = IF row[k].date > day THEN unsettled \cup {k} ELSE unsettled
      /\ UNCHANGED <<clock, pools, active, sweep, peak>>
  BY DEF WriteLog
<1>2. /\ k \in Keys /\ n \in TokenCounts /\ old.rule \in Rules /\ day \in 0 .. Today
      /\ n \in Nat /\ n <= MostTokens /\ MostTokens \in Nat /\ Today \in Nat
      /\ clock \in Nat
  BY <1>1, Typed, MostTokensIs DEF RequestOK
<1>3. /\ req.phase = "logged" /\ req.key = k /\ req.tokens = n /\ req.day = day
      /\ RequestOK(req, clock)
  BY <1>2, Typed DEF RequestOK
<1> HIDE DEF req, n, day, k
<1>4. /\ request'[r] = req /\ \A i \in Requests \ {r} : request'[i] = request[i]
      /\ IsFunction(request', Requests)
  <2>1. request' = [i \in Requests |-> IF i = r THEN req ELSE request[i]]
    BY <1>1, Typed DEF IsFunction
  <2>2. request'[r] = req /\ \A i \in Requests \ {r} : request'[i] = request[i]
    BY <2>1
  <2>3. request' = [i \in Requests |-> request'[i]]
    BY <2>1
  <2> QED  BY <2>2, <2>3 DEF IsFunction
<1>5. RequestsOK(request', clock)
  BY <1>3, <1>4, Typed DEF RequestsOK
<1>6. /\ DOMAIN row' = DOMAIN row /\ row'[k] = Added(row[k], n, day)
      /\ \A j \in DOMAIN row \ {k} : row'[j] = row[j]
      /\ IsFunction(row', DOMAIN row')
  <2>1. row' = [j \in DOMAIN row |-> IF j = k THEN Added(row[k], n, day) ELSE row[j]]
    BY <1>1, Typed DEF IsFunction
  <2>2. /\ DOMAIN row' = DOMAIN row /\ row'[k] = Added(row[k], n, day)
        /\ \A j \in DOMAIN row \ {k} : row'[j] = row[j]
    BY <1>1, <2>1
  <2>3. row' = [j \in DOMAIN row' |-> row'[j]]
    BY <2>1
  <2> QED  BY <2>2, <2>3 DEF IsFunction
<1>7. /\ row[k] \in Counts(Today) /\ row'[k] \in Counts(Today)
      /\ row'[k].total = row[k].total + n
      /\ k \notin unsettled' =>
            /\ k \notin unsettled
            /\ UsedOn(row'[k], Today)
                = UsedOn(row[k], Today) + (IF day = Today THEN n ELSE 0)
  <2>1. row[k] \in Counts(Today) /\ row[k].date \in Nat
    BY <1>1, Typed DEF Counts
  <2>2. k \notin unsettled' => k \notin unsettled /\ row[k].date <= day
    BY <1>1, <1>2, <2>1
  <2>3. /\ Added(row[k], n, day) \in Counts(Today)
        /\ Added(row[k], n, day).total = row[k].total + n
        /\ row[k].date <= day =>
               UsedOn(Added(row[k], n, day), Today)
                   = UsedOn(row[k], Today) + (IF day = Today THEN n ELSE 0)
    <3>1. n \in Nat /\ day \in 0 .. Today /\ Today \in Nat
      BY <1>2
    <3> QED  BY <2>1, <3>1, AddedCounts
  <2>4. row'[k] = Added(row[k], n, day)
    BY <1>6
  <2> QED  BY <2>1, <2>2, <2>3, <2>4
<1>8. Today' = Today
  BY <1>1 DEF Today
<1>9. Shape'
  <2>1. RowsOK(row', Today)
    BY <1>6, <1>7, Typed DEF RowsOK
  <2>2. unsettled' \subseteq Keys
    BY <1>1, <1>2 DEF IInv, Shape
  <2> QED  BY <1>1, <1>5, <1>8, <2>1, <2>2 DEF IInv, Shape
<1>10. /\ \A j \in DOMAIN row \ {k} : SameLogs(request, request', j)
       /\ LogsOf(request', k) = LogsOf(request, k) \cup {r}
       /\ r \notin LogsOf(request, k)
       /\ \A i \in LogsOf(request, k) : request'[i] = request[i]
  BY <1>1, <1>3, <1>4 DEF SameLogs, LogsOf
<1>11. \A i \in LogsOf(request', k) : request'[i].tokens \in Nat
  <2>1. \A i \in Requests : request'[i].phase = "logged" => request'[i].tokens \in TokenCounts
    BY <1>5 DEF RequestsOK, RequestOK
  <2> QED  BY <2>1, MostTokensIs DEF LogsOf
<1>12. AddUp(row', request', Today, unsettled')
  <2> SUFFICES ASSUME NEW j \in DOMAIN row
               PROVE  CountsOf(row', request', Today, unsettled', j)
    BY <1>6 DEF AddUp
  <2>1. CountsOf(row, request, Today, unsettled, j)
    BY DEF IInv, AddUp
  <2>2. CASE j # k
    <3>1. /\ TokensOf(request', LogsOf(request', j)) = TokensOf(request, LogsOf(request, j))
          /\ TokensOf(request', LogsOn(request', j, Today))
                = TokensOf(request, LogsOn(request, j, Today))
      BY <1>10, <2>2, LogsKept
    <3>2. row'[j] = row[j] /\ (j \notin unsettled' => j \notin unsettled)
      BY <1>1, <1>6, <2>2
    <3> QED  BY <2>1, <3>1, <3>2 DEF CountsOf
  <2>3. CASE j = k
    <3> DEFINE all == LogsOf(request, k)
               today == LogsOn(request, k, Today)
    <3>1. all \in SUBSET Requests /\ today \in SUBSET Requests /\ today \subseteq all
      BY DEF LogsOf, LogsOn
    <3>2. TokensOf(request', LogsOf(request', k)) = TokensOf(request, all) + n
      <4>1. TokensOf(request', all \cup {r}) = TokensOf(request, all) + request'[r].tokens
        <5>1. \A i \in all \cup {r} : request'[i].tokens \in Nat
          BY <1>10, <1>11
        <5>2. \A i \in all : request'[i] = request[i]
          BY <1>10
        <5>3. r \in Requests \ all
          BY <1>10
        <5> HIDE DEF all
        <5> QED  BY <3>1, <5>1, <5>2, <5>3, TokensOfOneMore
      <4> QED  BY <1>3, <1>4, <1>10, <4>1
    <3>3. TokensOf(request', LogsOn(request', k, Today))
            = TokensOf(request, today) + (IF day = Today THEN n ELSE 0)
      <4>1. CASE day = Today
        <5>1. LogsOn(request', k, Today) = today \cup {r}
          BY <1>3, <1>4, <1>10, <4>1 DEF LogsOn
        <5>2. /\ \A i \in today \cup {r} : request'[i].tokens \in Nat
              /\ \A i \in today : request'[i] = request[i]
              /\ r \in Requests \ today
          BY <1>10, <1>11, <3>1
        <5> HIDE DEF today, all
        <5>3. TokensOf(request', today \cup {r}) = TokensOf(request, today) + request'[r].tokens
          BY <3>1, <5>2, TokensOfOneMore
        <5> QED  BY <1>3, <1>4, <4>1, <5>1, <5>3
      <4>2. CASE day # Today
        <5>1. LogsOn(request', k, Today) = today /\ \A i \in today : request'[i] = request[i]
          BY <1>3, <1>4, <1>10, <4>2 DEF LogsOn
        <5>2. TokensOf(request', LogsOn(request', k, Today)) = TokensOf(request, today)
          BY <5>1, TokensKept
        <5>3. TokensOf(request, today) \in Int
          <6> DEFINE f == [i \in today |-> request[i].tokens]
          <6>1. IsFiniteSet(today)
            BY <3>1, ServingAssumption, FS_Subset
          <6>2. \A i \in today : f[i] \in Int
            BY <1>10, <1>11, <3>1, <5>1
          <6> HIDE DEF today
          <6>3. SumFunctionOnSet(f, today) \in Int
            <7> HIDE DEF f
            <7> QED  BY <6>1, <6>2, SumType
          <6> QED  BY <6>3 DEF TokensOf
        <5> QED  BY <4>2, <5>2, <5>3
      <4> QED  BY <4>1, <4>2
    <3>4. /\ row[k].total = TokensOf(request, all)
          /\ k \notin unsettled => UsedOn(row[k], Today) = TokensOf(request, today)
      BY <2>1, <2>3 DEF CountsOf
    <3> HIDE DEF all, today
    <3> QED  BY <1>7, <2>3, <3>2, <3>3, <3>4 DEF CountsOf
  <2> QED  BY <2>2, <2>3
<1>13. \A j \in Keys, i \in Requests : Holds(request'[i], j, Today) => Holds(request[i], j, Today)
  <2>1. \A j : ~Holds(req, j, Today)
    BY <1>3 DEF Holds
  <2> QED  BY <1>4, <2>1
<1>14. \A j \in Limited : HeldBy(request', j, Today) <= HeldBy(request, j, Today)
  BY <1>13, HeldByFewer DEF Limited
<1>15. HeldBy(request', k, Today) = HeldBy(request, k, Today) - 1
  <2>1. Holds(request[r], k, Today) /\ ~Holds(request'[r], k, Today)
    BY <1>1, <1>3, <1>4 DEF Holds, k
  <2> QED  BY <1>4, <2>1, HeldByOneLess
<1>16. \A j \in Limited :
        /\ HeldBy(request', j, Today) \in Nat /\ HeldBy(request, j, Today) \in Nat /\ peak[j] \in Nat
        /\ HeldBy(request, j, Today) <= peak[j] /\ (peak[j] # 0 => DailyLimit[j] >= 1)
        /\ DailyLimit[j] \in Int
  BY HeldByType, Typed, ServingAssumption DEF IInv, Held, Limited
<1>17. Held(request', Today, peak)
  BY <1>14, <1>16 DEF Held
<1>18. Fits(row', request', Today, unsettled', peak)
  <2> SUFFICES ASSUME NEW j \in Limited \cap DOMAIN row, j \notin unsettled'
               PROVE  UsedOn(row'[j], Today) + MostTokens * HeldBy(request', j, Today)
                        <= MostTokens * peak[j] + Slack(j, peak[j])
    BY <1>6 DEF Fits
  <2> DEFINE u == UsedOn(row'[j], Today)
             v == UsedOn(row[j], Today)
             a == HeldBy(request', j, Today)
             b == HeldBy(request, j, Today)
             c == MostTokens * peak[j] + Slack(j, peak[j])
  <2>1. a \in Nat /\ b \in Nat /\ a <= b /\ v \in Nat /\ c \in Int /\ MostTokens \in Nat
    <3>1. peak[j] \in Nat /\ DailyLimit[j] \in Int
      BY <1>16
    <3>2. MostTokens * peak[j] \in Int
      BY <1>2, <3>1
    <3>3. c \in Int
      BY <3>1, <3>2 DEF Slack
    <3> QED  BY <1>2, <1>14, <1>16, <3>3, Typed
  <2>2. v + MostTokens * b <= c
    BY <1>1 DEF IInv, Fits
  <2>3. CASE j # k
    <3>1. u = v
      BY <1>6, <2>3
    <3>2. MostTokens * a <= MostTokens * b /\ MostTokens * a \in Nat /\ MostTokens * b \in Nat
      BY <2>1, MoreTokens
    <3> HIDE DEF u, v, a, b, c
    <3>3. u + MostTokens * a <= c
      BY <2>1, <2>2, <3>1, <3>2
    <3> QED  BY <3>3 DEF u, a, c
  <2>4. CASE j = k
    <3>1. u = v + (IF day = Today THEN n ELSE 0)
      BY <1>7, <2>4
    <3>2. a = b - 1
      BY <1>15, <2>4
    <3> HIDE DEF u, v, a, b, c
    <3>3. MostTokens * (b - 1) = MostTokens * b - MostTokens
      BY <2>1
    <3>4. MostTokens * b \in Nat
      BY <2>1
    <3>5. u <= v + MostTokens /\ u \in Int
      BY <1>2, <2>1, <3>1
    <3>6. u + MostTokens * a <= c
      BY <2>1, <2>2, <3>2, <3>3, <3>4, <3>5
    <3> QED  BY <3>6 DEF u, a, c
  <2> QED  BY <2>3, <2>4
<1> QED  BY <1>1, <1>8, <1>9, <1>12, <1>17, <1>18 DEF IInv

\* A page resets the counters it read, of an earlier day, or marks the key.
LEMMA SweepCommitsStep ==
  ASSUME IInv, SweepCommits
  PROVE  IInv'
<1> DEFINE swept == DOMAIN sweep.rows
<1>1. /\ sweep # None /\ swept \subseteq DOMAIN row
      /\ row' = [k \in DOMAIN row |-> IF k \in swept THEN SweptRow(k) ELSE row[k]]
      /\ sweep' = None
      /\ unsettled' = unsettled \cup {k \in swept : row[k] # sweep.rows[k]}
      /\ UNCHANGED <<clock, pools, active, request, peak>>
  BY DEF SweepCommits
<1>2. Today' = Today /\ Today \in Nat
  BY <1>1, Typed DEF Today
<1>3. /\ sweep.day \in 0 .. Today
      /\ \A k \in swept : sweep.rows[k] \in Counts(Today) /\ sweep.rows[k].date < sweep.day
  BY <1>1, Others DEF SweepOK, RowsOK
<1>4. \A k \in DOMAIN row : row[k] \in Counts(Today) /\ UsedOn(row[k], Today) \in Nat
  BY Typed
<1>5. /\ DOMAIN row' = DOMAIN row
      /\ \A k \in DOMAIN row : row'[k] = IF k \in swept THEN SweptRow(k) ELSE row[k]
  BY <1>1
<1>6. \A k \in swept :
        /\ SweptRow(k) \in Counts(Today) /\ SweptRow(k).total = row[k].total
        /\ row[k] = sweep.rows[k] =>
            UsedOn(SweptRow(k), Today) = 0 /\ UsedOn(row[k], Today) = 0
  <2> TAKE k \in swept
  <2>1. row[k] \in Counts(Today) /\ sweep.rows[k].used \in Nat
    BY <1>1, <1>3, <1>4 DEF Counts
  <2>2. /\ SweptRow(k) \in Counts(Today) /\ SweptRow(k).total = row[k].total
        /\ SweptRow(k).date = sweep.day
        /\ SweptRow(k).used = IF sweep.rows[k].used = 0 THEN row[k].used ELSE 0
    BY <1>2, <1>3, <2>1 DEF SweptRow, Counts
  <2>3. ASSUME row[k] = sweep.rows[k]
        PROVE  UsedOn(SweptRow(k), Today) = 0 /\ UsedOn(row[k], Today) = 0
    <3>1. SweptRow(k).used = 0
      BY <2>1, <2>2, <2>3
    <3>2. row[k].date \in Nat /\ row[k].date < sweep.day
      BY <1>3, <2>1, <2>3 DEF Counts
    <3>3. row[k].date # Today
      BY <1>2, <1>3, <3>2
    <3> QED  BY <3>1, <3>3 DEF UsedOn
  <2> QED  BY <2>2, <2>3
<1>7. Shape'
  <2>1. IsFunction(row', DOMAIN row')
    <3>1. row' = [k \in DOMAIN row' |-> row'[k]]
      BY <1>1
    <3> QED  BY <3>1 DEF IsFunction
  <2>2. RowsOK(row', Today)
    BY <1>4, <1>5, <1>6, <2>1, Typed DEF RowsOK
  <2>3. unsettled' \subseteq Keys
    BY <1>1, Typed DEF IInv, Shape
  <2> QED  BY <1>1, <1>2, <2>2, <2>3 DEF IInv, Shape
<1>8. \A k \in DOMAIN row' :
        /\ k \in DOMAIN row /\ row'[k].total = row[k].total
        /\ k \notin unsettled' =>
            k \notin unsettled /\ UsedOn(row'[k], Today) = UsedOn(row[k], Today)
  BY <1>1, <1>5, <1>6
<1>9. AddUp(row', request, Today, unsettled')
  <2>1. \A k \in DOMAIN row' : SameLogs(request, request, k)
    BY DEF SameLogs
  <2>2. AddUp(row, request, Today, unsettled)
    BY DEF IInv
  <2> QED  BY <1>8, <2>1, <2>2, AddUpKept
<1>10. Held(request, Today, peak) /\ Fits(row', request, Today, unsettled', peak)
  <2>1. \A k \in Limited : HeldBy(request, k, Today) <= HeldBy(request, k, Today)
    BY HeldByType
  <2>2. \A k \in DOMAIN row' : k \notin unsettled' =>
            /\ k \in DOMAIN row /\ k \notin unsettled
            /\ UsedOn(row[k], Today) \in Nat /\ UsedOn(row'[k], Today) \in Nat
            /\ UsedOn(row'[k], Today) <= UsedOn(row[k], Today)
    BY <1>4, <1>8
  <2>3. Held(request, Today, peak) /\ Fits(row, request, Today, unsettled, peak)
    BY DEF IInv
  <2> QED  BY <2>1, <2>2, <2>3, Typed, FitsKept
<1> QED  BY <1>1, <1>2, <1>7, <1>9, <1>10 DEF IInv

\* At midnight every counter counts nothing for the new day.
LEMMA TickStep ==
  ASSUME IInv, Tick
  PROVE  IInv'
<1> DEFINE next == Day(clock + 1)
<1>1. /\ clock < MaxClock /\ clock' = clock + 1
      /\ unsettled' = IF next = Today THEN unsettled ELSE {}
      /\ peak' = PeakOf(request, next)
      /\ UNCHANGED <<row, pools, active, request, sweep>>
  BY DEF Tick
<1>2. /\ clock \in Nat /\ MaxClock \in Nat /\ Today \in Nat /\ next \in Nat /\ Today <= next
      /\ Today' = next
  <2>1. clock \in Nat /\ clock + 1 \in Nat /\ MaxClock \in Nat /\ Today = Day(clock)
    BY Typed, ServingAssumption
  <2>2. Day(clock) \in Nat /\ Day(clock + 1) \in Nat /\ Day(clock) <= Day(clock + 1)
    BY <2>1, Days
  <2>3. Today' = next
    BY <1>1 DEF Today
  <2> QED  BY <2>1, <2>2, <2>3
<1> HIDE DEF next
<1>3. 0 .. Today \subseteq 0 .. next /\ 0 .. clock \subseteq 0 .. clock'
  BY <1>1, <1>2
<1>4. \A counts \in Counts(Today) : counts \in Counts(next)
  BY <1>3 DEF Counts
<1>5. RowsOK(row, next)
  BY <1>4, Typed DEF RowsOK
<1>6. sweep # None => SweepOK(sweep, next)
  BY <1>3, <1>4, Others DEF SweepOK, RowsOK
<1>7. RequestsOK(request, clock')
  <2>1. \A r \in Requests : RequestOK(request[r], clock')
    <3> TAKE r \in Requests
    <3>1. RequestOK(request[r], clock)
      BY Typed
    <3>2. 0 .. Day(clock) \subseteq 0 .. Day(clock')
      BY <1>1, <1>3 DEF Today, next
    <3>3. RowsOK(request[r].rows, Day(clock)) => RowsOK(request[r].rows, Day(clock'))
      BY <1>1, <1>4 DEF RowsOK, Today, next
    <3> QED  BY <1>3, <3>1, <3>2, <3>3 DEF RequestOK
  <2> QED  BY <2>1, Typed DEF RequestsOK
<1>p. /\ peak' \in [Limited -> 0 .. Cardinality(Requests)]
      /\ \A k \in Limited :
            /\ peak'[k] = peak[k] \/ peak'[k] = HeldBy(request, k, next)
            /\ peak'[k] \in Nat /\ peak[k] <= peak'[k] /\ HeldBy(request, k, next) <= peak'[k]
  BY <1>1, PeakGrows
<1>8. Shape'
  <2>1. clock' \in 0 .. MaxClock
    BY <1>1, <1>2
  <2>2. unsettled' \subseteq Keys
    BY <1>1 DEF IInv, Shape
  <2> QED  BY <1>1, <1>2, <1>5, <1>6, <1>7, <1>p, <2>1, <2>2 DEF IInv, Shape
<1>h. Held(request, next, peak')
  <2> SUFFICES ASSUME NEW k \in Limited
               PROVE  /\ HeldBy(request, k, next) <= peak'[k]
                      /\ peak'[k] # 0 => DailyLimit[k] >= 1
    BY DEF Held
  <2>1. CASE peak'[k] = peak[k]
    BY <1>p, <2>1 DEF IInv, Held
  <2>2. CASE peak'[k] = HeldBy(request, k, next)
    <3> SUFFICES ASSUME HeldBy(request, k, next) # 0 PROVE DailyLimit[k] >= 1
      BY <1>p, <2>2
    <3>1. PICK r \in Requests : Holds(request[r], k, next)
      BY HeldBySome
    <3> QED  BY <3>1, HolderHasLimit
  <2> QED  BY <1>p, <2>1, <2>2
<1>9. CASE next = Today
  <2>1. peak' = peak
    <3>1. \A k \in Limited : peak'[k] = peak[k]
      <4> TAKE k \in Limited
      <4>1. HeldBy(request, k, Today) <= peak[k] /\ peak[k] \in Nat
        BY Typed DEF IInv, Held
      <4> QED  BY <1>9, <1>p, <4>1
    <3> QED  BY <1>p, <3>1, Typed
  <2> QED  BY <1>1, <1>2, <1>8, <1>9, <2>1 DEF IInv
<1>10. CASE next # Today
  <2>1. Today < next /\ unsettled' = {}
    BY <1>1, <1>2, <1>10
  <2>2. \A k \in DOMAIN row : UsedOn(row[k], next) = 0
    <3> TAKE k \in DOMAIN row
    <3>1. row[k].date \in 0 .. Today
      BY Typed DEF Counts
    <3> QED  BY <1>2, <2>1, <3>1 DEF UsedOn
  <2>3. AddUp(row, request, next, {})
    <3> SUFFICES ASSUME NEW k \in DOMAIN row PROVE CountsOf(row, request, next, {}, k)
      BY DEF AddUp
    <3>1. LogsOn(request, k, next) = {}
      <4> SUFFICES ASSUME NEW r \in LogsOn(request, k, next) PROVE FALSE
        OBVIOUS
      <4>1. request[r].day = next /\ request[r].phase = "logged" /\ r \in Requests
        BY DEF LogsOn, LogsOf
      <4>2. request[r].day \in 0 .. Today
        BY <4>1, Typed DEF RequestOK
      <4> QED  BY <1>2, <2>1, <4>1, <4>2
    <3>2. TokensOf(request, {}) = 0
      BY SumOfNone DEF TokensOf
    <3>3. row[k].total = TokensOf(request, LogsOf(request, k))
      BY DEF IInv, AddUp, CountsOf
    <3> QED  BY <2>2, <3>1, <3>2, <3>3 DEF CountsOf
  <2>4. Fits(row, request, next, {}, peak')
    <3> SUFFICES ASSUME NEW k \in Limited \cap DOMAIN row
                 PROVE  UsedOn(row[k], next) + MostTokens * HeldBy(request, k, next)
                            <= MostTokens * peak'[k] + Slack(k, peak'[k])
      BY DEF Fits
    <3>1. /\ HeldBy(request, k, next) <= peak'[k] /\ (peak'[k] # 0 => DailyLimit[k] >= 1)
          /\ peak'[k] \in Nat /\ HeldBy(request, k, next) \in Nat /\ DailyLimit[k] \in Int
      BY <1>p, <1>h, HeldByType, ServingAssumption DEF Held, Limited
    <3>2. Slack(k, peak'[k]) \in Nat
      BY <3>1 DEF Slack
    <3>3. /\ MostTokens * HeldBy(request, k, next) <= MostTokens * peak'[k]
          /\ MostTokens * HeldBy(request, k, next) \in Nat /\ MostTokens * peak'[k] \in Nat
      BY <3>1, MoreTokens
    <3> QED  BY <2>2, <3>2, <3>3
  <2> QED  BY <1>1, <1>2, <1>8, <1>h, <2>1, <2>3, <2>4 DEF IInv
<1> QED  BY <1>9, <1>10

\* A key goes with its logs.
LEMMA DeleteKeyStep ==
  ASSUME IInv, NEW k \in Keys, DeleteKey(k)
  PROVE  IInv'
<1> DEFINE gone == [phase |-> "gone"]
<1>1. /\ row' = [j \in DOMAIN row \ {k} |-> row[j]]
      /\ request' = [r \in Requests |->
            IF r \in Logged /\ request[r].key = k THEN gone ELSE request[r]]
      /\ UNCHANGED <<clock, pools, active, sweep, peak, unsettled>>
  BY DEF DeleteKey, Restrict
<1>2. RequestOK(gone, clock) /\ gone.phase = "gone" /\ \A j : ~Holds(gone, j, Today)
  BY DEF RequestOK, Holds
<1> HIDE DEF gone
<1>3. \A r \in Requests :
        \/ request'[r] = request[r] /\ ~(request[r].phase = "logged" /\ request[r].key = k)
        \/ request'[r] = gone /\ request[r].phase = "logged" /\ request[r].key = k
  BY <1>1 DEF Logged
<1>4. RequestsOK(request', clock)
  <2>1. request' = [r \in Requests |-> request'[r]]
    BY <1>1
  <2>2. \A r \in Requests : RequestOK(request'[r], clock)
    BY <1>2, <1>3, Typed
  <2> QED  BY <2>1, <2>2 DEF RequestsOK, IsFunction
<1>5. DOMAIN row' = DOMAIN row \ {k} /\ \A j \in DOMAIN row' : row'[j] = row[j]
  BY <1>1
<1>6. Today' = Today
  BY <1>1 DEF Today
<1>7. Shape'
  <2>1. IsFunction(row', DOMAIN row')
    <3>1. row' = [j \in DOMAIN row' |-> row'[j]]
      BY <1>1
    <3> QED  BY <3>1 DEF IsFunction
  <2>2. RowsOK(row', Today)
    BY <1>5, <2>1, Typed DEF RowsOK
  <2> QED  BY <1>1, <1>4, <1>6, <2>2 DEF IInv, Shape
<1>8. AddUp(row', request', Today, unsettled)
  <2>1. \A j \in DOMAIN row' : SameLogs(request, request', j)
    <3> TAKE j \in DOMAIN row'
    <3>1. j # k
      BY <1>5
    <3> QED  BY <1>2, <1>3, <3>1 DEF SameLogs
  <2>2. AddUp(row, request, Today, unsettled)
    BY DEF IInv
  <2>3. \A j \in DOMAIN row' : /\ j \in DOMAIN row /\ row'[j].total = row[j].total
                               /\ UsedOn(row'[j], Today) = UsedOn(row[j], Today)
    BY <1>5
  <2> QED  BY <2>1, <2>2, <2>3, AddUpKept
<1>9. Held(request', Today, peak) /\ Fits(row', request', Today, unsettled, peak)
  <2>1. \A j \in Limited : HeldBy(request', j, Today) <= HeldBy(request, j, Today)
    <3> TAKE j \in Limited
    <3>1. \A r \in Requests : Holds(request'[r], j, Today) => Holds(request[r], j, Today)
      BY <1>2, <1>3
    <3> QED  BY <3>1, HeldByFewer
  <2>2. \A j \in DOMAIN row' : j \notin unsettled =>
            /\ j \in DOMAIN row /\ j \notin unsettled
            /\ UsedOn(row[j], Today) \in Nat /\ UsedOn(row'[j], Today) \in Nat
            /\ UsedOn(row'[j], Today) <= UsedOn(row[j], Today)
    BY <1>5, Typed
  <2>3. Held(request, Today, peak) /\ Fits(row, request, Today, unsettled, peak)
    BY DEF IInv
  <2> QED  BY <2>1, <2>2, <2>3, Typed, FitsKept
<1> QED  BY <1>1, <1>6, <1>7, <1>8, <1>9 DEF IInv

\* Every step keeps the invariant.
LEMMA StepOK ==
  ASSUME IInv, [Next]_vars
  PROVE  IInv'
<1>1. CASE UNCHANGED vars
  <2>1. /\ clock' = clock /\ row' = row /\ pools' = pools /\ active' = active
        /\ request' = request /\ sweep' = sweep /\ peak' = peak /\ unsettled' = unsettled
    BY <1>1 DEF vars
  <2> QED  BY <2>1, Others, SameRequests
<1>2. ASSUME NEW r \in Requests,
             \/ ReadKeys(r) \/ FilterCandidates(r) \/ Choose(r) \/ FindNone(r)
             \/ Fail(r) \/ Serve(r) \/ Stamp(r) \/ WriteLog(r) \/ LoseLog(r)
      PROVE  IInv'
  BY <1>2, ReadKeysStep, FilterStep, ChooseStep, FindNoneStep, FailStep, ServeStep,
     StampStep, WriteLogStep, LoseLogStep
<1>3. ASSUME NEW rule \in Rules, Peek(rule) PROVE IInv'
  BY <1>3, PeekStep
<1>4. ASSUME NEW rule \in Sequential, ActiveExpires(rule) PROVE IInv'
  BY <1>4, ExpiryStep
<1>5. CASE SweepReads \/ SweepCommits \/ SweepFails
  BY <1>5, SweepReadsStep, SweepCommitsStep, SweepFailsStep
<1>6. ASSUME NEW k \in Keys, DeleteKey(k) PROVE IInv'
  BY <1>6, DeleteKeyStep
<1>7. CASE Tick \/ Restart
  BY <1>7, TickStep, RestartStep
<1> QED  BY <1>1, <1>2, <1>3, <1>4, <1>5, <1>6, <1>7 DEF Next

\* The inductive invariant holds in every state: shape, balanced pools, counters
\* that are the logs, and limits that fit.
THEOREM Invariant == Spec => []IInv
<1>1. IInv /\ [Next]_vars => IInv'
  BY StepOK
<1> QED  BY <1>1, InitOK, PTL DEF Spec

-----------------------------------------------------------------------------
(* What the invariant implies.                                             *)

\* The state has the right shape (row, pools, active, request and sweep as the
\* code keeps them), for every number of keys, rules and requests.
THEOREM TypeCorrect == Spec => []TypeOK
<1>1. IInv => TypeOK
  <2> SUFFICES ASSUME IInv PROVE TypeOK
    OBVIOUS
  <2>1. \A k \in DOMAIN row :
            row[k] \in [used : Nat, date : 0 .. Today, total : Nat]
    BY Typed DEF Counts
  <2>2. /\ Len(pools) <= MaxPools
        /\ \A i, j \in DOMAIN pools :
            /\ pools[i].rule \in Rules \ Sequential /\ pools[i].keys \subseteq Keys
            /\ i # j => <<pools[i].rule, pools[i].keys>> # <<pools[j].rule, pools[j].keys>>
    <3>1. DOMAIN pools = 1 .. Len(pools) /\ \A i \in 1 .. Len(pools) : pools[i] \in Pool
      BY Others DEF PoolsOK
    <3> QED  BY <3>1, Others DEF PoolsOK, Pool
  <2>3. \A r \in Requests :
            LET req == request[r] IN
            /\ req.phase = "reading" =>
                /\ DOMAIN req.rows \subseteq Keys
                /\ \A k \in DOMAIN req.rows : req.rows[k].date <= Today
            /\ req.phase = "choosing" => req.keys \in (SUBSET Keys) \ {{}}
            /\ req.phase = "open" => req.order # <<>> /\ IsInjective(req.order)
    <3> TAKE r \in Requests
    <3>1. RequestOK(request[r], clock) /\ Today \in Nat /\ Today = Day(clock)
      BY Typed
    <3> QED  BY <3>1 DEF RequestOK, RowsOK, Counts
  <2>4. sweep # None => sweep.day \in 0 .. Today
    BY Others DEF SweepOK
  <2> QED  BY <2>1, <2>2, <2>3, <2>4, Typed DEF TypeOK, IInv, Shape
<1> QED  BY <1>1, Invariant, PTL

\* The round robin shares by weight (_smooth_weighted_order), for every set of
\* keys, all weights and any number of pools used in between.
THEOREM RoundRobinIsFair == Spec => []FairShare
<1>1. IInv => FairShare
  <2> SUFFICES ASSUME IInv, NEW i \in DOMAIN pools, NEW k \in pools[i].keys
               PROVE  LET pool == pools[i]
                          owed == SumFunction(pool.picked) * Weight[k]
                                    - TotalWeight(pool.keys) * pool.picked[k]
                      IN  /\ -owed < TotalWeight(pool.keys)
                          /\ owed <= (Cardinality(pool.keys) - 1) * TotalWeight(pool.keys)
    BY DEF FairShare
  <2> DEFINE pool == pools[i]
             c == pool.keys
             w == TotalWeight(c)
             m == Cardinality(c)
             owed == SumFunction(pool.picked) * Weight[k] - w * pool.picked[k]
  <2>1. pool \in Pool /\ Balanced(pool)
    <3>1. i \in 1 .. Len(pools)
      BY Others DEF PoolsOK
    <3> QED  BY <3>1, Others DEF PoolsOK
  <2> HIDE DEF pool
  <2>2. /\ IsFiniteSet(c) /\ c # {} /\ w \in Nat /\ w > 0
        /\ \A j \in c : pool.current[j] \in Int /\ pool.current[j] > 0 - w
        /\ SumFunctionOnSet(pool.current, c) = 0
    BY <2>1, PoolTypes DEF Balanced
  <2>3. owed = pool.current[k]
    <3>1. SumFunction(pool.picked) = Turns(pool)
      BY <2>1 DEF SumFunction, Turns, Balanced
    <3> QED  BY <2>1, <3>1 DEF Balanced, pool
  <2>4. k \in c /\ m \in Nat /\ m > 0
    <3>1. m \in Nat /\ m # 0
      BY <2>2, FS_CardinalityType, FS_EmptySet
    <3> QED  BY <3>1 DEF pool
  <2>5. SumFunctionOnSet(pool.current, c)
            = pool.current[k] + SumFunctionOnSet(pool.current, c \ {k})
    BY <2>2, <2>4, SumTakesAny
  <2>6. SumFunctionOnSet(pool.current, c \ {k}) >= (1 - w) * (m - 1)
    <3>1. IsFiniteSet(c \ {k}) /\ Cardinality(c \ {k}) = m - 1
      BY <2>2, <2>4, FS_RemoveElement
    <3>2. 1 - w \in Int /\ \A j \in c \ {k} : pool.current[j] \in Int /\ pool.current[j] >= 1 - w
      BY <2>2
    <3> HIDE DEF c, w, m
    <3>3. SumFunctionOnSet(pool.current, c \ {k}) >= (1 - w) * Cardinality(c \ {k})
      BY <3>1, <3>2, SumAtLeast
    <3> QED  BY <3>1, <3>3
  <2>7. SumFunctionOnSet(pool.current, c \ {k}) \in Int
    <3>1. IsFiniteSet(c \ {k}) /\ \A j \in c \ {k} : pool.current[j] \in Int
      BY <2>2, FS_Subset
    <3> QED  BY <3>1, SumType
  <2>8. pool.current[k] \in Int /\ pool.current[k] > 0 - w
    BY <2>2, <2>4
  <2>9. (1 - w) * (m - 1) = (m - 1) - (m - 1) * w /\ (m - 1) * w \in Int
    BY <2>2, <2>4
  <2> HIDE DEF w, m, owed, c
  <2>10. -owed < w /\ owed <= (m - 1) * w
    BY <2>2, <2>3, <2>4, <2>5, <2>6, <2>7, <2>8, <2>9
  <2> QED  BY <2>10 DEF pool, c, w, m, owed
<1> QED  BY <1>1, Invariant, PTL

\* Two ways to write a sum of tokens.
LEMMA TokensAre ==
  ASSUME NEW ids
  PROVE  Tokens(ids) = TokensOf(request, ids)
BY DEF Tokens, TokensOf, SumFunction

\* The counters that write_request_log adds to are what the logs add up to,
\* for every number of requests and keys, however logs, pages, midnights,
\* deletions and restarts follow each other.
THEOREM CountersAreTheLogs == Spec => []UsageAddsUp
<1>1. IInv => UsageAddsUp
  <2> SUFFICES ASSUME IInv, NEW k \in DOMAIN row
               PROVE  LET logs == {r \in Logged : request[r].key = k} IN
                      /\ row[k].total = Tokens(logs)
                      /\ k \notin unsettled
                        => UsedToday(k) = Tokens({r \in logs : request[r].day = Today})
    BY DEF UsageAddsUp
  <2>1. CountsOf(row, request, Today, unsettled, k)
    BY DEF IInv, AddUp
  <2>2. {r \in Logged : request[r].key = k} = LogsOf(request, k)
    BY DEF Logged, LogsOf
  <2>3. {r \in LogsOf(request, k) : request[r].day = Today} = LogsOn(request, k, Today)
    BY DEF LogsOn
  <2>4. UsedToday(k) = UsedOn(row[k], Today)
    BY DEF UsedToday
  <2> QED  BY <2>1, <2>2, <2>3, <2>4, TokensAre DEF CountsOf
<1> QED  BY <1>1, Invariant, PTL

\* A key goes over its daily limit by no more than what the requests that held
\* it at one time may use: _passes_key_limits is asked once, about counters that
\* get_candidates read before it awaited others, and a request holds the key from
\* that reading on.
THEOREM OvershootIsBounded == Spec => []OvershootBounded
<1>1. IInv => OvershootBounded
  BY DEF IInv, Fits, OvershootBounded, UsedToday, MostTokens, Slack
<1> QED  BY <1>1, Invariant, PTL

-----------------------------------------------------------------------------
(* The pages that add up.                                                  *)

\* What a set of logs amounts to is what its parts amount to.
LEMMA AggregateOfParts ==
  ASSUME NEW logs, NEW S, IsFiniteSet(S), \A i \in S : logs[i].tokens \in Nat,
         NEW h, NEW totals, IsFiniteSet(DOMAIN totals),
         \A i \in S : h[i] \in DOMAIN totals,
         \A b \in DOMAIN totals : totals[b] = Aggregate(logs, PartOf(S, h, b))
  PROVE  Sum(totals) = Aggregate(logs, S)
<1> DEFINE B == DOMAIN totals
           Part(b) == PartOf(S, h, b)
           f == [i \in S |-> logs[i].tokens]
           g == [b \in B |-> totals[b].tokens]
           one == [i \in S |-> 1]
           many == [b \in B |-> totals[b].requests]
<1>1. \A b \in B : IsFiniteSet(Part(b)) /\ Part(b) \in SUBSET S
  <2>1. \A b : Part(b) \in SUBSET S
    BY DEF PartOf
  <2> QED  BY <2>1, FS_Subset
<1>2. \A b \in B : /\ totals[b].requests = Cardinality(Part(b))
                   /\ totals[b].tokens = SumFunctionOnSet([i \in Part(b) |-> logs[i].tokens], Part(b))
  BY DEF Aggregate, SumFunction
<1>3. \A i \in S : f[i] \in Int /\ f[i] = logs[i].tokens /\ one[i] = 1 /\ h[i] \in B
  OBVIOUS
<1>4. \A b \in B : g[b] = SumFunctionOnSet(f, Part(b))
  <2> TAKE b \in B
  <2> DEFINE p == [i \in Part(b) |-> logs[i].tokens]
  <2>1. \A i \in Part(b) : p[i] = f[i]
    BY <1>1
  <2>2. g[b] = SumFunctionOnSet(p, Part(b))
    BY <1>2
  <2>3. IsFiniteSet(Part(b))
    BY <1>1
  <2> HIDE DEF p, f, g, Part
  <2>4. SumFunctionOnSet(p, Part(b)) = SumFunctionOnSet(f, Part(b))
    BY <2>1, <2>3, SumOfSame
  <2> QED  BY <2>2, <2>4
<1>5. \A b \in B : many[b] = SumFunctionOnSet(one, Part(b))
  <2> TAKE b \in B
  <2>1. \A i \in Part(b) : one[i] = 1
    BY <1>1
  <2>2. many[b] = Cardinality(Part(b)) /\ IsFiniteSet(Part(b))
    BY <1>1, <1>2
  <2> HIDE DEF one, many, Part
  <2>3. SumFunctionOnSet(one, Part(b)) = 1 * Cardinality(Part(b))
    BY <2>1, <2>2, SumOfConstant
  <2>4. Cardinality(Part(b)) \in Nat
    BY <2>2, FS_CardinalityType
  <2> QED  BY <2>2, <2>3, <2>4
<1>6. Sum(totals) = [requests |-> SumFunctionOnSet(many, B), tokens |-> SumFunctionOnSet(g, B)]
  BY DEF Sum, SumFunction
<1>7. Aggregate(logs, S) = [requests |-> Cardinality(S), tokens |-> SumFunctionOnSet(f, S)]
  BY DEF Aggregate, SumFunction
<1>8. DOMAIN g = B /\ DOMAIN many = B /\ IsFiniteSet(B)
  OBVIOUS
<1> HIDE DEF B, f, g, one, many
<1>9. SumFunctionOnSet(g, B) = SumFunctionOnSet(f, S)
  BY <1>3, <1>4, <1>8, SumOfParts
<1>10. SumFunctionOnSet(many, B) = Cardinality(S)
  <2>1. \A i \in S : one[i] \in Int /\ h[i] \in B
    BY <1>3
  <2>2. SumFunctionOnSet(many, B) = SumFunctionOnSet(one, S)
    <3>1. \A b \in B : many[b] = SumFunctionOnSet(one, PartOf(S, h, b))
      BY <1>5
    <3>2. IsFiniteSet(S) /\ IsFiniteSet(B)
      BY <1>8
    <3> HIDE DEF Part
    <3> QED  BY <2>1, <3>1, <3>2, SumOfParts
  <2>3. SumFunctionOnSet(one, S) = 1 * Cardinality(S)
    BY <1>3, SumOfConstant
  <2> QED  BY <2>2, <2>3, FS_CardinalityType
<1> QED  BY <1>6, <1>7, <1>9, <1>10

\* The names are finitely many.
LEMMA NamesFinite ==
  ASSUME NEW ids, IsFiniteSet(ids), NEW name
  PROVE  IsFiniteSet({name[i] : i \in ids})
<1> DEFINE T == {name[i] : i \in ids}
           f == [i \in ids |-> name[i]]
<1>1. f \in Surjection(ids, T)
  BY DEF Surjection
<1> HIDE DEF f, T
<1>2. IsFiniteSet(T)
  BY <1>1, FS_Surjection
<1> QED  BY <1>2 DEF T

\* The totals by a name add up.
LEMMA TotalsAddUp ==
  ASSUME NEW logs, NEW ids, IsFiniteSet(ids), \A i \in ids : logs[i].tokens \in Nat,
         NEW name
  PROVE  Sum(TotalsBy(logs, ids, name)) = Aggregate(logs, ids)
<1> DEFINE totals == TotalsBy(logs, ids, name)
<1>1. /\ DOMAIN totals = {name[i] : i \in ids}
      /\ \A n \in DOMAIN totals : totals[n] = Aggregate(logs, PartOf(ids, name, n))
  BY DEF TotalsBy, PartOf
<1> HIDE DEF totals
<1>2. IsFiniteSet(DOMAIN totals) /\ \A i \in ids : name[i] \in DOMAIN totals
  BY <1>1, NamesFinite
<1>3. Sum(totals) = Aggregate(logs, ids)
  BY <1>1, <1>2, AggregateOfParts
<1> QED  BY <1>3 DEF totals

\* A bucket begins at a multiple of its width, at the time or before.
LEMMA Buckets ==
  ASSUME NEW width \in 1 .. 2, NEW start \in Nat, NEW t \in Nat, start <= t
  PROVE  /\ FloorBucket(t, width) \in Nat /\ FloorBucket(t, width) % width = 0
         /\ FloorBucket(t, width) <= t
         /\ FloorBucket(start, width) <= FloorBucket(t, width)
<1>1. CASE width = 1
  BY <1>1 DEF FloorBucket
<1>2. CASE width = 2
  BY <1>2 DEF FloorBucket
<1> QED  BY <1>1, <1>2

\* The buckets of a series add up to the window.
LEMMA SeriesAddsUp ==
  ASSUME NEW logs, IsFiniteSet(DOMAIN logs),
         \A i \in DOMAIN logs : logs[i].tokens \in Nat /\ logs[i].at \in Nat,
         NEW start \in Nat, NEW end \in Nat, NEW width \in 1 .. 2
  PROVE  Sum(Timeseries(logs, start, end, width))
            = Aggregate(logs, StatsRows(logs, start, end))
<1> DEFINE S == StatsRows(logs, start, end)
           totals == Timeseries(logs, start, end, width)
           h == [i \in S |-> FloorBucket(logs[i].at, width)]
           low == FloorBucket(start, width)
<1>1. /\ S \in SUBSET DOMAIN logs
      /\ \A i \in S : start <= logs[i].at /\ logs[i].at <= end /\ logs[i].at \in Nat
  BY DEF StatsRows
<1>2. IsFiniteSet(S) /\ \A i \in S : logs[i].tokens \in Nat
  BY <1>1, FS_Subset
<1>3. low \in Nat
  BY Buckets
<1> HIDE DEF S, low
<1>4. /\ DOMAIN totals = {b \in low .. end : b % width = 0}
      /\ \A b \in DOMAIN totals :
            totals[b] = Aggregate(logs, {i \in S : FloorBucket(logs[i].at, width) = b})
  BY DEF Timeseries, BucketKeys, S, low
<1>5. IsFiniteSet(DOMAIN totals)
  <2>1. IsFiniteSet(low .. end)
    BY <1>3, FS_Interval
  <2> QED  BY <1>4, <2>1, FS_Subset
<1>6. \A i \in S : h[i] \in DOMAIN totals
  <2> TAKE i \in S
  <2> DEFINE b == FloorBucket(logs[i].at, width)
  <2>1. b \in Nat /\ b % width = 0 /\ b <= logs[i].at /\ low <= b
    BY <1>1, Buckets DEF low
  <2>2. h[i] = b
    OBVIOUS
  <2> HIDE DEF b, h, totals
  <2> QED  BY <1>1, <1>3, <1>4, <2>1, <2>2
<1>7. \A b \in DOMAIN totals : totals[b] = Aggregate(logs, PartOf(S, h, b))
  <2> TAKE b \in DOMAIN totals
  <2>1. {i \in S : FloorBucket(logs[i].at, width) = b} = PartOf(S, h, b)
    BY DEF PartOf
  <2> QED  BY <1>4, <2>1
<1> HIDE DEF totals, h
<1>8. Sum(totals) = Aggregate(logs, S)
  BY <1>2, <1>5, <1>6, <1>7, AggregateOfParts
<1> QED  BY <1>8 DEF totals, S

\* The two pages show the same series.
LEMMA SeriesAgree ==
  ASSUME NEW logs, \A i \in DOMAIN logs : logs[i].at \in Nat,
         NEW start \in Nat, NEW end \in Nat, start <= end, NEW width
  PROVE  MetricBuckets(logs, start, end, width) = Timeseries(logs, start, end, width)
<1> DEFINE inside == {i \in DOMAIN logs : ~(logs[i].at < start \/ logs[i].at > end)}
<1>1. inside = StatsRows(logs, start, end)
  BY DEF StatsRows
<1>2. (IF end < start THEN {} ELSE BucketKeys(start, end, width)) = BucketKeys(start, end, width)
  OBVIOUS
<1>3. MetricBuckets(logs, start, end, width)
        = [b \in BucketKeys(start, end, width) |->
            Aggregate(logs, {i \in inside : FloorBucket(logs[i].at, width) = b})]
  BY <1>2 DEF MetricBuckets
<1> QED  BY <1>1, <1>3 DEF Timeseries

\* The window and the one before it share the logs of one instant.
LEMMA WindowsMeet ==
  ASSUME NEW logs, IsFiniteSet(DOMAIN logs), \A i \in DOMAIN logs : logs[i].at \in Nat,
         NEW start \in Nat, NEW end \in Nat, start <= end
  PROVE  LET rows == StatsRows(logs, start, end)
             before == StatsRows(logs, start - (end - start), start)
         IN  Cardinality(before) + Cardinality(rows)
                - Cardinality({r \in rows : logs[r].at = start})
             = Cardinality(StatsRows(logs, 2 * start - end, end))
<1> DEFINE S == StatsRows(logs, start, end)
           T == StatsRows(logs, start - (end - start), start)
<1>1. S \in SUBSET DOMAIN logs /\ T \in SUBSET DOMAIN logs
  BY DEF StatsRows
<1>2. IsFiniteSet(S) /\ IsFiniteSet(T)
  BY <1>1, FS_Subset
<1>3. T \cap S = {r \in S : logs[r].at = start}
  BY DEF StatsRows
<1>4. T \cup S = StatsRows(logs, 2 * start - end, end)
  BY DEF StatsRows
<1> HIDE DEF S, T
<1>5. Cardinality(T \cup S) = Cardinality(T) + Cardinality(S) - Cardinality(T \cap S)
  BY <1>2, FS_Union
<1> QED  BY <1>3, <1>4, <1>5 DEF S, T

\* The first of the totals is the largest.
LEMMA TopIsLargest ==
  ASSUME NEW totals, IsFiniteSet(DOMAIN totals), DOMAIN totals \subseteq Nat,
         \A n \in DOMAIN totals : totals[n].tokens \in Int,
         NEW k \in DOMAIN totals, NEW i \in DOMAIN Largest(totals, 1),
         k \notin ToSet(Largest(totals, 1))
  PROVE  totals[k].tokens <= totals[Largest(totals, 1)[i]].tokens
<1> DEFINE S == DOMAIN totals
           n == Cardinality(S)
           More(x, y) == x # y /\ totals[x].tokens >= totals[y].tokens
           R == {p \in S \X S : \/ totals[p[1]].tokens > totals[p[2]].tokens
                                \/ /\ totals[p[1]].tokens = totals[p[2]].tokens
                                   /\ p[1] < p[2]}
           names == Sorted(S, More)
<1>1. \A x, y \in S : <<x, y>> \in R <=>
            \/ totals[x].tokens > totals[y].tokens
            \/ totals[x].tokens = totals[y].tokens /\ x < y
  OBVIOUS
<1> HIDE DEF R
<1>2. Orders(R, S)
  BY <1>1 DEF Orders
<1>3. \E s : InOrder(s, S, R)
  BY <1>2, SortedExists
<1>4. \A x, y \in S : <<x, y>> \in R => More(x, y)
  BY <1>1
<1>5. \E s \in [1 .. n -> S] : \A a, b \in 1 .. n : a < b => More(s[a], s[b])
  BY <1>3, <1>4 DEF InOrder
<1>6. /\ names \in [1 .. n -> S]
      /\ \A a, b \in 1 .. n : a < b => More(names[a], names[b])
  BY <1>5 DEF Sorted
<1>7. n \in Nat
  BY FS_CardinalityType
<1> DEFINE top == Largest(totals, 1)
<1>8. top = SubSeq(names, 1, IF 1 < Len(names) THEN 1 ELSE Len(names))
  BY DEF Largest
<1> HIDE DEF names, n, More
<1>9. names \in Injection(1 .. n, S)
  <2>1. \A a, b \in 1 .. n : a # b => names[a] # names[b]
    <3> TAKE a, b \in 1 .. n
    <3>1. a # b => a < b \/ b < a
      BY <1>7
    <3> QED  BY <1>6, <3>1 DEF More
  <2> QED  BY <1>6, <2>1 DEF Injection, IsInjective
<1>10. PICK j \in 1 .. n : names[j] = k
  <2>1. IsFiniteSet(1 .. n) /\ Cardinality(1 .. n) = n
    BY <1>7, FS_Interval
  <2>2. names \in Surjection(1 .. n, S)
    BY <1>9, <2>1, FS_Injection DEF n
  <2> QED  BY <2>2 DEF Surjection
<1>11. /\ names \in Seq(S) /\ Len(names) = n /\ 1 <= n
  BY <1>6, <1>7
<1>12. /\ Len(top) = 1 /\ DOMAIN top = 1 .. 1 /\ top[1] = names[1]
  <2>0. (IF 1 < Len(names) THEN 1 ELSE Len(names)) = 1
    BY <1>7, <1>11
  <2>1. top = SubSeq(names, 1, 1)
    BY <1>8, <2>0
  <2> HIDE DEF top
  <2> QED  BY <1>11, <2>1, SubSeqProperties
<1>13. i = 1 /\ k # names[1]
  BY <1>12 DEF ToSet
<1>14. 1 \in 1 .. n /\ 1 < j
  BY <1>7, <1>10, <1>11, <1>13
<1>15. More(names[1], k)
  BY <1>6, <1>10, <1>14
<1>16. names[1] \in S
  BY <1>6, <1>14
<1> QED  BY <1>12, <1>13, <1>15, <1>16 DEF More

-----------------------------------------------------------------------------
(* The logs go with their key.                                             *)

\* Every log is that of a key there is.
Kept == \A r \in Logged : request[r].key \in DOMAIN row

\* One request changes, and it is not logged or its key is there.
LEMMA KeptByOne ==
  ASSUME IInv, Kept, NEW r \in Requests, NEW req, request' = [request EXCEPT ![r] = req],
         DOMAIN row' = DOMAIN row, req.phase = "logged" => req.key \in DOMAIN row
  PROVE  Kept'
<1>1. request'[r] = req /\ \A i \in Requests \ {r} : request'[i] = request[i]
  <2>1. request' = [i \in Requests |-> IF i = r THEN req ELSE request[i]]
    BY Typed DEF IsFunction
  <2> QED  BY <2>1
<1> QED  BY <1>1 DEF Kept, Logged

\* A request on its way writes no log.
LEMMA KeptByRequests ==
  ASSUME IInv, Kept, NEW r \in Requests,
         \/ ReadKeys(r) \/ FilterCandidates(r) \/ Choose(r) \/ FindNone(r)
         \/ Fail(r) \/ Serve(r) \/ Stamp(r) \/ LoseLog(r)
  PROVE  Kept'
<1>1. DOMAIN row' = DOMAIN row
  BY DEF ReadKeys, FilterCandidates, Choose, FindNone, Fail, Serve, Stamp, LoseLog
<1>2. CASE Choose(r)
  <2>1. PICK rule \in Rules :
          request' = [request EXCEPT ![r] =
            [phase |-> "open", rule |-> rule,
             order |-> OrderCandidates(rule, request[r].keys)]]
    BY <1>2 DEF Choose
  <2> QED  BY <1>1, <2>1, KeptByOne
<1>3. CASE Fail(r)
  <2> DEFINE old == request[r]
             req == IF Len(old.order) > 1 THEN [old EXCEPT !.order = Tail(@)]
                                          ELSE [phase |-> "gone"]
  <2>1. /\ request' = [request EXCEPT ![r] = req]
        /\ old \in [phase : {"open"}, rule : Rules, order : Seq(Keys)]
    BY <1>3, Typed DEF Fail, RequestOK
  <2>2. req.phase # "logged"
    BY <2>1
  <2> HIDE DEF req
  <2> QED  BY <1>1, <2>1, <2>2, KeptByOne
<1>4. CASE Serve(r)
  <2>1. PICK n \in TokenCounts :
          request' = [request EXCEPT ![r] =
            [phase |-> "served", rule |-> request[r].rule,
             key |-> Head(request[r].order), tokens |-> n]]
    BY <1>4 DEF Serve
  <2> QED  BY <1>1, <2>1, KeptByOne
<1>5. CASE Stamp(r)
  <2> DEFINE req == [phase |-> "stamped", rule |-> request[r].rule, key |-> request[r].key,
                     tokens |-> request[r].tokens, day |-> Today]
  <2>1. request' = [request EXCEPT ![r] = req]
    BY <1>5 DEF Stamp
  <2> QED  BY <1>1, <2>1, KeptByOne
<1>6. CASE LoseLog(r) \/ FindNone(r)
  BY <1>1, <1>6, KeptByOne DEF LoseLog, FindNone
<1>7. CASE ReadKeys(r)
  <2>1. request' = [request EXCEPT ![r] = [phase |-> "reading", rows |-> row]]
    BY <1>7 DEF ReadKeys
  <2> QED  BY <1>1, <2>1, KeptByOne
<1>8. CASE FilterCandidates(r)
  <2>1. PICK c : request' = [request EXCEPT ![r] = [phase |-> "choosing", keys |-> c]]
    BY <1>8 DEF FilterCandidates
  <2> QED  BY <1>1, <2>1, KeptByOne
<1> QED  BY <1>2, <1>3, <1>4, <1>5, <1>6, <1>7, <1>8

\* A log is written in the transaction that updates the row of its key.
LEMMA KeptByLog ==
  ASSUME IInv, Kept, NEW r \in Requests, WriteLog(r)
  PROVE  Kept'
<1> DEFINE req == [phase |-> "logged", rule |-> request[r].rule, key |-> request[r].key,
                   tokens |-> request[r].tokens, day |-> request[r].day, at |-> clock]
<1>1. request' = [request EXCEPT ![r] = req] /\ req.key \in DOMAIN row
  BY DEF WriteLog
<1>2. DOMAIN row' = DOMAIN row
  BY DEF WriteLog
<1> HIDE DEF req
<1> QED  BY <1>1, <1>2, KeptByOne

\* The logs of a deleted key go.
LEMMA KeptByDelete ==
  ASSUME IInv, Kept, NEW k \in Keys, DeleteKey(k)
  PROVE  Kept'
<1>1. /\ row' = [j \in DOMAIN row \ {k} |-> row[j]]
      /\ request' = [r \in Requests |->
            IF r \in Logged /\ request[r].key = k THEN [phase |-> "gone"] ELSE request[r]]
  BY DEF DeleteKey, Restrict
<1>2. \A r \in Requests :
        \/ request'[r] = request[r] /\ ~(request[r].phase = "logged" /\ request[r].key = k)
        \/ request'[r] = [phase |-> "gone"]
  BY <1>1 DEF Logged
<1>3. DOMAIN row' = DOMAIN row \ {k}
  BY <1>1
<1> QED  BY <1>2, <1>3 DEF Kept, Logged

\* A restart deletes no key.
LEMMA KeptByRestart ==
  ASSUME IInv, Kept, Restart
  PROVE  Kept'
<1>1. \A r \in Requests : request'[r] = request[r] \/ request'[r] = [phase |-> "gone"]
  BY DEF Restart
<1>2. row' = row
  BY DEF Restart
<1> QED  BY <1>1, <1>2 DEF Kept, Logged

\* No step leaves a log behind its key.
LEMMA KeptStep ==
  ASSUME IInv, Kept, [Next]_vars
  PROVE  Kept'
<1>1. CASE UNCHANGED vars
  BY <1>1 DEF vars, Kept, Logged
<1>2. ASSUME NEW r \in Requests,
             \/ ReadKeys(r) \/ FilterCandidates(r) \/ Choose(r) \/ FindNone(r)
             \/ Fail(r) \/ Serve(r) \/ Stamp(r) \/ WriteLog(r) \/ LoseLog(r)
      PROVE  Kept'
  BY <1>2, KeptByRequests, KeptByLog
<1>3. ASSUME request' = request, DOMAIN row' = DOMAIN row PROVE Kept'
  BY <1>3 DEF Kept, Logged
<1>4. CASE \/ \E rule \in Rules : Peek(rule)
           \/ \E rule \in Sequential : ActiveExpires(rule)
           \/ SweepReads \/ SweepCommits \/ SweepFails \/ Tick
  BY <1>3, <1>4 DEF Peek, ActiveExpires, SweepReads, SweepCommits, SweepFails, Tick
<1>5. ASSUME NEW k \in Keys, DeleteKey(k) PROVE Kept'
  BY <1>5, KeptByDelete
<1>6. CASE Restart
  BY <1>6, KeptByRestart
<1> QED  BY <1>1, <1>2, <1>4, <1>5, <1>6 DEF Next

\* Every log is that of a key there is, in every state.
LEMMA LogsStay == Spec => [](IInv /\ Kept)
<1>1. Init => Kept
  BY DEF Init, Kept, Logged
<1>2. Kept /\ IInv /\ [Next]_vars => Kept'
  BY KeptStep
<1> QED  BY <1>1, <1>2, Invariant, PTL DEF Spec

\* The logs as the pages read them.
LEMMA LogFacts ==
  ASSUME IInv, Kept
  PROVE  /\ DOMAIN Logs = Logged /\ Logged \in SUBSET Requests /\ IsFiniteSet(Logged)
         /\ \A r \in Logged :
              /\ Logs[r] = request[r] /\ request[r].tokens \in Nat
              /\ request[r].at \in Nat /\ request[r].at <= clock
              /\ request[r].key \in DOMAIN row /\ request[r].key \in Nat
<1>1. Logs = [r \in Logged |-> request[r]]
  BY DEF Logs, Restrict
<1>2. Logged \in SUBSET Requests
  BY DEF Logged
<1>3. IsFiniteSet(Logged)
  BY <1>2, ServingAssumption, FS_Subset
<1>4. ASSUME NEW r \in Logged
      PROVE  /\ request[r].tokens \in Nat /\ request[r].at \in Nat /\ request[r].at <= clock
             /\ request[r].key \in DOMAIN row /\ request[r].key \in Nat
  <2>1. request[r].phase = "logged" /\ RequestOK(request[r], clock)
    BY Typed DEF Logged
  <2>2. request[r].tokens \in TokenCounts /\ request[r].at \in 0 .. clock
    BY <2>1 DEF RequestOK
  <2>3. request[r].key \in DOMAIN row
    BY DEF Kept
  <2>4. clock \in Nat /\ DOMAIN row \subseteq Keys
    BY Typed
  <2>5. Keys \subseteq Nat /\ TokenCounts \subseteq Nat
    BY ServingAssumption
  <2>6. request[r].at \in Nat /\ request[r].at <= clock
    BY <2>2, <2>4
  <2> QED  BY <2>2, <2>3, <2>4, <2>5, <2>6
<1> QED  BY <1>1, <1>2, <1>3, <1>4

\* A window is a finite set of logs.
LEMMA RowsOfWindow ==
  ASSUME NEW logs, IsFiniteSet(DOMAIN logs), NEW start, NEW end
  PROVE  IsFiniteSet(StatsRows(logs, start, end)) /\ StatsRows(logs, start, end) \in SUBSET DOMAIN logs
<1>1. StatsRows(logs, start, end) \in SUBSET DOMAIN logs
  BY DEF StatsRows
<1> QED  BY <1>1, FS_Subset

\* The totals of the keys are of finitely many numbers.
LEMMA KeyTotals ==
  ASSUME NEW logs, IsFiniteSet(DOMAIN logs),
         \A i \in DOMAIN logs : logs[i].tokens \in Nat /\ logs[i].key \in Nat,
         NEW start, NEW end
  PROVE  LET keys == TotalsByKey(logs, start, end) IN
         /\ IsFiniteSet(DOMAIN keys) /\ DOMAIN keys \subseteq Nat
         /\ \A n \in DOMAIN keys : keys[n].tokens \in Int
<1> DEFINE S == StatsRows(logs, start, end)
           name == KeyOf(logs)
           keys == TotalsBy(logs, S, name)
           Part(n) == {i \in S : name[i] = n}
<1>1. IsFiniteSet(S) /\ S \in SUBSET DOMAIN logs
  BY RowsOfWindow
<1>2. \A i \in S : name[i] = logs[i].key /\ name[i] \in Nat
  BY <1>1 DEF KeyOf
<1> HIDE DEF S, name
<1>3. /\ DOMAIN keys = {name[i] : i \in S}
      /\ \A n \in DOMAIN keys : keys[n] = Aggregate(logs, Part(n))
  BY DEF TotalsBy
<1>4. IsFiniteSet(DOMAIN keys) /\ DOMAIN keys \subseteq Nat
  BY <1>1, <1>2, <1>3, NamesFinite
<1>5. ASSUME NEW n \in DOMAIN keys PROVE keys[n].tokens \in Int
  <2> DEFINE f == [i \in Part(n) |-> logs[i].tokens]
  <2>1. keys[n].tokens = SumFunctionOnSet(f, Part(n))
    <3>1. keys[n] = Aggregate(logs, Part(n))
      BY <1>3
    <3>2. Aggregate(logs, Part(n)).tokens = SumFunction(f)
      BY DEF Aggregate
    <3>3. DOMAIN f = Part(n)
      OBVIOUS
    <3> HIDE DEF f, Part, keys
    <3> QED  BY <3>1, <3>2, <3>3 DEF SumFunction
  <2>2. IsFiniteSet(Part(n)) /\ Part(n) \in SUBSET S
    <3>1. Part(n) \in SUBSET S
      OBVIOUS
    <3> QED  BY <1>1, <3>1, FS_Subset
  <2>3. \A i \in Part(n) : f[i] \in Int
    BY <1>1, <2>2
  <2> HIDE DEF f, Part, keys
  <2>4. SumFunctionOnSet(f, Part(n)) \in Int
    BY <2>2, <2>3, SumType
  <2> QED  BY <2>1, <2>4
<1> HIDE DEF keys
<1> QED  BY <1>4, <1>5 DEF keys, TotalsByKey, S, name

\* What the pages say of a window.
LEMMA WindowAddsUp ==
  ASSUME NEW logs, IsFiniteSet(DOMAIN logs),
         \A i \in DOMAIN logs : logs[i].tokens \in Nat /\ logs[i].at \in Nat
                                /\ logs[i].key \in Nat,
         NEW start \in Nat, NEW end \in Nat, start <= end
  PROVE  LET rows == StatsRows(logs, start, end)
             window == Aggregate(logs, rows)
             views == Overview(logs, start, end)
             meeting == {r \in rows : logs[r].at = start}
             keys == TotalsByKey(logs, start, end)
             top == TopKeys(logs, start, end, 1)
         IN  /\ \A width \in 1 .. 2 :
                LET series == Timeseries(logs, start, end, width)
                IN  /\ Sum(series) = window
                    /\ MetricBuckets(logs, start, end, width) = series
             /\ Sum(DistributionByRule(logs, start, end)) = window
             /\ Sum(keys) = window
             /\ views.current = window
             /\ views.previous.requests + window.requests - Cardinality(meeting)
                    = Cardinality(StatsRows(logs, 2 * start - end, end))
             /\ \A k \in DOMAIN keys, i \in DOMAIN top :
                    k \notin ToSet(top) => keys[k].tokens <= keys[top[i]].tokens
<1> DEFINE rows == StatsRows(logs, start, end)
           window == Aggregate(logs, rows)
           views == Overview(logs, start, end)
           meeting == {r \in rows : logs[r].at = start}
           keys == TotalsByKey(logs, start, end)
           top == TopKeys(logs, start, end, 1)
<1>0. IsFiniteSet(rows) /\ rows \in SUBSET DOMAIN logs /\ \A i \in rows : logs[i].tokens \in Nat
  BY RowsOfWindow
<1>1. \A width \in 1 .. 2 : /\ Sum(Timeseries(logs, start, end, width)) = window
                            /\ MetricBuckets(logs, start, end, width)
                                = Timeseries(logs, start, end, width)
  BY SeriesAddsUp, SeriesAgree
<1>2. Sum(DistributionByRule(logs, start, end)) = window
  BY <1>0, TotalsAddUp DEF DistributionByRule
<1>3. Sum(keys) = window
  BY <1>0, TotalsAddUp DEF TotalsByKey
<1>4. views.current = window
  BY DEF Overview
<1>5. views.previous.requests + window.requests - Cardinality(meeting)
        = Cardinality(StatsRows(logs, 2 * start - end, end))
  BY WindowsMeet DEF Overview, Aggregate
<1>6. \A k \in DOMAIN keys, i \in DOMAIN top :
        k \notin ToSet(top) => keys[k].tokens <= keys[top[i]].tokens
  <2>1. /\ IsFiniteSet(DOMAIN keys) /\ DOMAIN keys \subseteq Nat
        /\ \A n \in DOMAIN keys : keys[n].tokens \in Int
    BY KeyTotals
  <2>2. top = Largest(keys, 1)
    BY DEF TopKeys
  <2> HIDE DEF keys, top
  <2> QED  BY <2>1, <2>2, TopIsLargest
<1> HIDE DEF rows, window, views, meeting, keys, top
<1>7. /\ \A width \in 1 .. 2 : LET series == Timeseries(logs, start, end, width)
                               IN  /\ Sum(series) = window
                                   /\ MetricBuckets(logs, start, end, width) = series
      /\ Sum(DistributionByRule(logs, start, end)) = window
      /\ Sum(keys) = window
      /\ views.current = window
      /\ views.previous.requests + window.requests - Cardinality(meeting)
             = Cardinality(StatsRows(logs, 2 * start - end, end))
      /\ \A k \in DOMAIN keys, i \in DOMAIN top :
             k \notin ToSet(top) => keys[k].tokens <= keys[top[i]].tokens
  BY <1>1, <1>2, <1>3, <1>4, <1>5, <1>6
<1> QED  BY <1>7 DEF rows, window, views, meeting, keys, top

\* A day began at its number times its length.
LEMMA DayBegan ==
  ASSUME NEW now \in Nat, NEW t \in Nat, t <= now
  PROVE  t >= Day(now) * DayLength <=> Day(t) = Day(now)
<1> DEFINE L == DayLength
           d == t \div L
           e == now \div L
<1>1. L \in Nat \ {0}
  BY ServingAssumption
<1> HIDE DEF L
<1>2. d \in Nat /\ e \in Nat
  BY <1>1
<1>3. d * L <= t /\ t < (d + 1) * L
  BY <1>1
<1>4. e * L <= now /\ now < (e + 1) * L
  BY <1>1
<1> HIDE DEF d, e
<1>5. (d + 1) * L = d * L + L /\ (e + 1) * L = e * L + L
  BY <1>1, <1>2
<1>6. d * L \in Nat /\ e * L \in Nat
  BY <1>1, <1>2
<1>7. d < e => (d + 1) * L <= e * L
  BY <1>1, <1>2
<1>8. e < d => (e + 1) * L <= d * L
  BY <1>1, <1>2
<1>9. ~(e < d)
  BY <1>1, <1>2, <1>3, <1>4, <1>5, <1>6, <1>8
<1>10. t >= e * L <=> d = e
  BY <1>1, <1>2, <1>3, <1>5, <1>6, <1>7, <1>9
<1> QED  BY <1>10 DEF Day, d, e, L

\* The tokens of today are those of the counters.
LEMMA TodayAddsUp ==
  ASSUME IInv, Kept, \A r \in Logged : Logs[r].day = Day(Logs[r].at),
         unsettled \cap DOMAIN row = {}
  PROVE  UsageStats(Logs, Today * DayLength).today
            = SumFunction([k \in DOMAIN row |-> UsedToday(k)])
<1> DEFINE S == {i \in DOMAIN Logs : Logs[i].at >= Today * DayLength}
           f == [i \in S |-> Logs[i].tokens]
           h == [i \in S |-> request[i].key]
           B == DOMAIN row
           g == [k \in B |-> UsedToday(k)]
<1>1. UsageStats(Logs, Today * DayLength).today = SumFunctionOnSet(f, S)
  BY DEF UsageStats, Aggregate, SumFunction
<1>2. SumFunction(g) = SumFunctionOnSet(g, B)
  BY DEF SumFunction
<1>3. \A i : i \in S <=> i \in Logged /\ request[i].day = Today
  <2> TAKE i
  <2>1. ASSUME i \in Logged
        PROVE  Logs[i].at >= Today * DayLength <=> request[i].day = Today
    <3>1. /\ Logs[i] = request[i] /\ request[i].at \in Nat /\ request[i].at <= clock
          /\ request[i].day = Day(request[i].at) /\ clock \in Nat /\ Today = Day(clock)
      BY <2>1, LogFacts, Typed
    <3> QED  BY <3>1, DayBegan
  <2> QED  BY <2>1, LogFacts
<1>4. /\ IsFiniteSet(S) /\ S \in SUBSET Logged
      /\ \A i \in S : f[i] = request[i].tokens /\ f[i] \in Int /\ h[i] = request[i].key /\ h[i] \in B
  <2>1. S \in SUBSET Logged
    BY <1>3
  <2>2. IsFiniteSet(S)
    BY <2>1, LogFacts, FS_Subset
  <2> QED  BY <2>1, <2>2, LogFacts
<1>5. IsFiniteSet(B)
  BY Typed, ServingAssumption, FS_Subset
<1> HIDE DEF S, f, h
<1>6. \A k \in B : g[k] = SumFunctionOnSet(f, PartOf(S, h, k))
  <2> TAKE k \in B
  <2> DEFINE ids == LogsOn(request, k, Today)
             p == [r \in ids |-> request[r].tokens]
  <2>1. g[k] = UsedOn(row[k], Today)
    BY DEF UsedToday, UsedOn
  <2>2. UsedOn(row[k], Today) = TokensOf(request, ids)
    BY DEF IInv, AddUp, CountsOf
  <2>3. TokensOf(request, ids) = SumFunctionOnSet(p, ids)
    BY DEF TokensOf
  <2>4. ids = PartOf(S, h, k)
    BY <1>3, <1>4 DEF PartOf, LogsOn, LogsOf, Logged
  <2>5. \A r \in ids : p[r] = f[r] /\ r \in S
    BY <1>4, <2>4 DEF PartOf
  <2>6. IsFiniteSet(ids)
    <3>1. ids \in SUBSET S
      BY <2>5
    <3> QED  BY <1>4, <3>1, FS_Subset
  <2> HIDE DEF ids, p
  <2>7. SumFunctionOnSet(p, ids) = SumFunctionOnSet(f, ids)
    BY <2>5, <2>6, SumOfSame
  <2> QED  BY <2>1, <2>2, <2>3, <2>4, <2>7
<1> HIDE DEF g, B
<1>7. SumFunctionOnSet(g, B) = SumFunctionOnSet(f, S)
  BY <1>4, <1>5, <1>6, SumOfParts
<1> QED  BY <1>1, <1>2, <1>7 DEF g, B

\* The rule groups of the usage page add up.
LEMMA GroupsAddUp ==
  ASSUME IInv, Kept
  PROVE  Sum(UsageStats(Logs, Today * DayLength).groups) = Aggregate(Logs, Logged)
<1>1. UsageStats(Logs, Today * DayLength).groups = TotalsBy(Logs, Logged, RuleOf(Logs))
  BY LogFacts DEF UsageStats
<1>2. IsFiniteSet(Logged) /\ \A i \in Logged : Logs[i].tokens \in Nat
  BY LogFacts
<1> QED  BY <1>1, <1>2, TotalsAddUp

\* The admin pages add up (stats.py, metrics.py and the usage page): for every
\* set of logs a run may leave, the series, the distribution and the totals of a
\* window count each log once, and the tokens of today are those of the counters.
THEOREM PagesAddUp == Spec => []StatsAddUp
<1>1. IInv /\ Kept => StatsAddUp
  <2> SUFFICES ASSUME IInv, Kept PROVE StatsAddUp
    OBVIOUS
  <2> DEFINE logs == Logs
  <2>1. /\ IsFiniteSet(DOMAIN logs)
        /\ \A i \in DOMAIN logs : logs[i].tokens \in Nat /\ logs[i].at \in Nat
                                  /\ logs[i].key \in Nat
    BY LogFacts
  <2>2. \A start \in 0 .. clock, end \in 0 .. clock : start \in Nat /\ end \in Nat
    BY Typed
  <2>3. Sum(UsageStats(logs, Today * DayLength).groups) = Aggregate(logs, Logged)
    BY GroupsAddUp
  <2>4. (\A r \in Logged : logs[r].day = Day(logs[r].at)) /\ unsettled \cap DOMAIN row = {}
            => UsageStats(logs, Today * DayLength).today
                    = SumFunction([k \in DOMAIN row |-> UsedToday(k)])
    BY TodayAddsUp
  <2>5. logs = Logs
    OBVIOUS
  <2> HIDE DEF logs
  <2> QED  BY <2>1, <2>2, <2>3, <2>4, <2>5, WindowAddsUp DEF StatsAddUp
<1> QED  BY <1>1, LogsStay, PTL
=============================================================================
