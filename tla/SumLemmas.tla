-------------------------------- MODULE SumLemmas --------------------------------
(***************************************************************************)
(* Facts about SumFunctionOnSet of the community module Functions: a sum   *)
(* over a finite set takes its elements in an order nobody knows, and does *)
(* not depend on it.  Induction is by a least counterexample, in the form  *)
(* of a minimal set among the subsets that violate the claim.              *)
(***************************************************************************)
EXTENDS Functions, Integers, FiniteSetTheorems, WellFoundedInduction, TLAPS

\* The equation SumFunctionOnSet's recursive function solves.
Pick(T) == CHOOSE x \in T : TRUE
Unfold(f, S, sum) ==
    [T \in SUBSET S |-> IF T = {} THEN 0 ELSE f[Pick(T)] + sum[T \ {Pick(T)}]]

\* A sum over the subsets of S that may take out any element first.
Additive(f, S, F) ==
    /\ F \in [SUBSET S -> Int]
    /\ F[{}] = 0
    /\ \A T \in SUBSET S : \A x \in T : F[T] = f[x] + F[T \ {x}]

\* Among subsets of a finite set, a nonempty family has a minimal member.
LEMMA MinimalSubset ==
    ASSUME NEW S, IsFiniteSet(S), NEW Bad \in SUBSET SUBSET S, Bad # {}
    PROVE  \E T \in Bad : \A x \in T : T \ {x} \notin Bad
<1>1. IsWellFoundedOn(StrictSubsetOrdering(S), SUBSET S)
    BY FS_StrictSubsetOrderingWellFounded, FS_FiniteSubsetsOfFinite
<1>2. PICK T \in Bad : \A U \in Bad : <<U, T>> \notin StrictSubsetOrdering(S)
    BY <1>1, WFMin
<1>3. ASSUME NEW x \in T, T \ {x} \in Bad PROVE FALSE
    BY <1>2, <1>3 DEF StrictSubsetOrdering
<1> QED BY <1>2, <1>3

\* Such a sum exists over every finite set: add the elements one at a time.
LEMMA AdditiveExists ==
    ASSUME NEW S, IsFiniteSet(S), NEW f \in [S -> Int]
    PROVE  \E F : Additive(f, S, F)
<1> DEFINE Bad == {T \in SUBSET S : ~ \E F : Additive(f, T, F)}
<1>1. SUFFICES ASSUME Bad # {} PROVE FALSE
    OBVIOUS
<1>2. PICK T \in Bad : \A x \in T : T \ {x} \notin Bad
    BY <1>1, MinimalSubset
<1>3. T # {}
    <2> DEFINE Z == [U \in SUBSET {} |-> 0]
    <2>1. Additive(f, {}, Z)
        BY DEF Additive
    <2> QED BY <2>1, <1>2
<1>4. PICK x \in T : TRUE
    BY <1>3
<1> DEFINE R == T \ {x}
<1>5. PICK F : Additive(f, R, F)
    BY <1>2, <1>4
<1> DEFINE G == [U \in SUBSET T |-> IF x \in U THEN f[x] + F[U \ {x}] ELSE F[U]]
<1>6. f[x] \in Int /\ \A U \in SUBSET R : F[U] \in Int
    BY <1>2, <1>4, <1>5 DEF Additive
<1>7. \A U \in SUBSET T : U \ {x} \in SUBSET R /\ (x \notin U => U \in SUBSET R)
    OBVIOUS
<1>8. G \in [SUBSET T -> Int]
    BY <1>6, <1>7
<1>9. G[{}] = 0
    BY <1>5 DEF Additive
<1>10. ASSUME NEW U \in SUBSET T, NEW y \in U
       PROVE  G[U] = f[y] + G[U \ {y}]
    <2>1. f[y] \in Int
        BY <1>2
    <2>2. CASE y = x
        BY <2>2, <1>7
    <2>3. CASE y # x /\ x \in U
        <3>1. F[U \ {x}] = f[y] + F[(U \ {x}) \ {y}]
            BY <2>3, <1>5, <1>7 DEF Additive
        <3>2. (U \ {x}) \ {y} = (U \ {y}) \ {x}
            OBVIOUS
        <3>3. G[U] = f[x] + F[U \ {x}] /\ G[U \ {y}] = f[x] + F[(U \ {y}) \ {x}]
            BY <2>3
        <3>4. F[(U \ {y}) \ {x}] \in Int
            BY <1>6, <1>7
        <3> DEFINE z == F[(U \ {y}) \ {x}]
        <3>5. f[x] + (f[y] + z) = f[y] + (f[x] + z)
            BY <3>4, <2>1, <1>6
        <3>6. G[U] = f[x] + (f[y] + z)
            BY <3>1, <3>2, <3>3
        <3>7. G[U \ {y}] = f[x] + z
            BY <3>3
        <3> QED BY <3>5, <3>6, <3>7
    <2>4. CASE x \notin U
        <3>1. F[U] = f[y] + F[U \ {y}]
            BY <2>4, <1>5, <1>7 DEF Additive
        <3> QED BY <3>1, <2>4
    <2> QED BY <2>2, <2>3, <2>4
<1>11. Additive(f, T, G)
    <2> HIDE DEF G
    <2> QED BY <1>8, <1>9, <1>10 DEF Additive
<1> QED BY <1>2, <1>11

\* The library's sum is the additive one.
LEMMA SumIsAdditive ==
    ASSUME NEW S, IsFiniteSet(S), NEW f, NEW F, Additive(f, S, F)
    PROVE  SumFunctionOnSet(f, S) = F[S]
<1> DEFINE sum == CHOOSE g : g = Unfold(f, S, g)
<1>1. SumFunctionOnSet(f, S) = sum[S]
    BY DEF SumFunctionOnSet, FoldFunctionOnSet, MapThenFoldSet, Unfold, Pick
<1>2. F = Unfold(f, S, F)
    <2>1. \A T \in SUBSET S : F[T] = IF T = {} THEN 0 ELSE f[Pick(T)] + F[T \ {Pick(T)}]
        BY DEF Additive, Pick
    <2> QED BY <2>1 DEF Unfold, Additive
<1>3. sum = Unfold(f, S, sum)
    BY <1>2
<1> DEFINE Bad == {T \in SUBSET S : sum[T] # F[T]}
<1>4. SUFFICES ASSUME Bad # {} PROVE FALSE
    BY <1>1
<1> HIDE DEF sum
<1>5. PICK T \in Bad : \A x \in T : T \ {x} \notin Bad
    BY <1>4, MinimalSubset
<1>6. sum[T] = IF T = {} THEN 0 ELSE f[Pick(T)] + sum[T \ {Pick(T)}]
    BY <1>3, <1>5 DEF Unfold
<1>7. CASE T = {}
    BY <1>5, <1>6, <1>7 DEF Additive
<1>8. CASE T # {}
    <2>1. Pick(T) \in T
        BY <1>8 DEF Pick
    <2>2. sum[T \ {Pick(T)}] = F[T \ {Pick(T)}]
        BY <2>1, <1>5
    <2>3. F[T] = f[Pick(T)] + F[T \ {Pick(T)}]
        BY <2>1, <1>5 DEF Additive
    <2> QED BY <2>2, <2>3, <1>5, <1>6, <1>8
<1> QED BY <1>7, <1>8

\* What the lemmas below need of a sum over S, in one place.
LEMMA SumAsAdditive ==
    ASSUME NEW S, IsFiniteSet(S), NEW f \in [S -> Int]
    PROVE  \E F : Additive(f, S, F) /\ \A T \in SUBSET S : SumFunctionOnSet(f, T) = F[T]
<1>1. PICK F : Additive(f, S, F)
    BY AdditiveExists
<1>2. ASSUME NEW T \in SUBSET S
      PROVE  SumFunctionOnSet(f, T) = F[T]
    <2> DEFINE H == [U \in SUBSET T |-> F[U]]
    <2>1. \A U \in SUBSET T : U \in SUBSET S /\ H[U] = F[U]
        OBVIOUS
    <2>2. Additive(f, T, H)
        <3>1. H \in [SUBSET T -> Int]
            BY <1>1, <2>1 DEF Additive
        <3>2. H[{}] = 0
            BY <1>1 DEF Additive
        <3>3. \A U \in SUBSET T : \A x \in U : H[U] = f[x] + H[U \ {x}]
            BY <1>1, <2>1 DEF Additive
        <3> HIDE DEF H
        <3> QED BY <3>1, <3>2, <3>3 DEF Additive
    <2>3. IsFiniteSet(T)
        BY FS_Subset
    <2> HIDE DEF H
    <2>4. SumFunctionOnSet(f, T) = H[T]
        BY <2>2, <2>3, SumIsAdditive
    <2> QED BY <2>1, <2>4
<1> QED BY <1>1, <1>2

\* The sum over a finite set is an integer, and an element can be taken out.
LEMMA SumRemove ==
    ASSUME NEW S, IsFiniteSet(S), NEW f \in [S -> Int]
    PROVE  /\ \A T \in SUBSET S : SumFunctionOnSet(f, T) \in Int
           /\ SumFunctionOnSet(f, {}) = 0
           /\ \A T \in SUBSET S : \A x \in T :
                 SumFunctionOnSet(f, T) = f[x] + SumFunctionOnSet(f, T \ {x})
<1>1. PICK F : Additive(f, S, F) /\ \A T \in SUBSET S : SumFunctionOnSet(f, T) = F[T]
    BY SumAsAdditive
<1>2. \A T \in SUBSET S : \A x \in T : T \ {x} \in SUBSET S
    OBVIOUS
<1> QED BY <1>1, <1>2 DEF Additive

LEMMA SumInt ==
    ASSUME NEW S, IsFiniteSet(S), NEW f \in [S -> Int]
    PROVE  SumFunction(f) \in Int
<1>1. DOMAIN f = S /\ S \in SUBSET S
    OBVIOUS
<1> QED BY <1>1, SumRemove DEF SumFunction

\* Functions that agree on a finite set have the same sum over it.
LEMMA SumEqual ==
    ASSUME NEW S, IsFiniteSet(S), NEW f \in [S -> Int], NEW g \in [S -> Int],
           NEW T \in SUBSET S, \A x \in T : f[x] = g[x]
    PROVE  SumFunctionOnSet(f, T) = SumFunctionOnSet(g, T)
<1> DEFINE Bad == {U \in SUBSET T : SumFunctionOnSet(f, U) # SumFunctionOnSet(g, U)}
<1>1. SUFFICES ASSUME Bad # {} PROVE FALSE
    OBVIOUS
<1>2. IsFiniteSet(T)
    BY FS_Subset
<1>3. PICK U \in Bad : \A x \in U : U \ {x} \notin Bad
    BY <1>1, <1>2, MinimalSubset
<1>4. U # {}
    BY <1>3, SumRemove
<1>5. PICK x \in U : TRUE
    BY <1>4
<1>6. SumFunctionOnSet(f, U \ {x}) = SumFunctionOnSet(g, U \ {x})
    BY <1>3, <1>5
<1>7. U \in SUBSET S /\ f[x] = g[x]
    BY <1>5
<1>8. SumFunctionOnSet(f, U) = f[x] + SumFunctionOnSet(f, U \ {x})
    BY <1>5, <1>7, SumRemove
<1>9. SumFunctionOnSet(g, U) = g[x] + SumFunctionOnSet(g, U \ {x})
    BY <1>5, <1>7, SumRemove
<1> QED BY <1>3, <1>6, <1>7, <1>8, <1>9

\* Changing one element changes the sum by as much.
LEMMA SumUpdate ==
    ASSUME NEW S, IsFiniteSet(S), NEW f \in [S -> Int], NEW g \in [S -> Int],
           NEW x \in S, \A y \in S \ {x} : g[y] = f[y]
    PROVE  SumFunction(g) = SumFunction(f) - f[x] + g[x]
<1>1. DOMAIN f = S /\ DOMAIN g = S
    OBVIOUS
<1>2. SumFunctionOnSet(f, S \ {x}) = SumFunctionOnSet(g, S \ {x})
    BY SumEqual
<1>3. SumFunctionOnSet(f, S) = f[x] + SumFunctionOnSet(f, S \ {x})
    BY SumRemove
<1>4. SumFunctionOnSet(g, S) = g[x] + SumFunctionOnSet(g, S \ {x})
    BY SumRemove
<1>5. SumFunctionOnSet(f, S \ {x}) \in Int /\ f[x] \in Int /\ g[x] \in Int
    BY SumRemove
<1> QED BY <1>1, <1>2, <1>3, <1>4, <1>5 DEF SumFunction

\* A sum of naturals is a natural, no smaller than any of its elements.
LEMMA SumBound ==
    ASSUME NEW S, IsFiniteSet(S), NEW f \in [S -> Nat]
    PROVE  /\ SumFunction(f) \in Nat
           /\ \A x \in S : f[x] <= SumFunction(f)
<1> DEFINE Bad == {U \in SUBSET S : ~ SumFunctionOnSet(f, U) >= 0}
<1>1. f \in [S -> Int] /\ DOMAIN f = S
    OBVIOUS
<1>2. Bad = {}
    <2>1. SUFFICES ASSUME Bad # {} PROVE FALSE
        OBVIOUS
    <2>2. PICK U \in Bad : \A x \in U : U \ {x} \notin Bad
        BY <2>1, MinimalSubset
    <2>3. U # {}
        BY <2>2, <1>1, SumRemove
    <2>4. PICK x \in U : TRUE
        BY <2>3
    <2>5. SumFunctionOnSet(f, U) = f[x] + SumFunctionOnSet(f, U \ {x})
        BY <2>4, <1>1, SumRemove
    <2>6. SumFunctionOnSet(f, U \ {x}) \in Int /\ SumFunctionOnSet(f, U \ {x}) >= 0
        BY <2>2, <2>4, <1>1, SumRemove
    <2> QED BY <2>2, <2>4, <2>5, <2>6
<1>3. \A U \in SUBSET S : SumFunctionOnSet(f, U) \in Int /\ SumFunctionOnSet(f, U) >= 0
    BY <1>1, <1>2, SumRemove
<1>4. ASSUME NEW x \in S
      PROVE  f[x] <= SumFunctionOnSet(f, S)
    <2>1. SumFunctionOnSet(f, S) = f[x] + SumFunctionOnSet(f, S \ {x})
        BY <1>1, SumRemove
    <2>2. S \ {x} \in SUBSET S
        OBVIOUS
    <2> QED BY <2>1, <2>2, <1>3
<1>5. S \in SUBSET S
    OBVIOUS
<1>6. SumFunctionOnSet(f, S) \in Nat
    BY <1>3, <1>5
<1> QED BY <1>1, <1>4, <1>6 DEF SumFunction

\* The sum of a function that is nowhere but zero.
LEMMA SumZero ==
    ASSUME NEW S, IsFiniteSet(S), NEW f, f = [x \in S |-> 0]
    PROVE  SumFunction(f) = 0
<1> DEFINE Bad == {U \in SUBSET S : SumFunctionOnSet(f, U) # 0}
<1>1. f \in [S -> Int] /\ DOMAIN f = S
    OBVIOUS
<1>2. Bad = {}
    <2>1. SUFFICES ASSUME Bad # {} PROVE FALSE
        OBVIOUS
    <2>2. PICK U \in Bad : \A x \in U : U \ {x} \notin Bad
        BY <2>1, MinimalSubset
    <2>3. U # {}
        BY <2>2, <1>1, SumRemove
    <2>4. PICK x \in U : TRUE
        BY <2>3
    <2>5. SumFunctionOnSet(f, U) = f[x] + SumFunctionOnSet(f, U \ {x})
        BY <2>4, <1>1, SumRemove
    <2>6. SumFunctionOnSet(f, U \ {x}) = 0 /\ f[x] = 0
        BY <2>2, <2>4
    <2> QED BY <2>2, <2>5, <2>6
<1> QED BY <1>1, <1>2 DEF SumFunction
================================================================================
