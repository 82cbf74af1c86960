----------------------------- MODULE SumTheorems -----------------------------
(***************************************************************************)
(* What the proofs use of Sum(f, S), for any finite set S: that it does    *)
(* not depend on the order of the terms, how it follows a change of f or   *)
(* of S, and what first come, first served takes in all.                   *)
(***************************************************************************)
EXTENDS Sums, FiniteSets, FiniteSetTheorems, WellFoundedInduction, TLAPS

\* The recursive function behind MapThenSumSet.
IsFold(g, f, S) ==
    g = [s \in SUBSET S |->
           IF s = {} THEN 0
           ELSE f[CHOOSE x \in s : TRUE] + g[s \ {CHOOSE x \in s : TRUE}]]

FoldOf(f, S) == CHOOSE g : IsFold(g, f, S)

LEMMA SumIsFold == \A f, S : Sum(f, S) = FoldOf(f, S)[S]
  BY DEF Sum, MapThenSumSet, MapThenFoldSet, FoldOf, IsFold

-----------------------------------------------------------------------------
\* Among finite sets, some set of a family has no smaller one in it.
LEMMA Least ==
    ASSUME NEW S, IsFiniteSet(S), NEW D, D \subseteq SUBSET S, D # {}
    PROVE  \E T \in D : \A U \in D : U \subseteq T => U = T
<1>1. IsWellFoundedOn(StrictSubsetOrdering(S), FiniteSubsetsOf(S))
  BY FS_StrictSubsetOrderingWellFounded
<1>2. D \subseteq FiniteSubsetsOf(S)
  BY FS_Subset DEF FiniteSubsetsOf
<1>3. PICK T \in D : \A U \in D : ~(<<U, T>> \in StrictSubsetOrdering(S))
  BY <1>1, <1>2, WFMin
<1>4. \A U \in D : U \subseteq T => U = T
  BY <1>3 DEF StrictSubsetOrdering
<1> QED
  BY <1>4

\* Two folds of f agree where both are defined.
LEMMA FoldUnique ==
    ASSUME NEW f, NEW S, IsFiniteSet(S), NEW T, NEW g, NEW h,
           IsFold(g, f, S), IsFold(h, f, T)
    PROVE  \A s \in SUBSET S : s \subseteq T => g[s] = h[s]
<1> DEFINE D == {s \in SUBSET S : s \subseteq T /\ g[s] # h[s]}
<1> SUFFICES ASSUME D # {} PROVE FALSE
  OBVIOUS
<1>1. PICK s \in D : \A u \in D : u \subseteq s => u = s
  <2>1. D \subseteq SUBSET S
    OBVIOUS
  <2> HIDE DEF D
  <2> QED
    BY <2>1, Least
<1>2. g[s] = IF s = {} THEN 0 ELSE f[CHOOSE x \in s : TRUE] + g[s \ {CHOOSE x \in s : TRUE}]
  BY DEF IsFold
<1>3. h[s] = IF s = {} THEN 0 ELSE f[CHOOSE x \in s : TRUE] + h[s \ {CHOOSE x \in s : TRUE}]
  BY DEF IsFold
<1>4. s # {}
  BY <1>2, <1>3
<1> DEFINE c == CHOOSE x \in s : TRUE
<1>5. c \in s
  BY <1>4
<1>6. s \ {c} \notin D
  BY <1>1, <1>5
<1>7. g[s \ {c}] = h[s \ {c}]
  BY <1>6
<1> QED
  BY <1>2, <1>3, <1>4, <1>7

\* Every finite set has a fold.
LEMMA FoldExists == ASSUME NEW f, NEW S, IsFiniteSet(S) PROVE IsFold(FoldOf(f, S), f, S)
<1> DEFINE D == {T \in SUBSET S : ~ \E g : IsFold(g, f, T)}
<1>1. ASSUME D # {} PROVE FALSE
  <2>1. PICK T \in D : \A U \in D : U \subseteq T => U = T
    <3>1. D \subseteq SUBSET S
      OBVIOUS
    <3> HIDE DEF D
    <3> QED
      BY <1>1, <3>1, Least
  <2>2. \A U \in SUBSET T : U # T => IsFold(FoldOf(f, U), f, U)
    BY <2>1 DEF FoldOf
  <2> DEFINE at(s) == FoldOf(f, s)[s]
             c(s)  == CHOOSE x \in s : TRUE
             g     == [s \in SUBSET T |-> IF s = {} THEN 0 ELSE f[c(s)] + at(s \ {c(s)})]
  <2>3. \A s \in SUBSET T : s # {} => c(s) \in s
    OBVIOUS
  <2>4. \A s \in SUBSET T : s # T => g[s] = at(s)
    <3> SUFFICES ASSUME NEW s \in SUBSET T, s # T PROVE g[s] = at(s)
      OBVIOUS
    <3> DEFINE h == FoldOf(f, s)
    <3>1. IsFold(h, f, s)
      BY <2>2
    <3>2. h[s] = IF s = {} THEN 0 ELSE f[c(s)] + h[s \ {c(s)}]
      <4> HIDE DEF h
      <4> QED
        BY <3>1 DEF IsFold
    <3>3. CASE s = {}
      BY <3>2, <3>3
    <3>4. CASE s # {}
      <4> DEFINE u == s \ {c(s)}
      <4>1. u \in SUBSET T /\ u # T /\ u \in SUBSET s
        BY <2>3, <3>4
      <4>2. IsFold(FoldOf(f, u), f, u)
        BY <2>2, <4>1
      <4>3. IsFiniteSet(u)
        BY <2>1, <4>1, FS_Subset
      <4> HIDE DEF h, u
      <4>4. FoldOf(f, u)[u] = h[u]
        BY <3>1, <4>1, <4>2, <4>3, FoldUnique
      <4> QED
        BY <3>2, <3>4, <4>4 DEF u, h
    <3> QED
      BY <3>3, <3>4
  <2>5. IsFold(g, f, T)
    <3>1. \A s \in SUBSET T : s # {} => s \ {c(s)} \in SUBSET T /\ s \ {c(s)} # T
      BY <2>3
    <3>2. \A s \in SUBSET T : s # {} => g[s \ {c(s)}] = at(s \ {c(s)})
      BY <2>4, <3>1
    <3>3. \A s \in SUBSET T : g[s] = IF s = {} THEN 0 ELSE f[c(s)] + g[s \ {c(s)}]
      <4> SUFFICES ASSUME NEW s \in SUBSET T
                   PROVE  g[s] = IF s = {} THEN 0 ELSE f[c(s)] + g[s \ {c(s)}]
        OBVIOUS
      <4>1. g[s] = IF s = {} THEN 0 ELSE f[c(s)] + at(s \ {c(s)})
        OBVIOUS
      <4>2. s # {} => g[s \ {c(s)}] = at(s \ {c(s)})
        BY <3>2
      <4> HIDE DEF g, at
      <4> QED
        BY <4>1, <4>2
    <3>4. g = [s \in SUBSET T |-> g[s]]
      OBVIOUS
    <3> HIDE DEF g, at
    <3>5. g = [s \in SUBSET T |-> IF s = {} THEN 0 ELSE f[c(s)] + g[s \ {c(s)}]]
      BY <3>3, <3>4
    <3> QED
      BY <3>5 DEF IsFold
  <2> QED
    BY <2>1, <2>5
<1> QED
  BY <1>1 DEF FoldOf
-----------------------------------------------------------------------------
(* Adding up one element at a time, in any order *)

LEMMA SumEmpty == \A f : Sum(f, {}) = 0
<1> TAKE f
<1>1. IsFiniteSet({})
  BY FS_EmptySet
<1>2. IsFold(FoldOf(f, {}), f, {})
  BY <1>1, FoldExists
<1> QED
  BY <1>2, SumIsFold DEF IsFold

\* The sum takes the chosen element first.
LEMMA SumChosen ==
    ASSUME NEW f, NEW S, IsFiniteSet(S), S # {}
    PROVE  Sum(f, S) = f[CHOOSE x \in S : TRUE] + Sum(f, S \ {CHOOSE x \in S : TRUE})
<1> DEFINE c == CHOOSE x \in S : TRUE
           T == S \ {c}
           g == FoldOf(f, S)
           h == FoldOf(f, T)
<1>1. T \in SUBSET S /\ IsFiniteSet(T)
  BY FS_Subset
<1>2. IsFold(g, f, S) /\ IsFold(h, f, T)
  BY <1>1, FoldExists
<1>3. g[S] = f[c] + g[T]
  <2> HIDE DEF g
  <2> QED
    BY <1>2 DEF IsFold
<1>4. Sum(f, S) = g[S] /\ Sum(f, T) = h[T]
  BY SumIsFold
<1> HIDE DEF g, h, T, c
<1>5. g[T] = h[T]
  BY <1>1, <1>2, FoldUnique
<1> QED
  BY <1>3, <1>4, <1>5 DEF c, T

\* Integers add up to an integer.
LEMMA SumInt ==
    ASSUME NEW f, NEW S, IsFiniteSet(S), \A x \in S : f[x] \in Int
    PROVE  Sum(f, S) \in Int
<1> DEFINE D == {T \in SUBSET S : Sum(f, T) \notin Int}
<1> SUFFICES ASSUME D # {} PROVE FALSE
  BY DEF D
<1>1. PICK T \in D : \A U \in D : U \subseteq T => U = T
  <2>1. D \subseteq SUBSET S
    OBVIOUS
  <2> HIDE DEF D
  <2> QED
    BY <2>1, Least
<1>2. T # {} /\ IsFiniteSet(T)
  <2>1. IsFiniteSet(T)
    BY FS_Subset
  <2>2. T # {}
    BY SumEmpty
  <2> QED
    BY <2>1, <2>2
<1> DEFINE c == CHOOSE x \in T : TRUE
<1>3. c \in T
  BY <1>2
<1>4. Sum(f, T) = f[c] + Sum(f, T \ {c})
  BY <1>2, SumChosen
<1>5. T \ {c} \notin D
  BY <1>1, <1>3
<1>6. Sum(f, T \ {c}) \in Int
  BY <1>5
<1>7. f[c] \in Int
  BY <1>3
<1> QED
  BY <1>4, <1>6, <1>7

\* Any element may be drawn first: the order of the terms does not matter.
LEMMA SumRemove ==
    ASSUME NEW f, NEW S, IsFiniteSet(S), \A x \in S : f[x] \in Int, NEW e \in S
    PROVE  Sum(f, S) = f[e] + Sum(f, S \ {e})
<1> DEFINE D == {T \in SUBSET S : \E x \in T : Sum(f, T) # f[x] + Sum(f, T \ {x})}
<1> SUFFICES ASSUME D # {} PROVE FALSE
  BY DEF D
<1>1. PICK T \in D : \A U \in D : U \subseteq T => U = T
  <2>1. D \subseteq SUBSET S
    OBVIOUS
  <2> HIDE DEF D
  <2> QED
    BY <2>1, Least
<1>2. PICK x \in T : Sum(f, T) # f[x] + Sum(f, T \ {x})
  BY <1>1
<1> DEFINE c == CHOOSE y \in T : TRUE
<1>3. c \in T /\ T \in SUBSET S
  BY <1>1, <1>2
<1>4. IsFiniteSet(T)
  BY <1>3, FS_Subset
<1>5. Sum(f, T) = f[c] + Sum(f, T \ {c})
  BY <1>2, <1>4, SumChosen
<1> HIDE DEF c
<1>6. x # c
  BY <1>2, <1>5
<1>7. T \ {c} \notin D /\ T \ {x} \notin D
  BY <1>1, <1>2, <1>3
<1>8. Sum(f, T \ {c}) = f[x] + Sum(f, (T \ {c}) \ {x})
  BY <1>2, <1>3, <1>6, <1>7
<1>9. Sum(f, T \ {x}) = f[c] + Sum(f, (T \ {x}) \ {c})
  BY <1>2, <1>3, <1>6, <1>7
<1>10. (T \ {c}) \ {x} = (T \ {x}) \ {c}
  OBVIOUS
<1>11. Sum(f, (T \ {c}) \ {x}) \in Int
  <2>1. IsFiniteSet((T \ {c}) \ {x})
    BY <1>4, FS_Subset
  <2> QED
    BY <1>3, <2>1, SumInt
<1>12. f[x] \in Int /\ f[c] \in Int
  BY <1>2, <1>3
<1> QED
  BY <1>2, <1>5, <1>8, <1>9, <1>10, <1>11, <1>12

LEMMA SumAdd ==
    ASSUME NEW f, NEW S, IsFiniteSet(S), NEW e, e \notin S,
           \A x \in S \cup {e} : f[x] \in Int
    PROVE  Sum(f, S \cup {e}) = f[e] + Sum(f, S)
<1>1. IsFiniteSet(S \cup {e}) /\ (S \cup {e}) \ {e} = S
  BY FS_AddElement
<1> HIDE DEF Sum
<1>2. Sum(f, S \cup {e}) = f[e] + Sum(f, (S \cup {e}) \ {e})
  BY <1>1, SumRemove
<1> QED
  BY <1>1, <1>2

-----------------------------------------------------------------------------
(* Comparing sums *)

\* A sum is at most another that is so term by term.
LEMMA SumMonotone ==
    ASSUME NEW f, NEW g, NEW S, IsFiniteSet(S),
           \A x \in S : f[x] \in Int /\ g[x] \in Int /\ f[x] <= g[x]
    PROVE  Sum(f, S) <= Sum(g, S)
<1> DEFINE D == {T \in SUBSET S : ~(Sum(f, T) <= Sum(g, T))}
<1> SUFFICES ASSUME D # {} PROVE FALSE
  BY DEF D
<1>1. PICK T \in D : \A U \in D : U \subseteq T => U = T
  <2>1. D \subseteq SUBSET S
    OBVIOUS
  <2> HIDE DEF D
  <2> QED
    BY <2>1, Least
<1>2. T # {} /\ IsFiniteSet(T)
  <2>1. IsFiniteSet(T)
    BY FS_Subset
  <2>2. T # {}
    BY SumEmpty
  <2> QED
    BY <2>1, <2>2
<1>3. PICK c \in T : TRUE
  BY <1>2
<1>4. Sum(f, T) = f[c] + Sum(f, T \ {c}) /\ Sum(g, T) = g[c] + Sum(g, T \ {c})
  BY <1>1, <1>2, SumRemove
<1>5. Sum(f, T \ {c}) <= Sum(g, T \ {c})
  BY <1>1, <1>3
<1>6. Sum(f, T \ {c}) \in Int /\ Sum(g, T \ {c}) \in Int
  <2>1. IsFiniteSet(T \ {c})
    BY <1>2, FS_Subset
  <2> QED
    BY <1>1, <2>1, SumInt
<1>7. f[c] \in Int /\ g[c] \in Int /\ f[c] <= g[c] /\ ~(Sum(f, T) <= Sum(g, T))
  BY <1>1, <1>3
<1> QED
  BY <1>4, <1>5, <1>6, <1>7

\* A sum depends on the terms only.
LEMMA SumEqual ==
    ASSUME NEW f, NEW g, NEW S, IsFiniteSet(S),
           \A x \in S : f[x] \in Int /\ f[x] = g[x]
    PROVE  Sum(f, S) = Sum(g, S)
<1>1. Sum(f, S) <= Sum(g, S) /\ Sum(g, S) <= Sum(f, S)
  BY SumMonotone
<1>2. Sum(f, S) \in Int /\ Sum(g, S) \in Int
  BY SumInt
<1> QED
  BY <1>1, <1>2

\* Sums add term by term.
LEMMA SumPlus ==
    ASSUME NEW f, NEW g, NEW h, NEW S, IsFiniteSet(S),
           \A x \in S : f[x] \in Int /\ g[x] \in Int /\ h[x] = f[x] + g[x]
    PROVE  Sum(h, S) = Sum(f, S) + Sum(g, S)
<1> DEFINE D == {T \in SUBSET S : Sum(h, T) # Sum(f, T) + Sum(g, T)}
<1> SUFFICES ASSUME D # {} PROVE FALSE
  BY DEF D
<1>1. PICK T \in D : \A U \in D : U \subseteq T => U = T
  <2>1. D \subseteq SUBSET S
    OBVIOUS
  <2> HIDE DEF D
  <2> QED
    BY <2>1, Least
<1>2. T # {} /\ IsFiniteSet(T)
  <2>1. IsFiniteSet(T)
    BY FS_Subset
  <2>2. Sum(f, {}) = 0 /\ Sum(g, {}) = 0 /\ Sum(h, {}) = 0
    BY SumEmpty
  <2>3. ASSUME T = {} PROVE FALSE
    <3>1. Sum(h, T) # Sum(f, T) + Sum(g, T)
      BY <1>1
    <3> QED
      BY ONLY <2>2, <2>3, <3>1
  <2> QED
    BY <2>1, <2>3
<1>3. PICK c \in T : TRUE
  BY <1>2
<1>4. f[c] \in Int /\ g[c] \in Int /\ h[c] = f[c] + g[c] /\ h[c] \in Int
  BY <1>1, <1>3
<1>5. \A x \in T : f[x] \in Int /\ g[x] \in Int /\ h[x] \in Int
  BY <1>1
<1>6. /\ Sum(f, T) = f[c] + Sum(f, T \ {c})
      /\ Sum(g, T) = g[c] + Sum(g, T \ {c})
      /\ Sum(h, T) = h[c] + Sum(h, T \ {c})
  BY <1>2, <1>5, SumRemove
<1>7. Sum(h, T \ {c}) = Sum(f, T \ {c}) + Sum(g, T \ {c})
  BY <1>1, <1>3
<1>8. Sum(f, T \ {c}) \in Int /\ Sum(g, T \ {c}) \in Int
  <2>1. IsFiniteSet(T \ {c})
    BY <1>2, FS_Subset
  <2> QED
    BY <1>5, <2>1, SumInt
<1>9. Sum(h, T) # Sum(f, T) + Sum(g, T)
  BY <1>1
<1> QED
  BY ONLY <1>4, <1>6, <1>7, <1>8, <1>9

LEMMA SumZero ==
    ASSUME NEW f, NEW S, IsFiniteSet(S), \A x \in S : f[x] = 0
    PROVE  Sum(f, S) = 0
<1> DEFINE D == {T \in SUBSET S : Sum(f, T) # 0}
<1> SUFFICES ASSUME D # {} PROVE FALSE
  BY DEF D
<1>1. PICK T \in D : \A U \in D : U \subseteq T => U = T
  <2>1. D \subseteq SUBSET S
    OBVIOUS
  <2> HIDE DEF D
  <2> QED
    BY <2>1, Least
<1>2. T # {} /\ IsFiniteSet(T)
  <2>1. IsFiniteSet(T)
    BY FS_Subset
  <2>2. T # {}
    BY SumEmpty
  <2> QED
    BY <2>1, <2>2
<1>3. PICK c \in T : TRUE
  BY <1>2
<1>4. Sum(f, T) = f[c] + Sum(f, T \ {c})
  BY <1>1, <1>2, SumRemove
<1>5. Sum(f, T \ {c}) = 0 /\ f[c] = 0
  BY <1>1, <1>3
<1> QED
  BY <1>1, <1>4, <1>5

\* Natural numbers add up to a natural number, none of them above the sum.
LEMMA SumNat ==
    ASSUME NEW f, NEW S, IsFiniteSet(S), \A x \in S : f[x] \in Nat
    PROVE  Sum(f, S) \in Nat /\ \A x \in S : f[x] <= Sum(f, S)
<1>1. \A T \in SUBSET S : IsFiniteSet(T) /\ Sum(f, T) \in Nat
  <2> TAKE T \in SUBSET S
  <2> DEFINE z == [x \in T |-> 0]
  <2>1. IsFiniteSet(T)
    BY FS_Subset
  <2>2. Sum(z, T) = 0
    BY <2>1, SumZero
  <2>3. Sum(z, T) <= Sum(f, T)
    BY <2>1, SumMonotone
  <2>4. Sum(f, T) \in Int
    BY <2>1, SumInt
  <2> HIDE DEF z
  <2> QED
    BY <2>1, <2>2, <2>3, <2>4
<1>2. \A x \in S : Sum(f, S) = f[x] + Sum(f, S \ {x}) /\ Sum(f, S \ {x}) \in Nat
  BY <1>1, SumRemove
<1>3. \A x \in S : f[x] \in Nat /\ S \in SUBSET S
  OBVIOUS
<1>4. Sum(f, S) \in Nat
  BY <1>1
<1>5. ASSUME NEW x \in S PROVE f[x] <= Sum(f, S)
  <2>1. \A i, j \in Nat : i <= i + j
    OBVIOUS
  <2>2. f[x] \in Nat /\ Sum(f, S \ {x}) \in Nat /\ Sum(f, S) = f[x] + Sum(f, S \ {x})
    BY <1>2
  <2> QED
    BY <2>1, <2>2
<1> QED
  BY <1>4, <1>5

\* A part of the terms adds up to no more than all of them.
LEMMA SumSubset ==
    ASSUME NEW f, NEW S, IsFiniteSet(S), \A x \in S : f[x] \in Nat, NEW T \in SUBSET S
    PROVE  Sum(f, T) <= Sum(f, S)
<1> DEFINE D == {U \in SUBSET S : T \subseteq U /\ ~(Sum(f, T) <= Sum(f, U))}
<1> SUFFICES ASSUME D # {} PROVE FALSE
  BY DEF D
<1>1. PICK U \in D : \A V \in D : V \subseteq U => V = U
  <2>1. D \subseteq SUBSET S
    OBVIOUS
  <2> HIDE DEF D
  <2> QED
    BY <2>1, Least
<1>2. IsFiniteSet(U) /\ IsFiniteSet(T)
  BY <1>1, FS_Subset
<1>3. Sum(f, U) \in Nat /\ Sum(f, T) \in Nat
  BY <1>1, <1>2, SumNat
<1>4. U # T
  BY <1>1, <1>3
<1>5. PICK c \in U : c \notin T
  BY <1>1, <1>4
<1>6. Sum(f, T) <= Sum(f, U \ {c})
  BY <1>1, <1>5
<1>7. Sum(f, U) = f[c] + Sum(f, U \ {c}) /\ f[c] \in Nat
  BY <1>1, <1>2, SumRemove
<1>8. Sum(f, U \ {c}) \in Nat
  <2>1. IsFiniteSet(U \ {c})
    BY <1>2, FS_Subset
  <2> QED
    BY <1>1, <2>1, SumNat
<1>9. ~(Sum(f, T) <= Sum(f, U))
  BY <1>1
<1> QED
  BY <1>3, <1>6, <1>7, <1>8, <1>9

\* A change of one term changes the sum by as much.
LEMMA SumChange ==
    ASSUME NEW f, NEW g, NEW S, IsFiniteSet(S), NEW e \in S,
           \A x \in S : f[x] \in Int /\ g[x] \in Int,
           \A x \in S \ {e} : g[x] = f[x]
    PROVE  Sum(g, S) = Sum(f, S) - f[e] + g[e]
<1>1. IsFiniteSet(S \ {e})
  BY FS_Subset
<1>2. Sum(g, S \ {e}) = Sum(f, S \ {e}) /\ Sum(f, S \ {e}) \in Int
  BY <1>1, SumEqual, SumInt
<1>3. Sum(f, S) = f[e] + Sum(f, S \ {e}) /\ Sum(g, S) = g[e] + Sum(g, S \ {e})
  BY SumRemove
<1>4. f[e] \in Int /\ g[e] \in Int
  OBVIOUS
<1> QED
  BY <1>2, <1>3, <1>4

\* The terms of a part and those of the rest add up to the whole.
LEMMA SumSplit ==
    ASSUME NEW f, NEW S, IsFiniteSet(S), \A x \in S : f[x] \in Int, NEW T \in SUBSET S
    PROVE  Sum(f, S) = Sum(f, T) + Sum(f, S \ T)
<1> DEFINE D == {U \in SUBSET S : T \subseteq U /\ Sum(f, U) # Sum(f, T) + Sum(f, U \ T)}
<1> SUFFICES ASSUME D # {} PROVE FALSE
  BY DEF D
<1>1. PICK U \in D : \A V \in D : V \subseteq U => V = U
  <2>1. D \subseteq SUBSET S
    OBVIOUS
  <2> HIDE DEF D
  <2> QED
    BY <2>1, Least
<1>2. IsFiniteSet(U) /\ IsFiniteSet(T) /\ U \subseteq S /\ T \subseteq U
  BY <1>1, FS_Subset
<1>3. Sum(f, T) \in Int
  BY <1>2, SumInt
<1>4. U # T
  <2>1. Sum(f, U) # Sum(f, T) + Sum(f, U \ T)
    BY <1>1
  <2>2. ASSUME U = T PROVE FALSE
    <3>1. U \ T = {} /\ Sum(f, U) = Sum(f, T)
      BY <2>2
    <3>2. Sum(f, U \ T) = 0
      BY <3>1, SumEmpty
    <3> QED
      BY ONLY <1>3, <2>1, <3>1, <3>2
  <2> QED
    BY <2>2
<1>5. PICK c \in U : c \notin T
  BY <1>1, <1>4
<1> DEFINE V == U \ {c}
<1>6. Sum(f, V) = Sum(f, T) + Sum(f, V \ T)
  BY <1>1, <1>5
<1>7. Sum(f, U) = f[c] + Sum(f, V) /\ f[c] \in Int
  BY <1>2, <1>5, SumRemove
<1>8. IsFiniteSet(U \ T) /\ c \in U \ T /\ (U \ T) \ {c} = V \ T /\ IsFiniteSet(V \ T)
  BY <1>2, <1>5, FS_Subset
<1>9. Sum(f, U \ T) = f[c] + Sum(f, V \ T) /\ Sum(f, V \ T) \in Int
  <2>1. \A x \in U \ T : f[x] \in Int
    BY <1>2
  <2>2. Sum(f, U \ T) = f[c] + Sum(f, (U \ T) \ {c})
    BY ONLY <1>8, <2>1, SumRemove
  <2>3. Sum(f, V \ T) \in Int
    BY <1>8, <2>1, SumInt
  <2> QED
    BY <1>8, <2>2, <2>3
<1>10. Sum(f, U) # Sum(f, T) + Sum(f, U \ T)
  BY <1>1
<1> QED
  BY ONLY <1>3, <1>6, <1>7, <1>9, <1>10

\* Terms that are 0 outside a part add up to the part.
LEMMA SumWhere ==
    ASSUME NEW f, NEW g, NEW S, IsFiniteSet(S), NEW T \in SUBSET S,
           \A x \in T : f[x] \in Int /\ g[x] = f[x],
           \A x \in S \ T : g[x] = 0
    PROVE  Sum(g, S) = Sum(f, T)
<1>1. IsFiniteSet(T) /\ IsFiniteSet(S \ T)
  BY FS_Subset
<1>2. \A x \in S : g[x] \in Int
  <2> SUFFICES ASSUME NEW x \in S PROVE g[x] \in Int
    OBVIOUS
  <2>1. CASE x \in T
    BY <2>1
  <2>2. CASE x \in S \ T
    BY <2>2
  <2> QED
    BY <2>1, <2>2
<1>3. Sum(g, S) = Sum(g, T) + Sum(g, S \ T)
  BY <1>2, SumSplit
<1>4. Sum(g, S \ T) = 0
  BY <1>1, SumZero
<1>5. Sum(g, T) = Sum(f, T) /\ Sum(f, T) \in Int
  BY <1>1, SumEqual, SumInt
<1> QED
  BY <1>3, <1>4, <1>5

\* A single term.
LEMMA SumOne == \A f, x : f[x] \in Int => Sum(f, {x}) = f[x]
<1> SUFFICES ASSUME NEW f, NEW x, f[x] \in Int PROVE Sum(f, {x}) = f[x]
  OBVIOUS
<1>1. IsFiniteSet({x}) /\ {x} \ {x} = {} /\ \A y \in {x} : f[y] \in Int
  BY FS_Singleton
<1>2. Sum(f, {x}) = f[x] + Sum(f, {x} \ {x})
  BY <1>1, SumRemove
<1> QED
  BY <1>1, <1>2, SumEmpty

-----------------------------------------------------------------------------
(* Least and greatest elements *)

LEMMA MinOfNats ==
    ASSUME NEW S \in SUBSET Nat, S # {}
    PROVE  Min(S) \in S /\ \A y \in S : Min(S) <= y
<1>1. \E x \in S : \A y \in S : x <= y
  <2>1. PICK n \in S : TRUE
    OBVIOUS
  <2> DEFINE D == {0 .. x : x \in {y \in S : y <= n}}
  <2>2. IsFiniteSet(0 .. n) /\ n \in Nat
    BY FS_Interval
  <2>3. \A x \in {y \in S : y <= n} : 0 .. x \subseteq 0 .. n
    BY <2>2
  <2>4. n \in {y \in S : y <= n}
    BY <2>2
  <2> DEFINE I == 0 .. n
  <2>5. D \subseteq SUBSET I /\ D # {} /\ IsFiniteSet(I)
    BY <2>2, <2>3, <2>4
  <2>6. PICK T \in D : \A U \in D : U \subseteq T => U = T
    <3> HIDE DEF D, I
    <3> QED
      BY <2>5, Least
  <2>7. PICK x \in {y \in S : y <= n} : T = 0 .. x
    BY <2>6
  <2>8. ASSUME NEW y \in S, y < x PROVE FALSE
    <3>1. y <= n
      BY <2>1, <2>7, <2>8
    <3>2. 0 .. y \in D /\ 0 .. y \subseteq 0 .. x
      <4>1. y \in {z \in S : z <= n}
        BY <3>1
      <4>2. 0 .. y \in D
        BY <4>1
      <4>3. 0 .. y \subseteq 0 .. x
        BY <2>7, <2>8
      <4> QED
        BY <4>2, <4>3
    <3>3. 0 .. y = 0 .. x
      BY <2>6, <2>7, <3>2
    <3>4. x \in 0 .. x /\ x \notin 0 .. y
      BY <2>8
    <3> QED
      BY <3>3, <3>4
  <2>9. \A y \in S : x <= y
    BY <2>8
  <2> QED
    BY <2>9
<1> QED
  BY <1>1 DEF Min

LEMMA MaxOfNats ==
    ASSUME NEW n \in Nat, NEW S \in SUBSET (0 .. n), S # {}
    PROVE  Max(S) \in S /\ \A y \in S : y <= Max(S)
<1> DEFINE T == {n - x : x \in S}
<1>1. T \in SUBSET Nat /\ T # {}
  <2>1. \A x \in S : n - x \in Nat
    OBVIOUS
  <2> QED
    BY <2>1
<1>2. \E m \in T : \A y \in T : m <= y
  <2> HIDE DEF T
  <2> QED
    BY <1>1, MinOfNats
<1>3. \E x \in S : \A y \in S : x >= y
  BY <1>2
<1>4. Max(S) \in S /\ \A y \in S : Max(S) >= y
  BY <1>3 DEF Max
<1> QED
  BY <1>4

LEMMA MaxOfFinite ==
    ASSUME NEW S \in SUBSET Nat, IsFiniteSet(S), S # {}
    PROVE  Max(S) \in S /\ \A y \in S : y <= Max(S)
<1>1. \A x \in S : x \in Nat
  OBVIOUS
<1> DEFINE D == {{y \in S : y >= x} : x \in S}
<1>2. D \subseteq SUBSET S /\ D # {} /\ IsFiniteSet(S)
  OBVIOUS
<1>3. \E T \in D : \A U \in D : U \subseteq T => U = T
  <2>1. PICK d, I : d = D /\ I = S
    OBVIOUS
  <2> HIDE DEF D
  <2>2. d \subseteq SUBSET I /\ d # {} /\ IsFiniteSet(I)
    BY <1>2, <2>1
  <2>3. \E T \in d : \A U \in d : U \subseteq T => U = T
    BY ONLY <2>2, Least
  <2> QED
    BY <2>1, <2>3
<1>4. PICK x \in S : \A U \in D : U \subseteq {y \in S : y >= x} => U = {y \in S : y >= x}
  BY <1>3
<1>5. ASSUME NEW y \in S, x < y PROVE FALSE
  <2>1. PICK U, T : U = {z \in S : z >= y} /\ T = {z \in S : z >= x}
    OBVIOUS
  <2>2. U \in D
    BY <2>1
  <2>3. U \subseteq T
    <3>1. \A z \in S : z >= y => z >= x
      BY <1>1, <1>5
    <3> QED
      BY <2>1, <3>1
  <2>4. x \in T /\ x \notin U
    BY <1>1, <1>5, <2>1
  <2> HIDE DEF D
  <2> QED
    BY <1>4, <2>1, <2>2, <2>3, <2>4
<1>6. x \in Nat /\ \A y \in S : y <= x
  BY <1>1, <1>5
<1>7. S \in SUBSET (0 .. x)
  BY <1>1, <1>6
<1> QED
  BY <1>6, <1>7, MaxOfNats

LEMMA MaxOfPair ==
    ASSUME NEW a \in Int, NEW b \in Int
    PROVE  Max({a, b}) = IF a <= b THEN b ELSE a
<1>1. \E x \in {a, b} : \A y \in {a, b} : x >= y
  OBVIOUS
<1>2. Max({a, b}) \in {a, b} /\ \A y \in {a, b} : Max({a, b}) >= y
  BY <1>1 DEF Max
<1> QED
  BY <1>2

LEMMA MinOfPair ==
    ASSUME NEW a \in Int, NEW b \in Int
    PROVE  Min({a, b}) = IF a <= b THEN a ELSE b
<1>1. \E x \in {a, b} : \A y \in {a, b} : x <= y
  OBVIOUS
<1>2. Min({a, b}) \in {a, b} /\ \A y \in {a, b} : Min({a, b}) <= y
  BY <1>1 DEF Min
<1> QED
  BY <1>2

-----------------------------------------------------------------------------
(* Filling: pieces are dealt to the members of a set in the order of their  *)
(* keys, each taking up to its capacity of what the ones before it left     *)

\* A finite set has a member of greatest key.
LEMMA GreatestKey ==
    ASSUME NEW key, NEW S, IsFiniteSet(S), S # {}, \A x \in S : key[x] \in Int
    PROVE  \E m \in S : \A x \in S : key[x] <= key[m]
<1> DEFINE D == {T \in SUBSET S : T # {} /\ ~ \E m \in T : \A x \in T : key[x] <= key[m]}
<1> SUFFICES ASSUME D # {} PROVE FALSE
  BY DEF D
<1>1. PICK T \in D : \A U \in D : U \subseteq T => U = T
  <2>1. D \subseteq SUBSET S
    OBVIOUS
  <2> HIDE DEF D
  <2> QED
    BY <2>1, Least
<1>2. PICK c \in T : TRUE
  BY <1>1
<1>3. CASE T \ {c} = {}
  <2>1. T = {c} /\ key[c] \in Int
    BY <1>1, <1>2, <1>3
  <2> QED
    BY <1>1, <2>1
<1>4. CASE T \ {c} # {}
  <2>1. T \ {c} \notin D /\ T \ {c} \in SUBSET S
    BY <1>1, <1>2
  <2>2. PICK m \in T \ {c} : \A x \in T \ {c} : key[x] <= key[m]
    BY <1>4, <2>1
  <2>3. key[m] \in Int /\ key[c] \in Int /\ \A x \in T : key[x] \in Int
    BY <1>1, <1>2
  <2>4. CASE key[c] <= key[m]
    BY <1>1, <2>2, <2>4
  <2>5. CASE ~(key[c] <= key[m])
    <3>1. \A x \in T : key[x] <= key[c]
      BY <2>2, <2>3, <2>5
    <3> QED
      BY <1>1, <1>2, <3>1
  <2> QED
    BY <2>4, <2>5
<1> QED
  BY <1>3, <1>4

\* What a member takes when rest pieces are left for it.
Pour(room, rest) == Max({0, Min({room, rest})})

LEMMA Pouring ==
    ASSUME NEW room \in Nat, NEW rest \in Int
    PROVE  Pour(room, rest) = IF rest <= 0 THEN 0 ELSE IF rest <= room THEN rest ELSE room
<1>1. Min({room, rest}) = IF room <= rest THEN room ELSE rest
  BY MinOfPair
<1>2. Min({room, rest}) \in Int
  BY <1>1
<1>3. Pour(room, rest) = IF 0 <= Min({room, rest}) THEN Min({room, rest}) ELSE 0
  BY <1>2, MaxOfPair DEF Pour
<1> QED
  BY <1>1, <1>3

\* drawn is what the members of S take of the pieces; before[x] are those with a
\* smaller key than x.
Fills(drawn, room, key, before, pieces, S) ==
    /\ IsFiniteSet(S) /\ pieces \in Nat
    /\ \A x \in S : room[x] \in Nat /\ key[x] \in Int
    /\ \A x, y \in S : key[x] = key[y] => x = y
    /\ \A x \in S : before[x] \subseteq S
    /\ \A x, y \in S : y \in before[x] <=> key[y] < key[x]
    /\ \A x \in S : drawn[x] = Pour(room[x], pieces - Sum(room, before[x]))

\* Together they take all the pieces, or fill up.
LEMMA Filling ==
    ASSUME NEW drawn, NEW room, NEW key, NEW before, NEW pieces, NEW S,
           Fills(drawn, room, key, before, pieces, S)
    PROVE  Sum(drawn, S) = IF pieces <= Sum(room, S) THEN pieces ELSE Sum(room, S)
<1> DEFINE Took(T) == [x \in T |->
              Pour(room[x], pieces - Sum(room, {y \in T : key[y] < key[x]}))]
           D == {T \in SUBSET S : Sum(Took(T), T) #
                    IF pieces <= Sum(room, T) THEN pieces ELSE Sum(room, T)}
<1> USE DEF Fills
<1>0. \A T \in SUBSET S : IsFiniteSet(T) /\ Sum(room, T) \in Nat
  BY FS_Subset, SumNat
<1>a. \A T \in SUBSET S : \A x \in T : Took(T)[x] \in Nat
  <2> SUFFICES ASSUME NEW T \in SUBSET S, NEW x \in T PROVE Took(T)[x] \in Nat
    OBVIOUS
  <2> DEFINE rest == pieces - Sum(room, {y \in T : key[y] < key[x]})
  <2>1. rest \in Int
    <3>1. {y \in T : key[y] < key[x]} \in SUBSET S
      OBVIOUS
    <3> QED
      BY <1>0, <3>1
  <2>2. room[x] \in Nat
    OBVIOUS
  <2>3. Took(T)[x] = Pour(room[x], rest)
    OBVIOUS
  <2> HIDE DEF rest, Took
  <2> QED
    BY <2>1, <2>2, <2>3, Pouring
<1>1. ASSUME D # {} PROVE FALSE
  <2>1. PICK T \in D : \A U \in D : U \subseteq T => U = T
    <3>1. D \subseteq SUBSET S
      OBVIOUS
    <3> HIDE DEF D
    <3> QED
      BY <1>1, <3>1, Least
  <2>2. T \in SUBSET S /\ IsFiniteSet(T)
    BY <1>0, <2>1
  <2>3. T # {}
    <3>1. Sum(Took({}), {}) = 0 /\ Sum(room, {}) = 0
      BY SumEmpty
    <3> QED
      BY <2>1, <3>1
  <2>4. PICK m \in T : \A x \in T : key[x] <= key[m]
    <3>1. \A x \in T : key[x] \in Int
      BY <2>2
    <3> QED
      BY ONLY <2>2, <2>3, <3>1, GreatestKey
  <2> DEFINE U == T \ {m}
  <2>5. U \in SUBSET S /\ IsFiniteSet(U) /\ m \notin U /\ U \cup {m} = T
    BY <1>0, <2>2, <2>4
  <2>6. Sum(Took(U), U) = IF pieces <= Sum(room, U) THEN pieces ELSE Sum(room, U)
    BY <2>1, <2>5
  <2>7. Sum(room, T) = room[m] + Sum(room, U) /\ room[m] \in Nat
    <3>1. \A x \in T : room[x] \in Int
      BY <2>2
    <3> QED
      BY <2>2, <2>4, <3>1, SumRemove
  <2>8. Sum(Took(T), T) = Took(T)[m] + Sum(Took(T), U)
    <3> HIDE DEF Took
    <3>1. \A x \in T : Took(T)[x] \in Int
      BY <1>a, <2>2
    <3> QED
      BY <2>2, <2>4, <3>1, SumRemove
  <2>9. Sum(Took(T), U) = Sum(Took(U), U)
    <3>1. \A x \in U : {y \in T : key[y] < key[x]} = {y \in U : key[y] < key[x]}
      <4> SUFFICES ASSUME NEW x \in U PROVE ~(key[m] < key[x])
        BY <2>5
      <4>1. key[x] \in Int /\ key[m] \in Int /\ key[x] <= key[m]
        BY <2>2, <2>4
      <4> QED
        BY <4>1
    <3>2. \A x \in U : Took(T)[x] = Took(U)[x]
      BY <3>1
    <3> HIDE DEF Took
    <3>3. \A x \in U : Took(T)[x] \in Int
      BY <1>a, <2>2, <2>5
    <3>4. PICK f, g, V : f = Took(T) /\ g = Took(U) /\ V = U
      OBVIOUS
    <3>5. IsFiniteSet(V) /\ \A x \in V : f[x] \in Int /\ f[x] = g[x]
      BY <2>5, <3>2, <3>3, <3>4
    <3>6. Sum(f, V) = Sum(g, V)
      BY ONLY <3>5, SumEqual
    <3> QED
      BY <3>4, <3>6
  <2>10. {y \in T : key[y] < key[m]} = U
    <3>1. \A y \in U : key[y] < key[m]
      <4> SUFFICES ASSUME NEW y \in U PROVE key[y] < key[m]
        OBVIOUS
      <4>1. key[y] \in Int /\ key[m] \in Int /\ key[y] <= key[m]
        BY <2>2, <2>4
      <4>2. key[y] # key[m]
        BY <2>2, <2>4
      <4> QED
        BY <4>1, <4>2
    <3>2. ~(key[m] < key[m])
      BY <2>2, <2>4
    <3> QED
      BY <3>1, <3>2
  <2>11. Took(T)[m] = Pour(room[m], pieces - Sum(room, U))
    BY <2>4, <2>10
  <2>12. Sum(room, U) \in Nat /\ Sum(Took(U), U) \in Int
    BY <1>0, <2>5, <2>6
  <2>13. Took(T)[m] = IF pieces - Sum(room, U) <= 0 THEN 0
                      ELSE IF pieces - Sum(room, U) <= room[m] THEN pieces - Sum(room, U) ELSE room[m]
    <3>1. pieces - Sum(room, U) \in Int
      BY <2>12
    <3> HIDE DEF Took, U
    <3> QED
      BY <2>7, <2>11, <3>1, Pouring
  <2>14. Sum(Took(T), T) # IF pieces <= Sum(room, T) THEN pieces ELSE Sum(room, T)
    BY <2>1
  <2> HIDE DEF Took, U
  <2> QED
    BY <2>6, <2>7, <2>8, <2>9, <2>12, <2>13, <2>14
<1>2. Sum(Took(S), S) = IF pieces <= Sum(room, S) THEN pieces ELSE Sum(room, S)
  BY <1>1 DEF D
<1>3. Sum(Took(S), S) = Sum(drawn, S)
  <2>1. \A x \in S : Took(S)[x] \in Int /\ Took(S)[x] = drawn[x]
    <3>1. \A x \in S : Took(S)[x] \in Nat
      BY <1>a
    <3>2. \A x \in S : Took(S)[x] = drawn[x]
      <4>1. \A x \in S : before[x] = {y \in S : key[y] < key[x]}
        OBVIOUS
      <4> QED
        BY <4>1
    <3> HIDE DEF Took
    <3> QED
      BY <3>1, <3>2
  <2> HIDE DEF Took
  <2> QED
    BY <2>1, SumEqual
<1> HIDE DEF Took, D
<1> QED
  BY <1>2, <1>3
=============================================================================
