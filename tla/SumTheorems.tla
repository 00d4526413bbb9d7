------------------------------ MODULE SumTheorems ------------------------------
(***************************************************************************)
(* Sums over finite sets (SumFunctionOnSet of the community modules) for   *)
(* the proofs about models that add something up, and the two induction    *)
(* principles they rest on.  The induction theorems of the library take a  *)
(* predicate as a parameter; here the predicate is the set of the things   *)
(* it holds of, and the proofs take a minimal counterexample.              *)
(***************************************************************************)
EXTENDS FiniteSetsExt, FiniteSetTheorems, WellFoundedInduction, TLAPS

-----------------------------------------------------------------------------
(* Induction. *)

LEMMA NatLeast ==
  ASSUME NEW T \in SUBSET Nat, T # {}
  PROVE  \E n \in T : \A m \in T : n <= m
<1> DEFINE R == OpToRel(<, Nat)
<1>1. \E x \in T : \A y \in T : ~ (<<y, x>> \in R)
  <2>1. IsWellFoundedOn(R, Nat)
    BY NatLessThanWellFounded
  <2> HIDE DEF R
  <2> QED
    BY <2>1, WFMin
<1>2. R = {ss \in Nat \X Nat : ss[1] < ss[2]}
  BY DEF OpToRel
<1> HIDE DEF R
<1>3. PICK x \in T : \A y \in T : ~ (<<y, x>> \in R)
  BY <1>1
<1>4. \A y \in T : ~ (<<y, x>> \in {ss \in Nat \X Nat : ss[1] < ss[2]})
  BY <1>2, <1>3
<1>5. ASSUME NEW y \in T, y < x PROVE FALSE
  <2> DEFINE p == <<y, x>>
  <2>1. p \in Nat \X Nat /\ p[1] < p[2]
    BY <1>5
  <2> HIDE DEF p
  <2>2. p \in {ss \in Nat \X Nat : ss[1] < ss[2]}
    BY <2>1
  <2> QED
    BY <1>4, <2>2 DEF p
<1>6. \A y \in T : x <= y
  BY <1>5
<1> QED
  BY <1>6

\* Induction over the natural numbers: B is the set of the numbers that have the property.
LEMMA NatSetInduction ==
  ASSUME NEW B, 0 \in B, \A n \in Nat : n \in B => n + 1 \in B
  PROVE  Nat \subseteq B
<1> DEFINE T == Nat \ B
<1> SUFFICES ASSUME T # {} PROVE FALSE
  OBVIOUS
<1>1. PICK n \in T : \A m \in T : n <= m
  BY NatLeast
<1>2. n # 0 /\ n \in Nat
  OBVIOUS
<1>3. n - 1 \in Nat /\ n - 1 \notin T
  BY <1>1, <1>2
<1>4. (n - 1) + 1 \in B
  BY <1>3
<1> QED
  BY <1>2, <1>4

\* Induction over the subsets of a finite set: B are the subsets that have the property.
LEMMA SubsetInduction ==
  ASSUME NEW S, IsFiniteSet(S), NEW B, {} \in B,
         \A T \in SUBSET S : T # {} /\ (\A x \in T : T \ {x} \in B) => T \in B
  PROVE  SUBSET S \subseteq B
<1> SUFFICES ASSUME NEW V \in SUBSET S, V \notin B PROVE FALSE
  OBVIOUS
<1> DEFINE Bad == {T \in SUBSET S : T \notin B}
           N == {Cardinality(T) : T \in Bad}
<1>1. \A T \in SUBSET S : IsFiniteSet(T) /\ Cardinality(T) \in Nat
  BY FS_Subset, FS_CardinalityType
<1>2. N \in SUBSET Nat /\ N # {}
  BY <1>1
<1> HIDE DEF N
<1>3. PICK n \in N : \A m \in N : n <= m
  BY <1>2, NatLeast
<1>4. PICK T \in Bad : n = Cardinality(T)
  BY <1>3 DEF N
<1>5. ASSUME NEW x \in T PROVE T \ {x} \in B
  <2>1. T \ {x} \in SUBSET S /\ Cardinality(T \ {x}) = n - 1 /\ n \in Nat
    BY <1>1, <1>4, <1>5, FS_RemoveElement
  <2> SUFFICES ASSUME T \ {x} \in Bad PROVE FALSE
    BY <2>1
  <2>2. n <= n - 1
    BY <1>3, <2>1 DEF N
  <2> QED
    BY <2>1, <2>2
<1>6. T # {}
  BY <1>4
<1> QED
  BY <1>4, <1>5, <1>6

THEOREM MaxOfFinite ==
  ASSUME NEW S \in SUBSET Int, IsFiniteSet(S), S # {}
  PROVE  Max(S) \in S /\ \A y \in S : Max(S) >= y
<1> DEFINE HasMax(T) == \E x \in T : \A y \in T : x >= y
           B == {T \in SUBSET S : T = {} \/ HasMax(T)}
<1>1. {} \in B
  OBVIOUS
<1>2. ASSUME NEW T \in SUBSET S, T # {}, \A x \in T : T \ {x} \in B PROVE T \in B
  <2>1. PICK x \in T : TRUE
    BY <1>2
  <2>2. CASE T \ {x} = {}
    BY <2>2
  <2>3. CASE \E z \in T \ {x} : \A y \in T \ {x} : z >= y
    <3>1. PICK z \in T \ {x} : \A y \in T \ {x} : z >= y
      BY <2>3
    <3>2. x \in Int /\ z \in Int
      OBVIOUS
    <3>3. CASE z >= x
      BY <3>1, <3>3
    <3>4. CASE ~ (z >= x)
      BY <3>1, <3>2, <3>4
    <3> QED
      BY <3>3, <3>4
  <2> QED
    BY <1>2, <2>2, <2>3
<1>3. SUBSET S \subseteq B
  <2> HIDE DEF B
  <2> QED
    BY <1>1, <1>2, SubsetInduction
<1>4. \E x \in S : \A y \in S : x >= y
  BY <1>3
<1> QED
  BY <1>4 DEF Max

\* The image of a finite set is finite, and as large where no two have the same image.
THEOREM ImageFinite ==
  ASSUME NEW S, IsFiniteSet(S), NEW f
  PROVE  IsFiniteSet({f[x] : x \in S})
<1> DEFINE Im(T) == {f[x] : x \in T}
           B == {T \in SUBSET S : IsFiniteSet(Im(T))}
<1>1. {} \in B
  <2>1. Im({}) = {}
    OBVIOUS
  <2> QED
    BY <2>1, FS_EmptySet
<1>2. ASSUME NEW T \in SUBSET S, T # {}, \A x \in T : T \ {x} \in B PROVE T \in B
  <2>1. PICK x \in T : TRUE
    BY <1>2
  <2>2. Im(T) = Im(T \ {x}) \cup {f[x]}
    OBVIOUS
  <2>3. IsFiniteSet(Im(T))
    <3> HIDE DEF Im
    <3> QED
      BY <1>2, <2>1, <2>2, FS_AddElement
  <2> QED
    BY <2>3
<1>3. SUBSET S \subseteq B
  <2> HIDE DEF B
  <2> QED
    BY <1>1, <1>2, SubsetInduction
<1> QED
  BY <1>3

THEOREM ImageCardinality ==
  ASSUME NEW S, IsFiniteSet(S), NEW f, \A x, y \in S : f[x] = f[y] => x = y
  PROVE  Cardinality({f[x] : x \in S}) = Cardinality(S)
<1> DEFINE Im(T) == {f[x] : x \in T}
           B == {T \in SUBSET S : Cardinality(Im(T)) = Cardinality(T)}
<1>1. {} \in B
  <2>1. Im({}) = {}
    OBVIOUS
  <2> QED
    BY <2>1, FS_EmptySet
<1>2. ASSUME NEW T \in SUBSET S, T # {}, \A x \in T : T \ {x} \in B PROVE T \in B
  <2>1. PICK x \in T : TRUE
    BY <1>2
  <2>2. Im(T) = Im(T \ {x}) \cup {f[x]} /\ f[x] \notin Im(T \ {x})
    OBVIOUS
  <2>3. T = (T \ {x}) \cup {x} /\ x \notin T \ {x}
    BY <2>1
  <2>4. IsFiniteSet(T \ {x}) /\ T \ {x} \in SUBSET S
    BY FS_Subset
  <2>5. IsFiniteSet(Im(T \ {x}))
    BY <2>4, ImageFinite
  <2>6. Cardinality(Im(T)) = Cardinality(Im(T \ {x})) + 1
    <3> HIDE DEF Im
    <3> QED
      BY <2>2, <2>5, FS_AddElement
  <2>7. Cardinality(T) = Cardinality(T \ {x}) + 1
    BY <2>3, <2>4, FS_AddElement
  <2> QED
    BY <1>2, <2>6, <2>7
<1>3. SUBSET S \subseteq B
  <2> HIDE DEF B
  <2> QED
    BY <1>1, <1>2, SubsetInduction
<1> QED
  BY <1>3

-----------------------------------------------------------------------------
(* The function that a sum iterates. *)

Iterates(g, f, S) ==
  g = [s \in SUBSET S |->
         IF s = {} THEN 0
         ELSE LET x == CHOOSE x \in s : TRUE IN f[x] + g[s \ {x}]]

SumIter(f, S) == CHOOSE g : Iterates(g, f, S)

LEMMA SumIsIter ==
  ASSUME NEW f, NEW S
  PROVE  SumFunctionOnSet(f, S) = SumIter(f, S)[S]
BY DEF SumFunctionOnSet, FoldFunctionOnSet, MapThenFoldSet, SumIter, Iterates

\* One more element at a time.
LEMMA IterExists ==
  ASSUME NEW f, NEW S, IsFiniteSet(S)
  PROVE  \E g : Iterates(g, f, S)
<1> DEFINE c(s) == CHOOSE x \in s : TRUE
           Small(n) == {s \in SUBSET S : Cardinality(s) <= n}
           Upto(g, n) == \A s \in Small(n) : g[s] = IF s = {} THEN 0 ELSE f[c(s)] + g[s \ {c(s)}]
           B == {n \in Nat : \E g : g = [s \in SUBSET S |-> g[s]] /\ Upto(g, n)}
<1>1. \A s \in SUBSET S : IsFiniteSet(s) /\ Cardinality(s) \in Nat /\ Cardinality(s) <= Cardinality(S)
  BY FS_Subset, FS_CardinalityType
<1>2. \A s \in SUBSET S : s # {} => c(s) \in s /\ s \ {c(s)} \in SUBSET S
                                     /\ Cardinality(s \ {c(s)}) = Cardinality(s) - 1
  <2> SUFFICES ASSUME NEW s \in SUBSET S, s # {}
               PROVE  c(s) \in s /\ s \ {c(s)} \in SUBSET S
                                     /\ Cardinality(s \ {c(s)}) = Cardinality(s) - 1
    OBVIOUS
  <2>1. c(s) \in s
    OBVIOUS
  <2> HIDE DEF c
  <2> QED
    BY <1>1, <2>1, FS_RemoveElement
<1> HIDE DEF c
<1>3. 0 \in B
  <2> DEFINE g == [s \in SUBSET S |-> 0]
  <2>1. \A s \in Small(0) : s = {}
    BY <1>1, FS_EmptySet
  <2>2. g = [s \in SUBSET S |-> g[s]] /\ Upto(g, 0)
    BY <2>1
  <2> QED
    BY <2>2
<1>4. ASSUME NEW n \in Nat, n \in B PROVE n + 1 \in B
  <2>1. PICK g : Upto(g, n)
    BY <1>4
  <2> DEFINE h == [s \in SUBSET S |->
                     IF Cardinality(s) <= n THEN g[s] ELSE f[c(s)] + g[s \ {c(s)}]]
  <2>2. ASSUME NEW s \in Small(n + 1)
        PROVE  h[s] = IF s = {} THEN 0 ELSE f[c(s)] + h[s \ {c(s)}]
    <3>1. CASE s = {}
      <4>1. s \in Small(n)
        BY <3>1, <1>1, FS_EmptySet
      <4> QED
        BY <4>1, <3>1, <2>1
    <3>2. CASE s # {}
      <4>1. h[s \ {c(s)}] = g[s \ {c(s)}]
        BY <1>1, <1>2, <3>2
      <4>2. CASE Cardinality(s) <= n
        BY <4>1, <4>2, <3>2, <2>1
      <4>3. CASE ~ (Cardinality(s) <= n)
        BY <4>1, <4>3, <3>2
      <4> QED
        BY <4>2, <4>3
    <3> QED
      BY <3>1, <3>2
  <2>3. h = [s \in SUBSET S |-> h[s]]
    OBVIOUS
  <2>4. Upto(h, n + 1)
    BY <2>2
  <2> HIDE DEF h, Upto
  <2> QED
    BY <2>3, <2>4
<1>5. Nat \subseteq B
  <2> HIDE DEF B
  <2> QED
    BY <1>3, <1>4, NatSetInduction
<1>6. PICK g : g = [s \in SUBSET S |-> g[s]] /\ Upto(g, Cardinality(S))
  BY <1>1, <1>5
<1>7. g = [s \in SUBSET S |-> IF s = {} THEN 0 ELSE f[c(s)] + g[s \ {c(s)}]]
  BY <1>1, <1>6
<1> QED
  BY <1>7 DEF Iterates, c

LEMMA IterStep ==
  ASSUME NEW f, NEW S, IsFiniteSet(S)
  PROVE  /\ SumIter(f, S)[{}] = 0
         /\ \A T \in SUBSET S : T # {} =>
              \E x \in T : /\ x = CHOOSE y \in T : TRUE
                           /\ SumIter(f, S)[T] = f[x] + SumIter(f, S)[T \ {x}]
<1>1. Iterates(SumIter(f, S), f, S)
  BY IterExists DEF SumIter
<1> DEFINE g == SumIter(f, S)
<1> HIDE DEF g
<1>2. g = [s \in SUBSET S |->
             IF s = {} THEN 0
             ELSE LET x == CHOOSE x \in s : TRUE IN f[x] + g[s \ {x}]]
  BY <1>1 DEF Iterates, g
<1>3. g[{}] = 0
  BY <1>2
<1>4. ASSUME NEW T \in SUBSET S, T # {}
      PROVE  \E x \in T : x = (CHOOSE y \in T : TRUE) /\ g[T] = f[x] + g[T \ {x}]
  <2> DEFINE x == CHOOSE y \in T : TRUE
  <2>1. x \in T
    BY <1>4
  <2>2. g[T] = f[x] + g[T \ {x}]
    BY <1>2, <1>4
  <2> QED
    BY <2>1, <2>2
<1> QED
  BY <1>3, <1>4 DEF g

\* What a set sums to does not depend on the set it is taken from.
LEMMA IterSubset ==
  ASSUME NEW f, NEW S, IsFiniteSet(S), NEW T \in SUBSET S
  PROVE  SumIter(f, S)[T] = SumFunctionOnSet(f, T)
<1>1. IsFiniteSet(T)
  BY FS_Subset
<1> DEFINE B == {U \in SUBSET T : SumIter(f, S)[U] = SumIter(f, T)[U]}
<1>2. {} \in B
  BY <1>1, IterStep
<1>3. ASSUME NEW U \in SUBSET T, U # {}, \A x \in U : U \ {x} \in B PROVE U \in B
  <2>1. PICK y \in U : y = (CHOOSE z \in U : TRUE) /\ SumIter(f, S)[U] = f[y] + SumIter(f, S)[U \ {y}]
    BY <1>3, IterStep
  <2>2. PICK z \in U : z = (CHOOSE u \in U : TRUE) /\ SumIter(f, T)[U] = f[z] + SumIter(f, T)[U \ {z}]
    BY <1>1, <1>3, IterStep
  <2>3. y = z
    BY <2>1, <2>2
  <2> QED
    BY <1>3, <2>1, <2>2, <2>3
<1>4. SUBSET T \subseteq B
  <2> HIDE DEF B
  <2> QED
    BY <1>1, <1>2, <1>3, SubsetInduction
<1> QED
  BY <1>4, SumIsIter

-----------------------------------------------------------------------------
(* Sums. *)

THEOREM SumEmpty ==
  ASSUME NEW f
  PROVE  SumFunctionOnSet(f, {}) = 0
BY FS_EmptySet, IterStep, SumIsIter

\* The element that the sum takes out first.
LEMMA SumStep ==
  ASSUME NEW f, NEW S, IsFiniteSet(S), S # {}
  PROVE  \E x \in S : /\ x = CHOOSE y \in S : TRUE
                      /\ SumFunctionOnSet(f, S) = f[x] + SumFunctionOnSet(f, S \ {x})
<1>1. PICK x \in S : /\ x = CHOOSE y \in S : TRUE
                     /\ SumIter(f, S)[S] = f[x] + SumIter(f, S)[S \ {x}]
  BY IterStep
<1>2. S \in SUBSET S /\ S \ {x} \in SUBSET S
  OBVIOUS
<1> QED
  BY <1>1, <1>2, IterSubset

THEOREM SumInt ==
  ASSUME NEW S, IsFiniteSet(S), NEW f, \A x \in S : f[x] \in Int
  PROVE  SumFunctionOnSet(f, S) \in Int
<1> DEFINE B == {T \in SUBSET S : SumFunctionOnSet(f, T) \in Int}
<1>1. {} \in B
  BY SumEmpty
<1>2. ASSUME NEW T \in SUBSET S, T # {}, \A x \in T : T \ {x} \in B PROVE T \in B
  <2>1. IsFiniteSet(T)
    BY FS_Subset
  <2>2. PICK x \in T : SumFunctionOnSet(f, T) = f[x] + SumFunctionOnSet(f, T \ {x})
    BY <1>2, <2>1, SumStep
  <2> QED
    BY <1>2, <2>2
<1>3. SUBSET S \subseteq B
  <2> HIDE DEF B
  <2> QED
    BY <1>1, <1>2, SubsetInduction
<1> QED
  BY <1>3

THEOREM SumNat ==
  ASSUME NEW S, IsFiniteSet(S), NEW f, \A x \in S : f[x] \in Nat
  PROVE  SumFunctionOnSet(f, S) \in Nat
<1> DEFINE B == {T \in SUBSET S : SumFunctionOnSet(f, T) \in Nat}
<1>1. {} \in B
  BY SumEmpty
<1>2. ASSUME NEW T \in SUBSET S, T # {}, \A x \in T : T \ {x} \in B PROVE T \in B
  <2>1. IsFiniteSet(T)
    BY FS_Subset
  <2>2. PICK x \in T : SumFunctionOnSet(f, T) = f[x] + SumFunctionOnSet(f, T \ {x})
    BY <1>2, <2>1, SumStep
  <2> QED
    BY <1>2, <2>2
<1>3. SUBSET S \subseteq B
  <2> HIDE DEF B
  <2> QED
    BY <1>1, <1>2, SubsetInduction
<1> QED
  BY <1>3

\* Any element may be taken out first.
THEOREM SumRemove ==
  ASSUME NEW S, IsFiniteSet(S), NEW f, \A x \in S : f[x] \in Int, NEW z \in S
  PROVE  SumFunctionOnSet(f, S) = f[z] + SumFunctionOnSet(f, S \ {z})
<1> DEFINE B == {T \in SUBSET S : \A x \in T : SumFunctionOnSet(f, T) = f[x] + SumFunctionOnSet(f, T \ {x})}
<1>1. {} \in B
  OBVIOUS
<1>2. ASSUME NEW T \in SUBSET S, T # {}, \A x \in T : T \ {x} \in B PROVE T \in B
  <2>1. IsFiniteSet(T)
    BY FS_Subset
  <2>2. PICK c \in T : SumFunctionOnSet(f, T) = f[c] + SumFunctionOnSet(f, T \ {c})
    BY <1>2, <2>1, SumStep
  <2>3. ASSUME NEW x \in T, x # c
        PROVE  SumFunctionOnSet(f, T) = f[x] + SumFunctionOnSet(f, T \ {x})
    <3>1. x \in T \ {c} /\ c \in T \ {x} /\ (T \ {c}) \ {x} = (T \ {x}) \ {c}
      BY <2>3
    <3>2. SumFunctionOnSet(f, T \ {c}) = f[x] + SumFunctionOnSet(f, (T \ {c}) \ {x})
      BY <1>2, <3>1
    <3>3. SumFunctionOnSet(f, T \ {x}) = f[c] + SumFunctionOnSet(f, (T \ {c}) \ {x})
      BY <1>2, <3>1
    <3>4. SumFunctionOnSet(f, (T \ {c}) \ {x}) \in Int /\ f[x] \in Int /\ f[c] \in Int
      <4>1. IsFiniteSet((T \ {c}) \ {x})
        BY <2>1, FS_RemoveElement
      <4> QED
        BY <4>1, SumInt
    <3> QED
      BY <2>2, <3>2, <3>3, <3>4
  <2> QED
    BY <2>2, <2>3
<1>3. SUBSET S \subseteq B
  <2> HIDE DEF B
  <2> QED
    BY <1>1, <1>2, SubsetInduction
<1> QED
  BY <1>3

THEOREM SumAdd ==
  ASSUME NEW S, IsFiniteSet(S), NEW f, NEW z, z \notin S, \A x \in S \cup {z} : f[x] \in Int
  PROVE  SumFunctionOnSet(f, S \cup {z}) = f[z] + SumFunctionOnSet(f, S)
<1>1. IsFiniteSet(S \cup {z}) /\ (S \cup {z}) \ {z} = S
  BY FS_AddElement
<1> QED
  BY <1>1, SumRemove

\* Functions that agree on a set have the same sum there, also when the elements go
\* by other names: m maps S onto T, no two to the same.
THEOREM SumRenamed ==
  ASSUME NEW S, IsFiniteSet(S), NEW m, NEW f, NEW g,
         \A x \in S : g[m[x]] \in Int /\ f[x] = g[m[x]],
         \A x, y \in S : m[x] = m[y] => x = y
  PROVE  SumFunctionOnSet(f, S) = SumFunctionOnSet(g, {m[x] : x \in S})
<1> DEFINE Im(T) == {m[x] : x \in T}
           B == {T \in SUBSET S : /\ IsFiniteSet(Im(T))
                                  /\ SumFunctionOnSet(f, T) = SumFunctionOnSet(g, Im(T))}
<1>1. {} \in B
  <2>1. Im({}) = {}
    OBVIOUS
  <2> QED
    BY <2>1, SumEmpty, FS_EmptySet
<1>2. ASSUME NEW T \in SUBSET S, T # {}, \A x \in T : T \ {x} \in B PROVE T \in B
  <2>1. PICK x \in T : TRUE
    BY <1>2
  <2>2. Im(T \ {x}) = Im(T) \ {m[x]} /\ m[x] \in Im(T) /\ Im(T) = Im(T \ {x}) \cup {m[x]}
    OBVIOUS
  <2>3. IsFiniteSet(T) /\ IsFiniteSet(Im(T))
    <3> HIDE DEF Im
    <3> QED
      BY <1>2, <2>1, <2>2, FS_Subset, FS_AddElement
  <2>4. SumFunctionOnSet(f, T) = f[x] + SumFunctionOnSet(f, T \ {x})
    BY <2>1, <2>3, SumRemove
  <2>5. \A y \in Im(T) : g[y] \in Int
    OBVIOUS
  <2>6. SumFunctionOnSet(g, Im(T)) = g[m[x]] + SumFunctionOnSet(g, Im(T) \ {m[x]})
    <3>1. m[x] \in Im(T)
      BY <2>2
    <3> HIDE DEF Im
    <3> QED
      BY <2>3, <2>5, <3>1, SumRemove
  <2>7. SumFunctionOnSet(g, Im(T)) = g[m[x]] + SumFunctionOnSet(g, Im(T \ {x}))
    BY <2>2, <2>6
  <2>8. SumFunctionOnSet(f, T \ {x}) = SumFunctionOnSet(g, Im(T \ {x})) /\ f[x] = g[m[x]]
    BY <1>2
  <2>9. SumFunctionOnSet(f, T) = SumFunctionOnSet(g, Im(T))
    BY <2>4, <2>7, <2>8
  <2> QED
    BY <2>3, <2>9
<1>3. SUBSET S \subseteq B
  <2> HIDE DEF B
  <2> QED
    BY <1>1, <1>2, SubsetInduction
<1> QED
  BY <1>3

THEOREM SumEqual ==
  ASSUME NEW S, IsFiniteSet(S), NEW f, NEW g, \A x \in S : f[x] \in Int /\ f[x] = g[x]
  PROVE  SumFunctionOnSet(f, S) = SumFunctionOnSet(g, S)
<1> DEFINE m == [x \in S |-> x]
<1>1. {m[x] : x \in S} = S
  OBVIOUS
<1>2. /\ \A x \in S : g[m[x]] \in Int /\ f[x] = g[m[x]]
      /\ \A x, y \in S : m[x] = m[y] => x = y
  OBVIOUS
<1> HIDE DEF m
<1> QED
  BY <1>1, <1>2, SumRenamed

\* A function that is nowhere larger has no larger sum.
THEOREM SumMonotone ==
  ASSUME NEW S, IsFiniteSet(S), NEW f, NEW g,
         \A x \in S : f[x] \in Int /\ g[x] \in Int /\ f[x] <= g[x]
  PROVE  SumFunctionOnSet(f, S) <= SumFunctionOnSet(g, S)
<1> DEFINE B == {T \in SUBSET S : SumFunctionOnSet(f, T) <= SumFunctionOnSet(g, T)}
<1>1. {} \in B
  BY SumEmpty
<1>2. ASSUME NEW T \in SUBSET S, T # {}, \A x \in T : T \ {x} \in B PROVE T \in B
  <2>1. PICK x \in T : TRUE
    BY <1>2
  <2>2. IsFiniteSet(T) /\ IsFiniteSet(T \ {x})
    BY FS_Subset
  <2>3. SumFunctionOnSet(f, T) = f[x] + SumFunctionOnSet(f, T \ {x})
    BY <2>1, <2>2, SumRemove
  <2>4. SumFunctionOnSet(g, T) = g[x] + SumFunctionOnSet(g, T \ {x})
    BY <2>1, <2>2, SumRemove
  <2>5. SumFunctionOnSet(f, T \ {x}) \in Int /\ SumFunctionOnSet(g, T \ {x}) \in Int
    BY <2>2, SumInt
  <2>6. SumFunctionOnSet(f, T \ {x}) <= SumFunctionOnSet(g, T \ {x})
    BY <1>2, <2>1
  <2> QED
    BY <2>3, <2>4, <2>5, <2>6
<1>3. SUBSET S \subseteq B
  <2> HIDE DEF B
  <2> QED
    BY <1>1, <1>2, SubsetInduction
<1> QED
  BY <1>3

\* What the sum over two disjoint sets is.
THEOREM SumUnion ==
  ASSUME NEW S, IsFiniteSet(S), NEW R, IsFiniteSet(R), R \cap S = {},
         NEW f, \A x \in S \cup R : f[x] \in Int
  PROVE  SumFunctionOnSet(f, R \cup S) = SumFunctionOnSet(f, R) + SumFunctionOnSet(f, S)
<1> DEFINE B == {T \in SUBSET S : SumFunctionOnSet(f, R \cup T)
                                    = SumFunctionOnSet(f, R) + SumFunctionOnSet(f, T)}
<1>1. {} \in B
  <2>1. R \cup {} = R /\ SumFunctionOnSet(f, R) \in Int
    BY SumInt
  <2> QED
    BY <2>1, SumEmpty
<1>2. ASSUME NEW T \in SUBSET S, T # {}, \A x \in T : T \ {x} \in B PROVE T \in B
  <2>1. PICK x \in T : TRUE
    BY <1>2
  <2>2. IsFiniteSet(T) /\ IsFiniteSet(R \cup T) /\ IsFiniteSet(T \ {x})
    BY FS_Subset, FS_Union
  <2>3. (R \cup T) \ {x} = R \cup (T \ {x})
    OBVIOUS
  <2>4. SumFunctionOnSet(f, T) = f[x] + SumFunctionOnSet(f, T \ {x})
    BY <2>1, <2>2, SumRemove
  <2>5. SumFunctionOnSet(f, R \cup T) = f[x] + SumFunctionOnSet(f, R \cup (T \ {x}))
    BY <2>1, <2>2, <2>3, SumRemove
  <2>6. /\ SumFunctionOnSet(f, R) \in Int /\ SumFunctionOnSet(f, T \ {x}) \in Int /\ f[x] \in Int
    BY <2>2, SumInt
  <2> QED
    BY <1>2, <2>4, <2>5, <2>6
<1>3. SUBSET S \subseteq B
  <2> HIDE DEF B
  <2> QED
    BY <1>1, <1>2, SubsetInduction
<1> QED
  BY <1>3

\* Summing, or counting, part by part.
THEOREM SumOfParts ==
  ASSUME NEW S, IsFiniteSet(S), NEW P, \A x \in S : IsFiniteSet(P[x]),
         \A x, y \in S : x # y => P[x] \cap P[y] = {},
         NEW f, \A x \in S : \A z \in P[x] : f[z] \in Int,
         NEW s, \A x \in S : s[x] = SumFunctionOnSet(f, P[x])
  PROVE  SumFunctionOnSet(f, UNION {P[x] : x \in S}) = SumFunctionOnSet(s, S)
<1> DEFINE U(T) == UNION {P[x] : x \in T}
           B == {T \in SUBSET S : /\ IsFiniteSet(U(T))
                                  /\ SumFunctionOnSet(f, U(T)) = SumFunctionOnSet(s, T)}
<1>1. {} \in B
  <2>1. U({}) = {}
    OBVIOUS
  <2> QED
    BY <2>1, SumEmpty, FS_EmptySet
<1>2. \A x \in S : s[x] \in Int
  BY SumInt
<1>3. ASSUME NEW T \in SUBSET S, T # {}, \A x \in T : T \ {x} \in B PROVE T \in B
  <2>1. PICK x \in T : TRUE
    BY <1>3
  <2> DEFINE V == U(T \ {x})
  <2>2. U(T) = V \cup P[x] /\ V \cap P[x] = {} /\ P[x] \cap V = {}
    OBVIOUS
  <2>3. IsFiniteSet(V) /\ IsFiniteSet(P[x]) /\ SumFunctionOnSet(f, V) = SumFunctionOnSet(s, T \ {x})
    BY <1>3, <2>1
  <2>4. \A z \in V \cup P[x] : f[z] \in Int
    OBVIOUS
  <2>5. IsFiniteSet(T) /\ \A y \in T : s[y] \in Int
    BY <1>2, FS_Subset
  <2>6. SumFunctionOnSet(s, T) = s[x] + SumFunctionOnSet(s, T \ {x})
    BY <2>5, SumRemove
  <2> HIDE DEF V, U
  <2>7. SumFunctionOnSet(f, V \cup P[x]) = SumFunctionOnSet(f, V) + SumFunctionOnSet(f, P[x])
    BY <2>2, <2>3, <2>4, SumUnion
  <2>8. SumFunctionOnSet(f, V) \in Int
    BY <2>3, <2>4, SumInt
  <2>9. IsFiniteSet(V \cup P[x])
    BY <2>3, FS_Union
  <2>10. SumFunctionOnSet(f, U(T)) = SumFunctionOnSet(s, T)
    BY <1>2, <2>2, <2>3, <2>6, <2>7, <2>8
  <2> QED
    BY <2>2, <2>9, <2>10
<1>4. SUBSET S \subseteq B
  <2> HIDE DEF B
  <2> QED
    BY <1>1, <1>3, SubsetInduction
<1> QED
  BY <1>4

THEOREM CardinalityOfParts ==
  ASSUME NEW S, IsFiniteSet(S), NEW P, \A x \in S : IsFiniteSet(P[x]),
         \A x, y \in S : x # y => P[x] \cap P[y] = {},
         NEW c, \A x \in S : c[x] = Cardinality(P[x])
  PROVE  Cardinality(UNION {P[x] : x \in S}) = SumFunctionOnSet(c, S)
<1> DEFINE U(T) == UNION {P[x] : x \in T}
           B == {T \in SUBSET S : /\ IsFiniteSet(U(T))
                                  /\ Cardinality(U(T)) = SumFunctionOnSet(c, T)}
<1>1. {} \in B
  <2>1. U({}) = {}
    OBVIOUS
  <2> QED
    BY <2>1, SumEmpty, FS_EmptySet
<1>2. \A x \in S : c[x] \in Nat
  BY FS_CardinalityType
<1>3. ASSUME NEW T \in SUBSET S, T # {}, \A x \in T : T \ {x} \in B PROVE T \in B
  <2>1. PICK x \in T : TRUE
    BY <1>3
  <2> DEFINE V == U(T \ {x})
  <2>2. U(T) = V \cup P[x] /\ V \cap P[x] = {}
    OBVIOUS
  <2>3. IsFiniteSet(V) /\ IsFiniteSet(P[x]) /\ Cardinality(V) = SumFunctionOnSet(c, T \ {x})
    BY <1>3, <2>1
  <2>4. IsFiniteSet(T) /\ \A y \in T : c[y] \in Int
    BY <1>2, FS_Subset
  <2>5. SumFunctionOnSet(c, T) = c[x] + SumFunctionOnSet(c, T \ {x})
    BY <2>4, SumRemove
  <2> HIDE DEF V, U
  <2>6. /\ IsFiniteSet(V \cup P[x])
        /\ Cardinality(V \cup P[x]) = Cardinality(V) + Cardinality(P[x]) - Cardinality(V \cap P[x])
    BY <2>3, FS_Union
  <2>7. Cardinality(V \cap P[x]) = 0 /\ Cardinality(V) \in Nat /\ Cardinality(P[x]) \in Nat
    BY <2>2, <2>3, FS_EmptySet, FS_CardinalityType
  <2>8. Cardinality(V \cup P[x]) = SumFunctionOnSet(c, T)
    BY <2>3, <2>5, <2>6, <2>7
  <2> QED
    BY <2>2, <2>6, <2>8
<1>4. SUBSET S \subseteq B
  <2> HIDE DEF B
  <2> QED
    BY <1>1, <1>3, SubsetInduction
<1> QED
  BY <1>4

=============================================================================
