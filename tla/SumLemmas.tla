----------------------------- MODULE SumLemmas ------------------------------
(***************************************************************************)
(* Sums over finite sets, for the proofs about seats and money: the        *)
(* SumFunctionOnSet of the community modules unfolds, has the type of its  *)
(* terms and does not depend on the order in which CHOOSE takes them.      *)
(*                                                                         *)
(* The library's induction theorems take an operator as a parameter; the   *)
(* two rules below take a SET instead (the numbers, or the subsets, for    *)
(* which the claim holds), and rest on the existence of a minimal          *)
(* counterexample, WFMin.                                                  *)
(***************************************************************************)
EXTENDS Integers, Functions, FiniteSetTheorems, WellFoundedInduction, TLAPS

(* Induction over the naturals, for a set T of them.                       *)
LEMMA InductionOnNat ==
  ASSUME NEW T, 0 \in T, \A n \in Nat : n \in T => n + 1 \in T
  PROVE  Nat \subseteq T
<1> DEFINE U == Nat \ T
<1>1. SUFFICES ASSUME U # {} PROVE FALSE
  OBVIOUS
<1>2. PICK m \in U : \A n \in U : ~(<<n, m>> \in OpToRel(<, Nat))
  BY <1>1, NatLessThanWellFounded, WFMin, Zenon
<1>3. \A n \in U : ~(n < m)
  BY <1>2 DEF OpToRel
<1>4. m \in Nat /\ m \notin T /\ m # 0
  OBVIOUS
<1>5. m - 1 \in Nat /\ m - 1 < m /\ (m - 1) + 1 = m
  BY <1>4
<1>6. m - 1 \in T
  BY <1>3, <1>5
<1> QED
  BY <1>4, <1>5, <1>6

(* Induction over the subsets of a finite set, for a family F of them.     *)
LEMMA InductionOnSubsets ==
  ASSUME NEW S, IsFiniteSet(S), NEW F,
         \A T \in SUBSET S : (\A x \in T : T \ {x} \in F) => T \in F
  PROVE  SUBSET S \subseteq F
<1> DEFINE N == {n \in Nat : \A T \in SUBSET S : Cardinality(T) = n => T \in F}
<1>1. \A T \in SUBSET S : IsFiniteSet(T) /\ Cardinality(T) \in Nat
  BY FS_Subset, FS_CardinalityType
<1>2. 0 \in N
  <2>1. \A T \in SUBSET S : Cardinality(T) = 0 => T = {}
    BY <1>1, FS_EmptySet
  <2> QED
    BY <2>1
<1>3. ASSUME NEW n \in Nat, n \in N PROVE n + 1 \in N
  <2> SUFFICES ASSUME NEW T \in SUBSET S, Cardinality(T) = n + 1 PROVE T \in F
    OBVIOUS
  <2>1. \A x \in T : Cardinality(T \ {x}) = n
    BY <1>1, FS_RemoveElement
  <2> QED
    BY <1>3, <2>1
<1> HIDE DEF N
<1>4. Nat \subseteq N
  BY <1>2, <1>3, InductionOnNat
<1> QED
  BY <1>1, <1>4 DEF N

(* The element a fold takes first, and the function that CHOOSE picks in   *)
(* MapThenFoldSet for a sum.                                               *)
Pick(s) == CHOOSE x \in s : TRUE

IsFold(g, fun, S) ==
  g = [s \in SUBSET S |-> IF s = {} THEN 0 ELSE fun[Pick(s)] + g[s \ {Pick(s)}]]

(* That function exists: it is built on the subsets of at most n elements, *)
(* one cardinality after the other.                                        *)
LEMMA FoldIsThere ==
  ASSUME NEW fun, NEW S, IsFiniteSet(S)
  PROVE  \E g : IsFold(g, fun, S)
<1> DEFINE Upto(n) == {s \in SUBSET S : Cardinality(s) <= n}
           Good(g, n) ==
             g = [s \in Upto(n) |-> IF s = {} THEN 0 ELSE fun[Pick(s)] + g[s \ {Pick(s)}]]
           N == {n \in Nat : \E g : Good(g, n)}
<1>1. \A s \in SUBSET S : IsFiniteSet(s) /\ Cardinality(s) \in Nat
  BY FS_Subset, FS_CardinalityType
<1>2. ASSUME NEW s \in SUBSET S, s # {}
      PROVE  /\ Pick(s) \in s
             /\ s \ {Pick(s)} \in SUBSET S
             /\ Cardinality(s \ {Pick(s)}) = Cardinality(s) - 1
  <2>1. Pick(s) \in s
    BY <1>2 DEF Pick
  <2> QED
    BY <1>1, <2>1, FS_RemoveElement
<1>3. 0 \in N
  <2> DEFINE g == [s \in Upto(0) |-> 0]
  <2>1. \A s \in Upto(0) : s = {}
    BY <1>1, FS_EmptySet
  <2>2. Good(g, 0)
    BY <2>1
  <2> QED
    BY <2>2
<1>4. ASSUME NEW n \in Nat, n \in N PROVE n + 1 \in N
  <2>1. PICK g : Good(g, n)
    BY <1>4
  <2> DEFINE h == [s \in Upto(n + 1) |-> IF s = {} THEN 0 ELSE fun[Pick(s)] + g[s \ {Pick(s)}]]
  <2>2. \A s \in Upto(n + 1) : s # {} => s \ {Pick(s)} \in Upto(n)
    BY <1>1, <1>2
  <2>3. \A s \in Upto(n) : s \in Upto(n + 1)
    BY <1>1
  <2> HIDE DEF Upto
  <2>5. \A s \in Upto(n) : g[s] = h[s]
    BY <2>1, <2>3
  <2>4. h = [s \in Upto(n + 1) |-> IF s = {} THEN 0 ELSE fun[Pick(s)] + h[s \ {Pick(s)}]]
    BY <2>2, <2>5
  <2>6. \E k : Good(k, n + 1)
    BY <2>4
  <2> QED
    BY <2>6
<1> HIDE DEF N
<1>5. Nat \subseteq N
  BY <1>3, <1>4, InductionOnNat
<1>6. PICK g : Good(g, Cardinality(S))
  BY <1>1, <1>5 DEF N
<1>7. Upto(Cardinality(S)) = SUBSET S
  BY <1>1, FS_Subset
<1> QED
  BY <1>6, <1>7 DEF IsFold

(* Folds over a set and over a subset of it agree on the subset.           *)
LEMMA FoldIsUnique ==
  ASSUME NEW fun, NEW S, IsFiniteSet(S), NEW s \in SUBSET S, NEW g, NEW h,
         IsFold(g, fun, S), IsFold(h, fun, s)
  PROVE  \A u \in SUBSET s : g[u] = h[u]
<1> DEFINE F == {u \in SUBSET s : g[u] = h[u]}
<1>1. \A u \in SUBSET s : /\ g[u] = IF u = {} THEN 0 ELSE fun[Pick(u)] + g[u \ {Pick(u)}]
                          /\ h[u] = IF u = {} THEN 0 ELSE fun[Pick(u)] + h[u \ {Pick(u)}]
  BY DEF IsFold
<1>3. ASSUME NEW u \in SUBSET s, \A x \in u : u \ {x} \in F PROVE u \in F
  <2>1. u # {} => Pick(u) \in u
    BY DEF Pick
  <2> QED
    BY <1>1, <1>3, <2>1
<1>4. IsFiniteSet(s)
  BY FS_Subset
<1> HIDE DEF F
<1>5. SUBSET s \subseteq F
  BY <1>3, <1>4, InductionOnSubsets
<1> QED
  BY <1>5 DEF F

(* A sum is the value of such a function at the whole set.                 *)
LEMMA SumIsFold ==
  ASSUME NEW fun, NEW S, IsFiniteSet(S)
  PROVE  \E g : IsFold(g, fun, S) /\ SumFunctionOnSet(fun, S) = g[S]
<1>1. \E g : IsFold(g, fun, S)
  BY FoldIsThere
<1>2. IsFold(CHOOSE g : IsFold(g, fun, S), fun, S)
  BY <1>1
<1>3. SumFunctionOnSet(fun, S) = (CHOOSE g : IsFold(g, fun, S))[S]
  BY DEF SumFunctionOnSet, FoldFunctionOnSet, MapThenFoldSet, IsFold, Pick
<1> QED
  BY <1>2, <1>3

(* The empty sum.                                                          *)
LEMMA SumEmpty == \A fun : SumFunctionOnSet(fun, {}) = 0
<1> SUFFICES ASSUME NEW fun PROVE SumFunctionOnSet(fun, {}) = 0
  OBVIOUS
<1>1. PICK g : IsFold(g, fun, {}) /\ SumFunctionOnSet(fun, {}) = g[{}]
  BY SumIsFold, FS_EmptySet
<1> QED
  BY <1>1 DEF IsFold

(* A sum unfolds at the element the fold takes first.                      *)
LEMMA SumStep ==
  ASSUME NEW fun, NEW S, IsFiniteSet(S), S # {}
  PROVE  SumFunctionOnSet(fun, S) = fun[Pick(S)] + SumFunctionOnSet(fun, S \ {Pick(S)})
<1> DEFINE T == S \ {Pick(S)}
<1>1. IsFiniteSet(T)
  BY FS_RemoveElement
<1>2. PICK g : IsFold(g, fun, S) /\ SumFunctionOnSet(fun, S) = g[S]
  BY SumIsFold
<1>3. PICK h : IsFold(h, fun, T) /\ SumFunctionOnSet(fun, T) = h[T]
  BY <1>1, SumIsFold
<1>4. g[T] = h[T]
  BY <1>2, <1>3, FoldIsUnique
<1>5. g[S] = fun[Pick(S)] + g[T]
  BY <1>2 DEF IsFold
<1> QED
  BY <1>2, <1>3, <1>4, <1>5

-----------------------------------------------------------------------------
(* What the proofs about the system cite.  A sum of integers is an integer, *)
(* a sum of naturals a natural number.                                     *)
LEMMA SumType ==
  ASSUME NEW fun, NEW S, IsFiniteSet(S), \A x \in S : fun[x] \in Int
  PROVE  SumFunctionOnSet(fun, S) \in Int
<1> DEFINE F == {T \in SUBSET S : SumFunctionOnSet(fun, T) \in Int}
<1>1. ASSUME NEW T \in SUBSET S, \A x \in T : T \ {x} \in F PROVE T \in F
  <2>1. IsFiniteSet(T)
    BY FS_Subset
  <2>2. T # {} => Pick(T) \in T
    BY DEF Pick
  <2>3. T # {} => SumFunctionOnSet(fun, T \ {Pick(T)}) \in Int /\ fun[Pick(T)] \in Int
    BY <1>1, <2>2
  <2>4. CASE T = {}
    BY <2>4, SumEmpty
  <2>5. CASE T # {}
    <3>1. SumFunctionOnSet(fun, T) = fun[Pick(T)] + SumFunctionOnSet(fun, T \ {Pick(T)})
      BY <2>1, <2>5, SumStep
    <3> QED
      BY <2>3, <2>5, <3>1
  <2> QED
    BY <2>4, <2>5
<1> HIDE DEF F
<1>2. SUBSET S \subseteq F
  BY <1>1, InductionOnSubsets
<1> QED
  BY <1>2 DEF F

LEMMA SumNat ==
  ASSUME NEW f, NEW S, IsFiniteSet(S), \A x \in S : f[x] \in Nat
  PROVE  SumFunctionOnSet(f, S) \in Nat
<1> DEFINE F == {T \in SUBSET S : SumFunctionOnSet(f, T) \in Nat}
<1>1. ASSUME NEW T \in SUBSET S, \A x \in T : T \ {x} \in F PROVE T \in F
  <2>1. IsFiniteSet(T)
    BY FS_Subset
  <2>2. T # {} => Pick(T) \in T
    BY DEF Pick
  <2>3. T # {} => SumFunctionOnSet(f, T \ {Pick(T)}) \in Nat /\ f[Pick(T)] \in Nat
    BY <1>1, <2>2
  <2>4. CASE T = {}
    BY <2>4, SumEmpty
  <2>5. CASE T # {}
    <3>1. SumFunctionOnSet(f, T) = f[Pick(T)] + SumFunctionOnSet(f, T \ {Pick(T)})
      BY <2>1, <2>5, SumStep
    <3> QED
      BY <2>3, <2>5, <3>1
  <2> QED
    BY <2>4, <2>5
<1> HIDE DEF F
<1>2. SUBSET S \subseteq F
  BY <1>1, InductionOnSubsets
<1> QED
  BY <1>2 DEF F

(* A sum of zeros.                                                         *)
LEMMA SumZero ==
  ASSUME NEW f, NEW S, IsFiniteSet(S), \A x \in S : f[x] = 0
  PROVE  SumFunctionOnSet(f, S) = 0
<1> DEFINE F == {T \in SUBSET S : SumFunctionOnSet(f, T) = 0}
<1>1. ASSUME NEW T \in SUBSET S, \A x \in T : T \ {x} \in F PROVE T \in F
  <2>1. IsFiniteSet(T)
    BY FS_Subset
  <2>2. T # {} => Pick(T) \in T
    BY DEF Pick
  <2>3. T # {} => SumFunctionOnSet(f, T \ {Pick(T)}) = 0 /\ f[Pick(T)] = 0
    BY <1>1, <2>2
  <2>4. CASE T = {}
    BY <2>4, SumEmpty
  <2>5. CASE T # {}
    <3>1. SumFunctionOnSet(f, T) = f[Pick(T)] + SumFunctionOnSet(f, T \ {Pick(T)})
      BY <2>1, <2>5, SumStep
    <3> QED
      BY <2>3, <2>5, <3>1
  <2> QED
    BY <2>4, <2>5
<1> HIDE DEF F
<1>2. SUBSET S \subseteq F
  BY <1>1, InductionOnSubsets
<1> QED
  BY <1>2 DEF F

(* Any element may be taken out of a sum of integers first.                *)
LEMMA SumRemove ==
  ASSUME NEW fun, NEW S, IsFiniteSet(S), \A x \in S : fun[x] \in Int, NEW a \in S
  PROVE  SumFunctionOnSet(fun, S) = fun[a] + SumFunctionOnSet(fun, S \ {a})
<1> DEFINE F == {T \in SUBSET S : \A x \in T :
                   SumFunctionOnSet(fun, T) = fun[x] + SumFunctionOnSet(fun, T \ {x})}
<1>1. ASSUME NEW T \in SUBSET S, \A x \in T : T \ {x} \in F PROVE T \in F
  <2> SUFFICES ASSUME NEW x \in T
               PROVE  SumFunctionOnSet(fun, T) = fun[x] + SumFunctionOnSet(fun, T \ {x})
    OBVIOUS
  <2> DEFINE c == Pick(T)
  <2>1. c \in T
    BY DEF Pick
  <2>2. SumFunctionOnSet(fun, T) = fun[c] + SumFunctionOnSet(fun, T \ {c})
    <3>1. IsFiniteSet(T) /\ T # {}
      BY FS_Subset
    <3> QED
      BY <3>1, SumStep
  <2> HIDE DEF c
  <2>3. CASE x # c
    <3>1. SumFunctionOnSet(fun, T \ {c}) = fun[x] + SumFunctionOnSet(fun, (T \ {c}) \ {x})
      BY <1>1, <2>1, <2>3
    <3>2. SumFunctionOnSet(fun, T \ {x}) = fun[c] + SumFunctionOnSet(fun, (T \ {x}) \ {c})
      BY <1>1, <2>1, <2>3
    <3> DEFINE rest == SumFunctionOnSet(fun, (T \ {x}) \ {c})
    <3>3. SumFunctionOnSet(fun, (T \ {c}) \ {x}) = rest
      <4>1. (T \ {c}) \ {x} = (T \ {x}) \ {c}
        OBVIOUS
      <4> QED
        BY <4>1
    <3>4. rest \in Int
      <4>1. IsFiniteSet((T \ {x}) \ {c})
        BY FS_Subset
      <4> QED
        BY <4>1, SumType
    <3>5. fun[x] \in Int /\ fun[c] \in Int
      BY <2>1
    <3> HIDE DEF rest
    <3>6. /\ SumFunctionOnSet(fun, T) = fun[c] + (fun[x] + rest)
          /\ SumFunctionOnSet(fun, T \ {x}) = fun[c] + rest
      BY <2>2, <3>1, <3>2, <3>3 DEF rest
    <3> QED
      BY <3>4, <3>5, <3>6
  <2> QED
    BY <2>2, <2>3
<1> HIDE DEF F
<1>2. SUBSET S \subseteq F
  BY <1>1, InductionOnSubsets
<1> QED
  BY <1>2 DEF F

(* A sum over one more element.                                            *)
LEMMA SumAdd ==
  ASSUME NEW fun, NEW S, IsFiniteSet(S), NEW a, a \notin S, \A x \in S \cup {a} : fun[x] \in Int
  PROVE  SumFunctionOnSet(fun, S \cup {a}) = fun[a] + SumFunctionOnSet(fun, S)
<1>1. IsFiniteSet(S \cup {a}) /\ (S \cup {a}) \ {a} = S
  BY FS_AddElement
<1> QED
  BY <1>1, SumRemove

(* Equal terms have equal sums.                                            *)
LEMMA SumEqual ==
  ASSUME NEW f, NEW g, NEW S, IsFiniteSet(S), \A x \in S : f[x] = g[x]
  PROVE  SumFunctionOnSet(f, S) = SumFunctionOnSet(g, S)
<1> DEFINE F == {T \in SUBSET S : SumFunctionOnSet(f, T) = SumFunctionOnSet(g, T)}
<1>1. ASSUME NEW T \in SUBSET S, \A x \in T : T \ {x} \in F PROVE T \in F
  <2>1. IsFiniteSet(T)
    BY FS_Subset
  <2>2. T # {} => Pick(T) \in T
    BY DEF Pick
  <2>3. T # {} => /\ SumFunctionOnSet(f, T \ {Pick(T)}) = SumFunctionOnSet(g, T \ {Pick(T)})
                  /\ f[Pick(T)] = g[Pick(T)]
    BY <1>1, <2>2
  <2>4. CASE T = {}
    BY <2>4, SumEmpty
  <2>5. CASE T # {}
    <3>1. /\ SumFunctionOnSet(f, T) = f[Pick(T)] + SumFunctionOnSet(f, T \ {Pick(T)})
          /\ SumFunctionOnSet(g, T) = g[Pick(T)] + SumFunctionOnSet(g, T \ {Pick(T)})
      BY <2>1, <2>5, SumStep
    <3> QED
      BY <2>3, <2>5, <3>1
  <2> QED
    BY <2>4, <2>5
<1> HIDE DEF F
<1>2. SUBSET S \subseteq F
  BY <1>1, InductionOnSubsets
<1> QED
  BY <1>2 DEF F

(* A change of one term changes the sum by the difference.                 *)
LEMMA SumChange ==
  ASSUME NEW f, NEW g, NEW S, IsFiniteSet(S), NEW a \in S,
         \A x \in S : f[x] \in Int /\ g[x] \in Int,
         \A x \in S \ {a} : f[x] = g[x]
  PROVE  SumFunctionOnSet(g, S) = SumFunctionOnSet(f, S) - f[a] + g[a]
<1>1. IsFiniteSet(S \ {a})
  BY FS_RemoveElement
<1>2. SumFunctionOnSet(f, S \ {a}) = SumFunctionOnSet(g, S \ {a})
  BY <1>1, SumEqual
<1>3. SumFunctionOnSet(f, S \ {a}) \in Int
  BY <1>1, SumType
<1>4. SumFunctionOnSet(f, S) = f[a] + SumFunctionOnSet(f, S \ {a})
  BY SumRemove
<1>5. SumFunctionOnSet(g, S) = g[a] + SumFunctionOnSet(g, S \ {a})
  BY SumRemove
<1> QED
  BY <1>2, <1>3, <1>4, <1>5

(* Sums add pointwise.                                                     *)
LEMMA SumPlus ==
  ASSUME NEW f, NEW g, NEW h, NEW S, IsFiniteSet(S),
         \A x \in S : f[x] \in Int /\ g[x] \in Int /\ h[x] = f[x] + g[x]
  PROVE  SumFunctionOnSet(h, S) = SumFunctionOnSet(f, S) + SumFunctionOnSet(g, S)
<1> DEFINE F == {T \in SUBSET S :
                   SumFunctionOnSet(h, T) = SumFunctionOnSet(f, T) + SumFunctionOnSet(g, T)}
<1>1. ASSUME NEW T \in SUBSET S, \A x \in T : T \ {x} \in F PROVE T \in F
  <2>1. IsFiniteSet(T)
    BY FS_Subset
  <2>2. CASE T = {}
    BY <2>2, SumEmpty
  <2>3. CASE T # {}
    <3> DEFINE c == Pick(T)
    <3>1. c \in T
      BY <2>3 DEF Pick
    <3>2. /\ SumFunctionOnSet(f, T) = f[c] + SumFunctionOnSet(f, T \ {c})
          /\ SumFunctionOnSet(g, T) = g[c] + SumFunctionOnSet(g, T \ {c})
          /\ SumFunctionOnSet(h, T) = h[c] + SumFunctionOnSet(h, T \ {c})
      BY <2>1, <2>3, SumStep
    <3> HIDE DEF c
    <3>3. SumFunctionOnSet(h, T \ {c}) =
            SumFunctionOnSet(f, T \ {c}) + SumFunctionOnSet(g, T \ {c})
      BY <1>1, <3>1
    <3>4. IsFiniteSet(T \ {c})
      BY <2>1, FS_RemoveElement
    <3>5. SumFunctionOnSet(f, T \ {c}) \in Int /\ SumFunctionOnSet(g, T \ {c}) \in Int
      BY <3>4, SumType
    <3>6. f[c] \in Int /\ g[c] \in Int /\ h[c] = f[c] + g[c]
      BY <3>1
    <3> QED
      BY <3>2, <3>3, <3>5, <3>6
  <2> QED
    BY <2>2, <2>3
<1> HIDE DEF F
<1>2. SUBSET S \subseteq F
  BY <1>1, InductionOnSubsets
<1> QED
  BY <1>2 DEF F

(* A term of a sum of naturals is at most the sum.                         *)
LEMMA SumBounds ==
  ASSUME NEW f, NEW S, IsFiniteSet(S), \A x \in S : f[x] \in Nat, NEW a \in S
  PROVE  f[a] <= SumFunctionOnSet(f, S)
<1>1. IsFiniteSet(S \ {a})
  BY FS_RemoveElement
<1>2. SumFunctionOnSet(f, S \ {a}) \in Nat
  BY <1>1, SumNat
<1>3. SumFunctionOnSet(f, S) = f[a] + SumFunctionOnSet(f, S \ {a})
  BY SumRemove
<1> QED
  BY <1>2, <1>3
=============================================================================
