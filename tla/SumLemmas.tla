------------------------------- MODULE SumLemmas -------------------------------
(***************************************************************************)
(* Induction without operators, and sums.                                  *)
(*                                                                         *)
(* The library states induction for an operator P(_).  Here it is stated   *)
(* for a set, the set of numbers or of finite sets that satisfy what is to *)
(* be proved, and rests on well-foundedness alone.  With it SumFunction    *)
(* and SumFunctionOnSet of the module Functions, which are recursive       *)
(* folds, are shown to add up what a function yields, in any order.        *)
(***************************************************************************)
EXTENDS Integers, Functions, FiniteSetTheorems, WellFoundedInduction, TLAPS

--------------------------------------------------------------------------------
(* Induction *)

\* A set of natural numbers has a least element.
LEMMA LeastNatural ==
    ASSUME NEW S \in SUBSET Nat, S # {}
    PROVE  \E x \in S : \A y \in S : x <= y
<1> DEFINE R == {p \in Nat \X Nat : p[1] < p[2]}
<1>1. OpToRel(<, Nat) = R
  BY DEF OpToRel
<1>2. IsWellFoundedOn(R, Nat)
  BY <1>1, NatLessThanWellFounded
<1>3. PICK x \in S : \A y \in S : ~ (<<y, x>> \in R)
  <2> HIDE DEF R
  <2> QED
    BY <1>2, WFMin
<1>4. ASSUME NEW y \in S PROVE x <= y
  <2>1. x \in Nat /\ y \in Nat
    OBVIOUS
  <2>2. <<y, x>> \notin R => ~ (y < x)
    BY <2>1
  <2> HIDE DEF R
  <2> QED
    BY <1>3, <2>1, <2>2
<1> QED
  BY <1>4

\* One that is bounded has a greatest.
LEMMA GreatestNatural ==
    ASSUME NEW S \in SUBSET Nat, S # {}, NEW n \in Nat, \A x \in S : x <= n
    PROVE  \E x \in S : \A y \in S : y <= x
<1> DEFINE Bounds == { b \in Nat : \A y \in S : y <= b }
<1>1. PICK b \in Bounds : \A c \in Bounds : b <= c
  <2>1. n \in Bounds /\ Bounds \in SUBSET Nat
    OBVIOUS
  <2> HIDE DEF Bounds
  <2> QED
    BY <2>1, LeastNatural
<1>2. b \in Nat /\ \A y \in S : y <= b
  BY <1>1
<1>3. ASSUME b \notin S PROVE FALSE
  <2>1. \A y \in S : y <= b - 1
    BY <1>2, <1>3
  <2>2. PICK y \in S : TRUE
    OBVIOUS
  <2>3. y \in Nat /\ y <= b - 1
    BY <2>1
  <2>4. b - 1 \in Nat
    BY <1>2, <2>3
  <2>5. b - 1 \in Bounds
    BY <2>1, <2>4
  <2> QED
    BY <1>1, <1>2, <2>5
<1> QED
  BY <1>2, <1>3

LEMMA InductionOnNumbers ==
    ASSUME NEW T \in SUBSET Nat, 0 \in T, \A n \in T : n + 1 \in T
    PROVE  \A n \in Nat : n \in T
<1> SUFFICES ASSUME Nat \ T # {} PROVE FALSE
  OBVIOUS
<1>1. PICK x \in Nat \ T : \A y \in Nat \ T : x <= y
  BY LeastNatural
<1>2. x # 0 /\ x - 1 \in Nat /\ x - 1 + 1 = x
  BY <1>1
<1>3. x - 1 \in T
  BY <1>1, <1>2
<1> QED
  BY <1>1, <1>2, <1>3

\* What holds of {}, and of a set whenever it holds of the set without any one of its
\* elements, holds of a finite set.
LEMMA InductionOnSets ==
    ASSUME NEW S, IsFiniteSet(S), NEW T, {} \in T,
           \A R \in SUBSET S : R # {} /\ (\A x \in R : R \ {x} \in T) => R \in T
    PROVE  S \in T
<1> DEFINE Bad == { R \in SUBSET S : R \notin T }
<1> SUFFICES ASSUME S \notin T PROVE FALSE
  OBVIOUS
<1>1. IsWellFoundedOn(StrictSubsetOrdering(S), FiniteSubsetsOf(S))
  BY FS_StrictSubsetOrderingWellFounded
<1>2. FiniteSubsetsOf(S) = SUBSET S
  BY FS_FiniteSubsetsOfFinite
<1>3. Bad # {} /\ Bad \subseteq SUBSET S
  OBVIOUS
<1> HIDE DEF Bad
<1>4. PICK R \in Bad : \A Q \in Bad : ~ (<<Q, R>> \in StrictSubsetOrdering(S))
  BY <1>1, <1>2, <1>3, WFMin
<1>5. R \in SUBSET S /\ R \notin T
  BY <1>4 DEF Bad
<1>6. ASSUME NEW x \in R PROVE R \ {x} \in T
  <2>1. <<R \ {x}, R>> \in StrictSubsetOrdering(S)
    BY <1>5 DEF StrictSubsetOrdering
  <2> QED
    BY <1>4, <1>5, <2>1 DEF Bad
<1>7. R # {}
  BY <1>5
<1> QED
  BY <1>5, <1>6, <1>7

--------------------------------------------------------------------------------
(* The recursive fold *)

\* The element of s whose turn it is.
NextIn(s) == CHOOSE x \in s : TRUE

\* What SumFunctionOnSet computes for every subset of S.
IsSum(iter, f, S) ==
    iter = [s \in SUBSET S |->
               IF s = {} THEN 0 ELSE f[NextIn(s)] + iter[s \ {NextIn(s)}]]

Partial(f, S) == CHOOSE iter : IsSum(iter, f, S)

LEMMA SumIsPartial ==
    ASSUME NEW f, NEW S PROVE SumFunctionOnSet(f, S) = Partial(f, S)[S]
  BY DEF IsSum, Partial, NextIn, SumFunctionOnSet, FoldFunctionOnSet, MapThenFoldSet

\* The recursion has a solution: one for the subsets of at most n elements, for every n.
LEMMA SumExists ==
    ASSUME NEW f, NEW S, IsFiniteSet(S) PROVE \E iter : IsSum(iter, f, S)
<1> DEFINE Small(n) == { s \in SUBSET S : Cardinality(s) <= n }
           Body(g, s) == IF s = {} THEN 0 ELSE f[NextIn(s)] + g[s \ {NextIn(s)}]
           Solves(g, n) == g = [s \in Small(n) |-> Body(g, s)]
           T == { n \in Nat : \E g : Solves(g, n) }
<1>1. \A s \in SUBSET S : /\ Cardinality(s) \in Nat
                          /\ Cardinality(s) = 0 <=> s = {}
                          /\ s # {} => /\ NextIn(s) \in s
                                       /\ Cardinality(s \ {NextIn(s)}) = Cardinality(s) - 1
  <2> SUFFICES ASSUME NEW s \in SUBSET S
               PROVE  /\ Cardinality(s) \in Nat
                      /\ Cardinality(s) = 0 <=> s = {}
                      /\ s # {} => /\ NextIn(s) \in s
                                   /\ Cardinality(s \ {NextIn(s)}) = Cardinality(s) - 1
    OBVIOUS
  <2>1. IsFiniteSet(s)
    BY FS_Subset
  <2>2. s # {} => NextIn(s) \in s
    BY DEF NextIn
  <2> QED
    BY <2>1, <2>2, FS_CardinalityType, FS_EmptySet, FS_RemoveElement
<1>2. 0 \in T
  <2> DEFINE g == [s \in Small(0) |-> 0]
  <2>1. ASSUME NEW s \in Small(0) PROVE s = {}
    <3>1. Cardinality(s) \in Nat /\ Cardinality(s) <= 0 /\ (Cardinality(s) = 0 <=> s = {})
      BY <1>1
    <3> QED
      BY <3>1
  <2>2. \A s \in Small(0) : Body(g, s) = 0
    BY <2>1
  <2>3. g = [s \in Small(0) |-> 0]
    OBVIOUS
  <2> HIDE DEF Body, g, Small
  <2>4. [s \in Small(0) |-> 0] = [s \in Small(0) |-> Body(g, s)]
    BY <2>2, Zenon
  <2>5. Solves(g, 0)
    BY <2>3, <2>4, Zenon
  <2> QED
    BY <2>5
<1>3. ASSUME NEW n \in T PROVE n + 1 \in T
  <2>1. PICK g : Solves(g, n)
    BY <1>3
  <2> DEFINE h == [s \in Small(n + 1) |-> Body(g, s)]
  <2>2. n \in Nat /\ n + 1 \in Nat
    OBVIOUS
  <2>3. ASSUME NEW s \in Small(n) PROVE h[s] = g[s]
    <3>1. s \in Small(n + 1)
      <4>1. s \in SUBSET S /\ Cardinality(s) \in Nat /\ Cardinality(s) <= n
        BY <1>1
      <4> QED
        BY <2>2, <4>1
    <3>2. g[s] = Body(g, s)
      <4> DEFINE unrolled == [r \in Small(n) |-> Body(g, r)]
      <4> HIDE DEF Body, Small
      <4>1. unrolled[s] = Body(g, s)
        OBVIOUS
      <4>2. g = unrolled
        BY <2>1, Zenon
      <4> QED
        BY <4>1, <4>2, Zenon
    <3> QED
      BY <3>1, <3>2
  <2>4. ASSUME NEW s \in Small(n + 1) PROVE Body(g, s) = Body(h, s)
    <3>1. CASE s = {}
      BY <3>1
    <3>2. CASE s # {}
      <4>1. s \ {NextIn(s)} \in Small(n)
        BY <1>1, <2>2, <3>2
      <4>2. h[s \ {NextIn(s)}] = g[s \ {NextIn(s)}]
        BY <2>3, <4>1
      <4> HIDE DEF h
      <4> QED
        BY <4>2
    <3> QED
      BY <3>1, <3>2
  <2>5. Solves(h, n + 1)
    <3> HIDE DEF Body, Small
    <3> QED
      BY <2>4, Zenon
  <2> HIDE DEF Solves, h
  <2> QED
    BY <2>2, <2>5
<1>4. \A n \in Nat : n \in T
  <2>1. T \in SUBSET Nat
    OBVIOUS
  <2> HIDE DEF T
  <2> QED
    BY <1>2, <1>3, <2>1, InductionOnNumbers
<1>5. Cardinality(S) \in Nat
  BY FS_CardinalityType
<1>6. PICK g : Solves(g, Cardinality(S))
  BY <1>4, <1>5
<1>7. Small(Cardinality(S)) = SUBSET S
  <2>1. \A s \in SUBSET S : Cardinality(s) <= Cardinality(S)
    BY FS_Subset
  <2> QED
    BY <2>1
<1>8. g = [s \in SUBSET S |-> Body(g, s)]
  <2> HIDE DEF Small, Body
  <2> QED
    BY <1>6, <1>7, Zenon
<1> QED
  BY <1>8, Zenon DEF IsSum

LEMMA PartialIsSum ==
    ASSUME NEW f, NEW S, IsFiniteSet(S) PROVE IsSum(Partial(f, S), f, S)
  BY SumExists, Zenon DEF Partial

Unrolls(iter, f, S) ==
    /\ iter[{}] = 0
    /\ \A s \in SUBSET S : s # {} => /\ NextIn(s) \in s
                                     /\ iter[s] = f[NextIn(s)] + iter[s \ {NextIn(s)}]

LEMMA PartialUnrolls ==
    ASSUME NEW f, NEW S, IsFiniteSet(S) PROVE Unrolls(Partial(f, S), f, S)
<1> DEFINE p == Partial(f, S)
           unrolled == [s \in SUBSET S |->
                           IF s = {} THEN 0 ELSE f[NextIn(s)] + p[s \ {NextIn(s)}]]
<1>1. IsSum(p, f, S)
  BY PartialIsSum
<1> HIDE DEF p
<1>2. p = unrolled
  BY <1>1, Zenon DEF IsSum
<1>3. \A s \in SUBSET S : s # {} => NextIn(s) \in s
  BY DEF NextIn
<1>4. /\ unrolled[{}] = 0
      /\ \A s \in SUBSET S : s # {} => unrolled[s] = f[NextIn(s)] + p[s \ {NextIn(s)}]
  OBVIOUS
<1> HIDE DEF unrolled
<1>5. Unrolls(p, f, S)
  BY <1>2, <1>3, <1>4, Zenon DEF Unrolls
<1> QED
  BY <1>5, Zenon DEF p

\* The subsets of a set are summed up as they are in it.
LEMMA PartialOfSubset ==
    ASSUME NEW f, NEW S, IsFiniteSet(S), NEW R \in SUBSET S
    PROVE  Partial(f, S)[R] = SumFunctionOnSet(f, R)
<1> DEFINE p == Partial(f, S)
           q == Partial(f, R)
           T == { s \in SUBSET R : p[s] = q[s] }
<1>1. IsFiniteSet(R)
  BY FS_Subset
<1>2. /\ p[{}] = 0 /\ q[{}] = 0
      /\ \A s \in SUBSET R : s # {} => /\ NextIn(s) \in s
                                       /\ p[s] = f[NextIn(s)] + p[s \ {NextIn(s)}]
                                       /\ q[s] = f[NextIn(s)] + q[s \ {NextIn(s)}]
  <2>1. Unrolls(p, f, S) /\ Unrolls(q, f, R)
    BY <1>1, PartialUnrolls
  <2> HIDE DEF p, q
  <2> QED
    BY <2>1 DEF Unrolls
<1> HIDE DEF p, q
<1>3. {} \in T
  BY <1>2
<1>4. ASSUME NEW s \in SUBSET R, s # {}, \A x \in s : s \ {x} \in T
      PROVE  s \in T
  <2>1. p[s \ {NextIn(s)}] = q[s \ {NextIn(s)}]
    BY <1>2, <1>4
  <2>2. p[s] = q[s]
    BY <1>2, <1>4, <2>1
  <2> QED
    BY <2>2
<1>5. R \in T
  <2> HIDE DEF T
  <2> QED
    BY <1>1, <1>3, <1>4, InductionOnSets
<1> QED
  BY <1>5, SumIsPartial DEF p, q

--------------------------------------------------------------------------------
(* Sums *)

\* A sum is what some element yields and the sum of the others.
LEMMA SumOfSome ==
    ASSUME NEW f, NEW S, IsFiniteSet(S)
    PROVE  /\ SumFunctionOnSet(f, {}) = 0
           /\ S # {} => \E x \in S :
                 SumFunctionOnSet(f, S) = f[x] + SumFunctionOnSet(f, S \ {x})
<1> DEFINE p == Partial(f, S)
<1>1. \A R \in SUBSET S : p[R] = SumFunctionOnSet(f, R)
  BY PartialOfSubset
<1>2. /\ p[{}] = 0
      /\ S # {} => NextIn(S) \in S /\ p[S] = f[NextIn(S)] + p[S \ {NextIn(S)}]
  <2>1. Unrolls(p, f, S)
    BY PartialUnrolls
  <2> HIDE DEF p
  <2> QED
    BY <2>1 DEF Unrolls
<1> HIDE DEF p
<1> QED
  BY <1>1, <1>2

\* Only what the function yields on the set matters.
LEMMA SumOfSame ==
    ASSUME NEW f, NEW g, NEW S, IsFiniteSet(S), \A x \in S : f[x] = g[x]
    PROVE  SumFunctionOnSet(f, S) = SumFunctionOnSet(g, S)
<1> DEFINE p == Partial(f, S)
           q == Partial(g, S)
           T == { s \in SUBSET S : p[s] = q[s] }
<1>1. /\ p[{}] = 0 /\ q[{}] = 0
      /\ \A s \in SUBSET S : s # {} => /\ NextIn(s) \in s
                                       /\ p[s] = f[NextIn(s)] + p[s \ {NextIn(s)}]
                                       /\ q[s] = g[NextIn(s)] + q[s \ {NextIn(s)}]
  <2>1. Unrolls(p, f, S) /\ Unrolls(q, g, S)
    BY PartialUnrolls
  <2> HIDE DEF p, q
  <2> QED
    BY <2>1 DEF Unrolls
<1> HIDE DEF p, q
<1>2. {} \in T
  BY <1>1
<1>3. ASSUME NEW s \in SUBSET S, s # {}, \A x \in s : s \ {x} \in T
      PROVE  s \in T
  <2>1. p[s \ {NextIn(s)}] = q[s \ {NextIn(s)}] /\ f[NextIn(s)] = g[NextIn(s)]
    BY <1>1, <1>3
  <2>2. p[s] = q[s]
    BY <1>1, <1>3, <2>1
  <2> QED
    BY <2>2
<1>4. S \in T
  <2> HIDE DEF T
  <2> QED
    BY <1>2, <1>3, InductionOnSets
<1> QED
  BY <1>4, SumIsPartial DEF p, q

LEMMA SumIsInteger ==
    ASSUME NEW f, NEW S, IsFiniteSet(S), \A x \in S : f[x] \in Int
    PROVE  SumFunctionOnSet(f, S) \in Int
<1> DEFINE T == { s \in SUBSET S : SumFunctionOnSet(f, s) \in Int }
<1>1. {} \in T
  <2>1. SumFunctionOnSet(f, {}) = 0
    BY SumOfSome
  <2> QED
    BY <2>1
<1>2. ASSUME NEW s \in SUBSET S, s # {}, \A x \in s : s \ {x} \in T
      PROVE  s \in T
  <2>1. IsFiniteSet(s)
    BY FS_Subset
  <2>2. PICK x \in s : SumFunctionOnSet(f, s) = f[x] + SumFunctionOnSet(f, s \ {x})
    BY <1>2, <2>1, SumOfSome
  <2> QED
    BY <1>2, <2>2
<1>3. S \in T
  <2> HIDE DEF T
  <2> QED
    BY <1>1, <1>2, InductionOnSets
<1> QED
  BY <1>3

\* The order does not matter: any element can be taken out.
LEMMA SumWithout ==
    ASSUME NEW f, NEW S, IsFiniteSet(S), \A x \in S : f[x] \in Int, NEW e \in S
    PROVE  SumFunctionOnSet(f, S) = f[e] + SumFunctionOnSet(f, S \ {e})
<1> DEFINE Sum(s) == SumFunctionOnSet(f, s)
           T == { s \in SUBSET S : \A x \in s : Sum(s) = f[x] + Sum(s \ {x}) }
<1>1. \A s \in SUBSET S : Sum(s) \in Int
  <2> SUFFICES ASSUME NEW s \in SUBSET S PROVE Sum(s) \in Int
    OBVIOUS
  <2>1. IsFiniteSet(s) /\ \A x \in s : f[x] \in Int
    BY FS_Subset
  <2> QED
    BY <2>1, SumIsInteger
<1>2. {} \in T
  OBVIOUS
<1>3. ASSUME NEW s \in SUBSET S, s # {}, \A x \in s : s \ {x} \in T
      PROVE  s \in T
  <2>1. IsFiniteSet(s)
    BY FS_Subset
  <2>2. PICK y \in s : Sum(s) = f[y] + Sum(s \ {y})
    BY <1>3, <2>1, SumOfSome
  <2>3. ASSUME NEW x \in s, x # y PROVE Sum(s) = f[x] + Sum(s \ {x})
    <3>1. Sum(s \ {y}) = f[x] + Sum((s \ {y}) \ {x})
      <4>1. x \in s \ {y}
        BY <2>3
      <4> HIDE DEF Sum
      <4> QED
        BY <1>3, <4>1
    <3>2. Sum(s \ {x}) = f[y] + Sum((s \ {x}) \ {y})
      <4>1. y \in s \ {x}
        BY <2>3
      <4> HIDE DEF Sum
      <4> QED
        BY <1>3, <4>1
    <3>3. (s \ {y}) \ {x} = (s \ {x}) \ {y}
      OBVIOUS
    <3> DEFINE others == Sum((s \ {x}) \ {y})
    <3>4. f[x] \in Int /\ f[y] \in Int /\ others \in Int
      BY <1>1
    <3> HIDE DEF Sum, others
    <3>5. f[y] + (f[x] + others) = f[x] + (f[y] + others)
      BY <3>4
    <3>6. Sum(s) = f[y] + (f[x] + others) /\ Sum(s \ {x}) = f[y] + others
      BY <2>2, <3>1, <3>2, <3>3, Zenon DEF others
    <3> QED
      BY <3>5, <3>6
  <2> HIDE DEF Sum
  <2>4. \A x \in s : Sum(s) = f[x] + Sum(s \ {x})
    BY <2>2, <2>3
  <2> QED
    BY <2>4
<1>4. S \in T
  <2> HIDE DEF T
  <2> QED
    BY <1>2, <1>3, InductionOnSets
<1> QED
  BY <1>4

LEMMA SumIsNatural ==
    ASSUME NEW f, NEW S, IsFiniteSet(S), \A x \in S : f[x] \in Nat
    PROVE  SumFunctionOnSet(f, S) \in Nat
<1> DEFINE T == { s \in SUBSET S : SumFunctionOnSet(f, s) \in Nat }
<1>1. {} \in T
  <2>1. SumFunctionOnSet(f, {}) = 0
    BY SumOfSome
  <2> QED
    BY <2>1
<1>2. ASSUME NEW s \in SUBSET S, s # {}, \A x \in s : s \ {x} \in T
      PROVE  s \in T
  <2>1. IsFiniteSet(s)
    BY FS_Subset
  <2>2. PICK x \in s : SumFunctionOnSet(f, s) = f[x] + SumFunctionOnSet(f, s \ {x})
    BY <1>2, <2>1, SumOfSome
  <2> QED
    BY <1>2, <2>2
<1>3. S \in T
  <2> HIDE DEF T
  <2> QED
    BY <1>1, <1>2, InductionOnSets
<1> QED
  BY <1>3

LEMMA SumWith ==
    ASSUME NEW f, NEW S, IsFiniteSet(S), NEW e, e \notin S, \A x \in S \cup {e} : f[x] \in Int
    PROVE  SumFunctionOnSet(f, S \cup {e}) = f[e] + SumFunctionOnSet(f, S)
<1>1. IsFiniteSet(S \cup {e})
  BY FS_AddElement
<1>2. (S \cup {e}) \ {e} = S
  OBVIOUS
<1>3. e \in S \cup {e}
  OBVIOUS
<1> QED
  BY <1>1, <1>2, <1>3, SumWithout

\* A function that differs from another in one place differs in its sum by as much.
LEMMA SumOfChanged ==
    ASSUME NEW f, NEW g, NEW S, IsFiniteSet(S), NEW e \in S,
           \A x \in S : f[x] \in Int /\ g[x] \in Int,
           \A x \in S \ {e} : f[x] = g[x]
    PROVE  SumFunctionOnSet(g, S) = SumFunctionOnSet(f, S) + g[e] - f[e]
<1>1. IsFiniteSet(S \ {e})
  BY FS_Subset
<1>2. SumFunctionOnSet(f, S) = f[e] + SumFunctionOnSet(f, S \ {e})
  BY SumWithout
<1>3. SumFunctionOnSet(g, S) = g[e] + SumFunctionOnSet(g, S \ {e})
  BY SumWithout
<1>4. SumFunctionOnSet(f, S \ {e}) = SumFunctionOnSet(g, S \ {e})
  BY <1>1, SumOfSame
<1>5. SumFunctionOnSet(f, S \ {e}) \in Int
  BY <1>1, SumIsInteger
<1> DEFINE others == SumFunctionOnSet(f, S \ {e})
<1>6. /\ f[e] \in Int /\ g[e] \in Int /\ others \in Int
      /\ SumFunctionOnSet(f, S) = f[e] + others
      /\ SumFunctionOnSet(g, S) = g[e] + others
  BY <1>2, <1>3, <1>4, <1>5
<1> HIDE DEF others
<1> QED
  BY <1>6

\* The sum over two sets that share nothing.
LEMMA SumOfUnion ==
    ASSUME NEW f, NEW A, NEW B, IsFiniteSet(A), IsFiniteSet(B), A \cap B = {},
           \A x \in A \cup B : f[x] \in Int
    PROVE  SumFunctionOnSet(f, A \cup B) = SumFunctionOnSet(f, A) + SumFunctionOnSet(f, B)
<1> DEFINE Sum(s) == SumFunctionOnSet(f, s)
           T == { s \in SUBSET B : Sum(A \cup s) = Sum(A) + Sum(s) }
<1>1. \A s \in SUBSET B : /\ IsFiniteSet(s) /\ IsFiniteSet(A \cup s)
                          /\ Sum(s) \in Int /\ Sum(A \cup s) \in Int
  <2> SUFFICES ASSUME NEW s \in SUBSET B
               PROVE  /\ IsFiniteSet(s) /\ IsFiniteSet(A \cup s)
                      /\ Sum(s) \in Int /\ Sum(A \cup s) \in Int
    OBVIOUS
  <2>1. IsFiniteSet(s)
    BY FS_Subset
  <2>2. IsFiniteSet(A \cup s)
    BY <2>1, FS_Union
  <2>3. (\A x \in s : f[x] \in Int) /\ (\A x \in A \cup s : f[x] \in Int)
    OBVIOUS
  <2> QED
    BY <2>1, <2>2, <2>3, SumIsInteger
<1>2. Sum({}) = 0
  BY <1>1, SumOfSome
<1>3. A \cup {} = A /\ {} \in SUBSET B
  OBVIOUS
<1>4. {} \in T
  <2>1. Sum(A) \in Int
    BY <1>1, <1>3
  <2> HIDE DEF Sum
  <2> QED
    BY <1>2, <1>3, <2>1
<1>5. ASSUME NEW s \in SUBSET B, s # {}, \A x \in s : s \ {x} \in T
      PROVE  s \in T
  <2>1. PICK e \in s : TRUE
    BY <1>5
  <2> DEFINE r == s \ {e}
  <2>2. r \in T /\ r \in SUBSET B
    BY <1>5
  <2>3. Sum(s) = f[e] + Sum(r)
    <3>1. IsFiniteSet(s) /\ \A x \in s : f[x] \in Int
      BY <1>1
    <3> QED
      BY <3>1, SumWithout
  <2>4. Sum(A \cup s) = f[e] + Sum(A \cup r)
    <3>1. (A \cup s) \ {e} = A \cup r /\ e \in A \cup s
      OBVIOUS
    <3>2. IsFiniteSet(A \cup s) /\ \A x \in A \cup s : f[x] \in Int
      BY <1>1
    <3> HIDE DEF r
    <3> QED
      BY <3>1, <3>2, SumWithout
  <2>5. Sum(A) \in Int /\ Sum(r) \in Int /\ f[e] \in Int
    BY <1>1, <1>3, <2>2
  <2>6. Sum(A \cup r) = Sum(A) + Sum(r)
    BY <2>2
  <2> DEFINE a == Sum(A)
             b == Sum(r)
  <2>7. a \in Int /\ b \in Int /\ Sum(A \cup s) = f[e] + (a + b) /\ Sum(s) = f[e] + b
    BY <2>3, <2>4, <2>5, <2>6
  <2>8. Sum(A \cup s) = a + Sum(s)
    <3> HIDE DEF Sum, a, b, r
    <3> QED
      BY <2>5, <2>7
  <2> HIDE DEF Sum
  <2> QED
    BY <2>8
<1>6. B \in T
  <2> HIDE DEF T
  <2> QED
    BY <1>4, <1>5, InductionOnSets
<1> QED
  BY <1>6

LEMMA SumOfConstant ==
    ASSUME NEW f, NEW S, IsFiniteSet(S), NEW c \in Int, \A x \in S : f[x] = c
    PROVE  SumFunctionOnSet(f, S) = c * Cardinality(S)
<1> DEFINE Sum(s) == SumFunctionOnSet(f, s)
           T == { s \in SUBSET S : Sum(s) = c * Cardinality(s) }
<1>1. {} \in T
  <2>1. Sum({}) = 0 /\ Cardinality({}) = 0
    BY SumOfSome, FS_EmptySet
  <2> QED
    BY <2>1
<1>2. ASSUME NEW s \in SUBSET S, s # {}, \A x \in s : s \ {x} \in T
      PROVE  s \in T
  <2>1. IsFiniteSet(s)
    BY FS_Subset
  <2>2. PICK e \in s : TRUE
    BY <1>2
  <2>3. Sum(s) = c + Sum(s \ {e})
    BY <2>1, SumWithout
  <2>4. Cardinality(s) \in Nat /\ Cardinality(s \ {e}) = Cardinality(s) - 1
    BY <2>1, FS_CardinalityType, FS_RemoveElement
  <2>5. Sum(s \ {e}) = c * (Cardinality(s) - 1)
    BY <1>2, <2>4
  <2> DEFINE n == Cardinality(s)
  <2>6. Sum(s) = c + c * (n - 1) /\ n \in Nat
    BY <2>3, <2>4, <2>5
  <2>7. Sum(s) = c * n
    <3> HIDE DEF Sum, n
    <3> QED
      BY <2>6
  <2> HIDE DEF Sum
  <2> QED
    BY <2>7
<1>3. S \in T
  <2> HIDE DEF T
  <2> QED
    BY <1>1, <1>2, InductionOnSets
<1> QED
  BY <1>3

--------------------------------------------------------------------------------
(* How many *)

\* A function that is one to one has no more arguments than there is room for, and as many
\* as there are values when every one is taken.
LEMMA OneToOne ==
    ASSUME NEW S, NEW T, NEW f \in [S -> T], IsFiniteSet(T),
           \A x, y \in S : f[x] = f[y] => x = y
    PROVE  /\ IsFiniteSet(S) /\ Cardinality(S) <= Cardinality(T)
           /\ (\A t \in T : \E x \in S : f[x] = t) => Cardinality(S) = Cardinality(T)
<1>1. f \in Injection(S, T)
  BY DEF Injection, IsInjective
<1>2. (\A t \in T : \E x \in S : f[x] = t) => f \in Surjection(S, T)
  BY DEF Surjection
<1> QED
  BY <1>1, <1>2, FS_Injection

\* Of disjoint sets, the numbers of elements add up to that of their union.
LEMMA SumOfParts ==
    ASSUME NEW f, NEW B, IsFiniteSet(B), NEW S, IsFiniteSet(S), NEW part \in [B -> SUBSET S],
           \A b \in B : f[b] = Cardinality(part[b]),
           \A b, c \in B : b # c => part[b] \cap part[c] = {}
    PROVE  SumFunctionOnSet(f, B) = Cardinality(UNION { part[b] : b \in B })
<1> DEFINE Sum(s) == SumFunctionOnSet(f, s)
           All(s) == UNION { part[b] : b \in s }
           T == { s \in SUBSET B : Sum(s) = Cardinality(All(s)) }
<1>1. {} \in T
  <2>1. All({}) = {}
    OBVIOUS
  <2>2. Sum({}) = 0 /\ Cardinality({}) = 0
    BY SumOfSome, FS_EmptySet
  <2> QED
    BY <2>1, <2>2
<1>2. \A s \in SUBSET B : All(s) \in SUBSET S /\ IsFiniteSet(All(s)) /\ IsFiniteSet(s)
  <2>1. \A s \in SUBSET B : All(s) \in SUBSET S
    OBVIOUS
  <2> HIDE DEF All
  <2> QED
    BY <2>1, FS_Subset
<1>3. \A b \in B : IsFiniteSet(part[b]) /\ Cardinality(part[b]) \in Nat /\ f[b] \in Int
  BY FS_Subset, FS_CardinalityType
<1>4. ASSUME NEW s \in SUBSET B, s # {}, \A x \in s : s \ {x} \in T
      PROVE  s \in T
  <2>1. PICK e \in s : TRUE
    BY <1>4
  <2>2. Sum(s) = Cardinality(part[e]) + Sum(s \ {e})
    <3>1. IsFiniteSet(s) /\ \A x \in s : f[x] \in Int
      BY <1>2, <1>3
    <3>2. Sum(s) = f[e] + Sum(s \ {e})
      BY <3>1, SumWithout
    <3>3. f[e] = Cardinality(part[e])
      OBVIOUS
    <3> HIDE DEF Sum
    <3> QED
      BY <3>2, <3>3
  <2>3. Sum(s \ {e}) = Cardinality(All(s \ {e}))
    BY <1>4
  <2> DEFINE P == part[e]
             Q == All(s \ {e})
  <2>4. All(s) = P \cup Q
    OBVIOUS
  <2>5. P \cap Q = {}
    OBVIOUS
  <2>6. IsFiniteSet(P) /\ IsFiniteSet(Q)
    BY <1>2, <1>3
  <2>7. Cardinality(P \cup Q) = Cardinality(P) + Cardinality(Q)
    <3> HIDE DEF P, Q
    <3>1. Cardinality(P \cup Q) = Cardinality(P) + Cardinality(Q) - Cardinality(P \cap Q)
      BY <2>6, FS_Union
    <3>2. Cardinality(P) \in Nat /\ Cardinality(Q) \in Nat
      BY <2>6, FS_CardinalityType
    <3>3. Cardinality(P \cap Q) = 0
      BY <2>5, FS_EmptySet
    <3> QED
      BY <3>1, <3>2, <3>3
  <2> QED
    BY <2>2, <2>3, <2>4, <2>7
<1>5. B \in T
  <2> HIDE DEF T
  <2> QED
    BY <1>1, <1>4, InductionOnSets
<1> QED
  BY <1>5

--------------------------------------------------------------------------------
(* Sums over intervals *)

LEMMA SumOfIntervals ==
    ASSUME NEW f, NEW a \in Int, NEW b \in Int, NEW c \in Int, a <= b, b <= c,
           \A s \in a .. c - 1 : f[s] \in Int
    PROVE  SumFunctionOnSet(f, a .. c - 1) =
              SumFunctionOnSet(f, a .. b - 1) + SumFunctionOnSet(f, b .. c - 1)
<1>1. IsFiniteSet(a .. b - 1) /\ IsFiniteSet(b .. c - 1)
  BY FS_Interval
<1>2. /\ (a .. b - 1) \cap (b .. c - 1) = {}
      /\ (a .. b - 1) \cup (b .. c - 1) = a .. c - 1
  OBVIOUS
<1> DEFINE A == a .. b - 1
           B == b .. c - 1
<1>3. /\ IsFiniteSet(A) /\ IsFiniteSet(B) /\ A \cap B = {} /\ A \cup B = a .. c - 1
      /\ \A x \in A \cup B : f[x] \in Int
  BY <1>1, <1>2
<1>4. SumFunctionOnSet(f, A \cup B) = SumFunctionOnSet(f, A) + SumFunctionOnSet(f, B)
  <2> HIDE DEF A, B
  <2> QED
    BY <1>3, SumOfUnion
<1> QED
  BY <1>3, <1>4

LEMMA SumOfSteady ==
    ASSUME NEW f, NEW a \in Int, NEW b \in Int, a <= b, NEW c \in Int,
           \A s \in a .. b - 1 : f[s] = c
    PROVE  SumFunctionOnSet(f, a .. b - 1) = c * (b - a)
<1>1. IsFiniteSet(a .. b - 1) /\ Cardinality(a .. b - 1) = b - a
  BY FS_Interval
<1> QED
  BY <1>1, SumOfConstant

================================================================================
