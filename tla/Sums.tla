--------------------------------- MODULE Sums ---------------------------------
(***************************************************************************)
(* Induction over finite sets, and sums over them: SumFunctionOnSet(f, S)  *)
(* of the module Functions adds f[x] over the x in S.                      *)
(*                                                                         *)
(* The library's induction theorems take the statement to be proved as an  *)
(* operator; here it is a set, the set of the values it holds of.          *)
(***************************************************************************)
EXTENDS Integers, Functions, FiniteSetTheorems, WellFoundedInduction, TLAPS

-------------------------------------------------------------------------------
(* Induction *)

LEMMA LeastElement ==
  ASSUME NEW N \in SUBSET Nat, N # {} PROVE \E n \in N : \A m \in N : n <= m
<1>1. PICK n \in N : \A m \in N : <<m, n>> \notin OpToRel(<, Nat)
  BY NatLessThanWellFounded, WFMin
<1>2. \A m \in N : ~(m < n)
  BY <1>1 DEF OpToRel
<1> QED BY <1>2

\* A set of subsets of S that has the empty set and is closed under adding an
\* element of S has every subset of S.
LEMMA SubsetInduction ==
  ASSUME NEW S, IsFiniteSet(S), NEW P, {} \in P,
         \A s \in SUBSET S : \A x \in S \ s : s \in P => s \cup {x} \in P
  PROVE  \A s \in SUBSET S : s \in P
<1> SUFFICES ASSUME NEW t \in SUBSET S, t \notin P PROVE FALSE
  OBVIOUS
<1> DEFINE N == {Cardinality(s) : s \in {u \in SUBSET S : u \notin P}}
<1>1. \A s \in SUBSET S : IsFiniteSet(s) /\ Cardinality(s) \in Nat
  BY FS_Subset, FS_CardinalityType
<1>2. N \in SUBSET Nat /\ N # {}
  BY <1>1
<1> HIDE DEF N
<1>3. PICK n \in N : \A m \in N : n <= m
  BY <1>2, LeastElement
<1>4. PICK s \in SUBSET S : s \notin P /\ n = Cardinality(s)
  BY <1>3 DEF N
<1>5. PICK x : x \in s
  BY <1>4
<1>6. Cardinality(s \ {x}) = Cardinality(s) - 1
  BY <1>1, <1>5, FS_RemoveElement
<1>7. s \ {x} \in P
  <2>1. ~(n <= Cardinality(s \ {x}))
    BY <1>1, <1>4, <1>6
  <2> QED BY <1>3, <2>1 DEF N
<1>8. (s \ {x}) \cup {x} = s
  BY <1>5
<1> QED BY <1>4, <1>5, <1>7, <1>8

-------------------------------------------------------------------------------
(* What SumFunctionOnSet computes.  It is the value at S of a function chosen  *)
(* to satisfy the recursion that takes one element at a time; such a function  *)
(* exists and is unique, and does not depend on which element is taken.        *)

Pick(s)          == CHOOSE x \in s : TRUE
SumStep(f, g, s) == IF s = {} THEN 0 ELSE f[Pick(s)] + g[s \ {Pick(s)}]
Iter(f, S)       == CHOOSE g : g = [s \in SUBSET S |-> SumStep(f, g, s)]

LEMMA SumIsIter ==
  ASSUME NEW f, NEW S PROVE SumFunctionOnSet(f, S) = Iter(f, S)[S]
BY DEF SumFunctionOnSet, FoldFunctionOnSet, MapThenFoldSet, Iter, SumStep, Pick

\* g[s] is the sum of f over s, for each s in SUBSET S.
IsSum(f, S, g) ==
  /\ g \in [SUBSET S -> Int] /\ g[{}] = 0
  /\ \A s \in SUBSET S : \A x \in s : g[s] = f[x] + g[s \ {x}]

LEMMA SumExists ==
  ASSUME NEW S, IsFiniteSet(S), NEW f, \A x \in S : f[x] \in Int
  PROVE  \E g : IsSum(f, S, g)
<1> DEFINE P == {s \in SUBSET S : \E g : IsSum(f, s, g)}
<1>1. {} \in P
  <2>1. IsSum(f, {}, [s \in SUBSET {} |-> 0])
    BY DEF IsSum
  <2> QED BY <2>1
<1>2. ASSUME NEW t \in SUBSET S, NEW x \in S \ t, t \in P PROVE t \cup {x} \in P
  <2>1. PICK g : IsSum(f, t, g)
    BY <1>2
  <2> DEFINE u == t \cup {x}
             h == [s \in SUBSET u |-> IF x \in s THEN f[x] + g[s \ {x}] ELSE g[s]]
  <2>2. \A s \in SUBSET u : s \ {x} \in SUBSET t /\ (x \notin s => s \in SUBSET t)
    OBVIOUS
  <2>3. h \in [SUBSET u -> Int]
    BY <2>1, <2>2 DEF IsSum
  <2>4. h[{}] = 0
    BY <2>1 DEF IsSum
  <2>5. ASSUME NEW s \in SUBSET u, NEW y \in s PROVE h[s] = f[y] + h[s \ {y}]
    <3>1. s \ {y} \in SUBSET u /\ f[x] \in Int /\ f[y] \in Int
      OBVIOUS
    <3>2. CASE y = x
      <4>1. h[s] = f[x] + g[s \ {x}] /\ h[s \ {x}] = g[s \ {x}]
        BY <3>1, <3>2
      <4> QED BY <3>2, <4>1
    <3>3. CASE y # x /\ x \in s
      <4>1. y \in s \ {x} /\ s \ {x} \in SUBSET t
        BY <2>2, <3>3
      <4>2. g[s \ {x}] = f[y] + g[(s \ {x}) \ {y}]
        BY <2>1, <4>1 DEF IsSum
      <4>3. (s \ {x}) \ {y} = (s \ {y}) \ {x} /\ x \in s \ {y}
        BY <3>3
      <4>4. h[s] = f[x] + g[s \ {x}] /\ h[s \ {y}] = f[x] + g[(s \ {y}) \ {x}]
        BY <3>1, <3>3, <4>3
      <4>5. g[(s \ {y}) \ {x}] \in Int
        BY <2>1, <2>2, <3>1 DEF IsSum
      <4>6. g[s \ {x}] = f[y] + g[(s \ {y}) \ {x}]
        BY <4>2, <4>3
      <4> HIDE DEF h, u
      <4> QED BY <3>1, <4>4, <4>5, <4>6
    <3>4. CASE x \notin s
      <4>1. s \in SUBSET t /\ h[s] = g[s] /\ h[s \ {y}] = g[s \ {y}]
        BY <2>2, <3>1, <3>4
      <4> QED BY <2>1, <4>1 DEF IsSum
    <3> QED BY <3>2, <3>3, <3>4
  <2>6. IsSum(f, u, h)
    <3> HIDE DEF h
    <3> QED BY <2>3, <2>4, <2>5 DEF IsSum
  <2> QED BY <2>6
<1> HIDE DEF P
<1>3. S \in P
  BY <1>1, <1>2, SubsetInduction
<1> QED BY <1>3 DEF P

LEMMA SumUnique ==
  ASSUME NEW S, IsFiniteSet(S), NEW f, NEW g, IsSum(f, S, g)
  PROVE  SumFunctionOnSet(f, S) = g[S]
<1> DEFINE k == Iter(f, S)
<1>1. g = [s \in SUBSET S |-> SumStep(f, g, s)]
  <2>1. ASSUME NEW s \in SUBSET S PROVE g[s] = SumStep(f, g, s)
    <3>1. CASE s = {}
      BY <3>1 DEF IsSum, SumStep
    <3>2. CASE s # {}
      <4>1. Pick(s) \in s
        BY <3>2 DEF Pick
      <4> QED BY <3>2, <4>1 DEF IsSum, SumStep
    <3> QED BY <3>1, <3>2
  <2>2. g = [s \in SUBSET S |-> g[s]]
    BY DEF IsSum
  <2> QED BY <2>1, <2>2
<1>2. k = [s \in SUBSET S |-> SumStep(f, k, s)]
  BY <1>1 DEF Iter
<1> HIDE DEF k
<1>3. \A s \in SUBSET S : IsFiniteSet(s) /\ Cardinality(s) \in Nat
  BY FS_Subset, FS_CardinalityType
<1>4. k[S] = g[S]
  <2> SUFFICES ASSUME k[S] # g[S] PROVE FALSE
    OBVIOUS
  <2> DEFINE N == {Cardinality(s) : s \in {u \in SUBSET S : k[u] # g[u]}}
  <2>1. N \in SUBSET Nat /\ N # {}
    BY <1>3
  <2> HIDE DEF N
  <2>2. PICK n \in N : \A m \in N : n <= m
    BY <2>1, LeastElement
  <2>3. PICK s \in SUBSET S : k[s] # g[s] /\ n = Cardinality(s)
    BY <2>2 DEF N
  <2>4. k[s] = SumStep(f, k, s) /\ g[s] = SumStep(f, g, s)
    BY <1>1, <1>2
  <2>5. s # {}
    BY <2>3, <2>4 DEF SumStep
  <2>6. Pick(s) \in s
    BY <2>5 DEF Pick
  <2>7. Cardinality(s \ {Pick(s)}) = Cardinality(s) - 1
    BY <1>3, <2>6, FS_RemoveElement
  <2>8. ~(n <= Cardinality(s \ {Pick(s)}))
    BY <1>3, <2>3, <2>7
  <2>9. k[s \ {Pick(s)}] = g[s \ {Pick(s)}]
    BY <2>2, <2>8 DEF N
  <2> QED BY <2>3, <2>4, <2>9 DEF SumStep
<1> QED BY <1>4, SumIsIter DEF k

LEMMA SumRestrict ==
  ASSUME NEW S, NEW f, NEW g, IsSum(f, S, g), NEW T \in SUBSET S
  PROVE  IsSum(f, T, [s \in SUBSET T |-> g[s]])
<1> DEFINE h == [s \in SUBSET T |-> g[s]]
<1>1. \A s \in SUBSET T : s \in SUBSET S /\ h[s] = g[s]
  OBVIOUS
<1>2. h \in [SUBSET T -> Int] /\ h[{}] = 0
  BY <1>1 DEF IsSum
<1>3. ASSUME NEW s \in SUBSET T, NEW x \in s PROVE h[s] = f[x] + h[s \ {x}]
  <2>1. s \ {x} \in SUBSET T
    OBVIOUS
  <2> HIDE DEF h
  <2> QED BY <1>1, <2>1 DEF IsSum
<1> HIDE DEF h
<1>4. IsSum(f, T, h)
  BY <1>2, <1>3 DEF IsSum
<1> QED BY <1>4 DEF h

-------------------------------------------------------------------------------
(* The laws of sums *)

LEMMA SumEmpty == ASSUME NEW f PROVE SumFunctionOnSet(f, {}) = 0
<1>1. PICK g : IsSum(f, {}, g)
  BY SumExists, FS_EmptySet
<1> QED BY <1>1, SumUnique, FS_EmptySet DEF IsSum

LEMMA SumType ==
  ASSUME NEW S, IsFiniteSet(S), NEW f, \A x \in S : f[x] \in Int
  PROVE  SumFunctionOnSet(f, S) \in Int
<1>1. PICK g : IsSum(f, S, g)
  BY SumExists
<1>2. g[S] \in Int
  BY <1>1 DEF IsSum
<1> QED BY <1>1, <1>2, SumUnique

LEMMA SumRemove ==
  ASSUME NEW S, IsFiniteSet(S), NEW f, \A x \in S : f[x] \in Int, NEW x \in S
  PROVE  SumFunctionOnSet(f, S) = f[x] + SumFunctionOnSet(f, S \ {x})
<1>1. PICK g : IsSum(f, S, g)
  BY SumExists
<1>2. IsFiniteSet(S \ {x}) /\ S \ {x} \in SUBSET S
  BY FS_RemoveElement
<1>3. IsSum(f, S \ {x}, [s \in SUBSET (S \ {x}) |-> g[s]])
  BY <1>1, <1>2, SumRestrict
<1>4. SumFunctionOnSet(f, S \ {x}) = g[S \ {x}]
  BY <1>2, <1>3, SumUnique
<1>5. g[S] = f[x] + g[S \ {x}]
  BY <1>1 DEF IsSum
<1>6. SumFunctionOnSet(f, S) = g[S]
  BY <1>1, SumUnique
<1> QED BY <1>4, <1>5, <1>6

LEMMA SumAdd ==
  ASSUME NEW S, IsFiniteSet(S), NEW f, NEW x, x \notin S, f[x] \in Int,
         \A y \in S : f[y] \in Int
  PROVE  SumFunctionOnSet(f, S \cup {x}) = f[x] + SumFunctionOnSet(f, S)
<1>1. IsFiniteSet(S \cup {x}) /\ (S \cup {x}) \ {x} = S
  BY FS_AddElement
<1>2. \A y \in S \cup {x} : f[y] \in Int
  OBVIOUS
<1> QED BY <1>1, <1>2, SumRemove

LEMMA SumEqual ==
  ASSUME NEW S, IsFiniteSet(S), NEW f, NEW g, \A x \in S : f[x] \in Int /\ g[x] = f[x]
  PROVE  SumFunctionOnSet(g, S) = SumFunctionOnSet(f, S)
<1> DEFINE P == {s \in SUBSET S : SumFunctionOnSet(g, s) = SumFunctionOnSet(f, s)}
<1>1. {} \in P
  BY SumEmpty
<1>2. ASSUME NEW s \in SUBSET S, NEW x \in S \ s, s \in P PROVE s \cup {x} \in P
  <2>1. IsFiniteSet(s)
    BY FS_Subset
  <2>2. SumFunctionOnSet(f, s \cup {x}) = f[x] + SumFunctionOnSet(f, s)
    BY <2>1, SumAdd
  <2>3. SumFunctionOnSet(g, s \cup {x}) = g[x] + SumFunctionOnSet(g, s)
    BY <2>1, SumAdd
  <2> QED BY <1>2, <2>2, <2>3
<1> HIDE DEF P
<1>3. S \in P
  BY <1>1, <1>2, SubsetInduction
<1> QED BY <1>3 DEF P

LEMMA SumMonotone ==
  ASSUME NEW S, IsFiniteSet(S), NEW f, NEW g,
         \A x \in S : f[x] \in Int /\ g[x] \in Int /\ f[x] <= g[x]
  PROVE  SumFunctionOnSet(f, S) <= SumFunctionOnSet(g, S)
<1> DEFINE P == {s \in SUBSET S : SumFunctionOnSet(f, s) <= SumFunctionOnSet(g, s)}
<1>1. {} \in P
  BY SumEmpty
<1>2. ASSUME NEW s \in SUBSET S, NEW x \in S \ s, s \in P PROVE s \cup {x} \in P
  <2>1. IsFiniteSet(s)
    BY FS_Subset
  <2>2. SumFunctionOnSet(f, s \cup {x}) = f[x] + SumFunctionOnSet(f, s)
    BY <2>1, SumAdd
  <2>3. SumFunctionOnSet(g, s \cup {x}) = g[x] + SumFunctionOnSet(g, s)
    BY <2>1, SumAdd
  <2>4. SumFunctionOnSet(f, s) \in Int /\ SumFunctionOnSet(g, s) \in Int
    BY <2>1, SumType
  <2>5. SumFunctionOnSet(f, s) <= SumFunctionOnSet(g, s) /\ f[x] <= g[x]
    BY <1>2
  <2>6. SumFunctionOnSet(f, s \cup {x}) <= SumFunctionOnSet(g, s \cup {x})
    BY <2>2, <2>3, <2>4, <2>5
  <2> QED BY <2>6
<1> HIDE DEF P
<1>3. S \in P
  BY <1>1, <1>2, SubsetInduction
<1> QED BY <1>3 DEF P

LEMMA SumZeros ==
  ASSUME NEW S, IsFiniteSet(S), NEW f, \A x \in S : f[x] = 0
  PROVE  SumFunctionOnSet(f, S) = 0
<1> DEFINE P == {s \in SUBSET S : SumFunctionOnSet(f, s) = 0}
<1>1. {} \in P
  BY SumEmpty
<1>2. ASSUME NEW s \in SUBSET S, NEW x \in S \ s, s \in P PROVE s \cup {x} \in P
  <2>1. IsFiniteSet(s)
    BY FS_Subset
  <2>2. \A y \in S : f[y] \in Int
    OBVIOUS
  <2>3. SumFunctionOnSet(f, s \cup {x}) = f[x] + SumFunctionOnSet(f, s)
    BY <2>1, <2>2, SumAdd
  <2> QED BY <1>2, <2>3
<1> HIDE DEF P
<1>3. S \in P
  BY <1>1, <1>2, SubsetInduction
<1> QED BY <1>3 DEF P

LEMMA SumNat ==
  ASSUME NEW S, IsFiniteSet(S), NEW f, \A x \in S : f[x] \in Nat
  PROVE  SumFunctionOnSet(f, S) \in Nat
<1> DEFINE z == [x \in S |-> 0]
<1>1. SumFunctionOnSet(f, S) \in Int
  BY SumType
<1>2. SumFunctionOnSet(z, S) = 0
  BY SumZeros
<1>3. SumFunctionOnSet(z, S) <= SumFunctionOnSet(f, S)
  <2>1. \A x \in S : z[x] \in Int /\ f[x] \in Int /\ z[x] <= f[x]
    OBVIOUS
  <2> HIDE DEF z
  <2> QED BY <2>1, SumMonotone
<1> HIDE DEF z
<1> QED BY <1>1, <1>2, <1>3

LEMMA SumPlus ==
  ASSUME NEW S, IsFiniteSet(S), NEW f, NEW g, NEW h,
         \A x \in S : f[x] \in Int /\ g[x] \in Int /\ h[x] = f[x] + g[x]
  PROVE  SumFunctionOnSet(h, S) = SumFunctionOnSet(f, S) + SumFunctionOnSet(g, S)
<1> DEFINE P == {s \in SUBSET S :
                  SumFunctionOnSet(h, s) = SumFunctionOnSet(f, s) + SumFunctionOnSet(g, s)}
<1>1. {} \in P
  BY SumEmpty
<1>2. ASSUME NEW s \in SUBSET S, NEW x \in S \ s, s \in P PROVE s \cup {x} \in P
  <2>1. IsFiniteSet(s)
    BY FS_Subset
  <2>2. SumFunctionOnSet(f, s \cup {x}) = f[x] + SumFunctionOnSet(f, s)
    BY <2>1, SumAdd
  <2>3. SumFunctionOnSet(g, s \cup {x}) = g[x] + SumFunctionOnSet(g, s)
    BY <2>1, SumAdd
  <2>4. SumFunctionOnSet(h, s \cup {x}) = h[x] + SumFunctionOnSet(h, s)
    <3>1. \A y \in S : h[y] \in Int
      OBVIOUS
    <3> QED BY <2>1, <3>1, SumAdd
  <2>5. SumFunctionOnSet(f, s) \in Int /\ SumFunctionOnSet(g, s) \in Int
    BY <2>1, SumType
  <2>6. /\ SumFunctionOnSet(h, s) = SumFunctionOnSet(f, s) + SumFunctionOnSet(g, s)
        /\ f[x] \in Int /\ g[x] \in Int /\ h[x] = f[x] + g[x]
    BY <1>2
  <2>7. SumFunctionOnSet(h, s \cup {x})
          = SumFunctionOnSet(f, s \cup {x}) + SumFunctionOnSet(g, s \cup {x})
    BY <2>2, <2>3, <2>4, <2>5, <2>6
  <2> QED BY <2>7
<1> HIDE DEF P
<1>3. S \in P
  BY <1>1, <1>2, SubsetInduction
<1> QED BY <1>3 DEF P

LEMMA SumUnion ==
  ASSUME NEW S, IsFiniteSet(S), NEW T, IsFiniteSet(T), S \cap T = {},
         NEW f, \A x \in S \cup T : f[x] \in Int
  PROVE  SumFunctionOnSet(f, S \cup T) = SumFunctionOnSet(f, S) + SumFunctionOnSet(f, T)
<1> DEFINE Q(t) == SumFunctionOnSet(f, S \cup t) = SumFunctionOnSet(f, S) + SumFunctionOnSet(f, t)
           P == {t \in SUBSET T : Q(t)}
<1>0. SumFunctionOnSet(f, S) \in Int
  BY SumType
<1>1. {} \in P
  <2>1. S \cup {} = S
    OBVIOUS
  <2> QED BY <1>0, <2>1, SumEmpty
<1>2. ASSUME NEW t \in SUBSET T, NEW x \in T \ t, t \in P PROVE t \cup {x} \in P
  <2>1. IsFiniteSet(t) /\ IsFiniteSet(S \cup t)
    BY FS_Subset, FS_Union
  <2>2. SumFunctionOnSet(f, t \cup {x}) = f[x] + SumFunctionOnSet(f, t)
    BY <2>1, SumAdd
  <2>3. SumFunctionOnSet(f, (S \cup t) \cup {x}) = f[x] + SumFunctionOnSet(f, S \cup t)
    <3>1. x \notin S \cup t /\ \A y \in S \cup t : f[y] \in Int
      OBVIOUS
    <3> QED BY <2>1, <3>1, SumAdd
  <2>4. SumFunctionOnSet(f, S \cup (t \cup {x})) = SumFunctionOnSet(f, (S \cup t) \cup {x})
    <3>1. S \cup (t \cup {x}) = (S \cup t) \cup {x}
      OBVIOUS
    <3> QED BY <3>1, Zenon
  <2>5. SumFunctionOnSet(f, t) \in Int /\ f[x] \in Int
    BY <2>1, SumType
  <2>6. SumFunctionOnSet(f, S \cup t) = SumFunctionOnSet(f, S) + SumFunctionOnSet(f, t)
    BY <1>2
  <2>7. Q(t \cup {x})
    BY <1>0, <2>2, <2>3, <2>4, <2>5, <2>6
  <2>8. t \cup {x} \in SUBSET T
    OBVIOUS
  <2> HIDE DEF Q
  <2> QED BY <2>7, <2>8
<1> HIDE DEF P
<1>3. T \in P
  BY <1>1, <1>2, SubsetInduction
<1> QED BY <1>3 DEF P

\* The sum over the union V of disjoint sets W[c] is the sum of their sums h[c].
IsUnion(W, C, V) == \A x : x \in V <=> \E c \in C : x \in W[c]

LEMMA SumFamily ==
  ASSUME NEW C, IsFiniteSet(C), NEW W, NEW f, NEW h, NEW V, IsUnion(W, C, V),
         \A c \in C : /\ IsFiniteSet(W[c]) /\ h[c] = SumFunctionOnSet(f, W[c])
                      /\ \A x \in W[c] : f[x] \in Int
                      /\ \A d \in C : c # d => W[c] \cap W[d] = {}
  PROVE  IsFiniteSet(V) /\ SumFunctionOnSet(f, V) = SumFunctionOnSet(h, C)
<1> DEFINE U(s) == UNION {W[c] : c \in s}
           Q(s) == IsFiniteSet(U(s)) /\ SumFunctionOnSet(f, U(s)) = SumFunctionOnSet(h, s)
           P == {s \in SUBSET C : Q(s)}
<1>1. {} \in P
  <2>1. U({}) = {}
    OBVIOUS
  <2> HIDE DEF U
  <2> QED BY <2>1, SumEmpty, FS_EmptySet
<1>2. ASSUME NEW s \in SUBSET C, NEW x \in C \ s, s \in P PROVE s \cup {x} \in P
  <2>1. IsFiniteSet(s)
    BY FS_Subset
  <2>2. \A c \in C : h[c] \in Int
    BY SumType
  <2>3. SumFunctionOnSet(h, s \cup {x}) = h[x] + SumFunctionOnSet(h, s)
    BY <2>1, <2>2, SumAdd
  <2>4. IsFiniteSet(U(s)) /\ SumFunctionOnSet(f, U(s)) = SumFunctionOnSet(h, s)
    BY <1>2
  <2>5. U(s \cup {x}) = W[x] \cup U(s) /\ W[x] \cap U(s) = {}
    OBVIOUS
  <2>6. \A y \in W[x] \cup U(s) : f[y] \in Int
    OBVIOUS
  <2> HIDE DEF U
  <2>7. SumFunctionOnSet(f, W[x] \cup U(s)) = SumFunctionOnSet(f, W[x]) + SumFunctionOnSet(f, U(s))
    BY <2>4, <2>5, <2>6, SumUnion
  <2>8. SumFunctionOnSet(f, U(s \cup {x})) = SumFunctionOnSet(h, s \cup {x})
    BY <2>3, <2>4, <2>5, <2>7
  <2>9. IsFiniteSet(U(s \cup {x}))
    <3>1. IsFiniteSet(W[x] \cup U(s))
      BY <2>4, FS_Union
    <3> QED BY <2>5, <3>1
  <2>10. Q(s \cup {x}) /\ s \cup {x} \in SUBSET C
    BY <2>8, <2>9
  <2> HIDE DEF Q
  <2> QED BY <2>10
<1>3. C \in P
  <2> HIDE DEF P
  <2> QED BY <1>1, <1>2, SubsetInduction
<1>4. U(C) = V
  BY DEF IsUnion
<1> HIDE DEF U
<1> QED BY <1>3, <1>4

\* W[s] has the elements x of X for which q[x] is s.
IsPartition(W, X, q, N) == \A s \in N : \A x : x \in W[s] <=> x \in X /\ q[x] = s

\* A sum over X, collected by the value q[x] of its elements.
LEMMA SumPartition ==
  ASSUME NEW X, IsFiniteSet(X), NEW N, IsFiniteSet(N), NEW q, NEW W, IsPartition(W, X, q, N), NEW f, NEW h,
         \A x \in X : q[x] \in N /\ f[x] \in Int,
         \A s \in N : h[s] = SumFunctionOnSet(f, W[s])
  PROVE  SumFunctionOnSet(f, X) = SumFunctionOnSet(h, N)
<1>1. ASSUME NEW s \in N
      PROVE  /\ IsFiniteSet(W[s]) /\ h[s] = SumFunctionOnSet(f, W[s])
             /\ \A x \in W[s] : f[x] \in Int
             /\ \A d \in N : s # d => W[s] \cap W[d] = {}
  <2>1. W[s] \in SUBSET X
    BY DEF IsPartition
  <2>2. IsFiniteSet(W[s])
    BY <2>1, FS_Subset
  <2>3. \A d \in N : s # d => W[s] \cap W[d] = {}
    BY DEF IsPartition
  <2> QED BY <2>1, <2>2, <2>3
<1>2. IsUnion(W, N, X)
  BY DEF IsUnion, IsPartition
<1> QED BY <1>1, <1>2, SumFamily

\* A table f with its transpose t, the sums r of its rows and c of its columns.
IsTable(A, B, f, t, r, c) ==
  /\ \A a \in A : \A b \in B : f[a][b] \in Int /\ t[b][a] = f[a][b]
  /\ \A a \in A : r[a] = SumFunctionOnSet(f[a], B)
  /\ \A b \in B : c[b] = SumFunctionOnSet(t[b], A)

\* A double sum, by rows r or by columns c.
LEMMA SumSwap ==
  ASSUME NEW A, IsFiniteSet(A), NEW B, IsFiniteSet(B), NEW f, NEW t, NEW r, NEW c,
         IsTable(A, B, f, t, r, c)
  PROVE  SumFunctionOnSet(r, A) = SumFunctionOnSet(c, B)
<1>0. /\ \A a \in A : \A b \in B : f[a][b] \in Int /\ t[b][a] = f[a][b]
      /\ \A a \in A : r[a] = SumFunctionOnSet(f[a], B)
      /\ \A b \in B : c[b] = SumFunctionOnSet(t[b], A)
  BY DEF IsTable
<1> DEFINE col(s) == [b \in B |-> SumFunctionOnSet(t[b], s)]
           Q(s) == SumFunctionOnSet(r, s) = SumFunctionOnSet(col(s), B)
           P == {s \in SUBSET A : Q(s)}
<1>1. {} \in P
  <2>1. \A b \in B : col({})[b] = 0
    BY SumEmpty
  <2> HIDE DEF col
  <2>2. SumFunctionOnSet(col({}), B) = 0
    BY <2>1, SumZeros
  <2> QED BY <2>2, SumEmpty
<1>2. ASSUME NEW s \in SUBSET A, NEW x \in A \ s, s \in P PROVE s \cup {x} \in P
  <2>1. IsFiniteSet(s)
    BY FS_Subset
  <2>2. \A a \in A : r[a] \in Int
    BY <1>0, SumType
  <2>3. SumFunctionOnSet(r, s \cup {x}) = r[x] + SumFunctionOnSet(r, s)
    BY <2>1, <2>2, SumAdd
  <2>4. \A b \in B : /\ f[x][b] \in Int /\ col(s)[b] \in Int
                     /\ col(s \cup {x})[b] = f[x][b] + col(s)[b]
    <3> SUFFICES ASSUME NEW b \in B
                 PROVE  /\ f[x][b] \in Int /\ col(s)[b] \in Int
                        /\ col(s \cup {x})[b] = f[x][b] + col(s)[b]
      OBVIOUS
    <3>1. \A a \in s \cup {x} : t[b][a] \in Int /\ t[b][a] = f[a][b]
      BY <1>0
    <3>2. SumFunctionOnSet(t[b], s \cup {x}) = t[b][x] + SumFunctionOnSet(t[b], s)
      BY <2>1, <3>1, SumAdd
    <3>3. SumFunctionOnSet(t[b], s) \in Int
      BY <2>1, <3>1, SumType
    <3> QED BY <3>1, <3>2, <3>3
  <2>5. Q(s)
    BY <1>2
  <2> HIDE DEF col
  <2>6. SumFunctionOnSet(col(s \cup {x}), B)
          = SumFunctionOnSet(f[x], B) + SumFunctionOnSet(col(s), B)
    <3> DEFINE F == f[x]
               G == col(s)
               H == col(s \cup {x})
    <3>1. \A b \in B : F[b] \in Int /\ G[b] \in Int /\ H[b] = F[b] + G[b]
      BY <2>4
    <3> HIDE DEF F, G, H, P, Q
    <3>2. SumFunctionOnSet(H, B) = SumFunctionOnSet(F, B) + SumFunctionOnSet(G, B)
      BY <3>1, SumPlus
    <3> QED BY <3>2 DEF F, G, H
  <2>7. Q(s \cup {x}) /\ s \cup {x} \in SUBSET A
    BY <1>0, <2>3, <2>5, <2>6
  <2> HIDE DEF Q
  <2> QED BY <2>7
<1>3. A \in P
  <2> HIDE DEF P
  <2> QED BY <1>1, <1>2, SubsetInduction
<1>4. \A b \in B : c[b] \in Int /\ col(A)[b] = c[b]
  BY <1>0, SumType
<1>5. Q(A)
  BY <1>3
<1> HIDE DEF col
<1>6. SumFunctionOnSet(col(A), B) = SumFunctionOnSet(c, B)
  BY <1>4, SumEqual
<1> QED BY <1>5, <1>6

\* A sum whose elements are renamed by p, one to one.
IsRenaming(p, S, T) ==
  /\ \A x, y \in S : p[x] = p[y] => x = y
  /\ \A y : y \in T <=> \E x \in S : y = p[x]

LEMMA SumImage ==
  ASSUME NEW S, IsFiniteSet(S), NEW T, NEW p, NEW f, NEW g, IsRenaming(p, S, T),
         \A x \in S : f[x] \in Int /\ g[p[x]] = f[x]
  PROVE  IsFiniteSet(T) /\ SumFunctionOnSet(g, T) = SumFunctionOnSet(f, S)
<1> DEFINE I(s) == {p[x] : x \in s}
           Q(s) == IsFiniteSet(I(s)) /\ SumFunctionOnSet(g, I(s)) = SumFunctionOnSet(f, s)
           P == {s \in SUBSET S : Q(s)}
<1>1. {} \in P
  <2>1. I({}) = {}
    OBVIOUS
  <2> HIDE DEF I
  <2> QED BY <2>1, SumEmpty, FS_EmptySet
<1>2. ASSUME NEW s \in SUBSET S, NEW x \in S \ s, s \in P PROVE s \cup {x} \in P
  <2>1. IsFiniteSet(s)
    BY FS_Subset
  <2>2. SumFunctionOnSet(f, s \cup {x}) = f[x] + SumFunctionOnSet(f, s)
    BY <2>1, SumAdd
  <2>3. I(s \cup {x}) = I(s) \cup {p[x]} /\ p[x] \notin I(s)
    BY DEF IsRenaming
  <2>4. \A y \in I(s) : g[y] \in Int
    OBVIOUS
  <2>5. IsFiniteSet(I(s)) /\ SumFunctionOnSet(g, I(s)) = SumFunctionOnSet(f, s)
    BY <1>2
  <2> HIDE DEF I
  <2>6. IsFiniteSet(I(s) \cup {p[x]})
    BY <2>5, FS_AddElement
  <2>7. SumFunctionOnSet(g, I(s) \cup {p[x]}) = g[p[x]] + SumFunctionOnSet(g, I(s))
    BY <2>3, <2>4, <2>5, SumAdd
  <2>8. Q(s \cup {x}) /\ s \cup {x} \in SUBSET S
    BY <2>2, <2>3, <2>5, <2>6, <2>7
  <2> HIDE DEF Q
  <2> QED BY <2>8
<1>3. S \in P
  <2> HIDE DEF P
  <2> QED BY <1>1, <1>2, SubsetInduction
<1>4. I(S) = T
  BY DEF IsRenaming
<1> HIDE DEF I
<1> QED BY <1>3, <1>4

\* A sum of ones counts.
LEMMA SumOnes ==
  ASSUME NEW S, IsFiniteSet(S), NEW f, \A x \in S : f[x] = 1
  PROVE  SumFunctionOnSet(f, S) = Cardinality(S)
<1> DEFINE P == {s \in SUBSET S : SumFunctionOnSet(f, s) = Cardinality(s)}
<1>1. {} \in P
  BY SumEmpty, FS_EmptySet
<1>2. ASSUME NEW s \in SUBSET S, NEW x \in S \ s, s \in P PROVE s \cup {x} \in P
  <2>1. IsFiniteSet(s)
    BY FS_Subset
  <2>2. \A y \in S : f[y] \in Int
    OBVIOUS
  <2>3. SumFunctionOnSet(f, s \cup {x}) = 1 + SumFunctionOnSet(f, s)
    BY <2>1, <2>2, SumAdd
  <2>4. Cardinality(s \cup {x}) = Cardinality(s) + 1 /\ Cardinality(s) \in Nat
    BY <2>1, FS_AddElement, FS_CardinalityType
  <2> QED BY <1>2, <2>3, <2>4
<1> HIDE DEF P
<1>3. S \in P
  BY <1>1, <1>2, SubsetInduction
<1> QED BY <1>3 DEF P

\* Disjoint sets W[c] have h[c] members each, and their union V has the sum of these.
LEMMA CountFamily ==
  ASSUME NEW C, IsFiniteSet(C), NEW W, NEW h, NEW V, IsUnion(W, C, V),
         \A c \in C : /\ IsFiniteSet(W[c]) /\ h[c] = Cardinality(W[c])
                      /\ \A d \in C : c # d => W[c] \cap W[d] = {}
  PROVE  IsFiniteSet(V) /\ Cardinality(V) = SumFunctionOnSet(h, C)
<1> DEFINE f == [x \in V |-> 1]
<1>1. \A c \in C : \A x \in W[c] : f[x] = 1
  BY DEF IsUnion
<1>2. \A x \in V : f[x] = 1
  OBVIOUS
<1> HIDE DEF f
<1>3. \A c \in C : h[c] = SumFunctionOnSet(f, W[c])
  BY <1>1, SumOnes
<1>4. \A c \in C : \A x \in W[c] : f[x] \in Int
  BY <1>1
<1>5. IsFiniteSet(V) /\ SumFunctionOnSet(f, V) = SumFunctionOnSet(h, C)
  BY <1>3, <1>4, SumFamily
<1> QED BY <1>2, <1>5, SumOnes
===============================================================================
