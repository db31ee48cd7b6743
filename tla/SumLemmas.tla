------------------------------ MODULE SumLemmas ------------------------------
(***************************************************************************)
(* What SumFunctionOnSet of the community modules computes, for any finite *)
(* set and any integers: the sum over no argument, the sum without one     *)
(* argument, the sum after a change at one argument and over two disjoint  *)
(* sets.  Its definition is a recursive function over the subsets, whose   *)
(* existence is proved first, by induction over their cardinality.         *)
(***************************************************************************)
EXTENDS Integers, FiniteSets, Functions, FiniteSetTheorems, WellFoundedInduction, TLAPS

\* A set of naturals has a least member.
LEMMA Least == ASSUME NEW T, T \subseteq Nat, T # {} PROVE \E x \in T : \A y \in T : x <= y
<1> DEFINE R == OpToRel(<, Nat)
<1>1. IsWellFoundedOn(R, Nat)
  BY NatLessThanWellFounded
<1>2. \E x \in T : \A y \in T : ~ (<<y, x>> \in R)
  <2> HIDE DEF R
  <2> QED BY <1>1, WFMin
<1>3. \A x, y \in Nat : (<<y, x>> \in R) <=> y < x
  BY DEF OpToRel
<1> HIDE DEF R
<1>4. PICK x \in T : \A y \in T : ~ (<<y, x>> \in R)
  BY <1>2, Zenon
<1>5. ASSUME NEW y \in T PROVE x <= y
  <2>1. x \in Nat /\ y \in Nat
    OBVIOUS
  <2>2. ~ (<<y, x>> \in R)
    BY <1>4
  <2>3. ~ (y < x)
    BY <2>1, <2>2, <1>3, Zenon
  <2> QED BY <2>1, <2>3
<1> QED BY <1>5

\* Induction over a set of naturals.
LEMMA Naturals ==
  ASSUME NEW P, P \subseteq Nat, 0 \in P, \A n \in P : n + 1 \in P
  PROVE  P = Nat
<1> SUFFICES ASSUME Nat \ P # {} PROVE FALSE
  OBVIOUS
<1>1. PICK m \in Nat \ P : \A y \in Nat \ P : m <= y
  BY Least
<1>2. m - 1 \in Nat
  BY <1>1
<1>3. m - 1 \in P
  BY <1>1, <1>2
<1> QED
  BY <1>1, <1>3

\* What a set gives up first when its members are added.
First(s) == CHOOSE x \in s : TRUE

\* The recursive function SumFunctionOnSet is defined by.
IsFold(g, f, S) ==
  g = [s \in SUBSET S |-> IF s = {} THEN 0 ELSE f[First(s)] + g[s \ {First(s)}]]

\* SumFunctionOnSet picks such a function.
LEMMA SumIsFold ==
  ASSUME NEW f, NEW S
  PROVE  SumFunctionOnSet(f, S) = (CHOOSE g : IsFold(g, f, S))[S]
BY Zenon DEF SumFunctionOnSet, FoldFunctionOnSet, MapThenFoldSet, IsFold, First

\* Take a member away: one less.
LEMMA OneLess ==
  ASSUME NEW s, IsFiniteSet(s), s # {}
  PROVE  /\ First(s) \in s /\ IsFiniteSet(s \ {First(s)})
         /\ Cardinality(s) \in Nat \ {0} /\ Cardinality(s \ {First(s)}) = Cardinality(s) - 1
<1>1. First(s) \in s
  BY DEF First
<1>2. Cardinality(s) \in Nat /\ Cardinality(s) # 0
  BY FS_CardinalityType, FS_EmptySet
<1> QED
  BY <1>1, <1>2, FS_RemoveElement

\* There is such a function for every finite set of integers.
LEMMA FoldExists ==
  ASSUME NEW S, IsFiniteSet(S), NEW f \in [S -> Int]
  PROVE  \E g : IsFold(g, f, S)
<1> DEFINE Small(n) == {s \in SUBSET S : Cardinality(s) <= n}
           Solves(g, n) == \A s \in Small(n) : g[s] = IF s = {} THEN 0 ELSE f[First(s)] + g[s \ {First(s)}]
           P == {n \in Nat : \E g : Solves(g, n)}
<1>0. \A s \in SUBSET S : IsFiniteSet(s) /\ Cardinality(s) \in Nat
  BY FS_Subset, FS_CardinalityType
<1>1. 0 \in P
  <2> DEFINE g == [s \in SUBSET S |-> 0]
  <2>1. \A s \in Small(0) : s = {}
    BY <1>0, FS_EmptySet
  <2>2. Solves(g, 0)
    BY <2>1
  <2> QED
    BY <2>2
<1>2. ASSUME NEW n \in P PROVE n + 1 \in P
  <2>1. PICK g : Solves(g, n)
    OBVIOUS
  <2> DEFINE h == [s \in SUBSET S |-> IF Cardinality(s) <= n THEN g[s]
                                      ELSE f[First(s)] + g[s \ {First(s)}]]
  <2>2. ASSUME NEW s \in Small(n + 1) PROVE h[s] = IF s = {} THEN 0 ELSE f[First(s)] + h[s \ {First(s)}]
    <3>1. CASE s = {}
      <4>1. s \in Small(n)
        BY <3>1, <1>0, FS_EmptySet
      <4> QED BY <4>1, <3>1, <2>1
    <3>2. CASE s # {}
      <4>1. s \ {First(s)} \in SUBSET S /\ Cardinality(s \ {First(s)}) <= n
        BY <3>2, <1>0, OneLess
      <4>2. h[s \ {First(s)}] = g[s \ {First(s)}]
        BY <4>1
      <4>3. CASE Cardinality(s) <= n
        <5>1. g[s] = f[First(s)] + g[s \ {First(s)}]
          BY <4>3, <3>2, <2>1
        <5> QED BY <5>1, <4>2, <4>3, <3>2
      <4>4. CASE ~(Cardinality(s) <= n)
        BY <4>2, <4>4, <3>2
      <4> QED BY <4>3, <4>4
    <3> QED BY <3>1, <3>2
  <2>3. Solves(h, n + 1)
    BY <2>2
  <2> QED
    <3> HIDE DEF h, Solves
    <3> QED BY <2>3
<1>3. P = Nat
  <2> HIDE DEF P
  <2>1. P \subseteq Nat
    BY DEF P
  <2> QED BY <1>1, <1>2, <2>1, Naturals
<1>4. Cardinality(S) \in P
  BY <1>0, <1>3
<1>5. PICK g : Solves(g, Cardinality(S))
  BY <1>4
<1>6. \A s \in SUBSET S : s \in Small(Cardinality(S))
  BY FS_Subset
<1> DEFINE k == [s \in SUBSET S |-> g[s]]
<1>7. \A s \in SUBSET S : k[s] = IF s = {} THEN 0 ELSE f[First(s)] + k[s \ {First(s)}]
  BY <1>5, <1>6
<1>8. IsFold(k, f, S)
  <2>1. k = [s \in SUBSET S |-> k[s]]
    OBVIOUS
  <2> HIDE DEF k
  <2> QED BY <1>7, <2>1 DEF IsFold
<1> QED
  BY <1>8

\* The fold of integers has integers.
LEMMA FoldType ==
  ASSUME NEW S, IsFiniteSet(S), NEW f \in [S -> Int], NEW g, IsFold(g, f, S)
  PROVE  g \in [SUBSET S -> Int]
<1>3. \A s \in SUBSET S : g[s] = IF s = {} THEN 0 ELSE f[First(s)] + g[s \ {First(s)}]
  BY DEF IsFold
<1>4. \A s \in SUBSET S : IsFiniteSet(s) /\ Cardinality(s) \in Nat
  BY FS_Subset, FS_CardinalityType
<1>5. \A n \in Nat : \A s \in SUBSET S : Cardinality(s) <= n => g[s] \in Int
  <2> DEFINE P == {n \in Nat : \A s \in SUBSET S : Cardinality(s) <= n => g[s] \in Int}
  <2>1. 0 \in P
    <3>1. \A s \in SUBSET S : Cardinality(s) <= 0 => s = {}
      BY <1>4, FS_EmptySet
    <3>2. {} \in SUBSET S /\ g[{}] = 0
      BY <1>3
    <3>3. \A s \in SUBSET S : Cardinality(s) <= 0 => g[s] \in Int
      BY <3>1, <3>2
    <3> QED BY <3>3
  <2>2. ASSUME NEW n \in P PROVE n + 1 \in P
    <3> SUFFICES ASSUME NEW s \in SUBSET S, Cardinality(s) <= n + 1, s # {} PROVE g[s] \in Int
      BY SMTT(30), <1>3
    <3>1. First(s) \in s /\ Cardinality(s \ {First(s)}) <= n
      BY <1>4, OneLess
    <3>2. g[s \ {First(s)}] \in Int
      BY <3>1
    <3>3. f[First(s)] \in Int
      BY <3>1
    <3>4. g[s] = f[First(s)] + g[s \ {First(s)}]
      BY <1>3
    <3> QED BY <3>2, <3>3, <3>4
  <2>3. P = Nat
    <3>1. P \subseteq Nat
      OBVIOUS
    <3> HIDE DEF P
    <3> QED BY <2>1, <2>2, <3>1, Naturals
  <2> QED BY <2>3
<1>6. \A s \in SUBSET S : g[s] \in Int
  BY <1>4, <1>5
<1> QED BY <1>6 DEF IsFold

\* The fold of a smaller set agrees, and so does that of a function with the same values.
LEMMA SameFold ==
  ASSUME NEW S, IsFiniteSet(S), NEW f \in [S -> Int], NEW T \in SUBSET S,
         NEW e, \A x \in T : e[x] = f[x],
         NEW g, IsFold(g, f, S), NEW h, IsFold(h, e, T)
  PROVE  \A s \in SUBSET T : h[s] = g[s]
<1>1. \A s \in SUBSET S : IsFiniteSet(s) /\ Cardinality(s) \in Nat
  BY FS_Subset, FS_CardinalityType
<1>2. \A s \in SUBSET S : g[s] = IF s = {} THEN 0 ELSE f[First(s)] + g[s \ {First(s)}]
  BY DEF IsFold
<1>3. \A s \in SUBSET T : h[s] = IF s = {} THEN 0 ELSE e[First(s)] + h[s \ {First(s)}]
  BY DEF IsFold
<1> DEFINE P == {n \in Nat : \A s \in SUBSET T : Cardinality(s) <= n => h[s] = g[s]}
<1>4. 0 \in P
  <2>1. \A s \in SUBSET T : Cardinality(s) <= 0 => s = {}
    BY <1>1, FS_EmptySet
  <2> QED BY <2>1, <1>2, <1>3
<1>5. ASSUME NEW n \in P PROVE n + 1 \in P
  <2>0. h[{}] = 0 /\ g[{}] = 0
    BY <1>2, <1>3
  <2> SUFFICES ASSUME NEW s \in SUBSET T, Cardinality(s) <= n + 1, s # {} PROVE h[s] = g[s]
    BY <2>0
  <2>1. First(s) \in s /\ Cardinality(s \ {First(s)}) <= n
    BY <1>1, OneLess
  <2>2. h[s \ {First(s)}] = g[s \ {First(s)}]
    BY <2>1
  <2> QED BY <2>1, <2>2, <1>2, <1>3
<1>6. P = Nat
  <2>1. P \subseteq Nat
    OBVIOUS
  <2> HIDE DEF P
  <2> QED BY <1>4, <1>5, <2>1, Naturals
<1> QED BY <1>1, <1>6

\* The sums of a function over the sets of its arguments: nothing for no argument, else
\* the value of the first and the sum over the rest.
LEMMA SumRecursion ==
  ASSUME NEW S, IsFiniteSet(S), NEW f \in [S -> Int]
  PROVE  /\ \A T \in SUBSET S : SumFunctionOnSet(f, T) \in Int
         /\ SumFunctionOnSet(f, {}) = 0
         /\ \A T \in SUBSET S : T # {} =>
              SumFunctionOnSet(f, T) = f[First(T)] + SumFunctionOnSet(f, T \ {First(T)})
<1>1. PICK g : IsFold(g, f, S)
  BY FoldExists
<1>2. g \in [SUBSET S -> Int]
  BY <1>1, FoldType
<1>3. ASSUME NEW U \in SUBSET S PROVE SumFunctionOnSet(f, U) = g[U]
  <2>1. IsFiniteSet(U)
    BY FS_Subset
  <2> DEFINE d == [x \in U |-> f[x]]
  <2>2. \E h : IsFold(h, d, U)
    BY <2>1, FoldExists
  <2>3. \A h : IsFold(h, d, U) <=> IsFold(h, f, U)
    <3>1. \A s \in SUBSET U : s # {} => d[First(s)] = f[First(s)]
      BY DEF First
    <3> HIDE DEF d
    <3> QED BY <3>1 DEF IsFold
  <2>4. IsFold(CHOOSE h : IsFold(h, f, U), f, U)
    BY <2>2, <2>3
  <2>5. SumFunctionOnSet(f, U) = (CHOOSE h : IsFold(h, f, U))[U]
    BY SumIsFold
  <2> DEFINE h == CHOOSE h : IsFold(h, f, U)
  <2> HIDE DEF h
  <2>6. IsFold(h, f, U) /\ SumFunctionOnSet(f, U) = h[U]
    BY <2>4, <2>5 DEF h
  <2>7. h[U] = g[U]
    BY <2>6, <1>1, SameFold
  <2> QED BY <2>6, <2>7
<1>4. \A T \in SUBSET S : g[T] = IF T = {} THEN 0 ELSE f[First(T)] + g[T \ {First(T)}]
  BY <1>1 DEF IsFold
<1>5. {} \in SUBSET S /\ g[{}] = 0
  BY <1>4
<1>6. \A T \in SUBSET S : T \ {First(T)} \in SUBSET S
  OBVIOUS
<1> QED BY <1>2, <1>3, <1>4, <1>5, <1>6

\* Functions with the same values have the same sum.
LEMMA SumSame ==
  ASSUME NEW T, IsFiniteSet(T), NEW f, NEW e, \A x \in T : f[x] \in Int /\ e[x] = f[x]
  PROVE  SumFunctionOnSet(f, T) = SumFunctionOnSet(e, T)
<1> DEFINE d == [x \in T |-> f[x]]
<1>1. d \in [T -> Int]
  OBVIOUS
<1>2. \E h : IsFold(h, d, T)
  BY <1>1, FoldExists
<1>3. \A x \in T : d[x] = f[x] /\ d[x] = e[x]
  OBVIOUS
<1> HIDE DEF d
<1>4. \A s \in SUBSET T : s # {} => First(s) \in T
  BY DEF First
<1>5. \A h : IsFold(h, d, T) <=> IsFold(h, f, T)
  BY <1>3, <1>4 DEF IsFold
<1>6. \A h : IsFold(h, d, T) <=> IsFold(h, e, T)
  BY <1>3, <1>4 DEF IsFold
<1>7. SumFunctionOnSet(f, T) = (CHOOSE h : IsFold(h, f, T))[T] /\ SumFunctionOnSet(e, T) = (CHOOSE h : IsFold(h, e, T))[T]
  BY SumIsFold
<1> DEFINE hf == CHOOSE h : IsFold(h, f, T)
           he == CHOOSE h : IsFold(h, e, T)
<1> HIDE DEF hf, he
<1>8. IsFold(hf, d, T) /\ IsFold(he, d, T)
  BY <1>2, <1>5, <1>6 DEF hf, he
<1>9. hf[T] = he[T]
  BY <1>8, <1>1, SameFold
<1> QED BY <1>7, <1>9 DEF hf, he

\* Any argument may be counted first.
LEMMA SumWithout ==
  ASSUME NEW S, IsFiniteSet(S), NEW f \in [S -> Int], NEW T \in SUBSET S, NEW x \in T
  PROVE  SumFunctionOnSet(f, T) = f[x] + SumFunctionOnSet(f, T \ {x})
<1> DEFINE Sum(U) == SumFunctionOnSet(f, U)
<1>1. /\ \A U \in SUBSET S : Sum(U) \in Int
      /\ \A U \in SUBSET S : U # {} => Sum(U) = f[First(U)] + Sum(U \ {First(U)})
  BY SumRecursion
<1> HIDE DEF Sum
<1>2. \A U \in SUBSET S : IsFiniteSet(U) /\ Cardinality(U) \in Nat
  BY FS_Subset, FS_CardinalityType
<1> DEFINE P == {n \in Nat : \A U \in SUBSET S : \A y \in U : Cardinality(U) <= n => Sum(U) = f[y] + Sum(U \ {y})}
<1>3. 0 \in P
  <2>1. \A U \in SUBSET S : Cardinality(U) <= 0 => U = {}
    BY <1>2, FS_EmptySet
  <2> QED BY <2>1
<1>4. ASSUME NEW n \in P PROVE n + 1 \in P
  <2> SUFFICES ASSUME NEW U \in SUBSET S, NEW y \in U, Cardinality(U) <= n + 1
               PROVE  Sum(U) = f[y] + Sum(U \ {y})
    OBVIOUS
  <2> DEFINE a == First(U)
  <2>1. a \in U /\ Cardinality(U \ {a}) <= n
    BY <1>2, OneLess
  <2> HIDE DEF a
  <2>2. Sum(U) = f[a] + Sum(U \ {a})
    BY <1>1 DEF a
  <2>3. CASE y = a
    BY <2>2, <2>3
  <2>4. CASE y # a
    <3>1. Sum(U \ {a}) = f[y] + Sum((U \ {a}) \ {y})
      BY <2>1, <2>4
    <3>2. Cardinality(U \ {y}) <= n
      BY <1>2, FS_RemoveElement
    <3>3. Sum(U \ {y}) = f[a] + Sum((U \ {y}) \ {a})
      BY <2>1, <2>4, <3>2
    <3>4. (U \ {a}) \ {y} = (U \ {y}) \ {a}
      OBVIOUS
    <3>5. f[a] \in Int /\ f[y] \in Int /\ Sum((U \ {y}) \ {a}) \in Int
      BY <1>1, <2>1
    <3> QED BY <2>2, <3>1, <3>3, <3>4, <3>5
  <2> QED BY <2>3, <2>4
<1>5. P = Nat
  <2>1. P \subseteq Nat
    OBVIOUS
  <2> HIDE DEF P
  <2> QED BY <1>3, <1>4, <2>1, Naturals
<1>6. Cardinality(T) \in P
  BY <1>2, <1>5
<1>7. Sum(T) = f[x] + Sum(T \ {x})
  BY <1>6, <1>2
<1> QED BY <1>7 DEF Sum

\* What changes at one argument changes the sum by as much.
LEMMA SumChange ==
  ASSUME NEW S, IsFiniteSet(S), NEW f \in [S -> Int], NEW g \in [S -> Int], NEW x \in S,
         \A y \in S \ {x} : g[y] = f[y]
  PROVE  SumFunctionOnSet(g, S) = SumFunctionOnSet(f, S) - f[x] + g[x]
<1>1. SumFunctionOnSet(g, S) = g[x] + SumFunctionOnSet(g, S \ {x})
  BY SumWithout
<1>2. SumFunctionOnSet(f, S) = f[x] + SumFunctionOnSet(f, S \ {x})
  BY SumWithout
<1>3. SumFunctionOnSet(f, S \ {x}) = SumFunctionOnSet(g, S \ {x})
  <2>1. IsFiniteSet(S \ {x})
    BY FS_Subset
  <2> QED BY <2>1, SumSame
<1>4. f[x] \in Int /\ g[x] \in Int /\ SumFunctionOnSet(f, S \ {x}) \in Int
  BY SumRecursion
<1> QED BY <1>1, <1>2, <1>3, <1>4

\* The sum over two sets that share nothing is the sum of the two.
LEMMA SumDisjoint ==
  ASSUME NEW S, IsFiniteSet(S), NEW f \in [S -> Int], NEW A \in SUBSET S, NEW B \in SUBSET S, A \cap B = {}
  PROVE  SumFunctionOnSet(f, A \cup B) = SumFunctionOnSet(f, A) + SumFunctionOnSet(f, B)
<1> DEFINE Sum(U) == SumFunctionOnSet(f, U)
<1>1. /\ \A U \in SUBSET S : Sum(U) \in Int
      /\ Sum({}) = 0
  BY SumRecursion
<1>2. ASSUME NEW U \in SUBSET S, NEW x \in U PROVE Sum(U) = f[x] + Sum(U \ {x})
  BY SumWithout
<1> HIDE DEF Sum
<1>3. \A U \in SUBSET S : IsFiniteSet(U) /\ Cardinality(U) \in Nat
  BY FS_Subset, FS_CardinalityType
<1> DEFINE P == {n \in Nat : \A U \in SUBSET A : Cardinality(U) <= n => Sum(U \cup B) = Sum(U) + Sum(B)}
<1>4. 0 \in P
  <2>1. \A U \in SUBSET A : Cardinality(U) <= 0 => U = {}
    BY <1>3, FS_EmptySet
  <2>2. Sum({} \cup B) = Sum({}) + Sum(B)
    <3>1. {} \cup B = B
      OBVIOUS
    <3>2. Sum(B) \in Int
      BY <1>1
    <3> QED BY <3>1, <3>2, <1>1
  <2> QED BY <2>1, <2>2
<1>5. ASSUME NEW n \in P PROVE n + 1 \in P
  <2>0. \A U \in SUBSET A : U = {} => Sum(U \cup B) = Sum(U) + Sum(B)
    <3>1. Cardinality({}) <= 0
      BY FS_EmptySet
    <3> QED BY <1>4, <3>1
  <2> SUFFICES \A U \in SUBSET A : Cardinality(U) <= n + 1 /\ U # {} => Sum(U \cup B) = Sum(U) + Sum(B)
    BY <2>0
  <2> TAKE U \in SUBSET A
  <2> HAVE Cardinality(U) <= n + 1 /\ U # {}
  <2>1. PICK x : x \in U
    OBVIOUS
  <2>2. Cardinality(U \ {x}) <= n
    BY <1>3, <2>1, FS_RemoveElement
  <2>3. Sum((U \ {x}) \cup B) = Sum(U \ {x}) + Sum(B)
    BY <2>2
  <2>4. (U \cup B) \ {x} = (U \ {x}) \cup B
    BY <2>1
  <2>5. Sum(U \cup B) = f[x] + Sum((U \cup B) \ {x})
    BY <1>2, <2>1
  <2>6. Sum(U) = f[x] + Sum(U \ {x})
    BY <1>2, <2>1
  <2>7. f[x] \in Int /\ Sum(U \ {x}) \in Int /\ Sum(B) \in Int
    BY <1>1, <2>1
  <2> QED BY <2>3, <2>4, <2>5, <2>6, <2>7
<1>6. P = Nat
  <2>1. P \subseteq Nat
    OBVIOUS
  <2> HIDE DEF P
  <2> QED BY <1>4, <1>5, <2>1, Naturals
<1>7. Cardinality(A) \in P
  BY <1>3, <1>6
<1>8. Sum(A \cup B) = Sum(A) + Sum(B)
  BY <1>7, <1>3
<1> QED BY <1>8 DEF Sum

\* A sum of nothing but zeros.
LEMMA SumZeros ==
  ASSUME NEW S, IsFiniteSet(S), NEW f \in [S -> {0}]
  PROVE  SumFunctionOnSet(f, S) = 0
<1>0. f \in [S -> Int]
  OBVIOUS
<1> DEFINE Sum(U) == SumFunctionOnSet(f, U)
<1>1. /\ \A U \in SUBSET S : Sum(U) \in Int
      /\ Sum({}) = 0
      /\ \A U \in SUBSET S : U # {} => Sum(U) = f[First(U)] + Sum(U \ {First(U)})
  BY <1>0, SumRecursion
<1> HIDE DEF Sum
<1>3. \A U \in SUBSET S : IsFiniteSet(U) /\ Cardinality(U) \in Nat
  BY FS_Subset, FS_CardinalityType
<1> DEFINE P == {n \in Nat : \A U \in SUBSET S : Cardinality(U) <= n => Sum(U) = 0}
<1>4. 0 \in P
  <2>1. \A U \in SUBSET S : Cardinality(U) <= 0 => U = {}
    BY <1>3, FS_EmptySet
  <2> QED BY <2>1, <1>1
<1>5. ASSUME NEW n \in P PROVE n + 1 \in P
  <2> SUFFICES ASSUME NEW U \in SUBSET S, Cardinality(U) <= n + 1, U # {} PROVE Sum(U) = 0
    BY <1>1
  <2>1. First(U) \in U /\ Cardinality(U \ {First(U)}) <= n
    BY <1>3, OneLess
  <2>2. Sum(U \ {First(U)}) = 0 /\ f[First(U)] = 0
    BY <2>1
  <2> QED BY <2>2, <1>1
<1>6. P = Nat
  <2>1. P \subseteq Nat
    OBVIOUS
  <2> HIDE DEF P
  <2> QED BY <1>4, <1>5, <2>1, Naturals
<1>7. Cardinality(S) \in P
  BY <1>3, <1>6
<1>8. Sum(S) = 0
  BY <1>7, <1>3
<1> QED BY <1>8 DEF Sum
=============================================================================
