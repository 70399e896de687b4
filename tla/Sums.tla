-------------------------------- MODULE Sums --------------------------------
(***************************************************************************)
(* What the sums of the community modules add up to: those over a set, and *)
(* those along a sequence, of numbers that a function gives.               *)
(***************************************************************************)
EXTENDS SequencesExt, FiniteSetsExt, FiniteSetTheorems, WellFoundedInduction, TLAPS

-----------------------------------------------------------------------------
(* Induction over numbers and over finite sets.                            *)

\* Induction, on a set of naturals.
LEMMA NatSubset ==
    ASSUME NEW T \in SUBSET Nat, 0 \in T, \A n \in T : n + 1 \in T
    PROVE  T = Nat
  <1> DEFINE R == {ss \in Nat \X Nat : ss[1] < ss[2]}
             U == Nat \ T
  <1>1. IsWellFoundedOn(R, Nat) BY NatLessThanWellFounded DEF OpToRel
  <1>2. ASSUME U # {} PROVE \E x \in U : \A y \in U : ~ (<<y, x>> \in R)
    <2>1. U \subseteq Nat OBVIOUS
    <2> HIDE DEF R, U
    <2> QED BY <1>1, <1>2, <2>1, WFMin
  <1>3. ASSUME NEW x \in U, \A y \in U : ~ (<<y, x>> \in R) PROVE FALSE
    <2>1. x \in Nat /\ x # 0 OBVIOUS
    <2>2. x - 1 \in Nat /\ x - 1 < x /\ (x - 1) + 1 = x BY <2>1
    <2>3. x - 1 \in U BY <2>2
    <2>4. <<x - 1, x>> \in R BY <2>1, <2>2
    <2> QED BY <1>3, <2>3, <2>4
  <1> QED BY <1>2, <1>3

\* A set of subsets of a finite set that has the empty one, and with a subset that
\* with one more element, has them all.
LEMMA FiniteSubsets ==
    ASSUME NEW S, IsFiniteSet(S), NEW P \in SUBSET (SUBSET S), {} \in P,
           \A U \in P : \A x \in S \ U : U \cup {x} \in P
    PROVE  P = SUBSET S
  <1> DEFINE N == {n \in Nat : \A U \in SUBSET S : Cardinality(U) = n => U \in P}
  <1>1. \A U \in SUBSET S : IsFiniteSet(U) /\ Cardinality(U) \in Nat
    BY FS_Subset, FS_CardinalityType
  <1>2. 0 \in N
    <2>1. \A U \in SUBSET S : Cardinality(U) = 0 => U = {} BY <1>1, FS_EmptySet
    <2> QED BY <2>1
  <1>3. ASSUME NEW n \in N PROVE n + 1 \in N
    <2> SUFFICES ASSUME NEW U \in SUBSET S, Cardinality(U) = n + 1 PROVE U \in P
      OBVIOUS
    <2>1. n \in Nat OBVIOUS
    <2>2. U # {} BY <1>1, <2>1, FS_EmptySet
    <2>3. PICK x \in U : TRUE BY <2>2
    <2>4. Cardinality(U \ {x}) = n BY <1>1, <2>1, FS_RemoveElement
    <2>5. U \ {x} \in P BY <2>4
    <2>6. U = (U \ {x}) \cup {x} /\ x \in S \ (U \ {x}) OBVIOUS
    <2> QED BY <2>5, <2>6
  <1>4. N = Nat
    <2>1. N \in SUBSET Nat OBVIOUS
    <2> HIDE DEF N
    <2> QED BY <1>2, <1>3, <2>1, NatSubset
  <1>5. \A U \in SUBSET S : U \in P BY <1>1, <1>4
  <1> QED BY <1>5

\* A set of numbers has a least one.
LEMMA Least == ASSUME NEW T \in SUBSET Nat, T # {}
               PROVE  \E x \in T : \A y \in T : x <= y
  <1>1. PICK x \in T : \A y \in T : ~(<<y, x>> \in OpToRel(<, Nat))
    BY WFMin, NatLessThanWellFounded
  <1>2. \A y \in T : ~(y < x) BY <1>1 DEF OpToRel
  <1> QED BY <1>2

-----------------------------------------------------------------------------
(* What MapThenSumSet computes.                                            *)

SumOver(F, S) == MapThenSumSet(LAMBDA x : F[x], S)

One(T) == CHOOSE x \in T : TRUE

SumStep(F, g, T) == IF T = {} THEN 0 ELSE F[One(T)] + g[T \ {One(T)}]

IsSum(g, F, S) == g = [T \in SUBSET S |-> SumStep(F, g, T)]

LEMMA SumExists ==
    ASSUME NEW S, IsFiniteSet(S), NEW F
    PROVE  \E g : IsSum(g, F, S)
  <1> DEFINE Small(n) == {T \in SUBSET S : Cardinality(T) <= n}
             N == {n \in Nat : \E g : g = [T \in Small(n) |-> SumStep(F, g, T)]}
  <1>1. \A U \in SUBSET S : IsFiniteSet(U) /\ Cardinality(U) \in Nat
    BY FS_Subset, FS_CardinalityType
  <1>2. 0 \in N
    <2>1. \A T \in Small(0) : T = {} BY <1>1, FS_EmptySet
    <2>2. \A g : \A T \in Small(0) : SumStep(F, g, T) = 0 BY <2>1 DEF SumStep
    <2>3. \A g : [T \in Small(0) |-> SumStep(F, g, T)] = [T \in Small(0) |-> 0] BY <2>2
    <2> QED BY <2>3
  <1>3. ASSUME NEW n \in N PROVE n + 1 \in N
    <2>1. n \in Nat /\ n + 1 \in Nat OBVIOUS
    <2>2. PICK g : g = [T \in Small(n) |-> SumStep(F, g, T)] OBVIOUS
    <2> DEFINE h == [T \in Small(n + 1) |-> IF T \in Small(n) THEN g[T] ELSE SumStep(F, g, T)]
    <2>3. \A T \in Small(n) : g[T] = SumStep(F, g, T) /\ T \in Small(n + 1) BY <1>1, <2>1, <2>2
    <2>4. \A T \in Small(n) : h[T] = g[T] BY <2>3
    <2>5. ASSUME NEW T \in Small(n + 1), T # {} PROVE T \ {One(T)} \in Small(n)
      <3>1. One(T) \in T BY <2>5 DEF One
      <3>2. Cardinality(T \ {One(T)}) = Cardinality(T) - 1 BY <1>1, <3>1, FS_RemoveElement
      <3>3. Cardinality(T) \in Nat /\ Cardinality(T) <= n + 1 BY <1>1
      <3>4. Cardinality(T) - 1 <= n BY <2>1, <3>3
      <3> QED BY <3>2, <3>4
    <2> HIDE DEF Small, h
    <2>6. \A T \in Small(n + 1) : SumStep(F, g, T) = SumStep(F, h, T) BY <2>4, <2>5 DEF SumStep
    <2>7. h = [T \in Small(n + 1) |-> SumStep(F, h, T)] BY <2>3, <2>6 DEF h
    <2> QED BY <2>1, <2>7
  <1>4. N = Nat
    <2>1. N \in SUBSET Nat OBVIOUS
    <2> HIDE DEF N
    <2> QED BY <1>2, <1>3, <2>1, NatSubset
  <1>5. Cardinality(S) \in N BY <1>1, <1>4
  <1>6. Small(Cardinality(S)) = SUBSET S BY FS_Subset
  <1> QED BY <1>5, <1>6 DEF IsSum

LEMMA SumValue ==
    ASSUME NEW S, NEW F, NEW g, IsSum(g, F, S), NEW T \in SUBSET S
    PROVE  g[T] = SumStep(F, g, T)
  BY DEF IsSum

\* The order in which the elements are taken does not matter.
LEMMA SumAnyOrder ==
    ASSUME NEW S, IsFiniteSet(S), NEW F, \A x \in S : F[x] \in Int, NEW g, IsSum(g, F, S)
    PROVE  \A T \in SUBSET S : /\ g[T] \in Int
                               /\ \A x \in T : g[T] = F[x] + g[T \ {x}]
  <1> DEFINE Good(T) == g[T] \in Int /\ \A x \in T : g[T] = F[x] + g[T \ {x}]
             N == {n \in Nat : \A T \in SUBSET S : Cardinality(T) <= n => Good(T)}
  <1>1. \A U \in SUBSET S : IsFiniteSet(U) /\ Cardinality(U) \in Nat
    BY FS_Subset, FS_CardinalityType
  <1>2. 0 \in N
    <2>1. \A T \in SUBSET S : Cardinality(T) <= 0 => T = {} BY <1>1, FS_EmptySet
    <2>2. g[{}] = SumStep(F, g, {}) BY SumValue
    <2>3. g[{}] = 0 BY <2>2 DEF SumStep
    <2>4. Good({}) BY <2>3
    <2> HIDE DEF Good
    <2> QED BY <2>1, <2>4
  <1>3. ASSUME NEW n \in N PROVE n + 1 \in N
    <2>1. n \in Nat /\ n + 1 \in Nat OBVIOUS
    <2>2. \A T \in SUBSET S : Cardinality(T) <= n => Good(T) OBVIOUS
    <2> SUFFICES ASSUME NEW T \in SUBSET S, Cardinality(T) <= n + 1 PROVE Good(T)
      BY <2>1
    <2>3. CASE T = {}
      <3>1. g[{}] = SumStep(F, g, {}) BY SumValue
      <3>2. g[{}] = 0 BY <3>1 DEF SumStep
      <3> QED BY <2>3, <3>2
    <2>4. CASE T # {}
      <3> DEFINE c == One(T)
      <3>1. c \in T BY <2>4 DEF One
      <3>2. g[T] = F[c] + g[T \ {c}]
        <4>1. g[T] = SumStep(F, g, T) BY SumValue
        <4> QED BY <2>4, <4>1 DEF SumStep
      <3>3. ASSUME NEW x \in T PROVE Good(T \ {x})
        <4>1. Cardinality(T \ {x}) = Cardinality(T) - 1 BY <1>1, FS_RemoveElement
        <4>2. Cardinality(T \ {x}) <= n BY <1>1, <2>1, <4>1
        <4> QED BY <2>2, <4>2
      <3> HIDE DEF c
      <3>4. g[T] \in Int
        <4>1. g[T \ {c}] \in Int /\ F[c] \in Int BY <3>1, <3>3
        <4> HIDE DEF Good
        <4> QED BY <3>2, <4>1
      <3>5. ASSUME NEW x \in T PROVE g[T] = F[x] + g[T \ {x}]
        <4>1. CASE x = c BY <3>2, <4>1
        <4>2. CASE x # c
          <5>1. g[T \ {c}] = F[x] + g[(T \ {c}) \ {x}] BY <3>1, <3>3, <4>2
          <5>2. g[T \ {x}] = F[c] + g[(T \ {x}) \ {c}] BY <3>1, <3>3, <4>2
          <5>3. (T \ {c}) \ {x} = (T \ {x}) \ {c} OBVIOUS
          <5>4. g[(T \ {x}) \ {c}] \in Int
            <6>1. Good(T \ {x}) BY <3>3
            <6> DEFINE U == T \ {x}
            <6>2. U \in SUBSET S /\ c \in U BY <3>1, <4>2
            <6>3. Cardinality(U \ {c}) = Cardinality(U) - 1 /\ Cardinality(U) = Cardinality(T) - 1
              BY <1>1, <6>2, FS_RemoveElement
            <6>4. Cardinality(U \ {c}) <= n BY <1>1, <2>1, <6>3
            <6> QED BY <2>2, <6>4
          <5>5. F[x] \in Int /\ F[c] \in Int BY <3>1
          <5>6. g[T] = F[c] + (F[x] + g[(T \ {x}) \ {c}]) BY <3>2, <5>1, <5>3
          <5> QED BY <5>2, <5>4, <5>5, <5>6
        <4> QED BY <4>1, <4>2
      <3> QED BY <3>4, <3>5
    <2> QED BY <2>3, <2>4
  <1>4. N = Nat
    <2>1. N \in SUBSET Nat OBVIOUS
    <2> HIDE DEF N
    <2> QED BY <1>2, <1>3, <2>1, NatSubset
  <1>5. \A T \in SUBSET S : Good(T) BY <1>1, <1>4
  <1> QED BY <1>5

\* Two sums of the same numbers are the same.
LEMMA SumsAgree ==
    ASSUME NEW S, IsFiniteSet(S), NEW F, \A x \in S : F[x] \in Int, NEW g, IsSum(g, F, S),
           NEW R, IsFiniteSet(R), NEW G, \A x \in R : G[x] \in Int, NEW h, IsSum(h, G, R),
           NEW T, T \subseteq S, T \subseteq R, \A x \in T : F[x] = G[x]
    PROVE  g[T] = h[T]
  <1> DEFINE P == {U \in SUBSET T : g[U] = h[U]}
  <1>1. IsFiniteSet(T) BY FS_Subset
  <1>2. {} \in P
    <2>1. g[{}] = SumStep(F, g, {}) /\ h[{}] = SumStep(G, h, {}) BY SumValue
    <2> QED BY <2>1 DEF SumStep
  <1>3. ASSUME NEW U \in P, NEW x \in T \ U PROVE U \cup {x} \in P
    <2> DEFINE V == U \cup {x}
    <2>1. V \in SUBSET S /\ V \in SUBSET R /\ x \in V /\ V \ {x} = U OBVIOUS
    <2> HIDE DEF V
    <2>2. g[V] = F[x] + g[V \ {x}]
      <3>1. \A y \in V : g[V] = F[y] + g[V \ {y}] BY <2>1, SumAnyOrder
      <3> QED BY <2>1, <3>1
    <2>3. h[V] = G[x] + h[V \ {x}]
      <3>1. \A y \in V : h[V] = G[y] + h[V \ {y}] BY <2>1, SumAnyOrder
      <3> QED BY <2>1, <3>1
    <2>4. g[V] = h[V] BY <2>1, <2>2, <2>3
    <2> QED BY <2>4 DEF V
  <1>4. P = SUBSET T
    <2>1. P \in SUBSET (SUBSET T) OBVIOUS
    <2> HIDE DEF P
    <2> QED BY <1>1, <1>2, <1>3, <2>1, FiniteSubsets
  <1>5. T \in P BY <1>4
  <1> QED BY <1>5

LEMMA SumChosen ==
    ASSUME NEW F, NEW S
    PROVE  SumOver(F, S) = (CHOOSE g : IsSum(g, F, S))[S]
  BY DEF SumOver, MapThenSumSet, MapThenFoldSet, IsSum, SumStep, One

LEMMA SumOfAny ==
    ASSUME NEW S, IsFiniteSet(S), NEW F, \A x \in S : F[x] \in Int,
           NEW R, IsFiniteSet(R), NEW G, \A x \in R : G[x] \in Int, NEW g, IsSum(g, G, R),
           S \subseteq R, \A x \in S : F[x] = G[x]
    PROVE  SumOver(F, S) = g[S]
  <1> DEFINE h == CHOOSE h : IsSum(h, F, S)
  <1>1. IsSum(h, F, S) BY SumExists
  <1> HIDE DEF h
  <1>2. g[S] = h[S] BY <1>1, SumsAgree
  <1> QED BY <1>2, SumChosen DEF h

LEMMA SumEmpty == ASSUME NEW F PROVE SumOver(F, {}) = 0
  <1>1. PICK g : IsSum(g, F, {}) BY SumExists, FS_EmptySet
  <1>2. g[{}] = SumStep(F, g, {}) BY <1>1, SumValue
  <1>3. SumOver(F, {}) = g[{}] BY <1>1, SumOfAny, FS_EmptySet
  <1> QED BY <1>2, <1>3 DEF SumStep

LEMMA SumInt ==
    ASSUME NEW S, IsFiniteSet(S), NEW F, \A x \in S : F[x] \in Int
    PROVE  SumOver(F, S) \in Int
  <1>1. PICK g : IsSum(g, F, S) BY SumExists
  <1>2. SumOver(F, S) = g[S] BY <1>1, SumOfAny
  <1> QED BY <1>1, <1>2, SumAnyOrder

LEMMA SumMore ==
    ASSUME NEW S, IsFiniteSet(S), NEW x, x \notin S, NEW F, \A y \in S \cup {x} : F[y] \in Int
    PROVE  SumOver(F, S \cup {x}) = F[x] + SumOver(F, S)
  <1> DEFINE R == S \cup {x}
  <1>1. IsFiniteSet(R) BY FS_AddElement
  <1>2. PICK g : IsSum(g, F, R) BY <1>1, SumExists
  <1>3. SumOver(F, R) = g[R] /\ SumOver(F, S) = g[S]
    <2>1. S \subseteq R /\ \A y \in R : F[y] \in Int OBVIOUS
    <2> HIDE DEF R
    <2> QED BY <1>1, <1>2, <2>1, SumOfAny
  <1>4. g[R] = F[x] + g[R \ {x}]
    <2>1. R \in SUBSET R /\ x \in R /\ \A y \in R : F[y] \in Int OBVIOUS
    <2> HIDE DEF R
    <2> QED BY <1>1, <1>2, <2>1, SumAnyOrder
  <1>5. R \ {x} = S OBVIOUS
  <1> QED BY <1>3, <1>4, <1>5

LEMMA SumSame ==
    ASSUME NEW S, IsFiniteSet(S), NEW F, NEW G,
           \A x \in S : F[x] = G[x] /\ F[x] \in Int
    PROVE  SumOver(F, S) = SumOver(G, S)
  <1>1. PICK g : IsSum(g, G, S) BY SumExists
  <1>2. \A x \in S : G[x] \in Int OBVIOUS
  <1>3. SumOver(F, S) = g[S] /\ SumOver(G, S) = g[S] BY <1>1, <1>2, SumOfAny
  <1> QED BY <1>3

\* With no negative number, a part is no more than the whole.
LEMMA SumPart ==
    ASSUME NEW S, IsFiniteSet(S), NEW F, \A x \in S : F[x] \in Nat, NEW T \in SUBSET S
    PROVE  SumOver(F, T) \in Nat /\ SumOver(F, T) <= SumOver(F, S)
  <1> DEFINE U == S \ T
             P == {V \in SUBSET U : SumOver(F, T) <= SumOver(F, T \cup V)}
             Q == {V \in SUBSET T : SumOver(F, V) \in Nat}
  <1>0. IsFiniteSet(T) /\ IsFiniteSet(U) BY FS_Subset
  <1>1. Q = SUBSET T
    <2>1. {} \in Q BY SumEmpty
    <2>2. ASSUME NEW V \in Q, NEW x \in T \ V PROVE V \cup {x} \in Q
      <3>1. IsFiniteSet(V) /\ x \notin V /\ (\A y \in V \cup {x} : F[y] \in Int)
            /\ F[x] \in Nat /\ SumOver(F, V) \in Nat
        BY <1>0, FS_Subset
      <3>2. SumOver(F, V \cup {x}) = F[x] + SumOver(F, V) BY <3>1, SumMore
      <3> QED BY <3>1, <3>2
    <2>3. Q \in SUBSET (SUBSET T) OBVIOUS
    <2> HIDE DEF Q
    <2> QED BY <1>0, <2>1, <2>2, <2>3, FiniteSubsets
  <1>2. SumOver(F, T) \in Nat BY <1>1
  <1>3. P = SUBSET U
    <2>1. {} \in P
      <3>1. T \cup {} = T OBVIOUS
      <3> QED BY <1>2, <3>1
    <2>2. ASSUME NEW V \in P, NEW x \in U \ V PROVE V \cup {x} \in P
      <3> DEFINE W == T \cup V
      <3>1. W \subseteq S /\ x \notin W /\ x \in S OBVIOUS
      <3>2. IsFiniteSet(W) /\ \A y \in W \cup {x} : F[y] \in Int BY <3>1, FS_Subset
      <3>3. SumOver(F, T) <= SumOver(F, W) OBVIOUS
      <3>4. T \cup (V \cup {x}) = W \cup {x} OBVIOUS
      <3> HIDE DEF W
      <3>5. SumOver(F, W \cup {x}) = F[x] + SumOver(F, W) BY <3>1, <3>2, SumMore
      <3>6. SumOver(F, W) \in Int /\ F[x] \in Nat BY <3>1, <3>2, SumInt
      <3>7. SumOver(F, T) <= SumOver(F, W \cup {x}) BY <1>2, <3>3, <3>5, <3>6
      <3> QED BY <3>4, <3>7
    <2>3. P \in SUBSET (SUBSET U) OBVIOUS
    <2> HIDE DEF P, U
    <2> QED BY <1>0, <2>1, <2>2, <2>3, FiniteSubsets
  <1>4. U \in P BY <1>3
  <1>5. T \cup U = S OBVIOUS
  <1> QED BY <1>2, <1>4, <1>5

\* A sum over a set and over that set without one of its elements.
LEMMA SumWithout ==
    ASSUME NEW S, IsFiniteSet(S), NEW x, NEW F, \A y \in S \cup {x} : F[y] \in Int
    PROVE  /\ IsFiniteSet(S \cup {x}) /\ IsFiniteSet(S \ {x})
           /\ SumOver(F, S \cup {x}) = F[x] + SumOver(F, S \ {x})
           /\ x \in S => SumOver(F, S) = F[x] + SumOver(F, S \ {x})
           /\ SumOver(F, S \ {x}) \in Int
  <1> DEFINE R == S \ {x}
  <1>1. IsFiniteSet(R) /\ IsFiniteSet(S \cup {x}) BY FS_RemoveElement, FS_AddElement
  <1>2. x \notin R /\ (\A y \in R \cup {x} : F[y] \in Int) /\ R \cup {x} = S \cup {x}
        /\ (x \in S => R \cup {x} = S)
    OBVIOUS
  <1> HIDE DEF R
  <1>3. SumOver(F, R \cup {x}) = F[x] + SumOver(F, R) BY <1>1, <1>2, SumMore
  <1>4. SumOver(F, R) \in Int BY <1>1, <1>2, SumInt
  <1>5. SumOver(F, S \cup {x}) = F[x] + SumOver(F, R) BY <1>2, <1>3
  <1>6. x \in S => SumOver(F, S) = F[x] + SumOver(F, R) BY <1>2, <1>3
  <1> QED BY <1>1, <1>4, <1>5, <1>6 DEF R

\* A constant factor.
LEMMA SumTimes ==
    ASSUME NEW S, IsFiniteSet(S), NEW k \in Int, NEW F, NEW G,
           \A x \in S : F[x] \in Int /\ G[x] = k * F[x]
    PROVE  SumOver(G, S) = k * SumOver(F, S)
  <1> DEFINE P == {T \in SUBSET S : SumOver(G, T) = k * SumOver(F, T)}
  <1>1. {} \in P
    <2>1. SumOver(G, {}) = 0 /\ SumOver(F, {}) = 0 BY SumEmpty
    <2> QED BY <2>1
  <1>2. ASSUME NEW T \in P, NEW x \in S \ T PROVE T \cup {x} \in P
    <2>1. IsFiniteSet(T) /\ x \notin T /\ \A y \in T \cup {x} : F[y] \in Int BY FS_Subset
    <2>2. \A y \in T \cup {x} : G[y] \in Int
      <3>1. \A a \in Int : k * a \in Int OBVIOUS
      <3> QED BY <3>1
    <2>3. SumOver(F, T \cup {x}) = F[x] + SumOver(F, T) BY <2>1, SumMore
    <2>4. SumOver(G, T \cup {x}) = G[x] + SumOver(G, T) BY <2>1, <2>2, SumMore
    <2>5. SumOver(F, T) \in Int BY <2>1, SumInt
    <2>6. \A a, b \in Int : k * (a + b) = k * a + k * b OBVIOUS
    <2>7. k * (F[x] + SumOver(F, T)) = k * F[x] + k * SumOver(F, T) BY <2>5, <2>6
    <2>8. SumOver(G, T) = k * SumOver(F, T) /\ G[x] = k * F[x] OBVIOUS
    <2>9. SumOver(G, T \cup {x}) = k * SumOver(F, T \cup {x}) BY <2>3, <2>4, <2>7, <2>8
    <2> QED BY <2>9
  <1>3. P \in SUBSET (SUBSET S) OBVIOUS
  <1>4. P = SUBSET S
    <2> HIDE DEF P
    <2> QED BY <1>1, <1>2, <1>3, FiniteSubsets
  <1> QED BY <1>4

\* One for each element.
LEMMA SumOnes ==
    ASSUME NEW S, IsFiniteSet(S), NEW F, \A x \in S : F[x] = 1
    PROVE  SumOver(F, S) = Cardinality(S)
  <1> DEFINE P == {T \in SUBSET S : SumOver(F, T) = Cardinality(T)}
  <1>1. {} \in P BY SumEmpty, FS_EmptySet
  <1>2. ASSUME NEW T \in P, NEW x \in S \ T PROVE T \cup {x} \in P
    <2>1. IsFiniteSet(T) /\ x \notin T /\ \A y \in T \cup {x} : F[y] \in Int BY FS_Subset
    <2>2. SumOver(F, T \cup {x}) = F[x] + SumOver(F, T) BY <2>1, SumMore
    <2>3. Cardinality(T \cup {x}) = Cardinality(T) + 1 /\ Cardinality(T) \in Nat
      BY <2>1, FS_AddElement, FS_CardinalityType
    <2>4. F[x] = 1 /\ SumOver(F, T) = Cardinality(T) OBVIOUS
    <2>5. SumOver(F, T \cup {x}) = Cardinality(T \cup {x}) BY <2>2, <2>3, <2>4
    <2> QED BY <2>5
  <1>3. P \in SUBSET (SUBSET S) OBVIOUS
  <1>4. P = SUBSET S
    <2> HIDE DEF P
    <2> QED BY <1>1, <1>2, <1>3, FiniteSubsets
  <1> QED BY <1>4

\* Numbers that differ by so much each have sums that differ by no more than all of it.
LEMMA SumWithin ==
    ASSUME NEW S, IsFiniteSet(S), NEW F, NEW G, NEW H,
           \A x \in S : F[x] \in Int /\ G[x] \in Int /\ H[x] \in Int,
           \A x \in S : F[x] - G[x] \in -H[x] .. H[x]
    PROVE  SumOver(F, S) - SumOver(G, S) \in -SumOver(H, S) .. SumOver(H, S)
  <1> DEFINE P == {T \in SUBSET S : SumOver(F, T) - SumOver(G, T) \in -SumOver(H, T) .. SumOver(H, T)}
  <1>1. {} \in P
    <2>1. SumOver(F, {}) = 0 /\ SumOver(G, {}) = 0 /\ SumOver(H, {}) = 0 BY SumEmpty
    <2> QED BY <2>1
  <1>2. ASSUME NEW T \in P, NEW x \in S \ T PROVE T \cup {x} \in P
    <2>1. /\ IsFiniteSet(T) /\ x \notin T
          /\ \A y \in T \cup {x} : F[y] \in Int /\ G[y] \in Int /\ H[y] \in Int
      BY FS_Subset
    <2>2. /\ SumOver(F, T \cup {x}) = F[x] + SumOver(F, T)
          /\ SumOver(G, T \cup {x}) = G[x] + SumOver(G, T)
          /\ SumOver(H, T \cup {x}) = H[x] + SumOver(H, T)
      BY <2>1, SumMore
    <2>3. SumOver(F, T) \in Int /\ SumOver(G, T) \in Int /\ SumOver(H, T) \in Int BY <2>1, SumInt
    <2>4. /\ F[x] - G[x] \in -H[x] .. H[x]
          /\ SumOver(F, T) - SumOver(G, T) \in -SumOver(H, T) .. SumOver(H, T)
      OBVIOUS
    <2>5. \A a, b, c, e, f, g \in Int : a - b \in -c .. c /\ e - f \in -g .. g =>
              (a + e) - (b + f) \in -(c + g) .. c + g
      OBVIOUS
    <2>6. F[x] \in Int /\ G[x] \in Int /\ H[x] \in Int BY <2>1
    <2>7. SumOver(F, T \cup {x}) - SumOver(G, T \cup {x})
              \in -SumOver(H, T \cup {x}) .. SumOver(H, T \cup {x})
      BY <2>2, <2>3, <2>4, <2>5, <2>6
    <2> QED BY <2>7
  <1>3. P \in SUBSET (SUBSET S) OBVIOUS
  <1>4. P = SUBSET S
    <2> HIDE DEF P
    <2> QED BY <1>1, <1>2, <1>3, FiniteSubsets
  <1> QED BY <1>4

\* A sum over what the elements of a set are one by one taken to.
LEMMA SumTaken ==
    ASSUME NEW S, IsFiniteSet(S), NEW f, \A x, y \in S : f[x] = f[y] => x = y,
           NEW F, NEW G, \A x \in S : F[f[x]] \in Int /\ G[x] = F[f[x]]
    PROVE  SumOver(G, S) = SumOver(F, {f[x] : x \in S})
  <1> DEFINE P == {T \in SUBSET S : /\ SumOver(G, T) = SumOver(F, {f[x] : x \in T})
                                    /\ IsFiniteSet({f[x] : x \in T})}
  <1>1. {} \in P
    <2>1. {f[x] : x \in {}} = {} OBVIOUS
    <2> QED BY <2>1, SumEmpty, FS_EmptySet
  <1>2. ASSUME NEW T \in P, NEW x \in S \ T PROVE T \cup {x} \in P
    <2> DEFINE V == {f[y] : y \in T}
    <2>1. IsFiniteSet(T) /\ x \notin T /\ \A y \in T \cup {x} : G[y] \in Int BY FS_Subset
    <2>2. SumOver(G, T \cup {x}) = G[x] + SumOver(G, T) BY <2>1, SumMore
    <2>3. IsFiniteSet(V) /\ SumOver(G, T) = SumOver(F, V) OBVIOUS
    <2>4. f[x] \notin V /\ (\A v \in V \cup {f[x]} : F[v] \in Int) /\ {f[y] : y \in T \cup {x}} = V \cup {f[x]}
      OBVIOUS
    <2>5. G[x] = F[f[x]] OBVIOUS
    <2>6. /\ SumOver(F, V \cup {f[x]}) = F[f[x]] + SumOver(F, V)
          /\ IsFiniteSet(V \cup {f[x]})
      <3> HIDE DEF V
      <3> QED BY <2>3, <2>4, SumMore, FS_AddElement
    <2> QED BY <2>2, <2>3, <2>4, <2>5, <2>6
  <1>3. P \in SUBSET (SUBSET S) OBVIOUS
  <1>4. P = SUBSET S
    <2> HIDE DEF P
    <2> QED BY <1>1, <1>2, <1>3, FiniteSubsets
  <1> QED BY <1>4

-----------------------------------------------------------------------------
(* What FoldLeft computes, when it adds up: it takes the elements of a     *)
(* sequence from the last to the first.                                    *)

Top(T) == CHOOSE x \in T : \A y \in T : x >= y

DownStep(F, g, T) == IF T = {} THEN 0 ELSE g[T \ {Top(T)}] + F[Top(T)]

IsSumDown(g, F, S) == g = [T \in SUBSET S |-> DownStep(F, g, T)]

LEMMA TopIsIn ==
    ASSUME NEW n \in Nat, NEW T \in SUBSET (1 .. n), T # {}
    PROVE  Top(T) \in T
  <1> DEFINE P == {U \in SUBSET T : U # {} => \E x \in U : \A y \in U : x >= y}
  <1>1. {} \in P OBVIOUS
  <1>2. ASSUME NEW U \in P, NEW x \in T \ U PROVE U \cup {x} \in P
    <2>1. \A y \in U \cup {x} : y \in Int OBVIOUS
    <2>2. CASE U = {} BY <2>1, <2>2
    <2>3. CASE U # {}
      <3> PICK z \in U : \A y \in U : z >= y BY <2>3
      <3>1. CASE z >= x BY <2>1, <3>1
      <3>2. CASE ~(z >= x)
        <4>1. \A y \in U \cup {x} : x >= y BY <2>1, <3>2
        <4> QED BY <4>1
      <3> QED BY <3>1, <3>2
    <2> QED BY <2>2, <2>3
  <1>3. P \in SUBSET (SUBSET T) OBVIOUS
  <1>4. IsFiniteSet(T)
    <2>1. 0 \in Int /\ 1 \in Int /\ n \in Int OBVIOUS
    <2>2. IsFiniteSet(1 .. n) BY <2>1, FS_Interval
    <2> QED BY <2>2, FS_Subset
  <1>5. P = SUBSET T
    <2> HIDE DEF P
    <2> QED BY <1>1, <1>2, <1>3, <1>4, FiniteSubsets
  <1>6. \E x \in T : \A y \in T : x >= y BY <1>5
  <1> QED BY <1>6 DEF Top

LEMMA SumPeeled ==
    ASSUME NEW S, IsFiniteSet(S), NEW F, \A x \in S : F[x] \in Int, NEW g, IsSum(g, F, S),
           NEW T \in SUBSET S, NEW x \in T
    PROVE  g[T] = F[x] + g[T \ {x}] /\ g[T \ {x}] \in Int
  <1>1. \A y \in T : g[T] = F[y] + g[T \ {y}] BY SumAnyOrder
  <1>2. g[T \ {x}] \in Int
    <2> DEFINE V == T \ {x}
    <2>1. V \in SUBSET S OBVIOUS
    <2> HIDE DEF V
    <2>2. g[V] \in Int BY <2>1, SumAnyOrder
    <2> QED BY <2>2 DEF V
  <1> QED BY <1>1, <1>2

LEMMA DownExists ==
    ASSUME NEW n \in Nat, NEW S, S = 1 .. n, NEW F, \A i \in S : F[i] \in Int, NEW g, IsSum(g, F, S)
    PROVE  IsSumDown(g, F, S)
  <1>1. IsFiniteSet(S) BY FS_Interval
  <1>2. ASSUME NEW T \in SUBSET S PROVE g[T] = DownStep(F, g, T)
    <2>1. CASE T = {}
      <3>1. g[T] = SumStep(F, g, T) BY SumValue
      <3> QED BY <2>1, <3>1 DEF SumStep, DownStep
    <2>2. CASE T # {}
      <3> DEFINE x == Top(T)
      <3>1. x \in T BY <2>2, TopIsIn
      <3> HIDE DEF x
      <3>2. g[T] = F[x] + g[T \ {x}] /\ g[T \ {x}] \in Int BY <1>1, <3>1, SumPeeled
      <3>3. F[x] \in Int BY <3>1
      <3>4. g[T] = g[T \ {x}] + F[x] BY <3>2, <3>3
      <3> QED BY <2>2, <3>4 DEF DownStep, x
    <2> QED BY <2>1, <2>2
  <1>3. g = [T \in SUBSET S |-> g[T]] BY DEF IsSum
  <1> QED BY <1>2, <1>3 DEF IsSumDown

LEMMA DownIsSum ==
    ASSUME NEW n \in Nat, NEW F, \A i \in 1 .. n : F[i] \in Int,
           NEW h, IsSumDown(h, F, 1 .. n)
    PROVE  h[1 .. n] = SumOver(F, 1 .. n)
  <1> DEFINE S == 1 .. n
  <1>1. IsFiniteSet(S) BY FS_Interval
  <1>2. PICK g : IsSum(g, F, S) BY <1>1, SumExists
  <1>3. IsSumDown(g, F, S) BY <1>2, DownExists
  <1> DEFINE N == {k \in Nat : \A T \in SUBSET S : Cardinality(T) <= k => h[T] = g[T]}
  <1>4. \A U \in SUBSET S : IsFiniteSet(U) /\ Cardinality(U) \in Nat
    BY <1>1, FS_Subset, FS_CardinalityType
  <1>5. \A T \in SUBSET S : h[T] = DownStep(F, h, T) /\ g[T] = DownStep(F, g, T)
    BY <1>3 DEF IsSumDown
  <1>6. 0 \in N
    <2>1. \A T \in SUBSET S : Cardinality(T) <= 0 => T = {} BY <1>4, FS_EmptySet
    <2>2. h[{}] = 0 /\ g[{}] = 0 BY <1>5 DEF DownStep
    <2> QED BY <2>1, <2>2
  <1>7. ASSUME NEW k \in N PROVE k + 1 \in N
    <2>1. k \in Nat /\ k + 1 \in Nat /\ \A T \in SUBSET S : Cardinality(T) <= k => h[T] = g[T]
      OBVIOUS
    <2> SUFFICES ASSUME NEW T \in SUBSET S, Cardinality(T) <= k + 1 PROVE h[T] = g[T]
      BY <2>1
    <2>2. CASE T = {} BY <1>5, <2>2 DEF DownStep
    <2>3. CASE T # {}
      <3> DEFINE x == Top(T)
      <3>1. x \in T BY <2>3, TopIsIn
      <3> HIDE DEF x
      <3>2. Cardinality(T \ {x}) = Cardinality(T) - 1 BY <1>4, <3>1, FS_RemoveElement
      <3>3. Cardinality(T \ {x}) <= k BY <1>4, <2>1, <3>2
      <3>4. h[T \ {x}] = g[T \ {x}] BY <2>1, <3>3
      <3> QED BY <1>5, <2>3, <3>4 DEF DownStep, x
    <2> QED BY <2>2, <2>3
  <1>8. N = Nat
    <2>1. N \in SUBSET Nat OBVIOUS
    <2> HIDE DEF N
    <2> QED BY <1>6, <1>7, <2>1, NatSubset
  <1>9. h[S] = g[S]
    <2>1. S \in SUBSET S /\ Cardinality(S) \in N BY <1>4, <1>8
    <2>2. Cardinality(S) <= Cardinality(S) BY <1>4
    <2> QED BY <2>1, <2>2
  <1>10. SumOver(F, S) = g[S] BY <1>1, <1>2, SumOfAny
  <1> QED BY <1>9, <1>10
=============================================================================
