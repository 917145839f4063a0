-------------------------- MODULE CountingLemmas ---------------------------
(***************************************************************************)
(* What the proofs need of the order of the naturals, and of SumFunction   *)
(* of the community modules.  The library's induction rules take an        *)
(* operator as a parameter, which the provers cannot instantiate.          *)
(* LeastOfNaturals says the same of sets: to show that P holds of every    *)
(* natural, suppose that {n \in Nat : ~P(n)} is not empty and take its     *)
(* least element.  SmallestSet does that for finite sets, which is how the *)
(* sums are reasoned about, as their definition is recursive over the      *)
(* subsets of a finite set.                                                *)
(***************************************************************************)
EXTENDS Integers, FiniteSets, Functions, WellFoundedInduction, FiniteSetTheorems,
        FunctionTheorems, TLAPS

\* WFMin for the naturals, where the provers find it.
LEMMA MinimalNatural ==
    ASSUME NEW R, IsWellFoundedOn(R, Nat), NEW T, T \subseteq Nat, T # {}
    PROVE  \E x \in T : \A y \in T : ~(<<y, x>> \in R)
  BY WFMin

\* If a relation that < implies is well-founded, then a set has a least element.
LEMMA LeastByRelation ==
    ASSUME NEW R, IsWellFoundedOn(R, Nat),
           \A x, y \in Nat : x < y => <<x, y>> \in R,
           NEW T, T \subseteq Nat, T # {}
    PROVE  \E x \in T : \A y \in T : x <= y
  <1>1. PICK x \in T : \A y \in T : ~(<<y, x>> \in R)
    BY MinimalNatural, Zenon
  <1>2. ASSUME NEW y \in T PROVE x <= y
    <2>1. x \in Nat /\ y \in Nat
      OBVIOUS
    <2>2. ~(<<y, x>> \in R)
      BY <1>1
    <2> QED BY <2>1, <2>2
  <1> QED BY <1>2

\* Every nonempty set of naturals has a least element.
LEMMA LeastOfNaturals ==
    ASSUME NEW T, T \subseteq Nat, T # {}
    PROVE  \E x \in T : \A y \in T : x <= y
  <1>1. IsWellFoundedOn(OpToRel(<, Nat), Nat)
    BY NatLessThanWellFounded
  <1>2. \A x, y \in Nat : x < y => <<x, y>> \in OpToRel(<, Nat)
    BY DEF OpToRel
  <1> QED BY <1>1, <1>2, LeastByRelation, Zenon

\* How many naturals there are up to n, and to any choice of them.
LEMMA FirstNaturals ==
    ASSUME NEW n \in Nat
    PROVE  IsFiniteSet(1..n) /\ Cardinality(1..n) = n
  BY FS_Interval

\* Any choice of the first n naturals is finite and has at most n of them.
LEMMA SomeOfTheFirst ==
    ASSUME NEW n \in Nat, NEW S, S \subseteq 1..n
    PROVE  /\ S \subseteq Nat /\ IsFiniteSet(S)
           /\ Cardinality(S) \in Nat /\ Cardinality(S) <= n
  <1> DEFINE I == 1..n
  <1>1. S \in SUBSET I /\ S \subseteq Nat
    OBVIOUS
  <1>2. IsFiniteSet(I) /\ Cardinality(I) = n
    BY FirstNaturals
  <1> HIDE DEF I
  <1>3. IsFiniteSet(S) /\ Cardinality(S) <= n
    BY <1>1, <1>2, FS_Subset
  <1> QED BY <1>1, <1>3, FS_CardinalityType

\* An increasing enumeration of S.
Increasing(S, s) ==
    /\ s \in [1..Cardinality(S) -> S]
    /\ \A m, n \in 1..Cardinality(S) : m < n => s[m] < s[n]

\* Every finite set of naturals can be listed in increasing order.
LEMMA IncreasingExists ==
    ASSUME NEW S, S \subseteq Nat, IsFiniteSet(S)
    PROVE  \E s : Increasing(S, s)
  <1> DEFINE Bad(n) == \E T : /\ T \subseteq Nat /\ IsFiniteSet(T) /\ Cardinality(T) = n
                              /\ ~ \E s : Increasing(T, s)
             B == {n \in Nat : Bad(n)}
  <1>1. ASSUME B # {} PROVE FALSE
    <2>1. PICK n \in B : \A m \in B : n <= m
      <3>1. B \subseteq Nat
        OBVIOUS
      <3> QED BY <3>1, <1>1, LeastOfNaturals
    <2>2. n \in Nat /\ Bad(n)
      BY <2>1
    <2>3. PICK T : /\ T \subseteq Nat /\ IsFiniteSet(T) /\ Cardinality(T) = n
                   /\ ~ \E s : Increasing(T, s)
      BY <2>2
    <2>4. CASE n = 0
      <3>1. T = {}
        BY <2>3, <2>4, FS_EmptySet
      <3>2. Increasing(T, [i \in {} |-> 0])
        <4>1. 1..Cardinality(T) = {}
          BY <2>3, <2>4
        <4> QED BY <3>1, <4>1 DEF Increasing
      <3> QED BY <3>2, <2>3
    <2>5. CASE n > 0
      <3>1. T # {}
        BY <2>3, <2>5, FS_EmptySet
      <3>2. PICK x \in T : \A y \in T : x <= y
        BY <2>3, <3>1, LeastOfNaturals
      <3> DEFINE U == T \ {x}
      <3>3. /\ U \subseteq Nat /\ IsFiniteSet(U)
            /\ Cardinality(U) = n - 1
        BY <2>3, <3>2, FS_RemoveElement
      <3>4. \E u : Increasing(U, u)
        <4>1. n - 1 \in Nat /\ ~(n - 1 \in B)
          BY <2>1, <2>2, <2>5
        <4>2. ~Bad(n - 1)
          BY <4>1
        <4> QED BY <4>2, <3>3
      <3>5. PICK u : Increasing(U, u)
        BY <3>4
      <3> HIDE DEF U
      <3>6. /\ u \in [1..(n - 1) -> U]
            /\ \A i, j \in 1..(n - 1) : i < j => u[i] < u[j]
        BY <3>5, <3>3 DEF Increasing
      <3> DEFINE t == [i \in 1..n |-> IF i = 1 THEN x ELSE u[i - 1]]
      <3>7. t \in [1..n -> T]
        <4>1. ASSUME NEW i \in 1..n, i # 1 PROVE u[i - 1] \in T
          <5>1. i - 1 \in 1..(n - 1)
            BY <4>1, <2>2
          <5> QED BY <5>1, <3>6 DEF U
        <4> QED BY <4>1, <3>2
      <3>8. ASSUME NEW i \in 1..n, NEW j \in 1..n, i < j PROVE t[i] < t[j]
        <4>1. j - 1 \in 1..(n - 1) /\ t[j] = u[j - 1] /\ u[j - 1] \in U
          BY <3>8, <2>2, <3>6
        <4>2. CASE i = 1
          <5>1. t[j] \in T /\ t[j] # x /\ t[i] = x
            BY <4>1, <4>2 DEF U
          <5>2. x \in Nat /\ t[j] \in Nat /\ x <= t[j]
            BY <5>1, <3>2, <2>3
          <5> QED BY <5>1, <5>2
        <4>3. CASE i # 1
          <5>1. i - 1 \in 1..(n - 1) /\ i - 1 < j - 1 /\ t[i] = u[i - 1]
            BY <3>8, <4>3, <2>2
          <5> QED BY <5>1, <4>1, <3>6
        <4> QED BY <4>2, <4>3
      <3>9. Increasing(T, t)
        BY <3>7, <3>8, <2>3 DEF Increasing
      <3> QED BY <3>9, <2>3
    <2> QED BY <2>2, <2>4, <2>5
  <1>2. Cardinality(S) \in Nat
    BY FS_CardinalityType
  <1> QED BY <1>1, <1>2

\* An increasing enumeration leaves nothing out and takes nothing twice.
LEMMA IncreasingIsBijection ==
    ASSUME NEW S, S \subseteq Nat, IsFiniteSet(S), NEW s, Increasing(S, s)
    PROVE  s \in Bijection(1..Cardinality(S), S)
  <1> DEFINE c == Cardinality(S)
  <1>1. c \in Nat
    BY FS_CardinalityType
  <1>2. IsFiniteSet(1..c) /\ Cardinality(1..c) = c
    BY <1>1, FS_Interval
  <1>3. \A i, j \in 1..c : s[i] = s[j] => i = j
    <2> SUFFICES ASSUME NEW i \in 1..c, NEW j \in 1..c, i # j PROVE s[i] # s[j]
      OBVIOUS
    <2>1. s[i] \in Nat /\ s[j] \in Nat
      BY DEF Increasing
    <2>2. i < j \/ j < i
      BY <1>1
    <2> QED BY <2>1, <2>2 DEF Increasing
  <1>4. s \in Injection(1..c, S)
    BY <1>3, Fun_IsInj DEF Increasing
  <1>5. s \in Surjection(1..c, S)
    BY <1>4, <1>2, FS_Injection
  <1> QED BY <1>4, <1>5, Fun_IsBij

-----------------------------------------------------------------------------
(* Sums over finite sets, whichever order the elements are taken in.        *)

\* Among finite sets there is a smallest.
LEMMA SmallestSet ==
    ASSUME NEW B, B # {}, \A s \in B : IsFiniteSet(s)
    PROVE  \E s \in B : \A t \in B : Cardinality(s) <= Cardinality(t)
  <1> DEFINE sizes == {Cardinality(s) : s \in B}
  <1>1. sizes \subseteq Nat /\ sizes # {}
    BY FS_CardinalityType
  <1>2. PICK n \in sizes : \A m \in sizes : n <= m
    BY <1>1, LeastOfNaturals, Zenon
  <1> QED BY <1>2

\* The element that the sum takes first, and what is left.
FirstOf(s) == CHOOSE x \in s : TRUE
RestOf(s) == s \ {FirstOf(s)}

\* What is left has one element less.
LEMMA RestIsSmaller ==
    ASSUME NEW s, IsFiniteSet(s), s # {}
    PROVE  /\ FirstOf(s) \in s /\ RestOf(s) \subseteq s /\ IsFiniteSet(RestOf(s))
           /\ Cardinality(RestOf(s)) = Cardinality(s) - 1
           /\ Cardinality(s) \in Nat /\ Cardinality(RestOf(s)) \in Nat
  <1>1. FirstOf(s) \in s
    BY DEF FirstOf
  <1>2. IsFiniteSet(RestOf(s)) /\ Cardinality(RestOf(s)) = Cardinality(s) - 1
    BY <1>1, FS_RemoveElement DEF RestOf
  <1> QED BY <1>1, <1>2, FS_CardinalityType DEF RestOf

\* g sums up F over every set of sets that is closed under RestOf.
SumStep(F, g, s) == IF s = {} THEN 0 ELSE F[FirstOf(s)] + g[RestOf(s)]
SumsUp(F, D, g) == g = [s \in D |-> SumStep(F, g, s)]
ClosedUnderRest(D) == \A s \in D : IsFiniteSet(s) /\ (s # {} => RestOf(s) \in D)

\* There is only one way to sum up.
LEMMA SumIsUnique ==
    ASSUME NEW F, NEW D, NEW E, ClosedUnderRest(D), ClosedUnderRest(E), NEW g, NEW h,
           SumsUp(F, D, g), SumsUp(F, E, h), NEW s \in D \intersect E
    PROVE  g[s] = h[s]
  <1> DEFINE B == {t \in D \intersect E : g[t] # h[t]}
  <1> SUFFICES ASSUME B # {} PROVE FALSE
    OBVIOUS
  <1>1. PICK t \in B : \A u \in B : Cardinality(t) <= Cardinality(u)
    BY SmallestSet, \A u \in B : IsFiniteSet(u) DEF ClosedUnderRest
  <1>2. g[t] = SumStep(F, g, t) /\ h[t] = SumStep(F, h, t)
    BY <1>1 DEF SumsUp
  <1>3. t # {}
    BY <1>1, <1>2 DEF SumStep
  <1>4. /\ RestOf(t) \in D \intersect E /\ Cardinality(RestOf(t)) = Cardinality(t) - 1
        /\ Cardinality(t) \in Nat
    BY <1>1, <1>3, RestIsSmaller DEF ClosedUnderRest
  <1>5. RestOf(t) \notin B
    BY <1>1, <1>4
  <1>6. g[RestOf(t)] = h[RestOf(t)]
    BY <1>4, <1>5
  <1> QED BY <1>1, <1>2, <1>6 DEF SumStep

\* The subsets of up to so many elements.
SmallSubsets(S, n) == {s \in SUBSET S : Cardinality(s) <= n}

\* With a set, what is left of it is among the small ones and the subsets.
LEMMA SmallIsClosed ==
    ASSUME NEW S, IsFiniteSet(S), NEW n \in Nat
    PROVE  ClosedUnderRest(SmallSubsets(S, n)) /\ ClosedUnderRest(SUBSET S)
  <1>1. ASSUME NEW s \in SUBSET S PROVE IsFiniteSet(s) /\ (s # {} => RestOf(s) \in SUBSET S)
    <2>1. IsFiniteSet(s)
      BY FS_Subset
    <2> QED BY <2>1, RestIsSmaller
  <1>2. ASSUME NEW s \in SmallSubsets(S, n), s # {} PROVE RestOf(s) \in SmallSubsets(S, n)
    <2>1. s \in SUBSET S /\ Cardinality(s) <= n
      BY DEF SmallSubsets
    <2>2. IsFiniteSet(s) /\ RestOf(s) \in SUBSET S
      BY <1>1, <1>2, <2>1
    <2>3. Cardinality(RestOf(s)) = Cardinality(s) - 1 /\ Cardinality(s) \in Nat
      BY <1>2, <2>2, RestIsSmaller
    <2>4. Cardinality(RestOf(s)) <= n
      BY <2>1, <2>3
    <2> QED BY <2>2, <2>4 DEF SmallSubsets
  <1> QED BY <1>1, <1>2 DEF ClosedUnderRest, SmallSubsets

\* There is a way to sum up, over the sets of every size.
LEMMA SumExistsForSmall ==
    ASSUME NEW F, NEW S, IsFiniteSet(S), NEW k \in Nat
    PROVE  \E g : SumsUp(F, SmallSubsets(S, k), g)
  <1> DEFINE B == {n \in Nat : ~\E g : SumsUp(F, SmallSubsets(S, n), g)}
  <1> SUFFICES ASSUME B # {} PROVE FALSE
    OBVIOUS
  <1>1. PICK n \in B : \A m \in B : n <= m
    BY LeastOfNaturals, B \subseteq Nat, Zenon
  <1>2. n # 0
    <2> SUFFICES \E g : SumsUp(F, SmallSubsets(S, 0), g)
      BY <1>1
    <2> DEFINE g == [s \in SmallSubsets(S, 0) |-> 0]
    <2>1. ASSUME NEW s \in SmallSubsets(S, 0) PROVE s = {}
      BY FS_Subset, FS_EmptySet, FS_CardinalityType DEF SmallSubsets
    <2>2. SumsUp(F, SmallSubsets(S, 0), g)
      BY <2>1 DEF SumsUp, SumStep
    <2> QED BY <2>2
  <1>3. n - 1 \in Nat /\ n - 1 \notin B
    BY <1>1, <1>2
  <1>4. PICK h : SumsUp(F, SmallSubsets(S, n - 1), h)
    BY <1>3
  <1> DEFINE g == [s \in SmallSubsets(S, n) |-> SumStep(F, h, s)]
  <1>5. ASSUME NEW s \in SmallSubsets(S, n - 1) PROVE s \in SmallSubsets(S, n) /\ g[s] = h[s]
    <2>1. s \in SmallSubsets(S, n)
      BY <1>1, FS_Subset, FS_CardinalityType DEF SmallSubsets
    <2>2. h[s] = SumStep(F, h, s)
      BY <1>4 DEF SumsUp
    <2> QED BY <2>1, <2>2
  <1>6. ASSUME NEW s \in SmallSubsets(S, n) PROVE SumStep(F, h, s) = SumStep(F, g, s)
    <2>1. CASE s = {}
      BY <2>1 DEF SumStep
    <2>2. CASE s # {}
      <3>1. IsFiniteSet(s) /\ Cardinality(s) <= n /\ s \subseteq S
        BY FS_Subset DEF SmallSubsets
      <3>2. RestOf(s) \in SmallSubsets(S, n - 1)
        BY <1>1, <2>2, <3>1, RestIsSmaller DEF SmallSubsets
      <3>3. g[RestOf(s)] = h[RestOf(s)]
        BY <1>5, <3>2
      <3> HIDE DEF g
      <3> QED BY <3>3 DEF SumStep
    <2> QED BY <2>1, <2>2
  <1>7. SumsUp(F, SmallSubsets(S, n), g)
    <2>1. [s \in SmallSubsets(S, n) |-> SumStep(F, h, s)] = [s \in SmallSubsets(S, n) |-> SumStep(F, g, s)]
      BY <1>6
    <2> QED BY <2>1 DEF SumsUp
  <1> QED BY <1>1, <1>7

\* There is a function that sums up any subset of a finite set.
LEMMA SumExists ==
    ASSUME NEW F, NEW S, IsFiniteSet(S)
    PROVE  \E g : SumsUp(F, SUBSET S, g)
  <1>1. Cardinality(S) \in Nat
    BY FS_CardinalityType
  <1>2. SmallSubsets(S, Cardinality(S)) = SUBSET S
    BY FS_Subset DEF SmallSubsets
  <1> DEFINE k == Cardinality(S)
  <1>3. \E g : SumsUp(F, SmallSubsets(S, k), g)
    BY <1>1, SumExistsForSmall
  <1> QED BY <1>2, <1>3

\* What SumFunctionOnSet evaluates.
LEMMA SumIsTheirs ==
    ASSUME NEW F, NEW S, IsFiniteSet(S)
    PROVE  \E g : SumsUp(F, SUBSET S, g) /\ SumFunctionOnSet(F, S) = g[S]
  <1> DEFINE g == CHOOSE h : h = [s \in SUBSET S |->
                    IF s = {} THEN 0
                    ELSE LET x == CHOOSE x \in s : TRUE IN F[x] + h[s \ {x}]]
  <1>1. SumFunctionOnSet(F, S) = g[S]
    BY DEF SumFunctionOnSet, FoldFunctionOnSet, MapThenFoldSet
  <1>2. PICK h : SumsUp(F, SUBSET S, h)
    BY SumExists
  <1>3. h = [s \in SUBSET S |->
                    IF s = {} THEN 0
                    ELSE LET x == CHOOSE x \in s : TRUE IN F[x] + h[s \ {x}]]
    BY <1>2, Zenon DEF SumsUp, SumStep, FirstOf, RestOf
  <1>4. g = [s \in SUBSET S |->
                    IF s = {} THEN 0
                    ELSE LET x == CHOOSE x \in s : TRUE IN F[x] + g[s \ {x}]]
    BY <1>3, Zenon
  <1> HIDE DEF g
  <1>5. SumsUp(F, SUBSET S, g)
    BY <1>4, Zenon DEF SumsUp, SumStep, FirstOf, RestOf
  <1> QED BY <1>1, <1>5

-----------------------------------------------------------------------------
(* The sum, one element after the other.                                    *)

\* A sum is the first element and the sum of the rest.
LEMMA SumFirst ==
    ASSUME NEW F, NEW S, IsFiniteSet(S)
    PROVE  SumFunctionOnSet(F, S) =
             IF S = {} THEN 0 ELSE F[FirstOf(S)] + SumFunctionOnSet(F, RestOf(S))
  <1>1. PICK g : SumsUp(F, SUBSET S, g) /\ SumFunctionOnSet(F, S) = g[S]
    BY SumIsTheirs
  <1>2. g[S] = SumStep(F, g, S)
    BY <1>1 DEF SumsUp
  <1>3. CASE S = {}
    BY <1>1, <1>2, <1>3 DEF SumStep
  <1>4. CASE S # {}
    <2>1. IsFiniteSet(RestOf(S)) /\ RestOf(S) \in SUBSET S
      BY <1>4, RestIsSmaller
    <2>2. PICK h : SumsUp(F, SUBSET RestOf(S), h) /\ SumFunctionOnSet(F, RestOf(S)) = h[RestOf(S)]
      BY <2>1, SumIsTheirs
    <2>3. ClosedUnderRest(SUBSET S) /\ ClosedUnderRest(SUBSET RestOf(S))
      BY <2>1, SmallIsClosed
    <2>4. g[RestOf(S)] = h[RestOf(S)]
      BY <1>1, <2>1, <2>2, <2>3, SumIsUnique
    <2> QED BY <1>1, <1>2, <1>4, <2>2, <2>4 DEF SumStep
  <1> QED BY <1>3, <1>4

\* A sum of naturals is a natural.
LEMMA SumIsNatural ==
    ASSUME NEW F, NEW S, IsFiniteSet(S), \A x \in S : F[x] \in Nat
    PROVE  SumFunctionOnSet(F, S) \in Nat
  <1> DEFINE B == {s \in SUBSET S : SumFunctionOnSet(F, s) \notin Nat}
  <1> SUFFICES ASSUME B # {} PROVE FALSE
    OBVIOUS
  <1>1. \A s \in B : IsFiniteSet(s)
    BY FS_Subset
  <1>2. PICK t \in B : \A u \in B : Cardinality(t) <= Cardinality(u)
    BY <1>1, SmallestSet, Zenon
  <1>3. SumFunctionOnSet(F, t) =
          IF t = {} THEN 0 ELSE F[FirstOf(t)] + SumFunctionOnSet(F, RestOf(t))
    BY <1>1, SumFirst
  <1>4. t # {}
    BY <1>3
  <1>5. /\ FirstOf(t) \in t /\ RestOf(t) \subseteq t /\ Cardinality(t) \in Nat
        /\ Cardinality(RestOf(t)) = Cardinality(t) - 1
    BY <1>1, <1>4, RestIsSmaller
  <1>6. RestOf(t) \notin B
    BY <1>2, <1>5
  <1>7. SumFunctionOnSet(F, RestOf(t)) \in Nat /\ F[FirstOf(t)] \in Nat
    BY <1>5, <1>6
  <1> QED BY <1>3, <1>4, <1>7

\* Any element may be taken first.
LEMMA SumTakesAny ==
    ASSUME NEW F, NEW S, IsFiniteSet(S), \A x \in S : F[x] \in Nat, NEW y \in S
    PROVE  SumFunctionOnSet(F, S) = F[y] + SumFunctionOnSet(F, S \ {y})
  <1> DEFINE Sum(s) == SumFunctionOnSet(F, s)
             B == {s \in SUBSET S : \E z \in s : Sum(s) # F[z] + Sum(s \ {z})}
  <1>0. ASSUME NEW s \in SUBSET S
        PROVE  /\ IsFiniteSet(s) /\ Cardinality(s) \in Nat /\ Sum(s) \in Nat
               /\ s # {} => Sum(s) = F[FirstOf(s)] + Sum(s \ {FirstOf(s)})
    <2>1. IsFiniteSet(s)
      BY FS_Subset
    <2>2. Cardinality(s) \in Nat
      BY <2>1, FS_CardinalityType
    <2>3. Sum(s) \in Nat
      BY <2>1, SumIsNatural
    <2>4. s # {} => Sum(s) = F[FirstOf(s)] + Sum(RestOf(s))
      BY <2>1, SumFirst
    <2> QED BY <2>1, <2>2, <2>3, <2>4 DEF RestOf
  <1> SUFFICES ASSUME B # {} PROVE FALSE
    OBVIOUS
  <1> HIDE DEF Sum
  <1>1. PICK t \in B : \A u \in B : Cardinality(t) <= Cardinality(u)
    BY <1>0, SmallestSet, \A s \in B : IsFiniteSet(s), Zenon
  <1>2. PICK z \in t : Sum(t) # F[z] + Sum(t \ {z})
    BY <1>1
  <1> DEFINE x == FirstOf(t)
  <1>3. x \in t /\ Sum(t) = F[x] + Sum(t \ {x})
    BY <1>0, <1>2 DEF FirstOf
  <1>4. x # z
    BY <1>2, <1>3
  <1> HIDE DEF x
  <1>5. /\ t \in SUBSET S /\ IsFiniteSet(t) /\ Cardinality(t) \in Nat
        /\ Cardinality(t \ {x}) = Cardinality(t) - 1
        /\ Cardinality(t \ {z}) = Cardinality(t) - 1
    <2>1. t \in SUBSET S /\ IsFiniteSet(t) /\ Cardinality(t) \in Nat
      BY <1>0, <1>1
    <2> QED BY <1>2, <1>3, <2>1, FS_RemoveElement
  <1>6. t \ {x} \notin B /\ t \ {z} \notin B
    <2>1. ~(Cardinality(t) <= Cardinality(t \ {x})) /\ ~(Cardinality(t) <= Cardinality(t \ {z}))
      BY <1>5
    <2> QED BY <1>1, <2>1
  <1>7. Sum(t \ {x}) = F[z] + Sum((t \ {x}) \ {z})
    BY <1>2, <1>4, <1>6
  <1>8. Sum(t \ {z}) = F[x] + Sum((t \ {z}) \ {x})
    BY <1>3, <1>4, <1>6
  <1>9. (t \ {x}) \ {z} = (t \ {z}) \ {x}
    OBVIOUS
  <1>10. F[x] \in Nat /\ F[z] \in Nat /\ Sum((t \ {x}) \ {z}) \in Nat
    BY <1>0, <1>2, <1>3
  <1> QED BY <1>2, <1>3, <1>7, <1>8, <1>9, <1>10

\* A sum is at most as much as its greatest summand for each element.
LEMMA SumAtMost ==
    ASSUME NEW F, NEW S, IsFiniteSet(S), NEW M \in Nat, \A x \in S : F[x] \in 0..M
    PROVE  SumFunctionOnSet(F, S) <= M * Cardinality(S)
  <1> DEFINE Sum(s) == SumFunctionOnSet(F, s)
             B == {s \in SUBSET S : ~(Sum(s) <= M * Cardinality(s))}
  <1> SUFFICES ASSUME B # {} PROVE FALSE
    OBVIOUS
  <1>1. \A s \in SUBSET S : IsFiniteSet(s) /\ Sum(s) \in Nat
    BY FS_Subset, SumIsNatural
  <1>2. PICK t \in B : \A u \in B : Cardinality(t) <= Cardinality(u)
    BY <1>1, SmallestSet, \A s \in B : IsFiniteSet(s), Zenon
  <1>3. Sum(t) = IF t = {} THEN 0 ELSE F[FirstOf(t)] + Sum(RestOf(t))
    BY <1>1, SumFirst
  <1> HIDE DEF Sum
  <1>4. t # {}
    <2> SUFFICES ASSUME t = {} PROVE FALSE
      OBVIOUS
    <2>1. Sum(t) = 0 /\ Cardinality(t) = 0
      BY <1>3, FS_EmptySet
    <2>2. M * Cardinality(t) = 0
      BY <2>1
    <2>3. ~(Sum(t) <= M * Cardinality(t))
      BY <1>2
    <2> QED BY <2>1, <2>2, <2>3
  <1>5. /\ FirstOf(t) \in t /\ RestOf(t) \subseteq t /\ Cardinality(t) \in Nat
        /\ Cardinality(RestOf(t)) = Cardinality(t) - 1
    BY <1>1, <1>4, RestIsSmaller
  <1>6. Sum(RestOf(t)) <= M * (Cardinality(t) - 1)
    <2>1. RestOf(t) \notin B
      BY <1>2, <1>5
    <2> QED BY <1>2, <1>5, <2>1
  <1>7. M * (Cardinality(t) - 1) = M * Cardinality(t) - M /\ M * Cardinality(t) \in Nat
    BY <1>5
  <1>8. F[FirstOf(t)] \in 0..M /\ Sum(RestOf(t)) \in Nat
    BY <1>1, <1>5
  <1> QED BY <1>2, <1>3, <1>4, <1>6, <1>7, <1>8

\* Adding the same to each summand.
LEMMA SumShifted ==
    ASSUME NEW F, NEW S, IsFiniteSet(S), NEW c \in Nat,
           NEW G, \A x \in S : F[x] \in Nat /\ G[x] = F[x] + c
    PROVE  SumFunctionOnSet(G, S) = SumFunctionOnSet(F, S) + c * Cardinality(S)
  <1> DEFINE SumF(s) == SumFunctionOnSet(F, s)
             SumG(s) == SumFunctionOnSet(G, s)
             B == {s \in SUBSET S : SumG(s) # SumF(s) + c * Cardinality(s)}
  <1> SUFFICES ASSUME B # {} PROVE FALSE
    OBVIOUS
  <1>1. \A s \in SUBSET S : IsFiniteSet(s) /\ SumF(s) \in Nat /\ SumG(s) \in Nat
    <2>1. \A x \in S : G[x] \in Nat
      OBVIOUS
    <2> QED BY <2>1, FS_Subset, SumIsNatural
  <1>2. PICK t \in B : \A u \in B : Cardinality(t) <= Cardinality(u)
    BY <1>1, SmallestSet, \A s \in B : IsFiniteSet(s), Zenon
  <1>3. /\ SumF(t) = IF t = {} THEN 0 ELSE F[FirstOf(t)] + SumF(RestOf(t))
        /\ SumG(t) = IF t = {} THEN 0 ELSE G[FirstOf(t)] + SumG(RestOf(t))
    BY <1>1, SumFirst
  <1> HIDE DEF SumF, SumG
  <1>4. t # {}
    <2> SUFFICES ASSUME t = {} PROVE FALSE
      OBVIOUS
    <2>1. SumF(t) = 0 /\ SumG(t) = 0 /\ Cardinality(t) = 0
      BY <1>3, FS_EmptySet
    <2>2. c * Cardinality(t) = 0
      BY <2>1
    <2>3. SumG(t) # SumF(t) + c * Cardinality(t)
      BY <1>2
    <2> QED BY <2>1, <2>2, <2>3
  <1>5. /\ FirstOf(t) \in t /\ RestOf(t) \subseteq t /\ Cardinality(t) \in Nat
        /\ Cardinality(RestOf(t)) = Cardinality(t) - 1
    BY <1>1, <1>4, RestIsSmaller
  <1>6. SumG(RestOf(t)) = SumF(RestOf(t)) + c * (Cardinality(t) - 1)
    <2>1. RestOf(t) \notin B
      BY <1>2, <1>5
    <2> QED BY <1>2, <1>5, <2>1
  <1>7. c * (Cardinality(t) - 1) = c * Cardinality(t) - c /\ c * Cardinality(t) \in Nat
    BY <1>5
  <1>8. /\ F[FirstOf(t)] \in Nat /\ G[FirstOf(t)] = F[FirstOf(t)] + c
        /\ SumF(RestOf(t)) \in Nat /\ SumG(RestOf(t)) \in Nat
    BY <1>1, <1>5
  <1> QED BY <1>2, <1>3, <1>4, <1>6, <1>7, <1>8

\* Summands that are replaced by smaller ones, one for one, add up to less.
LEMMA SumOfSmaller ==
    ASSUME NEW F, NEW G, NEW m, NEW S, IsFiniteSet(S),
           \A x \in S : F[x] \in Nat /\ G[m[x]] \in Nat /\ G[m[x]] <= F[x],
           \A x, y \in S : m[x] = m[y] => x = y
    PROVE  SumFunctionOnSet(G, {m[x] : x \in S}) <= SumFunctionOnSet(F, S)
  <1> DEFINE Image(s) == {m[x] : x \in s}
             SumF(s) == SumFunctionOnSet(F, s)
             SumG(s) == SumFunctionOnSet(G, Image(s))
             B == {s \in SUBSET S : ~(SumG(s) <= SumF(s))}
  <1> SUFFICES ASSUME B # {} PROVE FALSE
    OBVIOUS
  <1>1. ASSUME NEW s \in SUBSET S
        PROVE  IsFiniteSet(s) /\ IsFiniteSet(Image(s)) /\ SumF(s) \in Nat /\ SumG(s) \in Nat
    <2>1. IsFiniteSet(s)
      BY FS_Subset
    <2>2. IsFiniteSet(Image(s))
      <3> DEFINE f == [x \in s |-> m[x]]
      <3>1. f \in Surjection(s, Image(s))
        BY DEF Surjection
      <3> QED BY <2>1, <3>1, FS_Surjection
    <2>3. \A y \in Image(s) : G[y] \in Nat
      OBVIOUS
    <2> HIDE DEF Image
    <2> QED BY <2>1, <2>2, <2>3, SumIsNatural
  <1>2. PICK t \in B : \A u \in B : Cardinality(t) <= Cardinality(u)
    BY <1>1, SmallestSet, \A s \in B : IsFiniteSet(s), Zenon
  <1>3. t \in SUBSET S /\ IsFiniteSet(t) /\ ~(SumG(t) <= SumF(t))
    BY <1>1, <1>2
  <1>4. SumF({}) = 0 /\ SumG({}) = 0
    <2>1. IsFiniteSet({}) /\ Image({}) = {}
      BY FS_EmptySet
    <2> HIDE DEF Image
    <2> QED BY <2>1, SumFirst
  <1> HIDE DEF SumF
  <1>5. t # {}
    BY <1>3, <1>4
  <1> DEFINE x == FirstOf(t)
             r == RestOf(t)
  <1>6. /\ x \in t /\ r \subseteq t /\ r = t \ {x} /\ IsFiniteSet(r) /\ Cardinality(t) \in Nat
        /\ Cardinality(r) = Cardinality(t) - 1
    BY <1>3, <1>5, RestIsSmaller DEF RestOf
  <1>7. SumF(t) = F[x] + SumF(r)
    BY <1>3, <1>5, SumFirst DEF SumF
  <1> HIDE DEF x, r
  <1>8. SumG(t) = G[m[x]] + SumG(r)
    <2>1. m[x] \in Image(t) /\ Image(t) \ {m[x]} = Image(r)
      BY <1>3, <1>6
    <2>2. IsFiniteSet(Image(t)) /\ \A y \in Image(t) : G[y] \in Nat
      BY <1>1, <1>3
    <2> HIDE DEF Image
    <2> QED BY <2>1, <2>2, SumTakesAny
  <1>9. SumG(r) <= SumF(r)
    <2>1. r \in SUBSET S /\ ~(Cardinality(t) <= Cardinality(r))
      BY <1>3, <1>6
    <2> QED BY <1>2, <2>1
  <1>10. /\ F[x] \in Nat /\ G[m[x]] \in Nat /\ G[m[x]] <= F[x]
         /\ SumF(r) \in Nat /\ SumG(r) \in Nat
    BY <1>1, <1>3, <1>6
  <1> HIDE DEF SumG
  <1> QED BY <1>3, <1>7, <1>8, <1>9, <1>10

\* A sum depends on the summands alone.
LEMMA SumOfSame ==
    ASSUME NEW F, NEW G, NEW S, IsFiniteSet(S), \A x \in S : F[x] \in Nat /\ G[x] = F[x]
    PROVE  SumFunctionOnSet(G, S) = SumFunctionOnSet(F, S)
  <1> DEFINE m == [x \in S |-> x]
  <1>1. {m[x] : x \in S} = S /\ \A x, y \in S : m[x] = m[y] => x = y
    OBVIOUS
  <1>2. \A x \in S : /\ F[x] \in Nat /\ G[m[x]] \in Nat /\ G[m[x]] <= F[x]
                     /\ G[x] \in Nat /\ F[m[x]] \in Nat /\ F[m[x]] <= G[x]
    OBVIOUS
  <1> HIDE DEF m
  <1>3. /\ SumFunctionOnSet(G, {m[x] : x \in S}) <= SumFunctionOnSet(F, S)
        /\ SumFunctionOnSet(F, {m[x] : x \in S}) <= SumFunctionOnSet(G, S)
    BY <1>1, <1>2, SumOfSmaller
  <1>4. SumFunctionOnSet(G, S) \in Nat /\ SumFunctionOnSet(F, S) \in Nat
    BY SumIsNatural
  <1> QED BY <1>1, <1>3, <1>4

\* Two sets that share nothing are summed up one after the other.
LEMMA SumOfTwo ==
    ASSUME NEW F, NEW S, IsFiniteSet(S), \A x \in S : F[x] \in Nat,
           NEW T \in SUBSET S, NEW U \in SUBSET S, T \intersect U = {}
    PROVE  SumFunctionOnSet(F, T \union U) = SumFunctionOnSet(F, T) + SumFunctionOnSet(F, U)
  <1> DEFINE Sum(s) == SumFunctionOnSet(F, s)
             B == {s \in SUBSET T : Sum(s \union U) # Sum(s) + Sum(U)}
  <1> SUFFICES ASSUME B # {} PROVE FALSE
    OBVIOUS
  <1>1. \A s \in SUBSET S : IsFiniteSet(s) /\ Sum(s) \in Nat
    BY FS_Subset, SumIsNatural
  <1>2. \A s \in SUBSET S : \A y \in s : Sum(s) = F[y] + Sum(s \ {y})
    BY <1>1, SumTakesAny
  <1>3. Sum({}) = 0
    BY SumFirst, FS_EmptySet
  <1> HIDE DEF Sum
  <1>4. PICK s \in B : \A u \in B : Cardinality(s) <= Cardinality(u)
    BY <1>1, SmallestSet, \A s \in B : IsFiniteSet(s), Zenon
  <1>5. s \in SUBSET S /\ s \union U \in SUBSET S /\ U \in SUBSET S /\ IsFiniteSet(s)
    BY <1>1
  <1>6. s # {}
    <2> SUFFICES ASSUME s = {} PROVE FALSE
      OBVIOUS
    <2>1. s \union U = U /\ Sum(U) \in Nat
      BY <1>1
    <2> QED BY <1>3, <1>4, <2>1
  <1>7. PICK y \in s : TRUE
    BY <1>6
  <1>8. s \ {y} \notin B
    <2>1. Cardinality(s \ {y}) = Cardinality(s) - 1 /\ Cardinality(s) \in Nat
      BY <1>5, <1>7, FS_RemoveElement, FS_CardinalityType
    <2>2. ~(Cardinality(s) <= Cardinality(s \ {y}))
      BY <2>1
    <2> QED BY <1>4, <2>2
  <1>9. Sum((s \ {y}) \union U) = Sum(s \ {y}) + Sum(U)
    BY <1>8
  <1>10. (s \union U) \ {y} = (s \ {y}) \union U
    BY <1>7
  <1>11. Sum(s \union U) = F[y] + Sum((s \union U) \ {y}) /\ Sum(s) = F[y] + Sum(s \ {y})
    BY <1>2, <1>5, <1>7
  <1>12. Sum(s \ {y}) \in Nat /\ Sum(U) \in Nat /\ F[y] \in Nat
    BY <1>1, <1>5, <1>7
  <1>13. Sum(s \union U) # Sum(s) + Sum(U)
    BY <1>4
  <1> QED BY <1>9, <1>10, <1>11, <1>12, <1>13

\* The sums of parts that share nothing add up to the sum of all of them.
LEMMA SumByParts ==
    ASSUME NEW F, NEW S, IsFiniteSet(S), \A x \in S : F[x] \in Nat,
           NEW K, IsFiniteSet(K), NEW P, \A k \in K : P[k] \in SUBSET S,
           \A k, l \in K : k # l => P[k] \intersect P[l] = {},
           NEW G, \A k \in K : G[k] = SumFunctionOnSet(F, P[k])
    PROVE  SumFunctionOnSet(G, K) = SumFunctionOnSet(F, UNION {P[k] : k \in K})
  <1> DEFINE Sum(s) == SumFunctionOnSet(F, s)
             Parts(s) == SumFunctionOnSet(G, s)
             All(s) == UNION {P[k] : k \in s}
             B == {s \in SUBSET K : Parts(s) # Sum(All(s))}
  <1> SUFFICES ASSUME B # {} PROVE FALSE
    OBVIOUS
  <1>1. \A s \in SUBSET S : IsFiniteSet(s) /\ Sum(s) \in Nat
    BY FS_Subset, SumIsNatural
  <1>2. \A k \in K : G[k] = Sum(P[k]) /\ G[k] \in Nat
    BY <1>1
  <1>3. \A s \in SUBSET K : IsFiniteSet(s)
    BY FS_Subset
  <1>4. \A s \in SUBSET K : \A k \in s : Parts(s) = G[k] + Parts(s \ {k})
    <2> SUFFICES ASSUME NEW s \in SUBSET K, NEW k \in s PROVE Parts(s) = G[k] + Parts(s \ {k})
      OBVIOUS
    <2>1. IsFiniteSet(s) /\ \A x \in s : G[x] \in Nat
      BY <1>2, <1>3
    <2> QED BY <2>1, SumTakesAny
  <1>5. Sum({}) = 0 /\ Parts({}) = 0
    BY SumFirst, FS_EmptySet
  <1>6. \A t, u \in SUBSET S : t \intersect u = {} => Sum(t \union u) = Sum(t) + Sum(u)
    BY SumOfTwo
  <1> HIDE DEF Sum, Parts
  <1>7. PICK s \in B : \A u \in B : Cardinality(s) <= Cardinality(u)
    BY <1>3, SmallestSet, \A s \in B : IsFiniteSet(s), Zenon
  <1>8. s \in SUBSET K /\ Parts(s) # Sum(All(s))
    BY <1>7
  <1>9. PICK k \in s : TRUE
    <2> SUFFICES ASSUME s = {} PROVE FALSE
      OBVIOUS
    <2>1. All({}) = {}
      OBVIOUS
    <2> HIDE DEF All
    <2> QED BY <1>5, <1>8, <2>1
  <1>10. s \ {k} \notin B
    <2>1. Cardinality(s \ {k}) = Cardinality(s) - 1 /\ Cardinality(s) \in Nat
      BY <1>3, <1>8, <1>9, FS_RemoveElement, FS_CardinalityType
    <2>2. ~(Cardinality(s) <= Cardinality(s \ {k}))
      BY <2>1
    <2> QED BY <1>7, <2>2
  <1>11. Parts(s \ {k}) = Sum(All(s \ {k}))
    BY <1>8, <1>10
  <1>12. /\ All(s) = P[k] \union All(s \ {k}) /\ P[k] \intersect All(s \ {k}) = {}
         /\ P[k] \in SUBSET S /\ All(s \ {k}) \in SUBSET S
    <2>1. All(s) = P[k] \union All(s \ {k})
      BY <1>9
    <2>2. P[k] \intersect All(s \ {k}) = {}
      BY <1>8, <1>9
    <2>3. P[k] \in SUBSET S
      BY <1>8, <1>9
    <2>4. All(s \ {k}) \in SUBSET S
      BY <1>8, <1>9
    <2> QED BY <2>1, <2>2, <2>3, <2>4
  <1> HIDE DEF All
  <1>13. Sum(All(s)) = Sum(P[k]) + Sum(All(s \ {k}))
    BY <1>6, <1>12
  <1>14. Parts(s) = Sum(P[k]) + Sum(All(s \ {k}))
    BY <1>2, <1>4, <1>8, <1>9, <1>11
  <1> QED BY <1>8, <1>13, <1>14
=============================================================================
