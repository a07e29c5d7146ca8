------------------------------ MODULE SumLemmas ------------------------------
(***************************************************************************)
(* Induction over the naturals, stated with sets, and what it shows of the *)
(* sums that PaymentSafety and BreakdownSafety take over the rows of an    *)
(* order.                                                                  *)
(***************************************************************************)
EXTENDS Functions, FiniteSets, FiniteSetTheorems, WellFoundedInduction, TLAPS

\* A set that holds zero and the successor of each of its members holds every natural.
LEMMA NatSets ==
  ASSUME NEW T \in SUBSET Nat, 0 \in T, \A n \in T : n + 1 \in T
  PROVE  T = Nat
<1>. DEFINE Rest == Nat \ T
<1>1. SUFFICES ASSUME Rest # {} PROVE FALSE
  OBVIOUS
<1>2. PICK x \in Rest : \A y \in Rest : ~ (<<y, x>> \in OpToRel(<, Nat))
  <2>1. Rest \subseteq Nat
    OBVIOUS
  <2>. HIDE DEF Rest
  <2>. QED
    BY <1>1, <2>1, NatLessThanWellFounded, WFMin
<1>3. \A y \in Rest : ~ (y < x)
  BY <1>2 DEF OpToRel
<1>4. x # 0 /\ x - 1 \in Nat
  OBVIOUS
<1>5. x - 1 \in T
  BY <1>3, <1>4
<1>. QED
  BY <1>4, <1>5
\* Taking any element away from a set of n + 1 leaves n.
LEMMA OneLess ==
  ASSUME NEW S, IsFiniteSet(S), NEW n \in Nat, Cardinality(S) = n + 1
  PROVE  /\ S # {}
         /\ \A x \in S : IsFiniteSet(S \ {x}) /\ Cardinality(S \ {x}) = n
<1>1. S # {}
  BY FS_EmptySet
<1>2. ASSUME NEW x \in S
      PROVE  IsFiniteSet(S \ {x}) /\ Cardinality(S \ {x}) = n
  <2>1. IsFiniteSet(S \ {x}) /\ Cardinality(S \ {x}) = Cardinality(S) - 1
    BY FS_RemoveElement
  <2>. QED
    BY <2>1
<1>. QED
  BY <1>1, <1>2

-----------------------------------------------------------------------------
\* The recursion behind SumFunctionOnSet

\* The sum over s, given the sums over its subsets.
SumStep(f, h, s) ==
  IF s = {} THEN 0 ELSE LET x == CHOOSE x \in s : TRUE IN f[x] + h[s \ {x}]

SumsUp(f, S, h) == h = [s \in SUBSET S |-> SumStep(f, h, s)]

\* Every finite set has a function that sums up its subsets: one for the subsets of at most n
\* elements extends to those of n + 1.
LEMMA SumsExist ==
  ASSUME NEW f, NEW S, IsFiniteSet(S)
  PROVE  \E h : SumsUp(f, S, h)
<1>. DEFINE Small(n) == {s \in SUBSET S : Cardinality(s) <= n}
            Upto(n, h) == h = [s \in Small(n) |-> SumStep(f, h, s)]
            Reached == {n \in Nat : \E h : Upto(n, h)}
<1>1. \A s \in SUBSET S : IsFiniteSet(s) /\ Cardinality(s) \in Nat
  BY FS_Subset, FS_CardinalityType
<1>2. ASSUME NEW n \in Nat, NEW s \in Small(n + 1), s # {}
      PROVE  LET x == CHOOSE x \in s : TRUE IN x \in s /\ s \ {x} \in Small(n)
  <2>. DEFINE x == CHOOSE y \in s : TRUE
  <2>1. x \in s
    BY <1>2
  <2>2. Cardinality(s \ {x}) = Cardinality(s) - 1
    BY <1>1, <2>1, FS_RemoveElement
  <2>. QED
    BY <1>1, <2>1, <2>2
<1>3. 0 \in Reached
  <2>1. Small(0) = {{}}
    BY <1>1, FS_EmptySet
  <2>2. Upto(0, [s \in Small(0) |-> 0])
    BY <2>1 DEF SumStep
  <2>. QED
    BY <2>2
<1>4. ASSUME NEW n \in Nat, NEW h, Upto(n, h)
      PROVE  \E g : Upto(n + 1, g)
  <2>. DEFINE g == [s \in Small(n + 1) |-> IF s \in Small(n) THEN h[s] ELSE SumStep(f, h, s)]
  <2>1. Small(n) \subseteq Small(n + 1)
    BY <1>1
  <2>2. ASSUME NEW s \in Small(n + 1)
        PROVE  g[s] = SumStep(f, g, s)
    <3>1. g[s] = SumStep(f, h, s)
      BY <1>4
    <3>2. CASE s = {}
      BY <3>1, <3>2 DEF SumStep
    <3>3. CASE s # {}
      <4>1. PICK x : x = CHOOSE y \in s : TRUE
        OBVIOUS
      <4>2. s \ {x} \in Small(n)
        BY <1>2, <3>3, <4>1
      <4>3. g[s \ {x}] = h[s \ {x}]
        BY <2>1, <4>2
      <4>. QED
        BY <3>1, <3>3, <4>1, <4>3 DEF SumStep
    <3>. QED
      BY <3>2, <3>3
  <2>3. Upto(n + 1, g)
    BY <2>2
  <2>. HIDE DEF g, Upto
  <2>. QED
    BY <2>3
<1>5. Reached = Nat
  <2>1. Reached \subseteq Nat /\ \A n \in Reached : n + 1 \in Reached
    <3>. HIDE DEF Upto
    <3>. QED
      BY <1>4
  <2>. HIDE DEF Reached
  <2>. QED
    BY <1>3, <2>1, NatSets
<1>6. Small(Cardinality(S)) = SUBSET S
  BY <1>1, FS_Subset
<1>7. \E h : Upto(Cardinality(S), h)
  <2>. HIDE DEF Upto
  <2>. QED
    BY <1>1, <1>5
<1>. HIDE DEF Small
<1>. QED
  BY <1>6, <1>7 DEF SumsUp

\* Two such functions agree where both are defined, for terms that agree there.
LEMMA SumsAgree ==
  ASSUME NEW f, NEW S, NEW h, SumsUp(f, S, h), NEW g, NEW T, NEW k, SumsUp(g, T, k),
         NEW U, IsFiniteSet(U), U \subseteq S, U \subseteq T, \A x \in U : f[x] = g[x]
  PROVE  h[U] = k[U]
<1>. DEFINE Same == {n \in Nat : \A s \in SUBSET U : Cardinality(s) = n => h[s] = k[s]}
<1>1. \A s \in SUBSET U : IsFiniteSet(s) /\ Cardinality(s) \in Nat
  BY FS_Subset, FS_CardinalityType
<1>2. \A s \in SUBSET U : h[s] = SumStep(f, h, s) /\ k[s] = SumStep(g, k, s)
  BY DEF SumsUp
<1>3. 0 \in Same
  BY <1>1, <1>2, FS_EmptySet DEF SumStep
<1>4. ASSUME NEW n \in Same
      PROVE  n + 1 \in Same
  <2>1. ASSUME NEW s \in SUBSET U, Cardinality(s) = n + 1
        PROVE  h[s] = k[s]
    <3>1. IsFiniteSet(s) /\ n \in Nat
      BY <1>1
    <3>2. PICK x : x = CHOOSE y \in s : TRUE
      OBVIOUS
    <3>3. s # {} /\ x \in s /\ Cardinality(s \ {x}) = n
      <4>1. s # {} /\ \A y \in s : Cardinality(s \ {y}) = n
        <5>. HIDE DEF Same
        <5>. QED
          BY <2>1, <3>1, OneLess
      <4>2. x \in s
        BY <3>2, <4>1
      <4>. QED
        BY <4>1, <4>2
    <3>4. h[s \ {x}] = k[s \ {x}] /\ f[x] = g[x]
      BY <3>3
    <3>5. h[s] = f[x] + h[s \ {x}] /\ k[s] = g[x] + k[s \ {x}]
      BY <1>2, <3>2, <3>3 DEF SumStep
    <3>. QED
      BY <3>4, <3>5
  <2>. QED
    BY <2>1
<1>5. Same = Nat
  <2>1. Same \subseteq Nat
    OBVIOUS
  <2>. HIDE DEF Same
  <2>. QED
    BY <1>3, <1>4, <2>1, NatSets
<1>. QED
  BY <1>1, <1>5

LEMMA SumIs ==
  ASSUME NEW f, NEW S, IsFiniteSet(S)
  PROVE  \E h : SumsUp(f, S, h) /\ SumFunctionOnSet(f, S) = h[S]
<1>. DEFINE h == CHOOSE h : h = [s \in SUBSET S |-> IF s = {} THEN 0
                                   ELSE LET x == CHOOSE x \in s : TRUE IN f[x] + h[s \ {x}]]
<1>1. SumsUp(f, S, h)
  <2>1. PICK g : g = [s \in SUBSET S |-> SumStep(f, g, s)]
    BY SumsExist DEF SumsUp
  <2>2. h = [s \in SUBSET S |-> SumStep(f, h, s)]
    BY <2>1 DEF SumStep
  <2>. QED
    BY <2>2 DEF SumsUp
<1>2. SumFunctionOnSet(f, S) = h[S]
  BY DEF SumFunctionOnSet, FoldFunctionOnSet, MapThenFoldSet
<1>. HIDE DEF h
<1>. QED
  BY <1>1, <1>2

-----------------------------------------------------------------------------
\* Sums over a finite set

\* A sum is that of any function that sums up a set the summands are in.
LEMMA SumWithin ==
  ASSUME NEW f, NEW S, NEW h, SumsUp(f, S, h), NEW T, IsFiniteSet(T), T \subseteq S
  PROVE  SumFunctionOnSet(f, T) = h[T]
  BY SumIs, SumsAgree

\* A sum depends on the terms summed up.
LEMMA SumSame ==
  ASSUME NEW f, NEW g, NEW S, IsFiniteSet(S), \A x \in S : f[x] = g[x]
  PROVE  SumFunctionOnSet(f, S) = SumFunctionOnSet(g, S)
<1>1. PICK h : SumsUp(f, S, h) /\ SumFunctionOnSet(f, S) = h[S]
  BY SumIs
<1>2. PICK k : SumsUp(g, S, k) /\ SumFunctionOnSet(g, S) = k[S]
  BY SumIs
<1>. QED
  BY <1>1, <1>2, SumsAgree

LEMMA SumUnfolds ==
  ASSUME NEW f, NEW S, IsFiniteSet(S)
  PROVE  /\ S = {} => SumFunctionOnSet(f, S) = 0
         /\ S # {} => LET x == CHOOSE x \in S : TRUE
                      IN  SumFunctionOnSet(f, S) = f[x] + SumFunctionOnSet(f, S \ {x})
<1>1. PICK h : SumsUp(f, S, h) /\ SumFunctionOnSet(f, S) = h[S]
  BY SumIs
<1>2. h[S] = SumStep(f, h, S)
  BY <1>1 DEF SumsUp
<1>3. \A x : SumFunctionOnSet(f, S \ {x}) = h[S \ {x}]
  BY <1>1, SumWithin, FS_RemoveElement
<1>. QED
  BY <1>1, <1>2, <1>3 DEF SumStep

\* A sum of integers is an integer.
LEMMA SumInt ==
  ASSUME NEW S, IsFiniteSet(S), NEW f, \A x \in S : f[x] \in Int
  PROVE  SumFunctionOnSet(f, S) \in Int
<1>. DEFINE Sizes == {n \in Nat : \A s \in SUBSET S :
                        Cardinality(s) = n => SumFunctionOnSet(f, s) \in Int}
<1>1. \A s \in SUBSET S : IsFiniteSet(s) /\ Cardinality(s) \in Nat
  BY FS_Subset, FS_CardinalityType
<1>2. \A s \in SUBSET S : Cardinality(s) = 0 => SumFunctionOnSet(f, s) \in Int
  <2>1. \A s \in SUBSET S : Cardinality(s) = 0 => s = {}
    BY <1>1, FS_EmptySet
  <2>2. SumFunctionOnSet(f, {}) = 0
    BY SumUnfolds, FS_EmptySet
  <2>. QED
    BY <2>1, <2>2
<1>3. ASSUME NEW n \in Sizes, NEW s \in SUBSET S, Cardinality(s) = n + 1
      PROVE  SumFunctionOnSet(f, s) \in Int
  <2>1. IsFiniteSet(s) /\ n \in Nat
    BY <1>1
  <2>2. s # {} /\ \A y \in s : Cardinality(s \ {y}) = n
    <3>. HIDE DEF Sizes
    <3>. QED
      BY <1>3, <2>1, OneLess
  <2>3. PICK x \in s : SumFunctionOnSet(f, s) = f[x] + SumFunctionOnSet(f, s \ {x})
    BY <2>1, <2>2, SumUnfolds
  <2>4. Cardinality(s \ {x}) = n
    BY <2>2
  <2>5. SumFunctionOnSet(f, s \ {x}) \in Int
    BY <2>4
  <2>. QED
    BY <2>3, <2>5
<1>4. Sizes = Nat
  <2>1. Sizes \subseteq Nat /\ 0 \in Sizes /\ \A n \in Sizes : n + 1 \in Sizes
    BY <1>2, <1>3
  <2>. HIDE DEF Sizes
  <2>. QED
    BY <2>1, NatSets
<1>. QED
  BY <1>1, <1>4

\* Any term may be taken out first.
LEMMA SumRemove ==
  ASSUME NEW S, IsFiniteSet(S), NEW f, \A x \in S : f[x] \in Int, NEW x \in S
  PROVE  SumFunctionOnSet(f, S) = f[x] + SumFunctionOnSet(f, S \ {x})
<1>. DEFINE Sum(s) == SumFunctionOnSet(f, s)
            Good(s) == \A y \in s : Sum(s) = f[y] + Sum(s \ {y})
            Sizes == {n \in Nat : \A s \in SUBSET S : Cardinality(s) = n => Good(s)}
<1>1. \A s \in SUBSET S : IsFiniteSet(s) /\ Cardinality(s) \in Nat /\ Sum(s) \in Int
  <2>1. \A s \in SUBSET S : IsFiniteSet(s)
    BY FS_Subset
  <2>. QED
    BY <2>1, FS_CardinalityType, SumInt
<1>2. \A s \in SUBSET S : Cardinality(s) = 0 => Good(s)
  <2>1. \A s \in SUBSET S : Cardinality(s) = 0 => s = {}
    BY <1>1, FS_EmptySet
  <2>. QED
    BY <2>1
<1>3. ASSUME NEW n \in Sizes, NEW s \in SUBSET S, Cardinality(s) = n + 1
      PROVE  Good(s)
  <2>1. IsFiniteSet(s) /\ n \in Nat
    BY <1>1
  <2>2. s # {} /\ \A y \in s : Cardinality(s \ {y}) = n
    <3>. HIDE DEF Sizes
    <3>. QED
      BY <1>3, <2>1, OneLess
  <2>3. PICK c \in s : Sum(s) = f[c] + Sum(s \ {c})
    BY <2>1, <2>2, SumUnfolds
  <2>4. ASSUME NEW y \in s
        PROVE  Good(s \ {y})
    <3>1. s \ {y} \in SUBSET S /\ Cardinality(s \ {y}) = n
      BY <2>2
    <3>. HIDE DEF Good
    <3>. QED
      BY <3>1
  <2>5. ASSUME NEW y \in s, y # c
        PROVE  Sum(s) = f[y] + Sum(s \ {y})
    <3>1. c \in s \ {y} /\ y \in s \ {c} /\ (s \ {c}) \ {y} = (s \ {y}) \ {c}
      BY <2>5
    <3>2. Sum(s \ {c}) = f[y] + Sum((s \ {c}) \ {y})
      BY <2>4, <3>1
    <3>3. Sum(s \ {y}) = f[c] + Sum((s \ {y}) \ {c})
      BY <2>4, <3>1
    <3>4. f[y] \in Int /\ f[c] \in Int /\ Sum((s \ {y}) \ {c}) \in Int
      <4>1. (s \ {y}) \ {c} \in SUBSET S
        OBVIOUS
      <4>. HIDE DEF Sum
      <4>. QED
        BY <1>1, <4>1
    <3>5. Sum((s \ {c}) \ {y}) = Sum((s \ {y}) \ {c})
      BY <3>1
    <3>. HIDE DEF Sum, Good, Sizes
    <3>. QED
      BY <2>3, <3>2, <3>3, <3>4, <3>5
  <2>. HIDE DEF Sum
  <2>. QED
    BY <2>3, <2>5
<1>4. Sizes = Nat
  <2>1. Sizes \subseteq Nat /\ 0 \in Sizes /\ \A n \in Sizes : n + 1 \in Sizes
    <3>. HIDE DEF Good
    <3>. QED
      BY <1>2, <1>3
  <2>. HIDE DEF Sizes
  <2>. QED
    BY <2>1, NatSets
<1>5. Good(S)
  <2>. HIDE DEF Good
  <2>. QED
    BY <1>1, <1>4
<1>. QED
  BY <1>5

\* A sum of nothing but zeros.
LEMMA SumZero ==
  ASSUME NEW S, IsFiniteSet(S), NEW f, \A x \in S : f[x] = 0
  PROVE  SumFunctionOnSet(f, S) = 0
<1>. DEFINE Sizes == {n \in Nat : \A s \in SUBSET S :
                        Cardinality(s) = n => SumFunctionOnSet(f, s) = 0}
<1>1. \A s \in SUBSET S : IsFiniteSet(s) /\ Cardinality(s) \in Nat
  BY FS_Subset, FS_CardinalityType
<1>2. \A s \in SUBSET S : Cardinality(s) = 0 => SumFunctionOnSet(f, s) = 0
  <2>1. \A s \in SUBSET S : Cardinality(s) = 0 => s = {}
    BY <1>1, FS_EmptySet
  <2>2. SumFunctionOnSet(f, {}) = 0
    BY SumUnfolds, FS_EmptySet
  <2>. QED
    BY <2>1, <2>2
<1>3. ASSUME NEW n \in Sizes, NEW s \in SUBSET S, Cardinality(s) = n + 1
      PROVE  SumFunctionOnSet(f, s) = 0
  <2>1. IsFiniteSet(s) /\ n \in Nat
    BY <1>1
  <2>2. s # {} /\ \A y \in s : Cardinality(s \ {y}) = n
    <3>. HIDE DEF Sizes
    <3>. QED
      BY <1>3, <2>1, OneLess
  <2>3. PICK x \in s : SumFunctionOnSet(f, s) = f[x] + SumFunctionOnSet(f, s \ {x})
    BY <2>1, <2>2, SumUnfolds
  <2>4. SumFunctionOnSet(f, s \ {x}) = 0
    BY <2>2
  <2>. QED
    BY <2>3, <2>4
<1>4. Sizes = Nat
  <2>1. Sizes \subseteq Nat /\ 0 \in Sizes /\ \A n \in Sizes : n + 1 \in Sizes
    BY <1>2, <1>3
  <2>. HIDE DEF Sizes
  <2>. QED
    BY <2>1, NatSets
<1>. QED
  BY <1>1, <1>4

\* What changes one term changes the sum by as much.
LEMMA SumMoves ==
  ASSUME NEW S, IsFiniteSet(S), NEW f, NEW g, \A y \in S : f[y] \in Int /\ g[y] \in Int,
         NEW x \in S, \A y \in S \ {x} : f[y] = g[y]
  PROVE  SumFunctionOnSet(g, S) = SumFunctionOnSet(f, S) + g[x] - f[x]
<1>1. /\ SumFunctionOnSet(f, S) = f[x] + SumFunctionOnSet(f, S \ {x})
      /\ SumFunctionOnSet(g, S) = g[x] + SumFunctionOnSet(g, S \ {x})
  BY SumRemove
<1>2. IsFiniteSet(S \ {x})
  BY FS_RemoveElement
<1>3. SumFunctionOnSet(f, S \ {x}) = SumFunctionOnSet(g, S \ {x})
  BY <1>2, SumSame
<1>4. SumFunctionOnSet(f, S \ {x}) \in Int
  BY <1>2, SumInt
<1>. QED
  BY <1>1, <1>3, <1>4

\* A sum with one term that is not zero.
LEMMA SumOne ==
  ASSUME NEW S, IsFiniteSet(S), NEW f, \A y \in S : f[y] \in Int, NEW x \in S,
         \A y \in S \ {x} : f[y] = 0
  PROVE  SumFunctionOnSet(f, S) = f[x]
<1>1. IsFiniteSet(S \ {x})
  BY FS_RemoveElement
<1>2. SumFunctionOnSet(f, S \ {x}) = 0
  BY <1>1, SumZero
<1>. QED
  BY <1>2, SumRemove

\* Sums add up term by term.
LEMMA SumPlus ==
  ASSUME NEW S, IsFiniteSet(S), NEW f, NEW g, NEW h,
         \A x \in S : f[x] \in Int /\ g[x] \in Int /\ h[x] = f[x] + g[x]
  PROVE  SumFunctionOnSet(h, S) = SumFunctionOnSet(f, S) + SumFunctionOnSet(g, S)
<1>. DEFINE Sum(k, s) == SumFunctionOnSet(k, s)
            Adds(s) == Sum(h, s) = Sum(f, s) + Sum(g, s)
            Sizes == {n \in Nat : \A s \in SUBSET S : Cardinality(s) = n => Adds(s)}
<1>1. \A s \in SUBSET S : /\ IsFiniteSet(s) /\ Cardinality(s) \in Nat
                          /\ Sum(f, s) \in Int /\ Sum(g, s) \in Int /\ Sum(h, s) \in Int
  <2>1. \A s \in SUBSET S : IsFiniteSet(s)
    BY FS_Subset
  <2>2. \A x \in S : h[x] \in Int
    OBVIOUS
  <2>. QED
    BY <2>1, <2>2, FS_CardinalityType, SumInt
<1>2. \A s \in SUBSET S : Cardinality(s) = 0 => Adds(s)
  <2>1. \A s \in SUBSET S : Cardinality(s) = 0 => s = {}
    BY <1>1, FS_EmptySet
  <2>2. Sum(f, {}) = 0 /\ Sum(g, {}) = 0 /\ Sum(h, {}) = 0
    BY SumUnfolds, FS_EmptySet
  <2>3. Adds({})
    BY <2>2
  <2>. HIDE DEF Adds
  <2>. QED
    BY <2>1, <2>3
<1>3. ASSUME NEW n \in Sizes, NEW s \in SUBSET S, Cardinality(s) = n + 1
      PROVE  Adds(s)
  <2>1. IsFiniteSet(s) /\ n \in Nat
    BY <1>1
  <2>2. s # {} /\ \A y \in s : Cardinality(s \ {y}) = n
    <3>. HIDE DEF Sizes
    <3>. QED
      BY <1>3, <2>1, OneLess
  <2>3. PICK x \in s : TRUE
    BY <2>2
  <2>4. \A y \in s : f[y] \in Int /\ g[y] \in Int /\ h[y] \in Int
    OBVIOUS
  <2>5. /\ Sum(f, s) = f[x] + Sum(f, s \ {x})
        /\ Sum(g, s) = g[x] + Sum(g, s \ {x})
        /\ Sum(h, s) = h[x] + Sum(h, s \ {x})
    BY <2>1, <2>4, SumRemove
  <2>6. s \ {x} \in SUBSET S /\ Cardinality(s \ {x}) = n
    BY <2>2
  <2>7. Adds(s \ {x}) /\ Sum(f, s \ {x}) \in Int /\ Sum(g, s \ {x}) \in Int
    <3>. HIDE DEF Adds, Sum
    <3>. QED
      BY <1>1, <2>6
  <2>. HIDE DEF Sum
  <2>. QED
    BY <2>4, <2>5, <2>7
<1>4. Sizes = Nat
  <2>1. Sizes \subseteq Nat /\ 0 \in Sizes /\ \A n \in Sizes : n + 1 \in Sizes
    <3>. HIDE DEF Adds
    <3>. QED
      BY <1>2, <1>3
  <2>. HIDE DEF Sizes
  <2>. QED
    BY <2>1, NatSets
<1>5. Adds(S)
  <2>. HIDE DEF Adds
  <2>. QED
    BY <1>1, <1>4
<1>. QED
  BY <1>5
=============================================================================
