------------------------------ MODULE SetLemmas ------------------------------
(***************************************************************************)
(* What the proofs need to know of finite sets: the extrema of sets of     *)
(* numbers, with which the models pick the next rowid and the next thing   *)
(* to do, and the sums over finite sets that the totals of a record are.   *)
(***************************************************************************)
EXTENDS Integers, FiniteSetsExt, Functions, FiniteSetTheorems, WellFoundedInduction, TLAPS

\* A set of natural numbers that is not empty has a smallest element.
LEMMA MinOfNaturals ==
    ASSUME NEW S, S \subseteq Nat, S # {}
    PROVE  Min(S) \in S /\ \A y \in S : Min(S) <= y
<1>1. PICK x \in S : \A y \in S : ~ (<<y, x>> \in OpToRel(<, Nat))
    BY NatLessThanWellFounded, WFMin, Zenon
<1>2. \A y, z \in Nat : <<y, z>> \in OpToRel(<, Nat) <=> y < z
    BY DEF OpToRel
<1>3. \A y \in S : ~ (y < x)
    BY <1>1, <1>2
<1>4. \A y \in S : x <= y
    BY <1>3
<1> QED BY <1>4, Zenon DEF Min

\* A set of natural numbers that is not empty and has a bound has a greatest element.
LEMMA MaxOfNaturals ==
    ASSUME NEW n \in Nat, NEW S, S \subseteq 0..n, S # {}
    PROVE  Max(S) \in S /\ \A y \in S : Max(S) >= y
<1> DEFINE T == {n - y : y \in S}
<1>0. T # {}
    BY Zenon
<1>1. T \subseteq Nat
    OBVIOUS
<1>2. PICK x \in T : \A y \in T : x <= y
    BY <1>0, <1>1, MinOfNaturals, Zenon
<1>3. PICK m \in S : x = n - m
    BY <1>2
<1>4. \A y \in S : m >= y
    <2> TAKE y \in S
    <2>1. n - m <= n - y
        BY <1>2, <1>3
    <2> QED BY <2>1
<1> QED BY <1>4, Zenon DEF Max

-----------------------------------------------------------------------------
\* The element that a fold takes out of a set next.
AnElement(s) == CHOOSE x \in s : TRUE

LEMMA AnyIsElement == ASSUME NEW s, s # {} PROVE AnElement(s) \in s
BY DEF AnElement

\* A finite set without its next element is smaller.
LEMMA WithoutAny ==
    ASSUME NEW S, IsFiniteSet(S), NEW s \in SUBSET S
    PROVE  /\ Cardinality(s) \in Nat
           /\ Cardinality(s) = 0 <=> s = {}
           /\ s # {} => /\ s \ {AnElement(s)} \in SUBSET S
                        /\ Cardinality(s \ {AnElement(s)}) = Cardinality(s) - 1
<1>1. IsFiniteSet(s)
    BY FS_Subset
<1>2. Cardinality(s) \in Nat /\ (Cardinality(s) = 0 <=> s = {})
    BY <1>1, FS_CardinalityType, FS_EmptySet
<1>3. s # {} => Cardinality(s \ {AnElement(s)}) = Cardinality(s) - 1
    BY <1>1, AnyIsElement, FS_RemoveElement
<1> QED BY <1>2, <1>3

\* Induction along a fold: what holds of the empty set, and of a set if it holds of what is
\* left when the next element is taken, holds of all subsets.
LEMMA FoldInduction ==
    ASSUME NEW S, IsFiniteSet(S), NEW Good, {} \in Good,
           \A s \in SUBSET S : s # {} /\ s \ {AnElement(s)} \in Good => s \in Good
    PROVE  \A s \in SUBSET S : s \in Good
<1> DEFINE Bad == {s \in SUBSET S : s \notin Good}
           Sizes == {Cardinality(s) : s \in Bad}
<1> SUFFICES ASSUME Bad # {} PROVE FALSE
    OBVIOUS
<1>0. \A s \in Bad : Cardinality(s) \in Nat
    BY WithoutAny
<1>1. Sizes \subseteq Nat /\ Sizes # {}
    <2>1. Sizes \subseteq Nat
        BY <1>0
    <2>2. PICK s \in Bad : TRUE
        OBVIOUS
    <2>3. Cardinality(s) \in Sizes
        OBVIOUS
    <2> QED BY <2>1, <2>3
<1> HIDE DEF Sizes
<1>2. PICK n \in Sizes : \A m \in Sizes : n <= m
    BY <1>1, MinOfNaturals, Zenon
<1> USE DEF Sizes
<1>3. PICK s \in Bad : n = Cardinality(s)
    BY <1>2
<1>4. s # {}
    BY <1>3
<1>5. s \ {AnElement(s)} \in SUBSET S /\ Cardinality(s \ {AnElement(s)}) < n /\ n \in Nat
    BY <1>3, <1>4, WithoutAny
<1>6. s \ {AnElement(s)} \notin Bad
    <2> SUFFICES ASSUME s \ {AnElement(s)} \in Bad PROVE FALSE
        OBVIOUS
    <2>1. Cardinality(s \ {AnElement(s)}) \in Sizes
        OBVIOUS
    <2>2. n <= Cardinality(s \ {AnElement(s)}) /\ Cardinality(s \ {AnElement(s)}) \in Nat
        BY <1>1, <1>2, <2>1
    <2> QED BY <1>5, <2>2
<1> QED BY <1>3, <1>4, <1>5, <1>6

\* A finite set of numbers that is not empty has a greatest element.
LEMMA MaxOfFinite ==
    ASSUME NEW S, S \subseteq Nat, IsFiniteSet(S), S # {}
    PROVE  Max(S) \in S /\ \A y \in S : Max(S) >= y
<1> DEFINE Good == {s \in SUBSET S : s # {} => \E x \in s : \A y \in s : x >= y}
<1>1. {} \in Good
    OBVIOUS
<1>2. ASSUME NEW s \in SUBSET S, s # {}, s \ {AnElement(s)} \in Good PROVE s \in Good
    <2>1. AnElement(s) \in s
        BY <1>2, AnyIsElement
    <2>2. CASE s \ {AnElement(s)} = {}
        <3>1. \A y \in s : AnElement(s) >= y
            BY <2>1, <2>2
        <3> QED BY <2>1, <3>1
    <2>3. CASE s \ {AnElement(s)} # {}
        <3>1. PICK x \in s \ {AnElement(s)} : \A y \in s \ {AnElement(s)} : x >= y
            BY <1>2, <2>3
        <3>2. CASE x >= AnElement(s)
            BY <3>1, <3>2
        <3>3. CASE ~(x >= AnElement(s))
            <4>1. s \subseteq Nat /\ x \in Nat /\ AnElement(s) \in Nat
                BY <2>1, <3>1
            <4>2. \A y \in s : AnElement(s) >= y
                BY <3>1, <3>3, <4>1
            <4> QED BY <2>1, <4>2
        <3> QED BY <3>2, <3>3
    <2> QED BY <2>2, <2>3
<1> HIDE DEF Good
<1>3. S \in Good
    BY <1>1, <1>2, FoldInduction
<1>4. \E x \in S : \A y \in S : x >= y
    BY <1>3 DEF Good
<1> QED BY <1>4, Zenon DEF Max

-----------------------------------------------------------------------------
\* The sum of f[x] over a set, as the folds of the community modules make it.
SumOver(f, S) == MapThenFoldSet(LAMBDA x, y : x + y, 0, LAMBDA x : f[x], AnElement, S)

\* The step of this fold, and the function of sets it defines.
SumStep(f, g, s) == IF s = {} THEN 0 ELSE f[AnElement(s)] + g[s \ {AnElement(s)}]
IsFold(g, f, S) == g = [s \in SUBSET S |-> SumStep(f, g, s)]
SumsOf(f, S) == CHOOSE g : IsFold(g, f, S)

\* There is such a function: by the size of the sets it is right for.
LEMMA SumsExist ==
    ASSUME NEW S, IsFiniteSet(S), NEW f \in [S -> Int]
    PROVE  \E g : IsFold(g, f, S)
<1> DEFINE Right(g, n) == /\ g \in [SUBSET S -> Int]
                          /\ \A s \in SUBSET S : Cardinality(s) <= n => g[s] = SumStep(f, g, s)
           Bad == {n \in Nat : ~ \E g : Right(g, n)}
<1>1. Right([s \in SUBSET S |-> 0], 0)
    <2> DEFINE g == [s \in SUBSET S |-> 0]
    <2>1. ASSUME NEW s \in SUBSET S, Cardinality(s) <= 0 PROVE g[s] = SumStep(f, g, s)
        <3>0. Cardinality(s) \in Nat /\ (Cardinality(s) = 0 <=> s = {})
            BY WithoutAny, Zenon
        <3>1. s = {}
            BY <2>1, <3>0
        <3>2. SumStep(f, g, s) = 0
            BY <3>1, Zenon DEF SumStep
        <3> QED BY <3>2
    <2> QED BY <2>1
<1>2. ASSUME NEW n \in Nat, NEW g, Right(g, n)
      PROVE  \E h : Right(h, n + 1)
    <2> DEFINE h == [s \in SUBSET S |-> IF Cardinality(s) <= n THEN g[s] ELSE SumStep(f, g, s)]
    <2>1. ASSUME NEW s \in SUBSET S PROVE SumStep(f, g, s) \in Int
        BY <1>2, AnyIsElement, WithoutAny DEF SumStep
    <2>2. h \in [SUBSET S -> Int]
        BY <1>2, <2>1
    <2>3. ASSUME NEW s \in SUBSET S, Cardinality(s) <= n + 1
          PROVE  h[s] = SumStep(f, h, s)
        <3>1. h[s] = SumStep(f, g, s)
            BY <1>2
        <3>2. CASE s = {}
            BY <3>1, <3>2 DEF SumStep
        <3>3. CASE s # {}
            <4>1. s \ {AnElement(s)} \in SUBSET S /\ Cardinality(s \ {AnElement(s)}) <= n
                BY <2>3, <3>3, WithoutAny
            <4>2. h[s \ {AnElement(s)}] = g[s \ {AnElement(s)}]
                BY <4>1
            <4> QED BY <3>1, <3>3, <4>2 DEF SumStep
        <3> QED BY <3>2, <3>3
    <2> HIDE DEF h
    <2> QED BY <2>2, <2>3
<1>3. Bad = {}
    <2> SUFFICES ASSUME Bad # {} PROVE FALSE
        OBVIOUS
    <2>0. Bad \subseteq Nat
        OBVIOUS
    <2>1. PICK n \in Bad : \A m \in Bad : n <= m
        <3> HIDE DEF Bad
        <3> QED BY <2>0, MinOfNaturals, Zenon
    <2> HIDE DEF Right
    <2>2. n \in Nat /\ n # 0 /\ ~ \E g : Right(g, n)
        BY <1>1, <2>1
    <2>3. n - 1 \in Nat /\ (n - 1) + 1 = n /\ n - 1 \notin Bad
        BY <2>1, <2>2
    <2>4. PICK g : Right(g, n - 1)
        BY <2>3
    <2> QED BY <1>2, <2>2, <2>3, <2>4
<1>4. Cardinality(S) \in Nat /\ \A s \in SUBSET S : Cardinality(s) <= Cardinality(S)
    BY FS_CardinalityType, FS_Subset
<1>5. PICK g : Right(g, Cardinality(S))
    <2> HIDE DEF Right
    <2> QED BY <1>3, <1>4
<1>6. g = [s \in SUBSET S |-> g[s]]
    BY <1>5
<1>7. \A s \in SUBSET S : g[s] = SumStep(f, g, s)
    BY <1>4, <1>5
<1>8. IsFold(g, f, S)
    BY <1>6, <1>7, Zenon DEF IsFold
<1> QED BY <1>8

\* How a sum is made up.
LEMMA SumIsFold ==
    ASSUME NEW S, IsFiniteSet(S), NEW f \in [S -> Int]
    PROVE  /\ SumsOf(f, S) \in [SUBSET S -> Int]
           /\ \A s \in SUBSET S : SumsOf(f, S)[s] = SumStep(f, SumsOf(f, S), s)
           /\ SumOver(f, S) = SumsOf(f, S)[S]
<1>1. \E g : IsFold(g, f, S)
    BY SumsExist
<1>2. IsFold(SumsOf(f, S), f, S)
    BY <1>1, Zenon DEF SumsOf
<1>3. \A s \in SUBSET S : SumsOf(f, S)[s] = SumStep(f, SumsOf(f, S), s)
    BY <1>2, Zenon DEF IsFold
<1>4. \A s \in SUBSET S : SumsOf(f, S)[s] \in Int
    <2> DEFINE Good == {s \in SUBSET S : SumsOf(f, S)[s] \in Int}
    <2>1. {} \in Good
        <3>1. SumsOf(f, S)[{}] = 0
            BY <1>3, Zenon DEF SumStep
        <3> QED BY <3>1
    <2>2. ASSUME NEW s \in SUBSET S, s # {}, s \ {AnElement(s)} \in Good PROVE s \in Good
        BY <1>3, <2>2, AnyIsElement DEF SumStep
    <2> HIDE DEF Good
    <2>3. \A s \in SUBSET S : s \in Good
        BY <2>1, <2>2, FoldInduction
    <2> QED BY <2>3 DEF Good
<1>5. SumsOf(f, S) \in [SUBSET S -> Int]
    BY <1>2, <1>4 DEF IsFold
<1>6. SumOver(f, S) = SumsOf(f, S)[S]
    BY DEF SumOver, MapThenFoldSet, SumsOf, IsFold, SumStep
<1> QED BY <1>3, <1>5, <1>6

\* A sum is a number.
LEMMA SumType ==
    ASSUME NEW S, IsFiniteSet(S), NEW f \in [S -> Int]
    PROVE  SumOver(f, S) \in Int
<1>1. S \in SUBSET S /\ f \in [S -> Int]
    OBVIOUS
<1>2. SumsOf(f, S) \in [SUBSET S -> Int] /\ SumOver(f, S) = SumsOf(f, S)[S]
    BY <1>1, SumIsFold, Zenon
<1> QED BY <1>1, <1>2

\* The sum of zeroes is zero.
LEMMA SumOfZeroes ==
    ASSUME NEW S, IsFiniteSet(S)
    PROVE  SumOver([x \in S |-> 0], S) = 0
<1> DEFINE f == [x \in S |-> 0]
           Good == {s \in SUBSET S : SumsOf(f, S)[s] = 0}
<1>1. f \in [S -> Int] /\ \A x \in S : f[x] = 0
    OBVIOUS
<1> HIDE DEF f
<1>2. /\ \A s \in SUBSET S : SumsOf(f, S)[s] = SumStep(f, SumsOf(f, S), s)
      /\ SumOver(f, S) = SumsOf(f, S)[S]
    BY <1>1, SumIsFold
<1>3. {} \in Good
    <2>1. SumsOf(f, S)[{}] = 0
        BY <1>2, Zenon DEF SumStep
    <2> QED BY <2>1
<1>4. ASSUME NEW s \in SUBSET S, s # {}, s \ {AnElement(s)} \in Good PROVE s \in Good
    BY <1>1, <1>2, <1>4, AnyIsElement DEF SumStep
<1>5. S \in SUBSET S
    OBVIOUS
<1>6. S \in Good
    <2> HIDE DEF Good
    <2> QED BY <1>3, <1>4, <1>5, FoldInduction
<1> QED BY <1>2, <1>6 DEF f

\* A sum changes by as much as the one value that changes.
LEMMA SumOfChange ==
    ASSUME NEW S, IsFiniteSet(S), NEW f \in [S -> Int], NEW h \in [S -> Int], NEW c \in S,
           \A x \in S \ {c} : h[x] = f[x]
    PROVE  SumOver(h, S) = SumOver(f, S) + (h[c] - f[c])
<1> DEFINE Good == {s \in SUBSET S : SumsOf(h, S)[s] =
                        SumsOf(f, S)[s] + (IF c \in s THEN h[c] - f[c] ELSE 0)}
<1>1. /\ SumsOf(f, S) \in [SUBSET S -> Int]
      /\ \A s \in SUBSET S : SumsOf(f, S)[s] = SumStep(f, SumsOf(f, S), s)
      /\ SumOver(f, S) = SumsOf(f, S)[S]
    BY SumIsFold
<1>2. /\ SumsOf(h, S) \in [SUBSET S -> Int]
      /\ \A s \in SUBSET S : SumsOf(h, S)[s] = SumStep(h, SumsOf(h, S), s)
      /\ SumOver(h, S) = SumsOf(h, S)[S]
    BY SumIsFold
<1>3. {} \in Good
    <2>1. SumsOf(f, S)[{}] = 0 /\ SumsOf(h, S)[{}] = 0
        BY <1>1, <1>2, Zenon DEF SumStep
    <2> QED BY <2>1
<1>4. ASSUME NEW s \in SUBSET S, s # {}, s \ {AnElement(s)} \in Good PROVE s \in Good
    <2> DEFINE x == AnElement(s)
               r == s \ {AnElement(s)}
    <2>1. x \in s /\ x \in S /\ r \in SUBSET S
        BY <1>4, AnyIsElement
    <2>2. SumsOf(f, S)[s] = f[x] + SumsOf(f, S)[r] /\ SumsOf(h, S)[s] = h[x] + SumsOf(h, S)[r]
        BY <1>1, <1>2, <1>4 DEF SumStep
    <2>3. SumsOf(h, S)[r] = SumsOf(f, S)[r] + (IF c \in r THEN h[c] - f[c] ELSE 0)
        BY <1>4
    <2>4. /\ SumsOf(f, S)[r] \in Int /\ SumsOf(h, S)[r] \in Int /\ f[x] \in Int /\ h[x] \in Int
          /\ f[c] \in Int /\ h[c] \in Int
        BY <1>1, <1>2, <2>1
    <2>5. CASE x = c
        BY <2>1, <2>2, <2>3, <2>4, <2>5
    <2>6. CASE x # c
        <3>1. h[x] = f[x] /\ (c \in s <=> c \in r)
            BY <2>1, <2>6
        <3> QED BY <2>2, <2>3, <2>4, <3>1
    <2> QED BY <2>5, <2>6
<1>5. S \in SUBSET S
    OBVIOUS
<1>6. S \in Good
    <2> HIDE DEF Good
    <2> QED BY <1>3, <1>4, <1>5, FoldInduction
<1> QED BY <1>1, <1>2, <1>6

\* A sum may be taken apart at any element.
TakenApart(f, S) ==
    \A s \in SUBSET S : \A x \in s : SumsOf(f, S)[s] = f[x] + SumsOf(f, S)[s \ {x}]

LEMMA SumWithout ==
    ASSUME NEW S, IsFiniteSet(S), NEW f \in [S -> Int]
    PROVE  TakenApart(f, S)
<1> USE DEF TakenApart
<1> DEFINE g == SumsOf(f, S)
           Right(s) == \A x \in s : g[s] = f[x] + g[s \ {x}]
           Bad == {s \in SUBSET S : ~Right(s)}
           Sizes == {Cardinality(s) : s \in Bad}
<1>1. /\ g \in [SUBSET S -> Int]
      /\ \A s \in SUBSET S : g[s] = SumStep(f, g, s)
    BY SumIsFold
<1> HIDE DEF g
<1>2. SUFFICES ASSUME Bad # {} PROVE FALSE
    BY DEF g
<1>3. Sizes \subseteq Nat /\ Sizes # {}
    <2>0. \A s \in Bad : Cardinality(s) \in Nat
        BY WithoutAny
    <2>1. Sizes \subseteq Nat
        BY <2>0
    <2>2. PICK s \in Bad : TRUE
        BY <1>2
    <2>3. Cardinality(s) \in Sizes
        OBVIOUS
    <2> QED BY <2>1, <2>3
<1>4. PICK n \in Sizes : \A m \in Sizes : n <= m
    <2> HIDE DEF Sizes
    <2> QED BY <1>3, MinOfNaturals, Zenon
<1>5. PICK s \in SUBSET S : ~Right(s) /\ n = Cardinality(s)
    OBVIOUS
<1>6. \A r \in SUBSET S : Cardinality(r) < n => Right(r)
    <2> SUFFICES ASSUME NEW r \in SUBSET S, Cardinality(r) < n, ~Right(r) PROVE FALSE
        OBVIOUS
    <2>1. Cardinality(r) \in Sizes
        OBVIOUS
    <2>2. n <= Cardinality(r) /\ n \in Nat /\ Cardinality(r) \in Nat
        BY <1>3, <1>4, <2>1
    <2> QED BY <2>2
<1> HIDE DEF Bad, Sizes, Right
<1>7. PICK x \in s : g[s] # f[x] + g[s \ {x}]
    BY <1>5 DEF Right
<1> DEFINE y == AnElement(s)
           r == s \ {x}
           q == s \ {y}
<1>8. y \in s /\ x \in S /\ y \in S /\ s # {}
    BY AnyIsElement
<1>9. g[s] = f[y] + g[q]
    BY <1>1, <1>8 DEF SumStep
<1>10. x # y
    BY <1>7, <1>9
<1>11. r \in SUBSET S /\ q \in SUBSET S /\ r \ {y} \in SUBSET S /\ q \ {x} = r \ {y} /\ y \in r /\ x \in q
    BY <1>8, <1>10
<1>12. Cardinality(r) < n /\ Cardinality(q) < n
    <2>1. IsFiniteSet(s) /\ Cardinality(s) \in Nat
        BY FS_Subset, FS_CardinalityType
    <2>2. Cardinality(r) = Cardinality(s) - 1 /\ Cardinality(q) = Cardinality(s) - 1
        BY <1>8, <2>1, FS_RemoveElement
    <2> QED BY <1>5, <2>1, <2>2
<1>13. g[r] = f[y] + g[r \ {y}] /\ g[q] = f[x] + g[q \ {x}]
    BY <1>6, <1>11, <1>12 DEF Right
<1>14. g[r \ {y}] \in Int /\ f[x] \in Int /\ f[y] \in Int
    BY <1>1, <1>8, <1>11
<1>15. g[s] = f[x] + g[r]
    <2>1. g[q] = f[x] + g[r \ {y}]
        BY <1>11, <1>13, Zenon
    <2>2. g[r] = f[y] + g[r \ {y}]
        BY <1>13
    <2>3. PICK k \in Int, a \in Int, b \in Int : k = g[r \ {y}] /\ a = f[x] /\ b = f[y]
        BY <1>14, Zenon
    <2> HIDE DEF y, r, q
    <2>4. g[s] = b + (a + k) /\ g[r] = b + k
        BY <1>9, <2>1, <2>2, <2>3, Zenon
    <2> QED BY <2>3, <2>4
<1> QED BY <1>7, <1>15

\* A sum over a part of the domain does not depend on the rest.
LEMMA SumOfPart ==
    ASSUME NEW T, IsFiniteSet(T), NEW S \in SUBSET T, NEW f \in [T -> Int], NEW g \in [S -> Int],
           \A x \in S : g[x] = f[x]
    PROVE  SumsOf(f, T)[S] = SumOver(g, S)
<1> DEFINE Good == {s \in SUBSET S : SumsOf(f, T)[s] = SumsOf(g, S)[s]}
<1>0. IsFiniteSet(S)
    BY FS_Subset
<1>1. \A s \in SUBSET T : SumsOf(f, T)[s] = SumStep(f, SumsOf(f, T), s)
    BY SumIsFold
<1>2. /\ \A s \in SUBSET S : SumsOf(g, S)[s] = SumStep(g, SumsOf(g, S), s)
      /\ SumOver(g, S) = SumsOf(g, S)[S]
    BY <1>0, SumIsFold
<1>3. {} \in Good
    <2>1. SumsOf(f, T)[{}] = 0 /\ SumsOf(g, S)[{}] = 0
        BY <1>1, <1>2, Zenon DEF SumStep
    <2> QED BY <2>1
<1>4. ASSUME NEW s \in SUBSET S, s # {}, s \ {AnElement(s)} \in Good PROVE s \in Good
    <2>1. AnElement(s) \in S /\ s \in SUBSET T
        BY <1>4, AnyIsElement
    <2>2. /\ SumsOf(f, T)[s] = f[AnElement(s)] + SumsOf(f, T)[s \ {AnElement(s)}]
          /\ SumsOf(g, S)[s] = g[AnElement(s)] + SumsOf(g, S)[s \ {AnElement(s)}]
        BY <1>1, <1>2, <1>4, <2>1, Zenon DEF SumStep
    <2> QED BY <1>4, <2>1, <2>2
<1>5. S \in Good
    <2>1. S \in SUBSET S
        OBVIOUS
    <2> HIDE DEF Good
    <2> QED BY <1>0, <1>3, <1>4, <2>1, FoldInduction
<1> QED BY <1>2, <1>5

\* A sum grows by the value of the element that is added.
LEMMA SumOfMore ==
    ASSUME NEW T, IsFiniteSet(T), NEW x \in T, NEW f \in [T -> Int],
           NEW g \in [T \ {x} -> Int], \A y \in T \ {x} : g[y] = f[y]
    PROVE  SumOver(f, T) = SumOver(g, T \ {x}) + f[x]
<1>1. T \in SUBSET T /\ T \ {x} \in SUBSET T /\ IsFiniteSet(T \ {x})
    BY FS_Subset
<1>2. SumsOf(f, T)[T] = f[x] + SumsOf(f, T)[T \ {x}]
    <2>1. TakenApart(f, T)
        BY SumWithout
    <2> QED BY <1>1, <2>1 DEF TakenApart
<1>3. SumsOf(f, T)[T \ {x}] = SumOver(g, T \ {x})
    BY <1>1, SumOfPart
<1>4. SumOver(f, T) = SumsOf(f, T)[T]
    BY SumIsFold
<1>5. SumOver(g, T \ {x}) \in Int /\ f[x] \in Int
    BY <1>1, SumType
<1>6. SumOver(f, T) = f[x] + SumOver(g, T \ {x})
    BY <1>2, <1>3, <1>4, Zenon
<1> QED BY <1>5, <1>6

\* A sum grows by as much for each of the elements that are added.
LEMMA SumOfManyMore ==
    ASSUME NEW S, IsFiniteSet(S), NEW X, IsFiniteSet(X), S \cap X = {}, NEW T, T = S \cup X,
           NEW c \in Int, NEW f \in [T -> Int], NEW g \in [S -> Int],
           \A y \in S : g[y] = f[y], \A x \in X : f[x] = c
    PROVE  SumOver(f, T) = SumOver(g, S) + c * Cardinality(X)
<1> DEFINE h(s) == [y \in S \cup s |-> f[y]]
           Good == {s \in SUBSET X : SumOver(h(s), S \cup s) = SumOver(g, S) + c * Cardinality(s)}
<1>0. SumOver(g, S) \in Int
    BY SumType
<1>1. {} \in Good
    <2>1. h({}) = g /\ S \cup {} = S
        OBVIOUS
    <2>2. Cardinality({}) = 0
        BY FS_EmptySet
    <2>3. SumOver(h({}), S \cup {}) = SumOver(g, S) + c * Cardinality({})
        BY <1>0, <2>1, <2>2
    <2> QED BY <2>3
<1>2. ASSUME NEW s \in SUBSET X, s # {}, s \ {AnElement(s)} \in Good PROVE s \in Good
    <2> DEFINE x == AnElement(s)
               r == s \ {x}
    <2>1. /\ x \in s /\ x \in X /\ r \in SUBSET X
          /\ x \in S \cup s /\ (S \cup s) \ {x} = S \cup r
        BY <1>2, AnyIsElement
    <2>2. IsFiniteSet(S \cup s) /\ IsFiniteSet(s)
        BY FS_Subset, FS_Union
    <2>3. /\ h(s) \in [S \cup s -> Int] /\ h(r) \in [(S \cup s) \ {x} -> Int]
          /\ (\A y \in (S \cup s) \ {x} : h(r)[y] = h(s)[y]) /\ h(s)[x] = c
        BY <2>1
    <2>4. SumOver(h(r), S \cup r) = SumOver(g, S) + c * Cardinality(r)
        BY <1>2
    <2> HIDE DEF h
    <2>5. SumOver(h(s), S \cup s) = SumOver(h(r), S \cup r) + c
        <3>1. PICK U, V, a, b : U = S \cup s /\ V = S \cup r /\ a = h(s) /\ b = h(r)
            OBVIOUS
        <3>2. /\ IsFiniteSet(U) /\ x \in U /\ a \in [U -> Int] /\ b \in [U \ {x} -> Int]
              /\ (\A y \in U \ {x} : b[y] = a[y]) /\ V = U \ {x} /\ a[x] = c
            BY <2>1, <2>2, <2>3, <3>1
        <3>3. SumOver(a, U) = SumOver(b, U \ {x}) + a[x]
            BY <3>2, SumOfMore
        <3> QED BY <3>1, <3>2, <3>3
    <2>6. Cardinality(r) = Cardinality(s) - 1 /\ Cardinality(s) \in Nat
        BY <2>1, <2>2, FS_RemoveElement, FS_CardinalityType
    <2> HIDE DEF x, r
    <2>7. SumOver(h(s), S \cup s) = SumOver(g, S) + c * Cardinality(s)
        <3>1. c * (Cardinality(s) - 1) = c * Cardinality(s) - c
            BY <2>6
        <3> QED BY <1>0, <2>4, <2>5, <2>6, <3>1
    <2> QED BY <2>7
<1>3. X \in Good
    <2>1. X \in SUBSET X
        OBVIOUS
    <2> HIDE DEF Good
    <2> QED BY <1>1, <1>2, <2>1, FoldInduction
<1>4. h(X) = f
    OBVIOUS
<1> QED BY <1>3, <1>4

-----------------------------------------------------------------------------
\* A set of the first n numbers grows by one when the next number is added.
LEMMA CountNext ==
    ASSUME NEW n \in Nat, NEW A, A \subseteq 1..n
    PROVE  /\ Cardinality(A) \in Nat
           /\ Cardinality(A \cup {n + 1}) = Cardinality(A) + 1
<1>1. IsFiniteSet(A)
    <2>1. IsFiniteSet(1..n)
        BY FS_Interval
    <2> QED BY <2>1, FS_Subset
<1>2. n + 1 \notin A
    OBVIOUS
<1> QED BY <1>1, <1>2, FS_AddElement, FS_CardinalityType

\* An image of a finite set is finite, and not larger.
LEMMA ImageIsSmaller ==
    ASSUME NEW S, IsFiniteSet(S), NEW f, f \in [S -> Range(f)]
    PROVE  IsFiniteSet(Range(f)) /\ Cardinality(Range(f)) <= Cardinality(S)
<1>1. f \in Surjection(S, Range(f))
    BY DEF Surjection, Range
<1> QED BY <1>1, FS_Surjection

\* Division with remainder, and that it is unique.
LEMMA Remainder ==
    ASSUME NEW m \in Nat \ {0}, NEW d \in Nat
    PROVE  d = m * (d \div m) + (d % m) /\ d % m \in 0..(m - 1) /\ d \div m \in Nat
OBVIOUS

LEMMA RemainderIsUnique ==
    ASSUME NEW m \in Nat \ {0}, NEW p \in Int, NEW q \in Int,
           NEW r \in 0..(m - 1), NEW s \in 0..(m - 1), m * p + r = m * q + s
    PROVE  r = s
<1>1. m * (p - q) = s - r
    OBVIOUS
<1>2. CASE p - q >= 1
    <2>1. m * (p - q) >= m
        BY <1>2
    <2> QED BY <1>1, <2>1
<1>3. CASE p - q <= -1
    <2>1. m * (p - q) <= -m
        BY <1>3
    <2> QED BY <1>1, <2>1
<1>4. CASE p - q = 0
    BY <1>1, <1>4
<1> QED BY <1>2, <1>3, <1>4

\* A counter that starts anew when it reaches m counts remainders.
LEMMA NextRemainder ==
    ASSUME NEW m \in Nat \ {0}, NEW d \in Nat
    PROVE  (d + 1) % m = IF (d % m) + 1 >= m THEN 0 ELSE (d % m) + 1
<1> DEFINE q == d \div m
           r == d % m
           p == (d + 1) \div m
           s == (d + 1) % m
<1>1. d = m * q + r /\ r \in 0..(m - 1) /\ q \in Int
    BY Remainder
<1>2. d + 1 = m * p + s /\ s \in 0..(m - 1) /\ p \in Int
    <2>1. d + 1 \in Nat
        OBVIOUS
    <2> QED BY <2>1, Remainder
<1> HIDE DEF q, r, p, s
<1>3. CASE r + 1 >= m
    <2>1. m * p + s = m * (q + 1) + 0
        <3>1. m * (q + 1) = m * q + m
            BY <1>1
        <3> QED BY <1>1, <1>2, <1>3, <3>1
    <2>2. q + 1 \in Int /\ 0 \in 0..(m - 1)
        BY <1>1
    <2>3. s = 0
        BY <1>2, <2>1, <2>2, RemainderIsUnique
    <2> QED BY <1>3, <2>3 DEF r, s
<1>4. CASE r + 1 < m
    <2>1. m * p + s = m * q + (r + 1) /\ r + 1 \in 0..(m - 1)
        BY <1>1, <1>2, <1>4
    <2>2. s = r + 1
        BY <1>1, <1>2, <2>1, RemainderIsUnique
    <2> QED BY <1>1, <1>4, <2>2 DEF r, s
<1> QED BY <1>1, <1>3, <1>4
=============================================================================
