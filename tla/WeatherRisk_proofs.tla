------------------------- MODULE WeatherRisk_proofs -------------------------
(***************************************************************************)
(* Facts about data that the proofs about schedules and their weather need *)
(* for every instance: least and greatest elements, division, sums; and    *)
(* the ranges of the figures of WeatherRisk.  What is built up element by  *)
(* element is proved by looking at a smallest counterexample.              *)
(***************************************************************************)
EXTENDS WeatherRisk, FiniteSetTheorems, TLAPS

-----------------------------------------------------------------------------
(* Least and greatest elements; division.                                  *)

LEMMA LeastNatural ==
  ASSUME NEW T \in SUBSET Nat, T # {}
  PROVE  \E x \in T : \A y \in T : x <= y
<1>1. PICK x \in T : \A y \in T : ~(<<y, x>> \in OpToRel(<, Nat))
  BY NatLessThanWellFounded, WFMin
<1>2. \A y \in T : ~(y < x)
  BY <1>1 DEF OpToRel
<1> QED
  BY <1>2

LEMMA Division ==
  ASSUME NEW a \in Int, NEW b \in Int, b > 0
  PROVE  /\ a \div b \in Int
         /\ b * (a \div b) <= a /\ a < b * (a \div b) + b
OBVIOUS

\* The division behind every rounded figure stays within the range it is for.
LEMMA DivisionRange ==
  ASSUME NEW a \in Int, NEW b \in Int, b > 0, NEW k \in Int, a < b * (k + 1), 0 <= a
  PROVE  a \div b \in 0..k
<1> DEFINE q == a \div b
<1>1. q \in Int /\ b * q <= a /\ a < b * q + b
  BY Division
<1>2. ~(q >= k + 1)
  <2> SUFFICES ASSUME q >= k + 1 PROVE FALSE
    OBVIOUS
  <2>1. b * q >= b * (k + 1)
    BY <1>1
  <2> QED
    BY <1>1, <2>1
<1>3. ~(q <= -1)
  <2> SUFFICES ASSUME q <= -1 PROVE FALSE
    OBVIOUS
  <2>1. b * q <= -b
    BY <1>1
  <2> QED
    BY <1>1, <2>1
<1> QED
  BY <1>1, <1>2, <1>3

LEMMA DivisionMonotone ==
  ASSUME NEW a \in Int, NEW c \in Int, a <= c, NEW b \in Int, b > 0
  PROVE  a \div b <= c \div b
<1> DEFINE q == a \div b  r == c \div b
<1>1. q \in Int /\ r \in Int /\ b * q <= a /\ c < b * r + b
  BY Division
<1>2. ~(q >= r + 1)
  <2> SUFFICES ASSUME q >= r + 1 PROVE FALSE
    OBVIOUS
  <2>1. b * q >= b * r + b
    BY <1>1
  <2> QED
    BY <1>1, <2>1
<1> QED
  BY <1>1, <1>2

\* A finite nonempty set of integers has a greatest and a least element.
LEMMA GreatestExists ==
  ASSUME NEW S \in SUBSET Int, IsFiniteSet(S), S # {}
  PROVE  \E x \in S : \A y \in S : y <= x
<1> DEFINE Ends(U) == U \subseteq Int /\ IsFiniteSet(U) /\ U # {}
                        /\ ~\E x \in U : \A y \in U : y <= x
           T == {n \in Nat : \E U : Ends(U) /\ Cardinality(U) = n}
<1> SUFFICES T = {}
  <2>1. Cardinality(S) \in Nat
    BY FS_CardinalityType
  <2> QED
    BY <2>1
<1> SUFFICES ASSUME T # {} PROVE FALSE
  OBVIOUS
<1>1. PICK n \in T : \A k \in T : n <= k
  BY LeastNatural
<1>2. PICK U : Ends(U) /\ Cardinality(U) = n
  BY <1>1
<1>3. PICK x \in U : TRUE
  BY <1>2
<1> DEFINE V == U \ {x}
<1>4. /\ IsFiniteSet(V) /\ Cardinality(V) = n - 1 /\ Cardinality(V) \in Nat
      /\ V \subseteq Int
  BY <1>1, <1>2, <1>3, FS_RemoveElement, FS_CardinalityType
<1>5. V # {}
  <2>1. U # {x}
    BY <1>2, <1>3
  <2> QED
    BY <1>3, <2>1
<1>6. \E z \in V : \A y \in V : y <= z
  <2>1. n - 1 \notin T
    BY <1>1, <1>4
  <2> QED
    BY <1>4, <1>5, <2>1
<1>7. PICK z \in V : \A y \in V : y <= z
  BY <1>6
<1>8. CASE x <= z
  BY <1>2, <1>4, <1>7, <1>8
<1>9. CASE ~(x <= z)
  <2>1. x \in Int /\ z \in Int /\ \A y \in V : y \in Int
    BY <1>2, <1>3, <1>4, <1>7
  <2>2. \A y \in V : y <= x
    BY <1>7, <1>9, <2>1
  <2>3. \A y \in U : y <= x
    BY <2>1, <2>2
  <2> QED
    BY <1>2, <1>3, <2>3
<1> QED
  BY <1>8, <1>9

LEMMA LeastExists ==
  ASSUME NEW S \in SUBSET Int, IsFiniteSet(S), S # {}
  PROVE  \E x \in S : \A y \in S : x <= y
<1> DEFINE M == {-x : x \in S}
<1>1. IsFiniteSet(M)
  <2>1. \E f \in Surjection(S, M) : TRUE
    <3> DEFINE f == [x \in S |-> -x]
    <3>1. f \in Surjection(S, M)
      BY DEF Surjection
    <3> QED
      BY <3>1
  <2> QED
    BY <2>1, FS_Surjection DEF ExistsSurjection
<1>2. M \subseteq Int /\ M # {}
  OBVIOUS
<1>3. PICK m \in M : \A y \in M : y <= m
  BY <1>1, <1>2, GreatestExists
<1>4. PICK x \in S : m = -x
  BY <1>3
<1>5. \A y \in S : -y <= -x
  BY <1>3, <1>4
<1> QED
  BY <1>5

LEMMA MaxFacts ==
  ASSUME NEW S \in SUBSET Int, IsFiniteSet(S), S # {}
  PROVE  Max(S) \in S /\ Max(S) \in Int /\ \A y \in S : y <= Max(S)
<1>1. \E x \in S : \A y \in S : x >= y
  BY GreatestExists
<1> QED
  BY <1>1 DEF Max

LEMMA MinFacts ==
  ASSUME NEW S \in SUBSET Int, IsFiniteSet(S), S # {}
  PROVE  Min(S) \in S /\ Min(S) \in Int /\ \A y \in S : Min(S) <= y
<1>1. \E x \in S : \A y \in S : x =< y
  BY LeastExists
<1> QED
  BY <1>1 DEF Min

LEMMA ImageFinite ==
  ASSUME NEW f, IsFiniteSet(DOMAIN f)
  PROVE  /\ IsFiniteSet({f[x] : x \in DOMAIN f})
         /\ Cardinality({f[x] : x \in DOMAIN f}) <= Cardinality(DOMAIN f)
<1> DEFINE D == DOMAIN f
           R == {f[x] : x \in D}
           g == [x \in D |-> f[x]]
<1>1. g \in Surjection(D, R)
  BY DEF Surjection
<1> QED
  BY <1>1, FS_Surjection DEF ExistsSurjection

-----------------------------------------------------------------------------
(* Sums.                                                                   *)

\* The sum of the values of f over each set of its arguments.
PartialSum(f) ==
  CHOOSE iter : iter = [s \in SUBSET DOMAIN f |->
    IF s = {} THEN 0 ELSE LET x == CHOOSE x \in s : TRUE IN f[x] + iter[s \ {x}]]

LEMMA SumIsPartial == ASSUME NEW f PROVE SumFunction(f) = PartialSum(f)[DOMAIN f]
BY DEF SumFunction, SumFunctionOnSet, FoldFunctionOnSet, MapThenFoldSet, PartialSum

\* Such a function exists: it is built up over the sets of at most n arguments.
UpTo(f, n) == {s \in SUBSET DOMAIN f : Cardinality(s) <= n}
SumsUpTo(f, n, g) ==
  g = [s \in UpTo(f, n) |->
         IF s = {} THEN 0 ELSE LET x == CHOOSE x \in s : TRUE IN f[x] + g[s \ {x}]]

LEMMA SumsExist ==
  ASSUME NEW f, IsFiniteSet(DOMAIN f), NEW n \in Nat
  PROVE  \E g : SumsUpTo(f, n, g)
<1> DEFINE T == {k \in Nat : ~\E g : SumsUpTo(f, k, g)}
<1> SUFFICES ASSUME T # {} PROVE FALSE
  OBVIOUS
<1>0. \A s \in SUBSET DOMAIN f : IsFiniteSet(s) /\ Cardinality(s) \in Nat
  BY FS_Subset, FS_CardinalityType
<1>1. PICK k \in T : \A j \in T : k <= j
  BY LeastNatural
<1>2. k # 0
  <2> SUFFICES ASSUME k = 0 PROVE FALSE
    OBVIOUS
  <2> DEFINE g == [s \in UpTo(f, 0) |-> 0]
  <2>1. \A s \in UpTo(f, 0) : s = {}
    BY <1>0, FS_EmptySet DEF UpTo
  <2>2. SumsUpTo(f, 0, g)
    BY <2>1 DEF SumsUpTo
  <2> QED
    BY <1>1, <2>2
<1>3. k - 1 \in Nat /\ k - 1 \notin T
  BY <1>1, <1>2
<1>4. PICK g : SumsUpTo(f, k - 1, g)
  BY <1>3
<1> DEFINE h == [s \in UpTo(f, k) |->
                   IF s = {} THEN 0
                   ELSE LET x == CHOOSE x \in s : TRUE IN f[x] + g[s \ {x}]]
<1>5. UpTo(f, k - 1) \subseteq UpTo(f, k)
  BY <1>0, <1>1 DEF UpTo
<1>6. \A s \in UpTo(f, k - 1) : h[s] = g[s]
  BY <1>4, <1>5 DEF SumsUpTo
<1>7. ASSUME NEW s \in UpTo(f, k), s # {}, NEW x \in s
      PROVE  s \ {x} \in UpTo(f, k - 1)
  <2>1. s \ {x} \in SUBSET DOMAIN f /\ Cardinality(s) <= k /\ s \in SUBSET DOMAIN f
    BY DEF UpTo
  <2>2. Cardinality(s \ {x}) = Cardinality(s) - 1 /\ Cardinality(s) \in Nat
    BY <1>0, <2>1, FS_RemoveElement
  <2> QED
    BY <1>1, <2>1, <2>2 DEF UpTo
<1>8. ASSUME NEW s \in UpTo(f, k)
      PROVE  h[s] = IF s = {} THEN 0
                    ELSE LET x == CHOOSE x \in s : TRUE IN f[x] + h[s \ {x}]
  <2>1. CASE s = {}
    BY <2>1
  <2>2. CASE s # {}
    <3> DEFINE x == CHOOSE x \in s : TRUE
    <3>1. x \in s
      BY <2>2
    <3>2. h[s \ {x}] = g[s \ {x}]
      BY <1>6, <1>7, <2>2, <3>1
    <3> QED
      BY <2>2, <3>2
  <2> QED
    BY <2>1, <2>2
<1>9. SumsUpTo(f, k, h)
  <2>1. h = [s \in UpTo(f, k) |-> h[s]]
    OBVIOUS
  <2> HIDE DEF h
  <2> QED
    BY <1>8, <2>1 DEF SumsUpTo
<1> QED
  BY <1>1, <1>9

\* What the sum over a set is: nothing, or an argument's value and the rest.
LEMMA PartialSumStep ==
  ASSUME NEW f, IsFiniteSet(DOMAIN f), NEW s \in SUBSET DOMAIN f
  PROVE  PartialSum(f)[s] =
           IF s = {} THEN 0
           ELSE LET x == CHOOSE x \in s : TRUE IN f[x] + PartialSum(f)[s \ {x}]
<1> DEFINE n == Cardinality(DOMAIN f)
<1>1. n \in Nat /\ \A u \in SUBSET DOMAIN f : Cardinality(u) <= n
  BY FS_CardinalityType, FS_Subset
<1>2. UpTo(f, n) = SUBSET DOMAIN f
  BY <1>1 DEF UpTo
<1>3. PICK g : SumsUpTo(f, n, g)
  BY <1>1, SumsExist
<1>4. g = [u \in SUBSET DOMAIN f |->
             IF u = {} THEN 0 ELSE LET x == CHOOSE x \in u : TRUE IN f[x] + g[u \ {x}]]
  BY <1>2, <1>3 DEF SumsUpTo
<1>5. PartialSum(f) = [u \in SUBSET DOMAIN f |->
             IF u = {} THEN 0
             ELSE LET x == CHOOSE x \in u : TRUE IN f[x] + PartialSum(f)[u \ {x}]]
  BY <1>4 DEF PartialSum
<1> QED
  BY <1>5

LEMMA OneLess ==
  ASSUME NEW u, IsFiniteSet(u), NEW x \in u
  PROVE  /\ Cardinality(u) - 1 \in Nat
         /\ IsFiniteSet(u \ {x}) /\ Cardinality(u \ {x}) = Cardinality(u) - 1
<1>1. IsFiniteSet(u \ {x}) /\ Cardinality(u \ {x}) = Cardinality(u) - 1
  BY FS_RemoveElement
<1>2. Cardinality(u) \in Nat /\ Cardinality(u \ {x}) \in Nat
  BY <1>1, FS_CardinalityType
<1> QED
  BY <1>1, <1>2

LEMMA PartialSumInt ==
  ASSUME NEW f, IsFiniteSet(DOMAIN f), \A x \in DOMAIN f : f[x] \in Int,
         NEW s \in SUBSET DOMAIN f
  PROVE  PartialSum(f)[s] \in Int
<1> DEFINE T == {k \in Nat : \E u \in SUBSET DOMAIN f : /\ Cardinality(u) = k
                                                        /\ PartialSum(f)[u] \notin Int}
<1>0. \A u \in SUBSET DOMAIN f : IsFiniteSet(u) /\ Cardinality(u) \in Nat
  BY FS_Subset, FS_CardinalityType
<1> SUFFICES ASSUME T # {} PROVE FALSE
  BY <1>0
<1>1. PICK k \in T : \A j \in T : k <= j
  BY LeastNatural
<1>2. PICK u \in SUBSET DOMAIN f : Cardinality(u) = k /\ PartialSum(f)[u] \notin Int
  BY <1>1
<1>a. PartialSum(f)[{}] = 0
  BY PartialSumStep
<1>3. u # {}
  BY <1>2, <1>a
<1> DEFINE x == CHOOSE x \in u : TRUE
<1>4. x \in u /\ PartialSum(f)[u] = f[x] + PartialSum(f)[u \ {x}]
  BY <1>3, PartialSumStep
<1>5. Cardinality(u \ {x}) = k - 1 /\ k - 1 \in Nat
  BY <1>0, <1>2, <1>4, OneLess
<1>6. PartialSum(f)[u \ {x}] \in Int
  <2>1. k - 1 \notin T
    BY <1>1, <1>5
  <2> QED
    BY <1>5, <2>1
<1> QED
  BY <1>2, <1>4, <1>6

\* Any argument may be taken out first.
LEMMA PartialSumTake ==
  ASSUME NEW f, IsFiniteSet(DOMAIN f), \A x \in DOMAIN f : f[x] \in Int,
         NEW s \in SUBSET DOMAIN f, NEW a \in s
  PROVE  PartialSum(f)[s] = f[a] + PartialSum(f)[s \ {a}]
<1> DEFINE T == {k \in Nat : \E u \in SUBSET DOMAIN f : \E b \in u :
                     /\ Cardinality(u) = k
                     /\ PartialSum(f)[u] # f[b] + PartialSum(f)[u \ {b}]}
<1>0. \A u \in SUBSET DOMAIN f : IsFiniteSet(u) /\ Cardinality(u) \in Nat
  BY FS_Subset, FS_CardinalityType
<1> SUFFICES ASSUME T # {} PROVE FALSE
  BY <1>0
<1>1. PICK k \in T : \A j \in T : k <= j
  BY LeastNatural
<1>2. PICK u \in SUBSET DOMAIN f :
        Cardinality(u) = k /\ \E b \in u : PartialSum(f)[u] # f[b] + PartialSum(f)[u \ {b}]
  BY <1>1
<1>b. PICK b \in u : PartialSum(f)[u] # f[b] + PartialSum(f)[u \ {b}]
  BY <1>2
<1> DEFINE x == CHOOSE x \in u : TRUE
<1>3. x \in u /\ PartialSum(f)[u] = f[x] + PartialSum(f)[u \ {x}]
  BY <1>2, PartialSumStep
<1>4. x # b
  BY <1>b, <1>3
<1>5. ASSUME NEW y \in u PROVE Cardinality(u \ {y}) = k - 1 /\ k - 1 \in Nat
  BY <1>0, <1>2, OneLess
<1>6. ASSUME NEW y \in u, NEW z \in u \ {y}
      PROVE  PartialSum(f)[u \ {y}] = f[z] + PartialSum(f)[(u \ {y}) \ {z}]
  <2>1. Cardinality(u \ {y}) = k - 1 /\ k - 1 \in Nat
    BY <1>5
  <2>2. k - 1 \notin T
    <3>1. k \in Nat /\ ~(k <= k - 1)
      BY <1>1
    <3> HIDE DEF T
    <3> QED
      BY <1>1, <3>1
  <2> QED
    BY <2>1, <2>2
<1>7. /\ PartialSum(f)[u \ {x}] = f[b] + PartialSum(f)[(u \ {x}) \ {b}]
      /\ PartialSum(f)[u \ {b}] = f[x] + PartialSum(f)[(u \ {b}) \ {x}]
  BY <1>b, <1>3, <1>4, <1>6
<1> HIDE DEF x
<1>8. PartialSum(f)[(u \ {x}) \ {b}] = PartialSum(f)[(u \ {b}) \ {x}]
  <2>1. (u \ {x}) \ {b} = (u \ {b}) \ {x}
    OBVIOUS
  <2> QED
    BY <2>1
<1>9. f[x] \in Int /\ f[b] \in Int /\ PartialSum(f)[(u \ {x}) \ {b}] \in Int
  BY <1>b, <1>3, PartialSumInt
<1> QED
  BY <1>b, <1>3, <1>7, <1>8, <1>9

\* Greater values have a greater sum.
LEMMA PartialSumMonotone ==
  ASSUME NEW f, NEW g, DOMAIN f = DOMAIN g, IsFiniteSet(DOMAIN f),
         \A x \in DOMAIN f : f[x] \in Int /\ g[x] \in Int /\ f[x] <= g[x],
         NEW s \in SUBSET DOMAIN f
  PROVE  PartialSum(f)[s] <= PartialSum(g)[s]
<1> DEFINE T == {k \in Nat : \E u \in SUBSET DOMAIN f :
                   Cardinality(u) = k /\ ~(PartialSum(f)[u] <= PartialSum(g)[u])}
<1>0. \A u \in SUBSET DOMAIN f : IsFiniteSet(u) /\ Cardinality(u) \in Nat
  BY FS_Subset, FS_CardinalityType
<1> SUFFICES ASSUME T # {} PROVE FALSE
  BY <1>0
<1>1. PICK k \in T : \A j \in T : k <= j
  BY LeastNatural
<1>2. PICK u \in SUBSET DOMAIN f :
        Cardinality(u) = k /\ ~(PartialSum(f)[u] <= PartialSum(g)[u])
  BY <1>1
<1>3. PartialSum(f)[{}] = 0 /\ PartialSum(g)[{}] = 0
  BY PartialSumStep
<1>4. u # {}
  BY <1>2, <1>3
<1>5. PICK x \in u : TRUE
  BY <1>4
<1>6. PartialSum(f)[u] = f[x] + PartialSum(f)[u \ {x}]
  BY <1>5, PartialSumTake
<1>7. PartialSum(g)[u] = g[x] + PartialSum(g)[u \ {x}]
  BY <1>5, PartialSumTake
<1>8. Cardinality(u \ {x}) = k - 1 /\ k - 1 \in Nat
  BY <1>0, <1>2, <1>5, OneLess
<1>9. PartialSum(f)[u \ {x}] <= PartialSum(g)[u \ {x}]
  <2>1. k - 1 \notin T
    BY <1>1, <1>8
  <2> QED
    BY <1>8, <2>1
<1>10. PartialSum(f)[u \ {x}] \in Int /\ PartialSum(g)[u \ {x}] \in Int
  BY PartialSumInt
<1> QED
  BY <1>2, <1>5, <1>6, <1>7, <1>9, <1>10

\* So many times the bound of the values bounds their sum.
LEMMA PartialSumConstant ==
  ASSUME NEW D, IsFiniteSet(D), NEW c \in Int, NEW s \in SUBSET D
  PROVE  PartialSum([x \in D |-> c])[s] = c * Cardinality(s)
<1> DEFINE f == [x \in D |-> c]
           T == {k \in Nat : \E u \in SUBSET D :
                   Cardinality(u) = k /\ PartialSum(f)[u] # c * Cardinality(u)}
<1>0. \A u \in SUBSET D : IsFiniteSet(u) /\ Cardinality(u) \in Nat
  BY FS_Subset, FS_CardinalityType
<1>a. DOMAIN f = D /\ \A x \in D : f[x] = c
  OBVIOUS
<1> HIDE DEF f
<1> SUFFICES ASSUME T # {} PROVE FALSE
  BY <1>0 DEF f
<1>1. PICK k \in T : \A j \in T : k <= j
  BY LeastNatural
<1>2. PICK u \in SUBSET D : Cardinality(u) = k /\ PartialSum(f)[u] # c * Cardinality(u)
  BY <1>1
<1>b. PartialSum(f)[{}] = 0 /\ Cardinality({}) = 0
  BY <1>a, PartialSumStep, FS_EmptySet
<1>3. u # {}
  <2> SUFFICES ASSUME u = {} PROVE FALSE
    OBVIOUS
  <2>1. c * 0 = 0
    OBVIOUS
  <2> QED
    BY <1>2, <1>b, <2>1
<1>4. PICK x \in u : TRUE
  BY <1>3
<1>5. PartialSum(f)[u] = c + PartialSum(f)[u \ {x}]
  BY <1>4, <1>a, PartialSumTake
<1>6. Cardinality(u \ {x}) = k - 1 /\ k - 1 \in Nat
  BY <1>0, <1>2, <1>4, OneLess
<1>7. PartialSum(f)[u \ {x}] = c * (k - 1)
  <2>1. k - 1 \notin T
    BY <1>1, <1>6
  <2> QED
    BY <1>6, <2>1
<1> QED
  BY <1>2, <1>5, <1>6, <1>7

\* The facts on whole sums.
LEMMA SumInt ==
  ASSUME NEW f, IsFiniteSet(DOMAIN f), \A x \in DOMAIN f : f[x] \in Int
  PROVE  SumFunction(f) \in Int
BY SumIsPartial, PartialSumInt

LEMMA SumMonotone ==
  ASSUME NEW f, NEW g, DOMAIN f = DOMAIN g, IsFiniteSet(DOMAIN f),
         \A x \in DOMAIN f : f[x] \in Int /\ g[x] \in Int /\ f[x] <= g[x]
  PROVE  SumFunction(f) <= SumFunction(g)
BY SumIsPartial, PartialSumMonotone

LEMMA SumBounds ==
  ASSUME NEW f, IsFiniteSet(DOMAIN f), NEW low \in Int, NEW high \in Int,
         \A x \in DOMAIN f : f[x] \in low..high
  PROVE  /\ SumFunction(f) \in Int
         /\ low * Cardinality(DOMAIN f) <= SumFunction(f)
         /\ SumFunction(f) <= high * Cardinality(DOMAIN f)
<1> DEFINE D == DOMAIN f
           l == [x \in D |-> low]
           h == [x \in D |-> high]
<1>1. \A x \in D : f[x] \in Int /\ low <= f[x] /\ f[x] <= high
  OBVIOUS
<1>2. SumFunction(l) = low * Cardinality(D) /\ SumFunction(h) = high * Cardinality(D)
  BY SumIsPartial, PartialSumConstant
<1>3. DOMAIN l = D /\ DOMAIN h = D /\ \A x \in D : l[x] = low /\ h[x] = high
  OBVIOUS
<1> HIDE DEF l, h
<1>4. SumFunction(l) <= SumFunction(f) /\ SumFunction(f) <= SumFunction(h)
  BY <1>1, <1>3, SumMonotone
<1> QED
  BY <1>1, <1>2, <1>4, SumInt

-----------------------------------------------------------------------------
(* Sums of multiples.                                                      *)

LEMMA PartialSumScaled ==
  ASSUME NEW f, IsFiniteSet(DOMAIN f), \A x \in DOMAIN f : f[x] \in Int,
         NEW c \in Int, NEW s \in SUBSET DOMAIN f
  PROVE  PartialSum([x \in DOMAIN f |-> c * f[x]])[s] = c * PartialSum(f)[s]
<1> DEFINE g == [x \in DOMAIN f |-> c * f[x]]
           T == {k \in Nat : \E u \in SUBSET DOMAIN f :
                   Cardinality(u) = k /\ PartialSum(g)[u] # c * PartialSum(f)[u]}
<1>0. \A u \in SUBSET DOMAIN f : IsFiniteSet(u) /\ Cardinality(u) \in Nat
  BY FS_Subset, FS_CardinalityType
<1>a. DOMAIN g = DOMAIN f /\ \A x \in DOMAIN f : g[x] = c * f[x] /\ g[x] \in Int
  OBVIOUS
<1> HIDE DEF g
<1> SUFFICES ASSUME T # {} PROVE FALSE
  BY <1>0 DEF g
<1>1. PICK k \in T : \A j \in T : k <= j
  BY LeastNatural
<1>2. PICK u \in SUBSET DOMAIN f :
        Cardinality(u) = k /\ PartialSum(g)[u] # c * PartialSum(f)[u]
  BY <1>1
<1>3. u # {}
  <2>1. PartialSum(f)[{}] = 0 /\ PartialSum(g)[{}] = 0
    BY <1>a, PartialSumStep
  <2>2. c * 0 = 0
    OBVIOUS
  <2> QED
    BY <1>2, <2>1, <2>2
<1>4. PICK x \in u : TRUE
  BY <1>3
<1>5. PartialSum(f)[u] = f[x] + PartialSum(f)[u \ {x}]
  BY <1>4, PartialSumTake
<1>6. PartialSum(g)[u] = c * f[x] + PartialSum(g)[u \ {x}]
  BY <1>4, <1>a, PartialSumTake
<1>7. Cardinality(u \ {x}) = k - 1 /\ k - 1 \in Nat
  BY <1>0, <1>2, <1>4, OneLess
<1>8. PartialSum(g)[u \ {x}] = c * PartialSum(f)[u \ {x}]
  <2>1. k - 1 \notin T
    BY <1>1, <1>7
  <2> QED
    BY <1>7, <2>1
<1>9. f[x] \in Int /\ PartialSum(f)[u \ {x}] \in Int
  BY <1>4, PartialSumInt
<1>10. c * (f[x] + PartialSum(f)[u \ {x}]) = c * f[x] + c * PartialSum(f)[u \ {x}]
  BY <1>9
<1> QED
  BY <1>2, <1>5, <1>6, <1>8, <1>10

LEMMA SumScaled ==
  ASSUME NEW f, IsFiniteSet(DOMAIN f), \A x \in DOMAIN f : f[x] \in Int, NEW c \in Int
  PROVE  SumFunction([x \in DOMAIN f |-> c * f[x]]) = c * SumFunction(f)
BY SumIsPartial, PartialSumScaled

-----------------------------------------------------------------------------
(* Rounding.                                                               *)

\* A share of a hundred is a percentage between none and all, in tenths.
LEMMA PercentRange ==
  ASSUME NEW num \in Int, NEW den \in Int, 0 <= num, num <= den, den > 0
  PROVE  Percent(num, den) \in 0..1000
<1>1. /\ 2 * (1000 * num) + den \in Int /\ 0 <= 2 * (1000 * num) + den
      /\ 2 * den \in Int /\ 2 * den > 0
      /\ 2 * (1000 * num) + den < (2 * den) * (1000 + 1)
  OBVIOUS
<1> QED
  BY <1>1, DivisionRange DEF Percent, Rounded

\* The mean of numbers up to a whole number, rounded, is at most that number.
LEMMA RoundedRange ==
  ASSUME NEW num \in Int, NEW den \in Int, NEW k \in Int, 0 <= k,
         0 <= num, num <= den * k, den > 0
  PROVE  Rounded(num, den) \in 0..k
<1>1. /\ 2 * num + den \in Int /\ 0 <= 2 * num + den
      /\ 2 * den \in Int /\ 2 * den > 0
  OBVIOUS
<1>2. 2 * num + den < (2 * den) * (k + 1)
  <2>1. (2 * den) * (k + 1) = 2 * (den * k) + 2 * den /\ den * k \in Int
    OBVIOUS
  <2> QED
    BY <2>1
<1> QED
  BY <1>1, <1>2, DivisionRange DEF Rounded

LEMMA RoundedMonotone ==
  ASSUME NEW a \in Int, NEW c \in Int, a <= c, NEW den \in Int, den > 0
  PROVE  Rounded(a, den) \in Int /\ Rounded(c, den) \in Int /\ Rounded(a, den) <= Rounded(c, den)
<1>1. /\ 2 * a + den \in Int /\ 2 * c + den \in Int /\ 2 * a + den <= 2 * c + den
      /\ 2 * den \in Int /\ 2 * den > 0
  OBVIOUS
<1> QED
  BY <1>1, Division, DivisionMonotone DEF Rounded

-----------------------------------------------------------------------------
(* The components of a risk.                                               *)

Scale == 0..(100 * Unit)

\* The greatest known reading.
LEMMA LargestFacts ==
  ASSUME NEW S, IsFiniteSet(S), S \subseteq Int \cup {NoRisk}
  PROVE  /\ Largest(S) = NoRisk <=> \A x \in S : x = NoRisk
         /\ Largest(S) # NoRisk => Largest(S) \in Int /\ Largest(S) \in S
         /\ \A x \in S : x # NoRisk => Largest(S) # NoRisk /\ x <= Largest(S)
<1>1. IsFiniteSet(Known(S)) /\ Known(S) \in SUBSET Int
  BY FS_Subset DEF Known
<1>2. CASE Known(S) = {}
  BY <1>2 DEF Largest, Known
<1>3. CASE Known(S) # {}
  <2>1. Max(Known(S)) \in Known(S) /\ \A y \in Known(S) : y <= Max(Known(S))
    BY <1>1, <1>3, MaxFacts
  <2>2. Largest(S) = Max(Known(S))
    BY <1>3 DEF Largest
  <2> QED
    BY <2>1, <2>2 DEF Known
<1> QED
  BY <1>2, <1>3

LEMMA SmallestFacts ==
  ASSUME NEW S, IsFiniteSet(S), S \subseteq Int \cup {NoRisk}
  PROVE  /\ Smallest(S) = NoRisk <=> \A x \in S : x = NoRisk
         /\ Smallest(S) # NoRisk => Smallest(S) \in Int /\ Smallest(S) \in S
         /\ \A x \in S : x # NoRisk => Smallest(S) # NoRisk /\ Smallest(S) <= x
<1>1. IsFiniteSet(Known(S)) /\ Known(S) \in SUBSET Int
  BY FS_Subset DEF Known
<1>2. CASE Known(S) = {}
  BY <1>2 DEF Smallest, Known
<1>3. CASE Known(S) # {}
  <2>1. Min(Known(S)) \in Known(S) /\ \A y \in Known(S) : Min(Known(S)) <= y
    BY <1>1, <1>3, MinFacts
  <2>2. Smallest(S) = Min(Known(S))
    BY <1>3 DEF Smallest
  <2> QED
    BY <2>1, <2>2 DEF Known
<1> QED
  BY <1>2, <1>3

LEMMA ScaleFacts == Unit \in Int /\ Unit > 0 /\ 100 * Unit \in Int
BY SMT DEF Unit

\* Points are within the scale and follow what they are points of.
LEMMA PointsFacts ==
  ASSUME NEW x \in Int, NEW y \in Int, x <= y
  PROVE  Points(x) \in Scale /\ Points(y) \in Scale /\ Points(x) <= Points(y)
<1> DEFINE top == 100 * Unit
<1>1. top \in Int /\ top > 0
  BY ScaleFacts
<1>2. /\ Points(x) = IF x < 0 THEN 0 ELSE IF x > top THEN top ELSE x
      /\ Points(y) = IF y < 0 THEN 0 ELSE IF y > top THEN top ELSE y
      /\ Scale = 0..top
  BY DEF Points, Clamp, Scale
<1> HIDE DEF top
<1> QED
  BY <1>1, <1>2

LEMMA SeverityRange == ASSUME NEW code PROVE Severity(code) \in Scale \cup {NoRisk}
<1>1. Unit \in Int /\ Unit > 0
  BY ScaleFacts
<1>2. Severity(code) \in {0, 20 * Unit, 30 * Unit, 50 * Unit, 65 * Unit, 80 * Unit,
                          70 * Unit, 90 * Unit, 100 * Unit, NoRisk}
  BY DEF Severity
<1>3. {0, 20 * Unit, 30 * Unit, 50 * Unit, 65 * Unit, 80 * Unit,
       70 * Unit, 90 * Unit, 100 * Unit} \subseteq Scale
  BY <1>1 DEF Scale
<1> QED
  BY <1>2, <1>3

LEMMA CurveFacts ==
  ASSUME NEW v \in Int, NEW w \in Int, v <= w,
         NEW safe \in Int, NEW severe \in Int, safe < severe
  PROVE  /\ Curve(v, safe, severe) \in Scale /\ Curve(w, safe, severe) \in Scale
         /\ Curve(v, safe, severe) <= Curve(w, safe, severe)
<1> DEFINE k == Unit \div (severe - safe)
<1>1. k \in Int /\ 0 <= k
  <2>1. severe - safe \in Int /\ severe - safe > 0
    OBVIOUS
  <2>2. Unit < (severe - safe) * (Unit + 1)
    BY <2>1, ScaleFacts
  <2>3. k \in 0..Unit
    BY <2>1, <2>2, ScaleFacts, DivisionRange
  <2> QED
    BY <2>3, ScaleFacts
<1> DEFINE x == (v - safe) * 100 * k
           y == (w - safe) * 100 * k
<1>2. x \in Int /\ y \in Int /\ x <= y
  <2>1. (w - safe) * 100 - (v - safe) * 100 >= 0
    OBVIOUS
  <2> QED
    BY <1>1, <2>1
<1>3. v # NoRisk /\ w # NoRisk
  BY RiskAssumption
<1>4. Curve(v, safe, severe) = Points(x) /\ Curve(w, safe, severe) = Points(y)
  BY <1>3 DEF Curve
<1> QED
  BY <1>2, <1>4, PointsFacts

LEMMA InverseCurveFacts ==
  ASSUME NEW v \in Int, NEW w \in Int, v <= w,
         NEW safe \in Int, NEW severe \in Int, severe < safe
  PROVE  /\ InverseCurve(v, safe, severe) \in Scale
         /\ InverseCurve(w, safe, severe) \in Scale
         /\ InverseCurve(w, safe, severe) <= InverseCurve(v, safe, severe)
<1> DEFINE k == Unit \div (safe - severe)
<1>1. k \in Int /\ 0 <= k
  <2>1. safe - severe \in Int /\ safe - severe > 0
    OBVIOUS
  <2>2. Unit < (safe - severe) * (Unit + 1)
    BY <2>1, ScaleFacts
  <2>3. k \in 0..Unit
    BY <2>1, <2>2, ScaleFacts, DivisionRange
  <2> QED
    BY <2>3, ScaleFacts
<1> DEFINE x == (safe - w) * 100 * k
           y == (safe - v) * 100 * k
<1>2. x \in Int /\ y \in Int /\ x <= y
  <2>1. (safe - v) * 100 - (safe - w) * 100 >= 0
    OBVIOUS
  <2> QED
    BY <1>1, <2>1
<1>3. v # NoRisk /\ w # NoRisk
  BY RiskAssumption
<1>4. InverseCurve(w, safe, severe) = Points(x) /\ InverseCurve(v, safe, severe) = Points(y)
  BY <1>3 DEF InverseCurve
<1> QED
  BY <1>2, <1>4, PointsFacts

LEMMA CurveRange ==
  ASSUME NEW v \in Int \cup {NoRisk}, NEW safe \in Int, NEW severe \in Int
  PROVE  /\ safe < severe => Curve(v, safe, severe) \in Scale \cup {NoRisk}
         /\ severe < safe => InverseCurve(v, safe, severe) \in Scale \cup {NoRisk}
<1>1. CASE v = NoRisk
  BY <1>1 DEF Curve, InverseCurve
<1>2. CASE v \in Int
  <2>1. v <= v
    BY <1>2
  <2> QED
    BY <1>2, <2>1, CurveFacts, InverseCurveFacts
<1> QED
  BY <1>1, <1>2

-----------------------------------------------------------------------------
(* The components of any hours, and of one of them.                        *)

Names == {"rain", "heat", "cold", "wind", "condition"}

Scaled(amount) == IF amount = NoRisk THEN NoRisk ELSE Points(amount * 2 * Unit)
Chance(p)      == IF p = NoRisk THEN NoRisk ELSE p * Unit
Of(field, hours) == {h[field] : h \in hours}
FeltOf(hours)    == {Felt(h) : h \in hours}

LEMMA ComponentsAre ==
  ASSUME NEW hours
  PROVE  /\ DOMAIN Components(hours) = Names
         /\ Components(hours)["rain"] =
              Largest({Chance(Largest(Of("probability", hours))),
                       Scaled(Largest(Of("amount", hours)))})
         /\ Components(hours)["heat"] = Curve(Largest(FeltOf(hours)), 32, 45)
         /\ Components(hours)["cold"] = InverseCurve(Smallest(FeltOf(hours)), 12, 0)
         /\ Components(hours)["wind"] =
              Largest({Curve(Largest(Of("wind", hours)), 25, 60),
                       Curve(Largest(Of("gust", hours)), 35, 75)})
         /\ Components(hours)["condition"] = Largest({Severity(h.code) : h \in hours})
BY DEF Components, Names, Scaled, Chance, Of, FeltOf

\* The readings of finitely many hours.
LEMMA ReadingsOf ==
  ASSUME NEW hours, IsFiniteSet(hours), hours \subseteq NormalizedHour
  PROVE  /\ \A field \in {"probability", "amount", "wind", "gust"} :
              IsFiniteSet(Of(field, hours)) /\ Of(field, hours) \subseteq Int \cup {NoRisk}
         /\ IsFiniteSet(FeltOf(hours)) /\ FeltOf(hours) \subseteq Int \cup {NoRisk}
         /\ Of("probability", hours) \subseteq 0..100 \cup {NoRisk}
         /\ IsFiniteSet({Severity(h.code) : h \in hours})
         /\ {Severity(h.code) : h \in hours} \subseteq Scale \cup {NoRisk}
         /\ Scale \subseteq Int
<1>1. ASSUME NEW field PROVE IsFiniteSet(Of(field, hours))
  <2> DEFINE f == [h \in hours |-> h[field]]
  <2>1. IsFiniteSet({f[h] : h \in DOMAIN f})
    BY ImageFinite
  <2> QED
    BY <2>1 DEF Of
<1>2. IsFiniteSet(FeltOf(hours))
  <2> DEFINE f == [h \in hours |-> Felt(h)]
  <2>1. IsFiniteSet({f[h] : h \in DOMAIN f})
    BY ImageFinite
  <2> QED
    BY <2>1 DEF FeltOf
<1>3. IsFiniteSet({Severity(h.code) : h \in hours})
  <2> DEFINE f == [h \in hours |-> Severity(h.code)]
  <2>1. IsFiniteSet({f[h] : h \in DOMAIN f})
    BY ImageFinite
  <2>2. {f[h] : h \in DOMAIN f} = {Severity(h.code) : h \in hours}
    OBVIOUS
  <2> QED
    BY <2>1, <2>2
<1>4. \A h \in hours : /\ h.probability \in 0..100 \cup {NoRisk}
                       /\ h.amount \in Int \cup {NoRisk} /\ h.wind \in Int \cup {NoRisk}
                       /\ h.gust \in Int \cup {NoRisk} /\ Felt(h) \in Int \cup {NoRisk}
  BY DEF NormalizedHour, Reading, Felt
<1>5. Scale \subseteq Int
  BY ScaleFacts DEF Scale
<1>6. /\ Of("probability", hours) \subseteq 0..100 \cup {NoRisk}
      /\ Of("amount", hours) \subseteq Int \cup {NoRisk}
      /\ Of("wind", hours) \subseteq Int \cup {NoRisk}
      /\ Of("gust", hours) \subseteq Int \cup {NoRisk}
  BY <1>4 DEF Of
<1>7. FeltOf(hours) \subseteq Int \cup {NoRisk}
  BY <1>4 DEF FeltOf
<1>8. {Severity(h.code) : h \in hours} \subseteq Scale \cup {NoRisk}
  BY SeverityRange
<1>9. Of("probability", hours) \subseteq Int \cup {NoRisk}
  BY <1>6
<1>10. \A field \in {"probability", "amount", "wind", "gust"} :
         IsFiniteSet(Of(field, hours)) /\ Of(field, hours) \subseteq Int \cup {NoRisk}
  BY <1>1, <1>6, <1>9
<1> QED
  BY <1>2, <1>3, <1>5, <1>6, <1>7, <1>8, <1>10

LEMMA LargestGrows ==
  ASSUME NEW T, IsFiniteSet(T), T \subseteq Int \cup {NoRisk}, NEW S \in SUBSET T,
         NEW x \in S, x # NoRisk
  PROVE  /\ Largest(S) \in S \cap Int /\ Largest(T) \in T \cap Int
         /\ Largest(S) <= Largest(T)
<1>1. IsFiniteSet(S) /\ S \subseteq Int \cup {NoRisk}
  BY FS_Subset
<1>a. ~(\A y \in S : y = NoRisk)
  OBVIOUS
<1>b. Largest(S) # NoRisk
  BY <1>1, <1>a, LargestFacts
<1>2. Largest(S) \in S /\ Largest(S) \in Int /\ Largest(S) # NoRisk
  BY <1>1, <1>b, LargestFacts
<1>3. Largest(S) \in T
  BY <1>2
<1> QED
  BY <1>2, <1>3, LargestFacts

LEMMA SmallestFalls ==
  ASSUME NEW T, IsFiniteSet(T), T \subseteq Int \cup {NoRisk}, NEW S \in SUBSET T,
         NEW x \in S, x # NoRisk
  PROVE  /\ Smallest(S) \in S \cap Int /\ Smallest(T) \in T \cap Int
         /\ Smallest(T) <= Smallest(S)
<1>1. IsFiniteSet(S) /\ S \subseteq Int \cup {NoRisk}
  BY FS_Subset
<1>a. ~(\A y \in S : y = NoRisk)
  OBVIOUS
<1>b. Smallest(S) # NoRisk
  BY <1>1, <1>a, SmallestFacts
<1>2. Smallest(S) \in S /\ Smallest(S) \in Int /\ Smallest(S) # NoRisk
  BY <1>1, <1>b, SmallestFacts
<1>3. Smallest(S) \in T
  BY <1>2
<1> QED
  BY <1>2, <1>3, SmallestFacts

\* The greater of two components.
LEMMA LargestPair ==
  ASSUME NEW a \in Int \cup {NoRisk}, NEW b \in Int \cup {NoRisk}
  PROVE  /\ Largest({a, b}) \in {a, b}
         /\ Largest({a, b}) = NoRisk <=> a = NoRisk /\ b = NoRisk
         /\ a # NoRisk => a <= Largest({a, b})
         /\ b # NoRisk => b <= Largest({a, b})
<1>1. IsFiniteSet({a, b})
  <2>1. IsFiniteSet({a}) /\ IsFiniteSet({a} \cup {b})
    BY FS_Singleton, FS_AddElement
  <2>2. {a, b} = {a} \cup {b}
    OBVIOUS
  <2> QED
    BY <2>1, <2>2
<1>2. {a, b} \subseteq Int \cup {NoRisk}
  OBVIOUS
<1> QED
  BY <1>1, <1>2, LargestFacts

LEMMA PairGrows ==
  ASSUME NEW a \in Scale, NEW A \in Scale, a <= A,
         NEW b \in Scale, NEW B \in Scale, b <= B
  PROVE  /\ Largest({a, b}) \in Scale /\ Largest({A, B}) \in Scale
         /\ Largest({a, b}) <= Largest({A, B})
<1>1. Scale \subseteq Int /\ NoRisk \notin Int
  BY ScaleFacts, RiskAssumption DEF Scale
<1>2. /\ Largest({a, b}) \in {a, b} /\ Largest({A, B}) \in {A, B}
      /\ A <= Largest({A, B}) /\ B <= Largest({A, B})
  BY <1>1, LargestPair
<1> HIDE DEF Scale
<1>3. Largest({a, b}) \in Int /\ Largest({A, B}) \in Int /\ a \in Int /\ b \in Int
      /\ A \in Int /\ B \in Int
  BY <1>1, <1>2
<1> QED
  BY <1>2, <1>3

\* Every component of any hours is on the scale, or not known.
LEMMA ComponentRange ==
  ASSUME NEW hours, IsFiniteSet(hours), hours \subseteq NormalizedHour, NEW name \in Names
  PROVE  Components(hours)[name] \in Scale \cup {NoRisk}
<1>0. Scale \subseteq Int /\ NoRisk \notin Int
  BY ReadingsOf, RiskAssumption
<1>1. CASE name = "rain"
  <2> DEFINE p == Largest(Of("probability", hours))
             q == Largest(Of("amount", hours))
  <2>1. p \in 0..100 \cup {NoRisk} /\ q \in Int \cup {NoRisk}
    BY ReadingsOf, LargestFacts
  <2>2. Chance(p) \in Scale \cup {NoRisk}
    <3> SUFFICES ASSUME p \in 0..100 PROVE p * Unit \in Scale
      BY <2>1 DEF Chance
    <3>1. 0 <= p * Unit /\ p * Unit <= 100 * Unit /\ p * Unit \in Int
      BY ScaleFacts
    <3> QED
      BY <3>1, ScaleFacts DEF Scale
  <2>3. Scaled(q) \in Scale \cup {NoRisk}
    <3> SUFFICES ASSUME q \in Int PROVE Points(q * 2 * Unit) \in Scale
      BY <2>1 DEF Scaled
    <3>1. q * 2 * Unit \in Int
      BY ScaleFacts
    <3> QED
      BY <3>1, PointsFacts
  <2> HIDE DEF p, q
  <2>4. Largest({Chance(p), Scaled(q)}) \in {Chance(p), Scaled(q)}
    BY <1>0, <2>2, <2>3, LargestPair
  <2> QED
    BY <1>1, <2>2, <2>3, <2>4, ComponentsAre DEF p, q
<1>2. CASE name = "heat"
  <2>1. Largest(FeltOf(hours)) \in Int \cup {NoRisk}
    BY ReadingsOf, LargestFacts
  <2>2. Curve(Largest(FeltOf(hours)), 32, 45) \in Scale \cup {NoRisk}
    <3> DEFINE v == Largest(FeltOf(hours))
    <3> HIDE DEF v
    <3>1. v \in Int \cup {NoRisk}
      BY <2>1 DEF v
    <3>2. Curve(v, 32, 45) \in Scale \cup {NoRisk}
      BY <3>1, CurveRange
    <3> QED
      BY <3>2 DEF v
  <2> QED
    BY <1>2, <2>2, ComponentsAre
<1>3. CASE name = "cold"
  <2>1. Smallest(FeltOf(hours)) \in Int \cup {NoRisk}
    BY ReadingsOf, SmallestFacts
  <2>2. InverseCurve(Smallest(FeltOf(hours)), 12, 0) \in Scale \cup {NoRisk}
    <3> DEFINE v == Smallest(FeltOf(hours))
    <3> HIDE DEF v
    <3>1. v \in Int \cup {NoRisk}
      BY <2>1 DEF v
    <3>2. InverseCurve(v, 12, 0) \in Scale \cup {NoRisk}
      BY <3>1, CurveRange
    <3> QED
      BY <3>2 DEF v
  <2> QED
    BY <1>3, <2>2, ComponentsAre
<1>4. CASE name = "wind"
  <2> DEFINE v == Largest(Of("wind", hours))  a == Curve(v, 25, 60)
             w == Largest(Of("gust", hours))  b == Curve(w, 35, 75)
  <2> HIDE DEF v, w
  <2>1. v \in Int \cup {NoRisk} /\ w \in Int \cup {NoRisk}
    BY ReadingsOf, LargestFacts DEF v, w
  <2>2. a \in Scale \cup {NoRisk} /\ b \in Scale \cup {NoRisk}
    BY <2>1, CurveRange
  <2> HIDE DEF a, b
  <2>3. Largest({a, b}) \in Scale \cup {NoRisk}
    BY <1>0, <2>2, LargestPair
  <2>4. Components(hours)["wind"] = Largest({a, b})
    BY ComponentsAre DEF a, b, v, w
  <2> QED
    BY <1>4, <2>3, <2>4
<1>5. CASE name = "condition"
  <2> DEFINE S == {Severity(h.code) : h \in hours}
  <2>1. IsFiniteSet(S) /\ S \subseteq Scale \cup {NoRisk}
    BY ReadingsOf
  <2> HIDE DEF S
  <2>2. Largest(S) \in Scale \cup {NoRisk}
    BY <1>0, <2>1, LargestFacts
  <2> QED
    BY <1>5, <2>2, ComponentsAre DEF S
<1> QED
  BY <1>1, <1>2, <1>3, <1>4, <1>5 DEF Names

\* Among known hours no component is below that of any one of them.
AllKnown(h) ==
  /\ h.probability # NoRisk /\ h.amount # NoRisk /\ Felt(h) # NoRisk
  /\ h.wind # NoRisk /\ h.gust # NoRisk /\ Severity(h.code) # NoRisk

LEMMA HourComponents ==
  ASSUME NEW hours, IsFiniteSet(hours), hours \subseteq NormalizedHour,
         NEW h \in hours, AllKnown(h), NEW name \in Names
  PROVE  /\ Components({h})[name] \in Scale /\ Components(hours)[name] \in Scale
         /\ Components({h})[name] <= Components(hours)[name]
<1>0. Scale \subseteq Int /\ NoRisk \notin Int
  BY ReadingsOf, RiskAssumption
<1> HIDE DEF Scale
<1>a. ASSUME NEW field \in {"probability", "amount", "wind", "gust"}
      PROVE  /\ Largest(Of(field, {h})) \in Of(field, {h}) \cap Int
             /\ Largest(Of(field, hours)) \in Of(field, hours) \cap Int
             /\ Largest(Of(field, {h})) <= Largest(Of(field, hours))
  <2>1. /\ Of(field, {h}) \subseteq Of(field, hours)
        /\ h[field] \in Of(field, {h}) /\ h[field] # NoRisk
    BY DEF AllKnown, Of
  <2>2. IsFiniteSet(Of(field, hours)) /\ Of(field, hours) \subseteq Int \cup {NoRisk}
    BY ReadingsOf
  <2> QED
    BY <2>1, <2>2, LargestGrows
<1>b. FeltOf({h}) \subseteq FeltOf(hours) /\ Felt(h) \in FeltOf({h}) /\ Felt(h) # NoRisk
  BY DEF AllKnown, FeltOf
<1>c. IsFiniteSet(FeltOf(hours)) /\ FeltOf(hours) \subseteq Int \cup {NoRisk}
  BY ReadingsOf
<1>1. CASE name = "rain"
  <2> DEFINE p == Largest(Of("probability", {h}))  P == Largest(Of("probability", hours))
             q == Largest(Of("amount", {h}))       Q == Largest(Of("amount", hours))
  <2>1. p \in Int /\ P \in Int /\ q \in Int /\ Q \in Int /\ p <= P /\ q <= Q
    BY <1>a
  <2>2. p \in 0..100 /\ P \in 0..100
    <3>1. Of("probability", hours) \subseteq 0..100 \cup {NoRisk}
      BY ReadingsOf
    <3>2. p \in Of("probability", hours) /\ P \in Of("probability", hours)
      BY <1>a DEF Of
    <3> HIDE DEF p, P
    <3> QED
      BY <1>0, <2>1, <3>1, <3>2
  <2>3. /\ Components({h})[name] = Largest({Chance(p), Scaled(q)})
        /\ Components(hours)[name] = Largest({Chance(P), Scaled(Q)})
    BY <1>1, ComponentsAre
  <2> HIDE DEF p, P, q, Q
  <2>4. /\ Chance(p) \in Scale /\ Chance(P) \in Scale /\ Chance(p) <= Chance(P)
    <3>1. Chance(p) = p * Unit /\ Chance(P) = P * Unit
      BY <1>0, <2>1 DEF Chance
    <3>2. /\ 0 <= p * Unit /\ p * Unit <= P * Unit /\ P * Unit <= 100 * Unit
          /\ p * Unit \in Int /\ P * Unit \in Int
      BY <2>1, <2>2, ScaleFacts
    <3> QED
      BY <3>1, <3>2, ScaleFacts DEF Scale
  <2>5. /\ Scaled(q) \in Scale /\ Scaled(Q) \in Scale /\ Scaled(q) <= Scaled(Q)
    <3>1. Scaled(q) = Points(q * 2 * Unit) /\ Scaled(Q) = Points(Q * 2 * Unit)
      BY <1>0, <2>1 DEF Scaled
    <3>2. q * 2 * Unit \in Int /\ Q * 2 * Unit \in Int /\ q * 2 * Unit <= Q * 2 * Unit
      BY <2>1, ScaleFacts
    <3> QED
      BY <3>1, <3>2, PointsFacts
  <2> QED
    BY <2>3, <2>4, <2>5, PairGrows
<1>2. CASE name = "heat"
  <2> DEFINE v == Largest(FeltOf({h}))  w == Largest(FeltOf(hours))
  <2>1. v \in Int /\ w \in Int /\ v <= w
    BY <1>b, <1>c, LargestGrows
  <2>2. Components({h})[name] = Curve(v, 32, 45) /\ Components(hours)[name] = Curve(w, 32, 45)
    BY <1>2, ComponentsAre
  <2> HIDE DEF v, w
  <2> QED
    BY <2>1, <2>2, CurveFacts
<1>3. CASE name = "cold"
  <2> DEFINE v == Smallest(FeltOf(hours))  w == Smallest(FeltOf({h}))
  <2>1. v \in Int /\ w \in Int /\ v <= w
    BY <1>b, <1>c, SmallestFalls
  <2>2. /\ Components({h})[name] = InverseCurve(w, 12, 0)
        /\ Components(hours)[name] = InverseCurve(v, 12, 0)
    BY <1>3, ComponentsAre
  <2> HIDE DEF v, w
  <2> QED
    BY <2>1, <2>2, InverseCurveFacts
<1>4. CASE name = "wind"
  <2> DEFINE v == Largest(Of("wind", {h}))  V == Largest(Of("wind", hours))
             w == Largest(Of("gust", {h}))  W == Largest(Of("gust", hours))
             a == Curve(v, 25, 60)  A == Curve(V, 25, 60)
             b == Curve(w, 35, 75)  B == Curve(W, 35, 75)
  <2>1. v \in Int /\ V \in Int /\ w \in Int /\ W \in Int /\ v <= V /\ w <= W
    BY <1>a
  <2>2. /\ Components({h})[name] = Largest({a, b})
        /\ Components(hours)[name] = Largest({A, B})
    BY <1>4, ComponentsAre
  <2> HIDE DEF v, V, w, W
  <2>3. a \in Scale /\ A \in Scale /\ a <= A
    BY <2>1, CurveFacts
  <2>4. b \in Scale /\ B \in Scale /\ b <= B
    BY <2>1, CurveFacts
  <2> HIDE DEF a, A, b, B
  <2> QED
    BY <2>2, <2>3, <2>4, PairGrows
<1>5. CASE name = "condition"
  <2> DEFINE S == {Severity(x.code) : x \in {h}}
             T == {Severity(x.code) : x \in hours}
  <2>1. /\ IsFiniteSet(T) /\ T \subseteq Scale \cup {NoRisk} /\ S \subseteq T
        /\ Severity(h.code) \in S /\ Severity(h.code) # NoRisk
    BY ReadingsOf DEF AllKnown
  <2>2. Components({h})[name] = Largest(S) /\ Components(hours)[name] = Largest(T)
    BY <1>5, ComponentsAre
  <2> HIDE DEF S, T
  <2>3. /\ Largest(S) \in S \cap Int /\ Largest(T) \in T \cap Int
        /\ Largest(S) <= Largest(T)
    BY <1>0, <2>1, LargestGrows
  <2> QED
    BY <1>0, <2>1, <2>2, <2>3
<1> QED
  BY <1>1, <1>2, <1>3, <1>4, <1>5 DEF Names

-----------------------------------------------------------------------------
(* The risk of the hours around a match.                                   *)

KnownNames(value)      == {name \in DOMAIN value : value[name] # NoRisk}
WeightOf(names)        == SumFunction(Restrict(Weight, names))
WeightedSum(value, names) == SumFunction([name \in names |-> Weight[name] * value[name]])
WorstOf(value, names)  == Max({value[name] : name \in names})

LEMMA HoursRiskIs ==
  ASSUME NEW hours
  PROVE  LET value == Components(hours)
             names == KnownNames(value)
         IN  HoursRisk(hours) =
               IF IsCovered(hours)
                 THEN 10 * Rounded(3 * WorstOf(value, names) * WeightOf(names)
                                     + 2 * WeightedSum(value, names),
                                   5 * WeightOf(names) * Unit)
                 ELSE NoRisk
BY DEF HoursRisk, KnownNames, WeightOf, WeightedSum, WorstOf

LEMMA NamesFinite == IsFiniteSet(Names)
<1>1. /\ IsFiniteSet({"rain"}) /\ IsFiniteSet({"rain"} \cup {"heat"})
      /\ IsFiniteSet(({"rain"} \cup {"heat"}) \cup {"cold"})
      /\ IsFiniteSet((({"rain"} \cup {"heat"}) \cup {"cold"}) \cup {"wind"})
      /\ IsFiniteSet(((({"rain"} \cup {"heat"}) \cup {"cold"}) \cup {"wind"}) \cup {"condition"})
  BY FS_Singleton, FS_AddElement
<1>2. Names = ((({"rain"} \cup {"heat"}) \cup {"cold"}) \cup {"wind"}) \cup {"condition"}
  BY DEF Names
<1> QED
  BY <1>1, <1>2

LEMMA WeightFacts ==
  /\ DOMAIN Weight = Names
  /\ \A name \in Names : Weight[name] \in 2..9
BY DEF Weight, Names

\* The weights of the known components, their weighted sum and their worst.
LEMMA MeanFacts ==
  ASSUME NEW names \in SUBSET Names, names # {},
         NEW value, \A name \in names : value[name] \in Scale
  PROVE  /\ WeightOf(names) \in Int /\ WeightOf(names) > 0
         /\ WeightedSum(value, names) \in Int
         /\ 0 <= WeightedSum(value, names)
         /\ WeightedSum(value, names) <= (100 * Unit) * WeightOf(names)
         /\ WorstOf(value, names) \in Scale
         /\ \A name \in names : value[name] <= WorstOf(value, names)
<1> DEFINE w == Restrict(Weight, names)
           f == [name \in names |-> Weight[name] * value[name]]
           top == 100 * Unit
           g == [name \in names |-> top * w[name]]
           l == [name \in names |-> 0]
<1>0. IsFiniteSet(names) /\ Cardinality(names) \in Nat /\ Cardinality(names) # 0
  BY NamesFinite, FS_Subset, FS_CardinalityType, FS_EmptySet
<1>t. top \in Int /\ Scale = 0..top
  BY ScaleFacts DEF Scale
<1>1. DOMAIN w = names /\ \A name \in names : w[name] = Weight[name] /\ w[name] \in 2..9
  BY WeightFacts DEF Restrict
<1> HIDE DEF w, top
<1>2. WeightOf(names) \in Int /\ 2 * Cardinality(names) <= WeightOf(names)
  <2>1. 2 \in Int /\ 9 \in Int /\ IsFiniteSet(DOMAIN w) /\ \A x \in DOMAIN w : w[x] \in 2..9
    BY <1>0, <1>1
  <2>2. SumFunction(w) \in Int /\ 2 * Cardinality(DOMAIN w) <= SumFunction(w)
    BY <2>1, SumBounds
  <2> QED
    BY <1>1, <2>2 DEF WeightOf, w
<1>3. WeightOf(names) > 0
  BY <1>0, <1>2
<1>4. ASSUME NEW name \in names
      PROVE  /\ f[name] \in Int /\ 0 <= f[name]
             /\ g[name] \in Int /\ f[name] <= g[name]
  <2>1. value[name] \in Int /\ 0 <= value[name] /\ value[name] <= top
    BY <1>t
  <2>2. w[name] \in Int /\ 0 <= w[name]
    BY <1>1
  <2>3. f[name] = w[name] * value[name] /\ g[name] = top * w[name]
    BY <1>1
  <2>4. /\ w[name] * value[name] \in Int /\ 0 <= w[name] * value[name]
        /\ top * w[name] \in Int /\ w[name] * value[name] <= top * w[name]
    BY <1>t, <2>1, <2>2
  <2> QED
    BY <2>3, <2>4
<1>5. DOMAIN f = names /\ DOMAIN g = names /\ DOMAIN l = names
      /\ \A name \in names : l[name] = 0
  OBVIOUS
<1>6. SumFunction(g) = top * WeightOf(names)
  <2>1. \A name \in DOMAIN w : w[name] \in Int
    BY <1>1
  <2>2. SumFunction([name \in DOMAIN w |-> top * w[name]]) = top * SumFunction(w)
    BY <1>0, <1>1, <1>t, <2>1, SumScaled
  <2> QED
    BY <1>1, <2>2 DEF WeightOf, w
<1>7. SumFunction(l) = 0
  <2>1. SumFunction(l) \in Int /\ 0 * Cardinality(names) <= SumFunction(l)
        /\ SumFunction(l) <= 0 * Cardinality(names)
    BY <1>0, <1>5, SumBounds
  <2> QED
    BY <1>0, <2>1
<1> HIDE DEF f, g, l
<1>8. SumFunction(f) \in Int /\ SumFunction(f) <= SumFunction(g) /\ SumFunction(l) <= SumFunction(f)
  BY <1>0, <1>4, <1>5, SumInt, SumMonotone
<1>9. WeightedSum(value, names) = SumFunction(f)
  BY DEF WeightedSum, f
<1>10. /\ WorstOf(value, names) \in Scale
       /\ \A name \in names : value[name] <= WorstOf(value, names)
  <2> DEFINE v == [name \in names |-> value[name]]
             S == {v[name] : name \in DOMAIN v}
  <2>1. IsFiniteSet(S)
    BY <1>0, ImageFinite
  <2>2. S = {value[name] : name \in names} /\ S # {} /\ S \subseteq Scale
    OBVIOUS
  <2> HIDE DEF S
  <2>a. S \in SUBSET Int
    BY <1>t, <2>2
  <2>3. Max(S) \in S /\ \A y \in S : y <= Max(S)
    BY <2>1, <2>2, <2>a, MaxFacts
  <2> QED
    BY <2>2, <2>3 DEF WorstOf
<1> QED
  BY <1>2, <1>3, <1>6, <1>7, <1>8, <1>9, <1>10 DEF top

\* A risk is a number of points, or not known.
LEMMA HoursRiskRange ==
  ASSUME NEW hours, IsFiniteSet(hours), hours \subseteq NormalizedHour
  PROVE  HoursRisk(hours) \in 0..1000 \cup {NoRisk}
<1> DEFINE value == Components(hours)
           names == KnownNames(value)
           worst == WorstOf(value, names)
           weight == WeightOf(names)
           sum == WeightedSum(value, names)
<1>1. CASE ~IsCovered(hours)
  BY <1>1, HoursRiskIs
<1>2. CASE IsCovered(hours)
  <2>1. names \in SUBSET Names /\ "wind" \in names /\ \A name \in names : value[name] \in Scale
    <3>1. DOMAIN value = Names /\ "wind" \in Names
      BY ComponentsAre DEF Names
    <3>2. \A name \in Names : value[name] \in Scale \cup {NoRisk}
      BY ComponentRange
    <3>3. value["wind"] # NoRisk
      BY <1>2 DEF IsCovered
    <3> HIDE DEF value
    <3> QED
      BY <3>1, <3>2, <3>3 DEF KnownNames
  <2> HIDE DEF value, names
  <2>2. /\ weight \in Int /\ weight > 0 /\ sum \in Int /\ 0 <= sum
        /\ sum <= (100 * Unit) * weight /\ worst \in Scale
    BY <2>1, MeanFacts
  <2> HIDE DEF worst, weight, sum
  <2>3. worst \in Int /\ 0 <= worst /\ worst <= 100 * Unit
    BY <2>2, ScaleFacts DEF Scale
  <2>4. /\ 3 * worst * weight \in Int /\ 0 <= 3 * worst * weight
        /\ 3 * worst * weight <= 3 * (100 * Unit) * weight
    <3>1. /\ worst * weight \in Int /\ 0 <= worst * weight
          /\ worst * weight <= (100 * Unit) * weight /\ (100 * Unit) * weight \in Int
      BY <2>2, <2>3, ScaleFacts
    <3>2. /\ 3 * worst * weight = 3 * (worst * weight)
          /\ 3 * (100 * Unit) * weight = 3 * ((100 * Unit) * weight)
      BY <2>2, <2>3, ScaleFacts
    <3> QED
      BY <3>1, <3>2
  <2>5. /\ 5 * weight * Unit \in Int /\ 5 * weight * Unit > 0
        /\ (5 * weight * Unit) * 100 = 3 * (100 * Unit) * weight + 2 * ((100 * Unit) * weight)
    <3>1. /\ weight * Unit \in Int /\ weight * Unit > 0
          /\ (100 * Unit) * weight = 100 * (weight * Unit)
      BY <2>2, ScaleFacts
    <3>2. 5 * weight * Unit = 5 * (weight * Unit)
      BY <2>2, ScaleFacts
    <3>3. 3 * (100 * Unit) * weight = 3 * ((100 * Unit) * weight)
      BY <2>2, ScaleFacts
    <3> QED
      BY <3>1, <3>2, <3>3
  <2>6. Rounded(3 * worst * weight + 2 * sum, 5 * weight * Unit) \in 0..100
    <3>1. (100 * Unit) * weight \in Int /\ 3 * (100 * Unit) * weight \in Int
      BY <2>2, ScaleFacts
    <3>2. /\ 3 * worst * weight + 2 * sum \in Int /\ 0 <= 3 * worst * weight + 2 * sum
          /\ 3 * worst * weight + 2 * sum <= (5 * weight * Unit) * 100
      BY <2>2, <2>4, <2>5, <3>1
    <3> DEFINE num == 3 * worst * weight + 2 * sum  den == 5 * weight * Unit
    <3>3. num \in Int /\ den \in Int /\ 0 <= num /\ num <= den * 100 /\ den > 0
      BY <2>5, <3>2
    <3> HIDE DEF num, den
    <3>4. \A k \in Int : 0 <= k /\ num <= den * k => Rounded(num, den) \in 0..k
      BY <3>3, RoundedRange
    <3>5. Rounded(num, den) \in 0..100
      BY <3>3, <3>4
    <3> QED
      BY <3>5 DEF num, den
  <2>7. HoursRisk(hours) = 10 * Rounded(3 * worst * weight + 2 * sum, 5 * weight * Unit)
    BY <1>2, HoursRiskIs DEF value, names, worst, weight, sum
  <2> QED
    BY <2>6, <2>7
<1> QED
  BY <1>1, <1>2

\* No hour around a match is riskier than the match, when all their readings and
\* severities are known: the mean of the worst readings and the bound of the worst one
\* only grow with another hour (risk.py:138-212).
THEOREM HoursRiskGrows ==
  ASSUME NEW hours, IsFiniteSet(hours), hours \subseteq NormalizedHour,
         \A x \in hours : AllKnown(x), NEW h \in hours
  PROVE  HoursRisk({h}) <= HoursRisk(hours)
<1> DEFINE c == Components({h})  C == Components(hours)
           weight == WeightOf(Names)
           w == WorstOf(c, Names)      W == WorstOf(C, Names)
           s == WeightedSum(c, Names)  S == WeightedSum(C, Names)
<1>0. Scale \subseteq Int /\ NoRisk \notin Int
  BY ReadingsOf, RiskAssumption, ScaleFacts
<1>1. \A name \in Names : c[name] \in Scale /\ C[name] \in Scale /\ c[name] <= C[name]
  BY HourComponents
<1>2. KnownNames(c) = Names /\ KnownNames(C) = Names
  BY <1>0, <1>1, ComponentsAre DEF KnownNames
<1>3. IsCovered({h}) /\ IsCovered(hours)
  <2>1. AllKnown(h)
    OBVIOUS
  <2>2. "wind" \in Names
    BY DEF Names
  <2>3. c.wind # NoRisk /\ C.wind # NoRisk
    BY <1>0, <1>1, <2>2
  <2> QED
    BY <2>1, <2>3 DEF IsCovered, Known, AllKnown
<1>4. /\ HoursRisk({h}) = 10 * Rounded(3 * w * weight + 2 * s, 5 * weight * Unit)
      /\ HoursRisk(hours) = 10 * Rounded(3 * W * weight + 2 * S, 5 * weight * Unit)
  BY <1>2, <1>3, HoursRiskIs
<1> HIDE DEF c, C
<1>5. Names # {} /\ Names \in SUBSET Names
  BY DEF Names
<1>6. /\ weight \in Int /\ weight > 0 /\ s \in Int /\ w \in Scale
      /\ \A name \in Names : c[name] <= w
  BY <1>1, <1>5, MeanFacts
<1>7. S \in Int /\ W \in Scale /\ \A name \in Names : C[name] <= W
  BY <1>1, <1>5, MeanFacts
<1>8. s <= S
  <2> DEFINE f == [name \in Names |-> Weight[name] * c[name]]
             g == [name \in Names |-> Weight[name] * C[name]]
  <2>1. ASSUME NEW name \in Names
        PROVE  f[name] \in Int /\ g[name] \in Int /\ f[name] <= g[name]
    <3>1. Weight[name] \in Int /\ 0 <= Weight[name]
      BY WeightFacts
    <3>2. c[name] \in Int /\ C[name] \in Int /\ c[name] <= C[name]
      BY <1>0, <1>1
    <3> QED
      BY <3>1, <3>2
  <2>2. DOMAIN f = Names /\ DOMAIN g = Names
    OBVIOUS
  <2> HIDE DEF f, g
  <2>3. SumFunction(f) <= SumFunction(g)
    BY <2>1, <2>2, NamesFinite, SumMonotone
  <2> QED
    BY <2>3 DEF f, g, WeightedSum
<1>9. w <= W
  <2> DEFINE v == [name \in Names |-> c[name]]
             T == {c[name] : name \in Names}
  <2>1. IsFiniteSet({v[name] : name \in DOMAIN v}) /\ {v[name] : name \in DOMAIN v} = T
    BY NamesFinite, ImageFinite
  <2>2. T \in SUBSET Int /\ T # {}
    BY <1>0, <1>1, <1>5
  <2> HIDE DEF T
  <2>3. Max(T) \in T
    BY <2>1, <2>2, MaxFacts
  <2>4. PICK name \in Names : w = c[name]
    BY <2>3 DEF T, WorstOf
  <2>5. c[name] \in Int /\ C[name] \in Int /\ W \in Int /\ c[name] <= C[name] /\ C[name] <= W
    BY <1>0, <1>1, <1>7
  <2> QED
    BY <2>4, <2>5
<1>10. w \in Int /\ W \in Int
  BY <1>0, <1>6, <1>7
<1> HIDE DEF w, W, s, S, weight
<1>11. 5 * weight * Unit \in Int /\ 5 * weight * Unit > 0
  <2>1. weight * Unit \in Int /\ weight * Unit > 0 /\ 5 * weight * Unit = 5 * (weight * Unit)
    BY <1>6, ScaleFacts
  <2> QED
    BY <2>1
<1>12. /\ 3 * w * weight + 2 * s \in Int /\ 3 * W * weight + 2 * S \in Int
       /\ 3 * w * weight + 2 * s <= 3 * W * weight + 2 * S
  <2>1. w * weight \in Int /\ W * weight \in Int /\ w * weight <= W * weight
    BY <1>6, <1>9, <1>10
  <2>2. 3 * w * weight = 3 * (w * weight) /\ 3 * W * weight = 3 * (W * weight)
    BY <1>6, <1>10
  <2> QED
    BY <1>6, <1>7, <1>8, <2>1, <2>2
<1>13. LET r == Rounded(3 * w * weight + 2 * s, 5 * weight * Unit)
           R == Rounded(3 * W * weight + 2 * S, 5 * weight * Unit)
       IN  r \in Int /\ R \in Int /\ r <= R
  BY <1>11, <1>12, RoundedMonotone
<1> QED
  BY <1>4, <1>13

\* Without any probability of rain there is no risk.
LEMMA NoProbability ==
  ASSUME NEW hours, \A h \in hours : h.probability = NoRisk
  PROVE  HoursRisk(hours) = NoRisk
BY DEF HoursRisk, IsCovered, Known

-----------------------------------------------------------------------------
(* The figures of a schedule.                                              *)

Risk == 0..1000 \cup {NoRisk}

\* The risk of a schedule and its coverage can be reported, whatever is known of its
\* fixtures (fairness/metrics.py).
THEOREM ScheduleRange ==
  ASSUME NEW risk, IsFiniteSet(DOMAIN risk), \A m \in DOMAIN risk : risk[m] \in Risk,
         DOMAIN risk # {}
  PROVE  ScheduleRisk(risk) \in Risk /\ ScheduleCoverage(risk) \in 0..1000
<1> DEFINE D == DOMAIN risk
           C == Covered(risk)
           f == Restrict(risk, C)
<1>1. C \in SUBSET D /\ \A m \in C : risk[m] \in 0..1000
  BY RiskAssumption DEF Covered, Risk
<1>2. /\ IsFiniteSet(C) /\ Cardinality(C) \in Nat /\ Cardinality(D) \in Nat
      /\ Cardinality(C) <= Cardinality(D) /\ Cardinality(D) # 0
      /\ C # {} => Cardinality(C) # 0
  BY <1>1, FS_Subset, FS_CardinalityType, FS_EmptySet
<1>3. ScheduleRisk(risk) \in Risk
  <2>1. CASE C = {}
    BY <2>1 DEF ScheduleRisk, Risk
  <2>2. CASE C # {}
    <3>1. DOMAIN f = C /\ \A m \in C : f[m] \in 0..1000
      BY <1>1 DEF Restrict
    <3> HIDE DEF f
    <3>2. \A k \in Int : (\A m \in C : f[m] \in 0..k) =>
            /\ SumFunction(f) \in Int /\ 0 * Cardinality(C) <= SumFunction(f)
            /\ SumFunction(f) <= k * Cardinality(C)
      BY <1>2, <3>1, SumBounds
    <3> DEFINE sum == SumFunction(f)
               k == 1000
               n == Cardinality(C)
    <3>k. k \in Int /\ \A m \in C : f[m] \in 0..k
      BY <3>1
    <3> HIDE DEF k, n
    <3>n. n \in Nat /\ sum \in Int /\ 0 * n <= sum /\ sum <= k * n
      BY <1>2, <3>2, <3>k DEF n
    <3>3. sum \in Int /\ 0 <= sum /\ sum <= n * k
      BY <3>k, <3>n
    <3>4. n > 0 /\ k \in Nat
      BY <1>2, <2>2 DEF n, k
    <3> HIDE DEF sum
    <3>5. Rounded(sum, n) \in 0..k
      BY <3>3, <3>4, <3>n, RoundedRange
    <3> QED
      BY <2>2, <3>5 DEF ScheduleRisk, RiskSum, Risk, f, sum, n, k
  <2> QED
    BY <2>1, <2>2
<1>4. ScheduleCoverage(risk) \in 0..1000
  <2> DEFINE n == Cardinality(C)
             d == Cardinality(D)
  <2>1. n \in Int /\ d \in Int /\ 0 <= n /\ n <= d /\ d > 0
    BY <1>2
  <2> HIDE DEF n, d
  <2>2. Percent(n, d) \in 0..1000
    BY <2>1, PercentRange
  <2> QED
    BY <2>2 DEF ScheduleCoverage, n, d
<1> QED
  BY <1>3, <1>4

=============================================================================
