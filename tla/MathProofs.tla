------------------------------ MODULE MathProofs ------------------------------
(***************************************************************************)
(* Facts about division, numbers and finite sums that the proofs of        *)
(* several components rest on.  Induction is stated with sets: a set of    *)
(* numbers that has 0 and with each number the next one is all of Nat; a   *)
(* non-empty set of finite sets has a smallest one.                        *)
(***************************************************************************)
EXTENDS Integers, FiniteSetsExt, FiniteSetTheorems, WellFoundedInduction, TLAPS

LEMMA IntDivision ==
  ASSUME NEW n \in Int, NEW d \in Nat \ {0}
  PROVE  /\ n \div d \in Int
         /\ n % d \in 0 .. d - 1
         /\ n = d * (n \div d) + (n % d)
OBVIOUS

LEMMA Division ==
  ASSUME NEW n \in Nat, NEW d \in Nat \ {0}
  PROVE  /\ n \div d \in Nat
         /\ n % d \in 0 .. d - 1
         /\ n = d * (n \div d) + (n % d)
OBVIOUS

(* The quotient and the rest are the only ones.                            *)
LEMMA DivisionUnique ==
  ASSUME NEW d \in Nat \ {0}, NEW q \in Int, NEW r \in 0 .. d - 1
  PROVE  /\ (d * q + r) \div d = q
         /\ (d * q + r) % d = r
<1> DEFINE n == d * q + r
           p == n \div d
           s == n % d
<1>1. n \in Int  OBVIOUS
<1>2. p \in Int /\ s \in 0 .. d - 1 /\ n = d * p + s  BY <1>1, IntDivision
<1> HIDE DEF n, p, s
<1>3. d * (p - q) = r - s  BY <1>2 DEF n
<1>4. CASE p > q
  <2>1. d * (p - q) >= d  BY <1>2, <1>4
  <2> QED  BY <1>2, <1>3, <2>1
<1>5. CASE p < q
  <2>1. d * (q - p) >= d  BY <1>2, <1>5
  <2>2. d * (q - p) = s - r  BY <1>2, <1>3
  <2> QED  BY <1>2, <2>1, <2>2
<1>6. CASE p = q
  <2>1. r = s  BY <1>2, <1>3, <1>6
  <2> QED  BY <1>2, <1>6, <2>1 DEF n, p, s
<1> QED  BY <1>2, <1>4, <1>5, <1>6

-----------------------------------------------------------------------------
LEMMA LeastNat ==
  ASSUME NEW T \in SUBSET Nat, T # {}
  PROVE  \E n \in T : \A m \in T : n <= m
<1> DEFINE Below(n) == 0 .. n - 1
           Fam == {Below(n) : n \in T}
           R == StrictSubsetOrdering(Nat)
<1>1. Fam \subseteq FiniteSubsetsOf(Nat)
  <2>1. ASSUME NEW n \in T PROVE Below(n) \subseteq Nat /\ IsFiniteSet(Below(n))
    <3>1. 0 \in Int /\ n - 1 \in Int  OBVIOUS
    <3> QED  BY <3>1, FS_Interval
  <2> QED  BY <2>1 DEF FiniteSubsetsOf
<1>2. Fam # {}  OBVIOUS
<1> HIDE DEF Fam
<1>3. PICK s \in Fam : \A t \in Fam : ~ (<<t, s>> \in R)
  BY <1>1, <1>2, FS_StrictSubsetOrderingWellFounded, WFMin
<1>4. PICK n \in T : s = Below(n)  BY <1>3 DEF Fam
<1>5. ASSUME NEW m \in T, m < n PROVE FALSE
  <2>1. Below(m) \in Fam  BY DEF Fam
  <2>2. Below(m) \subseteq Below(n)  BY <1>5
  <2>3. m \in Below(n) /\ m \notin Below(m)  BY <1>5
  <2>4. Below(m) \in SUBSET Nat /\ Below(n) \in SUBSET Nat  OBVIOUS
  <2>5. <<Below(m), Below(n)>> \in R
    BY <2>2, <2>3, <2>4 DEF StrictSubsetOrdering
  <2> QED  BY <1>3, <1>4, <2>1, <2>5
<1> QED  BY <1>5

(* Induction over the natural numbers.                                     *)
LEMMA NatInduct ==
  ASSUME NEW P \in SUBSET Nat, 0 \in P, \A n \in P : n + 1 \in P
  PROVE  P = Nat
<1>1. SUFFICES ASSUME Nat \ P # {} PROVE FALSE  OBVIOUS
<1>2. PICK n \in Nat \ P : \A m \in Nat \ P : n <= m  BY <1>1, LeastNat
<1>3. n - 1 \in Nat /\ n - 1 \notin Nat \ P  BY <1>2
<1> QED  BY <1>2, <1>3

(* Induction over the subsets of a finite set.                             *)
LEMMA SetLeast ==
  ASSUME NEW S, IsFiniteSet(S), NEW Fam \in SUBSET (SUBSET S), Fam # {}
  PROVE  \E s \in Fam : \A t \in Fam : t \subseteq s => t = s
<1>1. Fam \subseteq FiniteSubsetsOf(S)  BY FS_FiniteSubsetsOfFinite
<1>2. PICK s \in Fam : \A t \in Fam : ~ (<<t, s>> \in StrictSubsetOrdering(S))
  BY <1>1, FS_StrictSubsetOrderingWellFounded, WFMin
<1>3. ASSUME NEW t \in Fam, t \subseteq s, t # s PROVE FALSE
  <2>1. <<t, s>> \in StrictSubsetOrdering(S)  BY <1>3 DEF StrictSubsetOrdering
  <2> QED  BY <1>2, <2>1
<1> QED  BY <1>3

LEMMA SetInduct ==
  ASSUME NEW S, IsFiniteSet(S), NEW P \in SUBSET (SUBSET S), {} \in P,
         \A s \in SUBSET S : s # {} => \E x \in s : s \ {x} \in P => s \in P
  PROVE  S \in P
<1>1. SUFFICES ASSUME S \notin P PROVE FALSE  OBVIOUS
<1> DEFINE Fam == (SUBSET S) \ P
<1>2. Fam # {} /\ Fam \in SUBSET (SUBSET S)  BY <1>1
<1>3. PICK s \in Fam : \A t \in Fam : t \subseteq s => t = s
  <2> HIDE DEF Fam
  <2> QED  BY <1>2, SetLeast
<1>4. s # {}  BY <1>3
<1>5. PICK x \in s : s \ {x} \in P => s \in P  BY <1>3, <1>4
<1>6. s \ {x} \subseteq s /\ s \ {x} # s  BY <1>5
<1> QED  BY <1>3, <1>5, <1>6

-----------------------------------------------------------------------------
(* The sum of f[x] over x in S, as MapThenSumSet and FoldFunctionOnSet     *)
(* compute it.                                                             *)
SumOf(f, S) == MapThenSumSet(LAMBDA x : f[x], S)

Pick(s) == CHOOSE x \in s : TRUE
SumStep(f, g, s) == IF s = {} THEN 0 ELSE f[Pick(s)] + g[s \ {Pick(s)}]
IsSum(f, g, S) == g = [s \in SUBSET S |-> SumStep(f, g, s)]

LEMMA PickIn == \A s : s # {} => Pick(s) \in s
BY DEF Pick

LEMMA SumOfDef ==
  ASSUME NEW f, NEW S
  PROVE  SumOf(f, S) = (CHOOSE g : IsSum(f, g, S))[S]
BY Zenon DEF SumOf, MapThenSumSet, MapThenFoldSet, IsSum, SumStep, Pick

LEMMA SumExists ==
  ASSUME NEW S, IsFiniteSet(S), NEW f, \A x \in S : f[x] \in Int
  PROVE  \E g \in [SUBSET S -> Int] : IsSum(f, g, S)
<1> DEFINE Good(g, n) ==
             \A s \in SUBSET S : Cardinality(s) <= n => g[s] = SumStep(f, g, s)
           P == {n \in Nat : \E g \in [SUBSET S -> Int] : Good(g, n)}
<1>0. ASSUME NEW s \in SUBSET S
      PROVE  /\ Cardinality(s) \in Nat
             /\ Cardinality(s) <= Cardinality(S)
             /\ Cardinality(s) = 0 => s = {}
             /\ s # {} => /\ Pick(s) \in S /\ Pick(s) \in s
                          /\ s \ {Pick(s)} \in SUBSET S
                          /\ Cardinality(s \ {Pick(s)}) = Cardinality(s) - 1
  <2>1. IsFiniteSet(s) /\ Cardinality(s) <= Cardinality(S)  BY FS_Subset
  <2>2. Cardinality(s) \in Nat  BY <2>1, FS_CardinalityType
  <2>3. Cardinality(s) = 0 => s = {}  BY <2>1, FS_EmptySet
  <2>4. ASSUME s # {} PROVE Cardinality(s \ {Pick(s)}) = Cardinality(s) - 1
    BY <2>1, <2>4, PickIn, FS_RemoveElement
  <2> QED  BY <2>1, <2>2, <2>3, <2>4, PickIn
<1>1. ASSUME NEW g \in [SUBSET S -> Int]
      PROVE  [s \in SUBSET S |-> SumStep(f, g, s)] \in [SUBSET S -> Int]
  <2>1. ASSUME NEW s \in SUBSET S PROVE SumStep(f, g, s) \in Int
    <3>1. CASE s = {}  BY <3>1 DEF SumStep
    <3>2. CASE s # {}
      <4>1. f[Pick(s)] \in Int /\ g[s \ {Pick(s)}] \in Int  BY <1>0, <3>2
      <4> QED  BY <3>2, <4>1 DEF SumStep
    <3> QED  BY <3>1, <3>2
  <2> QED  BY <2>1
<1>2. 0 \in P
  <2> DEFINE g == [s \in SUBSET S |-> 0]
  <2>1. ASSUME NEW s \in SUBSET S, Cardinality(s) <= 0 PROVE g[s] = SumStep(f, g, s)
    <3>1. s = {}
      <4>1. Cardinality(s) \in Nat /\ (Cardinality(s) = 0 => s = {})  BY <1>0
      <4> QED  BY <2>1, <4>1
    <3> QED  BY <3>1 DEF SumStep
  <2>2. g \in [SUBSET S -> Int] /\ Good(g, 0)  BY <2>1
  <2> HIDE DEF g
  <2> QED  BY <2>2
<1>3. ASSUME NEW n \in P PROVE n + 1 \in P
  <2>1. PICK g \in [SUBSET S -> Int] : Good(g, n)  OBVIOUS
  <2> DEFINE h == [s \in SUBSET S |-> SumStep(f, g, s)]
  <2>2. h \in [SUBSET S -> Int]  BY <1>1
  <2>3. ASSUME NEW s \in SUBSET S, Cardinality(s) <= n + 1
        PROVE  h[s] = SumStep(f, h, s)
    <3>1. CASE s = {}  BY <3>1 DEF SumStep
    <3>2. CASE s # {}
      <4> DEFINE t == s \ {Pick(s)}
      <4>1. t \in SUBSET S /\ Cardinality(t) <= n  BY <1>0, <2>3, <3>2
      <4>2. h[t] = g[t]  BY <2>1, <4>1
      <4> QED  BY <3>2, <4>2 DEF SumStep
    <3> QED  BY <3>1, <3>2
  <2>4. Good(h, n + 1)  BY <2>3
  <2> HIDE DEF h
  <2>5. n + 1 \in Nat  OBVIOUS
  <2> QED  BY <2>2, <2>4, <2>5
<1>4. P = Nat
  <2>1. P \in SUBSET Nat  OBVIOUS
  <2> HIDE DEF P
  <2> QED  BY <1>2, <1>3, <2>1, NatInduct
<1>5. Cardinality(S) \in P  BY <1>0, <1>4
<1>6. PICK g \in [SUBSET S -> Int] : Good(g, Cardinality(S))  BY <1>5
<1>7. \A s \in SUBSET S : g[s] = SumStep(f, g, s)  BY <1>0, <1>6
<1>8. g = [s \in SUBSET S |-> SumStep(f, g, s)]
  <2>1. g = [s \in SUBSET S |-> g[s]]  OBVIOUS
  <2> QED  BY <1>7, <2>1
<1> QED  BY <1>8 DEF IsSum

(* The sum over S, and over each of its subsets, is what some function     *)
(* says that takes the elements off one by one.                            *)
SumTable(f, S, g) ==
  /\ g \in [SUBSET S -> Int]
  /\ \A s \in SUBSET S : g[s] = SumStep(f, g, s)
  /\ \A s \in SUBSET S : SumOf(f, s) = g[s]

LEMMA SumIs ==
  ASSUME NEW S, IsFiniteSet(S), NEW f, \A x \in S : f[x] \in Int
  PROVE  \E g : SumTable(f, S, g)
<1>1. PICK g \in [SUBSET S -> Int] : IsSum(f, g, S)  BY SumExists
<1>2. \A s \in SUBSET S : g[s] = SumStep(f, g, s)  
  <2>1. g = [s \in SUBSET S |-> SumStep(f, g, s)]  BY <1>1 DEF IsSum
  <2> QED BY Zenon, <2>1
<1>3. ASSUME NEW T \in SUBSET S PROVE SumOf(f, T) = g[T]
  <2> DEFINE h == CHOOSE h : IsSum(f, h, T)
             P == {s \in SUBSET T : h[s] = g[s]}
  <2>1. IsFiniteSet(T) /\ \A x \in T : f[x] \in Int  BY FS_Subset
  <2>2. IsSum(f, h, T)
    <3>1. \E x : IsSum(f, x, T)  BY <2>1, SumExists
    <3> QED  BY <3>1
  <2> HIDE DEF h
  <2>3. \A s \in SUBSET T : h[s] = SumStep(f, h, s)
    <3>1. h = [s \in SUBSET T |-> SumStep(f, h, s)]  BY <2>2 DEF IsSum
    <3> QED  BY Zenon, <3>1
  <2>4. {} \in P  BY <1>2, <2>3 DEF SumStep
  <2>5. ASSUME NEW s \in SUBSET T, s # {}
        PROVE  \E x \in s : s \ {x} \in P => s \in P
    <3>1. Pick(s) \in s  BY <2>5, PickIn
    <3>2. ASSUME s \ {Pick(s)} \in P PROVE h[s] = g[s]
      <4>1. h[s \ {Pick(s)}] = g[s \ {Pick(s)}]  BY <3>2
      <4>2. s \in SUBSET S  OBVIOUS
      <4> QED  BY <1>2, <2>3, <2>5, <4>1, <4>2 DEF SumStep
    <3> QED  BY <3>1, <3>2
  <2>6. T \in P
    <3>1. P \in SUBSET (SUBSET T)  OBVIOUS
    <3> HIDE DEF P
    <3> QED  BY <2>1, <2>4, <2>5, <3>1, SetInduct
  <2> QED  BY <2>6, SumOfDef DEF h
<1>4. SumTable(f, S, g)  BY <1>2, <1>3 DEF SumTable
<1> QED  BY <1>4

LEMMA SumEmpty == \A f : SumOf(f, {}) = 0
<1>1. TAKE f
<1>2. IsFiniteSet({}) /\ \A x \in {} : f[x] \in Int  BY FS_EmptySet
<1>3. PICK g : SumTable(f, {}, g)  BY <1>2, SumIs
<1> QED  BY <1>3 DEF SumTable, SumStep

LEMMA SumInt ==
  ASSUME NEW S, IsFiniteSet(S), NEW f, \A x \in S : f[x] \in Int
  PROVE  SumOf(f, S) \in Int
<1>1. PICK g : SumTable(f, S, g)  BY SumIs
<1> QED  BY <1>1 DEF SumTable

(* Any element may be taken off first.                                     *)
LEMMA SumRemove ==
  ASSUME NEW S, IsFiniteSet(S), NEW f, \A x \in S : f[x] \in Int, NEW x \in S
  PROVE  SumOf(f, S) = f[x] + SumOf(f, S \ {x})
<1>0. PICK g : SumTable(f, S, g)  BY SumIs
<1>1. /\ g \in [SUBSET S -> Int]
      /\ \A s \in SUBSET S : g[s] = SumStep(f, g, s)
      /\ \A s \in SUBSET S : SumOf(f, s) = g[s]
  BY <1>0 DEF SumTable
<1> DEFINE P == {s \in SUBSET S : \A y \in s : g[s] = f[y] + g[s \ {y}]}
<1>2. {} \in P  OBVIOUS
<1>3. SUFFICES ASSUME S \notin P PROVE FALSE
  <2>1. S \in SUBSET S /\ S \ {x} \in SUBSET S  OBVIOUS
  <2> QED  BY <1>1, <2>1
<1> DEFINE Fam == (SUBSET S) \ P
<1>4. PICK s \in Fam : \A t \in Fam : t \subseteq s => t = s
  <2>1. Fam # {} /\ Fam \in SUBSET (SUBSET S)  BY <1>3
  <2> HIDE DEF Fam
  <2> QED  BY <2>1, SetLeast
<1>5. s \in SUBSET S /\ s # {}  BY <1>2, <1>4
<1>6. PICK y \in s : g[s] # f[y] + g[s \ {y}]  BY <1>4
<1> DEFINE p == Pick(s)
<1>7. p \in s  BY <1>5, PickIn
<1>8. g[s] = f[p] + g[s \ {p}]  BY <1>1, <1>5 DEF SumStep
<1> HIDE DEF p
<1>9. p # y  BY <1>6, <1>8
<1>10. s \ {p} \in P /\ s \ {y} \in P
  <2>1. s \ {p} \notin Fam  BY <1>4, <1>7
  <2>2. s \ {y} \notin Fam  BY <1>4, <1>6
  <2> QED  BY <1>5, <2>1, <2>2
<1>11. g[s \ {p}] = f[y] + g[(s \ {p}) \ {y}]  BY <1>6, <1>9, <1>10
<1>12. g[s \ {y}] = f[p] + g[(s \ {y}) \ {p}]  BY <1>7, <1>9, <1>10
<1>13. (s \ {p}) \ {y} = (s \ {y}) \ {p}  OBVIOUS
<1> DEFINE a == f[y]  b == f[p]  c == g[(s \ {y}) \ {p}]
<1>14. a \in Int /\ b \in Int /\ c \in Int
  <2>1. y \in S /\ p \in S /\ (s \ {y}) \ {p} \in SUBSET S  BY <1>5, <1>6, <1>7
  <2> QED  BY <1>1, <2>1
<1>15. g[s] = b + (a + c) /\ g[s \ {y}] = b + c  BY <1>8, <1>11, <1>12, <1>13
<1>16. g[s] # a + g[s \ {y}]  BY <1>6
<1> HIDE DEF a, b, c
<1> QED  BY <1>14, <1>15, <1>16

-----------------------------------------------------------------------------
LEMMA SumNat ==
  ASSUME NEW S, IsFiniteSet(S), NEW f, \A x \in S : f[x] \in Nat
  PROVE  SumOf(f, S) \in Nat
<1> DEFINE P == {s \in SUBSET S : SumOf(f, s) \in Nat}
<1>1. {} \in P  BY SumEmpty
<1>2. ASSUME NEW s \in SUBSET S, s # {}
      PROVE  \E x \in s : s \ {x} \in P => s \in P
  <2>1. PICK x \in s : TRUE  BY <1>2
  <2>2. IsFiniteSet(s) /\ \A y \in s : f[y] \in Int  BY FS_Subset
  <2>3. SumOf(f, s) = f[x] + SumOf(f, s \ {x})  BY <2>2, SumRemove
  <2>4. f[x] \in Nat  OBVIOUS
  <2> QED  BY <2>3, <2>4
<1>3. P \in SUBSET (SUBSET S)  OBVIOUS
<1> HIDE DEF P
<1>4. S \in P  BY <1>1, <1>2, <1>3, SetInduct
<1> QED  BY <1>4 DEF P

(* Sums of functions that agree on the set are the same.                   *)
LEMMA SumSame ==
  ASSUME NEW S, IsFiniteSet(S), NEW f, NEW g,
         \A x \in S : f[x] \in Int /\ g[x] = f[x]
  PROVE  SumOf(g, S) = SumOf(f, S)
<1> DEFINE P == {s \in SUBSET S : SumOf(g, s) = SumOf(f, s)}
<1>1. {} \in P  BY SumEmpty
<1>2. ASSUME NEW s \in SUBSET S, s # {}
      PROVE  \E x \in s : s \ {x} \in P => s \in P
  <2>1. PICK x \in s : TRUE  BY <1>2
  <2>2. IsFiniteSet(s) /\ \A y \in s : f[y] \in Int /\ g[y] \in Int  BY FS_Subset
  <2>3. SumOf(f, s) = f[x] + SumOf(f, s \ {x})  BY <2>2, SumRemove
  <2>4. SumOf(g, s) = g[x] + SumOf(g, s \ {x})  BY <2>2, SumRemove
  <2>5. g[x] = f[x]  OBVIOUS
  <2> QED  BY <2>3, <2>4, <2>5
<1>3. P \in SUBSET (SUBSET S)  OBVIOUS
<1> HIDE DEF P
<1>4. S \in P  BY <1>1, <1>2, <1>3, SetInduct
<1> QED  BY <1>4 DEF P

(* One element changes, and the sum by as much.                            *)
LEMMA SumUpdate ==
  ASSUME NEW S, IsFiniteSet(S), NEW f, NEW g, NEW x \in S,
         \A y \in S : f[y] \in Int /\ g[y] \in Int,
         \A y \in S \ {x} : g[y] = f[y]
  PROVE  SumOf(g, S) = SumOf(f, S) + (g[x] - f[x])
<1>1. SumOf(f, S) = f[x] + SumOf(f, S \ {x})  BY SumRemove
<1>2. SumOf(g, S) = g[x] + SumOf(g, S \ {x})  BY SumRemove
<1>3. IsFiniteSet(S \ {x}) /\ \A y \in S \ {x} : f[y] \in Int  BY FS_RemoveElement
<1>4. SumOf(g, S \ {x}) = SumOf(f, S \ {x})  BY <1>3, SumSame
<1>5. SumOf(f, S \ {x}) \in Int  BY <1>3, SumInt
<1>6. f[x] \in Int /\ g[x] \in Int  OBVIOUS
<1> QED  BY <1>1, <1>2, <1>4, <1>5, <1>6

LEMMA SumAdd ==
  ASSUME NEW S, IsFiniteSet(S), NEW f, NEW x, x \notin S,
         \A y \in S \cup {x} : f[y] \in Int
  PROVE  SumOf(f, S \cup {x}) = SumOf(f, S) + f[x]
<1>1. IsFiniteSet(S \cup {x}) /\ (S \cup {x}) \ {x} = S  BY FS_AddElement
<1>2. SumOf(f, S \cup {x}) = f[x] + SumOf(f, S)  BY <1>1, SumRemove
<1>3. SumOf(f, S) \in Int /\ f[x] \in Int  BY SumInt
<1> QED  BY <1>2, <1>3

LEMMA SumZero ==
  ASSUME NEW S, IsFiniteSet(S), NEW f, \A x \in S : f[x] = 0
  PROVE  SumOf(f, S) = 0
<1> DEFINE P == {s \in SUBSET S : SumOf(f, s) = 0}
<1>1. {} \in P  BY SumEmpty
<1>2. ASSUME NEW s \in SUBSET S, s # {}
      PROVE  \E x \in s : s \ {x} \in P => s \in P
  <2>1. PICK x \in s : TRUE  BY <1>2
  <2>2. IsFiniteSet(s) /\ \A y \in s : f[y] \in Int  BY FS_Subset
  <2>3. SumOf(f, s) = f[x] + SumOf(f, s \ {x})  BY <2>2, SumRemove
  <2>4. f[x] = 0  OBVIOUS
  <2> QED  BY <2>3, <2>4
<1>3. P \in SUBSET (SUBSET S)  OBVIOUS
<1> HIDE DEF P
<1>4. S \in P  BY <1>1, <1>2, <1>3, SetInduct
<1> QED  BY <1>4 DEF P

(* The sum over two sets that have nothing in common.                      *)
LEMMA SumUnion ==
  ASSUME NEW S, IsFiniteSet(S), NEW T, IsFiniteSet(T), S \cap T = {},
         NEW f, \A x \in S \cup T : f[x] \in Int
  PROVE  SumOf(f, S \cup T) = SumOf(f, S) + SumOf(f, T)
<1> DEFINE P == {s \in SUBSET T : SumOf(f, S \cup s) = SumOf(f, S) + SumOf(f, s)}
<1>0. SumOf(f, S) \in Int  BY SumInt
<1>1. {} \in P
  <2>1. S \cup {} = S  OBVIOUS
  <2> QED  BY <1>0, <2>1, SumEmpty
<1>2. ASSUME NEW s \in SUBSET T, s # {}
      PROVE  \E x \in s : s \ {x} \in P => s \in P
  <2>1. PICK x \in s : TRUE  BY <1>2
  <2>2. IsFiniteSet(s) /\ \A y \in s : f[y] \in Int  BY FS_Subset
  <2>3. IsFiniteSet(S \cup s) /\ \A y \in S \cup s : f[y] \in Int  BY <2>2, FS_Union
  <2>4. SumOf(f, s) = f[x] + SumOf(f, s \ {x})  BY <2>2, SumRemove
  <2>5. SumOf(f, S \cup s) = f[x] + SumOf(f, (S \cup s) \ {x})  BY <2>3, SumRemove
  <2>6. (S \cup s) \ {x} = S \cup (s \ {x})  OBVIOUS
  <2>7. IsFiniteSet(s \ {x})  BY <2>2, FS_RemoveElement
  <2>8. SumOf(f, s \ {x}) \in Int /\ f[x] \in Int  BY <2>2, <2>7, SumInt
  <2>9. SumOf(f, S \cup s) = f[x] + SumOf(f, S \cup (s \ {x}))  BY <2>5, <2>6
  <2>10. ASSUME s \ {x} \in P
         PROVE  SumOf(f, S \cup s) = SumOf(f, S) + SumOf(f, s)
    <3>1. SumOf(f, S \cup (s \ {x})) = SumOf(f, S) + SumOf(f, s \ {x})  BY <2>10
    <3> QED  BY <1>0, <2>4, <2>8, <2>9, <3>1
  <2> QED  BY <2>10
<1>3. P \in SUBSET (SUBSET T)  OBVIOUS
<1> HIDE DEF P
<1>4. T \in P  BY <1>1, <1>2, <1>3, SetInduct
<1> QED  BY <1>4 DEF P

(* A part of a sum of naturals is no more than the whole.                  *)
LEMMA SumPart ==
  ASSUME NEW S, IsFiniteSet(S), NEW T \in SUBSET S, NEW f, \A x \in S : f[x] \in Nat
  PROVE  SumOf(f, T) <= SumOf(f, S)
<1>1. IsFiniteSet(T) /\ IsFiniteSet(S \ T)  BY FS_Subset
<1>2. T \cap (S \ T) = {} /\ T \cup (S \ T) = S  OBVIOUS
<1>3. SumOf(f, S) = SumOf(f, T) + SumOf(f, S \ T)
  <2>1. \A x \in T \cup (S \ T) : f[x] \in Int  OBVIOUS
  <2>2. SumOf(f, T \cup (S \ T)) = SumOf(f, T) + SumOf(f, S \ T)
    BY <1>1, <1>2, <2>1, SumUnion
  <2> QED  BY <1>2, <2>2
<1>4. SumOf(f, T) \in Nat /\ SumOf(f, S \ T) \in Nat  BY <1>1, SumNat
<1> QED  BY <1>3, <1>4

(* A sum of naturals is positive exactly when one of them is.              *)
LEMMA SumPositive ==
  ASSUME NEW S, IsFiniteSet(S), NEW f, \A x \in S : f[x] \in Nat
  PROVE  SumOf(f, S) > 0 <=> \E x \in S : f[x] > 0
<1>1. ASSUME NEW x \in S, f[x] > 0 PROVE SumOf(f, S) > 0
  <2>1. SumOf(f, S) = f[x] + SumOf(f, S \ {x})  BY SumRemove
  <2>2. IsFiniteSet(S \ {x})  BY FS_RemoveElement
  <2>3. SumOf(f, S \ {x}) \in Nat  BY <2>2, SumNat
  <2> QED  BY <1>1, <2>1, <2>3
<1>2. ASSUME \A x \in S : ~ f[x] > 0 PROVE ~ SumOf(f, S) > 0
  <2>1. \A x \in S : f[x] = 0  BY <1>2
  <2> QED  BY <2>1, SumZero
<1> QED  BY <1>1, <1>2

(* What is zero may be left out of a sum.                                  *)
LEMMA SumDrop ==
  ASSUME NEW S, IsFiniteSet(S), NEW T \in SUBSET S, NEW f, \A x \in S : f[x] \in Int,
         \A x \in S \ T : f[x] = 0
  PROVE  SumOf(f, S) = SumOf(f, T)
<1>1. IsFiniteSet(T) /\ IsFiniteSet(S \ T)  BY FS_Subset
<1> DEFINE D == S \ T
<1>2. T \cap D = {} /\ T \cup D = S  OBVIOUS
<1>3. SumOf(f, T \cup D) = SumOf(f, T) + SumOf(f, D)
  BY <1>1, <1>2, SumUnion
<1>4. SumOf(f, D) = 0  BY <1>1, SumZero
<1>5. SumOf(f, T) \in Int  BY <1>1, SumInt
<1> HIDE DEF D
<1> QED  BY <1>2, <1>3, <1>4, <1>5

Fiber(h, S, t) == {x \in S : h[x] = t}

(* A sum taken class by class.                                             *)
LEMMA SumFibers ==
  ASSUME NEW S, IsFiniteSet(S), NEW T, IsFiniteSet(T), NEW h \in [S -> T],
         NEW f, \A x \in S : f[x] \in Int,
         NEW g, \A t \in T : g[t] = SumOf(f, Fiber(h, S, t))
  PROVE  SumOf(g, T) = SumOf(f, S)
<1> DEFINE Class(s) == [t \in T |-> SumOf(f, {x \in s : h[x] = t})]
           P == {s \in SUBSET S : SumOf(Class(s), T) = SumOf(f, s)}
<1>1. {} \in P
  <2>1. \A t \in T : {x \in {} : h[x] = t} = {}  OBVIOUS
  <2>2. \A t \in T : Class({})[t] = 0  BY <2>1, SumEmpty
  <2>3. SumOf(Class({}), T) = 0 /\ SumOf(f, {}) = 0  BY <2>2, SumZero, SumEmpty
  <2> QED  BY <2>3
<1>2. ASSUME NEW s \in SUBSET S, s # {}
      PROVE  \E x \in s : s \ {x} \in P => s \in P
  <2>1. PICK x \in s : TRUE  BY <1>2
  <2> SUFFICES ASSUME s \ {x} \in P PROVE s \in P  BY <2>1
  <2> DEFINE r == s \ {x}
             a == Class(r)
             b == Class(s)
             u == h[x]
  <2>2. x \in S /\ u \in T /\ f[x] \in Int /\ IsFiniteSet(s) /\ IsFiniteSet(r)
    BY <2>1, FS_Subset
  <2>3. \A t \in T : /\ IsFiniteSet({y \in s : h[y] = t}) /\ IsFiniteSet({y \in r : h[y] = t})
                     /\ a[t] \in Int /\ b[t] \in Int
    <3> SUFFICES ASSUME NEW t \in T
                 PROVE  /\ IsFiniteSet({y \in s : h[y] = t}) /\ IsFiniteSet({y \in r : h[y] = t})
                        /\ a[t] \in Int /\ b[t] \in Int
      OBVIOUS
    <3>1. {y \in s : h[y] = t} \in SUBSET S /\ {y \in r : h[y] = t} \in SUBSET S  OBVIOUS
    <3>2. IsFiniteSet({y \in s : h[y] = t}) /\ IsFiniteSet({y \in r : h[y] = t})
      BY <3>1, FS_Subset
    <3>3. SumOf(f, {y \in s : h[y] = t}) \in Int /\ SumOf(f, {y \in r : h[y] = t}) \in Int
      BY <3>1, <3>2, SumInt
    <3> QED  BY <3>2, <3>3
  <2>4. ASSUME NEW t \in T \ {u} PROVE b[t] = a[t]
    <3>1. {y \in s : h[y] = t} = {y \in r : h[y] = t}  BY <2>1
    <3> QED  BY <3>1
  <2>5. b[u] = a[u] + f[x]
    <3> DEFINE c == {y \in r : h[y] = u}
    <3>1. {y \in s : h[y] = u} = c \cup {x} /\ x \notin c /\ c \subseteq S  BY <2>1, <2>2
    <3>2. IsFiniteSet(c)  BY <2>2, <2>3
    <3>3. \A y \in c \cup {x} : f[y] \in Int  BY <2>2, <3>1
    <3>4. b[u] = SumOf(f, c \cup {x}) /\ a[u] = SumOf(f, c)  BY <2>2, <3>1
    <3> HIDE DEF c, a, b
    <3>5. SumOf(f, c \cup {x}) = SumOf(f, c) + f[x]  BY ONLY <3>1, <3>2, <3>3, SumAdd
    <3> QED  BY <3>4, <3>5
  <2>6. SumOf(a, T) = SumOf(f, r)  OBVIOUS
  <2>7. SumOf(f, s) = SumOf(f, r) + f[x]
    <3>1. \A y \in s : f[y] \in Int  OBVIOUS
    <3>2. SumOf(f, s) = f[x] + SumOf(f, r)  BY <2>1, <2>2, <3>1, SumRemove
    <3>3. SumOf(f, r) \in Int  BY <2>2, <3>1, SumInt
    <3> QED  BY <2>2, <3>2, <3>3
  <2>8. SumOf(b, T) = SumOf(a, T) + f[x]
    <3>1. \A t \in T : a[t] \in Int /\ b[t] \in Int  BY <2>3
    <3> HIDE DEF a, b, u
    <3>2. u \in T /\ f[x] \in Int /\ \A t \in T \ {u} : b[t] = a[t]  BY <2>2, <2>4
    <3>3. SumOf(b, T) = SumOf(a, T) + (b[u] - a[u])
      BY ONLY IsFiniteSet(T), <3>1, <3>2, SumUpdate
    <3>4. b[u] - a[u] = f[x]  BY <2>5, <3>1, <3>2
    <3> QED  BY <3>3, <3>4
  <2> QED  BY <2>6, <2>7, <2>8
<1> HIDE DEF P
<1>3. S \in P
  <2>1. P \in SUBSET (SUBSET S)  BY DEF P
  <2> QED  BY <1>1, <1>2, <2>1, SetInduct
<1>4. \A t \in T : g[t] = Class(S)[t]  BY DEF Fiber
<1>5. \A t \in T : Class(S)[t] \in Int
  <2> SUFFICES ASSUME NEW t \in T PROVE SumOf(f, {x \in S : h[x] = t}) \in Int  OBVIOUS
  <2>1. IsFiniteSet({x \in S : h[x] = t})  BY FS_Subset
  <2> QED  BY <2>1, SumInt
<1> HIDE DEF Class
<1>6. SumOf(g, T) = SumOf(Class(S), T)  BY <1>4, <1>5, SumSame
<1> QED  BY <1>3, <1>6 DEF P

LEMMA SumSingle ==
  ASSUME NEW x, NEW f, f[x] \in Int
  PROVE  SumOf(f, {x}) = f[x]
<1>1. IsFiniteSet({x}) /\ {x} \ {x} = {}  BY FS_Singleton
<1>2. SumOf(f, {x}) = f[x] + SumOf(f, {x} \ {x})  BY <1>1, SumRemove
<1> QED  BY <1>1, <1>2, SumEmpty

LEMMA ImageFinite ==
  ASSUME NEW S, IsFiniteSet(S), NEW f
  PROVE  IsFiniteSet({f[x] : x \in S})
<1> DEFINE T == {f[x] : x \in S}
           g == [x \in S |-> f[x]]
<1>1. g \in Surjection(S, T)  BY DEF Surjection
<1> QED  BY <1>1, FS_Surjection

(* A sum over the image of a set, no two elements of which have the same   *)
(* image.                                                                  *)
LEMMA SumImage ==
  ASSUME NEW S, IsFiniteSet(S), NEW h, \A x, y \in S : h[x] = h[y] => x = y,
         NEW f, \A x \in S : f[x] \in Int,
         NEW g, \A x \in S : g[h[x]] = f[x]
  PROVE  SumOf(g, {h[x] : x \in S}) = SumOf(f, S)
<1> DEFINE T == {h[x] : x \in S}
           e == [x \in S |-> h[x]]
<1>1. IsFiniteSet(T)  BY ImageFinite
<1>2. e \in [S -> T]  OBVIOUS
<1>3. ASSUME NEW t \in T PROVE g[t] = SumOf(f, Fiber(e, S, t))
  <2>1. PICK y \in S : t = h[y]  OBVIOUS
  <2>2. Fiber(e, S, t) = {y}  BY <2>1 DEF Fiber
  <2>3. g[t] = f[y] /\ f[y] \in Int  BY <2>1
  <2> QED  BY <2>2, <2>3, SumSingle
<1> HIDE DEF T, e
<1>4. \A x \in S : f[x] \in Int  OBVIOUS
<1>5. \A t \in T : g[t] = SumOf(f, Fiber(e, S, t))  BY <1>3
<1>6. SumOf(g, T) = SumOf(f, S)
  BY ONLY IsFiniteSet(S), <1>1, <1>2, <1>4, <1>5, SumFibers
<1> QED  BY <1>6 DEF T

-----------------------------------------------------------------------------
(* A finite set of integers has a largest and a smallest element.          *)
LEMMA Extremes ==
  ASSUME NEW S \in SUBSET Int, IsFiniteSet(S), S # {}
  PROVE  /\ Max(S) \in S /\ \A y \in S : y <= Max(S)
         /\ Min(S) \in S /\ \A y \in S : Min(S) <= y
<1> DEFINE Has(s) == s # {} => /\ \E x \in s : \A y \in s : x >= y
                               /\ \E x \in s : \A y \in s : x =< y
           P == {s \in SUBSET S : Has(s)}
<1>1. {} \in P  OBVIOUS
<1>2. ASSUME NEW s \in SUBSET S, s # {}
      PROVE  \E x \in s : s \ {x} \in P => s \in P
  <2>1. PICK x \in s : TRUE  BY <1>2
  <2> SUFFICES ASSUME Has(s \ {x}) PROVE Has(s)  BY <2>1
  <2>2. CASE s \ {x} = {}  BY <2>1, <2>2
  <2>3. CASE s \ {x} # {}
    <3>1. PICK a \in s \ {x} : \A y \in s \ {x} : a >= y  BY <2>3
    <3>2. PICK b \in s \ {x} : \A y \in s \ {x} : b =< y  BY <2>3
    <3>3. a \in Int /\ b \in Int /\ x \in Int /\ s \subseteq Int  BY <2>1
    <3>4. \E m \in s : \A y \in s : m >= y
      <4>1. CASE a >= x  BY <3>1, <3>3, <4>1
      <4>2. CASE x > a
        <5>1. \A y \in s : x >= y  BY <3>1, <3>3, <4>2
        <5> QED  BY <2>1, <5>1
      <4> QED  BY <3>3, <4>1, <4>2
    <3>5. \E m \in s : \A y \in s : m =< y
      <4>1. CASE b =< x  BY <3>2, <3>3, <4>1
      <4>2. CASE x < b
        <5>1. \A y \in s : x =< y  BY <3>2, <3>3, <4>2
        <5> QED  BY <2>1, <5>1
      <4> QED  BY <3>3, <4>1, <4>2
    <3> QED  BY <3>4, <3>5
  <2> QED  BY <2>2, <2>3
<1>3. S \in P
  <2> HIDE DEF Has
  <2>1. P \in SUBSET (SUBSET S)  OBVIOUS
  <2> HIDE DEF P
  <2> QED  BY <1>1, <1>2, <2>1, SetInduct
<1>4. (\E x \in S : \A y \in S : x >= y) /\ (\E x \in S : \A y \in S : x =< y)  BY <1>3
<1>5. Max(S) \in S /\ \A y \in S : Max(S) >= y  BY <1>4 DEF Max
<1>6. Min(S) \in S /\ \A y \in S : Min(S) =< y  BY <1>4 DEF Min
<1> QED  BY <1>5, <1>6

(* What is in the set and no smaller than its elements is the largest.     *)
LEMMA MaxIs ==
  ASSUME NEW S \in SUBSET Int, NEW x \in S, \A y \in S : y <= x
  PROVE  Max(S) = x
<1>1. \A y \in S : x >= y  OBVIOUS
<1>2. Max(S) \in S /\ \A y \in S : Max(S) >= y  BY <1>1 DEF Max
<1>3. Max(S) \in Int /\ x \in Int /\ Max(S) >= x /\ Max(S) <= x  BY <1>2
<1> QED  BY <1>3

LEMMA MinIs ==
  ASSUME NEW S \in SUBSET Int, NEW x \in S, \A y \in S : x <= y
  PROVE  Min(S) = x
<1>1. Min(S) \in S /\ \A y \in S : Min(S) =< y  BY DEF Min
<1>2. Min(S) \in Int /\ x \in Int /\ Min(S) >= x /\ Min(S) <= x  BY <1>1
<1> QED  BY <1>2
=============================================================================
