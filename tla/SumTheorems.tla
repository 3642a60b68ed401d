---------------------------- MODULE SumTheorems -----------------------------
(***************************************************************************)
(* Facts about sums over finite sets, SumFunctionOnSet of the community    *)
(* modules, which the proofs about money cite.  The induction they need is *)
(* stated of sets: where an induction theorem speaks of a predicate, the   *)
(* lemmas here take the set of the numbers, or of the subsets, for which   *)
(* the predicate holds.                                                    *)
(***************************************************************************)
EXTENDS Integers, FiniteSets, Functions, FiniteSetTheorems,
        WellFoundedInduction, TLAPS

-----------------------------------------------------------------------------
(* Induction.                                                              *)

\* A set of natural numbers that is not empty has a least element.
LEMMA LeastNumber ==
    ASSUME NEW T \in SUBSET Nat, T # {}
    PROVE  \E n \in T : \A m \in T : n <= m
<1> DEFINE R == OpToRel(<, Nat)
<1>1. IsWellFoundedOn(R, Nat)
    BY NatLessThanWellFounded
<1>2. R = {pair \in Nat \X Nat : pair[1] < pair[2]}
    BY DEF OpToRel
<1> HIDE DEF R
<1>3. PICK n \in T : \A m \in T : ~ (<<m, n>> \in R)
    BY <1>1, WFMin
<1>4. \A m \in Nat : m < n => <<m, n>> \in R
    BY <1>2
<1>5. ASSUME NEW m \in T
      PROVE  n <= m
  <2>1. m \in Nat /\ n \in Nat /\ ~ (<<m, n>> \in R)
      BY <1>3
  <2>2. ~ (m < n)
      BY <1>4, <2>1
  <2> QED
      BY <2>1, <2>2
<1> QED
    BY <1>5

\* A set that contains zero, and with a number the next one, contains them all.
LEMMA NumberInduction ==
    ASSUME NEW T, 0 \in T, \A n \in Nat : n \in T => n + 1 \in T
    PROVE  Nat \subseteq T
<1> SUFFICES ASSUME Nat \ T # {} PROVE FALSE
    OBVIOUS
<1>1. PICK n \in Nat \ T : \A m \in Nat \ T : n <= m
    BY LeastNumber
<1>2. n # 0 /\ n - 1 \in Nat /\ n - 1 \in T
    BY <1>1
<1> QED
    BY <1>1, <1>2

\* A family of subsets of a finite set that contains the empty one, and with a
\* subset every one that has an element more, contains the set.
LEMMA SubsetInduction ==
    ASSUME NEW S, IsFiniteSet(S), NEW F,
           {} \in F,
           \A T \in SUBSET S : \A x \in S \ T : T \in F => T \union {x} \in F
    PROVE  S \in F
<1> DEFINE Sized(n) == \A T \in SUBSET S : Cardinality(T) = n => T \in F
           N == {n \in Nat : Sized(n)}
<1>1. 0 \in N
  <2>1. \A T \in SUBSET S : Cardinality(T) = 0 => T = {}
      BY FS_Subset, FS_EmptySet
  <2> QED
      BY <2>1
<1>2. ASSUME NEW n \in Nat, n \in N
      PROVE  n + 1 \in N
  <2>1. ASSUME NEW T \in SUBSET S, Cardinality(T) = n + 1
        PROVE  T \in F
    <3>1. IsFiniteSet(T)
        BY FS_Subset
    <3>2. PICK x : x \in T
      <4>1. Cardinality({}) = 0
          BY FS_EmptySet
      <4> QED
          BY <2>1, <4>1
    <3>3. Cardinality(T \ {x}) = n
      <4>1. Cardinality(T \ {x}) = Cardinality(T) - 1
          BY <3>1, <3>2, FS_RemoveElement
      <4> QED
          BY <2>1, <4>1
    <3>4. T \ {x} \in F
        BY <1>2, <3>3
    <3>5. (T \ {x}) \union {x} \in F
        BY <3>2, <3>4
    <3>6. (T \ {x}) \union {x} = T
        BY <3>2
    <3> QED
        BY <3>5, <3>6
  <2> QED
      BY <2>1
<1>3. Nat \subseteq N
  <2> HIDE DEF N
  <2> QED
      BY <1>1, <1>2, NumberInduction
<1>4. Cardinality(S) \in Nat
    BY FS_CardinalityType
<1> QED
    BY <1>3, <1>4

-----------------------------------------------------------------------------
(* The recursion behind a sum.                                             *)

\* The element a sum takes next.
Pick(s) == CHOOSE x \in s : TRUE

\* g is the sum of f over every set of the family D.
SumsUp(g, f, D) ==
    g = [s \in D |-> IF s = {} THEN 0 ELSE f[Pick(s)] + g[s \ {Pick(s)}]]

LEMMA SumIsChosen ==
    ASSUME NEW f, NEW S
    PROVE  SumFunctionOnSet(f, S) = (CHOOSE g : SumsUp(g, f, SUBSET S))[S]
BY DEF SumFunctionOnSet, FoldFunctionOnSet, MapThenFoldSet, SumsUp, Pick

\* The recursion defines a function.
LEMMA SumsExist ==
    ASSUME NEW f, NEW S, IsFiniteSet(S)
    PROVE  \E g : SumsUp(g, f, SUBSET S)
<1> DEFINE Upto(n) == {s \in SUBSET S : Cardinality(s) <= n}
           N == {n \in Nat : \E g : SumsUp(g, f, Upto(n))}
<1>0. \A s \in SUBSET S : IsFiniteSet(s) /\ Cardinality(s) \in Nat
    BY FS_Subset, FS_CardinalityType
<1>p. \A s \in SUBSET S : s # {} => Pick(s) \in s
    BY DEF Pick
<1>1. 0 \in N
  <2>1. \A s \in Upto(0) : s = {}
      BY <1>0, FS_EmptySet
  <2>2. SumsUp([s \in Upto(0) |-> 0], f, Upto(0))
      BY <2>1 DEF SumsUp
  <2> QED
      BY <2>2
<1>2. ASSUME NEW n \in Nat, n \in N
      PROVE  n + 1 \in N
  <2>1. PICK g : SumsUp(g, f, Upto(n))
      BY <1>2
  <2> DEFINE h == [s \in Upto(n + 1) |->
                     IF s = {} THEN 0 ELSE f[Pick(s)] + g[s \ {Pick(s)}]]
  <2>2. \A s \in Upto(n) : s \in Upto(n + 1) /\ h[s] = g[s]
    <3>1. \A s \in Upto(n) : s \in Upto(n + 1)
        BY <1>0
    <3>2. \A s \in Upto(n) :
             g[s] = IF s = {} THEN 0 ELSE f[Pick(s)] + g[s \ {Pick(s)}]
        BY <2>1 DEF SumsUp
    <3> QED
        BY <3>1, <3>2
  <2>3. ASSUME NEW s \in Upto(n + 1), s # {}
        PROVE  s \ {Pick(s)} \in Upto(n)
    <3>1. Cardinality(s \ {Pick(s)}) = Cardinality(s) - 1
        BY <1>0, <1>p, <2>3, FS_RemoveElement
    <3>2. Cardinality(s) \in Nat /\ Cardinality(s) <= n + 1
        BY <1>0
    <3> QED
        BY <3>1, <3>2
  <2>4. SumsUp(h, f, Upto(n + 1))
      BY <2>2, <2>3 DEF SumsUp
  <2>5. \E k : SumsUp(k, f, Upto(n + 1))
    <3> HIDE DEF h, Upto
    <3> QED
        BY <2>4
  <2> HIDE DEF Upto
  <2> QED
      BY <2>5
<1>3. Nat \subseteq N
  <2> HIDE DEF N
  <2> QED
      BY <1>1, <1>2, NumberInduction
<1>4. Cardinality(S) \in Nat /\ SUBSET S = Upto(Cardinality(S))
  <2>1. Cardinality(S) \in Nat
      BY FS_CardinalityType
  <2>2. \A s \in SUBSET S : Cardinality(s) <= Cardinality(S)
      BY FS_Subset
  <2> QED
      BY <2>1, <2>2
<1> QED
    BY <1>3, <1>4

\* Two such functions agree where both are defined.
LEMMA SumsAgree ==
    ASSUME NEW f, NEW S, NEW T \in SUBSET S, IsFiniteSet(S)
    PROVE  \A g, h : SumsUp(g, f, SUBSET S) /\ SumsUp(h, f, SUBSET T)
                       => g[T] = h[T]
<1> SUFFICES ASSUME NEW g, NEW h, SumsUp(g, f, SUBSET S), SumsUp(h, f, SUBSET T)
             PROVE  g[T] = h[T]
    OBVIOUS
<1> DEFINE N == {n \in Nat : \A s \in SUBSET T : Cardinality(s) = n => g[s] = h[s]}
<1>0. \A s \in SUBSET T : IsFiniteSet(s) /\ Cardinality(s) \in Nat
    BY FS_Subset, FS_CardinalityType
<1>p. \A s \in SUBSET T : s # {} => Pick(s) \in s
    BY DEF Pick
<1>e. \A s \in SUBSET T :
        /\ g[s] = IF s = {} THEN 0 ELSE f[Pick(s)] + g[s \ {Pick(s)}]
        /\ h[s] = IF s = {} THEN 0 ELSE f[Pick(s)] + h[s \ {Pick(s)}]
    BY DEF SumsUp
<1>1. 0 \in N
  <2>1. \A s \in SUBSET T : Cardinality(s) = 0 => s = {}
      BY <1>0, FS_EmptySet
  <2> QED
      BY <1>e, <2>1
<1>2. ASSUME NEW n \in Nat, n \in N
      PROVE  n + 1 \in N
  <2>1. ASSUME NEW s \in SUBSET T, Cardinality(s) = n + 1
        PROVE  g[s] = h[s]
    <3>1. s # {}
      <4>1. Cardinality({}) = 0 /\ n + 1 # 0
          BY FS_EmptySet
      <4>2. Cardinality(s) # Cardinality({})
          BY <2>1, <4>1
      <4> QED
          BY <4>2
    <3>2. Cardinality(s \ {Pick(s)}) = n
      <4>1. Cardinality(s \ {Pick(s)}) = Cardinality(s) - 1
          BY <1>0, <1>p, <3>1, FS_RemoveElement
      <4> QED
          BY <2>1, <4>1
    <3>3. g[s \ {Pick(s)}] = h[s \ {Pick(s)}]
        BY <1>2, <3>2
    <3> QED
        BY <1>e, <3>1, <3>3
  <2> QED
      BY <2>1
<1>3. Nat \subseteq N
  <2> HIDE DEF N
  <2> QED
      BY <1>1, <1>2, NumberInduction
<1> QED
    BY <1>0, <1>3

-----------------------------------------------------------------------------
(* Sums.                                                                   *)

LEMMA SumEmpty ==
    ASSUME NEW f
    PROVE  SumFunctionOnSet(f, {}) = 0
<1>1. \E g : SumsUp(g, f, SUBSET {})
    BY FS_EmptySet, SumsExist
<1> DEFINE g == CHOOSE g : SumsUp(g, f, SUBSET {})
<1>2. SumsUp(g, f, SUBSET {})
    BY <1>1
<1>3. SumFunctionOnSet(f, {}) = g[{}]
    BY SumIsChosen
<1> QED
    BY <1>2, <1>3 DEF SumsUp

\* A sum takes an element and adds the sum of the rest.
LEMMA SumEquation ==
    ASSUME NEW f, NEW S, IsFiniteSet(S), S # {}
    PROVE  /\ Pick(S) \in S
           /\ SumFunctionOnSet(f, S)
                = f[Pick(S)] + SumFunctionOnSet(f, S \ {Pick(S)})
<1> DEFINE Rest == S \ {Pick(S)}
           g == CHOOSE k : SumsUp(k, f, SUBSET S)
           h == CHOOSE k : SumsUp(k, f, SUBSET Rest)
<1>1. Rest \in SUBSET S /\ IsFiniteSet(Rest)
    BY FS_Subset
<1>2. SumsUp(g, f, SUBSET S)
    BY SumsExist
<1>3. SumsUp(h, f, SUBSET Rest)
  <2> HIDE DEF Rest
  <2> QED
      BY <1>1, SumsExist
<1>4. /\ SumFunctionOnSet(f, S) = g[S]
      /\ SumFunctionOnSet(f, Rest) = h[Rest]
    BY SumIsChosen
<1> HIDE DEF g, h
<1>5. g[S] = f[Pick(S)] + g[Rest]
    BY <1>2 DEF SumsUp
<1>6. g[Rest] = h[Rest]
  <2> HIDE DEF Rest
  <2>1. \A k, m : SumsUp(k, f, SUBSET S) /\ SumsUp(m, f, SUBSET Rest)
                  => k[Rest] = m[Rest]
      BY <1>1, SumsAgree
  <2> QED
      BY <1>2, <1>3, <2>1
<1>7. Pick(S) \in S
    BY DEF Pick
<1> QED
    BY <1>4, <1>5, <1>6, <1>7

\* A sum of integers is an integer.
LEMMA SumInt ==
    ASSUME NEW f, NEW S, IsFiniteSet(S), \A x \in S : f[x] \in Int
    PROVE  SumFunctionOnSet(f, S) \in Int
<1> DEFINE N == {n \in Nat : \A T \in SUBSET S :
                    Cardinality(T) = n => SumFunctionOnSet(f, T) \in Int}
<1>0. \A T \in SUBSET S : IsFiniteSet(T) /\ Cardinality(T) \in Nat
    BY FS_Subset, FS_CardinalityType
<1>1. 0 \in N
  <2>1. \A T \in SUBSET S : Cardinality(T) = 0 => T = {}
      BY <1>0, FS_EmptySet
  <2> QED
      BY <2>1, SumEmpty
<1>2. ASSUME NEW n \in Nat, n \in N
      PROVE  n + 1 \in N
  <2>1. ASSUME NEW T \in SUBSET S, Cardinality(T) = n + 1
        PROVE  SumFunctionOnSet(f, T) \in Int
    <3>1. T # {}
      <4>1. Cardinality({}) = 0 /\ n + 1 # 0
          BY FS_EmptySet
      <4>2. Cardinality(T) # Cardinality({})
          BY <2>1, <4>1
      <4> QED
          BY <4>2
    <3>2. /\ Pick(T) \in T
          /\ SumFunctionOnSet(f, T)
               = f[Pick(T)] + SumFunctionOnSet(f, T \ {Pick(T)})
        BY <1>0, <3>1, SumEquation
    <3>3. Cardinality(T \ {Pick(T)}) = n
      <4>1. Cardinality(T \ {Pick(T)}) = Cardinality(T) - 1
          BY <1>0, <3>2, FS_RemoveElement
      <4> QED
          BY <2>1, <4>1
    <3>4. SumFunctionOnSet(f, T \ {Pick(T)}) \in Int
        BY <1>2, <3>3
    <3>5. f[Pick(T)] \in Int
        BY <3>2
    <3> QED
        BY <3>2, <3>4, <3>5
  <2> QED
      BY <2>1
<1>3. Nat \subseteq N
  <2> HIDE DEF N
  <2> QED
      BY <1>1, <1>2, NumberInduction
<1> QED
    BY <1>0, <1>3

\* Any element may be taken: the order of a sum does not matter.
LEMMA SumRemove ==
    ASSUME NEW f, NEW S, IsFiniteSet(S), \A y \in S : f[y] \in Int,
           NEW x \in S
    PROVE  SumFunctionOnSet(f, S) = f[x] + SumFunctionOnSet(f, S \ {x})
<1> DEFINE Sum(T) == SumFunctionOnSet(f, T)
           N == {n \in Nat : \A T \in SUBSET S : \A y \in T :
                    Cardinality(T) = n => Sum(T) = f[y] + Sum(T \ {y})}
<1>0. \A T \in SUBSET S : IsFiniteSet(T) /\ Cardinality(T) \in Nat /\ Sum(T) \in Int
    BY FS_Subset, FS_CardinalityType, SumInt
<1>1. 0 \in N
  <2>1. \A T \in SUBSET S : Cardinality(T) = 0 => T = {}
      BY <1>0, FS_EmptySet
  <2> QED
      BY <2>1
<1>2. ASSUME NEW n \in Nat, n \in N
      PROVE  n + 1 \in N
  <2>1. ASSUME NEW T \in SUBSET S, NEW y \in T, Cardinality(T) = n + 1
        PROVE  Sum(T) = f[y] + Sum(T \ {y})
    <3> DEFINE p == Pick(T)
    <3>1. p \in T /\ Sum(T) = f[p] + Sum(T \ {p})
        BY <1>0, SumEquation
    <3> HIDE DEF p
    <3>2. CASE y = p
        BY <3>1, <3>2
    <3>3. CASE y # p
      <4>1. /\ Cardinality(T \ {p}) = Cardinality(T) - 1
            /\ Cardinality(T \ {y}) = Cardinality(T) - 1
          BY <1>0, <3>1, FS_RemoveElement
      <4>2. Cardinality(T \ {p}) = n /\ Cardinality(T \ {y}) = n
          BY <2>1, <4>1
      <4>3. Sum(T \ {p}) = f[y] + Sum((T \ {p}) \ {y})
        <5> HIDE DEF Sum
        <5> QED
            BY <1>2, <3>3, <4>2
      <4>4. Sum(T \ {y}) = f[p] + Sum((T \ {y}) \ {p})
        <5> HIDE DEF Sum
        <5> QED
            BY <1>2, <3>1, <3>3, <4>2
      <4>5. (T \ {p}) \ {y} = (T \ {y}) \ {p}
          OBVIOUS
      <4>6. /\ f[p] \in Int /\ f[y] \in Int
            /\ Sum((T \ {y}) \ {p}) \in Int
        <5> HIDE DEF Sum
        <5> QED
            BY <1>0, <3>1
      <4> HIDE DEF Sum
      <4>7. Sum(T \ {p}) = f[y] + Sum((T \ {y}) \ {p})
          BY <4>3, <4>5
      <4> DEFINE rest == Sum((T \ {y}) \ {p})
      <4> HIDE DEF rest
      <4> QED
          BY <3>1, <4>4, <4>6, <4>7 DEF rest
    <3> QED
        BY <3>2, <3>3
  <2> HIDE DEF Sum
  <2> QED
      BY <2>1
<1>3. Nat \subseteq N
  <2> HIDE DEF N
  <2> QED
      BY <1>1, <1>2, NumberInduction
<1> HIDE DEF Sum
<1>4. Sum(S) = f[x] + Sum(S \ {x})
    BY <1>0, <1>3
<1> QED
    BY <1>4 DEF Sum

\* The same, for an element that is added.
LEMMA SumAdd ==
    ASSUME NEW f, NEW S, IsFiniteSet(S), NEW x, x \notin S,
           \A y \in S \union {x} : f[y] \in Int
    PROVE  SumFunctionOnSet(f, S \union {x}) = f[x] + SumFunctionOnSet(f, S)
<1> DEFINE U == S \union {x}
<1>1. IsFiniteSet(U) /\ x \in U /\ U \ {x} = S
    BY FS_AddElement
<1>2. \A y \in U : f[y] \in Int
    OBVIOUS
<1> HIDE DEF U
<1>3. SumFunctionOnSet(f, U) = f[x] + SumFunctionOnSet(f, U \ {x})
    BY <1>1, <1>2, SumRemove
<1> QED
    BY <1>1, <1>3 DEF U

\* A sum of natural numbers is natural.
LEMMA SumNat ==
    ASSUME NEW f, NEW S, IsFiniteSet(S), \A x \in S : f[x] \in Nat
    PROVE  SumFunctionOnSet(f, S) \in Nat
<1> DEFINE F == {T \in SUBSET S : SumFunctionOnSet(f, T) \in Nat}
<1>1. {} \in F
    BY SumEmpty
<1>2. ASSUME NEW T \in SUBSET S, NEW x \in S \ T, T \in F
      PROVE  T \union {x} \in F
  <2>1. IsFiniteSet(T) /\ \A y \in T \union {x} : f[y] \in Int
      BY FS_Subset
  <2>2. SumFunctionOnSet(f, T \union {x}) = f[x] + SumFunctionOnSet(f, T)
      BY <2>1, SumAdd
  <2>3. f[x] \in Nat /\ SumFunctionOnSet(f, T) \in Nat
      BY <1>2
  <2>4. SumFunctionOnSet(f, T \union {x}) \in Nat
      BY <2>2, <2>3
  <2> QED
      BY <2>4
<1>3. S \in F
  <2> HIDE DEF F
  <2> QED
      BY <1>1, <1>2, SubsetInduction
<1> QED
    BY <1>3

\* Only the values on the set count.
LEMMA SumSame ==
    ASSUME NEW f, NEW g, NEW S, IsFiniteSet(S),
           \A x \in S : f[x] \in Int /\ g[x] = f[x]
    PROVE  SumFunctionOnSet(g, S) = SumFunctionOnSet(f, S)
<1> DEFINE F == {T \in SUBSET S : SumFunctionOnSet(g, T) = SumFunctionOnSet(f, T)}
<1>1. {} \in F
    BY SumEmpty
<1>2. ASSUME NEW T \in SUBSET S, NEW x \in S \ T, T \in F
      PROVE  T \union {x} \in F
  <2>1. /\ IsFiniteSet(T)
        /\ \A y \in T \union {x} : f[y] \in Int
        /\ \A y \in T \union {x} : g[y] \in Int
      BY FS_Subset
  <2>2. SumFunctionOnSet(f, T \union {x}) = f[x] + SumFunctionOnSet(f, T)
      BY <2>1, SumAdd
  <2>3. SumFunctionOnSet(g, T \union {x}) = g[x] + SumFunctionOnSet(g, T)
      BY <2>1, SumAdd
  <2>4. SumFunctionOnSet(g, T) = SumFunctionOnSet(f, T) /\ g[x] = f[x]
      BY <1>2
  <2> QED
      BY <2>2, <2>3, <2>4
<1>3. S \in F
  <2> HIDE DEF F
  <2> QED
      BY <1>1, <1>2, SubsetInduction
<1> QED
    BY <1>3

\* Two functions that differ in one element of the set.
LEMMA SumChange ==
    ASSUME NEW f, NEW g, NEW S, IsFiniteSet(S), NEW x \in S,
           \A y \in S : f[y] \in Int, g[x] \in Int,
           \A y \in S \ {x} : g[y] = f[y]
    PROVE  SumFunctionOnSet(g, S) = (SumFunctionOnSet(f, S) - f[x]) + g[x]
<1> DEFINE Rest == S \ {x}
<1>1. IsFiniteSet(Rest)
    BY FS_Subset
<1>2. \A y \in S : g[y] \in Int
    OBVIOUS
<1>3. SumFunctionOnSet(f, S) = f[x] + SumFunctionOnSet(f, Rest)
    BY SumRemove
<1>4. SumFunctionOnSet(g, S) = g[x] + SumFunctionOnSet(g, Rest)
    BY <1>2, SumRemove
<1>5. \A y \in Rest : f[y] \in Int /\ g[y] = f[y]
    OBVIOUS
<1> HIDE DEF Rest
<1>6. SumFunctionOnSet(g, Rest) = SumFunctionOnSet(f, Rest)
    BY <1>1, <1>5, SumSame
<1>7. SumFunctionOnSet(f, Rest) \in Int
    BY <1>1, <1>5, SumInt
<1> DEFINE rest == SumFunctionOnSet(f, Rest)
           before == SumFunctionOnSet(f, S)
           after == SumFunctionOnSet(g, S)
<1>8. before = f[x] + rest /\ after = g[x] + rest
    BY <1>3, <1>4, <1>6
<1>9. f[x] \in Int /\ g[x] \in Int /\ rest \in Int
    BY <1>7
<1> HIDE DEF rest, before, after
<1>10. after = (before - f[x]) + g[x]
    BY <1>8, <1>9
<1> QED
    BY <1>10 DEF before, after

\* Fewer natural numbers add up to less.
LEMMA SumSubset ==
    ASSUME NEW f, NEW S, IsFiniteSet(S), NEW R \in SUBSET S,
           \A x \in S : f[x] \in Nat
    PROVE  SumFunctionOnSet(f, R) <= SumFunctionOnSet(f, S)
<1> DEFINE F == {T \in SUBSET (S \ R) :
                   SumFunctionOnSet(f, R) <= SumFunctionOnSet(f, R \union T)}
<1>0. IsFiniteSet(R) /\ IsFiniteSet(S \ R)
    BY FS_Subset
<1>1. {} \in F
  <2>1. SumFunctionOnSet(f, R) \in Nat
      BY <1>0, SumNat
  <2>2. R \union {} = R
      OBVIOUS
  <2> QED
      BY <2>1, <2>2
<1>2. ASSUME NEW T \in SUBSET (S \ R), NEW x \in (S \ R) \ T, T \in F
      PROVE  T \union {x} \in F
  <2> DEFINE U == R \union T
  <2>1. /\ U \in SUBSET S /\ x \notin U /\ x \in S
        /\ R \union (T \union {x}) = U \union {x}
      OBVIOUS
  <2>2. SumFunctionOnSet(f, R) <= SumFunctionOnSet(f, U)
      BY <1>2
  <2> HIDE DEF U
  <2>3. /\ IsFiniteSet(U)
        /\ \A y \in U \union {x} : f[y] \in Int
        /\ \A y \in U : f[y] \in Nat
        /\ f[x] \in Nat
      BY <2>1, FS_Subset
  <2>4. SumFunctionOnSet(f, U \union {x}) = f[x] + SumFunctionOnSet(f, U)
      BY <2>1, <2>3, SumAdd
  <2>5. SumFunctionOnSet(f, U) \in Nat /\ SumFunctionOnSet(f, R) \in Nat
      BY <1>0, <2>3, SumNat
  <2>6. SumFunctionOnSet(f, R) <= SumFunctionOnSet(f, U \union {x})
      BY <2>2, <2>3, <2>4, <2>5
  <2> QED
      BY <2>1, <2>6
<1>3. S \ R \in F
  <2> HIDE DEF F
  <2> QED
      BY <1>0, <1>1, <1>2, SubsetInduction
<1>4. R \union (S \ R) = S
    OBVIOUS
<1> QED
    BY <1>3, <1>4

\* A number put at an element of the set, or at a new one, adds at most itself.
LEMMA SumPut ==
    ASSUME NEW f, NEW g, NEW S, IsFiniteSet(S), NEW x, NEW n \in Nat,
           \A y \in S : f[y] \in Nat, g[x] = n, \A y \in S \ {x} : g[y] = f[y]
    PROVE  SumFunctionOnSet(g, S \union {x}) <= SumFunctionOnSet(f, S) + n
<1> DEFINE Rest == S \ {x}
           All == S \union {x}
<1>1. /\ IsFiniteSet(Rest) /\ Rest \in SUBSET S
      /\ IsFiniteSet(All) /\ x \in All /\ All \ {x} = Rest
    BY FS_Subset, FS_AddElement
<1>2. /\ \A y \in Rest : f[y] \in Nat /\ f[y] \in Int /\ g[y] = f[y]
      /\ \A y \in All : g[y] \in Int
    OBVIOUS
<1> HIDE DEF Rest, All
<1>3. SumFunctionOnSet(g, All) = g[x] + SumFunctionOnSet(g, Rest)
    BY <1>1, <1>2, SumRemove
<1>4. SumFunctionOnSet(g, Rest) = SumFunctionOnSet(f, Rest)
    BY <1>1, <1>2, SumSame
<1>5. SumFunctionOnSet(f, Rest) <= SumFunctionOnSet(f, S)
    BY <1>1, SumSubset
<1>6. SumFunctionOnSet(f, Rest) \in Nat /\ SumFunctionOnSet(f, S) \in Nat
    BY <1>1, <1>2, SumNat
<1> DEFINE rest == SumFunctionOnSet(f, Rest)
           before == SumFunctionOnSet(f, S)
           after == SumFunctionOnSet(g, All)
<1>7. after = n + rest /\ rest <= before /\ rest \in Nat /\ before \in Nat
    BY <1>3, <1>4, <1>5, <1>6
<1> HIDE DEF rest, before, after
<1>8. after <= before + n
    BY <1>7
<1> QED
    BY <1>8 DEF after, before, All

\* A sum of values that k bounds is bounded by k for every element.
LEMMA SumBound ==
    ASSUME NEW f, NEW S, IsFiniteSet(S), NEW k \in Nat,
           \A x \in S : f[x] \in Int /\ f[x] <= k
    PROVE  SumFunctionOnSet(f, S) <= Cardinality(S) * k
<1> DEFINE F == {T \in SUBSET S : SumFunctionOnSet(f, T) <= Cardinality(T) * k}
<1>1. {} \in F
  <2>1. Cardinality({}) * k = 0
      BY FS_EmptySet
  <2> QED
      BY <2>1, SumEmpty
<1>2. ASSUME NEW T \in SUBSET S, NEW x \in S \ T, T \in F
      PROVE  T \union {x} \in F
  <2>1. IsFiniteSet(T) /\ \A y \in T \union {x} : f[y] \in Int
      BY FS_Subset
  <2>2. SumFunctionOnSet(f, T \union {x}) = f[x] + SumFunctionOnSet(f, T)
      BY <2>1, SumAdd
  <2>3. Cardinality(T \union {x}) = Cardinality(T) + 1
      BY <2>1, FS_AddElement
  <2>4. Cardinality(T) \in Nat
      BY <2>1, FS_CardinalityType
  <2>5. SumFunctionOnSet(f, T) \in Int
      BY <2>1, SumInt
  <2>6. SumFunctionOnSet(f, T) <= Cardinality(T) * k
      BY <1>2
  <2>7. f[x] \in Int /\ f[x] <= k
      BY <1>2
  <2> DEFINE n == Cardinality(T)
             before == SumFunctionOnSet(f, T)
  <2> HIDE DEF n, before
  <2>8. (n + 1) * k = n * k + k /\ n * k \in Int
      BY <2>4 DEF n
  <2>9. f[x] + before <= (n + 1) * k
      BY <2>5, <2>6, <2>7, <2>8 DEF n, before
  <2>10. SumFunctionOnSet(f, T \union {x}) <= Cardinality(T \union {x}) * k
      BY <2>2, <2>3, <2>9 DEF n, before
  <2> QED
      BY <2>10
<1>3. S \in F
  <2> HIDE DEF F
  <2> QED
      BY <1>1, <1>2, SubsetInduction
<1> QED
    BY <1>3

\* Zeros add up to zero.
LEMMA SumZero ==
    ASSUME NEW f, NEW S, IsFiniteSet(S), \A x \in S : f[x] = 0
    PROVE  SumFunctionOnSet(f, S) = 0
<1>1. SumFunctionOnSet(f, S) \in Nat
    BY SumNat
<1>2. SumFunctionOnSet(f, S) <= Cardinality(S) * 0
    BY SumBound
<1>3. Cardinality(S) * 0 = 0
    BY FS_CardinalityType
<1> QED
    BY <1>1, <1>2, <1>3

=============================================================================
