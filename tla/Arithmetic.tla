----------------------------- MODULE Arithmetic -----------------------------
(***************************************************************************)
(* Facts that the proofs about counters and sizes need: sets of numbers    *)
(* have a least element, sums over finite sets do not depend on the order  *)
(* in which the elements are taken, and what \div and % do when the        *)
(* divisor is not a number but a parameter (the cells of a load grid, the  *)
(* sizes of blocks, the units of time).                                    *)
(***************************************************************************)
EXTENDS Integers, FiniteSets, Functions, FiniteSetTheorems, WellFoundedInduction, TLAPS

Below == {ss \in Nat \X Nat : ss[1] < ss[2]}

\* Every set of natural numbers has a least element.
LEMMA LeastNat ==
  ASSUME NEW T \in SUBSET Nat, T # {}
  PROVE  \E m \in T : \A k \in T : m <= k
<1>1. IsWellFoundedOn(Below, Nat)
  BY NatLessThanWellFounded, Zenon DEF OpToRel, Below
<1>2. PICK m \in T : \A k \in T : <<k, m>> \notin Below
  BY <1>1, WFMin, Zenon
<1>3. \A k, n \in Nat : <<k, n>> \in Below <=> k < n
  BY DEF Below
<1>4. ASSUME NEW k \in T PROVE m <= k
  <2>1. <<k, m>> \notin Below
    BY <1>2
  <2>2. QED
    BY <2>1, <1>3
<1>5. QED
  BY <1>4

\* Induction: a set that has zero and the successors of its members has them all.
LEMMA FromZero ==
  ASSUME NEW T \in SUBSET Nat, 0 \in T, \A n \in T : n + 1 \in T
  PROVE  T = Nat
<1> SUFFICES ASSUME T # Nat PROVE FALSE
  OBVIOUS
<1>1. PICK m \in Nat \ T : \A k \in Nat \ T : m <= k
  BY LeastNat
<1>2. m # 0 /\ m - 1 \in Nat
  BY <1>1
<1>3. m - 1 \in T
  BY <1>1, <1>2
<1>4. QED
  BY <1>1, <1>3

-----------------------------------------------------------------------------
Chosen(s) == CHOOSE x \in s : TRUE

\* g adds up f over every subset of S.
Adds(f, S, g) ==
  g = [s \in SUBSET S |-> IF s = {} THEN 0 ELSE f[Chosen(s)] + g[s \ {Chosen(s)}]]

LEMMA SumIsSome ==
  ASSUME NEW f, NEW S PROVE SumFunctionOnSet(f, S) = (CHOOSE g : Adds(f, S, g))[S]
BY Zenon DEF SumFunctionOnSet, FoldFunctionOnSet, MapThenFoldSet, Adds, Chosen

\* One element less.
LEMMA OneLess ==
  ASSUME NEW S, IsFiniteSet(S), NEW s \in SUBSET S, s # {}
  PROVE  /\ Chosen(s) \in s /\ s \ {Chosen(s)} \in SUBSET S
         /\ Cardinality(s) \in Nat \ {0}
         /\ Cardinality(s \ {Chosen(s)}) = Cardinality(s) - 1
<1>1. Chosen(s) \in s
  BY DEF Chosen
<1>2. IsFiniteSet(s)
  BY FS_Subset
<1>3. QED
  BY <1>1, <1>2, FS_RemoveElement, FS_CardinalityType, FS_EmptySet

\* Such a function exists: it can be extended to ever larger subsets.
LEMMA AddsExists ==
  ASSUME NEW f, NEW S, IsFiniteSet(S) PROVE \E g : Adds(f, S, g)
<1> DEFINE Value(g, s) == IF s = {} THEN 0 ELSE f[Chosen(s)] + g[s \ {Chosen(s)}]
           Fits(g, n) == \A s \in SUBSET S : Cardinality(s) <= n => g[s] = Value(g, s)
           T == {n \in Nat : \E g : Fits(g, n)}
<1>1. 0 \in T
  <2> DEFINE z == [s \in SUBSET S |-> 0]
  <2>1. ASSUME NEW s \in SUBSET S, Cardinality(s) <= 0 PROVE z[s] = Value(z, s)
    <3>1. s = {}
      <4> SUFFICES ASSUME s # {} PROVE FALSE
        OBVIOUS
      <4>1. Cardinality(s) \in Nat \ {0}
        BY OneLess
      <4>2. QED
        BY <2>1, <4>1
    <3>2. QED
      BY <3>1
  <2>2. Fits(z, 0)
    BY <2>1
  <2>3. QED
    BY <2>2
<1>2. ASSUME NEW n \in T PROVE n + 1 \in T
  <2>1. PICK g : Fits(g, n)
    OBVIOUS
  <2> DEFINE h == [s \in SUBSET S |-> IF Cardinality(s) <= n THEN g[s] ELSE Value(g, s)]
  <2>2. ASSUME NEW s \in SUBSET S, Cardinality(s) <= n + 1 PROVE h[s] = Value(h, s)
    <3>1. CASE s = {}
      <4>1. Cardinality(s) = 0
        BY <3>1, FS_EmptySet
      <4>2. Cardinality(s) <= n
        BY <4>1
      <4>3. g[s] = Value(g, s) /\ h[s] = g[s]
        BY <2>1, <4>2
      <4>4. QED
        BY <3>1, <4>3
    <3>2. CASE s # {}
      <4> DEFINE r == s \ {Chosen(s)}
      <4>1. r \in SUBSET S /\ Cardinality(r) <= n /\ Cardinality(s) \in Nat
        BY <2>2, <3>2, OneLess
      <4>2. h[r] = g[r]
        BY <4>1
      <4>3. h[s] = Value(g, s)
        BY <2>1, <4>1
      <4>4. Value(g, s) = Value(h, s)
        BY <3>2, <4>2
      <4>5. QED
        BY <4>3, <4>4
    <3>3. QED
      BY <3>1, <3>2
  <2>3. Fits(h, n + 1)
    BY <2>2
  <2> HIDE DEF h, Fits
  <2>4. QED
    BY <2>3
<1>3. T = Nat
  <2>1. T \in SUBSET Nat
    OBVIOUS
  <2> HIDE DEF T
  <2>2. QED
    BY <1>1, <1>2, <2>1, FromZero
<1>4. Cardinality(S) \in T
  <2>1. Cardinality(S) \in Nat
    BY FS_CardinalityType
  <2> HIDE DEF T
  <2>2. QED
    BY <1>3, <2>1
<1>5. PICK g : Fits(g, Cardinality(S))
  BY <1>4
<1> DEFINE h == [s \in SUBSET S |-> g[s]]
<1>6. ASSUME NEW s \in SUBSET S PROVE h[s] = Value(h, s)
  <2>1. g[s] = Value(g, s)
    BY <1>5, FS_Subset
  <2>2. s # {} => s \ {Chosen(s)} \in SUBSET S
    OBVIOUS
  <2>3. QED
    BY <2>1, <2>2
<1>7. h = [s \in SUBSET S |-> Value(h, s)]
  BY <1>6
<1>8. QED
  BY <1>7 DEF Adds

LEMMA SumAdds ==
  ASSUME NEW f, NEW S, IsFiniteSet(S)
  PROVE  \E g : Adds(f, S, g) /\ SumFunctionOnSet(f, S) = g[S]
BY AddsExists, SumIsSome

\* Two such functions agree on the sets they share.
LEMMA AddsUnique ==
  ASSUME NEW f, NEW S, IsFiniteSet(S), NEW R \in SUBSET S,
         NEW g, Adds(f, S, g), NEW h, Adds(f, R, h)
  PROVE  \A s \in SUBSET R : g[s] = h[s]
<1> DEFINE Same(n) == \A s \in SUBSET R : Cardinality(s) <= n => g[s] = h[s]
           T == {n \in Nat : Same(n)}
<1>1. \A s \in SUBSET R : /\ g[s] = IF s = {} THEN 0 ELSE f[Chosen(s)] + g[s \ {Chosen(s)}]
                          /\ h[s] = IF s = {} THEN 0 ELSE f[Chosen(s)] + h[s \ {Chosen(s)}]
  BY DEF Adds
<1>2. 0 \in T
  <2>1. ASSUME NEW s \in SUBSET R, Cardinality(s) <= 0 PROVE g[s] = h[s]
    <3>1. s = {}
      <4> SUFFICES ASSUME s # {} PROVE FALSE
        OBVIOUS
      <4>1. Cardinality(s) \in Nat \ {0}
        BY OneLess
      <4>2. QED
        BY <2>1, <4>1
    <3>2. QED
      BY <1>1, <3>1
  <2>2. QED
    BY <2>1
<1>3. ASSUME NEW n \in T PROVE n + 1 \in T
  <2>1. ASSUME NEW s \in SUBSET R, Cardinality(s) <= n + 1 PROVE g[s] = h[s]
    <3>1. CASE s = {}
      BY <1>1, <3>1
    <3>2. CASE s # {}
      <4> DEFINE r == s \ {Chosen(s)}
      <4>1. r \in SUBSET R /\ Cardinality(r) <= n
        BY <2>1, <3>2, OneLess
      <4>2. g[r] = h[r]
        BY <4>1
      <4>3. QED
        BY <1>1, <3>2, <4>2
    <3>3. QED
      BY <3>1, <3>2
  <2>2. QED
    BY <2>1
<1>4. T = Nat
  <2>1. T \in SUBSET Nat
    OBVIOUS
  <2> HIDE DEF T
  <2>2. QED
    BY <1>2, <1>3, <2>1, FromZero
<1>5. ASSUME NEW s \in SUBSET R PROVE g[s] = h[s]
  <2>1. Cardinality(s) \in Nat
    BY FS_Subset, FS_CardinalityType
  <2>2. Cardinality(s) \in T
    <3> HIDE DEF T
    <3>1. QED
      BY <1>4, <2>1
  <2>3. QED
    BY <2>1, <2>2
<1>6. QED
  BY <1>5

-----------------------------------------------------------------------------
LEMMA SumEmpty == ASSUME NEW f PROVE SumFunctionOnSet(f, {}) = 0
<1>1. IsFiniteSet({})
  BY FS_EmptySet
<1>2. PICK g : Adds(f, {}, g) /\ SumFunctionOnSet(f, {}) = g[{}]
  BY <1>1, SumAdds
<1>3. QED
  BY <1>2 DEF Adds

\* The sum, by its own recursion.
LEMMA SumChosen ==
  ASSUME NEW f, NEW S, IsFiniteSet(S), S # {}
  PROVE  SumFunctionOnSet(f, S) = f[Chosen(S)] + SumFunctionOnSet(f, S \ {Chosen(S)})
<1> DEFINE R == S \ {Chosen(S)}
<1>1. IsFiniteSet(R) /\ R \in SUBSET S
  BY FS_Subset
<1>2. PICK g : Adds(f, S, g) /\ SumFunctionOnSet(f, S) = g[S]
  BY SumAdds
<1>3. PICK h : Adds(f, R, h) /\ SumFunctionOnSet(f, R) = h[R]
  BY <1>1, SumAdds
<1>4. g[R] = h[R]
  BY <1>1, <1>2, <1>3, AddsUnique
<1>5. g[S] = f[Chosen(S)] + g[R]
  BY <1>2 DEF Adds
<1>6. QED
  BY <1>2, <1>3, <1>4, <1>5

\* Any element may be taken out first.
LEMMA SumAny ==
  ASSUME NEW S, IsFiniteSet(S), NEW f, \A x \in S : f[x] \in Int
  PROVE  /\ SumFunctionOnSet(f, S) \in Int
         /\ \A x \in S : SumFunctionOnSet(f, S) = f[x] + SumFunctionOnSet(f, S \ {x})
<1> DEFINE Sum(s) == SumFunctionOnSet(f, s)
           Good(s) == Sum(s) \in Int /\ \A x \in s : Sum(s) = f[x] + Sum(s \ {x})
           T == {n \in Nat : \A s \in SUBSET S : Cardinality(s) <= n => Good(s)}
<1> HIDE DEF Sum
<1>1. Good({})
  BY SumEmpty DEF Sum
<1>2. \A s \in SUBSET S : s # {} => Sum(s) = f[Chosen(s)] + Sum(s \ {Chosen(s)})
  BY SumChosen, FS_Subset DEF Sum
<1>3. 0 \in T
  <2>1. ASSUME NEW s \in SUBSET S, Cardinality(s) <= 0 PROVE s = {}
    <3> SUFFICES ASSUME s # {} PROVE FALSE
      OBVIOUS
    <3>1. Cardinality(s) \in Nat \ {0}
      BY OneLess
    <3>2. QED
      BY <2>1, <3>1
  <2>2. QED
    BY <1>1, <2>1
<1>4. ASSUME NEW n \in T PROVE n + 1 \in T
  <2>1. ASSUME NEW s \in SUBSET S, Cardinality(s) <= n + 1 PROVE Good(s)
    <3>1. CASE s = {}
      BY <1>1, <3>1
    <3>2. CASE s # {}
      <4> DEFINE c == Chosen(s)
      <4> c \in s /\ s \ {c} \in SUBSET S
        BY <3>2, OneLess
      <4> Cardinality(s) \in Nat /\ Cardinality(s \ {c}) = Cardinality(s) - 1
        BY <3>2, OneLess
      <4>1. Cardinality(s \ {c}) <= n
        BY <2>1
      <4>2. Good(s \ {c}) /\ f[c] \in Int
        BY <4>1
      <4>3. Sum(s) = f[c] + Sum(s \ {c}) /\ Sum(s) \in Int
        BY <1>2, <3>2, <4>2
      <4>4. ASSUME NEW x \in s, x # c PROVE Sum(s) = f[x] + Sum(s \ {x})
        <5>1. /\ s \ {x} \in SUBSET S /\ Cardinality(s \ {x}) <= n
          <6>1. IsFiniteSet(s) /\ Cardinality(s \ {x}) = Cardinality(s) - 1
            BY FS_Subset, FS_RemoveElement
          <6>2. QED
            BY <2>1, <4>1, <6>1
        <5>2. Good(s \ {x}) /\ c \in s \ {x} /\ x \in s \ {c} /\ f[x] \in Int
          BY <4>1, <4>4, <5>1
        <5>3. (s \ {x}) \ {c} = (s \ {c}) \ {x}
          OBVIOUS
        <5> DEFINE r == Sum((s \ {c}) \ {x})
        <5>4. Sum(s \ {c}) = f[x] + r /\ Sum(s \ {x}) = f[c] + r
          BY <4>2, <5>2, <5>3
        <5>5. r \in Int
          <6>1. Cardinality((s \ {c}) \ {x}) <= n /\ (s \ {c}) \ {x} \in SUBSET S
            <7>1. IsFiniteSet(s \ {c}) /\ Cardinality((s \ {c}) \ {x}) = Cardinality(s \ {c}) - 1
              BY <5>2, <4>1, FS_Subset, FS_RemoveElement
            <7>2. Cardinality(s \ {c}) \in Nat
              BY <7>1, FS_CardinalityType
            <7>3. QED
              BY <4>1, <7>1, <7>2
          <6>2. QED
            BY <6>1
        <5> HIDE DEF r, c
        <5>6. QED
          BY <4>2, <4>3, <5>2, <5>4, <5>5
      <4>5. QED
        BY <4>3, <4>4
    <3>3. QED
      BY <3>1, <3>2
  <2> HIDE DEF Good
  <2>2. n + 1 \in Nat
    OBVIOUS
  <2>3. QED
    BY <2>1, <2>2
<1>5. T = Nat
  <2>1. T \in SUBSET Nat
    OBVIOUS
  <2> HIDE DEF T
  <2>2. QED
    BY <1>3, <1>4, <2>1, FromZero
<1>6. Cardinality(S) \in T
  <2>1. Cardinality(S) \in Nat
    BY FS_CardinalityType
  <2> HIDE DEF T
  <2>2. QED
    BY <1>5, <2>1
<1>7. Good(S)
  BY <1>6, FS_CardinalityType
<1>8. QED
  BY <1>7 DEF Sum

\* Functions that agree on S add up to the same.
LEMMA SumAgrees ==
  ASSUME NEW S, IsFiniteSet(S), NEW f, NEW g, \A x \in S : f[x] = g[x]
  PROVE  SumFunctionOnSet(f, S) = SumFunctionOnSet(g, S)
<1> DEFINE Good(s) == SumFunctionOnSet(f, s) = SumFunctionOnSet(g, s)
           T == {n \in Nat : \A s \in SUBSET S : Cardinality(s) <= n => Good(s)}
<1>1. Good({})
  BY SumEmpty
<1>2. 0 \in T
  <2>1. ASSUME NEW s \in SUBSET S, Cardinality(s) <= 0 PROVE s = {}
    <3> SUFFICES ASSUME s # {} PROVE FALSE
      OBVIOUS
    <3>1. Cardinality(s) \in Nat \ {0}
      BY OneLess
    <3>2. QED
      BY <2>1, <3>1
  <2>2. QED
    BY <1>1, <2>1
<1>3. ASSUME NEW n \in T PROVE n + 1 \in T
  <2>1. ASSUME NEW s \in SUBSET S, Cardinality(s) <= n + 1 PROVE Good(s)
    <3>1. CASE s = {}
      BY <1>1, <3>1
    <3>2. CASE s # {}
      <4> DEFINE c == Chosen(s)
      <4>1. c \in s /\ s \ {c} \in SUBSET S /\ Cardinality(s \ {c}) <= n
        BY <2>1, <3>2, OneLess
      <4>2. Good(s \ {c}) /\ f[c] = g[c]
        BY <4>1
      <4>3. IsFiniteSet(s)
        BY FS_Subset
      <4>4. QED
        BY <3>2, <4>2, <4>3, SumChosen
    <3>3. QED
      BY <3>1, <3>2
  <2> HIDE DEF Good
  <2>2. n + 1 \in Nat
    OBVIOUS
  <2>3. QED
    BY <2>1, <2>2
<1>4. T = Nat
  <2>1. T \in SUBSET Nat
    OBVIOUS
  <2> HIDE DEF T
  <2>2. QED
    BY <1>2, <1>3, <2>1, FromZero
<1>5. Cardinality(S) \in T
  <2>1. Cardinality(S) \in Nat
    BY FS_CardinalityType
  <2> HIDE DEF T
  <2>2. QED
    BY <1>4, <2>1
<1>6. QED
  BY <1>5, FS_CardinalityType

\* The steps between consecutive values of o add up to the whole way.
LEMMA SumSteps ==
  ASSUME NEW n \in Nat, NEW f, NEW o, \A i \in 1 .. n : f[i] \in Int,
         \A i \in 1 .. n + 1 : o[i] \in Int, \A i \in 1 .. n : o[i + 1] = o[i] + f[i]
  PROVE  SumFunctionOnSet(f, 1 .. n) = o[n + 1] - o[1]
<1> DEFINE T == {k \in Nat : k <= n => SumFunctionOnSet(f, 1 .. k) = o[k + 1] - o[1]}
<1>1. 0 \in T
  <2>1. 1 .. 0 = {} /\ 1 \in 1 .. n + 1
    OBVIOUS
  <2>2. SumFunctionOnSet(f, 1 .. 0) = 0 /\ o[1] \in Int
    BY <2>1, SumEmpty
  <2>3. QED
    BY <2>2
<1>2. ASSUME NEW k \in T PROVE k + 1 \in T
  <2> SUFFICES ASSUME k + 1 <= n
               PROVE  SumFunctionOnSet(f, 1 .. k + 1) = o[k + 1 + 1] - o[1]
    OBVIOUS
  <2>1. SumFunctionOnSet(f, 1 .. k) = o[k + 1] - o[1]
    OBVIOUS
  <2>2. /\ IsFiniteSet(1 .. k + 1) /\ k + 1 \in 1 .. k + 1 /\ (1 .. k + 1) \ {k + 1} = 1 .. k
        /\ \A i \in 1 .. k + 1 : f[i] \in Int
    <3>1. k \in Nat /\ 1 \in Int /\ k + 1 \in Int
      OBVIOUS
    <3>2. IsFiniteSet(1 .. k + 1)
      BY <3>1, FS_Interval
    <3>3. (1 .. k + 1) \ {k + 1} = 1 .. k /\ \A i \in 1 .. k + 1 : i \in 1 .. n
      BY <3>1
    <3>4. QED
      BY <3>1, <3>2, <3>3
  <2>3. SumFunctionOnSet(f, 1 .. k + 1) = f[k + 1] + SumFunctionOnSet(f, (1 .. k + 1) \ {k + 1})
    BY <2>2, SumAny
  <2>4. /\ k + 1 \in 1 .. n /\ k + 1 \in 1 .. n + 1 /\ 1 \in 1 .. n + 1
        /\ o[k + 1 + 1] = o[k + 1] + f[k + 1]
    OBVIOUS
  <2>5. o[k + 1] \in Int /\ o[1] \in Int /\ f[k + 1] \in Int
    BY <2>4
  <2>6. SumFunctionOnSet(f, 1 .. k + 1) = f[k + 1] + (o[k + 1] - o[1])
    BY <2>1, <2>2, <2>3
  <2>7. QED
    BY ONLY <2>4, <2>5, <2>6
<1>3. T = Nat
  <2>1. T \in SUBSET Nat
    OBVIOUS
  <2> HIDE DEF T
  <2>2. QED
    BY <1>1, <1>2, <2>1, FromZero
<1>4. n \in T
  <2> HIDE DEF T
  <2>1. QED
    BY <1>3
<1>5. QED
  BY <1>4

\* One element more.
LEMMA SumMore ==
  ASSUME NEW S, IsFiniteSet(S), NEW k, k \notin S, NEW f, NEW g,
         \A x \in S : f[x] \in Int /\ g[x] = f[x], g[k] \in Int
  PROVE  SumFunctionOnSet(g, S \cup {k}) = SumFunctionOnSet(f, S) + g[k]
<1> DEFINE R == S \cup {k}
<1>1. IsFiniteSet(R)
  BY FS_AddElement
<1>2. SumFunctionOnSet(g, R) = g[k] + SumFunctionOnSet(g, R \ {k})
  <2>1. \A x \in R : g[x] \in Int
    OBVIOUS
  <2>2. k \in R
    OBVIOUS
  <2> HIDE DEF R
  <2>3. QED
    BY <1>1, <2>1, <2>2, SumAny
<1>3. R \ {k} = S
  OBVIOUS
<1>4. SumFunctionOnSet(f, S) = SumFunctionOnSet(g, S)
  BY SumAgrees
<1>5. SumFunctionOnSet(f, S) \in Int
  BY SumAny
<1>6. QED
  <2> HIDE DEF R
  <2>1. SumFunctionOnSet(g, R) = g[k] + SumFunctionOnSet(f, S)
    BY <1>2, <1>3, <1>4
  <2>2. QED
    BY <1>5, <2>1 DEF R

\* Induction over the subsets of a finite set.
LEMMA FromEmpty ==
  ASSUME NEW S, IsFiniteSet(S), NEW P \in SUBSET SUBSET S, {} \in P,
         \A s \in SUBSET S : \A x \in s : s \ {x} \in P => s \in P
  PROVE  P = SUBSET S
<1> DEFINE T == {n \in Nat : \A s \in SUBSET S : Cardinality(s) <= n => s \in P}
<1>1. 0 \in T
  <2>1. ASSUME NEW s \in SUBSET S, Cardinality(s) <= 0 PROVE s \in P
    <3>1. s = {}
      <4> SUFFICES ASSUME s # {} PROVE FALSE
        OBVIOUS
      <4>1. Cardinality(s) \in Nat \ {0}
        BY OneLess
      <4>2. QED
        BY <2>1, <4>1
    <3>2. QED
      BY <3>1
  <2>2. QED
    BY <2>1
<1>2. ASSUME NEW n \in T PROVE n + 1 \in T
  <2>1. ASSUME NEW s \in SUBSET S, Cardinality(s) <= n + 1 PROVE s \in P
    <3>1. CASE s = {}
      BY <3>1
    <3>2. CASE s # {}
      <4>1. /\ Chosen(s) \in s /\ s \ {Chosen(s)} \in SUBSET S
            /\ Cardinality(s) \in Nat \ {0} /\ Cardinality(s \ {Chosen(s)}) = Cardinality(s) - 1
        BY <3>2, OneLess
      <4>2. Cardinality(s \ {Chosen(s)}) <= n
        BY <2>1, <4>1
      <4>3. s \ {Chosen(s)} \in P
        BY <1>2, <4>1, <4>2
      <4>4. QED
        BY <4>1, <4>3
    <3>3. QED
      BY <3>1, <3>2
  <2>2. QED
    BY <1>2, <2>1
<1>3. T \in SUBSET Nat
  OBVIOUS
<1> HIDE DEF T
<1>4. T = Nat
  BY <1>1, <1>2, <1>3, FromZero
<1>5. ASSUME NEW s \in SUBSET S PROVE s \in P
  <2>1. Cardinality(s) \in Nat
    BY FS_Subset, FS_CardinalityType
  <2>2. QED
    BY <1>4, <2>1 DEF T
<1>6. QED
  BY <1>5

\* Sums of natural numbers.
LEMMA SumNat ==
  ASSUME NEW S, IsFiniteSet(S), NEW f, \A x \in S : f[x] \in Nat
  PROVE  SumFunctionOnSet(f, S) \in Nat
<1> DEFINE P == {s \in SUBSET S : SumFunctionOnSet(f, s) \in Nat}
<1>1. {} \in P
  BY SumEmpty
<1>2. ASSUME NEW s \in SUBSET S, NEW x \in s, s \ {x} \in P PROVE s \in P
  <2>1. IsFiniteSet(s) /\ \A y \in s : f[y] \in Int
    BY FS_Subset
  <2>2. SumFunctionOnSet(f, s) = f[x] + SumFunctionOnSet(f, s \ {x})
    BY <2>1, SumAny
  <2>3. QED
    BY <1>2, <2>2
<1>3. P \in SUBSET SUBSET S
  OBVIOUS
<1> HIDE DEF P
<1>4. P = SUBSET S
  BY <1>1, <1>2, <1>3, FromEmpty
<1>5. QED
  BY <1>4 DEF P

\* Sums of nothing but zeros.
LEMMA SumZero ==
  ASSUME NEW S, IsFiniteSet(S), NEW f, \A x \in S : f[x] = 0
  PROVE  SumFunctionOnSet(f, S) = 0
<1> DEFINE P == {s \in SUBSET S : SumFunctionOnSet(f, s) = 0}
<1>1. {} \in P
  BY SumEmpty
<1>2. ASSUME NEW s \in SUBSET S, NEW x \in s, s \ {x} \in P PROVE s \in P
  <2>1. IsFiniteSet(s) /\ \A y \in s : f[y] \in Int
    BY FS_Subset
  <2>2. SumFunctionOnSet(f, s) = f[x] + SumFunctionOnSet(f, s \ {x})
    BY <2>1, SumAny
  <2>3. QED
    BY <1>2, <2>2
<1>3. P \in SUBSET SUBSET S
  OBVIOUS
<1> HIDE DEF P
<1>4. P = SUBSET S
  BY <1>1, <1>2, <1>3, FromEmpty
<1>5. QED
  BY <1>4 DEF P

\* A sum of ones counts.
LEMMA SumOnes ==
  ASSUME NEW S, IsFiniteSet(S), NEW f, \A x \in S : f[x] = 1
  PROVE  SumFunctionOnSet(f, S) = Cardinality(S)
<1> DEFINE P == {s \in SUBSET S : SumFunctionOnSet(f, s) = Cardinality(s)}
<1>1. {} \in P
  BY SumEmpty, FS_EmptySet
<1>2. ASSUME NEW s \in SUBSET S, NEW x \in s, s \ {x} \in P PROVE s \in P
  <2>1. IsFiniteSet(s) /\ \A y \in s : f[y] \in Int
    BY FS_Subset
  <2>2. SumFunctionOnSet(f, s) = f[x] + SumFunctionOnSet(f, s \ {x})
    BY <2>1, SumAny
  <2>3. /\ Cardinality(s \ {x}) = Cardinality(s) - 1 /\ Cardinality(s) \in Nat
    BY <2>1, FS_RemoveElement, FS_CardinalityType
  <2>4. QED
    BY <1>2, <2>2, <2>3
<1>3. P \in SUBSET SUBSET S
  OBVIOUS
<1> HIDE DEF P
<1>4. P = SUBSET S
  BY <1>1, <1>2, <1>3, FromEmpty
<1>5. QED
  BY <1>4 DEF P

\* Equally many elements: the values of an injection fill its range.
LEMMA CountedBy ==
  ASSUME NEW S, NEW n \in Nat, NEW h, \A x \in S : h[x] \in 0 .. n - 1,
         \A x, y \in S : h[x] = h[y] => x = y, \A i \in 0 .. n - 1 : \E x \in S : h[x] = i
  PROVE  IsFiniteSet(S) /\ Cardinality(S) = n
<1>1. PICK f \in [S -> 0 .. n - 1] : \A x \in S : f[x] = h[x]
  <2>1. [x \in S |-> h[x]] \in [S -> 0 .. n - 1]
    OBVIOUS
  <2>2. QED
    BY <2>1
<1>2. f \in Injection(S, 0 .. n - 1)
  BY <1>1 DEF Injection, IsInjective
<1>3. f \in Surjection(S, 0 .. n - 1)
  BY <1>1 DEF Surjection
<1>4. IsFiniteSet(0 .. n - 1) /\ Cardinality(0 .. n - 1) = n
  BY FS_Interval
<1>5. QED
  BY <1>2, <1>3, <1>4, FS_Injection

\* The sum over two sets that share nothing.
LEMMA SumUnion ==
  ASSUME NEW A, IsFiniteSet(A), NEW B, IsFiniteSet(B), A \cap B = {},
         NEW f, \A x \in A \cup B : f[x] \in Int
  PROVE  SumFunctionOnSet(f, A \cup B) = SumFunctionOnSet(f, A) + SumFunctionOnSet(f, B)
<1> DEFINE Sum(s) == SumFunctionOnSet(f, s)
           P == {s \in SUBSET B : Sum(A \cup s) = Sum(A) + Sum(s)}
<1>0. Sum(A) \in Int
  BY SumAny
<1>1. {} \in P
  <2>1. A \cup {} = A /\ Sum({}) = 0
    BY SumEmpty
  <2> HIDE DEF Sum
  <2>2. QED
    BY <1>0, <2>1
<1>2. ASSUME NEW s \in SUBSET B, NEW x \in s, s \ {x} \in P PROVE s \in P
  <2>1. IsFiniteSet(s) /\ \A y \in s : f[y] \in Int
    BY FS_Subset
  <2>2. Sum(s) = f[x] + Sum(s \ {x})
    BY <2>1, SumAny
  <2>3. IsFiniteSet(A \cup s) /\ \A y \in A \cup s : f[y] \in Int
    BY <2>1, FS_Union
  <2>4. x \in A \cup s
    OBVIOUS
  <2>5. Sum(A \cup s) = f[x] + Sum((A \cup s) \ {x})
    BY ONLY <2>3, <2>4, SumAny, Zenon
  <2>6. (A \cup s) \ {x} = A \cup (s \ {x})
    OBVIOUS
  <2>7. Sum(s \ {x}) \in Int
    <3>1. IsFiniteSet(s \ {x}) /\ \A y \in s \ {x} : f[y] \in Int
      BY <2>1, FS_Subset
    <3>2. QED
      BY ONLY <3>1, SumAny, Zenon
  <2>8. f[x] \in Int /\ Sum(A \cup (s \ {x})) = Sum(A) + Sum(s \ {x})
    BY <1>2
  <2> HIDE DEF Sum
  <2>9. Sum(A \cup s) = Sum(A) + Sum(s)
    <3>1. PICK p, q, u : p = f[x] /\ q = Sum(A) /\ u = Sum(s \ {x})
      OBVIOUS
    <3>2. Sum(A \cup s) = p + (q + u) /\ Sum(s) = p + u
      BY <2>2, <2>5, <2>6, <2>8, <3>1
    <3>3. p \in Int /\ q \in Int /\ u \in Int
      BY <1>0, <2>7, <2>8, <3>1
    <3>4. p + (q + u) = q + (p + u)
      BY <3>3
    <3>5. QED
      BY <3>1, <3>2, <3>4
  <2>10. QED
    BY <2>9
<1>3. P \in SUBSET SUBSET B
  OBVIOUS
<1> HIDE DEF P
<1>4. P = SUBSET B
  BY <1>1, <1>2, <1>3, FromEmpty
<1>5. QED
  BY <1>4 DEF P

\* A part of natural numbers sums up to no more than all.
LEMMA SumPart ==
  ASSUME NEW B, IsFiniteSet(B), NEW A \in SUBSET B, NEW f, \A x \in B : f[x] \in Nat
  PROVE  SumFunctionOnSet(f, A) <= SumFunctionOnSet(f, B)
<1>1. IsFiniteSet(A) /\ IsFiniteSet(B \ A) /\ A \cap (B \ A) = {} /\ A \cup (B \ A) = B
  BY FS_Subset
<1>2. \A x \in A \cup (B \ A) : f[x] \in Int
  OBVIOUS
<1>3. SumFunctionOnSet(f, A \cup (B \ A)) = SumFunctionOnSet(f, A) + SumFunctionOnSet(f, B \ A)
  BY ONLY <1>1, <1>2, SumUnion, Zenon
<1>4. SumFunctionOnSet(f, A) \in Nat
  BY <1>1, SumNat
<1>5. SumFunctionOnSet(f, B \ A) \in Nat
  BY <1>1, SumNat
<1>6. SumFunctionOnSet(f, B) = SumFunctionOnSet(f, A) + SumFunctionOnSet(f, B \ A)
  BY ONLY <1>1, <1>3, Zenon
<1>7. QED
  BY <1>4, <1>5, <1>6

\* What is counted slot by slot, and the slots then added up, is counted once.
LEMMA SumSlots ==
  ASSUME NEW T, IsFiniteSet(T), NEW C, IsFiniteSet(C), NEW f, \A t \in T : f[t] \in Int,
         NEW h, NEW K, \A c \in C : \A t : t \in K[c] <=> t \in T /\ h[t] = c,
         NEW g, \A c \in C : g[c] = SumFunctionOnSet(f, K[c]),
         NEW all, \A t : t \in all <=> t \in T /\ h[t] \in C
  PROVE  SumFunctionOnSet(g, C) = SumFunctionOnSet(f, all)
<1> DEFINE Sum(s) == SumFunctionOnSet(f, s)
           Of(s) == {t \in T : h[t] \in s}
           P == {s \in SUBSET C : SumFunctionOnSet(g, s) = Sum(Of(s))}
<1>0. \A s \in SUBSET T : IsFiniteSet(s) /\ Sum(s) \in Int
  <2>1. ASSUME NEW s \in SUBSET T PROVE IsFiniteSet(s) /\ Sum(s) \in Int
    <3>1. IsFiniteSet(s) /\ \A x \in s : f[x] \in Int
      BY FS_Subset
    <3>2. QED
      BY <3>1, SumAny
  <2>2. QED
    BY <2>1
<1>1. {} \in P
  <2>1. Of({}) = {}
    OBVIOUS
  <2>2. QED
    BY <2>1, SumEmpty
<1>2. ASSUME NEW s \in SUBSET C, NEW x \in s, s \ {x} \in P PROVE s \in P
  <2>1. \A c \in s : g[c] \in Int
    <3>1. \A c \in s : K[c] \in SUBSET T
      OBVIOUS
    <3>2. QED
      BY <1>0, <3>1
  <2>2. IsFiniteSet(s)
    BY FS_Subset
  <2>3. SumFunctionOnSet(g, s) = g[x] + SumFunctionOnSet(g, s \ {x})
    BY ONLY <2>1, <2>2, x \in s, SumAny, Zenon
  <2>4. /\ Of(s) = Of({x}) \cup Of(s \ {x}) /\ Of({x}) \cap Of(s \ {x}) = {}
        /\ Of({x}) = K[x]
    OBVIOUS
  <2>5. IsFiniteSet(Of({x})) /\ IsFiniteSet(Of(s \ {x})) /\ \A y \in Of({x}) \cup Of(s \ {x}) : f[y] \in Int
    BY <1>0
  <2>6. PICK A, B : A = Of({x}) /\ B = Of(s \ {x})
    OBVIOUS
  <2>7. IsFiniteSet(A) /\ IsFiniteSet(B) /\ A \cap B = {} /\ \A y \in A \cup B : f[y] \in Int
    BY <2>4, <2>5, <2>6
  <2>8. Sum(A \cup B) = Sum(A) + Sum(B)
    BY ONLY <2>7, SumUnion, Zenon
  <2>9. g[x] = Sum(A)
    BY <2>4, <2>6
  <2>10. SumFunctionOnSet(g, s \ {x}) = Sum(B)
    BY <1>2, <2>6
  <2>11. SumFunctionOnSet(g, s) = Sum(Of(s))
    BY <2>3, <2>4, <2>6, <2>8, <2>9, <2>10
  <2>12. QED
    BY <2>11
<1>3. P \in SUBSET SUBSET C
  OBVIOUS
<1> HIDE DEF P
<1>4. P = SUBSET C
  BY <1>1, <1>2, <1>3, FromEmpty
<1>5. Of(C) = all
  OBVIOUS
<1>6. QED
  BY <1>4, <1>5 DEF P

\* Zeros outside B make no difference.
LEMMA SumWithin ==
  ASSUME NEW T, IsFiniteSet(T), NEW A \in SUBSET T, NEW B \in SUBSET T,
         NEW f, \A t \in T : f[t] \in Nat, \A t \in A : f[t] # 0 => t \in B
  PROVE  SumFunctionOnSet(f, A) <= SumFunctionOnSet(f, B)
<1>1. PICK C, D : C = A \cap B /\ D = A \ B
  OBVIOUS
<1>2. IsFiniteSet(C) /\ IsFiniteSet(D) /\ C \cap D = {} /\ \A t \in C \cup D : f[t] \in Int
  BY <1>1, FS_Subset
<1>3. SumFunctionOnSet(f, C \cup D) = SumFunctionOnSet(f, C) + SumFunctionOnSet(f, D)
  BY ONLY <1>2, SumUnion, Zenon
<1>4. SumFunctionOnSet(f, D) = 0
  <2>1. \A t \in D : f[t] = 0
    BY <1>1
  <2>2. QED
    BY ONLY <1>2, <2>1, SumZero, Zenon
<1>5. SumFunctionOnSet(f, C) <= SumFunctionOnSet(f, B)
  <2>1. IsFiniteSet(B) /\ C \in SUBSET B /\ \A t \in B : f[t] \in Nat
    BY <1>1, FS_Subset
  <2>2. QED
    BY ONLY <2>1, SumPart, Zenon
<1>6. SumFunctionOnSet(f, C) \in Nat
  BY <1>1, <1>2, SumNat
<1>7. C \cup D = A
  BY <1>1
<1>8. SumFunctionOnSet(f, A) = SumFunctionOnSet(f, C) + SumFunctionOnSet(f, D)
  BY ONLY <1>3, <1>7, Zenon
<1>9. QED
  BY <1>4, <1>5, <1>6, <1>8

LEMMA SumSupport ==
  ASSUME NEW T, IsFiniteSet(T), NEW A \in SUBSET T, NEW B \in SUBSET T,
         NEW f, \A t \in T : f[t] \in Nat, \A t \in T : f[t] # 0 => (t \in A <=> t \in B)
  PROVE  SumFunctionOnSet(f, A) = SumFunctionOnSet(f, B)
<1>1. SumFunctionOnSet(f, A) <= SumFunctionOnSet(f, B)
  BY SumWithin
<1>2. SumFunctionOnSet(f, B) <= SumFunctionOnSet(f, A)
  BY SumWithin
<1>3. IsFiniteSet(A) /\ IsFiniteSet(B)
  BY FS_Subset
<1>4. SumFunctionOnSet(f, A) \in Nat
  BY <1>3, SumNat
<1>5. SumFunctionOnSet(f, B) \in Nat
  BY <1>3, SumNat
<1>6. QED
  BY <1>1, <1>2, <1>4, <1>5

\* One value grows.
LEMMA SumGrows ==
  ASSUME NEW T, IsFiniteSet(T), NEW S \in SUBSET T, NEW f, NEW g, NEW x \in T, NEW m \in Int,
         \A t \in T : f[t] \in Int, \A t \in T \ {x} : g[t] = f[t], g[x] = f[x] + m
  PROVE  SumFunctionOnSet(g, S) = SumFunctionOnSet(f, S) + (IF x \in S THEN m ELSE 0)
<1>1. IsFiniteSet(S) /\ IsFiniteSet(S \ {x})
  BY FS_Subset
<1>2. SumFunctionOnSet(f, S \ {x}) = SumFunctionOnSet(g, S \ {x})
  <2>1. \A t \in S \ {x} : f[t] = g[t]
    OBVIOUS
  <2>2. QED
    BY ONLY <1>1, <2>1, SumAgrees, Zenon
<1>3. SumFunctionOnSet(f, S \ {x}) \in Int
  <2>1. \A t \in S \ {x} : f[t] \in Int
    OBVIOUS
  <2>2. QED
    BY ONLY <1>1, <2>1, SumAny, Zenon
<1>4. CASE x \notin S
  <2>1. S \ {x} = S
    BY <1>4
  <2>2. SumFunctionOnSet(f, S) = SumFunctionOnSet(g, S) /\ SumFunctionOnSet(f, S) \in Int
    BY ONLY <1>2, <1>3, <2>1, Zenon
  <2>3. QED
    BY <1>4, <2>2
<1>5. CASE x \in S
  <2>1. (\A t \in S : f[t] \in Int) /\ (\A t \in S : g[t] \in Int)
    BY <1>5
  <2>2. SumFunctionOnSet(f, S) = f[x] + SumFunctionOnSet(f, S \ {x})
    BY ONLY <1>1, <1>5, <2>1, SumAny, Zenon
  <2>3. SumFunctionOnSet(g, S) = g[x] + SumFunctionOnSet(g, S \ {x})
    BY ONLY <1>1, <1>5, <2>1, SumAny, Zenon
  <2>4. PICK p, q : p = f[x] /\ q = SumFunctionOnSet(f, S \ {x})
    OBVIOUS
  <2>5. /\ p \in Int /\ q \in Int /\ SumFunctionOnSet(f, S) = p + q
        /\ SumFunctionOnSet(g, S) = (p + m) + q
    BY <1>2, <1>3, <2>1, <2>2, <2>3, <2>4
  <2>6. QED
    BY <1>5, <2>5
<1>6. QED
  BY <1>4, <1>5

-----------------------------------------------------------------------------
(* Quotients and remainders *)

\* What the quotient and the remainder are.
LEMMA Divided ==
  ASSUME NEW n \in Nat \ {0}, NEW x \in Int
  PROVE  x \div n \in Int /\ x % n \in 0 .. n - 1 /\ x = n * (x \div n) + (x % n)
OBVIOUS

\* Multiples of one number lie that number apart.
LEMMA Times == ASSUME NEW a \in Int, NEW b \in Int, NEW U \in Nat \ {0}, a < b PROVE U * a + U <= U * b
OBVIOUS

\* The quotient and the remainder are the only ones.
LEMMA Unique ==
  ASSUME NEW U \in Nat \ {0}, NEW q \in Int, NEW p \in Int, NEW r \in 0..(U - 1), NEW s \in 0..(U - 1),
         U * q + r = U * p + s
  PROVE  q = p /\ r = s
<1>1. ~(q < p)
  BY Times
<1>2. ~(p < q)
  BY Times
<1>3. QED
  BY <1>1, <1>2

\* A remainder is its own remainder.
LEMMA ModSmall ==
  ASSUME NEW U \in Nat \ {0}, NEW j \in 0 .. U - 1 PROVE j % U = j /\ j \div U = 0
<1>1. PICK p, r : p = j \div U /\ r = j % U
  OBVIOUS
<1>2. j \in Int /\ j \in 0..(U - 1)
  OBVIOUS
<1>3. p \in Int /\ r \in 0..(U - 1) /\ j = U * p + r
  BY <1>1, <1>2, Divided
<1>4. U * 0 + j = U * p + r
  BY <1>2, <1>3
<1>5. 0 = p /\ j = r
  BY ONLY <1>2, <1>3, <1>4, U \in Nat \ {0}, 0 \in Int, Unique
<1>6. QED
  BY <1>1, <1>5

\* One whole divisor more makes no difference to the remainder.
LEMMA ModShift ==
  ASSUME NEW v \in Int, NEW U \in Nat \ {0} PROVE (v + U) % U = v % U
<1>1. PICK q, r : q = v \div U /\ r = v % U
  OBVIOUS
<1>2. PICK p, s : p = (v + U) \div U /\ s = (v + U) % U
  OBVIOUS
<1>3. q \in Int /\ r \in 0..(U - 1) /\ v = U * q + r
  BY <1>1, Divided
<1>4. p \in Int /\ s \in 0..(U - 1) /\ v + U = U * p + s
  BY <1>2, Divided
<1>5. U * (q + 1) = U * q + U /\ U * q \in Int
  BY ONLY <1>3, U \in Nat
<1>6. U * (q + 1) + r = U * p + s
  BY ONLY <1>3, <1>4, <1>5, U \in Nat
<1>7. r = s
  BY ONLY <1>3, <1>4, <1>6, U \in Nat \ {0}, q + 1 \in Int, Unique
<1>8. QED
  BY <1>1, <1>2, <1>7

\* Two numbers with one remainder, less than two divisors apart.
LEMMA ModSame ==
  ASSUME NEW v \in Int, NEW w \in Int, NEW U \in Nat \ {0}, v % U = w % U, v < w, w < v + 2 * U
  PROVE  w = v + U
<1>1. PICK q, p, r : q = v \div U /\ p = w \div U /\ r = v % U
  OBVIOUS
<1>2. q \in Int /\ r \in 0..(U - 1) /\ v = U * q + r
  BY <1>1, Divided
<1>3. p \in Int /\ w = U * p + r
  BY <1>1, Divided
<1>4. U * (q + 1) = U * q + U /\ U * q \in Int /\ U * p \in Int /\ r \in Int
  BY ONLY <1>2, <1>3, U \in Nat
<1>5. q < p
  <2>1. CASE q = p
    BY <1>2, <1>3, <2>1
  <2>2. CASE p < q
    BY <1>2, <1>3, <2>2, Times
  <2>3. QED
    BY <1>2, <1>3, <2>1, <2>2
<1>6. ~(q + 1 < p)
  <2> SUFFICES ASSUME q + 1 < p PROVE FALSE
    OBVIOUS
  <2>1. U * (q + 1) + U <= U * p
    BY <1>2, <1>3, Times
  <2>2. QED
    BY <1>2, <1>3, <1>4, <2>1
<1>7. p = q + 1
  BY <1>2, <1>3, <1>5, <1>6
<1>8. QED
  BY <1>2, <1>3, <1>4, <1>7

\* How far apart two times are says how far apart their cells are.
LEMMA CellsApart ==
  ASSUME NEW c \in Int, NEW d \in Int, NEW n \in Int, NEW U \in Nat \ {0}
  PROVE  /\ c > d - n * U => c \div U >= d \div U - n
         /\ c \div U > d \div U - n => c > d - n * U
<1>1. PICK q, r : q = c \div U /\ r = c % U
  OBVIOUS
<1>2. PICK p, s : p = d \div U /\ s = d % U
  OBVIOUS
<1>3. q \in Int /\ r \in 0..(U - 1) /\ c = U * q + r
  BY <1>1, Divided
<1>4. p \in Int /\ s \in 0..(U - 1) /\ d = U * p + s
  BY <1>2, Divided
<1>5. U * (p - n) = U * p - n * U /\ U * p \in Int /\ U * q \in Int /\ n * U \in Int
  BY ONLY <1>3, <1>4, U \in Nat, n \in Int
<1>6. ASSUME q < p - n PROVE ~(c > d - n * U)
  <2>1. U * q + U <= U * (p - n)
    BY <1>3, <1>4, <1>6, Times
  <2>2. QED
    BY <1>3, <1>4, <1>5, <2>1
<1>7. ASSUME p - n < q PROVE c > d - n * U
  <2>1. U * (p - n) + U <= U * q
    BY <1>3, <1>4, <1>7, Times
  <2>2. QED
    BY <1>3, <1>4, <1>5, <2>1
<1>8. QED
  BY <1>1, <1>2, <1>3, <1>4, <1>6, <1>7

\* A sum over the same numbers under other names.
LEMMA SumRenamed ==
  ASSUME NEW S, IsFiniteSet(S), NEW C, IsFiniteSet(C), NEW h, \A x \in S : h[x] \in C,
         \A x, y \in S : h[x] = h[y] => x = y, \A c \in C : \E x \in S : h[x] = c,
         NEW f, \A x \in S : f[x] \in Int, NEW g, \A x \in S : g[h[x]] = f[x]
  PROVE  SumFunctionOnSet(g, C) = SumFunctionOnSet(f, S)
<1>1. PICK K : \A c \in C : K[c] = {x \in S : h[x] = c}
  <2>1. \A c \in C : [d \in C |-> {x \in S : h[x] = d}][c] = {x \in S : h[x] = c}
    OBVIOUS
  <2>2. QED
    BY <2>1
<1>2. ASSUME NEW c \in C PROVE g[c] = SumFunctionOnSet(f, K[c])
  <2>1. PICK x \in S : h[x] = c
    OBVIOUS
  <2>2. PICK one : one = {x}
    OBVIOUS
  <2>3. K[c] = one /\ x \in one /\ one \ {x} = {}
    BY <1>1, <2>1, <2>2
  <2>4. IsFiniteSet(one) /\ \A y \in one : f[y] \in Int
    BY <2>2, FS_Singleton
  <2>5. SumFunctionOnSet(f, one) = f[x] + SumFunctionOnSet(f, one \ {x})
    BY ONLY <2>3, <2>4, SumAny
  <2>6. SumFunctionOnSet(f, one \ {x}) = 0
    BY <2>3, SumEmpty
  <2>7. QED
    BY <2>1, <2>3, <2>5, <2>6
<1>3. \A c \in C : \A x : x \in K[c] <=> x \in S /\ h[x] = c
  BY <1>1
<1>4. \A x : x \in S <=> x \in S /\ h[x] \in C
  OBVIOUS
<1>5. QED
  BY ONLY <1>2, <1>3, <1>4, SumSlots, IsFiniteSet(S), IsFiniteSet(C), \A x \in S : f[x] \in Int
=============================================================================
