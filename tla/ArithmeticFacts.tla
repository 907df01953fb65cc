-------------------------- MODULE ArithmeticFacts --------------------------
(***************************************************************************)
(* Facts about division (the day of an instant, the month of a day) and    *)
(* about sums over finite sets of indices, and the induction these rest    *)
(* on.  It is stated over sets, so that a prover can use it: that no       *)
(* infinite chain of finite subsets descends is a theorem of the library.  *)
(***************************************************************************)
EXTENDS Integers, Functions, FiniteSetTheorems, TLAPS

(* Division: the quotient is the only number of whole divisors below.      *)
LEMMA Quotient ==
  ASSUME NEW a \in Int, NEW d \in Nat \ {0}
  PROVE  /\ a \div d \in Int /\ d * (a \div d) <= a /\ a < d * (a \div d) + d
         /\ a >= 0 => a \div d \in Nat
  OBVIOUS

(* Multiplication keeps an order, and distributes over a successor.        *)
LEMMA TimesMonotonic ==
  ASSUME NEW d \in Nat, NEW q \in Int, NEW r \in Int, q <= r
  PROVE  d * q <= d * r
  OBVIOUS

(* One more time a number is that number more.                             *)
LEMMA TimesSuccessor ==
  ASSUME NEW a \in Int, NEW n \in Int
  PROVE  a * (n + 1) = a * n + a /\ a * n \in Int /\ n * a = a * n
  OBVIOUS

(* Bounds of a quotient.                                                   *)
LEMMA QuotientAtMost ==
  ASSUME NEW a \in Int, NEW d \in Nat \ {0}, NEW q \in Int, a < d * q + d
  PROVE  a \div d <= q
  <1> DEFINE r == a \div d
  <1>1. r \in Int /\ d * r <= a
    BY Quotient
  <1> SUFFICES ASSUME q + 1 <= r PROVE FALSE
    BY <1>1
  <1>2. d * (q + 1) <= d * r
    BY <1>1, TimesMonotonic
  <1> HIDE DEF r
  <1> QED
    BY <1>1, <1>2, TimesSuccessor

(* The same from below.                                                    *)
LEMMA QuotientAtLeast ==
  ASSUME NEW a \in Int, NEW d \in Nat \ {0}, NEW q \in Int, d * q <= a
  PROVE  q <= a \div d
  <1> DEFINE r == a \div d
  <1>1. r \in Int /\ a < d * r + d
    BY Quotient
  <1> SUFFICES ASSUME r + 1 <= q PROVE FALSE
    BY <1>1
  <1>2. d * (r + 1) <= d * q
    BY <1>1, TimesMonotonic
  <1>3. d * r \in Int /\ d * q \in Int /\ d * (r + 1) = d * r + d
    BY <1>1, TimesSuccessor
  <1> HIDE DEF r
  <1> QED
    BY <1>1, <1>2, <1>3

(* A later instant lies on no earlier day.                                 *)
LEMMA QuotientMonotonic ==
  ASSUME NEW a \in Int, NEW b \in Int, NEW d \in Nat \ {0}, a <= b
  PROVE  a \div d <= b \div d
  <1>1. b \div d \in Int /\ d * (b \div d) \in Int /\ b < d * (b \div d) + d
    BY Quotient, TimesSuccessor
  <1> QED
    BY <1>1, QuotientAtMost

-----------------------------------------------------------------------------
(* A non-empty collection of subsets of a finite set has one that contains *)
(* no other.                                                               *)
LEMMA SmallestSubset ==
  ASSUME NEW S, IsFiniteSet(S), NEW C, C \subseteq SUBSET S, C # {}
  PROVE  \E T \in C : \A U \in C : U \subseteq T => U = T
  <1>1. C \subseteq FiniteSubsetsOf(S)
    BY FS_Subset DEF FiniteSubsetsOf
  <1>2. \E T \in C : \A U \in C : ~(<< U, T >> \in StrictSubsetOrdering(S))
    BY <1>1, FS_StrictSubsetOrderingWellFounded, WFMin
  <1> QED
    BY <1>2 DEF StrictSubsetOrdering

(* Induction: a collection that holds a set as soon as it holds all of its *)
(* proper subsets holds every finite set.                                  *)
LEMMA FiniteInduction ==
  ASSUME NEW S, IsFiniteSet(S), NEW C,
         \A T \in SUBSET S : (\A U \in SUBSET T : U # T => U \in C) => T \in C
  PROVE  S \in C
  <1> SUFFICES ASSUME S \notin C PROVE FALSE
    OBVIOUS
  <1> DEFINE D == {U \in SUBSET S : U \notin C}
  <1>1. D \subseteq SUBSET S /\ S \in D
    OBVIOUS
  <1>2. PICK T \in D : \A U \in D : U \subseteq T => U = T
    <2> HIDE DEF D
    <2> QED
      BY <1>1, SmallestSubset
  <1>3. T \in SUBSET S /\ T \notin C
    BY <1>2
  <1>4. PICK U \in SUBSET T : U # T /\ U \notin C
    BY <1>3
  <1>5. U \in D
    BY <1>3, <1>4
  <1> HIDE DEF D
  <1> QED
    BY <1>2, <1>4, <1>5

(* Of finitely many numbers one is the greatest and one the least.         *)
LEMMA Extremes ==
  ASSUME NEW f, NEW S, IsFiniteSet(S), S # {}, \A x \in S : f[x] \in Nat
  PROVE  \E l, h \in S : \A x \in S : f[l] <= f[x] /\ f[x] <= f[h]
  <1> DEFINE C == {T \in SUBSET S : T # {} =>
                     \E l, h \in T : \A x \in T : f[l] <= f[x] /\ f[x] <= f[h]}
  <1>1. ASSUME NEW T \in SUBSET S, \A U \in SUBSET T : U # T => U \in C
        PROVE  T \in C
    <2> SUFFICES ASSUME NEW y \in T
                 PROVE  \E l, h \in T : \A x \in T : f[l] <= f[x] /\ f[x] <= f[h]
      OBVIOUS
    <2>1. CASE T = {y}
      BY <2>1
    <2>2. CASE T # {y}
      <3>1. T \ {y} \in C /\ T \ {y} # {}
        BY <1>1, <2>2
      <3>2. PICK l, h \in T \ {y} : \A x \in T \ {y} : f[l] <= f[x] /\ f[x] <= f[h]
        BY <3>1
      <3> DEFINE low == IF f[y] <= f[l] THEN y ELSE l
                 high == IF f[h] <= f[y] THEN y ELSE h
      <3>3. low \in T /\ high \in T /\ \A x \in T : f[x] \in Nat
        OBVIOUS
      <3>4. \A x \in T : f[low] <= f[x] /\ f[x] <= f[high]
        <4> HIDE DEF C
        <4> QED
          BY <3>2, <3>3
      <3> QED
        BY <3>3, <3>4
    <2> QED
      BY <2>1, <2>2
  <1>2. S \in C
    <2> HIDE DEF C
    <2> QED
      BY <1>1, FiniteInduction
  <1> QED
    BY <1>2

-----------------------------------------------------------------------------
(* The recursion behind a sum has a solution, and one only.                *)

Chosen(s) == CHOOSE x \in s : TRUE

SolvesSum(f, S, g) ==
  g = [s \in SUBSET S |-> IF s = {} THEN 0 ELSE f[Chosen(s)] + g[s \ {Chosen(s)}]]

(* A sum is the value of a solution.                                       *)
LEMMA SumIsSolution ==
  ASSUME NEW f, NEW S
  PROVE  SumFunctionOnSet(f, S) = (CHOOSE g : SolvesSum(f, S, g))[S]
  BY DEF SumFunctionOnSet, FoldFunctionOnSet, MapThenFoldSet, SolvesSum, Chosen

(* The element a fold takes next is one of the set.                        *)
LEMMA ChosenIn == ASSUME NEW s, s # {} PROVE Chosen(s) \in s
  BY DEF Chosen

(* A solution at one subset.                                               *)
LEMMA SolutionAt ==
  ASSUME NEW f, NEW S, NEW g, SolvesSum(f, S, g), NEW s \in SUBSET S
  PROVE  g[s] = IF s = {} THEN 0 ELSE f[Chosen(s)] + g[s \ {Chosen(s)}]
  BY DEF SolvesSum

(* Two solutions agree where both are defined.                             *)
LEMMA SolutionsAgree ==
  ASSUME NEW f, NEW S, NEW T, NEW g, NEW h, SolvesSum(f, S, g), SolvesSum(f, T, h),
         NEW s, s \subseteq S, s \subseteq T, IsFiniteSet(s)
  PROVE  g[s] = h[s]
  <1> DEFINE C == {u \in SUBSET s : g[u] = h[u]}
  <1>1. ASSUME NEW u \in SUBSET s, \A v \in SUBSET u : v # u => v \in C
        PROVE  u \in C
    <2>1. g[u] = IF u = {} THEN 0 ELSE f[Chosen(u)] + g[u \ {Chosen(u)}]
      BY SolutionAt
    <2>2. h[u] = IF u = {} THEN 0 ELSE f[Chosen(u)] + h[u \ {Chosen(u)}]
      BY SolutionAt
    <2>3. CASE u = {}
      BY <2>1, <2>2, <2>3
    <2>4. CASE u # {}
      <3>1. Chosen(u) \in u
        BY <2>4, ChosenIn
      <3>2. u \ {Chosen(u)} \in C
        BY <1>1, <3>1
      <3>3. g[u \ {Chosen(u)}] = h[u \ {Chosen(u)}]
        BY <3>2
      <3> QED
        BY <2>1, <2>2, <2>4, <3>3
    <2> QED
      BY <2>3, <2>4
  <1>2. s \in C
    <2> HIDE DEF C
    <2> QED
      BY <1>1, FiniteInduction
  <1> QED
    BY <1>2

(* The totals of the subsets of a finite set solve the recursion.          *)
LEMMA SumsSolve ==
  ASSUME NEW f, NEW S, IsFiniteSet(S)
  PROVE  SolvesSum(f, S, [s \in SUBSET S |-> SumFunctionOnSet(f, s)])
  <1> DEFINE totals(T) == [s \in SUBSET T |-> SumFunctionOnSet(f, s)]
             C == {T \in SUBSET S : SolvesSum(f, T, totals(T))}
  <1>1. ASSUME NEW T \in SUBSET S, \A U \in SUBSET T : U # T => U \in C
        PROVE  T \in C
    <2> DEFINE step(s) == IF s = {} THEN 0 ELSE f[Chosen(s)] + SumFunctionOnSet(f, s \ {Chosen(s)})
               g == [s \in SUBSET T |-> IF s = T THEN step(T) ELSE SumFunctionOnSet(f, s)]
    <2>1. ASSUME NEW s \in SUBSET T, s # T PROVE SumFunctionOnSet(f, s) = step(s)
      <3>1. SolvesSum(f, s, totals(s))
        BY <1>1, <2>1
      <3>2. totals(s)[s] = IF s = {} THEN 0 ELSE f[Chosen(s)] + totals(s)[s \ {Chosen(s)}]
        BY <3>1, SolutionAt
      <3> QED
        BY <3>2
    <2>2. ASSUME NEW s \in SUBSET T
          PROVE  g[s] = IF s = {} THEN 0 ELSE f[Chosen(s)] + g[s \ {Chosen(s)}]
      <3>1. g[s] = step(s)
        BY <2>1
      <3>2. s # {} => s \ {Chosen(s)} \in SUBSET T /\ s \ {Chosen(s)} # T
        BY ChosenIn
      <3> QED
        BY <3>1, <3>2
    <2>3. SolvesSum(f, T, g)
      <3> DEFINE h == [s \in SUBSET T |-> IF s = {} THEN 0 ELSE f[Chosen(s)] + g[s \ {Chosen(s)}]]
      <3>1. \A s \in SUBSET T : g[s] = h[s]
        <4> HIDE DEF g
        <4> QED
          BY <2>2
      <3>2. g = h
        <4>1. DOMAIN g = SUBSET T /\ DOMAIN h = SUBSET T
          OBVIOUS
        <4>2. g = [s \in SUBSET T |-> g[s]] /\ h = [s \in SUBSET T |-> h[s]]
          OBVIOUS
        <4> HIDE DEF g, h
        <4> QED
          BY <3>1, <4>2
      <3> QED
        BY <3>2 DEF SolvesSum
    <2>4. SolvesSum(f, T, CHOOSE k : SolvesSum(f, T, k))
      BY <2>3
    <2>5. SumFunctionOnSet(f, T) = g[T]
      <3> HIDE DEF g
      <3>1. IsFiniteSet(T)
        BY FS_Subset
      <3>2. (CHOOSE k : SolvesSum(f, T, k))[T] = g[T]
        BY <2>3, <2>4, <3>1, SolutionsAgree
      <3> QED
        BY <3>2, SumIsSolution
    <2>6. \A s \in SUBSET T : g[s] = SumFunctionOnSet(f, s)
      BY <2>5
    <2>7. g = totals(T)
      BY <2>6
    <2>8. SolvesSum(f, T, totals(T))
      BY <2>3, <2>7
    <2> QED
      BY <2>8
  <1>2. S \in C
    <2> HIDE DEF C
    <2> QED
      BY <1>1, FiniteInduction
  <1> QED
    BY <1>2

(* The sum of nothing.                                                     *)
LEMMA SumEmpty == ASSUME NEW f PROVE SumFunctionOnSet(f, {}) = 0
  <1>1. SolvesSum(f, {}, [s \in SUBSET {} |-> SumFunctionOnSet(f, s)])
    BY SumsSolve, FS_EmptySet
  <1> QED
    BY <1>1, SolutionAt

(* A fold takes the chosen element off first.                              *)
LEMMA SumChosen ==
  ASSUME NEW f, NEW S, IsFiniteSet(S), S # {}
  PROVE  SumFunctionOnSet(f, S) = f[Chosen(S)] + SumFunctionOnSet(f, S \ {Chosen(S)})
  <1> DEFINE g == [s \in SUBSET S |-> SumFunctionOnSet(f, s)]
  <1>1. g[S] = f[Chosen(S)] + g[S \ {Chosen(S)}]
    <2>1. SolvesSum(f, S, g)
      BY SumsSolve
    <2> HIDE DEF g
    <2> QED
      BY <2>1, SolutionAt
  <1> QED
    BY <1>1

-----------------------------------------------------------------------------
(* Sums of natural numbers.                                                *)

(* Whatever element is taken off, the rest and it make the sum.            *)
LEMMA SumRemove ==
  ASSUME NEW f, NEW S, IsFiniteSet(S), \A x \in S : f[x] \in Nat
  PROVE  /\ SumFunctionOnSet(f, S) \in Nat
         /\ \A x \in S : SumFunctionOnSet(f, S) = f[x] + SumFunctionOnSet(f, S \ {x})
  <1> DEFINE sum(T) == SumFunctionOnSet(f, T)
             C == {T \in SUBSET S : /\ sum(T) \in Nat
                                    /\ \A x \in T : sum(T) = f[x] + sum(T \ {x})}
  <1>1. ASSUME NEW T \in SUBSET S, \A U \in SUBSET T : U # T => U \in C
        PROVE  T \in C
    <2>1. CASE T = {}
      BY <2>1, SumEmpty
    <2>2. CASE T # {}
      <3> DEFINE c == Chosen(T)
      <3>1. c \in T /\ IsFiniteSet(T)
        BY <2>2, ChosenIn, FS_Subset
      <3>2. sum(T) = f[c] + sum(T \ {c})
        BY <2>2, <3>1, SumChosen
      <3> HIDE DEF c
      <3>3. T \ {c} \in C /\ f[c] \in Nat
        BY <1>1, <3>1
      <3>4. ASSUME NEW x \in T, x # c PROVE sum(T) = f[x] + sum(T \ {x})
        <4>1. T \ {x} \in C /\ T \ {c, x} \in C
          BY <1>1, <3>1
        <4>2. sum(T \ {c}) = f[x] + sum((T \ {c}) \ {x})
          BY <3>3, <3>4
        <4>3. sum(T \ {x}) = f[c] + sum((T \ {x}) \ {c})
          BY <3>1, <3>4, <4>1
        <4>4. (T \ {c}) \ {x} = T \ {c, x} /\ (T \ {x}) \ {c} = T \ {c, x}
          OBVIOUS
        <4>5. sum(T \ {c, x}) \in Nat /\ f[x] \in Nat
          BY <4>1
        <4> HIDE DEF C, sum
        <4> QED
          BY <3>2, <3>3, <4>2, <4>3, <4>4, <4>5
      <3>5. sum(T) \in Nat
        BY <3>2, <3>3
      <3> QED
        BY <3>2, <3>4, <3>5
    <2> QED
      BY <2>1, <2>2
  <1>2. S \in C
    <2> HIDE DEF C
    <2> QED
      BY <1>1, FiniteInduction
  <1> QED
    BY <1>2

(* Functions that agree on the indices have the same sum.                  *)
LEMMA SumSame ==
  ASSUME NEW f, NEW g, NEW S, IsFiniteSet(S), \A x \in S : f[x] = g[x]
  PROVE  SumFunctionOnSet(f, S) = SumFunctionOnSet(g, S)
  <1> DEFINE C == {T \in SUBSET S : SumFunctionOnSet(f, T) = SumFunctionOnSet(g, T)}
  <1>1. ASSUME NEW T \in SUBSET S, \A U \in SUBSET T : U # T => U \in C
        PROVE  T \in C
    <2>1. CASE T = {}
      BY <2>1, SumEmpty
    <2>2. CASE T # {}
      <3>1. Chosen(T) \in T /\ IsFiniteSet(T)
        BY <2>2, ChosenIn, FS_Subset
      <3>2. /\ SumFunctionOnSet(f, T) = f[Chosen(T)] + SumFunctionOnSet(f, T \ {Chosen(T)})
            /\ SumFunctionOnSet(g, T) = g[Chosen(T)] + SumFunctionOnSet(g, T \ {Chosen(T)})
        BY <2>2, <3>1, SumChosen
      <3>3. T \ {Chosen(T)} \in C
        BY <1>1, <3>1
      <3> QED
        BY <3>1, <3>2, <3>3
    <2> QED
      BY <2>1, <2>2
  <1>2. S \in C
    <2> HIDE DEF C
    <2> QED
      BY <1>1, FiniteInduction
  <1> QED
    BY <1>2

(* More indices and larger values make no smaller sum.                     *)
LEMMA SumMonotonic ==
  ASSUME NEW f, NEW g, NEW S, NEW T, IsFiniteSet(T), S \subseteq T,
         \A x \in S : f[x] \in Nat /\ f[x] <= g[x],
         \A x \in T : g[x] \in Nat
  PROVE  SumFunctionOnSet(f, S) <= SumFunctionOnSet(g, T)
  <1> DEFINE C == {U \in SUBSET T : SumFunctionOnSet(f, S \intersect U) <= SumFunctionOnSet(g, U)}
  <1>1. ASSUME NEW U \in SUBSET T, \A V \in SUBSET U : V # U => V \in C
        PROVE  U \in C
    <2>1. CASE U = {}
      <3>1. S \intersect U = {}
        BY <2>1
      <3> QED
        BY <2>1, <3>1, SumEmpty
    <2>2. CASE U # {}
      <3>1. PICK x : x \in U
        BY <2>2
      <3>2. U \ {x} \in C
        BY <1>1, <3>1
      <3> DEFINE a == SumFunctionOnSet(f, S \intersect U)
                 b == SumFunctionOnSet(f, S \intersect (U \ {x}))
      <3>3. IsFiniteSet(U) /\ IsFiniteSet(S \intersect U) /\ IsFiniteSet(S \intersect (U \ {x}))
        BY FS_Subset
      <3>4. /\ SumFunctionOnSet(g, U) = g[x] + SumFunctionOnSet(g, U \ {x})
            /\ SumFunctionOnSet(g, U) \in Nat /\ g[x] \in Nat
        BY <3>1, <3>3, SumRemove
      <3>5. SumFunctionOnSet(g, U \ {x}) \in Nat
        BY <3>3, FS_Subset, SumRemove
      <3>6. a \in Nat /\ b \in Nat
        BY <3>3, SumRemove
      <3>7. IF x \in S THEN a = f[x] + b ELSE a = b
        <4>1. CASE x \in S
          <5>1. (S \intersect U) \ {x} = S \intersect (U \ {x}) /\ x \in S \intersect U
            BY <3>1, <4>1
          <5> QED
            BY <3>3, <4>1, <5>1, SumRemove
        <4>2. CASE x \notin S
          <5>1. S \intersect U = S \intersect (U \ {x})
            BY <4>2
          <5> QED
            BY <4>2, <5>1
        <4> QED
          BY <4>1, <4>2
      <3>8. b <= SumFunctionOnSet(g, U \ {x})
        BY <3>2
      <3>9. x \in S => f[x] \in Nat /\ f[x] <= g[x]
        OBVIOUS
      <3>10. a <= SumFunctionOnSet(g, U)
        <4> HIDE DEF a, b, C
        <4> QED
          BY <3>4, <3>5, <3>6, <3>7, <3>8, <3>9
      <3> QED
        BY <3>10
    <2> QED
      BY <2>1, <2>2
  <1>2. T \in C
    <2> HIDE DEF C
    <2> QED
      BY <1>1, FiniteInduction
  <1>3. S \intersect T = S
    OBVIOUS
  <1> QED
    BY <1>2, <1>3

(* A sum lies between as many of a lower and of an upper bound.            *)
LEMMA SumBounds ==
  ASSUME NEW f, NEW S, IsFiniteSet(S), NEW low \in Nat, NEW high \in Nat,
         \A x \in S : f[x] \in low..high
  PROVE  /\ low * Cardinality(S) <= SumFunctionOnSet(f, S)
         /\ SumFunctionOnSet(f, S) <= high * Cardinality(S)
  <1> DEFINE C == {T \in SUBSET S : /\ low * Cardinality(T) <= SumFunctionOnSet(f, T)
                                    /\ SumFunctionOnSet(f, T) <= high * Cardinality(T)}
  <1>1. ASSUME NEW T \in SUBSET S, \A U \in SUBSET T : U # T => U \in C
        PROVE  T \in C
    <2>1. CASE T = {}
      <3>1. SumFunctionOnSet(f, T) = 0 /\ Cardinality(T) = 0
        BY <2>1, SumEmpty, FS_EmptySet
      <3>2. low * 0 = 0 /\ high * 0 = 0
        OBVIOUS
      <3> QED
        BY <3>1, <3>2
    <2>2. CASE T # {}
      <3>1. PICK x : x \in T
        BY <2>2
      <3>2. T \ {x} \in C
        BY <1>1, <3>1
      <3> DEFINE n == Cardinality(T \ {x})
                 rest == SumFunctionOnSet(f, T \ {x})
      <3>3. /\ IsFiniteSet(T) /\ IsFiniteSet(T \ {x}) /\ n \in Nat
            /\ Cardinality(T) = n + 1
        BY <3>1, FS_Subset, FS_RemoveElement, FS_CardinalityType
      <3>4. SumFunctionOnSet(f, T) = f[x] + rest /\ rest \in Nat /\ f[x] \in low..high
        BY <3>1, <3>3, SumRemove
      <3>5. low * n <= rest /\ rest <= high * n
        BY <3>2
      <3>6. /\ low * (n + 1) = low * n + low /\ high * (n + 1) = high * n + high
            /\ low * n \in Nat /\ high * n \in Nat
        <4> HIDE DEF n, C
        <4> QED
          BY <3>3, TimesSuccessor
      <3>7. /\ low * Cardinality(T) <= SumFunctionOnSet(f, T)
            /\ SumFunctionOnSet(f, T) <= high * Cardinality(T)
        <4> HIDE DEF n, rest, C
        <4> QED
          BY <3>3, <3>4, <3>5, <3>6
      <3> QED
        BY <3>7
    <2> QED
      BY <2>1, <2>2
  <1>2. S \in C
    <2> HIDE DEF C
    <2> QED
      BY <1>1, FiniteInduction
  <1> QED
    BY <1>2
=============================================================================
