------------------------ MODULE TripGenerationProofs ------------------------
(***************************************************************************)
(* Theorems about TripGeneration: what a user enters or deletes survives   *)
(* the generations it falls between and into.                              *)
(***************************************************************************)
EXTENDS TripGeneration, ArithmeticFacts

-----------------------------------------------------------------------------
(***************************************************************************)
(* Folds: st[<< a, x >>] takes element x into a, and pick[s] is the        *)
(* element a fold takes into the result for the others of s.               *)
(***************************************************************************)

Follows(g, S, pick, st, base) ==
  g = [s \in SUBSET S |-> IF s = {} THEN base ELSE st[<< g[s \ {pick[s]}], pick[s] >>]]

Picks(pick, S) == \A s \in SUBSET S : s # {} => pick[s] \in s

(* A fold at one subset.                                                   *)
LEMMA FollowsAt ==
  ASSUME NEW g, NEW S, NEW pick, NEW st, NEW base, Follows(g, S, pick, st, base),
         NEW s \in SUBSET S
  PROVE  g[s] = IF s = {} THEN base ELSE st[<< g[s \ {pick[s]}], pick[s] >>]
  BY DEF Follows

(* Two folds agree where both are defined.                                 *)
LEMMA FollowsAgree ==
  ASSUME NEW g, NEW h, NEW S, NEW T, NEW pick, NEW st, NEW base,
         Follows(g, S, pick, st, base), Follows(h, T, pick, st, base),
         NEW s, s \subseteq S, s \subseteq T, IsFiniteSet(s), Picks(pick, S)
  PROVE  g[s] = h[s]
  <1> DEFINE C == {u \in SUBSET s : g[u] = h[u]}
  <1>1. ASSUME NEW u \in SUBSET s, \A v \in SUBSET u : v # u => v \in C
        PROVE  u \in C
    <2>1. g[u] = IF u = {} THEN base ELSE st[<< g[u \ {pick[u]}], pick[u] >>]
      BY FollowsAt
    <2>2. h[u] = IF u = {} THEN base ELSE st[<< h[u \ {pick[u]}], pick[u] >>]
      BY FollowsAt
    <2>3. CASE u = {}
      BY <2>1, <2>2, <2>3
    <2>4. CASE u # {}
      <3>1. pick[u] \in u
        BY <2>4 DEF Picks
      <3>2. u \ {pick[u]} \in C
        BY <1>1, <3>1
      <3>3. g[u \ {pick[u]}] = h[u \ {pick[u]}]
        BY <3>2
      <3> QED
        BY <2>1, <2>2, <2>4, <3>3
    <2> QED
      BY <2>3, <2>4
  <1>2. s \in C
    <2> HIDE DEF C
    <2> QED
      BY <1>1, FiniteInduction
  <1> QED
    BY <1>2

(* Every fold over a finite set has a result.                              *)
LEMMA FoldExists ==
  ASSUME NEW S, IsFiniteSet(S), NEW pick, NEW st, NEW base, Picks(pick, S)
  PROVE  \E g : Follows(g, S, pick, st, base)
  <1> DEFINE fold(T) == CHOOSE g : Follows(g, T, pick, st, base)
             C == {T \in SUBSET S : Follows(fold(T), T, pick, st, base)}
  <1>1. ASSUME NEW T \in SUBSET S, \A U \in SUBSET T : U # T => U \in C
        PROVE  T \in C
    <2> DEFINE step(s) == IF s = {} THEN base
                          ELSE st[<< fold(s \ {pick[s]})[s \ {pick[s]}], pick[s] >>]
               g == [s \in SUBSET T |-> IF s = T THEN step(T) ELSE fold(s)[s]]
    <2>1. ASSUME NEW s \in SUBSET T, s # T PROVE fold(s)[s] = step(s)
      <3>1. Follows(fold(s), s, pick, st, base) /\ IsFiniteSet(s)
        BY <1>1, <2>1, FS_Subset
      <3>2. fold(s)[s] = IF s = {} THEN base ELSE st[<< fold(s)[s \ {pick[s]}], pick[s] >>]
        <4> HIDE DEF fold
        <4> QED
          BY <3>1, FollowsAt
      <3>3. CASE s = {}
        BY <3>2, <3>3
      <3>4. CASE s # {}
        <4> DEFINE r == s \ {pick[s]}
        <4>1. r \in SUBSET T /\ r # T /\ r \subseteq s
          BY <2>1
        <4>2. Follows(fold(r), r, pick, st, base) /\ IsFiniteSet(r)
          BY <1>1, <4>1, FS_Subset
        <4>3. Picks(pick, s)
          BY DEF Picks
        <4>4. fold(s)[r] = fold(r)[r]
          <5> HIDE DEF fold, r
          <5> QED
            BY <3>1, <4>1, <4>2, <4>3, FollowsAgree
        <4> QED
          BY <3>2, <3>4, <4>4
      <3> QED
        BY <3>3, <3>4
    <2>2. ASSUME NEW s \in SUBSET T
          PROVE  g[s] = IF s = {} THEN base ELSE st[<< g[s \ {pick[s]}], pick[s] >>]
      <3>1. g[s] = step(s)
        <4> HIDE DEF fold
        <4> QED
          BY <2>1
      <3>2. s # {} => s \ {pick[s]} \in SUBSET T /\ s \ {pick[s]} # T
        BY DEF Picks
      <3> HIDE DEF fold
      <3> QED
        BY <3>1, <3>2
    <2>3. Follows(g, T, pick, st, base)
      <3> DEFINE h == [s \in SUBSET T |->
                         IF s = {} THEN base ELSE st[<< g[s \ {pick[s]}], pick[s] >>]]
      <3>1. \A s \in SUBSET T : g[s] = h[s]
        <4> HIDE DEF g
        <4> QED
          BY <2>2
      <3> HIDE DEF fold
      <3>2. g = [s \in SUBSET T |-> g[s]] /\ h = [s \in SUBSET T |-> h[s]]
        OBVIOUS
      <3>3. g = h
        <4> HIDE DEF g, h
        <4> QED
          BY <3>1, <3>2
      <3> QED
        BY <3>3 DEF Follows
    <2> HIDE DEF g
    <2>4. Follows(fold(T), T, pick, st, base)
      BY <2>3
    <2> QED
      BY <2>4
  <1>2. S \in C
    <2> HIDE DEF C
    <2> QED
      BY <1>1, FiniteInduction
  <1> QED
    BY <1>2

(* A fold stays in a set that holds its base and that st does not leave.   *)
LEMMA FoldStays ==
  ASSUME NEW g, NEW S, IsFiniteSet(S), NEW pick, NEW st, NEW base, Picks(pick, S),
         Follows(g, S, pick, st, base), NEW A, base \in A,
         \A a \in A : \A x \in S : st[<< a, x >>] \in A
  PROVE  \A s \in SUBSET S : g[s] \in A
  <1> SUFFICES ASSUME NEW t \in SUBSET S PROVE g[t] \in A
    OBVIOUS
  <1> DEFINE C == {s \in SUBSET t : g[s] \in A}
  <1>1. ASSUME NEW s \in SUBSET t, \A u \in SUBSET s : u # s => u \in C
        PROVE  s \in C
    <2>1. g[s] = IF s = {} THEN base ELSE st[<< g[s \ {pick[s]}], pick[s] >>]
      BY FollowsAt
    <2>2. CASE s # {}
      <3>1. pick[s] \in s
        BY <2>2 DEF Picks
      <3>2. g[s \ {pick[s]}] \in A
        BY <1>1, <3>1
      <3> QED
        BY <2>1, <2>2, <3>1, <3>2
    <2> QED
      BY <2>1, <2>2
  <1>2. IsFiniteSet(t)
    BY FS_Subset
  <1>3. t \in C
    <2> HIDE DEF C
    <2> QED
      BY <1>1, <1>2, FiniteInduction
  <1> QED
    BY <1>3

(* Of finitely many numbers one is the greatest.                           *)
LEMMA MaxIn ==
  ASSUME NEW S \in SUBSET Int, IsFiniteSet(S), S # {}
  PROVE  Max(S) \in S /\ \A x \in S : x <= Max(S)
  <1> DEFINE C == {T \in SUBSET S : T # {} => \E h \in T : \A x \in T : h >= x}
  <1>1. ASSUME NEW T \in SUBSET S, \A U \in SUBSET T : U # T => U \in C
        PROVE  T \in C
    <2> SUFFICES ASSUME NEW y \in T PROVE \E h \in T : \A x \in T : h >= x
      OBVIOUS
    <2>1. CASE T = {y}
      BY <2>1
    <2>2. CASE T # {y}
      <3>1. T \ {y} \in C /\ T \ {y} # {}
        BY <1>1, <2>2
      <3>2. PICK h \in T \ {y} : \A x \in T \ {y} : h >= x
        BY <3>1
      <3> QED
        BY <3>2
    <2> QED
      BY <2>1, <2>2
  <1>2. S \in C
    <2> HIDE DEF C
    <2> QED
      BY <1>1, FiniteInduction
  <1> QED
    BY <1>2 DEF Max

(* The values of a function on a finite set are finitely many.             *)
LEMMA FiniteValues ==
  ASSUME NEW S, IsFiniteSet(S), NEW f
  PROVE  IsFiniteSet({f[x] : x \in S})
  <1> DEFINE T == {f[x] : x \in S}
             g == [x \in S |-> f[x]]
  <1>1. g \in Surjection(S, T)
    BY DEF Surjection
  <1> QED
    BY <1>1, FS_Surjection

-----------------------------------------------------------------------------
(***************************************************************************)
(* Sorting: the elements of a finite set S by a strict order R, a set of   *)
(* pairs; the i-th element is one with i - 1 elements below it.            *)
(***************************************************************************)

Below(S, R, x) == {y \in S : << y, x >> \in R}

StrictOrder(R, S) ==
  /\ \A x \in S : << x, x >> \notin R
  /\ \A x, y \in S : x # y => << x, y >> \in R \/ << y, x >> \in R
  /\ \A x, y, z \in S : << x, y >> \in R /\ << y, z >> \in R => << x, z >> \in R

SortedBy(s, S, R) ==
  /\ s \in Seq(S) /\ Len(s) \in Nat /\ Len(s) = Cardinality(S)
  /\ DOMAIN s = 1..Len(s) /\ IsFiniteSet(DOMAIN s)
  /\ \A i \in DOMAIN s : s[i] \in S
  /\ \A x \in S : \E i \in DOMAIN s : s[i] = x
  /\ \A i, j \in DOMAIN s : << s[i], s[j] >> \in R <=> i < j

(* One element is above the others.                                        *)
LEMMA GreatestElement ==
  ASSUME NEW S, IsFiniteSet(S), S # {}, NEW R, StrictOrder(R, S)
  PROVE  \E m \in S : \A x \in S : x # m => << x, m >> \in R
  <1> DEFINE C == {T \in SUBSET S :
                     T # {} => \E m \in T : \A x \in T : x # m => << x, m >> \in R}
  <1>1. ASSUME NEW T \in SUBSET S, \A U \in SUBSET T : U # T => U \in C
        PROVE  T \in C
    <2> SUFFICES ASSUME NEW y \in T
                 PROVE  \E m \in T : \A x \in T : x # m => << x, m >> \in R
      OBVIOUS
    <2>1. CASE T = {y}
      BY <2>1
    <2>2. CASE T # {y}
      <3>1. T \ {y} \in C /\ T \ {y} # {}
        BY <1>1, <2>2
      <3>2. PICK m \in T \ {y} : \A x \in T \ {y} : x # m => << x, m >> \in R
        BY <3>1
      <3>3. CASE << y, m >> \in R
        BY <3>2, <3>3
      <3>4. CASE << m, y >> \in R
        <4>1. \A x \in T : x # y => << x, y >> \in R
          BY <3>2, <3>4 DEF StrictOrder
        <4> QED
          BY <4>1
      <3> QED
        BY <3>2, <3>3, <3>4 DEF StrictOrder
    <2> QED
      BY <2>1, <2>2
  <1>2. S \in C
    <2> HIDE DEF C
    <2> QED
      BY <1>1, FiniteInduction
  <1> QED
    BY <1>2

(* Every number of elements below is that of an element.                   *)
LEMMA RankExists ==
  ASSUME NEW S, IsFiniteSet(S), NEW R, StrictOrder(R, S)
  PROVE  \A i \in 1..Cardinality(S) : \E x \in S : Cardinality(Below(S, R, x)) = i - 1
  <1> DEFINE C == {T \in SUBSET S : \A i \in 1..Cardinality(T) :
                                      \E x \in T : Cardinality(Below(T, R, x)) = i - 1}
  <1>1. ASSUME NEW T \in SUBSET S, \A U \in SUBSET T : U # T => U \in C
        PROVE  T \in C
    <2> SUFFICES ASSUME NEW i \in 1..Cardinality(T)
                 PROVE  \E x \in T : Cardinality(Below(T, R, x)) = i - 1
      OBVIOUS
    <2>1. IsFiniteSet(T) /\ Cardinality(T) \in Nat
      BY FS_Subset, FS_CardinalityType
    <2>2. T # {}
      BY <2>1, FS_EmptySet
    <2>3. StrictOrder(R, T)
      BY DEF StrictOrder
    <2>4. PICK m \in T : \A x \in T : x # m => << x, m >> \in R
      BY <2>1, <2>2, <2>3, GreatestElement
    <2> DEFINE U == T \ {m}
    <2>5. Cardinality(U) = Cardinality(T) - 1
      BY <2>1, FS_RemoveElement
    <2>6. Below(T, R, m) = U
      BY <2>3, <2>4 DEF Below, StrictOrder
    <2>7. CASE i = Cardinality(T)
      BY <2>5, <2>6, <2>7
    <2>8. CASE i # Cardinality(T)
      <3>1. i \in 1..Cardinality(U)
        BY <2>1, <2>5, <2>8
      <3>2. U \in C
        BY <1>1
      <3>3. PICK x \in U : Cardinality(Below(U, R, x)) = i - 1
        BY <3>1, <3>2
      <3>4. << m, x >> \notin R
        BY <2>3, <2>4, <3>3 DEF StrictOrder
      <3>5. Below(T, R, x) = Below(U, R, x)
        BY <3>4 DEF Below
      <3> QED
        BY <3>3, <3>5
    <2> QED
      BY <2>7, <2>8
  <1>2. S \in C
    <2> HIDE DEF C
    <2> QED
      BY <1>1, FiniteInduction
  <1> QED
    BY <1>2

(* More elements are below a greater element, and fewer than there are.    *)
LEMMA RankOrder ==
  ASSUME NEW S, IsFiniteSet(S), NEW R, StrictOrder(R, S), NEW x \in S
  PROVE  /\ Cardinality(Below(S, R, x)) \in 0..(Cardinality(S) - 1)
         /\ \A y \in S : << x, y >> \in R =>
              Cardinality(Below(S, R, x)) < Cardinality(Below(S, R, y))
  <1>1. /\ Cardinality(S) \in Nat
        /\ \A y \in S : IsFiniteSet(Below(S, R, y)) /\ Cardinality(Below(S, R, y)) \in Nat
    BY FS_Subset, FS_CardinalityType DEF Below
  <1>2. x \notin Below(S, R, x) /\ Below(S, R, x) \subseteq S
    BY DEF Below, StrictOrder
  <1>3. Cardinality(Below(S, R, x)) < Cardinality(S)
    BY <1>1, <1>2, FS_Subset
  <1>4. ASSUME NEW y \in S, << x, y >> \in R
        PROVE  Cardinality(Below(S, R, x)) < Cardinality(Below(S, R, y))
    <2>1. Below(S, R, x) \subseteq Below(S, R, y) /\ x \in Below(S, R, y)
      BY <1>4 DEF Below, StrictOrder
    <2> QED
      BY <1>1, <1>2, <2>1, FS_Subset
  <1> QED
    BY <1>1, <1>3, <1>4

(* A sorted set is a sequence of its elements, each once and in order.     *)
LEMMA SortedIs ==
  ASSUME NEW S, IsFiniteSet(S), NEW R, StrictOrder(R, S),
         NEW s \in [1..Cardinality(S) -> S],
         \A i \in 1..Cardinality(S) : Cardinality(Below(S, R, s[i])) = i - 1
  PROVE  SortedBy(s, S, R)
  <1> DEFINE n == Cardinality(S)
             rank(x) == Cardinality(Below(S, R, x))
  <1>1. n \in Nat
    BY FS_CardinalityType
  <1>2. \A i \in 1..n : s[i] \in S /\ rank(s[i]) = i - 1
    OBVIOUS
  <1>3. DOMAIN s = 1..n /\ s \in [1..n -> S]
    OBVIOUS
  <1>4. \A x, y \in S : x # y => rank(x) < rank(y) \/ rank(y) < rank(x)
    BY RankOrder DEF StrictOrder
  <1>5. \A x \in S : rank(x) \in 0..(n - 1)
    BY RankOrder
  <1>6. ASSUME NEW i \in 1..n, NEW j \in 1..n, << s[i], s[j] >> \in R
        PROVE  i < j
    <2>1. /\ s[i] \in S /\ s[j] \in S /\ rank(s[i]) = i - 1 /\ rank(s[j]) = j - 1
      BY <1>2
    <2>2. rank(s[i]) < rank(s[j])
      BY <1>6, <2>1, RankOrder
    <2> HIDE DEF rank, n
    <2> QED
      BY <2>1, <2>2
  <1> HIDE DEF rank, n
  <1>7. s \in Seq(S) /\ Len(s) = n
    <2>1. s \in Seq(S)
      BY <1>1, <1>3
    <2> QED
      BY <1>1, <1>3, <2>1
  <1>8. ASSUME NEW x \in S PROVE \E i \in 1..n : s[i] = x
    <2>1. rank(x) + 1 \in 1..n
      BY <1>1, <1>5
    <2>2. s[rank(x) + 1] \in S /\ rank(s[rank(x) + 1]) = rank(x)
      BY <1>2, <1>5, <2>1
    <2> QED
      BY <1>4, <1>5, <2>1, <2>2
  <1>9. ASSUME NEW i \in 1..n, NEW j \in 1..n PROVE << s[i], s[j] >> \in R <=> i < j
    <2>1. /\ s[i] \in S /\ s[j] \in S /\ rank(s[i]) = i - 1 /\ rank(s[j]) = j - 1
      BY <1>2
    <2>2. << s[j], s[i] >> \in R => j < i
      BY <1>6
    <2>3. i < j => s[i] # s[j]
      BY <1>1, <2>1
    <2> QED
      BY <1>6, <2>1, <2>2, <2>3 DEF StrictOrder
  <1>10. IsFiniteSet(1..n)
    BY <1>1, FS_Interval
  <1> QED
    BY <1>1, <1>2, <1>3, <1>7, <1>8, <1>9, <1>10 DEF n, SortedBy

-----------------------------------------------------------------------------
(***************************************************************************)
(* The folds of the model take the elements of a sequence by their index,  *)
(* the greatest last.  What holds of the base and survives a step holds of *)
(* the result.                                                             *)
(***************************************************************************)

ByIndex(g, D, st, base) ==
  g = [s \in SUBSET D |-> IF s = {} THEN base ELSE st[<< g[s \ {Max(s)}], Max(s) >>]]

(* Such a fold has a result for every set of indices, and stays in A.      *)
LEMMA FoldTotal ==
  ASSUME NEW D \in SUBSET Int, IsFiniteSet(D), NEW A, NEW base \in A, NEW st,
         \A a \in A : \A x \in D : st[<< a, x >>] \in A
  PROVE  \E g : ByIndex(g, D, st, base) /\ \A s \in SUBSET D : g[s] \in A
  <1> DEFINE pick == [s \in SUBSET D |-> Max(s)]
  <1>1. \A s \in SUBSET D : s # {} => Max(s) \in s
    BY FS_Subset, MaxIn
  <1>2. Picks(pick, D)
    BY <1>1 DEF Picks
  <1>3. PICK g : Follows(g, D, pick, st, base)
    <2> HIDE DEF pick
    <2> QED
      BY <1>2, FoldExists
  <1>4. \A s \in SUBSET D : g[s] \in A
    <2> HIDE DEF pick
    <2> QED
      BY <1>2, <1>3, FoldStays
  <1>5. ByIndex(g, D, st, base)
    BY <1>3 DEF Follows, ByIndex
  <1> QED
    BY <1>4, <1>5

(* Induction on the greatest index.                                        *)
LEMMA IndexInduction ==
  ASSUME NEW D \in SUBSET Int, IsFiniteSet(D), NEW C, {} \in C,
         \A s \in SUBSET D : s # {} /\ s \ {Max(s)} \in C => s \in C
  PROVE  \A s \in SUBSET D : s \in C
  <1> SUFFICES ASSUME NEW t \in SUBSET D PROVE t \in C
    OBVIOUS
  <1> DEFINE E == {s \in SUBSET t : s \in C}
  <1>1. ASSUME NEW s \in SUBSET t, \A u \in SUBSET s : u # s => u \in E
        PROVE  s \in E
    <2>1. CASE s # {}
      <3>1. Max(s) \in s
        BY <2>1, FS_Subset, MaxIn
      <3>2. s \ {Max(s)} \in SUBSET s /\ s \ {Max(s)} # s
        BY <3>1
      <3>3. s \ {Max(s)} \in C /\ s \in SUBSET D
        BY <1>1, <3>2
      <3> QED
        BY <2>1, <3>3
    <2> QED
      BY <2>1
  <1>2. IsFiniteSet(t)
    BY FS_Subset
  <1>3. t \in E
    <2> HIDE DEF E
    <2> QED
      BY <1>1, <1>2, FiniteInduction
  <1> QED
    BY <1>3

(* The trips a generation writes: one trip found after the other.          *)
GenerationSteps(g, d, table, fs) ==
  g = [s \in SUBSET DOMAIN fs |->
         IF s = {} THEN [table |-> table, bury |-> {}]
         ELSE AddOrUpdate(g[s \ {Max(s)}], fs[Max(s)], d)]

(* A generation's result is that of its steps.                             *)
LEMMA GeneratedFold ==
  ASSUME NEW d, NEW rows, NEW table, NEW asof
  PROVE  LET fs == TripsFound(d, rows, asof)
         IN  Generated(d, rows, table, asof) =
               (CHOOSE g : GenerationSteps(g, d, table, fs))[DOMAIN fs]
  BY DEF Generated, FoldLeft, MapThenFoldSet, GenerationSteps

(* What holds before the first trip found and survives each holds of the   *)
(* result.                                                                 *)
LEMMA GeneratedIn ==
  ASSUME NEW d, NEW rows, NEW table, NEW asof, NEW A,
         DOMAIN TripsFound(d, rows, asof) \in SUBSET Int,
         IsFiniteSet(DOMAIN TripsFound(d, rows, asof)),
         [table |-> table, bury |-> {}] \in A,
         \A out \in A : \A i \in DOMAIN TripsFound(d, rows, asof) :
           AddOrUpdate(out, TripsFound(d, rows, asof)[i], d) \in A
  PROVE  Generated(d, rows, table, asof) \in A
  <1> DEFINE fs == TripsFound(d, rows, asof)
             D == DOMAIN fs
             base == [table |-> table, bury |-> {}]
             st == [ax \in A \X D |-> AddOrUpdate(ax[1], fs[ax[2]], d)]
  <1>1. \A a \in A : \A x \in D : st[<< a, x >>] = AddOrUpdate(a, fs[x], d)
    OBVIOUS
  <1> HIDE DEF st, base
  <1>2. PICK g : ByIndex(g, D, st, base) /\ \A s \in SUBSET D : g[s] \in A
    <2>1. \A a \in A : \A x \in D : st[<< a, x >>] \in A
      BY <1>1
    <2>2. base \in A /\ D \in SUBSET Int /\ IsFiniteSet(D)
      BY DEF base
    <2> HIDE DEF D
    <2> QED
      BY <2>1, <2>2, FoldTotal
  <1>3. \A s \in SUBSET D : s # {} => Max(s) \in s
    BY FS_Subset, MaxIn
  <1>4. GenerationSteps(g, d, table, fs)
    <2> DEFINE h == [s \in SUBSET D |->
                       IF s = {} THEN base ELSE AddOrUpdate(g[s \ {Max(s)}], fs[Max(s)], d)]
    <2>1. \A s \in SUBSET D : g[s] = h[s]
      <3> SUFFICES ASSUME NEW s \in SUBSET D PROVE g[s] = h[s]
        OBVIOUS
      <3>1. CASE s = {}
        BY <1>2, <3>1 DEF ByIndex
      <3>2. CASE s # {}
        <4>1. g[s] = st[<< g[s \ {Max(s)}], Max(s) >>]
          BY <1>2, <3>2 DEF ByIndex
        <4>2. g[s \ {Max(s)}] \in A /\ Max(s) \in D
          BY <1>2, <1>3, <3>2
        <4> QED
          BY <1>1, <3>2, <4>1, <4>2
      <3> QED
        BY <3>1, <3>2
    <2>2. g = [s \in SUBSET D |-> g[s]] /\ h = [s \in SUBSET D |-> h[s]]
      BY <1>2 DEF ByIndex
    <2>3. g = h
      <3> HIDE DEF h
      <3> QED
        BY <2>1, <2>2
    <2> QED
      BY <2>3 DEF GenerationSteps, base
  <1> DEFINE k == CHOOSE x : GenerationSteps(x, d, table, fs)
  <1>5. GenerationSteps(k, d, table, fs)
    BY <1>4
  <1> HIDE DEF k
  <1>6. \A s \in SUBSET D :
          k[s] = IF s = {} THEN base ELSE AddOrUpdate(k[s \ {Max(s)}], fs[Max(s)], d)
    BY <1>5 DEF GenerationSteps, base
  <1> DEFINE C == {s \in SUBSET D : k[s] \in A}
  <1>7. \A s \in SUBSET D : s \in C
    <2>1. {} \in C
      BY <1>6 DEF base
    <2>2. ASSUME NEW s \in SUBSET D, s # {}, s \ {Max(s)} \in C
          PROVE  s \in C
      <3>1. k[s] = AddOrUpdate(k[s \ {Max(s)}], fs[Max(s)], d)
        BY <1>6, <2>2
      <3>2. k[s \ {Max(s)}] \in A /\ Max(s) \in D
        BY <1>3, <2>2
      <3> HIDE DEF fs
      <3> QED
        BY <3>1, <3>2 DEF fs
    <2>3. D \in SUBSET Int /\ IsFiniteSet(D)
      OBVIOUS
    <2> HIDE DEF C, D
    <2> QED
      BY <2>1, <2>2, <2>3, IndexInduction
  <1>8. k[D] \in A
    BY <1>7
  <1> QED
    BY <1>8, GeneratedFold DEF k

-----------------------------------------------------------------------------
(***************************************************************************)
(* The walk over the transitions of a day.                                 *)
(***************************************************************************)

(* Rows are sorted by their time.                                          *)
LEMMA OrderedIs ==
  ASSUME NEW S \in SUBSET Events, IsFiniteSet(S)
  PROVE  LET s == Ordered(S)
         IN  /\ s \in Seq(S) /\ Len(s) \in Nat
             /\ DOMAIN s = 1..Len(s) /\ IsFiniteSet(DOMAIN s)
             /\ \A i \in DOMAIN s : s[i] \in S
             /\ \A i, j \in DOMAIN s : s[i].at < s[j].at <=> i < j
  <1> DEFINE R == {p \in S \X S : p[1].at < p[2].at}
             s == Ordered(S)
             n == Cardinality(S)
  <1>1. \A x \in S : x.at \in Nat
    BY EventsAssumption DEF EventType
  <1>2. \A x, y \in S : << x, y >> \in R <=> x.at < y.at
    OBVIOUS
  <1>3. \A x, y \in S : x.at = y.at => x = y
    BY EventsAssumption
  <1>4. \A x \in S : Below(S, R, x) = {y \in S : y.at < x.at}
    BY <1>2 DEF Below
  <1> HIDE DEF R
  <1>5. StrictOrder(R, S)
    BY <1>1, <1>2, <1>3 DEF StrictOrder
  <1>6. \A i \in 1..n : \E x \in S : Cardinality({y \in S : y.at < x.at}) = i - 1
    <2>1. \A i \in 1..n : \E x \in S : Cardinality(Below(S, R, x)) = i - 1
      BY <1>5, RankExists
    <2> QED
      BY <1>4, <2>1, Zenon
  <1>7. \A i \in 1..n : s[i] \in S /\ Cardinality({y \in S : y.at < s[i].at}) = i - 1
    <2> SUFFICES ASSUME NEW i \in 1..n
                 PROVE  s[i] \in S /\ Cardinality({y \in S : y.at < s[i].at}) = i - 1
      OBVIOUS
    <2>1. s[i] = CHOOSE x \in S : Cardinality({y \in S : y.at < x.at}) = i - 1
      BY DEF Ordered
    <2> QED
      BY <1>6, <2>1
  <1>8. s \in [1..n -> S]
    BY <1>7 DEF Ordered
  <1> HIDE DEF s
  <1>10. \A i \in 1..n : s[i] \in S /\ Cardinality(Below(S, R, s[i])) = i - 1
    BY <1>4, <1>7
  <1>9. SortedBy(s, S, R)
    BY <1>5, <1>8, <1>10, SortedIs
  <1> QED
    BY <1>2, <1>9 DEF s, SortedBy

Moves == {x \in Events : x.kind \in {"leave", "enter"}}
Times == {e.at : e \in Events}

(* A transition names a waypoint.                                          *)
LEMMA MoveType ==
  ASSUME NEW x \in Moves
  PROVE  /\ x \in Events /\ x.at \in Nat /\ x.at \in Times /\ x.site \in Sites
         /\ x.odometer \in Nat /\ x.kind \in {"leave", "enter"}
  <1>1. x \in Events /\ x \in EventType /\ x.kind # "location"
    BY EventsAssumption DEF Moves
  <1>2. x.site # NoSite
    BY <1>1, EventsAssumption
  <1> QED
    BY <1>1, <1>2 DEF Moves, EventType, Times

(* A path's length is a number of miles.                                   *)
LEMMA PathMilesType ==
  ASSUME NEW rows \in SUBSET Events, IsFiniteSet(rows), NEW from, NEW to
  PROVE  PathMiles(rows, from, to) \in Nat \union {NoPath}
  <1> DEFINE S == {x \in rows : from <= x.at /\ x.at <= to}
             path == Ordered(S)
             n == Len(path) - 1
             f == [i \in 1..n |-> Segment(path[i], path[i + 1])]
  <1>1. /\ Len(path) \in Nat /\ DOMAIN path = 1..Len(path)
        /\ \A i \in DOMAIN path : path[i] \in Events
    <2>1. S \in SUBSET Events /\ IsFiniteSet(S)
      BY FS_Subset
    <2> HIDE DEF S
    <2> QED
      BY <2>1, OrderedIs
  <1> HIDE DEF path
  <1>2. \A x, y \in Events : Segment(x, y) \in Nat
    BY EventsAssumption DEF EventType, Segment, Gap
  <1>3. \A i \in 1..n : f[i] \in Nat
    BY <1>1, <1>2
  <1>4. IsFiniteSet(1..n)
    BY <1>1, FS_Interval
  <1> HIDE DEF f
  <1>5. SumFunctionOnSet(f, 1..n) \in Nat
    BY <1>3, <1>4, SumRemove
  <1> QED
    BY <1>5 DEF PathMiles, path, f

(* The transitions of a day are rows that leave or enter a waypoint.       *)
LEMMA DayTransitionsAre ==
  ASSUME NEW d, NEW rows \in SUBSET Events, IsFiniteSet(rows), NEW asof
  PROVE  LET s == DayTransitions(d, rows, asof)
         IN  /\ DOMAIN s = 1..Len(s) /\ Len(s) \in Nat /\ IsFiniteSet(DOMAIN s)
             /\ \A i \in DOMAIN s : s[i] \in Moves
             /\ \A i, j \in DOMAIN s : s[i].at < s[j].at <=> i < j
  <1> DEFINE s == DayTransitions(d, rows, asof)
             all == ConfirmedTransitions(Loaded(d, rows), asof)
  <1>1. PICK S \in SUBSET all : s = Ordered(S)
    BY DEF DayTransitions
  <1>2. all \subseteq rows /\ all \subseteq Moves
    BY DEF ConfirmedTransitions, Loaded, Moves
  <1>3. S \in SUBSET Events /\ IsFiniteSet(S) /\ S \subseteq Moves
    BY <1>1, <1>2, FS_Subset
  <1> HIDE DEF s, all
  <1> QED
    BY <1>1, <1>3, OrderedIs DEF s

TripFoundType(rows) ==
  {f \in [ origin : Sites, dest : Sites, start : Times, end : Times, left : SUBSET Nat,
           arrived : Nat, path : Nat \union {NoPath} ] :
     f.origin = f.dest => f.path = PathMiles(rows, f.start, f.end)}

WalkType(rows) ==
  [ leave : SUBSET Moves, arrival : SUBSET Moves, ignored : SUBSET Sites,
    found : Seq(TripFoundType(rows)) ]

WalkStep(walk, x, rows) ==
  IF x.kind = "leave" THEN WalkLeave(walk, x) ELSE WalkEnter(walk, x, rows)

WalkSteps(g, seq, rows) ==
  g = [s \in SUBSET DOMAIN seq |->
         IF s = {} THEN WalkStart ELSE WalkStep(g[s \ {Max(s)}], seq[Max(s)], rows)]

(* What the walk finds at a transition, if anything, is a trip, and it     *)
(* comes back to its origin only from a leave.                             *)
LEMMA TripToType ==
  ASSUME NEW rows \in SUBSET Events, IsFiniteSet(rows),
         NEW walk \in WalkType(rows), NEW x \in Moves
  PROVE  TripTo(walk, x, rows) \in Seq(TripFoundType(rows))
  <1>1. ASSUME NEW from \in Sites, NEW start \in Times, NEW stamps \in SUBSET Nat,
               NEW miles \in Nat \union {NoPath},
               from = x.site => miles = PathMiles(rows, start, x.at)
        PROVE  Found(from, x, start, stamps, miles) \in Seq(TripFoundType(rows))
    <2> DEFINE f == [ origin |-> from, dest |-> x.site, start |-> start, end |-> x.at,
                      left |-> stamps, arrived |-> x.odometer, path |-> miles ]
    <2>1. f \in TripFoundType(rows)
      BY <1>1, MoveType DEF TripFoundType
    <2> HIDE DEF f
    <2>2. << f >> \in Seq(TripFoundType(rows))
      BY <2>1
    <2> QED
      BY <2>2 DEF Found, f
  <1>2. << >> \in Seq(TripFoundType(rows))
    OBVIOUS
  <1>3. walk.leave \subseteq Moves /\ walk.arrival \subseteq Moves
    BY DEF WalkType
  <1>4. CASE walk.leave # {}
    <2> DEFINE y == CHOOSE y \in walk.leave : TRUE
    <2>1. y \in Moves
      BY <1>3, <1>4
    <2> HIDE DEF y
    <2>2. /\ y.site \in Sites /\ y.at \in Times /\ {y.odometer} \in SUBSET Nat
          /\ PathMiles(rows, y.at, x.at) \in Nat \union {NoPath}
      BY <2>1, MoveType, PathMilesType
    <2>3. Found(y.site, x, y.at, {y.odometer}, PathMiles(rows, y.at, x.at))
            \in Seq(TripFoundType(rows))
      BY <1>1, <2>2
    <2> QED
      BY <1>4, <2>3 DEF TripTo, y
  <1>5. CASE walk.leave = {} /\ walk.arrival # {}
    <2> DEFINE y == CHOOSE y \in walk.arrival : TRUE
    <2>1. y \in Moves
      BY <1>3, <1>5
    <2> HIDE DEF y
    <2>2. y.site \in Sites /\ x.at \in Times /\ {y.odometer} \in SUBSET Nat
      BY <2>1, MoveType
    <2>3. y.site # x.site =>
            Found(y.site, x, x.at, {y.odometer}, NoPath) \in Seq(TripFoundType(rows))
      BY <1>1, <2>2
    <2> QED
      BY <1>2, <1>5, <2>3 DEF TripTo, y
  <1>6. CASE walk.leave = {} /\ walk.arrival = {}
    <2>1. x.site # Home => Found(Home, x, x.at, {}, NoPath) \in Seq(TripFoundType(rows))
      BY <1>1, MoveType, SitesAssumption
    <2> QED
      BY <1>2, <1>6, <2>1 DEF TripTo
  <1> QED
    BY <1>4, <1>5, <1>6

(* A step of the walk keeps its types.                                     *)
LEMMA WalkStepType ==
  ASSUME NEW rows \in SUBSET Events, IsFiniteSet(rows),
         NEW walk \in WalkType(rows), NEW x \in Moves
  PROVE  WalkStep(walk, x, rows) \in WalkType(rows)
  <1>1. x.site \in Sites
    BY MoveType
  <1>2. WalkLeave(walk, x) \in WalkType(rows)
    BY <1>1 DEF WalkLeave, WalkType
  <1>3. walk.found \o TripTo(walk, x, rows) \in Seq(TripFoundType(rows))
    <2>1. walk.found \in Seq(TripFoundType(rows))
      BY DEF WalkType
    <2> QED
      BY <2>1, TripToType
  <1>4. WalkEnter(walk, x, rows) \in WalkType(rows)
    BY <1>1, <1>3 DEF WalkEnter, WalkType
  <1> QED
    BY <1>2, <1>4 DEF WalkStep

(* The walk has a result after any of the transitions, of these types.     *)
LEMMA WalkIn ==
  ASSUME NEW d, NEW rows \in SUBSET Events, IsFiniteSet(rows), NEW asof
  PROVE  LET seq == DayTransitions(d, rows, asof)
         IN  \E k : /\ WalkSteps(k, seq, Loaded(d, rows))
                    /\ \A s \in SUBSET DOMAIN seq : k[s] \in WalkType(Loaded(d, rows))
                    /\ TripsFound(d, rows, asof) = k[DOMAIN seq].found
  <1> DEFINE seq == DayTransitions(d, rows, asof)
             near == Loaded(d, rows)
             D == DOMAIN seq
             A == WalkType(near)
             st == [ax \in A \X D |-> WalkStep(ax[1], seq[ax[2]], near)]
             k == CHOOSE x : WalkSteps(x, seq, near)
  <1>1. TripsFound(d, rows, asof) = k[D].found
    BY DEF TripsFound, FoldLeft, MapThenFoldSet, WalkSteps, WalkStep
  <1>2. /\ D = 1..Len(seq) /\ Len(seq) \in Nat /\ IsFiniteSet(D)
        /\ \A i \in D : seq[i] \in Moves
    BY DayTransitionsAre
  <1>3. near \in SUBSET Events /\ IsFiniteSet(near)
    BY FS_Subset DEF Loaded
  <1> HIDE DEF seq, near
  <1>4. D \in SUBSET Int
    BY <1>2
  <1>5. WalkStart \in A
    BY DEF WalkStart, WalkType
  <1>6. \A a \in A : \A i \in D : WalkStep(a, seq[i], near) \in A
    BY <1>2, <1>3, WalkStepType
  <1> HIDE DEF D, A, k
  <1>7. \A a \in A : \A i \in D : st[<< a, i >>] = WalkStep(a, seq[i], near)
    OBVIOUS
  <1> HIDE DEF st
  <1>8. PICK g : ByIndex(g, D, st, WalkStart) /\ \A s \in SUBSET D : g[s] \in A
    <2>1. \A a \in A : \A i \in D : st[<< a, i >>] \in A
      BY <1>6, <1>7
    <2> QED
      BY <1>2, <1>4, <1>5, <2>1, FoldTotal
  <1>9. \A s \in SUBSET D : s # {} => Max(s) \in s
    BY <1>2, <1>4, FS_Subset, MaxIn
  <1>10. WalkSteps(g, seq, near)
    <2> DEFINE h == [s \in SUBSET D |-> IF s = {} THEN WalkStart
                                        ELSE WalkStep(g[s \ {Max(s)}], seq[Max(s)], near)]
    <2>1. \A s \in SUBSET D : g[s] = h[s]
      <3> SUFFICES ASSUME NEW s \in SUBSET D PROVE g[s] = h[s]
        OBVIOUS
      <3>1. CASE s = {}
        BY <1>8, <3>1 DEF ByIndex
      <3>2. CASE s # {}
        <4>1. g[s] = st[<< g[s \ {Max(s)}], Max(s) >>]
          BY <1>8, <3>2 DEF ByIndex
        <4>2. g[s \ {Max(s)}] \in A /\ Max(s) \in D
          BY <1>8, <1>9, <3>2
        <4> QED
          BY <1>7, <3>2, <4>1, <4>2
      <3> QED
        BY <3>1, <3>2
    <2>2. g = [s \in SUBSET D |-> g[s]] /\ h = [s \in SUBSET D |-> h[s]]
      BY <1>8 DEF ByIndex
    <2>3. g = h
      <3> HIDE DEF h
      <3> QED
        BY <2>1, <2>2
    <2> QED
      BY <2>3 DEF WalkSteps, D
  <1>11. WalkSteps(k, seq, near)
    BY <1>10 DEF k
  <1>12. \A s \in SUBSET D :
           k[s] = IF s = {} THEN WalkStart ELSE WalkStep(k[s \ {Max(s)}], seq[Max(s)], near)
    BY <1>11 DEF WalkSteps, D
  <1> DEFINE C == {s \in SUBSET D : k[s] \in A}
  <1>13. \A s \in SUBSET D : s \in C
    <2>1. {} \in C
      BY <1>5, <1>12
    <2>2. \A s \in SUBSET D : s # {} /\ s \ {Max(s)} \in C => s \in C
      BY <1>6, <1>9, <1>12
    <2> HIDE DEF C
    <2> QED
      BY <1>2, <1>4, <2>1, <2>2, IndexInduction
  <1> QED
    BY <1>1, <1>11, <1>13 DEF D, A, seq, near

InOrder(found) == \A i \in DOMAIN found : found[i].start <= found[i].end

(* What the walk finds at a transition starts no later than it ends.       *)
LEMMA TripToInOrder ==
  ASSUME NEW rows, NEW walk, NEW x \in Moves,
         \A y \in walk.leave : y \in Moves /\ y.at <= x.at
  PROVE  InOrder(TripTo(walk, x, rows))
  <1>1. ASSUME NEW from, NEW start \in Nat, start <= x.at, NEW stamps, NEW miles
        PROVE  InOrder(Found(from, x, start, stamps, miles))
    BY <1>1 DEF Found, InOrder
  <1>2. x.at \in Nat /\ x.at <= x.at /\ InOrder(<< >>)
    BY MoveType DEF InOrder
  <1>3. CASE walk.leave # {}
    <2> DEFINE y == CHOOSE y \in walk.leave : TRUE
    <2>1. y \in walk.leave
      BY <1>3
    <2> HIDE DEF y
    <2>2. y.at \in Nat /\ y.at <= x.at
      BY <2>1, MoveType
    <2>3. InOrder(Found(y.site, x, y.at, {y.odometer}, PathMiles(rows, y.at, x.at)))
      BY <1>1, <2>2
    <2> QED
      BY <1>3, <2>3 DEF TripTo, y
  <1>4. CASE walk.leave = {}
    <2>1. \A from, stamps : InOrder(Found(from, x, x.at, stamps, NoPath))
      BY <1>1, <1>2
    <2> QED
      BY <1>2, <1>4, <2>1 DEF TripTo
  <1> QED
    BY <1>3, <1>4

(* A sequence of trips found, one behind the other.                        *)
LEMMA InOrderConcat ==
  ASSUME NEW S, NEW s \in Seq(S), NEW t \in Seq(S), InOrder(s), InOrder(t)
  PROVE  InOrder(s \o t)
  <1> SUFFICES ASSUME NEW i \in DOMAIN (s \o t)
               PROVE  (s \o t)[i].start <= (s \o t)[i].end
    BY DEF InOrder
  <1>1. /\ DOMAIN (s \o t) = 1..(Len(s) + Len(t)) /\ Len(s) \in Nat /\ Len(t) \in Nat
        /\ DOMAIN s = 1..Len(s) /\ DOMAIN t = 1..Len(t)
    OBVIOUS
  <1>2. CASE i <= Len(s)
    <2>1. (s \o t)[i] = s[i] /\ i \in DOMAIN s
      BY <1>1, <1>2
    <2> QED
      BY <2>1 DEF InOrder
  <1>3. CASE i > Len(s)
    <2>1. (s \o t)[i] = t[i - Len(s)] /\ i - Len(s) \in DOMAIN t
      BY <1>1, <1>3
    <2> QED
      BY <2>1 DEF InOrder
  <1> QED
    BY <1>1, <1>2, <1>3

(* The trips found on a day: their types; a trip back to its origin has    *)
(* the length of the path, and none ends before it starts.                 *)
LEMMA TripsFoundAre ==
  ASSUME NEW d, NEW rows \in SUBSET Events, IsFiniteSet(rows), NEW asof
  PROVE  LET fs == TripsFound(d, rows, asof)
         IN  /\ DOMAIN fs \in SUBSET Int /\ IsFiniteSet(DOMAIN fs)
             /\ \A i \in DOMAIN fs : /\ fs[i] \in TripFoundType(Loaded(d, rows))
                                     /\ fs[i].start <= fs[i].end
  <1> DEFINE fs == TripsFound(d, rows, asof)
             seq == DayTransitions(d, rows, asof)
             near == Loaded(d, rows)
             D == DOMAIN seq
  <1>1. PICK k : /\ WalkSteps(k, seq, near)
                 /\ \A s \in SUBSET D : k[s] \in WalkType(near)
                 /\ fs = k[D].found
    BY WalkIn
  <1>2. /\ D = 1..Len(seq) /\ Len(seq) \in Nat /\ IsFiniteSet(D)
        /\ \A i \in D : seq[i] \in Moves
        /\ \A i, j \in D : seq[i].at < seq[j].at <=> i < j
    BY DayTransitionsAre
  <1>3. near \in SUBSET Events /\ IsFiniteSet(near)
    BY FS_Subset DEF Loaded
  <1> HIDE DEF seq, near, fs
  <1>4. \A s \in SUBSET D :
          k[s] = IF s = {} THEN WalkStart ELSE WalkStep(k[s \ {Max(s)}], seq[Max(s)], near)
    BY <1>1 DEF WalkSteps
  <1>5. D \in SUBSET Int
    BY <1>2
  <1> HIDE DEF D
  <1> DEFINE C == {s \in SUBSET D : /\ k[s].leave \subseteq {seq[j] : j \in s}
                                    /\ InOrder(k[s].found)}
  <1>6. ASSUME NEW s \in SUBSET D, s # {}, s \ {Max(s)} \in C
        PROVE  s \in C
    <2> DEFINE m == Max(s)
               w == k[s \ {m}]
               x == seq[m]
    <2>1. m \in s /\ \A j \in s : j <= m
      BY <1>2, <1>5, <1>6, FS_Subset, MaxIn
    <2>2. k[s] = WalkStep(w, x, near)
      BY <1>4, <1>6
    <2>3. w.leave \subseteq {seq[j] : j \in s \ {m}} /\ InOrder(w.found)
      BY <1>6
    <2>4. w \in WalkType(near) /\ x \in Moves
      BY <1>1, <1>2, <2>1
    <2> HIDE DEF m, w, x
    <2>5. \A y \in w.leave : y \in Moves /\ y.at <= x.at
      <3> SUFFICES ASSUME NEW y \in w.leave PROVE y \in Moves /\ y.at <= x.at
        OBVIOUS
      <3>1. PICK j \in s \ {m} : y = seq[j]
        BY <2>3
      <3>2. j \in D /\ m \in D /\ j < m
        BY <1>5, <2>1
      <3>3. y \in Moves /\ seq[j].at < seq[m].at
        BY <1>2, <3>1, <3>2
      <3> QED
        BY <2>4, <3>1, <3>3, MoveType DEF x
    <2>6. InOrder(TripTo(w, x, near))
      BY <2>4, <2>5, TripToInOrder
    <2>7. TripTo(w, x, near) \in Seq(TripFoundType(near))
      BY <1>3, <2>4, TripToType
    <2>8. InOrder(w.found \o TripTo(w, x, near))
      <3>1. w.found \in Seq(TripFoundType(near))
        BY <2>4 DEF WalkType
      <3> QED
        BY <2>3, <2>6, <2>7, <3>1, InOrderConcat
    <2>9. k[s].leave \subseteq w.leave \union {x} /\ InOrder(k[s].found)
      <3>1. WalkLeave(w, x).leave \subseteq w.leave \union {x} /\ InOrder(WalkLeave(w, x).found)
        BY <2>3, <2>4 DEF WalkLeave, WalkType
      <3>2. WalkEnter(w, x, near).leave = {} /\ InOrder(WalkEnter(w, x, near).found)
        BY <2>8 DEF WalkEnter
      <3> QED
        BY <2>2, <3>1, <3>2 DEF WalkStep
    <2>10. x \in {seq[j] : j \in s}
      BY <2>1 DEF x
    <2> QED
      BY <2>3, <2>9, <2>10
  <1>7. {} \in C
    <2>1. k[{}] = WalkStart
      BY <1>4
    <2>2. WalkStart.leave = {} /\ DOMAIN WalkStart.found = {}
      BY DEF WalkStart
    <2> QED
      BY <2>1, <2>2 DEF InOrder
  <1>8. \A s \in SUBSET D : s \in C
    <2> HIDE DEF C
    <2> QED
      BY <1>2, <1>5, <1>6, <1>7, IndexInduction
  <1>9. InOrder(fs)
    BY <1>1, <1>8
  <1>10. fs \in Seq(TripFoundType(near))
    BY <1>1 DEF WalkType
  <1>11. DOMAIN fs = 1..Len(fs) /\ Len(fs) \in Nat /\ IsFiniteSet(DOMAIN fs)
    BY <1>10, FS_Interval
  <1>12. /\ DOMAIN fs \in SUBSET Int /\ IsFiniteSet(DOMAIN fs)
         /\ \A i \in DOMAIN fs : fs[i] \in TripFoundType(near) /\ fs[i].start <= fs[i].end
    BY <1>9, <1>10, <1>11 DEF InOrder
  <1> QED
    BY <1>12 DEF fs, near

-----------------------------------------------------------------------------
(***************************************************************************)
(* Tables of trips.  A trip ends no earlier than it starts, and one that a *)
(* user added ends at no row's time; no two trips of a table share an id.  *)
(***************************************************************************)

Trip == {t \in TripType : t.start <= t.end /\ (t.source = "manual" => t.end \notin Times)}

UniqueIds(table) == \A t, u \in table : t.id = u.id => t = u

Table(table) == table \subseteq Trip /\ IsFiniteSet(table) /\ UniqueIds(table)

Signatures == Sites \X Sites \X Int \X Int

(* What a trip's columns hold.                                             *)
LEMMA TripIs ==
  ASSUME NEW t \in Trip
  PROVE  /\ t \in TripType /\ t.id \in Nat /\ t.origin \in Sites /\ t.dest \in Sites
         /\ t.start \in Int /\ t.end \in Int /\ t.miles \in Nat
         /\ t.from \in Nat /\ t.to \in Nat /\ t.start <= t.end
         /\ Signature(t) \in Signatures
  BY DEF Trip, TripType, Signature, Signatures

(* As many ids as trips.                                                   *)
LEMMA IdsCount ==
  ASSUME NEW table, Table(table)
  PROVE  IsFiniteSet(Ids(table)) /\ Cardinality(Ids(table)) = Cardinality(table)
  <1> DEFINE f == [t \in table |-> t.id]
  <1>1. f \in Surjection(table, Ids(table)) /\ f \in Injection(table, Ids(table))
    BY DEF Ids, Table, UniqueIds, Surjection, Injection, IsInjective
  <1>2. IsFiniteSet(table)
    BY DEF Table
  <1> HIDE DEF f
  <1> QED
    BY <1>1, <1>2, FS_Surjection

(* A new id is greater than every id in use.                               *)
LEMMA NextIdFresh ==
  ASSUME NEW table, Table(table), Table(trips), Table(gen.read), Table(gen.write)
  PROVE  /\ NextId(table) \in Nat
         /\ \A t \in UNION {table, trips, gen.read, gen.write} : t.id < NextId(table)
  <1> DEFINE all == UNION {table, trips, gen.read, gen.write}
             S == {0} \union Ids(all)
             id == [t \in all |-> t.id]
  <1>1. all = ((table \union trips) \union gen.read) \union gen.write
    OBVIOUS
  <1>2. IsFiniteSet(all)
    <2>1. IsFiniteSet(table \union trips)
      BY FS_Union DEF Table
    <2>2. IsFiniteSet((table \union trips) \union gen.read)
      BY <2>1, FS_Union DEF Table
    <2>3. IsFiniteSet(((table \union trips) \union gen.read) \union gen.write)
      BY <2>2, FS_Union DEF Table
    <2> QED
      BY <1>1, <2>3
  <1>3. Ids(all) = {id[t] : t \in all}
    BY DEF Ids
  <1>4. \A t \in all : t.id \in Nat
    BY TripIs DEF Table
  <1>5. IsFiniteSet({0} \union Ids(all))
    <2>1. IsFiniteSet(Ids(all))
      <3> HIDE DEF all, id
      <3> QED
        BY <1>2, <1>3, FiniteValues
    <2>2. IsFiniteSet({0})
      BY FS_Singleton
    <2> QED
      BY <2>1, <2>2, FS_Union
  <1>6. S \in SUBSET Int /\ S # {} /\ S \subseteq Nat
    BY <1>4 DEF Ids
  <1>7. Max(S) \in S /\ \A x \in S : x <= Max(S)
    BY <1>5, <1>6, MaxIn
  <1>8. \A t \in all : t.id \in S
    BY DEF Ids
  <1>9. NextId(table) = Max(S) + 1
    BY DEF NextId
  <1> HIDE DEF all, S
  <1>10. NextId(table) \in Nat /\ \A t \in all : t.id < NextId(table)
    <2>1. Max(S) \in Nat
      BY <1>6, <1>7
    <2>2. \A t \in all : t.id \in Nat /\ t.id <= Max(S)
      BY <1>4, <1>7, <1>8
    <2> QED
      BY <1>9, <2>1, <2>2
  <1> QED
    BY <1>10 DEF all

-----------------------------------------------------------------------------
(***************************************************************************)
(* What a generation does to a table: it keeps the trips the user made or  *)
(* corrected, takes back only trips too short that end where they start,   *)
(* and adds no trip the user deleted.                                      *)
(***************************************************************************)

(* The miles of a trip back to its origin depend on its signature alone.   *)
LoopMiles(t, near) ==
  LET p == PathMiles(near, t.start, t.end)
  IN  IF p = NoPath THEN Gap(Place[t.origin], Place[t.dest]) ELSE p

TooShort(t, near) == t.origin = t.dest /\ LoopMiles(t, near) < SameMinMiles

(* Waypoints lie some miles apart.                                         *)
LEMMA GapType == ASSUME NEW p \in Nat, NEW q \in Nat PROVE Gap(p, q) \in Nat
  BY DEF Gap

(* A trip made of a trip found.                                            *)
LEMMA NewTripIs ==
  ASSUME NEW near, NEW f \in TripFoundType(near), f.start <= f.end, NEW id \in Nat
  PROVE  LET new == NewTrip(f, id)
         IN  /\ new \in Trip /\ new.id = id /\ new.source = "auto"
             /\ new.mileage # "manual" /\ new.end \in Times
             /\ new.origin = f.origin /\ new.dest = f.dest
             /\ new.start = f.start /\ new.end = f.end
             /\ new.origin = new.dest => new.miles = LoopMiles(new, near)
  <1> DEFINE c == Calculated(f)
             new == NewTrip(f, id)
  <1>1. /\ f.origin \in Sites /\ f.dest \in Sites /\ f.start \in Times /\ f.end \in Times
        /\ f.left \in SUBSET Nat /\ f.arrived \in Nat /\ f.path \in Nat \union {NoPath}
        /\ f.origin = f.dest => f.path = PathMiles(near, f.start, f.end)
    BY DEF TripFoundType
  <1>2. \A t \in Times : t \in Nat
    BY EventsAssumption DEF EventType, Times
  <1>3. /\ c.miles = IF f.path # NoPath THEN f.path ELSE Gap(Place[f.origin], Place[f.dest])
        /\ c.mileage \in {"path", "waypoint"}
    BY DEF Calculated
  <1>4. c.miles \in Nat
    <2>1. Place[f.origin] \in Nat /\ Place[f.dest] \in Nat
      BY <1>1, SitesAssumption
    <2> HIDE DEF c
    <2> QED
      BY <1>1, <1>3, <2>1, GapType
  <1>5. c.from \in Nat /\ c.to \in Nat /\ c.fromSrc \in Sources /\ c.toSrc \in Sources
    <2> DEFINE m == IF f.path # NoPath THEN f.path ELSE Gap(Place[f.origin], Place[f.dest])
               from == IF f.left # {} THEN CHOOSE o \in f.left : TRUE
                       ELSE Min0(f.arrived - m)
    <2>1. m \in Nat
      BY <1>3, <1>4
    <2>2. /\ c.from = from /\ c.to = (IF f.left # {} THEN from + m ELSE f.arrived)
          /\ c.fromSrc \in Sources /\ c.toSrc \in Sources
      BY DEF Calculated, Sources
    <2> HIDE DEF m, c
    <2>3. from \in Nat
      BY <1>1, <2>1 DEF Min0
    <2> HIDE DEF from
    <2> QED
      BY <1>1, <2>1, <2>2, <2>3
  <1>6. new = [ id |-> id, origin |-> f.origin, dest |-> f.dest, start |-> f.start,
                end |-> f.end, miles |-> c.miles, mileage |-> c.mileage, from |-> c.from,
                to |-> c.to, fromSrc |-> c.fromSrc, toSrc |-> c.toSrc, source |-> "auto" ]
    BY DEF NewTrip
  <1> HIDE DEF c, new
  <1>7. new \in Trip
    BY <1>1, <1>2, <1>3, <1>4, <1>5, <1>6 DEF Trip, TripType
  <1>8. new.origin = new.dest => new.miles = LoopMiles(new, near)
    BY <1>1, <1>3, <1>6 DEF LoopMiles
  <1> QED
    BY <1>1, <1>3, <1>6, <1>7, <1>8 DEF new

(* What a generation that has read the trips of read may make of trip r of *)
(* them (u), and what it may add (u).                                      *)
Keeps(r, u) ==
  Signature(u) = Signature(r) /\ u.source = r.source /\ (r.mileage = "manual" => u = r)

Fresh(u, read, near) ==
  /\ u.source = "auto" /\ u.end \in Times /\ Signature(u) \notin deleted
  /\ ~TooShort(u, near)
  /\ \A r \in read : r.source = "auto" => Signature(r) # Signature(u)

Results(read, near) ==
  {out \in [table : SUBSET Trip, bury : SUBSET Signatures] :
     /\ Table(out.table)
     /\ \A r \in read, u \in out.table : u.id = r.id => Keeps(r, u)
     /\ \A u \in out.table : u.id \notin Ids(read) => Fresh(u, read, near)
     /\ \A r \in read : r.id \notin Ids(out.table) => r.source = "auto" /\ TooShort(r, near)}

(* Trips of one signature are both too short or neither.                   *)
LEMMA SameSignature ==
  ASSUME NEW t, NEW u, Signature(t) = Signature(u)
  PROVE  /\ t.origin = u.origin /\ t.dest = u.dest /\ t.start = u.start /\ t.end = u.end
         /\ \A near : TooShort(t, near) <=> TooShort(u, near)
  <1>1. t.origin = u.origin /\ t.dest = u.dest /\ t.start = u.start /\ t.end = u.end
    BY DEF Signature
  <1> QED
    BY <1>1 DEF TooShort, LoopMiles

(* What becomes of the table is one of four things.                        *)
LEMMA AddOrUpdateCases ==
  ASSUME NEW out, NEW f, NEW d
  PROVE  LET new      == NewTrip(f, NextId(out.table))
             existing == {t \in out.table : t.source = "auto" /\ Signature(t) = Signature(new)}
             result   == AddOrUpdate(out, f, d)
         IN  \/ result = out
             \/ /\ f.origin = f.dest /\ new.miles < SameMinMiles
                /\ result = [out EXCEPT !.table = @ \ existing,
                                        !.bury  = @ \union {Signature(t) : t \in existing}]
             \/ /\ \A t \in existing : Improves(t, new)
                /\ result = [out EXCEPT !.table = (@ \ existing) \union
                                                  {[new EXCEPT !.id = t.id] : t \in existing}]
             \/ /\ existing = {} /\ Signature(new) \notin deleted
                /\ ~(f.origin = f.dest /\ new.miles < SameMinMiles)
                /\ result = [out EXCEPT !.table = @ \union {new}]
  <1> DEFINE new == NewTrip(f, NextId(out.table))
             auto == {t \in out.table : t.source = "auto"}
             e == {t \in auto : Signature(t) = Signature(new)}
             existing == {t \in out.table : t.source = "auto" /\ Signature(t) = Signature(new)}
  <1>1. e = existing
    OBVIOUS
  <1> HIDE DEF new
  <1> QED
    BY <1>1 DEF AddOrUpdate, AddOrUpdateUnless, new

(* A trip the user corrected is not improved upon.                         *)
LEMMA ManualStays ==
  ASSUME NEW old, NEW new, old.mileage = "manual", new.mileage # "manual"
  PROVE  ~Improves(old, new)
  BY DEF Improves, Rank

(* One trip found leaves the table such a result.                          *)
LEMMA AddOrUpdateIn ==
  ASSUME Table(trips), Table(gen.read), Table(gen.write), NEW near,
         NEW out \in Results(trips, near),
         NEW f \in TripFoundType(near), f.start <= f.end, NEW d
  PROVE  AddOrUpdate(out, f, d) \in Results(trips, near)
  <1> DEFINE id == NextId(out.table)
             new == NewTrip(f, id)
             existing == {t \in out.table : t.source = "auto" /\ Signature(t) = Signature(new)}
             result == AddOrUpdate(out, f, d)
             removed == {Signature(t) : t \in existing}
             rewrite == {[new EXCEPT !.id = t.id] : t \in existing}
  <1>1. /\ out \in [table : SUBSET Trip, bury : SUBSET Signatures] /\ Table(out.table)
        /\ \A r \in trips, u \in out.table : u.id = r.id => Keeps(r, u)
        /\ \A u \in out.table : u.id \notin Ids(trips) => Fresh(u, trips, near)
        /\ \A r \in trips :
             r.id \notin Ids(out.table) => r.source = "auto" /\ TooShort(r, near)
    BY DEF Results
  <1>2. id \in Nat /\ (\A t \in out.table : t.id < id) /\ (\A t \in trips : t.id < id)
    BY <1>1, NextIdFresh
  <1>3. /\ new \in Trip /\ new.id = id /\ new.source = "auto"
        /\ new.mileage # "manual" /\ new.end \in Times
        /\ new.origin = f.origin /\ new.dest = f.dest
        /\ new.origin = new.dest => new.miles = LoopMiles(new, near)
    <2> HIDE DEF id
    <2> QED
      BY <1>2, NewTripIs
  <1>4. \/ result = out
        \/ /\ f.origin = f.dest /\ new.miles < SameMinMiles
           /\ result = [out EXCEPT !.table = @ \ existing, !.bury = @ \union removed]
        \/ /\ \A t \in existing : Improves(t, new)
           /\ result = [out EXCEPT !.table = (@ \ existing) \union rewrite]
        \/ /\ existing = {} /\ Signature(new) \notin deleted
           /\ ~(f.origin = f.dest /\ new.miles < SameMinMiles)
           /\ result = [out EXCEPT !.table = @ \union {new}]
    BY AddOrUpdateCases
  <1>5. existing \subseteq out.table
    OBVIOUS
  <1>6. \A t \in existing : t.source = "auto" /\ Signature(t) = Signature(new)
    OBVIOUS
  <1>7. \A t \in out.table : t.source = "auto" /\ Signature(t) = Signature(new) => t \in existing
    OBVIOUS
  <1> HIDE DEF existing, new, id, result
  <1>8. out.table \subseteq Trip /\ IsFiniteSet(out.table) /\ UniqueIds(out.table)
    BY <1>1 DEF Table
  <1>9. CASE /\ f.origin = f.dest /\ new.miles < SameMinMiles
             /\ result = [out EXCEPT !.table = @ \ existing, !.bury = @ \union removed]
    <2> DEFINE table == out.table \ existing
    <2>1. result.table = table /\ result.bury = out.bury \union removed
      BY <1>1, <1>9
    <2>2. removed \subseteq Signatures
      BY <1>5, <1>8, TripIs
    <2>3. result \in [table : SUBSET Trip, bury : SUBSET Signatures]
      BY <1>1, <1>8, <1>9, <2>2
    <2>4. Table(table)
      BY <1>8, FS_Subset DEF Table, UniqueIds
    <2>5. ASSUME NEW r \in trips, r.id \notin Ids(table)
          PROVE  r.source = "auto" /\ TooShort(r, near)
      <3>1. CASE r.id \notin Ids(out.table)
        BY <1>1, <3>1
      <3>2. CASE r.id \in Ids(out.table)
        <4>1. PICK u \in existing : u.id = r.id
          BY <2>5, <3>2 DEF Ids
        <4>2. Signature(r) = Signature(new) /\ r.source = "auto"
          BY <1>1, <1>5, <1>6, <4>1 DEF Keeps
        <4>3. TooShort(new, near)
          BY <1>3, <1>9 DEF TooShort
        <4> QED
          BY <4>2, <4>3, SameSignature
      <3> QED
        BY <3>1, <3>2
    <2>6. /\ \A r \in trips, u \in table : u.id = r.id => Keeps(r, u)
          /\ \A u \in table : u.id \notin Ids(trips) => Fresh(u, trips, near)
      BY <1>1
    <2> HIDE DEF table
    <2> QED
      BY <2>1, <2>3, <2>4, <2>5, <2>6 DEF Results, result
  <1>10. CASE /\ \A t \in existing : Improves(t, new)
              /\ result = [out EXCEPT !.table = (@ \ existing) \union rewrite]
    <2> DEFINE table == (out.table \ existing) \union rewrite
    <2>1. result.table = table
      BY <1>1, <1>10
    <2>2. ASSUME NEW u \in rewrite
          PROVE  /\ u \in Trip /\ u.source = "auto" /\ u.end \in Times
                 /\ Signature(u) = Signature(new)
                 /\ \E t \in existing : t.id = u.id
      <3>1. PICK t \in existing : u = [new EXCEPT !.id = t.id]
        OBVIOUS
      <3>2. t.id \in Nat
        BY <1>5, <1>8, <3>1, TripIs
      <3>3. new \in TripType /\ new.start <= new.end
        BY <1>3 DEF Trip
      <3> QED
        BY <1>3, <3>1, <3>2, <3>3 DEF Trip, TripType, Signature
    <2>3. \A t \in existing : \E u \in rewrite : u.id = t.id
      <3> SUFFICES ASSUME NEW t \in existing PROVE \E u \in rewrite : u.id = t.id
        OBVIOUS
      <3>1. [new EXCEPT !.id = t.id] \in rewrite
        OBVIOUS
      <3>2. [new EXCEPT !.id = t.id].id = t.id
        BY <1>3 DEF Trip, TripType
      <3> HIDE DEF rewrite
      <3> QED
        BY <3>1, <3>2
    <2>4. table \subseteq Trip
      BY <1>8, <2>2
    <2>5. result \in [table : SUBSET Trip, bury : SUBSET Signatures]
      BY <1>1, <1>10, <2>4
    <2>6. IsFiniteSet(table)
      <3> DEFINE made == [t \in existing |-> [new EXCEPT !.id = t.id]]
      <3>1. IsFiniteSet(existing) /\ IsFiniteSet(out.table \ existing)
        BY <1>5, <1>8, FS_Subset
      <3>2. rewrite = {made[t] : t \in existing}
        OBVIOUS
      <3>3. IsFiniteSet(rewrite)
        <4> HIDE DEF made, rewrite
        <4> QED
          BY <3>1, <3>2, FiniteValues
      <3> QED
        BY <3>1, <3>3, FS_Union
    <2>7. UniqueIds(table)
      <3>1. \A t, u \in rewrite : t.id = u.id => t = u
        BY <1>3 DEF Trip, TripType
      <3>2. \A t \in out.table \ existing, u \in rewrite : t.id # u.id
        BY <1>5, <1>8, <2>2 DEF UniqueIds
      <3> HIDE DEF rewrite
      <3> QED
        BY <1>8, <3>1, <3>2 DEF UniqueIds
    <2>8. ASSUME NEW r \in trips, r.id \notin Ids(table)
          PROVE  r.id \notin Ids(out.table)
      BY <2>3, <2>8 DEF Ids
    <2>9. ASSUME NEW r \in trips, NEW u \in table, u.id = r.id PROVE Keeps(r, u)
      <3>1. CASE u \in out.table
        BY <1>1, <2>9, <3>1
      <3>2. CASE u \in rewrite
        <4>1. PICK t \in existing : t.id = u.id
          BY <2>2, <3>2
        <4>2. Keeps(r, t) /\ t.source = "auto" /\ Signature(t) = Signature(new)
          BY <1>1, <1>5, <1>6, <2>9, <4>1
        <4>3. r.mileage # "manual"
          <5>1. r.mileage = "manual" => t.mileage = "manual"
            BY <4>2 DEF Keeps
          <5> QED
            BY <1>3, <1>10, <4>1, <5>1, ManualStays
        <4> QED
          BY <2>2, <3>2, <4>2, <4>3 DEF Keeps
      <3> QED
        BY <3>1, <3>2
    <2>10. ASSUME NEW u \in table, u.id \notin Ids(trips) PROVE Fresh(u, trips, near)
      <3>1. CASE u \in out.table
        BY <1>1, <2>10, <3>1
      <3>2. CASE u \in rewrite
        <4>1. PICK t \in existing : t.id = u.id
          BY <2>2, <3>2
        <4>2. Fresh(t, trips, near) /\ Signature(t) = Signature(u)
          BY <1>1, <1>5, <1>6, <2>2, <2>10, <3>2, <4>1
        <4> QED
          BY <2>2, <3>2, <4>2, SameSignature DEF Fresh
      <3> QED
        BY <3>1, <3>2
    <2> HIDE DEF table
    <2>11. Table(table)
      BY <2>4, <2>6, <2>7 DEF Table
    <2> QED
      BY <1>1, <2>1, <2>5, <2>8, <2>9, <2>10, <2>11 DEF Results, result
  <1>11. CASE /\ existing = {} /\ Signature(new) \notin deleted
              /\ ~(f.origin = f.dest /\ new.miles < SameMinMiles)
              /\ result = [out EXCEPT !.table = @ \union {new}]
    <2> DEFINE table == out.table \union {new}
    <2>1. result.table = table
      BY <1>1, <1>11
    <2>2. table \subseteq Trip /\ IsFiniteSet(table)
      BY <1>3, <1>8, FS_AddElement
    <2>3. result \in [table : SUBSET Trip, bury : SUBSET Signatures]
      BY <1>1, <1>11, <2>2
    <2>4. \A t \in out.table : t.id # new.id
      BY <1>2, <1>3, <1>8, TripIs
    <2>5. Table(table)
      BY <1>8, <2>2, <2>4 DEF Table, UniqueIds
    <2>6. new.id \notin Ids(trips)
      <3>1. \A t \in trips : t.id # new.id
        BY <1>2, <1>3, TripIs DEF Table
      <3> QED
        BY <3>1 DEF Ids
    <2>7. Fresh(new, trips, near)
      <3>1. ~TooShort(new, near)
        BY <1>3, <1>11 DEF TooShort
      <3>2. ASSUME NEW r \in trips, r.source = "auto", Signature(r) = Signature(new)
            PROVE  FALSE
        <4>1. CASE r.id \in Ids(out.table)
          <5>1. PICK u \in out.table : u.id = r.id
            BY <4>1 DEF Ids
          <5>2. u.source = "auto" /\ Signature(u) = Signature(new)
            BY <1>1, <3>2, <5>1 DEF Keeps
          <5> QED
            BY <1>7, <1>11, <5>1, <5>2
        <4>2. CASE r.id \notin Ids(out.table)
          BY <1>1, <3>1, <3>2, <4>2, SameSignature
        <4> QED
          BY <4>1, <4>2
      <3> QED
        BY <1>3, <1>11, <3>1, <3>2 DEF Fresh
    <2>8. ASSUME NEW r \in trips, r.id \notin Ids(table)
          PROVE  r.id \notin Ids(out.table)
      BY <2>8 DEF Ids
    <2>9. /\ \A r \in trips, u \in table : u.id = r.id => Keeps(r, u)
          /\ \A u \in table : u.id \notin Ids(trips) => Fresh(u, trips, near)
      BY <1>1, <2>6, <2>7 DEF Ids
    <2> HIDE DEF table
    <2> QED
      BY <1>1, <2>1, <2>3, <2>5, <2>8, <2>9 DEF Results, result
  <1> QED
    BY <1>4, <1>9, <1>10, <1>11 DEF result

(* A generation of a day has such a result.                                *)
LEMMA GenerationIn ==
  ASSUME Table(trips), Table(gen.read), Table(gen.write), stored \in Seq(Events), NEW d
  PROVE  Generated(d, Rows, trips, now) \in Results(trips, Loaded(d, Rows))
  <1> DEFINE near == Loaded(d, Rows)
             fs == TripsFound(d, Rows, now)
             base == [table |-> trips, bury |-> {}]
  <1>1. Rows \in SUBSET Events /\ IsFiniteSet(Rows)
    <2>1. DOMAIN stored = 1..Len(stored) /\ Len(stored) \in Nat
      OBVIOUS
    <2>2. IsFiniteSet(DOMAIN stored)
      BY <2>1, FS_Interval
    <2>3. Rows = {stored[i] : i \in DOMAIN stored}
      BY DEF Rows, ToSet
    <2> QED
      BY <2>2, <2>3, FiniteValues
  <1>2. /\ DOMAIN fs \in SUBSET Int /\ IsFiniteSet(DOMAIN fs)
        /\ \A i \in DOMAIN fs : fs[i] \in TripFoundType(near) /\ fs[i].start <= fs[i].end
    BY <1>1, TripsFoundAre
  <1>3. base \in Results(trips, near)
    <2>1. base \in [table : SUBSET Trip, bury : SUBSET Signatures]
      BY DEF Table
    <2>2. \A r \in trips, u \in trips : u.id = r.id => Keeps(r, u)
      BY DEF Table, UniqueIds, Keeps
    <2>3. \A u \in trips : u.id \in Ids(trips)
      BY DEF Ids
    <2> QED
      BY <2>1, <2>2, <2>3 DEF Results
  <1> HIDE DEF near, fs
  <1>4. \A out \in Results(trips, near) : \A i \in DOMAIN fs :
          AddOrUpdate(out, fs[i], d) \in Results(trips, near)
    BY <1>2, AddOrUpdateIn
  <1>5. Generated(d, Rows, trips, now) \in Results(trips, near)
    BY <1>2, <1>3, <1>4, GeneratedIn DEF fs
  <1> QED
    BY <1>5 DEF near

-----------------------------------------------------------------------------
(***************************************************************************)
(* The inductive invariant: what holds of the trips, and of a generation   *)
(* under way beside what the user has done since it began.                 *)
(***************************************************************************)

Typed ==
  /\ now \in 0..MaxTime
  /\ stored \in Seq(Events)
  /\ touched \subseteq Days
  /\ Table(trips)
  /\ deleted \subseteq Signatures
  /\ gen.active \in BOOLEAN
  /\ Table(gen.read) /\ Table(gen.write) /\ gen.bury \subseteq Signatures
  /\ ops \in 0..MaxOps

(* The miles of a trip the user reported are the user's.                   *)
Reported ==
  /\ DOMAIN reports \subseteq Ids(trips)
  /\ \A t \in trips :
       t.id \in DOMAIN reports => t.mileage = "manual" /\ t.miles = reports[t.id]

(* A generation keeps the place of the trips it read, and is about to      *)
(* rewrite none whose miles the user reported.                             *)
ReadKept ==
  /\ \A r \in gen.read, w \in gen.write :
       r.id = w.id => Signature(r) = Signature(w) /\ r.source = w.source
  /\ Updated \intersect DOMAIN reports = {}

(* What the user deleted and nobody had rerouted is on record.             *)
Discarded ==
  /\ rerouted \subseteq Ids(trips)
  /\ discarded \subseteq Signatures \X BOOLEAN
  /\ \A k : << k, FALSE >> \in discarded => k \in deleted

(* Trips of the table that the generation read are where they were, on the *)
(* route they had unless it was edited; what it did not read the user      *)
(* added.                                                                  *)
ReadMatches ==
  /\ \A t \in trips, r \in gen.read :
       t.id = r.id => /\ t.start = r.start /\ t.end = r.end /\ t.source = r.source
                      /\ t.id \notin rerouted => Signature(t) = Signature(r)
  /\ \A t \in trips : t.id \notin Ids(gen.read) => t.source = "manual"

(* What the generation is about to add is new, and no trip that the user   *)
(* deleted, before or since, but after a change of its route.              *)
AddsNew ==
  \A u \in gen.write : u.id \notin Ids(gen.read) =>
    /\ u.id \notin Ids(trips)
    /\ u.source = "auto" /\ u.end \in Times
    /\ \A r \in gen.read : Signature(r) # Signature(u)
    /\ << Signature(u), FALSE >> \notin discarded

Under == gen.active => ReadKept /\ ReadMatches /\ AddsNew

TripInv == Typed /\ Reported /\ Discarded /\ Under

(* A merged trip is the stored one where the generation changes nothing;   *)
(* it keeps its id, its times and its source.                              *)
LEMMA MergedIs ==
  ASSUME Typed, ReadKept, NEW t \in trips
  PROVE  /\ Merged(t) \in Trip
         /\ Merged(t).id = t.id /\ Merged(t).source = t.source
         /\ Merged(t).start = t.start /\ Merged(t).end = t.end
         /\ t.id \notin Updated => Merged(t) = t
  <1>1. t \in Trip
    BY DEF Typed, Table
  <1>2. CASE t.id \notin Updated
    BY <1>1, <1>2 DEF Merged
  <1>3. CASE t.id \in Updated
    <2> DEFINE old == ById(gen.read, t.id)
               new == ById(gen.write, t.id)
               m == [c \in DOMAIN t |-> IF new[c] # old[c] THEN new[c] ELSE t[c]]
    <2>1. old \in gen.read /\ old.id = t.id /\ new \in gen.write /\ new.id = t.id
      BY <1>3 DEF Updated, Ids, ById
    <2>2. old \in Trip /\ new \in Trip /\ Signature(old) = Signature(new) /\ old.source = new.source
      BY <2>1 DEF Typed, Table, ReadKept
    <2>3. /\ old.origin = new.origin /\ old.dest = new.dest
          /\ old.start = new.start /\ old.end = new.end
      BY <2>2, SameSignature
    <2>4. Merged(t) = m
      BY <1>3 DEF Merged
    <2> HIDE DEF old, new
    <2>5. DOMAIN t = {"id", "origin", "dest", "start", "end", "miles", "mileage", "from", "to",
                      "fromSrc", "toSrc", "source"}
      BY <1>1 DEF Trip, TripType
    <2>6. /\ m.id = t.id /\ m.origin = t.origin /\ m.dest = t.dest /\ m.start = t.start
          /\ m.end = t.end /\ m.source = t.source
      BY <2>1, <2>2, <2>3, <2>5
    <2>7. /\ m.miles \in {new.miles, t.miles} /\ m.mileage \in {new.mileage, t.mileage}
          /\ m.from \in {new.from, t.from} /\ m.to \in {new.to, t.to}
          /\ m.fromSrc \in {new.fromSrc, t.fromSrc} /\ m.toSrc \in {new.toSrc, t.toSrc}
      BY <2>5
    <2>8. m = [ id |-> m.id, origin |-> m.origin, dest |-> m.dest, start |-> m.start,
                end |-> m.end, miles |-> m.miles, mileage |-> m.mileage, from |-> m.from,
                to |-> m.to, fromSrc |-> m.fromSrc, toSrc |-> m.toSrc, source |-> m.source ]
      BY <2>5
    <2> HIDE DEF m
    <2>9. m \in Trip
      BY <1>1, <2>2, <2>6, <2>7, <2>8 DEF Trip, TripType
    <2> QED
      BY <1>3, <2>4, <2>6, <2>9
  <1> QED
    BY <1>2, <1>3

-----------------------------------------------------------------------------
(***************************************************************************)
(* Resequencing a table, or the trips of it from one on.                   *)
(***************************************************************************)

Order(S) == {p \in S \X S : Precedes(p[1], p[2])}

(* The trips of a table in their order: by start, then by id.              *)
LEMMA ChronologicalIs ==
  ASSUME NEW S, Table(S)
  PROVE  /\ SortedBy(Chronological(S), S, Order(S))
         /\ StrictOrder(Order(S), S)
         /\ \A x, y \in S : << x, y >> \in Order(S) <=> Precedes(x, y)
  <1> DEFINE R == Order(S)
             s == Chronological(S)
             n == Cardinality(S)
  <1>1. IsFiniteSet(S) /\ \A x \in S : x.start \in Int /\ x.id \in Nat
    BY TripIs DEF Table
  <1>2. \A x, y \in S : << x, y >> \in R <=> Precedes(x, y)
    BY DEF Order
  <1>3. \A x \in S : Below(S, R, x) = {y \in S : Precedes(y, x)}
    BY <1>2 DEF Below
  <1> HIDE DEF R
  <1>4. StrictOrder(R, S)
    <2>1. \A x, y \in S : x.id = y.id => x = y
      BY DEF Table, UniqueIds
    <2> QED
      BY <1>1, <1>2, <2>1 DEF StrictOrder, Precedes
  <1>5. \A i \in 1..n : \E x \in S : Cardinality({y \in S : Precedes(y, x)}) = i - 1
    <2>1. \A i \in 1..n : \E x \in S : Cardinality(Below(S, R, x)) = i - 1
      BY <1>1, <1>4, RankExists
    <2> QED
      BY <1>3, <2>1, Zenon
  <1>6. \A i \in 1..n : s[i] \in S /\ Cardinality({y \in S : Precedes(y, s[i])}) = i - 1
    <2> SUFFICES ASSUME NEW i \in 1..n
                 PROVE  s[i] \in S /\ Cardinality({y \in S : Precedes(y, s[i])}) = i - 1
      OBVIOUS
    <2>1. s[i] = CHOOSE x \in S : Cardinality({y \in S : Precedes(y, x)}) = i - 1
      BY DEF Chronological
    <2> QED
      BY <1>5, <2>1
  <1>7. s \in [1..n -> S]
    BY <1>6 DEF Chronological
  <1> HIDE DEF s
  <1>8. \A i \in 1..n : s[i] \in S /\ Cardinality(Below(S, R, s[i])) = i - 1
    BY <1>3, <1>6
  <1>9. SortedBy(s, S, R)
    BY <1>1, <1>4, <1>7, <1>8, SortedIs
  <1> QED
    BY <1>2, <1>4, <1>9 DEF s, R

(* What the first trips and the gaps before them add up to grows by one    *)
(* trip and its gap at a time.                                             *)
LEMMA SpanGrows ==
  ASSUME NEW seq, NEW gaps, NEW n \in Nat,
         \A i \in 1..n : seq[i].miles \in Nat /\ gaps[i] \in Nat
  PROVE  /\ Span(seq, gaps, n) \in Nat
         /\ n = 0 => Span(seq, gaps, n) = 0
         /\ n > 0 => Span(seq, gaps, n) = Span(seq, gaps, n - 1) + seq[n].miles + gaps[n]
  <1> DEFINE f == [i \in 1..n |-> seq[i].miles + gaps[i]]
             g == [i \in 1..(n - 1) |-> seq[i].miles + gaps[i]]
  <1>1. IsFiniteSet(1..n) /\ IsFiniteSet(1..(n - 1))
    <2>1. 1 \in Int /\ n \in Int /\ n - 1 \in Int
      OBVIOUS
    <2> QED
      BY <2>1, FS_Interval
  <1>2. \A i \in 1..n : f[i] \in Nat
    OBVIOUS
  <1>3. CASE n = 0
    <2>1. 1..n = {}
      BY <1>3
    <2>2. Span(seq, gaps, n) = SumFunctionOnSet(f, 1..n)
      BY DEF Span
    <2> HIDE DEF f
    <2> QED
      BY <1>3, <2>1, <2>2, SumEmpty
  <1>4. CASE n > 0
    <2>1. (1..n) \ {n} = 1..(n - 1) /\ n \in 1..n
      BY <1>4
    <2>2. \A i \in 1..(n - 1) : f[i] = g[i]
      BY <1>4
    <2>3. f[n] = seq[n].miles + gaps[n] /\ seq[n].miles \in Nat /\ gaps[n] \in Nat
      BY <1>4
    <2>4. Span(seq, gaps, n) = SumFunctionOnSet(f, 1..n)
      BY DEF Span
    <2>5. Span(seq, gaps, n - 1) = SumFunctionOnSet(g, 1..(n - 1))
      BY DEF Span
    <2> HIDE DEF f, g
    <2>6. /\ SumFunctionOnSet(f, 1..n) \in Nat
          /\ SumFunctionOnSet(f, 1..n) = f[n] + SumFunctionOnSet(f, 1..(n - 1))
      <3> DEFINE S == 1..n
      <3>1. IsFiniteSet(S) /\ n \in S /\ \A i \in S : f[i] \in Nat
        BY <1>1, <1>2, <2>1
      <3>2. S \ {n} = 1..(n - 1)
        BY <2>1
      <3> HIDE DEF S
      <3>3. /\ SumFunctionOnSet(f, S) \in Nat
            /\ \A x \in S : SumFunctionOnSet(f, S) = f[x] + SumFunctionOnSet(f, S \ {x})
        BY <3>1, SumRemove
      <3>4. SumFunctionOnSet(f, S) = f[n] + SumFunctionOnSet(f, 1..(n - 1))
        BY <3>1, <3>2, <3>3
      <3> QED
        BY <3>3, <3>4 DEF S
    <2>7. SumFunctionOnSet(f, 1..(n - 1)) = SumFunctionOnSet(g, 1..(n - 1))
      BY <1>1, <2>2, SumSame
    <2>8. SumFunctionOnSet(f, 1..(n - 1)) \in Nat
      <3>1. \A i \in 1..(n - 1) : f[i] \in Nat
        BY <1>2, <1>4
      <3> QED
        BY <1>1, <3>1, SumRemove
    <2> QED
      BY <1>4, <2>3, <2>4, <2>5, <2>6, <2>7, <2>8
  <1> QED
    BY <1>3, <1>4

SameTrip(t, u) ==
  /\ u.id = t.id /\ Signature(u) = Signature(t) /\ u.source = t.source
  /\ u.miles = t.miles /\ u.mileage = t.mileage

(* m[i] is what resequencing makes of the i-th trip.                       *)
Moved(m, seq, gaps, start) ==
  /\ \A i \in DOMAIN seq : m[i] \in Trip /\ SameTrip(seq[i], m[i])
  /\ \A i \in DOMAIN seq : i = 1 => m[i].from = start + gaps[i]
  /\ \A i \in DOMAIN seq : i > 1 => m[i].from = m[i - 1].to + gaps[i]

(* Resequencing moves odometers: the first trip starts at the start value, *)
(* every other its gap behind the one before it.                           *)
LEMMA ResequencedIs ==
  ASSUME NEW S, Table(S), NEW gaps, \A i \in DOMAIN Chronological(S) : gaps[i] \in Nat,
         NEW start \in Nat, NEW firstSrc \in Sources, NEW lastSrc \in Sources
  PROVE  LET seq == Chronological(S)
             T == Resequenced(seq, gaps, start, firstSrc, lastSrc)
         IN  /\ \E m : T = {m[i] : i \in DOMAIN seq} /\ Moved(m, seq, gaps, start)
             /\ Table(T)
  <1> DEFINE seq == Chronological(S)
             T == Resequenced(seq, gaps, start, firstSrc, lastSrc)
             from(i) == start + gaps[i] + Span(seq, gaps, i - 1)
             m == [i \in DOMAIN seq |->
                     [seq[i] EXCEPT
                        !.from    = from(i),
                        !.to      = from(i) + seq[i].miles,
                        !.fromSrc = IF gaps[i] > 0 THEN "owntracks_rolling"
                                    ELSE IF i = 1 THEN firstSrc ELSE "previous_trip",
                        !.toSrc   = IF i = Len(seq) THEN lastSrc ELSE "estimated"]]
  <1>1. SortedBy(seq, S, Order(S))
    BY ChronologicalIs
  <1>2. /\ DOMAIN seq = 1..Len(seq) /\ Len(seq) \in Nat /\ IsFiniteSet(DOMAIN seq)
        /\ \A i \in DOMAIN seq : seq[i] \in Trip
        /\ \A i, j \in DOMAIN seq : seq[i] = seq[j] => i = j
    <2>1. /\ DOMAIN seq = 1..Len(seq) /\ Len(seq) \in Nat /\ IsFiniteSet(DOMAIN seq)
          /\ \A i \in DOMAIN seq : seq[i] \in S
          /\ \A i, j \in DOMAIN seq : << seq[i], seq[j] >> \in Order(S) <=> i < j
      BY <1>1 DEF SortedBy
    <2> HIDE DEF seq
    <2>2. \A i, j \in DOMAIN seq : i \in Nat /\ j \in Nat
      BY <2>1
    <2>3. ASSUME NEW i \in DOMAIN seq, NEW j \in DOMAIN seq, seq[i] = seq[j]
          PROVE  i = j
      <3>1. << seq[i], seq[j] >> \in Order(S) <=> i < j
        BY <2>1
      <3>2. << seq[j], seq[i] >> \in Order(S) <=> j < i
        BY <2>1
      <3> QED
        BY <2>2, <2>3, <3>1, <3>2
    <2> QED
      BY <2>1, <2>3 DEF Table
  <1>3. T = {m[i] : i \in DOMAIN seq}
    BY DEF Resequenced
  <1> HIDE DEF seq, T
  <1>4. \A i \in DOMAIN seq : seq[i].miles \in Nat /\ gaps[i] \in Nat
    BY <1>2, TripIs DEF seq
  <1>5. \A i \in DOMAIN seq : from(i) \in Nat /\ Span(seq, gaps, i - 1) \in Nat
    <2> SUFFICES ASSUME NEW i \in DOMAIN seq
                 PROVE  from(i) \in Nat /\ Span(seq, gaps, i - 1) \in Nat
      OBVIOUS
    <2>1. i - 1 \in Nat /\ \A j \in 1..(i - 1) : seq[j].miles \in Nat /\ gaps[j] \in Nat
      BY <1>2, <1>4
    <2>2. Span(seq, gaps, i - 1) \in Nat
      BY <2>1, SpanGrows
    <2> QED
      BY <1>4, <2>2
  <1> HIDE DEF from
  <1>6. ASSUME NEW i \in DOMAIN seq
        PROVE  /\ m[i] \in Trip /\ SameTrip(seq[i], m[i])
               /\ m[i].from = from(i) /\ m[i].to = from(i) + seq[i].miles
    <2> DEFINE t == seq[i]
               to == from(i) + seq[i].miles
               src1 == IF gaps[i] > 0 THEN "owntracks_rolling"
                       ELSE IF i = 1 THEN firstSrc ELSE "previous_trip"
               src2 == IF i = Len(seq) THEN lastSrc ELSE "estimated"
    <2>1. t \in TripType /\ t.start <= t.end /\ (t.source = "manual" => t.end \notin Times)
      BY <1>2 DEF Trip
    <2>2. from(i) \in Nat /\ to \in Nat /\ src1 \in Sources /\ src2 \in Sources
      BY <1>4, <1>5 DEF Sources
    <2>3. m[i] = [t EXCEPT !.from = from(i), !.to = to, !.fromSrc = src1, !.toSrc = src2]
      OBVIOUS
    <2> HIDE DEF m, t, to, src1, src2
    <2>4. m[i] \in TripType /\ SameTrip(t, m[i]) /\ m[i].from = from(i) /\ m[i].to = to
          /\ m[i].start = t.start /\ m[i].end = t.end /\ m[i].source = t.source
      BY <2>1, <2>2, <2>3 DEF TripType, SameTrip, Signature
    <2> QED
      BY <2>1, <2>4 DEF Trip, t, to
  <1> HIDE DEF m
  <1>7. ASSUME NEW i \in DOMAIN seq, i = 1 PROVE m[i].from = start + gaps[i]
    <2>1. Span(seq, gaps, 0) = 0
      BY SpanGrows
    <2>2. m[i].from = start + gaps[i] + Span(seq, gaps, 0)
      BY <1>6, <1>7 DEF from
    <2> QED
      BY <1>4, <2>1, <2>2
  <1>8. ASSUME NEW i \in DOMAIN seq, i > 1 PROVE m[i].from = m[i - 1].to + gaps[i]
    <2>1. /\ i - 1 \in DOMAIN seq /\ i - 1 \in Nat /\ i - 1 > 0
          /\ \A j \in 1..(i - 1) : seq[j].miles \in Nat /\ gaps[j] \in Nat
      BY <1>2, <1>4, <1>8
    <2>2. Span(seq, gaps, i - 1) =
            Span(seq, gaps, i - 1 - 1) + seq[i - 1].miles + gaps[i - 1]
      BY <2>1, SpanGrows
    <2>3. m[i].from = start + gaps[i] + Span(seq, gaps, i - 1)
      BY <1>6 DEF from
    <2>4. m[i - 1].to = start + gaps[i - 1] + Span(seq, gaps, i - 1 - 1) + seq[i - 1].miles
      BY <1>6, <2>1 DEF from
    <2>5. /\ Span(seq, gaps, i - 1 - 1) \in Nat /\ gaps[i - 1] \in Nat
          /\ seq[i - 1].miles \in Nat /\ gaps[i] \in Nat
      BY <1>4, <1>5, <2>1
    <2> QED
      BY <2>2, <2>3, <2>4, <2>5
  <1>9. Moved(m, seq, gaps, start)
    BY <1>6, <1>7, <1>8 DEF Moved
  <1>10. Table(T)
    <2>1. T \subseteq Trip
      BY <1>3, <1>6
    <2>2. IsFiniteSet(T)
      BY <1>2, <1>3, FiniteValues
    <2>3. UniqueIds(T)
      <3> SUFFICES ASSUME NEW i \in DOMAIN seq, NEW j \in DOMAIN seq, m[i].id = m[j].id
                   PROVE  m[i] = m[j]
        BY <1>3 DEF UniqueIds
      <3>1. seq[i].id = seq[j].id
        BY <1>6 DEF SameTrip
      <3>2. seq[i] \in S /\ seq[j] \in S
        BY <1>1 DEF SortedBy, seq
      <3>3. seq[i] = seq[j]
        BY <3>1, <3>2 DEF Table, UniqueIds
      <3> QED
        BY <1>2, <3>3
    <2> QED
      BY <2>1, <2>2, <2>3 DEF Table
  <1> QED
    BY <1>3, <1>9, <1>10 DEF seq, T

(* Two tables of the same trips, but for their odometers.                  *)
SameTrips(table, new) ==
  /\ \A u \in new : \E t \in table : SameTrip(t, u)
  /\ \A t \in table : \E u \in new : SameTrip(t, u)

(* Gaps are numbers of miles, and the first trip has none in front of it.  *)
LEMMA GapsType ==
  ASSUME NEW S, Table(S)
  PROVE  LET seq == Chronological(S)
         IN  /\ DOMAIN GapsOf(seq) = DOMAIN seq
             /\ \A i \in DOMAIN seq :
                  /\ GapsOf(seq)[i] \in Nat
                  /\ GapsOf(seq)[i] = IF i = 1 THEN 0 ELSE Min0(seq[i].from - seq[i - 1].to)
  <1> DEFINE seq == Chronological(S)
  <1>1. SortedBy(seq, S, Order(S))
    BY ChronologicalIs
  <1>2. DOMAIN seq = 1..Len(seq) /\ Len(seq) \in Nat /\ \A i \in DOMAIN seq : seq[i] \in Trip
    BY <1>1 DEF SortedBy, Table
  <1> HIDE DEF seq
  <1>3. /\ DOMAIN GapsOf(seq) = DOMAIN seq
        /\ \A i \in DOMAIN seq :
             GapsOf(seq)[i] = IF i = 1 THEN 0 ELSE Min0(seq[i].from - seq[i - 1].to)
    BY DEF GapsOf
  <1>4. ASSUME NEW i \in DOMAIN seq PROVE GapsOf(seq)[i] \in Nat
    <2>1. i # 1 => i - 1 \in DOMAIN seq
      BY <1>2
    <2>2. i # 1 => seq[i].from \in Nat /\ seq[i - 1].to \in Nat
      BY <1>2, <2>1, TripIs
    <2> QED
      BY <1>3, <2>2 DEF Min0
  <1> QED
    BY <1>3, <1>4 DEF seq

(* Resequencing some of the trips of a table.                              *)
LEMMA PartResequenced ==
  ASSUME NEW table, Table(table), NEW later \in SUBSET table,
         NEW gaps, \A i \in DOMAIN Chronological(later) : gaps[i] \in Nat,
         NEW start \in Nat, NEW firstSrc \in Sources, NEW lastSrc \in Sources
  PROVE  LET new == (table \ later) \union
                    Resequenced(Chronological(later), gaps, start, firstSrc, lastSrc)
         IN  Table(new) /\ SameTrips(table, new)
  <1> DEFINE seq == Chronological(later)
             T == Resequenced(seq, gaps, start, firstSrc, lastSrc)
             new == (table \ later) \union T
  <1>1. Table(later) /\ Table(table \ later)
    BY FS_Subset DEF Table, UniqueIds
  <1>2. SortedBy(seq, later, Order(later))
    BY <1>1, ChronologicalIs
  <1>3. /\ \E m : T = {m[i] : i \in DOMAIN seq} /\ Moved(m, seq, gaps, start)
        /\ Table(T)
    BY <1>1, ResequencedIs
  <1> HIDE DEF seq, T
  <1>4. PICK m : T = {m[i] : i \in DOMAIN seq} /\ Moved(m, seq, gaps, start)
    BY <1>3
  <1>5. \A i \in DOMAIN seq : seq[i] \in later /\ m[i] \in T /\ SameTrip(seq[i], m[i])
    BY <1>2, <1>4 DEF SortedBy, Moved
  <1>6. \A t \in later : \E u \in T : SameTrip(t, u)
    BY <1>2, <1>5 DEF SortedBy
  <1>7. \A u \in T : \E t \in later : SameTrip(t, u)
    BY <1>4, <1>5
  <1>8. \A t \in table : SameTrip(t, t)
    BY DEF SameTrip
  <1>9. SameTrips(table, new)
    BY <1>6, <1>7, <1>8 DEF SameTrips
  <1>10. UniqueIds(new)
    <2>1. \A t \in table \ later, u \in T : t.id # u.id
      BY <1>7 DEF Table, UniqueIds, SameTrip
    <2> QED
      BY <1>1, <1>3, <2>1 DEF Table, UniqueIds
  <1>11. Table(new)
    BY <1>1, <1>3, <1>10, FS_Union DEF Table
  <1> QED
    BY <1>9, <1>11 DEF T, seq

(* What the user's edit of trip t makes of the table.                      *)
EditedTrip(t, v, u, m) ==
  /\ u.id = v.id /\ u.start = v.start /\ u.end = v.end /\ u.source = v.source
  /\ IF v = t THEN u.mileage = "manual" /\ u.miles = m ELSE SameTrip(v, u)

(* An edit keeps the trips, and changes route and miles of one.            *)
LEMMA EditTripIs ==
  ASSUME Table(trips), NEW t \in trips, NEW o \in Sites, NEW d \in Sites, NEW m \in Nat,
         EditTrip(t, o, d, m)
  PROVE  /\ Table(trips')
         /\ \A u \in trips' : \E v \in trips : EditedTrip(t, v, u, m)
         /\ \A v \in trips : \E u \in trips' : EditedTrip(t, v, u, m)
         /\ \A u \in trips' : u.id = t.id => Signature(u) = << o, d, t.start, t.end >>
  <1> DEFINE edited == [t EXCEPT !.origin = o, !.dest = d, !.miles = m, !.mileage = "manual"]
             table  == (trips \ {t}) \union {edited}
             later  == Onward(table, edited)
             seq    == Chronological(later)
             moved  == (table \ later) \union
                       Resequenced(seq, GapsOf(seq), t.from, "previous_trip", "estimated")
  <1>1. trips' = IF m = t.miles THEN table ELSE moved
    BY DEF EditTrip
  <1>2. t \in Trip
    BY DEF Table
  <1>3. /\ edited \in Trip /\ edited.id = t.id /\ edited.start = t.start
        /\ edited.end = t.end /\ edited.source = t.source
        /\ edited.mileage = "manual" /\ edited.miles = m
        /\ Signature(edited) = << o, d, t.start, t.end >>
    BY <1>2 DEF Trip, TripType, Signature
  <1> HIDE DEF edited
  <1>4. Table(table)
    <2>1. IsFiniteSet(table)
      BY FS_RemoveElement, FS_AddElement DEF Table
    <2>2. UniqueIds(table)
      BY <1>3 DEF Table, UniqueIds
    <2> QED
      BY <1>3, <2>1, <2>2 DEF Table
  <1>5. /\ \A u \in table : \E v \in trips : EditedTrip(t, v, u, m)
        /\ \A v \in trips : \E u \in table : EditedTrip(t, v, u, m)
    BY <1>3 DEF EditedTrip, SameTrip
  <1>r. \A u \in table : u.id = t.id => Signature(u) = << o, d, t.start, t.end >>
    BY <1>3 DEF Table, UniqueIds
  <1>6. Table(moved) /\ SameTrips(table, moved)
    <2>1. later \in SUBSET table
      BY DEF Onward
    <2>2. Table(later)
      BY <1>4, <2>1, FS_Subset DEF Table, UniqueIds
    <2>3. \A i \in DOMAIN seq : GapsOf(seq)[i] \in Nat
      BY <2>2, GapsType
    <2>4. t.from \in Nat /\ "previous_trip" \in Sources /\ "estimated" \in Sources
      BY <1>2, TripIs DEF Sources
    <2> HIDE DEF later, table
    <2> QED
      BY <1>4, <2>1, <2>3, <2>4, PartResequenced
  <1> HIDE DEF table, moved
  <1>7. ASSUME NEW v \in trips, NEW w \in table, NEW u \in moved,
               EditedTrip(t, v, w, m), SameTrip(w, u)
        PROVE  EditedTrip(t, v, u, m)
    <2>1. u.id = w.id /\ u.start = w.start /\ u.end = w.end /\ u.source = w.source
      BY <1>7, SameSignature DEF SameTrip
    <2> QED
      BY <1>7, <2>1 DEF EditedTrip, SameTrip
  <1>8. /\ \A u \in moved : \E v \in trips : EditedTrip(t, v, u, m)
        /\ \A v \in trips : \E u \in moved : EditedTrip(t, v, u, m)
    BY <1>5, <1>6, <1>7 DEF SameTrips
  <1>9. \A u \in moved : u.id = t.id => Signature(u) = << o, d, t.start, t.end >>
    BY <1>6, <1>r DEF SameTrips, SameTrip
  <1> QED
    BY <1>1, <1>4, <1>5, <1>6, <1>8, <1>9, <1>r

(* Aligning keeps the trips.                                               *)
LEMMA AlignTripsIs ==
  ASSUME Table(trips), NEW v \in Nat, AlignTrips(v)
  PROVE  Table(trips') /\ SameTrips(trips, trips')
  <1> DEFINE seq == Chronological(trips)
             start == v - Span(seq, GapsOf(seq), Len(seq))
  <1>1. /\ trips # {} /\ start >= 0
        /\ trips' = Resequenced(seq, GapsOf(seq), start, seq[1].fromSrc, "manual")
    BY DEF AlignTrips
  <1>2. SortedBy(seq, trips, Order(trips))
    BY ChronologicalIs
  <1>3. /\ DOMAIN seq = 1..Len(seq) /\ Len(seq) \in Nat /\ \A i \in DOMAIN seq : seq[i] \in trips
        /\ \A t \in trips : \E i \in DOMAIN seq : seq[i] = t
    BY <1>2 DEF SortedBy
  <1>4. \A i \in DOMAIN seq : GapsOf(seq)[i] \in Nat
    BY GapsType
  <1> HIDE DEF seq
  <1>5. 1 \in DOMAIN seq
    BY <1>1, <1>3
  <1>6. seq[1].fromSrc \in Sources /\ "manual" \in Sources
    BY <1>3, <1>5 DEF Table, Trip, TripType, Sources
  <1>7. start \in Nat
    <2>1. \A i \in DOMAIN seq : seq[i].miles \in Nat
      BY <1>3, TripIs DEF Table
    <2>2. Span(seq, GapsOf(seq), Len(seq)) \in Nat
      BY <1>3, <1>4, <2>1, SpanGrows
    <2> QED
      BY <1>1, <2>2
  <1> HIDE DEF start
  <1>8. trips' = (trips \ trips) \union trips'
    OBVIOUS
  <1>9. LET new == (trips \ trips) \union
                   Resequenced(Chronological(trips), GapsOf(seq), start, seq[1].fromSrc, "manual")
        IN  Table(new) /\ SameTrips(trips, new)
    BY <1>4, <1>6, <1>7, PartResequenced DEF seq
  <1>10. trips' = (trips \ trips) \union
                  Resequenced(Chronological(trips), GapsOf(seq), start, seq[1].fromSrc, "manual")
    BY <1>1, <1>8 DEF seq
  <1> QED
    BY <1>9, <1>10

(* The greater of two numbers.                                             *)
LEMMA MaxOfTwo ==
  ASSUME NEW a \in Int, NEW b \in Int
  PROVE  Max({a, b}) \in Int
  <1>1. IsFiniteSet({a, b})
    <2>1. {a, b} = {a} \union {b}
      OBVIOUS
    <2>2. IsFiniteSet({a}) /\ IsFiniteSet({b})
      BY FS_Singleton
    <2> QED
      BY <2>1, <2>2, FS_Union
  <1>2. Max({a, b}) \in {a, b}
    BY <1>1, MaxIn
  <1> QED
    BY <1>2

(* A manual trip has a time.                                               *)
LEMMA ManualStartType ==
  ASSUME Table(trips), now \in Int, NEW d \in Int
  PROVE  ManualStart(d) \in Int
  <1> DEFINE sameDay == {t \in trips : DayOf(t.start) = d}
             latest == {t \in sameDay : \A u \in sameDay : u.start <= t.start}
             behind == [t \in latest |-> Max({t.start, t.end}) + 1]
             first == IF d = DayOf(now) THEN now ELSE StartOf(d)
             asked == {first} \union {behind[t] : t \in latest}
  <1>1. first \in Int
    BY TimesAssumption DEF StartOf
  <1>2. \A t \in latest : behind[t] \in Int
    <2> SUFFICES ASSUME NEW t \in latest PROVE behind[t] \in Int
      OBVIOUS
    <2>1. t.start \in Int /\ t.end \in Int
      BY TripIs DEF Table
    <2>2. Max({t.start, t.end}) \in Int
      BY <2>1, MaxOfTwo
    <2>3. behind[t] = Max({t.start, t.end}) + 1
      OBVIOUS
    <2> HIDE DEF behind
    <2> QED
      BY <2>2, <2>3
  <1>3. IsFiniteSet(latest)
    <2>1. latest \in SUBSET trips
      OBVIOUS
    <2> QED
      BY <2>1, FS_Subset DEF Table
  <1>4. ManualStart(d) = Max(asked)
    BY DEF ManualStart
  <1> HIDE DEF behind, latest, first
  <1>5. asked \in SUBSET Int /\ asked # {}
    BY <1>1, <1>2
  <1>6. IsFiniteSet(asked)
    <2>1. IsFiniteSet({behind[t] : t \in latest})
      BY <1>3, FiniteValues
    <2>2. IsFiniteSet({first})
      BY FS_Singleton
    <2> QED
      BY <2>1, <2>2, FS_Union
  <1> HIDE DEF asked
  <1>7. Max(asked) \in asked
    BY <1>5, <1>6, MaxIn
  <1> QED
    BY <1>4, <1>5, <1>7

AddedAt(d) == {t \in trips : t.end < ManualStart(d)}
PreviousOf(d) ==
  {t \in AddedAt(d) : \A u \in AddedAt(d) : u.end < t.end \/ (u.end = t.end /\ u.id <= t.id)}
ManualTrip(d, from, to, m, o) ==
  [ id |-> NextId(trips), origin |-> from, dest |-> to, start |-> ManualStart(d),
    end |-> ManualStart(d), miles |-> m, mileage |-> "manual", from |-> o, to |-> o,
    fromSrc |-> "manual", toSrc |-> "manual", source |-> "manual" ]
ManualGaps(seq, d) == IF Len(seq) = 1 THEN << 0 >> ELSE GapsBehindNew(seq, PreviousOf(d))

(* The trip a user adds is new, and like the others a trip.                *)
LEMMA ManualTripIs ==
  ASSUME Table(trips), Table(gen.read), Table(gen.write), now \in Int,
         NEW d \in Days, NEW from \in Sites, NEW to \in Sites, NEW m \in Nat, NEW o \in Nat,
         \A e \in Events : e.at # ManualStart(d)
  PROVE  LET trip == ManualTrip(d, from, to, m, o)
         IN  /\ trip \in Trip /\ trip.id \notin Ids(UNION {trips, gen.read, gen.write})
             /\ Table(trips \union {trip})
  <1> DEFINE trip == ManualTrip(d, from, to, m, o)
             all == UNION {trips, gen.read, gen.write}
  <1>1. ManualStart(d) \in Int /\ ManualStart(d) \notin Times
    <2>1. d \in Int
      BY DEF Days
    <2>2. ManualStart(d) \in Int
      BY <2>1, ManualStartType
    <2>3. ManualStart(d) \notin Times
      BY DEF Times
    <2> QED
      BY <2>2, <2>3
  <1>2. NextId(trips) \in Nat /\ \A t \in all : t.id < NextId(trips)
    BY NextIdFresh
  <1>3. trip.id = NextId(trips)
    BY DEF ManualTrip
  <1>4. trip \in Trip
    BY <1>1, <1>2 DEF ManualTrip, Trip, TripType, Sources
  <1>5. \A t \in all : t.id # trip.id
    <2>1. \A t \in all : t.id \in Nat
      BY TripIs DEF Table
    <2> HIDE DEF trip, all
    <2> QED
      BY <1>2, <1>3, <2>1
  <1> HIDE DEF trip
  <1>6. Table(trips \union {trip})
    <2>1. IsFiniteSet(trips \union {trip})
      BY FS_AddElement DEF Table
    <2>2. UniqueIds(trips \union {trip})
      BY <1>5 DEF Table, UniqueIds
    <2> QED
      BY <1>4, <2>1, <2>2 DEF Table
  <1> QED
    BY <1>4, <1>5, <1>6 DEF trip, Ids

(* The gaps behind a trip added are numbers of miles.                      *)
LEMMA ManualGapsType ==
  ASSUME Table(trips), NEW d, NEW later, Table(later), later # {}
  PROVE  LET seq == Chronological(later)
             gaps == ManualGaps(seq, d)
         IN  /\ \A i \in DOMAIN seq : gaps[i] \in Nat
             /\ gaps[1] = 0
             /\ \A i \in DOMAIN seq : i > 2 => gaps[i] = GapsOf(seq)[i]
             /\ 2 \in DOMAIN seq =>
                  gaps[2] = IF PreviousOf(d) = {} THEN 0
                            ELSE Min0(seq[2].from - (CHOOSE t \in PreviousOf(d) : TRUE).to)
  <1> DEFINE seq == Chronological(later)
             gaps == ManualGaps(seq, d)
             p == CHOOSE t \in PreviousOf(d) : TRUE
  <1>1. SortedBy(seq, later, Order(later))
    BY ChronologicalIs
  <1>2. /\ DOMAIN seq = 1..Len(seq) /\ Len(seq) \in Nat /\ \A i \in DOMAIN seq : seq[i] \in later
        /\ \A t \in later : \E i \in DOMAIN seq : seq[i] = t
    BY <1>1 DEF SortedBy
  <1>3. /\ DOMAIN GapsOf(seq) = DOMAIN seq
        /\ \A i \in DOMAIN seq :
             GapsOf(seq)[i] \in Nat
             /\ GapsOf(seq)[i] = IF i = 1 THEN 0 ELSE Min0(seq[i].from - seq[i - 1].to)
    BY GapsType
  <1> HIDE DEF seq
  <1>4. Len(seq) > 0
    BY <1>2
  <1>5. CASE Len(seq) = 1
    <2>1. gaps = << 0 >>
      BY <1>5 DEF ManualGaps
    <2>2. DOMAIN seq = {1}
      BY <1>2, <1>5
    <2> HIDE DEF gaps
    <2> QED
      BY <2>1, <2>2 DEF gaps, seq
  <1>6. CASE Len(seq) > 1
    <2> DEFINE g == IF PreviousOf(d) = {} THEN 0 ELSE Min0(seq[2].from - p.to)
    <2>1. gaps = [GapsOf(seq) EXCEPT ![2] = g]
      BY <1>6 DEF ManualGaps, GapsBehindNew
    <2>2. 1 \in DOMAIN seq /\ 2 \in DOMAIN seq
      BY <1>2, <1>6
    <2>3. seq[2].from \in Nat
      BY <1>2, <2>2, TripIs DEF Table
    <2>4. PreviousOf(d) # {} => p.to \in Nat
      <3>1. PreviousOf(d) \subseteq Trip
        BY DEF PreviousOf, AddedAt, Table
      <3> QED
        BY <3>1, TripIs
    <2> HIDE DEF p
    <2>5. g \in Nat
      BY <2>3, <2>4 DEF Min0
    <2> HIDE DEF gaps, g
    <2>6. /\ \A i \in DOMAIN seq : gaps[i] = IF i = 2 THEN g ELSE GapsOf(seq)[i]
          /\ DOMAIN gaps = DOMAIN seq
      BY <1>3, <2>1
    <2>7. \A i \in DOMAIN seq : gaps[i] \in Nat
      BY <1>3, <2>5, <2>6
    <2>8. /\ gaps[1] = 0 /\ gaps[2] = g
          /\ \A i \in DOMAIN seq : i > 2 => gaps[i] = GapsOf(seq)[i]
      BY <1>2, <1>3, <2>2, <2>6
    <2> QED
      BY <2>7, <2>8 DEF g, gaps, p, seq
  <1> QED
    BY <1>2, <1>4, <1>5, <1>6 DEF seq, gaps

(* Adding a trip keeps the others.                                         *)
LEMMA AddTripIs ==
  ASSUME Typed, NEW d \in Days, NEW from \in Sites, NEW to \in Sites, NEW m \in Entries,
         NEW o \in Entries, AddTrip(d, from, to, m, o)
  PROVE  LET trip  == ManualTrip(d, from, to, m, o)
             later == Onward(trips \union {trip}, trip)
             seq   == Chronological(later)
         IN  /\ trip \in Trip /\ trip.id \notin Ids(UNION {trips, gen.read, gen.write})
             /\ Table(trips \union {trip})
             /\ trips' = ((trips \union {trip}) \ later) \union
                         Resequenced(seq, ManualGaps(seq, d), o, "owntracks_rolling", "estimated")
             /\ Table(trips') /\ SameTrips(trips \union {trip}, trips')
             /\ reports' = With(reports, trip.id, m)
  <1> DEFINE trip == ManualTrip(d, from, to, m, o)
             table == trips \union {trip}
             later == Onward(table, trip)
             seq == Chronological(later)
             gaps == ManualGaps(seq, d)
             T == Resequenced(seq, gaps, o, "owntracks_rolling", "estimated")
  <1>1. /\ \A e \in Events : e.at # ManualStart(d)
        /\ trips' = (trips \ later) \union T
        /\ reports' = With(reports, trip.id, m)
    BY DEF AddTrip, ManualTrip, ManualGaps, PreviousOf, AddedAt
  <1>2. m \in Nat /\ o \in Nat /\ now \in Int /\ Table(trips)
    BY MilesAssumption DEF Typed
  <1>3. /\ trip \in Trip /\ trip.id \notin Ids(UNION {trips, gen.read, gen.write})
        /\ Table(table)
    BY <1>1, <1>2, ManualTripIs DEF Typed
  <1>4. later \in SUBSET table /\ trip \in later
    BY DEF Onward
  <1> HIDE DEF trip
  <1>5. trips \ later = table \ later
    BY <1>4
  <1>6. Table(later) /\ later # {}
    BY <1>3, <1>4, FS_Subset DEF Table, UniqueIds
  <1> HIDE DEF table, later
  <1>7. \A i \in DOMAIN seq : gaps[i] \in Nat
    BY <1>2, <1>6, ManualGapsType
  <1>8. "owntracks_rolling" \in Sources /\ "estimated" \in Sources
    BY DEF Sources
  <1> HIDE DEF gaps
  <1>9. Table((table \ later) \union T) /\ SameTrips(table, (table \ later) \union T)
    BY <1>2, <1>3, <1>4, <1>7, <1>8, PartResequenced
  <1> QED
    BY <1>1, <1>3, <1>5, <1>9 DEF trip, table, later, gaps

-----------------------------------------------------------------------------
(***************************************************************************)
(* The invariant holds at first and survives every step.                   *)
(***************************************************************************)

(* A table without trips.                                                  *)
LEMMA EmptyTable == Table({})
  BY FS_EmptySet DEF Table, UniqueIds

(* At first.                                                               *)
LEMMA InitInv == Init => TripInv
  <1> SUFFICES ASSUME Init PROVE TripInv
    OBVIOUS
  <1>1. Typed
    BY EmptyTable, BoundsAssumption DEF Init, Typed, Idle
  <1>2. Reported
    BY DEF Init, Reported
  <1>3. Under
    BY DEF Init, Under, Idle
  <1>4. Discarded
    BY DEF Init, Discarded
  <1> QED
    BY <1>1, <1>2, <1>3, <1>4 DEF TripInv

(* What a step leaves alone, and forgets of the deletions.                 *)
LEMMA UnderStays ==
  ASSUME Reported, Under, UNCHANGED << trips, gen, reports, rerouted >>,
         discarded' \subseteq discarded
  PROVE  Reported' /\ Under'
  <1>1. Reported'
    BY DEF Reported, Ids
  <1>2. ASSUME ReadKept PROVE ReadKept'
    BY <1>2 DEF ReadKept, Signature, Updated, Ids, ById
  <1>3. ASSUME ReadMatches PROVE ReadMatches'
    BY <1>3 DEF ReadMatches, Signature, Ids
  <1>4. ASSUME AddsNew PROVE AddsNew'
    BY <1>4 DEF AddsNew, Signature, Ids
  <1> QED
    BY <1>1, <1>2, <1>3, <1>4 DEF Under

(* The clock and the rows do not touch trips or generation.                *)
LEMMA RowsInv ==
  ASSUME TripInv, Tick \/ \E e \in Events : StoreRow(e)
  PROVE  TripInv'
  <1>1. UNCHANGED << trips, deleted, gen, ops, reports, rerouted, discarded >>
    BY DEF Tick, StoreRow, history
  <1>2. Reported' /\ Under'
    BY <1>1, UnderStays DEF TripInv
  <1>d. Discarded'
    BY <1>1 DEF TripInv, Discarded, Ids
  <1>3. now' \in 0..MaxTime /\ stored' \in Seq(Events) /\ touched' \subseteq Days
    <2>1. now \in 0..MaxTime /\ stored \in Seq(Events) /\ touched \subseteq Days
      BY DEF TripInv, Typed
    <2>2. CASE Tick
      BY <2>1, <2>2, BoundsAssumption DEF Tick
    <2>3. ASSUME NEW e \in Events, StoreRow(e)
          PROVE  now' \in 0..MaxTime /\ stored' \in Seq(Events) /\ touched' \subseteq Days
      BY <2>1, <2>3 DEF StoreRow
    <2> QED
      BY <2>2, <2>3
  <1>4. Typed'
    BY <1>1, <1>3 DEF TripInv, Typed, Table, UniqueIds
  <1> QED
    BY <1>2, <1>d, <1>4 DEF TripInv

(* A trip of a table by its id.                                            *)
LEMMA ByIdIs ==
  ASSUME NEW table, Table(table), NEW t \in table
  PROVE  ById(table, t.id) = t
  <1>1. \A u \in table : u.id = t.id => u = t
    BY DEF Table, UniqueIds
  <1>2. ById(table, t.id) \in table /\ ById(table, t.id).id = t.id
    BY DEF ById
  <1> QED
    BY <1>1, <1>2

(* A generation begins: what it will write is right beside what it read.   *)
LEMMA BeginInv ==
  ASSUME TripInv, NEW d \in Days, BeginGeneration(d)
  PROVE  TripInv'
  <1>1. Typed /\ Reported /\ Discarded
    BY DEF TripInv
  <1>2. /\ UNCHANGED << now, stored, trips, deleted, ops, reports, rerouted, discarded >>
        /\ touched' \subseteq touched
    BY DEF BeginGeneration, history
  <1>d. Discarded'
    BY <1>1, <1>2 DEF Discarded, Ids
  <1>3. CASE UNCHANGED gen
    <2>1. Typed'
      BY <1>1, <1>2, <1>3 DEF Typed, Table, UniqueIds
    <2>2. Reported' /\ Under'
      BY <1>2, <1>3, UnderStays DEF TripInv
    <2> QED
      BY <1>d, <2>1, <2>2 DEF TripInv
  <1>4. CASE gen' # gen
    <2> DEFINE near == Loaded(d, Rows)
               out == Generated(d, Rows, trips, now)
    <2>1. gen' = [active |-> TRUE, read |-> trips, write |-> out.table, bury |-> out.bury]
      BY <1>4 DEF BeginGeneration
    <2>2. out \in Results(trips, near)
      BY <1>1, GenerationIn DEF Typed
    <2> HIDE DEF out, near
    <2>3. gen'.active = TRUE /\ gen'.read = trips /\ gen'.write = out.table /\ gen'.bury = out.bury
      BY <2>1
    <2>4. /\ Table(out.table) /\ out.bury \subseteq Signatures
          /\ \A r \in trips, u \in out.table : u.id = r.id => Keeps(r, u)
          /\ \A u \in out.table : u.id \notin Ids(trips) => Fresh(u, trips, near)
      BY <2>2 DEF Results
    <2>5. Typed'
      <3>1. Table(trips') /\ Table(gen'.read) /\ Table(gen'.write)
        BY <1>1, <1>2, <2>3, <2>4 DEF Typed
      <3>2. Table(trips)' /\ Table(gen.read)' /\ Table(gen.write)'
        BY <3>1 DEF Table, UniqueIds
      <3> QED
        BY <1>1, <1>2, <2>3, <2>4, <3>2 DEF Typed
    <2>6. Reported'
      BY <1>1, <1>2 DEF Reported, Ids
    <2>7. ReadKept'
      <3>1. \A r \in trips, w \in out.table :
              r.id = w.id => Signature(r) = Signature(w) /\ r.source = w.source
        BY <2>4 DEF Keeps
      <3>2. ASSUME NEW i \in Ids(trips) \intersect Ids(out.table),
                   ById(trips, i) # ById(out.table, i), i \in DOMAIN reports
            PROVE  FALSE
        <4>1. PICK r \in trips : r.id = i
          BY DEF Ids
        <4>2. PICK w \in out.table : w.id = i
          BY DEF Ids
        <4>3. ById(trips, i) = r /\ ById(out.table, i) = w
          BY <1>1, <2>4, <4>1, <4>2, ByIdIs DEF Typed
        <4>4. r.mileage = "manual"
          BY <1>1, <3>2, <4>1 DEF Reported
        <4> QED
          BY <2>4, <3>2, <4>1, <4>2, <4>3, <4>4 DEF Keeps
      <3>3. Updated' = {i \in Ids(trips) \intersect Ids(out.table) :
                          ById(trips, i) # ById(out.table, i)}
        BY <2>3 DEF Updated, Ids, ById
      <3>4. Updated' \intersect DOMAIN reports = {}
        BY <3>2, <3>3
      <3> QED
        BY <1>2, <2>3, <3>1, <3>4 DEF ReadKept, Signature
    <2>8. ReadMatches'
      <3>1. \A t, r \in trips : t.id = r.id => t = r
        BY <1>1 DEF Typed, Table, UniqueIds
      <3> QED
        BY <1>2, <2>3, <3>1 DEF ReadMatches, Ids, Signature
    <2>9. AddsNew'
      <3> SUFFICES ASSUME NEW u \in out.table, u.id \notin Ids(trips)
                   PROVE  /\ u.source = "auto" /\ u.end \in Times
                          /\ \A r \in trips : Signature(r) # Signature(u)
                          /\ Signature(u) \notin deleted
        BY <1>1, <1>2, <2>3 DEF AddsNew, Discarded, Ids, Signature
      <3>1. Fresh(u, trips, near)
        BY <2>4
      <3>2. ASSUME NEW r \in trips, Signature(r) = Signature(u) PROVE FALSE
        <4>1. r \in Trip /\ r.source \in {"auto", "manual"}
          BY <1>1 DEF Typed, Table, Trip, TripType
        <4>2. r.end = u.end
          BY <3>2, SameSignature
        <4> QED
          BY <3>1, <3>2, <4>1, <4>2 DEF Fresh, Trip
      <3> QED
        BY <3>1, <3>2 DEF Fresh
    <2> QED
      BY <1>d, <2>5, <2>6, <2>7, <2>8, <2>9 DEF TripInv, Under
  <1> QED
    BY <1>3, <1>4

(* The trips of the table behind a commit: the merged ones and the new.    *)
LEMMA TableAfterCommitIs ==
  ASSUME Typed, ReadKept, AddsNew
  PROVE  /\ Table(TableAfterCommit)
         /\ \A u \in TableAfterCommit :
              \/ \E t \in trips : u = Merged(t)
              \/ u \in gen.write /\ u.id \notin Ids(gen.read) /\ u.id \notin Ids(trips)
  <1> DEFINE kept == {t \in trips : t.id \notin Ids(gen.read) \ Ids(gen.write)}
             old == {Merged(t) : t \in kept}
             new == {t \in gen.write : t.id \notin Ids(gen.read)}
             merge == [t \in kept |-> Merged(t)]
  <1>1. TableAfterCommit = old \union new
    BY DEF TableAfterCommit
  <1>2. \A u \in new : u \in gen.write /\ u.id \notin Ids(gen.read) /\ u.id \notin Ids(trips)
    BY DEF AddsNew
  <1>3. \A t \in kept : Merged(t) \in Trip /\ Merged(t).id = t.id
    BY MergedIs
  <1>4. IsFiniteSet(old)
    <2>1. IsFiniteSet(kept)
      <3>1. kept \in SUBSET trips
        OBVIOUS
      <3> QED
        BY <3>1, FS_Subset DEF Typed, Table
    <2>2. old = {merge[t] : t \in kept}
      OBVIOUS
    <2> HIDE DEF kept, old, merge
    <2> QED
      BY <2>1, <2>2, FiniteValues
  <1>5. new \subseteq Trip /\ IsFiniteSet(new) /\ UniqueIds(new)
    <2>1. new \in SUBSET gen.write
      OBVIOUS
    <2> QED
      BY <2>1, FS_Subset DEF Typed, Table, UniqueIds
  <1>6. UniqueIds(old)
    <2>1. \A t, u \in kept : t.id = u.id => t = u
      BY DEF Typed, Table, UniqueIds
    <2> HIDE DEF kept
    <2> QED
      BY <1>3, <2>1 DEF UniqueIds
  <1>7. UniqueIds(old \union new)
    <2>1. \A t \in old, u \in new : t.id # u.id
      BY <1>2, <1>3 DEF Ids
    <2> HIDE DEF old, new
    <2> QED
      BY <1>5, <1>6, <2>1 DEF UniqueIds
  <1>8. Table(old \union new)
    BY <1>3, <1>4, <1>5, <1>7, FS_Union DEF Table
  <1>9. \A u \in old : \E t \in trips : u = Merged(t)
    OBVIOUS
  <1> HIDE DEF old, new
  <1> QED
    BY <1>1, <1>2, <1>8, <1>9

(* A commit keeps the trips whose miles the user reported.                 *)
LEMMA CommitInv ==
  ASSUME TripInv, CommitGeneration
  PROVE  TripInv'
  <1>1. /\ gen.active /\ trips' = TableAfterCommit /\ deleted' = deleted \union gen.bury
        /\ reports' = Only(reports, Ids(trips')) /\ gen' = Idle
        /\ rerouted' = rerouted \intersect Ids(trips')
        /\ UNCHANGED << now, stored, touched, ops, discarded >>
    BY DEF CommitGeneration
  <1>2. Typed /\ Reported /\ Discarded /\ ReadKept /\ AddsNew
    BY <1>1 DEF TripInv, Under
  <1>3. /\ Table(trips')
        /\ \A u \in trips' :
             \/ \E t \in trips : u = Merged(t)
             \/ u \in gen.write /\ u.id \notin Ids(gen.read) /\ u.id \notin Ids(trips)
    BY <1>1, <1>2, TableAfterCommitIs
  <1>4. Typed'
    <2>1. gen'.active = FALSE /\ gen'.read = {} /\ gen'.write = {} /\ gen'.bury = {}
      BY <1>1 DEF Idle
    <2>2. Table(trips)' /\ Table(gen.read)' /\ Table(gen.write)'
      <3>1. Table(gen'.read) /\ Table(gen'.write)
        BY <2>1, EmptyTable
      <3> QED
        BY <1>3, <3>1 DEF Table, UniqueIds
    <2> QED
      BY <1>1, <1>2, <2>1, <2>2 DEF Typed
  <1>5. /\ DOMAIN reports' = DOMAIN reports \intersect Ids(trips')
        /\ \A i \in DOMAIN reports' : reports'[i] = reports[i]
    BY <1>1 DEF Only
  <1>6. ASSUME NEW u \in trips', u.id \in DOMAIN reports'
        PROVE  u.mileage = "manual" /\ u.miles = reports'[u.id]
    <2>1. u.id \in DOMAIN reports /\ u.id \in Ids(trips) /\ reports'[u.id] = reports[u.id]
      BY <1>2, <1>5, <1>6 DEF Reported
    <2>2. PICK t \in trips : u = Merged(t)
      BY <1>3, <2>1
    <2>3. t.id = u.id
      BY <1>2, <2>2, MergedIs
    <2>4. t.id \notin Updated
      BY <1>2, <2>1, <2>3 DEF ReadKept
    <2>5. u = t
      BY <1>2, <2>2, <2>4, MergedIs
    <2> QED
      BY <1>2, <2>1, <2>5 DEF Reported
  <1>7. Reported'
    BY <1>5, <1>6 DEF Reported, Ids
  <1>8. Under'
    BY <1>1 DEF Under, Idle
  <1>9. Discarded'
    BY <1>1, <1>2 DEF Discarded, Ids
  <1> QED
    BY <1>4, <1>7, <1>8, <1>9 DEF TripInv

(* A generation that fails leaves everything as it was.                    *)
LEMMA FailsInv ==
  ASSUME TripInv, GenerationFails
  PROVE  TripInv'
  <1>1. /\ gen' = Idle
        /\ UNCHANGED << now, stored, touched, trips, deleted, ops, reports, rerouted, discarded >>
    BY DEF GenerationFails, history
  <1>2. gen'.active = FALSE /\ gen'.read = {} /\ gen'.write = {} /\ gen'.bury = {}
    BY <1>1 DEF Idle
  <1>3. Typed'
    <2>1. Table(trips') /\ Table(gen'.read) /\ Table(gen'.write)
      BY <1>1, <1>2, EmptyTable DEF TripInv, Typed
    <2>2. Table(trips)' /\ Table(gen.read)' /\ Table(gen.write)'
      BY <2>1 DEF Table, UniqueIds
    <2> QED
      BY <1>1, <1>2, <2>2 DEF TripInv, Typed
  <1>4. Reported' /\ Discarded'
    BY <1>1 DEF TripInv, Reported, Discarded, Ids
  <1>5. Under'
    BY <1>2 DEF Under
  <1> QED
    BY <1>3, <1>4, <1>5 DEF TripInv

(* What follows from a new table of trips alone.                           *)
LEMMA TypedAgain ==
  ASSUME Typed, UNCHANGED << now, stored, touched, gen >>, Table(trips'),
         deleted' \subseteq Signatures, ops' \in 0..MaxOps
  PROVE  Typed'
  <1>1. Table(gen'.read) /\ Table(gen'.write)
    BY DEF Typed
  <1>2. Table(trips)' /\ Table(gen.read)' /\ Table(gen.write)'
    BY <1>1 DEF Table, UniqueIds
  <1> QED
    BY <1>2 DEF Typed

(* The user's operations are counted.                                      *)
LEMMA OpsType == ASSUME Typed, UserActs PROVE ops' \in 0..MaxOps
  BY BoundsAssumption DEF Typed, UserActs

(* The reports behind an edit.                                             *)
LEMMA ReportsWithIs ==
  ASSUME NEW t, NEW m, reports' = ReportsWith(t, m)
  PROVE  /\ DOMAIN reports' \subseteq DOMAIN reports \union {t.id}
         /\ \A i \in DOMAIN reports' \ {t.id} : i \in DOMAIN reports /\ reports'[i] = reports[i]
         /\ t.id \in DOMAIN reports' =>
              \/ reports'[t.id] = m /\ t.id \notin Rewritten
              \/ m = t.miles /\ t.id \in DOMAIN reports /\ reports'[t.id] = reports[t.id]
  BY DEF ReportsWith, Without, With

(* An edit leaves its miles with the trip, and the trip in its place.      *)
LEMMA EditInv ==
  ASSUME TripInv, NEW t \in trips, NEW o \in Sites, NEW d \in Sites,
         NEW m \in Entries \union {t.miles}, EditTrip(t, o, d, m)
  PROVE  TripInv'
  <1>1. /\ Typed /\ Reported /\ Table(trips)
        /\ Discarded
        /\ UNCHANGED << now, stored, touched, deleted, gen, discarded >> /\ UserActs
        /\ reports' = ReportsWith(t, m) /\ rerouted' = ReroutedWith(t, o, d)
    BY DEF TripInv, Typed, EditTrip
  <1>2. m \in Nat
    BY <1>1, MilesAssumption, TripIs DEF Table
  <1>3. /\ Table(trips')
        /\ \A u \in trips' : \E v \in trips : EditedTrip(t, v, u, m)
        /\ \A v \in trips : \E u \in trips' : EditedTrip(t, v, u, m)
        /\ \A u \in trips' : u.id = t.id => Signature(u) = << o, d, t.start, t.end >>
    BY <1>1, <1>2, EditTripIs
  <1>4. Typed'
    BY <1>1, <1>3, TypedAgain, OpsType DEF Typed
  <1>5. Ids(trips') = Ids(trips)
    <2>1. \A u \in trips' : \E v \in trips : u.id = v.id
      BY <1>3 DEF EditedTrip
    <2>2. \A v \in trips : \E u \in trips' : u.id = v.id
      BY <1>3 DEF EditedTrip
    <2> QED
      BY <2>1, <2>2 DEF Ids
  <1>6. t.id \in Ids(trips)
    BY DEF Ids
  <1>r. /\ DOMAIN reports' \subseteq DOMAIN reports \union {t.id}
        /\ \A i \in DOMAIN reports' \ {t.id} : i \in DOMAIN reports /\ reports'[i] = reports[i]
        /\ t.id \in DOMAIN reports' =>
             \/ reports'[t.id] = m /\ t.id \notin Rewritten
             \/ m = t.miles /\ t.id \in DOMAIN reports /\ reports'[t.id] = reports[t.id]
    BY <1>1, ReportsWithIs
  <1>7. Reported'
    <2>1. DOMAIN reports' \subseteq Ids(trips')
      BY <1>1, <1>5, <1>6, <1>r DEF Reported
    <2>2. ASSUME NEW u \in trips', u.id \in DOMAIN reports'
          PROVE  u.mileage = "manual" /\ u.miles = reports'[u.id]
      <3>1. PICK v \in trips : EditedTrip(t, v, u, m)
        BY <1>3
      <3>2. CASE v = t
        <4>1. u.id = t.id /\ u.mileage = "manual" /\ u.miles = m
          BY <3>1, <3>2 DEF EditedTrip
        <4> QED
          BY <1>1, <1>r, <2>2, <4>1 DEF Reported
      <3>3. CASE v # t
        <4>1. u.id = v.id /\ u.mileage = v.mileage /\ u.miles = v.miles
          BY <3>1, <3>3 DEF EditedTrip, SameTrip
        <4>2. v.id # t.id
          BY <1>1, <3>3 DEF Table, UniqueIds
        <4>3. v.id \in DOMAIN reports /\ reports'[v.id] = reports[v.id]
          BY <1>r, <2>2, <4>1, <4>2
        <4> QED
          BY <1>1, <4>1, <4>3 DEF Reported
      <3> QED
        BY <3>2, <3>3
    <2> QED
      BY <2>1, <2>2 DEF Reported, Ids
  <1>8. ASSUME gen.active PROVE ReadKept' /\ ReadMatches' /\ AddsNew'
    <2>1. ReadKept /\ ReadMatches /\ AddsNew
      BY <1>8 DEF TripInv, Under
    <2>2. ReadKept'
      <3>1. Updated' = Updated /\ Rewritten = Updated
        BY <1>1, <1>8 DEF Updated, Rewritten, Ids, ById
      <3>2. Updated \intersect DOMAIN reports' = {}
        BY <1>r, <2>1, <3>1 DEF ReadKept
      <3> QED
        BY <1>1, <2>1, <3>1, <3>2 DEF ReadKept, Signature
    <2>3. ReadMatches'
      <3>1. ASSUME NEW u \in trips'
            PROVE  \E v \in trips :
                     /\ u.id = v.id /\ u.start = v.start /\ u.end = v.end /\ u.source = v.source
                     /\ u.id \notin rerouted' =>
                          u.id \notin rerouted /\ Signature(u) = Signature(v)
        <4>1. PICK v \in trips : EditedTrip(t, v, u, m)
          BY <1>3
        <4>2. u.id = v.id /\ u.start = v.start /\ u.end = v.end /\ u.source = v.source
          BY <4>1 DEF EditedTrip
        <4>3. rerouted \subseteq rerouted'
          BY <1>1 DEF ReroutedWith
        <4>4. ASSUME u.id \notin rerouted' PROVE Signature(u) = Signature(v)
          <5>1. CASE v # t
            BY <4>1, <5>1 DEF EditedTrip, SameTrip
          <5>2. CASE v = t
            <6>1. << o, d >> = << t.origin, t.dest >>
              BY <1>1, <4>2, <4>4, <5>2 DEF ReroutedWith
            <6>2. o = t.origin /\ d = t.dest
              BY <6>1
            <6> QED
              BY <1>3, <4>2, <5>2, <6>2 DEF Signature
          <5> QED
            BY <5>1, <5>2
        <4> QED
          BY <4>2, <4>3, <4>4
      <3> QED
        BY <1>1, <2>1, <3>1 DEF ReadMatches, Ids, Signature
    <2>4. AddsNew'
      BY <1>1, <1>5, <2>1 DEF AddsNew, Ids, Signature
    <2> QED
      BY <2>2, <2>3, <2>4
  <1>9. Under'
    BY <1>1, <1>8 DEF Under
  <1>10. Discarded'
    BY <1>1, <1>5, <1>6 DEF Discarded, ReroutedWith, Ids
  <1> QED
    BY <1>4, <1>7, <1>9, <1>10 DEF TripInv

(* A trip deleted while a generation runs is not one it is about to add.   *)
LEMMA DeleteInv ==
  ASSUME TripInv, NEW t \in trips, DeleteTrip(t)
  PROVE  TripInv'
  <1>1. /\ Typed /\ Reported /\ Discarded /\ Table(trips) /\ t \in Trip
        /\ trips' = trips \ {t} /\ deleted' = deleted \union {Signature(t)}
        /\ reports' = Without(reports, t.id) /\ rerouted' = rerouted \ {t.id} /\ UserActs
        /\ discarded' = IF t.source = "manual" THEN discarded
                        ELSE discarded \union {<< Signature(t), t.id \in rerouted >>}
        /\ UNCHANGED << now, stored, touched, gen >>
    BY DEF TripInv, Typed, Table, DeleteTrip
  <1>2. Table(trips')
    BY <1>1, FS_RemoveElement DEF Table, UniqueIds
  <1>3. Signature(t) \in Signatures
    BY <1>1 DEF Trip, TripType, Signature, Signatures
  <1>4. Typed'
    BY <1>1, <1>2, <1>3, TypedAgain, OpsType DEF Typed
  <1>5. /\ DOMAIN reports' = DOMAIN reports \ {t.id}
        /\ \A i \in DOMAIN reports' : reports'[i] = reports[i]
    BY <1>1 DEF Without
  <1>6. Reported'
    <2>1. DOMAIN reports' \subseteq Ids(trips')
      BY <1>1, <1>5 DEF Reported, Ids
    <2>2. \A u \in trips' : u.id \in DOMAIN reports' =>
            u.mileage = "manual" /\ u.miles = reports'[u.id]
      BY <1>1, <1>5 DEF Reported
    <2> QED
      BY <2>1, <2>2 DEF Reported, Ids
  <1>7. ASSUME gen.active PROVE ReadKept' /\ ReadMatches' /\ AddsNew'
    <2>1. ReadKept /\ ReadMatches /\ AddsNew
      BY <1>7 DEF TripInv, Under
    <2>2. ReadKept'
      <3>1. Updated' = Updated
        BY <1>1 DEF Updated, Ids, ById
      <3> QED
        BY <1>1, <1>5, <2>1, <3>1 DEF ReadKept, Signature
    <2>3. ReadMatches'
      <3>1. \A u \in trips' : u \in trips /\ u.id # t.id
        BY <1>1 DEF Table, UniqueIds
      <3>2. \A u \in trips' : u.id \notin rerouted' => u.id \notin rerouted
        BY <1>1, <3>1
      <3> QED
        BY <1>1, <2>1, <3>1, <3>2 DEF ReadMatches, Ids, Signature
    <2>4. AddsNew'
      <3>1. ASSUME NEW u \in gen.write, u.id \notin Ids(gen.read)
            PROVE  /\ u.id \notin Ids(trips') /\ u.source = "auto" /\ u.end \in Times
                   /\ \A r \in gen.read : Signature(r) # Signature(u)
                   /\ << Signature(u), FALSE >> \notin discarded'
        <4>1. /\ u.id \notin Ids(trips) /\ u.source = "auto" /\ u.end \in Times
              /\ \A r \in gen.read : Signature(r) # Signature(u)
              /\ << Signature(u), FALSE >> \notin discarded
          BY <2>1, <3>1 DEF AddsNew
        <4>2. u.id \notin Ids(trips')
          BY <1>1, <4>1 DEF Ids
        <4>3. ASSUME t.source # "manual", t.id \notin rerouted
              PROVE  Signature(t) # Signature(u)
          <5>1. t.id \in Ids(gen.read)
            BY <2>1, <4>3 DEF ReadMatches
          <5>2. PICK r \in gen.read : r.id = t.id
            BY <5>1 DEF Ids
          <5>3. Signature(r) = Signature(t)
            BY <2>1, <4>3, <5>2 DEF ReadMatches
          <5> QED
            BY <4>1, <5>3
        <4>4. << Signature(u), FALSE >> \notin discarded'
          <5>1. CASE t.source = "manual"
            BY <1>1, <4>1, <5>1
          <5>2. CASE t.source # "manual" /\ t.id \notin rerouted
            BY <1>1, <4>1, <4>3, <5>2
          <5>3. CASE t.source # "manual" /\ t.id \in rerouted
            BY <1>1, <4>1, <5>3
          <5> QED
            BY <5>1, <5>2, <5>3
        <4> QED
          BY <4>1, <4>2, <4>4
      <3> QED
        BY <1>1, <3>1 DEF AddsNew, Ids, Signature
    <2> QED
      BY <2>2, <2>3, <2>4
  <1>8. Under'
    BY <1>1, <1>7 DEF Under
  <1>9. Discarded'
    <2>1. rerouted' \subseteq Ids(trips')
      BY <1>1 DEF Discarded, Ids
    <2>2. discarded' \subseteq Signatures \X BOOLEAN
      <3>1. discarded \subseteq Signatures \X BOOLEAN
        BY <1>1 DEF Discarded
      <3>2. ASSUME NEW x \in discarded' PROVE x \in Signatures \X BOOLEAN
        <4>1. CASE x \in discarded
          BY <3>1, <4>1
        <4>2. ASSUME x = << Signature(t), t.id \in rerouted >> PROVE x \in Signatures \X BOOLEAN
          <5>1. CASE t.id \in rerouted
            BY <1>3, <4>2, <5>1
          <5>2. CASE t.id \notin rerouted
            <6>1. (t.id \in rerouted) = FALSE
              BY <5>2
            <6> QED
              BY <1>3, <4>2, <6>1
          <5> QED
            BY <5>1, <5>2
        <4> QED
          BY <1>1, <3>2, <4>1, <4>2
      <3> QED
        BY <3>2
    <2>3. \A k : << k, FALSE >> \in discarded' => k \in deleted'
      BY <1>1 DEF Discarded
    <2> QED
      BY <2>1, <2>2, <2>3 DEF Discarded
  <1> QED
    BY <1>4, <1>6, <1>8, <1>9 DEF TripInv

(* A deletion forgotten.                                                   *)
LEMMA ForgetInv ==
  ASSUME TripInv, NEW k, ForgetDeleted(k)
  PROVE  TripInv'
  <1>1. /\ deleted' = deleted \ {k} /\ UserActs
        /\ discarded' = {x \in discarded : x[1] # k}
        /\ UNCHANGED << now, stored, touched, trips, gen, reports, rerouted >>
    BY DEF ForgetDeleted
  <1>2. Typed /\ Table(trips') /\ deleted' \subseteq Signatures
    BY <1>1 DEF TripInv, Typed
  <1>3. Typed'
    BY <1>1, <1>2, TypedAgain, OpsType
  <1>4. Reported' /\ Under'
    BY <1>1, UnderStays DEF TripInv
  <1>5. Discarded'
    <2>1. \A j : << j, FALSE >> \in discarded' => j \in deleted'
      BY <1>1 DEF TripInv, Discarded
    <2> QED
      BY <1>1, <2>1 DEF TripInv, Discarded, Ids
  <1> QED
    BY <1>3, <1>4, <1>5 DEF TripInv

(* The odometers of all trips aligned.                                     *)
LEMMA AlignInv ==
  ASSUME TripInv, NEW v \in Entries, AlignTrips(v)
  PROVE  TripInv'
  <1>1. /\ Typed /\ Reported /\ Discarded /\ Table(trips) /\ UserActs
        /\ UNCHANGED << now, stored, touched, deleted, gen, reports, rerouted, discarded >>
    BY DEF TripInv, Typed, AlignTrips, history
  <1>2. Table(trips') /\ SameTrips(trips, trips')
    BY <1>1, MilesAssumption, AlignTripsIs
  <1>3. Typed'
    BY <1>1, <1>2, TypedAgain, OpsType DEF Typed
  <1>4. Ids(trips') = Ids(trips)
    BY <1>2 DEF Ids, SameTrips, SameTrip
  <1>5. \A u \in trips' : \E t \in trips :
          /\ u.id = t.id /\ u.start = t.start /\ u.end = t.end /\ u.source = t.source
          /\ Signature(u) = Signature(t)
          /\ u.miles = t.miles /\ u.mileage = t.mileage
    BY <1>2, SameSignature DEF SameTrips, SameTrip
  <1>6. Reported'
    <2>1. \A u \in trips' : u.id \in DOMAIN reports =>
            u.mileage = "manual" /\ u.miles = reports[u.id]
      BY <1>1, <1>5 DEF Reported
    <2> QED
      BY <1>1, <1>4, <2>1 DEF Reported, Ids
  <1>7. ASSUME gen.active PROVE ReadKept' /\ ReadMatches' /\ AddsNew'
    <2>1. ReadKept /\ ReadMatches /\ AddsNew
      BY <1>7 DEF TripInv, Under
    <2>2. ReadKept'
      BY <1>1, <2>1 DEF ReadKept, Signature, Updated, Ids, ById
    <2>3. ReadMatches'
      BY <1>1, <1>5, <2>1 DEF ReadMatches, Ids, Signature
    <2>4. AddsNew'
      BY <1>1, <1>4, <2>1 DEF AddsNew, Ids, Signature
    <2> QED
      BY <2>2, <2>3, <2>4
  <1>8. Under'
    BY <1>1, <1>7 DEF Under
  <1>9. Discarded'
    BY <1>1, <1>4 DEF Discarded
  <1> QED
    BY <1>3, <1>6, <1>8, <1>9 DEF TripInv

(* A trip added has an id of its own, and its miles.                       *)
LEMMA AddInv ==
  ASSUME TripInv, NEW d \in Days, NEW from \in Sites, NEW to \in Sites, NEW m \in Entries,
         NEW o \in Entries, AddTrip(d, from, to, m, o)
  PROVE  TripInv'
  <1> DEFINE trip == ManualTrip(d, from, to, m, o)
  <1>1. /\ Typed /\ Reported /\ Discarded /\ Table(trips) /\ UserActs
        /\ UNCHANGED << now, stored, touched, deleted, gen, rerouted, discarded >>
    BY DEF TripInv, Typed, AddTrip
  <1>2. /\ trip.id \notin Ids(UNION {trips, gen.read, gen.write})
        /\ Table(trips') /\ SameTrips(trips \union {trip}, trips')
        /\ reports' = With(reports, trip.id, m)
    BY <1>1, AddTripIs
  <1>3. trip.source = "manual" /\ trip.mileage = "manual" /\ trip.miles = m
    BY DEF ManualTrip
  <1> HIDE DEF trip
  <1>4. Typed'
    BY <1>1, <1>2, TypedAgain, OpsType DEF Typed
  <1>5. trip.id \notin Ids(trips) /\ trip.id \notin Ids(gen.read) /\ trip.id \notin Ids(gen.write)
    BY <1>2 DEF Ids
  <1>6. Ids(trips') = Ids(trips) \union {trip.id}
    BY <1>2 DEF Ids, SameTrips, SameTrip
  <1>7. \A u \in trips' : \E t \in trips \union {trip} :
          /\ u.id = t.id /\ u.start = t.start /\ u.end = t.end /\ u.source = t.source
          /\ Signature(u) = Signature(t)
          /\ u.miles = t.miles /\ u.mileage = t.mileage
    BY <1>2, SameSignature DEF SameTrips, SameTrip
  <1>8. /\ DOMAIN reports' = DOMAIN reports \union {trip.id}
        /\ \A i \in DOMAIN reports' : reports'[i] = IF i = trip.id THEN m ELSE reports[i]
    BY <1>2 DEF With
  <1>9. Reported'
    <2>1. ASSUME NEW u \in trips', u.id \in DOMAIN reports'
          PROVE  u.mileage = "manual" /\ u.miles = reports'[u.id]
      <3>1. PICK t \in trips \union {trip} :
              u.id = t.id /\ u.miles = t.miles /\ u.mileage = t.mileage
        BY <1>7
      <3>2. CASE t = trip
        BY <1>3, <1>8, <2>1, <3>1, <3>2
      <3>3. CASE t \in trips
        <4>1. t.id # trip.id
          BY <1>5, <3>3 DEF Ids
        <4>2. t.id \in DOMAIN reports /\ reports'[u.id] = reports[t.id]
          BY <1>8, <2>1, <3>1, <4>1
        <4> QED
          BY <1>1, <3>1, <3>3, <4>2 DEF Reported
      <3> QED
        BY <3>1, <3>2, <3>3
    <2>2. DOMAIN reports' \subseteq Ids(trips')
      BY <1>1, <1>6, <1>8 DEF Reported
    <2> QED
      BY <2>1, <2>2 DEF Reported, Ids
  <1>10. ASSUME gen.active PROVE ReadKept' /\ ReadMatches' /\ AddsNew'
    <2>1. ReadKept /\ ReadMatches /\ AddsNew
      BY <1>10 DEF TripInv, Under
    <2>2. ReadKept'
      <3>1. Updated' = Updated /\ Updated \subseteq Ids(gen.read)
        BY <1>1 DEF Updated, Ids, ById
      <3>2. Updated \intersect DOMAIN reports' = {}
        BY <1>5, <1>8, <2>1, <3>1 DEF ReadKept
      <3> QED
        BY <1>1, <2>1, <3>1, <3>2 DEF ReadKept, Signature
    <2>3. ReadMatches'
      <3>1. \A r \in gen.read : r.id # trip.id
        BY <1>5 DEF Ids
      <3>2. \A u \in trips', r \in gen.read :
              u.id = r.id => /\ u.start = r.start /\ u.end = r.end /\ u.source = r.source
                             /\ u.id \notin rerouted => Signature(u) = Signature(r)
        BY <1>7, <2>1, <3>1 DEF ReadMatches
      <3>3. \A u \in trips' : u.id \notin Ids(gen.read) => u.source = "manual"
        BY <1>3, <1>7, <2>1 DEF ReadMatches
      <3> QED
        BY <1>1, <3>2, <3>3 DEF ReadMatches, Ids, Signature
    <2>4. AddsNew'
      <3>1. \A u \in gen.write : u.id \notin Ids(trips) => u.id \notin Ids(trips')
        BY <1>5, <1>6 DEF Ids
      <3> QED
        BY <1>1, <2>1, <3>1 DEF AddsNew, Ids, Signature
    <2> QED
      BY <2>2, <2>3, <2>4
  <1>11. Under'
    BY <1>1, <1>10 DEF Under
  <1>12. Discarded'
    BY <1>1, <1>6 DEF Discarded
  <1> QED
    BY <1>4, <1>9, <1>11, <1>12 DEF TripInv

(* Every step.                                                             *)
LEMMA NextInv ==
  ASSUME TripInv, [Next]_vars
  PROVE  TripInv'
  <1>1. CASE Tick \/ \E e \in Events : StoreRow(e)
    BY <1>1, RowsInv
  <1>2. ASSUME NEW d \in Days, BeginGeneration(d) PROVE TripInv'
    BY <1>2, BeginInv
  <1>3. CASE CommitGeneration
    BY <1>3, CommitInv
  <1>4. CASE GenerationFails
    BY <1>4, FailsInv
  <1>5. ASSUME NEW t \in trips, NEW o \in Sites, NEW d \in Sites,
               NEW m \in Entries \union {t.miles}, EditTrip(t, o, d, m)
        PROVE  TripInv'
    BY <1>5, EditInv
  <1>6. ASSUME NEW t \in trips, DeleteTrip(t) PROVE TripInv'
    BY <1>6, DeleteInv
  <1>7. ASSUME NEW k \in deleted, ForgetDeleted(k) PROVE TripInv'
    BY <1>7, ForgetInv
  <1>8. ASSUME NEW d \in Days, NEW from \in Sites, NEW to \in Sites, NEW m \in Entries,
               NEW o \in Entries, AddTrip(d, from, to, m, o)
        PROVE  TripInv'
    BY <1>8, AddInv
  <1>9. ASSUME NEW v \in Entries, AlignTrips(v) PROVE TripInv'
    BY <1>9, AlignInv
  <1>10. CASE UNCHANGED vars
    <2>1. UNCHANGED << now, stored, touched, trips, deleted, gen, ops, reports, rerouted, discarded >>
      BY <1>10 DEF vars, history
    <2>2. Reported' /\ Under'
      BY <2>1, UnderStays DEF TripInv
    <2>3. Typed' /\ Discarded'
      BY <2>1 DEF TripInv, Typed, Discarded, Table, UniqueIds, Ids
    <2> QED
      BY <2>2, <2>3 DEF TripInv
  <1> QED
    BY <1>1, <1>2, <1>3, <1>4, <1>5, <1>6, <1>7, <1>8, <1>9, <1>10 DEF Next

(* What generations and users do to the trips keeps them in order: unique  *)
(* ids, the miles of a report with its trip, and a generation under way    *)
(* that fits what the user has done since it read the table.               *)
THEOREM TripInvariant == Spec => []TripInv
  <1>1. Init => TripInv
    BY InitInv
  <1>2. TripInv /\ [Next]_vars => TripInv'
    BY NextInv
  <1> QED
    BY <1>1, <1>2, PTL DEF Spec

(* The variables of every reachable state have their types, and no two     *)
(* trips have one id, for every schedule of passes, rows and edits.        *)
THEOREM TripTypeCorrect == Spec => []TypeOK
  <1>1. ASSUME TripInv PROVE TypeOK
    <2>1. Typed /\ Reported /\ Discarded
      BY <1>1 DEF TripInv
    <2>2. trips \subseteq TripType /\ gen.read \subseteq TripType /\ gen.write \subseteq TripType
      BY <2>1 DEF Typed, Table, Trip
    <2>3. Cardinality(Ids(trips)) = Cardinality(trips)
      BY <2>1, IdsCount DEF Typed
    <2>4. deleted \subseteq Sites \X Sites \X Int \X Int
      BY <2>1 DEF Typed, Signatures
    <2>5. DOMAIN reports \subseteq Nat
      <3>1. Ids(trips) \subseteq Nat
        BY <2>1, TripIs DEF Typed, Table, Ids
      <3> QED
        BY <2>1, <3>1 DEF Reported
    <2>6. /\ rerouted \subseteq Ids(trips)
          /\ discarded \subseteq (Sites \X Sites \X Int \X Int) \X BOOLEAN
      BY <2>1 DEF Discarded, Signatures
    <2> QED
      BY <2>1, <2>2, <2>3, <2>4, <2>5, <2>6 DEF Typed, TypeOK
  <1> QED
    BY <1>1, TripInvariant, PTL

(* The miles a user entered last for a trip stay the trip's miles, however *)
(* often its days are generated and its odometers moved.                   *)
THEOREM UserMilesAlwaysKept == Spec => []UserMilesKept
  <1>1. ASSUME TripInv PROVE UserMilesKept
    BY <1>1 DEF TripInv, Reported, UserMilesKept
  <1> QED
    BY <1>1, TripInvariant, PTL

(* No step but a commit adds an automatic trip, and a commit adds only     *)
(* what its generation found new.                                          *)
LEMMA NewTripsAre ==
  ASSUME TripInv, [Next]_vars, NEW u \in NewTrips
  PROVE  << Signature(u), FALSE >> \notin discarded
  <1>1. Typed /\ Table(trips)
    BY DEF TripInv, Typed
  <1>2. u \in trips' /\ u.source = "auto" /\ u.id \notin Ids(trips)
    BY DEF NewTrips
  <1>3. ASSUME trips' \subseteq trips PROVE FALSE
    BY <1>2, <1>3 DEF Ids
  <1>4. CASE CommitGeneration
    <2>1. trips' = TableAfterCommit /\ Typed /\ ReadKept /\ AddsNew
      BY <1>4 DEF CommitGeneration, TripInv, Under
    <2>2. CASE \E t \in trips : u = Merged(t)
      <3>1. PICK t \in trips : u = Merged(t)
        BY <2>2
      <3>2. u.id = t.id
        BY <2>1, <3>1, MergedIs
      <3> QED
        BY <1>2, <3>2 DEF Ids
    <2>3. CASE u \in gen.write /\ u.id \notin Ids(gen.read)
      BY <2>1, <2>3 DEF AddsNew
    <2> QED
      BY <1>2, <2>1, <2>2, <2>3, TableAfterCommitIs
  <1>5. ASSUME NEW t \in trips, NEW o \in Sites, NEW d \in Sites,
               NEW m \in Entries \union {t.miles}, EditTrip(t, o, d, m)
        PROVE  FALSE
    <2>1. m \in Nat
      BY <1>1, MilesAssumption, TripIs DEF Table
    <2>2. PICK v \in trips : EditedTrip(t, v, u, m)
      BY <1>1, <1>2, <1>5, <2>1, EditTripIs
    <2> QED
      BY <1>2, <2>2 DEF EditedTrip, Ids
  <1>6. ASSUME NEW d \in Days, NEW from \in Sites, NEW to \in Sites, NEW m \in Entries,
               NEW o \in Entries, AddTrip(d, from, to, m, o)
        PROVE  FALSE
    <2> DEFINE trip == ManualTrip(d, from, to, m, o)
    <2>1. SameTrips(trips \union {trip}, trips')
      BY <1>1, <1>6, AddTripIs
    <2>2. trip.source = "manual"
      BY DEF ManualTrip
    <2> HIDE DEF trip
    <2>3. PICK t \in trips \union {trip} : u.id = t.id /\ u.source = t.source
      BY <1>2, <2>1 DEF SameTrips, SameTrip
    <2> QED
      BY <1>2, <2>2, <2>3 DEF Ids
  <1>7. ASSUME NEW v \in Entries, AlignTrips(v) PROVE FALSE
    <2>1. SameTrips(trips, trips')
      BY <1>1, <1>7, MilesAssumption, AlignTripsIs
    <2> QED
      BY <1>2, <2>1 DEF SameTrips, SameTrip, Ids
  <1>8. CASE UNCHANGED trips
    BY <1>3, <1>8
  <1>9. ASSUME NEW t \in trips, DeleteTrip(t) PROVE FALSE
    BY <1>3, <1>9 DEF DeleteTrip
  <1>10. CASE \/ Tick \/ GenerationFails \/ UNCHANGED vars
              \/ \E e \in Events : StoreRow(e)
              \/ \E d \in Days : BeginGeneration(d)
              \/ \E k \in deleted : ForgetDeleted(k)
    <2>1. UNCHANGED trips
      BY <1>10 DEF Tick, GenerationFails, vars, StoreRow, BeginGeneration, ForgetDeleted
    <2> QED
      BY <1>8, <2>1
  <1> QED
    BY <1>4, <1>5, <1>6, <1>7, <1>9, <1>10 DEF Next

(* A trip the user deleted is not generated again from the rows that are   *)
(* still there, whenever it was deleted and however often its day is       *)
(* generated, until the user allows it: for every trip whose route nobody  *)
(* edited before.  One with an edited route comes back (DeletedPairsStay). *)
THEOREM DeletedNotGenerated == Spec => DeletedStayDeleted
  <1>1. TripInv /\ [Next]_vars =>
          [\A t \in NewTrips : << Signature(t), FALSE >> \notin discarded]_vars
    BY NewTripsAre
  <1> QED
    BY <1>1, TripInvariant, PTL DEF Spec, DeletedStayDeleted

-----------------------------------------------------------------------------
(***************************************************************************)
(* The miles driven between two trips, when the user edits, adds or aligns *)
(* trips.                                                                  *)
(***************************************************************************)

First(S, t) == \A x \in S : ~Precedes(x, t)
RightBefore(S, p, t) ==
  /\ p \in S /\ Precedes(p, t)
  /\ \A x \in S : ~(Precedes(p, x) /\ Precedes(x, t))

(* Trips of a table precede each other, one way or the other.              *)
LEMMA PrecedesIs ==
  ASSUME NEW S, Table(S)
  PROVE  /\ \A x, y \in S : x = y \/ Precedes(x, y) \/ Precedes(y, x)
         /\ \A x, y \in S : Precedes(x, y) => x # y /\ ~Precedes(y, x)
         /\ \A x, y, z \in S : Precedes(x, y) /\ Precedes(y, z) => Precedes(x, z)
  <1>1. \A x \in S : x.start \in Int /\ x.id \in Nat
    BY TripIs DEF Table
  <1>2. \A x, y \in S : x.id = y.id => x = y
    BY DEF Table, UniqueIds
  <1> QED
    BY <1>1, <1>2 DEF Precedes

(* The sequence of the trips of a table.                                   *)
LEMMA SequenceIs ==
  ASSUME NEW S, Table(S)
  PROVE  LET seq == Chronological(S)
         IN  /\ DOMAIN seq = 1..Len(seq) /\ Len(seq) \in Nat
             /\ \A i \in DOMAIN seq : seq[i] \in S
             /\ \A x \in S : \E i \in DOMAIN seq : seq[i] = x
             /\ \A i, j \in DOMAIN seq : Precedes(seq[i], seq[j]) <=> i < j
             /\ \A i, j \in DOMAIN seq : seq[i] = seq[j] => i = j
  <1> DEFINE seq == Chronological(S)
  <1>1. /\ SortedBy(seq, S, Order(S))
        /\ \A x, y \in S : << x, y >> \in Order(S) <=> Precedes(x, y)
    BY ChronologicalIs
  <1> HIDE DEF seq
  <1>2. /\ DOMAIN seq = 1..Len(seq) /\ Len(seq) \in Nat
        /\ \A i \in DOMAIN seq : seq[i] \in S
        /\ \A x \in S : \E i \in DOMAIN seq : seq[i] = x
        /\ \A i, j \in DOMAIN seq : << seq[i], seq[j] >> \in Order(S) <=> i < j
    BY <1>1 DEF SortedBy
  <1>3. \A i, j \in DOMAIN seq : Precedes(seq[i], seq[j]) <=> i < j
    BY <1>1, <1>2
  <1>4. ASSUME NEW i \in DOMAIN seq, NEW j \in DOMAIN seq, seq[i] = seq[j]
        PROVE  i = j
    <2>1. ~Precedes(seq[i], seq[j]) /\ ~Precedes(seq[j], seq[i])
      BY <1>2, <1>4, PrecedesIs
    <2>2. i \in Nat /\ j \in Nat
      BY <1>2
    <2> QED
      BY <1>3, <2>1, <2>2
  <1> QED
    BY <1>2, <1>3, <1>4 DEF seq

(* A trip's miles before it are those from the trip right before it.       *)
LEMMA MilesBeforeIs ==
  ASSUME NEW S, Table(S), NEW t \in S
  PROVE  /\ First(S, t) => MilesBefore(S, t.id) = 0
         /\ \A p \in S : RightBefore(S, p, t) => MilesBefore(S, t.id) = Min0(t.from - p.to)
         /\ First(S, t) \/ \E p \in S : RightBefore(S, p, t)
  <1> DEFINE seq == Chronological(S)
  <1>1. /\ DOMAIN seq = 1..Len(seq) /\ Len(seq) \in Nat
        /\ \A i \in DOMAIN seq : seq[i] \in S
        /\ \A x \in S : \E i \in DOMAIN seq : seq[i] = x
        /\ \A i, j \in DOMAIN seq : Precedes(seq[i], seq[j]) <=> i < j
        /\ \A i, j \in DOMAIN seq : seq[i] = seq[j] => i = j
    BY SequenceIs
  <1>2. \A i \in DOMAIN seq :
          GapsOf(seq)[i] = IF i = 1 THEN 0 ELSE Min0(seq[i].from - seq[i - 1].to)
    BY GapsType
  <1>3. MilesBefore(S, t.id) = GapsOf(seq)[CHOOSE i \in DOMAIN seq : seq[i].id = t.id]
    BY DEF MilesBefore
  <1> HIDE DEF seq
  <1>4. PICK k \in DOMAIN seq : seq[k] = t
    BY <1>1
  <1>5. \A i \in DOMAIN seq : seq[i].id = t.id <=> i = k
    BY <1>1, <1>4 DEF Table, UniqueIds
  <1>6. MilesBefore(S, t.id) = GapsOf(seq)[k]
    <2>1. (CHOOSE i \in DOMAIN seq : seq[i].id = t.id) = k
      BY <1>5
    <2> QED
      BY <1>3, <2>1
  <1>7. CASE k = 1
    <2>1. First(S, t)
      BY <1>1, <1>4, <1>7 DEF First
    <2> QED
      BY <1>2, <1>6, <1>7, <2>1 DEF RightBefore, First
  <1>8. CASE k # 1
    <2>1. k - 1 \in DOMAIN seq /\ k > 1 /\ k \in Nat
      BY <1>1, <1>8
    <2>2. MilesBefore(S, t.id) = Min0(t.from - seq[k - 1].to)
      BY <1>2, <1>4, <1>6, <1>8
    <2>3. Precedes(seq[k - 1], t) /\ seq[k - 1] \in S
      BY <1>1, <1>4, <2>1
    <2>4. ASSUME NEW x \in S, Precedes(seq[k - 1], x), Precedes(x, t) PROVE FALSE
      <3>1. PICK i \in DOMAIN seq : seq[i] = x
        BY <1>1
      <3>2. k - 1 < i /\ i < k /\ i \in Nat
        BY <1>1, <1>4, <2>1, <2>4, <3>1
      <3> QED
        BY <2>1, <3>2
    <2>5. RightBefore(S, seq[k - 1], t)
      BY <2>3, <2>4 DEF RightBefore
    <2>6. ASSUME NEW p \in S, RightBefore(S, p, t) PROVE p = seq[k - 1]
      BY <2>3, <2>5, <2>6, PrecedesIs DEF RightBefore
    <2> QED
      BY <2>2, <2>3, <2>5, <2>6 DEF First
  <1> QED
    BY <1>7, <1>8

(* Tables of trips with the same ids and starts.                           *)
SameStarts(A, B) ==
  /\ \A a \in A : \E b \in B : b.id = a.id /\ b.start = a.start
  /\ \A b \in B : \E a \in A : b.id = a.id /\ b.start = a.start

(* Such tables have one order.                                             *)
LEMMA SameOrder ==
  ASSUME NEW A, Table(A), NEW B, Table(B), SameStarts(A, B),
         NEW a \in A, NEW b \in B, a.id = b.id
  PROVE  /\ First(A, a) => First(B, b)
         /\ \A p \in A, q \in B : p.id = q.id /\ RightBefore(A, p, a) => RightBefore(B, q, b)
  <1>1. ASSUME NEW x \in A, NEW y \in B, x.id = y.id PROVE x.start = y.start
    BY <1>1 DEF SameStarts, Table, UniqueIds
  <1>2. \A x \in A, y \in B, v \in A, w \in B :
          x.id = y.id /\ v.id = w.id => (Precedes(x, v) <=> Precedes(y, w))
    BY <1>1 DEF Precedes
  <1>3. \A y \in B : \E x \in A : x.id = y.id
    BY DEF SameStarts
  <1>4. First(A, a) => First(B, b)
    BY <1>2, <1>3 DEF First
  <1>5. ASSUME NEW p \in A, NEW q \in B, p.id = q.id, RightBefore(A, p, a)
        PROVE  RightBefore(B, q, b)
    BY <1>2, <1>3, <1>5 DEF RightBefore
  <1> QED
    BY <1>4, <1>5

(* If the miles behind each trip's predecessor are the same, so are those  *)
(* the property compares.                                                  *)
LEMMA SameMilesBefore ==
  ASSUME NEW A, Table(A), NEW B, Table(B), SameStarts(A, B),
         \A a, p \in A, b, q \in B :
           RightBefore(A, p, a) /\ a.id = b.id /\ p.id = q.id
             => Min0(b.from - q.to) = Min0(a.from - p.to)
  PROVE  \A i \in Ids(A) : MilesBefore(B, i) = MilesBefore(A, i)
  <1> SUFFICES ASSUME NEW a \in A PROVE MilesBefore(B, a.id) = MilesBefore(A, a.id)
    BY DEF Ids
  <1>1. PICK b \in B : b.id = a.id
    BY DEF SameStarts
  <1>2. CASE First(A, a)
    <2>1. First(B, b)
      BY <1>1, <1>2, SameOrder
    <2>2. MilesBefore(A, a.id) = 0 /\ MilesBefore(B, b.id) = 0
      BY <1>2, <2>1, MilesBeforeIs
    <2> QED
      BY <1>1, <2>2
  <1>3. ASSUME NEW p \in A, RightBefore(A, p, a)
        PROVE  MilesBefore(B, a.id) = MilesBefore(A, a.id)
    <2>1. PICK q \in B : q.id = p.id
      BY DEF SameStarts
    <2>2. RightBefore(B, q, b)
      BY <1>1, <1>3, <2>1, SameOrder
    <2>3. MilesBefore(A, a.id) = Min0(a.from - p.to)
      BY <1>3, MilesBeforeIs
    <2>4. MilesBefore(B, b.id) = Min0(b.from - q.to)
      BY <2>2, MilesBeforeIs
    <2> QED
      BY <1>1, <1>3, <2>1, <2>3, <2>4
  <1> QED
    BY <1>2, <1>3, MilesBeforeIs

(* Where the miles between trip p and trip a right behind it, q and b in   *)
(* the new table, come from when the later trips are resequenced.          *)
GapMade(later, gaps, start, p, a, q, b) ==
  LET seq == Chronological(later)
  IN  \/ a \notin later /\ b = a /\ q = p
      \/ 1 \in DOMAIN seq /\ seq[1] = a /\ q = p /\ b.from = start + gaps[1]
      \/ \E k \in DOMAIN seq : /\ k > 1 /\ seq[k] = a /\ seq[k - 1] = p
                               /\ Min0(b.from - q.to) = gaps[k]

(* Resequencing the later trips keeps the earlier ones and makes the gaps. *)
LEMMA GapsMade ==
  ASSUME NEW table, Table(table), NEW later \in SUBSET table,
         \A x \in later, y \in table : Precedes(x, y) => y \in later,
         NEW gaps, \A i \in DOMAIN Chronological(later) : gaps[i] \in Nat,
         NEW start \in Nat, NEW firstSrc \in Sources, NEW lastSrc \in Sources,
         NEW new, new = (table \ later) \union
                        Resequenced(Chronological(later), gaps, start, firstSrc, lastSrc),
         NEW a \in table, NEW p \in table, RightBefore(table, p, a),
         NEW b \in new, NEW q \in new, b.id = a.id, q.id = p.id
  PROVE  GapMade(later, gaps, start, p, a, q, b)
  <1> DEFINE seq == Chronological(later)
             T == Resequenced(seq, gaps, start, firstSrc, lastSrc)
  <1>1. Table(later)
    BY FS_Subset DEF Table, UniqueIds
  <1>2. /\ DOMAIN seq = 1..Len(seq) /\ Len(seq) \in Nat
        /\ \A i \in DOMAIN seq : seq[i] \in later
        /\ \A x \in later : \E i \in DOMAIN seq : seq[i] = x
        /\ \A i, j \in DOMAIN seq : Precedes(seq[i], seq[j]) <=> i < j
        /\ \A i, j \in DOMAIN seq : seq[i] = seq[j] => i = j
    BY <1>1, SequenceIs
  <1>3. \E m : T = {m[i] : i \in DOMAIN seq} /\ Moved(m, seq, gaps, start)
    BY <1>1, ResequencedIs
  <1>4. new = (table \ later) \union T /\ \A i \in DOMAIN seq : gaps[i] \in Nat
    OBVIOUS
  <1>5. GapMade(later, gaps, start, p, a, q, b) <=>
          \/ a \notin later /\ b = a /\ q = p
          \/ 1 \in DOMAIN seq /\ seq[1] = a /\ q = p /\ b.from = start + gaps[1]
          \/ \E k \in DOMAIN seq : /\ k > 1 /\ seq[k] = a /\ seq[k - 1] = p
                                   /\ Min0(b.from - q.to) = gaps[k]
    BY DEF GapMade
  <1> HIDE DEF seq, T
  <1>6. PICK m : T = {m[i] : i \in DOMAIN seq} /\ Moved(m, seq, gaps, start)
    BY <1>3
  <1>7. /\ \A i \in DOMAIN seq : m[i] \in Trip /\ m[i].id = seq[i].id
        /\ \A i \in DOMAIN seq : i = 1 => m[i].from = start + gaps[i]
        /\ \A i \in DOMAIN seq : i > 1 => m[i].from = m[i - 1].to + gaps[i]
    BY <1>6 DEF Moved, SameTrip
  <1>8. \A x, y \in table : x.id = y.id => x = y
    BY DEF Table, UniqueIds
  <1>9. ASSUME NEW x \in table \ later, NEW y \in new, y.id = x.id PROVE y = x
    BY <1>2, <1>4, <1>6, <1>7, <1>8, <1>9
  <1>10. ASSUME NEW x \in later, NEW y \in new, y.id = x.id
         PROVE  \E i \in DOMAIN seq : seq[i] = x /\ y = m[i]
    <2>1. y \in T
      BY <1>4, <1>8, <1>10
    <2>2. PICK i \in DOMAIN seq : y = m[i]
      BY <1>6, <2>1
    <2>3. seq[i] \in table /\ seq[i].id = x.id
      BY <1>2, <1>7, <1>10, <2>2
    <2> QED
      BY <1>8, <2>2, <2>3
  <1>11. p \in later => a \in later
    BY DEF RightBefore
  <1>12. CASE a \notin later
    BY <1>5, <1>9, <1>11, <1>12
  <1>13. CASE a \in later /\ p \notin later
    <2>1. q = p
      BY <1>9, <1>13
    <2>2. PICK i \in DOMAIN seq : seq[i] = a /\ b = m[i]
      BY <1>10, <1>13
    <2>3. \A x \in later : ~Precedes(x, a)
      BY <1>13, PrecedesIs DEF RightBefore
    <2>4. i = 1
      BY <1>2, <2>2, <2>3
    <2> QED
      BY <1>5, <1>7, <2>1, <2>2, <2>4
  <1>14. CASE a \in later /\ p \in later
    <2>1. PICK i \in DOMAIN seq : seq[i] = a /\ b = m[i]
      BY <1>10, <1>14
    <2>2. PICK j \in DOMAIN seq : seq[j] = p /\ q = m[j]
      BY <1>10, <1>14
    <2>3. j < i /\ i \in Nat /\ j \in Nat /\ j > 0
      BY <1>2, <2>1, <2>2 DEF RightBefore
    <2>4. j = i - 1
      <3> SUFFICES ASSUME j + 1 < i PROVE FALSE
        BY <2>3
      <3>1. j + 1 \in DOMAIN seq
        BY <1>2, <2>3
      <3>2. Precedes(p, seq[j + 1]) /\ Precedes(seq[j + 1], a) /\ seq[j + 1] \in table
        BY <1>2, <2>1, <2>2, <2>3, <3>1
      <3> QED
        BY <3>2 DEF RightBefore
    <2>5. b.from = q.to + gaps[i] /\ i > 1
      BY <1>7, <2>1, <2>2, <2>3, <2>4
    <2>6. q.to \in Nat /\ gaps[i] \in Nat
      BY <1>4, <1>7, <2>2, TripIs
    <2>7. Min0(b.from - q.to) = gaps[i]
      BY <2>5, <2>6 DEF Min0
    <2> QED
      BY <1>5, <2>1, <2>2, <2>4, <2>5, <2>7
  <1> QED
    BY <1>11, <1>12, <1>13, <1>14

(* The trips from one on are the later ones, and it is their first.        *)
LEMMA OnwardIs ==
  ASSUME NEW table, Table(table), NEW t \in table
  PROVE  LET later == Onward(table, t)
             seq == Chronological(later)
         IN  /\ later \in SUBSET table /\ t \in later /\ Table(later)
             /\ \A x \in later, y \in table : Precedes(x, y) => y \in later
             /\ 1 \in DOMAIN seq /\ seq[1] = t
  <1> DEFINE later == Onward(table, t)
             seq == Chronological(later)
  <1>1. later \in SUBSET table /\ t \in later
    BY DEF Onward
  <1>2. Table(later)
    BY <1>1, FS_Subset DEF Table, UniqueIds
  <1>3. \A x \in later, y \in table : Precedes(x, y) => y \in later
    BY PrecedesIs DEF Onward
  <1>4. /\ DOMAIN seq = 1..Len(seq) /\ Len(seq) \in Nat
        /\ \A i \in DOMAIN seq : seq[i] \in later
        /\ \A x \in later : \E i \in DOMAIN seq : seq[i] = x
        /\ \A i, j \in DOMAIN seq : Precedes(seq[i], seq[j]) <=> i < j
    BY <1>2, SequenceIs
  <1>5. \A x \in later : ~Precedes(x, t)
    BY PrecedesIs DEF Onward
  <1> HIDE DEF seq, later
  <1>6. PICK k \in DOMAIN seq : seq[k] = t
    BY <1>1, <1>4
  <1>7. k = 1
    BY <1>4, <1>5, <1>6
  <1> QED
    BY <1>1, <1>2, <1>3, <1>6, <1>7 DEF seq, later

(* Tables that differ in odometers have the same starts.                   *)
LEMMA SameTripsStart ==
  ASSUME NEW A, NEW B, SameTrips(A, B)
  PROVE  SameStarts(A, B)
  BY SameSignature DEF SameTrips, SameTrip, SameStarts

(* Resequenced with the gaps it had, a table has the gaps it had.          *)
LEMMA GapsAgain ==
  ASSUME NEW table, Table(table), NEW later \in SUBSET table,
         \A x \in later, y \in table : Precedes(x, y) => y \in later,
         NEW start \in Nat, NEW firstSrc \in Sources, NEW lastSrc \in Sources,
         \/ later = table
         \/ start = Chronological(later)[1].from,
         NEW new, new = (table \ later) \union
                        Resequenced(Chronological(later), GapsOf(Chronological(later)),
                                    start, firstSrc, lastSrc)
  PROVE  \A i \in Ids(table) : MilesBefore(new, i) = MilesBefore(table, i)
  <1> DEFINE seq == Chronological(later)
             gaps == GapsOf(seq)
  <1>1. Table(later)
    BY FS_Subset DEF Table, UniqueIds
  <1>2. /\ \A i \in DOMAIN seq : gaps[i] \in Nat
        /\ \A i \in DOMAIN seq : gaps[i] = IF i = 1 THEN 0 ELSE Min0(seq[i].from - seq[i - 1].to)
    BY <1>1, GapsType
  <1>3. /\ DOMAIN seq = 1..Len(seq) /\ \A i \in DOMAIN seq : seq[i] \in later
        /\ \A i, j \in DOMAIN seq : Precedes(seq[i], seq[j]) <=> i < j
        /\ \A x \in later : \E i \in DOMAIN seq : seq[i] = x
    BY <1>1, SequenceIs
  <1>4. Table(new) /\ SameTrips(table, new)
    BY <1>2, PartResequenced
  <1>5. ASSUME NEW a \in table, NEW p \in table, NEW b \in new, NEW q \in new,
               RightBefore(table, p, a), a.id = b.id, p.id = q.id
        PROVE  Min0(b.from - q.to) = Min0(a.from - p.to)
    <2>1. GapMade(later, gaps, start, p, a, q, b)
      BY <1>2, <1>5, GapsMade
    <2>2. \/ a \notin later /\ b = a /\ q = p
          \/ 1 \in DOMAIN seq /\ seq[1] = a /\ q = p /\ b.from = start + gaps[1]
          \/ \E k \in DOMAIN seq : /\ k > 1 /\ seq[k] = a /\ seq[k - 1] = p
                                   /\ Min0(b.from - q.to) = gaps[k]
      BY <2>1 DEF GapMade
    <2> HIDE DEF gaps
    <2>3. ASSUME 1 \in DOMAIN seq, seq[1] = a, q = p, b.from = start + gaps[1]
          PROVE  Min0(b.from - q.to) = Min0(a.from - p.to)
      <3>1. gaps[1] = 0
        BY <1>2, <2>3
      <3>2. later # table
        <4>1. ASSUME later = table PROVE FALSE
          <5>1. PICK j \in DOMAIN seq : seq[j] = p
            BY <1>3, <4>1
          <5>2. j < 1
            BY <1>3, <1>5, <2>3, <5>1 DEF RightBefore
          <5> QED
            BY <1>3, <5>2
        <4> QED
          BY <4>1
      <3>3. start = a.from
        BY <2>3, <3>2
      <3> QED
        BY <2>3, <3>1, <3>3
    <2>4. ASSUME NEW k \in DOMAIN seq, k > 1, seq[k] = a, seq[k - 1] = p,
                 Min0(b.from - q.to) = gaps[k]
          PROVE  Min0(b.from - q.to) = Min0(a.from - p.to)
      BY <1>2, <2>4
    <2> QED
      BY <2>2, <2>3, <2>4
  <1>6. SameStarts(table, new)
    BY <1>4, SameTripsStart
  <1> QED
    BY <1>4, <1>5, <1>6, SameMilesBefore

(* An edit keeps the miles between trips.                                  *)
LEMMA EditGaps ==
  ASSUME Table(trips), NEW t \in trips, NEW o \in Sites, NEW d \in Sites, NEW m \in Nat,
         EditTrip(t, o, d, m)
  PROVE  \A i \in Ids(trips) : MilesBefore(trips', i) = MilesBefore(trips, i)
  <1> DEFINE edited == [t EXCEPT !.origin = o, !.dest = d, !.miles = m, !.mileage = "manual"]
             table  == (trips \ {t}) \union {edited}
             later  == Onward(table, edited)
             seq    == Chronological(later)
             moved  == (table \ later) \union
                       Resequenced(seq, GapsOf(seq), t.from, "previous_trip", "estimated")
  <1>1. trips' = IF m = t.miles THEN table ELSE moved
    BY DEF EditTrip
  <1>2. t \in Trip
    BY DEF Table
  <1>3. /\ edited \in Trip /\ edited.id = t.id /\ edited.start = t.start
        /\ edited.from = t.from /\ edited.to = t.to
    BY <1>2 DEF Trip, TripType
  <1> HIDE DEF edited
  <1>4. Table(table)
    <2>1. IsFiniteSet(table)
      BY FS_RemoveElement, FS_AddElement DEF Table
    <2>2. UniqueIds(table)
      BY <1>3 DEF Table, UniqueIds
    <2> QED
      BY <1>3, <2>1, <2>2 DEF Table
  <1>5. \A i \in Ids(trips) : MilesBefore(table, i) = MilesBefore(trips, i)
    <2>1. SameStarts(trips, table)
      BY <1>3 DEF SameStarts
    <2>2. \A x, y \in trips : x.id = y.id => x = y
      BY DEF Table, UniqueIds
    <2>3. \A a \in trips, b \in table : a.id = b.id => b.from = a.from /\ b.to = a.to
      BY <1>3, <2>2
    <2> HIDE DEF table
    <2>4. \A a, p \in trips, b, q \in table :
            RightBefore(trips, p, a) /\ a.id = b.id /\ p.id = q.id
              => Min0(b.from - q.to) = Min0(a.from - p.to)
      BY <2>3
    <2> QED
      BY <1>4, <2>1, <2>4, SameMilesBefore
  <1>6. Ids(table) = Ids(trips)
    BY <1>3 DEF Ids
  <1>7. edited \in table
    OBVIOUS
  <1> HIDE DEF table
  <1>8. /\ later \in SUBSET table /\ \A x \in later, y \in table : Precedes(x, y) => y \in later
        /\ seq[1] = edited
    BY <1>4, <1>7, OnwardIs
  <1>9. t.from \in Nat /\ "previous_trip" \in Sources /\ "estimated" \in Sources
    BY <1>2, TripIs DEF Sources
  <1> HIDE DEF later
  <1>10. \A i \in Ids(table) : MilesBefore(moved, i) = MilesBefore(table, i)
    BY <1>3, <1>4, <1>8, <1>9, GapsAgain
  <1> QED
    BY <1>1, <1>5, <1>6, <1>10

(* Aligning keeps the miles between trips.                                 *)
LEMMA AlignGaps ==
  ASSUME Table(trips), NEW v \in Nat, AlignTrips(v)
  PROVE  \A i \in Ids(trips) : MilesBefore(trips', i) = MilesBefore(trips, i)
  <1> DEFINE seq == Chronological(trips)
             start == v - Span(seq, GapsOf(seq), Len(seq))
  <1>1. /\ trips # {} /\ start >= 0
        /\ trips' = Resequenced(seq, GapsOf(seq), start, seq[1].fromSrc, "manual")
    BY DEF AlignTrips
  <1>2. /\ DOMAIN seq = 1..Len(seq) /\ Len(seq) \in Nat /\ \A i \in DOMAIN seq : seq[i] \in trips
        /\ \A t \in trips : \E i \in DOMAIN seq : seq[i] = t
    BY SequenceIs
  <1>3. \A i \in DOMAIN seq : GapsOf(seq)[i] \in Nat
    BY GapsType
  <1> HIDE DEF seq
  <1>4. 1 \in DOMAIN seq
    BY <1>1, <1>2
  <1>5. seq[1].fromSrc \in Sources /\ "manual" \in Sources
    BY <1>2, <1>4 DEF Table, Trip, TripType, Sources
  <1>6. start \in Nat
    <2>1. \A i \in DOMAIN seq : seq[i].miles \in Nat
      BY <1>2, TripIs DEF Table
    <2>2. Span(seq, GapsOf(seq), Len(seq)) \in Nat
      BY <1>2, <1>3, <2>1, SpanGrows
    <2> QED
      BY <1>1, <2>2
  <1> HIDE DEF start
  <1>7. trips' = (trips \ trips) \union
                 Resequenced(Chronological(trips), GapsOf(Chronological(trips)), start,
                             seq[1].fromSrc, "manual")
    BY <1>1 DEF seq
  <1> QED
    BY <1>5, <1>6, <1>7, GapsAgain

(* Where no trips overlap, the trip that ended last before one added in    *)
(* front of another is the one that was right before that other.           *)
LEMMA PreviousIs ==
  ASSUME Table(trips), NEW trip, NEW d, trip.start = ManualStart(d),
         NEW table, table = trips \union {trip}, trip \notin trips,
         Table(table), InSequence(table),
         NEW a \in trips, RightBefore(table, trip, a)
  PROVE  /\ First(trips, a) => PreviousOf(d) = {}
         /\ \A p \in trips : RightBefore(trips, p, a) => PreviousOf(d) = {p}
  <1> DEFINE at == ManualStart(d)
  <1>1. /\ \A x \in table : x.start \in Int /\ x.end \in Int /\ x.start <= x.end /\ x.id \in Nat
        /\ \A x, y \in table : Precedes(x, y) => x.end < y.start
    BY TripIs DEF Table, Trip, InSequence
  <1>2. /\ \A x, y \in table : x = y \/ Precedes(x, y) \/ Precedes(y, x)
        /\ \A x, y \in table : Precedes(x, y) => x # y /\ ~Precedes(y, x)
        /\ \A x, y, z \in table : Precedes(x, y) /\ Precedes(y, z) => Precedes(x, z)
    BY PrecedesIs
  <1>3. trip \in table /\ trips \subseteq table /\ trip.start = at /\ Precedes(trip, a)
    BY DEF RightBefore
  <1>4. \A t \in trips : t \in AddedAt(d) <=> t.end < at
    BY DEF AddedAt
  <1>5. AddedAt(d) \subseteq trips
    BY DEF AddedAt
  <1> HIDE DEF at
  <1>6. \A t \in trips : t.end < at => Precedes(t, trip)
    <2> SUFFICES ASSUME NEW t \in trips, t.end < at PROVE Precedes(t, trip)
      OBVIOUS
    <2>1. ~Precedes(trip, t)
      <3>1. Precedes(trip, t) => trip.end < t.start
        BY <1>1, <1>3
      <3> QED
        BY <1>1, <1>3, <3>1
    <2> QED
      BY <1>2, <1>3, <2>1
  <1>7. \A t \in trips : Precedes(t, trip) => t.end < at
    BY <1>1, <1>3
  <1>8. \A t \in trips : t \in AddedAt(d) <=> Precedes(t, trip)
    BY <1>4, <1>6, <1>7
  <1>9. \A t \in trips : Precedes(t, a) => Precedes(t, trip)
    BY <1>2, <1>3 DEF RightBefore
  <1>10. \A t \in trips : t \in AddedAt(d) => Precedes(t, a)
    BY <1>2, <1>3, <1>8
  <1>11. ASSUME First(trips, a) PROVE PreviousOf(d) = {}
    BY <1>5, <1>10, <1>11 DEF First, PreviousOf
  <1>12. ASSUME NEW p \in trips, RightBefore(trips, p, a) PROVE PreviousOf(d) = {p}
    <2>1. p \in AddedAt(d)
      BY <1>8, <1>9, <1>12 DEF RightBefore
    <2>2. \A u \in AddedAt(d) : u # p => u.end < p.end
      <3> SUFFICES ASSUME NEW u \in AddedAt(d), u # p PROVE u.end < p.end
        OBVIOUS
      <3>1. u \in trips /\ Precedes(u, a)
        BY <1>5, <1>10
      <3>2. Precedes(u, p)
        BY <1>2, <1>3, <1>12, <3>1 DEF RightBefore
      <3>3. u.end < p.start /\ p.start <= p.end /\ p.start \in Int /\ p.end \in Int /\ u.end \in Int
        BY <1>1, <1>3, <3>1, <3>2
      <3> QED
        BY <3>3
    <2>3. \A u \in AddedAt(d) : u.end \in Int /\ u.id \in Nat
      BY <1>1, <1>3, <1>5
    <2>4. p \in PreviousOf(d)
      BY <2>1, <2>2, <2>3 DEF PreviousOf
    <2>5. \A u \in PreviousOf(d) : u = p
      <3> SUFFICES ASSUME NEW u \in PreviousOf(d), u # p PROVE FALSE
        OBVIOUS
      <3>1. u \in AddedAt(d) /\ (p.end < u.end \/ p.end = u.end)
        BY <2>1 DEF PreviousOf
      <3>2. u.end < p.end
        BY <2>2, <3>1
      <3> QED
        BY <2>1, <2>3, <3>1, <3>2
    <2> QED
      BY <2>4, <2>5
  <1> QED
    BY <1>11, <1>12

(* A trip added among trips that do not overlap keeps the miles between    *)
(* the others.                                                             *)
LEMMA AddGaps ==
  ASSUME Typed, NEW d \in Days, NEW from \in Sites, NEW to \in Sites, NEW m \in Entries,
         NEW o \in Entries, AddTrip(d, from, to, m, o), InSequence(trips')
  PROVE  \A i \in Ids(trips) : MilesBefore(trips', i) = MilesBefore(trips, i)
  <1> DEFINE trip == ManualTrip(d, from, to, m, o)
             table == trips \union {trip}
             later == Onward(table, trip)
             seq == Chronological(later)
             gaps == ManualGaps(seq, d)
  <1>1. /\ trip.id \notin Ids(UNION {trips, gen.read, gen.write}) /\ Table(table)
        /\ trips' = (table \ later) \union
                    Resequenced(seq, gaps, o, "owntracks_rolling", "estimated")
        /\ Table(trips') /\ SameTrips(table, trips')
    BY AddTripIs
  <1>2. trip.start = ManualStart(d) /\ trip \in table
    BY DEF ManualTrip
  <1>3. Table(trips)
    BY DEF Typed
  <1> HIDE DEF trip
  <1>4. \A t \in trips : t # trip
    BY <1>1 DEF Ids
  <1>5. trips \subseteq table /\ \A t \in table : t = trip \/ t \in trips
    OBVIOUS
  <1>6. InSequence(table)
    <2> SUFFICES ASSUME NEW x \in table, NEW y \in table, Precedes(x, y) PROVE x.end < y.start
      BY DEF InSequence
    <2> HIDE DEF table
    <2>1. PICK u \in trips' : SameTrip(x, u)
      BY <1>1 DEF SameTrips
    <2>2. PICK v \in trips' : SameTrip(y, v)
      BY <1>1 DEF SameTrips
    <2>3. u.id = x.id /\ u.start = x.start /\ u.end = x.end /\ v.id = y.id /\ v.start = y.start
      BY <2>1, <2>2, SameSignature DEF SameTrip
    <2>4. Precedes(u, v)
      BY <2>3 DEF Precedes
    <2> QED
      BY <2>3, <2>4 DEF InSequence
  <1>7. \A a \in trips :
          RightBefore(table, trip, a) =>
            /\ First(trips, a) => PreviousOf(d) = {}
            /\ \A p \in trips : RightBefore(trips, p, a) => PreviousOf(d) = {p}
    BY <1>1, <1>2, <1>3, <1>4, <1>6, PreviousIs
  <1> HIDE DEF table
  <1>8. /\ later \in SUBSET table /\ trip \in later /\ Table(later)
        /\ \A x \in later, y \in table : Precedes(x, y) => y \in later
        /\ 1 \in DOMAIN seq /\ seq[1] = trip
    BY <1>1, <1>2, OnwardIs
  <1> HIDE DEF later
  <1>9. /\ DOMAIN seq = 1..Len(seq) /\ \A i, j \in DOMAIN seq : seq[i] = seq[j] => i = j
    BY <1>8, SequenceIs
  <1>10. \A i \in DOMAIN seq :
           GapsOf(seq)[i] = IF i = 1 THEN 0 ELSE Min0(seq[i].from - seq[i - 1].to)
    BY <1>8, GapsType
  <1>11. /\ \A i \in DOMAIN seq : gaps[i] \in Nat
         /\ \A i \in DOMAIN seq : i > 2 => gaps[i] = GapsOf(seq)[i]
         /\ 2 \in DOMAIN seq =>
              gaps[2] = IF PreviousOf(d) = {} THEN 0
                        ELSE Min0(seq[2].from - (CHOOSE t \in PreviousOf(d) : TRUE).to)
    BY <1>3, <1>8, ManualGapsType
  <1>12. o \in Nat /\ "owntracks_rolling" \in Sources /\ "estimated" \in Sources
    BY MilesAssumption DEF Sources
  <1>13. SameStarts(table, trips')
    BY <1>1, SameTripsStart
  <1> HIDE DEF gaps
  <1>14. ASSUME NEW a \in table, NEW p \in table, RightBefore(table, p, a),
                NEW b \in trips', NEW q \in trips', b.id = a.id, q.id = p.id
         PROVE  GapMade(later, gaps, o, p, a, q, b)
    BY <1>1, <1>8, <1>11, <1>12, <1>14, GapsMade
  <1> SUFFICES ASSUME NEW a \in trips PROVE MilesBefore(trips', a.id) = MilesBefore(trips, a.id)
    BY DEF Ids
  <1>15. PICK b \in trips' : b.id = a.id
    BY <1>5, <1>13 DEF SameStarts
  <1>16. a \in table /\ a # trip
    BY <1>4, <1>5
  <1>17. CASE First(table, a)
    <2>1. First(trips, a) /\ First(trips', b)
      BY <1>1, <1>5, <1>13, <1>15, <1>16, <1>17, SameOrder DEF First
    <2>2. MilesBefore(trips, a.id) = 0 /\ MilesBefore(trips', b.id) = 0
      BY <1>1, <1>3, <2>1, MilesBeforeIs
    <2> QED
      BY <1>15, <2>2
  <1>18. ASSUME NEW p \in table, RightBefore(table, p, a)
         PROVE  MilesBefore(trips', a.id) = MilesBefore(trips, a.id)
    <2>1. PICK q \in trips' : q.id = p.id
      BY <1>13 DEF SameStarts
    <2>2. RightBefore(trips', q, b)
      BY <1>1, <1>13, <1>15, <1>16, <1>18, <2>1, SameOrder
    <2>3. MilesBefore(trips', b.id) = Min0(b.from - q.to)
      BY <1>1, <2>2, MilesBeforeIs
    <2>4. GapMade(later, gaps, o, p, a, q, b)
      BY <1>14, <1>15, <1>16, <1>18, <2>1
    <2>5. \/ a \notin later /\ b = a /\ q = p
          \/ 1 \in DOMAIN seq /\ seq[1] = a /\ q = p /\ b.from = o + gaps[1]
          \/ \E k \in DOMAIN seq : /\ k > 1 /\ seq[k] = a /\ seq[k - 1] = p
                                   /\ Min0(b.from - q.to) = gaps[k]
      BY <2>4 DEF GapMade
    <2> HIDE DEF seq
    <2>6. CASE p # trip
      <3>1. p \in trips /\ RightBefore(trips, p, a)
        BY <1>5, <1>18, <2>6 DEF RightBefore
      <3>2. MilesBefore(trips, a.id) = Min0(a.from - p.to)
        BY <1>3, <3>1, MilesBeforeIs
      <3>3. ASSUME NEW k \in DOMAIN seq, k > 1, seq[k] = a, seq[k - 1] = p,
                   Min0(b.from - q.to) = gaps[k]
            PROVE  Min0(b.from - q.to) = Min0(a.from - p.to)
        <4>1. k > 2
          BY <1>8, <1>9, <2>6, <3>3
        <4> QED
          BY <1>10, <1>11, <3>3, <4>1
      <3> QED
        BY <1>8, <1>15, <1>16, <2>3, <2>5, <3>2, <3>3
    <2>7. CASE p = trip
      <3>1. a \in later
        BY <1>8, <1>16, <1>18, <2>7 DEF RightBefore
      <3>2. PICK k \in DOMAIN seq : /\ k > 1 /\ seq[k] = a /\ seq[k - 1] = p
                                    /\ Min0(b.from - q.to) = gaps[k]
        BY <1>8, <1>16, <2>5, <3>1
      <3>3. k = 2
        BY <1>8, <1>9, <2>7, <3>2
      <3>4. MilesBefore(trips', a.id) =
              IF PreviousOf(d) = {} THEN 0
              ELSE Min0(a.from - (CHOOSE t \in PreviousOf(d) : TRUE).to)
        BY <1>11, <1>15, <2>3, <3>2, <3>3
      <3>5. CASE First(trips, a)
        <4>1. PreviousOf(d) = {} /\ MilesBefore(trips, a.id) = 0
          BY <1>3, <1>7, <1>18, <2>7, <3>5, MilesBeforeIs
        <4> QED
          BY <3>4, <4>1
      <3>6. ASSUME NEW r \in trips, RightBefore(trips, r, a)
            PROVE  MilesBefore(trips', a.id) = MilesBefore(trips, a.id)
        <4>1. PreviousOf(d) = {r} /\ MilesBefore(trips, a.id) = Min0(a.from - r.to)
          BY <1>3, <1>7, <1>18, <2>7, <3>6, MilesBeforeIs
        <4>2. (CHOOSE t \in {r} : TRUE) = r
          OBVIOUS
        <4> QED
          BY <3>4, <4>1, <4>2
      <3> QED
        BY <1>3, <3>5, <3>6, MilesBeforeIs
    <2> QED
      BY <2>6, <2>7
  <1> QED
    BY <1>1, <1>16, <1>17, <1>18, MilesBeforeIs

(* Editing, adding and aligning trips keeps the miles between a trip and   *)
(* the one before it, whatever the table holds; a trip added, as long as   *)
(* no trips overlap.                                                       *)
THEOREM GapsAlwaysSurvive == Spec => GapsSurvive
  <1> DEFINE Kept == \A i \in Ids(trips) : MilesBefore(trips', i) = MilesBefore(trips, i)
             Asked == /\ ops' # ops /\ Ids(trips) \subseteq Ids(trips')
                      /\ Ids(trips) = Ids(trips') \/ InSequence(trips')
  <1>1. ASSUME TripInv, [Next]_vars, Asked PROVE Kept
    <2>1. Typed /\ Table(trips)
      BY <1>1 DEF TripInv, Typed
    <2>2. ASSUME NEW t \in trips, NEW o \in Sites, NEW d \in Sites,
                 NEW m \in Entries \union {t.miles}, EditTrip(t, o, d, m)
          PROVE  Kept
      <3>1. m \in Nat
        BY <2>1, MilesAssumption, TripIs DEF Table
      <3> QED
        BY <2>1, <2>2, <3>1, EditGaps
    <2>3. ASSUME NEW t \in trips, DeleteTrip(t) PROVE Kept
      <3>1. t.id \in Ids(trips) /\ t.id \notin Ids(trips')
        BY <2>1, <2>3 DEF DeleteTrip, Ids, Table, UniqueIds
      <3> QED
        BY <1>1, <3>1
    <2>4. ASSUME NEW k \in deleted, ForgetDeleted(k) PROVE Kept
      <3>1. trips' = trips
        BY <2>4 DEF ForgetDeleted
      <3> QED
        BY <3>1
    <2>5. ASSUME NEW d \in Days, NEW from \in Sites, NEW to \in Sites, NEW m \in Entries,
                 NEW o \in Entries, AddTrip(d, from, to, m, o)
          PROVE  Kept
      <3>1. InSequence(trips')
        <4> DEFINE trip == ManualTrip(d, from, to, m, o)
        <4>1. /\ trip.id \notin Ids(UNION {trips, gen.read, gen.write})
              /\ SameTrips(trips \union {trip}, trips')
          BY <2>1, <2>5, AddTripIs
        <4> HIDE DEF trip
        <4>2. trip.id \notin Ids(trips)
          BY <4>1 DEF Ids
        <4>3. trip.id \in Ids(trips')
          BY <4>1 DEF SameTrips, SameTrip, Ids
        <4> QED
          BY <1>1, <4>2, <4>3
      <3> QED
        BY <2>1, <2>5, <3>1, AddGaps
    <2>6. ASSUME NEW v \in Entries, AlignTrips(v) PROVE Kept
      BY <2>1, <2>6, MilesAssumption, AlignGaps
    <2>7. ops' = ops => Kept
      BY <1>1
    <2> HIDE DEF Kept, Asked
    <2> QED
      BY <1>1, <2>2, <2>3, <2>4, <2>5, <2>6, <2>7
         DEF Next, vars, Tick, StoreRow, BeginGeneration, CommitGeneration, GenerationFails
  <1>2. TripInv /\ [Next]_vars =>
          [( /\ ops' # ops /\ Ids(trips) \subseteq Ids(trips')
             /\ Ids(trips) = Ids(trips') \/ InSequence(trips') )
           => \A id \in Ids(trips) : MilesBefore(trips', id) = MilesBefore(trips, id)]_vars
    BY <1>1
  <1> HIDE DEF Kept, Asked
  <1> QED
    BY <1>2, TripInvariant, PTL DEF Spec, GapsSurvive
=============================================================================
