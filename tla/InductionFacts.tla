--------------------------- MODULE InductionFacts ---------------------------
(***************************************************************************)
(* Induction over finite sets and natural numbers, stated about sets and   *)
(* functions instead of operators, and what follows for the folds of the   *)
(* community modules: that the recursive function behind a fold exists,    *)
(* has the type one expects and is the only one.                           *)
(***************************************************************************)
EXTENDS Integers, FiniteSets, FiniteSetsExt, FiniteSetTheorems, WellFoundedInduction, TLAPS

\* A set of subsets of a finite set has a smallest member.
LEMMA SmallestSubset ==
  ASSUME NEW S, IsFiniteSet(S), NEW T \in SUBSET SUBSET S, T # {}
  PROVE  \E s \in T : \A t \in SUBSET s : t # s => t \notin T
  <1> DEFINE R == StrictSubsetOrdering(S)
             F == FiniteSubsetsOf(S)
  <1>1. IsWellFoundedOn(R, F) /\ F = SUBSET S
    BY FS_StrictSubsetOrderingWellFounded, FS_FiniteSubsetsOfFinite
  <1>2. PICK s \in T : \A t \in T : << t, s >> \notin R
    <2> HIDE DEF R, F
    <2> QED BY <1>1, WFMin
  <1>3. \A t \in SUBSET s : t # s => t \notin T
    BY <1>2 DEF StrictSubsetOrdering
  <1> QED BY <1>3

\* A set of natural numbers has a least member.
LEMMA LeastNatural ==
  ASSUME NEW T \in SUBSET Nat, T # {}
  PROVE  \E n \in T : \A m \in T : n <= m
  <1>1. PICK k \in T : TRUE
    OBVIOUS
  <1> DEFINE U == { 1..n : n \in { m \in T : m <= k } }
  <1>2. IsFiniteSet(1..k) /\ U \in SUBSET SUBSET (1..k) /\ U # {}
    <2>1. k \in Nat /\ k \in { m \in T : m <= k }
      BY <1>1
    <2>2. \A n \in { m \in T : m <= k } : 1..n \subseteq 1..k
      BY <2>1
    <2>3. U \in SUBSET SUBSET (1..k) /\ 1..k \in U
      BY <2>1, <2>2
    <2>4. IsFiniteSet(1..k)
      BY <2>1, FS_Interval
    <2> QED BY <2>3, <2>4
  <1>3. PICK u \in U : \A v \in SUBSET u : v # u => v \notin U
    <2> HIDE DEF U
    <2> QED BY <1>2, SmallestSubset
  <1>4. PICK n \in T : n <= k /\ u = 1..n
    BY <1>3
  <1>5. ASSUME NEW m \in T, m < n PROVE FALSE
    <2>1. 1..m \in SUBSET u /\ 1..m # u
      <3>1. n \in u /\ n \notin 1..m
        BY <1>4, <1>5
      <3> QED BY <1>4, <1>5, <3>1
    <2>2. 1..m \in U
      BY <1>1, <1>4, <1>5
    <2> QED BY <1>3, <2>1, <2>2
  <1> QED BY <1>4, <1>5

\* A finite set has a member that is first in a total preorder.
LEMMA FirstExists ==
  ASSUME NEW S, IsFiniteSet(S), S # {}, NEW R,
         \A x, y \in S : << x, y >> \in R \/ << y, x >> \in R,
         \A x, y, z \in S : << x, y >> \in R /\ << y, z >> \in R => << x, z >> \in R
  PROVE  \E x \in S : \A y \in S : << x, y >> \in R
  <1> DEFINE Headless == { s \in SUBSET S : s # {} /\ ~\E x \in s : \A y \in s : << x, y >> \in R }
  <1>1. SUFFICES ASSUME Headless # {} PROVE FALSE
    OBVIOUS
  <1>2. PICK s \in Headless : \A t \in SUBSET s : t # s => t \notin Headless
    <2>1. Headless \in SUBSET SUBSET S
      OBVIOUS
    <2> HIDE DEF Headless
    <2> QED BY <1>1, <2>1, SmallestSubset
  <1>3. PICK x \in s : TRUE
    BY <1>2
  <1>4. s \ {x} \in SUBSET s /\ s \ {x} # s /\ s \ {x} \in SUBSET S
    BY <1>2, <1>3
  <1>5. CASE s \ {x} = {}
    BY <1>2, <1>3, <1>5
  <1>6. CASE s \ {x} # {}
    <2>1. PICK z \in s \ {x} : \A y \in s \ {x} : << z, y >> \in R
      BY <1>2, <1>4, <1>6
    <2>2. CASE << x, z >> \in R
      <3>1. \A y \in s : << x, y >> \in R
        BY <1>2, <1>3, <2>1, <2>2
      <3> QED BY <1>2, <1>3, <3>1
    <2>3. CASE << z, x >> \in R
      <3>1. \A y \in s : << z, y >> \in R
        BY <1>2, <1>3, <2>1, <2>3
      <3> QED BY <1>2, <2>1, <3>1
    <2> QED BY <1>2, <1>3, <2>1, <2>2, <2>3
  <1> QED BY <1>5, <1>6

\* A finite set of integers has a greatest member.
LEMMA GreatestExists ==
  ASSUME NEW S \in SUBSET Int, IsFiniteSet(S), S # {}
  PROVE  \E x \in S : \A y \in S : y <= x
  <1> DEFINE R == { p \in S \X S : p[2] <= p[1] }
  <1>1. /\ \A x, y \in S : << x, y >> \in R \/ << y, x >> \in R
        /\ \A x, y, z \in S : << x, y >> \in R /\ << y, z >> \in R => << x, z >> \in R
    OBVIOUS
  <1>2. \E x \in S : \A y \in S : << x, y >> \in R
    <2> HIDE DEF R
    <2> QED BY <1>1, FirstExists
  <1> QED BY <1>2

\* The values of a function on a finite set are finitely many.
LEMMA FiniteImage ==
  ASSUME NEW S, IsFiniteSet(S), NEW f
  PROVE  IsFiniteSet({ f[x] : x \in S })
  <1> DEFINE T == { f[x] : x \in S }
             g == [x \in S |-> f[x]]
  <1>1. g \in Surjection(S, T)
    BY DEF Surjection
  <1> HIDE DEF T, g
  <1>2. IsFiniteSet(T)
    BY <1>1, FS_Surjection
  <1> QED BY <1>2 DEF T

-----------------------------------------------------------------------------
(* The function behind a fold over S: what is picked of a set is combined   *)
(* with the value of the rest.                                              *)

IsFold(g, S, pick, op, base) ==
  \A s \in SUBSET S :
    g[s] = IF s = {} THEN base ELSE op[<< pick[s], g[s \ {pick[s]}] >>]

\* It exists, with values of the type of op.
LEMMA FoldExists ==
  ASSUME NEW S, IsFiniteSet(S), NEW V, NEW base \in V, NEW op \in [S \X V -> V],
         NEW pick, \A s \in SUBSET S : s # {} => pick[s] \in s
  PROVE  \E g \in [SUBSET S -> V] : IsFold(g, S, pick, op, base)
  <1> DEFINE Upto(n) == { s \in SUBSET S : Cardinality(s) <= n }
             Val(g, s) == IF s = {} THEN base ELSE op[<< pick[s], g[s \ {pick[s]}] >>]
             Good(n, g) == g \in [Upto(n) -> V] /\ \A s \in Upto(n) : g[s] = Val(g, s)
             Failing == { n \in Nat : ~\E g : Good(n, g) }
  <1>1. \A s \in SUBSET S : IsFiniteSet(s) /\ Cardinality(s) \in Nat
    BY FS_Subset, FS_CardinalityType
  <1>2. \A s \in SUBSET S : s # {} =>
          s \ {pick[s]} \in SUBSET S /\ Cardinality(s \ {pick[s]}) = Cardinality(s) - 1
    BY <1>1, FS_RemoveElement
  <1>3. Failing = {}
    <2> SUFFICES ASSUME Failing # {} PROVE FALSE
      OBVIOUS
    <2>1. PICK n \in Failing : \A m \in Failing : n <= m
      <3>1. Failing \in SUBSET Nat
        OBVIOUS
      <3> HIDE DEF Failing
      <3> QED BY <3>1, LeastNatural
    <2>2. CASE n = 0
      <3> DEFINE g == [s \in Upto(0) |-> base]
      <3>1. \A s \in Upto(0) : s = {}
        BY <1>1, FS_EmptySet
      <3>2. Good(0, g)
        BY <3>1
      <3> QED BY <2>1, <2>2, <3>2
    <2>3. CASE n # 0
      <3>1. n - 1 \in Nat /\ n - 1 \notin Failing
        <4>1. n \in Nat /\ \A m \in Failing : m \in Nat /\ n <= m
          BY <2>1
        <4> HIDE DEF Failing
        <4> QED BY <2>3, <4>1
      <3>2. PICK g : Good(n - 1, g)
        BY <3>1
      <3> DEFINE h == [s \in Upto(n) |-> Val(g, s)]
      <3>3. \A s \in Upto(n) : s # {} => s \ {pick[s]} \in Upto(n - 1)
        BY <1>1, <1>2, <2>1
      <3>4. Upto(n - 1) \subseteq Upto(n)
        BY <1>1, <2>1
      <3>5. \A s \in Upto(n - 1) : h[s] = g[s]
        BY <3>2, <3>4
      <3>6. \A s \in Upto(n) : Val(g, s) \in V
        <4> SUFFICES ASSUME NEW s \in Upto(n), s # {} PROVE Val(g, s) \in V
          OBVIOUS
        <4>1. g[s \ {pick[s]}] \in V
          BY <3>2, <3>3
        <4> QED BY <4>1
      <3>7. \A s \in Upto(n) : Val(h, s) = Val(g, s)
        <4> HIDE DEF h
        <4> QED BY <3>3, <3>5
      <3>8. \A s \in Upto(n) : h[s] = Val(g, s)
        OBVIOUS
      <3>9. h \in [Upto(n) -> V]
        BY <3>6
      <3>10. Good(n, h)
        <4> HIDE DEF h, Val
        <4> QED BY <3>7, <3>8, <3>9
      <3> QED BY <2>1, <3>10
    <2> QED BY <2>2, <2>3
  <1>4. PICK g : Good(Cardinality(S), g)
    BY <1>1, <1>3
  <1>5. Upto(Cardinality(S)) = SUBSET S
    BY FS_Subset
  <1> QED BY <1>4, <1>5 DEF IsFold

\* h agrees with g on the empty set, and on any other set if it does so on what
\* is left of it without the pick.
Follows(h, g, S, pick) ==
  /\ h[{}] = g[{}]
  /\ \A s \in SUBSET S :
       s # {} => /\ pick[s] \in s
                 /\ h[s \ {pick[s]}] = g[s \ {pick[s]}] => h[s] = g[s]

\* Then they agree on all subsets.
LEMMA SameFold ==
  ASSUME NEW S, IsFiniteSet(S), NEW pick, NEW g, NEW h, Follows(h, g, S, pick)
  PROVE  \A s \in SUBSET S : h[s] = g[s]
  <1> DEFINE Differ == { s \in SUBSET S : h[s] # g[s] }
  <1> SUFFICES ASSUME Differ # {} PROVE FALSE
    OBVIOUS
  <1>1. PICK s \in Differ : \A t \in SUBSET s : t # s => t \notin Differ
    <2>1. Differ \in SUBSET SUBSET S
      OBVIOUS
    <2> HIDE DEF Differ
    <2> QED BY <2>1, SmallestSubset
  <1>2. s # {}
    BY <1>1 DEF Follows
  <1>3. s \in SUBSET S /\ pick[s] \in s
    BY <1>1, <1>2 DEF Follows
  <1>4. h[s \ {pick[s]}] = g[s \ {pick[s]}]
    BY <1>1, <1>3
  <1> QED BY <1>1, <1>2, <1>3, <1>4 DEF Follows

\* A function that takes the values of a fold wherever it takes them on the
\* rest is that fold.
LEMMA FoldUnique ==
  ASSUME NEW S, IsFiniteSet(S), NEW pick, NEW op, NEW base, NEW g,
         IsFold(g, S, pick, op, base),
         \A s \in SUBSET S : s # {} => pick[s] \in s,
         NEW h, h[{}] = base,
         \A s \in SUBSET S :
           s # {} /\ h[s \ {pick[s]}] = g[s \ {pick[s]}] => h[s] = g[s]
  PROVE  \A s \in SUBSET S : h[s] = g[s]
  <1>1. Follows(h, g, S, pick)
    BY DEF IsFold, Follows
  <1> QED BY <1>1, SameFold

-----------------------------------------------------------------------------
(* Positions: a fold over a sequence takes them from the last one down.     *)

\* The last of some positions is one of them.
LEMMA LastPosition ==
  ASSUME NEW n \in Nat, NEW s \in SUBSET (1..n), s # {}
  PROVE  /\ Max(s) \in s /\ \A i \in s : i <= Max(s)
         /\ s \ {Max(s)} \in SUBSET s /\ s \ {Max(s)} # s
  <1>1. IsFiniteSet(1..n)
    BY FS_Interval
  <1>2. IsFiniteSet(s)
    BY <1>1, FS_Subset
  <1>3. s \in SUBSET Int
    OBVIOUS
  <1>4. \E x \in s : \A y \in s : y <= x
    BY <1>2, <1>3, GreatestExists
  <1>5. \E x \in s : \A y \in s : x >= y
    BY <1>3, <1>4
  <1>6. Max(s) \in s /\ \A y \in s : Max(s) >= y
    BY <1>5 DEF Max
  <1>7. \A i \in s : i <= Max(s)
    BY <1>3, <1>6
  <1> QED BY <1>6, <1>7

\* A list as long as a finite set, of members of it and without a repetition,
\* has all of them.
LEMMA ListHasAll ==
  ASSUME NEW S, IsFiniteSet(S), NEW f \in [1..Cardinality(S) -> S],
         \A i, j \in 1..Cardinality(S) : i # j => f[i] # f[j]
  PROVE  Cardinality(S) \in Nat /\ \A x \in S : \E i \in 1..Cardinality(S) : f[i] = x
  <1> DEFINE D == 1..Cardinality(S)
  <1>1. Cardinality(S) \in Nat
    BY FS_CardinalityType
  <1>2. f \in Injection(D, S)
    BY DEF Injection, IsInjective
  <1>3. IsFiniteSet(D) /\ Cardinality(D) = Cardinality(S)
    BY <1>1, FS_Interval
  <1>4. f \in Surjection(D, S)
    <2> HIDE DEF D
    <2> QED BY <1>2, <1>3, FS_Injection
  <1> QED BY <1>1, <1>4 DEF Surjection

=============================================================================
