------------------------------ MODULE SumLemmas ------------------------------
(***************************************************************************)
(* Facts about sums over finite sets, for the components that keep a total *)
(* next to what it is the total of: a lane's reservation, a mint's         *)
(* liability, a vault's shares.  SumFunctionOnSet takes the elements in    *)
(* some order; the lemmas say that the order does not matter.              *)
(***************************************************************************)
EXTENDS Functions, FiniteSetTheorems, WellFoundedInduction, TLAPS

-----------------------------------------------------------------------------
(* Induction over the subsets of a finite set.                             *)

LEMMA SubsetInduction ==
  ASSUME NEW S, IsFiniteSet(S), NEW Q,
         \A s \in SUBSET S : (\A t \in SUBSET s : t # s => t \in Q) => s \in Q
  PROVE  S \in Q
  <1> SUFFICES ASSUME S \notin Q PROVE FALSE
    OBVIOUS
  <1> DEFINE T == (SUBSET S) \ Q
  <1>1. IsWellFoundedOn(StrictSubsetOrdering(S), SUBSET S)
    <2>1. IsWellFoundedOn(StrictSubsetOrdering(S), FiniteSubsetsOf(S))
      BY FS_StrictSubsetOrderingWellFounded
    <2>2. FiniteSubsetsOf(S) = SUBSET S
      BY FS_FiniteSubsetsOfFinite
    <2> HIDE DEF T
    <2> QED
      BY <2>1, <2>2
  <1>2. PICK x \in T : \A y \in T : <<y, x>> \notin StrictSubsetOrdering(S)
    <2>1. T \subseteq SUBSET S /\ T # {}
      OBVIOUS
    <2> HIDE DEF T
    <2> QED
      BY <1>1, <2>1, WFMin
  <1> QED
    BY <1>2 DEF StrictSubsetOrdering

(* Induction up to a number.                                               *)
LEMMA UpTo ==
  ASSUME NEW n \in Nat, NEW Q, 0 \in Q, \A k \in 0..(n - 1) : k \in Q => k + 1 \in Q
  PROVE  0..n \subseteq Q
<1> DEFINE R == {s \in SUBSET (0..n) : \A k \in 0..n : s = 0..k => k \in Q}
<1>1. ASSUME NEW s \in SUBSET (0..n), \A t \in SUBSET s : t # s => t \in R
      PROVE  s \in R
  <2> SUFFICES ASSUME NEW k \in 0..n, s = 0..k PROVE k \in Q
    OBVIOUS
  <2>1. CASE k = 0
    BY <2>1
  <2>2. CASE k # 0
    <3>1. k - 1 \in 0..(n - 1) /\ k - 1 \in 0..n /\ (k - 1) + 1 = k
      BY <2>2
    <3>2. 0..(k - 1) \in SUBSET s /\ 0..(k - 1) # s
      BY <3>1
    <3>3. 0..(k - 1) \in R
      BY <3>2, <1>1
    <3> QED
      BY <3>1, <3>3
  <2> QED
    BY <2>1, <2>2
<1>2. ASSUME NEW m \in 0..n PROVE m \in Q
  <2> DEFINE S == 0..m
             P == {s \in SUBSET S : s \in R}
  <2>1. \A s \in SUBSET S : (\A t \in SUBSET s : t # s => t \in P) => s \in P
    <3> SUFFICES ASSUME NEW s \in SUBSET S, \A t \in SUBSET s : t # s => t \in P
                 PROVE  s \in P
      OBVIOUS
    <3>1. s \in SUBSET (0..n)
      OBVIOUS
    <3>2. \A t \in SUBSET s : t # s => t \in R
      BY DEF P
    <3>3. s \in R
      BY <1>1, <3>1, <3>2
    <3> QED
      BY <3>3
  <2>2. IsFiniteSet(S)
    BY FS_Interval
  <2> HIDE DEF P, R
  <2>3. S \in P
    <3> HIDE DEF S
    <3> QED
    BY <2>1, <2>2, SubsetInduction
  <2> USE DEF P, R
  <2> QED
    BY <2>3
<1> QED
  BY <1>2

-----------------------------------------------------------------------------
(* The recursion behind the sum.                                           *)

Pick(S) == CHOOSE x \in S : TRUE

IsTotal(F, f, S) ==
  F = [s \in SUBSET S |-> IF s = {} THEN 0 ELSE f[Pick(s)] + F[s \ {Pick(s)}]]

Total(f, S) == CHOOSE F : IsTotal(F, f, S)

LEMMA SumIsTotal ==
  ASSUME NEW f, NEW S
  PROVE  SumFunctionOnSet(f, S) = Total(f, S)[S]
  BY DEF SumFunctionOnSet, FoldFunctionOnSet, MapThenFoldSet, IsTotal, Pick, Total

LEMMA PickFrom ==
  ASSUME NEW S, S # {}
  PROVE  Pick(S) \in S /\ S \ {Pick(S)} \in SUBSET S /\ S \ {Pick(S)} # S
  <1>1. Pick(S) \in S
    BY DEF Pick
  <1> QED
    BY <1>1

(* The totals of a set contain those of its subsets, and are unique.       *)
LEMMA TotalsAgree ==
  ASSUME NEW f, NEW S, IsFiniteSet(S), NEW F, IsTotal(F, f, S),
         NEW T \in SUBSET S, NEW G, IsTotal(G, f, T)
  PROVE  F[T] = G[T]
  <1> DEFINE Q == {s \in SUBSET T : F[s] = G[s]}
  <1>1. IsFiniteSet(T)
    BY FS_Subset
  <1>2. ASSUME NEW s \in SUBSET T, \A t \in SUBSET s : t # s => t \in Q
        PROVE  s \in Q
    <2>1. CASE s = {}
      BY <2>1 DEF IsTotal
    <2>2. CASE s # {}
      <3> DEFINE u == s \ {Pick(s)}
      <3>1. u \in SUBSET s /\ u # s
        BY <2>2, PickFrom
      <3>2. F[u] = G[u]
        BY <1>2, <3>1
      <3> HIDE DEF u
      <3>3. F[s] = f[Pick(s)] + F[u]
        BY <2>2 DEF IsTotal, u
      <3>4. G[s] = f[Pick(s)] + G[u]
        BY <2>2 DEF IsTotal, u
      <3> QED
        BY <3>2, <3>3, <3>4
    <2> QED
      BY <2>1, <2>2
  <1>3. T \in Q
    <2> HIDE DEF Q
    <2> QED
      BY <1>1, <1>2, SubsetInduction
  <1> QED
    BY <1>3

(* They exist for every finite set.                                        *)
LEMMA TotalsExist ==
  ASSUME NEW f, NEW S, IsFiniteSet(S)
  PROVE  IsTotal(Total(f, S), f, S)
  <1> DEFINE Q == {s \in SUBSET S : \E F : IsTotal(F, f, s)}
  <1>1. ASSUME NEW s \in SUBSET S, \A t \in SUBSET s : t # s => t \in Q
        PROVE  s \in Q
    <2>1. ASSUME NEW t \in SUBSET s, t # s
          PROVE  IsTotal(Total(f, t), f, t)
      BY <1>1, <2>1 DEF Total
    <2> DEFINE F == [t \in SUBSET s |->
                       IF t = {} THEN 0 ELSE f[Pick(t)] + Total(f, t \ {Pick(t)})[t \ {Pick(t)}]]
    <2>2. ASSUME NEW t \in SUBSET s, t # s
          PROVE  F[t] = Total(f, t)[t]
      <3>1. CASE t = {}
        <4> DEFINE G == Total(f, t)
        <4>1. IsTotal(G, f, t)
          BY <2>1, <2>2
        <4> HIDE DEF G
        <4>2. G[t] = 0
          BY <3>1, <4>1 DEF IsTotal
        <4> QED
          BY <3>1, <4>2 DEF G
      <3>2. CASE t # {}
        <4> DEFINE u == t \ {Pick(t)}
        <4>1. u \in SUBSET t /\ u # t /\ u \in SUBSET s /\ u # s
          BY <2>2, <3>2, PickFrom
        <4>2. IsTotal(Total(f, t), f, t) /\ IsTotal(Total(f, u), f, u) /\ IsFiniteSet(t)
          BY <2>1, <2>2, <4>1, FS_Subset
        <4>3. Total(f, t)[u] = Total(f, u)[u]
          BY <4>1, <4>2, TotalsAgree
        <4>4. Total(f, t)[t] = f[Pick(t)] + Total(f, t)[u]
          <5> DEFINE G == Total(f, t)
          <5>1. IsTotal(G, f, t)
            BY <4>2
          <5> HIDE DEF G
          <5> QED
            BY <3>2, <5>1 DEF IsTotal, G
        <4> QED
          BY <3>2, <4>3, <4>4
      <3> QED
        BY <3>1, <3>2
    <2>3. ASSUME NEW t \in SUBSET s, t # {}
          PROVE  F[t] = f[Pick(t)] + F[t \ {Pick(t)}]
      <3>1. t \ {Pick(t)} \in SUBSET s /\ t \ {Pick(t)} # s
        BY <2>3, PickFrom
      <3> QED
        BY <2>2, <2>3, <3>1
    <2>4. F[{}] = 0 /\ F = [t \in SUBSET s |-> F[t]]
      OBVIOUS
    <2>5. IsTotal(F, f, s)
      <3> HIDE DEF F
      <3> QED
        BY <2>3, <2>4 DEF IsTotal
    <2> QED
      BY <2>5
  <1>2. S \in Q
    <2> HIDE DEF Q
    <2> QED
      BY <1>1, SubsetInduction
  <1> QED
    BY <1>2 DEF Total

-----------------------------------------------------------------------------
(* Sums.                                                                   *)

LEMMA SumOfNone ==
  ASSUME NEW f
  PROVE  SumFunctionOnSet(f, {}) = 0
  <1>1. IsTotal(Total(f, {}), f, {})
    BY TotalsExist, FS_EmptySet
  <1> DEFINE F == Total(f, {})
  <1>2. IsTotal(F, f, {})
    BY <1>1
  <1> HIDE DEF F
  <1>3. F[{}] = 0
    BY <1>2 DEF IsTotal
  <1> QED
    BY <1>3, SumIsTotal DEF F

LEMMA SumUnfolds ==
  ASSUME NEW f, NEW S, IsFiniteSet(S), S # {}
  PROVE  SumFunctionOnSet(f, S) = f[Pick(S)] + SumFunctionOnSet(f, S \ {Pick(S)})
  <1> DEFINE u == S \ {Pick(S)}
             F == Total(f, S)
  <1>1. u \in SUBSET S /\ IsFiniteSet(u)
    BY FS_Subset
  <1>2. IsTotal(F, f, S) /\ IsTotal(Total(f, u), f, u)
    BY <1>1, TotalsExist
  <1>3. F[u] = Total(f, u)[u]
    BY <1>1, <1>2, TotalsAgree
  <1> HIDE DEF F
  <1>4. F[S] = f[Pick(S)] + F[u]
    BY <1>2 DEF IsTotal
  <1> QED
    BY <1>3, <1>4, SumIsTotal DEF F

LEMMA SumIsInteger ==
  ASSUME NEW S, IsFiniteSet(S), NEW f, \A x \in S : f[x] \in Int
  PROVE  SumFunctionOnSet(f, S) \in Int
  <1> DEFINE Q == {s \in SUBSET S : SumFunctionOnSet(f, s) \in Int}
  <1>1. ASSUME NEW s \in SUBSET S, \A t \in SUBSET s : t # s => t \in Q
        PROVE  s \in Q
    <2>1. CASE s = {}
      BY <2>1, SumOfNone
    <2>2. CASE s # {}
      <3>1. IsFiniteSet(s) /\ Pick(s) \in S /\ s \ {Pick(s)} \in SUBSET s /\ s \ {Pick(s)} # s
        BY <2>2, PickFrom, FS_Subset
      <3>2. SumFunctionOnSet(f, s \ {Pick(s)}) \in Int
        BY <1>1, <3>1
      <3> QED
        BY <2>2, <3>1, <3>2, SumUnfolds
    <2> QED
      BY <2>1, <2>2
  <1>2. S \in Q
    <2> HIDE DEF Q
    <2> QED
      BY <1>1, SubsetInduction
  <1> QED
    BY <1>2

(* Any element may be taken out first.                                     *)
LEMMA SumWithout ==
  ASSUME NEW S, IsFiniteSet(S), NEW f, \A x \in S : f[x] \in Int, NEW x \in S
  PROVE  SumFunctionOnSet(f, S) = f[x] + SumFunctionOnSet(f, S \ {x})
  <1> DEFINE Sum(s) == SumFunctionOnSet(f, s)
             Q == {s \in SUBSET S : \A y \in s : Sum(s) = f[y] + Sum(s \ {y})}
  <1>1. \A s \in SUBSET S : IsFiniteSet(s) /\ Sum(s) \in Int
    BY FS_Subset, SumIsInteger
  <1>2. \A s \in SUBSET S : s # {} => Pick(s) \in s /\ Sum(s) = f[Pick(s)] + Sum(s \ {Pick(s)})
    BY <1>1, SumUnfolds, PickFrom
  <1> HIDE DEF Sum
  <1>3. ASSUME NEW s \in SUBSET S, \A t \in SUBSET s : t # s => t \in Q, NEW y \in s
        PROVE  Sum(s) = f[y] + Sum(s \ {y})
    <2> DEFINE p == Pick(s)
               u == s \ {y, p}
    <2>1. p \in s /\ Sum(s) = f[p] + Sum(s \ {p})
      BY <1>2
    <2> HIDE DEF p
    <2>2. CASE y = p
      BY <2>1, <2>2
    <2>3. CASE y # p
      <3>1. /\ s \ {p} \in SUBSET s /\ s \ {p} # s /\ y \in s \ {p}
            /\ s \ {y} \in SUBSET s /\ s \ {y} # s /\ p \in s \ {y}
            /\ (s \ {p}) \ {y} = u /\ (s \ {y}) \ {p} = u
        BY <2>1, <2>3
      <3>2. s \ {p} \in Q /\ s \ {y} \in Q
        BY <1>3, <3>1
      <3>3. Sum(s \ {p}) = f[y] + Sum(u) /\ Sum(s \ {y}) = f[p] + Sum(u)
        BY <3>1, <3>2
      <3>4. f[y] \in Int /\ f[p] \in Int /\ Sum(u) \in Int
        BY <1>1, <2>1
      <3> QED
        BY <2>1, <3>3, <3>4
    <2> QED
      BY <2>2, <2>3
  <1>4. \A s \in SUBSET S : (\A t \in SUBSET s : t # s => t \in Q) => s \in Q
    BY <1>3
  <1>5. S \in Q
    <2> HIDE DEF Q
    <2> QED
      BY <1>4, SubsetInduction
  <1> QED
    BY <1>5 DEF Sum

LEMMA SumWith ==
  ASSUME NEW S, IsFiniteSet(S), NEW f, NEW x, x \notin S,
         \A y \in S \cup {x} : f[y] \in Int
  PROVE  SumFunctionOnSet(f, S \cup {x}) = f[x] + SumFunctionOnSet(f, S)
  <1>1. IsFiniteSet(S \cup {x}) /\ (S \cup {x}) \ {x} = S
    BY FS_AddElement
  <1> QED
    BY <1>1, SumWithout

(* Only the values on the set matter.                                      *)
LEMMA SumAgrees ==
  ASSUME NEW S, IsFiniteSet(S), NEW f, NEW g, \A x \in S : f[x] = g[x]
  PROVE  SumFunctionOnSet(f, S) = SumFunctionOnSet(g, S)
  <1> DEFINE Q == {s \in SUBSET S : SumFunctionOnSet(f, s) = SumFunctionOnSet(g, s)}
  <1>1. ASSUME NEW s \in SUBSET S, \A t \in SUBSET s : t # s => t \in Q
        PROVE  s \in Q
    <2>1. CASE s = {}
      BY <2>1, SumOfNone
    <2>2. CASE s # {}
      <3>1. IsFiniteSet(s) /\ Pick(s) \in S /\ s \ {Pick(s)} \in SUBSET s /\ s \ {Pick(s)} # s
        BY <2>2, PickFrom, FS_Subset
      <3>2. SumFunctionOnSet(f, s \ {Pick(s)}) = SumFunctionOnSet(g, s \ {Pick(s)})
        BY <1>1, <3>1
      <3>3. f[Pick(s)] = g[Pick(s)]
        BY <3>1
      <3> QED
        BY <2>2, <3>1, <3>2, <3>3, SumUnfolds
    <2> QED
      BY <2>1, <2>2
  <1>2. S \in Q
    <2> HIDE DEF Q
    <2> QED
      BY <1>1, SubsetInduction
  <1> QED
    BY <1>2

(* A change of one value changes the sum by as much.                       *)
LEMMA SumOfChanged ==
  ASSUME NEW S, IsFiniteSet(S), NEW f, NEW g, NEW x \in S,
         \A y \in S : f[y] \in Int /\ g[y] \in Int,
         \A y \in S : y # x => g[y] = f[y]
  PROVE  SumFunctionOnSet(g, S) = SumFunctionOnSet(f, S) - f[x] + g[x]
  <1>1. IsFiniteSet(S \ {x})
    BY FS_Subset
  <1>2. SumFunctionOnSet(f, S \ {x}) = SumFunctionOnSet(g, S \ {x})
    BY <1>1, SumAgrees
  <1>3. SumFunctionOnSet(f, S \ {x}) \in Int
    BY <1>1, SumIsInteger
  <1>4. /\ SumFunctionOnSet(f, S) = f[x] + SumFunctionOnSet(f, S \ {x})
        /\ SumFunctionOnSet(g, S) = g[x] + SumFunctionOnSet(g, S \ {x})
    BY SumWithout
  <1> QED
    BY <1>2, <1>3, <1>4

LEMMA SumOfNothing ==
  ASSUME NEW S, IsFiniteSet(S), NEW f, \A x \in S : f[x] = 0
  PROVE  SumFunctionOnSet(f, S) = 0
  <1> DEFINE Q == {s \in SUBSET S : SumFunctionOnSet(f, s) = 0}
  <1>1. ASSUME NEW s \in SUBSET S, \A t \in SUBSET s : t # s => t \in Q
        PROVE  s \in Q
    <2>1. CASE s = {}
      BY <2>1, SumOfNone
    <2>2. CASE s # {}
      <3>1. IsFiniteSet(s)
        BY FS_Subset
      <3>2. Pick(s) \in s /\ s \ {Pick(s)} \in Q
        BY <1>1, <2>2, PickFrom
      <3>3. SumFunctionOnSet(f, s) = f[Pick(s)] + SumFunctionOnSet(f, s \ {Pick(s)})
        BY <2>2, <3>1, SumUnfolds
      <3> QED
        BY <3>2, <3>3
    <2> QED
      BY <2>1, <2>2
  <1>2. S \in Q
    <2> HIDE DEF Q
    <2> QED
      BY <1>1, SubsetInduction
  <1> QED
    BY <1>2

(* Sums of naturals: no part is larger than the whole.                     *)
LEMMA SumIsNatural ==
  ASSUME NEW S, IsFiniteSet(S), NEW f, \A x \in S : f[x] \in Nat
  PROVE  SumFunctionOnSet(f, S) \in Nat
  <1> DEFINE Q == {s \in SUBSET S : SumFunctionOnSet(f, s) \in Nat}
  <1>1. ASSUME NEW s \in SUBSET S, \A t \in SUBSET s : t # s => t \in Q
        PROVE  s \in Q
    <2>1. CASE s = {}
      BY <2>1, SumOfNone
    <2>2. CASE s # {}
      <3>1. IsFiniteSet(s) /\ Pick(s) \in S /\ s \ {Pick(s)} \in SUBSET s /\ s \ {Pick(s)} # s
        BY <2>2, PickFrom, FS_Subset
      <3>2. SumFunctionOnSet(f, s \ {Pick(s)}) \in Nat
        BY <1>1, <3>1
      <3> QED
        BY <2>2, <3>1, <3>2, SumUnfolds
    <2> QED
      BY <2>1, <2>2
  <1>2. S \in Q
    <2> HIDE DEF Q
    <2> QED
      BY <1>1, SubsetInduction
  <1> QED
    BY <1>2

LEMMA SumBoundsParts ==
  ASSUME NEW S, IsFiniteSet(S), NEW f, \A x \in S : f[x] \in Nat, NEW x \in S
  PROVE  f[x] <= SumFunctionOnSet(f, S)
  <1>1. IsFiniteSet(S \ {x})
    BY FS_Subset
  <1>2. SumFunctionOnSet(f, S \ {x}) \in Nat
    BY <1>1, SumIsNatural
  <1>3. SumFunctionOnSet(f, S) = f[x] + SumFunctionOnSet(f, S \ {x})
    BY SumWithout
  <1> QED
    BY <1>2, <1>3

LEMMA SumOfPart ==
  ASSUME NEW S, IsFiniteSet(S), NEW f, \A x \in S : f[x] \in Nat, NEW T \in SUBSET S
  PROVE  SumFunctionOnSet(f, T) <= SumFunctionOnSet(f, S)
  <1> DEFINE Q == {s \in SUBSET S : T \subseteq s => SumFunctionOnSet(f, T) <= SumFunctionOnSet(f, s)}
  <1>0. SumFunctionOnSet(f, T) \in Nat
    BY SumIsNatural, FS_Subset
  <1>1. ASSUME NEW s \in SUBSET S, \A t \in SUBSET s : t # s => t \in Q
        PROVE  s \in Q
    <2>1. CASE s = T \/ ~(T \subseteq s)
      BY <1>0, <2>1
    <2>2. CASE T \subseteq s /\ s # T
      <3>1. PICK x \in s : x \notin T
        BY <2>2
      <3> DEFINE u == s \ {x}
      <3>2. u \in SUBSET s /\ u # s /\ T \subseteq u /\ IsFiniteSet(s) /\ IsFiniteSet(u)
        BY <2>2, <3>1, FS_Subset
      <3>3. SumFunctionOnSet(f, T) <= SumFunctionOnSet(f, u)
        BY <1>1, <3>2
      <3>4. SumFunctionOnSet(f, s) = f[x] + SumFunctionOnSet(f, u) /\ f[x] \in Nat
        BY <3>2, SumWithout
      <3>5. SumFunctionOnSet(f, u) \in Nat
        BY <3>2, SumIsNatural
      <3> QED
        BY <1>0, <3>3, <3>4, <3>5
    <2> QED
      BY <2>1, <2>2
  <1>2. S \in Q
    <2> HIDE DEF Q
    <2> QED
      BY <1>1, SubsetInduction
  <1> QED
    BY <1>2

LEMMA SumOfUnion ==
  ASSUME NEW S, IsFiniteSet(S), NEW T, IsFiniteSet(T), S \cap T = {},
         NEW f, \A x \in S \cup T : f[x] \in Int
  PROVE  SumFunctionOnSet(f, S \cup T) = SumFunctionOnSet(f, S) + SumFunctionOnSet(f, T)
  <1> DEFINE Sum(s) == SumFunctionOnSet(f, s)
             Q == {t \in SUBSET T : Sum(S \cup t) = Sum(S) + Sum(t)}
  <1>1. \A t \in SUBSET T : IsFiniteSet(t) /\ IsFiniteSet(S \cup t) /\ Sum(t) \in Int /\ Sum(S) \in Int
    BY FS_Subset, FS_Union, SumIsInteger
  <1>2. Sum({}) = 0
    BY SumOfNone
  <1>3. ASSUME NEW t \in SUBSET T, NEW x \in t
        PROVE  Sum(t) = f[x] + Sum(t \ {x}) /\ Sum(S \cup t) = f[x] + Sum((S \cup t) \ {x})
    BY <1>1, SumWithout
  <1> HIDE DEF Sum
  <1>4. ASSUME NEW t \in SUBSET T, \A u \in SUBSET t : u # t => u \in Q
        PROVE  t \in Q
    <2>1. CASE t = {}
      BY <1>1, <1>2, <2>1
    <2>2. CASE t # {}
      <3>1. PICK x \in t : TRUE
        BY <2>2
      <3> DEFINE u == t \ {x}
      <3>2. u \in SUBSET t /\ u # t /\ u \in SUBSET T /\ x \in T
        BY <3>1
      <3>7. x \notin S
        BY <3>2
      <3>6. (S \cup t) \ {x} = S \cup u
        BY <3>7
      <3>3. Sum(S \cup u) = Sum(S) + Sum(u)
        BY <1>4, <3>2
      <3>4. Sum(u) \in Int /\ Sum(S) \in Int /\ f[x] \in Int
        BY <1>1, <3>2
      <3>8. Sum(t) = f[x] + Sum(t \ {x}) /\ Sum(S \cup t) = f[x] + Sum((S \cup t) \ {x})
        BY <1>3
      <3>5. Sum(t) = f[x] + Sum(u) /\ Sum(S \cup t) = f[x] + Sum(S \cup u)
        BY <3>6, <3>8, Zenon
      <3> QED
        BY <3>3, <3>4, <3>5
    <2> QED
      BY <2>1, <2>2
  <1>5. T \in Q
    <2> HIDE DEF Q
    <2> QED
      BY <1>4, SubsetInduction
  <1> QED
    BY <1>5 DEF Sum
=============================================================================
