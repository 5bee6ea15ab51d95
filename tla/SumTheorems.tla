---------------------------- MODULE SumTheorems ----------------------------
(***************************************************************************)
(* Facts about numbers that the proofs of several modules use: division,   *)
(* and what the sums of the community modules compute, for every function  *)
(* and finite set.  A fold is a recursive function on the subsets, so each *)
(* fact is an induction on finite sets, taken as the absence of a least    *)
(* counterexample (the library has its well-founded orders as sets).       *)
(***************************************************************************)
EXTENDS Integers, FiniteSets, FiniteSetsExt, Functions, FiniteSetTheorems,
        WellFoundedInduction, TLAPS

-----------------------------------------------------------------------------
(* Division.                                                               *)

LEMMA Division ==
  ASSUME NEW n \in Int, NEW d \in Nat \ {0}
  PROVE  /\ n \div d \in Int /\ n % d \in 0 .. d - 1
         /\ n = d * (n \div d) + (n % d)
BY SMT

LEMMA Multiple ==
  ASSUME NEW a \in Int, NEW b \in Int, NEW d \in Nat, a <= b
  PROVE  d * a \in Int /\ d * b \in Int /\ d * a <= d * b
BY SMT

LEMMA MultipleNat ==
  ASSUME NEW a \in Nat, NEW d \in Nat
  PROVE  d * a \in Nat
BY SMT

LEMMA DivisionNat ==
  ASSUME NEW n \in Nat, NEW d \in Nat \ {0}
  PROVE  n \div d \in Nat /\ n % d \in 0 .. d - 1 /\ d * (n \div d) <= n
<1> DEFINE q == n \div d
           r == n % d
<1>1. q \in Int /\ r \in 0 .. d - 1 /\ n = d * q + r
  BY Division
<1> HIDE DEF q, r
<1>2. q \in Nat
  <2>1. CASE q >= 0
    BY <1>1, <2>1
  <2>2. CASE q <= -1
    <3>1. d * q <= d * (-1) /\ d * q \in Int
      BY <1>1, <2>2, Multiple
    <3>2. d * (-1) = -d
      OBVIOUS
    <3> QED BY <1>1, <3>1, <3>2
  <2> QED BY <1>1, <2>1, <2>2
<1>3. d * q \in Int
  BY <1>1
<1>4. d * q <= n
  BY <1>1, <1>3
<1> QED BY <1>1, <1>2, <1>4 DEF q, r

LEMMA DivisionUnique ==
  ASSUME NEW n \in Int, NEW d \in Nat \ {0}, NEW q \in Int, NEW r \in 0 .. d - 1,
         n = d * q + r
  PROVE  n \div d = q /\ n % d = r
<1> DEFINE k == n \div d
           m == n % d
<1>1. k \in Int /\ m \in 0 .. d - 1 /\ n = d * k + m
  BY Division
<1> HIDE DEF k, m
<1>2. ~(k < q)
  <2> SUFFICES ASSUME k + 1 <= q PROVE FALSE
    BY <1>1
  <2>1. d * (k + 1) <= d * q /\ d * (k + 1) = d * k + d /\ d * k \in Int /\ d * q \in Int
    BY <1>1, Multiple
  <2> QED BY <1>1, <2>1
<1>3. ~(q < k)
  <2> SUFFICES ASSUME q + 1 <= k PROVE FALSE
    BY <1>1
  <2>1. d * (q + 1) <= d * k /\ d * (q + 1) = d * q + d /\ d * k \in Int /\ d * q \in Int
    BY <1>1, Multiple
  <2> QED BY <1>1, <2>1
<1>4. k = q /\ m = r
  <2>1. k = q
    BY <1>1, <1>2, <1>3
  <2>2. d * k \in Int
    BY <1>1
  <2> QED BY <1>1, <2>1, <2>2
<1> QED BY <1>4 DEF k, m

-----------------------------------------------------------------------------
(* Induction on finite sets: a counterexample would have a least one.      *)
LEMMA LeastSubset ==
  ASSUME NEW S, IsFiniteSet(S), NEW C, C \subseteq SUBSET S, C # {}
  PROVE  \E T \in C : \A U \in C : ~(U \subseteq T /\ U # T)
<1>1. IsWellFoundedOn(StrictSubsetOrdering(S), SUBSET S)
  BY FS_StrictSubsetOrderingWellFounded, FS_FiniteSubsetsOfFinite
<1>2. \E T \in C : \A U \in C : <<U, T>> \notin StrictSubsetOrdering(S)
  BY <1>1, WFMin
<1> QED BY <1>2 DEF StrictSubsetOrdering

(* The values of f on S, added up, and the recursion that defines the sum. *)
SumOf(f, S) == SumFunctionOnSet(f, S)

Pick(s) == CHOOSE x \in s : TRUE
SumStep(f, g, s) == IF s = {} THEN 0 ELSE f[Pick(s)] + g[s \ {Pick(s)}]
Sums(f, g, S) == g = [s \in SUBSET S |-> SumStep(f, g, s)]

LEMMA SumDef == \A f, S : SumOf(f, S) = (CHOOSE g : Sums(f, g, S))[S]
BY DEF SumOf, SumFunctionOnSet, FoldFunctionOnSet, MapThenFoldSet, Sums, SumStep, Pick

LEMMA PickIn == \A s : s # {} => Pick(s) \in s
BY DEF Pick

LEMMA SumsUnique ==
  ASSUME NEW f, NEW S, IsFiniteSet(S), NEW g, Sums(f, g, S), NEW h, Sums(f, h, S)
  PROVE  g = h
<1> DEFINE C == {s \in SUBSET S : g[s] # h[s]}
<1>1. CASE C = {}
  <2>1. \A s \in SUBSET S : g[s] = h[s]
    BY <1>1
  <2>2. g = [s \in SUBSET S |-> g[s]] /\ h = [s \in SUBSET S |-> h[s]]
    BY DEF Sums
  <2> QED BY <2>1, <2>2
<1>2. CASE C # {}
  <2>1. PICK T \in C : \A U \in C : ~(U \subseteq T /\ U # T)
    <3>1. C \subseteq SUBSET S
      OBVIOUS
    <3> HIDE DEF C
    <3> QED BY <1>2, <3>1, LeastSubset
  <2>2. T \in SUBSET S /\ g[T] = SumStep(f, g, T) /\ h[T] = SumStep(f, h, T)
    BY DEF Sums
  <2>3. T # {}
    BY <2>1, <2>2 DEF SumStep
  <2>4. T \ {Pick(T)} \in SUBSET S /\ T \ {Pick(T)} \subseteq T /\ T \ {Pick(T)} # T
    BY <2>2, <2>3, PickIn
  <2>5. g[T \ {Pick(T)}] = h[T \ {Pick(T)}]
    BY <2>1, <2>4
  <2> QED BY <2>1, <2>2, <2>3, <2>5 DEF SumStep
<1> QED BY <1>1, <1>2

LEMMA SumsRestrict ==
  ASSUME NEW f, NEW S, NEW g, Sums(f, g, S), NEW T \in SUBSET S
  PROVE  Sums(f, [s \in SUBSET T |-> g[s]], T)
<1> DEFINE h == [s \in SUBSET T |-> g[s]]
<1>1. ASSUME NEW s \in SUBSET T
      PROVE  h[s] = SumStep(f, h, s)
  <2>1. g[s] = SumStep(f, g, s) /\ s \ {Pick(s)} \in SUBSET T
    BY DEF Sums
  <2> QED BY <2>1 DEF SumStep
<1>2. h = [s \in SUBSET T |-> h[s]]
  OBVIOUS
<1> QED BY <1>1, <1>2 DEF Sums

(* The recursion has a solution on every finite set, so SumOf solves it. *)
LEMMA SumsExists ==
  ASSUME NEW f, NEW S, IsFiniteSet(S)
  PROVE  \E g : Sums(f, g, S)
<1> DEFINE C == {T \in SUBSET S : ~\E g : Sums(f, g, T)}
<1>1. SUFFICES ASSUME C # {} PROVE FALSE
  OBVIOUS
<1>2. PICK T \in C : \A U \in C : ~(U \subseteq T /\ U # T)
  <2>1. C \subseteq SUBSET S
    OBVIOUS
  <2> HIDE DEF C
  <2> QED BY <1>1, <2>1, LeastSubset
<1>3. T \in SUBSET S /\ ~\E g : Sums(f, g, T)
  OBVIOUS
<1>4. \A s \in SUBSET T : s # T => \E g : Sums(f, g, s)
  BY <1>2, <1>3
<1> HIDE DEF C
<1> DEFINE h == [s \in SUBSET T |-> IF s # T THEN SumOf(f, s)
                                    ELSE IF s = {} THEN 0
                                    ELSE f[Pick(s)] + SumOf(f, s \ {Pick(s)})]
<1>5. ASSUME NEW s \in SUBSET T, s # T
      PROVE  h[s] = SumStep(f, h, s)
  <2> DEFINE G == CHOOSE g : Sums(f, g, s)
             u == s \ {Pick(s)}
             H == CHOOSE g : Sums(f, g, u)
  <2>1. Sums(f, G, s) /\ SumOf(f, s) = G[s] /\ G[s] = SumStep(f, G, s)
    <3>1. Sums(f, G, s)
      BY <1>4, <1>5
    <3> QED BY <3>1, SumDef DEF Sums
  <2>2. CASE s = {}
    BY <1>5, <2>1, <2>2 DEF SumStep
  <2>3. CASE s # {}
    <3>1. u \in SUBSET T /\ u \in SUBSET s /\ u # T
      BY <1>5, PickIn
    <3>2. Sums(f, H, u) /\ SumOf(f, u) = H[u]
      BY <3>1, <1>4, SumDef
    <3>3. IsFiniteSet(u)
      BY <1>3, <3>1, FS_Subset
    <3>4. [v \in SUBSET u |-> G[v]] = H
      <4> HIDE DEF G, H, u
      <4>1. Sums(f, [v \in SUBSET u |-> G[v]], u)
        BY <2>1, <3>1, SumsRestrict
      <4> QED BY <4>1, <3>2, <3>3, SumsUnique
    <3>5. G[u] = SumOf(f, u) /\ h[u] = SumOf(f, u)
      <4> HIDE DEF G, H, u
      <4>1. u \in SUBSET u
        OBVIOUS
      <4>2. [v \in SUBSET u |-> G[v]][u] = G[u]
        BY <4>1
      <4> QED BY <3>1, <3>2, <3>4, <4>2
    <3>6. h[s] = G[s]
      BY <1>5, <2>1
    <3>7. G[s] = f[Pick(s)] + G[u]
      BY <2>1, <2>3 DEF SumStep
    <3>8. SumStep(f, h, s) = f[Pick(s)] + h[u]
      BY <2>3 DEF SumStep
    <3> QED BY <3>5, <3>6, <3>7, <3>8
  <2> QED BY <2>2, <2>3
<1>6. h[T] = SumStep(f, h, T)
  <2>1. CASE T = {}
    BY <2>1 DEF SumStep
  <2>2. CASE T # {}
    <3>1. T \ {Pick(T)} \in SUBSET T /\ T \ {Pick(T)} # T
      BY <2>2, PickIn
    <3>2. h[T \ {Pick(T)}] = SumOf(f, T \ {Pick(T)})
      BY <3>1
    <3>3. h[T] = f[Pick(T)] + SumOf(f, T \ {Pick(T)})
      BY <2>2
    <3> QED BY <2>2, <3>2, <3>3 DEF SumStep
  <2> QED BY <2>1, <2>2
<1>7. \A s \in SUBSET T : h[s] = SumStep(f, h, s)
  BY <1>5, <1>6
<1>8. h = [s \in SUBSET T |-> h[s]]
  OBVIOUS
<1> HIDE DEF h
<1>9. Sums(f, h, T)
  BY <1>7, <1>8 DEF Sums
<1> QED BY <1>3, <1>9

(* The sum over a set is any of its values and the sum over the rest.     *)
LEMMA SumPick ==
  ASSUME NEW f, NEW S, IsFiniteSet(S), S # {}
  PROVE  SumOf(f, S) = f[Pick(S)] + SumOf(f, S \ {Pick(S)})
<1> DEFINE G == CHOOSE g : Sums(f, g, S)
           u == S \ {Pick(S)}
           H == CHOOSE g : Sums(f, g, u)
<1>1. IsFiniteSet(u) /\ u \in SUBSET S
  BY FS_Subset
<1>2. Sums(f, G, S) /\ Sums(f, H, u)
  BY <1>1, SumsExists
<1>3. SumOf(f, S) = G[S] /\ SumOf(f, u) = H[u]
  BY SumDef
<1>4. G[S] = f[Pick(S)] + G[u]
  BY <1>2 DEF Sums, SumStep
<1>5. G[u] = H[u]
  <2> HIDE DEF G, H, u
  <2>1. Sums(f, [v \in SUBSET u |-> G[v]], u)
    BY <1>1, <1>2, SumsRestrict
  <2>2. [v \in SUBSET u |-> G[v]] = H
    BY <1>1, <1>2, <2>1, SumsUnique
  <2>3. u \in SUBSET u
    OBVIOUS
  <2>4. [v \in SUBSET u |-> G[v]][u] = G[u]
    BY <2>3
  <2> QED BY <2>2, <2>4
<1> QED BY <1>3, <1>4, <1>5

LEMMA SumEmpty == \A f : SumOf(f, {}) = 0
BY DEF SumOf, SumFunctionOnSet, FoldFunctionOnSet, MapThenFoldSet

LEMMA SumType ==
  ASSUME NEW D, NEW f \in [D -> Nat], NEW S \in SUBSET D, IsFiniteSet(S)
  PROVE  SumOf(f, S) \in Nat
<1> DEFINE C == {T \in SUBSET S : SumOf(f, T) \notin Nat}
<1>1. SUFFICES ASSUME C # {} PROVE FALSE
  OBVIOUS
<1>2. PICK T \in C : \A U \in C : ~(U \subseteq T /\ U # T)
  <2>1. C \subseteq SUBSET S
    OBVIOUS
  <2> HIDE DEF C
  <2> QED BY <1>1, <2>1, LeastSubset
<1>3. T # {} /\ IsFiniteSet(T)
  <2>1. T \in SUBSET S /\ SumOf(f, T) \notin Nat
    OBVIOUS
  <2>2. T # {}
    BY <2>1, SumEmpty
  <2> HIDE DEF C
  <2> QED BY <2>1, <2>2, FS_Subset
<1>4. Pick(T) \in T /\ SumOf(f, T) = f[Pick(T)] + SumOf(f, T \ {Pick(T)})
  BY <1>3, PickIn, SumPick
<1>5. SumOf(f, T \ {Pick(T)}) \in Nat
  BY <1>2, <1>4
<1>6. f[Pick(T)] \in Nat
  BY <1>4
<1> QED BY <1>4, <1>5, <1>6

LEMMA SumRemove ==
  ASSUME NEW D, NEW f \in [D -> Nat], NEW S \in SUBSET D, IsFiniteSet(S), NEW x \in S
  PROVE  SumOf(f, S) = f[x] + SumOf(f, S \ {x})
<1> DEFINE C == {T \in SUBSET S : \E y \in T : SumOf(f, T) # f[y] + SumOf(f, T \ {y})}
<1>1. SUFFICES ASSUME C # {} PROVE FALSE
  OBVIOUS
<1>2. PICK T \in C : \A U \in C : ~(U \subseteq T /\ U # T)
  <2>1. C \subseteq SUBSET S
    OBVIOUS
  <2> HIDE DEF C
  <2> QED BY <1>1, <2>1, LeastSubset
<1>3. PICK y \in T : SumOf(f, T) # f[y] + SumOf(f, T \ {y})
  OBVIOUS
<1> DEFINE p == Pick(T)
<1>4. T \in SUBSET S /\ T # {} /\ IsFiniteSet(T)
  BY <1>3, FS_Subset
<1>5. p \in T /\ SumOf(f, T) = f[p] + SumOf(f, T \ {p})
  BY <1>4, PickIn, SumPick
<1>6. p # y
  BY <1>3, <1>5
<1>7. SumOf(f, T \ {p}) = f[y] + SumOf(f, (T \ {p}) \ {y})
  <2>1. T \ {p} \in SUBSET S /\ T \ {p} \subseteq T /\ T \ {p} # T /\ y \in T \ {p}
    BY <1>4, <1>5, <1>6
  <2>2. T \ {p} \notin C
    BY <1>2, <2>1
  <2> QED BY <2>1, <2>2
<1>8. SumOf(f, T \ {y}) = f[p] + SumOf(f, (T \ {y}) \ {p})
  <2>1. T \ {y} \in SUBSET S /\ T \ {y} \subseteq T /\ T \ {y} # T /\ p \in T \ {y}
    BY <1>3, <1>4, <1>5, <1>6
  <2>2. T \ {y} \notin C
    BY <1>2, <2>1
  <2> QED BY <2>1, <2>2
<1>9. (T \ {p}) \ {y} = (T \ {y}) \ {p}
  OBVIOUS
<1> DEFINE r == SumOf(f, (T \ {p}) \ {y})
<1>10. f[p] \in Nat /\ f[y] \in Nat
  BY <1>3, <1>4, <1>5
<1>11. r \in Nat
  <2>1. (T \ {p}) \ {y} \in SUBSET D /\ IsFiniteSet((T \ {p}) \ {y})
    BY <1>4, FS_Subset
  <2> QED BY <2>1, SumType
<1>12. SumOf(f, T) = f[p] + (f[y] + r) /\ SumOf(f, T \ {y}) = f[p] + r
  BY <1>5, <1>7, <1>8, <1>9
<1> HIDE DEF r, p
<1> QED BY <1>3, <1>10, <1>11, <1>12

LEMMA SumAdd ==
  ASSUME NEW D, NEW f \in [D -> Nat], NEW S \in SUBSET D, IsFiniteSet(S), NEW x \in D, x \notin S
  PROVE  SumOf(f, S \cup {x}) = SumOf(f, S) + f[x]
<1>1. S \cup {x} \in SUBSET D /\ IsFiniteSet(S \cup {x}) /\ (S \cup {x}) \ {x} = S
  BY FS_AddElement
<1>2. SumOf(f, S \cup {x}) = f[x] + SumOf(f, S)
  BY <1>1, SumRemove
<1>3. SumOf(f, S) \in Nat /\ f[x] \in Nat
  BY SumType
<1> QED BY <1>2, <1>3

(* A smaller set has no larger sum.                                       *)
LEMMA SumMonotone ==
  ASSUME NEW D, NEW f \in [D -> Nat], NEW S \in SUBSET D, IsFiniteSet(S), NEW T \in SUBSET S
  PROVE  SumOf(f, T) <= SumOf(f, S)
<1> DEFINE C == {U \in SUBSET S : T \subseteq U /\ ~(SumOf(f, T) <= SumOf(f, U))}
<1>1. SUFFICES ASSUME C # {} PROVE FALSE
  BY DEF C
<1>2. PICK U \in C : \A V \in C : ~(V \subseteq U /\ V # U)
  <2>1. C \subseteq SUBSET S
    OBVIOUS
  <2> HIDE DEF C
  <2> QED BY <1>1, <2>1, LeastSubset
<1>3. U \in SUBSET D /\ IsFiniteSet(U) /\ T \subseteq U /\ T \in SUBSET D
      /\ IsFiniteSet(T)
  BY FS_Subset
<1>4. SumOf(f, U) \in Nat /\ SumOf(f, T) \in Nat
  BY <1>3, SumType
<1>5. U # T
  BY <1>4
<1>6. PICK x \in U : x \notin T
  BY <1>3, <1>5
<1>7. SumOf(f, T) <= SumOf(f, U \ {x})
  BY <1>2, <1>3, <1>6
<1>8. SumOf(f, U) = f[x] + SumOf(f, U \ {x})
  BY <1>3, SumRemove
<1>9. SumOf(f, U \ {x}) \in Nat /\ f[x] \in Nat
  BY <1>3, FS_Subset, SumType
<1>10. SumOf(f, T) <= SumOf(f, U)
  BY <1>4, <1>7, <1>8, <1>9
<1> QED BY <1>10

-----------------------------------------------------------------------------
(* Finitely many numbers have a largest and a smallest one.                *)

(* A finite set has an element that is the last in a total order R.        *)
LEMMA Highest ==
  ASSUME NEW S, IsFiniteSet(S), S # {}, NEW R,
         \A x, y \in S : <<x, y>> \in R \/ <<y, x>> \in R,
         \A x, y, z \in S : <<x, y>> \in R /\ <<y, z>> \in R => <<x, z>> \in R
  PROVE  \E x \in S : \A y \in S : <<y, x>> \in R
<1> DEFINE C == {T \in SUBSET S : T # {} /\ ~\E x \in T : \A y \in T : <<y, x>> \in R}
<1>1. SUFFICES ASSUME C # {} PROVE FALSE
  OBVIOUS
<1>2. PICK T \in C : \A U \in C : ~(U \subseteq T /\ U # T)
  <2>1. C \subseteq SUBSET S
    OBVIOUS
  <2> HIDE DEF C
  <2> QED BY <1>1, <2>1, LeastSubset
<1>3. T \in SUBSET S /\ T # {} /\ ~\E x \in T : \A y \in T : <<y, x>> \in R
  OBVIOUS
<1>4. PICK t \in T : TRUE
  BY <1>3
<1>5. T \ {t} # {}
  BY <1>3, <1>4
<1>6. T \ {t} \notin C
  <2> HIDE DEF C
  <2> QED BY <1>2, <1>4
<1>7. PICK x \in T \ {t} : \A y \in T \ {t} : <<y, x>> \in R
  BY <1>3, <1>5, <1>6
<1>8. CASE <<t, x>> \in R
  BY <1>3, <1>7, <1>8
<1>9. CASE <<x, t>> \in R
  BY <1>3, <1>4, <1>7, <1>9
<1> QED BY <1>3, <1>4, <1>7, <1>8, <1>9

LEMMA MaxOfNats ==
  ASSUME NEW S, S \in SUBSET Nat, IsFiniteSet(S), S # {}
  PROVE  Max(S) \in S /\ \A y \in S : y <= Max(S)
<1> DEFINE R == {p \in S \X S : p[1] <= p[2]}
<1>1. \A x, y \in S : <<x, y>> \in R <=> x <= y
  OBVIOUS
<1> HIDE DEF R
<1>2. \A x, y \in S : <<x, y>> \in R \/ <<y, x>> \in R
  <2>1. \A x, y \in S : x <= y \/ y <= x
    OBVIOUS
  <2> QED BY <1>1, <2>1
<1>3. \A x, y, z \in S : <<x, y>> \in R /\ <<y, z>> \in R => <<x, z>> \in R
  BY <1>1
<1>4. \E x \in S : \A y \in S : <<y, x>> \in R
  BY <1>2, <1>3, Highest
<1>5. \E x \in S : \A y \in S : x >= y
  BY <1>1, <1>4
<1>6. Max(S) \in S /\ \A y \in S : Max(S) >= y
  BY <1>5 DEF Max
<1> QED BY <1>6

LEMMA MinOfNats ==
  ASSUME NEW S, S \in SUBSET Nat, IsFiniteSet(S), S # {}
  PROVE  Min(S) \in S /\ \A y \in S : y >= Min(S)
<1> DEFINE R == {p \in S \X S : p[1] >= p[2]}
<1>1. \A x, y \in S : <<x, y>> \in R <=> x >= y
  OBVIOUS
<1> HIDE DEF R
<1>2. \A x, y \in S : <<x, y>> \in R \/ <<y, x>> \in R
  <2>1. \A x, y \in S : x >= y \/ y >= x
    OBVIOUS
  <2> QED BY <1>1, <2>1
<1>3. \A x, y, z \in S : <<x, y>> \in R /\ <<y, z>> \in R => <<x, z>> \in R
  BY <1>1
<1>4. \E x \in S : \A y \in S : <<y, x>> \in R
  BY <1>2, <1>3, Highest
<1>5. \E x \in S : \A y \in S : x <= y
  BY <1>1, <1>4
<1>6. Min(S) \in S /\ \A y \in S : Min(S) <= y
  BY <1>5 DEF Min
<1> QED BY <1>6

LEMMA MinOfTwo ==
  ASSUME NEW a \in Int, NEW b \in Int
  PROVE  Min({a, b}) = IF a <= b THEN a ELSE b
BY DEF Min
=============================================================================
