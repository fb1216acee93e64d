------------------------------ MODULE Counting ------------------------------
(***************************************************************************)
(* Facts about sets of numbers that several proofs rest on.                *)
(***************************************************************************)
EXTENDS FiniteSetTheorems, TLAPS

(* A set of numbers that is not empty has a least one. *)
LEMMA LeastNat ==
    ASSUME NEW T, T \subseteq Nat, T # {}
    PROVE  \E x \in T : \A y \in T : x <= y
<1> DEFINE R == StrictSubsetOrdering(Nat)
           Below(n) == 0 .. (n-1)
           U == {Below(n) : n \in T}
<1>0. IsWellFoundedOn(R, FiniteSubsetsOf(Nat))
  BY FS_StrictSubsetOrderingWellFounded
<1>1. U \subseteq FiniteSubsetsOf(Nat) /\ U # {}
  <2>1. \A n \in T : n - 1 \in Int /\ IsFiniteSet(Below(n)) /\ Below(n) \subseteq Nat
    BY FS_Interval
  <2> QED
    BY <2>1 DEF FiniteSubsetsOf
<1>2. \A x, y \in T : y < x => <<Below(y), Below(x)>> \in R
  <2> SUFFICES ASSUME NEW x \in T, NEW y \in T, y < x PROVE <<Below(y), Below(x)>> \in R
    OBVIOUS
  <2>1. Below(y) \subseteq Below(x) /\ y \in Below(x) /\ y \notin Below(y)
    OBVIOUS
  <2>2. Below(y) \in SUBSET Nat /\ Below(x) \in SUBSET Nat
    OBVIOUS
  <2> HIDE DEF Below
  <2> QED
    BY <2>1, <2>2 DEF StrictSubsetOrdering
<1> HIDE DEF R, Below
<1>3. PICK u \in U : \A y \in U : ~ (<<y, u>> \in R)
  BY <1>0, <1>1, WFMin
<1>4. PICK x \in T : u = Below(x)
  BY <1>3
<1>5. \A y \in T : ~(y < x)
  BY <1>2, <1>3, <1>4
<1> QED
  BY <1>5

(* The members of a finite set in a line, upto[i] being those up to i: at    *)
(* every place from the first to the last there is one, and one only.       *)
LEMMA Places ==
    ASSUME NEW K, IsFiniteSet(K), NEW upto \in [K -> SUBSET K],
           \A i \in K : i \in upto[i],
           \A i, j \in K : upto[i] \subseteq upto[j] \/ upto[j] \subseteq upto[i],
           \A i, j \in K : upto[i] = upto[j] => i = j
    PROVE  /\ Cardinality(K) \in Nat
           /\ \A i \in K : Cardinality(upto[i]) \in 1..Cardinality(K)
           /\ \A i, j \in K : Cardinality(upto[i]) = Cardinality(upto[j]) => i = j
           /\ \A k \in 1..Cardinality(K) : \E i \in K : Cardinality(upto[i]) = k
<1> DEFINE n == Cardinality(K)
           rank == [i \in K |-> Cardinality(upto[i])]
<1>1. n \in Nat
  BY FS_CardinalityType
<1>2. ASSUME NEW i \in K PROVE IsFiniteSet(upto[i]) /\ Cardinality(upto[i]) \in 1..n
  <2>1. IsFiniteSet(upto[i]) /\ Cardinality(upto[i]) <= n
    BY FS_Subset
  <2>2. Cardinality(upto[i]) \in Nat /\ Cardinality(upto[i]) # 0
    BY <2>1, FS_CardinalityType, FS_EmptySet
  <2> QED
    BY <1>1, <2>1, <2>2
<1>3. ASSUME NEW i \in K, NEW j \in K, Cardinality(upto[i]) = Cardinality(upto[j]) PROVE i = j
  <2>1. upto[i] \subseteq upto[j] \/ upto[j] \subseteq upto[i]
    OBVIOUS
  <2>2. upto[i] = upto[j]
    BY <1>2, <1>3, <2>1, FS_Subset
  <2> QED
    BY <2>2
<1>4. IsFiniteSet(1..n) /\ Cardinality(1..n) = n
  BY <1>1, FS_Interval
<1>5. rank \in Injection(K, 1..n)
  BY <1>2, <1>3 DEF Injection, IsInjective
<1>6. rank \in Surjection(K, 1..n)
  BY <1>4, <1>5, FS_Injection
<1>7. \A k \in 1..n : \E i \in K : rank[i] = k
  BY <1>6 DEF Surjection
<1> QED
  BY <1>1, <1>2, <1>3, <1>7

(* A finite set in a strict order, before[p] being what precedes p: the      *)
(* number of those tells the place of p.                                    *)
LEMMA Line ==
    ASSUME NEW K, IsFiniteSet(K), NEW before \in [K -> SUBSET K],
           \A p \in K : p \notin before[p],
           \A p, q, r \in K : p \in before[q] /\ q \in before[r] => p \in before[r],
           \A p, q \in K : p = q \/ p \in before[q] \/ q \in before[p]
    PROVE  /\ Cardinality(K) \in Nat
           /\ \A p \in K : Cardinality(before[p]) + 1 \in 1..Cardinality(K)
           /\ \A p \in K : Cardinality(before[p]) \in Nat
           /\ \A p, q \in K : p \in before[q] => Cardinality(before[p]) < Cardinality(before[q])
           /\ \A k \in 1..Cardinality(K) : \E p \in K : Cardinality(before[p]) = k - 1
<1> DEFINE upto == [p \in K |-> before[p] \cup {p}]
<1>1. ASSUME NEW p \in K
      PROVE  /\ Cardinality(before[p]) \in Nat /\ IsFiniteSet(before[p])
             /\ Cardinality(upto[p]) = Cardinality(before[p]) + 1
  <2>1. IsFiniteSet(before[p])
    BY FS_Subset
  <2>2. Cardinality(before[p] \cup {p}) = Cardinality(before[p]) + 1
    BY <2>1, FS_AddElement
  <2> QED
    BY <2>1, <2>2, FS_CardinalityType
<1>2. /\ upto \in [K -> SUBSET K]
      /\ \A p \in K : p \in upto[p]
  OBVIOUS
<1>3. ASSUME NEW p \in K, NEW q \in K
      PROVE  /\ upto[p] \subseteq upto[q] \/ upto[q] \subseteq upto[p]
             /\ upto[p] = upto[q] => p = q
  <2>1. ASSUME NEW x \in K, NEW y \in K, x \in before[y] PROVE upto[x] \subseteq before[y]
    BY <2>1
  <2>2. CASE p \in before[q]
    BY <2>1, <2>2
  <2>3. CASE q \in before[p]
    BY <2>1, <2>3
  <2>4. CASE p = q
    BY <2>4
  <2> QED
    BY <2>2, <2>3, <2>4
<1>4. /\ Cardinality(K) \in Nat
      /\ \A p \in K : Cardinality(upto[p]) \in 1..Cardinality(K)
      /\ \A k \in 1..Cardinality(K) : \E p \in K : Cardinality(upto[p]) = k
  <2> HIDE DEF upto
  <2> QED
    BY <1>2, <1>3, Places
<1>5. ASSUME NEW p \in K, NEW q \in K, p \in before[q]
      PROVE  Cardinality(before[p]) < Cardinality(before[q])
  <2>1. before[p] \cup {p} \in SUBSET before[q]
    BY <1>5
  <2>2. Cardinality(before[p] \cup {p}) <= Cardinality(before[q])
    BY <1>1, <2>1, FS_Subset
  <2>3. upto[p] = before[p] \cup {p}
    OBVIOUS
  <2>4. Cardinality(before[p] \cup {p}) = Cardinality(before[p]) + 1
    BY <1>1, <2>3
  <2>5. Cardinality(before[p]) \in Nat /\ Cardinality(before[q]) \in Nat
    BY <1>1
  <2> QED
    BY <2>2, <2>4, <2>5
<1> HIDE DEF upto
<1>6. \A p \in K : Cardinality(before[p]) + 1 \in 1..Cardinality(K)
  BY <1>1, <1>4
<1>7. ASSUME NEW k \in 1..Cardinality(K) PROVE \E p \in K : Cardinality(before[p]) = k - 1
  <2>1. PICK p \in K : Cardinality(upto[p]) = k
    BY <1>4
  <2>2. Cardinality(before[p]) = k - 1
    BY <1>1, <2>1
  <2> QED
    BY <2>2
<1> QED
  BY <1>1, <1>4, <1>5, <1>6, <1>7

-----------------------------------------------------------------------------
(* A step taken again and again leads somewhere: values that begin with     *)
(* base and follow one another by a step, for any set of values.            *)
Iterates(g, T, base, last, step) ==
    /\ g \in [0..last -> T] /\ g[0] = base
    /\ \A n \in 1..last : g[n] = step[n][g[n - 1]]

LEMMA Iteration ==
    ASSUME NEW T, NEW base \in T, NEW last \in Nat, NEW step \in [1..last -> [T -> T]]
    PROVE  \E g : Iterates(g, T, base, last, step)
<1> DEFINE Leads(n, g) == g \in [0..n -> T] /\ g[0] = base /\ \A k \in 1..n : g[k] = step[k][g[k - 1]]
           Stuck == {n \in 0..last : ~\E g : Leads(n, g)}
<1>1. ASSUME Stuck # {} PROVE FALSE
  <2>1. Stuck \subseteq Nat
    OBVIOUS
  <2>2. PICK n \in Stuck : \A m \in Stuck : n <= m
    <3> HIDE DEF Stuck
    <3> QED BY <1>1, <2>1, LeastNat
  <2>3. n # 0
    <3>1. Leads(0, [k \in 0..0 |-> base])
      OBVIOUS
    <3>2. \E g : Leads(0, g)
      <4> HIDE DEF Leads
      <4> QED BY <3>1
    <3> HIDE DEF Leads
    <3> QED BY <3>2
  <2>4. n \in 1..last /\ n - 1 \in 0..last /\ n - 1 \notin Stuck
    <3>1. n \in 0..last
      OBVIOUS
    <3>2. n \in 1..last /\ n - 1 \in 0..last /\ ~(n <= n - 1)
      BY <2>3, <3>1
    <3> HIDE DEF Stuck
    <3> QED BY <2>2, <3>2
  <2>5. PICK g : Leads(n - 1, g)
    <3> HIDE DEF Leads
    <3> QED BY <2>4
  <2> DEFINE h == [k \in 0..n |-> IF k = n THEN step[n][g[n - 1]] ELSE g[k]]
  <2>6. step[n][g[n - 1]] \in T
    <3>1. n - 1 \in 0..(n - 1)
      BY <2>4
    <3>2. g[n - 1] \in T
      BY <2>5, <3>1
    <3> QED BY <2>4, <3>2
  <2>7. h \in [0..n -> T]
    <3>1. ASSUME NEW k \in 0..n, k # n PROVE g[k] \in T
      <4>1. k \in 0..(n - 1)
        BY <2>4, <3>1
      <4> QED BY <2>5, <4>1
    <3> QED BY <2>6, <3>1
  <2>8. h[0] = base
    BY <2>3, <2>4, <2>5
  <2>9. ASSUME NEW k \in 1..n PROVE h[k] = step[k][h[k - 1]]
    <3>0. k - 1 \in 0..n /\ k \in 0..n /\ k - 1 # n
      BY <2>4
    <3>1. h[k - 1] = g[k - 1]
      BY <3>0
    <3>2. CASE k = n
      BY <3>0, <3>1, <3>2
    <3>3. CASE k # n
      <4>1. k \in 1..(n - 1)
        BY <2>4, <3>3
      <4> QED BY <2>5, <3>0, <3>1, <3>3, <4>1
    <3> QED BY <3>2, <3>3
  <2>10. Leads(n, h)
    <3> HIDE DEF h
    <3> QED BY <2>7, <2>8, <2>9
  <2> HIDE DEF Leads, h
  <2> QED BY <2>2, <2>10
<1>2. PICK g : Leads(last, g)
  <2>1. last \in 0..last
    OBVIOUS
  <2>2. last \notin Stuck
    <3> HIDE DEF Stuck
    <3> QED BY <1>1
  <2> HIDE DEF Leads
  <2> QED BY <2>1, <2>2
<1> QED BY <1>2 DEF Iterates
=============================================================================
