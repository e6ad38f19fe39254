----------------------------- MODULE Induction ------------------------------
(***************************************************************************)
(* Induction over the naturals stated about a set instead of a predicate,  *)
(* so that a proof can cite it, and what follows: recursively defined      *)
(* functions exist, bounded sets of numbers have a first and a last        *)
(* member, and an increasing sequence is determined by its members.        *)
(* Nothing here is about grind; the proofs about its recursive definitions *)
(* use these facts.                                                        *)
(***************************************************************************)
EXTENDS Naturals, Sequences, FiniteSetTheorems, SequenceTheorems, TLAPS

(* A set that holds zero and with every number its successor holds all.    *)
LEMMA NatSetInduction ==
  ASSUME NEW A \in SUBSET Nat, 0 \in A, \A n \in A : n + 1 \in A
  PROVE  A = Nat
<1> SUFFICES ASSUME NEW x \in Nat, x \notin A PROVE FALSE
  OBVIOUS
<1> DEFINE T == {0..n : n \in Nat \ A}
<1>1. \A n \in Nat : 0..n \in FiniteSubsetsOf(Nat)
  BY FS_Interval DEF FiniteSubsetsOf
<1>2. T \subseteq FiniteSubsetsOf(Nat) /\ T # {}
  BY <1>1
<1>3. IsWellFoundedOn(StrictSubsetOrdering(Nat), FiniteSubsetsOf(Nat))
  BY FS_StrictSubsetOrderingWellFounded
<1>4. PICK U \in T : \A V \in T : ~ (<<V, U>> \in StrictSubsetOrdering(Nat))
  <2> HIDE DEF T
  <2> QED
    BY <1>2, <1>3, WFMin
<1>5. PICK n \in Nat \ A : U = 0..n
  BY <1>4
<1>6. n # 0 /\ n - 1 \in Nat
  BY <1>5
<1>7. n - 1 \notin A
  <2>1. (n - 1) + 1 = n
    BY <1>5
  <2> QED
    BY <1>5, <2>1
<1>8. 0..(n-1) \in T
  BY <1>6, <1>7
<1>9. /\ 0..(n-1) \in SUBSET Nat /\ 0..n \in SUBSET Nat
      /\ 0..(n-1) \subseteq 0..n /\ 0..(n-1) # 0..n
  <2>1. n \in 0..n /\ n \notin 0..(n-1)
    BY <1>5
  <2> QED
    BY <1>5, <1>6, <2>1
<1>10. <<0..(n-1), 0..n>> \in StrictSubsetOrdering(Nat)
  BY <1>9 DEF StrictSubsetOrdering
<1> QED
  BY <1>4, <1>5, <1>8, <1>10

(* The same over the numbers up to N.                                      *)
LEMMA UpToInduction ==
  ASSUME NEW N \in Nat, NEW A, 0 \in A, \A n \in 0..(N - 1) : n \in A => n + 1 \in A
  PROVE  0..N \subseteq A
<1> DEFINE B == {n \in Nat : n <= N => n \in A}
<1>1. B \in SUBSET Nat /\ 0 \in B
  OBVIOUS
<1>2. \A n \in B : n + 1 \in B
  OBVIOUS
<1>3. B = Nat
  <2> HIDE DEF B
  <2> QED
    BY <1>1, <1>2, NatSetInduction
<1> QED
  BY <1>3

(* A function defined by recursion on 0..N exists: it starts with x0 and   *)
(* goes on by step.                                                        *)
Steps(X) == [Nat -> [X -> X]]

Unfolds(g, x0, step, N) == /\ g[0] = x0
                           /\ \A i \in 1..N : g[i] = step[i][g[i - 1]]

LEMMA FiniteRecursion ==
  ASSUME NEW X, NEW x0 \in X, NEW step \in Steps(X), NEW N \in Nat
  PROVE  \E g \in [0..N -> X] : Unfolds(g, x0, step, N)
<1> USE DEF Steps
<1> DEFINE Rec(g, n) == g = [i \in 0..n |-> IF i = 0 THEN x0 ELSE step[i][g[i - 1]]]
           A == {n \in Nat : \E g \in [0..n -> X] : Rec(g, n)}
<1>1. 0 \in A
  <2> DEFINE g0 == [i \in 0..0 |-> x0]
  <2>1. g0 \in [0..0 -> X] /\ Rec(g0, 0)
    OBVIOUS
  <2> QED
    BY <2>1
<1>2. ASSUME NEW n \in A PROVE n + 1 \in A
  <2>1. PICK g \in [0..n -> X] : Rec(g, n)
    OBVIOUS
  <2>2. n \in Nat /\ \A i \in 0..n : g[i] = IF i = 0 THEN x0 ELSE step[i][g[i - 1]]
    BY <2>1
  <2> DEFINE h == [i \in 0..(n + 1) |-> IF i = n + 1 THEN step[n + 1][g[n]] ELSE g[i]]
  <2>3. \A i \in 0..n : h[i] = g[i]
    BY <2>2
  <2>4. h[n + 1] = step[n + 1][g[n]]
    BY <2>2
  <2>5. step[n + 1][g[n]] \in X
    <3>1. g[n] \in X /\ step[n + 1] \in [X -> X]
      BY <2>2
    <3> QED
      BY <3>1
  <2>6. h \in [0..(n + 1) -> X]
    BY <2>2, <2>5
  <2>7. \A i \in 0..(n + 1) : h[i] = IF i = 0 THEN x0 ELSE step[i][h[i - 1]]
    <3> TAKE i \in 0..(n + 1)
    <3>1. CASE i = n + 1
      <4>1. h[i] = step[n + 1][g[n]] /\ h[n] = g[n] /\ i # 0 /\ i - 1 = n
        BY <2>2, <2>3, <2>4, <3>1
      <4> HIDE DEF h
      <4> QED
        BY <3>1, <4>1
    <3>2. CASE i = 0
      BY <2>2, <2>3, <3>2
    <3>3. CASE i \in 1..n
      <4>1. h[i] = g[i] /\ h[i - 1] = g[i - 1]
        BY <2>2, <2>3, <3>3
      <4> HIDE DEF h
      <4> QED
        BY <2>2, <3>3, <4>1
    <3> QED
      BY <2>2, <3>1, <3>2, <3>3
  <2>8. Rec(h, n + 1)
    <3> HIDE DEF h
    <3> QED
      BY <2>6, <2>7
  <2>9. n + 1 \in Nat /\ \E f \in [0..(n + 1) -> X] : Rec(f, n + 1)
    <3> HIDE DEF h, Rec
    <3> QED
      BY <2>2, <2>6, <2>8
  <2> QED
    <3> HIDE DEF Rec, h
    <3> QED
      BY <2>9
<1>3. A = Nat
  <2>1. A \in SUBSET Nat
    OBVIOUS
  <2> HIDE DEF A
  <2> QED
    BY <1>1, <1>2, <2>1, NatSetInduction
<1>4. PICK g \in [0..N -> X] : Rec(g, N)
  BY <1>3
<1>5. Unfolds(g, x0, step, N)
  BY <1>4 DEF Unfolds
<1> QED
  BY <1>5

(* A set of numbers has a first member, and a bounded one has a last.      *)
LEMMA LeastMember ==
  ASSUME NEW S \in SUBSET Nat, S # {}
  PROVE  \E m \in S : \A x \in S : m <= x
<1> SUFFICES ASSUME \A m \in S : \E x \in S : x < m PROVE FALSE
  OBVIOUS
<1> DEFINE A == {n \in Nat : \A x \in S : n <= x}
<1>1. 0 \in A /\ \A n \in A : n + 1 \in A
  OBVIOUS
<1>2. A = Nat
  <2>1. A \in SUBSET Nat
    OBVIOUS
  <2> HIDE DEF A
  <2> QED
    BY <1>1, <2>1, NatSetInduction
<1>3. PICK x \in S : TRUE
  OBVIOUS
<1>4. x + 1 \in A
  BY <1>2
<1> QED
  BY <1>4

LEMMA GreatestMember ==
  ASSUME NEW N \in Nat, NEW S \in SUBSET (0..N), S # {}
  PROVE  \E m \in S : \A x \in S : x <= m
<1> DEFINE D == {N - x : x \in S}
<1>1. D \in SUBSET Nat /\ D # {}
  OBVIOUS
<1>2. PICK d \in D : \A y \in D : d <= y
  <2> HIDE DEF D
  <2> QED
    BY <1>1, LeastMember
<1>3. PICK m \in S : d = N - m
  BY <1>2
<1>4. ASSUME NEW x \in S PROVE x <= m
  <2>1. d <= N - x
    BY <1>2
  <2> QED
    BY <1>3, <2>1
<1> QED
  BY <1>4

LEMMA FunctionIsSeq ==
  ASSUME NEW S, NEW n \in Nat, NEW c \in [1..n -> S]
  PROVE  c \in Seq(S) /\ Len(c) = n
  OBVIOUS

(* Increasing sequences of numbers.                                        *)
Increasing(s) == \A a, b \in 1..Len(s) : a < b => s[a] < s[b]

Members(s) == {s[a] : a \in 1..Len(s)}

LEMMA IncreasingUnique ==
  ASSUME NEW s \in Seq(Nat), NEW t \in Seq(Nat), Increasing(s), Increasing(t),
         Members(s) = Members(t)
  PROVE  s = t
<1>1. ASSUME NEW u \in Seq(Nat), NEW v \in Seq(Nat), Increasing(u), Increasing(v),
             Members(u) = Members(v), NEW i \in 1..Len(u),
             \A j \in 1..(i - 1) : j \in 1..Len(v) /\ u[j] = v[j]
      PROVE  i \in 1..Len(v) /\ v[i] <= u[i]
  <2>1. PICK j \in 1..Len(v) : u[i] = v[j]
    BY <1>1 DEF Members
  <2>2. ~ (j < i)
    <3> SUFFICES ASSUME j < i PROVE FALSE
      OBVIOUS
    <3>1. u[j] = v[j] /\ j \in 1..Len(u)
      BY <1>1
    <3>2. u[j] < u[i] /\ u[j] \in Nat /\ u[i] \in Nat
      BY <1>1, <3>1 DEF Increasing
    <3> QED
      BY <2>1, <3>1, <3>2
  <2>3. i \in 1..Len(v) /\ v[i] \in Nat /\ v[j] \in Nat
    BY <2>2
  <2>4. v[i] <= v[j]
    <3>1. CASE i = j
      BY <2>3, <3>1
    <3>2. CASE i < j
      <4>1. v[i] < v[j]
        BY <1>1, <2>3, <3>2 DEF Increasing
      <4> QED
        BY <2>3, <4>1
    <3> QED
      BY <2>2, <2>3, <3>1, <3>2
  <2> QED
    BY <2>1, <2>3, <2>4
<1> DEFINE A == {i \in Nat : \A j \in 1..i : (j \in 1..Len(s) \/ j \in 1..Len(t)) =>
                     j \in 1..Len(s) /\ j \in 1..Len(t) /\ s[j] = t[j]}
<1>2. 0 \in A
  OBVIOUS
<1>3. ASSUME NEW i \in A PROVE i + 1 \in A
  <2> DEFINE k == i + 1
  <2>1. k \in 1..k /\ i = k - 1 /\ k \in Nat
    OBVIOUS
  <2>2. CASE k \in 1..Len(s)
    <3>1. \A j \in 1..(k - 1) : j \in 1..Len(t) /\ s[j] = t[j]
      BY <2>1, <2>2
    <3>2. k \in 1..Len(t) /\ t[k] <= s[k]
      <4> HIDE DEF k, A
      <4> QED
        BY <1>1, <2>2, <3>1
    <3>3. \A j \in 1..(k - 1) : j \in 1..Len(s) /\ t[j] = s[j]
      BY <2>1, <2>2, <3>1
    <3>4. k \in 1..Len(s) /\ s[k] <= t[k]
      <4> HIDE DEF k, A
      <4> QED
        BY <1>1, <3>2, <3>3
    <3>5. s[k] = t[k]
      <4>1. s[k] \in Nat /\ t[k] \in Nat
        BY <3>2, <2>2
      <4> HIDE DEF k
      <4> QED
        BY <3>2, <3>4, <4>1
    <3> QED
      BY <2>1, <2>2, <3>1, <3>2, <3>5
  <2>3. CASE k \in 1..Len(t)
    <3>1. \A j \in 1..(k - 1) : j \in 1..Len(s) /\ t[j] = s[j]
      BY <2>1, <2>3
    <3>2. k \in 1..Len(s) /\ s[k] <= t[k]
      <4> HIDE DEF k, A
      <4> QED
        BY <1>1, <2>3, <3>1
    <3> QED
      BY <2>2, <3>2
  <2>4. CASE k \notin 1..Len(s) /\ k \notin 1..Len(t)
    BY <2>1, <2>4
  <2> QED
    BY <2>2, <2>3, <2>4
<1>4. A = Nat
  <2>1. A \in SUBSET Nat
    OBVIOUS
  <2> HIDE DEF A
  <2> QED
    BY <1>2, <1>3, <2>1, NatSetInduction
<1>5. \A j \in Nat \ {0} : (j \in 1..Len(s) \/ j \in 1..Len(t)) =>
                             j \in 1..Len(s) /\ j \in 1..Len(t) /\ s[j] = t[j]
  <2> TAKE j \in Nat \ {0}
  <2>1. j \in A /\ j \in 1..j
    <3> HIDE DEF A
    <3> QED
      BY <1>4
  <2> QED
    BY <2>1
<1>6. Len(s) = Len(t)
  BY <1>5
<1> QED
  BY <1>5, <1>6, SeqEqual
=============================================================================
