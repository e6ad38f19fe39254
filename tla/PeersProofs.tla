---------------------------- MODULE PeersProofs -----------------------------
(***************************************************************************)
(* Theorems about the two processes at the ends of a connection: the       *)
(* receiver in Ruby (Bridge), for any objects and any reads, and grind as  *)
(* it stops (Lifecycle), for any number of handlers.                       *)
(***************************************************************************)
EXTENDS Bridge, Lifecycle, Induction

(***************************************************************************)
(* Folds over sequences                                                    *)
(***************************************************************************)
LEMMA MaxIs ==
  ASSUME NEW n \in Nat, NEW s \in SUBSET (1..n), s # {}
  PROVE  /\ Max(s) \in s /\ \A x \in s : x <= Max(s)
         /\ s \ {Max(s)} \in SUBSET (1..(Max(s) - 1)) /\ s \in SUBSET (1..Max(s))
<1>1. s \in SUBSET (0..n) /\ s \in SUBSET Nat
  OBVIOUS
<1>2. PICK m \in s : \A x \in s : x <= m
  BY <1>1, GreatestMember
<1>3. \A x \in s : m >= x
  BY <1>1, <1>2
<1>4. Max(s) \in s /\ \A x \in s : Max(s) >= x
  BY <1>3 DEF Max
<1> DEFINE x == Max(s)
<1>5. x \in s /\ \A y \in s : x >= y
  BY <1>4
<1> HIDE DEF x
<1>6. \A y \in s : y \in Nat /\ y >= 1
  OBVIOUS
<1>7. x \in Nat /\ \A y \in s : y <= x
  BY <1>5, <1>6
<1>8. s \in SUBSET (1..x) /\ s \ {x} \in SUBSET (1..(x - 1))
  BY <1>6, <1>7
<1>9. x \in s /\ (\A y \in s : y <= x) /\ s \ {x} \in SUBSET (1..(x - 1)) /\ s \in SUBSET (1..x)
  BY <1>5, <1>7, <1>8
<1> QED
  BY <1>9 DEF x

LEMMA MaxInterval ==
  ASSUME NEW n \in Nat, NEW k \in 1..n
  PROVE  Max(1..k) = k /\ (1..k) \ {k} = 1..(k - 1) /\ 1..k # {} /\ 1..k \in SUBSET (1..n)
<1>1. 1..k \in SUBSET (1..n) /\ k \in 1..k /\ 1..k # {}
  OBVIOUS
<1>2. Max(1..k) \in 1..k /\ k <= Max(1..k)
  BY <1>1, MaxIs
<1> QED
  BY <1>1, <1>2

(* What MapThenFoldSet chooses exists, if an element is always the largest *)
(* of those left.                                                          *)
Unwinds(f, base, table, n) ==
  \A s \in SUBSET (1..n) : f[s] = IF s = {} THEN base ELSE table[Max(s)][f[s \ {Max(s)}]]

LEMMA SubsetRecursion ==
  ASSUME NEW Y, NEW base \in Y, NEW n \in Nat, NEW table \in [1..n -> [Y -> Y]]
  PROVE  \E f \in [SUBSET (1..n) -> Y] : Unwinds(f, base, table, n)
<1> DEFINE S == SUBSET (1..n)
           X == [S -> Y]
           At0 == [s \in S |-> base]
           Put(k, h) == [s \in S |-> IF k \in s THEN table[k][h[s]] ELSE h[s]]
           step == [k \in Nat |-> [h \in X |-> Put(k, h)]]
<1>1. At0 \in X
  OBVIOUS
<1>2. \A k \in Nat, h \in X : Put(k, h) \in X
  OBVIOUS
<1>3. step \in Steps(X)
  <2> HIDE DEF X, Put
  <2> QED
    BY <1>2 DEF Steps
<1>4. PICK g \in [0..n -> X] : Unfolds(g, At0, step, n)
  <2> HIDE DEF X, step, At0
  <2> QED
    BY <1>1, <1>3, FiniteRecursion
<1>5. \A k \in 1..n : g[k] = Put(k, g[k - 1])
  <2> SUFFICES ASSUME NEW k \in 1..n PROVE g[k] = Put(k, g[k - 1])
    OBVIOUS
  <2>1. g[k] = step[k][g[k - 1]] /\ g[k - 1] \in X /\ k \in Nat
    <3> HIDE DEF X, step, At0
    <3> QED
      BY <1>4 DEF Unfolds
  <2> HIDE DEF X, Put
  <2> QED
    BY <2>1
<1>6. \A k \in 1..n : \A s \in S :
        g[k][s] = IF k \in s THEN table[k][g[k - 1][s]] ELSE g[k - 1][s]
  <2> SUFFICES ASSUME NEW k \in 1..n, NEW s \in S
               PROVE  g[k][s] = IF k \in s THEN table[k][g[k - 1][s]] ELSE g[k - 1][s]
    OBVIOUS
  <2> DEFINE h == g[k - 1]
  <2>1. g[k] = Put(k, h)
    BY <1>5
  <2> HIDE DEF h, S
  <2>2. Put(k, h)[s] = IF k \in s THEN table[k][h[s]] ELSE h[s]
    OBVIOUS
  <2> QED
    <3> HIDE DEF Put
    <3> QED
      BY <2>1, <2>2 DEF h
<1>7. \A s \in S : g[0][s] = base
  BY <1>4 DEF Unfolds
<1> DEFINE Alike(k) == \A s, t \in S : s \cap (1..k) = t \cap (1..k) => g[k][s] = g[k][t]
<1>8. \A k \in 0..n : Alike(k)
  <2> DEFINE A == {k \in 0..n : Alike(k)}
  <2>1. 0 \in A
    BY <1>7
  <2>2. ASSUME NEW k \in 0..(n - 1), k \in A PROVE k + 1 \in A
    <3>0. k + 1 \in 0..n /\ Alike(k)
      <4> HIDE DEF Alike
      <4> QED
        BY <2>2
    <3> SUFFICES ASSUME NEW s \in S, NEW t \in S, s \cap (1..(k + 1)) = t \cap (1..(k + 1))
                 PROVE  g[k + 1][s] = g[k + 1][t]
      <4> HIDE DEF S
      <4> QED
        BY <3>0
    <3>1. s \cap (1..k) = t \cap (1..k) /\ (k + 1 \in s <=> k + 1 \in t)
      <4>1. \A x : x \in s /\ x \in 1..(k + 1) <=> x \in t /\ x \in 1..(k + 1)
        OBVIOUS
      <4>2. k + 1 \in 1..(k + 1) /\ \A x \in 1..k : x \in 1..(k + 1)
        OBVIOUS
      <4> QED
        BY <4>1, <4>2
    <3>2. g[k][s] = g[k][t]
      BY <3>0, <3>1
    <3>3. k + 1 \in 1..n /\ (k + 1) - 1 = k
      OBVIOUS
    <3> QED
      BY <1>6, <3>1, <3>2, <3>3
  <2> HIDE DEF A
  <2>3. 0..n \subseteq A
    BY <2>1, <2>2, UpToInduction
  <2> QED
    BY <2>3 DEF A
<1>9. \A m \in 0..n : \A s \in SUBSET (1..m) : s \in S => g[n][s] = g[m][s]
  <2> SUFFICES ASSUME NEW m \in 0..n, NEW s \in SUBSET (1..m), s \in S PROVE g[n][s] = g[m][s]
    OBVIOUS
  <2> DEFINE A == {k \in 0..n : m <= k => g[k][s] = g[m][s]}
  <2>1. 0 \in A
    OBVIOUS
  <2>2. ASSUME NEW k \in 0..(n - 1), k \in A PROVE k + 1 \in A
    <3>1. k + 1 \in 1..n /\ (k + 1) - 1 = k
      OBVIOUS
    <3>2. CASE m <= k
      <4>1. k + 1 \notin s /\ g[k][s] = g[m][s]
        BY <2>2, <3>2
      <4>2. g[k + 1][s] = g[k][s]
        BY <1>6, <3>1, <4>1
      <4> QED
        BY <3>1, <4>1, <4>2
    <3>3. CASE ~(m <= k)
      <4>1. CASE k + 1 = m
        BY <3>1, <4>1
      <4>2. CASE k + 1 # m
        BY <3>1, <3>3, <4>2
      <4> QED
        BY <4>1, <4>2
    <3> QED
      BY <3>2, <3>3
  <2> HIDE DEF A
  <2>3. 0..n \subseteq A
    BY <2>1, <2>2, UpToInduction
  <2>4. n \in A
    BY <2>3
  <2> QED
    BY <2>4 DEF A
<1>10. g[n] \in [S -> Y]
  <2>1. n \in 0..n
    OBVIOUS
  <2> HIDE DEF S
  <2> QED
    BY <1>4, <2>1
<1>11. ASSUME NEW s \in S, s # {} PROVE g[n][s] = table[Max(s)][g[n][s \ {Max(s)}]]
  <2> DEFINE m == Max(s)
             t == s \ {m}
  <2>1. m \in s /\ t \in SUBSET (1..(m - 1)) /\ s \in SUBSET (1..m)
    BY <1>11, MaxIs
  <2> HIDE DEF m
  <2>2. m \in 1..n /\ m - 1 \in 0..n /\ t \in S
    BY <2>1
  <2>3. g[n][s] = g[m][s] /\ g[n][t] = g[m - 1][t]
    <3>1. m \in 0..n /\ s \in SUBSET (1..m)
      BY <2>1, <2>2
    <3> HIDE DEF t
    <3>2. g[n][s] = g[m][s]
      BY <1>9, <3>1
    <3>3. g[n][t] = g[m - 1][t]
      BY <1>9, <2>1, <2>2
    <3> QED
      BY <3>2, <3>3
  <2>4. g[m - 1][t] = g[m - 1][s]
    <3>1. t \cap (1..(m - 1)) = s \cap (1..(m - 1))
      BY <2>1, <2>2
    <3> QED
      BY <1>8, <2>2, <3>1
  <2>5. g[m][s] = table[m][g[m - 1][s]]
    BY <1>6, <2>1, <2>2
  <2> QED
    BY <2>3, <2>4, <2>5 DEF m
<1>12. g[n][{}] = base
  <2>1. {} \in SUBSET (1..0) /\ {} \in S /\ 0 \in 0..n
    OBVIOUS
  <2> QED
    BY <1>7, <1>9, <2>1
<1>13. Unwinds(g[n], base, table, n)
  <2> HIDE DEF At0, step, Put
  <2> QED
    BY <1>11, <1>12 DEF Unwinds
<1> QED
  BY <1>10, <1>13

(* The values of a fold along the sequence.                                *)
Goes(it, Y, base, table, n) ==
  /\ it[{}] = base
  /\ \A k \in 1..n : it[1..(k - 1)] \in Y => it[1..k] = table[k][it[1..(k - 1)]]

Runs(g, it, base, table, n) ==
  /\ g[0] = base /\ g[n] = it[1..n]
  /\ \A k \in 1..n : g[k] = table[k][g[k - 1]]

LEMMA FoldRuns ==
  ASSUME NEW Y, NEW base \in Y, NEW n \in Nat, NEW table \in [1..n -> [Y -> Y]], NEW it,
         Goes(it, Y, base, table, n)
  PROVE  \E g \in [0..n -> Y] : Runs(g, it, base, table, n)
<1> USE DEF Goes
<1> DEFINE A == {k \in 0..n : it[1..k] \in Y}
<1>1. 1..0 = {} /\ 0 \in A
  OBVIOUS
<1>2. ASSUME NEW k \in 0..(n - 1), k \in A PROVE k + 1 \in A
  <2>1. k + 1 \in 1..n /\ (k + 1) - 1 = k /\ k + 1 \in 0..n
    OBVIOUS
  <2>2. it[1..(k + 1)] = table[k + 1][it[1..k]]
    BY <1>2, <2>1
  <2>3. table[k + 1] \in [Y -> Y] /\ it[1..k] \in Y
    BY <1>2, <2>1
  <2>4. it[1..(k + 1)] \in Y
    BY <2>2, <2>3
  <2> QED
    BY <2>1, <2>4
<1>3. 0..n \subseteq A
  <2> HIDE DEF A
  <2> QED
    BY <1>1, <1>2, UpToInduction
<1> DEFINE g == [k \in 0..n |-> it[1..k]]
<1>4. g \in [0..n -> Y]
  BY <1>3
<1>5. g[0] = base /\ g[n] = it[1..n]
  BY <1>1
<1>6. \A k \in 1..n : g[k] = table[k][g[k - 1]]
  <2> SUFFICES ASSUME NEW k \in 1..n PROVE g[k] = table[k][g[k - 1]]
    OBVIOUS
  <2>1. k \in 0..n /\ k - 1 \in 0..n
    OBVIOUS
  <2>2. g[k] = it[1..k] /\ g[k - 1] = it[1..(k - 1)]
    BY <2>1
  <2>3. it[1..(k - 1)] \in Y
    BY <1>3, <2>1
  <2> QED
    BY <2>2, <2>3
<1>7. Runs(g, it, base, table, n)
  <2> HIDE DEF g
  <2> QED
    BY <1>5, <1>6 DEF Runs
<1> QED
  BY <1>4, <1>7

(***************************************************************************)
(* The parser's steps and the archive's, one by one                        *)
(***************************************************************************)
Objects == 1..Len(Sizes)

Parser == [at : Byte \cup {Between}, done : Seq(Objects), confused : BOOLEAN]

LEMMA ByteIs ==
  /\ Len(Sizes) \in Nat
  /\ \A o \in Objects : Sizes[o] \in Nat /\ Sizes[o] > 1
  /\ \A b \in Byte : /\ b.obj \in Objects /\ b.off \in 1..Sizes[b.obj]
                     /\ b = [obj |-> b.obj, off |-> b.off]
  /\ \A o \in Objects : \A i \in 1..Sizes[o] : [obj |-> o, off |-> i] \in Byte
<1>1. Len(Sizes) \in Nat /\ \A o \in Objects : Sizes[o] \in Nat /\ Sizes[o] > 1
  BY SizeAssumption DEF Objects
<1>2. ASSUME NEW b \in Byte
      PROVE  /\ b.obj \in Objects /\ b.off \in 1..Sizes[b.obj]
             /\ b = [obj |-> b.obj, off |-> b.off]
  <2>1. PICK o \in Objects : b \in [obj : {o}, off : 1..Sizes[o]]
    BY <1>2 DEF Byte, Objects
  <2> QED
    BY <2>1
<1>3. ASSUME NEW o \in Objects, NEW i \in 1..Sizes[o] PROVE [obj |-> o, off |-> i] \in Byte
  <2>1. [obj |-> o, off |-> i] \in [obj : {o}, off : 1..Sizes[o]]
    OBVIOUS
  <2> QED
    BY <2>1 DEF Byte, Objects
<1> QED
  BY <1>1, <1>2, <1>3

LEMMA FeedType ==
  ASSUME NEW p \in Parser, NEW b \in Byte
  PROVE  Feed(p, b) \in Parser
<1>1. b.obj \in Objects
  BY ByteIs
<1>2. Append(p.done, b.obj) \in Seq(Objects)
  BY <1>1 DEF Parser
<1> QED
  BY <1>2 DEF Parser, Feed

LEMMA FeedFolds ==
  ASSUME NEW p \in Parser, NEW s \in Seq(Byte)
  PROVE  \E g \in [0..Len(s) -> Parser] :
           /\ g[0] = p /\ g[Len(s)] = FoldLeft(Feed, p, s)
           /\ \A k \in 1..Len(s) : g[k] = Feed(g[k - 1], s[k])
<1> DEFINE n == Len(s)
           table == [k \in 1..n |-> [q \in Parser |-> Feed(q, s[k])]]
           Eq(h) == h = [S \in SUBSET DOMAIN s |->
                           IF S = {} THEN p
                           ELSE LET x == Max(S) IN Feed(h[S \ {x}], s[x])]
           it == CHOOSE h : Eq(h)
<1>1. n \in Nat /\ DOMAIN s = 1..n /\ \A k \in 1..n : s[k] \in Byte
  OBVIOUS
<1>2. table \in [1..n -> [Parser -> Parser]] /\ \A k \in 1..n : \A q \in Parser : table[k][q] = Feed(q, s[k])
  BY <1>1, FeedType
<1> HIDE DEF table, n
<1>3. PICK f \in [SUBSET (1..n) -> Parser] : Unwinds(f, p, table, n)
  BY <1>1, <1>2, SubsetRecursion
<1>4. \A S \in SUBSET (1..n) :
        f[S] = IF S = {} THEN p ELSE Feed(f[S \ {Max(S)}], s[Max(S)])
  <2> SUFFICES ASSUME NEW S \in SUBSET (1..n), S # {}
               PROVE  f[S] = Feed(f[S \ {Max(S)}], s[Max(S)])
    BY <1>3 DEF Unwinds
  <2>1. Max(S) \in 1..n /\ S \ {Max(S)} \in SUBSET (1..n)
    BY <1>1, MaxIs
  <2> QED
    BY <1>2, <1>3, <2>1 DEF Unwinds
<1>5. Eq(f)
  BY <1>1, <1>3, <1>4
<1>6. Eq(it)
  <2> HIDE DEF Eq
  <2> QED
    BY <1>5
<1>7. it[DOMAIN s] = FoldLeft(Feed, p, s)
  BY DEF FoldLeft, MapThenFoldSet
<1> HIDE DEF it
<1>8. \A S \in SUBSET (1..n) :
        it[S] = IF S = {} THEN p ELSE Feed(it[S \ {Max(S)}], s[Max(S)])
  BY <1>1, <1>6
<1>9. it[{}] = p
  BY <1>8
<1>10. ASSUME NEW k \in 1..n, it[1..(k - 1)] \in Parser
       PROVE  it[1..k] = table[k][it[1..(k - 1)]]
  <2>1. Max(1..k) = k /\ (1..k) \ {k} = 1..(k - 1) /\ 1..k # {} /\ 1..k \in SUBSET (1..n)
    BY <1>1, MaxInterval
  <2>2. it[1..k] = Feed(it[(1..k) \ {k}], s[k])
    BY <1>8, <2>1
  <2> QED
    BY <1>2, <1>10, <2>1, <2>2
<1>11. Goes(it, Parser, p, table, n)
  BY <1>9, <1>10 DEF Goes
<1>12. PICK g \in [0..n -> Parser] : Runs(g, it, p, table, n)
  BY <1>1, <1>2, <1>11, FoldRuns
<1>13. \A k \in 1..n : g[k] = Feed(g[k - 1], s[k])
  <2> SUFFICES ASSUME NEW k \in 1..n PROVE g[k] = Feed(g[k - 1], s[k])
    OBVIOUS
  <2>1. g[k - 1] \in Parser
    BY <1>1
  <2> QED
    BY <1>2, <1>12, <2>1 DEF Runs
<1> QED
  BY <1>1, <1>7, <1>12, <1>13 DEF Runs, n

LEMMA KeepType ==
  ASSUME NEW db \in Seq(Objects), NEW o \in Objects
  PROVE  Keep(db, o) \in Seq(Objects)
<1>1. Kind[o] \in {"entry", "reply", "purge"}
  BY KindAssumption DEF Objects
<1>2. Append(db, o) \in Seq(Objects) /\ <<>> \in Seq(Objects)
  OBVIOUS
<1> QED
  BY <1>1, <1>2 DEF Keep

LEMMA KeepFolds ==
  ASSUME NEW db \in Seq(Objects), NEW s \in Seq(Objects)
  PROVE  \E g \in [0..Len(s) -> Seq(Objects)] :
           /\ g[0] = db /\ g[Len(s)] = FoldLeft(Keep, db, s)
           /\ \A k \in 1..Len(s) : g[k] = Keep(g[k - 1], s[k])
<1> DEFINE n == Len(s)
           Y == Seq(Objects)
           table == [k \in 1..n |-> [q \in Y |-> Keep(q, s[k])]]
           Eq(h) == h = [S \in SUBSET DOMAIN s |->
                           IF S = {} THEN db
                           ELSE LET x == Max(S) IN Keep(h[S \ {x}], s[x])]
           it == CHOOSE h : Eq(h)
<1>1. n \in Nat /\ DOMAIN s = 1..n /\ \A k \in 1..n : s[k] \in Objects
  OBVIOUS
<1>2. table \in [1..n -> [Y -> Y]] /\ \A k \in 1..n : \A q \in Y : table[k][q] = Keep(q, s[k])
  BY <1>1, KeepType
<1> HIDE DEF table, n, Y
<1>0. db \in Y
  BY DEF Y
<1>3. PICK f \in [SUBSET (1..n) -> Y] : Unwinds(f, db, table, n)
  BY <1>0, <1>1, <1>2, SubsetRecursion
<1>4. \A S \in SUBSET (1..n) :
        f[S] = IF S = {} THEN db ELSE Keep(f[S \ {Max(S)}], s[Max(S)])
  <2> SUFFICES ASSUME NEW S \in SUBSET (1..n), S # {}
               PROVE  f[S] = Keep(f[S \ {Max(S)}], s[Max(S)])
    BY <1>3 DEF Unwinds
  <2>1. Max(S) \in 1..n /\ S \ {Max(S)} \in SUBSET (1..n)
    BY <1>1, MaxIs
  <2> QED
    BY <1>2, <1>3, <2>1 DEF Unwinds
<1>5. Eq(f)
  BY <1>1, <1>3, <1>4
<1>6. Eq(it)
  <2> HIDE DEF Eq
  <2> QED
    BY <1>5
<1>7. it[DOMAIN s] = FoldLeft(Keep, db, s)
  BY DEF FoldLeft, MapThenFoldSet
<1> HIDE DEF it
<1>8. \A S \in SUBSET (1..n) :
        it[S] = IF S = {} THEN db ELSE Keep(it[S \ {Max(S)}], s[Max(S)])
  BY <1>1, <1>6
<1>9. it[{}] = db
  BY <1>8
<1>10. ASSUME NEW k \in 1..n, it[1..(k - 1)] \in Y
       PROVE  it[1..k] = table[k][it[1..(k - 1)]]
  <2>1. Max(1..k) = k /\ (1..k) \ {k} = 1..(k - 1) /\ 1..k # {} /\ 1..k \in SUBSET (1..n)
    BY <1>1, MaxInterval
  <2>2. it[1..k] = Keep(it[(1..k) \ {k}], s[k])
    BY <1>8, <2>1
  <2> QED
    BY <1>2, <1>10, <2>1, <2>2
<1>11. Goes(it, Y, db, table, n)
  BY <1>9, <1>10 DEF Goes
<1>12. PICK g \in [0..n -> Y] : Runs(g, it, db, table, n)
  BY <1>0, <1>1, <1>2, <1>11, FoldRuns
<1>13. \A k \in 1..n : g[k] = Keep(g[k - 1], s[k])
  <2> SUFFICES ASSUME NEW k \in 1..n PROVE g[k] = Keep(g[k - 1], s[k])
    OBVIOUS
  <2>1. g[k - 1] \in Y
    BY <1>1
  <2> QED
    BY <1>2, <1>12, <2>1 DEF Runs
<1> QED
  BY <1>1, <1>7, <1>12, <1>13 DEF Runs, n, Y

(***************************************************************************)
(* The stream: the bytes of each object in order, one object after another *)
(***************************************************************************)
Follow(b) == IF b.off = Sizes[b.obj] THEN [obj |-> b.obj + 1, off |-> 1]
                                     ELSE [obj |-> b.obj, off |-> b.off + 1]

\* The bytes of the first k objects.
Streams(s, k) ==
  /\ s \in Seq(Byte) /\ Len(s) > 0
  /\ s[1] = [obj |-> 1, off |-> 1]
  /\ s[Len(s)] = [obj |-> k, off |-> Sizes[k]]
  /\ \A i \in 1..(Len(s) - 1) : s[i + 1] = Follow(s[i])

Part(o) == [i \in 1..Sizes[o] |-> [obj |-> o, off |-> i]]

LEMMA PartIs ==
  ASSUME NEW o \in Objects
  PROVE  /\ Part(o) \in Seq(Byte) /\ Len(Part(o)) = Sizes[o] /\ Sizes[o] \in Nat /\ Sizes[o] > 1
         /\ \A i \in 1..Sizes[o] : Part(o)[i] = [obj |-> o, off |-> i]
         /\ \A i \in 1..(Sizes[o] - 1) : Part(o)[i + 1] = Follow(Part(o)[i])
<1>1. Sizes[o] \in Nat /\ Sizes[o] > 1 /\ \A i \in 1..Sizes[o] : [obj |-> o, off |-> i] \in Byte
  BY ByteIs
<1>2. \A i \in 1..Sizes[o] : Part(o)[i] = [obj |-> o, off |-> i]
  BY DEF Part
<1>3. Part(o) \in [1..Sizes[o] -> Byte]
  BY <1>1 DEF Part
<1>4. Part(o) \in Seq(Byte) /\ Len(Part(o)) = Sizes[o]
  BY <1>1, <1>3, FunctionIsSeq
<1>5. ASSUME NEW i \in 1..(Sizes[o] - 1) PROVE Part(o)[i + 1] = Follow(Part(o)[i])
  <2>1. i \in 1..Sizes[o] /\ i + 1 \in 1..Sizes[o] /\ i # Sizes[o]
    BY <1>1
  <2>2. Part(o)[i + 1] = [obj |-> o, off |-> i + 1] /\ Part(o)[i] = [obj |-> o, off |-> i]
    BY <1>2, <2>1
  <2> QED
    BY <2>1, <2>2 DEF Follow
<1> QED
  BY <1>1, <1>2, <1>4, <1>5

LEMMA StreamsGrow ==
  ASSUME NEW k \in Objects, k + 1 \in Objects, NEW s, Streams(s, k)
  PROVE  Streams(s \o Part(k + 1), k + 1)
<1> DEFINE p == Part(k + 1)
           z == Sizes[k + 1]
           n == Len(s)
           t == s \o p
<1>1. /\ p \in Seq(Byte) /\ Len(p) = z /\ z \in Nat /\ z > 1
      /\ \A i \in 1..z : p[i] = [obj |-> k + 1, off |-> i]
      /\ \A i \in 1..(z - 1) : p[i + 1] = Follow(p[i])
  BY PartIs
<1>2. s \in Seq(Byte) /\ n \in Nat /\ n > 0 /\ s[1] = [obj |-> 1, off |-> 1]
  BY DEF Streams
<1>3. s[n] = [obj |-> k, off |-> Sizes[k]] /\ \A i \in 1..(n - 1) : s[i + 1] = Follow(s[i])
  BY DEF Streams
<1> HIDE DEF p, z
<1>4. t \in Seq(Byte) /\ Len(t) = n + z
  BY <1>1, <1>2, ConcatProperties
<1>5. \A i \in 1..n : t[i] = s[i]
  <2> SUFFICES ASSUME NEW i \in 1..n PROVE t[i] = s[i]
    OBVIOUS
  <2> QED
    BY <1>1, <1>2
<1>6. \A i \in 1..z : t[n + i] = p[i]
  <2> SUFFICES ASSUME NEW i \in 1..z PROVE t[n + i] = p[i]
    OBVIOUS
  <2>1. n + i \in 1..(n + z) /\ ~(n + i <= n) /\ (n + i) - n = i
    BY <1>1, <1>2
  <2> QED
    BY <1>1, <1>2, <2>1
<1> HIDE DEF n
<1> HIDE DEF t
<1>7. t[1] = [obj |-> 1, off |-> 1]
  BY <1>2, <1>5
<1>8. t[n + z] = [obj |-> k + 1, off |-> z]
  BY <1>1, <1>6
<1>9. ASSUME NEW i \in 1..(n + z - 1) PROVE t[i + 1] = Follow(t[i])
  <2>1. CASE i \in 1..(n - 1)
    <3>1. i \in 1..n /\ i + 1 \in 1..n
      BY <1>2, <2>1
    <3> QED
      BY <1>3, <1>5, <2>1, <3>1
  <2>2. CASE i = n
    <3>0. n \in 1..n /\ 1 \in 1..z
      BY <1>1, <1>2
    <3>1. t[i] = s[n] /\ t[i + 1] = p[1]
      BY <1>5, <1>6, <2>2, <3>0
    <3>2. p[1] = [obj |-> k + 1, off |-> 1]
      BY <1>1
    <3> QED
      BY <1>3, <3>1, <3>2 DEF Follow
  <2>3. CASE i > n
    <3>1. i - n \in 1..(z - 1) /\ i - n \in 1..z /\ (i - n) + 1 \in 1..z
      BY <1>1, <1>2, <2>3
    <3>2. n + (i - n) = i /\ n + ((i - n) + 1) = i + 1
      BY <1>1, <1>2, <2>3
    <3>3. t[i] = p[i - n] /\ t[i + 1] = p[(i - n) + 1]
      BY <1>6, <3>1, <3>2
    <3> QED
      BY <1>1, <3>1, <3>3
  <2> QED
    BY <1>1, <1>2, <2>1, <2>2, <2>3
<1>10. n + z > 0
  BY <1>1, <1>2
<1> QED
  <2>1. \A i \in 1..(Len(t) - 1) : t[i + 1] = Follow(t[i])
    <3> SUFFICES ASSUME NEW i \in 1..(Len(t) - 1) PROVE t[i + 1] = Follow(t[i])
      OBVIOUS
    <3>1. i \in 1..(n + z - 1)
      BY <1>1, <1>2, <1>4
    <3> QED
      BY <1>9, <3>1
  <2>2. t[Len(t)] = [obj |-> k + 1, off |-> Sizes[k + 1]]
    BY <1>4, <1>8 DEF z
  <2>3. t \in Seq(Byte) /\ Len(t) > 0
    BY <1>4, <1>10
  <2>4. Streams(t, k + 1)
    BY <1>7, <2>1, <2>2, <2>3 DEF Streams
  <2> QED
    BY <2>4 DEF t, p

LEMMA StreamsStart ==
  ASSUME 1 \in Objects
  PROVE  Streams(Part(1), 1)
<1>1. /\ Part(1) \in Seq(Byte) /\ Len(Part(1)) = Sizes[1] /\ Sizes[1] \in Nat /\ Sizes[1] > 1
      /\ \A i \in 1..Sizes[1] : Part(1)[i] = [obj |-> 1, off |-> i]
      /\ \A i \in 1..(Sizes[1] - 1) : Part(1)[i + 1] = Follow(Part(1)[i])
  BY PartIs
<1>2. 1 \in 1..Sizes[1] /\ Sizes[1] \in 1..Sizes[1]
  BY <1>1
<1> QED
  BY <1>1, <1>2 DEF Streams

(* Stream consists of the bytes of all objects.                            *)
LEMMA StreamIs ==
  /\ Len(Sizes) = 0 => Stream = <<>>
  /\ Len(Sizes) > 0 => Streams(Stream, Len(Sizes))
<1> DEFINE n == Len(Sizes)
           seqs == [o \in 1..n |-> [i \in 1..Sizes[o] |-> [obj |-> o, off |-> i]]]
<1>1. n \in Nat /\ Objects = 1..n
  BY ByteIs DEF Objects
<1>2. \A o \in 1..n : seqs[o] = Part(o)
  BY DEF Part
<1>3. Len(seqs) = n /\ Stream = FlattenSeq(seqs)
  BY <1>1 DEF Stream
<1>4. CASE n = 0
  <2>1. seqs = <<>>
    BY <1>4
  <2>2. FlattenSeq(seqs) = seqs
    BY <1>3, <1>4 DEF FlattenSeq
  <2> QED
    BY <1>3, <1>4, <2>1, <2>2
<1>5. CASE n > 0
  <2> DEFINE X == Seq(Byte)
             step == [i \in Nat |-> [s \in X |-> IF i \in 1..n THEN s \o Part(i) ELSE s]]
             Eq(f) == f = [i \in 1..Len(seqs) |-> IF i = 1 THEN seqs[i] ELSE f[i - 1] \o seqs[i]]
             flatten == CHOOSE f : Eq(f)
  <2>0. \A i \in 1..n : Part(i) \in X
    BY <1>1, PartIs
  <2>1. step \in Steps(X)
    BY <2>0 DEF Steps
  <2>2. <<>> \in X
    OBVIOUS
  <2>3. \A i \in 1..n : \A s \in X : step[i][s] = s \o Part(i)
    BY <1>1
  <2> HIDE DEF step, X
  <2>4. PICK g \in [0..n -> X] : Unfolds(g, <<>>, step, n)
    BY <1>1, <2>1, <2>2, FiniteRecursion
  <2> DEFINE f0 == [i \in 1..n |-> g[i]]
  <2>5. \A i \in 1..n : f0[i] = IF i = 1 THEN Part(i) ELSE f0[i - 1] \o Part(i)
    <3> SUFFICES ASSUME NEW i \in 1..n
                 PROVE  f0[i] = IF i = 1 THEN Part(i) ELSE f0[i - 1] \o Part(i)
      OBVIOUS
    <3>1. g[i] = step[i][g[i - 1]] /\ g[i - 1] \in X
      BY <1>1, <2>4 DEF Unfolds
    <3>2. f0[i] = g[i - 1] \o Part(i)
      BY <2>3, <3>1
    <3>3. CASE i = 1
      <4>1. g[i - 1] = <<>>
        BY <2>4, <3>3 DEF Unfolds
      <4>2. Part(i) \in Seq(Byte)
        BY <2>0 DEF X
      <4>3. <<>> \o Part(i) = Part(i)
        BY <4>2
      <4> QED
        BY <3>2, <3>3, <4>1, <4>3
    <3>4. CASE i # 1
      <4>1. i - 1 \in 1..n
        BY <1>1, <3>4
      <4> QED
        BY <3>2, <3>4, <4>1
    <3> QED
      BY <3>3, <3>4
  <2>6. Eq(f0)
    <3> DEFINE h == [i \in 1..Len(seqs) |-> IF i = 1 THEN seqs[i] ELSE f0[i - 1] \o seqs[i]]
    <3>1. \A i \in 1..n : h[i] = f0[i]
      <4> HIDE DEF seqs, f0
      <4> QED
        BY <1>2, <1>3, <2>5
    <3>2. DOMAIN h = 1..n /\ DOMAIN f0 = 1..n
      <4> HIDE DEF seqs
      <4> QED
        BY <1>3
    <3>3. h = [i \in 1..n |-> h[i]]
      <4> HIDE DEF seqs
      <4> QED
        BY <1>3
    <3>4. f0 = h
      <4> HIDE DEF h
      <4> QED
        BY <3>1, <3>3
    <3> QED
      <4> HIDE DEF seqs, f0
      <4> QED
        BY <3>4
  <2>7. Eq(flatten)
    <3> HIDE DEF Eq
    <3> QED
      BY <2>6
  <2>8. FlattenSeq(seqs) = flatten[Len(seqs)]
    <3> HIDE DEF seqs
    <3> QED
      BY <1>3, <1>5 DEF FlattenSeq
  <2> HIDE DEF flatten
  <2>9. \A i \in 1..n : flatten[i] = IF i = 1 THEN Part(i) ELSE flatten[i - 1] \o Part(i)
    <3> HIDE DEF seqs
    <3> QED
      BY <1>2, <1>3, <2>7
  <2> DEFINE A == {i \in 0..(n - 1) : Streams(flatten[i + 1], i + 1)}
  <2>10. 0 \in A
    <3>1. 1 \in Objects /\ 1 \in 1..n
      BY <1>1, <1>5
    <3>3. flatten[1] = Part(1)
      BY <2>9, <3>1
    <3>2. Streams(flatten[1], 1) /\ 0 + 1 = 1 /\ 0 \in 0..(n - 1)
      BY <1>1, <1>5, <3>1, <3>3, StreamsStart
    <3> QED
      BY <3>2
  <2>11. ASSUME NEW i \in 0..(n - 1 - 1), i \in A PROVE i + 1 \in A
    <3>1. i + 1 \in Objects /\ (i + 1) + 1 \in Objects /\ i + 1 \in 0..(n - 1) /\ ((i + 1) + 1) - 1 = i + 1
      BY <1>1
    <3>2. Streams(flatten[i + 1], i + 1)
      BY <2>11
    <3>3. flatten[(i + 1) + 1] = flatten[i + 1] \o Part((i + 1) + 1)
      <4>1. (i + 1) + 1 \in 1..n /\ (i + 1) + 1 # 1
        BY <1>1
      <4> QED
        BY <2>9, <3>1, <4>1
    <3>4. Streams(flatten[i + 1] \o Part((i + 1) + 1), (i + 1) + 1)
      BY <3>1, <3>2, StreamsGrow
    <3> QED
      BY <3>1, <3>3, <3>4
  <2>12. n - 1 \in Nat /\ n - 1 \in 0..(n - 1) /\ (n - 1) + 1 = n
    BY <1>1, <1>5
  <2>13. 0..(n - 1) \subseteq A
    <3> HIDE DEF A, n
    <3> QED
      BY <2>10, <2>11, <2>12, UpToInduction
  <2>14. Streams(flatten[n], n)
    BY <2>12, <2>13
  <2> QED
    BY <1>3, <1>5, <2>8, <2>14
<1> QED
  BY <1>1, <1>4, <1>5

(* How many objects are complete after i bytes, and where the parser is.   *)
Ends(i) == Stream[i].off = Sizes[Stream[i].obj]

Done(i) == IF i = 0 THEN 0 ELSE IF Ends(i) THEN Stream[i].obj ELSE Stream[i].obj - 1

At(i) == IF i = 0 \/ Ends(i) THEN Between ELSE Stream[i]

LEMMA StreamBytes ==
  /\ Stream \in Seq(Byte) /\ Len(Stream) \in Nat
  /\ \A i \in 1..Len(Stream) : Stream[i] \in Byte
  /\ Len(Stream) > 0 => Stream[1] = [obj |-> 1, off |-> 1]
  /\ \A i \in 1..Len(Stream) : i > 1 => i - 1 \in 1..Len(Stream) /\ Stream[i] = Follow(Stream[i - 1])
<1>1. CASE Len(Sizes) = 0
  BY <1>1, StreamIs
<1>2. CASE Len(Sizes) > 0
  <2>1. Streams(Stream, Len(Sizes))
    BY <1>2, StreamIs
  <2>2. Stream \in Seq(Byte) /\ Stream[1] = [obj |-> 1, off |-> 1]
    BY <2>1 DEF Streams
  <2>3. \A i \in 1..(Len(Stream) - 1) : Stream[i + 1] = Follow(Stream[i])
    BY <2>1 DEF Streams
  <2>4. Len(Stream) \in Nat /\ \A i \in 1..Len(Stream) : Stream[i] \in Byte
    BY <2>2
  <2>5. ASSUME NEW i \in 1..Len(Stream), i > 1
        PROVE  i - 1 \in 1..Len(Stream) /\ Stream[i] = Follow(Stream[i - 1])
    <3>1. i - 1 \in 1..(Len(Stream) - 1) /\ (i - 1) + 1 = i /\ i - 1 \in 1..Len(Stream)
      BY <2>4, <2>5
    <3> QED
      BY <2>3, <3>1
  <2> QED
    BY <2>2, <2>4, <2>5
<1> QED
  BY <1>1, <1>2, ByteIs

LEMMA DoneSteps ==
  ASSUME NEW i \in 1..Len(Stream)
  PROVE  /\ i - 1 \in Nat /\ Done(i - 1) \in Nat /\ Done(i) \in 0..Len(Sizes)
         /\ Stream[i].obj = Done(i - 1) + 1
         /\ Ends(i) => Done(i) = Done(i - 1) + 1
         /\ ~Ends(i) => Done(i) = Done(i - 1)
         /\ (i = 1 \/ Ends(i - 1)) => Stream[i].off = 1
         /\ ~(i = 1 \/ Ends(i - 1)) => /\ Stream[i].obj = Stream[i - 1].obj
                                       /\ Stream[i].off = Stream[i - 1].off + 1
<1> DEFINE b == Stream[i]
           a == Stream[i - 1]
<1>1. Len(Stream) \in Nat /\ i \in Nat /\ i > 0 /\ i - 1 \in Nat
  BY StreamBytes
<1>2. b.obj \in Objects /\ b.off \in 1..Sizes[b.obj] /\ Sizes[b.obj] \in Nat /\ Len(Sizes) \in Nat
  BY StreamBytes, ByteIs
<1>3. CASE i = 1
  <2>1. b = [obj |-> 1, off |-> 1] /\ i - 1 = 0
    BY <1>1, <1>3, StreamBytes
  <2>2. b.obj = 1 /\ b.off = 1
    BY <2>1
  <2>3. 1 \in Objects
    BY <1>2, <2>2
  <2> HIDE DEF b
  <2> QED
    BY <1>1, <1>2, <1>3, <2>1, <2>2, <2>3 DEF Done, Ends, Objects, b
<1>4. CASE i > 1
  <2>1. i - 1 \in 1..Len(Stream) /\ b = Follow(a) /\ i - 1 # 0
    BY <1>1, <1>4, StreamBytes
  <2>2. a.obj \in Objects /\ a.off \in 1..Sizes[a.obj] /\ Sizes[a.obj] \in Nat
    BY <2>1, StreamBytes, ByteIs
  <2>3. Ends(i - 1) => b.obj = a.obj + 1 /\ b.off = 1
    BY <2>1 DEF Ends, Follow
  <2>4. ~Ends(i - 1) => b.obj = a.obj /\ b.off = a.off + 1
    BY <2>1 DEF Ends, Follow
  <2>5. Done(i - 1) = IF Ends(i - 1) THEN a.obj ELSE a.obj - 1
    BY <2>1 DEF Done
  <2>6. Done(i) = IF Ends(i) THEN b.obj ELSE b.obj - 1
    BY <1>1 DEF Done
  <2> HIDE DEF a, b
  <2>7. b.obj = Done(i - 1) + 1
    BY <2>2, <2>3, <2>4, <2>5 DEF Objects
  <2>8. Done(i - 1) \in Nat
    BY <2>2, <2>5 DEF Objects
  <2>9. Done(i) \in 0..Len(Sizes)
    BY <1>2, <2>6 DEF Objects
  <2>10. (Ends(i) => Done(i) = Done(i - 1) + 1) /\ (~Ends(i) => Done(i) = Done(i - 1))
    BY <2>6, <2>7, <2>8
  <2> QED
    BY <1>1, <1>4, <2>3, <2>4, <2>7, <2>8, <2>9, <2>10 DEF a, b
<1> QED
  BY <1>1, <1>3, <1>4

LEMMA DoneType ==
  ASSUME NEW i \in 0..Len(Stream)
  PROVE  Done(i) \in 0..Len(Sizes)
<1>1. CASE i = 0
  BY <1>1, ByteIs DEF Done
<1>2. CASE i # 0
  <2>1. i \in 1..Len(Stream)
    BY <1>2, StreamBytes
  <2> QED
    BY <2>1, DoneSteps
<1> QED
  BY <1>1, <1>2

LEMMA AtType ==
  ASSUME NEW i \in 0..Len(Stream)
  PROVE  At(i) \in Byte \cup {Between}
<1>1. i = 0 \/ Stream[i] \in Byte
  BY StreamBytes
<1> QED
  BY <1>1 DEF At

(* Fed the stream's next byte, the parser goes on.                         *)
LEMMA FeedNext ==
  ASSUME NEW p \in Parser, NEW i \in 1..Len(Stream), ~p.confused, p.at = At(i - 1)
  PROVE  LET q == Feed(p, Stream[i]) IN
         /\ q \in Parser /\ ~q.confused /\ q.at = At(i)
         /\ q.done = IF Ends(i) THEN Append(p.done, Done(i)) ELSE p.done
<1> DEFINE b == Stream[i]
           q == Feed(p, b)
<1>1. b \in Byte /\ i # 0 /\ i - 1 \in Nat
  BY StreamBytes
<1>2. q \in Parser
  BY <1>1, FeedType
<1>3. \/ p.at = Between /\ b.off = 1
      \/ b.obj = p.at.obj /\ b.off = p.at.off + 1
  <2>1. CASE i = 1 \/ Ends(i - 1)
    <3>1. i - 1 = 0 \/ Ends(i - 1)
      BY <1>1, <2>1
    <3>2. At(i - 1) = Between
      BY <3>1 DEF At
    <3>3. b.off = 1
      BY <2>1, DoneSteps
    <3> QED
      BY <3>2, <3>3
  <2>2. CASE ~(i = 1 \/ Ends(i - 1))
    <3>1. ~(i - 1 = 0 \/ Ends(i - 1))
      BY <1>1, <2>2
    <3>2. p.at = Stream[i - 1]
      BY <3>1 DEF At
    <3> QED
      BY <2>2, <3>2, DoneSteps
  <2> QED
    BY <2>1, <2>2
<1>4. q = IF b.off = Sizes[b.obj]
          THEN [p EXCEPT !.at = Between, !.done = Append(@, b.obj)]
          ELSE [p EXCEPT !.at = b]
  BY <1>3 DEF Feed
<1>5. Ends(i) <=> b.off = Sizes[b.obj]
  BY DEF Ends
<1>6. CASE Ends(i)
  <2>1. q = [p EXCEPT !.at = Between, !.done = Append(@, b.obj)]
    BY <1>4, <1>5, <1>6
  <2>2. Done(i) = b.obj /\ At(i) = Between
    BY <1>1, <1>6 DEF Done, At
  <2> HIDE DEF b, q
  <2>3. ~q.confused /\ q.at = Between /\ q.done = Append(p.done, b.obj)
    BY <2>1 DEF Parser
  <2> QED
    BY <1>2, <1>6, <2>2, <2>3 DEF q, b
<1>7. CASE ~Ends(i)
  <2>1. q = [p EXCEPT !.at = b]
    BY <1>4, <1>5, <1>7
  <2>2. At(i) = b
    BY <1>1, <1>7 DEF At
  <2> HIDE DEF b, q
  <2>3. ~q.confused /\ q.at = b /\ q.done = p.done
    BY <2>1 DEF Parser
  <2> QED
    BY <1>2, <1>7, <2>2, <2>3 DEF q, b
<1> QED
  BY <1>6, <1>7

(* Confused, it stays as it is.                                            *)
LEMMA FeedStuck ==
  ASSUME NEW p \in Parser, NEW s \in Seq(Byte), NEW r \in Parser, r.confused,
         p = r \/ (Len(s) > 0 /\ Feed(p, s[1]) = r)
  PROVE  FoldLeft(Feed, p, s) = (IF Len(s) = 0 THEN p ELSE r)
<1>1. PICK g \in [0..Len(s) -> Parser] :
        /\ g[0] = p /\ g[Len(s)] = FoldLeft(Feed, p, s)
        /\ \A k \in 1..Len(s) : g[k] = Feed(g[k - 1], s[k])
  BY FeedFolds
<1>2. Len(s) \in Nat
  OBVIOUS
<1>3. CASE Len(s) = 0
  BY <1>1, <1>3
<1>4. CASE Len(s) > 0
  <2>1. \A b : Feed(r, b) = r
    BY DEF Feed
  <2> DEFINE n == Len(s) - 1
             A == {k \in 0..n : g[k + 1] = r}
  <2>2. n \in Nat /\ n + 1 = Len(s)
    BY <1>2, <1>4
  <2>3. 0 \in A
    <3>1. g[0 + 1] = Feed(p, s[1])
      BY <1>1, <1>2, <1>4
    <3> QED
      BY <2>1, <2>2, <3>1
  <2>4. ASSUME NEW k \in 0..(n - 1), k \in A PROVE k + 1 \in A
    <3>1. k + 1 \in 0..n /\ (k + 1) + 1 \in 1..Len(s) /\ ((k + 1) + 1) - 1 = k + 1
      BY <2>2
    <3>2. g[(k + 1) + 1] = Feed(r, s[(k + 1) + 1])
      BY <1>1, <2>4, <3>1
    <3> QED
      BY <2>1, <3>1, <3>2
  <2>5. 0..n \subseteq A
    <3> HIDE DEF A, n
    <3> QED
      BY <2>2, <2>3, <2>4, UpToInduction
  <2>6. g[n + 1] = r
    <3> HIDE DEF n
    <3>1. n \in 0..n
      BY <2>2
    <3>2. n \in A
      BY <2>5, <3>1
    <3> QED
      BY <3>2
  <2> QED
    BY <1>1, <1>4, <2>2, <2>6
<1> QED
  BY <1>2, <1>3, <1>4

(* Along n bytes from the a-th: what completes, and offsets when nothing   *)
(* does.                                                                   *)
LEMMA DoneGrows ==
  ASSUME NEW a \in Nat, NEW n \in Nat, a + n <= Len(Stream)
  PROVE  /\ Done(a) \in Nat /\ Done(a + n) \in Nat /\ Done(a) <= Done(a + n)
         /\ Done(a) = Done(a + n) <=> \A k \in 1..n : ~Ends(a + k)
<1> DEFINE A == {m \in 0..n : /\ Done(a + m) \in Nat /\ Done(a) <= Done(a + m)
                              /\ Done(a) = Done(a + m) <=> \A k \in 1..m : ~Ends(a + k)}
<1>0. Len(Stream) \in Nat
  BY StreamBytes
<1>1. a \in 0..Len(Stream)
  BY <1>0
<1>2. Done(a) \in Nat
  BY <1>1, DoneType, ByteIs
<1>3. 0 \in A
  <2>1. a + 0 = a /\ \A k \in 1..0 : ~Ends(a + k)
    OBVIOUS
  <2> QED
    BY <1>2, <2>1
<1>4. ASSUME NEW m \in 0..(n - 1), m \in A PROVE m + 1 \in A
  <2> DEFINE i == a + (m + 1)
  <2>1. i \in 1..Len(Stream) /\ i - 1 = a + m /\ m + 1 \in 0..n
    BY <1>0
  <2>2. /\ Ends(i) => Done(i) = Done(i - 1) + 1
        /\ ~Ends(i) => Done(i) = Done(i - 1)
    BY <2>1, DoneSteps
  <2>3. Done(a + m) \in Nat /\ Done(a) <= Done(a + m)
    BY <1>4
  <2>4. Done(a) = Done(a + m) <=> \A k \in 1..m : ~Ends(a + k)
    BY <1>4
  <2>5. (\A k \in 1..(m + 1) : ~Ends(a + k)) <=> (~Ends(i) /\ \A k \in 1..m : ~Ends(a + k))
    <3>1. \A k \in 1..(m + 1) : k = m + 1 \/ k \in 1..m
      OBVIOUS
    <3>2. m + 1 \in 1..(m + 1) /\ \A k \in 1..m : k \in 1..(m + 1)
      OBVIOUS
    <3> QED
      BY <3>1, <3>2
  <2>6. Done(i) \in Nat /\ Done(a) <= Done(i) /\ (Done(a) = Done(i) <=> ~Ends(i) /\ Done(a) = Done(a + m))
    <3> HIDE DEF i
    <3>1. Done(i - 1) = Done(a + m)
      BY <2>1
    <3> QED
      BY <1>2, <2>2, <2>3, <3>1
  <2> DEFINE none == \A k \in 1..(m + 1) : ~Ends(a + k)
             before == \A k \in 1..m : ~Ends(a + k)
  <2> HIDE DEF none, before, i
  <2>7. Done(a) = Done(i) <=> none
    <3>1. (none <=> (~Ends(i) /\ before)) /\ (Done(a) = Done(a + m) <=> before)
      BY <2>4, <2>5 DEF none, before, i
    <3> QED
      BY <2>6, <3>1
  <2> QED
    BY <2>1, <2>6, <2>7 DEF none, i
<1>5. 0..n \subseteq A
  <2> HIDE DEF A
  <2> QED
    BY <1>3, <1>4, UpToInduction
<1>6. n \in A
  <2> HIDE DEF A
  <2> QED
    BY <1>5
<1> QED
  BY <1>2, <1>6

LEMMA OffsetsGrow ==
  ASSUME NEW a \in Nat, NEW n \in Nat, n > 0, a + n <= Len(Stream),
         \A k \in 1..n : ~Ends(a + k)
  PROVE  Stream[a + 1].off <= Stream[a + n].off
<1> DEFINE A == {m \in 0..(n - 1) : Stream[a + 1].off <= Stream[a + (m + 1)].off}
<1>0. Len(Stream) \in Nat /\ n - 1 \in Nat
  BY StreamBytes
<1>1. \A k \in 1..n : a + k \in 1..Len(Stream) /\ Stream[a + k].off \in Nat
  <2> SUFFICES ASSUME NEW k \in 1..n PROVE a + k \in 1..Len(Stream) /\ Stream[a + k].off \in Nat
    OBVIOUS
  <2>1. a + k \in 1..Len(Stream)
    BY <1>0
  <2>2. Stream[a + k] \in Byte
    BY <2>1, StreamBytes
  <2>3. Stream[a + k].off \in Nat
    BY <2>2, ByteIs
  <2> QED
    BY <2>1, <2>3
<1>2. 0 \in A
  <2>1. 1 \in 1..n /\ 0 + 1 = 1 /\ 0 \in 0..(n - 1)
    BY <1>0
  <2> QED
    BY <1>1, <2>1
<1>3. ASSUME NEW m \in 0..(n - 1 - 1), m \in A PROVE m + 1 \in A
  <2> DEFINE i == a + ((m + 1) + 1)
  <2>1. /\ m + 1 \in 1..n /\ (m + 1) + 1 \in 1..n /\ m + 1 \in 0..(n - 1)
        /\ i - 1 = a + (m + 1) /\ i # 1 /\ 1 \in 1..n
    BY <1>0
  <2>2. i \in 1..Len(Stream)
    BY <1>1, <2>1
  <2>3. ~(i = 1 \/ Ends(i - 1))
    BY <2>1
  <2> HIDE DEF i
  <2>4. Stream[i].off = Stream[i - 1].off + 1
    BY <2>2, <2>3, DoneSteps
  <2>5. Stream[a + 1].off <= Stream[i - 1].off
    BY <1>3, <2>1
  <2>6. Stream[a + 1].off \in Nat /\ Stream[i - 1].off \in Nat
    BY <1>1, <2>1
  <2>7. Stream[a + 1].off <= Stream[i].off
    BY <2>4, <2>5, <2>6
  <2> QED
    BY <2>1, <2>7 DEF i
<1>4. 0..(n - 1) \subseteq A
  <2> HIDE DEF A
  <2> QED
    BY <1>0, <1>2, <1>3, UpToInduction
<1>5. n - 1 \in 0..(n - 1) /\ (n - 1) + 1 = n
  BY <1>0
<1> QED
  BY <1>4, <1>5

\* The objects that are complete after i bytes and were not after a.
Completes(s, a, i) == /\ Len(s) = Done(i) - Done(a)
                     /\ \A j \in 1..Len(s) : s[j] = Done(a) + j

\* The parser, and the bytes, at the end of n bytes from the a-th.
Reached(q, a, i) == ~q.confused /\ q.at = At(i) /\ Completes(q.done, a, i)

From(s, a, n) == Len(s) = n /\ \A k \in 1..n : s[k] = Stream[a + k]

LEMMA FeedChunk ==
  ASSUME NEW p \in Parser, NEW a \in Nat, NEW n \in Nat, a + n <= Len(Stream),
         ~p.confused, p.at = At(a), p.done = <<>>, NEW s \in Seq(Byte), From(s, a, n)
  PROVE  Reached(FoldLeft(Feed, p, s), a, a + n)
<1> USE DEF From
<1>1. \E g \in [0..n -> Parser] :
        /\ g[0] = p /\ g[n] = FoldLeft(Feed, p, s)
        /\ \A k \in 1..n : g[k] = Feed(g[k - 1], s[k])
  <2>1. PICK g \in [0..Len(s) -> Parser] :
          /\ g[0] = p /\ g[Len(s)] = FoldLeft(Feed, p, s)
          /\ \A k \in 1..Len(s) : g[k] = Feed(g[k - 1], s[k])
    BY FeedFolds
  <2> QED
    BY <2>1
<1>2. PICK g \in [0..n -> Parser] :
      /\ g[0] = p /\ g[n] = FoldLeft(Feed, p, s)
      /\ \A k \in 1..n : g[k] = Feed(g[k - 1], s[k])
  BY <1>1
<1> DEFINE A == {m \in 0..n : /\ ~g[m].confused /\ g[m].at = At(a + m)
                              /\ Completes(g[m].done, a, a + m)}
<1>0. Len(Stream) \in Nat
  BY StreamBytes
<1>3. 0 \in A
  <2>1. a + 0 = a /\ Done(a) \in Nat
    BY <1>0, DoneGrows
  <2>2. Completes(p.done, a, a)
    BY <2>1 DEF Completes
  <2> QED
    BY <1>2, <2>1, <2>2
<1>4. ASSUME NEW m \in 0..(n - 1), m \in A PROVE m + 1 \in A
  <2> DEFINE i == a + (m + 1)
             q == g[m]
             r == g[m + 1]
  <2>1. /\ i \in 1..Len(Stream) /\ i - 1 = a + m /\ m + 1 \in 0..n /\ m + 1 \in 1..n
        /\ (m + 1) - 1 = m /\ m \in 0..n
    BY <1>0
  <2>2. q \in Parser /\ ~q.confused /\ q.at = At(i - 1) /\ Completes(q.done, a, i - 1)
    BY <1>2, <1>4, <2>1
  <2>3. r = Feed(q, Stream[i])
    BY <1>2, <2>1
  <2> HIDE DEF i, q, r
  <2>4. /\ ~r.confused /\ r.at = At(i)
        /\ r.done = IF Ends(i) THEN Append(q.done, Done(i)) ELSE q.done
    BY <2>1, <2>2, <2>3, FeedNext
  <2>5. /\ Ends(i) => Done(i) = Done(i - 1) + 1
        /\ ~Ends(i) => Done(i) = Done(i - 1)
        /\ Done(i - 1) \in Nat
    BY <2>1, DoneSteps
  <2>6. Done(a) \in Nat
    BY <1>0, DoneGrows
  <2>7. q.done \in Seq(Objects)
    BY <2>2 DEF Parser
  <2>8. Completes(r.done, a, i)
    <3> DEFINE d == q.done
    <3>1. Len(d) = Done(i - 1) - Done(a) /\ \A j \in 1..Len(d) : d[j] = Done(a) + j
      BY <2>2 DEF Completes
    <3>2. d \in Seq(Objects)
      BY <2>7
    <3> HIDE DEF d
    <3>3. CASE Ends(i)
      <4>1. r.done = Append(d, Done(i)) /\ Done(i) = Done(a) + (Len(d) + 1)
        <5>1. r.done = Append(d, Done(i))
          BY <2>4, <3>3 DEF d
        <5>2. Done(i) = Done(i - 1) + 1 /\ Len(d) = Done(i - 1) - Done(a)
          BY <2>5, <3>1, <3>3
        <5>3. Done(i) = Done(a) + (Len(d) + 1)
          BY <2>5, <2>6, <5>2
        <5> QED
          BY <5>1, <5>3
      <4>2. Len(Append(d, Done(i))) = Len(d) + 1 /\ Len(d) \in Nat
        BY <3>2
      <4>3. Len(r.done) = Done(i) - Done(a)
        BY <2>6, <4>1, <4>2
      <4>4. ASSUME NEW j \in 1..Len(r.done) PROVE r.done[j] = Done(a) + j
        <5>1. j \in 1..(Len(d) + 1)
          BY <4>1, <4>2
        <5>2. CASE j = Len(d) + 1
          BY <3>2, <4>1, <5>2
        <5>3. CASE j # Len(d) + 1
          <6>1. j \in 1..Len(d)
            BY <4>2, <5>1, <5>3
          <6> QED
            BY <3>1, <3>2, <4>1, <6>1
        <5> QED
          BY <5>2, <5>3
      <4> QED
        BY <4>3, <4>4 DEF Completes
    <3>4. CASE ~Ends(i)
      <4>1. r.done = d /\ Done(i) = Done(i - 1)
        BY <2>4, <2>5, <3>4 DEF d
      <4> QED
        BY <3>1, <4>1 DEF Completes
    <3> QED
      BY <3>3, <3>4
  <2> QED
    BY <2>1, <2>4, <2>8 DEF i, r
<1>5. 0..n \subseteq A
  <2> HIDE DEF A
  <2> QED
    BY <1>3, <1>4, UpToInduction
<1>6. n \in A
  <2> HIDE DEF A
  <2> QED
    BY <1>5
<1> QED
  BY <1>2, <1>6 DEF Reached

LEMMA CompleteIs ==
  ASSUME NEW n \in 0..Len(Stream)
  PROVE  Cardinality(Complete(n)) = Done(n)
<1> DEFINE A == {i \in 0..n : IsFiniteSet(Complete(i)) /\ Cardinality(Complete(i)) = Done(i)}
<1>0. Len(Stream) \in Nat /\ n \in Nat
  BY StreamBytes
<1>1. 0 \in A
  <2>1. Complete(0) = {} /\ Done(0) = 0
    BY DEF Complete, Done
  <2> QED
    BY <1>0, <2>1, FS_EmptySet
<1>2. ASSUME NEW m \in 0..(n - 1), m \in A PROVE m + 1 \in A
  <2> DEFINE i == m + 1
  <2>1. i \in 1..Len(Stream) /\ i - 1 = m /\ i \in 0..n
    BY <1>0
  <2>2. /\ Ends(i) => Done(i) = Done(m) + 1
        /\ ~Ends(i) => Done(i) = Done(m)
    BY <2>1, DoneSteps
  <2>3. IsFiniteSet(Complete(m)) /\ Cardinality(Complete(m)) = Done(m)
    BY <1>2
  <2>4. 1..i = (1..m) \cup {i} /\ i \notin 1..m
    OBVIOUS
  <2>5. i \notin Complete(m) /\ Complete(i) = IF Ends(i) THEN Complete(m) \cup {i} ELSE Complete(m)
    <3> HIDE DEF i
    <3> QED
      BY <2>4 DEF Complete, Ends
  <2>6. IsFiniteSet(Complete(i)) /\ Cardinality(Complete(i)) = Done(i)
    <3> HIDE DEF i
    <3>1. CASE Ends(i)
      <4>1. /\ IsFiniteSet(Complete(m) \cup {i})
            /\ Cardinality(Complete(m) \cup {i}) = Cardinality(Complete(m)) + 1
        BY <2>3, <2>5, FS_AddElement
      <4> QED
        BY <2>2, <2>3, <2>5, <3>1, <4>1
    <3>2. CASE ~Ends(i)
      BY <2>2, <2>3, <2>5, <3>2
    <3> QED
      BY <3>1, <3>2
  <2> QED
    BY <2>1, <2>6
<1>3. 0..n \subseteq A
  <2> HIDE DEF A
  <2> QED
    BY <1>0, <1>1, <1>2, UpToInduction
<1>4. n \in A
  <2> HIDE DEF A
  <2> QED
    BY <1>0, <1>3
<1> QED
  BY <1>4

(***************************************************************************)
(* The archive                                                             *)
(***************************************************************************)
Kept(s) == {i \in 1..Len(s) : /\ Kind[s[i]] = "entry"
                              /\ \A j \in i..Len(s) : Kind[s[j]] # "purge"}

Archived(db, s) == /\ Len(db) = Cardinality(Kept(s))
                   /\ \A i \in Kept(s) : db[Cardinality(Kept(s) \cap 1..i)] = s[i]

LEMMA KeptFinite ==
  ASSUME NEW s \in Seq(Objects), NEW i \in Nat
  PROVE  /\ IsFiniteSet(Kept(s)) /\ Cardinality(Kept(s)) \in Nat
         /\ Cardinality(Kept(s) \cap 1..i) \in 0..Cardinality(Kept(s))
         /\ i \in Kept(s) => Cardinality(Kept(s) \cap 1..i) > 0
<1>1. Kept(s) \in SUBSET (1..Len(s)) /\ Len(s) \in Nat
  BY DEF Kept
<1>2. IsFiniteSet(Kept(s))
  <2>1. IsFiniteSet(1..Len(s))
    BY <1>1, FS_Interval
  <2> QED
    BY <1>1, <2>1, FS_Subset
<1> DEFINE t == Kept(s) \cap 1..i
<1>3. /\ Cardinality(Kept(s)) \in Nat /\ IsFiniteSet(t) /\ Cardinality(t) \in Nat
      /\ Cardinality(t) <= Cardinality(Kept(s))
  <2>1. t \subseteq Kept(s)
    OBVIOUS
  <2> HIDE DEF t
  <2> QED
    BY <1>2, <2>1, FS_Subset, FS_CardinalityType
<1>4. ASSUME i \in Kept(s) PROVE Cardinality(t) > 0
  <2>1. i \in t
    BY <1>1, <1>4
  <2> HIDE DEF t
  <2>2. Cardinality(t) # 0
    BY <1>3, <2>1, FS_EmptySet
  <2> QED
    BY <1>3, <2>2
<1> QED
  BY <1>2, <1>3, <1>4

LEMMA KeepArchived ==
  ASSUME NEW db \in Seq(Objects), NEW s \in Seq(Objects), NEW o \in Objects, Archived(db, s)
  PROVE  Archived(Keep(db, o), Append(s, o))
<1> DEFINE n == Len(s)
           t == Append(s, o)
<1>1. /\ n \in Nat /\ t \in Seq(Objects) /\ Len(t) = n + 1 /\ t[n + 1] = o
      /\ \A i \in 1..n : t[i] = s[i]
  OBVIOUS
<1>2. Kind[o] \in {"entry", "reply", "purge"}
  BY KindAssumption DEF Objects
<1>3. Len(db) = Cardinality(Kept(s)) /\ \A i \in Kept(s) : db[Cardinality(Kept(s) \cap 1..i)] = s[i]
  BY DEF Archived
<1>4. IsFiniteSet(Kept(s)) /\ Len(db) \in Nat /\ Kept(s) \in SUBSET (1..n)
  <2>1. IsFiniteSet(Kept(s)) /\ Len(db) \in Nat
    <3>1. 0 \in Nat /\ Len(db) \in Nat
      OBVIOUS
    <3>2. IsFiniteSet(Kept(s))
      BY <3>1, KeptFinite
    <3> QED
      BY <3>1, <3>2
  <2>2. Kept(s) \in SUBSET (1..n)
    BY DEF Kept
  <2> QED
    BY <2>1, <2>2
<1> HIDE DEF n, t
<1>5. \A i \in 1..n : \A j \in i..(n + 1) : j = n + 1 \/ (j \in i..n /\ j \in 1..n)
  BY <1>1
<1>6. \A i \in 1..n : (\A j \in i..n : j \in i..(n + 1)) /\ i \in 1..(n + 1) /\ n + 1 \in i..(n + 1)
  BY <1>1
<1>7. CASE Kind[o] = "purge"
  <2>1. Keep(db, o) = <<>>
    BY <1>7 DEF Keep
  <2>2. Kept(t) = {}
    <3> SUFFICES ASSUME NEW i \in Kept(t) PROVE FALSE
      OBVIOUS
    <3>1. i \in 1..(n + 1) /\ \A j \in i..(n + 1) : Kind[t[j]] # "purge"
      BY <1>1 DEF Kept
    <3>2. n + 1 \in i..(n + 1)
      BY <1>1, <3>1
    <3> QED
      BY <1>1, <1>7, <3>1, <3>2
  <2>3. Cardinality(Kept(t)) = 0
    BY <2>2, FS_EmptySet
  <2>4. Archived(<<>>, t)
    BY <2>2, <2>3 DEF Archived
  <2> QED
    BY <2>1, <2>4 DEF t
<1>8. ASSUME Kind[o] # "purge", NEW i \in 1..n PROVE i \in Kept(t) <=> i \in Kept(s)
  <2>1. i \in Kept(s) <=> Kind[s[i]] = "entry" /\ \A j \in i..n : Kind[s[j]] # "purge"
    BY DEF Kept, n
  <2>2. i \in Kept(t) <=> Kind[t[i]] = "entry" /\ \A j \in i..(n + 1) : Kind[t[j]] # "purge"
    BY <1>1, <1>6 DEF Kept
  <2>3. t[i] = s[i]
    BY <1>1
  <2>4. (\A j \in i..(n + 1) : Kind[t[j]] # "purge") <=> (\A j \in i..n : Kind[s[j]] # "purge")
    <3>1. ASSUME NEW j \in i..n PROVE j \in 1..n /\ t[j] = s[j]
      <4>1. j \in 1..n
        BY <1>1
      <4> QED
        BY <1>1, <4>1
    <3>2. ASSUME \A j \in i..(n + 1) : Kind[t[j]] # "purge", NEW j \in i..n PROVE Kind[s[j]] # "purge"
      BY <1>6, <3>1, <3>2
    <3>3. ASSUME \A j \in i..n : Kind[s[j]] # "purge", NEW j \in i..(n + 1) PROVE Kind[t[j]] # "purge"
      BY <1>1, <1>5, <1>8, <3>1, <3>3
    <3> QED
      BY <3>2, <3>3
  <2> QED
    BY <2>1, <2>2, <2>3, <2>4
<1>9. CASE Kind[o] = "reply"
  <2>1. Keep(db, o) = db
    BY <1>9 DEF Keep
  <2>2. n + 1 \notin Kept(t)
    BY <1>1, <1>9 DEF Kept
  <2>3. Kept(t) \in SUBSET (1..(n + 1))
    BY <1>1 DEF Kept
  <2>4. \A i \in 1..(n + 1) : i = n + 1 \/ i \in 1..n
    BY <1>1
  <2>5. \A i \in 1..n : i \in Kept(t) <=> i \in Kept(s)
    BY <1>8, <1>9
  <2>6. Kept(t) = Kept(s)
    BY <1>4, <2>2, <2>3, <2>4, <2>5
  <2>7. \A i \in Kept(s) : t[i] = s[i]
    BY <1>1, <1>4
  <2>8. Archived(db, t)
    BY <1>3, <2>6, <2>7 DEF Archived
  <2> QED
    BY <2>1, <2>8 DEF t
<1>10. CASE Kind[o] = "entry"
  <2>1. Keep(db, o) = Append(db, o)
    BY <1>10 DEF Keep
  <2>2. n + 1 \in Kept(t)
    <3>1. PICK m \in Nat : m = n + 1
      BY <1>1
    <3>2. Kind[t[m]] = "entry" /\ Len(t) = m
      BY <1>1, <1>10, <3>1
    <3>3. m \in 1..m /\ \A j \in m..m : j = m
      BY <1>1, <3>1
    <3>4. \A j \in m..m : Kind[t[j]] # "purge"
      BY <3>2, <3>3
    <3>5. m \in Kept(t)
      BY <3>2, <3>3, <3>4 DEF Kept
    <3> QED
      BY <3>1, <3>5
  <2>3. Kept(t) \in SUBSET (1..(n + 1)) /\ n + 1 \notin Kept(s)
    <3>1. Kept(t) \in SUBSET (1..Len(t))
      BY DEF Kept
    <3>2. n + 1 \notin Kept(s)
      BY <1>1, <1>4
    <3> QED
      BY <1>1, <3>1, <3>2
  <2>4. \A i \in 1..(n + 1) : i = n + 1 \/ i \in 1..n
    BY <1>1
  <2>5. \A i \in 1..n : i \in Kept(t) <=> i \in Kept(s)
    BY <1>8, <1>10
  <2>6. Kept(t) = Kept(s) \cup {n + 1}
    BY <1>4, <2>2, <2>3, <2>4, <2>5
  <2>7. Cardinality(Kept(t)) = Len(db) + 1
    <3>1. Cardinality(Kept(s) \cup {n + 1}) = Cardinality(Kept(s)) + 1
      BY <1>4, <2>3, FS_AddElement
    <3> QED
      BY <1>3, <2>6, <3>1
  <2>8. Len(Append(db, o)) = Len(db) + 1 /\ Append(db, o)[Len(db) + 1] = o
    BY <1>4
  <2>9. ASSUME NEW i \in Kept(t) PROVE Append(db, o)[Cardinality(Kept(t) \cap 1..i)] = t[i]
    <3>1. CASE i = n + 1
      <4>1. Kept(t) \cap 1..i = Kept(t)
        BY <2>3, <3>1
      <4> QED
        BY <1>1, <2>7, <2>8, <3>1, <4>1
    <3>2. CASE i \in Kept(s)
      <4>1. i \in 1..n /\ n + 1 \notin 1..i
        BY <1>1, <1>4, <3>2
      <4>2. Kept(t) \cap 1..i = Kept(s) \cap 1..i
        BY <2>6, <4>1
      <4> DEFINE c == Cardinality(Kept(s) \cap 1..i)
      <4>3. c \in 0..Len(db) /\ c > 0
        BY <1>3, <3>2, <4>1, KeptFinite
      <4>4. db[c] = s[i] /\ t[i] = s[i]
        BY <1>1, <1>3, <3>2, <4>1
      <4> HIDE DEF c
      <4>5. Append(db, o)[c] = db[c]
        BY <1>4, <4>3
      <4> QED
        BY <4>2, <4>4, <4>5 DEF c
    <3> QED
      BY <2>6, <3>1, <3>2
  <2>10. Archived(Append(db, o), t)
    BY <2>7, <2>8, <2>9 DEF Archived
  <2> QED
    BY <2>1, <2>10 DEF t
<1> QED
  BY <1>2, <1>7, <1>9, <1>10

LEMMA KeepAllArchived ==
  ASSUME NEW db \in Seq(Objects), NEW s \in Seq(Objects), NEW d \in Seq(Objects), Archived(db, s)
  PROVE  FoldLeft(Keep, db, d) \in Seq(Objects) /\ Archived(FoldLeft(Keep, db, d), s \o d)
<1> DEFINE n == Len(d)
           So(k) == s \o SubSeq(d, 1, k)
<1>1. PICK g \in [0..n -> Seq(Objects)] :
        /\ g[0] = db /\ g[n] = FoldLeft(Keep, db, d)
        /\ \A k \in 1..n : g[k] = Keep(g[k - 1], d[k])
  BY KeepFolds
<1>2. n \in Nat
  OBVIOUS
<1>3. \A k \in 0..n : So(k) \in Seq(Objects)
  OBVIOUS
<1>4. \A k \in 0..(n - 1) : So(k + 1) = Append(So(k), d[k + 1]) /\ d[k + 1] \in Objects
  <2> SUFFICES ASSUME NEW k \in 0..(n - 1)
               PROVE  So(k + 1) = Append(So(k), d[k + 1]) /\ d[k + 1] \in Objects
    OBVIOUS
  <2>1. k + 1 \in 1..n /\ k \in 0..n /\ k \in Nat
    BY <1>2
  <2>2. SubSeq(d, 1, k + 1) = Append(SubSeq(d, 1, k), d[k + 1]) /\ SubSeq(d, 1, k) \in Seq(Objects)
    BY <2>1
  <2> QED
    BY <2>1, <2>2
<1>5. So(0) = s /\ So(n) = s \o d
  <2>1. SubSeq(d, 1, 0) = <<>> /\ SubSeq(d, 1, n) = d
    OBVIOUS
  <2>2. s \o <<>> = s
    OBVIOUS
  <2> QED
    BY <2>1, <2>2
<1> DEFINE A == {k \in 0..n : Archived(g[k], So(k))}
<1> HIDE DEF n, So
<1>6. 0 \in A
  BY <1>1, <1>2, <1>5
<1>7. ASSUME NEW k \in 0..(n - 1), k \in A PROVE k + 1 \in A
  <2>1. k + 1 \in 1..n /\ (k + 1) - 1 = k /\ k \in 0..n /\ k + 1 \in 0..n
    BY <1>2
  <2>2. g[k + 1] = Keep(g[k], d[k + 1]) /\ g[k] \in Seq(Objects)
    BY <1>1, <2>1
  <2>3. Archived(Keep(g[k], d[k + 1]), Append(So(k), d[k + 1]))
    BY <1>3, <1>4, <1>7, <2>1, <2>2, KeepArchived
  <2> QED
    BY <1>4, <2>1, <2>2, <2>3
<1>8. 0..n \subseteq A
  <2> HIDE DEF A
  <2> QED
    BY <1>2, <1>6, <1>7, UpToInduction
<1>9. n \in A /\ n \in 0..n
  BY <1>2, <1>8
<1> QED
  BY <1>1, <1>5, <1>9

(***************************************************************************)
(* The inductive invariant of the receiver.  Every read so far completed   *)
(* an object (Fresh); or one did not, and its bytes are in data and in the *)
(* parser as well (Held); or they were fed again and the parser has lost   *)
(* the thread (Lost).                                                      *)
(***************************************************************************)
Fresh == /\ ~confused /\ data = <<>> /\ at = At(arrived)
         /\ Len(published) = Done(arrived) /\ split = Len(Stream)

Held == /\ ~confused /\ split < arrived /\ Len(data) > 0 /\ data[1] = Stream[split + 1]
        /\ at \in Byte /\ data[1].off <= at.off
        /\ Len(published) = Done(split)

Lost == confused /\ split < arrived /\ Len(published) >= Done(split)

Inv == BridgeTypeOK /\ InSequence /\ Archived(archive, published) /\ (Fresh \/ Held \/ Lost)

LEMMA InvInit == BridgeInit => Inv
<1> SUFFICES ASSUME BridgeInit PROVE Inv
  OBVIOUS
<1>1. Len(Stream) \in Nat /\ Done(0) = 0 /\ At(0) = Between
  BY StreamBytes DEF Done, At
<1>2. BridgeTypeOK
  <2>1. \A S : <<>> \in Seq(S)
    OBVIOUS
  <2>2. 0 \in 0..Len(Stream) /\ Len(Stream) \in 0..Len(Stream)
    BY <1>1
  <2> QED
    BY <2>1, <2>2 DEF BridgeInit, BridgeTypeOK
<1>3. InSequence
  BY DEF BridgeInit, InSequence
<1>4. Archived(<<>>, <<>>)
  <2>1. Kept(<<>>) = {}
    BY DEF Kept
  <2>2. Cardinality(Kept(<<>>)) = 0
    BY <2>1, FS_EmptySet
  <2> QED
    BY <2>1, <2>2 DEF Archived
<1>5. Archived(archive, published)
  BY <1>4 DEF BridgeInit
<1>6. Fresh
  BY <1>1 DEF BridgeInit, Fresh
<1> QED
  BY <1>2, <1>3, <1>5, <1>6 DEF Inv

\* What a read of n bytes does, told in constants: p is the parser before, q
\* after it took the text.
LEMMA ReadIs ==
  ASSUME BridgeTypeOK, NEW n \in 1..MaxChunk, Receive(n)
  PROVE  \E text \in Seq(Byte), chunk \in Seq(Byte), p \in Parser :
           /\ Len(chunk) = n /\ n \in Nat /\ n > 0 /\ arrived + n <= Len(Stream)
           /\ \A k \in 1..n : chunk[k] = Stream[arrived + k]
           /\ text = data \o chunk
           /\ p = [at |-> at, done |-> <<>>, confused |-> confused]
           /\ at' = FoldLeft(Feed, p, text).at
           /\ confused' = FoldLeft(Feed, p, text).confused
           /\ data' = IF FoldLeft(Feed, p, text).done = <<>> THEN text ELSE <<>>
           /\ published' = published \o FoldLeft(Feed, p, text).done
           /\ archive' = FoldLeft(Keep, archive, FoldLeft(Feed, p, text).done)
           /\ arrived' = arrived + n
           /\ split' = IF split = Len(Stream) /\ \A k \in 1..n : ~Ends(arrived + k)
                       THEN arrived ELSE split
           /\ link' \in {"up", "down", "died"}
<1> DEFINE chunk == Chunk(n)
           text == data \o chunk
           p == [at |-> at, done |-> <<>>, confused |-> confused]
<1>1. arrived \in Nat /\ Len(Stream) \in Nat /\ n \in Nat /\ n > 0 /\ data \in Seq(Byte)
  BY StreamBytes DEF BridgeTypeOK
<1>2. arrived + n <= Len(Stream) /\ arrived' = arrived + n
  BY DEF Receive, Delivers
<1>3. chunk \in Seq(Byte) /\ Len(chunk) = n /\ \A k \in 1..n : chunk[k] = Stream[arrived + k]
  <2>1. Stream \in Seq(Byte) /\ chunk = SubSeq(Stream, arrived + 1, arrived + n)
    BY StreamBytes DEF Chunk
  <2>2. chunk \in Seq(Byte) /\ Len(chunk) = n
    BY <1>1, <1>2, <2>1
  <2>3. ASSUME NEW k \in 1..n PROVE chunk[k] = Stream[arrived + k]
    <3>1. k \in 1..((arrived + n) - (arrived + 1) + 1) /\ (arrived + 1) + k - 1 = arrived + k
      BY <1>1
    <3> QED
      BY <1>1, <1>2, <2>1, <3>1
  <2> QED
    BY <2>2, <2>3
<1>4. text \in Seq(Byte) /\ p \in Parser
  BY <1>1, <1>3 DEF BridgeTypeOK, Parser
<1>5. CompletesOne(n) <=> ~ \A k \in 1..n : ~Ends(arrived + k)
  BY <1>3 DEF CompletesOne, Ends
<1>6. split' = IF split = Len(Stream) /\ \A k \in 1..n : ~Ends(arrived + k)
               THEN arrived ELSE split
  BY <1>5 DEF Receive, Delivers
<1>7. ParseChunk(text) = FoldLeft(Feed, p, text)
  BY DEF ParseChunk
<1>8. /\ at' = ParseChunk(text).at
      /\ confused' = ParseChunk(text).confused
      /\ data' = IF ParseChunk(text).done = <<>> THEN text ELSE <<>>
      /\ published' = published \o ParseChunk(text).done
      /\ archive' = FoldLeft(Keep, archive, ParseChunk(text).done)
  BY DEF Receive
<1>9. link' \in {"up", "down", "died"}
  BY DEF Receive
<1> HIDE DEF chunk, text, p
<1> QED
  BY <1>1, <1>2, <1>3, <1>4, <1>6, <1>7, <1>8, <1>9 DEF text, p

LEMMA InSequenceGrows ==
  ASSUME NEW s \in Seq(Objects), NEW d \in Seq(Objects), s = [i \in 1..Len(s) |-> i],
         \A j \in 1..Len(d) : d[j] = Len(s) + j
  PROVE  s \o d = [i \in 1..Len(s \o d) |-> i]
<1> DEFINE t == s \o d
           n == Len(s)
           m == Len(d)
<1>1. n \in Nat /\ m \in Nat /\ t \in Seq(Objects) /\ Len(t) = n + m
  BY ConcatProperties
<1>2. ASSUME NEW i \in 1..(n + m) PROVE t[i] = i
  <2>1. CASE i <= n
    <3>1. i \in 1..n
      BY <1>1, <2>1
    <3>2. t[i] = s[i]
      BY <1>1, <2>1, ConcatProperties
    <3> QED
      BY <3>1, <3>2
  <2>2. CASE i > n
    <3>1. i - n \in 1..m /\ n + (i - n) = i
      BY <1>1, <2>2
    <3>2. t[i] = d[i - n]
      BY <1>1, <2>2, ConcatProperties
    <3>3. d[i - n] = n + (i - n)
      BY <3>1
    <3> QED
      BY <3>1, <3>2, <3>3
  <2> QED
    BY <1>1, <2>1, <2>2
<1> HIDE DEF t, n, m
<1>3. t = [i \in 1..Len(t) |-> i]
  <2>1. t = [i \in 1..Len(t) |-> t[i]]
    BY <1>1
  <2>2. \A i \in 1..Len(t) : t[i] = i
    BY <1>1, <1>2
  <2> QED
    BY <2>1, <2>2
<1> QED
  BY <1>3 DEF t

LEMMA InvReceive ==
  ASSUME Inv, NEW n \in 1..MaxChunk, Receive(n)
  PROVE  Inv'
<1>1. BridgeTypeOK /\ InSequence /\ Archived(archive, published)
  BY DEF Inv
<1>2. PICK text \in Seq(Byte), chunk \in Seq(Byte), p \in Parser :
        /\ Len(chunk) = n /\ n \in Nat /\ n > 0 /\ arrived + n <= Len(Stream)
        /\ \A k \in 1..n : chunk[k] = Stream[arrived + k]
        /\ text = data \o chunk
        /\ p = [at |-> at, done |-> <<>>, confused |-> confused]
        /\ at' = FoldLeft(Feed, p, text).at
        /\ confused' = FoldLeft(Feed, p, text).confused
        /\ data' = IF FoldLeft(Feed, p, text).done = <<>> THEN text ELSE <<>>
        /\ published' = published \o FoldLeft(Feed, p, text).done
        /\ archive' = FoldLeft(Keep, archive, FoldLeft(Feed, p, text).done)
        /\ arrived' = arrived + n
        /\ split' = IF split = Len(Stream) /\ \A k \in 1..n : ~Ends(arrived + k)
                    THEN arrived ELSE split
        /\ link' \in {"up", "down", "died"}
  BY <1>1, ReadIs
<1>3. PICK a : a = arrived
  OBVIOUS
<1>4. PICK sp : sp = split
  OBVIOUS
<1>5. PICK pb : pb = published
  OBVIOUS
<1>6. PICK db : db = archive
  OBVIOUS
<1>7. PICK dt : dt = data
  OBVIOUS
<1>8. PICK q : q = FoldLeft(Feed, p, text)
  OBVIOUS
<1> DEFINE none == \A k \in 1..n : ~Ends(a + k)
<1>9. /\ a \in Nat /\ n \in Nat /\ n > 0 /\ a + n <= Len(Stream) /\ Len(Stream) \in Nat
      /\ sp \in 0..Len(Stream) /\ dt \in Seq(Byte) /\ pb \in Seq(Objects) /\ db \in Seq(Objects)
  BY <1>1, <1>2, <1>3, <1>4, <1>5, <1>6, <1>7, StreamBytes DEF BridgeTypeOK, Objects
<1>10. /\ Len(chunk) = n /\ (\A k \in 1..n : chunk[k] = Stream[a + k]) /\ text = dt \o chunk
       /\ p.done = <<>> /\ p.at = at /\ p.confused = confused
  BY <1>2, <1>3, <1>7
<1>11. at' = q.at /\ confused' = q.confused /\ data' = (IF q.done = <<>> THEN text ELSE <<>>)
  BY <1>2, <1>8
<1>12. published' = pb \o q.done /\ archive' = FoldLeft(Keep, db, q.done) /\ arrived' = a + n
  BY <1>2, <1>3, <1>5, <1>6, <1>8
<1>13. split' = (IF sp = Len(Stream) /\ none THEN a ELSE sp)
  BY <1>2, <1>3, <1>4
<1>14. q \in Parser
  <2>1. PICK g \in [0..Len(text) -> Parser] :
          /\ g[0] = p /\ g[Len(text)] = FoldLeft(Feed, p, text)
          /\ \A k \in 1..Len(text) : g[k] = Feed(g[k - 1], text[k])
    BY FeedFolds
  <2>2. Len(text) \in 0..Len(text)
    OBVIOUS
  <2> QED
    BY <1>8, <2>1, <2>2
<1>15. q.done \in Seq(Objects) /\ q.at \in Byte \cup {Between} /\ q.confused \in BOOLEAN
  BY <1>14 DEF Parser
<1>16. FoldLeft(Keep, db, q.done) \in Seq(Objects) /\ Archived(FoldLeft(Keep, db, q.done), pb \o q.done)
  BY <1>1, <1>5, <1>6, <1>9, <1>15, KeepAllArchived
<1>17. Archived(archive, published)'
  BY <1>12, <1>16
<1>18. BridgeTypeOK'
  <2>1. arrived' \in 0..Len(Stream) /\ split' \in 0..Len(Stream)
    <3> HIDE DEF none
    <3> QED
      BY <1>9, <1>12, <1>13
  <2>2. data' \in Seq(Byte)
    BY <1>11
  <2>3. at' \in Byte \cup {Between} /\ confused' \in BOOLEAN
    BY <1>11, <1>15
  <2>4. published' \in Seq(Objects) /\ archive' \in Seq(Objects)
    BY <1>9, <1>12, <1>15, <1>16
  <2>5. link' \in {"up", "down", "died"}
    BY <1>2
  <2> QED
    BY <2>1, <2>2, <2>3, <2>4, <2>5 DEF BridgeTypeOK, Objects
<1>19. pb = [i \in 1..Len(pb) |-> i]
  BY <1>1, <1>5 DEF InSequence
<1>20. CASE Fresh
  <2>1. /\ ~p.confused /\ dt = <<>> /\ p.at = At(a) /\ Len(pb) = Done(a) /\ sp = Len(Stream)
    BY <1>3, <1>4, <1>5, <1>7, <1>10, <1>20 DEF Fresh
  <2>2. text = chunk
    BY <1>10, <2>1
  <2>3. ~q.confused /\ q.at = At(a + n) /\ Completes(q.done, a, a + n)
    <3>1. From(text, a, n)
      BY <1>10, <2>2 DEF From
    <3>2. Reached(FoldLeft(Feed, p, text), a, a + n)
      BY <1>9, <1>10, <2>1, <3>1, FeedChunk
    <3> QED
      BY <1>8, <3>2 DEF Reached
  <2>4. /\ Done(a) \in Nat /\ Done(a + n) \in Nat /\ Done(a) <= Done(a + n)
        /\ Done(a) = Done(a + n) <=> none
    BY <1>9, DoneGrows
  <2>5. /\ Len(q.done) = Done(a + n) - Done(a)
        /\ \A j \in 1..Len(q.done) : q.done[j] = Len(pb) + j
    BY <2>1, <2>3 DEF Completes
  <2>6. InSequence'
    <3>1. pb \o q.done = [i \in 1..Len(pb \o q.done) |-> i]
      BY <1>9, <1>15, <1>19, <2>5, InSequenceGrows
    <3> QED
      BY <1>12, <3>1 DEF InSequence
  <2>7. Len(pb \o q.done) = Done(a + n)
    <3>1. Len(pb \o q.done) = Len(pb) + Len(q.done)
      BY <1>9, <1>15, ConcatProperties
    <3> QED
      BY <2>1, <2>4, <2>5, <3>1
  <2>8. CASE none
    <3>1. q.done = <<>>
      BY <1>15, <2>4, <2>5, <2>8
    <3>2. data' = text /\ split' = a /\ arrived' = a + n
      <4> HIDE DEF none
      <4> QED
        BY <1>11, <1>12, <1>13, <2>1, <2>8, <3>1
    <3>3. a < a + n /\ a + n \in 1..Len(Stream) /\ a + n # 0 /\ n \in 1..n
      BY <1>9
    <3>4. at' = Stream[a + n] /\ Stream[a + n] \in Byte
      <4>1. ~Ends(a + n)
        BY <2>8, <3>3
      <4>2. At(a + n) = Stream[a + n]
        BY <3>3, <4>1 DEF At
      <4> QED
        BY <1>11, <2>3, <3>3, <4>2, StreamBytes
    <3>5. Len(text) > 0 /\ text[1] = Stream[a + 1]
      BY <1>9, <1>10, <2>2
    <3>6. Stream[a + 1].off <= Stream[a + n].off
      BY <1>9, <2>8, OffsetsGrow
    <3>7. Len(published') = Done(a)
      BY <1>12, <2>4, <2>7, <2>8
    <3>8. Held'
      <4> HIDE DEF none
      <4> QED
        BY <1>11, <2>3, <3>2, <3>3, <3>4, <3>5, <3>6, <3>7 DEF Held
    <3> QED
      BY <1>17, <1>18, <2>6, <3>8 DEF Inv
  <2>9. CASE ~none
    <3> HIDE DEF none
    <3>1. q.done # <<>>
      <4>1. Len(q.done) # 0
        BY <2>4, <2>5, <2>9
      <4> QED
        BY <4>1
    <3>2. data' = <<>> /\ split' = sp /\ arrived' = a + n
      BY <1>11, <1>12, <1>13, <2>9, <3>1
    <3>3. Fresh'
      BY <1>11, <1>12, <2>1, <2>3, <2>7, <3>2 DEF Fresh
    <3> QED
      BY <1>17, <1>18, <2>6, <3>3 DEF Inv
  <2> QED
    BY <2>8, <2>9
<1> HIDE DEF none
<1>21. ASSUME sp < a, q.done = <<>>, q.confused, Len(pb) >= Done(sp) PROVE Inv'
  <2>1. published' = pb
    BY <1>9, <1>12, <1>21
  <2>2. InSequence'
    BY <1>19, <2>1 DEF InSequence
  <2>3. split' = sp /\ arrived' = a + n /\ sp < a + n
    BY <1>9, <1>12, <1>13, <1>21
  <2>4. Lost'
    BY <1>11, <1>21, <2>1, <2>3 DEF Lost
  <2> QED
    BY <1>17, <1>18, <2>2, <2>4 DEF Inv
<1>22. CASE Held
  <2>1. /\ ~p.confused /\ sp < a /\ Len(dt) > 0
        /\ p.at \in Byte /\ dt[1].off <= p.at.off /\ Len(pb) = Done(sp)
    BY <1>3, <1>4, <1>5, <1>7, <1>10, <1>22 DEF Held
  <2> DEFINE r == [p EXCEPT !.confused = TRUE]
             b == text[1]
  <2>2. Len(text) > 0 /\ b = dt[1] /\ b \in Byte
    <3>1. Len(dt) \in Nat /\ Len(text) = Len(dt) + n
      <4>1. Len(dt \o chunk) = Len(dt) + Len(chunk)
        BY <1>9, ConcatProperties
      <4> QED
        BY <1>9, <1>10, <4>1
    <3>2. 1 \in 1..(Len(dt) + n) /\ 1 <= Len(dt) /\ 1 \in 1..Len(dt)
      BY <1>9, <2>1, <3>1
    <3>3. text[1] = dt[1]
      BY <1>9, <1>10, <3>2, ConcatProperties
    <3> QED
      BY <1>9, <3>1, <3>2, <3>3
  <2>3. r \in Parser /\ r.confused /\ r.done = <<>>
    BY <1>10 DEF Parser
  <2>4. Feed(p, b) = r
    <3>1. p.at.obj \in Objects /\ p.at.off \in Nat /\ b.off \in Nat
      BY <2>1, <2>2, ByteIs
    <3>2. p.at # Between
      BY <3>1 DEF Between, Objects
    <3>3. b.off # p.at.off + 1
      BY <2>1, <2>2, <3>1
    <3> HIDE DEF b
    <3> QED
      BY <2>1, <3>2, <3>3 DEF Feed
  <2>5. q = r
    <3> HIDE DEF r
    <3>1. FoldLeft(Feed, p, text) = (IF Len(text) = 0 THEN p ELSE r)
      BY <2>2, <2>3, <2>4, FeedStuck
    <3> QED
      BY <1>8, <2>2, <3>1
  <2>6. Len(pb) >= Done(sp)
    <3>1. Done(sp) \in Nat
      BY <1>9, DoneType, ByteIs
    <3> QED
      BY <2>1, <3>1
  <2> QED
    BY <1>21, <2>1, <2>3, <2>5, <2>6
<1>23. CASE Lost
  <2>1. p.confused /\ sp < a /\ Len(pb) >= Done(sp)
    BY <1>3, <1>4, <1>5, <1>10, <1>23 DEF Lost
  <2>2. FoldLeft(Feed, p, text) = (IF Len(text) = 0 THEN p ELSE p)
    BY <2>1, FeedStuck
  <2> QED
    BY <1>8, <1>10, <1>21, <2>1, <2>2
<1> QED
  BY <1>20, <1>22, <1>23 DEF Inv

LEMMA InvNext == Inv /\ [BridgeNext]_bridgeVars => Inv'
<1> SUFFICES ASSUME Inv, [BridgeNext]_bridgeVars PROVE Inv'
  OBVIOUS
<1>1. ASSUME NEW n \in 1..MaxChunk, Receive(n) PROVE Inv'
  BY <1>1, InvReceive
<1>2. ASSUME UNCHANGED <<arrived, data, at, confused, published, archive, split>>,
             link' \in {"up", "down", "died"}
      PROVE  Inv'
  BY <1>2 DEF Inv, BridgeTypeOK, InSequence, Fresh, Held, Lost
<1>3. CASE Unbind
  BY <1>2, <1>3 DEF Unbind
<1>4. CASE UNCHANGED bridgeVars
  BY <1>2, <1>4 DEF bridgeVars, Inv, BridgeTypeOK
<1> QED
  BY <1>1, <1>3, <1>4 DEF BridgeNext

LEMMA InvAlways == BridgeSpec => []Inv
BY InvInit, InvNext, PTL DEF BridgeSpec

(* The receiver's variables keep their types, for any objects and reads.   *)
THEOREM BridgeTypes == BridgeSpec => []BridgeTypeOK
<1>1. Inv => BridgeTypeOK
  BY DEF Inv
<1> QED
  BY <1>1, InvAlways, PTL

(* Whatever the objects and however reads split them, what is passed on is *)
(* a prefix of what grind sent, although bytes are fed twice.              *)
THEOREM PrefixPassedOn == BridgeSpec => []InSequence
<1>1. Inv => InSequence
  BY DEF Inv
<1> QED
  BY <1>1, InvAlways, PTL

(* The archive holds the entries since the last order to purge, whatever   *)
(* objects a read brings together.                                         *)
THEOREM ArchiveIsSincePurge == BridgeSpec => []SincePurge
<1>1. Inv => SincePurge
  BY DEF Inv, Archived, Kept, SincePurge
<1> QED
  BY <1>1, InvAlways, PTL

(* All that arrived complete before the first read that completes nothing  *)
(* is passed on.                                                           *)
THEOREM NothingHeldBack == BridgeSpec => []PassedOnUntilSplit
<1>1. Inv => PassedOnUntilSplit
  <2> SUFFICES ASSUME Inv PROVE PassedOnUntilSplit
    OBVIOUS
  <2>1. PICK i : i = IF arrived < split THEN arrived ELSE split
    OBVIOUS
  <2>2. arrived \in 0..Len(Stream) /\ split \in 0..Len(Stream) /\ Len(Stream) \in Nat
    BY StreamBytes DEF Inv, BridgeTypeOK
  <2>3. i \in 0..Len(Stream)
    BY <2>1, <2>2
  <2>4. Cardinality(Complete(i)) = Done(i) /\ Done(i) \in Nat
    BY <2>3, CompleteIs, DoneType, ByteIs
  <2>5. Len(published) >= Done(i)
    <3>1. CASE Fresh
      <4>1. i = arrived
        BY <2>1, <2>2, <3>1 DEF Fresh
      <4> QED
        BY <2>4, <3>1, <4>1 DEF Fresh
    <3>2. CASE Held \/ Lost
      <4>1. split < arrived
        BY <3>2 DEF Held, Lost
      <4>2. i = split
        BY <2>1, <2>2, <4>1
      <4> QED
        BY <2>4, <3>2, <4>2 DEF Held, Lost
    <3> QED
      BY <3>1, <3>2 DEF Inv
  <2> QED
    BY <2>1, <2>4, <2>5 DEF PassedOnUntilSplit
<1> QED
  BY <1>1, InvAlways, PTL

(***************************************************************************)
(* The process on the other end, as it stops                               *)
(***************************************************************************)
Stopping == {"conns", "feeders", "unlock", "io", "grind.stop", "lua_close", "offline"}
Online == {"spawn", "join", "done"}

(* How far the threads can be apart.  kernel::stop runs once, on a kernel  *)
(* that came online, and what it has done so far follows from where main   *)
(* is; the worker is gone only after the io_service was stopped.           *)
Stages ==
  /\ running => pcS \in Online
  /\ pcM \in Stopping => running
  /\ ioStopped => /\ pcM \in {"grind.stop", "lua_close", "offline", "cleanup", "join", "done"}
                  /\ pcS \in Online
  /\ pcM \in {"grind.stop", "lua_close", "offline"} => ioStopped
  /\ pcM = "offline" => lua = "closed"
  /\ pcM \in {"cleanup", "join"} /\ ioStopped => ~running /\ lua = "closed"
  /\ lua # "open" => ioStopped \/ pcS = "none"
  /\ pcM = "join" => feeders = "deleted"
  /\ pcM = "init" => pcS = "none" /\ lua = "open"
  /\ pcM = "done" => ~Alive
  /\ pcW # "none" => pcS \in {"join", "done"}
  /\ pcW = "done" => ioStopped
  /\ pcS = "done" => pcW = "done" \/ proc = "aborted"

(* The handler that was under way when the io_service stopped is the last. *)
LateCall == /\ late \subseteq {events}
            /\ late # {} => ioStopped
            /\ pcW \in {"lock", "lua", "send"} /\ lua # "open" => ioStopped

LInv == TypeOK /\ Stages /\ LateCall /\ CleanExit

LEMMA LInit == Init => LInv
<1> SUFFICES ASSUME Init PROVE LInv
  OBVIOUS
<1>1. TypeOK
  <2>0. 0 \in 0..MaxEvents /\ 0 \in 0..MaxSends
    BY EventAssumption
  <2>1. /\ events \in 0..MaxEvents /\ late \subseteq 0..MaxEvents
        /\ closing \in BOOLEAN /\ queued \in 0..MaxSends /\ ready \in 0..MaxSends
    BY <2>0, Zenon DEF Init
  <2>2. running \in BOOLEAN /\ ioStopped \in BOOLEAN /\ conns \subseteq {"watcher", "feeder"}
    BY DEF Init
  <2>3. (mtx = "worker" <=> pcW = "lua") /\ (connMtx = "main" <=> pcM = "unlock")
    BY DEF Init
  <2> QED
    BY <2>1, <2>2, <2>3 DEF Init, TypeOK
<1>2. Stages
  BY DEF Init, Stages, Stopping, Online, Alive
<1>3. LateCall /\ CleanExit
  BY DEF Init, LateCall, CleanExit
<1> QED
  BY <1>1, <1>2, <1>3 DEF LInv

LEMMA MainInv == LInv /\ (MainNext \/ Signal) => LInv'
<1> SUFFICES ASSUME LInv, MainNext \/ Signal PROVE LInv'
  OBVIOUS
<1> USE DEF LInv, TypeOK, Stages, Stopping, Online, LateCall, CleanExit, Alive, Main, locks, turns, watches
<1>1. CASE InitSucceeds BY <1>1 DEF InitSucceeds
<1>2. CASE InitFails BY <1>2 DEF InitFails
<1>3. CASE Signal BY <1>3 DEF Signal
<1>4. CASE CheckRunning BY <1>4 DEF CheckRunning
<1>5. CASE StopWatchers BY <1>5 DEF StopWatchers
<1>6. CASE LockFeeder BY <1>6 DEF LockFeeder
<1>7. CASE StopFeeder BY <1>7 DEF StopFeeder
<1>8. CASE StopService BY <1>8 DEF StopService
<1>9. CASE StopLua BY <1>9 DEF StopLua
<1>10. CASE CloseLua BY <1>10 DEF CloseLua
<1>11. CASE GoOffline
  <2>a. running' \in BOOLEAN /\ pcM' = "cleanup" /\ pcM = "offline"
    BY <1>11 DEF GoOffline
  <2>b. UNCHANGED <<pcS, pcW, job, ioStopped, locks, lua, feeders, watches, proc, events, late, turns>>
    BY <1>11 DEF GoOffline
  <2>1. TypeOK'
    BY <2>a, <2>b
  <2>2. Stages'
    BY <1>11 DEF GoOffline
  <2>3. LateCall' /\ CleanExit'
    BY <1>11 DEF GoOffline
  <2> QED
    BY <2>1, <2>2, <2>3
<1>12. CASE CleanupStops BY <1>12 DEF CleanupStops
<1>13. CASE DeleteFeeders BY <1>13 DEF DeleteFeeders
<1>14. CASE Join BY <1>14 DEF Join
<1> QED
  BY <1>1, <1>2, <1>3, <1>4, <1>5, <1>6, <1>7, <1>8, <1>9, <1>10, <1>11,
     <1>12, <1>13, <1>14 DEF MainNext, StopKernel

LEMMA StartInv == LInv /\ StartNext => LInv'
<1> SUFFICES ASSUME LInv, StartNext PROVE LInv'
  OBVIOUS
<1> USE DEF LInv, TypeOK, Stages, Stopping, Online, LateCall, CleanExit, Alive, Start, locks, turns, watches
<1>1. CASE Open BY <1>1 DEF Open
<1>2. CASE OpenFails BY <1>2 DEF OpenFails
<1>3. CASE GoOnline BY <1>3 DEF GoOnline
<1>4. CASE Spawn BY <1>4 DEF Spawn
<1>5. CASE JoinWorker BY <1>5 DEF JoinWorker
<1> QED
  BY <1>1, <1>2, <1>3, <1>4, <1>5 DEF StartNext

LEMMA TurnTaken ==
  ASSUME NEW q \in 0..MaxSends, NEW r \in 1..q
  PROVE  q - r \in 0..MaxSends /\ r \in 0..MaxSends
BY EventAssumption

LEMMA HandlerInv == LInv /\ Handler => LInv'
<1> SUFFICES ASSUME LInv, Handler PROVE LInv'
  OBVIOUS
<1> USE DEF LInv, TypeOK, Stages, Stopping, Online, LateCall, CleanExit, Alive, Work, locks, turns, watches
<1>1. CASE AcceptWatcher BY <1>1, EventAssumption DEF AcceptWatcher, Take
<1>2. CASE AcceptFeeder BY <1>2, EventAssumption DEF AcceptFeeder, Take
<1>3. CASE AbortedAccept BY <1>3 DEF AbortedAccept
<1>4. CASE ReadWatcher BY <1>4, EventAssumption DEF ReadWatcher, Take
<1>5. CASE EndWatcher BY <1>5, EventAssumption DEF EndWatcher, Take
<1>6. CASE DoClose
  <2>0. events' \in 0..MaxEvents /\ late' \subseteq 0..MaxEvents
    BY <1>6, EventAssumption DEF DoClose, Take
  <2>1. TypeOK'
    BY <1>6, <2>0 DEF DoClose, Take
  <2>2. Stages'
    BY <1>6 DEF DoClose, Take
  <2>3. LateCall' /\ CleanExit'
    BY <1>6, <2>0 DEF DoClose, Take
  <2> QED
    BY <2>1, <2>2, <2>3
<1>7. CASE StrandTurn
  <2>a. queued \in 0..MaxSends /\ ready' \in 1..queued /\ queued' = queued - ready'
    BY <1>7 DEF StrandTurn
  <2>b. queued' \in 0..MaxSends /\ ready' \in 0..MaxSends
    <3>1. PICK q, r : q = queued /\ r = ready'
      OBVIOUS
    <3>2. q \in 0..MaxSends /\ r \in 1..q
      BY <2>a, <3>1
    <3>3. q - r \in 0..MaxSends /\ r \in 0..MaxSends
      BY ONLY <3>2, TurnTaken
    <3> QED
      BY ONLY <2>a, <3>1, <3>3
  <2>c. events' \in 0..MaxEvents /\ late' \subseteq 0..MaxEvents
    BY <1>7, EventAssumption DEF StrandTurn, Take
  <2>0. events' \in 0..MaxEvents /\ late' \subseteq 0..MaxEvents /\ queued' \in 0..MaxSends /\ ready' \in 0..MaxSends
    BY <2>b, <2>c
  <2>d. pcW = "run" /\ pcW' = "send" /\ job' = "send"
    BY <1>7 DEF StrandTurn, Take
  <2>e. UNCHANGED <<pcM, pcS, running, ioStopped, mtx, connMtx, lua, feeders, conns, closing, proc>>
    BY <1>7 DEF StrandTurn, Take
  <2>1. TypeOK'
    BY <2>0, <2>d, <2>e
  <2>2. Stages'
    BY <1>7 DEF StrandTurn, Take
  <2>3. LateCall' /\ CleanExit'
    BY <1>7, <2>0 DEF StrandTurn, Take
  <2> QED
    BY <2>1, <2>2, <2>3
<1>8. CASE ReadFeeder BY <1>8, EventAssumption DEF ReadFeeder, Take
<1>9. CASE EndFeeder BY <1>9, EventAssumption DEF EndFeeder, Take
<1> QED
  BY <1>1, <1>2, <1>3, <1>4, <1>5, <1>6, <1>7, <1>8, <1>9 DEF Handler

LEMMA WorkInv == LInv /\ WorkNext => LInv'
<1> SUFFICES ASSUME LInv, WorkNext PROVE LInv'
  OBVIOUS
<1> USE DEF LInv, TypeOK, Stages, Stopping, Online, LateCall, CleanExit, Alive, Work, locks, turns, watches
<1>1. CASE CloseFeeder BY <1>1 DEF CloseFeeder, UseFeeder
<1>2. CASE Relay BY <1>2 DEF Relay, UseFeeder
<1>3. CASE DoSend BY <1>3, EventAssumption DEF DoSend, UseWatcher
<1>4. CASE DoSendFails BY <1>4, EventAssumption DEF DoSendFails, UseWatcher
<1>5. CASE TurnEnds BY <1>5 DEF TurnEnds
<1>6. CASE EnterLua BY <1>6 DEF EnterLua
<1>7. CASE LeaveLua BY <1>7, EventAssumption DEF LeaveLua, Outcomes
<1>8. CASE Return BY <1>8 DEF Return
<1> QED
  BY <1>1, <1>2, <1>3, <1>4, <1>5, <1>6, <1>7, <1>8 DEF WorkNext

LEMMA LNext == LInv /\ [Next]_vars => LInv'
<1>1. LInv /\ UNCHANGED vars => LInv'
  BY DEF LInv, TypeOK, Stages, Stopping, Online, LateCall, CleanExit, Alive, vars
<1> QED
  BY <1>1, MainInv, StartInv, HandlerInv, WorkInv DEF Next

(* The stages of the three threads and the mutexes they hold fit together. *)
THEOREM ShutdownTypeCorrect == Spec => []TypeOK
<1>1. LInv => TypeOK
  BY DEF LInv
<1> QED
  BY <1>1, LInit, LNext, PTL DEF Spec

(* However many handlers are pending, and however many sends fail in the   *)
(* turn of the strand under way, only the last handler taken calls into    *)
(* Lua after grind.stop: kernel::stop stops the io_service first.          *)
THEOREM LateCallsBounded == Spec => []LateCallsOfOneHandler
<1>1. LInv => LateCallsOfOneHandler
  BY DEF LInv, LateCall, LateCallsOfOneHandler
<1> QED
  BY <1>1, LInit, LNext, PTL DEF Spec

(* A process that returns from main leaves nothing behind.                 *)
THEOREM ExitIsClean == Spec => []CleanExit
<1>1. LInv => CleanExit
  BY DEF LInv
<1> QED
  BY <1>1, LInit, LNext, PTL DEF Spec
=============================================================================
