--------------------------- MODULE SplitterProofs ---------------------------
(***************************************************************************)
(* Theorems about Splitter, for every number of feeds, every sequence of   *)
(* message sizes, every length of the signature and every size of a read.  *)
(***************************************************************************)
EXTENDS Splitter, Induction

(***************************************************************************)
(* Signatures lists the matching positions                                 *)
(***************************************************************************)
Lists(s, text, n) == /\ s \in Seq(Nat)
                     /\ Increasing(s)
                     /\ Members(s) = {p \in 1..n : Matches(text, p)}

LEMMA ListsAppend ==
  ASSUME NEW text, NEW s, NEW n \in Nat, Lists(s, text, n), Matches(text, n + 1)
  PROVE  Lists(Append(s, n + 1), text, n + 1)
<1> DEFINE r == Append(s, n + 1)
<1>1. s \in Seq(Nat) /\ Increasing(s) /\ \A a \in 1..Len(s) : s[a] \in 1..n
  BY DEF Lists, Members
<1>2. /\ r \in Seq(Nat) /\ Len(r) = Len(s) + 1 /\ Len(s) \in Nat
      /\ \A a \in 1..Len(s) : r[a] = s[a]
      /\ r[Len(s) + 1] = n + 1
  BY <1>1, AppendProperties
<1>3. Increasing(r)
  <2> SUFFICES ASSUME NEW a \in 1..Len(r), NEW b \in 1..Len(r), a < b
               PROVE  r[a] < r[b]
    BY DEF Increasing
  <2>1. a \in 1..Len(s)
    BY <1>2
  <2>2. CASE b \in 1..Len(s)
    BY <1>1, <1>2, <2>1, <2>2 DEF Increasing
  <2>3. CASE b = Len(s) + 1
    <3>1. r[a] = s[a] /\ s[a] \in 1..n /\ r[b] = n + 1
      BY <1>1, <1>2, <2>1, <2>3
    <3> QED
      BY <3>1
  <2> QED
    BY <1>2, <2>2, <2>3
<1>4. Members(r) = Members(s) \cup {n + 1}
  <2> HIDE DEF r
  <2>1. 1..Len(r) = 1..Len(s) \cup {Len(s) + 1}
    BY <1>2
  <2> QED
    BY <1>2, <2>1 DEF Members
<1>5. {p \in 1..(n + 1) : Matches(text, p)} = {p \in 1..n : Matches(text, p)} \cup {n + 1}
  OBVIOUS
<1> QED
  BY <1>2, <1>3, <1>4, <1>5 DEF Lists

LEMMA ListsSkip ==
  ASSUME NEW text, NEW s, NEW n \in Nat, Lists(s, text, n), ~Matches(text, n + 1)
  PROVE  Lists(s, text, n + 1)
<1>1. {p \in 1..(n + 1) : Matches(text, p)} = {p \in 1..n : Matches(text, p)}
  OBVIOUS
<1> QED
  BY <1>1 DEF Lists

(* The finds stop at the matching positions, all of them and in order.     *)
LEMMA SignaturesList ==
  ASSUME NEW X, NEW text \in Seq(X)
  PROVE  Lists(Signatures(text), text, Len(text))
<1> DEFINE N == Len(text)
           St(i) == [x \in Seq(Nat) |-> IF Matches(text, i) THEN Append(x, i) ELSE x]
           step == [i \in Nat |-> St(i)]
           Body(h, i) == IF i = 0 THEN <<>>
                         ELSE IF Matches(text, i) THEN Append(h[i - 1], i) ELSE h[i - 1]
           Upto(h) == h = [i \in 0..Len(text) |-> Body(h, i)]
<1>1. N \in Nat /\ <<>> \in Seq(Nat)
  OBVIOUS
<1>2. step \in [Nat -> [Seq(Nat) -> Seq(Nat)]]
  <2>1. \A i \in Nat, x \in Seq(Nat) : Append(x, i) \in Seq(Nat)
    BY AppendProperties
  <2>2. ASSUME NEW i \in Nat PROVE St(i) \in [Seq(Nat) -> Seq(Nat)]
    BY <2>1
  <2> HIDE DEF St
  <2> QED
    BY <2>2
<1>3. PICK f \in [0..N -> Seq(Nat)] : Unfolds(f, <<>>, step, N)
  <2> HIDE DEF step, N
  <2>1. step \in Steps(Seq(Nat))
    BY <1>2 DEF Steps
  <2> QED
    BY <1>1, <2>1, FiniteRecursion
<1>4. Upto(f)
  <2>1. \A i \in 0..N : f[i] = Body(f, i)
    <3> USE DEF Unfolds
    <3> TAKE i \in 0..N
    <3>1. CASE i = 0
      BY <1>3, <3>1
    <3>2. CASE i # 0
      <4>1. i \in 1..N /\ i \in Nat /\ f[i - 1] \in Seq(Nat)
        BY <1>1, <1>3, <3>2
      <4>2. f[i] = St(i)[f[i - 1]]
        BY <1>3, <4>1
      <4> QED
        BY <3>2, <4>1, <4>2
    <3> QED
      BY <3>1, <3>2
  <2>2. f = [i \in 0..N |-> f[i]]
    BY <1>3
  <2> HIDE DEF Body
  <2> QED
    BY <1>1, <2>1, <2>2
<1> DEFINE g == CHOOSE h : Upto(h)
<1>5. Upto(g)
  <2> HIDE DEF Upto
  <2> QED
    BY <1>4
<1>6. Signatures(text) = g[N]
  BY Zenon DEF Signatures
<1> HIDE DEF g
<1>7. /\ g[0] = <<>>
      /\ \A i \in 1..N : g[i] = IF Matches(text, i) THEN Append(g[i - 1], i) ELSE g[i - 1]
  <2>1. \A i \in 0..N : g[i] = Body(g, i)
    <3> HIDE DEF Body
    <3> QED
      BY <1>5
  <2>2. 0 \in 0..N /\ \A i \in 1..N : i \in 0..N /\ i # 0
    BY <1>1
  <2> QED
    BY <2>1, <2>2
<1> HIDE DEF Upto, step, St
<1> DEFINE A == {i \in Nat : Lists(g[i], text, i)}
<1>8. 0 \in A
  <2> DEFINE e == g[0]
  <2>1. e \in Seq(Nat) /\ Len(e) = 0
    BY <1>7
  <2> HIDE DEF e
  <2>2. Lists(e, text, 0)
    BY <2>1 DEF Lists, Increasing, Members
  <2> QED
    BY <2>2 DEF e
<1>9. \A n \in 0..(N - 1) : n \in A => n + 1 \in A
  <2> SUFFICES ASSUME NEW n \in 0..(N - 1), Lists(g[n], text, n)
               PROVE  Lists(g[n + 1], text, n + 1)
    BY <1>1
  <2>1. n \in Nat /\ n + 1 \in 1..N /\ (n + 1) - 1 = n
    BY <1>1
  <2>2. g[n + 1] = IF Matches(text, n + 1) THEN Append(g[n], n + 1) ELSE g[n]
    BY <1>7, <2>1
  <2> QED
    BY <2>1, <2>2, ListsAppend, ListsSkip
<1>10. 0..N \subseteq A
  <2> HIDE DEF A, N
  <2> QED
    BY <1>1, <1>8, <1>9, UpToInduction
<1>11. N \in A
  BY <1>1, <1>10
<1> QED
  BY <1>6, <1>11

LEMMA ListsUnique ==
  ASSUME NEW text, NEW n, NEW s, NEW t, Lists(s, text, n), Lists(t, text, n)
  PROVE  s = t
  BY IncreasingUnique DEF Lists

(***************************************************************************)
(* Signatures of a prefix and of a tail                                    *)
(***************************************************************************)
LEMMA IncreasingAt ==
  ASSUME NEW b \in Seq(Nat), Increasing(b),
         NEW x \in 1..Len(b), NEW y \in 1..Len(b), x < y
  PROVE  b[x] < b[y] /\ b[x] \in Nat /\ b[y] \in Nat
  BY DEF Increasing

(* A piece of an increasing sequence is increasing, also when it is moved. *)
Moved(c, b, d, k) == \A i \in 1..Len(c) : c[i] = b[i + d] - k

LEMMA PieceIncreasing ==
  ASSUME NEW b \in Seq(Nat), Increasing(b), NEW d \in Nat, NEW k \in Nat,
         NEW c \in Seq(Nat), Len(c) + d <= Len(b), Moved(c, b, d, k)
  PROVE  Increasing(c)
<1> SUFFICES ASSUME NEW i \in 1..Len(c), NEW j \in 1..Len(c), i < j
             PROVE  c[i] < c[j]
  BY DEF Increasing
<1> DEFINE x == i + d
           y == j + d
<1>1. x \in 1..Len(b) /\ y \in 1..Len(b) /\ x < y
  OBVIOUS
<1>2. c[i] = b[x] - k /\ c[j] = b[y] - k
  BY DEF Moved
<1> HIDE DEF x, y
<1>3. b[x] < b[y] /\ b[x] \in Nat /\ b[y] \in Nat
  BY <1>1, IncreasingAt
<1>4. \A p, q \in Nat : p < q => p - k < q - k
  OBVIOUS
<1>5. b[x] - k < b[y] - k
  BY <1>3, <1>4
<1> QED
  BY <1>2, <1>5

(* Where an increasing sequence passes a bound.                            *)
LEMMA Passes ==
  ASSUME NEW b \in Seq(Nat), Increasing(b), NEW k \in Int
  PROVE  \E d \in 0..Len(b) : /\ \A i \in 1..d : b[i] <= k
                              /\ \A i \in (d + 1)..Len(b) : k < b[i]
<1> DEFINE S == {j \in 0..Len(b) : j = 0 \/ b[j] <= k}
<1>1. Len(b) \in Nat /\ S \in SUBSET (0..Len(b)) /\ 0 \in S
  OBVIOUS
<1>2. PICK d \in S : \A j \in S : j <= d
  <2> HIDE DEF S
  <2> QED
    BY <1>1, GreatestMember
<1>3. ASSUME NEW i \in 1..d PROVE b[i] <= k
  <2>1. d \in 1..Len(b) /\ b[d] <= k /\ i \in 1..Len(b) /\ b[i] \in Nat /\ b[d] \in Nat
    BY <1>1, <1>2
  <2>2. i = d \/ b[i] < b[d]
    BY <2>1, <1>3 DEF Increasing
  <2> QED
    BY <2>1, <2>2
<1>4. ASSUME NEW i \in (d + 1)..Len(b) PROVE k < b[i]
  <2>1. i \notin S /\ i \in 1..Len(b) /\ b[i] \in Nat
    BY <1>1, <1>2
  <2> QED
    BY <2>1
<1> QED
  BY <1>1, <1>3, <1>4

(* What matches in a text matches in a longer one, at the same position.   *)
LEMMA MatchesPrefix ==
  ASSUME NEW X, NEW text \in Seq(X), NEW more \in Seq(X), NEW i \in Nat \ {0}
  PROVE  Matches(text, i) <=>
           i + SigLen - 1 <= Len(text) /\ Matches(text \o more, i)
<1>1. SigLen \in Nat /\ SigLen > 1 /\ SigLen \in 1..SigLen
  BY SigAssumption
<1>2. /\ Len(text) \in Nat /\ Len(more) \in Nat
      /\ Len(text \o more) = Len(text) + Len(more)
      /\ \A n \in 1..Len(text) : (text \o more)[n] = text[n]
  BY ConcatProperties
<1>3. ASSUME Matches(text, i)
      PROVE  i + SigLen - 1 <= Len(text) /\ Matches(text \o more, i)
  <2>1. i + SigLen - 1 <= Len(text)
    BY <1>1, <1>3 DEF Matches
  <2>2. ASSUME NEW j \in 1..SigLen
        PROVE  i + j - 1 <= Len(text \o more) /\ (text \o more)[i + j - 1].off = j
    <3>1. i + j - 1 \in 1..Len(text)
      BY <1>1, <1>2, <2>1
    <3>2. text[i + j - 1].off = j
      BY <1>3 DEF Matches
    <3>3. (text \o more)[i + j - 1] = text[i + j - 1]
      BY <1>2, <3>1
    <3> QED
      BY <1>2, <3>1, <3>2, <3>3
  <2> QED
    BY <2>1, <2>2 DEF Matches
<1>4. ASSUME i + SigLen - 1 <= Len(text), Matches(text \o more, i)
      PROVE  Matches(text, i)
  <2>1. ASSUME NEW j \in 1..SigLen
        PROVE  i + j - 1 <= Len(text) /\ text[i + j - 1].off = j
    <3>1. i + j - 1 \in 1..Len(text)
      BY <1>1, <1>2, <1>4
    <3>2. (text \o more)[i + j - 1].off = j
      BY <1>4 DEF Matches
    <3>3. (text \o more)[i + j - 1] = text[i + j - 1]
      BY <1>2, <3>1
    <3> QED
      BY <1>2, <3>1, <3>2, <3>3
  <2> QED
    BY <2>1 DEF Matches
<1> QED
  BY <1>3, <1>4

LEMMA SubSeqType ==
  ASSUME NEW X, NEW s \in Seq(X), NEW lo \in Nat \ {0}, NEW hi \in 0..Len(s)
  PROVE  /\ SubSeq(s, lo, hi) \in Seq(X)
         /\ Len(SubSeq(s, lo, hi)) = IF lo <= hi THEN hi - lo + 1 ELSE 0
         /\ \A i \in 1..(hi - lo + 1) : SubSeq(s, lo, hi)[i] = s[lo + i - 1]
<1>1. \A i \in lo..hi : s[i] \in X
  OBVIOUS
<1>2. lo \in Int /\ hi \in Int
  OBVIOUS
<1> QED
  BY <1>1, <1>2, SubSeqProperties

(* The text from position k + 1 on.                                        *)
LEMMA TailType ==
  ASSUME NEW X, NEW s \in Seq(X), NEW k \in 0..Len(s)
  PROVE  /\ SubSeq(s, k + 1, Len(s)) \in Seq(X)
         /\ Len(SubSeq(s, k + 1, Len(s))) = Len(s) - k
         /\ \A i \in 1..(Len(s) - k) : SubSeq(s, k + 1, Len(s))[i] = s[i + k]
<1> DEFINE p == SubSeq(s, k + 1, Len(s))
<1>1. /\ p \in Seq(X) /\ Len(p) = (IF k + 1 <= Len(s) THEN Len(s) - (k + 1) + 1 ELSE 0)
      /\ \A i \in 1..(Len(s) - (k + 1) + 1) : p[i] = s[(k + 1) + i - 1]
  <2>1. k + 1 \in Nat \ {0} /\ Len(s) \in 0..Len(s)
    OBVIOUS
  <2> QED
    BY <2>1, SubSeqType
<1> HIDE DEF p
<1>2. Len(p) = Len(s) - k
  BY <1>1
<1>3. ASSUME NEW i \in 1..(Len(s) - k) PROVE p[i] = s[i + k]
  <2>1. i \in 1..(Len(s) - (k + 1) + 1) /\ (k + 1) + i - 1 = i + k
    OBVIOUS
  <2>2. p[i] = s[(k + 1) + i - 1]
    BY <1>1, <2>1
  <2> QED
    BY <2>1, <2>2
<1> QED
  BY <1>1, <1>2, <1>3 DEF p

(* What matches in a tail matches in the text, that much further on.       *)
LEMMA MatchesTail ==
  ASSUME NEW X, NEW text \in Seq(X), NEW k \in 0..Len(text), NEW i \in Nat \ {0}
  PROVE  Matches(SubSeq(text, k + 1, Len(text)), i) <=> Matches(text, i + k)
<1> DEFINE tail == SubSeq(text, k + 1, Len(text))
<1>1. /\ Len(text) \in Nat /\ k \in Nat
      /\ Len(tail) = Len(text) - k
      /\ \A n \in 1..(Len(text) - k) : tail[n] = text[n + k]
  BY TailType
<1> HIDE DEF tail
<1>2. SigLen \in Nat
  BY SigAssumption
<1>3. ASSUME NEW j \in 1..SigLen
      PROVE  (i + j - 1 <= Len(tail) /\ tail[i + j - 1].off = j) <=>
             (i + k + j - 1 <= Len(text) /\ text[i + k + j - 1].off = j)
  <2>1. i + j - 1 <= Len(tail) <=> i + k + j - 1 <= Len(text)
    BY <1>1, <1>2
  <2>2. CASE i + j - 1 <= Len(tail)
    <3>1. i + j - 1 \in 1..(Len(text) - k) /\ (i + j - 1) + k = i + k + j - 1
      BY <1>1, <1>2, <2>2
    <3>2. tail[i + j - 1] = text[i + k + j - 1]
      BY <1>1, <3>1
    <3> QED
      BY <2>1, <3>2
  <2> QED
    BY <2>1, <2>2
<1>4. Matches(tail, i) <=> Matches(text, i + k)
  BY <1>3 DEF Matches
<1> QED
  BY <1>4 DEF tail

LEMMA SignaturesType ==
  ASSUME NEW X, NEW text \in Seq(X)
  PROVE  /\ Signatures(text) \in Seq(Nat) /\ Len(Signatures(text)) \in Nat
         /\ Increasing(Signatures(text))
         /\ \A i \in 1..Len(Signatures(text)) :
              Signatures(text)[i] \in 1..Len(text) /\ Matches(text, Signatures(text)[i])
         /\ \A p \in 1..Len(text) : Matches(text, p) =>
              \E i \in 1..Len(Signatures(text)) : Signatures(text)[i] = p
<1> DEFINE m == Signatures(text)
<1>1. /\ m \in Seq(Nat) /\ Increasing(m)
      /\ {m[a] : a \in 1..Len(m)} = {p \in 1..Len(text) : Matches(text, p)}
  BY SignaturesList DEF Lists, Members
<1> HIDE DEF m
<1>2. /\ \A i \in 1..Len(m) : m[i] \in 1..Len(text) /\ Matches(text, m[i])
      /\ \A p \in 1..Len(text) : Matches(text, p) => \E i \in 1..Len(m) : m[i] = p
  BY <1>1
<1> QED
  BY <1>1, <1>2 DEF m

(* Text that arrives later adds signatures behind those that were there.   *)
LEMMA SignaturesPrefix ==
  ASSUME NEW X, NEW text \in Seq(X), NEW more \in Seq(X),
         NEW a, a = Signatures(text), NEW b, b = Signatures(text \o more)
  PROVE  /\ Len(a) <= Len(b)
         /\ \A i \in 1..Len(a) : a[i] = b[i]
<1>1. /\ text \o more \in Seq(X)
      /\ Len(text) \in Nat /\ Len(more) \in Nat
      /\ Len(text \o more) = Len(text) + Len(more)
  BY ConcatProperties
<1>2. /\ b \in Seq(Nat) /\ Len(b) \in Nat /\ Increasing(b)
      /\ \A i \in 1..Len(b) : b[i] \in 1..Len(text \o more) /\ Matches(text \o more, b[i])
      /\ \A p \in 1..Len(text \o more) : Matches(text \o more, p) =>
           \E i \in 1..Len(b) : b[i] = p
  BY <1>1, SignaturesType
<1>3. SigLen \in Nat /\ SigLen > 1
  BY SigAssumption
<1> DEFINE bound == Len(text) + 1 - SigLen
<1>4. PICK d \in 0..Len(b) : /\ \A i \in 1..d : b[i] <= bound
                             /\ \A i \in (d + 1)..Len(b) : bound < b[i]
  <2>1. bound \in Int
    BY <1>1, <1>3
  <2> HIDE DEF bound
  <2> QED
    BY <1>2, <2>1, Passes
<1> DEFINE c == [i \in 1..d |-> b[i]]
<1>5. \A i \in 1..d : i \in 1..Len(b) /\ b[i] \in Nat /\ b[i] = b[i + 0] - 0
  BY <1>2
<1>6. c \in [1..d -> Nat] /\ d \in Nat /\ d + 0 <= Len(b) /\ \A i \in 1..d : c[i] = b[i]
  BY <1>2, <1>5
<1> HIDE DEF c
<1>7. c \in Seq(Nat) /\ Len(c) = d /\ Increasing(c)
  <2>1. c \in Seq(Nat) /\ Len(c) = d
    BY <1>6, FunctionIsSeq
  <2>2. 0 \in Nat /\ Moved(c, b, 0, 0)
    BY <1>5, <1>6, <2>1 DEF Moved
  <2> QED
    BY <1>2, <1>6, <2>1, <2>2, PieceIncreasing
<1>8. Members(c) = {p \in 1..Len(text) : Matches(text, p)}
  <2> DEFINE P == {p \in 1..Len(text) : Matches(text, p)}
  <2>1. Members(c) = {c[i] : i \in 1..d}
    BY <1>7 DEF Members
  <2>2. ASSUME NEW i \in 1..d PROVE b[i] \in P
    <3>1. b[i] \in 1..Len(text) /\ b[i] + SigLen - 1 <= Len(text)
      BY <1>1, <1>2, <1>3, <1>4, <1>5
    <3>2. Matches(text, b[i])
      BY <1>2, <1>5, <3>1, MatchesPrefix
    <3> QED
      BY <3>1, <3>2
  <2>3. ASSUME NEW p \in P PROVE \E i \in 1..d : b[i] = p
    <3>1. p \in Nat \ {0} /\ Matches(text, p)
      OBVIOUS
    <3>2. p + SigLen - 1 <= Len(text) /\ Matches(text \o more, p)
      BY <3>1, MatchesPrefix
    <3>3. p \in 1..Len(text \o more) /\ p <= bound
      BY <1>1, <1>3, <3>1, <3>2
    <3>4. PICK i \in 1..Len(b) : b[i] = p
      BY <1>2, <3>2, <3>3
    <3>5. i \notin (d + 1)..Len(b)
      BY <1>3, <1>1, <1>4, <3>3, <3>4
    <3> QED
      BY <3>4, <3>5
  <2> HIDE DEF P
  <2>4. Members(c) = P
    BY <1>6, <2>1, <2>2, <2>3
  <2> QED
    BY <2>4 DEF P
<1>9. Lists(c, text, Len(text))
  BY <1>7, <1>8 DEF Lists
<1>10. a = c
  BY <1>9, SignaturesList, ListsUnique
<1> QED
  BY <1>2, <1>6, <1>7, <1>10

(* The signatures of a tail are those of the text that lie in it.          *)
TailFrom(t, b, k, d) == /\ Len(t) = Len(b) - d
                        /\ \A i \in 1..d : b[i] <= k
                        /\ \A i \in 1..Len(t) : k < b[i + d] /\ t[i] = b[i + d] - k

LEMMA SignaturesTail ==
  ASSUME NEW X, NEW text \in Seq(X), NEW k \in 0..Len(text),
         NEW t, t = Signatures(SubSeq(text, k + 1, Len(text))),
         NEW b, b = Signatures(text)
  PROVE  \E d \in 0..Len(b) : TailFrom(t, b, k, d)
<1> DEFINE tail == SubSeq(text, k + 1, Len(text))
<1>1. /\ tail \in Seq(X) /\ Len(text) \in Nat /\ k \in Nat
      /\ Len(tail) = Len(text) - k
  BY TailType
<1>2. \A i \in Nat \ {0} : Matches(tail, i) <=> Matches(text, i + k)
  BY MatchesTail
<1> HIDE DEF tail
<1>3. /\ b \in Seq(Nat) /\ Len(b) \in Nat /\ Increasing(b)
      /\ \A i \in 1..Len(b) : b[i] \in 1..Len(text) /\ Matches(text, b[i])
      /\ \A p \in 1..Len(text) : Matches(text, p) => \E i \in 1..Len(b) : b[i] = p
  BY SignaturesType
<1>4. PICK d \in 0..Len(b) : /\ \A i \in 1..d : b[i] <= k
                             /\ \A i \in (d + 1)..Len(b) : k < b[i]
  <2>1. k \in Int
    BY <1>1
  <2> QED
    BY <1>3, <2>1, Passes
<1> DEFINE n == Len(b) - d
           c == [i \in 1..n |-> b[i + d] - k]
<1>5. \A i \in 1..n : i + d \in (d + 1)..Len(b) /\ i + d \in 1..Len(b)
  BY <1>3
<1>6. \A i \in 1..n : b[i + d] \in Nat /\ k < b[i + d] /\ k <= b[i + d]
  BY <1>1, <1>3, <1>4, <1>5
<1>7. /\ c \in [1..n -> Nat] /\ n \in Nat /\ n + d <= Len(b)
      /\ \A i \in 1..n : c[i] = b[i + d] - k
  <2>1. \A i \in 1..n : b[i + d] - k \in Nat
    BY <1>1, <1>6
  <2>2. n \in Nat /\ n + d <= Len(b)
    BY <1>3
  <2> HIDE DEF n
  <2> QED
    BY <2>1, <2>2
<1> HIDE DEF c
<1>8. c \in Seq(Nat) /\ Len(c) = n /\ Increasing(c)
  <2> HIDE DEF n
  <2>1. c \in Seq(Nat) /\ Len(c) = n
    BY <1>7, FunctionIsSeq
  <2>2. d \in Nat /\ Moved(c, b, d, k)
    BY <1>7, <2>1 DEF Moved
  <2> QED
    BY <1>1, <1>3, <1>7, <2>1, <2>2, PieceIncreasing
<1>9. Members(c) = {p \in 1..Len(tail) : Matches(tail, p)}
  <2> DEFINE P == {p \in 1..Len(tail) : Matches(tail, p)}
  <2>1. ASSUME NEW i \in 1..n PROVE b[i + d] - k \in P
    <3>1. b[i + d] - k \in 1..Len(tail) /\ (b[i + d] - k) + k = b[i + d]
      <4> DEFINE q == b[i + d]
      <4>1. q \in 1..Len(text) /\ k < q
        BY <1>3, <1>5, <1>6
      <4> HIDE DEF q
      <4>2. q - k \in 1..Len(tail) /\ (q - k) + k = q
        BY <1>1, <4>1
      <4> QED
        BY <4>2 DEF q
    <3>2. Matches(text, b[i + d])
      BY <1>3, <1>5
    <3>3. b[i + d] - k \in Nat \ {0}
      BY <3>1
    <3>4. Matches(tail, b[i + d] - k) <=> Matches(text, (b[i + d] - k) + k)
      BY <1>2, <3>3
    <3> QED
      BY <3>1, <3>2, <3>4
  <2>2. ASSUME NEW p \in P PROVE \E i \in 1..n : b[i + d] - k = p
    <3>1. p \in 1..Len(tail) /\ p \in Nat \ {0} /\ Matches(tail, p)
      OBVIOUS
    <3>2. Matches(text, p + k) /\ p + k \in 1..Len(text) /\ k < p + k
      BY <1>1, <1>2, <3>1
    <3>3. PICK j \in 1..Len(b) : b[j] = p + k
      BY <1>3, <3>2
    <3>4. j \notin 1..d
      BY <1>1, <1>4, <3>2, <3>3
    <3>5. j - d \in 1..n /\ (j - d) + d = j
      BY <1>3, <3>4
    <3>6. b[(j - d) + d] - k = p
      BY <1>1, <3>1, <3>3, <3>5
    <3> QED
      BY <3>5, <3>6
  <2> HIDE DEF P, n
  <2>3. Members(c) = {c[i] : i \in 1..n}
    BY <1>8 DEF Members
  <2>4. \A i \in 1..n : c[i] \in P
    BY <1>7, <2>1
  <2>5. \A p \in P : \E i \in 1..n : c[i] = p
    BY <1>7, <2>2
  <2>6. Members(c) = P
    BY <2>3, <2>4, <2>5
  <2> QED
    BY <2>6 DEF P
<1>10. Lists(c, tail, Len(tail))
  <2> HIDE DEF n
  <2> QED
    BY <1>8, <1>9 DEF Lists
<1>11. t = c
  <2>1. t = Signatures(tail)
    BY DEF tail
  <2> QED
    BY <1>1, <1>10, <2>1, SignaturesList, ListsUnique
<1>12. TailFrom(c, b, k, d)
  BY <1>3, <1>4, <1>6, <1>7, <1>8 DEF TailFrom
<1> QED
  BY <1>11, <1>12
(***************************************************************************)
(* Pieces of sequences                                                     *)
(***************************************************************************)
(* Equal stretches of two sequences.                                       *)
LEMMA SameStretch ==
  ASSUME NEW X, NEW s \in Seq(X), NEW r \in Seq(X), NEW k \in Nat,
         NEW lo \in Nat \ {0}, NEW hi \in Nat, hi <= Len(s), hi + k <= Len(r),
         \A i \in lo..hi : s[i] = r[i + k]
  PROVE  SubSeq(s, lo, hi) = SubSeq(r, lo + k, hi + k)
<1> DEFINE p == SubSeq(s, lo, hi)
           q == SubSeq(r, lo + k, hi + k)
<1>1. /\ p \in Seq(X) /\ Len(p) = (IF lo <= hi THEN hi - lo + 1 ELSE 0)
      /\ \A i \in 1..(hi - lo + 1) : p[i] = s[lo + i - 1]
  <2>1. hi \in 0..Len(s)
    OBVIOUS
  <2> QED
    BY <2>1, SubSeqType
<1>2. /\ q \in Seq(X)
      /\ Len(q) = (IF lo + k <= hi + k THEN (hi + k) - (lo + k) + 1 ELSE 0)
      /\ \A i \in 1..((hi + k) - (lo + k) + 1) : q[i] = r[(lo + k) + i - 1]
  <2>1. lo + k \in Nat \ {0} /\ hi + k \in 0..Len(r)
    OBVIOUS
  <2> QED
    BY <2>1, SubSeqType
<1> HIDE DEF p, q
<1>3. Len(q) = Len(p) /\ (hi + k) - (lo + k) + 1 = hi - lo + 1
  BY <1>1, <1>2
<1>4. ASSUME NEW i \in 1..Len(p) PROVE p[i] = q[i]
  <2>1. i \in 1..(hi - lo + 1) /\ lo + i - 1 \in lo..hi
    BY <1>1
  <2>2. p[i] = s[lo + i - 1] /\ q[i] = r[(lo + k) + i - 1]
    BY <1>1, <1>2, <1>3, <2>1
  <2>3. s[lo + i - 1] = r[(lo + i - 1) + k] /\ (lo + i - 1) + k = (lo + k) + i - 1
    BY <2>1
  <2> QED
    BY <2>2, <2>3
<1>5. p = q
  BY <1>1, <1>2, <1>3, <1>4, SeqEqual
<1> QED
  BY <1>5 DEF p, q

(* A tail, with what comes behind it.                                      *)
LEMMA TailGrows ==
  ASSUME NEW X, NEW s \in Seq(X), NEW r \in Seq(X), NEW k \in 0..Len(s)
  PROVE  /\ s \o r \in Seq(X) /\ k \in 0..Len(s \o r)
         /\ SubSeq(s, k + 1, Len(s)) \o r = SubSeq(s \o r, k + 1, Len(s \o r))
<1> DEFINE p == SubSeq(s, k + 1, Len(s))
           w == s \o r
           q == SubSeq(w, k + 1, Len(w))
<1>1. /\ w \in Seq(X) /\ Len(w) = Len(s) + Len(r) /\ Len(s) \in Nat /\ Len(r) \in Nat
      /\ \A i \in 1..(Len(s) + Len(r)) : w[i] = IF i <= Len(s) THEN s[i] ELSE r[i - Len(s)]
  BY ConcatProperties
<1>2. /\ p \in Seq(X)
      /\ Len(p) = Len(s) - k
      /\ \A i \in 1..(Len(s) - k) : p[i] = s[i + k]
  BY TailType
<1> HIDE DEF w
<1>3. k \in 0..Len(w)
  BY <1>1
<1>4. /\ q \in Seq(X)
      /\ Len(q) = Len(w) - k
      /\ \A i \in 1..(Len(w) - k) : q[i] = w[i + k]
  BY <1>1, <1>3, TailType
<1> HIDE DEF p, q
<1>5. /\ p \o r \in Seq(X) /\ Len(p \o r) = Len(p) + Len(r)
      /\ \A i \in 1..(Len(p) + Len(r)) : (p \o r)[i] = IF i <= Len(p) THEN p[i] ELSE r[i - Len(p)]
  BY <1>2, ConcatProperties
<1>6. Len(p \o r) = Len(q)
  BY <1>1, <1>2, <1>4, <1>5
<1>7. ASSUME NEW i \in 1..Len(q) PROVE (p \o r)[i] = q[i]
  <2>1. q[i] = w[i + k] /\ i + k \in 1..(Len(s) + Len(r))
    BY <1>1, <1>4
  <2>2. CASE i <= Len(p)
    <3>1. i \in 1..(Len(s) - k) /\ i + k <= Len(s)
      BY <1>1, <1>2, <2>2
    <3>2. (p \o r)[i] = p[i]
      BY <1>5, <1>6, <2>2
    <3> QED
      BY <1>1, <1>2, <2>1, <3>1, <3>2
  <2>3. CASE ~(i <= Len(p))
    <3>1. ~(i + k <= Len(s)) /\ (i + k) - Len(s) = i - Len(p)
      BY <1>1, <1>2, <2>3
    <3>2. (p \o r)[i] = r[i - Len(p)]
      BY <1>5, <1>6, <2>3
    <3>3. w[i + k] = r[(i + k) - Len(s)]
      BY <1>1, <2>1, <3>1
    <3> QED
      BY <2>1, <3>1, <3>2, <3>3
  <2> QED
    BY <2>2, <2>3
<1>8. p \o r = q
  BY <1>4, <1>5, <1>6, <1>7, SeqEqual
<1> QED
  BY <1>1, <1>3, <1>8 DEF p, q, w

(***************************************************************************)
(* Entries                                                                 *)
(***************************************************************************)
NrSegments(m) == IF Len(m) = 0 THEN 0 ELSE Len(m) - 1

Entry(text, m, i) == SubSeq(text, m[i] + SigLen, m[i + 1] - 1)

LEMMA SegmentsType ==
  ASSUME NEW X, NEW text \in Seq(X), NEW m, m = Signatures(text)
  PROVE  /\ Segments(text) \in Seq(Seq(X))
         /\ Len(Segments(text)) = NrSegments(m)
         /\ \A i \in 1..NrSegments(m) : Segments(text)[i] = Entry(text, m, i)
<1> DEFINE n == NrSegments(m)
<1>1. /\ m \in Seq(Nat) /\ Len(m) \in Nat /\ Len(text) \in Nat
      /\ \A i \in 1..Len(m) : m[i] \in 1..Len(text)
  <2>1. Len(text) \in Nat
    OBVIOUS
  <2> QED
    BY <2>1, SignaturesType
<1>2. n \in Nat /\ \A i \in 1..n : i \in 1..Len(m) /\ i + 1 \in 1..Len(m)
  BY <1>1 DEF NrSegments
<1>3. ASSUME NEW i \in 1..n PROVE Entry(text, m, i) \in Seq(X)
  <2>1. m[i] + SigLen \in Nat \ {0} /\ m[i + 1] - 1 \in 0..Len(text)
    BY <1>1, <1>2, SigAssumption, SMTT(20)
  <2> QED
    BY <2>1, SubSeqType DEF Entry
<1>4. Segments(text) = [i \in 1..n |-> Entry(text, m, i)]
  BY DEF Segments, NrSegments, Entry
<1>5. Segments(text) \in [1..n -> Seq(X)] /\ \A i \in 1..n : Segments(text)[i] = Entry(text, m, i)
  <2> HIDE DEF n
  <2> QED
    BY <1>3, <1>4
<1>6. Segments(text) \in Seq(Seq(X)) /\ Len(Segments(text)) = n
  <2> HIDE DEF n
  <2> QED
    BY <1>2, <1>5, FunctionIsSeq
<1> QED
  BY <1>5, <1>6

(***************************************************************************)
(* One call                                                                *)
(***************************************************************************)
(* The consumed prefix ends before the last signature.                     *)
Short(m, k) == k = 0 \/ \E i \in 1..Len(m) : k < m[i]

(* What a call cuts out of w, of which the first entries in o were known   *)
(* before it, is a last piece s of the entries of w.                       *)
Continues(o, s, w) == \E d \in 0..Len(o) :
                        /\ Len(o) <= Len(w) /\ Len(w) = d + Len(s)
                        /\ \A i \in 1..Len(o) : o[i] = w[i]
                        /\ \A i \in 1..Len(s) : s[i] = w[i + d]

LEMMA PrefixEntries ==
  ASSUME NEW X, NEW text \in Seq(X), NEW more \in Seq(X),
         NEW o, o = Segments(text), NEW w, w = Segments(text \o more)
  PROVE  Len(o) <= Len(w) /\ \A i \in 1..Len(o) : o[i] = w[i]
<1> DEFINE a == Signatures(text)
           whole == text \o more
           b == Signatures(whole)
<1>1. /\ whole \in Seq(X) /\ Len(whole) = Len(text) + Len(more)
      /\ Len(text) \in Nat /\ Len(more) \in Nat
      /\ \A i \in 1..Len(text) : whole[i] = text[i]
  BY ConcatProperties
<1>2. Len(a) <= Len(b) /\ \A i \in 1..Len(a) : a[i] = b[i]
  BY SignaturesPrefix
<1> HIDE DEF whole
<1>3. /\ Len(a) \in Nat /\ Len(b) \in Nat
      /\ \A i \in 1..Len(a) : a[i] \in 1..Len(text)
  BY <1>1, SignaturesType
<1>4. /\ Len(o) = NrSegments(a)
      /\ \A i \in 1..NrSegments(a) : o[i] = Entry(text, a, i)
  BY SegmentsType
<1>5. /\ Len(w) = NrSegments(b)
      /\ \A i \in 1..NrSegments(b) : w[i] = Entry(whole, b, i)
  BY <1>1, SegmentsType DEF whole
<1> HIDE DEF a, b
<1>6. NrSegments(a) <= NrSegments(b) /\ NrSegments(a) \in Nat /\ NrSegments(b) \in Nat
  BY <1>2, <1>3 DEF NrSegments
<1>7. ASSUME NEW i \in 1..NrSegments(a) PROVE o[i] = w[i]
  <2>1. i \in 1..Len(a) /\ i + 1 \in 1..Len(a) /\ i \in 1..NrSegments(b)
    BY <1>3, <1>6 DEF NrSegments
  <2>2. a[i] \in 1..Len(text) /\ a[i + 1] \in 1..Len(text) /\ a[i] = b[i] /\ a[i + 1] = b[i + 1]
    BY <1>2, <1>3, <2>1
  <2> DEFINE lo == a[i] + SigLen
             hi == a[i + 1] - 1
  <2>3. /\ lo \in Nat \ {0} /\ hi \in Nat /\ 0 \in Nat
        /\ hi <= Len(text) /\ hi + 0 <= Len(whole)
        /\ lo + 0 = lo /\ hi + 0 = hi
    BY <1>1, <2>2, SigAssumption, SMTT(20)
  <2>4. o[i] = SubSeq(text, lo, hi) /\ w[i] = SubSeq(whole, lo, hi)
    BY <1>4, <1>5, <2>1, <2>2 DEF Entry
  <2> HIDE DEF lo, hi
  <2>5. \A n \in lo..hi : text[n] = whole[n + 0]
    <3> TAKE n \in lo..hi
    <3>1. n \in 1..Len(text) /\ n + 0 = n
      BY <2>3
    <3> QED
      BY <1>1, <3>1
  <2>6. SubSeq(text, lo, hi) = SubSeq(whole, lo + 0, hi + 0)
    BY <1>1, <2>3, <2>5, SameStretch
  <2> QED
    BY <2>3, <2>4, <2>6
<1> QED
  BY <1>4, <1>5, <1>6, <1>7

Aligned(s, e, d) == \A i \in 1..Len(s) : i + d \in 1..Len(e) /\ s[i] = e[i + d]

LEMMA TailEntries ==
  ASSUME NEW X, NEW text \in Seq(X), NEW k \in 0..Len(text),
         NEW tail, tail = SubSeq(text, k + 1, Len(text)),
         NEW t, t = Signatures(tail), NEW b, b = Signatures(text),
         NEW d \in 0..Len(b), TailFrom(t, b, k, d)
  PROVE  Aligned(Segments(tail), Segments(text), d)
<1>0. tail \in Seq(X)
  BY TailType
<1>1. /\ tail \in Seq(X) /\ Len(text) \in Nat /\ Len(tail) = Len(text) - k
      /\ \A i \in 1..(Len(text) - k) : tail[i] = text[i + k]
  BY TailType
<1>2. /\ Len(t) \in Nat /\ Len(b) \in Nat
      /\ \A i \in 1..Len(t) : t[i] \in 1..Len(tail)
  BY <1>1, SignaturesType
<1>3. /\ Len(t) = Len(b) - d
      /\ \A i \in 1..Len(t) : t[i] = b[i + d] - k
      /\ \A i \in 1..Len(b) : b[i] \in 1..Len(text)
  BY SignaturesType DEF TailFrom
<1>4. /\ Len(Segments(tail)) = NrSegments(t)
      /\ \A i \in 1..NrSegments(t) : Segments(tail)[i] = Entry(tail, t, i)
  BY <1>0, SegmentsType
<1>5. /\ Len(Segments(text)) = NrSegments(b)
      /\ \A i \in 1..NrSegments(b) : Segments(text)[i] = Entry(text, b, i)
  BY SegmentsType
<1>6. ASSUME NEW i \in 1..NrSegments(t)
      PROVE  /\ i + d \in 1..NrSegments(b)
             /\ Segments(tail)[i] = Segments(text)[i + d]
  <2>1. /\ i \in 1..Len(t) /\ i + 1 \in 1..Len(t)
        /\ i + d \in 1..NrSegments(b) /\ i + d \in 1..Len(b)
        /\ (i + d) + 1 \in 1..Len(b) /\ (i + 1) + d = (i + d) + 1
    BY <1>2, <1>3 DEF NrSegments
  <2> DEFINE j == i + d
             p == i + 1
             q == j + 1
             lo == t[i] + SigLen
             hi == t[p] - 1
  <2>2. t[i] = b[j] - k /\ t[p] = b[p + d] - k /\ p + d = q
    BY <1>3, <2>1
  <2>3. t[i] \in 1..Len(tail) /\ t[p] \in 1..Len(tail)
    BY <1>2, <2>1
  <2>4. b[j] \in 1..Len(text) /\ b[q] \in 1..Len(text)
    BY <1>3, <2>1
  <2>5. /\ Segments(tail)[i] = SubSeq(tail, lo, hi)
        /\ Segments(text)[j] = SubSeq(text, b[j] + SigLen, b[q] - 1)
    BY <1>4, <1>5, <2>1 DEF Entry
  <2> HIDE DEF j, p, q
  <2>6. \A x, y \in Nat : x = y - k => x + k = y
    OBVIOUS
  <2>7. t[i] + k = b[j] /\ t[p] + k = b[q]
    <3>1. t[i] \in Nat /\ t[p] \in Nat /\ b[j] \in Nat /\ b[q] \in Nat
      BY <1>1, <2>3, <2>4, SMTT(20)
    <3> QED
      BY <2>2, <2>6, <3>1, SMTT(20)
  <2>8. /\ lo \in Nat \ {0} /\ hi \in Nat /\ hi <= Len(tail) /\ hi + k <= Len(text)
        /\ lo + k = b[j] + SigLen /\ hi + k = b[q] - 1
    <3> DEFINE x == t[i]
               y == t[p]
    <3>1. x \in 1..Len(tail) /\ y \in 1..Len(tail) /\ b[j] = x + k /\ b[q] = y + k
      BY <2>3, <2>7
    <3> HIDE DEF x, y
    <3>2. /\ x + SigLen \in Nat \ {0} /\ y - 1 \in Nat /\ y - 1 <= Len(tail)
          /\ (y - 1) + k <= Len(text)
          /\ (x + SigLen) + k = (x + k) + SigLen /\ (y - 1) + k = (y + k) - 1
      BY <1>1, <3>1, SigAssumption
    <3> QED
      BY <3>1, <3>2 DEF x, y
  <2> HIDE DEF lo, hi
  <2>9. \A n \in lo..hi : tail[n] = text[n + k]
    <3> TAKE n \in lo..hi
    <3>1. n \in 1..(Len(text) - k)
      BY <1>1, <2>8
    <3> QED
      BY <1>1, <3>1
  <2>10. SubSeq(tail, lo, hi) = SubSeq(text, lo + k, hi + k)
    BY <1>1, <2>8, <2>9, SameStretch
  <2> QED
    BY <2>1, <2>5, <2>8, <2>10 DEF j
<1> QED
  BY <1>4, <1>5, <1>6 DEF Aligned

LEMMA CallContinues ==
  ASSUME NEW X, NEW text \in Seq(X), NEW more \in Seq(X), NEW k \in 0..Len(text),
         Short(Signatures(text), k)
  PROVE  Continues(Segments(text),
                   Segments(SubSeq(text \o more, k + 1, Len(text \o more))),
                   Segments(text \o more))
<1> DEFINE w == text \o more
           tail == SubSeq(w, k + 1, Len(w))
           a == Signatures(text)
           b == Signatures(w)
           t == Signatures(tail)
           o == Segments(text)
           s == Segments(tail)
           e == Segments(w)
<1>1. w \in Seq(X) /\ k \in 0..Len(w)
  BY TailGrows
<1>2. Len(a) <= Len(b) /\ \A i \in 1..Len(a) : a[i] = b[i]
  BY SignaturesPrefix
<1>3. Len(o) <= Len(e) /\ \A i \in 1..Len(o) : o[i] = e[i]
  BY PrefixEntries
<1> HIDE DEF w
<1>4. PICK d \in 0..Len(b) : TailFrom(t, b, k, d)
  BY <1>1, SignaturesTail
<1>5. Aligned(s, e, d)
  <2>1. tail = SubSeq(w, k + 1, Len(w)) /\ t = Signatures(tail) /\ b = Signatures(w)
    OBVIOUS
  <2> HIDE DEF tail, t, b
  <2> QED
    BY <1>1, <1>4, <2>1, TailEntries
<1>6. /\ tail \in Seq(X) /\ Len(a) \in Nat /\ Len(b) \in Nat
      /\ \A i \in 1..Len(b) : b[i] \in Nat \ {0}
      /\ \A i \in 1..Len(a) : a[i] \in Nat
  <2>1. /\ Len(a) \in Nat /\ \A i \in 1..Len(a) : a[i] \in 1..Len(text)
    BY SignaturesType
  <2>2. /\ Len(b) \in Nat /\ \A i \in 1..Len(b) : b[i] \in 1..Len(w)
    BY <1>1, SignaturesType
  <2>3. tail \in Seq(X)
    BY <1>1, TailType
  <2> HIDE DEF a, b, tail
  <2>4. Len(text) \in Nat /\ Len(w) \in Nat
    BY <1>1
  <2> QED
    BY <2>1, <2>2, <2>3, <2>4
<1>7. Len(o) = NrSegments(a) /\ Len(e) = NrSegments(b) /\ Len(s) = NrSegments(t)
  BY <1>1, <1>6, SegmentsType
<1>8. Short(a, k)
  OBVIOUS
<1> HIDE DEF a, b, t, o, s, e, tail
<1>9. /\ Len(t) = Len(b) - d
      /\ \A i \in 1..d : b[i] <= k
  BY <1>4 DEF TailFrom
<1>10. d <= NrSegments(a) /\ (d = Len(b) => d = 0)
  <2>1. CASE k = 0
    <3>1. d = 0
      <4> SUFFICES ASSUME d # 0 PROVE FALSE
        OBVIOUS
      <4>1. 1 \in 1..d /\ 1 \in 1..Len(b)
        BY <1>6
      <4> QED
        BY <1>6, <1>9, <2>1, <4>1
    <3> QED
      BY <1>6, <3>1 DEF NrSegments
  <2>2. CASE k # 0
    <3>1. PICK i \in 1..Len(a) : k < a[i]
      BY <1>8, <2>2 DEF Short
    <3>2. i \in 1..Len(b) /\ b[i] = a[i] /\ b[i] \in Nat
      BY <1>2, <1>6, <3>1
    <3>3. i \notin 1..d
      BY <1>9, <3>1, <3>2
    <3>4. d < i
      BY <3>1, <3>3
    <3> QED
      BY <1>2, <1>6, <3>1, <3>4 DEF NrSegments
  <2> QED
    BY <2>1, <2>2
<1>11. Len(e) = d + Len(s)
  BY <1>6, <1>7, <1>9, <1>10 DEF NrSegments
<1>12. d \in 0..Len(o)
  BY <1>7, <1>10
<1>13. Continues(o, s, e)
  BY <1>3, <1>5, <1>11, <1>12 DEF Continues, Aligned
<1> QED
  BY <1>13 DEF o, s, e, tail, w
(***************************************************************************)
(* What is left                                                            *)
(***************************************************************************)
Gaps(m) == {0} \cup {m[i + 1] - m[i] : i \in 1..(Len(m) - 1)} \cup
           {m[i] : i \in {1} \cap 1..Len(m)}

(* From any position the next signature is no further than a gap.          *)
LEMMA NextIsNear ==
  ASSUME NEW b \in Seq(Nat), NEW d \in 0..Len(b), d < Len(b), NEW k \in Nat,
         \A i \in 1..d : b[i] <= k
  PROVE  \E x \in Gaps(b) : b[1 + d] - k <= x
<1>1. 1 + d \in 1..Len(b) /\ b[1 + d] \in Nat
  OBVIOUS
<1>2. CASE d = 0
  <2>1. b[1 + d] \in Gaps(b)
    BY <1>1, <1>2 DEF Gaps
  <2> QED
    BY <1>1, <2>1
<1>3. CASE d # 0
  <2>1. d \in 1..(Len(b) - 1) /\ d \in 1..d /\ b[d] \in Nat /\ d + 1 = 1 + d
    BY <1>3
  <2>2. b[d + 1] - b[d] \in Gaps(b) /\ b[d] <= k
    BY <2>1 DEF Gaps
  <2>3. \A x, y \in Nat : y <= k => x - k <= x - y
    OBVIOUS
  <2>4. b[d + 1] - k <= b[d + 1] - b[d]
    BY <1>1, <2>1, <2>2, <2>3
  <2> QED
    BY <2>1, <2>2, <2>4
<1> QED
  BY <1>2, <1>3

StaleOf(m) == IF m = <<>> THEN 0 ELSE Last(m) - 1

(* What a call leaves is a tail of the whole text that still holds its     *)
(* last signature, if there was any, and before that no more than a gap.   *)
LEMMA CallKeeps ==
  ASSUME NEW X, NEW w \in Seq(X), NEW k \in 0..Len(w),
         NEW text, text = SubSeq(w, k + 1, Len(w)), NEW b, b = Signatures(w)
  PROVE  \E j \in 0..Len(w) :
           /\ LuaSub(text, Consumed(text)) = SubSeq(w, j + 1, Len(w))
           /\ j = k \/ \E i \in 1..Len(b) : j < b[i]
           /\ \E x \in Gaps(b) : StaleOf(Signatures(SubSeq(w, j + 1, Len(w)))) <= x
<1> DEFINE t == Signatures(text)
<1>1. text \in Seq(X)
  BY TailType
<1>2. /\ Len(text) \in Nat /\ Len(w) \in Nat /\ Len(text) = Len(w) - k
      /\ \A i \in 1..(Len(w) - k) : text[i] = w[i + k]
  BY TailType
<1>3. PICK d \in 0..Len(b) : TailFrom(t, b, k, d)
  BY SignaturesTail
<1>4. /\ t \in Seq(Nat) /\ Len(t) \in Nat /\ Increasing(t)
      /\ \A i \in 1..Len(t) : t[i] \in 1..Len(text)
  BY <1>1, SignaturesType
<1>5. b \in Seq(Nat) /\ Len(b) \in Nat
  BY SignaturesType
<1>6. /\ Len(t) = Len(b) - d /\ \A i \in 1..d : b[i] <= k
      /\ \A i \in 1..Len(t) : t[i] = b[i + d] - k
  BY <1>3 DEF TailFrom
<1>7. 0 \in Gaps(b)
  BY DEF Gaps
<1>8. Consumed(text) = IF Len(t) < 2 THEN 0 ELSE t[Len(t)] - t[1]
  BY DEF Consumed
<1>9. t = Signatures(text)
  OBVIOUS
<1> HIDE DEF t
<1>10. Len(t) # 0 => \E x \in Gaps(b) : t[1] <= x
  <2> SUFFICES ASSUME Len(t) # 0 PROVE \E x \in Gaps(b) : t[1] <= x
    OBVIOUS
  <2>1. d < Len(b) /\ 1 \in 1..Len(t) /\ k \in Nat
    BY <1>4, <1>5, <1>6, SMTT(20)
  <2>2. t[1] = b[1 + d] - k
    BY <1>6, <2>1
  <2>3. \E x \in Gaps(b) : b[1 + d] - k <= x
    BY <1>5, <1>6, <2>1, NextIsNear
  <2> QED
    BY <2>2, <2>3
<1>11. CASE Len(t) < 2
  <2>1. LuaSub(text, Consumed(text)) = text
    <3>1. SubSeq(text, 1, Len(text)) = text
      BY <1>1, SubSeqFull
    <3> QED
      BY <1>8, <1>11, <3>1 DEF LuaSub
  <2>2. \E x \in Gaps(b) : StaleOf(t) <= x
    <3>1. CASE t = <<>>
      BY <1>7, <3>1 DEF StaleOf
    <3>2. CASE t # <<>>
      <4>1. Len(t) = 1 /\ t[1] \in Nat
        <5>1. Len(t) # 0
          BY <1>4, <3>2, EmptySeq
        <5>2. \A x \in Nat : x < 2 /\ x # 0 => x = 1
          OBVIOUS
        <5>3. Len(t) \in Nat
          BY <1>4
        <5>4. Len(t) = 1
          BY <1>11, <5>1, <5>2, <5>3
        <5> QED
          BY <1>4, <5>4
      <4>2. StaleOf(t) = t[1] - 1
        BY <3>2, <4>1 DEF StaleOf, Last
      <4>3. PICK x \in Gaps(b) : t[1] <= x
        BY <1>10, <4>1
      <4>4. x \in Int
        BY <1>5 DEF Gaps
      <4>5. t[1] - 1 <= x
        BY <4>1, <4>3, <4>4
      <4> QED
        BY <4>2, <4>5
    <3> QED
      BY <3>1, <3>2
  <2> QED
    BY <1>9, <2>1, <2>2
<1>12. CASE ~(Len(t) < 2)
  <2> DEFINE n == Len(t)
             c == t[n] - t[1]
             j == k + c - 1
             kept == SubSeq(w, j + 1, Len(w))
             u == Signatures(kept)
  <2>1. 1 \in 1..Len(t) /\ n \in 1..Len(t) /\ 1 < n /\ n + d = Len(b)
    BY <1>4, <1>5, <1>6, <1>12, SMTT(20)
  <2>2. t[1] < t[n] /\ t[1] \in 1..Len(text) /\ t[n] \in 1..Len(text)
    BY <1>4, <2>1, IncreasingAt
  <2>3. /\ c \in Nat \ {0} /\ c <= Len(text) /\ Consumed(text) = c
        /\ j \in 0..Len(w) /\ j \in Nat /\ c + k = j + 1
    <3>1. Consumed(text) = c
      BY <1>8, <1>12
    <3> DEFINE p == t[1]
               q == t[n]
    <3>2. p \in 1..Len(text) /\ q \in 1..Len(text) /\ p < q /\ c = q - p
      BY <2>2
    <3> HIDE DEF p, q, n
    <3>3. c \in Nat \ {0} /\ c <= Len(text)
      BY <1>2, <3>2
    <3> HIDE DEF c
    <3>4. j \in 0..Len(w) /\ j \in Nat /\ c + k = j + 1
      BY <1>2, <3>3
    <3> QED
      BY <3>1, <3>3, <3>4
  <2>4. b[Len(b)] = k + t[n] /\ Len(b) \in 1..Len(b)
    <3>1. t[n] = b[n + d] - k
      BY <1>6, <2>1
    <3>2. Len(b) \in 1..Len(b) /\ b[Len(b)] \in Nat
      BY <1>5, <1>6, <2>1
    <3>3. \A x, y \in Nat : x = y - k => y = k + x
      OBVIOUS
    <3>4. t[n] = b[Len(b)] - k
      <4> HIDE DEF n
      <4> QED
        BY <2>1, <3>1
    <3>5. t[n] \in Nat
      BY <1>2, <2>2
    <3> HIDE DEF n
    <3> QED
      BY <3>2, <3>3, <3>4, <3>5
  <2> HIDE DEF n
  <2>5. b[Len(b)] - j = t[1] + 1 /\ j < b[Len(b)] /\ t[1] \in Nat
    <3>1. \A p, q \in Nat : /\ (k + q) - (k + (q - p) - 1) = p + 1
                            /\ k + (q - p) - 1 < k + q
      OBVIOUS
    <3>2. t[1] \in Nat /\ t[n] \in Nat
      BY <1>2, <2>2
    <3> QED
      BY <2>4, <3>1, <3>2
  <2> HIDE DEF c, j
  <2>6. LuaSub(text, Consumed(text)) = kept
    <3>1. Len(text) + k = Len(w) /\ Len(text) + k <= Len(w)
      BY <1>2
    <3>2. \A i \in c..Len(text) : text[i] = w[i + k]
      <4> TAKE i \in c..Len(text)
      <4>1. i \in 1..(Len(w) - k)
        BY <1>2, <2>3
      <4> QED
        BY <1>2, <4>1
    <3>3. k \in Nat /\ Len(text) <= Len(text)
      BY <1>2
    <3>4. SubSeq(text, c, Len(text)) = SubSeq(w, c + k, Len(text) + k)
      BY <1>1, <1>2, <2>3, <3>1, <3>2, <3>3, SameStretch
    <3>5. LuaSub(text, c) = SubSeq(text, c, Len(text))
      BY <2>3 DEF LuaSub
    <3> QED
      BY <2>3, <3>1, <3>4, <3>5
  <2>7. PICK e \in 0..Len(b) : TailFrom(u, b, j, e)
    BY <2>3, SignaturesTail
  <2>8. kept \in Seq(X)
    BY <2>3, TailType
  <2>9. u \in Seq(Nat) /\ Len(u) \in Nat
    BY <2>8, SignaturesType
  <2> HIDE DEF u
  <2>10. \E x \in Gaps(b) : StaleOf(u) <= x
    <3>1. CASE u = <<>>
      BY <1>7, <3>1 DEF StaleOf
    <3>2. CASE u # <<>>
      <4>1. Len(u) \in 1..Len(u) /\ Len(u) + e = Len(b)
        <5>1. Len(u) # 0
          BY <2>9, <3>2, EmptySeq
        <5>2. Len(u) = Len(b) - e
          BY <2>7 DEF TailFrom
        <5> QED
          BY <1>5, <2>9, <5>1, <5>2
      <4>2. u[Len(u)] = b[Len(u) + e] - j
        BY <2>7, <4>1 DEF TailFrom
      <4>3. StaleOf(u) = (t[1] + 1) - 1
        BY <2>5, <3>2, <4>1, <4>2 DEF StaleOf, Last
      <4>4. PICK x \in Gaps(b) : t[1] <= x
        BY <1>4, <1>10, <2>1
      <4> QED
        BY <2>5, <4>3, <4>4
    <3> QED
      BY <3>1, <3>2
  <2> QED
    BY <2>3, <2>4, <2>5, <2>6, <2>10 DEF kept, u
<1> QED
  BY <1>11, <1>12
(***************************************************************************)
(* Entries handed over                                                     *)
(***************************************************************************)
(* hs hands over the entries w: all of them, each behind its predecessor   *)
(* or behind one that comes later, and the last one last.                  *)
Route(at, hs, w) ==
  /\ at \in [0..Len(hs) -> 0..Len(w)]
  /\ at[0] = 0 /\ at[Len(hs)] = Len(w)
  /\ \A i \in 1..Len(hs) : /\ at[i] \in 1..Len(w) /\ w[at[i]] = hs[i]
                           /\ at[i] <= at[i - 1] + 1

HandsOver(hs, w) == /\ \E at : Route(at, hs, w)
                    /\ \A j \in 1..Len(w) : \E i \in 1..Len(hs) : hs[i] = w[j]

LEMMA HandsOverMore ==
  ASSUME NEW X, NEW hs \in Seq(X), NEW o \in Seq(X), NEW s \in Seq(X), NEW w \in Seq(X),
         HandsOver(hs, o), Continues(o, s, w)
  PROVE  HandsOver(hs \o s, w)
<1>1. PICK d \in 0..Len(o) : /\ Len(o) <= Len(w) /\ Len(w) = d + Len(s)
                             /\ \A i \in 1..Len(o) : o[i] = w[i]
                             /\ \A i \in 1..Len(s) : s[i] = w[i + d]
  BY DEF Continues
<1>2. PICK at : Route(at, hs, o)
  BY DEF HandsOver
<1> DEFINE r == hs \o s
           n == Len(hs)
           to == [i \in 0..Len(r) |-> IF i <= n THEN at[i] ELSE (i - n) + d]
<1>3. /\ r \in Seq(X) /\ Len(r) = n + Len(s)
      /\ \A i \in 1..(n + Len(s)) : r[i] = IF i <= n THEN hs[i] ELSE s[i - n]
  BY ConcatProperties
<1>4. n \in Nat /\ Len(s) \in Nat /\ Len(o) \in Nat /\ Len(w) \in Nat
  OBVIOUS
<1> HIDE DEF r, n
<1>5. /\ at \in [0..n -> 0..Len(o)]
      /\ at[0] = 0 /\ at[n] = Len(o)
      /\ \A i \in 1..n : /\ at[i] \in 1..Len(o) /\ o[at[i]] = hs[i]
                         /\ at[i] <= at[i - 1] + 1
  BY <1>2 DEF Route, n
<1>6. \A i \in 0..n : to[i] = at[i]
  BY <1>3, <1>4
<1>7. \A i \in (n + 1)..(n + Len(s)) : to[i] = (i - n) + d
  BY <1>3, <1>4
<1>8. to \in [0..Len(r) -> 0..Len(w)]
  <2>1. \A i \in 0..Len(r) : (IF i <= n THEN at[i] ELSE (i - n) + d) \in 0..Len(w)
    <3> TAKE i \in 0..Len(r)
    <3>1. CASE i <= n
      <4>1. at[i] \in 0..Len(o)
        BY <1>4, <1>5, <3>1
      <4> QED
        BY <1>1, <1>4, <3>1, <4>1
    <3>2. CASE ~(i <= n)
      BY <1>1, <1>3, <1>4, <3>2
    <3> QED
      BY <3>1, <3>2
  <2> QED
    BY <2>1
<1> HIDE DEF to
<1>9. to[0] = 0
  BY <1>4, <1>5, <1>6
<1>10. to[Len(r)] = Len(w)
  <2>1. CASE Len(s) = 0
    <3>1. to[n] = Len(o) /\ Len(r) = n /\ Len(w) = Len(o)
      BY <1>1, <1>3, <1>4, <1>5, <1>6, <2>1
    <3> QED
      BY <3>1
  <2>2. CASE Len(s) # 0
    <3>1. Len(r) \in (n + 1)..(n + Len(s)) /\ (Len(r) - n) + d = Len(w)
      BY <1>1, <1>3, <1>4, <2>2
    <3> QED
      BY <1>7, <3>1
  <2> QED
    BY <2>1, <2>2
<1>11. ASSUME NEW i \in 1..Len(r)
       PROVE  to[i] \in 1..Len(w) /\ w[to[i]] = r[i] /\ to[i] <= to[i - 1] + 1
  <2>1. CASE i <= n
    <3>1. i \in 1..n /\ i \in 0..n /\ i - 1 \in 0..n
      BY <1>3, <1>4, <2>1
    <3>2. to[i] = at[i] /\ to[i - 1] = at[i - 1] /\ r[i] = hs[i]
      BY <1>3, <1>6, <2>1, <3>1
    <3>3. at[i] \in 1..Len(o) /\ o[at[i]] = hs[i] /\ at[i] <= at[i - 1] + 1
      BY <1>5, <3>1
    <3>4. at[i] \in 1..Len(w) /\ w[at[i]] = o[at[i]]
      BY <1>1, <1>4, <3>3
    <3> QED
      BY <3>2, <3>3, <3>4
  <2>2. CASE i = n + 1
    <3>1. /\ i \in (n + 1)..(n + Len(s)) /\ i - n = 1 /\ n \in 0..n
          /\ 1 \in 1..Len(s) /\ i - 1 = n /\ ~(i <= n) /\ i \in 1..(n + Len(s))
      BY <1>3, <1>4, <2>2
    <3>2. to[i] = 1 + d /\ r[i] = s[1] /\ s[1] = w[1 + d]
      BY <1>1, <1>3, <1>7, <3>1
    <3>3. to[i - 1] = Len(o) /\ d <= Len(o) /\ 1 + d \in 1..Len(w)
      BY <1>1, <1>4, <1>5, <1>6, <3>1
    <3>4. 1 + d <= Len(o) + 1
      BY <1>4, <3>3
    <3> QED
      BY <3>2, <3>3, <3>4
  <2>3. CASE n + 1 < i
    <3>1. /\ i \in (n + 1)..(n + Len(s)) /\ i - 1 \in (n + 1)..(n + Len(s))
          /\ i - n \in 1..Len(s) /\ ~(i <= n) /\ i \in 1..(n + Len(s))
          /\ (i - n) + d \in 1..Len(w)
      BY <1>1, <1>3, <1>4, <2>3
    <3>2. to[i] = (i - n) + d /\ r[i] = s[i - n] /\ s[i - n] = w[(i - n) + d]
      BY <1>1, <1>3, <1>7, <3>1
    <3>3. to[i - 1] = ((i - 1) - n) + d
      BY <1>7, <3>1
    <3>4. (i - n) + d <= (((i - 1) - n) + d) + 1
      BY <1>4
    <3> QED
      BY <3>1, <3>2, <3>3, <3>4
  <2> QED
    BY <1>3, <1>4, <2>1, <2>2, <2>3
<1>12. Route(to, r, w)
  BY <1>8, <1>9, <1>10, <1>11 DEF Route
<1>13. ASSUME NEW j \in 1..Len(w) PROVE \E i \in 1..Len(r) : r[i] = w[j]
  <2>1. CASE j <= Len(o)
    <3>1. j \in 1..Len(o) /\ o[j] = w[j]
      BY <1>1, <1>4, <2>1
    <3>2. PICK i \in 1..n : hs[i] = o[j]
      BY <3>1 DEF HandsOver, n
    <3>3. i \in 1..Len(r) /\ r[i] = hs[i]
      BY <1>3, <1>4, <3>2
    <3> QED
      BY <3>1, <3>2, <3>3
  <2>2. CASE ~(j <= Len(o))
    <3> DEFINE i == j - d
    <3>1. i \in 1..Len(s) /\ i + d = j
      BY <1>1, <1>4, <2>2
    <3>2. n + i \in 1..Len(r) /\ ~(n + i <= n) /\ (n + i) - n = i /\ n + i \in 1..(n + Len(s))
      BY <1>3, <1>4, <3>1
    <3>3. r[n + i] = s[i] /\ s[i] = w[i + d]
      BY <1>1, <1>3, <3>1, <3>2
    <3> QED
      BY <3>1, <3>2, <3>3
  <2> QED
    BY <2>1, <2>2
<1>14. HandsOver(r, w)
  BY <1>12, <1>13 DEF HandsOver
<1> QED
  BY <1>14 DEF r

LEMMA HandsOverNothing == HandsOver(<<>>, <<>>)
<1> DEFINE at == [i \in 0..0 |-> 0]
<1>1. Route(at, <<>>, <<>>)
  BY DEF Route
<1> QED
  BY <1>1 DEF HandsOver
(***************************************************************************)
(* Types                                                                   *)
(***************************************************************************)
LEMMA FlattenType ==
  ASSUME NEW X, NEW ss \in Seq(Seq(X))
  PROVE  FlattenSeq(ss) \in Seq(X)
<1> DEFINE N == Len(ss)
           St(i) == [x \in Seq(X) |->
                       IF i \in 1..N THEN IF i = 1 THEN ss[i] ELSE x \o ss[i] ELSE x]
           step == [i \in Nat |-> St(i)]
           Body(h, i) == IF i = 1 THEN ss[i] ELSE h[i - 1] \o ss[i]
           Flat(h) == h = [i \in 1..Len(ss) |-> Body(h, i)]
<1>1. N \in Nat /\ <<>> \in Seq(X) /\ \A i \in 1..N : ss[i] \in Seq(X)
  OBVIOUS
<1>2. step \in Steps(Seq(X))
  <2>1. ASSUME NEW i \in Nat PROVE St(i) \in [Seq(X) -> Seq(X)]
    <3>1. \A x \in Seq(X) : i \in 1..N => x \o ss[i] \in Seq(X)
      BY <1>1, ConcatProperties
    <3> QED
      BY <1>1, <3>1
  <2> HIDE DEF St
  <2> QED
    BY <2>1 DEF Steps
<1>3. PICK f \in [0..N -> Seq(X)] : Unfolds(f, <<>>, step, N)
  <2> HIDE DEF step, N
  <2> QED
    BY <1>1, <1>2, FiniteRecursion
<1> DEFINE h0 == [i \in 1..N |-> f[i]]
<1>4. h0 \in [1..N -> Seq(X)] /\ \A i \in 1..N : h0[i] = f[i]
  BY <1>1, <1>3
<1>5. Flat(h0)
  <2>1. \A i \in 1..N : h0[i] = Body(h0, i)
    <3> TAKE i \in 1..N
    <3>1. i \in Nat /\ f[i - 1] \in Seq(X)
      <4> HIDE DEF N, St, step, Body, Flat, h0
      <4>1. i \in Nat /\ i - 1 \in 0..N
        BY <1>1
      <4> QED
        BY <4>1
    <3>2. f[i] = St(i)[f[i - 1]]
      <4>1. step[i] = St(i)
        BY <3>1
      <4> HIDE DEF step, St, N
      <4> QED
        BY <1>3, <4>1 DEF Unfolds
    <3>3. f[i] = IF i = 1 THEN ss[i] ELSE f[i - 1] \o ss[i]
      BY <3>1, <3>2
    <3>4. i # 1 => h0[i - 1] = f[i - 1]
      BY <1>1, <1>4
    <3> HIDE DEF h0
    <3> QED
      BY <1>4, <3>3, <3>4
  <2>2. h0 = [i \in 1..N |-> h0[i]]
    BY <1>4
  <2> HIDE DEF Body, h0
  <2> QED
    BY <1>1, <2>1, <2>2
<1> DEFINE g == CHOOSE h : Flat(h)
<1>6. Flat(g)
  <2> HIDE DEF Flat, h0
  <2> QED
    BY <1>5
<1>7. FlattenSeq(ss) = IF Len(ss) = 0 THEN ss ELSE g[Len(ss)]
  BY Zenon DEF FlattenSeq
<1> HIDE DEF g
<1>8. \A i \in 1..N : g[i] = Body(g, i)
  <2> HIDE DEF Body
  <2> QED
    BY <1>6
<1> HIDE DEF Flat, step, St, h0
<1> DEFINE A == {i \in Nat : i # 0 => g[i] \in Seq(X)}
<1>9. 0 \in A
  OBVIOUS
<1>10. \A n \in 0..(N - 1) : n \in A => n + 1 \in A
  <2> SUFFICES ASSUME NEW n \in 0..(N - 1), n # 0 => g[n] \in Seq(X)
               PROVE  g[n + 1] \in Seq(X)
    BY <1>1
  <2>1. n + 1 \in 1..N /\ (n + 1) - 1 = n /\ (n + 1 = 1 <=> n = 0)
    BY <1>1
  <2>2. g[n + 1] = IF n = 0 THEN ss[n + 1] ELSE g[n] \o ss[n + 1]
    BY <1>8, <2>1
  <2>3. ss[n + 1] \in Seq(X)
    BY <1>1, <2>1
  <2> QED
    BY <2>2, <2>3, ConcatProperties
<1>11. 0..N \subseteq A
  <2> HIDE DEF A, N
  <2> QED
    BY <1>1, <1>9, <1>10, UpToInduction
<1>12. CASE N = 0
  BY <1>7, <1>12, EmptySeq
<1>13. CASE N # 0
  <2>1. N \in A
    BY <1>1, <1>11
  <2> QED
    BY <1>7, <1>13, <2>1
<1> QED
  BY <1>12, <1>13

LEMMA StreamType ==
  ASSUME NEW c \in Feeds
  PROVE  Stream(c) \in Seq(Byte)
<1> DEFINE Bytes == [feed : Feeds, msg : Nat, off : Nat]
           ss == [n \in 1..Len(Sizes[c]) |-> Message(c, n)]
<1>1. Sizes[c] \in Seq(Nat \ {0})
  BY FeedAssumption
<1>2. ASSUME NEW n \in 1..Len(Sizes[c]) PROVE Message(c, n) \in Seq(Bytes)
  <2> DEFINE l == SigLen + Sizes[c][n]
  <2>1. Sizes[c][n] \in Nat
    BY <1>1
  <2>2. l \in Nat
    BY <2>1, SigAssumption
  <2>3. Message(c, n) = [o \in 1..l |-> [feed |-> c, msg |-> n, off |-> o]]
    BY DEF Message
  <2>4. \A o \in 1..l : [feed |-> c, msg |-> n, off |-> o] \in Bytes
    <3>1. n \in Nat
      BY <1>1
    <3> HIDE DEF l
    <3> QED
      BY <2>2, <3>1
  <2> HIDE DEF l, Bytes
  <2>5. Message(c, n) \in [1..l -> Bytes]
    BY <2>3, <2>4
  <2> QED
    BY <2>2, <2>5, FunctionIsSeq
<1>3. ss \in Seq(Seq(Bytes))
  <2>1. Len(Sizes[c]) \in Nat /\ ss \in [1..Len(Sizes[c]) -> Seq(Bytes)]
    <3> HIDE DEF Bytes
    <3> QED
      BY <1>1, <1>2
  <2> HIDE DEF ss, Bytes
  <2> QED
    BY <2>1, FunctionIsSeq
<1>4. Stream(c) \in Seq(Bytes)
  <2> HIDE DEF Bytes
  <2> QED
    BY <1>3, FlattenType DEF Stream
<1>5. \A i \in 1..Len(Stream(c)) : Stream(c)[i] \in Byte
  BY DEF Byte
<1>6. Len(Stream(c)) \in Nat /\ Stream(c) \in [1..Len(Stream(c)) -> Bytes]
  <2> HIDE DEF Bytes
  <2> QED
    BY <1>4
<1>7. Stream(c) \in [1..Len(Stream(c)) -> Byte]
  <2> HIDE DEF Bytes
  <2> QED
    BY <1>5, <1>6
<1> QED
  BY <1>6, <1>7, FunctionIsSeq
(***************************************************************************)
(* The invariant                                                           *)
(***************************************************************************)
(* The leftovers are a tail that begins before the last signature of what  *)
(* arrived, and what arrived before them was handed over.                  *)
Cut == /\ TypeOK
       /\ LeftoversAreTail
       /\ Short(Signatures(arrived), Len(arrived) - Len(leftovers))
       /\ HandsOver(handled, Segments(arrived))

LEMMA EmptySignatures == Signatures(<<>>) = <<>> /\ Segments(<<>>) = <<>>
<1>1. <<>> \in Seq(Byte) /\ Len(<<>>) = 0
  BY EmptySeq
<1>2. /\ Signatures(<<>>) \in Seq(Nat)
      /\ \A i \in 1..Len(Signatures(<<>>)) : Signatures(<<>>)[i] \in 1..Len(<<>>)
  BY <1>1, SignaturesType
<1>3. Signatures(<<>>) = <<>>
  <2> DEFINE m == Signatures(<<>>)
  <2>1. m \in Seq(Nat) /\ \A i \in 1..Len(m) : m[i] \in 1..0
    BY <1>1, <1>2
  <2> HIDE DEF m
  <2>2. Len(m) = 0
    <3> SUFFICES ASSUME Len(m) # 0 PROVE FALSE
      OBVIOUS
    <3>1. 1 \in 1..Len(m)
      BY <2>1
    <3> QED
      BY <2>1, <3>1
  <2>3. m = <<>>
    BY <2>1, <2>2, EmptySeq
  <2> QED
    BY <2>3 DEF m
<1>4. Segments(<<>>) \in Seq(Seq(Byte)) /\ Len(Segments(<<>>)) = 0
  BY <1>1, <1>3, SegmentsType DEF NrSegments
<1> QED
  BY <1>3, <1>4, EmptySeq

LEMMA GapsMax ==
  ASSUME NEW X, NEW text \in Seq(X), NEW m, m = Signatures(text)
  PROVE  Max(Gaps(m)) \in Gaps(m) /\ \A x \in Gaps(m) : Max(Gaps(m)) >= x
<1> DEFINE N == Len(text)
<1>1. N \in Nat /\ m \in Seq(Nat) /\ Increasing(m) /\ \A i \in 1..Len(m) : m[i] \in 1..N
  BY SignaturesType
<1> HIDE DEF N
<1>2. ASSUME NEW i \in 1..(Len(m) - 1) PROVE m[i + 1] - m[i] \in 0..N
  <2>1. i \in 1..Len(m) /\ i + 1 \in 1..Len(m) /\ i < i + 1
    BY <1>1
  <2>2. m[i] < m[i + 1]
    BY <1>1, <2>1, IncreasingAt
  <2>3. m[i] \in 1..N /\ m[i + 1] \in 1..N
    BY <1>1, <2>1
  <2> QED
    BY <1>1, <2>2, <2>3
<1>3. \A i \in {1} \cap 1..Len(m) : m[i] \in 0..N
  BY <1>1
<1>4. Gaps(m) \in SUBSET (0..N) /\ Gaps(m) # {}
  BY <1>1, <1>2, <1>3 DEF Gaps
<1>5. \E x \in Gaps(m) : \A y \in Gaps(m) : y <= x
  BY <1>1, <1>4, GreatestMember
<1>6. \A x, y \in 0..N : y <= x => x >= y
  BY <1>1
<1>7. \E x \in Gaps(m) : \A y \in Gaps(m) : x >= y
  BY <1>4, <1>5, <1>6
<1> QED
  BY <1>7 DEF Max

LEMMA InitCut == Init => Cut /\ StaleBounded
<1> SUFFICES ASSUME Init PROVE Cut /\ StaleBounded
  OBVIOUS
<1>1. arrived = <<>> /\ leftovers = <<>> /\ handled = <<>> /\ sent = [c \in Feeds |-> 0]
  BY DEF Init
<1>2. Len(<<>>) = 0 /\ <<>> \in Seq(Byte) /\ <<>> \in Seq(Seq(Byte))
  BY EmptySeq
<1>3. TypeOK
  BY <1>1, <1>2 DEF TypeOK
<1>4. LeftoversAreTail
  <2>1. SubSeq(<<>>, 1, 0) = <<>>
    BY SubSeqEmpty
  <2> QED
    BY <1>1, <1>2, <2>1 DEF LeftoversAreTail, LuaSub
<1>5. Short(Signatures(arrived), Len(arrived) - Len(leftovers))
  BY <1>1, <1>2 DEF Short
<1>6. HandsOver(handled, Segments(arrived))
  BY <1>1, EmptySignatures, HandsOverNothing
<1>7. StaleBounded
  <2>1. Stale = 0 /\ Signatures(arrived) = <<>>
    BY <1>1, EmptySignatures DEF Stale
  <2>2. LongestGap = Max(Gaps(Signatures(arrived)))
    BY DEF LongestGap, Gaps
  <2>3. 0 \in Gaps(Signatures(arrived))
    BY DEF Gaps
  <2>4. Max(Gaps(Signatures(arrived))) >= 0
    BY <1>3, <2>3, GapsMax DEF TypeOK
  <2>5. Max(Gaps(Signatures(arrived))) = Max(Gaps(<<>>)) /\ Gaps(<<>>) = {0}
    BY <1>2, <2>1 DEF Gaps
  <2>6. Max(Gaps(Signatures(arrived))) = 0
    BY <1>3, <2>1, <2>5, GapsMax DEF TypeOK
  <2> QED
    BY <2>1, <2>2, <2>6 DEF StaleBounded
<1> QED
  BY <1>3, <1>4, <1>5, <1>6, <1>7 DEF Cut

LEMMA ChunkType ==
  ASSUME TypeOK, NEW c \in Feeds, NEW n \in 1..MaxChunk, sent[c] + n <= Len(Stream(c))
  PROVE  Chunk(c, n) \in Seq(Byte)
<1>1. Stream(c) \in Seq(Byte) /\ sent[c] \in Nat /\ n \in Nat
  BY StreamType, ChunkAssumption DEF TypeOK
<1>2. sent[c] + 1 \in Nat \ {0} /\ sent[c] + n \in 0..Len(Stream(c))
  BY <1>1
<1> QED
  BY <1>1, <1>2, SubSeqType DEF Chunk

LEMMA ReceiveCut ==
  ASSUME Cut, NEW c \in Feeds, NEW n \in 1..MaxChunk, Receive(c, n)
  PROVE  Cut' /\ StaleBounded'
<1> DEFINE ch == Chunk(c, n)
           k == Len(arrived) - Len(leftovers)
           w == arrived \o ch
           text == leftovers \o ch
<1>1. /\ sent[c] + n <= Len(Stream(c))
      /\ arrived' = w /\ sent' = [sent EXCEPT ![c] = @ + n]
      /\ handled' = handled \o Segments(text)
      /\ leftovers' = LuaSub(text, Consumed(text))
  BY DEF Receive, Arrives
<1>2. /\ arrived \in Seq(Byte) /\ leftovers \in Seq(Byte) /\ handled \in Seq(Seq(Byte))
      /\ sent \in [Feeds -> Nat]
  BY DEF Cut, TypeOK
<1>3. ch \in Seq(Byte)
  BY <1>1, ChunkType DEF Cut
<1>4. k \in 0..Len(arrived) /\ leftovers = SubSeq(arrived, k + 1, Len(arrived))
  <2>1. Len(arrived) \in Nat /\ Len(leftovers) \in Nat /\ Len(leftovers) <= Len(arrived)
    BY <1>2 DEF Cut, LeftoversAreTail
  <2>2. leftovers = LuaSub(arrived, k + 1)
    BY DEF Cut, LeftoversAreTail
  <2>3. k \in 0..Len(arrived)
    BY <2>1
  <2> HIDE DEF k
  <2>4. k + 1 # 0
    BY <2>1, <2>3
  <2>5. LuaSub(arrived, k + 1) = SubSeq(arrived, k + 1, Len(arrived))
    BY <2>4 DEF LuaSub
  <2> QED
    BY <2>2, <2>3, <2>5
<1>5. /\ Short(Signatures(arrived), k)
      /\ HandsOver(handled, Segments(arrived))
  BY DEF Cut
<1> HIDE DEF ch, k
<1>6. w \in Seq(Byte) /\ k \in 0..Len(w) /\ text = SubSeq(w, k + 1, Len(w))
  <2>1. /\ arrived \o ch \in Seq(Byte) /\ k \in 0..Len(arrived \o ch)
        /\ SubSeq(arrived, k + 1, Len(arrived)) \o ch =
             SubSeq(arrived \o ch, k + 1, Len(arrived \o ch))
    <3>1. arrived \in Seq(Byte) /\ k \in 0..Len(arrived)
      BY <1>2, <1>4
    <3> QED
      BY <1>3, <3>1, TailGrows, ZenonT(30)
  <2>2. leftovers \o ch = SubSeq(arrived \o ch, k + 1, Len(arrived \o ch))
    BY <1>4, <2>1, Zenon
  <2> QED
    BY <2>1, <2>2
<1>7. Continues(Segments(arrived), Segments(text), Segments(w))
  BY <1>2, <1>3, <1>4, <1>5, <1>6, CallContinues
<1>8. Short(Signatures(w), k)
  <2>1. /\ Len(Signatures(arrived)) <= Len(Signatures(w))
        /\ \A i \in 1..Len(Signatures(arrived)) : Signatures(arrived)[i] = Signatures(w)[i]
    BY <1>2, <1>3, SignaturesPrefix
  <2>2. Len(Signatures(arrived)) \in Nat /\ Len(Signatures(w)) \in Nat
    BY <1>2, <1>6, SignaturesType
  <2> QED
    BY <1>5, <2>1, <2>2 DEF Short
<1> HIDE DEF w, text
<1>9. /\ Segments(arrived) \in Seq(Seq(Byte)) /\ Segments(w) \in Seq(Seq(Byte))
      /\ Segments(text) \in Seq(Seq(Byte))
  <2>1. text \in Seq(Byte)
    BY <1>6, TailType
  <2> QED
    BY <1>2, <1>6, <2>1, SegmentsType
<1>10. HandsOver(handled', Segments(w)) /\ handled' \in Seq(Seq(Byte))
  <2>1. HandsOver(handled \o Segments(text), Segments(w))
    BY <1>2, <1>5, <1>7, <1>9, HandsOverMore
  <2>2. handled \o Segments(text) \in Seq(Seq(Byte))
    BY <1>2, <1>9, ConcatProperties
  <2> QED
    BY <1>1, <2>1, <2>2
<1>11. PICK j \in 0..Len(w) :
         /\ LuaSub(text, Consumed(text)) = SubSeq(w, j + 1, Len(w))
         /\ j = k \/ \E i \in 1..Len(Signatures(w)) : j < Signatures(w)[i]
         /\ \E x \in Gaps(Signatures(w)) :
              StaleOf(Signatures(SubSeq(w, j + 1, Len(w)))) <= x
  BY <1>6, CallKeeps
<1>12. /\ leftovers' = SubSeq(w, j + 1, Len(w)) /\ leftovers' \in Seq(Byte)
       /\ Len(leftovers') = Len(w) - j
  BY <1>1, <1>6, <1>11, TailType
<1>13. Len(w) \in Nat /\ j = Len(w) - Len(leftovers')
  BY <1>6, <1>12
<1>14. LeftoversAreTail'
  <2>1. Len(leftovers') <= Len(w) /\ Len(w) - Len(leftovers') + 1 = j + 1 /\ j + 1 # 0
    <3>1. \A x, y \in Nat : x = y - j => x <= y /\ y - x + 1 = j + 1 /\ j + 1 # 0
      BY <1>13
    <3>2. Len(leftovers') \in Nat
      BY <1>12
    <3> QED
      BY <1>12, <1>13, <3>1, <3>2
  <2>2. leftovers' = LuaSub(w, Len(w) - Len(leftovers') + 1)
    BY <1>12, <2>1 DEF LuaSub
  <2> QED
    BY <1>1, <2>1, <2>2 DEF LeftoversAreTail
<1>15. Short(Signatures(w), Len(w) - Len(leftovers'))
  BY <1>8, <1>11, <1>13 DEF Short
<1>16. TypeOK'
  <2>1. sent' \in [Feeds -> Nat]
    <3>1. sent[c] + n \in Nat
      BY <1>2, ChunkAssumption
    <3> QED
      BY <1>1, <1>2, <3>1
  <2> QED
    BY <1>1, <1>6, <1>10, <1>12, <2>1 DEF TypeOK
<1>17. Cut'
  BY <1>1, <1>10, <1>14, <1>15, <1>16 DEF Cut
<1>18. StaleBounded'
  <2>1. Stale' = StaleOf(Signatures(leftovers'))
    BY DEF Stale, StaleOf
  <2>2. LongestGap' = Max(Gaps(Signatures(w)))
    BY <1>1 DEF LongestGap, Gaps
  <2>3. PICK x \in Gaps(Signatures(w)) : StaleOf(Signatures(leftovers')) <= x
    BY <1>11, <1>12
  <2> DEFINE top == Max(Gaps(Signatures(w)))
  <2>4. top >= x /\ top \in Gaps(Signatures(w))
    BY <1>6, GapsMax
  <2>5. top \in Int /\ x \in Int
    <3>1. Signatures(w) \in Seq(Nat)
      BY <1>6, SignaturesType
    <3>2. \A y \in Gaps(Signatures(w)) : y \in Int
      BY <3>1 DEF Gaps
    <3> QED
      BY <2>4, <3>2
  <2>6. StaleOf(Signatures(leftovers')) \in Int
    <3> DEFINE m == Signatures(leftovers')
    <3>1. m \in Seq(Nat)
      BY <1>12, SignaturesType
    <3> HIDE DEF m
    <3>2. StaleOf(m) \in Int
      BY <3>1 DEF StaleOf, Last
    <3> QED
      BY <3>2 DEF m
  <2> HIDE DEF top
  <2>7. \A p, q, r \in Int : p <= q /\ r >= q => p <= r
    OBVIOUS
  <2>8. StaleOf(Signatures(leftovers')) <= top
    BY <2>3, <2>4, <2>5, <2>6, <2>7
  <2> QED
    BY <2>1, <2>2, <2>8 DEF StaleBounded, top
<1> QED
  BY <1>17, <1>18
(* Nothing else changes what was cut.                                      *)
LEMMA CutInvariant == Spec => [](Cut /\ StaleBounded)
<1>1. Init => Cut /\ StaleBounded
  BY InitCut
<1>2. Cut /\ StaleBounded /\ [Next]_vars => Cut' /\ StaleBounded'
  <2> SUFFICES ASSUME Cut, StaleBounded, [Next]_vars PROVE Cut' /\ StaleBounded'
    OBVIOUS
  <2>1. CASE Next
    BY <2>1, ReceiveCut DEF Next
  <2>2. CASE UNCHANGED vars
    <3>1. /\ arrived' = arrived /\ sent' = sent
          /\ leftovers' = leftovers /\ handled' = handled
      BY <2>2 DEF vars
    <3>2. Stale' = Stale /\ LongestGap' = LongestGap
      BY <3>1 DEF Stale, LongestGap
    <3>3. TypeOK' /\ LeftoversAreTail'
      BY <3>1 DEF Cut, TypeOK, LeftoversAreTail
    <3>4. Cut'
      BY <3>1, <3>3 DEF Cut
    <3>5. StaleBounded'
      BY <3>2 DEF StaleBounded
    <3> QED
      BY <3>4, <3>5
  <2> QED
    BY <2>1, <2>2
<1> QED
  BY <1>1, <1>2, PTL DEF Spec

(* A route through the entries puts each in its place.                     *)
LEMMA RouteOrders ==
  ASSUME Cut
  PROVE  InOrder
<1> DEFINE whole == Segments(arrived)
           N == Len(handled)
           Next1(P, i) == {j \in 1..Len(whole) : /\ whole[j] = handled[i]
                                                 /\ \E h \in P : j <= h + 1}
           St(i) == [P \in SUBSET Nat |-> Next1(P, i)]
           step == [i \in Nat |-> St(i)]
           Body(f, i) == IF i = 0 THEN {0}
                         ELSE {j \in 1..Len(whole) : /\ whole[j] = handled[i]
                                                     /\ \E h \in f[i - 1] : j <= h + 1}
           Places(f) == f = [i \in 0..Len(handled) |-> Body(f, i)]
           places == CHOOSE f : Places(f)
<1>1. InOrder <=> places[Len(handled)] # {}
  BY Zenon DEF InOrder
<1>2. N \in Nat /\ {0} \in SUBSET Nat /\ Len(whole) \in Nat /\ whole \in Seq(Seq(Byte))
  <2>1. arrived \in Seq(Byte) /\ handled \in Seq(Seq(Byte))
    BY DEF Cut, TypeOK
  <2>2. whole \in Seq(Seq(Byte))
    BY <2>1, SegmentsType
  <2> HIDE DEF whole
  <2> QED
    BY <2>1, <2>2
<1>3. PICK at : Route(at, handled, whole)
  BY DEF Cut, HandsOver
<1> HIDE DEF whole
<1>4. step \in Steps(SUBSET Nat)
  <2>1. \A i \in Nat, P \in SUBSET Nat : Next1(P, i) \in SUBSET Nat
    BY <1>2
  <2> HIDE DEF Next1
  <2>2. \A i \in Nat : St(i) \in [SUBSET Nat -> SUBSET Nat]
    BY <2>1
  <2> HIDE DEF St
  <2> QED
    BY <2>2 DEF Steps
<1>5. PICK g \in [0..N -> SUBSET Nat] : Unfolds(g, {0}, step, N)
  <2> HIDE DEF step, N
  <2> QED
    BY <1>2, <1>4, FiniteRecursion
<1>6. Places(g)
  <2>1. \A i \in 0..N : g[i] = Body(g, i)
    <3> TAKE i \in 0..N
    <3>1. CASE i = 0
      BY <1>5, <3>1 DEF Unfolds
    <3>2. CASE i # 0
      <4> HIDE DEF step, N, St, Body, Places, places, Next1
      <4>1. i \in Nat /\ i \in 1..N /\ i - 1 \in 0..N
        BY <1>2, <3>2
      <4>2. g[i - 1] \in SUBSET Nat
        BY <4>1
      <4>3. g[i] = step[i][g[i - 1]]
        BY <1>5, <4>1 DEF Unfolds
      <4>4. step[i][g[i - 1]] = Next1(g[i - 1], i)
        BY <4>1, <4>2 DEF step, St
      <4> QED
        BY <3>2, <4>3, <4>4 DEF Body, Next1
    <3> QED
      BY <3>1, <3>2
  <2>2. g = [i \in 0..N |-> g[i]]
    BY <1>5
  <2> HIDE DEF Body
  <2> QED
    BY <2>1, <2>2
<1>7. Places(places)
  <2> HIDE DEF Places
  <2> QED
    BY <1>6
<1> HIDE DEF places
<1>8. \A i \in 0..N : places[i] = Body(places, i)
  <2> HIDE DEF Body
  <2> QED
    BY <1>7
<1> HIDE DEF Places, step, St, Next1
<1> DEFINE A == {i \in Nat : at[i] \in places[i]}
<1>9. at[0] = 0 /\ \A i \in 1..N : /\ at[i] \in 1..Len(whole) /\ whole[at[i]] = handled[i]
                                   /\ at[i] <= at[i - 1] + 1
  BY <1>3 DEF Route
<1>10. 0 \in A
  <2>1. places[0] = {0}
    <3>1. 0 \in 0..N
      BY <1>2
    <3>2. places[0] = Body(places, 0)
      <4> HIDE DEF Body, N, A
      <4> QED
        BY <1>8, <3>1
    <3> QED
      BY <3>2
  <2> QED
    BY <1>9, <2>1
<1>11. \A n \in 0..(N - 1) : n \in A => n + 1 \in A
  <2> SUFFICES ASSUME NEW n \in 0..(N - 1), at[n] \in places[n]
               PROVE  at[n + 1] \in places[n + 1]
    BY <1>2
  <2> HIDE DEF N, A
  <2> DEFINE i == n + 1
  <2>1. i \in 1..N /\ i \in 0..N /\ i - 1 = n /\ i # 0
    BY <1>2
  <2> HIDE DEF i
  <2>2. places[i] = {j \in 1..Len(whole) : /\ whole[j] = handled[i]
                                           /\ \E h \in places[i - 1] : j <= h + 1}
    BY <1>8, <2>1
  <2>3. at[i] \in 1..Len(whole) /\ whole[at[i]] = handled[i] /\ at[i] <= at[n] + 1
    BY <1>9, <2>1
  <2>4. at[i] \in places[i]
    BY <2>1, <2>2, <2>3
  <2> QED
    BY <2>4 DEF i
<1>12. 0..N \subseteq A
  <2> HIDE DEF A, N
  <2> QED
    BY <1>2, <1>10, <1>11, UpToInduction
<1>13. at[N] \in places[N]
  <2>1. N \in 0..N
    BY <1>2
  <2>2. N \in A
    <3> HIDE DEF A, N
    <3> QED
      BY <1>12, <2>1
  <2> QED
    BY <2>2
<1> QED
  BY <1>1, <1>13

LEMMA CutInvisible ==
  ASSUME Cut
  PROVE  ChunkingInvisible
<1>1. arrived \in Seq(Byte) /\ handled \in Seq(Seq(Byte))
  BY DEF Cut, TypeOK
<1> DEFINE w == Segments(arrived)
<1>2. w \in Seq(Seq(Byte))
  BY <1>1, SegmentsType
<1>3. HandsOver(handled, w)
  BY DEF Cut
<1>4. Range(handled) = Range(w) <=> ChunkingInvisible
  BY DEF ChunkingInvisible
<1> HIDE DEF w
<1>5. DOMAIN handled = 1..Len(handled) /\ DOMAIN w = 1..Len(w)
  BY <1>1, <1>2
<1>6. \A i \in 1..Len(handled) : \E j \in 1..Len(w) : w[j] = handled[i]
  BY <1>3 DEF HandsOver, Route
<1>7. \A j \in 1..Len(w) : \E i \in 1..Len(handled) : handled[i] = w[j]
  BY <1>3 DEF HandsOver
<1>8. Range(handled) = Range(w)
  <2>1. \A e : e \in Range(handled) <=> \E i \in 1..Len(handled) : e = handled[i]
    BY <1>5, Zenon DEF Range
  <2>2. \A e : e \in Range(w) <=> \E i \in 1..Len(w) : e = w[i]
    BY <1>5, Zenon DEF Range
  <2>3. ASSUME NEW e \in Range(handled) PROVE e \in Range(w)
    <3>1. PICK i \in 1..Len(handled) : e = handled[i]
      BY <2>1, Zenon
    <3>2. PICK j \in 1..Len(w) : w[j] = handled[i]
      BY <1>6, Zenon
    <3> QED
      BY <2>2, <3>1, <3>2, Zenon
  <2>4. ASSUME NEW e \in Range(w) PROVE e \in Range(handled)
    <3>1. PICK j \in 1..Len(w) : e = w[j]
      BY <2>2, Zenon
    <3>2. PICK i \in 1..Len(handled) : handled[i] = w[j]
      BY <1>7, Zenon
    <3> QED
      BY <2>1, <3>1, <3>2, Zenon
  <2> QED
    BY <2>3, <2>4
<1> QED
  BY <1>4, <1>8

(***************************************************************************)
(* Theorems                                                                *)
(***************************************************************************)
(* The leftovers are bytes that arrived and the entries sequences of them, *)
(* whatever the sizes of messages and reads.                               *)
THEOREM TypeCorrect == Spec => []TypeOK
<1>1. Cut => TypeOK
  BY DEF Cut
<1> QED
  BY <1>1, CutInvariant, PTL

(* However reads split or join the messages of however many feeds, the     *)
(* entries handed over are those of the whole text: none is lost and none  *)
(* damaged, although text:sub keeps a byte too many (grind.lua:103, 121,   *)
(* 269).                                                                   *)
THEOREM ChunksInvisible == Spec => []ChunkingInvisible
  BY CutInvariant, CutInvisible, PTL

(* After an entry comes its successor or one that came before it.          *)
THEOREM HandedInOrder == Spec => []InOrder
  BY CutInvariant, RouteOrders, PTL

(* What waits in group.leftovers is the tail of what arrived.              *)
THEOREM TailKept == Spec => []LeftoversAreTail
<1>1. Cut => LeftoversAreTail
  BY DEF Cut
<1> QED
  BY <1>1, CutInvariant, PTL

(* The bytes that are left behind of handled entries stay within one gap.  *)
THEOREM StaleWithinGap == Spec => []StaleBounded
  BY CutInvariant, PTL
=============================================================================
