-------------------------- MODULE ConnectionsProofs --------------------------
(***************************************************************************)
(* Theorems about Connections, for any watchers, feeder connections and    *)
(* bounds.                                                                 *)
(***************************************************************************)
EXTENDS Connections, Induction

(***************************************************************************)
(* Sequences of jobs                                                       *)
(***************************************************************************)
Has(Q, J) == \E k \in DOMAIN Q : Q[k] \in J
Once(Q, J) == \A k, l \in DOMAIN Q : Q[k] \in J /\ Q[l] \in J => k = l
\* Every member of J in Q comes before every member of K.
Before(Q, J, K) == \A k, l \in DOMAIN Q : Q[k] \in J /\ Q[l] \in K => k < l

LEMMA ConcatIndex ==
  ASSUME NEW S, NEW Q \in Seq(S), NEW R \in Seq(S)
  PROVE  /\ Q \o R \in Seq(S)
         /\ DOMAIN (Q \o R) = 1..(Len(Q) + Len(R)) /\ DOMAIN Q = 1..Len(Q) /\ DOMAIN R = 1..Len(R)
         /\ \A k \in DOMAIN Q : k \in DOMAIN (Q \o R) /\ (Q \o R)[k] = Q[k]
         /\ \A k \in DOMAIN R : k + Len(Q) \in DOMAIN (Q \o R) /\ (Q \o R)[k + Len(Q)] = R[k]
         /\ \A k \in DOMAIN (Q \o R) : k \in DOMAIN Q \/ \E l \in DOMAIN R : k = l + Len(Q)
         /\ \A k \in DOMAIN Q, l \in DOMAIN R : k < l + Len(Q)
         /\ Len(Q) \in Nat /\ Len(R) \in Nat
<1>1. /\ Len(Q) \in Nat /\ Len(R) \in Nat
      /\ DOMAIN Q = 1..Len(Q) /\ DOMAIN R = 1..Len(R)
      /\ DOMAIN (Q \o R) = 1..(Len(Q) + Len(R)) /\ Q \o R \in Seq(S)
  OBVIOUS
<1>2. \A k \in 1..(Len(Q) + Len(R)) :
        (Q \o R)[k] = IF k <= Len(Q) THEN Q[k] ELSE R[k - Len(Q)]
  OBVIOUS
<1>3. \A k \in DOMAIN R : k + Len(Q) \in DOMAIN (Q \o R) /\ (Q \o R)[k + Len(Q)] = R[k]
  <2> SUFFICES ASSUME NEW k \in 1..Len(R)
               PROVE  k + Len(Q) \in 1..(Len(Q) + Len(R)) /\ (Q \o R)[k + Len(Q)] = R[k]
    BY <1>1
  <2>1. k + Len(Q) \in 1..(Len(Q) + Len(R)) /\ ~(k + Len(Q) <= Len(Q))
        /\ (k + Len(Q)) - Len(Q) = k
    BY <1>1
  <2> QED
    BY <1>2, <2>1
<1>4. \A k \in DOMAIN (Q \o R) : k \in DOMAIN Q \/ \E l \in DOMAIN R : k = l + Len(Q)
  <2> SUFFICES ASSUME NEW k \in 1..(Len(Q) + Len(R)), k \notin 1..Len(Q)
               PROVE  \E l \in 1..Len(R) : k = l + Len(Q)
    BY <1>1
  <2>1. k - Len(Q) \in 1..Len(R) /\ k = (k - Len(Q)) + Len(Q)
    BY <1>1
  <2> QED
    BY <2>1
<1>5. \A k \in DOMAIN Q, l \in DOMAIN R : k < l + Len(Q)
  BY <1>1
<1> QED
  BY <1>1, <1>2, <1>3, <1>4, <1>5

\* P is Q followed by R, which starts after position n.
Joined(P, Q, R, n) ==
  /\ n \in Nat
  /\ \A k \in DOMAIN Q : k \in DOMAIN P /\ P[k] = Q[k]
  /\ \A k \in DOMAIN R : k + n \in DOMAIN P /\ P[k + n] = R[k]
  /\ \A k \in DOMAIN P : k \in DOMAIN Q \/ \E l \in DOMAIN R : k = l + n
  /\ \A k \in DOMAIN Q, l \in DOMAIN R : k < l + n
  /\ \A k, l \in DOMAIN R : k < l => k + n < l + n

LEMMA ConcatParts ==
  ASSUME NEW S, NEW Q \in Seq(S), NEW R \in Seq(S)
  PROVE  Joined(Q \o R, Q, R, Len(Q))
<1>1. \A k, l \in DOMAIN R : k < l => k + Len(Q) < l + Len(Q)
  OBVIOUS
<1> QED
  BY <1>1, ConcatIndex DEF Joined

LEMMA HasConcat ==
  ASSUME NEW S, NEW Q \in Seq(S), NEW R \in Seq(S), NEW J
  PROVE  Has(Q \o R, J) <=> Has(Q, J) \/ Has(R, J)
<1> DEFINE P == Q \o R
<1>1. Joined(P, Q, R, Len(Q))
  BY ConcatParts
<1> HIDE DEF P
<1>2. Has(P, J) <=> Has(Q, J) \/ Has(R, J)
  BY <1>1 DEF Joined, Has
<1> QED
  BY <1>2 DEF P

LEMMA OnceConcat ==
  ASSUME NEW S, NEW Q \in Seq(S), NEW R \in Seq(S), NEW J,
         Once(Q, J), Once(R, J), ~(Has(Q, J) /\ Has(R, J))
  PROVE  Once(Q \o R, J)
<1> DEFINE P == Q \o R
<1>1. Joined(P, Q, R, Len(Q))
  BY ConcatParts
<1> HIDE DEF P
<1>2. Once(P, J)
  BY <1>1 DEF Joined, Once, Has
<1> QED
  BY <1>2 DEF P

LEMMA BeforeConcat ==
  ASSUME NEW S, NEW Q \in Seq(S), NEW R \in Seq(S), NEW J, NEW K,
         Before(Q, J, K), Before(R, J, K), ~(Has(Q, K) /\ Has(R, J))
  PROVE  Before(Q \o R, J, K)
<1> DEFINE P == Q \o R
<1>1. Joined(P, Q, R, Len(Q))
  BY ConcatParts
<1> HIDE DEF P
<1> DEFINE n == Len(Q)
<1> HIDE DEF n
<1>2. ASSUME NEW k \in DOMAIN P, NEW l \in DOMAIN P, P[k] \in J, P[l] \in K
      PROVE  k < l
  <2>0. Joined(P, Q, R, n)
    BY <1>1 DEF n
  <2>1. CASE k \in DOMAIN Q /\ l \in DOMAIN Q
    BY <1>2, <2>0, <2>1 DEF Joined, Before
  <2>2. ASSUME NEW a \in DOMAIN R, k = a + n, l \in DOMAIN Q PROVE FALSE
    BY <1>2, <2>0, <2>2 DEF Joined, Has
  <2>3. ASSUME k \in DOMAIN Q, NEW b \in DOMAIN R, l = b + n PROVE k < l
    BY <2>0, <2>3 DEF Joined
  <2>4. ASSUME NEW a \in DOMAIN R, k = a + n, NEW b \in DOMAIN R, l = b + n
        PROVE  k < l
    <3>1. a < b
      BY <1>2, <2>0, <2>4 DEF Joined, Before
    <3> QED
      BY <2>0, <2>4, <3>1 DEF Joined
  <2> QED
    BY <2>0, <2>1, <2>2, <2>3, <2>4 DEF Joined
<1>3. Before(P, J, K)
  BY <1>2 DEF Before
<1> QED
  BY <1>3 DEF P

LEMMA OneJob ==
  ASSUME NEW e, NEW J
  PROVE  /\ Has(<<e>>, J) <=> e \in J
         /\ Once(<<e>>, J)
         /\ ~Has(<<>>, J)
<1>1. DOMAIN <<e>> = {1} /\ <<e>>[1] = e /\ DOMAIN <<>> = {}
  OBVIOUS
<1> QED
  BY <1>1 DEF Has, Once

LEMMA BeforeNone ==
  ASSUME NEW Q, NEW J, NEW K, ~Has(Q, J) \/ ~Has(Q, K)
  PROVE  Before(Q, J, K)
BY DEF Has, Before

LEMMA OnceNone ==
  ASSUME NEW Q, NEW J, ~Has(Q, J)
  PROVE  Once(Q, J)
BY DEF Has, Once

(* What is appended comes last.                                            *)
LEMMA AppendOrder ==
  ASSUME NEW S, NEW Q \in Seq(S), NEW e \in S, NEW J, NEW K
  PROVE  /\ Append(Q, e) \in Seq(S) /\ Append(Q, e) # <<>>
         /\ Has(Append(Q, e), J) <=> Has(Q, J) \/ e \in J
         /\ Once(Q, J) /\ ~(Has(Q, J) /\ e \in J) => Once(Append(Q, e), J)
         /\ Before(Q, J, K) /\ ~(Has(Q, K) /\ e \in J) /\ ~(e \in J /\ e \in K)
              => Before(Append(Q, e), J, K)
<1>1. Append(Q, e) = Q \o <<e>> /\ <<e>> \in Seq(S) /\ Append(Q, e) \in Seq(S)
      /\ Append(Q, e) # <<>>
  OBVIOUS
<1>2. Has(<<e>>, J) <=> e \in J
  BY OneJob
<1>3. Has(<<e>>, K) <=> e \in K
  BY OneJob
<1>4. Once(<<e>>, J)
  BY OneJob
<1>5. Has(Q \o <<e>>, J) <=> Has(Q, J) \/ Has(<<e>>, J)
  BY <1>1, HasConcat
<1>6. Once(Q, J) /\ ~(Has(Q, J) /\ e \in J) => Once(Q \o <<e>>, J)
  BY <1>1, <1>2, <1>4, OnceConcat
<1>7. ~(e \in J /\ e \in K) => Before(<<e>>, J, K)
  BY <1>2, <1>3, BeforeNone
<1>8. Before(Q, J, K) /\ ~(Has(Q, K) /\ e \in J) /\ ~(e \in J /\ e \in K)
        => Before(Q \o <<e>>, J, K)
  BY <1>1, <1>2, <1>7, BeforeConcat
<1> QED
  BY <1>1, <1>2, <1>5, <1>6, <1>8

LEMMA AppendJob ==
  ASSUME NEW S, NEW Q \in Seq(S), NEW e \in S, NEW J
  PROVE  /\ Append(Q, e) \in Seq(S) /\ Append(Q, e) # <<>>
         /\ Has(Append(Q, e), J) <=> Has(Q, J) \/ e \in J
         /\ Once(Q, J) /\ ~(Has(Q, J) /\ e \in J) => Once(Append(Q, e), J)
BY AppendOrder

LEMMA TailOrder ==
  ASSUME NEW S, NEW Q \in Seq(S), Q # <<>>, NEW J, NEW K
  PROVE  /\ Tail(Q) \in Seq(S) /\ Head(Q) \in S
         /\ Has(Q, J) <=> Head(Q) \in J \/ Has(Tail(Q), J)
         /\ Once(Q, J) => Once(Tail(Q), J) /\ ~(Head(Q) \in J /\ Has(Tail(Q), J))
         /\ Before(Q, J, K) => Before(Tail(Q), J, K) /\ ~(Head(Q) \in K /\ Has(Q, J))
<1> DEFINE T == Tail(Q)
<1>1. /\ Len(Q) \in Nat /\ Len(Q) > 0 /\ DOMAIN Q = 1..Len(Q)
      /\ T \in Seq(S) /\ DOMAIN T = 1..(Len(Q) - 1)
      /\ \A k \in 1..(Len(Q) - 1) : T[k] = Q[k + 1]
      /\ Head(Q) = Q[1] /\ Q[1] \in S
  OBVIOUS
<1>2. /\ 1 \in DOMAIN Q
      /\ \A k \in DOMAIN T : k + 1 \in DOMAIN Q /\ k + 1 # 1 /\ T[k] = Q[k + 1]
      /\ \A k \in DOMAIN Q : k # 1 => \E l \in DOMAIN T : k = l + 1
  <2>1. \A k \in DOMAIN T : k + 1 \in DOMAIN Q /\ k + 1 # 1
    BY <1>1
  <2>2. ASSUME NEW k \in DOMAIN Q, k # 1 PROVE \E l \in DOMAIN T : k = l + 1
    <3>1. k - 1 \in DOMAIN T /\ k = (k - 1) + 1
      BY <1>1, <2>2
    <3> QED
      BY <3>1
  <2> QED
    BY <1>1, <2>1, <2>2
<1>3. \A k, l \in DOMAIN T : /\ k + 1 = l + 1 => k = l
                             /\ k + 1 < l + 1 => k < l
  BY <1>1
<1>4. Has(Q, J) <=> Q[1] \in J \/ Has(T, J)
  <2> HIDE DEF T
  <2> QED
    BY <1>2 DEF Has
<1>5. Once(Q, J) => Once(T, J) /\ ~(Q[1] \in J /\ Has(T, J))
  <2> HIDE DEF T
  <2> QED
    BY <1>2, <1>3 DEF Has, Once
<1>6. Before(Q, J, K) => Before(T, J, K)
  <2> SUFFICES ASSUME Before(Q, J, K), NEW k \in DOMAIN T, NEW l \in DOMAIN T,
                      T[k] \in J, T[l] \in K
               PROVE  k < l
    BY DEF Before
  <2> HIDE DEF T
  <2>1. k + 1 < l + 1
    BY <1>2 DEF Before
  <2> QED
    BY <1>3, <2>1
<1>7. Before(Q, J, K) => ~(Q[1] \in K /\ Has(Q, J))
  <2> SUFFICES ASSUME Before(Q, J, K), Q[1] \in K, NEW k \in DOMAIN Q, Q[k] \in J
               PROVE  FALSE
    BY DEF Has
  <2>1. k < 1
    BY <1>1 DEF Before
  <2> QED
    BY <1>1, <2>1
<1> QED
  BY <1>1, <1>4, <1>5, <1>6, <1>7

LEMMA TailJobs ==
  ASSUME NEW S, NEW Q \in Seq(S), Q # <<>>, NEW J
  PROVE  /\ Tail(Q) \in Seq(S) /\ Head(Q) \in S
         /\ Has(Q, J) <=> Head(Q) \in J \/ Has(Tail(Q), J)
         /\ Once(Q, J) => Once(Tail(Q), J) /\ ~(Head(Q) \in J /\ Has(Tail(Q), J))
BY TailOrder

(***************************************************************************)
(* The io_service                                                          *)
(***************************************************************************)
Strands == Watchers \cup {Kernel}

Came(c) == [h |-> "read", c |-> c, ok |-> TRUE]
Failed(c) == [h |-> "read", c |-> c, ok |-> FALSE]
TurnOf(s) == [h |-> "strand", s |-> s]
CloseOf(c) == [h |-> "close", c |-> c]
SendOf(n) == [h |-> "send", n |-> n]

Accept == [h |-> "accept"]
Accepted == [h |-> "on_accept", ok |-> TRUE]
Refused == [h |-> "on_accept", ok |-> FALSE]
Removal == [h |-> "remove"]

Jobs == {Accept, Accepted, Refused} \cup {Came(c) : c \in Conns}
        \cup {Failed(c) : c \in Conns} \cup {TurnOf(s) : s \in Strands}
Handlers == {CloseOf(c) : c \in Watchers} \cup {Removal} \cup {SendOf(n) : n \in Nat}

Turn(s) == {TurnOf(s)}
Reads(c) == {Came(c), Failed(c)}
OnAccepts == {Accepted, Refused}

Lines == [locked : BOOLEAN, ready : Seq(Handlers), waiting : Seq(Handlers)]
Ios == [queue : Seq(Jobs), strand : [Strands -> Lines]]

\* A strand that is locked has its turn in the queue, once, and something to
\* do in it; the others have nothing.
InLine(Q, L, s) == /\ Once(Q, Turn(s))
                   /\ L.locked <=> Has(Q, Turn(s))
                   /\ L.locked <=> L.ready # <<>>
                   /\ ~L.locked => L.waiting = <<>>

Shape(q) == q \in Ios /\ \A s \in Strands : InLine(q.queue, q.strand[s], s)

(* What the operators of Connections do to the queue and the strands.      *)
Others(q, p, s) == \A r \in Strands \ {s} : p.strand[r] = q.strand[r]

Grown(q, p, new) == p.queue = q.queue \o new /\ p.strand = q.strand

Dropped(q, p) == p.queue = Tail(q.queue) /\ p.strand = q.strand

Posted(q, p, s, h) ==
  /\ Others(q, p, s) /\ p.strand[s].locked
  /\ \/ /\ q.strand[s].locked
        /\ p.queue = q.queue
        /\ p.strand[s].ready = q.strand[s].ready
        /\ p.strand[s].waiting = Append(q.strand[s].waiting, h)
     \/ /\ ~q.strand[s].locked
        /\ p.queue = Append(q.queue, TurnOf(s))
        /\ p.strand[s].ready = <<h>>
        /\ p.strand[s].waiting = <<>>

Ran(q, p, s) ==
  /\ Others(q, p, s)
  /\ \/ /\ p.queue = q.queue
        /\ p.strand[s].locked
        /\ p.strand[s].ready = Tail(q.strand[s].ready)
        /\ p.strand[s].waiting = q.strand[s].waiting
     \/ /\ p.queue = Tail(q.queue)
        /\ ~p.strand[s].locked
        /\ Tail(q.strand[s].ready) = <<>> /\ q.strand[s].waiting = <<>>
        /\ p.strand[s].ready = <<>> /\ p.strand[s].waiting = <<>>
     \/ /\ p.queue = Append(Tail(q.queue), TurnOf(s))
        /\ p.strand[s].locked
        /\ Tail(q.strand[s].ready) = <<>>
        /\ p.strand[s].ready = q.strand[s].waiting /\ p.strand[s].waiting = <<>>

LEMMA Kinds ==
  /\ \A c \in Conns : Came(c) \in Jobs /\ Failed(c) \in Jobs
  /\ \A s \in Strands : TurnOf(s) \in Jobs
  /\ {Accept, Accepted, Refused} \subseteq Jobs
  /\ \A c \in Watchers : CloseOf(c) \in Handlers
  /\ \A n \in Nat : SendOf(n) \in Handlers
  /\ Removal \in Handlers
BY DEF Jobs, Handlers

LEMMA Apart ==
  /\ \A s, r : TurnOf(s) = TurnOf(r) => s = r
  /\ \A s, c : TurnOf(s) \notin Reads(c) /\ TurnOf(s) \notin OnAccepts
  /\ \A s, c : Came(c) # TurnOf(s) /\ Failed(c) # TurnOf(s)
  /\ \A c : Came(c) \notin OnAccepts /\ Failed(c) \notin OnAccepts
  /\ \A c, d : Came(c) \in Reads(d) \/ Failed(c) \in Reads(d) => c = d
  /\ \A c : Came(c) \in Reads(c) /\ Failed(c) \in Reads(c)
  /\ \A s : Accept # TurnOf(s) /\ Accepted # TurnOf(s) /\ Refused # TurnOf(s)
  /\ \A c : Accept \notin Reads(c) /\ Accepted \notin Reads(c) /\ Refused \notin Reads(c)
  /\ Accept \notin OnAccepts /\ Accepted \in OnAccepts /\ Refused \in OnAccepts
  /\ \A c, d : CloseOf(c) = CloseOf(d) => c = d
  /\ \A c, n : CloseOf(c) # Removal /\ CloseOf(c) # SendOf(n) /\ SendOf(n) # Removal
<1>1. /\ \A s : TurnOf(s).h = "strand" /\ TurnOf(s).s = s
      /\ \A c : Came(c).h = "read" /\ Came(c).c = c
      /\ \A c : Failed(c).h = "read" /\ Failed(c).c = c
      /\ Accepted.h = "on_accept" /\ Refused.h = "on_accept" /\ Accept.h = "accept"
      /\ \A c : CloseOf(c).h = "close" /\ CloseOf(c).c = c
      /\ \A n : SendOf(n).h = "send"
      /\ Removal.h = "remove"
  BY DEF TurnOf, Came, Failed, Accepted, Refused, Accept, CloseOf, SendOf, Removal
<1> QED
  BY <1>1 DEF Reads, OnAccepts

(* A handler is what its tag says.                                         *)
LEMMA KindIs ==
  /\ \A j \in Jobs : /\ j.h = "strand" => j = TurnOf(j.s) /\ j.s \in Strands
                     /\ j.h = "read" => /\ j.c \in Conns
                                        /\ j = Came(j.c) \/ j = Failed(j.c)
                                        /\ j.ok => j = Came(j.c)
                                        /\ ~j.ok => j = Failed(j.c)
                     /\ j.h = "on_accept" => /\ j = Accepted \/ j = Refused
                                             /\ j.ok => j = Accepted
                                             /\ ~j.ok => j = Refused
                     /\ j.h = "accept" => j = Accept
  /\ \A g \in Handlers : /\ g.h = "close" => g.c \in Watchers /\ g = CloseOf(g.c)
                         /\ g.h = "send" => g.n \in Nat /\ g = SendOf(g.n)
                         /\ g.h = "remove" => g = Removal
BY DEF Jobs, Handlers, TurnOf, Came, Failed, Accepted, Refused, Accept, CloseOf, SendOf,
       Removal

LEMMA ShapeParts ==
  ASSUME NEW q, Shape(q)
  PROVE  /\ q \in Ios /\ q.queue \in Seq(Jobs) /\ q.strand \in [Strands -> Lines]
         /\ \A s \in Strands : /\ q.strand[s] \in Lines
                               /\ q.strand[s].locked \in BOOLEAN
                               /\ q.strand[s].ready \in Seq(Handlers)
                               /\ q.strand[s].waiting \in Seq(Handlers)
                               /\ Once(q.queue, Turn(s))
                               /\ q.strand[s].locked <=> Has(q.queue, Turn(s))
                               /\ q.strand[s].locked <=> q.strand[s].ready # <<>>
                               /\ ~q.strand[s].locked => q.strand[s].waiting = <<>>
BY DEF Shape, Ios, Lines, InLine

LEMMA Records ==
  ASSUME NEW X, NEW Y, NEW q \in [queue : X, strand : Y], NEW Q \in X, NEW L \in Y
  PROVE  /\ [q EXCEPT !.queue = Q] \in [queue : X, strand : Y]
         /\ [q EXCEPT !.queue = Q].queue = Q /\ [q EXCEPT !.queue = Q].strand = q.strand
         /\ [q EXCEPT !.strand = L] \in [queue : X, strand : Y]
         /\ [q EXCEPT !.strand = L].queue = q.queue /\ [q EXCEPT !.strand = L].strand = L
OBVIOUS

LEMMA QueueIs ==
  ASSUME NEW q \in Ios, NEW Q \in Seq(Jobs)
  PROVE  /\ [q EXCEPT !.queue = Q] \in Ios
         /\ [q EXCEPT !.queue = Q].queue = Q /\ [q EXCEPT !.queue = Q].strand = q.strand
BY Records DEF Ios

LEMMA StrandIsNow ==
  ASSUME NEW q \in Ios, NEW s \in Strands, NEW L \in Lines
  PROVE  LET p == [q EXCEPT !.strand[s] = L] IN
           /\ p \in Ios /\ p.queue = q.queue /\ p.strand[s] = L /\ Others(q, p, s)
<1> DEFINE p == [q EXCEPT !.strand[s] = L]
           F == [q.strand EXCEPT ![s] = L]
           X == [Strands -> Lines]
<1>1. F \in X /\ F[s] = L /\ \A r \in Strands \ {s} : F[r] = q.strand[r]
  BY DEF Ios
<1>2. q.strand \in X /\ q.queue \in Seq(Jobs)
  BY DEF Ios
<1>3. p = [q EXCEPT !.strand = F]
  BY DEF Ios
<1> HIDE DEF F, X, p
<1>4. p \in Ios /\ p.queue = q.queue /\ p.strand = F
  BY <1>1, <1>2, <1>3, Records DEF Ios, X
<1> QED
  BY <1>1, <1>4 DEF Others, p

LEMMA Grows ==
  ASSUME NEW q, Shape(q), NEW new \in Seq(Jobs), \A s \in Strands : ~Has(new, Turn(s))
  PROVE  LET p == [q EXCEPT !.queue = @ \o new] IN Shape(p) /\ Grown(q, p, new)
<1> DEFINE p == [q EXCEPT !.queue = @ \o new]
<1>1. p \in Ios /\ p.queue = q.queue \o new /\ p.strand = q.strand
  <2>1. q \in Ios /\ q.queue \in Seq(Jobs) /\ q.queue \o new \in Seq(Jobs)
    BY ShapeParts
  <2> QED
    BY <2>1, QueueIs
<1>2. ASSUME NEW s \in Strands PROVE InLine(q.queue \o new, q.strand[s], s)
  <2>1. Once(q.queue \o new, Turn(s))
    BY ShapeParts, OnceConcat, OnceNone
  <2>2. Has(q.queue \o new, Turn(s)) <=> Has(q.queue, Turn(s))
    BY ShapeParts, HasConcat
  <2> QED
    BY <2>1, <2>2, ShapeParts DEF InLine
<1> QED
  BY <1>1, <1>2 DEF Shape, Grown

LEMMA Enqueues ==
  ASSUME NEW q, Shape(q), NEW j \in Jobs, \A s \in Strands : j # TurnOf(s)
  PROVE  Shape(Enqueue(q, j)) /\ Grown(q, Enqueue(q, j), <<j>>)
<1>1. <<j>> \in Seq(Jobs) /\ q.queue \in Seq(Jobs) /\ q \in Ios
  BY ShapeParts
<1>2. Append(q.queue, j) = q.queue \o <<j>>
  BY <1>1
<1>3. Enqueue(q, j) = [q EXCEPT !.queue = @ \o <<j>>]
  BY <1>1, <1>2 DEF Enqueue, Ios
<1>4. \A s \in Strands : ~Has(<<j>>, Turn(s))
  BY OneJob DEF Turn
<1> QED
  BY <1>1, <1>3, <1>4, Grows

LEMMA Drops ==
  ASSUME NEW q, Shape(q), q.queue # <<>>, \A s \in Strands : Head(q.queue) # TurnOf(s)
  PROVE  Shape(Popped(q)) /\ Dropped(q, Popped(q))
<1> DEFINE p == Popped(q)
<1>1. q.queue \in Seq(Jobs) /\ q \in Ios
  BY ShapeParts
<1>2. p \in Ios /\ p.queue = Tail(q.queue) /\ p.strand = q.strand
  <2>1. Tail(q.queue) \in Seq(Jobs)
    BY <1>1
  <2> QED
    BY <1>1, <2>1, QueueIs DEF Popped
<1>3. ASSUME NEW s \in Strands PROVE InLine(Tail(q.queue), q.strand[s], s)
  <2>1. Head(q.queue) \notin Turn(s)
    BY DEF Turn
  <2>2. Once(Tail(q.queue), Turn(s))
    BY <1>1, TailJobs, ShapeParts
  <2>3. Has(Tail(q.queue), Turn(s)) <=> Has(q.queue, Turn(s))
    BY <1>1, <2>1, TailJobs
  <2> QED
    BY <2>2, <2>3, ShapeParts DEF InLine
<1> QED
  BY <1>2, <1>3 DEF Shape, Dropped

LEMMA AppendTurn ==
  ASSUME NEW Q \in Seq(Jobs), NEW s \in Strands, ~Has(Q, Turn(s))
  PROVE  /\ Append(Q, TurnOf(s)) \in Seq(Jobs)
         /\ Has(Append(Q, TurnOf(s)), Turn(s)) /\ Once(Append(Q, TurnOf(s)), Turn(s))
         /\ \A r \in Strands \ {s} :
              /\ Has(Append(Q, TurnOf(s)), Turn(r)) <=> Has(Q, Turn(r))
              /\ Once(Q, Turn(r)) => Once(Append(Q, TurnOf(s)), Turn(r))
<1>1. TurnOf(s) \in Jobs /\ TurnOf(s) \in Turn(s)
  BY Kinds DEF Turn
<1>2. \A r \in Strands \ {s} : TurnOf(s) \notin Turn(r)
  BY Apart DEF Turn
<1>3. Append(Q, TurnOf(s)) \in Seq(Jobs)
      /\ Has(Append(Q, TurnOf(s)), Turn(s)) /\ Once(Append(Q, TurnOf(s)), Turn(s))
  BY <1>1, AppendJob, OnceNone
<1>4. ASSUME NEW r \in Strands \ {s}
      PROVE  /\ Has(Append(Q, TurnOf(s)), Turn(r)) <=> Has(Q, Turn(r))
             /\ Once(Q, Turn(r)) => Once(Append(Q, TurnOf(s)), Turn(r))
  BY <1>1, <1>2, AppendJob
<1> QED
  BY <1>3, <1>4

LEMMA TailTurn ==
  ASSUME NEW Q \in Seq(Jobs), NEW s \in Strands, Q # <<>>, Head(Q) = TurnOf(s),
         Once(Q, Turn(s))
  PROVE  /\ Tail(Q) \in Seq(Jobs) /\ ~Has(Tail(Q), Turn(s))
         /\ \A r \in Strands \ {s} :
              /\ Has(Tail(Q), Turn(r)) <=> Has(Q, Turn(r))
              /\ Once(Q, Turn(r)) => Once(Tail(Q), Turn(r))
<1>1. TurnOf(s) \in Turn(s) /\ \A r \in Strands \ {s} : TurnOf(s) \notin Turn(r)
  BY Apart DEF Turn
<1>2. Tail(Q) \in Seq(Jobs) /\ ~Has(Tail(Q), Turn(s))
  BY <1>1, TailJobs
<1>3. ASSUME NEW r \in Strands \ {s}
      PROVE  /\ Has(Tail(Q), Turn(r)) <=> Has(Q, Turn(r))
             /\ Once(Q, Turn(r)) => Once(Tail(Q), Turn(r))
  BY <1>1, TailJobs
<1> QED
  BY <1>2, <1>3

LEMMA LineIs ==
  ASSUME NEW L \in Lines, NEW R \in Seq(Handlers)
  PROVE  /\ [L EXCEPT !.waiting = R] \in Lines /\ [L EXCEPT !.ready = R] \in Lines
         /\ [L EXCEPT !.waiting = R].locked = L.locked
         /\ [L EXCEPT !.waiting = R].ready = L.ready
         /\ [L EXCEPT !.waiting = R].waiting = R
         /\ [L EXCEPT !.ready = R].locked = L.locked
         /\ [L EXCEPT !.ready = R].ready = R
         /\ [L EXCEPT !.ready = R].waiting = L.waiting
<1> DEFINE S == Seq(Handlers)
<1>1. L \in [locked : BOOLEAN, ready : S, waiting : S] /\ R \in S
  BY DEF Lines
<1> HIDE DEF S
<1>2. [L EXCEPT !.waiting = R] \in [locked : BOOLEAN, ready : S, waiting : S]
      /\ [L EXCEPT !.ready = R] \in [locked : BOOLEAN, ready : S, waiting : S]
  BY <1>1
<1> QED
  BY <1>1, <1>2 DEF Lines, S

LEMMA Posts ==
  ASSUME NEW q, Shape(q), NEW s \in Strands, NEW h \in Handlers
  PROVE  Shape(Post(q, s, h)) /\ Posted(q, Post(q, s, h), s, h)
<1> DEFINE L == q.strand[s]
           p == Post(q, s, h)
<1>1. /\ q \in Ios /\ L \in Lines /\ q.queue \in Seq(Jobs)
      /\ L.locked \in BOOLEAN /\ L.ready \in Seq(Handlers) /\ L.waiting \in Seq(Handlers)
  BY ShapeParts
<1>2. CASE L.locked
  <2> DEFINE W == [L EXCEPT !.waiting = Append(L.waiting, h)]
             r == [q EXCEPT !.strand[s] = W]
  <2>1. /\ W \in Lines /\ W.locked = L.locked /\ W.ready = L.ready
        /\ W.waiting = Append(L.waiting, h)
    <3> DEFINE R == Append(L.waiting, h)
    <3>1. L \in Lines /\ R \in Seq(Handlers)
      BY <1>1
    <3>2. W = [L EXCEPT !.waiting = R] /\ R = Append(L.waiting, h)
      OBVIOUS
    <3> HIDE DEF L, R, W
    <3> QED
      BY <3>1, <3>2, LineIs
  <2>2. p = r
    <3>1. p = [q EXCEPT !.strand[s].waiting = Append(@, h)]
      BY <1>2 DEF Post
    <3>2. [q EXCEPT !.strand[s].waiting = Append(@, h)] = [q EXCEPT !.strand[s] = [L EXCEPT !.waiting = Append(@, h)]]
      OBVIOUS
    <3> QED
      BY <2>1, <3>1, <3>2
  <2>3. r \in Ios /\ r.queue = q.queue /\ r.strand[s] = W /\ Others(q, r, s)
    BY <1>1, <2>1, StrandIsNow
  <2>4. InLine(q.queue, W, s)
    <3> HIDE DEF W
    <3> QED
      BY <1>1, <1>2, <2>1, ShapeParts DEF InLine
  <2>5. \A t \in Strands : InLine(r.queue, r.strand[t], t)
    <3> HIDE DEF r, W
    <3> QED
      BY <2>3, <2>4 DEF Others, Shape
  <2>7. Posted(q, r, s, h)
    <3> HIDE DEF r, W
    <3> QED
      BY <1>2, <2>1, <2>3 DEF Posted
  <2> QED
    BY <2>2, <2>3, <2>5, <2>7 DEF Shape
<1>3. CASE ~L.locked
  <2> DEFINE W == [locked |-> TRUE, ready |-> <<h>>, waiting |-> <<>>]
             r == [q EXCEPT !.strand[s] = W]
             Q == Append(q.queue, TurnOf(s))
             u == [r EXCEPT !.queue = Q]
  <2>1. W \in Lines
    BY <1>1 DEF Lines
  <2>2. p = u
    <3>1. p = Enqueue(r, TurnOf(s))
      BY <1>3 DEF Post, TurnOf
    <3>2. r.queue = q.queue
      BY <1>1, <2>1, StrandIsNow
    <3> HIDE DEF r
    <3> QED
      BY <3>1, <3>2 DEF Enqueue
  <2>3. r \in Ios /\ r.queue = q.queue /\ r.strand[s] = W /\ Others(q, r, s)
    BY <1>1, <2>1, StrandIsNow
  <2>4. ~Has(q.queue, Turn(s))
    BY <1>3, ShapeParts
  <2>5. /\ Q \in Seq(Jobs) /\ Has(Q, Turn(s)) /\ Once(Q, Turn(s))
        /\ \A t \in Strands \ {s} : /\ Has(Q, Turn(t)) <=> Has(q.queue, Turn(t))
                                    /\ Once(q.queue, Turn(t)) => Once(Q, Turn(t))
    BY <1>1, <2>4, AppendTurn
  <2>6. u \in Ios /\ u.queue = Q /\ u.strand = r.strand
    <3> HIDE DEF r, Q
    <3> QED
      BY <2>3, <2>5, QueueIs
  <2>7. W.locked /\ W.ready = <<h>> /\ W.ready # <<>> /\ W.waiting = <<>>
    OBVIOUS
  <2>8. InLine(Q, W, s)
    <3> HIDE DEF W, Q
    <3> QED
      BY <2>5, <2>7 DEF InLine
  <2>9. \A t \in Strands : InLine(u.queue, u.strand[t], t)
    <3> HIDE DEF W, Q, r, u
    <3>1. \A t \in Strands \ {s} : u.strand[t] = q.strand[t]
      BY <2>3, <2>6 DEF Others
    <3>2. \A t \in Strands \ {s} : InLine(Q, q.strand[t], t)
      BY <2>5 DEF Shape, InLine
    <3> QED
      BY <2>3, <2>6, <2>8, <3>1, <3>2
  <2>10. Posted(q, u, s, h)
    <3> HIDE DEF W, r, u
    <3> QED
      BY <1>3, <2>3, <2>6, <2>7 DEF Posted, Others
  <2> QED
    BY <2>2, <2>6, <2>9, <2>10 DEF Shape
<1> QED
  BY <1>2, <1>3

LEMMA Runs ==
  ASSUME NEW q, Shape(q), NEW s \in Strands, q.queue # <<>>, Head(q.queue) = TurnOf(s)
  PROVE  Shape(Finished(q, s)) /\ Ran(q, Finished(q, s), s)
<1> DEFINE L == q.strand[s]
           p == Finished(q, s)
           rest == Tail(L.ready)
           T == Tail(q.queue)
<1>1. /\ q \in Ios /\ L \in Lines /\ q.queue \in Seq(Jobs)
      /\ L.locked \in BOOLEAN /\ L.ready \in Seq(Handlers) /\ L.waiting \in Seq(Handlers)
      /\ Once(q.queue, Turn(s)) /\ (L.locked <=> Has(q.queue, Turn(s)))
      /\ (L.locked <=> L.ready # <<>>)
  BY ShapeParts
<1>2. L.locked /\ L.ready # <<>>
  <2>1. Has(q.queue, Turn(s))
    <3>1. Head(q.queue) \in Turn(s)
      BY DEF Turn
    <3> QED
      BY <1>1, <3>1, TailJobs
  <2> QED
    BY <1>1, <2>1
<1>3. rest \in Seq(Handlers)
  BY <1>1, <1>2
<1>4. /\ T \in Seq(Jobs) /\ ~Has(T, Turn(s))
      /\ \A t \in Strands \ {s} : /\ Has(T, Turn(t)) <=> Has(q.queue, Turn(t))
                                  /\ Once(q.queue, Turn(t)) => Once(T, Turn(t))
  BY <1>1, TailTurn
<1>5. CASE rest # <<>>
  <2> DEFINE W == [L EXCEPT !.ready = rest]
             r == [q EXCEPT !.strand[s] = W]
  <2>1. W \in Lines /\ W.locked = L.locked /\ W.ready = rest /\ W.waiting = L.waiting
    BY <1>1, <1>3, LineIs
  <2>2. p = r
    <3>1. p = [q EXCEPT !.strand[s].ready = rest]
      BY <1>5 DEF Finished
    <3>2. [q EXCEPT !.strand[s].ready = rest] = [q EXCEPT !.strand[s] = [L EXCEPT !.ready = rest]]
      OBVIOUS
    <3> QED
      BY <2>1, <3>1, <3>2
  <2>3. r \in Ios /\ r.queue = q.queue /\ r.strand[s] = W /\ Others(q, r, s)
    BY <1>1, <2>1, StrandIsNow
  <2>4. InLine(q.queue, W, s)
    <3> HIDE DEF W, rest
    <3> QED
      BY <1>1, <1>2, <1>5, <2>1 DEF InLine
  <2>5. \A t \in Strands : InLine(r.queue, r.strand[t], t)
    <3> HIDE DEF r, W
    <3> QED
      BY <2>3, <2>4 DEF Others, Shape
  <2>7. Ran(q, r, s)
    <3> HIDE DEF r, W
    <3> QED
      BY <1>2, <2>1, <2>3 DEF Ran
  <2> QED
    BY <2>2, <2>3, <2>5, <2>7 DEF Shape
<1>6. CASE rest = <<>>
  <2> DEFINE W == [locked |-> L.waiting # <<>>, ready |-> L.waiting, waiting |-> <<>>]
             r == [q EXCEPT !.strand[s] = W]
             d == [r EXCEPT !.queue = T]
             Q == Append(T, TurnOf(s))
             e == [d EXCEPT !.queue = Q]
  <2>1. W \in Lines
    BY <1>1 DEF Lines
  <2>2. r \in Ios /\ r.queue = q.queue /\ r.strand[s] = W /\ Others(q, r, s)
    BY <1>1, <2>1, StrandIsNow
  <2>3. d \in Ios /\ d.queue = T /\ d.strand = r.strand /\ d = Popped(r)
    <3>1. d = Popped(r)
      BY <2>2 DEF Popped
    <3> HIDE DEF r, T
    <3> QED
      BY <1>4, <2>2, <3>1, QueueIs
  <2>4. W.ready = L.waiting /\ W.waiting = <<>> /\ (W.locked <=> L.waiting # <<>>)
    OBVIOUS
  <2>5. \A t \in Strands \ {s} : d.strand[t] = q.strand[t]
    <3> HIDE DEF r, d, W, T
    <3> QED
      BY <2>2, <2>3 DEF Others
  <2>6. CASE L.waiting = <<>>
    <3>1. p = d
      <4>1. p = Popped(r)
        BY <1>6, <2>6 DEF Finished
      <4> QED
        BY <2>3, <4>1
    <3>2. InLine(T, W, s)
      <4> HIDE DEF W, T
      <4> QED
        BY <1>4, <2>4, <2>6, OnceNone DEF InLine
    <3>3. \A t \in Strands \ {s} : InLine(T, q.strand[t], t)
      <4> HIDE DEF T
      <4> QED
        BY <1>4 DEF Shape, InLine
    <3>4. \A t \in Strands : InLine(d.queue, d.strand[t], t)
      <4> HIDE DEF d, r, W, T
      <4> QED
        BY <2>2, <2>3, <2>5, <3>2, <3>3
    <3>5. Ran(q, d, s)
      <4> HIDE DEF d, r, W
      <4> QED
        BY <1>6, <2>2, <2>3, <2>4, <2>5, <2>6 DEF Ran, Others
    <3> QED
      BY <2>3, <3>1, <3>4, <3>5 DEF Shape
  <2>7. CASE L.waiting # <<>>
    <3>1. p = e
      <4>1. p = Enqueue(Popped(r), Head(q.queue))
        BY <1>6, <2>7 DEF Finished
      <4> HIDE DEF d, r
      <4> QED
        BY <2>3, <4>1 DEF Enqueue
    <3>2. /\ Q \in Seq(Jobs) /\ Has(Q, Turn(s)) /\ Once(Q, Turn(s))
          /\ \A t \in Strands \ {s} : /\ Has(Q, Turn(t)) <=> Has(T, Turn(t))
                                      /\ Once(T, Turn(t)) => Once(Q, Turn(t))
      <4> HIDE DEF T
      <4> QED
        BY <1>4, AppendTurn
    <3>3. e \in Ios /\ e.queue = Q /\ e.strand = d.strand
      <4> HIDE DEF d, Q
      <4> QED
        BY <2>3, <3>2, QueueIs
    <3>4. InLine(Q, W, s)
      <4> HIDE DEF W, Q
      <4> QED
        BY <2>4, <2>7, <3>2 DEF InLine
    <3>5. \A t \in Strands \ {s} : InLine(Q, q.strand[t], t)
      <4> HIDE DEF T, Q
      <4> QED
        BY <1>4, <3>2 DEF Shape, InLine
    <3>6. \A t \in Strands : InLine(e.queue, e.strand[t], t)
      <4> HIDE DEF d, r, W, T, Q, e
      <4> QED
        BY <2>2, <2>3, <2>5, <3>3, <3>4, <3>5
    <3>7. Ran(q, e, s)
      <4> HIDE DEF d, r, W, e
      <4> QED
        BY <1>6, <2>2, <2>3, <2>4, <2>5, <2>7, <3>3 DEF Ran, Others
    <3> QED
      BY <3>1, <3>3, <3>6, <3>7 DEF Shape
  <2> QED
    BY <2>6, <2>7
<1> QED
  BY <1>5, <1>6

(***************************************************************************)
(* What they leave as it was                                               *)
(***************************************************************************)
NoTurns(J) == \A s \in Strands : TurnOf(s) \notin J

\* The jobs of q that are not turns are those of p, as often.
Alike(q, p) == \A J : NoTurns(J) => /\ Has(p.queue, J) <=> Has(q.queue, J)
                                    /\ Once(q.queue, J) => Once(p.queue, J)

LEMMA AlikeIs ==
  ASSUME NEW q, NEW p, Alike(q, p), NEW J, NoTurns(J)
  PROVE  /\ Has(p.queue, J) <=> Has(q.queue, J)
         /\ Once(q.queue, J) => Once(p.queue, J)
BY DEF Alike

LEMMA AlikeSelf == ASSUME NEW q PROVE Alike(q, q)
BY DEF Alike

LEMMA AlikeTrans ==
  ASSUME NEW q, NEW p, NEW r, Alike(q, p), Alike(p, r)
  PROVE  Alike(q, r)
BY DEF Alike

LEMMA TurnsApart == /\ \A c : NoTurns(Reads(c))
                    /\ NoTurns(OnAccepts)
BY Apart DEF NoTurns

LEMMA PostedAlike ==
  ASSUME NEW q, Shape(q), NEW p, NEW s \in Strands, NEW h, Posted(q, p, s, h)
  PROVE  Alike(q, p)
<1>1. q.queue \in Seq(Jobs) /\ TurnOf(s) \in Jobs
  BY ShapeParts, Kinds
<1>2. ASSUME NEW J, NoTurns(J)
      PROVE  /\ Has(p.queue, J) <=> Has(q.queue, J)
             /\ Once(q.queue, J) => Once(p.queue, J)
  <2>1. TurnOf(s) \notin J
    BY <1>2 DEF NoTurns
  <2>2. CASE p.queue = q.queue
    BY <2>2
  <2>3. CASE p.queue = Append(q.queue, TurnOf(s))
    BY <1>1, <2>1, <2>3, AppendJob
  <2> QED
    BY <2>2, <2>3 DEF Posted
<1> QED
  BY <1>2 DEF Alike

LEMMA RanAlike ==
  ASSUME NEW q, Shape(q), NEW p, NEW s \in Strands, q.queue # <<>>,
         Head(q.queue) = TurnOf(s), Ran(q, p, s)
  PROVE  Alike(q, p)
<1>1. q.queue \in Seq(Jobs) /\ TurnOf(s) \in Jobs
  BY ShapeParts, Kinds
<1>2. ASSUME NEW J, NoTurns(J)
      PROVE  /\ Has(p.queue, J) <=> Has(q.queue, J)
             /\ Once(q.queue, J) => Once(p.queue, J)
  <2>1. TurnOf(s) \notin J
    BY <1>2 DEF NoTurns
  <2>2. CASE p.queue = q.queue
    BY <2>2
  <2> DEFINE T == Tail(q.queue)
  <2>3. /\ T \in Seq(Jobs)
        /\ Has(T, J) <=> Has(q.queue, J)
        /\ Once(q.queue, J) => Once(T, J)
    BY <1>1, <2>1, TailJobs
  <2> HIDE DEF T
  <2>4. CASE p.queue = T
    BY <2>3, <2>4
  <2>5. CASE p.queue = Append(T, TurnOf(s))
    BY <1>1, <2>1, <2>3, <2>5, AppendJob
  <2> QED
    BY <2>2, <2>4, <2>5 DEF Ran, T
<1> QED
  BY <1>2 DEF Alike

(* The handlers posted to the kernel's strand.                             *)
KHas(q, J) == Has(q.strand[Kernel].ready, J) \/ Has(q.strand[Kernel].waiting, J)

LEMMA KernelIs == Kernel \in Strands /\ Kernel \notin Watchers /\ Watchers \subseteq Strands
BY ConnsAssumption DEF Strands, Conns

LEMMA KHasPosted ==
  ASSUME NEW q, Shape(q), NEW p, NEW h \in Handlers, Posted(q, p, Kernel, h), NEW J
  PROVE  KHas(p, J) <=> KHas(q, J) \/ h \in J
<1>1. /\ q.strand[Kernel].ready \in Seq(Handlers) /\ q.strand[Kernel].waiting \in Seq(Handlers)
      /\ ~q.strand[Kernel].locked => q.strand[Kernel].ready = <<>> /\ q.strand[Kernel].waiting = <<>>
  BY KernelIs, ShapeParts
<1>2. CASE q.strand[Kernel].locked
  <2>1. Has(Append(q.strand[Kernel].waiting, h), J) <=> Has(q.strand[Kernel].waiting, J) \/ h \in J
    BY <1>1, AppendJob
  <2> QED
    BY <1>2, <2>1 DEF Posted, KHas
<1>3. CASE ~q.strand[Kernel].locked
  BY <1>1, <1>3, OneJob DEF Posted, KHas
<1> QED
  BY <1>2, <1>3

LEMMA KHasRan ==
  ASSUME NEW q, Shape(q), NEW p, Ran(q, p, Kernel), NEW J,
         q.queue # <<>>, Head(q.queue) = TurnOf(Kernel)
  PROVE  /\ KHas(p, J) => KHas(q, J)
         /\ KHas(q, J) => KHas(p, J) \/ Head(q.strand[Kernel].ready) \in J
         /\ Head(q.strand[Kernel].ready) \in J => KHas(q, J)
         /\ Head(q.strand[Kernel].ready) \in Handlers
<1>1. /\ q.strand[Kernel].ready \in Seq(Handlers) /\ q.strand[Kernel].waiting \in Seq(Handlers)
      /\ q.strand[Kernel].ready # <<>>
  <2>1. Has(q.queue, Turn(Kernel))
    <3>1. Head(q.queue) \in Turn(Kernel) /\ q.queue \in Seq(Jobs)
      BY ShapeParts DEF Turn
    <3> QED
      BY <3>1, TailJobs
  <2> QED
    BY <2>1, KernelIs, ShapeParts
<1>2. /\ Has(q.strand[Kernel].ready, J) <=>
           Head(q.strand[Kernel].ready) \in J \/ Has(Tail(q.strand[Kernel].ready), J)
      /\ Head(q.strand[Kernel].ready) \in Handlers
  BY <1>1, TailJobs
<1>3. ~Has(<<>>, J)
  BY OneJob
<1> QED
  BY <1>2, <1>3 DEF Ran, KHas

LEMMA KHasOther ==
  ASSUME NEW q, NEW p, NEW J,
         \/ p.strand = q.strand
         \/ \E w \in Watchers : Others(q, p, w)
  PROVE  KHas(p, J) <=> KHas(q, J)
BY KernelIs DEF Others, KHas

(***************************************************************************)
(* Sets as sequences                                                       *)
(***************************************************************************)
LEMMA SetSequence ==
  ASSUME NEW S, IsFiniteSet(S)
  PROVE  /\ SetToSeq(S) \in Seq(S) /\ ToSet(SetToSeq(S)) = S
         /\ \A i, j \in DOMAIN SetToSeq(S) : SetToSeq(S)[i] = SetToSeq(S)[j] => i = j
<1> DEFINE n == Cardinality(S)
           f == SetToSeq(S)
           Inj(g) == IsInjective(g)
<1>1. n \in Nat /\ ExistsBijection(1..n, S)
  BY FS_CardinalityType
<1>2. PICK g \in [1..n -> S] : Inj(g)
  BY <1>1 DEF ExistsBijection, Bijection, Injection
<1>3. f \in [1..n -> S] /\ Inj(f)
  <2> HIDE DEF Inj, n
  <2>1. f = CHOOSE h \in [1..n -> S] : Inj(h)
    BY Zenon DEF SetToSeq, Inj, n
  <2> HIDE DEF f
  <2> QED
    BY <1>2, <2>1
<1>4. f \in Seq(S) /\ DOMAIN f = 1..n
  <2> HIDE DEF f, n
  <2> QED
    BY <1>1, <1>3, FunctionIsSeq
<1>5. \A x \in S : \E i \in 1..n : f[i] = x
  <2>1. \A i \in 1..n : f[i] \in S
    BY <1>3
  <2> DEFINE R == {f[i] : i \in 1..n}
  <2>2. R \in SUBSET S
    BY <2>1
  <2>3. ExistsBijection(1..n, R)
    <3>1. f \in Bijection(1..n, R)
      BY <1>3 DEF Bijection, Injection, Surjection, IsInjective
    <3> QED
      BY <3>1 DEF ExistsBijection
  <2>4. Cardinality(R) = n
    <3> HIDE DEF f, n, R
    <3> QED
      BY <1>1, <2>3, FS_CountingElements
  <2>5. R = S
    <3> HIDE DEF f, R
    <3> QED
      BY <2>2, <2>4, FS_Subset
  <2> QED
    BY <2>5
<1>6. ToSet(f) = S
  BY <1>3, <1>4, <1>5 DEF ToSet
<1>7. \A i, j \in DOMAIN f : f[i] = f[j] => i = j
  BY <1>3 DEF IsInjective
<1> QED
  BY <1>4, <1>6, <1>7

LEMMA SetSequences ==
  ASSUME NEW S, IsFiniteSet(S), NEW ws \in SetToSeqs(S)
  PROVE  ws \in Seq(S)
<1>1. Cardinality(S) \in Nat /\ ws \in [1..Cardinality(S) -> S]
  BY FS_CardinalityType DEF SetToSeqs
<1> QED
  BY <1>1, FunctionIsSeq

LEMMA ConnsFinite == \A S \in SUBSET Conns : IsFiniteSet(S)
BY ConnsAssumption, FS_Subset

(***************************************************************************)
(* Cancelled reads                                                         *)
(***************************************************************************)
\* new holds a read for each member of S, and nothing else.
ReadsFor(new, S) == /\ new \in Seq(Jobs)
                    /\ \A s \in Strands : ~Has(new, Turn(s))
                    /\ ~Has(new, OnAccepts)
                    /\ \A c : Has(new, Reads(c)) <=> c \in S
                    /\ \A c : Once(new, Reads(c))

LEMMA Aborts ==
  ASSUME NEW q, Shape(q), NEW S \in SUBSET Conns
  PROVE  /\ Shape(Aborted(q, S))
         /\ \E new : ReadsFor(new, S \cap reading) /\ Grown(q, Aborted(q, S), new)
<1> DEFINE A == S \cap reading
           ended == SetToSeq(A)
           new == [k \in DOMAIN ended |-> Failed(ended[k])]
<1>1. /\ ended \in Seq(A) /\ ToSet(ended) = A
      /\ \A i, j \in DOMAIN ended : ended[i] = ended[j] => i = j
  <2>1. IsFiniteSet(A)
    BY ConnsFinite
  <2> HIDE DEF A
  <2> QED
    BY <2>1, SetSequence
<1>2. DOMAIN ended = 1..Len(ended) /\ Len(ended) \in Nat /\ \A k \in DOMAIN ended : ended[k] \in Conns
  <2>1. A \subseteq Conns
    OBVIOUS
  <2> HIDE DEF A, ended
  <2> QED
    BY <1>1, <2>1
<1>3. DOMAIN new = DOMAIN ended /\ \A k \in DOMAIN ended : new[k] = Failed(ended[k])
  OBVIOUS
<1>4. new \in Seq(Jobs)
  <2>1. new \in [1..Len(ended) -> Jobs]
    <3> HIDE DEF ended
    <3> QED
      BY <1>2, <1>3, Kinds
  <2> HIDE DEF new
  <2> QED
    BY <1>2, <2>1, FunctionIsSeq
<1>5. Aborted(q, S) = [q EXCEPT !.queue = @ \o new]
  BY DEF Aborted, Failed
<1> HIDE DEF new
<1>6. \A s \in Strands : ~Has(new, Turn(s))
  <2> HIDE DEF ended
  <2> QED
    BY <1>3, Apart DEF Has, Turn
<1>7. ~Has(new, OnAccepts)
  <2> HIDE DEF ended
  <2> QED
    BY <1>3, Apart DEF Has
<1>8. ASSUME NEW c PROVE (Has(new, Reads(c)) <=> c \in A) /\ Once(new, Reads(c))
  <2>1. \A k \in DOMAIN ended : new[k] \in Reads(c) <=> ended[k] = c
    <3> HIDE DEF ended
    <3> QED
      BY <1>3, Apart
  <2>2. c \in A <=> \E k \in DOMAIN ended : ended[k] = c
    <3>1. c \in ToSet(ended) <=> \E k \in DOMAIN ended : ended[k] = c
      BY DEF ToSet
    <3> HIDE DEF ended, A
    <3> QED
      BY <1>1, <3>1
  <2> HIDE DEF ended, A
  <2> QED
    BY <1>1, <1>3, <2>1, <2>2 DEF Has, Once
<1>9. Shape(Aborted(q, S)) /\ Grown(q, Aborted(q, S), new)
  BY <1>4, <1>5, <1>6, Grows
<1>10. ReadsFor(new, A)
  <2> HIDE DEF A
  <2> QED
    BY <1>4, <1>6, <1>7, <1>8 DEF ReadsFor
<1> QED
  BY <1>9, <1>10

(***************************************************************************)
(* Sends                                                                   *)
(***************************************************************************)
\* What was sent to a watcher: w was written, the rest of p waits in line.
Numbered(R, W, p, w) ==
  /\ p = Len(w) + Len(R) + Len(W)
  /\ \A i \in DOMAIN R : R[i] = SendOf(Len(w) + i)
  /\ \A i \in DOMAIN W : W[i] = SendOf(Len(w) + Len(R) + i)

\* The same of the strand of a watcher.
InOrder(L, p, w) == Numbered(L.ready, L.waiting, p, w)

LEMMA Sums ==
  /\ \A a, b, d, i \in Nat : a + (i + 1) = (a + 1) + i
  /\ \A a, b, d, i \in Nat : i = d + 1 => (a + b + d) + 1 = a + b + i
  /\ \A a, b, d \in Nat : (a + b + d) + 1 = a + b + (d + 1)
  /\ \A a, b, d, i \in Nat : b > 0 => a + b + i = (a + 1) + (b - 1) + i
  /\ \A a, d, i \in Nat : i \in 1..(d + 1) /\ i # d + 1 => i \in 1..d
  /\ \A b, i \in Nat : i \in 1..(b - 1) => i + 1 \in 1..b
OBVIOUS

LEMMA NumberedPosted ==
  ASSUME NEW q, Shape(q), NEW p, NEW c \in Watchers, NEW n \in Nat, NEW w \in Seq(Nat),
         InOrder(q.strand[c], n, w), Posted(q, p, c, SendOf(n + 1))
  PROVE  InOrder(p.strand[c], n + 1, w)
<1> DEFINE R == q.strand[c].ready
           W == q.strand[c].waiting
           e == SendOf(n + 1)
           V == Append(W, e)
           a == Len(w)
           b == Len(R)
           d == Len(W)
<1>1. /\ R \in Seq(Handlers) /\ W \in Seq(Handlers) /\ a \in Nat /\ b \in Nat /\ d \in Nat
      /\ DOMAIN R = 1..b /\ DOMAIN W = 1..d
  BY KernelIs, ShapeParts
<1>2. /\ n = a + b + d
      /\ \A i \in DOMAIN R : R[i] = SendOf(a + i)
      /\ \A i \in DOMAIN W : W[i] = SendOf(a + b + i)
  BY DEF InOrder, Numbered
<1>3. CASE q.strand[c].locked
  <2>1. p.strand[c].ready = R /\ p.strand[c].waiting = V
    BY <1>3 DEF Posted
  <2>2. e \in Handlers
    BY Kinds
  <2>3. /\ V \in Seq(Handlers) /\ Len(V) = d + 1 /\ DOMAIN V = 1..(d + 1)
        /\ \A i \in 1..d : V[i] = W[i]
        /\ V[d + 1] = e
    <3> HIDE DEF e, W
    <3>1. /\ V \in Seq(Handlers) /\ Len(V) = Len(W) + 1
          /\ \A i \in 1..Len(W) : V[i] = W[i]
          /\ V[Len(W) + 1] = e
      BY <1>1, <2>2, AppendProperties
    <3>2. DOMAIN V = 1..Len(V)
      BY <3>1
    <3> QED
      BY <3>1, <3>2
  <2> HIDE DEF a, b, d, R, W, V
  <2>4. \A i \in 1..(d + 1) : V[i] = SendOf(a + b + i)
    <3> TAKE i \in 1..(d + 1)
    <3>1. i \in Nat
      BY <1>1
    <3>2. CASE i = d + 1
      <4>1. n + 1 = a + b + i
        BY <1>1, <1>2, <3>1, <3>2, Sums
      <4> QED
        BY <2>3, <3>2, <4>1
    <3>3. CASE i # d + 1
      <4>1. i \in 1..d
        BY <1>1, <3>1, <3>3, Sums
      <4> QED
        BY <1>1, <1>2, <2>3, <4>1
    <3> QED
      BY <3>2, <3>3
  <2>5. n + 1 = a + b + (d + 1)
    BY <1>1, <1>2, Sums
  <2>6. /\ n + 1 = Len(w) + Len(R) + Len(V)
        /\ \A i \in DOMAIN R : R[i] = SendOf(Len(w) + i)
        /\ \A i \in DOMAIN V : V[i] = SendOf(Len(w) + Len(R) + i)
    BY <1>2, <2>3, <2>4, <2>5 DEF a, b
  <2> QED
    BY <2>1, <2>6 DEF InOrder, Numbered
<1>4. CASE ~q.strand[c].locked
  <2>1. p.strand[c].ready = <<e>> /\ p.strand[c].waiting = <<>> /\ R = <<>> /\ W = <<>>
    BY <1>4, KernelIs, ShapeParts DEF Posted
  <2>2. n = a
    BY <1>1, <1>2, <2>1
  <2>3. DOMAIN <<e>> = {1} /\ <<e>>[1] = e /\ Len(<<e>>) = 1 /\ Len(<<>>) = 0 /\ DOMAIN <<>> = {}
    OBVIOUS
  <2>4. n + 1 = a + 1 + 0
    BY <1>1, <2>2
  <2>5. <<e>>[1] = SendOf(a + 1)
    BY <2>2, <2>3
  <2>6. /\ n + 1 = Len(w) + Len(<<e>>) + Len(<<>>)
        /\ \A i \in DOMAIN <<e>> : <<e>>[i] = SendOf(Len(w) + i)
        /\ \A i \in DOMAIN <<>> : <<>>[i] = SendOf(Len(w) + Len(<<e>>) + i)
    <3> HIDE DEF e
    <3> QED
      BY <2>3, <2>4, <2>5
  <2> HIDE DEF e
  <2> QED
    BY <2>1, <2>6 DEF InOrder, Numbered
<1> QED
  BY <1>3, <1>4

\* The first send that is ready has been written.
LEMMA NumberedRan ==
  ASSUME NEW q, Shape(q), NEW p, NEW c \in Watchers, NEW n \in Nat, NEW w \in Seq(Nat),
         InOrder(q.strand[c], n, w), Ran(q, p, c), q.strand[c].ready # <<>>
  PROVE  /\ Head(q.strand[c].ready).n = Len(w) + 1
         /\ InOrder(p.strand[c], n, Append(w, Len(w) + 1))
<1> DEFINE R == q.strand[c].ready
           W == q.strand[c].waiting
           T == Tail(R)
           v == Append(w, Len(w) + 1)
           a == Len(w)
           b == Len(R)
           d == Len(W)
<1>1. /\ R \in Seq(Handlers) /\ W \in Seq(Handlers) /\ a \in Nat /\ b \in Nat /\ d \in Nat
      /\ DOMAIN R = 1..b /\ DOMAIN W = 1..d
  BY KernelIs, ShapeParts
<1>2. /\ n = a + b + d
      /\ \A i \in 1..b : R[i] = SendOf(a + i)
      /\ \A i \in 1..d : W[i] = SendOf(a + b + i)
  BY <1>1 DEF InOrder, Numbered
<1>3. /\ b > 0 /\ Head(R) = R[1] /\ Len(T) = b - 1 /\ DOMAIN T = 1..(b - 1)
      /\ \A i \in 1..(b - 1) : T[i] = R[i + 1]
  BY <1>1
<1>4. Len(v) = a + 1
  OBVIOUS
<1> HIDE DEF a, b, d, v, T, R, W
<1>5. Head(R).n = a + 1
  <2>1. R[1] = SendOf(a + 1)
    BY <1>1, <1>2, <1>3
  <2> QED
    BY <1>3, <2>1 DEF SendOf
<1>6. \A i \in 1..(b - 1) : T[i] = SendOf((a + 1) + i)
  <2> TAKE i \in 1..(b - 1)
  <2>1. i + 1 \in 1..b /\ a + (i + 1) = (a + 1) + i
    BY <1>1, Sums
  <2> QED
    BY <1>2, <1>3, <2>1
<1>7. \A i \in 1..d : W[i] = SendOf((a + 1) + (b - 1) + i)
  <2> TAKE i \in 1..d
  <2>1. a + b + i = (a + 1) + (b - 1) + i
    BY <1>1, <1>3, Sums
  <2> QED
    BY <1>2, <2>1
<1>8. n = (a + 1) + (b - 1) + d
  BY <1>1, <1>2, <1>3, Sums
<1>9. Len(<<>>) = 0 /\ DOMAIN <<>> = {}
  OBVIOUS
<1>10. Len(W) = d /\ Len(R) = b /\ Len(w) = a
  BY DEF a, b, d
<1>11. Numbered(T, W, n, v)
  BY <1>1, <1>3, <1>4, <1>6, <1>7, <1>8, <1>10 DEF Numbered
<1>12. ASSUME T = <<>> PROVE b - 1 = 0
  BY <1>3, <1>9, <1>12
<1>13. ASSUME T = <<>>, W = <<>> PROVE Numbered(<<>>, <<>>, n, v)
  BY <1>11, <1>13
<1>14. ASSUME T = <<>> PROVE Numbered(W, <<>>, n, v)
  <2>1. n = (a + 1) + d + 0
    BY <1>1, <1>8, <1>12, <1>14
  <2>2. \A i \in 1..d : (a + 1) + (b - 1) + i = (a + 1) + i
    BY <1>1, <1>12, <1>14
  <2>3. \A i \in 1..d : W[i] = SendOf((a + 1) + i)
    BY <1>7, <2>2
  <2> QED
    BY <1>1, <1>4, <1>9, <1>10, <2>1, <2>3 DEF Numbered
<1>15. InOrder(p.strand[c], n, v)
  BY <1>11, <1>13, <1>14 DEF Ran, InOrder, T, W, R
<1> QED
  BY <1>5, <1>10, <1>15 DEF v, R

(* Lua's calls of send, one after the other.                               *)
Sent(q, acc, ws) ==
  /\ acc \in [q : Ios, n : [Watchers -> Nat]]
  /\ Shape(acc.q) /\ Alike(q, acc.q)
  /\ acc.q.strand[Kernel] = q.strand[Kernel]
  /\ \A c \in Watchers : c \notin ws =>
       /\ acc.q.strand[c] = q.strand[c] /\ acc.n[c] = posted[c]
       /\ Before(q.queue, Turn(c), Turn(Kernel)) => Before(acc.q.queue, Turn(c), Turn(Kernel))
  /\ \A c : Before(q.queue, Reads(c), Turn(Kernel)) => Before(acc.q.queue, Reads(c), Turn(Kernel))
  /\ \A c \in Watchers : InOrder(q.strand[c], posted[c], written[c]) =>
                           InOrder(acc.q.strand[c], acc.n[c], written[c])

LEMMA SendStep ==
  ASSUME NEW q, NEW ws, NEW acc, Sent(q, acc, ws), NEW w \in Watchers, w \in ws,
         Shape(q), \A c \in Watchers : written[c] \in Seq(Nat)
  PROVE  Sent(q, Send(acc, w), ws)
<1> DEFINE a == acc.q
           m == acc.n
           p == Post(a, w, SendOf(m[w] + 1))
           n == [m EXCEPT ![w] = @ + 1]
<1>1. /\ acc \in [q : Ios, n : [Watchers -> Nat]]
      /\ Shape(a) /\ Alike(q, a) /\ a.strand[Kernel] = q.strand[Kernel]
      /\ a \in Ios /\ m \in [Watchers -> Nat] /\ m[w] \in Nat
  BY DEF Sent
<1>2. Send(acc, w) = [q |-> p, n |-> n]
  BY DEF Send, SendOf
<1>3. n \in [Watchers -> Nat] /\ n[w] = m[w] + 1 /\ \A c \in Watchers \ {w} : n[c] = m[c]
  <2> HIDE DEF m
  <2> QED
    BY <1>1
<1> HIDE DEF n
<1>4. w \in Strands /\ Kernel \in Strands /\ w # Kernel /\ SendOf(m[w] + 1) \in Handlers
      /\ Watchers \subseteq Strands
  <2>1. m[w] + 1 \in Nat
    BY <1>1
  <2> QED
    BY <2>1, KernelIs, Kinds
<1>5. Shape(p) /\ Posted(a, p, w, SendOf(m[w] + 1))
  BY <1>1, <1>4, Posts
<1> HIDE DEF p, a, m
<1>6. /\ p \in Ios /\ Alike(a, p) /\ Alike(q, p)
      /\ p.strand[Kernel] = q.strand[Kernel]
  <2>1. Alike(a, p)
    BY <1>1, <1>4, <1>5, PostedAlike
  <2>2. p \in Ios
    BY <1>5, ShapeParts
  <2> QED
    BY <1>1, <1>4, <1>5, <2>1, <2>2, AlikeTrans DEF Posted, Others
<1>7. /\ a.queue \in Seq(Jobs) /\ TurnOf(w) \in Jobs
      /\ p.queue = a.queue \/ p.queue = Append(a.queue, TurnOf(w))
  BY <1>1, <1>4, <1>5, ShapeParts, Kinds DEF Posted
<1>8. ASSUME NEW J, TurnOf(w) \notin J, Before(a.queue, J, Turn(Kernel))
      PROVE  Before(p.queue, J, Turn(Kernel))
  <2>1. CASE p.queue = a.queue
    BY <1>8, <2>1
  <2>2. CASE p.queue = Append(a.queue, TurnOf(w))
    BY <1>7, <1>8, <2>2, AppendOrder
  <2> QED
    BY <1>7, <2>1, <2>2
<1>9. ASSUME NEW c \in Watchers, c \notin ws
      PROVE  /\ p.strand[c] = q.strand[c] /\ n[c] = posted[c]
             /\ Before(q.queue, Turn(c), Turn(Kernel)) => Before(p.queue, Turn(c), Turn(Kernel))
  <2>1. c # w /\ TurnOf(w) \notin Turn(c)
    BY <1>9, Apart DEF Turn
  <2>2. /\ a.strand[c] = q.strand[c] /\ m[c] = posted[c]
        /\ Before(q.queue, Turn(c), Turn(Kernel)) => Before(a.queue, Turn(c), Turn(Kernel))
    BY <1>9 DEF Sent, a, m
  <2>3. p.strand[c] = a.strand[c] /\ n[c] = m[c]
    BY <1>3, <1>4, <1>5, <2>1 DEF Posted, Others
  <2> QED
    BY <1>8, <2>1, <2>2, <2>3
<1>10. ASSUME NEW c, Before(q.queue, Reads(c), Turn(Kernel))
       PROVE  Before(p.queue, Reads(c), Turn(Kernel))
  <2>1. TurnOf(w) \notin Reads(c)
    BY Apart
  <2>2. Before(a.queue, Reads(c), Turn(Kernel))
    BY <1>10 DEF Sent, a
  <2> QED
    BY <1>8, <2>1, <2>2
<1>11. ASSUME NEW c \in Watchers, InOrder(q.strand[c], posted[c], written[c])
       PROVE  InOrder(p.strand[c], n[c], written[c])
  <2>1. InOrder(a.strand[c], m[c], written[c])
    BY <1>11 DEF Sent, a, m
  <2>2. CASE c = w
    <3>1. written[w] \in Seq(Nat) /\ InOrder(a.strand[w], m[w], written[w])
      BY <2>1, <2>2
    <3>2. InOrder(p.strand[w], m[w] + 1, written[w])
      BY <1>1, <1>5, <3>1, NumberedPosted
    <3> QED
      BY <1>3, <2>2, <3>2
  <2>3. CASE c # w
    <3>1. p.strand[c] = a.strand[c] /\ n[c] = m[c]
      BY <1>3, <1>4, <1>5, <2>3 DEF Posted, Others
    <3> QED
      BY <2>1, <3>1
  <2> QED
    BY <2>2, <2>3
<1> DEFINE s == [q |-> p, n |-> n]
<1>12. s \in [q : Ios, n : [Watchers -> Nat]] /\ s.q = p /\ s.n = n
  BY <1>3, <1>6
<1> HIDE DEF s
<1>13. Sent(q, s, ws)
  BY <1>5, <1>6, <1>9, <1>10, <1>11, <1>12 DEF Sent
<1> QED
  BY <1>2, <1>13 DEF s

LEMMA SendsSent ==
  ASSUME NEW q, Shape(q), NEW ws \in Seq(Watchers), posted \in [Watchers -> Nat],
         \A c \in Watchers : written[c] \in Seq(Nat)
  PROVE  Sent(q, Sends(ws, q), {w \in ToSet(ws) : Held(w)})
<1> DEFINE H == {w \in ToSet(ws) : Held(w)}
           N == Len(ws)
           Accs == [q : Ios, n : [Watchers -> Nat]]
           X == {acc \in Accs : Sent(q, acc, H)}
           x0 == [q |-> q, n |-> posted]
           St(i) == [x \in X |-> IF i \in 1..N THEN IF Held(ws[i]) THEN Send(x, ws[i]) ELSE x ELSE x]
           step == [i \in Nat |-> St(i)]
           Body(h, i) == IF i = 0 THEN [q |-> q, n |-> posted]
                         ELSE IF Held(ws[i]) THEN Send(h[i - 1], ws[i]) ELSE h[i - 1]
           Upto(h) == h = [i \in 0..Len(ws) |-> Body(h, i)]
<1>1. N \in Nat /\ \A i \in 1..N : ws[i] \in Watchers /\ ws[i] \in ToSet(ws)
  BY DEF ToSet
<1>2. x0 \in X
  <2>1. x0 \in Accs /\ x0.q = q /\ x0.n = posted
    BY ShapeParts
  <2>2. Sent(q, x0, H)
    <3> HIDE DEF x0, H
    <3> QED
      BY <2>1, AlikeSelf DEF Sent
  <2> QED
    BY <2>1, <2>2
<1>3. step \in Steps(X)
  <2>1. ASSUME NEW i \in Nat PROVE St(i) \in [X -> X]
    <3>1. ASSUME NEW x \in X, i \in 1..N, Held(ws[i]) PROVE Send(x, ws[i]) \in X
      <4>1. ws[i] \in Watchers /\ ws[i] \in H
        BY <1>1, <3>1
      <4>2. Sent(q, x, H)
        OBVIOUS
      <4> HIDE DEF H
      <4>3. Sent(q, Send(x, ws[i]), H)
        BY <4>1, <4>2, SendStep
      <4>4. Send(x, ws[i]) \in Accs
        BY <4>3 DEF Sent
      <4> QED
        BY <4>3, <4>4
    <3> HIDE DEF X
    <3> QED
      BY <3>1
  <2> HIDE DEF St, X
  <2> QED
    BY <2>1 DEF Steps
<1>4. PICK f \in [0..N -> X] : Unfolds(f, x0, step, N)
  <2> HIDE DEF step, N, X, x0
  <2> QED
    BY <1>1, <1>2, <1>3, FiniteRecursion
<1> HIDE DEF X
<1>5. Upto(f)
  <2>1. \A i \in 0..N : f[i] = Body(f, i)
    <3> USE DEF Unfolds
    <3> TAKE i \in 0..N
    <3>1. CASE i = 0
      BY <1>4, <3>1
    <3>2. CASE i # 0
      <4>1. i \in 1..N /\ i \in Nat /\ f[i - 1] \in X
        BY <1>1, <1>4, <3>2
      <4>2. f[i] = St(i)[f[i - 1]]
        BY <1>4, <4>1
      <4> QED
        BY <3>2, <4>1, <4>2
    <3> QED
      BY <3>1, <3>2
  <2>2. f = [i \in 0..N |-> f[i]]
    BY <1>4
  <2> HIDE DEF Body
  <2> QED
    BY <1>1, <2>1, <2>2
<1> DEFINE g == CHOOSE h : Upto(h)
<1>6. Upto(g)
  <2> HIDE DEF Upto
  <2> QED
    BY <1>5
<1>7. Sends(ws, q) = g[Len(ws)]
  BY Zenon DEF Sends
<1>8. \A i \in 0..N : g[i] = Body(g, i)
  <2> HIDE DEF Body, g
  <2> QED
    BY <1>1, <1>6
<1>9. \A i \in 0..N : f[i] = Body(f, i)
  <2> HIDE DEF Body
  <2> QED
    BY <1>1, <1>5
<1>10. g[N] = f[N]
  <2> DEFINE A == {i \in 0..N : g[i] = f[i]}
  <2>1. 0 \in A
    <3>1. 0 \in 0..N
      BY <1>1
    <3> HIDE DEF g
    <3> QED
      BY <3>1, <1>8, <1>9
  <2>2. \A i \in 0..(N - 1) : i \in A => i + 1 \in A
    <3> TAKE i \in 0..(N - 1)
    <3>1. i + 1 \in 0..N /\ i + 1 # 0 /\ (i + 1) - 1 = i
      BY <1>1
    <3> HIDE DEF g
    <3>2. i \in A => Body(g, i + 1) = Body(f, i + 1)
      BY <3>1
    <3> HIDE DEF Body
    <3> QED
      BY <1>8, <1>9, <3>1, <3>2
  <2> HIDE DEF A, g
  <2>3. 0..N \subseteq A
    BY <1>1, <2>1, <2>2, UpToInduction
  <2>4. N \in 0..N
    BY <1>1
  <2> QED
    BY <2>3, <2>4 DEF A
<1>11. f[N] \in X
  BY <1>1, <1>4
<1>12. Sent(q, f[N], H)
  BY <1>11 DEF X
<1> QED
  <2> HIDE DEF H, g
  <2>1. Sends(ws, q) = f[N]
    BY <1>7, <1>10
  <2>2. Sent(q, Sends(ws, q), H)
    BY <1>12, <2>1
  <2> QED
    BY <2>2 DEF H

(***************************************************************************)
(* How reads, accepts and closes come and go                               *)
(***************************************************************************)
HasRead(q, c) == Has(q.queue, Reads(c))
OneRead(q, c) == Once(q.queue, Reads(c))
HasAccept(q) == Has(q.queue, OnAccepts)
OneAccept(q) == Once(q.queue, OnAccepts)
Closes(q, c) == KHas(q, {CloseOf(c)})
Removes(q) == KHas(q, {Removal})

\* From q to p the reads of out have been run and those of in added.
Moved(q, p, out, in) ==
  \A c : /\ HasRead(p, c) => HasRead(q, c) \/ c \in in
         /\ (HasRead(q, c) /\ c \notin out) \/ c \in in => HasRead(p, c)
         /\ OneRead(q, c) /\ c \in out /\ c \notin in => ~HasRead(p, c)
         /\ OneRead(q, c) /\ (c \in in => c \in out \/ ~HasRead(q, c)) => OneRead(p, c)

SameAccepts(q, p) == /\ HasAccept(p) <=> HasAccept(q)
                     /\ OneAccept(q) => OneAccept(p)

LEMMA MovedOn ==
  ASSUME NEW q, NEW p, NEW r, NEW out, NEW in, Moved(q, p, out, {}), Moved(p, r, {}, in)
  PROVE  Moved(q, r, out, in)
BY DEF Moved

LEMMA MovedAlike ==
  ASSUME NEW q, NEW p, Alike(q, p)
  PROVE  Moved(q, p, {}, {}) /\ SameAccepts(q, p)
BY TurnsApart, AlikeIs DEF Moved, SameAccepts, HasRead, OneRead, HasAccept, OneAccept

LEMMA MovedThenAlike ==
  ASSUME NEW q, NEW p, NEW r, NEW out, NEW in, Moved(q, p, out, in), Alike(p, r)
  PROVE  Moved(q, r, out, in)
<1>1. Moved(p, r, {}, {})
  BY MovedAlike
<1> QED
  BY <1>1 DEF Moved

LEMMA SameAcceptsTrans ==
  ASSUME NEW q, NEW p, NEW r, SameAccepts(q, p), SameAccepts(p, r)
  PROVE  SameAccepts(q, r)
BY DEF SameAccepts

LEMMA MovedGrown ==
  ASSUME NEW q, Shape(q), NEW p, NEW new, NEW S, ReadsFor(new, S), Grown(q, p, new)
  PROVE  Moved(q, p, {}, S) /\ SameAccepts(q, p)
<1>1. q.queue \in Seq(Jobs) /\ new \in Seq(Jobs) /\ p.queue = q.queue \o new
  BY ShapeParts DEF ReadsFor, Grown
<1>2. ASSUME NEW c
      PROVE  /\ HasRead(p, c) <=> HasRead(q, c) \/ c \in S
             /\ OneRead(q, c) /\ ~(HasRead(q, c) /\ c \in S) => OneRead(p, c)
  <2>1. (Has(new, Reads(c)) <=> c \in S) /\ Once(new, Reads(c))
    BY DEF ReadsFor
  <2>2. Has(p.queue, Reads(c)) <=> Has(q.queue, Reads(c)) \/ Has(new, Reads(c))
    BY <1>1, HasConcat
  <2>3. Once(q.queue, Reads(c)) /\ ~(Has(q.queue, Reads(c)) /\ Has(new, Reads(c)))
          => Once(p.queue, Reads(c))
    BY <1>1, <2>1, OnceConcat
  <2> QED
    BY <2>1, <2>2, <2>3 DEF HasRead, OneRead
<1>3. Moved(q, p, {}, S)
  BY <1>2 DEF Moved
<1>4. Has(p.queue, OnAccepts) <=> Has(q.queue, OnAccepts)
  BY <1>1, HasConcat DEF ReadsFor
<1>5. Once(q.queue, OnAccepts) => Once(p.queue, OnAccepts)
  BY <1>1, OnceConcat, OnceNone DEF ReadsFor
<1> QED
  BY <1>3, <1>4, <1>5 DEF SameAccepts, HasAccept, OneAccept

LEMMA ReadsForOne ==
  ASSUME NEW c \in Conns, NEW j, j = Came(c) \/ j = Failed(c)
  PROVE  ReadsFor(<<j>>, {c})
<1>1. j \in Jobs /\ <<j>> \in Seq(Jobs)
  BY Kinds
<1>2. \A d : (j \in Reads(d) <=> d = c)
  BY Apart
<1>3. j \notin OnAccepts /\ \A s \in Strands : j \notin Turn(s)
  BY Apart DEF Turn
<1> QED
  BY <1>1, <1>2, <1>3, OneJob DEF ReadsFor

LEMMA EnqueuesRead ==
  ASSUME NEW q, Shape(q), NEW c \in Conns, NEW j, j = Came(c) \/ j = Failed(c)
  PROVE  /\ Shape(Enqueue(q, j)) /\ Enqueue(q, j).strand = q.strand
         /\ Moved(q, Enqueue(q, j), {}, {c}) /\ SameAccepts(q, Enqueue(q, j))
<1>1. j \in Jobs /\ \A s \in Strands : j # TurnOf(s)
  BY Kinds, Apart
<1>2. Shape(Enqueue(q, j)) /\ Grown(q, Enqueue(q, j), <<j>>)
  BY <1>1, Enqueues
<1>3. ReadsFor(<<j>>, {c})
  BY ReadsForOne
<1>4. Moved(q, Enqueue(q, j), {}, {c}) /\ SameAccepts(q, Enqueue(q, j))
  BY <1>2, <1>3, MovedGrown
<1> QED
  BY <1>2, <1>4 DEF Grown

LEMMA EnqueuesAccept ==
  ASSUME NEW q, Shape(q), NEW j \in {Accept, Accepted, Refused}
  PROVE  /\ Shape(Enqueue(q, j)) /\ Enqueue(q, j).strand = q.strand
         /\ Moved(q, Enqueue(q, j), {}, {})
         /\ j = Accept => SameAccepts(q, Enqueue(q, j))
         /\ ~HasAccept(q) => OneAccept(Enqueue(q, j))
<1> DEFINE p == Enqueue(q, j)
           new == <<j>>
<1>1. /\ j \in Jobs /\ \A s \in Strands : j # TurnOf(s)
      /\ \A c : j \notin Reads(c)
      /\ Accept \notin OnAccepts
  BY Kinds, Apart
<1>2. Shape(p) /\ Grown(q, p, <<j>>)
  BY <1>1, Enqueues
<1> HIDE DEF p
<1>3. q.queue \in Seq(Jobs) /\ new \in Seq(Jobs) /\ p.queue = q.queue \o new
  BY <1>1, <1>2, ShapeParts DEF Grown
<1>4. \A J : (Has(new, J) <=> j \in J) /\ Once(new, J)
  BY OneJob
<1> HIDE DEF new
<1>5. ASSUME NEW J, j \notin J
      PROVE  (Has(p.queue, J) <=> Has(q.queue, J)) /\ (Once(q.queue, J) => Once(p.queue, J))
  <2>1. Once(new, J) /\ ~Has(new, J)
    BY <1>4, <1>5
  <2>2. Has(p.queue, J) <=> Has(q.queue, J) \/ Has(new, J)
    BY <1>3, HasConcat
  <2>3. ASSUME Once(q.queue, J) PROVE Once(p.queue, J)
    BY <1>3, <2>1, <2>3, OnceConcat
  <2> QED
    BY <2>1, <2>2, <2>3
<1>6. Moved(q, p, {}, {})
  BY <1>1, <1>5 DEF Moved, HasRead, OneRead
<1>7. j = Accept => SameAccepts(q, p)
  BY <1>1, <1>5 DEF SameAccepts, HasAccept, OneAccept
<1>8. ASSUME ~HasAccept(q) PROVE OneAccept(p)
  <2>1. ~Has(q.queue, OnAccepts) /\ Once(q.queue, OnAccepts) /\ Once(new, OnAccepts)
    BY <1>4, <1>8, OnceNone DEF HasAccept
  <2>2. Once(p.queue, OnAccepts)
    BY <1>3, <2>1, OnceConcat
  <2> QED
    BY <2>2 DEF OneAccept
<1> QED
  BY <1>2, <1>6, <1>7, <1>8 DEF Grown, p

LEMMA PopsRead ==
  ASSUME NEW q, Shape(q), q.queue # <<>>, Head(q.queue).h = "read"
  PROVE  LET c == Head(q.queue).c IN
         /\ c \in Conns /\ HasRead(q, c)
         /\ Shape(Popped(q)) /\ Popped(q).strand = q.strand
         /\ Moved(q, Popped(q), {c}, {}) /\ SameAccepts(q, Popped(q))
<1> DEFINE j == Head(q.queue)
           c == j.c
           p == Popped(q)
<1>1. q.queue \in Seq(Jobs) /\ j \in Jobs
  BY ShapeParts, TailJobs
<1>2. c \in Conns /\ (j = Came(c) \/ j = Failed(c))
  BY <1>1, KindIs
<1>3. /\ \A s \in Strands : j # TurnOf(s)
      /\ \A d : j \in Reads(d) <=> d = c
      /\ j \notin OnAccepts
  BY <1>2, Apart
<1>4. Shape(p) /\ p.queue = Tail(q.queue) /\ p.strand = q.strand
  BY <1>3, Drops DEF Dropped
<1> HIDE DEF p
<1>5. \A J : /\ Has(q.queue, J) <=> j \in J \/ Has(p.queue, J)
             /\ Once(q.queue, J) => Once(p.queue, J) /\ ~(j \in J /\ Has(p.queue, J))
  BY <1>1, <1>4, TailJobs
<1> HIDE DEF j, c
<1>6. Moved(q, p, {c}, {}) /\ HasRead(q, c)
  BY <1>3, <1>5 DEF Moved, HasRead, OneRead
<1>7. SameAccepts(q, p)
  BY <1>3, <1>5 DEF SameAccepts, HasAccept, OneAccept
<1> QED
  BY <1>2, <1>4, <1>6, <1>7 DEF j, c, p

LEMMA PopsAccept ==
  ASSUME NEW q, Shape(q), q.queue # <<>>, Head(q.queue).h \in {"accept", "on_accept"}
  PROVE  /\ Shape(Popped(q)) /\ Popped(q).strand = q.strand
         /\ Moved(q, Popped(q), {}, {})
         /\ Head(q.queue).h = "accept" => SameAccepts(q, Popped(q))
         /\ Head(q.queue).h = "on_accept" => HasAccept(q)
         /\ Head(q.queue).h = "on_accept" /\ OneAccept(q) => ~HasAccept(Popped(q))
<1> DEFINE j == Head(q.queue)
           p == Popped(q)
<1>1. q.queue \in Seq(Jobs) /\ j \in Jobs
  BY ShapeParts, TailJobs
<1>2. /\ j.h = "accept" => j = Accept
      /\ j.h = "on_accept" => j = Accepted \/ j = Refused
  BY <1>1, KindIs
<1>3. /\ \A s \in Strands : j # TurnOf(s)
      /\ \A d : j \notin Reads(d)
      /\ j.h = "accept" => j \notin OnAccepts
      /\ j.h = "on_accept" => j \in OnAccepts
  BY <1>2, Apart
<1>4. Shape(p) /\ p.queue = Tail(q.queue) /\ p.strand = q.strand
  BY <1>3, Drops DEF Dropped
<1> HIDE DEF p
<1>5. \A J : /\ Has(q.queue, J) <=> j \in J \/ Has(p.queue, J)
             /\ Once(q.queue, J) => Once(p.queue, J) /\ ~(j \in J /\ Has(p.queue, J))
  BY <1>1, <1>4, TailJobs
<1> HIDE DEF j
<1>6. Moved(q, p, {}, {})
  BY <1>3, <1>5 DEF Moved, HasRead, OneRead
<1>7. j.h = "accept" => SameAccepts(q, p)
  BY <1>3, <1>5 DEF SameAccepts, HasAccept, OneAccept
<1>8. /\ j.h = "on_accept" => HasAccept(q)
      /\ j.h = "on_accept" /\ OneAccept(q) => ~HasAccept(p)
  BY <1>3, <1>5 DEF HasAccept, OneAccept
<1> QED
  BY <1>4, <1>6, <1>7, <1>8 DEF j, p

\* Cancelling reads appends them.
LEMMA Cancels ==
  ASSUME NEW q, Shape(q), NEW S \in SUBSET Conns
  PROVE  /\ Shape(Aborted(q, S)) /\ Aborted(q, S).strand = q.strand
         /\ Moved(q, Aborted(q, S), {}, S \cap reading) /\ SameAccepts(q, Aborted(q, S))
<1> DEFINE p == Aborted(q, S)
           A == S \cap reading
<1>1. Shape(p) /\ \E new : ReadsFor(new, A) /\ Grown(q, p, new)
  BY Aborts
<1> HIDE DEF p, A
<1>2. PICK new : ReadsFor(new, A) /\ Grown(q, p, new)
  BY <1>1
<1>3. Moved(q, p, {}, A) /\ SameAccepts(q, p) /\ p.strand = q.strand
  BY <1>2, MovedGrown DEF Grown
<1> QED
  BY <1>1, <1>3 DEF p, A

\* Of connection::stop, what concerns the io_service.
Stopped(q, p, c) ==
  /\ Shape(p)
  /\ \A w \in Watchers : p.strand[w] = q.strand[w]
  /\ Moved(q, p, {}, {c} \cap reading) /\ SameAccepts(q, p)
  /\ \A d : Closes(p, d) <=> Closes(q, d) \/ (c \in Watchers /\ d = c)
  /\ Removes(p) <=> Removes(q)

LEMMA StopsIO ==
  ASSUME NEW q, Shape(q), NEW c \in Conns
  PROVE  Stopped(q, StopIO(q, c), c)
<1> DEFINE a == Aborted(q, {c})
           p == StopIO(q, c)
           A == {c} \cap reading
<1>1. Shape(a) /\ a.strand = q.strand /\ Moved(q, a, {}, A) /\ SameAccepts(q, a)
  <2>1. {c} \in SUBSET Conns
    OBVIOUS
  <2> QED
    BY <2>1, Cancels
<1>2. \A J : KHas(a, J) <=> KHas(q, J)
  BY <1>1, KHasOther
<1>3. CASE c \in Watchers
  <2>1. p = Post(a, Kernel, CloseOf(c))
    BY <1>3 DEF StopIO, CloseOf
  <2> HIDE DEF a, p, A
  <2>2. CloseOf(c) \in Handlers /\ Kernel \in Strands
    BY <1>3, Kinds, KernelIs
  <2>3. Shape(p) /\ Posted(a, p, Kernel, CloseOf(c))
    BY <1>1, <2>1, <2>2, Posts
  <2>4. Alike(a, p)
    BY <1>1, <2>2, <2>3, PostedAlike
  <2>5. \A J : KHas(p, J) <=> KHas(a, J) \/ CloseOf(c) \in J
    BY <1>1, <2>2, <2>3, KHasPosted
  <2>6. \A d : Closes(p, d) <=> Closes(q, d) \/ d = c
    BY <1>2, <2>5, Apart DEF Closes
  <2>7. Removes(p) <=> Removes(q)
    BY <1>2, <2>5, Apart DEF Removes
  <2>8. \A w \in Watchers : p.strand[w] = q.strand[w]
    BY <1>1, <2>3, KernelIs DEF Posted, Others
  <2>9. Moved(q, p, {}, A) /\ SameAccepts(q, p)
    BY <1>1, <2>4, MovedThenAlike, MovedAlike, SameAcceptsTrans
  <2> QED
    BY <1>3, <2>3, <2>6, <2>7, <2>8, <2>9 DEF Stopped, p, A
<1>4. CASE c \notin Watchers
  <2>1. p = a
    BY <1>4 DEF StopIO
  <2> HIDE DEF a, p, A
  <2>2. /\ \A d : Closes(p, d) <=> Closes(q, d)
        /\ Removes(p) <=> Removes(q)
    BY <1>2, <2>1 DEF Closes, Removes
  <2> QED
    BY <1>1, <1>4, <2>1, <2>2 DEF Stopped, p, A
<1> QED
  BY <1>3, <1>4

(***************************************************************************)
(* The effect of each action on the io_service                             *)
(***************************************************************************)
\* From q to p: the reads that moved, and the watchers whose strand may differ.
Effect(q, p, out, in, lines) ==
  /\ Shape(p) /\ Moved(q, p, out, in)
  /\ \A c \in Watchers \ lines : p.strand[c] = q.strand[c]

SameKernel(q, p) == \A J : KHas(p, J) <=> KHas(q, J)

LEMMA SameStrands ==
  ASSUME NEW q, NEW p, p.strand = q.strand
  PROVE  SameKernel(q, p) /\ \A c \in Watchers : p.strand[c] = q.strand[c]
BY KHasOther DEF SameKernel

LEMMA NoEffect ==
  ASSUME NEW q, Shape(q)
  PROVE  Effect(q, q, {}, {}, {}) /\ SameKernel(q, q) /\ SameAccepts(q, q)
BY DEF Effect, Moved, SameKernel, SameAccepts

LEMMA ReadsOnIO ==
  ASSUME NEW q, Shape(q), NEW c \in Conns
  PROVE  /\ Effect(q, ReadsOn(c, q), {}, {c} \cap shut, {}) /\ SameKernel(q, ReadsOn(c, q))
         /\ SameAccepts(q, ReadsOn(c, q)) /\ ReadsOn(c, q).strand = q.strand
<1>1. CASE c \in shut
  <2> DEFINE p == Enqueue(q, Failed(c))
  <2>1. ReadsOn(c, q) = p /\ {c} \cap shut = {c}
    BY <1>1 DEF ReadsOn, Failed
  <2>2. /\ Shape(p) /\ p.strand = q.strand /\ Moved(q, p, {}, {c}) /\ SameAccepts(q, p)
    BY EnqueuesRead
  <2> HIDE DEF p
  <2> QED
    BY <2>1, <2>2, SameStrands DEF Effect
<1>2. CASE c \notin shut
  <2>1. ReadsOn(c, q) = q /\ {c} \cap shut = {}
    BY <1>2 DEF ReadsOn
  <2> QED
    BY <2>1, NoEffect
<1> QED
  BY <1>1, <1>2

LEMMA ConnectsIO ==
  ASSUME Shape(io), Connects
  PROVE  Effect(io, io', {}, {}, {}) /\ SameKernel(io, io') /\ SameAccepts(io, io')
<1>1. io' = Enqueue(io, Accept)
  BY DEF Connects, Peer, Accept
<1> DEFINE p == Enqueue(io, Accept)
<1>2. Shape(p) /\ p.strand = io.strand /\ Moved(io, p, {}, {}) /\ SameAccepts(io, p)
  BY EnqueuesAccept
<1> QED
  BY <1>1, <1>2, SameStrands DEF Effect

LEMMA FeederConnectsIO ==
  ASSUME Shape(io), NEW ok \in BOOLEAN, FeederConnects(ok)
  PROVE  Effect(io, io', {}, {}, {}) /\ SameKernel(io, io') /\ OneAccept(io')
<1> DEFINE j == IF ok THEN Accepted ELSE Refused
           p == Enqueue(io, j)
<1>1. io' = p
  BY DEF FeederConnects, Peer, Accepted, Refused
<1>2. ~HasAccept(io)
  BY DEF FeederConnects, FeederAccepting, HasAccept, Has, OnAccepts, Accepted, Refused
<1>3. j \in {Accept, Accepted, Refused}
  OBVIOUS
<1>4. Shape(p) /\ p.strand = io.strand /\ Moved(io, p, {}, {}) /\ OneAccept(p)
  <2> HIDE DEF j
  <2> QED
    BY <1>2, <1>3, EnqueuesAccept
<1> HIDE DEF p
<1> QED
  BY <1>1, <1>4, SameStrands DEF Effect

LEMMA PeerReadsIO ==
  ASSUME Shape(io), NEW c \in Conns, PeerWrites(c) \/ ReadEnds(c)
  PROVE  Effect(io, io', {}, {c}, {}) /\ SameKernel(io, io') /\ SameAccepts(io, io')
<1>1. io' = Enqueue(io, Came(c)) \/ io' = Enqueue(io, Failed(c))
  BY DEF PeerWrites, ReadEnds, Peer, Came, Failed
<1>2. ASSUME NEW j, j = Came(c) \/ j = Failed(c), io' = Enqueue(io, j)
      PROVE  Effect(io, io', {}, {c}, {}) /\ SameKernel(io, io') /\ SameAccepts(io, io')
  <2>1. /\ Shape(Enqueue(io, j)) /\ Enqueue(io, j).strand = io.strand
        /\ Moved(io, Enqueue(io, j), {}, {c}) /\ SameAccepts(io, Enqueue(io, j))
    BY <1>2, EnqueuesRead
  <2> QED
    BY <1>2, <2>1, SameStrands DEF Effect
<1> QED
  BY <1>1, <1>2

LEMMA AtAccept ==
  ASSUME Shape(io), HeadIs("accept") \/ HeadIs("on_accept")
  PROVE  /\ Effect(io, Popped(io), {}, {}, {}) /\ SameKernel(io, Popped(io))
         /\ Popped(io).strand = io.strand
         /\ HeadIs("accept") => SameAccepts(io, Popped(io))
         /\ HeadIs("on_accept") => HasAccept(io)
         /\ HeadIs("on_accept") /\ OneAccept(io) => ~HasAccept(Popped(io))
<1>1. io.queue # <<>> /\ Head(io.queue).h \in {"accept", "on_accept"}
      /\ (HeadIs("accept") => Head(io.queue).h = "accept")
      /\ (HeadIs("on_accept") => Head(io.queue).h = "on_accept")
  BY DEF HeadIs
<1> DEFINE p == Popped(io)
<1>2. /\ Shape(p) /\ p.strand = io.strand
      /\ Moved(io, p, {}, {})
      /\ Head(io.queue).h = "accept" => SameAccepts(io, p)
      /\ Head(io.queue).h = "on_accept" => HasAccept(io)
      /\ Head(io.queue).h = "on_accept" /\ OneAccept(io) => ~HasAccept(p)
  BY <1>1, PopsAccept
<1> HIDE DEF p
<1>3. SameKernel(io, p) /\ \A c \in Watchers : p.strand[c] = io.strand[c]
  BY <1>2, SameStrands
<1> QED
  BY <1>1, <1>2, <1>3 DEF Effect, p

LEMMA OnAcceptFailsIO ==
  ASSUME Shape(io), OneAccept(io), OnAcceptFails
  PROVE  /\ Effect(io, io', {}, {}, {}) /\ HasAccept(io) /\ ~HasAccept(io')
         /\ \A d : Closes(io', d) <=> Closes(io, d)
         /\ Removes(io')
<1> DEFINE p == Popped(io)
<1>1. /\ Shape(p) /\ Moved(io, p, {}, {}) /\ p.strand = io.strand /\ SameKernel(io, p)
      /\ HasAccept(io) /\ ~HasAccept(p)
  BY AtAccept DEF OnAcceptFails, Effect
<1>2. io' = Post(p, Kernel, Removal)
  BY DEF OnAcceptFails, Removal
<1> HIDE DEF p
<1>3. Removal \in Handlers /\ Kernel \in Strands
  BY Kinds, KernelIs
<1>4. Shape(io') /\ Posted(p, io', Kernel, Removal)
  BY <1>1, <1>2, <1>3, Posts
<1>5. Alike(p, io')
  BY <1>1, <1>3, <1>4, PostedAlike
<1>6. \A J : KHas(io', J) <=> KHas(p, J) \/ Removal \in J
  BY <1>1, <1>3, <1>4, KHasPosted
<1>7. Moved(io, io', {}, {}) /\ SameAccepts(p, io')
  BY <1>1, <1>5, MovedThenAlike, MovedAlike
<1>8. \A c \in Watchers : io'.strand[c] = io.strand[c]
  BY <1>1, <1>4, KernelIs DEF Posted, Others
<1>9. (\A d : Closes(io', d) <=> Closes(io, d)) /\ Removes(io')
  BY <1>1, <1>6, Apart DEF SameKernel, Closes, Removes
<1> QED
  BY <1>1, <1>4, <1>7, <1>8, <1>9 DEF Effect, SameAccepts

LEMMA AtRead ==
  ASSUME Shape(io), HeadIs("read")
  PROVE  /\ Head(io.queue).c \in Conns /\ HasRead(io, Head(io.queue).c)
         /\ Effect(io, Popped(io), {Head(io.queue).c}, {}, {})
         /\ Popped(io).strand = io.strand
         /\ SameKernel(io, Popped(io)) /\ SameAccepts(io, Popped(io))
<1>1. io.queue # <<>> /\ Head(io.queue).h = "read"
  BY DEF HeadIs
<1> DEFINE c == Head(io.queue).c
           p == Popped(io)
<1>2. /\ c \in Conns /\ HasRead(io, c)
      /\ Shape(p) /\ p.strand = io.strand
      /\ Moved(io, p, {c}, {}) /\ SameAccepts(io, p)
  BY <1>1, PopsRead
<1> HIDE DEF p, c
<1>3. SameKernel(io, p) /\ \A w \in Watchers : p.strand[w] = io.strand[w]
  BY <1>2, SameStrands
<1> QED
  BY <1>2, <1>3 DEF Effect, p, c

LEMMA OnReadFailsIO ==
  ASSUME Shape(io), NEW c \in Conns, OnReadFails(c)
  PROVE  /\ HasRead(io, c)
         /\ Effect(io, io', {c}, {c} \cap reading, {}) /\ SameAccepts(io, io')
         /\ \A d : Closes(io', d) <=> Closes(io, d) \/ (c \in Watchers /\ d = c)
         /\ Removes(io') <=> Removes(io)
<1>1. HeadIs("read") /\ c = Head(io.queue).c /\ io' = StopIO(Popped(io), c)
  BY DEF OnReadFails
<1> DEFINE p == Popped(io)
<1>2. /\ HasRead(io, c) /\ Shape(p) /\ Moved(io, p, {c}, {}) /\ p.strand = io.strand
      /\ SameKernel(io, p) /\ SameAccepts(io, p)
  BY <1>1, AtRead DEF Effect
<1>3. Stopped(p, io', c)
  <2>1. io' = StopIO(p, c)
    BY <1>1
  <2> HIDE DEF p
  <2> QED
    BY <1>2, <2>1, StopsIO
<1> HIDE DEF p
<1>4. /\ Shape(io')
      /\ \A w \in Watchers : io'.strand[w] = p.strand[w]
      /\ Moved(p, io', {}, {c} \cap reading) /\ SameAccepts(p, io')
      /\ \A d : Closes(io', d) <=> Closes(p, d) \/ (c \in Watchers /\ d = c)
      /\ Removes(io') <=> Removes(p)
  BY <1>3 DEF Stopped
<1>5. Moved(io, io', {c}, {c} \cap reading) /\ SameAccepts(io, io')
  BY <1>2, <1>4, MovedOn, SameAcceptsTrans
<1> QED
  BY <1>2, <1>4, <1>5 DEF Effect, SameKernel, Closes, Removes

LEMMA AtTurn ==
  ASSUME Shape(io), NEW s \in Strands, NEW kind, StrandIs(s, kind)
  PROVE  /\ io.queue # <<>> /\ Head(io.queue) = TurnOf(s)
         /\ io.strand[s].locked /\ io.strand[s].ready # <<>>
         /\ Head(io.strand[s].ready) \in Handlers /\ Head(io.strand[s].ready).h = kind
<1>1. io.queue # <<>> /\ Head(io.queue).h = "strand" /\ Head(io.queue).s = s
      /\ Head(io.strand[s].ready).h = kind
  BY DEF StrandIs, HeadIs
<1>2. io.queue \in Seq(Jobs) /\ Head(io.queue) \in Jobs
  BY <1>1, ShapeParts, TailJobs
<1>3. Head(io.queue) = TurnOf(s)
  BY <1>1, <1>2, KindIs
<1>4. Has(io.queue, Turn(s))
  BY <1>1, <1>2, <1>3, TailJobs DEF Turn
<1>5. io.strand[s].locked /\ io.strand[s].ready # <<>> /\ io.strand[s].ready \in Seq(Handlers)
  BY <1>4, ShapeParts
<1> QED
  BY <1>1, <1>3, <1>5, TailJobs

\* A watcher's send has been run.
LEMMA RunsSend ==
  ASSUME NEW q, Shape(q), NEW c \in Watchers, q.queue # <<>>, Head(q.queue) = TurnOf(c)
  PROVE  /\ Effect(q, Finished(q, c), {}, {}, {c}) /\ SameAccepts(q, Finished(q, c))
         /\ SameKernel(q, Finished(q, c)) /\ Ran(q, Finished(q, c), c)
         /\ Alike(q, Finished(q, c))
<1> DEFINE p == Finished(q, c)
<1>1. c \in Strands
  BY KernelIs
<1>2. Shape(p) /\ Ran(q, p, c)
  BY <1>1, Runs
<1> HIDE DEF p
<1>3. Alike(q, p)
  BY <1>1, <1>2, RanAlike
<1>4. Moved(q, p, {}, {}) /\ SameAccepts(q, p)
  BY <1>3, MovedAlike
<1>5. SameKernel(q, p)
  BY <1>2, KHasOther DEF Ran, SameKernel
<1>6. \A w \in Watchers \ {c} : p.strand[w] = q.strand[w]
  BY <1>2, KernelIs DEF Ran, Others
<1> QED
  BY <1>2, <1>3, <1>4, <1>5, <1>6 DEF Effect, p

\* What stop() queues comes after what is there.
LEMMA StopIOHead ==
  ASSUME NEW q, Shape(q), NEW c \in Conns, q.queue # <<>>
  PROVE  StopIO(q, c).queue # <<>> /\ Head(StopIO(q, c).queue) = Head(q.queue)
<1> DEFINE a == Aborted(q, {c})
<1>1. q.queue \in Seq(Jobs)
  BY ShapeParts
<1>2. Shape(a) /\ \E new : ReadsFor(new, {c} \cap reading) /\ Grown(q, a, new)
  <2>1. {c} \in SUBSET Conns
    OBVIOUS
  <2> QED
    BY <2>1, Aborts
<1> HIDE DEF a
<1>3. PICK new : new \in Seq(Jobs) /\ a.queue = q.queue \o new
  BY <1>2 DEF ReadsFor, Grown
<1>4. a.queue \in Seq(Jobs) /\ a.queue # <<>> /\ Head(a.queue) = Head(q.queue)
  BY <1>1, <1>3
<1>5. CASE c \in Watchers
  <2> DEFINE p == Post(a, Kernel, CloseOf(c))
  <2>1. StopIO(q, c) = p
    BY <1>5 DEF StopIO, CloseOf, a
  <2>2. CloseOf(c) \in Handlers /\ Kernel \in Strands
    BY <1>5, Kinds, KernelIs
  <2>3. Posted(a, p, Kernel, CloseOf(c))
    BY <1>2, <2>2, Posts
  <2> HIDE DEF p
  <2>4. p.queue = a.queue \/ p.queue = Append(a.queue, TurnOf(Kernel))
    BY <2>3 DEF Posted
  <2>5. p.queue # <<>> /\ Head(p.queue) = Head(a.queue)
    BY <1>4, <2>4
  <2> QED
    BY <1>4, <2>1, <2>5
<1>6. CASE c \notin Watchers
  <2>1. StopIO(q, c) = a
    BY <1>6 DEF StopIO, a
  <2> QED
    BY <1>4, <2>1
<1> QED
  BY <1>5, <1>6

LEMMA StopListedIO ==
  ASSUME Shape(io), node \in Conns, StopListed
  PROVE  /\ Effect(io, io', {}, {node} \cap reading, {}) /\ SameAccepts(io, io')
         /\ \A d : Closes(io', d) <=> Closes(io, d) \/ (node \in Watchers /\ d = node)
         /\ Removes(io') <=> Removes(io)
<1>1. Stopped(io, StopIO(io, node), node)
  BY StopsIO
<1>2. io' = StopIO(io, node)
  BY DEF StopListed
<1>3. Stopped(io, io', node)
  BY <1>1, <1>2
<1> QED
  BY <1>3 DEF Stopped, Effect

LEMMA DoSendIO ==
  ASSUME Shape(io), NEW c \in Watchers, StrandIs(c, "send"), io' = Finished(io, c)
  PROVE  /\ Effect(io, io', {}, {}, {c}) /\ SameAccepts(io, io') /\ SameKernel(io, io')
         /\ Ran(io, io', c)
<1>1. io.queue # <<>> /\ Head(io.queue) = TurnOf(c)
  BY AtTurn, KernelIs
<1> QED
  BY <1>1, RunsSend

LEMMA DoSendFailsIO ==
  ASSUME Shape(io), NEW c \in Watchers, DoSendFails(c)
  PROVE  /\ Effect(io, io', {}, {c} \cap reading, {c}) /\ SameAccepts(io, io')
         /\ \A d : Closes(io', d) <=> Closes(io, d) \/ d = c
         /\ Removes(io') <=> Removes(io)
<1> DEFINE a == StopIO(io, c)
<1>1. io.queue # <<>> /\ Head(io.queue) = TurnOf(c) /\ c \in Conns
  BY AtTurn, KernelIs DEF DoSendFails, Conns
<1>2. Stopped(io, a, c) /\ a.queue # <<>> /\ Head(a.queue) = TurnOf(c)
  BY <1>1, StopsIO, StopIOHead
<1>3. io' = Finished(a, c)
  BY DEF DoSendFails
<1> HIDE DEF a
<1>4. Effect(a, io', {}, {}, {c}) /\ SameAccepts(a, io') /\ SameKernel(a, io') /\ Alike(a, io')
  BY <1>2, <1>3, RunsSend DEF Stopped
<1>5. Moved(io, io', {}, {c} \cap reading) /\ SameAccepts(io, io')
  BY <1>2, <1>4, MovedThenAlike, SameAcceptsTrans DEF Stopped
<1> QED
  BY <1>2, <1>4, <1>5 DEF Stopped, Effect, SameKernel, Closes, Removes

\* A handler of the kernel's strand has been run.
LEMMA RunsKernel ==
  ASSUME NEW q, Shape(q), q.queue # <<>>, Head(q.queue) = TurnOf(Kernel)
  PROVE  /\ Effect(q, Finished(q, Kernel), {}, {}, {}) /\ SameAccepts(q, Finished(q, Kernel))
         /\ Ran(q, Finished(q, Kernel), Kernel) /\ Alike(q, Finished(q, Kernel))
         /\ \A J : /\ KHas(Finished(q, Kernel), J) => KHas(q, J)
                   /\ KHas(q, J) => \/ KHas(Finished(q, Kernel), J)
                                    \/ Head(q.strand[Kernel].ready) \in J
                   /\ Head(q.strand[Kernel].ready) \in J => KHas(q, J)
<1> DEFINE p == Finished(q, Kernel)
<1>1. Shape(p) /\ Ran(q, p, Kernel)
  BY KernelIs, Runs
<1> HIDE DEF p
<1>2. Alike(q, p)
  BY <1>1, KernelIs, RanAlike
<1>3. Moved(q, p, {}, {}) /\ SameAccepts(q, p)
  BY <1>2, MovedAlike
<1>4. \A c \in Watchers : p.strand[c] = q.strand[c]
  BY <1>1, KernelIs DEF Ran, Others
<1>5. \A J : /\ KHas(p, J) => KHas(q, J)
             /\ KHas(q, J) => KHas(p, J) \/ Head(q.strand[Kernel].ready) \in J
             /\ Head(q.strand[Kernel].ready) \in J => KHas(q, J)
  BY <1>1, KHasRan
<1> QED
  BY <1>1, <1>2, <1>3, <1>4, <1>5 DEF Effect, p

LEMMA DoCloseIO ==
  ASSUME Shape(io), DoClose
  PROVE  LET c == Head(io.strand[Kernel].ready).c IN
         /\ c \in Watchers /\ Closes(io, c)
         /\ Effect(io, io', {}, {}, {}) /\ SameAccepts(io, io')
         /\ \A d : Closes(io', d) => Closes(io, d)
         /\ \A d : Closes(io, d) /\ d # c => Closes(io', d)
         /\ Removes(io') <=> Removes(io)
<1> DEFINE c == Head(io.strand[Kernel].ready).c
           j == Head(io.strand[Kernel].ready)
<1>1. io.queue # <<>> /\ Head(io.queue) = TurnOf(Kernel) /\ j \in Handlers /\ j.h = "close"
  BY AtTurn, KernelIs DEF DoClose
<1>2. c \in Watchers /\ j = CloseOf(c)
  BY <1>1, KindIs
<1>3. io' = Finished(io, Kernel)
  BY DEF DoClose
<1>4. /\ Effect(io, io', {}, {}, {}) /\ SameAccepts(io, io')
      /\ \A J : /\ KHas(io', J) => KHas(io, J)
                /\ KHas(io, J) => KHas(io', J) \/ j \in J
                /\ j \in J => KHas(io, J)
  BY <1>1, <1>3, RunsKernel
<1> HIDE DEF c, j
<1>5. /\ Closes(io, c)
      /\ \A d : Closes(io', d) => Closes(io, d)
      /\ \A d : Closes(io, d) /\ d # c => Closes(io', d)
  BY <1>2, <1>4, Apart DEF Closes
<1>6. Removes(io') <=> Removes(io)
  BY <1>2, <1>4, Apart DEF Removes
<1> QED
  BY <1>2, <1>4, <1>5, <1>6 DEF c

LEMMA DoRemoveFeederIO ==
  ASSUME Shape(io), flisted \subseteq Feeds, DoRemoveFeeder
  PROVE  /\ Effect(io, io', {}, flisted \cap reading, {}) /\ SameAccepts(io, io')
         /\ Removes(io)
         /\ \A d : Closes(io', d) <=> Closes(io, d)
<1> DEFINE a == Aborted(io, flisted)
           j == Head(io.strand[Kernel].ready)
<1>1. io.queue # <<>> /\ Head(io.queue) = TurnOf(Kernel) /\ j \in Handlers /\ j.h = "remove"
  BY AtTurn, KernelIs DEF DoRemoveFeeder
<1>2. j = Removal
  BY <1>1, KindIs
<1>3. /\ Shape(a) /\ a.strand = io.strand
      /\ Moved(io, a, {}, flisted \cap reading) /\ SameAccepts(io, a)
      /\ \E new : ReadsFor(new, flisted \cap reading) /\ Grown(io, a, new)
  <2>1. flisted \in SUBSET Conns
    BY DEF Conns
  <2> QED
    BY <2>1, Cancels, Aborts
<1> HIDE DEF a
<1>4. a.queue # <<>> /\ Head(a.queue) = TurnOf(Kernel)
  <2>1. PICK new : new \in Seq(Jobs) /\ a.queue = io.queue \o new
    BY <1>3 DEF ReadsFor, Grown
  <2>2. io.queue \in Seq(Jobs)
    BY ShapeParts
  <2> QED
    BY <1>1, <2>1, <2>2
<1>5. io' = Finished(a, Kernel)
  BY DEF DoRemoveFeeder, a
<1> HIDE DEF j
<1>6. /\ Effect(a, io', {}, {}, {}) /\ SameAccepts(a, io') /\ Alike(a, io')
      /\ \A J : /\ KHas(io', J) => KHas(a, J)
                /\ KHas(a, J) => KHas(io', J) \/ j \in J
                /\ j \in J => KHas(a, J)
  BY <1>3, <1>4, <1>5, RunsKernel DEF j
<1>7. Moved(io, io', {}, flisted \cap reading) /\ SameAccepts(io, io')
  BY <1>3, <1>6, MovedThenAlike, SameAcceptsTrans
<1>8. \A J : KHas(a, J) <=> KHas(io, J)
  BY <1>3, KHasOther
<1>9. Removes(io) /\ \A d : Closes(io', d) <=> Closes(io, d)
  BY <1>2, <1>6, <1>8, Apart DEF Removes, Closes
<1> QED
  BY <1>3, <1>6, <1>7, <1>9 DEF Effect

LEMMA CancelsIO ==
  ASSUME Shape(io), NEW S \in SUBSET Conns, io' = Aborted(io, S)
  PROVE  /\ Effect(io, io', {}, S \cap reading, {}) /\ SameKernel(io, io')
         /\ SameAccepts(io, io')
<1>1. /\ Shape(io') /\ io'.strand = io.strand
      /\ Moved(io, io', {}, S \cap reading) /\ SameAccepts(io, io')
  BY Cancels
<1> QED
  BY <1>1, SameStrands DEF Effect

LEMMA OnCommandIO ==
  ASSUME Shape(io), NEW c \in Conns, OnCommand(c), registered \subseteq Watchers,
         posted \in [Watchers -> Nat], \A w \in Watchers : written[w] \in Seq(Nat)
  PROVE  /\ HasRead(io, c) /\ c \in Watchers
         /\ \E acc, S : /\ S \subseteq registered \cup {c} /\ \A w \in S : Held(w)
                        /\ Sent(Popped(io), acc, S)
                        /\ posted' = acc.n /\ io' = ReadsOn(c, acc.q)
<1> DEFINE q == Popped(io)
<1>1. HeadIs("read") /\ c = Head(io.queue).c /\ Held(c) /\ c \in Watchers
  BY DEF OnCommand, OnRead
<1>2. HasRead(io, c) /\ Shape(q)
  BY <1>1, AtRead DEF Effect
<1>3. PICK asked \in {{}, registered} : \E keepers \in SUBSET (asked \cap subscribed) :
        /\ posted' = Sends(Append(SetToSeq(keepers), c), q).n
        /\ io' = ReadsOn(c, Sends(Append(SetToSeq(keepers), c), q).q)
  BY DEF OnCommand
<1> PICK keepers \in SUBSET registered :
        /\ posted' = Sends(Append(SetToSeq(keepers), c), q).n
        /\ io' = ReadsOn(c, Sends(Append(SetToSeq(keepers), c), q).q)
  BY <1>3
<1> DEFINE ws == SetToSeq(keepers)
<1>4. ws \in Seq(Watchers) /\ ToSet(ws) \subseteq registered
  <2>1. IsFiniteSet(keepers)
    BY ConnsFinite DEF Conns
  <2>2. ws \in Seq(keepers) /\ ToSet(ws) = keepers
    BY <2>1, SetSequence
  <2> QED
    BY <2>2
<1> DEFINE us == Append(ws, c)
           S == {w \in ToSet(us) : Held(w)}
<1>5. us \in Seq(Watchers) /\ ToSet(us) \subseteq registered \cup {c}
  <2>1. us \in Seq(Watchers) /\ \A i \in DOMAIN us : us[i] = c \/ (i \in DOMAIN ws /\ us[i] = ws[i])
    BY <1>1, <1>4
  <2> HIDE DEF us
  <2> QED
    BY <1>4, <2>1 DEF ToSet
<1> HIDE DEF us, ws
<1>6. Sent(q, Sends(us, q), S)
  BY <1>2, <1>5, SendsSent
<1>7. S \subseteq registered \cup {c} /\ \A w \in S : Held(w)
  BY <1>5
<1> HIDE DEF S, q
<1>8. \E acc, T : /\ T \subseteq registered \cup {c} /\ \A w \in T : Held(w)
                  /\ Sent(q, acc, T) /\ posted' = acc.n /\ io' = ReadsOn(c, acc.q)
  BY <1>6, <1>7 DEF us, ws
<1> QED
  BY <1>1, <1>2, <1>8 DEF q

LEMMA OnFeedIO ==
  ASSUME Shape(io), NEW c \in Conns, OnFeed(c), subscribed \subseteq Watchers,
         posted \in [Watchers -> Nat], \A w \in Watchers : written[w] \in Seq(Nat)
  PROVE  /\ HasRead(io, c) /\ c \in Feeds
         /\ \E acc, S : /\ S \subseteq subscribed /\ \A w \in S : Held(w)
                        /\ Sent(Popped(io), acc, S)
                        /\ posted' = acc.n /\ io' = acc.q
<1> DEFINE q == Popped(io)
<1>1. HeadIs("read") /\ c = Head(io.queue).c /\ c \in Feeds
  BY DEF OnFeed, OnRead
<1>2. HasRead(io, c) /\ Shape(q)
  BY <1>1, AtRead DEF Effect
<1>3. PICK to \in SUBSET subscribed : \E entries \in 1..2, ws \in SetToSeqs(to) :
        /\ posted' = Sends(IF entries = 1 THEN ws ELSE ws \o ws, q).n
        /\ io' = Sends(IF entries = 1 THEN ws ELSE ws \o ws, q).q
  BY DEF OnFeed
<1>4. PICK entries \in 1..2, ws \in SetToSeqs(to) :
        /\ posted' = Sends(IF entries = 1 THEN ws ELSE ws \o ws, q).n
        /\ io' = Sends(IF entries = 1 THEN ws ELSE ws \o ws, q).q
  BY <1>3
<1> DEFINE us == IF entries = 1 THEN ws ELSE ws \o ws
           S == {w \in ToSet(us) : Held(w)}
<1>5. ws \in Seq(to)
  <2>1. IsFiniteSet(to)
    BY ConnsFinite DEF Conns
  <2> QED
    BY <2>1, SetSequences
<1>6. us \in Seq(to)
  BY <1>5
<1> HIDE DEF us
<1>7. us \in Seq(Watchers) /\ ToSet(us) \subseteq subscribed
  BY <1>6 DEF ToSet
<1>8. Sent(q, Sends(us, q), S)
  BY <1>2, <1>7, SendsSent
<1>9. S \subseteq subscribed /\ \A w \in S : Held(w)
  BY <1>7
<1> HIDE DEF S, q
<1>10. \E acc, T : /\ T \subseteq subscribed /\ \A w \in T : Held(w)
                  /\ Sent(q, acc, T) /\ posted' = acc.n /\ io' = acc.q
  BY <1>4, <1>8, <1>9 DEF us
<1> QED
  BY <1>1, <1>2, <1>10 DEF q

(***************************************************************************)
(* Lists of watchers                                                       *)
(***************************************************************************)
\* x and what comes after it.
From(s, x) == {y \in ToSet(s) : \E i, j \in DOMAIN s : i <= j /\ s[i] = x /\ s[j] = y}

LEMMA AppendList ==
  ASSUME NEW S, NEW s \in Seq(S), IsInjective(s), NEW x \in S, x \notin ToSet(s)
  PROVE  /\ Append(s, x) \in Seq(S) /\ IsInjective(Append(s, x))
         /\ ToSet(Append(s, x)) = ToSet(s) \cup {x}
         /\ \A y : From(s, y) \subseteq From(Append(s, x), y)
<1> DEFINE t == Append(s, x)
           n == Len(s)
<1>1. /\ t \in Seq(S) /\ n \in Nat /\ DOMAIN s = 1..n /\ DOMAIN t = 1..(n + 1)
      /\ \A i \in 1..n : t[i] = s[i]
      /\ t[n + 1] = x
  OBVIOUS
<1>2. 1..(n + 1) = 1..n \cup {n + 1} /\ n + 1 \notin 1..n
  BY <1>1
<1> HIDE DEF n, t
<1>3. IsInjective(t)
  BY <1>1, <1>2 DEF IsInjective, ToSet
<1>4. ToSet(t) = ToSet(s) \cup {x}
  BY <1>1, <1>2 DEF ToSet
<1>5. \A y : From(s, y) \subseteq From(t, y)
  BY <1>1, <1>2, <1>4 DEF From
<1> QED
  BY <1>1, <1>3, <1>4, <1>5 DEF t

LEMMA RemoveAtIs ==
  ASSUME NEW S, NEW s \in Seq(S), NEW i \in 1..Len(s)
  PROVE  /\ RemoveAt(s, i) \in Seq(S) /\ DOMAIN RemoveAt(s, i) = 1..(Len(s) - 1)
         /\ \A k \in 1..(Len(s) - 1) : RemoveAt(s, i)[k] = IF k < i THEN s[k] ELSE s[k + 1]
<1> DEFINE a == SubSeq(s, 1, i - 1)
           b == SubSeq(s, i + 1, Len(s))
           n == Len(s)
<1>1. n \in Nat /\ i \in Nat /\ 1 <= i /\ i <= n /\ \A k \in 1..n : s[k] \in S
  OBVIOUS
<1>2. /\ a \in Seq(S) /\ Len(a) = i - 1
      /\ \A k \in 1..(i - 1) : a[k] = s[k]
  <2>1. 1 \in Int /\ i - 1 \in Int /\ \A k \in 1..(i - 1) : s[k] \in S
    BY <1>1
  <2>2. /\ a \in Seq(S) /\ Len(a) = IF 1 <= i - 1 THEN (i - 1) - 1 + 1 ELSE 0
        /\ \A k \in 1..((i - 1) - 1 + 1) : a[k] = s[1 + k - 1]
    BY <2>1, SubSeqProperties
  <2> HIDE DEF a
  <2>3. Len(a) = i - 1
    BY <1>1, <2>2
  <2>4. \A k \in 1..(i - 1) : k \in 1..((i - 1) - 1 + 1) /\ 1 + k - 1 = k
    BY <1>1
  <2>5. \A k \in 1..(i - 1) : a[k] = s[k]
    BY <2>2, <2>4
  <2> QED
    BY <2>2, <2>3, <2>5
<1>3. /\ b \in Seq(S) /\ Len(b) = n - i
      /\ \A k \in 1..(n - i) : b[k] = s[i + k]
  <2>1. i + 1 \in Int /\ n \in Int /\ \A k \in (i + 1)..n : s[k] \in S
    BY <1>1
  <2>2. /\ b \in Seq(S) /\ Len(b) = IF i + 1 <= n THEN n - (i + 1) + 1 ELSE 0
        /\ \A k \in 1..(n - (i + 1) + 1) : b[k] = s[(i + 1) + k - 1]
    BY <2>1, SubSeqProperties
  <2> HIDE DEF b, n
  <2>3. Len(b) = n - i
    BY <1>1, <2>2
  <2>4. \A k \in 1..(n - i) : k \in 1..(n - (i + 1) + 1) /\ (i + 1) + k - 1 = i + k
    BY <1>1
  <2>5. \A k \in 1..(n - i) : b[k] = s[i + k]
    BY <2>2, <2>4
  <2> QED
    BY <2>2, <2>3, <2>5
<1>4. RemoveAt(s, i) = a \o b
  BY DEF RemoveAt
<1> HIDE DEF a, b
<1>5. /\ a \o b \in Seq(S) /\ Len(a \o b) = Len(a) + Len(b)
      /\ \A k \in 1..(Len(a) + Len(b)) : (a \o b)[k] = IF k <= Len(a) THEN a[k] ELSE b[k - Len(a)]
  BY <1>2, <1>3, ConcatProperties
<1> HIDE DEF n
<1>6. Len(a) + Len(b) = n - 1
  BY <1>1, <1>2, <1>3
<1>7. ASSUME NEW k \in 1..(n - 1)
      PROVE  (a \o b)[k] = IF k < i THEN s[k] ELSE s[k + 1]
  <2>1. k \in 1..(Len(a) + Len(b))
    BY <1>6
  <2>2. CASE k < i
    <3>1. k <= Len(a) /\ k \in 1..(i - 1)
      BY <1>1, <1>2, <2>2
    <3> QED
      BY <1>2, <1>5, <2>1, <2>2, <3>1
  <2>3. CASE ~(k < i)
    <3>1. ~(k <= Len(a)) /\ k - Len(a) \in 1..(n - i) /\ i + (k - Len(a)) = k + 1
      BY <1>1, <1>2, <2>3
    <3> QED
      BY <1>3, <1>5, <2>1, <2>3, <3>1
  <2> QED
    BY <2>2, <2>3
<1>8. DOMAIN (a \o b) = 1..(n - 1)
  BY <1>5, <1>6
<1> QED
  BY <1>4, <1>5, <1>7, <1>8 DEF n

LEMMA RemoveList ==
  ASSUME NEW S, NEW s \in Seq(S), IsInjective(s), NEW x
  PROVE  /\ RemoveFirst(s, x) \in Seq(S) /\ IsInjective(RemoveFirst(s, x))
         /\ ToSet(RemoveFirst(s, x)) = ToSet(s) \ {x}
         /\ \A y : y # x => From(s, y) \ {x} \subseteq From(RemoveFirst(s, x), y)
<1> DEFINE t == RemoveFirst(s, x)
           n == Len(s)
<1>1. n \in Nat /\ DOMAIN s = 1..n
  OBVIOUS
<1>2. CASE x \notin ToSet(s)
  <2>1. t = s
    BY <1>1, <1>2 DEF RemoveFirst, ToSet
  <2> HIDE DEF t
  <2> QED
    BY <1>2, <2>1 DEF t
<1>3. CASE x \in ToSet(s)
  <2>1. PICK i \in 1..n : s[i] = x
    BY <1>1, <1>3 DEF ToSet
  <2>2. SelectInSeq(s, LAMBDA v: v = x) = i
    <3> DEFINE I == {j \in 1..n : s[j] = x}
    <3>1. I = {i}
      BY <1>1, <2>1 DEF IsInjective
    <3>2. SelectInSeq(s, LAMBDA v: v = x) = IF I # {} THEN Min(I) ELSE 0
      BY DEF SelectInSeq
    <3>3. Min({i}) = i
      BY DEF Min
    <3> QED
      BY <3>1, <3>2, <3>3
  <2>3. t = RemoveAt(s, i)
    BY <2>1, <2>2 DEF RemoveFirst
  <2> HIDE DEF t
  <2>4. /\ t \in Seq(S) /\ DOMAIN t = 1..(n - 1)
        /\ \A k \in 1..(n - 1) : t[k] = IF k < i THEN s[k] ELSE s[k + 1]
    BY <2>1, <2>3, RemoveAtIs
  <2> DEFINE up(k) == IF k < i THEN k ELSE k + 1
             down(k) == IF k < i THEN k ELSE k - 1
  <2> HIDE DEF n
  <2>5. /\ \A k \in 1..(n - 1) : up(k) \in 1..n /\ up(k) # i /\ t[k] = s[up(k)]
        /\ \A k, l \in 1..(n - 1) : up(k) = up(l) => k = l
    BY <1>1, <2>1, <2>4
  <2>6. /\ \A k \in 1..n : k # i => down(k) \in 1..(n - 1) /\ t[down(k)] = s[k]
        /\ \A k, l \in 1..n : k # i /\ l # i /\ k <= l => down(k) <= down(l)
    BY <1>1, <2>1, <2>4
  <2> HIDE DEF up, down
  <2>7. \A k \in 1..n : s[k] = x => k = i
    BY <1>1, <2>1 DEF IsInjective
  <2>8. IsInjective(t)
    <3>1. \A k, l \in 1..n : s[k] = s[l] => k = l
      BY <1>1 DEF IsInjective
    <3> QED
      BY <2>4, <2>5, <3>1 DEF IsInjective
  <2>9. ToSet(t) = ToSet(s) \ {x}
    <3>1. \A y \in ToSet(t) : y \in ToSet(s) /\ y # x
      BY <1>1, <2>4, <2>5, <2>7 DEF ToSet
    <3>2. \A y \in ToSet(s) : y # x => y \in ToSet(t)
      BY <1>1, <2>1, <2>4, <2>6 DEF ToSet
    <3> QED
      BY <3>1, <3>2
  <2>10. ASSUME NEW y, y # x, NEW z \in From(s, y) \ {x} PROVE z \in From(t, y)
    <3>1. PICK k, l \in 1..n : k <= l /\ s[k] = y /\ s[l] = z
      BY <1>1 DEF From
    <3>2. k # i /\ l # i
      BY <2>1, <2>10, <3>1
    <3>3. /\ down(k) \in 1..(n - 1) /\ down(l) \in 1..(n - 1) /\ down(k) <= down(l)
          /\ t[down(k)] = y /\ t[down(l)] = z
      BY <2>6, <3>1, <3>2
    <3>4. z \in ToSet(t)
      BY <2>9, <2>10 DEF From
    <3> QED
      BY <2>4, <3>3, <3>4 DEF From
  <2> QED
    BY <2>4, <2>8, <2>9, <2>10 DEF t
<1> QED
  BY <1>2, <1>3

\* What the loop of kernel::stop has before it when it starts and steps on.
LEMMA FromList ==
  ASSUME NEW S, NEW s \in Seq(S), IsInjective(s)
  PROVE  /\ s = <<>> => ToSet(s) = {}
         /\ s # <<>> => Head(s) \in ToSet(s) /\ From(s, Head(s)) = ToSet(s)
         /\ \A x \in ToSet(s) :
              LET i == CHOOSE i \in DOMAIN s : s[i] = x IN
              /\ i = Len(s) => From(s, x) \subseteq {x}
              /\ i # Len(s) => /\ s[i + 1] \in ToSet(s)
                               /\ From(s, x) \subseteq From(s, s[i + 1]) \cup {x}
<1> DEFINE n == Len(s)
<1>1. n \in Nat /\ DOMAIN s = 1..n
  OBVIOUS
<1>2. s = <<>> => ToSet(s) = {}
  BY DEF ToSet
<1>3. ASSUME s # <<>> PROVE Head(s) \in ToSet(s) /\ From(s, Head(s)) = ToSet(s)
  <2>1. 1 \in 1..n /\ Head(s) = s[1]
    BY <1>1, <1>3
  <2> HIDE DEF n
  <2>2. \A j \in 1..n : 1 <= j
    OBVIOUS
  <2> QED
    BY <1>1, <2>1, <2>2 DEF From, ToSet
<1>4. ASSUME NEW x \in ToSet(s), NEW i, i = CHOOSE k \in DOMAIN s : s[k] = x
      PROVE  /\ i = n => From(s, x) \subseteq {x}
             /\ i # n => /\ s[i + 1] \in ToSet(s)
                         /\ From(s, x) \subseteq From(s, s[i + 1]) \cup {x}
  <2>1. i \in 1..n /\ s[i] = x
    BY <1>1, <1>4 DEF ToSet
  <2>2. \A k \in 1..n : s[k] = x => k = i
    BY <1>1, <2>1 DEF IsInjective
  <2> HIDE DEF n
  <2>3. ASSUME i = n PROVE From(s, x) \subseteq {x}
    <3> SUFFICES ASSUME NEW y \in From(s, x) PROVE y = x
      OBVIOUS
    <3>1. PICK k, l \in 1..n : k <= l /\ s[k] = x /\ s[l] = y
      BY <1>1 DEF From
    <3>2. k = n
      BY <2>2, <2>3, <3>1
    <3>3. l = n
      BY <1>1, <3>1, <3>2
    <3> QED
      BY <3>1, <3>2, <3>3
  <2>4. ASSUME i # n
        PROVE  s[i + 1] \in ToSet(s) /\ From(s, x) \subseteq From(s, s[i + 1]) \cup {x}
    <3>1. i + 1 \in 1..n
      BY <1>1, <2>1, <2>4
    <3>2. ASSUME NEW y \in From(s, x), y # x PROVE y \in From(s, s[i + 1])
      <4>1. PICK k, l \in 1..n : k <= l /\ s[k] = x /\ s[l] = y
        BY <1>1 DEF From
      <4>2. k = i /\ l # i
        BY <2>1, <2>2, <3>2, <4>1
      <4>3. i + 1 <= l
        BY <2>1, <4>1, <4>2
      <4> QED
        BY <1>1, <3>1, <4>1, <4>3 DEF From, ToSet
    <3>3. s[i + 1] \in ToSet(s)
      BY <1>1, <3>1 DEF ToSet
    <3> QED
      BY <3>2, <3>3
  <2> QED
    BY <2>3, <2>4
<1> QED
  BY <1>2, <1>3, <1>4

(***************************************************************************)
(* The inductive invariant                                                 *)
(***************************************************************************)
Listed == ToSet(listed)
Early == pcM \in {"up", "walk", "step", "clear"}

\* The watchers that were neither started nor stopped.
Out == Watchers \ (Listed \cup shut)

Types == /\ TypeOK
         /\ listed \in Seq(Watchers) /\ IsInjective(listed)
         /\ posted \in [Watchers -> Nat] /\ written \in [Watchers -> Seq(Nat)]
         /\ node \in Watchers \cup {None} /\ known \subseteq Watchers
         /\ lost \in BOOLEAN /\ late \subseteq Watchers
         /\ Shape(io)

Untouched(c) == /\ c \notin reading \cup registered \cup subscribed
                /\ ~HasRead(io, c) /\ ~io.strand[c].locked
                /\ posted[c] = 0 /\ written[c] = <<>>

\* Lua and the queues know the watchers that are listed, or were stopped and
\* are about to be closed; until kernel::stop has cleared the list, ...
Known ==
  /\ \A c \in Watchers : Closes(io, c) => c \in shut
  /\ next # None => Early /\ next \notin Listed \cup shut
  /\ ~Early => listed = <<>>
  /\ pcM = "up" => registered \subseteq Listed \ shut
  /\ Early => /\ subscribed \ late \subseteq Listed \ shut
              /\ \A c \in Listed \cap shut : Closes(io, c)
              /\ \A c \in Out : Untouched(c)

\* The feeder: it holds what it accepted until that is stopped, one accept at
\* most is queued, and none once it was refused or removed.
Feeding ==
  /\ flisted \cap shut = {} /\ fnext \notin flisted \cup shut
  /\ feeder = "deleted" => flisted = {} /\ fnext = None
  /\ feeder # "deleted" =>
       \A c \in Feeds \ (flisted \cup shut) : c \notin reading /\ ~HasRead(io, c)
  /\ OneAccept(io)
  /\ HasAccept(io) => feeder = "up" /\ fnext # None
  /\ Removes(io) => feeder # "up"

\* What was sent to a watcher that is open is written or in line.
Sending == \A c \in Listed \ shut : InOrder(io.strand[c], posted[c], written[c])

\* The loop of kernel::stop: what it found listed and is still registered is
\* before it.
Walking ==
  /\ Early /\ pcM # "up" => /\ known \subseteq Listed \cup shut
                            /\ known \cap registered \cap shut = {}
  /\ pcM # "up" => starting \notin known
  /\ pcM \in {"walk", "step"} =>
       /\ node # None => node \in Listed \cup shut
       /\ node \in Listed => known \cap registered \subseteq From(listed, node)
  /\ pcM = "step" => node # None /\ node \in shut
  /\ pcM = "walk" /\ node = None /\ ~lost => known \cap registered = {}
  /\ pcM \in {"clear", "io", "down"} /\ ~lost => known \cap registered = {}

\* The connection whose accept is being handled is listed, or main has
\* stopped it meanwhile and it may be closed next.
Beginning ==
  /\ {starting, started} \subseteq Watchers \cup {None} /\ None \in {starting, started}
  /\ \A c \in Watchers : c = starting \/ c = started =>
       /\ Early => c \in Listed \cup shut
       /\ pcM = "up" => c \in Listed \ shut

LEMMA NoneIs == None \notin Conns /\ Watchers \subseteq Conns /\ Feeds \subseteq Conns
                /\ \A c \in Watchers : c \notin Feeds
BY ConnsAssumption DEF Conns

LEMMA FreshIs ==
  ASSUME NEW S, NEW used
  PROVE  Fresh(S, used) = None \/ (Fresh(S, used) \in S /\ Fresh(S, used) \notin used)
BY DEF Fresh

\* A step that starts, stops and closes no watcher.
LEMMA KnownFrame ==
  ASSUME Types, Known, NEW out, NEW in, NEW lines, Effect(io, io', out, in, lines),
         \A d : Closes(io', d) <=> Closes(io, d),
         next' = next, listed' = listed, registered' = registered,
         \A c : c \in Feeds \/ (c \in shut' <=> c \in shut),
         Early' <=> Early, pcM' = "up" => pcM = "up",
         Early => subscribed' \ late' \subseteq Listed \ shut,
         Early => \A c \in Out : /\ c \notin in \cup lines \cup reading' \cup subscribed'
                                 /\ posted'[c] = posted[c] /\ written'[c] = written[c]
  PROVE  Known'
<1>1. Listed' = Listed
  BY DEF Listed
<1>2. \A c \in Watchers : c \in shut' <=> c \in shut
  BY NoneIs
<1>3. \A c \in Watchers : Closes(io', c) => c \in shut'
  BY <1>2 DEF Known
<1>4. next' # None => Early' /\ next' \notin Listed' \cup shut'
  BY <1>1, <1>2 DEF Known, Types, TypeOK
<1>5. ~Early' => listed' = <<>>
  BY DEF Known
<1>6. Listed \subseteq Watchers
  BY DEF Types, TypeOK, Listed
<1>7. /\ pcM' = "up" => registered' \subseteq Listed' \ shut'
      /\ Early' => subscribed' \ late' \subseteq Listed' \ shut'
  BY <1>1, <1>2, <1>6 DEF Known
<1>8. Early' => \A c \in Listed' \cap shut' : Closes(io', c)
  BY <1>1, <1>2, <1>6 DEF Known
<1>9. ASSUME Early', NEW c \in Out' PROVE Untouched(c)'
  <2>1. c \in Out /\ Early
    BY <1>1, <1>2, <1>9 DEF Out
  <2>2. Untouched(c)
    BY <2>1 DEF Known
  <2>3. ~HasRead(io', c) /\ io'.strand[c] = io.strand[c]
    BY <2>1, <2>2 DEF Effect, Moved, Untouched, Out
  <2> QED
    BY <2>1, <2>2, <2>3 DEF Untouched
<1> QED
  BY <1>3, <1>4, <1>5, <1>7, <1>8, <1>9 DEF Known

\* A step in which a connection that was started is stopped.
LEMMA KnownStop ==
  ASSUME Types, Known, NEW c \in Conns, c \notin Out, c # next, Stop(c),
         NEW out, NEW lines, Effect(io, io', out, {c} \cap reading, lines), lines \subseteq {c},
         \A d : Closes(io', d) <=> Closes(io, d) \/ (c \in Watchers /\ d = c),
         Early' <=> Early, pcM' = "up" => pcM = "up", UNCHANGED written
  PROVE  Known'
<1>1. Listed' = Listed
  BY DEF Listed, Stop
<1>2. shut' = shut \cup {c} /\ next' = next /\ reading' = reading \ {c}
      /\ registered' = registered \ {c} /\ subscribed' = subscribed \ {c} /\ late' = late
      /\ posted' = posted
  BY DEF Stop, traffic
<1>3. \A d \in Watchers : Closes(io', d) => d \in shut'
  BY <1>2 DEF Known
<1>4. next' # None => Early' /\ next' \notin Listed' \cup shut'
  BY <1>1, <1>2 DEF Known
<1>5. ~Early' => listed' = <<>>
  BY DEF Known, Stop
<1>6. Listed \subseteq Watchers
  BY DEF Types, TypeOK, Listed
<1>7. /\ pcM' = "up" => registered' \subseteq Listed' \ shut'
      /\ Early' => subscribed' \ late' \subseteq Listed' \ shut'
  BY <1>1, <1>2 DEF Known
<1>8. Early' => \A d \in Listed' \cap shut' : Closes(io', d)
  BY <1>1, <1>2, <1>6 DEF Known
<1>9. ASSUME Early', NEW d \in Out' PROVE Untouched(d)'
  <2>1. d \in Out /\ Early /\ d # c
    BY <1>1, <1>2, <1>9 DEF Out
  <2>2. Untouched(d)
    BY <2>1 DEF Known
  <2>3. ~HasRead(io', d) /\ io'.strand[d] = io.strand[d]
    BY <2>1, <2>2 DEF Effect, Moved, Untouched, Out
  <2> QED
    BY <1>2, <2>1, <2>2, <2>3 DEF Untouched
<1> QED
  BY <1>3, <1>4, <1>5, <1>7, <1>8, <1>9 DEF Known

\* A step in which the feeder and what it holds stay.
LEMMA FeedingFrame ==
  ASSUME Types, Feeding, NEW out, NEW in, NEW lines, Effect(io, io', out, in, lines),
         SameAccepts(io, io'), Removes(io') <=> Removes(io),
         UNCHANGED <<flisted, fnext, feeder>>,
         \A c : c \in Watchers \/ (c \in shut' <=> c \in shut),
         feeder # "deleted" => \A c \in Feeds \ (flisted \cup shut) : c \notin in \cup reading'
  PROVE  Feeding'
<1>1. \A c \in Feeds : c \in shut' <=> c \in shut
  BY NoneIs
<1>2. flisted \subseteq Feeds /\ fnext \in Feeds \cup {None} /\ None \notin Conns
      /\ (None \in shut' <=> None \in shut)
  BY NoneIs DEF Types, TypeOK
<1>3. flisted' \cap shut' = {} /\ fnext' \notin flisted' \cup shut'
  BY <1>1, <1>2 DEF Feeding
<1>4. ASSUME feeder # "deleted", NEW c \in Feeds \ (flisted' \cup shut')
      PROVE  c \notin reading' /\ ~HasRead(io', c)
  <2>1. c \notin in \cup reading' /\ ~HasRead(io, c)
    BY <1>1, <1>4 DEF Feeding
  <2> QED
    BY <2>1 DEF Effect, Moved
<1>5. OneAccept(io') /\ (HasAccept(io') <=> HasAccept(io))
  BY DEF SameAccepts, Feeding
<1> QED
  BY <1>3, <1>4, <1>5 DEF Feeding

LEMMA ClosingIs ==
  ASSUME Shape(io), NEW c
  PROVE  (Closing(c) <=> Closes(io, c)) /\ (Closing(c) => c \in Watchers)
<1> DEFINE R == io.strand[Kernel].ready
           W == io.strand[Kernel].waiting
<1>1. R \in Seq(Handlers) /\ W \in Seq(Handlers)
  BY ShapeParts, KernelIs
<1>2. Closing(c) <=> Closes(io, c)
  BY DEF Closing, Closes, KHas, Has, CloseOf
<1>3. ASSUME NEW r \in {R, W}, NEW i \in DOMAIN r, r[i] = CloseOf(c) PROVE c \in Watchers
  <2>1. r[i] \in Handlers
    <3> HIDE DEF R, W
    <3> QED
      BY <1>1
  <2>2. CloseOf(c).h = "close" /\ CloseOf(c).c = c
    BY DEF CloseOf
  <2> QED
    BY <1>3, <2>1, <2>2, KindIs
<1> QED
  BY <1>2, <1>3 DEF Closing, CloseOf

\* A shared_ptr holds the connection.
LEMMA HeldIs ==
  ASSUME Types, NEW c
  PROVE  /\ Held(c) <=> c \in Listed \cup flisted \cup {next, fnext} \/ Closes(io, c)
         /\ Held(c) /\ c \in Feeds => c \in flisted \cup {fnext}
<1>1. (Closing(c) <=> Closes(io, c)) /\ (Closing(c) => c \in Watchers)
  BY ClosingIs DEF Types
<1>2. Held(c) <=> c \in Listed \cup flisted \cup {next, fnext} \/ Closes(io, c)
  BY <1>1 DEF Held, Listed
<1>3. c \in Listed \cup {next} => c \notin Feeds
  BY NoneIs DEF Types, TypeOK, Listed
<1> QED
  BY <1>1, <1>2, <1>3, NoneIs

Core == Types /\ Known /\ Feeding

(***************************************************************************)
(* Each action preserves the invariant                                     *)
(***************************************************************************)
LEMMA ConnectsInv == ASSUME Core, Connects PROVE Core'
<1>1. Types /\ Known /\ Feeding /\ Shape(io)
  BY DEF Core, Types
<1>2. Effect(io, io', {}, {}, {}) /\ SameKernel(io, io') /\ SameAccepts(io, io')
  BY <1>1, ConnectsIO
<1>3. UNCHANGED <<reading, shut, gone, owners, lua, main, proc, wild, late, reads, traffic>>
  BY DEF Connects, Peer
<1>4. Types'
  BY <1>1, <1>2, <1>3 DEF Types, TypeOK, Effect, owners, lua, main, traffic
<1>5. \A c \in Out : Early => c \notin reading \cup subscribed
  BY <1>1 DEF Known, Untouched
<1>6. Known'
  BY <1>1, <1>2, <1>3, <1>5, KnownFrame
     DEF Known, SameKernel, Closes, owners, lua, main, traffic, Early
<1>7. Feeding'
  BY <1>1, <1>2, <1>3, FeedingFrame DEF Feeding, SameKernel, Removes, owners
<1> QED
  BY <1>4, <1>6, <1>7 DEF Core

LEMMA FeederConnectsInv ==
  ASSUME Core, NEW ok \in BOOLEAN, FeederConnects(ok) PROVE Core'
<1>1. Types /\ Known /\ Feeding /\ Shape(io)
  BY DEF Core, Types
<1>2. Effect(io, io', {}, {}, {}) /\ SameKernel(io, io') /\ OneAccept(io')
  BY <1>1, FeederConnectsIO
<1>3. UNCHANGED <<reading, shut, gone, owners, lua, main, proc, wild, late, reads, traffic>>
  BY DEF FeederConnects, Peer
<1>4. Types'
  BY <1>1, <1>2, <1>3 DEF Types, TypeOK, Effect, owners, lua, main, traffic
<1>5. \A c \in Out : Early => c \notin reading \cup subscribed
  BY <1>1 DEF Known, Untouched
<1>6. Known'
  BY <1>1, <1>2, <1>3, <1>5, KnownFrame
     DEF Known, SameKernel, Closes, owners, lua, main, traffic, Early
<1>7. feeder = "up" /\ fnext # None
  BY DEF FeederConnects
<1>8. \A c : HasRead(io', c) => HasRead(io, c)
  BY <1>2 DEF Effect, Moved
<1>9. Feeding'
  BY <1>1, <1>2, <1>3, <1>7, <1>8 DEF Feeding, SameKernel, Removes, owners
<1> QED
  BY <1>4, <1>6, <1>9 DEF Core

LEMMA PeerReadsInv ==
  ASSUME Core, NEW c \in Conns, PeerWrites(c) \/ ReadEnds(c) PROVE Core'
<1>1. Types /\ Known /\ Feeding /\ Shape(io)
  BY DEF Core, Types
<1>2. Effect(io, io', {}, {c}, {}) /\ SameKernel(io, io') /\ SameAccepts(io, io')
  BY <1>1, PeerReadsIO
<1>3. /\ UNCHANGED <<shut, gone, owners, lua, main, proc, wild, late, traffic>>
      /\ c \in reading /\ reading' = reading \ {c}
  BY DEF PeerWrites, ReadEnds, Peer
<1>4. Types'
  BY <1>1, <1>2, <1>3 DEF Types, TypeOK, Effect, owners, lua, main, traffic
<1>5. \A d \in Out : Early => d \notin reading \cup subscribed
  BY <1>1 DEF Known, Untouched
<1>6. Known'
  BY <1>1, <1>2, <1>3, <1>5, KnownFrame
     DEF Known, SameKernel, Closes, owners, lua, main, traffic, Early
<1>7. Feeding'
  BY <1>1, <1>2, <1>3, FeedingFrame DEF Feeding, SameKernel, Removes, owners
<1> QED
  BY <1>4, <1>6, <1>7 DEF Core

\* Steps that leave the io_service and the connections alone.
LEMMA StillInv ==
  ASSUME Core, UNCHANGED <<io, reading, shut, owners, lua, late, traffic>>,
         gone' \subseteq Watchers, Early' <=> Early, proc' \in {"alive", "aborted"},
         pcM' = "up" => pcM = "up",
         pcM' \in {"up", "walk", "step", "clear", "io", "down"},
         node' \in Watchers \cup {None}, known' \subseteq Watchers, lost' \in BOOLEAN
  PROVE  Core'
<1>1. Types /\ Known /\ Feeding
  BY DEF Core
<1>2. Types'
  BY <1>1 DEF Types, TypeOK, owners, lua, traffic
<1>3. Listed' = Listed /\ Out' = Out
  BY DEF Listed, Out, owners
<1>4. Known'
  BY <1>1, <1>3 DEF Known, Untouched, owners, lua, traffic
<1>5. Feeding'
  BY <1>1 DEF Feeding, owners
<1> QED
  BY <1>2, <1>4, <1>5 DEF Core

LEMMA PeerLeavesInv == ASSUME Core, NEW c \in Conns, PeerLeaves(c) PROVE Core'
<1>1. /\ UNCHANGED <<io, reading, shut, owners, lua, main, proc, late, traffic>>
      /\ gone' = gone \cup {c} /\ c \in ToSet(listed)
  BY DEF PeerLeaves, Peer
<1>2. /\ gone' \subseteq Watchers /\ proc' \in {"alive", "aborted"}
      /\ pcM' \in {"up", "walk", "step", "clear", "io", "down"}
      /\ node' \in Watchers \cup {None} /\ known' \subseteq Watchers /\ lost' \in BOOLEAN
      /\ Early' <=> Early
      /\ pcM' = "up" => pcM = "up"
  BY <1>1 DEF Core, Types, TypeOK, main, Early
<1> QED
  BY <1>1, <1>2, StillInv

LEMMA StopStepsInv ==
  ASSUME Core, StopBegins \/ StepOn \/ LosePlace \/ StopService PROVE Core'
<1>1. UNCHANGED <<io, reading, shut, gone, owners, lua, late, traffic>>
  BY DEF StopBegins, StepOn, LosePlace, StopService
<1>2. Types /\ listed \in Seq(Watchers) /\ ToSet(listed) \subseteq Watchers
  BY DEF Core, Types, TypeOK
<1>3. /\ pcM' \in {"up", "walk", "step", "clear", "io", "down"}
      /\ Early' <=> Early
      /\ pcM' = "up" => pcM = "up"
      /\ proc' \in {"alive", "aborted"}
  BY <1>2 DEF StopBegins, StepOn, LosePlace, StopService, Main, Early, Types, TypeOK
<1>4. known' \subseteq Watchers /\ lost' \in BOOLEAN
  BY <1>2 DEF StopBegins, StepOn, LosePlace, StopService, Main, Types
<1>5. node' \in Watchers \cup {None}
  <2>1. CASE StopBegins
    BY <1>2, <2>1 DEF StopBegins
  <2>2. CASE StepOn
    <3> DEFINE i == CHOOSE i \in DOMAIN listed : listed[i] = node
    <3>1. node \in ToSet(listed) /\ node' = IF i = Len(listed) THEN None ELSE listed[i + 1]
      BY <2>2 DEF StepOn
    <3>2. IsInjective(listed)
      BY <1>2 DEF Types
    <3>3. i # Len(listed) => listed[i + 1] \in ToSet(listed)
      BY <1>2, <3>1, <3>2, FromList
    <3> QED
      BY <1>2, <3>1, <3>3
  <2>3. CASE LosePlace
    BY <2>3 DEF LosePlace
  <2>4. CASE StopService
    BY <1>2, <2>4 DEF StopService, Types
  <2> QED
    BY <2>1, <2>2, <2>3, <2>4
<1>6. gone' \subseteq Watchers
  BY <1>1, <1>2 DEF Types, TypeOK
<1> QED
  BY <1>1, <1>3, <1>4, <1>5, <1>6, StillInv

LEMMA OnWatcherAcceptedInv == ASSUME Core, OnWatcherAccepted PROVE Core'
<1>1. Types /\ Known /\ Feeding /\ Shape(io)
  BY DEF Core, Types
<1>2. /\ Effect(io, io', {}, {}, {}) /\ SameKernel(io, io') /\ SameAccepts(io, io')
      /\ io'.strand = io.strand
  BY <1>1, AtAccept DEF OnWatcherAccepted
<1>3. /\ listed' = Append(listed, next) /\ next' = None /\ next # None
      /\ UNCHANGED <<reading, shut, gone, flisted, fnext, feeder, lua, main, proc,
                     wild, late, reads, traffic>>
  BY DEF OnWatcherAccepted
<1>4. next \in Watchers /\ Early /\ next \notin Listed /\ next \notin shut /\ next \notin Feeds
  BY <1>1, <1>3, NoneIs DEF Known, Types, TypeOK
<1>5. /\ listed' \in Seq(Watchers) /\ IsInjective(listed')
      /\ Listed' = Listed \cup {next}
  BY <1>1, <1>3, <1>4, AppendList DEF Types, Listed
<1>6. Types'
  BY <1>1, <1>2, <1>3, <1>4, <1>5, NoneIs
     DEF Types, TypeOK, Effect, lua, main, traffic, Listed
<1>7. Early' /\ pcM' = pcM
  BY <1>3, <1>4 DEF main, Early
<1>8. Known'
  <2>1. \A d : Closes(io', d) <=> Closes(io, d)
    BY <1>2 DEF SameKernel, Closes
  <2>2. \A d \in Out' : d \in Out /\ d # next
    BY <1>3, <1>5 DEF Out
  <2>3. ASSUME NEW d \in Out' PROVE Untouched(d)'
    <3>1. Untouched(d)
      BY <1>1, <1>4, <2>2 DEF Known
    <3>2. ~HasRead(io', d)
      BY <1>2, <3>1 DEF Effect, Moved, Untouched
    <3> QED
      BY <1>2, <1>3, <2>2, <3>1, <3>2 DEF Untouched, lua, traffic
  <2>4. /\ pcM' = "up" => registered' \subseteq Listed' \ shut'
        /\ subscribed' \ late' \subseteq Listed' \ shut'
    BY <1>1, <1>3, <1>4, <1>5, <1>7 DEF Known, lua
  <2>5. \A d \in Listed' \cap shut' : Closes(io', d)
    BY <1>1, <1>3, <1>4, <1>5, <2>1 DEF Known
  <2>6. \A d \in Watchers : Closes(io', d) => d \in shut'
    BY <1>1, <1>3, <2>1 DEF Known
  <2> QED
    BY <1>3, <1>7, <2>3, <2>4, <2>5, <2>6 DEF Known
<1>9. Feeding'
  BY <1>1, <1>2, <1>3, <1>4, FeedingFrame DEF Feeding, SameKernel, Removes
<1> QED
  BY <1>6, <1>8, <1>9 DEF Core

LEMMA AddWatcherInv == ASSUME Core, Beginning, AddWatcher PROVE Core'
<1>1. Types /\ Known /\ Feeding /\ Shape(io)
  BY DEF Core, Types
<1>2. /\ UNCHANGED <<io, reading, shut, gone, listed, next, flisted, fnext, feeder,
                     subscribed, main, late, reads, traffic>>
      /\ registered' \subseteq registered \cup {starting}
      /\ starting # None /\ proc' \in {"alive", "aborted"}
  BY DEF AddWatcher, Starts, Uses
<1>3. starting \in Watchers
  BY <1>2 DEF Beginning
<1>4. Types'
  BY <1>1, <1>2, <1>3 DEF Types, TypeOK, main, traffic
<1>5. Listed' = Listed /\ Out' = Out /\ (Early' <=> Early) /\ pcM' = pcM
  BY <1>2 DEF Listed, Out, Early, main
<1>6. Known'
  <2>1. pcM = "up" => registered' \subseteq Listed \ shut
    BY <1>1, <1>2, <1>3 DEF Known, Beginning
  <2>2. ASSUME Early, NEW d \in Out PROVE Untouched(d)'
    <3>1. Untouched(d) /\ d # starting
      BY <1>1, <1>3, <2>2 DEF Known, Beginning, Out
    <3> QED
      BY <1>2, <3>1 DEF Untouched, traffic
  <2> QED
    BY <1>1, <1>2, <1>5, <2>1, <2>2 DEF Known
<1>7. Feeding'
  BY <1>1, <1>2 DEF Feeding
<1> QED
  BY <1>4, <1>6, <1>7 DEF Core

\* What read() and accept_watcher do.
LEMMA StartReadsIs ==
  ASSUME Types, Beginning, StartReads
  PROVE  /\ started \in Watchers /\ starting = None
         /\ SameKernel(io, io') /\ SameAccepts(io, io') /\ io'.strand = io.strand
         /\ \E in \in SUBSET {started} : Effect(io, io', {}, in, {})
         /\ reading' \subseteq reading \cup ({started} \ shut)
         /\ Held(started) /\ started \notin shut =>
              io' = io /\ reading' = reading \cup {started}
<1>1. Shape(io) /\ started # None /\ started \in Watchers /\ started \in Conns /\ starting = None
  BY NoneIs DEF Types, Beginning, StartReads, Starts
<1>2. CASE Held(started)
  <2>1. io' = ReadsOn(started, io) /\ reading' = reading \cup ({started} \ shut)
    BY <1>2 DEF StartReads
  <2>2. /\ Effect(io, io', {}, {started} \cap shut, {}) /\ SameKernel(io, io')
        /\ SameAccepts(io, io') /\ io'.strand = io.strand
    BY <1>1, <2>1, ReadsOnIO
  <2>3. started \notin shut => io' = io
    BY <2>1 DEF ReadsOn
  <2> QED
    BY <1>1, <2>1, <2>2, <2>3
<1>3. CASE ~Held(started)
  <2>1. io' = io /\ reading' = reading
    BY <1>3 DEF StartReads
  <2> QED
    BY <1>1, <1>3, <2>1, NoEffect
<1> QED
  BY <1>2, <1>3

LEMMA StartReadsInv == ASSUME Core, Beginning, StartReads PROVE Core'
<1>1. Types /\ Known /\ Feeding /\ Shape(io)
  BY DEF Core, Types
<1>2. /\ UNCHANGED <<shut, gone, listed, flisted, fnext, feeder, lua, main, late, reads, traffic>>
      /\ next' = IF pcM = "io" THEN None ELSE Fresh(Watchers, Used)
      /\ pcM # "down" /\ proc' \in {"alive", "aborted"}
  BY DEF StartReads, Starts, Uses
<1>3. /\ started \in Watchers /\ SameKernel(io, io') /\ SameAccepts(io, io')
      /\ io'.strand = io.strand /\ reading' \subseteq reading \cup ({started} \ shut)
  BY <1>1, StartReadsIs
<1>4. PICK in \in SUBSET {started} : Effect(io, io', {}, in, {})
  BY <1>1, StartReadsIs
<1>5. next' # None => next' \in Watchers /\ next' \notin Listed \cup shut /\ Early
  <2>1. Listed \cup shut \subseteq Used
    BY DEF Used, Listed
  <2>2. next' # None => Early
    BY <1>1, <1>2 DEF Types, TypeOK, Early
  <2> QED
    BY <1>2, <2>1, <2>2, FreshIs
<1>6. Types'
  BY <1>1, <1>2, <1>3, <1>4, <1>5, NoneIs DEF Types, TypeOK, Effect, lua, main, traffic
<1>7. Listed' = Listed /\ Out' = Out /\ (Early' <=> Early) /\ pcM' = pcM
  BY <1>2 DEF Listed, Out, Early, main
<1>8. Known'
  <2>1. \A d : Closes(io', d) <=> Closes(io, d)
    BY <1>3 DEF SameKernel, Closes
  <2>2. ASSUME Early, NEW d \in Out PROVE Untouched(d)'
    <3>1. Untouched(d) /\ d # started
      BY <1>1, <1>3, <2>2 DEF Known, Beginning, Out
    <3>2. ~HasRead(io', d) /\ d \notin reading'
      BY <1>3, <1>4, <3>1 DEF Effect, Moved, Untouched
    <3> QED
      BY <1>2, <1>3, <3>1, <3>2 DEF Untouched, lua, traffic
  <2> QED
    BY <1>1, <1>2, <1>5, <1>7, <2>1, <2>2 DEF Known, lua
<1>9. Feeding'
  <2>1. /\ Removes(io') <=> Removes(io)
        /\ \A c \in Feeds : c \notin in /\ (c \in reading' => c \in reading)
    BY <1>3, <1>4, NoneIs DEF SameKernel, Removes
  <2>2. feeder # "deleted" => \A c \in Feeds \ (flisted \cup shut) : c \notin in \cup reading'
    BY <1>1, <2>1 DEF Feeding
  <2> QED
    BY <1>1, <1>2, <1>3, <1>4, <2>1, <2>2, FeedingFrame
<1> QED
  BY <1>6, <1>8, <1>9 DEF Core

LEMMA WatcherAcceptThrowsInv == ASSUME Core, WatcherAcceptThrows PROVE Core'
<1>1. Types /\ Known /\ Feeding /\ Shape(io)
  BY DEF Core, Types
<1>2. Effect(io, io', {}, {}, {}) /\ SameKernel(io, io') /\ SameAccepts(io, io')
  BY <1>1, AtAccept, NoEffect DEF WatcherAcceptThrows
<1>3. /\ UNCHANGED <<reading, shut, gone, owners, lua, main, late, traffic>>
      /\ proc' = "aborted"
  BY DEF WatcherAcceptThrows
<1>4. Types'
  BY <1>1, <1>2, <1>3 DEF Types, TypeOK, Effect, owners, lua, main, traffic
<1>5. \A c \in Out : Early => c \notin reading \cup subscribed
  BY <1>1 DEF Known, Untouched
<1>6. Known'
  BY <1>1, <1>2, <1>3, <1>5, KnownFrame
     DEF Known, SameKernel, Closes, owners, lua, main, traffic, Early
<1>7. Feeding'
  BY <1>1, <1>2, <1>3, FeedingFrame DEF Feeding, SameKernel, Removes, owners
<1> QED
  BY <1>4, <1>6, <1>7 DEF Core

LEMMA OnAcceptInv == ASSUME Core, OnAccept PROVE Core'
<1>1. Types /\ Known /\ Feeding /\ Shape(io)
  BY DEF Core, Types
<1>2. /\ Effect(io, io', {}, {}, {}) /\ SameKernel(io, io')
      /\ HasAccept(io) /\ ~HasAccept(io')
  BY <1>1, AtAccept DEF OnAccept, Feeding
<1>3. /\ flisted' = flisted \cup {fnext} /\ reading' = reading \cup {fnext}
      /\ fnext' = Fresh(Feeds, Used) /\ feeder = "up"
      /\ UNCHANGED <<shut, gone, listed, next, feeder, lua, main, proc, wild, late,
                     reads, traffic>>
  BY DEF OnAccept
<1>4. fnext \in Feeds /\ fnext \notin shut
  BY <1>1, <1>2 DEF Feeding, Types, TypeOK
<1>5. fnext' = None \/ (fnext' \in Feeds /\ fnext' \notin flisted' \cup shut)
  <2>1. flisted \cup {fnext} \cup shut \subseteq Used
    BY DEF Used
  <2> QED
    BY <1>3, <2>1, FreshIs
<1>6. Types'
  BY <1>1, <1>2, <1>3, <1>4, <1>5, NoneIs DEF Types, TypeOK, Effect, lua, main, traffic
<1>7. \A c \in Out : Early => c \notin reading' \cup subscribed
  BY <1>1, <1>3, <1>4, NoneIs DEF Known, Untouched, Out
<1>8. Known'
  BY <1>1, <1>2, <1>3, <1>7, KnownFrame
     DEF Known, SameKernel, Closes, lua, main, traffic, Early
<1>9. Feeding'
  <2>1. \A c : HasRead(io', c) => HasRead(io, c)
    BY <1>2 DEF Effect, Moved
  <2>2. OneAccept(io')
    BY <1>2, OnceNone DEF HasAccept, OneAccept
  <2>3. flisted' \cap shut' = {} /\ fnext' \notin flisted' \cup shut'
    BY <1>1, <1>3, <1>4, <1>5, NoneIs DEF Feeding, Types, TypeOK
  <2>4. \A c \in Feeds \ (flisted' \cup shut') : c \notin reading' /\ ~HasRead(io', c)
    BY <1>1, <1>3, <2>1 DEF Feeding
  <2> QED
    BY <1>1, <1>2, <1>3, <2>2, <2>3, <2>4 DEF Feeding, SameKernel, Removes
<1> QED
  BY <1>6, <1>8, <1>9 DEF Core

LEMMA OnAcceptFailsInv == ASSUME Core, OnAcceptFails PROVE Core'
<1>1. Types /\ Known /\ Feeding /\ Shape(io)
  BY DEF Core, Types
<1>2. /\ Effect(io, io', {}, {}, {}) /\ HasAccept(io) /\ ~HasAccept(io')
      /\ \A d : Closes(io', d) <=> Closes(io, d)
  BY <1>1, OnAcceptFailsIO DEF Feeding
<1>3. /\ feeder' = "refused"
      /\ UNCHANGED <<reading, shut, gone, listed, next, flisted, fnext, lua, main,
                     proc, wild, late, reads, traffic>>
  BY DEF OnAcceptFails
<1>4. Types'
  BY <1>1, <1>2, <1>3 DEF Types, TypeOK, Effect, lua, main, traffic
<1>5. \A c \in Out : Early => c \notin reading \cup subscribed
  BY <1>1 DEF Known, Untouched
<1>6. Known'
  BY <1>1, <1>2, <1>3, <1>5, KnownFrame DEF Known, lua, main, traffic, Early
<1>7. Feeding'
  <2>1. \A c : HasRead(io', c) => HasRead(io, c)
    BY <1>2 DEF Effect, Moved
  <2>2. OneAccept(io')
    BY <1>2, OnceNone DEF HasAccept, OneAccept
  <2>3. feeder = "up"
    BY <1>1, <1>2 DEF Feeding
  <2> QED
    BY <1>1, <1>2, <1>3, <2>1, <2>2, <2>3 DEF Feeding
<1> QED
  BY <1>4, <1>6, <1>7 DEF Core

\* Handlers of a read that was on a connection that is not read from again.
LEMMA ReadDroppedInv ==
  ASSUME Core, NEW c \in Conns, LuaRaises(c) \/ OnReadFreed(c) PROVE Core'
<1>1. Types /\ Known /\ Feeding /\ Shape(io)
  BY DEF Core, Types
<1>2. HeadIs("read") /\ c = Head(io.queue).c /\ io' = Popped(io)
  BY DEF LuaRaises, OnReadFreed, OnRead, UsesFreed
<1>3. Effect(io, io', {c}, {}, {}) /\ SameKernel(io, io') /\ SameAccepts(io, io')
  BY <1>1, <1>2, AtRead
<1>4. UNCHANGED <<reading, shut, gone, owners, lua, main, late, traffic>>
  BY DEF LuaRaises, OnReadFreed, OnRead, UsesFreed, lua, traffic
<1>5. proc' \in {"alive", "aborted"}
  BY DEF LuaRaises, OnReadFreed, UsesFreed, Uses
<1>6. Types'
  BY <1>1, <1>3, <1>4, <1>5 DEF Types, TypeOK, Effect, owners, lua, main, traffic
<1>7. \A d \in Out : Early => d \notin reading \cup subscribed
  BY <1>1 DEF Known, Untouched
<1>8. Known'
  BY <1>1, <1>3, <1>4, <1>7, KnownFrame
     DEF Known, SameKernel, Closes, owners, lua, main, traffic, Early
<1>9. Feeding'
  BY <1>1, <1>3, <1>4, FeedingFrame DEF Feeding, SameKernel, Removes, owners
<1> QED
  BY <1>6, <1>8, <1>9 DEF Core

LEMMA OnCommandInv == ASSUME Core, NEW c \in Conns, OnCommand(c) PROVE Core'
<1>1. Types /\ Known /\ Feeding /\ Shape(io)
  BY DEF Core, Types
<1>2. /\ registered \subseteq Watchers /\ posted \in [Watchers -> Nat]
      /\ \A w \in Watchers : written[w] \in Seq(Nat)
  BY <1>1 DEF Types, TypeOK
<1>3. /\ HasRead(io, c) /\ c \in Watchers
      /\ \E acc, S : /\ S \subseteq registered \cup {c} /\ \A w \in S : Held(w)
                     /\ Sent(Popped(io), acc, S)
                     /\ posted' = acc.n /\ io' = ReadsOn(c, acc.q)
  BY <1>1, <1>2, OnCommandIO
<1> DEFINE q == Popped(io)
<1>4. PICK acc, S : /\ S \subseteq registered \cup {c}
                    /\ Sent(q, acc, S) /\ posted' = acc.n /\ io' = ReadsOn(c, acc.q)
  BY <1>3
<1>5. /\ UNCHANGED <<shut, gone, owners, registered, main, written>>
      /\ late' = IF c \in shut THEN late \cup {c} ELSE late
      /\ reading' = IF c \in shut THEN reading ELSE reading \cup {c}
      /\ subscribed' \subseteq subscribed \cup {c}
      /\ proc' \in {"alive", "aborted"}
      /\ HeadIs("read") /\ c = Head(io.queue).c
  BY DEF OnCommand, OnRead, Uses
<1>6. /\ Effect(io, q, {c}, {}, {}) /\ q.strand = io.strand
      /\ SameKernel(io, q) /\ SameAccepts(io, q)
  BY <1>1, <1>5, AtRead
<1> HIDE DEF q
<1>7. Effect(io, io', {c}, {c} \cap shut, S) /\ SameKernel(io, io') /\ SameAccepts(io, io')
  <2> DEFINE a == acc.q
  <2>1. /\ Shape(a) /\ Alike(q, a) /\ a.strand[Kernel] = io.strand[Kernel]
        /\ \A d \in Watchers : d \notin S => a.strand[d] = io.strand[d]
    BY <1>4, <1>6 DEF Sent
  <2> HIDE DEF a
  <2>2. Moved(io, a, {c}, {}) /\ SameAccepts(io, a)
    BY <1>6, <2>1, MovedThenAlike, MovedAlike, SameAcceptsTrans DEF Effect
  <2>3. CASE c \in shut
    <3> DEFINE r == Enqueue(a, Failed(c))
    <3>1. io' = r
      BY <1>4, <2>3 DEF ReadsOn, Failed, a
    <3>2. Shape(r) /\ r.strand = a.strand /\ Moved(a, r, {}, {c}) /\ SameAccepts(a, r)
      BY <2>1, EnqueuesRead
    <3> HIDE DEF r
    <3>3. Moved(io, r, {c}, {c}) /\ SameAccepts(io, r)
      BY <2>2, <3>2, MovedOn, SameAcceptsTrans
    <3>4. {c} \cap shut = {c}
      BY <2>3
    <3> QED
      BY <2>1, <3>1, <3>2, <3>3, <3>4 DEF Effect, SameKernel, KHas
  <2>4. CASE c \notin shut
    <3>1. io' = a /\ {c} \cap shut = {}
      BY <1>4, <2>4 DEF ReadsOn, a
    <3> QED
      BY <2>1, <2>2, <3>1 DEF Effect, SameKernel, KHas
  <2> QED
    BY <2>3, <2>4
<1>8. posted' \in [Watchers -> Nat] /\ \A d \in Watchers : d \notin S => posted'[d] = posted[d]
  BY <1>4 DEF Sent
<1>9. Types'
  <2>1. /\ shut' = shut /\ gone' = gone /\ listed' = listed /\ next' = next
        /\ flisted' = flisted /\ fnext' = fnext /\ feeder' = feeder
        /\ registered' = registered /\ pcM' = pcM /\ node' = node /\ known' = known
        /\ lost' = lost /\ written' = written
    BY <1>5 DEF owners, main
  <2>2. /\ late' \subseteq late \cup {c} /\ subscribed' \subseteq subscribed \cup {c}
        /\ reading' \subseteq reading \cup {c} /\ (c \in shut => reading' = reading)
        /\ proc' \in {"alive", "aborted"}
    BY <1>5
  <2>3. c \in Watchers /\ c \in Conns
    BY <1>3
  <2>4. TypeOK'
    <3>1. TypeOK
      BY <1>1 DEF Types
    <3> QED
      BY <2>1, <2>2, <2>3, <3>1 DEF TypeOK
  <2>5. Shape(io')
    BY <1>7 DEF Effect
  <2> QED
    BY <1>1, <1>8, <2>1, <2>2, <2>3, <2>4, <2>5 DEF Types
<1>10. Early => /\ c \notin Out
                /\ \A d \in Out : d \notin reading \cup subscribed \cup registered
  BY <1>1, <1>3 DEF Known, Untouched
<1>11. Early => \A d \in Out : /\ d \notin {c} \cup S \cup reading' \cup subscribed'
                               /\ posted'[d] = posted[d] /\ written'[d] = written[d]
  BY <1>4, <1>5, <1>8, <1>10 DEF Out
<1>12. Early => subscribed' \ late' \subseteq Listed \ shut
  BY <1>1, <1>3, <1>5, <1>10 DEF Known, Out
<1>13. Known'
  <2>1. \A d : Closes(io', d) <=> Closes(io, d)
    BY <1>7 DEF SameKernel, Closes
  <2>2. (Early' <=> Early) /\ (pcM' = "up" => pcM = "up")
    BY <1>5 DEF main, Early
  <2>3. next' = next /\ listed' = listed /\ registered' = registered /\ shut' = shut
    BY <1>5 DEF owners
  <2> QED
    BY <1>1, <1>7, <1>11, <1>12, <2>1, <2>2, <2>3, KnownFrame
<1>14. Feeding'
  <2>1. UNCHANGED <<flisted, fnext, feeder>> /\ shut' = shut /\ (Removes(io') <=> Removes(io))
    BY <1>5, <1>7 DEF owners, SameKernel, Removes
  <2>2. feeder # "deleted" =>
          \A d \in Feeds \ (flisted \cup shut) : d \notin {c} \cap shut /\ d \notin reading'
    BY <1>1, <1>3, <1>5, NoneIs DEF Feeding
  <2> QED
    BY <1>1, <1>7, <2>1, <2>2, FeedingFrame
<1> QED
  BY <1>9, <1>13, <1>14 DEF Core

LEMMA OnFeedInv == ASSUME Core, NEW c \in Conns, OnFeed(c) PROVE Core'
<1>1. Types /\ Known /\ Feeding /\ Shape(io)
  BY DEF Core, Types
<1>2. /\ subscribed \subseteq Watchers /\ posted \in [Watchers -> Nat]
      /\ \A w \in Watchers : written[w] \in Seq(Nat)
  BY <1>1 DEF Types, TypeOK
<1>3. /\ HasRead(io, c) /\ c \in Feeds
      /\ \E acc, S : /\ S \subseteq subscribed /\ \A w \in S : Held(w)
                     /\ Sent(Popped(io), acc, S)
                     /\ posted' = acc.n /\ io' = acc.q
  BY <1>1, <1>2, OnFeedIO
<1> DEFINE q == Popped(io)
<1>4. PICK acc, S : S \subseteq subscribed /\ Sent(q, acc, S) /\ posted' = acc.n /\ io' = acc.q
  BY <1>3
<1>5. /\ UNCHANGED <<shut, gone, owners, registered, main, written, subscribed, late>>
      /\ reading' = reading \cup {c}
      /\ proc' \in {"alive", "aborted"}
      /\ HeadIs("read") /\ c = Head(io.queue).c /\ Held(c)
  BY DEF OnFeed, OnRead, Uses
<1>6. /\ Effect(io, q, {c}, {}, {}) /\ q.strand = io.strand
      /\ SameKernel(io, q) /\ SameAccepts(io, q)
  BY <1>1, <1>5, AtRead
<1> HIDE DEF q
<1>7. Effect(io, io', {c}, {}, S) /\ SameKernel(io, io') /\ SameAccepts(io, io')
  <2>1. /\ Shape(io') /\ Alike(q, io') /\ io'.strand[Kernel] = io.strand[Kernel]
        /\ \A d \in Watchers : d \notin S => io'.strand[d] = io.strand[d]
    BY <1>4, <1>6 DEF Sent
  <2>2. Moved(io, io', {c}, {}) /\ SameAccepts(io, io')
    BY <1>6, <2>1, MovedThenAlike, MovedAlike, SameAcceptsTrans DEF Effect
  <2> QED
    BY <2>1, <2>2 DEF Effect, SameKernel, KHas
<1>8. posted' \in [Watchers -> Nat] /\ \A d \in Watchers : d \notin S => posted'[d] = posted[d]
  BY <1>4 DEF Sent
<1>9. c \notin shut
  BY <1>1, <1>3, <1>5, HeldIs DEF Feeding
<1>10. Types'
  BY <1>1, <1>3, <1>5, <1>7, <1>8, <1>9, NoneIs DEF Types, TypeOK, Effect, owners, main
<1>11. Early => \A d \in Out : /\ d \notin S \cup reading' \cup subscribed'
                               /\ posted'[d] = posted[d] /\ written'[d] = written[d]
  BY <1>1, <1>3, <1>4, <1>5, <1>8, NoneIs DEF Known, Untouched, Out
<1>12. Known'
  <2>1. \A d : Closes(io', d) <=> Closes(io, d)
    BY <1>7 DEF SameKernel, Closes
  <2>2. (Early' <=> Early) /\ pcM' = pcM /\ (Early => subscribed' \ late' \subseteq Listed \ shut)
    BY <1>1, <1>5 DEF main, Early, Known
  <2>3. next' = next /\ listed' = listed /\ registered' = registered /\ shut' = shut
    BY <1>5 DEF owners
  <2> QED
    BY <1>1, <1>7, <1>11, <2>1, <2>2, <2>3, KnownFrame
<1>13. Feeding'
  <2>1. UNCHANGED <<flisted, fnext, feeder>> /\ shut' = shut /\ (Removes(io') <=> Removes(io))
    BY <1>5, <1>7 DEF owners, SameKernel, Removes
  <2>2. feeder # "deleted" => \A d \in Feeds \ (flisted \cup shut) : d \notin {} \cup reading'
    BY <1>1, <1>3, <1>5 DEF Feeding
  <2> QED
    BY <1>1, <1>7, <2>1, <2>2, FeedingFrame
<1> QED
  BY <1>10, <1>12, <1>13 DEF Core

\* connection::stop on what was started.
LEMMA TypesStop ==
  ASSUME Types, NEW c \in Conns, Stop(c), Shape(io'), UNCHANGED written,
         pcM' \in {"up", "walk", "step", "clear", "io", "down"},
         UNCHANGED <<node, known, lost>>
  PROVE  Types'
<1>1. /\ proc' \in {"alive", "aborted"}
      /\ reading' = reading \ {c} /\ shut' = shut \cup {c}
      /\ registered' = registered \ {c} /\ subscribed' = subscribed \ {c}
      /\ flisted' = flisted \ {c}
      /\ UNCHANGED <<gone, listed, next, fnext, feeder, late, posted, written>>
  BY DEF Stop, Uses, traffic
<1> QED
  BY <1>1 DEF Types, TypeOK

LEMMA FeedingStop ==
  ASSUME Types, Feeding, NEW c \in Conns, Stop(c), c # fnext,
         NEW out, NEW lines, Effect(io, io', out, {c} \cap reading, lines),
         SameAccepts(io, io'), Removes(io') <=> Removes(io)
  PROVE  Feeding'
<1>1. /\ reading' = reading \ {c} /\ shut' = shut \cup {c} /\ flisted' = flisted \ {c}
      /\ UNCHANGED <<fnext, feeder>>
  BY DEF Stop
<1>2. flisted' \cap shut' = {} /\ fnext' \notin flisted' \cup shut'
  BY <1>1 DEF Feeding
<1>3. ASSUME feeder # "deleted", NEW d \in Feeds \ (flisted' \cup shut')
      PROVE  d \notin reading' /\ ~HasRead(io', d)
  <2>1. d # c /\ d \notin reading /\ ~HasRead(io, d)
    BY <1>1, <1>3 DEF Feeding
  <2> QED
    BY <1>1, <2>1 DEF Effect, Moved
<1>4. OneAccept(io') /\ (HasAccept(io') <=> HasAccept(io))
  BY DEF SameAccepts, Feeding
<1> QED
  BY <1>1, <1>2, <1>3, <1>4 DEF Feeding

LEMMA OnReadFailsInv == ASSUME Core, NEW c \in Conns, OnReadFails(c) PROVE Core'
<1>1. Types /\ Known /\ Feeding /\ Shape(io)
  BY DEF Core, Types
<1>2. /\ HasRead(io, c)
      /\ Effect(io, io', {c}, {c} \cap reading, {}) /\ SameAccepts(io, io')
      /\ \A d : Closes(io', d) <=> Closes(io, d) \/ (c \in Watchers /\ d = c)
      /\ Removes(io') <=> Removes(io)
  BY <1>1, OnReadFailsIO
<1>3. Stop(c) /\ UNCHANGED <<main, written>>
  BY DEF OnReadFails, Stop, traffic
<1>4. (Early' <=> Early) /\ pcM' = pcM
  BY <1>3 DEF main, Early
<1>5. Types'
  BY <1>1, <1>2, <1>3, TypesStop DEF Effect, main, Types, TypeOK
<1>6. c # fnext
  BY <1>1, <1>2, NoneIs DEF Feeding, Types, TypeOK
<1>7. c # next /\ (Early => c \notin Out)
  BY <1>1, <1>2, NoneIs DEF Known, Untouched, Out, Types, TypeOK
<1>8. CASE Early
  <2>1. Known'
    BY <1>1, <1>2, <1>3, <1>4, <1>7, <1>8, KnownStop
  <2>2. Feeding'
    BY <1>1, <1>2, <1>3, <1>6, FeedingStop
  <2> QED
    BY <1>5, <2>1, <2>2 DEF Core
<1>9. CASE ~Early
  <2>1. Known'
    <3>1. shut' = shut \cup {c} /\ next' = next /\ listed' = listed
      BY <1>3 DEF Stop
    <3> QED
      BY <1>1, <1>2, <1>4, <1>9, <3>1 DEF Known, Early
  <2>2. Feeding'
    BY <1>1, <1>2, <1>3, <1>6, FeedingStop
  <2> QED
    BY <1>5, <2>1, <2>2 DEF Core
<1> QED
  BY <1>8, <1>9

\* A watcher whose strand has something to do was started.
LEMMA SendsToStarted ==
  ASSUME Types, Known, NEW c \in Watchers, NEW kind, StrandIs(c, kind)
  PROVE  Early => c \notin Out
<1>1. io.strand[c].locked
  BY AtTurn, KernelIs DEF Types
<1> QED
  BY <1>1 DEF Known, Untouched

LEMMA DoSendInv == ASSUME Core, NEW c \in Watchers, DoSend(c) PROVE Core'
<1>1. Types /\ Known /\ Feeding /\ Shape(io) /\ StrandIs(c, "send")
  BY DEF Core, Types, DoSend
<1>2. Effect(io, io', {}, {}, {c}) /\ SameAccepts(io, io') /\ SameKernel(io, io')
  BY <1>1, DoSendIO DEF DoSend
<1>3. /\ written' = [written EXCEPT ![c] = Append(@, Head(io.strand[c].ready).n)]
      /\ UNCHANGED <<reading, shut, gone, owners, lua, main, proc, wild, late,
                     reads, posted>>
  BY DEF DoSend
<1>4. Early => c \notin Out
  BY <1>1, SendsToStarted
<1>5. Head(io.strand[c].ready).n \in Nat
  BY <1>1, AtTurn, KernelIs, KindIs
<1>6. /\ written' \in [Watchers -> Seq(Nat)]
      /\ \A d \in Watchers : d # c => written'[d] = written[d]
  BY <1>1, <1>3, <1>5 DEF Types
<1>7. Types'
  BY <1>1, <1>2, <1>3, <1>6 DEF Types, TypeOK, Effect, owners, lua, main
<1>8. Early => \A d \in Out : /\ d \notin {c} \cup reading \cup subscribed
                              /\ written'[d] = written[d]
  BY <1>1, <1>4, <1>6 DEF Known, Untouched, Out
<1>9. Known'
  BY <1>1, <1>2, <1>3, <1>8, KnownFrame
     DEF Known, SameKernel, Closes, owners, lua, main, Early
<1>10. Feeding'
  BY <1>1, <1>2, <1>3, FeedingFrame DEF Feeding, SameKernel, Removes, owners
<1> QED
  BY <1>7, <1>9, <1>10 DEF Core

LEMMA DoSendFailsInv == ASSUME Core, NEW c \in Watchers, DoSendFails(c) PROVE Core'
<1>1. Types /\ Known /\ Feeding /\ Shape(io) /\ StrandIs(c, "send") /\ c \in Conns
  BY NoneIs DEF Core, Types, DoSendFails
<1>2. /\ Effect(io, io', {}, {c} \cap reading, {c}) /\ SameAccepts(io, io')
      /\ \A d : Closes(io', d) <=> Closes(io, d) \/ d = c
      /\ Removes(io') <=> Removes(io)
  BY <1>1, DoSendFailsIO
<1>3. Stop(c) /\ UNCHANGED <<main, written>>
  BY DEF DoSendFails, Stop, traffic
<1>4. (Early' <=> Early) /\ pcM' = pcM
  BY <1>3 DEF main, Early
<1>5. Types'
  BY <1>1, <1>2, <1>3, TypesStop DEF Effect, main, Types, TypeOK
<1>6. c # fnext
  BY <1>1, NoneIs DEF Types, TypeOK
<1>7. Feeding'
  BY <1>1, <1>2, <1>3, <1>6, FeedingStop
<1>8. Early => c \notin Out
  BY <1>1, SendsToStarted
<1>9. c # next
  BY <1>1, <1>8, NoneIs DEF Known, Out, Types, TypeOK
<1>10. Known'
  <2>1. CASE Early
    BY <1>1, <1>2, <1>3, <1>4, <1>8, <1>9, <2>1, KnownStop
  <2>2. CASE ~Early
    <3>1. shut' = shut \cup {c} /\ next' = next /\ listed' = listed
      BY <1>3 DEF Stop
    <3> QED
      BY <1>1, <1>2, <1>4, <2>2, <3>1 DEF Known, Early
  <2> QED
    BY <2>1, <2>2
<1> QED
  BY <1>5, <1>7, <1>10 DEF Core

LEMMA DoSendFreedInv == ASSUME Core, NEW c \in Watchers, DoSendFreed(c) PROVE Core'
<1>1. Types /\ Known /\ Feeding /\ Shape(io) /\ StrandIs(c, "send")
  BY DEF Core, Types, DoSendFreed
<1>2. Effect(io, io', {}, {}, {c}) /\ SameAccepts(io, io') /\ SameKernel(io, io')
  BY <1>1, DoSendIO DEF DoSendFreed, UsesFreed
<1>3. /\ UNCHANGED <<reading, shut, gone, owners, lua, main, late, reads, traffic>>
      /\ proc' \in {"alive", "aborted"}
  BY DEF DoSendFreed, UsesFreed, Uses
<1>4. Early => c \notin Out
  BY <1>1, SendsToStarted
<1>5. Types'
  BY <1>1, <1>2, <1>3 DEF Types, TypeOK, Effect, owners, lua, main, traffic
<1>6. Early => \A d \in Out : d \notin {c} \cup reading \cup subscribed
  BY <1>1, <1>4 DEF Known, Untouched
<1>7. Known'
  BY <1>1, <1>2, <1>3, <1>6, KnownFrame
     DEF Known, SameKernel, Closes, owners, lua, main, traffic, Early
<1>8. Feeding'
  BY <1>1, <1>2, <1>3, FeedingFrame DEF Feeding, SameKernel, Removes, owners
<1> QED
  BY <1>5, <1>7, <1>8 DEF Core

LEMMA DoCloseInv == ASSUME Core, DoClose PROVE Core'
<1> DEFINE c == Head(io.strand[Kernel].ready).c
<1>1. Types /\ Known /\ Feeding /\ Shape(io)
  BY DEF Core, Types
<1>2. /\ c \in Watchers /\ Closes(io, c)
      /\ Effect(io, io', {}, {}, {}) /\ SameAccepts(io, io')
      /\ \A d : Closes(io', d) => Closes(io, d)
      /\ \A d : Closes(io, d) /\ d # c => Closes(io', d)
      /\ Removes(io') <=> Removes(io)
  BY <1>1, DoCloseIO
<1>3. /\ listed' = RemoveFirst(listed, c)
      /\ UNCHANGED <<reading, shut, gone, next, flisted, fnext, feeder, lua, main,
                     proc, wild, late, reads, traffic>>
  BY DEF DoClose
<1> HIDE DEF c
<1>4. listed' \in Seq(Watchers) /\ IsInjective(listed') /\ Listed' = Listed \ {c}
  BY <1>1, <1>3, RemoveList DEF Types, Listed
<1>5. c \in shut
  BY <1>1, <1>2 DEF Known
<1>6. Types'
  BY <1>1, <1>2, <1>3, <1>4 DEF Types, TypeOK, Effect, lua, main, traffic, Listed
<1>7. (Early' <=> Early) /\ pcM' = pcM
  BY <1>3 DEF main, Early
<1>8. Known'
  <2>1. Out' = Out
    BY <1>3, <1>4, <1>5 DEF Out
  <2>2. ASSUME Early, NEW d \in Out PROVE Untouched(d)'
    <3>1. Untouched(d)
      BY <1>1, <2>2 DEF Known
    <3>2. ~HasRead(io', d) /\ io'.strand[d] = io.strand[d]
      BY <1>2, <3>1 DEF Effect, Moved, Untouched, Out
    <3> QED
      BY <1>3, <3>1, <3>2 DEF Untouched, lua, traffic
  <2>3. /\ pcM = "up" => registered' \subseteq Listed' \ shut'
        /\ Early => subscribed' \ late' \subseteq Listed' \ shut'
    BY <1>1, <1>3, <1>4, <1>5 DEF Known, lua
  <2>4. Early => \A d \in Listed' \cap shut' : Closes(io', d)
    BY <1>1, <1>2, <1>3, <1>4 DEF Known
  <2>5. \A d \in Watchers : Closes(io', d) => d \in shut'
    BY <1>1, <1>2, <1>3 DEF Known
  <2>6. next' # None => Early' /\ next' \notin Listed' \cup shut'
    BY <1>1, <1>3, <1>4, <1>7 DEF Known
  <2>7. ~Early' => listed' = <<>>
    <3>1. ASSUME listed = <<>> PROVE listed' = <<>>
      BY <1>3, <3>1 DEF RemoveFirst
    <3> QED
      BY <1>1, <1>7, <3>1 DEF Known
  <2> QED
    BY <1>7, <2>1, <2>2, <2>3, <2>4, <2>5, <2>6, <2>7 DEF Known
<1>9. Feeding'
  BY <1>1, <1>2, <1>3, FeedingFrame DEF Feeding
<1> QED
  BY <1>6, <1>8, <1>9 DEF Core

LEMMA DoRemoveFeederInv == ASSUME Core, DoRemoveFeeder PROVE Core'
<1>1. Types /\ Known /\ Feeding /\ Shape(io) /\ flisted \subseteq Feeds
  BY DEF Core, Types, TypeOK
<1>2. /\ Effect(io, io', {}, flisted \cap reading, {}) /\ SameAccepts(io, io')
      /\ Removes(io)
      /\ \A d : Closes(io', d) <=> Closes(io, d)
  BY <1>1, DoRemoveFeederIO
<1>3. /\ feeder' = "deleted" /\ flisted' = {} /\ fnext' = None
      /\ reading' = reading \ flisted
      /\ UNCHANGED <<shut, gone, listed, next, lua, main, proc, wild, late, reads,
                     traffic>>
  BY DEF DoRemoveFeeder
<1>4. Types'
  BY <1>1, <1>2, <1>3 DEF Types, TypeOK, Effect, lua, main, traffic
<1>5. \A c \in Out : c \notin flisted /\ (Early => c \notin reading' \cup subscribed)
  BY <1>1, <1>3, NoneIs DEF Known, Untouched, Out
<1>6. Known'
  BY <1>1, <1>2, <1>3, <1>5, KnownFrame DEF Known, lua, main, traffic, Early
<1>7. OneAccept(io') /\ ~HasAccept(io')
  BY <1>1, <1>2 DEF Feeding, SameAccepts
<1>8. Feeding'
  BY <1>1, <1>3, <1>7, NoneIs DEF Feeding, Types, TypeOK
<1> QED
  BY <1>4, <1>6, <1>8 DEF Core

LEMMA StopListedInv == ASSUME Core, StopListed PROVE Core'
<1>1. Types /\ Known /\ Feeding /\ Shape(io)
  BY DEF Core, Types
<1>2. /\ node \in Listed /\ node \in Watchers /\ Early /\ Early'
      /\ Stop(node) /\ UNCHANGED <<node, known, lost, written>>
      /\ pcM' = "step"
  BY <1>1 DEF StopListed, Main, Early, Stop, traffic, Types, TypeOK, Listed
<1>3. node \in Conns /\ node # fnext
  BY <1>1, <1>2, NoneIs DEF Types, TypeOK
<1>4. /\ Effect(io, io', {}, {node} \cap reading, {}) /\ SameAccepts(io, io')
      /\ \A d : Closes(io', d) <=> Closes(io, d) \/ (node \in Watchers /\ d = node)
      /\ Removes(io') <=> Removes(io)
  BY <1>1, <1>3, StopListedIO
<1>5. Types'
  BY <1>1, <1>2, <1>3, <1>4, TypesStop DEF Effect
<1>6. node \notin Out /\ node # next
  BY <1>1, <1>2, <1>3, NoneIs DEF Known, Out
<1>7. Known'
  BY <1>1, <1>2, <1>3, <1>4, <1>6, KnownStop
<1>8. Feeding'
  BY <1>1, <1>2, <1>3, <1>4, FeedingStop
<1> QED
  BY <1>5, <1>7, <1>8 DEF Core

LEMMA StopFeedersInv == ASSUME Core, StopFeeders PROVE Core'
<1>1. Types /\ Known /\ Feeding /\ Shape(io) /\ flisted \subseteq Feeds /\ flisted \subseteq Conns
  BY NoneIs DEF Core, Types, TypeOK
<1>2. /\ Effect(io, io', {}, flisted \cap reading, {}) /\ SameKernel(io, io')
      /\ SameAccepts(io, io')
  BY <1>1, CancelsIO DEF StopFeeders
<1>3. /\ shut' = shut \cup flisted /\ reading' = reading \ flisted /\ flisted' = {}
      /\ Early /\ Early' /\ pcM' = "clear"
      /\ UNCHANGED <<gone, listed, next, fnext, feeder, lua, node, known, lost,
                     proc, wild, late, reads, traffic>>
  BY DEF StopFeeders, Main, Early
<1>4. Types'
  BY <1>1, <1>2, <1>3 DEF Types, TypeOK, Effect, lua, traffic
<1>5. \A c \in Out : c \notin flisted /\ (Early => c \notin reading' \cup subscribed)
  BY <1>1, <1>3, NoneIs DEF Known, Untouched, Out
<1>6. Known'
  BY <1>1, <1>2, <1>3, <1>5, KnownFrame DEF Known, SameKernel, Closes, lua, traffic
<1>7. \A c \in Feeds : c \notin flisted => (HasRead(io', c) => HasRead(io, c))
  BY <1>2 DEF Effect, Moved
<1>8. Feeding'
  BY <1>1, <1>2, <1>3, <1>7 DEF Feeding, SameAccepts, SameKernel, Removes
<1> QED
  BY <1>4, <1>6, <1>8 DEF Core

LEMMA ClearConnectionsInv == ASSUME Core, ClearConnections PROVE Core'
<1> DEFINE dropped == {c \in Watchers : ~Closing(c)}
<1>1. Types /\ Known /\ Feeding /\ Shape(io) /\ dropped \subseteq Conns /\ dropped \subseteq Watchers
  BY NoneIs DEF Core, Types
<1>2. /\ next' = None /\ listed' = <<>>
      /\ reading' = reading \ dropped /\ io' = Aborted(io, dropped)
      /\ ~Early' /\ pcM' = "io"
      /\ UNCHANGED <<shut, gone, flisted, fnext, feeder, lua, node, known, lost,
                     proc, wild, late, reads, traffic>>
  BY DEF ClearConnections, Main, Early
<1> HIDE DEF dropped
<1>3. /\ Effect(io, io', {}, dropped \cap reading, {}) /\ SameKernel(io, io')
      /\ SameAccepts(io, io')
  BY <1>1, <1>2, CancelsIO
<1>4. listed' \in Seq(Watchers) /\ IsInjective(listed') /\ ToSet(listed') = {}
  BY <1>2 DEF IsInjective, ToSet
<1>5. Types'
  BY <1>1, <1>2, <1>3, <1>4 DEF Types, TypeOK, Effect, lua, traffic
<1>6. Known'
  BY <1>1, <1>2, <1>3 DEF Known, Early, SameKernel, Closes
<1>7. Feeding'
  BY <1>1, <1>2, <1>3, FeedingFrame, NoneIs DEF Feeding, SameKernel, Removes
<1> QED
  BY <1>5, <1>6, <1>7 DEF Core

LEMMA CoreInit == ASSUME Init PROVE Core
<1> DEFINE L == [locked |-> FALSE, ready |-> <<>>, waiting |-> <<>>]
           F == [s \in Strands |-> L]
<1>1. io = [queue |-> <<>>, strand |-> F]
  BY DEF Init, Strands
<1>2. L \in Lines /\ <<>> \in Seq(Jobs)
  BY DEF Lines
<1>3. F \in [Strands -> Lines] /\ \A s \in Strands : F[s] = L
  <2> HIDE DEF L
  <2> QED
    BY <1>2
<1>4. /\ L.locked = FALSE /\ L.ready = <<>> /\ L.waiting = <<>>
      /\ \A J : ~Has(<<>>, J) /\ Once(<<>>, J)
  BY OneJob, OnceNone
<1> HIDE DEF F, L
<1>5. io.queue = <<>> /\ io.strand = F /\ io \in Ios
  BY <1>1, <1>2, <1>3 DEF Ios
<1>6. Shape(io)
  BY <1>3, <1>4, <1>5 DEF Shape, InLine
<1>7. /\ \A d : ~HasRead(io, d) /\ ~Closes(io, d)
      /\ ~HasAccept(io) /\ OneAccept(io) /\ ~Removes(io)
      /\ \A c \in Watchers : ~io.strand[c].locked
  BY <1>3, <1>4, <1>5, KernelIs DEF HasRead, Closes, HasAccept, OneAccept, Removes, KHas
<1>8. /\ next \in Watchers \cup {None} /\ fnext \in Feeds \cup {None}
  BY FreshIs DEF Init
<1>9. listed = <<>> /\ listed \in Seq(Watchers) /\ IsInjective(listed) /\ ToSet(listed) = {}
  BY DEF Init, IsInjective, ToSet
<1>10. /\ posted \in [Watchers -> Nat] /\ written \in [Watchers -> Seq(Nat)]
       /\ \A c \in Watchers : posted[c] = 0 /\ written[c] = <<>>
  BY DEF Init
<1>11. /\ reading = {} /\ shut = {} /\ gone = {} /\ flisted = {} /\ feeder = "up"
       /\ registered = {} /\ subscribed = {} /\ late = {}
       /\ pcM = "up" /\ node = None /\ known = {} /\ lost = FALSE /\ proc = "alive"
  BY DEF Init
<1>12. Types
  BY <1>6, <1>8, <1>9, <1>10, <1>11 DEF Types, TypeOK
<1>13. Known
  BY <1>7, <1>9, <1>10, <1>11 DEF Known, Untouched, Out, Early, Listed
<1>14. Feeding
  BY <1>7, <1>11 DEF Feeding
<1> QED
  BY <1>12, <1>13, <1>14 DEF Core

LEMMA CoreNext == Core /\ Beginning /\ [Next]_vars => Core'
<1> SUFFICES ASSUME Core, Beginning, [Next]_vars PROVE Core'
  OBVIOUS
<1>1. CASE Peers
  BY <1>1, ConnectsInv, FeederConnectsInv, PeerReadsInv, PeerLeavesInv DEF Peers
<1>2. CASE Worker
  <2>1. ASSUME NEW c \in Conns,
               \/ OnCommand(c) \/ OnFeed(c) \/ LuaRaises(c) \/ OnReadFails(c) \/ OnReadFreed(c)
        PROVE  Core'
    BY <2>1, OnCommandInv, OnFeedInv, ReadDroppedInv, OnReadFailsInv
  <2>2. ASSUME NEW c \in Watchers, DoSend(c) \/ DoSendFails(c) \/ DoSendFreed(c) PROVE Core'
    BY <2>2, DoSendInv, DoSendFailsInv, DoSendFreedInv
  <2> QED
    BY <1>2, <2>1, <2>2, OnWatcherAcceptedInv, AddWatcherInv, StartReadsInv,
       WatcherAcceptThrowsInv, OnAcceptInv, OnAcceptFailsInv, DoCloseInv, DoRemoveFeederInv
       DEF Worker
<1>3. CASE StopBegins \/ StopKernel
  BY <1>3, StopStepsInv, StopListedInv, StopFeedersInv, ClearConnectionsInv DEF StopKernel
<1>4. CASE UNCHANGED vars
  <2>1. UNCHANGED <<io, reading, shut, gone, owners, lua, main, proc, late, traffic>>
    BY <1>4 DEF vars
  <2>2. /\ gone' \subseteq Watchers /\ proc' \in {"alive", "aborted"}
        /\ pcM' \in {"up", "walk", "step", "clear", "io", "down"}
        /\ node' \in Watchers \cup {None} /\ known' \subseteq Watchers /\ lost' \in BOOLEAN
        /\ Early' <=> Early
        /\ pcM' = "up" => pcM = "up"
    BY <2>1 DEF Core, Types, TypeOK, main, Early
  <2> QED
    BY <2>1, <2>2, StillInv
<1> QED
  BY <1>1, <1>2, <1>3, <1>4 DEF Next

\* Which steps the handler of an accept is made of, and which leave it alone.
LEMMA StartsAlone ==
  ASSUME [Next]_vars, ~OnWatcherAccepted, ~AddWatcher, ~StartReads
  PROVE  /\ UNCHANGED <<starting, started>>
         /\ \/ {starting, started} = {None}
            \/ UNCHANGED <<listed, shut, pcM>>
            \/ StopBegins \/ StopKernel
<1>1. CASE Peers
  BY <1>1 DEF Peers, Connects, FeederConnects, PeerWrites, PeerLeaves, ReadEnds, Peer, owners, main
<1>2. CASE Worker
  <2>1. CASE WatcherAcceptThrows
    BY <2>1 DEF WatcherAcceptThrows, owners, main
  <2>2. CASE ~WatcherAcceptThrows
    <3>1. UNCHANGED <<starting, started>>
      BY <1>2, <2>2 DEF Worker, OnAccept, OnAcceptFails, OnRead, OnCommand, OnFeed, LuaRaises,
         OnReadFails, Stop, OnReadFreed, UsesFreed, DoSend, DoSendFails, DoSendFreed, DoClose,
         DoRemoveFeeder, owners
    <3>2. {starting, started} = {None}
      BY <1>2, <2>2 DEF Worker, OnAccept, OnAcceptFails, OnRead, OnCommand, OnFeed, LuaRaises,
         OnReadFails, OnReadFreed, DoSend, DoSendFails, DoSendFreed, DoClose, DoRemoveFeeder,
         StrandIs, HeadIs
    <3> QED
      BY <3>1, <3>2
  <2> QED
    BY <2>1, <2>2
<1>3. CASE StopBegins \/ StopKernel
  BY <1>3 DEF StopBegins, StopKernel, StopListed, Stop, StepOn, LosePlace, StopFeeders,
     ClearConnections, StopService, owners
<1>4. CASE UNCHANGED vars
  BY <1>4 DEF vars, owners, main
<1> QED
  BY <1>1, <1>2, <1>3, <1>4 DEF Next

LEMMA BeginningNext == Core /\ Beginning /\ [Next]_vars => Beginning'
<1> SUFFICES ASSUME Core, Beginning, [Next]_vars PROVE Beginning'
  OBVIOUS
<1>1. Types /\ Known
  BY DEF Core
<1>2. CASE OnWatcherAccepted
  <2>1. /\ {starting, started} = {None} /\ starting' = next /\ started' = started /\ next # None
        /\ listed' = Append(listed, next) /\ UNCHANGED <<shut, main>>
    BY <1>2 DEF OnWatcherAccepted, HeadIs
  <2>2. next \in Watchers /\ next \notin Listed \cup shut
    BY <1>1, <2>1 DEF Known, Types, TypeOK
  <2>3. Listed' = Listed \cup {next}
    BY <1>1, <2>1, <2>2, AppendList DEF Types, Listed
  <2>4. started' = None /\ None \notin Watchers
    BY <2>1, NoneIs
  <2> QED
    BY <2>1, <2>2, <2>3, <2>4 DEF Beginning
<1>3. CASE AddWatcher \/ StartReads
  <2>1. UNCHANGED <<listed, shut, main>>
    BY <1>3 DEF AddWatcher, StartReads
  <2>2. Listed' = Listed /\ (Early' <=> Early) /\ pcM' = pcM /\ None \notin Watchers
    BY <2>1, NoneIs DEF Listed, Early, main
  <2>3. \/ starting' = None /\ started' = starting
        \/ starting' = starting /\ started' = None
    BY <1>3 DEF AddWatcher, StartReads
  <2> QED
    BY <2>1, <2>2, <2>3 DEF Beginning
<1>4. CASE ~OnWatcherAccepted /\ ~AddWatcher /\ ~StartReads
  <2>1. /\ UNCHANGED <<starting, started>>
        /\ \/ {starting, started} = {None}
           \/ UNCHANGED <<listed, shut, pcM>>
           \/ StopBegins \/ StopKernel
    BY <1>4, StartsAlone
  <2>2. CASE {starting, started} = {None}
    BY <2>1, <2>2, NoneIs DEF Beginning
  <2>3. CASE UNCHANGED <<listed, shut, pcM>>
    BY <2>1, <2>3 DEF Beginning, Listed, Early
  <2>4. CASE StopBegins \/ StopKernel
    <3>1. shut \subseteq shut' /\ pcM' # "up" /\ (Early' => Early /\ listed' = listed)
      BY <2>4 DEF StopBegins, StopKernel, StopListed, Stop, StepOn, LosePlace, StopFeeders,
         ClearConnections, StopService, owners, Main, Early
    <3> QED
      BY <2>1, <3>1 DEF Beginning, Listed
  <2> QED
    BY <2>1, <2>2, <2>3, <2>4
<1> QED
  BY <1>2, <1>3, <1>4

Inv == Core /\ Beginning

LEMMA InvInit == ASSUME Init PROVE Inv
<1>1. starting = None /\ started = None
  BY DEF Init
<1>2. Beginning
  BY <1>1, NoneIs DEF Beginning
<1> QED
  BY <1>2, CoreInit DEF Inv

LEMMA InvNext == Inv /\ [Next]_vars => Inv'
BY CoreNext, BeginningNext DEF Inv

(* The connections, the lists that hold them and what Lua knows have their *)
(* types, and no socket that was shut down is read from.                   *)
THEOREM TypeCorrect == Spec => []TypeOK
<1>1. Init => Inv
  BY InvInit
<1>2. Inv => TypeOK
  BY DEF Inv, Core, Types
<1> QED
  BY <1>1, <1>2, InvNext, PTL DEF Spec

(* Until kernel::stop has cleared its list, grind.watchers holds pointers  *)
(* to live connections only, and so does grind.subscriptions, but for a    *)
(* watcher whose subscribe was read after its stop().                      *)
THEOREM LuaIsTold == Spec => []LuaPointersLive
<1>1. Init => Inv
  BY InvInit
<1>2. Inv => LuaPointersLive
  BY HeldIs DEF Inv, Core, LuaPointersLive, Known, Early
<1> QED
  BY <1>1, <1>2, InvNext, PTL DEF Spec

(***************************************************************************)
(* Writes                                                                  *)
(***************************************************************************)
\* Steps that neither send, write nor start a watcher.
Quiet == /\ UNCHANGED traffic
         /\ Listed' \subseteq Listed /\ shut \subseteq shut'
         /\ \A c \in Watchers : c \in Listed' \ shut' => io'.strand[c] = io.strand[c]

LEMMA QuietPeers == ASSUME Inv, Peers PROVE Quiet
<1>1. Shape(io)
  BY DEF Inv, Core, Types
<1>2. UNCHANGED <<traffic, shut, owners>>
  BY DEF Peers, Connects, FeederConnects, PeerWrites, PeerLeaves, ReadEnds, Peer
<1>3. \A c \in Watchers : io'.strand[c] = io.strand[c]
  <2>1. CASE Connects
    BY <1>1, <2>1, ConnectsIO DEF Effect
  <2>2. ASSUME NEW ok \in BOOLEAN, FeederConnects(ok)
        PROVE  \A c \in Watchers : io'.strand[c] = io.strand[c]
    BY <1>1, <2>2, FeederConnectsIO DEF Effect
  <2>3. ASSUME NEW d \in Conns, PeerWrites(d) \/ ReadEnds(d)
        PROVE  \A c \in Watchers : io'.strand[c] = io.strand[c]
    BY <1>1, <2>3, PeerReadsIO DEF Effect
  <2>4. ASSUME NEW d \in Conns, PeerLeaves(d)
        PROVE  \A c \in Watchers : io'.strand[c] = io.strand[c]
    BY <2>4 DEF PeerLeaves, Peer
  <2> QED
    BY <2>1, <2>2, <2>3, <2>4 DEF Peers
<1> QED
  BY <1>2, <1>3 DEF Quiet, Listed, owners

LEMMA QuietWorker ==
  ASSUME Inv,
         \/ AddWatcher \/ StartReads \/ WatcherAcceptThrows \/ OnAccept \/ OnAcceptFails \/ DoClose \/ DoRemoveFeeder
         \/ \E c \in Conns : LuaRaises(c) \/ OnReadFreed(c) \/ OnReadFails(c)
  PROVE  Quiet
<1>1. Shape(io) /\ Types /\ Known /\ Feeding
  BY DEF Inv, Core, Types
<1>2. UNCHANGED traffic /\ shut \subseteq shut'
  BY DEF AddWatcher, StartReads, WatcherAcceptThrows, OnAccept, OnAcceptFails, LuaRaises, OnRead,
         OnReadFreed, UsesFreed,
         OnReadFails, Stop, DoClose, DoRemoveFeeder, traffic
<1>3. Listed' \subseteq Listed
  <2>1. CASE DoClose
    BY <1>1, <2>1, RemoveList DEF DoClose, Listed, Types
  <2>2. CASE ~DoClose
    <3>1. listed' = listed
      BY <2>2 DEF AddWatcher, StartReads, WatcherAcceptThrows, OnAccept, OnAcceptFails, LuaRaises, OnRead, OnReadFreed,
                  UsesFreed, OnReadFails, Stop, DoRemoveFeeder, owners
    <3> QED
      BY <3>1 DEF Listed
  <2> QED
    BY <2>1, <2>2
<1>4. \A w \in Watchers : io'.strand[w] = io.strand[w]
  <2>1. CASE WatcherAcceptThrows \/ OnAccept
    BY <1>1, <2>1, AtAccept DEF WatcherAcceptThrows, OnAccept
  <2>0. CASE AddWatcher
    BY <2>0 DEF AddWatcher
  <2>7. CASE StartReads
    BY <1>1, <2>7, StartReadsIs DEF Inv
  <2>2. CASE OnAcceptFails
    BY <1>1, <2>2, OnAcceptFailsIO DEF Effect, Feeding
  <2>3. ASSUME NEW c \in Conns, LuaRaises(c) \/ OnReadFreed(c)
        PROVE  \A w \in Watchers : io'.strand[w] = io.strand[w]
    BY <1>1, <2>3, AtRead DEF LuaRaises, OnRead, OnReadFreed, UsesFreed
  <2>4. ASSUME NEW c \in Conns, OnReadFails(c)
        PROVE  \A w \in Watchers : io'.strand[w] = io.strand[w]
    BY <1>1, <2>4, OnReadFailsIO DEF Effect
  <2>5. CASE DoClose
    BY <1>1, <2>5, DoCloseIO DEF Effect
  <2>6. CASE DoRemoveFeeder
    BY <1>1, <2>6, DoRemoveFeederIO DEF Effect, Types, TypeOK
  <2> QED
    BY <2>0, <2>1, <2>2, <2>3, <2>4, <2>5, <2>6, <2>7
<1> QED
  BY <1>2, <1>3, <1>4 DEF Quiet

LEMMA QuietStop == ASSUME Inv, StopBegins \/ StopKernel PROVE Quiet
<1>1. Shape(io) /\ Types /\ Known /\ Feeding
  BY DEF Inv, Core, Types
<1>2. UNCHANGED traffic /\ shut \subseteq shut'
  BY DEF StopBegins, StopKernel, StopListed, StepOn, LosePlace, StopFeeders, ClearConnections,
         StopService, Stop, traffic
<1>3. Listed' \subseteq Listed
  <2>1. listed' = listed \/ listed' = <<>>
    BY DEF StopBegins, StopKernel, StopListed, StepOn, LosePlace, StopFeeders, ClearConnections,
           StopService, Stop, owners
  <2> QED
    BY <2>1 DEF Listed, ToSet
<1>4. \A w \in Watchers : io'.strand[w] = io.strand[w]
  <2>1. CASE StopBegins \/ StepOn \/ LosePlace \/ StopService
    BY <2>1 DEF StopBegins, StepOn, LosePlace, StopService
  <2>2. CASE StopListed
    <3>1. node \in Conns
      BY <1>1, <2>2, NoneIs DEF StopListed, Types, TypeOK
    <3> QED
      BY <1>1, <2>2, <3>1, StopListedIO DEF Effect
  <2>3. CASE StopFeeders
    <3>1. flisted \subseteq Conns
      BY <1>1, NoneIs DEF Types, TypeOK
    <3> QED
      BY <1>1, <2>3, <3>1, CancelsIO DEF Effect, StopFeeders
  <2>4. CASE ClearConnections
    <3> DEFINE S == {d \in Watchers : ~Closing(d)}
    <3>1. S \subseteq Conns /\ io' = Aborted(io, S)
      BY <2>4, NoneIs DEF ClearConnections
    <3> HIDE DEF S
    <3> QED
      BY <1>1, <3>1, CancelsIO DEF Effect
  <2> QED
    BY <2>1, <2>2, <2>3, <2>4 DEF StopKernel
<1> QED
  BY <1>2, <1>3, <1>4 DEF Quiet

LEMMA QuietSends == ASSUME Types, Sending, Quiet PROVE Sending'
<1>1. Listed \subseteq Watchers /\ Listed' \ shut' \subseteq Listed \ shut
  BY DEF Types, TypeOK, Listed, Quiet
<1>2. ASSUME NEW c \in Listed' \ shut' PROVE InOrder(io'.strand[c], posted'[c], written'[c])
  <2>1. io'.strand[c] = io.strand[c] /\ posted'[c] = posted[c] /\ written'[c] = written[c]
    BY <1>1, <1>2 DEF Quiet, traffic
  <2> QED
    BY <1>1, <1>2, <2>1 DEF Sending
<1> QED
  BY <1>2 DEF Sending

LEMMA SendingNext == Inv /\ Sending /\ [Next]_vars => Sending'
<1> SUFFICES ASSUME Inv, Sending, [Next]_vars PROVE Sending'
  OBVIOUS
<1>1. Types /\ Known /\ Feeding /\ Shape(io) /\ Listed \subseteq Watchers
  BY DEF Inv, Core, Types, TypeOK, Listed
<1>2. CASE Quiet
  BY <1>1, <1>2, QuietSends
<1>3. CASE OnWatcherAccepted
  <2>1. /\ listed' = Append(listed, next) /\ next # None
        /\ UNCHANGED <<shut, posted, written>>
    BY <1>3 DEF OnWatcherAccepted, traffic
  <2>2. io'.strand = io.strand
    BY <1>1, <1>3, AtAccept DEF OnWatcherAccepted
  <2>3. next \in Out /\ Untouched(next)
    BY <1>1, <2>1 DEF Known, Types, TypeOK, Out
  <2>4. Listed' = Listed \cup {next}
    BY <1>1, <2>1, <2>3, AppendList DEF Types, Listed, Out
  <2>5. InOrder(io.strand[next], posted[next], written[next])
    <3>1. /\ io.strand[next].ready = <<>> /\ io.strand[next].waiting = <<>>
          /\ posted[next] = 0 /\ written[next] = <<>>
      BY <1>1, <2>3, KernelIs, ShapeParts DEF Untouched, Out
    <3>2. Len(<<>>) = 0 /\ DOMAIN <<>> = {} /\ 0 = 0 + 0 + 0
      OBVIOUS
    <3>3. Numbered(<<>>, <<>>, 0, <<>>)
      BY <3>2 DEF Numbered
    <3> QED
      BY <3>1, <3>3 DEF InOrder
  <2> QED
    BY <2>1, <2>2, <2>4, <2>5 DEF Sending
<1>4. ASSUME NEW c \in Conns, OnCommand(c) \/ OnFeed(c) PROVE Sending'
  <2> DEFINE q == Popped(io)
  <2>1. /\ HeadIs("read") /\ UNCHANGED <<listed, shut, written>>
        /\ registered \subseteq Watchers /\ subscribed \subseteq Watchers
        /\ posted \in [Watchers -> Nat] /\ \A w \in Watchers : written[w] \in Seq(Nat)
    BY <1>1, <1>4 DEF OnCommand, OnFeed, OnRead, owners, Types, TypeOK
  <2>2. q.strand = io.strand
    BY <1>1, <2>1, AtRead
  <2>3. \E acc, S : Sent(q, acc, S) /\ posted' = acc.n /\ io'.strand = acc.q.strand
    <3>1. CASE OnCommand(c)
      <4>1. PICK acc, S : Sent(q, acc, S) /\ posted' = acc.n /\ io' = ReadsOn(c, acc.q)
        BY <1>1, <2>1, <3>1, OnCommandIO
      <4>2. ReadsOn(c, acc.q).strand = acc.q.strand
        <5> DEFINE a == acc.q
        <5>1. Shape(a)
          BY <4>1 DEF Sent
        <5> HIDE DEF a
        <5>2. Enqueue(a, Failed(c)).strand = a.strand
          BY <5>1, EnqueuesRead
        <5> QED
          BY <5>2 DEF ReadsOn, Failed, a
      <4> HIDE DEF q
      <4> QED
        BY <4>1, <4>2
    <3>2. CASE OnFeed(c)
      BY <1>1, <2>1, <3>2, OnFeedIO
    <3> QED
      BY <1>4, <3>1, <3>2
  <2> HIDE DEF q
  <2>4. PICK acc, S : Sent(q, acc, S) /\ posted' = acc.n /\ io'.strand = acc.q.strand
    BY <2>3
  <2>5. Listed' = Listed /\ shut' = shut /\ written' = written
    BY <2>1 DEF Listed
  <2>6. ASSUME NEW w \in Listed \ shut PROVE InOrder(io'.strand[w], posted'[w], written[w])
    <3>1. w \in Watchers /\ InOrder(q.strand[w], posted[w], written[w])
      BY <1>1, <2>2, <2>6 DEF Sending
    <3>2. InOrder(acc.q.strand[w], acc.n[w], written[w])
      BY <2>4, <3>1 DEF Sent
    <3> QED
      BY <2>4, <3>2
  <2> QED
    BY <2>5, <2>6 DEF Sending
<1>5. ASSUME NEW c \in Watchers, DoSend(c) PROVE Sending'
  <2>1. /\ written' = [written EXCEPT ![c] = Append(@, Head(io.strand[c].ready).n)]
        /\ UNCHANGED <<listed, shut, posted>> /\ StrandIs(c, "send")
        /\ posted \in [Watchers -> Nat] /\ written \in [Watchers -> Seq(Nat)]
    BY <1>1, <1>5 DEF DoSend, owners, Types
  <2>2. Effect(io, io', {}, {}, {c}) /\ Ran(io, io', c)
    BY <1>1, <1>5, <2>1, DoSendIO DEF DoSend
  <2>3. Listed' = Listed /\ shut' = shut
    BY <2>1 DEF Listed
  <2>4. ASSUME NEW w \in Listed \ shut PROVE InOrder(io'.strand[w], posted'[w], written'[w])
    <3>1. w \in Watchers /\ InOrder(io.strand[w], posted[w], written[w])
      BY <1>1, <2>4 DEF Sending
    <3>2. CASE w # c
      <4>1. io'.strand[w] = io.strand[w] /\ written'[w] = written[w]
        BY <2>1, <2>2, <3>1, <3>2 DEF Effect
      <4> QED
        BY <2>1, <3>1, <4>1
    <3>3. CASE w = c
      <4>1. io.strand[c].ready # <<>>
        BY <1>1, <2>1, AtTurn, KernelIs
      <4>2. posted[c] \in Nat /\ written[c] \in Seq(Nat)
        BY <2>1
      <4>3. /\ Head(io.strand[c].ready).n = Len(written[c]) + 1
            /\ InOrder(io'.strand[c], posted[c], Append(written[c], Len(written[c]) + 1))
        BY <1>1, <2>2, <3>1, <3>3, <4>1, <4>2, NumberedRan
      <4>4. written'[c] = Append(written[c], Head(io.strand[c].ready).n)
        BY <2>1
      <4> QED
        BY <2>1, <3>3, <4>3, <4>4
    <3> QED
      BY <3>2, <3>3
  <2> QED
    BY <2>3, <2>4 DEF Sending
<1>6. ASSUME NEW c \in Watchers, DoSendFails(c) \/ DoSendFreed(c) PROVE Quiet
  <2>1. UNCHANGED <<traffic, listed>> /\ shut \subseteq shut'
    BY <1>6 DEF DoSendFails, DoSendFreed, UsesFreed, Stop, traffic, owners
  <2>2. c \notin Listed' \ shut'
    <3>1. CASE DoSendFails(c)
      BY <3>1 DEF DoSendFails, Stop
    <3>2. CASE DoSendFreed(c)
      BY <1>1, <2>1, <3>2, HeldIs DEF DoSendFreed, UsesFreed, Listed
    <3> QED
      BY <1>6, <3>1, <3>2
  <2>3. \A w \in Watchers \ {c} : io'.strand[w] = io.strand[w]
    <3>1. CASE DoSendFails(c)
      BY <1>1, <3>1, DoSendFailsIO DEF Effect
    <3>2. CASE DoSendFreed(c)
      BY <1>1, <3>2, DoSendIO DEF Effect, DoSendFreed, UsesFreed
    <3> QED
      BY <1>6, <3>1, <3>2
  <2> QED
    BY <2>1, <2>2, <2>3 DEF Quiet, Listed
<1>7. CASE Peers
  BY <1>2, <1>7, QuietPeers
<1>8. CASE Worker
  <2>1. ASSUME NEW c \in Conns, LuaRaises(c) \/ OnReadFails(c) \/ OnReadFreed(c) PROVE Sending'
    BY <1>2, <2>1, QuietWorker
  <2>2. CASE \/ AddWatcher \/ StartReads \/ WatcherAcceptThrows \/ OnAccept \/ OnAcceptFails
             \/ DoClose \/ DoRemoveFeeder
    BY <1>2, <2>2, QuietWorker
  <2> QED
    BY <1>2, <1>3, <1>4, <1>5, <1>6, <1>8, <2>1, <2>2 DEF Worker
<1>9. CASE StopBegins \/ StopKernel
  BY <1>2, <1>9, QuietStop
<1>10. CASE UNCHANGED vars
  BY <1>2, <1>10 DEF vars, Quiet, Listed, owners
<1> QED
  BY <1>7, <1>8, <1>9, <1>10 DEF Next

LEMMA OrderNext ==
  ASSUME Inv, Sending, WrittenInOrder, [Next]_vars
  PROVE  WrittenInOrder'
<1>1. Types /\ Known /\ Feeding /\ Shape(io) /\ Listed \subseteq Watchers
  BY DEF Inv, Core, Types, TypeOK, Listed
<1>2. ASSUME NEW c \in Watchers, DoSend(c) PROVE WrittenInOrder'
  <2>1. /\ StrandIs(c, "send") /\ Held(c) /\ c \notin shut
        /\ written' = [written EXCEPT ![c] = Append(@, Head(io.strand[c].ready).n)]
        /\ posted \in [Watchers -> Nat] /\ written \in [Watchers -> Seq(Nat)]
    BY <1>1, <1>2 DEF DoSend, Types
  <2>2. c \in Listed
    <3>1. ~Closes(io, c) /\ c \notin flisted \cup {fnext}
      BY <1>1, <2>1, NoneIs DEF Known, Types, TypeOK
    <3>2. Early => c \notin Out
      BY <1>1, <2>1, SendsToStarted
    <3>3. c = next => Early /\ c \in Out
      BY <1>1, <2>1, NoneIs DEF Known, Out
    <3> QED
      BY <1>1, <2>1, <3>1, <3>2, <3>3, HeldIs
  <2>3. io.queue # <<>> /\ Head(io.queue) = TurnOf(c) /\ io.strand[c].ready # <<>>
    BY <1>1, <2>1, AtTurn, KernelIs
  <2>4. Ran(io, io', c)
    BY <1>1, <1>2, <2>1, DoSendIO DEF DoSend
  <2>5. Head(io.strand[c].ready).n = Len(written[c]) + 1
    <3>1. InOrder(io.strand[c], posted[c], written[c])
      BY <2>1, <2>2 DEF Sending
    <3>2. posted[c] \in Nat /\ written[c] \in Seq(Nat)
      BY <2>1
    <3> QED
      BY <1>1, <2>3, <2>4, <3>1, <3>2, NumberedRan
  <2>6. written'[c] = Append(written[c], Len(written[c]) + 1)
        /\ \A w \in Watchers \ {c} : written'[w] = written[w]
    BY <2>1, <2>5
  <2>7. ASSUME NEW w \in Watchers, NEW i \in DOMAIN written'[w] PROVE written'[w][i] = i
    <3>1. CASE w # c
      BY <2>6, <2>7, <3>1 DEF WrittenInOrder
    <3>2. CASE w = c
      <4> DEFINE v == written[c]
                 u == Append(v, Len(v) + 1)
      <4>1. /\ v \in Seq(Nat) /\ Len(v) \in Nat /\ DOMAIN v = 1..Len(v)
            /\ DOMAIN u = 1..(Len(v) + 1)
            /\ u[Len(v) + 1] = Len(v) + 1
            /\ \A k \in 1..Len(v) : u[k] = v[k]
        BY <2>1
      <4>2. \A k \in 1..Len(v) : v[k] = k
        BY <4>1 DEF WrittenInOrder
      <4> HIDE DEF v, u
      <4>3. \A k \in 1..(Len(v) + 1) : k = Len(v) + 1 \/ k \in 1..Len(v)
        BY <4>1
      <4>4. \A k \in DOMAIN u : u[k] = k
        BY <4>1, <4>2, <4>3
      <4>5. written'[w] = u
        BY <2>6, <3>2 DEF u, v
      <4> QED
        BY <2>7, <4>4, <4>5
    <3> QED
      BY <3>1, <3>2
  <2> QED
    BY <2>7 DEF WrittenInOrder
<1>3. CASE \A c \in Watchers : ~DoSend(c)
  <2>1. written' = written
    BY <1>3 DEF Next, vars, traffic, Peers, Connects, FeederConnects, PeerWrites, PeerLeaves,
       ReadEnds, Peer, Worker, OnWatcherAccepted, AddWatcher, StartReads, WatcherAcceptThrows,
       OnAccept, OnAcceptFails,
       OnRead, OnCommand, OnFeed, LuaRaises, OnReadFails, Stop, OnReadFreed, UsesFreed,
       DoSendFails, DoSendFreed, DoClose, DoRemoveFeeder, StopBegins, StopKernel, StopListed,
       StepOn, LosePlace, StopFeeders, ClearConnections, StopService
  <2> QED
    BY <2>1 DEF WrittenInOrder
<1> QED
  BY <1>2, <1>3

(* What a watcher is sent is written in the order Lua sent it, without a   *)
(* gap: what is posted to its strand is run in order, a failed write stops *)
(* the connection, and nothing is written to one that was stopped.         *)
THEOREM WritesOrdered == Spec => []WrittenInOrder
<1> DEFINE I == Inv /\ Sending /\ WrittenInOrder
<1>1. Init => I
  <2> SUFFICES ASSUME Init PROVE Sending /\ WrittenInOrder
    BY InvInit
  <2>1. Listed = {} /\ \A c \in Watchers : written[c] = <<>>
    BY DEF Init, Listed, ToSet
  <2> QED
    BY <2>1 DEF Sending, WrittenInOrder
<1>2. I /\ [Next]_vars => I'
  BY InvNext, SendingNext, OrderNext
<1> QED
  BY <1>1, <1>2, PTL DEF Spec

(***************************************************************************)
(* The loop of kernel::stop                                                *)
(***************************************************************************)
\* A step of another thread: it registers no watcher that was known, and takes
\* none from the list that is registered.
LEMMA WalkingFrame ==
  ASSUME Types, Walking, UNCHANGED main, Listed' \subseteq Watchers, shut \subseteq shut',
         Early /\ pcM # "up" =>
           /\ Listed \cup shut \subseteq Listed' \cup shut'
           /\ \A x \in Listed' : x \in Listed \cup shut =>
                x \in Listed /\ known \cap From(listed, x) \cap registered
                                 \subseteq From(listed', x),
         pcM # "up" => /\ known \cap registered' \subseteq registered
                       /\ known \cap registered' \cap shut' \subseteq shut
                       /\ starting' \notin known
  PROVE  Walking'
<1>1. /\ pcM' = pcM /\ node' = node /\ known' = known /\ lost' = lost /\ (Early' <=> Early)
  BY DEF main, Early
<1>2. ASSUME pcM \in {"walk", "step"}, node \in Listed'
      PROVE  known \cap registered' \subseteq From(listed', node)
  <2>1. Early /\ pcM # "up"
    BY <1>2 DEF Early
  <2>2. node \in Listed \cup shut
    BY <1>2, NoneIs DEF Walking
  <2>3. node \in Listed /\ known \cap From(listed, node) \cap registered \subseteq From(listed', node)
    BY <1>2, <2>1, <2>2
  <2>4. known \cap registered \subseteq From(listed, node)
    BY <1>2, <2>3 DEF Walking
  <2> QED
    BY <2>1, <2>3, <2>4
<1>3. Early' /\ pcM' # "up" => /\ known' \subseteq Listed' \cup shut'
                               /\ known' \cap registered' \cap shut' = {}
  BY <1>1 DEF Walking
<1>4. pcM' \in {"walk", "step"} /\ node' # None => node' \in Listed' \cup shut'
  BY <1>1 DEF Walking, Early
<1>5. pcM' = "step" => node' # None /\ node' \in shut'
  BY <1>1 DEF Walking
<1>6. /\ pcM' = "walk" /\ node' = None /\ ~lost' => known' \cap registered' = {}
      /\ pcM' \in {"clear", "io", "down"} /\ ~lost' => known' \cap registered' = {}
  BY <1>1 DEF Walking
<1>7. pcM' # "up" => starting' \notin known'
  BY <1>1
<1> QED
  BY <1>1, <1>2, <1>3, <1>4, <1>5, <1>6, <1>7 DEF Walking

\* A connection is stopped: Lua no longer knows it.
LEMMA StopsKnown ==
  ASSUME Types, NEW c \in Conns, Stop(c)
  PROVE  registered' \cap shut' \subseteq shut
BY DEF Stop, Types, TypeOK

LEMMA WalkingOthers == ASSUME Inv, Walking, Peers \/ Worker PROVE Walking'
<1>1. /\ Types /\ Known /\ Shape(io) /\ listed \in Seq(Watchers) /\ IsInjective(listed)
      /\ Listed \subseteq Watchers /\ known \subseteq Watchers /\ None \notin Watchers
  BY NoneIs DEF Inv, Core, Types, TypeOK, Listed
<1>2. CASE OnWatcherAccepted
  <2>1. /\ listed' = Append(listed, next) /\ next # None /\ starting' = next
        /\ UNCHANGED <<shut, registered, main>>
    BY <1>2 DEF OnWatcherAccepted, lua
  <2>2. Early /\ next \in Watchers /\ next \notin Listed \cup shut
    BY <1>1, <2>1 DEF Known, Types, TypeOK
  <2>3. Listed' = Listed \cup {next} /\ \A x : From(listed, x) \subseteq From(listed', x)
    BY <1>1, <2>1, <2>2, AppendList DEF Listed
  <2>4. pcM # "up" => next \notin known
    BY <2>2 DEF Walking
  <2> QED
    BY <1>1, <2>1, <2>2, <2>3, <2>4, WalkingFrame
<1>3. CASE DoClose
  <2> DEFINE c == Head(io.strand[Kernel].ready).c
  <2>1. /\ listed' = RemoveFirst(listed, c) /\ c \in Watchers /\ Closes(io, c)
        /\ UNCHANGED <<shut, main, registered, starting>>
    BY <1>1, <1>3, DoCloseIO DEF DoClose, lua
  <2> HIDE DEF c
  <2>2. c \in shut
    BY <1>1, <2>1 DEF Known
  <2>3. Listed' = Listed \ {c} /\ \A x : x # c => From(listed, x) \ {c} \subseteq From(listed', x)
    BY <1>1, <2>1, RemoveList DEF Listed
  <2>4. Early /\ pcM # "up" => c \notin known \cap registered
    BY <2>2 DEF Walking
  <2>5. pcM # "up" => starting \notin known
    BY DEF Walking
  <2> QED
    BY <1>1, <2>1, <2>2, <2>3, <2>4, <2>5, WalkingFrame
<1>4. CASE AddWatcher \/ StartReads
  <2>1. /\ UNCHANGED <<listed, shut, main>>
        /\ registered' \subseteq registered \cup ({starting} \ {None})
        /\ starting' \in {None, starting}
    BY <1>4 DEF AddWatcher, StartReads, Starts, lua
  <2>2. Listed' = Listed
    BY <2>1 DEF Listed
  <2>3. pcM # "up" => /\ known \cap registered' \subseteq registered
                      /\ known \cap registered' \cap shut' \subseteq shut
                      /\ starting' \notin known
    BY <1>1, <2>1 DEF Walking
  <2>4. \A x \in Listed' : x \in Listed \cup shut =>
          x \in Listed /\ known \cap From(listed, x) \cap registered
                           \subseteq From(listed', x)
    BY <2>1, <2>2
  <2> QED
    BY <1>1, <2>1, <2>2, <2>3, <2>4, WalkingFrame
<1>5. CASE ~OnWatcherAccepted /\ ~DoClose /\ ~AddWatcher /\ ~StartReads
  <2>1. UNCHANGED <<main, starting>>
    BY <1>5 DEF Peers, Connects, FeederConnects, PeerWrites, PeerLeaves, ReadEnds, Peer, Worker,
       WatcherAcceptThrows, OnAccept, OnAcceptFails, OnRead, OnCommand, OnFeed, LuaRaises,
       OnReadFails, Stop, OnReadFreed, UsesFreed, DoSend, DoSendFails, DoSendFreed, DoRemoveFeeder,
       owners
  <2>2. listed' = listed /\ registered' \subseteq registered /\ shut \subseteq shut'
    BY <1>5 DEF Peers, Connects, FeederConnects, PeerWrites, PeerLeaves, ReadEnds, Peer, Worker,
       WatcherAcceptThrows, OnAccept, OnAcceptFails, OnRead, OnCommand, OnFeed, LuaRaises,
       OnReadFails, Stop, OnReadFreed, UsesFreed, DoSend, DoSendFails, DoSendFreed, DoRemoveFeeder,
       owners, lua
  <2>3. Listed' = Listed
    BY <2>2 DEF Listed
  <2>4. \A x \in Listed' : x \in Listed \cup shut =>
          x \in Listed /\ known \cap From(listed, x) \cap registered
                           \subseteq From(listed', x)
    BY <2>2, <2>3
  <2>5. registered' \cap shut' \subseteq shut
    <3>1. shut' = shut \/ \E c \in Conns : Stop(c)
      BY <1>5, NoneIs DEF Peers, Connects, FeederConnects, PeerWrites, PeerLeaves, ReadEnds, Peer,
         Worker, WatcherAcceptThrows, OnAccept, OnAcceptFails, OnRead, OnCommand, OnFeed, LuaRaises,
         OnReadFails, OnReadFreed, UsesFreed, DoSend, DoSendFails, DoSendFreed, DoRemoveFeeder
    <3> QED
      BY <1>1, <3>1, StopsKnown
  <2> QED
    BY <1>1, <2>1, <2>2, <2>3, <2>4, <2>5, WalkingFrame DEF Walking
<1> QED
  BY <1>2, <1>3, <1>4, <1>5

LEMMA WalkingMain == ASSUME Inv, Walking, StopBegins \/ StopKernel PROVE Walking'
<1>1. /\ Types /\ Known /\ listed \in Seq(Watchers) /\ IsInjective(listed)
      /\ Listed \subseteq Watchers /\ None \notin Watchers
  BY NoneIs DEF Inv, Core, Types, TypeOK, Listed
<1>0. UNCHANGED starting
  BY DEF StopBegins, StopKernel, StopListed, Stop, StepOn, LosePlace, StopFeeders,
     ClearConnections, StopService, owners
<1>2. CASE StopBegins
  <2>1. /\ pcM = "up" /\ pcM' = "walk" /\ known' = Listed \ {starting}
        /\ node' = IF listed = <<>> THEN None ELSE Head(listed)
        /\ listed' = listed /\ shut' = shut /\ registered' = registered
    BY <1>2 DEF StopBegins, Main, Listed, owners, lua
  <2>2. registered \cap shut = {}
    BY <1>1, <2>1 DEF Known
  <2>3. CASE listed = <<>>
    <3>1. Listed = {}
      BY <1>1, <2>3, FromList DEF Listed
    <3> QED
      BY <1>0, <1>1, <2>1, <2>2, <2>3, <3>1 DEF Walking, Listed
  <2>4. CASE listed # <<>>
    <3>1. Head(listed) \in Listed /\ From(listed, Head(listed)) = Listed
      BY <1>1, <2>4, FromList DEF Listed
    <3> QED
      BY <1>0, <1>1, <2>1, <2>2, <2>4, <3>1 DEF Walking, Listed
  <2> QED
    BY <2>3, <2>4
<1>3. CASE StopListed
  <2>1. /\ pcM = "walk" /\ pcM' = "step" /\ node \in Listed /\ node' = node /\ node \in Watchers
        /\ known' = known /\ lost' = lost /\ listed' = listed
        /\ shut' = shut \cup {node} /\ registered' = registered \ {node}
    BY <1>1, <1>3 DEF StopListed, Main, Stop, Listed
  <2> QED
    BY <1>0, <1>1, <2>1 DEF Walking, Early, Listed
<1>4. CASE StepOn
  <2> DEFINE i == CHOOSE i \in DOMAIN listed : listed[i] = node
  <2>1. /\ pcM = "step" /\ pcM' = "walk" /\ node \in Listed
        /\ node' = IF i = Len(listed) THEN None ELSE listed[i + 1]
        /\ known' = known /\ lost' = lost /\ listed' = listed /\ shut' = shut
        /\ registered' = registered
    BY <1>4 DEF StepOn, Main, Listed, owners, lua
  <2>2. Early /\ node \in shut /\ node \notin known \cap registered
    BY <2>1 DEF Walking, Early
  <2>3. /\ known \cap registered \subseteq From(listed, node) /\ known \subseteq Listed \cup shut
        /\ known \cap registered \cap shut = {} /\ starting \notin known
    BY <2>1, <2>2 DEF Walking
  <2>4. /\ i = Len(listed) => From(listed, node) \subseteq {node}
        /\ i # Len(listed) => /\ listed[i + 1] \in Listed
                              /\ From(listed, node) \subseteq From(listed, listed[i + 1]) \cup {node}
    BY <1>1, <2>1, FromList DEF Listed
  <2> HIDE DEF i
  <2>5. CASE i = Len(listed)
    <3>1. known \cap registered = {}
      BY <2>2, <2>3, <2>4, <2>5
    <3> QED
      BY <1>0, <1>1, <2>1, <2>3, <2>5, <3>1 DEF Walking, Early, Listed
  <2>6. CASE i # Len(listed)
    <3>1. known \cap registered \subseteq From(listed, node')
      BY <2>1, <2>2, <2>3, <2>4, <2>6
    <3>2. node' \in Listed /\ node' # None
      BY <1>1, <2>1, <2>4, <2>6
    <3> QED
      BY <1>0, <2>1, <2>3, <3>1, <3>2 DEF Walking, Early, Listed
  <2> QED
    BY <2>5, <2>6
<1>5. CASE LosePlace
  <2>1. /\ pcM \in {"walk", "step"} /\ pcM' = "walk" /\ node' = None /\ lost'
        /\ known' = known /\ listed' = listed /\ shut' = shut /\ registered' = registered
    BY <1>5 DEF LosePlace, Main, owners, lua
  <2> QED
    BY <1>0, <1>1, <2>1 DEF Walking, Early, Listed
<1>6. CASE StopFeeders
  <2>1. /\ pcM = "walk" /\ node = None /\ pcM' = "clear" /\ shut' = shut \cup flisted
        /\ UNCHANGED <<listed, registered, known, lost>>
    BY <1>6 DEF StopFeeders, Main, lua
  <2>2. known \cap flisted = {}
    BY <1>1, NoneIs DEF Types, TypeOK
  <2> QED
    BY <1>0, <2>1, <2>2 DEF Walking, Early, Listed
<1>7. CASE ClearConnections
  <2>1. pcM = "clear" /\ pcM' = "io" /\ UNCHANGED <<registered, known, lost>>
    BY <1>7 DEF ClearConnections, Main, lua
  <2> QED
    BY <1>0, <2>1 DEF Walking, Early
<1>8. CASE StopService
  <2>1. pcM = "io" /\ pcM' = "down" /\ UNCHANGED <<registered, known, lost>>
    BY <1>8 DEF StopService, Main, lua
  <2> QED
    BY <1>0, <2>1 DEF Walking, Early
<1> QED
  BY <1>2, <1>3, <1>4, <1>5, <1>6, <1>7, <1>8 DEF StopKernel

(* Of the watchers kernel::stop found listed, but for one that the worker  *)
(* was about to add, none is left registered when it is done, unless its   *)
(* loop lost its place: what is registered and was not yet reached stays   *)
(* in the list behind the loop, whatever do_close erases and               *)
(* on_watcher_accepted appends and adds meanwhile.                         *)
THEOREM StopReachesAll == Spec => []AllDisconnected
<1> DEFINE I == Inv /\ Walking
<1>1. Init => I
  <2> SUFFICES ASSUME Init PROVE Walking
    BY InvInit
  <2> QED
    BY DEF Init, Walking
<1>2. I /\ [Next]_vars => I'
  <2> SUFFICES ASSUME Inv, Walking, [Next]_vars PROVE Walking'
    BY InvNext
  <2>1. CASE UNCHANGED vars
    BY <2>1 DEF vars, owners, lua, main, Walking, Early, Listed
  <2> QED
    BY <2>1, WalkingOthers, WalkingMain DEF Next
<1>3. I => AllDisconnected
  BY DEF Walking, AllDisconnected
<1> QED
  BY <1>1, <1>2, <1>3, PTL DEF Spec

(***************************************************************************)
(* What is left of a watcher that was stopped                              *)
(***************************************************************************)
Ready(q, c) == Has(q.strand[Kernel].ready, {CloseOf(c)})
Waits(q, c) == Has(q.strand[Kernel].waiting, {CloseOf(c)})
ReadsFirst(q, c) == Before(q.queue, Reads(c), Turn(Kernel))
TurnFirst(q, c) == Before(q.queue, Turn(c), Turn(Kernel))

\* Once the close of c is ready, its reads come before it; and its sends do,
\* unless there is another close for after them, or a read that will post it.
Leaves(q, c) == Ready(q, c) => /\ ReadsFirst(q, c)
                               /\ Waits(q, c) \/ HasRead(q, c) \/ TurnFirst(q, c)

\* From q to p nothing of this was lost.
Kept(q, p, c) == /\ HasRead(p, c) <=> HasRead(q, c)
                 /\ p.strand[c].locked => q.strand[c].locked
                 /\ Ready(p, c) => Ready(q, c)
                 /\ Waits(q, c) => Waits(p, c)
                 /\ Closes(q, c) => Closes(p, c)
                 /\ ReadsFirst(q, c) => ReadsFirst(p, c)
                 /\ TurnFirst(q, c) => TurnFirst(p, c)

LEMMA KeptSelf == ASSUME NEW q, NEW c PROVE Kept(q, q, c)
BY DEF Kept

LEMMA KeptTrans ==
  ASSUME NEW q, NEW p, NEW r, NEW c, Kept(q, p, c), Kept(p, r, c) PROVE Kept(q, r, c)
BY DEF Kept

LEMMA KeptLeaves ==
  ASSUME NEW q, NEW p, NEW c, Kept(q, p, c), Leaves(q, c) PROVE Leaves(p, c)
BY DEF Kept, Leaves

\* Only the queue changed.
LEMMA KeptQueue ==
  ASSUME NEW q, NEW p, NEW c, p.strand = q.strand, HasRead(p, c) <=> HasRead(q, c),
         ReadsFirst(q, c) => ReadsFirst(p, c), TurnFirst(q, c) => TurnFirst(p, c)
  PROVE  Kept(q, p, c)
BY DEF Kept, Ready, Waits, Closes, KHas

LEMMA KeptGrown ==
  ASSUME NEW q, Shape(q), NEW p, NEW c \in Watchers, NEW new \in Seq(Jobs),
         Grown(q, p, new), ~Has(new, Reads(c)), \A s \in Strands : ~Has(new, Turn(s))
  PROVE  Kept(q, p, c)
<1>1. q.queue \in Seq(Jobs) /\ p.queue = q.queue \o new /\ p.strand = q.strand
  BY ShapeParts DEF Grown
<1>2. ~Has(new, Turn(Kernel)) /\ ~Has(new, Turn(c))
  BY KernelIs
<1>3. ASSUME NEW J, ~Has(new, J), Before(q.queue, J, Turn(Kernel))
      PROVE  Before(p.queue, J, Turn(Kernel))
  <2>1. Before(new, J, Turn(Kernel))
    BY <1>3, BeforeNone
  <2>2. Before(q.queue \o new, J, Turn(Kernel))
    BY <1>1, <1>3, <2>1, BeforeConcat
  <2> QED
    BY <1>1, <2>2
<1>4. ReadsFirst(q, c) => ReadsFirst(p, c)
  BY <1>3 DEF ReadsFirst
<1>5. TurnFirst(q, c) => TurnFirst(p, c)
  BY <1>2, <1>3 DEF TurnFirst
<1>6. HasRead(p, c) <=> HasRead(q, c)
  <2>1. Has(q.queue \o new, Reads(c)) <=> Has(q.queue, Reads(c)) \/ Has(new, Reads(c))
    BY <1>1, HasConcat
  <2> QED
    BY <1>1, <2>1 DEF HasRead
<1> QED
  BY <1>1, <1>4, <1>5, <1>6, KeptQueue

LEMMA KeptDropped ==
  ASSUME NEW q, Shape(q), NEW p, NEW c \in Watchers, q.queue # <<>>, Dropped(q, p),
         Head(q.queue) \notin Reads(c)
  PROVE  Kept(q, p, c)
<1>1. q.queue \in Seq(Jobs) /\ p.queue = Tail(q.queue) /\ p.strand = q.strand
  BY ShapeParts DEF Dropped
<1>2. \A J : Before(q.queue, J, Turn(Kernel)) => Before(p.queue, J, Turn(Kernel))
  <2> SUFFICES ASSUME NEW J, Before(q.queue, J, Turn(Kernel))
               PROVE  Before(Tail(q.queue), J, Turn(Kernel))
    BY <1>1
  <2> QED
    BY <1>1, TailOrder
<1>3. HasRead(p, c) <=> HasRead(q, c)
  <2>1. Has(q.queue, Reads(c)) <=> Head(q.queue) \in Reads(c) \/ Has(Tail(q.queue), Reads(c))
    BY <1>1, TailJobs
  <2> QED
    BY <1>1, <2>1 DEF HasRead
<1>4. /\ ReadsFirst(q, c) => ReadsFirst(p, c)
      /\ TurnFirst(q, c) => TurnFirst(p, c)
  BY <1>2 DEF ReadsFirst, TurnFirst
<1> QED
  BY <1>1, <1>3, <1>4, KeptQueue

\* The turn of another strand comes to the end of the queue.
LEMMA TurnComes ==
  ASSUME NEW Q \in Seq(Jobs), NEW s \in Strands, NEW J, TurnOf(s) \notin J
  PROVE  /\ Has(Append(Q, TurnOf(s)), J) <=> Has(Q, J)
         /\ Before(Q, J, Turn(Kernel)) => Before(Append(Q, TurnOf(s)), J, Turn(Kernel))
BY Kinds, AppendOrder

LEMMA KeptPosted ==
  ASSUME NEW q, Shape(q), NEW p, NEW c \in Watchers, NEW s \in Strands, s # c,
         NEW h \in Handlers, h # CloseOf(c), Posted(q, p, s, h)
  PROVE  Kept(q, p, c)
<1>1. /\ q.queue \in Seq(Jobs) /\ c \in Strands /\ Kernel # c
      /\ p.queue = q.queue \/ p.queue = Append(q.queue, TurnOf(s))
      /\ p.strand[c] = q.strand[c]
  BY ShapeParts, KernelIs DEF Posted, Others
<1>2. TurnOf(s) \notin Reads(c) /\ TurnOf(s) \notin Turn(c)
  BY Apart DEF Turn
<1>3. HasRead(p, c) <=> HasRead(q, c)
  BY <1>1, <1>2, TurnComes DEF HasRead
<1>4. ReadsFirst(q, c) => ReadsFirst(p, c)
  BY <1>1, <1>2, TurnComes DEF ReadsFirst
<1>5. TurnFirst(q, c) => TurnFirst(p, c)
  BY <1>1, <1>2, TurnComes DEF TurnFirst
<1>6. /\ Ready(p, c) => Ready(q, c)
      /\ Waits(q, c) => Waits(p, c)
  <2>1. CASE s # Kernel
    BY <2>1, KernelIs DEF Posted, Others, Ready, Waits
  <2>2. CASE s = Kernel /\ q.strand[Kernel].locked
    <3>1. q.strand[Kernel].waiting \in Seq(Handlers)
      BY ShapeParts, KernelIs
    <3>2. Has(Append(q.strand[Kernel].waiting, h), {CloseOf(c)}) <=>
            Has(q.strand[Kernel].waiting, {CloseOf(c)}) \/ h \in {CloseOf(c)}
      BY <3>1, AppendJob
    <3> QED
      BY <2>2, <3>2 DEF Posted, Ready, Waits
  <2>3. CASE s = Kernel /\ ~q.strand[Kernel].locked
    <3>1. q.strand[Kernel].waiting = <<>> /\ p.strand[Kernel].ready = <<h>>
      BY <2>3, ShapeParts, KernelIs DEF Posted
    <3>2. ~Has(<<h>>, {CloseOf(c)}) /\ ~Has(<<>>, {CloseOf(c)})
      BY OneJob
    <3> QED
      BY <3>1, <3>2 DEF Ready, Waits
  <2> QED
    BY <2>1, <2>2, <2>3
<1>7. Closes(q, c) => Closes(p, c)
  <2>1. CASE s = Kernel
    BY <2>1, KHasPosted DEF Closes
  <2>2. CASE s # Kernel
    <3>1. Others(q, p, s) /\ s \in Watchers
      BY <2>2 DEF Posted, Strands
    <3> QED
      BY <3>1, KHasOther DEF Closes
  <2> QED
    BY <2>1, <2>2
<1> QED
  BY <1>1, <1>3, <1>4, <1>5, <1>6, <1>7 DEF Kept

\* A send has been run; its strand may take another turn.
LEMMA SendRan ==
  ASSUME NEW q, Shape(q), NEW p, NEW c \in Watchers, NEW s \in Watchers,
         q.queue # <<>>, Head(q.queue) = TurnOf(s), Ran(q, p, s)
  PROVE  /\ HasRead(p, c) <=> HasRead(q, c)
         /\ ReadsFirst(q, c) => ReadsFirst(p, c)
         /\ s # c => (TurnFirst(q, c) => TurnFirst(p, c)) /\ p.strand[c] = q.strand[c]
         /\ p.strand[Kernel] = q.strand[Kernel]
<1> DEFINE T == Tail(q.queue)
<1>1. /\ q.queue \in Seq(Jobs) /\ s \in Strands /\ Kernel # s
      /\ p.queue = q.queue \/ p.queue = T \/ p.queue = Append(T, TurnOf(s))
      /\ s # c => p.strand[c] = q.strand[c]
      /\ p.strand[Kernel] = q.strand[Kernel]
  BY ShapeParts, KernelIs DEF Ran, Others
<1>2. TurnOf(s) \notin Reads(c) /\ (s # c => TurnOf(s) \notin Turn(c))
  BY Apart DEF Turn
<1>3. ASSUME NEW J, TurnOf(s) \notin J
      PROVE  /\ Has(p.queue, J) <=> Has(q.queue, J)
             /\ Before(q.queue, J, Turn(Kernel)) => Before(p.queue, J, Turn(Kernel))
  <2>1. /\ T \in Seq(Jobs)
        /\ Has(q.queue, J) <=> TurnOf(s) \in J \/ Has(T, J)
        /\ Before(q.queue, J, Turn(Kernel)) => Before(T, J, Turn(Kernel))
    <3> DEFINE Q == q.queue
    <3>1. Q \in Seq(Jobs) /\ Q # <<>> /\ Head(Q) = TurnOf(s)
      BY <1>1
    <3> HIDE DEF Q
    <3>2. /\ Tail(Q) \in Seq(Jobs)
          /\ Has(Q, J) <=> Head(Q) \in J \/ Has(Tail(Q), J)
          /\ Before(Q, J, Turn(Kernel)) => Before(Tail(Q), J, Turn(Kernel))
      BY <3>1, TailOrder
    <3> QED
      BY <3>1, <3>2 DEF Q
  <2> HIDE DEF T
  <2>2. /\ Has(Append(T, TurnOf(s)), J) <=> Has(T, J)
        /\ Before(T, J, Turn(Kernel)) => Before(Append(T, TurnOf(s)), J, Turn(Kernel))
    BY <1>1, <1>3, <2>1, TurnComes
  <2> QED
    BY <1>1, <1>3, <2>1, <2>2
<1>4. /\ HasRead(p, c) <=> HasRead(q, c)
      /\ ReadsFirst(q, c) => ReadsFirst(p, c)
  BY <1>2, <1>3 DEF HasRead, ReadsFirst
<1>5. s # c => (TurnFirst(q, c) => TurnFirst(p, c))
  BY <1>2, <1>3 DEF TurnFirst
<1> QED
  BY <1>1, <1>4, <1>5

LEMMA KeptRan ==
  ASSUME NEW q, Shape(q), NEW p, NEW c \in Watchers, NEW s \in Watchers, s # c,
         q.queue # <<>>, Head(q.queue) = TurnOf(s), Ran(q, p, s)
  PROVE  Kept(q, p, c)
<1>1. /\ HasRead(p, c) <=> HasRead(q, c)
      /\ ReadsFirst(q, c) => ReadsFirst(p, c)
      /\ TurnFirst(q, c) => TurnFirst(p, c)
      /\ p.strand[c] = q.strand[c] /\ p.strand[Kernel] = q.strand[Kernel]
  BY SendRan
<1> QED
  BY <1>1 DEF Kept, Ready, Waits, Closes, KHas

\* Of what is put in last, everything comes before.
LEMMA KernelLast ==
  ASSUME NEW Q \in Seq(Jobs), ~Has(Q, Turn(Kernel)), NEW J, TurnOf(Kernel) \notin J
  PROVE  Before(Append(Q, TurnOf(Kernel)), J, Turn(Kernel))
<1>1. Before(Q, J, Turn(Kernel))
  BY BeforeNone
<1> QED
  BY <1>1, TurnComes, KernelIs

\* The close of c is posted.
LEMMA ClosePosted ==
  ASSUME NEW q, Shape(q), NEW p, NEW c \in Watchers, Ready(q, c) => ReadsFirst(q, c),
         Posted(q, p, Kernel, CloseOf(c))
  PROVE  /\ Leaves(p, c) /\ Closes(p, c)
         /\ HasRead(p, c) <=> HasRead(q, c)
         /\ q.strand[Kernel].locked => Waits(p, c)
<1>1. /\ q.queue \in Seq(Jobs) /\ CloseOf(c) \in Handlers
      /\ q.strand[Kernel].waiting \in Seq(Handlers)
      /\ ~q.strand[Kernel].locked => ~Has(q.queue, Turn(Kernel))
  BY ShapeParts, Kinds, KernelIs
<1>2. Closes(p, c)
  BY <1>1, KHasPosted DEF Closes
<1>3. TurnOf(Kernel) \notin Reads(c) /\ TurnOf(Kernel) \notin Turn(c)
  BY Apart, KernelIs DEF Turn
<1>4. CASE q.strand[Kernel].locked
  <2>1. /\ p.queue = q.queue /\ p.strand[Kernel].ready = q.strand[Kernel].ready
        /\ p.strand[Kernel].waiting = Append(q.strand[Kernel].waiting, CloseOf(c))
    BY <1>4 DEF Posted
  <2>2. Waits(p, c)
    <3>1. Has(Append(q.strand[Kernel].waiting, CloseOf(c)), {CloseOf(c)})
      BY <1>1, AppendJob
    <3> QED
      BY <2>1, <3>1 DEF Waits
  <2> QED
    BY <1>2, <2>1, <2>2 DEF Leaves, Ready, ReadsFirst, HasRead
<1>5. CASE ~q.strand[Kernel].locked
  <2>1. p.queue = Append(q.queue, TurnOf(Kernel))
    BY <1>5 DEF Posted
  <2>2. ReadsFirst(p, c)
    BY <1>1, <1>3, <1>5, <2>1, KernelLast DEF ReadsFirst
  <2>3. TurnFirst(p, c)
    BY <1>1, <1>3, <1>5, <2>1, KernelLast DEF TurnFirst
  <2>4. HasRead(p, c) <=> HasRead(q, c)
    BY <1>1, <1>3, <2>1, TurnComes, KernelIs DEF HasRead
  <2> QED
    BY <1>2, <1>5, <2>2, <2>3, <2>4 DEF Leaves
<1> QED
  BY <1>4, <1>5

\* The kernel's strand has run a handler: if that was the last close of c,
\* no read and no send of c is left.
LEMMA KernelRan ==
  ASSUME NEW q, Shape(q), NEW p, NEW c \in Watchers, Leaves(q, c),
         q.queue # <<>>, Head(q.queue) = TurnOf(Kernel), Ran(q, p, Kernel)
  PROVE  /\ Leaves(p, c)
         /\ HasRead(p, c) <=> HasRead(q, c)
         /\ p.strand[c] = q.strand[c]
         /\ Closes(q, c) => Closes(p, c) \/ (~HasRead(q, c) /\ ~q.strand[c].locked)
<1> DEFINE T == Tail(q.queue)
           K == q.strand[Kernel]
<1>1. /\ q.queue \in Seq(Jobs) /\ Kernel \in Strands /\ c \in Strands /\ Kernel # c
      /\ Once(q.queue, Turn(Kernel)) /\ K.ready \in Seq(Handlers) /\ K.waiting \in Seq(Handlers)
      /\ q.strand[c].locked <=> Has(q.queue, Turn(c))
      /\ K.locked <=> Has(q.queue, Turn(Kernel))
      /\ K.locked <=> K.ready # <<>>
  BY ShapeParts, KernelIs
<1>2. TurnOf(Kernel) \notin Reads(c) /\ TurnOf(Kernel) \notin Turn(c)
      /\ TurnOf(Kernel) \in Turn(Kernel)
  BY Apart, <1>1 DEF Turn
<1>3. /\ T \in Seq(Jobs) /\ ~Has(T, Turn(Kernel)) /\ Has(q.queue, Turn(Kernel))
      /\ \A J : TurnOf(Kernel) \notin J => (Has(T, J) <=> Has(q.queue, J))
  BY <1>1, <1>2, TailJobs
<1>4. /\ ReadsFirst(q, c) => ~HasRead(q, c)
      /\ TurnFirst(q, c) => ~q.strand[c].locked
  <2>1. \A J : Before(q.queue, J, Turn(Kernel)) => ~Has(q.queue, J)
    BY <1>1, <1>2, TailOrder
  <2> QED
    BY <1>1, <2>1 DEF ReadsFirst, TurnFirst, HasRead
<1> HIDE DEF T
<1>5. HasRead(p, c) <=> HasRead(q, c)
  <2>1. Has(Append(T, TurnOf(Kernel)), Reads(c)) <=> Has(T, Reads(c))
    BY <1>1, <1>2, <1>3, TurnComes
  <2> QED
    BY <1>2, <1>3, <2>1 DEF Ran, HasRead, T
<1>6. p.strand[c] = q.strand[c]
  BY <1>1 DEF Ran, Others
<1>7. Leaves(p, c)
  <2>1. ASSUME p.queue = q.queue, p.strand[Kernel].ready = Tail(K.ready),
               p.strand[Kernel].waiting = K.waiting
        PROVE  Leaves(p, c)
    <3>1. K.ready # <<>>
      BY <1>1, <1>3
    <3>2. Has(K.ready, {CloseOf(c)}) <=>
            Head(K.ready) \in {CloseOf(c)} \/ Has(Tail(K.ready), {CloseOf(c)})
      <4> HIDE DEF K
      <4> QED
        BY <1>1, <3>1, TailJobs
    <3>3. Ready(p, c) => Ready(q, c)
      BY <2>1, <3>2 DEF Ready
    <3> QED
      BY <2>1, <3>3 DEF Leaves, ReadsFirst, TurnFirst, HasRead, Waits
  <2>2. ASSUME p.strand[Kernel].ready = <<>> PROVE Leaves(p, c)
    BY <2>2, OneJob DEF Leaves, Ready
  <2>3. ASSUME p.queue = Append(T, TurnOf(Kernel)) PROVE Leaves(p, c)
    <3>1. ReadsFirst(p, c)
      BY <1>2, <1>3, <2>3, KernelLast DEF ReadsFirst
    <3>2. TurnFirst(p, c)
      BY <1>2, <1>3, <2>3, KernelLast DEF TurnFirst
    <3> QED
      BY <3>1, <3>2 DEF Leaves
  <2> QED
    BY <2>1, <2>2, <2>3 DEF Ran, T
<1>8. Closes(q, c) => Closes(p, c) \/ (~HasRead(q, c) /\ ~q.strand[c].locked)
  <2> SUFFICES ASSUME Closes(q, c), ~Closes(p, c)
               PROVE  ~HasRead(q, c) /\ ~q.strand[c].locked
    OBVIOUS
  <2>1. Head(K.ready) \in {CloseOf(c)}
    BY KHasRan DEF Closes
  <2>2. Ready(q, c)
    <3>1. K.ready # <<>>
      BY <1>1, <1>3
    <3> HIDE DEF K
    <3>2. Has(K.ready, {CloseOf(c)})
      BY <1>1, <2>1, <3>1, TailJobs
    <3> QED
      BY <3>2 DEF Ready, K
  <2>3. ~Waits(q, c)
    <3>1. CASE Waits(q, c) /\ p.strand[Kernel].waiting = K.waiting
      BY <3>1 DEF Closes, KHas, Waits
    <3>2. CASE Waits(q, c) /\ p.strand[Kernel].ready = K.waiting
      BY <3>2 DEF Closes, KHas, Waits
    <3>3. CASE Waits(q, c) /\ K.waiting = <<>>
      BY <3>3, OneJob DEF Waits
    <3> QED
      BY <3>1, <3>2, <3>3 DEF Ran
  <2> QED
    BY <1>4, <2>2, <2>3 DEF Leaves
<1> QED
  BY <1>5, <1>6, <1>7, <1>8

LEMMA KeptEnqueue ==
  ASSUME NEW q, Shape(q), NEW c \in Watchers, NEW j \in Jobs, j \notin Reads(c),
         \A s \in Strands : j # TurnOf(s)
  PROVE  Kept(q, Enqueue(q, j), c)
<1> DEFINE new == <<j>>
<1>1. Shape(Enqueue(q, j)) /\ Grown(q, Enqueue(q, j), new)
  BY Enqueues
<1>2. new \in Seq(Jobs) /\ ~Has(new, Reads(c)) /\ \A s \in Strands : ~Has(new, Turn(s))
  BY OneJob DEF Turn
<1> HIDE DEF new
<1> QED
  BY <1>1, <1>2, KeptGrown

LEMMA KeptPopped ==
  ASSUME NEW q, Shape(q), NEW c \in Watchers, q.queue # <<>>,
         Head(q.queue).h \in {"accept", "on_accept", "read"},
         Head(q.queue).h = "read" => Head(q.queue).c # c
  PROVE  Kept(q, Popped(q), c)
<1> DEFINE j == Head(q.queue)
<1>1. q.queue \in Seq(Jobs) /\ j \in Jobs
  BY ShapeParts, TailJobs
<1>2. j \in {Accept, Accepted, Refused} \/ \E d \in Conns \ {c} : j = Came(d) \/ j = Failed(d)
  BY <1>1, KindIs
<1>3. j \notin Reads(c) /\ \A s \in Strands : j # TurnOf(s)
  BY <1>2, Apart
<1>4. Dropped(q, Popped(q))
  BY <1>3, Drops
<1> QED
  BY <1>3, <1>4, KeptDropped

LEMMA KeptAborted ==
  ASSUME NEW q, Shape(q), NEW c \in Watchers, NEW S \in SUBSET Conns, c \notin S \cap reading
  PROVE  Kept(q, Aborted(q, S), c)
<1>1. PICK new : ReadsFor(new, S \cap reading) /\ Grown(q, Aborted(q, S), new)
  BY Aborts
<1>2. new \in Seq(Jobs) /\ ~Has(new, Reads(c)) /\ \A s \in Strands : ~Has(new, Turn(s))
  BY <1>1 DEF ReadsFor
<1> QED
  BY <1>1, <1>2, KeptGrown

LEMMA KeptPost ==
  ASSUME NEW q, Shape(q), NEW c \in Watchers, NEW s \in Strands, s # c,
         NEW h \in Handlers, h # CloseOf(c)
  PROVE  Kept(q, Post(q, s, h), c)
<1>1. Posted(q, Post(q, s, h), s, h)
  BY Posts
<1> QED
  BY <1>1, KeptPosted

LEMMA KeptStopIO ==
  ASSUME NEW q, Shape(q), NEW c \in Watchers, NEW d \in Conns, d # c
  PROVE  Kept(q, StopIO(q, d), c)
<1> DEFINE a == Aborted(q, {d})
<1>1. Shape(a) /\ Kept(q, a, c)
  <2>1. {d} \in SUBSET Conns /\ c \notin {d} \cap reading
    OBVIOUS
  <2> QED
    BY <2>1, Aborts, KeptAborted
<1>2. CASE d \in Watchers
  <2>1. StopIO(q, d) = Post(a, Kernel, CloseOf(d))
    BY <1>2 DEF StopIO, CloseOf
  <2> HIDE DEF a
  <2>2. CloseOf(d) \in Handlers /\ CloseOf(d) # CloseOf(c) /\ Kernel \in Strands /\ Kernel # c
    BY <1>2, Kinds, Apart, KernelIs
  <2>3. Kept(a, Post(a, Kernel, CloseOf(d)), c)
    BY <1>1, <2>2, KeptPost
  <2> QED
    BY <1>1, <2>1, <2>3, KeptTrans
<1>3. CASE d \notin Watchers
  BY <1>1, <1>3 DEF StopIO
<1> QED
  BY <1>2, <1>3

\* stop() queues the reads it ends before it posts the close.
LEMMA StopIOLeaves ==
  ASSUME NEW q, Shape(q), NEW c \in Watchers, c \in Conns,
         Ready(q, c) => ReadsFirst(q, c) /\ c \notin reading
  PROVE  /\ Leaves(StopIO(q, c), c)
         /\ HasRead(StopIO(q, c), c) <=> HasRead(q, c) \/ c \in reading
         /\ q.strand[Kernel].locked => Waits(StopIO(q, c), c)
<1> DEFINE a == Aborted(q, {c})
           p == Post(a, Kernel, CloseOf(c))
<1>1. StopIO(q, c) = p
  BY DEF StopIO, CloseOf
<1>2. /\ Shape(a) /\ a.strand = q.strand /\ Moved(q, a, {}, {c} \cap reading)
      /\ c \notin reading => Kept(q, a, c)
  <2>1. {c} \in SUBSET Conns
    OBVIOUS
  <2> QED
    BY <2>1, Cancels, KeptAborted
<1> HIDE DEF a
<1>3. Ready(a, c) => ReadsFirst(a, c)
  BY <1>2 DEF Ready, Kept
<1>4. HasRead(a, c) <=> HasRead(q, c) \/ c \in reading
  BY <1>2 DEF Moved
<1>5. Posted(a, p, Kernel, CloseOf(c))
  BY <1>2, Posts, Kinds, KernelIs
<1> HIDE DEF p
<1>6. Leaves(p, c) /\ (HasRead(p, c) <=> HasRead(a, c)) /\ (a.strand[Kernel].locked => Waits(p, c))
  BY <1>2, <1>3, <1>5, ClosePosted
<1> QED
  BY <1>1, <1>2, <1>4, <1>6

LEMMA KeptFinished ==
  ASSUME NEW q, Shape(q), NEW c \in Watchers, NEW s \in Watchers, s # c,
         q.queue # <<>>, Head(q.queue) = TurnOf(s)
  PROVE  Kept(q, Finished(q, s), c)
<1>1. Ran(q, Finished(q, s), s)
  BY RunsSend
<1> QED
  BY <1>1, KeptRan

LEMMA KeptSends ==
  ASSUME NEW q, NEW acc, NEW S, Sent(q, acc, S), NEW c \in Watchers, c \notin S
  PROVE  Kept(q, acc.q, c)
<1>1. /\ acc.q.strand[Kernel] = q.strand[Kernel] /\ acc.q.strand[c] = q.strand[c]
      /\ TurnFirst(q, c) => TurnFirst(acc.q, c)
      /\ ReadsFirst(q, c) => ReadsFirst(acc.q, c)
  BY DEF Sent, TurnFirst, ReadsFirst
<1>2. HasRead(acc.q, c) <=> HasRead(q, c)
  BY AlikeIs, TurnsApart DEF Sent, HasRead
<1> QED
  BY <1>1, <1>2 DEF Kept, Ready, Waits, Closes, KHas

LEMMA KeptReadsOn ==
  ASSUME NEW q, Shape(q), NEW c \in Watchers, NEW d \in Conns, d # c
  PROVE  Kept(q, ReadsOn(d, q), c)
<1>1. Failed(d) \in Jobs /\ Failed(d) \notin Reads(c) /\ \A s \in Strands : Failed(d) # TurnOf(s)
  BY Kinds, Apart
<1>2. ReadsOn(d, q) = IF d \in shut THEN Enqueue(q, Failed(d)) ELSE q
  BY DEF ReadsOn, Failed
<1> QED
  BY <1>1, <1>2, KeptEnqueue, KeptSelf

\* A watcher that is open is read from, or about to be, and one that was stopped is known
\* to the kernel as long as one of its handlers is queued.
Awaited(c) == c \in reading \/ HasRead(io, c) \/ c \in {starting, started}
Traced(c) == /\ HasRead(io, c) \/ io.strand[c].locked => c \in Listed \/ Closes(io, c)
             /\ Leaves(io, c)
LeavingOf(c) == /\ c \in Listed \ shut => Awaited(c)
                /\ c \in shut \ late => Traced(c)
Leaving == pcM = "up" /\ proc = "alive" => \A c \in Watchers : LeavingOf(c)

\* A feeder connection is read from by one read at a time, while it is held.
FeedReads ==
  pcM = "up" /\ feeder # "deleted" =>
    \A c \in Feeds : /\ OneRead(io, c)
                     /\ c \in reading => ~HasRead(io, c)
                     /\ c \notin flisted => c \notin reading /\ ~HasRead(io, c)

LEMMA LeavingStep ==
  ASSUME Leaving, pcM = "up", proc = "alive",
         NEW out, NEW in, NEW lines, Effect(io, io', out, in, lines), NEW d,
         \A c \in Watchers \ {d} : /\ c \in shut' <=> c \in shut
                                   /\ c \in Listed' <=> c \in Listed
                                   /\ c \in late => c \in late'
                                   /\ c \notin out
                                   /\ c \in reading => c \in reading' \cup in
                                   /\ c \in {starting, started} => c \in {starting', started'},
         \A c \in Watchers \ {d} : c \in shut \ late => Kept(io, io', c),
         d \in Watchers => LeavingOf(d)'
  PROVE  Leaving'
<1> SUFFICES ASSUME NEW c \in Watchers \ {d} PROVE LeavingOf(c)'
  BY DEF Leaving
<1>1. LeavingOf(c)
  BY DEF Leaving
<1>2. HasRead(io, c) \/ c \in in => HasRead(io', c)
  BY DEF Effect, Moved
<1>3. c \in Listed' \ shut' => Awaited(c)'
  BY <1>1, <1>2 DEF LeavingOf, Awaited
<1>4. ASSUME c \in shut' \ late' PROVE Traced(c)'
  <2>1. Traced(c) /\ Kept(io, io', c)
    BY <1>1, <1>4 DEF LeavingOf
  <2>2. Leaves(io', c)
    BY <2>1, KeptLeaves DEF Traced
  <2>3. HasRead(io', c) \/ io'.strand[c].locked => c \in Listed' \/ Closes(io', c)
    BY <2>1 DEF Traced, Kept
  <2> QED
    BY <2>2, <2>3 DEF Traced
<1> QED
  BY <1>3, <1>4 DEF LeavingOf

\* Who is used after it was destroyed: only watchers that are late.
LEMMA FreedLate ==
  ASSUME Inv, Leaving, pcM = "up", proc = "alive", NEW c \in Watchers, ~Held(c),
         HasRead(io, c) \/ io.strand[c].locked
  PROVE  c \in late /\ c \notin Listed
<1>1. c \notin Listed /\ ~Closes(io, c)
  BY HeldIs DEF Inv, Core
<1>2. c \notin Out
  BY DEF Inv, Core, Known, Early, Untouched
<1>3. c \in shut
  BY <1>1, <1>2 DEF Out
<1> QED
  BY <1>1, <1>3 DEF Leaving, LeavingOf, Traced

LEMMA LeavingPeers == ASSUME Inv, Leaving, Peers, pcM' = "up" PROVE Leaving'
<1>1. Types /\ Known /\ Feeding /\ Shape(io) /\ reading \cap shut = {}
  BY DEF Inv, Core, Types, TypeOK
<1>2. /\ UNCHANGED <<shut, listed, late, starting, started>> /\ Listed' = Listed
      /\ pcM = "up" /\ proc = "alive" /\ None \notin Watchers
  BY NoneIs DEF Peers, Connects, FeederConnects, PeerWrites, PeerLeaves, ReadEnds, Peer, owners, Listed
<1>3. CASE Connects \/ \E ok \in BOOLEAN : FeederConnects(ok)
  <2>1. Effect(io, io', {}, {}, {}) /\ reading' = reading
    BY <1>1, <1>3, ConnectsIO, FeederConnectsIO DEF Connects, FeederConnects
  <2>2. PICK j \in {Accept, Accepted, Refused} : io' = Enqueue(io, j)
    BY <1>3 DEF Connects, FeederConnects, Peer, Accept, Accepted, Refused
  <2>3. j \in Jobs /\ (\A c \in Watchers : j \notin Reads(c)) /\ \A s \in Strands : j # TurnOf(s)
    BY Kinds, Apart
  <2>4. \A c \in Watchers : Kept(io, io', c)
    BY <1>1, <2>2, <2>3, KeptEnqueue
  <2> QED
    BY <1>2, <2>1, <2>4, LeavingStep
<1>4. ASSUME NEW d \in Conns, PeerWrites(d) \/ ReadEnds(d) PROVE Leaving'
  <2>1. Effect(io, io', {}, {d}, {}) /\ d \in reading /\ reading' = reading \ {d}
    BY <1>1, <1>4, PeerReadsIO DEF PeerWrites, ReadEnds
  <2>2. PICK j \in {Came(d), Failed(d)} : io' = Enqueue(io, j)
    BY <1>4 DEF PeerWrites, ReadEnds, Peer, Came, Failed
  <2>3. j \in Jobs /\ (\A c \in Watchers \ {d} : j \notin Reads(c)) /\ \A s \in Strands : j # TurnOf(s)
    BY Kinds, Apart
  <2>4. \A c \in Watchers \ {d} : Kept(io, io', c)
    BY <1>1, <2>2, <2>3, KeptEnqueue
  <2>5. LeavingOf(d)'
    <3>1. HasRead(io', d)
      BY <2>1 DEF Effect, Moved
    <3> QED
      BY <1>1, <1>2, <2>1, <3>1 DEF LeavingOf, Awaited
  <2> QED
    BY <1>2, <2>1, <2>4, <2>5, LeavingStep
<1>5. ASSUME NEW d \in Conns, PeerLeaves(d) PROVE Leaving'
  <2>1. UNCHANGED <<io, reading, pcM, proc>>
    BY <1>5 DEF PeerLeaves, Peer, main
  <2> QED
    BY <1>2, <2>1 DEF Leaving, LeavingOf, Awaited, Traced, Listed
<1> QED
  BY <1>3, <1>4, <1>5 DEF Peers

LEMMA LeavingAccepts ==
  ASSUME Inv, Leaving, pcM' = "up",
         OnWatcherAccepted \/ OnAccept \/ OnAcceptFails
  PROVE  Leaving'
<1>1. Types /\ Known /\ Feeding /\ Shape(io) /\ None \notin Watchers
  BY NoneIs DEF Inv, Core, Types
<1>2. /\ UNCHANGED <<shut, late, pcM>> /\ pcM = "up" /\ proc = "alive"
      /\ io.queue # <<>> /\ Head(io.queue).h \in {"accept", "on_accept"}
      /\ \A c \in Watchers : c \notin {starting, started}
  BY <1>1 DEF OnWatcherAccepted, OnAccept, OnAcceptFails, HeadIs, main
<1>3. \A c \in Watchers : Kept(io, Popped(io), c)
  BY <1>1, <1>2, KeptPopped
<1>4. CASE OnWatcherAccepted
  <2>1. /\ Effect(io, io', {}, {}, {}) /\ io' = Popped(io)
        /\ listed' = Append(listed, next) /\ reading' = reading /\ starting' = next
    BY <1>1, <1>4, AtAccept DEF OnWatcherAccepted
  <2>2. next \in Watchers /\ next \notin Listed \cup shut
    <3>1. next # None
      BY <1>4 DEF OnWatcherAccepted
    <3> QED
      BY <1>1, <3>1 DEF Known, Types, TypeOK
  <2>3. Listed' = Listed \cup {next}
    <3>1. listed \in Seq(Watchers) /\ IsInjective(listed) /\ listed' = Append(listed, next)
      BY <1>1, <2>1 DEF Types
    <3> QED
      BY <2>2, <3>1, AppendList DEF Listed
  <2>4. PICK d : d = next
    OBVIOUS
  <2>5. LeavingOf(d)'
    <3>1. d = starting' /\ d \notin shut'
      BY <1>2, <2>1, <2>2, <2>4
    <3> QED
      BY <3>1 DEF LeavingOf, Awaited
  <2> QED
    BY <1>2, <1>3, <2>1, <2>2, <2>3, <2>4, <2>5, LeavingStep
<1>5. CASE OnAccept
  <2>1. /\ Effect(io, io', {}, {}, {}) /\ io' = Popped(io)
        /\ listed' = listed /\ reading' = reading \cup {fnext}
    BY <1>1, <1>5, AtAccept DEF OnAccept
  <2>2. Listed' = Listed
    BY <2>1 DEF Listed
  <2> QED
    BY <1>1, <1>2, <1>3, <2>1, <2>2, LeavingStep
<1>6. CASE OnAcceptFails
  <2> DEFINE p == Popped(io)
  <2>1. /\ Effect(io, io', {}, {}, {}) /\ io' = Post(p, Kernel, Removal)
        /\ listed' = listed /\ reading' = reading
    BY <1>1, <1>6, OnAcceptFailsIO DEF OnAcceptFails, Feeding, Removal
  <2>2. Shape(p)
    BY <1>1, <1>6, AtAccept DEF OnAcceptFails, Effect
  <2>3. \A c \in Watchers : Kept(io, p, c)
    BY <1>3
  <2> HIDE DEF p
  <2>4. ASSUME NEW c \in Watchers PROVE Kept(io, io', c)
    <3>1. Removal \in Handlers /\ Removal # CloseOf(c) /\ Kernel \in Strands /\ Kernel # c
      BY Kinds, Apart, KernelIs
    <3>2. Kept(p, io', c)
      BY <2>1, <2>2, <3>1, KeptPost
    <3> QED
      BY <2>3, <3>2, KeptTrans
  <2>5. Listed' = Listed
    BY <2>1 DEF Listed
  <2> QED
    BY <1>1, <1>2, <2>1, <2>4, <2>5, LeavingStep
<1> QED
  BY <1>4, <1>5, <1>6

LEMMA LeavingStarts ==
  ASSUME Inv, Leaving, pcM' = "up", AddWatcher \/ StartReads \/ WatcherAcceptThrows
  PROVE  Leaving'
<1>1. CASE WatcherAcceptThrows
  BY <1>1 DEF WatcherAcceptThrows, Leaving
<1>2. CASE AddWatcher
  <2>1. /\ UNCHANGED <<io, reading, shut, listed, late, pcM>> /\ proc = "alive"
        /\ starting # None /\ started' = starting
    BY <1>2 DEF AddWatcher, Starts, main
  <2>2. started = None /\ None \notin Watchers
    BY <2>1, NoneIs DEF Inv, Beginning
  <2> SUFFICES ASSUME NEW c \in Watchers PROVE LeavingOf(c)'
    BY DEF Leaving
  <2>3. LeavingOf(c)
    BY <2>1 DEF Leaving
  <2>4. Awaited(c) => Awaited(c)'
    BY <2>1, <2>2 DEF Awaited
  <2> QED
    BY <2>1, <2>3, <2>4 DEF LeavingOf, Traced, Listed
<1>3. CASE StartReads
  <2>1. /\ UNCHANGED <<shut, listed, late, pcM, starting>> /\ proc = "alive" /\ pcM = "up"
    BY <1>3 DEF StartReads, Starts, main
  <2>2. started \in Watchers
    BY <1>3, StartReadsIs DEF Inv, Core
  <2>3. started \in Listed \ shut
    BY <2>1, <2>2 DEF Inv, Beginning
  <2>4. io' = io /\ reading' = reading \cup {started}
    BY <1>3, <2>3, StartReadsIs DEF Inv, Core, Held, Listed
  <2> SUFFICES ASSUME NEW c \in Watchers PROVE LeavingOf(c)'
    BY DEF Leaving
  <2>5. LeavingOf(c)
    BY <2>1 DEF Leaving
  <2>6. Awaited(c) => Awaited(c)'
    BY <2>1, <2>4 DEF Awaited
  <2> QED
    BY <2>1, <2>4, <2>5, <2>6 DEF LeavingOf, Traced, Listed
<1> QED
  BY <1>1, <1>2, <1>3

\* A command was handled, and the next read begun.
LEMMA ReadOn ==
  ASSUME NEW d \in Conns, NEW q, NEW acc, NEW S, Effect(io, q, {d}, {}, {}),
         Sent(q, acc, S), io' = ReadsOn(d, acc.q)
  PROVE  Effect(io, io', {d}, {d} \cap shut, Watchers)
<1>1. Shape(acc.q) /\ Alike(q, acc.q)
  BY DEF Sent
<1>2. Moved(io, acc.q, {d}, {})
  BY <1>1, MovedThenAlike DEF Effect
<1>3. CASE d \in shut
  <2>1. io' = Enqueue(acc.q, Failed(d)) /\ {d} \cap shut = {d}
    BY <1>3 DEF ReadsOn, Failed
  <2>2. Shape(io') /\ Moved(acc.q, io', {}, {d})
    BY <1>1, <2>1, EnqueuesRead
  <2> QED
    BY <1>2, <2>1, <2>2, MovedOn DEF Effect
<1>4. CASE d \notin shut
  <2>1. io' = acc.q /\ {d} \cap shut = {}
    BY <1>4 DEF ReadsOn
  <2> QED
    BY <1>1, <1>2, <2>1 DEF Effect
<1> QED
  BY <1>3, <1>4

LEMMA LeavingCommand ==
  ASSUME Inv, Leaving, pcM' = "up", NEW d \in Conns, OnCommand(d) PROVE Leaving'
<1>1. Types /\ Known /\ Feeding /\ Shape(io)
  BY DEF Inv, Core, Types
<1>2. /\ registered \subseteq Watchers /\ posted \in [Watchers -> Nat]
      /\ \A w \in Watchers : written[w] \in Seq(Nat)
  BY <1>1 DEF Types, TypeOK
<1> DEFINE q == Popped(io)
<1>3. PICK acc, S : /\ S \subseteq registered \cup {d}
                    /\ Sent(q, acc, S) /\ io' = ReadsOn(d, acc.q)
  BY <1>1, <1>2, OnCommandIO
<1>4. /\ UNCHANGED <<shut, listed, pcM, starting, started>> /\ pcM = "up" /\ proc = "alive"
      /\ late' = IF d \in shut THEN late \cup {d} ELSE late
      /\ reading' = IF d \in shut THEN reading ELSE reading \cup {d}
      /\ HeadIs("read") /\ d = Head(io.queue).c
      /\ io.queue # <<>> /\ Head(io.queue).h = "read"
  BY DEF OnCommand, OnRead, HeadIs, owners, main
<1>5. Effect(io, q, {d}, {}, {})
  BY <1>1, <1>4, AtRead
<1>6. \A c \in Watchers \ {d} : Kept(io, q, c)
  BY <1>1, <1>4, KeptPopped
<1> HIDE DEF q
<1>7. Shape(acc.q) /\ Alike(q, acc.q)
  BY <1>3 DEF Sent
<1>8. Effect(io, io', {d}, {d} \cap shut, Watchers)
  BY <1>3, <1>5, ReadOn
<1>9. ASSUME NEW c \in Watchers \ {d}, c \in shut \ late PROVE Kept(io, io', c)
  <2>1. c \notin S
    BY <1>1, <1>3, <1>4, <1>9 DEF Known, Early
  <2>2. Kept(q, acc.q, c)
    BY <1>3, <2>1, KeptSends
  <2>3. Kept(acc.q, io', c)
    BY <1>3, <1>7, KeptReadsOn
  <2> QED
    BY <1>6, <2>2, <2>3, KeptTrans
<1>10. Listed' = Listed /\ LeavingOf(d)'
  BY <1>4 DEF Listed, LeavingOf, Awaited
<1> QED
  BY <1>4, <1>8, <1>9, <1>10, LeavingStep

LEMMA LeavingFeed ==
  ASSUME Inv, Leaving, pcM' = "up", NEW d \in Conns, OnFeed(d) PROVE Leaving'
<1>1. Types /\ Known /\ Feeding /\ Shape(io)
  BY DEF Inv, Core, Types
<1>2. /\ subscribed \subseteq Watchers /\ posted \in [Watchers -> Nat]
      /\ \A w \in Watchers : written[w] \in Seq(Nat)
  BY <1>1 DEF Types, TypeOK
<1> DEFINE q == Popped(io)
<1>3. PICK acc, S : /\ S \subseteq subscribed /\ \A w \in S : Held(w)
                    /\ Sent(q, acc, S) /\ io' = acc.q
  BY <1>1, <1>2, OnFeedIO
<1>4. /\ UNCHANGED <<shut, listed, pcM, late, starting, started>>
      /\ pcM = "up" /\ proc = "alive"
      /\ reading' = reading \cup {d} /\ d \in Feeds
      /\ HeadIs("read") /\ d = Head(io.queue).c
      /\ io.queue # <<>> /\ Head(io.queue).h = "read"
  BY DEF OnFeed, OnRead, HeadIs, owners, main
<1>5. Effect(io, q, {d}, {}, {})
  BY <1>1, <1>4, AtRead
<1>6. d \notin Watchers /\ \A c \in Watchers : Kept(io, q, c)
  BY <1>1, <1>4, KeptPopped, NoneIs
<1> HIDE DEF q
<1>7. Effect(io, io', {d}, {}, Watchers)
  <2>1. Shape(io') /\ Alike(q, io')
    BY <1>3 DEF Sent
  <2> QED
    BY <1>5, <2>1, MovedThenAlike DEF Effect
<1>8. ASSUME NEW c \in Watchers, c \in shut \ late PROVE Kept(io, io', c)
  <2>1. c \notin S
    BY <1>1, <1>3, <1>4, <1>8 DEF Known, Early
  <2>2. Kept(q, io', c)
    BY <1>3, <2>1, KeptSends
  <2> QED
    BY <1>6, <2>2, KeptTrans
<1>9. Listed' = Listed
  BY <1>4 DEF Listed
<1> QED
  BY <1>4, <1>6, <1>7, <1>8, <1>9, LeavingStep

LEMMA LeavingReadFails ==
  ASSUME Inv, Leaving, pcM' = "up", NEW d \in Conns, OnReadFails(d) PROVE Leaving'
<1>1. Types /\ Known /\ Feeding /\ Shape(io) /\ reading \cap shut = {}
  BY DEF Inv, Core, Types, TypeOK
<1> DEFINE q == Popped(io)
<1>2. /\ UNCHANGED <<listed, pcM, late, starting, started>> /\ pcM = "up" /\ proc = "alive"
      /\ reading' = reading \ {d} /\ shut' = shut \cup {d}
      /\ HeadIs("read") /\ d = Head(io.queue).c /\ io' = StopIO(q, d)
      /\ io.queue # <<>> /\ Head(io.queue).h = "read"
  BY DEF OnReadFails, Stop, HeadIs, main
<1>3. /\ Effect(io, io', {d}, {d} \cap reading, {})
      /\ d \in Watchers => Closes(io', d)
  BY <1>1, OnReadFailsIO
<1>4. Shape(q) /\ q.strand = io.strand /\ \A c \in Watchers \ {d} : Kept(io, q, c)
  BY <1>1, <1>2, AtRead, KeptPopped DEF Effect
<1>5. ReadsFirst(io, d) => ReadsFirst(q, d)
  BY <1>1, <1>2, ShapeParts, TailOrder DEF ReadsFirst, Popped, Ios
<1> HIDE DEF q
<1>6. \A c \in Watchers \ {d} : Kept(io, io', c)
  BY <1>2, <1>4, KeptStopIO, KeptTrans
<1>7. Listed' = Listed
  BY <1>2 DEF Listed
<1>8. ASSUME d \in Watchers PROVE LeavingOf(d)'
  <2>1. ASSUME d \notin late PROVE Leaves(io', d)
    <3>1. Ready(q, d) => d \in shut
      BY <1>1, <1>4, <1>8 DEF Known, Ready, Closes, KHas
    <3>2. d \in shut => Leaves(io, d)
      BY <1>2, <1>8, <2>1 DEF Leaving, LeavingOf, Traced
    <3>3. Ready(q, d) => ReadsFirst(q, d) /\ d \notin reading
      BY <1>1, <1>4, <1>5, <3>1, <3>2 DEF Leaves, Ready
    <3> QED
      BY <1>2, <1>4, <1>8, <3>3, StopIOLeaves
  <2> QED
    BY <1>2, <1>3, <1>8, <2>1 DEF LeavingOf, Traced
<1> QED
  BY <1>2, <1>3, <1>6, <1>7, <1>8, LeavingStep

LEMMA LeavingReadDropped ==
  ASSUME Inv, Leaving, pcM' = "up", NEW d \in Conns, LuaRaises(d) \/ OnReadFreed(d)
  PROVE  Leaving'
<1>1. CASE LuaRaises(d)
  BY <1>1 DEF LuaRaises, Leaving
<1>2. CASE OnReadFreed(d)
  <2>1. Types /\ Shape(io)
    BY DEF Inv, Core, Types
  <2>2. /\ UNCHANGED <<reading, shut, listed, pcM, late, starting, started>>
        /\ pcM = "up" /\ proc = "alive" /\ HeadIs("read") /\ d = Head(io.queue).c /\ io' = Popped(io) /\ ~Held(d)
        /\ io.queue # <<>> /\ Head(io.queue).h = "read"
    BY <1>2 DEF OnReadFreed, UsesFreed, HeadIs, main, owners
  <2>3. Effect(io, io', {d}, {}, {}) /\ HasRead(io, d)
    BY <2>1, <2>2, AtRead
  <2>4. \A c \in Watchers \ {d} : Kept(io, io', c)
    BY <2>1, <2>2, KeptPopped
  <2>5. Listed' = Listed
    BY <2>2 DEF Listed
  <2>6. d \in Watchers => LeavingOf(d)'
    BY <2>2, <2>3, <2>5, FreedLate DEF LeavingOf
  <2> QED
    BY <2>2, <2>3, <2>4, <2>5, <2>6, LeavingStep
<1> QED
  BY <1>1, <1>2

LEMMA LeavingSend ==
  ASSUME Inv, Leaving, pcM' = "up", NEW d \in Watchers, DoSend(d) \/ DoSendFreed(d)
  PROVE  Leaving'
<1>1. Types /\ Shape(io) /\ StrandIs(d, "send")
  BY DEF Inv, Core, Types, DoSend, DoSendFreed
<1>2. /\ UNCHANGED <<reading, shut, listed, pcM, late, starting, started>>
      /\ pcM = "up" /\ proc = "alive" /\ io' = Finished(io, d)
      /\ {starting, started} = {None} /\ None \notin Watchers
  BY <1>1, NoneIs DEF DoSend, DoSendFreed, UsesFreed, StrandIs, HeadIs, main, owners
<1>3. io.queue # <<>> /\ Head(io.queue) = TurnOf(d) /\ io.strand[d].locked
  BY <1>1, AtTurn, KernelIs
<1>4. Effect(io, io', {}, {}, {d})
  BY <1>1, <1>2, <1>3, RunsSend
<1>5. \A c \in Watchers \ {d} : Kept(io, io', c)
  BY <1>1, <1>2, <1>3, KeptFinished
<1>6. Listed' = Listed
  BY <1>2 DEF Listed
<1>7. LeavingOf(d)'
  <2>1. CASE DoSend(d)
    <3>1. d \notin shut /\ (d \in Listed => Awaited(d))
      BY <1>2, <2>1 DEF DoSend, Leaving, LeavingOf
    <3>2. HasRead(io, d) => HasRead(io', d)
      BY <1>4 DEF Effect, Moved
    <3> QED
      BY <1>2, <1>6, <3>1, <3>2 DEF LeavingOf, Awaited
  <2>2. CASE DoSendFreed(d)
    <3>1. d \in late /\ d \notin Listed
      BY <1>2, <1>3, <2>2, FreedLate DEF DoSendFreed, UsesFreed
    <3> QED
      BY <1>2, <1>6, <3>1 DEF LeavingOf
  <2> QED
    BY <2>1, <2>2
<1> QED
  BY <1>2, <1>4, <1>5, <1>6, <1>7, LeavingStep

\* A failed write stops the connection from within its own strand: if no
\* close is left to come after the strand's turn, there is a read that will
\* post one.
LEMMA LeavingSendFails ==
  ASSUME Inv, Leaving, pcM' = "up", NEW d \in Watchers, DoSendFails(d) PROVE Leaving'
<1>1. Types /\ Known /\ Shape(io) /\ reading \cap shut = {} /\ StrandIs(d, "send") /\ d \in Conns
  BY DEF Inv, Core, Types, TypeOK, DoSendFails, Conns
<1> DEFINE r == StopIO(io, d)
<1>2. /\ UNCHANGED <<listed, pcM, late, starting, started>> /\ pcM = "up" /\ proc = "alive"
      /\ reading' = reading \ {d} /\ shut' = shut \cup {d}
      /\ io' = Finished(r, d)
      /\ d \notin {starting, started}
  BY NoneIs DEF DoSendFails, Stop, StrandIs, HeadIs, main
<1>3. io.queue # <<>> /\ Head(io.queue) = TurnOf(d) /\ io.strand[d].locked
  BY <1>1, AtTurn, KernelIs
<1>4. Shape(r) /\ r.queue # <<>> /\ Head(r.queue) = TurnOf(d)
  BY <1>1, <1>3, StopsIO, StopIOHead DEF Stopped
<1>5. /\ Effect(io, io', {}, {d} \cap reading, {d})
      /\ Closes(io', d)
  BY <1>1, DoSendFailsIO
<1>6. ASSUME NEW c \in Watchers \ {d} PROVE Kept(io, io', c)
  <2>1. Kept(io, r, c)
    BY <1>1, KeptStopIO
  <2> HIDE DEF r
  <2>2. Kept(r, io', c)
    BY <1>2, <1>4, KeptFinished
  <2> QED
    BY <2>1, <2>2, KeptTrans
<1>7. Listed' = Listed
  BY <1>2 DEF Listed
<1>8. ASSUME d \notin late PROVE Leaves(io', d)
  <2>1. Closes(io, d) => d \in shut
    BY <1>1 DEF Known
  <2>2. d \in shut => Leaves(io, d) /\ d \notin reading
    BY <1>1, <1>2, <1>8 DEF Leaving, LeavingOf, Traced
  <2>3. Ready(io, d) => ReadsFirst(io, d) /\ d \notin reading
    BY <2>1, <2>2 DEF Leaves, Ready, Closes, KHas
  <2>4. /\ Leaves(r, d)
        /\ HasRead(r, d) <=> HasRead(io, d) \/ d \in reading
        /\ io.strand[Kernel].locked => Waits(r, d)
    BY <1>1, <2>3, StopIOLeaves
  <2>5. Waits(r, d) \/ HasRead(r, d)
    <3> SUFFICES ASSUME ~io.strand[Kernel].locked PROVE HasRead(io, d) \/ d \in reading
      BY <2>4
    <3>1. ~Closes(io, d)
      <4>1. io.strand[Kernel].ready = <<>> /\ io.strand[Kernel].waiting = <<>>
        BY <1>1, ShapeParts, KernelIs
      <4> QED
        BY <4>1, OneJob DEF Closes, KHas
    <3>2. d \notin Out
      BY <1>1, <1>2, SendsToStarted DEF Early
    <3>3. d \in Listed
      BY <1>2, <1>3, <1>8, <3>1, <3>2 DEF Out, Leaving, LeavingOf, Traced
    <3>4. d \notin shut
      BY <1>1, <1>2, <3>1, <3>3 DEF Known, Early
    <3> QED
      BY <1>2, <3>3, <3>4 DEF Leaving, LeavingOf, Awaited
  <2> HIDE DEF r
  <2>6. Ran(r, io', d)
    BY <1>2, <1>4, RunsSend
  <2>7. /\ HasRead(io', d) <=> HasRead(r, d)
        /\ ReadsFirst(r, d) => ReadsFirst(io', d)
        /\ io'.strand[Kernel] = r.strand[Kernel]
    BY <1>4, <2>6, SendRan
  <2>8. (Ready(io', d) => Ready(r, d)) /\ (Waits(r, d) => Waits(io', d))
    BY <2>7 DEF Ready, Waits
  <2> QED
    BY <2>4, <2>5, <2>7, <2>8 DEF Leaves
<1>9. LeavingOf(d)'
  <2>1. d \in shut' /\ late' = late
    BY <1>2
  <2> QED
    BY <1>5, <1>8, <2>1 DEF LeavingOf, Traced
<1> QED
  BY <1>2, <1>5, <1>6, <1>7, <1>9, LeavingStep

\* A handler of the kernel's strand is run, after q was made of the queues.
LEMMA LeavingKernelRan ==
  ASSUME Inv, Leaving, pcM = "up", proc = "alive", NEW q, Shape(q),
         \A c \in Watchers : Kept(io, q, c), q.strand = io.strand,
         q.queue # <<>>, Head(q.queue) = TurnOf(Kernel), io' = Finished(q, Kernel),
         UNCHANGED <<shut, late, starting, started>>, Listed' \subseteq Listed,
         \A c \in Watchers : c \in reading => c \in reading'
  PROVE  Leaving'
<1> SUFFICES ASSUME NEW c \in Watchers PROVE LeavingOf(c)'
  BY DEF Leaving
<1>1. LeavingOf(c) /\ Kept(io, q, c) /\ Known
  BY DEF Leaving, Inv, Core
<1>2. Ran(q, io', Kernel)
  BY RunsKernel
<1>3. HasRead(io, c) => HasRead(io', c)
  <2>1. Effect(q, io', {}, {}, {})
    BY RunsKernel
  <2> QED
    BY <1>1, <2>1 DEF Effect, Moved, Kept
<1>4. c \in Listed' \ shut' => Awaited(c)'
  BY <1>1, <1>3 DEF LeavingOf, Awaited
<1>5. ASSUME c \in shut' \ late' PROVE Traced(c)'
  <2>1. Traced(c) /\ c \in shut
    BY <1>1, <1>5 DEF LeavingOf
  <2>2. Leaves(q, c)
    BY <1>1, <2>1, KeptLeaves DEF Traced
  <2>3. /\ Leaves(io', c)
        /\ HasRead(io', c) <=> HasRead(q, c)
        /\ io'.strand[c] = q.strand[c]
        /\ Closes(q, c) => Closes(io', c) \/ (~HasRead(q, c) /\ ~q.strand[c].locked)
    BY <1>2, <2>2, KernelRan
  <2>4. ASSUME HasRead(io', c) \/ io'.strand[c].locked PROVE Closes(io', c)
    <3>1. HasRead(q, c) \/ q.strand[c].locked
      BY <2>3, <2>4
    <3>2. HasRead(io, c) \/ io.strand[c].locked
      BY <1>1, <3>1 DEF Kept
    <3>3. Closes(io, c)
      BY <1>1, <2>1, <3>2 DEF Traced, Known, Early
    <3> QED
      BY <1>1, <2>3, <3>1, <3>3 DEF Kept
  <2> QED
    BY <2>3, <2>4 DEF Traced
<1> QED
  BY <1>4, <1>5 DEF LeavingOf

LEMMA LeavingKernel ==
  ASSUME Inv, Leaving, pcM' = "up", DoClose \/ DoRemoveFeeder PROVE Leaving'
<1>1. /\ Types /\ Shape(io) /\ listed \in Seq(Watchers) /\ IsInjective(listed)
      /\ flisted \subseteq Feeds /\ Watchers \cap Feeds = {}
  BY ConnsAssumption DEF Inv, Core, Types, TypeOK
<1>2. CASE DoClose
  <2>1. /\ UNCHANGED <<shut, late, reading, pcM, starting, started>>
        /\ pcM = "up" /\ proc = "alive" /\ StrandIs(Kernel, "close") /\ io' = Finished(io, Kernel)
        /\ listed' = RemoveFirst(listed, Head(io.strand[Kernel].ready).c)
    BY <1>2 DEF DoClose, StrandIs, HeadIs, main
  <2>2. io.queue # <<>> /\ Head(io.queue) = TurnOf(Kernel)
    BY <1>1, <2>1, AtTurn, KernelIs
  <2>3. Listed' \subseteq Listed
    BY <1>1, <2>1, RemoveList DEF Listed
  <2> QED
    BY <1>1, <2>1, <2>2, <2>3, KeptSelf, LeavingKernelRan
<1>3. CASE DoRemoveFeeder
  <2> DEFINE a == Aborted(io, flisted)
  <2>1. /\ UNCHANGED <<shut, late, listed, pcM, starting, started>>
        /\ pcM = "up" /\ proc = "alive" /\ StrandIs(Kernel, "remove") /\ io' = Finished(a, Kernel)
        /\ reading' = reading \ flisted
    BY <1>3 DEF DoRemoveFeeder, StrandIs, HeadIs, main
  <2>2. io.queue # <<>> /\ Head(io.queue) = TurnOf(Kernel) /\ io.queue \in Seq(Jobs)
    BY <1>1, <2>1, AtTurn, KernelIs, ShapeParts
  <2>3. /\ Shape(a) /\ a.strand = io.strand
        /\ \E new : ReadsFor(new, flisted \cap reading) /\ Grown(io, a, new)
        /\ \A c \in Watchers : Kept(io, a, c)
    <3>1. flisted \in SUBSET Conns /\ \A c \in Watchers : c \notin flisted \cap reading
      BY <1>1 DEF Conns
    <3> QED
      BY <1>1, <3>1, Cancels, Aborts, KeptAborted
  <2> HIDE DEF a
  <2>4. a.queue # <<>> /\ Head(a.queue) = TurnOf(Kernel)
    <3>1. PICK new : new \in Seq(Jobs) /\ a.queue = io.queue \o new
      BY <2>3 DEF ReadsFor, Grown
    <3> QED
      BY <2>2, <3>1
  <2>5. Listed' = Listed /\ \A c \in Watchers : c \in reading => c \in reading'
    BY <1>1, <2>1 DEF Listed
  <2> QED
    BY <2>1, <2>3, <2>4, <2>5, LeavingKernelRan
<1> QED
  BY <1>2, <1>3

LEMMA LeavingNext == ASSUME Inv, Leaving, [Next]_vars PROVE Leaving'
<1> SUFFICES ASSUME pcM' = "up" PROVE Leaving'
  BY DEF Leaving
<1>1. CASE UNCHANGED vars
  BY <1>1 DEF vars, owners, main, Leaving, LeavingOf, Awaited, Traced, Listed
<1>2. CASE Peers
  BY <1>2, LeavingPeers
<1>3. CASE Worker
  BY <1>3, LeavingAccepts, LeavingStarts, LeavingCommand, LeavingFeed, LeavingReadFails,
     LeavingReadDropped, LeavingSend, LeavingSendFails, LeavingKernel DEF Worker
<1>4. CASE StopBegins \/ StopKernel
  BY <1>4 DEF StopBegins, StopKernel, StopListed, StepOn, LosePlace, StopFeeders,
     ClearConnections, StopService, Main
<1> QED
  BY <1>1, <1>2, <1>3, <1>4 DEF Next

\* The reads of out are run and those of in are queued.
LEMMA FeedReadsStep ==
  ASSUME FeedReads, pcM = "up", feeder # "deleted",
         NEW out, NEW in, NEW lines, Effect(io, io', out, in, lines),
         \A c \in Feeds : /\ c \in out => HasRead(io, c)
                          /\ c \in in => c \in reading /\ c \notin reading'
                          /\ c \in reading' => c \in reading \cup out \/ ~HasRead(io, c)
                          /\ c \notin flisted' => /\ c \notin reading'
                                                  /\ c \notin flisted \/ c \in out
  PROVE  FeedReads'
<1> SUFFICES ASSUME NEW c \in Feeds
             PROVE  /\ OneRead(io', c)
                    /\ c \in reading' => ~HasRead(io', c)
                    /\ c \notin flisted' => c \notin reading' /\ ~HasRead(io', c)
  BY DEF FeedReads
<1>1. /\ OneRead(io, c) /\ (c \in reading => ~HasRead(io, c))
      /\ c \notin flisted => c \notin reading /\ ~HasRead(io, c)
  BY DEF FeedReads
<1>2. /\ HasRead(io', c) => HasRead(io, c) \/ c \in in
      /\ OneRead(io, c) /\ c \in out /\ c \notin in => ~HasRead(io', c)
      /\ OneRead(io, c) /\ (c \in in => c \in out \/ ~HasRead(io, c)) => OneRead(io', c)
  BY DEF Effect, Moved
<1> QED
  BY <1>1, <1>2

LEMMA FeedReadsPeers == ASSUME Inv, FeedReads, Peers, feeder # "deleted" PROVE FeedReads'
<1>1. Shape(io)
  BY DEF Inv, Core, Types
<1>2. /\ UNCHANGED <<flisted, pcM>> /\ pcM = "up"
  BY DEF Peers, Connects, FeederConnects, PeerWrites, PeerLeaves, ReadEnds, Peer, owners, main
<1>3. CASE Connects
  <2>1. reading' = reading /\ Effect(io, io', {}, {}, {})
    BY <1>1, <1>3, ConnectsIO DEF Connects
  <2> QED
    BY <1>2, <2>1, FeedReadsStep DEF FeedReads
<1>4. ASSUME NEW ok \in BOOLEAN, FeederConnects(ok) PROVE FeedReads'
  <2>1. reading' = reading /\ Effect(io, io', {}, {}, {})
    BY <1>1, <1>4, FeederConnectsIO DEF FeederConnects
  <2> QED
    BY <1>2, <2>1, FeedReadsStep DEF FeedReads
<1>5. ASSUME NEW d \in Conns, PeerWrites(d) \/ ReadEnds(d) PROVE FeedReads'
  <2>1. reading' = reading \ {d} /\ d \in reading /\ Effect(io, io', {}, {d}, {})
    BY <1>1, <1>5, PeerReadsIO DEF PeerWrites, ReadEnds
  <2> QED
    BY <1>2, <2>1, FeedReadsStep DEF FeedReads
<1>6. ASSUME NEW d \in Conns, PeerLeaves(d) PROVE FeedReads'
  <2>1. UNCHANGED <<io, reading, flisted, pcM, feeder>>
    BY <1>6 DEF PeerLeaves, Peer, main, owners
  <2> QED
    BY <2>1 DEF FeedReads
<1> QED
  BY <1>3, <1>4, <1>5, <1>6 DEF Peers

LEMMA FeedReadsAccepts ==
  ASSUME Inv, FeedReads, pcM = "up", feeder # "deleted",
         \/ OnWatcherAccepted \/ AddWatcher \/ StartReads \/ WatcherAcceptThrows
         \/ OnAccept \/ OnAcceptFails
  PROVE  FeedReads'
<1>1. /\ Types /\ Beginning /\ Shape(io) /\ Feeding /\ fnext \notin flisted
      /\ next \in Watchers \cup {None} /\ None \notin Feeds /\ Watchers \cap Feeds = {}
  BY ConnsAssumption DEF Inv, Core, Types, TypeOK, Feeding, Conns
<1>2. CASE OnWatcherAccepted \/ AddWatcher \/ WatcherAcceptThrows
  <2>1. flisted' = flisted /\ reading' = reading
    BY <1>2 DEF OnWatcherAccepted, AddWatcher, WatcherAcceptThrows, owners
  <2>2. Effect(io, io', {}, {}, {})
    BY <1>1, <1>2, AtAccept, NoEffect DEF OnWatcherAccepted, AddWatcher, WatcherAcceptThrows
  <2> QED
    BY <2>1, <2>2, FeedReadsStep DEF FeedReads
<1>3. CASE StartReads
  <2>1. flisted' = flisted /\ started \notin Feeds /\ reading' \subseteq reading \cup {started}
    BY <1>1, <1>3, StartReadsIs DEF StartReads
  <2>2. PICK in \in SUBSET {started} : Effect(io, io', {}, in, {})
    BY <1>1, <1>3, StartReadsIs
  <2>3. \A c \in Feeds : c \notin in /\ (c \in reading' => c \in reading)
    BY <2>1
  <2> QED
    BY <2>1, <2>2, <2>3, FeedReadsStep DEF FeedReads
<1>4. CASE OnAccept
  <2>1. /\ Effect(io, io', {}, {}, {})
        /\ flisted' = flisted \cup {fnext} /\ reading' = reading \cup {fnext}
    BY <1>1, <1>4, AtAccept DEF OnAccept
  <2>2. fnext \in Feeds => ~HasRead(io, fnext)
    BY <1>1 DEF FeedReads
  <2> QED
    BY <2>1, <2>2, FeedReadsStep DEF FeedReads
<1>5. CASE OnAcceptFails
  <2>1. /\ Effect(io, io', {}, {}, {}) /\ flisted' = flisted /\ reading' = reading
    BY <1>1, <1>5, OnAcceptFailsIO DEF OnAcceptFails, Feeding
  <2> QED
    BY <2>1, FeedReadsStep DEF FeedReads
<1> QED
  BY <1>2, <1>3, <1>4, <1>5

LEMMA FeedReadsRead ==
  ASSUME Inv, FeedReads, pcM = "up", feeder # "deleted", NEW d \in Conns,
         OnCommand(d) \/ OnFeed(d) \/ LuaRaises(d) \/ OnReadFails(d) \/ OnReadFreed(d)
  PROVE  FeedReads'
<1>1. /\ Types /\ Shape(io) /\ Feeding /\ fnext \notin flisted
      /\ Watchers \cap Feeds = {}
  BY ConnsAssumption DEF Inv, Core, Types, Feeding
<1>2. HeadIs("read") /\ d = Head(io.queue).c
  BY DEF OnCommand, OnFeed, LuaRaises, OnReadFails, OnReadFreed, OnRead
<1>3. HasRead(io, d) /\ Effect(io, Popped(io), {d}, {}, {})
  BY <1>1, <1>2, AtRead
<1>4. d \in Feeds => d \notin reading /\ d \in flisted
  BY <1>3 DEF FeedReads
<1>5. CASE OnCommand(d)
  <2>1. /\ flisted' = flisted /\ d \in Watchers
        /\ reading' = IF d \in shut THEN reading ELSE reading \cup {d}
    BY <1>5 DEF OnCommand, OnRead, owners
  <2>2. PICK acc, S : Sent(Popped(io), acc, S) /\ io' = ReadsOn(d, acc.q)
    <3>1. /\ registered \subseteq Watchers /\ posted \in [Watchers -> Nat]
          /\ \A w \in Watchers : written[w] \in Seq(Nat)
      BY <1>1 DEF Types, TypeOK
    <3> QED
      BY <1>1, <1>5, <3>1, OnCommandIO
  <2>3. Effect(io, io', {d}, {d} \cap shut, Watchers)
    BY <1>3, <2>2, ReadOn
  <2> QED
    BY <1>1, <1>3, <2>1, <2>3, FeedReadsStep DEF FeedReads
<1>6. CASE OnFeed(d)
  <2>1. flisted' = flisted /\ reading' = reading \cup {d} /\ d \in Feeds
    BY <1>6 DEF OnFeed, OnRead, owners
  <2>2. PICK acc, S : Sent(Popped(io), acc, S) /\ io' = acc.q
    <3>1. /\ subscribed \subseteq Watchers /\ posted \in [Watchers -> Nat]
          /\ \A w \in Watchers : written[w] \in Seq(Nat)
      BY <1>1 DEF Types, TypeOK
    <3> QED
      BY <1>1, <1>6, <3>1, OnFeedIO
  <2>3. Effect(io, io', {d}, {}, Watchers)
    <3>1. Shape(io') /\ Alike(Popped(io), io')
      BY <2>2 DEF Sent
    <3> QED
      BY <1>3, <3>1, MovedThenAlike DEF Effect
  <2> QED
    BY <1>3, <1>4, <2>1, <2>3, FeedReadsStep DEF FeedReads
<1>7. CASE LuaRaises(d) \/ OnReadFreed(d)
  <2>1. flisted' = flisted /\ reading' = reading /\ io' = Popped(io)
    BY <1>7 DEF LuaRaises, OnReadFreed, UsesFreed, OnRead, owners
  <2> QED
    BY <1>3, <2>1, FeedReadsStep DEF FeedReads
<1>8. CASE OnReadFails(d)
  <2>1. /\ flisted' = flisted \ {d} /\ reading' = reading \ {d}
        /\ Effect(io, io', {d}, {d} \cap reading, {})
    BY <1>1, <1>8, OnReadFailsIO DEF OnReadFails, Stop
  <2> QED
    BY <1>3, <1>4, <2>1, FeedReadsStep DEF FeedReads
<1> QED
  BY <1>5, <1>6, <1>7, <1>8

LEMMA FeedReadsStrand ==
  ASSUME Inv, FeedReads, pcM = "up", feeder # "deleted",
         \/ \E c \in Watchers : DoSend(c) \/ DoSendFails(c) \/ DoSendFreed(c)
         \/ DoClose \/ DoRemoveFeeder
  PROVE  FeedReads'
<1>1. Shape(io) /\ Watchers \cap Feeds = {} /\ flisted \subseteq Feeds
  BY ConnsAssumption DEF Inv, Core, Types, TypeOK
<1>2. ASSUME NEW c \in Watchers, DoSend(c) \/ DoSendFreed(c) PROVE FeedReads'
  <2>1. flisted' = flisted /\ reading' = reading /\ Effect(io, io', {}, {}, {c})
    BY <1>1, <1>2, DoSendIO DEF DoSend, DoSendFreed, UsesFreed, owners
  <2> QED
    BY <2>1, FeedReadsStep DEF FeedReads
<1>3. ASSUME NEW c \in Watchers, DoSendFails(c) PROVE FeedReads'
  <2>1. /\ flisted' = flisted \ {c} /\ reading' = reading \ {c} /\ c \notin Feeds
        /\ Effect(io, io', {}, {c} \cap reading, {c})
    BY <1>1, <1>3, DoSendFailsIO DEF DoSendFails, Stop
  <2> QED
    BY <1>1, <2>1, FeedReadsStep DEF FeedReads
<1>4. CASE DoClose
  <2>1. flisted' = flisted /\ reading' = reading /\ Effect(io, io', {}, {}, {})
    BY <1>1, <1>4, DoCloseIO DEF DoClose
  <2> QED
    BY <2>1, FeedReadsStep DEF FeedReads
<1>5. CASE DoRemoveFeeder
  BY <1>5 DEF DoRemoveFeeder, FeedReads
<1> QED
  BY <1>2, <1>3, <1>4, <1>5

\* While the worker runs, the feeder is not there again once it was deleted.
LEMMA FeederStays ==
  ASSUME Inv, Worker
  PROVE  pcM' = pcM /\ (feeder = "deleted" => feeder' = "deleted")
<1>1. Shape(io) /\ Feeding
  BY DEF Inv, Core, Types
<1>2. CASE OnAcceptFails
  BY <1>1, <1>2, OnAcceptFailsIO DEF OnAcceptFails, main, Feeding
<1>3. CASE ~OnAcceptFails
  BY <1>3 DEF Worker, OnWatcherAccepted, AddWatcher, StartReads, WatcherAcceptThrows, OnAccept,
     OnRead, OnCommand, OnFeed, LuaRaises, OnReadFails, Stop, OnReadFreed, UsesFreed, DoSend, DoSendFails,
     DoSendFreed, DoClose, DoRemoveFeeder, owners, main
<1> QED
  BY <1>2, <1>3

LEMMA FeedReadsNext == ASSUME Inv, FeedReads, [Next]_vars PROVE FeedReads'
<1> SUFFICES ASSUME pcM' = "up", feeder' # "deleted" PROVE FeedReads'
  BY DEF FeedReads
<1>1. CASE UNCHANGED vars
  BY <1>1 DEF vars, owners, main, FeedReads
<1>2. CASE Peers
  <2>1. feeder' = feeder
    BY <1>2 DEF Peers, Connects, FeederConnects, PeerWrites, PeerLeaves, ReadEnds, Peer, owners
  <2> QED
    BY <1>2, <2>1, FeedReadsPeers
<1>3. CASE Worker
  <2>1. pcM = "up" /\ feeder # "deleted"
    BY <1>3, FeederStays DEF Worker
  <2> QED
    BY <1>3, <2>1, FeedReadsAccepts, FeedReadsRead, FeedReadsStrand DEF Worker
<1>4. CASE StopBegins \/ StopKernel
  BY <1>4 DEF StopBegins, StopKernel, StopListed, StepOn, LosePlace, StopFeeders,
     ClearConnections, StopService, Main
<1> QED
  BY <1>1, <1>2, <1>3, <1>4 DEF Next

(***************************************************************************)
(* Uses of connections that were destroyed                                 *)
(***************************************************************************)
\* What a step may use after it was destroyed is accounted for.
LEMMA UsesLate ==
  ASSUME NEW S, Uses(S), \A c \in S : Held(c) \/ c \in late
  PROVE  wild' \subseteq wild \cup late
BY DEF Uses

LEMMA AccountedUses ==
  ASSUME Inv, Leaving, FeedReads, pcM = "up", Worker
  PROVE  /\ late \subseteq late'
         /\ \A c \in wild' \ wild : c \in late \/ (c \in Feeds /\ feeder = "deleted")
<1>1. Types /\ Known /\ Feeding /\ Beginning /\ Shape(io)
  BY DEF Inv, Core, Types
<1>2. (\A c \in registered : Held(c)) /\ (\A c \in subscribed : Held(c) \/ c \in late)
  BY <1>1, HeldIs DEF Known, Early
<1>3. late \subseteq late'
  BY DEF Worker, OnWatcherAccepted, AddWatcher, StartReads, WatcherAcceptThrows, OnAccept,
     OnAcceptFails, OnRead, OnCommand, OnFeed, LuaRaises, OnReadFails, Stop, OnReadFreed, UsesFreed, DoSend,
     DoSendFails, DoSendFreed, DoClose, DoRemoveFeeder
<1>4. ASSUME NEW d \in Conns, OnCommand(d) PROVE wild' \subseteq wild \cup late
  <2>1. PICK asked \in {{}, registered} : Uses(asked)
    BY <1>4 DEF OnCommand
  <2> QED
    BY <1>2, <2>1, UsesLate
<1>5. ASSUME NEW d \in Conns, OnFeed(d) PROVE wild' \subseteq wild \cup late
  <2>1. PICK to \in SUBSET subscribed : Uses(to)
    BY <1>5 DEF OnFeed
  <2> QED
    BY <1>2, <2>1, UsesLate
<1>6. ASSUME NEW d \in Conns, OnReadFails(d) \/ DoSendFails(d) PROVE wild' \subseteq wild \cup late
  <2>1. Held(d) /\ Uses(IF d \in Watchers THEN registered \cup {d} ELSE {d})
    BY <1>6 DEF OnReadFails, DoSendFails, Stop
  <2> QED
    BY <1>2, <2>1, UsesLate
<1>7. ASSUME NEW d \in Conns, OnReadFreed(d)
      PROVE  wild' \subseteq wild \cup {d} /\ (d \in late \/ (d \in Feeds /\ feeder = "deleted"))
  <2>1. /\ ~Held(d) /\ wild' \subseteq wild \cup {d} /\ proc = "alive"
        /\ HeadIs("read") /\ d = Head(io.queue).c
    BY <1>7 DEF OnReadFreed, UsesFreed, Uses, HeadIs
  <2>2. HasRead(io, d)
    BY <1>1, <2>1, AtRead
  <2>3. CASE d \in Watchers
    BY <2>1, <2>2, <2>3, FreedLate
  <2>4. CASE d \in Feeds
    <3>1. d \notin flisted
      BY <2>1 DEF Held
    <3> QED
      BY <2>1, <2>2, <2>4, <3>1 DEF FeedReads
  <2> QED
    BY <2>1, <2>3, <2>4 DEF Conns
<1>8. ASSUME NEW d \in Watchers, DoSendFreed(d)
      PROVE  wild' \subseteq wild \cup {d} /\ d \in late
  <2>1. /\ ~Held(d) /\ wild' \subseteq wild \cup {d} /\ proc = "alive" /\ StrandIs(d, "send")
    BY <1>8 DEF DoSendFreed, UsesFreed, Uses, StrandIs, HeadIs
  <2>2. io.strand[d].locked
    BY <1>1, <2>1, AtTurn, KernelIs
  <2> QED
    BY <2>1, <2>2, FreedLate
<1>9. CASE \/ OnWatcherAccepted \/ WatcherAcceptThrows \/ OnAccept \/ OnAcceptFails
           \/ \E d \in Conns : LuaRaises(d) \/ DoSend(d)
           \/ DoClose \/ DoRemoveFeeder
  <2>1. wild' = wild
    BY <1>9 DEF OnWatcherAccepted, WatcherAcceptThrows, OnAccept, OnAcceptFails, LuaRaises,
       DoSend, DoClose, DoRemoveFeeder
  <2> QED
    BY <1>3, <2>1
<1>10. CASE AddWatcher \/ StartReads
  <2>1. PICK c : c \in {starting, started} /\ c # None /\ Uses({c})
    BY <1>10 DEF AddWatcher, StartReads, Starts
  <2>2. c \in Listed
    BY <1>1, <2>1 DEF Beginning
  <2>3. Held(c)
    BY <1>1, <2>2, HeldIs
  <2> QED
    BY <1>3, <2>1, <2>3, UsesLate
<1>11. Watchers \subseteq Conns
  BY DEF Conns
<1> QED
  BY <1>3, <1>4, <1>5, <1>6, <1>7, <1>8, <1>9, <1>10, <1>11 DEF Worker

LEMMA AccountedNext ==
  ASSUME Inv, Leaving, FeedReads, Accounted, [Next]_vars PROVE Accounted'
<1> SUFFICES ASSUME pcM' = "up" PROVE Accounted'
  BY DEF Accounted
<1>1. CASE UNCHANGED vars \/ Peers
  <2>1. UNCHANGED <<wild, late, feeder, pcM>>
    BY <1>1 DEF vars, Peers, Connects, FeederConnects, PeerWrites, PeerLeaves, ReadEnds, Peer,
       owners, main
  <2> QED
    BY <2>1 DEF Accounted
<1>2. CASE Worker
  <2>1. pcM = "up" /\ (feeder = "deleted" => feeder' = "deleted")
    BY <1>2, FeederStays
  <2>2. /\ late \subseteq late'
        /\ \A c \in wild' \ wild : c \in late \/ (c \in Feeds /\ feeder = "deleted")
    BY <1>2, <2>1, AccountedUses
  <2> QED
    BY <2>1, <2>2 DEF Accounted
<1>3. CASE StopBegins \/ StopKernel
  BY <1>3 DEF StopBegins, StopKernel, StopListed, StepOn, LosePlace, StopFeeders,
     ClearConnections, StopService, Main
<1> QED
  BY <1>1, <1>2, <1>3 DEF Next

(* Until kernel::stop, a handler is run on a destroyed connection in two   *)
(* cases only: a command was read from the watcher after its stop(), or    *)
(* the feeder was deleted with the connection open.  Otherwise the close   *)
(* that lets go of a watcher comes after its last read and its last send:  *)
(* stop() ends the read before it posts the close, and a write that fails  *)
(* posts another, or leaves a read that will.                              *)
THEOREM UsesAccountedFor == Spec => []Accounted
<1> DEFINE I == Inv /\ Leaving /\ FeedReads /\ Accounted
<1>1. Init => I
  <2> SUFFICES ASSUME Init PROVE Leaving /\ FeedReads /\ Accounted
    BY InvInit
  <2>1. /\ listed = <<>> /\ shut = {} /\ reading = {} /\ wild = {} /\ io.queue = <<>>
    BY DEF Init
  <2>2. Listed = {} /\ \A c : ~HasRead(io, c) /\ OneRead(io, c)
    BY <2>1 DEF Listed, ToSet, HasRead, OneRead, Has, Once
  <2> QED
    BY <2>1, <2>2 DEF Leaving, LeavingOf, FeedReads, Accounted
<1>2. I /\ [Next]_vars => I'
  BY InvNext, LeavingNext, FeedReadsNext, AccountedNext
<1>3. I => Accounted
  OBVIOUS
<1> QED
  BY <1>1, <1>2, <1>3, PTL DEF Spec
=============================================================================
