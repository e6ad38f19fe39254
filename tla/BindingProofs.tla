--------------------------- MODULE BindingProofs ----------------------------
(***************************************************************************)
(* Theorems about Binding, for any number of objects and userdata: the     *)
(* collector destroys what scripts made and have not disowned, once, and   *)
(* nothing that C++ made; every userdata has the type and the metatable of *)
(* its object and every wrapper gets objects of its own class; and what is *)
(* used after it ended is a connection, or the configuration of a kernel   *)
(* that a script let go.                                                   *)
(***************************************************************************)
EXTENDS Binding, SequenceTheorems, FiniteSetTheorems, TLAPS

(***************************************************************************)
(* Sequences of anything.                                                  *)
(***************************************************************************)
IsList(s) == \E S : s \in Seq(S)

LEMMA ListDomain ==
  ASSUME NEW s, IsList(s)
  PROVE  Len(s) \in Nat /\ DOMAIN s = 1..Len(s)
<1>1. PICK S : s \in Seq(S)
  BY DEF IsList
<1> QED
  BY <1>1, LenProperties

LEMMA ListAppend ==
  ASSUME NEW s, IsList(s), NEW e
  PROVE  /\ IsList(Append(s, e)) /\ Len(Append(s, e)) = Len(s) + 1
         /\ \A k \in 1..Len(s) : Append(s, e)[k] = s[k]
         /\ Append(s, e)[Len(s) + 1] = e
<1>1. PICK S : s \in Seq(S)
  BY DEF IsList
<1> DEFINE T == S \cup {e}
<1>2. s \in Seq(T) /\ e \in T
  BY <1>1, SeqMonotonic
<1> HIDE DEF T
<1>3. Len(s) \in Nat
  BY <1>2, LenProperties
<1> QED
  BY <1>2, <1>3, AppendProperties DEF IsList

LEMMA ListFunction ==
  ASSUME NEW n \in Nat, NEW f, f = [k \in 1..n |-> f[k]]
  PROVE  IsList(f) /\ Len(f) = n /\ DOMAIN f = 1..n
<1> DEFINE T == {f[k] : k \in 1..n}
<1>1. f \in [1..n -> T]
  OBVIOUS
<1> HIDE DEF T
<1>2. f \in Seq(T)
  BY <1>1, SeqDef
<1>3. Len(f) \in Nat /\ 1..Len(f) = 1..n
  BY <1>1, <1>2, LenProperties
<1> QED
  BY <1>1, <1>2, <1>3 DEF IsList

(***************************************************************************)
(* The objects ob and the userdata d, as the collector sees them.          *)
(***************************************************************************)
Kinds == {"connection", "kernel", "kernel_cfg_t", "string"}
Objs == [class : Kinds, by : {"cpp", "lua"}, part : Nat, ended : BOOLEAN, freed : Nat]

IsData(x) ==
  /\ x = [type |-> x.type, ptr |-> x.ptr, own |-> x.own, meta |-> x.meta,
          there |-> x.there]
  /\ x.own \in BOOLEAN /\ x.there \in BOOLEAN

Records(ob, d) ==
  /\ ob \in Seq(Objs)
  /\ IsList(d) /\ \A k \in 1..Len(d) : IsData(d[k])

\* What owns an object points to one that a script made, and will be noticed.
Owners(ob, d) ==
  \A k \in 1..Len(d) : d[k].own =>
    d[k].meta # None /\ d[k].ptr \in 1..Len(ob) /\ ob[d[k].ptr].by = "lua"

Sole(d) ==
  \A j, k \in 1..Len(d) : d[j].own /\ d[k].own /\ d[j].ptr = d[k].ptr => j = k

\* The userdata that owned o and were collected.
Past(d, o) == {k \in 1..Len(d) : d[k].ptr = o /\ d[k].own /\ ~d[k].there}

Counted(ob, d) == \A o \in 1..Len(ob) : ob[o].freed = Cardinality(Past(d, o))

Good(ob, d) == Records(ob, d) /\ Owners(ob, d) /\ Sole(d) /\ Counted(ob, d)

(* C++ or a script makes objects.                                          *)
LEMMA GrowObjects ==
  ASSUME NEW ob, NEW d, Good(ob, d), NEW m \in Seq(Objs),
         \A k \in 1..Len(m) : m[k].freed = 0
  PROVE  Good(ob \o m, d)
<1>1. ob \in Seq(Objs) /\ Len(ob) \in Nat /\ Len(m) \in Nat
  BY LenProperties DEF Good, Records
<1>2. ob \o m \in Seq(Objs) /\ Len(ob \o m) = Len(ob) + Len(m)
  BY <1>1, ConcatProperties
<1>3. \A o \in 1..Len(ob) : (ob \o m)[o] = ob[o]
  BY <1>1, ConcatProperties
<1>4. \A o \in (Len(ob) + 1)..(Len(ob) + Len(m)) : (ob \o m)[o].freed = 0
  <2> SUFFICES ASSUME NEW o \in (Len(ob) + 1)..(Len(ob) + Len(m))
               PROVE  (ob \o m)[o].freed = 0
    OBVIOUS
  <2>1. (ob \o m)[o] = m[o - Len(ob)]
    BY <1>1, ConcatProperties
  <2>2. o - Len(ob) \in 1..Len(m)
    BY <1>1
  <2> QED
    BY <2>1, <2>2
<1>5. Owners(ob \o m, d)
  BY <1>1, <1>2, <1>3 DEF Good, Owners
<1>6. Counted(ob \o m, d)
  <2> SUFFICES ASSUME NEW o \in 1..(Len(ob) + Len(m))
               PROVE  (ob \o m)[o].freed = Cardinality(Past(d, o))
    BY <1>2 DEF Counted
  <2>1. CASE o \in 1..Len(ob)
    BY <1>3, <2>1 DEF Good, Counted
  <2>2. CASE o \notin 1..Len(ob)
    <3>1. Past(d, o) = {}
      BY <2>2 DEF Good, Owners, Past
    <3> QED
      BY <1>1, <1>4, <2>2, <3>1, FS_EmptySet
  <2> QED
    BY <2>1, <2>2
<1> QED
  BY <1>2, <1>5, <1>6 DEF Good, Records

(* A userdata is made, which owns nothing, or what a script has just made. *)
LEMMA GrowData ==
  ASSUME NEW ob, NEW d, Good(ob, d), NEW x, IsData(x), x.there,
         x.own => /\ x.meta # None /\ x.ptr \in 1..Len(ob) /\ ob[x.ptr].by = "lua"
                  /\ \A k \in 1..Len(d) : d[k].own => d[k].ptr # x.ptr
  PROVE  Good(ob, Append(d, x))
<1> DEFINE e == Append(d, x)
<1>1. IsList(d) /\ Len(d) \in Nat
  BY ListDomain DEF Good, Records
<1>2. IsList(e) /\ Len(e) = Len(d) + 1 /\ e[Len(d) + 1] = x
      /\ \A k \in 1..Len(d) : e[k] = d[k]
  BY <1>1, ListAppend
<1> HIDE DEF e
<1>3. Records(ob, e)
  BY <1>1, <1>2 DEF Good, Records
<1>4. Owners(ob, e)
  BY <1>1, <1>2 DEF Good, Owners
<1>5. Sole(e)
  BY <1>1, <1>2 DEF Good, Sole
<1>6. \A o : Past(e, o) = Past(d, o)
  BY <1>1, <1>2 DEF Past
<1>7. Counted(ob, e)
  BY <1>6 DEF Good, Counted
<1> QED
  BY <1>3, <1>4, <1>5, <1>7 DEF Good, e

(* A userdata is disowned.                                                 *)
LEMMA Disowned ==
  ASSUME NEW ob, NEW d, Good(ob, d), NEW i \in 1..Len(d), d[i].there
  PROVE  Good(ob, [d EXCEPT ![i].own = FALSE])
<1> DEFINE e == [d EXCEPT ![i].own = FALSE]
<1>1. IsList(d) /\ Len(d) \in Nat /\ DOMAIN d = 1..Len(d)
  BY ListDomain DEF Good, Records
<1>2. e = [k \in 1..Len(d) |-> e[k]]
  BY <1>1
<1>3. /\ \A k \in 1..Len(d) : k # i => e[k] = d[k]
      /\ e[i] = [d[i] EXCEPT !.own = FALSE]
  BY <1>1
<1> HIDE DEF e
<1>4. IsList(e) /\ Len(e) = Len(d)
  BY <1>1, <1>2, ListFunction
<1>5. /\ IsData(e[i]) /\ e[i].own = FALSE /\ e[i].there = d[i].there
      /\ e[i].ptr = d[i].ptr /\ e[i].meta = d[i].meta
  <2>1. IsData(d[i])
    BY Zenon DEF Good, Records
  <2> QED
    BY <1>3, <2>1, Zenon DEF IsData
<1>6. Records(ob, e)
  BY <1>3, <1>4, <1>5 DEF Good, Records
<1>7. Owners(ob, e)
  BY <1>3, <1>4, <1>5 DEF Good, Owners
<1>8. Sole(e)
  BY <1>3, <1>4, <1>5 DEF Good, Sole
<1>9. \A o : Past(e, o) = Past(d, o)
  BY <1>3, <1>4, <1>5 DEF Past
<1> QED
  BY <1>6, <1>7, <1>8, <1>9 DEF Good, Counted, e

(***************************************************************************)
(* The collector.                                                          *)
(***************************************************************************)
Freeing(d, S, o) == {i \in S : d[i].ptr = o /\ d[i].own /\ d[i].meta # None}

Freed(ob, d, S) ==
  [o \in 1..Len(ob) |-> [ob[o] EXCEPT !.freed = @ + Cardinality(Freeing(d, S, o))]]

Dropped(d, S) ==
  [i \in DOMAIN d |-> IF i \in S THEN [d[i] EXCEPT !.there = FALSE] ELSE d[i]]

LEMMA DroppedData ==
  ASSUME NEW ob, NEW d, Good(ob, d), NEW S \in SUBSET (1..Len(d))
  PROVE  /\ IsList(Dropped(d, S)) /\ Len(Dropped(d, S)) = Len(d) /\ DOMAIN d = 1..Len(d)
         /\ \A k \in 1..Len(d) :
              /\ IsData(Dropped(d, S)[k])
              /\ Dropped(d, S)[k].own = d[k].own
              /\ Dropped(d, S)[k].ptr = d[k].ptr
              /\ Dropped(d, S)[k].meta = d[k].meta
              /\ Dropped(d, S)[k].type = d[k].type
              /\ Dropped(d, S)[k].there = (d[k].there /\ k \notin S)
<1> DEFINE e == Dropped(d, S)
<1>1. IsList(d) /\ Len(d) \in Nat /\ DOMAIN d = 1..Len(d)
  BY ListDomain DEF Good, Records
<1>2. e = [k \in 1..Len(d) |-> e[k]]
  BY <1>1 DEF Dropped
<1>3. \A k \in 1..Len(d) :
        e[k] = IF k \in S THEN [d[k] EXCEPT !.there = FALSE] ELSE d[k]
  BY <1>1 DEF Dropped
<1> HIDE DEF e
<1>4. IsList(e) /\ Len(e) = Len(d)
  BY <1>1, <1>2, ListFunction
<1>5. ASSUME NEW k \in 1..Len(d)
      PROVE  /\ IsData(e[k]) /\ e[k].own = d[k].own /\ e[k].ptr = d[k].ptr
             /\ e[k].meta = d[k].meta /\ e[k].type = d[k].type
             /\ e[k].there = (d[k].there /\ k \notin S)
  <2>1. IsData(d[k])
    BY DEF Good, Records
  <2>2. CASE k \in S
    BY <1>3, <2>1, <2>2 DEF IsData
  <2>3. CASE k \notin S
    BY <1>3, <2>1, <2>3 DEF IsData
  <2> QED
    BY <2>2, <2>3
<1> QED
  BY <1>1, <1>4, <1>5 DEF e

\* An object has one owner, so that at most one userdata frees it, once.
LEMMA OwnerFrees ==
  ASSUME NEW ob, NEW d, Good(ob, d), NEW S \in SUBSET {k \in 1..Len(d) : d[k].there}, NEW o
  PROVE  /\ Past(Dropped(d, S), o) = Past(d, o) \cup Freeing(d, S, o)
         /\ Cardinality(Freeing(d, S, o)) \in Nat
         /\ Cardinality(Past(Dropped(d, S), o))
              = Cardinality(Past(d, o)) + Cardinality(Freeing(d, S, o))
<1>1. Past(Dropped(d, S), o) = Past(d, o) \cup Freeing(d, S, o)
  <2>1. \A k \in 1..Len(d) : d[k].own => d[k].meta # None
    BY DEF Good, Owners
  <2>2. S \in SUBSET (1..Len(d))
    OBVIOUS
  <2>3. /\ Len(Dropped(d, S)) = Len(d)
        /\ \A k \in 1..Len(d) :
             /\ Dropped(d, S)[k].own = d[k].own
             /\ Dropped(d, S)[k].ptr = d[k].ptr
             /\ Dropped(d, S)[k].there = (d[k].there /\ k \notin S)
    BY <2>2, DroppedData
  <2> QED
    BY <2>1, <2>3 DEF Past, Freeing
<1>c. Cardinality({}) = 0 /\ \A k : Cardinality({k}) = 1
  BY FS_EmptySet, FS_Singleton
<1>2. CASE Freeing(d, S, o) = {}
  <2>1. Past(d, o) = {} \/ \E k : Past(d, o) = {k}
    BY DEF Past, Good, Sole
  <2>2. Cardinality(Past(d, o)) \in Nat
    <3>1. Cardinality(Past(d, o)) = 0 \/ Cardinality(Past(d, o)) = 1
      BY <1>c, <2>1, Zenon
    <3> QED
      BY <3>1
  <2>3. Past(d, o) \cup Freeing(d, S, o) = Past(d, o)
    BY <1>2
  <2> QED
    BY <1>1, <1>2, <1>c, <2>2, <2>3
<1>3. CASE Freeing(d, S, o) # {}
  <2>1. PICK k : k \in Freeing(d, S, o)
    BY <1>3
  <2>2. Freeing(d, S, o) = {k}
    BY <2>1 DEF Freeing, Good, Sole
  <2>3. Past(d, o) = {}
    BY <2>1 DEF Freeing, Past, Good, Sole
  <2>4. Past(Dropped(d, S), o) = {k}
    BY <1>1, <2>2, <2>3
  <2> QED
    <3>1. /\ Cardinality(Freeing(d, S, o)) = 1 /\ Cardinality(Past(d, o)) = 0
          /\ Cardinality(Past(Dropped(d, S), o)) = 1
      BY <1>c, <2>2, <2>3, <2>4, Zenon
    <3> QED
      BY <1>1, <3>1
<1> QED
  BY <1>1, <1>2, <1>3

LEMMA CollectKeeps ==
  ASSUME NEW ob, NEW d, Good(ob, d), NEW S \in SUBSET {k \in 1..Len(d) : d[k].there}
  PROVE  Good(Freed(ob, d, S), Dropped(d, S))
<1> DEFINE e == Dropped(d, S)
           of == Freed(ob, d, S)
<1>1. ob \in Seq(Objs) /\ Len(ob) \in Nat /\ ob \in [1..Len(ob) -> Objs]
  BY LenProperties DEF Good, Records
<1>2. \A o \in 1..Len(ob) : /\ of[o] \in Objs /\ of[o].by = ob[o].by
                             /\ of[o].freed = ob[o].freed + Cardinality(Freeing(d, S, o))
  <2> SUFFICES ASSUME NEW o \in 1..Len(ob)
               PROVE  /\ of[o] \in Objs /\ of[o].by = ob[o].by
                      /\ of[o].freed = ob[o].freed + Cardinality(Freeing(d, S, o))
    OBVIOUS
  <2> DEFINE n == Cardinality(Freeing(d, S, o))
  <2>1. n \in Nat
    BY OwnerFrees
  <2>2. of[o] = [ob[o] EXCEPT !.freed = @ + n]
    BY DEF Freed
  <2>3. ob[o] \in Objs
    BY <1>1
  <2> HIDE DEF n, of
  <2>4. of[o] \in Objs /\ of[o].by = ob[o].by /\ of[o].freed = ob[o].freed + n
    BY <2>1, <2>2, <2>3 DEF Objs
  <2> QED
    BY <2>4 DEF n
<1>3. of \in Seq(Objs) /\ Len(of) = Len(ob)
  <2>1. of \in [1..Len(ob) -> Objs]
    BY <1>2 DEF Freed
  <2>2. of \in Seq(Objs)
    BY <1>1, <2>1, SeqDef
  <2>3. Len(of) \in Nat /\ 1..Len(of) = 1..Len(ob)
    BY <2>1, <2>2, LenProperties
  <2> QED
    BY <1>1, <2>2, <2>3
<1>4. /\ IsList(e) /\ Len(e) = Len(d)
      /\ \A k \in 1..Len(d) : /\ IsData(e[k]) /\ e[k].own = d[k].own /\ e[k].ptr = d[k].ptr
                               /\ e[k].meta = d[k].meta
  BY DroppedData
<1>5. \A o : Cardinality(Past(e, o)) = Cardinality(Past(d, o)) + Cardinality(Freeing(d, S, o))
  BY OwnerFrees
<1> HIDE DEF e, of
<1>6. Records(of, e)
  BY <1>3, <1>4 DEF Records
<1>7. Owners(of, e)
  BY <1>2, <1>3, <1>4 DEF Good, Owners
<1>8. Sole(e)
  BY <1>4 DEF Good, Sole
<1>9. Counted(of, e)
  BY <1>2, <1>3, <1>5 DEF Good, Counted
<1> QED
  BY <1>6, <1>7, <1>8, <1>9 DEF Good, e, of

(* C++ ends a connection.                                                  *)
LEMMA EndKeeps ==
  ASSUME NEW ob, NEW d, Good(ob, d), NEW o \in 1..Len(ob)
  PROVE  Good([ob EXCEPT ![o].ended = TRUE], d)
<1> DEFINE of == [ob EXCEPT ![o].ended = TRUE]
           x == [ob[o] EXCEPT !.ended = TRUE]
<1>1. ob \in Seq(Objs) /\ Len(ob) \in Nat /\ ob \in [1..Len(ob) -> Objs]
  BY LenProperties DEF Good, Records
<1>2. x \in Objs /\ x.by = ob[o].by /\ x.freed = ob[o].freed
  BY <1>1 DEF Objs
<1>3. of = [ob EXCEPT ![o] = x]
  BY <1>1
<1> HIDE DEF of, x
<1>4. /\ of \in Seq(Objs) /\ Len(of) = Len(ob)
      /\ \A k \in 1..Len(ob) : of[k] = IF k = o THEN x ELSE ob[k]
  BY <1>1, <1>2, <1>3, ExceptSeq
<1> QED
  BY <1>2, <1>4 DEF Good, Records, Owners, Counted, of

(***************************************************************************)
(* The specification.  A class is registered only with its type, so that   *)
(* what a constructor returns has a metatable, and with it a destructor.   *)
(***************************************************************************)
Classified == \A c \in classes : \E t \in 1..Len(types) : types[t].class = c

OwnInv == Good(objs, data) /\ Classified /\ (lua = "over" => Live = {})

LEMMA Pairs ==
  \A S : \A x, y \in S :
    /\ <<x>> \in Seq(S) /\ Len(<<x>>) = 1 /\ <<x>>[1] = x
    /\ <<x, y>> \in Seq(S) /\ Len(<<x, y>>) = 2 /\ <<x, y>>[1] = x /\ <<x, y>>[2] = y
  OBVIOUS

LEMMA ObjectMade ==
  ASSUME NEW c \in Kinds, NEW by \in {"cpp", "lua"}, NEW n \in Nat
  PROVE  Object(c, by, n) \in Objs /\ Object(c, by, n).freed = 0 /\ Object(c, by, n).by = by
BY DEF Object, Objs

LEMMA MadeObjects ==
  ASSUME Good(objs, data), NEW c \in Kinds, NEW by \in {"cpp", "lua"}
  PROVE  /\ Made(c, by) \in Seq(Objs) /\ Len(Made(c, by)) \in {1, 2}
         /\ \A k \in 1..Len(Made(c, by)) : Made(c, by)[k].freed = 0
         /\ Made(c, by)[1].by = by
<1>1. Len(objs) \in Nat
  BY LenProperties DEF Good, Records
<1> DEFINE x == Object(c, by, 0)
           y == Object("kernel_cfg_t", by, Len(objs) + 1)
           z == Object("kernel", by, 0)
<1>2. /\ x \in Objs /\ x.freed = 0 /\ x.by = by /\ y \in Objs /\ y.freed = 0
      /\ z \in Objs /\ z.freed = 0 /\ z.by = by
  BY <1>1, ObjectMade DEF Kinds
<1>3. Made(c, by) = IF c = "kernel" THEN <<z, y>> ELSE <<x>>
  BY DEF Made
<1> HIDE DEF x, y, z
<1>4. CASE c = "kernel"
  BY <1>2, <1>3, <1>4, Pairs
<1>5. CASE c # "kernel"
  BY <1>2, <1>3, <1>5, Pairs
<1> QED
  BY <1>4, <1>5

LEMMA OwnInitially == Init => OwnInv
<1> SUFFICES ASSUME Init PROVE OwnInv
  OBVIOUS
<1> DEFINE x == Object("kernel", "cpp", 0)
           y == Object("kernel_cfg_t", "cpp", 1)
<1>1. x \in Objs /\ x.freed = 0 /\ y \in Objs /\ y.freed = 0
  BY ObjectMade DEF Kinds
<1>2. objs = <<x, y>> /\ data = <<>>
  BY DEF Init
<1> HIDE DEF x, y
<1>3. /\ objs \in Seq(Objs) /\ Len(objs) = 2 /\ \A o \in 1..Len(objs) : objs[o].freed = 0
  BY <1>1, <1>2, Pairs
<1>4. IsList(data) /\ Len(data) = 0
  BY <1>2, EmptySeq DEF IsList
<1>5. \A o : Past(data, o) = {}
  BY <1>4 DEF Past
<1>6. Records(objs, data) /\ Owners(objs, data) /\ Sole(data)
  BY <1>3, <1>4 DEF Records, Owners, Sole
<1>7. Counted(objs, data)
  BY <1>3, <1>5, FS_EmptySet DEF Counted
<1>8. Classified /\ lua # "over"
  BY DEF Init, Classified
<1> QED
  BY <1>6, <1>7, <1>8 DEF OwnInv, Good

LEMMA CollectedKeeps ==
  ASSUME OwnInv, NEW S \in SUBSET Live, Collected(S)
  PROVE  Good(objs, data)' /\ Live' = Live \ S
<1>1. Live = {k \in 1..Len(data) : data[k].there}
  BY DEF Live
<1>2. objs' = Freed(objs, data, S) /\ data' = Dropped(data, S)
  BY DEF Collected, ClassDestruct, Objects, Freed, Freeing, Dropped
<1>3. Good(objs', data')
  BY <1>1, <1>2, CollectKeeps DEF OwnInv
<1>4. /\ Len(data') = Len(data)
      /\ \A k \in 1..Len(data) : data'[k].there = (data[k].there /\ k \notin S)
  BY <1>1, <1>2, DroppedData DEF OwnInv
<1> QED
  BY <1>1, <1>3, <1>4 DEF Live

\* The userdata that NewPointerObj makes.
Userdata(o, t, own) ==
  [type |-> t, ptr |-> o, own |-> own, meta |-> Metatable(t), there |-> TRUE]

LEMMA UserdataMade ==
  ASSUME NEW o, NEW t, NEW own \in BOOLEAN
  PROVE  /\ IsData(Userdata(o, t, own)) /\ Userdata(o, t, own).there
         /\ Userdata(o, t, own).own = own /\ Userdata(o, t, own).ptr = o
         /\ Userdata(o, t, own).meta = Metatable(t)
BY DEF Userdata, IsData

LEMMA UnownedKeeps ==
  ASSUME OwnInv, NEW o, NEW t, NewPointerObj(o, t, FALSE), UNCHANGED objs
  PROVE  Good(objs, data)'
<1>1. data' = Append(data, Userdata(o, t, FALSE))
  BY DEF NewPointerObj, Userdata
<1> QED
  BY <1>1, UserdataMade, GrowData DEF OwnInv

LEMMA ConstructsKeeps ==
  ASSUME OwnInv, NEW c \in Constructible, Constructs(c)
  PROVE  OwnInv'
<1>1. CASE UNCHANGED <<objs, data>>
  BY <1>1 DEF Constructs, OwnInv, Classified, Live
<1>2. CASE ~UNCHANGED <<objs, data>>
  <2> DEFINE t == CHOOSE t \in 1..Len(types) : types[t].class = c
             x == Userdata(Len(objs) + 1, t, TRUE)
             m == Made(c, "lua")
  <2>1. /\ objs' = objs \o m /\ data' = Append(data, x)
        /\ c \in classes /\ lua = "open" /\ UNCHANGED <<lua, types, classes>>
    BY <1>2 DEF Constructs, NewPointerObj, Userdata, Running
  <2>2. types[t].class = c
    BY <2>1 DEF OwnInv, Classified
  <2>3. Metatable(t) = c /\ c # None /\ c \in Kinds
    BY <2>1, <2>2 DEF Metatable, Constructible, Kinds, None
  <2> HIDE DEF t
  <2>4. IsData(x) /\ x.there /\ x.own = TRUE /\ x.ptr = Len(objs) + 1 /\ x.meta # None
    <3>1. x = [type |-> t, ptr |-> Len(objs) + 1, own |-> TRUE, meta |-> c,
               there |-> TRUE]
      BY <2>3 DEF Userdata
    <3> HIDE DEF x
    <3>2. x.own = TRUE /\ x.there = TRUE /\ x.meta = c /\ x.ptr = Len(objs) + 1
      BY <3>1
    <3>3. IsData(x)
      BY <3>1 DEF IsData
    <3> QED
      BY <2>3, <3>2, <3>3
  <2>5. /\ m \in Seq(Objs) /\ Len(m) \in {1, 2} /\ m[1].by = "lua"
        /\ \A k \in 1..Len(m) : m[k].freed = 0
    BY <2>3, MadeObjects DEF OwnInv
  <2> HIDE DEF x, m
  <2>6. Good(objs \o m, data)
    BY <2>5, GrowObjects DEF OwnInv
  <2>7. objs \in Seq(Objs) /\ Len(objs) \in Nat
    BY LenProperties DEF OwnInv, Good, Records
  <2>8. Len(objs) + 1 \in 1..Len(objs \o m) /\ (objs \o m)[Len(objs) + 1].by = "lua"
    BY <2>5, <2>7, ConcatProperties
  <2>9. \A k \in 1..Len(data) : data[k].own => data[k].ptr # x.ptr
    BY <2>4, <2>7 DEF OwnInv, Good, Owners
  <2>10. Good(objs', data')
    BY <2>1, <2>4, <2>6, <2>8, <2>9, GrowData
  <2> QED
    BY <2>1, <2>10 DEF OwnInv, Classified
<1> QED
  BY <1>1, <1>2

LEMMA ScriptKeeps == OwnInv /\ Script => OwnInv'
<1> SUFFICES ASSUME OwnInv, Script PROVE OwnInv'
  OBVIOUS
<1>1. ASSUME NEW i \in Live, Collect(i) PROVE OwnInv'
  BY <1>1, CollectedKeeps DEF Collect, Running, OwnInv, Classified
<1>2. ASSUME NEW i \in Live, Disown(i) PROVE OwnInv'
  <2>1. i \in 1..Len(data) /\ data[i].there
    BY DEF Live
  <2>2. Good(objs', data')
    BY <1>2, <2>1, Disowned DEF Disown, OwnInv
  <2> QED
    BY <1>2, <2>2 DEF Disown, Running, OwnInv, Classified
<1>3. ASSUME NEW i \in Live, NEW key, ClassGet(i, key) PROVE OwnInv'
  <2>1. lua = "open" /\ UNCHANGED <<lua, types, classes, objs>>
    BY <1>3 DEF ClassGet, Running
  <2>2. \/ UNCHANGED data
        \/ \E t : NewPointerObj(CfgOf(data[i].ptr), t, FALSE)
    BY <1>3 DEF ClassGet
  <2>3. CASE UNCHANGED data
    BY <2>1, <2>3 DEF OwnInv, Classified
  <2>4. CASE \E t : NewPointerObj(CfgOf(data[i].ptr), t, FALSE)
    BY <2>1, <2>4, UnownedKeeps DEF OwnInv, Classified
  <2> QED
    BY <2>2, <2>3, <2>4
<1>4. ASSUME NEW i \in Live, NEW key, NEW v, ClassSet(i, key, v) PROVE OwnInv'
  BY <1>4 DEF ClassSet, Running, OwnInv, Classified
<1>5. ASSUME NEW i \in Live, NEW m, NEW self, NEW args, Calls(i, m, self, args)
      PROVE  OwnInv'
  BY <1>5 DEF Calls, Running, OwnInv, Classified
<1> QED
  BY <1>1, <1>2, <1>3, <1>4, <1>5, ConstructsKeeps DEF Script

LEMMA OwnStep == OwnInv /\ [Next]_vars => OwnInv'
<1> SUFFICES ASSUME OwnInv, [Next]_vars PROVE OwnInv'
  OBVIOUS
<1>1. CASE Open
  BY <1>1 DEF Open, OwnInv, Classified
<1>2. CASE Require
  <2>1. Classified'
    BY <1>2 DEF Require, InitializeModule, RegisterClasses, Classified
  <2> QED
    BY <1>2, <2>1 DEF Require, Running, OwnInv
<1>3. CASE Close
  <2>1. Good(objs, data)' /\ Live' = {}
    BY <1>3, CollectedKeeps DEF Close
  <2>2. Classified'
    BY <1>3 DEF Close, Classified
  <2> QED
    BY <2>1, <2>2 DEF OwnInv
<1>4. CASE Accept
  <2> DEFINE m == Made("connection", "cpp")
  <2>1. m \in Seq(Objs) /\ \A k \in 1..Len(m) : m[k].freed = 0
    BY MadeObjects DEF OwnInv, Kinds
  <2>2. objs' = objs \o m /\ UNCHANGED <<lua, types, classes, data>>
    BY <1>4 DEF Accept
  <2> HIDE DEF m
  <2>3. Good(objs', data')
    BY <2>1, <2>2, GrowObjects DEF OwnInv
  <2> QED
    BY <2>2, <2>3 DEF OwnInv, Classified, Live
<1>5. CASE Script
  BY <1>5, ScriptKeeps
<1>6. ASSUME NEW o \in Objects, PushUserdata(o) PROVE OwnInv'
  <2>1. lua = "open" /\ UNCHANGED <<lua, types, classes, objs>>
    BY <1>6 DEF PushUserdata, Running
  <2>2. UNCHANGED data \/ \E t : NewPointerObj(o, t, FALSE)
    BY <1>6 DEF PushUserdata
  <2>3. CASE UNCHANGED data
    BY <2>1, <2>3 DEF OwnInv, Classified
  <2>4. CASE \E t : NewPointerObj(o, t, FALSE)
    BY <2>1, <2>4, UnownedKeeps DEF OwnInv, Classified
  <2> QED
    BY <2>2, <2>3, <2>4
<1>7. ASSUME NEW o \in Objects, Ends(o) PROVE OwnInv'
  <2>1. Good(objs', data')
    BY <1>7, EndKeeps DEF Ends, OwnInv, Objects
  <2> QED
    BY <1>7, <2>1 DEF Ends, OwnInv, Classified, Live
<1>8. CASE UNCHANGED vars
  BY <1>8 DEF vars, OwnInv, Classified, Live
<1> QED
  BY <1>1, <1>2, <1>3, <1>4, <1>5, <1>6, <1>7, <1>8 DEF Next

LEMMA OwnInductive == Spec => []OwnInv
BY OwnInitially, OwnStep, PTL DEF Spec

(* The collector frees what a script made and has not disowned, once, and  *)
(* nothing that C++ made, and when the engine has stopped nothing is left  *)
(* to free (lua_grind_wrap.cxx:1230).                                      *)
THEOREM DestroyedByOwnerOnly == Spec => []DestroyedByOwner
<1>1. OwnInv => DestroyedByOwner
  <2> SUFFICES ASSUME OwnInv PROVE DestroyedByOwner
    OBVIOUS
  <2>1. objs \in Seq(Objs) /\ Len(objs) \in Nat /\ DOMAIN data = 1..Len(data)
    BY LenProperties, ListDomain DEF OwnInv, Good, Records
  <2>2. ASSUME NEW o \in Objects
        PROVE  objs[o].freed = Cardinality({i \in DOMAIN data :
                 data[i].ptr = o /\ data[i].own /\ ~data[i].there})
    BY <2>1 DEF Objects, OwnInv, Good, Counted, Past
  <2>3. ASSUME NEW o \in Objects
        PROVE  objs[o].freed <= IF objs[o].by = "lua" THEN 1 ELSE 0
    <3>c. Cardinality({}) = 0 /\ \A k : Cardinality({k}) = 1
      BY FS_EmptySet, FS_Singleton
    <3>1. objs[o].freed = Cardinality(Past(data, o))
      BY DEF Objects, OwnInv, Good, Counted
    <3>2. CASE Past(data, o) = {}
      <4>1. objs[o].freed = 0
        BY <3>c, <3>1, <3>2, Zenon
      <4> QED
        BY <4>1
    <3>3. CASE Past(data, o) # {}
      <4>1. PICK k : k \in Past(data, o)
        BY <3>3
      <4>2. Past(data, o) = {k} /\ objs[o].by = "lua"
        BY <4>1 DEF Past, OwnInv, Good, Sole, Owners
      <4>3. objs[o].freed = 1
        BY <3>c, <3>1, <4>2, Zenon
      <4> QED
        BY <4>2, <4>3
    <3> QED
      BY <3>2, <3>3
  <2> QED
    BY <2>2, <2>3 DEF DestroyedByOwner, OwnInv
<1> QED
  BY <1>1, OwnInductive, PTL

(***************************************************************************)
(* What objects are, whatever becomes of them: a kernel is followed by its *)
(* configuration, which is destroyed with it; C++ alone makes connections, *)
(* and ends nothing else.                                                  *)
(***************************************************************************)
Kernels(ob) == \A o \in 1..Len(ob) : ob[o].class = "kernel" =>
  o + 1 \in 1..Len(ob) /\ ob[o + 1].class = "kernel_cfg_t" /\ ob[o + 1].part = o

Parts(ob) == \A o \in 1..Len(ob) : ob[o].part # 0 =>
  /\ ob[o].part \in 1..Len(ob) /\ ob[ob[o].part].class = "kernel"
  /\ ob[ob[o].part].by = ob[o].by

Enders(ob) == \A o \in 1..Len(ob) :
  /\ ob[o].class = "connection" => ob[o].by = "cpp"
  /\ ob[o].ended => ob[o].class = "connection"

\* A userdata has the type of its object, by either name.
Typed(ob, d) == \A k \in 1..Len(d) :
  /\ d[k].type \in 1..4 /\ d[k].ptr \in 1..Len(ob)
  /\ d[k].meta = ob[d[k].ptr].class /\ TypeInitial[d[k].type].class = d[k].meta

\* What a script made has one userdata; a configuration may have more.
Single(ob, d) == \A j, k \in 1..Len(d) :
  d[j].ptr = d[k].ptr /\ ob[d[k].ptr].by = "lua" /\ ob[d[k].ptr].part = 0 => j = k

Held(ob, d) == Kernels(ob) /\ Parts(ob) /\ Enders(ob) /\ Typed(ob, d) /\ Single(ob, d)

\* The objects w were used after they ended, as UsesAccounted allows.
Excused(ob, o) == \/ (ob[o].class = "connection" /\ ob[o].by = "cpp")
                  \/ (ob[o].part # 0 /\ ob[ob[o].part].by = "lua")

AllExcused(ob, w) == \A o \in w : o \in 1..Len(ob) /\ Excused(ob, o)

(* Objects end and are freed, userdata are collected and disowned.         *)
Alike(ob, of) ==
  /\ Len(of) = Len(ob)
  /\ \A o \in 1..Len(ob) :
       /\ of[o].class = ob[o].class /\ of[o].by = ob[o].by /\ of[o].part = ob[o].part
       /\ of[o].ended => ob[o].ended \/ ob[o].class = "connection"

AlikeData(d, e) ==
  /\ Len(e) = Len(d)
  /\ \A k \in 1..Len(d) : e[k].type = d[k].type /\ e[k].ptr = d[k].ptr /\ e[k].meta = d[k].meta

LEMMA AlikeHeld ==
  ASSUME NEW ob, NEW of, NEW d, NEW e, Held(ob, d), Alike(ob, of), AlikeData(d, e)
  PROVE  Held(of, e)
<1>1. Len(of) = Len(ob) /\ Len(e) = Len(d)
  BY DEF Alike, AlikeData
<1>2. \A o \in 1..Len(ob) :
        of[o].class = ob[o].class /\ of[o].by = ob[o].by /\ of[o].part = ob[o].part
  BY DEF Alike
<1>3. \A o \in 1..Len(ob) : of[o].ended => ob[o].ended \/ ob[o].class = "connection"
  BY DEF Alike
<1>4. \A k \in 1..Len(d) : e[k].type = d[k].type /\ e[k].ptr = d[k].ptr /\ e[k].meta = d[k].meta
  BY DEF AlikeData
<1>5. Kernels(of)
  BY <1>1, <1>2 DEF Held, Kernels
<1>6. Parts(of)
  BY <1>1, <1>2 DEF Held, Parts
<1>7. Enders(of)
  BY <1>1, <1>2, <1>3 DEF Held, Enders
<1>8. Typed(of, e)
  BY <1>1, <1>2, <1>4 DEF Held, Typed
<1>9. Single(of, e)
  <2> SUFFICES ASSUME NEW j \in 1..Len(d), NEW k \in 1..Len(d), e[j].ptr = e[k].ptr,
                      of[e[k].ptr].by = "lua", of[e[k].ptr].part = 0
               PROVE  j = k
    BY <1>1 DEF Single
  <2>1. d[j].ptr = d[k].ptr /\ d[k].ptr \in 1..Len(ob) /\ e[k].ptr = d[k].ptr
    BY <1>4 DEF Held, Typed
  <2>2. ob[d[k].ptr].by = "lua" /\ ob[d[k].ptr].part = 0
    BY <1>2, <2>1
  <2> QED
    BY <2>1, <2>2 DEF Held, Single
<1> QED
  BY <1>5, <1>6, <1>7, <1>8, <1>9 DEF Held

LEMMA AlikeExcused ==
  ASSUME NEW ob, NEW of, NEW w, Parts(ob), AllExcused(ob, w), Alike(ob, of)
  PROVE  AllExcused(of, w)
<1> SUFFICES ASSUME NEW o \in w PROVE o \in 1..Len(of) /\ Excused(of, o)
  BY DEF AllExcused
<1>1. o \in 1..Len(ob) /\ Excused(ob, o)
  BY DEF AllExcused
<1>2. /\ Len(of) = Len(ob)
      /\ \A q \in 1..Len(ob) :
           of[q].class = ob[q].class /\ of[q].by = ob[q].by /\ of[q].part = ob[q].part
  BY DEF Alike
<1>3. ob[o].part # 0 => ob[o].part \in 1..Len(ob)
  BY <1>1 DEF Parts
<1> QED
  BY <1>1, <1>2, <1>3 DEF Excused

(* C++ or a script makes an object, or a kernel and its configuration.     *)
Makes(ob, m, c, by) ==
  \/ m = <<Object(c, by, 0)>> /\ c # "kernel"
  \/ m = <<Object("kernel", by, 0), Object("kernel_cfg_t", by, Len(ob) + 1)>> /\ c = "kernel"

LEMMA Extended ==
  ASSUME NEW ob \in Seq(Objs), NEW m \in Seq(Objs)
  PROVE  /\ Len(ob) \in Nat /\ Len(m) \in Nat /\ Len(ob \o m) = Len(ob) + Len(m)
         /\ \A o \in 1..Len(ob) : (ob \o m)[o] = ob[o]
         /\ \A k \in 1..Len(m) : (ob \o m)[Len(ob) + k] = m[k]
<1>1. Len(ob) \in Nat /\ Len(m) \in Nat
  BY LenProperties
<1>2. Len(ob \o m) = Len(ob) + Len(m)
  BY <1>1, ConcatProperties
<1>3. \A o \in 1..Len(ob) : (ob \o m)[o] = ob[o]
  BY <1>1, ConcatProperties
<1>4. ASSUME NEW k \in 1..Len(m) PROVE (ob \o m)[Len(ob) + k] = m[k]
  BY <1>1, ConcatProperties
<1> QED
  BY <1>1, <1>2, <1>3, <1>4

LEMMA MadeHeld ==
  ASSUME NEW ob \in Seq(Objs), NEW d, Held(ob, d), NEW m \in Seq(Objs),
         NEW c \in Kinds, NEW by \in {"cpp", "lua"}, Makes(ob, m, c, by),
         c = "connection" => by = "cpp"
  PROVE  /\ Held(ob \o m, d)
         /\ Len(ob) + 1 \in 1..Len(ob \o m)
         /\ (ob \o m)[Len(ob) + 1].class = c /\ (ob \o m)[Len(ob) + 1].part = 0
<1> DEFINE of == ob \o m
           n == Len(ob)
<1>1. n \in Nat /\ Len(m) \in Nat /\ Len(of) = n + Len(m)
  BY Extended
<1>2. \A o \in 1..n : of[o] = ob[o]
  BY Extended
<1>3. \A k \in 1..Len(m) : of[n + k] = m[k]
  BY Extended
<1>4. /\ Len(m) \in {1, 2} /\ m[1].class = c /\ m[1].by = by /\ m[1].part = 0
      /\ m[1].ended = FALSE /\ (c = "kernel" <=> Len(m) = 2)
      /\ Len(m) = 2 => /\ m[2].class = "kernel_cfg_t" /\ m[2].by = by
                       /\ m[2].part = n + 1 /\ m[2].ended = FALSE
  <2> DEFINE x == Object(c, by, 0)
             y == Object("kernel_cfg_t", by, n + 1)
  <2>1. /\ x.class = c /\ x.by = by /\ x.part = 0 /\ x.ended = FALSE
        /\ y.class = "kernel_cfg_t" /\ y.by = by /\ y.part = n + 1 /\ y.ended = FALSE
    BY DEF Object
  <2>2. \/ (m = <<x>> /\ c # "kernel")
        \/ (m = <<x, y>> /\ c = "kernel")
    BY DEF Makes
  <2> HIDE DEF x, y
  <2>3. CASE m = <<x>> /\ c # "kernel"
    BY <2>1, <2>3
  <2>4. CASE m = <<x, y>> /\ c = "kernel"
    BY <2>1, <2>4
  <2> QED
    BY <2>2, <2>3, <2>4
<1> HIDE DEF of, n
<1>5. of[n + 1] = m[1] /\ (Len(m) = 2 => of[n + 2] = m[2])
  BY <1>1, <1>3, <1>4
<1>6. \A o \in 1..Len(of) : o \in 1..n \/ o = n + 1 \/ (o = n + 2 /\ Len(m) = 2)
  <2>1. Len(m) = 1 \/ Len(m) = 2
    BY <1>4
  <2>2. Len(of) = n + 1 \/ (Len(of) = n + 2 /\ Len(m) = 2)
    BY <1>1, <2>1
  <2> QED
    BY <1>1, <2>2
<1>7. Kernels(of)
  <2> SUFFICES ASSUME NEW o \in 1..Len(of), of[o].class = "kernel"
               PROVE  /\ o + 1 \in 1..Len(of) /\ of[o + 1].class = "kernel_cfg_t"
                      /\ of[o + 1].part = o
    BY DEF Kernels
  <2>1. CASE o \in 1..n
    <3>1. o + 1 \in 1..n /\ ob[o + 1].class = "kernel_cfg_t" /\ ob[o + 1].part = o
      BY <1>2, <2>1 DEF Held, Kernels, n
    <3> QED
      BY <1>1, <1>2, <3>1
  <2>2. CASE o = n + 1
    BY <1>1, <1>4, <1>5, <2>2
  <2>3. CASE o = n + 2 /\ Len(m) = 2
    BY <1>4, <1>5, <2>3
  <2> QED
    BY <1>6, <2>1, <2>2, <2>3
<1>8. Parts(of)
  <2> SUFFICES ASSUME NEW o \in 1..Len(of), of[o].part # 0
               PROVE  /\ of[o].part \in 1..Len(of) /\ of[of[o].part].class = "kernel"
                      /\ of[of[o].part].by = of[o].by
    BY DEF Parts
  <2>1. CASE o \in 1..n
    <3> DEFINE p == ob[o].part
    <3>1. of[o] = ob[o] /\ p \in 1..n /\ ob[p].class = "kernel" /\ ob[p].by = ob[o].by
      BY <1>2, <2>1 DEF Held, Parts, n
    <3> QED
      BY <1>1, <1>2, <3>1
  <2>2. CASE o = n + 1
    BY <1>4, <1>5, <2>2
  <2>3. CASE o = n + 2 /\ Len(m) = 2
    BY <1>1, <1>4, <1>5, <2>3
  <2> QED
    BY <1>6, <2>1, <2>2, <2>3
<1>9. Enders(of)
  <2> SUFFICES ASSUME NEW o \in 1..Len(of)
               PROVE  /\ of[o].class = "connection" => of[o].by = "cpp"
                      /\ of[o].ended => of[o].class = "connection"
    BY DEF Enders
  <2>1. CASE o \in 1..n
    BY <1>2, <2>1 DEF Held, Enders, n
  <2>2. CASE o = n + 1
    BY <1>4, <1>5, <2>2
  <2>3. CASE o = n + 2 /\ Len(m) = 2
    BY <1>4, <1>5, <2>3
  <2> QED
    BY <1>6, <2>1, <2>2, <2>3
<1>10. \A k \in 1..Len(d) : d[k].ptr \in 1..n /\ of[d[k].ptr] = ob[d[k].ptr]
  BY <1>2 DEF Held, Typed, n
<1>11. Typed(of, d)
  <2>1. \A k \in 1..Len(d) :
          /\ d[k].type \in 1..4 /\ d[k].meta = ob[d[k].ptr].class
          /\ TypeInitial[d[k].type].class = d[k].meta
    BY DEF Held, Typed
  <2>2. \A k \in 1..Len(d) : d[k].ptr \in 1..Len(of)
    BY <1>1, <1>10
  <2> QED
    BY <1>10, <2>1, <2>2 DEF Typed
<1>12. Single(of, d)
  BY <1>10 DEF Held, Single
<1>13. n + 1 \in 1..Len(of)
  BY <1>1, <1>4
<1> QED
  BY <1>4, <1>5, <1>7, <1>8, <1>9, <1>11, <1>12, <1>13 DEF Held, of, n

LEMMA MadeExcused ==
  ASSUME NEW ob \in Seq(Objs), NEW m \in Seq(Objs), Parts(ob),
         NEW w, AllExcused(ob, w)
  PROVE  AllExcused(ob \o m, w)
<1> SUFFICES ASSUME NEW o \in w PROVE o \in 1..Len(ob \o m) /\ Excused(ob \o m, o)
  BY DEF AllExcused
<1>1. o \in 1..Len(ob) /\ Excused(ob, o)
  BY DEF AllExcused
<1>2. ob[o].part # 0 => ob[o].part \in 1..Len(ob)
  BY <1>1 DEF Parts
<1>3. /\ Len(ob) \in Nat /\ Len(m) \in Nat /\ Len(ob \o m) = Len(ob) + Len(m)
      /\ \A q \in 1..Len(ob) : (ob \o m)[q] = ob[q]
  BY Extended
<1> QED
  BY <1>1, <1>2, <1>3 DEF Excused

(* A userdata is made.                                                     *)
LEMMA AppendHeld ==
  ASSUME NEW ob, NEW d, IsList(d), Held(ob, d), NEW x,
         x.type \in 1..4, x.ptr \in 1..Len(ob), x.meta = ob[x.ptr].class,
         TypeInitial[x.type].class = x.meta,
         \/ ob[x.ptr].by # "lua"
         \/ ob[x.ptr].part # 0
         \/ \A k \in 1..Len(d) : d[k].ptr # x.ptr
  PROVE  Held(ob, Append(d, x))
<1> DEFINE e == Append(d, x)
           n == Len(d)
<1>1. n \in Nat /\ Len(e) = n + 1 /\ e[n + 1] = x /\ \A k \in 1..n : e[k] = d[k]
  BY ListDomain, ListAppend
<1>2. \A k \in 1..n : /\ d[k].type \in 1..4 /\ d[k].ptr \in 1..Len(ob)
                       /\ d[k].meta = ob[d[k].ptr].class
                       /\ TypeInitial[d[k].type].class = d[k].meta
  BY DEF Held, Typed
<1>3. \A j, k \in 1..n :
        d[j].ptr = d[k].ptr /\ ob[d[k].ptr].by = "lua" /\ ob[d[k].ptr].part = 0 => j = k
  BY DEF Held, Single
<1>4. \/ ob[x.ptr].by # "lua"
      \/ ob[x.ptr].part # 0
      \/ \A k \in 1..n : d[k].ptr # x.ptr
  OBVIOUS
<1> HIDE DEF e, n
<1>5. \A k \in 1..Len(e) : k \in 1..n \/ k = n + 1
  BY <1>1
<1>6. Typed(ob, e)
  BY <1>1, <1>2, <1>5 DEF Typed
<1>7. Single(ob, e)
  <2> SUFFICES ASSUME NEW j \in 1..Len(e), NEW k \in 1..Len(e), e[j].ptr = e[k].ptr,
                      ob[e[k].ptr].by = "lua", ob[e[k].ptr].part = 0
               PROVE  j = k
    BY DEF Single
  <2>1. CASE j \in 1..n /\ k \in 1..n
    BY <1>1, <1>3, <2>1
  <2>2. CASE j = n + 1 /\ k \in 1..n
    BY <1>1, <1>4, <2>2
  <2>3. CASE j \in 1..n /\ k = n + 1
    BY <1>1, <1>4, <2>3
  <2> QED
    BY <1>5, <2>1, <2>2, <2>3
<1> QED
  BY <1>6, <1>7 DEF Held, e

(***************************************************************************)
(* The look-up of a type.  A readable name is found by its class: the      *)
(* search by halves never meets it, however the names are ordered.         *)
(***************************************************************************)
Halves(name, f, p) ==
  LET l == p[1]
      r == p[2]
      i == (l + r) \div 2
      other == types[i + 1].name
  IN  CASE l > r -> 0
        [] l <= r /\ name = other -> i + 1
        [] l <= r /\ Less(name, other) -> IF i = 0 THEN 0 ELSE f[<<l, i - 1>>]
        [] OTHER -> f[<<i + 1, r>>]

Bounds == (0..Len(types)) \X (0..(Len(types) - 1))
IsSearch(name, f) == f = [p \in Bounds |-> Halves(name, f, p)]

LEMMA Four ==
  \A a, b, c, d : LET s == <<a, b, c, d>>
                   IN  Len(s) = 4 /\ s # <<>>
                       /\ s[1] = a /\ s[2] = b /\ s[3] = c /\ s[4] = d
OBVIOUS

LEMMA TypeTable ==
  ASSUME types = TypeInitial
  PROVE  /\ Len(types) = 4 /\ types # <<>>
         /\ types[1].class = "connection" /\ types[2].class = "kernel"
         /\ types[3].class = "kernel_cfg_t" /\ types[4].class = "string"
         /\ types[1].name = "_p_grind__connection" /\ types[2].name = "_p_grind__kernel"
         /\ types[3].name = "_p_grind__kernel_cfg_t" /\ types[4].name = "_p_std__string"
         /\ types[1].str = {"grind::connection *"} /\ types[2].str = {"grind::kernel *"}
         /\ types[3].str = {"grind::kernel_cfg_t *"}
         /\ types[4].str = {"std::string *", "string_t *"}
         /\ \A t \in 1..4 : types[t].cast = {types[t].name}
<1> DEFINE a == Type("connection", "_p_grind__connection", {"grind::connection *"})
           b == Type("kernel", "_p_grind__kernel", {"grind::kernel *"})
           c == Type("kernel_cfg_t", "_p_grind__kernel_cfg_t", {"grind::kernel_cfg_t *"})
           d == Type("string", "_p_std__string", {"std::string *", "string_t *"})
<1>1. types = <<a, b, c, d>>
  BY DEF TypeInitial
<1>2. /\ a.class = "connection" /\ a.name = "_p_grind__connection"
      /\ a.str = {"grind::connection *"} /\ a.cast = {"_p_grind__connection"}
  BY DEF Type
<1>3. /\ b.class = "kernel" /\ b.name = "_p_grind__kernel"
      /\ b.str = {"grind::kernel *"} /\ b.cast = {"_p_grind__kernel"}
  BY DEF Type
<1>4. /\ c.class = "kernel_cfg_t" /\ c.name = "_p_grind__kernel_cfg_t"
      /\ c.str = {"grind::kernel_cfg_t *"} /\ c.cast = {"_p_grind__kernel_cfg_t"}
  BY DEF Type
<1>5. /\ d.class = "string" /\ d.name = "_p_std__string"
      /\ d.str = {"std::string *", "string_t *"} /\ d.cast = {"_p_std__string"}
  BY DEF Type
<1> HIDE DEF a, b, c, d
<1>6. /\ Len(types) = 4 /\ types # <<>>
      /\ types[1] = a /\ types[2] = b /\ types[3] = c /\ types[4] = d
  BY <1>1, Four
<1>7. \A t \in 1..4 : types[t].cast = {types[t].name}
  <2> SUFFICES ASSUME NEW t \in 1..4 PROVE types[t].cast = {types[t].name}
    OBVIOUS
  <2>1. CASE t = 1
    BY <1>2, <1>6, <2>1, Zenon
  <2>2. CASE t = 2
    BY <1>3, <1>6, <2>2, Zenon
  <2>3. CASE t = 3
    BY <1>4, <1>6, <2>3, Zenon
  <2>4. CASE t = 4
    BY <1>5, <1>6, <2>4, Zenon
  <2> QED
    BY <2>1, <2>2, <2>3, <2>4
<1> QED
  BY <1>2, <1>3, <1>4, <1>5, <1>6, <1>7, Zenon

LEMMA MangledQuery ==
  ASSUME NEW name, types # <<>>
  PROVE  MangledTypeQuery(name) = (CHOOSE f : IsSearch(name, f))[<<0, Len(types) - 1>>]
BY DEF MangledTypeQuery, IsSearch, Halves, Bounds

LEMMA NotMangled ==
  ASSUME types = TypeInitial, NEW name, \A t \in 1..4 : name # types[t].name
  PROVE  MangledTypeQuery(name) = 0
<1> DEFINE zero == [p \in Bounds |-> 0]
           search == CHOOSE f : IsSearch(name, f)
<1>1. Len(types) = 4 /\ types # <<>>
  BY TypeTable
<1>2. ~\E other : Less(name, other)
  BY <1>1 DEF Less
<1>3. \A f : \A l \in 0..4, r \in 0..3 :
        Halves(name, f, <<l, r>>) = IF l > r THEN 0 ELSE f[<<((l + r) \div 2) + 1, r>>]
  <2> SUFFICES ASSUME NEW f, NEW l \in 0..4, NEW r \in 0..3
               PROVE  Halves(name, f, <<l, r>>)
                        = IF l > r THEN 0 ELSE f[<<((l + r) \div 2) + 1, r>>]
    OBVIOUS
  <2> DEFINE i == (l + r) \div 2
             other == types[i + 1].name
  <2>1. Halves(name, f, <<l, r>>)
          = CASE l > r -> 0
              [] l <= r /\ name = other -> i + 1
              [] l <= r /\ Less(name, other) -> IF i = 0 THEN 0 ELSE f[<<l, i - 1>>]
              [] OTHER -> f[<<i + 1, r>>]
    BY DEF Halves
  <2>2. l <= r => i + 1 \in 1..4
    OBVIOUS
  <2>3. l <= r => name # other
    BY <2>2
  <2>4. ~Less(name, other)
    BY <1>2
  <2> HIDE DEF i, other
  <2>5. Halves(name, f, <<l, r>>) = IF l > r THEN 0 ELSE f[<<i + 1, r>>]
    BY <2>1, <2>3, <2>4
  <2> QED
    BY <2>5 DEF i
<1>4. Bounds = (0..4) \X (0..3)
  BY <1>1 DEF Bounds
<1>5. \A p \in Bounds : zero[p] = 0
  OBVIOUS
<1>6. \A l \in 0..4, r \in 0..3 : l <= r => ((l + r) \div 2) + 1 \in 0..4
  OBVIOUS
<1>7. \A p \in Bounds : Halves(name, zero, p) = 0
  <2> HIDE DEF zero
  <2> SUFFICES ASSUME NEW l \in 0..4, NEW r \in 0..3
               PROVE  Halves(name, zero, <<l, r>>) = 0
    BY <1>4
  <2>1. CASE l > r
    BY <1>3, <2>1
  <2>2. CASE l <= r
    <3>1. <<((l + r) \div 2) + 1, r>> \in Bounds
      BY <1>4, <1>6, <2>2
    <3> QED
      BY <1>3, <1>5, <2>2, <3>1
  <2> QED
    BY <2>1, <2>2
<1>8. IsSearch(name, zero)
  <2>1. zero = [p \in Bounds |-> Halves(name, zero, p)]
    BY <1>7
  <2> QED
    BY <2>1 DEF IsSearch
<1>9. IsSearch(name, search)
  <2> HIDE DEF zero
  <2> QED
    BY <1>8, Zenon DEF search
<1> HIDE DEF search, zero
<1>10. \A l \in 0..4, r \in 0..3 : search[<<l, r>>] = Halves(name, search, <<l, r>>)
  BY <1>4, <1>9 DEF IsSearch
<1>11. \A l \in 0..4, r \in 0..3 :
         search[<<l, r>>] = IF l > r THEN 0 ELSE search[<<((l + r) \div 2) + 1, r>>]
  BY <1>3, <1>10
<1>12. search[<<4, 3>>] = 0
  BY <1>11
<1>13. search[<<3, 3>>] = 0
  BY <1>11, <1>12
<1>14. search[<<2, 3>>] = 0
  BY <1>11, <1>13
<1>15. search[<<0, 3>>] = 0
  BY <1>11, <1>14
<1> QED
  BY <1>1, <1>15, MangledQuery DEF search

LEMMA Pushed ==
  ASSUME types = TypeInitial
  PROVE  TypeQuery("grind::kernel *") = 2 /\ TypeQuery("grind::connection *") = 1
<1> DEFINE Only(name, t) == \A k \in 1..4 : /\ name # types[k].name
                                           /\ (name \in types[k].str <=> k = t)
<1>1. ASSUME NEW name, NEW t \in 1..4, Only(name, t)
      PROVE  TypeQuery(name) = t
  <2> DEFINE named == {i \in 1..Len(types) : name \in types[i].str}
  <2>a. \A k \in 1..4 : name # types[k].name
    BY <1>1
  <2>b. \A k \in 1..4 : name \in types[k].str <=> k = t
    BY <1>1
  <2>1. MangledTypeQuery(name) = 0
    BY <2>a, NotMangled
  <2>c. 1..Len(types) = 1..4
    BY TypeTable
  <2>2. named = {t}
    BY <2>b, <2>c
  <2>3. TypeQuery(name) = IF named = {} THEN 0 ELSE CHOOSE i \in named : \A j \in named : i <= j
    BY <2>1 DEF TypeQuery
  <2> HIDE DEF named
  <2>4. (CHOOSE i \in named : \A j \in named : i <= j) = t
    BY <2>2
  <2> QED
    BY <2>2, <2>3, <2>4
<1>2. \A t \in 1..4 : t = 1 \/ t = 2 \/ t = 3 \/ t = 4
  OBVIOUS
<1>e. 1 \in 1..4 /\ 2 \in 1..4
  OBVIOUS
<1>3. TypeQuery("grind::kernel *") = 2
  <2> DEFINE name == "grind::kernel *"
  <2>1. ASSUME NEW k \in 1..4 PROVE name # types[k].name
    <3>1. /\ name # types[1].name /\ name # types[2].name
          /\ name # types[3].name /\ name # types[4].name
      BY TypeTable
    <3> QED
      BY <1>2, <3>1
  <2>2. ASSUME NEW k \in 1..4 PROVE name \in types[k].str <=> k = 2
    <3>1. name \in types[2].str
      BY TypeTable
    <3>2. name \notin types[1].str /\ name \notin types[3].str /\ name \notin types[4].str
      BY TypeTable
    <3> QED
      BY <1>2, <3>1, <3>2
  <2>3. Only("grind::kernel *", 2)
    BY <2>1, <2>2
  <2> HIDE DEF Only
  <2> QED
    BY <1>e, <1>1, <2>3
<1>4. TypeQuery("grind::connection *") = 1
  <2> DEFINE name == "grind::connection *"
  <2>1. ASSUME NEW k \in 1..4 PROVE name # types[k].name
    <3>1. /\ name # types[1].name /\ name # types[2].name
          /\ name # types[3].name /\ name # types[4].name
      BY TypeTable
    <3> QED
      BY <1>2, <3>1
  <2>2. ASSUME NEW k \in 1..4 PROVE name \in types[k].str <=> k = 1
    <3>1. name \in types[1].str
      BY TypeTable
    <3>2. name \notin types[2].str /\ name \notin types[3].str /\ name \notin types[4].str
      BY TypeTable
    <3> QED
      BY <1>2, <3>1, <3>2
  <2>3. Only("grind::connection *", 1)
    BY <2>1, <2>2
  <2> HIDE DEF Only
  <2> QED
    BY <1>e, <1>1, <2>3
<1> QED
  BY <1>3, <1>4

\* A class has one type, and only it is cast to it.
TypeOf(c) == CHOOSE t \in 1..Len(types) : types[t].class = c

LEMMA OneType ==
  ASSUME types = TypeInitial, NEW c \in Kinds
  PROVE  TypeOf(c) \in 1..4 /\ types[TypeOf(c)].class = c
<1>1. \E t \in 1..Len(types) : types[t].class = c
  <2>1. 1 \in 1..4 /\ 2 \in 1..4 /\ 3 \in 1..4 /\ 4 \in 1..4
    OBVIOUS
  <2>2. c = "connection" \/ c = "kernel" \/ c = "kernel_cfg_t" \/ c = "string"
    BY DEF Kinds
  <2>3. 1..Len(types) = 1..4
    BY TypeTable
  <2>4. /\ types[1].class = "connection" /\ types[2].class = "kernel"
        /\ types[3].class = "kernel_cfg_t" /\ types[4].class = "string"
    BY TypeTable
  <2> QED
    BY <2>1, <2>2, <2>3, <2>4, Zenon
<1> QED
  BY <1>1, TypeTable DEF TypeOf

LEMMA CastToItself ==
  ASSUME types = TypeInitial, NEW from \in 1..4, NEW to \in 1..4, TypeCheckStruct(from, to)
  PROVE  from = to
<1>1. types[from].name = types[to].name
  <2>1. types[from].name \in types[to].cast
    BY DEF TypeCheckStruct
  <2>2. types[to].cast = {types[to].name}
    BY TypeTable
  <2> QED
    BY <2>1, <2>2
<1>2. \A t \in 1..4 : t = 1 \/ t = 2 \/ t = 3 \/ t = 4
  OBVIOUS
<1>e. 1 \in 1..4 /\ 2 \in 1..4
  OBVIOUS
<1>3. from = 1 \/ from = 2 \/ from = 3 \/ from = 4
  BY <1>2
<1>4. to = 1 \/ to = 2 \/ to = 3 \/ to = 4
  BY <1>2
<1> DEFINE n == types
<1>5. /\ n[1].name # n[2].name /\ n[1].name # n[3].name /\ n[1].name # n[4].name
      /\ n[2].name # n[3].name /\ n[2].name # n[4].name /\ n[3].name # n[4].name
  BY TypeTable
<1> QED
  BY <1>1, <1>3, <1>4, <1>5

(***************************************************************************)
(* The invariant.                                                          *)
(***************************************************************************)
Tables == \/ (types = <<>> /\ classes = {} /\ Live = {})
          \/ (types = TypeInitial /\ classes = Kinds /\ lua = "open")

BindInv == /\ OwnInv /\ Tables /\ Held(objs, data)
           /\ strange = {} /\ AllExcused(objs, wild)

LEMMA Sizes ==
  ASSUME BindInv
  PROVE  /\ objs \in Seq(Objs) /\ Len(objs) \in Nat /\ Objects = 1..Len(objs)
         /\ IsList(data) /\ Len(data) \in Nat /\ Live \subseteq 1..Len(data)
<1>1. objs \in Seq(Objs) /\ IsList(data)
  BY DEF BindInv, OwnInv, Good, Records
<1> QED
  BY <1>1, LenProperties, ListDomain DEF Objects, Live

LEMMA LiveTables ==
  ASSUME BindInv, NEW i \in Live
  PROVE  /\ types = TypeInitial /\ classes = Kinds
         /\ i \in 1..Len(data) /\ data[i].there
         /\ data[i].ptr \in 1..Len(objs) /\ data[i].type \in 1..4
         /\ data[i].meta = objs[data[i].ptr].class
         /\ types[data[i].type].class = data[i].meta
<1>1. types = TypeInitial /\ classes = Kinds
  BY DEF BindInv, Tables
<1>2. i \in 1..Len(data) /\ data[i].there
  BY DEF Live
<1> QED
  BY <1>1, <1>2 DEF BindInv, Held, Typed

\* What the collector has freed was made by a script, and its owner is gone.
LEMMA FreedByScript ==
  ASSUME BindInv, NEW o \in 1..Len(objs), objs[o].freed > 0
  PROVE  objs[o].by = "lua" /\ \E k \in 1..Len(data) : data[k].ptr = o /\ ~data[k].there
<1>1. objs[o].freed = Cardinality(Past(data, o))
  BY DEF BindInv, OwnInv, Good, Counted
<1>2. Past(data, o) # {}
  <2> SUFFICES ASSUME Past(data, o) = {} PROVE FALSE
    OBVIOUS
  <2>1. objs[o].freed = 0
    BY <1>1, FS_EmptySet
  <2> QED
    BY <2>1
<1>3. PICK k : k \in Past(data, o)
  BY <1>2
<1>4. k \in 1..Len(data) /\ data[k].ptr = o /\ data[k].own /\ ~data[k].there
  BY <1>3 DEF Past
<1>5. objs[o].by = "lua"
  BY <1>4 DEF BindInv, OwnInv, Good, Owners
<1> QED
  BY <1>4, <1>5

\* A userdata that is there points to an object that has ended only as
\* UsesAccounted says.
LEMMA LiveExcused ==
  ASSUME BindInv, NEW i \in Live, Ended(data[i].ptr)
  PROVE  Excused(objs, data[i].ptr)
<1> DEFINE o == data[i].ptr
           p == objs[o].part
<1>1. i \in 1..Len(data) /\ data[i].there /\ o \in 1..Len(objs)
  BY LiveTables
<1>2. p # 0 => /\ p \in 1..Len(objs) /\ objs[p].class = "kernel"
               /\ objs[p].by = objs[o].by
  BY <1>1 DEF BindInv, Held, Parts
<1>3. \A q \in 1..Len(objs) : objs[q].ended => objs[q].class = "connection"
  BY DEF BindInv, Held, Enders
<1>4. \/ objs[o].ended \/ objs[o].freed > 0
      \/ (p # 0 /\ (objs[p].ended \/ objs[p].freed > 0))
  BY DEF Ended, Gone
<1>5. CASE objs[o].ended
  BY <1>1, <1>5 DEF BindInv, Held, Enders, Excused
<1>6. CASE objs[o].freed > 0
  <2>1. PICK k \in 1..Len(data) : data[k].ptr = o /\ ~data[k].there
    BY <1>1, <1>6, FreedByScript
  <2>2. objs[o].by = "lua"
    BY <1>1, <1>6, FreedByScript
  <2>3. CASE p = 0
    <3>1. k = i
      BY <1>1, <2>1, <2>2, <2>3 DEF BindInv, Held, Single
    <3> QED
      BY <1>1, <2>1, <3>1
  <2>4. CASE p # 0
    BY <1>2, <2>2, <2>4 DEF Excused
  <2> QED
    BY <2>3, <2>4
<1>7. CASE p # 0 /\ (objs[p].ended \/ objs[p].freed > 0)
  <2>1. ~objs[p].ended
    BY <1>2, <1>3, <1>7
  <2>2. objs[p].by = "lua"
    BY <1>2, <1>7, <2>1, FreedByScript
  <2> QED
    BY <1>7, <2>2 DEF Excused
<1> QED
  BY <1>4, <1>5, <1>6, <1>7

(***************************************************************************)
(* What wrappers use: the object of a userdata that is there, as what it   *)
(* is.                                                                     *)
(***************************************************************************)
Proper(use) == \E i \in Live : use = <<data[i].ptr, data[i].meta>>

LEMMA ConvertedUse ==
  ASSUME BindInv, NEW v \in Scalars \cup Selves, NEW c, ConvertPtr(v, c)
  PROVE  \A use \in UseOf(v, c) : Proper(use)
<1> SUFFICES ASSUME NEW use \in UseOf(v, c) PROVE Proper(use)
  OBVIOUS
<1>1. v.is = "userdata" /\ use = <<Pointer(v), c>>
  BY DEF UseOf
<1>2. PICK i \in Live : v = Data(i)
  <2>1. \A u \in Scalars : u.is # "userdata"
    BY DEF Scalars
  <2>2. Nil.is # "userdata"
    BY DEF Nil
  <2> QED
    BY <1>1, <2>1, <2>2 DEF Selves
<1>3. v.u = i /\ v.is = "userdata" /\ Pointer(v) = data[i].ptr
  BY <1>2 DEF Data, Pointer
<1>4. PICK to \in 1..Len(types) : types[to].class = c /\ TypeCheckStruct(data[i].type, to)
  BY <1>3 DEF ConvertPtr
<1>5. /\ types = TypeInitial /\ data[i].type \in 1..4
      /\ types[data[i].type].class = data[i].meta
  BY LiveTables
<1>6. to \in 1..4
  BY <1>5, TypeTable
<1>7. data[i].type = to
  BY <1>4, <1>5, <1>6, CastToItself
<1> QED
  BY <1>1, <1>3, <1>4, <1>5, <1>7 DEF Proper

LEMMA UsesKeep ==
  ASSUME BindInv, NEW uses, NEW null, Applies(uses, null), \A use \in uses : Proper(use)
  PROVE  strange' = {} /\ AllExcused(objs, wild')
<1> DEFINE freed == {use[1] : use \in {x \in uses : Ended(x[1])}}
           odd == {use \in uses : objs[use[1]].class # use[2]}
<1>1. wild' = wild \/ wild' = wild \cup freed
  BY DEF Applies
<1>2. strange' = strange \cup odd
  BY DEF Applies
<1>3. ASSUME NEW use \in uses
      PROVE  \E i \in Live : use[1] = data[i].ptr /\ use[2] = data[i].meta
  BY <1>3 DEF Proper
<1>4. odd = {}
  <2> SUFFICES ASSUME NEW use \in uses PROVE objs[use[1]].class = use[2]
    OBVIOUS
  <2> QED
    BY <1>3, LiveTables
<1>5. ASSUME NEW o \in freed
      PROVE  o \in 1..Len(objs) /\ Excused(objs, o)
  <2>1. PICK use \in uses : Ended(use[1]) /\ o = use[1]
    OBVIOUS
  <2>2. PICK i \in Live : use[1] = data[i].ptr
    BY <1>3
  <2> QED
    BY <2>1, <2>2, LiveExcused, LiveTables
<1> HIDE DEF freed, odd
<1>6. AllExcused(objs, wild) /\ strange = {}
  BY DEF BindInv
<1>7. AllExcused(objs, wild')
  BY <1>1, <1>5, <1>6 DEF AllExcused
<1> QED
  BY <1>2, <1>4, <1>6, <1>7

(***************************************************************************)
(* One step.                                                               *)
(***************************************************************************)
LEMMA FittingUse ==
  ASSUME BindInv, NEW v \in Scalars \cup Selves, NEW kind, Fits(v, kind)
  PROVE  \A use \in UseOf(v, kind) : Proper(use)
<1>1. CASE v.is # "userdata"
  BY <1>1 DEF UseOf
<1>2. CASE v.is = "userdata"
  <2>1. ~IsString(v) /\ ~IsNilString(v) /\ ~IsNumber(v)
    BY <1>2 DEF IsString, IsNilString, IsNumber, StringKinds
  <2>2. ConvertPtr(v, kind)
    BY <2>1 DEF Fits
  <2> QED
    BY <2>2, ConvertedUse
<1> QED
  BY <1>1, <1>2

LEMMA CfgIsOfKernel ==
  ASSUME NEW m \in Kinds, "cfg" \in Attributes(m)
  PROVE  m = "kernel"
<1>1. m # None
  BY DEF Kinds, None
<1>2. "cfg" \in DOMAIN Class[m].attributes
  BY <1>1 DEF Attributes
<1>3. CASE m = "connection"
  <2>1. Class[m].attributes = [n \in {} |-> None]
    BY <1>3 DEF Class, ConnectionClass
  <2> QED
    BY <1>2, <2>1
<1>4. CASE m = "kernel_cfg_t"
  <2>1. DOMAIN Class[m].attributes = DOMAIN InterfaceAttributes \cup DOMAIN OtherAttributes
    BY <1>4 DEF Class, CfgClass
  <2>2. "cfg" \notin DOMAIN InterfaceAttributes
    BY DEF InterfaceAttributes
  <2>3. "cfg" \notin DOMAIN OtherAttributes
    BY DEF OtherAttributes
  <2> QED
    BY <1>2, <2>1, <2>2, <2>3
<1>5. CASE m = "string"
  <2>1. Class[m].attributes = [n \in {} |-> None]
    BY <1>5 DEF Class, StringClass
  <2> QED
    BY <1>2, <2>1
<1> QED
  BY <1>3, <1>4, <1>5 DEF Kinds

\* A userdata that owns nothing, to an object that has it or C++ made.
LEMMA PointerHeld ==
  ASSUME BindInv, types = TypeInitial, NEW o \in 1..Len(objs), NEW t \in 1..4,
         NewPointerObj(o, t, FALSE), types[t].class = objs[o].class, objs[o].class \in Kinds,
         objs[o].by # "lua" \/ objs[o].part # 0
  PROVE  Held(objs, data')
<1> DEFINE x == Userdata(o, t, FALSE)
<1>1. data' = Append(data, x)
  BY DEF NewPointerObj, Userdata
<1>2. classes = Kinds
  <2>1. types # <<>>
    BY TypeTable
  <2> QED
    BY <2>1 DEF BindInv, Tables
<1>3. Metatable(t) = objs[o].class
  BY <1>2 DEF Metatable
<1>4. x.type = t /\ x.ptr = o /\ x.meta = objs[o].class
  <2>1. x.type = t /\ x.ptr = o /\ x.meta = Metatable(t)
    BY DEF Userdata
  <2> QED
    BY <1>3, <2>1
<1> HIDE DEF x
<1>5. TypeInitial[x.type].class = x.meta
  BY <1>4
<1> QED
  BY <1>1, <1>4, <1>5, Sizes, AppendHeld DEF BindInv

LEMMA CollectedHeld ==
  ASSUME BindInv, NEW S \in SUBSET Live, Collected(S)
  PROVE  Held(objs', data') /\ AllExcused(objs', wild)
<1>1. Live = {k \in 1..Len(data) : data[k].there}
  BY DEF Live
<1>2. objs' = Freed(objs, data, S) /\ data' = Dropped(data, S)
  BY DEF Collected, ClassDestruct, Objects, Freed, Freeing, Dropped
<1>3. Good(objs, data) /\ S \in SUBSET (1..Len(data))
  BY <1>1 DEF BindInv, OwnInv
<1>4. AlikeData(data, Dropped(data, S))
  <2>1. /\ Len(Dropped(data, S)) = Len(data)
        /\ \A k \in 1..Len(data) :
             /\ Dropped(data, S)[k].ptr = data[k].ptr
             /\ Dropped(data, S)[k].meta = data[k].meta
             /\ Dropped(data, S)[k].type = data[k].type
    BY <1>3, DroppedData
  <2> QED
    BY <2>1 DEF AlikeData
<1>5. Alike(objs, Freed(objs, data, S))
  <2> DEFINE of == Freed(objs, data, S)
  <2>1. of \in Seq(Objs)
    BY <1>1, <1>3, CollectKeeps DEF Good, Records
  <2>2. DOMAIN of = 1..Len(objs)
    BY DEF Freed
  <2>3. Len(of) = Len(objs)
    BY <2>1, <2>2, Sizes, LenProperties
  <2>4. ASSUME NEW o \in 1..Len(objs)
        PROVE  /\ of[o].class = objs[o].class /\ of[o].by = objs[o].by
               /\ of[o].part = objs[o].part /\ of[o].ended = objs[o].ended
    <3> DEFINE n == objs[o].freed + Cardinality(Freeing(data, S, o))
    <3>1. of[o] = [objs[o] EXCEPT !.freed = n]
      BY DEF Freed
    <3>2. objs[o] \in Objs
      BY Sizes
    <3> HIDE DEF of, n
    <3> QED
      BY <3>1, <3>2 DEF Objs
  <2> HIDE DEF of
  <2> QED
    BY <2>3, <2>4 DEF Alike, of
<1>6. Held(objs, data) /\ AllExcused(objs, wild) /\ Parts(objs)
  BY DEF BindInv, Held
<1>7. Held(Freed(objs, data, S), Dropped(data, S))
  BY <1>4, <1>5, <1>6, AlikeHeld
<1>8. AllExcused(Freed(objs, data, S), wild)
  BY <1>5, <1>6, AlikeExcused
<1> QED
  BY <1>2, <1>7, <1>8

LEMMA MadeMakes ==
  ASSUME NEW c \in Kinds, NEW by
  PROVE  Makes(objs, Made(c, by), c, by)
BY DEF Makes, Made

LEMMA ConstructsHeld ==
  ASSUME BindInv, NEW c \in Constructible, Constructs(c)
  PROVE  BindInv'
<1>1. OwnInv'
  BY ConstructsKeeps DEF BindInv
<1>2. /\ UNCHANGED <<lua, types, classes, wild, strange>> /\ c \in classes
      /\ c \in Kinds /\ c # "connection"
  BY DEF Constructs, Constructible, Kinds
<1>3. types = TypeInitial /\ classes = Kinds /\ lua = "open"
  BY <1>2 DEF BindInv, Tables
<1>4. Tables'
  BY <1>2, <1>3 DEF Tables
<1>5. CASE UNCHANGED <<objs, data>>
  BY <1>1, <1>2, <1>4, <1>5 DEF BindInv
<1>6. CASE ~UNCHANGED <<objs, data>>
  <2> DEFINE t == TypeOf(c)
             m == Made(c, "lua")
             of == objs \o m
             x == Userdata(Len(objs) + 1, t, TRUE)
  <2>1. objs' = of /\ data' = Append(data, x)
    BY <1>6 DEF Constructs, NewPointerObj, Userdata, TypeOf
  <2>2. t \in 1..4 /\ types[t].class = c
    BY <1>2, <1>3, OneType
  <2>3. m \in Seq(Objs)
    BY <1>2, MadeObjects DEF BindInv, OwnInv
  <2>4. objs \in Seq(Objs) /\ Len(objs) \in Nat /\ IsList(data)
    BY Sizes
  <2>5. Makes(objs, m, c, "lua")
    BY <1>2, MadeMakes
  <2>6. x.type = t /\ x.ptr = Len(objs) + 1 /\ x.meta = c
    <3>1. x.type = t /\ x.ptr = Len(objs) + 1 /\ x.meta = Metatable(t)
      BY DEF Userdata
    <3>2. Metatable(t) = c
      BY <1>2, <2>2 DEF Metatable
    <3> QED
      BY <3>1, <3>2
  <2>7. Held(objs, data) /\ AllExcused(objs, wild) /\ Parts(objs) /\ strange = {}
    BY DEF BindInv, Held
  <2> HIDE DEF m, x, t
  <2>8. /\ Held(of, data) /\ Len(objs) + 1 \in 1..Len(of)
        /\ of[Len(objs) + 1].class = c
    BY <1>2, <2>3, <2>4, <2>5, <2>7, MadeHeld
  <2>9. AllExcused(of, wild)
    BY <2>3, <2>4, <2>7, MadeExcused
  <2> HIDE DEF of
  <2>10. \A k \in 1..Len(data) : data[k].ptr # x.ptr
    <3>1. \A k \in 1..Len(data) : data[k].ptr \in 1..Len(objs)
      BY <2>7 DEF Held, Typed
    <3> QED
      BY <2>4, <2>6, <3>1
  <2>11. TypeInitial[x.type].class = x.meta /\ x.meta = of[x.ptr].class
    BY <1>3, <2>2, <2>6, <2>8
  <2>12. Held(of, Append(data, x))
    BY <2>2, <2>4, <2>6, <2>8, <2>10, <2>11, AppendHeld
  <2>13. Held(objs, data)' /\ AllExcused(objs, wild)' /\ strange' = {}
    BY <1>2, <2>1, <2>7, <2>9, <2>12
  <2> QED
    BY <1>1, <1>4, <2>13 DEF BindInv
<1> QED
  BY <1>5, <1>6

LEMMA ScriptHeld == BindInv /\ Script => BindInv'
<1> SUFFICES ASSUME BindInv, Script PROVE BindInv'
  OBVIOUS
<1>1. OwnInv'
  BY ScriptKeeps DEF BindInv
<1>2. Held(objs, data) /\ AllExcused(objs, wild) /\ strange = {} /\ Tables
  BY DEF BindInv
<1>3. ASSUME NEW i \in Live, Collect(i) PROVE BindInv'
  <2>1. /\ UNCHANGED <<lua, types, classes, wild, strange>> /\ Collected({i})
    BY <1>3 DEF Collect
  <2>2. {i} \in SUBSET Live
    OBVIOUS
  <2>3. Held(objs', data') /\ AllExcused(objs', wild)
    BY <2>1, <2>2, CollectedHeld
  <2>4. Tables'
    BY <1>2, <2>1, LiveTables DEF Tables
  <2> QED
    BY <1>1, <1>2, <2>1, <2>3, <2>4 DEF BindInv
<1>4. ASSUME NEW i \in Live, Disown(i) PROVE BindInv'
  <2>1. /\ UNCHANGED <<lua, types, classes, objs, wild, strange>>
        /\ data' = [data EXCEPT ![i].own = FALSE]
    BY <1>4 DEF Disown
  <2>2. /\ IsList(data) /\ DOMAIN data = 1..Len(data) /\ Len(data) \in Nat
        /\ i \in 1..Len(data)
    BY Sizes, ListDomain
  <2>3. IsData(data[i])
    BY <2>2 DEF BindInv, OwnInv, Good, Records
  <2> DEFINE e == [data EXCEPT ![i].own = FALSE]
  <2>4. /\ \A k \in 1..Len(data) : k # i => e[k] = data[k]
        /\ e[i].type = data[i].type /\ e[i].ptr = data[i].ptr /\ e[i].meta = data[i].meta
    BY <2>2, <2>3 DEF IsData
  <2>5. e = [k \in 1..Len(data) |-> e[k]]
    BY <2>2
  <2> HIDE DEF e
  <2>6. Len(e) = Len(data)
    BY <2>2, <2>5, ListFunction
  <2>7. AlikeData(data, e)
    BY <2>4, <2>6 DEF AlikeData
  <2>8. Alike(objs, objs)
    BY DEF Alike
  <2>9. Held(objs, e)
    BY <1>2, <2>7, <2>8, AlikeHeld
  <2>10. Tables'
    BY <1>2, <2>1, LiveTables DEF Tables
  <2> QED
    BY <1>1, <1>2, <2>1, <2>9, <2>10 DEF BindInv, e
<1>5. ASSUME NEW i \in Live, NEW key \in Attributes(data[i].meta), ClassGet(i, key)
      PROVE  BindInv'
  <2> DEFINE o == data[i].ptr
  <2>1. /\ UNCHANGED <<lua, types, classes, objs>>
        /\ Applies({<<o, data[i].meta>>}, FALSE)
    BY <1>5 DEF ClassGet
  <2>2. \/ UNCHANGED data
        \/ (key = "cfg" /\ NewPointerObj(CfgOf(o), TypeOf("kernel_cfg_t"), FALSE))
    BY <1>5 DEF ClassGet, TypeOf
  <2>3. strange' = {} /\ AllExcused(objs, wild')
    <3> DEFINE uses == {<<o, data[i].meta>>}
    <3>1. \A use \in uses : Proper(use)
      BY DEF Proper
    <3>2. Applies(uses, FALSE)
      BY <2>1
    <3> HIDE DEF uses
    <3> QED
      BY <3>1, <3>2, UsesKeep
  <2>4. /\ types = TypeInitial /\ classes = Kinds /\ o \in 1..Len(objs)
        /\ data[i].meta = objs[o].class
    BY LiveTables
  <2>5. Tables'
    BY <1>2, <2>1, LiveTables DEF Tables
  <2>6. Held(objs, data')
    <3>1. CASE UNCHANGED data
      BY <1>2, <3>1
    <3>2. CASE key = "cfg" /\ NewPointerObj(CfgOf(o), TypeOf("kernel_cfg_t"), FALSE)
      <4>1. objs[o].class \in Kinds
        <5>1. objs[o] \in Objs
          BY <2>4, Sizes
        <5> QED
          BY <5>1 DEF Objs
      <4>2. objs[o].class = "kernel"
        BY <2>4, <3>2, <4>1, CfgIsOfKernel
      <4>3. /\ CfgOf(o) \in 1..Len(objs) /\ objs[CfgOf(o)].class = "kernel_cfg_t"
            /\ objs[CfgOf(o)].part # 0
        BY <1>2, <2>4, <4>2 DEF Held, Kernels, CfgOf
      <4>4. "kernel_cfg_t" \in Kinds
        BY DEF Kinds
      <4>5. TypeOf("kernel_cfg_t") \in 1..4 /\ types[TypeOf("kernel_cfg_t")].class = "kernel_cfg_t"
        BY <2>4, <4>4, OneType
      <4> QED
        BY <2>4, <3>2, <4>3, <4>4, <4>5, PointerHeld
    <3> QED
      BY <2>2, <3>1, <3>2
  <2> QED
    BY <1>1, <2>1, <2>3, <2>5, <2>6 DEF BindInv
<1>6. ASSUME NEW i \in Live, NEW key, NEW v \in Scalars \cup Selves, ClassSet(i, key, v)
      PROVE  BindInv'
  <2> DEFINE kind == Class[data[i].meta].attributes[key]
             uses == {<<data[i].ptr, data[i].meta>>} \cup UseOf(v, kind)
  <2>1. /\ UNCHANGED <<lua, types, classes, objs, data>>
        /\ Fits(v, kind) /\ Applies(uses, v = Nil)
    BY <1>6 DEF ClassSet
  <2> HIDE DEF kind
  <2>2. \A use \in uses : Proper(use)
    <3>1. \A use \in UseOf(v, kind) : Proper(use)
      BY <2>1, FittingUse
    <3>2. Proper(<<data[i].ptr, data[i].meta>>)
      BY DEF Proper
    <3> QED
      BY <3>1, <3>2
  <2> HIDE DEF uses
  <2>3. strange' = {} /\ AllExcused(objs, wild')
    BY <2>1, <2>2, UsesKeep
  <2>4. Tables'
    BY <1>2, <2>1 DEF Tables, Live
  <2> QED
    BY <1>1, <1>2, <2>1, <2>3, <2>4 DEF BindInv
<1>7. ASSUME NEW i \in Live, NEW m, NEW self \in Selves, NEW args, Calls(i, m, self, args)
      PROVE  BindInv'
  <2> DEFINE c == data[i].meta
             null == self = Nil \/ NullString(args, Class[c].methods[m])
  <2>1. /\ UNCHANGED <<lua, types, classes, objs, data>>
        /\ ConvertPtr(self, c) /\ Applies(UseOf(self, c), null)
    BY <1>7 DEF Calls
  <2> HIDE DEF null
  <2>2. \A use \in UseOf(self, c) : Proper(use)
    BY <2>1, ConvertedUse
  <2>3. strange' = {} /\ AllExcused(objs, wild')
    BY <2>1, <2>2, UsesKeep
  <2>4. Tables'
    BY <1>2, <2>1 DEF Tables, Live
  <2> QED
    BY <1>1, <1>2, <2>1, <2>3, <2>4 DEF BindInv
<1> QED
  BY <1>3, <1>4, <1>5, <1>6, <1>7, ConstructsHeld DEF Script

LEMMA EngineHeld ==
  ASSUME BindInv, Open \/ Require \/ Close \/ \E o \in Objects : PushUserdata(o)
  PROVE  Tables' /\ Held(objs, data)' /\ strange' = {} /\ AllExcused(objs, wild)'
<1>1. Held(objs, data) /\ AllExcused(objs, wild) /\ strange = {} /\ Tables
  BY DEF BindInv
<1>2. types # <<>> => types = TypeInitial /\ classes = Kinds
  BY <1>1 DEF Tables
<1>3. CASE Open
  <2>1. UNCHANGED <<types, classes, objs, data, wild, strange>> /\ lua = "closed"
    BY <1>3 DEF Open
  <2>2. Tables'
    BY <1>1, <2>1 DEF Tables, Live
  <2> QED
    BY <1>1, <2>1, <2>2
<1>4. CASE Require
  <2>1. UNCHANGED <<lua, objs, data, wild, strange>> /\ lua = "open" /\ types' = TypeInitial
    BY <1>4 DEF Require, Running, InitializeModule
  <2>2. classes' = {TypeInitial[i].class : i \in 1..Len(TypeInitial)}
    BY <1>4 DEF Require, RegisterClasses
  <2>3. {TypeInitial[i].class : i \in 1..Len(TypeInitial)} = Kinds
    <3>1. /\ Len(TypeInitial) = 4
          /\ TypeInitial[1].class = "connection" /\ TypeInitial[2].class = "kernel"
          /\ TypeInitial[3].class = "kernel_cfg_t" /\ TypeInitial[4].class = "string"
      BY DEF TypeInitial, Type
    <3>2. \A t : t \in 1..4 <=> t = 1 \/ t = 2 \/ t = 3 \/ t = 4
      OBVIOUS
    <3> QED
      BY <3>1, <3>2 DEF Kinds
  <2>4. Tables'
    BY <2>1, <2>2, <2>3 DEF Tables
  <2> QED
    BY <1>1, <2>1, <2>4
<1>5. CASE Close
  <2>1. /\ types' = <<>> /\ classes' = {} /\ UNCHANGED <<wild, strange>> /\ Collected(Live)
    BY <1>5 DEF Close
  <2>2. Live \in SUBSET Live
    OBVIOUS
  <2>3. Held(objs', data') /\ AllExcused(objs', wild)
    BY <2>1, <2>2, CollectedHeld
  <2>4. Live' = {}
    BY <2>1, <2>2, CollectedKeeps DEF BindInv
  <2>5. Tables'
    BY <2>1, <2>4 DEF Tables
  <2> QED
    BY <1>1, <2>1, <2>3, <2>5
<1>6. ASSUME NEW o \in Objects, PushUserdata(o)
      PROVE  Tables' /\ Held(objs, data)' /\ strange' = {} /\ AllExcused(objs, wild)'
  <2>1. /\ UNCHANGED <<lua, types, classes, objs, wild, strange>> /\ lua = "open"
        /\ objs[o].by = "cpp" /\ o \in 1..Len(objs)
    BY <1>6, Sizes DEF PushUserdata, Running
  <2>2. CASE UNCHANGED data
    BY <1>1, <2>1, <2>2 DEF Tables, Live
  <2>3. CASE ~UNCHANGED data
    <3>1. PICK c \in {"kernel", "connection"} :
            /\ objs[o].class = c /\ types # <<>>
            /\ NewPointerObj(o, TypeQuery(IF c = "kernel" THEN "grind::kernel *"
                                          ELSE "grind::connection *"), FALSE)
      BY <1>6, <2>3 DEF PushUserdata
    <3> DEFINE t == TypeQuery(IF c = "kernel" THEN "grind::kernel *"
                              ELSE "grind::connection *")
    <3>2. types = TypeInitial /\ classes = Kinds
      BY <1>2, <3>1
    <3>3. (c = "kernel" /\ t = 2) \/ (c = "connection" /\ t = 1)
      BY <3>2, Pushed
    <3>4. objs[o].class \in Kinds /\ objs[o].by # "lua" /\ NewPointerObj(o, t, FALSE)
      BY <2>1, <3>1 DEF Kinds
    <3> HIDE DEF t
    <3>5. t \in 1..4
      BY <3>3
    <3>6. types[t].class = objs[o].class
      <4>1. types[1].class = "connection" /\ types[2].class = "kernel"
        BY <3>2, TypeTable
      <4> QED
        BY <3>1, <3>3, <4>1
    <3>7. Held(objs, data')
      BY <2>1, <3>2, <3>4, <3>5, <3>6, PointerHeld
    <3>8. Tables'
      BY <2>1, <3>2 DEF Tables
    <3> QED
      BY <1>1, <2>1, <3>7, <3>8
  <2> QED
    BY <2>2, <2>3
<1> QED
  BY <1>3, <1>4, <1>5, <1>6

LEMMA CppHeld ==
  ASSUME BindInv, Accept \/ \E o \in Objects : Ends(o)
  PROVE  Tables' /\ Held(objs, data)' /\ strange' = {} /\ AllExcused(objs, wild)'
<1>1. /\ Held(objs, data) /\ AllExcused(objs, wild) /\ strange = {} /\ Tables
      /\ Parts(objs) /\ objs \in Seq(Objs) /\ Len(objs) \in Nat
  BY Sizes DEF BindInv, Held
<1>2. UNCHANGED <<lua, types, classes, data, wild, strange>>
  BY DEF Accept, Ends
<1>3. Tables'
  BY <1>1, <1>2 DEF Tables, Live
<1>4. CASE Accept
  <2> DEFINE m == Made("connection", "cpp")
  <2>1. objs' = objs \o m
    BY <1>4 DEF Accept
  <2>2. "connection" \in Kinds
    BY DEF Kinds
  <2>3. m \in Seq(Objs) /\ Makes(objs, m, "connection", "cpp")
    BY <2>2, MadeObjects, MadeMakes DEF BindInv, OwnInv
  <2> HIDE DEF m
  <2>4. Held(objs \o m, data)
    BY <1>1, <2>2, <2>3, MadeHeld
  <2>5. AllExcused(objs \o m, wild)
    BY <1>1, <2>3, MadeExcused
  <2> QED
    BY <1>1, <1>2, <1>3, <2>1, <2>4, <2>5
<1>5. ASSUME NEW o \in Objects, Ends(o)
      PROVE  Held(objs, data)' /\ AllExcused(objs, wild)'
  <2> DEFINE x == [objs[o] EXCEPT !.ended = TRUE]
             of == [objs EXCEPT ![o].ended = TRUE]
  <2>1. objs' = of /\ objs[o].class = "connection" /\ o \in 1..Len(objs)
    BY <1>5, Sizes DEF Ends
  <2>2. objs[o] \in Objs
    BY <1>1, <2>1
  <2>3. /\ x \in Objs /\ x.class = objs[o].class /\ x.by = objs[o].by
        /\ x.part = objs[o].part
    BY <2>2 DEF Objs
  <2>4. of = [objs EXCEPT ![o] = x]
    BY <1>1
  <2> HIDE DEF x, of
  <2>5. /\ Len(of) = Len(objs)
        /\ \A k \in 1..Len(objs) : of[k] = IF k = o THEN x ELSE objs[k]
    BY <1>1, <2>1, <2>3, <2>4, ExceptSeq
  <2>6. Alike(objs, of)
    BY <2>1, <2>3, <2>5 DEF Alike
  <2>7. AlikeData(data, data)
    BY DEF AlikeData
  <2>8. Held(of, data) /\ AllExcused(of, wild)
    BY <1>1, <2>6, <2>7, AlikeHeld, AlikeExcused
  <2> QED
    BY <1>2, <2>1, <2>8
<1> QED
  BY <1>1, <1>2, <1>3, <1>4, <1>5

LEMMA BoundInitially == Init => BindInv
<1> SUFFICES ASSUME Init PROVE BindInv
  OBVIOUS
<1>1. OwnInv
  BY OwnInitially
<1>2. data = <<>> /\ types = <<>> /\ classes = {} /\ wild = {} /\ strange = {}
  BY DEF Init
<1>3. Len(data) = 0
  BY <1>2
<1>4. Tables
  BY <1>2, <1>3 DEF Tables, Live
<1> DEFINE x == Object("kernel", "cpp", 0)
           y == Object("kernel_cfg_t", "cpp", 1)
<1>5. /\ x.class = "kernel" /\ x.by = "cpp" /\ x.part = 0 /\ x.ended = FALSE
      /\ y.class = "kernel_cfg_t" /\ y.by = "cpp" /\ y.part = 1 /\ y.ended = FALSE
  BY DEF Object
<1>6. objs = <<x, y>>
  BY DEF Init
<1> HIDE DEF x, y
<1>7. Len(objs) = 2 /\ objs[1] = x /\ objs[2] = y
  BY <1>6
<1>8. \A o \in 1..2 : o = 1 \/ o = 2
  OBVIOUS
<1>9. Kernels(objs)
  BY <1>5, <1>7, <1>8 DEF Kernels
<1>10. Parts(objs)
  BY <1>5, <1>7, <1>8 DEF Parts
<1>11. Enders(objs)
  BY <1>5, <1>7, <1>8 DEF Enders
<1>12. Typed(objs, data) /\ Single(objs, data)
  BY <1>3 DEF Typed, Single
<1>13. AllExcused(objs, wild)
  BY <1>2 DEF AllExcused
<1> QED
  BY <1>1, <1>2, <1>4, <1>9, <1>10, <1>11, <1>12, <1>13 DEF BindInv, Held

LEMMA BindInductive == Spec => []BindInv
<1>1. BindInv /\ [Next]_vars => BindInv'
  <2> SUFFICES ASSUME BindInv, [Next]_vars PROVE BindInv'
    OBVIOUS
  <2>1. CASE Script
    BY <2>1, ScriptHeld
  <2>2. CASE Open \/ Require \/ Close \/ \E o \in Objects : PushUserdata(o)
    <3>1. Next
      BY <2>2 DEF Next
    <3>2. OwnInv'
      BY <3>1, OwnStep DEF BindInv
    <3> QED
      BY <2>2, <3>2, EngineHeld DEF BindInv
  <2>3. CASE Accept \/ \E o \in Objects : Ends(o)
    <3>1. Next
      BY <2>3 DEF Next
    <3>2. OwnInv'
      BY <3>1, OwnStep DEF BindInv
    <3> QED
      BY <2>3, <3>2, CppHeld DEF BindInv
  <2>4. CASE UNCHANGED vars
    <3>1. UNCHANGED <<lua, types, classes, objs, data, proc, wild, strange>>
      BY <2>4 DEF vars
    <3>2. OwnInv'
      BY <2>4, OwnStep DEF BindInv
    <3>3. Tables'
      BY <3>1 DEF BindInv, Tables, Live
    <3> QED
      BY <3>1, <3>2, <3>3 DEF BindInv
  <2> QED
    BY <2>1, <2>2, <2>3, <2>4 DEF Next
<1> QED
  BY <1>1, BoundInitially, PTL DEF Spec

(* Every userdata has the type and the metatable of the object it points   *)
(* to, whichever name its type was looked up by, and a wrapper gets        *)
(* objects of its own class only, however scripts pass what they hold and  *)
(* in whatever order objects are made, ended and collected                 *)
(* (lua_grind_wrap.cxx:450).                                               *)
THEOREM TypesAlwaysAgree == Spec => []TypesAgree
<1>1. BindInv => TypesAgree
  <2> SUFFICES ASSUME BindInv PROVE TypesAgree
    OBVIOUS
  <2> QED
    BY LiveTables DEF TypesAgree, BindInv
<1> QED
  BY <1>1, BindInductive, PTL

(* A wrapper that is applied to an object that has ended has got either a  *)
(* connection that C++ closed or the configuration of a kernel that a      *)
(* script made and let go: nothing else that Lua holds goes bad            *)
(* (lua_grind_wrap.cxx:2233, connection.cpp:74).                           *)
THEOREM UsesAreAccounted == Spec => []UsesAccounted
<1>1. BindInv => UsesAccounted
  BY DEF BindInv, AllExcused, Excused, UsesAccounted
<1> QED
  BY <1>1, BindInductive, PTL
=============================================================================
