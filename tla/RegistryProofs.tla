--------------------------- MODULE RegistryProofs ---------------------------
(***************************************************************************)
(* Theorems about Registry, for every topology, set of clients and bound   *)
(* allowed by its assumptions.                                             *)
(***************************************************************************)
EXTENDS Registry, FiniteSetTheorems, TLAPS

(***************************************************************************)
(* Viewers                                                                 *)
(***************************************************************************)
LEMMA ViewersFinite ==
  ASSUME NEW v
  PROVE  IsFiniteSet(Viewers(v)) /\ Cardinality(Viewers(v)) \in Nat
<1>1. Viewers(v) \in SUBSET Watchers
  BY DEF Viewers
<1>2. IsFiniteSet(Viewers(v))
  BY <1>1, TopologyAssumption, FS_Subset
<1> QED
  BY <1>2, FS_CardinalityType

LEMMA ViewersMove ==
  ASSUME sub \in [Watchers -> Wants], NEW w \in Watchers, NEW x \in Wants,
         sub' = [sub EXCEPT ![w] = x], NEW v \in Views
  PROVE  Viewers(v)' = IF x = v THEN Viewers(v) \cup {w} ELSE Viewers(v) \ {w}
  BY DEF Viewers

(* How a new want moves the number of viewers of a view.                   *)
LEMMA ViewersCount ==
  ASSUME sub \in [Watchers -> Wants], NEW w \in Watchers, NEW x \in Wants,
         sub' = [sub EXCEPT ![w] = x], NEW v \in Views
  PROVE  Cardinality(Viewers(v)') =
           IF x = v THEN IF sub[w] = v THEN Cardinality(Viewers(v))
                                       ELSE Cardinality(Viewers(v)) + 1
                    ELSE IF sub[w] = v THEN Cardinality(Viewers(v)) - 1
                                       ELSE Cardinality(Viewers(v))
<1>1. IsFiniteSet(Viewers(v)) /\ Cardinality(Viewers(v)) \in Nat
  BY ViewersFinite
<1>2. w \in Viewers(v) <=> sub[w] = v
  BY DEF Viewers
<1>3. Cardinality(Viewers(v) \cup {w}) =
        IF w \in Viewers(v) THEN Cardinality(Viewers(v))
                            ELSE Cardinality(Viewers(v)) + 1
  BY <1>1, FS_AddElement
<1>4. Cardinality(Viewers(v) \ {w}) =
        IF w \in Viewers(v) THEN Cardinality(Viewers(v)) - 1
                            ELSE Cardinality(Viewers(v))
  BY <1>1, FS_RemoveElement
<1> QED
  BY <1>2, <1>3, <1>4, ViewersMove

(* A watched view has at least one viewer.                                 *)
LEMMA ViewersPositive ==
  ASSUME NEW w \in Watchers, NEW v, sub[w] = v
  PROVE  Cardinality(Viewers(v)) > 0
<1>1. Viewers(v) # {}
  BY DEF Viewers
<1> QED
  BY <1>1, ViewersFinite, FS_EmptySet

(***************************************************************************)
(* The lists of active klasses and views                                   *)
(***************************************************************************)
ListsType == /\ activeK \in [Formats -> SUBSET Klasses]
             /\ active \in [Formats -> [Views -> Nat]]
             /\ nr \in [Formats -> Nat]

LEMMA KlassesCounted ==
  ASSUME NEW S \in SUBSET Klasses, NEW k \in Klasses
  PROVE  /\ Cardinality(S) \in Nat
         /\ k \notin S => Cardinality(S \cup {k}) = Cardinality(S) + 1
         /\ k \in S => /\ Cardinality(S \ {k}) = Cardinality(S) - 1
                      /\ Cardinality(S) > 0
<1>1. IsFiniteSet(S)
  BY TopologyAssumption, FS_Subset
<1>2. Cardinality(S) \in Nat
  BY <1>1, FS_CardinalityType
<1>3. k \in S => Cardinality(S) # 0
  BY <1>1, FS_EmptySet
<1>4. k \notin S => Cardinality(S \cup {k}) = Cardinality(S) + 1
  BY <1>1, FS_AddElement
<1>5. k \in S => Cardinality(S \ {k}) = Cardinality(S) - 1
  BY <1>1, FS_RemoveElement
<1> QED
  BY <1>2, <1>3, <1>4, <1>5

(* subscribe keeps the accounting of active klasses.                       *)
LEMMA ActivateLists ==
  ASSUME ListsType, ActiveAccounting, NEW v \in Views, Activate(v)
  PROVE  ListsType' /\ ActiveAccounting'
<1> DEFINE k == KlassOf[v]
<1>1. k \in Klasses
  BY TopologyAssumption
<1>0. /\ activeK' = [f \in Formats |-> activeK'[f]]
      /\ active' = [f \in Formats |-> active'[f]]
      /\ nr' = [f \in Formats |-> nr'[f]]
  BY DEF Activate
<1>2. SUFFICES ASSUME NEW f \in Formats
               PROVE  /\ activeK'[f] \in SUBSET Klasses
                      /\ active'[f] \in [Views -> Nat]
                      /\ nr'[f] \in Nat
                      /\ nr'[f] = Cardinality(activeK'[f])
                      /\ activeK'[f] = {j \in Klasses : ListedViews(f, j)' # {}}
  BY <1>0 DEF ListsType, ActiveAccounting
<1>3. CASE ~Lists(f, v)
  <2>1. activeK'[f] = activeK[f] /\ active'[f] = active[f] /\ nr'[f] = nr[f]
    BY <1>3 DEF Activate
  <2> QED
    BY <2>1 DEF ListsType, ActiveAccounting, ListedViews
<1>4. CASE Lists(f, v)
  <2>1. active'[f] = [active[f] EXCEPT ![v] = @ + 1]
    BY <1>4 DEF Activate
  <2>2. activeK'[f] = activeK[f] \cup {k}
    BY <1>4 DEF Activate
  <2>3. nr'[f] = IF k \in activeK[f] THEN nr[f] ELSE nr[f] + 1
    BY <1>4 DEF Activate
  <2>4. active'[f] \in [Views -> Nat] /\ active'[f][v] > 0
    BY <2>1 DEF ListsType
  <2>5. \A u \in Views : u # v => active'[f][u] = active[f][u]
    BY <2>1 DEF ListsType
  <2>6. \A j \in Klasses : j # k => ListedViews(f, j)' = ListedViews(f, j)
    BY <2>5 DEF ListedViews
  <2>7. v \in ListedViews(f, k)'
    BY <2>4 DEF ListedViews
  <2>8. activeK'[f] = {j \in Klasses : ListedViews(f, j)' # {}}
    BY <1>1, <2>2, <2>6, <2>7 DEF ActiveAccounting
  <2>9. nr'[f] \in Nat /\ nr'[f] = Cardinality(activeK'[f])
    <3>1. activeK[f] \in SUBSET Klasses /\ nr[f] = Cardinality(activeK[f])
      BY DEF ListsType, ActiveAccounting
    <3>2. CASE k \in activeK[f]
      <4>1. activeK'[f] = activeK[f] /\ nr'[f] = nr[f]
        BY <2>2, <2>3, <3>2
      <4> QED
        BY <4>1, <3>1, <1>1, KlassesCounted
    <3>3. CASE k \notin activeK[f]
      <4>1. Cardinality(activeK[f] \cup {k}) = Cardinality(activeK[f]) + 1
        BY <1>1, <3>1, <3>3, KlassesCounted
      <4>2. nr[f] \in Nat
        BY DEF ListsType
      <4> QED
        BY <2>2, <2>3, <3>1, <3>3, <4>1, <4>2
    <3> QED
      BY <3>2, <3>3
  <2> QED
    BY <1>1, <2>2, <2>4, <2>8, <2>9 DEF ListsType
<1> QED
  BY <1>3, <1>4

(* remove_watcher keeps it, when the view that goes is listed.             *)
LEMMA DeactivateLists ==
  ASSUME ListsType, ActiveAccounting, NEW v \in Views,
         \A f \in Formats : Lists(f, v) => active[f][v] > 0,
         Deactivate(v)
  PROVE  /\ ListsType' /\ ActiveAccounting'
         /\ \A f \in Formats : Lists(f, v) => KlassOf[v] \in activeK[f]
<1> DEFINE k == KlassOf[v]
<1>1. k \in Klasses
  BY TopologyAssumption
<1>0. /\ activeK' = [f \in Formats |-> activeK'[f]]
      /\ active' = [f \in Formats |-> active'[f]]
      /\ nr' = [f \in Formats |-> nr'[f]]
  BY DEF Deactivate
<1>2. SUFFICES ASSUME NEW f \in Formats
               PROVE  /\ activeK'[f] \in SUBSET Klasses
                      /\ active'[f] \in [Views -> Nat]
                      /\ nr'[f] \in Nat
                      /\ nr'[f] = Cardinality(activeK'[f])
                      /\ activeK'[f] = {j \in Klasses : ListedViews(f, j)' # {}}
                      /\ Lists(f, v) => k \in activeK[f]
  BY <1>0 DEF ListsType, ActiveAccounting
<1>3. CASE ~Lists(f, v)
  <2>1. activeK'[f] = activeK[f] /\ active'[f] = active[f] /\ nr'[f] = nr[f]
    BY <1>3 DEF Deactivate
  <2> QED
    BY <1>3, <2>1 DEF ListsType, ActiveAccounting, ListedViews
<1>4. CASE Lists(f, v)
  <2>0. active[f] \in [Views -> Nat] /\ active[f][v] > 0
    BY <1>4 DEF ListsType
  <2>1. active'[f] = [active[f] EXCEPT ![v] = @ - 1] /\ active[f][v] > 0
    <3>1. active'[f] = [active[f] EXCEPT ![v] = OneLess(@)]
      BY <1>4 DEF Deactivate
    <3>2. OneLess(active[f][v]) = active[f][v] - 1
      BY <2>0 DEF OneLess
    <3> QED
      BY <2>0, <3>1, <3>2
  <2>2. active'[f] \in [Views -> Nat]
    BY <2>1 DEF ListsType
  <2>3. \A u \in Views : u # v => active'[f][u] = active[f][u]
    BY <2>1 DEF ListsType
  <2>4. active'[f][v] = active[f][v] - 1
    BY <2>1 DEF ListsType
  <2>5. \A j \in Klasses : j # k => ListedViews(f, j)' = ListedViews(f, j)
    BY <2>3 DEF ListedViews
  <2>6. Empties(f, v) <=> ListedViews(f, k)' = {}
    BY <2>1, <2>2, <2>3, <2>4 DEF Empties, ListedViews, ListsType
  <2>7. v \in ListedViews(f, k)
    BY <2>1 DEF ListedViews
  <2>8. k \in activeK[f]
    BY <1>1, <2>7 DEF ActiveAccounting
  <2>9. /\ activeK'[f] = IF Empties(f, v) THEN activeK[f] \ {k} ELSE activeK[f]
        /\ nr'[f] = IF Empties(f, v) THEN nr[f] - 1 ELSE nr[f]
    BY <1>4 DEF Deactivate
  <2>10. activeK'[f] = {j \in Klasses : ListedViews(f, j)' # {}}
    <3>1. CASE Empties(f, v)
      BY <1>1, <2>5, <2>6, <2>9, <3>1 DEF ActiveAccounting
    <3>2. CASE ~Empties(f, v)
      BY <1>1, <2>5, <2>6, <2>7, <2>9, <3>2 DEF ActiveAccounting
    <3> QED
      BY <3>1, <3>2
  <2>11. nr'[f] \in Nat /\ nr'[f] = Cardinality(activeK'[f])
    <3>1. activeK[f] \in SUBSET Klasses /\ nr[f] = Cardinality(activeK[f])
      BY DEF ListsType, ActiveAccounting
    <3> QED
      BY <1>1, <2>8, <2>9, <3>1, KlassesCounted
  <2> QED
    BY <2>2, <2>8, <2>9, <2>10, <2>11 DEF ListsType
<1> QED
  BY <1>3, <1>4

(***************************************************************************)
(* The inductive invariant                                                 *)
(***************************************************************************)
(* The parts hold each other up: a removal keeps the accounting because    *)
(* the departing watcher's view is listed, and a keeper hears a commit     *)
(* once because it is on the list of keepers.                              *)
IInv == /\ TypeOK
        /\ ActiveAccounting
        /\ WatchedViewsActive
        /\ KeepersListed
        /\ RemovalNeverRaises
        /\ KeeperHearsOnce

LEMMA NothingType ==
  /\ Nothing \in [Watchers -> [Formats \X Views -> Nat]]
  /\ NoEntry \in [of : Entries \cup {NoEntry.of}, fails : SUBSET Filters]
<1>1. Nothing \in [Watchers -> [Formats \X Views -> Nat]]
  BY DEF Nothing
<1> DEFINE o == [hits |-> {}, bare |-> {}]
<1>2. NoEntry = [of |-> o, fails |-> {}]
  BY DEF NoEntry
<1> HIDE DEF o
<1>3. NoEntry.of = o
  BY <1>2
<1>4. [of |-> o, fails |-> {}] \in [of : Entries \cup {o}, fails : SUBSET Filters]
  OBVIOUS
<1>5. NoEntry \in [of : Entries \cup {o}, fails : SUBSET Filters]
  BY <1>2, <1>4
<1> QED
  BY <1>1, <1>3, <1>5

LEMMA NothingHeard ==
  ASSUME got' = Nothing
  PROVE  KeeperHearsOnce'
<1>1. \A w \in Watchers, p \in Formats \X Views : Nothing[w][p] = 0
  BY DEF Nothing
<1> QED
  BY <1>1 DEF KeeperHearsOnce

LEMMA InitInv == Init => IInv
<1> SUFFICES ASSUME Init PROVE IInv
  OBVIOUS
<1>1. TypeOK
  BY NothingType DEF Init, TypeOK, Wants
<1>2. ActiveAccounting
  <2>1. \A f \in Formats, k \in Klasses : ListedViews(f, k) = {}
    BY DEF Init, ListedViews
  <2>2. Cardinality({}) = 0
    BY FS_EmptySet
  <2> QED
    BY <2>1, <2>2 DEF Init, ActiveAccounting
<1>3. WatchedViewsActive
  <2>1. \A v \in Views : Viewers(v) = {}
    BY WantAssumption DEF Init, Viewers
  <2>2. Cardinality({}) = 0
    BY FS_EmptySet
  <2> QED
    BY <2>1, <2>2 DEF Init, WatchedViewsActive
<1>4. KeepersListed /\ RemovalNeverRaises
  BY WantAssumption DEF Init, KeepersListed, RemovalNeverRaises
<1>5. KeeperHearsOnce
  BY WantAssumption DEF Init, KeeperHearsOnce
<1> QED
  BY <1>1, <1>2, <1>3, <1>4, <1>5 DEF IInv

(* A step that moves no want and no list can only err in what it relays.   *)
LEMMA SameLists ==
  ASSUME IInv, TypeOK', KeeperHearsOnce', RemovalNeverRaises',
         UNCHANGED <<sub, keepers, activeK, active, nr>>
  PROVE  IInv'
<1>1. ActiveAccounting'
  BY DEF IInv, ActiveAccounting, ListedViews
<1>2. WatchedViewsActive'
  BY DEF IInv, WatchedViewsActive, Viewers
<1>3. KeepersListed'
  BY DEF IInv, KeepersListed
<1> QED
  BY <1>1, <1>2, <1>3 DEF IInv

LEMMA SubscribeInv ==
  ASSUME IInv, NEW w \in Watchers, NEW v \in Views, Subscribe(w, v)
  PROVE  IInv'
<1>1. ListsType /\ ActiveAccounting /\ Activate(v)
  BY DEF IInv, TypeOK, ListsType, Subscribe
<1>2. ListsType' /\ ActiveAccounting'
  BY <1>1, ActivateLists
<1>3. v \in Wants /\ v # All /\ sub[w] # v
  BY WantAssumption DEF Wants, Subscribe
<1>4. sub' = [sub EXCEPT ![w] = v] /\ sub \in [Watchers -> Wants]
  BY DEF IInv, TypeOK, Subscribe, SubscribeTo
<1>5. TypeOK'
  BY <1>2, <1>3, <1>4, NothingType
  DEF IInv, TypeOK, ListsType, Subscribe, SubscribeTo, Answer, HandlesNone
<1>6. WatchedViewsActive'
  <2> SUFFICES ASSUME NEW f \in Formats, NEW u \in Views, Lists(f, u)
               PROVE  Cardinality(Viewers(u)') <= active'[f][u]
    BY DEF WatchedViewsActive
  <2>1. Cardinality(Viewers(u)) <= active[f][u] /\ Cardinality(Viewers(u)) \in Nat
    BY ViewersFinite DEF IInv, WatchedViewsActive
  <2>2. active[f] \in [Views -> Nat]
    BY <1>1 DEF ListsType
  <2>3. CASE u = v
    <3>1. active'[f][u] = active[f][u] + 1
      BY <2>2, <2>3, <1>1 DEF Activate
    <3>2. Cardinality(Viewers(u)') = Cardinality(Viewers(u)) + 1
      BY <1>3, <1>4, <2>3, ViewersCount
    <3> QED
      BY <2>1, <2>2, <3>1, <3>2
  <2>4. CASE u # v
    <3>1. active'[f][u] = active[f][u]
      BY <2>2, <2>4, <1>1 DEF Activate
    <3>2. Cardinality(Viewers(u)') \in {Cardinality(Viewers(u)), Cardinality(Viewers(u)) - 1}
      BY <1>3, <1>4, <2>4, ViewersCount
    <3> QED
      BY <2>1, <2>2, <3>1, <3>2
  <2> QED
    BY <2>3, <2>4
<1>7. KeepersListed'
  BY <1>3, <1>4 DEF IInv, KeepersListed, Subscribe
<1>8. RemovalNeverRaises' /\ KeeperHearsOnce'
  BY NothingHeard DEF IInv, RemovalNeverRaises, Subscribe, SubscribeTo, Answer, HandlesNone
<1> QED
  BY <1>2, <1>5, <1>6, <1>7, <1>8 DEF IInv

(* A want that is not a view can only lower the number of viewers.         *)
LEMMA FewerViewers ==
  ASSUME IInv, NEW w \in Watchers, NEW x \in {None, All},
         sub' = [sub EXCEPT ![w] = x], active' = active
  PROVE  WatchedViewsActive'
<1> SUFFICES ASSUME NEW f \in Formats, NEW u \in Views, Lists(f, u)
             PROVE  Cardinality(Viewers(u)') <= active'[f][u]
  BY DEF WatchedViewsActive
<1>1. Cardinality(Viewers(u)) <= active[f][u] /\ Cardinality(Viewers(u)) \in Nat
  BY ViewersFinite DEF IInv, WatchedViewsActive
<1>2. active[f][u] \in Nat
  BY DEF IInv, TypeOK
<1>3. x \in Wants /\ x # u /\ sub \in [Watchers -> Wants]
  BY WantAssumption DEF Wants, IInv, TypeOK
<1>4. Cardinality(Viewers(u)') \in {Cardinality(Viewers(u)), Cardinality(Viewers(u)) - 1}
  BY <1>3, ViewersCount
<1> QED
  BY <1>1, <1>2, <1>4

LEMMA SubscribeAllInv ==
  ASSUME IInv, NEW w \in Watchers, SubscribeAll(w)
  PROVE  IInv'
<1>1. TypeOK'
  <2>1. keepers' \in [Watchers -> Nat]
    BY DEF IInv, TypeOK, SubscribeAll
  <2>2. sub' \in [Watchers -> Wants] /\ filters' \in [Watchers -> SUBSET Filters]
    BY DEF IInv, TypeOK, Wants, SubscribeAll, SubscribeTo
  <2> QED
    BY <2>1, <2>2, NothingType DEF IInv, TypeOK, SubscribeAll, SubscribeTo, Answer, HandlesNone
<1>2. ActiveAccounting'
  BY DEF IInv, ActiveAccounting, ListedViews, SubscribeAll
<1>3. WatchedViewsActive'
  BY FewerViewers DEF SubscribeAll, SubscribeTo
<1>4. KeepersListed'
  BY DEF IInv, TypeOK, KeepersListed, SubscribeAll, SubscribeTo
<1>5. RemovalNeverRaises' /\ KeeperHearsOnce'
  BY NothingHeard DEF IInv, RemovalNeverRaises, SubscribeAll, SubscribeTo, Answer, HandlesNone
<1> QED
  BY <1>1, <1>2, <1>3, <1>4, <1>5 DEF IInv

LEMMA RemoveIdleInv ==
  ASSUME IInv, NEW w \in Watchers, RemoveIdle(w)
  PROVE  IInv'
<1>1. TypeOK'
  BY NothingType DEF IInv, TypeOK, Wants, RemoveIdle, Forget, Answer, HandlesNone, lists
<1>2. sub' = sub
  BY DEF IInv, TypeOK, RemoveIdle, Forget
<1>3. RemovalNeverRaises' /\ KeeperHearsOnce'
  BY NothingHeard DEF IInv, RemovalNeverRaises, RemoveIdle, Forget, Answer, HandlesNone
<1> QED
  BY <1>1, <1>2, <1>3, SameLists DEF RemoveIdle, lists

LEMMA RemoveKeeperInv ==
  ASSUME IInv, NEW w \in Watchers, RemoveKeeper(w)
  PROVE  IInv'
<1>1. TypeOK'
  <2>1. \A n \in Nat : OneLess(n) \in Nat
    BY DEF OneLess
  <2>2. keepers' \in [Watchers -> Nat]
    BY <2>1 DEF IInv, TypeOK, RemoveKeeper
  <2>3. sub' \in [Watchers -> Wants] /\ filters' \in [Watchers -> SUBSET Filters]
    BY DEF IInv, TypeOK, Wants, RemoveKeeper, Forget
  <2> QED
    BY <2>2, <2>3, NothingType DEF IInv, TypeOK, RemoveKeeper, Forget, Answer, HandlesNone
<1>2. ActiveAccounting'
  BY DEF IInv, ActiveAccounting, ListedViews, RemoveKeeper
<1>3. WatchedViewsActive'
  BY FewerViewers DEF RemoveKeeper, Forget
<1>4. KeepersListed'
  BY WantAssumption DEF IInv, TypeOK, KeepersListed, RemoveKeeper, Forget
<1>5. RemovalNeverRaises' /\ KeeperHearsOnce'
  BY NothingHeard DEF IInv, RemovalNeverRaises, RemoveKeeper, Forget, Answer, HandlesNone
<1> QED
  BY <1>1, <1>2, <1>3, <1>4, <1>5 DEF IInv

LEMMA RemoveViewerInv ==
  ASSUME IInv, NEW w \in Watchers, RemoveViewer(w)
  PROVE  IInv'
<1> DEFINE v == sub[w]
<1>1. v \in Views /\ ListsType /\ ActiveAccounting /\ Deactivate(v)
  BY DEF IInv, TypeOK, ListsType, RemoveViewer
<1>2. \A f \in Formats : Lists(f, v) => active[f][v] > 0
  <2> SUFFICES ASSUME NEW f \in Formats, Lists(f, v)
               PROVE  active[f][v] > 0
    OBVIOUS
  <2>1. Cardinality(Viewers(v)) > 0 /\ Cardinality(Viewers(v)) \in Nat
    BY ViewersPositive, ViewersFinite
  <2>2. Cardinality(Viewers(v)) <= active[f][v] /\ active[f][v] \in Nat
    BY <1>1 DEF IInv, WatchedViewsActive, ListsType
  <2> QED
    BY <2>1, <2>2
<1>3. /\ ListsType' /\ ActiveAccounting'
      /\ \A f \in Formats : Lists(f, v) => KlassOf[v] \in activeK[f]
  BY <1>1, <1>2, DeactivateLists
<1>4. None \in Wants /\ sub' = [sub EXCEPT ![w] = None] /\ sub \in [Watchers -> Wants]
  BY DEF Wants, IInv, TypeOK, RemoveViewer, Forget
<1>5. engine' = engine
  <2>1. \A f \in FormatsOfView(v) : f \in Formats /\ Lists(f, v)
    BY <1>1, TopologyAssumption DEF FormatsOfView, Lists
  <2> QED
    BY <1>3, <2>1 DEF RemoveViewer
<1>6. TypeOK'
  BY <1>3, <1>4, <1>5, NothingType
  DEF IInv, TypeOK, ListsType, RemoveViewer, Forget, Answer, HandlesNone
<1>7. WatchedViewsActive'
  <2> SUFFICES ASSUME NEW f \in Formats, NEW u \in Views, Lists(f, u)
               PROVE  Cardinality(Viewers(u)') <= active'[f][u]
    BY DEF WatchedViewsActive
  <2>1. Cardinality(Viewers(u)) <= active[f][u] /\ Cardinality(Viewers(u)) \in Nat
    BY ViewersFinite DEF IInv, WatchedViewsActive
  <2>2. active[f] \in [Views -> Nat]
    BY <1>1 DEF ListsType
  <2>3. None # u
    BY WantAssumption
  <2>4. CASE u = v
    <3>1. active'[f][u] = active[f][u] - 1
      BY <1>1, <1>2, <2>2, <2>4 DEF Deactivate, OneLess
    <3>2. Cardinality(Viewers(u)') = Cardinality(Viewers(u)) - 1
      BY <1>4, <2>3, <2>4, ViewersCount
    <3> QED
      BY <2>1, <2>2, <3>1, <3>2
  <2>5. CASE u # v
    <3>1. active'[f][u] = active[f][u]
      BY <1>1, <2>2, <2>5 DEF Deactivate
    <3>2. Cardinality(Viewers(u)') = Cardinality(Viewers(u))
      BY <1>4, <2>3, <2>5, ViewersCount
    <3> QED
      BY <2>1, <2>2, <3>1, <3>2
  <2> QED
    BY <2>4, <2>5
<1>8. KeepersListed'
  BY <1>4, WantAssumption DEF IInv, KeepersListed, RemoveViewer
<1>9. RemovalNeverRaises' /\ KeeperHearsOnce'
  BY <1>5, NothingHeard DEF IInv, RemovalNeverRaises, RemoveViewer, Forget, Answer, HandlesNone
<1> QED
  BY <1>3, <1>6, <1>7, <1>8, <1>9 DEF IInv

(* The calls that leave the wants and the lists alone.                     *)
LEMMA BystanderInv ==
  ASSUME IInv, NEW w \in Watchers,
         \/ AddWatcher(w)
         \/ \E F \in SUBSET Filters : AddFilters(w, F)
         \/ ClearFilters(w)
         \/ Purge(w) \/ Query(w) \/ Refuse(w) \/ CommandRaises(w)
  PROVE  IInv'
<1>1. /\ UNCHANGED <<sub, keepers, activeK, active, nr>>
      /\ got' = Nothing /\ entry' = NoEntry
  BY DEF AddWatcher, AddFilters, ClearFilters, Purge, Query, Refuse,
         CommandRaises, Answer, HandlesNone, subs, lists
<1>2. engine' \in {engine, "command"}
  BY DEF AddWatcher, AddFilters, ClearFilters, Purge, Query, Refuse, CommandRaises
<1>3. reply' \in {"none", "result", "failure"} /\ purged' \subseteq Watchers
  BY DEF AddWatcher, AddFilters, ClearFilters, Purge, Query, Refuse,
         CommandRaises, Answer, HandlesNone, IInv, TypeOK
<1>4. watchers' \subseteq Watchers /\ filters' \in [Watchers -> SUBSET Filters]
  BY DEF AddWatcher, AddFilters, ClearFilters, Purge, Query, Refuse,
         CommandRaises, subs, IInv, TypeOK
<1>5. TypeOK'
  BY <1>1, <1>2, <1>3, <1>4, NothingType DEF IInv, TypeOK
<1>6. RemovalNeverRaises'
  BY <1>2 DEF IInv, RemovalNeverRaises
<1> QED
  BY <1>1, <1>5, <1>6, NothingHeard, SameLists

(* What the relay loop runs is never negative, and once with a keeper.     *)
LEMMA RunsType ==
  ASSUME TypeOK, NEW f \in Formats, NEW v \in Views
  PROVE  Runs(f, v) \in Nat /\ (HasKeepers => Runs(f, v) = 1)
  BY DEF Runs, TypeOK

(* What is relayed of an entry is a number of copies, each at most Runs.   *)
LEMMA RelayedType ==
  ASSUME TypeOK, NEW H, NEW fails
  PROVE  /\ Relayed(H, fails) \in [Watchers -> [Formats \X Views -> Nat]]
         /\ \A w \in Watchers, p \in Formats \X Views :
              Relayed(H, fails)[w][p] \in {0, Runs(p[1], p[2])}
<1>1. \A p \in Formats \X Views : Runs(p[1], p[2]) \in Nat
  BY RunsType
<1> QED
  BY <1>1 DEF Relayed

LEMMA HandleInv ==
  ASSUME IInv, NEW e \in Entries, NEW fails \in SUBSET Filters,
         Handle(e, fails) \/ HandleRaises(e, fails)
  PROVE  IInv'
<1>1. /\ UNCHANGED <<watchers, sub, filters, keepers, activeK, active, nr>>
      /\ engine' \in {engine, "entry"}
      /\ entry' = [of |-> e, fails |-> fails]
      /\ reply' = "none" /\ purged' = {}
  BY DEF Handle, HandleRaises, subs, lists
<1>2. PICK H : got' = Relayed(H, fails)
  BY DEF Handle, HandleRaises
<1>3. /\ got' \in [Watchers -> [Formats \X Views -> Nat]]
      /\ \A w \in Watchers, p \in Formats \X Views : got'[w][p] \in {0, Runs(p[1], p[2])}
  BY <1>2, RelayedType DEF IInv
<1>4. TypeOK'
  BY <1>1, <1>3 DEF IInv, TypeOK
<1>5. KeeperHearsOnce'
  <2> SUFFICES ASSUME NEW w \in Watchers, sub[w] = All, NEW p \in Formats \X Views
               PROVE  got'[w][p] <= 1
    BY <1>1 DEF KeeperHearsOnce
  <2>1. HasKeepers
    BY DEF IInv, KeepersListed, HasKeepers
  <2>2. Runs(p[1], p[2]) = 1
    BY <2>1, RunsType DEF IInv
  <2> QED
    BY <1>3, <2>2
<1>6. RemovalNeverRaises'
  BY <1>1 DEF IInv, RemovalNeverRaises
<1> QED
  BY <1>1, <1>4, <1>5, <1>6, SameLists

LEMMA NextInv == IInv /\ [Next]_vars => IInv'
<1> SUFFICES ASSUME IInv, [Next]_vars PROVE IInv'
  OBVIOUS
<1>1. ASSUME NEW w \in Watchers, Connection(w) PROVE IInv'
  BY <1>1, BystanderInv, RemoveIdleInv, RemoveKeeperInv, RemoveViewerInv DEF Connection
<1>2. ASSUME NEW w \in Watchers, Command(w) PROVE IInv'
  BY <1>2, BystanderInv, SubscribeInv, SubscribeAllInv DEF Command
<1>3. ASSUME NEW e \in Entries, NEW fails \in SUBSET Filters,
             Handle(e, fails) \/ HandleRaises(e, fails)
      PROVE  IInv'
  BY <1>3, HandleInv
<1>4. CASE UNCHANGED vars
  <2>1. TypeOK' /\ KeeperHearsOnce' /\ RemovalNeverRaises'
    BY <1>4 DEF IInv, TypeOK, KeeperHearsOnce, RemovalNeverRaises, vars
  <2> QED
    BY <1>4, <2>1, SameLists DEF vars
<1> QED
  BY <1>1, <1>2, <1>3, <1>4 DEF Next

(* Every reachable state satisfies the inductive invariant.                *)
THEOREM Invariance == Spec => []IInv
  BY InitInv, NextInv, PTL DEF Spec

(* The types of the registry's state hold in every reachable state; in     *)
(* particular no count of active klasses goes below zero.                  *)
THEOREM TypeCorrect == Spec => []TypeOK
<1>1. IInv => TypeOK
  BY DEF IInv
<1> QED
  BY <1>1, Invariance, PTL

(* grind.handle tests a count that is exactly the number of active klasses,*)
(* whatever the order of subscriptions, switches and departures.           *)
THEOREM AccountingCorrect == Spec => []ActiveAccounting
<1>1. IInv => ActiveAccounting
  BY DEF IInv
<1> QED
  BY <1>1, Invariance, PTL

(* The view of a subscription is active in every format of its klass.      *)
THEOREM ViewsStayActive == Spec => []WatchedViewsActive
<1>1. IInv => WatchedViewsActive
  BY DEF IInv
<1> QED
  BY <1>1, Invariance, PTL

(* remove_watcher never raises.                                            *)
THEOREM RemovalSafe == Spec => []RemovalNeverRaises
<1>1. IInv => RemovalNeverRaises
  BY DEF IInv
<1> QED
  BY <1>1, Invariance, PTL

(* A watcher subscribed to everything hears each commit at most once.      *)
THEOREM KeeperOnce == Spec => [](KeepersListed /\ KeeperHearsOnce)
<1>1. IInv => KeepersListed /\ KeeperHearsOnce
  BY DEF IInv
<1> QED
  BY <1>1, Invariance, PTL

(***************************************************************************)
(* Registry implements Interest                                            *)
(***************************************************************************)
LEMMA NothingIsHeard == got = Nothing => Heard = {}
<1>1. \A w \in Watchers, p \in Formats \X Views : Nothing[w][p] = 0
  BY DEF Nothing
<1> QED
  BY <1>1 DEF Heard

LEMMA NothingIsHeardNext == got' = Nothing => Heard' = {}
<1>1. \A w \in Watchers, p \in Formats \X Views : Nothing[w][p] = 0
  BY DEF Nothing
<1> QED
  BY <1>1 DEF Heard

(* What a viewer of a covered pair or a keeper wants is run at least once. *)
LEMMA WantedRuns ==
  ASSUME IInv, NEW w \in Watchers, NEW f \in Formats, NEW v \in Views,
         sub[w] = All \/ (sub[w] = v /\ Lists(f, v))
  PROVE  Runs(f, v) > 0
<1>1. CASE HasKeepers
  BY <1>1, RunsType DEF IInv
<1>2. CASE ~HasKeepers
  <2>1. sub[w] = v /\ Lists(f, v)
    BY <1>2 DEF IInv, KeepersListed, HasKeepers
  <2>2. active[f][v] \in Nat /\ active[f][v] > 0
    <3>1. Cardinality(Viewers(v)) > 0 /\ Cardinality(Viewers(v)) \in Nat
      BY <2>1, ViewersPositive, ViewersFinite
    <3>2. Cardinality(Viewers(v)) <= active[f][v] /\ active[f][v] \in Nat
      BY <2>1 DEF IInv, WatchedViewsActive, TypeOK
    <3> QED
      BY <3>1, <3>2
  <2>3. KlassOf[v] \in activeK[f]
    BY <2>2, TopologyAssumption DEF IInv, ActiveAccounting, ListedViews
  <2>4. nr[f] > 0
    <3>1. activeK[f] \in SUBSET Klasses /\ KlassOf[v] \in Klasses
      BY TopologyAssumption DEF IInv, TypeOK
    <3>2. Cardinality(activeK[f]) > 0
      BY <2>3, <3>1, KlassesCounted
    <3> QED
      BY <3>2 DEF IInv, ActiveAccounting
  <2> QED
    BY <1>2, <2>2, <2>3, <2>4 DEF Runs
<1> QED
  BY <1>1, <1>2

(* Who hears what of the commits relayed, as a set.                        *)
LEMMA RelayHeard ==
  ASSUME NEW H, NEW fails, got' = Relayed(H, fails)
  PROVE  Heard' = {r \in Watchers \X (Formats \X Views) :
                     /\ r[2] \in H
                     /\ Relays(r[1], r[2][2], fails)
                     /\ Runs(r[2][1], r[2][2]) > 0}
<1>1. \A w \in Watchers, p \in Formats \X Views :
        got'[w][p] > 0 <=> (/\ p \in H
                            /\ Relays(w, p[2], fails)
                            /\ Runs(p[1], p[2]) > 0)
  BY DEF Relayed
<1> QED
  BY <1>1 DEF Heard

LEMMA HitsType == \A e \in Entries : e.hits \subseteq Formats \X Views
  BY TopologyAssumption

(* What is relayed of the commits of an entry is wanted.                   *)
LEMMA RelayedMay ==
  ASSUME NEW e \in Entries, NEW fails, NEW H \in SUBSET e.hits,
         got' = Relayed(H, fails)
  PROVE  Heard' \subseteq Contract!May(e.hits, fails)
<1> SUFFICES ASSUME NEW r \in Heard' PROVE r \in Contract!May(e.hits, fails)
  OBVIOUS
<1>1. /\ r \in Watchers \X (Formats \X Views) /\ r[2] \in e.hits
      /\ Relays(r[1], r[2][2], fails)
  BY RelayHeard
<1> QED
  BY <1>1 DEF Relays, Contract!May, Contract!Passes

LEMMA HandlePromise ==
  ASSUME IInv, NEW e \in Entries, NEW fails \in SUBSET Filters, Handle(e, fails)
  PROVE  Contract!Deliver(e, fails)
<1>1. e.hits \subseteq Formats \X Views
  BY HitsType
<1>2. /\ UNCHANGED <<sub, filters, engine>> /\ engine = "up"
      /\ entry' = [of |-> e, fails |-> fails] /\ got' = Relayed(e.hits, fails)
  BY DEF Handle, subs
<1>3. Contract!Must(e.hits, fails) \subseteq Heard'
  <2> SUFFICES ASSUME NEW r \in Contract!Must(e.hits, fails) PROVE r \in Heard'
    OBVIOUS
  <2>1. /\ r \in Watchers \X (Formats \X Views) /\ r[2] \in e.hits
        /\ filters[r[1]] \cap fails = {}
        /\ sub[r[1]] = All \/ (sub[r[1]] = r[2][2] /\ r[2] \in Covered)
    BY <1>1 DEF Contract!Must, Contract!Passes
  <2>2. Relays(r[1], r[2][2], fails)
    BY <2>1 DEF Relays
  <2>3. Runs(r[2][1], r[2][2]) > 0
    BY <2>1, WantedRuns DEF Covered
  <2> QED
    BY <1>2, <2>1, <2>2, <2>3, RelayHeard
<1>4. Heard' \subseteq Contract!May(e.hits, fails)
  BY <1>2, RelayedMay
<1> QED
  BY <1>2, <1>3, <1>4 DEF Contract!Deliver, Up

LEMMA RaisesPromise ==
  ASSUME NEW e \in Entries, NEW fails \in SUBSET Filters, HandleRaises(e, fails)
  PROVE  Contract!Break(e, fails)
<1>1. /\ UNCHANGED <<sub, filters>> /\ engine = "up" /\ engine' = "entry"
      /\ entry' = [of |-> e, fails |-> fails] /\ e.bare # {}
  BY DEF HandleRaises, subs
<1>2. PICK done \in SUBSET Formats :
        got' = Relayed({p \in e.hits : p[1] \in done}, fails)
  BY DEF HandleRaises
<1>3. Heard' \subseteq Contract!May(e.hits, fails)
  BY <1>2, RelayedMay
<1>4. Up /\ Up' = FALSE
  BY <1>1 DEF Up
<1> QED
  BY <1>1, <1>3, <1>4 DEF Contract!Break

(* What a connection or a command does is a step of the contract in which  *)
(* nobody hears anything.                                                  *)
Silent ==
  \/ \E w \in Watchers, x \in Views \cup {None, All} : Contract!Want(w, x)
  \/ \E w \in Watchers, F \in SUBSET Filters : Contract!Screen(w, F)
  \/ Contract!Quiet

LEMMA ConnectionSilent ==
  ASSUME IInv, IInv', NEW w \in Watchers, Connection(w)
  PROVE  Silent
<1>1. engine = "up" /\ UNCHANGED engine
  <2>1. engine = "up" /\ engine' \in {"up", "removal"}
    BY DEF Connection, AddWatcher, RemoveIdle, RemoveKeeper, RemoveViewer, Calls
  <2> QED
    BY <2>1 DEF IInv, RemovalNeverRaises
<1>2. got' = Nothing /\ entry' = NoEntry
  BY DEF Connection, AddWatcher, RemoveIdle, RemoveKeeper, RemoveViewer, Forget,
         Answer, HandlesNone
<1>3. Contract!NoEntryStep /\ UNCHANGED Up
  BY <1>1, <1>2, NothingIsHeardNext DEF Contract!NoEntryStep, Up, NoEntry, Contract!NoEntry
<1>4. CASE AddWatcher(w)
  <2>1. UNCHANGED <<sub, filters>> /\ Up' \in BOOLEAN
    BY <1>4 DEF AddWatcher, Up
  <2> QED
    BY <1>3, <2>1 DEF Silent, Contract!Quiet
<1>5. CASE Forget(w)
  <2>1. Contract!Want(w, None)
    BY <1>3, <1>5 DEF Forget, Contract!Want
  <2> QED
    BY <2>1 DEF Silent
<1> QED
  BY <1>4, <1>5 DEF Connection, RemoveIdle, RemoveKeeper, RemoveViewer

LEMMA CommandSilent ==
  ASSUME NEW w \in Watchers, Command(w)
  PROVE  Silent
<1>1. got' = Nothing /\ entry' = NoEntry /\ engine = "up"
  BY DEF Command, Subscribe, SubscribeAll, SubscribeTo, AddFilters, ClearFilters,
         Purge, Query, Refuse, CommandRaises, Answer, HandlesNone, MaySubscribe, Calls
<1>2. Contract!NoEntryStep /\ Up' \in BOOLEAN
  BY <1>1, NothingIsHeardNext DEF Contract!NoEntryStep, Up, NoEntry, Contract!NoEntry
<1>3. ASSUME NEW x \in Views \cup {All}, SubscribeTo(w, x) PROVE Silent
  <2>1. Contract!Want(w, x)
    BY <1>2, <1>3 DEF SubscribeTo, Contract!Want, Up
  <2> QED
    BY <2>1 DEF Silent
<1>4. ASSUME NEW F \in SUBSET Filters, AddFilters(w, F) PROVE Silent
  <2>1. Contract!Screen(w, F)
    BY <1>2, <1>4 DEF AddFilters, Contract!Screen, Up
  <2> QED
    BY <2>1 DEF Silent
<1>5. CASE ClearFilters(w)
  <2>1. Contract!Screen(w, {})
    BY <1>2, <1>5 DEF ClearFilters, Contract!Screen, Up
  <2> QED
    BY <2>1 DEF Silent
<1>6. CASE Purge(w) \/ Query(w) \/ Refuse(w) \/ CommandRaises(w)
  BY <1>2, <1>6 DEF Purge, Query, Refuse, CommandRaises, subs, Silent, Contract!Quiet
<1> QED
  BY <1>3, <1>4, <1>5, <1>6 DEF Command, Subscribe, SubscribeAll

LEMMA StepPromise == IInv /\ [Next]_vars => [Contract!Next]_(Contract!vars)
<1> SUFFICES ASSUME IInv, [Next]_vars
             PROVE  Contract!Next \/ UNCHANGED <<sub, filters, entry, Heard, Up>>
  BY DEF Contract!vars
<1>0. IInv'
  BY NextInv
<1>1. ASSUME NEW w \in Watchers, Connection(w) \/ Command(w) PROVE Contract!Next
  BY <1>0, <1>1, ConnectionSilent, CommandSilent DEF Silent, Contract!Next
<1>2. ASSUME NEW e \in Entries, NEW fails \in SUBSET Filters,
             Handle(e, fails) \/ HandleRaises(e, fails)
      PROVE  Contract!Next
  BY <1>2, HandlePromise, RaisesPromise DEF Contract!Next
<1>3. CASE UNCHANGED vars
  BY <1>3 DEF vars, Heard, Up
<1> QED
  BY <1>1, <1>2, <1>3 DEF Next

(* The registry implements the contract of Interest: whatever the clients  *)
(* do, a watcher hears of each entry handled every commit of its view that *)
(* passes its filters, and nothing of another view.                        *)
THEOREM PromiseKept == Spec => Promise
<1>1. Init => Contract!Init
  BY NothingIsHeard DEF Init, Contract!Init, NoEntry, Contract!NoEntry, Up
<1> QED
  BY <1>1, StepPromise, Invariance, PTL DEF Spec, Promise, Contract!Spec

(***************************************************************************)
(* Exact lists, when no watcher subscribes while subscribed                *)
(***************************************************************************)
ExactInv == ActiveExact /\ KeepersExact

LEMMA ExactInit == Init => ExactInv
<1> SUFFICES ASSUME Init PROVE ExactInv
  OBVIOUS
<1>1. \A v \in Views : Viewers(v) = {}
  BY WantAssumption DEF Init, Viewers
<1>2. Cardinality({}) = 0
  BY FS_EmptySet
<1>3. ActiveExact
  BY <1>1, <1>2 DEF Init, ActiveExact
<1>4. KeepersExact
  BY WantAssumption DEF Init, KeepersExact
<1> QED
  BY <1>3, <1>4 DEF ExactInv

LEMMA ExactSame ==
  ASSUME ExactInv, UNCHANGED <<sub, keepers, active>>
  PROVE  ExactInv'
  BY DEF ExactInv, ActiveExact, KeepersExact, Viewers

LEMMA ExactSubscribe ==
  ASSUME Switchers = {}, IInv, ExactInv, NEW w \in Watchers, NEW v \in Views,
         Subscribe(w, v)
  PROVE  ExactInv'
<1>1. /\ sub[w] = None /\ v \in Wants /\ v # None /\ v # All
      /\ sub' = [sub EXCEPT ![w] = v] /\ sub \in [Watchers -> Wants]
  BY WantAssumption DEF Subscribe, SubscribeTo, MaySubscribe, Wants, IInv, TypeOK
<1>2. ActiveExact'
  <2> SUFFICES ASSUME NEW f \in Formats, NEW u \in Views
               PROVE  active'[f][u] = IF Lists(f, u) THEN Cardinality(Viewers(u)') ELSE 0
    BY DEF ActiveExact, Lists, FormatsOfView
  <2>1. active[f] \in [Views -> Nat]
    BY DEF IInv, TypeOK
  <2>2. active[f][u] = IF Lists(f, u) THEN Cardinality(Viewers(u)) ELSE 0
    BY DEF ExactInv, ActiveExact
  <2>3. Cardinality(Viewers(u)') = IF u = v THEN Cardinality(Viewers(u)) + 1
                                            ELSE Cardinality(Viewers(u))
    <3>1. sub[w] # u
      BY <1>1, WantAssumption
    <3> QED
      BY <1>1, <3>1, ViewersCount
  <2>4. active'[f][u] = IF u = v /\ Lists(f, u) THEN active[f][u] + 1 ELSE active[f][u]
    BY <2>1 DEF Subscribe, Activate
  <2> QED
    BY <2>2, <2>3, <2>4
<1>3. KeepersExact'
  BY <1>1, WantAssumption DEF ExactInv, KeepersExact, Subscribe
<1> QED
  BY <1>2, <1>3 DEF ExactInv

(* A want that moves between None and All leaves the viewers alone.        *)
LEMMA ExactOthers ==
  ASSUME IInv, ExactInv, NEW w \in Watchers, sub[w] \notin Views,
         NEW x \in {None, All}, sub' = [sub EXCEPT ![w] = x], active' = active
  PROVE  ActiveExact'
<1>1. \A u \in Views : Viewers(u)' = Viewers(u)
  BY WantAssumption DEF Viewers, IInv, TypeOK
<1> QED
  BY <1>1 DEF ExactInv, ActiveExact

LEMMA ExactKeeperMoves ==
  ASSUME Switchers = {}, IInv, ExactInv, NEW w \in Watchers,
         SubscribeAll(w) \/ RemoveKeeper(w) \/ RemoveIdle(w)
  PROVE  ExactInv'
<1>1. CASE SubscribeAll(w)
  <2>1. sub[w] = None /\ sub' = [sub EXCEPT ![w] = All] /\ active' = active
    BY <1>1 DEF SubscribeAll, SubscribeTo, MaySubscribe
  <2>2. ActiveExact'
    BY <2>1, WantAssumption, ExactOthers
  <2>3. KeepersExact'
    BY <1>1, <2>1, WantAssumption DEF SubscribeAll, ExactInv, KeepersExact, IInv, TypeOK
  <2> QED
    BY <2>2, <2>3 DEF ExactInv
<1>2. CASE RemoveKeeper(w)
  <2>1. sub[w] = All /\ sub' = [sub EXCEPT ![w] = None] /\ active' = active
    BY <1>2 DEF RemoveKeeper, Forget
  <2>2. ActiveExact'
    BY <2>1, WantAssumption, ExactOthers
  <2>3. KeepersExact'
    BY <1>2, <2>1, WantAssumption
    DEF RemoveKeeper, OneLess, ExactInv, KeepersExact, IInv, TypeOK
  <2> QED
    BY <2>2, <2>3 DEF ExactInv
<1>3. CASE RemoveIdle(w)
  BY <1>3, ExactSame DEF RemoveIdle, Forget, lists, IInv, TypeOK
<1> QED
  BY <1>1, <1>2, <1>3

LEMMA ExactRemoveViewer ==
  ASSUME IInv, ExactInv, NEW w \in Watchers, RemoveViewer(w)
  PROVE  ExactInv'
<1> DEFINE v == sub[w]
<1>1. /\ v \in Views /\ None \in Wants /\ v # None
      /\ sub' = [sub EXCEPT ![w] = None] /\ sub \in [Watchers -> Wants]
  BY WantAssumption DEF RemoveViewer, Forget, Wants, IInv, TypeOK
<1>2. ActiveExact'
  <2> SUFFICES ASSUME NEW f \in Formats, NEW u \in Views
               PROVE  active'[f][u] = IF Lists(f, u) THEN Cardinality(Viewers(u)') ELSE 0
    BY DEF ActiveExact, Lists, FormatsOfView
  <2>1. active[f] \in [Views -> Nat]
    BY DEF IInv, TypeOK
  <2>2. active[f][u] = IF Lists(f, u) THEN Cardinality(Viewers(u)) ELSE 0
    BY DEF ExactInv, ActiveExact
  <2>3. Cardinality(Viewers(u)') = IF u = v THEN Cardinality(Viewers(u)) - 1
                                            ELSE Cardinality(Viewers(u))
    <3>1. None # u
      BY WantAssumption
    <3> QED
      BY <1>1, <3>1, ViewersCount
  <2>4. u = v => Cardinality(Viewers(u)) > 0
    BY ViewersPositive
  <2>5. active'[f][u] = IF u = v /\ Lists(f, u) THEN OneLess(active[f][u]) ELSE active[f][u]
    BY <1>1, <2>1 DEF RemoveViewer, Deactivate
  <2>6. Cardinality(Viewers(u)) \in Nat
    BY ViewersFinite
  <2> QED
    BY <2>2, <2>3, <2>4, <2>5, <2>6 DEF OneLess
<1>3. KeepersExact'
  BY <1>1, WantAssumption DEF ExactInv, KeepersExact, RemoveViewer
<1> QED
  BY <1>2, <1>3 DEF ExactInv

LEMMA ExactNext ==
  ASSUME Switchers = {}
  PROVE  IInv /\ ExactInv /\ [Next]_vars => ExactInv'
<1> SUFFICES ASSUME IInv, ExactInv, [Next]_vars PROVE ExactInv'
  OBVIOUS
<1>1. ASSUME NEW w \in Watchers, Connection(w) PROVE ExactInv'
  <2>1. CASE AddWatcher(w)
    BY <2>1, ExactSame DEF AddWatcher, lists
  <2> QED
    BY <1>1, <2>1, ExactKeeperMoves, ExactRemoveViewer DEF Connection
<1>2. ASSUME NEW w \in Watchers, Command(w) PROVE ExactInv'
  <2>1. CASE \/ \E F \in SUBSET Filters : AddFilters(w, F)
             \/ ClearFilters(w) \/ Purge(w) \/ Query(w) \/ Refuse(w) \/ CommandRaises(w)
    BY <2>1, ExactSame
    DEF AddFilters, ClearFilters, Purge, Query, Refuse, CommandRaises, lists, subs
  <2> QED
    BY <1>2, <2>1, ExactSubscribe, ExactKeeperMoves DEF Command
<1>3. ASSUME NEW e \in Entries, NEW fails \in SUBSET Filters,
             Handle(e, fails) \/ HandleRaises(e, fails)
      PROVE  ExactInv'
  BY <1>3, ExactSame DEF Handle, HandleRaises, subs, lists
<1>4. CASE UNCHANGED vars
  BY <1>4, ExactSame DEF vars
<1> QED
  BY <1>1, <1>2, <1>3, <1>4 DEF Next

(* When no watcher subscribes while subscribed, a view is listed once per  *)
(* viewer: the lists of active klasses leak nothing.                       *)
THEOREM ListsExact ==
  ASSUME Switchers = {}
  PROVE  Spec => []ActiveExact
<1>1. ExactInv => ActiveExact
  BY DEF ExactInv
<1>2. IInv /\ ExactInv /\ [Next]_vars => ExactInv'
  BY ExactNext
<1> QED
  BY <1>1, <1>2, ExactInit, Invariance, PTL DEF Spec

(* And a keeper is listed once, until it leaves.                           *)
THEOREM KeepersOnce ==
  ASSUME Switchers = {}
  PROVE  Spec => []KeepersExact
<1>1. ExactInv => KeepersExact
  BY DEF ExactInv
<1>2. IInv /\ ExactInv /\ [Next]_vars => ExactInv'
  BY ExactNext
<1> QED
  BY <1>1, <1>2, ExactInit, Invariance, PTL DEF Spec

(* With exact lists a format that a klass does not list runs its views     *)
(* only for a keeper that is there.                                        *)
LEMMA StrictRuns ==
  ASSUME ExactInv, NEW f \in Formats, NEW v \in Views, Runs(f, v) > 0
  PROVE  <<f, v>> \in Covered \/ \E u \in Watchers : sub[u] = All
<1>1. CASE HasKeepers
  BY <1>1 DEF HasKeepers, ExactInv, KeepersExact
<1>2. CASE ~HasKeepers
  BY <1>2 DEF Runs, ExactInv, ActiveExact, Covered
<1> QED
  BY <1>1, <1>2

(* What is relayed of an entry is within the strict contract too.          *)
LEMMA RelayedStrict ==
  ASSUME ExactInv, NEW e \in Entries, NEW fails, NEW H \in SUBSET e.hits,
         got' = Relayed(H, fails)
  PROVE  Heard' \subseteq StrictContract!May(e.hits, fails)
<1> SUFFICES ASSUME NEW r \in Heard' PROVE r \in StrictContract!May(e.hits, fails)
  OBVIOUS
<1>1. r \in Contract!May(e.hits, fails)
  BY RelayedMay
<1>2. /\ r[2] \in Formats \X Views /\ r[2][1] \in Formats /\ r[2][2] \in Views
      /\ r[2] = <<r[2][1], r[2][2]>> /\ Runs(r[2][1], r[2][2]) > 0
  BY RelayHeard
<1>3. r[2] \in Covered \/ \E u \in Watchers : sub[u] = All
  BY <1>2, StrictRuns
<1> QED
  BY <1>1, <1>3
  DEF Contract!May, Contract!Passes, StrictContract!May, StrictContract!Passes

LEMMA HandleStrict ==
  ASSUME IInv, ExactInv, NEW e \in Entries, NEW fails \in SUBSET Filters,
         Handle(e, fails)
  PROVE  StrictContract!Deliver(e, fails)
<1>1. Contract!Deliver(e, fails)
  BY HandlePromise
<1>2. StrictContract!Must(e.hits, fails) \subseteq Heard'
  BY <1>1 DEF Contract!Deliver, Contract!Must, Contract!Passes,
              StrictContract!Must, StrictContract!Passes
<1>3. got' = Relayed(e.hits, fails)
  BY DEF Handle
<1>4. Heard' \subseteq StrictContract!May(e.hits, fails)
  BY <1>3, RelayedStrict
<1> QED
  BY <1>1, <1>2, <1>4 DEF Contract!Deliver, StrictContract!Deliver

LEMMA RaisesStrict ==
  ASSUME ExactInv, NEW e \in Entries, NEW fails \in SUBSET Filters,
         HandleRaises(e, fails)
  PROVE  StrictContract!Break(e, fails)
<1>1. Contract!Break(e, fails)
  BY RaisesPromise
<1>2. PICK done \in SUBSET Formats :
        got' = Relayed({p \in e.hits : p[1] \in done}, fails)
  BY DEF HandleRaises
<1>3. Heard' \subseteq StrictContract!May(e.hits, fails)
  BY <1>2, RelayedStrict
<1> QED
  BY <1>1, <1>3 DEF Contract!Break, StrictContract!Break

LEMMA SilentStrict == Silent => StrictContract!Next
<1>0. Contract!NoEntryStep => StrictContract!NoEntryStep
  BY DEF Contract!NoEntryStep, StrictContract!NoEntryStep,
         Contract!NoEntry, StrictContract!NoEntry
<1>1. ASSUME NEW w \in Watchers, NEW x \in Views \cup {None, All}, Contract!Want(w, x)
      PROVE  StrictContract!Next
  <2>1. StrictContract!Want(w, x)
    BY <1>0, <1>1 DEF Contract!Want, StrictContract!Want
  <2> QED
    BY <2>1 DEF StrictContract!Next
<1>2. ASSUME NEW w \in Watchers, NEW F \in SUBSET Filters, Contract!Screen(w, F)
      PROVE  StrictContract!Next
  <2>1. StrictContract!Screen(w, F)
    BY <1>0, <1>2 DEF Contract!Screen, StrictContract!Screen
  <2> QED
    BY <2>1 DEF StrictContract!Next
<1>3. ASSUME Contract!Quiet PROVE StrictContract!Next
  BY <1>0, <1>3 DEF Contract!Quiet, StrictContract!Quiet, StrictContract!Next
<1> QED
  BY <1>1, <1>2, <1>3 DEF Silent

LEMMA StepStrict ==
  IInv /\ ExactInv /\ [Next]_vars => [StrictContract!Next]_(StrictContract!vars)
<1> SUFFICES ASSUME IInv, ExactInv, [Next]_vars
             PROVE  StrictContract!Next \/ UNCHANGED <<sub, filters, entry, Heard, Up>>
  BY DEF StrictContract!vars
<1>0. IInv'
  BY NextInv
<1>1. ASSUME NEW w \in Watchers, Connection(w) \/ Command(w) PROVE StrictContract!Next
  BY <1>0, <1>1, ConnectionSilent, CommandSilent, SilentStrict
<1>2. ASSUME NEW e \in Entries, NEW fails \in SUBSET Filters,
             Handle(e, fails) \/ HandleRaises(e, fails)
      PROVE  StrictContract!Next
  BY <1>2, HandleStrict, RaisesStrict DEF StrictContract!Next
<1>3. CASE UNCHANGED vars
  BY <1>3 DEF vars, Heard, Up
<1> QED
  BY <1>1, <1>2, <1>3 DEF Next

(* When no watcher subscribes while subscribed, the registry implements    *)
(* the strict contract: a format a klass does not list is heard of only    *)
(* while some watcher is subscribed to everything.                         *)
THEOREM StrictPromiseKept ==
  ASSUME Switchers = {}
  PROVE  Spec => StrictPromise
<1>1. Init => StrictContract!Init
  BY NothingIsHeard DEF Init, StrictContract!Init, NoEntry, StrictContract!NoEntry, Up
<1>2. IInv /\ ExactInv /\ [Next]_vars => ExactInv'
  BY ExactNext
<1> QED
  BY <1>1, <1>2, ExactInit, StepStrict, Invariance, PTL
  DEF Spec, StrictPromise, StrictContract!Spec
=============================================================================
